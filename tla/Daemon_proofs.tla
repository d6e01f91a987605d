---------------------------- MODULE Daemon_proofs ----------------------------
(***************************************************************************)
(* Proofs about Settings and Daemon for any number of runs, settings and   *)
(* values: the files always parse to settings of their types, a setting is *)
(* what it was last set to, and a stop reaches every daemon.               *)
(***************************************************************************)
EXTENDS Daemon, TLAPS

Places == {"idle", "open", "fill", "asked", "lock", "check", "slept", "recheck", "reap",
           "settle", "stopping", "done", "dead"}
Lives == {"none", "shell", "boot", "idle", "starting", "connected", "dying", "dead"}
Outcomes == {"none", "started", "busy", "error", "stopped"}
Events == Lapses \cup {"start", "stop", "off"}
Drafts == [file : {"none", "config", "overrides"}, config : Config, overrides : Overrides,
           key : Key \cup {None}, starts : BOOLEAN]

(* Where a run may stand with its command, and which file it is writing,    *)
(* unless a reset has removed it.                                           *)
FileOf(r) == IF cmd[r] \in {"set", "clear"} THEN "overrides" ELSE "config"
Writing(r) == at[r] \in {"open", "fill"}

PlaceOK ==
    \A r \in Run :
        /\ Writing(r) \/ at[r] = "asked" => cmd[r] \in {"set", "clear", "autostart", "setup"}
        /\ at[r] = "asked" => cmd[r] = "setup"
        /\ at[r] = "open" => draft[r].file = FileOf(r)
        /\ at[r] = "fill" => draft[r].file \in {FileOf(r), "none"}
        /\ cmd[r] \in {"stop", "reset"} => at[r] \in {"idle", "stopping", "done", "dead"}

(* The variables that only Daemon has.                                      *)
DaemonTypeOK ==
    /\ dmn \in [Daemons -> Lives]
    /\ owner \in Daemons \cup {0}
    /\ spawnLock \in Run \cup {None}
    /\ result \in [Run -> Outcomes]
    /\ since \in [Run -> SUBSET Events]

(* The first inductive invariant: types and places.                         *)
TypeInv == SettingsTypeOK /\ at \in [Run -> Places] /\ DaemonTypeOK /\ PlaceOK

-----------------------------------------------------------------------------
(* What is loaded.                                                          *)

LEMMA DefaultTypes == Defaults \in [Key -> Value] /\ NoConfig \in Config /\ NoOverrides \in Overrides
  BY KeyAssumption DEF Defaults, NoConfig, Config, NoOverrides, Overrides

LEMMA NoDraftType == NoDraft \in Drafts
  BY DefaultTypes DEF NoDraft, Drafts

LEMMA MergedType ==
    ASSUME NEW base \in Config, NEW over \in Overrides
    PROVE  /\ Merged(base, over) \in Config
           /\ Merged(base, over).there = base.there
           /\ \A k \in Key : Merged(base, over).value[k] = IF over[k] = None THEN base.value[k] ELSE over[k]
  BY DEF Merged, Config, Overrides

LEMMA LoadedType ==
    ASSUME SettingsTypeOK
    PROVE  /\ Base \in Config /\ Overridden \in Overrides /\ Loaded \in Config
           /\ Loaded.there = Base.there
           /\ \A k \in Key : Loaded.value[k] = IF Overridden[k] = None THEN Base.value[k] ELSE Overridden[k]
  <1>1. Base \in Config /\ Overridden \in Overrides
    BY DefaultTypes, EnvAssumption DEF SettingsTypeOK, Base, Overridden, Config
  <1> QED BY <1>1, MergedType DEF Loaded

LEMMA InitTypeInv == Init => TypeInv
  <1> SUFFICES ASSUME Init PROVE TypeInv
    OBVIOUS
  <1> USE DEF Init, SettingsInit
  <1>1. PICK c \in Cases : fromEnv = c.env /\ cmd = c.cmd /\ may = c.may
    OBVIOUS
  <1>2. fromEnv \in BOOLEAN /\ cmd \in [Run -> Commands] /\ may \in SUBSET Lapses
    BY <1>1, CasesAssumption
  <1>3. config \in Config
    BY DefaultTypes, <1>2 DEF Config, NoConfig
  <1>4. SettingsTypeOK
    BY <1>2, <1>3, DefaultTypes, NoDraftType, EnvAssumption DEF SettingsTypeOK, Drafts, Overrides, NoOverrides
  <1>5. at \in [Run -> Places] /\ DaemonTypeOK
    BY DEF DaemonTypeOK, Daemons, Places, Lives, Outcomes
  <1> QED BY <1>4, <1>5 DEF TypeInv, PlaceOK, Writing

-----------------------------------------------------------------------------
(* Types and places are kept.                                               *)

LEMMA NoteType ==
    ASSUME SettingsTypeOK, UNCHANGED may, NEW l, Note(l)
    PROVE  lapses' \subseteq may' /\ may' \subseteq Lapses
  BY DEF SettingsTypeOK, Note

LEMMA DaemonTypesKept == ASSUME DaemonTypeOK, UNCHANGED daemonVars PROVE DaemonTypeOK'
  BY DEF DaemonTypeOK, daemonVars, Daemons

(* A run takes up a draft of the file that its command writes.              *)
LEMMA WriteTypes ==
    ASSUME TypeInv, NEW r \in Run, NEW d \in Drafts, Write(r, d), NEW l, Note(l),
           UNCHANGED <<fromEnv, fileVars, cmd, wishVars, may, daemonVars>>,
           cmd[r] \in {"set", "clear", "autostart", "setup"}, d.file = FileOf(r)
    PROVE  TypeInv'
  <1> USE DEF TypeInv, Write, fileVars, wishVars
  <1>1. SettingsTypeOK'
    BY NoteType DEF SettingsTypeOK, Drafts
  <1>2. (at \in [Run -> Places])'
    BY DEF Places
  <1>3. DaemonTypeOK'
    BY DaemonTypesKept
  <1>4. PlaceOK'
    BY DEF PlaceOK, Writing, FileOf, SettingsTypeOK, Drafts
  <1> QED BY <1>1, <1>2, <1>3, <1>4

(* A run moves on and writes nothing.                                       *)
LEMMA MoveTypes ==
    ASSUME TypeInv, NEW r \in Run, NEW p \in Places \ {"open", "fill", "asked"},
           at' = [at EXCEPT ![r] = p],
           cmd[r] \in {"stop", "reset"} => p \in {"stopping", "done", "dead"},
           UNCHANGED <<fromEnv, fileVars, cmd, draft, wishVars, may>>,
           lapses' \subseteq may', DaemonTypeOK'
    PROVE  TypeInv'
  <1> USE DEF TypeInv, fileVars, wishVars
  <1>1. SettingsTypeOK'
    BY DEF SettingsTypeOK
  <1>2. (at \in [Run -> Places])'
    BY DEF Places
  <1>3. PlaceOK'
    BY DEF PlaceOK, Writing, FileOf
  <1> QED BY <1>1, <1>2, <1>3

LEMMA FillTypes ==
    ASSUME TypeInv, NEW r \in Run, Fill(r), UNCHANGED daemonVars
    PROVE  TypeInv'
  <1> USE DEF TypeInv, fileVars, wishVars
  <1>1. draft[r] \in Drafts /\ cmd[r] \in {"set", "clear", "autostart", "setup"}
    BY DEF Fill, SettingsTypeOK, Drafts, PlaceOK, Writing
  <1>2. draft[r].config \in Config /\ draft[r].overrides \in Overrides /\ draft[r].config.value \in [Key -> Value]
    BY <1>1 DEF Drafts, Config
  <1>3. want' \in Overrides /\ intended' \in [Key -> Value] /\ baked' \subseteq Key
    <2>1. CASE cmd[r] \in {"set", "clear"}
      <3>1. /\ want' = [k \in Key |-> IF draft[r].key \in {k, None} THEN draft[r].overrides[k] ELSE want[k]]
            /\ UNCHANGED <<intended, baked>>
        BY <2>1 DEF Fill, Wishes
      <3> QED BY <1>2, <3>1 DEF Overrides, SettingsTypeOK
    <2>2. CASE cmd[r] = "autostart"
      <3>1. /\ baked' = (IF fromEnv THEN {} ELSE {k \in Key : draft[r].overrides[k] # None \/ k \in baked})
            /\ UNCHANGED <<want, intended>>
        BY <2>2 DEF Fill, Wishes
      <3> QED BY <3>1 DEF SettingsTypeOK
    <2>3. CASE cmd[r] = "setup"
      <3>1. /\ intended' = (IF fromEnv THEN intended ELSE draft[r].config.value) /\ baked' = {}
            /\ UNCHANGED want
        BY <2>3 DEF Fill, Wishes
      <3> QED BY <1>2, <3>1 DEF SettingsTypeOK
    <2> QED BY <1>1, <2>1, <2>2, <2>3
  <1>4. SettingsTypeOK'
    BY <1>2, <1>3 DEF Fill, SettingsTypeOK
  <1>5. (at \in [Run -> Places])'
    BY DEF Fill, Places
  <1>6. DaemonTypeOK'
    BY DaemonTypesKept
  <1>7. PlaceOK'
    BY <1>1 DEF Fill, PlaceOK, Writing, FileOf
  <1> QED BY <1>4, <1>5, <1>6, <1>7

LEMMA OpenTypes ==
    ASSUME TypeInv, NEW r \in Run, Open(r), UNCHANGED daemonVars
    PROVE  TypeInv'
  <1> USE DEF TypeInv, fileVars, wishVars
  <1>1. draft[r].file \in {"config", "overrides"}
    BY DEF Open, PlaceOK, FileOf
  <1>2. SettingsTypeOK'
    BY <1>1 DEF Open, SettingsTypeOK
  <1>3. (at \in [Run -> Places])'
    BY DEF Open, Places
  <1>4. DaemonTypeOK'
    BY DaemonTypesKept
  <1>5. PlaceOK'
    BY DEF Open, PlaceOK, Writing, FileOf
  <1> QED BY <1>2, <1>3, <1>4, <1>5

(* Every draft is one of the file that its command writes.                  *)
SetDraft(k, v) == [NoDraft EXCEPT !.file = "overrides", !.key = k, !.overrides = [Overridden EXCEPT ![k] = v]]
ClearDraft == [NoDraft EXCEPT !.file = "overrides"]
AutostartDraft == [NoDraft EXCEPT !.file = "config", !.config = [Loaded EXCEPT !.auto = ~Loaded.auto],
                                  !.overrides = Overridden]
SetupDraft(v) == [NoDraft EXCEPT !.file = "config",
                     !.config = [there |-> TRUE, auto |-> TRUE, value |-> [Defaults EXCEPT ![Policy] = v]]]
AgainDraft(r) == [draft[r] EXCEPT !.file = "config", !.starts = TRUE]

LEMMA SetDraftType ==
    ASSUME SettingsTypeOK, NEW k \in Key, NEW v \in Value \cup {None}
    PROVE  /\ SetDraft(k, v) \in Drafts /\ SetDraft(k, v).file = "overrides" /\ SetDraft(k, v).key = k
           /\ \A j \in Key \ {k} : SetDraft(k, v).overrides[j] = Overridden[j]
  <1> DEFINE o == [Overridden EXCEPT ![k] = v]
  <1>1. o \in Overrides /\ \A j \in Key \ {k} : o[j] = Overridden[j]
    BY LoadedType DEF Overrides
  <1> HIDE DEF o
  <1>2. [NoDraft EXCEPT !.file = "overrides", !.key = k, !.overrides = o] \in Drafts
    BY <1>1, NoDraftType DEF Drafts, NoDraft
  <1>3. [NoDraft EXCEPT !.file = "overrides", !.key = k, !.overrides = o].overrides = o
    BY DEF NoDraft
  <1>4. /\ [NoDraft EXCEPT !.file = "overrides", !.key = k, !.overrides = o].file = "overrides"
        /\ [NoDraft EXCEPT !.file = "overrides", !.key = k, !.overrides = o].key = k
    BY DEF NoDraft
  <1>5. SetDraft(k, v) = [NoDraft EXCEPT !.file = "overrides", !.key = k, !.overrides = o]
    BY DEF SetDraft, o
  <1> QED BY <1>1, <1>2, <1>3, <1>4, <1>5

LEMMA ClearDraftType ==
    ClearDraft \in Drafts /\ ClearDraft.file = "overrides" /\ ClearDraft.key = None
  BY NoDraftType DEF ClearDraft, Drafts, NoDraft

LEMMA AutostartDraftType ==
    ASSUME SettingsTypeOK
    PROVE  /\ AutostartDraft \in Drafts /\ AutostartDraft.file = "config"
           /\ AutostartDraft.overrides = Overridden /\ AutostartDraft.config.value = Loaded.value
  <1>1. [Loaded EXCEPT !.auto = ~Loaded.auto] \in Config
        /\ [Loaded EXCEPT !.auto = ~Loaded.auto].value = Loaded.value
    BY LoadedType DEF Config
  <1> QED BY <1>1, NoDraftType, LoadedType DEF AutostartDraft, Drafts, NoDraft

LEMMA SetupDraftType ==
    ASSUME NEW v \in Value PROVE SetupDraft(v) \in Drafts /\ SetupDraft(v).file = "config"
  <1>1. [there |-> TRUE, auto |-> TRUE, value |-> [Defaults EXCEPT ![Policy] = v]] \in Config
    BY DefaultTypes DEF Config
  <1> QED BY <1>1, NoDraftType DEF SetupDraft, Drafts, NoDraft

LEMMA AgainDraftType ==
    ASSUME SettingsTypeOK, NEW r \in Run
    PROVE  AgainDraft(r) \in Drafts /\ AgainDraft(r).file = "config"
  <1>1. draft[r] \in Drafts
    BY DEF SettingsTypeOK, Drafts
  <1> QED BY <1>1 DEF AgainDraft, Drafts

LEMMA SettingsStepTypes ==
    ASSUME TypeInv, NEW r \in Run, SettingsStep(r), UNCHANGED daemonVars
    PROVE  TypeInv'
  <1> USE DEF TypeInv
  <1>1. ASSUME Set(r) PROVE TypeInv'
    <2>1. PICK k \in Key, v \in Input : Parsed(v) /\ Write(r, SetDraft(k, v))
      BY <1>1 DEF Set, SetDraft
    <2>2. SetDraft(k, v) \in Drafts /\ SetDraft(k, v).file = "overrides"
      BY <2>1, SetDraftType DEF Parsed
    <2> QED BY <1>1, <2>1, <2>2, WriteTypes DEF Set, FileOf
  <1>2. ASSUME Clear(r) PROVE TypeInv'
    <2>1. PICK d \in Drafts : d.file = "overrides" /\ Write(r, d)
      <3>1. ASSUME NEW k \in Key, Write(r, SetDraft(k, None))
            PROVE  \E d \in Drafts : d.file = "overrides" /\ Write(r, d)
        BY <3>1, SetDraftType
      <3> QED BY <1>2, <3>1, ClearDraftType DEF Clear, SetDraft, ClearDraft
    <2> QED BY <1>2, <2>1, WriteTypes DEF Clear, FileOf
  <1>3. ASSUME Autostart(r) PROVE TypeInv'
    <2>1. CASE Loaded.there
      BY <1>3, <2>1, AutostartDraftType, WriteTypes DEF Autostart, AutostartDraft, FileOf
    <2>2. CASE ~Loaded.there
      <3>1. at' = [at EXCEPT ![r] = "done"] /\ UNCHANGED draft /\ Note(Race(r))
            /\ UNCHANGED <<fromEnv, fileVars, cmd, wishVars, may>>
        BY <1>3, <2>2 DEF Autostart
      <3> QED BY <3>1, NoteType, MoveTypes, DaemonTypesKept DEF Places
    <2> QED BY <2>1, <2>2
  <1>4. ASSUME Setup(r) PROVE TypeInv'
    <2>1. PICK v \in Value : Write(r, SetupDraft(v))
      BY <1>4 DEF Setup, SetupDraft
    <2> QED BY <1>4, <2>1, SetupDraftType, WriteTypes DEF Setup, FileOf
  <1>5. ASSUME Confirm(r) PROVE TypeInv'
    <2>1. cmd[r] = "setup" /\ Note(Race(r)) /\ UNCHANGED <<fromEnv, fileVars, cmd, wishVars, may>>
      BY <1>5 DEF Confirm, PlaceOK
    <2>2. CASE Write(r, AgainDraft(r))
      BY <2>1, <2>2, AgainDraftType, WriteTypes DEF FileOf
    <2>3. CASE at' = [at EXCEPT ![r] = "done"] /\ UNCHANGED draft
      BY <2>1, <2>3, NoteType, MoveTypes, DaemonTypesKept DEF Places
    <2> QED BY <1>5, <2>2, <2>3 DEF Confirm, AgainDraft
  <1>6. ASSUME Dies(r) PROVE TypeInv'
    BY <1>6, NoteType, MoveTypes, DaemonTypesKept DEF Dies, Places
  <1> QED BY <1>1, <1>2, <1>3, <1>4, <1>5, <1>6, OpenTypes, FillTypes DEF SettingsStep

(* The steps of startDaemon.                                                *)
LEMMA StartStepTypes ==
    ASSUME TypeInv, NEW r \in Run,
           \/ BeginStart(r) \/ TakeSpawnLock(r) \/ GiveUpSpawnLock(r) \/ Check(r) \/ Slept(r)
           \/ Recheck(r) \/ Launch(r) \/ Settle(r)
    PROVE  TypeInv'
  <1> USE DEF TypeInv
  <1>1. /\ UNCHANGED <<fromEnv, fileVars, cmd, draft, wishVars, may>>
        /\ \E p \in {"done", "lock", "check", "slept", "recheck", "reap", "settle"} : at' = [at EXCEPT ![r] = p]
    BY DEF BeginStart, TakeSpawnLock, GiveUpSpawnLock, Check, Slept, Recheck, Launch, Settle, Goto, Finish
  <1>2. cmd[r] \notin {"stop", "reset"}
    BY DEF BeginStart, TakeSpawnLock, GiveUpSpawnLock, Check, Slept, Recheck, Launch, Settle, PlaceOK
  <1>3. lapses' \subseteq may'
    <2>1. UNCHANGED lapses \/ Note({"slow"})
      BY DEF BeginStart, TakeSpawnLock, GiveUpSpawnLock, Check, Slept, Recheck, Launch, Settle, Slow
    <2> QED BY <1>1, <2>1, NoteType DEF SettingsTypeOK
  <1>4. dmn' \in [Daemons -> Lives] /\ owner' \in Daemons \cup {0}
    <2>1. UNCHANGED owner
      BY DEF BeginStart, TakeSpawnLock, GiveUpSpawnLock, Check, Slept, Recheck, Launch, Settle
    <2>2. \/ UNCHANGED dmn
          \/ Terminate({owner})
          \/ \E n \in Daemons : dmn' = [d \in Daemons |-> IF d = n THEN "shell"
                                            ELSE IF d \notin Reaped THEN dmn[d]
                                            ELSE IF dmn[d] = "boot" THEN "dead" ELSE "dying"]
      BY DEF BeginStart, TakeSpawnLock, GiveUpSpawnLock, Check, Slept, Recheck, Launch, Settle
    <2> QED BY <2>1, <2>2 DEF DaemonTypeOK, Terminate, Lives
  <1>5. spawnLock' \in Run \cup {None} /\ result' \in [Run -> Outcomes]
    <2>1. \/ UNCHANGED <<spawnLock, result>>
          \/ spawnLock' = r /\ UNCHANGED result
          \/ \E o \in {"error", "busy", "started"} : Finish(r, o)
      BY DEF BeginStart, TakeSpawnLock, GiveUpSpawnLock, Check, Slept, Recheck, Launch, Settle
    <2> QED BY <2>1 DEF DaemonTypeOK, Finish, Outcomes
  <1>6. since' \in [Run -> SUBSET Events]
    <2>1. UNCHANGED since \/ Begins(r, {}) \/ Happens({"start"})
      BY DEF BeginStart, TakeSpawnLock, GiveUpSpawnLock, Check, Slept, Recheck, Launch, Settle
    <2> QED BY <2>1 DEF DaemonTypeOK, Begins, Happens, Events
  <1>7. DaemonTypeOK'
    BY <1>4, <1>5, <1>6 DEF DaemonTypeOK, Daemons
  <1> QED BY <1>1, <1>2, <1>3, <1>7, MoveTypes DEF Places

(* The steps of stopDaemon, with what reset removes.                        *)
LEMMA UnlinkedType ==
    ASSUME SettingsTypeOK
    PROVE  /\ Unlinked \in [Run -> Drafts]
           /\ \A q \in Run : /\ Unlinked[q].file \in {draft[q].file, "none"}
                             /\ at[q] # "fill" => Unlinked[q] = draft[q]
  <1>1. draft \in [Run -> Drafts]
    BY DEF SettingsTypeOK, Drafts
  <1>2. ASSUME NEW q \in Run
        PROVE  [draft[q] EXCEPT !.file = "none"] \in Drafts /\ [draft[q] EXCEPT !.file = "none"].file = "none"
    BY <1>1 DEF Drafts
  <1> QED BY <1>1, <1>2 DEF Unlinked

LEMMA StopStepTypes ==
    ASSUME TypeInv, NEW r \in Run, BeginStop(r) \/ EndStop(r)
    PROVE  TypeInv'
  <1> USE DEF TypeInv
  <1>1. cmd[r] \in {"stop", "restart", "reset"} \/ at[r] = "stopping"
    BY DEF BeginStop, EndStop
  <1>2. UNCHANGED <<fromEnv, overrides, cmd, want, may, owner, spawnLock>>
    BY DEF BeginStop, EndStop
  <1>3. \/ /\ cmd[r] \in {"stop", "restart", "reset"}
           /\ at' = [at EXCEPT ![r] = "stopping"] /\ UNCHANGED <<config, torn, draft, intended, baked, result>>
        \/ AfterStop(r)
    BY DEF BeginStop, EndStop, Goto
  <1>4. lapses' \subseteq may' /\ may' \subseteq Lapses
    <2>1. UNCHANGED lapses \/ Note(Removes(r))
          \/ Note({l \in {"slow"} : \E d \in Daemons : dmn[d] = "dying"} \cup Removes(r))
      BY DEF BeginStop, EndStop
    <2> QED BY <1>2, <2>1, NoteType DEF SettingsTypeOK
  <1>5. DaemonTypeOK'
    <2>1. dmn' \in [Daemons -> Lives]
      <3>1. Terminate({owner}) \/ Terminate(Reaped)
        BY DEF BeginStop, EndStop
      <3> QED BY <3>1 DEF Terminate, DaemonTypeOK, Lives
    <2>2. since' \in [Run -> SUBSET Events]
      <3>1. UNCHANGED since \/ Begins(r, {"stop"})
        BY DEF BeginStop, EndStop
      <3> QED BY <3>1 DEF DaemonTypeOK, Begins, Events
    <2>3. result' \in [Run -> Outcomes]
      BY <1>3 DEF AfterStop, DaemonTypeOK, Outcomes
    <2> QED BY <1>2, <2>1, <2>2, <2>3 DEF DaemonTypeOK, Daemons
  <1>6. CASE UNCHANGED <<config, torn, draft, intended, baked>>
    <2>1. \E p \in {"stopping", "lock", "done"} :
             at' = [at EXCEPT ![r] = p] /\ (cmd[r] \in {"stop", "reset"} => p \in {"stopping", "done"})
      BY <1>3 DEF AfterStop, Goto
    <2> QED BY <1>2, <1>4, <1>5, <1>6, <2>1, MoveTypes DEF Places, fileVars, wishVars
  <1>7. ASSUME AfterStop(r), cmd[r] = "reset" PROVE TypeInv'
    <2>1. /\ config' = NoConfig /\ torn' = torn \ {"config"} /\ draft' = Unlinked
          /\ intended' = (IF fromEnv THEN intended ELSE Defaults) /\ baked' = {}
          /\ at' = [at EXCEPT ![r] = "done"]
      BY <1>7 DEF AfterStop, Goto
    <2>2. SettingsTypeOK'
      BY <1>2, <1>4, <2>1, DefaultTypes, UnlinkedType DEF SettingsTypeOK, Drafts
    <2>3. (at \in [Run -> Places])'
      BY <2>1 DEF Places
    <2>4. PlaceOK'
      BY <1>2, <1>7, <2>1, UnlinkedType DEF PlaceOK, Writing, FileOf
    <2> QED BY <1>5, <2>2, <2>3, <2>4
  <1> QED BY <1>3, <1>6, <1>7 DEF AfterStop

(* The steps of the daemons.                                                *)
LEMMA DaemonStepTypes ==
    ASSUME TypeInv, NEW d \in Daemons, DaemonStep(d) \/ ConnectFails(d) \/ Crash(d)
    PROVE  TypeInv'
  <1> USE DEF TypeInv
  <1>1. UNCHANGED <<fromEnv, fileVars, cmd, at, draft, wishVars, may, spawnLock, result>>
    BY DEF DaemonStep, Exec, Boot, Connect, End, ConnectFails, Crash, settingsVars
  <1>2. lapses' \subseteq may'
    <2>1. UNCHANGED lapses \/ \E l \in Lapses : Note({l})
      BY DEF DaemonStep, Exec, Boot, Connect, End, ConnectFails, Crash, settingsVars, Lapses
    <2> QED BY <1>1, <2>1, NoteType DEF SettingsTypeOK
  <1>3. dmn' \in [Daemons -> Lives]
    <2>1. \E l \in Lives : Becomes(d, l)
      BY DEF DaemonStep, Exec, Boot, Connect, End, ConnectFails, Crash, Lives
    <2> QED BY <2>1 DEF Becomes, DaemonTypeOK
  <1>4. owner' \in Daemons \cup {0}
    BY DEF DaemonStep, Exec, Boot, Connect, End, ConnectFails, Crash, Released, DaemonTypeOK
  <1>5. since' \in [Run -> SUBSET Events]
    <2>1. UNCHANGED since \/ \E e \in SUBSET {"off", "failed", "crash"} : Happens(e)
      BY DEF DaemonStep, Exec, Boot, Connect, End, ConnectFails, Crash
    <2> QED BY <2>1 DEF DaemonTypeOK, Happens, Events, Lapses
  <1>6. DaemonTypeOK'
    BY <1>1, <1>3, <1>4, <1>5 DEF DaemonTypeOK, Daemons
  <1>7. SettingsTypeOK'
    BY <1>1, <1>2 DEF SettingsTypeOK, fileVars, wishVars
  <1> QED BY <1>1, <1>6, <1>7 DEF PlaceOK, Writing, FileOf

LEMMA NextTypeInv == TypeInv /\ [Next]_vars => TypeInv'
  <1> SUFFICES ASSUME TypeInv, [Next]_vars PROVE TypeInv'
    OBVIOUS
  <1>1. ASSUME NEW r \in Run, RunStep(r) PROVE TypeInv'
    BY <1>1, SettingsStepTypes, StartStepTypes, StopStepTypes DEF RunStep
  <1>2. CASE UNCHANGED vars
    BY <1>2 DEF vars, settingsVars, daemonVars, fileVars, wishVars, TypeInv, SettingsTypeOK,
                DaemonTypeOK, Daemons, PlaceOK, Writing, FileOf
  <1> QED BY <1>1, <1>2, DaemonStepTypes DEF Next

(* The files, the drafts and the record are always of their types, whatever *)
(* is typed, whoever writes at once and whatever dies in between.           *)
THEOREM SettingsTyped == Spec => []TypeOK
  <1>1. TypeInv => TypeOK
    BY DEF TypeInv, TypeOK, DaemonTypeOK, Places, Lives, Outcomes, Events
  <1> QED BY <1>1, InitTypeInv, NextTypeInv, PTL DEF Spec

-----------------------------------------------------------------------------
(* SettingsHold.  As long as no two runs write at once and none dies, one   *)
(* run at most has a file open, what it will write is what was in the file  *)
(* when it read it but for what it changes, and the files hold the wishes.  *)

Calm == lapses \cap {"race", "dies"} = {}

WriterOK == Calm =>
    /\ \A r, q \in Run : Writing(r) /\ Writing(q) => r = q
    /\ \A r \in Run : at[r] = "fill" => draft[r].file # "none"
    /\ torn = {FileOf(r) : r \in {q \in Run : at[q] = "fill"}}

(* What a run is about to write.                                            *)
DraftGood(r) ==
    /\ cmd[r] \in {"set", "clear"} => \A k \in Key :
          draft[r].key \notin {k, None} => draft[r].overrides[k] = overrides[k]
    /\ cmd[r] = "autostart" /\ ~fromEnv => \A k \in Key :
          draft[r].overrides[k] = None /\ k \notin baked => draft[r].config.value[k] = intended[k]

DraftOK == Calm => \A r \in Run : Writing(r) => DraftGood(r)

WishGood ==
    /\ \A k \in Key : want[k] = overrides[k]
    /\ fromEnv => intended = EnvValue
    /\ ~fromEnv => \A k \in Key : k \in baked \/ config.value[k] = intended[k]

WishOK == Calm => WishGood

FilesInv == WriterOK /\ DraftOK /\ WishOK

LEMMA FilesImply == TypeInv /\ FilesInv => SettingsHold
  <1> SUFFICES ASSUME TypeInv, FilesInv, torn = {}, Calm, NEW k \in Key
               PROVE  IF want[k] # None THEN Loaded.value[k] = want[k]
                      ELSE k \in baked \/ Loaded.value[k] = intended[k]
    BY DEF SettingsHold, Calm
  <1>1. Overridden = overrides
    BY DEF Overridden
  <1>2. Base.value = IF fromEnv THEN EnvValue ELSE config.value
    BY DEF Base
  <1>3. Loaded.value[k] = IF overrides[k] = None THEN Base.value[k] ELSE overrides[k]
    BY <1>1, LoadedType DEF TypeInv
  <1> QED BY <1>2, <1>3 DEF FilesInv, WishOK, WishGood

LEMMA InitFilesInv == Init => FilesInv
  <1> SUFFICES ASSUME Init PROVE FilesInv
    OBVIOUS
  <1> USE DEF Init, SettingsInit
  <1>1. \A r \in Run : ~Writing(r)
    BY DEF Writing
  <1>2. {q \in Run : at[q] = "fill"} = {}
    OBVIOUS
  <1>3. WishGood
    <2>1. \A k \in Key : NoOverrides[k] = None
      BY DEF NoOverrides
    <2>2. config.value = Defaults
      BY DEF NoConfig
    <2> QED BY <2>1, <2>2 DEF WishGood
  <1> QED BY <1>1, <1>2, <1>3 DEF FilesInv, WriterOK, DraftOK, WishOK, Writing

(* A step after which all is calm found all calm; and who reads, or removes *)
(* a file, then finds nobody writing.                                       *)
LEMMA CalmBefore ==
    ASSUME NEW l, Note(l), Calm'
    PROVE  Calm /\ l \cap {"race", "dies"} = {}
  BY DEF Note, Calm

LEMMA NobodyWrites ==
    ASSUME NEW r \in Run, NEW l, Race(r) \subseteq l, Note(l), Calm', ~Writing(r)
    PROVE  \A q \in Run : ~Writing(q)
  <1>1. "race" \notin Race(r)
    BY CalmBefore
  <1> QED BY <1>1 DEF Race, Writing

(* A step that touches neither a file nor a draft, of a run that is not and *)
(* will not be writing, if any.                                             *)
LEMMA QuietFiles ==
    ASSUME FilesInv, UNCHANGED <<fromEnv, fileVars, cmd, draft, wishVars>>,
           Calm' => Calm,
           \A q \in Run : at'[q] = at[q] \/ (~Writing(q) /\ at'[q] \notin {"open", "fill"})
    PROVE  FilesInv'
  <1> USE DEF fileVars, wishVars
  <1>1. \A q \in Run : /\ Writing(q)' <=> Writing(q)
                       /\ at'[q] = "fill" <=> at[q] = "fill"
    BY DEF Writing
  <1>2. {q \in Run : at'[q] = "fill"} = {q \in Run : at[q] = "fill"}
    BY <1>1
  <1>3. \A q \in Run : FileOf(q)' = FileOf(q)
    BY DEF FileOf
  <1>4. ASSUME Calm' PROVE torn' = {FileOf(q)' : q \in {p \in Run : at'[p] = "fill"}}
    BY <1>2, <1>3, <1>4 DEF FilesInv, WriterOK
  <1>5. WriterOK'
    BY <1>1, <1>4 DEF FilesInv, WriterOK
  <1>6. DraftOK'
    BY <1>1 DEF FilesInv, DraftOK, DraftGood
  <1>7. WishOK'
    BY DEF FilesInv, WishOK, WishGood
  <1> QED BY <1>5, <1>6, <1>7 DEF FilesInv

(* A run takes up a draft.                                                  *)
LEMMA WriteFiles ==
    ASSUME TypeInv, FilesInv, NEW r \in Run, NEW d, Write(r, d), ~Writing(r), Note(Race(r)),
           UNCHANGED <<fromEnv, fileVars, cmd, wishVars>>,
           Calm' => DraftGood(r)'
    PROVE  FilesInv'
  <1> USE DEF fileVars, wishVars
  <1>1. CASE ~Calm'
    BY <1>1 DEF FilesInv, WriterOK, DraftOK, WishOK
  <1>2. CASE Calm'
    <2>1. Calm /\ \A q \in Run : ~Writing(q)
      BY <1>2, CalmBefore, NobodyWrites
    <2>2. at' = [at EXCEPT ![r] = "open"] /\ at \in [Run -> Places]
      BY DEF Write, TypeInv
    <2>3. \A q \in Run : /\ Writing(q)' => q = r
                         /\ at'[q] # "fill" /\ at[q] # "fill"
      BY <2>1, <2>2 DEF Writing
    <2>4. torn = {} /\ torn' = {}
      BY <2>1, <2>3 DEF FilesInv, WriterOK
    <2>5. {q \in Run : at'[q] = "fill"} = {}
      BY <2>3
    <2>6. WriterOK'
      BY <2>3, <2>4, <2>5 DEF WriterOK
    <2>7. DraftOK'
      BY <1>2, <2>3 DEF DraftOK
    <2>8. WishOK'
      BY <2>1 DEF FilesInv, WishOK, WishGood
    <2> QED BY <2>6, <2>7, <2>8 DEF FilesInv
  <1> QED BY <1>1, <1>2

(* The one run that writes opens its file.                                  *)
LEMMA OpenFiles ==
    ASSUME TypeInv, FilesInv, NEW r \in Run, Open(r) PROVE FilesInv'
  <1> USE DEF fileVars, wishVars
  <1>1. /\ at[r] = "open" /\ at' = [at EXCEPT ![r] = "fill"] /\ at \in [Run -> Places]
        /\ torn' = torn \cup {draft[r].file}
        /\ UNCHANGED <<fromEnv, config, overrides, cmd, draft, wishVars, may, lapses>>
    BY DEF Open, TypeInv
  <1>2. CASE ~Calm
    BY <1>1, <1>2 DEF Calm, FilesInv, WriterOK, DraftOK, WishOK
  <1>3. CASE Calm
    <2>1. \A q \in Run : Writing(q) => q = r
      BY <1>1, <1>3 DEF FilesInv, WriterOK, Writing
    <2>2. \A q \in Run : /\ Writing(q)' <=> q = r
                         /\ at'[q] = "fill" <=> q = r
                         /\ at[q] # "fill"
      BY <1>1, <2>1 DEF Writing
    <2>3. draft[r].file = FileOf(r) /\ FileOf(r) # "none" /\ FileOf(r)' = FileOf(r)
      BY <1>1 DEF TypeInv, PlaceOK, FileOf
    <2>4. {q \in Run : at[q] = "fill"} = {} /\ {q \in Run : at'[q] = "fill"} = {r}
      BY <2>2
    <2>5. torn' = {FileOf(r)}
      BY <1>1, <1>3, <2>3, <2>4 DEF FilesInv, WriterOK
    <2>6. WriterOK'
      BY <1>1, <2>2, <2>3, <2>4, <2>5 DEF WriterOK
    <2>7. DraftGood(r)
      BY <1>1, <1>3 DEF FilesInv, DraftOK, Writing
    <2>8. DraftOK'
      BY <1>1, <2>2, <2>7 DEF DraftOK, DraftGood
    <2>9. WishOK'
      BY <1>1, <1>3 DEF FilesInv, WishOK, WishGood
    <2> QED BY <2>6, <2>8, <2>9 DEF FilesInv
  <1> QED BY <1>2, <1>3

(* ... and fills it: the wishes change with what is written.                *)
LEMMA FillFiles ==
    ASSUME TypeInv, FilesInv, NEW r \in Run, Fill(r) PROVE FilesInv'
  <1>1. /\ at[r] = "fill" /\ Wishes(r) /\ at \in [Run -> Places]
        /\ config' = (IF draft[r].file = "config" THEN draft[r].config ELSE config)
        /\ overrides' = (IF draft[r].file = "overrides" THEN draft[r].overrides ELSE overrides)
        /\ torn' = torn \ {draft[r].file}
        /\ UNCHANGED <<fromEnv, cmd, draft, may, lapses>>
    BY DEF Fill, TypeInv
  <1>2. CASE ~Calm
    BY <1>1, <1>2 DEF Calm, FilesInv, WriterOK, DraftOK, WishOK
  <1>3. CASE Calm
    <2>1. \A q \in Run : Writing(q) => q = r
      BY <1>1, <1>3 DEF FilesInv, WriterOK, Writing
    <2>2. \E p \in {"done", "lock", "asked"} : at' = [at EXCEPT ![r] = p]
      BY DEF Fill
    <2>3. \A q \in Run : ~Writing(q)' /\ at'[q] # "fill"
      BY <1>1, <2>1, <2>2 DEF Writing
    <2>4. draft[r].file = FileOf(r) /\ cmd[r] \in {"set", "clear", "autostart", "setup"}
      BY <1>1, <1>3 DEF FilesInv, WriterOK, TypeInv, PlaceOK, Writing
    <2>5. {q \in Run : at[q] = "fill"} = {r} /\ {q \in Run : at'[q] = "fill"} = {}
      BY <1>1, <2>1, <2>3 DEF Writing
    <2>6. torn' = {}
      BY <1>1, <1>3, <2>4, <2>5 DEF FilesInv, WriterOK
    <2>7. WriterOK' /\ DraftOK'
      BY <2>3, <2>5, <2>6 DEF WriterOK, DraftOK
    <2>8. DraftGood(r) /\ WishGood
      BY <1>1, <1>3 DEF FilesInv, DraftOK, WishOK, Writing
    <2>9. ASSUME cmd[r] \in {"set", "clear"} PROVE WishGood'
      <3>1. overrides' = draft[r].overrides /\ config' = config
        BY <1>1, <2>4, <2>9 DEF FileOf
      <3>2. /\ want' = [k \in Key |-> IF draft[r].key \in {k, None} THEN draft[r].overrides[k] ELSE want[k]]
            /\ UNCHANGED <<intended, baked>>
        BY <1>1, <2>9 DEF Wishes
      <3>3. ASSUME NEW k \in Key PROVE want'[k] = overrides'[k]
        BY <2>8, <2>9, <3>1, <3>2 DEF DraftGood, WishGood
      <3> QED BY <1>1, <2>8, <3>1, <3>2, <3>3 DEF WishGood
    <2>10. ASSUME cmd[r] = "autostart" PROVE WishGood'
      <3>1. overrides' = overrides /\ config' = draft[r].config
        BY <1>1, <2>4, <2>10 DEF FileOf
      <3>2. /\ baked' = (IF fromEnv THEN {} ELSE {k \in Key : draft[r].overrides[k] # None \/ k \in baked})
            /\ UNCHANGED <<want, intended>>
        BY <1>1, <2>10 DEF Wishes
      <3> QED BY <1>1, <2>8, <2>10, <3>1, <3>2 DEF DraftGood, WishGood
    <2>11. ASSUME cmd[r] = "setup" PROVE WishGood'
      <3>1. overrides' = overrides /\ config' = draft[r].config
        BY <1>1, <2>4, <2>11 DEF FileOf
      <3>2. /\ intended' = (IF fromEnv THEN intended ELSE draft[r].config.value) /\ baked' = {}
            /\ UNCHANGED want
        BY <1>1, <2>11 DEF Wishes
      <3> QED BY <1>1, <2>8, <3>1, <3>2 DEF WishGood
    <2>12. WishGood'
      BY <2>4, <2>9, <2>10, <2>11
    <2> QED BY <2>7, <2>12 DEF FilesInv, WishOK
  <1> QED BY <1>2, <1>3

(* A reset removes config.json.                                             *)
LEMMA StopFiles ==
    ASSUME TypeInv, FilesInv, NEW r \in Run, BeginStop(r) \/ EndStop(r) PROVE FilesInv'
  <1>1. /\ UNCHANGED <<fromEnv, overrides, cmd, want>> /\ at \in [Run -> Places]
        /\ ~Writing(r)
    BY DEF BeginStop, EndStop, TypeInv, Writing
  <1>2. \E p \in {"stopping", "lock", "done"} : at' = [at EXCEPT ![r] = p]
    BY DEF BeginStop, EndStop, AfterStop, Goto
  <1>3. \A q \in Run : at'[q] = at[q] \/ (~Writing(q) /\ at'[q] \notin {"open", "fill"})
    BY <1>1, <1>2
  <1>4. /\ Calm' => Calm
        /\ UNCHANGED <<config, torn, draft, intended, baked>> \/ (cmd[r] = "reset" /\ AfterStop(r))
    BY CalmBefore DEF BeginStop, EndStop, AfterStop, Calm
  <1>5. CASE UNCHANGED <<config, torn, draft, intended, baked>>
    BY <1>1, <1>3, <1>4, <1>5, QuietFiles DEF fileVars, wishVars
  <1>6. CASE cmd[r] = "reset" /\ AfterStop(r) /\ Calm'
    <2>1. /\ config' = NoConfig /\ torn' = torn \ {"config"}
          /\ intended' = (IF fromEnv THEN intended ELSE Defaults) /\ baked' = {}
      BY <1>6 DEF AfterStop
    <2>2. at' = [at EXCEPT ![r] = "done"]
      BY <1>6 DEF AfterStop, Goto
    <2>3. PICK l : Note(l) /\ Race(r) \subseteq l
      <3>1. Race(r) = Removes(r)
        BY <1>6 DEF Removes
      <3>2. Note(Removes(r)) \/ Note({l \in {"slow"} : \E d \in Daemons : dmn[d] = "dying"} \cup Removes(r))
        <4>1. ~OwnerLives \/ EndStop(r)
          BY <1>6, <2>2, <1>1 DEF BeginStop, Goto
        <4> QED BY <4>1 DEF BeginStop, EndStop
      <3> QED BY <3>1, <3>2
    <2>4. \A q \in Run : ~Writing(q)
      BY <1>1, <1>6, <2>3, NobodyWrites
    <2>5. \A q \in Run : ~Writing(q)' /\ at[q] # "fill" /\ at'[q] # "fill"
      BY <1>1, <2>2, <2>4 DEF Writing
    <2>6. {q \in Run : at[q] = "fill"} = {} /\ {q \in Run : at'[q] = "fill"} = {}
      BY <2>5
    <2>7. torn' = {}
      BY <1>4, <1>6, <2>1, <2>6 DEF FilesInv, WriterOK
    <2>8. WriterOK' /\ DraftOK'
      BY <2>5, <2>6, <2>7 DEF WriterOK, DraftOK
    <2>9. WishGood'
      BY <1>1, <1>4, <1>6, <2>1 DEF FilesInv, WishOK, WishGood, NoConfig
    <2> QED BY <2>8, <2>9 DEF FilesInv, WishOK
  <1>7. CASE ~Calm'
    BY <1>7 DEF FilesInv, WriterOK, DraftOK, WishOK
  <1> QED BY <1>4, <1>5, <1>6, <1>7

(* The commands that write.                                                 *)
LEMMA SettingsStepFiles ==
    ASSUME TypeInv, FilesInv, NEW r \in Run, SettingsStep(r) PROVE FilesInv'
  <1> USE DEF TypeInv
  <1>1. SettingsTypeOK /\ at \in [Run -> Places] /\ draft \in [Run -> Drafts]
    BY DEF SettingsTypeOK, Drafts
  <1>2. ASSUME Calm', NEW l, Note(l), ~Writing(r), Race(r) \subseteq l
        PROVE  /\ torn = {} /\ Overridden = overrides /\ WishGood
               /\ Base.value = IF fromEnv THEN EnvValue ELSE config.value
    <2>1. Calm /\ \A q \in Run : ~Writing(q)
      BY <1>2, CalmBefore, NobodyWrites
    <2>2. {q \in Run : at[q] = "fill"} = {}
      BY <2>1 DEF Writing
    <2>3. torn = {} /\ WishGood
      BY <2>1, <2>2 DEF FilesInv, WriterOK, WishOK
    <2> QED BY <2>3 DEF Overridden, Base
  <1>3. ASSUME Set(r) \/ Clear(r) PROVE FilesInv'
    <2>1. /\ ~Writing(r) /\ Note(Race(r)) /\ UNCHANGED <<fromEnv, fileVars, cmd, wishVars>>
          /\ cmd[r] \in {"set", "clear"}
      BY <1>3 DEF Set, Clear, Writing
    <2>2. ASSUME NEW k \in Key, NEW v \in Value \cup {None}, Write(r, SetDraft(k, v)) PROVE FilesInv'
      <3>1. draft'[r] = SetDraft(k, v) /\ overrides' = overrides /\ cmd' = cmd
        BY <1>1, <2>1, <2>2 DEF Write, fileVars
      <3>2. ASSUME Calm' PROVE DraftGood(r)'
        <4>1. Overridden = overrides
          BY <1>2, <2>1, <3>2
        <4>2. /\ draft'[r].key = k
              /\ \A j \in Key \ {k} : draft'[r].overrides[j] = overrides'[j]
          BY <1>1, <3>1, <4>1, SetDraftType
        <4> QED BY <2>1, <3>1, <4>2 DEF DraftGood
      <3> QED BY <2>1, <2>2, <3>2, WriteFiles
    <2>3. ASSUME Write(r, ClearDraft) PROVE FilesInv'
      <3>1. draft'[r].key = None /\ cmd' = cmd
        BY <1>1, <2>1, <2>3, ClearDraftType DEF Write
      <3>2. DraftGood(r)'
        BY <2>1, <3>1 DEF DraftGood
      <3> QED BY <2>1, <2>3, <3>2, WriteFiles
    <2> QED BY <1>3, <2>2, <2>3 DEF Set, Clear, Parsed, SetDraft, ClearDraft
  <1>4. ASSUME Autostart(r) PROVE FilesInv'
    <2>1. /\ ~Writing(r) /\ Note(Race(r)) /\ UNCHANGED <<fromEnv, fileVars, cmd, wishVars>>
          /\ cmd[r] = "autostart"
      BY <1>4 DEF Autostart, Writing
    <2>2. CASE Loaded.there
      <3>1. Write(r, AutostartDraft)
        BY <1>4, <2>2 DEF Autostart, AutostartDraft
      <3>2. draft'[r].overrides = Overridden /\ draft'[r].config.value = Loaded.value
        BY <1>1, <3>1, AutostartDraftType DEF Write
      <3>3. ASSUME Calm' PROVE DraftGood(r)'
        <4>1. /\ Overridden = overrides /\ WishGood
              /\ Base.value = IF fromEnv THEN EnvValue ELSE config.value
          BY <1>2, <2>1, <3>3
        <4>2. \A k \in Key : overrides[k] = None => Loaded.value[k] = Base.value[k]
          BY <1>1, <4>1, LoadedType
        <4>3. ASSUME ~fromEnv, NEW k \in Key, overrides[k] = None, k \notin baked
              PROVE  Loaded.value[k] = intended[k]
          BY <4>1, <4>2, <4>3 DEF WishGood
        <4> QED BY <2>1, <3>2, <4>1, <4>3 DEF DraftGood, wishVars
      <3> QED BY <2>1, <3>1, <3>3, WriteFiles
    <2>3. CASE ~Loaded.there
      <3>1. at' = [at EXCEPT ![r] = "done"] /\ UNCHANGED draft
        BY <1>4, <2>3 DEF Autostart
      <3> QED BY <1>1, <2>1, <3>1, CalmBefore, QuietFiles
    <2> QED BY <2>2, <2>3
  <1>5. ASSUME Setup(r) \/ Confirm(r) PROVE FilesInv'
    <2>1. /\ ~Writing(r) /\ Note(Race(r)) /\ UNCHANGED <<fromEnv, fileVars, cmd, wishVars>>
          /\ cmd'[r] = "setup"
      BY <1>5 DEF Setup, Confirm, Writing, PlaceOK
    <2>2. ASSUME NEW d, Write(r, d) PROVE FilesInv'
      BY <2>1, <2>2, WriteFiles DEF DraftGood
    <2>3. CASE at' = [at EXCEPT ![r] = "done"] /\ UNCHANGED draft
      BY <1>1, <2>1, <2>3, CalmBefore, QuietFiles
    <2> QED BY <1>5, <2>2, <2>3 DEF Setup, Confirm
  <1>6. ASSUME Dies(r) PROVE FilesInv'
    <2>1. ~Calm'
      BY <1>6 DEF Dies, Note, Calm
    <2> QED BY <2>1 DEF FilesInv, WriterOK, DraftOK, WishOK
  <1> QED BY <1>3, <1>4, <1>5, <1>6, OpenFiles, FillFiles DEF SettingsStep

LEMMA NextFilesInv == TypeInv /\ FilesInv /\ [Next]_vars => FilesInv'
  <1> SUFFICES ASSUME TypeInv, FilesInv, [Next]_vars PROVE FilesInv'
    OBVIOUS
  <1>1. ASSUME UNCHANGED <<fromEnv, fileVars, cmd, draft, wishVars>>,
               UNCHANGED lapses \/ \E l : Note(l),
               \A q \in Run : at'[q] = at[q] \/ (~Writing(q) /\ at'[q] \notin {"open", "fill"})
        PROVE  FilesInv'
    <2>1. Calm' => Calm
      BY <1>1, CalmBefore DEF Calm
    <2> QED BY <1>1, <2>1, QuietFiles
  <1>2. ASSUME NEW r \in Run,
               \/ BeginStart(r) \/ TakeSpawnLock(r) \/ GiveUpSpawnLock(r) \/ Check(r) \/ Slept(r)
               \/ Recheck(r) \/ Launch(r) \/ Settle(r)
        PROVE  FilesInv'
    <2>1. UNCHANGED <<fromEnv, fileVars, cmd, draft, wishVars>> /\ ~Writing(r)
      BY <1>2 DEF BeginStart, TakeSpawnLock, GiveUpSpawnLock, Check, Slept, Recheck, Launch, Settle, Writing
    <2>2. UNCHANGED lapses \/ Note({"slow"})
      BY <1>2 DEF BeginStart, TakeSpawnLock, GiveUpSpawnLock, Check, Slept, Recheck, Launch, Settle, Slow
    <2>3. \E p \in {"done", "lock", "check", "slept", "recheck", "reap", "settle"} : at' = [at EXCEPT ![r] = p]
      BY <1>2 DEF BeginStart, TakeSpawnLock, GiveUpSpawnLock, Check, Slept, Recheck, Launch, Settle, Goto, Finish
    <2>4. at \in [Run -> Places]
      BY DEF TypeInv
    <2> QED BY <1>1, <2>1, <2>2, <2>3, <2>4
  <1>3. ASSUME NEW d \in Daemons, DaemonStep(d) \/ ConnectFails(d) \/ Crash(d) PROVE FilesInv'
    <2>1. UNCHANGED <<fromEnv, fileVars, cmd, draft, wishVars, at>>
      BY <1>3 DEF DaemonStep, Exec, Boot, Connect, End, ConnectFails, Crash, settingsVars
    <2>2. UNCHANGED lapses \/ \E l : Note(l)
      BY <1>3 DEF DaemonStep, Exec, Boot, Connect, End, ConnectFails, Crash, settingsVars
    <2> QED BY <1>1, <2>1, <2>2
  <1>4. CASE UNCHANGED vars
    BY <1>1, <1>4 DEF vars, settingsVars
  <1>5. ASSUME NEW r \in Run, RunStep(r) PROVE FilesInv'
    BY <1>2, <1>5, SettingsStepFiles, StopFiles DEF RunStep
  <1> QED BY <1>3, <1>4, <1>5 DEF Next

(* Whatever commands are given, in whatever number and order: as long as no *)
(* two write at once and none dies in it, a setting that was set in Feishu  *)
(* is what it was last set to, and any other one that of setup or of the    *)
(* environment, but for those that /feishu autostart has baked in.          *)
THEOREM SettingsAreKept == Spec => []SettingsHold
  <1>1. TypeInv /\ FilesInv /\ [Next]_vars => (TypeInv /\ FilesInv)'
    BY NextTypeInv, NextFilesInv
  <1> QED BY <1>1, InitTypeInv, InitFilesInv, FilesImply, PTL DEF Spec

-----------------------------------------------------------------------------
(* StopReaches.  If nothing is slow and no run dies, a daemon is a shell    *)
(* only while the run that launched it settles; so a stop that begins when  *)
(* no start is under way, and meets none later, finds no shell, and what it *)
(* does find it ends.                                                       *)

Punctual == lapses \cap {"slow", "dies"} = {}
NoShell == \A d \in Daemons : dmn[d] # "shell"
NoneVisible == \A d \in Daemons : ~Visible(d)

ShellOK == Punctual => NoShell \/ \E q \in Run : at[q] = "settle"

Unmet(r) == cmd[r] \in {"stop", "reset"} /\ "start" \notin since[r]

StopGood(r) ==
    /\ at[r] \in {"stopping", "done"} => NoShell
    /\ at[r] = "done" => NoneVisible

StopOK == Punctual => \A r \in Run : Unmet(r) => StopGood(r)

StopInv == ShellOK /\ StopOK

LEMMA InitStopInv == Init => StopInv
  BY DEF Init, SettingsInit, StopInv, ShellOK, StopOK, StopGood, NoShell

LEMMA PunctualBefore ==
    ASSUME UNCHANGED lapses \/ \E l : Note(l), Punctual' PROVE Punctual
  BY DEF Note, Punctual

(* What becomes of a daemon in a step: no shell appears but by a launch, and *)
(* nothing becomes visible but what was a shell.                             *)
Sinks ==
    \A d \in Daemons : /\ dmn'[d] = "shell" => dmn[d] = "shell"
                       /\ dmn'[d] \in {"boot", "idle", "starting", "connected"} =>
                              dmn[d] = "shell" \/ Visible(d)

LEMMA TerminateSinks ==
    ASSUME TypeInv, NEW ds, Terminate(ds)
    PROVE  Sinks /\ (ds = Reaped /\ NoShell => NoShell' /\ NoneVisible')
  BY DEF TypeInv, DaemonTypeOK, Terminate, Sinks, Reaped, Visible, NoShell, NoneVisible

(* A step in which no daemon is launched keeps the promise for every run    *)
(* that had it, and no run loses what it has met.                           *)
LEMMA SinkingSteps ==
    ASSUME TypeInv, StopInv, Sinks, Punctual' => Punctual, UNCHANGED cmd,
           (\E q \in Run : at[q] = "settle") =>
               (\E q \in Run : at'[q] = "settle") \/ (Punctual' => NoShell'),
           \A r \in Run : \/ at'[r] = at[r] /\ since[r] \subseteq since'[r]
                          \/ Punctual' /\ Unmet(r)' => StopGood(r)'
    PROVE  StopInv'
  <1>1. NoShell => NoShell'
    BY DEF Sinks, NoShell, Daemons
  <1>2. NoShell /\ NoneVisible => NoneVisible'
    BY DEF Sinks, NoShell, NoneVisible, Visible, Daemons
  <1>3. ShellOK'
    BY <1>1 DEF StopInv, ShellOK
  <1>4. ASSUME NEW r \in Run, Punctual', Unmet(r)' PROVE StopGood(r)'
    <2>1. CASE at'[r] = at[r] /\ since[r] \subseteq since'[r]
      <3>1. Unmet(r) /\ StopGood(r)
        BY <1>4, <2>1 DEF StopInv, StopOK, Unmet
      <3> QED BY <1>1, <1>2, <2>1, <3>1 DEF StopGood
    <2> QED BY <1>4, <2>1
  <1>5. StopOK'
    BY <1>4 DEF StopOK
  <1> QED BY <1>3, <1>5 DEF StopInv

LEMMA StartStepStops ==
    ASSUME TypeInv, StopInv, NEW r \in Run,
           \/ BeginStart(r) \/ TakeSpawnLock(r) \/ GiveUpSpawnLock(r) \/ Check(r) \/ Slept(r)
           \/ Recheck(r) \/ Settle(r)
    PROVE  StopInv'
  <1>1. cmd[r] \notin {"stop", "reset"} /\ UNCHANGED cmd
    BY DEF BeginStart, TakeSpawnLock, GiveUpSpawnLock, Check, Slept, Recheck, Settle, TypeInv, PlaceOK
  <1>2. Punctual' => Punctual
    <2>1. UNCHANGED lapses \/ Note({"slow"})
      BY DEF BeginStart, TakeSpawnLock, GiveUpSpawnLock, Check, Slept, Recheck, Settle, Slow
    <2> QED BY <2>1, PunctualBefore
  <1>3. Sinks
    <2>1. UNCHANGED dmn \/ Terminate({owner})
      BY DEF BeginStart, TakeSpawnLock, GiveUpSpawnLock, Check, Slept, Recheck, Settle
    <2>2. CASE UNCHANGED dmn
      BY <2>2 DEF Sinks, Visible
    <2> QED BY <2>1, <2>2, TerminateSinks
  <1>4. \A q \in Run \ {r} : at'[q] = at[q]
    BY DEF BeginStart, TakeSpawnLock, GiveUpSpawnLock, Check, Slept, Recheck, Settle, Goto, Finish, TypeInv
  <1>5. \A q \in Run \ {r} : since[q] \subseteq since'[q]
    BY DEF BeginStart, TakeSpawnLock, GiveUpSpawnLock, Check, Slept, Recheck, Settle, Begins, TypeInv, DaemonTypeOK
  <1>6. (\E q \in Run : at[q] = "settle") =>
            (\E q \in Run : at'[q] = "settle") \/ (Punctual' => NoShell')
    <2>1. CASE Settle(r)
      <3>1. ASSUME Punctual' PROVE NoShell'
        <4>1. UNCHANGED dmn /\ Slow(\E d \in Daemons : dmn[d] \in {"shell", "dying"})
          BY <2>1 DEF Settle
        <4>2. ~\E d \in Daemons : dmn[d] \in {"shell", "dying"}
          BY <3>1, <4>1 DEF Slow, Note, Punctual
        <4> QED BY <4>1, <4>2 DEF NoShell, Daemons
      <3> QED BY <3>1
    <2>2. CASE ~Settle(r)
      <3>1. at[r] # "settle"
        BY <2>2 DEF BeginStart, TakeSpawnLock, GiveUpSpawnLock, Check, Slept, Recheck
      <3> QED BY <1>4, <3>1
    <2> QED BY <2>1, <2>2
  <1>7. ~Unmet(r)'
    BY <1>1 DEF Unmet
  <1> QED BY <1>1, <1>2, <1>3, <1>4, <1>5, <1>6, <1>7, SinkingSteps

(* A launch is met by every command that has begun.                         *)
LEMMA LaunchStops ==
    ASSUME TypeInv, StopInv, NEW r \in Run, Launch(r) PROVE StopInv'
  <1>1. /\ at' = [at EXCEPT ![r] = "settle"] /\ at \in [Run -> Places] /\ at[r] = "reap" /\ UNCHANGED cmd
        /\ since' = [q \in Run |-> IF Begun(q) THEN since[q] \cup {"start"} ELSE since[q]]
    BY DEF Launch, Goto, Happens, TypeInv
  <1>2. ASSUME NEW q \in Run, Unmet(q)' PROVE at'[q] = "idle"
    BY <1>1, <1>2 DEF Unmet, Begun
  <1>3. StopOK'
    BY <1>2 DEF StopOK, StopGood
  <1>4. ShellOK'
    BY <1>1 DEF ShellOK
  <1> QED BY <1>3, <1>4 DEF StopInv

LEMMA SettingsStepStops ==
    ASSUME TypeInv, StopInv, NEW r \in Run, SettingsStep(r), UNCHANGED daemonVars PROVE StopInv'
  <1>1. CASE Dies(r)
    <2>1. ~Punctual'
      BY <1>1 DEF Dies, Note, Punctual
    <2> QED BY <2>1 DEF StopInv, ShellOK, StopOK
  <1>2. CASE \/ Set(r) \/ Clear(r) \/ Autostart(r) \/ Setup(r) \/ Confirm(r) \/ Open(r) \/ Fill(r)
    <2>1. cmd[r] \notin {"stop", "reset"} /\ UNCHANGED cmd /\ at[r] # "settle"
      BY <1>2 DEF Set, Clear, Autostart, Setup, Confirm, Open, Fill, TypeInv, PlaceOK, Writing
    <2>2. Punctual' => Punctual
      <3>1. UNCHANGED lapses \/ Note(Race(r))
        BY <1>2 DEF Set, Clear, Autostart, Setup, Confirm, Open, Fill
      <3> QED BY <3>1, PunctualBefore
    <2>3. \A q \in Run \ {r} : at'[q] = at[q]
      BY <1>2 DEF Set, Clear, Autostart, Setup, Confirm, Open, Fill, Write, TypeInv
    <2>4. Sinks /\ UNCHANGED since
      BY DEF daemonVars, Sinks, Visible
    <2>5. ~Unmet(r)'
      BY <2>1 DEF Unmet
    <2> QED BY <2>1, <2>2, <2>3, <2>4, <2>5, SinkingSteps
  <1> QED BY <1>1, <1>2 DEF SettingsStep

(* A stop, which begins when no start is under way or does not promise.     *)
LEMMA StopStepStops ==
    ASSUME TypeInv, StopInv, NEW r \in Run, BeginStop(r) \/ EndStop(r) PROVE StopInv'
  <1>1. UNCHANGED cmd /\ at \in [Run -> Places] /\ at[r] # "settle"
    BY DEF BeginStop, EndStop, TypeInv
  <1>2. Punctual' => Punctual
    <2>1. UNCHANGED lapses \/ \E l : Note(l)
      BY DEF BeginStop, EndStop
    <2> QED BY <2>1, PunctualBefore
  <1>3. Sinks
    <2>1. Terminate({owner}) \/ Terminate(Reaped)
      BY DEF BeginStop, EndStop
    <2> QED BY <2>1, TerminateSinks
  <1>4. \A q \in Run \ {r} : at'[q] = at[q]
    BY <1>1 DEF BeginStop, EndStop, AfterStop, Goto
  <1>5. \A q \in Run \ {r} : since[q] \subseteq since'[q]
    BY DEF BeginStop, EndStop, Begins
  <1>6. ASSUME Punctual', Unmet(r)' PROVE StopGood(r)'
    <2>1. NoShell
      <3>1. CASE BeginStop(r)
        <4>1. "start" \notin UNION {since[q] \cup {"start"} : q \in {p \in Run : Starts(p)}}
          BY <1>6, <3>1 DEF BeginStop, Begins, Unmet
        <4>2. \A q \in Run : ~Starts(q)
          BY <4>1
        <4> QED BY <1>2, <1>6, <4>2 DEF StopInv, ShellOK, Starts
      <3>2. CASE EndStop(r)
        BY <1>2, <1>6, <3>2 DEF EndStop, StopInv, StopOK, StopGood, Unmet
      <3> QED BY <3>1, <3>2
    <2>2. NoShell'
      BY <1>3, <2>1 DEF Sinks, NoShell, Daemons
    <2>3. Terminate(Reaped) \/ at' = [at EXCEPT ![r] = "stopping"]
      BY DEF BeginStop, EndStop, Goto
    <2> QED BY <1>1, <2>1, <2>2, <2>3, TerminateSinks DEF StopGood
  <1> QED BY <1>1, <1>2, <1>3, <1>4, <1>5, <1>6, SinkingSteps

LEMMA DaemonStepStops ==
    ASSUME TypeInv, StopInv, NEW d \in Daemons, DaemonStep(d) \/ ConnectFails(d) \/ Crash(d)
    PROVE  StopInv'
  <1>1. UNCHANGED <<cmd, at>>
    BY DEF DaemonStep, Exec, Boot, Connect, End, ConnectFails, Crash, settingsVars
  <1>2. Punctual' => Punctual
    <2>1. UNCHANGED lapses \/ \E l : Note(l)
      BY DEF DaemonStep, Exec, Boot, Connect, End, ConnectFails, Crash, settingsVars
    <2> QED BY <2>1, PunctualBefore
  <1>3. Sinks
    <2>1. PICK l \in Lives \ {"none", "shell"} : Becomes(d, l) /\ (l \in {"dying", "dead"} \/ dmn[d] = "shell" \/ Visible(d))
      BY DEF DaemonStep, Exec, Boot, Connect, End, ConnectFails, Crash, Lives, Visible
    <2> QED BY <2>1 DEF Sinks, Becomes, Visible, TypeInv, DaemonTypeOK
  <1>4. \A q \in Run : since[q] \subseteq since'[q]
    <2>1. UNCHANGED since \/ \E e : Happens(e)
      BY DEF DaemonStep, Exec, Boot, Connect, End, ConnectFails, Crash
    <2> QED BY <2>1 DEF Happens
  <1> QED BY <1>1, <1>2, <1>3, <1>4, SinkingSteps

LEMMA NextStopInv == TypeInv /\ StopInv /\ [Next]_vars => StopInv'
  <1> SUFFICES ASSUME TypeInv, StopInv, [Next]_vars PROVE StopInv'
    OBVIOUS
  <1>1. ASSUME NEW r \in Run, RunStep(r) PROVE StopInv'
    BY <1>1, SettingsStepStops, StartStepStops, LaunchStops, StopStepStops DEF RunStep
  <1>2. CASE UNCHANGED vars
    BY <1>2 DEF vars, settingsVars, daemonVars, StopInv, ShellOK, StopOK, StopGood, Unmet, Punctual,
                NoShell, NoneVisible, Visible, Daemons
  <1> QED BY <1>1, <1>2, DaemonStepStops DEF Next

(* A stop or a reset that meets no start, with nothing slow and no Pi       *)
(* closed in it, leaves no daemon behind, neither one that has no record    *)
(* yet nor one whose shell is not Pi yet, whatever else goes on.            *)
THEOREM StopsReachEveryDaemon == Spec => []StopReaches
  <1>1. StopInv => StopReaches
    BY DEF StopInv, StopOK, StopGood, Unmet, Punctual, NoShell, NoneVisible, StopReaches
  <1>2. TypeInv /\ StopInv /\ [Next]_vars => (TypeInv /\ StopInv)'
    BY NextTypeInv, NextStopInv
  <1> QED BY <1>1, <1>2, InitTypeInv, InitStopInv, PTL DEF Spec

=============================================================================
