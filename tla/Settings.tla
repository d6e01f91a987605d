------------------------------ MODULE Settings ------------------------------
(***************************************************************************)
(* The settings of config.ts, runtime-config.ts and setup.ts: a base from  *)
(* the environment or from config.json, and runtime-overrides.json above   *)
(* it, read anew for every use and written by any Pi process.              *)
(*                                                                         *)
(* A run is one execution of a command: of /feishu in Pi, of /config in    *)
(* Feishu, or of the tools feishu_config_set and feishu_config_clear.      *)
(* Actions of Daemon continue the runs that have more to do.               *)
(***************************************************************************)
EXTENDS Naturals, FiniteSets

CONSTANTS
    Run, None,
    Key,         \* the whitelisted settings
    Policy,      \* the one that setup asks for
    Value, Input, \* the values of settings, and what users may type
    Default,     \* DEFAULT_CONFIG
    EnvValue,    \* the settings in the environment, if the credentials are there
    Cases        \* bound: the commands of the runs, and the things that may go wrong

Commands == {"none", "set", "clear", "autostart", "setup", "reset", "boot", "start", "stop", "restart"}
(* Two processes write at once; a process dies, a daemon dies; one is slow; *)
(* a connection fails.                                                      *)
Lapses == {"race", "dies", "crash", "slow", "failed"}

ASSUME KeyAssumption == Policy \in Key /\ Default \in Value /\ None \notin Value /\ Value \subseteq Input
ASSUME EnvAssumption == EnvValue \in [Key -> Value]
ASSUME CasesAssumption == Cases \subseteq [env : BOOLEAN, cmd : [Run -> Commands], may : SUBSET Lapses]

VARIABLES
    fromEnv,     \* are the credentials in the environment?
    config,      \* config.json
    overrides,   \* runtime-overrides.json
    torn,        \* the files opened for writing and not written
    cmd,         \* the command of a run
    at,          \* where it stands
    draft,       \* what it is writing
    want,        \* history: the value a setting was last set to, None if it was cleared
    intended,    \* history: the settings asked for in setup, or of the environment
    baked,       \* history: the settings that /feishu autostart wrote to config.json
    may,         \* bound: what may go wrong
    lapses       \* history: what went wrong

fileVars == <<config, overrides, torn>>
wishVars == <<want, intended, baked>>
settingsVars == <<fromEnv, fileVars, cmd, at, draft, wishVars, may, lapses>>

Config == [there : BOOLEAN, auto : BOOLEAN, value : [Key -> Value]]
Overrides == [Key -> Value \cup {None}]
Defaults == [k \in Key |-> Default]
NoConfig == [there |-> FALSE, auto |-> TRUE, value |-> Defaults]
NoOverrides == [k \in Key |-> None]
NoDraft == [file |-> "none", config |-> NoConfig, overrides |-> NoOverrides, key |-> None, starts |-> FALSE]

SettingsTypeOK ==
    /\ fromEnv \in BOOLEAN
    /\ config \in Config
    /\ overrides \in Overrides
    /\ torn \subseteq {"config", "overrides"}
    /\ cmd \in [Run -> Commands]
    /\ draft \in [Run -> [file : {"none", "config", "overrides"}, config : Config, overrides : Overrides,
                          key : Key \cup {None}, starts : BOOLEAN]]
    /\ want \in Overrides /\ intended \in [Key -> Value] /\ baked \subseteq Key
    /\ lapses \subseteq may /\ may \subseteq Lapses

(* Setup has been run, or the environment has the credentials.              *)
SettingsInit ==
    /\ \E c \in Cases : fromEnv = c.env /\ cmd = c.cmd /\ may = c.may
    /\ config = [NoConfig EXCEPT !.there = ~fromEnv]
    /\ overrides = NoOverrides /\ torn = {}
    /\ at = [r \in Run |-> "idle"] /\ draft = [r \in Run |-> NoDraft]
    /\ want = NoOverrides /\ intended = (IF fromEnv THEN EnvValue ELSE Defaults) /\ baked = {}
    /\ lapses = {}

-----------------------------------------------------------------------------
(* Named bound: a thing goes wrong once.                                    *)
Note(lapse) == lapse \subseteq may \ lapses /\ lapses' = lapses \cup lapse

(* The lapse of a run that reads while another one is writing.              *)
Race(r) == {l \in {"race"} : \E q \in Run \ {r} : at[q] \in {"open", "fill"}}

(* loadBaseConfig: the environment comes first; a file that does not parse  *)
(* has no credentials.                                                      *)
Base ==
    IF fromEnv THEN [there |-> TRUE, auto |-> TRUE, value |-> EnvValue]
    ELSE IF "config" \in torn THEN NoConfig ELSE config

(* getRuntimeOverrides.                                                     *)
Overridden == IF "overrides" \in torn THEN NoOverrides ELSE overrides

(* Mutant of Merged: the base comes first.                                  *)
MergedBase(base, over) == [base EXCEPT !.value = [k \in Key |->
                              IF over[k] = None \/ base.value[k] # Default THEN base.value[k] ELSE over[k]]]

(* applyRuntimeOverrides.                                                   *)
Merged(base, over) ==
    [base EXCEPT !.value = [k \in Key |-> IF over[k] = None THEN base.value[k] ELSE over[k]]]

(* loadConfig; there is none if "there" is false.                           *)
Loaded == Merged(Base, Overridden)

Write(r, d) ==
    /\ at' = [at EXCEPT ![r] = "open"]
    /\ draft' = [draft EXCEPT ![r] = d]

(* Mutant of Parsed: whatever is typed is taken.                            *)
ParsedAny(input) == TRUE

(* parseRuntimeConfigValue.                                                 *)
Parsed(input) == input \in Value

(* setRuntimeConfig, from /config or from the tool.                         *)
Set(r) ==
    /\ at[r] = "idle" /\ cmd[r] = "set"
    /\ \E k \in Key, v \in Input :
          Parsed(v) /\ Write(r, [NoDraft EXCEPT !.file = "overrides", !.key = k, !.overrides = [Overridden EXCEPT ![k] = v]])
    /\ Note(Race(r))
    /\ UNCHANGED <<fromEnv, fileVars, cmd, wishVars, may>>

(* clearRuntimeOverrides: one setting, or all without reading the file.     *)
Clear(r) ==
    /\ at[r] = "idle" /\ cmd[r] = "clear"
    /\ \/ \E k \in Key :
             Write(r, [NoDraft EXCEPT !.file = "overrides", !.key = k, !.overrides = [Overridden EXCEPT ![k] = None]])
       \/ Write(r, [NoDraft EXCEPT !.file = "overrides"])
    /\ Note(Race(r))
    /\ UNCHANGED <<fromEnv, fileVars, cmd, wishVars, may>>

(* /feishu autostart writes what it loaded, overrides included.             *)
Autostart(r) ==
    /\ at[r] = "idle" /\ cmd[r] = "autostart"
    /\ IF Loaded.there
       THEN Write(r, [NoDraft EXCEPT !.file = "config", !.config = [Loaded EXCEPT !.auto = ~Loaded.auto],
                                     !.overrides = Overridden])
       ELSE at' = [at EXCEPT ![r] = "done"] /\ UNCHANGED draft
    /\ Note(Race(r))
    /\ UNCHANGED <<fromEnv, fileVars, cmd, wishVars, may>>

(* runSetup writes a new file...                                            *)
Setup(r) ==
    /\ at[r] = "idle" /\ cmd[r] = "setup"
    /\ \E v \in Value :
          Write(r, [NoDraft EXCEPT !.file = "config",
                       !.config = [there |-> TRUE, auto |-> TRUE, value |-> [Defaults EXCEPT ![Policy] = v]]])
    /\ Note(Race(r))
    /\ UNCHANGED <<fromEnv, fileVars, cmd, wishVars, may>>

(* ... and the command writes it once more if the connection is to start.   *)
Confirm(r) ==
    /\ at[r] = "asked"
    /\ \/ at' = [at EXCEPT ![r] = "done"] /\ UNCHANGED draft
       \/ Write(r, [draft[r] EXCEPT !.file = "config", !.starts = TRUE])
    /\ Note(Race(r))
    /\ UNCHANGED <<fromEnv, fileVars, cmd, wishVars, may>>

(* writeJson and writeOverridesFile empty the file, then write it.          *)
Open(r) ==
    /\ at[r] = "open"
    /\ at' = [at EXCEPT ![r] = "fill"]
    /\ torn' = torn \cup {draft[r].file}
    /\ UNCHANGED <<fromEnv, config, overrides, cmd, draft, wishVars, may, lapses>>

(* Removing config.json while it is open: what is written to it is lost.    *)
Unlinked ==
    [q \in Run |-> IF at[q] = "fill" /\ draft[q].file = "config"
                   THEN [draft[q] EXCEPT !.file = "none"] ELSE draft[q]]

(* What a setting is now meant to be.                                       *)
Wishes(r) ==
    CASE cmd[r] \in {"set", "clear"} ->
           /\ want' = [k \in Key |-> IF draft[r].key \in {k, None} THEN draft[r].overrides[k] ELSE want[k]]
           /\ UNCHANGED <<intended, baked>>
      [] cmd[r] = "autostart" ->
           /\ baked' = (IF fromEnv THEN {} ELSE {k \in Key : draft[r].overrides[k] # None \/ k \in baked})
           /\ UNCHANGED <<want, intended>>
      [] cmd[r] = "setup" ->
           /\ intended' = (IF fromEnv THEN intended ELSE draft[r].config.value) /\ baked' = {}
           /\ UNCHANGED want

Fill(r) ==
    /\ at[r] = "fill"
    /\ config' = (IF draft[r].file = "config" THEN draft[r].config ELSE config)
    /\ overrides' = (IF draft[r].file = "overrides" THEN draft[r].overrides ELSE overrides)
    /\ torn' = torn \ {draft[r].file}
    /\ Wishes(r)
    /\ at' = [at EXCEPT ![r] = IF cmd[r] # "setup" THEN "done" ELSE IF draft[r].starts THEN "lock" ELSE "asked"]
    /\ UNCHANGED <<fromEnv, cmd, draft, may, lapses>>

(* The process of a run dies.                                               *)
Dies(r) ==
    /\ at[r] \notin {"idle", "done", "dead"}
    /\ at' = [at EXCEPT ![r] = "dead"]
    /\ Note({"dies"})
    /\ UNCHANGED <<fromEnv, fileVars, cmd, draft, wishVars, may>>

SettingsStep(r) == Set(r) \/ Clear(r) \/ Autostart(r) \/ Setup(r) \/ Confirm(r) \/ Open(r) \/ Fill(r) \/ Dies(r)
=============================================================================
