-------------------------- MODULE GatewayLock_proofs --------------------------
(* Proofs about GatewayLock, for any number of processes and any periods in  *)
(* the order that the assumptions state.                                     *)
EXTENDS GatewayLock, TLAPS

InSection(p) == step[p] \in {"read", "write", "leave"}

(* The lock directory is held exactly by the process in its critical        *)
(* section, which takes no time, so that nobody waits for it for long.       *)
DirOK ==
    /\ \A p \in Procs : InSection(p) => lockDir = p /\ holds[p]
    /\ lockDir # None => InSection(lockDir) /\ lockAge = 0
    /\ \A p \in Procs : step[p] # "break"
    /\ \A p \in Procs : step[p] = "wait" => waitAge[p] = 0

(* What a process is doing fits where its access stands.                     *)
ModeOK ==
    \A p \in Procs :
        /\ mode[p] \in {"off", "starting", "gone"} => step[p] = "none"
        /\ mode[p] \in {"acquire", "stopping"} => step[p] # "none"
        /\ mode[p] # "closing"
        /\ conn[p] => mode[p] = "live"
        /\ step[p] = "write" \/ (mode[p] = "live" /\ step[p] = "leave") => ok[p]

(* A starting or live process owns the record; the outcome of an access      *)
(* stays true until it is acted on.                                          *)
OwnerOK ==
    /\ owner # None => mode[owner] # "off"
    /\ \A p \in Procs :
        /\ mode[p] \in {"starting", "live"} => owner = p
        /\ mode[p] = "acquire" => (owner = p <=> step[p] = "leave" /\ ok[p])
        /\ mode[p] = "acquire" /\ step[p] = "write" => MayTake
        /\ mode[p] = "stopping" /\ step[p] = "write" => owner = p

(* The record of a starting or live process is never stale.                  *)
FreshOK ==
    \A p \in Procs :
        /\ mode[p] = "starting" => hbAge <= beatAge[p] /\ beatAge[p] <= StartWithin
        /\ mode[p] = "live" => hbAge <= StaleAfter /\ beatAge[p] <= HeartbeatEvery
        /\ mode[p] = "live" /\ step[p] = "none" => hbAge <= beatAge[p]
        /\ mode[p] \in {"acquire", "live"} /\ step[p] = "leave" /\ ok[p] => hbAge = 0

(* The invariant says something only of processes that have kept time.       *)
TimelyInv == DirOK /\ ModeOK /\ OwnerOK /\ FreshOK

IInv == TypeOK /\ (lapses = {} => TimelyInv)

LEMMA Caps ==
    /\ OldAge \in Nat /\ OldBeat \in Nat
    /\ OldAge = StaleAfter + 1
    /\ HeartbeatEvery <= OldBeat /\ StartWithin <= OldBeat
  BY TimesAssumption DEF OldAge, OldBeat, MaxOf

LEMMA InitTypeOK == Init => TypeOK
  BY Caps, TimesAssumption DEF Init, TypeOK

(* Every action keeps the declared types, whatever hazards are allowed.      *)
LEMMA NextTypeOK == TypeOK /\ [Next]_vars => TypeOK'
  <1> SUFFICES ASSUME TypeOK, [Next]_vars PROVE TypeOK'
    OBVIOUS
  <1> USE Caps, TimesAssumption DEF TypeOK, vars, fileVars, dirVars, procVars, Access
  <1>1. ASSUME NEW p \in Procs, MakeDir(p) PROVE TypeOK'
    BY <1>1 DEF MakeDir
  <1>2. ASSUME NEW p \in Procs, SeeStaleDir(p) PROVE TypeOK'
    BY <1>2 DEF SeeStaleDir
  <1>3. ASSUME NEW p \in Procs, BreakDir(p) PROVE TypeOK'
    BY <1>3 DEF BreakDir
  <1>4. ASSUME NEW p \in Procs, GiveUp(p) PROVE TypeOK'
    BY <1>4 DEF GiveUp
  <1>5. ASSUME NEW p \in Procs, Read(p) PROVE TypeOK'
    <2>1. ok' \in [Procs -> BOOLEAN]
      BY <1>5 DEF Read, MayTake, Stale, Alive, Mine
    <2>2. step' \in [Procs -> {"none", "wait", "break", "read", "write", "leave"}]
      BY <1>5 DEF Read
    <2> QED BY <1>5, <2>1, <2>2 DEF Read
  <1>6. ASSUME NEW p \in Procs, Write(p) PROVE TypeOK'
    BY <1>6 DEF Write
  <1>7. ASSUME NEW p \in Procs, Leave(p) PROVE TypeOK'
    BY <1>7 DEF Leave
  <1>8. ASSUME NEW p \in Procs, Connected(p) PROVE TypeOK'
    BY <1>8 DEF Connected
  <1>9. ASSUME NEW p \in Procs, StartFails(p) PROVE TypeOK'
    BY <1>9 DEF StartFails
  <1>10. ASSUME NEW p \in Procs, Beat(p) PROVE TypeOK'
    BY <1>10 DEF Beat
  <1>11. ASSUME NEW p \in Procs, Lost(p) PROVE TypeOK'
    BY <1>11 DEF Lost
  <1>12. ASSUME NEW p \in Procs, Launch(p) PROVE TypeOK'
    BY <1>12 DEF Launch
  <1>13. ASSUME NEW p \in Procs, Stop(p) PROVE TypeOK'
    BY <1>13 DEF Stop
  <1>14. ASSUME NEW p \in Procs, Crash(p) PROVE TypeOK'
    BY <1>14 DEF Crash
  <1>15. ASSUME Tick PROVE TypeOK'
    <2>1. lapses' \subseteq {"stall", "start", "crash"}
      BY <1>15 DEF Tick
    <2> QED BY <1>15, <2>1 DEF Tick, Older
  <1>16. CASE UNCHANGED vars
    BY <1>16
  <1> QED BY <1>1, <1>2, <1>3, <1>4, <1>5, <1>6, <1>7, <1>8, <1>9, <1>10, <1>11, <1>12, <1>13, <1>14, <1>15, <1>16 DEF Next, ProcStep

(* The variables keep their declared types.                                  *)
THEOREM TypeCorrect == Spec => []TypeOK
  <1> QED BY InitTypeOK, NextTypeOK, PTL DEF Spec
-----------------------------------------------------------------------------
(* The invariant holds initially.                                            *)
LEMMA InitIInv == Init => IInv
  BY InitTypeOK, NoneAssumption DEF Init, IInv, TimelyInv, DirOK, ModeOK, OwnerOK, FreshOK, InSection

(* Every action keeps the invariant; a step after which every process has    *)
(* kept time starts from such a state.                                       *)
LEMMA NextIInv == IInv /\ [Next]_vars => IInv'
  <1>a. SUFFICES ASSUME IInv, [Next]_vars, lapses' = {} PROVE TimelyInv'
    BY NextTypeOK DEF IInv
  <1>b. TypeOK /\ TypeOK'
    BY <1>a, NextTypeOK DEF IInv
  <1>c. lapses = {}
    BY <1>a DEF Next, ProcStep, MakeDir, SeeStaleDir, BreakDir, GiveUp, Read, Write, Leave,
       Connected, StartFails, Beat, Lost, Launch, Stop, Crash, Tick, vars
  <1>d. DirOK /\ ModeOK /\ OwnerOK /\ FreshOK
    BY <1>a, <1>c DEF IInv, TimelyInv
  <1> USE <1>b, <1>d, Caps, TimesAssumption, NoneAssumption
      DEF TimelyInv, vars, fileVars, dirVars, procVars, Access, InSection
  <1>1. ASSUME NEW p \in Procs, MakeDir(p) PROVE TimelyInv'
    <2>1. DirOK' BY <1>1 DEF MakeDir, TypeOK, DirOK, ModeOK
    <2>2. ModeOK' BY <1>1 DEF MakeDir, TypeOK, DirOK, ModeOK, OwnerOK, Mine
    <2>3. OwnerOK' BY <1>1 DEF MakeDir, TypeOK, DirOK, ModeOK, OwnerOK, FreshOK, MayTake, Mine, Stale, Alive
    <2>4. FreshOK' BY <1>1 DEF MakeDir, TypeOK, DirOK, ModeOK, OwnerOK, FreshOK
    <2> QED BY <2>1, <2>2, <2>3, <2>4
  <1>2. ASSUME NEW p \in Procs, SeeStaleDir(p) PROVE TimelyInv'
    <2>1. DirOK' BY <1>2 DEF SeeStaleDir, TypeOK, DirOK, ModeOK
    <2>2. ModeOK' BY <1>2 DEF SeeStaleDir, TypeOK, DirOK, ModeOK, OwnerOK, Mine
    <2>3. OwnerOK' BY <1>2 DEF SeeStaleDir, TypeOK, DirOK, ModeOK, OwnerOK, FreshOK, MayTake, Mine, Stale, Alive
    <2>4. FreshOK' BY <1>2 DEF SeeStaleDir, TypeOK, DirOK, ModeOK, OwnerOK, FreshOK
    <2> QED BY <2>1, <2>2, <2>3, <2>4
  <1>3. ASSUME NEW p \in Procs, BreakDir(p) PROVE TimelyInv'
    <2>1. DirOK' BY <1>3 DEF BreakDir, TypeOK, DirOK, ModeOK
    <2>2. ModeOK' BY <1>3 DEF BreakDir, TypeOK, DirOK, ModeOK, OwnerOK, Mine
    <2>3. OwnerOK' BY <1>3 DEF BreakDir, TypeOK, DirOK, ModeOK, OwnerOK, FreshOK, MayTake, Mine, Stale, Alive
    <2>4. FreshOK' BY <1>3 DEF BreakDir, TypeOK, DirOK, ModeOK, OwnerOK, FreshOK
    <2> QED BY <2>1, <2>2, <2>3, <2>4
  <1>4. ASSUME NEW p \in Procs, GiveUp(p) PROVE TimelyInv'
    <2>1. DirOK' BY <1>4 DEF GiveUp, TypeOK, DirOK, ModeOK
    <2>2. ModeOK' BY <1>4 DEF GiveUp, TypeOK, DirOK, ModeOK, OwnerOK, Mine
    <2>3. OwnerOK' BY <1>4 DEF GiveUp, TypeOK, DirOK, ModeOK, OwnerOK, FreshOK, MayTake, Mine, Stale, Alive
    <2>4. FreshOK' BY <1>4 DEF GiveUp, TypeOK, DirOK, ModeOK, OwnerOK, FreshOK
    <2> QED BY <2>1, <2>2, <2>3, <2>4
  <1>5. ASSUME NEW p \in Procs, Read(p) PROVE TimelyInv'
    <2>1. DirOK' BY <1>5 DEF Read, TypeOK, DirOK, ModeOK
    <2>2. ModeOK' BY <1>5 DEF Read, TypeOK, DirOK, ModeOK, OwnerOK, Mine
    <2>3. OwnerOK' BY <1>5 DEF Read, TypeOK, DirOK, ModeOK, OwnerOK, FreshOK, MayTake, Mine, Stale, Alive
    <2>4. FreshOK' BY <1>5 DEF Read, TypeOK, DirOK, ModeOK, OwnerOK, FreshOK
    <2> QED BY <2>1, <2>2, <2>3, <2>4
  <1>6. ASSUME NEW p \in Procs, Write(p) PROVE TimelyInv'
    <2>1. DirOK' BY <1>6 DEF Write, TypeOK, DirOK, ModeOK
    <2>2. ModeOK' BY <1>6 DEF Write, TypeOK, DirOK, ModeOK, OwnerOK, Mine
    <2>3. OwnerOK'
      <3>1. mode[p] \in {"acquire", "live", "stopping"} /\ ok[p] /\ step[p] = "write"
        BY <1>6 DEF Write, TypeOK, ModeOK
      <3>2. \A q \in Procs \ {p} : step'[q] = step[q] /\ ~InSection(q)
        BY <1>6 DEF Write, TypeOK, DirOK
      <3>3. CASE mode[p] = "acquire"
        <4>1. \A q \in Procs : mode[q] \notin {"starting", "live"}
          BY <3>1, <3>3 DEF TypeOK, OwnerOK, FreshOK, MayTake, Stale, Alive
        <4> QED BY <1>6, <3>1, <3>2, <3>3, <4>1 DEF Write, TypeOK, OwnerOK
      <3>4. CASE mode[p] = "live"
        BY <1>6, <3>1, <3>2, <3>4 DEF Write, TypeOK, OwnerOK
      <3>5. CASE mode[p] = "stopping"
        BY <1>6, <3>1, <3>2, <3>5 DEF Write, TypeOK, OwnerOK
      <3> QED BY <3>1, <3>3, <3>4, <3>5
    <2>4. FreshOK' BY <1>6 DEF Write, TypeOK, DirOK, ModeOK, OwnerOK, FreshOK
    <2> QED BY <2>1, <2>2, <2>3, <2>4
  <1>7. ASSUME NEW p \in Procs, Leave(p) PROVE TimelyInv'
    <2>1. DirOK' BY <1>7 DEF Leave, TypeOK, DirOK, ModeOK
    <2>2. ModeOK' BY <1>7 DEF Leave, TypeOK, DirOK, ModeOK, OwnerOK, Mine
    <2>3. OwnerOK' BY <1>7 DEF Leave, TypeOK, DirOK, ModeOK, OwnerOK, FreshOK, MayTake, Mine, Stale, Alive
    <2>4. FreshOK' BY <1>7 DEF Leave, TypeOK, DirOK, ModeOK, OwnerOK, FreshOK
    <2> QED BY <2>1, <2>2, <2>3, <2>4
  <1>8. ASSUME NEW p \in Procs, Connected(p) PROVE TimelyInv'
    <2>1. DirOK' BY <1>8 DEF Connected, TypeOK, DirOK, ModeOK
    <2>2. ModeOK' BY <1>8 DEF Connected, TypeOK, DirOK, ModeOK, OwnerOK, Mine
    <2>3. OwnerOK' BY <1>8 DEF Connected, TypeOK, DirOK, ModeOK, OwnerOK, FreshOK, MayTake, Mine, Stale, Alive
    <2>4. FreshOK' BY <1>8 DEF Connected, TypeOK, DirOK, ModeOK, OwnerOK, FreshOK
    <2> QED BY <2>1, <2>2, <2>3, <2>4
  <1>9. ASSUME NEW p \in Procs, StartFails(p) PROVE TimelyInv'
    <2>1. DirOK' BY <1>9 DEF StartFails, TypeOK, DirOK, ModeOK
    <2>2. ModeOK' BY <1>9 DEF StartFails, TypeOK, DirOK, ModeOK, OwnerOK, Mine
    <2>3. OwnerOK' BY <1>9 DEF StartFails, TypeOK, DirOK, ModeOK, OwnerOK, FreshOK, MayTake, Mine, Stale, Alive
    <2>4. FreshOK' BY <1>9 DEF StartFails, TypeOK, DirOK, ModeOK, OwnerOK, FreshOK
    <2> QED BY <2>1, <2>2, <2>3, <2>4
  <1>10. ASSUME NEW p \in Procs, Beat(p) PROVE TimelyInv'
    <2>1. DirOK' BY <1>10 DEF Beat, TypeOK, DirOK, ModeOK
    <2>2. ModeOK' BY <1>10 DEF Beat, TypeOK, DirOK, ModeOK, OwnerOK, Mine
    <2>3. OwnerOK' BY <1>10 DEF Beat, TypeOK, DirOK, ModeOK, OwnerOK, FreshOK, MayTake, Mine, Stale, Alive
    <2>4. FreshOK' BY <1>10 DEF Beat, TypeOK, DirOK, ModeOK, OwnerOK, FreshOK
    <2> QED BY <2>1, <2>2, <2>3, <2>4
  <1>11. ASSUME NEW p \in Procs, Lost(p) PROVE TimelyInv'
    <2>1. DirOK' BY <1>11 DEF Lost, TypeOK, DirOK, ModeOK
    <2>2. ModeOK' BY <1>11 DEF Lost, TypeOK, DirOK, ModeOK, OwnerOK, Mine
    <2>3. OwnerOK' BY <1>11 DEF Lost, TypeOK, DirOK, ModeOK, OwnerOK, FreshOK, MayTake, Mine, Stale, Alive
    <2>4. FreshOK' BY <1>11 DEF Lost, TypeOK, DirOK, ModeOK, OwnerOK, FreshOK
    <2> QED BY <2>1, <2>2, <2>3, <2>4
  <1>12. ASSUME NEW p \in Procs, Launch(p) PROVE TimelyInv'
    <2>1. DirOK' BY <1>12 DEF Launch, TypeOK, DirOK, ModeOK
    <2>2. ModeOK' BY <1>12 DEF Launch, TypeOK, DirOK, ModeOK, OwnerOK, Mine
    <2>3. OwnerOK' BY <1>12 DEF Launch, TypeOK, DirOK, ModeOK, OwnerOK, FreshOK, MayTake, Mine, Stale, Alive
    <2>4. FreshOK' BY <1>12 DEF Launch, TypeOK, DirOK, ModeOK, OwnerOK, FreshOK
    <2> QED BY <2>1, <2>2, <2>3, <2>4
  <1>13. ASSUME NEW p \in Procs, Stop(p) PROVE TimelyInv'
    <2>1. DirOK' BY <1>13 DEF Stop, TypeOK, DirOK, ModeOK
    <2>2. ModeOK' BY <1>13 DEF Stop, TypeOK, DirOK, ModeOK, OwnerOK, Mine
    <2>3. OwnerOK' BY <1>13 DEF Stop, TypeOK, DirOK, ModeOK, OwnerOK, FreshOK, MayTake, Mine, Stale, Alive
    <2>4. FreshOK' BY <1>13 DEF Stop, TypeOK, DirOK, ModeOK, OwnerOK, FreshOK
    <2> QED BY <2>1, <2>2, <2>3, <2>4
  <1>14. ASSUME NEW p \in Procs, Crash(p) PROVE TimelyInv'
    <2>1. DirOK' BY <1>a, <1>14 DEF Crash, TypeOK, DirOK, ModeOK
    <2>2. ModeOK' BY <1>14 DEF Crash, TypeOK, DirOK, ModeOK, OwnerOK, Mine
    <2>3. OwnerOK' BY <1>14 DEF Crash, TypeOK, DirOK, ModeOK, OwnerOK, FreshOK, MayTake, Mine, Stale, Alive
    <2>4. FreshOK' BY <1>14 DEF Crash, TypeOK, DirOK, ModeOK, OwnerOK, FreshOK
    <2> QED BY <2>1, <2>2, <2>3, <2>4
  <1>15. ASSUME Tick PROVE TimelyInv'
    <2>1. /\ \A p \in Procs : Prompt(p)
          /\ \A p \in Procs : mode[p] = "starting" => beatAge[p] < StartWithin
      <3>1. Punctual /\ ~SlowStart
        BY <1>a, <1>15 DEF Tick
      <3> QED BY <3>1 DEF Punctual, SlowStart, TypeOK
    <2>2. /\ lockDir = None
          /\ \A p \in Procs : step[p] = "none"
      BY <2>1 DEF Prompt, DirOK, TypeOK
    <2>3. DirOK' BY <1>15, <2>2 DEF Tick, DirOK
    <2>4. ModeOK' BY <1>15, <2>2 DEF Tick, ModeOK
    <2>5. OwnerOK' BY <1>15, <2>2 DEF Tick, OwnerOK, ModeOK
    <2>6. FreshOK' BY <1>15, <2>1, <2>2 DEF Tick, FreshOK, Older, Prompt, TypeOK
    <2> QED BY <2>3, <2>4, <2>5, <2>6
  <1>16. CASE UNCHANGED vars
    BY <1>16 DEF DirOK, ModeOK, OwnerOK, FreshOK, MayTake, Stale, Alive
  <1> QED BY <1>a, <1>1, <1>2, <1>3, <1>4, <1>5, <1>6, <1>7, <1>8, <1>9, <1>10, <1>11, <1>12, <1>13, <1>14, <1>15, <1>16 DEF Next, ProcStep

(* As long as the processes keep time, the daemons' lock prevents duplicate  *)
(* connections, whatever their number.                                       *)
THEOREM NoDuplicateConnections == Spec => []TimelyExclusion
  <1>1. IInv => TimelyExclusion
    BY DEF IInv, TimelyInv, ModeOK, OwnerOK, AtMostOneConnection, TimelyExclusion
  <1> QED BY <1>1, InitIInv, NextIInv, PTL DEF Spec

(* As long as the processes keep time, only its own stop takes the record    *)
(* away from a living owner.                                                 *)
THEOREM OwnersKeepTheRecord == Spec => RecordRespected
  <1> DEFINE Kept == lapses = {} /\ owner # None /\ Alive(owner) /\ owner' # owner
                       => mode[owner] = "stopping"
  <1>1. ASSUME IInv, [Next]_vars PROVE [Kept]_vars
    <2>1. ASSUME NEW p \in Procs, Write(p) PROVE Kept
      BY <1>1, <2>1, TimesAssumption DEF IInv, TimelyInv, TypeOK, DirOK, ModeOK, OwnerOK, FreshOK,
         InSection, Write, MayTake, Stale, Alive
    <2>2. ASSUME ~\E p \in Procs : Write(p) PROVE owner' = owner
      BY <1>1, <2>2 DEF Next, ProcStep, Tick, MakeDir, SeeStaleDir, BreakDir, GiveUp, Read, Leave,
         Connected, StartFails, Beat, Lost, Launch, Stop, Crash, vars, fileVars, dirVars, procVars
    <2> QED BY <2>1, <2>2
  <1> QED BY <1>1, InitIInv, NextIInv, PTL DEF Spec, RecordRespected
=============================================================================
