--------------------------- MODULE Inbound_proofs ---------------------------
(* Proofs about Inbound and the records of Dedupe, for any number of         *)
(* processes, events and messages, of any shape and with any faults.         *)
EXTENDS Inbound, TLAPS

(* Every event in hand has a message; the records are accessed where the     *)
(* handler waits for that.                                                   *)
InHand ==
    \A c \in Call :
        /\ at[c] # "idle" => subject[c] \in Msg
        /\ at[c] = "idle" => proc[c] = None
        /\ step[c] # "none" => at[c] \in {"claim", "mark", "failing"}

TypeInv == TypeOK /\ InHand

LEMMA InitTypeInv == Init => TypeInv
  <1> SUFFICES ASSUME Init PROVE TypeInv
    OBVIOUS
  <1>1. DedupeTypeOK
    <2>1. NoRecords \in [Msg -> Status] /\ 0 \in 0 .. LockAttempts
      BY AttemptsAssumption DEF NoRecords, Status
    <2> HIDE DEF NoRecords
    <2>2. "none" \in Status
      BY DEF Status
    <2> QED BY <2>1, <2>2 DEF Init, DedupeInit, DedupeTypeOK
  <1>2. shape \in [Msg -> Shape]
    <2>1. PICK s \in Scenarios : shape = s.shape
      BY DEF Init
    <2> QED BY <2>1, ScenariosAssumption
  <1>3. NoKey \in Keys
    BY DEF Keys
  <1> QED BY <1>1, <1>2, <1>3 DEF Init, DedupeInit, TypeInv, TypeOK, InHand

(* The steps of a call keep the types of the records.                        *)
LEMMA CallStepTypes ==
    ASSUME DedupeTypeOK, NEW c \in Call, CallStep(c), step[c] # "none" => subject[c] \in Msg
    PROVE  DedupeTypeOK' /\ UNCHANGED subject
  <1> USE AttemptsAssumption DEF DedupeTypeOK, fileVars
  <1>1. CASE MakeDir(c)
    BY <1>1 DEF MakeDir
  <1>2. CASE FindTaken(c)
    <2>1. tries' \in [Call -> 0 .. LockAttempts]
      BY <1>2 DEF FindTaken, MoreTries
    <2>2. lapses' \subseteq Faults \cup {"torn"}
      BY <1>2 DEF FindTaken, Faults
    <2> QED BY <1>2, <2>1, <2>2 DEF FindTaken
  <1>3. CASE BreakDir(c)
    BY <1>3 DEF BreakDir, Faults
  <1>4. CASE GiveUp(c)
    BY <1>4 DEF GiveUp, Faults
  <1>5. CASE ReadStore(c)
    <2>1. Records \in [Msg -> Status]
      BY DEF Records, Status
    <2>2. view' \in [Call -> [Msg -> Status]]
      BY <1>5, <2>1 DEF ReadStore
    <2>3. result' \in [Call -> {"none", "claimed", "refused", "marked", "error"}]
      BY <1>5 DEF ReadStore
    <2> QED BY <1>5, <2>2, <2>3 DEF ReadStore
  <1>6. CASE Truncate(c)
    BY <1>6 DEF Truncate
  <1>7. CASE Fill(c)
    BY <1>7 DEF Fill
  <1>8. CASE WriteFails(c)
    BY <1>8 DEF WriteFails, Faults
  <1>9. CASE Leave(c)
    BY <1>9 DEF Leave, NoRecords, Status
  <1> QED BY <1>1, <1>2, <1>3, <1>4, <1>5, <1>6, <1>7, <1>8, <1>9 DEF CallStep

(* So does the beginning of a claim or a mark.                               *)
LEMMA BeginCallTypes ==
    ASSUME DedupeTypeOK, NEW c \in Call, NEW s \in Status, BeginCall(c, subject[c], s),
           lapses' \subseteq Faults \cup {"torn"}
    PROVE  DedupeTypeOK' /\ UNCHANGED subject
  <1> USE AttemptsAssumption DEF DedupeTypeOK, fileVars, BeginCall
  <1>1. UNCHANGED subject
    OBVIOUS
  <1> QED BY <1>1

LEMMA Keyed ==
    ASSUME shape \in [Msg -> Shape], NEW m \in Msg, NEW mode
    PROVE  KeyOf(m, mode) \in Keys
  <1>1. shape[m] \in Shape
    OBVIOUS
  <1>2. shape[m].sender \in {"u", "v"} /\ shape[m].root \in Msg \cup {None}
    BY <1>1 DEF Shape
  <1>3. Opener(m) \in Msg
    BY <1>2 DEF Opener
  <1> QED BY <1>2, <1>3 DEF KeyOf, Keys

(* What a handler does to the records, and where it goes from there.         *)
Quietly(c) ==
    Refused(c) \/ Quote(c) \/ RunCommand(c) \/ PassContent(c)
    \/ ProcessFiles(c) \/ MarkDone(c) \/ FailureMarked(c) \/ Sorry(c)

Marking(c) ==
    IgnoreEmpty(c) \/ DropDuplicate(c) \/ Replied(c) \/ Unshown(c) \/ CommandUnlinked(c) \/ Throws(c)
    \/ AnswerLost(c)

(* What may be noted of the sending of replies.                              *)
Unsent == {"stop", "lost", "unshown"}

LEMMA QuietSteps ==
    ASSUME NEW c \in Call, Quietly(c), TypeInv
    PROVE  /\ UNCHANGED <<fileVars, lockDir, callVars, faults, handled, shape, up, seen, proc, key>>
           /\ lapses \subseteq lapses' /\ lapses' \subseteq lapses \cup Unsent
           /\ at[c] # "idle" /\ step[c] = "none"
           /\ \E place \in {"decide", "command", "files", "notice", "prompt", "sorry", "done"} :
                 at' = [at EXCEPT ![c] = place]
  <1> USE DEF TypeInv, InHand, Goto, procVars, handlerVars, historyVars, dedupeVars
  <1>1. CASE Refused(c)
    BY <1>1 DEF Refused
  <1>2. CASE Quote(c)
    BY <1>2 DEF Quote
  <1>3. CASE RunCommand(c)
    BY <1>3 DEF RunCommand
  <1>4. CASE PassContent(c)
    BY <1>4 DEF PassContent
  <1>5. CASE ProcessFiles(c)
    BY <1>5 DEF ProcessFiles
  <1>6. CASE MarkDone(c)
    BY <1>6 DEF MarkDone
  <1>7. CASE FailureMarked(c)
    BY <1>7 DEF FailureMarked
  <1>8. CASE Sorry(c)
    BY <1>8 DEF Sorry, Slip, Unsent
  <1> QED BY <1>1, <1>2, <1>3, <1>4, <1>5, <1>6, <1>7, <1>8 DEF Quietly

LEMMA MarkingSteps ==
    ASSUME NEW c \in Call, Marking(c), TypeInv
    PROVE  /\ UNCHANGED <<handled, shape, procVars, proc, key, quoted>>
           /\ at[c] # "idle" /\ lapses' \subseteq lapses \cup Unsent /\ lapses \subseteq lapses'
           /\ \E s \in {"ignored", "replied", "failed"} : BeginCall(c, subject[c], s)
           /\ \E place \in {"mark", "failing"} : at' = [at EXCEPT ![c] = place]
  <1> USE DEF TypeInv, InHand, Goto, procVars, handlerVars, historyVars, BeginMark, AfterReply
  <1>1. CASE IgnoreEmpty(c)
    BY <1>1 DEF IgnoreEmpty
  <1>2. CASE DropDuplicate(c)
    BY <1>2 DEF DropDuplicate
  <1>3. CASE Replied(c)
    BY <1>3 DEF Replied
  <1>4. CASE CommandUnlinked(c)
    BY <1>4 DEF CommandUnlinked, Slip, Unsent
  <1>5. CASE Throws(c)
    BY <1>5 DEF Throws
  <1>6. CASE Unshown(c)
    BY <1>6 DEF Unshown, Slip, Unsent
  <1>7. CASE AnswerLost(c)
    BY <1>7 DEF AnswerLost, Slip, Unsent
  <1> QED BY <1>1, <1>2, <1>3, <1>4, <1>5, <1>6, <1>7 DEF Marking

Places == {"idle", "mode", "claim", "quote", "decide", "command", "files", "notice",
           "prompt", "mark", "failing", "sorry", "done"}

(* A step of a call moves nothing but its own access.                        *)
LEMMA StoreSteps ==
    ASSUME NEW c \in Call, CallStep(c), DedupeTypeOK
    PROVE  /\ step[c] # "none"
           /\ \A d \in Call \ {c} : step'[d] = step[d]
  <1> QED BY DEF CallStep, MakeDir, FindTaken, BreakDir, GiveUp, ReadStore, Truncate, Fill,
                 WriteFails, Leave, DedupeTypeOK

(* Every action keeps the types.                                             *)
LEMMA NextTypeInv == TypeInv /\ [Next]_vars => TypeInv'
  <1> SUFFICES ASSUME TypeInv, [Next]_vars PROVE TypeInv'
    OBVIOUS
  <1> TypeOK /\ DedupeTypeOK /\ InHand
    BY DEF TypeInv, TypeOK
  <1> USE DEF procVars, handlerVars, historyVars, Goto
  <1>1. ASSUME NEW c \in Call, StoreStep(c) PROVE TypeInv'
    <2>1. CallStep(c) /\ step[c] # "none" /\ \A d \in Call \ {c} : step'[d] = step[d]
      BY <1>1, StoreSteps DEF StoreStep
    <2>2. DedupeTypeOK' /\ UNCHANGED subject
      BY <2>1, CallStepTypes DEF InHand
    <2>3. TypeOK'
      BY <1>1, <2>2 DEF StoreStep, TypeOK
    <2>4. InHand'
      BY <1>1, <2>1, <2>2 DEF StoreStep, InHand
    <2> QED BY <2>3, <2>4 DEF TypeInv
  <1>2. ASSUME NEW c \in Call, NEW p \in Proc, NEW m \in Msg, Arrive(c, p, m) PROVE TypeInv'
    <2>1. DedupeTypeOK'
      BY <1>2 DEF Arrive, DedupeTypeOK, fileVars
    <2>2. at' \in [Call -> Places]
      BY <1>2 DEF Arrive, TypeOK, Places
    <2>3. TypeOK'
      BY <1>2, <2>1, <2>2 DEF Arrive, TypeOK, Places
    <2>4. at[c] = "idle" /\ at'[c] \in {"mode", "done"} /\ \A d \in Call \ {c} : at'[d] = at[d]
      BY <1>2 DEF Arrive, TypeOK
    <2>5. InHand'
      BY <1>2, <2>4 DEF Arrive, InHand, TypeOK, DedupeTypeOK
    <2> QED BY <2>3, <2>5 DEF TypeInv
  <1>3. ASSUME NEW c \in Call, Dispatch(c) PROVE TypeInv'
    <2>1. key' \in [Call -> Keys]
      BY <1>3, Keyed DEF Dispatch, TypeOK, InHand
    <2>2. lapses' \subseteq Faults \cup {"torn"}
      BY <1>3 DEF Dispatch, DedupeTypeOK, Faults
    <2>3. DedupeTypeOK' /\ UNCHANGED subject /\ at[c] = "mode"
      <3>2. CASE subject[c] \in seen[proc[c]]
        BY <1>3, <2>2, <3>2 DEF Dispatch, DedupeTypeOK, fileVars, callVars
      <3>3. CASE subject[c] \notin seen[proc[c]]
        BY <1>3, <2>2, <3>3, BeginCallTypes DEF Dispatch, Status
      <3> QED BY <1>3, <3>2, <3>3 DEF Dispatch
    <2>4. \/ at' = [at EXCEPT ![c] = "done"] /\ UNCHANGED step
          \/ at' = [at EXCEPT ![c] = "claim"] /\ \A d \in Call \ {c} : step'[d] = step[d]
      BY <1>3 DEF Dispatch, callVars, BeginCall, DedupeTypeOK
    <2>5. TypeOK'
      BY <1>3, <2>1, <2>3, <2>4 DEF Dispatch, TypeOK
    <2>6. InHand'
      BY <1>3, <2>3, <2>4 DEF Dispatch, InHand, TypeOK
    <2> QED BY <2>5, <2>6 DEF TypeInv
  <1>4. ASSUME NEW c \in Call, Claimed(c) PROVE TypeInv'
    <2>1. seen' \in [Proc -> SUBSET Msg]
      BY <1>4 DEF Claimed, MoreSeen, TypeOK, InHand
    <2>2. DedupeTypeOK' /\ UNCHANGED <<subject, step>>
      BY <1>4 DEF Claimed, dedupeVars, fileVars, callVars, DedupeTypeOK
    <2>3. handled' \in [Msg -> Nat]
      <3>1. handled \in [Msg -> Nat] /\ subject[c] \in Msg
        BY <1>4 DEF Claimed, TypeOK, InHand
      <3>2. handled' = [handled EXCEPT ![subject[c]] = @ + 1]
        BY <1>4 DEF Claimed
      <3> QED BY <3>1, <3>2
    <2>4. at[c] = "claim" /\ step[c] = "none" /\ \E place \in {"quote", "decide"} : at' = [at EXCEPT ![c] = place]
      BY <1>4 DEF Claimed
    <2>5. TypeOK'
      BY <1>4, <2>1, <2>2, <2>3, <2>4 DEF Claimed, TypeOK
    <2>6. InHand'
      BY <1>4, <2>2, <2>4 DEF Claimed, InHand, TypeOK
    <2> QED BY <2>5, <2>6 DEF TypeInv
  <1>5. ASSUME NEW c \in Call, Quietly(c) PROVE TypeInv'
    <2>1. PICK place \in {"decide", "command", "files", "notice", "prompt", "sorry", "done"} :
             at' = [at EXCEPT ![c] = place]
      BY <1>5, QuietSteps
    <2>2. /\ UNCHANGED <<fileVars, lockDir, callVars, faults, handled, shape, up, seen, proc, key>>
          /\ at[c] # "idle" /\ step[c] = "none" /\ lapses' \subseteq lapses \cup Unsent
      BY <1>5, QuietSteps
    <2>3. DedupeTypeOK'
      BY <2>2 DEF fileVars, callVars, DedupeTypeOK, Unsent, Faults
    <2>4. quoted' \in [Call -> {"nothing", "text", "picture"}]
      BY <1>5 DEF Quietly, Refused, Quote, RunCommand, PassContent, ProcessFiles, MarkDone, FailureMarked, Sorry, TypeOK
    <2>5. shown' \in [Msg -> SUBSET {"reply", "sorry"}] /\ dropped' \subseteq Msg
      BY <1>5 DEF Quietly, Refused, Quote, RunCommand, PassContent, ProcessFiles, MarkDone, FailureMarked, Sorry, TypeOK, Tell
    <2>6. TypeOK'
      BY <2>1, <2>2, <2>3, <2>4, <2>5 DEF TypeOK
    <2>7. InHand'
      BY <2>1, <2>2 DEF InHand, TypeOK, callVars
    <2> QED BY <2>6, <2>7 DEF TypeInv
  <1>6. ASSUME NEW c \in Call, Marking(c) PROVE TypeInv'
    <2>1. PICK s \in {"ignored", "replied", "failed"} : BeginCall(c, subject[c], s)
      BY <1>6, MarkingSteps
    <2>2. PICK place \in {"mark", "failing"} : at' = [at EXCEPT ![c] = place]
      BY <1>6, MarkingSteps
    <2>3. UNCHANGED <<handled, shape, procVars, proc, key, quoted>> /\ at[c] # "idle"
      BY <1>6, MarkingSteps
    <2>4. lapses' \subseteq Faults \cup {"torn"}
      BY <1>6, MarkingSteps DEF DedupeTypeOK, Faults, Unsent
    <2>5. DedupeTypeOK' /\ UNCHANGED subject
      BY <2>1, <2>4, BeginCallTypes DEF Status
    <2>6. shown' \in [Msg -> SUBSET {"reply", "sorry"}] /\ dropped' \subseteq Msg
      BY <1>6 DEF Marking, IgnoreEmpty, DropDuplicate, Replied, Unshown, CommandUnlinked, Throws, AnswerLost, Slip, Tell, TypeOK, InHand
    <2>7. TypeOK'
      BY <2>2, <2>3, <2>5, <2>6 DEF TypeOK
    <2>8. InHand'
      BY <2>1, <2>2, <2>3, <2>5 DEF InHand, TypeOK, BeginCall, DedupeTypeOK
    <2> QED BY <2>7, <2>8 DEF TypeInv
  <1>7. ASSUME NEW p \in Proc, Crash(p) PROVE TypeInv'
    <2>1. DedupeTypeOK' /\ UNCHANGED subject
      <3>1. NoRecords \in [Msg -> Status] /\ 0 \in 0 .. LockAttempts
        BY AttemptsAssumption DEF NoRecords, Status
      <3> HIDE DEF NoRecords
      <3>2. lapses' \subseteq Faults \cup {"torn"}
        BY <1>7 DEF Crash, CallsDie, DedupeTypeOK, Faults
      <3>3. step' \in [Call -> {"none", "try", "break", "read", "write", "fill", "leave"}]
        BY <1>7 DEF Crash, CallsDie, DedupeTypeOK
      <3> QED BY <1>7, <3>1, <3>2, <3>3 DEF Crash, CallsDie, DedupeTypeOK, fileVars
    <2>2. at' \in [Call -> Places]
      BY <1>7 DEF Crash, TypeOK, Places
    <2>3. TypeOK'
      BY <1>7, <2>1, <2>2 DEF Crash, TypeOK, Places
    <2>4. \A c \in Call : proc[c] = p => at[c] # "idle" /\ at'[c] = "done" /\ step'[c] = "none"
      BY <1>7, NoneAssumption DEF Crash, CallsDie, InHand
    <2>5. \A c \in Call : proc[c] # p => at'[c] = at[c] /\ step'[c] = step[c]
      BY <1>7 DEF Crash, CallsDie
    <2>6. InHand'
      BY <1>7, <2>1, <2>4, <2>5 DEF Crash, InHand
    <2> QED BY <2>3, <2>6 DEF TypeInv
  <1>8. ASSUME DayPasses PROVE TypeInv'
    <2>1. DedupeTypeOK' /\ UNCHANGED <<subject, step>>
      BY <1>8 DEF DayPasses, RecordsAge, DedupeTypeOK, callVars, Faults
    <2>2. TypeOK'
      BY <1>8, <2>1 DEF DayPasses, TypeOK
    <2>3. InHand'
      BY <1>8, <2>1 DEF DayPasses, InHand
    <2> QED BY <2>2, <2>3 DEF TypeInv
  <1>9. CASE UNCHANGED vars
    BY <1>9 DEF vars, dedupeVars, fileVars, callVars, DedupeTypeOK, TypeInv, TypeOK, InHand
  <1> QED BY <1>1, <1>2, <1>3, <1>4, <1>5, <1>6, <1>7, <1>8, <1>9 DEF Next, HandlerStep, Quietly, Marking

(* The variables keep their declared types.                                  *)
THEOREM TypeCorrect == Spec => []TypeOK
  <1>1. TypeInv => TypeOK
    BY DEF TypeInv
  <1> QED BY <1>1, InitTypeInv, NextTypeInv, PTL DEF Spec

-----------------------------------------------------------------------------
Orderly == lapses \cap {"unlocked", "torn"} = {}

(* The file has a record of the message that is not expired.                 *)
Known(m) == store[m] # "none" /\ m \notin old

(* The call has found its message unknown and its handler does not know yet. *)
Claiming(c) == at[c] = "claim" /\ result[c] = "claimed"

Writing(c) == step[c] \in {"write", "fill"}

(* One call at a time is at the file, and the file is whole for it.          *)
FileOK ==
    /\ \A c \in Call : InSection(c) => lockDir = c
    /\ torn => \E c \in Call : step[c] = "fill"

(* A call has no result before it has read, and what it will write keeps     *)
(* the records there are and adds its own.                                   *)
CallOK ==
    \A c \in Call :
        /\ step[c] # "none" => target[c] # "none"
        /\ step[c] \in {"try", "break", "read"} => result[c] = "none"
        /\ Writing(c) => view[c][subject[c]] # "none" /\ \A m \in Msg : Known(m) => view[c][m] # "none"

(* A message that is being claimed is claimed by one call, which is about to *)
(* write its record or has written it; it has not been handled.              *)
ClaimOK ==
    /\ \A c \in Call : Claiming(c) =>
          handled[subject[c]] = 0 /\ (Writing(c) \/ Known(subject[c]))
    /\ \A c, d \in Call : Claiming(c) /\ Claiming(d) /\ subject[c] = subject[d] => c = d

OnceOK == \A m \in Msg : handled[m] <= 1 /\ (handled[m] # 0 => Known(m))

OnceInv == FileOK /\ CallOK /\ ClaimOK /\ OnceOK

LEMMA InitOnceInv == Init => OnceInv
  BY CallAssumption DEF Init, DedupeInit, OnceInv, FileOK, CallOK, ClaimOK, OnceOK, InSection, Writing, Claiming

(* A step that leaves the records, the accesses and the claims alone.        *)
LEMMA OnceUntouched ==
    ASSUME OnceInv,
           UNCHANGED <<store, old, torn, lockDir, step, target, view, result, handled>>,
           \A c \in Call : Claiming(c)' => Claiming(c),
           \A c \in Call : subject'[c] = subject[c] \/ (step[c] = "none" /\ ~Claiming(c))
    PROVE  OnceInv'
  <1>1. FileOK'
    BY DEF OnceInv, FileOK, InSection
  <1>2. CallOK'
    BY DEF OnceInv, CallOK, Writing, Known
  <1>3. ClaimOK'
    BY DEF OnceInv, ClaimOK, Writing, Known
  <1>4. OnceOK'
    BY DEF OnceInv, OnceOK, Known
  <1> QED BY <1>1, <1>2, <1>3, <1>4 DEF OnceInv

(* A call begins.                                                            *)
LEMMA OnceBegin ==
    ASSUME OnceInv, TypeInv, NEW c \in Call, NEW s \in Status \ {"none"}, BeginCall(c, subject[c], s),
           step[c] = "none", ~Claiming(c), UNCHANGED handled, \A d \in Call \ {c} : at'[d] = at[d]
    PROVE  OnceInv'
  <1>1. /\ UNCHANGED <<store, old, torn, lockDir, view, subject>>
        /\ step'[c] = "try" /\ target'[c] # "none" /\ result'[c] = "none"
        /\ \A d \in Call \ {c} : step'[d] = step[d] /\ target'[d] = target[d] /\ result'[d] = result[d]
    BY DEF BeginCall, fileVars, TypeInv, TypeOK, DedupeTypeOK
  <1>2. ~Claiming(c)' /\ ~Writing(c)' /\ \A d \in Call \ {c} : (Claiming(d)' <=> Claiming(d)) /\ (Writing(d)' <=> Writing(d))
    BY <1>1 DEF Claiming, Writing
  <1>3. FileOK'
    BY <1>1 DEF OnceInv, FileOK, InSection
  <1>4. CallOK'
    BY <1>1, <1>2 DEF OnceInv, CallOK, Known
  <1>5. ClaimOK'
    BY <1>1, <1>2 DEF OnceInv, ClaimOK, Known
  <1>6. OnceOK'
    BY <1>1 DEF OnceInv, OnceOK, Known
  <1> QED BY <1>3, <1>4, <1>5, <1>6 DEF OnceInv

(* A step of a call at the records.                                          *)
LEMMA OnceStoreStep ==
    ASSUME OnceInv, TypeInv, NEW c \in Call, StoreStep(c), Orderly'
    PROVE  OnceInv'
  <1>1. /\ CallStep(c) /\ UNCHANGED <<handled, at, subject, target>>
        /\ subject[c] \in Msg /\ DedupeTypeOK
    <2>1. CallStep(c) /\ UNCHANGED <<handled, at>> /\ DedupeTypeOK
      BY DEF StoreStep, historyVars, TypeInv, TypeOK
    <2>2. step[c] # "none"
      BY <2>1, StoreSteps
    <2>3. UNCHANGED <<subject, target>>
      BY <2>1 DEF CallStep, MakeDir, FindTaken, BreakDir, GiveUp, ReadStore, Truncate, Fill, WriteFails, Leave
    <2> QED BY <2>1, <2>2, <2>3 DEF TypeInv, InHand
  <1> DEFINE Others == \A d \in Call \ {c} : step'[d] = step[d] /\ result'[d] = result[d] /\ view'[d] = view[d]
  <1>2. CASE MakeDir(c)
    <2>1. Others /\ UNCHANGED <<store, old, torn, result, view>> /\ step[c] = "try" /\ step'[c] = "read"
          /\ lockDir = None /\ lockDir' = c
      BY <1>1, <1>2 DEF MakeDir, DedupeTypeOK, fileVars
    <2>2. FileOK'
      BY <2>1, CallAssumption DEF OnceInv, FileOK, InSection
    <2>3. CallOK' /\ ClaimOK' /\ OnceOK'
      BY <1>1, <2>1 DEF OnceInv, CallOK, ClaimOK, OnceOK, Known, Claiming, Writing
    <2> QED BY <2>2, <2>3 DEF OnceInv
  <1>3. CASE FindTaken(c)
    <2>1. Others /\ UNCHANGED <<store, old, torn, result, view, lockDir>> /\ step[c] = "try" /\ step'[c] \in {"try", "break"}
      BY <1>1, <1>3 DEF FindTaken, DedupeTypeOK, fileVars
    <2>2. FileOK'
      BY <2>1 DEF OnceInv, FileOK, InSection
    <2>3. CallOK' /\ ClaimOK' /\ OnceOK'
      BY <1>1, <2>1 DEF OnceInv, CallOK, ClaimOK, OnceOK, Known, Claiming, Writing
    <2> QED BY <2>2, <2>3 DEF OnceInv
  <1>4. CASE BreakDir(c)
    <2>1. Others /\ UNCHANGED <<store, old, torn, result, view>> /\ step[c] = "break" /\ step'[c] = "try"
      BY <1>1, <1>4 DEF BreakDir, DedupeTypeOK, fileVars
    <2>2. lockDir = None \/ ~InSection(lockDir)
      BY <1>4 DEF BreakDir, Orderly
    <2>3. FileOK'
      BY <2>1, <2>2, CallAssumption DEF OnceInv, FileOK, InSection
    <2>4. CallOK' /\ ClaimOK' /\ OnceOK'
      BY <1>1, <2>1 DEF OnceInv, CallOK, ClaimOK, OnceOK, Known, Claiming, Writing
    <2> QED BY <2>3, <2>4 DEF OnceInv
  <1>5. CASE GiveUp(c)
    BY <1>5 DEF GiveUp, Orderly
  <1>6. CASE ReadStore(c)
    <2>1. Others /\ UNCHANGED <<store, old, torn, lockDir>> /\ step[c] = "read" /\ step'[c] = "write"
      BY <1>1, <1>6 DEF ReadStore, DedupeTypeOK, fileVars
    <2>2. ~torn /\ \A d \in Call \ {c} : ~InSection(d)
      BY <2>1 DEF OnceInv, FileOK, InSection
    <2>3. \A m \in Msg : Known(m) <=> Records[m] # "none"
      BY <2>2 DEF Known, Records
    <2>4. /\ view'[c][subject[c]] # "none"
          /\ \A m \in Msg : Records[m] # "none" => view'[c][m] # "none"
          /\ result'[c] = "claimed" => Records[subject[c]] = "none"
      <3>1. target[c] # "none"
        BY <2>1 DEF OnceInv, CallOK
      <3>2. Records \in [Msg -> Status]
        BY <1>1 DEF Records, Status, DedupeTypeOK
      <3> HIDE DEF Records
      <3>3. CASE target[c] = "processing" /\ ~Claimable(subject[c])
        <4>1. view'[c] = Records /\ result'[c] = "refused"
          BY <1>1, <1>6, <3>3 DEF ReadStore, DedupeTypeOK
        <4> QED BY <1>1, <3>3, <4>1 DEF Claimable
      <3>4. CASE ~(target[c] = "processing" /\ ~Claimable(subject[c]))
        <4>1. view'[c] = [Records EXCEPT ![subject[c]] = target[c]]
          BY <1>1, <1>6, <3>4 DEF ReadStore, DedupeTypeOK
        <4>2. result'[c] = "claimed" => target[c] = "processing"
          BY <1>1, <1>6, <3>4 DEF ReadStore, DedupeTypeOK
        <4> QED BY <1>1, <3>1, <3>2, <3>4, <4>1, <4>2 DEF Claimable
      <3> QED BY <3>3, <3>4
    <2>5. FileOK'
      BY <2>1 DEF OnceInv, FileOK, InSection
    <2>6. CallOK'
      BY <1>1, <2>1, <2>3, <2>4 DEF OnceInv, CallOK, Known, Writing
    <2>7. \A d \in Call \ {c} : Claiming(d) => Known(subject[d])
      BY <2>2 DEF OnceInv, ClaimOK, Writing, InSection
    <2>8. ClaimOK'
      <3>1. Claiming(c)' => ~Known(subject[c])
        BY <1>1, <2>3, <2>4 DEF Claiming
      <3>2. \A d \in Call \ {c} : Claiming(d)' <=> Claiming(d)
        BY <1>1, <2>1 DEF Claiming
      <3>3. Claiming(c)' => handled[subject[c]] = 0
        BY <1>1, <3>1 DEF OnceInv, OnceOK
      <3>4. Writing(c)'
        BY <2>1 DEF Writing
      <3> QED BY <1>1, <2>1, <2>7, <3>1, <3>2, <3>3, <3>4 DEF OnceInv, ClaimOK, Known
    <2>9. OnceOK'
      BY <1>1, <2>1 DEF OnceInv, OnceOK, Known
    <2> QED BY <2>5, <2>6, <2>8, <2>9 DEF OnceInv
  <1>7. CASE Truncate(c)
    <2>1. Others /\ UNCHANGED <<store, old, result, view, lockDir>> /\ step[c] = "write" /\ step'[c] = "fill"
      BY <1>1, <1>7 DEF Truncate, DedupeTypeOK
    <2>2. FileOK'
      BY <2>1 DEF OnceInv, FileOK, InSection
    <2>3. CallOK' /\ ClaimOK' /\ OnceOK'
      BY <1>1, <2>1 DEF OnceInv, CallOK, ClaimOK, OnceOK, Known, Claiming, Writing
    <2> QED BY <2>2, <2>3 DEF OnceInv
  <1>8. CASE Fill(c)
    <2>1. Others /\ UNCHANGED <<result, view, lockDir>> /\ step[c] = "fill" /\ step'[c] = "leave"
          /\ ~torn' /\ store' = view[c] /\ old' = {m \in old \ {subject[c]} : view[c][m] # "none"}
      BY <1>1, <1>8 DEF Fill, DedupeTypeOK
    <2>2. \A d \in Call \ {c} : ~InSection(d)
      BY <2>1 DEF OnceInv, FileOK, InSection
    <2>3. \A m \in Msg : Known(m) => Known(m)'
      BY <2>1 DEF OnceInv, CallOK, Known, Writing
    <2>4. Known(subject[c])'
      BY <1>1, <2>1 DEF OnceInv, CallOK, Known, Writing
    <2>5. FileOK'
      BY <2>1 DEF OnceInv, FileOK, InSection
    <2>6. CallOK'
      BY <1>1, <2>1, <2>2 DEF OnceInv, CallOK, Writing, InSection
    <2>7. ClaimOK'
      BY <1>1, <2>1, <2>2, <2>3, <2>4 DEF OnceInv, ClaimOK, Claiming, Writing, InSection, InHand, TypeInv
    <2>8. OnceOK'
      BY <1>1, <2>3 DEF OnceInv, OnceOK
    <2> QED BY <2>5, <2>6, <2>7, <2>8 DEF OnceInv
  <1>9. CASE WriteFails(c)
    <2>1. Others /\ UNCHANGED <<store, old, torn, view, lockDir>> /\ step[c] \in {"write", "fill"} /\ step'[c] = "leave"
          /\ result'[c] = "error"
      BY <1>1, <1>9 DEF WriteFails, DedupeTypeOK, fileVars
    <2>2. ~torn
      BY <1>9 DEF WriteFails, Orderly
    <2>3. FileOK'
      BY <2>1, <2>2 DEF OnceInv, FileOK, InSection
    <2>4. CallOK' /\ ClaimOK' /\ OnceOK'
      BY <1>1, <2>1 DEF OnceInv, CallOK, ClaimOK, OnceOK, Known, Claiming, Writing
    <2> QED BY <2>3, <2>4 DEF OnceInv
  <1>10. CASE Leave(c)
    <2>1. Others /\ UNCHANGED <<store, old, torn, result>> /\ step[c] = "leave" /\ step'[c] = "none"
      BY <1>1, <1>10 DEF Leave, DedupeTypeOK, fileVars
    <2>2. \A d \in Call \ {c} : ~InSection(d)
      BY <2>1 DEF OnceInv, FileOK, InSection
    <2>3. FileOK'
      BY <2>1, <2>2 DEF OnceInv, FileOK, InSection
    <2>4. CallOK' /\ ClaimOK' /\ OnceOK'
      BY <1>1, <2>1 DEF OnceInv, CallOK, ClaimOK, OnceOK, Known, Claiming, Writing
    <2> QED BY <2>3, <2>4 DEF OnceInv
  <1> QED BY <1>1, <1>2, <1>3, <1>4, <1>5, <1>6, <1>7, <1>8, <1>9, <1>10 DEF CallStep

(* Every action keeps the invariant while nothing of the excused kind has    *)
(* happened.                                                                 *)
LEMMA NextOnceInv == TypeInv /\ (Orderly => OnceInv) /\ [Next]_vars => (Orderly' => OnceInv')
  <1> SUFFICES ASSUME TypeInv, Orderly => OnceInv, [Next]_vars, Orderly' PROVE OnceInv'
    OBVIOUS
  <1> TypeOK /\ DedupeTypeOK /\ InHand
    BY DEF TypeInv, TypeOK
  <1> USE DEF procVars, handlerVars, historyVars, Goto
  <1>1. lapses \subseteq lapses' => OnceInv
    BY DEF Orderly
  <1>2. ASSUME NEW c \in Call, StoreStep(c) PROVE OnceInv'
    <2>1. lapses \subseteq lapses'
      BY <1>2 DEF StoreStep, CallStep, MakeDir, FindTaken, BreakDir, GiveUp, ReadStore, Truncate, Fill, WriteFails, Leave
    <2> QED BY <1>1, <1>2, <2>1, OnceStoreStep
  <1>3. ASSUME NEW c \in Call, NEW p \in Proc, NEW m \in Msg, Arrive(c, p, m) PROVE OnceInv'
    <2>1. UNCHANGED <<store, old, torn, lockDir, step, target, view, result, handled, lapses>>
      BY <1>3 DEF Arrive, fileVars
    <2>2. /\ step[c] = "none" /\ ~Claiming(c) /\ ~Claiming(c)'
          /\ \A d \in Call \ {c} : subject'[d] = subject[d] /\ (Claiming(d)' <=> Claiming(d))
      <3>1. at[c] = "idle" /\ at'[c] \in {"mode", "done"} /\ \A d \in Call \ {c} : at'[d] = at[d]
        BY <1>3 DEF Arrive, TypeOK
      <3>2. \A d \in Call \ {c} : subject'[d] = subject[d]
        BY <1>3 DEF Arrive, DedupeTypeOK
      <3>3. step[c] = "none"
        BY <3>1 DEF InHand
      <3> QED BY <2>1, <3>1, <3>2, <3>3 DEF Claiming
    <2> QED BY <1>1, <2>1, <2>2, OnceUntouched
  <1>4. ASSUME NEW c \in Call, Dispatch(c) PROVE OnceInv'
    <2>1. lapses \subseteq lapses' /\ UNCHANGED handled /\ at[c] = "mode"
      BY <1>4 DEF Dispatch
    <2>2. step[c] = "none" /\ ~Claiming(c) /\ \A d \in Call \ {c} : at'[d] = at[d]
      BY <1>4, <2>1 DEF Dispatch, InHand, Claiming, TypeOK
    <2>3. CASE subject[c] \in seen[proc[c]]
      <3>1. UNCHANGED <<fileVars, lockDir, callVars>> /\ at'[c] = "done"
        BY <1>4, <2>3 DEF Dispatch, TypeOK
      <3>2. \A d \in Call : Claiming(d)' => Claiming(d)
        BY <2>2, <3>1 DEF Claiming, callVars
      <3> QED BY <1>1, <2>1, <3>1, <3>2, OnceUntouched DEF fileVars, callVars
    <2>4. CASE subject[c] \notin seen[proc[c]]
      <3>1. BeginCall(c, subject[c], "processing")
        BY <1>4, <2>4 DEF Dispatch
      <3> QED BY <1>1, <2>1, <2>2, <3>1, OnceBegin DEF Status
    <2> QED BY <2>3, <2>4
  <1>5. ASSUME NEW c \in Call, Claimed(c) PROVE OnceInv'
    <2>1. UNCHANGED <<store, old, torn, lockDir, step, target, view, result, subject, lapses>>
      BY <1>5 DEF Claimed, dedupeVars, fileVars, callVars
    <2>2. /\ OnceInv /\ Claiming(c) /\ step[c] = "none" /\ subject[c] \in Msg
      BY <1>1, <1>5, <2>1 DEF Claimed, Claiming, InHand
    <2>3. ~Claiming(c)' /\ \A d \in Call \ {c} : Claiming(d)' <=> Claiming(d)
      BY <1>5, <2>1 DEF Claimed, Claiming, TypeOK
    <2>4. handled' = [handled EXCEPT ![subject[c]] = @ + 1]
      BY <1>5 DEF Claimed
    <2>5. handled[subject[c]] = 0 /\ Known(subject[c])
      BY <2>2 DEF OnceInv, ClaimOK, Writing
    <2>6. handled' \in [Msg -> Nat] /\ handled'[subject[c]] = 1 /\ \A m \in Msg \ {subject[c]} : handled'[m] = handled[m]
      BY <2>2, <2>4, <2>5 DEF TypeOK
    <2>7. FileOK' /\ CallOK'
      BY <2>1, <2>2 DEF OnceInv, FileOK, CallOK, InSection, Writing, Known
    <2>8. ClaimOK'
      <3>1. ASSUME NEW d \in Call, Claiming(d)' PROVE d # c /\ Claiming(d) /\ subject[d] # subject[c] /\ subject[d] \in Msg
        BY <2>2, <2>3, <3>1 DEF OnceInv, ClaimOK, Claiming, InHand
      <3>2. ASSUME NEW d \in Call, Claiming(d)' PROVE handled'[subject'[d]] = 0 /\ (Writing(d) \/ Known(subject[d]))'
        BY <2>1, <2>2, <2>6, <3>1, <3>2 DEF OnceInv, ClaimOK, Writing, Known
      <3>3. ASSUME NEW d \in Call, NEW e \in Call, Claiming(d)', Claiming(e)', subject'[d] = subject'[e] PROVE d = e
        BY <2>1, <2>2, <3>1, <3>3 DEF OnceInv, ClaimOK
      <3> QED BY <3>2, <3>3 DEF ClaimOK
    <2>9. OnceOK'
      BY <2>1, <2>2, <2>5, <2>6 DEF OnceInv, OnceOK, Known
    <2> QED BY <2>7, <2>8, <2>9 DEF OnceInv
  <1>6. ASSUME NEW c \in Call, Quietly(c) PROVE OnceInv'
    <2>1. UNCHANGED <<fileVars, lockDir, callVars, handled>> /\ lapses \subseteq lapses'
      BY <1>6, QuietSteps
    <2>2. PICK place \in {"decide", "command", "files", "notice", "prompt", "sorry", "done"} :
             at' = [at EXCEPT ![c] = place]
      BY <1>6, QuietSteps
    <2>3. \A d \in Call : Claiming(d)' => Claiming(d)
      BY <2>1, <2>2 DEF Claiming, callVars, TypeOK
    <2> QED BY <1>1, <2>1, <2>3, OnceUntouched DEF fileVars, callVars
  <1>7. ASSUME NEW c \in Call, Marking(c) PROVE OnceInv'
    <2>1. lapses \subseteq lapses' /\ UNCHANGED handled
      BY <1>7, MarkingSteps
    <2>2. PICK s \in {"ignored", "replied", "failed"} : BeginCall(c, subject[c], s)
      BY <1>7, MarkingSteps
    <2>3. PICK place \in {"mark", "failing"} : at' = [at EXCEPT ![c] = place]
      BY <1>7, MarkingSteps
    <2>4. step[c] = "none" /\ ~Claiming(c)
      BY <1>7 DEF Marking, IgnoreEmpty, DropDuplicate, Replied, Unshown, CommandUnlinked, Throws, AnswerLost, Slip, InHand, Claiming
    <2> QED BY <1>1, <2>1, <2>2, <2>3, <2>4, OnceBegin DEF Status, TypeOK
  <1>8. ASSUME NEW p \in Proc, Crash(p) PROVE OnceInv'
    <2>1. /\ UNCHANGED <<store, old, torn, lockDir, subject, target, result, handled>> /\ lapses \subseteq lapses'
          /\ \A d \in Call : proc[d] = p => step'[d] = "none" /\ at'[d] = "done" /\ step[d] # "fill"
          /\ \A d \in Call : proc[d] # p => step'[d] = step[d] /\ at'[d] = at[d] /\ view'[d] = view[d]
      BY <1>8 DEF Crash, CallsDie, fileVars, Orderly
    <2>2. OnceInv
      BY <1>1, <2>1
    <2>3. FileOK'
      BY <2>1, <2>2 DEF OnceInv, FileOK, InSection
    <2>4. CallOK'
      BY <2>1, <2>2 DEF OnceInv, CallOK, Known, Writing
    <2>5. ClaimOK'
      BY <2>1, <2>2 DEF OnceInv, ClaimOK, Claiming, Known, Writing
    <2>6. OnceOK'
      BY <2>1, <2>2 DEF OnceInv, OnceOK, Known
    <2> QED BY <2>3, <2>4, <2>5, <2>6 DEF OnceInv
  <1>9. ASSUME DayPasses PROVE OnceInv'
    <2>1. UNCHANGED <<torn, lockDir, callVars, at>> /\ lapses \subseteq lapses' /\ handled' = [m \in Msg |-> 0]
          /\ old' = {m \in Msg : store[m] # "none"} /\ store' = store
      BY <1>9 DEF DayPasses, RecordsAge
    <2>2. \A d \in Call : step[d] = "none" /\ ~Claiming(d)
      BY <1>9 DEF DayPasses, InHand, Claiming
    <2>3. FileOK' /\ CallOK'
      BY <1>1, <2>1, <2>2 DEF OnceInv, FileOK, CallOK, InSection, Writing, callVars
    <2>4. ClaimOK' /\ OnceOK'
      BY <2>1, <2>2 DEF ClaimOK, OnceOK, Claiming, callVars
    <2> QED BY <2>3, <2>4 DEF OnceInv
  <1>10. CASE UNCHANGED vars
    BY <1>1, <1>10, OnceUntouched DEF vars, dedupeVars, fileVars, callVars, Claiming
  <1> QED BY <1>2, <1>3, <1>4, <1>5, <1>6, <1>7, <1>8, <1>9, <1>10 DEF Next, HandlerStep, Quietly, Marking

(* A message is handled at most once in MESSAGE_TTL_MS, by however many      *)
(* processes, over however many deliveries and crashes, as long as no call   *)
(* goes on without the lock and no write is cut off.                         *)
THEOREM MessagesAreHandledOnce == Spec => []HandledOnce
  <1> DEFINE IInv == TypeInv /\ (Orderly => OnceInv)
  <1>1. Init => IInv
    BY InitTypeInv, InitOnceInv
  <1>2. IInv /\ [Next]_vars => IInv'
    BY NextTypeInv, NextOnceInv
  <1>3. IInv => HandledOnce
    BY DEF HandledOnce, Orderly, OnceInv, OnceOK
  <1> QED BY <1>1, <1>2, <1>3, PTL DEF Spec

-----------------------------------------------------------------------------
(* What was noted stays noted, and messages do not change.                   *)
LEMMA LapsesGrow == TypeInv /\ [Next]_vars => lapses \subseteq lapses' /\ UNCHANGED shape
  <1> SUFFICES ASSUME TypeInv, [Next]_vars PROVE lapses \subseteq lapses' /\ UNCHANGED shape
    OBVIOUS
  <1>1. ASSUME NEW c \in Call, StoreStep(c) PROVE lapses \subseteq lapses' /\ UNCHANGED shape
    BY <1>1 DEF StoreStep, CallStep, MakeDir, FindTaken, BreakDir, GiveUp, ReadStore, Truncate, Fill, WriteFails, Leave
  <1>2. ASSUME NEW c \in Call, Dispatch(c) \/ Claimed(c) PROVE lapses \subseteq lapses' /\ UNCHANGED shape
    BY <1>2 DEF Dispatch, Claimed, dedupeVars
  <1>3. ASSUME NEW c \in Call, Quietly(c) PROVE lapses \subseteq lapses' /\ UNCHANGED shape
    BY <1>3, QuietSteps
  <1>4. ASSUME NEW c \in Call, Marking(c) PROVE lapses \subseteq lapses' /\ UNCHANGED shape
    BY <1>4, MarkingSteps
  <1>5. ASSUME NEW c \in Call, NEW p \in Proc, NEW m \in Msg, Arrive(c, p, m)
        PROVE  lapses \subseteq lapses' /\ UNCHANGED shape
    BY <1>5 DEF Arrive
  <1>6. ASSUME NEW p \in Proc, Crash(p) PROVE lapses \subseteq lapses' /\ UNCHANGED shape
    BY <1>6 DEF Crash, CallsDie
  <1>7. ASSUME DayPasses PROVE lapses \subseteq lapses' /\ UNCHANGED shape
    BY <1>7 DEF DayPasses, RecordsAge
  <1>8. CASE UNCHANGED vars
    BY <1>8 DEF vars, dedupeVars
  <1> QED BY <1>1, <1>2, <1>3, <1>4, <1>5, <1>6, <1>7, <1>8 DEF Next, HandlerStep, Quietly, Marking

-----------------------------------------------------------------------------
(* The key of a message is that of its chat's mode, or of a plain group if   *)
(* the mode could not be asked for.                                          *)
KeyOK ==
    \A c \in Call : key[c] # NoKey =>
        /\ at[c] \notin {"idle", "mode"}
        /\ key[c] = KeyOf(subject[c], Of(c).chat) \/ ("mode" \in lapses /\ key[c] = KeyOf(subject[c], "group"))

(* The message that opened a thread is in the same chat and is no reply.     *)
Threads ==
    \A m \in Msg : shape[m].root # None =>
        /\ shape[shape[m].root].root = None
        /\ shape[shape[m].root].chat = shape[m].chat

KeyInv == KeyOK /\ Threads

LEMMA InitKeyInv == Init => KeyInv
  <1> SUFFICES ASSUME Init PROVE KeyInv
    OBVIOUS
  <1>1. PICK s \in Scenarios : shape = s.shape
    BY DEF Init
  <1>2. Threads
    BY <1>1, ThreadAssumption DEF Threads
  <1> QED BY <1>2 DEF Init, KeyInv, KeyOK

(* A step that gives no key.                                                 *)
LEMMA KeyKept ==
    ASSUME KeyInv, UNCHANGED <<shape, key>>, lapses \subseteq lapses',
           \A c \in Call : at[c] \notin {"idle", "mode"} =>
               subject'[c] = subject[c] /\ at'[c] \notin {"idle", "mode"}
    PROVE  KeyInv'
  <1>1. Threads'
    BY DEF KeyInv, Threads
  <1>2. ASSUME NEW c \in Call, key'[c] # NoKey
        PROVE  /\ at'[c] \notin {"idle", "mode"}
               /\ \/ key'[c] = KeyOf(subject[c], Of(c).chat)'
                  \/ "mode" \in lapses' /\ key'[c] = KeyOf(subject[c], "group")'
    <2>1. at[c] \notin {"idle", "mode"} /\ subject'[c] = subject[c] /\ at'[c] \notin {"idle", "mode"}
      BY <1>2 DEF KeyInv, KeyOK
    <2>2. /\ KeyOf(subject[c], Of(c).chat)' = KeyOf(subject[c], Of(c).chat)
          /\ KeyOf(subject[c], "group")' = KeyOf(subject[c], "group")
      BY <2>1 DEF KeyOf, Of, Opener
    <2> QED BY <1>2, <2>1, <2>2 DEF KeyInv, KeyOK
  <1> QED BY <1>1, <1>2 DEF KeyInv, KeyOK

LEMMA NextKeyInv == TypeInv /\ KeyInv /\ [Next]_vars => KeyInv'
  <1> SUFFICES ASSUME TypeInv, KeyInv, [Next]_vars PROVE KeyInv'
    OBVIOUS
  <1>0. /\ TypeOK /\ DedupeTypeOK /\ InHand
        /\ lapses \subseteq lapses' /\ UNCHANGED shape
    BY LapsesGrow DEF TypeInv, TypeOK
  <1>1. ASSUME NEW c \in Call, StoreStep(c) PROVE KeyInv'
    <2>1. UNCHANGED <<at, key, subject>>
      BY <1>1 DEF StoreStep, handlerVars, CallStep, MakeDir, FindTaken, BreakDir, GiveUp, ReadStore, Truncate,
                  Fill, WriteFails, Leave
    <2> QED BY <1>0, <2>1, KeyKept
  <1>2. ASSUME NEW c \in Call, NEW p \in Proc, NEW m \in Msg, Arrive(c, p, m) PROVE KeyInv'
    <2>1. /\ at[c] = "idle" /\ UNCHANGED key
          /\ \A d \in Call \ {c} : at'[d] = at[d] /\ subject'[d] = subject[d]
      BY <1>0, <1>2 DEF Arrive, Goto, TypeOK, DedupeTypeOK
    <2> QED BY <1>0, <2>1, KeyKept
  <1>3. ASSUME NEW c \in Call, Dispatch(c) PROVE KeyInv'
    <2>1. PICK mode \in ChatModes(subject[c]) :
             /\ key' = [key EXCEPT ![c] = KeyOf(subject[c], mode)]
             /\ lapses' = lapses \cup {l \in {"mode"} : key'[c] # KeyOf(subject[c], Of(c).chat)}
      BY <1>3 DEF Dispatch
    <2>2. UNCHANGED subject
      BY <1>0, <1>3, BeginCallTypes DEF Dispatch, callVars, DedupeTypeOK, BeginCall
    <2>3. at[c] = "mode" /\ at'[c] \in {"claim", "done"} /\ \A d \in Call \ {c} : at'[d] = at[d]
      BY <1>0, <1>3 DEF Dispatch, Goto, TypeOK
    <2>4. key'[c] = KeyOf(subject[c], mode) /\ \A d \in Call \ {c} : key'[d] = key[d]
      BY <1>0, <2>1 DEF TypeOK
    <2>5. mode = Of(c).chat \/ mode = "group"
      BY DEF ChatModes, Of
    <2>6. \A d \in Call : /\ KeyOf(subject[d], Of(d).chat)' = KeyOf(subject[d], Of(d).chat)
                         /\ KeyOf(subject[d], "group")' = KeyOf(subject[d], "group")
      BY <1>0, <2>2 DEF KeyOf, Of, Opener
    <2>7. key'[c] = KeyOf(subject[c], Of(c).chat) \/ ("mode" \in lapses' /\ key'[c] = KeyOf(subject[c], "group"))
      BY <2>1, <2>4, <2>5
    <2>8. KeyOK'
      <3>1. ASSUME NEW d \in Call \ {c}, key'[d] # NoKey
            PROVE  /\ at'[d] \notin {"idle", "mode"}
                   /\ \/ key'[d] = KeyOf(subject[d], Of(d).chat)
                      \/ "mode" \in lapses' /\ key'[d] = KeyOf(subject[d], "group")
        BY <1>0, <2>3, <2>4, <3>1 DEF KeyInv, KeyOK
      <3> QED BY <2>3, <2>6, <2>7, <3>1 DEF KeyOK
    <2> QED BY <1>0, <2>8 DEF KeyInv, Threads
  <1>4. ASSUME NEW c \in Call, Claimed(c) PROVE KeyInv'
    <2>1. UNCHANGED <<key, subject>> /\ at'[c] \in {"quote", "decide"} /\ \A d \in Call \ {c} : at'[d] = at[d]
      BY <1>0, <1>4 DEF Claimed, Goto, TypeOK, dedupeVars, callVars, handlerVars
    <2> QED BY <1>0, <2>1, KeyKept
  <1>5. ASSUME NEW c \in Call, Quietly(c) PROVE KeyInv'
    <2>1. UNCHANGED <<key, subject>>
      BY <1>0, <1>5, QuietSteps DEF callVars
    <2>2. PICK place \in {"decide", "command", "files", "notice", "prompt", "sorry", "done"} :
             at' = [at EXCEPT ![c] = place]
      BY <1>5, QuietSteps
    <2>3. at'[c] = place /\ \A d \in Call \ {c} : at'[d] = at[d]
      BY <1>0, <2>2 DEF TypeOK
    <2> QED BY <1>0, <2>1, <2>3, KeyKept
  <1>6. ASSUME NEW c \in Call, Marking(c) PROVE KeyInv'
    <2>1. UNCHANGED <<key, subject>>
      BY <1>0, <1>6, MarkingSteps DEF BeginCall, DedupeTypeOK
    <2>2. PICK place \in {"mark", "failing"} : at' = [at EXCEPT ![c] = place]
      BY <1>6, MarkingSteps
    <2>3. at'[c] = place /\ \A d \in Call \ {c} : at'[d] = at[d]
      BY <1>0, <2>2 DEF TypeOK
    <2> QED BY <1>0, <2>1, <2>3, KeyKept
  <1>7. ASSUME NEW p \in Proc, Crash(p) PROVE KeyInv'
    <2>1. UNCHANGED <<key, subject>> /\ \A d \in Call : at'[d] = at[d] \/ at'[d] = "done"
      BY <1>7 DEF Crash, CallsDie, handlerVars
    <2> QED BY <1>0, <2>1, KeyKept
  <1>8. ASSUME DayPasses PROVE KeyInv'
    <2>1. UNCHANGED <<key, subject, at>>
      BY <1>8 DEF DayPasses, RecordsAge, handlerVars, callVars
    <2> QED BY <1>0, <2>1, KeyKept
  <1>9. CASE UNCHANGED vars
    BY <1>0, <1>9, KeyKept DEF vars, dedupeVars, callVars, handlerVars
  <1> QED BY <1>1, <1>2, <1>3, <1>4, <1>5, <1>6, <1>7, <1>8, <1>9 DEF Next, HandlerStep, Quietly, Marking

(* The opener of a topic and every reply to it get one key, in whichever     *)
(* processes and in whichever order they are handled, if their events name   *)
(* the thread, or if none does and no chat mode was missed.                  *)
THEOREM TopicsStayTogether == Spec => []TopicTogether
  <1> DEFINE IInv == TypeInv /\ KeyInv
  <1>1. Init => IInv
    BY InitTypeInv, InitKeyInv
  <1>2. IInv /\ [Next]_vars => IInv'
    BY NextTypeInv, NextKeyInv
  <1>3. IInv => TopicTogether
    <2> SUFFICES ASSUME TypeInv, KeyInv, NEW c \in Call, NEW d \in Call, key[c] # NoKey, key[d] # NoKey,
                        Of(c).chat = "topic", Of(d).root = subject[c], Of(c).inThread = Of(d).inThread,
                        Of(c).inThread \/ "mode" \notin lapses
                 PROVE  key[c] = key[d]
      BY DEF TopicTogether
    <2>1. subject[c] \in Msg /\ subject[d] \in Msg
      BY DEF KeyInv, KeyOK, TypeInv, InHand
    <2>2. subject[c] # None
      BY <2>1, NoneAssumption
    <2>3. Of(c).root = None /\ Of(d).chat = "topic"
      BY <2>1, <2>2 DEF KeyInv, Threads, Of
    <2>4. Opener(subject[c]) = subject[c] /\ Opener(subject[d]) = subject[c]
      BY <2>2, <2>3 DEF Opener, Of
    <2>5. \A mode : Of(c).inThread => /\ KeyOf(subject[c], mode) = <<"threadId", subject[c]>>
                                     /\ KeyOf(subject[d], mode) = <<"threadId", subject[c]>>
      BY <2>3, <2>4 DEF KeyOf, Of
    <2>6. ~Of(c).inThread => /\ KeyOf(subject[c], "topic") = <<"thread", subject[c]>>
                             /\ KeyOf(subject[d], "topic") = <<"thread", subject[c]>>
      BY <2>3, <2>4 DEF KeyOf, Of
    <2> QED BY <2>3, <2>5, <2>6 DEF KeyInv, KeyOK
  <1> QED BY <1>1, <1>2, <1>3, PTL DEF Spec

-----------------------------------------------------------------------------
(* A call that has claimed its message and is not done with it, not even     *)
(* with its mark.                                                            *)
Handling(c) == at[c] \in {"quote", "decide", "command", "files", "notice", "prompt"}
Owning(c) == Handling(c) \/ (at[c] \in {"mark", "failing", "sorry"} /\ "write" \notin lapses)

(* A message has one such call at a time, and none that has claimed it is    *)
(* not counted.                                                              *)
OwnerOK ==
    /\ \A c \in Call : Owning(c) => handled[subject[c]] # 0
    /\ \A c, d \in Call : Owning(c) /\ Owning(d) /\ subject[c] = subject[d] => c = d
    /\ \A c \in Call : result[c] = "error" => "write" \in lapses

(* Its sender is sent nothing before it is claimed, nothing by its call      *)
(* before the mark or the apology, and no reply when the call fails, unless  *)
(* the answer to it was lost.                                                *)
Lost == {what \in {"reply"} : "lost" \in lapses}
ShownOK ==
    /\ \A m \in Msg : handled[m] = 0 => shown[m] = {}
    /\ \A c \in Call : Handling(c) => shown[subject[c]] = {}
    /\ \A c \in Call : at[c] \in {"failing", "sorry"} => shown[subject[c]] \subseteq Lost
    /\ \A m \in Msg : "reply" \in shown[m] /\ "sorry" \in shown[m] => "lost" \in lapses

OwnerInv == OwnerOK /\ ("write" \notin lapses => ShownOK)

LEMMA InitOwnerInv == Init => OwnerInv
  BY DEF Init, DedupeInit, OwnerInv, OwnerOK, ShownOK, Owning, Handling

(* A step that claims and tells nothing.                                     *)
LEMMA OwnersKept ==
    ASSUME OwnerInv, UNCHANGED <<handled, shown>>, lapses \subseteq lapses',
           \A c \in Call : result'[c] = "error" => result[c] = "error" \/ "write" \in lapses',
           \A c \in Call : Owning(c)' =>
               Owning(c) /\ subject'[c] = subject[c] /\ (at[c] = "mark" => at'[c] = "mark")
               /\ (Handling(c)' => Handling(c))
    PROVE  OwnerInv'
  <1>1. OwnerOK'
    BY DEF OwnerInv, OwnerOK
  <1>2. ASSUME "write" \notin lapses' PROVE ShownOK'
    <2>1. ShownOK /\ Lost \subseteq Lost'
      BY <1>2 DEF OwnerInv, Lost
    <2>2. ASSUME NEW c \in Call, Handling(c)' PROVE shown'[subject'[c]] = {}
      BY <2>1, <2>2 DEF ShownOK, Owning
    <2>3. ASSUME NEW c \in Call, at'[c] \in {"failing", "sorry"} PROVE shown'[subject'[c]] \subseteq Lost'
      <3>1. Owning(c)' /\ at'[c] # "mark"
        BY <1>2, <2>3 DEF Owning
      <3>2. Owning(c) /\ subject'[c] = subject[c] /\ at[c] # "mark"
        BY <3>1
      <3> QED BY <2>1, <3>2 DEF ShownOK, Owning
    <2> QED BY <2>1, <2>2, <2>3 DEF ShownOK
  <1> QED BY <1>1, <1>2 DEF OwnerInv

(* Where a call goes that answers nobody.                                    *)
Silent(c) ==
    Refused(c) \/ Quote(c) \/ RunCommand(c) \/ PassContent(c) \/ ProcessFiles(c) \/ MarkDone(c)
    \/ FailureMarked(c) \/ IgnoreEmpty(c) \/ DropDuplicate(c) \/ Unshown(c) \/ CommandUnlinked(c)
    \/ Throws(c)

LEMMA SilentSteps ==
    ASSUME TypeInv, OwnerInv, NEW c \in Call, Silent(c)
    PROVE  /\ UNCHANGED <<handled, shown, subject>>
           /\ \A d \in Call : result'[d] = "error" => result[d] = "error"
           /\ \A d \in Call \ {c} : at'[d] = at[d]
           /\ Owning(c)' => Owning(c) /\ (at[c] = "mark" => at'[c] = "mark") /\ (Handling(c)' => Handling(c))
           /\ lapses \subseteq lapses'
  <1>0. at \in [Call -> Places] /\ DedupeTypeOK
    BY DEF TypeInv, TypeOK, Places
  <1> USE <1>0 DEF Goto, historyVars, Owning, Handling, BeginMark, AfterReply, Slip
  <1>1. CASE Refused(c)
    BY <1>1 DEF Refused, dedupeVars, callVars
  <1>2. CASE Quote(c)
    BY <1>2 DEF Quote, dedupeVars, callVars
  <1>3. CASE RunCommand(c)
    BY <1>3 DEF RunCommand, dedupeVars, callVars
  <1>4. CASE PassContent(c)
    BY <1>4 DEF PassContent, dedupeVars, callVars
  <1>5. CASE ProcessFiles(c)
    BY <1>5 DEF ProcessFiles, dedupeVars, callVars
  <1>6. CASE MarkDone(c)
    BY <1>6 DEF MarkDone, dedupeVars, callVars
  <1>7. CASE FailureMarked(c)
    BY <1>7 DEF FailureMarked, dedupeVars, callVars
  <1>8. CASE IgnoreEmpty(c)
    BY <1>8 DEF IgnoreEmpty, BeginCall, DedupeTypeOK
  <1>9. CASE DropDuplicate(c)
    BY <1>9 DEF DropDuplicate, BeginCall, DedupeTypeOK
  <1>10. CASE CommandUnlinked(c)
    BY <1>10 DEF CommandUnlinked, BeginCall, DedupeTypeOK
  <1>11. CASE Throws(c)
    <2>1. at[c] \in {"claim", "mark"} => result[c] = "error"
      BY <1>11 DEF Throws
    <2>2. at[c] \in {"claim", "mark"} => "write" \in lapses
      BY <2>1 DEF OwnerInv, OwnerOK
    <2> QED BY <1>11, <2>2 DEF Throws, BeginCall, DedupeTypeOK
  <1>12. CASE Unshown(c)
    BY <1>12 DEF Unshown, BeginCall, DedupeTypeOK
  <1> QED BY <1>1, <1>2, <1>3, <1>4, <1>5, <1>6, <1>7, <1>8, <1>9, <1>10, <1>11, <1>12 DEF Silent

LEMMA NextOwnerInv == TypeInv /\ OnceInv /\ OwnerInv /\ [Next]_vars => OwnerInv'
  <1> SUFFICES ASSUME TypeInv, OnceInv, OwnerInv, [Next]_vars PROVE OwnerInv'
    OBVIOUS
  <1>0. /\ TypeOK /\ DedupeTypeOK /\ InHand /\ at \in [Call -> Places]
        /\ lapses \subseteq lapses' /\ UNCHANGED shape
    BY LapsesGrow DEF TypeInv, TypeOK, Places
  <1>1. ASSUME NEW c \in Call, StoreStep(c) PROVE OwnerInv'
    <2>1. UNCHANGED <<at, handled, shown, subject>>
      BY <1>1 DEF StoreStep, historyVars, CallStep, MakeDir, FindTaken, BreakDir, GiveUp, ReadStore, Truncate,
                  Fill, WriteFails, Leave
    <2>2. \A d \in Call : result'[d] = "error" => result[d] = "error" \/ "write" \in lapses'
      BY <1>0, <1>1 DEF StoreStep, CallStep, MakeDir, FindTaken, BreakDir, GiveUp, ReadStore, Truncate,
                        Fill, WriteFails, Leave, DedupeTypeOK
    <2> QED BY <1>0, <2>1, <2>2, OwnersKept DEF Owning, Handling
  <1>2. ASSUME NEW c \in Call, NEW p \in Proc, NEW m \in Msg, Arrive(c, p, m) PROVE OwnerInv'
    <2>1. /\ UNCHANGED <<handled, shown, result, lapses>> /\ at'[c] \in {"mode", "done"}
          /\ \A d \in Call \ {c} : at'[d] = at[d] /\ subject'[d] = subject[d]
      BY <1>0, <1>2 DEF Arrive, Goto, historyVars, DedupeTypeOK
    <2> QED BY <1>0, <2>1, OwnersKept DEF Owning, Handling
  <1>3. ASSUME NEW c \in Call, Dispatch(c) PROVE OwnerInv'
    <2>1. UNCHANGED <<handled, shown>> /\ at'[c] \in {"claim", "done"} /\ \A d \in Call \ {c} : at'[d] = at[d]
      BY <1>0, <1>3 DEF Dispatch, Goto
    <2>2. UNCHANGED subject /\ \A d \in Call : result'[d] = "error" => result[d] = "error"
      BY <1>0, <1>3 DEF Dispatch, callVars, DedupeTypeOK, BeginCall
    <2> QED BY <1>0, <2>1, <2>2, OwnersKept DEF Owning, Handling
  <1>4. ASSUME NEW c \in Call, Claimed(c) PROVE OwnerInv'
    <2>1. /\ UNCHANGED <<shown, subject, result, lapses>> /\ at'[c] \in {"quote", "decide"}
          /\ \A d \in Call \ {c} : at'[d] = at[d]
          /\ handled' = [handled EXCEPT ![subject[c]] = @ + 1]
          /\ subject[c] \in Msg /\ Claiming(c)
      BY <1>0, <1>4 DEF Claimed, Goto, dedupeVars, callVars, InHand, Claiming
    <2>2. handled[subject[c]] = 0
      BY <2>1 DEF OnceInv, ClaimOK
    <2>3. /\ \A m \in Msg : handled'[m] # 0 <=> handled[m] # 0 \/ m = subject[c]
          /\ \A d \in Call : Owning(d) => subject[d] # subject[c] /\ subject[d] \in Msg
      <3>1. handled'[subject[c]] = 1 /\ \A m \in Msg \ {subject[c]} : handled'[m] = handled[m]
        BY <1>0, <2>1, <2>2 DEF TypeOK
      <3>2. \A d \in Call : Owning(d) => subject[d] \in Msg
        BY <1>0 DEF InHand, Owning, Handling
      <3> QED BY <2>1, <2>2, <3>1, <3>2 DEF OwnerInv, OwnerOK
    <2>4. \A d \in Call \ {c} : Owning(d)' <=> Owning(d)
      BY <2>1 DEF Owning, Handling
    <2>5. OwnerOK'
      <3>1. \A d \in Call : Owning(d)' => handled'[subject'[d]] # 0
        BY <2>1, <2>3, <2>4 DEF OwnerInv, OwnerOK
      <3>2. ASSUME NEW d \in Call, NEW e \in Call, Owning(d)', Owning(e)', subject'[d] = subject'[e]
            PROVE  d = e
        BY <2>1, <2>3, <2>4, <3>2 DEF OwnerInv, OwnerOK
      <3> QED BY <2>1, <3>1, <3>2 DEF OwnerInv, OwnerOK
    <2>6. "write" \notin lapses' => ShownOK'
      <3>1. ASSUME "write" \notin lapses, NEW d \in Call, Handling(d)' PROVE shown[subject[d]] = {}
        BY <2>1, <2>2, <3>1 DEF OwnerInv, ShownOK, Handling
      <3>2. ASSUME "write" \notin lapses, NEW d \in Call, at'[d] \in {"failing", "sorry"}
            PROVE  shown[subject[d]] \subseteq Lost
        BY <2>1, <3>2 DEF OwnerInv, ShownOK
      <3> QED BY <2>1, <2>3, <3>1, <3>2 DEF OwnerInv, ShownOK, Lost
    <2> QED BY <2>5, <2>6 DEF OwnerInv
  <1>5. ASSUME NEW c \in Call, Silent(c) PROVE OwnerInv'
    <2>1. \A d \in Call \ {c} : at'[d] = at[d]
      BY <1>5, SilentSteps
    <2>2. \A d \in Call \ {c} : (Owning(d)' => Owning(d)) /\ (Handling(d)' => Handling(d))
      BY <1>0, <2>1 DEF Owning, Handling
    <2> QED BY <1>0, <1>5, <2>1, <2>2, SilentSteps, OwnersKept
  <1>6. ASSUME NEW c \in Call, Replied(c) \/ AnswerLost(c) \/ Sorry(c) PROVE OwnerInv'
    <2> PICK m \in Msg : m = subject[c]
      BY <1>0, <1>6 DEF Replied, AnswerLost, Sorry, InHand
    <2>1. /\ UNCHANGED <<handled, subject>>
          /\ \A d \in Call : result'[d] = "error" => result[d] = "error"
          /\ \A d \in Call \ {c} : at'[d] = at[d]
          /\ \/ /\ Handling(c) /\ at'[c] \in {"mark", "failing"}
                /\ shown' = [shown EXCEPT ![m] = @ \cup {"reply"}]
                /\ at'[c] = "failing" => "lost" \in lapses'
             \/ /\ at[c] = "sorry" /\ at'[c] = "done"
                /\ shown' = shown \/ shown' = [shown EXCEPT ![m] = @ \cup {"sorry"}]
      <3>1. CASE Replied(c)
        <4>1. /\ BeginCall(c, subject[c], "replied") /\ at' = [at EXCEPT ![c] = "mark"] /\ UNCHANGED handled
              /\ Handling(c) /\ shown' = [shown EXCEPT ![m] = @ \cup {"reply"}]
          BY <3>1 DEF Replied, AfterReply, BeginMark, Goto, Tell, Handling
        <4>2. UNCHANGED subject /\ \A d \in Call : result'[d] = "error" => result[d] = "error"
          BY <1>0, <4>1 DEF BeginCall, DedupeTypeOK
        <4> QED BY <1>0, <4>1, <4>2
      <3>2. CASE AnswerLost(c)
        <4>1. /\ BeginCall(c, subject[c], "failed") /\ at' = [at EXCEPT ![c] = "failing"] /\ UNCHANGED handled
              /\ Handling(c) /\ shown' = [shown EXCEPT ![m] = @ \cup {"reply"}] /\ "lost" \in lapses'
          BY <3>2 DEF AnswerLost, BeginMark, Goto, Tell, Handling, Slip
        <4>2. UNCHANGED subject /\ \A d \in Call : result'[d] = "error" => result[d] = "error"
          BY <1>0, <4>1 DEF BeginCall, DedupeTypeOK
        <4> QED BY <1>0, <4>1, <4>2
      <3>3. CASE Sorry(c)
        <4>1. /\ at[c] = "sorry" /\ at' = [at EXCEPT ![c] = "done"] /\ UNCHANGED <<handled, subject, result>>
              /\ shown' = shown \/ shown' = [shown EXCEPT ![m] = @ \cup {"sorry"}]
          BY <3>3 DEF Sorry, Goto, callVars, Tell
        <4> QED BY <1>0, <4>1
      <3> QED BY <1>6, <3>1, <3>2, <3>3
    <2>2. \A d \in Call \ {c} : Owning(d)' => Owning(d)
      BY <1>0, <2>1 DEF Owning, Handling
    <2>3. Owning(c)' => Owning(c)
      BY <2>1 DEF Owning, Handling
    <2>4. OwnerOK'
      BY <1>0, <2>1, <2>2, <2>3 DEF OwnerInv, OwnerOK
    <2>5. ASSUME "write" \notin lapses' PROVE ShownOK'
      <3>1. ShownOK /\ OwnerOK /\ Owning(c) /\ Lost \subseteq Lost'
        BY <1>0, <2>1, <2>5 DEF OwnerInv, Owning, Lost
      <3>2. handled[m] # 0 /\ \A k \in Msg \ {m} : shown'[k] = shown[k]
        BY <1>0, <2>1, <3>1 DEF OwnerOK, TypeOK
      <3>3. \/ Handling(c) /\ shown[m] = {} /\ shown'[m] = {"reply"}
            \/ /\ at[c] = "sorry" /\ shown[m] \subseteq Lost
               /\ shown'[m] = shown[m] \/ shown'[m] = shown[m] \cup {"sorry"}
        <4>1. m \in DOMAIN shown
          BY <1>0 DEF TypeOK
        <4>2. Handling(c) => shown[m] = {}
          BY <3>1 DEF ShownOK
        <4>3. at[c] = "sorry" => shown[m] \subseteq Lost
          BY <3>1 DEF ShownOK
        <4> QED BY <2>1, <4>1, <4>2, <4>3
      <3>4. ASSUME NEW d \in Call \ {c}, Owning(d) PROVE subject[d] # m /\ subject[d] \in Msg
        BY <1>0, <3>1, <3>4 DEF OwnerOK, InHand, Owning, Handling
      <3>5. ASSUME NEW d \in Call, Handling(d)' PROVE shown'[subject'[d]] = {}
        <4>1. d # c /\ Handling(d)
          BY <2>1, <3>5 DEF Handling
        <4>2. subject[d] # m /\ subject[d] \in Msg
          BY <3>4, <4>1 DEF Owning
        <4> QED BY <2>1, <3>1, <3>2, <4>1, <4>2 DEF ShownOK
      <3>6. ASSUME NEW d \in Call, at'[d] \in {"failing", "sorry"} PROVE shown'[subject'[d]] \subseteq Lost'
        <4>1. CASE d = c
          BY <2>1, <3>3, <3>6, <4>1 DEF Lost, Handling
        <4>2. CASE d # c
          <5>1. at[d] \in {"failing", "sorry"} /\ Owning(d)
            BY <1>0, <2>1, <2>5, <3>6, <4>2 DEF Owning
          <5>2. subject[d] # m /\ subject[d] \in Msg
            BY <3>4, <4>2, <5>1
          <5> QED BY <2>1, <3>1, <3>2, <5>1, <5>2 DEF ShownOK
        <4> QED BY <4>1, <4>2
      <3>7. \A k \in Msg : handled'[k] = 0 => shown'[k] = {}
        BY <2>1, <3>1, <3>2 DEF ShownOK
      <3>8. ASSUME NEW k \in Msg, "reply" \in shown'[k], "sorry" \in shown'[k] PROVE "lost" \in lapses'
        <4>1. CASE k = m
          BY <1>0, <3>3, <3>8, <4>1 DEF Lost
        <4>2. CASE k # m
          BY <1>0, <3>1, <3>2, <3>8, <4>2 DEF ShownOK
        <4> QED BY <4>1, <4>2
      <3> QED BY <3>5, <3>6, <3>7, <3>8 DEF ShownOK
    <2> QED BY <2>4, <2>5 DEF OwnerInv
  <1>7. ASSUME NEW p \in Proc, Crash(p) PROVE OwnerInv'
    <2>1. /\ UNCHANGED <<handled, shown, subject, result>>
          /\ \A d \in Call : at'[d] = at[d] \/ at'[d] = "done"
      BY <1>7 DEF Crash, CallsDie, historyVars
    <2> QED BY <1>0, <2>1, OwnersKept DEF Owning, Handling
  <1>8. ASSUME DayPasses PROVE OwnerInv'
    <2>1. /\ UNCHANGED <<result, at>> /\ \A d \in Call : at[d] \in {"idle", "done"}
          /\ handled' = [m \in Msg |-> 0] /\ shown' = [m \in Msg |-> {}]
      BY <1>8 DEF DayPasses, RecordsAge, callVars
    <2>2. \A d \in Call : ~Owning(d)'
      BY <2>1 DEF Owning, Handling
    <2>3. OwnerOK'
      BY <1>0, <2>1, <2>2 DEF OwnerInv, OwnerOK
    <2>4. ShownOK'
      BY <2>1 DEF ShownOK, Handling
    <2> QED BY <2>3, <2>4 DEF OwnerInv
  <1>9. CASE UNCHANGED vars
    BY <1>0, <1>9, OwnersKept DEF vars, dedupeVars, callVars, historyVars, Owning, Handling
  <1> QED BY <1>1, <1>2, <1>3, <1>4, <1>5, <1>6, <1>7, <1>8, <1>9 DEF Next, HandlerStep, Silent

(* Whoever got an answer is not told of a failure, by any process, unless a  *)
(* record could not be written, or the answer to the reply was lost.         *)
THEOREM AnswersAreNotFailed == Spec => []AnsweredNotFailed
  <1> DEFINE IInv == TypeInv /\ (Orderly => OnceInv /\ OwnerInv)
  <1>1. Init => IInv
    BY InitTypeInv, InitOnceInv, InitOwnerInv
  <1>2. IInv /\ [Next]_vars => IInv'
    <2>1. TypeInv /\ [Next]_vars /\ Orderly' => Orderly
      BY LapsesGrow DEF Orderly
    <2> QED BY <2>1, NextTypeInv, NextOnceInv, NextOwnerInv
  <1>3. IInv => AnsweredNotFailed
    BY DEF AnsweredNotFailed, Orderly, OwnerInv, ShownOK
  <1> QED BY <1>1, <1>2, <1>3, PTL DEF Spec

-----------------------------------------------------------------------------
Fresh(c) == at[c] \in {"idle", "mode", "claim", "quote", "decide"}
Deciding(c) == at[c] \in {"quote", "decide"}

(* Another message that the call's process went on with.                     *)
Twin(c) ==
    \E m \in Msg \ {subject[c]} :
        /\ <<proc[c], m, key[c], Attached(c)>> \in passed
        /\ shape[m].sender = Of(c).sender /\ shape[m].body = Of(c).body

(* A content that a process remembers is that of a message which was claimed *)
(* since, and which no call is deciding about.                               *)
Remembered(p, content) ==
    \E m \in Msg :
        /\ <<p, m, content[1], content[4]>> \in passed
        /\ shape[m].sender = content[2] /\ shape[m].body = content[3]
        /\ handled[m] # 0
        /\ \A c \in Call : Deciding(c) => subject[c] # m

TwinInv ==
    /\ recent = [p \in Proc |-> recent[p]]
    /\ \A c \in Call : at[c] # "idle" => proc[c] \in Proc
    /\ \A c \in Call : Fresh(c) => target[c] \in {"none", "processing"}
    /\ \A p \in Proc : \A content \in recent[p] : Remembered(p, content)
    /\ \A c \in Call : target[c] = "ignored" => Empty(c) \/ Twin(c)

LEMMA InitTwinInv == Init => TwinInv
  BY DEF Init, DedupeInit, TwinInv, Fresh

(* A step that accepts and drops nothing.                                    *)
LEMMA TwinsKept ==
    ASSUME TwinInv, UNCHANGED <<recent, shape, passed>>,
           \A m \in Msg : handled[m] # 0 => handled'[m] # 0,
           \A c \in Call : at'[c] # "idle" => proc'[c] \in Proc,
           \A c \in Call : Fresh(c)' => target'[c] \in {"none", "processing"},
           \A c \in Call : Deciding(c)' =>
               subject'[c] = subject[c] /\ (Deciding(c) \/ handled[subject[c]] = 0),
           \A c \in Call : target'[c] = "ignored" =>
               /\ target[c] = "ignored" /\ subject'[c] = subject[c] /\ proc'[c] = proc[c]
               /\ key'[c] = key[c] /\ quoted'[c] = quoted[c]
    PROVE  TwinInv'
  <1>1. ASSUME NEW p \in Proc, NEW content \in recent[p] PROVE Remembered(p, content)'
    <2>1. PICK m \in Msg :
             /\ <<p, m, content[1], content[4]>> \in passed
             /\ shape[m].sender = content[2] /\ shape[m].body = content[3]
             /\ handled[m] # 0
             /\ \A c \in Call : Deciding(c) => subject[c] # m
      BY <1>1 DEF TwinInv, Remembered
    <2>2. \A c \in Call : Deciding(c)' => subject'[c] # m
      BY <2>1
    <2> QED BY <2>1, <2>2 DEF Remembered
  <1>2. ASSUME NEW c \in Call, target'[c] = "ignored" PROVE (Empty(c) \/ Twin(c))'
    <2>1. /\ target[c] = "ignored" /\ subject'[c] = subject[c] /\ proc'[c] = proc[c]
          /\ key'[c] = key[c] /\ quoted'[c] = quoted[c]
      BY <1>2
    <2>2. Of(c)' = Of(c)
      BY <2>1 DEF Of
    <2>3. Attached(c)' = Attached(c)
      BY <2>1, <2>2 DEF Attached
    <2>4. Empty(c) => Empty(c)'
      BY <2>1, <2>2, <2>3 DEF Empty
    <2>5. Twin(c) => Twin(c)'
      BY <2>1, <2>2, <2>3 DEF Twin
    <2> QED BY <2>1, <2>4, <2>5 DEF TwinInv
  <1>3. /\ recent' = [p \in Proc |-> recent'[p]]
        /\ \A p \in Proc : \A content \in recent'[p] : Remembered(p, content)'
    BY <1>1 DEF TwinInv
  <1> QED BY <1>2, <1>3 DEF TwinInv

LEMMA NextTwinInv == TypeInv /\ OnceInv /\ OwnerInv /\ TwinInv /\ [Next]_vars => TwinInv'
  <1> SUFFICES ASSUME TypeInv, OnceInv, OwnerInv, TwinInv, [Next]_vars PROVE TwinInv'
    OBVIOUS
  <1>0. /\ TypeOK /\ DedupeTypeOK /\ InHand /\ at \in [Call -> Places] /\ OwnerOK
    BY DEF TypeInv, TypeOK, Places, OwnerInv
  <1>00. /\ \A c \in Call : at[c] # "idle" => proc[c] \in Proc
         /\ \A c \in Call : Fresh(c) => target[c] \in {"none", "processing"}
    BY DEF TwinInv
  <1>1. ASSUME NEW c \in Call, StoreStep(c) PROVE TwinInv'
    <2>1. UNCHANGED <<at, handled, passed, recent, shape, proc, key, quoted, subject, target>>
      BY <1>1 DEF StoreStep, historyVars, procVars, handlerVars, CallStep, MakeDir, FindTaken, BreakDir, GiveUp,
                  ReadStore, Truncate, Fill, WriteFails, Leave
    <2> QED BY <1>00, <2>1, TwinsKept DEF Fresh, Deciding
  <1>2. ASSUME NEW c \in Call, NEW p \in Proc, NEW m \in Msg, Arrive(c, p, m) PROVE TwinInv'
    <2>1. /\ UNCHANGED <<handled, passed, recent, shape, key, quoted, target>> /\ at'[c] \in {"mode", "done"}
          /\ \A d \in Call \ {c} : at'[d] = at[d] /\ subject'[d] = subject[d] /\ proc'[d] = proc[d]
          /\ proc'[c] = p /\ at[c] = "idle"
      BY <1>0, <1>2 DEF Arrive, Goto, historyVars, procVars, DedupeTypeOK, TypeOK
    <2>2. target[c] # "ignored"
      BY <1>00, <2>1 DEF Fresh
    <2> QED BY <1>00, <2>1, <2>2, TwinsKept DEF Fresh, Deciding
  <1>3. ASSUME NEW c \in Call, Dispatch(c) PROVE TwinInv'
    <2>1. /\ UNCHANGED <<handled, passed, recent, shape, proc, quoted>> /\ at[c] = "mode"
          /\ at'[c] \in {"claim", "done"}
          /\ \A d \in Call \ {c} : at'[d] = at[d] /\ key'[d] = key[d]
      BY <1>0, <1>3 DEF Dispatch, Goto, procVars, TypeOK
    <2>2. UNCHANGED subject /\ target'[c] \in {target[c], "processing"} /\ \A d \in Call \ {c} : target'[d] = target[d]
      BY <1>0, <1>3 DEF Dispatch, callVars, DedupeTypeOK, BeginCall
    <2>3. target[c] \in {"none", "processing"}
      BY <1>00, <2>1 DEF Fresh
    <2> QED BY <1>00, <2>1, <2>2, <2>3, TwinsKept DEF Fresh, Deciding
  <1>4. ASSUME NEW c \in Call, Claimed(c) PROVE TwinInv'
    <2>1. /\ UNCHANGED <<passed, recent, shape, proc, key, quoted, subject, target>> /\ at'[c] \in {"quote", "decide"}
          /\ \A d \in Call \ {c} : at'[d] = at[d]
          /\ handled' = [handled EXCEPT ![subject[c]] = @ + 1]
          /\ at[c] = "claim" /\ Claiming(c)
      BY <1>0, <1>4 DEF Claimed, Goto, dedupeVars, callVars, handlerVars, Claiming
    <2>2. handled[subject[c]] = 0
      BY <2>1 DEF OnceInv, ClaimOK
    <2>3. \A m \in Msg : handled[m] # 0 => handled'[m] # 0
      BY <1>0, <2>1, <2>2 DEF TypeOK
    <2> QED BY <1>00, <2>1, <2>2, <2>3, TwinsKept DEF Fresh, Deciding
  <1>5. ASSUME NEW c \in Call, Quietly(c), ~PassContent(c) PROVE TwinInv'
    <2>1. UNCHANGED <<handled, shape, proc, key, subject, target>>
      BY <1>5, QuietSteps DEF callVars
    <2>2. /\ UNCHANGED <<passed, recent>> /\ \A d \in Call \ {c} : at'[d] = at[d] /\ quoted'[d] = quoted[d]
          /\ at[c] # "idle"
      BY <1>0, <1>5 DEF Quietly, Refused, Quote, RunCommand, ProcessFiles, MarkDone, FailureMarked, Sorry,
                        procVars, handlerVars, historyVars, Goto, TypeOK
    <2>3. /\ Fresh(c)' => Fresh(c)
          /\ Deciding(c)' => Deciding(c)
          /\ quoted'[c] = quoted[c] \/ Fresh(c)
      BY <1>0, <1>5 DEF Quietly, Refused, Quote, RunCommand, ProcessFiles, MarkDone, FailureMarked, Sorry,
                        handlerVars, Goto, Fresh, Deciding
    <2>4. \A d \in Call : at'[d] # "idle" => proc'[d] \in Proc
      BY <1>00, <2>1, <2>2
    <2>5. \A d \in Call : Fresh(d)' => Fresh(d)
      BY <2>2, <2>3 DEF Fresh
    <2>6. \A d \in Call : Deciding(d)' => Deciding(d)
      BY <2>2, <2>3 DEF Deciding
    <2>7. ASSUME NEW d \in Call, target[d] = "ignored" PROVE quoted'[d] = quoted[d]
      BY <1>00, <2>2, <2>3, <2>7
    <2> QED BY <1>00, <2>1, <2>2, <2>4, <2>5, <2>6, <2>7, TwinsKept
  <1>6. ASSUME NEW c \in Call, PassContent(c) PROVE TwinInv'
    <2>1. /\ UNCHANGED <<handled, shape, proc, key, quoted, subject, target>>
          /\ at[c] = "decide" /\ at'[c] = "files" /\ \A d \in Call \ {c} : at'[d] = at[d]
          /\ recent' = [recent EXCEPT ![proc[c]] = @ \cup {Content(c)}]
          /\ passed' = passed \cup {<<proc[c], subject[c], key[c], Attached(c)>>}
      BY <1>0, <1>6 DEF PassContent, dedupeVars, callVars, handlerVars, Goto
    <2>2. /\ \A d \in Call : Deciding(d)' => Deciding(d) /\ d # c
          /\ \A d \in Call : Fresh(d)' => Fresh(d)
          /\ proc[c] \in Proc /\ subject[c] \in Msg /\ Owning(c)
      BY <1>0, <1>00, <2>1 DEF Deciding, Fresh, InHand, Owning, Handling
    <2>3. handled[subject[c]] # 0 /\ \A d \in Call : Deciding(d)' => subject[d] # subject[c]
      <3>1. \A d \in Call : Deciding(d) => Owning(d)
        BY DEF Deciding, Owning, Handling
      <3> QED BY <1>0, <2>2, <3>1 DEF OwnerOK
    <2>4. Remembered(proc[c], Content(c))'
      <3> DEFINE x == Content(c)
      <3>1. x[1] = key[c] /\ x[2] = Of(c).sender /\ x[3] = Of(c).body /\ x[4] = Attached(c)
        BY DEF Content
      <3> HIDE DEF x
      <3>2. <<proc[c], subject[c], x[1], x[4]>> \in passed'
        BY <2>1, <3>1
      <3>3. shape[subject[c]].sender = x[2] /\ shape[subject[c]].body = x[3]
        BY <3>1 DEF Of
      <3>4. PICK m \in Msg : m = subject[c]
        BY <2>2
      <3>5. x' = x
        BY <2>1 DEF x, Content, Attached, Of
      <3>6. Remembered(proc[c], x)'
        BY <2>1, <2>3, <3>2, <3>3, <3>4, <3>5 DEF Remembered
      <3> QED BY <3>6 DEF x
    <2>5. ASSUME NEW p \in Proc, NEW content \in recent[p] PROVE Remembered(p, content)'
      <3>1. Remembered(p, content)
        BY <2>5 DEF TwinInv
      <3> QED BY <2>1, <2>2, <3>1 DEF Remembered
    <2>6. ASSUME NEW p \in Proc, NEW content \in recent'[p] PROVE Remembered(p, content)'
      <3>1. content \in recent[p] \/ (p = proc[c] /\ content = Content(c))
        BY <2>1, <2>6 DEF TwinInv
      <3>2. Content(c)' = Content(c) /\ proc'[c] = proc[c]
        BY <2>1 DEF Content, Attached, Of
      <3> QED BY <2>4, <2>5, <3>1, <3>2
    <2>7. ASSUME NEW d \in Call, target'[d] = "ignored" PROVE (Empty(d) \/ Twin(d))'
      <3>1. Empty(d) \/ Twin(d)
        BY <2>1, <2>7 DEF TwinInv
      <3>2. Of(d)' = Of(d) /\ Attached(d)' = Attached(d)
        BY <2>1 DEF Of, Attached
      <3>3. Empty(d) => Empty(d)'
        BY <2>1, <3>2 DEF Empty
      <3>4. Twin(d) => Twin(d)'
        BY <2>1, <3>2 DEF Twin
      <3> QED BY <3>1, <3>3, <3>4
    <2>8. recent' = [p \in Proc |-> recent'[p]]
      BY <2>1 DEF TwinInv
    <2>9. \A d \in Call : at'[d] # "idle" => proc'[d] \in Proc
      BY <1>00, <2>1
    <2> QED BY <1>00, <2>1, <2>2, <2>6, <2>7, <2>8, <2>9 DEF TwinInv
  <1>7. ASSUME NEW c \in Call, Marking(c) PROVE TwinInv'
    <2>1. /\ UNCHANGED <<handled, shape, recent, proc, key, quoted>> /\ at[c] # "idle"
      BY <1>7, MarkingSteps DEF procVars
    <2>2. PICK s \in {"ignored", "replied", "failed"} : BeginCall(c, subject[c], s)
      BY <1>7, MarkingSteps
    <2>3. UNCHANGED subject /\ target'[c] = s /\ \A d \in Call \ {c} : target'[d] = target[d]
      BY <1>0, <2>2 DEF BeginCall, DedupeTypeOK
    <2>4. PICK place \in {"mark", "failing"} : at' = [at EXCEPT ![c] = place]
      BY <1>7, MarkingSteps
    <2>5. at'[c] = place /\ \A d \in Call \ {c} : at'[d] = at[d]
      BY <1>0, <2>4
    <2>6. UNCHANGED passed
      BY <1>7 DEF Marking, IgnoreEmpty, DropDuplicate, Replied, Unshown, CommandUnlinked, Throws, AnswerLost, Slip, historyVars
    <2>7. /\ \A d \in Call : Fresh(d)' => Fresh(d) /\ d # c
          /\ \A d \in Call : Deciding(d)' => Deciding(d)
          /\ \A d \in Call : at'[d] # "idle" => proc'[d] \in Proc
      BY <1>00, <2>1, <2>5 DEF Fresh, Deciding
    <2>8. ASSUME s = "ignored" PROVE Empty(c) \/ Twin(c)
      <3>1. IgnoreEmpty(c) \/ DropDuplicate(c)
        <4>1. ASSUME NEW other \in {"replied", "failed"}, BeginCall(c, subject[c], other) PROVE FALSE
          BY <1>0, <2>3, <2>8, <4>1 DEF BeginCall, DedupeTypeOK
        <4> QED BY <1>7, <4>1 DEF Marking, Replied, Unshown, CommandUnlinked, Throws, AnswerLost,
                                      AfterReply, BeginMark
      <3>2. CASE IgnoreEmpty(c)
        BY <3>2 DEF IgnoreEmpty
      <3>3. CASE DropDuplicate(c)
        <4> DEFINE x == Content(c)
        <4>1. x \in recent[proc[c]] /\ Deciding(c) /\ proc[c] \in Proc
          BY <1>00, <2>1, <3>3 DEF DropDuplicate, Deciding
        <4>2. x[1] = key[c] /\ x[2] = Of(c).sender /\ x[3] = Of(c).body /\ x[4] = Attached(c)
          BY DEF Content
        <4> HIDE DEF x
        <4>3. Remembered(proc[c], x)
          BY <4>1 DEF TwinInv
        <4>4. PICK m \in Msg : /\ <<proc[c], m, x[1], x[4]>> \in passed
                               /\ shape[m].sender = x[2] /\ shape[m].body = x[3]
                               /\ subject[c] # m
          BY <4>1, <4>3 DEF Remembered
        <4> QED BY <4>2, <4>4 DEF Twin
      <3> QED BY <3>1, <3>2, <3>3
    <2>9. ASSUME NEW d \in Call, target'[d] = "ignored" PROVE (Empty(d) \/ Twin(d))'
      <3>1. Empty(d) \/ Twin(d)
        BY <2>3, <2>8, <2>9 DEF TwinInv
      <3>2. Of(d)' = Of(d)
        BY <2>1, <2>3 DEF Of
      <3>3. Attached(d)' = Attached(d)
        BY <2>1, <2>3, <3>2 DEF Attached
      <3>4. Empty(d) => Empty(d)'
        BY <2>1, <3>2, <3>3 DEF Empty
      <3>5. Twin(d) => Twin(d)'
        BY <2>1, <2>3, <2>6, <3>2, <3>3 DEF Twin
      <3> QED BY <3>1, <3>4, <3>5
    <2>10. ASSUME NEW p \in Proc, NEW content \in recent[p] PROVE Remembered(p, content)'
      <3>1. Remembered(p, content)
        BY <2>10 DEF TwinInv
      <3> QED BY <2>1, <2>3, <2>6, <2>7, <3>1 DEF Remembered
    <2>11. \A d \in Call : Fresh(d)' => target'[d] \in {"none", "processing"}
      BY <1>00, <2>3, <2>7
    <2>12. recent' = [p \in Proc |-> recent'[p]] /\ \A p \in Proc : \A content \in recent'[p] : Remembered(p, content)'
      BY <2>1, <2>10 DEF TwinInv
    <2> QED BY <2>7, <2>9, <2>11, <2>12 DEF TwinInv
  <1>8. ASSUME NEW p \in Proc, Crash(p) PROVE TwinInv'
    <2>1. /\ UNCHANGED <<handled, passed, recent, shape, proc, key, quoted, subject, target>>
          /\ \A d \in Call : at'[d] = at[d] \/ (at'[d] = "done" /\ proc[d] = p)
      BY <1>8 DEF Crash, CallsDie, handlerVars, historyVars
    <2> QED BY <1>00, <2>1, TwinsKept DEF Fresh, Deciding
  <1>9. ASSUME DayPasses PROVE TwinInv'
    <2>1. /\ UNCHANGED <<passed, shape, proc, key, quoted, subject, target, at>> /\ recent' = [p \in Proc |-> {}]
      BY <1>9 DEF DayPasses, RecordsAge, callVars, handlerVars
    <2>2. ASSUME NEW d \in Call, target'[d] = "ignored" PROVE (Empty(d) \/ Twin(d))'
      <3>1. Empty(d) \/ Twin(d)
        BY <2>1, <2>2 DEF TwinInv
      <3>2. Of(d)' = Of(d) /\ Attached(d)' = Attached(d)
        BY <2>1 DEF Of, Attached
      <3>3. Empty(d) => Empty(d)'
        BY <2>1, <3>2 DEF Empty
      <3>4. Twin(d) => Twin(d)'
        BY <2>1, <3>2 DEF Twin
      <3> QED BY <3>1, <3>3, <3>4
    <2>3. recent' = [p \in Proc |-> recent'[p]] /\ \A p \in Proc : recent'[p] = {}
      BY <2>1
    <2> QED BY <1>00, <2>1, <2>2, <2>3 DEF TwinInv, Fresh
  <1>10. CASE UNCHANGED vars
    BY <1>00, <1>10, TwinsKept DEF vars, dedupeVars, callVars, historyVars, procVars, handlerVars, Fresh, Deciding
  <1> QED BY <1>1, <1>2, <1>3, <1>4, <1>5, <1>6, <1>7, <1>8, <1>9, <1>10 DEF Next, HandlerStep, Quietly, Marking

(* A message dropped as a duplicate has a twin that its process accepted.    *)
THEOREM DroppedHaveTwins == Spec => []DroppedHasTwin
  <1> DEFINE IInv == TypeInv /\ (Orderly => OnceInv /\ OwnerInv /\ TwinInv)
  <1>1. Init => IInv
    BY InitTypeInv, InitOnceInv, InitOwnerInv, InitTwinInv
  <1>2. IInv /\ [Next]_vars => IInv'
    <2>1. TypeInv /\ [Next]_vars /\ Orderly' => Orderly
      BY LapsesGrow DEF Orderly
    <2> QED BY <2>1, NextTypeInv, NextOnceInv, NextOwnerInv, NextTwinInv
  <1>3. IInv => DroppedHasTwin
    BY DEF DroppedHasTwin, Orderly, TwinInv, Twin
  <1> QED BY <1>1, <1>2, <1>3, PTL DEF Spec

-----------------------------------------------------------------------------
Clean == lapses \subseteq {"mode", "lost", "unshown"}

(* What RecordsTrue says of a message at rest.                               *)
Truth(m) ==
    /\ store[m] \in {"replied", "ignored", "failed"}
    /\ store[m] = "replied" => "reply" \in shown[m] \/ "unshown" \in lapses
    /\ "reply" \in shown[m] => store[m] = "replied" \/ (store[m] = "failed" /\ "lost" \in lapses)
    /\ store[m] = "failed" => "sorry" \in shown[m] \/ "unshown" \in lapses
    /\ "sorry" \in shown[m] => store[m] = "failed"

(* A call writes the records as they are, but for its own message's.         *)
ViewOK ==
    \A c \in Call : Writing(c) =>
        /\ \A m \in Msg \ {subject[c]} : view[c][m] = store[m]
        /\ view[c][subject[c]] = IF result[c] = "refused" THEN store[subject[c]] ELSE target[c]
        /\ result[c] # "none"

(* What a call marks is what its sender got, or would have got, and once it  *)
(* is marked the record says so.                                             *)
CallTrue(c) ==
    /\ at[c] = "claim" => target[c] = "processing" /\ result[c] \in {"none", "claimed", "refused"}
    /\ at[c] = "mark" => target[c] \in {"replied", "ignored"}
    /\ at[c] = "failing" => target[c] = "failed"
    /\ at[c] \in {"mark", "failing"} =>
          /\ target[c] = "replied" =>
                shown[subject[c]] = {"reply"} \/ (shown[subject[c]] = {} /\ "unshown" \in lapses)
          /\ target[c] = "ignored" => shown[subject[c]] = {}
          /\ step[c] \notin {"try", "break", "read"} => result[c] = "marked"
          /\ step[c] \in {"leave", "none"} => store[subject[c]] = target[c]
    /\ at[c] = "sorry" => store[subject[c]] = "failed"

RecordInv ==
    /\ old = {}
    /\ ViewOK
    /\ \A c \in Call : CallTrue(c)
    /\ \A m \in Msg : handled[m] # 0 => Truth(m) \/ \E c \in Call : Owning(c) /\ subject[c] = m

LEMMA InitRecordInv == Init => RecordInv
  BY DEF Init, DedupeInit, RecordInv, ViewOK, Writing, CallTrue

LEMMA CleanFacts == Clean => Orderly /\ "write" \notin lapses
  BY DEF Clean, Orderly

(* A call whose access goes on without reading or writing.                   *)
LEMMA CallTrueKept ==
    ASSUME NEW c \in Call, CallTrue(c), at'[c] = at[c], subject'[c] = subject[c], target'[c] = target[c],
           result'[c] = result[c], store'[subject[c]] = store[subject[c]], shown'[subject[c]] = shown[subject[c]],
           step'[c] \in {"leave", "none"} => step[c] \in {"leave", "none"},
           step'[c] \notin {"try", "break", "read"} => step[c] \notin {"try", "break", "read"},
           lapses \subseteq lapses'
    PROVE  CallTrue(c)'
  BY DEF CallTrue

(* A step that leaves the file and what was sent.                            *)
LEMMA RecordsKept ==
    ASSUME RecordInv, UNCHANGED <<store, old, shown>>, lapses \subseteq lapses',
           \A c \in Call : Writing(c)' =>
               /\ Writing(c) /\ view'[c] = view[c] /\ subject'[c] = subject[c]
               /\ result'[c] = result[c] /\ target'[c] = target[c],
           \A c \in Call : CallTrue(c)',
           \A m \in Msg : handled'[m] # 0 =>
               \/ \E c \in Call : Owning(c)' /\ subject'[c] = m
               \/ handled[m] # 0 /\ \A c \in Call : Owning(c) => subject[c] # m
    PROVE  RecordInv'
  <1>1. ViewOK'
    BY DEF RecordInv, ViewOK
  <1>2. ASSUME NEW m \in Msg, handled'[m] # 0
        PROVE  Truth(m)' \/ \E c \in Call : Owning(c)' /\ subject'[c] = m
    BY <1>2 DEF RecordInv, Truth
  <1> QED BY <1>1, <1>2 DEF RecordInv

(* Two calls are not at the file together, and no other call handles the     *)
(* message that a call writes for.                                           *)
LEMMA Alone ==
    ASSUME TypeInv, OnceInv, OwnerInv, Clean, NEW c \in Call, Writing(c)
    PROVE  /\ \A d \in Call : Writing(d) => d = c
           /\ subject[c] \in Msg
           /\ at[c] \in {"claim", "mark", "failing"}
           /\ at[c] = "claim" /\ result[c] # "refused" =>
                 result[c] # "claimed" \/ \A d \in Call : Owning(d) => subject[d] # subject[c]
           /\ at[c] # "claim" => \A d \in Call : Owning(d) /\ subject[d] = subject[c] => d = c
  <1>0. InHand /\ OwnerOK /\ "write" \notin lapses
    BY CleanFacts DEF TypeInv, OwnerInv
  <1>1. \A d \in Call : Writing(d) => d = c
    BY DEF OnceInv, FileOK, InSection, Writing
  <1>2. subject[c] \in Msg /\ at[c] \in {"claim", "mark", "failing"}
    BY <1>0 DEF InHand, Writing
  <1>3. ASSUME at[c] = "claim", result[c] = "claimed", NEW d \in Call, Owning(d) PROVE subject[d] # subject[c]
    BY <1>0, <1>3 DEF OnceInv, ClaimOK, Claiming, OwnerOK
  <1>4. ASSUME at[c] # "claim", NEW d \in Call, Owning(d), subject[d] = subject[c] PROVE d = c
    <2>1. Owning(c)
      BY <1>0, <1>2, <1>4 DEF Owning
    <2> QED BY <1>0, <1>4, <2>1 DEF OwnerOK
  <1> QED BY <1>1, <1>2, <1>3, <1>4

(* The records and the marks, while a call accesses them.                    *)
LEMMA StoreKeepsRecords ==
    ASSUME TypeInv, OnceInv, OwnerInv, RecordInv, Clean, Clean', NEW c \in Call, StoreStep(c)
    PROVE  RecordInv'
  <1>0. /\ TypeOK /\ DedupeTypeOK /\ InHand /\ "write" \notin lapses
        /\ \A d \in Call : CallTrue(d)
    BY CleanFacts DEF TypeInv, TypeOK, RecordInv
  <1>1. UNCHANGED <<at, subject, target, shown, handled>> /\ CallStep(c) /\ lapses \subseteq lapses'
    BY DEF StoreStep, historyVars, CallStep, MakeDir, FindTaken, BreakDir, GiveUp, ReadStore, Truncate,
           Fill, WriteFails, Leave
  <1>2. \A d \in Call : Owning(d)' <=> Owning(d)
    BY <1>0, <1>1, CleanFacts DEF Owning, Handling, Clean
  <1>3. CASE MakeDir(c) \/ FindTaken(c) \/ BreakDir(c) \/ GiveUp(c) \/ Truncate(c) \/ Leave(c)
    <2>1. UNCHANGED <<store, old, result>> /\ \A d \in Call \ {c} : step'[d] = step[d] /\ view'[d] = view[d]
      BY <1>0, <1>3 DEF MakeDir, FindTaken, BreakDir, GiveUp, Truncate, Leave, fileVars, DedupeTypeOK
    <2>2. /\ step'[c] \in {"leave", "none"} => step[c] \in {"leave", "none"}
          /\ step'[c] \notin {"try", "break", "read"} => step[c] \notin {"try", "break", "read"}
          /\ Writing(c)' => Writing(c) /\ view'[c] = view[c]
      BY <1>0, <1>3 DEF MakeDir, FindTaken, BreakDir, GiveUp, Truncate, Leave, DedupeTypeOK, Writing
    <2>3. ASSUME NEW d \in Call PROVE CallTrue(d)'
      <3>1. /\ step'[d] \in {"leave", "none"} => step[d] \in {"leave", "none"}
            /\ step'[d] \notin {"try", "break", "read"} => step[d] \notin {"try", "break", "read"}
        BY <2>1, <2>2
      <3> QED BY <1>0, <1>1, <2>1, <3>1, CallTrueKept
    <2>4. \A d \in Call : Writing(d)' => Writing(d) /\ view'[d] = view[d]
      BY <2>1, <2>2 DEF Writing
    <2>5. \A m \in Msg : handled'[m] # 0 =>
             \/ \E d \in Call : Owning(d)' /\ subject'[d] = m
             \/ handled[m] # 0 /\ \A d \in Call : Owning(d) => subject[d] # m
      BY <1>1, <1>2
    <2> QED BY <1>1, <2>1, <2>3, <2>4, <2>5, RecordsKept
  <1>4. CASE ReadStore(c)
    <2>1. /\ UNCHANGED <<store, old>> /\ step[c] = "read" /\ step'[c] = "write"
          /\ \A d \in Call \ {c} : step'[d] = step[d] /\ view'[d] = view[d] /\ result'[d] = result[d]
      BY <1>0, <1>4 DEF ReadStore, fileVars, DedupeTypeOK
    <2>2. \A d \in Call : ~Writing(d)
      BY <2>1 DEF OnceInv, FileOK, InSection, Writing
    <2>3. Records = store
      <3>1. ~torn
        BY <2>2 DEF OnceInv, FileOK, Writing
      <3> QED BY <1>0, <3>1 DEF RecordInv, Records, DedupeTypeOK
    <2>4. subject[c] \in Msg /\ at[c] \in {"claim", "mark", "failing"}
      BY <1>0, <2>1 DEF InHand
    <2>5. PICK refused \in BOOLEAN :
             /\ refused <=> target[c] = "processing" /\ ~Claimable(subject[c])
             /\ view' = [view EXCEPT ![c] = IF refused THEN store ELSE [store EXCEPT ![subject[c]] = target[c]]]
             /\ result' = [result EXCEPT ![c] = IF refused THEN "refused"
                                               ELSE IF target[c] = "processing" THEN "claimed" ELSE "marked"]
      BY <1>4, <2>3 DEF ReadStore
    <2>6. /\ result'[c] = "refused" <=> refused
          /\ result'[c] \in {"refused", "claimed", "marked"}
          /\ target[c] = "processing" => result'[c] # "marked"
          /\ target[c] # "processing" => result'[c] = "marked"
      BY <1>0, <2>5 DEF DedupeTypeOK
    <2>7. ViewOK'
      <3>1. view'[c] = IF refused THEN store ELSE [store EXCEPT ![subject[c]] = target[c]]
        BY <1>0, <2>5 DEF DedupeTypeOK
      <3>2. store \in [Msg -> Status]
        BY <1>0 DEF DedupeTypeOK
      <3>3. /\ \A m \in Msg \ {subject[c]} : view'[c][m] = store[m]
            /\ view'[c][subject[c]] = IF result'[c] = "refused" THEN store[subject[c]] ELSE target[c]
        BY <2>4, <2>6, <3>1, <3>2
      <3>4. \A d \in Call : Writing(d)' => d = c
        BY <2>1, <2>2 DEF Writing
      <3> QED BY <1>1, <2>1, <2>6, <3>3, <3>4 DEF ViewOK
    <2>8. ASSUME NEW d \in Call PROVE CallTrue(d)'
      <3>1. CASE d # c
        BY <1>0, <1>1, <2>1, <3>1, CallTrueKept
      <3>2. CASE d = c
        <4>1. CallTrue(c)
          BY <1>0
        <4> QED BY <1>1, <2>1, <2>4, <2>6, <3>2, <4>1 DEF CallTrue
      <3> QED BY <3>1, <3>2
    <2>9. \A m \in Msg : handled'[m] # 0 => Truth(m)' \/ \E d \in Call : Owning(d)' /\ subject'[d] = m
      BY <1>1, <1>2, <2>1 DEF RecordInv, Truth
    <2> QED BY <2>1, <2>7, <2>8, <2>9 DEF RecordInv
  <1>5. CASE Fill(c)
    <2> PICK m \in Msg : m = subject[c]
      BY <1>0, <1>5 DEF Fill, InHand
    <2>1. /\ UNCHANGED result /\ store' = view[c] /\ step[c] = "fill" /\ step'[c] = "leave" /\ Writing(c)
          /\ \A d \in Call \ {c} : step'[d] = step[d]
      BY <1>0, <1>5 DEF Fill, DedupeTypeOK, Writing
    <2>2. old' = {}
      BY <1>5 DEF Fill, RecordInv
    <2>3. /\ \A k \in Msg \ {m} : store'[k] = store[k]
          /\ store'[m] = IF result[c] = "refused" THEN store[m] ELSE target[c]
      BY <2>1 DEF RecordInv, ViewOK
    <2>4. /\ \A d \in Call : Writing(d) => d = c
          /\ at[c] \in {"claim", "mark", "failing"}
          /\ at[c] = "claim" /\ result[c] # "refused" =>
                result[c] # "claimed" \/ \A d \in Call : Owning(d) => subject[d] # m
          /\ at[c] # "claim" => \A d \in Call : Owning(d) /\ subject[d] = m => d = c
      BY <2>1, Alone
    <2>5. CallTrue(c) /\ result[c] # "none"
      <3>1. CallTrue(c)
        BY <1>0
      <3>2. at[c] = "claim" => result[c] # "none"
        BY <2>1 DEF RecordInv, ViewOK
      <3>3. at[c] # "claim" => result[c] = "marked"
        BY <2>1, <2>4, <3>1 DEF CallTrue
      <3> QED BY <3>1, <3>2, <3>3
    <2>6. ASSUME NEW d \in Call \ {c}, Owning(d) PROVE store'[subject[d]] = store[subject[d]]
      <3>1. subject[d] \in Msg
        BY <1>0, <2>6 DEF InHand, Owning, Handling
      <3>2. CASE subject[d] # m
        BY <2>3, <3>1, <3>2
      <3>3. CASE subject[d] = m
        BY <2>3, <2>4, <2>5, <2>6, <3>3 DEF CallTrue
      <3> QED BY <3>2, <3>3
    <2>7. ASSUME NEW d \in Call PROVE CallTrue(d)'
      <3>1. CASE d # c /\ Owning(d)
        BY <1>0, <1>1, <2>1, <2>6, <3>1, CallTrueKept
      <3>2. CASE d # c /\ ~Owning(d)
        <4>1. CallTrue(d) /\ at[d] \notin {"mark", "failing", "sorry"}
          BY <1>0, <3>2 DEF Owning
        <4> QED BY <1>1, <2>1, <4>1 DEF CallTrue
      <3>3. CASE d = c
        <4>1. at[c] # "claim" => result[c] = "marked" /\ store'[m] = target[c]
          BY <2>1, <2>3, <2>4, <2>5 DEF CallTrue
        <4> QED BY <1>1, <2>1, <2>4, <2>5, <3>3, <4>1 DEF CallTrue
      <3> QED BY <3>1, <3>2, <3>3
    <2>8. ViewOK'
      <3>1. \A d \in Call : ~Writing(d)'
        BY <2>1, <2>4 DEF Writing
      <3> QED BY <3>1 DEF ViewOK
    <2>9. ASSUME NEW k \in Msg, handled'[k] # 0 PROVE Truth(k)' \/ \E d \in Call : Owning(d)' /\ subject'[d] = k
      <3>1. Truth(k) \/ \E d \in Call : Owning(d) /\ subject[d] = k
        BY <1>1, <2>9 DEF RecordInv
      <3>2. CASE store'[k] = store[k]
        BY <1>1, <1>2, <3>1, <3>2 DEF Truth
      <3>3. CASE store'[k] # store[k]
        <4>1. k = m /\ result[c] # "refused"
          BY <2>3, <3>3
        <4>2. at[c] # "claim"
          BY <1>1, <2>1, <2>5, <2>9, <4>1 DEF CallTrue, OnceInv, ClaimOK, Claiming
        <4>3. Owning(c)
          BY <1>0, <2>4, <4>2 DEF Owning
        <4> QED BY <1>1, <1>2, <4>1, <4>3
      <3> QED BY <3>2, <3>3
    <2> QED BY <2>2, <2>7, <2>8, <2>9 DEF RecordInv
  <1>6. ~WriteFails(c)
    BY DEF WriteFails, Clean
  <1> QED BY <1>1, <1>3, <1>4, <1>5, <1>6 DEF CallStep

(* What the other calls and the records are to a step of one handler.        *)
LEMMA OthersKept ==
    ASSUME TypeInv, OwnerInv, RecordInv, NEW c \in Call, UNCHANGED <<store, old, view, subject>>, lapses \subseteq lapses',
           Clean', ~Writing(c)',
           \A d \in Call \ {c} : /\ at'[d] = at[d] /\ step'[d] = step[d] /\ target'[d] = target[d]
                                 /\ result'[d] = result[d],
           \A m \in Msg : m # subject[c] => shown'[m] = shown[m] /\ (handled'[m] # 0 => handled[m] # 0),
           shown' = shown \/ Owning(c),
           CallTrue(c)',
           Owning(c)' \/ (handled'[subject[c]] # 0 => Truth(subject[c])')
           \/ (~Owning(c) /\ shown' = shown /\ handled'[subject[c]] = handled[subject[c]])
    PROVE  RecordInv'
  <1>0. /\ TypeOK /\ DedupeTypeOK /\ InHand /\ OwnerOK /\ "write" \notin lapses /\ Clean
    BY CleanFacts DEF TypeInv, TypeOK, OwnerInv, Clean
  <1>1. \A d \in Call \ {c} : Owning(d)' <=> Owning(d)
    BY CleanFacts, <1>0 DEF Owning, Handling, Clean
  <1>2. ViewOK'
    BY DEF RecordInv, ViewOK, Writing
  <1>3. ASSUME NEW d \in Call \ {c} PROVE CallTrue(d)'
    <2>1. CallTrue(d)
      BY DEF RecordInv
    <2>2. CASE at[d] \in {"mark", "failing", "sorry"}
      <3>1. Owning(d) /\ subject[d] \in Msg
        BY <1>0, <2>2 DEF Owning, InHand
      <3>2. shown'[subject[d]] = shown[subject[d]]
        BY <1>0, <3>1 DEF OwnerOK
      <3> QED BY <2>1, <3>2, CallTrueKept
    <2>3. CASE at[d] \notin {"mark", "failing", "sorry"}
      BY <2>1, <2>3 DEF CallTrue
    <2> QED BY <2>2, <2>3
  <1>4. ASSUME NEW m \in Msg, handled'[m] # 0 PROVE Truth(m)' \/ \E d \in Call : Owning(d)' /\ subject'[d] = m
    <2>1. CASE m = subject[c]
      <3>1. CASE Owning(c)'
        BY <2>1, <3>1
      <3>2. CASE Truth(subject[c])'
        <4>1. subject'[c] = m
          BY <2>1
        <4> QED BY <2>1, <3>2, <4>1 DEF Truth
      <3>3. CASE ~Owning(c) /\ shown' = shown /\ handled'[m] = handled[m]
        <4>1. Truth(m) \/ \E d \in Call \ {c} : Owning(d) /\ subject[d] = m
          BY <1>4, <3>3 DEF RecordInv
        <4> QED BY <1>1, <3>3, <4>1 DEF Truth
      <3> QED BY <1>4, <2>1, <3>1, <3>2, <3>3
    <2>2. CASE m # subject[c]
      <3>1. Truth(m) \/ \E d \in Call \ {c} : Owning(d) /\ subject[d] = m
        BY <1>4, <2>2 DEF RecordInv
      <3>2. Truth(m) => Truth(m)'
        BY <2>2 DEF Truth
      <3> QED BY <1>1, <3>1, <3>2
    <2> QED BY <2>1, <2>2
  <1> QED BY <1>2, <1>3, <1>4 DEF RecordInv

LEMMA NextRecordInv ==
    TypeInv /\ OnceInv /\ OwnerInv /\ RecordInv /\ Clean' /\ [Next]_vars => RecordInv'
  <1> SUFFICES ASSUME TypeInv, OnceInv, OwnerInv, RecordInv, Clean', [Next]_vars PROVE RecordInv'
    OBVIOUS
  <1>0. /\ TypeOK /\ DedupeTypeOK /\ InHand /\ at \in [Call -> Places] /\ OwnerOK
        /\ lapses \subseteq lapses' /\ Clean /\ "write" \notin lapses /\ ShownOK
        /\ \A c \in Call : CallTrue(c)
    BY LapsesGrow, CleanFacts DEF TypeInv, TypeOK, Places, OwnerInv, Clean, RecordInv
  <1>1. ASSUME NEW c \in Call, StoreStep(c) PROVE RecordInv'
    BY <1>0, <1>1, StoreKeepsRecords
  <1>2. ASSUME NEW c \in Call, NEW p \in Proc, NEW m \in Msg, Arrive(c, p, m) PROVE RecordInv'
    <2>1. /\ UNCHANGED <<handled, shown, store, old, step, view, target, result, lapses>>
          /\ at[c] = "idle" /\ at'[c] \in {"mode", "done"} /\ step[c] = "none"
          /\ \A d \in Call \ {c} : at'[d] = at[d] /\ subject'[d] = subject[d]
      <3>1. at[c] = "idle" /\ step[c] = "none" /\ \E place \in {"mode", "done"} : at' = [at EXCEPT ![c] = place]
        BY <1>0, <1>2 DEF Arrive, Goto, InHand
      <3>2. /\ UNCHANGED <<handled, shown, store, old, step, view, target, result, lapses>>
            /\ \A d \in Call \ {c} : subject'[d] = subject[d]
        BY <1>0, <1>2 DEF Arrive, historyVars, fileVars, DedupeTypeOK
      <3> QED BY <1>0, <3>1, <3>2
    <2>2. ASSUME NEW d \in Call PROVE CallTrue(d)'
      <3>1. CASE d # c
        BY <1>0, <2>1, <3>1, CallTrueKept
      <3>2. CASE d = c
        BY <2>1, <3>2 DEF CallTrue
      <3> QED BY <3>1, <3>2
    <2>3. \A d \in Call : Owning(d)' <=> Owning(d) /\ d # c
      BY <2>1 DEF Owning, Handling
    <2>4. \A d \in Call : Writing(d)' => Writing(d) /\ d # c
      BY <2>1 DEF Writing
    <2>5. \A k \in Msg : handled'[k] # 0 =>
             \/ \E d \in Call : Owning(d)' /\ subject'[d] = k
             \/ handled[k] # 0 /\ \A d \in Call : Owning(d) => subject[d] # k
      <3>1. ~Owning(c)
        BY <2>1 DEF Owning, Handling
      <3> QED BY <2>1, <2>3, <3>1
    <2>6. \A d \in Call : Writing(d)' =>
             /\ Writing(d) /\ view'[d] = view[d] /\ subject'[d] = subject[d]
             /\ result'[d] = result[d] /\ target'[d] = target[d]
      BY <2>1, <2>4
    <2> QED BY <2>1, <2>2, <2>5, <2>6, RecordsKept
  <1>3. ASSUME NEW c \in Call, Dispatch(c) PROVE RecordInv'
    <2>1. /\ UNCHANGED <<handled, shown>> /\ at[c] = "mode" /\ step[c] = "none"
          /\ \A d \in Call \ {c} : at'[d] = at[d]
      BY <1>0, <1>3 DEF Dispatch, Goto, InHand
    <2>2. CASE at'[c] = "done" /\ UNCHANGED <<fileVars, callVars>>
      <3>1. ~Owning(c) /\ ~Writing(c)' /\ CallTrue(c)'
        BY <2>1, <2>2 DEF Owning, Handling, Writing, callVars, CallTrue
      <3> QED BY <1>0, <2>1, <2>2, <3>1, OthersKept DEF fileVars, callVars
    <2>3. CASE at'[c] = "claim" /\ BeginCall(c, subject[c], "processing")
      <3>1. /\ UNCHANGED <<store, old, view, subject>>
            /\ step'[c] = "try" /\ target'[c] = "processing" /\ result'[c] = "none"
            /\ \A d \in Call \ {c} : step'[d] = step[d] /\ target'[d] = target[d] /\ result'[d] = result[d]
        BY <1>0, <2>3 DEF BeginCall, DedupeTypeOK, fileVars
      <3>2. ~Owning(c) /\ ~Writing(c)' /\ CallTrue(c)'
        BY <2>1, <2>3, <3>1 DEF Owning, Handling, Writing, CallTrue
      <3> QED BY <1>0, <2>1, <3>1, <3>2, OthersKept
    <2> QED BY <1>0, <1>3, <2>2, <2>3 DEF Dispatch, Goto
  <1>4. ASSUME NEW c \in Call, Claimed(c) PROVE RecordInv'
    <2>1. /\ UNCHANGED <<shown, store, old, view, subject, step, target, result, lapses>>
          /\ at'[c] \in {"quote", "decide"} /\ step[c] = "none"
          /\ \A d \in Call \ {c} : at'[d] = at[d]
          /\ handled' = [handled EXCEPT ![subject[c]] = @ + 1]
      BY <1>0, <1>4 DEF Claimed, Goto, dedupeVars, fileVars, callVars
    <2>2. \A m \in Msg : m # subject[c] => handled'[m] = handled[m]
      BY <1>0, <2>1 DEF TypeOK
    <2>3. ~Writing(c)' /\ CallTrue(c)' /\ Owning(c)'
      BY <2>1 DEF Writing, CallTrue, Owning, Handling
    <2> QED BY <1>0, <2>1, <2>2, <2>3, OthersKept
  <1>5. ASSUME NEW c \in Call, Quietly(c) PROVE RecordInv'
    <2>1. UNCHANGED <<handled, store, old, view, subject, step, target, result>> /\ step[c] = "none"
      BY <1>5, QuietSteps DEF fileVars, callVars
    <2>2. PICK place \in {"decide", "command", "files", "notice", "prompt", "sorry", "done"} :
             at' = [at EXCEPT ![c] = place]
      BY <1>5, QuietSteps
    <2>3. at'[c] = place /\ ~Writing(c)' /\ \A d \in Call \ {c} : at'[d] = at[d]
      BY <1>0, <2>1, <2>2 DEF Writing
    <2>4. CASE Refused(c)
      <3>1. ~Owning(c) /\ shown' = shown /\ at'[c] = "done"
        BY <1>0, <2>4 DEF Refused, Owning, Handling, historyVars, Goto
      <3>2. CallTrue(c)'
        BY <3>1 DEF CallTrue
      <3> QED BY <1>0, <2>1, <2>3, <3>1, <3>2, OthersKept
    <2>5. CASE Quote(c) \/ RunCommand(c) \/ PassContent(c) \/ ProcessFiles(c)
      <3>1. Handling(c)' /\ shown' = shown
        BY <1>0, <2>5 DEF Quote, RunCommand, PassContent, ProcessFiles, Handling, historyVars, Goto
      <3>2. CallTrue(c)' /\ Owning(c)'
        BY <3>1 DEF CallTrue, Handling, Owning
      <3> QED BY <1>0, <2>1, <2>3, <3>1, <3>2, OthersKept
    <2>6. CASE MarkDone(c)
      <3>1. at[c] = "mark" /\ shown' = shown /\ at'[c] = "done" /\ CallTrue(c)
        BY <1>0, <2>6 DEF MarkDone, historyVars, Goto
      <3>2. CallTrue(c)'
        BY <3>1 DEF CallTrue
      <3>3. Truth(subject[c])
        BY <2>1, <3>1 DEF CallTrue, Truth
      <3>4. Truth(subject[c])'
        BY <1>0, <2>1, <3>1, <3>3 DEF Truth
      <3> QED BY <1>0, <2>1, <2>3, <3>1, <3>2, <3>4, OthersKept
    <2>7. CASE FailureMarked(c)
      <3>1. at[c] = "failing" /\ shown' = shown /\ CallTrue(c)
        BY <1>0, <2>7 DEF FailureMarked, historyVars
      <3>2. result[c] = "marked" /\ store[subject[c]] = "failed"
        BY <2>1, <3>1 DEF CallTrue
      <3>3. at'[c] = "sorry"
        BY <1>0, <2>7, <3>2 DEF FailureMarked, Goto
      <3>4. CallTrue(c)' /\ Owning(c)'
        BY <1>0, <2>1, <3>2, <3>3 DEF CallTrue, Owning, Clean
      <3> QED BY <1>0, <2>1, <2>3, <3>1, <3>4, OthersKept
    <2>8. CASE Sorry(c)
      <3>1. /\ at[c] = "sorry" /\ at'[c] = "done" /\ CallTrue(c)
            /\ \/ shown' = [shown EXCEPT ![subject[c]] = @ \cup {"sorry"}]
               \/ shown' = shown /\ "unshown" \in lapses'
        BY <1>0, <2>8 DEF Sorry, Tell, Goto, Slip, Clean
      <3>2. Owning(c) /\ subject[c] \in Msg /\ store[subject[c]] = "failed"
        BY <1>0, <3>1 DEF Owning, CallTrue, InHand
      <3>3. shown[subject[c]] \subseteq Lost /\ Lost \subseteq Lost'
        BY <1>0, <3>1 DEF ShownOK, Lost
      <3>4. /\ \/ shown'[subject[c]] = shown[subject[c]] \cup {"sorry"}
               \/ shown'[subject[c]] = shown[subject[c]] /\ "unshown" \in lapses'
            /\ \A m \in Msg : m # subject[c] => shown'[m] = shown[m]
        BY <1>0, <3>1, <3>2 DEF TypeOK
      <3>5. CallTrue(c)'
        BY <3>1 DEF CallTrue
      <3>6. Truth(subject[c])'
        BY <2>1, <3>2, <3>3, <3>4 DEF Truth, Lost
      <3> QED BY <1>0, <2>1, <2>3, <3>2, <3>4, <3>5, <3>6, OthersKept
    <2> QED BY <1>5, <2>4, <2>5, <2>6, <2>7, <2>8 DEF Quietly
  <1>6. ASSUME NEW c \in Call, Marking(c) PROVE RecordInv'
    <2>1. UNCHANGED handled /\ at[c] # "idle"
      BY <1>6, MarkingSteps
    <2>2. PICK s \in {"ignored", "replied", "failed"} : BeginCall(c, subject[c], s)
      BY <1>6, MarkingSteps
    <2>3. /\ UNCHANGED <<store, old, view, subject>>
          /\ step'[c] = "try" /\ target'[c] = s /\ ~Writing(c)'
          /\ \A d \in Call \ {c} : step'[d] = step[d] /\ target'[d] = target[d] /\ result'[d] = result[d]
      BY <1>0, <2>2 DEF BeginCall, DedupeTypeOK, fileVars, Writing
    <2>4. PICK place \in {"mark", "failing"} : at' = [at EXCEPT ![c] = place]
      BY <1>6, MarkingSteps
    <2>5. at'[c] = place /\ Owning(c)' /\ \A d \in Call \ {c} : at'[d] = at[d]
      BY <1>0, <2>4 DEF Owning, Clean
    <2>6. at[c] \in {"decide", "command", "files", "notice", "prompt"}
      <3>1. result[c] # "error"
        BY <1>0 DEF OwnerOK
      <3> QED BY <1>6, <3>1 DEF Marking, IgnoreEmpty, DropDuplicate, Replied, Unshown, CommandUnlinked, Throws, AnswerLost, Slip
    <2>7. Handling(c) /\ Owning(c) /\ subject[c] \in Msg
      BY <1>0, <2>6 DEF Owning, Handling, InHand
    <2>8. shown[subject[c]] = {}
      BY <1>0, <2>7 DEF ShownOK
    <2>9. /\ place = "failing" <=> s = "failed"
          /\ s = "replied" => \/ shown' = [shown EXCEPT ![subject[c]] = @ \cup {"reply"}]
                              \/ shown' = shown /\ "unshown" \in lapses'
          /\ s = "ignored" => shown' = shown
          /\ s = "failed" => shown' = shown \/ shown' = [shown EXCEPT ![subject[c]] = @ \cup {"reply"}]
      <3>1. ASSUME NEW other \in {"ignored", "replied", "failed"}, BeginCall(c, subject[c], other) PROVE other = s
        BY <1>0, <2>3, <3>1 DEF BeginCall, DedupeTypeOK
      <3>2. ASSUME NEW other \in {"mark", "failing"}, at' = [at EXCEPT ![c] = other] PROVE other = place
        BY <1>0, <2>5, <3>2
      <3>3. CASE IgnoreEmpty(c) \/ DropDuplicate(c)
        BY <3>1, <3>2, <3>3 DEF IgnoreEmpty, DropDuplicate, BeginMark, Goto, historyVars
      <3>4. CASE Replied(c)
        BY <3>1, <3>2, <3>4 DEF Replied, AfterReply, BeginMark, Goto, Tell
      <3>5. CASE Throws(c)
        BY <3>1, <3>2, <3>5 DEF Throws, BeginMark, Goto, historyVars
      <3>6. ~CommandUnlinked(c)
        BY DEF CommandUnlinked, Slip, Clean
      <3>7. CASE Unshown(c)
        BY <3>1, <3>2, <3>7 DEF Unshown, AfterReply, BeginMark, Goto, Slip, historyVars
      <3>8. CASE AnswerLost(c)
        BY <3>1, <3>2, <3>8 DEF AnswerLost, BeginMark, Goto, Tell
      <3> QED BY <1>6, <3>3, <3>4, <3>5, <3>6, <3>7, <3>8 DEF Marking
    <2>10. /\ s = "replied" => \/ shown'[subject[c]] = {"reply"}
                               \/ shown'[subject[c]] = {} /\ "unshown" \in lapses'
           /\ s = "ignored" => shown'[subject[c]] = {}
           /\ \A m \in Msg : m # subject[c] => shown'[m] = shown[m]
      BY <1>0, <2>7, <2>8, <2>9 DEF TypeOK
    <2>11. CallTrue(c)'
      BY <2>3, <2>5, <2>9, <2>10 DEF CallTrue
    <2> QED BY <1>0, <2>1, <2>3, <2>5, <2>7, <2>10, <2>11, OthersKept
  <1>7. ASSUME NEW p \in Proc PROVE ~Crash(p)
    BY DEF Crash, CallsDie, Clean
  <1>8. ~DayPasses
    BY DEF DayPasses, RecordsAge, Clean
  <1>9. CASE UNCHANGED vars
    <2>1. UNCHANGED <<at, step, store, old, view, subject, target, result, handled, shown, lapses>>
      BY <1>9 DEF vars, dedupeVars, fileVars, callVars, historyVars
    <2>2. ASSUME NEW d \in Call PROVE CallTrue(d)'
      BY <1>0, <2>1, CallTrueKept
    <2> QED BY <1>0, <2>1, <2>2, RecordsKept DEF Owning, Handling, Writing
  <1> QED BY <1>1, <1>2, <1>3, <1>4, <1>5, <1>6, <1>7, <1>8, <1>9 DEF Next, HandlerStep, Quietly, Marking

(* The record of a message at rest is true, whatever other calls, in this    *)
(* process or another, wrote meanwhile, and whatever could not be sent.      *)
THEOREM RecordsAreTrue == Spec => []RecordsTrue
  <1> DEFINE IInv == TypeInv /\ (Orderly => OnceInv /\ OwnerInv) /\ (Clean => RecordInv)
  <1>1. Init => IInv
    BY InitTypeInv, InitOnceInv, InitOwnerInv, InitRecordInv
  <1>2. IInv /\ [Next]_vars => IInv'
    <2>1. TypeInv /\ [Next]_vars /\ Orderly' => Orderly
      BY LapsesGrow DEF Orderly
    <2>2. TypeInv /\ [Next]_vars /\ Clean' => Clean
      BY LapsesGrow DEF Clean
    <2> QED BY <2>1, <2>2, CleanFacts, NextTypeInv, NextOnceInv, NextOwnerInv, NextRecordInv
  <1>3. IInv => RecordsTrue
    <2> SUFFICES ASSUME IInv, Clean, NEW m \in Msg, AtRest(m), handled[m] > 0 PROVE Truth(m)
      BY DEF RecordsTrue, Clean, Truth
    <2>1. handled[m] # 0 /\ ~\E c \in Call : Owning(c) /\ subject[c] = m
      BY DEF AtRest, Owning, Handling, TypeInv, TypeOK
    <2> QED BY <2>1 DEF RecordInv
  <1> QED BY <1>1, <1>2, <1>3, PTL DEF Spec
=============================================================================
