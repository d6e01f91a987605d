-------------------------- MODULE CardStream_proofs --------------------------
(* Proofs about CardStream, for any number of changes, attempts and updates. *)
EXTENDS CardStream, TLAPS

(* What the declared types need besides: a running start counts its         *)
(* attempts, its card exists once it was created, and a request carries a    *)
(* text of its own kind.                                                     *)
DetailsOK ==
    /\ Starting => attempt # 0
    /\ startPc = "reply" => cardId # None
    /\ ~closed => fullText <= MaxText
    /\ \A o \in {"tick", "close"} : req[o].text <= LastText
    /\ req["process"].text <= MaxProcess

TypeInv == TypeOK /\ DetailsOK

LEMMA BoundsFacts ==
    /\ MaxText \in Nat /\ MaxProcess \in Nat /\ MaxRetries \in Nat /\ MaxSequence \in Nat
    /\ LastText \in Nat /\ LastText = MaxText + 2
  BY BoundsAssumption DEF LastText

(* While no request had to wait for a token, they carry sequences in the     *)
(* order in which they were sent, and those of close are the last.           *)
OrderOK ==
    /\ \A o \in Ops : op[o] # "token"
    /\ \A o \in Ops : op[o] = "put" => req[o].seq <= sequence
    /\ op["close"] = "put" =>
        \A o \in {"tick", "process"} : op[o] = "put" => req[o].seq < req["close"].seq

(* Where close stands.                                                       *)
CloseOK ==
    /\ op["close"] = "put" => closePc \in {"content", "settings", "full"}
    /\ closePc = "full" => op["close"] = "put"
    /\ closePc \notin {"none", "waitStart"} => ~Starting

(* A card that shows its final status has seen a sequence that no request    *)
(* still on its way to it exceeds.                                           *)
FinalOK ==
    \A c \in Cards : server[c].status # "running" =>
        /\ closePc \in {"fallback", "over"}
        /\ \A o \in Ops : op[o] = "put" /\ req[o].card = c => req[o].seq <= server[c].seq

LateOK == ~renewed => OrderOK /\ CloseOK /\ FinalOK

IInv == TypeInv /\ LateOK

-----------------------------------------------------------------------------
(* The declared types.                                                       *)

LEMMA InitTypeInv == Init => TypeInv
  <1> SUFFICES ASSUME Init PROVE TypeInv
    OBVIOUS
  <1>1. FlagTypes
    BY Zenon DEF Init, FlagTypes
  <1>2. StartTypes /\ TextTypes /\ CloseTypes
    BY BoundsFacts DEF Init, StartTypes, TextTypes, CloseTypes, Cards, None
  <1>3. SendTypes
    BY BoundsFacts DEF Init, SendTypes, NoRequest, Req, Cards, None
  <1>4. server \in [Cards -> Card]
    BY BoundsFacts DEF Init, Card
  <1>5. DetailsOK
    BY BoundsFacts DEF Init, DetailsOK, NoRequest, closed, Starting, Ops, None
  <1> QED
    BY <1>1, <1>2, <1>3, <1>4, <1>5 DEF TypeInv, TypeOK

LEMMA NextFlagTypes == FlagTypes /\ [Next]_vars => FlagTypes'
  <1> SUFFICES ASSUME FlagTypes, [Next]_vars PROVE FlagTypes'
    OBVIOUS
  <1> USE DEF FlagTypes
  <1>1. CASE Append
    BY <1>1 DEF Append, EnsureStarted, startVars, processVars, sendVars, closeVars
  <1>2. CASE TextStart
    BY <1>2 DEF TextStart, EnsureStarted, startVars, textVars, processVars, sendVars, closeVars
  <1>3. CASE UpdateProcess
    BY <1>3 DEF UpdateProcess, EnsureStarted, startVars, textVars, sendVars, closeVars
  <1>4. CASE Close
    BY <1>4 DEF Close, startVars, sendVars
  <1>5. CASE StartToken
    BY <1>5 DEF StartToken, Retry, textVars, sendVars, closeVars
  <1>6. CASE CreateAnswered
    BY <1>6 DEF CreateAnswered, Retry, textVars, processVars, sendVars, closeVars
  <1>7. CASE ReplyAnswered
    BY <1>7 DEF ReplyAnswered, Retry, processVars, sendVars, closeVars
  <1>8. CASE Tick
    BY <1>8 DEF Tick, Request, Send, startVars, textVars, processVars, closeVars
  <1>9. CASE TickAnswered
    BY <1>9 DEF TickAnswered, End, NoRequest, startVars, processVars, closeVars
  <1>10. CASE \E o \in Ops : TokenAnswered(o)
    BY <1>10 DEF TokenAnswered, Send, End, NoRequest, startVars, textVars, closeVars
  <1>11. CASE ProcessTimer
    BY <1>11 DEF ProcessTimer, PutLater, Request, Send, startVars, textVars, sendVars, closeVars
  <1>12. CASE ProcessAnswered
    BY <1>12 DEF ProcessAnswered, End, NoRequest, startVars, textVars, closeVars
  <1>13. CASE CloseContent
    BY <1>13 DEF CloseContent, FallBack, Request, Send, startVars, textVars, processVars, sendVars
  <1>14. CASE CloseContentAnswered
    BY <1>14 DEF CloseContentAnswered, End, NoRequest, startVars, processVars
  <1>15. CASE CloseTokenFails
    BY <1>15 DEF CloseTokenFails, FallBack, End, NoRequest, startVars, textVars, processVars
  <1>16. CASE CloseSettings
    BY <1>16 DEF CloseSettings, Request, Send, startVars, textVars, processVars, closeVars
  <1>17. CASE CloseSettingsAnswered
    BY <1>17
    DEF CloseSettingsAnswered, FallBack, End, Send, NoRequest, startVars, textVars, processVars
  <1>18. CASE CloseFullAnswered
    BY <1>18 DEF CloseFullAnswered, FallBack, End, NoRequest, startVars, textVars, processVars
  <1>19. CASE FallbackAnswered
    BY <1>19 DEF FallbackAnswered, startVars, textVars, processVars, sendVars
  <1>20. CASE UNCHANGED vars
    BY <1>20 DEF vars, startVars, textVars, processVars, sendVars, closeVars
  <1>21. CASE LateFinal
    BY <1>21 DEF LateFinal, startVars, processVars, sendVars, closeVars
  <1> QED
    BY <1>1, <1>2, <1>3, <1>4, <1>5, <1>6, <1>7, <1>8, <1>9, <1>10, <1>11, <1>12, <1>13, <1>14,
       <1>15, <1>16, <1>17, <1>18, <1>19, <1>20, <1>21
    DEF Next, StartStep, CloseStep, Ops

StartInv ==
    /\ StartTypes
    /\ Starting => attempt # 0
    /\ startPc = "reply" => cardId # None

LEMMA NextStartInv == TypeInv /\ [Next]_vars => StartInv'
  <1> SUFFICES ASSUME TypeInv, [Next]_vars PROVE StartInv'
    OBVIOUS
  <1>1. StartInv /\ TextTypes
    BY DEF TypeInv, TypeOK, DetailsOK, StartInv
  <1> USE <1>1, BoundsFacts DEF StartInv, StartTypes, TextTypes, Starting, Cards, None
  <1>2. CASE EnsureStarted
    <2>1. CASE cardId = None /\ startPc = "none"
      <3>1. startPc' = "token" /\ attempt' = 1 /\ UNCHANGED <<built, cardId, visible>>
        BY <1>2, <2>1 DEF EnsureStarted
      <3> QED
        BY <3>1
    <2> QED
      BY <1>2, <2>1 DEF EnsureStarted, startVars
  <1>3. CASE StartToken
    BY <1>3 DEF StartToken, Retry
  <1>4. CASE CreateAnswered
    BY <1>4 DEF CreateAnswered, Retry
  <1>5. CASE ReplyAnswered
    <2>1. visible' \subseteq Cards
      BY <1>5 DEF ReplyAnswered
    <2>2. UNCHANGED <<built, cardId>>
      BY <1>5 DEF ReplyAnswered
    <2> QED
      BY <1>5, <2>1, <2>2 DEF ReplyAnswered, Retry
  <1>6. CASE UNCHANGED startVars
    BY <1>6 DEF startVars
  <1>7. EnsureStarted \/ StartStep \/ UNCHANGED startVars
    BY ZenonT(30)
    DEF Next, CloseStep, vars,
        Append, TextStart, UpdateProcess, Close, LateFinal, Tick, TickAnswered, TokenAnswered, ProcessTimer,
        ProcessAnswered, CloseContent, CloseContentAnswered, CloseTokenFails, CloseSettings,
        CloseSettingsAnswered, CloseFullAnswered, FallbackAnswered
  <1> QED
    BY <1>2, <1>3, <1>4, <1>5, <1>6, <1>7 DEF StartStep

TextInv == TextTypes /\ (~closed => fullText <= MaxText)

LEMMA NextTextInv == TypeInv /\ [Next]_vars => TextInv'
  <1> SUFFICES ASSUME TypeInv, [Next]_vars PROVE TextInv'
    OBVIOUS
  <1>1. /\ TextInv
        /\ req["tick"].text \in 0 .. LastText /\ req["close"].text \in 0 .. LastText
    BY BoundsFacts DEF TypeInv, TypeOK, DetailsOK, TextInv, SendTypes, Req, Ops
  <1> USE <1>1, BoundsFacts DEF TextInv, TextTypes, closed
  <1>9. CASE LateFinal
    <2>1. answer \in 0 .. MaxText + 1
      BY DEF TypeInv, TypeOK, CloseTypes
    <2> QED BY <1>9, <2>1 DEF LateFinal, processVars, closeVars
  <1>2. CASE Append
    BY <1>2 DEF Append, processVars, closeVars
  <1>3. CASE UpdateProcess
    BY <1>3 DEF UpdateProcess, textVars, closeVars
  <1>4. CASE Close
    BY <1>4 DEF Close
  <1>5. CASE TickAnswered
    BY <1>5 DEF TickAnswered, processVars, closeVars
  <1>6. CASE CloseContentAnswered
    BY <1>6 DEF CloseContentAnswered, processVars
  <1>7. CASE UNCHANGED <<fullText, lastSent, processMarkdown>> /\ (closed => closed')
    BY <1>7
  <1>8. \/ Append \/ UpdateProcess \/ Close \/ LateFinal \/ TickAnswered \/ CloseContentAnswered
        \/ UNCHANGED <<fullText, lastSent, processMarkdown>> /\ (closed => closed')
    BY ZenonT(30)
    DEF Next, StartStep, CloseStep, FallBack, vars, textVars, processVars, closeVars,
        TextStart, StartToken, CreateAnswered, ReplyAnswered, Tick, TokenAnswered, ProcessTimer,
        ProcessAnswered, CloseContent, CloseTokenFails, CloseSettings, CloseSettingsAnswered,
        CloseFullAnswered, FallbackAnswered
  <1> QED
    BY <1>2, <1>3, <1>4, <1>5, <1>6, <1>7, <1>8, <1>9

SendInv ==
    /\ SendTypes
    /\ \A o \in {"tick", "close"} : req[o].text <= LastText
    /\ req["process"].text <= MaxProcess

(* The texts that an operation may carry.                                    *)
Texts(o) == IF o = "process" THEN 0 .. MaxProcess ELSE 0 .. LastText

LEMMA RequestTypes ==
  ASSUME SendInv, cardId \in Cards \cup {None}, NEW o \in Ops, NEW text \in Texts(o),
         Send(o, text) \/ Request(o, text) \/ (End(o) /\ UNCHANGED sequence)
  PROVE  SendInv'
  <1> USE BoundsFacts DEF SendInv, SendTypes, Req, Ops, Texts, None
  <1>1. CASE Send(o, text)
    BY <1>1 DEF Send
  <1>2. CASE Request(o, text)
    <2>1. CASE UNCHANGED sequence /\ op' = [op EXCEPT ![o] = "token"]
                /\ req' = [req EXCEPT ![o].text = text]
      BY <2>1
    <2> QED
      BY <1>1, <1>2, <2>1 DEF Request
  <1>3. CASE End(o) /\ UNCHANGED sequence
    BY <1>3 DEF End, NoRequest
  <1> QED
    BY <1>1, <1>2, <1>3

LEMMA NextSendInv == TypeInv /\ [Next]_vars => SendInv'
  <1> SUFFICES ASSUME TypeInv, [Next]_vars PROVE SendInv'
    OBVIOUS
  <1>1. SendInv /\ TextTypes /\ cardId \in Cards \cup {None}
    BY DEF TypeInv, TypeOK, DetailsOK, SendInv, StartTypes
  <1>2. /\ fullText \in Texts("tick") /\ fullText \in Texts("close")
        /\ processMarkdown \in Texts("process")
    BY <1>1 DEF TextTypes, Texts
  <1>3. \A o \in Ops : req[o].text \in Texts(o)
    BY <1>1, BoundsFacts DEF SendInv, SendTypes, Req, Texts, Ops
  <1>4. "tick" \in Ops /\ "process" \in Ops /\ "close" \in Ops
    BY DEF Ops
  <1>5. CASE Tick
    BY <1>1, <1>2, <1>4, <1>5, RequestTypes DEF Tick
  <1>6. CASE ProcessTimer
    <2>1. Request("process", processMarkdown) \/ UNCHANGED sendVars
      BY <1>6 DEF ProcessTimer
    <2> QED
      BY <1>1, <1>2, <1>4, <2>1, RequestTypes DEF SendInv, SendTypes, sendVars
  <1>7. ASSUME NEW o \in Ops, TokenAnswered(o) PROVE SendInv'
    <2>1. Send(o, IF o = "process" THEN processMarkdown ELSE req[o].text)
          \/ (End(o) /\ UNCHANGED sequence)
      BY <1>7 DEF TokenAnswered
    <2>2. (IF o = "process" THEN processMarkdown ELSE req[o].text) \in Texts(o)
      BY <1>2, <1>3
    <2> QED
      BY <1>1, <2>1, <2>2, RequestTypes
  <1>8. CASE TickAnswered
    BY <1>1, <1>2, <1>4, <1>8, RequestTypes DEF TickAnswered
  <1>9. CASE ProcessAnswered
    BY <1>1, <1>2, <1>4, <1>9, RequestTypes DEF ProcessAnswered
  <1>10. CASE CloseContent
    <2>1. Request("close", fullText) \/ UNCHANGED sendVars
      BY <1>10 DEF CloseContent
    <2> QED
      BY <1>1, <1>2, <1>4, <2>1, RequestTypes DEF SendInv, SendTypes, sendVars
  <1>11. CASE CloseContentAnswered \/ CloseTokenFails \/ CloseFullAnswered
    BY <1>1, <1>2, <1>4, <1>11, RequestTypes
    DEF CloseContentAnswered, CloseTokenFails, CloseFullAnswered
  <1>12. CASE CloseSettings
    BY <1>1, <1>2, <1>4, <1>12, RequestTypes DEF CloseSettings
  <1>13. CASE CloseSettingsAnswered
    <2>1. Send("close", fullText) \/ (End("close") /\ UNCHANGED sequence)
      BY <1>13, Zenon DEF CloseSettingsAnswered
    <2> QED
      BY <1>1, <1>2, <1>4, <2>1, RequestTypes
  <1>14. CASE UNCHANGED sendVars
    BY <1>1, <1>14 DEF SendInv, SendTypes, sendVars
  <1>15. \/ Tick \/ ProcessTimer \/ \E o \in Ops : TokenAnswered(o)
         \/ TickAnswered \/ ProcessAnswered \/ CloseContent
         \/ CloseContentAnswered \/ CloseTokenFails \/ CloseFullAnswered
         \/ CloseSettings \/ CloseSettingsAnswered
         \/ UNCHANGED sendVars
    BY <1>4, ZenonT(30)
    DEF Next, StartStep, CloseStep, vars, Append, TextStart, UpdateProcess, Close, LateFinal, StartToken,
        CreateAnswered, ReplyAnswered, FallbackAnswered
  <1> QED
    BY <1>5, <1>6, <1>7, <1>8, <1>9, <1>10, <1>11, <1>12, <1>13, <1>14, <1>15

LEMMA NextCloseTypes == TypeInv /\ [Next]_vars => CloseTypes'
  <1> SUFFICES ASSUME TypeInv, [Next]_vars PROVE CloseTypes'
    OBVIOUS
  <1>1. CloseTypes /\ fullText \in 0 .. LastText /\ (~closed => fullText <= MaxText)
    BY DEF TypeInv, TypeOK, TextTypes, DetailsOK
  <1> USE <1>1, BoundsFacts DEF CloseTypes
  <1>2. CASE Close
    BY <1>2 DEF Close
  <1>3. CASE CloseContent
    BY <1>3 DEF CloseContent, FallBack
  <1>4. CASE CloseContentAnswered
    BY <1>4 DEF CloseContentAnswered
  <1>5. CASE CloseTokenFails
    BY <1>5 DEF CloseTokenFails, FallBack
  <1>6. CASE CloseSettingsAnswered
    BY <1>6 DEF CloseSettingsAnswered, FallBack
  <1>7. CASE CloseFullAnswered
    BY <1>7 DEF CloseFullAnswered, FallBack
  <1>8. CASE FallbackAnswered
    BY <1>8 DEF FallbackAnswered
  <1>9. CASE UNCHANGED closeVars
    BY <1>9 DEF closeVars
  <1>10. \/ Close \/ CloseContent \/ CloseContentAnswered \/ CloseTokenFails
         \/ CloseSettingsAnswered \/ CloseFullAnswered \/ FallbackAnswered
         \/ UNCHANGED closeVars
    BY ZenonT(30)
    DEF Next, StartStep, CloseStep, vars, Append, TextStart, UpdateProcess, LateFinal, StartToken,
        CreateAnswered, ReplyAnswered, Tick, ProcessTimer, TokenAnswered, TickAnswered,
        ProcessAnswered, CloseSettings
  <1> QED
    BY <1>2, <1>3, <1>4, <1>5, <1>6, <1>7, <1>8, <1>9, <1>10

LEMMA NextServerType == TypeInv /\ [Next]_vars => (server \in [Cards -> Card])'
  <1> SUFFICES ASSUME TypeInv, [Next]_vars PROVE (server \in [Cards -> Card])'
    OBVIOUS
  <1>1. /\ server \in [Cards -> Card]
        /\ \A o \in Ops : req[o].seq \in Nat
        /\ req["tick"].text \in 0 .. LastText /\ req["close"].text \in 0 .. LastText
        /\ req["process"].text \in 0 .. MaxProcess
        /\ built \in 0 .. MaxProcess
        /\ status \in {"running", "done", "stopped"}
    BY BoundsFacts
    DEF TypeInv, TypeOK, DetailsOK, SendTypes, Req, Ops, StartTypes, CloseTypes
  <1> USE <1>1 DEF Card, Ops
  <1>2. CASE CreateAnswered
    BY <1>2 DEF CreateAnswered
  <1>3. CASE TickAnswered
    <2> DEFINE r == req["tick"]
               new == [server EXCEPT ![r.card].seq = r.seq, ![r.card].text = r.text]
    <2>1. server' = new \/ server' = server
      BY <1>3, Zenon DEF TickAnswered
    <2>2. new \in [Cards -> Card]
      OBVIOUS
    <2> QED
      BY <2>1, <2>2
  <1>4. CASE ProcessAnswered
    <2> DEFINE r == req["process"]
               new == [server EXCEPT ![r.card].seq = r.seq, ![r.card].process = r.text]
    <2>1. server' = new \/ server' = server
      BY <1>4, Zenon DEF ProcessAnswered
    <2>2. new \in [Cards -> Card]
      OBVIOUS
    <2> QED
      BY <2>1, <2>2
  <1>5. CASE CloseContentAnswered
    <2> DEFINE r == req["close"]
               new == [server EXCEPT ![r.card].seq = r.seq, ![r.card].text = r.text]
    <2>1. server' = new \/ server' = server
      BY <1>5, Zenon DEF CloseContentAnswered
    <2>2. new \in [Cards -> Card]
      OBVIOUS
    <2> QED
      BY <2>1, <2>2
  <1>6. CASE CloseSettingsAnswered
    BY <1>6 DEF CloseSettingsAnswered
  <1>7. CASE CloseFullAnswered
    <2> DEFINE r == req["close"]
               new == [server EXCEPT ![r.card] = [seq |-> r.seq, text |-> r.text,
                                                  process |-> 0, status |-> status]]
    <2>1. server' = new \/ server' = server
      BY <1>7, Zenon DEF CloseFullAnswered
    <2>2. [seq |-> r.seq, text |-> r.text, process |-> 0, status |-> status] \in Card
      BY BoundsFacts
    <2>3. new \in [Cards -> Card]
      BY <2>2
    <2> QED
      BY <2>1, <2>3
  <1>8. CASE UNCHANGED server
    BY <1>8
  <1>9. \/ CreateAnswered \/ TickAnswered \/ ProcessAnswered \/ CloseContentAnswered
        \/ CloseSettingsAnswered \/ CloseFullAnswered \/ UNCHANGED server
    BY ZenonT(30)
    DEF Next, StartStep, CloseStep, vars, Append, TextStart, UpdateProcess, Close, LateFinal, StartToken,
        ReplyAnswered, Tick, ProcessTimer, TokenAnswered, CloseContent, CloseTokenFails,
        CloseSettings, FallbackAnswered
  <1> QED
    BY <1>2, <1>3, <1>4, <1>5, <1>6, <1>7, <1>8, <1>9

LEMMA NextTypeInv == TypeInv /\ [Next]_vars => TypeInv'
  <1> SUFFICES ASSUME TypeInv, [Next]_vars PROVE TypeInv'
    OBVIOUS
  <1>1. FlagTypes'
    BY NextFlagTypes DEF TypeInv, TypeOK
  <1> QED
    BY <1>1, NextStartInv, NextTextInv, NextSendInv, NextCloseTypes, NextServerType
    DEF TypeInv, TypeOK, DetailsOK, StartInv, TextInv, SendInv

(* Every reachable state has the declared types.                             *)
THEOREM TypeCorrect == Spec => []TypeOK
  <1>1. TypeInv => TypeOK
    BY DEF TypeInv
  <1> QED
    BY <1>1, InitTypeInv, NextTypeInv, PTL DEF Spec

-----------------------------------------------------------------------------
(* Updates exclude each other.                                               *)

LEMMA NextSerial == TypeInv /\ StreamUpdatesSerial /\ [Next]_vars => StreamUpdatesSerial'
  <1> SUFFICES ASSUME TypeInv, StreamUpdatesSerial, [Next]_vars PROVE StreamUpdatesSerial'
    OBVIOUS
  <1>1. op \in [Ops -> {"none", "token", "put"}] /\ putting \in BOOLEAN
    BY DEF TypeInv, TypeOK, SendTypes, FlagTypes
  <1> USE <1>1 DEF StreamUpdatesSerial, Ops
  <1>2. CASE Tick
    BY <1>2 DEF Tick, Busy, Request, Send
  <1>3. CASE ProcessTimer
    BY <1>3 DEF ProcessTimer, Busy, Request, Send, sendVars
  <1>4. CASE TokenAnswered("tick")
    BY <1>4 DEF TokenAnswered, Send, End
  <1>5. CASE TokenAnswered("process")
    BY <1>5 DEF TokenAnswered, Send, End
  <1>6. CASE TickAnswered
    BY <1>6 DEF TickAnswered, End
  <1>7. CASE ProcessAnswered
    BY <1>7 DEF ProcessAnswered, End
  <1>8. CASE UNCHANGED <<op["tick"], op["process"], putting>>
    BY <1>8
  <1>9. CASE CloseStep
    BY <1>8, <1>9
    DEF CloseStep, CloseContent, CloseContentAnswered, CloseSettings, CloseSettingsAnswered,
        CloseTokenFails, CloseFullAnswered, FallbackAnswered, TokenAnswered, Request, Send, End,
        sendVars
  <1>10. \/ Tick \/ ProcessTimer \/ TokenAnswered("tick") \/ TokenAnswered("process")
         \/ TickAnswered \/ ProcessAnswered \/ CloseStep
         \/ UNCHANGED <<op, putting>>
    BY ZenonT(30)
    DEF Next, StartStep, vars, sendVars, Append, TextStart, UpdateProcess, Close, LateFinal, StartToken,
        CreateAnswered, ReplyAnswered
  <1> QED
    BY <1>2, <1>3, <1>4, <1>5, <1>6, <1>7, <1>8, <1>9, <1>10

(* At most one of the streaming updates is on its way: tick and putProcess   *)
(* of cardkit-stream.ts exclude each other, with any number of refusals,     *)
(* lost answers and waits for a token.                                       *)
THEOREM UpdatesAreSerial == Spec => []StreamUpdatesSerial
  <1>1. Init => StreamUpdatesSerial
    BY DEF Init, StreamUpdatesSerial, Ops
  <1>2. TypeInv /\ StreamUpdatesSerial /\ [Next]_vars => TypeInv' /\ StreamUpdatesSerial'
    BY NextTypeInv, NextSerial
  <1> QED
    BY <1>1, <1>2, InitTypeInv, PTL DEF Spec

-----------------------------------------------------------------------------
(* A finished card stands.                                                   *)

(* Sending keeps the order of the sequences if it is close that sends, or    *)
(* close has not begun to; so does the end of a request.                     *)
LEMMA SendKeepsOrder ==
  ASSUME SendTypes, OrderOK, NEW o \in Ops, NEW text,
         o = "close" \/ op["close"] # "put",
         Send(o, text) \/ (End(o) /\ UNCHANGED sequence)
  PROVE  OrderOK'
  <1> USE DEF SendTypes, OrderOK, Req, Ops
  <1>1. CASE Send(o, text)
    BY <1>1 DEF Send
  <1>2. CASE End(o) /\ UNCHANGED sequence
    BY <1>2 DEF End
  <1> QED
    BY <1>1, <1>2

(* A request that asks for a token leaves the server alone.                  *)
LEMMA RenewedStays ==
  ASSUME [Next]_vars
  PROVE  UNCHANGED renewed \/ (renewed' /\ UNCHANGED server)
  BY ZenonT(30)
  DEF Next, StartStep, CloseStep, vars, sendVars, Request, Append, TextStart, UpdateProcess,
      Close, LateFinal, StartToken, CreateAnswered, ReplyAnswered, FallbackAnswered, Tick, ProcessTimer,
      TokenAnswered, TickAnswered, ProcessAnswered, CloseContent, CloseContentAnswered,
      CloseTokenFails, CloseSettings, CloseSettingsAnswered, CloseFullAnswered

LEMMA NextOrder == TypeInv /\ LateOK /\ ~renewed' /\ [Next]_vars => OrderOK'
  <1> SUFFICES ASSUME TypeInv, LateOK, ~renewed', [Next]_vars PROVE OrderOK'
    OBVIOUS
  <1>1. ~renewed
    BY RenewedStays
  <1>2. SendTypes /\ OrderOK /\ CloseOK
    BY <1>1 DEF TypeInv, TypeOK, LateOK
  <1>3. "tick" \in Ops /\ "process" \in Ops /\ "close" \in Ops
    BY DEF Ops
  <1>4. ~closed => op["close"] # "put"
    BY <1>2 DEF CloseOK, closed
  <1>5. CASE Tick
    BY <1>2, <1>3, <1>4, <1>5, SendKeepsOrder DEF Tick, Request
  <1>6. CASE ProcessTimer
    <2>1. UNCHANGED sendVars \/ (~closed /\ Send("process", processMarkdown))
      BY <1>6 DEF ProcessTimer, MayPutProcess, Request
    <2> QED
      BY <1>2, <1>3, <1>4, <2>1, SendKeepsOrder DEF OrderOK, sendVars
  <1>7. CASE TickAnswered \/ ProcessAnswered
    <2>1. PICK o \in {"tick", "process"} : End(o) /\ UNCHANGED sequence
      BY <1>7 DEF TickAnswered, ProcessAnswered
    <2> QED
      BY <1>2, <2>1 DEF End, SendTypes, OrderOK, Req, Ops
  <1>8. CASE CloseContent
    <2>1. UNCHANGED sendVars \/ Send("close", fullText)
      BY <1>8 DEF CloseContent, Request
    <2> QED
      BY <1>2, <1>3, <2>1, SendKeepsOrder DEF OrderOK, sendVars
  <1>9. CASE CloseContentAnswered \/ CloseTokenFails \/ CloseFullAnswered
    BY <1>2, <1>3, <1>9, SendKeepsOrder
    DEF CloseContentAnswered, CloseTokenFails, CloseFullAnswered
  <1>10. CASE CloseSettings
    BY <1>2, <1>3, <1>10, SendKeepsOrder DEF CloseSettings, Request
  <1>11. CASE CloseSettingsAnswered
    <2>1. Send("close", fullText) \/ (End("close") /\ UNCHANGED sequence)
      BY <1>11, Zenon DEF CloseSettingsAnswered
    <2> QED
      BY <1>2, <1>3, <2>1, SendKeepsOrder
  <1>12. CASE UNCHANGED sendVars
    BY <1>2, <1>12 DEF OrderOK, sendVars
  <1>13. \A o \in Ops : ~TokenAnswered(o)
    BY <1>2 DEF TokenAnswered, OrderOK
  <1>14. \/ Tick \/ ProcessTimer \/ TickAnswered \/ ProcessAnswered \/ CloseContent
         \/ CloseContentAnswered \/ CloseTokenFails \/ CloseFullAnswered
         \/ CloseSettings \/ CloseSettingsAnswered \/ UNCHANGED sendVars
    BY <1>3, <1>13, ZenonT(30)
    DEF Next, StartStep, CloseStep, vars, Append, TextStart, UpdateProcess, Close, LateFinal, StartToken,
        CreateAnswered, ReplyAnswered, FallbackAnswered
  <1> QED
    BY <1>5, <1>6, <1>7, <1>8, <1>9, <1>10, <1>11, <1>12, <1>14

LEMMA NextClose == TypeInv /\ LateOK /\ ~renewed /\ [Next]_vars => CloseOK' \/ renewed'
  <1> SUFFICES ASSUME TypeInv, LateOK, ~renewed, ~renewed', [Next]_vars PROVE CloseOK'
    OBVIOUS
  <1>1. /\ op \in [Ops -> {"none", "token", "put"}]
        /\ CloseOK /\ op["close"] # "token"
    BY DEF TypeInv, TypeOK, SendTypes, LateOK, OrderOK, Ops
  <1> USE <1>1 DEF CloseOK, Starting, Ops
  <1>2. CASE EnsureStarted /\ ~closed /\ UNCHANGED <<op, closePc>>
    BY <1>2 DEF closed
  <1>3. CASE Close
    BY <1>3 DEF Close, startVars, sendVars, closed
  <1>4. CASE StartToken \/ CreateAnswered \/ ReplyAnswered
    BY <1>4 DEF StartToken, CreateAnswered, ReplyAnswered, sendVars, closeVars
  <1>5. CASE (Tick \/ ProcessTimer \/ TickAnswered \/ ProcessAnswered)
    BY <1>5
    DEF Tick, ProcessTimer, TickAnswered, ProcessAnswered, Request, Send, End, startVars, sendVars,
        closeVars
  <1>6. CASE CloseContent
    BY <1>6 DEF CloseContent, FallBack, Request, Send, startVars, sendVars
  <1>7. CASE CloseContentAnswered
    BY <1>7 DEF CloseContentAnswered, End, startVars
  <1>8. CASE CloseSettings
    BY <1>8 DEF CloseSettings, Request, Send, startVars, closeVars
  <1>9. CASE CloseSettingsAnswered
    BY <1>9 DEF CloseSettingsAnswered, FallBack, Send, End, startVars
  <1>10. CASE CloseFullAnswered
    BY <1>10 DEF CloseFullAnswered, FallBack, End, startVars
  <1>11. CASE FallbackAnswered
    BY <1>11 DEF FallbackAnswered, startVars, sendVars
  <1>12. CASE UNCHANGED <<startPc, op, closePc>>
    BY <1>12
  <1>13. \A o \in Ops : ~TokenAnswered(o)
    BY DEF TokenAnswered, LateOK, OrderOK
  <1>14. \/ EnsureStarted /\ ~closed /\ UNCHANGED <<op, closePc>>
         \/ Close \/ StartToken \/ CreateAnswered \/ ReplyAnswered
         \/ Tick \/ ProcessTimer \/ TickAnswered \/ ProcessAnswered
         \/ CloseContent \/ CloseContentAnswered \/ CloseSettings \/ CloseSettingsAnswered
         \/ CloseFullAnswered \/ FallbackAnswered
         \/ UNCHANGED <<startPc, op, closePc>>
    <2>1. "tick" \in Ops /\ "process" \in Ops /\ "close" \in Ops
      BY DEF Ops
    <2>2. ~CloseTokenFails
      BY DEF CloseTokenFails
    <2> QED
      BY <1>13, <2>1, <2>2, ZenonT(30)
      DEF Next, StartStep, CloseStep, vars, startVars, sendVars, closeVars, Append, TextStart,
          UpdateProcess, LateFinal
  <1> QED
    BY <1>2, <1>3, <1>4, <1>5, <1>6, <1>7, <1>8, <1>9, <1>10, <1>11, <1>12, <1>14

(* The step lemma of FinalOK: an answer changes only the card of its         *)
(* request, and only if that has seen lower sequences.                       *)
LEMMA NextFinal ==
  ASSUME TypeInv, LateOK, ~renewed, ~renewed', OrderOK', [Next]_vars
  PROVE  /\ FinalOK'
         /\ \A c \in Cards : server[c].status # "running" => server'[c] = server[c]
  <1>1. /\ SendTypes /\ OrderOK /\ CloseOK /\ FinalOK
        /\ server \in [Cards -> Card]
        /\ \A o \in Ops : op[o] # "token"
    BY DEF TypeInv, TypeOK, LateOK, OrderOK
  <1> USE <1>1 DEF FinalOK, SendTypes, Req
  <1>2. CASE CreateAnswered
    BY <1>2 DEF CreateAnswered, CloseOK, Starting, sendVars, closeVars, Card
  <1>3. CASE TickAnswered
    BY <1>3 DEF TickAnswered, Outcome, End, closeVars, Card, Ops
  <1>4. CASE ProcessAnswered
    BY <1>4 DEF ProcessAnswered, Outcome, End, closeVars, Card, Ops
  <1>5. CASE CloseContentAnswered
    BY <1>5 DEF CloseContentAnswered, End, Card, Ops
  <1>6. CASE CloseSettingsAnswered
    BY <1>6 DEF CloseSettingsAnswered, End, Send, Card, Ops
  <1>7. CASE CloseFullAnswered
    BY <1>7 DEF CloseFullAnswered, FallBack, End, CloseOK, OrderOK, Card, Ops
  <1>8. CASE Tick \/ ProcessTimer \/ CloseContent \/ CloseSettings \/ Close
    BY <1>8
    DEF Tick, ProcessTimer, CloseContent, CloseSettings, Close, MayPutProcess, closed, closeVars,
        sendVars
  <1>9. CASE FallbackAnswered
    BY <1>9 DEF FallbackAnswered, sendVars
  <1>10. CASE UNCHANGED <<server, op, req, closePc>>
    BY <1>10
  <1>11. \/ CreateAnswered \/ TickAnswered \/ ProcessAnswered \/ CloseContentAnswered
         \/ CloseSettingsAnswered \/ CloseFullAnswered \/ Tick \/ ProcessTimer \/ CloseContent
         \/ CloseSettings \/ Close \/ FallbackAnswered
         \/ UNCHANGED <<server, op, req, closePc>>
    <2>1. "tick" \in Ops /\ "process" \in Ops /\ "close" \in Ops
      BY DEF Ops
    <2>2. ~CloseTokenFails /\ \A o \in Ops : ~TokenAnswered(o)
      BY <2>1 DEF CloseTokenFails, TokenAnswered
    <2> QED
      BY <2>1, <2>2, ZenonT(30)
      DEF Next, StartStep, CloseStep, vars, sendVars, closeVars, Append, TextStart, UpdateProcess, LateFinal,
          StartToken, ReplyAnswered
  <1> QED
    BY <1>2, <1>3, <1>4, <1>5, <1>6, <1>7, <1>8, <1>9, <1>10, <1>11

LEMMA NextIInv == IInv /\ [Next]_vars => IInv'
  <1> SUFFICES ASSUME IInv, [Next]_vars PROVE IInv'
    OBVIOUS
  <1>1. TypeInv /\ LateOK
    BY DEF IInv
  <1>2. TypeInv'
    BY <1>1, NextTypeInv
  <1>3. ASSUME ~renewed' PROVE OrderOK' /\ CloseOK' /\ FinalOK'
    <2>1. ~renewed
      BY <1>3, RenewedStays
    <2>2. OrderOK' /\ CloseOK'
      BY <1>1, <1>3, <2>1, NextOrder, NextClose
    <2> QED
      BY <1>1, <1>3, <2>1, <2>2, NextFinal
  <1> QED
    BY <1>2, <1>3 DEF IInv, LateOK

(* While no request had to wait for a token, nothing changes a card that     *)
(* shows its final status: the updates which close overtook come too late,   *)
(* and none is sent after the last one.                                      *)
THEOREM FinishedCardStands == Spec => FinalCardStands
  <1>1. Init => IInv
    <2>1. Init => LateOK
      BY DEF Init, LateOK, OrderOK, CloseOK, FinalOK, Ops
    <2> QED
      BY <2>1, InitTypeInv DEF IInv
  <1>2. IInv /\ [Next]_vars =>
          (~renewed => \A c \in Cards : server[c].status # "running" => server'[c] = server[c])
    <2> SUFFICES ASSUME IInv, [Next]_vars, ~renewed,
                        NEW c \in Cards, server[c].status # "running"
                 PROVE  server'[c] = server[c]
      OBVIOUS
    <2>1. CASE ~renewed'
      BY <2>1, NextIInv, NextFinal DEF IInv, LateOK
    <2>2. CASE renewed'
      <3>1. CASE UNCHANGED server
        BY <3>1
      <3> QED
        BY <2>2, <3>1, RenewedStays
    <2> QED
      BY <2>1, <2>2
  <1> QED
    BY <1>1, <1>2, NextIInv, PTL DEF Spec, FinalCardStands

-----------------------------------------------------------------------------
(* The process block.                                                        *)

(* The card that start works on is newer than those it gave up, and a block  *)
(* on its way goes to a card that exists.                                    *)
StartOK ==
    /\ startPc = "none" => cardId = None
    /\ startPc \in {"token", "create"} => cardId < attempt
    /\ startPc = "reply" => cardId = attempt
    /\ startPc \in {"reply", "done"} => cardId # None
    /\ startPc = "done" => cardId \in visible
    /\ op["process"] = "put" => req["process"].card <= cardId

(* The block is due on the card, and no timer will send it.                  *)
Due == startPc \in {"reply", "done"} /\ ~closed /\ fullText = 0 /\ ~missed /\ ~processTimer
Shown == server[cardId].process = processMarkdown

(* A card is created with the block as it is, unless that changes meanwhile; *)
(* then the block is on the card, or on its way to it, or was lost.  An      *)
(* update of a card that was given up does not stand in for it.              *)
BlockOK ==
    /\ startPc = "create" /\ ~missed /\ ~closed => built = processMarkdown
    /\ Due /\ op["process"] = "none" => processLost \/ Shown
    /\ Due /\ op["process"] = "put" =>
          IF req["process"].card = cardId THEN req["process"].text = processMarkdown ELSE Shown

LEMMA NextStartOK == TypeInv /\ StartOK /\ [Next]_vars => StartOK'
  <1> SUFFICES ASSUME TypeInv, StartOK, [Next]_vars PROVE StartOK'
    OBVIOUS
  <1>1. /\ op \in [Ops -> {"none", "token", "put"}] /\ req \in [Ops -> Req]
        /\ cardId \in Cards \cup {None} /\ attempt \in Nat /\ (Starting => attempt # 0)
        /\ \A n \in Cards \cup {None} : n \in Nat
    BY BoundsFacts DEF TypeInv, TypeOK, StartTypes, SendTypes, DetailsOK, Cards, None
  <1> USE <1>1 DEF StartOK, Ops
  <1>2. CASE EnsureStarted /\ UNCHANGED <<op, req>>
    BY <1>2 DEF EnsureStarted, startVars, None
  <1>3. CASE StartToken
    BY <1>3 DEF StartToken, Retry, sendVars
  <1>4. CASE CreateAnswered
    <2>1. UNCHANGED <<op, req>> /\ startPc = "create"
      BY <1>4 DEF CreateAnswered, sendVars
    <2>2. CASE startPc' = "reply" /\ cardId' = attempt /\ UNCHANGED attempt
      BY <2>1, <2>2 DEF Starting, None, Req
    <2>3. CASE Retry /\ UNCHANGED cardId
      BY <2>1, <2>3 DEF Retry
    <2> QED BY <1>4, <2>2, <2>3 DEF CreateAnswered
  <1>5. CASE ReplyAnswered
    <2>1. UNCHANGED <<op, req, cardId>> /\ startPc = "reply"
      BY <1>5 DEF ReplyAnswered, sendVars
    <2>2. CASE startPc' = "done" /\ visible' = visible \cup {cardId}
      BY <2>1, <2>2
    <2>3. CASE Retry
      BY <2>1, <2>3 DEF Retry
    <2> QED BY <1>5, <2>2, <2>3 DEF ReplyAnswered
  <1>6. CASE UNCHANGED startVars
    <2>1. op'["process"] = "put" =>
             \/ op["process"] = "put" /\ req'["process"] = req["process"]
             \/ req'["process"].card = cardId
      <3>1. CASE ProcessTimer
        BY <3>1 DEF ProcessTimer, Request, Send, sendVars
      <3>2. CASE TokenAnswered("process")
        BY <3>2 DEF TokenAnswered, Send, End
      <3>3. CASE ProcessAnswered
        BY <3>3 DEF ProcessAnswered, End
      <3>4. CASE UNCHANGED <<op["process"], req["process"]>>
        BY <3>4
      <3>5. CASE Tick \/ TickAnswered \/ TokenAnswered("tick") \/ CloseStep
        BY <3>5 DEF Tick, TickAnswered, TokenAnswered, CloseStep, CloseContent, CloseContentAnswered, CloseSettings,
                    CloseSettingsAnswered, CloseTokenFails, CloseFullAnswered, FallbackAnswered, Request, Send, End,
                    sendVars
      <3>6. \/ ProcessTimer \/ TokenAnswered("process") \/ ProcessAnswered
            \/ Tick \/ TickAnswered \/ TokenAnswered("tick") \/ CloseStep
            \/ UNCHANGED <<op, req>>
        BY ZenonT(30) DEF Next, StartStep, vars, sendVars, Append, TextStart, UpdateProcess, Close, LateFinal, StartToken,
                          CreateAnswered, ReplyAnswered
      <3> QED BY <3>1, <3>2, <3>3, <3>4, <3>5, <3>6
    <2> QED BY <1>6, <2>1 DEF startVars
  <1>7. \/ EnsureStarted /\ UNCHANGED <<op, req>>
        \/ StartToken \/ CreateAnswered \/ ReplyAnswered \/ UNCHANGED startVars
    BY ZenonT(30)
    DEF Next, StartStep, CloseStep, vars, sendVars,
        Append, TextStart, UpdateProcess, Close, LateFinal, Tick, TickAnswered, TokenAnswered, ProcessTimer,
        ProcessAnswered, CloseContent, CloseContentAnswered, CloseTokenFails, CloseSettings,
        CloseSettingsAnswered, CloseFullAnswered, FallbackAnswered
  <1> QED BY <1>2, <1>3, <1>4, <1>5, <1>6, <1>7

(* Only close has requests of its own.                                       *)
ClosingOK == op["close"] # "none" => closed

LEMMA CloseStays ==
  ASSUME ClosingOK, CloseStep
  PROVE  closed /\ closed'
  <1> USE DEF ClosingOK, closed
  <1>1. CASE CloseContent
    BY <1>1 DEF CloseContent, FallBack
  <1>2. CASE CloseContentAnswered
    BY <1>2 DEF CloseContentAnswered
  <1>3. CASE CloseSettings
    BY <1>3 DEF CloseSettings, closeVars
  <1>4. CASE CloseSettingsAnswered
    BY <1>4 DEF CloseSettingsAnswered, FallBack
  <1>5. CASE CloseTokenFails
    BY <1>5 DEF CloseTokenFails, FallBack
  <1>6. CASE CloseFullAnswered
    BY <1>6 DEF CloseFullAnswered, FallBack
  <1>7. CASE FallbackAnswered
    BY <1>7 DEF FallbackAnswered
  <1>8. CASE TokenAnswered("close")
    BY <1>8 DEF TokenAnswered, closeVars
  <1> QED BY <1>1, <1>2, <1>3, <1>4, <1>5, <1>6, <1>7, <1>8 DEF CloseStep

LEMMA NextClosingOK == TypeInv /\ ClosingOK /\ [Next]_vars => ClosingOK'
  <1> SUFFICES ASSUME TypeInv, ClosingOK, [Next]_vars PROVE ClosingOK'
    OBVIOUS
  <1>1. op \in [Ops -> {"none", "token", "put"}]
    BY DEF TypeInv, TypeOK, SendTypes
  <1>2. CASE CloseStep
    BY <1>2, CloseStays DEF ClosingOK
  <1>3. CASE Tick \/ TickAnswered \/ TokenAnswered("tick") \/ ProcessTimer \/ ProcessAnswered \/ TokenAnswered("process")
    BY <1>1, <1>3 DEF Tick, TickAnswered, TokenAnswered, ProcessTimer, ProcessAnswered, Request, Send, End, Ops,
                      sendVars, closeVars, ClosingOK, closed
  <1>4. CASE Close
    BY <1>4 DEF Close, ClosingOK, closed
  <1>5. CASE UNCHANGED <<op, closePc>>
    BY <1>5 DEF ClosingOK, closed
  <1>6. \/ CloseStep \/ Close \/ UNCHANGED <<op, closePc>>
        \/ Tick \/ TickAnswered \/ TokenAnswered("tick") \/ ProcessTimer \/ ProcessAnswered \/ TokenAnswered("process")
    BY ZenonT(30) DEF Next, StartStep, vars, sendVars, closeVars, Append, TextStart, UpdateProcess, LateFinal, StartToken,
                      CreateAnswered, ReplyAnswered
  <1> QED BY <1>2, <1>3, <1>4, <1>5, <1>6

LEMMA NextBlockOK == TypeInv /\ StartOK /\ ClosingOK /\ BlockOK /\ [Next]_vars => BlockOK'
  <1> SUFFICES ASSUME TypeInv, StartOK, ClosingOK, BlockOK, [Next]_vars PROVE BlockOK'
    OBVIOUS
  <1>1. /\ op \in [Ops -> {"none", "token", "put"}] /\ req \in [Ops -> Req] /\ server \in [Cards -> Card]
        /\ cardId \in Cards \cup {None} /\ attempt \in Nat /\ (Starting => attempt \in Cards)
        /\ \A n \in Cards \cup {None} : n \in Nat
        /\ fullText \in Nat
    BY BoundsFacts DEF TypeInv, TypeOK, StartTypes, TextTypes, SendTypes, DetailsOK, Cards, None
  <1> USE <1>1 DEF Ops
  <1>2. CASE Append
    <2>1. fullText' # 0 /\ (startPc' = "create" => startPc = "create") /\ UNCHANGED <<built, processMarkdown, missed, closePc>>
      BY <1>2 DEF Append, EnsureStarted, startVars, processVars, closeVars
    <2> QED BY <2>1 DEF BlockOK, Due, closed
  <1>3. CASE TextStart
    BY <1>3 DEF TextStart, EnsureStarted, startVars, textVars, processVars, sendVars, closeVars, BlockOK, Due, Shown, closed
  <1>4. CASE UpdateProcess
    <2>1. /\ startPc \in {"create", "reply", "done", "failed"} => UNCHANGED startPc
          /\ startPc \in {"none", "token"} => startPc' \in {"none", "token"}
          /\ UNCHANGED <<fullText, closePc>>
          /\ processTimer' = (processTimer \/ (~failed /\ cardId # None /\ fullText = 0))
          /\ missed' = (missed \/ startPc = "create")
      BY <1>4 DEF UpdateProcess, EnsureStarted, startVars, textVars, closeVars
    <2>2. startPc \in {"none", "token", "create", "reply", "done", "failed"}
      BY DEF TypeInv, TypeOK, StartTypes
    <2>3. startPc' = "create" => missed'
      BY <2>1, <2>2
    <2>4. ~Due'
      <3>1. CASE startPc \in {"reply", "done"} /\ fullText = 0
        BY <2>1, <3>1 DEF StartOK, Due, failed
      <3> QED BY <2>1, <2>2, <3>1 DEF Due
    <2> QED BY <2>3, <2>4 DEF BlockOK
  <1>5. CASE Close
    <2>1. closed'
      BY <1>5 DEF Close, closed
    <2> QED BY <2>1 DEF BlockOK, Due
  <1>6. CASE StartToken
    <2>1. startPc' \in {"create", "token", "failed"} /\ (startPc' = "create" => built' = processMarkdown')
      BY <1>6 DEF StartToken, Retry
    <2> QED BY <2>1 DEF BlockOK, Due
  <1>7. CASE CreateAnswered
    <2>1. UNCHANGED <<textVars, processVars, op, req, closePc>> /\ startPc = "create"
      BY <1>7 DEF CreateAnswered, sendVars, closeVars
    <2>2. CASE /\ startPc' = "reply" /\ cardId' = attempt
               /\ server' = [server EXCEPT ![attempt].process = built]
      <3>1. attempt \in Cards
        BY <2>1 DEF Starting
      <3>2. server'[cardId'].process = built
        BY <2>2, <3>1 DEF Card
      <3>3. op["process"] = "put" => req["process"].card # cardId'
        BY <2>1, <2>2 DEF StartOK, Req
      <3>4. Due' => built = processMarkdown
        BY <2>1, <2>2 DEF BlockOK, Due, closed, textVars, processVars
      <3> QED BY <2>1, <2>2, <3>2, <3>3, <3>4 DEF BlockOK, Shown, processVars
    <2>3. CASE Retry
      BY <2>1, <2>3 DEF Retry, BlockOK, Due
    <2> QED BY <1>7, <2>2, <2>3 DEF CreateAnswered
  <1>8. CASE ReplyAnswered
    <2>1. /\ UNCHANGED <<fullText, processVars, op, req, closePc, server, cardId>> /\ startPc = "reply"
          /\ startPc' \in {"done", "token", "failed"}
      BY <1>8 DEF ReplyAnswered, Retry, sendVars, closeVars
    <2> QED BY <2>1 DEF BlockOK, Due, Shown, closed, processVars
  <1>9. CASE ProcessTimer
    <2>1. UNCHANGED <<startVars, fullText, processMarkdown, missed, processLost, closePc, server>>
      BY <1>9 DEF ProcessTimer, textVars, closeVars
    <2>2. CASE ~MayPutProcess
      <3>1. ~Due'
        <4>1. Due' => startPc \in {"reply", "done"} /\ ~closed /\ fullText = 0
          BY <2>1 DEF Due, startVars, closed
        <4> QED BY <2>2, <4>1 DEF MayPutProcess, failed, StartOK
      <3> QED BY <2>1, <3>1 DEF BlockOK, startVars, closed
    <2>3. CASE processTimer'
      BY <2>1, <2>3 DEF BlockOK, Due, startVars, closed
    <2>4. CASE Request("process", processMarkdown)
      <3>1. \/ op'["process"] = "token"
            \/ op'["process"] = "put" /\ req'["process"].card = cardId /\ req'["process"].text = processMarkdown
        BY <2>4 DEF Request, Send
      <3> QED BY <2>1, <3>1 DEF BlockOK, startVars, closed
    <2> QED BY <1>9, <2>2, <2>3, <2>4 DEF ProcessTimer, PutLater
  <1>10. CASE TokenAnswered("process")
    <2>1. UNCHANGED <<startVars, fullText, processMarkdown, processTimer, missed, closePc, server>>
      BY <1>10 DEF TokenAnswered, textVars, closeVars
    <2>2. CASE Send("process", processMarkdown)
      <3>1. op'["process"] = "put" /\ req'["process"].card = cardId /\ req'["process"].text = processMarkdown
        BY <2>2 DEF Send
      <3> QED BY <2>1, <3>1 DEF BlockOK, startVars, closed
    <2>3. CASE End("process") /\ processLost' = (processLost \/ ~closed)
      <3>1. op'["process"] = "none" /\ (~closed => processLost')
        BY <2>3 DEF End
      <3> QED BY <2>1, <3>1 DEF BlockOK, Due, startVars, closed
    <2> QED BY <1>10, <2>2, <2>3 DEF TokenAnswered
  <1>11. CASE ProcessAnswered
    <2> PICK r \in Req : r = req["process"]
      OBVIOUS
    <2>1. /\ UNCHANGED <<startVars, fullText, processMarkdown, processTimer, missed, closePc>>
          /\ op["process"] = "put" /\ op'["process"] = "none"
      BY <1>11 DEF ProcessAnswered, textVars, closeVars, End
    <2>2. PICK applied \in BOOLEAN :
             /\ processLost' = (~applied /\ ~closed)
             /\ server' = IF applied
                          THEN [server EXCEPT ![r.card].seq = r.seq, ![r.card].process = r.text]
                          ELSE server
      BY <1>11 DEF ProcessAnswered
    <2>3. ASSUME Due' PROVE processLost' \/ Shown'
      <3>1. Due /\ ~closed /\ cardId \in Cards
        BY <2>1, <2>3 DEF Due, startVars, closed, StartOK
      <3>2. CASE ~applied
        BY <2>2, <3>1, <3>2
      <3>3. CASE applied /\ r.card = cardId
        <4>1. r.text = processMarkdown
          BY <2>1, <3>1, <3>3 DEF BlockOK
        <4>2. server'[cardId].process = r.text
          BY <2>2, <3>1, <3>3 DEF Card
        <4> QED BY <2>1, <4>1, <4>2 DEF Shown, startVars
      <3>4. CASE applied /\ r.card # cardId
        <4>1. Shown
          BY <2>1, <3>1, <3>4 DEF BlockOK
        <4>2. server'[cardId] = server[cardId]
          BY <2>2, <3>1, <3>4 DEF Card
        <4> QED BY <2>1, <4>1, <4>2 DEF Shown, startVars
      <3> QED BY <2>2, <3>2, <3>3, <3>4
    <2> QED BY <2>1, <2>3 DEF BlockOK, startVars, closed
  <1>12. CASE TickAnswered
    <2> PICK r \in Req : r = req["tick"]
      OBVIOUS
    <2>1. /\ UNCHANGED <<startVars, fullText, processVars, closePc>>
          /\ op'["process"] = op["process"] /\ req'["process"] = req["process"]
      BY <1>12 DEF TickAnswered, textVars, closeVars, End
    <2>2. \/ server' = [server EXCEPT ![r.card].seq = r.seq, ![r.card].text = r.text]
          \/ server' = server
      BY <1>12, Zenon DEF TickAnswered
    <2>3. \A c \in Cards : server'[c].process = server[c].process
      BY <2>2 DEF Card
    <2>4. Due => cardId \in Cards
      BY DEF Due, StartOK
    <2> QED BY <2>1, <2>3, <2>4 DEF BlockOK, Due, Shown, startVars, processVars, closed
  <1>13. CASE CloseStep
    BY <1>13, CloseStays DEF BlockOK, Due
  <1>14. CASE UNCHANGED <<startVars, fullText, processVars, closePc, server, op["process"], req["process"]>>
    BY <1>14 DEF BlockOK, Due, Shown, startVars, processVars, closed
  <1>15. CASE Tick \/ TokenAnswered("tick")
    <2>1. UNCHANGED <<startVars, fullText, processMarkdown, processTimer, missed, closePc, server>>
      BY <1>15 DEF Tick, TokenAnswered, processVars, textVars, closeVars
    <2>2. UNCHANGED processLost
      <3>1. processLost \in BOOLEAN
        BY DEF TypeInv, TypeOK, FlagTypes
      <3> QED BY <1>15, <3>1 DEF Tick, TokenAnswered, processVars
    <2>3. op'["process"] = op["process"] /\ req'["process"] = req["process"]
      BY <1>15 DEF Tick, TokenAnswered, Request, Send, End
    <2> QED BY <1>14, <2>1, <2>2, <2>3 DEF processVars
  <1>16. CASE UNCHANGED vars
    BY <1>14, <1>16 DEF vars, textVars, sendVars, closeVars
  <1>17. CASE LateFinal
    BY <1>17 DEF LateFinal, BlockOK, Due, closed, closeVars
  <1> QED BY <1>2, <1>3, <1>4, <1>5, <1>6, <1>7, <1>8, <1>9, <1>10, <1>11, <1>12, <1>13, <1>15, <1>16, <1>17
          DEF Next, StartStep

(* The last change of the process block reaches the card, although timers    *)
(* and requests overlap and start may change to another card.                *)
THEOREM LatestProcessIsShown == Spec => []LatestProcessShown
  <1> DEFINE BInv == TypeInv /\ StartOK /\ ClosingOK /\ BlockOK
  <1>1. Init => BInv
    <2>1. Init => StartOK /\ ClosingOK /\ BlockOK
      BY DEF Init, StartOK, ClosingOK, BlockOK, Due, Ops
    <2> QED BY <2>1, InitTypeInv
  <1>2. BInv /\ [Next]_vars => BInv'
    BY NextTypeInv, NextStartOK, NextClosingOK, NextBlockOK
  <1>3. BInv => LatestProcessShown
    BY DEF BlockOK, Due, Shown, LatestProcessShown, ProcessSettled
  <1> QED BY <1>1, <1>2, <1>3, PTL DEF Spec

-----------------------------------------------------------------------------
(* The answer.                                                               *)

(* close works on the card that was sent as a reply, and its request is the  *)
(* latest; what it ends with is the whole text, unless that was lost.        *)
AnswerOK ==
    /\ closePc \in {"content", "settings", "full"} => startPc = "done"
    /\ \A c \in Cards : server[c].seq <= sequence
    /\ op["close"] = "put" => req["close"].card = cardId /\ server[cardId].seq < req["close"].seq
    /\ closed => answer <= fullText
    /\ closePc = "full" => answer <= req["close"].text
    /\ closePc = "fallback" => answer <= fallback
    /\ closed => status # "running"
    /\ closePc = "over" /\ lost = "none" => AnswerIsThere

(* A step that leaves close and its request alone, and no more of the        *)
(* server than an earlier request may change.                                *)
LEMMA AnswerKept ==
  ASSUME TypeInv, StartOK, AnswerOK, FinalOK, StartOK', [Next]_vars,
         UNCHANGED <<closePc, fallback, answer, lost, op["close"], req["close"]>>,
         closed => UNCHANGED status /\ answer <= fullText',
         closePc \in {"content", "settings", "full"} => UNCHANGED <<startPc, cardId>>,
         op["close"] = "put" => closePc \in {"content", "settings", "full"},
         visible \subseteq visible', sequence <= sequence', sequence' \in Nat,
         \A c \in Cards : /\ server'[c].seq <= sequence'
                          /\ op["close"] = "put" /\ c = cardId => server'[c].seq < req["close"].seq
                          /\ server[c].status # "running" => server'[c] = server[c]
  PROVE  AnswerOK'
  <1>1. closePc = "over" /\ lost = "none" => AnswerIsThere'
    <2>1. ASSUME closePc = "over", lost = "none" PROVE AnswerIsThere'
      <3>1. AnswerIsThere /\ UNCHANGED status /\ status # "running"
        BY <2>1 DEF AnswerOK, closed
      <3>2. visible \subseteq Cards
        BY DEF TypeInv, TypeOK, StartTypes
      <3> QED BY <3>1, <3>2 DEF AnswerIsThere
    <2> QED BY <2>1
  <1>2. closePc \in {"content", "settings", "full"} => cardId \in Cards
    BY DEF TypeInv, TypeOK, StartTypes, AnswerOK, StartOK
  <1>3. closed => UNCHANGED status /\ answer <= fullText'
    OBVIOUS
  <1>4. op["close"] = "put" => req["close"].card = cardId' /\ server'[cardId'].seq < req["close"].seq
    BY <1>2 DEF AnswerOK
  <1> QED BY <1>1, <1>3, <1>4 DEF AnswerOK, closed

LEMMA NextAnswerOK ==
  ASSUME TypeInv, TypeInv', StartOK, StartOK', OrderOK, CloseOK, FinalOK, AnswerOK,
         ~renewed, ~renewed', [Next]_vars,
         \A c \in Cards : server[c].status # "running" => server'[c] = server[c]
  PROVE  AnswerOK'
  <1>1. /\ op \in [Ops -> {"none", "token", "put"}] /\ req \in [Ops -> Req] /\ server \in [Cards -> Card]
        /\ sequence \in Nat /\ sequence' \in Nat /\ cardId \in Cards \cup {None}
        /\ startPc \in {"none", "token", "create", "reply", "done", "failed"}
        /\ fullText \in Nat /\ answer \in Nat /\ fallback \in Nat
    BY BoundsFacts DEF TypeInv, TypeOK, StartTypes, TextTypes, SendTypes, CloseTypes
  <1>2. \A o \in Ops : req[o].seq \in Nat /\ op[o] # "token"
    BY <1>1 DEF Req, OrderOK
  <1>3. \A c \in Cards : server[c].seq \in Nat
    BY <1>1 DEF Card
  <1>4. "tick" \in Ops /\ "process" \in Ops /\ "close" \in Ops
    BY DEF Ops
  <1>5. op["close"] = "put" => closePc \in {"content", "settings", "full"}
    BY DEF CloseOK
  <1>6. \A c \in Cards : op["close"] = "put" /\ c = cardId => server[c].seq < req["close"].seq
    BY DEF AnswerOK
  <1>7. CloseContent \/ CloseContentAnswered \/ CloseSettings \/ CloseSettingsAnswered \/ CloseFullAnswered
         \/ FallbackAnswered => status' # "running"
    <2>1. ASSUME CloseStep PROVE closed
      <3>1. ClosingOK
        BY <1>1, <1>2, <1>4, <1>5 DEF ClosingOK, closed
      <3> QED BY <2>1, <3>1, CloseStays
    <2>2. closed => status # "running"
      BY DEF AnswerOK
    <2> QED BY <2>1, <2>2 DEF CloseStep, CloseContent, CloseContentAnswered, CloseSettings, CloseSettingsAnswered,
                              CloseFullAnswered, FallbackAnswered, closeVars
  <1>8. CASE Append \/ TextStart \/ UpdateProcess \/ StartToken \/ ReplyAnswered \/ UNCHANGED vars
    <2>1. /\ UNCHANGED <<closePc, fallback, answer, lost, op, req, sequence, server, status>>
          /\ closed => UNCHANGED fullText
          /\ closed => UNCHANGED <<startPc, cardId>> \/ Starting
          /\ visible \subseteq visible'
      <3>1. CASE Append \/ TextStart \/ UpdateProcess
        BY <3>1 DEF Append, TextStart, UpdateProcess, EnsureStarted, startVars, textVars, sendVars, closeVars
      <3>2. CASE StartToken \/ ReplyAnswered
        BY <3>2 DEF StartToken, ReplyAnswered, textVars, sendVars, closeVars, Starting
      <3>3. CASE UNCHANGED vars
        BY <3>3 DEF vars, startVars, textVars, sendVars, closeVars
      <3> QED BY <1>8, <3>1, <3>2, <3>3
    <2>2. closePc \in {"content", "settings", "full"} => ~Starting /\ closed
      BY DEF AnswerOK, Starting, closed
    <2>3. \A c \in Cards : server'[c].seq <= sequence' /\ (op["close"] = "put" /\ c = cardId => server'[c].seq < req["close"].seq)
      BY <1>6, <2>1 DEF AnswerOK
    <2>4. closed => answer <= fullText'
      BY <2>1 DEF AnswerOK
    <2> QED BY <1>1, <1>5, <2>1, <2>2, <2>3, <2>4, AnswerKept
  <1>9. CASE CreateAnswered
    <2>1. UNCHANGED <<closePc, fallback, answer, lost, op, req, sequence, status, fullText, visible>> /\ startPc = "create"
      BY <1>9 DEF CreateAnswered, textVars, sendVars, closeVars
    <2>2. server' = [server EXCEPT ![attempt].process = built] \/ server' = server
      BY <1>9 DEF CreateAnswered
    <2>3. \A c \in Cards : server'[c].seq = server[c].seq
      BY <1>1, <2>2 DEF Card
    <2>4. closePc \notin {"content", "settings", "full"}
      BY <2>1 DEF AnswerOK
    <2>5. \A c \in Cards : server'[c].seq <= sequence' /\ (op["close"] = "put" /\ c = cardId => server'[c].seq < req["close"].seq)
      BY <1>6, <2>1, <2>3 DEF AnswerOK
    <2>6. closed => answer <= fullText'
      BY <2>1 DEF AnswerOK
    <2> QED BY <1>1, <1>5, <2>1, <2>4, <2>5, <2>6, AnswerKept
  <1>10. CASE Tick \/ ProcessTimer
    <2>1. /\ UNCHANGED <<startVars, closePc, fallback, answer, lost, status, fullText, server>>
          /\ sequence' = sequence \/ sequence' = sequence + 1
          /\ UNCHANGED <<op["close"], req["close"]>>
      <3>1. UNCHANGED <<startVars, closePc, fallback, answer, lost, status, fullText, server>>
        BY <1>10 DEF Tick, ProcessTimer, textVars, closeVars
      <3>2. \/ UNCHANGED <<op, req, sequence>>
            \/ Send("tick", fullText) \/ Send("process", processMarkdown)
        BY <1>10 DEF Tick, ProcessTimer, Request, sendVars
      <3> QED BY <1>1, <1>4, <3>1, <3>2 DEF Send
    <2>2. \A c \in Cards : server'[c].seq <= sequence' /\ (op["close"] = "put" /\ c = cardId => server'[c].seq < req["close"].seq)
      BY <1>1, <1>3, <1>6, <2>1 DEF AnswerOK
    <2>3. UNCHANGED <<startPc, cardId, visible>> /\ sequence <= sequence'
      BY <1>1, <2>1 DEF startVars
    <2>4. closed => answer <= fullText'
      BY <2>1 DEF AnswerOK
    <2> QED BY <1>1, <1>5, <2>1, <2>2, <2>3, <2>4, AnswerKept
  <1>11. CASE TickAnswered \/ ProcessAnswered
    <2>1. /\ UNCHANGED <<startVars, closePc, fallback, answer, lost, status, fullText, sequence>>
          /\ UNCHANGED <<op["close"], req["close"]>>
      <3>1. UNCHANGED <<startVars, closePc, fallback, answer, lost, status, fullText, sequence>>
        BY <1>11 DEF TickAnswered, ProcessAnswered, textVars, closeVars
      <3>2. End("tick") \/ End("process")
        BY <1>11 DEF TickAnswered, ProcessAnswered
      <3> QED BY <1>1, <1>4, <3>1, <3>2 DEF End
    <2>2. PICK o \in {"tick", "process"} :
             /\ op[o] = "put"
             /\ \/ server' = server
                \/ server' = [server EXCEPT ![req[o].card].seq = req[o].seq, ![req[o].card].text = req[o].text]
                \/ server' = [server EXCEPT ![req[o].card].seq = req[o].seq, ![req[o].card].process = req[o].text]
      <3>1. CASE TickAnswered
        BY <3>1, Zenon DEF TickAnswered
      <3>2. CASE ProcessAnswered
        BY <3>2, Zenon DEF ProcessAnswered
      <3> QED BY <1>11, <3>1, <3>2
    <2>3. /\ req[o].seq <= sequence
          /\ op["close"] = "put" => req[o].seq < req["close"].seq
      BY <2>2 DEF OrderOK, Ops
    <2>4. \A c \in Cards : server'[c].seq = server[c].seq \/ server'[c].seq = req[o].seq
      BY <1>1, <2>2 DEF Card
    <2>5. \A c \in Cards : server'[c].seq <= sequence' /\ (op["close"] = "put" /\ c = cardId => server'[c].seq < req["close"].seq)
      BY <1>6, <2>1, <2>3, <2>4 DEF AnswerOK
    <2>6. UNCHANGED <<startPc, cardId, visible>> /\ sequence <= sequence'
      BY <1>1, <2>1 DEF startVars
    <2>7. closed => answer <= fullText'
      BY <2>1 DEF AnswerOK
    <2> QED BY <1>1, <1>5, <2>1, <2>5, <2>6, <2>7, AnswerKept
  <1>12. CASE Close
    <2>1. /\ UNCHANGED <<startVars, server, sequence, fallback, lost>> /\ closePc' = "waitStart"
          /\ op'["close"] # "put" /\ closePc # "over"
      BY <1>5, <1>12 DEF Close, sendVars, closed
    <2>2. status' # "running"
      BY <1>12 DEF Close
    <2>3. answer' = fullText' /\ fullText' \in Nat
      BY <1>1, <1>12 DEF Close
    <2> QED BY <2>1, <2>2, <2>3 DEF AnswerOK
  <1>13. CASE CloseContent
    <2>1. /\ UNCHANGED <<startVars, fullText, server, status, answer, lost>> /\ closePc = "waitStart" /\ ~Starting
          /\ op["close"] # "put" /\ answer <= fullText
      BY <1>5, <1>13 DEF CloseContent, textVars, AnswerOK, closed
    <2>2. CASE FallBack /\ UNCHANGED sendVars
      <3>1. (closePc' = "fallback" /\ fallback' = fullText) \/ (closePc' = "over" /\ fullText = 0 /\ UNCHANGED fallback)
        BY <1>1, <2>2 DEF FallBack
      <3>2. closePc' = "over" => AnswerIsThere'
        BY <1>1, <2>1, <3>1 DEF AnswerIsThere
      <3> QED BY <1>13, <1>7, <2>1, <2>2, <3>1, <3>2 DEF AnswerOK, sendVars
    <2>3. CASE ~NoCard /\ closePc' \in {"content", "settings"}
      <3>1. startPc = "done" /\ cardId \in Cards
        BY <1>1, <2>1, <2>3 DEF NoCard, failed, Starting, StartOK
      <3>2. UNCHANGED sendVars \/ Send("close", fullText)
        BY <1>13 DEF CloseContent, Request, FallBack
      <3>3. CASE UNCHANGED sendVars
        BY <1>13, <1>7, <2>1, <2>3, <3>1, <3>3 DEF AnswerOK, sendVars, startVars
      <3>4. CASE Send("close", fullText)
        <4>1. req'["close"].card = cardId /\ req'["close"].seq = sequence + 1 /\ sequence' = sequence + 1
          BY <1>1, <1>4, <3>4 DEF Send
        <4>2. \A c \in Cards : server[c].seq <= sequence' /\ server[c].seq < req'["close"].seq
          BY <1>13, <1>7, <1>1, <1>3, <4>1 DEF AnswerOK
        <4> QED BY <1>13, <1>7, <2>1, <2>3, <3>1, <4>1, <4>2 DEF AnswerOK, startVars
      <3> QED BY <3>2, <3>3, <3>4
    <2> QED BY <1>13, <2>2, <2>3 DEF CloseContent
  <1>14. CASE CloseContentAnswered
    <2>1. /\ UNCHANGED <<startVars, fullText, status, fallback, answer, lost, sequence>> /\ closePc = "content"
          /\ closePc' = "settings" /\ op'["close"] = "none" /\ op["close"] = "put" /\ answer <= fullText
      BY <1>1, <1>4, <1>14 DEF CloseContentAnswered, End, AnswerOK, closed
    <2>2. \/ server' = server
          \/ server' = [server EXCEPT ![req["close"].card].seq = req["close"].seq, ![req["close"].card].text = req["close"].text]
      BY <1>14, Zenon DEF CloseContentAnswered
    <2>3. \A c \in Cards : server'[c].seq = server[c].seq \/ server'[c].seq = req["close"].seq
      BY <1>1, <2>2 DEF Card
    <2>4. req["close"].seq <= sequence
      BY <1>4, <2>1 DEF OrderOK
    <2> QED BY <1>14, <1>7, <2>1, <2>3, <2>4 DEF AnswerOK, startVars
  <1>15. CASE CloseSettings
    <2>1. UNCHANGED <<startVars, fullText, closeVars, server>> /\ closePc = "settings" /\ answer <= fullText
      BY <1>15 DEF CloseSettings, textVars, AnswerOK, closed
    <2>2. Send("close", fullText)
      BY <1>15 DEF CloseSettings, Request
    <2>3. req'["close"].card = cardId /\ req'["close"].seq = sequence + 1 /\ sequence' = sequence + 1
      BY <1>1, <1>4, <2>2 DEF Send
    <2>4. startPc = "done" /\ cardId \in Cards
      BY <1>15, <1>7, <1>1, <2>1 DEF AnswerOK, StartOK
    <2>5. \A c \in Cards : server[c].seq <= sequence' /\ server[c].seq < req'["close"].seq
      BY <1>15, <1>7, <1>1, <1>3, <2>3 DEF AnswerOK
    <2> QED BY <1>15, <1>7, <2>1, <2>3, <2>4, <2>5 DEF AnswerOK, startVars, closeVars
  <1>16. CASE CloseSettingsAnswered
    <2>1. /\ UNCHANGED <<startVars, fullText, status, answer, lost>> /\ closePc = "settings" /\ op["close"] = "put"
          /\ answer <= fullText
      BY <1>16 DEF CloseSettingsAnswered, textVars, AnswerOK, closed
    <2>2. server' = server \/ server' = [server EXCEPT ![req["close"].card].seq = req["close"].seq]
      BY <1>16, Zenon DEF CloseSettingsAnswered
    <2>3. \A c \in Cards : server'[c].seq <= sequence
      <3>1. \A c \in Cards : server'[c].seq = server[c].seq \/ server'[c].seq = req["close"].seq
        BY <1>1, <2>2 DEF Card
      <3>2. req["close"].seq <= sequence
        BY <1>4, <2>1 DEF OrderOK
      <3> QED BY <1>16, <1>7, <3>1, <3>2 DEF AnswerOK
    <2>4. startPc = "done" /\ cardId \in Cards
      BY <1>16, <1>7, <1>1, <2>1 DEF AnswerOK, StartOK
    <2>5. \/ FallBack /\ End("close") /\ UNCHANGED sequence
          \/ closePc' = "full" /\ Send("close", fullText)
      BY <1>16, Zenon DEF CloseSettingsAnswered
    <2>6. CASE FallBack /\ End("close") /\ UNCHANGED sequence
      <3>1. (closePc' = "fallback" /\ fallback' = fullText) \/ (closePc' = "over" /\ fullText = 0 /\ UNCHANGED fallback)
        BY <1>1, <2>6 DEF FallBack
      <3>2. closePc' = "over" => AnswerIsThere'
        BY <1>1, <2>1, <3>1 DEF AnswerIsThere
      <3>3. op'["close"] = "none"
        BY <1>1, <1>4, <2>6 DEF End
      <3> QED BY <1>16, <1>7, <2>1, <2>3, <2>6, <3>1, <3>2, <3>3 DEF AnswerOK
    <2>7. CASE closePc' = "full" /\ Send("close", fullText)
      <3>1. /\ req'["close"].card = cardId /\ req'["close"].seq = sequence + 1 /\ sequence' = sequence + 1
            /\ req'["close"].text = fullText
        BY <1>1, <1>4, <2>7 DEF Send
      <3>2. \A c \in Cards : server'[c].seq \in Nat
        <4>1. server' \in [Cards -> Card]
          BY DEF TypeInv, TypeOK
        <4> QED BY <4>1 DEF Card
      <3>3. \A c \in Cards : server'[c].seq <= sequence' /\ server'[c].seq < req'["close"].seq
        BY <1>1, <2>3, <3>1, <3>2
      <3> QED BY <1>16, <1>7, <2>1, <2>4, <2>7, <3>1, <3>3 DEF AnswerOK, startVars
    <2> QED BY <2>5, <2>6, <2>7
  <1>17. CASE CloseFullAnswered
    <2>1. /\ UNCHANGED <<startVars, fullText, status, answer, sequence>> /\ closePc = "full" /\ op["close"] = "put"
          /\ op'["close"] = "none" /\ answer <= fullText
      BY <1>1, <1>4, <1>17 DEF CloseFullAnswered, End, textVars, CloseOK, AnswerOK, closed
    <2>2. startPc = "done" /\ cardId \in Cards /\ cardId \in visible
      BY <1>17, <1>7, <1>1, <2>1 DEF AnswerOK, StartOK
    <2>3. /\ req["close"].card = cardId /\ answer <= req["close"].text
          /\ server[cardId].seq < req["close"].seq /\ req["close"].seq <= sequence
      BY <1>17, <1>7, <1>4, <2>1 DEF AnswerOK, OrderOK
    <2> DEFINE new == [seq |-> req["close"].seq, text |-> req["close"].text, process |-> 0, status |-> status]
    <2>4. PICK result \in Results, applied \in BOOLEAN :
             /\ Outcome("close", result, applied)
             /\ server' = IF applied THEN [server EXCEPT ![cardId] = new] ELSE server
             /\ lost' = IF result = "refused" /\ server[cardId].seq < req["close"].seq THEN "update" ELSE lost
             /\ IF result = "error" THEN FallBack ELSE closePc' = "over" /\ UNCHANGED fallback
      BY <1>17, <2>3, Zenon DEF CloseFullAnswered
    <2>5. server' = server \/ server' = [server EXCEPT ![cardId] = new]
      BY <2>4
    <2>6. \A c \in Cards : server'[c].seq = server[c].seq \/ server'[c].seq = req["close"].seq
      BY <1>1, <2>5
    <2>7. (closePc' = "fallback" /\ fallback' = fullText) \/ closePc' = "over"
      BY <2>4 DEF FallBack
    <2>8. ASSUME closePc' = "over", lost' = "none" PROVE AnswerIsThere'
      <3>1. result # "refused"
        BY <2>3, <2>4, <2>8
      <3>2. CASE result = "error"
        <4>1. fullText = 0
          BY <1>1, <2>4, <2>8, <3>2 DEF FallBack
        <4>2. UNCHANGED fallback
          BY <1>1, <2>4, <2>8, <3>2 DEF FallBack
        <4> QED BY <1>1, <2>1, <4>1, <4>2 DEF AnswerIsThere
      <3>3. CASE result = "ok"
        <4>1. applied
          BY <2>1, <2>4, <3>3 DEF Outcome
        <4>2. server'[cardId] = new
          BY <1>1, <2>2, <2>4, <4>1
        <4>3. server'[cardId].text >= answer' /\ server'[cardId].status = status'
          BY <2>1, <2>3, <4>2
        <4>4. cardId \in visible'
          BY <2>1, <2>2 DEF startVars
        <4> QED BY <4>3, <4>4 DEF AnswerIsThere
      <3> QED BY <3>1, <3>2, <3>3 DEF Results
    <2> QED BY <1>17, <1>7, <2>1, <2>3, <2>6, <2>7, <2>8 DEF AnswerOK
  <1>18. CASE FallbackAnswered
    <2>1. /\ UNCHANGED <<startVars, fullText, status, server, sequence, op, req, fallback, answer>>
          /\ closePc = "fallback" /\ closePc' = "over"
      BY <1>18 DEF FallbackAnswered, textVars, sendVars
    <2>2. fallback' >= answer'
      BY <1>1, <2>1 DEF AnswerOK
    <2>3. op'["close"] # "put"
      BY <1>5, <2>1
    <2>4. AnswerIsThere' /\ answer' <= fullText' /\ status' # "running"
      BY <2>1, <2>2, <1>18, <1>7 DEF AnswerOK, AnswerIsThere, closed
    <2>5. \A c \in Cards : server'[c].seq <= sequence'
      BY <2>1, <1>18 DEF AnswerOK
    <2> QED BY <2>1, <2>3, <2>4, <2>5 DEF AnswerOK
  <1>20. CASE LateFinal
    <2>1. /\ UNCHANGED <<startVars, closePc, fallback, answer, lost, op, req, sequence, server, status>>
          /\ fullText' = fullText + 1 /\ closed
      BY <1>20 DEF LateFinal, sendVars, closeVars
    <2>2. answer <= fullText'
      BY <1>1, <2>1 DEF AnswerOK
    <2>3. \A c \in Cards : server'[c].seq <= sequence' /\ (op["close"] = "put" /\ c = cardId => server'[c].seq < req["close"].seq)
      BY <1>6, <2>1 DEF AnswerOK
    <2>4. UNCHANGED <<startPc, cardId, visible>> /\ sequence <= sequence'
      BY <1>1, <2>1 DEF startVars
    <2> QED BY <1>1, <1>5, <2>1, <2>2, <2>3, <2>4, AnswerKept
  <1>19. ~CloseTokenFails /\ \A o \in Ops : ~TokenAnswered(o)
    BY <1>2, <1>4 DEF CloseTokenFails, TokenAnswered
  <1> QED BY <1>4, <1>8, <1>9, <1>10, <1>11, <1>12, <1>13, <1>14, <1>15, <1>16, <1>17, <1>18, <1>19, <1>20
          DEF Next, StartStep, CloseStep

(* Whoever waits for the answer has it when the card was closed, unless the  *)
(* last attempt to show it failed.                                           *)
THEOREM TheAnswerReaches == Spec => []AnswerReaches
  <1> DEFINE AInv == IInv /\ StartOK /\ (~renewed => AnswerOK)
  <1>1. Init => AInv
    <2>1. Init => LateOK /\ StartOK /\ AnswerOK
      BY BoundsFacts DEF Init, LateOK, OrderOK, CloseOK, FinalOK, StartOK, AnswerOK, Ops, closed
    <2> QED BY <2>1, InitTypeInv DEF IInv
  <1>2. AInv /\ [Next]_vars => AInv'
    <2> SUFFICES ASSUME IInv, StartOK, ~renewed => AnswerOK, [Next]_vars PROVE AInv'
      OBVIOUS
    <2>1. IInv' /\ StartOK' /\ TypeInv /\ TypeInv' /\ LateOK
      BY NextIInv, NextStartOK DEF IInv
    <2>2. ASSUME ~renewed' PROVE AnswerOK'
      <3>1. ~renewed
        BY <2>2, RenewedStays
      <3>2. OrderOK /\ CloseOK /\ FinalOK /\ AnswerOK
        BY <2>1, <3>1 DEF LateOK
      <3>3. \A c \in Cards : server[c].status # "running" => server'[c] = server[c]
        BY <2>1, <2>2, <3>1, NextFinal DEF IInv, LateOK
      <3> QED BY <2>1, <2>2, <3>1, <3>2, <3>3, NextAnswerOK
    <2> QED BY <2>1, <2>2
  <1>3. AInv => AnswerReaches
    BY DEF AnswerOK, AnswerReaches
  <1> QED BY <1>1, <1>2, <1>3, PTL DEF Spec
=============================================================================
