------------------------------ MODULE CardStream ------------------------------
(***************************************************************************)
(* CardKitStream of cardkit-stream.ts for the card of one turn: its lazy   *)
(* creation with retries, the two streams of updates (the text, every      *)
(* pushIntervalMs, and the process block, debounced) and the closing       *)
(* sequence, against a server that may delay, refuse or lose a request and *)
(* its answer.                                                             *)
(*                                                                         *)
(* A text is the number of the change that produced it, 0 the empty one.   *)
(* ReplyCard calls append and updateProcess until it calls close, once, and *)
(* may call ensureFinal even after that.                                   *)
(***************************************************************************)
EXTENDS Naturals

CONSTANTS
    MaxText,       \* bound: deltas of the answer
    MaxProcess,    \* bound: changes of the process block
    MaxRetries,    \* of start
    MaxSequence    \* bound: tick, which repeats what failed, sends none beyond

ASSUME BoundsAssumption ==
    MaxText \in Nat /\ MaxProcess \in Nat /\ MaxRetries \in Nat /\ MaxSequence \in Nat

Cards == 1 .. MaxRetries + 1     \* one per attempt of start
None == 0
LastText == MaxText + 2          \* the deltas, the answer, and ensureFinal after close
Ops == {"tick", "process", "close"}
NoRequest == [card |-> None, seq |-> 0, text |-> 0]

VARIABLES
    startPc, attempt, built,     \* start(); the process block put in the new card
    cardId, fullText, lastSent, processMarkdown, sequence, putting, interval,
    processTimer,
    op, req,                     \* of each operation: its step, the request it has sent
    closePc, status,             \* close(); the final status it was given
    server,                      \* the server's cards
    visible,                     \* the cards that were sent as a reply
    fallback,                    \* the text given to fallbackReply
    answer,                      \* history: the text with which close began
    renewed,                     \* history: has an update waited for a new token?
    missed,                      \* history: was the block changed while a card was created?
    processLost,                 \* history: has an update of the block failed?
    lost                         \* history: did the last attempt to show the text fail, and which?

startVars == <<startPc, attempt, built, cardId, visible>>
textVars == <<fullText, lastSent, interval>>
processVars == <<processMarkdown, processTimer, missed, processLost>>
sendVars == <<op, req, sequence, renewed>>
closeVars == <<closePc, status, fallback, answer, lost>>
vars == <<startVars, textVars, processVars, sendVars, putting, closeVars, server>>

Req == [card : Cards \cup {None}, seq : Nat, text : 0 .. LastText + MaxProcess]

Card == [seq : Nat, text : 0 .. LastText, process : 0 .. MaxProcess,
         status : {"running", "done", "stopped"}]

StartTypes ==
    /\ startPc \in {"none", "token", "create", "reply", "done", "failed"}
    /\ attempt \in 0 .. MaxRetries + 1
    /\ built \in 0 .. MaxProcess
    /\ cardId \in Cards \cup {None}
    /\ visible \subseteq Cards

TextTypes ==
    /\ fullText \in 0 .. LastText
    /\ lastSent \in 0 .. LastText
    /\ processMarkdown \in 0 .. MaxProcess

SendTypes ==
    /\ op \in [Ops -> {"none", "token", "put"}]
    /\ req \in [Ops -> Req]
    /\ sequence \in Nat \ {0}

CloseTypes ==
    /\ closePc \in {"none", "waitStart", "content", "settings", "full", "fallback", "over"}
    /\ status \in {"running", "done", "stopped"}
    /\ fallback \in 0 .. LastText
    /\ answer \in 0 .. MaxText + 1
    /\ lost \in {"none", "update", "fallback"}

FlagTypes ==
    /\ interval \in BOOLEAN
    /\ processTimer \in BOOLEAN
    /\ putting \in BOOLEAN
    /\ renewed \in BOOLEAN
    /\ missed \in BOOLEAN
    /\ processLost \in BOOLEAN

TypeOK ==
    /\ StartTypes /\ TextTypes /\ SendTypes /\ CloseTypes /\ FlagTypes
    /\ server \in [Cards -> Card]

Init ==
    /\ startPc = "none" /\ attempt = 0 /\ built = 0 /\ cardId = None /\ visible = {}
    /\ fullText = 0 /\ lastSent = 0 /\ interval = FALSE
    /\ processMarkdown = 0 /\ processTimer = FALSE /\ missed = FALSE /\ processLost = FALSE
    /\ op = [o \in Ops |-> "none"]
    /\ req = [o \in Ops |-> NoRequest]
    /\ sequence = 1 /\ putting = FALSE /\ renewed = FALSE
    /\ closePc = "none" /\ status = "running" /\ fallback = 0 /\ answer = 0 /\ lost = "none"
    /\ server = [c \in Cards |-> [seq |-> 0, text |-> 0, process |-> 0, status |-> "running"]]

closed == closePc # "none"
failed == startPc = "failed"
Starting == startPc \in {"token", "create", "reply"}

-----------------------------------------------------------------------------
(* Calls of ReplyCard.                                                      *)

EnsureStarted ==
    IF cardId = None /\ startPc = "none"
    THEN startPc' = "token" /\ attempt' = 1 /\ UNCHANGED <<built, cardId, visible>>
    ELSE UNCHANGED startVars

Append ==
    /\ ~closed /\ ~failed
    /\ fullText < MaxText
    /\ fullText' = fullText + 1
    /\ EnsureStarted
    /\ UNCHANGED <<lastSent, interval, processVars, sendVars, putting, closeVars, server>>

(* text_start: the card is created before there is any text.                *)
TextStart ==
    /\ ~closed
    /\ EnsureStarted
    /\ UNCHANGED <<textVars, processVars, sendVars, putting, closeVars, server>>

(* updateProcess, after ensureStarted if the event is the start of a        *)
(* thought or of a tool: the value is kept, and sent after a debounce only  *)
(* if there is a card and no text yet.                                      *)
UpdateProcess ==
    /\ ~closed
    /\ processMarkdown < MaxProcess
    /\ processMarkdown' = processMarkdown + 1
    /\ EnsureStarted \/ UNCHANGED startVars
    /\ processTimer' = (processTimer \/ (~failed /\ cardId # None /\ fullText = 0))
    /\ missed' = (missed \/ startPc = "create")
    /\ UNCHANGED <<textVars, processLost, sendVars, putting, closeVars, server>>

-----------------------------------------------------------------------------
(* start, with withRetry around it.                                         *)

(* Mutant of Retry: attempts are not counted.                               *)
RetryForEver == startPc' = "token" /\ UNCHANGED attempt

(* A retriable error starts over, with a card of its own; another one, or   *)
(* too many, fails the stream.                                              *)
Retry ==
    \/ attempt <= MaxRetries /\ startPc' = "token" /\ attempt' = attempt + 1
    \/ startPc' = "failed" /\ UNCHANGED attempt

(* The card is built with the process block of this moment.                 *)
StartToken ==
    /\ startPc = "token"
    /\ \/ /\ startPc' = "create"
          /\ built' = processMarkdown /\ missed' = FALSE
          /\ UNCHANGED attempt
       \/ Retry /\ UNCHANGED <<built, missed>>
    /\ UNCHANGED <<cardId, visible, textVars, processMarkdown, processTimer, processLost,
                   sendVars, putting, closeVars, server>>

CreateAnswered ==
    /\ startPc = "create"
    /\ \/ /\ startPc' = "reply"
          /\ cardId' = attempt /\ built' = 0
          /\ server' = [server EXCEPT ![attempt].process = built]
          /\ UNCHANGED attempt
       \/ Retry /\ built' = 0 /\ UNCHANGED <<cardId, server>>
    /\ UNCHANGED <<visible, textVars, processVars, sendVars, putting, closeVars>>

(* A lost answer leaves a visible card behind that start does not know of.  *)
ReplyAnswered ==
    /\ startPc = "reply"
    /\ \/ /\ startPc' = "done"
          /\ visible' = visible \cup {cardId}
          /\ interval' = TRUE
          /\ UNCHANGED attempt
       \/ /\ Retry
          /\ visible' \in {visible, visible \cup {cardId}}
          /\ UNCHANGED interval
    /\ UNCHANGED <<built, cardId, fullText, lastSent, processVars, sendVars, putting,
                   closeVars, server>>

-----------------------------------------------------------------------------
(* Requests that update the card.                                           *)

(* Mutant of Send: the sequence is sent before it is incremented, and the   *)
(* increment forgotten.                                                     *)
SendSameSequence(o, text) ==
    /\ op' = [op EXCEPT ![o] = "put"]
    /\ req' = [req EXCEPT ![o] = [card |-> cardId, seq |-> sequence, text |-> text]]
    /\ UNCHANGED sequence

Send(o, text) ==
    /\ op' = [op EXCEPT ![o] = "put"]
    /\ req' = [req EXCEPT ![o] = [card |-> cardId, seq |-> sequence + 1, text |-> text]]
    /\ sequence' = sequence + 1

(* getToken has a valid token, or must ask for a new one first: once at     *)
(* most, as a token lives for two hours and a prompt for one.               *)
Request(o, text) ==
    \/ Send(o, text) /\ UNCHANGED renewed
    \/ /\ ~renewed
       /\ op' = [op EXCEPT ![o] = "token"]
       /\ req' = [req EXCEPT ![o].text = text]
       /\ renewed' = TRUE
       /\ UNCHANGED sequence

End(o) ==
    /\ op' = [op EXCEPT ![o] = "none"]
    /\ req' = [req EXCEPT ![o] = NoRequest]

(* The server applies a request only after those with lower sequences; it   *)
(* may refuse any, and the network may lose the request or the answer. A    *)
(* successful HTTP status can carry an error code, which only the final     *)
(* update of the whole card looks at.                                       *)
Outcome(o, result, applied) ==
    /\ result = "ok" /\ o = "close" /\ closePc = "full" => applied
    /\ result = "refused" => ~applied
    /\ applied => server[req[o].card].seq < req[o].seq

Results == {"ok", "refused", "error"}

(* Mutant of Busy: nobody looks whether a request is on its way.            *)
BusyNever == FALSE

Busy == putting

(* tick: the text is read now, even if the request waits for a token.       *)
Tick ==
    /\ interval /\ cardId # None /\ ~closed /\ ~Busy
    /\ fullText # lastSent
    /\ sequence < MaxSequence
    /\ putting' = TRUE
    /\ Request("tick", fullText)
    /\ UNCHANGED <<startVars, textVars, processVars, closeVars, server>>

(* Mutant of MayPutProcess: a closed card still gets it.                    *)
MayPutProcessClosed == cardId # None /\ ~failed /\ fullText = 0

(* putProcess gives up once the text has begun, or the card is closed.      *)
MayPutProcess == cardId # None /\ ~closed /\ ~failed /\ fullText = 0

(* Mutant of PutLater: an update that must wait is dropped.                 *)
PutNever == processTimer' = FALSE

(* The timer is set again while another request is on its way.              *)
PutLater == processTimer' = TRUE

ProcessTimer ==
    /\ processTimer
    /\ \/ /\ ~MayPutProcess
          /\ processTimer' = FALSE
          /\ UNCHANGED <<sendVars, putting>>
       \/ /\ MayPutProcess /\ Busy
          /\ PutLater
          /\ UNCHANGED <<sendVars, putting>>
       \/ /\ MayPutProcess /\ ~Busy
          /\ processTimer' = FALSE
          /\ putting' = TRUE
          /\ Request("process", processMarkdown)
    /\ UNCHANGED <<startVars, textVars, processMarkdown, missed, processLost, closeVars, server>>

(* A new token has come, or not; the process block is read only now.        *)
TokenAnswered(o) ==
    /\ op[o] = "token"
    /\ \/ /\ Send(o, IF o = "process" THEN processMarkdown ELSE req[o].text)
          /\ UNCHANGED <<putting, processLost>>
       \/ /\ o # "close"
          /\ End(o)
          /\ putting' = FALSE
          /\ processLost' = (processLost \/ (o = "process" /\ ~closed))
          /\ UNCHANGED sequence
    /\ UNCHANGED <<startVars, textVars, processMarkdown, processTimer, missed, renewed,
                   closeVars, server>>

TickAnswered ==
    LET r == req["tick"] IN
    /\ op["tick"] = "put"
    /\ End("tick")
    /\ putting' = FALSE
    /\ \E result \in Results, applied \in BOOLEAN :
        /\ Outcome("tick", result, applied)
        /\ lastSent' = IF result = "ok" THEN r.text ELSE lastSent
        /\ server' = IF applied
                     THEN [server EXCEPT ![r.card].seq = r.seq, ![r.card].text = r.text]
                     ELSE server
    /\ UNCHANGED <<startVars, fullText, interval, processVars, sequence, renewed, closeVars>>

ProcessAnswered ==
    LET r == req["process"] IN
    /\ op["process"] = "put"
    /\ End("process")
    /\ putting' = FALSE
    /\ \E result \in Results, applied \in BOOLEAN :
        /\ Outcome("process", result, applied)
        /\ processLost' = (~applied /\ ~closed)
        /\ server' = IF applied
                     THEN [server EXCEPT ![r.card].seq = r.seq, ![r.card].process = r.text]
                     ELSE server
    /\ UNCHANGED <<startVars, textVars, processMarkdown, processTimer, missed, sequence,
                   renewed, closeVars>>

-----------------------------------------------------------------------------
(* close, called by finishFinal with the status and the whole text.         *)

(* Without a card the text goes out as a plain reply, if there is any.      *)
NoCard == failed \/ cardId = None

FallBack ==
    IF fullText > 0
    THEN closePc' = "fallback" /\ fallback' = fullText
    ELSE closePc' = "over" /\ UNCHANGED fallback

Close ==
    /\ ~closed
    /\ closePc' = "waitStart"
    /\ \E s \in {"done", "stopped"} :     \* "failed" differs only in wording
        /\ status' = s
        /\ fullText' \in IF s = "done" THEN {fullText, fullText + 1} ELSE {fullText}
    /\ answer' = fullText'
    /\ interval' = FALSE
    /\ missed' = FALSE /\ processLost' = FALSE
    /\ UNCHANGED <<startVars, lastSent, processMarkdown, processTimer, sendVars, putting,
                   fallback, lost, server>>

(* ensureFinal does not ask whether the card is closed: the prompt of a run *)
(* returns whose stop has failed, while that or another stop is closing the *)
(* card or has done so, or completeWithAnswer has thrown and the error is   *)
(* written.  close reads the text again for every request it still sends.   *)
LateFinal ==
    /\ closed
    /\ status = "stopped" \/ lost = "fallback"
    /\ fullText = answer
    /\ fullText' = fullText + 1
    /\ UNCHANGED <<startVars, lastSent, interval, processVars, sendVars, putting, closeVars,
                   server>>

(* start has settled: what is left of the text is sent.                     *)
CloseContent ==
    /\ closePc = "waitStart"
    /\ ~Starting
    /\ \/ NoCard /\ FallBack /\ UNCHANGED sendVars
       \/ /\ ~NoCard /\ fullText # lastSent
          /\ closePc' = "content" /\ Request("close", fullText) /\ UNCHANGED fallback
       \/ /\ ~NoCard /\ fullText = lastSent
          /\ closePc' = "settings" /\ UNCHANGED <<sendVars, fallback>>
    /\ UNCHANGED <<startVars, textVars, processVars, putting, status, answer, lost, server>>

(* putContent logs whatever goes wrong.                                     *)
CloseContentAnswered ==
    LET r == req["close"] IN
    /\ closePc = "content"
    /\ op["close"] = "put"
    /\ closePc' = "settings"
    /\ End("close")
    /\ \E result \in Results, applied \in BOOLEAN :
        /\ Outcome("close", result, applied)
        /\ lastSent' = IF result = "ok" THEN r.text ELSE lastSent
        /\ server' = IF applied
                     THEN [server EXCEPT ![r.card].seq = r.seq, ![r.card].text = r.text]
                     ELSE server
    /\ UNCHANGED <<startVars, fullText, interval, processVars, sequence, renewed, putting,
                   status, fallback, answer, lost>>

(* Without a new token putContent does nothing, and what follows falls back.*)
CloseTokenFails ==
    /\ op["close"] = "token"
    /\ End("close")
    /\ IF closePc = "content" THEN closePc' = "settings" /\ UNCHANGED fallback ELSE FallBack
    /\ UNCHANGED <<startVars, textVars, processVars, sequence, renewed, putting, status,
                   answer, lost, server>>

(* streaming_mode is switched off; the final update follows even if that    *)
(* was refused, an error falls back.                                        *)
CloseSettings ==
    /\ closePc = "settings"
    /\ op["close"] = "none"
    /\ Request("close", fullText)
    /\ UNCHANGED <<startVars, textVars, processVars, putting, closeVars, server>>

CloseSettingsAnswered ==
    LET r == req["close"] IN
    /\ closePc = "settings"
    /\ op["close"] = "put"
    /\ \E result \in Results, applied \in BOOLEAN :
        /\ Outcome("close", result, applied)
        /\ server' = IF applied THEN [server EXCEPT ![r.card].seq = r.seq] ELSE server
        /\ IF result = "error"
           THEN FallBack /\ End("close") /\ UNCHANGED sequence
           ELSE closePc' = "full" /\ Send("close", fullText) /\ UNCHANGED fallback
    /\ UNCHANGED <<startVars, textVars, processVars, renewed, putting, status, answer, lost>>

(* The whole card is replaced: final status, no process block. A refusal is *)
(* logged; lost is not set for one that is this module's own fault.         *)
CloseFullAnswered ==
    LET r == req["close"] IN
    /\ closePc = "full"
    /\ End("close")
    /\ \E result \in Results, applied \in BOOLEAN :
        /\ Outcome("close", result, applied)
        /\ server' = IF applied
                     THEN [server EXCEPT ![r.card] = [seq |-> r.seq, text |-> r.text,
                                                      process |-> 0, status |-> status]]
                     ELSE server
        /\ lost' = IF result = "refused" /\ server[r.card].seq < r.seq THEN "update" ELSE lost
        /\ IF result = "error" THEN FallBack ELSE closePc' = "over" /\ UNCHANGED fallback
    /\ UNCHANGED <<startVars, textVars, processVars, sequence, renewed, putting, status,
                   answer>>

(* fallbackReply sends a final card with the text it was given, or throws.  *)
FallbackAnswered ==
    /\ closePc = "fallback"
    /\ closePc' = "over"
    /\ lost' \in {lost, "fallback"}
    /\ UNCHANGED <<startVars, textVars, processVars, sendVars, putting, status, fallback, answer,
                   server>>

-----------------------------------------------------------------------------
StartStep == StartToken \/ CreateAnswered \/ ReplyAnswered

CloseStep ==
    \/ CloseContent \/ CloseContentAnswered \/ CloseSettings \/ CloseSettingsAnswered
    \/ CloseTokenFails \/ CloseFullAnswered \/ FallbackAnswered \/ TokenAnswered("close")

Next ==
    \/ Append \/ TextStart \/ UpdateProcess \/ Close \/ LateFinal
    \/ StartStep
    \/ Tick \/ TickAnswered \/ TokenAnswered("tick")
    \/ ProcessTimer \/ ProcessAnswered \/ TokenAnswered("process")
    \/ CloseStep

Spec == Init /\ [][Next]_vars

(* Every request is answered or fails.                                      *)
FairSpec == Spec /\ WF_vars(StartStep) /\ WF_vars(CloseStep)

-----------------------------------------------------------------------------
(* Of the updates that stream at most one is on its way, and putting says   *)
(* whether there is one: tick and putProcess exclude each other ("at most   *)
(* one CardKit PUT in flight"), also while they wait for a token.           *)
StreamUpdatesSerial ==
    /\ op["tick"] # "none" => op["process"] = "none"
    /\ putting = (op["tick"] # "none" \/ op["process"] # "none")

(* The last change of the process block reaches the card although updates   *)
(* are debounced and wait for each other, unless it came while the card was *)
(* being created or its request failed.                                     *)
ProcessSettled ==
    /\ startPc = "done" /\ ~closed /\ fullText = 0
    /\ ~processTimer /\ op["process"] = "none" /\ ~processLost

LatestProcessShown ==
    ProcessSettled /\ ~missed => server[cardId].process = processMarkdown

(* When the card has been closed the reader has the whole text with which   *)
(* close began, or the one that ensureFinal has put in its place since, on  *)
(* the card with its final status or as a plain reply, whatever requests    *)
(* failed before; but nobody acts on a refusal of the last update, or on an *)
(* error of the plain reply.                                                *)
AnswerIsThere ==
    \/ fallback >= answer
    \/ \E c \in visible : server[c].text >= answer /\ server[c].status = status

AnswerReaches == closePc = "over" /\ ~renewed /\ lost = "none" => AnswerIsThere

(* A late update never changes a card that shows its final status: requests *)
(* still on their way carry lower sequences, and close sends none after it. *)
FinalCardStands ==
    [][~renewed => \A c \in Cards :
        server[c].status # "running" => server'[c] = server[c]]_vars

(* close ends, so that the turn which awaits it ends too.                   *)
CloseEnds == closed ~> closePc = "over"

(* "CardKit streaming cards, with plain-text fallback on failure": whatever *)
(* the card's requests meet, the reader has the text at least, unless the   *)
(* plain reply fails as well.                                               *)
TextIsThere == fallback >= answer \/ \E c \in visible : server[c].text >= answer

FallbackOnFailure == closePc = "over" /\ lost # "fallback" => TextIsThere
=============================================================================
