------------------------------ MODULE Inbound ------------------------------
(***************************************************************************)
(* From a message event of the Feishu connection to its answer:            *)
(* handleRawMessage of transport.ts, the group trigger of group-trigger.ts *)
(* and FeishuMessageHandler.handle of message-handler.ts, on top of the    *)
(* shared message records of Dedupe.                                       *)
(*                                                                         *)
(* Several gateway processes may be connected for a while and the platform *)
(* delivers an event again, so that a message is handled by several calls, *)
(* in one process or in two.  A call of Dedupe is the handling of one      *)
(* event; it claims and marks one after the other.  What prompts and       *)
(* commands do is the matter of Conversation: here they end with a reply,  *)
(* which may be lost on its way, or throw.                                 *)
(***************************************************************************)
EXTENDS Dedupe

CONSTANTS
    Proc,
    Scenarios,       \* bound: the messages there may be, each with the faults
    GroupPolicy,     \* "open" or "mention"
    AlsoOnReply,     \* groupAlsoOnReply
    SeenMax          \* the size beyond which the set of seen messages is emptied

(* root is the message that opened the thread, inThread tells whether the   *)
(* event names the thread, and files is what is attached.                   *)
Shape == [chat : {"p2p", "group", "topic"}, root : Msg \cup {None}, inThread : BOOLEAN,
          sender : {"u", "v"}, trigger : {"mention", "keyword", "reply", "none"},
          body : {"empty", "command", "text"}, files : {"none", "image", "file"}]

ASSUME ScenariosAssumption ==
    Scenarios \subseteq [shape : [Msg -> Shape], faults : SUBSET Faults]
(* The message that opened a thread is in the same chat and is no reply.    *)
ASSUME ThreadAssumption ==
    \A s \in Scenarios, m \in Msg : s.shape[m].root # None =>
        /\ s.shape[s.shape[m].root].root = None
        /\ s.shape[s.shape[m].root].chat = s.shape[m].chat
ASSUME NoneAssumption == None \notin Proc /\ None \notin Msg
ASSUME PolicyAssumption == GroupPolicy \in {"open", "mention"} /\ AlsoOnReply \in BOOLEAN
ASSUME SeenAssumption == SeenMax \in Nat

VARIABLES
    shape,     \* what the messages are
    up,        \* the process runs
    seen,      \* its seen messages
    recent,    \* the contents it accepted
    at,        \* where the handling of an event stands
    proc,      \* the process that handles it
    key,       \* the conversation key of its message
    quoted,    \* what was found of the message it refers to
    handled,   \* history: how often the message was claimed in the last MESSAGE_TTL_MS
    shown,     \* history: what its sender was sent
    dropped,   \* history: messages ignored for their content
    passed     \* history: what passed the content check, and where

procVars == <<up, seen, recent>>
handlerVars == <<proc, key, quoted>>
historyVars == <<handled, shown, dropped, passed>>
vars == <<dedupeVars, shape, procVars, at, handlerVars, historyVars>>

NoKey == <<"none", None>>
Keys == ({"p2p"} \X {"u", "v"}) \cup ({"thread", "threadId"} \X Msg) \cup {NoKey, <<"chat", None>>}

TypeOK ==
    /\ DedupeTypeOK
    /\ shape \in [Msg -> Shape]
    /\ up \in [Proc -> BOOLEAN]
    /\ seen \in [Proc -> SUBSET Msg]
    /\ at \in [Call -> {"idle", "mode", "claim", "quote", "decide", "command",
                        "files", "notice", "prompt", "mark", "failing", "sorry", "done"}]
    /\ proc \in [Call -> Proc \cup {None}]
    /\ key \in [Call -> Keys]
    /\ quoted \in [Call -> {"nothing", "text", "picture"}]
    /\ handled \in [Msg -> Nat]
    /\ shown \in [Msg -> SUBSET {"reply", "sorry"}]
    /\ dropped \subseteq Msg

Init ==
    /\ \E s \in Scenarios : shape = s.shape /\ faults = s.faults
    /\ DedupeInit
    /\ up = [p \in Proc |-> TRUE]
    /\ seen = [p \in Proc |-> {}]
    /\ recent = [p \in Proc |-> {}]
    /\ at = [c \in Call |-> "idle"]
    /\ proc = [c \in Call |-> None]
    /\ key = [c \in Call |-> NoKey]
    /\ quoted = [c \in Call |-> "nothing"]
    /\ handled = [m \in Msg |-> 0]
    /\ shown = [m \in Msg |-> {}]
    /\ dropped = {}
    /\ passed = {}

Goto(c, place) == at' = [at EXCEPT ![c] = place]
Of(c) == shape[subject[c]]

-----------------------------------------------------------------------------
(* transport.ts.                                                            *)

(* shouldAcceptGroupMessage; "known" tells whether a reply goes to a        *)
(* message that this process remembers to have sent.                        *)
Accepted(m, known) ==
    \/ shape[m].chat = "p2p"
    \/ GroupPolicy = "open"
    \/ shape[m].trigger \in {"mention", "keyword"}
    \/ shape[m].trigger = "reply" /\ AlsoOnReply /\ known

Used(p) == \E c \in Call : proc[c] = p

(* An event arrives at a process, perhaps again.  Calls, and processes that *)
(* are alike, are used in a fixed order.                                    *)
Arrive(c, p, m) ==
    /\ at[c] = "idle" /\ c = CHOOSE d \in Call : at[d] = "idle"
    /\ Used(p) \/ p = CHOOSE q \in Proc : ~Used(q)
    /\ up[p]
    /\ \E known \in BOOLEAN : Goto(c, IF Accepted(m, known) THEN "mode" ELSE "done")
    /\ proc' = [proc EXCEPT ![c] = p]
    /\ subject' = [subject EXCEPT ![c] = m]
    /\ UNCHANGED <<fileVars, lockDir, step, target, view, holds, tries, result, faults, lapses,
                   shape, procVars, key, quoted, historyVars>>

(* getChatMode: a topic whose mode cannot be asked for is taken for a plain *)
(* group, this time.                                                        *)
ChatModes(m) ==
    {shape[m].chat} \cup {mode \in {"group"} : shape[m].chat = "topic" /\ MayFail("mode")}

(* Mutant of KeyOf: a reply is not filed under its thread's first message.  *)
KeyOfMessage(m, mode) ==
    CASE shape[m].chat = "p2p" -> <<"p2p", shape[m].sender>>
      [] mode = "topic" -> <<"thread", m>>
      [] OTHER -> <<"chat", None>>

Opener(m) == IF shape[m].root # None THEN shape[m].root ELSE m

(* conversationKey.                                                         *)
KeyOf(m, mode) ==
    CASE shape[m].chat = "p2p" -> <<"p2p", shape[m].sender>>
      [] shape[m].chat # "p2p" /\ shape[m].inThread -> <<"threadId", Opener(m)>>
      [] shape[m].chat # "p2p" /\ ~shape[m].inThread /\ (shape[m].root # None \/ mode = "topic") ->
            <<"thread", Opener(m)>>
      [] OTHER -> <<"chat", None>>

-----------------------------------------------------------------------------
(* handle: dedupe.                                                          *)

(* The seen messages are asked before the claim is awaited.                 *)
Dispatch(c) ==
    /\ at[c] = "mode"
    /\ \E mode \in ChatModes(subject[c]) :
          /\ key' = [key EXCEPT ![c] = KeyOf(subject[c], mode)]
          /\ lapses' = lapses \cup {l \in {"mode"} : key'[c] # KeyOf(subject[c], Of(c).chat)}
    /\ IF subject[c] \in seen[proc[c]]
       THEN Goto(c, "done") /\ UNCHANGED <<fileVars, lockDir, callVars, faults>>
       ELSE Goto(c, "claim") /\ BeginCall(c, subject[c], "processing")
    /\ UNCHANGED <<shape, procVars, proc, quoted, handled, shown, dropped, passed>>

BeginMark(c, status, place) == Goto(c, place) /\ BeginCall(c, subject[c], status)

MoreSeen(p, m) == LET s == seen[p] \cup {m} IN IF Cardinality(s) > SeenMax THEN {} ELSE s

(* The claim has been answered; a claimed message is remembered, bound to   *)
(* its conversation and, if it refers to another, completed by a quote.     *)
Claimed(c) ==
    /\ at[c] = "claim" /\ step[c] = "none" /\ result[c] = "claimed"
    /\ seen' = [seen EXCEPT ![proc[c]] = MoreSeen(proc[c], subject[c])]
    /\ handled' = [handled EXCEPT ![subject[c]] = @ + 1]
    /\ Goto(c, IF Of(c).root # None THEN "quote" ELSE "decide")
    /\ UNCHANGED <<dedupeVars, shape, up, recent, handlerVars,
                   shown, dropped, passed>>

Refused(c) ==
    /\ at[c] = "claim" /\ step[c] = "none" /\ result[c] = "refused"
    /\ Goto(c, "done")
    /\ UNCHANGED <<dedupeVars, shape, procVars, handlerVars, historyVars>>

(* getQuotedContext: the text of the message it replies to, that text with  *)
(* a picture, or nothing.                                                   *)
Quote(c) ==
    /\ at[c] = "quote"
    /\ \E found \in {"nothing", "text", "picture"} : quoted' = [quoted EXCEPT ![c] = found]
    /\ Goto(c, "decide")
    /\ UNCHANGED <<dedupeVars, shape, procVars, proc, key, historyVars>>

-----------------------------------------------------------------------------
(* handle: what to do with the message.                                     *)

Attached(c) ==
    {f \in {<<Of(c).files, subject[c]>>} : Of(c).files # "none"}
    \cup {f \in {<<"image", Of(c).root>>} : quoted[c] = "picture"}

Empty(c) == Attached(c) = {} /\ Of(c).body = "empty" /\ quoted[c] = "nothing"
IsCommand(c) == Attached(c) = {} /\ Of(c).body = "command"

(* Mutant of Content: the sender does not count.                            *)
ContentOfAnyone(c) == <<key[c], Of(c).body, Attached(c)>>

(* What isDuplicateContent compares: the quoted text is not among it.       *)
Content(c) == <<key[c], Of(c).sender, Of(c).body, Attached(c)>>

IgnoreEmpty(c) ==
    /\ at[c] = "decide" /\ Empty(c)
    /\ BeginMark(c, "ignored", "mark")
    /\ UNCHANGED <<lapses, shape, procVars, handlerVars, historyVars>>

RunCommand(c) ==
    /\ at[c] = "decide" /\ IsCommand(c)
    /\ Goto(c, "command")
    /\ UNCHANGED <<dedupeVars, shape, procVars, handlerVars, historyVars>>

(* The content was accepted before; whether that was in the last            *)
(* CONTENT_DEDUPE_TTL_MS is left open.                                      *)
DropDuplicate(c) ==
    /\ at[c] = "decide" /\ ~Empty(c) /\ ~IsCommand(c)
    /\ Content(c) \in recent[proc[c]]
    /\ dropped' = dropped \cup {subject[c]}
    /\ BeginMark(c, "ignored", "mark")
    /\ UNCHANGED <<lapses, shape, procVars, handlerVars, handled, shown, passed>>

PassContent(c) ==
    /\ at[c] = "decide" /\ ~Empty(c) /\ ~IsCommand(c)
    /\ recent' = [recent EXCEPT ![proc[c]] = @ \cup {Content(c)}]
    /\ passed' = passed \cup {<<proc[c], subject[c], key[c], Attached(c)>>}
    /\ Goto(c, "files")
    /\ UNCHANGED <<dedupeVars, shape, up, seen, handlerVars,
                   handled, shown, dropped>>

(* The model is asked for and the attachments are fetched, skipped or fail; *)
(* without anything left to tell the model the sender is told so.           *)
ProcessFiles(c) ==
    /\ at[c] = "files"
    /\ \E usable \in BOOLEAN :
          Goto(c, IF Attached(c) # {} /\ ~usable /\ Of(c).body = "empty"
                  THEN "notice" ELSE "prompt")
    /\ UNCHANGED <<dedupeVars, shape, procVars, handlerVars, historyVars>>

-----------------------------------------------------------------------------
(* handle: replies, marks and errors.                                       *)

Tell(c, what) == shown' = [shown EXCEPT ![subject[c]] = @ \cup {what}]

(* Mutant of AfterReply: the mark of a message that is not answered.        *)
AfterReplyIgnored(c) == BeginMark(c, "ignored", "mark")

AfterReply(c) == BeginMark(c, "replied", "mark")

(* A command, a notice or a prompt ends: with a reply, which for a prompt   *)
(* may be the error shown on its card.                                      *)
Replied(c) ==
    /\ at[c] \in {"command", "notice", "prompt"}
    /\ Tell(c, "reply")
    /\ AfterReply(c)
    /\ UNCHANGED <<lapses, shape, procVars, handlerVars, handled, dropped, passed>>

(* The card of a prompt cannot be created, nor its answer be sent as a      *)
(* plain reply: the prompt resolves all the same, and counts as replied.    *)
Unshown(c) ==
    /\ at[c] = "prompt"
    /\ Slip("unshown")
    /\ AfterReply(c)
    /\ UNCHANGED <<shape, procVars, handlerVars, historyVars>>

(* A command that finds the transport gone counts as replied.               *)
CommandUnlinked(c) ==
    /\ at[c] = "command"
    /\ Slip("stop")
    /\ AfterReply(c)
    /\ UNCHANGED <<shape, procVars, handlerVars, historyVars>>

(* Something threw: the model's choice, a request, a turn of the            *)
(* conversation, or the records themselves.                                 *)
Throws(c) ==
    /\ \/ at[c] \in {"command", "files", "notice", "prompt"}
       \/ at[c] \in {"claim", "mark"} /\ step[c] = "none" /\ result[c] = "error"
    /\ BeginMark(c, "failed", "failing")
    /\ UNCHANGED <<lapses, shape, procVars, handlerVars, historyVars>>

(* A reply is sent, but the answer to the request is lost, and that of each *)
(* retry where texts are tried again (cards and posts are not): what was    *)
(* sent counts as failed.  For a prompt it is the plain reply with which it *)
(* reports its error.                                                       *)
AnswerLost(c) ==
    /\ at[c] \in {"command", "notice", "prompt"}
    /\ Slip("lost")
    /\ Tell(c, "reply")
    /\ BeginMark(c, "failed", "failing")
    /\ UNCHANGED <<shape, procVars, handlerVars, handled, dropped, passed>>

MarkDone(c) ==
    /\ at[c] = "mark" /\ step[c] = "none" /\ result[c] = "marked"
    /\ Goto(c, "done")
    /\ UNCHANGED <<dedupeVars, shape, procVars, handlerVars, historyVars>>

(* The failure is marked; if that fails too, handle rejects and says        *)
(* nothing.                                                                 *)
FailureMarked(c) ==
    /\ at[c] = "failing" /\ step[c] = "none"
    /\ Goto(c, IF result[c] = "marked" THEN "sorry" ELSE "done")
    /\ UNCHANGED <<dedupeVars, shape, procVars, handlerVars, historyVars>>

(* The sender is told of the error, unless that fails as well, or the       *)
(* transport is gone.                                                       *)
Sorry(c) ==
    /\ at[c] = "sorry"
    /\ Goto(c, "done")
    /\ \/ Tell(c, "sorry") /\ UNCHANGED lapses
       \/ (Slip("unshown") \/ Slip("stop")) /\ UNCHANGED shown
    /\ UNCHANGED <<fileVars, lockDir, callVars, faults, shape, procVars, handlerVars,
                   handled, dropped, passed>>

-----------------------------------------------------------------------------
(* What happens around the handlers.                                        *)

Crash(p) ==
    /\ Used(p) /\ up[p] /\ MayFail("crash")
    /\ up' = [up EXCEPT ![p] = FALSE]
    /\ CallsDie({c \in Call : proc[c] = p})
    /\ at' = [c \in Call |-> IF proc[c] = p THEN "done" ELSE at[c]]
    /\ UNCHANGED <<shape, seen, recent, handlerVars, historyVars>>

(* MESSAGE_TTL_MS pass without any event.                                   *)
DayPasses ==
    /\ \A c \in Call : at[c] \in {"idle", "done"}
    /\ \E m \in Msg : handled[m] > 0
    /\ MayFail("day")
    /\ RecordsAge
    /\ handled' = [m \in Msg |-> 0]
    /\ shown' = [m \in Msg |-> {}]
    /\ recent' = [p \in Proc |-> {}]
    /\ UNCHANGED <<shape, up, seen, at, handlerVars, dropped, passed>>

(* A step of the shared records.                                            *)
StoreStep(c) == CallStep(c) /\ UNCHANGED <<shape, procVars, at, handlerVars, historyVars>>

HandlerStep(c) ==
    \/ Dispatch(c) \/ Claimed(c) \/ Refused(c)
    \/ Quote(c) \/ IgnoreEmpty(c) \/ RunCommand(c) \/ DropDuplicate(c) \/ PassContent(c)
    \/ ProcessFiles(c) \/ Replied(c) \/ Unshown(c) \/ CommandUnlinked(c) \/ Throws(c) \/ AnswerLost(c)
    \/ MarkDone(c) \/ FailureMarked(c) \/ Sorry(c)

Next ==
    \/ \E c \in Call : HandlerStep(c) \/ StoreStep(c)
    \/ \E c \in Call, p \in Proc, m \in Msg : Arrive(c, p, m)
    \/ \E p \in Proc : Crash(p)
    \/ DayPasses

Spec == Init /\ [][Next]_vars

(* Node runs what is ready, requests and turns end, and a dead lock         *)
(* directory grows old.                                                     *)
FairSpec ==
    /\ Spec
    /\ \A c \in Call : WF_vars(HandlerStep(c) \/ StoreStep(c))

-----------------------------------------------------------------------------
(* Unless a call went on without the lock, or a write was cut off, a        *)
(* message is handled at most once in MESSAGE_TTL_MS: whatever processes    *)
(* its event is delivered to, how often, and whatever crashes.              *)
HandledOnce ==
    lapses \cap {"unlocked", "torn"} = {} => \A m \in Msg : handled[m] <= 1

AtRest(m) == \A c \in Call : subject[c] = m => at[c] \in {"idle", "done"}

(* Unless the records themselves suffered, that of a message that is no     *)
(* longer handled says what its sender got, and no other call's write       *)
(* undoes it: but for a reply that could not be sent at all, and one whose  *)
(* answer was lost.                                                         *)
RecordsTrue ==
    lapses \subseteq {"mode", "lost", "unshown"} => \A m \in Msg : AtRest(m) /\ handled[m] > 0 =>
        /\ store[m] \in {"replied", "ignored", "failed"}
        /\ store[m] = "replied" => "reply" \in shown[m] \/ "unshown" \in lapses
        /\ "reply" \in shown[m] => store[m] = "replied" \/ (store[m] = "failed" /\ "lost" \in lapses)
        /\ store[m] = "failed" => "sorry" \in shown[m] \/ "unshown" \in lapses
        /\ "sorry" \in shown[m] => store[m] = "failed"

(* A message that was answered is reported as failed only when its record   *)
(* could not be written, the answer to its reply was lost, or it was        *)
(* handled twice.                                                           *)
AnsweredNotFailed ==
    lapses \cap {"write", "lost", "unlocked", "torn"} = {} =>
        \A m \in Msg : "reply" \in shown[m] => "sorry" \notin shown[m]

(* A message ignored for its content, and not for having none, repeats      *)
(* another one of the same sender, text and attachments, which the process  *)
(* went on with.                                                            *)
DroppedHasTwin ==
    lapses \cap {"unlocked", "torn"} = {} => \A c \in Call :
      subject[c] \in dropped /\ target[c] = "ignored" /\ ~Empty(c) =>
        \E m \in Msg \ {subject[c]} :
            /\ <<proc[c], m, key[c], Attached(c)>> \in passed
            /\ shape[m].sender = Of(c).sender /\ shape[m].body = Of(c).body

(* A message that opens a topic and the replies to it are handled in one    *)
(* conversation, whichever processes they reach: if their events name the   *)
(* thread, or if none does and the chat mode can be asked for.              *)
TopicTogether ==
    \A c, d \in Call :
        /\ key[c] # NoKey /\ key[d] # NoKey
        /\ Of(c).chat = "topic" /\ Of(d).root = subject[c]
        /\ Of(c).inThread = Of(d).inThread
        /\ Of(c).inThread \/ "mode" \notin lapses
        => key[c] = key[d]

(* The handling of every event ends, although calls wait for a directory    *)
(* that a dead process left behind.                                         *)
EveryEventEnds == \A c \in Call : at[c] # "idle" ~> at[c] = "done"
=============================================================================
