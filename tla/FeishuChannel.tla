--------------------------- MODULE FeishuChannel ---------------------------
(***************************************************************************)
(* The Feishu channel: internal/feishu and the handlers of                 *)
(* internal/app/feishu_channel.go as it sees them.  Events come any number *)
(* of times and are recognised by a window of ids in memory.  A message    *)
(* starts a turn: a handler in a goroutine of its own, and a loop that     *)
(* shows a reaction and a progress card after a delay, keeps the card up   *)
(* to date, and gives the answer when the handler returns or the time of   *)
(* the turn is over, whichever the loop sees first.  A call of the Feishu  *)
(* API may be refused, or take effect although an error is reported.       *)
(* The reaction and the progress card are switched on, as by default.      *)
(***************************************************************************)
EXTENDS Naturals, Sequences

CONSTANTS
  Messages,         (* events that bring a message                          *)
  Clicks,           (* events of a button of a card; their ids are marked    *)
                    (* as "card:" ids, apart from those of messages          *)
  Turns,            (* bound: the turns ever processed                       *)
  Window,           (* how many ids are remembered                           *)
  QueueRoom,        (* room for progress updates of a turn                   *)
  MaxAccepted,      (* bound: ids accepted between two starts                *)
  MaxChannelFaults, (* bound: API calls that report an error                 *)
  MaxChannelCrashes (* bound: how often the process dies                     *)

ASSUME ChannelAssumption ==
  /\ Messages \cap Clicks = {}
  /\ Window \in Nat \ {0} /\ QueueRoom \in Nat \ {0}
  /\ MaxAccepted \in Nat /\ MaxChannelFaults \in Nat /\ MaxChannelCrashes \in Nat

Ids == Messages \cup Clicks

VARIABLES
  processed,  (* Service.processed: the remembered ids, oldest first         *)
  seen,       (* Service.seen                                                *)
  accepted,   (* history: the ids accepted since the process started         *)
  turn,       (* turn -> its loop, its handler and what the chat shows of it *)
  channelFaults, channelCrashes

windowVars  == <<processed, seen, accepted>>
channelVars == <<windowVars, turn, channelFaults, channelCrashes>>

(* loop: where process is;  handler, reply: the handler and its result;      *)
(* timer, expired: the feedback timer is armed, the turn's context is done;  *)
(* updates, tracked: progress updates in the queue, one with the run's id    *)
(* has been merged;  knowsReaction, knowsCard: the ids process holds;        *)
(* reaction, card, texts: what the chat shows, texts counting the answers    *)
(* sent as messages;  cancel: a click cancelled the run, its response is on  *)
(* the way or shown;  answer: what process decided to answer;                *)
(* failed: an API call of the turn reported an error.                        *)
NoTurn ==
  [loop |-> "free", handler |-> "none", reply |-> "none", answer |-> "none",
   timer |-> FALSE, expired |-> FALSE, updates |-> 0, tracked |-> FALSE,
   knowsReaction |-> FALSE, knowsCard |-> FALSE,
   reaction |-> FALSE, card |-> "none", texts |-> 0,
   cancel |-> "no", failed |-> FALSE]

Started == [NoTurn EXCEPT !.loop = "waiting", !.handler = "working", !.timer = TRUE]

ChannelInit ==
  /\ processed = <<>> /\ seen = {} /\ accepted = <<>>
  /\ turn = [t \in Turns |-> NoTurn]
  /\ channelFaults = 0 /\ channelCrashes = 0

-----------------------------------------------------------------------------
(* The window.                                                             *)

(* Mutant: one id more is forgotten than is too many.                      *)
TrimmedLate(ids) == IF Len(ids) >= Window THEN Tail(ids) ELSE ids

Trimmed(ids) == IF Len(ids) > Window THEN Tail(ids) ELSE ids

(* markProcessed of an id that is not in the window.                        *)
MarkProcessed(id) ==
  LET ids == Append(processed, id) IN
  /\ id \notin seen /\ Len(accepted) < MaxAccepted
  /\ processed' = Trimmed(ids)
  /\ seen' = IF Trimmed(ids) = ids THEN seen \cup {id}
             ELSE (seen \cup {id}) \ {Head(ids)}
  /\ accepted' = Append(accepted, id)

(* ServeHTTP or the WebSocket handler: a message that is not in the window   *)
(* starts a turn; a repeated one changes nothing.                           *)
Deliver(m, t) ==
  /\ turn[t].loop = "free"
  /\ MarkProcessed(m)
  /\ turn' = [turn EXCEPT ![t] = Started]
  /\ UNCHANGED <<channelFaults, channelCrashes>>

(* dispatchCardAction, the cancel button of a progress card: a run that is   *)
(* still tracked is cancelled and the response replaces the card; any other  *)
(* click of a card of this turn has no effect but its mark.                  *)
ClickCancel(c, t) ==
  /\ turn[t].card = "button"
  /\ MarkProcessed(c)
  /\ turn' = IF turn[t].handler = "working"
             THEN [turn EXCEPT ![t].cancel = "asked"] ELSE turn
  /\ UNCHANGED <<channelFaults, channelCrashes>>

(* approve_tool and reject_tool, on an answer that asks for an approval: if  *)
(* its run still waits, the decision goes on in a goroutine of its own and   *)
(* the response replaces the answer.                                         *)
ClickDecide(c, t) ==
  /\ turn[t].card = "answer" /\ turn[t].answer = "answer"
  /\ MarkProcessed(c)
  /\ turn' = [turn EXCEPT ![t].card = "decided"]
  /\ UNCHANGED <<channelFaults, channelCrashes>>

(* A click on a card of another time, or one that is too late: the mark, and *)
(* a toast.                                                                  *)
ClickElsewhere(c) ==
  /\ MarkProcessed(c)
  /\ UNCHANGED <<turn, channelFaults, channelCrashes>>

(* Feishu replaces the card by the response, whatever it shows by now.       *)
ShowResponse(t) ==
  /\ turn[t].cancel = "asked"
  /\ turn' = [turn EXCEPT ![t].cancel = "shown", ![t].card = "cancelling"]
  /\ UNCHANGED <<windowVars, channelFaults, channelCrashes>>

-----------------------------------------------------------------------------
(* The handler of a message.                                               *)

(* ReportProgress: with no room in the queue the update is dropped.          *)
Report(t) ==
  /\ turn[t].handler = "working"
  /\ turn[t].updates < QueueRoom
  /\ turn' = [turn EXCEPT ![t].updates = @ + 1]
  /\ UNCHANGED <<windowVars, channelFaults, channelCrashes>>

(* The handler returns, in its own time: with an answer, with nothing to     *)
(* say, or with an error.  It may wait for the lock of the session, which    *)
(* no context ends, so that it returns is not promised.                      *)
Return(t, reply) ==
  /\ turn[t].handler = "working"
  /\ turn' = [turn EXCEPT ![t].handler = "returned", ![t].reply = reply]
  /\ UNCHANGED <<windowVars, channelFaults, channelCrashes>>

-----------------------------------------------------------------------------
(* The loop of a turn.                                                     *)

(* An API call: done, refused, or done with an error reported.               *)
Outcomes == IF channelFaults < MaxChannelFaults
            THEN {"ok", "refused", "lost"} ELSE {"ok"}
Applied(outcome) == outcome # "refused"

Counted(t, outcome, record) ==
  /\ channelFaults' = channelFaults + (IF outcome = "ok" THEN 0 ELSE 1)
  /\ turn' = [turn EXCEPT ![t] =
               [record EXCEPT !.failed = @ \/ outcome # "ok"]]
  /\ UNCHANGED <<windowVars, channelCrashes>>

(* What the progress card shows: the cancel button comes with the run's id.  *)
Progress(record) == IF record.tracked THEN "button" ELSE "progress"

Expire(t) ==
  /\ turn[t].loop = "waiting" /\ ~ turn[t].expired
  /\ turn' = [turn EXCEPT ![t].expired = TRUE]
  /\ UNCHANGED <<windowVars, channelFaults, channelCrashes>>

(* mergeProgressUpdate, and patchProgressCard if there is a card.            *)
TakeUpdate(t) ==
  LET merged == [turn[t] EXCEPT !.updates = @ - 1, !.tracked = TRUE] IN
  /\ turn[t].loop = "waiting" /\ turn[t].updates > 0
  /\ IF merged.knowsCard
     THEN \E o \in Outcomes :
            Counted(t, o, [merged EXCEPT !.card = IF Applied(o) THEN "button" ELSE @])
     ELSE Counted(t, "ok", merged)

(* startProcessingFeedback adds the reaction ...                             *)
AddReaction(t) ==
  /\ turn[t].loop = "waiting" /\ turn[t].timer
  /\ \E o \in Outcomes :
       Counted(t, o, [turn[t] EXCEPT !.loop = "feedback", !.timer = FALSE,
                                     !.reaction = Applied(o),
                                     !.knowsReaction = (o = "ok")])

(* ... and sends the progress card.                                          *)
SendCard(t) ==
  /\ turn[t].loop = "feedback"
  /\ \E o \in Outcomes :
       Counted(t, o, [turn[t] EXCEPT !.loop = "waiting", !.knowsCard = (o = "ok"),
                        !.card = IF Applied(o) THEN Progress(turn[t]) ELSE @])

(* finishProcessingFeedback: the reaction goes, an empty reply ends it.      *)
GiveAnswer(t, answer) ==
  LET next == IF answer = "empty" THEN "over"
              ELSE IF turn[t].knowsCard THEN "patching" ELSE "sending"
      done == [turn[t] EXCEPT !.loop = next, !.answer = answer, !.timer = FALSE]
  IN
  IF turn[t].knowsReaction
  THEN \E o \in Outcomes :
         Counted(t, o, [done EXCEPT !.reaction = ~ Applied(o)])
  ELSE Counted(t, "ok", done)

(* The result of the handler; an error becomes a failure reply.              *)
TakeResult(t) ==
  /\ turn[t].loop = "waiting" /\ turn[t].handler = "returned"
  /\ GiveAnswer(t, turn[t].reply)

(* Mutant: the loop waits for the handler when the time of the turn is over. *)
TakeTimeoutLate(t) ==
  /\ turn[t].loop = "waiting" /\ turn[t].expired /\ turn[t].handler = "returned"
  /\ GiveAnswer(t, "error")

(* The time of the turn is over: a failure reply, whatever the handler does. *)
TakeTimeout(t) ==
  /\ turn[t].loop = "waiting" /\ turn[t].expired
  /\ GiveAnswer(t, "error")

(* Mutant: the answer is sent as well when it replaced the card.             *)
PatchAnswerAndSend(t) ==
  /\ turn[t].loop = "patching"
  /\ \E o \in Outcomes :
       Counted(t, o, [turn[t] EXCEPT !.loop = "sending",
                                     !.card = IF Applied(o) THEN "answer" ELSE @])

(* The answer replaces the progress card; on an error it is sent.            *)
PatchAnswer(t) ==
  /\ turn[t].loop = "patching"
  /\ \E o \in Outcomes :
       Counted(t, o, [turn[t] EXCEPT !.loop = IF o = "ok" THEN "over" ELSE "sending",
                                     !.card = IF Applied(o) THEN "answer" ELSE @])

SendAnswer(t) ==
  /\ turn[t].loop = "sending"
  /\ \E o \in Outcomes :
       Counted(t, o, [turn[t] EXCEPT !.loop = "over",
                                     !.texts = @ + (IF Applied(o) THEN 1 ELSE 0)])

(* The process dies: the window is empty, its turns are gone, the chat stays. *)
ChannelCrash ==
  /\ channelCrashes < MaxChannelCrashes
  /\ channelCrashes' = channelCrashes + 1
  /\ processed' = <<>> /\ seen' = {} /\ accepted' = <<>>
  /\ turn' = [t \in Turns |->
       IF turn[t].loop = "free" THEN turn[t]
       ELSE [turn[t] EXCEPT !.loop = IF @ = "over" THEN @ ELSE "dead",
                            !.handler = IF @ = "working" THEN "none" ELSE @,
                            !.updates = 0]]
  /\ UNCHANGED channelFaults

LoopStep(t) == TakeResult(t) \/ TakeTimeout(t) \/ SendCard(t) \/ PatchAnswer(t) \/ SendAnswer(t)

ChannelNext ==
  \/ \E m \in Messages, t \in Turns : Deliver(m, t)
  \/ \E c \in Clicks :
       ClickElsewhere(c) \/ \E t \in Turns : ClickCancel(c, t) \/ ClickDecide(c, t)
  \/ \E t \in Turns :
       \/ ShowResponse(t) \/ Report(t)
       \/ \E reply \in {"answer", "empty", "error"} : Return(t, reply)
       \/ Expire(t) \/ TakeUpdate(t) \/ AddReaction(t) \/ LoopStep(t)
  \/ ChannelCrash

(* The timer of a turn fires and its loop goes on; nothing is promised of    *)
(* handlers and of the people who click.                                     *)
ChannelFairness ==
  \A t \in Turns : WF_channelVars(Expire(t)) /\ WF_channelVars(LoopStep(t))

ChannelSpec == ChannelInit /\ [][ChannelNext]_channelVars /\ ChannelFairness

-----------------------------------------------------------------------------
(* What is known of a turn.                                                *)
TurnRecord ==
  [loop : {"free", "waiting", "feedback", "patching", "sending", "over", "dead"},
   handler : {"none", "working", "returned"},
   reply : {"none", "answer", "empty", "error"},
   answer : {"none", "answer", "empty", "error"},
   timer : BOOLEAN, expired : BOOLEAN, updates : Nat, tracked : BOOLEAN,
   knowsReaction : BOOLEAN, knowsCard : BOOLEAN, reaction : BOOLEAN,
   card : {"none", "progress", "button", "cancelling", "answer", "decided"},
   texts : Nat, cancel : {"no", "asked", "shown"}, failed : BOOLEAN]

(* Every variable keeps its shape.                                         *)
ChannelTypeOK ==
  /\ processed \in Seq(Ids) /\ seen \subseteq Ids /\ accepted \in Seq(Ids)
  /\ turn \in [Turns -> TurnRecord]
  /\ channelFaults \in Nat /\ channelCrashes \in Nat

(* The window holds the last ids accepted, and seen holds just these.       *)
WindowIsLast ==
  /\ Len(processed) = IF Len(accepted) < Window THEN Len(accepted) ELSE Window
  /\ \A i \in 1..Len(processed) :
       processed[i] = accepted[Len(accepted) - Len(processed) + i]
  /\ seen = {processed[i] : i \in 1..Len(processed)}

(* However often and in whatever order Feishu delivers its events, an id is  *)
(* accepted again only when at least Window others came in between.          *)
NoEarlyRepeat ==
  \A i, j \in 1..Len(accepted) :
    i < j /\ accepted[i] = accepted[j] => j - i > Window

(* The window of events is kept: what the service may accept is not lost and *)
(* what it must not accept again is remembered.                              *)
ChannelInv == ChannelTypeOK /\ WindowIsLast /\ NoEarlyRepeat

(* What the chat shows, or showed until it was decided, as a turn's answer.   *)
Answers(record) ==
  record.texts + (IF record.card \in {"answer", "decided"} THEN 1 ELSE 0)

(* A turn that is over gave one answer, by its card or as a message, and     *)
(* left no reaction and no progress card; it gave none only if the handler   *)
(* had nothing to say, and two, or left something, only if an API call       *)
(* reported an error; a card the user's own click replaced stays replaced,   *)
(* also when that hides the answer.                                          *)
AnswerShown ==
  \A t \in Turns : LET r == turn[t] IN
    /\ Answers(r) > 0 => r.answer \in {"answer", "error"}
    /\ ~ r.failed => Answers(r) <= 1
    /\ r.loop = "over" /\ ~ r.failed =>
         /\ ~ r.reaction
         /\ r.answer # "empty" /\ r.cancel = "no" =>
              Answers(r) = 1 /\ r.card \in {"none", "answer", "decided"}

(* Every turn comes to its end although its handler may never return.        *)
Answered ==
  \A t \in Turns : turn[t].loop = "waiting" ~> turn[t].loop \in {"over", "dead"}
=============================================================================
