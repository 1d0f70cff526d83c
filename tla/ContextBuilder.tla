---------------------------- MODULE ContextBuilder ----------------------------
(***************************************************************************)
(* What the model is given: the messages of agent/context_builder.go and   *)
(* agent/context_compact.go.  An agent keeps every message it records; a   *)
(* run works on a list of its own, which is cut down before every call of  *)
(* the model, by size and by number, and is then the list it goes on with. *)
(* Of a message there is its size, the calls in it or the call it answers. *)
(* Sizes stand for runes; what is not content of a message counts one, and  *)
(* one more for each of its calls.                                          *)
(***************************************************************************)
EXTENDS Integers, Sequences, FiniteSets

SE == INSTANCE SequencesExt

CONSTANTS
  UserSizes,          (* sizes of what users write                           *)
  ResultSizes,        (* sizes of what tools return                          *)
  MaxInput,           (* maxInputRunes                                       *)
  ConversationBudget, (* conversationBudgetRunes                             *)
  SummaryThreshold,   (* compactSummaryThresholdRunes                        *)
  MaxConversation,    (* maxConversationMessages                             *)
  SnipHead,           (* snipHeadMessages                                    *)
  KeepRecent,         (* keepRecentToolResults                               *)
  ToolResultBudget,   (* toolResultBudgetRunes                               *)
  PersistThreshold,   (* toolResultPersistThreshold                          *)
  Preview,            (* toolResultPreviewRunes                              *)
  ReactiveTail,       (* compactReactiveTailMessages                         *)
  MaxCalls,           (* bound: calls in a message of the model              *)
  MaxHistory          (* bound: messages an agent keeps                      *)

ASSUME ContextAssumption ==
  /\ UserSizes \cup ResultSizes \subseteq Nat \ {0}
  /\ {ConversationBudget, SnipHead, Preview, ReactiveTail, MaxCalls} \subseteq Nat \ {0}
  /\ {SummaryThreshold, KeepRecent, ToolResultBudget, MaxHistory} \subseteq Nat
  /\ MaxInput \in Nat /\ ConversationBudget <= MaxInput
  /\ MaxConversation \in Nat /\ SnipHead + 1 < MaxConversation
  /\ PersistThreshold \in Nat /\ Preview < PersistThreshold

VARIABLES
  history,   (* Agent.messages                                               *)
  messages,  (* the messages of the run: those the model was last given, and *)
             (* what came since                                              *)
  phase,     (* what the run does next                                       *)
  run,       (* the number of the run, that of its user message              *)
  retried,   (* it was started again after a prompt that was too long        *)
  reminders  (* how often it was started again with a reminder               *)

contextVars == <<history, messages, phase, run, retried, reminders>>

Message(role, kind, size) ==
  [role |-> role, kind |-> kind, size |-> size, of |-> 0, calls |-> {}, answers |-> 0]

System      == Message("system", "prompt", 1)
Summary     == Message("user", "summary", 1)
Placeholder == Message("user", "placeholder", 1)
Reminder    == Message("user", "reminder", 1)

HasToolUse(m) == m.calls # {}

(* messageRunes, messagesRunes.                                             *)
Runes(m) == m.size + 1 + Cardinality(m.calls)
TotalRunes(list) ==
  LET total[n \in 0..Len(list)] == IF n = 0 THEN 0 ELSE total[n - 1] + Runes(list[n])
  IN total[Len(list)]

From(list, i) == SubSeq(list, i, Len(list))
UsersIn(list) == {i \in 1..Len(list) : list[i].role = "user"}
ToolsIn(list) == {i \in 1..Len(list) : list[i].role = "tool"}

Greatest(S) == CHOOSE i \in S : \A j \in S : j <= i
Least(S)    == CHOOSE i \in S : \A j \in S : i <= j

(* The result at i stands behind the call at j, with results only between.   *)
Behind(list, i, j) ==
  j < i /\ HasToolUse(list[j]) /\ j + 1 .. i \subseteq ToolsIn(list)

-----------------------------------------------------------------------------
(* BuildPreCompact.                                                        *)

SizeOf(list, S) == SE!FoldSet(LAMBDA i, total : total + list[i].size, 0, S)

(* applyToolResultBudget: of the results the list ends with the largest are  *)
(* replaced by a path and a preview, until what is left fits; one that cannot *)
(* be saved is replaced by a note.                                          *)
LatestResults(list) ==
  {i \in ToolsIn(list) : i .. Len(list) \subseteq ToolsIn(list)}

ApplyToolResultBudget(list, saved) ==
  LET latest  == LatestResults(list)
      large   == {i \in latest : list[i].size > PersistThreshold}
      first(i) == {j \in large : list[j].size > list[i].size
                                 \/ (list[j].size = list[i].size /\ j < i)}
      short   == IF saved THEN Preview + 1 ELSE 1
      left(i) == SizeOf(list, latest \ first(i)) + short * Cardinality(first(i))
  IN [i \in 1..Len(list) |->
        IF i \in large /\ left(i) > ToolResultBudget
        THEN [list[i] EXCEPT !.size = short] ELSE list[i]]

(* Mutant: the tail starts where it starts.                                *)
PairedStartAnyhow(list, start) == start

(* adjustTailStartForToolPair: a tail that would start among the results of a *)
(* call starts with the call.                                               *)
PairedStart(list, start) ==
  LET callers == {j \in 1..Len(list) : start <= Len(list) /\ Behind(list, start, j)}
  IN IF callers = {} THEN start ELSE CHOOSE j \in callers : TRUE

(* snipCompactMessages: too many, and the middle is replaced by a note.      *)
Snip(list) ==
  LET tail    == MaxConversation - SnipHead - 1
      headEnd == CHOOSE e \in SnipHead..Len(list) :
                   /\ e = SnipHead \/ Behind(list, e, SnipHead)
                   /\ e = Len(list) \/ ~ Behind(list, e + 1, SnipHead)
      start   == PairedStart(list, Len(list) - tail + 1)
  IN IF Len(list) <= MaxConversation \/ headEnd + 1 >= start THEN list
     ELSE SubSeq(list, 1, headEnd) \o <<Placeholder>> \o From(list, start)

(* microCompactToolResults: a note instead of an older result.               *)
MicroCompact(list) ==
  [i \in 1..Len(list) |->
     IF /\ i \in ToolsIn(list) /\ list[i].size > Preview
        /\ Cardinality({j \in ToolsIn(list) : j > i}) >= KeepRecent
     THEN [list[i] EXCEPT !.size = 1] ELSE list[i]]

(* The system prompt is made anew; it is the first message already.          *)
PreCompact(list, saved) == MicroCompact(Snip(ApplyToolResultBudget(list, saved)))

-----------------------------------------------------------------------------
(* FinalizeBudget.                                                         *)

Shorten(m, budget) == [m EXCEPT !.size = IF @ > budget THEN budget ELSE @]

(* truncateMessageGroup: what fits, and the next message cut to what is left. *)
TruncateGroup(group, budget) ==
  LET fits == CHOOSE n \in 0..Len(group) :
                /\ TotalRunes(SubSeq(group, 1, n)) <= budget
                /\ n = Len(group) \/ TotalRunes(SubSeq(group, 1, n + 1)) > budget
      left == budget - TotalRunes(SubSeq(group, 1, fits))
  IN IF fits = Len(group) \/ left = 0 THEN SubSeq(group, 1, fits)
     ELSE Append(SubSeq(group, 1, fits), Shorten(group[fits + 1], left))

(* keepTailMessageGroups: as many groups, of a call and its results or of one *)
(* other message, as fit; of the last one what fits.                        *)
KeepTailGroups(list, budget) ==
  LET starts == {i \in 1..Len(list) : ~ \E j \in 1..i : Behind(list, i, j)}
      fitting == {i \in starts : TotalRunes(From(list, i)) <= budget}
  IN CASE budget <= 0 \/ list = <<>> -> <<>>
       [] budget > 0 /\ list # <<>> /\ fitting = {} ->
            TruncateGroup(From(list, Greatest(starts)), budget)
       [] OTHER -> From(list, Least(fitting))

(* compactRequiredMessagesToBudget: the user's message comes first.          *)
CompactRequired(required) ==
  LET latestUser == Shorten(required[1], ConversationBudget)
  IN <<latestUser>> \o KeepTailGroups(Tail(required), ConversationBudget - Runes(latestUser))

(* pruneConversationToBudget.                                              *)
Prune(list) ==
  LET rest  == Tail(list)
      users == UsersIn(rest)
      last  == Greatest(users)
      required == From(rest, last)
      kept == IF users = {} THEN KeepTailGroups(rest, ConversationBudget)
              ELSE IF TotalRunes(required) > ConversationBudget
              THEN CompactRequired(required)
              ELSE KeepTailGroups(SubSeq(rest, 1, last - 1),
                                  ConversationBudget - TotalRunes(required)) \o required
  IN IF TotalRunes(list) <= MaxInput \/ TotalRunes(rest) <= ConversationBudget
     THEN list ELSE <<list[1]>> \o kept

-----------------------------------------------------------------------------
(* Summaries.                                                              *)

IsSummary(m) == m.kind = "summary"
Summarised(list) == \E i \in 1..Len(list) : IsSummary(list[i])
AsksForSummary(list) == \E i \in 1..Len(list) : list[i].kind = "compact"

(* The model that summarises fails, or the summary replaces all there is.    *)
CompactHistory(list) ==
  IF Summarised(list) \/ (TotalRunes(list) <= SummaryThreshold /\ ~ AsksForSummary(list))
  THEN {list} ELSE {list, <<list[1], Summary>>}

(* reactiveCompactHistory: some of the last messages stay with the summary;    *)
(* there is no older one to take out of them.                               *)
ReactiveCompact(list) ==
  LET rest  == Tail(list)
      first == Len(rest) - ReactiveTail + 1
      start == PairedStart(rest, IF first < 1 THEN 1 ELSE first)
  IN IF Summarised(list) THEN {list}
     ELSE {list, <<list[1], Summary>> \o From(rest, start)}

-----------------------------------------------------------------------------
(* A run.                                                                  *)

ContextInit ==
  /\ history = <<System>> /\ messages = <<>>
  /\ phase = "idle" /\ run = 0 /\ retried = FALSE /\ reminders = 0

(* runMessageWithTraceOptions.                                             *)
StartRun(size) ==
  /\ phase = "idle" /\ Len(history) < MaxHistory
  /\ run' = run + 1
  /\ history' = Append(history, [Message("user", "input", size) EXCEPT !.of = run + 1])
  /\ messages' = history' /\ phase' = "ready"
  /\ UNCHANGED <<retried, reminders>>

(* BeforeModelRewriteState, buildModelMessages: what the model gets, the run  *)
(* goes on with.                                                            *)
BuildModelMessages ==
  /\ phase = "ready"
  /\ \E saved \in BOOLEAN : \E list \in CompactHistory(PreCompact(messages, saved)) :
       messages' = Prune(list)
  /\ phase' = "asked"
  /\ UNCHANGED <<history, run, retried, reminders>>

(* The prompt was too long: once, the run starts again with less.            *)
PromptTooLong ==
  /\ phase = "asked" /\ ~ retried
  /\ \E list \in ReactiveCompact(history) : history' = list /\ messages' = list
  /\ phase' = "ready" /\ retried' = TRUE
  /\ UNCHANGED <<run, reminders>>

(* The model asks for tools: their calls have the next numbers.              *)
CallTools(n) ==
  /\ phase = "asked" /\ Len(history) + 1 + n <= MaxHistory
  /\ LET issued == Greatest({0} \cup UNION {history[i].calls : i \in 1..Len(history)}) IN
     LET asking == [Message("assistant", "answer", 1) EXCEPT !.calls = issued + 1 .. issued + n]
     IN history' = Append(history, asking) /\ messages' = Append(messages, asking)
  /\ phase' = "tools"
  /\ UNCHANGED <<run, retried, reminders>>

Results(call, size, kind) == [Message("tool", kind, size) EXCEPT !.answers = call]

(* The results come into the list of the run in the order of the calls; into  *)
(* that of the agent in the order the tools finish.                          *)
ToolsReturn ==
  LET calls == messages[Len(messages)].calls
      first == CHOOSE c \in calls : \A d \in calls : c <= d
  IN
  /\ phase = "tools" /\ phase' = "ready"
  /\ \E size \in [calls -> ResultSizes], compact \in {{}, {first}} :
       LET result(c) == Results(c, IF c \in compact THEN 1 ELSE size[c],
                                IF c \in compact THEN "compact" ELSE "result")
           ordered == [i \in 1..Cardinality(calls) |-> result(first + i - 1)]
       IN /\ messages' = messages \o ordered
          /\ history' \in {history \o ordered, history \o SE!Reverse(ordered)}
  /\ UNCHANGED <<run, retried, reminders>>

EndRun ==
  /\ phase' = "idle" /\ messages' = <<>> /\ retried' = FALSE /\ reminders' = 0
  /\ UNCHANGED run

(* The final answer, or an answer that is not accepted: the run starts again  *)
(* with a reminder, once for each of two reasons.                            *)
GiveFinal ==
  /\ phase = "asked" /\ Len(history) < MaxHistory
  /\ history' = Append(history, Message("assistant", "answer", 1))
  /\ EndRun

Remind ==
  /\ phase = "asked" /\ Len(history) + 1 < MaxHistory /\ reminders < 2
  /\ history' = history \o <<Message("assistant", "answer", 1), Reminder>>
  /\ messages' = history' /\ phase' = "ready"
  /\ reminders' = reminders + 1 /\ retried' = FALSE
  /\ UNCHANGED run

(* The run fails or is cancelled; the results recorded by then stay.         *)
StopRun ==
  /\ phase # "idle"
  /\ \/ UNCHANGED history
     \/ /\ phase = "tools"
        /\ \E c \in messages[Len(messages)].calls, size \in ResultSizes :
             history' = Append(history, Results(c, size, "result"))
  /\ EndRun

ContextNext ==
  \/ \E size \in UserSizes : StartRun(size)
  \/ BuildModelMessages \/ PromptTooLong
  \/ \E n \in 1..MaxCalls : CallTools(n)
  \/ ToolsReturn \/ GiveFinal \/ Remind \/ StopRun

ContextSpec == ContextInit /\ [][ContextNext]_contextVars

-----------------------------------------------------------------------------
IsList(list) == Len(list) > 0 /\ \A i \in 1..Len(list) :
  /\ DOMAIN list[i] = {"role", "kind", "size", "of", "calls", "answers"}
  /\ list[i].size \in Nat /\ list[i].calls \subseteq Nat
  /\ list[i].role = "system" <=> i = 1

(* Every variable keeps its shape.                                         *)
ContextTypeOK ==
  /\ IsList(history) /\ (messages = <<>> \/ IsList(messages))
  /\ phase \in {"idle", "ready", "asked", "tools"}
  /\ run \in Nat /\ retried \in BOOLEAN /\ reminders \in 0..2

(* However the list was cut down, a result the model gets stands behind the  *)
(* call it answers: providers refuse one that does not.                      *)
NoOrphanResult ==
  phase = "asked" => \A i \in ToolsIn(messages) :
    \E j \in 1..i : Behind(messages, i, j) /\ messages[i].answers \in messages[j].calls

(* The last that the model hears from the user is what the run was started   *)
(* with, cut off or not, unless a summary took its place or a message in the  *)
(* name of the user, a reminder or a note, came behind it.                   *)
LatestUserKept ==
  phase = "asked" =>
    LET last == messages[Greatest({0} \cup UsersIn(messages))]
    IN  /\ UsersIn(messages) # {}
        /\ last.of = run \/ last.kind \in {"summary", "placeholder", "reminder"}

(* What the model gets besides the system prompt fits the budget, up to the  *)
(* part of one message that is not content, or all of it the limit.          *)
WithinBudget ==
  phase = "asked" =>
    \/ TotalRunes(messages) <= MaxInput
    \/ TotalRunes(Tail(messages)) <= ConversationBudget + 1 + MaxCalls

(* What the model gets has no result without its call, the question in it,   *)
(* and bounded size, whatever was snipped, summarised or truncated.          *)
ContextInv == ContextTypeOK /\ NoOrphanResult /\ LatestUserKept /\ WithinBudget

(* A call the model gets comes with its result if there is one, as           *)
(* docs/architecture.md says: the builder keeps the chain complete, and what *)
(* it keeps it keeps by groups of a call and its results.                    *)
CallsAnswered ==
  phase = "asked" => \A i \in 1..Len(messages) : \A c \in messages[i].calls :
    (\E k \in ToolsIn(history) : history[k].answers = c) =>
      \E j \in ToolsIn(messages) : messages[j].answers = c
===============================================================================
