------------------------------ MODULE AgentRun ------------------------------
(***************************************************************************)
(* One run of the agent: model calls and tool calls in turns until the      *)
(* model answers without a tool.  The framework's goroutine calls the model *)
(* and the tools (these in parallel) and emits events; the run's own        *)
(* goroutine consumes the events, and starts over when a required tool was  *)
(* not called, when a guard asks for a tool, or, once, when the prompt was  *)
(* too long.  All of them share the run context: budgets and tool policy.   *)
(*                                                                         *)
(* A message of the model is its number and the tool calls in it; what it   *)
(* says is left out.  A tool policy is the set of tools one of which has to *)
(* be called, {} for any tool, or None.                                     *)
(***************************************************************************)
EXTENDS Naturals, Sequences, FiniteSets

CONSTANTS Tools,
          Available,      (* the tools this agent has                        *)
          Cron,           (* the scheduling tool                             *)
          Gated,          (* the tools that wait for an approval             *)
          CallIds,        (* bound: the tool calls of a run                  *)
          Target,         (* the call that a resumed run was waiting for     *)
          TargetTool,
          Starts,         (* "new", "approved", "rejected"                   *)
          Intents,        (* "none", "schedule", "hint", "fired"             *)
          ModelLimits,    (* the limits of model calls a run may have, and   *)
          MaxToolCalls, MaxByName,  (* those of tool calls; 0: unlimited     *)
          MaxReactSteps,
          None

Outcomes == {"answered", "budget", "failed", "waiting"}

ASSUME AgentRunAssumption ==
  /\ Available \subseteq Tools /\ Gated \subseteq Tools
  /\ Cron \in Tools /\ TargetTool \in Tools
  /\ Target \in CallIds
  /\ Starts \subseteq {"new", "approved", "rejected"}
  /\ Intents \subseteq {"none", "schedule", "hint", "fired"}
  /\ ModelLimits \subseteq Nat /\ MaxToolCalls \in Nat /\ MaxReactSteps \in Nat \ {0}
  /\ MaxByName \in [Tools -> Nat]
  /\ None \notin Tools \cup Outcomes /\ \A p \in SUBSET Tools : None # p

VARIABLES
  start,       (* a new message, or the decision this run resumes with       *)
  intent,      (* what the scheduling hook makes of the user's message       *)
  maxModelCalls,
  modelCalls, toolCalls, byName,  (* RunContext: the budgets used            *)
  policy,      (* RunContext.toolPolicy                                      *)
  asked,       (* which of the reasons to start over are used up             *)
  main,        (* the run's goroutine                                        *)
  prepared,    (* preparedModelCall                                          *)
  queue,       (* requiredPolicies                                           *)
  ignored,     (* ignoredToolPolicy                                          *)
  noted,       (* observedMessages                                           *)
  exposed,     (* the tools shown to the model                               *)
  compacted,   (* the history was compacted after a prompt that was too long *)
  adk,         (* the framework's goroutine                                  *)
  steps,       (* its iterations                                             *)
  msg,         (* the model's last message                                   *)
  toolOf,      (* call -> its tool                                           *)
  stage,       (* call -> its goroutine                                      *)
  events,      (* emitted and not consumed                                   *)
  history,     (* calls whose result is in Agent.messages                    *)
  outcome,
  ran,         (* history: tool -> how often it was executed                 *)
  unmet        (* history: the last message left a required tool uncalled    *)

rigid   == <<start, intent, maxModelCalls>>
context == <<modelCalls, toolCalls, byName, policy>>
runtime == <<prepared, queue, ignored, noted, exposed, compacted>>
framework == <<adk, steps, msg, toolOf, stage>>
vars == <<rigid, context, asked, main, runtime, framework, events, history,
          outcome, ran, unmet>>

Reasons  == {"ignored", "final", "guard"}

-----------------------------------------------------------------------------
(* The run context.                                                        *)

(* Mutant: one call too many.                                              *)
LimitedLate(limit, used) == limit > 0 /\ used > limit

Limited(limit, used) == limit > 0 /\ used >= limit

CanCallTool(t) == ~ Limited(MaxToolCalls, toolCalls) /\ ~ Limited(MaxByName[t], byName[t])

(* scheduleGuidanceHook.BeforeModelCall: a clear intent to schedule requires *)
(* the tool at the first call, and nothing is required after a tool call.   *)
Hooked ==
  CASE intent = "fired" -> None
    [] intent = "schedule" /\ modelCalls = 0 -> {Cron}
    [] intent \in {"schedule", "hint"} /\ toolCalls > 0 -> None
    [] OTHER -> policy

Effective(p) ==
  IF p = None \/ Available = {} THEN None
  ELSE IF p = {} THEN {}
  ELSE IF p \cap Available = {} THEN None ELSE p \cap Available

(* beforeModelCall, with the policies this runtime already remembers.       *)
BeforeModelCall(remembered) ==
  /\ ~ Limited(maxModelCalls, modelCalls)
  /\ modelCalls' = modelCalls + 1
  /\ policy' = IF Effective(Hooked) = None THEN None ELSE Hooked
  /\ queue' = Append(remembered, Effective(Hooked))
  /\ UNCHANGED <<toolCalls, byName>>

-----------------------------------------------------------------------------
(* The run's goroutine: start, and start over.                              *)

Over(result) == main' = "over" /\ outcome' = result

(* startADKRun: a run that resumes does so every time, at the call that     *)
(* waited.                                                                 *)
StartADK ==
  /\ main' = "consume" /\ events' = <<>> /\ steps' = 0
  /\ IF start = "new"
       THEN adk' = "before" /\ UNCHANGED <<msg, toolOf, stage>>
       ELSE /\ adk' = "tools"
            /\ msg' = [no |-> 0, calls |-> {Target}]
            /\ toolOf' = [toolOf EXCEPT ![Target] = TargetTool]
            /\ stage' = [stage EXCEPT ![Target] = "asked"]

(* newEinoAgentRun and the first part of Generate.                          *)
Prepare ==
  /\ main = "prepare"
  /\ BeforeModelCall(<<>>)
  /\ prepared' = TRUE /\ ignored' = None /\ noted' = {} /\ compacted' = FALSE
  /\ exposed' = IF Effective(Hooked) = None \/ Effective(Hooked) = {} THEN Available ELSE Effective(Hooked)
  /\ StartADK
  /\ UNCHANGED <<rigid, asked, history, outcome, ran, unmet>>

PrepareRefused ==
  /\ main = "prepare"
  /\ Limited(maxModelCalls, modelCalls)
  /\ Over("budget")
  /\ UNCHANGED <<rigid, context, asked, runtime, framework, events, history, ran, unmet>>

-----------------------------------------------------------------------------
(* A message of the model is recorded by the goroutine that marks it first.  *)

Mark(m) == m.no \notin noted /\ noted' = noted \cup {m.no}

(* Mutant: an answer without the required tool goes unnoticed.              *)
NotePolicyNone(m) ==
  /\ queue' = IF queue = <<>> THEN <<>> ELSE Tail(queue)
  /\ UNCHANGED ignored
  /\ policy' = IF m.calls = {} THEN policy ELSE None
  /\ unmet' = (m.calls = {} /\ policy # None)
  /\ UNCHANGED <<modelCalls, toolCalls, byName, prepared, noted, exposed, compacted>>

(* recordAssistantMessage.                                                  *)
Note(m) ==
  /\ queue' = IF queue = <<>> THEN <<>> ELSE Tail(queue)
  /\ ignored' = IF m.calls = {} /\ queue # <<>> /\ Head(queue) # None
                THEN Head(queue) ELSE ignored
  /\ policy' = IF m.calls = {} THEN policy ELSE None
  /\ unmet' = (m.calls = {} /\ policy # None)
  /\ UNCHANGED <<modelCalls, toolCalls, byName, prepared, noted, exposed, compacted>>

Emit(e) == events' = Append(events, e)

(* After AfterModelRewriteState the framework calls the tools or ends.      *)
Proceed ==
  IF msg.calls = {}
  THEN adk' = "idle" /\ Emit([kind |-> "end"]) /\ UNCHANGED stage
  ELSE /\ adk' = "tools" /\ UNCHANGED events
       /\ stage' = [c \in CallIds |-> IF c \in msg.calls THEN "asked" ELSE stage[c]]

-----------------------------------------------------------------------------
(* The framework's goroutine.                                               *)

Ends(kind) == adk' = "idle" /\ Emit([kind |-> kind]) /\ UNCHANGED <<steps, msg, toolOf, stage>>

(* BeforeModelRewriteState; the first call was already paid for.            *)
CallModel ==
  /\ adk = "before" /\ steps < MaxReactSteps
  /\ adk' = "model" /\ steps' = steps + 1
  /\ \/ prepared /\ prepared' = FALSE /\ UNCHANGED <<context, queue>>
     \/ ~ prepared /\ BeforeModelCall(queue) /\ UNCHANGED prepared
  /\ UNCHANGED <<rigid, asked, main, ignored, noted, exposed, compacted, msg, toolOf, stage,
                 events, history, outcome, ran, unmet>>

CallRefused ==
  /\ adk = "before"
  /\ \/ steps = MaxReactSteps /\ Ends("failed")
     \/ steps < MaxReactSteps /\ ~ prepared /\ Limited(maxModelCalls, modelCalls) /\ Ends("budget")
  /\ UNCHANGED <<rigid, context, asked, main, runtime, history, outcome, ran, unmet>>

ModelAnswers ==
  /\ adk = "model"
  /\ \E calls \in SUBSET {c \in CallIds \ {Target} : stage[c] = "none"} :
       \E tool \in [calls -> exposed] :
         /\ msg' = [no |-> modelCalls, calls |-> calls]
         /\ toolOf' = [c \in CallIds |-> IF c \in calls THEN tool[c] ELSE toolOf[c]]
  /\ adk' = "after"
  /\ Emit([kind |-> "message", msg |-> msg'])
  /\ UNCHANGED <<rigid, context, asked, main, runtime, steps, stage, history, outcome, ran, unmet>>

ModelFails ==
  /\ adk = "model"
  /\ \E kind \in {"tooLong", "failed"} : Ends(kind)
  /\ UNCHANGED <<rigid, context, asked, main, runtime, history, outcome, ran, unmet>>

(* AfterModelRewriteState.                                                  *)
AfterModel ==
  /\ adk = "after"
  /\ \/ Mark(msg) /\ adk' = "noting" /\ UNCHANGED <<events, stage>>
     \/ msg.no \in noted /\ Proceed /\ UNCHANGED noted
  /\ UNCHANGED <<rigid, context, asked, main, prepared, queue, ignored, exposed, compacted,
                 steps, msg, toolOf, history, outcome, ran, unmet>>

FrameworkNotes ==
  /\ adk = "noting"
  /\ Note(msg)
  /\ Proceed
  /\ UNCHANGED <<rigid, asked, main, steps, msg, toolOf, history, outcome, ran>>

-----------------------------------------------------------------------------
(* One goroutine per tool call: toolCallMiddleware.                         *)

Resumes(c) == c = Target /\ start # "new"

Gates(c) ==
  /\ stage[c] = "asked" /\ toolOf[c] \in Gated /\ ~ Resumes(c)
  /\ stage' = [stage EXCEPT ![c] = "gated"]
  /\ UNCHANGED <<rigid, context, asked, main, runtime, adk, steps, msg, toolOf, events,
                 history, outcome, ran, unmet>>

Passes(c) ==
  /\ stage[c] = "asked"
  /\ \/ toolOf[c] \notin Gated /\ ~ Resumes(c)
     \/ Resumes(c) /\ start = "approved"

(* Mutant: a result that does not say whose it is.                         *)
ResultUnnamed(c) ==
  /\ stage' = [stage EXCEPT ![c] = "done"]
  /\ Emit([kind |-> "result"])
  /\ UNCHANGED <<rigid, modelCalls, policy, asked, main, runtime, adk, steps, msg, toolOf,
                 history, outcome, unmet>>

Result(c) ==
  /\ stage' = [stage EXCEPT ![c] = "done"]
  /\ Emit([kind |-> "result", call |-> c])
  /\ UNCHANGED <<rigid, modelCalls, policy, asked, main, runtime, adk, steps, msg, toolOf,
                 history, outcome, unmet>>

(* Mutant: a call beyond the budget has no result.                          *)
RefusedSilently(c) ==
  /\ stage[c] = "asked" /\ Resumes(c) /\ start = "rejected"
  /\ Result(c)
  /\ UNCHANGED <<toolCalls, byName, ran>>

(* A rejected call, or one beyond the budget, has a result and does nothing. *)
Refused(c) ==
  /\ \/ stage[c] = "asked" /\ Resumes(c) /\ start = "rejected"
     \/ Passes(c) /\ ~ CanCallTool(toolOf[c])
  /\ Result(c)
  /\ UNCHANGED <<toolCalls, byName, ran>>

(* reserveToolCall, and the tool runs.                                      *)
Reserve(c) ==
  /\ Passes(c) /\ CanCallTool(toolOf[c])
  /\ toolCalls' = toolCalls + 1
  /\ byName' = [byName EXCEPT ![toolOf[c]] = @ + 1]
  /\ ran' = [ran EXCEPT ![toolOf[c]] = @ + 1]
  /\ stage' = [stage EXCEPT ![c] = "running"]
  /\ UNCHANGED <<rigid, modelCalls, policy, asked, main, runtime, adk, steps, msg, toolOf,
                 events, history, outcome, unmet>>

Returns(c) ==
  /\ stage[c] = "running"
  /\ Result(c)
  /\ UNCHANGED <<toolCalls, byName, ran>>

(* The framework waits for all calls; one that is gated interrupts the run. *)
ToolsDone ==
  /\ adk = "tools" /\ \A c \in msg.calls : stage[c] \in {"done", "gated"}
  /\ IF \E c \in msg.calls : stage[c] = "gated"
       THEN Ends("waiting")
       ELSE adk' = "before" /\ UNCHANGED <<steps, msg, toolOf, stage, events>>
  /\ UNCHANGED <<rigid, context, asked, main, runtime, history, outcome, ran, unmet>>

-----------------------------------------------------------------------------
(* The run's goroutine: consumeADKEvents.                                   *)

Comes(kind) == main = "consume" /\ events # <<>> /\ Head(events).kind = kind

ConsumeMessage ==
  /\ Comes("message")
  /\ \/ /\ Mark(Head(events).msg) /\ main' = "noting" /\ UNCHANGED events
     \/ /\ Head(events).msg.no \in noted
        /\ events' = Tail(events) /\ UNCHANGED <<main, noted>>
  /\ UNCHANGED <<rigid, context, asked, prepared, queue, ignored, exposed, compacted, framework,
                 history, outcome, ran, unmet>>

ConsumerNotes ==
  /\ main = "noting"
  /\ Note(Head(events).msg)
  /\ main' = "consume" /\ events' = Tail(events)
  /\ UNCHANGED <<rigid, asked, framework, history, outcome, ran>>

ConsumeResult ==
  /\ Comes("result")
  /\ history' = history \cup {Head(events).call}
  /\ events' = Tail(events)
  /\ UNCHANGED <<rigid, context, asked, main, runtime, framework, outcome, ran, unmet>>

(* A prompt that is too long is tried again once, with a shorter history.   *)
ConsumeTooLong ==
  /\ Comes("tooLong")
  /\ \/ /\ ~ compacted /\ compacted' = TRUE
        /\ StartADK
        /\ UNCHANGED outcome
     \/ /\ compacted /\ Over("failed")
        /\ UNCHANGED <<compacted, framework, events>>
  /\ UNCHANGED <<rigid, context, asked, prepared, queue, ignored, noted, exposed, history, ran, unmet>>

ConsumeStop ==
  /\ \E kind \in {"failed", "budget", "waiting"} : Comes(kind) /\ Over(kind)
  /\ UNCHANGED <<rigid, context, asked, runtime, framework, events, history, ran, unmet>>

(* Mutant: the end is noticed before what came before it.                   *)
ConsumeEndEarly ==
  /\ main = "consume" /\ events # <<>> /\ events[Len(events)].kind = "end"
  /\ main' = "judge" /\ events' = <<>>
  /\ UNCHANGED <<rigid, context, asked, runtime, framework, history, outcome, ran, unmet>>

ConsumeEnd ==
  /\ Comes("end")
  /\ main' = "judge" /\ events' = <<>>
  /\ UNCHANGED <<rigid, context, asked, runtime, framework, history, outcome, ran, unmet>>

(* Mutant: nothing remembers that the run has started over.                 *)
AskAgainForgets(reason, p) ==
  /\ main' = "prepare"
  /\ policy' = p
  /\ UNCHANGED <<asked, modelCalls, toolCalls, byName, outcome>>

AskAgain(reason, p) ==
  /\ main' = "prepare"
  /\ policy' = p
  /\ asked' = asked \cup reason
  /\ UNCHANGED <<modelCalls, toolCalls, byName, outcome>>

(* RetryIgnoredToolPolicy.                                                  *)
RetryIgnored ==
  /\ main = "judge" /\ ignored # None /\ "ignored" \notin asked
  /\ AskAgain({"ignored"}, ignored)
  /\ ignored' = None
  /\ UNCHANGED <<rigid, prepared, queue, noted, exposed, compacted, framework, events, history,
                 ran, unmet>>

(* toolGroundingGuardHook.requestRetry: the tools a claim needs, which may   *)
(* be none in particular and may be tools this agent does not have.         *)
GuardRequires(p) ==
  /\ "guard" \notin asked /\ ~ Limited(maxModelCalls, modelCalls)
  /\ \E claimed \in SUBSET Tools :
       IF claimed = {} THEN p = {} /\ ~ Limited(MaxToolCalls, toolCalls)
       ELSE p = {t \in claimed : CanCallTool(t)} /\ p # {}

(* FinalizeRun and retryFinalizationToolPolicy.                             *)
Finalize ==
  /\ main = "judge" /\ (ignored = None \/ "ignored" \in asked)
  /\ ignored' = None
  /\ \/ \E p \in SUBSET Tools :
          /\ GuardRequires(p)
          /\ IF "final" \in asked
               THEN /\ asked' = asked \cup {"guard"} /\ policy' = p /\ Over("answered")
                    /\ UNCHANGED <<modelCalls, toolCalls, byName>>
               ELSE AskAgain({"guard", "final"}, p)
     \/ IF policy # None /\ "final" \notin asked
          THEN AskAgain({"final"}, policy)
          ELSE Over("answered") /\ UNCHANGED <<context, asked>>
  /\ UNCHANGED <<rigid, prepared, queue, noted, exposed, compacted, framework, events, history,
                 ran, unmet>>

-----------------------------------------------------------------------------
Init ==
  /\ start \in Starts /\ intent \in Intents /\ maxModelCalls \in ModelLimits
  /\ modelCalls = 0 /\ toolCalls = 0 /\ byName = [t \in Tools |-> 0]
  /\ policy = None /\ asked = {} /\ main = "prepare"
  /\ prepared = FALSE /\ queue = <<>> /\ ignored = None /\ noted = {}
  /\ exposed = {} /\ compacted = FALSE
  /\ adk = "idle" /\ steps = 0 /\ msg = [no |-> 0, calls |-> {}]
  /\ toolOf = [c \in CallIds |-> None] /\ stage = [c \in CallIds |-> "none"]
  /\ events = <<>> /\ history = {} /\ outcome = None
  /\ ran = [t \in Tools |-> 0] /\ unmet = FALSE

MainStep ==
  \/ Prepare \/ PrepareRefused \/ ConsumeMessage \/ ConsumerNotes \/ ConsumeResult
  \/ ConsumeTooLong \/ ConsumeStop \/ ConsumeEnd \/ RetryIgnored \/ Finalize

FrameworkStep ==
  \/ CallModel \/ CallRefused \/ ModelAnswers \/ ModelFails
  \/ AfterModel \/ FrameworkNotes \/ ToolsDone

ToolStep(c) == Gates(c) \/ Refused(c) \/ Reserve(c) \/ Returns(c)

Next == MainStep \/ FrameworkStep \/ \E c \in CallIds : ToolStep(c)

Spec == Init /\ [][Next]_vars

(* Goroutines run, and a call of the model or of a tool returns.            *)
Fairness ==
  /\ WF_vars(MainStep) /\ WF_vars(FrameworkStep)
  /\ \A c \in CallIds : WF_vars(ToolStep(c))

FairSpec == Spec /\ Fairness
-----------------------------------------------------------------------------
Policies == {None} \cup SUBSET Tools
Messages == [no : Nat, calls : SUBSET CallIds]
Event    == [kind : {"message"}, msg : Messages] \cup [kind : {"result"}, call : CallIds]
              \cup [kind : {"end", "tooLong", "failed", "budget", "waiting"}]

(* The types of a run.                                                     *)
TypeOK ==
  /\ start \in Starts /\ intent \in Intents /\ maxModelCalls \in ModelLimits
  /\ modelCalls \in Nat /\ toolCalls \in Nat /\ byName \in [Tools -> Nat]
  /\ policy \in Policies /\ asked \subseteq Reasons
  /\ main \in {"prepare", "consume", "noting", "judge", "over"}
  /\ prepared \in BOOLEAN /\ queue \in Seq(Policies) /\ ignored \in Policies
  /\ noted \subseteq Nat /\ exposed \subseteq Tools /\ compacted \in BOOLEAN
  /\ adk \in {"idle", "before", "model", "after", "noting", "tools"}
  /\ steps \in Nat /\ msg \in Messages
  /\ toolOf \in [CallIds -> Tools \cup {None}]
  /\ stage \in [CallIds -> {"none", "asked", "gated", "running", "done"}]
  /\ events \in Seq(Event) /\ history \subseteq CallIds
  /\ outcome \in Outcomes \cup {None}
  /\ ran \in [Tools -> Nat] /\ unmet \in BOOLEAN

(* Whatever runs in parallel, starts over or is resumed: no budget is       *)
(* exceeded, in total or for one tool, and no tool runs uncounted.          *)
BudgetHeld ==
  /\ maxModelCalls > 0 => modelCalls <= maxModelCalls
  /\ MaxToolCalls > 0 => toolCalls <= MaxToolCalls
  /\ \A t \in Tools : /\ MaxByName[t] > 0 => ran[t] <= MaxByName[t]
                     /\ ran[t] = byName[t]

(* A run starts over twice at most and compacts once per start, so even      *)
(* without a budget it calls the model only so often.                       *)
RunIsShort == modelCalls <= 6 * MaxReactSteps

(* The run does not end with an answer that left a required tool uncalled   *)
(* before both ways to ask for it again are used up.                        *)
UnmetIsAsked == outcome = "answered" /\ unmet => {"ignored", "final"} \subseteq asked

(* When the run starts over, the history it goes on from has the results of *)
(* all calls made so far.                                                   *)
ResultsAreKnown ==
  [][main' = "prepare" \/ (compacted' /\ ~ compacted) =>
       \A c \in CallIds : stage[c] \in {"running", "done"} => c \in history]_vars

(* Every run ends: with an answer, at a budget, waiting or with an error.   *)
RunEnds == <>(main = "over")

(* hook.go:268 says that the policy is cleared once a tool returned.  The    *)
(* run is told to call a required tool only if it has not done so.          *)
ToldOnlyIfNotCalled ==
  [][\A t \in Tools : "ignored" \in asked' \ asked /\ ignored = {t} => ran[t] = 0]_vars
=============================================================================
