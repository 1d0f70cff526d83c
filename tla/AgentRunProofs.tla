--------------------------- MODULE AgentRunProofs ---------------------------
(***************************************************************************)
(* Proofs about module AgentRun, for all tools, budgets and limits: its     *)
(* variables keep their shape, no budget is exceeded, and a run is short    *)
(* although it may start over and its budget may be unlimited.  A run that  *)
(* starts over knows all results so far, and none ends with an answer that  *)
(* left a required tool uncalled before both ways to ask for it are used up. *)
(***************************************************************************)
EXTENDS AgentRun, TLAPS

USE AgentRunAssumption DEF AgentRunAssumption

-----------------------------------------------------------------------------
(* The inductive invariants.                                               *)

(* Whoever is about to note the next message has one.                      *)
Noting == main = "noting" => events # <<>>

TypeInv == TypeOK /\ Noting

(* The framework emits nothing after an end, and has ended when the run's   *)
(* goroutine decides.                                                      *)
Flowing(es) == \A i \in DOMAIN es : es[i].kind \in {"message", "result"}

Quiet ==
  /\ main \notin {"consume", "noting"} => adk = "idle"
  /\ adk # "idle" => Flowing(events)

(* What the run may still call the model: in this start, and in later ones. *)
Once(reason) == IF reason \in asked THEN 0 ELSE 2 * MaxReactSteps

ThisStart ==
  IF main = "prepare" THEN 2 * MaxReactSteps
  ELSE (IF compacted THEN 0 ELSE MaxReactSteps) + (MaxReactSteps - steps)
         - (IF prepared THEN 1 ELSE 0)

Counted ==
  /\ steps <= MaxReactSteps
  /\ prepared => steps = 0
  /\ modelCalls + ThisStart + Once("ignored") + Once("final") <= 6 * MaxReactSteps

-----------------------------------------------------------------------------
(* What the scheduling hook requires, and what is left of it for the tools   *)
(* at hand, are policies.                                                  *)
LEMMA Required ==
  ASSUME TypeOK
  PROVE  Hooked \in Policies /\ Effective(Hooked) \in Policies
  <1>1. Hooked \in Policies
    BY DEF TypeOK, Hooked, Policies
  <1> QED
    BY <1>1 DEF Effective, Policies

(* The first event carries what its kind says.                             *)
LEMMA First ==
  ASSUME TypeOK, events # <<>>
  PROVE  /\ Tail(events) \in Seq(Event) /\ Head(events) \in Event
         /\ Head(events).kind = "message" => Head(events).msg \in Messages
         /\ Head(events).kind = "result" => Head(events).call \in CallIds
  BY DEF TypeOK, Event

(* Preparing a call of the model keeps the context well typed.             *)
LEMMA PaidTyped ==
  ASSUME TypeOK, NEW q \in Seq(Policies), BeforeModelCall(q)
  PROVE  /\ modelCalls' \in Nat /\ toolCalls' \in Nat /\ byName' \in [Tools -> Nat]
         /\ policy' \in Policies /\ queue' \in Seq(Policies)
  BY Required DEF BeforeModelCall, TypeOK, Policies

(* Starting the framework keeps its part well typed.                        *)
LEMMA StartTyped ==
  ASSUME TypeOK, StartADK
  PROVE  /\ main' = "consume" /\ events' = <<>> /\ steps' = 0
         /\ adk' \in {"before", "tools"} /\ msg' \in Messages
         /\ toolOf' \in [CallIds -> Tools \cup {None}]
         /\ stage' \in [CallIds -> {"none", "asked", "gated", "running", "done"}]
  <1>1. CASE start = "new"
    BY <1>1 DEF StartADK, TypeOK
  <1>2. CASE start # "new"
    <2>1. adk' = "tools" /\ main' = "consume" /\ events' = <<>> /\ steps' = 0
      BY <1>2 DEF StartADK
    <2>2. msg' \in Messages
      BY <1>2 DEF StartADK, Messages
    <2>3. toolOf' \in [CallIds -> Tools \cup {None}]
      BY <1>2 DEF StartADK, TypeOK
    <2>4. stage' \in [CallIds -> {"none", "asked", "gated", "running", "done"}]
      BY <1>2 DEF StartADK, TypeOK
    <2> QED
      BY <2>1, <2>2, <2>3, <2>4
  <1> QED
    BY <1>1, <1>2

(* Recording a message keeps the runtime well typed.                        *)
LEMMA NoteTyped ==
  ASSUME TypeOK, NEW m, Note(m)
  PROVE  /\ queue' \in Seq(Policies) /\ ignored' \in Policies
         /\ policy' \in Policies /\ unmet' \in BOOLEAN
  BY DEF Note, TypeOK, Policies

(* An event that is emitted keeps the events well typed.                    *)
LEMMA EmitTyped ==
  ASSUME TypeOK, NEW e \in Event, Emit(e)
  PROVE  events' \in Seq(Event) /\ events' # <<>>
  BY DEF TypeOK, Emit

Kinds == {"end", "tooLong", "failed", "budget", "waiting"}

LEMMA EndsTyped ==
  ASSUME TypeOK, NEW kind \in Kinds, Ends(kind)
  PROVE  /\ adk' = "idle" /\ events' \in Seq(Event) /\ events' # <<>>
         /\ UNCHANGED <<steps, msg, toolOf, stage>>
  <1>1. [kind |-> kind] \in Event
    BY DEF Kinds, Event
  <1> QED
    BY <1>1, EmitTyped DEF Ends

LEMMA ProceedTyped ==
  ASSUME TypeOK, Proceed
  PROVE  /\ adk' \in {"idle", "tools"} /\ events' \in Seq(Event)
         /\ events # <<>> => events' # <<>>
         /\ stage' \in [CallIds -> {"none", "asked", "gated", "running", "done"}]
  <1>1. CASE msg.calls = {}
    <2>1. [kind |-> "end"] \in Event
      BY DEF Event
    <2> QED
      BY <1>1, <2>1, EmitTyped DEF Proceed, TypeOK
  <1>2. CASE msg.calls # {}
    BY <1>2 DEF Proceed, TypeOK
  <1> QED
    BY <1>1, <1>2

-----------------------------------------------------------------------------
(* Every step keeps the variables well typed.                              *)
LEMMA TypeStep ==
  ASSUME TypeInv, [Next]_vars
  PROVE  TypeInv'
  <1> USE DEF TypeInv, rigid, context, runtime, framework
  <1>1. CASE Prepare
    <2>1. BeforeModelCall(<<>>) /\ <<>> \in Seq(Policies)
      BY <1>1 DEF Prepare
    <2>2. /\ modelCalls' \in Nat /\ toolCalls' \in Nat /\ byName' \in [Tools -> Nat]
          /\ policy' \in Policies /\ queue' \in Seq(Policies)
      BY <2>1, PaidTyped
    <2>3. exposed' \subseteq Tools
      BY <1>1, Required DEF Prepare, Policies
    <2>4. /\ main' = "consume" /\ events' = <<>> /\ steps' = 0
          /\ adk' \in {"before", "tools"} /\ msg' \in Messages
          /\ toolOf' \in [CallIds -> Tools \cup {None}]
          /\ stage' \in [CallIds -> {"none", "asked", "gated", "running", "done"}]
      BY <1>1, StartTyped DEF Prepare
    <2>5. ignored' \in Policies /\ noted' \subseteq Nat /\ prepared' \in BOOLEAN /\ compacted' \in BOOLEAN
      BY <1>1 DEF Prepare, Policies
    <2>6. UNCHANGED <<start, intent, maxModelCalls, asked, history, outcome, ran, unmet>>
      BY <1>1 DEF Prepare
    <2>7. events' \in Seq(Event) /\ steps' \in Nat
      BY <2>4
    <2> QED
      BY <2>2, <2>3, <2>4, <2>5, <2>6, <2>7 DEF TypeOK, Noting
  <1>2. CASE PrepareRefused
    BY <1>2 DEF PrepareRefused, TypeOK, Over, Outcomes, Noting
  <1>3. CASE ConsumeMessage
    BY <1>3, First DEF ConsumeMessage, TypeOK, Comes, Mark, Messages, Noting
  <1>4. CASE ConsumerNotes
    BY <1>4, First, NoteTyped DEF ConsumerNotes, TypeOK, Note, Noting
  <1>5. CASE ConsumeResult
    BY <1>5, First DEF ConsumeResult, TypeOK, Comes, Noting
  <1>6. CASE ConsumeTooLong
    <2>1. CASE StartADK /\ compacted' = TRUE /\ UNCHANGED outcome
      <3>1. /\ main' = "consume" /\ events' = <<>> /\ steps' = 0
            /\ adk' \in {"before", "tools"} /\ msg' \in Messages
            /\ toolOf' \in [CallIds -> Tools \cup {None}]
            /\ stage' \in [CallIds -> {"none", "asked", "gated", "running", "done"}]
        BY <2>1, StartTyped
      <3>2. events' \in Seq(Event) /\ steps' \in Nat
        BY <3>1
      <3> QED
        BY <1>6, <2>1, <3>1, <3>2 DEF ConsumeTooLong, TypeOK, Noting
    <2>2. CASE Over("failed") /\ UNCHANGED <<compacted, framework, events>>
      BY <1>6, <2>2 DEF ConsumeTooLong, TypeOK, Over, Outcomes, Noting
    <2> QED
      BY <1>6, <2>1, <2>2 DEF ConsumeTooLong
  <1>7. CASE ConsumeStop
    BY <1>7 DEF ConsumeStop, TypeOK, Comes, Over, Outcomes, Noting
  <1>8. CASE ConsumeEnd
    BY <1>8 DEF ConsumeEnd, TypeOK, Comes, Noting
  <1>9. CASE RetryIgnored
    BY <1>9 DEF RetryIgnored, TypeOK, AskAgain, Reasons, Policies, Noting
  <1>10. CASE Finalize
    BY <1>10
       DEF Finalize, TypeOK, AskAgain, Over, Outcomes, Reasons, Policies, GuardRequires, Noting
  <1>11. CASE CallModel
    <2>1. CASE prepared /\ prepared' = FALSE /\ UNCHANGED <<context, queue>>
      <3>1. steps' \in Nat
        BY <1>11 DEF CallModel, TypeOK
      <3> QED
        BY <1>11, <2>1, <3>1 DEF CallModel, TypeOK, Noting
    <2>2. CASE BeforeModelCall(queue) /\ UNCHANGED prepared
      <3>1. queue \in Seq(Policies)
        BY DEF TypeOK
      <3>2. /\ modelCalls' \in Nat /\ toolCalls' \in Nat /\ byName' \in [Tools -> Nat]
            /\ policy' \in Policies /\ queue' \in Seq(Policies)
        BY <2>2, <3>1, PaidTyped
      <3> QED
        BY <1>11, <2>2, <3>2 DEF CallModel, TypeOK, Noting
    <2> QED
      BY <1>11, <2>1, <2>2 DEF CallModel
  <1>12. CASE CallRefused
    <2>1. PICK kind \in Kinds : Ends(kind)
      BY <1>12 DEF CallRefused, Kinds
    <2> QED
      BY <1>12, <2>1, EndsTyped DEF CallRefused, TypeOK, Noting
  <1>13. CASE ModelAnswers
    BY <1>13 DEF ModelAnswers, TypeOK, Emit, Event, Messages, Noting
  <1>14. CASE ModelFails
    <2>1. PICK kind \in Kinds : Ends(kind)
      BY <1>14 DEF ModelFails, Kinds
    <2> QED
      BY <1>14, <2>1, EndsTyped DEF ModelFails, TypeOK, Noting
  <1>15. CASE AfterModel
    <2>1. CASE Mark(msg) /\ adk' = "noting" /\ UNCHANGED <<events, stage>>
      BY <1>15, <2>1 DEF AfterModel, TypeOK, Mark, Messages, Noting
    <2>2. CASE Proceed /\ UNCHANGED noted
      BY <1>15, <2>2, ProceedTyped DEF AfterModel, TypeOK, Noting
    <2> QED
      BY <1>15, <2>1, <2>2 DEF AfterModel
  <1>16. CASE FrameworkNotes
    <2>1. Note(msg) /\ Proceed
      BY <1>16 DEF FrameworkNotes
    <2>2. /\ queue' \in Seq(Policies) /\ ignored' \in Policies
          /\ policy' \in Policies /\ unmet' \in BOOLEAN
      BY <2>1, NoteTyped
    <2>3. UNCHANGED <<modelCalls, toolCalls, byName, prepared, noted, exposed, compacted>>
      BY <2>1 DEF Note
    <2> QED
      BY <1>16, <2>1, <2>2, <2>3, ProceedTyped DEF FrameworkNotes, TypeOK, Noting
  <1>17. CASE ToolsDone
    <2>1. CASE Ends("waiting")
      <3>1. "waiting" \in Kinds
        BY DEF Kinds
      <3> QED
        BY <1>17, <2>1, <3>1, EndsTyped DEF ToolsDone, TypeOK, Noting
    <2>2. CASE adk' = "before" /\ UNCHANGED <<steps, msg, toolOf, stage, events>>
      BY <1>17, <2>2 DEF ToolsDone, TypeOK, Noting
    <2> QED
      BY <1>17, <2>1, <2>2 DEF ToolsDone
  <1>18. CASE \E c \in CallIds : Gates(c)
    BY <1>18 DEF Gates, TypeOK, Noting
  <1>19. CASE \E c \in CallIds : Refused(c)
    BY <1>19 DEF Refused, TypeOK, Result, Emit, Event, Noting
  <1>20. CASE \E c \in CallIds : Reserve(c)
    <2>1. PICK c \in CallIds : Reserve(c)
      BY <1>20
    <2>2. byName' \in [Tools -> Nat] /\ ran' \in [Tools -> Nat] /\ toolCalls' \in Nat
      <3> DEFINE t == toolOf[c]
      <3>1. byName' = [byName EXCEPT ![t] = @ + 1] /\ ran' = [ran EXCEPT ![t] = @ + 1]
        BY <2>1 DEF Reserve
      <3>2. \A f \in [Tools -> Nat] : [f EXCEPT ![t] = @ + 1] \in [Tools -> Nat]
        <4> HIDE DEF t
        <4>1. SUFFICES ASSUME NEW f \in [Tools -> Nat]
                       PROVE  [f EXCEPT ![t] = @ + 1] \in [Tools -> Nat]
          OBVIOUS
        <4>2. CASE t \in Tools
          BY <4>2
        <4>3. CASE t \notin Tools
          BY <4>3, [f EXCEPT ![t] = @ + 1] = f
        <4> QED
          BY <4>2, <4>3
      <3>3. toolCalls' \in Nat
        BY <2>1 DEF Reserve, TypeOK
      <3> QED
        BY <3>1, <3>2, <3>3 DEF TypeOK
    <2>3. stage' \in [CallIds -> {"none", "asked", "gated", "running", "done"}]
      BY <2>1 DEF Reserve, TypeOK
    <2> QED
      BY <2>1, <2>2, <2>3 DEF Reserve, TypeOK, Noting
  <1>21. CASE \E c \in CallIds : Returns(c)
    BY <1>21 DEF Returns, TypeOK, Result, Emit, Event, Noting
  <1>22. CASE UNCHANGED vars
    BY <1>22 DEF vars, TypeOK, Noting
  <1> QED
    BY <1>1, <1>2, <1>3, <1>4, <1>5, <1>6, <1>7, <1>8, <1>9, <1>10, <1>11, <1>12,
       <1>13, <1>14, <1>15, <1>16, <1>17, <1>18, <1>19, <1>20, <1>21, <1>22
    DEF Next, MainStep, FrameworkStep, ToolStep

LEMMA TypeInit ==
  ASSUME Init
  PROVE  TypeInv
  <1>1. /\ stage \in [CallIds -> {"none", "asked", "gated", "running", "done"}]
        /\ msg \in Messages
    BY DEF Init, Messages
  <1>2. <<>> \in Seq(Event) /\ <<>> \in Seq(Policies) /\ None \in Policies
    BY DEF Policies
  <1>3. /\ byName \in [Tools -> Nat] /\ ran \in [Tools -> Nat]
        /\ toolOf \in [CallIds -> Tools \cup {None}]
    BY DEF Init
  <1> QED
    BY <1>1, <1>2, <1>3 DEF Init, TypeInv, TypeOK, Noting

(* The variables of a run keep their shape (TypeOK), for all tools, limits  *)
(* and ways to start.                                                      *)
THEOREM RunTyping == Spec => []TypeOK
  <1>1. Init => TypeInv
    BY TypeInit
  <1>2. TypeInv /\ [Next]_vars => TypeInv'
    BY TypeStep
  <1>3. TypeInv => TypeOK
    BY DEF TypeInv
  <1> QED
    BY <1>1, <1>2, <1>3, PTL DEF Spec

-----------------------------------------------------------------------------
(* Only preparing a call of the model and reserving a call of a tool use up  *)
(* a budget, and both look at it in the same step.                          *)
LEMMA BudgetStep ==
  ASSUME TypeOK, BudgetHeld, [Next]_vars
  PROVE  BudgetHeld'
  <1> USE DEF rigid, context, runtime, framework
  <1>1. ASSUME NEW q, BeforeModelCall(q), UNCHANGED <<maxModelCalls, ran>>
        PROVE  BudgetHeld'
    <2>1. maxModelCalls > 0 => modelCalls' <= maxModelCalls
      BY <1>1 DEF BeforeModelCall, Limited, TypeOK
    <2>2. UNCHANGED <<maxModelCalls, toolCalls, byName, ran>>
      BY <1>1 DEF BeforeModelCall
    <2> QED
      BY <2>1, <2>2 DEF BudgetHeld
  <1>2. ASSUME UNCHANGED <<maxModelCalls, modelCalls, toolCalls, byName, ran>>
        PROVE  BudgetHeld'
    BY <1>2 DEF BudgetHeld
  <1>3. CASE Prepare
    BY <1>1, <1>3 DEF Prepare
  <1>4. CASE CallModel
    BY <1>1, <1>2, <1>4 DEF CallModel
  <1>5. CASE \E c \in CallIds : Reserve(c)
    <2>1. PICK c \in CallIds : Reserve(c)
      BY <1>5
    <2>2. MaxToolCalls > 0 => toolCalls' <= MaxToolCalls
      BY <2>1 DEF Reserve, CanCallTool, Limited, TypeOK
    <2>3. ASSUME NEW t \in Tools
          PROVE  /\ MaxByName[t] > 0 => ran'[t] <= MaxByName[t]
                 /\ ran'[t] = byName'[t]
      <3>1. byName[t] \in Nat /\ ran[t] = byName[t] /\ MaxByName[t] \in Nat
        BY DEF TypeOK, BudgetHeld
      <3>2. CASE t = toolOf[c]
        <4>1. ran'[t] = ran[t] + 1 /\ byName'[t] = byName[t] + 1
          BY <2>1, <3>2 DEF Reserve, TypeOK
        <4>2. MaxByName[t] > 0 => byName[t] < MaxByName[t]
          BY <2>1, <3>1, <3>2 DEF Reserve, CanCallTool, Limited
        <4> QED
          BY <3>1, <4>1, <4>2
      <3>3. CASE t # toolOf[c]
        BY <2>1, <3>3 DEF Reserve, TypeOK, BudgetHeld
      <3> QED
        BY <3>2, <3>3
    <2> QED
      BY <2>1, <2>2, <2>3 DEF Reserve, BudgetHeld
  <1>6. CASE PrepareRefused \/ ConsumeMessage \/ ConsumeResult \/ ConsumeTooLong \/ ConsumeStop
             \/ ConsumeEnd \/ CallRefused \/ ModelAnswers \/ ModelFails \/ AfterModel \/ ToolsDone
             \/ UNCHANGED vars
    BY <1>2, <1>6
       DEF PrepareRefused, ConsumeMessage, ConsumeResult, ConsumeTooLong, ConsumeStop,
         ConsumeEnd, CallRefused, ModelAnswers, ModelFails, AfterModel, ToolsDone, vars
  <1>7. CASE ConsumerNotes \/ FrameworkNotes
    BY <1>2, <1>7 DEF ConsumerNotes, FrameworkNotes, Note
  <1>8. CASE RetryIgnored \/ Finalize
    BY <1>2, <1>8 DEF RetryIgnored, Finalize, AskAgain
  <1>9. CASE \E c \in CallIds : Gates(c) \/ Refused(c) \/ Returns(c)
    BY <1>2, <1>9 DEF Gates, Refused, Returns, Result
  <1> QED
    BY <1>3, <1>4, <1>5, <1>6, <1>7, <1>8, <1>9 DEF Next, MainStep, FrameworkStep, ToolStep

(* No budget is exceeded, in total or for one tool, and no tool runs without *)
(* being counted, for every limit and any number of parallel calls.         *)
THEOREM Budgets == Spec => []BudgetHeld
  <1>1. Init => BudgetHeld
    BY DEF Init, BudgetHeld
  <1>2. TypeOK /\ BudgetHeld /\ [Next]_vars => BudgetHeld'
    BY BudgetStep
  <1> QED
    BY <1>1, <1>2, RunTyping, PTL DEF Spec

-----------------------------------------------------------------------------
LEMMA Terminal ==
  ASSUME TypeOK, Quiet, NEW kind, Comes(kind), kind \notin {"message", "result"}
  PROVE  adk = "idle"
  <1>1. 1 \in DOMAIN events /\ events[1].kind = kind
    BY DEF Comes, TypeOK
  <1> QED
    BY <1>1 DEF Quiet, Flowing

LEMMA EmitFlows ==
  ASSUME TypeOK, Flowing(events), NEW e, e.kind \in {"message", "result"}, Emit(e)
  PROVE  Flowing(events)'
  <1>1. \A i \in DOMAIN events' : events'[i] = e \/ (i \in DOMAIN events /\ events'[i] = events[i])
    BY DEF Emit, TypeOK
  <1> QED
    BY <1>1 DEF Flowing

LEMMA TailFlows ==
  ASSUME TypeOK, Flowing(events), events # <<>>, events' = Tail(events)
  PROVE  Flowing(events)'
  <1>1. \A i \in DOMAIN events' : i + 1 \in DOMAIN events /\ events'[i] = events[i + 1]
    BY DEF TypeOK
  <1> QED
    BY <1>1 DEF Flowing

LEMMA QuietStep ==
  ASSUME TypeInv, Quiet, [Next]_vars
  PROVE  Quiet'
  <1> USE DEF rigid, context, runtime, framework, TypeInv
  <1>1. CASE Prepare
    BY <1>1, StartTyped DEF Prepare, Quiet, Flowing
  <1>2. CASE PrepareRefused \/ RetryIgnored \/ Finalize
    BY <1>2 DEF PrepareRefused, RetryIgnored, Finalize, AskAgain, Over, Quiet
  <1>3. CASE ConsumeMessage
    BY <1>3, TailFlows DEF ConsumeMessage, Comes, Quiet
  <1>4. CASE ConsumerNotes
    BY <1>4, TailFlows DEF ConsumerNotes, Noting, Quiet
  <1>5. CASE ConsumeResult
    BY <1>5, TailFlows DEF ConsumeResult, Comes, Quiet
  <1>6. CASE ConsumeTooLong
    <2>1. CASE StartADK
      BY <2>1, StartTyped DEF Quiet, Flowing
    <2>2. CASE Over("failed") /\ UNCHANGED <<compacted, framework, events>>
      <3>1. adk = "idle"
        BY <1>6, Terminal DEF ConsumeTooLong
      <3> QED
        BY <2>2, <3>1 DEF Over, Quiet
    <2> QED
      BY <1>6, <2>1, <2>2 DEF ConsumeTooLong
  <1>7. CASE ConsumeStop
    <2>1. PICK kind \in {"failed", "budget", "waiting"} : Comes(kind) /\ Over(kind)
      BY <1>7 DEF ConsumeStop
    <2>2. adk = "idle"
      BY <2>1, Terminal
    <2> QED
      BY <1>7, <2>2 DEF ConsumeStop, Quiet
  <1>8. CASE ConsumeEnd
    <2>1. adk = "idle"
      BY <1>8, Terminal DEF ConsumeEnd
    <2> QED
      BY <1>8, <2>1 DEF ConsumeEnd, Quiet
  <1>9. CASE CallModel
    BY <1>9 DEF CallModel, Quiet
  <1>10. CASE CallRefused \/ ModelFails
    BY <1>10 DEF CallRefused, ModelFails, Ends, Quiet
  <1>11. CASE ModelAnswers
    <2>1. Emit([kind |-> "message", msg |-> msg'])
      BY <1>11 DEF ModelAnswers
    <2>2. Flowing(events)
      BY <1>11 DEF ModelAnswers, Quiet
    <2>3. Flowing(events)'
      BY <2>1, <2>2, EmitFlows
    <2> QED
      BY <1>11, <2>3 DEF ModelAnswers, Quiet
  <1>12. CASE AfterModel \/ FrameworkNotes
    <2>1. adk # "idle" /\ UNCHANGED main
      BY <1>12 DEF AfterModel, FrameworkNotes
    <2>2. adk' = "idle" \/ UNCHANGED events
      BY <1>12 DEF AfterModel, FrameworkNotes, Proceed
    <2> QED
      BY <2>1, <2>2 DEF Quiet
  <1>13. CASE ToolsDone
    BY <1>13 DEF ToolsDone, Ends, Quiet
  <1>14. CASE \E c \in CallIds : Gates(c) \/ Reserve(c)
    BY <1>14 DEF Gates, Reserve, Quiet
  <1>15. CASE \E c \in CallIds : Refused(c) \/ Returns(c)
    <2>1. PICK c \in CallIds : Result(c)
      BY <1>15 DEF Refused, Returns
    <2>2. Flowing(events) => Flowing(events)'
      BY <2>1, EmitFlows DEF Result
    <2> QED
      BY <2>1, <2>2 DEF Result, Quiet
  <1>16. CASE UNCHANGED vars
    BY <1>16 DEF vars, Quiet
  <1> QED
    BY <1>1, <1>2, <1>3, <1>4, <1>5, <1>6, <1>7, <1>8, <1>9, <1>10, <1>11, <1>12,
       <1>13, <1>14, <1>15, <1>16
    DEF Next, MainStep, FrameworkStep, ToolStep

-----------------------------------------------------------------------------
(* A step pays for a call of the model from what this start has left, and    *)
(* starting over pays with one of the two reasons.                          *)
LEMMA CountStep ==
  ASSUME TypeInv, Quiet, Counted, [Next]_vars
  PROVE  Counted'
  <1> USE DEF rigid, context, runtime, framework
  <1>1. /\ modelCalls \in Nat /\ steps \in Nat /\ prepared \in BOOLEAN /\ compacted \in BOOLEAN
        /\ MaxReactSteps \in Nat /\ MaxReactSteps >= 1
    BY DEF TypeInv, TypeOK
  <1>2. ASSUME UNCHANGED <<modelCalls, steps, prepared, compacted, asked>>,
               main' = "prepare" <=> main = "prepare"
        PROVE  Counted'
    BY <1>1, <1>2 DEF Counted, ThisStart, Once
  <1>3. CASE Prepare
    <2>1. modelCalls' = modelCalls + 1 /\ prepared' = TRUE /\ compacted' = FALSE
      BY <1>3 DEF Prepare, BeforeModelCall
    <2>2. main' = "consume" /\ steps' = 0
      BY <1>3 DEF Prepare, StartADK
    <2>3. main = "prepare" /\ UNCHANGED asked
      BY <1>3 DEF Prepare
    <2> QED
      BY <1>1, <2>1, <2>2, <2>3 DEF Counted, ThisStart, Once
  <1>4. CASE PrepareRefused
    BY <1>1, <1>4 DEF PrepareRefused, Over, Counted, ThisStart, Once
  <1>5. CASE ConsumeMessage \/ ConsumeResult \/ ConsumeEnd
    BY <1>2, <1>5 DEF ConsumeMessage, ConsumeResult, ConsumeEnd, Comes
  <1>6. CASE ConsumerNotes
    BY <1>2, <1>6 DEF ConsumerNotes, Note
  <1>7. CASE ConsumeTooLong
    <2>1. main = "consume" /\ UNCHANGED <<modelCalls, prepared, asked>>
      BY <1>7 DEF ConsumeTooLong, Comes
    <2>2. CASE StartADK /\ ~ compacted /\ compacted' = TRUE
      <3>1. main' = "consume" /\ steps' = 0
        BY <2>2 DEF StartADK
      <3> QED
        BY <1>1, <2>1, <2>2, <3>1 DEF Counted, ThisStart, Once
    <2>3. CASE Over("failed") /\ UNCHANGED <<compacted, framework>>
      BY <1>2, <2>1, <2>3 DEF Over
    <2> QED
      BY <1>7, <2>2, <2>3 DEF ConsumeTooLong
  <1>8. CASE ConsumeStop
    BY <1>2, <1>8 DEF ConsumeStop, Comes, Over
  <1>9. CASE RetryIgnored
    <2>1. /\ main = "judge" /\ main' = "prepare" /\ "ignored" \notin asked
          /\ asked' = asked \cup {"ignored"}
          /\ UNCHANGED <<modelCalls, steps, prepared, compacted>>
      BY <1>9 DEF RetryIgnored, AskAgain
    <2>2. Once("ignored") = 2 * MaxReactSteps /\ Once("ignored")' = 0 /\ Once("final")' = Once("final")
      BY <2>1 DEF Once
    <2> QED
      BY <1>1, <2>1, <2>2 DEF Counted, ThisStart, Once
  <1>10. CASE Finalize
    <2>1. main = "judge" /\ UNCHANGED <<modelCalls, steps, prepared, compacted>>
      BY <1>10 DEF Finalize, AskAgain
    <2>2. \/ main' = "over" /\ asked' \in {asked, asked \cup {"guard"}}
          \/ main' = "prepare" /\ "final" \notin asked
             /\ asked' \in {asked \cup {"final"}, asked \cup {"guard", "final"}}
      BY <1>10 DEF Finalize, AskAgain, Over
    <2>3. CASE main' = "over" /\ asked' \in {asked, asked \cup {"guard"}}
      <3>1. Once("ignored")' = Once("ignored") /\ Once("final")' = Once("final")
        BY <2>3 DEF Once
      <3> QED
        BY <1>1, <2>1, <2>3, <3>1 DEF Counted, ThisStart, Once
    <2>4. CASE main' = "prepare" /\ "final" \notin asked
               /\ asked' \in {asked \cup {"final"}, asked \cup {"guard", "final"}}
      <3>1. Once("final") = 2 * MaxReactSteps /\ Once("final")' = 0 /\ Once("ignored")' = Once("ignored")
        BY <2>4 DEF Once
      <3> QED
        BY <1>1, <2>1, <2>4, <3>1 DEF Counted, ThisStart, Once
    <2> QED
      BY <2>2, <2>3, <2>4
  <1>11. CASE CallModel
    <2>1. /\ main # "prepare" /\ UNCHANGED <<main, asked, compacted>>
          /\ steps < MaxReactSteps /\ steps' = steps + 1
      BY <1>11 DEF CallModel, Quiet
    <2>2. CASE prepared /\ prepared' = FALSE /\ UNCHANGED context
      BY <1>1, <2>1, <2>2 DEF Counted, ThisStart, Once
    <2>3. CASE ~ prepared /\ UNCHANGED prepared /\ modelCalls' = modelCalls + 1
      BY <1>1, <2>1, <2>3 DEF Counted, ThisStart, Once
    <2> QED
      BY <1>11, <2>2, <2>3 DEF CallModel, BeforeModelCall
  <1>12. CASE CallRefused \/ ModelAnswers \/ ModelFails \/ AfterModel \/ ToolsDone \/ UNCHANGED vars
    BY <1>2, <1>12
       DEF CallRefused, ModelAnswers, ModelFails, AfterModel, ToolsDone, Ends, vars
  <1>13. CASE FrameworkNotes
    BY <1>2, <1>13 DEF FrameworkNotes, Note
  <1>14. CASE \E c \in CallIds : ToolStep(c)
    BY <1>2, <1>14 DEF ToolStep, Gates, Refused, Reserve, Returns, Result
  <1> QED
    BY <1>3, <1>4, <1>5, <1>6, <1>7, <1>8, <1>9, <1>10, <1>11, <1>12, <1>13, <1>14
    DEF Next, MainStep, FrameworkStep

(* Even without a budget a run calls the model at most six times the number  *)
(* of iterations of the framework: it starts over at most twice, and each    *)
(* start compacts its history at most once.                                 *)
THEOREM Short == Spec => []RunIsShort
  <1> DEFINE Inv == TypeInv /\ Quiet /\ Counted
  <1>1. Init => Inv
    <2> SUFFICES ASSUME Init PROVE Inv
      OBVIOUS
    <2>1. Quiet
      BY DEF Init, Quiet
    <2>2. Counted
      BY DEF Init, Counted, ThisStart, Once
    <2> QED
      BY <2>1, <2>2, TypeInit
  <1>2. Inv /\ [Next]_vars => Inv'
    BY TypeStep, QuietStep, CountStep
  <1>3. Inv => RunIsShort
    <2> SUFFICES ASSUME Inv PROVE RunIsShort
      OBVIOUS
    <2>1. steps \in Nat /\ modelCalls \in Nat /\ MaxReactSteps \in Nat \ {0}
      BY DEF TypeInv, TypeOK
    <2>2. ThisStart \in Nat
      BY <2>1 DEF Counted, ThisStart
    <2>3. Once("ignored") \in Nat /\ Once("final") \in Nat
      BY <2>1 DEF Once
    <2> QED
      BY <2>1, <2>2, <2>3 DEF Counted, RunIsShort
  <1> QED
    BY <1>1, <1>2, <1>3, PTL DEF Spec

-----------------------------------------------------------------------------
(* What is not in the history yet is on its way to it, nothing comes after an *)
(* end, and a call is open only while the framework waits for its tools.      *)
Under(c) == \E i \in DOMAIN events : events[i].kind = "result" /\ events[i].call = c

Delivering ==
  /\ \A c \in CallIds : stage[c] = "done" => c \in history \/ Under(c)
  /\ \A c \in CallIds : stage[c] \in {"asked", "running"} => adk = "tools" /\ c \in msg.calls
  /\ \A i \in DOMAIN events : i < Len(events) => events[i].kind \in {"message", "result"}
  /\ main \in {"judge", "prepare"} => events = <<>>
  /\ main = "noting" => Head(events).kind = "message"

(* Messages have numbers of their own in a start, and one that nobody marked   *)
(* is the framework's latest.                                               *)
Marking ==
  /\ msg.no <= modelCalls /\ \A n \in noted : n <= modelCalls
  /\ adk = "model" => modelCalls \notin noted
  /\ \A i \in DOMAIN events : events[i].kind = "message" /\ events[i].msg.no \notin noted =>
       adk = "after" /\ events[i].msg = msg
  /\ prepared => adk \in {"idle", "before", "tools"} /\ noted = {}
  /\ main \in {"consume", "noting"} => modelCalls >= 1

(* For each message that is still to be recorded the policy it was asked for   *)
(* under is remembered: by the framework's goroutine, and by the run's.       *)
ByFramework ==
  \/ prepared \/ adk \in {"model", "noting"}
  \/ adk = "after" /\ msg.no \notin noted

Remembering ==
  main \in {"consume", "noting"} =>
    /\ ByFramework => queue # <<>>
    /\ main = "noting" => queue # <<>>
    /\ ByFramework /\ main = "noting" => Len(queue) >= 2
    /\ policy # None => \A i \in DOMAIN queue : queue[i] # None

(* Once the last message is recorded, a required tool it left uncalled is both *)
(* required and known to be ignored.                                         *)
Recorded ==
  \/ main = "judge"
  \/ main = "consume" /\ adk = "after" /\ msg.no \in noted
  \/ main = "consume" /\ \E i \in DOMAIN events : events[i].kind = "end"

Ignoring ==
  /\ Recorded /\ unmet => ignored # None /\ policy # None
  /\ outcome = "answered" => main = "over"

-----------------------------------------------------------------------------
(* The events, with one more or one less.                                   *)
LEMMA EmitParts ==
  ASSUME TypeOK, NEW e, Emit(e)
  PROVE  /\ Len(events) \in Nat /\ Len(events') = Len(events) + 1
         /\ DOMAIN events = 1..Len(events) /\ DOMAIN events' = 1..Len(events) + 1
         /\ \A i \in 1..Len(events) : events'[i] = events[i]
         /\ events'[Len(events) + 1] = e
         /\ events # <<>> => Head(events') = Head(events)
  BY DEF Emit, TypeOK

LEMMA TailParts ==
  ASSUME TypeOK, events # <<>>, events' = Tail(events)
  PROVE  /\ Len(events) \in Nat \ {0} /\ Len(events') = Len(events) - 1
         /\ DOMAIN events = 1..Len(events) /\ DOMAIN events' = 1 .. Len(events) - 1
         /\ \A i \in 1 .. Len(events) - 1 : events'[i] = events[i + 1]
         /\ Head(events) = events[1]
  BY DEF TypeOK

(* What the run's goroutine sees as an end is all there is, and every result  *)
(* before it is in the history.                                             *)
LEMMA LastComes ==
  ASSUME TypeOK, Quiet, Delivering, NEW kind, Comes(kind), kind \notin {"message", "result"}
  PROVE  /\ adk = "idle" /\ \A c \in CallIds : stage[c] \notin {"asked", "running"}
         /\ \A c \in CallIds : stage[c] = "done" => c \in history
  <1>1. adk = "idle"
    BY Terminal
  <1>2. /\ Len(events) \in Nat \ {0} /\ DOMAIN events = 1..Len(events) /\ events[1].kind = kind
    BY DEF Comes, TypeOK
  <1>3. Len(events) = 1
    BY <1>2 DEF Delivering
  <1>4. \A c \in CallIds : ~ Under(c)
    BY <1>2, <1>3 DEF Under
  <1> QED
    BY <1>1, <1>4 DEF Delivering

LEMMA StartDelivers ==
  ASSUME TypeOK, StartADK, history' = history,
         \A c \in CallIds : stage[c] \notin {"asked", "running"},
         \A c \in CallIds : stage[c] = "done" => c \in history
  PROVE  Delivering'
  <1>1. main' = "consume" /\ events' = <<>>
    BY DEF StartADK
  <1>2. \A c \in CallIds : stage'[c] = "done" => c \in history'
    BY DEF StartADK, TypeOK
  <1>3. \A c \in CallIds : stage'[c] \in {"asked", "running"} => adk' = "tools" /\ c \in msg'.calls
    BY DEF StartADK, TypeOK
  <1> QED
    BY <1>1, <1>2, <1>3 DEF Delivering

LEMMA TailDelivers ==
  ASSUME TypeOK, Delivering, events # <<>>, events' = Tail(events), UNCHANGED <<stage, adk, msg>>,
         main' = "consume", history \subseteq history',
         Head(events).kind = "result" => Head(events).call \in history'
  PROVE  Delivering'
  <1>1. ASSUME NEW c \in CallIds, stage[c] = "done" PROVE c \in history' \/ Under(c)'
    <2>1. CASE c \in history
      BY <2>1
    <2>2. CASE Under(c)
      <3>1. PICK i \in DOMAIN events : events[i].kind = "result" /\ events[i].call = c
        BY <2>2 DEF Under
      <3>2. CASE i = 1
        BY <3>1, <3>2, TailParts
      <3>3. CASE i # 1
        <4>1. i - 1 \in DOMAIN events' /\ events'[i - 1] = events[i]
          BY <3>1, <3>3, TailParts
        <4> QED
          BY <3>1, <4>1 DEF Under
      <3> QED
        BY <3>2, <3>3
    <2> QED
      BY <1>1, <2>1, <2>2 DEF Delivering
  <1>2. ASSUME NEW i \in DOMAIN events', i < Len(events') PROVE events'[i].kind \in {"message", "result"}
    <2>1. i + 1 \in DOMAIN events /\ i + 1 < Len(events) /\ events'[i] = events[i + 1]
      BY <1>2, TailParts
    <2> QED
      BY <2>1 DEF Delivering
  <1> QED
    BY <1>1, <1>2 DEF Delivering

LEMMA EmitDelivers ==
  ASSUME TypeInv, Quiet, Delivering, adk # "idle", NEW e, Emit(e), UNCHANGED <<main, history>>,
         \A c \in CallIds : stage'[c] = "done" =>
           stage[c] = "done" \/ (e.kind = "result" /\ e.call = c),
         \A c \in CallIds : stage'[c] \in {"asked", "running"} => adk' = "tools" /\ c \in msg'.calls
  PROVE  Delivering'
  <1>0. TypeOK /\ Noting
    BY DEF TypeInv
  <1>1. ASSUME NEW c \in CallIds, stage'[c] = "done" PROVE c \in history' \/ Under(c)'
    <2>1. CASE c \in history
      BY <2>1
    <2>2. CASE Under(c)
      <3>1. PICK i \in DOMAIN events : events[i].kind = "result" /\ events[i].call = c
        BY <2>2 DEF Under
      <3>2. i \in DOMAIN events' /\ events'[i] = events[i]
        BY <1>0, <3>1, EmitParts
      <3> QED
        BY <3>1, <3>2 DEF Under
    <2>3. CASE e.kind = "result" /\ e.call = c
      <3>1. Len(events) + 1 \in DOMAIN events' /\ events'[Len(events) + 1] = e
        BY <1>0, EmitParts
      <3> QED
        BY <2>3, <3>1 DEF Under
    <2> QED
      BY <1>1, <2>1, <2>2, <2>3 DEF Delivering
  <1>2. ASSUME NEW i \in DOMAIN events', i < Len(events') PROVE events'[i].kind \in {"message", "result"}
    <2>1. i \in DOMAIN events /\ events'[i] = events[i]
      BY <1>0, <1>2, EmitParts
    <2> QED
      BY <2>1 DEF Quiet, Flowing
  <1>3. main' \notin {"judge", "prepare"}
    BY DEF Quiet
  <1>4. main' = "noting" => Head(events').kind = "message"
    BY <1>0, EmitParts DEF Delivering, Noting
  <1> QED
    BY <1>1, <1>2, <1>3, <1>4 DEF Delivering

LEMMA DeliverStep ==
  ASSUME TypeInv, Quiet, Delivering, [Next]_vars
  PROVE  Delivering'
  <1> USE DEF rigid, context, runtime, framework
  <1>0. TypeOK /\ Noting
    BY DEF TypeInv
  <1>1. ASSUME UNCHANGED <<adk, msg, stage, events, history>>, main' = main PROVE Delivering'
    BY <1>1 DEF Delivering, Under
  <1>2. CASE Prepare
    <2>1. \A c \in CallIds : /\ stage[c] \notin {"asked", "running"}
                             /\ stage[c] = "done" => c \in history
      BY <1>2 DEF Prepare, Quiet, Delivering, Under
    <2> QED
      BY <1>0, <1>2, <2>1, StartDelivers DEF Prepare
  <1>3. CASE PrepareRefused \/ RetryIgnored \/ Finalize
    BY <1>3 DEF PrepareRefused, RetryIgnored, Finalize, AskAgain, Over, Delivering, Under
  <1>4. CASE ConsumeMessage
    <2>1. CASE main' = "noting" /\ UNCHANGED events
      BY <1>4, <2>1 DEF ConsumeMessage, Comes, Delivering, Under
    <2>2. CASE events' = Tail(events) /\ UNCHANGED main
      BY <1>0, <1>4, <2>2, TailDelivers DEF ConsumeMessage, Comes
    <2> QED
      BY <1>4, <2>1, <2>2 DEF ConsumeMessage
  <1>5. CASE ConsumerNotes
    <2>1. events # <<>> /\ Head(events).kind = "message"
      BY <1>0, <1>5 DEF ConsumerNotes, Noting, Delivering
    <2> QED
      BY <1>0, <1>5, <2>1, TailDelivers DEF ConsumerNotes
  <1>6. CASE ConsumeResult
    BY <1>0, <1>6, TailDelivers DEF ConsumeResult, Comes
  <1>7. CASE ConsumeTooLong
    <2>1. Comes("tooLong")
      BY <1>7 DEF ConsumeTooLong
    <2>2. CASE StartADK
      BY <1>0, <1>7, <2>1, <2>2, LastComes, StartDelivers DEF ConsumeTooLong
    <2>3. CASE Over("failed") /\ UNCHANGED <<compacted, framework, events>>
      BY <1>7, <2>3 DEF ConsumeTooLong, Over, Delivering, Under
    <2> QED
      BY <1>7, <2>2, <2>3 DEF ConsumeTooLong
  <1>8. CASE ConsumeStop
    BY <1>8 DEF ConsumeStop, Over, Delivering, Under
  <1>9. CASE ConsumeEnd
    <2>1. \A c \in CallIds : /\ stage[c] \notin {"asked", "running"}
                             /\ stage[c] = "done" => c \in history
      BY <1>0, <1>9, LastComes DEF ConsumeEnd
    <2> QED
      BY <1>9, <2>1 DEF ConsumeEnd, Delivering
  <1>10. CASE CallModel
    BY <1>10 DEF CallModel, Delivering, Under
  <1>11. ASSUME NEW kind, Ends(kind), adk # "idle", UNCHANGED <<main, history>>,
                \A c \in CallIds : stage[c] \notin {"asked", "running"}
         PROVE  Delivering'
    BY <1>11, EmitDelivers DEF Ends
  <1>12. CASE CallRefused \/ ModelFails
    <2>1. PICK kind : Ends(kind)
      BY <1>12 DEF CallRefused, ModelFails
    <2>2. adk \in {"before", "model"} /\ UNCHANGED <<main, history>>
      BY <1>12 DEF CallRefused, ModelFails
    <2> QED
      BY <1>11, <2>1, <2>2 DEF Delivering
  <1>13. CASE ModelAnswers
    <2>1. /\ Emit([kind |-> "message", msg |-> msg']) /\ adk = "model"
          /\ UNCHANGED <<stage, main, history>>
      BY <1>13 DEF ModelAnswers
    <2> QED
      BY <2>1, EmitDelivers DEF Delivering
  <1>14. ASSUME Proceed, adk \in {"after", "noting"}, UNCHANGED <<main, msg, history>>
         PROVE  Delivering'
    <2>1. \A c \in CallIds : stage[c] \notin {"asked", "running"}
      BY <1>14 DEF Delivering
    <2>2. CASE msg.calls = {}
      BY <1>14, <2>1, <2>2, EmitDelivers DEF Proceed
    <2>3. CASE msg.calls # {}
      BY <1>14, <2>1, <2>3 DEF Proceed, Delivering, Under, Quiet
    <2> QED
      BY <2>2, <2>3
  <1>15. CASE AfterModel
    <2>1. CASE adk' = "noting" /\ UNCHANGED <<events, stage>>
      BY <1>15, <2>1 DEF AfterModel, Delivering, Under
    <2> QED
      BY <1>14, <1>15, <2>1 DEF AfterModel
  <1>16. CASE FrameworkNotes
    BY <1>14, <1>16 DEF FrameworkNotes
  <1>17. CASE ToolsDone
    <2>1. /\ adk = "tools" /\ UNCHANGED <<main, history>>
          /\ \A c \in CallIds : stage[c] \notin {"asked", "running"}
      BY <1>17 DEF ToolsDone, Delivering
    <2>2. CASE adk' = "before" /\ UNCHANGED <<steps, msg, toolOf, stage, events>>
      BY <2>1, <2>2 DEF Delivering, Under
    <2> QED
      BY <1>11, <1>17, <2>1, <2>2 DEF ToolsDone
  <1>18. CASE \E c \in CallIds : Gates(c) \/ Reserve(c)
    <2>1. PICK c \in CallIds : Gates(c) \/ Reserve(c)
      BY <1>18
    <2>2. stage[c] = "asked" /\ UNCHANGED <<adk, msg, events, history, main>>
      BY <2>1 DEF Gates, Reserve, Passes
    <2>3. \A d \in CallIds : d # c => stage'[d] = stage[d]
      BY <1>0, <2>1 DEF Gates, Reserve, TypeOK
    <2>4. stage'[c] # "done"
      BY <1>0, <2>1 DEF Gates, Reserve, TypeOK
    <2>5. adk = "tools" /\ c \in msg.calls
      BY <2>2 DEF Delivering
    <2> QED
      BY <2>2, <2>3, <2>4, <2>5 DEF Delivering, Under
  <1>19. CASE \E c \in CallIds : Refused(c) \/ Returns(c)
    <2>1. PICK c \in CallIds : Result(c) /\ stage[c] \in {"asked", "running"} /\ history' = history
      BY <1>19 DEF Refused, Returns, Passes, Result
    <2>2. adk = "tools" /\ adk' = adk /\ msg' = msg
      BY <2>1 DEF Result, Delivering
    <2>3. \A d \in CallIds : stage'[d] = IF d = c THEN "done" ELSE stage[d]
      BY <1>0, <2>1 DEF Result, TypeOK
    <2>4. Emit([kind |-> "result", call |-> c]) /\ main' = main
      BY <2>1 DEF Result
    <2> QED
      BY <2>1, <2>2, <2>3, <2>4, EmitDelivers DEF Delivering
  <1>20. CASE UNCHANGED vars
    BY <1>1, <1>20 DEF vars
  <1> QED
    BY <1>2, <1>3, <1>4, <1>5, <1>6, <1>7, <1>8, <1>9, <1>10, <1>12, <1>13, <1>15, <1>16,
       <1>17, <1>18,
       <1>19, <1>20
    DEF Next, MainStep, FrameworkStep, ToolStep

(* A run starts over only when every call that ran has its result in the       *)
(* history the next start goes on from.                                      *)
THEOREM ResultsKnown == Spec => ResultsAreKnown
  <1> DEFINE Inv == TypeInv /\ Quiet /\ Delivering
  <1>1. Init => Inv
    <2> SUFFICES ASSUME Init PROVE Inv
      OBVIOUS
    <2>1. Quiet /\ Delivering
      BY DEF Init, Quiet, Delivering
    <2> QED
      BY <2>1, TypeInit
  <1>2. Inv /\ [Next]_vars => Inv'
    BY TypeStep, QuietStep, DeliverStep
  <1>3. Inv /\ [Next]_vars =>
          [main' = "prepare" \/ (compacted' /\ ~ compacted) =>
             \A c \in CallIds : stage[c] \in {"running", "done"} => c \in history]_vars
    <2> SUFFICES ASSUME Inv, Next, main' = "prepare" \/ (compacted' /\ ~ compacted)
                 PROVE  \A c \in CallIds : stage[c] \in {"running", "done"} => c \in history
      OBVIOUS
    <2> USE DEF rigid, context, runtime, framework
    <2>1. main \in {"judge", "prepare"} \/ Comes("tooLong")
      <3>1. CASE MainStep
        BY <3>1
        DEF MainStep, Prepare, PrepareRefused, ConsumeMessage, ConsumerNotes, ConsumeResult, ConsumeTooLong,
            ConsumeStop, ConsumeEnd, RetryIgnored, Finalize, Over, AskAgain, StartADK, Note, Comes
      <3>2. CASE FrameworkStep
        BY <3>2
        DEF FrameworkStep, CallModel, CallRefused, ModelAnswers, ModelFails, AfterModel, FrameworkNotes,
            ToolsDone, Note
      <3>3. CASE \E c \in CallIds : ToolStep(c)
        BY <3>3 DEF ToolStep, Gates, Refused, Reserve, Returns, Result
      <3> QED
        BY <3>1, <3>2, <3>3 DEF Next
    <2>2. CASE main \in {"judge", "prepare"}
      BY <2>2 DEF Quiet, Delivering, Under
    <2>3. CASE Comes("tooLong")
      BY <2>3, LastComes DEF TypeInv
    <2> QED
      BY <2>1, <2>2, <2>3
  <1> QED
    BY <1>1, <1>2, <1>3, PTL DEF Spec, ResultsAreKnown

-----------------------------------------------------------------------------
(* A call of the model has a number of its own.                             *)
LEMMA PaidCounts ==
  ASSUME TypeOK, NEW q, BeforeModelCall(q)
  PROVE  modelCalls \in Nat /\ modelCalls' = modelCalls + 1
  BY DEF BeforeModelCall, TypeOK

(* What starting and ending the framework leaves behind.                    *)
LEMMA StartParts ==
  ASSUME StartADK
  PROVE  /\ main' = "consume" /\ events' = <<>> /\ adk' \in {"before", "tools"}
         /\ msg' = msg \/ msg'.no = 0
  BY DEF StartADK

LEMMA ProceedParts ==
  ASSUME TypeOK, Proceed
  PROVE  /\ adk' \in {"idle", "tools"}
         /\ \A i \in DOMAIN events' : \/ i \in DOMAIN events /\ events'[i] = events[i]
                                      \/ events'[i] = [kind |-> "end"] /\ msg.calls = {}
  <1>1. CASE msg.calls = {}
    BY <1>1, EmitParts DEF Proceed
  <1>2. CASE msg.calls # {}
    BY <1>2 DEF Proceed
  <1> QED
    BY <1>1, <1>2

LEMMA EndsParts ==
  ASSUME TypeOK, NEW kind, Ends(kind)
  PROVE  /\ adk' = "idle" /\ UNCHANGED msg
         /\ \A i \in DOMAIN events' : \/ i \in DOMAIN events /\ events'[i] = events[i]
                                      \/ events'[i] = [kind |-> kind]
  BY EmitParts DEF Ends

(* What is left of the events was there before.                              *)
LEMMA TailComes ==
  ASSUME TypeOK, events # <<>>, events' = Tail(events)
  PROVE  \A i \in DOMAIN events' : \E j \in DOMAIN events : events[j] = events'[i]
  <1> SUFFICES ASSUME NEW i \in DOMAIN events' PROVE \E j \in DOMAIN events : events[j] = events'[i]
    OBVIOUS
  <1>1. i + 1 \in DOMAIN events /\ events[i + 1] = events'[i]
    BY TailParts
  <1> QED
    BY <1>1

LEMMA MarkingStep ==
  ASSUME TypeInv, Quiet, Delivering, Marking, [Next]_vars
  PROVE  Marking'
  <1> USE DEF rigid, context, runtime, framework
  <1>0. TypeOK /\ Noting
    BY DEF TypeInv
  <1>a. modelCalls \in Nat /\ msg.no \in Nat /\ noted \subseteq Nat
    BY <1>0 DEF TypeOK, Messages
  <1>1. ASSUME UNCHANGED <<modelCalls, noted, adk, prepared, msg>>,
               main' \in {"consume", "noting"} => main \in {"consume", "noting"},
               \A i \in DOMAIN events' : \/ events'[i].kind # "message"
                                         \/ \E j \in DOMAIN events : events[j] = events'[i]
        PROVE  Marking'
    BY <1>1 DEF Marking
  <1>2. CASE Prepare
    <2>1. modelCalls' = modelCalls + 1
      BY <1>0, <1>2, PaidCounts DEF Prepare
    <2>2. noted' = {} /\ events' = <<>> /\ adk' \in {"before", "tools"} /\ msg'.no <= modelCalls'
      BY <1>a, <1>2, <2>1, StartParts DEF Prepare, Marking
    <2> QED
      BY <1>a, <2>1, <2>2 DEF Marking
  <1>3. CASE PrepareRefused \/ RetryIgnored \/ Finalize \/ ConsumeStop
    BY <1>1, <1>3 DEF PrepareRefused, RetryIgnored, Finalize, AskAgain, Over, ConsumeStop
  <1>4. CASE ConsumeMessage
    <2>1. CASE Mark(Head(events).msg) /\ main' = "noting" /\ UNCHANGED events
      <3>1. events # <<>> /\ 1 \in DOMAIN events /\ Head(events) = events[1] /\ main = "consume"
        BY <1>0, <1>4 DEF ConsumeMessage, Comes, TypeOK
      <3>2. adk = "after" /\ events[1].msg = msg /\ noted' = noted \cup {msg.no}
        BY <1>4, <2>1, <3>1 DEF ConsumeMessage, Comes, Mark, Marking
      <3> QED
        BY <1>a, <1>4, <2>1, <3>1, <3>2 DEF ConsumeMessage, Marking
    <2>2. CASE events' = Tail(events) /\ UNCHANGED <<main, noted>>
      BY <1>0, <1>1, <1>4, <2>2, TailComes DEF ConsumeMessage, Comes
    <2> QED
      BY <1>4, <2>1, <2>2 DEF ConsumeMessage
  <1>5. CASE ConsumerNotes
    <2>1. events # <<>> /\ events' = Tail(events) /\ main = "noting"
      BY <1>0, <1>5 DEF ConsumerNotes, Noting
    <2> QED
      BY <1>0, <1>1, <1>5, <2>1, TailComes DEF ConsumerNotes, Note
  <1>6. CASE ConsumeResult
    BY <1>0, <1>1, <1>6, TailComes DEF ConsumeResult, Comes
  <1>7. CASE ConsumeTooLong
    <2>1. UNCHANGED <<modelCalls, noted, prepared>> /\ main = "consume"
      BY <1>7 DEF ConsumeTooLong, Comes
    <2>2. CASE StartADK
      <3>1. events' = <<>> /\ adk' \in {"before", "tools"} /\ msg'.no <= modelCalls'
        BY <1>a, <2>1, <2>2, StartParts DEF Marking
      <3> QED
        BY <2>1, <3>1 DEF Marking
    <2>3. CASE Over("failed") /\ UNCHANGED <<compacted, framework, events>>
      BY <1>1, <2>1, <2>3 DEF Over
    <2> QED
      BY <1>7, <2>2, <2>3 DEF ConsumeTooLong
  <1>8. CASE ConsumeEnd
    BY <1>1, <1>8 DEF ConsumeEnd
  <1>9. CASE CallModel
    <2>1. UNCHANGED <<noted, msg, events, main>> /\ adk = "before" /\ adk' = "model"
      BY <1>9 DEF CallModel
    <2>2. CASE prepared /\ prepared' = FALSE /\ UNCHANGED <<context, queue>>
      BY <1>a, <2>1, <2>2 DEF Marking
    <2>3. CASE ~ prepared /\ BeforeModelCall(queue) /\ UNCHANGED prepared
      <3>1. modelCalls' = modelCalls + 1
        BY <1>0, <2>3, PaidCounts
      <3>2. \A n \in noted : n <= modelCalls
        BY DEF Marking
      <3>3. modelCalls' \notin noted' /\ \A n \in noted' : n <= modelCalls'
        BY <1>a, <2>1, <3>1, <3>2
      <3>4. msg'.no <= modelCalls' /\ ~ prepared'
        BY <1>a, <2>1, <2>3, <3>1 DEF Marking
      <3>5. main' \in {"consume", "noting"} => modelCalls' >= 1
        BY <1>a, <3>1
      <3> QED
        BY <2>1, <3>3, <3>4, <3>5 DEF Marking
    <2> QED
      BY <1>9, <2>2, <2>3 DEF CallModel
  <1>10. ASSUME NEW kind, Ends(kind), kind # "message", adk # "after",
                UNCHANGED <<main, modelCalls, noted, prepared>>
         PROVE  Marking'
    BY <1>0, <1>10, EndsParts DEF Marking
  <1>11. CASE CallRefused \/ ModelFails
    <2>1. PICK kind : Ends(kind) /\ kind # "message"
      BY <1>11 DEF CallRefused, ModelFails
    <2> QED
      BY <1>10, <1>11, <2>1 DEF CallRefused, ModelFails
  <1>12. CASE ModelAnswers
    <2>1. /\ Emit([kind |-> "message", msg |-> msg']) /\ adk = "model" /\ adk' = "after"
          /\ msg'.no = modelCalls /\ UNCHANGED <<main, modelCalls, noted, prepared>>
      BY <1>12 DEF ModelAnswers
    <2>2. \A i \in DOMAIN events' : \/ i \in DOMAIN events /\ events'[i] = events[i]
                                    \/ events'[i].msg = msg'
      BY <1>0, <2>1, EmitParts
    <2> QED
      BY <1>a, <2>1, <2>2 DEF Marking
  <1>13. ASSUME Proceed, adk = "noting" \/ msg.no \in noted, adk \in {"after", "noting"},
                UNCHANGED <<main, modelCalls, noted, prepared, msg>>
         PROVE  Marking'
    BY <1>0, <1>13, ProceedParts DEF Marking
  <1>14. CASE AfterModel
    <2>1. CASE Mark(msg) /\ adk' = "noting" /\ UNCHANGED <<events, stage>>
      BY <1>a, <1>14, <2>1 DEF AfterModel, Mark, Marking
    <2> QED
      BY <1>13, <1>14, <2>1 DEF AfterModel
  <1>15. CASE FrameworkNotes
    BY <1>13, <1>15 DEF FrameworkNotes, Note
  <1>16. CASE ToolsDone
    <2>1. CASE adk' = "before" /\ UNCHANGED <<steps, msg, toolOf, stage, events>>
      BY <1>16, <2>1 DEF ToolsDone, Marking
    <2> QED
      BY <1>10, <1>16, <2>1 DEF ToolsDone
  <1>17. CASE \E c \in CallIds : Gates(c) \/ Reserve(c)
    BY <1>1, <1>17 DEF Gates, Reserve
  <1>18. CASE \E c \in CallIds : Refused(c) \/ Returns(c)
    <2>1. PICK c \in CallIds : Result(c)
      BY <1>18 DEF Refused, Returns
    <2>2. \A i \in DOMAIN events' : \/ events'[i].kind # "message"
                                    \/ \E j \in DOMAIN events : events[j] = events'[i]
      BY <1>0, <2>1, EmitParts DEF Result
    <2> QED
      BY <1>1, <2>1, <2>2 DEF Result
  <1>19. CASE UNCHANGED vars
    BY <1>1, <1>19 DEF vars
  <1> QED
    BY <1>2, <1>3, <1>4, <1>5, <1>6, <1>7, <1>8, <1>9, <1>11, <1>12, <1>14, <1>15, <1>16,
       <1>17, <1>18, <1>19
    DEF Next, MainStep, FrameworkStep, ToolStep

-----------------------------------------------------------------------------
(* A call of the model is paid for under a policy of its own; what is         *)
(* required then is required still if it was before.                        *)
LEMMA PaidRemembers ==
  ASSUME TypeOK, NEW q \in Seq(Policies), BeforeModelCall(q)
  PROVE  /\ queue' \in Seq(Policies) /\ Len(q) \in Nat /\ Len(queue') = Len(q) + 1
         /\ \A i \in 1..Len(q) : queue'[i] = q[i]
         /\ policy' # None => queue'[Len(q) + 1] # None
         /\ policy' # None /\ modelCalls >= 1 => policy # None
  <1>1. Effective(Hooked) \in Policies /\ queue' = Append(q, Effective(Hooked))
    BY Required DEF BeforeModelCall
  <1>2. policy' # None => Effective(Hooked) # None /\ Hooked # None
    BY DEF BeforeModelCall, Effective
  <1>3. modelCalls >= 1 => Hooked = None \/ Hooked = policy
    BY DEF Hooked, TypeOK
  <1> QED
    BY <1>1, <1>2, <1>3

(* Recording a message takes the policy it was asked for under, and one that  *)
(* leaves a required tool uncalled is known to.                             *)
LEMMA NoteParts ==
  ASSUME TypeOK, queue # <<>>, NEW m, Note(m),
         policy # None => \A i \in DOMAIN queue : queue[i] # None
  PROVE  /\ Len(queue) \in Nat \ {0} /\ queue' \in Seq(Policies) /\ Len(queue') = Len(queue) - 1
         /\ policy' # None => policy # None /\ \A i \in DOMAIN queue' : queue'[i] # None
         /\ unmet' => ignored' # None /\ policy' # None
  <1>1. /\ queue \in Seq(Policies) /\ Len(queue) \in Nat \ {0} /\ 1 \in DOMAIN queue
        /\ Head(queue) = queue[1]
    BY DEF TypeOK
  <1>2. /\ queue' = Tail(queue) /\ queue' \in Seq(Policies) /\ Len(queue') = Len(queue) - 1
        /\ \A i \in DOMAIN queue' : i + 1 \in DOMAIN queue /\ queue'[i] = queue[i + 1]
    BY <1>1 DEF Note
  <1>3. policy' # None => policy # None
    BY DEF Note
  <1>4. unmet' => m.calls = {} /\ policy # None
    BY DEF Note
  <1>5. unmet' => ignored' # None /\ policy' # None
    BY <1>1, <1>4 DEF Note
  <1> QED
    BY <1>1, <1>2, <1>3, <1>5

LEMMA RememberingStep ==
  ASSUME TypeInv, Quiet, Delivering, Marking, Remembering, [Next]_vars
  PROVE  Remembering'
  <1> USE DEF rigid, context, runtime, framework
  <1>0. TypeOK /\ Noting /\ queue \in Seq(Policies) /\ Len(queue) \in Nat
    BY DEF TypeInv, TypeOK
  <1>1. ASSUME UNCHANGED <<policy, queue>>, main' \in {"consume", "noting"} => main' = main,
               ByFramework' => ByFramework
        PROVE  Remembering'
    BY <1>1 DEF Remembering
  <1>2. CASE Prepare
    <2>1. BeforeModelCall(<<>>) /\ main' = "consume"
      BY <1>2 DEF Prepare, StartADK
    <2>2. queue' = <<Effective(Hooked)>> /\ (policy' # None => Effective(Hooked) # None)
      BY <2>1 DEF BeforeModelCall
    <2>3. queue' # <<>> /\ (policy' # None => \A i \in DOMAIN queue' : queue'[i] # None)
      BY <2>2
    <2> QED
      BY <2>1, <2>3 DEF Remembering
  <1>3. CASE PrepareRefused \/ RetryIgnored \/ Finalize \/ ConsumeStop \/ ConsumeEnd
    BY <1>3
    DEF PrepareRefused, RetryIgnored, Finalize, AskAgain, Over, ConsumeStop, ConsumeEnd, Remembering
  <1>4. CASE ConsumeMessage
    <2>0. main = "consume" /\ UNCHANGED <<prepared, queue, policy, adk, msg>>
      BY <1>4 DEF ConsumeMessage, Comes
    <2>1. CASE Mark(Head(events).msg) /\ main' = "noting" /\ UNCHANGED events
      <3>1. events # <<>> /\ 1 \in DOMAIN events /\ Head(events) = events[1]
        BY <1>0, <1>4 DEF ConsumeMessage, Comes, TypeOK
      <3>2. adk = "after" /\ msg.no \notin noted /\ msg.no \in noted'
        BY <1>4, <2>1, <3>1 DEF ConsumeMessage, Comes, Mark, Marking
      <3>3. ByFramework /\ ~ ByFramework'
        BY <2>0, <3>2 DEF ByFramework, Marking
      <3> QED
        BY <2>0, <2>1, <3>3 DEF Remembering
    <2>2. CASE UNCHANGED <<main, noted>>
      BY <1>1, <2>0, <2>2 DEF ByFramework
    <2> QED
      BY <1>4, <2>1, <2>2 DEF ConsumeMessage
  <1>5. CASE ConsumerNotes
    <2>1. /\ main = "noting" /\ main' = "consume" /\ Note(Head(events).msg)
          /\ UNCHANGED <<prepared, adk, msg, noted>>
      BY <1>5 DEF ConsumerNotes, Note
    <2>2. ByFramework' => ByFramework
      BY <2>1 DEF ByFramework
    <2>3. /\ queue # <<>> /\ (ByFramework => Len(queue) >= 2)
          /\ policy # None => \A i \in DOMAIN queue : queue[i] # None
      BY <2>1 DEF Remembering
    <2>4. /\ Len(queue') = Len(queue) - 1 /\ queue' \in Seq(Policies)
          /\ policy' # None => \A i \in DOMAIN queue' : queue'[i] # None
      BY <1>0, <2>1, <2>3, NoteParts
    <2>5. ByFramework' => queue' # <<>>
      BY <1>0, <2>2, <2>3, <2>4
    <2> QED
      BY <2>1, <2>4, <2>5 DEF Remembering
  <1>6. CASE ConsumeResult
    BY <1>1, <1>6 DEF ConsumeResult, Comes, ByFramework
  <1>7. CASE ConsumeTooLong
    <2>1. UNCHANGED <<queue, policy, noted, prepared>> /\ main = "consume"
      BY <1>7 DEF ConsumeTooLong, Comes
    <2>2. CASE StartADK
      BY <1>1, <2>1, <2>2, StartParts DEF ByFramework
    <2>3. CASE Over("failed")
      BY <2>3 DEF Over, Remembering
    <2> QED
      BY <1>7, <2>2, <2>3 DEF ConsumeTooLong
  <1>8. CASE CallModel
    <2>1. UNCHANGED <<main, noted>> /\ adk = "before" /\ adk' = "model"
      BY <1>8 DEF CallModel
    <2>2. CASE prepared /\ prepared' = FALSE /\ UNCHANGED <<context, queue>>
      BY <1>1, <2>1, <2>2 DEF ByFramework
    <2>3. CASE ~ prepared /\ BeforeModelCall(queue)
      <3> SUFFICES ASSUME main \in {"consume", "noting"} PROVE Remembering'
        BY <2>1 DEF Remembering
      <3>1. modelCalls >= 1
        BY DEF Marking
      <3>2. /\ queue' \in Seq(Policies) /\ Len(queue') = Len(queue) + 1
            /\ \A i \in 1..Len(queue) : queue'[i] = queue[i]
            /\ policy' # None => queue'[Len(queue) + 1] # None /\ policy # None
        BY <1>0, <2>3, <3>1, PaidRemembers
      <3>3. queue' # <<>> /\ (main = "noting" => Len(queue') >= 2)
        BY <1>0, <3>2 DEF Remembering
      <3>4. policy' # None => \A i \in DOMAIN queue' : queue'[i] # None
        <4> SUFFICES ASSUME policy' # None, NEW i \in DOMAIN queue' PROVE queue'[i] # None
          OBVIOUS
        <4>1. i \in DOMAIN queue \/ i = Len(queue) + 1
          BY <1>0, <3>2
        <4>2. \A j \in DOMAIN queue : queue[j] # None
          BY <3>2 DEF Remembering
        <4>3. DOMAIN queue = 1..Len(queue)
          BY <1>0
        <4> QED
          BY <3>2, <4>1, <4>2, <4>3
      <3> QED
        BY <2>1, <3>3, <3>4 DEF Remembering
    <2> QED
      BY <1>8, <2>2, <2>3 DEF CallModel
  <1>9. CASE CallRefused \/ ModelFails
    <2>1. PICK kind : Ends(kind)
      BY <1>9 DEF CallRefused, ModelFails
    <2> QED
      BY <1>1, <1>9, <2>1 DEF CallRefused, ModelFails, Ends, ByFramework
  <1>10. CASE ModelAnswers
    BY <1>1, <1>10 DEF ModelAnswers, ByFramework
  <1>11. CASE AfterModel
    <2>1. CASE Mark(msg) /\ adk' = "noting"
      BY <1>1, <1>11, <2>1 DEF AfterModel, Mark, ByFramework
    <2>2. CASE msg.no \in noted /\ Proceed /\ UNCHANGED noted
      BY <1>0, <1>1, <1>11, <2>2, ProceedParts DEF AfterModel, ByFramework
    <2> QED
      BY <1>11, <2>1, <2>2 DEF AfterModel
  <1>12. CASE FrameworkNotes
    <2>1. /\ adk = "noting" /\ Note(msg) /\ Proceed /\ UNCHANGED <<main, prepared, msg, noted>>
      BY <1>12 DEF FrameworkNotes, Note
    <2>2. main \in {"consume", "noting"} /\ ByFramework
      BY <2>1 DEF Quiet, ByFramework
    <2>3. /\ queue # <<>> /\ (main = "noting" => Len(queue) >= 2)
          /\ policy # None => \A i \in DOMAIN queue : queue[i] # None
      BY <2>2 DEF Remembering
    <2>4. /\ Len(queue') = Len(queue) - 1 /\ queue' \in Seq(Policies)
          /\ policy' # None => \A i \in DOMAIN queue' : queue'[i] # None
      BY <1>0, <2>1, <2>3, NoteParts
    <2>5. ~ ByFramework'
      BY <1>0, <2>1, ProceedParts DEF ByFramework, Marking
    <2>6. main' = "noting" => queue' # <<>>
      BY <1>0, <2>1, <2>3, <2>4
    <2> QED
      BY <2>4, <2>5, <2>6 DEF Remembering
  <1>13. CASE ToolsDone
    <2>1. adk' \in {"idle", "before"}
      BY <1>13 DEF ToolsDone, Ends
    <2> QED
      BY <1>1, <1>13, <2>1 DEF ToolsDone, ByFramework
  <1>14. CASE \E c \in CallIds : ToolStep(c)
    BY <1>1, <1>14 DEF ToolStep, Gates, Reserve, Refused, Returns, Result, ByFramework
  <1>15. CASE UNCHANGED vars
    BY <1>1, <1>15 DEF vars, ByFramework
  <1> QED
    BY <1>2, <1>3, <1>4, <1>5, <1>6, <1>7, <1>8, <1>9, <1>10, <1>11, <1>12, <1>13, <1>14,
       <1>15
    DEF Next, MainStep, FrameworkStep

-----------------------------------------------------------------------------
(* Nothing but the end of an answer makes the run judge it.                  *)
LEMMA IgnoringStep ==
  ASSUME TypeInv, Quiet, Delivering, Marking, Remembering, Ignoring, [Next]_vars
  PROVE  Ignoring'
  <1> USE DEF rigid, context, runtime, framework
  <1>0. TypeOK /\ Noting
    BY DEF TypeInv
  <1>1. ASSUME UNCHANGED <<ignored, policy, unmet, outcome>>, main' = "over" \/ main # "over",
               Recorded' => Recorded
        PROVE  Ignoring'
    BY <1>1 DEF Ignoring
  <1>2. ASSUME ~ Recorded', outcome' = "answered" => main' = "over" PROVE Ignoring'
    BY <1>2 DEF Ignoring
  <1>3. ASSUME NEW m, Note(m), queue # <<>>, main \in {"consume", "noting"}, UNCHANGED outcome
        PROVE  Ignoring'
    BY <1>0, <1>3, NoteParts DEF Ignoring, Remembering
  <1>4. CASE Prepare
    BY <1>2, <1>4, StartParts DEF Prepare, Recorded, Ignoring
  <1>5. CASE PrepareRefused \/ RetryIgnored \/ Finalize
    BY <1>2, <1>5
       DEF PrepareRefused, RetryIgnored, Finalize, AskAgain, Over, Recorded, Ignoring
  <1>6. CASE ConsumeMessage
    <2>1. CASE main' = "noting"
      BY <1>2, <1>6, <2>1 DEF ConsumeMessage, Comes, Recorded, Ignoring
    <2>2. CASE events' = Tail(events) /\ UNCHANGED <<main, noted>>
      <3>1. Recorded' => Recorded
        BY <1>0, <1>6, <2>2, TailComes DEF ConsumeMessage, Comes, Recorded
      <3> QED
        BY <1>1, <1>6, <2>2, <3>1 DEF ConsumeMessage, Comes
    <2> QED
      BY <1>6, <2>1, <2>2 DEF ConsumeMessage
  <1>7. CASE ConsumerNotes
    BY <1>3, <1>7 DEF ConsumerNotes, Remembering
  <1>8. CASE ConsumeResult
    <2>1. Recorded' => Recorded
      BY <1>0, <1>8, TailComes DEF ConsumeResult, Comes, Recorded
    <2> QED
      BY <1>1, <1>8, <2>1 DEF ConsumeResult, Comes
  <1>9. CASE ConsumeTooLong
    <2>1. CASE StartADK /\ UNCHANGED outcome
      BY <1>2, <1>9, <2>1, StartParts DEF ConsumeTooLong, Comes, Recorded, Ignoring
    <2>2. CASE Over("failed")
      BY <1>2, <2>2 DEF Over, Recorded
    <2> QED
      BY <1>9, <2>1, <2>2 DEF ConsumeTooLong
  <1>10. CASE ConsumeStop
    BY <1>2, <1>10 DEF ConsumeStop, Over, Recorded
  <1>11. CASE ConsumeEnd
    <2>1. Recorded
      BY <1>0, <1>11 DEF ConsumeEnd, Comes, Recorded, TypeOK
    <2> QED
      BY <1>1, <1>11, <2>1 DEF ConsumeEnd, Comes
  <1>12. ASSUME adk # "idle", UNCHANGED <<main, outcome>>
         PROVE  /\ outcome' = "answered" => main' = "over"
                /\ \A i \in DOMAIN events : events[i].kind # "end"
    BY <1>12 DEF Quiet, Flowing, Ignoring
  <1>13. CASE CallModel
    BY <1>2, <1>12, <1>13 DEF CallModel, Recorded, Quiet
  <1>14. ASSUME NEW kind, Ends(kind), kind # "end", adk # "idle", UNCHANGED <<main, outcome>>
         PROVE  Ignoring'
    <2>1. ~ Recorded'
      BY <1>0, <1>12, <1>14, EndsParts DEF Recorded, Quiet
    <2> QED
      BY <1>2, <1>12, <1>14, <2>1
  <1>15. CASE CallRefused \/ ModelFails
    <2>1. PICK kind : Ends(kind) /\ kind # "end"
      BY <1>15 DEF CallRefused, ModelFails
    <2> QED
      BY <1>14, <1>15, <2>1 DEF CallRefused, ModelFails
  <1>16. CASE ModelAnswers
    <2>1. /\ Emit([kind |-> "message", msg |-> msg']) /\ adk = "model" /\ adk' = "after"
          /\ msg'.no = modelCalls /\ UNCHANGED <<main, outcome, noted>>
      BY <1>16 DEF ModelAnswers
    <2>2. modelCalls \notin noted /\ main # "judge"
      BY <2>1 DEF Marking, Quiet
    <2>3. \A i \in DOMAIN events' : events'[i].kind # "end"
      BY <1>0, <1>12, <2>1, EmitParts
    <2> QED
      BY <1>2, <1>12, <2>1, <2>2, <2>3 DEF Recorded
  <1>17. CASE AfterModel
    <2>0. UNCHANGED <<ignored, policy, unmet, outcome, main, msg>> /\ adk = "after"
      BY <1>17 DEF AfterModel
    <2>1. CASE adk' = "noting" /\ UNCHANGED events
      BY <1>2, <1>12, <2>0, <2>1 DEF Recorded, Quiet
    <2>2. CASE msg.no \in noted /\ Proceed
      <3>1. Recorded' => Recorded
        BY <1>0, <2>0, <2>2, ProceedParts DEF Recorded
      <3>2. main # "over"
        BY <2>0 DEF Quiet
      <3> QED
        BY <1>1, <2>0, <3>1, <3>2
    <2> QED
      BY <1>17, <2>1, <2>2 DEF AfterModel
  <1>18. CASE FrameworkNotes
    <2>1. adk = "noting" /\ main \in {"consume", "noting"}
      BY <1>18 DEF FrameworkNotes, Quiet
    <2>2. queue # <<>>
      BY <2>1 DEF Remembering, ByFramework
    <2> QED
      BY <1>3, <1>18, <2>1, <2>2 DEF FrameworkNotes
  <1>19. CASE ToolsDone
    <2>1. CASE adk' = "before" /\ UNCHANGED <<steps, msg, toolOf, stage, events>>
      BY <1>2, <1>12, <1>19, <2>1 DEF ToolsDone, Recorded, Quiet
    <2> QED
      BY <1>14, <1>19, <2>1 DEF ToolsDone
  <1>20. CASE \E c \in CallIds : Gates(c) \/ Reserve(c)
    BY <1>20 DEF Gates, Reserve, Ignoring, Recorded
  <1>21. CASE \E c \in CallIds : Refused(c) \/ Returns(c)
    <2>1. PICK c \in CallIds : Result(c)
      BY <1>21 DEF Refused, Returns
    <2>2. Recorded' => Recorded
      BY <1>0, <2>1, EmitParts DEF Result, Recorded
    <2> QED
      BY <2>1, <2>2 DEF Result, Ignoring
  <1>22. CASE UNCHANGED vars
    BY <1>22 DEF vars, Ignoring, Recorded
  <1> QED
    BY <1>4, <1>5, <1>6, <1>7, <1>8, <1>9, <1>10, <1>11, <1>13, <1>15, <1>16, <1>17,
       <1>18, <1>19, <1>20,
       <1>21, <1>22
    DEF Next, MainStep, FrameworkStep, ToolStep

-----------------------------------------------------------------------------
(* Only the judgement of an answer ends a run with it, and it does so with a   *)
(* required tool left uncalled only after both ways to ask for it again.     *)
LEMMA AskedStep ==
  ASSUME TypeInv, Quiet, Ignoring, UnmetIsAsked, [Next]_vars
  PROVE  UnmetIsAsked'
  <1> USE DEF rigid, context, runtime, framework
  <1>1. ASSUME UNCHANGED <<outcome, unmet, asked>> PROVE UnmetIsAsked'
    BY <1>1 DEF UnmetIsAsked
  <1>2. ASSUME outcome' # "answered" PROVE UnmetIsAsked'
    BY <1>2 DEF UnmetIsAsked
  <1>3. main # "over" => outcome # "answered"
    BY DEF Ignoring
  <1>4. CASE MainStep
    <2>1. CASE Finalize
      <3>1. main = "judge" /\ unmet' = unmet /\ asked \subseteq asked'
        BY <2>1 DEF Finalize, AskAgain
      <3>2. unmet => ignored # None /\ policy # None
        BY <3>1 DEF Ignoring, Recorded
      <3>3. unmet /\ outcome' = "answered" => {"ignored", "final"} \subseteq asked
        BY <1>3, <2>1, <3>1, <3>2 DEF Finalize, AskAgain, Over
      <3> QED
        BY <3>1, <3>3 DEF UnmetIsAsked
    <2>2. CASE \/ Prepare \/ PrepareRefused \/ ConsumeMessage \/ ConsumerNotes \/ ConsumeResult
               \/ ConsumeTooLong \/ ConsumeStop \/ ConsumeEnd \/ RetryIgnored
      <3>1. outcome' # "answered"
        BY <1>3, <2>2
        DEF Prepare, PrepareRefused, ConsumeMessage, ConsumerNotes, ConsumeResult, ConsumeTooLong,
            ConsumeStop, ConsumeEnd, RetryIgnored, AskAgain, Over, Comes
      <3> QED
        BY <1>2, <3>1
    <2> QED
      BY <1>4, <2>1, <2>2 DEF MainStep
  <1>5. CASE FrameworkStep
    <2>1. adk # "idle" /\ outcome' = outcome
      BY <1>5
      DEF FrameworkStep, CallModel, CallRefused, ModelAnswers, ModelFails, AfterModel, FrameworkNotes,
          ToolsDone
    <2> QED
      BY <1>2, <1>3, <2>1 DEF Quiet
  <1>6. CASE \E c \in CallIds : ToolStep(c)
    BY <1>1, <1>6 DEF ToolStep, Gates, Reserve, Refused, Returns, Result
  <1>7. CASE UNCHANGED vars
    BY <1>1, <1>7 DEF vars
  <1> QED
    BY <1>4, <1>5, <1>6, <1>7 DEF Next

(* No run ends with an answer that left a required tool uncalled before both   *)
(* ways to ask for it again are used up, whichever of the two goroutines       *)
(* recorded which message.                                                  *)
THEOREM UnmetAsksAgain == Spec => []UnmetIsAsked
  <1> DEFINE Inv == /\ TypeInv /\ Quiet /\ Delivering /\ Marking /\ Remembering /\ Ignoring
                    /\ UnmetIsAsked
  <1>1. Init => Inv
    <2> SUFFICES ASSUME Init PROVE Inv
      OBVIOUS
    <2>1. Quiet /\ Delivering /\ Marking
      BY DEF Init, Quiet, Delivering, Marking
    <2>2. Remembering /\ Ignoring /\ UnmetIsAsked
      BY DEF Init, Remembering, Ignoring, Recorded, UnmetIsAsked, Outcomes
    <2> QED
      BY <2>1, <2>2, TypeInit
  <1>2. Inv /\ [Next]_vars => Inv'
    BY TypeStep, QuietStep, DeliverStep, MarkingStep, RememberingStep, IgnoringStep, AskedStep
  <1> QED
    BY <1>1, <1>2, PTL DEF Spec
=============================================================================
