------------------------------ MODULE Grounding ------------------------------
(***************************************************************************)
(* Is what a run says what it did?  The tools of a run are called in        *)
(* parallel and each result is kept, with its entries in the evidence       *)
(* ledger, in the run context.  The final answer is judged against them by  *)
(* two hooks: agent/evidence.go, state_guard_hook.go,                       *)
(* tool_grounding_guard_hook.go and the end of Agent.runMessageWithTrace.   *)
(*                                                                         *)
(* Of a text there is what it claims, the ids of scheduled jobs in it and   *)
(* the tool calls written in it as text.  How the run calls the model and   *)
(* the tools is the subject of AgentRun and is short here; of the budgets   *)
(* there is that of model calls.                                            *)
(***************************************************************************)
EXTENDS Naturals, Sequences, FiniteSets

CONSTANTS
  GroundTools,     (* the tools of the agent                                 *)
  GroundCalls,     (* bound: how many tool calls a run makes                  *)
  JobIds,          (* ids that may be written                                *)
  Jobs,            (* those of them that a scheduled job may get             *)
  Replies,         (* what the model may answer in the end                   *)
  MaxGroundCalls,  (* the limit of model calls                               *)
  Nothing

ClaimOrder == <<"command", "commandDone", "environment", "file", "memory">>
ClaimTools == {"bash", "write", "edit", "remember", "forget_memory"}

ASSUME GroundingAssumption ==
  /\ \A a \in Replies :
       /\ a.claims \subseteq {ClaimOrder[i] : i \in DOMAIN ClaimOrder} /\ a.safe \in BOOLEAN
       /\ a.ids \subseteq JobIds /\ a.success \in BOOLEAN /\ a.presents \in BOOLEAN
       /\ a.markup # Nothing
  /\ GroundCalls \in Nat \ {0} /\ MaxGroundCalls \in Nat
  /\ Nothing \notin Replies /\ Nothing \notin GroundTools
  /\ \A p \in SUBSET ClaimTools : Nothing # p
  /\ {"bash", "cron"} \subseteq GroundTools /\ Jobs \subseteq JobIds

VARIABLES
  resumed,    (* the run resumes one that waited for an approval             *)
  schedules,  (* the user asks for a reminder at a given time                *)
  jobs,       (* the jobs there are                                          *)
  jobsMade,   (* history: the jobs there have ever been                      *)
  calls,      (* call -> its tool while it runs, or Nothing                  *)
  results,    (* RunContext.toolResults                                      *)
  ledger,     (* RunContext.evidence                                         *)
  notFound,   (* the tools of calls the framework did not know that are in   *)
              (* the trace: without a recorded result, and without an error   *)
  before,     (* history: the tools that worked before the run waited        *)
  modelCount, (* ModelCallCount                                              *)
  required,   (* toolPolicy: the tools one of which is required, {} for any  *)
              (* tool, or Nothing                                            *)
  exposed,    (* the tools the framework knows until the run starts over, or  *)
              (* Nothing before it starts                                    *)
  used,       (* the reasons to start over that are used up                  *)
  doing,      (* "model", "tools", "judge", "over"                           *)
  answer,     (* the model's last answer                                     *)
  text,       (* what of it is delivered                                     *)
  unheard,    (* history: a guard asked for a tool and the run ended          *)
  missed      (* history: the call that was waited for was not found          *)

groundingVars == <<resumed, schedules, jobs, jobsMade, calls, results, ledger, notFound,
                   before, modelCount, required, exposed, used, doing, answer, text, unheard,
                   missed>>

Texts == {"none", "answer", "state guard", "tool guard", "budget", "approval"}

-----------------------------------------------------------------------------
(* Results and evidence.                                                   *)

Outputs == {"failed", "rejected", "empty", "text"}

Kind(t) ==
  CASE t = "web_search" -> "discovery"
    [] t = "web_fetch" -> "source"
    [] t \in {"write", "edit", "update_todos", "remember", "forget_memory", "cron"} -> "action"
    [] OTHER -> "observation"

(* evidenceRecordsFromToolResult: one entry, or one for each page that a      *)
(* search has found; of a fetched page an empty output stands for one that    *)
(* cannot be used.                                                          *)
EntriesOf(t, out, found) ==
  LET entry(kind, status, citable) ==
        [tool |-> t, kind |-> kind, status |-> status, citable |-> citable]
  IN IF t = "compact" THEN <<>>
     ELSE CASE out = "failed"   -> <<entry("execution", "failed", FALSE)>>
            [] out = "rejected" -> <<entry("action", "rejected", FALSE)>>
            [] out = "empty"    ->
                 <<entry(Kind(t), IF t = "web_fetch" THEN "unusable" ELSE "empty", FALSE)>>
            [] out = "text"     ->
                 IF t = "web_search" THEN [i \in 1..found |-> entry("discovery", "succeeded", FALSE)]
                 ELSE <<entry(Kind(t), "succeeded", TRUE)>>

(* recordToolResult, under the lock: what is recorded carries an error, or    *)
(* not; a rejected call does not.                                           *)
Record(t, out, ids, found) ==
  /\ results' = Append(results, [tool |-> t, error |-> out = "failed", out |-> out, ids |-> ids])
  /\ LET entries == EntriesOf(t, out, found)
     IN ledger' = ledger \o [i \in 1..Len(entries) |->
                               [id |-> Len(ledger) + i, entry |-> entries[i]]]

(* collectToolGroundingEvidence reads the results and the trace, which has an  *)
(* item like its result for every call that has one.                        *)
CalledTools     == {results[i].tool : i \in 1..Len(results)} \cup notFound
SuccessfulTools == {results[i].tool : i \in {j \in 1..Len(results) : ~ results[j].error}} \cup notFound

-----------------------------------------------------------------------------
(* The run.                                                                *)

Usable(p) ==
  IF p = Nothing \/ GroundTools = {} THEN Nothing
  ELSE IF p = {} THEN {}
  ELSE IF p \cap GroundTools = {} THEN Nothing ELSE p \cap GroundTools

(* The scheduling hook requires its tool at the first call and nothing after  *)
(* a call of a tool; one that was rejected is not counted.                   *)
Asked ==
  IF schedules /\ modelCount = 0 THEN {"cron"}
  ELSE IF schedules /\ \E i \in 1..Len(results) : results[i].out # "rejected" THEN Nothing
  ELSE required

(* toolsForRun: what is required when the run starts is all there is.         *)
Exposed ==
  IF exposed # Nothing THEN exposed
  ELSE IF Usable(Asked) \in {Nothing, {}} THEN GroundTools ELSE Usable(Asked)

MayCallModel == modelCount < MaxGroundCalls

CallModel ==
  /\ doing = "model" /\ MayCallModel
  /\ modelCount' = modelCount + 1 /\ exposed' = Exposed
  /\ UNCHANGED <<resumed, schedules, jobs, jobsMade, results, ledger, notFound, before, used, text,
                 unheard, missed>>

AskForTools ==
  /\ CallModel
  /\ \E n \in 1 .. GroundCalls - Len(results) : \E t \in [1..n -> GroundTools] :
       calls' = [c \in 1..GroundCalls |-> IF c <= n THEN t[c] ELSE Nothing]
  /\ required' = Nothing /\ doing' = "tools"
  /\ UNCHANGED answer

AnswerFinally ==
  /\ CallModel
  /\ required' = IF Usable(Asked) = Nothing THEN Nothing ELSE Asked
  /\ answer' \in Replies /\ doing' = "judge"
  /\ UNCHANGED calls

GiveUp ==
  /\ doing = "model" /\ ~ MayCallModel
  /\ doing' = "over" /\ text' = "budget"
  /\ UNCHANGED <<resumed, schedules, jobs, jobsMade, calls, results, ledger, notFound, before,
                 modelCount, required, exposed, used, answer, unheard, missed>>

Target == resumed /\ modelCount = 0

(* toolCallMiddleware: a call ends.  One that was waited for may have been    *)
(* rejected.  CronTool.run: an error names the job that there is not; a text   *)
(* without an id says what is missing, one with ids is of a job made, of one   *)
(* removed, or of all.                                                      *)
EndCall(c) ==
  /\ doing = "tools" /\ calls[c] \in exposed
  /\ calls' = [calls EXCEPT ![c] = Nothing]
  /\ \E out \in Outputs, found \in 1..2, ids \in SUBSET JobIds :
       /\ out = "rejected" => Target
       /\ found = 2 => calls[c] = "web_search" /\ out = "text"
       /\ Record(calls[c], out, ids, found)
       /\ \/ calls[c] # "cron" /\ ids = {} /\ UNCHANGED <<jobs, jobsMade>>
          \/ /\ calls[c] = "cron" /\ out = "failed" /\ Cardinality(ids) <= 1
             /\ UNCHANGED <<jobs, jobsMade>>
          \/ /\ calls[c] = "cron" /\ out \in {"empty", "rejected"} /\ ids = {}
             /\ UNCHANGED <<jobs, jobsMade>>
          \/ /\ calls[c] = "cron" /\ out = "text"
             /\ \/ ids \in {{}, jobs} /\ UNCHANGED <<jobs, jobsMade>>
                \/ /\ \E j \in jobs : ids = {j} /\ jobs' = jobs \ {j}
                   /\ UNCHANGED jobsMade
                \/ \E j \in Jobs \ jobsMade :
                     ids = {j} /\ jobs' = jobs \cup {j} /\ jobsMade' = jobsMade \cup {j}
  /\ doing' = IF \A d \in 1..GroundCalls : calls'[d] = Nothing THEN "model" ELSE "tools"
  /\ UNCHANGED <<resumed, schedules, notFound, before, modelCount, required, exposed, used, answer,
                 text, unheard, missed>>

(* The framework does not know the tool: the call is answered by the handler    *)
(* for unknown tools and not recorded.  If the framework has an event for that  *)
(* answer, the trace gets an item without an error.                            *)
NotFound(c) ==
  /\ doing = "tools" /\ calls[c] \notin exposed \cup {Nothing}
  /\ calls' = [calls EXCEPT ![c] = Nothing]
  /\ missed' = (missed \/ Target)
  /\ notFound' \in {notFound, notFound \cup {calls[c]}}
  /\ doing' = IF \A d \in 1..GroundCalls : calls'[d] = Nothing THEN "model" ELSE "tools"
  /\ UNCHANGED <<resumed, schedules, jobs, jobsMade, results, ledger, before, modelCount, required,
                 exposed, used, answer, text, unheard>>

(* A call that needs an approval ends the run with what is asked of the user. *)
Wait ==
  /\ doing = "tools"
  /\ doing' = "over" /\ text' = "approval"
  /\ UNCHANGED <<resumed, schedules, jobs, jobsMade, calls, results, ledger, notFound, before,
                 modelCount, required, exposed, used, answer, unheard, missed>>

(* The scheduler, or another session, is done with a job.                    *)
JobGone ==
  /\ doing # "over"
  /\ \E j \in jobs : jobs' = jobs \ {j}
  /\ UNCHANGED <<resumed, schedules, jobsMade, calls, results, ledger, notFound, before,
                 modelCount, required, exposed, used, doing, answer, text, unheard, missed>>

-----------------------------------------------------------------------------
(* The guards.                                                             *)

(* Mutant: an error that names a job makes it a job.                        *)
CronIDsOfAll == UNION {results[i].ids : i \in 1..Len(results)}

(* successfulCronToolIDs: ids in what the scheduling tool returned.          *)
CronIDs == UNION {results[i].ids : i \in {j \in 1..Len(results) : ~ results[j].error}}

(* checkScheduleGrounding.                                                  *)
StateGuardBlocks ==
  LET unknown == answer.ids \ (jobs \cup CronIDs)
  IN \/ unknown # {} /\ (answer.success \/ answer.presents)
     \/ answer.success /\ CronIDs = {} /\ answer.ids = {} /\ schedules

(* toolGroundingClaims.                                                     *)
RequiredTools(claim) ==
  CASE claim = "file"   -> {"write", "edit", "bash"}
    [] claim = "memory" -> {"remember", "forget_memory"}
    [] OTHER            -> {"bash"}
RequireSuccess == {"commandDone", "file", "memory"}

Grounded(claim) ==
  RequiredTools(claim) \cap (IF claim \in RequireSuccess THEN SuccessfulTools ELSE CalledTools) # {}

(* checkToolGrounding: calls written as text block the answer, if a tool is    *)
(* named; else its first claim without evidence does, unless the answer says    *)
(* that nothing was done.                                                   *)
Offending == IF answer.safe THEN {} ELSE {c \in answer.claims : ~ Grounded(c)}

FirstOffending ==
  ClaimOrder[CHOOSE i \in DOMAIN ClaimOrder :
               ClaimOrder[i] \in Offending /\ \A j \in 1 .. i - 1 : ClaimOrder[j] \notin Offending]

ToolGuardBlocks == answer.markup # {} \/ Offending # {}
ToolGuardNeeds  == IF answer.markup # {} THEN answer.markup ELSE RequiredTools(FirstOffending)

(* RetryIgnoredToolPolicy: once, when the answer left a required tool uncalled. *)
RetryIgnored ==
  /\ doing = "judge" /\ required # Nothing /\ "ignored" \notin used
  /\ used' = used \cup {"ignored"} /\ required' = Usable(required) /\ doing' = "model"
  /\ exposed' = Nothing
  /\ UNCHANGED <<resumed, schedules, jobs, jobsMade, calls, results, ledger, notFound, before,
                 modelCount, answer, text, unheard, missed>>

(* FinalizeRun of both guards, and retryFinalizationToolPolicy.  A guard that   *)
(* has asked once, or may not call the model, puts its own text in place.       *)
Finalize ==
  /\ doing = "judge" /\ (required = Nothing \/ "ignored" \in used)
  /\ LET asks == /\ ~ StateGuardBlocks /\ ToolGuardBlocks
                 /\ "guard" \notin used /\ MayCallModel
         want == IF asks THEN ToolGuardNeeds ELSE required
         said == IF StateGuardBlocks THEN "state guard"
                 ELSE IF ToolGuardBlocks /\ ~ asks THEN "tool guard" ELSE "answer"
         over == want = Nothing \/ "final" \in used
     IN /\ used' = used \cup (IF asks THEN {"guard"} ELSE {}) \cup (IF over THEN {} ELSE {"final"})
        /\ required' = want /\ exposed' = IF over THEN exposed ELSE Nothing
        /\ doing' = IF over THEN "over" ELSE "model"
        /\ text' = IF over THEN said ELSE text
        /\ unheard' = (asks /\ over)
  /\ UNCHANGED <<resumed, schedules, jobs, jobsMade, calls, results, ledger, notFound, before,
                 modelCount, answer, missed>>

-----------------------------------------------------------------------------
(* A run that resumes starts with the call that waited and an empty context.   *)
GroundingInit ==
  /\ resumed \in BOOLEAN /\ schedules \in BOOLEAN
  /\ jobs \in SUBSET Jobs /\ Cardinality(jobs) <= 1 /\ jobsMade = jobs
  /\ results = <<>> /\ ledger = <<>> /\ notFound = {} /\ modelCount = 0
  /\ \/ /\ ~ resumed /\ before = {} /\ doing = "model"
        /\ calls = [c \in 1..GroundCalls |-> Nothing]
     \/ /\ resumed /\ before \in {{}, {"bash"}} /\ doing = "tools"
        /\ calls = [c \in 1..GroundCalls |-> IF c = 1 THEN "bash" ELSE Nothing]
  /\ required = Nothing /\ used = {} /\ answer = Nothing /\ text = "none"
  /\ exposed = IF ~ resumed THEN Nothing ELSE IF schedules THEN {"cron"} ELSE GroundTools
  /\ unheard = FALSE /\ missed = FALSE

GroundingNext ==
  \/ AskForTools \/ AnswerFinally \/ GiveUp \/ (\E c \in 1..GroundCalls : EndCall(c) \/ NotFound(c))
  \/ Wait \/ JobGone \/ RetryIgnored \/ Finalize

GroundingSpec == GroundingInit /\ [][GroundingNext]_groundingVars

-----------------------------------------------------------------------------
Delivered == doing = "over" /\ text = "answer"

WorkedTools ==
  {results[i].tool : i \in {j \in 1..Len(results) : results[j].out \in {"text", "empty"}}}

RejectedTools == {results[i].tool : i \in {j \in 1..Len(results) : results[j].out = "rejected"}}

(* Entries are numbered as they come, whatever runs in parallel, and only what *)
(* a tool really returned can be cited (architecture.md:138-146).             *)
LedgerSound ==
  \A i \in 1..Len(ledger) :
    /\ ledger[i].id = i
    /\ ledger[i].entry.citable => /\ ledger[i].entry.tool \in WorkedTools
                                  /\ ledger[i].entry.kind # "discovery"

(* An answer that is delivered and says that something was done has a tool     *)
(* that did it, but for three cases: a call the user rejected counts as one    *)
(* that worked, so does one of an unknown tool if it is in the trace, and a    *)
(* guard's request is not heard after another request.                        *)
ClaimsAreTrue ==
  Delivered /\ ~ answer.safe /\ ~ unheard =>
    \A c \in answer.claims \cap RequireSuccess :
      RequiredTools(c) \cap (WorkedTools \cup RejectedTools \cup notFound) # {}

(* A delivered answer gives no id of a job that never was.                   *)
IdsAreReal ==
  Delivered /\ (answer.success \/ answer.presents) => answer.ids \subseteq jobsMade

(* The guard is only unheard when another reason had used up the one retry at   *)
(* the end of a run, and it takes back what is true only of a run that resumed. *)
GuardsAreFair ==
  /\ unheard => {"ignored", "final"} \subseteq used
  /\ doing = "over" /\ text = "tool guard" /\ answer.markup = {} =>
       \/ before # {}
       \/ \E c \in answer.claims :
            RequiredTools(c) \cap (IF c \in RequireSuccess THEN WorkedTools ELSE CalledTools) = {}

(* A call the user has decided about is not found only in a run whose message  *)
(* asks for a reminder, because that run starts with the scheduling tool alone. *)
DecidedIsFound == missed => resumed /\ schedules

(* What is delivered is what was done (architecture.md:208-210), with the       *)
(* exceptions that ClaimsAreTrue names.                                       *)
GroundingInv ==
  LedgerSound /\ ClaimsAreTrue /\ IdsAreReal /\ GuardsAreFair /\ DecidedIsFound
=============================================================================
