------------------------------ MODULE Approval ------------------------------
(***************************************************************************)
(* One conversation whose runs stop at tool calls that need approval.       *)
(* Ordinary runs - messages, tasks, cron jobs - take turns at the session   *)
(* lock, whether another run waits or not; one that stops at a gated call   *)
(* leaves a checkpoint of its own on disk and a record that waits in the    *)
(* session store.  Decisions arrive as messages or card clicks, which look  *)
(* for a waiting run under the session lock (internal/app/approval.go,      *)
(* feishu_channel.go), and over the Task API, which looks before it queues  *)
(* for the lock (task_api.go); each resumes the checkpoint of the run it    *)
(* found, and may stop at its next gated call.  Cancellations, "new         *)
(* session" commands and crashes interfere.  Eino's Runner, which resumes a *)
(* checkpoint, is external.  One action is one critical section of the      *)
(* store, or one use of a checkpoint file.                                  *)
(***************************************************************************)
EXTENDS Naturals, FiniteSets

CONSTANTS
  Origins,     (* ordinary runs; each is also the id of its checkpoint       *)
  Texts,       (* decisions by message or card; each is also the id of its run *)
  Apis,        (* decisions over the Task API                                *)
  Rejecting,   (* the decisions that reject                                  *)
  Cancels,     (* cancel requests                                            *)
  Nobody,
  Calls,       (* the tool calls 1 .. Calls of a run need approval           *)
  MaxRetries,  (* bound: resumed runs start over no more often than this     *)
  MaxResets, MaxCrashes  (* bounds *)

Decisions == Texts \cup Apis
Runs      == Decisions \cup Origins

ASSUME ApprovalAssumption ==
  /\ Texts \cap Apis = {}
  /\ Rejecting \subseteq Decisions
  /\ Origins \cap Decisions = {}
  /\ Nobody \notin Runs
  /\ IsFiniteSet(Decisions)
  /\ Calls \in Nat \ {0}
  /\ {MaxRetries, MaxResets, MaxCrashes} \subseteq Nat

VARIABLES
  status,      (* run -> status of its record in the session store           *)
  waitsFor,    (* run -> the call its PendingApproval names                  *)
  checkpoint,  (* checkpoint id -> the call the file stands at; 0 without a file *)
  lock,        (* holder of the session lock                                 *)
  pc,          (* run -> progress                                            *)
  checkpointID,  (* run -> its checkpoint; a decision takes over that of     *)
                 (* the run it found                                         *)
  from, seen,  (* decision -> the waiting run it found, and that run's call  *)
  outcome,     (* run -> status it will be recorded with                     *)
  stopsAt,     (* run -> the call it was interrupted at                      *)
  stopped,     (* runs whose context is cancelled                            *)
  cpc, ctarget,    (* cancel request -> progress, and the run it found       *)
  settledBy,   (* history: checkpoint id, call -> decisions that executed or rejected it *)
  executions,  (* history: checkpoint id, call -> how often it was executed  *)
  stale,       (* history: checkpoints an API decision resumed though the    *)
               (* run it had found did not wait any more                     *)
  retries, resets, crashes

recordVars   == <<status, waitsFor>>
foundVars    == <<checkpointID, from, seen>>
resultVars   == <<outcome, stopsAt>>
cancelVars   == <<stopped, cpc, ctarget>>
histVars     == <<settledBy, executions, stale>>
boundVars    == <<retries, resets, crashes>>
vars == <<recordVars, checkpoint, lock, pc, foundVars, resultVars, cancelVars, histVars, boundVars>>

Init ==
  /\ status = [r \in Runs |-> "absent"] /\ waitsFor = [r \in Runs |-> 0]
  /\ checkpoint = [o \in Origins |-> 0]
  /\ lock = Nobody
  /\ pc = [r \in Runs |-> "idle"]
  /\ checkpointID = [r \in Runs |-> IF r \in Origins THEN r ELSE Nobody]
  /\ from = [d \in Decisions |-> Nobody] /\ seen = [d \in Decisions |-> 0]
  /\ outcome = [r \in Runs |-> "none"] /\ stopsAt = [r \in Runs |-> 0]
  /\ stopped = {}
  /\ cpc = [c \in Cancels |-> "idle"] /\ ctarget = [c \in Cancels |-> Nobody]
  /\ settledBy = [o \in Origins |-> [k \in 1 .. Calls |-> {}]]
  /\ executions = [o \in Origins |-> [k \in 1 .. Calls |-> 0]]
  /\ stale = {}
  /\ retries = 0 /\ resets = 0 /\ crashes = 0

Waiting == {r \in Runs : status[r] = "waiting"}

(* The waiting runs that a decision naming checkpoint id, or none, is for.  *)
Matching(id) == {r \in Waiting : id \in {Nobody, checkpointID[r]}}

(* The call at which the checkpoint file of run r stands.                   *)
FileOf(r) == checkpoint[checkpointID[r]]

(* Runs with an entry in taskCancels: from the start of the record on.      *)
Tracked == {r \in Runs : pc[r] \in {"queued", "ready", "resumed", "resolve", "finish"}}

-----------------------------------------------------------------------------
(* The session lock: a turn of the loop (genInput) and the goroutine of an  *)
(* API decision queue for it after the start of their records.             *)
LockQueued(r) ==
  /\ pc[r] = "queued" /\ lock = Nobody
  /\ lock' = r
  /\ pc' = [pc EXCEPT ![r] = "ready"]
  /\ UNCHANGED <<recordVars, checkpoint, foundVars, resultVars, cancelVars, histVars, boundVars>>

(* The run returns; st is its result, k where it was interrupted.          *)
Return(r, st, k) ==
  /\ outcome' = [outcome EXCEPT ![r] = st]
  /\ stopsAt' = [stopsAt EXCEPT ![r] = k]
  /\ pc' = [pc EXCEPT ![r] = "resolve"]

-----------------------------------------------------------------------------
(* Ordinary runs.  No handler asks whether another run waits.              *)

StartRun(o) ==
  /\ pc[o] = "idle"
  /\ status' = [status EXCEPT ![o] = "running"]
  /\ pc' = [pc EXCEPT ![o] = "queued"]
  /\ UNCHANGED <<waitsFor, checkpoint, lock, foundVars, resultVars, cancelVars, histVars, boundVars>>

(* Superseded by a newer message, or its loop stops: finished without the   *)
(* session lock.                                                           *)
DropRun(o) ==
  /\ pc[o] = "queued"
  /\ \E st \in {"cancelled", "failed"} : status' = [status EXCEPT ![o] = st]
  /\ pc' = [pc EXCEPT ![o] = "done"]
  /\ UNCHANGED <<waitsFor, checkpoint, lock, foundVars, resultVars, cancelVars, histVars, boundVars>>

(* RunWithTraceCheckpoint stops at the first gated call: the Runner writes  *)
(* the checkpoint, whose id is the run's.                                  *)
RunInterrupts(o) ==
  /\ pc[o] = "ready" /\ o \notin stopped
  /\ checkpoint' = [checkpoint EXCEPT ![o] = 1]
  /\ Return(o, "waiting", 1)
  /\ UNCHANGED <<recordVars, lock, foundVars, cancelVars, histVars, boundVars>>

RunEnds(o) ==
  /\ pc[o] = "ready"
  /\ \E st \in {"succeeded", "failed"} : Return(o, st, 0)
  /\ UNCHANGED <<recordVars, checkpoint, lock, foundVars, cancelVars, histVars, boundVars>>

(* onAgentEvents: a run that was preempted, or whose context is cancelled,  *)
(* is recorded as cancelled, whatever it returned.                         *)
Judge(o) ==
  /\ pc[o] = "resolve"
  /\ \/ outcome' = [outcome EXCEPT ![o] = "cancelled"]
     \/ o \notin stopped /\ UNCHANGED outcome
  /\ pc' = [pc EXCEPT ![o] = "finish"]
  /\ UNCHANGED <<recordVars, checkpoint, lock, foundVars, stopsAt, cancelVars, histVars, boundVars>>

-----------------------------------------------------------------------------
(* Messages and cards.  (A card click is also checked before the lock, only *)
(* to be answered at once when nothing waits.)                             *)

LockText(d) ==
  /\ pc[d] = "idle" /\ lock = Nobody
  /\ lock' = d
  /\ pc' = [pc EXCEPT ![d] = "locked"]
  /\ UNCHANGED <<recordVars, checkpoint, foundVars, resultVars, cancelVars, histVars, boundVars>>

(* The waiting run r is what the decision is about.                        *)
Finds(d, r) ==
  /\ checkpointID' = [checkpointID EXCEPT ![d] = checkpointID[r]]
  /\ from' = [from EXCEPT ![d] = r]
  /\ seen' = [seen EXCEPT ![d] = waitsFor[r]]

(* Mutant: the run of the card is taken, whether it waits or not.           *)
FindPendingAny(d) ==
  /\ pc[d] = "locked"
  /\ \E r \in Runs : waitsFor[r] # 0 /\ Finds(d, r)
  /\ status' = [status EXCEPT ![d] = "running"]
  /\ pc' = [pc EXCEPT ![d] = "ready"]
  /\ UNCHANGED <<waitsFor, checkpoint, lock, resultVars, cancelVars, histVars, boundVars>>

(* resumeApproval: PendingApprovalForSession takes the newest of the runs    *)
(* that wait at the checkpoint the decision names, or of all without a name; *)
(* then the record of the new run starts.  Each waiting run is the newest   *)
(* at its own checkpoint, being the only one (AtMostOneWaiting), so that    *)
(* over all names any of them is taken.                                    *)
FindPending(d) ==
  /\ pc[d] = "locked"
  /\ \E r \in Waiting : Finds(d, r)
  /\ status' = [status EXCEPT ![d] = "running"]
  /\ pc' = [pc EXCEPT ![d] = "ready"]
  /\ UNCHANGED <<waitsFor, checkpoint, lock, resultVars, cancelVars, histVars, boundVars>>

(* Nothing waits, or not at the checkpoint the decision names: the run is a  *)
(* direct answer that says so.                                             *)
FindNothing(d) ==
  /\ pc[d] = "locked"
  /\ \E id \in Origins \cup {Nobody} : Matching(id) = {}
  /\ status' = [status EXCEPT ![d] = "succeeded"]
  /\ lock' = Nobody
  /\ pc' = [pc EXCEPT ![d] = "done"]
  /\ UNCHANGED <<waitsFor, checkpoint, foundVars, resultVars, cancelVars, histVars, boundVars>>

-----------------------------------------------------------------------------
(* The Task API: startAsyncTaskDecision.                                   *)

(* RunByID; a run that does not wait is refused, which changes nothing.    *)
CheckApi(d) ==
  /\ pc[d] = "idle"
  /\ \E r \in Waiting : Finds(d, r)
  /\ pc' = [pc EXCEPT ![d] = "checked"]
  /\ UNCHANGED <<recordVars, checkpoint, lock, resultVars, cancelVars, histVars, boundVars>>

StartApi(d) ==
  /\ pc[d] = "checked"
  /\ status' = [status EXCEPT ![d] = "running"]
  /\ pc' = [pc EXCEPT ![d] = "queued"]
  /\ UNCHANGED <<waitsFor, checkpoint, lock, foundVars, resultVars, cancelVars, histVars, boundVars>>

-----------------------------------------------------------------------------
(* The resumed run, the same for both.                                     *)

Settle(d) ==
  /\ settledBy' = [settledBy EXCEPT ![checkpointID[d]][seen[d]] = @ \cup {d}]
  /\ executions' = IF d \in Rejecting THEN executions
                   ELSE [executions EXCEPT ![checkpointID[d]][seen[d]] = @ + 1]

(* Mark the checkpoint of an API decision whose run stopped waiting.        *)
MarkStale(d) ==
  stale' = IF d \in Apis /\ status[from[d]] # "waiting"
           THEN stale \cup {checkpointID[d]} ELSE stale

(* ResumeWithTrace, up to the gated call: it reads the checkpoint, and      *)
(* gateToolCall executes or rejects the call if the decision is for it.     *)
Resume(d) ==
  /\ pc[d] = "ready"
  /\ FileOf(d) = seen[d] /\ d \notin stopped
  /\ Settle(d)
  /\ pc' = [pc EXCEPT ![d] = "resumed"]
  /\ MarkStale(d)
  /\ UNCHANGED <<recordVars, checkpoint, lock, foundVars, resultVars, cancelVars, boundVars>>

(* The checkpoint stands at another call: that one interrupts again.        *)
ResumeElsewhere(d) ==
  /\ pc[d] = "ready"
  /\ FileOf(d) \notin {0, seen[d]} /\ d \notin stopped
  /\ Return(d, "waiting", FileOf(d))
  /\ MarkStale(d)
  /\ UNCHANGED <<recordVars, checkpoint, lock, foundVars, cancelVars, settledBy, executions, boundVars>>

(* The context is cancelled, the checkpoint is gone, or the agent fails.    *)
ResumeFails(d) ==
  /\ pc[d] \in {"ready", "resumed"}
  /\ Return(d, IF d \in stopped THEN "cancelled" ELSE "failed", 0)
  /\ UNCHANGED <<recordVars, checkpoint, lock, foundVars, cancelVars, histVars, boundVars>>

(* The run starts over - the provider refused the prompt as too long, or    *)
(* the answer must call a tool - and resumes the same checkpoint, since the *)
(* resume request stays in the run's metadata.                             *)
StartOver(d) ==
  /\ pc[d] = "resumed" /\ retries < MaxRetries
  /\ FileOf(d) = seen[d] /\ d \notin stopped
  /\ retries' = retries + 1
  /\ Settle(d)
  /\ UNCHANGED <<recordVars, checkpoint, lock, pc, foundVars, resultVars, cancelVars, stale, resets, crashes>>

(* The next call needs approval too: the Runner moves the checkpoint.      *)
Interrupt(d) ==
  /\ pc[d] = "resumed" /\ seen[d] < Calls /\ d \notin stopped
  /\ checkpoint' = [checkpoint EXCEPT ![checkpointID[d]] = seen[d] + 1]
  /\ Return(d, "waiting", seen[d] + 1)
  /\ UNCHANGED <<recordVars, lock, foundVars, cancelVars, histVars, boundVars>>

Complete(d) ==
  /\ pc[d] = "resumed"
  /\ Return(d, "succeeded", 0)
  /\ UNCHANGED <<recordVars, checkpoint, lock, foundVars, cancelVars, histVars, boundVars>>

(* Mutant: the command is recorded, not the status it stands for.           *)
VerdictRaw(d) == IF d \in Rejecting THEN "reject" ELSE "approve"

Verdict(d) == IF d \in Rejecting THEN "rejected" ELSE "approved"

(* Mutant: the waiting run of another checkpoint may be settled.            *)
ResolveAnyone(d) ==
  /\ pc[d] = "resolve"
  /\ \/ /\ \E r \in Waiting : status' = [status EXCEPT ![r] = Verdict(d)]
        /\ UNCHANGED outcome
     \/ /\ Waiting = {}
        /\ outcome' = [outcome EXCEPT ![d] = IF @ = "cancelled" THEN @ ELSE "failed"]
        /\ UNCHANGED status
  /\ pc' = [pc EXCEPT ![d] = "finish"]
  /\ UNCHANGED <<waitsFor, checkpoint, lock, foundVars, stopsAt, cancelVars, histVars, boundVars>>

(* Mutant: that no run waits any more is only logged.                      *)
ResolveLogged(d) ==
  /\ pc[d] = "resolve"
  /\ \/ \E r \in Matching(checkpointID[d]) : status' = [status EXCEPT ![r] = Verdict(d)]
     \/ Matching(checkpointID[d]) = {} /\ UNCHANGED status
  /\ pc' = [pc EXCEPT ![d] = "finish"]
  /\ UNCHANGED <<waitsFor, checkpoint, lock, foundVars, resultVars, cancelVars, histVars, boundVars>>

(* ResolvePendingApproval: the run that waits at the checkpoint is settled,  *)
(* whatever became of the resumed one; with none left that one fails.      *)
Resolve(d) ==
  /\ pc[d] = "resolve"
  /\ \/ /\ \E r \in Matching(checkpointID[d]) : status' = [status EXCEPT ![r] = Verdict(d)]
        /\ UNCHANGED outcome
     \/ /\ Matching(checkpointID[d]) = {}
        /\ outcome' = [outcome EXCEPT ![d] = IF @ = "cancelled" THEN @ ELSE "failed"]
        /\ UNCHANGED status
  /\ pc' = [pc EXCEPT ![d] = "finish"]
  /\ UNCHANGED <<waitsFor, checkpoint, lock, foundVars, stopsAt, cancelVars, histVars, boundVars>>

(* finishUserRun upserts the record; the lock is given back.               *)
Finish(r) ==
  /\ pc[r] = "finish"
  /\ status' = [status EXCEPT ![r] = outcome[r]]
  /\ waitsFor' = [waitsFor EXCEPT ![r] = stopsAt[r]]
  /\ lock' = Nobody
  /\ pc' = [pc EXCEPT ![r] = "done"]
  /\ UNCHANGED <<checkpoint, foundVars, resultVars, cancelVars, histVars, boundVars>>

-----------------------------------------------------------------------------
(* cancelTask: a tracked run has its context cancelled; otherwise the run   *)
(* must be found waiting, and is asked again when the record is written.    *)

CancelTracked(c) ==
  /\ cpc[c] = "idle"
  /\ \E r \in Tracked : stopped' = stopped \cup {r}
  /\ cpc' = [cpc EXCEPT ![c] = "done"]
  /\ UNCHANGED <<recordVars, checkpoint, lock, pc, foundVars, resultVars, ctarget, histVars, boundVars>>

CancelFinds(c) ==
  /\ cpc[c] = "idle"
  /\ \E r \in Waiting \ Tracked : ctarget' = [ctarget EXCEPT ![c] = r]
  /\ cpc' = [cpc EXCEPT ![c] = "found"]
  /\ UNCHANGED <<recordVars, checkpoint, lock, pc, foundVars, resultVars, stopped, histVars, boundVars>>

(* Mutant: the record is written without asking it again.                  *)
CancelRunUnchecked(c) ==
  /\ cpc[c] = "found"
  /\ status' = [status EXCEPT ![ctarget[c]] = "cancelled"]
  /\ cpc' = [cpc EXCEPT ![c] = "delete"]
  /\ UNCHANGED <<waitsFor, checkpoint, lock, pc, foundVars, resultVars, stopped, ctarget, histVars, boundVars>>

CancelRun(c) ==
  /\ cpc[c] = "found"
  /\ IF status[ctarget[c]] \in {"running", "waiting"}
     THEN /\ status' = [status EXCEPT ![ctarget[c]] = "cancelled"]
          /\ cpc' = [cpc EXCEPT ![c] = "delete"]
     ELSE /\ cpc' = [cpc EXCEPT ![c] = "done"]
          /\ UNCHANGED status
  /\ UNCHANGED <<waitsFor, checkpoint, lock, pc, foundVars, resultVars, stopped, ctarget, histVars, boundVars>>

CancelDeletes(c) ==
  /\ cpc[c] = "delete"
  /\ checkpoint' = [checkpoint EXCEPT ![checkpointID[ctarget[c]]] = 0]
  /\ cpc' = [cpc EXCEPT ![c] = "done"]
  /\ UNCHANGED <<recordVars, lock, pc, foundVars, resultVars, stopped, ctarget, histVars, boundVars>>

-----------------------------------------------------------------------------
(* A "new session" command: ResetSession, under the session lock, drops the *)
(* records and leaves the checkpoints.                                     *)
Reset ==
  /\ lock = Nobody /\ resets < MaxResets
  /\ status' = [r \in Runs |-> "absent"]
  /\ waitsFor' = [r \in Runs |-> 0]
  /\ resets' = resets + 1
  /\ UNCHANGED <<checkpoint, lock, pc, foundVars, resultVars, cancelVars, histVars, retries, crashes>>

Dies(p) == IF p \in {"idle", "done"} THEN p ELSE "lost"

(* The server dies and starts again: Load fails the runs it finds running,  *)
(* leaves those that wait.                                                 *)
Crash ==
  /\ crashes < MaxCrashes
  /\ crashes' = crashes + 1
  /\ status' = [r \in Runs |-> IF status[r] = "running" THEN "failed" ELSE status[r]]
  /\ lock' = Nobody
  /\ pc' = [r \in Runs |-> Dies(pc[r])]
  /\ cpc' = [c \in Cancels |-> Dies(cpc[c])]
  /\ UNCHANGED <<waitsFor, checkpoint, foundVars, resultVars, stopped, ctarget, histVars, retries, resets>>

RunStep(o) == StartRun(o) \/ DropRun(o) \/ RunInterrupts(o) \/ RunEnds(o) \/ Judge(o)

ResumeStep(d) ==
  \/ Resume(d) \/ ResumeElsewhere(d) \/ ResumeFails(d)
  \/ StartOver(d) \/ Interrupt(d) \/ Complete(d) \/ Resolve(d)

CancelStep(c) == CancelTracked(c) \/ CancelFinds(c) \/ CancelRun(c) \/ CancelDeletes(c)

Next ==
  \/ \E o \in Origins : RunStep(o)
  \/ \E d \in Texts : LockText(d) \/ FindPending(d) \/ FindNothing(d)
  \/ \E d \in Apis : CheckApi(d) \/ StartApi(d)
  \/ \E d \in Decisions : ResumeStep(d)
  \/ \E r \in Apis \cup Origins : LockQueued(r)
  \/ \E r \in Runs : Finish(r)
  \/ \E c \in Cancels : CancelStep(c)
  \/ Reset \/ Crash

Spec == Init /\ [][Next]_vars

-----------------------------------------------------------------------------
Settled == {"approved", "rejected", "cancelled", "failed", "succeeded"}

(* Every variable keeps its shape.                                         *)
TypeOK ==
  /\ status \in [Runs -> Settled \cup {"absent", "running", "waiting"}]
  /\ waitsFor \in [Runs -> 0 .. Calls]
  /\ checkpoint \in [Origins -> 0 .. Calls]
  /\ lock \in Runs \cup {Nobody}
  /\ pc \in [Runs -> {"idle", "locked", "checked", "queued", "ready", "resumed",
                      "resolve", "finish", "done", "lost"}]
  /\ checkpointID \in [Runs -> Origins \cup {Nobody}]
  /\ from \in [Decisions -> Runs \cup {Nobody}] /\ seen \in [Decisions -> 0 .. Calls]
  /\ outcome \in [Runs -> {"none", "waiting", "succeeded", "failed", "cancelled"}]
  /\ stopsAt \in [Runs -> 0 .. Calls]
  /\ stopped \subseteq Runs
  /\ cpc \in [Cancels -> {"idle", "found", "delete", "done", "lost"}]
  /\ ctarget \in [Cancels -> Runs \cup {Nobody}]
  /\ settledBy \in [Origins -> [1 .. Calls -> SUBSET Decisions]]
  /\ executions \in [Origins -> [1 .. Calls -> Nat]]
  /\ stale \subseteq Origins
  /\ retries \in 0 .. MaxRetries /\ resets \in 0 .. MaxResets /\ crashes \in 0 .. MaxCrashes

(* Several runs of the conversation may wait, but however decisions         *)
(* overlap, retries are answered and cancellations cut in, no two of them   *)
(* wait at the same checkpoint: a run that is interrupted again takes the   *)
(* place of the one it resumed.                                            *)
AtMostOneWaiting == \A r, s \in Waiting : checkpointID[r] = checkpointID[s] => r = s

(* A run recorded as waiting can be resumed: its checkpoint is on disk and, *)
(* unless the holder of the lock resumed it, at its call - or already at a  *)
(* later one when the server died after a resumed run was interrupted again *)
(* and before its record said so.  A cancellation that deletes the file     *)
(* late hits no run that still waits.                                      *)
WaitingIsResumable ==
  \A r \in Waiting :
    /\ FileOf(r) # 0
    /\ crashes = 0 /\ (lock = Nobody \/ checkpointID[lock] # checkpointID[r])
         => FileOf(r) = waitsFor[r]

(* Unless an API decision resumed a run that had stopped waiting, a tool    *)
(* call is settled by one decision: it is not executed after somebody       *)
(* rejected it, nor by two approvals.  A crash between the execution and    *)
(* its record lets the call be decided once more.                          *)
OneDecisionPerCall ==
  \A o \in Origins \ stale, k \in 1 .. Calls : Cardinality(settledBy[o][k]) <= 1 + crashes

(* What is recorded of a run is final, except that a reset drops it: no     *)
(* decision overwrites a cancellation, no cancellation a decision.          *)
OutcomesAreFinal ==
  [][\A r \in Runs : status[r] \in Settled => status'[r] \in {status[r], "absent"}]_vars

-----------------------------------------------------------------------------
(* A claim of the repository that the code does not keep.                   *)

(* docs/configuration.md:116: on resumption, completed steps are not        *)
(* executed again.                                                         *)
StepsNotRepeated == \A o \in Origins, k \in 1 .. Calls : executions[o][k] <= 1
=============================================================================
