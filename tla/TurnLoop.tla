------------------------------ MODULE TurnLoop ------------------------------
(***************************************************************************)
(* One live session of the server: the goroutines that submit user         *)
(* messages to the session's turn loop (internal/app/session_turn_loop.go),*)
(* the loop that runs them one turn at a time and lets a newer message     *)
(* preempt a running turn, the other entry points that take the session    *)
(* lock for a whole run (shortcut, approval, cron job), "new session"      *)
(* commands, and cancellation.  Eino's TurnLoop itself is external: its    *)
(* Push, Stop and exit are modelled from how the code uses them.           *)
(*                                                                         *)
(* One action is one stretch of code between two points where another      *)
(* goroutine can get in: l.mu, turnLoopMu, the session lock, the loop's    *)
(* buffer and the store's mutex.                                           *)
(***************************************************************************)
EXTENDS Naturals, Sequences, FiniteSets, Functions

CONSTANTS Requests,   (* user messages, each the run of one sessionTurnRequest *)
          Directs,    (* runs that hold the session lock from start to end     *)
          Resets,     (* "new session" commands, each the run of its reply     *)
          Loops,      (* instances of sessionTurnLoop, newly made when needed  *)
          Cancellable, (* runs somebody may cancel while they are tracked      *)
          NoRequest, NoLoop, Nobody

ASSUME TurnLoopAssumption ==
  /\ IsFiniteSet(Requests)
  /\ Requests \cap Directs = {}
  /\ Requests \cap Resets = {}
  /\ Directs \cap Resets = {}
  /\ Cancellable \subseteq Requests \cup Directs
  /\ NoRequest \notin Requests
  /\ NoLoop \notin Loops
  /\ Nobody \notin Requests \cup Directs \cup Resets

VARIABLES
  sub,        (* request -> progress of the goroutine in enqueueSessionTurn  *)
  home,       (* request -> the loop it was routed to                        *)
  prompt,     (* request -> the messages its runtime prompt is made of       *)
  stamp,      (* request -> position of its Push, 0 before                   *)
  buffer,     (* loop -> requests pushed and not yet taken by GenInput       *)
  phase,      (* loop -> where its goroutine is                              *)
  held,       (* loop -> the request GenInput selected                       *)
  active,     (* loop -> l.active                                            *)
  pending,    (* loop -> l.pending                                           *)
  preempt,    (* loop -> a preemptive Push reached the current turn          *)
  stopReq,    (* loop -> Stop was called                                     *)
  left,       (* loop -> items of its exit state not finished yet            *)
  current,    (* server.turnLoops[sessionID]                                 *)
  result,     (* request -> what its execution produced                      *)
  cancelled,  (* requests whose runCtx is cancelled                          *)
  tracked,    (* requests with an entry in server.taskCancels                *)
  lock,       (* owner of the session lock                                   *)
  basis,      (* run -> the conversation its agent was restored from         *)
  log, epoch, (* the session's messages, as turns; resets so far             *)
  runs,       (* run -> status of its record in the session store            *)
  done,       (* run -> "none", "open", or the status delivered to its waiter *)
  dpc,        (* direct -> progress                                          *)
  rpc,        (* reset -> progress                                           *)
  rtarget,    (* reset -> the loop it detached                               *)
  replaced,   (* history: requests closed because a newer one takes over     *)
  overlapped, (* history: two submissions were between l.mu and Push at once *)
  tooLate     (* history: requests cancelled after their outcome was judged  *)

submitVars == <<sub, home, prompt, stamp>>
loopVars   == <<buffer, phase, held, active, pending, preempt, stopReq, left>>
turnVars   == <<result, cancelled, tracked>>
storeVars  == <<basis, log, epoch, runs, done>>
otherVars  == <<dpc, rpc, rtarget>>
histVars   == <<replaced, overlapped, tooLate>>
vars == <<submitVars, loopVars, current, turnVars, lock, storeVars, otherVars, histVars>>

Runs     == Requests \cup Directs \cup Resets
Answered == {"succeeded", "waiting_approval"}
Dropped  == {"failed", "cancelled"}
Closed   == Answered \cup Dropped

(* The loop's goroutine: waiting for items; blocked on the session lock in  *)
(* GenInput; planned; running the agent; draining its events; outcome      *)
(* judged, recorded, and lock released.  Then exited, gone once forgotten. *)
Alive == {"idle", "locking", "planned", "running", "draining", "judged",
          "recorded", "released"}

Now == [epoch |-> epoch, len |-> Len(log)]

-----------------------------------------------------------------------------
Init ==
  /\ sub       = [r \in Requests |-> "new"]
  /\ home      = [r \in Requests |-> NoLoop]
  /\ prompt    = [r \in Requests |-> <<r>>]
  /\ stamp     = [r \in Requests |-> 0]
  /\ buffer    = [g \in Loops |-> {}]
  /\ phase     = [g \in Loops |-> "unborn"]
  /\ held      = [g \in Loops |-> NoRequest]
  /\ active    = [g \in Loops |-> NoRequest]
  /\ pending   = [g \in Loops |-> NoRequest]
  /\ preempt   = [g \in Loops |-> FALSE]
  /\ stopReq   = [g \in Loops |-> FALSE]
  /\ left      = [g \in Loops |-> {}]
  /\ current   = NoLoop
  /\ result    = [r \in Requests |-> "none"]
  /\ cancelled = {}
  /\ tracked   = {}
  /\ lock      = Nobody
  /\ basis     = [a \in Runs |-> [epoch |-> 0, len |-> 0]]
  /\ log       = <<>>
  /\ epoch     = 0
  /\ runs      = [a \in Runs |-> "absent"]
  /\ done      = [a \in Runs |-> "none"]
  /\ dpc       = [d \in Directs |-> "idle"]
  /\ rpc       = [h \in Resets |-> "idle"]
  /\ rtarget   = [h \in Resets |-> NoLoop]
  /\ replaced  = {}
  /\ overlapped = FALSE
  /\ tooLate   = {}

-----------------------------------------------------------------------------
(* The store's part of a started run. *)
StartRun(a) ==
  /\ runs' = [runs EXCEPT ![a] = "running"]
  /\ done' = [done EXCEPT ![a] = "open"]

(* Mutant: the turn is appended whatever the status.                       *)
FinishRunAlways(a, st) ==
  /\ runs' = [runs EXCEPT ![a] = st]
  /\ done' = [done EXCEPT ![a] = st]
  /\ log' = Append(log, [run |-> a, basis |-> basis[a]])
  /\ UNCHANGED <<basis, epoch>>

(* The store's part of a finished run: upsert its record and, when the run  *)
(* answered, append its user/assistant turn.                               *)
FinishRun(a, st) ==
  /\ runs' = [runs EXCEPT ![a] = st]
  /\ done' = [done EXCEPT ![a] = st]
  /\ log'  = IF st \in Answered THEN Append(log, [run |-> a, basis |-> basis[a]])
                                ELSE log
  /\ UNCHANGED <<basis, epoch>>

(* FinishRun of several runs none of which answered.                       *)
DropRuns(R, st) ==
  /\ runs' = [a \in Runs |-> IF a \in R THEN st ELSE runs[a]]
  /\ done' = [a \in Runs |-> IF a \in R THEN st ELSE done[a]]
  /\ UNCHANGED <<basis, log, epoch>>

ReleaseSession(a) == lock' = IF lock = a THEN Nobody ELSE lock

-----------------------------------------------------------------------------
(* The goroutine of one user message: enqueueSessionTurn.                  *)

(* newSessionTurnRequest records the run; trackTask makes it cancellable.  *)
Enqueue(r) ==
  /\ sub[r] = "new"
  /\ sub' = [sub EXCEPT ![r] = "queued"]
  /\ StartRun(r)
  /\ tracked' = tracked \cup {r}
  /\ UNCHANGED <<home, prompt, stamp, loopVars, current, result, cancelled,
                 lock, basis, log, epoch, otherVars, histVars>>

(* sessionTurnLoop, under turnLoopMu: the session's loop, or a new one.    *)
Route(r) ==
  /\ sub[r] = "queued"
  /\ sub' = [sub EXCEPT ![r] = "routed"]
  /\ \E g \in Loops :
       /\ IF current = NoLoop THEN phase[g] = "unborn" ELSE g = current
       /\ home' = [home EXCEPT ![r] = g]
       /\ current' = g
       /\ phase' = IF current = NoLoop THEN [phase EXCEPT ![g] = "idle"] ELSE phase
  /\ UNCHANGED <<prompt, stamp, buffer, held, active, pending, preempt, stopReq,
                 left, turnVars, lock, storeVars, otherVars, histVars>>

(* Mutant: the base is always the active message.                          *)
BaseActive(g) == active[g]

(* The message a new one corrects.                                         *)
Base(g) == IF pending[g] # NoRequest THEN pending[g] ELSE active[g]

(* submit, under l.mu: chain to the base's messages and become the pending  *)
(* request.                                                                *)
Mark(r) ==
  LET g == home[r]
      base == Base(g)
  IN
  /\ sub[r] = "routed"
  /\ sub' = [sub EXCEPT ![r] = "marked"]
  /\ prompt' = IF base = NoRequest THEN prompt
                ELSE [prompt EXCEPT ![r] = Append(prompt[base], r)]
  /\ pending' = [pending EXCEPT ![g] = r]
  /\ overlapped' = (overlapped \/ \E q \in Requests \ {r} : sub[q] = "marked")
  /\ UNCHANGED <<home, stamp, buffer, phase, held, active, preempt, stopReq, left,
                 current, turnVars, lock, storeVars, otherVars, replaced, tooLate>>

Stopped(g) == stopReq[g] \/ phase[g] \in {"exited", "gone"}

(* submit after l.mu: Push.  A message with a base asks for preemption,    *)
(* which reaches the turn that is being planned or run, if there is one.   *)
Push(r) ==
  LET g == home[r] IN
  /\ sub[r] = "marked"
  /\ ~ Stopped(g)
  /\ sub' = [sub EXCEPT ![r] = "sent"]
  /\ stamp' = [stamp EXCEPT ![r] = 1 + Cardinality({q \in Requests : stamp[q] > 0})]
  /\ buffer' = [buffer EXCEPT ![g] = @ \cup {r}]
  /\ \E hit \in IF /\ Len(prompt[r]) > 1
                   /\ phase[g] \in {"locking", "planned", "running", "draining"}
                THEN BOOLEAN ELSE {FALSE} :
       preempt' = [preempt EXCEPT ![g] = @ \/ hit]
  /\ UNCHANGED <<home, prompt, phase, held, active, pending, stopReq, left,
                 current, turnVars, lock, storeVars, otherVars, histVars>>

(* Push on a loop that was stopped: the request fails at once.             *)
Reject(r) ==
  /\ sub[r] = "marked"
  /\ Stopped(home[r])
  /\ sub' = [sub EXCEPT ![r] = "sent"]
  /\ DropRuns({r}, "failed")
  /\ tracked' = tracked \ {r}
  /\ UNCHANGED <<home, prompt, stamp, loopVars, current, result, cancelled, lock,
                 otherVars, histVars>>

-----------------------------------------------------------------------------
(* The loop's goroutine.                                                   *)

(* GenInput: take everything buffered, keep the last one pushed, finish the *)
(* others as superseded; then wait for the session lock.                   *)
GenSupersede(g) ==
  /\ phase[g] = "idle" /\ ~ stopReq[g]
  /\ \E r \in buffer[g] :
       /\ \A q \in buffer[g] : stamp[q] <= stamp[r]
       /\ held' = [held EXCEPT ![g] = r]
       /\ LET superseded == buffer[g] \ {r} IN
            /\ DropRuns(superseded, "cancelled")
            /\ tracked' = tracked \ superseded
            /\ replaced' = replaced \cup superseded
  /\ buffer' = [buffer EXCEPT ![g] = {}]
  /\ phase' = [phase EXCEPT ![g] = "locking"]
  /\ UNCHANGED <<submitVars, active, pending, preempt, stopReq, left, current,
                 result, cancelled, lock, otherVars, overlapped, tooLate>>

(* Mutant: acquireSession does not wait.                                   *)
GenAcquireUnlocked(g) ==
  /\ phase[g] = "locking"
  /\ lock' = held[g]
  /\ active' = [active EXCEPT ![g] = held[g]]
  /\ pending' = [pending EXCEPT ![g] = IF @ = held[g] THEN NoRequest ELSE @]
  /\ phase' = [phase EXCEPT ![g] = "planned"]
  /\ UNCHANGED <<submitVars, buffer, held, preempt, stopReq, left, current,
                 turnVars, storeVars, otherVars, histVars>>

(* GenInput has the session lock: publish the turn under l.mu.             *)
GenAcquire(g) ==
  /\ phase[g] = "locking" /\ lock = Nobody
  /\ lock' = held[g]
  /\ active' = [active EXCEPT ![g] = held[g]]
  /\ pending' = [pending EXCEPT ![g] = IF @ = held[g] THEN NoRequest ELSE @]
  /\ phase' = [phase EXCEPT ![g] = "planned"]
  /\ UNCHANGED <<submitVars, buffer, held, preempt, stopReq, left, current,
                 turnVars, storeVars, otherVars, histVars>>

(* PrepareAgent restores the conversation from a snapshot of the store.    *)
Prepare(g) ==
  /\ phase[g] = "planned"
  /\ basis' = [basis EXCEPT ![held[g]] = Now]
  /\ phase' = [phase EXCEPT ![g] = "running"]
  /\ UNCHANGED <<submitVars, buffer, held, active, pending, preempt, stopReq, left,
                 current, turnVars, lock, log, epoch, runs, done, otherVars, histVars>>

(* External: the agent ends by itself.  A preemption that came too late may *)
(* or may not have closed turn.Preempted.                                  *)
TurnEnd(g) ==
  /\ phase[g] = "running"
  /\ phase' = [phase EXCEPT ![g] = "draining"]
  /\ \E x \in {"answered", "paused", "error"} : result' = [result EXCEPT ![held[g]] = x]
  /\ \E closed \in IF preempt[g] THEN BOOLEAN ELSE {FALSE} :
       preempt' = [preempt EXCEPT ![g] = closed]
  /\ UNCHANGED <<submitVars, buffer, held, active, pending, stopReq, left, current,
                 cancelled, tracked, lock, storeVars, otherVars, histVars>>

(* External: the agent is cut by a preemption, a Stop or its runCtx.       *)
TurnCut(g) ==
  /\ phase[g] = "running"
  /\ preempt[g] \/ stopReq[g] \/ held[g] \in cancelled
  /\ phase' = [phase EXCEPT ![g] = "draining"]
  /\ result' = [result EXCEPT ![held[g]] = "cut"]
  /\ UNCHANGED <<submitVars, buffer, held, active, pending, preempt, stopReq, left,
                 current, cancelled, tracked, lock, storeVars, otherVars, histVars>>

(* Mutants: an interrupted turn keeps its raw result; runCtx.Err() is not   *)
(* looked at.                                                              *)
StatusPauseRaw(r) ==
  IF r \in cancelled \/ result[r] = "cut" THEN "cancelled"
  ELSE IF result[r] = "error" THEN "failed"
  ELSE IF result[r] = "paused" THEN "paused"
  ELSE "succeeded"

StatusNoContext(r) ==
  IF result[r] = "cut" THEN "cancelled"
  ELSE IF result[r] = "error" THEN "failed"
  ELSE IF result[r] = "paused" THEN "waiting_approval"
  ELSE "succeeded"

(* The status agentRunStatus gives a turn that nobody preempted: a cancelled *)
(* runCtx counts before anything else.                                     *)
StatusOf(r) ==
  IF r \in cancelled \/ result[r] = "cut" THEN "cancelled"
  ELSE IF result[r] = "error" THEN "failed"
  ELSE IF result[r] = "paused" THEN "waiting_approval"
  ELSE "succeeded"

(* onAgentEvents has drained the events and decides how the turn ended.    *)
JudgeTurn(g) ==
  LET r == held[g] IN
  /\ phase[g] = "draining"
  /\ phase' = [phase EXCEPT ![g] = "judged"]
  /\ result' = [result EXCEPT ![r] = IF preempt[g] THEN "cancelled" ELSE StatusOf(r)]
  /\ replaced' = IF preempt[g] THEN replaced \cup {r} ELSE replaced
  /\ UNCHANGED <<submitVars, buffer, held, active, pending, preempt, stopReq, left,
                 current, cancelled, tracked, lock, storeVars, otherVars,
                 overlapped, tooLate>>

(* finish: the store first, then the lock and the task table.              *)
RecordTurn(g) ==
  /\ phase[g] = "judged"
  /\ phase' = [phase EXCEPT ![g] = "recorded"]
  /\ FinishRun(held[g], result[held[g]])
  /\ UNCHANGED <<submitVars, buffer, held, active, pending, preempt, stopReq, left,
                 current, turnVars, lock, otherVars, histVars>>

ReleaseTurn(g) ==
  /\ phase[g] = "recorded"
  /\ phase' = [phase EXCEPT ![g] = "released"]
  /\ ReleaseSession(held[g])
  /\ tracked' = tracked \ {held[g]}
  /\ UNCHANGED <<submitVars, buffer, held, active, pending, preempt, stopReq, left,
                 current, result, cancelled, storeVars, otherVars, histVars>>

ClearActive(g) ==
  /\ phase[g] = "released"
  /\ phase' = [phase EXCEPT ![g] = "idle"]
  /\ active' = [active EXCEPT ![g] = IF @ = held[g] THEN NoRequest ELSE @]
  /\ preempt' = [preempt EXCEPT ![g] = FALSE]
  /\ UNCHANGED <<submitVars, buffer, held, pending, stopReq, left, current,
                 turnVars, lock, storeVars, otherVars, histVars>>

(* Bound: a loop fails by itself only while enough loops are left for the   *)
(* resets to come.                                                         *)
MayFail == Cardinality({g \in Loops : phase[g] = "unborn"})
             > Cardinality({h \in Resets : rpc[h] = "idle"})

(* Mutant: the items still buffered are not part of the exit state.        *)
LoopExitLosesBuffer(g) ==
  /\ phase[g] \in {"idle", "planned"}
  /\ stopReq[g] \/ MayFail
  /\ phase' = [phase EXCEPT ![g] = "exited"]
  /\ left' = [left EXCEPT ![g] = {held[g]} \ {NoRequest}]
  /\ buffer' = [buffer EXCEPT ![g] = {}]
  /\ UNCHANGED <<submitVars, held, active, pending, preempt, stopReq, current,
                 turnVars, lock, storeVars, otherVars, histVars>>

(* External: Run returns, with the items it did not finish and the one it   *)
(* interrupted (or finished last: finishOnce has to tell them apart).       *)
LoopExit(g) ==
  /\ phase[g] \in {"idle", "planned"}
  /\ stopReq[g] \/ MayFail
  /\ phase' = [phase EXCEPT ![g] = "exited"]
  /\ left' = [left EXCEPT ![g] = buffer[g] \cup ({held[g]} \ {NoRequest})]
  /\ buffer' = [buffer EXCEPT ![g] = {}]
  /\ UNCHANGED <<submitVars, held, active, pending, preempt, stopReq, current,
                 turnVars, lock, storeVars, otherVars, histVars>>

(* Mutants: watchExit finishes without finishOnce; without the lock.       *)
WatchFinishAgain(g) ==
  /\ \E r \in left[g] :
       /\ left' = [left EXCEPT ![g] = @ \ {r}]
       /\ \E st \in Dropped : DropRuns({r}, st)
       /\ ReleaseSession(r)
       /\ tracked' = tracked \ {r}
  /\ UNCHANGED <<submitVars, buffer, phase, held, active, pending, preempt, stopReq,
                 current, result, cancelled, otherVars, histVars>>

WatchFinishKeepsLock(g) ==
  /\ \E r \in left[g] :
       /\ left' = [left EXCEPT ![g] = @ \ {r}]
       /\ IF done[r] = "open"
          THEN /\ \E st \in Dropped : DropRuns({r}, st)
               /\ tracked' = tracked \ {r}
          ELSE UNCHANGED <<storeVars, tracked>>
  /\ UNCHANGED <<submitVars, buffer, phase, held, active, pending, preempt, stopReq,
                 current, result, cancelled, lock, otherVars, histVars>>

(* watchExit: finish what the loop left behind; the lock is released too if *)
(* the interrupted turn had it.                                            *)
WatchFinish(g) ==
  /\ \E r \in left[g] :
       /\ left' = [left EXCEPT ![g] = @ \ {r}]
       /\ IF done[r] = "open"
          THEN /\ \E st \in Dropped : DropRuns({r}, st)
               /\ ReleaseSession(r)
               /\ tracked' = tracked \ {r}
          ELSE UNCHANGED <<storeVars, lock, tracked>>
  /\ UNCHANGED <<submitVars, buffer, phase, held, active, pending, preempt, stopReq,
                 current, result, cancelled, otherVars, histVars>>

(* Mutant: forget deletes whatever loop the table holds.                   *)
ForgetAny(g) ==
  /\ phase[g] = "exited" /\ left[g] = {}
  /\ phase' = [phase EXCEPT ![g] = "gone"]
  /\ current' = NoLoop
  /\ UNCHANGED <<submitVars, buffer, held, active, pending, preempt, stopReq, left,
                 turnVars, lock, storeVars, otherVars, histVars>>

(* forgetSessionTurnLoop: only if the table still holds this loop.         *)
Forget(g) ==
  /\ phase[g] = "exited" /\ left[g] = {}
  /\ phase' = [phase EXCEPT ![g] = "gone"]
  /\ current' = IF current = g THEN NoLoop ELSE current
  /\ UNCHANGED <<submitVars, buffer, held, active, pending, preempt, stopReq, left,
                 turnVars, lock, storeVars, otherVars, histVars>>

-----------------------------------------------------------------------------
(* The other entry points.                                                 *)

(* cancelTask, and Wait when the message's own context ends.  (Cancelling a *)
(* run that is over but waits for an approval is in module Approval.)      *)
Cancel(a) ==
  /\ a \in tracked \ cancelled
  /\ cancelled' = cancelled \cup {a}
  /\ tooLate' = IF a \in Requests /\ result[a] \in Closed THEN tooLate \cup {a} ELSE tooLate
  /\ UNCHANGED <<submitVars, loopVars, current, result, tracked, lock, storeVars,
                 otherVars, replaced, overlapped>>

(* A decision sent to the task API records its run before it has the lock. *)
DirectAccept(d) ==
  /\ dpc[d] = "idle"
  /\ dpc' = [dpc EXCEPT ![d] = "queued"]
  /\ StartRun(d)
  /\ tracked' = tracked \cup {d}
  /\ UNCHANGED <<submitVars, loopVars, current, result, cancelled, lock, basis, log,
                 epoch, rpc, rtarget, histVars>>

(* Lock the session, record the run unless that was done, and restore the   *)
(* conversation.                                                           *)
DirectBegin(d) ==
  /\ dpc[d] \in {"idle", "queued"} /\ lock = Nobody
  /\ dpc' = [dpc EXCEPT ![d] = "busy"]
  /\ lock' = d
  /\ basis' = [basis EXCEPT ![d] = Now]
  /\ IF dpc[d] = "idle" THEN StartRun(d) ELSE UNCHANGED <<runs, done>>
  /\ tracked' = tracked \cup {d}
  /\ UNCHANGED <<submitVars, loopVars, current, result, cancelled, log, epoch, rpc,
                 rtarget, histVars>>

DirectRecord(d) ==
  /\ dpc[d] = "busy"
  /\ dpc' = [dpc EXCEPT ![d] = "recorded"]
  /\ \E st \in IF d \in cancelled THEN Closed ELSE Closed \ {"cancelled"} : FinishRun(d, st)
  /\ UNCHANGED <<submitVars, loopVars, current, turnVars, lock, rpc, rtarget, histVars>>

DirectUnlock(d) ==
  /\ dpc[d] = "recorded"
  /\ dpc' = [dpc EXCEPT ![d] = "done"]
  /\ lock' = Nobody
  /\ tracked' = tracked \ {d}
  /\ UNCHANGED <<submitVars, loopVars, current, result, cancelled, storeVars, rpc,
                 rtarget, histVars>>

(* "New session": stopSessionTurnLoop takes the loop out of the table ...   *)
ResetDetach(h) ==
  /\ rpc[h] = "idle"
  /\ rpc' = [rpc EXCEPT ![h] = IF current = NoLoop THEN "locking" ELSE "detached"]
  /\ rtarget' = [rtarget EXCEPT ![h] = current]
  /\ current' = NoLoop
  /\ UNCHANGED <<submitVars, loopVars, turnVars, lock, storeVars, dpc, histVars>>

(* ... asks it to stop ...                                                 *)
ResetStop(h) ==
  /\ rpc[h] = "detached"
  /\ rpc' = [rpc EXCEPT ![h] = "waiting"]
  /\ stopReq' = [stopReq EXCEPT ![rtarget[h]] = TRUE]
  /\ UNCHANGED <<submitVars, buffer, phase, held, active, pending, preempt, left,
                 current, turnVars, lock, storeVars, dpc, rtarget, histVars>>

(* Mutant: stop does not wait.                                             *)
ResetWaitNot(h) ==
  /\ rpc[h] = "waiting"
  /\ rpc' = [rpc EXCEPT ![h] = "locking"]
  /\ UNCHANGED <<submitVars, loopVars, current, turnVars, lock, storeVars, dpc,
                 rtarget, histVars>>

(* ... and waits for it to exit.                                           *)
ResetWait(h) ==
  /\ rpc[h] = "waiting"
  /\ phase[rtarget[h]] \in {"exited", "gone"}
  /\ rpc' = [rpc EXCEPT ![h] = "locking"]
  /\ UNCHANGED <<submitVars, loopVars, current, turnVars, lock, storeVars, dpc,
                 rtarget, histVars>>

(* Lock the session and empty it, run records included; then record the     *)
(* confirmation's own run, or give up (and unlock) when a store failed.     *)
ResetClear(h) ==
  /\ rpc[h] = "locking" /\ lock = Nobody
  /\ log' = <<>>
  /\ epoch' = epoch + 1
  /\ LET emptied == [a \in Runs |-> "absent"] IN
       \/ /\ runs' = [emptied EXCEPT ![h] = "running"]
          /\ done' = [done EXCEPT ![h] = "open"]
          /\ lock' = h
          /\ rpc' = [rpc EXCEPT ![h] = "cleared"]
       \/ /\ runs' = emptied
          /\ rpc' = [rpc EXCEPT ![h] = "done"]
          /\ UNCHANGED <<done, lock>>
  /\ UNCHANGED <<submitVars, loopVars, current, turnVars, basis, dpc, rtarget, histVars>>

(* The confirmation is recorded without messages, then the lock released.  *)
ResetReply(h) ==
  /\ rpc[h] = "cleared"
  /\ rpc' = [rpc EXCEPT ![h] = "done"]
  /\ runs' = [runs EXCEPT ![h] = "succeeded"]
  /\ done' = [done EXCEPT ![h] = "succeeded"]
  /\ lock' = Nobody
  /\ UNCHANGED <<submitVars, loopVars, current, turnVars, basis, log, epoch, dpc,
                 rtarget, histVars>>

-----------------------------------------------------------------------------
SubmitStep(r) == Route(r) \/ Mark(r) \/ Push(r) \/ Reject(r)

(* What the loop's own goroutine does without waiting for anything.        *)
LoopStep(g) ==
  \/ GenSupersede(g) \/ Prepare(g) \/ TurnEnd(g) \/ TurnCut(g) \/ JudgeTurn(g)
  \/ RecordTurn(g) \/ ReleaseTurn(g) \/ ClearActive(g)

DirectStep(d) == DirectRecord(d) \/ DirectUnlock(d)
ResetStep(h)  == ResetStop(h) \/ ResetWait(h) \/ ResetReply(h)

Next ==
  \/ \E r \in Requests : Enqueue(r) \/ SubmitStep(r)
  \/ \E a \in Cancellable : Cancel(a)
  \/ \E g \in Loops :
       LoopStep(g) \/ GenAcquire(g) \/ LoopExit(g) \/ WatchFinish(g) \/ Forget(g)
  \/ \E d \in Directs : DirectAccept(d) \/ DirectBegin(d) \/ DirectStep(d)
  \/ \E h \in Resets : ResetDetach(h) \/ ResetStep(h) \/ ResetClear(h)

Spec == Init /\ [][Next]_vars

(* Goroutines that can run do run, an agent's turn ends, a stopped loop     *)
(* exits, and sync.Mutex does not starve a waiter for ever.  Nothing makes  *)
(* a message, a cancellation, a run under the lock or a reset arrive.       *)
Fairness ==
  /\ \A r \in Requests : WF_vars(SubmitStep(r))
  /\ \A g \in Loops :
       /\ WF_vars(LoopStep(g))
       /\ WF_vars(stopReq[g] /\ LoopExit(g))
       /\ WF_vars(WatchFinish(g) \/ Forget(g))
       /\ SF_vars(GenAcquire(g))
  /\ \A d \in Directs :
       /\ WF_vars(DirectStep(d))
       /\ SF_vars(dpc[d] = "queued" /\ DirectBegin(d))
  /\ \A h \in Resets : WF_vars(ResetStep(h)) /\ SF_vars(ResetClear(h))

FairSpec == Spec /\ Fairness

-----------------------------------------------------------------------------
Conversation == [epoch : Nat, len : Nat]

(* Every variable keeps its shape; a lock owner is a run of this session.  *)
TypeOK ==
  /\ sub \in [Requests -> {"new", "queued", "routed", "marked", "sent"}]
  /\ home \in [Requests -> Loops \cup {NoLoop}]
  /\ prompt \in [Requests -> Seq(Requests)]
  /\ stamp \in [Requests -> Nat]
  /\ buffer \in [Loops -> SUBSET Requests]
  /\ phase \in [Loops -> Alive \cup {"unborn", "exited", "gone"}]
  /\ held \in [Loops -> Requests \cup {NoRequest}]
  /\ active \in [Loops -> Requests \cup {NoRequest}]
  /\ pending \in [Loops -> Requests \cup {NoRequest}]
  /\ preempt \in [Loops -> BOOLEAN]
  /\ stopReq \in [Loops -> BOOLEAN]
  /\ left \in [Loops -> SUBSET Requests]
  /\ current \in Loops \cup {NoLoop}
  /\ result \in [Requests -> {"none", "answered", "paused", "error", "cut"} \cup Closed]
  /\ cancelled \subseteq Requests \cup Directs
  /\ tracked \subseteq Requests \cup Directs
  /\ lock \in Runs \cup {Nobody}
  /\ basis \in [Runs -> Conversation]
  /\ log \in Seq([run : Runs, basis : Conversation])
  /\ epoch \in Nat
  /\ runs \in [Runs -> {"absent", "running"} \cup Closed]
  /\ done \in [Runs -> {"none", "open"} \cup Closed]
  /\ dpc \in [Directs -> {"idle", "queued", "busy", "recorded", "done"}]
  /\ rpc \in [Resets -> {"idle", "detached", "waiting", "locking", "cleared", "done"}]
  /\ rtarget \in [Resets -> Loops \cup {NoLoop}]
  /\ replaced \subseteq Requests
  /\ overlapped \in BOOLEAN
  /\ tooLate \subseteq Requests

(* The conversation is serial: every turn in the session's messages was     *)
(* computed from exactly the turns before it, in the same conversation, no  *)
(* matter which goroutine ran it, who preempted it or what reset happened   *)
(* meanwhile (session lock around restore, run and append).                 *)
LogSerial ==
  \A i \in DOMAIN log : log[i].basis = [epoch |-> epoch, len |-> i - 1]

(* Why it is: whoever is inside a turn owns the session lock (so that one   *)
(* is inside at a time), a request is only ever in the loop it was routed   *)
(* to, and between restoring and appending the conversation stays the one   *)
(* that was restored.                                                       *)
InTurn(g)    == phase[g] \in {"planned", "running", "draining", "judged", "recorded"}
Computing(g) == phase[g] \in {"running", "draining", "judged"}
Items(g)     == buffer[g] \cup left[g] \cup ({held[g]} \ {NoRequest})

Placed ==
  /\ \A r \in Requests : sub[r] \in {"routed", "marked", "sent"} => home[r] \in Loops
  /\ \A g \in Loops : \A r \in Items(g) : home[r] = g /\ sub[r] = "sent"
  /\ \A g \in Loops : phase[g] \in Alive \ {"idle"} => held[g] # NoRequest
  /\ \A g \in Loops : left[g] # {} => phase[g] = "exited"

Judged ==
  \A g \in Loops :
    /\ phase[g] = "draining" => result[held[g]] \in {"answered", "paused", "error", "cut"}
    /\ phase[g] = "judged" => result[held[g]] \in Closed

Owned ==
  /\ \A g \in Loops : InTurn(g) => lock = held[g]
  /\ \A d \in Directs : dpc[d] \in {"busy", "recorded"} => lock = d
  /\ \A h \in Resets : rpc[h] = "cleared" => lock = h

Fresh ==
  /\ \A g \in Loops : Computing(g) => basis[held[g]] = Now
  /\ \A d \in Directs : dpc[d] = "busy" => basis[d] = Now

SerialInv == Placed /\ Judged /\ Owned /\ Fresh /\ LogSerial

(* A message that was dropped because a newer one takes over (superseded in *)
(* the buffer or preempted) lives on in the prompt of a message that was    *)
(* not dropped that way - as long as no two submissions overlapped.         *)
NoMessageLost ==
  overlapped \/ \A r \in replaced : \E q \in Requests \ replaced : r \in Range(prompt[q])

(* A loop that can still take messages is the one in the server's table, or *)
(* a reset has taken it out and is about to stop it: no live loop is ever   *)
(* orphaned beside a second one (watchExit's forget compares before it      *)
(* deletes).                                                                *)
NoOrphanLoop ==
  \A g \in Loops :
    phase[g] \in Alive /\ ~ stopReq[g] =>
      g = current \/ \E h \in Resets : rpc[h] = "detached" /\ rtarget[h] = g

(* A message cancelled before its turn's outcome was judged - while queued, *)
(* buffered, blocked on the session lock or running - never answers.        *)
CancelHonoured ==
  \A r \in Requests : r \in cancelled \ tooLate => done[r] \notin Answered

(* Once a reset has emptied the session, no message that had gone to the    *)
(* loop it stopped ever adds a turn to the new conversation.                *)
ResetIsolates ==
  \A h \in Resets : rpc[h] \in {"cleared", "done"} /\ rtarget[h] # NoLoop =>
    \A i \in DOMAIN log : log[i].run \in Requests => home[log[i].run] # rtarget[h]

(* A run gets one outcome: whoever else reaches it afterwards - watchExit,  *)
(* a rejected Push, a newer message - leaves the delivered one alone.       *)
OneOutcome ==
  [][\A a \in Runs : done[a] \in Closed => done'[a] = done[a]]_vars

(* Every accepted run is closed at last: nobody waits for ever on a lock,   *)
(* in a buffer or on a stopped loop.                                        *)
EveryRunCloses ==
  \A a \in Runs : (done[a] = "open") ~> (done[a] \in Closed)

(* A "new session" command that has taken the loop away comes to its end    *)
(* although it waits for the loop, which may itself wait for the lock.      *)
ResetCompletes ==
  \A h \in Resets : (rpc[h] = "detached") ~> (rpc[h] = "done")

(* The server implements the serial session of module SessionLog.          *)
SL == INSTANCE SessionLog WITH outcome <- done, Silent <- Resets
ImplementsSessionLog == SL!Spec

-----------------------------------------------------------------------------
(* A claim of the repository that the code does not keep.                  *)

(* docs/architecture.md:77: corrections that arrive in a row are merged     *)
(* into the latest request.                                                 *)
MergedIntoLatest ==
  \A r \in replaced : \E q \in Requests \ replaced : r \in Range(prompt[q])
=============================================================================
