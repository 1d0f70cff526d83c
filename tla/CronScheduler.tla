---------------------------- MODULE CronScheduler ----------------------------
(***************************************************************************)
(* Scheduled jobs: the store of internal/cron/service.go (a sorted list in *)
(* memory and jobs.json on disk), the one runner goroutine of              *)
(* internal/app/cron_runner.go, the tool calls that add and remove jobs    *)
(* and wake the runner, time, failed saves, and crashes of the server.     *)
(* One action is one critical section of Service.mu, or one step of the    *)
(* runner or of a tool call outside it.  The session lock a run waits for  *)
(* is in module TurnLoop.                                                  *)
(***************************************************************************)
EXTENDS Naturals, Sequences

CONSTANTS
  Adders,       (* tool calls that add a job; also the ids of those jobs     *)
  OneShots,     (* those that ask for one run ("at", "delay")                *)
  Removers,     (* tool calls that remove a job                              *)
  Delays,       (* delays and periods asked for                              *)
  MaxSleep,     (* MaxSleepMS                                                *)
  MaxTime,      (* bound: the last instant of the clock                      *)
  MaxFaults,    (* bound: no more failed saves than this                     *)
  MaxCrashes,   (* bound: no more crashes than this                          *)
  NoJob

ASSUME CronAssumption ==
  /\ Adders \cap Removers = {}
  /\ OneShots \subseteq Adders
  /\ NoJob \notin Adders
  /\ Delays \subseteq Nat \ {0}
  /\ {MaxSleep, MaxTime} \subseteq Nat \ {0}
  /\ {MaxFaults, MaxCrashes} \subseteq Nat

VARIABLES
  jobs,      (* Service.file.Jobs                                            *)
  disk,      (* the jobs in jobs.json                                        *)
  clock,     (* time.Now()                                                   *)
  token,     (* cronWake, a channel of capacity one, holds its token         *)
  runner,    (* where the runner goroutine is; "down" while the server is    *)
  claimed,   (* the job ClaimDue returned to it                              *)
  deadline,  (* when its timer fires                                         *)
  tool,      (* tool call -> its progress; "failed" and "lost" are final     *)
  target,    (* remove call -> the job it removed                            *)
  fired,     (* history: job -> how often a run of it was started            *)
  faults, crashes

storeVars  == <<jobs, disk>>
runnerVars == <<runner, claimed, deadline>>
toolVars   == <<tool, target>>
boundVars  == <<faults, crashes>>
vars == <<storeVars, clock, token, runnerVars, toolVars, fired, boundVars>>

Tools == Adders \cup Removers

Init ==
  /\ jobs = <<>> /\ disk = <<>>
  /\ clock = 1
  /\ token = FALSE
  /\ runner = "claim" /\ claimed = NoJob /\ deadline = 0
  /\ tool = [t \in Tools |-> "idle"]
  /\ target = [t \in Removers |-> NoJob]
  /\ fired = [j \in Adders |-> 0]
  /\ faults = 0 /\ crashes = 0

-----------------------------------------------------------------------------
(* Helpers of the service.                                                 *)

Up       == runner # "down"
Ids(s)   == {s[i].id : i \in DOMAIN s}
(* ComputeNextRun; a cron expression is one more way to get a later time.  *)
ComputeNextRun(job, now) ==
  IF job.kind = "at" THEN IF job.time > now THEN job.time ELSE 0
                     ELSE now + job.time

(* The order of sortJobs: enabled first, then by next run (none last), then *)
(* the newest first.                                                       *)
Before(a, b) ==
  IF a.enabled # b.enabled THEN a.enabled
  ELSE IF a.next = b.next THEN a.created > b.created
  ELSE a.next # 0 /\ (b.next = 0 \/ a.next < b.next)

Precedes(s, i, k) == Before(s[i], s[k]) \/ (~ Before(s[k], s[i]) /\ i < k)

(* sort.SliceStable of the jobs of s at the places in K.                    *)
SortJobs(s, K) ==
  UNION {{[a \in 1..n |-> s[p[a]]] : p \in
            {p \in [1..n -> K] :
               /\ K = {p[a] : a \in 1..n}
               /\ \A a, b \in 1..n : a < b => Precedes(s, p[a], p[b])}} :
         n \in 0..Len(s)}

(* Mutant: a mark left by a failed claim or a crash stays.                 *)
NormaliseKeepsMarks(s, now) ==
  [i \in DOMAIN s |->
    [s[i] EXCEPT !.next = IF s[i].enabled /\ s[i].next = 0
                          THEN ComputeNextRun(s[i], now) ELSE s[i].next]]

(* normalizeStore, at Load and at every ClaimDue.                          *)
Normalise(s, now) ==
  [i \in DOMAIN s |->
    [s[i] EXCEPT !.running = FALSE,
                 !.next = IF s[i].enabled /\ s[i].next = 0
                          THEN ComputeNextRun(s[i], now) ELSE s[i].next]]

(* saveLocked: what is kept in memory is sorted first, then written or not. *)
Save(s, K) ==
  /\ jobs' \in SortJobs(s, K)
  /\ disk' = jobs'
  /\ UNCHANGED faults

SaveFails(s, K) ==
  /\ faults < MaxFaults
  /\ jobs' \in SortJobs(s, K)
  /\ faults' = faults + 1
  /\ UNCHANGED disk

-----------------------------------------------------------------------------
(* The tool calls.                                                         *)

NewJob(t, delay) ==
  [id |-> t, kind |-> IF t \in OneShots THEN "at" ELSE "every",
   time |-> IF t \in OneShots THEN clock + delay ELSE delay,
   enabled |-> TRUE, running |-> FALSE, next |-> clock + delay, created |-> clock]

(* Mutant: Add ignores the error of its save.                              *)
AddIgnoresError(t) ==
  /\ Up /\ tool[t] = "idle"
  /\ \E delay \in Delays :
       /\ clock + delay <= MaxTime
       /\ LET s == Append(jobs, NewJob(t, delay))
          IN Save(s, DOMAIN s) \/ SaveFails(s, DOMAIN s)
  /\ tool' = [tool EXCEPT ![t] = "saved"]
  /\ UNCHANGED <<clock, token, runnerVars, target, fired, crashes>>

(* Add: a failed save is an error, but the job stays in memory.             *)
Add(t) ==
  /\ Up /\ tool[t] = "idle"
  /\ \E delay \in Delays :
       /\ clock + delay <= MaxTime
       /\ LET s == Append(jobs, NewJob(t, delay))
          IN \/ /\ Save(s, DOMAIN s)
                /\ tool' = [tool EXCEPT ![t] = "saved"]
             \/ /\ SaveFails(s, DOMAIN s)
                /\ tool' = [tool EXCEPT ![t] = "failed"]
  /\ UNCHANGED <<clock, token, runnerVars, target, fired, crashes>>

(* removeJobLocked: where the other jobs are.                              *)
Without(s, id) == {k \in DOMAIN s : s[k].id # id}

(* Mutant: Remove leaves the save to the next change of the list.          *)
RemoveUnsaved(t) ==
  /\ Up /\ tool[t] = "idle"
  /\ \E i \in DOMAIN jobs :
       /\ ~ jobs[i].running
       /\ target' = [target EXCEPT ![t] = jobs[i].id]
       /\ jobs' \in SortJobs(jobs, Without(jobs, jobs[i].id))
  /\ tool' = [tool EXCEPT ![t] = "saved"]
  /\ UNCHANGED <<disk, clock, token, runnerVars, fired, boundVars>>

(* Remove: refused while the job runs.                                     *)
Remove(t) ==
  /\ Up /\ tool[t] = "idle"
  /\ \E i \in DOMAIN jobs :
       /\ ~ jobs[i].running
       /\ target' = [target EXCEPT ![t] = jobs[i].id]
       /\ \/ /\ Save(jobs, Without(jobs, jobs[i].id))
             /\ tool' = [tool EXCEPT ![t] = "saved"]
          \/ /\ SaveFails(jobs, Without(jobs, jobs[i].id))
             /\ tool' = [tool EXCEPT ![t] = "failed"]
  /\ UNCHANGED <<clock, token, runnerVars, fired, crashes>>

(* Mutant: cronWake without a buffer drops what nobody waits for.           *)
WakeUnbuffered(t) ==
  /\ Up /\ tool[t] = "saved"
  /\ tool' = [tool EXCEPT ![t] = "done"]
  /\ token' = (token \/ runner = "sleep")
  /\ UNCHANGED <<storeVars, clock, runnerVars, target, fired, boundVars>>

(* wakeCronRunner: a send that does not block.                             *)
Wake(t) ==
  /\ Up /\ tool[t] = "saved"
  /\ tool' = [tool EXCEPT ![t] = "done"]
  /\ token' = TRUE
  /\ UNCHANGED <<storeVars, clock, runnerVars, target, fired, boundVars>>

-----------------------------------------------------------------------------
(* The runner.                                                             *)

Due(s, i) == s[i].enabled /\ ~ s[i].running /\ s[i].next # 0 /\ s[i].next <= clock

(* The first job with the least next run: bestIdx.                         *)
Best(s, i) ==
  /\ Due(s, i)
  /\ \A k \in DOMAIN s : Due(s, k) =>
       s[i].next < s[k].next \/ (s[i].next = s[k].next /\ i <= k)

(* ClaimDue finds a job, marks it, saves (which sorts) and returns what is  *)
(* then at the index it found.                                             *)
Claim ==
  LET s == Normalise(jobs, clock) IN
  /\ runner = "claim"
  /\ \E i \in DOMAIN s :
       LET marked == [s EXCEPT ![i].running = TRUE] IN
       /\ Best(s, i)
       /\ \/ /\ Save(marked, DOMAIN marked)
             /\ claimed' = jobs'[i].id
             /\ runner' = "fire"
          \/ /\ SaveFails(marked, DOMAIN marked)
             /\ runner' = "plan"
             /\ UNCHANGED claimed
  /\ UNCHANGED <<clock, token, deadline, toolVars, fired, crashes>>

ClaimNone ==
  LET s == Normalise(jobs, clock) IN
  /\ runner = "claim"
  /\ \A k \in DOMAIN s : ~ Due(s, k)
  /\ Save(s, DOMAIN s) \/ SaveFails(s, DOMAIN s)
  /\ runner' = "plan"
  /\ UNCHANGED <<clock, token, claimed, deadline, toolVars, fired, crashes>>

(* runCronJob up to RecordRun: the agent runs, for as long as it takes.     *)
Fire ==
  /\ runner = "fire"
  /\ runner' = "ran"
  /\ fired' = [fired EXCEPT ![claimed] = @ + 1]
  /\ UNCHANGED <<storeVars, clock, token, claimed, deadline, toolVars, boundVars>>

(* Mutant: a job that ran once is kept.                                    *)
KeptAll(s, id) == DOMAIN s

(* RecordRun deletes a job that ran once ...                               *)
Kept(s, id) == {k \in DOMAIN s : s[k].id # id \/ s[k].kind # "at"}

(* ... and gives one that repeats its next time.                           *)
Completed(s, id, now) ==
  [k \in DOMAIN s |->
    IF s[k].id # id \/ s[k].kind = "at" THEN s[k]
    ELSE [s[k] EXCEPT !.running = FALSE, !.next = ComputeNextRun(s[k], now)]]

Record ==
  /\ runner = "ran"
  /\ LET s == Completed(jobs, claimed, clock)
         K == Kept(jobs, claimed)
     IN IF claimed \in Ids(jobs) THEN Save(s, K) \/ SaveFails(s, K)
        ELSE UNCHANGED <<storeVars, faults>>
  /\ runner' = "claim"
  /\ claimed' = NoJob
  /\ UNCHANGED <<clock, token, deadline, toolVars, fired, crashes>>

(* NextWakeDuration: jobs marked as running do not count.                  *)
Waking == {jobs[i].next : i \in {k \in DOMAIN jobs :
             jobs[k].enabled /\ ~ jobs[k].running /\ jobs[k].next # 0}}

Plan ==
  /\ runner = "plan"
  /\ LET times == {clock + MaxSleep} \cup {IF n < clock THEN clock ELSE n : n \in Waking}
     IN deadline' \in {d \in times : \A n \in times : d <= n}
  /\ runner' = "armed"
  /\ UNCHANGED <<storeVars, clock, token, claimed, toolVars, fired, boundVars>>

(* The runner has its timer and comes to the select.                       *)
Select ==
  /\ runner = "armed"
  /\ runner' = "sleep"
  /\ UNCHANGED <<storeVars, clock, token, claimed, deadline, toolVars, fired, boundVars>>

(* select: the wake token or the timer.  (Bound: the clock stops at         *)
(* MaxTime, timers do not.)                                                *)
WakeUp ==
  /\ runner = "sleep"
  /\ \/ token /\ token' = FALSE
     \/ (clock >= deadline \/ clock = MaxTime) /\ UNCHANGED token
  /\ runner' = "claim"
  /\ UNCHANGED <<storeVars, clock, claimed, deadline, toolVars, fired, boundVars>>

-----------------------------------------------------------------------------
Tick ==
  /\ clock < MaxTime
  /\ clock' = clock + 1
  /\ UNCHANGED <<storeVars, token, runnerVars, toolVars, fired, boundVars>>

(* The process dies: memory, the channel and the calls in progress go.     *)
Crash ==
  /\ Up /\ crashes < MaxCrashes
  /\ crashes' = crashes + 1
  /\ runner' = "down" /\ claimed' = NoJob
  /\ jobs' = <<>>
  /\ token' = FALSE
  /\ tool' = [t \in Tools |-> IF tool[t] = "saved" THEN "lost" ELSE tool[t]]
  /\ UNCHANGED <<disk, clock, deadline, target, fired, faults>>

(* Load, and a new runner.                                                 *)
Restart ==
  /\ runner = "down"
  /\ LET s == Normalise(disk, clock) IN Save(s, DOMAIN s) \/ SaveFails(s, DOMAIN s)
  /\ runner' = "claim"
  /\ UNCHANGED <<clock, token, claimed, deadline, toolVars, fired, crashes>>

RunnerStep == Claim \/ ClaimNone \/ Fire \/ Record \/ Plan \/ Select \/ WakeUp

Next ==
  \/ \E t \in Adders : Add(t)
  \/ \E t \in Removers : Remove(t)
  \/ \E t \in Tools : Wake(t)
  \/ RunnerStep
  \/ Tick \/ Crash \/ Restart

Spec == Init /\ [][Next]_vars

(* Goroutines that can run do, a run ends, time passes and a server that    *)
(* died is started again.                                                  *)
Fairness ==
  /\ WF_vars(RunnerStep \/ Restart)
  /\ WF_vars(\E t \in Tools : Wake(t))
  /\ WF_vars(Tick)

FairSpec == Spec /\ Fairness

-----------------------------------------------------------------------------
JobType ==
  [id : Adders, kind : {"at", "every"}, time : Nat, enabled : BOOLEAN,
   running : BOOLEAN, next : Nat, created : Nat]

(* Every variable keeps its shape.                                         *)
TypeOK ==
  /\ jobs \in Seq(JobType) /\ disk \in Seq(JobType)
  /\ clock \in 1 .. MaxTime
  /\ token \in BOOLEAN
  /\ runner \in {"claim", "fire", "ran", "plan", "armed", "sleep", "down"}
  /\ claimed \in Adders \cup {NoJob}
  /\ deadline \in Nat
  /\ tool \in [Tools -> {"idle", "saved", "failed", "lost", "done"}]
  /\ target \in [Removers -> Adders \cup {NoJob}]
  /\ fired \in [Adders -> Nat]
  /\ faults \in 0 .. MaxFaults /\ crashes \in 0 .. MaxCrashes

(* The job the runner runs is the one ClaimDue marked, although ClaimDue    *)
(* returns it by an index from before the save that sorts the list, and it  *)
(* stays in the list, marked, until RecordRun: nobody removes it, no other  *)
(* job is claimed meanwhile.                                               *)
ClaimHeld ==
  runner \in {"fire", "ran"} =>
    {i \in DOMAIN jobs : jobs[i].running} = {i \in DOMAIN jobs : jobs[i].id = claimed}
    /\ claimed \in Ids(jobs)

(* No lost wake-up: when the runner sleeps with no token waiting and no     *)
(* tool call about to send one, its timer fires no later than any job it    *)
(* could claim is due - jobs whose Add reported an error excepted.          *)
NoLostWakeup ==
  runner = "sleep" /\ ~ token /\ (\A t \in Tools : tool[t] # "saved") =>
    \A i \in DOMAIN jobs :
      jobs[i].enabled /\ ~ jobs[i].running /\ tool[jobs[i].id] # "failed" =>
        deadline <= jobs[i].next \/ deadline <= clock

(* What the runner and the tools rely on of each other.                     *)
CronInv == TypeOK /\ ClaimHeld /\ NoLostWakeup

(* A job whose Add succeeded is in jobs.json until it has been run or       *)
(* somebody removes it, across failed saves and crashes.                    *)
AddedIsDurable ==
  \A j \in Adders :
    /\ tool[j] \in {"saved", "done", "lost"}
    /\ fired[j] = 0
    /\ \A t \in Removers : target[t] # j
    => j \in Ids(disk) /\ (Up => j \in Ids(jobs))

(* A job whose Remove succeeded is gone for good: no save of the runner and *)
(* no restart brings it back.                                              *)
RemovedIsGone ==
  \A t \in Removers :
    tool[t] \in {"saved", "done", "lost"} => target[t] \notin Ids(jobs) \cup Ids(disk)

(* A one-shot job is run once; a second run takes a crash between the start *)
(* of a run and its record.                                                *)
OneShotOnce == \A j \in OneShots : fired[j] <= 1 + crashes

(* A job whose Add succeeded is run in the end, unless somebody removes it: *)
(* no sequence of sleeping, waking, failed claims and restarts forgets it.  *)
AddedFires ==
  \A j \in Adders :
    (tool[j] = "saved") ~> (fired[j] > 0 \/ \E t \in Removers : target[t] = j)

-----------------------------------------------------------------------------
(* A claim of the repository that the code does not keep.                   *)

(* docs/operations.md:184: what the cron tool answers is the real state of  *)
(* a job, so one whose Add reported an error does not exist.               *)
FailedAddNeverFires == \A j \in Adders : tool[j] = "failed" => fired[j] = 0
==============================================================================
