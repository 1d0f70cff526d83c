--------------------------- MODULE ApprovalProofs ---------------------------
(***************************************************************************)
(* Proofs about module Approval, for every number of ordinary runs,        *)
(* decisions, cancellations, gated calls, retries, resets and crashes: its *)
(* variables keep their shape, no two runs wait at the same checkpoint, a  *)
(* run that waits can be resumed, what is recorded of a run is final, and  *)
(* a call is settled by one decision.                                      *)
(***************************************************************************)
EXTENDS Approval, FiniteSetTheorems, TLAPS

-----------------------------------------------------------------------------
(* The inductive invariant.                                                *)

(* A run that returned has a status.                                       *)
Judged == \A r \in Runs : pc[r] \in {"resolve", "finish"} => outcome[r] # "none"

(* A run on its way, or waiting, has a checkpoint.                          *)
Named ==
  /\ \A o \in Origins : checkpointID[o] = o
  /\ \A r \in Runs : pc[r] \in {"checked", "queued", "ready", "resumed", "resolve", "finish"} =>
       checkpointID[r] \in Origins
  /\ \A r \in Waiting : checkpointID[r] \in Origins

TypeInv == TypeOK /\ Judged /\ Named

(* From the lock to the end of its record a run holds the session lock.    *)
LockInv ==
  \A r \in Runs : pc[r] \in {"locked", "ready", "resumed", "resolve", "finish"} => lock = r

(* ResolvePendingApproval leaves no run waiting at the checkpoint, and an   *)
(* ordinary run is the first that may wait at its own.                     *)
FinishInv ==
  \A r \in Runs : pc[r] = "finish" => \A s \in Waiting : checkpointID[s] # checkpointID[r]

(* A record is running only while its run is on its way.                   *)
RunningInv ==
  \A r \in Runs : status[r] = "running" => pc[r] \in {"queued", "ready", "resumed", "resolve",
  "finish"}

WaitInv == \A r \in Waiting : pc[r] = "done"

FoundInv ==
  \A c \in Cancels : cpc[c] \in {"found", "delete"} =>
    ctarget[c] \in Runs /\ pc[ctarget[c]] = "done" /\ checkpointID[ctarget[c]] \in Origins

(* A checkpoint is taken over only from an ordinary run that has ended.     *)
ChainInv ==
  \A d \in Decisions : checkpointID[d] \in Origins => pc[checkpointID[d]] = "done"

(* Once a cancellation is to delete a checkpoint, nothing waits at it nor   *)
(* ever will.                                                              *)
Doomed(o) ==
  /\ pc[o] = "done"
  /\ \/ checkpoint[o] = 0
     \/ \E c \in Cancels : cpc[c] = "delete" /\ checkpointID[ctarget[c]] = o

DeadInv ==
  \A o \in Origins : Doomed(o) =>
    \A r \in Runs : checkpointID[r] = o =>
      /\ status[r] # "waiting"
      /\ ~ (pc[r] = "finish" /\ outcome[r] = "waiting")

StopInv ==
  \A r \in Runs : pc[r] \in {"resolve", "finish"} /\ outcome[r] = "waiting" =>
    FileOf(r) \in {0, stopsAt[r]}

(* Nobody deletes the checkpoint of an ordinary run before it has ended.    *)
OwnInv ==
  \A o \in Origins : pc[o] \in {"resolve", "finish"} /\ outcome[o] = "waiting" => checkpoint[o] # 0

(* A checkpoint is ahead of the waiting record only between an interrupt    *)
(* and ResolvePendingApproval, and after a crash.                          *)
Moving(d) == pc[d] = "resolve" /\ outcome[d] = "waiting"

InStep(r) ==
  \/ crashes # 0
  \/ \E d \in Decisions : Moving(d) /\ checkpointID[d] = checkpointID[r]
  \/ FileOf(r) = waitsFor[r]

MoveInv == \A r \in Waiting : InStep(r)

ApprovalInv ==
  /\ LockInv /\ AtMostOneWaiting /\ FinishInv /\ RunningInv /\ WaitInv /\ FoundInv
  /\ ChainInv /\ DeadInv /\ StopInv /\ OwnInv /\ MoveInv

-----------------------------------------------------------------------------
(* Settling a call (gateToolCall) keeps the two histories well typed.      *)
LEMMA SettleTyped ==
  ASSUME TypeOK, NEW d \in Decisions, Settle(d), checkpointID[d] \in Origins
  PROVE  /\ settledBy' \in [Origins -> [1 .. Calls -> SUBSET Decisions]]
         /\ executions' \in [Origins -> [1 .. Calls -> Nat]]
<1> DEFINE o == checkpointID[d]
<1>1. settledBy[o] \in [1 .. Calls -> SUBSET Decisions] /\ executions[o] \in [1 .. Calls -> Nat]
  BY DEF TypeOK
<1>2. CASE seen[d] \in 1 .. Calls
  <2>1. [settledBy[o] EXCEPT ![seen[d]] = @ \cup {d}] \in [1 .. Calls -> SUBSET Decisions]
    BY <1>1, <1>2
  <2>2. [executions[o] EXCEPT ![seen[d]] = @ + 1] \in [1 .. Calls -> Nat]
    <3> DEFINE x == executions[o]
    <3>1. x \in [1 .. Calls -> Nat]
      BY <1>1
    <3> HIDE DEF x
    <3>2. x[seen[d]] \in Nat
      BY <3>1, <1>2
    <3>3. x[seen[d]] + 1 \in Nat
      BY <3>2
    <3>4. [x EXCEPT ![seen[d]] = @ + 1] \in [1 .. Calls -> Nat]
      BY <3>1, <3>3
    <3> QED
      BY <3>4 DEF x
  <2> QED
    BY <2>1, <2>2 DEF TypeOK, Settle
<1>3. CASE seen[d] \notin 1 .. Calls
  <2>1. [settledBy[o] EXCEPT ![seen[d]] = @ \cup {d}] = settledBy[o]
    BY <1>1, <1>3
  <2>2. [executions[o] EXCEPT ![seen[d]] = @ + 1] = executions[o]
    BY <1>1, <1>3
  <2> QED
    BY <1>1, <2>1, <2>2 DEF TypeOK, Settle
<1> QED
  BY <1>2, <1>3

(* A run that returns leaves a status and a call.                          *)
LEMMA ReturnTyped ==
  ASSUME TypeOK, NEW r \in Runs,
         NEW st \in {"waiting", "succeeded", "failed", "cancelled"},
         NEW k \in 0 .. Calls, Return(r, st, k)
  PROVE  /\ outcome' \in [Runs -> {"none", "waiting", "succeeded", "failed", "cancelled"}]
         /\ stopsAt' \in [Runs -> 0 .. Calls]
         /\ pc' \in [Runs -> {"idle", "locked", "checked", "queued", "ready", "resumed",
                              "resolve", "finish", "done", "lost"}]
<1>1. outcome' \in [Runs -> {"none", "waiting", "succeeded", "failed", "cancelled"}]
  BY DEF TypeOK, Return
<1>2. stopsAt' \in [Runs -> 0 .. Calls]
  BY DEF TypeOK, Return
<1>3. pc' \in [Runs -> {"idle", "locked", "checked", "queued", "ready", "resumed",
                       "resolve", "finish", "done", "lost"}]
  BY DEF TypeOK, Return
<1> QED
  BY <1>1, <1>2, <1>3

(* Marking a checkpoint as resumed by an API decision that was late.        *)
LEMMA MarkTyped ==
  ASSUME TypeOK, NEW d \in Decisions, checkpointID[d] \in Origins, MarkStale(d)
  PROVE  stale' \subseteq Origins
BY DEF TypeOK, MarkStale

(* Every step keeps the shape of every variable.                           *)
LEMMA TypeInvStep ==
  TypeInv /\ [Next]_vars => TypeInv'
<1> SUFFICES ASSUME TypeInv, [Next]_vars PROVE TypeInv'
  OBVIOUS
<1>a. Texts \subseteq Decisions /\ Apis \subseteq Decisions /\ Runs = Decisions \cup Origins
  BY DEF Runs, Decisions
<1>b. Nobody \notin Runs /\ Origins \cap Decisions = {}
  BY ApprovalAssumption
<1>c. Calls \in Nat \ {0} /\ MaxRetries \in Nat /\ MaxResets \in Nat /\ MaxCrashes \in Nat
  BY ApprovalAssumption
<1> USE <1>a, <1>b, <1>c DEF TypeInv
<1>1. ASSUME NEW o \in Origins, StartRun(o) PROVE TypeInv'
  <2>1. TypeOK'
    BY <1>1 DEF StartRun, TypeOK, Settled, Waiting, FileOf, recordVars, foundVars, resultVars,
        cancelVars, histVars, boundVars
  <2>2. Judged'
    BY <1>1 DEF StartRun, TypeOK, Judged, recordVars, foundVars, resultVars, cancelVars,
        histVars, boundVars
  <2>3. Named'
    BY <1>1 DEF StartRun, TypeOK, Named, Waiting, recordVars, foundVars, resultVars, cancelVars,
        histVars, boundVars
  <2> QED
    BY <2>1, <2>2, <2>3 DEF TypeInv
<1>2. ASSUME NEW o \in Origins, DropRun(o) PROVE TypeInv'
  <2>4. status' \in [Runs -> Settled \cup {"absent", "running", "waiting"}]
    <3>1. PICK st \in {"cancelled", "failed"} : status' = [status EXCEPT ![o] = st]
      BY <1>2 DEF DropRun
    <3> QED
      BY <3>1 DEF TypeOK, Settled
  <2>1. TypeOK'
    BY <1>2, <2>4 DEF DropRun, TypeOK, recordVars, foundVars, resultVars, cancelVars, histVars,
        boundVars
  <2>2. Judged'
    BY <1>2 DEF DropRun, TypeOK, Judged, recordVars, foundVars, resultVars, cancelVars, histVars,
        boundVars
  <2>3. Named'
    BY <1>2 DEF DropRun, TypeOK, Named, Waiting, recordVars, foundVars, resultVars, cancelVars,
        histVars, boundVars
  <2> QED
    BY <2>1, <2>2, <2>3 DEF TypeInv
<1>3. ASSUME NEW o \in Origins, RunInterrupts(o) PROVE TypeInv'
  <2>4. Return(o, "waiting", 1)
    BY <1>3 DEF RunInterrupts
  <2>5. 1 \in 0 .. Calls
    BY <1>3 DEF RunInterrupts, TypeOK
  <2>6. /\ outcome' \in [Runs -> {"none", "waiting", "succeeded", "failed", "cancelled"}]
        /\ stopsAt' \in [Runs -> 0 .. Calls]
        /\ pc' \in [Runs -> {"idle", "locked", "checked", "queued", "ready", "resumed",
                             "resolve", "finish", "done", "lost"}]
    BY <2>4, <2>5, ReturnTyped
  <2>7. checkpoint' \in [Origins -> 0 .. Calls]
    BY <1>3, <2>5 DEF RunInterrupts, TypeOK
  <2>1. TypeOK'
    BY <1>3, <2>6, <2>7 DEF RunInterrupts, TypeOK, recordVars, foundVars, resultVars, cancelVars,
        histVars, boundVars
  <2>2. Judged'
    BY <1>3 DEF RunInterrupts, Return, TypeOK, Judged, recordVars, foundVars, resultVars,
        cancelVars, histVars, boundVars
  <2>3. Named'
    BY <1>3 DEF RunInterrupts, Return, TypeOK, Named, Waiting, recordVars, foundVars, resultVars,
        cancelVars, histVars, boundVars
  <2> QED
    BY <2>1, <2>2, <2>3 DEF TypeInv
<1>4. ASSUME NEW o \in Origins, RunEnds(o) PROVE TypeInv'
  <2>1. TypeOK'
    BY <1>4, SMTT(30) DEF RunEnds, Return, TypeOK, Settled, Waiting, FileOf, recordVars, foundVars,
        resultVars, cancelVars, histVars, boundVars
  <2>2. Judged'
    BY <1>4 DEF RunEnds, Return, TypeOK, Judged, recordVars, foundVars, resultVars, cancelVars,
        histVars, boundVars
  <2>3. Named'
    BY <1>4 DEF RunEnds, Return, TypeOK, Named, Waiting, recordVars, foundVars, resultVars,
        cancelVars, histVars, boundVars
  <2> QED
    BY <2>1, <2>2, <2>3 DEF TypeInv
<1>5. ASSUME NEW o \in Origins, Judge(o) PROVE TypeInv'
  <2>1. TypeOK'
    BY <1>5 DEF Judge, TypeOK, Settled, Waiting, FileOf, recordVars, foundVars, resultVars,
        cancelVars, histVars, boundVars
  <2>2. Judged'
    BY <1>5 DEF Judge, TypeOK, Judged, recordVars, foundVars, resultVars, cancelVars, histVars,
        boundVars
  <2>3. Named'
    BY <1>5 DEF Judge, TypeOK, Named, Waiting, recordVars, foundVars, resultVars, cancelVars,
        histVars, boundVars
  <2> QED
    BY <2>1, <2>2, <2>3 DEF TypeInv
<1>6. ASSUME NEW d \in Texts, LockText(d) PROVE TypeInv'
  <2>1. TypeOK'
    BY <1>6 DEF LockText, TypeOK, Settled, Waiting, FileOf, recordVars, foundVars, resultVars,
        cancelVars, histVars, boundVars
  <2>2. Judged'
    BY <1>6 DEF LockText, TypeOK, Judged, recordVars, foundVars, resultVars, cancelVars,
        histVars, boundVars
  <2>3. Named'
    BY <1>6 DEF LockText, TypeOK, Named, Waiting, recordVars, foundVars, resultVars, cancelVars,
        histVars, boundVars
  <2> QED
    BY <2>1, <2>2, <2>3 DEF TypeInv
<1>7. ASSUME NEW d \in Texts, FindPending(d) PROVE TypeInv'
  <2>1. TypeOK'
    BY <1>7, SMTT(30) DEF FindPending, Finds, TypeOK, Settled, Waiting, FileOf, recordVars, foundVars,
        resultVars, cancelVars, histVars, boundVars
  <2>2. Judged'
    BY <1>7 DEF FindPending, Finds, TypeOK, Judged, recordVars, foundVars, resultVars,
        cancelVars, histVars, boundVars
  <2>3. Named'
    BY <1>7 DEF FindPending, Finds, TypeOK, Named, Waiting, recordVars, foundVars, resultVars,
        cancelVars, histVars, boundVars
  <2> QED
    BY <2>1, <2>2, <2>3 DEF TypeInv
<1>8. ASSUME NEW d \in Texts, FindNothing(d) PROVE TypeInv'
  <2>1. TypeOK'
    BY <1>8 DEF FindNothing, TypeOK, Settled, Waiting, FileOf, recordVars, foundVars, resultVars,
        cancelVars, histVars, boundVars
  <2>2. Judged'
    BY <1>8 DEF FindNothing, TypeOK, Judged, recordVars, foundVars, resultVars, cancelVars,
        histVars, boundVars
  <2>3. Named'
    BY <1>8 DEF FindNothing, TypeOK, Named, Waiting, recordVars, foundVars, resultVars,
        cancelVars, histVars, boundVars
  <2> QED
    BY <2>1, <2>2, <2>3 DEF TypeInv
<1>9. ASSUME NEW d \in Apis, CheckApi(d) PROVE TypeInv'
  <2>1. TypeOK'
    BY <1>9 DEF CheckApi, Finds, TypeOK, Settled, Waiting, FileOf, recordVars, foundVars,
        resultVars, cancelVars, histVars, boundVars
  <2>2. Judged'
    BY <1>9 DEF CheckApi, Finds, TypeOK, Judged, recordVars, foundVars, resultVars, cancelVars,
        histVars, boundVars
  <2>3. Named'
    BY <1>9 DEF CheckApi, Finds, TypeOK, Named, Waiting, recordVars, foundVars, resultVars,
        cancelVars, histVars, boundVars
  <2> QED
    BY <2>1, <2>2, <2>3 DEF TypeInv
<1>10. ASSUME NEW d \in Apis, StartApi(d) PROVE TypeInv'
  <2>1. TypeOK'
    BY <1>10 DEF StartApi, TypeOK, Settled, Waiting, FileOf, recordVars, foundVars, resultVars,
        cancelVars, histVars, boundVars
  <2>2. Judged'
    BY <1>10 DEF StartApi, TypeOK, Judged, recordVars, foundVars, resultVars, cancelVars,
        histVars, boundVars
  <2>3. Named'
    BY <1>10 DEF StartApi, TypeOK, Named, Waiting, recordVars, foundVars, resultVars, cancelVars,
        histVars, boundVars
  <2> QED
    BY <2>1, <2>2, <2>3 DEF TypeInv
<1>11. ASSUME NEW d \in Decisions, Resume(d) PROVE TypeInv'
  <2>4. checkpointID[d] \in Origins
    BY <1>11 DEF Resume, Named
  <2>5. /\ settledBy' \in [Origins -> [1 .. Calls -> SUBSET Decisions]]
        /\ executions' \in [Origins -> [1 .. Calls -> Nat]]
    BY <1>11, <2>4, SettleTyped DEF Resume
  <2>6. stale' \subseteq Origins
    BY <1>11, <2>4, MarkTyped DEF Resume
  <2>1. TypeOK'
    BY <1>11, <2>5, <2>6 DEF Resume, TypeOK, recordVars, foundVars, resultVars, cancelVars,
        histVars, boundVars
  <2>2. Judged'
    BY <1>11 DEF Resume, Settle, MarkStale, TypeOK, Judged, recordVars, foundVars, resultVars,
        cancelVars, histVars, boundVars
  <2>3. Named'
    BY <1>11 DEF Resume, Settle, MarkStale, TypeOK, Named, Waiting, recordVars, foundVars,
        resultVars, cancelVars, histVars, boundVars
  <2> QED
    BY <2>1, <2>2, <2>3 DEF TypeInv
<1>12. ASSUME NEW d \in Decisions, ResumeElsewhere(d) PROVE TypeInv'
  <2>4. Return(d, "waiting", FileOf(d))
    BY <1>12 DEF ResumeElsewhere
  <2>5. FileOf(d) \in 0 .. Calls
    BY <1>12 DEF ResumeElsewhere, TypeOK, FileOf, Named
  <2>6. /\ outcome' \in [Runs -> {"none", "waiting", "succeeded", "failed", "cancelled"}]
        /\ stopsAt' \in [Runs -> 0 .. Calls]
        /\ pc' \in [Runs -> {"idle", "locked", "checked", "queued", "ready", "resumed",
                             "resolve", "finish", "done", "lost"}]
    BY <2>4, <2>5, ReturnTyped
  <2>8. stale' \subseteq Origins
    BY <1>12, MarkTyped DEF ResumeElsewhere, Named
  <2>1. TypeOK'
    BY <1>12, <2>6, <2>8 DEF ResumeElsewhere, TypeOK, recordVars, foundVars, resultVars,
        cancelVars, histVars, boundVars
  <2>2. Judged'
    BY <1>12 DEF ResumeElsewhere, Return, MarkStale, TypeOK, Judged, recordVars, foundVars,
        resultVars, cancelVars, histVars, boundVars
  <2>3. Named'
    BY <1>12 DEF ResumeElsewhere, Return, MarkStale, TypeOK, Named, Waiting, recordVars,
        foundVars, resultVars, cancelVars, histVars, boundVars
  <2> QED
    BY <2>1, <2>2, <2>3 DEF TypeInv
<1>13. ASSUME NEW d \in Decisions, ResumeFails(d) PROVE TypeInv'
  <2>1. TypeOK'
    BY <1>13, SMTT(30) DEF ResumeFails, Return, TypeOK, Settled, Waiting, FileOf, recordVars, foundVars,
        resultVars, cancelVars, histVars, boundVars
  <2>2. Judged'
    BY <1>13 DEF ResumeFails, Return, TypeOK, Judged, recordVars, foundVars, resultVars,
        cancelVars, histVars, boundVars
  <2>3. Named'
    BY <1>13 DEF ResumeFails, Return, TypeOK, Named, Waiting, recordVars, foundVars, resultVars,
        cancelVars, histVars, boundVars
  <2> QED
    BY <2>1, <2>2, <2>3 DEF TypeInv
<1>14. ASSUME NEW d \in Decisions, StartOver(d) PROVE TypeInv'
  <2>4. checkpointID[d] \in Origins
    BY <1>14 DEF StartOver, Named
  <2>5. /\ settledBy' \in [Origins -> [1 .. Calls -> SUBSET Decisions]]
        /\ executions' \in [Origins -> [1 .. Calls -> Nat]]
    BY <1>14, <2>4, SettleTyped DEF StartOver
  <2>1. TypeOK'
    BY <1>14, <2>5, SMTT(30) DEF StartOver, TypeOK, recordVars, foundVars, resultVars, cancelVars,
        histVars, boundVars
  <2>2. Judged'
    BY <1>14 DEF StartOver, Settle, TypeOK, Judged, recordVars, foundVars, resultVars,
        cancelVars, histVars, boundVars
  <2>3. Named'
    BY <1>14 DEF StartOver, Settle, TypeOK, Named, Waiting, recordVars, foundVars, resultVars,
        cancelVars, histVars, boundVars
  <2> QED
    BY <2>1, <2>2, <2>3 DEF TypeInv
<1>15. ASSUME NEW d \in Decisions, Interrupt(d) PROVE TypeInv'
  <2>4. Return(d, "waiting", seen[d] + 1)
    BY <1>15 DEF Interrupt
  <2>5. seen[d] + 1 \in 0 .. Calls
    BY <1>15 DEF Interrupt, TypeOK
  <2>6. /\ outcome' \in [Runs -> {"none", "waiting", "succeeded", "failed", "cancelled"}]
        /\ stopsAt' \in [Runs -> 0 .. Calls]
        /\ pc' \in [Runs -> {"idle", "locked", "checked", "queued", "ready", "resumed",
                             "resolve", "finish", "done", "lost"}]
    BY <2>4, <2>5, ReturnTyped
  <2>7. checkpoint' \in [Origins -> 0 .. Calls]
    BY <1>15, <2>5 DEF Interrupt, TypeOK
  <2>1. TypeOK'
    BY <1>15, <2>6, <2>7 DEF Interrupt, TypeOK, recordVars, foundVars, resultVars, cancelVars,
        histVars, boundVars
  <2>2. Judged'
    BY <1>15 DEF Interrupt, Return, TypeOK, Judged, recordVars, foundVars, resultVars,
        cancelVars, histVars, boundVars
  <2>3. Named'
    BY <1>15 DEF Interrupt, Return, TypeOK, Named, Waiting, recordVars, foundVars, resultVars,
        cancelVars, histVars, boundVars
  <2> QED
    BY <2>1, <2>2, <2>3 DEF TypeInv
<1>16. ASSUME NEW d \in Decisions, Complete(d) PROVE TypeInv'
  <2>1. TypeOK'
    BY <1>16 DEF Complete, Return, TypeOK, Settled, Waiting, FileOf, recordVars, foundVars,
        resultVars, cancelVars, histVars, boundVars
  <2>2. Judged'
    BY <1>16 DEF Complete, Return, TypeOK, Judged, recordVars, foundVars, resultVars, cancelVars,
        histVars, boundVars
  <2>3. Named'
    BY <1>16 DEF Complete, Return, TypeOK, Named, Waiting, recordVars, foundVars, resultVars,
        cancelVars, histVars, boundVars
  <2> QED
    BY <2>1, <2>2, <2>3 DEF TypeInv
<1>17. ASSUME NEW d \in Decisions, Resolve(d) PROVE TypeInv'
  <2>4. status' \in [Runs -> Settled \cup {"absent", "running", "waiting"}]
    <3>1. CASE UNCHANGED status
      BY <3>1 DEF TypeOK
    <3>2. ASSUME NEW r \in Runs, status' = [status EXCEPT ![r] = Verdict(d)]
          PROVE  status' \in [Runs -> Settled \cup {"absent", "running", "waiting"}]
      BY <3>2 DEF TypeOK, Settled, Verdict
    <3> QED
      BY <1>17, <3>1, <3>2 DEF Resolve, Matching, Waiting
  <2>5. outcome' \in [Runs -> {"none", "waiting", "succeeded", "failed", "cancelled"}]
    <3>1. CASE UNCHANGED outcome
      BY <3>1 DEF TypeOK
    <3>2. CASE outcome' = [outcome EXCEPT ![d] = IF @ = "cancelled" THEN @ ELSE "failed"]
      BY <3>2 DEF TypeOK
    <3> QED
      BY <1>17, <3>1, <3>2 DEF Resolve
  <2>6. pc' \in [Runs -> {"idle", "locked", "checked", "queued", "ready", "resumed",
                         "resolve", "finish", "done", "lost"}]
    BY <1>17 DEF Resolve, TypeOK
  <2>1. TypeOK'
    BY <1>17, <2>4, <2>5, <2>6
    DEF Resolve, TypeOK, recordVars, foundVars, resultVars, cancelVars, histVars, boundVars
  <2>2. Judged'
    BY <1>17 DEF Resolve, Verdict, TypeOK, Judged, recordVars, foundVars, resultVars, cancelVars,
        histVars, boundVars
  <2>3. Named'
    BY <1>17, SMTT(30) DEF Resolve, Verdict, TypeOK, Named, Waiting, recordVars, foundVars, resultVars,
        cancelVars, histVars, boundVars
  <2> QED
    BY <2>1, <2>2, <2>3 DEF TypeInv
<1>18. ASSUME NEW r \in Apis \cup Origins, LockQueued(r) PROVE TypeInv'
  <2>1. TypeOK'
    BY <1>18 DEF LockQueued, TypeOK, Settled, Waiting, FileOf, recordVars, foundVars, resultVars,
        cancelVars, histVars, boundVars
  <2>2. Judged'
    BY <1>18 DEF LockQueued, TypeOK, Judged, recordVars, foundVars, resultVars, cancelVars,
        histVars, boundVars
  <2>3. Named'
    BY <1>18 DEF LockQueued, TypeOK, Named, Waiting, recordVars, foundVars, resultVars,
        cancelVars, histVars, boundVars
  <2> QED
    BY <2>1, <2>2, <2>3 DEF TypeInv
<1>19. ASSUME NEW r \in Runs, Finish(r) PROVE TypeInv'
  <2>4. outcome[r] \in Settled \cup {"waiting"}
    BY <1>19 DEF Finish, TypeOK, Judged, Settled
  <2>5. /\ status' \in [Runs -> Settled \cup {"absent", "running", "waiting"}]
        /\ waitsFor' \in [Runs -> 0 .. Calls]
    BY <1>19, <2>4 DEF Finish, TypeOK
  <2>1. TypeOK'
    BY <1>19, <2>5 DEF Finish, TypeOK, recordVars, foundVars, resultVars, cancelVars, histVars,
        boundVars
  <2>2. Judged'
    BY <1>19 DEF Finish, TypeOK, Judged, recordVars, foundVars, resultVars, cancelVars, histVars,
        boundVars
  <2>3. Named'
    BY <1>19 DEF Finish, TypeOK, Named, Waiting, recordVars, foundVars, resultVars, cancelVars,
        histVars, boundVars
  <2> QED
    BY <2>1, <2>2, <2>3 DEF TypeInv
<1>20. ASSUME NEW c \in Cancels, CancelTracked(c) PROVE TypeInv'
  <2>1. TypeOK'
    BY <1>20 DEF CancelTracked, Tracked, TypeOK, Settled, Waiting, FileOf, recordVars, foundVars,
        resultVars, cancelVars, histVars, boundVars
  <2>2. Judged'
    BY <1>20 DEF CancelTracked, Tracked, TypeOK, Judged, recordVars, foundVars, resultVars,
        cancelVars, histVars, boundVars
  <2>3. Named'
    BY <1>20 DEF CancelTracked, Tracked, TypeOK, Named, Waiting, recordVars, foundVars,
        resultVars, cancelVars, histVars, boundVars
  <2> QED
    BY <2>1, <2>2, <2>3 DEF TypeInv
<1>21. ASSUME NEW c \in Cancels, CancelFinds(c) PROVE TypeInv'
  <2>1. TypeOK'
    <3>1. /\ ctarget' \in [Cancels -> Runs \cup {Nobody}]
          /\ cpc' \in [Cancels -> {"idle", "found", "delete", "done", "lost"}]
      BY <1>21 DEF CancelFinds, Waiting, TypeOK
    <3> QED
      BY <1>21, <3>1 DEF CancelFinds, TypeOK, recordVars, foundVars, resultVars, histVars, boundVars
  <2>2. Judged'
    BY <1>21 DEF CancelFinds, Tracked, TypeOK, Judged, recordVars, foundVars, resultVars,
        cancelVars, histVars, boundVars
  <2>3. Named'
    BY <1>21 DEF CancelFinds, Tracked, TypeOK, Named, Waiting, recordVars, foundVars, resultVars,
        cancelVars, histVars, boundVars
  <2> QED
    BY <2>1, <2>2, <2>3 DEF TypeInv
<1>22. ASSUME NEW c \in Cancels, CancelRun(c) PROVE TypeInv'
  <2>4. \/ status' = [status EXCEPT ![ctarget[c]] = "cancelled"]
        \/ status' = status
    BY <1>22 DEF CancelRun
  <2>5. status' \in [Runs -> Settled \cup {"absent", "running", "waiting"}]
    BY <2>4 DEF TypeOK, Settled
  <2>6. cpc' \in [Cancels -> {"idle", "found", "delete", "done", "lost"}]
    <3>1. CASE cpc' = [cpc EXCEPT ![c] = "delete"]
      BY <3>1 DEF TypeOK
    <3>2. CASE cpc' = [cpc EXCEPT ![c] = "done"]
      BY <3>2 DEF TypeOK
    <3> QED
      BY <1>22, <3>1, <3>2 DEF CancelRun
  <2>1. TypeOK'
    BY <1>22, <2>5, <2>6 DEF CancelRun, TypeOK, recordVars, foundVars, resultVars, cancelVars,
        histVars, boundVars
  <2>2. Judged'
    BY <1>22 DEF CancelRun, TypeOK, Judged, recordVars, foundVars, resultVars, cancelVars,
        histVars, boundVars
  <2>3. Named'
    BY <1>22 DEF CancelRun, TypeOK, Named, Waiting, recordVars, foundVars, resultVars,
        cancelVars, histVars, boundVars
  <2> QED
    BY <2>1, <2>2, <2>3 DEF TypeInv
<1>23. ASSUME NEW c \in Cancels, CancelDeletes(c) PROVE TypeInv'
  <2>4. checkpoint' \in [Origins -> 0 .. Calls]
    <3> DEFINE i == checkpointID[ctarget[c]]
    <3>1. checkpoint' = [checkpoint EXCEPT ![i] = 0]
      BY <1>23 DEF CancelDeletes
    <3>2. checkpoint \in [Origins -> 0 .. Calls] /\ 0 \in 0 .. Calls
      BY DEF TypeOK
    <3> HIDE DEF i
    <3> QED
      BY <3>1, <3>2
  <2>5. cpc' \in [Cancels -> {"idle", "found", "delete", "done", "lost"}]
    BY <1>23 DEF CancelDeletes, TypeOK
  <2>6. UNCHANGED <<recordVars, lock, pc, foundVars, resultVars, stopped, ctarget, histVars, boundVars>>
    BY <1>23 DEF CancelDeletes
  <2>1. TypeOK'
    BY <2>4, <2>5, <2>6 DEF TypeOK, recordVars, foundVars, resultVars, cancelVars, histVars,
        boundVars
  <2>2. Judged'
    BY <1>23 DEF CancelDeletes, TypeOK, Judged, recordVars, foundVars, resultVars, cancelVars,
        histVars, boundVars
  <2>3. Named'
    BY <1>23 DEF CancelDeletes, TypeOK, Named, Waiting, recordVars, foundVars, resultVars,
        cancelVars, histVars, boundVars
  <2> QED
    BY <2>1, <2>2, <2>3 DEF TypeInv
<1>24. ASSUME Reset PROVE TypeInv'
  <2>1. TypeOK'
    BY <1>24 DEF Reset, TypeOK, Settled, Waiting, FileOf, recordVars, foundVars, resultVars,
        cancelVars, histVars, boundVars
  <2>2. Judged'
    BY <1>24 DEF Reset, TypeOK, Judged, recordVars, foundVars, resultVars, cancelVars, histVars,
        boundVars
  <2>3. Named'
    BY <1>24 DEF Reset, TypeOK, Named, Waiting, recordVars, foundVars, resultVars, cancelVars,
        histVars, boundVars
  <2> QED
    BY <2>1, <2>2, <2>3 DEF TypeInv
<1>25. ASSUME Crash PROVE TypeInv'
  <2>1. TypeOK'
    BY <1>25 DEF Crash, Dies, TypeOK, Settled, Waiting, FileOf, recordVars, foundVars,
        resultVars, cancelVars, histVars, boundVars
  <2>2. Judged'
    BY <1>25 DEF Crash, Dies, TypeOK, Judged, recordVars, foundVars, resultVars, cancelVars,
        histVars, boundVars
  <2>3. Named'
    BY <1>25 DEF Crash, Dies, TypeOK, Named, Waiting, recordVars, foundVars, resultVars,
        cancelVars, histVars, boundVars
  <2> QED
    BY <2>1, <2>2, <2>3 DEF TypeInv
<1>26. CASE UNCHANGED vars
  BY <1>26 DEF vars, recordVars, foundVars, resultVars, cancelVars, histVars, boundVars, TypeInv,
      TypeOK, Judged, Named, Waiting, Settled
<1> QED
  BY <1>1, <1>2, <1>3, <1>4, <1>5, <1>6, <1>7, <1>8, <1>9, <1>10, <1>11, <1>12, <1>13, <1>14,
      <1>15, <1>16, <1>17, <1>18, <1>19, <1>20, <1>21, <1>22, <1>23, <1>24, <1>25,
      <1>26 DEF Next, RunStep, ResumeStep, CancelStep

-----------------------------------------------------------------------------
(* A waiting run stays in step with its checkpoint, if the step touches      *)
(* neither, nor a run that was just interrupted at it.                     *)
LEMMA InStepFrame ==
  ASSUME NEW r \in Runs, InStep(r),
         UNCHANGED <<crashes, checkpointID[r], waitsFor[r], FileOf(r)>>,
         \A e \in Decisions : Moving(e) /\ checkpointID[e] = checkpointID[r] =>
           Moving(e)' /\ UNCHANGED checkpointID[e]
  PROVE  InStep(r)'
BY DEF InStep

(* The ordinary run whose checkpoint a run waits at has ended.             *)
LEMMA WaitsAt ==
  ASSUME TypeInv, ApprovalInv, NEW r \in Waiting
  PROVE  /\ r \in Runs /\ pc[r] = "done"
         /\ checkpointID[r] \in Origins /\ pc[checkpointID[r]] = "done"
BY ApprovalAssumption DEF TypeInv, Named, ApprovalInv, WaitInv, ChainInv, Waiting, Runs, Decisions

(* Every step keeps the inductive invariant.                               *)
LEMMA ApprovalInvStep ==
  TypeInv /\ ApprovalInv /\ [Next]_vars => ApprovalInv'
<1> SUFFICES ASSUME TypeInv, ApprovalInv, [Next]_vars PROVE ApprovalInv'
  OBVIOUS
<1>a. Texts \subseteq Decisions /\ Apis \subseteq Decisions /\ Runs = Decisions \cup Origins
  BY DEF Runs, Decisions
<1>b. Nobody \notin Runs /\ Origins \cap Decisions = {}
  BY ApprovalAssumption
<1> USE <1>a, <1>b DEF TypeInv, ApprovalInv
<1>1. ASSUME NEW o \in Origins, StartRun(o) PROVE ApprovalInv'
  <2>1. LockInv'
    BY <1>1 DEF StartRun, TypeOK, LockInv, recordVars, foundVars, resultVars, cancelVars,
        histVars, boundVars
  <2>2. AtMostOneWaiting'
    BY <1>1 DEF StartRun, TypeOK, AtMostOneWaiting, FinishInv, Matching, Waiting, recordVars,
        foundVars, resultVars, cancelVars, histVars, boundVars
  <2>3. FinishInv'
    BY <1>1 DEF StartRun, TypeOK, FinishInv, LockInv, ChainInv, WaitInv, AtMostOneWaiting, Named,
        Matching, Waiting, recordVars, foundVars, resultVars, cancelVars, histVars, boundVars
  <2>4. RunningInv'
    BY <1>1 DEF StartRun, TypeOK, RunningInv, recordVars, foundVars, resultVars, cancelVars,
        histVars, boundVars
  <2>5. WaitInv'
    BY <1>1 DEF StartRun, TypeOK, WaitInv, Matching, Waiting, recordVars, foundVars, resultVars,
        cancelVars, histVars, boundVars
  <2>6. FoundInv'
    BY <1>1 DEF StartRun, TypeOK, FoundInv, WaitInv, Named, Waiting, recordVars, foundVars,
        resultVars, cancelVars, histVars, boundVars
  <2>7. ChainInv'
    BY <1>1 DEF StartRun, TypeOK, ChainInv, WaitInv, Named, Waiting, recordVars, foundVars,
        resultVars, cancelVars, histVars, boundVars
  <2>8. DeadInv'
    BY <1>1 DEF StartRun, TypeOK, DeadInv, Doomed, FinishInv, FoundInv, OwnInv, LockInv,
        ChainInv, WaitInv, Named, Matching, Waiting, recordVars, foundVars, resultVars,
        cancelVars, histVars, boundVars
  <2>9. StopInv'
    BY <1>1 DEF StartRun, TypeOK, StopInv, LockInv, FileOf, Named, recordVars, foundVars,
        resultVars, cancelVars, histVars, boundVars
  <2>10. OwnInv'
    BY <1>1 DEF StartRun, TypeOK, OwnInv, FoundInv, ChainInv, LockInv, FileOf, Named, recordVars,
        foundVars, resultVars, cancelVars, histVars, boundVars
  <2>11. MoveInv'
    <3> SUFFICES ASSUME NEW s \in Waiting' PROVE InStep(s)'
      BY DEF MoveInv
    <3>1. s \in Waiting
      BY <1>1 DEF StartRun, Waiting, TypeOK, recordVars, histVars, boundVars
    <3>2. UNCHANGED <<crashes, checkpointID[s], waitsFor[s], FileOf(s)>>
      BY <1>1, <3>1, WaitsAt DEF StartRun, FileOf, TypeOK, recordVars, foundVars, resultVars,
          cancelVars, histVars, boundVars
    <3>3. \A e \in Decisions : Moving(e) => Moving(e)' /\ UNCHANGED checkpointID[e]
      BY <1>1 DEF StartRun, Moving, TypeOK, recordVars, foundVars, resultVars, cancelVars,
          histVars, boundVars
    <3> QED
      BY <3>1, <3>2, <3>3, InStepFrame DEF MoveInv, Waiting
  <2> QED
    BY <2>1, <2>2, <2>3, <2>4, <2>5, <2>6, <2>7, <2>8, <2>9, <2>10, <2>11 DEF ApprovalInv
<1>2. ASSUME NEW o \in Origins, DropRun(o) PROVE ApprovalInv'
  <2>1. LockInv'
    BY <1>2 DEF DropRun, TypeOK, LockInv, recordVars, foundVars, resultVars, cancelVars,
        histVars, boundVars
  <2>2. AtMostOneWaiting'
    BY <1>2 DEF DropRun, TypeOK, AtMostOneWaiting, FinishInv, Matching, Waiting, recordVars,
        foundVars, resultVars, cancelVars, histVars, boundVars
  <2>3. FinishInv'
    BY <1>2 DEF DropRun, TypeOK, FinishInv, LockInv, ChainInv, WaitInv, AtMostOneWaiting, Named,
        Matching, Waiting, recordVars, foundVars, resultVars, cancelVars, histVars, boundVars
  <2>4. RunningInv'
    BY <1>2 DEF DropRun, TypeOK, RunningInv, recordVars, foundVars, resultVars, cancelVars,
        histVars, boundVars
  <2>5. WaitInv'
    BY <1>2 DEF DropRun, TypeOK, WaitInv, Matching, Waiting, recordVars, foundVars, resultVars,
        cancelVars, histVars, boundVars
  <2>6. FoundInv'
    BY <1>2 DEF DropRun, TypeOK, FoundInv, WaitInv, Named, Waiting, recordVars, foundVars,
        resultVars, cancelVars, histVars, boundVars
  <2>7. ChainInv'
    BY <1>2 DEF DropRun, TypeOK, ChainInv, WaitInv, Named, Waiting, recordVars, foundVars,
        resultVars, cancelVars, histVars, boundVars
  <2>8. DeadInv'
    BY <1>2, SMTT(30) DEF DropRun, TypeOK, DeadInv, Doomed, FinishInv, FoundInv, OwnInv, LockInv, ChainInv,
        WaitInv, Named, Matching, Waiting, recordVars, foundVars, resultVars, cancelVars,
        histVars, boundVars
  <2>9. StopInv'
    BY <1>2 DEF DropRun, TypeOK, StopInv, LockInv, FileOf, Named, recordVars, foundVars,
        resultVars, cancelVars, histVars, boundVars
  <2>10. OwnInv'
    BY <1>2 DEF DropRun, TypeOK, OwnInv, FoundInv, ChainInv, LockInv, FileOf, Named, recordVars,
        foundVars, resultVars, cancelVars, histVars, boundVars
  <2>11. MoveInv'
    <3> SUFFICES ASSUME NEW s \in Waiting' PROVE InStep(s)'
      BY DEF MoveInv
    <3>1. s \in Waiting
      BY <1>2 DEF DropRun, Waiting, TypeOK, recordVars, histVars, boundVars
    <3>2. UNCHANGED <<crashes, checkpointID[s], waitsFor[s], FileOf(s)>>
      BY <1>2, <3>1, WaitsAt DEF DropRun, FileOf, TypeOK, recordVars, foundVars, resultVars,
          cancelVars, histVars, boundVars
    <3>3. \A e \in Decisions : Moving(e) => Moving(e)' /\ UNCHANGED checkpointID[e]
      BY <1>2 DEF DropRun, Moving, TypeOK, recordVars, foundVars, resultVars, cancelVars,
          histVars, boundVars
    <3> QED
      BY <3>1, <3>2, <3>3, InStepFrame DEF MoveInv, Waiting
  <2> QED
    BY <2>1, <2>2, <2>3, <2>4, <2>5, <2>6, <2>7, <2>8, <2>9, <2>10, <2>11 DEF ApprovalInv
<1>3. ASSUME NEW o \in Origins, RunInterrupts(o) PROVE ApprovalInv'
  <2>1. LockInv'
    BY <1>3 DEF RunInterrupts, Return, TypeOK, LockInv, recordVars, foundVars, resultVars,
        cancelVars, histVars, boundVars
  <2>2. AtMostOneWaiting'
    BY <1>3 DEF RunInterrupts, Return, TypeOK, AtMostOneWaiting, FinishInv, Matching, Waiting,
        recordVars, foundVars, resultVars, cancelVars, histVars, boundVars
  <2>3. FinishInv'
    BY <1>3 DEF RunInterrupts, Return, TypeOK, FinishInv, LockInv, ChainInv, WaitInv,
        AtMostOneWaiting, Named, Matching, Waiting, recordVars, foundVars, resultVars,
        cancelVars, histVars, boundVars
  <2>4. RunningInv'
    BY <1>3 DEF RunInterrupts, Return, TypeOK, RunningInv, recordVars, foundVars, resultVars,
        cancelVars, histVars, boundVars
  <2>5. WaitInv'
    BY <1>3 DEF RunInterrupts, Return, TypeOK, WaitInv, Matching, Waiting, recordVars, foundVars,
        resultVars, cancelVars, histVars, boundVars
  <2>6. FoundInv'
    BY <1>3 DEF RunInterrupts, Return, TypeOK, FoundInv, WaitInv, Named, Waiting, recordVars,
        foundVars, resultVars, cancelVars, histVars, boundVars
  <2>7. ChainInv'
    BY <1>3 DEF RunInterrupts, Return, TypeOK, ChainInv, WaitInv, Named, Waiting, recordVars,
        foundVars, resultVars, cancelVars, histVars, boundVars
  <2>8. DeadInv'
    BY <1>3 DEF RunInterrupts, Return, TypeOK, DeadInv, Doomed, FinishInv, FoundInv, OwnInv,
        LockInv, ChainInv, WaitInv, Named, Matching, Waiting, recordVars, foundVars, resultVars,
        cancelVars, histVars, boundVars
  <2>9. StopInv'
    BY <1>3 DEF RunInterrupts, Return, TypeOK, StopInv, LockInv, FileOf, Named, recordVars,
        foundVars, resultVars, cancelVars, histVars, boundVars
  <2>10. OwnInv'
    BY <1>3 DEF RunInterrupts, Return, TypeOK, OwnInv, FoundInv, ChainInv, LockInv, FileOf,
        Named, recordVars, foundVars, resultVars, cancelVars, histVars, boundVars
  <2>11. MoveInv'
    <3> SUFFICES ASSUME NEW s \in Waiting' PROVE InStep(s)'
      BY DEF MoveInv
    <3>1. s \in Waiting
      BY <1>3 DEF RunInterrupts, Return, Waiting, TypeOK, recordVars, histVars, boundVars
    <3>2. UNCHANGED <<crashes, checkpointID[s], waitsFor[s], FileOf(s)>>
      BY <1>3, <3>1, WaitsAt DEF RunInterrupts, Return, FileOf, TypeOK, recordVars, foundVars,
          resultVars, cancelVars, histVars, boundVars
    <3>3. \A e \in Decisions : Moving(e) => Moving(e)' /\ UNCHANGED checkpointID[e]
      BY <1>3 DEF RunInterrupts, Return, Moving, TypeOK, recordVars, foundVars, resultVars,
          cancelVars, histVars, boundVars
    <3> QED
      BY <3>1, <3>2, <3>3, InStepFrame DEF MoveInv, Waiting
  <2> QED
    BY <2>1, <2>2, <2>3, <2>4, <2>5, <2>6, <2>7, <2>8, <2>9, <2>10, <2>11 DEF ApprovalInv
<1>4. ASSUME NEW o \in Origins, RunEnds(o) PROVE ApprovalInv'
  <2>1. LockInv'
    BY <1>4 DEF RunEnds, Return, TypeOK, LockInv, recordVars, foundVars, resultVars, cancelVars,
        histVars, boundVars
  <2>2. AtMostOneWaiting'
    BY <1>4 DEF RunEnds, Return, TypeOK, AtMostOneWaiting, FinishInv, Matching, Waiting,
        recordVars, foundVars, resultVars, cancelVars, histVars, boundVars
  <2>3. FinishInv'
    BY <1>4 DEF RunEnds, Return, TypeOK, FinishInv, LockInv, ChainInv, WaitInv, AtMostOneWaiting,
        Named, Matching, Waiting, recordVars, foundVars, resultVars, cancelVars, histVars, boundVars
  <2>4. RunningInv'
    BY <1>4 DEF RunEnds, Return, TypeOK, RunningInv, recordVars, foundVars, resultVars,
        cancelVars, histVars, boundVars
  <2>5. WaitInv'
    BY <1>4 DEF RunEnds, Return, TypeOK, WaitInv, Matching, Waiting, recordVars, foundVars,
        resultVars, cancelVars, histVars, boundVars
  <2>6. FoundInv'
    BY <1>4 DEF RunEnds, Return, TypeOK, FoundInv, WaitInv, Named, Waiting, recordVars,
        foundVars, resultVars, cancelVars, histVars, boundVars
  <2>7. ChainInv'
    BY <1>4 DEF RunEnds, Return, TypeOK, ChainInv, WaitInv, Named, Waiting, recordVars,
        foundVars, resultVars, cancelVars, histVars, boundVars
  <2>8. DeadInv'
    BY <1>4 DEF RunEnds, Return, TypeOK, DeadInv, Doomed, FinishInv, FoundInv, OwnInv, LockInv,
        ChainInv, WaitInv, Named, Matching, Waiting, recordVars, foundVars, resultVars,
        cancelVars, histVars, boundVars
  <2>9. StopInv'
    BY <1>4 DEF RunEnds, Return, TypeOK, StopInv, LockInv, FileOf, Named, recordVars, foundVars,
        resultVars, cancelVars, histVars, boundVars
  <2>10. OwnInv'
    BY <1>4 DEF RunEnds, Return, TypeOK, OwnInv, FoundInv, ChainInv, LockInv, FileOf, Named,
        recordVars, foundVars, resultVars, cancelVars, histVars, boundVars
  <2>11. MoveInv'
    <3> SUFFICES ASSUME NEW s \in Waiting' PROVE InStep(s)'
      BY DEF MoveInv
    <3>1. s \in Waiting
      BY <1>4 DEF RunEnds, Return, Waiting, TypeOK, recordVars, histVars, boundVars
    <3>2. UNCHANGED <<crashes, checkpointID[s], waitsFor[s], FileOf(s)>>
      BY <1>4, <3>1, WaitsAt DEF RunEnds, Return, FileOf, TypeOK, recordVars, foundVars,
          resultVars, cancelVars, histVars, boundVars
    <3>3. \A e \in Decisions : Moving(e) => Moving(e)' /\ UNCHANGED checkpointID[e]
      BY <1>4 DEF RunEnds, Return, Moving, TypeOK, recordVars, foundVars, resultVars, cancelVars,
          histVars, boundVars
    <3> QED
      BY <3>1, <3>2, <3>3, InStepFrame DEF MoveInv, Waiting
  <2> QED
    BY <2>1, <2>2, <2>3, <2>4, <2>5, <2>6, <2>7, <2>8, <2>9, <2>10, <2>11 DEF ApprovalInv
<1>5. ASSUME NEW o \in Origins, Judge(o) PROVE ApprovalInv'
  <2>1. LockInv'
    BY <1>5 DEF Judge, TypeOK, LockInv, recordVars, foundVars, resultVars, cancelVars, histVars,
        boundVars
  <2>2. AtMostOneWaiting'
    BY <1>5 DEF Judge, TypeOK, AtMostOneWaiting, FinishInv, Matching, Waiting, recordVars,
        foundVars, resultVars, cancelVars, histVars, boundVars
  <2>3. FinishInv'
    BY <1>5 DEF Judge, TypeOK, FinishInv, LockInv, ChainInv, WaitInv, AtMostOneWaiting, Named,
        Matching, Waiting, recordVars, foundVars, resultVars, cancelVars, histVars, boundVars
  <2>4. RunningInv'
    BY <1>5 DEF Judge, TypeOK, RunningInv, recordVars, foundVars, resultVars, cancelVars,
        histVars, boundVars
  <2>5. WaitInv'
    BY <1>5 DEF Judge, TypeOK, WaitInv, Matching, Waiting, recordVars, foundVars, resultVars,
        cancelVars, histVars, boundVars
  <2>6. FoundInv'
    BY <1>5 DEF Judge, TypeOK, FoundInv, WaitInv, Named, Waiting, recordVars, foundVars,
        resultVars, cancelVars, histVars, boundVars
  <2>7. ChainInv'
    BY <1>5 DEF Judge, TypeOK, ChainInv, WaitInv, Named, Waiting, recordVars, foundVars,
        resultVars, cancelVars, histVars, boundVars
  <2>8. DeadInv'
    BY <1>5 DEF Judge, TypeOK, DeadInv, Doomed, FinishInv, FoundInv, OwnInv, LockInv, ChainInv,
        WaitInv, Named, Matching, Waiting, recordVars, foundVars, resultVars, cancelVars,
        histVars, boundVars
  <2>9. StopInv'
    BY <1>5 DEF Judge, TypeOK, StopInv, LockInv, FileOf, Named, recordVars, foundVars,
        resultVars, cancelVars, histVars, boundVars
  <2>10. OwnInv'
    BY <1>5 DEF Judge, TypeOK, OwnInv, FoundInv, ChainInv, LockInv, FileOf, Named, recordVars,
        foundVars, resultVars, cancelVars, histVars, boundVars
  <2>11. MoveInv'
    <3> SUFFICES ASSUME NEW s \in Waiting' PROVE InStep(s)'
      BY DEF MoveInv
    <3>1. s \in Waiting
      BY <1>5 DEF Judge, Waiting, TypeOK, recordVars, histVars, boundVars
    <3>2. UNCHANGED <<crashes, checkpointID[s], waitsFor[s], FileOf(s)>>
      BY <1>5, <3>1, WaitsAt DEF Judge, FileOf, TypeOK, recordVars, foundVars, resultVars,
          cancelVars, histVars, boundVars
    <3>3. \A e \in Decisions : Moving(e) => Moving(e)' /\ UNCHANGED checkpointID[e]
      BY <1>5 DEF Judge, Moving, TypeOK, recordVars, foundVars, resultVars, cancelVars, histVars,
          boundVars
    <3> QED
      BY <3>1, <3>2, <3>3, InStepFrame DEF MoveInv, Waiting
  <2> QED
    BY <2>1, <2>2, <2>3, <2>4, <2>5, <2>6, <2>7, <2>8, <2>9, <2>10, <2>11 DEF ApprovalInv
<1>6. ASSUME NEW d \in Texts, LockText(d) PROVE ApprovalInv'
  <2>1. LockInv'
    BY <1>6 DEF LockText, TypeOK, LockInv, recordVars, foundVars, resultVars, cancelVars,
        histVars, boundVars
  <2>2. AtMostOneWaiting'
    BY <1>6 DEF LockText, TypeOK, AtMostOneWaiting, FinishInv, Matching, Waiting, recordVars,
        foundVars, resultVars, cancelVars, histVars, boundVars
  <2>3. FinishInv'
    BY <1>6 DEF LockText, TypeOK, FinishInv, LockInv, ChainInv, WaitInv, AtMostOneWaiting, Named,
        Matching, Waiting, recordVars, foundVars, resultVars, cancelVars, histVars, boundVars
  <2>4. RunningInv'
    BY <1>6 DEF LockText, TypeOK, RunningInv, recordVars, foundVars, resultVars, cancelVars,
        histVars, boundVars
  <2>5. WaitInv'
    BY <1>6 DEF LockText, TypeOK, WaitInv, Matching, Waiting, recordVars, foundVars, resultVars,
        cancelVars, histVars, boundVars
  <2>6. FoundInv'
    BY <1>6 DEF LockText, TypeOK, FoundInv, WaitInv, Named, Waiting, recordVars, foundVars,
        resultVars, cancelVars, histVars, boundVars
  <2>7. ChainInv'
    BY <1>6 DEF LockText, TypeOK, ChainInv, WaitInv, Named, Waiting, recordVars, foundVars,
        resultVars, cancelVars, histVars, boundVars
  <2>8. DeadInv'
    BY <1>6 DEF LockText, TypeOK, DeadInv, Doomed, FinishInv, FoundInv, OwnInv, LockInv,
        ChainInv, WaitInv, Named, Matching, Waiting, recordVars, foundVars, resultVars,
        cancelVars, histVars, boundVars
  <2>9. StopInv'
    BY <1>6 DEF LockText, TypeOK, StopInv, LockInv, FileOf, Named, recordVars, foundVars,
        resultVars, cancelVars, histVars, boundVars
  <2>10. OwnInv'
    BY <1>6 DEF LockText, TypeOK, OwnInv, FoundInv, ChainInv, LockInv, FileOf, Named, recordVars,
        foundVars, resultVars, cancelVars, histVars, boundVars
  <2>11. MoveInv'
    <3> SUFFICES ASSUME NEW s \in Waiting' PROVE InStep(s)'
      BY DEF MoveInv
    <3>1. s \in Waiting
      BY <1>6 DEF LockText, Waiting, TypeOK, recordVars, histVars, boundVars
    <3>2. UNCHANGED <<crashes, checkpointID[s], waitsFor[s], FileOf(s)>>
      BY <1>6, <3>1, WaitsAt DEF LockText, FileOf, TypeOK, recordVars, foundVars, resultVars,
          cancelVars, histVars, boundVars
    <3>3. \A e \in Decisions : Moving(e) => Moving(e)' /\ UNCHANGED checkpointID[e]
      BY <1>6 DEF LockText, Moving, TypeOK, recordVars, foundVars, resultVars, cancelVars,
          histVars, boundVars
    <3> QED
      BY <3>1, <3>2, <3>3, InStepFrame DEF MoveInv, Waiting
  <2> QED
    BY <2>1, <2>2, <2>3, <2>4, <2>5, <2>6, <2>7, <2>8, <2>9, <2>10, <2>11 DEF ApprovalInv
<1>7. ASSUME NEW d \in Texts, FindPending(d) PROVE ApprovalInv'
  <2>1. LockInv'
    BY <1>7 DEF FindPending, Finds, TypeOK, LockInv, recordVars, foundVars, resultVars,
        cancelVars, histVars, boundVars
  <2>2. AtMostOneWaiting'
    BY <1>7 DEF FindPending, Finds, TypeOK, AtMostOneWaiting, FinishInv, Matching, Waiting,
        recordVars, foundVars, resultVars, cancelVars, histVars, boundVars
  <2>3. FinishInv'
    BY <1>7 DEF FindPending, Finds, TypeOK, FinishInv, LockInv, ChainInv, WaitInv,
        AtMostOneWaiting, Named, Matching, Waiting, recordVars, foundVars, resultVars,
        cancelVars, histVars, boundVars
  <2>4. RunningInv'
    BY <1>7 DEF FindPending, Finds, TypeOK, RunningInv, recordVars, foundVars, resultVars,
        cancelVars, histVars, boundVars
  <2>5. WaitInv'
    BY <1>7 DEF FindPending, Finds, TypeOK, WaitInv, Matching, Waiting, recordVars, foundVars,
        resultVars, cancelVars, histVars, boundVars
  <2>6. FoundInv'
    BY <1>7 DEF FindPending, Finds, TypeOK, FoundInv, WaitInv, Named, Waiting, recordVars,
        foundVars, resultVars, cancelVars, histVars, boundVars
  <2>7. ChainInv'
    BY <1>7 DEF FindPending, Finds, TypeOK, ChainInv, WaitInv, Named, Waiting, recordVars,
        foundVars, resultVars, cancelVars, histVars, boundVars
  <2>8. DeadInv'
    <3>1. ASSUME NEW o \in Origins, Doomed(o)' PROVE Doomed(o)
      BY <1>7, <3>1 DEF Doomed, FoundInv, FindPending, Finds, TypeOK, recordVars, foundVars,
          resultVars, cancelVars, histVars, boundVars
    <3>2. ASSUME NEW s \in Runs, s # d
          PROVE  UNCHANGED <<checkpointID[s], status[s], pc[s], outcome[s]>>
      BY <1>7, <3>2 DEF FindPending, Finds, TypeOK, recordVars, foundVars, resultVars,
          cancelVars, histVars, boundVars
    <3>3. status'[d] # "waiting" /\ pc'[d] # "finish"
      BY <1>7 DEF FindPending, Finds, WaitInv, Waiting, TypeOK, recordVars, foundVars,
          resultVars, cancelVars, histVars, boundVars
    <3> QED
      BY <3>1, <3>2, <3>3 DEF DeadInv
  <2>9. StopInv'
    BY <1>7 DEF FindPending, Finds, TypeOK, StopInv, LockInv, FileOf, Named, recordVars,
        foundVars, resultVars, cancelVars, histVars, boundVars
  <2>10. OwnInv'
    BY <1>7 DEF FindPending, Finds, TypeOK, OwnInv, FoundInv, ChainInv, LockInv, FileOf, Named,
        recordVars, foundVars, resultVars, cancelVars, histVars, boundVars
  <2>11. MoveInv'
    <3> SUFFICES ASSUME NEW s \in Waiting' PROVE InStep(s)'
      BY DEF MoveInv
    <3>1. s \in Waiting
      BY <1>7 DEF FindPending, Finds, Waiting, TypeOK, recordVars, histVars, boundVars
    <3>2. UNCHANGED <<crashes, checkpointID[s], waitsFor[s], FileOf(s)>>
      BY <1>7, <3>1, WaitsAt, SMTT(30) DEF FindPending, Finds, FileOf, TypeOK, recordVars, foundVars,
          resultVars, cancelVars, histVars, boundVars
    <3>3. \A e \in Decisions : Moving(e) => Moving(e)' /\ UNCHANGED checkpointID[e]
      BY <1>7 DEF FindPending, Finds, Moving, TypeOK, recordVars, foundVars, resultVars,
          cancelVars, histVars, boundVars
    <3> QED
      BY <3>1, <3>2, <3>3, InStepFrame DEF MoveInv, Waiting
  <2> QED
    BY <2>1, <2>2, <2>3, <2>4, <2>5, <2>6, <2>7, <2>8, <2>9, <2>10, <2>11 DEF ApprovalInv
<1>8. ASSUME NEW d \in Texts, FindNothing(d) PROVE ApprovalInv'
  <2>1. LockInv'
    BY <1>8 DEF FindNothing, TypeOK, LockInv, recordVars, foundVars, resultVars, cancelVars,
        histVars, boundVars
  <2>2. AtMostOneWaiting'
    BY <1>8 DEF FindNothing, TypeOK, AtMostOneWaiting, FinishInv, Matching, Waiting, recordVars,
        foundVars, resultVars, cancelVars, histVars, boundVars
  <2>3. FinishInv'
    BY <1>8 DEF FindNothing, TypeOK, FinishInv, LockInv, ChainInv, WaitInv, AtMostOneWaiting,
        Named, Matching, Waiting, recordVars, foundVars, resultVars, cancelVars, histVars, boundVars
  <2>4. RunningInv'
    BY <1>8 DEF FindNothing, TypeOK, RunningInv, recordVars, foundVars, resultVars, cancelVars,
        histVars, boundVars
  <2>5. WaitInv'
    BY <1>8 DEF FindNothing, TypeOK, WaitInv, Matching, Waiting, recordVars, foundVars,
        resultVars, cancelVars, histVars, boundVars
  <2>6. FoundInv'
    BY <1>8 DEF FindNothing, TypeOK, FoundInv, WaitInv, Named, Waiting, recordVars, foundVars,
        resultVars, cancelVars, histVars, boundVars
  <2>7. ChainInv'
    BY <1>8 DEF FindNothing, TypeOK, ChainInv, WaitInv, Named, Waiting, recordVars, foundVars,
        resultVars, cancelVars, histVars, boundVars
  <2>8. DeadInv'
    BY <1>8, SMTT(30) DEF FindNothing, TypeOK, DeadInv, Doomed, FinishInv, FoundInv, OwnInv, LockInv,
        ChainInv, WaitInv, Named, Matching, Waiting, recordVars, foundVars, resultVars,
        cancelVars, histVars, boundVars
  <2>9. StopInv'
    BY <1>8 DEF FindNothing, TypeOK, StopInv, LockInv, FileOf, Named, recordVars, foundVars,
        resultVars, cancelVars, histVars, boundVars
  <2>10. OwnInv'
    BY <1>8 DEF FindNothing, TypeOK, OwnInv, FoundInv, ChainInv, LockInv, FileOf, Named,
        recordVars, foundVars, resultVars, cancelVars, histVars, boundVars
  <2>11. MoveInv'
    <3> SUFFICES ASSUME NEW s \in Waiting' PROVE InStep(s)'
      BY DEF MoveInv
    <3>1. s \in Waiting
      BY <1>8 DEF FindNothing, Waiting, TypeOK, recordVars, histVars, boundVars
    <3>2. UNCHANGED <<crashes, checkpointID[s], waitsFor[s], FileOf(s)>>
      BY <1>8, <3>1, WaitsAt DEF FindNothing, FileOf, TypeOK, recordVars, foundVars, resultVars,
          cancelVars, histVars, boundVars
    <3>3. \A e \in Decisions : Moving(e) => Moving(e)' /\ UNCHANGED checkpointID[e]
      BY <1>8 DEF FindNothing, Moving, TypeOK, recordVars, foundVars, resultVars, cancelVars,
          histVars, boundVars
    <3> QED
      BY <3>1, <3>2, <3>3, InStepFrame DEF MoveInv, Waiting
  <2> QED
    BY <2>1, <2>2, <2>3, <2>4, <2>5, <2>6, <2>7, <2>8, <2>9, <2>10, <2>11 DEF ApprovalInv
<1>9. ASSUME NEW d \in Apis, CheckApi(d) PROVE ApprovalInv'
  <2>1. LockInv'
    BY <1>9 DEF CheckApi, Finds, TypeOK, LockInv, recordVars, foundVars, resultVars, cancelVars,
        histVars, boundVars
  <2>2. AtMostOneWaiting'
    <3>1. Waiting' = Waiting /\ d \notin Waiting
      BY <1>9 DEF CheckApi, WaitInv, Waiting, recordVars
    <3>2. \A s \in Waiting : checkpointID'[s] = checkpointID[s]
      BY <1>9, <3>1 DEF CheckApi, Finds, Waiting, TypeOK
    <3> QED
      BY <3>1, <3>2 DEF AtMostOneWaiting
  <2>3. FinishInv'
    BY <1>9 DEF CheckApi, Finds, TypeOK, FinishInv, LockInv, ChainInv, WaitInv, AtMostOneWaiting,
        Named, Matching, Waiting, recordVars, foundVars, resultVars, cancelVars, histVars, boundVars
  <2>4. RunningInv'
    BY <1>9 DEF CheckApi, Finds, TypeOK, RunningInv, recordVars, foundVars, resultVars,
        cancelVars, histVars, boundVars
  <2>5. WaitInv'
    BY <1>9 DEF CheckApi, Finds, TypeOK, WaitInv, Matching, Waiting, recordVars, foundVars,
        resultVars, cancelVars, histVars, boundVars
  <2>6. FoundInv'
    BY <1>9 DEF CheckApi, Finds, TypeOK, FoundInv, WaitInv, Named, Waiting, recordVars,
        foundVars, resultVars, cancelVars, histVars, boundVars
  <2>7. ChainInv'
    BY <1>9 DEF CheckApi, Finds, TypeOK, ChainInv, WaitInv, Named, Waiting, recordVars,
        foundVars, resultVars, cancelVars, histVars, boundVars
  <2>8. DeadInv'
    <3>1. ASSUME NEW o \in Origins, Doomed(o)' PROVE Doomed(o)
      BY <1>9, <3>1 DEF Doomed, FoundInv, CheckApi, Finds, TypeOK, recordVars, foundVars,
          resultVars, cancelVars, histVars, boundVars
    <3>2. ASSUME NEW s \in Runs, s # d
          PROVE  UNCHANGED <<checkpointID[s], status[s], pc[s], outcome[s]>>
      BY <1>9, <3>2 DEF CheckApi, Finds, TypeOK, recordVars, foundVars, resultVars, cancelVars,
          histVars, boundVars
    <3>3. status'[d] # "waiting" /\ pc'[d] # "finish"
      BY <1>9 DEF CheckApi, Finds, WaitInv, Waiting, TypeOK, recordVars, foundVars, resultVars,
          cancelVars, histVars, boundVars
    <3> QED
      BY <3>1, <3>2, <3>3 DEF DeadInv
  <2>9. StopInv'
    BY <1>9 DEF CheckApi, Finds, TypeOK, StopInv, LockInv, FileOf, Named, recordVars, foundVars,
        resultVars, cancelVars, histVars, boundVars
  <2>10. OwnInv'
    BY <1>9 DEF CheckApi, Finds, TypeOK, OwnInv, FoundInv, ChainInv, LockInv, FileOf, Named,
        recordVars, foundVars, resultVars, cancelVars, histVars, boundVars
  <2>11. MoveInv'
    <3> SUFFICES ASSUME NEW s \in Waiting' PROVE InStep(s)'
      BY DEF MoveInv
    <3>1. s \in Waiting
      BY <1>9 DEF CheckApi, Finds, Waiting, TypeOK, recordVars, histVars, boundVars
    <3>2. UNCHANGED <<crashes, checkpointID[s], waitsFor[s], FileOf(s)>>
      BY <1>9, <3>1, WaitsAt, SMTT(30) DEF CheckApi, Finds, FileOf, TypeOK, recordVars, foundVars,
          resultVars, cancelVars, histVars, boundVars
    <3>3. \A e \in Decisions : Moving(e) => Moving(e)' /\ UNCHANGED checkpointID[e]
      BY <1>9 DEF CheckApi, Finds, Moving, TypeOK, recordVars, foundVars, resultVars, cancelVars,
          histVars, boundVars
    <3> QED
      BY <3>1, <3>2, <3>3, InStepFrame DEF MoveInv, Waiting
  <2> QED
    BY <2>1, <2>2, <2>3, <2>4, <2>5, <2>6, <2>7, <2>8, <2>9, <2>10, <2>11 DEF ApprovalInv
<1>10. ASSUME NEW d \in Apis, StartApi(d) PROVE ApprovalInv'
  <2>1. LockInv'
    BY <1>10 DEF StartApi, TypeOK, LockInv, recordVars, foundVars, resultVars, cancelVars,
        histVars, boundVars
  <2>2. AtMostOneWaiting'
    BY <1>10 DEF StartApi, TypeOK, AtMostOneWaiting, FinishInv, Matching, Waiting, recordVars,
        foundVars, resultVars, cancelVars, histVars, boundVars
  <2>3. FinishInv'
    BY <1>10 DEF StartApi, TypeOK, FinishInv, LockInv, ChainInv, WaitInv, AtMostOneWaiting,
        Named, Matching, Waiting, recordVars, foundVars, resultVars, cancelVars, histVars, boundVars
  <2>4. RunningInv'
    BY <1>10 DEF StartApi, TypeOK, RunningInv, recordVars, foundVars, resultVars, cancelVars,
        histVars, boundVars
  <2>5. WaitInv'
    BY <1>10 DEF StartApi, TypeOK, WaitInv, Matching, Waiting, recordVars, foundVars, resultVars,
        cancelVars, histVars, boundVars
  <2>6. FoundInv'
    BY <1>10 DEF StartApi, TypeOK, FoundInv, WaitInv, Named, Waiting, recordVars, foundVars,
        resultVars, cancelVars, histVars, boundVars
  <2>7. ChainInv'
    BY <1>10 DEF StartApi, TypeOK, ChainInv, WaitInv, Named, Waiting, recordVars, foundVars,
        resultVars, cancelVars, histVars, boundVars
  <2>8. DeadInv'
    BY <1>10 DEF StartApi, TypeOK, DeadInv, Doomed, FinishInv, FoundInv, OwnInv, LockInv,
        ChainInv, WaitInv, Named, Matching, Waiting, recordVars, foundVars, resultVars,
        cancelVars, histVars, boundVars
  <2>9. StopInv'
    BY <1>10 DEF StartApi, TypeOK, StopInv, LockInv, FileOf, Named, recordVars, foundVars,
        resultVars, cancelVars, histVars, boundVars
  <2>10. OwnInv'
    BY <1>10 DEF StartApi, TypeOK, OwnInv, FoundInv, ChainInv, LockInv, FileOf, Named,
        recordVars, foundVars, resultVars, cancelVars, histVars, boundVars
  <2>11. MoveInv'
    <3> SUFFICES ASSUME NEW s \in Waiting' PROVE InStep(s)'
      BY DEF MoveInv
    <3>1. s \in Waiting
      BY <1>10 DEF StartApi, Waiting, TypeOK, recordVars, histVars, boundVars
    <3>2. UNCHANGED <<crashes, checkpointID[s], waitsFor[s], FileOf(s)>>
      BY <1>10, <3>1, WaitsAt DEF StartApi, FileOf, TypeOK, recordVars, foundVars, resultVars,
          cancelVars, histVars, boundVars
    <3>3. \A e \in Decisions : Moving(e) => Moving(e)' /\ UNCHANGED checkpointID[e]
      BY <1>10 DEF StartApi, Moving, TypeOK, recordVars, foundVars, resultVars, cancelVars,
          histVars, boundVars
    <3> QED
      BY <3>1, <3>2, <3>3, InStepFrame DEF MoveInv, Waiting
  <2> QED
    BY <2>1, <2>2, <2>3, <2>4, <2>5, <2>6, <2>7, <2>8, <2>9, <2>10, <2>11 DEF ApprovalInv
<1>11. ASSUME NEW d \in Decisions, Resume(d) PROVE ApprovalInv'
  <2>1. LockInv'
    BY <1>11 DEF Resume, Settle, MarkStale, TypeOK, LockInv, recordVars, foundVars, resultVars,
        cancelVars, histVars, boundVars
  <2>2. AtMostOneWaiting'
    BY <1>11 DEF Resume, Settle, MarkStale, TypeOK, AtMostOneWaiting, FinishInv, Matching,
        Waiting, recordVars, foundVars, resultVars, cancelVars, histVars, boundVars
  <2>3. FinishInv'
    BY <1>11 DEF Resume, Settle, MarkStale, TypeOK, FinishInv, LockInv, ChainInv, WaitInv,
        AtMostOneWaiting, Named, Matching, Waiting, recordVars, foundVars, resultVars,
        cancelVars, histVars, boundVars
  <2>4. RunningInv'
    BY <1>11 DEF Resume, Settle, MarkStale, TypeOK, RunningInv, recordVars, foundVars,
        resultVars, cancelVars, histVars, boundVars
  <2>5. WaitInv'
    BY <1>11 DEF Resume, Settle, MarkStale, TypeOK, WaitInv, Matching, Waiting, recordVars,
        foundVars, resultVars, cancelVars, histVars, boundVars
  <2>6. FoundInv'
    BY <1>11 DEF Resume, Settle, MarkStale, TypeOK, FoundInv, WaitInv, Named, Waiting,
        recordVars, foundVars, resultVars, cancelVars, histVars, boundVars
  <2>7. ChainInv'
    BY <1>11 DEF Resume, Settle, MarkStale, TypeOK, ChainInv, WaitInv, Named, Waiting,
        recordVars, foundVars, resultVars, cancelVars, histVars, boundVars
  <2>8. DeadInv'
    BY <1>11, SMTT(30) DEF Resume, Settle, MarkStale, TypeOK, DeadInv, Doomed, FinishInv, FoundInv, OwnInv,
        LockInv, ChainInv, WaitInv, Named, Matching, Waiting, recordVars, foundVars, resultVars,
        cancelVars, histVars, boundVars
  <2>9. StopInv'
    BY <1>11 DEF Resume, Settle, MarkStale, TypeOK, StopInv, LockInv, FileOf, Named, recordVars,
        foundVars, resultVars, cancelVars, histVars, boundVars
  <2>10. OwnInv'
    BY <1>11 DEF Resume, Settle, MarkStale, TypeOK, OwnInv, FoundInv, ChainInv, LockInv, FileOf,
        Named, recordVars, foundVars, resultVars, cancelVars, histVars, boundVars
  <2>11. MoveInv'
    <3> SUFFICES ASSUME NEW s \in Waiting' PROVE InStep(s)'
      BY DEF MoveInv
    <3>1. s \in Waiting
      BY <1>11 DEF Resume, Settle, MarkStale, Waiting, TypeOK, recordVars, histVars, boundVars
    <3>2. UNCHANGED <<crashes, checkpointID[s], waitsFor[s], FileOf(s)>>
      BY <1>11, <3>1, WaitsAt DEF Resume, Settle, MarkStale, FileOf, TypeOK, recordVars,
          foundVars, resultVars, cancelVars, histVars, boundVars
    <3>3. \A e \in Decisions : Moving(e) => Moving(e)' /\ UNCHANGED checkpointID[e]
      BY <1>11 DEF Resume, Settle, MarkStale, Moving, TypeOK, recordVars, foundVars, resultVars,
          cancelVars, histVars, boundVars
    <3> QED
      BY <3>1, <3>2, <3>3, InStepFrame DEF MoveInv, Waiting
  <2> QED
    BY <2>1, <2>2, <2>3, <2>4, <2>5, <2>6, <2>7, <2>8, <2>9, <2>10, <2>11 DEF ApprovalInv
<1>12. ASSUME NEW d \in Decisions, ResumeElsewhere(d) PROVE ApprovalInv'
  <2>1. LockInv'
    BY <1>12 DEF ResumeElsewhere, Return, MarkStale, TypeOK, LockInv, recordVars, foundVars,
        resultVars, cancelVars, histVars, boundVars
  <2>2. AtMostOneWaiting'
    BY <1>12 DEF ResumeElsewhere, Return, MarkStale, TypeOK, AtMostOneWaiting, FinishInv,
        Matching, Waiting, recordVars, foundVars, resultVars, cancelVars, histVars, boundVars
  <2>3. FinishInv'
    BY <1>12 DEF ResumeElsewhere, Return, MarkStale, TypeOK, FinishInv, LockInv, ChainInv,
        WaitInv, AtMostOneWaiting, Named, Matching, Waiting, recordVars, foundVars, resultVars,
        cancelVars, histVars, boundVars
  <2>4. RunningInv'
    BY <1>12 DEF ResumeElsewhere, Return, MarkStale, TypeOK, RunningInv, recordVars, foundVars,
        resultVars, cancelVars, histVars, boundVars
  <2>5. WaitInv'
    BY <1>12 DEF ResumeElsewhere, Return, MarkStale, TypeOK, WaitInv, Matching, Waiting,
        recordVars, foundVars, resultVars, cancelVars, histVars, boundVars
  <2>6. FoundInv'
    BY <1>12 DEF ResumeElsewhere, Return, MarkStale, TypeOK, FoundInv, WaitInv, Named, Waiting,
        recordVars, foundVars, resultVars, cancelVars, histVars, boundVars
  <2>7. ChainInv'
    BY <1>12 DEF ResumeElsewhere, Return, MarkStale, TypeOK, ChainInv, WaitInv, Named, Waiting,
        recordVars, foundVars, resultVars, cancelVars, histVars, boundVars
  <2>8. DeadInv'
    BY <1>12 DEF ResumeElsewhere, Return, MarkStale, TypeOK, DeadInv, Doomed, FinishInv,
        FoundInv, OwnInv, LockInv, ChainInv, WaitInv, Named, Matching, Waiting, recordVars,
        foundVars, resultVars, cancelVars, histVars, boundVars
  <2>9. StopInv'
    BY <1>12 DEF ResumeElsewhere, Return, MarkStale, TypeOK, StopInv, LockInv, FileOf, Named,
        recordVars, foundVars, resultVars, cancelVars, histVars, boundVars
  <2>10. OwnInv'
    BY <1>12 DEF ResumeElsewhere, Return, MarkStale, TypeOK, OwnInv, FoundInv, ChainInv, LockInv,
        FileOf, Named, recordVars, foundVars, resultVars, cancelVars, histVars, boundVars
  <2>11. MoveInv'
    <3> SUFFICES ASSUME NEW s \in Waiting' PROVE InStep(s)'
      BY DEF MoveInv
    <3>1. s \in Waiting
      BY <1>12 DEF ResumeElsewhere, Return, MarkStale, Waiting, TypeOK, recordVars, histVars,
          boundVars
    <3>2. UNCHANGED <<crashes, checkpointID[s], waitsFor[s], FileOf(s)>>
      BY <1>12, <3>1, WaitsAt DEF ResumeElsewhere, Return, MarkStale, FileOf, TypeOK, recordVars,
          foundVars, resultVars, cancelVars, histVars, boundVars
    <3>3. \A e \in Decisions : Moving(e) => Moving(e)' /\ UNCHANGED checkpointID[e]
      BY <1>12 DEF ResumeElsewhere, Return, MarkStale, Moving, TypeOK, recordVars, foundVars,
          resultVars, cancelVars, histVars, boundVars
    <3> QED
      BY <3>1, <3>2, <3>3, InStepFrame DEF MoveInv, Waiting
  <2> QED
    BY <2>1, <2>2, <2>3, <2>4, <2>5, <2>6, <2>7, <2>8, <2>9, <2>10, <2>11 DEF ApprovalInv
<1>13. ASSUME NEW d \in Decisions, ResumeFails(d) PROVE ApprovalInv'
  <2>1. LockInv'
    BY <1>13 DEF ResumeFails, Return, TypeOK, LockInv, recordVars, foundVars, resultVars,
        cancelVars, histVars, boundVars
  <2>2. AtMostOneWaiting'
    BY <1>13 DEF ResumeFails, Return, TypeOK, AtMostOneWaiting, FinishInv, Matching, Waiting,
        recordVars, foundVars, resultVars, cancelVars, histVars, boundVars
  <2>3. FinishInv'
    BY <1>13 DEF ResumeFails, Return, TypeOK, FinishInv, LockInv, ChainInv, WaitInv,
        AtMostOneWaiting, Named, Matching, Waiting, recordVars, foundVars, resultVars,
        cancelVars, histVars, boundVars
  <2>4. RunningInv'
    BY <1>13 DEF ResumeFails, Return, TypeOK, RunningInv, recordVars, foundVars, resultVars,
        cancelVars, histVars, boundVars
  <2>5. WaitInv'
    BY <1>13 DEF ResumeFails, Return, TypeOK, WaitInv, Matching, Waiting, recordVars, foundVars,
        resultVars, cancelVars, histVars, boundVars
  <2>6. FoundInv'
    BY <1>13 DEF ResumeFails, Return, TypeOK, FoundInv, WaitInv, Named, Waiting, recordVars,
        foundVars, resultVars, cancelVars, histVars, boundVars
  <2>7. ChainInv'
    BY <1>13 DEF ResumeFails, Return, TypeOK, ChainInv, WaitInv, Named, Waiting, recordVars,
        foundVars, resultVars, cancelVars, histVars, boundVars
  <2>8. DeadInv'
    BY <1>13, SMTT(30) DEF ResumeFails, Return, TypeOK, DeadInv, Doomed, FinishInv, FoundInv, OwnInv,
        LockInv, ChainInv, WaitInv, Named, Matching, Waiting, recordVars, foundVars, resultVars,
        cancelVars, histVars, boundVars
  <2>9. StopInv'
    BY <1>13 DEF ResumeFails, Return, TypeOK, StopInv, LockInv, FileOf, Named, recordVars,
        foundVars, resultVars, cancelVars, histVars, boundVars
  <2>10. OwnInv'
    BY <1>13 DEF ResumeFails, Return, TypeOK, OwnInv, FoundInv, ChainInv, LockInv, FileOf, Named,
        recordVars, foundVars, resultVars, cancelVars, histVars, boundVars
  <2>11. MoveInv'
    <3> SUFFICES ASSUME NEW s \in Waiting' PROVE InStep(s)'
      BY DEF MoveInv
    <3>1. s \in Waiting
      BY <1>13 DEF ResumeFails, Return, Waiting, TypeOK, recordVars, histVars, boundVars
    <3>2. UNCHANGED <<crashes, checkpointID[s], waitsFor[s], FileOf(s)>>
      BY <1>13, <3>1, WaitsAt DEF ResumeFails, Return, FileOf, TypeOK, recordVars, foundVars,
          resultVars, cancelVars, histVars, boundVars
    <3>3. \A e \in Decisions : Moving(e) => Moving(e)' /\ UNCHANGED checkpointID[e]
      BY <1>13 DEF ResumeFails, Return, Moving, TypeOK, recordVars, foundVars, resultVars,
          cancelVars, histVars, boundVars
    <3> QED
      BY <3>1, <3>2, <3>3, InStepFrame DEF MoveInv, Waiting
  <2> QED
    BY <2>1, <2>2, <2>3, <2>4, <2>5, <2>6, <2>7, <2>8, <2>9, <2>10, <2>11 DEF ApprovalInv
<1>14. ASSUME NEW d \in Decisions, StartOver(d) PROVE ApprovalInv'
  <2>1. LockInv'
    BY <1>14 DEF StartOver, Settle, TypeOK, LockInv, recordVars, foundVars, resultVars,
        cancelVars, histVars, boundVars
  <2>2. AtMostOneWaiting'
    BY <1>14 DEF StartOver, Settle, TypeOK, AtMostOneWaiting, FinishInv, Matching, Waiting,
        recordVars, foundVars, resultVars, cancelVars, histVars, boundVars
  <2>3. FinishInv'
    BY <1>14 DEF StartOver, Settle, TypeOK, FinishInv, LockInv, ChainInv, WaitInv,
        AtMostOneWaiting, Named, Matching, Waiting, recordVars, foundVars, resultVars,
        cancelVars, histVars, boundVars
  <2>4. RunningInv'
    BY <1>14 DEF StartOver, Settle, TypeOK, RunningInv, recordVars, foundVars, resultVars,
        cancelVars, histVars, boundVars
  <2>5. WaitInv'
    BY <1>14 DEF StartOver, Settle, TypeOK, WaitInv, Matching, Waiting, recordVars, foundVars,
        resultVars, cancelVars, histVars, boundVars
  <2>6. FoundInv'
    BY <1>14 DEF StartOver, Settle, TypeOK, FoundInv, WaitInv, Named, Waiting, recordVars,
        foundVars, resultVars, cancelVars, histVars, boundVars
  <2>7. ChainInv'
    BY <1>14 DEF StartOver, Settle, TypeOK, ChainInv, WaitInv, Named, Waiting, recordVars,
        foundVars, resultVars, cancelVars, histVars, boundVars
  <2>8. DeadInv'
    BY <1>14 DEF StartOver, Settle, TypeOK, DeadInv, Doomed, FinishInv, FoundInv, OwnInv,
        LockInv, ChainInv, WaitInv, Named, Matching, Waiting, recordVars, foundVars, resultVars,
        cancelVars, histVars, boundVars
  <2>9. StopInv'
    BY <1>14 DEF StartOver, Settle, TypeOK, StopInv, LockInv, FileOf, Named, recordVars,
        foundVars, resultVars, cancelVars, histVars, boundVars
  <2>10. OwnInv'
    BY <1>14 DEF StartOver, Settle, TypeOK, OwnInv, FoundInv, ChainInv, LockInv, FileOf, Named,
        recordVars, foundVars, resultVars, cancelVars, histVars, boundVars
  <2>11. MoveInv'
    <3> SUFFICES ASSUME NEW s \in Waiting' PROVE InStep(s)'
      BY DEF MoveInv
    <3>1. s \in Waiting
      BY <1>14 DEF StartOver, Settle, Waiting, TypeOK, recordVars, histVars, boundVars
    <3>2. UNCHANGED <<crashes, checkpointID[s], waitsFor[s], FileOf(s)>>
      BY <1>14, <3>1, WaitsAt DEF StartOver, Settle, FileOf, TypeOK, recordVars, foundVars,
          resultVars, cancelVars, histVars, boundVars
    <3>3. \A e \in Decisions : Moving(e) => Moving(e)' /\ UNCHANGED checkpointID[e]
      BY <1>14 DEF StartOver, Settle, Moving, TypeOK, recordVars, foundVars, resultVars,
          cancelVars, histVars, boundVars
    <3> QED
      BY <3>1, <3>2, <3>3, InStepFrame DEF MoveInv, Waiting
  <2> QED
    BY <2>1, <2>2, <2>3, <2>4, <2>5, <2>6, <2>7, <2>8, <2>9, <2>10, <2>11 DEF ApprovalInv
<1>15. ASSUME NEW d \in Decisions, Interrupt(d) PROVE ApprovalInv'
  <2>1. LockInv'
    BY <1>15 DEF Interrupt, Return, TypeOK, LockInv, recordVars, foundVars, resultVars,
        cancelVars, histVars, boundVars
  <2>2. AtMostOneWaiting'
    BY <1>15 DEF Interrupt, Return, TypeOK, AtMostOneWaiting, FinishInv, Matching, Waiting,
        recordVars, foundVars, resultVars, cancelVars, histVars, boundVars
  <2>3. FinishInv'
    BY <1>15 DEF Interrupt, Return, TypeOK, FinishInv, LockInv, ChainInv, WaitInv,
        AtMostOneWaiting, Named, Matching, Waiting, recordVars, foundVars, resultVars,
        cancelVars, histVars, boundVars
  <2>4. RunningInv'
    BY <1>15 DEF Interrupt, Return, TypeOK, RunningInv, recordVars, foundVars, resultVars,
        cancelVars, histVars, boundVars
  <2>5. WaitInv'
    BY <1>15 DEF Interrupt, Return, TypeOK, WaitInv, Matching, Waiting, recordVars, foundVars,
        resultVars, cancelVars, histVars, boundVars
  <2>6. FoundInv'
    BY <1>15 DEF Interrupt, Return, TypeOK, FoundInv, WaitInv, Named, Waiting, recordVars,
        foundVars, resultVars, cancelVars, histVars, boundVars
  <2>7. ChainInv'
    BY <1>15 DEF Interrupt, Return, TypeOK, ChainInv, WaitInv, Named, Waiting, recordVars,
        foundVars, resultVars, cancelVars, histVars, boundVars
  <2>8. DeadInv'
    BY <1>15 DEF Interrupt, Return, TypeOK, DeadInv, Doomed, FinishInv, FoundInv, OwnInv,
        LockInv, ChainInv, WaitInv, Named, Matching, Waiting, recordVars, foundVars, resultVars,
        cancelVars, histVars, boundVars
  <2>9. StopInv'
    BY <1>15 DEF Interrupt, Return, TypeOK, StopInv, LockInv, FileOf, Named, recordVars,
        foundVars, resultVars, cancelVars, histVars, boundVars
  <2>10. OwnInv'
    BY <1>15 DEF Interrupt, Return, TypeOK, OwnInv, FoundInv, ChainInv, LockInv, FileOf, Named,
        recordVars, foundVars, resultVars, cancelVars, histVars, boundVars
  <2>11. MoveInv'
    <3> SUFFICES ASSUME NEW s \in Waiting' PROVE InStep(s)'
      BY DEF MoveInv
    <3>1. s \in Waiting
      BY <1>15 DEF Interrupt, Waiting, TypeOK, recordVars
    <3>2. CASE checkpointID[s] = checkpointID[d]
      <4>1. Moving(d)' /\ UNCHANGED checkpointID
        BY <1>15 DEF Interrupt, Return, Moving, TypeOK, foundVars
      <4> QED
        BY <3>2, <4>1 DEF InStep
    <3>3. CASE checkpointID[s] # checkpointID[d]
      <4>1. UNCHANGED <<crashes, checkpointID[s], waitsFor[s], FileOf(s)>>
        BY <1>15, <3>1, <3>3, WaitsAt DEF Interrupt, FileOf, TypeOK, recordVars, foundVars,
            resultVars, cancelVars, histVars, boundVars
      <4>2. \A e \in Decisions : Moving(e) => Moving(e)' /\ UNCHANGED checkpointID[e]
        BY <1>15 DEF Interrupt, Return, Moving, TypeOK, recordVars, foundVars, resultVars,
            cancelVars, histVars, boundVars
      <4> QED
        BY <3>1, <4>1, <4>2, InStepFrame DEF MoveInv, Waiting
    <3> QED
      BY <3>2, <3>3
  <2> QED
    BY <2>1, <2>2, <2>3, <2>4, <2>5, <2>6, <2>7, <2>8, <2>9, <2>10, <2>11 DEF ApprovalInv
<1>16. ASSUME NEW d \in Decisions, Complete(d) PROVE ApprovalInv'
  <2>1. LockInv'
    BY <1>16 DEF Complete, Return, TypeOK, LockInv, recordVars, foundVars, resultVars,
        cancelVars, histVars, boundVars
  <2>2. AtMostOneWaiting'
    BY <1>16 DEF Complete, Return, TypeOK, AtMostOneWaiting, FinishInv, Matching, Waiting,
        recordVars, foundVars, resultVars, cancelVars, histVars, boundVars
  <2>3. FinishInv'
    BY <1>16 DEF Complete, Return, TypeOK, FinishInv, LockInv, ChainInv, WaitInv,
        AtMostOneWaiting, Named, Matching, Waiting, recordVars, foundVars, resultVars,
        cancelVars, histVars, boundVars
  <2>4. RunningInv'
    BY <1>16 DEF Complete, Return, TypeOK, RunningInv, recordVars, foundVars, resultVars,
        cancelVars, histVars, boundVars
  <2>5. WaitInv'
    BY <1>16 DEF Complete, Return, TypeOK, WaitInv, Matching, Waiting, recordVars, foundVars,
        resultVars, cancelVars, histVars, boundVars
  <2>6. FoundInv'
    BY <1>16 DEF Complete, Return, TypeOK, FoundInv, WaitInv, Named, Waiting, recordVars,
        foundVars, resultVars, cancelVars, histVars, boundVars
  <2>7. ChainInv'
    BY <1>16 DEF Complete, Return, TypeOK, ChainInv, WaitInv, Named, Waiting, recordVars,
        foundVars, resultVars, cancelVars, histVars, boundVars
  <2>8. DeadInv'
    BY <1>16, SMTT(30) DEF Complete, Return, TypeOK, DeadInv, Doomed, FinishInv, FoundInv, OwnInv, LockInv,
        ChainInv, WaitInv, Named, Matching, Waiting, recordVars, foundVars, resultVars,
        cancelVars, histVars, boundVars
  <2>9. StopInv'
    BY <1>16 DEF Complete, Return, TypeOK, StopInv, LockInv, FileOf, Named, recordVars,
        foundVars, resultVars, cancelVars, histVars, boundVars
  <2>10. OwnInv'
    BY <1>16 DEF Complete, Return, TypeOK, OwnInv, FoundInv, ChainInv, LockInv, FileOf, Named,
        recordVars, foundVars, resultVars, cancelVars, histVars, boundVars
  <2>11. MoveInv'
    <3> SUFFICES ASSUME NEW s \in Waiting' PROVE InStep(s)'
      BY DEF MoveInv
    <3>1. s \in Waiting
      BY <1>16 DEF Complete, Return, Waiting, TypeOK, recordVars, histVars, boundVars
    <3>2. UNCHANGED <<crashes, checkpointID[s], waitsFor[s], FileOf(s)>>
      BY <1>16, <3>1, WaitsAt DEF Complete, Return, FileOf, TypeOK, recordVars, foundVars,
          resultVars, cancelVars, histVars, boundVars
    <3>3. \A e \in Decisions : Moving(e) => Moving(e)' /\ UNCHANGED checkpointID[e]
      BY <1>16 DEF Complete, Return, Moving, TypeOK, recordVars, foundVars, resultVars,
          cancelVars, histVars, boundVars
    <3> QED
      BY <3>1, <3>2, <3>3, InStepFrame DEF MoveInv, Waiting
  <2> QED
    BY <2>1, <2>2, <2>3, <2>4, <2>5, <2>6, <2>7, <2>8, <2>9, <2>10, <2>11 DEF ApprovalInv
<1>17. ASSUME NEW d \in Decisions, Resolve(d) PROVE ApprovalInv'
  <2>1. LockInv'
    BY <1>17 DEF Resolve, Verdict, TypeOK, LockInv, recordVars, foundVars, resultVars,
        cancelVars, histVars, boundVars
  <2>2. AtMostOneWaiting'
    BY <1>17 DEF Resolve, Verdict, TypeOK, AtMostOneWaiting, FinishInv, Matching, Waiting,
        recordVars, foundVars, resultVars, cancelVars, histVars, boundVars
  <2>3. FinishInv'
    <3>1. Waiting' \subseteq Waiting \ Matching(checkpointID[d])
      <4>1. CASE Matching(checkpointID[d]) = {} /\ UNCHANGED status
        BY <4>1 DEF Waiting
      <4>2. ASSUME NEW s \in Matching(checkpointID[d]), status' = [status EXCEPT ![s] = Verdict(d)]
            PROVE  Waiting' \subseteq Waiting \ Matching(checkpointID[d])
        <5>1. \A t \in Matching(checkpointID[d]) : t = s
          BY <1>17 DEF Resolve, Matching, AtMostOneWaiting, Named
        <5>2. Verdict(d) # "waiting"
          BY DEF Verdict
        <5> QED
          BY <4>2, <5>1, <5>2 DEF Waiting, TypeOK
      <4> QED
        BY <1>17, <4>1, <4>2 DEF Resolve
    <3>2. \A r \in Runs : pc'[r] = "finish" => r = d
      BY <1>17 DEF Resolve, LockInv, TypeOK
    <3> QED
      BY <1>17, <3>1, <3>2 DEF Resolve, FinishInv, Matching, foundVars
  <2>4. RunningInv'
    BY <1>17 DEF Resolve, Verdict, TypeOK, RunningInv, recordVars, foundVars, resultVars,
        cancelVars, histVars, boundVars
  <2>5. WaitInv'
    BY <1>17 DEF Resolve, Verdict, TypeOK, WaitInv, Matching, Waiting, recordVars, foundVars,
        resultVars, cancelVars, histVars, boundVars
  <2>6. FoundInv'
    BY <1>17 DEF Resolve, Verdict, TypeOK, FoundInv, WaitInv, Named, Waiting, recordVars,
        foundVars, resultVars, cancelVars, histVars, boundVars
  <2>7. ChainInv'
    BY <1>17 DEF Resolve, Verdict, TypeOK, ChainInv, WaitInv, Named, Waiting, recordVars,
        foundVars, resultVars, cancelVars, histVars, boundVars
  <2>8. DeadInv'
    BY <1>17 DEF Resolve, Verdict, TypeOK, DeadInv, Doomed, FinishInv, FoundInv, OwnInv, LockInv,
        ChainInv, WaitInv, Named, Matching, Waiting, recordVars, foundVars, resultVars,
        cancelVars, histVars, boundVars
  <2>9. StopInv'
    BY <1>17 DEF Resolve, Verdict, TypeOK, StopInv, LockInv, FileOf, Named, recordVars,
        foundVars, resultVars, cancelVars, histVars, boundVars
  <2>10. OwnInv'
    BY <1>17 DEF Resolve, Verdict, TypeOK, OwnInv, FoundInv, ChainInv, LockInv, FileOf, Named,
        recordVars, foundVars, resultVars, cancelVars, histVars, boundVars
  <2>11. MoveInv'
    <3> SUFFICES ASSUME NEW s \in Waiting' PROVE InStep(s)'
      BY DEF MoveInv
    <3>1. s \in Waiting
      BY <1>17 DEF Resolve, Verdict, Waiting, TypeOK
    <3>2. UNCHANGED <<crashes, checkpointID[s], waitsFor[s], FileOf(s)>>
      BY <1>17, <3>1, WaitsAt DEF Resolve, FileOf, TypeOK, recordVars, foundVars, resultVars,
          cancelVars, histVars, boundVars
    <3>3. checkpointID[s] # checkpointID[d]
      BY <1>17, <2>3 DEF Resolve, FinishInv, TypeOK, foundVars
    <3>4. \A e \in Decisions : Moving(e) /\ checkpointID[e] = checkpointID[s] =>
            Moving(e)' /\ UNCHANGED checkpointID[e]
      BY <1>17, <3>3 DEF Resolve, Moving, TypeOK, recordVars, foundVars, resultVars, cancelVars,
          histVars, boundVars
    <3> QED
      BY <3>1, <3>2, <3>4, InStepFrame DEF MoveInv, Waiting
  <2> QED
    BY <2>1, <2>2, <2>3, <2>4, <2>5, <2>6, <2>7, <2>8, <2>9, <2>10, <2>11 DEF ApprovalInv
<1>18. ASSUME NEW r \in Apis \cup Origins, LockQueued(r) PROVE ApprovalInv'
  <2>1. LockInv'
    BY <1>18 DEF LockQueued, TypeOK, LockInv, recordVars, foundVars, resultVars, cancelVars,
        histVars, boundVars
  <2>2. AtMostOneWaiting'
    BY <1>18 DEF LockQueued, TypeOK, AtMostOneWaiting, FinishInv, Matching, Waiting, recordVars,
        foundVars, resultVars, cancelVars, histVars, boundVars
  <2>3. FinishInv'
    BY <1>18 DEF LockQueued, TypeOK, FinishInv, LockInv, ChainInv, WaitInv, AtMostOneWaiting,
        Named, Matching, Waiting, recordVars, foundVars, resultVars, cancelVars, histVars, boundVars
  <2>4. RunningInv'
    BY <1>18 DEF LockQueued, TypeOK, RunningInv, recordVars, foundVars, resultVars, cancelVars,
        histVars, boundVars
  <2>5. WaitInv'
    BY <1>18 DEF LockQueued, TypeOK, WaitInv, Matching, Waiting, recordVars, foundVars,
        resultVars, cancelVars, histVars, boundVars
  <2>6. FoundInv'
    BY <1>18 DEF LockQueued, TypeOK, FoundInv, WaitInv, Named, Waiting, recordVars, foundVars,
        resultVars, cancelVars, histVars, boundVars
  <2>7. ChainInv'
    BY <1>18 DEF LockQueued, TypeOK, ChainInv, WaitInv, Named, Waiting, recordVars, foundVars,
        resultVars, cancelVars, histVars, boundVars
  <2>8. DeadInv'
    BY <1>18 DEF LockQueued, TypeOK, DeadInv, Doomed, FinishInv, FoundInv, OwnInv, LockInv,
        ChainInv, WaitInv, Named, Matching, Waiting, recordVars, foundVars, resultVars,
        cancelVars, histVars, boundVars
  <2>9. StopInv'
    BY <1>18 DEF LockQueued, TypeOK, StopInv, LockInv, FileOf, Named, recordVars, foundVars,
        resultVars, cancelVars, histVars, boundVars
  <2>10. OwnInv'
    BY <1>18 DEF LockQueued, TypeOK, OwnInv, FoundInv, ChainInv, LockInv, FileOf, Named,
        recordVars, foundVars, resultVars, cancelVars, histVars, boundVars
  <2>11. MoveInv'
    <3> SUFFICES ASSUME NEW s \in Waiting' PROVE InStep(s)'
      BY DEF MoveInv
    <3>1. s \in Waiting
      BY <1>18 DEF LockQueued, Waiting, TypeOK, recordVars, histVars, boundVars
    <3>2. UNCHANGED <<crashes, checkpointID[s], waitsFor[s], FileOf(s)>>
      BY <1>18, <3>1, WaitsAt DEF LockQueued, FileOf, TypeOK, recordVars, foundVars, resultVars,
          cancelVars, histVars, boundVars
    <3>3. \A e \in Decisions : Moving(e) => Moving(e)' /\ UNCHANGED checkpointID[e]
      BY <1>18 DEF LockQueued, Moving, TypeOK, recordVars, foundVars, resultVars, cancelVars,
          histVars, boundVars
    <3> QED
      BY <3>1, <3>2, <3>3, InStepFrame DEF MoveInv, Waiting
  <2> QED
    BY <2>1, <2>2, <2>3, <2>4, <2>5, <2>6, <2>7, <2>8, <2>9, <2>10, <2>11 DEF ApprovalInv
<1>19. ASSUME NEW r \in Runs, Finish(r) PROVE ApprovalInv'
  <2>1. LockInv'
    BY <1>19 DEF Finish, TypeOK, LockInv, recordVars, foundVars, resultVars, cancelVars,
        histVars, boundVars
  <2>2. AtMostOneWaiting'
    BY <1>19 DEF Finish, TypeOK, AtMostOneWaiting, FinishInv, Matching, Waiting, recordVars,
        foundVars, resultVars, cancelVars, histVars, boundVars
  <2>3. FinishInv'
    BY <1>19 DEF Finish, TypeOK, FinishInv, LockInv, ChainInv, WaitInv, AtMostOneWaiting, Named,
        Matching, Waiting, recordVars, foundVars, resultVars, cancelVars, histVars, boundVars
  <2>4. RunningInv'
    BY <1>19 DEF Finish, TypeOK, RunningInv, recordVars, foundVars, resultVars, cancelVars,
        histVars, boundVars
  <2>5. WaitInv'
    BY <1>19 DEF Finish, TypeOK, WaitInv, Matching, Waiting, recordVars, foundVars, resultVars,
        cancelVars, histVars, boundVars
  <2>6. FoundInv'
    BY <1>19 DEF Finish, TypeOK, FoundInv, WaitInv, Named, Waiting, recordVars, foundVars,
        resultVars, cancelVars, histVars, boundVars
  <2>7. ChainInv'
    BY <1>19 DEF Finish, TypeOK, ChainInv, WaitInv, Named, Waiting, recordVars, foundVars,
        resultVars, cancelVars, histVars, boundVars
  <2>8. DeadInv'
    BY <1>19, SMTT(30) DEF Finish, TypeOK, DeadInv, Doomed, FinishInv, FoundInv, OwnInv, LockInv, ChainInv,
        WaitInv, Named, Matching, Waiting, recordVars, foundVars, resultVars, cancelVars,
        histVars, boundVars
  <2>9. StopInv'
    BY <1>19 DEF Finish, TypeOK, StopInv, LockInv, FileOf, Named, recordVars, foundVars,
        resultVars, cancelVars, histVars, boundVars
  <2>10. OwnInv'
    BY <1>19 DEF Finish, TypeOK, OwnInv, FoundInv, ChainInv, LockInv, FileOf, Named, recordVars,
        foundVars, resultVars, cancelVars, histVars, boundVars
  <2>11. MoveInv'
    <3> SUFFICES ASSUME NEW s \in Waiting' PROVE InStep(s)'
      BY DEF MoveInv
    <3>1. CASE s # r
      <4>1. s \in Waiting
        BY <1>19, <3>1 DEF Finish, Waiting, TypeOK
      <4>2. UNCHANGED <<crashes, checkpointID[s], waitsFor[s], FileOf(s)>>
        BY <1>19, <3>1, <4>1, WaitsAt DEF Finish, FileOf, TypeOK, recordVars, foundVars,
            resultVars, cancelVars, histVars, boundVars
      <4>3. \A e \in Decisions : Moving(e) => Moving(e)' /\ UNCHANGED checkpointID[e]
        BY <1>19 DEF Finish, Moving, TypeOK, recordVars, foundVars, resultVars, cancelVars,
            histVars, boundVars
      <4> QED
        BY <4>1, <4>2, <4>3, InStepFrame DEF MoveInv, Waiting
    <3>2. CASE s = r
      <4>1. pc[r] = "finish" /\ outcome[r] = "waiting" /\ waitsFor'[r] = stopsAt[r]
        BY <1>19, <3>2 DEF Finish, Waiting, TypeOK
      <4>2. checkpointID[r] \in Origins /\ FileOf(r) \in {0, stopsAt[r]}
        BY <4>1 DEF StopInv, Named
      <4>3. FileOf(r) # 0
        <5>1. CASE r \in Origins
          BY <4>1, <5>1 DEF OwnInv, Named, FileOf
        <5>2. CASE r \in Decisions
          <6>1. pc[checkpointID[r]] = "done"
            BY <4>2, <5>2 DEF ChainInv
          <6>2. ~ Doomed(checkpointID[r])
            BY <4>1, <4>2 DEF DeadInv
          <6> QED
            BY <6>1, <6>2 DEF Doomed, FileOf
        <5> QED
          BY <5>1, <5>2
      <4>4. FileOf(r)' = waitsFor'[r]
        BY <1>19, <4>1, <4>2, <4>3 DEF Finish, FileOf, foundVars
      <4> QED
        BY <3>2, <4>4 DEF InStep
    <3> QED
      BY <3>1, <3>2
  <2> QED
    BY <2>1, <2>2, <2>3, <2>4, <2>5, <2>6, <2>7, <2>8, <2>9, <2>10, <2>11 DEF ApprovalInv
<1>20. ASSUME NEW c \in Cancels, CancelTracked(c) PROVE ApprovalInv'
  <2>1. LockInv'
    BY <1>20 DEF CancelTracked, Tracked, TypeOK, LockInv, recordVars, foundVars, resultVars,
        cancelVars, histVars, boundVars
  <2>2. AtMostOneWaiting'
    BY <1>20 DEF CancelTracked, Tracked, TypeOK, AtMostOneWaiting, FinishInv, Matching, Waiting,
        recordVars, foundVars, resultVars, cancelVars, histVars, boundVars
  <2>3. FinishInv'
    BY <1>20 DEF CancelTracked, Tracked, TypeOK, FinishInv, LockInv, ChainInv, WaitInv,
        AtMostOneWaiting, Named, Matching, Waiting, recordVars, foundVars, resultVars,
        cancelVars, histVars, boundVars
  <2>4. RunningInv'
    BY <1>20 DEF CancelTracked, Tracked, TypeOK, RunningInv, recordVars, foundVars, resultVars,
        cancelVars, histVars, boundVars
  <2>5. WaitInv'
    BY <1>20 DEF CancelTracked, Tracked, TypeOK, WaitInv, Matching, Waiting, recordVars,
        foundVars, resultVars, cancelVars, histVars, boundVars
  <2>6. FoundInv'
    BY <1>20 DEF CancelTracked, Tracked, TypeOK, FoundInv, WaitInv, Named, Waiting, recordVars,
        foundVars, resultVars, cancelVars, histVars, boundVars
  <2>7. ChainInv'
    BY <1>20 DEF CancelTracked, Tracked, TypeOK, ChainInv, WaitInv, Named, Waiting, recordVars,
        foundVars, resultVars, cancelVars, histVars, boundVars
  <2>8. DeadInv'
    BY <1>20 DEF CancelTracked, Tracked, TypeOK, DeadInv, Doomed, FinishInv, FoundInv, OwnInv,
        LockInv, ChainInv, WaitInv, Named, Matching, Waiting, recordVars, foundVars, resultVars,
        cancelVars, histVars, boundVars
  <2>9. StopInv'
    BY <1>20 DEF CancelTracked, Tracked, TypeOK, StopInv, LockInv, FileOf, Named, recordVars,
        foundVars, resultVars, cancelVars, histVars, boundVars
  <2>10. OwnInv'
    BY <1>20 DEF CancelTracked, Tracked, TypeOK, OwnInv, FoundInv, ChainInv, LockInv, FileOf,
        Named, recordVars, foundVars, resultVars, cancelVars, histVars, boundVars
  <2>11. MoveInv'
    <3> SUFFICES ASSUME NEW s \in Waiting' PROVE InStep(s)'
      BY DEF MoveInv
    <3>1. s \in Waiting
      BY <1>20 DEF CancelTracked, Tracked, Waiting, TypeOK, recordVars, histVars, boundVars
    <3>2. UNCHANGED <<crashes, checkpointID[s], waitsFor[s], FileOf(s)>>
      BY <1>20, <3>1, WaitsAt DEF CancelTracked, Tracked, FileOf, TypeOK, recordVars, foundVars,
          resultVars, cancelVars, histVars, boundVars
    <3>3. \A e \in Decisions : Moving(e) => Moving(e)' /\ UNCHANGED checkpointID[e]
      BY <1>20 DEF CancelTracked, Tracked, Moving, TypeOK, recordVars, foundVars, resultVars,
          cancelVars, histVars, boundVars
    <3> QED
      BY <3>1, <3>2, <3>3, InStepFrame DEF MoveInv, Waiting
  <2> QED
    BY <2>1, <2>2, <2>3, <2>4, <2>5, <2>6, <2>7, <2>8, <2>9, <2>10, <2>11 DEF ApprovalInv
<1>21. ASSUME NEW c \in Cancels, CancelFinds(c) PROVE ApprovalInv'
  <2>1. LockInv'
    BY <1>21 DEF CancelFinds, Tracked, TypeOK, LockInv, recordVars, foundVars, resultVars,
        cancelVars, histVars, boundVars
  <2>2. AtMostOneWaiting'
    BY <1>21 DEF CancelFinds, Tracked, TypeOK, AtMostOneWaiting, FinishInv, Matching, Waiting,
        recordVars, foundVars, resultVars, cancelVars, histVars, boundVars
  <2>3. FinishInv'
    BY <1>21 DEF CancelFinds, Tracked, TypeOK, FinishInv, LockInv, ChainInv, WaitInv,
        AtMostOneWaiting, Named, Matching, Waiting, recordVars, foundVars, resultVars,
        cancelVars, histVars, boundVars
  <2>4. RunningInv'
    BY <1>21 DEF CancelFinds, Tracked, TypeOK, RunningInv, recordVars, foundVars, resultVars,
        cancelVars, histVars, boundVars
  <2>5. WaitInv'
    BY <1>21 DEF CancelFinds, Tracked, TypeOK, WaitInv, Matching, Waiting, recordVars, foundVars,
        resultVars, cancelVars, histVars, boundVars
  <2>6. FoundInv'
    BY <1>21 DEF CancelFinds, Tracked, TypeOK, FoundInv, WaitInv, Named, Waiting, recordVars,
        foundVars, resultVars, cancelVars, histVars, boundVars
  <2>7. ChainInv'
    BY <1>21 DEF CancelFinds, Tracked, TypeOK, ChainInv, WaitInv, Named, Waiting, recordVars,
        foundVars, resultVars, cancelVars, histVars, boundVars
  <2>8. DeadInv'
    BY <1>21 DEF CancelFinds, Tracked, TypeOK, DeadInv, Doomed, FinishInv, FoundInv, OwnInv,
        LockInv, ChainInv, WaitInv, Named, Matching, Waiting, recordVars, foundVars, resultVars,
        cancelVars, histVars, boundVars
  <2>9. StopInv'
    BY <1>21 DEF CancelFinds, Tracked, TypeOK, StopInv, LockInv, FileOf, Named, recordVars,
        foundVars, resultVars, cancelVars, histVars, boundVars
  <2>10. OwnInv'
    BY <1>21 DEF CancelFinds, Tracked, TypeOK, OwnInv, FoundInv, ChainInv, LockInv, FileOf,
        Named, recordVars, foundVars, resultVars, cancelVars, histVars, boundVars
  <2>11. MoveInv'
    <3> SUFFICES ASSUME NEW s \in Waiting' PROVE InStep(s)'
      BY DEF MoveInv
    <3>1. s \in Waiting
      BY <1>21 DEF CancelFinds, Tracked, Waiting, TypeOK, recordVars, histVars, boundVars
    <3>2. UNCHANGED <<crashes, checkpointID[s], waitsFor[s], FileOf(s)>>
      BY <1>21, <3>1, WaitsAt DEF CancelFinds, Tracked, FileOf, TypeOK, recordVars, foundVars,
          resultVars, cancelVars, histVars, boundVars
    <3>3. \A e \in Decisions : Moving(e) => Moving(e)' /\ UNCHANGED checkpointID[e]
      BY <1>21 DEF CancelFinds, Tracked, Moving, TypeOK, recordVars, foundVars, resultVars,
          cancelVars, histVars, boundVars
    <3> QED
      BY <3>1, <3>2, <3>3, InStepFrame DEF MoveInv, Waiting
  <2> QED
    BY <2>1, <2>2, <2>3, <2>4, <2>5, <2>6, <2>7, <2>8, <2>9, <2>10, <2>11 DEF ApprovalInv
<1>22. ASSUME NEW c \in Cancels, CancelRun(c) PROVE ApprovalInv'
  <2>a. /\ Waiting' \subseteq Waiting
        /\ UNCHANGED <<waitsFor, checkpoint, lock, pc, foundVars, resultVars, stopped, ctarget, histVars, boundVars>>
    BY <1>22 DEF CancelRun, Waiting, TypeOK
  <2>1. LockInv'
    BY <1>22 DEF CancelRun, TypeOK, LockInv, recordVars, foundVars, resultVars, cancelVars,
        histVars, boundVars
  <2>2. AtMostOneWaiting'
    BY <2>a DEF AtMostOneWaiting, foundVars
  <2>3. FinishInv'
    BY <2>a DEF FinishInv, foundVars
  <2>4. RunningInv'
    BY <1>22 DEF CancelRun, TypeOK, RunningInv, recordVars, foundVars, resultVars, cancelVars,
        histVars, boundVars
  <2>5. WaitInv'
    BY <1>22 DEF CancelRun, TypeOK, WaitInv, Matching, Waiting, recordVars, foundVars,
        resultVars, cancelVars, histVars, boundVars
  <2>6. FoundInv'
    BY <1>22 DEF CancelRun, TypeOK, FoundInv, WaitInv, Named, Waiting, recordVars, foundVars,
        resultVars, cancelVars, histVars, boundVars
  <2>7. ChainInv'
    BY <1>22 DEF CancelRun, TypeOK, ChainInv, WaitInv, Named, Waiting, recordVars, foundVars,
        resultVars, cancelVars, histVars, boundVars
  <2>8. DeadInv'
    <3>1. CASE UNCHANGED status /\ cpc' = [cpc EXCEPT ![c] = "done"]
      BY <2>a, <3>1 DEF DeadInv, Doomed, TypeOK, foundVars, resultVars
    <3>2. CASE /\ status[ctarget[c]] \in {"running", "waiting"}
               /\ status' = [status EXCEPT ![ctarget[c]] = "cancelled"]
               /\ cpc' = [cpc EXCEPT ![c] = "delete"]
      <4> DEFINE t == ctarget[c]
      <4>1. t \in Runs /\ pc[t] = "done" /\ checkpointID[t] \in Origins
        BY <1>22 DEF CancelRun, FoundInv
      <4>2. t \in Waiting
        BY <3>2, <4>1 DEF RunningInv, Waiting
      <4> HIDE DEF t
      <4>3. ASSUME NEW o \in Origins, Doomed(o)' PROVE Doomed(o) \/ o = checkpointID[t]
        BY <2>a, <3>2, <4>3 DEF Doomed, TypeOK, foundVars, t
      <4>4. ASSUME NEW s \in Runs, checkpointID[s] = checkpointID[t]
            PROVE  status'[s] # "waiting" /\ pc[s] # "finish"
        BY <3>2, <4>1, <4>2, <4>4 DEF AtMostOneWaiting, FinishInv, Waiting, TypeOK, t
      <4>5. \A s \in Runs : status'[s] = "waiting" => status[s] = "waiting"
        BY <2>a DEF Waiting
      <4> QED
        BY <2>a, <4>3, <4>4, <4>5 DEF DeadInv, foundVars, resultVars
    <3> QED
      BY <1>22, <3>1, <3>2 DEF CancelRun
  <2>9. StopInv'
    BY <1>22 DEF CancelRun, TypeOK, StopInv, LockInv, FileOf, Named, recordVars, foundVars,
        resultVars, cancelVars, histVars, boundVars
  <2>10. OwnInv'
    BY <1>22 DEF CancelRun, TypeOK, OwnInv, FoundInv, ChainInv, LockInv, FileOf, Named,
        recordVars, foundVars, resultVars, cancelVars, histVars, boundVars
  <2>11. MoveInv'
    <3> SUFFICES ASSUME NEW s \in Waiting' PROVE InStep(s)'
      BY DEF MoveInv
    <3>1. s \in Waiting
      BY <1>22 DEF CancelRun, Waiting, TypeOK, recordVars, histVars, boundVars
    <3>2. UNCHANGED <<crashes, checkpointID[s], waitsFor[s], FileOf(s)>>
      BY <1>22, <3>1, WaitsAt DEF CancelRun, FileOf, TypeOK, recordVars, foundVars, resultVars,
          cancelVars, histVars, boundVars
    <3>3. \A e \in Decisions : Moving(e) => Moving(e)' /\ UNCHANGED checkpointID[e]
      BY <1>22 DEF CancelRun, Moving, TypeOK, recordVars, foundVars, resultVars, cancelVars,
          histVars, boundVars
    <3> QED
      BY <3>1, <3>2, <3>3, InStepFrame DEF MoveInv, Waiting
  <2> QED
    BY <2>1, <2>2, <2>3, <2>4, <2>5, <2>6, <2>7, <2>8, <2>9, <2>10, <2>11 DEF ApprovalInv
<1>23. ASSUME NEW c \in Cancels, CancelDeletes(c) PROVE ApprovalInv'
  <2>a. /\ ctarget[c] \in Runs /\ checkpointID[ctarget[c]] \in Origins
        /\ Doomed(checkpointID[ctarget[c]])
    BY <1>23, ApprovalAssumption DEF CancelDeletes, FoundInv, ChainInv, Named, Doomed
  <2>b. UNCHANGED <<recordVars, lock, pc, foundVars, resultVars, stopped, ctarget, histVars, boundVars>>
    BY <1>23 DEF CancelDeletes
  <2>1. LockInv'
    BY <1>23 DEF CancelDeletes, TypeOK, LockInv, recordVars, foundVars, resultVars, cancelVars,
        histVars, boundVars
  <2>2. AtMostOneWaiting'
    BY <1>23 DEF CancelDeletes, TypeOK, AtMostOneWaiting, FinishInv, Matching, Waiting,
        recordVars, foundVars, resultVars, cancelVars, histVars, boundVars
  <2>3. FinishInv'
    BY <1>23 DEF CancelDeletes, TypeOK, FinishInv, LockInv, ChainInv, WaitInv, AtMostOneWaiting,
        Named, Matching, Waiting, recordVars, foundVars, resultVars, cancelVars, histVars, boundVars
  <2>4. RunningInv'
    BY <1>23 DEF CancelDeletes, TypeOK, RunningInv, recordVars, foundVars, resultVars,
        cancelVars, histVars, boundVars
  <2>5. WaitInv'
    BY <1>23 DEF CancelDeletes, TypeOK, WaitInv, Matching, Waiting, recordVars, foundVars,
        resultVars, cancelVars, histVars, boundVars
  <2>6. FoundInv'
    BY <1>23 DEF CancelDeletes, TypeOK, FoundInv, WaitInv, Named, Waiting, recordVars, foundVars,
        resultVars, cancelVars, histVars, boundVars
  <2>7. ChainInv'
    BY <1>23 DEF CancelDeletes, TypeOK, ChainInv, WaitInv, Named, Waiting, recordVars, foundVars,
        resultVars, cancelVars, histVars, boundVars
  <2>8. DeadInv'
    <3>1. ASSUME NEW o \in Origins, Doomed(o)' PROVE Doomed(o)
      BY <1>23, <2>a, <2>b, <3>1 DEF CancelDeletes, Doomed, TypeOK, foundVars
    <3> QED
      BY <2>b, <3>1 DEF DeadInv, recordVars, foundVars, resultVars
  <2>9. StopInv'
    BY <1>23 DEF CancelDeletes, TypeOK, StopInv, LockInv, FileOf, Named, recordVars, foundVars,
        resultVars, cancelVars, histVars, boundVars
  <2>10. OwnInv'
    BY <1>23 DEF CancelDeletes, TypeOK, OwnInv, FoundInv, ChainInv, LockInv, FileOf, Named,
        recordVars, foundVars, resultVars, cancelVars, histVars, boundVars
  <2>11. MoveInv'
    <3> SUFFICES ASSUME NEW s \in Waiting' PROVE InStep(s)'
      BY DEF MoveInv
    <3>1. s \in Waiting
      BY <2>b DEF Waiting, recordVars
    <3>2. checkpointID[s] # checkpointID[ctarget[c]]
      BY <2>a, <3>1 DEF DeadInv, Waiting
    <3>3. UNCHANGED <<crashes, checkpointID[s], waitsFor[s], FileOf(s)>>
      BY <1>23, <2>b, <3>1, <3>2, WaitsAt DEF CancelDeletes, FileOf, TypeOK, recordVars,
          foundVars, boundVars
    <3>4. \A e \in Decisions : Moving(e) => Moving(e)' /\ UNCHANGED checkpointID[e]
      BY <2>b DEF Moving, foundVars, resultVars
    <3> QED
      BY <3>1, <3>3, <3>4, InStepFrame DEF MoveInv, Waiting
  <2> QED
    BY <2>1, <2>2, <2>3, <2>4, <2>5, <2>6, <2>7, <2>8, <2>9, <2>10, <2>11 DEF ApprovalInv
<1>24. ASSUME Reset PROVE ApprovalInv'
  <2>1. LockInv'
    BY <1>24 DEF Reset, TypeOK, LockInv, recordVars, foundVars, resultVars, cancelVars, histVars,
        boundVars
  <2>2. AtMostOneWaiting'
    BY <1>24 DEF Reset, TypeOK, AtMostOneWaiting, FinishInv, Matching, Waiting, recordVars,
        foundVars, resultVars, cancelVars, histVars, boundVars
  <2>3. FinishInv'
    BY <1>24 DEF Reset, TypeOK, FinishInv, LockInv, ChainInv, WaitInv, AtMostOneWaiting, Named,
        Matching, Waiting, recordVars, foundVars, resultVars, cancelVars, histVars, boundVars
  <2>4. RunningInv'
    BY <1>24 DEF Reset, TypeOK, RunningInv, recordVars, foundVars, resultVars, cancelVars,
        histVars, boundVars
  <2>5. WaitInv'
    BY <1>24 DEF Reset, TypeOK, WaitInv, Matching, Waiting, recordVars, foundVars, resultVars,
        cancelVars, histVars, boundVars
  <2>6. FoundInv'
    BY <1>24 DEF Reset, TypeOK, FoundInv, WaitInv, Named, Waiting, recordVars, foundVars,
        resultVars, cancelVars, histVars, boundVars
  <2>7. ChainInv'
    BY <1>24 DEF Reset, TypeOK, ChainInv, WaitInv, Named, Waiting, recordVars, foundVars,
        resultVars, cancelVars, histVars, boundVars
  <2>8. DeadInv'
    BY <1>24 DEF Reset, TypeOK, DeadInv, Doomed, FinishInv, FoundInv, OwnInv, LockInv, ChainInv,
        WaitInv, Named, Matching, Waiting, recordVars, foundVars, resultVars, cancelVars,
        histVars, boundVars
  <2>9. StopInv'
    BY <1>24 DEF Reset, TypeOK, StopInv, LockInv, FileOf, Named, recordVars, foundVars,
        resultVars, cancelVars, histVars, boundVars
  <2>10. OwnInv'
    BY <1>24 DEF Reset, TypeOK, OwnInv, FoundInv, ChainInv, LockInv, FileOf, Named, recordVars,
        foundVars, resultVars, cancelVars, histVars, boundVars
  <2>11. MoveInv'
    BY <1>24 DEF Reset, TypeOK, MoveInv, Moving, InStep, LockInv, FinishInv, AtMostOneWaiting,
        StopInv, DeadInv, Doomed, WaitInv, Named, Matching, FileOf, Waiting, recordVars,
        foundVars, resultVars, cancelVars, histVars, boundVars
  <2> QED
    BY <2>1, <2>2, <2>3, <2>4, <2>5, <2>6, <2>7, <2>8, <2>9, <2>10, <2>11 DEF ApprovalInv
<1>25. ASSUME Crash PROVE ApprovalInv'
  <2>1. LockInv'
    BY <1>25 DEF Crash, Dies, TypeOK, LockInv, recordVars, foundVars, resultVars, cancelVars,
        histVars, boundVars
  <2>2. AtMostOneWaiting'
    BY <1>25 DEF Crash, Dies, TypeOK, AtMostOneWaiting, FinishInv, Matching, Waiting, recordVars,
        foundVars, resultVars, cancelVars, histVars, boundVars
  <2>3. FinishInv'
    BY <1>25 DEF Crash, Dies, TypeOK, FinishInv, LockInv, ChainInv, WaitInv, AtMostOneWaiting,
        Named, Matching, Waiting, recordVars, foundVars, resultVars, cancelVars, histVars, boundVars
  <2>4. RunningInv'
    BY <1>25 DEF Crash, Dies, TypeOK, RunningInv, recordVars, foundVars, resultVars, cancelVars,
        histVars, boundVars
  <2>5. WaitInv'
    BY <1>25 DEF Crash, Dies, TypeOK, WaitInv, Matching, Waiting, recordVars, foundVars,
        resultVars, cancelVars, histVars, boundVars
  <2>6. FoundInv'
    BY <1>25 DEF Crash, Dies, TypeOK, FoundInv, WaitInv, Named, Waiting, recordVars, foundVars,
        resultVars, cancelVars, histVars, boundVars
  <2>7. ChainInv'
    BY <1>25 DEF Crash, Dies, TypeOK, ChainInv, WaitInv, Named, Waiting, recordVars, foundVars,
        resultVars, cancelVars, histVars, boundVars
  <2>8. DeadInv'
    BY <1>25 DEF Crash, Dies, TypeOK, DeadInv, Doomed, FinishInv, FoundInv, OwnInv, LockInv,
        ChainInv, WaitInv, Named, Matching, Waiting, recordVars, foundVars, resultVars,
        cancelVars, histVars, boundVars
  <2>9. StopInv'
    BY <1>25 DEF Crash, Dies, TypeOK, StopInv, LockInv, FileOf, Named, recordVars, foundVars,
        resultVars, cancelVars, histVars, boundVars
  <2>10. OwnInv'
    BY <1>25 DEF Crash, Dies, TypeOK, OwnInv, FoundInv, ChainInv, LockInv, FileOf, Named,
        recordVars, foundVars, resultVars, cancelVars, histVars, boundVars
  <2>11. MoveInv'
    BY <1>25 DEF Crash, Dies, TypeOK, MoveInv, Moving, InStep, LockInv, FinishInv,
        AtMostOneWaiting, StopInv, DeadInv, Doomed, WaitInv, Named, Matching, FileOf, Waiting,
        recordVars, foundVars, resultVars, cancelVars, histVars, boundVars
  <2> QED
    BY <2>1, <2>2, <2>3, <2>4, <2>5, <2>6, <2>7, <2>8, <2>9, <2>10, <2>11 DEF ApprovalInv
<1>26. CASE UNCHANGED vars
  BY <1>26 DEF vars, recordVars, foundVars, resultVars, cancelVars, histVars, boundVars, TypeInv,
      TypeOK, ApprovalInv, LockInv, AtMostOneWaiting, FinishInv, RunningInv, WaitInv, FoundInv,
      ChainInv, DeadInv, Doomed, StopInv, OwnInv, MoveInv, Moving, InStep, FileOf, Waiting
<1> QED
  BY <1>1, <1>2, <1>3, <1>4, <1>5, <1>6, <1>7, <1>8, <1>9, <1>10, <1>11, <1>12, <1>13, <1>14,
      <1>15, <1>16, <1>17, <1>18, <1>19, <1>20, <1>21, <1>22, <1>23, <1>24, <1>25,
      <1>26 DEF Next, RunStep, ResumeStep, CancelStep

-----------------------------------------------------------------------------
(* The variables keep their shape; every run on its way has a checkpoint, and   *)
(* run that returned has a result.                                         *)
LEMMA TypesHold == Spec => []TypeInv
<1>1. Init => TypeInv
  <2> SUFFICES ASSUME Init PROVE TypeInv
    OBVIOUS
  <2>1. /\ retries \in 0 .. MaxRetries /\ resets \in 0 .. MaxResets /\ crashes \in 0 .. MaxCrashes
        /\ 0 \in 0 .. Calls /\ Nobody \notin Runs /\ Origins \subseteq Runs
    BY ApprovalAssumption DEF Init, Runs
  <2>2. /\ waitsFor \in [Runs -> 0 .. Calls] /\ stopsAt \in [Runs -> 0 .. Calls]
        /\ checkpoint \in [Origins -> 0 .. Calls] /\ seen \in [Decisions -> 0 .. Calls]
        /\ checkpointID \in [Runs -> Origins \cup {Nobody}]
    BY <2>1 DEF Init
  <2>3. /\ settledBy \in [Origins -> [1 .. Calls -> SUBSET Decisions]]
        /\ executions \in [Origins -> [1 .. Calls -> Nat]]
    BY DEF Init
  <2>4. TypeOK
    BY <2>1, <2>2, <2>3 DEF Init, TypeOK, Settled
  <2>5. Judged /\ Named
    BY <2>1 DEF Init, Judged, Named, Waiting
  <2> QED
    BY <2>4, <2>5 DEF TypeInv
<1> QED
  BY <1>1, TypeInvStep, PTL DEF Spec

(* The variables of an approval keep their shape, whatever decisions,       *)
(* cancellations, resets and crashes come.                                 *)
THEOREM ApprovalTyping == Spec => []TypeOK
<1>1. TypeInv => TypeOK
  BY DEF TypeInv
<1> QED
  BY <1>1, TypesHold, PTL

(* Runs, decisions, cancellations, resets and crashes keep the inductive    *)
(* invariant.                                                              *)
THEOREM ApprovalInvariant == Spec => []ApprovalInv
<1>1. Init => ApprovalInv
  BY ApprovalAssumption
  DEF Init, ApprovalInv, LockInv, AtMostOneWaiting, FinishInv, RunningInv, WaitInv, FoundInv,
      ChainInv, DeadInv, Doomed, StopInv, OwnInv, MoveInv, Waiting, Runs, Decisions
<1> QED
  BY <1>1, ApprovalInvStep, TypesHold, PTL DEF Spec

(* However many runs of the conversation wait, no two of them wait at the   *)
(* same checkpoint: a resumed run that stops again takes the place of the   *)
(* one it resumed, so that a decision which names a checkpoint is about one *)
(* run.                                                                    *)
THEOREM OneWaits == Spec => []AtMostOneWaiting
<1>1. ApprovalInv => AtMostOneWaiting
  BY DEF ApprovalInv
<1> QED
  BY <1>1, ApprovalInvariant, PTL

(* A run that waits for a decision has its checkpoint, however late a       *)
(* cancellation deletes the file: a decision on it can always be resumed.  *)
THEOREM Resumable == Spec => []WaitingIsResumable
<1>1. TypeInv /\ ApprovalInv => WaitingIsResumable
  <2> SUFFICES ASSUME TypeInv, ApprovalInv, NEW r \in Waiting
               PROVE  /\ FileOf(r) # 0
                      /\ crashes = 0 /\ (lock = Nobody \/ checkpointID[lock] # checkpointID[r])
                           => FileOf(r) = waitsFor[r]
    BY DEF WaitingIsResumable
  <2>1. r \in Runs /\ checkpointID[r] \in Origins /\ pc[checkpointID[r]] = "done" /\ status[r] = "waiting"
    BY WaitsAt DEF Waiting
  <2>2. FileOf(r) # 0
    BY <2>1 DEF ApprovalInv, DeadInv, Doomed, FileOf
  <2>3. ASSUME crashes = 0, lock = Nobody \/ checkpointID[lock] # checkpointID[r]
        PROVE  FileOf(r) = waitsFor[r]
    <3>1. ASSUME NEW d \in Decisions, Moving(d) PROVE checkpointID[d] # checkpointID[r]
      <4>1. lock = d /\ d \in Runs /\ Nobody \notin Runs
        BY <3>1, ApprovalAssumption DEF ApprovalInv, LockInv, Moving, Runs
      <4> QED
        BY <2>3, <4>1
    <3> QED
      BY <2>3, <3>1 DEF ApprovalInv, MoveInv, InStep
  <2> QED
    BY <2>2, <2>3
<1> QED
  BY <1>1, TypesHold, ApprovalInvariant, PTL

-----------------------------------------------------------------------------
(* A run has no record before its start and an open one until its end:      *)
(* cancelTask does not touch a record whose run is tracked.                *)
RecordInv ==
  \A r \in Runs :
    /\ pc[r] \in {"idle", "locked", "checked"} => status[r] = "absent"
    /\ pc[r] \in {"queued", "ready", "resumed", "resolve", "finish"} =>
         status[r] \in {"running", "absent"}

StaysFinal == \A r \in Runs : status[r] \in Settled => status'[r] \in {status[r], "absent"}

(* No step writes over a settled record, and each keeps the discipline of   *)
(* the records that makes it so.                                           *)
LEMMA RecordStep ==
  TypeInv /\ ApprovalInv /\ RecordInv /\ [Next]_vars => RecordInv' /\ StaysFinal
<1> SUFFICES ASSUME TypeInv, ApprovalInv, RecordInv, [Next]_vars PROVE RecordInv' /\ StaysFinal
  OBVIOUS
<1>a. Texts \subseteq Decisions /\ Apis \subseteq Decisions /\ Runs = Decisions \cup Origins
  BY DEF Runs, Decisions
<1> USE <1>a DEF TypeInv
<1>1. ASSUME NEW o \in Origins, StartRun(o) PROVE RecordInv' /\ StaysFinal
  BY <1>1 DEF StartRun, TypeOK, RecordInv, StaysFinal, Settled, ApprovalInv, WaitInv, FoundInv,
      Waiting, recordVars, foundVars, resultVars, cancelVars, histVars, boundVars
<1>2. ASSUME NEW o \in Origins, DropRun(o) PROVE RecordInv' /\ StaysFinal
  <2>1. PICK st \in {"cancelled", "failed"} : status' = [status EXCEPT ![o] = st]
    BY <1>2 DEF DropRun
  <2>2. pc[o] = "queued" /\ pc' = [pc EXCEPT ![o] = "done"] /\ status[o] \in {"running", "absent"}
    BY <1>2 DEF DropRun, RecordInv
  <2> QED
    BY <2>1, <2>2 DEF TypeOK, RecordInv, StaysFinal, Settled
<1>3. ASSUME NEW o \in Origins, RunInterrupts(o) PROVE RecordInv' /\ StaysFinal
  BY <1>3 DEF RunInterrupts, Return, TypeOK, RecordInv, StaysFinal, Settled, ApprovalInv,
      WaitInv, FoundInv, Waiting, recordVars, foundVars, resultVars, cancelVars, histVars, boundVars
<1>4. ASSUME NEW o \in Origins, RunEnds(o) PROVE RecordInv' /\ StaysFinal
  BY <1>4 DEF RunEnds, Return, TypeOK, RecordInv, StaysFinal, Settled, ApprovalInv, WaitInv,
      FoundInv, Waiting, recordVars, foundVars, resultVars, cancelVars, histVars, boundVars
<1>5. ASSUME NEW o \in Origins, Judge(o) PROVE RecordInv' /\ StaysFinal
  BY <1>5 DEF Judge, TypeOK, RecordInv, StaysFinal, Settled, ApprovalInv, WaitInv, FoundInv,
      Waiting, recordVars, foundVars, resultVars, cancelVars, histVars, boundVars
<1>6. ASSUME NEW d \in Texts, LockText(d) PROVE RecordInv' /\ StaysFinal
  BY <1>6 DEF LockText, TypeOK, RecordInv, StaysFinal, Settled, ApprovalInv, WaitInv, FoundInv,
      Waiting, recordVars, foundVars, resultVars, cancelVars, histVars, boundVars
<1>7. ASSUME NEW d \in Texts, FindPending(d) PROVE RecordInv' /\ StaysFinal
  BY <1>7 DEF FindPending, Finds, TypeOK, RecordInv, StaysFinal, Settled, ApprovalInv, WaitInv,
      FoundInv, Waiting, recordVars, foundVars, resultVars, cancelVars, histVars, boundVars
<1>8. ASSUME NEW d \in Texts, FindNothing(d) PROVE RecordInv' /\ StaysFinal
  BY <1>8 DEF FindNothing, TypeOK, RecordInv, StaysFinal, Settled, ApprovalInv, WaitInv,
      FoundInv, Waiting, recordVars, foundVars, resultVars, cancelVars, histVars, boundVars
<1>9. ASSUME NEW d \in Apis, CheckApi(d) PROVE RecordInv' /\ StaysFinal
  BY <1>9 DEF CheckApi, Finds, TypeOK, RecordInv, StaysFinal, Settled, ApprovalInv, WaitInv,
      FoundInv, Waiting, recordVars, foundVars, resultVars, cancelVars, histVars, boundVars
<1>10. ASSUME NEW d \in Apis, StartApi(d) PROVE RecordInv' /\ StaysFinal
  BY <1>10 DEF StartApi, TypeOK, RecordInv, StaysFinal, Settled, ApprovalInv, WaitInv, FoundInv,
      Waiting, recordVars, foundVars, resultVars, cancelVars, histVars, boundVars
<1>11. ASSUME NEW d \in Decisions, Resume(d) PROVE RecordInv' /\ StaysFinal
  BY <1>11 DEF Resume, Settle, MarkStale, TypeOK, RecordInv, StaysFinal, Settled, ApprovalInv,
      WaitInv, FoundInv, Waiting, recordVars, foundVars, resultVars, cancelVars, histVars, boundVars
<1>12. ASSUME NEW d \in Decisions, ResumeElsewhere(d) PROVE RecordInv' /\ StaysFinal
  BY <1>12 DEF ResumeElsewhere, Return, MarkStale, TypeOK, RecordInv, StaysFinal, Settled,
      ApprovalInv, WaitInv, FoundInv, Waiting, recordVars, foundVars, resultVars, cancelVars,
      histVars, boundVars
<1>13. ASSUME NEW d \in Decisions, ResumeFails(d) PROVE RecordInv' /\ StaysFinal
  BY <1>13 DEF ResumeFails, Return, TypeOK, RecordInv, StaysFinal, Settled, ApprovalInv, WaitInv,
      FoundInv, Waiting, recordVars, foundVars, resultVars, cancelVars, histVars, boundVars
<1>14. ASSUME NEW d \in Decisions, StartOver(d) PROVE RecordInv' /\ StaysFinal
  BY <1>14 DEF StartOver, Settle, TypeOK, RecordInv, StaysFinal, Settled, ApprovalInv, WaitInv,
      FoundInv, Waiting, recordVars, foundVars, resultVars, cancelVars, histVars, boundVars
<1>15. ASSUME NEW d \in Decisions, Interrupt(d) PROVE RecordInv' /\ StaysFinal
  BY <1>15 DEF Interrupt, Return, TypeOK, RecordInv, StaysFinal, Settled, ApprovalInv, WaitInv,
      FoundInv, Waiting, recordVars, foundVars, resultVars, cancelVars, histVars, boundVars
<1>16. ASSUME NEW d \in Decisions, Complete(d) PROVE RecordInv' /\ StaysFinal
  BY <1>16 DEF Complete, Return, TypeOK, RecordInv, StaysFinal, Settled, ApprovalInv, WaitInv,
      FoundInv, Waiting, recordVars, foundVars, resultVars, cancelVars, histVars, boundVars
<1>17. ASSUME NEW d \in Decisions, Resolve(d) PROVE RecordInv' /\ StaysFinal
  <2>1. CASE UNCHANGED status
    BY <1>17, <2>1 DEF TypeOK, RecordInv, StaysFinal, Settled, Resolve
  <2>2. ASSUME NEW r \in Waiting, status' = [status EXCEPT ![r] = Verdict(d)]
        PROVE  RecordInv' /\ StaysFinal
    <3>1. status[r] = "waiting" /\ r \in Runs /\ pc[r] = "done"
      BY DEF Waiting, ApprovalInv, WaitInv
    <3>2. pc' = [pc EXCEPT ![d] = "finish"] /\ pc[d] = "resolve" /\ r # d
      BY <1>17, <3>1 DEF Resolve
    <3> QED
      BY <2>2, <3>1, <3>2 DEF TypeOK, RecordInv, StaysFinal, Settled
  <2> QED
    BY <1>17, <2>1, <2>2 DEF Resolve, Matching
<1>18. ASSUME NEW r \in Apis \cup Origins, LockQueued(r) PROVE RecordInv' /\ StaysFinal
  BY <1>18 DEF LockQueued, TypeOK, RecordInv, StaysFinal, Settled, ApprovalInv, WaitInv,
      FoundInv, Waiting, recordVars, foundVars, resultVars, cancelVars, histVars, boundVars
<1>19. ASSUME NEW r \in Runs, Finish(r) PROVE RecordInv' /\ StaysFinal
  <2>1. /\ pc[r] = "finish" /\ pc' = [pc EXCEPT ![r] = "done"]
        /\ status' = [status EXCEPT ![r] = outcome[r]]
    BY <1>19 DEF Finish
  <2>2. status[r] \in {"running", "absent"}
    BY <2>1 DEF RecordInv
  <2>3. RecordInv'
    BY <2>1 DEF TypeOK, RecordInv
  <2>4. StaysFinal
    BY <2>1, <2>2 DEF TypeOK, StaysFinal, Settled
  <2> QED
    BY <2>3, <2>4
<1>20. ASSUME NEW c \in Cancels, CancelTracked(c) PROVE RecordInv' /\ StaysFinal
  BY <1>20 DEF CancelTracked, Tracked, TypeOK, RecordInv, StaysFinal, Settled, ApprovalInv,
      WaitInv, FoundInv, Waiting, recordVars, foundVars, resultVars, cancelVars, histVars, boundVars
<1>21. ASSUME NEW c \in Cancels, CancelFinds(c) PROVE RecordInv' /\ StaysFinal
  BY <1>21 DEF CancelFinds, Tracked, TypeOK, RecordInv, StaysFinal, Settled, ApprovalInv,
      WaitInv, FoundInv, Waiting, recordVars, foundVars, resultVars, cancelVars, histVars, boundVars
<1>22. ASSUME NEW c \in Cancels, CancelRun(c) PROVE RecordInv' /\ StaysFinal
  BY <1>22 DEF CancelRun, TypeOK, RecordInv, StaysFinal, Settled, ApprovalInv, WaitInv, FoundInv,
      Waiting, recordVars, foundVars, resultVars, cancelVars, histVars, boundVars
<1>23. ASSUME NEW c \in Cancels, CancelDeletes(c) PROVE RecordInv' /\ StaysFinal
  BY <1>23 DEF CancelDeletes, TypeOK, RecordInv, StaysFinal, Settled, ApprovalInv, WaitInv,
      FoundInv, Waiting, recordVars, foundVars, resultVars, cancelVars, histVars, boundVars
<1>24. ASSUME Reset PROVE RecordInv' /\ StaysFinal
  BY <1>24 DEF Reset, TypeOK, RecordInv, StaysFinal, Settled, ApprovalInv, WaitInv, FoundInv,
      Waiting, recordVars, foundVars, resultVars, cancelVars, histVars, boundVars
<1>25. ASSUME Crash PROVE RecordInv' /\ StaysFinal
  BY <1>25 DEF Crash, Dies, TypeOK, RecordInv, StaysFinal, Settled, ApprovalInv, WaitInv,
      FoundInv, Waiting, recordVars, foundVars, resultVars, cancelVars, histVars, boundVars
<1>26. CASE UNCHANGED vars
  BY <1>26 DEF vars, recordVars, foundVars, resultVars, cancelVars, histVars, boundVars,
      RecordInv, StaysFinal, Settled
<1> QED
  BY <1>1, <1>2, <1>3, <1>4, <1>5, <1>6, <1>7, <1>8, <1>9, <1>10, <1>11, <1>12, <1>13, <1>14,
      <1>15, <1>16, <1>17, <1>18, <1>19, <1>20, <1>21, <1>22, <1>23, <1>24, <1>25,
      <1>26 DEF Next, RunStep, ResumeStep, CancelStep


(* What is recorded of a run is final, except that a reset drops it.        *)
THEOREM OutcomesStay == Spec => OutcomesAreFinal
<1>1. Init => RecordInv
  BY DEF Init, RecordInv
<1>2. TypeInv /\ ApprovalInv /\ RecordInv /\ [Next]_vars => [StaysFinal]_vars
  BY RecordStep
<1>3. TypeInv /\ ApprovalInv /\ RecordInv /\ [Next]_vars => RecordInv'
  BY RecordStep
<1>4. Spec => [][StaysFinal]_vars
  BY <1>1, <1>2, <1>3, TypesHold, ApprovalInvariant, PTL DEF Spec
<1> QED
  BY <1>4 DEF OutcomesAreFinal, StaysFinal

-----------------------------------------------------------------------------
(* How often a call has been settled.                                      *)
Settlements(o, k) == Cardinality(settledBy[o][k])

(* A decision on its way remembers the call its waiting run is for, and a   *)
(* run that was found waiting has ended.                                   *)
Saw(d) ==
  /\ from[d] \in Runs => pc[from[d]] = "done" /\ checkpointID[from[d]] = checkpointID[d]
  /\ pc[d] \in {"checked", "queued", "ready", "resumed"} =>
       /\ from[d] \in Runs
       /\ seen[d] >= 1
       /\ status[from[d]] = "waiting" => waitsFor[from[d]] = seen[d]

SeenInv == \A d \in Decisions : Saw(d)

(* A run that waits, or is about to, waits for a call.                      *)
GatedInv ==
  /\ \A r \in Waiting : waitsFor[r] >= 1
  /\ \A r \in Runs :
       pc[r] \in {"resolve", "finish"} /\ outcome[r] = "waiting" => stopsAt[r] >= 1

(* A message holds the lock since it looked: no other run waits at the      *)
(* checkpoint but the one it found.                                        *)
TextInv ==
  \A d \in Texts : pc[d] = "ready" =>
    \A r \in Waiting : checkpointID[r] = checkpointID[d] => r = from[d]

(* Each call is settled once, and once more for every crash.                *)
OnceInv(o) == \A k \in 1 .. Calls : Settlements(o, k) <= 1 + crashes

(* The call a run waits for may still be settled, unless the decision that  *)
(* settled it is about to resolve that run.                                *)
OpenInv(o) ==
  \A r \in Waiting : checkpointID[r] = o =>
    \/ Settlements(o, waitsFor[r]) <= crashes
    \/ \E d \in Decisions : /\ pc[d] \in {"resumed", "resolve"} /\ checkpointID[d] = o
                            /\ d \in settledBy[o][waitsFor[r]]

TextOpenInv(o) ==
  \A d \in Texts : pc[d] = "ready" /\ checkpointID[d] = o => Settlements(o, seen[d]) <= crashes

ResumedInv(o) ==
  \A d \in Decisions : pc[d] = "resumed" /\ checkpointID[d] = o => d \in settledBy[o][seen[d]]

(* Calls are settled in order: none beyond the checkpoint, none beyond the  *)
(* one that a resumed run is at.                                           *)
OrderInv(o) ==
  \A k \in 1 .. Calls : settledBy[o][k] # {} =>
    /\ checkpoint[o] # 0 => k <= checkpoint[o]
    /\ \A d \in Decisions : pc[d] = "resumed" /\ checkpointID[d] = o => k <= seen[d]

(* Where the checkpoint is not at the call of the waiting run, it is at one *)
(* that nobody settled.                                                    *)
AheadInv(o) ==
  \A r \in Waiting : checkpointID[r] = o /\ checkpoint[o] \notin {0, waitsFor[r]} =>
    settledBy[o][checkpoint[o]] = {}

TextAheadInv(o) ==
  \A d \in Texts : pc[d] = "ready" /\ checkpointID[d] = o /\ checkpoint[o] \notin {0, seen[d]} =>
    settledBy[o][checkpoint[o]] = {}

(* A run that was interrupted will wait for a call nobody settled.          *)
NextInv(o) ==
  \A r \in Runs : pc[r] \in {"resolve",
  "finish"} /\ outcome[r] = "waiting" /\ checkpointID[r] = o =>
    settledBy[o][stopsAt[r]] = {}

(* No decision is about an ordinary run before it has ended.               *)
FreshInv(o) == pc[o] # "done" => \A k \in 1 .. Calls : settledBy[o][k] = {}

SettleInv(o) ==
  /\ OnceInv(o) /\ OpenInv(o) /\ TextOpenInv(o) /\ ResumedInv(o) /\ OrderInv(o)
  /\ AheadInv(o) /\ TextAheadInv(o) /\ NextInv(o) /\ FreshInv(o)

DecisionInv == SeenInv /\ TextInv /\ GatedInv /\ \A o \in Origins \ stale : SettleInv(o)

-----------------------------------------------------------------------------
(* What a decision saw stays true of a step that starts no wait, ends no     *)
(* ended run again and brings no decision on its way.                      *)
LEMMA SeenFrame ==
  ASSUME TypeOK, SeenInv, UNCHANGED <<checkpointID, from, seen>>,
         \A r \in Runs : pc[r] = "done" =>
           /\ pc'[r] = "done"
           /\ status'[r] = "waiting" => status[r] = "waiting" /\ waitsFor'[r] = waitsFor[r],
         \A d \in Decisions :
           pc'[d] \in {"checked", "queued", "ready", "resumed"} =>
             pc[d] \in {"checked", "queued", "ready", "resumed"}
  PROVE  SeenInv'
BY DEF SeenInv, Saw

(* Every step keeps what decisions on their way saw, and that runs wait for *)
(* a call.                                                                 *)
LEMMA SeenStep ==
  TypeInv /\ ApprovalInv /\ SeenInv /\ TextInv /\ GatedInv /\ [Next]_vars =>
    SeenInv' /\ TextInv' /\ GatedInv'
<1> SUFFICES ASSUME TypeInv, ApprovalInv, SeenInv, TextInv, GatedInv, [Next]_vars
             PROVE  SeenInv' /\ TextInv' /\ GatedInv'
  OBVIOUS
<1>a. Texts \subseteq Decisions /\ Apis \subseteq Decisions /\ Runs = Decisions \cup Origins
  BY DEF Runs, Decisions
<1>b. Nobody \notin Runs /\ Origins \cap Decisions = {} /\ Texts \cap Apis = {}
  BY ApprovalAssumption
<1> USE <1>a, <1>b DEF TypeInv, ApprovalInv
<1>1. ASSUME NEW o \in Origins, StartRun(o) PROVE SeenInv' /\ TextInv' /\ GatedInv'
  <2>1. SeenInv'
    <3>1. UNCHANGED <<checkpointID, from, seen>>
      BY <1>1 DEF StartRun, foundVars
    <3>2. \A s \in Runs : pc[s] = "done" =>
            /\ pc'[s] = "done"
            /\ status'[s] = "waiting" => status[s] = "waiting" /\ waitsFor'[s] = waitsFor[s]
      BY <1>1 DEF StartRun, Matching, Waiting, TypeOK, recordVars, foundVars, resultVars,
          cancelVars, histVars, boundVars
    <3>3. \A e \in Decisions :
            pc'[e] \in {"checked", "queued", "ready", "resumed"} =>
              pc[e] \in {"checked", "queued", "ready", "resumed"}
      BY <1>1 DEF StartRun, TypeOK, recordVars, foundVars, resultVars, cancelVars, histVars,
          boundVars
    <3> QED
      BY <3>1, <3>2, <3>3, SeenFrame
  <2>2. TextInv'
    BY <1>1 DEF StartRun, TypeOK, TextInv, LockInv, Matching, Waiting, recordVars, foundVars,
        resultVars, cancelVars, histVars, boundVars
  <2>9. GatedInv'
    BY <1>1 DEF StartRun, TypeOK, GatedInv, SeenInv, LockInv, FileOf, Matching, Waiting,
        recordVars, foundVars, resultVars, cancelVars, histVars, boundVars
  <2> QED
    BY <2>1, <2>2, <2>9
<1>2. ASSUME NEW o \in Origins, DropRun(o) PROVE SeenInv' /\ TextInv' /\ GatedInv'
  <2>1. SeenInv'
    <3>1. UNCHANGED <<checkpointID, from, seen>>
      BY <1>2 DEF DropRun, foundVars
    <3>2. \A s \in Runs : pc[s] = "done" =>
            /\ pc'[s] = "done"
            /\ status'[s] = "waiting" => status[s] = "waiting" /\ waitsFor'[s] = waitsFor[s]
      BY <1>2 DEF DropRun, Matching, Waiting, TypeOK, recordVars, foundVars, resultVars,
          cancelVars, histVars, boundVars
    <3>3. \A e \in Decisions :
            pc'[e] \in {"checked", "queued", "ready", "resumed"} =>
              pc[e] \in {"checked", "queued", "ready", "resumed"}
      BY <1>2 DEF DropRun, TypeOK, recordVars, foundVars, resultVars, cancelVars, histVars,
          boundVars
    <3> QED
      BY <3>1, <3>2, <3>3, SeenFrame
  <2>2. TextInv'
    BY <1>2 DEF DropRun, TypeOK, TextInv, LockInv, Matching, Waiting, recordVars, foundVars,
        resultVars, cancelVars, histVars, boundVars
  <2>9. GatedInv'
    BY <1>2 DEF DropRun, TypeOK, GatedInv, SeenInv, LockInv, FileOf, Matching, Waiting,
        recordVars, foundVars, resultVars, cancelVars, histVars, boundVars
  <2> QED
    BY <2>1, <2>2, <2>9
<1>3. ASSUME NEW o \in Origins, RunInterrupts(o) PROVE SeenInv' /\ TextInv' /\ GatedInv'
  <2>1. SeenInv'
    <3>1. UNCHANGED <<checkpointID, from, seen>>
      BY <1>3 DEF RunInterrupts, Return, foundVars
    <3>2. \A s \in Runs : pc[s] = "done" =>
            /\ pc'[s] = "done"
            /\ status'[s] = "waiting" => status[s] = "waiting" /\ waitsFor'[s] = waitsFor[s]
      BY <1>3 DEF RunInterrupts, Return, Matching, Waiting, TypeOK, recordVars, foundVars,
          resultVars, cancelVars, histVars, boundVars
    <3>3. \A e \in Decisions :
            pc'[e] \in {"checked", "queued", "ready", "resumed"} =>
              pc[e] \in {"checked", "queued", "ready", "resumed"}
      BY <1>3 DEF RunInterrupts, Return, TypeOK, recordVars, foundVars, resultVars, cancelVars,
          histVars, boundVars
    <3> QED
      BY <3>1, <3>2, <3>3, SeenFrame
  <2>2. TextInv'
    BY <1>3 DEF RunInterrupts, Return, TypeOK, TextInv, LockInv, Matching, Waiting, recordVars,
        foundVars, resultVars, cancelVars, histVars, boundVars
  <2>9. GatedInv'
    BY <1>3 DEF RunInterrupts, Return, TypeOK, GatedInv, SeenInv, LockInv, FileOf, Matching,
        Waiting, recordVars, foundVars, resultVars, cancelVars, histVars, boundVars
  <2> QED
    BY <2>1, <2>2, <2>9
<1>4. ASSUME NEW o \in Origins, RunEnds(o) PROVE SeenInv' /\ TextInv' /\ GatedInv'
  <2>1. SeenInv'
    <3>1. UNCHANGED <<checkpointID, from, seen>>
      BY <1>4 DEF RunEnds, Return, foundVars
    <3>2. \A s \in Runs : pc[s] = "done" =>
            /\ pc'[s] = "done"
            /\ status'[s] = "waiting" => status[s] = "waiting" /\ waitsFor'[s] = waitsFor[s]
      BY <1>4 DEF RunEnds, Return, Matching, Waiting, TypeOK, recordVars, foundVars, resultVars,
          cancelVars, histVars, boundVars
    <3>3. \A e \in Decisions :
            pc'[e] \in {"checked", "queued", "ready", "resumed"} =>
              pc[e] \in {"checked", "queued", "ready", "resumed"}
      BY <1>4 DEF RunEnds, Return, TypeOK, recordVars, foundVars, resultVars, cancelVars,
          histVars, boundVars
    <3> QED
      BY <3>1, <3>2, <3>3, SeenFrame
  <2>2. TextInv'
    BY <1>4 DEF RunEnds, Return, TypeOK, TextInv, LockInv, Matching, Waiting, recordVars,
        foundVars, resultVars, cancelVars, histVars, boundVars
  <2>9. GatedInv'
    BY <1>4 DEF RunEnds, Return, TypeOK, GatedInv, SeenInv, LockInv, FileOf, Matching, Waiting,
        recordVars, foundVars, resultVars, cancelVars, histVars, boundVars
  <2> QED
    BY <2>1, <2>2, <2>9
<1>5. ASSUME NEW o \in Origins, Judge(o) PROVE SeenInv' /\ TextInv' /\ GatedInv'
  <2>1. SeenInv'
    <3>1. UNCHANGED <<checkpointID, from, seen>>
      BY <1>5 DEF Judge, foundVars
    <3>2. \A s \in Runs : pc[s] = "done" =>
            /\ pc'[s] = "done"
            /\ status'[s] = "waiting" => status[s] = "waiting" /\ waitsFor'[s] = waitsFor[s]
      BY <1>5 DEF Judge, Matching, Waiting, TypeOK, recordVars, foundVars, resultVars,
          cancelVars, histVars, boundVars
    <3>3. \A e \in Decisions :
            pc'[e] \in {"checked", "queued", "ready", "resumed"} =>
              pc[e] \in {"checked", "queued", "ready", "resumed"}
      BY <1>5 DEF Judge, TypeOK, recordVars, foundVars, resultVars, cancelVars, histVars, boundVars
    <3> QED
      BY <3>1, <3>2, <3>3, SeenFrame
  <2>2. TextInv'
    BY <1>5 DEF Judge, TypeOK, TextInv, LockInv, Matching, Waiting, recordVars, foundVars,
        resultVars, cancelVars, histVars, boundVars
  <2>9. GatedInv'
    BY <1>5 DEF Judge, TypeOK, GatedInv, SeenInv, LockInv, FileOf, Matching, Waiting, recordVars,
        foundVars, resultVars, cancelVars, histVars, boundVars
  <2> QED
    BY <2>1, <2>2, <2>9
<1>6. ASSUME NEW d \in Texts, LockText(d) PROVE SeenInv' /\ TextInv' /\ GatedInv'
  <2>1. SeenInv'
    <3>1. UNCHANGED <<checkpointID, from, seen>>
      BY <1>6 DEF LockText, foundVars
    <3>2. \A s \in Runs : pc[s] = "done" =>
            /\ pc'[s] = "done"
            /\ status'[s] = "waiting" => status[s] = "waiting" /\ waitsFor'[s] = waitsFor[s]
      BY <1>6 DEF LockText, Matching, Waiting, TypeOK, recordVars, foundVars, resultVars,
          cancelVars, histVars, boundVars
    <3>3. \A e \in Decisions :
            pc'[e] \in {"checked", "queued", "ready", "resumed"} =>
              pc[e] \in {"checked", "queued", "ready", "resumed"}
      BY <1>6 DEF LockText, TypeOK, recordVars, foundVars, resultVars, cancelVars, histVars,
          boundVars
    <3> QED
      BY <3>1, <3>2, <3>3, SeenFrame
  <2>2. TextInv'
    BY <1>6 DEF LockText, TypeOK, TextInv, LockInv, Matching, Waiting, recordVars, foundVars,
        resultVars, cancelVars, histVars, boundVars
  <2>9. GatedInv'
    BY <1>6 DEF LockText, TypeOK, GatedInv, SeenInv, LockInv, FileOf, Matching, Waiting,
        recordVars, foundVars, resultVars, cancelVars, histVars, boundVars
  <2> QED
    BY <2>1, <2>2, <2>9
<1>7. ASSUME NEW d \in Texts, FindPending(d) PROVE SeenInv' /\ TextInv' /\ GatedInv'
  <2>1. SeenInv'
    <3>0. PICK r \in Waiting : Finds(d, r)
      BY <1>7 DEF FindPending
    <3>1. /\ pc[d] = "locked" /\ pc' = [pc EXCEPT ![d] = "ready"]
          /\ status' = [status EXCEPT ![d] = "running"] /\ waitsFor' = waitsFor
      BY <1>7 DEF FindPending, recordVars
    <3>2. /\ r \in Runs /\ status[r] = "waiting" /\ waitsFor[r] >= 1 /\ pc[r] = "done"
          /\ r # d
      BY <3>1 DEF Waiting, GatedInv, WaitInv
    <3>3. ASSUME NEW e \in Decisions PROVE Saw(e)'
      <4>1. CASE e = d
        BY <4>1, <3>0, <3>1, <3>2 DEF Finds, Saw, TypeOK
      <4>2. CASE e # d
        <5>1. /\ from'[e] = from[e] /\ seen'[e] = seen[e] /\ pc'[e] = pc[e]
              /\ checkpointID'[e] = checkpointID[e] /\ Saw(e)
          BY <4>2, <3>0, <3>1 DEF Finds, TypeOK, SeenInv
        <5>2. from[e] \in Runs => from[e] # d
          BY <5>1, <3>1 DEF Saw
        <5>3. from[e] \in Runs =>
                /\ checkpointID'[from[e]] = checkpointID[from[e]] /\ pc'[from[e]] = pc[from[e]]
                /\ status'[from[e]] = status[from[e]] /\ waitsFor'[from[e]] = waitsFor[from[e]]
          BY <5>2, <3>0, <3>1 DEF Finds, TypeOK
        <5> QED
          BY <5>1, <5>3 DEF Saw
      <4> QED
        BY <4>1, <4>2
    <3> QED
      BY <3>3 DEF SeenInv
  <2>2. TextInv'
    <3>0. PICK r \in Waiting : Finds(d, r)
      BY <1>7 DEF FindPending
    <3>1. Waiting' \subseteq Waiting /\ d \notin Waiting /\ pc[d] = "locked"
      BY <1>7 DEF FindPending, WaitInv, Waiting, TypeOK
    <3>2. \A s \in Waiting : checkpointID'[s] = checkpointID[s]
      BY <3>0, <3>1 DEF Finds, Waiting, TypeOK
    <3>3. \A e \in Texts : pc'[e] = "ready" => e = d
      BY <1>7, <3>1 DEF FindPending, LockInv, TypeOK
    <3>4. checkpointID'[d] = checkpointID[r] /\ from'[d] = r
      BY <3>0 DEF Finds, TypeOK
    <3> QED
      BY <3>1, <3>2, <3>3, <3>4 DEF TextInv, AtMostOneWaiting
  <2>9. GatedInv'
    BY <1>7 DEF FindPending, Finds, TypeOK, GatedInv, SeenInv, LockInv, FileOf, Matching,
        Waiting, recordVars, foundVars, resultVars, cancelVars, histVars, boundVars
  <2> QED
    BY <2>1, <2>2, <2>9
<1>8. ASSUME NEW d \in Texts, FindNothing(d) PROVE SeenInv' /\ TextInv' /\ GatedInv'
  <2>1. SeenInv'
    <3>1. UNCHANGED <<checkpointID, from, seen>>
      BY <1>8 DEF FindNothing, foundVars
    <3>2. \A s \in Runs : pc[s] = "done" =>
            /\ pc'[s] = "done"
            /\ status'[s] = "waiting" => status[s] = "waiting" /\ waitsFor'[s] = waitsFor[s]
      BY <1>8 DEF FindNothing, Matching, Waiting, TypeOK, recordVars, foundVars, resultVars,
          cancelVars, histVars, boundVars
    <3>3. \A e \in Decisions :
            pc'[e] \in {"checked", "queued", "ready", "resumed"} =>
              pc[e] \in {"checked", "queued", "ready", "resumed"}
      BY <1>8 DEF FindNothing, TypeOK, recordVars, foundVars, resultVars, cancelVars, histVars,
          boundVars
    <3> QED
      BY <3>1, <3>2, <3>3, SeenFrame
  <2>2. TextInv'
    BY <1>8 DEF FindNothing, TypeOK, TextInv, LockInv, Matching, Waiting, recordVars, foundVars,
        resultVars, cancelVars, histVars, boundVars
  <2>9. GatedInv'
    BY <1>8 DEF FindNothing, TypeOK, GatedInv, SeenInv, LockInv, FileOf, Matching, Waiting,
        recordVars, foundVars, resultVars, cancelVars, histVars, boundVars
  <2> QED
    BY <2>1, <2>2, <2>9
<1>9. ASSUME NEW d \in Apis, CheckApi(d) PROVE SeenInv' /\ TextInv' /\ GatedInv'
  <2>1. SeenInv'
    <3>0. PICK r \in Waiting : Finds(d, r)
      BY <1>9 DEF CheckApi
    <3>1. /\ pc[d] = "idle" /\ pc' = [pc EXCEPT ![d] = "checked"]
          /\ status' = status /\ waitsFor' = waitsFor
      BY <1>9 DEF CheckApi, recordVars
    <3>2. /\ r \in Runs /\ status[r] = "waiting" /\ waitsFor[r] >= 1 /\ pc[r] = "done"
          /\ r # d
      BY <3>1 DEF Waiting, GatedInv, WaitInv
    <3>3. ASSUME NEW e \in Decisions PROVE Saw(e)'
      <4>1. CASE e = d
        BY <4>1, <3>0, <3>1, <3>2 DEF Finds, Saw, TypeOK
      <4>2. CASE e # d
        <5>1. /\ from'[e] = from[e] /\ seen'[e] = seen[e] /\ pc'[e] = pc[e]
              /\ checkpointID'[e] = checkpointID[e] /\ Saw(e)
          BY <4>2, <3>0, <3>1 DEF Finds, TypeOK, SeenInv
        <5>2. from[e] \in Runs => from[e] # d
          BY <5>1, <3>1 DEF Saw
        <5>3. from[e] \in Runs =>
                /\ checkpointID'[from[e]] = checkpointID[from[e]] /\ pc'[from[e]] = pc[from[e]]
                /\ status'[from[e]] = status[from[e]] /\ waitsFor'[from[e]] = waitsFor[from[e]]
          BY <5>2, <3>0, <3>1 DEF Finds, TypeOK
        <5> QED
          BY <5>1, <5>3 DEF Saw
      <4> QED
        BY <4>1, <4>2
    <3> QED
      BY <3>3 DEF SeenInv
  <2>2. TextInv'
    <3>0. PICK r \in Waiting : Finds(d, r)
      BY <1>9 DEF CheckApi
    <3>1. Waiting' = Waiting /\ d \notin Waiting /\ d \notin Texts
      BY <1>9, ApprovalAssumption DEF CheckApi, WaitInv, Waiting, recordVars
    <3>2. \A s \in Waiting \cup Texts : checkpointID'[s] = checkpointID[s]
      BY <3>0, <3>1 DEF Finds, Waiting, TypeOK
    <3>3. \A e \in Texts : pc'[e] = pc[e] /\ from'[e] = from[e]
      BY <1>9, <3>0, <3>1 DEF CheckApi, Finds, TypeOK
    <3> QED
      BY <3>1, <3>2, <3>3 DEF TextInv
  <2>9. GatedInv'
    BY <1>9 DEF CheckApi, Finds, TypeOK, GatedInv, SeenInv, LockInv, FileOf, Matching, Waiting,
        recordVars, foundVars, resultVars, cancelVars, histVars, boundVars
  <2> QED
    BY <2>1, <2>2, <2>9
<1>10. ASSUME NEW d \in Apis, StartApi(d) PROVE SeenInv' /\ TextInv' /\ GatedInv'
  <2>1. SeenInv'
    <3>1. UNCHANGED <<checkpointID, from, seen>>
      BY <1>10 DEF StartApi, foundVars
    <3>2. \A s \in Runs : pc[s] = "done" =>
            /\ pc'[s] = "done"
            /\ status'[s] = "waiting" => status[s] = "waiting" /\ waitsFor'[s] = waitsFor[s]
      BY <1>10 DEF StartApi, Matching, Waiting, TypeOK, recordVars, foundVars, resultVars,
          cancelVars, histVars, boundVars
    <3>3. \A e \in Decisions :
            pc'[e] \in {"checked", "queued", "ready", "resumed"} =>
              pc[e] \in {"checked", "queued", "ready", "resumed"}
      BY <1>10 DEF StartApi, TypeOK, recordVars, foundVars, resultVars, cancelVars, histVars,
          boundVars
    <3> QED
      BY <3>1, <3>2, <3>3, SeenFrame
  <2>2. TextInv'
    BY <1>10 DEF StartApi, TypeOK, TextInv, LockInv, Matching, Waiting, recordVars, foundVars,
        resultVars, cancelVars, histVars, boundVars
  <2>9. GatedInv'
    BY <1>10 DEF StartApi, TypeOK, GatedInv, SeenInv, LockInv, FileOf, Matching, Waiting,
        recordVars, foundVars, resultVars, cancelVars, histVars, boundVars
  <2> QED
    BY <2>1, <2>2, <2>9
<1>11. ASSUME NEW d \in Decisions, Resume(d) PROVE SeenInv' /\ TextInv' /\ GatedInv'
  <2>1. SeenInv'
    <3>1. UNCHANGED <<checkpointID, from, seen>>
      BY <1>11 DEF Resume, Settle, MarkStale, foundVars
    <3>2. \A s \in Runs : pc[s] = "done" =>
            /\ pc'[s] = "done"
            /\ status'[s] = "waiting" => status[s] = "waiting" /\ waitsFor'[s] = waitsFor[s]
      BY <1>11 DEF Resume, Settle, MarkStale, Matching, Waiting, TypeOK, recordVars, foundVars,
          resultVars, cancelVars, histVars, boundVars
    <3>3. \A e \in Decisions :
            pc'[e] \in {"checked", "queued", "ready", "resumed"} =>
              pc[e] \in {"checked", "queued", "ready", "resumed"}
      BY <1>11 DEF Resume, Settle, MarkStale, TypeOK, recordVars, foundVars, resultVars,
          cancelVars, histVars, boundVars
    <3> QED
      BY <3>1, <3>2, <3>3, SeenFrame
  <2>2. TextInv'
    BY <1>11 DEF Resume, Settle, MarkStale, TypeOK, TextInv, LockInv, Matching, Waiting,
        recordVars, foundVars, resultVars, cancelVars, histVars, boundVars
  <2>9. GatedInv'
    BY <1>11 DEF Resume, Settle, MarkStale, TypeOK, GatedInv, SeenInv, LockInv, FileOf, Matching,
        Waiting, recordVars, foundVars, resultVars, cancelVars, histVars, boundVars
  <2> QED
    BY <2>1, <2>2, <2>9
<1>12. ASSUME NEW d \in Decisions, ResumeElsewhere(d) PROVE SeenInv' /\ TextInv' /\ GatedInv'
  <2>1. SeenInv'
    <3>1. UNCHANGED <<checkpointID, from, seen>>
      BY <1>12 DEF ResumeElsewhere, Return, MarkStale, foundVars
    <3>2. \A s \in Runs : pc[s] = "done" =>
            /\ pc'[s] = "done"
            /\ status'[s] = "waiting" => status[s] = "waiting" /\ waitsFor'[s] = waitsFor[s]
      BY <1>12 DEF ResumeElsewhere, Return, MarkStale, Matching, Waiting, TypeOK, recordVars,
          foundVars, resultVars, cancelVars, histVars, boundVars
    <3>3. \A e \in Decisions :
            pc'[e] \in {"checked", "queued", "ready", "resumed"} =>
              pc[e] \in {"checked", "queued", "ready", "resumed"}
      BY <1>12 DEF ResumeElsewhere, Return, MarkStale, TypeOK, recordVars, foundVars, resultVars,
          cancelVars, histVars, boundVars
    <3> QED
      BY <3>1, <3>2, <3>3, SeenFrame
  <2>2. TextInv'
    BY <1>12 DEF ResumeElsewhere, Return, MarkStale, TypeOK, TextInv, LockInv, Matching, Waiting,
        recordVars, foundVars, resultVars, cancelVars, histVars, boundVars
  <2>9. GatedInv'
    <3>1. /\ pc[d] = "ready" /\ pc' = [pc EXCEPT ![d] = "resolve"]
          /\ stopsAt' = [stopsAt EXCEPT ![d] = FileOf(d)] /\ FileOf(d) # 0
          /\ UNCHANGED <<status, waitsFor>>
      BY <1>12 DEF ResumeElsewhere, Return, recordVars
    <3>2. \A e \in Runs : pc'[e] \in {"resolve", "finish"} => e = d
      BY <3>1 DEF TypeOK, LockInv
    <3>3. stopsAt'[d] = FileOf(d) /\ FileOf(d) \in 0 .. Calls
      BY <3>1 DEF TypeOK, Named, FileOf
    <3> QED
      BY <3>1, <3>2, <3>3 DEF GatedInv, Waiting
  <2> QED
    BY <2>1, <2>2, <2>9
<1>13. ASSUME NEW d \in Decisions, ResumeFails(d) PROVE SeenInv' /\ TextInv' /\ GatedInv'
  <2>1. SeenInv'
    <3>1. UNCHANGED <<checkpointID, from, seen>>
      BY <1>13 DEF ResumeFails, Return, foundVars
    <3>2. \A s \in Runs : pc[s] = "done" =>
            /\ pc'[s] = "done"
            /\ status'[s] = "waiting" => status[s] = "waiting" /\ waitsFor'[s] = waitsFor[s]
      BY <1>13 DEF ResumeFails, Return, Matching, Waiting, TypeOK, recordVars, foundVars,
          resultVars, cancelVars, histVars, boundVars
    <3>3. \A e \in Decisions :
            pc'[e] \in {"checked", "queued", "ready", "resumed"} =>
              pc[e] \in {"checked", "queued", "ready", "resumed"}
      BY <1>13 DEF ResumeFails, Return, TypeOK, recordVars, foundVars, resultVars, cancelVars,
          histVars, boundVars
    <3> QED
      BY <3>1, <3>2, <3>3, SeenFrame
  <2>2. TextInv'
    BY <1>13 DEF ResumeFails, Return, TypeOK, TextInv, LockInv, Matching, Waiting, recordVars,
        foundVars, resultVars, cancelVars, histVars, boundVars
  <2>9. GatedInv'
    BY <1>13 DEF ResumeFails, Return, TypeOK, GatedInv, SeenInv, LockInv, FileOf, Matching,
        Waiting, recordVars, foundVars, resultVars, cancelVars, histVars, boundVars
  <2> QED
    BY <2>1, <2>2, <2>9
<1>14. ASSUME NEW d \in Decisions, StartOver(d) PROVE SeenInv' /\ TextInv' /\ GatedInv'
  <2>1. SeenInv'
    <3>1. UNCHANGED <<checkpointID, from, seen>>
      BY <1>14 DEF StartOver, Settle, foundVars
    <3>2. \A s \in Runs : pc[s] = "done" =>
            /\ pc'[s] = "done"
            /\ status'[s] = "waiting" => status[s] = "waiting" /\ waitsFor'[s] = waitsFor[s]
      BY <1>14 DEF StartOver, Settle, Matching, Waiting, TypeOK, recordVars, foundVars,
          resultVars, cancelVars, histVars, boundVars
    <3>3. \A e \in Decisions :
            pc'[e] \in {"checked", "queued", "ready", "resumed"} =>
              pc[e] \in {"checked", "queued", "ready", "resumed"}
      BY <1>14 DEF StartOver, Settle, TypeOK, recordVars, foundVars, resultVars, cancelVars,
          histVars, boundVars
    <3> QED
      BY <3>1, <3>2, <3>3, SeenFrame
  <2>2. TextInv'
    BY <1>14 DEF StartOver, Settle, TypeOK, TextInv, LockInv, Matching, Waiting, recordVars,
        foundVars, resultVars, cancelVars, histVars, boundVars
  <2>9. GatedInv'
    BY <1>14 DEF StartOver, Settle, TypeOK, GatedInv, SeenInv, LockInv, FileOf, Matching,
        Waiting, recordVars, foundVars, resultVars, cancelVars, histVars, boundVars
  <2> QED
    BY <2>1, <2>2, <2>9
<1>15. ASSUME NEW d \in Decisions, Interrupt(d) PROVE SeenInv' /\ TextInv' /\ GatedInv'
  <2>1. SeenInv'
    <3>1. UNCHANGED <<checkpointID, from, seen>>
      BY <1>15 DEF Interrupt, Return, foundVars
    <3>2. \A s \in Runs : pc[s] = "done" =>
            /\ pc'[s] = "done"
            /\ status'[s] = "waiting" => status[s] = "waiting" /\ waitsFor'[s] = waitsFor[s]
      BY <1>15 DEF Interrupt, Return, Matching, Waiting, TypeOK, recordVars, foundVars,
          resultVars, cancelVars, histVars, boundVars
    <3>3. \A e \in Decisions :
            pc'[e] \in {"checked", "queued", "ready", "resumed"} =>
              pc[e] \in {"checked", "queued", "ready", "resumed"}
      BY <1>15 DEF Interrupt, Return, TypeOK, recordVars, foundVars, resultVars, cancelVars,
          histVars, boundVars
    <3> QED
      BY <3>1, <3>2, <3>3, SeenFrame
  <2>2. TextInv'
    BY <1>15 DEF Interrupt, Return, TypeOK, TextInv, LockInv, Matching, Waiting, recordVars,
        foundVars, resultVars, cancelVars, histVars, boundVars
  <2>9. GatedInv'
    <3>1. /\ pc[d] = "resumed" /\ pc' = [pc EXCEPT ![d] = "resolve"]
          /\ stopsAt' = [stopsAt EXCEPT ![d] = seen[d] + 1]
          /\ UNCHANGED <<status, waitsFor>>
      BY <1>15 DEF Interrupt, Return, recordVars
    <3>2. \A e \in Runs : pc'[e] \in {"resolve", "finish"} => e = d
      BY <3>1 DEF TypeOK, LockInv
    <3>3. stopsAt'[d] = seen[d] + 1 /\ seen[d] + 1 >= 1
      BY <3>1 DEF TypeOK
    <3> QED
      BY <3>1, <3>2, <3>3 DEF GatedInv, Waiting
  <2> QED
    BY <2>1, <2>2, <2>9
<1>16. ASSUME NEW d \in Decisions, Complete(d) PROVE SeenInv' /\ TextInv' /\ GatedInv'
  <2>1. SeenInv'
    <3>1. UNCHANGED <<checkpointID, from, seen>>
      BY <1>16 DEF Complete, Return, foundVars
    <3>2. \A s \in Runs : pc[s] = "done" =>
            /\ pc'[s] = "done"
            /\ status'[s] = "waiting" => status[s] = "waiting" /\ waitsFor'[s] = waitsFor[s]
      BY <1>16 DEF Complete, Return, Matching, Waiting, TypeOK, recordVars, foundVars,
          resultVars, cancelVars, histVars, boundVars
    <3>3. \A e \in Decisions :
            pc'[e] \in {"checked", "queued", "ready", "resumed"} =>
              pc[e] \in {"checked", "queued", "ready", "resumed"}
      BY <1>16 DEF Complete, Return, TypeOK, recordVars, foundVars, resultVars, cancelVars,
          histVars, boundVars
    <3> QED
      BY <3>1, <3>2, <3>3, SeenFrame
  <2>2. TextInv'
    BY <1>16 DEF Complete, Return, TypeOK, TextInv, LockInv, Matching, Waiting, recordVars,
        foundVars, resultVars, cancelVars, histVars, boundVars
  <2>9. GatedInv'
    BY <1>16 DEF Complete, Return, TypeOK, GatedInv, SeenInv, LockInv, FileOf, Matching, Waiting,
        recordVars, foundVars, resultVars, cancelVars, histVars, boundVars
  <2> QED
    BY <2>1, <2>2, <2>9
<1>17. ASSUME NEW d \in Decisions, Resolve(d) PROVE SeenInv' /\ TextInv' /\ GatedInv'
  <2>1. SeenInv'
    <3>1. UNCHANGED <<checkpointID, from, seen>>
      BY <1>17 DEF Resolve, Verdict, foundVars
    <3>2. \A s \in Runs : pc[s] = "done" =>
            /\ pc'[s] = "done"
            /\ status'[s] = "waiting" => status[s] = "waiting" /\ waitsFor'[s] = waitsFor[s]
      BY <1>17 DEF Resolve, Verdict, Matching, Waiting, TypeOK, recordVars, foundVars,
          resultVars, cancelVars, histVars, boundVars
    <3>3. \A e \in Decisions :
            pc'[e] \in {"checked", "queued", "ready", "resumed"} =>
              pc[e] \in {"checked", "queued", "ready", "resumed"}
      BY <1>17 DEF Resolve, Verdict, TypeOK, recordVars, foundVars, resultVars, cancelVars,
          histVars, boundVars
    <3> QED
      BY <3>1, <3>2, <3>3, SeenFrame
  <2>2. TextInv'
    BY <1>17 DEF Resolve, Verdict, TypeOK, TextInv, LockInv, Matching, Waiting, recordVars,
        foundVars, resultVars, cancelVars, histVars, boundVars
  <2>9. GatedInv'
    <3>1. /\ pc[d] = "resolve" /\ pc' = [pc EXCEPT ![d] = "finish"]
          /\ UNCHANGED <<waitsFor, stopsAt>> /\ Waiting' \subseteq Waiting
      BY <1>17 DEF Resolve, Verdict, Waiting, TypeOK
    <3>2. \A e \in Runs : outcome'[e] = "waiting" => outcome[e] = "waiting"
      BY <1>17 DEF TypeOK, Resolve
    <3>3. \A e \in Runs : pc'[e] \in {"resolve", "finish"} => pc[e] \in {"resolve", "finish"}
      BY <3>1 DEF TypeOK
    <3> QED
      BY <3>1, <3>2, <3>3 DEF GatedInv
  <2> QED
    BY <2>1, <2>2, <2>9
<1>18. ASSUME NEW r \in Apis \cup Origins, LockQueued(r) PROVE SeenInv' /\ TextInv' /\ GatedInv'
  <2>1. SeenInv'
    <3>1. UNCHANGED <<checkpointID, from, seen>>
      BY <1>18 DEF LockQueued, foundVars
    <3>2. \A s \in Runs : pc[s] = "done" =>
            /\ pc'[s] = "done"
            /\ status'[s] = "waiting" => status[s] = "waiting" /\ waitsFor'[s] = waitsFor[s]
      BY <1>18 DEF LockQueued, Matching, Waiting, TypeOK, recordVars, foundVars, resultVars,
          cancelVars, histVars, boundVars
    <3>3. \A e \in Decisions :
            pc'[e] \in {"checked", "queued", "ready", "resumed"} =>
              pc[e] \in {"checked", "queued", "ready", "resumed"}
      BY <1>18 DEF LockQueued, TypeOK, recordVars, foundVars, resultVars, cancelVars, histVars,
          boundVars
    <3> QED
      BY <3>1, <3>2, <3>3, SeenFrame
  <2>2. TextInv'
    BY <1>18 DEF LockQueued, TypeOK, TextInv, LockInv, Matching, Waiting, recordVars, foundVars,
        resultVars, cancelVars, histVars, boundVars
  <2>9. GatedInv'
    BY <1>18 DEF LockQueued, TypeOK, GatedInv, SeenInv, LockInv, FileOf, Matching, Waiting,
        recordVars, foundVars, resultVars, cancelVars, histVars, boundVars
  <2> QED
    BY <2>1, <2>2, <2>9
<1>19. ASSUME NEW r \in Runs, Finish(r) PROVE SeenInv' /\ TextInv' /\ GatedInv'
  <2>1. SeenInv'
    <3>1. UNCHANGED <<checkpointID, from, seen>>
      BY <1>19 DEF Finish, foundVars
    <3>2. \A s \in Runs : pc[s] = "done" =>
            /\ pc'[s] = "done"
            /\ status'[s] = "waiting" => status[s] = "waiting" /\ waitsFor'[s] = waitsFor[s]
      BY <1>19 DEF Finish, Matching, Waiting, TypeOK, recordVars, foundVars, resultVars,
          cancelVars, histVars, boundVars
    <3>3. \A e \in Decisions :
            pc'[e] \in {"checked", "queued", "ready", "resumed"} =>
              pc[e] \in {"checked", "queued", "ready", "resumed"}
      BY <1>19 DEF Finish, TypeOK, recordVars, foundVars, resultVars, cancelVars, histVars,
          boundVars
    <3> QED
      BY <3>1, <3>2, <3>3, SeenFrame
  <2>2. TextInv'
    BY <1>19 DEF Finish, TypeOK, TextInv, LockInv, Matching, Waiting, recordVars, foundVars,
        resultVars, cancelVars, histVars, boundVars
  <2>9. GatedInv'
    BY <1>19 DEF Finish, TypeOK, GatedInv, SeenInv, LockInv, FileOf, Matching, Waiting,
        recordVars, foundVars, resultVars, cancelVars, histVars, boundVars
  <2> QED
    BY <2>1, <2>2, <2>9
<1>20. ASSUME NEW c \in Cancels, CancelTracked(c) PROVE SeenInv' /\ TextInv' /\ GatedInv'
  <2>1. SeenInv'
    <3>1. UNCHANGED <<checkpointID, from, seen>>
      BY <1>20 DEF CancelTracked, Tracked, foundVars
    <3>2. \A s \in Runs : pc[s] = "done" =>
            /\ pc'[s] = "done"
            /\ status'[s] = "waiting" => status[s] = "waiting" /\ waitsFor'[s] = waitsFor[s]
      BY <1>20 DEF CancelTracked, Tracked, Matching, Waiting, TypeOK, recordVars, foundVars,
          resultVars, cancelVars, histVars, boundVars
    <3>3. \A e \in Decisions :
            pc'[e] \in {"checked", "queued", "ready", "resumed"} =>
              pc[e] \in {"checked", "queued", "ready", "resumed"}
      BY <1>20 DEF CancelTracked, Tracked, TypeOK, recordVars, foundVars, resultVars, cancelVars,
          histVars, boundVars
    <3> QED
      BY <3>1, <3>2, <3>3, SeenFrame
  <2>2. TextInv'
    BY <1>20 DEF CancelTracked, Tracked, TypeOK, TextInv, LockInv, Matching, Waiting, recordVars,
        foundVars, resultVars, cancelVars, histVars, boundVars
  <2>9. GatedInv'
    BY <1>20 DEF CancelTracked, Tracked, TypeOK, GatedInv, SeenInv, LockInv, FileOf, Matching,
        Waiting, recordVars, foundVars, resultVars, cancelVars, histVars, boundVars
  <2> QED
    BY <2>1, <2>2, <2>9
<1>21. ASSUME NEW c \in Cancels, CancelFinds(c) PROVE SeenInv' /\ TextInv' /\ GatedInv'
  <2>1. SeenInv'
    <3>1. UNCHANGED <<checkpointID, from, seen>>
      BY <1>21 DEF CancelFinds, Tracked, foundVars
    <3>2. \A s \in Runs : pc[s] = "done" =>
            /\ pc'[s] = "done"
            /\ status'[s] = "waiting" => status[s] = "waiting" /\ waitsFor'[s] = waitsFor[s]
      BY <1>21 DEF CancelFinds, Tracked, Matching, Waiting, TypeOK, recordVars, foundVars,
          resultVars, cancelVars, histVars, boundVars
    <3>3. \A e \in Decisions :
            pc'[e] \in {"checked", "queued", "ready", "resumed"} =>
              pc[e] \in {"checked", "queued", "ready", "resumed"}
      BY <1>21 DEF CancelFinds, Tracked, TypeOK, recordVars, foundVars, resultVars, cancelVars,
          histVars, boundVars
    <3> QED
      BY <3>1, <3>2, <3>3, SeenFrame
  <2>2. TextInv'
    BY <1>21 DEF CancelFinds, Tracked, TypeOK, TextInv, LockInv, Matching, Waiting, recordVars,
        foundVars, resultVars, cancelVars, histVars, boundVars
  <2>9. GatedInv'
    BY <1>21 DEF CancelFinds, Tracked, TypeOK, GatedInv, SeenInv, LockInv, FileOf, Matching,
        Waiting, recordVars, foundVars, resultVars, cancelVars, histVars, boundVars
  <2> QED
    BY <2>1, <2>2, <2>9
<1>22. ASSUME NEW c \in Cancels, CancelRun(c) PROVE SeenInv' /\ TextInv' /\ GatedInv'
  <2>1. SeenInv'
    <3>1. UNCHANGED <<checkpointID, from, seen>>
      BY <1>22 DEF CancelRun, foundVars
    <3>2. \A s \in Runs : pc[s] = "done" =>
            /\ pc'[s] = "done"
            /\ status'[s] = "waiting" => status[s] = "waiting" /\ waitsFor'[s] = waitsFor[s]
      BY <1>22 DEF CancelRun, Matching, Waiting, TypeOK, recordVars, foundVars, resultVars,
          cancelVars, histVars, boundVars
    <3>3. \A e \in Decisions :
            pc'[e] \in {"checked", "queued", "ready", "resumed"} =>
              pc[e] \in {"checked", "queued", "ready", "resumed"}
      BY <1>22 DEF CancelRun, TypeOK, recordVars, foundVars, resultVars, cancelVars, histVars,
          boundVars
    <3> QED
      BY <3>1, <3>2, <3>3, SeenFrame
  <2>2. TextInv'
    <3>1. Waiting' \subseteq Waiting /\ UNCHANGED <<pc, checkpointID, from>>
      BY <1>22 DEF CancelRun, Waiting, TypeOK, foundVars
    <3> QED
      BY <3>1 DEF TextInv
  <2>9. GatedInv'
    BY <1>22 DEF CancelRun, TypeOK, GatedInv, SeenInv, LockInv, FileOf, Matching, Waiting,
        recordVars, foundVars, resultVars, cancelVars, histVars, boundVars
  <2> QED
    BY <2>1, <2>2, <2>9
<1>23. ASSUME NEW c \in Cancels, CancelDeletes(c) PROVE SeenInv' /\ TextInv' /\ GatedInv'
  <2>1. SeenInv'
    <3>1. UNCHANGED <<checkpointID, from, seen>>
      BY <1>23 DEF CancelDeletes, foundVars
    <3>2. \A s \in Runs : pc[s] = "done" =>
            /\ pc'[s] = "done"
            /\ status'[s] = "waiting" => status[s] = "waiting" /\ waitsFor'[s] = waitsFor[s]
      BY <1>23 DEF CancelDeletes, Matching, Waiting, TypeOK, recordVars, foundVars, resultVars,
          cancelVars, histVars, boundVars
    <3>3. \A e \in Decisions :
            pc'[e] \in {"checked", "queued", "ready", "resumed"} =>
              pc[e] \in {"checked", "queued", "ready", "resumed"}
      BY <1>23 DEF CancelDeletes, TypeOK, recordVars, foundVars, resultVars, cancelVars,
          histVars, boundVars
    <3> QED
      BY <3>1, <3>2, <3>3, SeenFrame
  <2>2. TextInv'
    BY <1>23 DEF CancelDeletes, TypeOK, TextInv, LockInv, Matching, Waiting, recordVars,
        foundVars, resultVars, cancelVars, histVars, boundVars
  <2>9. GatedInv'
    BY <1>23 DEF CancelDeletes, TypeOK, GatedInv, SeenInv, LockInv, FileOf, Matching, Waiting,
        recordVars, foundVars, resultVars, cancelVars, histVars, boundVars
  <2> QED
    BY <2>1, <2>2, <2>9
<1>24. ASSUME Reset PROVE SeenInv' /\ TextInv' /\ GatedInv'
  <2>1. SeenInv'
    <3>1. UNCHANGED <<checkpointID, from, seen>>
      BY <1>24 DEF Reset, foundVars
    <3>2. \A s \in Runs : pc[s] = "done" =>
            /\ pc'[s] = "done"
            /\ status'[s] = "waiting" => status[s] = "waiting" /\ waitsFor'[s] = waitsFor[s]
      BY <1>24 DEF Reset, Matching, Waiting, TypeOK, recordVars, foundVars, resultVars,
          cancelVars, histVars, boundVars
    <3>3. \A e \in Decisions :
            pc'[e] \in {"checked", "queued", "ready", "resumed"} =>
              pc[e] \in {"checked", "queued", "ready", "resumed"}
      BY <1>24 DEF Reset, TypeOK, recordVars, foundVars, resultVars, cancelVars, histVars, boundVars
    <3> QED
      BY <3>1, <3>2, <3>3, SeenFrame
  <2>2. TextInv'
    BY <1>24 DEF Reset, TypeOK, TextInv, LockInv, Matching, Waiting, recordVars, foundVars,
        resultVars, cancelVars, histVars, boundVars
  <2>9. GatedInv'
    BY <1>24 DEF Reset, TypeOK, GatedInv, SeenInv, LockInv, FileOf, Matching, Waiting,
        recordVars, foundVars, resultVars, cancelVars, histVars, boundVars
  <2> QED
    BY <2>1, <2>2, <2>9
<1>25. ASSUME Crash PROVE SeenInv' /\ TextInv' /\ GatedInv'
  <2>1. SeenInv'
    <3>1. UNCHANGED <<checkpointID, from, seen>>
      BY <1>25 DEF Crash, Dies, foundVars
    <3>2. \A s \in Runs : pc[s] = "done" =>
            /\ pc'[s] = "done"
            /\ status'[s] = "waiting" => status[s] = "waiting" /\ waitsFor'[s] = waitsFor[s]
      BY <1>25 DEF Crash, Dies, Matching, Waiting, TypeOK, recordVars, foundVars, resultVars,
          cancelVars, histVars, boundVars
    <3>3. \A e \in Decisions :
            pc'[e] \in {"checked", "queued", "ready", "resumed"} =>
              pc[e] \in {"checked", "queued", "ready", "resumed"}
      BY <1>25 DEF Crash, Dies, TypeOK, recordVars, foundVars, resultVars, cancelVars, histVars,
          boundVars
    <3> QED
      BY <3>1, <3>2, <3>3, SeenFrame
  <2>2. TextInv'
    BY <1>25 DEF Crash, Dies, TypeOK, TextInv, LockInv, Matching, Waiting, recordVars, foundVars,
        resultVars, cancelVars, histVars, boundVars
  <2>9. GatedInv'
    BY <1>25 DEF Crash, Dies, TypeOK, GatedInv, SeenInv, LockInv, FileOf, Matching, Waiting,
        recordVars, foundVars, resultVars, cancelVars, histVars, boundVars
  <2> QED
    BY <2>1, <2>2, <2>9
<1>26. CASE UNCHANGED vars
  BY <1>26 DEF vars, recordVars, foundVars, resultVars, cancelVars, histVars, boundVars, SeenInv,
      Saw, TextInv, GatedInv, Waiting
<1> QED
  BY <1>1, <1>2, <1>3, <1>4, <1>5, <1>6, <1>7, <1>8, <1>9, <1>10, <1>11, <1>12, <1>13, <1>14,
      <1>15, <1>16, <1>17, <1>18, <1>19, <1>20, <1>21, <1>22, <1>23, <1>24, <1>25,
      <1>26 DEF Next, RunStep, ResumeStep, CancelStep

-----------------------------------------------------------------------------
(* Settlements are counted in naturals: decisions are finitely many.        *)
LEMMA CountsAreNat ==
  ASSUME TypeOK, NEW q \in Origins, NEW k \in 1 .. Calls
  PROVE  IsFiniteSet(settledBy[q][k]) /\ Settlements(q, k) \in Nat
<1>1. settledBy[q][k] \subseteq Decisions
  BY DEF TypeOK
<1>2. IsFiniteSet(settledBy[q][k])
  BY <1>1, ApprovalAssumption, FS_Subset
<1> QED
  BY <1>2, FS_CardinalityType DEF Settlements

(* Settling a call adds at most one settlement, and to that call.           *)
LEMMA SettleCounts ==
  ASSUME TypeOK, NEW d \in Decisions, Settle(d), NEW q \in Origins, NEW k \in 1 .. Calls
  PROVE  /\ settledBy'[q][k] = IF q = checkpointID[d] /\ k = seen[d]
                               THEN settledBy[q][k] \cup {d} ELSE settledBy[q][k]
         /\ Cardinality(settledBy'[q][k]) \in Nat
         /\ Cardinality(settledBy'[q][k]) <= Cardinality(settledBy[q][k]) + 1
<1>1. settledBy'[q][k] = IF q = checkpointID[d] /\ k = seen[d]
                         THEN settledBy[q][k] \cup {d} ELSE settledBy[q][k]
  <2>1. settledBy[q] \in [1 .. Calls -> SUBSET Decisions]
    BY DEF TypeOK
  <2>2. CASE q # checkpointID[d]
    BY <2>2 DEF TypeOK, Settle
  <2>3. CASE q = checkpointID[d]
    <3>1. settledBy'[q] = [settledBy[q] EXCEPT ![seen[d]] = @ \cup {d}]
      BY <2>3 DEF TypeOK, Settle
    <3> QED
      BY <2>1, <2>3, <3>1
  <2> QED
    BY <2>2, <2>3
<1>2. IsFiniteSet(settledBy[q][k]) /\ Cardinality(settledBy[q][k]) \in Nat
  BY CountsAreNat DEF Settlements
<1>3. /\ IsFiniteSet(settledBy[q][k] \cup {d})
      /\ Cardinality(settledBy[q][k] \cup {d})
           = IF d \in settledBy[q][k] THEN Cardinality(settledBy[q][k])
             ELSE Cardinality(settledBy[q][k]) + 1
  BY <1>2, FS_AddElement
<1> QED
  BY <1>1, <1>2, <1>3

(* A step that settles nothing at checkpoint q and does not move it.        *)
Quiet(q) ==
  /\ settledBy'[q] = settledBy[q] /\ checkpoint'[q] \in {0, checkpoint[q]} /\ crashes' = crashes
  /\ pc[q] = "done" => pc'[q] = "done"

(* It lets no run begin to wait at q, lets none be resumed there, and takes *)
(* no resumed run away while one waits.                                    *)
StillWaits(q) ==
  \A r \in Waiting' : checkpointID'[r] = q =>
    r \in Waiting /\ checkpointID[r] = q /\ waitsFor'[r] = waitsFor[r]

StillResumed(q) ==
  /\ \A d \in Decisions : pc'[d] = "resumed" /\ checkpointID'[d] = q =>
       pc[d] = "resumed" /\ checkpointID[d] = q /\ seen'[d] = seen[d]
  /\ \A r \in Waiting', d \in Decisions :
       /\ checkpointID'[r] = q
       /\ pc[d] \in {"resumed", "resolve"} /\ checkpointID[d] = q
       => pc'[d] \in {"resumed", "resolve"} /\ checkpointID'[d] = q

(* It lets no message find a run that waits at q.                          *)
StillReady(q) ==
  \A d \in Texts : pc'[d] = "ready" /\ checkpointID'[d] = q =>
    pc[d] = "ready" /\ checkpointID[d] = q /\ seen'[d] = seen[d]

(* It interrupts no run at q.                                              *)
StillStops(q) ==
  \A r \in Runs : pc'[r] \in {"resolve",
  "finish"} /\ outcome'[r] = "waiting" /\ checkpointID'[r] = q =>
    /\ pc[r] \in {"resolve", "finish"} /\ outcome[r] = "waiting" /\ checkpointID[r] = q
    /\ stopsAt'[r] = stopsAt[r]

(* What is settled at q stays in order under such steps.                    *)
LEMMA SettleFrame ==
  ASSUME NEW q \in Origins, SettleInv(q), Quiet(q), StillWaits(q), StillResumed(q)
  PROVE  /\ OnceInv(q)' /\ OpenInv(q)' /\ ResumedInv(q)' /\ OrderInv(q)' /\ AheadInv(q)'
         /\ FreshInv(q)'
<1>1. OnceInv(q)' /\ ResumedInv(q)' /\ OrderInv(q)' /\ FreshInv(q)'
  BY DEF SettleInv, OnceInv, ResumedInv, OrderInv, FreshInv, Settlements, Quiet, StillResumed
<1>2. AheadInv(q)'
  BY DEF SettleInv, AheadInv, Quiet, StillWaits
<1>3. OpenInv(q)'
  BY DEF SettleInv, OpenInv, Settlements, Quiet, StillWaits, StillResumed
<1> QED
  BY <1>1, <1>2, <1>3

LEMMA ReadyFrame ==
  ASSUME NEW q \in Origins, SettleInv(q), Quiet(q), StillReady(q)
  PROVE  TextOpenInv(q)' /\ TextAheadInv(q)'
BY DEF SettleInv, TextOpenInv, TextAheadInv, Settlements, Quiet, StillReady

LEMMA StopsFrame ==
  ASSUME NEW q \in Origins, SettleInv(q), Quiet(q), StillStops(q)
  PROVE  NextInv(q)'
BY DEF SettleInv, NextInv, Quiet, StillStops

LEMMA QuietStep ==
  ASSUME NEW q \in Origins, SettleInv(q), Quiet(q), StillWaits(q), StillResumed(q), StillReady(q),
         StillStops(q)
  PROVE  SettleInv(q)'
BY SettleFrame, ReadyFrame, StopsFrame DEF SettleInv

(* Unless an API decision resumed it though its run did not wait, every     *)
(* step keeps the order in which the calls of a checkpoint are settled and  *)
(* how often each is.                                                      *)
LEMMA SettleStep ==
  ASSUME TypeInv, ApprovalInv, SeenInv, TextInv, GatedInv, [Next]_vars,
         NEW q \in Origins, SettleInv(q), q \notin stale'
  PROVE  SettleInv(q)'
<1>a. Texts \subseteq Decisions /\ Apis \subseteq Decisions /\ Runs = Decisions \cup Origins
  BY DEF Runs, Decisions
<1>b. Nobody \notin Runs /\ Origins \cap Decisions = {} /\ Texts \cap Apis = {}
  BY ApprovalAssumption
<1>c. Calls \in Nat \ {0} /\ crashes \in Nat
  BY ApprovalAssumption DEF TypeInv, TypeOK
<1> USE <1>a, <1>b, <1>c DEF TypeInv, ApprovalInv
<1>1. ASSUME NEW o \in Origins, StartRun(o) PROVE SettleInv(q)'
  <2>1. Quiet(q)
    BY <1>1 DEF StartRun, Quiet, TypeOK, Named, recordVars, foundVars, resultVars, cancelVars,
        histVars, boundVars
  <2>2. StillWaits(q)
    BY <1>1 DEF StartRun, StillWaits, TypeOK, WaitInv, FinishInv, LockInv, Matching, Waiting,
        Verdict, recordVars, foundVars, resultVars, cancelVars, histVars, boundVars
  <2>3. StillResumed(q)
    BY <1>1 DEF StartRun, StillResumed, TypeOK, LockInv, Matching, Waiting, AtMostOneWaiting,
        Verdict, recordVars, foundVars, resultVars, cancelVars, histVars, boundVars
  <2>4. StillReady(q)
    BY <1>1 DEF StartRun, StillReady, TypeOK, LockInv, recordVars, foundVars, resultVars,
        cancelVars, histVars, boundVars
  <2>5. StillStops(q)
    BY <1>1 DEF StartRun, StillStops, TypeOK, LockInv, Named, recordVars, foundVars, resultVars,
        cancelVars, histVars, boundVars
  <2> QED
    BY <2>1, <2>2, <2>3, <2>4, <2>5, QuietStep
<1>2. ASSUME NEW o \in Origins, DropRun(o) PROVE SettleInv(q)'
  <2>1. Quiet(q)
    BY <1>2 DEF DropRun, Quiet, TypeOK, Named, recordVars, foundVars, resultVars, cancelVars,
        histVars, boundVars
  <2>2. StillWaits(q)
    BY <1>2 DEF DropRun, StillWaits, TypeOK, WaitInv, FinishInv, LockInv, Matching, Waiting,
        Verdict, recordVars, foundVars, resultVars, cancelVars, histVars, boundVars
  <2>3. StillResumed(q)
    BY <1>2 DEF DropRun, StillResumed, TypeOK, LockInv, Matching, Waiting, AtMostOneWaiting,
        Verdict, recordVars, foundVars, resultVars, cancelVars, histVars, boundVars
  <2>4. StillReady(q)
    BY <1>2 DEF DropRun, StillReady, TypeOK, LockInv, recordVars, foundVars, resultVars,
        cancelVars, histVars, boundVars
  <2>5. StillStops(q)
    BY <1>2 DEF DropRun, StillStops, TypeOK, LockInv, Named, recordVars, foundVars, resultVars,
        cancelVars, histVars, boundVars
  <2> QED
    BY <2>1, <2>2, <2>3, <2>4, <2>5, QuietStep
<1>3. ASSUME NEW o \in Origins, RunInterrupts(o) PROVE SettleInv(q)'
  <2>1. CASE o # q
    <3>1. Quiet(q)
      BY <1>3, <2>1 DEF RunInterrupts, Return, Quiet, TypeOK, Named, recordVars, foundVars,
          resultVars, cancelVars, histVars, boundVars
    <3>2. StillWaits(q)
      BY <1>3, <2>1 DEF RunInterrupts, Return, StillWaits, TypeOK, WaitInv, FinishInv, LockInv,
          Matching, Waiting, Verdict, recordVars, foundVars, resultVars, cancelVars, histVars,
          boundVars
    <3>3. StillResumed(q)
      BY <1>3, <2>1 DEF RunInterrupts, Return, StillResumed, TypeOK, LockInv, Matching, Waiting,
          AtMostOneWaiting, Verdict, recordVars, foundVars, resultVars, cancelVars, histVars,
          boundVars
    <3>4. StillReady(q)
      BY <1>3, <2>1 DEF RunInterrupts, Return, StillReady, TypeOK, LockInv, recordVars,
          foundVars, resultVars, cancelVars, histVars, boundVars
    <3>5. StillStops(q)
      BY <1>3, <2>1 DEF RunInterrupts, Return, StillStops, TypeOK, LockInv, Named, recordVars,
          foundVars, resultVars, cancelVars, histVars, boundVars
    <3> QED
      BY <3>1, <3>2, <3>3, <3>4, <3>5, QuietStep
  <2>2. CASE o = q
    <3>a. /\ pc[q] = "ready" /\ pc' = [pc EXCEPT ![q] = "resolve"]
          /\ stopsAt' = [stopsAt EXCEPT ![q] = 1]
          /\ UNCHANGED <<status, waitsFor, checkpointID, seen, settledBy, crashes>>
      BY <1>3, <2>2 DEF RunInterrupts, Return, recordVars, foundVars, histVars, boundVars
    <3>b. \A k \in 1 .. Calls : settledBy'[q][k] = {}
      BY <3>a DEF SettleInv, FreshInv
    <3>c. \A d \in Decisions : checkpointID'[d] # q
      BY <3>a DEF ChainInv
    <3>d. \A r \in Runs : checkpointID'[r] = q => r = q
      BY <3>a, <3>c DEF Named
    <3>e. \A r \in Waiting' : checkpointID'[r] # q
      BY <3>a, <3>d DEF Waiting, WaitInv
    <3>f. stopsAt'[q] = 1 /\ 1 \in 1 .. Calls
      BY <3>a DEF TypeOK
    <3>1. OnceInv(q)' /\ FreshInv(q)'
      BY <3>a, <3>b DEF SettleInv, OnceInv, FreshInv, Settlements
    <3>2. OpenInv(q)' /\ AheadInv(q)'
      BY <3>e DEF OpenInv, AheadInv
    <3>3. TextOpenInv(q)' /\ TextAheadInv(q)' /\ ResumedInv(q)'
      BY <3>c DEF TextOpenInv, TextAheadInv, ResumedInv
    <3>4. OrderInv(q)'
      BY <3>b DEF OrderInv
    <3>5. NextInv(q)'
      BY <3>b, <3>d, <3>f DEF NextInv
    <3> QED
      BY <3>1, <3>2, <3>3, <3>4, <3>5 DEF SettleInv
  <2> QED
    BY <2>1, <2>2
<1>4. ASSUME NEW o \in Origins, RunEnds(o) PROVE SettleInv(q)'
  <2>1. Quiet(q)
    BY <1>4 DEF RunEnds, Return, Quiet, TypeOK, Named, recordVars, foundVars, resultVars,
        cancelVars, histVars, boundVars
  <2>2. StillWaits(q)
    BY <1>4 DEF RunEnds, Return, StillWaits, TypeOK, WaitInv, FinishInv, LockInv, Matching,
        Waiting, Verdict, recordVars, foundVars, resultVars, cancelVars, histVars, boundVars
  <2>3. StillResumed(q)
    BY <1>4 DEF RunEnds, Return, StillResumed, TypeOK, LockInv, Matching, Waiting,
        AtMostOneWaiting, Verdict, recordVars, foundVars, resultVars, cancelVars, histVars,
        boundVars
  <2>4. StillReady(q)
    BY <1>4 DEF RunEnds, Return, StillReady, TypeOK, LockInv, recordVars, foundVars, resultVars,
        cancelVars, histVars, boundVars
  <2>5. StillStops(q)
    BY <1>4 DEF RunEnds, Return, StillStops, TypeOK, LockInv, Named, recordVars, foundVars,
        resultVars, cancelVars, histVars, boundVars
  <2> QED
    BY <2>1, <2>2, <2>3, <2>4, <2>5, QuietStep
<1>5. ASSUME NEW o \in Origins, Judge(o) PROVE SettleInv(q)'
  <2>1. Quiet(q)
    BY <1>5 DEF Judge, Quiet, TypeOK, Named, recordVars, foundVars, resultVars, cancelVars,
        histVars, boundVars
  <2>2. StillWaits(q)
    BY <1>5 DEF Judge, StillWaits, TypeOK, WaitInv, FinishInv, LockInv, Matching, Waiting,
        Verdict, recordVars, foundVars, resultVars, cancelVars, histVars, boundVars
  <2>3. StillResumed(q)
    BY <1>5 DEF Judge, StillResumed, TypeOK, LockInv, Matching, Waiting, AtMostOneWaiting,
        Verdict, recordVars, foundVars, resultVars, cancelVars, histVars, boundVars
  <2>4. StillReady(q)
    BY <1>5 DEF Judge, StillReady, TypeOK, LockInv, recordVars, foundVars, resultVars,
        cancelVars, histVars, boundVars
  <2>5. StillStops(q)
    BY <1>5 DEF Judge, StillStops, TypeOK, LockInv, Named, recordVars, foundVars, resultVars,
        cancelVars, histVars, boundVars
  <2> QED
    BY <2>1, <2>2, <2>3, <2>4, <2>5, QuietStep
<1>6. ASSUME NEW d \in Texts, LockText(d) PROVE SettleInv(q)'
  <2>1. Quiet(q)
    BY <1>6 DEF LockText, Quiet, TypeOK, Named, recordVars, foundVars, resultVars, cancelVars,
        histVars, boundVars
  <2>2. StillWaits(q)
    BY <1>6 DEF LockText, StillWaits, TypeOK, WaitInv, FinishInv, LockInv, Matching, Waiting,
        Verdict, recordVars, foundVars, resultVars, cancelVars, histVars, boundVars
  <2>3. StillResumed(q)
    BY <1>6 DEF LockText, StillResumed, TypeOK, LockInv, Matching, Waiting, AtMostOneWaiting,
        Verdict, recordVars, foundVars, resultVars, cancelVars, histVars, boundVars
  <2>4. StillReady(q)
    BY <1>6 DEF LockText, StillReady, TypeOK, LockInv, recordVars, foundVars, resultVars,
        cancelVars, histVars, boundVars
  <2>5. StillStops(q)
    BY <1>6 DEF LockText, StillStops, TypeOK, LockInv, Named, recordVars, foundVars, resultVars,
        cancelVars, histVars, boundVars
  <2> QED
    BY <2>1, <2>2, <2>3, <2>4, <2>5, QuietStep
<1>7. ASSUME NEW d \in Texts, FindPending(d) PROVE SettleInv(q)'
  <2>0. PICK r \in Waiting : Finds(d, r)
    BY <1>7 DEF FindPending
  <2>a. /\ pc[d] = "locked" /\ pc' = [pc EXCEPT ![d] = "ready"]
        /\ checkpointID'[d] = checkpointID[r] /\ seen'[d] = waitsFor[r]
        /\ UNCHANGED <<waitsFor, checkpoint, outcome, stopsAt, settledBy, crashes>>
    BY <1>7, <2>0 DEF FindPending, Finds, TypeOK, resultVars, histVars, boundVars
  <2>b. /\ \A e \in Runs : e = d \/ checkpointID'[e] = checkpointID[e]
        /\ \A e \in Runs : e = d \/ pc'[e] = pc[e]
        /\ \A e \in Decisions : e = d \/ seen'[e] = seen[e]
    <3>1. \A e \in Runs : e = d \/ checkpointID'[e] = checkpointID[e]
      BY <2>0 DEF Finds, TypeOK
    <3>2. \A e \in Runs : e = d \/ pc'[e] = pc[e]
      BY <2>a DEF TypeOK
    <3>3. \A e \in Decisions : e = d \/ seen'[e] = seen[e]
      BY <2>0 DEF Finds, TypeOK
    <3> QED
      BY <3>1, <3>2, <3>3
  <2>c. Waiting' \subseteq Waiting /\ d \notin Waiting'
    BY <1>7, <2>a DEF FindPending, Waiting, TypeOK
  <2>d. \A e \in Runs : pc[e] \in {"ready", "resumed", "resolve", "finish"} => e = d
    BY <2>a DEF LockInv
  <2>e. pc'[d] = "ready"
    BY <2>a DEF TypeOK
  <2>1. Quiet(q)
    BY <2>a, <2>b DEF Quiet
  <2>2. StillWaits(q)
    <3>1. \A s \in Waiting' : s \in Runs /\ s # d /\ s \in Waiting
      BY <2>c DEF Waiting
    <3> QED
      BY <2>a, <2>b, <3>1 DEF StillWaits
  <2>3. StillResumed(q)
    BY <2>a, <2>b, <2>d, <2>e DEF StillResumed
  <2>5. StillStops(q)
    BY <2>a, <2>b, <2>d, <2>e DEF StillStops
  <2>6. ASSUME NEW e \in Texts, pc'[e] = "ready", checkpointID'[e] = q
        PROVE  /\ Cardinality(settledBy'[q][seen'[e]]) <= crashes'
               /\ checkpoint'[q] \notin {0, seen'[e]} => settledBy'[q][checkpoint'[q]] = {}
    <3>1. e = d
      <4>1. e \in Runs /\ pc'[e] = "ready"
        BY <2>6
      <4> QED
        BY <2>b, <2>d, <4>1
    <3>2. checkpointID[r] = q /\ seen'[e] = waitsFor[r]
      BY <2>a, <2>6, <3>1
    <3>3. Settlements(q, waitsFor[r]) <= crashes
      BY <2>a, <2>d, <3>2 DEF SettleInv, OpenInv
    <3> QED
      BY <2>a, <3>2, <3>3 DEF SettleInv, AheadInv, Settlements
  <2>7. TextOpenInv(q)' /\ TextAheadInv(q)'
    BY <2>6 DEF TextOpenInv, TextAheadInv, Settlements
  <2> QED
    BY <2>1, <2>2, <2>3, <2>5, <2>7, SettleFrame, StopsFrame DEF SettleInv
<1>8. ASSUME NEW d \in Texts, FindNothing(d) PROVE SettleInv(q)'
  <2>1. Quiet(q)
    BY <1>8 DEF FindNothing, Quiet, TypeOK, Named, recordVars, foundVars, resultVars, cancelVars,
        histVars, boundVars
  <2>2. StillWaits(q)
    BY <1>8 DEF FindNothing, StillWaits, TypeOK, WaitInv, FinishInv, LockInv, Matching, Waiting,
        Verdict, recordVars, foundVars, resultVars, cancelVars, histVars, boundVars
  <2>3. StillResumed(q)
    BY <1>8 DEF FindNothing, StillResumed, TypeOK, LockInv, Matching, Waiting, AtMostOneWaiting,
        Verdict, recordVars, foundVars, resultVars, cancelVars, histVars, boundVars
  <2>4. StillReady(q)
    BY <1>8 DEF FindNothing, StillReady, TypeOK, LockInv, recordVars, foundVars, resultVars,
        cancelVars, histVars, boundVars
  <2>5. StillStops(q)
    BY <1>8 DEF FindNothing, StillStops, TypeOK, LockInv, Named, recordVars, foundVars,
        resultVars, cancelVars, histVars, boundVars
  <2> QED
    BY <2>1, <2>2, <2>3, <2>4, <2>5, QuietStep
<1>9. ASSUME NEW d \in Apis, CheckApi(d) PROVE SettleInv(q)'
  <2>1. Quiet(q)
    BY <1>9 DEF CheckApi, Finds, Quiet, TypeOK, Named, recordVars, foundVars, resultVars,
        cancelVars, histVars, boundVars
  <2>2. StillWaits(q)
    BY <1>9 DEF CheckApi, Finds, StillWaits, TypeOK, WaitInv, FinishInv, LockInv, Matching,
        Waiting, Verdict, recordVars, foundVars, resultVars, cancelVars, histVars, boundVars
  <2>3. StillResumed(q)
    BY <1>9, SMTT(30) DEF CheckApi, Finds, StillResumed, TypeOK, LockInv, Matching, Waiting,
        AtMostOneWaiting, Verdict, recordVars, foundVars, resultVars, cancelVars, histVars,
        boundVars
  <2>4. StillReady(q)
    BY <1>9 DEF CheckApi, Finds, StillReady, TypeOK, LockInv, recordVars, foundVars, resultVars,
        cancelVars, histVars, boundVars
  <2>5. StillStops(q)
    BY <1>9 DEF CheckApi, Finds, StillStops, TypeOK, LockInv, Named, recordVars, foundVars,
        resultVars, cancelVars, histVars, boundVars
  <2> QED
    BY <2>1, <2>2, <2>3, <2>4, <2>5, QuietStep
<1>10. ASSUME NEW d \in Apis, StartApi(d) PROVE SettleInv(q)'
  <2>1. Quiet(q)
    BY <1>10 DEF StartApi, Quiet, TypeOK, Named, recordVars, foundVars, resultVars, cancelVars,
        histVars, boundVars
  <2>2. StillWaits(q)
    BY <1>10 DEF StartApi, StillWaits, TypeOK, WaitInv, FinishInv, LockInv, Matching, Waiting,
        Verdict, recordVars, foundVars, resultVars, cancelVars, histVars, boundVars
  <2>3. StillResumed(q)
    BY <1>10 DEF StartApi, StillResumed, TypeOK, LockInv, Matching, Waiting, AtMostOneWaiting,
        Verdict, recordVars, foundVars, resultVars, cancelVars, histVars, boundVars
  <2>4. StillReady(q)
    BY <1>10 DEF StartApi, StillReady, TypeOK, LockInv, recordVars, foundVars, resultVars,
        cancelVars, histVars, boundVars
  <2>5. StillStops(q)
    BY <1>10 DEF StartApi, StillStops, TypeOK, LockInv, Named, recordVars, foundVars, resultVars,
        cancelVars, histVars, boundVars
  <2> QED
    BY <2>1, <2>2, <2>3, <2>4, <2>5, QuietStep
<1>11. ASSUME NEW d \in Decisions, Resume(d) PROVE SettleInv(q)'
  <2>1. CASE checkpointID[d] # q
    <3>1. Quiet(q)
      BY <1>11, <2>1 DEF Resume, Settle, Quiet, TypeOK, Named, recordVars, foundVars, resultVars,
          cancelVars, histVars, boundVars
    <3>2. StillWaits(q)
      BY <1>11, <2>1 DEF Resume, Settle, StillWaits, TypeOK, WaitInv, FinishInv, LockInv,
          Matching, Waiting, Verdict, recordVars, foundVars, resultVars, cancelVars, histVars,
          boundVars
    <3>3. StillResumed(q)
      BY <1>11, <2>1 DEF Resume, Settle, StillResumed, TypeOK, LockInv, Matching, Waiting,
          AtMostOneWaiting, Verdict, recordVars, foundVars, resultVars, cancelVars, histVars,
          boundVars
    <3>4. StillReady(q)
      BY <1>11, <2>1 DEF Resume, Settle, StillReady, TypeOK, LockInv, recordVars, foundVars,
          resultVars, cancelVars, histVars, boundVars
    <3>5. StillStops(q)
      BY <1>11, <2>1 DEF Resume, Settle, StillStops, TypeOK, LockInv, Named, recordVars,
          foundVars, resultVars, cancelVars, histVars, boundVars
    <3> QED
      BY <3>1, <3>2, <3>3, <3>4, <3>5, QuietStep
  <2>2. CASE checkpointID[d] = q
    <3>a. /\ pc[d] = "ready" /\ pc' = [pc EXCEPT ![d] = "resumed"] /\ checkpoint[q] = seen[d]
          /\ UNCHANGED <<recordVars, checkpoint, checkpointID, seen, outcome, stopsAt, crashes>>
          /\ Settle(d)
      BY <1>11, <2>2 DEF Resume, FileOf, foundVars, resultVars, boundVars
    <3>b. d \in Apis => status[from[d]] = "waiting"
      BY <1>11, <2>2 DEF Resume, MarkStale
    <3>c. \A e \in Runs : pc[e] \in {"ready", "resumed", "resolve", "finish"} => e = d
      BY <3>a DEF LockInv
    <3>p. \A e \in Runs : pc'[e] \in {"ready", "resumed", "resolve", "finish"} =>
                          e = d /\ pc'[e] = "resumed"
      BY <3>a, <3>c DEF TypeOK
    <3>d. seen[d] \in 1 .. Calls /\ Saw(d)
      BY <3>a DEF TypeOK, SeenInv, Saw
    <3>e. /\ \A r \in Waiting : checkpointID[r] = q => r = from[d]
          /\ Settlements(q, seen[d]) <= crashes
      <4>1. CASE d \in Texts
        BY <4>1, <2>2, <3>a DEF TextInv, SettleInv, TextOpenInv
      <4>2. CASE d \in Apis
        <5>1. from[d] \in Waiting /\ waitsFor[from[d]] = seen[d] /\ checkpointID[from[d]] = q
          BY <4>2, <2>2, <3>a, <3>b, <3>d DEF Waiting, Saw
        <5>2. Settlements(q, seen[d]) <= crashes
          BY <5>1, <3>a, <3>c DEF SettleInv, OpenInv
        <5> QED
          BY <5>1, <5>2 DEF AtMostOneWaiting
      <4> QED
        BY <4>1, <4>2 DEF Decisions
    <3>f. \A r \in Waiting : checkpointID[r] = q => waitsFor[r] = seen[d]
      BY <3>a, <3>d, <3>e DEF Saw, Waiting
    <3>g. \A k \in 1 .. Calls :
            /\ settledBy'[q][k] = IF k = seen[d] THEN settledBy[q][k] \cup {d} ELSE settledBy[q][k]
            /\ Cardinality(settledBy'[q][k]) <= Cardinality(settledBy[q][k]) + 1
      BY <2>2, <3>a, SettleCounts
    <3>h. Waiting' = Waiting /\ waitsFor' = waitsFor
      BY <3>a DEF Waiting, recordVars
    <3>1. OnceInv(q)'
      <4> SUFFICES ASSUME NEW k \in 1 .. Calls PROVE Cardinality(settledBy'[q][k]) <= 1 + crashes
        BY <3>a DEF OnceInv, Settlements
      <4>0. Cardinality(settledBy[q][k]) \in Nat
        BY CountsAreNat DEF Settlements
      <4>1. CASE k = seen[d]
        <5>1. /\ Cardinality(settledBy[q][k]) <= crashes
              /\ Cardinality(settledBy'[q][k]) <= Cardinality(settledBy[q][k]) + 1
          BY <4>1, <3>e, <3>g DEF Settlements
        <5>2. Cardinality(settledBy'[q][k]) \in Nat
          BY SettleCounts, <3>a
        <5> QED
          BY <4>0, <5>1, <5>2
      <4>2. CASE k # seen[d]
        BY <4>2, <3>g DEF SettleInv, OnceInv, Settlements
      <4> QED
        BY <4>1, <4>2
    <3>2. OpenInv(q)'
      <4>1. d \in settledBy'[q][seen[d]]
        BY <3>d, <3>g
      <4>2. pc'[d] = "resumed" /\ checkpointID'[d] = q
        BY <2>2, <3>a DEF TypeOK
      <4> QED
        BY <3>a, <4>1, <4>2, <3>f, <3>h DEF OpenInv
    <3>3. TextOpenInv(q)' /\ TextAheadInv(q)' /\ NextInv(q)'
      BY <3>p DEF TextOpenInv, TextAheadInv, NextInv
    <3>4. ResumedInv(q)'
      BY <3>a, <3>d, <3>g, <3>p DEF ResumedInv
    <3>5. OrderInv(q)'
      <4>1. \A k \in 1 .. Calls : settledBy'[q][k] # {} => k <= seen[d]
        <5> SUFFICES ASSUME NEW k \in 1 .. Calls, settledBy'[q][k] # {},
        k # seen[d] PROVE k <= seen[d]
          BY <3>d
        <5>1. settledBy[q][k] # {}
          BY <3>g
        <5> QED
          BY <5>1, <3>a, <3>d DEF SettleInv, OrderInv
      <4> QED
        BY <4>1, <3>a, <3>p DEF OrderInv
    <3>6. AheadInv(q)'
      BY <3>a, <3>f, <3>h DEF AheadInv
    <3>7. FreshInv(q)'
      <4>1. pc'[q] = "done"
        BY <2>2, <3>a DEF ChainInv, TypeOK
      <4> QED
        BY <4>1 DEF FreshInv
    <3> QED
      BY <3>1, <3>2, <3>3, <3>4, <3>5, <3>6, <3>7 DEF SettleInv
  <2> QED
    BY <2>1, <2>2
<1>12. ASSUME NEW d \in Decisions, ResumeElsewhere(d) PROVE SettleInv(q)'
  <2>1. Quiet(q)
    BY <1>12 DEF ResumeElsewhere, Return, Quiet, TypeOK, Named, recordVars, foundVars,
        resultVars, cancelVars, histVars, boundVars
  <2>2. StillWaits(q)
    BY <1>12 DEF ResumeElsewhere, Return, StillWaits, TypeOK, WaitInv, FinishInv, LockInv,
        Matching, Waiting, Verdict, recordVars, foundVars, resultVars, cancelVars, histVars,
        boundVars
  <2>3. StillResumed(q)
    BY <1>12 DEF ResumeElsewhere, Return, StillResumed, TypeOK, LockInv, Matching, Waiting,
        AtMostOneWaiting, Verdict, recordVars, foundVars, resultVars, cancelVars, histVars,
        boundVars
  <2>4. StillReady(q)
    BY <1>12 DEF ResumeElsewhere, Return, StillReady, TypeOK, LockInv, recordVars, foundVars,
        resultVars, cancelVars, histVars, boundVars
  <2>6. NextInv(q)'
    <3>1. /\ pc[d] = "ready" /\ pc' = [pc EXCEPT ![d] = "resolve"]
          /\ FileOf(d) \notin {0, seen[d]}
          /\ stopsAt' = [stopsAt EXCEPT ![d] = FileOf(d)]
          /\ UNCHANGED <<settledBy, checkpointID>>
      BY <1>12 DEF ResumeElsewhere, Return, foundVars
    <3>2. \A e \in Runs : pc'[e] \in {"resolve", "finish"} => e = d
      BY <3>1 DEF TypeOK, LockInv
    <3>3. ASSUME checkpointID[d] = q PROVE settledBy[q][checkpoint[q]] = {}
      <4>1. CASE d \in Texts
        BY <4>1, <3>1, <3>3 DEF SettleInv, TextAheadInv, FileOf
      <4>2. CASE d \in Apis
        <5>1. status[from[d]] = "waiting" /\ Saw(d)
          BY <1>12, <4>2, <3>3 DEF ResumeElsewhere, MarkStale, SeenInv
        <5>2. from[d] \in Waiting /\ waitsFor[from[d]] = seen[d] /\ checkpointID[from[d]] = q
          BY <5>1, <3>1, <3>3 DEF Waiting, Saw
        <5> QED
          BY <5>2, <3>1, <3>3 DEF SettleInv, AheadInv, FileOf
      <4> QED
        BY <4>1, <4>2 DEF Decisions
    <3>4. stopsAt'[d] = FileOf(d)
      BY <3>1 DEF TypeOK
    <3> QED
      BY <3>1, <3>2, <3>3, <3>4 DEF NextInv, FileOf
  <2> QED
    BY <2>1, <2>2, <2>3, <2>4, <2>6, SettleFrame, ReadyFrame DEF SettleInv
<1>13. ASSUME NEW d \in Decisions, ResumeFails(d) PROVE SettleInv(q)'
  <2>1. Quiet(q)
    BY <1>13 DEF ResumeFails, Return, Quiet, TypeOK, Named, recordVars, foundVars, resultVars,
        cancelVars, histVars, boundVars
  <2>2. StillWaits(q)
    BY <1>13 DEF ResumeFails, Return, StillWaits, TypeOK, WaitInv, FinishInv, LockInv, Matching,
        Waiting, Verdict, recordVars, foundVars, resultVars, cancelVars, histVars, boundVars
  <2>3. StillResumed(q)
    BY <1>13 DEF ResumeFails, Return, StillResumed, TypeOK, LockInv, Matching, Waiting,
        AtMostOneWaiting, Verdict, recordVars, foundVars, resultVars, cancelVars, histVars,
        boundVars
  <2>4. StillReady(q)
    BY <1>13 DEF ResumeFails, Return, StillReady, TypeOK, LockInv, recordVars, foundVars,
        resultVars, cancelVars, histVars, boundVars
  <2>5. StillStops(q)
    BY <1>13 DEF ResumeFails, Return, StillStops, TypeOK, LockInv, Named, recordVars, foundVars,
        resultVars, cancelVars, histVars, boundVars
  <2> QED
    BY <2>1, <2>2, <2>3, <2>4, <2>5, QuietStep
<1>14. ASSUME NEW d \in Decisions, StartOver(d) PROVE SettleInv(q)'
  <2>0. settledBy'[q] = settledBy[q]
    <3>1. Settle(d) /\ checkpointID[d] \in Origins /\ pc[d] = "resumed"
      BY <1>14 DEF StartOver, Named
    <3>2. ASSUME NEW k \in 1 .. Calls PROVE settledBy'[q][k] = settledBy[q][k]
      <4>1. settledBy'[q][k] = IF q = checkpointID[d] /\ k = seen[d]
                               THEN settledBy[q][k] \cup {d} ELSE settledBy[q][k]
        BY <3>1, SettleCounts
      <4>2. checkpointID[d] = q => d \in settledBy[q][seen[d]]
        BY <3>1 DEF SettleInv, ResumedInv
      <4> QED
        BY <4>1, <4>2
    <3>3. /\ settledBy[q] \in [1 .. Calls -> SUBSET Decisions]
          /\ settledBy'[q] \in [1 .. Calls -> SUBSET Decisions]
      BY <3>1, SettleTyped DEF TypeOK
    <3> QED
      BY <3>2, <3>3
  <2>1. Quiet(q)
    BY <1>14, <2>0 DEF StartOver, Settle, Quiet, TypeOK, Named, recordVars, foundVars,
        resultVars, cancelVars, histVars, boundVars
  <2>2. StillWaits(q)
    BY <1>14 DEF StartOver, Settle, StillWaits, TypeOK, WaitInv, FinishInv, LockInv, Matching,
        Waiting, Verdict, recordVars, foundVars, resultVars, cancelVars, histVars, boundVars
  <2>3. StillResumed(q)
    BY <1>14 DEF StartOver, Settle, StillResumed, TypeOK, LockInv, Matching, Waiting,
        AtMostOneWaiting, Verdict, recordVars, foundVars, resultVars, cancelVars, histVars,
        boundVars
  <2>4. StillReady(q)
    BY <1>14 DEF StartOver, Settle, StillReady, TypeOK, LockInv, recordVars, foundVars,
        resultVars, cancelVars, histVars, boundVars
  <2>5. StillStops(q)
    BY <1>14 DEF StartOver, Settle, StillStops, TypeOK, LockInv, Named, recordVars, foundVars,
        resultVars, cancelVars, histVars, boundVars
  <2> QED
    BY <2>1, <2>2, <2>3, <2>4, <2>5, QuietStep
<1>15. ASSUME NEW d \in Decisions, Interrupt(d) PROVE SettleInv(q)'
  <2>1. CASE checkpointID[d] # q
    <3>1. Quiet(q)
      BY <1>15, <2>1 DEF Interrupt, Return, Quiet, TypeOK, Named, recordVars, foundVars,
          resultVars, cancelVars, histVars, boundVars
    <3>2. StillWaits(q)
      BY <1>15, <2>1 DEF Interrupt, Return, StillWaits, TypeOK, WaitInv, FinishInv, LockInv,
          Matching, Waiting, Verdict, recordVars, foundVars, resultVars, cancelVars, histVars,
          boundVars
    <3>3. StillResumed(q)
      BY <1>15, <2>1 DEF Interrupt, Return, StillResumed, TypeOK, LockInv, Matching, Waiting,
          AtMostOneWaiting, Verdict, recordVars, foundVars, resultVars, cancelVars, histVars,
          boundVars
    <3>4. StillReady(q)
      BY <1>15, <2>1 DEF Interrupt, Return, StillReady, TypeOK, LockInv, recordVars, foundVars,
          resultVars, cancelVars, histVars, boundVars
    <3>5. StillStops(q)
      BY <1>15, <2>1 DEF Interrupt, Return, StillStops, TypeOK, LockInv, Named, recordVars,
          foundVars, resultVars, cancelVars, histVars, boundVars
    <3> QED
      BY <3>1, <3>2, <3>3, <3>4, <3>5, QuietStep
  <2>2. CASE checkpointID[d] = q
    <3>a. /\ pc[d] = "resumed" /\ pc' = [pc EXCEPT ![d] = "resolve"] /\ seen[d] < Calls
          /\ checkpoint' = [checkpoint EXCEPT ![q] = seen[d] + 1]
          /\ stopsAt' = [stopsAt EXCEPT ![d] = seen[d] + 1]
          /\ UNCHANGED <<status, waitsFor, checkpointID, seen, settledBy, crashes>>
      BY <1>15, <2>2 DEF Interrupt, Return, recordVars, foundVars, histVars, boundVars
    <3>b. seen[d] + 1 \in 1 .. Calls /\ seen[d] \in Nat
      <4>1. seen[d] \in 0 .. Calls
        BY DEF TypeOK
      <4> QED
        BY <3>a, <4>1
    <3>c. \A k \in 1 .. Calls : settledBy[q][k] # {} => k <= seen[d]
      BY <2>2, <3>a DEF SettleInv, OrderInv
    <3>d. settledBy[q][seen[d] + 1] = {}
      BY <3>b, <3>c
    <3>e. checkpoint'[q] = seen[d] + 1 /\ stopsAt'[d] = seen[d] + 1
      BY <3>a DEF TypeOK
    <3>f. \A e \in Runs : pc'[e] \in {"ready", "resumed", "resolve", "finish"} =>
                          e = d /\ pc'[e] = "resolve"
      BY <3>a DEF LockInv, TypeOK
    <3>g. Waiting' = Waiting
      BY <3>a DEF Waiting
    <3>1. OnceInv(q)'
      BY <3>a DEF SettleInv, OnceInv, Settlements
    <3>2. OpenInv(q)'
      <4>1. \A e \in Decisions : pc[e] \in {"resumed", "resolve"} => pc'[e] \in {"resumed",
      "resolve"}
        BY <3>a DEF TypeOK
      <4> QED
        BY <4>1, <3>a, <3>g DEF SettleInv, OpenInv, Settlements
    <3>3. TextOpenInv(q)' /\ TextAheadInv(q)' /\ ResumedInv(q)'
      BY <3>f DEF TextOpenInv, TextAheadInv, ResumedInv
    <3>4. OrderInv(q)'
      <4>1. \A k \in 1 .. Calls : settledBy[q][k] # {} => k <= seen[d] + 1
        BY <3>b, <3>c
      <4> QED
        BY <4>1, <3>a, <3>e, <3>f DEF OrderInv
    <3>5. AheadInv(q)'
      BY <3>a, <3>d, <3>e DEF AheadInv
    <3>6. NextInv(q)'
      BY <3>a, <3>d, <3>e, <3>f DEF NextInv
    <3>7. FreshInv(q)'
      <4>1. pc'[q] = "done"
        BY <2>2, <3>a DEF ChainInv, TypeOK
      <4> QED
        BY <4>1 DEF FreshInv
    <3> QED
      BY <3>1, <3>2, <3>3, <3>4, <3>5, <3>6, <3>7 DEF SettleInv
  <2> QED
    BY <2>1, <2>2
<1>16. ASSUME NEW d \in Decisions, Complete(d) PROVE SettleInv(q)'
  <2>1. Quiet(q)
    BY <1>16 DEF Complete, Return, Quiet, TypeOK, Named, recordVars, foundVars, resultVars,
        cancelVars, histVars, boundVars
  <2>2. StillWaits(q)
    BY <1>16 DEF Complete, Return, StillWaits, TypeOK, WaitInv, FinishInv, LockInv, Matching,
        Waiting, Verdict, recordVars, foundVars, resultVars, cancelVars, histVars, boundVars
  <2>3. StillResumed(q)
    BY <1>16 DEF Complete, Return, StillResumed, TypeOK, LockInv, Matching, Waiting,
        AtMostOneWaiting, Verdict, recordVars, foundVars, resultVars, cancelVars, histVars,
        boundVars
  <2>4. StillReady(q)
    BY <1>16 DEF Complete, Return, StillReady, TypeOK, LockInv, recordVars, foundVars,
        resultVars, cancelVars, histVars, boundVars
  <2>5. StillStops(q)
    BY <1>16 DEF Complete, Return, StillStops, TypeOK, LockInv, Named, recordVars, foundVars,
        resultVars, cancelVars, histVars, boundVars
  <2> QED
    BY <2>1, <2>2, <2>3, <2>4, <2>5, QuietStep
<1>17. ASSUME NEW d \in Decisions, Resolve(d) PROVE SettleInv(q)'
  <2>1. Quiet(q)
    BY <1>17 DEF Resolve, Verdict, Quiet, TypeOK, Named, recordVars, foundVars, resultVars,
        cancelVars, histVars, boundVars
  <2>2. StillWaits(q)
    BY <1>17 DEF Resolve, Verdict, StillWaits, TypeOK, WaitInv, FinishInv, LockInv, Matching,
        Waiting, recordVars, foundVars, resultVars, cancelVars, histVars, boundVars
  <2>3. StillResumed(q)
    <3>1. /\ pc[d] = "resolve" /\ pc' = [pc EXCEPT ![d] = "finish"]
          /\ UNCHANGED <<checkpointID, seen>>
      BY <1>17 DEF Resolve, foundVars
    <3>2. \A e \in Runs : pc[e] \in {"resumed", "resolve"} => e = d
      BY <3>1 DEF LockInv
    <3>3. \A r \in Waiting' : checkpointID[r] # checkpointID[d]
      BY <3>1, ApprovalInvStep DEF FinishInv, TypeOK
    <3>4. \A e \in Decisions : pc'[e] # "resumed"
      BY <3>1, <3>2 DEF TypeOK
    <3> QED
      BY <3>1, <3>2, <3>3, <3>4 DEF StillResumed
  <2>4. StillReady(q)
    BY <1>17 DEF Resolve, Verdict, StillReady, TypeOK, LockInv, recordVars, foundVars,
        resultVars, cancelVars, histVars, boundVars
  <2>5. StillStops(q)
    BY <1>17 DEF Resolve, Verdict, StillStops, TypeOK, LockInv, Named, recordVars, foundVars,
        resultVars, cancelVars, histVars, boundVars
  <2> QED
    BY <2>1, <2>2, <2>3, <2>4, <2>5, QuietStep
<1>18. ASSUME NEW r \in Apis \cup Origins, LockQueued(r) PROVE SettleInv(q)'
  <2>1. Quiet(q)
    BY <1>18 DEF LockQueued, Quiet, TypeOK, Named, recordVars, foundVars, resultVars, cancelVars,
        histVars, boundVars
  <2>2. StillWaits(q)
    BY <1>18 DEF LockQueued, StillWaits, TypeOK, WaitInv, FinishInv, LockInv, Matching, Waiting,
        Verdict, recordVars, foundVars, resultVars, cancelVars, histVars, boundVars
  <2>3. StillResumed(q)
    BY <1>18 DEF LockQueued, StillResumed, TypeOK, LockInv, Matching, Waiting, AtMostOneWaiting,
        Verdict, recordVars, foundVars, resultVars, cancelVars, histVars, boundVars
  <2>4. StillReady(q)
    BY <1>18 DEF LockQueued, StillReady, TypeOK, LockInv, recordVars, foundVars, resultVars,
        cancelVars, histVars, boundVars
  <2>5. StillStops(q)
    BY <1>18 DEF LockQueued, StillStops, TypeOK, LockInv, Named, recordVars, foundVars,
        resultVars, cancelVars, histVars, boundVars
  <2> QED
    BY <2>1, <2>2, <2>3, <2>4, <2>5, QuietStep
<1>19. ASSUME NEW r \in Runs, Finish(r) PROVE SettleInv(q)'
  <2>1. CASE ~ (outcome[r] = "waiting" /\ checkpointID[r] = q)
    <3>1. Quiet(q)
      BY <1>19, <2>1 DEF Finish, Quiet, TypeOK, Named, recordVars, foundVars, resultVars,
          cancelVars, histVars, boundVars
    <3>2. StillWaits(q)
      BY <1>19, <2>1 DEF Finish, StillWaits, TypeOK, WaitInv, FinishInv, LockInv, Matching,
          Waiting, Verdict, recordVars, foundVars, resultVars, cancelVars, histVars, boundVars
    <3>3. StillResumed(q)
      BY <1>19, <2>1 DEF Finish, StillResumed, TypeOK, LockInv, Matching, Waiting,
          AtMostOneWaiting, Verdict, recordVars, foundVars, resultVars, cancelVars, histVars,
          boundVars
    <3>4. StillReady(q)
      BY <1>19, <2>1 DEF Finish, StillReady, TypeOK, LockInv, recordVars, foundVars, resultVars,
          cancelVars, histVars, boundVars
    <3>5. StillStops(q)
      BY <1>19, <2>1 DEF Finish, StillStops, TypeOK, LockInv, Named, recordVars, foundVars,
          resultVars, cancelVars, histVars, boundVars
    <3> QED
      BY <3>1, <3>2, <3>3, <3>4, <3>5, QuietStep
  <2>2. CASE outcome[r] = "waiting" /\ checkpointID[r] = q
    <3>a. /\ pc[r] = "finish" /\ pc' = [pc EXCEPT ![r] = "done"]
          /\ status' = [status EXCEPT ![r] = outcome[r]]
          /\ waitsFor' = [waitsFor EXCEPT ![r] = stopsAt[r]]
          /\ UNCHANGED <<checkpoint, checkpointID, seen, outcome, stopsAt, settledBy, crashes>>
      BY <1>19 DEF Finish, foundVars, resultVars, histVars, boundVars
    <3>b. \A s \in Waiting' : checkpointID[s] = q => s = r /\ waitsFor'[s] = stopsAt[r]
      BY <2>2, <3>a DEF FinishInv, Waiting, TypeOK
    <3>c. Settlements(q, stopsAt[r]) = 0
      BY <2>2, <3>a, FS_EmptySet DEF SettleInv, NextInv, Settlements
    <3>d. checkpoint[q] \in {0, stopsAt[r]}
      BY <2>2, <3>a DEF StopInv, FileOf
    <3>e. \A e \in Runs : pc'[e] \notin {"ready", "resumed", "resolve", "finish"}
      BY <3>a DEF LockInv, TypeOK
    <3>1. OnceInv(q)'
      BY <3>a DEF SettleInv, OnceInv, Settlements
    <3>2. OpenInv(q)'
      BY <3>a, <3>b, <3>c DEF OpenInv, Settlements
    <3>3. TextOpenInv(q)' /\ TextAheadInv(q)' /\ ResumedInv(q)' /\ NextInv(q)'
      BY <3>e DEF TextOpenInv, TextAheadInv, ResumedInv, NextInv
    <3>4. OrderInv(q)'
      BY <3>a, <3>e DEF SettleInv, OrderInv
    <3>5. AheadInv(q)'
      BY <3>a, <3>b, <3>d DEF AheadInv
    <3>6. FreshInv(q)'
      BY <3>a DEF SettleInv, FreshInv, TypeOK
    <3> QED
      BY <3>1, <3>2, <3>3, <3>4, <3>5, <3>6 DEF SettleInv
  <2> QED
    BY <2>1, <2>2
<1>20. ASSUME NEW c \in Cancels, CancelTracked(c) PROVE SettleInv(q)'
  <2>1. Quiet(q)
    BY <1>20 DEF CancelTracked, Tracked, Quiet, TypeOK, Named, recordVars, foundVars, resultVars,
        cancelVars, histVars, boundVars
  <2>2. StillWaits(q)
    BY <1>20 DEF CancelTracked, Tracked, StillWaits, TypeOK, WaitInv, FinishInv, LockInv,
        Matching, Waiting, Verdict, recordVars, foundVars, resultVars, cancelVars, histVars,
        boundVars
  <2>3. StillResumed(q)
    BY <1>20 DEF CancelTracked, Tracked, StillResumed, TypeOK, LockInv, Matching, Waiting,
        AtMostOneWaiting, Verdict, recordVars, foundVars, resultVars, cancelVars, histVars,
        boundVars
  <2>4. StillReady(q)
    BY <1>20 DEF CancelTracked, Tracked, StillReady, TypeOK, LockInv, recordVars, foundVars,
        resultVars, cancelVars, histVars, boundVars
  <2>5. StillStops(q)
    BY <1>20 DEF CancelTracked, Tracked, StillStops, TypeOK, LockInv, Named, recordVars,
        foundVars, resultVars, cancelVars, histVars, boundVars
  <2> QED
    BY <2>1, <2>2, <2>3, <2>4, <2>5, QuietStep
<1>21. ASSUME NEW c \in Cancels, CancelFinds(c) PROVE SettleInv(q)'
  <2>1. Quiet(q)
    BY <1>21 DEF CancelFinds, Tracked, Quiet, TypeOK, Named, recordVars, foundVars, resultVars,
        cancelVars, histVars, boundVars
  <2>2. StillWaits(q)
    BY <1>21 DEF CancelFinds, Tracked, StillWaits, TypeOK, WaitInv, FinishInv, LockInv, Matching,
        Waiting, Verdict, recordVars, foundVars, resultVars, cancelVars, histVars, boundVars
  <2>3. StillResumed(q)
    BY <1>21 DEF CancelFinds, Tracked, StillResumed, TypeOK, LockInv, Matching, Waiting,
        AtMostOneWaiting, Verdict, recordVars, foundVars, resultVars, cancelVars, histVars,
        boundVars
  <2>4. StillReady(q)
    BY <1>21 DEF CancelFinds, Tracked, StillReady, TypeOK, LockInv, recordVars, foundVars,
        resultVars, cancelVars, histVars, boundVars
  <2>5. StillStops(q)
    BY <1>21 DEF CancelFinds, Tracked, StillStops, TypeOK, LockInv, Named, recordVars, foundVars,
        resultVars, cancelVars, histVars, boundVars
  <2> QED
    BY <2>1, <2>2, <2>3, <2>4, <2>5, QuietStep
<1>22. ASSUME NEW c \in Cancels, CancelRun(c) PROVE SettleInv(q)'
  <2>1. Quiet(q)
    BY <1>22 DEF CancelRun, Quiet, TypeOK, Named, recordVars, foundVars, resultVars, cancelVars,
        histVars, boundVars
  <2>2. StillWaits(q)
    BY <1>22 DEF CancelRun, StillWaits, TypeOK, WaitInv, FinishInv, LockInv, Matching, Waiting,
        Verdict, recordVars, foundVars, resultVars, cancelVars, histVars, boundVars
  <2>3. StillResumed(q)
    BY <1>22 DEF CancelRun, StillResumed, TypeOK, LockInv, Matching, Waiting, AtMostOneWaiting,
        Verdict, recordVars, foundVars, resultVars, cancelVars, histVars, boundVars
  <2>4. StillReady(q)
    BY <1>22 DEF CancelRun, StillReady, TypeOK, LockInv, recordVars, foundVars, resultVars,
        cancelVars, histVars, boundVars
  <2>5. StillStops(q)
    BY <1>22 DEF CancelRun, StillStops, TypeOK, LockInv, Named, recordVars, foundVars,
        resultVars, cancelVars, histVars, boundVars
  <2> QED
    BY <2>1, <2>2, <2>3, <2>4, <2>5, QuietStep
<1>23. ASSUME NEW c \in Cancels, CancelDeletes(c) PROVE SettleInv(q)'
  <2>1. Quiet(q)
    BY <1>23 DEF CancelDeletes, Quiet, TypeOK, Named, recordVars, foundVars, resultVars,
        cancelVars, histVars, boundVars
  <2>2. StillWaits(q)
    BY <1>23 DEF CancelDeletes, StillWaits, TypeOK, WaitInv, FinishInv, LockInv, Matching,
        Waiting, Verdict, recordVars, foundVars, resultVars, cancelVars, histVars, boundVars
  <2>3. StillResumed(q)
    BY <1>23 DEF CancelDeletes, StillResumed, TypeOK, LockInv, Matching, Waiting,
        AtMostOneWaiting, Verdict, recordVars, foundVars, resultVars, cancelVars, histVars,
        boundVars
  <2>4. StillReady(q)
    BY <1>23 DEF CancelDeletes, StillReady, TypeOK, LockInv, recordVars, foundVars, resultVars,
        cancelVars, histVars, boundVars
  <2>5. StillStops(q)
    BY <1>23 DEF CancelDeletes, StillStops, TypeOK, LockInv, Named, recordVars, foundVars,
        resultVars, cancelVars, histVars, boundVars
  <2> QED
    BY <2>1, <2>2, <2>3, <2>4, <2>5, QuietStep
<1>24. ASSUME Reset PROVE SettleInv(q)'
  <2>1. Quiet(q)
    BY <1>24 DEF Reset, Quiet, TypeOK, Named, recordVars, foundVars, resultVars, cancelVars,
        histVars, boundVars
  <2>2. StillWaits(q)
    BY <1>24 DEF Reset, StillWaits, TypeOK, WaitInv, FinishInv, LockInv, Matching, Waiting,
        Verdict, recordVars, foundVars, resultVars, cancelVars, histVars, boundVars
  <2>3. StillResumed(q)
    BY <1>24 DEF Reset, StillResumed, TypeOK, LockInv, Matching, Waiting, AtMostOneWaiting,
        Verdict, recordVars, foundVars, resultVars, cancelVars, histVars, boundVars
  <2>4. StillReady(q)
    BY <1>24 DEF Reset, StillReady, TypeOK, LockInv, recordVars, foundVars, resultVars,
        cancelVars, histVars, boundVars
  <2>5. StillStops(q)
    BY <1>24 DEF Reset, StillStops, TypeOK, LockInv, Named, recordVars, foundVars, resultVars,
        cancelVars, histVars, boundVars
  <2> QED
    BY <2>1, <2>2, <2>3, <2>4, <2>5, QuietStep
<1>25. ASSUME Crash PROVE SettleInv(q)'
  <2>a. /\ crashes' = crashes + 1 /\ UNCHANGED <<waitsFor, checkpoint, checkpointID, settledBy>>
        /\ Waiting' \subseteq Waiting
    BY <1>25 DEF TypeOK, Crash, Waiting, foundVars, histVars
  <2>b. \A k \in 1 .. Calls : Settlements(q, k) \in Nat /\ Settlements(q, k) <= 1 + crashes
    BY CountsAreNat DEF SettleInv, OnceInv
  <2>c. \A e \in Runs : /\ pc'[e] \in {"idle", "done", "lost"}
                        /\ pc[e] = "done" => pc'[e] = "done"
    BY <1>25 DEF Crash, Dies
  <2>1. OnceInv(q)'
    BY <2>a, <2>b DEF OnceInv, Settlements
  <2>2. OpenInv(q)'
    <3>1. \A r \in Waiting : waitsFor[r] \in 1 .. Calls
      BY DEF TypeOK, GatedInv, Waiting
    <3> QED
      BY <3>1, <2>a, <2>b DEF OpenInv, Settlements
  <2>3. TextOpenInv(q)' /\ TextAheadInv(q)' /\ ResumedInv(q)' /\ NextInv(q)'
    BY <2>c DEF TextOpenInv, TextAheadInv, ResumedInv, NextInv
  <2>4. OrderInv(q)' /\ FreshInv(q)'
    BY <2>a, <2>c DEF SettleInv, OrderInv, FreshInv
  <2>5. AheadInv(q)'
    BY <2>a DEF SettleInv, AheadInv
  <2> QED
    BY <2>1, <2>2, <2>3, <2>4, <2>5 DEF SettleInv
<1>26. CASE UNCHANGED vars
  BY <1>26 DEF vars, recordVars, foundVars, resultVars, cancelVars, histVars, boundVars,
      SettleInv, Waiting, Settlements, OnceInv, OpenInv, TextOpenInv, ResumedInv, OrderInv,
      AheadInv, TextAheadInv, NextInv, FreshInv
<1> QED
  BY <1>1, <1>2, <1>3, <1>4, <1>5, <1>6, <1>7, <1>8, <1>9, <1>10, <1>11, <1>12, <1>13, <1>14,
      <1>15, <1>16, <1>17, <1>18, <1>19, <1>20, <1>21, <1>22, <1>23, <1>24, <1>25,
      <1>26 DEF Next, RunStep, ResumeStep, CancelStep

(* The inductive invariant of the decisions is kept by every step: once an  *)
(* API decision resumed a run that did not wait, nothing is promised of     *)
(* its checkpoint.                                                         *)
LEMMA DecisionStep ==
  TypeInv /\ ApprovalInv /\ DecisionInv /\ [Next]_vars => DecisionInv'
<1> SUFFICES ASSUME TypeInv, ApprovalInv, DecisionInv, [Next]_vars PROVE DecisionInv'
  OBVIOUS
<1>1. SeenInv' /\ TextInv' /\ GatedInv'
  BY SeenStep DEF DecisionInv
<1>2. stale \subseteq stale'
  <2>1. \A o \in Origins : RunStep(o) => stale' = stale
    BY DEF RunStep, StartRun, DropRun, RunInterrupts, RunEnds, Judge, histVars
  <2>2. \A d \in Texts : LockText(d) \/ FindPending(d) \/ FindNothing(d) => stale' = stale
    BY DEF LockText, FindPending, FindNothing, histVars
  <2>3. \A d \in Apis : CheckApi(d) \/ StartApi(d) => stale' = stale
    BY DEF CheckApi, StartApi, histVars
  <2>4. \A d \in Decisions : ResumeStep(d) => stale \subseteq stale'
    BY DEF ResumeStep, Resume, ResumeElsewhere, ResumeFails, StartOver, Interrupt, Complete,
           Resolve, MarkStale, histVars
  <2>5. \A r \in Runs : LockQueued(r) \/ Finish(r) => stale' = stale
    BY DEF LockQueued, Finish, histVars
  <2>6. \A c \in Cancels : CancelStep(c) => stale' = stale
    BY DEF CancelStep, CancelTracked, CancelFinds, CancelRun, CancelDeletes, histVars
  <2>7. Reset \/ Crash \/ UNCHANGED vars => stale' = stale
    BY DEF Reset, Crash, vars, histVars
  <2> QED
    BY <2>1, <2>2, <2>3, <2>4, <2>5, <2>6, <2>7 DEF Next, Runs, Decisions
<1>3. ASSUME NEW q \in Origins \ stale' PROVE SettleInv(q)'
  BY <1>2, SettleStep DEF DecisionInv
<1> QED
  BY <1>1, <1>3 DEF DecisionInv

(* Unless an API decision resumed a run that had stopped waiting, a tool    *)
(* call is executed or rejected by one decision, and by one more for every *)
(* crash of the server.                                                    *)
THEOREM DecidedOnce == Spec => []OneDecisionPerCall
<1>1. Init => DecisionInv
  <2> SUFFICES ASSUME Init PROVE DecisionInv
    OBVIOUS
  <2>1. Waiting = {} /\ \A r \in Runs : pc[r] = "idle"
    BY DEF Init, Waiting
  <2>2. SeenInv /\ TextInv /\ GatedInv
    BY <2>1, ApprovalAssumption DEF Init, SeenInv, Saw, TextInv, GatedInv, Runs, Decisions
  <2>3. ASSUME NEW q \in Origins PROVE SettleInv(q)
    <3>1. \A k \in 1 .. Calls : settledBy[q][k] = {} /\ Settlements(q, k) = 0
      BY FS_EmptySet DEF Init, Settlements
    <3>2. OnceInv(q)
      BY <3>1 DEF Init, OnceInv
    <3>3. /\ OpenInv(q) /\ TextOpenInv(q) /\ ResumedInv(q) /\ OrderInv(q) /\ AheadInv(q)
          /\ TextAheadInv(q) /\ NextInv(q) /\ FreshInv(q)
      BY <2>1, <3>1 DEF OpenInv, TextOpenInv, ResumedInv, OrderInv, AheadInv, TextAheadInv,
                        NextInv, FreshInv, Runs, Decisions
    <3> QED
      BY <3>2, <3>3 DEF SettleInv
  <2> QED
    BY <2>2, <2>3 DEF DecisionInv
<1>2. TypeInv /\ ApprovalInv /\ DecisionInv /\ [Next]_vars => DecisionInv'
  BY DecisionStep
<1>3. DecisionInv => OneDecisionPerCall
  BY DEF DecisionInv, SettleInv, OnceInv, OneDecisionPerCall, Settlements
<1> QED
  BY <1>1, <1>2, <1>3, TypesHold, ApprovalInvariant, PTL DEF Spec
=============================================================================
