--------------------------- MODULE SessionProofs ---------------------------
(***************************************************************************)
(* TLAPS proofs about TurnLoop, for any finite set of messages and any     *)
(* number of other runs, resets and loops.  First, every variable keeps    *)
(* its type and the session's conversation is serial: the inductive        *)
(* invariant is SerialInv (module TurnLoop) with TypeOK, in layers that use *)
(* each other: TypeInv, then Owned, then Fresh, then LogSerial.  Then, no   *)
(* live loop is orphaned, a reset keeps its old loop out of the new         *)
(* conversation, a run gets one outcome, a message cancelled in time never  *)
(* answers, no message is lost, and the session implements the serial       *)
(* session of SessionLog.                                                  *)
(***************************************************************************)
EXTENDS TurnLoop, FiniteSetTheorems, TLAPS

Turns == [run : Runs, basis : Conversation]
TypeInv == TypeOK /\ Placed /\ Judged

-----------------------------------------------------------------------------
(* Helpers about the data.                                                 *)
LEMMA SingletonSeq ==
  ASSUME NEW S PROVE /\ <<>> \in Seq(S)
                     /\ [x \in S |-> <<x>>] \in [S -> Seq(S)]
OBVIOUS

(* Appending an element keeps a sequence over its set.                     *)
LEMMA AppendTyped ==
  ASSUME NEW S, NEW s \in Seq(S), NEW x \in S PROVE Append(s, x) \in Seq(S)
OBVIOUS

(* The conversation a run is restored from has an epoch and a length.      *)
LEMMA NowTyped == TypeOK => Now \in Conversation
<1> SUFFICES ASSUME TypeOK PROVE Now \in Conversation
  OBVIOUS
<1>1. Len(log) \in Nat
  BY DEF TypeOK
<1> QED
  BY <1>1 DEF TypeOK, Now, Conversation

(* Recording a finished run keeps the store well-formed.                   *)
LEMMA FinishRunTyped ==
  ASSUME TypeOK, NEW a \in Runs, NEW st \in Closed, FinishRun(a, st)
  PROVE  /\ basis' \in [Runs -> Conversation]
         /\ log' \in Seq(Turns)
         /\ epoch' \in Nat
         /\ runs' \in [Runs -> {"absent", "running"} \cup Closed]
         /\ done' \in [Runs -> {"none", "open"} \cup Closed]
<1>1. [run |-> a, basis |-> basis[a]] \in Turns
  BY DEF TypeOK, Turns
<1>2. log \in Seq(Turns)
  BY DEF TypeOK, Turns
<1>3. log' \in Seq(Turns)
  BY <1>1, <1>2, AppendTyped DEF FinishRun
<1> QED
  BY <1>3 DEF TypeOK, FinishRun

-----------------------------------------------------------------------------
(* A session with no run yet is well typed.                                *)
LEMMA InitTyped == Init => TypeInv
<1> SUFFICES ASSUME Init PROVE TypeInv
  OBVIOUS
<1>1. prompt \in [Requests -> Seq(Requests)]
  BY SingletonSeq DEF Init
<1>2. log \in Seq(Turns)
  BY SingletonSeq DEF Init
<1>3. TypeOK
  BY <1>1, <1>2, TurnLoopAssumption
  DEF Init, TypeOK, Runs, Turns, Conversation, Closed, Answered, Dropped, Alive
<1>4. Placed /\ Judged
  BY TurnLoopAssumption DEF Init, Placed, Items, Judged, Alive
<1> QED
  BY <1>3, <1>4 DEF TypeInv

(* Types need Placed (a routed request has a loop, a loop in a turn holds a *)
(* request) and Judged (what is recorded is a final status).               *)
LEMMA TypeStep ==
  ASSUME TypeInv, Next
  PROVE  TypeInv'
<1> USE TurnLoopAssumption DEF TypeInv, TypeOK
<1>1. ASSUME NEW r \in Requests, Enqueue(r) PROVE TypeInv'
  <2>1. TypeOK'
    BY <1>1 DEF Placed, Judged, Items, Runs, Conversation, Closed, Answered, Dropped, Alive, Enqueue, StartRun, loopVars, otherVars, histVars
  <2>2. Placed'
    BY <1>1 DEF Placed, Items, Alive, Runs, Enqueue, StartRun, loopVars, otherVars, histVars
  <2>3. Judged'
    BY <1>1 DEF Placed, Judged, Items, Alive, Closed, Answered, Dropped, Enqueue, StartRun, loopVars, otherVars, histVars
  <2> QED BY <2>1, <2>2, <2>3 DEF TypeInv
<1>2. ASSUME NEW r \in Requests, Route(r) PROVE TypeInv'
  <2>1. TypeOK'
    BY <1>2 DEF Placed, Judged, Items, Runs, Conversation, Closed, Answered, Dropped, Alive, Route, turnVars, storeVars, otherVars, histVars
  <2>2. Placed'
    BY <1>2 DEF Placed, Items, Alive, Runs, Route, turnVars, storeVars, otherVars, histVars
  <2>3. Judged'
    BY <1>2 DEF Placed, Judged, Items, Alive, Closed, Answered, Dropped, Route, turnVars, storeVars, otherVars, histVars
  <2> QED BY <2>1, <2>2, <2>3 DEF TypeInv
<1>3. ASSUME NEW r \in Requests, Mark(r) PROVE TypeInv'
  <2>1. TypeOK'
    BY <1>3 DEF Placed, Judged, Items, Runs, Conversation, Closed, Answered, Dropped, Alive, Mark, Base, turnVars, storeVars, otherVars
  <2>2. Placed'
    BY <1>3 DEF Placed, Items, Alive, Runs, Mark, Base, turnVars, storeVars, otherVars
  <2>3. Judged'
    BY <1>3 DEF Placed, Judged, Items, Alive, Closed, Answered, Dropped, Mark, Base, turnVars, storeVars, otherVars
  <2> QED BY <2>1, <2>2, <2>3 DEF TypeInv
<1>4. ASSUME NEW r \in Requests, Push(r) PROVE TypeInv'
  <2>1. TypeOK'
    <3>1. stamp' \in [Requests -> Nat]
      <4>1. Cardinality({q \in Requests : stamp[q] > 0}) \in Nat
        BY FS_Subset, FS_CardinalityType
      <4> QED BY <1>4, <4>1 DEF Push
    <3>2. preempt' \in [Loops -> BOOLEAN]
      <4>1. home[r] \in Loops
        BY <1>4 DEF Push, Placed
      <4>2. PICK hit \in BOOLEAN : preempt' = [preempt EXCEPT ![home[r]] = @ \/ hit]
        BY <1>4 DEF Push
      <4>3. (preempt[home[r]] \/ hit) \in BOOLEAN
        OBVIOUS
      <4> QED BY <4>1, <4>2, <4>3
    <3> QED
      BY <1>4, <3>1, <3>2 DEF Placed, Runs, Push, Stopped, turnVars, storeVars, otherVars, histVars
  <2>2. Placed'
    BY <1>4 DEF Placed, Items, Alive, Runs, Push, Stopped, turnVars, storeVars, otherVars, histVars
  <2>3. Judged'
    BY <1>4 DEF Placed, Judged, Items, Alive, Closed, Answered, Dropped, Push, Stopped, turnVars, storeVars, otherVars, histVars
  <2> QED BY <2>1, <2>2, <2>3 DEF TypeInv
<1>5. ASSUME NEW r \in Requests, Reject(r) PROVE TypeInv'
  <2>1. TypeOK'
    BY <1>5 DEF Placed, Judged, Items, Runs, Conversation, Closed, Answered, Dropped, Alive, Reject, Stopped, DropRuns, loopVars, otherVars, histVars
  <2>2. Placed'
    BY <1>5 DEF Placed, Items, Alive, Runs, Reject, Stopped, DropRuns, loopVars, otherVars, histVars
  <2>3. Judged'
    BY <1>5 DEF Placed, Judged, Items, Alive, Closed, Answered, Dropped, Reject, Stopped, DropRuns, loopVars, otherVars, histVars
  <2> QED BY <2>1, <2>2, <2>3 DEF TypeInv
<1>6. ASSUME NEW a \in Cancellable, Cancel(a) PROVE TypeInv'
  <2>1. TypeOK'
    BY <1>6 DEF Placed, Judged, Items, Runs, Conversation, Closed, Answered, Dropped, Alive, Cancel, submitVars, loopVars, storeVars, otherVars
  <2>2. Placed'
    BY <1>6 DEF Placed, Items, Alive, Runs, Cancel, submitVars, loopVars, storeVars, otherVars
  <2>3. Judged'
    BY <1>6 DEF Placed, Judged, Items, Alive, Closed, Answered, Dropped, Cancel, submitVars, loopVars, storeVars, otherVars
  <2> QED BY <2>1, <2>2, <2>3 DEF TypeInv
<1>7. ASSUME NEW g \in Loops, GenSupersede(g) PROVE TypeInv'
  <2>1. TypeOK'
    <3>1. PICK r \in buffer[g] : held' = [held EXCEPT ![g] = r] /\ DropRuns(buffer[g] \ {r}, "cancelled")
                                 /\ tracked' = tracked \ (buffer[g] \ {r})
                                 /\ replaced' = replaced \cup (buffer[g] \ {r})
      BY <1>7 DEF GenSupersede
    <3>2. held' \in [Loops -> Requests \cup {NoRequest}] /\ tracked' \subseteq Requests \cup Directs
          /\ replaced' \subseteq Requests
      BY <3>1
    <3>3. runs' \in [Runs -> {"absent", "running"} \cup Closed]
      BY <3>1 DEF DropRuns, Closed, Dropped
    <3>4. done' \in [Runs -> {"none", "open"} \cup Closed]
      BY <3>1 DEF DropRuns, Closed, Dropped
    <3>5. phase' \in [Loops -> Alive \cup {"unborn", "exited", "gone"}]
          /\ buffer' \in [Loops -> SUBSET Requests]
      BY <1>7 DEF GenSupersede, Alive
    <3>6. UNCHANGED <<basis, log, epoch>>
      BY <3>1 DEF DropRuns
    <3> QED
      BY <1>7, <3>2, <3>3, <3>4, <3>5, <3>6 DEF GenSupersede, submitVars, otherVars
  <2>2. Placed'
    BY <1>7 DEF Placed, Items, Alive, Runs, GenSupersede, DropRuns, submitVars, otherVars
  <2>3. Judged'
    BY <1>7 DEF Placed, Judged, Items, Alive, Closed, Answered, Dropped, GenSupersede, DropRuns, submitVars, otherVars
  <2> QED BY <2>1, <2>2, <2>3 DEF TypeInv
<1>8. ASSUME NEW g \in Loops, Prepare(g) PROVE TypeInv'
  <2>1. TypeOK'
    BY <1>8 DEF Placed, Judged, Items, Runs, Conversation, Closed, Answered, Dropped, Alive, Prepare, Now, submitVars, turnVars, otherVars, histVars
  <2>2. Placed'
    BY <1>8 DEF Placed, Items, Alive, Runs, Prepare, Now, submitVars, turnVars, otherVars, histVars
  <2>3. Judged'
    BY <1>8 DEF Placed, Judged, Items, Alive, Closed, Answered, Dropped, Prepare, Now, submitVars, turnVars, otherVars, histVars
  <2> QED BY <2>1, <2>2, <2>3 DEF TypeInv
<1>9. ASSUME NEW g \in Loops, TurnEnd(g) PROVE TypeInv'
  <2>1. TypeOK'
    <3>1. preempt' \in [Loops -> BOOLEAN]
      <4>1. PICK closed \in BOOLEAN : preempt' = [preempt EXCEPT ![g] = closed]
        BY <1>9, preempt[g] \in BOOLEAN DEF TurnEnd
      <4> QED BY <4>1
    <3>2. result' \in [Requests -> {"none", "answered", "paused", "error", "cut"} \cup Closed]
      BY <1>9 DEF TurnEnd
    <3>3. phase' \in [Loops -> Alive \cup {"unborn", "exited", "gone"}]
      BY <1>9 DEF TurnEnd, Alive
    <3> QED
      BY <1>9, <3>1, <3>2, <3>3 DEF Runs, TurnEnd, submitVars, storeVars, otherVars, histVars
  <2>2. Placed'
    BY <1>9 DEF Placed, Items, Alive, Runs, TurnEnd, submitVars, storeVars, otherVars, histVars
  <2>3. Judged'
    BY <1>9 DEF Placed, Judged, Items, Alive, Closed, Answered, Dropped, TurnEnd, submitVars, storeVars, otherVars, histVars
  <2> QED BY <2>1, <2>2, <2>3 DEF TypeInv
<1>10. ASSUME NEW g \in Loops, TurnCut(g) PROVE TypeInv'
  <2>1. TypeOK'
    BY <1>10 DEF Placed, Judged, Items, Runs, Conversation, Closed, Answered, Dropped, Alive, TurnCut, submitVars, storeVars, otherVars, histVars
  <2>2. Placed'
    BY <1>10 DEF Placed, Items, Alive, Runs, TurnCut, submitVars, storeVars, otherVars, histVars
  <2>3. Judged'
    BY <1>10 DEF Placed, Judged, Items, Alive, Closed, Answered, Dropped, TurnCut, submitVars, storeVars, otherVars, histVars
  <2> QED BY <2>1, <2>2, <2>3 DEF TypeInv
<1>11. ASSUME NEW g \in Loops, JudgeTurn(g) PROVE TypeInv'
  <2>1. TypeOK'
    <3>1. StatusOf(held[g]) \in Closed
      BY DEF StatusOf, Closed, Answered, Dropped
    <3>2. held[g] \in Requests
      BY <1>11 DEF JudgeTurn, Placed, Alive
    <3>3. result' \in [Requests -> {"none", "answered", "paused", "error", "cut"} \cup Closed]
      BY <1>11, <3>1, <3>2 DEF JudgeTurn, Closed, Answered, Dropped
    <3>4. replaced' \subseteq Requests
      BY <1>11, <3>2 DEF JudgeTurn
    <3> QED
      BY <1>11, <3>3, <3>4 DEF Alive, JudgeTurn, submitVars, storeVars, otherVars
  <2>2. Placed'
    BY <1>11 DEF Placed, Items, Alive, Runs, JudgeTurn, StatusOf, submitVars, storeVars, otherVars
  <2>3. Judged'
    BY <1>11 DEF Placed, Judged, Items, Alive, Closed, Answered, Dropped, JudgeTurn, StatusOf, submitVars, storeVars, otherVars
  <2> QED BY <2>1, <2>2, <2>3 DEF TypeInv
<1>12. ASSUME NEW g \in Loops, RecordTurn(g) PROVE TypeInv'
  <2>1. TypeOK'
    <3>1. held[g] \in Runs /\ result[held[g]] \in Closed
      BY <1>12 DEF RecordTurn, Placed, Judged, Alive, Runs
    <3>2. phase' \in [Loops -> Alive \cup {"unborn", "exited", "gone"}]
      BY <1>12 DEF RecordTurn, Alive
    <3> QED
      BY <1>12, <3>1, <3>2, FinishRunTyped
      DEF Turns, RecordTurn, submitVars, turnVars, otherVars, histVars
  <2>2. Placed'
    BY <1>12 DEF Placed, Items, Alive, Runs, RecordTurn, FinishRun, submitVars, turnVars, otherVars, histVars
  <2>3. Judged'
    BY <1>12 DEF Placed, Judged, Items, Alive, Closed, Answered, Dropped, RecordTurn, FinishRun, submitVars, turnVars, otherVars, histVars
  <2> QED BY <2>1, <2>2, <2>3 DEF TypeInv
<1>13. ASSUME NEW g \in Loops, ReleaseTurn(g) PROVE TypeInv'
  <2>1. TypeOK'
    BY <1>13 DEF Placed, Judged, Items, Runs, Conversation, Closed, Answered, Dropped, Alive, ReleaseTurn, ReleaseSession, submitVars, storeVars, otherVars, histVars
  <2>2. Placed'
    BY <1>13 DEF Placed, Items, Alive, Runs, ReleaseTurn, ReleaseSession, submitVars, storeVars, otherVars, histVars
  <2>3. Judged'
    BY <1>13 DEF Placed, Judged, Items, Alive, Closed, Answered, Dropped, ReleaseTurn, ReleaseSession, submitVars, storeVars, otherVars, histVars
  <2> QED BY <2>1, <2>2, <2>3 DEF TypeInv
<1>14. ASSUME NEW g \in Loops, ClearActive(g) PROVE TypeInv'
  <2>1. TypeOK'
    BY <1>14 DEF Placed, Judged, Items, Runs, Conversation, Closed, Answered, Dropped, Alive, ClearActive, submitVars, turnVars, storeVars, otherVars, histVars
  <2>2. Placed'
    BY <1>14 DEF Placed, Items, Alive, Runs, ClearActive, submitVars, turnVars, storeVars, otherVars, histVars
  <2>3. Judged'
    BY <1>14 DEF Placed, Judged, Items, Alive, Closed, Answered, Dropped, ClearActive, submitVars, turnVars, storeVars, otherVars, histVars
  <2> QED BY <2>1, <2>2, <2>3 DEF TypeInv
<1>15. ASSUME NEW g \in Loops, GenAcquire(g) PROVE TypeInv'
  <2>1. TypeOK'
    BY <1>15 DEF Placed, Judged, Items, Runs, Conversation, Closed, Answered, Dropped, Alive, GenAcquire, submitVars, turnVars, storeVars, otherVars, histVars
  <2>2. Placed'
    BY <1>15 DEF Placed, Items, Alive, Runs, GenAcquire, submitVars, turnVars, storeVars, otherVars, histVars
  <2>3. Judged'
    BY <1>15 DEF Placed, Judged, Items, Alive, Closed, Answered, Dropped, GenAcquire, submitVars, turnVars, storeVars, otherVars, histVars
  <2> QED BY <2>1, <2>2, <2>3 DEF TypeInv
<1>16. ASSUME NEW g \in Loops, LoopExit(g) PROVE TypeInv'
  <2>1. TypeOK'
    BY <1>16 DEF Placed, Judged, Items, Runs, Conversation, Closed, Answered, Dropped, Alive, LoopExit, submitVars, turnVars, storeVars, otherVars, histVars
  <2>2. Placed'
    BY <1>16 DEF Placed, Items, Alive, Runs, LoopExit, submitVars, turnVars, storeVars, otherVars, histVars
  <2>3. Judged'
    BY <1>16 DEF Placed, Judged, Items, Alive, Closed, Answered, Dropped, LoopExit, submitVars, turnVars, storeVars, otherVars, histVars
  <2> QED BY <2>1, <2>2, <2>3 DEF TypeInv
<1>17. ASSUME NEW g \in Loops, WatchFinish(g) PROVE TypeInv'
  <2>1. TypeOK'
    BY <1>17 DEF Placed, Judged, Items, Runs, Conversation, Closed, Answered, Dropped, Alive, WatchFinish, DropRuns, ReleaseSession, submitVars, storeVars, otherVars, histVars
  <2>2. Placed'
    BY <1>17 DEF Placed, Items, Alive, Runs, WatchFinish, DropRuns, ReleaseSession, submitVars, storeVars, otherVars, histVars
  <2>3. Judged'
    BY <1>17 DEF Placed, Judged, Items, Alive, Closed, Answered, Dropped, WatchFinish, DropRuns, ReleaseSession, submitVars, storeVars, otherVars, histVars
  <2> QED BY <2>1, <2>2, <2>3 DEF TypeInv
<1>18. ASSUME NEW g \in Loops, Forget(g) PROVE TypeInv'
  <2>1. TypeOK'
    BY <1>18 DEF Placed, Judged, Items, Runs, Conversation, Closed, Answered, Dropped, Alive, Forget, submitVars, turnVars, storeVars, otherVars, histVars
  <2>2. Placed'
    BY <1>18 DEF Placed, Items, Alive, Runs, Forget, submitVars, turnVars, storeVars, otherVars, histVars
  <2>3. Judged'
    BY <1>18 DEF Placed, Judged, Items, Alive, Closed, Answered, Dropped, Forget, submitVars, turnVars, storeVars, otherVars, histVars
  <2> QED BY <2>1, <2>2, <2>3 DEF TypeInv
<1>19. ASSUME NEW d \in Directs, DirectAccept(d) PROVE TypeInv'
  <2>1. TypeOK'
    BY <1>19 DEF Placed, Judged, Items, Runs, Conversation, Closed, Answered, Dropped, Alive, DirectAccept, StartRun, submitVars, loopVars, histVars
  <2>2. Placed'
    BY <1>19 DEF Placed, Items, Alive, Runs, DirectAccept, StartRun, submitVars, loopVars, histVars
  <2>3. Judged'
    BY <1>19 DEF Placed, Judged, Items, Alive, Closed, Answered, Dropped, DirectAccept, StartRun, submitVars, loopVars, histVars
  <2> QED BY <2>1, <2>2, <2>3 DEF TypeInv
<1>20. ASSUME NEW d \in Directs, DirectBegin(d) PROVE TypeInv'
  <2>1. TypeOK'
    <3>1. basis' \in [Runs -> Conversation]
      BY <1>20, NowTyped DEF DirectBegin
    <3>2. /\ runs' \in [Runs -> {"absent", "running"} \cup Closed]
          /\ done' \in [Runs -> {"none", "open"} \cup Closed]
      BY <1>20 DEF DirectBegin, StartRun
    <3> QED
      BY <1>20, <3>1, <3>2 DEF Runs, DirectBegin, submitVars, loopVars, histVars
  <2>2. Placed'
    BY <1>20 DEF Placed, Items, Alive, Runs, DirectBegin, StartRun, Now, submitVars, loopVars, histVars
  <2>3. Judged'
    BY <1>20 DEF Placed, Judged, Items, Alive, Closed, Answered, Dropped, DirectBegin, StartRun, Now, submitVars, loopVars, histVars
  <2> QED BY <2>1, <2>2, <2>3 DEF TypeInv
<1>21. ASSUME NEW d \in Directs, DirectRecord(d) PROVE TypeInv'
  <2>1. TypeOK'
    <3>1. PICK st \in Closed : FinishRun(d, st)
      BY <1>21 DEF DirectRecord
    <3>2. d \in Runs
      BY DEF Runs
    <3> QED
      BY <1>21, <3>1, <3>2, FinishRunTyped
      DEF Turns, DirectRecord, submitVars, loopVars, turnVars, histVars
  <2>2. Placed'
    BY <1>21 DEF Placed, Items, Alive, Runs, DirectRecord, FinishRun, submitVars, loopVars, turnVars, histVars
  <2>3. Judged'
    BY <1>21 DEF Placed, Judged, Items, Alive, Closed, Answered, Dropped, DirectRecord, FinishRun, submitVars, loopVars, turnVars, histVars
  <2> QED BY <2>1, <2>2, <2>3 DEF TypeInv
<1>22. ASSUME NEW d \in Directs, DirectUnlock(d) PROVE TypeInv'
  <2>1. TypeOK'
    BY <1>22 DEF Placed, Judged, Items, Runs, Conversation, Closed, Answered, Dropped, Alive, DirectUnlock, submitVars, loopVars, storeVars, histVars
  <2>2. Placed'
    BY <1>22 DEF Placed, Items, Alive, Runs, DirectUnlock, submitVars, loopVars, storeVars, histVars
  <2>3. Judged'
    BY <1>22 DEF Placed, Judged, Items, Alive, Closed, Answered, Dropped, DirectUnlock, submitVars, loopVars, storeVars, histVars
  <2> QED BY <2>1, <2>2, <2>3 DEF TypeInv
<1>23. ASSUME NEW h \in Resets, ResetDetach(h) PROVE TypeInv'
  <2>1. TypeOK'
    BY <1>23 DEF Placed, Judged, Items, Runs, Conversation, Closed, Answered, Dropped, Alive, ResetDetach, submitVars, loopVars, turnVars, storeVars, histVars
  <2>2. Placed'
    BY <1>23 DEF Placed, Items, Alive, Runs, ResetDetach, submitVars, loopVars, turnVars, storeVars, histVars
  <2>3. Judged'
    BY <1>23 DEF Placed, Judged, Items, Alive, Closed, Answered, Dropped, ResetDetach, submitVars, loopVars, turnVars, storeVars, histVars
  <2> QED BY <2>1, <2>2, <2>3 DEF TypeInv
<1>24. ASSUME NEW h \in Resets, ResetStop(h) PROVE TypeInv'
  <2>1. TypeOK'
    BY <1>24 DEF Placed, Judged, Items, Runs, Conversation, Closed, Answered, Dropped, Alive, ResetStop, submitVars, turnVars, storeVars, histVars
  <2>2. Placed'
    BY <1>24 DEF Placed, Items, Alive, Runs, ResetStop, submitVars, turnVars, storeVars, histVars
  <2>3. Judged'
    BY <1>24 DEF Placed, Judged, Items, Alive, Closed, Answered, Dropped, ResetStop, submitVars, turnVars, storeVars, histVars
  <2> QED BY <2>1, <2>2, <2>3 DEF TypeInv
<1>25. ASSUME NEW h \in Resets, ResetWait(h) PROVE TypeInv'
  <2>1. TypeOK'
    BY <1>25 DEF Placed, Judged, Items, Runs, Conversation, Closed, Answered, Dropped, Alive, ResetWait, submitVars, loopVars, turnVars, storeVars, histVars
  <2>2. Placed'
    BY <1>25 DEF Placed, Items, Alive, Runs, ResetWait, submitVars, loopVars, turnVars, storeVars, histVars
  <2>3. Judged'
    BY <1>25 DEF Placed, Judged, Items, Alive, Closed, Answered, Dropped, ResetWait, submitVars, loopVars, turnVars, storeVars, histVars
  <2> QED BY <2>1, <2>2, <2>3 DEF TypeInv
<1>26. ASSUME NEW h \in Resets, ResetClear(h) PROVE TypeInv'
  <2>1. TypeOK'
    <3>1. log' \in Seq(Turns) /\ epoch' \in Nat
      BY <1>26, SingletonSeq DEF ResetClear
    <3>2. /\ runs' \in [Runs -> {"absent", "running"} \cup Closed]
          /\ done' \in [Runs -> {"none", "open"} \cup Closed]
          /\ lock' \in Runs \cup {Nobody}
          /\ rpc' \in [Resets -> {"idle", "detached", "waiting", "locking", "cleared", "done"}]
      <4>1. h \in Runs /\ [b \in Runs |-> "absent"] \in [Runs -> {"absent", "running"} \cup Closed]
        BY DEF Runs
      <4> HIDE DEF Runs
      <4>2. /\ runs' \in [Runs -> {"absent", "running"} \cup Closed]
            /\ done' \in [Runs -> {"none", "open"} \cup Closed]
        BY <1>26, <4>1 DEF ResetClear
      <4>3. /\ lock' \in Runs \cup {Nobody}
            /\ rpc' \in [Resets -> {"idle", "detached", "waiting", "locking", "cleared", "done"}]
        BY <1>26, <4>1 DEF ResetClear
      <4> QED
        BY <4>2, <4>3
    <3> QED
      BY <1>26, <3>1, <3>2 DEF Turns, ResetClear, submitVars, loopVars, turnVars, histVars
  <2>2. Placed'
    BY <1>26 DEF Placed, Items, Alive, Runs, ResetClear, submitVars, loopVars, turnVars, histVars
  <2>3. Judged'
    BY <1>26 DEF Placed, Judged, Items, Alive, Closed, Answered, Dropped, ResetClear, submitVars, loopVars, turnVars, histVars
  <2> QED BY <2>1, <2>2, <2>3 DEF TypeInv
<1>27. ASSUME NEW h \in Resets, ResetReply(h) PROVE TypeInv'
  <2>1. TypeOK'
    BY <1>27 DEF Placed, Judged, Items, Runs, Conversation, Closed, Answered, Dropped, Alive, ResetReply, submitVars, loopVars, turnVars, histVars
  <2>2. Placed'
    BY <1>27 DEF Placed, Items, Alive, Runs, ResetReply, submitVars, loopVars, turnVars, histVars
  <2>3. Judged'
    BY <1>27 DEF Placed, Judged, Items, Alive, Closed, Answered, Dropped, ResetReply, submitVars, loopVars, turnVars, histVars
  <2> QED BY <2>1, <2>2, <2>3 DEF TypeInv
<1> QED
  BY <1>1, <1>2, <1>3, <1>4, <1>5, <1>6, <1>7, <1>8, <1>9, <1>10, <1>11, <1>12, <1>13, <1>14, <1>15, <1>16, <1>17, <1>18, <1>19, <1>20, <1>21, <1>22, <1>23, <1>24, <1>25, <1>26, <1>27
  DEF Next, SubmitStep, LoopStep, DirectStep, ResetStep

-----------------------------------------------------------------------------
(* Whoever is inside a turn owns the session lock.                         *)
LEMMA OwnedStep ==
  ASSUME TypeInv, Owned, Next
  PROVE  Owned'
<1> USE TurnLoopAssumption DEF TypeInv, TypeOK, Placed, Items, Runs, Alive, Owned, InTurn
<1>1. ASSUME NEW r \in Requests, Enqueue(r) PROVE Owned'
  BY <1>1 DEF Enqueue, StartRun, loopVars, otherVars, histVars
<1>2. ASSUME NEW r \in Requests, Route(r) PROVE Owned'
  BY <1>2 DEF Route, turnVars, storeVars, otherVars, histVars
<1>3. ASSUME NEW r \in Requests, Mark(r) PROVE Owned'
  BY <1>3 DEF Mark, Base, turnVars, storeVars, otherVars
<1>4. ASSUME NEW r \in Requests, Push(r) PROVE Owned'
  BY <1>4 DEF Push, Stopped, turnVars, storeVars, otherVars, histVars
<1>5. ASSUME NEW r \in Requests, Reject(r) PROVE Owned'
  BY <1>5 DEF Reject, Stopped, DropRuns, loopVars, otherVars, histVars
<1>6. ASSUME NEW a \in Cancellable, Cancel(a) PROVE Owned'
  BY <1>6 DEF Cancel, submitVars, loopVars, storeVars, otherVars
<1>7. ASSUME NEW g \in Loops, GenSupersede(g) PROVE Owned'
  BY <1>7 DEF GenSupersede, DropRuns, submitVars, otherVars
<1>8. ASSUME NEW g \in Loops, Prepare(g) PROVE Owned'
  BY <1>8 DEF Prepare, Now, submitVars, turnVars, otherVars, histVars
<1>9. ASSUME NEW g \in Loops, TurnEnd(g) PROVE Owned'
  BY <1>9 DEF TurnEnd, submitVars, storeVars, otherVars, histVars
<1>10. ASSUME NEW g \in Loops, TurnCut(g) PROVE Owned'
  BY <1>10 DEF TurnCut, submitVars, storeVars, otherVars, histVars
<1>11. ASSUME NEW g \in Loops, JudgeTurn(g) PROVE Owned'
  BY <1>11 DEF JudgeTurn, StatusOf, submitVars, storeVars, otherVars
<1>12. ASSUME NEW g \in Loops, RecordTurn(g) PROVE Owned'
  BY <1>12 DEF RecordTurn, FinishRun, submitVars, turnVars, otherVars, histVars
<1>13. ASSUME NEW g \in Loops, ReleaseTurn(g) PROVE Owned'
  BY <1>13 DEF ReleaseTurn, ReleaseSession, submitVars, storeVars, otherVars, histVars
<1>14. ASSUME NEW g \in Loops, ClearActive(g) PROVE Owned'
  BY <1>14 DEF ClearActive, submitVars, turnVars, storeVars, otherVars, histVars
<1>15. ASSUME NEW g \in Loops, GenAcquire(g) PROVE Owned'
  BY <1>15 DEF GenAcquire, submitVars, turnVars, storeVars, otherVars, histVars
<1>16. ASSUME NEW g \in Loops, LoopExit(g) PROVE Owned'
  BY <1>16 DEF LoopExit, submitVars, turnVars, storeVars, otherVars, histVars
<1>17. ASSUME NEW g \in Loops, WatchFinish(g) PROVE Owned'
  <2>1. PICK r \in left[g] :
         lock' = (IF done[r] = "open" THEN IF lock = r THEN Nobody ELSE lock ELSE lock)
    BY <1>17 DEF WatchFinish, ReleaseSession
  <2>2. phase[g] = "exited" /\ home[r] = g /\ r \in Requests
    BY <2>1
  <2>3. ASSUME NEW f \in Loops, InTurn(f), held[f] = r PROVE FALSE
    <3>1. r \in Items(f) /\ f # g
      BY <2>2, <2>3
    <3>2. home[r] = f
      BY <3>1 DEF Placed
    <3> QED BY <2>2, <3>1, <3>2
  <2>4. UNCHANGED <<phase, held, dpc, rpc>>
    BY <1>17 DEF WatchFinish, otherVars
  <2> QED
    BY <2>1, <2>2, <2>3, <2>4
<1>18. ASSUME NEW g \in Loops, Forget(g) PROVE Owned'
  BY <1>18 DEF Forget, submitVars, turnVars, storeVars, otherVars, histVars
<1>19. ASSUME NEW d \in Directs, DirectAccept(d) PROVE Owned'
  BY <1>19 DEF DirectAccept, StartRun, submitVars, loopVars, histVars
<1>20. ASSUME NEW d \in Directs, DirectBegin(d) PROVE Owned'
  BY <1>20 DEF DirectBegin, StartRun, Now, submitVars, loopVars, histVars
<1>21. ASSUME NEW d \in Directs, DirectRecord(d) PROVE Owned'
  BY <1>21 DEF DirectRecord, FinishRun, submitVars, loopVars, turnVars, histVars
<1>22. ASSUME NEW d \in Directs, DirectUnlock(d) PROVE Owned'
  BY <1>22 DEF DirectUnlock, submitVars, loopVars, storeVars, histVars
<1>23. ASSUME NEW h \in Resets, ResetDetach(h) PROVE Owned'
  BY <1>23 DEF ResetDetach, submitVars, loopVars, turnVars, storeVars, histVars
<1>24. ASSUME NEW h \in Resets, ResetStop(h) PROVE Owned'
  BY <1>24 DEF ResetStop, submitVars, turnVars, storeVars, histVars
<1>25. ASSUME NEW h \in Resets, ResetWait(h) PROVE Owned'
  BY <1>25 DEF ResetWait, submitVars, loopVars, turnVars, storeVars, histVars
<1>26. ASSUME NEW h \in Resets, ResetClear(h) PROVE Owned'
  BY <1>26 DEF ResetClear, submitVars, loopVars, turnVars, histVars
<1>27. ASSUME NEW h \in Resets, ResetReply(h) PROVE Owned'
  BY <1>27 DEF ResetReply, submitVars, loopVars, turnVars, histVars
<1> QED
  BY <1>1, <1>2, <1>3, <1>4, <1>5, <1>6, <1>7, <1>8, <1>9, <1>10, <1>11, <1>12, <1>13, <1>14, <1>15, <1>16, <1>17, <1>18, <1>19, <1>20, <1>21, <1>22, <1>23, <1>24, <1>25, <1>26, <1>27
  DEF Next, SubmitStep, LoopStep, DirectStep, ResetStep

(* What a turn was restored from is still the conversation when it is       *)
(* judged: only an owner of the lock appends, and owners are unique.       *)
LEMMA FreshStep ==
  ASSUME TypeInv, Owned, Fresh, Next
  PROVE  Fresh'
<1> USE TurnLoopAssumption DEF TypeInv, TypeOK, Placed, Items, Runs, Alive, Owned, InTurn, Computing, Fresh, Now
<1>1. ASSUME NEW r \in Requests, Enqueue(r) PROVE Fresh'
  BY <1>1 DEF Enqueue, StartRun, loopVars, otherVars, histVars
<1>2. ASSUME NEW r \in Requests, Route(r) PROVE Fresh'
  BY <1>2 DEF Route, turnVars, storeVars, otherVars, histVars
<1>3. ASSUME NEW r \in Requests, Mark(r) PROVE Fresh'
  BY <1>3 DEF Mark, Base, turnVars, storeVars, otherVars
<1>4. ASSUME NEW r \in Requests, Push(r) PROVE Fresh'
  BY <1>4 DEF Push, Stopped, turnVars, storeVars, otherVars, histVars
<1>5. ASSUME NEW r \in Requests, Reject(r) PROVE Fresh'
  BY <1>5 DEF Reject, Stopped, DropRuns, loopVars, otherVars, histVars
<1>6. ASSUME NEW a \in Cancellable, Cancel(a) PROVE Fresh'
  BY <1>6 DEF Cancel, submitVars, loopVars, storeVars, otherVars
<1>7. ASSUME NEW g \in Loops, GenSupersede(g) PROVE Fresh'
  BY <1>7 DEF GenSupersede, DropRuns, submitVars, otherVars
<1>8. ASSUME NEW g \in Loops, Prepare(g) PROVE Fresh'
  BY <1>8 DEF Prepare, Now, submitVars, turnVars, otherVars, histVars
<1>9. ASSUME NEW g \in Loops, TurnEnd(g) PROVE Fresh'
  BY <1>9 DEF TurnEnd, submitVars, storeVars, otherVars, histVars
<1>10. ASSUME NEW g \in Loops, TurnCut(g) PROVE Fresh'
  BY <1>10 DEF TurnCut, submitVars, storeVars, otherVars, histVars
<1>11. ASSUME NEW g \in Loops, JudgeTurn(g) PROVE Fresh'
  BY <1>11 DEF JudgeTurn, StatusOf, submitVars, storeVars, otherVars
<1>12. ASSUME NEW g \in Loops, RecordTurn(g) PROVE Fresh'
  BY <1>12 DEF RecordTurn, FinishRun, submitVars, turnVars, otherVars, histVars
<1>13. ASSUME NEW g \in Loops, ReleaseTurn(g) PROVE Fresh'
  BY <1>13 DEF ReleaseTurn, ReleaseSession, submitVars, storeVars, otherVars, histVars
<1>14. ASSUME NEW g \in Loops, ClearActive(g) PROVE Fresh'
  BY <1>14 DEF ClearActive, submitVars, turnVars, storeVars, otherVars, histVars
<1>15. ASSUME NEW g \in Loops, GenAcquire(g) PROVE Fresh'
  BY <1>15 DEF GenAcquire, submitVars, turnVars, storeVars, otherVars, histVars
<1>16. ASSUME NEW g \in Loops, LoopExit(g) PROVE Fresh'
  BY <1>16 DEF LoopExit, submitVars, turnVars, storeVars, otherVars, histVars
<1>17. ASSUME NEW g \in Loops, WatchFinish(g) PROVE Fresh'
  BY <1>17 DEF WatchFinish, DropRuns, ReleaseSession, submitVars, storeVars, otherVars, histVars
<1>18. ASSUME NEW g \in Loops, Forget(g) PROVE Fresh'
  BY <1>18 DEF Forget, submitVars, turnVars, storeVars, otherVars, histVars
<1>19. ASSUME NEW d \in Directs, DirectAccept(d) PROVE Fresh'
  BY <1>19 DEF DirectAccept, StartRun, submitVars, loopVars, histVars
<1>20. ASSUME NEW d \in Directs, DirectBegin(d) PROVE Fresh'
  BY <1>20 DEF DirectBegin, StartRun, Now, submitVars, loopVars, histVars
<1>21. ASSUME NEW d \in Directs, DirectRecord(d) PROVE Fresh'
  BY <1>21 DEF DirectRecord, FinishRun, submitVars, loopVars, turnVars, histVars
<1>22. ASSUME NEW d \in Directs, DirectUnlock(d) PROVE Fresh'
  BY <1>22 DEF DirectUnlock, submitVars, loopVars, storeVars, histVars
<1>23. ASSUME NEW h \in Resets, ResetDetach(h) PROVE Fresh'
  BY <1>23 DEF ResetDetach, submitVars, loopVars, turnVars, storeVars, histVars
<1>24. ASSUME NEW h \in Resets, ResetStop(h) PROVE Fresh'
  BY <1>24 DEF ResetStop, submitVars, turnVars, storeVars, histVars
<1>25. ASSUME NEW h \in Resets, ResetWait(h) PROVE Fresh'
  BY <1>25 DEF ResetWait, submitVars, loopVars, turnVars, storeVars, histVars
<1>26. ASSUME NEW h \in Resets, ResetClear(h) PROVE Fresh'
  BY <1>26 DEF ResetClear, submitVars, loopVars, turnVars, histVars
<1>27. ASSUME NEW h \in Resets, ResetReply(h) PROVE Fresh'
  BY <1>27 DEF ResetReply, submitVars, loopVars, turnVars, histVars
<1> QED
  BY <1>1, <1>2, <1>3, <1>4, <1>5, <1>6, <1>7, <1>8, <1>9, <1>10, <1>11, <1>12, <1>13, <1>14, <1>15, <1>16, <1>17, <1>18, <1>19, <1>20, <1>21, <1>22, <1>23, <1>24, <1>25, <1>26, <1>27
  DEF Next, SubmitStep, LoopStep, DirectStep, ResetStep

(* So an appended turn continues the conversation.                         *)
LEMMA LogSerialStep ==
  ASSUME TypeInv, Fresh, LogSerial, Next
  PROVE  LogSerial'
<1> USE TurnLoopAssumption DEF TypeInv, TypeOK, Placed, Items, Runs, Alive, Computing, Fresh, Now, LogSerial
<1>1. ASSUME NEW r \in Requests, Enqueue(r) PROVE LogSerial'
  BY <1>1 DEF Enqueue, StartRun, loopVars, otherVars, histVars
<1>2. ASSUME NEW r \in Requests, Route(r) PROVE LogSerial'
  BY <1>2 DEF Route, turnVars, storeVars, otherVars, histVars
<1>3. ASSUME NEW r \in Requests, Mark(r) PROVE LogSerial'
  BY <1>3 DEF Mark, Base, turnVars, storeVars, otherVars
<1>4. ASSUME NEW r \in Requests, Push(r) PROVE LogSerial'
  BY <1>4 DEF Push, Stopped, turnVars, storeVars, otherVars, histVars
<1>5. ASSUME NEW r \in Requests, Reject(r) PROVE LogSerial'
  BY <1>5 DEF Reject, Stopped, DropRuns, loopVars, otherVars, histVars
<1>6. ASSUME NEW a \in Cancellable, Cancel(a) PROVE LogSerial'
  BY <1>6 DEF Cancel, submitVars, loopVars, storeVars, otherVars
<1>7. ASSUME NEW g \in Loops, GenSupersede(g) PROVE LogSerial'
  BY <1>7 DEF GenSupersede, DropRuns, submitVars, otherVars
<1>8. ASSUME NEW g \in Loops, Prepare(g) PROVE LogSerial'
  BY <1>8 DEF Prepare, Now, submitVars, turnVars, otherVars, histVars
<1>9. ASSUME NEW g \in Loops, TurnEnd(g) PROVE LogSerial'
  BY <1>9 DEF TurnEnd, submitVars, storeVars, otherVars, histVars
<1>10. ASSUME NEW g \in Loops, TurnCut(g) PROVE LogSerial'
  BY <1>10 DEF TurnCut, submitVars, storeVars, otherVars, histVars
<1>11. ASSUME NEW g \in Loops, JudgeTurn(g) PROVE LogSerial'
  BY <1>11 DEF JudgeTurn, StatusOf, submitVars, storeVars, otherVars
<1>12. ASSUME NEW g \in Loops, RecordTurn(g) PROVE LogSerial'
  BY <1>12 DEF RecordTurn, FinishRun, submitVars, turnVars, otherVars, histVars
<1>13. ASSUME NEW g \in Loops, ReleaseTurn(g) PROVE LogSerial'
  BY <1>13 DEF ReleaseTurn, ReleaseSession, submitVars, storeVars, otherVars, histVars
<1>14. ASSUME NEW g \in Loops, ClearActive(g) PROVE LogSerial'
  BY <1>14 DEF ClearActive, submitVars, turnVars, storeVars, otherVars, histVars
<1>15. ASSUME NEW g \in Loops, GenAcquire(g) PROVE LogSerial'
  BY <1>15 DEF GenAcquire, submitVars, turnVars, storeVars, otherVars, histVars
<1>16. ASSUME NEW g \in Loops, LoopExit(g) PROVE LogSerial'
  BY <1>16 DEF LoopExit, submitVars, turnVars, storeVars, otherVars, histVars
<1>17. ASSUME NEW g \in Loops, WatchFinish(g) PROVE LogSerial'
  BY <1>17 DEF WatchFinish, DropRuns, ReleaseSession, submitVars, storeVars, otherVars, histVars
<1>18. ASSUME NEW g \in Loops, Forget(g) PROVE LogSerial'
  BY <1>18 DEF Forget, submitVars, turnVars, storeVars, otherVars, histVars
<1>19. ASSUME NEW d \in Directs, DirectAccept(d) PROVE LogSerial'
  BY <1>19 DEF DirectAccept, StartRun, submitVars, loopVars, histVars
<1>20. ASSUME NEW d \in Directs, DirectBegin(d) PROVE LogSerial'
  BY <1>20 DEF DirectBegin, StartRun, Now, submitVars, loopVars, histVars
<1>21. ASSUME NEW d \in Directs, DirectRecord(d) PROVE LogSerial'
  BY <1>21 DEF DirectRecord, FinishRun, submitVars, loopVars, turnVars, histVars
<1>22. ASSUME NEW d \in Directs, DirectUnlock(d) PROVE LogSerial'
  BY <1>22 DEF DirectUnlock, submitVars, loopVars, storeVars, histVars
<1>23. ASSUME NEW h \in Resets, ResetDetach(h) PROVE LogSerial'
  BY <1>23 DEF ResetDetach, submitVars, loopVars, turnVars, storeVars, histVars
<1>24. ASSUME NEW h \in Resets, ResetStop(h) PROVE LogSerial'
  BY <1>24 DEF ResetStop, submitVars, turnVars, storeVars, histVars
<1>25. ASSUME NEW h \in Resets, ResetWait(h) PROVE LogSerial'
  BY <1>25 DEF ResetWait, submitVars, loopVars, turnVars, storeVars, histVars
<1>26. ASSUME NEW h \in Resets, ResetClear(h) PROVE LogSerial'
  BY <1>26 DEF ResetClear, submitVars, loopVars, turnVars, histVars
<1>27. ASSUME NEW h \in Resets, ResetReply(h) PROVE LogSerial'
  BY <1>27 DEF ResetReply, submitVars, loopVars, turnVars, histVars
<1> QED
  BY <1>1, <1>2, <1>3, <1>4, <1>5, <1>6, <1>7, <1>8, <1>9, <1>10, <1>11, <1>12, <1>13, <1>14, <1>15, <1>16, <1>17, <1>18, <1>19, <1>20, <1>21, <1>22, <1>23, <1>24, <1>25, <1>26, <1>27
  DEF Next, SubmitStep, LoopStep, DirectStep, ResetStep

-----------------------------------------------------------------------------
(* A session with no run yet satisfies the inductive invariant.            *)
LEMMA InitSerial == Init => SerialInv
BY InitTyped, TurnLoopAssumption
DEF Init, TypeInv, SerialInv, Owned, InTurn, Fresh, Computing, LogSerial

(* Steps that change nothing keep the inductive invariant.                 *)
LEMMA StutterInv ==
  ASSUME TypeOK, SerialInv, UNCHANGED vars
  PROVE  TypeOK' /\ SerialInv'
<1> USE DEF vars, submitVars, loopVars, turnVars, storeVars, otherVars, histVars
<1>1. TypeOK'
  BY DEF TypeOK
<1>2. Placed' /\ Judged'
  BY DEF SerialInv, Placed, Judged, Items
<1>3. Owned' /\ Fresh' /\ LogSerial'
  BY DEF SerialInv, Owned, InTurn, Fresh, Computing, Now, LogSerial
<1> QED
  BY <1>1, <1>2, <1>3 DEF SerialInv

(* Typing: no step of the server leaves the types of the model.  It rests   *)
(* on Placed and Judged, which say where a request can be.                 *)
THEOREM Typing == Spec => []TypeOK
<1>1. Init => TypeInv
  BY InitTyped
<1>2. TypeInv /\ [Next]_vars => TypeInv'
  <2> SUFFICES ASSUME TypeInv, [Next]_vars PROVE TypeInv'
    OBVIOUS
  <2>1. CASE Next
    BY <2>1, TypeStep
  <2>2. CASE UNCHANGED vars
    BY <2>2 DEF TypeInv, TypeOK, Placed, Judged, Items, vars, submitVars, loopVars,
                turnVars, storeVars, otherVars, histVars
  <2> QED
    BY <2>1, <2>2
<1>3. TypeInv => TypeOK
  BY DEF TypeInv
<1> QED
  BY <1>1, <1>2, <1>3, PTL DEF Spec

(* SerialInv is an invariant of the server: lock ownership, one place per   *)
(* request, and no turn computed from anything but the present              *)
(* conversation, whatever is preempted, cancelled, stopped or reset.       *)
THEOREM SerialInvariant == Spec => []SerialInv
<1>1. Init => TypeOK /\ SerialInv
  BY InitTyped, InitSerial DEF TypeInv
<1>2. TypeOK /\ SerialInv /\ [Next]_vars => (TypeOK /\ SerialInv)'
  <2> SUFFICES ASSUME TypeOK, SerialInv, [Next]_vars PROVE TypeOK' /\ SerialInv'
    OBVIOUS
  <2>1. CASE Next
    <3>1. TypeInv /\ Owned /\ Fresh /\ LogSerial
      BY DEF SerialInv, TypeInv
    <3>2. TypeInv'
      BY <2>1, <3>1, TypeStep
    <3>3. Owned' /\ Fresh' /\ LogSerial'
      BY <2>1, <3>1, OwnedStep, FreshStep, LogSerialStep
    <3> QED
      BY <3>2, <3>3 DEF SerialInv, TypeInv
  <2>2. CASE UNCHANGED vars
    BY <2>2, StutterInv
  <2> QED
    BY <2>1, <2>2
<1> QED
  BY <1>1, <1>2, PTL DEF Spec

(* The conversation of a session is serial: every answer was computed from  *)
(* exactly the turns that stand before it.                                 *)
THEOREM Serial == Spec => []LogSerial
<1>1. SerialInv => LogSerial
  BY DEF SerialInv
<1> QED
  BY <1>1, SerialInvariant, PTL

-----------------------------------------------------------------------------
(* The loop's goroutine has a request and has not recorded its outcome.     *)
Serving(g) == phase[g] \in {"locking", "planned", "running", "draining", "judged"}

(* A run is open until the one step that ends it: whoever has a request in  *)
(* hand has an open one, and nobody else has it.                           *)
Open ==
  /\ \A r \in Requests : /\ sub[r] = "new" => done[r] = "none"
                         /\ sub[r] \in {"queued", "routed", "marked"} => done[r] = "open"
  /\ \A g \in Loops : \A r \in buffer[g] : done[r] = "open"
  /\ \A g \in Loops : Serving(g) => done[held[g]] = "open" /\ held[g] \notin buffer[g]
  /\ \A g \in Loops : phase[g] \in {"unborn", "exited", "gone"} => buffer[g] = {}
  /\ \A d \in Directs : /\ dpc[d] = "idle" => done[d] = "none"
                        /\ dpc[d] \in {"queued", "busy"} => done[d] = "open"
  /\ \A h \in Resets : /\ rpc[h] \in {"idle", "detached", "waiting", "locking"} => done[h] = "none"
                       /\ rpc[h] = "cleared" => done[h] = "open"

(* A loop in the table, or one a message was routed to, has been made.      *)
Born ==
  /\ current # NoLoop => phase[current] # "unborn"
  /\ \A r \in Requests : home[r] # NoLoop => phase[home[r]] # "unborn"

(* A request has no result before its turn has ended.                      *)
Unrun ==
  /\ \A r \in Requests : sub[r] # "sent" => result[r] = "none"
  /\ \A g \in Loops : \A r \in buffer[g] : result[r] = "none"
  /\ \A g \in Loops : phase[g] \in {"locking", "planned", "running"} => result[held[g]] = "none"

(* What a request answered was judged so, before anybody cancelled it.      *)
Honest ==
  \A r \in Requests :
    /\ done[r] \in Answered => result[r] \in Closed
    /\ r \in cancelled \ tooLate => result[r] \notin Answered /\ done[r] \notin Answered

(* The loop a reset stopped has exited, and what is in the log was sent.    *)
Isolated ==
  /\ \A h \in Resets : rpc[h] \in {"locking", "cleared", "done"} /\ rtarget[h] # NoLoop =>
       phase[rtarget[h]] \in {"exited", "gone"}
  /\ \A i \in DOMAIN log : log[i].run \in Requests => sub[log[i].run] = "sent"
  /\ ResetIsolates

-----------------------------------------------------------------------------
(* What a loop's own step leaves alone: it goes from one live phase to      *)
(* another, or exits.                                                      *)
LEMMA LoopMoves ==
  ASSUME TypeInv, NEW g \in Loops,
         LoopStep(g) \/ GenAcquire(g) \/ LoopExit(g)
  PROVE  /\ phase[g] \in Alive
         /\ \E x \in Alive \cup {"exited"} : phase' = [phase EXCEPT ![g] = x]
         /\ UNCHANGED <<sub, home, stopReq, current, rpc, rtarget>>
<1> USE DEF submitVars, otherVars, Alive
<1>1. CASE GenSupersede(g)
  BY <1>1 DEF GenSupersede
<1>2. CASE Prepare(g)
  BY <1>2 DEF Prepare
<1>3. CASE TurnEnd(g)
  BY <1>3 DEF TurnEnd
<1>4. CASE TurnCut(g)
  BY <1>4 DEF TurnCut
<1>5. CASE JudgeTurn(g)
  BY <1>5 DEF JudgeTurn
<1>6. CASE RecordTurn(g)
  BY <1>6 DEF RecordTurn
<1>7. CASE ReleaseTurn(g)
  BY <1>7 DEF ReleaseTurn
<1>8. CASE ClearActive(g)
  BY <1>8 DEF ClearActive
<1>9. CASE GenAcquire(g)
  BY <1>9 DEF GenAcquire
<1>10. CASE LoopExit(g)
  BY <1>10 DEF LoopExit
<1> QED
  BY <1>1, <1>2, <1>3, <1>4, <1>5, <1>6, <1>7, <1>8, <1>9, <1>10 DEF LoopStep

(* Where requests are: a loop with a turn holds one that was sent to it, and *)
(* whatever a loop buffered or left was sent to it too.                     *)
LEMMA Places ==
  ASSUME TypeInv, NEW g \in Loops
  PROVE  /\ phase[g] \in Alive \ {"idle"} =>
              held[g] \in Requests /\ home[held[g]] = g /\ sub[held[g]] = "sent"
         /\ \A r \in buffer[g] \cup left[g] : r \in Requests /\ home[r] = g /\ sub[r] = "sent"
         /\ left[g] # {} => phase[g] = "exited"
BY TurnLoopAssumption DEF TypeInv, TypeOK, Placed, Items

(* A recorded run adds its own turn at most.                               *)
LEMMA Recorded ==
  ASSUME TypeOK, NEW a \in Runs, NEW st, FinishRun(a, st), NEW i \in DOMAIN log'
  PROVE  (i \in DOMAIN log /\ log'[i] = log[i]) \/ log'[i].run = a
<1> DEFINE new == [run |-> a, basis |-> basis[a]]
<1>1. new \in Turns /\ log \in Seq(Turns)
  BY DEF TypeOK, Turns
<1>2. new.run = a
  OBVIOUS
<1> HIDE DEF new
<1>3. CASE log' = log
  BY <1>3
<1>4. CASE log' = Append(log, new)
  <2>1. DOMAIN log' = 1..(Len(log) + 1) /\ DOMAIN log = 1..Len(log) /\ Len(log) \in Nat
    BY <1>1, <1>4
  <2>2. CASE i = Len(log) + 1
    BY <1>1, <1>2, <1>4, <2>1, <2>2
  <2>3. CASE i \in 1..Len(log)
    BY <1>1, <1>4, <2>1, <2>3
  <2> QED
    BY <2>1, <2>2, <2>3
<1> QED
  BY <1>3, <1>4 DEF FinishRun, new

(* How a turn ends: its own request gets a result.                         *)
LEMMA TurnMoves ==
  ASSUME TypeInv, NEW g \in Loops, TurnEnd(g) \/ TurnCut(g) \/ JudgeTurn(g)
  PROVE  /\ UNCHANGED <<sub, home, prompt, stamp, buffer, held, active, pending, stopReq, done>>
         /\ Serving(g) /\ held[g] \in Requests
         /\ phase'[g] \in {"draining", "judged"}
         /\ \A f \in Loops : f # g => phase'[f] = phase[f]
         /\ \A q \in Requests : q # held[g] => result'[q] = result[q]
<1> USE DEF TypeInv, TypeOK, Placed, Alive, Serving, submitVars, storeVars
<1>1. CASE TurnEnd(g)
  BY <1>1 DEF TurnEnd
<1>2. CASE TurnCut(g)
  BY <1>2 DEF TurnCut
<1>3. CASE JudgeTurn(g)
  BY <1>3 DEF JudgeTurn
<1> QED
  BY <1>1, <1>2, <1>3

-----------------------------------------------------------------------------
(* A loop comes to life in the table, leaves the table to a reset that      *)
(* stops it, and is taken out of the table by nobody else while it lives.   *)
LEMMA OrphanStep ==
  ASSUME TypeInv, NoOrphanLoop, Next
  PROVE  NoOrphanLoop'
<1> USE TurnLoopAssumption DEF TypeInv, TypeOK, NoOrphanLoop
<1>1. ASSUME NEW r \in Requests, Route(r) PROVE NoOrphanLoop'
  <2>1. PICK g \in Loops :
          /\ IF current = NoLoop THEN phase[g] = "unborn" ELSE g = current
          /\ current' = g
          /\ phase' = IF current = NoLoop THEN [phase EXCEPT ![g] = "idle"] ELSE phase
    BY <1>1 DEF Route
  <2>2. UNCHANGED <<stopReq, rpc, rtarget>>
    BY <1>1 DEF Route, otherVars
  <2>3. \A f \in Loops : f # g => phase'[f] = phase[f]
    BY <2>1
  <2>4. \A f \in Loops : f # g /\ phase[f] \in Alive /\ ~ stopReq[f] => f # current
    BY <2>1
  <2> QED
    BY <2>1, <2>2, <2>3, <2>4
<1>2. ASSUME NEW g \in Loops, LoopStep(g) \/ GenAcquire(g) \/ LoopExit(g) PROVE NoOrphanLoop'
  <2>1. /\ phase[g] \in Alive
        /\ \A f \in Loops : f # g => phase'[f] = phase[f]
        /\ UNCHANGED <<stopReq, current, rpc, rtarget>>
    BY <1>2, LoopMoves
  <2> QED
    BY <2>1
<1>3. ASSUME NEW g \in Loops, Forget(g) PROVE NoOrphanLoop'
  BY <1>3 DEF Forget, otherVars, Alive
<1>4. ASSUME NEW h \in Resets, ResetDetach(h) PROVE NoOrphanLoop'
  BY <1>4 DEF ResetDetach, loopVars
<1>5. ASSUME NEW h \in Resets, ResetStop(h) PROVE NoOrphanLoop'
  BY <1>5 DEF ResetStop
<1>6. ASSUME NEW h \in Resets, ResetWait(h) \/ ResetClear(h) \/ ResetReply(h) PROVE NoOrphanLoop'
  <2>1. /\ UNCHANGED <<phase, stopReq, current, rtarget>> /\ rpc[h] # "detached"
        /\ \E x \in {"locking", "cleared", "done"} : rpc' = [rpc EXCEPT ![h] = x]
    BY <1>6 DEF ResetWait, ResetClear, ResetReply, loopVars
  <2> QED
    BY <2>1
<1>7. CASE UNCHANGED <<phase, stopReq, current, rpc, rtarget>>
  BY <1>7
<1>8. ASSUME NEW r \in Requests, Enqueue(r) \/ Mark(r) \/ Push(r) \/ Reject(r)
      PROVE  UNCHANGED <<phase, stopReq, current, rpc, rtarget>>
  BY <1>8 DEF Enqueue, Mark, Push, Reject, loopVars, otherVars
<1>9. ASSUME NEW d \in Directs, DirectAccept(d) \/ DirectBegin(d) \/ DirectStep(d)
      PROVE  UNCHANGED <<phase, stopReq, current, rpc, rtarget>>
  BY <1>9 DEF DirectStep, DirectAccept, DirectBegin, DirectRecord, DirectUnlock, loopVars
<1>10. ASSUME NEW a \in Cancellable, Cancel(a)
       PROVE  UNCHANGED <<phase, stopReq, current, rpc, rtarget>>
  BY <1>10 DEF Cancel, loopVars, otherVars
<1>11. ASSUME NEW g \in Loops, WatchFinish(g)
       PROVE  UNCHANGED <<phase, stopReq, current, rpc, rtarget>>
  BY <1>11 DEF WatchFinish, otherVars
<1> QED
  BY <1>1, <1>2, <1>3, <1>4, <1>5, <1>6, <1>7, <1>8, <1>9, <1>10, <1>11
  DEF Next, SubmitStep, ResetStep

(* A loop that has exited stays so, and only a loop in a turn appends one   *)
(* of its requests to the conversation.                                    *)
LEMMA IsolatedStep ==
  ASSUME TypeInv, Isolated, Next
  PROVE  Isolated'
<1> USE TurnLoopAssumption DEF TypeInv, TypeOK, Isolated, ResetIsolates
<1>1. ASSUME NEW r \in Requests, Route(r) PROVE Isolated'
  BY <1>1 DEF Route, storeVars, otherVars
<1>2. ASSUME NEW r \in Requests, Enqueue(r) \/ Mark(r) \/ Push(r) \/ Reject(r) PROVE Isolated'
  <2>1. UNCHANGED <<home, phase, log, rpc, rtarget>>
    BY <1>2 DEF Enqueue, Mark, Push, Reject, DropRuns, loopVars, storeVars, otherVars
  <2>2. sub[r] # "sent" /\ \E x : sub' = [sub EXCEPT ![r] = x]
    BY <1>2 DEF Enqueue, Mark, Push, Reject
  <2>3. \A q \in Requests : q # r => sub'[q] = sub[q]
    BY <2>2
  <2> QED
    BY <2>1, <2>2, <2>3
<1>3. ASSUME NEW g \in Loops, RecordTurn(g) PROVE Isolated'
  <2>1. /\ held[g] \in Requests /\ home[held[g]] = g /\ sub[held[g]] = "sent"
        /\ phase[g] = "judged" /\ phase' = [phase EXCEPT ![g] = "recorded"]
    BY <1>3 DEF RecordTurn, Placed, Items, Alive
  <2>2. FinishRun(held[g], result[held[g]]) /\ held[g] \in Runs
    BY <1>3, <2>1 DEF RecordTurn, Runs
  <2>3. \A i \in DOMAIN log' : (i \in DOMAIN log /\ log'[i] = log[i]) \/ log'[i].run = held[g]
    BY <2>2, Recorded
  <2>4. UNCHANGED <<sub, home, rpc, rtarget>>
    BY <1>3 DEF RecordTurn, submitVars, otherVars
  <2>5. \A h \in Resets : rpc[h] \in {"locking", "cleared", "done"} /\ rtarget[h] # NoLoop =>
          rtarget[h] # g /\ phase'[rtarget[h]] = phase[rtarget[h]]
    BY <2>1
  <2>6. \A i \in DOMAIN log' : log'[i].run \in Requests => sub[log'[i].run] = "sent"
    BY <2>1, <2>3
  <2>7. ASSUME NEW h \in Resets, rpc[h] \in {"cleared", "done"}, rtarget[h] # NoLoop,
               NEW i \in DOMAIN log', log'[i].run \in Requests
        PROVE  home[log'[i].run] # rtarget[h]
    <3>1. CASE i \in DOMAIN log /\ log'[i] = log[i]
      BY <2>7, <3>1
    <3>2. CASE log'[i].run = held[g]
      BY <2>1, <2>5, <2>7, <3>2
    <3> QED
      BY <2>3, <3>1, <3>2
  <2>8. ResetIsolates'
    BY <2>4, <2>7 DEF ResetIsolates
  <2>9. \A h \in Resets : rpc'[h] \in {"locking", "cleared", "done"} /\ rtarget'[h] # NoLoop =>
          phase'[rtarget'[h]] \in {"exited", "gone"}
    BY <2>4, <2>5
  <2> QED
    BY <2>4, <2>6, <2>8, <2>9
<1>4. ASSUME NEW g \in Loops, LoopStep(g) \/ GenAcquire(g) \/ LoopExit(g), ~ RecordTurn(g)
      PROVE  Isolated'
  <2>1. log' = log
    BY <1>4 DEF LoopStep, GenAcquire, LoopExit, GenSupersede, DropRuns, Prepare, TurnEnd, TurnCut,
                JudgeTurn, ReleaseTurn, ClearActive, storeVars
  <2>2. /\ phase[g] \in Alive
        /\ \A f \in Loops : f # g => phase'[f] = phase[f]
        /\ UNCHANGED <<sub, home, rpc, rtarget>>
    BY <1>4, LoopMoves
  <2>3. phase[g] \notin {"exited", "gone"}
    BY <2>2 DEF Alive
  <2> QED
    BY <2>1, <2>2, <2>3
<1>5. ASSUME NEW g \in Loops, Forget(g) PROVE Isolated'
  BY <1>5 DEF Forget, submitVars, storeVars, otherVars
<1>6. ASSUME NEW g \in Loops, WatchFinish(g) PROVE Isolated'
  BY <1>6 DEF WatchFinish, DropRuns, submitVars, storeVars, otherVars
<1>7. ASSUME NEW d \in Directs, DirectRecord(d) PROVE Isolated'
  <2>1. d \in Runs /\ \E st \in Closed : FinishRun(d, st)
    BY <1>7 DEF DirectRecord, Runs
  <2>2. \A i \in DOMAIN log' : (i \in DOMAIN log /\ log'[i] = log[i]) \/ log'[i].run \notin Requests
    BY <2>1, Recorded
  <2>3. UNCHANGED <<sub, home, phase, rpc, rtarget>>
    BY <1>7 DEF DirectRecord, submitVars, loopVars
  <2> QED
    BY <2>2, <2>3
<1>8. ASSUME NEW d \in Directs, DirectAccept(d) \/ DirectBegin(d) \/ DirectUnlock(d)
      PROVE  Isolated'
  <2>1. UNCHANGED <<sub, home, phase, log, rpc, rtarget>>
    BY <1>8 DEF DirectAccept, DirectBegin, DirectUnlock, submitVars, loopVars, storeVars
  <2> QED
    BY <2>1
<1>9. ASSUME NEW a \in Cancellable, Cancel(a) PROVE Isolated'
  BY <1>9 DEF Cancel, submitVars, loopVars, storeVars, otherVars
<1>10. ASSUME NEW h \in Resets, ResetDetach(h) PROVE Isolated'
  BY <1>10 DEF ResetDetach, submitVars, loopVars, storeVars
<1>11. ASSUME NEW h \in Resets, ResetStop(h) PROVE Isolated'
  BY <1>11 DEF ResetStop, submitVars, storeVars
<1>12. ASSUME NEW h \in Resets, ResetWait(h) PROVE Isolated'
  BY <1>12 DEF ResetWait, submitVars, loopVars, storeVars
<1>13. ASSUME NEW h \in Resets, ResetClear(h) PROVE Isolated'
  BY <1>13 DEF ResetClear, submitVars, loopVars
<1>14. ASSUME NEW h \in Resets, ResetReply(h) PROVE Isolated'
  BY <1>14 DEF ResetReply, submitVars, loopVars
<1> QED
  BY <1>1, <1>2, <1>3, <1>4, <1>5, <1>6, <1>7, <1>8, <1>9, <1>10, <1>11, <1>12, <1>13, <1>14
  DEF Next, SubmitStep, DirectStep, ResetStep

-----------------------------------------------------------------------------
(* Route makes the loop it sends to, and no loop goes back to before that.  *)
LEMMA BornStep ==
  ASSUME TypeInv, Born, Next
  PROVE  Born'
<1> USE TurnLoopAssumption DEF TypeInv, TypeOK, Born
<1>1. ASSUME NEW r \in Requests, Route(r) PROVE Born'
  <2>1. PICK g \in Loops :
          /\ home' = [home EXCEPT ![r] = g]
          /\ current' = g
          /\ IF current = NoLoop THEN phase[g] = "unborn" ELSE g = current
          /\ phase' = IF current = NoLoop THEN [phase EXCEPT ![g] = "idle"] ELSE phase
    BY <1>1 DEF Route
  <2>2. phase'[g] # "unborn" /\ \A f \in Loops : phase[f] # "unborn" => phase'[f] # "unborn"
    BY <2>1
  <2> QED
    BY <2>1, <2>2
<1>2. ASSUME NEW g \in Loops, LoopStep(g) \/ GenAcquire(g) \/ LoopExit(g) PROVE Born'
  <2>1. UNCHANGED <<home, current>> /\ \A f \in Loops : phase[f] # "unborn" => phase'[f] # "unborn"
    BY <1>2, LoopMoves DEF Alive
  <2> QED
    BY <2>1
<1>3. ASSUME NEW g \in Loops, Forget(g) PROVE Born'
  BY <1>3 DEF Forget, submitVars
<1>4. ASSUME NEW h \in Resets, ResetDetach(h) PROVE Born'
  BY <1>4 DEF ResetDetach, submitVars, loopVars
<1>5. CASE UNCHANGED <<home, phase, current>>
  BY <1>5
<1>6. ASSUME NEW r \in Requests, Enqueue(r) \/ Mark(r) \/ Push(r) \/ Reject(r)
      PROVE  UNCHANGED <<home, phase, current>>
  BY <1>6 DEF Enqueue, Mark, Push, Reject, loopVars
<1>7. ASSUME NEW d \in Directs, DirectAccept(d) \/ DirectBegin(d) \/ DirectStep(d)
      PROVE  UNCHANGED <<home, phase, current>>
  BY <1>7 DEF DirectStep, DirectAccept, DirectBegin, DirectRecord, DirectUnlock, submitVars, loopVars
<1>8. ASSUME NEW a \in Cancellable, Cancel(a) PROVE UNCHANGED <<home, phase, current>>
  BY <1>8 DEF Cancel, submitVars, loopVars
<1>9. ASSUME NEW g \in Loops, WatchFinish(g) PROVE UNCHANGED <<home, phase, current>>
  BY <1>9 DEF WatchFinish, submitVars
<1>10. ASSUME NEW h \in Resets, ResetStep(h) \/ ResetClear(h)
       PROVE  UNCHANGED <<home, phase, current>>
  BY <1>10 DEF ResetStep, ResetStop, ResetWait, ResetReply, ResetClear, submitVars, loopVars
<1> QED
  BY <1>1, <1>2, <1>3, <1>4, <1>5, <1>6, <1>7, <1>8, <1>9, <1>10 DEF Next, SubmitStep

(* One owner for each open run.                                            *)
LEMMA OpenStep ==
  ASSUME TypeInv, Born, Open, Next
  PROVE  Open' /\ \A a \in Runs : done[a] \in Closed => done'[a] = done[a]
<1> DEFINE Goal == Open' /\ \A a \in Runs : done[a] \in Closed => done'[a] = done[a]
<1>a. \A g \in Loops :
        /\ phase[g] \in Alive \ {"idle"} =>
             held[g] \in Requests /\ home[held[g]] = g /\ sub[held[g]] = "sent"
        /\ \A r \in buffer[g] \cup left[g] : r \in Requests /\ home[r] = g /\ sub[r] = "sent"
        /\ left[g] # {} => phase[g] = "exited"
  BY Places
<1> USE TurnLoopAssumption DEF TypeInv, TypeOK, Placed, Items, Open, Serving, Runs, Alive,
        Closed, Answered, Dropped
<1>1. ASSUME NEW r \in Requests, Enqueue(r) PROVE Goal
  BY <1>1 DEF Enqueue, StartRun, loopVars, otherVars
<1>2. ASSUME NEW r \in Requests, Route(r) PROVE Goal
  BY <1>2 DEF Route, storeVars, otherVars
<1>3. ASSUME NEW r \in Requests, Mark(r) PROVE Goal
  BY <1>3 DEF Mark, storeVars, otherVars
<1>4. ASSUME NEW r \in Requests, Push(r) PROVE Goal
  <2>1. home[r] \in Loops /\ phase[home[r]] \notin {"exited", "gone"} /\ sub[r] = "marked"
    BY <1>4 DEF Push, Stopped
  <2>2. /\ sub' = [sub EXCEPT ![r] = "sent"]
        /\ buffer' = [buffer EXCEPT ![home[r]] = @ \cup {r}]
        /\ UNCHANGED <<phase, held, done, dpc, rpc>>
    BY <1>4 DEF Push, storeVars, otherVars
  <2>3. \A g \in Loops : Serving(g) => held[g] # r
    <3> HIDE DEF TypeInv, TypeOK, Placed, Items, Open
    <3> QED
      BY <1>a, <2>1
  <2>4. phase[home[r]] # "unborn"
    BY <2>1, TurnLoopAssumption DEF Born
  <2>5. \A q \in Requests : q # r => sub'[q] = sub[q]
    BY <2>2
  <2>6. sub'[r] = "sent" /\ done[r] = "open"
    BY <2>1, <2>2
  <2>7. /\ \A g \in Loops : \A q \in buffer'[g] : q \in buffer[g] \/ q = r
        /\ \A g \in Loops : buffer'[g] # buffer[g] => g = home[r]
    BY <2>1, <2>2
  <2>8. \A g \in Loops : Serving(g) => held[g] \notin buffer'[g]
    BY <2>3, <2>7
  <2>9. \A g \in Loops : phase[g] \in {"unborn", "exited", "gone"} => buffer'[g] = {}
    BY <2>1, <2>4, <2>7
  <2> QED
    BY <2>2, <2>5, <2>6, <2>7, <2>8, <2>9
<1>5. ASSUME NEW r \in Requests, Reject(r) PROVE Goal
  BY <1>5 DEF Reject, DropRuns, loopVars, otherVars
<1>6. ASSUME NEW g \in Loops, GenSupersede(g) PROVE Goal
  BY <1>6 DEF GenSupersede, DropRuns, submitVars, otherVars
<1>7. ASSUME NEW g \in Loops, RecordTurn(g) PROVE Goal
  <2>1. /\ held[g] \in Requests /\ home[held[g]] = g /\ sub[held[g]] = "sent"
        /\ done[held[g]] = "open" /\ held[g] \notin buffer[g] /\ result[held[g]] \in Closed
    BY <1>7 DEF RecordTurn, Judged
  <2>2. /\ done' = [done EXCEPT ![held[g]] = result[held[g]]]
        /\ phase' = [phase EXCEPT ![g] = "recorded"]
        /\ UNCHANGED <<sub, buffer, held, dpc, rpc>>
    BY <1>7 DEF RecordTurn, FinishRun, submitVars, otherVars
  <2>3. \A f \in Loops : f # g => held[f] # held[g] /\ held[g] \notin buffer[f]
    BY <2>1
  <2> QED
    BY <2>1, <2>2, <2>3
<1>8. ASSUME NEW g \in Loops,
             Prepare(g) \/ TurnEnd(g) \/ TurnCut(g) \/ JudgeTurn(g) \/ ReleaseTurn(g)
             \/ ClearActive(g) \/ GenAcquire(g)
      PROVE  Goal
  <2>1. UNCHANGED <<sub, home, buffer, held, done, dpc, rpc>>
    BY <1>8 DEF Prepare, TurnEnd, TurnCut, JudgeTurn, ReleaseTurn, ClearActive, GenAcquire,
                submitVars, storeVars, otherVars
  <2>2. PICK x : /\ phase' = [phase EXCEPT ![g] = x]
                 /\ x \in {"locking", "planned", "running", "draining", "judged"} =>
                      phase[g] \in {"locking", "planned", "running", "draining", "judged"}
                 /\ phase[g] \in Alive /\ x \in Alive
    BY <1>8 DEF Prepare, TurnEnd, TurnCut, JudgeTurn, ReleaseTurn, ClearActive, GenAcquire
  <2> QED
    BY <2>1, <2>2
<1>9. ASSUME NEW g \in Loops, LoopExit(g) PROVE Goal
  BY <1>9 DEF LoopExit, submitVars, storeVars, otherVars
<1>10. ASSUME NEW g \in Loops, WatchFinish(g) PROVE Goal
  <2>1. UNCHANGED <<sub, home, buffer, phase, held, dpc, rpc>>
    BY <1>10 DEF WatchFinish, submitVars, otherVars
  <2>2. CASE done' = done
    BY <2>1, <2>2
  <2>3. CASE done' # done
    <3>0. \E r \in left[g] : done[r] = "open" /\ \E st \in Dropped : DropRuns({r}, st)
      <4> HIDE DEF TypeInv, TypeOK, Placed, Items, Open, Dropped
      <4>1. PICK r \in left[g] :
              IF done[r] = "open" THEN \E st \in Dropped : DropRuns({r}, st)
                                  ELSE UNCHANGED storeVars
        BY <1>10 DEF WatchFinish
      <4> QED
        BY <2>3, <4>1 DEF storeVars
    <3>1. PICK r \in left[g], st \in Dropped : done[r] = "open" /\ DropRuns({r}, st)
      <4> HIDE DEF TypeInv, TypeOK, Placed, Items, Open, Dropped
      <4> QED
        BY <3>0
    <3>2. r \in Requests /\ home[r] = g /\ sub[r] = "sent" /\ phase[g] = "exited"
      <4> HIDE DEF TypeInv, TypeOK, Placed, Items, Open
      <4> QED
        BY <1>a, <3>1
    <3>3. done'[r] = st /\ \A a \in Runs : a # r => done'[a] = done[a]
      BY <3>1, <3>2 DEF DropRuns
    <3>4. \A f \in Loops : r \notin buffer[f] /\ (Serving(f) => held[f] # r)
      <4> SUFFICES ASSUME NEW f \in Loops PROVE r \notin buffer[f] /\ (Serving(f) => held[f] # r)
        OBVIOUS
      <4>1. CASE f = g
        BY <3>2, <4>1
      <4>2. CASE f # g
        BY <1>a, <3>2, <4>2
      <4> QED
        BY <4>1, <4>2
    <3>5. /\ \A q \in Requests : q # r => done'[q] = done[q]
          /\ \A d \in Directs : done'[d] = done[d]
          /\ \A h \in Resets : done'[h] = done[h]
      <4> HIDE DEF TypeInv, TypeOK, Placed, Items, Open
      <4> QED
        BY <3>2, <3>3
    <3>6. Open'
      <4>1. \A q \in Requests : /\ sub'[q] = "new" => done'[q] = "none"
                               /\ sub'[q] \in {"queued", "routed", "marked"} => done'[q] = "open"
        BY <2>1, <3>2, <3>5
      <4>2. \A f \in Loops : \A q \in buffer'[f] : done'[q] = "open"
        BY <1>a, <2>1, <3>4, <3>5
      <4>3. \A f \in Loops : Serving(f) => done'[held[f]] = "open"
        <5>1. \A f \in Loops : Serving(f) => done[held[f]] = "open"
          OBVIOUS
        <5>2. \A f \in Loops : Serving(f) => held[f] \in Requests
          BY <1>a
        <5> HIDE DEF TypeInv, TypeOK, Placed, Items, Open, Serving
        <5> QED
          BY <3>4, <3>5, <5>1, <5>2
      <4> QED
        BY <2>1, <3>5, <4>1, <4>2, <4>3
    <3>7. \A a \in Runs : done[a] \in Closed => done'[a] = done[a]
      BY <3>1, <3>3
    <3> QED
      BY <3>6, <3>7
  <2> QED
    BY <2>2, <2>3
<1>11. ASSUME NEW g \in Loops, Forget(g) PROVE Goal
  BY <1>11 DEF Forget, submitVars, storeVars, otherVars
<1>12. ASSUME NEW a \in Cancellable, Cancel(a) PROVE Goal
  BY <1>12 DEF Cancel, submitVars, loopVars, storeVars, otherVars
<1>13. ASSUME NEW d \in Directs, DirectAccept(d) PROVE Goal
  BY <1>13 DEF DirectAccept, StartRun, submitVars, loopVars
<1>14. ASSUME NEW d \in Directs, DirectBegin(d) PROVE Goal
  BY <1>14 DEF DirectBegin, StartRun, submitVars, loopVars
<1>15. ASSUME NEW d \in Directs, DirectRecord(d) PROVE Goal
  BY <1>15 DEF DirectRecord, FinishRun, submitVars, loopVars
<1>16. ASSUME NEW d \in Directs, DirectUnlock(d) PROVE Goal
  BY <1>16 DEF DirectUnlock, submitVars, loopVars, storeVars
<1>17. ASSUME NEW h \in Resets, ResetDetach(h) \/ ResetStop(h) \/ ResetWait(h) PROVE Goal
  <2>1. UNCHANGED <<sub, home, buffer, phase, held, done, dpc>>
    BY <1>17 DEF ResetDetach, ResetStop, ResetWait, submitVars, loopVars, storeVars
  <2>2. rpc[h] \in {"idle", "detached", "waiting"} /\
        \E x \in {"detached", "waiting", "locking"} : rpc' = [rpc EXCEPT ![h] = x]
    BY <1>17 DEF ResetDetach, ResetStop, ResetWait
  <2> QED
    BY <2>1, <2>2
<1>18. ASSUME NEW h \in Resets, ResetClear(h) PROVE Goal
  <2>1. UNCHANGED <<sub, home, buffer, phase, held, dpc>> /\ rpc[h] = "locking" /\ done[h] = "none"
    BY <1>18 DEF ResetClear, submitVars, loopVars
  <2>2. CASE rpc' = [rpc EXCEPT ![h] = "cleared"] /\ done' = [done EXCEPT ![h] = "open"]
    <3>1. \A a \in Runs : a # h => done'[a] = done[a]
      BY <2>2
    <3>2. /\ \A q \in Requests : done'[q] = done[q]
          /\ \A d \in Directs : done'[d] = done[d]
          /\ \A k \in Resets : k # h => done'[k] = done[k] /\ rpc'[k] = rpc[k]
          /\ done'[h] = "open" /\ rpc'[h] = "cleared"
      BY <2>2, <3>1
    <3>3. Open'
      <4>1. \A g \in Loops : \A r \in buffer'[g] : done'[r] = "open"
        BY <1>a, <2>1, <3>2
      <4>2. \A g \in Loops : Serving(g) => done'[held[g]] = "open"
        BY <1>a, <2>1, <3>2
      <4>3. \A q \in Requests : /\ sub'[q] = "new" => done'[q] = "none"
                               /\ sub'[q] \in {"queued", "routed", "marked"} => done'[q] = "open"
        BY <2>1, <3>2
      <4>4. \A d \in Directs : /\ dpc'[d] = "idle" => done'[d] = "none"
                              /\ dpc'[d] \in {"queued", "busy"} => done'[d] = "open"
        BY <2>1, <3>2
      <4>5. \A k \in Resets :
              /\ rpc'[k] \in {"idle", "detached", "waiting", "locking"} => done'[k] = "none"
              /\ rpc'[k] = "cleared" => done'[k] = "open"
        <5>1. \A k \in Resets :
                /\ rpc[k] \in {"idle", "detached", "waiting", "locking"} => done[k] = "none"
                /\ rpc[k] = "cleared" => done[k] = "open"
          OBVIOUS
        <5> HIDE DEF TypeInv, TypeOK, Placed, Items, Open
        <5> QED
          BY <3>2, <5>1
      <4> QED
        BY <2>1, <3>2, <4>1, <4>2, <4>3, <4>4, <4>5
    <3> QED
      BY <2>1, <3>1, <3>3
  <2>3. CASE rpc' = [rpc EXCEPT ![h] = "done"] /\ done' = done
    BY <2>1, <2>3
  <2> QED
    BY <1>18, <2>2, <2>3 DEF ResetClear
<1>19. ASSUME NEW h \in Resets, ResetReply(h) PROVE Goal
  BY <1>19 DEF ResetReply, submitVars, loopVars
<1> QED
  BY <1>1, <1>2, <1>3, <1>4, <1>5, <1>6, <1>7, <1>8, <1>9, <1>10, <1>11, <1>12, <1>13, <1>14,
     <1>15, <1>16, <1>17, <1>18, <1>19
  DEF Next, SubmitStep, LoopStep, DirectStep, ResetStep

(* A turn that is judged has run once, and its request had no result before. *)
LEMMA UnrunStep ==
  ASSUME TypeInv, Open, Unrun, Next
  PROVE  Unrun'
<1> USE TurnLoopAssumption DEF TypeInv, TypeOK, Placed, Items, Open, Serving, Unrun, Alive
<1>1. ASSUME NEW r \in Requests, Enqueue(r) \/ Route(r) \/ Mark(r) \/ Reject(r) PROVE Unrun'
  <2>1. UNCHANGED <<buffer, held, result>>
    BY <1>1 DEF Enqueue, Route, Mark, Reject, loopVars, turnVars
  <2>2. sub[r] # "sent" /\ \E x : sub' = [sub EXCEPT ![r] = x]
    BY <1>1 DEF Enqueue, Route, Mark, Reject
  <2>3. \A g \in Loops : phase'[g] = phase[g] \/ phase'[g] = "idle"
    BY <1>1 DEF Enqueue, Route, Mark, Reject, loopVars
  <2> QED
    BY <2>1, <2>2, <2>3
<1>2. ASSUME NEW r \in Requests, Push(r) PROVE Unrun'
  BY <1>2 DEF Push, turnVars
<1>3. ASSUME NEW g \in Loops, GenSupersede(g) PROVE Unrun'
  BY <1>3 DEF GenSupersede, submitVars
<1>4. ASSUME NEW g \in Loops, TurnEnd(g) \/ TurnCut(g) \/ JudgeTurn(g) PROVE Unrun'
  <2>1. UNCHANGED <<sub, buffer, held>> /\ Serving(g)
    BY <1>4, TurnMoves
  <2>2. \A f \in Loops : f # g => phase'[f] = phase[f]
    BY <1>4, TurnMoves
  <2>3. phase'[g] \in {"draining", "judged"}
    BY <1>4, TurnMoves
  <2>4. held[g] \in Requests /\ \A q \in Requests : q # held[g] => result'[q] = result[q]
    BY <1>4, TurnMoves
  <2>5. home[held[g]] = g /\ sub[held[g]] = "sent" /\ held[g] \notin buffer[g]
    BY <2>1, <2>4
  <2>6. \A f \in Loops : f # g => held[f] # held[g] /\ held[g] \notin buffer[f]
    BY <2>4, <2>5
  <2>7. \A f \in Loops : held[g] \notin buffer[f]
    BY <2>5, <2>6
  <2>8. \A f \in Loops : \A q \in buffer[f] : q \in Requests
    OBVIOUS
  <2>9. \A f \in Loops : \A q \in buffer'[f] : result'[q] = "none"
    BY <2>1, <2>4, <2>7, <2>8
  <2>10. ASSUME NEW f \in Loops, phase'[f] \in {"locking", "planned", "running"}
         PROVE  result'[held'[f]] = "none"
    <3>1. f # g /\ phase'[f] = phase[f] /\ held'[f] = held[f]
      BY <2>1, <2>2, <2>3, <2>10
    <3>2. held[f] \in Requests /\ held[f] # held[g] /\ result[held[f]] = "none"
      BY <2>6, <2>10, <3>1
    <3> QED
      BY <2>4, <3>1, <3>2
  <2>11. \A q \in Requests : sub'[q] # "sent" => result'[q] = "none"
    BY <2>1, <2>4, <2>5
  <2> QED
    BY <2>9, <2>10, <2>11
<1>5. ASSUME NEW g \in Loops,
             Prepare(g) \/ RecordTurn(g) \/ ReleaseTurn(g) \/ ClearActive(g) \/ GenAcquire(g)
      PROVE  Unrun'
  <2>1. UNCHANGED <<sub, buffer, held, result>>
    BY <1>5 DEF Prepare, RecordTurn, ReleaseTurn, ClearActive, GenAcquire, submitVars, turnVars
  <2>2. PICK x : /\ phase' = [phase EXCEPT ![g] = x]
                 /\ x \in {"locking", "planned", "running"} =>
                      phase[g] \in {"locking", "planned", "running"}
    BY <1>5 DEF Prepare, RecordTurn, ReleaseTurn, ClearActive, GenAcquire
  <2> QED
    BY <2>1, <2>2
<1>6. ASSUME NEW g \in Loops, LoopExit(g) PROVE Unrun'
  BY <1>6 DEF LoopExit, submitVars, turnVars
<1>7. ASSUME NEW g \in Loops, WatchFinish(g) \/ Forget(g) PROVE Unrun'
  <2>1. UNCHANGED <<sub, buffer, held, result>>
    BY <1>7 DEF WatchFinish, Forget, submitVars, turnVars
  <2>2. \A f \in Loops : phase'[f] = phase[f] \/ phase'[f] = "gone"
    BY <1>7 DEF WatchFinish, Forget
  <2> QED
    BY <2>1, <2>2
<1>8. CASE UNCHANGED <<sub, buffer, held, phase, result>>
  BY <1>8
<1>9. ASSUME NEW a \in Cancellable, Cancel(a)
      PROVE  UNCHANGED <<sub, buffer, held, phase, result>>
  BY <1>9 DEF Cancel, submitVars, loopVars
<1>10. ASSUME NEW d \in Directs, DirectAccept(d) \/ DirectBegin(d) \/ DirectStep(d)
       PROVE  UNCHANGED <<sub, buffer, held, phase, result>>
  BY <1>10 DEF DirectStep, DirectAccept, DirectBegin, DirectRecord, DirectUnlock, submitVars,
               loopVars, turnVars
<1>11. ASSUME NEW h \in Resets, ResetDetach(h) \/ ResetStep(h) \/ ResetClear(h)
       PROVE  UNCHANGED <<sub, buffer, held, phase, result>>
  BY <1>11 DEF ResetStep, ResetDetach, ResetStop, ResetWait, ResetClear, ResetReply, submitVars,
               loopVars, turnVars
<1> QED
  BY <1>1, <1>2, <1>3, <1>4, <1>5, <1>6, <1>7, <1>8, <1>9, <1>10, <1>11
  DEF Next, SubmitStep, LoopStep

-----------------------------------------------------------------------------
(* The result of a request is decided by its loop, and its outcome is that  *)
(* result or a drop: what answered was judged so while nobody had cancelled *)
(* it.                                                                      *)
LEMMA HonestStep ==
  ASSUME TypeInv, Unrun, Open, Honest, Next
  PROVE  Honest'
<1> USE TurnLoopAssumption DEF TypeInv, TypeOK, Honest, Answered, Dropped, Closed
<1>1. ASSUME NEW g \in Loops, TurnEnd(g) \/ TurnCut(g) PROVE Honest'
  <2>1. UNCHANGED <<done, cancelled, tooLate>> /\ held[g] \in Requests
    BY <1>1, TurnMoves DEF TurnEnd, TurnCut, histVars
  <2>2. \A q \in Requests : q # held[g] => result'[q] = result[q]
    BY <1>1, TurnMoves
  <2>3. result'[held[g]] \in {"answered", "paused", "error", "cut"}
    <3> HIDE DEF TypeInv, TypeOK, Honest
    <3>1. DOMAIN result = Requests
      BY DEF TypeInv, TypeOK
    <3>2. CASE TurnEnd(g)
      BY <2>1, <3>1, <3>2 DEF TurnEnd
    <3>3. CASE TurnCut(g)
      BY <2>1, <3>1, <3>3 DEF TurnCut
    <3> QED
      BY <1>1, <3>2, <3>3
  <2>4. done[held[g]] = "open"
    BY <1>1 DEF TurnEnd, TurnCut, Open, Serving
  <2> QED
    BY <2>1, <2>2, <2>3, <2>4
<1>2. ASSUME NEW g \in Loops, JudgeTurn(g) PROVE Honest'
  <2>1. UNCHANGED <<done, cancelled, tooLate>> /\ held[g] \in Requests
    BY <1>2, TurnMoves DEF JudgeTurn
  <2>2. \A q \in Requests : q # held[g] => result'[q] = result[q]
    BY <1>2, TurnMoves
  <2>3. held[g] \in cancelled => result'[held[g]] = "cancelled"
    <3> HIDE DEF TypeInv, TypeOK, Honest
    <3>1. DOMAIN result = Requests
      BY DEF TypeInv, TypeOK
    <3>2. result'[held[g]] = IF preempt[g] THEN "cancelled" ELSE StatusOf(held[g])
      BY <1>2, <2>1, <3>1 DEF JudgeTurn
    <3>3. result[held[g]] \in {"answered", "paused", "error", "cut"}
      BY <1>2 DEF JudgeTurn, TypeInv, Judged
    <3>4. held[g] \in cancelled => StatusOf(held[g]) = "cancelled"
      BY <3>3 DEF StatusOf
    <3> QED
      BY <3>2, <3>4
  <2>4. done[held[g]] = "open"
    BY <1>2 DEF JudgeTurn, Open, Serving
  <2> QED
    BY <2>1, <2>2, <2>3, <2>4
<1>3. ASSUME NEW g \in Loops, RecordTurn(g) PROVE Honest'
  <2>1. UNCHANGED <<result, cancelled, tooLate>> /\ held[g] \in Requests
    BY <1>3, Places DEF RecordTurn, turnVars, histVars, Alive
  <2>2. done'[held[g]] = result[held[g]] /\ result[held[g]] \in Closed
    BY <1>3, <2>1 DEF RecordTurn, FinishRun, Judged, Runs
  <2>3. \A q \in Requests : q # held[g] => done'[q] = done[q]
    BY <1>3, <2>1 DEF RecordTurn, FinishRun, Runs
  <2> QED
    BY <2>1, <2>2, <2>3
<1>4. ASSUME NEW a \in Cancellable, Cancel(a) PROVE Honest'
  BY <1>4 DEF Cancel, storeVars
<1>5. ASSUME UNCHANGED <<result, cancelled, tooLate>>,
             \A q \in Requests : done'[q] \in Answered => done[q] = done'[q]
      PROVE  Honest'
  BY <1>5
<1>6. ASSUME NEW r \in Requests, Enqueue(r) \/ Route(r) \/ Mark(r) \/ Push(r) \/ Reject(r)
      PROVE  Honest'
  <2>1. UNCHANGED <<result, cancelled, tooLate>>
    BY <1>6 DEF Enqueue, Route, Mark, Push, Reject, turnVars, histVars
  <2>2. \A q \in Requests : done'[q] \in Answered => done[q] = done'[q]
    <3>1. CASE Enqueue(r)
      BY <3>1 DEF Enqueue, StartRun, Runs
    <3>2. CASE Route(r) \/ Mark(r) \/ Push(r)
      BY <3>2 DEF Route, Mark, Push, storeVars
    <3>3. CASE Reject(r)
      BY <3>3 DEF Reject, DropRuns, Runs
    <3> QED
      BY <1>6, <3>1, <3>2, <3>3
  <2> QED
    BY <1>5, <2>1, <2>2
<1>7. ASSUME NEW g \in Loops,
             GenSupersede(g) \/ Prepare(g) \/ ReleaseTurn(g) \/ ClearActive(g) \/ GenAcquire(g)
             \/ LoopExit(g) \/ WatchFinish(g) \/ Forget(g)
      PROVE  Honest'
  <2>1. UNCHANGED <<result, cancelled, tooLate>>
    BY <1>7 DEF GenSupersede, Prepare, ReleaseTurn, ClearActive, GenAcquire, LoopExit,
                WatchFinish, Forget, turnVars, histVars
  <2>2. \A q \in Requests : done'[q] \in Answered => done[q] = done'[q]
    BY <1>7 DEF GenSupersede, Prepare, ReleaseTurn, ClearActive, GenAcquire, LoopExit,
                WatchFinish, Forget, DropRuns, storeVars, Runs
  <2> QED
    BY <1>5, <2>1, <2>2
<1>8. ASSUME NEW d \in Directs, DirectAccept(d) \/ DirectBegin(d) \/ DirectStep(d) PROVE Honest'
  <2>1. UNCHANGED <<result, cancelled, tooLate>>
    BY <1>8 DEF DirectStep, DirectAccept, DirectBegin, DirectRecord, DirectUnlock, turnVars, histVars
  <2>2. \A q \in Requests : done'[q] = done[q]
    BY <1>8 DEF DirectStep, DirectAccept, DirectBegin, DirectRecord, DirectUnlock, StartRun,
                FinishRun, storeVars, Runs
  <2> QED
    BY <1>5, <2>1, <2>2
<1>9. ASSUME NEW h \in Resets, ResetDetach(h) \/ ResetStep(h) \/ ResetClear(h) PROVE Honest'
  <2>1. UNCHANGED <<result, cancelled, tooLate>>
    BY <1>9 DEF ResetStep, ResetDetach, ResetStop, ResetWait, ResetReply, ResetClear, turnVars, histVars
  <2>2. \A q \in Requests : done'[q] = done[q]
    BY <1>9 DEF ResetStep, ResetDetach, ResetStop, ResetWait, ResetReply, ResetClear, storeVars, Runs
  <2> QED
    BY <1>5, <2>1, <2>2
<1> QED
  BY <1>1, <1>2, <1>3, <1>4, <1>6, <1>7, <1>8, <1>9 DEF Next, SubmitStep, LoopStep

-----------------------------------------------------------------------------
(* The invariant of the session, but for its messages.                     *)
SessionInv ==
  /\ TypeInv
  /\ Born
  /\ Open
  /\ Unrun
  /\ Honest
  /\ NoOrphanLoop
  /\ Isolated

LEMMA SessionInit == Init => SessionInv
<1> SUFFICES ASSUME Init PROVE SessionInv
  OBVIOUS
<1>1. TypeInv
  BY InitTyped
<1>2. Born /\ Open /\ Unrun /\ Honest
  BY TurnLoopAssumption DEF Init, Born, Open, Serving, Unrun, Honest, Answered, Runs
<1>3. NoOrphanLoop
  BY DEF Init, NoOrphanLoop, Alive
<1>4. Isolated
  BY DEF Init, Isolated, ResetIsolates
<1> QED
  BY <1>1, <1>2, <1>3, <1>4 DEF SessionInv

LEMMA SessionStep == SessionInv /\ [Next]_vars => SessionInv'
<1> SUFFICES ASSUME SessionInv, [Next]_vars PROVE SessionInv'
  OBVIOUS
<1>1. CASE Next
  BY <1>1, TypeStep, BornStep, OpenStep, UnrunStep, HonestStep, OrphanStep, IsolatedStep
  DEF SessionInv
<1>2. CASE UNCHANGED vars
  BY <1>2 DEF SessionInv, TypeInv, TypeOK, Placed, Judged, Items, Born, Open, Serving, Unrun,
              Honest, NoOrphanLoop, Isolated, ResetIsolates, vars, submitVars, loopVars, turnVars,
              storeVars, otherVars, histVars
<1> QED
  BY <1>1, <1>2

LEMMA SessionInvariant == Spec => []SessionInv
BY SessionInit, SessionStep, PTL DEF Spec

(* No live loop is ever orphaned beside a second one (NoOrphanLoop): who   *)
(* deletes the table's entry compares it first.                            *)
THEOREM NoLoopOrphaned == Spec => []NoOrphanLoop
<1>1. SessionInv => NoOrphanLoop
  BY DEF SessionInv
<1> QED
  BY <1>1, SessionInvariant, PTL

(* No message of the loop a reset stopped adds a turn to the conversation   *)
(* the reset began (ResetIsolates): the loop has exited before the session  *)
(* is emptied.                                                             *)
THEOREM ResetsIsolate == Spec => []ResetIsolates
<1>1. SessionInv => ResetIsolates
  BY DEF SessionInv, Isolated
<1> QED
  BY <1>1, SessionInvariant, PTL

(* A message cancelled before its turn was judged never answers             *)
(* (CancelHonoured).                                                       *)
THEOREM CancelsHonoured == Spec => []CancelHonoured
<1>1. SessionInv => CancelHonoured
  BY DEF SessionInv, TypeInv, TypeOK, Honest, CancelHonoured
<1> QED
  BY <1>1, SessionInvariant, PTL

(* A run gets one outcome (OneOutcome): at any time at most one goroutine   *)
(* has an open run in hand, and nobody else closes it.                     *)
THEOREM RunsEndOnce == Spec => OneOutcome
<1>1. SessionInv /\ [Next]_vars => [\A a \in Runs : done[a] \in Closed => done'[a] = done[a]]_vars
  BY OpenStep DEF SessionInv
<1> QED
  BY <1>1, SessionInvariant, PTL DEF Spec, OneOutcome
-----------------------------------------------------------------------------
(***************************************************************************)
(* The serial session.  Fairness apart, initial states map to initial      *)
(* states, and every step of a goroutine is a step of the serial session   *)
(* or leaves it alone.                                                     *)
(***************************************************************************)

SerialStep == SL!Next \/ UNCHANGED SL!vars

(* What is used of the server's state: which runs are open, and that what   *)
(* is about to be recorded was computed from the present conversation.     *)
RefineInv == TypeInv /\ Open /\ Fresh

-----------------------------------------------------------------------------
LEMMA AcceptStep ==
  ASSUME TypeInv, NEW a \in Runs, done[a] = "none", StartRun(a), UNCHANGED <<log, epoch>>
  PROVE  SerialStep
<1>1. SL!Accept(a)
  BY DEF SL!Accept, StartRun
<1> QED
  BY <1>1 DEF SerialStep, SL!Next

(* Closing runs without an answer is one Drop, or nothing if there is none. *)
LEMMA DropStep ==
  ASSUME TypeInv, NEW R \in SUBSET Runs, \A a \in R : done[a] = "open",
         NEW st \in Dropped, DropRuns(R, st)
  PROVE  SerialStep
<1>1. CASE R = {}
  <2>1. done' = done
    BY <1>1 DEF DropRuns, TypeInv, TypeOK
  <2> QED
    BY <2>1 DEF DropRuns, SerialStep, SL!vars
<1>2. CASE R # {}
  <2>1. SL!Drop(R)
    BY <1>2 DEF DropRuns, SL!Drop, SL!Dropped, Dropped
  <2>2. PICK a \in Runs : a \in R
    BY <1>2
  <2>3. SL!Settle(a)
    BY <2>1, <2>2 DEF SL!Settle
  <2> QED
    BY <2>2, <2>3 DEF SerialStep, SL!Next
<1> QED
  BY <1>1, <1>2

(* A finished run answers or is dropped; its turn is computed from what is  *)
(* in the log.                                                             *)
LEMMA FinishStep ==
  ASSUME TypeInv, NEW a \in Runs \ Resets, done[a] = "open", basis[a] = Now,
         NEW st \in Closed, FinishRun(a, st)
  PROVE  SerialStep
<1>1. CASE st \in Answered
  <2>1. SL!Answer(a)
    BY <1>1 DEF FinishRun, SL!Answer, SL!Answered, Answered, SL!Basis, Now
  <2> QED
    BY <2>1 DEF SerialStep, SL!Next, SL!Settle
<1>2. CASE st \notin Answered
  <2>1. st \in Dropped /\ UNCHANGED <<log, epoch>>
    BY <1>2 DEF FinishRun, Closed
  <2>2. done' = [b \in Runs |-> IF b \in {a} THEN st ELSE done[b]]
    BY DEF FinishRun, TypeInv, TypeOK
  <2>3. SL!Drop({a})
    BY <2>1, <2>2 DEF SL!Drop, SL!Dropped, Dropped
  <2>4. SL!Settle(a)
    BY <2>3 DEF SL!Settle
  <2> QED
    BY <2>4 DEF SerialStep, SL!Next
<1> QED
  BY <1>1, <1>2

-----------------------------------------------------------------------------
(* Every step of the server is one of the serial session, or none.         *)
LEMMA RefineStep ==
  ASSUME RefineInv, Next
  PROVE  SerialStep
<1>1. /\ TypeInv /\ Open /\ Fresh
      /\ \A r \in Requests : r \in Runs /\ r \notin Resets
      /\ \A d \in Directs : d \in Runs /\ d \notin Resets
      /\ \A h \in Resets : h \in Runs
  BY TurnLoopAssumption DEF RefineInv, Runs
<1>2. ASSUME NEW r \in Requests, Enqueue(r) PROVE SerialStep
  <2>1. done[r] = "none"
    BY <1>1, <1>2 DEF Enqueue, Open
  <2> QED
    BY <1>1, <1>2, <2>1, AcceptStep DEF Enqueue
<1>3. ASSUME NEW r \in Requests, Reject(r) PROVE SerialStep
  <2>1. done[r] = "open" /\ DropRuns({r}, "failed") /\ "failed" \in Dropped
    BY <1>1, <1>3 DEF Reject, Open, Dropped
  <2> QED
    BY <1>1, <2>1, DropStep
<1>4. ASSUME NEW g \in Loops, GenSupersede(g) PROVE SerialStep
  <2>1. PICK r \in buffer[g] : DropRuns(buffer[g] \ {r}, "cancelled")
    BY <1>4 DEF GenSupersede
  <2>2. /\ buffer[g] \ {r} \in SUBSET Runs /\ "cancelled" \in Dropped
        /\ \A q \in buffer[g] \ {r} : done[q] = "open"
    BY <1>1, Places DEF Open, Dropped
  <2> QED
    BY <1>1, <2>1, <2>2, DropStep
<1>5. ASSUME NEW g \in Loops, RecordTurn(g) PROVE SerialStep
  <2>1. /\ held[g] \in Requests /\ done[held[g]] = "open"
        /\ basis[held[g]] = Now /\ result[held[g]] \in Closed
    BY <1>1, <1>5, Places DEF RecordTurn, Open, Serving, Fresh, Computing, Alive, TypeInv, Judged
  <2>2. FinishRun(held[g], result[held[g]])
    BY <1>5 DEF RecordTurn
  <2> QED
    BY <1>1, <2>1, <2>2, FinishStep
<1>6. ASSUME NEW g \in Loops, WatchFinish(g) PROVE SerialStep
  <2>1. PICK r \in left[g] : IF done[r] = "open" THEN \E st \in Dropped : DropRuns({r}, st)
                                                 ELSE UNCHANGED storeVars
    BY <1>6 DEF WatchFinish
  <2>2. r \in Requests
    BY <1>1, Places
  <2>3. CASE done[r] = "open"
    <3>1. PICK st \in Dropped : DropRuns({r}, st)
      BY <2>1, <2>3
    <3> QED
      BY <1>1, <2>2, <2>3, <3>1, DropStep
  <2>4. CASE done[r] # "open"
    BY <2>1, <2>4 DEF SerialStep, SL!vars, storeVars
  <2> QED
    BY <2>3, <2>4
<1>7. ASSUME NEW d \in Directs, DirectAccept(d) PROVE SerialStep
  <2>1. done[d] = "none"
    BY <1>1, <1>7 DEF DirectAccept, Open
  <2> QED
    BY <1>1, <1>7, <2>1, AcceptStep DEF DirectAccept
<1>8. ASSUME NEW d \in Directs, DirectBegin(d) PROVE SerialStep
  <2>1. CASE dpc[d] = "idle"
    <3>1. done[d] = "none"
      BY <1>1, <2>1 DEF Open
    <3>2. StartRun(d) /\ UNCHANGED <<log, epoch>>
      BY <1>8, <2>1 DEF DirectBegin
    <3> QED
      BY <1>1, <3>1, <3>2, AcceptStep
  <2>2. CASE dpc[d] # "idle"
    BY <1>8, <2>2 DEF DirectBegin, SerialStep, SL!vars
  <2> QED
    BY <2>1, <2>2
<1>9. ASSUME NEW d \in Directs, DirectRecord(d) PROVE SerialStep
  <2>1. done[d] = "open" /\ basis[d] = Now
    BY <1>1, <1>9 DEF DirectRecord, Open, Fresh
  <2>2. PICK st \in Closed : FinishRun(d, st)
    BY <1>9 DEF DirectRecord, Closed
  <2> QED
    BY <1>1, <2>1, <2>2, FinishStep
<1>10. ASSUME NEW h \in Resets, ResetClear(h) PROVE SerialStep
  <2>1. done[h] = "none"
    BY <1>1, <1>10 DEF ResetClear, Open
  <2>2. SL!Reset
    BY <1>10, <2>1 DEF ResetClear, SL!Reset
  <2> QED
    BY <2>2 DEF SerialStep, SL!Next
<1>11. ASSUME NEW h \in Resets, ResetReply(h) PROVE SerialStep
  <2>1. done[h] = "open"
    BY <1>1, <1>11 DEF ResetReply, Open
  <2>2. SL!Confirm(h)
    BY <1>11, <2>1 DEF ResetReply, SL!Confirm
  <2> QED
    BY <1>1, <2>2 DEF SerialStep, SL!Next, SL!Settle
<1>12. CASE UNCHANGED <<done, log, epoch>>
  BY <1>12 DEF SerialStep, SL!vars
<1>13. ASSUME NEW r \in Requests, Route(r) \/ Mark(r) \/ Push(r)
       PROVE  UNCHANGED <<done, log, epoch>>
  BY <1>13 DEF Route, Mark, Push, storeVars
<1>14. ASSUME NEW g \in Loops,
              \/ Prepare(g) \/ TurnEnd(g) \/ TurnCut(g) \/ JudgeTurn(g) \/ ReleaseTurn(g)
              \/ ClearActive(g) \/ GenAcquire(g) \/ LoopExit(g) \/ Forget(g)
       PROVE  UNCHANGED <<done, log, epoch>>
  BY <1>14 DEF Prepare, TurnEnd, TurnCut, JudgeTurn, ReleaseTurn, ClearActive, GenAcquire, LoopExit,
               Forget, storeVars
<1>15. ASSUME NEW a \in Cancellable, Cancel(a) PROVE UNCHANGED <<done, log, epoch>>
  BY <1>15 DEF Cancel, storeVars
<1>16. ASSUME NEW d \in Directs, DirectUnlock(d) PROVE UNCHANGED <<done, log, epoch>>
  BY <1>16 DEF DirectUnlock, storeVars
<1>17. ASSUME NEW h \in Resets, ResetDetach(h) \/ ResetStop(h) \/ ResetWait(h)
       PROVE  UNCHANGED <<done, log, epoch>>
  BY <1>17 DEF ResetDetach, ResetStop, ResetWait, storeVars
<1> QED
  BY <1>2, <1>3, <1>4, <1>5, <1>6, <1>7, <1>8, <1>9, <1>10, <1>11, <1>12, <1>13, <1>14, <1>15,
     <1>16, <1>17
  DEF Next, SubmitStep, LoopStep, DirectStep, ResetStep

(* The server implements the serial session: every run is accepted once and *)
(* closed once, and every answer is appended to the conversation it was     *)
(* computed from, as if runs were executed one at a time                   *)
(* (ImplementsSessionLog without its fairness).                            *)
THEOREM ServerIsSerial == Spec => SL!Init /\ [][SL!Next]_(SL!vars)
<1>1. Init => SL!Init
  BY DEF Init, SL!Init
<1>2. RefineInv /\ [Next]_vars => [SL!Next]_(SL!vars)
  <2> SUFFICES ASSUME RefineInv, [Next]_vars PROVE SerialStep
    BY DEF SerialStep
  <2>1. CASE Next
    BY <2>1, RefineStep
  <2>2. CASE UNCHANGED vars
    BY <2>2 DEF vars, storeVars, SerialStep, SL!vars
  <2> QED
    BY <2>1, <2>2
<1>3. SessionInv /\ SerialInv => RefineInv
  BY DEF SessionInv, SerialInv, RefineInv
<1> QED
  BY <1>1, <1>2, <1>3, SessionInvariant, SerialInvariant, PTL DEF Spec
-----------------------------------------------------------------------------
(***************************************************************************)
(* Messages.  Whatever was dropped for a newer message is in the prompt of *)
(* one that was not, unless two submissions were between l.mu and Push at  *)
(* once.                                                                   *)
(***************************************************************************)

Waits(r, g)  == home[r] = g /\ sub[r] = "marked"
HasTurn(g)   == phase[g] \in Alive \ {"idle"}
Covers(q, r) == r \in Range(prompt[q])
Pushed       == {q \in Requests : stamp[q] > 0}

(* Prompts chain: one that contains a message contains its prompt.  What l  *)
(* knows as its pending and its active message has passed l.mu.            *)
Chained ==
  /\ \A r \in Requests : Covers(r, r)
  /\ \A q, r \in Requests : Covers(q, r) => Range(prompt[r]) \subseteq Range(prompt[q])
  /\ \A q, r \in Requests : Covers(q, r) /\ q # r =>
       sub[q] \in {"marked", "sent"} /\ sub[r] \in {"marked", "sent"}
  /\ \A g \in Loops : /\ pending[g] # NoRequest => sub[pending[g]] \in {"marked", "sent"}
                      /\ active[g] # NoRequest => sub[active[g]] = "sent"
                      /\ HasTurn(g) /\ phase[g] # "locking" => active[g] = held[g]

(* Stamps count the pushes.                                                *)
Stamped ==
  /\ \A r \in Requests : sub[r] # "sent" => stamp[r] = 0
  /\ \A r \in Requests : stamp[r] <= Cardinality(Pushed)

(* Only what a loop has taken and judged was replaced.                     *)
Unreplaced ==
  /\ \A r \in replaced : sub[r] = "sent"
  /\ \A g \in Loops : \A r \in buffer[g] : r \notin replaced
  /\ \A g \in Loops : phase[g] \in {"locking", "planned", "running", "draining"} => held[g] \notin replaced

(* While submissions do not overlap, one at a time is about to push, ...    *)
OneMarked == \A q, r \in Requests : sub[q] = "marked" /\ sub[r] = "marked" => q = r

(* ... the pending message of a loop is the newest: about to be pushed, the *)
(* last of the buffer, or the one the loop has just taken, ...             *)
Newest ==
  \A g \in Loops : pending[g] # NoRequest /\ ~ Stopped(g) =>
    \/ Waits(pending[g], g)
    \/ /\ pending[g] \in buffer[g]
       /\ \A r \in Requests : ~ Waits(r, g)
       /\ \A r \in buffer[g] : r # pending[g] => stamp[r] < stamp[pending[g]]
    \/ /\ phase[g] = "locking" /\ held[g] = pending[g]
       /\ buffer[g] = {}
       /\ \A r \in Requests : ~ Waits(r, g)

(* ... it covers whatever the loop has not begun, ...                      *)
Gathered ==
  \A g \in Loops : \A r \in Requests :
    /\ ~ Stopped(g)
    /\ r \in buffer[g] \/ Waits(r, g) \/ (phase[g] = "locking" /\ r = held[g])
    => pending[g] # NoRequest /\ Covers(pending[g], r)

(* ... whatever came during a turn covers the turn's message, ...          *)
Corrects ==
  \A g \in Loops : \A q \in Requests :
    /\ HasTurn(g)
    /\ q \in buffer[g] \/ (Waits(q, g) /\ ~ Stopped(g))
    => Covers(q, held[g])

(* ... and a turn is preempted by something in the buffer.                 *)
Justified ==
  \A g \in Loops : preempt[g] =>
    /\ phase[g] \notin {"unborn", "idle"}
    /\ phase[g] \in {"locking", "planned", "running", "draining"} => buffer[g] # {}

Carried == \A r \in replaced : \E q \in Requests \ replaced : Covers(q, r)

Kept == OneMarked /\ Newest /\ Gathered /\ Corrects /\ Justified /\ Carried

Messages == Chained /\ Stamped /\ Unreplaced /\ (~ overlapped => Kept)

-----------------------------------------------------------------------------
(* An appended sequence has one more element in its range.                 *)
LEMMA RangeAppend ==
  ASSUME NEW S, NEW s \in Seq(S), NEW x \in S
  PROVE  Range(Append(s, x)) = Range(s) \cup {x}
<1>1. DOMAIN Append(s, x) = 1..(Len(s) + 1) /\ DOMAIN s = 1..Len(s) /\ Len(s) \in Nat
  OBVIOUS
<1>2. \A i \in 1..Len(s) : Append(s, x)[i] = s[i]
  OBVIOUS
<1>3. Append(s, x)[Len(s) + 1] = x
  OBVIOUS
<1>4. Range(Append(s, x)) \subseteq Range(s) \cup {x}
  <2> SUFFICES ASSUME NEW i \in 1..(Len(s) + 1) PROVE Append(s, x)[i] \in Range(s) \cup {x}
    BY <1>1 DEF Range
  <2>1. CASE i = Len(s) + 1
    BY <1>3, <2>1
  <2>2. CASE i \in 1..Len(s)
    BY <1>1, <1>2, <2>2 DEF Range
  <2> QED
    BY <1>1, <2>1, <2>2
<1>5. Range(s) \subseteq Range(Append(s, x))
  <2> SUFFICES ASSUME NEW i \in 1..Len(s) PROVE s[i] \in Range(Append(s, x))
    BY <1>1 DEF Range
  <2>1. i \in DOMAIN Append(s, x) /\ Append(s, x)[i] = s[i]
    BY <1>1, <1>2
  <2> QED
    BY <2>1 DEF Range
<1>6. x \in Range(Append(s, x))
  BY <1>1, <1>3 DEF Range
<1> QED
  BY <1>4, <1>5, <1>6

(* The prompt of a marked message is its base's and itself.                *)
LEMMA MarkMoves ==
  ASSUME TypeInv, Chained, NEW r \in Requests, Mark(r)
  PROVE  LET g == home[r] IN
         /\ g \in Loops /\ sub[r] = "routed" /\ sub'[r] = "marked"
         /\ \A q \in Requests : q # r => sub'[q] = sub[q] /\ prompt'[q] = prompt[q]
         /\ Base(g) = NoRequest => prompt'[r] = prompt[r]
         /\ Base(g) # NoRequest => /\ Base(g) \in Requests /\ Base(g) # r
                                   /\ Range(prompt'[r]) = Range(prompt[Base(g)]) \cup {r}
         /\ pending'[g] = r
         /\ \A f \in Loops : f # g => pending'[f] = pending[f]
         /\ UNCHANGED <<home, stamp, buffer, phase, held, active, preempt, stopReq, replaced>>
         /\ overlapped' = (overlapped \/ \E q \in Requests \ {r} : sub[q] = "marked")
<1>1. /\ sub \in [Requests -> {"new", "queued", "routed", "marked", "sent"}]
      /\ prompt \in [Requests -> Seq(Requests)]
      /\ pending \in [Loops -> Requests \cup {NoRequest}]
      /\ active \in [Loops -> Requests \cup {NoRequest}]
  BY DEF TypeInv, TypeOK
<1>2. home[r] \in Loops /\ sub[r] = "routed"
  BY DEF Mark, TypeInv, Placed
<1>3. Base(home[r]) # NoRequest => Base(home[r]) \in Requests /\ sub[Base(home[r])] # "routed"
  BY <1>1, <1>2 DEF Base, Chained
<1>4. /\ sub' = [sub EXCEPT ![r] = "marked"]
      /\ pending' = [pending EXCEPT ![home[r]] = r]
      /\ UNCHANGED <<home, stamp, buffer, phase, held, active, preempt, stopReq, replaced>>
      /\ overlapped' = (overlapped \/ \E q \in Requests \ {r} : sub[q] = "marked")
  BY DEF Mark
<1>5. prompt' = IF Base(home[r]) = NoRequest THEN prompt
                ELSE [prompt EXCEPT ![r] = Append(prompt[Base(home[r])], r)]
  BY DEF Mark
<1>6. Base(home[r]) # NoRequest => Range(prompt'[r]) = Range(prompt[Base(home[r])]) \cup {r}
  <2> SUFFICES ASSUME Base(home[r]) # NoRequest
               PROVE  Range(prompt'[r]) = Range(prompt[Base(home[r])]) \cup {r}
    OBVIOUS
  <2>1. prompt'[r] = Append(prompt[Base(home[r])], r)
    BY <1>1, <1>5
  <2>2. prompt[Base(home[r])] \in Seq(Requests)
    BY <1>1, <1>3
  <2> QED
    BY <2>1, <2>2, RangeAppend
<1>7. \A q \in Requests : q # r => sub'[q] = sub[q] /\ prompt'[q] = prompt[q]
  BY <1>1, <1>4, <1>5
<1> QED
  BY <1>1, <1>2, <1>3, <1>4, <1>5, <1>6, <1>7

LEMMA MarkKeeps ==
  ASSUME TypeInv, Messages, NEW r \in Requests, Mark(r)
  PROVE  Messages'
<1> DEFINE g == home[r]
<1>1. Chained /\ Stamped /\ Unreplaced /\ (~ overlapped => Kept)
  BY DEF Messages
<1>2. /\ g \in Loops /\ sub[r] = "routed" /\ sub'[r] = "marked"
      /\ \A q \in Requests : q # r => sub'[q] = sub[q] /\ prompt'[q] = prompt[q]
      /\ Base(g) = NoRequest => prompt'[r] = prompt[r]
      /\ Base(g) # NoRequest => /\ Base(g) \in Requests /\ Base(g) # r
                                /\ Range(prompt'[r]) = Range(prompt[Base(g)]) \cup {r}
      /\ pending'[g] = r
      /\ \A f \in Loops : f # g => pending'[f] = pending[f]
      /\ UNCHANGED <<home, stamp, buffer, phase, held, active, preempt, stopReq, replaced>>
      /\ overlapped' = (overlapped \/ \E q \in Requests \ {r} : sub[q] = "marked")
  BY <1>1, MarkMoves
<1>3. \A f \in Loops :
        /\ phase[f] \in Alive \ {"idle"} => held[f] \in Requests /\ held[f] # r
        /\ buffer[f] \subseteq Requests /\ r \notin buffer[f]
        /\ pending[f] # NoRequest => pending[f] \in Requests /\ pending[f] # r
        /\ active[f] # NoRequest => active[f] \in Requests /\ active[f] # r
  <2>1. \A f \in Loops : /\ pending[f] \in Requests \cup {NoRequest}
                         /\ active[f] \in Requests \cup {NoRequest}
    BY DEF TypeInv, TypeOK
  <2> QED
    BY <1>1, <1>2, <2>1, Places DEF Chained
<1> HIDE DEF g
<1>4. r \notin replaced /\ replaced \subseteq Requests
  BY <1>1, <1>2 DEF Unreplaced, TypeInv, TypeOK
<1>5. Chained'
  <2>1. \A x \in Requests : Covers(x, x)'
    BY <1>1, <1>2 DEF Chained, Covers
  <2>2. \A q, x \in Requests : q # r /\ Covers(q, x)' =>
          x # r /\ Covers(q, x) /\ prompt'[x] = prompt[x]
    BY <1>1, <1>2 DEF Chained, Covers
  <2>3. \A x \in Requests : Covers(r, x)' /\ x # r =>
          \/ Base(g) = NoRequest /\ Covers(r, x)
          \/ Base(g) # NoRequest /\ Covers(Base(g), x)
    BY <1>2 DEF Covers
  <2>4. sub[Base(g)] \in {"marked", "sent"} \/ Base(g) = NoRequest
    BY <1>1, <1>2 DEF Base, Chained
  <2>5. \A q, x \in Requests : Covers(q, x)' => Range(prompt'[x]) \subseteq Range(prompt'[q])
    <3> SUFFICES ASSUME NEW q \in Requests, NEW x \in Requests, x \in Range(prompt'[q]), x # q
                 PROVE  Range(prompt'[x]) \subseteq Range(prompt'[q])
      BY DEF Covers
    <3>1. CASE q # r
      BY <1>1, <1>2, <2>2, <3>1 DEF Chained, Covers
    <3>2. CASE q = r
      BY <1>1, <1>2, <2>3, <3>2 DEF Chained, Covers
    <3> QED
      BY <3>1, <3>2
  <2>6. \A q, x \in Requests : Covers(q, x)' /\ q # x =>
          sub'[q] \in {"marked", "sent"} /\ sub'[x] \in {"marked", "sent"}
    <3> SUFFICES ASSUME NEW q \in Requests, NEW x \in Requests, x \in Range(prompt'[q]), x # q
                 PROVE  sub'[q] \in {"marked", "sent"} /\ sub'[x] \in {"marked", "sent"}
      BY DEF Covers
    <3>1. CASE q # r
      BY <1>1, <1>2, <2>2, <3>1 DEF Chained, Covers
    <3>2. CASE q = r
      BY <1>1, <1>2, <2>3, <2>4, <3>2 DEF Chained, Covers
    <3> QED
      BY <3>1, <3>2
  <2>7. ASSUME NEW f \in Loops
        PROVE  /\ pending'[f] # NoRequest => sub'[pending'[f]] \in {"marked", "sent"}
               /\ active[f] # NoRequest => sub'[active[f]] = "sent"
               /\ HasTurn(f) /\ phase[f] # "locking" => active[f] = held[f]
    <3>1. pending'[f] # NoRequest => sub'[pending'[f]] \in {"marked", "sent"}
      <4>1. CASE f = g
        BY <1>2, <4>1
      <4>2. CASE f # g
        BY <1>1, <1>2, <1>3, <4>2 DEF Chained
      <4> QED
        BY <4>1, <4>2
    <3>2. active[f] # NoRequest => sub'[active[f]] = "sent"
      BY <1>1, <1>2, <1>3 DEF Chained
    <3> QED
      BY <1>1, <3>1, <3>2 DEF Chained
  <2> QED
    BY <1>2, <2>1, <2>5, <2>6, <2>7 DEF Chained, HasTurn
<1>6. Stamped' /\ Unreplaced'
  BY <1>1, <1>2, <1>4 DEF Stamped, Unreplaced, Pushed
<1>7. ASSUME ~ overlapped' PROVE Kept'
  <2>1. Kept /\ \A q \in Requests : sub[q] # "marked"
    BY <1>1, <1>2, <1>7
  <2>2. \A q \in Requests : sub'[q] = "marked" => q = r
    BY <1>2, <2>1
  <2>3. OneMarked' /\ Justified'
    BY <1>2, <2>1, <2>2 DEF OneMarked, Kept, Justified
  <2>4. Newest'
    <3> SUFFICES ASSUME NEW f \in Loops, pending'[f] # NoRequest, ~ Stopped(f)'
                 PROVE  \/ home[pending'[f]] = f /\ sub'[pending'[f]] = "marked"
                        \/ /\ pending'[f] \in buffer[f]
                           /\ \A q \in Requests : ~ (home[q] = f /\ sub'[q] = "marked")
                           /\ \A q \in buffer[f] : q # pending'[f] => stamp[q] < stamp[pending'[f]]
                        \/ /\ phase[f] = "locking" /\ held[f] = pending'[f]
                           /\ buffer[f] = {}
                           /\ \A q \in Requests : ~ (home[q] = f /\ sub'[q] = "marked")
      BY <1>2 DEF Newest, Waits
    <3>1. CASE f = g
      BY <1>2, <3>1 DEF g
    <3>2. CASE f # g
      BY <1>2, <1>3, <2>1, <2>2, <3>2 DEF Kept, Newest, Waits, Stopped, g
    <3> QED
      BY <3>1, <3>2
  <2>5. Gathered'
    <3> SUFFICES ASSUME NEW f \in Loops, NEW q \in Requests, ~ Stopped(f),
                        q \in buffer[f] \/ Waits(q, f)' \/ (phase[f] = "locking" /\ q = held[f])
                 PROVE  pending'[f] # NoRequest /\ q \in Range(prompt'[pending'[f]])
      BY <1>2 DEF Gathered, Stopped, Covers
    <3>1. CASE q = r
      BY <1>2, <1>3, <1>5, <3>1, TurnLoopAssumption DEF Alive, Waits, Chained, Covers, g
    <3>2. CASE q # r
      <4>1. pending[f] # NoRequest /\ Covers(pending[f], q)
        BY <1>2, <2>1, <2>2, <3>2 DEF Kept, Gathered, Waits
      <4> QED
        BY <1>2, <1>3, <4>1, TurnLoopAssumption DEF Covers, Base
    <3> QED
      BY <3>1, <3>2
  <2>6. Corrects'
    <3> SUFFICES ASSUME NEW f \in Loops, NEW q \in Requests, HasTurn(f),
                        q \in buffer[f] \/ (Waits(q, f)' /\ ~ Stopped(f))
                 PROVE  held[f] \in Range(prompt'[q])
      BY <1>2 DEF Corrects, Stopped, HasTurn, Covers
    <3>1. CASE q \in buffer[f]
      BY <1>2, <1>3, <2>1, <3>1 DEF Kept, Corrects, Covers
    <3>2. CASE q \notin buffer[f]
      <4>1. q = r /\ f = g /\ ~ Stopped(g)
        BY <1>2, <2>2, <3>2 DEF Waits, g
      <4>2. held[g] \in Requests
        BY <1>3, <4>1 DEF HasTurn
      <4>3. CASE pending[g] = NoRequest
        <5>1. phase[g] # "locking"
          BY <2>1, <4>1, <4>2, <4>3 DEF Kept, Gathered
        <5>2. Base(g) = held[g] /\ held[g] # NoRequest
          BY <1>1, <4>1, <4>2, <4>3, <5>1, TurnLoopAssumption DEF Base, Chained
        <5> QED
          BY <1>1, <1>2, <4>1, <4>2, <5>2 DEF Chained, Covers
      <4>4. CASE pending[g] # NoRequest
        <5>1. Base(g) = pending[g]
          BY <4>4 DEF Base
        <5>2. \/ pending[g] \in buffer[g]
              \/ phase[g] = "locking" /\ held[g] = pending[g]
          BY <1>2, <1>3, <2>1, <4>1, <4>4 DEF Kept, Newest, Waits
        <5>3. Covers(pending[g], held[g])
          BY <1>1, <1>3, <2>1, <4>1, <4>4, <5>2 DEF Kept, Corrects, Chained
        <5> QED
          BY <1>2, <4>1, <4>4, <5>1, <5>3 DEF Covers
      <4> QED
        BY <4>3, <4>4
    <3> QED
      BY <3>1, <3>2
  <2>7. Carried'
    <3> SUFFICES ASSUME NEW x \in replaced
                 PROVE  \E q \in Requests \ replaced : x \in Range(prompt'[q])
      BY <1>2 DEF Carried, Covers
    <3>1. PICK q \in Requests \ replaced : Covers(q, x)
      BY <2>1 DEF Kept, Carried
    <3>2. q # r
      BY <1>1, <1>2, <1>4, <3>1 DEF Chained
    <3> QED
      BY <1>2, <3>1, <3>2 DEF Covers
  <2> QED
    BY <2>3, <2>4, <2>5, <2>6, <2>7 DEF Kept
<1> QED
  BY <1>5, <1>6, <1>7 DEF Messages

-----------------------------------------------------------------------------
(* Push counts itself, so that its stamp is above every other.             *)
LEMMA PushStamps ==
  ASSUME TypeInv, Stamped, NEW r \in Requests, Push(r)
  PROVE  /\ sub[r] = "marked" /\ sub'[r] = "sent"
         /\ \A q \in Requests : q # r => sub'[q] = sub[q] /\ stamp'[q] = stamp[q]
         /\ \A q \in Requests : q # r => stamp'[q] < stamp'[r]
         /\ Stamped'
<1>1. /\ sub \in [Requests -> {"new", "queued", "routed", "marked", "sent"}]
      /\ stamp \in [Requests -> Nat]
  BY DEF TypeInv, TypeOK
<1>2. /\ sub[r] = "marked"
      /\ sub' = [sub EXCEPT ![r] = "sent"]
      /\ stamp' = [stamp EXCEPT ![r] = 1 + Cardinality(Pushed)]
  BY DEF Push, Pushed
<1>3. IsFiniteSet(Pushed) /\ r \notin Pushed
  <2>1. IsFiniteSet(Pushed)
    BY TurnLoopAssumption, FS_Subset DEF Pushed
  <2>2. stamp[r] = 0
    BY <1>2 DEF Stamped
  <2> QED
    BY <2>1, <2>2 DEF Pushed
<1>4. Cardinality(Pushed) \in Nat
  BY <1>3, FS_CardinalityType
<1>5. Pushed' = Pushed \cup {r}
  BY <1>1, <1>2, <1>4 DEF Pushed
<1>6. Cardinality(Pushed)' = 1 + Cardinality(Pushed)
  <2>1. Cardinality(Pushed \cup {r}) = Cardinality(Pushed) + 1
    BY <1>3, FS_AddElement
  <2> QED
    BY <1>4, <1>5, <2>1
<1>7. stamp'[r] = 1 + Cardinality(Pushed) /\ \A q \in Requests : q # r => stamp'[q] = stamp[q]
  BY <1>1, <1>2
<1>8. sub'[r] = "sent" /\ \A q \in Requests : q # r => sub'[q] = sub[q]
  BY <1>1, <1>2
<1>9. \A q \in Requests : stamp[q] \in Nat /\ stamp[q] <= Cardinality(Pushed)
  BY <1>1 DEF Stamped
<1>10. Stamped'
  BY <1>4, <1>6, <1>7, <1>8, <1>9 DEF Stamped
<1> QED
  BY <1>2, <1>4, <1>7, <1>8, <1>9, <1>10

LEMMA PushKeeps ==
  ASSUME TypeInv, Born, Open, Messages, NEW r \in Requests, Push(r)
  PROVE  Messages'
<1> DEFINE g == home[r]
<1>1. Chained /\ Stamped /\ Unreplaced /\ (~ overlapped => Kept)
  BY DEF Messages
<1>2. /\ sub[r] = "marked" /\ sub'[r] = "sent"
      /\ \A q \in Requests : q # r => sub'[q] = sub[q] /\ stamp'[q] = stamp[q]
      /\ \A q \in Requests : q # r => stamp'[q] < stamp'[r]
      /\ Stamped'
  BY <1>1, PushStamps
<1>3. /\ g \in Loops /\ ~ Stopped(g)
      /\ buffer'[g] = buffer[g] \cup {r}
      /\ \A f \in Loops : f # g => buffer'[f] = buffer[f]
      /\ UNCHANGED <<home, prompt, phase, held, active, pending, stopReq, replaced, overlapped>>
  BY <1>2 DEF Push, TypeInv, TypeOK, Placed, histVars
<1>4. \A f \in Loops :
        /\ preempt'[f] \in BOOLEAN /\ preempt[f] \in BOOLEAN
        /\ preempt'[f] => preempt[f] \/ (f = g /\ phase[g] \in {"locking", "planned", "running", "draining"})
  <2>1. preempt \in [Loops -> BOOLEAN]
    BY DEF TypeInv, TypeOK
  <2>2. PICK hit \in BOOLEAN :
          /\ hit => phase[g] \in {"locking", "planned", "running", "draining"}
          /\ preempt' = [preempt EXCEPT ![g] = preempt[g] \/ hit]
    BY DEF Push
  <2>3. preempt' \in [Loops -> BOOLEAN]
    BY <1>3, <2>1, <2>2
  <2>4. preempt'[g] <=> preempt[g] \/ hit
    BY <1>3, <2>1, <2>2
  <2>5. \A f \in Loops : f # g => preempt'[f] = preempt[f]
    BY <2>1, <2>2
  <2> QED
    BY <2>1, <2>2, <2>3, <2>4, <2>5
<1>5. \A f \in Loops :
        /\ phase[f] \in Alive \ {"idle"} => held[f] \in Requests /\ held[f] # r
        /\ buffer[f] \subseteq Requests /\ r \notin buffer[f]
        /\ pending[f] # NoRequest => pending[f] \in Requests
        /\ active[f] # NoRequest => active[f] \in Requests
  <2>1. \A f \in Loops : /\ pending[f] \in Requests \cup {NoRequest}
                         /\ active[f] \in Requests \cup {NoRequest}
    BY DEF TypeInv, TypeOK
  <2> QED
    BY <1>2, <2>1, Places
<1> HIDE DEF g
<1>6. Chained'
  <2>1. \A q \in Requests : sub[q] \in {"marked", "sent"} => sub'[q] \in {"marked", "sent"}
    BY <1>2
  <2>2. \A q \in Requests : sub[q] = "sent" => sub'[q] = "sent"
    BY <1>2
  <2> QED
    BY <1>1, <1>3, <1>5, <2>1, <2>2 DEF Chained, Covers, HasTurn
<1>7. Unreplaced'
  <2>1. r \notin replaced /\ replaced \subseteq Requests
    BY <1>1, <1>2 DEF Unreplaced, TypeInv, TypeOK
  <2> QED
    BY <1>1, <1>2, <1>3, <2>1 DEF Unreplaced
<1>8. ASSUME ~ overlapped' PROVE Kept'
  <2>1. Kept
    BY <1>1, <1>3, <1>8
  <2>2. \A q \in Requests : sub'[q] # "marked"
    BY <1>2, <2>1 DEF Kept, OneMarked
  <2>3. pending[g] = r
    BY <1>2, <1>3, <1>5, <2>1 DEF Kept, Gathered, Newest, Waits, OneMarked, g
  <2>4. OneMarked' /\ Carried'
    BY <1>3, <2>1, <2>2 DEF Kept, OneMarked, Carried, Covers
  <2>5. Newest'
    <3> SUFFICES ASSUME NEW f \in Loops, pending[f] # NoRequest, ~ Stopped(f)
                 PROVE  \/ /\ pending[f] \in buffer'[f]
                           /\ \A q \in buffer'[f] : q # pending[f] => stamp'[q] < stamp'[pending[f]]
                        \/ /\ phase[f] = "locking" /\ held[f] = pending[f]
                           /\ buffer'[f] = {}
      BY <1>3, <2>2 DEF Newest, Waits, Stopped
    <3>1. CASE f = g
      BY <1>2, <1>3, <1>5, <2>3, <3>1
    <3>2. CASE f # g
      <4>1. ~ (home[r] = f)
        BY <3>2 DEF g
      <4>2. \A q \in Requests : sub[q] = "marked" => q = r
        BY <1>2, <2>1 DEF Kept, OneMarked
      <4>3. \A q \in Requests : ~ Waits(q, f)
        BY <4>1, <4>2 DEF Waits
      <4> QED
        BY <1>2, <1>3, <1>5, <2>1, <3>2, <4>3 DEF Kept, Newest
    <3> QED
      BY <3>1, <3>2
  <2>6. Gathered'
    BY <1>2, <1>3, <2>1, <2>2 DEF Kept, Gathered, Waits, Stopped, Covers, g
  <2>7. Corrects'
    BY <1>2, <1>3, <2>1, <2>2 DEF Kept, Corrects, Waits, HasTurn, Covers, g
  <2>8. Justified'
    BY <1>3, <1>4, <2>1 DEF Kept, Justified
  <2> QED
    BY <2>4, <2>5, <2>6, <2>7, <2>8 DEF Kept
<1> QED
  BY <1>2, <1>6, <1>7, <1>8 DEF Messages

-----------------------------------------------------------------------------
(* What a loop has in hand are messages.                                   *)
LEMMA HandTyped ==
  ASSUME TypeInv
  PROVE  /\ replaced \subseteq Requests
         /\ \A f \in Loops :
              /\ phase[f] \in Alive \ {"idle"} => held[f] \in Requests
              /\ buffer[f] \subseteq Requests
              /\ pending[f] # NoRequest => pending[f] \in Requests
              /\ active[f] # NoRequest => active[f] \in Requests
<1>1. /\ replaced \subseteq Requests
      /\ \A f \in Loops : /\ pending[f] \in Requests \cup {NoRequest}
                          /\ active[f] \in Requests \cup {NoRequest}
  BY DEF TypeInv, TypeOK
<1> QED
  BY <1>1, Places

(* A step that is quiet moves no message: at most a loop ends, or a turn    *)
(* goes on without touching buffer or pending message.                     *)
Quiet ==
  /\ UNCHANGED <<prompt, stamp, held, pending, replaced, overlapped>>
  /\ \A q \in Requests :
       /\ sub[q] \in {"marked", "sent"} => sub'[q] \in {"marked", "sent"}
       /\ sub[q] = "sent" => sub'[q] = "sent"
       /\ sub'[q] = "marked" => sub[q] = "marked" /\ home'[q] = home[q]
       /\ sub[q] = "marked" => \/ sub'[q] = "marked" /\ home'[q] = home[q]
                               \/ sub'[q] = "sent" /\ Stopped(home[q])
  /\ \A f \in Loops :
       /\ Stopped(f) => stopReq'[f] \/ phase'[f] \in {"exited", "gone"}
       /\ buffer'[f] = buffer[f] \/ (buffer'[f] = {} /\ phase'[f] = "exited")
       /\ active'[f] = active[f] \/ (active'[f] = NoRequest /\ phase'[f] = "idle")
       /\ phase'[f] = "locking" <=> phase[f] = "locking"
       /\ phase'[f] \in Alive \ {"idle"} => phase[f] \in Alive \ {"idle"}
       /\ phase'[f] \in {"locking", "planned", "running", "draining"} =>
            phase[f] \in {"locking", "planned", "running", "draining"}
       /\ preempt'[f] => preempt[f] /\ (phase'[f] \in {"unborn", "idle"} => phase[f] \in {"unborn", "idle"})

LEMMA QuietKeeps ==
  ASSUME TypeInv, Messages, Quiet
  PROVE  Messages'
<1>1. Chained /\ Stamped /\ Unreplaced /\ (~ overlapped => Kept)
  BY DEF Messages
<1>2. UNCHANGED <<prompt, stamp, held, pending, replaced, overlapped>>
  BY DEF Quiet
<1>3. Chained'
  BY <1>1, <1>2, HandTyped DEF Quiet, Chained, Covers, HasTurn
<1>4. Stamped'
  BY <1>1, <1>2 DEF Quiet, Stamped, Pushed
<1>5. Unreplaced'
  BY <1>1, <1>2, HandTyped DEF Quiet, Unreplaced
<1>6. ASSUME ~ overlapped' PROVE Kept'
  <2>1. Kept
    BY <1>1, <1>2, <1>6
  <2>2. OneMarked' /\ Carried' /\ Justified'
    BY <1>2, <2>1 DEF Quiet, Kept, OneMarked, Carried, Covers, Justified
  <2>3. ASSUME NEW f \in Loops, ~ Stopped(f)'
        PROVE  /\ ~ Stopped(f) /\ buffer'[f] = buffer[f]
               /\ \A q \in Requests : Waits(q, f) <=> home'[q] = f /\ sub'[q] = "marked"
    BY <2>3 DEF Quiet, Stopped, Waits
  <2>4. Newest'
    <3> SUFFICES ASSUME NEW f \in Loops, pending[f] # NoRequest, ~ Stopped(f)'
                 PROVE  \/ home'[pending[f]] = f /\ sub'[pending[f]] = "marked"
                        \/ /\ pending[f] \in buffer'[f]
                           /\ \A q \in Requests : ~ (home'[q] = f /\ sub'[q] = "marked")
                           /\ \A q \in buffer'[f] : q # pending[f] => stamp[q] < stamp[pending[f]]
                        \/ /\ phase'[f] = "locking" /\ held[f] = pending[f]
                           /\ buffer'[f] = {}
                           /\ \A q \in Requests : ~ (home'[q] = f /\ sub'[q] = "marked")
      BY <1>2 DEF Newest, Waits
    <3>1. pending[f] \in Requests /\ (phase[f] = "locking" => phase'[f] = "locking")
      BY HandTyped DEF Quiet
    <3> QED
      BY <2>1, <2>3, <3>1 DEF Kept, Newest
  <2>5. Gathered'
    <3> SUFFICES ASSUME NEW f \in Loops, NEW q \in Requests, ~ Stopped(f)',
                        \/ q \in buffer'[f]
                        \/ home'[q] = f /\ sub'[q] = "marked"
                        \/ phase'[f] = "locking" /\ q = held[f]
                 PROVE  pending[f] # NoRequest /\ q \in Range(prompt[pending[f]])
      BY <1>2 DEF Gathered, Waits, Covers
    <3>1. phase'[f] = "locking" => phase[f] = "locking"
      BY DEF Quiet
    <3> QED
      BY <2>1, <2>3, <3>1 DEF Kept, Gathered, Covers
  <2>6. Corrects'
    <3> SUFFICES ASSUME NEW f \in Loops, NEW q \in Requests, phase'[f] \in Alive \ {"idle"},
                        q \in buffer'[f] \/ (home'[q] = f /\ sub'[q] = "marked" /\ ~ Stopped(f)')
                 PROVE  held[f] \in Range(prompt[q])
      BY <1>2 DEF Corrects, HasTurn, Waits, Covers
    <3>1. HasTurn(f)
      BY DEF Quiet, HasTurn
    <3>2. q \in buffer[f] \/ (Waits(q, f) /\ ~ Stopped(f))
      BY <2>3 DEF Quiet
    <3> QED
      BY <2>1, <3>1, <3>2 DEF Kept, Corrects, Covers
  <2> QED
    BY <2>2, <2>4, <2>5, <2>6 DEF Kept
<1> QED
  BY <1>3, <1>4, <1>5, <1>6 DEF Messages

(* GenInput takes the newest message; those it closes are in its prompt, or *)
(* in the prompt of the one about to be pushed.                            *)
LEMMA SupersedeKeeps ==
  ASSUME TypeInv, Messages, NEW g \in Loops, GenSupersede(g)
  PROVE  Messages'
<1>1. Chained /\ Stamped /\ Unreplaced /\ (~ overlapped => Kept)
  BY DEF Messages
<1>2. PICK r \in buffer[g] :
        /\ \A q \in buffer[g] : stamp[q] <= stamp[r]
        /\ held' = [held EXCEPT ![g] = r]
        /\ replaced' = replaced \cup (buffer[g] \ {r})
  BY DEF GenSupersede
<1>3. /\ phase[g] = "idle" /\ ~ Stopped(g)
      /\ buffer' = [buffer EXCEPT ![g] = {}]
      /\ phase' = [phase EXCEPT ![g] = "locking"]
      /\ UNCHANGED <<sub, home, prompt, stamp, active, pending, preempt, stopReq, overlapped>>
  BY DEF GenSupersede, Stopped, submitVars
<1>4. /\ held'[g] = r /\ buffer'[g] = {} /\ phase'[g] = "locking"
      /\ \A f \in Loops : f # g => held'[f] = held[f] /\ buffer'[f] = buffer[f] /\ phase'[f] = phase[f]
      /\ r \in Requests /\ buffer[g] \subseteq Requests
      /\ \A q \in Requests : stamp[q] \in Nat
  BY <1>2, <1>3, Places DEF TypeInv, TypeOK
<1>5. \A q \in buffer[g] : /\ home[q] = g /\ sub[q] = "sent"
                           /\ \A f \in Loops : f # g => q \notin buffer[f] /\ (HasTurn(f) => held[f] # q)
  BY Places DEF HasTurn
<1>6. Chained'
  BY <1>1, <1>3, <1>4, HandTyped DEF Chained, Covers, HasTurn
<1>7. Stamped'
  BY <1>1, <1>3 DEF Stamped, Pushed
<1>8. Unreplaced'
  <2>1. \A q \in replaced' : sub'[q] = "sent"
    BY <1>1, <1>2, <1>3, <1>5 DEF Unreplaced
  <2>2. \A f \in Loops : \A q \in buffer'[f] : q \notin replaced'
    BY <1>1, <1>2, <1>4, <1>5 DEF Unreplaced
  <2>3. \A f \in Loops : phase'[f] \in {"locking", "planned", "running", "draining"} => held'[f] \notin replaced'
    BY <1>1, <1>2, <1>4, <1>5 DEF Unreplaced, HasTurn, Alive
  <2> QED
    BY <2>1, <2>2, <2>3 DEF Unreplaced
<1>9. ASSUME ~ overlapped' PROVE Kept'
  <2>1. Kept
    BY <1>1, <1>3, <1>9
  <2>2. /\ pending[g] \in Requests /\ pending[g] # NoRequest
        /\ \A q \in buffer[g] : Covers(pending[g], q)
    BY <1>3, <1>4, <2>1, HandTyped DEF Kept, Gathered
  <2>3. \/ Waits(pending[g], g)
        \/ pending[g] = r /\ \A q \in Requests : ~ Waits(q, g)
    BY <1>2, <1>3, <1>4, <2>1, <2>2 DEF Kept, Newest
  <2>4. OneMarked' /\ Justified'
    BY <1>3, <1>4, <2>1 DEF Kept, OneMarked, Justified
  <2>5. Newest'
    <3> SUFFICES ASSUME NEW f \in Loops, pending[f] # NoRequest, ~ Stopped(f)'
                 PROVE  \/ Waits(pending[f], f)
                        \/ /\ pending[f] \in buffer'[f]
                           /\ \A q \in Requests : ~ Waits(q, f)
                           /\ \A q \in buffer'[f] : q # pending[f] => stamp[q] < stamp[pending[f]]
                        \/ /\ phase'[f] = "locking" /\ held'[f] = pending[f]
                           /\ buffer'[f] = {}
                           /\ \A q \in Requests : ~ Waits(q, f)
      BY <1>3 DEF Newest, Waits
    <3>1. CASE f = g
      BY <1>4, <2>3, <3>1
    <3>2. CASE f # g
      BY <1>3, <1>4, <2>1, <3>2 DEF Kept, Newest, Stopped
    <3> QED
      BY <3>1, <3>2
  <2>6. Gathered'
    BY <1>2, <1>3, <1>4, <2>1 DEF Kept, Gathered, Waits, Stopped, Covers
  <2>7. Corrects'
    <3> SUFFICES ASSUME NEW f \in Loops, NEW q \in Requests, phase'[f] \in Alive \ {"idle"},
                        q \in buffer'[f] \/ (Waits(q, f) /\ ~ Stopped(f)')
                 PROVE  held'[f] \in Range(prompt[q])
      BY <1>3 DEF Corrects, HasTurn, Waits, Covers
    <3>1. CASE f = g
      <4>1. Waits(q, g)
        BY <1>4, <3>1
      <4>2. q = pending[g]
        BY <2>1, <2>2, <2>3, <4>1 DEF Kept, OneMarked, Waits
      <4> QED
        BY <1>4, <2>2, <3>1, <4>2 DEF Covers
    <3>2. CASE f # g
      BY <1>3, <1>4, <2>1, <3>2 DEF Kept, Corrects, HasTurn, Stopped, Covers
    <3> QED
      BY <3>1, <3>2
  <2>8. Carried'
    <3>1. pending[g] \notin replaced'
      BY <1>1, <1>2, <1>5, <2>3 DEF Waits, Unreplaced
    <3> SUFFICES ASSUME NEW x \in replaced'
                 PROVE  \E q \in Requests \ replaced' : x \in Range(prompt[q])
      BY <1>3 DEF Carried, Covers
    <3>2. CASE x \in buffer[g]
      BY <2>2, <3>1, <3>2 DEF Covers
    <3>3. CASE x \notin buffer[g]
      <4>1. PICK q \in Requests \ replaced : Covers(q, x)
        BY <1>2, <2>1, <3>3 DEF Kept, Carried
      <4>2. CASE q \notin replaced'
        BY <4>1, <4>2 DEF Covers
      <4>3. CASE q \in replaced'
        <5>1. Covers(pending[g], q)
          BY <1>2, <2>2, <4>1, <4>3
        <5> QED
          BY <1>1, <2>2, <3>1, <4>1, <5>1 DEF Chained, Covers
      <4> QED
        BY <4>2, <4>3
    <3> QED
      BY <3>2, <3>3
  <2> QED
    BY <2>4, <2>5, <2>6, <2>7, <2>8 DEF Kept
<1> QED
  BY <1>6, <1>7, <1>8, <1>9 DEF Messages

(* The loop has the lock: its message is no longer pending, and any other   *)
(* pending message came after it.                                          *)
LEMMA AcquireKeeps ==
  ASSUME TypeInv, Open, Messages, NEW g \in Loops, GenAcquire(g)
  PROVE  Messages'
<1>1. Chained /\ Stamped /\ Unreplaced /\ (~ overlapped => Kept)
  BY DEF Messages
<1>2. /\ phase[g] = "locking" /\ phase' = [phase EXCEPT ![g] = "planned"]
      /\ active' = [active EXCEPT ![g] = held[g]]
      /\ pending' = [pending EXCEPT ![g] = IF @ = held[g] THEN NoRequest ELSE @]
      /\ UNCHANGED <<sub, home, prompt, stamp, buffer, held, preempt, stopReq, replaced, overlapped>>
  BY DEF GenAcquire, submitVars, histVars
<1>3. /\ phase'[g] = "planned" /\ active'[g] = held[g]
      /\ pending'[g] = IF pending[g] = held[g] THEN NoRequest ELSE pending[g]
      /\ \A f \in Loops : f # g => phase'[f] = phase[f] /\ active'[f] = active[f] /\ pending'[f] = pending[f]
  BY <1>2 DEF TypeInv, TypeOK
<1>4. held[g] \in Requests /\ sub[held[g]] = "sent" /\ held[g] \notin buffer[g]
  BY <1>2, Places DEF Alive, Open, Serving
<1>5. Chained'
  BY <1>1, <1>2, <1>3, <1>4, HandTyped DEF Chained, Covers, HasTurn
<1>6. Stamped' /\ Unreplaced'
  BY <1>1, <1>2, <1>3 DEF Stamped, Pushed, Unreplaced
<1>7. ASSUME ~ overlapped' PROVE Kept'
  <2>1. Kept
    BY <1>1, <1>2, <1>7
  <2>2. OneMarked' /\ Carried' /\ Justified'
    BY <1>2, <1>3, <2>1 DEF Kept, OneMarked, Carried, Covers, Justified
  <2>3. Newest'
    <3> SUFFICES ASSUME NEW f \in Loops, pending'[f] # NoRequest, ~ Stopped(f)'
                 PROVE  \/ home[pending'[f]] = f /\ sub[pending'[f]] = "marked"
                        \/ /\ pending'[f] \in buffer[f]
                           /\ \A q \in Requests : ~ Waits(q, f)
                           /\ \A q \in buffer[f] : q # pending'[f] => stamp[q] < stamp[pending'[f]]
                        \/ /\ phase'[f] = "locking" /\ held[f] = pending'[f]
                           /\ buffer[f] = {}
                           /\ \A q \in Requests : ~ Waits(q, f)
      BY <1>2 DEF Newest, Waits
    <3>1. ~ Stopped(f)
      BY <1>2, <1>3 DEF Stopped
    <3>2. CASE f = g
      BY <1>3, <2>1, <3>1, <3>2 DEF Kept, Newest, Waits
    <3>3. CASE f # g
      BY <1>3, <2>1, <3>1, <3>3 DEF Kept, Newest, Waits
    <3> QED
      BY <3>2, <3>3
  <2>4. Gathered'
    <3> SUFFICES ASSUME NEW f \in Loops, NEW q \in Requests, ~ Stopped(f)',
                        \/ q \in buffer[f] \/ Waits(q, f)
                        \/ phase'[f] = "locking" /\ q = held[f]
                 PROVE  pending'[f] # NoRequest /\ q \in Range(prompt[pending'[f]])
      BY <1>2 DEF Gathered, Waits, Covers
    <3>1. ~ Stopped(f)
      BY <1>2, <1>3 DEF Stopped
    <3>2. CASE f = g
      <4>1. q \in buffer[g] \/ Waits(q, g)
        BY <1>3, <3>2
      <4>2. pending[g] # NoRequest /\ Covers(pending[g], q)
        BY <2>1, <3>1, <3>2, <4>1 DEF Kept, Gathered
      <4>3. pending[g] # held[g]
        BY <1>4, <2>1, <3>1, <3>2, <4>1, <4>2 DEF Kept, Newest, Waits
      <4> QED
        BY <1>3, <3>2, <4>2, <4>3 DEF Covers
    <3>3. CASE f # g
      BY <1>3, <2>1, <3>1, <3>3 DEF Kept, Gathered, Covers
    <3> QED
      BY <3>2, <3>3
  <2>5. Corrects'
    <3> SUFFICES ASSUME NEW f \in Loops, NEW q \in Requests, phase'[f] \in Alive \ {"idle"},
                        q \in buffer[f] \/ (Waits(q, f) /\ ~ Stopped(f)')
                 PROVE  held[f] \in Range(prompt[q])
      BY <1>2 DEF Corrects, HasTurn, Waits, Covers
    <3>1. HasTurn(f) /\ (~ Stopped(f)' => ~ Stopped(f))
      BY <1>2, <1>3 DEF Stopped, HasTurn, Alive
    <3> QED
      BY <2>1, <3>1 DEF Kept, Corrects, Covers
  <2> QED
    BY <2>2, <2>3, <2>4, <2>5 DEF Kept
<1> QED
  BY <1>5, <1>6, <1>7 DEF Messages

(* A preempted turn is closed for a message in the buffer that covers it.   *)
LEMMA JudgeKeeps ==
  ASSUME TypeInv, Open, Messages, NEW g \in Loops, JudgeTurn(g)
  PROVE  Messages'
<1>1. Chained /\ Stamped /\ Unreplaced /\ (~ overlapped => Kept)
  BY DEF Messages
<1>2. /\ phase[g] = "draining" /\ phase' = [phase EXCEPT ![g] = "judged"]
      /\ replaced' = IF preempt[g] THEN replaced \cup {held[g]} ELSE replaced
      /\ UNCHANGED <<sub, home, prompt, stamp, buffer, held, active, pending, preempt, stopReq, overlapped>>
  BY DEF JudgeTurn, submitVars
<1>3. phase'[g] = "judged" /\ \A f \in Loops : f # g => phase'[f] = phase[f]
  BY <1>2 DEF TypeInv, TypeOK
<1>4. /\ held[g] \in Requests /\ sub[held[g]] = "sent"
      /\ \A f \in Loops : held[g] \notin buffer[f] /\ (f # g /\ HasTurn(f) => held[f] # held[g])
  BY <1>2, Places DEF Alive, Open, Serving, HasTurn
<1>5. Chained' /\ Stamped'
  BY <1>1, <1>2, <1>3 DEF Chained, Covers, HasTurn, Alive, Stamped, Pushed
<1>6. Unreplaced'
  <2>1. \A q \in replaced' : sub'[q] = "sent"
    BY <1>1, <1>2, <1>4 DEF Unreplaced
  <2>2. \A f \in Loops : \A q \in buffer'[f] : q \notin replaced'
    BY <1>1, <1>2, <1>4 DEF Unreplaced
  <2>3. \A f \in Loops : phase'[f] \in {"locking", "planned", "running", "draining"} => held'[f] \notin replaced'
    BY <1>1, <1>2, <1>3, <1>4 DEF Unreplaced, HasTurn, Alive
  <2> QED
    BY <2>1, <2>2, <2>3 DEF Unreplaced
<1>7. ASSUME ~ overlapped' PROVE Kept'
  <2>1. Kept
    BY <1>1, <1>2, <1>7
  <2>2. \A f \in Loops : /\ phase'[f] = "locking" <=> phase[f] = "locking"
                         /\ phase'[f] \in Alive \ {"idle"} <=> phase[f] \in Alive \ {"idle"}
                         /\ phase'[f] \in {"exited", "gone"} <=> phase[f] \in {"exited", "gone"}
    BY <1>2, <1>3 DEF Alive
  <2>3. OneMarked' /\ Justified'
    BY <1>2, <1>3, <2>1 DEF Kept, OneMarked, Justified
  <2>4. Newest'
    BY <1>2, <2>1, <2>2 DEF Kept, Newest, Waits, Stopped
  <2>5. Gathered'
    BY <1>2, <2>1, <2>2 DEF Kept, Gathered, Waits, Stopped, Covers
  <2>6. Corrects'
    BY <1>2, <2>1, <2>2 DEF Kept, Corrects, Waits, Stopped, HasTurn, Covers
  <2>7. CASE ~ preempt[g]
    BY <1>2, <2>1, <2>3, <2>4, <2>5, <2>6, <2>7 DEF Kept, Carried, Covers
  <2>8. CASE preempt[g]
    <3>1. PICK q \in buffer[g] : q \in Requests /\ Covers(q, held[g])
      BY <1>2, <2>1, <2>8, HandTyped DEF Kept, Justified, Corrects, HasTurn, Alive
    <3>2. q \notin replaced'
      BY <1>1, <1>2, <1>4, <2>8, <3>1 DEF Unreplaced
    <3> SUFFICES ASSUME NEW x \in replaced'
                 PROVE  \E p \in Requests \ replaced' : x \in Range(prompt[p])
      BY <1>2, <2>3, <2>4, <2>5, <2>6 DEF Kept, Carried, Covers
    <3>3. CASE x = held[g]
      BY <3>1, <3>2, <3>3 DEF Covers
    <3>4. CASE x # held[g]
      <4>1. PICK p \in Requests \ replaced : Covers(p, x)
        BY <1>2, <2>1, <2>8, <3>4 DEF Kept, Carried
      <4>2. CASE p # held[g]
        BY <1>2, <2>8, <4>1, <4>2 DEF Covers
      <4>3. CASE p = held[g]
        BY <1>1, <3>1, <3>2, <4>1, <4>3 DEF Chained, Covers
      <4> QED
        BY <4>2, <4>3
    <3> QED
      BY <3>3, <3>4
  <2> QED
    BY <2>7, <2>8
<1> QED
  BY <1>5, <1>6, <1>7 DEF Messages

-----------------------------------------------------------------------------
(* Every other step is quiet.                                              *)
LEMMA QuietSubmit ==
  ASSUME TypeInv, NEW r \in Requests, Enqueue(r) \/ Route(r) \/ Reject(r)
  PROVE  Quiet
<1> USE DEF TypeInv, TypeOK, Quiet, Stopped, Alive
<1>1. CASE Enqueue(r)
  BY <1>1 DEF Enqueue, loopVars, histVars
<1>2. CASE Route(r)
  <2>1. /\ UNCHANGED <<prompt, stamp, buffer, held, active, pending, preempt, stopReq, replaced, overlapped>>
        /\ sub[r] = "queued" /\ sub' = [sub EXCEPT ![r] = "routed"]
        /\ \A q \in Requests : q # r => home'[q] = home[q]
        /\ \A f \in Loops : phase'[f] = phase[f] \/ (phase[f] = "unborn" /\ phase'[f] = "idle")
    BY <1>2 DEF Route, histVars
  <2> QED
    BY <2>1
<1>3. CASE Reject(r)
  BY <1>3 DEF Reject, loopVars, histVars
<1> QED
  BY <1>1, <1>2, <1>3

LEMMA QuietLoop ==
  ASSUME TypeInv, NEW g \in Loops,
         \/ Prepare(g) \/ TurnEnd(g) \/ TurnCut(g) \/ RecordTurn(g) \/ ReleaseTurn(g)
         \/ ClearActive(g) \/ LoopExit(g) \/ WatchFinish(g) \/ Forget(g)
  PROVE  Quiet
<1> USE DEF Quiet, Stopped, Alive
<1>0. /\ phase \in [Loops -> Alive \cup {"unborn", "exited", "gone"}]
      /\ buffer \in [Loops -> SUBSET Requests]
      /\ active \in [Loops -> Requests \cup {NoRequest}]
      /\ preempt \in [Loops -> BOOLEAN]
  BY DEF TypeInv, TypeOK
<1>1. CASE Prepare(g)
  BY <1>0, <1>1 DEF Prepare, submitVars, histVars
<1>2. CASE TurnEnd(g)
  <2>1. /\ UNCHANGED <<submitVars, buffer, held, active, pending, stopReq, replaced, overlapped>>
        /\ phase[g] = "running" /\ phase' = [phase EXCEPT ![g] = "draining"]
    BY <1>2 DEF TurnEnd, histVars
  <2>2. \A f \in Loops : preempt'[f] => preempt[f]
    <3>1. PICK closed \in IF preempt[g] THEN BOOLEAN ELSE {FALSE} :
            preempt' = [preempt EXCEPT ![g] = closed]
      BY <1>2 DEF TurnEnd
    <3>2. \A f \in Loops : f # g => preempt'[f] = preempt[f]
      BY <1>0, <3>1
    <3>3. preempt'[g] = closed
      BY <1>0, <3>1
    <3> QED
      BY <3>1, <3>2, <3>3
  <2> QED
    BY <1>0, <2>1, <2>2 DEF submitVars
<1>3. CASE TurnCut(g)
  BY <1>0, <1>3 DEF TurnCut, submitVars, histVars
<1>4. CASE RecordTurn(g)
  BY <1>0, <1>4 DEF RecordTurn, submitVars, histVars
<1>5. CASE ReleaseTurn(g)
  BY <1>0, <1>5 DEF ReleaseTurn, submitVars, histVars
<1>6. CASE ClearActive(g)
  <2>1. /\ UNCHANGED <<sub, home, prompt, stamp, buffer, held, pending, stopReq, replaced, overlapped>>
        /\ phase[g] = "released" /\ phase' = [phase EXCEPT ![g] = "idle"]
    BY <1>6 DEF ClearActive, submitVars, histVars
  <2>2. \A f \in Loops : preempt'[f] => preempt[f] /\ f # g
    BY <1>0, <1>6 DEF ClearActive
  <2>3. \A f \in Loops : active'[f] = active[f] \/ (f = g /\ active'[f] = NoRequest)
    BY <1>0, <1>6 DEF ClearActive
  <2> QED
    BY <1>0, <2>1, <2>2, <2>3
<1>7. CASE LoopExit(g)
  BY <1>0, <1>7 DEF LoopExit, submitVars, histVars
<1>8. CASE WatchFinish(g)
  BY <1>0, <1>8 DEF WatchFinish, submitVars, histVars
<1>9. CASE Forget(g)
  <2>1. /\ UNCHANGED <<sub, home, prompt, stamp, buffer, held, active, pending, preempt, stopReq, replaced, overlapped>>
        /\ phase[g] = "exited" /\ phase' = [phase EXCEPT ![g] = "gone"]
    BY <1>9 DEF Forget, submitVars, histVars
  <2> QED
    BY <1>0, <2>1
<1> QED
  BY <1>1, <1>2, <1>3, <1>4, <1>5, <1>6, <1>7, <1>8, <1>9

LEMMA QuietOther ==
  ASSUME TypeInv,
         \/ \E a \in Cancellable : Cancel(a)
         \/ \E d \in Directs : DirectAccept(d) \/ DirectBegin(d) \/ DirectStep(d)
         \/ \E h \in Resets : ResetDetach(h) \/ ResetStep(h) \/ ResetClear(h)
  PROVE  Quiet
<1> USE DEF Quiet, Stopped, submitVars, loopVars, histVars
<1>1. ASSUME NEW a \in Cancellable, Cancel(a) PROVE Quiet
  BY <1>1 DEF Cancel
<1>2. ASSUME NEW d \in Directs, DirectAccept(d) \/ DirectBegin(d) \/ DirectStep(d) PROVE Quiet
  BY <1>2 DEF DirectStep, DirectAccept, DirectBegin, DirectRecord, DirectUnlock
<1>3. ASSUME NEW h \in Resets, ResetDetach(h) \/ ResetWait(h) \/ ResetReply(h) \/ ResetClear(h)
      PROVE  Quiet
  BY <1>3 DEF ResetDetach, ResetWait, ResetReply, ResetClear
<1>4. ASSUME NEW h \in Resets, ResetStop(h) PROVE Quiet
  <2>1. stopReq \in [Loops -> BOOLEAN]
    BY DEF TypeInv, TypeOK
  <2>2. /\ UNCHANGED <<sub, home, prompt, stamp, buffer, phase, held, active, pending, preempt, replaced, overlapped>>
        /\ stopReq' = [stopReq EXCEPT ![rtarget[h]] = TRUE]
    BY <1>4 DEF ResetStop
  <2>3. \A f \in Loops : stopReq[f] => stopReq'[f]
    BY <2>1, <2>2
  <2> QED
    BY <2>2, <2>3
<1> QED
  BY <1>1, <1>2, <1>3, <1>4 DEF ResetStep

LEMMA MessagesStep ==
  ASSUME TypeInv, Born, Open, Messages, Next
  PROVE  Messages'
<1>1. ASSUME NEW r \in Requests, Mark(r) PROVE Messages'
  BY <1>1, MarkKeeps
<1>2. ASSUME NEW r \in Requests, Push(r) PROVE Messages'
  BY <1>2, PushKeeps
<1>3. ASSUME NEW g \in Loops, GenSupersede(g) \/ GenAcquire(g) \/ JudgeTurn(g) PROVE Messages'
  BY <1>3, SupersedeKeeps, AcquireKeeps, JudgeKeeps
<1>4. CASE Quiet
  BY <1>4, QuietKeeps
<1> QED
  BY <1>1, <1>2, <1>3, <1>4, QuietSubmit, QuietLoop, QuietOther DEF Next, SubmitStep, LoopStep

LEMMA MessagesInit == Init => Messages
<1> SUFFICES ASSUME Init PROVE Messages
  OBVIOUS
<1>1. \A r \in Requests : Range(prompt[r]) = {r}
  <2> SUFFICES ASSUME NEW r \in Requests PROVE Range(prompt[r]) = {r}
    OBVIOUS
  <2>1. prompt[r] = <<r>>
    BY DEF Init
  <2>2. DOMAIN <<r>> = {1} /\ <<r>>[1] = r
    OBVIOUS
  <2>3. Range(<<r>>) = {r}
    BY <2>2 DEF Range
  <2> QED
    BY <2>1, <2>3
<1>2. Chained
  <2>1. \A q, r \in Requests : Covers(q, r) <=> q = r
    BY <1>1 DEF Covers
  <2>2. \A g \in Loops : pending[g] = NoRequest /\ active[g] = NoRequest /\ phase[g] = "unborn"
    BY DEF Init
  <2> QED
    BY <2>1, <2>2 DEF Chained, HasTurn, Alive
<1>3. Stamped
  <2>1. Pushed = {}
    BY DEF Init, Pushed
  <2> QED
    BY <2>1, FS_EmptySet DEF Init, Stamped
<1>4. Unreplaced
  BY DEF Init, Unreplaced
<1>5. Kept
  BY DEF Init, Kept, OneMarked, Newest, Gathered, Waits, Corrects, HasTurn, Alive, Justified, Carried
<1> QED
  BY <1>2, <1>3, <1>4, <1>5 DEF Messages

(* A message dropped for a newer one lives on in the prompt of a message    *)
(* that was not, whatever is superseded, preempted, cancelled, stopped or   *)
(* reset, unless two submissions overlapped between l.mu and Push.          *)
THEOREM MessagesCarried == Spec => []NoMessageLost
<1>1. Init => SessionInv /\ Messages
  BY SessionInit, MessagesInit
<1>2. SessionInv /\ Messages /\ [Next]_vars => (SessionInv /\ Messages)'
  <2> SUFFICES ASSUME SessionInv, Messages, [Next]_vars PROVE SessionInv' /\ Messages'
    OBVIOUS
  <2>1. SessionInv'
    BY SessionStep
  <2>2. CASE Next
    BY <2>1, <2>2, MessagesStep DEF SessionInv
  <2>3. CASE UNCHANGED vars
    BY <2>1, <2>3 DEF Messages, Chained, Covers, HasTurn, Stamped, Pushed, Unreplaced, Kept,
       OneMarked, Newest, Waits, Stopped, Gathered, Corrects, Justified, Carried,
       vars, submitVars, loopVars, histVars
  <2> QED
    BY <2>1, <2>2, <2>3
<1>3. Messages => NoMessageLost
  BY DEF Messages, Kept, Carried, Covers, NoMessageLost
<1> QED
  BY <1>1, <1>2, <1>3, PTL DEF Spec
=============================================================================
