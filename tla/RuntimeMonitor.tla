--------------------------- MODULE RuntimeMonitor ---------------------------
(***************************************************************************)
(* What the management page shows as running: the monitor of               *)
(* internal/app/runtime_monitor.go, which numbers the events of runs and   *)
(* drops them for a subscriber whose channel is full, the event stream of  *)
(* /api/events, and the page of internal/app/admin/app.js, which applies   *)
(* events to its picture, asks for a new snapshot a moment after each, and *)
(* replaces the picture by whatever answer comes in.                       *)
(* The picture of a run is the number of the event that brought it.        *)
(***************************************************************************)
EXTENDS Naturals, Sequences

CONSTANTS
  Watched,        (* runs of the agent                                          *)
  Fetches,     (* requests for a snapshot the page may have under way        *)
  Capacity,    (* room in a subscriber's channel                             *)
  MaxEvents,   (* bound: no more events than this                            *)
  MaxMonitorFaults (* bound: broken streams and failed requests              *)

ASSUME MonitorAssumption ==
  Capacity \in Nat \ {0} /\ MaxEvents \in Nat /\ MaxMonitorFaults \in Nat

VARIABLES
  active,      (* runtimeMonitor.active: run -> its last event, 0 if absent  *)
  sequence,    (* runtimeMonitor.sequence                                    *)
  begun, ended, (* history: runs started, runs finished                      *)
  stream,      (* the page is subscribed                                     *)
  channel,     (* the subscriber's channel                                   *)
  known,       (* the page has a snapshot (state.runtime is not null)        *)
  view,        (* the page's active_runs                                     *)
  timer,       (* the page's refresh timer is armed                          *)
  fetch,       (* request -> its progress, the snapshot and when it was taken *)
  lostAt,      (* history: the last event the page did not get               *)
  shownAt,     (* history: when the latest snapshot shown was taken          *)
  behind,      (* history: an older one was shown after it, or a request     *)
               (* failed and none was answered since                         *)
  monitorFaults

runVars == <<active, sequence, begun, ended>>
pageVars    == <<known, view, timer, fetch, shownAt, behind>>
monitorVars == <<runVars, stream, channel, pageVars, lostAt, monitorFaults>>

None == [r \in Watched |-> 0]
Idle == [state |-> "idle", picture |-> None, at |-> 0, early |-> FALSE]

(* The page asks for a snapshot and for the stream at once.                *)
MonitorInit ==
  /\ active = None /\ sequence = 0 /\ begun = {} /\ ended = {}
  /\ stream = FALSE /\ channel = <<>>
  /\ known = FALSE /\ view = None /\ timer = TRUE
  /\ fetch = [f \in Fetches |-> Idle]
  /\ lostAt = 0 /\ shownAt = 0 /\ behind = FALSE
  /\ monitorFaults = 0

-----------------------------------------------------------------------------
(* The monitor.                                                            *)

(* newEventLocked and publishLocked: the send does not block.              *)
Publish(r, type) ==
  LET event == [number |-> sequence + 1, type |-> type, run |-> r]
      room  == stream /\ Len(channel) < Capacity
  IN
  /\ sequence < MaxEvents
  /\ sequence' = event.number
  /\ channel' = IF room THEN Append(channel, event) ELSE channel
  /\ lostAt' = IF room THEN lostAt ELSE event.number
  /\ UNCHANGED <<stream, pageVars, monitorFaults>>

Start(r) ==
  /\ r \notin begun
  /\ begun' = begun \cup {r}
  /\ active' = [active EXCEPT ![r] = sequence + 1]
  /\ Publish(r, "run_started")
  /\ UNCHANGED ended

(* Update, from the loop or a hook; one that comes late is ignored.         *)
Update(r) ==
  /\ active[r] # 0
  /\ active' = [active EXCEPT ![r] = sequence + 1]
  /\ Publish(r, "run_updated")
  /\ UNCHANGED <<begun, ended>>

Finish(r) ==
  /\ active[r] # 0
  /\ active' = [active EXCEPT ![r] = 0]
  /\ ended' = ended \cup {r}
  /\ Publish(r, "run_finished")
  /\ UNCHANGED begun

-----------------------------------------------------------------------------
(* The stream.                                                             *)

(* handleRuntimeEvents subscribes; what happened before is not sent.        *)
Subscribe ==
  /\ ~ stream
  /\ stream' = TRUE
  /\ UNCHANGED <<runVars, channel, pageVars, lostAt, monitorFaults>>

(* History: the last event the page did not get, with this one.             *)
Lost(event) == IF event.number > lostAt THEN event.number ELSE lostAt

(* The connection breaks: the channel goes with the subscription.           *)
Unsubscribe ==
  /\ stream /\ monitorFaults < MaxMonitorFaults
  /\ stream' = FALSE
  /\ channel' = <<>>
  /\ lostAt' = IF channel = <<>> THEN lostAt ELSE Lost(channel[Len(channel)])
  /\ monitorFaults' = monitorFaults + 1
  /\ UNCHANGED <<runVars, pageVars>>

Picture(event) == IF event.type = "run_finished" THEN 0 ELSE event.number

(* Mutant: the event is applied and no new snapshot asked for.             *)
ReceiveOnly ==
  /\ channel # <<>>
  /\ channel' = Tail(channel)
  /\ IF known
     THEN /\ view' = [view EXCEPT ![Head(channel).run] = Picture(Head(channel))]
          /\ UNCHANGED lostAt
     ELSE /\ lostAt' = Lost(Head(channel))
          /\ UNCHANGED view
  /\ UNCHANGED <<runVars, stream, known, timer, fetch, shownAt, behind, monitorFaults>>

(* applyRuntimeEvent: without a first snapshot the event is passed over.    *)
Receive ==
  /\ channel # <<>>
  /\ channel' = Tail(channel)
  /\ IF known
     THEN /\ view' = [view EXCEPT ![Head(channel).run] = Picture(Head(channel))]
          /\ timer' = TRUE
          /\ UNCHANGED lostAt
     ELSE /\ lostAt' = Lost(Head(channel))
          /\ UNCHANGED <<view, timer>>
  /\ UNCHANGED <<runVars, stream, known, fetch, shownAt, behind, monitorFaults>>

-----------------------------------------------------------------------------
(* Snapshots.                                                              *)

(* The timer fires: refreshRuntimeAndTasks.                                 *)
Ask(f) ==
  /\ timer /\ fetch[f].state = "idle"
  /\ timer' = FALSE
  /\ fetch' = [fetch EXCEPT ![f].state = "asked"]
  /\ UNCHANGED <<runVars, stream, channel, known, view, shownAt, behind, lostAt, monitorFaults>>

(* handleRuntime, Active.                                                   *)
Answer(f) ==
  /\ fetch[f].state = "asked"
  /\ fetch' = [fetch EXCEPT ![f].state = "answered",
                            ![f].picture = active, ![f].at = sequence]
  /\ UNCHANGED <<runVars, stream, channel, known, view, timer, shownAt, behind, lostAt, monitorFaults>>

(* The answer replaces the picture, also when a later one did so before it. *)
Show(f) ==
  /\ fetch[f].state = "answered"
  /\ known' = TRUE
  /\ view' = fetch[f].picture
  /\ shownAt' = IF fetch[f].at > shownAt THEN fetch[f].at ELSE shownAt
  /\ behind' = (fetch[f].at < shownAt \/ fetch[f].early)
  /\ fetch' = [fetch EXCEPT ![f] = Idle]
  /\ UNCHANGED <<runVars, stream, channel, timer, lostAt, monitorFaults>>

(* The page does not ask again by itself: the answers still under way were  *)
(* asked for earlier than the one that failed may have been.                *)
Fail(f) ==
  /\ fetch[f].state # "idle" /\ monitorFaults < MaxMonitorFaults
  /\ fetch' = [g \in Fetches |->
                 IF g = f \/ fetch[g].state = "idle" THEN Idle
                 ELSE [fetch[g] EXCEPT !.early = TRUE]]
  /\ behind' = TRUE
  /\ monitorFaults' = monitorFaults + 1
  /\ UNCHANGED <<runVars, stream, channel, known, view, timer, shownAt, lostAt>>

MonitorNext ==
  \/ \E r \in Watched : Start(r) \/ Update(r) \/ Finish(r)
  \/ Subscribe \/ Unsubscribe \/ Receive
  \/ \E f \in Fetches : Ask(f) \/ Answer(f) \/ Show(f) \/ Fail(f)

MonitorSpec == MonitorInit /\ [][MonitorNext]_monitorVars

-----------------------------------------------------------------------------
(* Every variable keeps its shape.                                         *)
MonitorTypeOK ==
  /\ active \in [Watched -> Nat] /\ sequence \in Nat
  /\ begun \subseteq Watched /\ ended \subseteq begun
  /\ stream \in BOOLEAN
  /\ channel \in Seq([number : Nat, run : Watched,
                      type : {"run_started", "run_updated", "run_finished"}])
  /\ known \in BOOLEAN /\ view \in [Watched -> Nat] /\ timer \in BOOLEAN
  /\ fetch \in [Fetches -> [state : {"idle", "asked", "answered"},
                            picture : [Watched -> Nat], at : Nat,
                            early : BOOLEAN]]
  /\ lostAt \in Nat /\ shownAt \in Nat /\ behind \in BOOLEAN /\ monitorFaults \in Nat

(* Nothing is under way that could still change the page.                   *)
Quiet ==
  /\ stream /\ channel = <<>> /\ ~ timer /\ known
  /\ \A f \in Fetches : fetch[f].state = "idle"

(* A page at rest shows exactly the runs that were started and not finished, *)
(* each as its last event left it, although events of different ages and     *)
(* snapshots overtake each other on the way to it; what can be wrong is only *)
(* what it lost since its last snapshot (a full channel, a broken stream, an *)
(* event before the first snapshot), a failed request or an overtaken one.   *)
TruthAtRest ==
  Quiet /\ lostAt <= shownAt /\ ~ behind =>
    view = active /\ \A r \in Watched : view[r] # 0 <=> r \in begun \ ended

(* The invariant of the monitor, its stream and its page.                   *)
MonitorInv == MonitorTypeOK /\ TruthAtRest
=============================================================================
