---------------------------- MODULE ServerProofs ----------------------------
(***************************************************************************)
(* Proofs about what stands around a run: module RuntimeMonitor (the page   *)
(* that watches the runs is never told less than happened), module          *)
(* MemoryStore (what a run learns is kept until it is forgotten, and then   *)
(* for good), module Grounding (an answer the guards let pass is backed by  *)
(* what the tools did) and module FeishuChannel (the window of event ids is *)
(* what it should be, and what a turn leaves in the chat is its answer),     *)
(* for every number of runs, tool calls, fetches, memories and turns.       *)
(***************************************************************************)
EXTENDS MemoryStore, RuntimeMonitor, Grounding, FeishuChannel, FiniteSetTheorems, SequenceTheorems, TLAPS

-----------------------------------------------------------------------------
(* The runtime monitor: what the page knows.                                *)

(* An event of this run that is younger than a snapshot is on its way to the *)
(* page.                                                                    *)
Coming(r, at) == \E i \in 1..Len(channel) : channel[i].run = r /\ channel[i].number > at

(* Numbers grow along the channel and along the snapshots.                  *)
Numbered ==
  /\ \A i \in 1..Len(channel) : channel[i].number <= sequence
  /\ \A i, j \in 1..Len(channel) : i < j => channel[i].number < channel[j].number
  /\ shownAt <= sequence

(* A run is active from its start to its end.                               *)
ActiveInv == \A r \in Watched : active[r] # 0 <=> r \in begun \ ended

(* A snapshot that is still the latest is true.                             *)
Fresh ==
  \A f \in Fetches : fetch[f].state = "answered" =>
    /\ fetch[f].at <= sequence
    /\ fetch[f].at = sequence => fetch[f].picture = active

(* For each run in which the page is not right there is something under way   *)
(* that will tell it, or something was lost since its last snapshot.          *)
Seen(r) ==
  \/ view[r] = active[r]
  \/ Coming(r, shownAt)
  \/ lostAt > shownAt
  \/ timer
  \/ \E f \in Fetches : fetch[f].state # "idle"

PageInv == known /\ ~ behind => \A r \in Watched : Seen(r)

(* The same of the picture in an answer, which has yet to be shown.           *)
Told(f, r) ==
  \/ fetch[f].picture[r] = active[r]
  \/ Coming(r, fetch[f].at)
  \/ lostAt > fetch[f].at
  \/ timer
  \/ \E g \in Fetches : fetch[g].state = "asked"
  \/ \E g \in Fetches : fetch[g].state = "answered" /\ fetch[g].at > fetch[f].at
  \/ shownAt > fetch[f].at
  \/ fetch[f].early

AnswerInv ==
  \A f \in Fetches : fetch[f].state = "answered" => \A r \in Watched : Told(f, r)

WatchInv == MonitorTypeOK /\ Numbered /\ ActiveInv /\ Fresh /\ PageInv /\ AnswerInv

(* What the monitor sends, and what the page asks for.                      *)
EventTypes == {"run_started", "run_updated", "run_finished"}
Events   == [number : Nat, run : Watched, type : EventTypes]
Requests == [state : {"idle", "asked", "answered"}, picture : [Watched -> Nat], at : Nat,
             early : BOOLEAN]

(* The types of the monitor, the stream and the page.                       *)
RunTypes ==
  /\ active \in [Watched -> Nat] /\ sequence \in Nat
  /\ begun \subseteq Watched /\ ended \subseteq begun
WireTypes ==
  /\ stream \in BOOLEAN /\ channel \in Seq(Events)
  /\ lostAt \in Nat /\ monitorFaults \in Nat
PageTypes ==
  /\ known \in BOOLEAN /\ view \in [Watched -> Nat] /\ timer \in BOOLEAN
  /\ shownAt \in Nat /\ behind \in BOOLEAN
FetchTypes == fetch \in [Fetches -> Requests]

(* The types of the monitor are those of its runs, its wire, its page and   *)
(* its fetches; also after a step.                                          *)
LEMMA MonitorTypes == MonitorTypeOK <=> RunTypes /\ WireTypes /\ PageTypes /\ FetchTypes
  BY
     DEF MonitorTypeOK, RunTypes, WireTypes, PageTypes, FetchTypes, Events, EventTypes,
         Requests

LEMMA MonitorTypesAfter == MonitorTypeOK' <=> RunTypes' /\ WireTypes' /\ PageTypes' /\ FetchTypes'
  BY
     DEF MonitorTypeOK, RunTypes, WireTypes, PageTypes, FetchTypes, Events, EventTypes,
         Requests

(* A published event is well typed.                                         *)
LEMMA PublishTypes ==
  ASSUME RunTypes, WireTypes, NEW r \in Watched, NEW type \in EventTypes, Publish(r, type)
  PROVE  WireTypes' /\ sequence' \in Nat
<1> DEFINE event == [number |-> sequence + 1, type |-> type, run |-> r]
<1>1. event \in Events
  BY DEF Events, RunTypes
<1>2. Append(channel, event) \in Seq(Events)
  BY <1>1 DEF WireTypes
<1>3. /\ sequence' = sequence + 1 /\ lostAt' \in {lostAt, sequence + 1}
      /\ stream' = stream /\ monitorFaults' = monitorFaults
  BY DEF Publish
<1>4. channel' \in {channel, Append(channel, event)}
  BY DEF Publish
<1>5. channel \in Seq(Events)
  BY DEF WireTypes
<1>6. channel' \in Seq(Events)
  BY <1>2, <1>4, <1>5
<1>7. sequence + 1 \in Nat /\ lostAt \in Nat /\ stream \in BOOLEAN /\ monitorFaults \in Nat
  BY DEF RunTypes, WireTypes
<1> HIDE DEF event
<1>8. /\ sequence' \in Nat /\ lostAt' \in Nat
      /\ stream' \in BOOLEAN /\ monitorFaults' \in Nat
  BY <1>3, <1>7
<1> QED
  BY <1>6, <1>8 DEF WireTypes

(* An empty channel and an idle page are well typed.                        *)
LEMMA NoEvents == <<>> \in Seq(Events)
  OBVIOUS

(* The events at both ends of the channel, and what an event carries.       *)
LEMMA FirstEvent ==
  ASSUME WireTypes, channel # <<>>
  PROVE  /\ Head(channel) \in Events /\ Tail(channel) \in Seq(Events)
         /\ channel[Len(channel)] \in Events
  BY DEF WireTypes

LEMMA EventParts ==
  ASSUME NEW e \in Events
  PROVE  e.number \in Nat /\ e.run \in Watched /\ e.type \in EventTypes /\ Picture(e) \in Nat
  BY DEF Events, Picture

(* A page that shows nothing, and a fetch that is not under way.            *)
LEMMA NonePicture == None \in [Watched -> Nat] /\ Idle \in Requests
  BY DEF None, Idle, Requests

(* Every step keeps the variables of the monitor well typed.                *)
LEMMA WatchTypes ==
  ASSUME MonitorTypeOK, ActiveInv, [MonitorNext]_monitorVars
  PROVE  MonitorTypeOK'
<1> USE MonitorTypes, MonitorTypesAfter
<1>1. ASSUME NEW r \in Watched, Start(r) \/ Update(r) \/ Finish(r) PROVE MonitorTypeOK'
  <2>1. PICK type \in EventTypes : Publish(r, type)
    BY <1>1 DEF Start, Update, Finish, EventTypes
  <2>2. WireTypes' /\ sequence' \in Nat
    BY <2>1, PublishTypes
  <2>3. PageTypes' /\ FetchTypes'
    BY <2>1 DEF Publish, pageVars, PageTypes, FetchTypes
  <2>4. active' \in [Watched -> Nat] /\ begun' \subseteq Watched /\ ended' \subseteq begun'
    <3>1. CASE Start(r)
      BY <3>1 DEF Start, RunTypes
    <3>2. CASE Update(r)
      BY <3>2 DEF Update, RunTypes
    <3>3. CASE Finish(r)
      BY <3>3 DEF Finish, RunTypes, ActiveInv
    <3> QED
      BY <3>1, <3>2, <3>3, <1>1
  <2> QED
    BY <2>2, <2>3, <2>4 DEF RunTypes
<1>2. CASE Subscribe
  BY <1>2 DEF Subscribe, runVars, pageVars, RunTypes, WireTypes, PageTypes, FetchTypes
<1>3. CASE Unsubscribe
  <2>1. channel # <<>> => Lost(channel[Len(channel)]) \in Nat
    BY FirstEvent, EventParts DEF Lost, WireTypes
  <2>2. lostAt' \in Nat /\ channel' \in Seq(Events) /\ stream' \in BOOLEAN /\ monitorFaults' \in Nat
    <3>1. channel' = <<>> /\ stream' = FALSE /\ monitorFaults' = monitorFaults + 1
      BY <1>3 DEF Unsubscribe
    <3>2. lostAt' \in Nat
      BY <1>3, <2>1 DEF Unsubscribe, WireTypes
    <3>3. stream' \in BOOLEAN
      BY <3>1
    <3> QED
      BY <3>1, <3>2, <3>3, NoEvents DEF WireTypes
  <2> QED
    BY <1>3, <2>2
       DEF Unsubscribe, runVars, pageVars, RunTypes, WireTypes, PageTypes, FetchTypes
<1>4. CASE Receive
  <2>1. channel # <<>>
    BY <1>4 DEF Receive
  <2>2. Head(channel).run \in Watched /\ Picture(Head(channel)) \in Nat /\ Lost(Head(channel)) \in Nat
    BY <2>1, FirstEvent, EventParts DEF Lost, WireTypes
  <2>3. view' \in [Watched -> Nat] /\ timer' \in BOOLEAN /\ lostAt' \in Nat
    BY <1>4, <2>2 DEF Receive, PageTypes, WireTypes
  <2> QED
    BY <1>4, <2>1, <2>3, FirstEvent
       DEF Receive, runVars, RunTypes, WireTypes, PageTypes, FetchTypes
<1>5. ASSUME NEW f \in Fetches, Ask(f) \/ Answer(f) \/ Show(f) \/ Fail(f) PROVE MonitorTypeOK'
  <2>0. fetch[f] \in Requests
    BY DEF FetchTypes
  <2>1. CASE Ask(f)
    <3>1. FetchTypes'
      BY <2>0, <2>1 DEF Ask, FetchTypes, Requests
    <3> QED
      BY <2>1, <3>1 DEF Ask, runVars, RunTypes, WireTypes, PageTypes
  <2>2. CASE Answer(f)
    <3>1. FetchTypes'
      BY <2>0, <2>2 DEF Answer, FetchTypes, Requests, RunTypes
    <3> QED
      BY <2>2, <3>1 DEF Answer, runVars, RunTypes, WireTypes, PageTypes
  <2>3. CASE Show(f)
    <3>1. FetchTypes'
      BY <2>3, NonePicture DEF Show, FetchTypes
    <3>2. fetch[f].picture \in [Watched -> Nat] /\ fetch[f].at \in Nat /\ fetch[f].early \in BOOLEAN
      BY <2>0 DEF Requests
    <3>3. PageTypes'
      BY <2>3, <3>2 DEF Show, PageTypes
    <3> QED
      BY <2>3, <3>1, <3>3 DEF Show, runVars, RunTypes, WireTypes
  <2>4. CASE Fail(f)
    <3>1. \A g \in Fetches : [fetch[g] EXCEPT !.early = TRUE] \in Requests
      BY DEF FetchTypes, Requests
    <3>2. FetchTypes'
      BY <2>4, <3>1, NonePicture DEF Fail, FetchTypes
    <3> QED
      BY <2>4, <3>2 DEF Fail, runVars, RunTypes, WireTypes, PageTypes
  <2> QED
    BY <2>1, <2>2, <2>3, <2>4, <1>5
<1>6. CASE UNCHANGED monitorVars
  BY <1>6 DEF monitorVars, runVars, pageVars, RunTypes, WireTypes, PageTypes, FetchTypes
<1> QED
  BY <1>1, <1>2, <1>3, <1>4, <1>5, <1>6 DEF MonitorNext

(* The invariant holds at first.                                            *)
LEMMA WatchFirst == MonitorInit => WatchInv
<1> SUFFICES ASSUME MonitorInit PROVE WatchInv
  OBVIOUS
<1>1. MonitorTypeOK
  <2>1. RunTypes /\ PageTypes /\ FetchTypes
    BY NonePicture DEF MonitorInit, RunTypes, PageTypes, FetchTypes
  <2>2. WireTypes
    BY NoEvents DEF MonitorInit, WireTypes
  <2> QED
    BY <2>1, <2>2, MonitorTypes
<1>2. \A f \in Fetches : fetch[f].state = "idle"
  BY DEF MonitorInit, Idle
<1> QED
  BY <1>1, <1>2
     DEF WatchInv, MonitorInit, Numbered, ActiveInv, Fresh, PageInv, AnswerInv, None

(* An event that is published comes, or is lost; none is the same as before.  *)
LEMMA PublishTells ==
  ASSUME RunTypes, WireTypes, PageTypes, Numbered, NEW r \in Watched, NEW type \in EventTypes, Publish(r, type)
  PROVE  /\ Numbered' /\ sequence' = sequence + 1 /\ lostAt' >= 0
         /\ lostAt' = lostAt \/ lostAt' = sequence + 1
         /\ \A at \in Nat : at <= sequence =>
              /\ Coming(r, at)' \/ lostAt' > at
              /\ \A q \in Watched : Coming(q, at) => Coming(q, at)'
              /\ lostAt > at => lostAt' > at
<1> DEFINE event == [number |-> sequence + 1, type |-> type, run |-> r]
<1>1. sequence' = sequence + 1 /\ shownAt' = shownAt
  BY DEF Publish, pageVars
<1>2. lostAt \in Nat /\ sequence \in Nat /\ shownAt \in Nat /\ channel \in Seq(Events)
  BY DEF RunTypes, WireTypes, PageTypes
<1>3. CASE channel' = Append(channel, event) /\ lostAt' = lostAt
  <2>1. /\ Len(channel') = Len(channel) + 1 /\ Len(channel) \in Nat
        /\ channel'[Len(channel) + 1] = event
        /\ \A i \in 1..Len(channel) : channel'[i] = channel[i]
    BY <1>2, <1>3
  <2>2. \A i \in 1..Len(channel) : channel[i].number \in Nat /\ channel[i].number <= sequence
    BY <1>2, EventParts DEF Numbered
  <2>3. Numbered'
    <3>1. /\ \A i \in 1..Len(channel') : channel'[i].number <= sequence + 1
          /\ \A i \in 1..Len(channel) : channel'[i].number < channel'[Len(channel) + 1].number
      <4>1. channel'[Len(channel) + 1].number = sequence + 1
        BY <2>1
      <4>2. \A i \in 1..Len(channel) : channel'[i].number \in Nat /\ channel'[i].number <= sequence
        BY <2>1, <2>2
      <4>3. \A i \in 1..Len(channel') : i \in 1..Len(channel) \/ i = Len(channel) + 1
        BY <2>1
      <4> QED
        BY <1>2, <4>1, <4>2, <4>3
    <3>2. ASSUME NEW i \in 1..Len(channel'), NEW j \in 1..Len(channel'), i < j
          PROVE  channel'[i].number < channel'[j].number
      <4>1. i \in 1..Len(channel) /\ (j \in 1..Len(channel) \/ j = Len(channel) + 1)
        BY <2>1, <3>2
      <4>2. CASE j \in 1..Len(channel)
        <5>1. channel[i].number < channel[j].number
          BY <3>2, <4>1, <4>2 DEF Numbered
        <5> QED
          BY <2>1, <4>1, <4>2, <5>1
      <4>3. CASE j = Len(channel) + 1
        BY <2>1, <3>1, <4>1, <4>3
      <4> QED
        BY <4>1, <4>2, <4>3
    <3> QED
      BY <1>1, <1>2, <3>1, <3>2 DEF Numbered
  <2>4. \A at \in Nat : at <= sequence => Coming(r, at)'
    BY <1>2, <2>1 DEF Coming
  <2>5. \A at \in Nat, q \in Watched : Coming(q, at) => Coming(q, at)'
    BY <1>2, <2>1 DEF Coming
  <2> QED
    BY <1>1, <1>2, <1>3, <2>3, <2>4, <2>5
<1>4. CASE channel' = channel /\ lostAt' = sequence + 1
  <2>1. Numbered'
    <3>1. \A i \in 1..Len(channel) : channel[i].number \in Nat
      BY <1>2, EventParts
    <3> QED
      BY <1>1, <1>2, <1>4, <3>1 DEF Numbered
  <2>2. \A at \in Nat, q \in Watched : Coming(q, at) => Coming(q, at)'
    BY <1>4 DEF Coming
  <2> QED
    BY <1>1, <1>2, <1>4, <2>1, <2>2
<1> QED
  BY <1>3, <1>4 DEF Publish

(* A run starts, goes on or ends: its event is put on the channel.          *)
LEMMA EventStep ==
  ASSUME WatchInv, NEW r \in Watched, Start(r) \/ Update(r) \/ Finish(r)
  PROVE  Numbered' /\ ActiveInv' /\ Fresh' /\ PageInv' /\ AnswerInv'
<1>1. PICK type \in EventTypes : Publish(r, type)
  BY DEF Start, Update, Finish, EventTypes
<1>2. RunTypes /\ WireTypes /\ PageTypes /\ FetchTypes /\ Numbered
  BY MonitorTypes DEF WatchInv
<1>3. /\ Numbered' /\ sequence' = sequence + 1
      /\ \A at \in Nat : at <= sequence =>
              /\ Coming(r, at)' \/ lostAt' > at
              /\ \A q \in Watched : Coming(q, at) => Coming(q, at)'
              /\ lostAt > at => lostAt' > at
  BY <1>1, <1>2, PublishTells
<1>4. UNCHANGED <<known, view, timer, fetch, shownAt, behind>>
  BY <1>1 DEF Publish, pageVars
<1>5. \A q \in Watched \ {r} : active'[q] = active[q]
  BY <1>2 DEF RunTypes, Start, Update, Finish
<1>6. ActiveInv'
  <2>1. r \in begun' /\ (r \in ended' <=> active'[r] = 0)
    <3>1. CASE Start(r)
      BY <1>2, <3>1 DEF Start, RunTypes
    <3>2. CASE Update(r)
      BY <1>2, <3>2 DEF Update, RunTypes, WatchInv, ActiveInv
    <3>3. CASE Finish(r)
      BY <1>2, <3>3 DEF Finish, RunTypes, WatchInv, ActiveInv
    <3> QED
      BY <3>1, <3>2, <3>3
  <2>2. \A q \in Watched \ {r} : (q \in begun' <=> q \in begun) /\ (q \in ended' <=> q \in ended)
    BY DEF Start, Update, Finish
  <2> QED
    BY <1>5, <2>1, <2>2 DEF WatchInv, ActiveInv
<1>7. Fresh'
  BY <1>2, <1>3, <1>4 DEF WatchInv, Fresh, RunTypes, FetchTypes, Requests
<1>8. PageInv'
  <2>1. shownAt \in Nat /\ shownAt <= sequence
    BY <1>2 DEF PageTypes, Numbered
  <2>2. ASSUME NEW q \in Watched, Seen(q) PROVE Seen(q)'
    BY <1>3, <1>4, <1>5, <2>1, <2>2 DEF Seen, Coming
  <2> QED
    BY <1>4, <2>2 DEF WatchInv, PageInv
<1>9. AnswerInv'
  <2>1. ASSUME NEW f \in Fetches, fetch[f].state = "answered", NEW q \in Watched, Told(f, q)
        PROVE  Told(f, q)'
    <3>1. fetch[f].at \in Nat /\ fetch[f].at <= sequence
      BY <1>2, <2>1 DEF FetchTypes, Requests, WatchInv, Fresh
    <3> QED
      BY <1>3, <1>4, <1>5, <2>1, <3>1 DEF Told, Coming
  <2> QED
    BY <1>4, <2>1 DEF WatchInv, AnswerInv
<1> QED
  BY <1>3, <1>6, <1>7, <1>8, <1>9

(* What leaves the channel unseen is counted as lost.                       *)
LEMMA LostCounts ==
  ASSUME WireTypes, NEW e \in Events, lostAt' = Lost(e)
  PROVE  lostAt' \in Nat /\ lostAt' >= lostAt /\ lostAt' >= e.number
  BY EventParts DEF WireTypes, Lost

(* The connection breaks, and the page has to ask again.                    *)
LEMMA UnsubscribeStep ==
  ASSUME WatchInv, Unsubscribe
  PROVE  Numbered' /\ ActiveInv' /\ Fresh' /\ PageInv' /\ AnswerInv'
<1>1. RunTypes /\ WireTypes /\ PageTypes /\ FetchTypes /\ Numbered
  BY MonitorTypes DEF WatchInv
<1>2. /\ UNCHANGED <<active, sequence, begun, ended, known, view, timer, fetch, shownAt, behind>>
      /\ channel' = <<>>
  BY DEF Unsubscribe, runVars, pageVars
<1>3. lostAt' >= lostAt /\ lostAt \in Nat /\ lostAt' \in Nat
  BY <1>1, FirstEvent, LostCounts DEF Unsubscribe, WireTypes
<1>4. ASSUME NEW q \in Watched, NEW at \in Nat, Coming(q, at) PROVE lostAt' > at
  <2>1. PICK i \in 1..Len(channel) : channel[i].number > at
    BY <1>4 DEF Coming
  <2>2. channel # <<>> /\ Len(channel) \in 1..Len(channel) /\ channel[i] \in Events
    BY <1>1, <2>1 DEF WireTypes
  <2>3. channel[Len(channel)].number >= channel[i].number
    BY <1>1, <2>1, <2>2, EventParts, FirstEvent DEF Numbered
  <2>4. lostAt' >= channel[Len(channel)].number
    BY <1>1, <2>2, FirstEvent, LostCounts DEF Unsubscribe
  <2> QED
    BY <1>1, <1>3, <2>1, <2>2, <2>3, <2>4, FirstEvent, EventParts
<1>5. Numbered' /\ ActiveInv' /\ Fresh'
  BY <1>1, <1>2 DEF WatchInv, Numbered, ActiveInv, Fresh
<1>6. PageInv'
  BY <1>1, <1>2, <1>3, <1>4 DEF WatchInv, PageInv, Seen, PageTypes
<1>7. AnswerInv'
  <2>1. ASSUME NEW f \in Fetches, fetch[f].state = "answered", NEW q \in Watched, Told(f, q)
        PROVE  Told(f, q)'
    <3>1. fetch[f].at \in Nat
      BY <1>1 DEF FetchTypes, Requests
    <3> QED
      BY <1>2, <1>3, <1>4, <2>1, <3>1 DEF Told
  <2> QED
    BY <1>2, <2>1 DEF WatchInv, AnswerInv
<1> QED
  BY <1>5, <1>6, <1>7

(* The page takes an event from the channel.                                *)
LEMMA ReceiveStep ==
  ASSUME WatchInv, Receive
  PROVE  Numbered' /\ ActiveInv' /\ Fresh' /\ PageInv' /\ AnswerInv'
<1>1. RunTypes /\ WireTypes /\ PageTypes /\ FetchTypes /\ Numbered
  BY MonitorTypes DEF WatchInv
<1>2. /\ UNCHANGED <<active, sequence, begun, ended, known, fetch, shownAt, behind>>
      /\ channel # <<>> /\ channel' = Tail(channel)
  BY DEF Receive, runVars
<1>3. /\ Len(channel) \in Nat \ {0} /\ Len(channel') = Len(channel) - 1
      /\ Head(channel) = channel[1]
      /\ \A i \in 1..Len(channel') : channel'[i] = channel[i + 1]
  BY <1>1, <1>2 DEF WireTypes
<1>4. Numbered' /\ ActiveInv' /\ Fresh'
  BY <1>1, <1>2, <1>3 DEF WatchInv, Numbered, ActiveInv, Fresh
<1>5. CASE known
  <2>1. timer'
    BY <1>5 DEF Receive
  <2> QED
    BY <1>4, <2>1 DEF PageInv, Seen, AnswerInv, Told
<1>6. CASE ~ known
  <2>1. PageInv'
    BY <1>2, <1>6 DEF PageInv
  <2>2. lostAt' \in Nat /\ lostAt' >= lostAt /\ lostAt' >= channel[1].number /\ lostAt \in Nat
    BY <1>1, <1>2, <1>3, <1>6, FirstEvent, LostCounts DEF Receive, WireTypes
  <2>3. UNCHANGED <<view, timer>>
    BY <1>6 DEF Receive
  <2>4. ASSUME NEW q \in Watched, NEW at \in Nat, Coming(q, at)
        PROVE  (\E i \in 1..Len(channel') : channel'[i].run = q /\ channel'[i].number > at) \/ lostAt' > at
    <3>1. PICK i \in 1..Len(channel) : channel[i].run = q /\ channel[i].number > at
      BY <2>4 DEF Coming
    <3>2. CASE i = 1
      BY <1>1, <1>2, <1>3, <2>2, <3>1, <3>2, FirstEvent, EventParts
    <3>3. CASE i # 1
      <4>1. i - 1 \in 1..Len(channel') /\ channel'[i - 1] = channel[i]
        BY <1>3, <3>1, <3>3
      <4> QED
        BY <3>1, <4>1
    <3> QED
      BY <3>2, <3>3
  <2>5. ASSUME NEW f \in Fetches, fetch[f].state = "answered", NEW q \in Watched, Told(f, q)
        PROVE  Told(f, q)'
    <3>1. fetch[f].at \in Nat
      BY <1>1 DEF FetchTypes, Requests
    <3> QED
      BY <1>2, <2>2, <2>3, <2>4, <2>5, <3>1 DEF Told, Coming
  <2>6. AnswerInv'
    BY <1>2, <2>5 DEF WatchInv, AnswerInv
  <2> QED
    BY <1>4, <2>1, <2>6
<1> QED
  BY <1>5, <1>6

(* The page asks for a snapshot.                                            *)
LEMMA AskStep ==
  ASSUME WatchInv, NEW f \in Fetches, Ask(f)
  PROVE  Numbered' /\ ActiveInv' /\ Fresh' /\ PageInv' /\ AnswerInv'
<1>1. FetchTypes
  BY MonitorTypes DEF WatchInv
<1>2. /\ UNCHANGED <<active, sequence, begun, ended, channel, known, view, shownAt, behind, lostAt>>
      /\ fetch[f].state = "idle" /\ fetch'[f].state = "asked"
      /\ \A g \in Fetches \ {f} : fetch'[g] = fetch[g]
  BY <1>1 DEF Ask, runVars, FetchTypes, Requests
<1>3. Numbered' /\ ActiveInv' /\ Fresh'
  BY <1>2 DEF WatchInv, Numbered, ActiveInv, Fresh
<1>4. PageInv'
  BY <1>2 DEF PageInv, Seen
<1>5. AnswerInv'
  BY <1>2 DEF AnswerInv, Told
<1> QED
  BY <1>3, <1>4, <1>5

(* The server takes the snapshot.                                           *)
LEMMA AnswerStep ==
  ASSUME WatchInv, NEW f \in Fetches, Answer(f)
  PROVE  Numbered' /\ ActiveInv' /\ Fresh' /\ PageInv' /\ AnswerInv'
<1>1. RunTypes /\ FetchTypes
  BY MonitorTypes DEF WatchInv
<1>2. /\ UNCHANGED <<active, sequence, begun, ended, channel, known, view, timer, shownAt, behind,
                     lostAt>>
      /\ fetch[f].state = "asked" /\ fetch'[f].state = "answered"
      /\ fetch'[f].picture = active /\ fetch'[f].at = sequence
      /\ \A g \in Fetches \ {f} : fetch'[g] = fetch[g]
  BY <1>1 DEF Answer, runVars, FetchTypes, Requests
<1>3. Numbered' /\ ActiveInv' /\ Fresh'
  BY <1>1, <1>2 DEF WatchInv, Numbered, ActiveInv, Fresh, RunTypes
<1>4. PageInv'
  BY <1>2 DEF PageInv, Seen
<1>5. ASSUME NEW g \in Fetches, fetch'[g].state = "answered", NEW q \in Watched PROVE Told(g, q)'
  <2>1. CASE g = f
    BY <1>2, <2>1 DEF Told
  <2>2. CASE g # f /\ fetch[g].at = sequence
    BY <1>2, <1>5, <2>2 DEF WatchInv, Fresh, Told
  <2>3. CASE g # f /\ fetch[g].at # sequence
    <3>1. fetch'[g] = fetch[g] /\ fetch[g].state = "answered"
      BY <1>2, <1>5, <2>3
    <3>2. fetch[g].at <= sequence /\ fetch[g].at \in Nat /\ sequence \in Nat
      BY <1>1, <3>1 DEF WatchInv, Fresh, RunTypes, FetchTypes, Requests
    <3>3. fetch'[f].at > fetch'[g].at
      BY <1>2, <2>3, <3>1, <3>2
    <3> QED
      BY <1>2, <3>3 DEF Told
  <2> QED
    BY <2>1, <2>2, <2>3
<1> QED
  BY <1>3, <1>4, <1>5 DEF AnswerInv

(* The page shows the snapshot it was sent.                                 *)
LEMMA ShowStep ==
  ASSUME WatchInv, NEW f \in Fetches, Show(f)
  PROVE  Numbered' /\ ActiveInv' /\ Fresh' /\ PageInv' /\ AnswerInv'
<1>1. RunTypes /\ PageTypes /\ FetchTypes
  BY MonitorTypes DEF WatchInv
<1>2. /\ UNCHANGED <<active, sequence, begun, ended, channel, timer, lostAt>>
      /\ fetch[f].state = "answered" /\ view' = fetch[f].picture
      /\ shownAt' = IF fetch[f].at > shownAt THEN fetch[f].at ELSE shownAt
      /\ behind' = (fetch[f].at < shownAt \/ fetch[f].early)
      /\ fetch'[f].state = "idle"
      /\ \A g \in Fetches \ {f} : fetch'[g] = fetch[g]
  BY <1>1 DEF Show, runVars, FetchTypes, Idle
<1>3. /\ shownAt \in Nat /\ shownAt <= sequence /\ sequence \in Nat
      /\ \A g \in Fetches : fetch[g].at \in Nat
      /\ fetch[f].at <= sequence
  BY <1>1, <1>2 DEF RunTypes, PageTypes, FetchTypes, Requests, WatchInv, Numbered, Fresh
<1>4. shownAt' >= shownAt /\ shownAt' >= fetch[f].at /\ shownAt' <= sequence /\ shownAt' \in Nat
  BY <1>2, <1>3
<1>5. Numbered' /\ ActiveInv' /\ Fresh'
  BY <1>2, <1>4 DEF WatchInv, Numbered, ActiveInv, Fresh
<1>6. PageInv'
  <2>1. SUFFICES ASSUME ~ behind', NEW q \in Watched PROVE Seen(q)'
    BY DEF PageInv
  <2>2. shownAt' = fetch[f].at /\ ~ fetch[f].early
    <3>1. ~ (fetch[f].at < shownAt \/ fetch[f].early)
      BY <1>2, <2>1
    <3> QED
      BY <1>2, <1>3, <3>1
  <2>3. Told(f, q)
    BY <1>2 DEF WatchInv, AnswerInv
  <2>4. CASE \E g \in Fetches : fetch[g].state = "asked"
    BY <1>2, <2>4 DEF Seen
  <2>5. CASE \E g \in Fetches : fetch[g].state = "answered" /\ fetch[g].at > fetch[f].at
    <3>1. PICK g \in Fetches : fetch[g].state = "answered" /\ fetch[g].at > fetch[f].at
      BY <2>5
    <3>2. g # f
      BY <1>3, <3>1
    <3> QED
      BY <1>2, <3>1, <3>2 DEF Seen
  <2>6. CASE \/ fetch[f].picture[q] = active[q] \/ Coming(q, fetch[f].at)
             \/ lostAt > fetch[f].at \/ timer
    BY <1>2, <2>2, <2>6 DEF Seen, Coming
  <2>7. ~ (shownAt > fetch[f].at)
    BY <1>2, <1>3, <2>1
  <2> QED
    BY <2>2, <2>3, <2>4, <2>5, <2>6, <2>7 DEF Told
<1>7. ASSUME NEW g \in Fetches, fetch'[g].state = "answered", NEW q \in Watched PROVE Told(g, q)'
  <2>1. g # f /\ fetch'[g] = fetch[g] /\ Told(g, q)
    BY <1>2, <1>7 DEF WatchInv, AnswerInv
  <2>2. CASE \E h \in Fetches : fetch[h].state = "answered" /\ fetch[h].at > fetch[g].at
    <3>1. PICK h \in Fetches : fetch[h].state = "answered" /\ fetch[h].at > fetch[g].at
      BY <2>2
    <3>2. CASE h = f
      <4>1. shownAt' > fetch'[g].at
        BY <1>3, <1>4, <2>1, <3>1, <3>2
      <4> QED
        BY <4>1 DEF Told
    <3>3. CASE h # f
      BY <1>2, <2>1, <3>1, <3>3 DEF Told
    <3> QED
      BY <3>2, <3>3
  <2>3. CASE shownAt > fetch[g].at
    <3>1. shownAt' > fetch'[g].at
      BY <1>3, <1>4, <2>1, <2>3
    <3> QED
      BY <3>1 DEF Told
  <2>4. CASE \E h \in Fetches : fetch[h].state = "asked"
    BY <1>2, <2>4 DEF Told
  <2>5. CASE \/ fetch[g].picture[q] = active[q] \/ Coming(q, fetch[g].at)
             \/ lostAt > fetch[g].at \/ timer \/ fetch[g].early
    BY <1>2, <2>1, <2>5 DEF Told, Coming
  <2> QED
    BY <2>1, <2>2, <2>3, <2>4, <2>5 DEF Told
<1> QED
  BY <1>5, <1>6, <1>7 DEF AnswerInv

(* A fetch fails.                                                           *)
LEMMA FailStep ==
  ASSUME WatchInv, NEW f \in Fetches, Fail(f)
  PROVE  Numbered' /\ ActiveInv' /\ Fresh' /\ PageInv' /\ AnswerInv'
<1>1. FetchTypes
  BY MonitorTypes DEF WatchInv
<1>2. UNCHANGED <<active, sequence, begun, ended, channel, known, view, timer, shownAt, lostAt>> /\ behind'
  BY DEF Fail, runVars
<1>3. ASSUME NEW g \in Fetches, fetch'[g].state = "answered"
      PROVE  /\ fetch[g].state = "answered" /\ fetch'[g].early
             /\ fetch'[g].at = fetch[g].at /\ fetch'[g].picture = fetch[g].picture
  <2>1. fetch'[g] = [fetch[g] EXCEPT !.early = TRUE]
    BY <1>3 DEF Fail, Idle
  <2> QED
    BY <1>1, <1>3, <2>1 DEF FetchTypes, Requests
<1>4. Numbered' /\ ActiveInv'
  BY <1>2 DEF WatchInv, Numbered, ActiveInv
<1>5. Fresh'
  BY <1>2, <1>3 DEF WatchInv, Fresh
<1>6. PageInv' /\ AnswerInv'
  BY <1>2, <1>3 DEF PageInv, AnswerInv, Told
<1> QED
  BY <1>4, <1>5, <1>6

(* Every step keeps the invariant of the monitor.                           *)
LEMMA WatchStep == WatchInv /\ [MonitorNext]_monitorVars => WatchInv'
<1> SUFFICES ASSUME WatchInv, [MonitorNext]_monitorVars PROVE WatchInv'
  OBVIOUS
<1>1. MonitorTypeOK'
  BY WatchTypes DEF WatchInv
<1>2. ASSUME NEW r \in Watched, Start(r) \/ Update(r) \/ Finish(r) PROVE WatchInv'
  BY <1>1, <1>2, EventStep DEF WatchInv
<1>3. CASE Subscribe \/ UNCHANGED monitorVars
  <2>1. UNCHANGED <<active, sequence, begun, ended, channel, known, view, timer, fetch, shownAt,
                    behind, lostAt>>
    BY <1>3 DEF Subscribe, monitorVars, runVars, pageVars
  <2> QED
    BY <1>1, <2>1
    DEF WatchInv, Numbered, ActiveInv, Fresh, PageInv, AnswerInv, Seen, Told, Coming
<1>4. CASE Unsubscribe
  BY <1>1, <1>4, UnsubscribeStep DEF WatchInv
<1>5. CASE Receive
  BY <1>1, <1>5, ReceiveStep DEF WatchInv
<1>6. ASSUME NEW f \in Fetches, Ask(f) \/ Answer(f) \/ Show(f) \/ Fail(f) PROVE WatchInv'
  BY <1>1, <1>6, AskStep, AnswerStep, ShowStep, FailStep DEF WatchInv
<1> QED
  BY <1>2, <1>3, <1>4, <1>5, <1>6 DEF MonitorNext

(* A page with nothing under way and nothing lost is right in every run.      *)
LEMMA WatchedTruly == WatchInv => MonitorInv
<1> SUFFICES ASSUME WatchInv, Quiet, lostAt <= shownAt, ~ behind
             PROVE  view = active /\ \A r \in Watched : view[r] # 0 <=> r \in begun \ ended
  BY DEF WatchInv, MonitorInv, TruthAtRest
<1>1. RunTypes /\ WireTypes /\ PageTypes
  BY MonitorTypes DEF WatchInv
<1>2. ASSUME NEW r \in Watched PROVE view[r] = active[r]
  <2>1. Seen(r)
    BY DEF Quiet, WatchInv, PageInv
  <2>2. ~ Coming(r, shownAt)
    BY DEF Quiet, Coming
  <2>3. ~ (lostAt > shownAt)
    BY <1>1 DEF WireTypes, PageTypes
  <2> QED
    BY <2>1, <2>2, <2>3 DEF Seen, Quiet
<1> QED
  BY <1>1, <1>2 DEF RunTypes, PageTypes, WatchInv, ActiveInv

(* Whatever is dropped, broken off, overtaken or answered late: once the page *)
(* is at rest and has lost nothing since its last snapshot, it shows exactly  *)
(* the runs that are active, each as its last event left it.                 *)
THEOREM PageIsTruthful == MonitorSpec => []MonitorInv
<1>1. MonitorSpec => []WatchInv
  BY WatchFirst, WatchStep, PTL DEF MonitorSpec
<1> QED
  BY <1>1, WatchedTruly, PTL

-----------------------------------------------------------------------------
(* The memory store: what a run leaves behind.                              *)

(* A call has an owner once its hook has begun, its raw result is there while *)
(* the hook has it, and what the hook has read are results of the same run.   *)
CallsInv ==
  \A c \in Calls :
    /\ call[c].state = "none" <=> call[c].by = "none"
    /\ c \in artifacts => call[c].state # "none"
    /\ call[c].state \in {"captured", "read"} => c \in artifacts /\ work[call[c].by].state = "running"
    /\ call[c].state = "read" =>
         \A d \in Members(call[c].base) : d \in artifacts /\ call[d].by = call[c].by

(* A run that is not over has its pending records of results that are there,  *)
(* and of all that were recorded; what was forgotten is over.                *)
WorkInv ==
  \A r \in Runs :
    /\ work[r].state = "new" =>
         /\ work[r].pending = <<>> /\ work[r].recall = {}
         /\ \A c \in Calls : call[c].by # r
    /\ work[r].state \in {"running", "kept"} =>
         /\ \A c \in Members(work[r].pending) : c \in artifacts /\ call[c].by = r
         /\ \A c \in artifacts : call[c].by = r /\ call[c].state = "over" =>
              c \in Members(work[r].pending)
    /\ r \in forgotten => work[r].state = "over"

(* The long-term file has an oldest record, and so has every part of it; this *)
(* is what trimming takes away.                                             *)
Oldest(records) == {m \in records : \A n \in records : m.at <= n.at}

AgesInv ==
  /\ IsFiniteSet(longTerm)
  /\ \A m \in longTerm : m.at <= updates
  /\ \A records \in SUBSET longTerm : records # {} => Oldest(records) # {}

(* The types of the long-term file, of the files of the session, and of the   *)
(* runs and calls that use them.                                            *)
Memories == [content : Contents, cut : BOOLEAN, at : Nat]
Works == [state : {"new", "running", "kept", "over"}, pending : Seq(Calls), recall : SUBSET Runs,
          recalls : {"not", "asked", "done"}]
Hooks == [state : {"none", "captured", "read", "over", "lost"}, by : Runs \cup {"none"},
          base : Seq(Calls)]

LongTypes == longTerm \subseteq Memories /\ updates \in Nat
FileTypes == shortTurns \in Seq(Runs) /\ toolRecords \in Seq(Calls) /\ artifacts \subseteq Calls
WorkTypes == work \in [Runs -> Works]
CallTypes == call \in [Calls -> Hooks]
PastTypes == forgotten \subseteq Runs /\ memoryFaults \in Nat /\ memoryCrashes \in Nat

(* The types of the memories, by part; also after a step.                   *)
LEMMA MemoryTypes ==
  MemoryTypeOK <=> LongTypes /\ FileTypes /\ WorkTypes /\ CallTypes /\ PastTypes
  BY
     DEF MemoryTypeOK, LongTypes, FileTypes, WorkTypes, CallTypes, PastTypes, Memories, Works,
         Hooks

LEMMA MemoryTypesAfter ==
  MemoryTypeOK' <=> LongTypes' /\ FileTypes' /\ WorkTypes' /\ CallTypes' /\ PastTypes'
  BY
     DEF MemoryTypeOK, LongTypes, FileTypes, WorkTypes, CallTypes, PastTypes, Memories, Works,
         Hooks

-----------------------------------------------------------------------------
(* Lists.                                                                  *)

(* What a list has: none, some, two lists one after the other, and one      *)
(* element more.                                                            *)
LEMMA NothingListed == ASSUME NEW S PROVE <<>> \in Seq(S) /\ Members(<<>>) = {} /\ Len(<<>>) = 0
  BY DEF Members

LEMMA Listed ==
  ASSUME NEW S, NEW seq \in Seq(S)
  PROVE  Members(seq) \subseteq S /\ Len(seq) \in Nat /\ (seq # <<>> => Len(seq) > 0)
  BY DEF Members

LEMMA ListedBoth ==
  ASSUME NEW S, NEW s \in Seq(S), NEW t \in Seq(S)
  PROVE  /\ s \o t \in Seq(S) /\ Len(s \o t) = Len(s) + Len(t)
         /\ Members(s \o t) = Members(s) \cup Members(t)
<1>1. /\ s \o t \in Seq(S) /\ Len(s \o t) = Len(s) + Len(t) /\ Len(s) \in Nat /\ Len(t) \in Nat
      /\ \A i \in 1..Len(s) : (s \o t)[i] = s[i]
      /\ \A i \in 1..Len(t) : (s \o t)[Len(s) + i] = t[i]
  OBVIOUS
<1>2. Members(s) \subseteq Members(s \o t)
  BY <1>1 DEF Members
<1>3. ASSUME NEW i \in 1..Len(t) PROVE t[i] \in Members(s \o t)
  <2>1. Len(s) + i \in 1..Len(s \o t) /\ (s \o t)[Len(s) + i] = t[i]
    BY <1>1
  <2> QED
    BY <2>1 DEF Members
<1>4. ASSUME NEW i \in 1..Len(s \o t) PROVE (s \o t)[i] \in Members(s) \cup Members(t)
  <2>1. CASE i <= Len(s)
    BY <1>1, <2>1 DEF Members
  <2>2. CASE i > Len(s)
    <3>1. i - Len(s) \in 1..Len(t) /\ i = Len(s) + (i - Len(s))
      BY <1>1, <2>2
    <3>2. (s \o t)[i] = t[i - Len(s)]
      BY <1>1, <3>1
    <3> QED
      BY <3>1, <3>2 DEF Members
  <2> QED
    BY <1>1, <2>1, <2>2
<1> QED
  BY <1>1, <1>2, <1>3, <1>4 DEF Members

LEMMA ListedOne ==
  ASSUME NEW S, NEW s \in Seq(S), NEW e \in S
  PROVE  /\ Append(s, e) \in Seq(S) /\ Members(Append(s, e)) = Members(s) \cup {e}
         /\ Len(Append(s, e)) = Len(s) + 1
<1>1. /\ Append(s, e) \in Seq(S) /\ Len(Append(s, e)) = Len(s) + 1 /\ Len(s) \in Nat
      /\ \A i \in 1..Len(s) : Append(s, e)[i] = s[i]
      /\ Append(s, e)[Len(s) + 1] = e
  OBVIOUS
<1>2. e \in Members(Append(s, e)) /\ Members(s) \subseteq Members(Append(s, e))
  BY <1>1 DEF Members
<1>3. ASSUME NEW i \in 1..(Len(s) + 1) PROVE Append(s, e)[i] \in Members(s) \cup {e}
  BY <1>1 DEF Members
<1> QED
  BY <1>1, <1>2, <1>3 DEF Members

(* A list that is trimmed is still one of the same elements; if it lost any   *)
(* it is full.                                                              *)
LEMMA ListTrimmed ==
  ASSUME NEW S, NEW s \in Seq(S), NEW limit \in Nat
  PROVE  /\ LastOf(s, limit) \in Seq(S) /\ Members(LastOf(s, limit)) \subseteq Members(s)
         /\ LastOf(s, limit) = s \/ Len(LastOf(s, limit)) = limit
         /\ Len(LastOf(s, limit)) <= limit
         /\ Len(s) <= limit => LastOf(s, limit) = s
<1>1. CASE Len(s) <= limit
  BY <1>1 DEF LastOf
<1>2. CASE ~ (Len(s) <= limit)
  <2> DEFINE first == Len(s) - limit + 1
  <2>1. Len(s) \in Nat /\ first \in 1..Len(s) + 1 /\ Len(s) \in first - 1 .. Len(s)
    BY <1>2
  <2>2. /\ SubSeq(s, first, Len(s)) \in Seq(S)
        /\ Len(SubSeq(s, first, Len(s))) = Len(s) - first + 1
        /\ \A i \in 1 .. Len(s) - first + 1 : SubSeq(s, first, Len(s))[i] = s[first + i - 1]
    BY <2>1, SubSeqProperties
  <2>3. LastOf(s, limit) = SubSeq(s, first, Len(s)) /\ Len(LastOf(s, limit)) = limit
    BY <1>2, <2>1, <2>2 DEF LastOf
  <2>4. ASSUME NEW i \in 1..limit PROVE LastOf(s, limit)[i] \in Members(s)
    <3>1. first + i - 1 \in 1..Len(s) /\ i \in 1 .. Len(s) - first + 1
      BY <2>1
    <3>2. LastOf(s, limit)[i] = s[first + i - 1]
      BY <2>2, <2>3, <3>1
    <3> QED
      BY <3>1, <3>2 DEF Members
  <2>5. Members(LastOf(s, limit)) \subseteq Members(s)
    BY <2>3, <2>4 DEF Members
  <2> QED
    BY <1>2, <2>2, <2>3, <2>5
<1> QED
  BY <1>1, <1>2

-----------------------------------------------------------------------------
(* The long-term file.                                                     *)

(* A finite set with one element more, or one less.                         *)
LEMMA OneMore ==
  ASSUME NEW S, NEW x, IsFiniteSet(S)
  PROVE  /\ IsFiniteSet(S \cup {x}) /\ Cardinality(S) \in Nat /\ Cardinality(S \cup {x}) \in Nat
         /\ Cardinality(S \cup {x}) <= Cardinality(S) + 1
<1>1. IsFiniteSet(S \cup {x}) /\ Cardinality(S) \in Nat
  BY FS_AddElement, FS_CardinalityType
<1>2. Cardinality(S \cup {x}) = Cardinality(S) \/ Cardinality(S \cup {x}) = Cardinality(S) + 1
  BY FS_AddElement
<1> QED
  BY <1>1, <1>2

LEMMA OneLess ==
  ASSUME NEW S, NEW x \in S, IsFiniteSet(S)
  PROVE  /\ IsFiniteSet(S \ {x}) /\ Cardinality(S) \in Nat /\ Cardinality(S \ {x}) \in Nat
         /\ Cardinality(S \ {x}) = Cardinality(S) - 1
<1>1. IsFiniteSet(S \ {x}) /\ Cardinality(S) \in Nat
  BY FS_RemoveElement, FS_CardinalityType
<1>2. Cardinality(S \ {x}) \in Nat
  BY <1>1, FS_CardinalityType
<1> QED
  BY <1>1, <1>2, FS_RemoveElement

(* A younger record does not change that every part has an oldest one.       *)
LEMMA AddYoungest ==
  ASSUME LongTypes, AgesInv, NEW record \in Memories, record.at = updates + 1,
         NEW records \in SUBSET (longTerm \cup {record}), records # {}
  PROVE  Oldest(records) # {}
<1>1. updates \in Nat /\ \A m \in longTerm : m.at \in Nat /\ m.at <= updates
  BY DEF LongTypes, AgesInv, Memories
<1>2. CASE records \ {record} = {}
  <2>1. records = {record}
    BY <1>2
  <2>2. record.at <= record.at
    BY <1>1
  <2>3. record \in Oldest(records)
    BY <2>1, <2>2 DEF Oldest
  <2> QED
    BY <2>3
<1>3. CASE records \ {record} # {}
  <2>1. Oldest(records \ {record}) # {}
    BY <1>3 DEF AgesInv
  <2>2. PICK m \in records \ {record} : \A n \in records \ {record} : m.at <= n.at
    BY <2>1 DEF Oldest
  <2>3. m \in longTerm /\ m.at <= record.at
    BY <1>1, <2>2
  <2>4. m \in Oldest(records)
    BY <2>2, <2>3 DEF Oldest
  <2> QED
    BY <2>4
<1> QED
  BY <1>2, <1>3

(* Trimming takes at least one record away where there is one too many.      *)
LEMMA ListIsTrimmed ==
  ASSUME LongTypes, KeysOnce, AgesInv, NEW record \in Memories, record.at = updates + 1
  PROVE  LET new == TrimLongTerm(longTerm \cup {record})
         IN new \subseteq longTerm \cup {record} /\ Cardinality(new) <= LongTermLimit
<1> DEFINE all == longTerm \cup {record}
           new == TrimLongTerm(all)
<1>1. LongTermLimit \in Nat
  BY MemoryAssumption DEF MemoryAssumption
<1>2. /\ IsFiniteSet(all) /\ Cardinality(all) <= Cardinality(longTerm) + 1
      /\ Cardinality(longTerm) \in Nat /\ Cardinality(all) \in Nat
  BY OneMore DEF AgesInv
<1>3. CASE Cardinality(all) <= LongTermLimit
  BY <1>3 DEF TrimLongTerm
<1>4. CASE ~ (Cardinality(all) <= LongTermLimit)
  <2>1. new = all \ Oldest(all)
    BY <1>4 DEF TrimLongTerm, Oldest
  <2>2. PICK m \in all : m \in Oldest(all)
    <3>1. Oldest(all) # {}
      BY AddYoungest
    <3> QED
      BY <3>1 DEF Oldest
  <2>3. IsFiniteSet(all \ {m}) /\ Cardinality(all \ {m}) = Cardinality(all) - 1
    BY <1>2, <2>2, OneLess
  <2>4. new \subseteq all \ {m}
    BY <2>1, <2>2
  <2>5. Cardinality(new) <= Cardinality(all \ {m}) /\ Cardinality(new) \in Nat
    BY <2>3, <2>4, FS_Subset, FS_CardinalityType
  <2>6. Cardinality(longTerm) <= LongTermLimit
    BY DEF KeysOnce
  <2>7. Cardinality(new) <= LongTermLimit
    BY <1>1, <1>2, <2>3, <2>5, <2>6
  <2> QED
    BY <2>4, <2>7
<1> QED
  BY <1>3, <1>4

(* What an update of the long-term file has to leave.                       *)
LEMMA LongKept ==
  ASSUME LongTypes, KeysOnce, AgesInv, NEW record \in Memories, record.at = updates + 1,
         updates' = updates + 1, longTerm' \subseteq longTerm \cup {record},
         Cardinality(longTerm') <= LongTermLimit,
         \A m \in longTerm' \cap longTerm : record \in longTerm' /\ m.content = record.content =>
           m.cut \/ record.cut \/ m = record
  PROVE  LongTypes' /\ KeysOnce' /\ AgesInv'
<1>1. LongTypes'
  BY DEF LongTypes
<1>2. KeysOnce'
  BY DEF KeysOnce
<1>3. IsFiniteSet(longTerm')
  BY FS_AddElement, FS_Subset DEF AgesInv
<1>4. \A m \in longTerm' : m.at <= updates'
  BY DEF AgesInv, LongTypes, Memories
<1>5. \A records \in SUBSET longTerm' : records # {} => Oldest(records) # {}
  BY AddYoungest
<1> QED
  BY <1>1, <1>2, <1>3, <1>4, <1>5 DEF AgesInv

(* Every step on the long-term file keeps its types, its keys and its       *)
(* ages.                                                                    *)
LEMMA LongStep ==
  ASSUME LongTypes, KeysOnce, AgesInv, LongTermNext
  PROVE  LongTypes' /\ KeysOnce' /\ AgesInv'
<1>0. updates \in Nat /\ LongTermLimit \in Nat
  BY MemoryAssumption DEF MemoryAssumption, LongTypes
<1>1. ASSUME NEW content \in Contents, Remember(content)
      PROVE  LongTypes' /\ KeysOnce' /\ AgesInv'
  <2> DEFINE record == [content |-> content, cut |-> content \in LongContents, at |-> updates + 1]
             same == SameKey(content)
  <2>1. record \in Memories /\ record.at = updates + 1 /\ record.content = content
    BY <1>0 DEF Memories
  <2>2. updates' = updates + 1
    BY <1>1 DEF Remember
  <2>3. CASE same # {}
    <3>1. longTerm' = (longTerm \ same) \cup {record}
      BY <1>1, <2>3 DEF Remember
    <3>2. PICK m \in longTerm : m \in same
      BY <2>3 DEF SameKey
    <3>3. /\ IsFiniteSet(longTerm \ {m}) /\ Cardinality(longTerm) \in Nat
          /\ Cardinality(longTerm \ {m}) = Cardinality(longTerm) - 1
      BY <3>2, OneLess DEF AgesInv
    <3>4. longTerm \ same \subseteq longTerm \ {m}
      BY <3>2
    <3>5. /\ IsFiniteSet(longTerm \ same) /\ Cardinality(longTerm \ same) \in Nat
          /\ Cardinality(longTerm \ same) <= Cardinality(longTerm) - 1
      BY <3>3, <3>4, FS_Subset, FS_CardinalityType
    <3>6. /\ Cardinality((longTerm \ same) \cup {record}) <= Cardinality(longTerm \ same) + 1
          /\ Cardinality((longTerm \ same) \cup {record}) \in Nat
      BY <3>5, OneMore
    <3>7. Cardinality(longTerm') <= LongTermLimit
      BY <1>0, <3>1, <3>3, <3>5, <3>6 DEF KeysOnce
    <3>8. \A n \in longTerm' \cap longTerm : n.content = record.content => n.cut \/ n = record
      BY <2>1, <3>1 DEF SameKey
    <3> QED
      BY <2>1, <2>2, <3>1, <3>7, <3>8, LongKept
  <2>4. CASE same = {}
    <3>1. longTerm' = TrimLongTerm(longTerm \cup {record})
      BY <1>1, <2>4 DEF Remember
    <3>2. longTerm' \subseteq longTerm \cup {record} /\ Cardinality(longTerm') <= LongTermLimit
      BY <2>1, <3>1, ListIsTrimmed
    <3>3. \A n \in longTerm' \cap longTerm : n.content = record.content => n.cut
      BY <2>1, <2>4 DEF SameKey
    <3> QED
      BY <2>1, <2>2, <3>2, <3>3, LongKept
  <2> QED
    BY <2>3, <2>4
<1>2. ASSUME NEW record \in longTerm, Forget(record)
      PROVE  LongTypes' /\ KeysOnce' /\ AgesInv'
  <2>1. updates' = updates + 1 /\ longTerm' = longTerm \ {record}
    BY <1>2 DEF Forget
  <2>2. LongTypes'
    BY <2>1 DEF LongTypes
  <2>3. /\ IsFiniteSet(longTerm') /\ Cardinality(longTerm) \in Nat
        /\ Cardinality(longTerm') = Cardinality(longTerm) - 1
    BY <2>1, OneLess DEF AgesInv
  <2>4. KeysOnce'
    BY <1>0, <2>1, <2>3 DEF KeysOnce
  <2>5. \A m \in longTerm' : m.at <= updates'
    BY <1>0, <2>1 DEF AgesInv, LongTypes, Memories
  <2>6. AgesInv'
    BY <2>1, <2>3, <2>5 DEF AgesInv
  <2> QED
    BY <2>2, <2>4, <2>6
<1> QED
  BY <1>1, <1>2 DEF LongTermNext

-----------------------------------------------------------------------------
(* The files of the session.                                               *)

FilesInv ==
  /\ FileTypes /\ WorkTypes /\ CallTypes /\ PastTypes
  /\ CallsInv /\ WorkInv /\ RefsResolve /\ ToolMemoryVisible /\ ResetForgets

(* The parts of a run and of a call, and what a step may change in one.     *)
LEMMA WorkParts ==
  ASSUME WorkTypes, NEW r \in Runs
  PROVE  /\ work[r].state \in {"new", "running", "kept", "over"} /\ work[r].pending \in Seq(Calls)
         /\ work[r].recall \subseteq Runs /\ work[r].recalls \in {"not", "asked", "done"}
  BY DEF WorkTypes, Works

LEMMA CallParts ==
  ASSUME CallTypes, NEW c \in Calls
  PROVE  /\ call[c].state \in {"none", "captured", "read", "over", "lost"}
         /\ call[c].by \in Runs \cup {"none"} /\ call[c].base \in Seq(Calls)
  BY DEF CallTypes, Hooks

LEMMA WorkChanges ==
  ASSUME NEW w \in Works
  PROVE  /\ \A s \in {"new", "running", "kept", "over"} : [w EXCEPT !.state = s] \in Works
         /\ \A s \in {"not", "asked", "done"} : [w EXCEPT !.recalls = s] \in Works
         /\ \A h \in SUBSET Runs : [w EXCEPT !.recalls = "done", !.recall = h] \in Works
         /\ \A p \in Seq(Calls) : [w EXCEPT !.pending = p] \in Works
         /\ \A p \in Seq(Calls) : [w EXCEPT !.state = "over", !.pending = p] \in Works
<1>1. \A s \in {"new", "running", "kept", "over"} : [w EXCEPT !.state = s] \in Works
  BY DEF Works
<1>2. \A s \in {"not", "asked", "done"} : [w EXCEPT !.recalls = s] \in Works
  BY DEF Works
<1>3. \A h \in SUBSET Runs : [w EXCEPT !.recalls = "done", !.recall = h] \in Works
  BY DEF Works
<1>4. \A p \in Seq(Calls) : [w EXCEPT !.pending = p] \in Works
  BY DEF Works
<1>5. \A p \in Seq(Calls) : [w EXCEPT !.state = "over", !.pending = p] \in Works
  BY DEF Works
<1> QED
  BY <1>1, <1>2, <1>3, <1>4, <1>5

LEMMA HookChanges ==
  ASSUME NEW h \in Hooks
  PROVE  /\ [h EXCEPT !.state = "lost"] \in Hooks
         /\ [h EXCEPT !.state = "over", !.base = <<>>] \in Hooks
         /\ \A r \in Runs, s \in {"captured", "over"} : [h EXCEPT !.state = s, !.by = r] \in Hooks
         /\ \A b \in Seq(Calls) : [h EXCEPT !.state = "read", !.base = b] \in Hooks
<1>1. [h EXCEPT !.state = "lost"] \in Hooks
  BY DEF Hooks
<1>2. [h EXCEPT !.state = "over", !.base = <<>>] \in Hooks
  BY NothingListed DEF Hooks
<1>3. \A r \in Runs, s \in {"captured", "over"} : [h EXCEPT !.state = s, !.by = r] \in Hooks
  BY DEF Hooks
<1>4. \A b \in Seq(Calls) : [h EXCEPT !.state = "read", !.base = b] \in Hooks
  BY DEF Hooks
<1> QED
  BY <1>1, <1>2, <1>3, <1>4

(* The parts of the invariant of the files; it holds at first.              *)
LEMMA FilesParts ==
  ASSUME FilesInv
  PROVE  /\ FileTypes /\ WorkTypes /\ CallTypes /\ PastTypes
         /\ CallsInv /\ WorkInv /\ RefsResolve /\ ToolMemoryVisible /\ ResetForgets
         /\ work \in [Runs -> Works] /\ call \in [Calls -> Hooks]
  BY DEF FilesInv, WorkTypes, CallTypes

(* A hook that holds a result is one of a run.                              *)
LEMMA HookOwned ==
  ASSUME FilesInv, NEW c \in Calls, call[c].state # "none"
  PROVE  call[c].by \in Runs
  BY FilesParts, CallParts DEF CallsInv

LEMMA FilesFirst == MemoryInit => FilesInv
<1> SUFFICES ASSUME MemoryInit PROVE FilesInv
  OBVIOUS
<1>1. FileTypes /\ PastTypes
  BY NothingListed DEF MemoryInit, FileTypes, PastTypes
<1>2. WorkTypes
  BY NothingListed DEF MemoryInit, WorkTypes, Works, NewWork
<1>3. CallTypes
  BY NothingListed DEF MemoryInit, CallTypes, Hooks, NewCall
<1>4. \A r \in Runs : work[r].state = "new" /\ work[r].pending = <<>> /\ work[r].recall = {}
  BY DEF MemoryInit, NewWork
<1>5. \A c \in Calls : call[c].state = "none" /\ call[c].by = "none"
  BY DEF MemoryInit, NewCall
<1>6. CallsInv
  BY <1>5 DEF CallsInv, MemoryInit
<1>7. WorkInv
  BY <1>4, <1>5, MemoryAssumption DEF WorkInv, MemoryInit, MemoryAssumption
<1>8. RefsResolve /\ ToolMemoryVisible /\ ResetForgets
  BY <1>4, NothingListed DEF RefsResolve, ToolMemoryVisible, ResetForgets, MemoryInit
<1> QED
  BY <1>1, <1>2, <1>3, <1>6, <1>7, <1>8 DEF FilesInv

(* A run that begins, and what a run recalls.                               *)
LEMMA BeginStep ==
  ASSUME FilesInv, NEW r \in Runs, BeginWork(r)
  PROVE  FilesInv'
<1>1. /\ UNCHANGED <<shortTurns, toolRecords, artifacts, call, forgotten, memoryFaults, memoryCrashes>>
      /\ work[r].state = "new"
      /\ work' = [work EXCEPT ![r].state = "running"]
  BY DEF BeginWork, fileVars
<1>2. /\ work'[r].state = "running" /\ work'[r].pending = work[r].pending
      /\ work'[r].recall = work[r].recall
      /\ \A q \in Runs \ {r} : work'[q] = work[q]
  BY <1>1, FilesParts DEF Works
<1>3. WorkTypes'
  <2>1. [work[r] EXCEPT !.state = "running"] \in Works
    BY FilesParts, WorkChanges
  <2> QED
    BY <1>1, <2>1, FilesParts DEF WorkTypes
<1>4. FileTypes' /\ CallTypes' /\ PastTypes'
  BY <1>1 DEF FilesInv, FileTypes, CallTypes, PastTypes
<1>5. \A c \in Calls : call[c].by # r
  BY <1>1 DEF FilesInv, WorkInv
<1>6. CallsInv'
  BY <1>1, <1>2, <1>5 DEF FilesInv, CallsInv
<1>7. WorkInv'
  <2>1. r \notin forgotten
    BY <1>1, FilesParts DEF WorkInv
  <2>2. \A c \in artifacts : c \in Calls
    BY FilesParts DEF FileTypes
  <2>3. WorkInv
    BY FilesParts
  <2>4. work[r].pending = <<>> /\ Members(<<>>) = {}
    BY <1>1, <2>3, NothingListed DEF WorkInv
  <2> QED
    BY <1>1, <1>2, <1>5, <2>1, <2>2, <2>3, <2>4 DEF WorkInv
<1>8. RefsResolve' /\ ToolMemoryVisible' /\ ResetForgets'
  BY <1>1, <1>2 DEF FilesInv, RefsResolve, ToolMemoryVisible, ResetForgets
<1> QED
  BY <1>3, <1>4, <1>6, <1>7, <1>8 DEF FilesInv

(* What can be recalled is of no run that was forgotten.                     *)
LEMMA RecallableKept ==
  ASSUME FilesInv
  PROVE  Recallable \subseteq Runs \ forgotten
<1>1. RecallLimit \in Nat
  BY MemoryAssumption DEF MemoryAssumption
<1>2. /\ Members(LastOf(shortTurns, RecallLimit)) \subseteq Members(shortTurns)
      /\ Members(shortTurns) \subseteq Runs
  BY <1>1, ListTrimmed, Listed DEF FilesInv, FileTypes
<1>3. Members(shortTurns) \cap forgotten = {}
  BY DEF FilesInv, ResetForgets
<1>4. ASSUME NEW c \in Members(toolRecords) PROVE call[c].by \in Runs \ forgotten
  <2>1. c \in Calls /\ c \in artifacts
    BY Listed DEF FilesInv, FileTypes, RefsResolve
  <2>2. call[c].by # "none"
    BY <2>1 DEF FilesInv, CallsInv
  <2> QED
    BY <1>4, <2>1, <2>2, CallParts DEF FilesInv, ResetForgets
<1> QED
  BY <1>2, <1>3, <1>4 DEF Recallable

(* A run asks for memories and is given them.                               *)
LEMMA RecallStep ==
  ASSUME FilesInv, NEW r \in Runs, AskForMemories(r) \/ RecallMemories(r)
  PROVE  FilesInv'
<1>1. /\ UNCHANGED <<shortTurns, toolRecords, artifacts, call, forgotten, memoryCrashes>>
      /\ work[r].state = "running"
  BY DEF AskForMemories, RecallMemories, fileVars
<1>2. memoryFaults' \in Nat
  BY DEF AskForMemories, RecallMemories, FileWorks, FileFails, FilesInv, PastTypes
<1>3. /\ work' \in [Runs -> Works]
      /\ work'[r].state = "running" /\ work'[r].pending = work[r].pending
      /\ work'[r].recall \subseteq work[r].recall \cup (Runs \ forgotten)
      /\ \A q \in Runs \ {r} : work'[q] = work[q]
  <2>1. CASE AskForMemories(r)
    <3>1. CASE work' = work
      BY <1>1, <3>1, FilesParts DEF Works
    <3>2. CASE work' = [work EXCEPT ![r].recalls = "asked"]
      <4>1. [work[r] EXCEPT !.recalls = "asked"] \in Works
        BY FilesParts, WorkChanges
      <4> QED
        BY <1>1, <3>2, <4>1, FilesParts DEF Works
    <3> QED
      BY <2>1, <3>1, <3>2 DEF AskForMemories
  <2>2. CASE RecallMemories(r)
    <3>1. CASE work' = [work EXCEPT ![r].recalls = "not"]
      <4>1. [work[r] EXCEPT !.recalls = "not"] \in Works
        BY FilesParts, WorkChanges
      <4> QED
        BY <1>1, <3>1, <4>1, FilesParts DEF Works
    <3>2. ASSUME NEW chosen \in SUBSET Recallable,
                 work' = [work EXCEPT ![r].recalls = "done", ![r].recall = chosen]
          PROVE  <1>3!:
      <4>1. chosen \subseteq Runs \ forgotten
        BY RecallableKept
      <4>2. [work[r] EXCEPT !.recalls = "done", !.recall = chosen] \in Works
        BY <4>1, FilesParts, WorkChanges
      <4>3. work' = [work EXCEPT ![r] = [work[r] EXCEPT !.recalls = "done", !.recall = chosen]]
        BY <3>2, FilesParts DEF Works
      <4> QED
        BY <1>1, <4>1, <4>2, <4>3, FilesParts DEF Works
    <3> QED
      BY <2>2, <3>1, <3>2 DEF RecallMemories
  <2> QED
    BY <2>1, <2>2
<1>4. FileTypes' /\ WorkTypes' /\ CallTypes' /\ PastTypes'
  BY <1>1, <1>2, <1>3 DEF FilesInv, FileTypes, WorkTypes, CallTypes, PastTypes
<1>5. CallsInv'
  BY <1>1, <1>3, FilesParts, HookOwned DEF CallsInv
<1>6. WorkInv'
  BY <1>1, <1>3, FilesParts DEF WorkInv
<1>7. RefsResolve' /\ ToolMemoryVisible'
  BY <1>1, <1>3 DEF FilesInv, RefsResolve, ToolMemoryVisible
<1>8. ResetForgets'
  BY <1>1, <1>3 DEF FilesInv, ResetForgets
<1> QED
  BY <1>4, <1>5, <1>6, <1>7, <1>8 DEF FilesInv

(* The hooks that record the results of tools.                              *)
LEMMA CaptureStep ==
  ASSUME FilesInv, NEW r \in Runs, NEW c \in Calls, CaptureTool(r, c)
  PROVE  FilesInv'
<1>1. /\ UNCHANGED <<shortTurns, toolRecords, work, forgotten, memoryCrashes>>
      /\ work[r].state = "running" /\ call[c].state = "none"
  BY DEF CaptureTool
<1>2. PICK s \in {"captured", "over"} :
        /\ call' = [call EXCEPT ![c] = [call[c] EXCEPT !.state = s, !.by = r]]
        /\ artifacts' = IF s = "captured" THEN artifacts \cup {c} ELSE artifacts
        /\ memoryFaults' \in Nat
  <2>1. CASE /\ FileWorks /\ artifacts' = artifacts \cup {c}
             /\ call' = [call EXCEPT ![c].state = "captured", ![c].by = r]
    BY <2>1, FilesParts DEF FileWorks, Hooks, PastTypes
  <2>2. CASE /\ FileFails /\ UNCHANGED artifacts
             /\ call' = [call EXCEPT ![c].state = "over", ![c].by = r]
    <3>1. memoryFaults' \in Nat
      BY <2>2, FilesParts DEF FileFails, PastTypes
    <3>2. call' = [call EXCEPT ![c] = [call[c] EXCEPT !.state = "over", !.by = r]]
      BY <2>2, FilesParts DEF Hooks
    <3> QED
      BY <2>2, <3>1, <3>2
  <2> QED
    BY <2>1, <2>2 DEF CaptureTool
<1>3. /\ call'[c].state = s /\ call'[c].by = r
      /\ \A d \in Calls \ {c} : call'[d] = call[d]
  BY <1>2, FilesParts DEF Hooks
<1>4. call' \in [Calls -> Hooks]
  <2>1. [call[c] EXCEPT !.state = s, !.by = r] \in Hooks
    BY FilesParts, HookChanges
  <2> QED
    BY <1>2, <2>1, FilesParts
<1>5. FileTypes' /\ WorkTypes' /\ CallTypes' /\ PastTypes'
  BY <1>1, <1>2, <1>4, FilesParts DEF FileTypes, WorkTypes, CallTypes, PastTypes
<1>6. call[c].by = "none" /\ c \notin artifacts /\ r # "none"
  BY <1>1, FilesParts, MemoryAssumption DEF CallsInv, MemoryAssumption
<1>7. \A d \in artifacts : d \in Calls \ {c} /\ call'[d] = call[d]
  BY <1>3, <1>6, FilesParts DEF FileTypes
<1>8. CallsInv'
  <2>1. CallsInv
    BY FilesParts
  <2>2. ASSUME NEW d \in Calls \ {c}
        PROVE  /\ call'[d].state = "none" <=> call'[d].by = "none"
               /\ d \in artifacts' => call'[d].state # "none"
               /\ call'[d].state \in {"captured", "read"} =>
                    d \in artifacts' /\ work'[call'[d].by].state = "running"
               /\ call'[d].state = "read" =>
                    \A e \in Members(call'[d].base) : e \in artifacts' /\ call'[e].by = call'[d].by
    BY <1>1, <1>2, <1>3, <1>7, <2>1 DEF CallsInv
  <2> QED
    BY <1>1, <1>2, <1>3, <1>6, <2>2 DEF CallsInv
<1>9. WorkInv'
  <2>1. WorkInv
    BY FilesParts
  <2>2. ASSUME NEW q \in Runs, work[q].state = "new", NEW d \in Calls PROVE call'[d].by # q
    BY <1>1, <1>3, <2>1, <2>2 DEF WorkInv
  <2>3. ASSUME NEW q \in Runs, work[q].state \in {"running", "kept"}
        PROVE  /\ \A d \in Members(work[q].pending) : d \in artifacts' /\ call'[d].by = q
               /\ \A d \in artifacts' : call'[d].by = q /\ call'[d].state = "over" =>
                    d \in Members(work[q].pending)
    BY <1>2, <1>3, <1>7, <2>1, <2>3 DEF WorkInv
  <2> QED
    BY <1>1, <2>1, <2>2, <2>3 DEF WorkInv
<1>10. RefsResolve'
  BY <1>1, <1>2, FilesParts DEF RefsResolve
<1>11. ToolMemoryVisible'
  <2>1. ASSUME NEW q \in Runs, work[q].state = "over", NEW d \in Calls, call'[d].by = q, d \in artifacts'
        PROVE  d \in artifacts /\ call'[d] = call[d]
    BY <1>1, <1>2, <1>3, <2>1
  <2> QED
    BY <1>1, <2>1, FilesParts DEF ToolMemoryVisible
<1>12. ResetForgets'
  BY <1>1, <1>7, FilesParts DEF ResetForgets, RefsResolve
<1> QED
  BY <1>5, <1>8, <1>9, <1>10, <1>11, <1>12 DEF FilesInv

(* A hook reads the pending records of its run.                             *)
LEMMA ReadStep ==
  ASSUME FilesInv, NEW c \in Calls, ReadPending(c)
  PROVE  FilesInv'
<1> DEFINE r == call[c].by
<1>1. /\ UNCHANGED <<shortTurns, toolRecords, artifacts, work, forgotten, memoryFaults, memoryCrashes>>
      /\ call[c].state = "captured"
      /\ call' = [call EXCEPT ![c] = [call[c] EXCEPT !.state = "read", !.base = work[r].pending]]
  BY FilesParts DEF ReadPending, fileVars, Hooks
<1>2. r \in Runs /\ work[r].state = "running" /\ c \in artifacts
  BY <1>1, FilesParts, HookOwned DEF CallsInv
<1>3. /\ call'[c].state = "read" /\ call'[c].by = r /\ call'[c].base = work[r].pending
      /\ \A d \in Calls : call'[d].by = call[d].by
      /\ \A d \in Calls \ {c} : call'[d] = call[d]
  BY <1>1, FilesParts DEF Hooks
<1>4. call' \in [Calls -> Hooks]
  <2>1. [call[c] EXCEPT !.state = "read", !.base = work[r].pending] \in Hooks
    BY <1>2, FilesParts, WorkParts, HookChanges
  <2> QED
    BY <1>1, <2>1, FilesParts
<1>5. FileTypes' /\ WorkTypes' /\ CallTypes' /\ PastTypes'
  BY <1>1, <1>4, FilesParts DEF FileTypes, WorkTypes, CallTypes, PastTypes
<1>6. artifacts \subseteq Calls /\ Members(toolRecords) \subseteq Calls
  BY FilesParts DEF FileTypes, RefsResolve
<1>7. CallsInv'
  <2>1. CallsInv /\ WorkInv
    BY FilesParts
  <2>2. \A d \in Members(work[r].pending) : d \in artifacts /\ call[d].by = r
    BY <1>2, <2>1 DEF WorkInv
  <2>3. ASSUME NEW d \in Calls, call'[d].state = "read", NEW e \in Members(call'[d].base)
        PROVE  e \in artifacts' /\ call'[e].by = call'[d].by
    <3>1. e \in artifacts /\ call[e].by = call[d].by
      BY <1>3, <2>1, <2>2, <2>3 DEF CallsInv
    <3> QED
      BY <1>1, <1>3, <1>6, <3>1
  <2>4. ASSUME NEW d \in Calls
        PROVE  /\ call'[d].state = "none" <=> call'[d].by = "none"
               /\ d \in artifacts' => call'[d].state # "none"
               /\ call'[d].state \in {"captured", "read"} =>
                    d \in artifacts' /\ work'[call'[d].by].state = "running"
    BY <1>1, <1>2, <1>3, <2>1 DEF CallsInv
  <2> QED
    BY <2>3, <2>4 DEF CallsInv
<1>8. WorkInv'
  <2>1. WorkInv
    BY FilesParts
  <2>2. \A d \in Calls : call'[d].state = "over" => call[d].state = "over"
    BY <1>3
  <2> QED
    BY <1>1, <1>3, <1>6, <2>1, <2>2 DEF WorkInv
<1>9. RefsResolve'
  BY <1>1, FilesParts DEF RefsResolve
<1>10. ToolMemoryVisible'
  <2>1. \A d \in Calls : call'[d].state # "lost" => call[d].state # "lost"
    BY <1>1, <1>3
  <2> QED
    BY <1>1, <1>3, <2>1, FilesParts DEF ToolMemoryVisible
<1>11. ResetForgets'
  BY <1>1, <1>3, <1>6, FilesParts DEF ResetForgets
<1> QED
  BY <1>5, <1>7, <1>8, <1>9, <1>10, <1>11 DEF FilesInv

(* A hook writes them back with its own.                                    *)
LEMMA WriteStep ==
  ASSUME FilesInv, NEW c \in Calls, WritePending(c)
  PROVE  FilesInv'
<1> DEFINE r == call[c].by
           gone == Members(work[r].pending) \ Members(call[c].base)
           kept == Append(call[c].base, c)
<1>1. /\ UNCHANGED <<shortTurns, toolRecords, artifacts, forgotten, memoryFaults, memoryCrashes>>
      /\ call[c].state = "read"
      /\ work' = [work EXCEPT ![r].pending = kept]
      /\ call' = [Lose(gone) EXCEPT ![c].state = "over", ![c].base = <<>>]
  BY DEF WritePending, fileVars
<1>0. UNCHANGED <<shortTurns, toolRecords, artifacts, forgotten>>
  BY <1>1
<1>2. r \in Runs /\ work[r].state = "running" /\ c \in artifacts
  BY <1>1, FilesParts, HookOwned DEF CallsInv
<1>3. kept \in Seq(Calls) /\ Members(kept) = Members(call[c].base) \cup {c}
  BY FilesParts, CallParts, ListedOne
<1>4. /\ work' \in [Runs -> Works]
      /\ work'[r].state = "running" /\ work'[r].pending = kept /\ work'[r].recall = work[r].recall
      /\ \A q \in Runs \ {r} : work'[q] = work[q]
  <2>1. [work[r] EXCEPT !.pending = kept] \in Works
    BY <1>2, <1>3, FilesParts, WorkChanges
  <2>2. work' = [work EXCEPT ![r] = [work[r] EXCEPT !.pending = kept]]
    BY <1>1, <1>2, FilesParts DEF Works
  <2>3. work' \in [Runs -> Works] /\ \A q \in Runs \ {r} : work'[q] = work[q]
    BY <1>2, <2>1, <2>2, FilesParts
  <2>4. work'[r].state = "running" /\ work'[r].pending = kept /\ work'[r].recall = work[r].recall
    BY <1>2, <2>2, FilesParts DEF Works
  <2> QED
    BY <2>3, <2>4
<1>5. Lose(gone) \in [Calls -> Hooks]
  <2>1. \A d \in Calls : [call[d] EXCEPT !.state = "lost"] \in Hooks
    BY FilesParts, HookChanges
  <2> QED
    BY <2>1, FilesParts DEF Lose
<1>6. \A d \in Calls : Lose(gone)[d].by = call[d].by /\ Lose(gone)[d].base = call[d].base
  BY FilesParts DEF Lose, Hooks
<1>7. /\ call' \in [Calls -> Hooks]
      /\ call'[c].state = "over" /\ call'[c].by = r
      /\ \A d \in Calls \ {c} : call'[d] = Lose(gone)[d]
  <2>1. [Lose(gone)[c] EXCEPT !.state = "over", !.base = <<>>] \in Hooks
    BY <1>5, HookChanges
  <2>2. call' = [Lose(gone) EXCEPT ![c] = [Lose(gone)[c] EXCEPT !.state = "over", !.base = <<>>]]
    BY <1>1, <1>5 DEF Hooks
  <2>3. call' \in [Calls -> Hooks] /\ \A d \in Calls \ {c} : call'[d] = Lose(gone)[d]
    BY <1>5, <2>1, <2>2
  <2>4. call'[c].state = "over" /\ call'[c].by = r
    BY <1>5, <1>6, <2>2 DEF Hooks
  <2> QED
    BY <2>3, <2>4
<1>8. ASSUME NEW d \in Calls \ {c}
      PROVE  /\ call'[d].by = call[d].by /\ call'[d].base = call[d].base
             /\ d \in gone => call'[d].state = "lost"
             /\ d \notin gone => call'[d].state = call[d].state
  <2>1. d \in gone => Lose(gone)[d].state = "lost"
    BY FilesParts DEF Lose, Hooks
  <2>2. d \notin gone => Lose(gone)[d].state = call[d].state
    BY FilesParts DEF Lose
  <2> QED
    BY <1>6, <1>7, <2>1, <2>2
<1>9. FileTypes' /\ WorkTypes' /\ CallTypes' /\ PastTypes'
  BY <1>1, <1>4, <1>7, FilesParts DEF FileTypes, WorkTypes, CallTypes, PastTypes
<1>10. /\ artifacts \subseteq Calls /\ Members(toolRecords) \subseteq Calls
       /\ \A d \in Calls : call'[d].by = call[d].by
  BY <1>7, <1>8, FilesParts DEF FileTypes, RefsResolve
<1>11. \A d \in gone : d \in artifacts /\ call[d].state # "none"
  BY <1>2, <1>10, FilesParts DEF WorkInv, CallsInv
<1>12. \A d \in Members(kept) : d \in artifacts /\ call[d].by = r
  BY <1>1, <1>2, <1>3, FilesParts DEF CallsInv
<1>13. CallsInv'
  <2>1. CallsInv
    BY FilesParts
  <2>2. ASSUME NEW d \in Calls
        PROVE  /\ call'[d].state = "none" <=> call'[d].by = "none"
               /\ d \in artifacts' => call'[d].state # "none"
    <3>1. r # "none"
      BY <1>2, MemoryAssumption DEF MemoryAssumption
    <3>2. CASE d = c
      BY <1>7, <3>1, <3>2
    <3>3. CASE d # c /\ d \in gone
      <4>1. call'[d].state = "lost" /\ call'[d].by = call[d].by /\ call[d].state # "none"
        BY <1>8, <1>11, <3>3
      <4> QED
        BY <2>1, <4>1 DEF CallsInv
    <3>4. CASE d # c /\ d \notin gone
      <4>1. call'[d].state = call[d].state /\ call'[d].by = call[d].by
        BY <1>8, <3>4
      <4> QED
        BY <1>0, <2>1, <4>1 DEF CallsInv
    <3> QED
      BY <3>2, <3>3, <3>4
  <2>3. ASSUME NEW d \in Calls, call'[d].state \in {"captured", "read"}
        PROVE  d \in artifacts' /\ work'[call'[d].by].state = "running"
    <3>1. d # c /\ d \notin gone /\ call'[d].state = call[d].state /\ call'[d].by = call[d].by
      BY <1>7, <1>8, <2>3
    <3>2. call[d].by \in Runs /\ d \in artifacts /\ work[call[d].by].state = "running"
      BY <2>1, <2>3, <3>1, HookOwned DEF CallsInv
    <3> QED
      BY <1>1, <1>4, <3>1, <3>2
  <2>4. ASSUME NEW d \in Calls, call'[d].state = "read", NEW e \in Members(call'[d].base)
        PROVE  e \in artifacts' /\ call'[e].by = call'[d].by
    <3>1. d # c /\ call[d].state = "read" /\ call'[d].base = call[d].base
      BY <1>7, <1>8, <2>4
    <3>2. e \in artifacts /\ call[e].by = call[d].by
      BY <2>1, <2>4, <3>1 DEF CallsInv
    <3> QED
      BY <1>1, <1>10, <3>2
  <2> QED
    BY <2>2, <2>3, <2>4 DEF CallsInv
<1>14. WorkInv'
  <2>1. WorkInv
    BY FilesParts
  <2>2. ASSUME NEW q \in Runs, work'[q].state = "new"
        PROVE  /\ work'[q].pending = <<>> /\ work'[q].recall = {}
               /\ \A d \in Calls : call'[d].by # q
    BY <1>4, <1>10, <2>1, <2>2 DEF WorkInv
  <2>3. ASSUME NEW q \in Runs, work'[q].state \in {"running", "kept"}, NEW d \in Members(work'[q].pending)
        PROVE  d \in artifacts' /\ call'[d].by = q
    <3>1. d \in artifacts /\ call[d].by = q
      <4>1. CASE q = r
        BY <1>4, <1>12, <2>3, <4>1
      <4>2. CASE q # r
        BY <1>4, <2>1, <2>3, <4>2 DEF WorkInv
      <4> QED
        BY <4>1, <4>2
    <3> QED
      BY <1>1, <1>10, <3>1
  <2>4. ASSUME NEW q \in Runs, work'[q].state \in {"running", "kept"},
               NEW d \in artifacts', call'[d].by = q, call'[d].state = "over"
        PROVE  d \in Members(work'[q].pending)
    <3>1. CASE d = c
      BY <1>3, <1>4, <1>7, <2>4, <3>1
    <3>2. CASE d # c
      <4>1. d \in Calls /\ d \notin gone /\ call[d].state = "over" /\ call[d].by = q
        BY <1>1, <1>8, <1>10, <2>4, <3>2
      <4>2. d \in artifacts /\ work[q].state \in {"running", "kept"}
        BY <1>1, <1>2, <1>4, <2>4
      <4>3. d \in Members(work[q].pending)
        BY <2>1, <4>1, <4>2 DEF WorkInv
      <4> QED
        BY <1>3, <1>4, <4>1, <4>3
    <3> QED
      BY <3>1, <3>2
  <2>5. \A q \in Runs : q \in forgotten' => work'[q].state = "over"
    BY <1>1, <1>2, <1>4, <2>1 DEF WorkInv
  <2> QED
    BY <2>2, <2>3, <2>4, <2>5 DEF WorkInv
<1>15. RefsResolve'
  BY <1>1, FilesParts DEF RefsResolve
<1>16. ToolMemoryVisible'
  <2>1. ToolMemoryVisible
    BY FilesParts
  <2>2. ASSUME NEW q \in Runs, work'[q].state = "over", NEW d \in Calls, call'[d].by = q,
               call'[d].state # "lost"
        PROVE  work'[q] = work[q] /\ call[d].by = q /\ call[d].state # "lost"
    BY <1>1, <1>4, <1>7, <1>8, <1>10, <2>2
  <2> QED
    BY <1>0, <2>1, <2>2 DEF ToolMemoryVisible
<1>17. ResetForgets'
  <2>1. ResetForgets
    BY FilesParts
  <2>2. \A q \in Runs : work'[q].recall = work[q].recall
    BY <1>4
  <2> QED
    BY <1>0, <1>10, <2>1, <2>2 DEF ResetForgets
<1> QED
  BY <1>9, <1>13, <1>14, <1>15, <1>16, <1>17 DEF FilesInv

(* The end of a run.                                                       *)
LEMMA KeepTurnStep ==
  ASSUME FilesInv, NEW r \in Runs, KeepTurn(r)
  PROVE  FilesInv'
<1>0. UNCHANGED <<toolRecords, artifacts, call, forgotten, memoryCrashes>>
  BY DEF KeepTurn
<1>1. work[r].state = "running" /\ ToolsFinished(r) /\ work' = [work EXCEPT ![r].state = "kept"]
  BY DEF KeepTurn
<1>2. /\ work' \in [Runs -> Works]
      /\ work'[r].state = "kept" /\ work'[r].pending = work[r].pending /\ work'[r].recall = work[r].recall
      /\ \A q \in Runs \ {r} : work'[q] = work[q]
  <2>1. [work[r] EXCEPT !.state = "kept"] \in Works
    BY FilesParts, WorkChanges
  <2> QED
    BY <1>1, <2>1, FilesParts DEF Works
<1>3. /\ shortTurns' \in Seq(Runs) /\ Members(shortTurns') \subseteq Members(shortTurns) \cup {r}
      /\ memoryFaults' \in Nat
  <2>1. TurnLimit \in Nat
    BY MemoryAssumption DEF MemoryAssumption
  <2>2. shortTurns \in Seq(Runs) /\ memoryFaults \in Nat
    BY FilesParts DEF FileTypes, PastTypes
  <2>3. /\ LastOf(Append(shortTurns, r), TurnLimit) \in Seq(Runs)
        /\ Members(LastOf(Append(shortTurns, r), TurnLimit)) \subseteq Members(shortTurns) \cup {r}
    <3>1. /\ Append(shortTurns, r) \in Seq(Runs)
          /\ Members(Append(shortTurns, r)) = Members(shortTurns) \cup {r}
      BY <2>2, ListedOne
    <3> QED
      BY <2>1, <3>1, ListTrimmed
  <2> QED
    BY <2>2, <2>3 DEF KeepTurn, FileWorks, FileFails
<1>4. FileTypes' /\ WorkTypes' /\ CallTypes' /\ PastTypes'
  BY <1>0, <1>2, <1>3, FilesParts DEF FileTypes, WorkTypes, CallTypes, PastTypes
<1>5. CallsInv'
  <2>1. CallsInv
    BY FilesParts
  <2>2. ASSUME NEW c \in Calls, call[c].state \in {"captured", "read"}
        PROVE  work'[call[c].by].state = "running"
    <3>1. call[c].by \in Runs /\ call[c].by # r /\ work[call[c].by].state = "running"
      BY <1>1, <2>1, <2>2, HookOwned DEF CallsInv, ToolsFinished
    <3> QED
      BY <1>2, <3>1
  <2> QED
    BY <1>0, <2>1, <2>2 DEF CallsInv
<1>6. WorkInv'
  <2>1. WorkInv
    BY FilesParts
  <2> QED
    BY <1>0, <1>1, <1>2, <2>1 DEF WorkInv
<1>7. RefsResolve' /\ ToolMemoryVisible'
  BY <1>0, <1>2, FilesParts DEF RefsResolve, ToolMemoryVisible
<1>8. ResetForgets'
  <2>1. r \notin forgotten
    BY <1>1, FilesParts DEF WorkInv
  <2>2. \A q \in Runs : work'[q].recall = work[q].recall
    BY <1>2
  <2> QED
    BY <1>0, <1>3, <2>1, <2>2, FilesParts DEF ResetForgets
<1> QED
  BY <1>4, <1>5, <1>6, <1>7, <1>8 DEF FilesInv

(* What is recorded of the results: all of them, or the latest.             *)
LEMMA RecordsKept ==
  ASSUME FilesInv, NEW r \in Runs
  PROVE  LET records == LastOf(toolRecords \o work[r].pending, ToolLimit)
         IN /\ records \in Seq(Calls)
            /\ Members(records) \subseteq Members(toolRecords) \cup Members(work[r].pending)
            /\ \/ Len(records) = ToolLimit
               \/ Members(records) = Members(toolRecords) \cup Members(work[r].pending)
            /\ Len(toolRecords) = ToolLimit => Len(records) = ToolLimit
<1> DEFINE both == toolRecords \o work[r].pending
<1>1. ToolLimit \in Nat /\ toolRecords \in Seq(Calls) /\ work[r].pending \in Seq(Calls)
  BY MemoryAssumption, FilesParts, WorkParts DEF MemoryAssumption, FileTypes
<1>2. /\ both \in Seq(Calls) /\ Len(both) = Len(toolRecords) + Len(work[r].pending)
      /\ Members(both) = Members(toolRecords) \cup Members(work[r].pending)
      /\ Len(toolRecords) \in Nat /\ Len(work[r].pending) \in Nat
  BY <1>1, ListedBoth, Listed
<1>3. /\ LastOf(both, ToolLimit) \in Seq(Calls)
      /\ Members(LastOf(both, ToolLimit)) \subseteq Members(both)
      /\ LastOf(both, ToolLimit) = both \/ Len(LastOf(both, ToolLimit)) = ToolLimit
      /\ Len(LastOf(both, ToolLimit)) <= ToolLimit
  BY <1>1, <1>2, ListTrimmed
<1>4. ASSUME Len(toolRecords) = ToolLimit PROVE Len(LastOf(both, ToolLimit)) = ToolLimit
  BY <1>1, <1>2, <1>3, <1>4
<1> QED
  BY <1>2, <1>3, <1>4

(* The records of a run that was kept go to the tool memory.                *)
LEMMA KeepToolsStep ==
  ASSUME FilesInv, NEW r \in Runs, KeepTools(r)
  PROVE  FilesInv'
<1>0. UNCHANGED <<shortTurns, artifacts, call, forgotten, memoryCrashes>>
  BY DEF KeepTools
<1>1. work[r].state = "kept"
  BY DEF KeepTools
<1>2. \/ /\ toolRecords' = LastOf(toolRecords \o work[r].pending, ToolLimit)
         /\ work' = [work EXCEPT ![r] = [work[r] EXCEPT !.state = "over"]]
      \/ /\ toolRecords' = toolRecords
         /\ work' = [work EXCEPT ![r] = [work[r] EXCEPT !.state = "over", !.pending = <<>>]]
  BY FilesParts DEF KeepTools, Works
<1>3. /\ work' \in [Runs -> Works]
      /\ work'[r].state = "over" /\ work'[r].recall = work[r].recall
      /\ work'[r].pending \in {<<>>, work[r].pending}
      /\ \A q \in Runs \ {r} : work'[q] = work[q]
  <2>1. /\ [work[r] EXCEPT !.state = "over"] \in Works
        /\ [work[r] EXCEPT !.state = "over", !.pending = <<>>] \in Works
    BY FilesParts, WorkChanges, NothingListed
  <2>2. /\ work' \in [Runs -> Works]
        /\ \A q \in Runs \ {r} : work'[q] = work[q]
        /\ \/ work'[r] = [work[r] EXCEPT !.state = "over"]
           \/ work'[r] = [work[r] EXCEPT !.state = "over", !.pending = <<>>]
    BY <1>2, <2>1, FilesParts
  <2>3. work[r] \in Works
    BY FilesParts
  <2> QED
    BY <2>2, <2>3 DEF Works
<1>4. /\ toolRecords' \in Seq(Calls)
      /\ Members(toolRecords') \subseteq Members(toolRecords) \cup Members(work[r].pending)
      /\ Len(toolRecords) = ToolLimit => Len(toolRecords') = ToolLimit
      /\ Len(toolRecords') = ToolLimit \/ Members(toolRecords) \subseteq Members(toolRecords')
      /\ \/ work'[r].pending = <<>> \/ Len(toolRecords') = ToolLimit
         \/ Members(work[r].pending) \subseteq Members(toolRecords')
  <2>1. CASE /\ toolRecords' = LastOf(toolRecords \o work[r].pending, ToolLimit)
             /\ work' = [work EXCEPT ![r] = [work[r] EXCEPT !.state = "over"]]
    BY <2>1, RecordsKept
  <2>2. CASE /\ toolRecords' = toolRecords
             /\ work' = [work EXCEPT ![r] = [work[r] EXCEPT !.state = "over", !.pending = <<>>]]
    BY <2>2, FilesParts DEF FileTypes, Works
  <2> QED
    BY <1>2, <2>1, <2>2
<1>5. memoryFaults' \in Nat
  BY FilesParts DEF KeepTools, FileWorks, FileFails, PastTypes
<1>6. FileTypes' /\ WorkTypes' /\ CallTypes' /\ PastTypes'
  BY <1>0, <1>3, <1>4, <1>5, FilesParts DEF FileTypes, WorkTypes, CallTypes, PastTypes
<1>7. \A c \in Members(work[r].pending) : c \in artifacts /\ call[c].by = r
  BY <1>1, FilesParts DEF WorkInv
<1>8. CallsInv'
  <2>1. CallsInv
    BY FilesParts
  <2>2. ASSUME NEW c \in Calls, call[c].state \in {"captured", "read"}
        PROVE  work'[call[c].by].state = "running"
    <3>1. call[c].by \in Runs /\ call[c].by # r /\ work[call[c].by].state = "running"
      BY <1>1, <2>1, <2>2, HookOwned DEF CallsInv
    <3> QED
      BY <1>3, <3>1
  <2> QED
    BY <1>0, <2>1, <2>2 DEF CallsInv
<1>9. WorkInv'
  <2>1. WorkInv
    BY FilesParts
  <2> QED
    BY <1>0, <1>1, <1>3, <2>1 DEF WorkInv
<1>10. RefsResolve'
  BY <1>0, <1>4, <1>7, FilesParts DEF RefsResolve
<1>11. ToolMemoryVisible'
  <2>1. ToolMemoryVisible /\ WorkInv /\ CallsInv
    BY FilesParts
  <2>2. SUFFICES ASSUME NEW q \in Runs \ forgotten, work'[q].state = "over", work'[q].pending # <<>>,
                        NEW c \in Calls, call[c].by = q, call[c].state # "lost", c \in artifacts,
                        Len(toolRecords') # ToolLimit
                 PROVE  c \in Members(toolRecords')
    BY <1>0 DEF ToolMemoryVisible
  <2>3. CASE q # r
    <3>1. c \in Members(toolRecords)
      BY <1>3, <1>4, <2>1, <2>2, <2>3 DEF ToolMemoryVisible
    <3> QED
      BY <1>4, <2>2, <3>1
  <2>4. CASE q = r
    <3>1. call[c].state \in {"over", "lost"}
      BY <1>1, <2>1, <2>2, <2>4, FilesParts, CallParts DEF CallsInv
    <3>2. c \in Members(work[r].pending)
      BY <1>1, <2>1, <2>2, <2>4, <3>1 DEF WorkInv
    <3> QED
      BY <1>4, <2>2, <2>4, <3>2
  <2> QED
    BY <2>3, <2>4
<1>12. ResetForgets'
  <2>1. r \notin forgotten
    BY <1>1, FilesParts DEF WorkInv
  <2>2. \A q \in Runs : work'[q].recall = work[q].recall
    BY <1>3
  <2> QED
    BY <1>0, <1>4, <1>7, <2>1, <2>2, FilesParts DEF ResetForgets
<1> QED
  BY <1>6, <1>8, <1>9, <1>10, <1>11, <1>12 DEF FilesInv

(* The hooks of runs that are over go no further, and record nothing.        *)
LEMMA Stopped ==
  ASSUME FilesInv, NEW runs \in SUBSET Runs, call' = Stop(runs)
  PROVE  /\ call' \in [Calls -> Hooks]
         /\ \A c \in Calls :
              /\ call'[c].by = call[c].by
              /\ call'[c].state = "lost" <=> call[c].state = "lost"
              /\ call[c].by \notin runs => call'[c] = call[c]
              /\ call[c].by \in runs => call'[c].state \in {"over", "lost"}
<1>1. \A c \in Calls : [call[c] EXCEPT !.state = "over", !.base = <<>>] \in Hooks
  BY FilesParts, HookChanges
<1>2. call' \in [Calls -> Hooks]
  BY <1>1, FilesParts DEF Stop
<1>3. ASSUME NEW c \in Calls
      PROVE  /\ call'[c].by = call[c].by
             /\ call'[c].state = "lost" <=> call[c].state = "lost"
             /\ call[c].by \notin runs => call'[c] = call[c]
             /\ call[c].by \in runs => call'[c].state \in {"over", "lost"}
  BY FilesParts DEF Stop, Hooks
<1> QED
  BY <1>2, <1>3

(* Some runs that are not over are stopped, with all of their hooks.         *)
Halted(runs) ==
  /\ \A r \in Runs : r \in runs /\ work[r].state \in {"running", "kept"} =>
       work'[r].state = "over" /\ work'[r].pending = <<>> /\ work'[r].recall = work[r].recall
  /\ \A r \in Runs : r \notin runs \/ work[r].state \notin {"running", "kept"} => work'[r] = work[r]
  /\ \A c \in Calls :
       /\ call'[c].by = call[c].by
       /\ call'[c].state = "lost" <=> call[c].state = "lost"
       /\ call[c].by \notin runs => call'[c] = call[c]
       /\ call[c].by \in runs => call'[c].state \in {"over", "lost"}
  /\ UNCHANGED <<shortTurns, toolRecords, artifacts, forgotten>>

(* Halting runs, whole or with their hooks, keeps the invariant.            *)
LEMMA HaltedKept ==
  ASSUME FilesInv, NEW runs \in SUBSET Runs, Halted(runs)
  PROVE  CallsInv' /\ WorkInv' /\ RefsResolve' /\ ToolMemoryVisible' /\ ResetForgets'
<1>1. /\ \A r \in Runs : r \in runs /\ work[r].state \in {"running", "kept"} =>
           work'[r].state = "over" /\ work'[r].pending = <<>> /\ work'[r].recall = work[r].recall
      /\ \A r \in Runs : r \notin runs \/ work[r].state \notin {"running", "kept"} =>
           work'[r] = work[r]
  BY DEF Halted
<1>2. \A c \in Calls :
        /\ call'[c].by = call[c].by
        /\ call'[c].state = "lost" <=> call[c].state = "lost"
        /\ call[c].by \notin runs => call'[c] = call[c]
        /\ call[c].by \in runs => call'[c].state \in {"over", "lost"}
  BY DEF Halted
<1>3. UNCHANGED <<shortTurns, toolRecords, artifacts, forgotten>>
  BY DEF Halted
<1>4. artifacts \subseteq Calls /\ Members(toolRecords) \subseteq Calls
  BY FilesParts DEF FileTypes, RefsResolve
<1>5. CallsInv'
  <2>1. CallsInv
    BY FilesParts
  <2>2. ASSUME NEW c \in Calls, call'[c].state \in {"captured", "read"}
        PROVE  /\ call'[c] = call[c] /\ c \in artifacts
               /\ work'[call[c].by].state = "running"
    <3>1. call'[c] = call[c] /\ call[c].by \notin runs
      BY <1>2, <2>2
    <3>2. call[c].by \in Runs
      BY <2>2, <3>1, HookOwned
    <3>3. work'[call[c].by] = work[call[c].by]
      BY <1>1, <3>1, <3>2
    <3> QED
      BY <2>1, <2>2, <3>1, <3>3 DEF CallsInv
  <2>3. ASSUME NEW c \in Calls, call'[c].state = "read", NEW d \in Members(call'[c].base)
        PROVE  d \in artifacts /\ call'[d].by = call'[c].by
    <3>1. d \in artifacts /\ call[d].by = call[c].by
      BY <2>1, <2>2, <2>3 DEF CallsInv
    <3> QED
      BY <1>2, <1>4, <3>1
  <2>4. ASSUME NEW c \in Calls
        PROVE  /\ call'[c].state = "none" <=> call'[c].by = "none"
               /\ c \in artifacts => call'[c].state # "none"
    <3>1. CASE call[c].by \in runs
      BY <1>2, <3>1, MemoryAssumption DEF MemoryAssumption
    <3>2. CASE call[c].by \notin runs
      BY <1>2, <2>1, <3>2 DEF CallsInv
    <3> QED
      BY <3>1, <3>2
  <2> QED
    BY <1>3, <2>2, <2>3, <2>4 DEF CallsInv
<1>6. WorkInv'
  <2>1. WorkInv
    BY FilesParts
  <2>2. ASSUME NEW q \in Runs, work'[q].state \in {"running", "kept"}
        PROVE  work'[q] = work[q] /\ q \notin runs
    BY <1>1, <2>2
  <2>3. ASSUME NEW q \in Runs, work'[q].state \in {"running", "kept"}, NEW c \in Members(work'[q].pending)
        PROVE  c \in artifacts /\ call'[c].by = q
    BY <1>2, <1>4, <2>1, <2>2, <2>3 DEF WorkInv
  <2>4. ASSUME NEW q \in Runs, work'[q].state \in {"running", "kept"}, NEW c \in artifacts,
               call'[c].by = q, call'[c].state = "over"
        PROVE  c \in Members(work'[q].pending)
    <3>1. c \in Calls /\ call'[c] = call[c] /\ work'[q] = work[q]
      BY <1>2, <1>4, <2>2, <2>4
    <3> QED
      BY <2>1, <2>4, <3>1 DEF WorkInv
  <2>5. ASSUME NEW q \in Runs, work'[q].state = "new"
        PROVE  /\ work'[q].pending = <<>> /\ work'[q].recall = {}
               /\ \A c \in Calls : call'[c].by # q
    BY <1>1, <1>2, <2>1, <2>5 DEF WorkInv
  <2>6. \A q \in Runs : q \in forgotten => work'[q].state = "over"
    BY <1>1, <2>1 DEF WorkInv
  <2> QED
    BY <1>3, <2>3, <2>4, <2>5, <2>6 DEF WorkInv
<1>7. RefsResolve'
  BY <1>3, FilesParts DEF RefsResolve
<1>8. ToolMemoryVisible'
  <2>1. ToolMemoryVisible
    BY FilesParts
  <2>2. ASSUME NEW q \in Runs, work'[q].state = "over", work'[q].pending # <<>>
        PROVE  work'[q] = work[q]
    BY <1>1, <2>2
  <2> QED
    BY <1>2, <1>3, <2>1, <2>2 DEF ToolMemoryVisible
<1>9. ResetForgets'
  <2>1. ResetForgets
    BY FilesParts
  <2>2. \A q \in Runs : work'[q].recall = work[q].recall
    BY <1>1
  <2> QED
    BY <1>2, <1>3, <1>4, <2>1, <2>2 DEF ResetForgets
<1> QED
  BY <1>5, <1>6, <1>7, <1>8, <1>9

(* Runs are stopped, with their hooks.                                      *)
LEMMA StopStep ==
  ASSUME FilesInv, NEW runs \in SUBSET Runs, call' = Stop(runs),
         UNCHANGED <<shortTurns, toolRecords, artifacts, forgotten>>,
         memoryFaults' \in Nat, memoryCrashes' \in Nat,
         work' = [r \in Runs |-> IF r \in runs /\ work[r].state \in {"running", "kept"}
                                 THEN [work[r] EXCEPT !.state = "over", !.pending = <<>>] ELSE work[r]]
  PROVE  FilesInv'
<1>1. work' \in [Runs -> Works]
  <2>1. \A r \in Runs : [work[r] EXCEPT !.state = "over", !.pending = <<>>] \in Works
    BY FilesParts, WorkChanges, NothingListed
  <2> QED
    BY <2>1, FilesParts
<1>2. \A r \in Runs : r \in runs /\ work[r].state \in {"running", "kept"} =>
        work'[r].state = "over" /\ work'[r].pending = <<>> /\ work'[r].recall = work[r].recall
  <2>1. \A w \in Works :
          LET stopped == [w EXCEPT !.state = "over", !.pending = <<>>]
          IN stopped.state = "over" /\ stopped.pending = <<>> /\ stopped.recall = w.recall
    BY DEF Works
  <2>2. ASSUME NEW r \in runs, work[r].state \in {"running", "kept"}
        PROVE  work'[r] = [work[r] EXCEPT !.state = "over", !.pending = <<>>]
    BY <2>2
  <2> QED
    BY <2>1, <2>2, FilesParts
<1>3. Halted(runs)
  BY <1>2, Stopped, FilesParts DEF Halted
<1>4. FileTypes' /\ WorkTypes' /\ CallTypes' /\ PastTypes'
  BY <1>1, Stopped, FilesParts DEF FileTypes, WorkTypes, CallTypes, PastTypes
<1> QED
  BY <1>3, <1>4, HaltedKept DEF FilesInv

(* A run fails.                                                             *)
LEMMA FailWorkStep ==
  ASSUME FilesInv, NEW r \in Runs, FailWork(r)
  PROVE  FilesInv'
<1>1. /\ UNCHANGED <<shortTurns, toolRecords, artifacts, forgotten, memoryFaults, memoryCrashes>>
      /\ work[r].state = "running" /\ call' = Stop({r})
      /\ work' = [work EXCEPT ![r].state = "over", ![r].pending = <<>>]
  BY DEF FailWork, fileVars
<1>2. work' = [q \in Runs |-> IF q \in {r} /\ work[q].state \in {"running", "kept"}
                              THEN [work[q] EXCEPT !.state = "over", !.pending = <<>>] ELSE work[q]]
  BY <1>1, FilesParts DEF Works
<1>3. memoryFaults' \in Nat /\ memoryCrashes' \in Nat
  BY <1>1, FilesParts DEF PastTypes
<1> QED
  BY <1>1, <1>2, <1>3, StopStep

(* The server stops, and all runs with it.                                  *)
LEMMA CrashStep ==
  ASSUME FilesInv, MemoryCrash
  PROVE  FilesInv'
<1>1. /\ UNCHANGED <<shortTurns, toolRecords, artifacts, forgotten, memoryFaults>>
      /\ call' = Stop(Runs)
      /\ work' = [r \in Runs |-> IF work[r].state \in {"new", "over"} THEN work[r]
                                 ELSE [work[r] EXCEPT !.state = "over", !.pending = <<>>]]
  BY DEF MemoryCrash, fileVars
<1>2. work' = [q \in Runs |-> IF q \in Runs /\ work[q].state \in {"running", "kept"}
                              THEN [work[q] EXCEPT !.state = "over", !.pending = <<>>] ELSE work[q]]
  <2>1. \A q \in Runs : work[q].state \in {"new", "over"} <=> ~ (work[q].state \in {"running", "kept"})
    BY FilesParts, WorkParts
  <2> QED
    BY <1>1, <2>1
<1>3. memoryFaults' \in Nat /\ memoryCrashes' \in Nat
  <2>1. memoryFaults' = memoryFaults /\ memoryCrashes' = memoryCrashes + 1
    BY DEF MemoryCrash
  <2>2. memoryFaults \in Nat /\ memoryCrashes \in Nat
    BY FilesParts DEF PastTypes
  <2> QED
    BY <2>1, <2>2
<1> QED
  BY <1>1, <1>2, <1>3, StopStep

(* A reset comes when no run of the session is under way.                    *)
LEMMA Resting ==
  ASSUME FilesInv, Unlocked
  PROVE  /\ \A r \in Runs : work[r].state \in {"new", "over"}
         /\ \A c \in Calls : call[c].state \notin {"captured", "read"}
         /\ \A c \in Calls : call[c].by \in Begun \/ call[c].by = "none"
         /\ forgotten \subseteq Begun /\ Begun \subseteq Runs
<1>1. \A r \in Runs : work[r].state \in {"new", "over"}
  BY DEF Unlocked
<1>2. ASSUME NEW c \in Calls PROVE call[c].state \notin {"captured", "read"}
  BY <1>1, FilesParts, HookOwned DEF CallsInv
<1>3. ASSUME NEW c \in Calls, call[c].by # "none" PROVE call[c].by \in Begun
  BY <1>3, FilesParts, HookOwned DEF CallsInv, WorkInv, Begun
<1>4. forgotten \subseteq Begun /\ Begun \subseteq Runs
  BY FilesParts DEF WorkInv, PastTypes, Begun
<1> QED
  BY <1>1, <1>2, <1>3, <1>4

(* The session is reset.                                                    *)
LEMMA ResetStep ==
  ASSUME FilesInv, Reset
  PROVE  FilesInv'
<1>1. /\ UNCHANGED <<work, call, memoryFaults, memoryCrashes>> /\ Unlocked
      /\ shortTurns' = <<>> /\ toolRecords' = <<>> /\ artifacts' = {} /\ forgotten' = Begun
  BY DEF Reset
<1>2. FileTypes' /\ WorkTypes' /\ CallTypes' /\ PastTypes'
  BY <1>1, Resting, NothingListed, FilesParts DEF FileTypes, WorkTypes, CallTypes, PastTypes
<1>3. CallsInv'
  BY <1>1, Resting, FilesParts DEF CallsInv
<1>4. WorkInv'
  BY <1>1, Resting, FilesParts DEF WorkInv, Begun
<1>5. RefsResolve' /\ ToolMemoryVisible'
  BY <1>1, NothingListed DEF RefsResolve, ToolMemoryVisible
<1>6. ResetForgets'
  BY <1>1, NothingListed, FilesParts DEF ResetForgets, WorkInv, Begun
<1> QED
  BY <1>2, <1>3, <1>4, <1>5, <1>6 DEF FilesInv

(* A reset breaks off when a write fails.                                   *)
LEMMA BreakStep ==
  ASSUME FilesInv, ResetBreaks
  PROVE  FilesInv'
<1>1. UNCHANGED <<work, forgotten, memoryCrashes>> /\ Unlocked /\ memoryFaults' \in Nat
  <2>1. UNCHANGED <<work, forgotten, memoryCrashes>> /\ Unlocked /\ memoryFaults' = memoryFaults + 1
    BY DEF ResetBreaks, FileFails
  <2> QED
    BY <2>1, FilesParts DEF PastTypes
<1>2. CASE UNCHANGED <<fileVars, call>>
  <2>1. FileTypes' /\ WorkTypes' /\ CallTypes' /\ PastTypes'
    BY <1>1, <1>2, FilesParts DEF fileVars, FileTypes, WorkTypes, CallTypes, PastTypes
  <2>2. CallsInv' /\ WorkInv' /\ RefsResolve' /\ ToolMemoryVisible' /\ ResetForgets'
    BY <1>1, <1>2, FilesParts
    DEF fileVars, CallsInv, WorkInv, RefsResolve, ToolMemoryVisible, ResetForgets
  <2> QED
    BY <2>1, <2>2 DEF FilesInv
<1>3. CASE /\ shortTurns' = <<>> /\ toolRecords' = <<>> /\ artifacts' \in SUBSET artifacts
           /\ call' = Lose({c \in Calls : call[c].by \in Begun})
  <2>1. call' \in [Calls -> Hooks]
    <3>1. \A c \in Calls : [call[c] EXCEPT !.state = "lost"] \in Hooks
      BY FilesParts, HookChanges
    <3> QED
      BY <1>3, <3>1, FilesParts DEF Lose
  <2>2. ASSUME NEW c \in Calls
        PROVE  /\ call'[c].by = call[c].by
               /\ call[c].by \in Begun => call'[c].state = "lost"
               /\ call[c].by \notin Begun => call'[c] = call[c]
    BY <1>3, FilesParts DEF Lose, Hooks
  <2>3. FileTypes' /\ WorkTypes' /\ CallTypes' /\ PastTypes'
    BY <1>1, <1>3, <2>1, NothingListed, FilesParts
       DEF FileTypes, WorkTypes, CallTypes, PastTypes
  <2>4. "none" \notin Begun
    BY MemoryAssumption DEF MemoryAssumption, Begun
  <2>5. \A c \in Calls : call'[c].state \notin {"captured", "read"}
    BY <1>1, <2>2, Resting
  <2>6. CallsInv'
    <3>1. ASSUME NEW c \in Calls
          PROVE  /\ call'[c].state = "none" <=> call'[c].by = "none"
                 /\ c \in artifacts' => call'[c].state # "none"
      <4>1. CASE call[c].by \in Begun
        BY <2>2, <2>4, <4>1
      <4>2. CASE call[c].by \notin Begun
        BY <1>3, <2>2, <4>2, FilesParts DEF CallsInv
      <4> QED
        BY <4>1, <4>2
    <3> QED
      BY <2>5, <3>1 DEF CallsInv
  <2>7. WorkInv'
    BY <1>1, <2>2, Resting, FilesParts DEF WorkInv
  <2>8. RefsResolve'
    BY <1>3, NothingListed DEF RefsResolve
  <2>9. ToolMemoryVisible'
    <3>1. ASSUME NEW q \in Runs, work[q].state = "over", NEW c \in Calls, call'[c].by = q
          PROVE  call'[c].state = "lost"
      BY <2>2, <3>1 DEF Begun
    <3> QED
      BY <1>1, <3>1 DEF ToolMemoryVisible
  <2>10. ResetForgets'
    BY <1>1, <1>3, NothingListed, FilesParts DEF ResetForgets
  <2> QED
    BY <2>3, <2>6, <2>7, <2>8, <2>9, <2>10 DEF FilesInv
<1> QED
  BY <1>2, <1>3 DEF ResetBreaks

-----------------------------------------------------------------------------
(* Both files.                                                             *)

KeptInv == LongTypes /\ KeysOnce /\ AgesInv /\ FilesInv

(* The invariant of the memories holds at first, is kept by every step,     *)
(* and so holds always.                                                     *)
LEMMA KeptFirst == MemoryInit => KeptInv
<1> SUFFICES ASSUME MemoryInit PROVE KeptInv
  OBVIOUS
<1>1. longTerm = {} /\ updates = 0
  BY DEF MemoryInit
<1>2. LongTypes /\ KeysOnce /\ AgesInv
  BY <1>1, FS_EmptySet, MemoryAssumption DEF MemoryAssumption, LongTypes, KeysOnce, AgesInv
<1> QED
  BY <1>2, FilesFirst DEF KeptInv

LEMMA KeptStep == KeptInv /\ [MemoryNext]_memoryVars => KeptInv'
<1> SUFFICES ASSUME KeptInv, [MemoryNext]_memoryVars PROVE KeptInv'
  OBVIOUS
<1>0. LongTypes /\ KeysOnce /\ AgesInv /\ FilesInv
  BY DEF KeptInv
<1>1. ASSUME UNCHANGED longVars PROVE LongTypes' /\ KeysOnce' /\ AgesInv'
  BY <1>0, <1>1 DEF longVars, LongTypes, KeysOnce, AgesInv, Oldest
<1>2. ASSUME UNCHANGED <<fileVars, work, call, forgotten, memoryFaults, memoryCrashes>> PROVE FilesInv'
  <2>1. FileTypes' /\ WorkTypes' /\ CallTypes' /\ PastTypes'
    BY <1>0, <1>2, FilesParts DEF fileVars, FileTypes, WorkTypes, CallTypes, PastTypes
  <2>2. CallsInv' /\ WorkInv' /\ RefsResolve' /\ ToolMemoryVisible' /\ ResetForgets'
    BY <1>0, <1>2, FilesParts
    DEF fileVars, CallsInv, WorkInv, RefsResolve, ToolMemoryVisible, ResetForgets
  <2> QED
    BY <2>1, <2>2 DEF FilesInv
<1>3. CASE LongTermNext
  <2>1. UNCHANGED <<fileVars, work, call, forgotten, memoryFaults, memoryCrashes>>
    BY <1>3 DEF LongTermNext, Remember, Forget
  <2> QED
    BY <1>0, <1>2, <1>3, <2>1, LongStep DEF KeptInv
<1>4. CASE SessionNext
  <2>1. UNCHANGED longVars
    BY <1>4
    DEF SessionNext, BeginWork, AskForMemories, RecallMemories, CaptureTool, ReadPending, WritePending,
        KeepTurn, KeepTools, FailWork, Reset, ResetBreaks, MemoryCrash
  <2>2. FilesInv'
    <3>1. ASSUME NEW r \in Runs,
                 \/ BeginWork(r) \/ AskForMemories(r) \/ RecallMemories(r)
                 \/ \E c \in Calls : CaptureTool(r, c)
                 \/ KeepTurn(r) \/ KeepTools(r) \/ FailWork(r)
          PROVE  FilesInv'
      BY <1>0, <3>1, BeginStep, RecallStep, CaptureStep, KeepTurnStep, KeepToolsStep,
         FailWorkStep
    <3>2. ASSUME NEW c \in Calls, ReadPending(c) \/ WritePending(c) PROVE FilesInv'
      BY <1>0, <3>2, ReadStep, WriteStep
    <3>3. CASE Reset \/ ResetBreaks \/ MemoryCrash
      BY <1>0, <3>3, ResetStep, BreakStep, CrashStep
    <3> QED
      BY <1>4, <3>1, <3>2, <3>3 DEF SessionNext
  <2> QED
    BY <1>1, <2>1, <2>2 DEF KeptInv
<1>5. CASE UNCHANGED memoryVars
  BY <1>1, <1>2, <1>5 DEF memoryVars, KeptInv
<1> QED
  BY <1>3, <1>4, <1>5 DEF MemoryNext

LEMMA Keeping == MemorySpec => []KeptInv
  BY KeptFirst, KeptStep, PTL DEF MemorySpec

(* Whatever fails or dies, and whatever the tools of a run do at once: every   *)
(* record of a result names a result that is there, the long-term file stays   *)
(* within its limit and knows each content once, and a run that was kept has   *)
(* its records.                                                             *)
THEOREM MemoryIsKept == MemorySpec => []MemoryInv
<1>1. KeptInv => MemoryInv
  BY MemoryTypes DEF KeptInv, FilesInv, MemoryInv
<1> QED
  BY <1>1, Keeping, PTL

(* What a reset has removed is never seen again, by no later run.            *)
THEOREM ForgottenForGood == MemorySpec => []ResetForgets
<1>1. KeptInv => ResetForgets
  BY DEF KeptInv, FilesInv
<1> QED
  BY <1>1, Keeping, PTL

-----------------------------------------------------------------------------
(* What the guards let a run answer: module Grounding.                      *)

(* The types of the jobs, of what tools returned and of the calls under way.  *)
GroundResults == [tool : GroundTools, error : BOOLEAN, out : Outputs, ids : SUBSET JobIds]
GroundEntries == [tool : GroundTools,
                  kind : {"execution", "discovery", "source", "action", "observation"},
                  status : {"failed", "rejected", "unusable", "empty", "succeeded"}, citable : BOOLEAN]

GroundTypes ==
  /\ jobs \subseteq jobsMade
  /\ calls \in [1..GroundCalls -> GroundTools \cup {Nothing}]
  /\ results \in Seq(GroundResults) /\ ledger \in Seq([id : Nat, entry : GroundEntries])
  /\ exposed # Nothing \/ doing = "tools" => exposed \subseteq GroundTools
  /\ modelCount \in Nat /\ doing \in {"model", "tools", "judge", "over"}
  /\ doing = "judge" => answer \in Replies
  /\ doing = "over" \/ text = "none"

(* What failed is recorded as an error, and what did not gives only ids of jobs  *)
(* there have been.                                                         *)
Recorded ==
  \A i \in 1..Len(results) :
    /\ results[i].error <=> results[i].out = "failed"
    /\ ~ results[i].error => results[i].ids \subseteq jobsMade

(* The retry at the end of a run is used by a guard, or after the other one.    *)
Retried == "final" \in used => used \cap {"guard", "ignored"} # {}

(* The call that waited is there when the run resumes, unless the run exposes   *)
(* the scheduling tool alone.                                               *)
Resumed ==
  doing = "tools" /\ Target =>
    /\ \A c \in 1..GroundCalls : calls[c] \in {"bash", Nothing}
    /\ exposed = (IF schedules THEN {"cron"} ELSE GroundTools)

GroundInv ==
  /\ GroundTypes /\ Recorded /\ Retried /\ Resumed
  /\ GroundingInv

-----------------------------------------------------------------------------
(* What a tool returned is one more result, and its entries come after those   *)
(* of the others.                                                           *)
LEMMA EntriesParts ==
  ASSUME NEW t \in GroundTools, NEW out \in Outputs, NEW found \in 1..2
  PROVE  /\ EntriesOf(t, out, found) \in Seq(GroundEntries)
         /\ \A i \in 1..Len(EntriesOf(t, out, found)) :
              EntriesOf(t, out, found)[i].citable =>
                /\ out = "text" /\ EntriesOf(t, out, found)[i].tool = t
                /\ EntriesOf(t, out, found)[i].kind # "discovery"
<1> DEFINE E == EntriesOf(t, out, found)
<1>1. CASE t = "compact"
  <2>1. E = <<>>
    BY <1>1 DEF EntriesOf
  <2> QED
    BY <2>1
<1>2. ASSUME NEW e \in GroundEntries, E = <<e>>,
             e.citable => out = "text" /\ e.tool = t /\ e.kind # "discovery"
      PROVE  /\ E \in Seq(GroundEntries)
             /\ \A i \in 1..Len(E) : E[i].citable => out = "text" /\ E[i].tool = t /\ E[i].kind # "discovery"
  BY <1>2
<1>3. CASE t # "compact" /\ out = "failed"
  <2>1. E = <<[tool |-> t, kind |-> "execution", status |-> "failed", citable |-> FALSE]>>
    BY <1>3 DEF EntriesOf
  <2> QED
    BY <1>2, <2>1 DEF GroundEntries
<1>4. CASE t # "compact" /\ out = "rejected"
  <2>1. E = <<[tool |-> t, kind |-> "action", status |-> "rejected", citable |-> FALSE]>>
    BY <1>4 DEF EntriesOf
  <2> QED
    BY <1>2, <2>1 DEF GroundEntries
<1>a. Kind(t) \in {"discovery", "source", "action", "observation"}
  BY DEF Kind
<1>5. CASE t # "compact" /\ out = "empty"
  <2>1. E = <<[tool |-> t, kind |-> Kind(t), status |-> IF t = "web_fetch" THEN "unusable" ELSE "empty",
               citable |-> FALSE]>>
    BY <1>5 DEF EntriesOf
  <2>2. [tool |-> t, kind |-> Kind(t), status |-> IF t = "web_fetch" THEN "unusable" ELSE "empty",
         citable |-> FALSE] \in GroundEntries
    BY <1>a DEF GroundEntries
  <2> QED
    BY <1>2, <2>1, <2>2
<1>6. CASE t # "compact" /\ out = "text" /\ t # "web_search"
  <2>1. E = <<[tool |-> t, kind |-> Kind(t), status |-> "succeeded", citable |-> TRUE]>>
    BY <1>6 DEF EntriesOf
  <2>2. [tool |-> t, kind |-> Kind(t), status |-> "succeeded", citable |-> TRUE] \in GroundEntries
    BY <1>a DEF GroundEntries
  <2>3. Kind(t) # "discovery"
    BY <1>6 DEF Kind
  <2> QED
    BY <1>2, <1>6, <2>1, <2>2, <2>3
<1>7. CASE t = "web_search" /\ out = "text"
  <2> DEFINE e == [tool |-> t, kind |-> "discovery", status |-> "succeeded", citable |-> FALSE]
  <2>1. E = [i \in 1..found |-> e]
    BY <1>7 DEF EntriesOf
  <2>2. e \in GroundEntries /\ ~ e.citable
    BY DEF GroundEntries
  <2> HIDE DEF e
  <2>3. E \in Seq(GroundEntries) /\ Len(E) = found /\ \A i \in 1..Len(E) : E[i] = e
    BY <2>1, <2>2
  <2> QED
    BY <2>2, <2>3
<1> QED
  BY <1>1, <1>3, <1>4, <1>5, <1>6, <1>7 DEF Outputs

LEMMA RecordParts ==
  ASSUME GroundTypes, NEW t \in GroundTools, NEW out \in Outputs, NEW ids \in SUBSET JobIds,
         NEW found \in 1..2, Record(t, out, ids, found)
  PROVE  /\ results' \in Seq(GroundResults) /\ Len(results) \in Nat
         /\ Len(results') = Len(results) + 1
         /\ \A i \in 1..Len(results) : results'[i] = results[i]
         /\ results'[Len(results) + 1] =
              [tool |-> t, error |-> out = "failed", out |-> out, ids |-> ids]
<1>1. (out = "failed") \in BOOLEAN
  OBVIOUS
<1>2. [tool |-> t, error |-> out = "failed", out |-> out, ids |-> ids] \in GroundResults
  BY <1>1 DEF GroundResults
<1>3. results' = Append(results, [tool |-> t, error |-> out = "failed", out |-> out, ids |-> ids])
  BY DEF Record
<1> QED
  BY <1>2, <1>3 DEF GroundTypes

(* The entries keep their numbers, and only what a tool returned can be cited.  *)
LEMMA LedgerParts ==
  ASSUME GroundTypes, LedgerSound, NEW t \in GroundTools, NEW out \in Outputs, NEW ids \in SUBSET JobIds,
         NEW found \in 1..2, Record(t, out, ids, found)
  PROVE  ledger' \in Seq([id : Nat, entry : GroundEntries]) /\ LedgerSound'
<1> DEFINE E == EntriesOf(t, out, found)
           new == [i \in 1..Len(E) |-> [id |-> Len(ledger) + i, entry |-> E[i]]]
<1>1. /\ E \in Seq(GroundEntries)
      /\ \A i \in 1..Len(E) : E[i].citable => out = "text" /\ E[i].tool = t /\ E[i].kind # "discovery"
  BY EntriesParts
<1>2. ledger' = ledger \o new
  BY DEF Record
<1>3. /\ Len(E) \in Nat /\ Len(ledger) \in Nat /\ ledger \in Seq([id : Nat, entry : GroundEntries])
  BY <1>1 DEF GroundTypes
<1> HIDE DEF E
<1>4. \A i \in 1..Len(E) : [id |-> Len(ledger) + i, entry |-> E[i]] \in [id : Nat, entry : GroundEntries]
  BY <1>1, <1>3
<1>5. /\ new \in Seq([id : Nat, entry : GroundEntries]) /\ Len(new) = Len(E)
      /\ \A i \in 1..Len(E) : new[i].id = Len(ledger) + i /\ new[i].entry = E[i]
  BY <1>3, <1>4
<1> HIDE DEF new
<1>6. /\ ledger' \in Seq([id : Nat, entry : GroundEntries]) /\ Len(ledger') = Len(ledger) + Len(E)
      /\ \A i \in 1..Len(ledger) : ledger'[i] = ledger[i]
      /\ \A i \in 1..Len(E) : ledger'[Len(ledger) + i] = new[i]
  <2>1. ledger' \in Seq([id : Nat, entry : GroundEntries])
    BY <1>2, <1>3, <1>5, ConcatProperties
  <2>2. /\ Len(ledger') = Len(ledger) + Len(E)
        /\ \A i \in 1..Len(ledger) : ledger'[i] = ledger[i]
    <3>1. Len(ledger \o new) = Len(ledger) + Len(new)
      BY <1>3, <1>5, ConcatProperties
    <3>2. ASSUME NEW i \in 1..Len(ledger) PROVE (ledger \o new)[i] = ledger[i]
      <4>1. i \in 1..Len(ledger) + Len(new) /\ i <= Len(ledger)
        BY <1>3, <1>5
      <4> QED
        BY <1>3, <1>5, <4>1, ConcatProperties
    <3> QED
      BY <1>2, <1>5, <3>1, <3>2
  <2>3. ASSUME NEW i \in 1..Len(E) PROVE ledger'[Len(ledger) + i] = new[i]
    <3>0. Len(ledger) \in Nat /\ Len(new) \in Nat /\ i \in 1..Len(new)
      BY <1>3, <1>5
    <3>1. /\ Len(ledger) + i \in 1..Len(ledger) + Len(new)
          /\ ~ (Len(ledger) + i <= Len(ledger)) /\ Len(ledger) + i - Len(ledger) = i
      BY <3>0
    <3>2. (ledger \o new)[Len(ledger) + i]
            = IF Len(ledger) + i <= Len(ledger) THEN ledger[Len(ledger) + i]
              ELSE new[Len(ledger) + i - Len(ledger)]
      BY <1>3, <1>5, <3>1, ConcatProperties
    <3> QED
      BY <1>2, <3>1, <3>2
  <2> QED
    BY <2>1, <2>2, <2>3
<1>7. WorkedTools \subseteq WorkedTools' /\ (out = "text" => t \in WorkedTools')
  <2>1. /\ Len(results) \in Nat /\ Len(results') = Len(results) + 1
        /\ \A i \in 1..Len(results) : results'[i] = results[i]
        /\ results'[Len(results) + 1] = [tool |-> t, error |-> out = "failed", out |-> out, ids |-> ids]
    BY RecordParts
  <2> QED
    BY <2>1 DEF WorkedTools
<1>8. ASSUME NEW i \in 1..Len(ledger')
      PROVE  /\ ledger'[i].id = i
             /\ ledger'[i].entry.citable => /\ ledger'[i].entry.tool \in WorkedTools'
                                            /\ ledger'[i].entry.kind # "discovery"
  <2>1. CASE i <= Len(ledger)
    <3>1. i \in 1..Len(ledger) /\ ledger'[i] = ledger[i]
      BY <1>3, <1>6, <2>1
    <3> QED
      BY <1>7, <3>1 DEF LedgerSound
  <2>2. CASE i > Len(ledger)
    <3>1. PICK j \in 1..Len(E) : i = Len(ledger) + j
      <4>1. i - Len(ledger) \in 1..Len(E) /\ i = Len(ledger) + (i - Len(ledger))
        BY <1>3, <1>6, <2>2
      <4> QED
        BY <4>1
    <3>2. ledger'[i] = new[j]
      BY <1>6, <3>1
    <3>3. ledger'[i].id = i /\ ledger'[i].entry = E[j]
      BY <1>5, <3>1, <3>2
    <3> QED
      BY <1>1, <1>7, <3>3
  <2> QED
    BY <1>3, <1>6, <2>1, <2>2
<1> QED
  BY <1>6, <1>8 DEF LedgerSound

-----------------------------------------------------------------------------
(* An answer that is not yet delivered breaks no promise.                     *)
LEMMA NotYet ==
  ASSUME doing' # "over" \/ text' \notin {"answer", "tool guard"}
  PROVE  /\ ClaimsAreTrue' /\ IdsAreReal'
         /\ (unheard' => {"ignored", "final"} \subseteq used') => GuardsAreFair'
  BY DEF ClaimsAreTrue, IdsAreReal, GuardsAreFair, Delivered

LEMMA GroundParts ==
  ASSUME GroundInv
  PROVE  /\ GroundTypes /\ Recorded /\ Retried /\ Resumed /\ LedgerSound
         /\ (unheard => {"ignored", "final"} \subseteq used) /\ DecidedIsFound
  BY DEF GroundInv, GroundingInv, GuardsAreFair

(* The tools of the agent are known to the framework, or some of them.         *)
LEMMA ExposedTools ==
  ASSUME GroundTypes
  PROVE  Exposed \subseteq GroundTools
  BY DEF Exposed, Usable, GroundTypes

LEMMA GroundFirst == GroundingInit => GroundInv
<1> SUFFICES ASSUME GroundingInit PROVE GroundInv
  OBVIOUS
<1>1. calls \in [1..GroundCalls -> GroundTools \cup {Nothing}]
  BY GroundingAssumption DEF GroundingInit, GroundingAssumption
<1>2. exposed # Nothing \/ doing = "tools" => exposed \subseteq GroundTools
  BY GroundingAssumption DEF GroundingInit, GroundingAssumption
<1>3. results \in Seq(GroundResults) /\ ledger \in Seq([id : Nat, entry : GroundEntries])
  BY DEF GroundingInit
<1>4. GroundTypes
  BY <1>1, <1>2, <1>3 DEF GroundingInit, GroundTypes
<1>5. Len(results) = 0 /\ Len(ledger) = 0
  BY DEF GroundingInit
<1>6. Recorded /\ LedgerSound
  BY <1>5 DEF Recorded, LedgerSound
<1>7. Retried /\ DecidedIsFound /\ ClaimsAreTrue /\ IdsAreReal /\ GuardsAreFair
  BY DEF GroundingInit, Retried, DecidedIsFound, ClaimsAreTrue, IdsAreReal, GuardsAreFair, Delivered
<1>8. Resumed
  BY DEF GroundingInit, Resumed, Target
<1> QED
  BY <1>4, <1>6, <1>7, <1>8 DEF GroundInv, GroundingInv

(* What a step that records no result keeps.                                  *)
LEMMA SameResults ==
  ASSUME GroundInv, UNCHANGED <<results, ledger>>, jobsMade \subseteq jobsMade'
  PROVE  Recorded' /\ LedgerSound'
<1>1. WorkedTools' = WorkedTools
  BY DEF WorkedTools
<1> QED
  BY <1>1, GroundParts DEF Recorded, LedgerSound

LEMMA AskToolsStep ==
  ASSUME GroundInv, AskForTools
  PROVE  GroundInv'
<1>0. /\ doing = "model" /\ exposed' = Exposed /\ doing' = "tools" /\ modelCount' = modelCount + 1
      /\ UNCHANGED <<resumed, jobs, jobsMade, results, ledger, used, text, unheard, missed>>
  BY DEF AskForTools, CallModel
<1>1. calls' \in [1..GroundCalls -> GroundTools \cup {Nothing}]
  BY DEF AskForTools
<1>2. modelCount \in Nat
  BY GroundParts DEF GroundTypes
<1>3. GroundTypes'
  BY <1>0, <1>1, <1>2, GroundParts, ExposedTools DEF GroundTypes
<1>4. Resumed'
  BY <1>0, <1>2 DEF Resumed, Target
<1>5. Retried' /\ DecidedIsFound' /\ Recorded' /\ LedgerSound'
  <2>1. schedules' = schedules
    BY DEF AskForTools, CallModel
  <2> QED
    BY <1>0, <2>1, GroundParts, SameResults DEF Retried, DecidedIsFound
<1> QED
  BY <1>0, <1>3, <1>4, <1>5, NotYet, GroundParts DEF GroundInv, GroundingInv

LEMMA AnswerFinallyStep ==
  ASSUME GroundInv, AnswerFinally
  PROVE  GroundInv'
<1>0. /\ doing = "model" /\ exposed' = Exposed /\ doing' = "judge" /\ modelCount' = modelCount + 1
      /\ answer' \in Replies
      /\ UNCHANGED <<resumed, schedules, jobs, jobsMade, results, ledger, used, text, unheard, missed, calls>>
  BY DEF AnswerFinally, CallModel
<1>2. modelCount \in Nat
  BY GroundParts DEF GroundTypes
<1>3. GroundTypes'
  BY <1>0, <1>2, GroundParts, ExposedTools DEF GroundTypes
<1>4. Resumed'
  BY <1>0 DEF Resumed
<1>5. Retried' /\ DecidedIsFound' /\ Recorded' /\ LedgerSound'
  BY <1>0, GroundParts, SameResults DEF Retried, DecidedIsFound
<1> QED
  BY <1>0, <1>3, <1>4, <1>5, NotYet, GroundParts DEF GroundInv, GroundingInv

(* A run that ends without an answer of the model.                            *)
LEMMA EndStep ==
  ASSUME GroundInv, GiveUp \/ Wait
  PROVE  GroundInv'
<1>0. /\ doing' = "over" /\ text' \in {"budget", "approval"}
      /\ UNCHANGED <<resumed, schedules, jobs, jobsMade, calls, results, ledger, modelCount, exposed, used,
                     unheard, missed>>
  BY DEF GiveUp, Wait
<1>3. GroundTypes'
  BY <1>0, GroundParts DEF GroundTypes
<1>4. Resumed'
  BY <1>0 DEF Resumed
<1>5. Retried' /\ DecidedIsFound' /\ Recorded' /\ LedgerSound'
  BY <1>0, GroundParts, SameResults DEF Retried, DecidedIsFound
<1> QED
  BY <1>0, <1>3, <1>4, <1>5, NotYet, GroundParts DEF GroundInv, GroundingInv

LEMMA JobGoneStep ==
  ASSUME GroundInv, JobGone
  PROVE  GroundInv'
<1>0. /\ doing # "over" /\ jobs' \subseteq jobs
      /\ UNCHANGED <<resumed, schedules, jobsMade, calls, results, ledger, modelCount, exposed, used,
                     doing, answer, text, unheard, missed>>
  BY DEF JobGone
<1>3. GroundTypes'
  BY <1>0, GroundParts DEF GroundTypes
<1>4. Resumed'
  BY <1>0, GroundParts DEF Resumed, Target
<1>5. Retried' /\ DecidedIsFound' /\ Recorded' /\ LedgerSound'
  BY <1>0, GroundParts, SameResults DEF Retried, DecidedIsFound
<1> QED
  BY <1>0, <1>3, <1>4, <1>5, NotYet, GroundParts DEF GroundInv, GroundingInv

LEMMA EndCallStep ==
  ASSUME GroundInv, NEW c \in 1..GroundCalls, EndCall(c)
  PROVE  GroundInv'
<1>0. /\ doing = "tools" /\ calls[c] \in exposed /\ doing' \in {"model", "tools"}
      /\ calls' = [calls EXCEPT ![c] = Nothing]
      /\ UNCHANGED <<resumed, schedules, modelCount, exposed, used, answer, text, unheard, missed>>
  BY DEF EndCall
<1>a. calls[c] \in GroundTools
  BY <1>0, GroundParts DEF GroundTypes
<1>1. PICK out \in Outputs, found \in 1..2, ids \in SUBSET JobIds :
        /\ Record(calls[c], out, ids, found)
        /\ jobs' \subseteq jobsMade' /\ jobsMade \subseteq jobsMade'
        /\ out # "failed" => ids \subseteq jobsMade'
  <2>1. jobs \subseteq jobsMade
    BY GroundParts DEF GroundTypes
  <2>2. PICK out \in Outputs, found \in 1..2, ids \in SUBSET JobIds :
          /\ Record(calls[c], out, ids, found)
          /\ \/ ids = {} /\ UNCHANGED <<jobs, jobsMade>>
             \/ out = "failed" /\ UNCHANGED <<jobs, jobsMade>>
             \/ ids = jobs /\ UNCHANGED <<jobs, jobsMade>>
             \/ /\ \E j \in jobs : ids = {j} /\ jobs' = jobs \ {j}
                /\ UNCHANGED jobsMade
             \/ \E j \in Jobs \ jobsMade :
                  ids = {j} /\ jobs' = jobs \cup {j} /\ jobsMade' = jobsMade \cup {j}
    BY DEF EndCall
  <2> QED
    BY <2>1, <2>2
<1>2. /\ results' \in Seq(GroundResults) /\ Len(results) \in Nat
      /\ Len(results') = Len(results) + 1
      /\ \A i \in 1..Len(results) : results'[i] = results[i]
      /\ results'[Len(results) + 1] =
           [tool |-> calls[c], error |-> out = "failed", out |-> out, ids |-> ids]
  BY <1>a, <1>1, GroundParts, RecordParts
<1>3. Recorded'
  <2> SUFFICES ASSUME NEW i \in 1..Len(results')
               PROVE  /\ results'[i].error <=> results'[i].out = "failed"
                      /\ ~ results'[i].error => results'[i].ids \subseteq jobsMade'
    BY DEF Recorded
  <2>1. CASE i \in 1..Len(results)
    BY <1>1, <1>2, <2>1, GroundParts DEF Recorded
  <2>2. CASE i = Len(results) + 1
    <3>1. /\ results'[i].error = (out = "failed") /\ results'[i].out = out
          /\ results'[i].ids = ids
      BY <1>2, <2>2
    <3> QED
      BY <1>1, <3>1
  <2> QED
    BY <1>2, <2>1, <2>2
<1>4. ledger' \in Seq([id : Nat, entry : GroundEntries]) /\ LedgerSound'
  BY <1>a, <1>1, GroundParts, LedgerParts
<1>5. /\ calls' \in [1..GroundCalls -> GroundTools \cup {Nothing}]
      /\ \A d \in 1..GroundCalls : calls'[d] \in {calls[d], Nothing}
  BY <1>0, GroundParts DEF GroundTypes
<1>6. GroundTypes'
  BY <1>0, <1>1, <1>2, <1>4, <1>5, GroundParts DEF GroundTypes
<1>7. Resumed'
  BY <1>0, <1>5, GroundParts DEF Resumed, Target
<1>8. Retried' /\ DecidedIsFound'
  BY <1>0, GroundParts DEF Retried, DecidedIsFound
<1> QED
  BY <1>0, <1>3, <1>4, <1>6, <1>7, <1>8, NotYet, GroundParts DEF GroundInv, GroundingInv

(* A call that is not found in a run that resumed is not of the scheduling tool. *)
LEMMA NotFoundStep ==
  ASSUME GroundInv, NEW c \in 1..GroundCalls, NotFound(c)
  PROVE  GroundInv'
<1>0. /\ doing = "tools" /\ calls[c] \notin exposed \cup {Nothing} /\ doing' \in {"model", "tools"}
      /\ calls' = [calls EXCEPT ![c] = Nothing]
      /\ UNCHANGED <<resumed, schedules, jobs, jobsMade, results, ledger, modelCount, exposed, used, answer,
                     text, unheard>>
  BY DEF NotFound
<1>1. Target => resumed /\ schedules
  <2> SUFFICES ASSUME Target PROVE schedules
    BY DEF Target
  <2>1. calls[c] = "bash" /\ exposed = (IF schedules THEN {"cron"} ELSE GroundTools)
    BY <1>0, GroundParts DEF Resumed
  <2> QED
    BY <1>0, <2>1, GroundingAssumption DEF GroundingAssumption
<1>2. DecidedIsFound'
  <2>1. missed' => missed \/ Target
    BY DEF NotFound
  <2>2. (missed => resumed /\ schedules) /\ resumed' = resumed /\ schedules' = schedules
    BY <1>0, GroundParts DEF DecidedIsFound
  <2> QED
    BY <1>1, <2>1, <2>2, Zenon DEF DecidedIsFound
<1>3. /\ calls' \in [1..GroundCalls -> GroundTools \cup {Nothing}]
      /\ \A d \in 1..GroundCalls : calls'[d] \in {calls[d], Nothing}
  BY <1>0, GroundParts DEF GroundTypes
<1>4. GroundTypes'
  BY <1>0, <1>3, GroundParts DEF GroundTypes
<1>5. Resumed'
  BY <1>0, <1>3, GroundParts DEF Resumed, Target
<1>6. Retried' /\ Recorded' /\ LedgerSound'
  BY <1>0, GroundParts, SameResults DEF Retried
<1> QED
  BY <1>0, <1>2, <1>4, <1>5, <1>6, NotYet, GroundParts DEF GroundInv, GroundingInv

LEMMA RetryStep ==
  ASSUME GroundInv, RetryIgnored
  PROVE  GroundInv'
<1>0. /\ doing = "judge" /\ doing' = "model" /\ used' = used \cup {"ignored"} /\ exposed' = Nothing
      /\ UNCHANGED <<resumed, schedules, jobs, jobsMade, calls, results, ledger, modelCount, answer, text,
                     unheard, missed>>
  BY DEF RetryIgnored
<1>1. GroundTypes'
  BY <1>0, GroundParts DEF GroundTypes
<1>2. Resumed'
  BY <1>0 DEF Resumed
<1>3. Retried' /\ DecidedIsFound' /\ Recorded' /\ LedgerSound'
  BY <1>0, GroundParts, SameResults DEF Retried, DecidedIsFound
<1> QED
  BY <1>0, <1>1, <1>2, <1>3, NotYet, GroundParts DEF GroundInv, GroundingInv

(* The end of a run: what the guards let pass is as it was done.                *)
LEMMA FinalizeStep ==
  ASSUME GroundInv, Finalize
  PROVE  GroundInv'
<1> DEFINE asks == /\ ~ StateGuardBlocks /\ ToolGuardBlocks
                   /\ "guard" \notin used /\ MayCallModel
           want == IF asks THEN ToolGuardNeeds ELSE required
           said == IF StateGuardBlocks THEN "state guard"
                   ELSE IF ToolGuardBlocks /\ ~ asks THEN "tool guard" ELSE "answer"
           over == want = Nothing \/ "final" \in used
<1>0. /\ doing = "judge" /\ (required = Nothing \/ "ignored" \in used)
      /\ used' = used \cup (IF asks THEN {"guard"} ELSE {}) \cup (IF over THEN {} ELSE {"final"})
      /\ exposed' = (IF over THEN exposed ELSE Nothing)
      /\ doing' = (IF over THEN "over" ELSE "model")
      /\ text' = (IF over THEN said ELSE text)
      /\ UNCHANGED <<resumed, schedules, jobs, jobsMade, calls, results, ledger, notFound, before, modelCount,
                     answer, missed>>
  BY DEF Finalize
<1>a. unheard' => asks /\ over
  BY DEF Finalize
<1>b. asks => want # Nothing
  <2> SUFFICES ASSUME asks PROVE ToolGuardNeeds # Nothing
    OBVIOUS
  <2>1. answer \in Replies
    BY <1>0, GroundParts DEF GroundTypes
  <2>2. RequiredTools(FirstOffending) \in SUBSET ClaimTools
    BY DEF RequiredTools, ClaimTools
  <2> QED
    BY <2>1, <2>2, GroundingAssumption DEF ToolGuardNeeds, GroundingAssumption
<1>c. asks => "guard" \notin used
  OBVIOUS
<1>d. ~ asks => want = required
  OBVIOUS
<1>e. over <=> want = Nothing \/ "final" \in used
  OBVIOUS
<1>f. /\ said = "answer" => ~ StateGuardBlocks /\ (ToolGuardBlocks => asks)
      /\ said = "tool guard" => ToolGuardBlocks
      /\ said \in {"state guard", "tool guard", "answer"}
  OBVIOUS
<1> HIDE DEF asks, want, said, over
<1>1. GroundTypes'
  BY <1>0, GroundParts DEF GroundTypes
<1>2. Resumed'
  BY <1>0 DEF Resumed
<1>3. DecidedIsFound' /\ Recorded' /\ LedgerSound'
  BY <1>0, GroundParts, SameResults DEF DecidedIsFound
<1>4. Retried'
  <2>1. CASE "final" \in used
    BY <1>0, <2>1, GroundParts DEF Retried
  <2>2. CASE asks
    BY <1>0, <2>2 DEF Retried
  <2>3. CASE "final" \notin used /\ ~ asks
    BY <1>0, <1>d, <1>e, <2>3 DEF Retried
  <2> QED
    BY <2>1, <2>2, <2>3
<1>5. unheard' => {"ignored", "final"} \subseteq used'
  <2> SUFFICES ASSUME unheard' PROVE {"ignored", "final"} \subseteq used'
    OBVIOUS
  <2>1. asks /\ over
    BY <1>a
  <2>2. "final" \in used /\ "guard" \notin used
    BY <1>b, <1>c, <1>e, <2>1
  <2>3. "ignored" \in used
    BY <2>2, GroundParts DEF Retried
  <2> QED
    BY <1>0, <2>2, <2>3
<1>6. CASE ~ over
  BY <1>0, <1>1, <1>2, <1>3, <1>4, <1>5, <1>6, NotYet DEF GroundInv, GroundingInv
<1>7. CASE over
  <2>0. doing' = "over" /\ text' = said /\ UNCHANGED <<answer, results, jobsMade, before>>
    BY <1>0, <1>7
  <2>a. /\ WorkedTools' = WorkedTools /\ RejectedTools' = RejectedTools
        /\ CalledTools' = CalledTools /\ notFound' = notFound
    BY <1>0, <2>0 DEF WorkedTools, RejectedTools, CalledTools
  <2>b. /\ WorkedTools \subseteq SuccessfulTools
        /\ SuccessfulTools \subseteq WorkedTools \cup RejectedTools \cup notFound
    <3>1. \A i \in 1..Len(results) : results[i].out \in Outputs
      <4>1. results \in Seq(GroundResults)
        BY GroundParts DEF GroundTypes
      <4>2. \A r \in GroundResults : r.out \in Outputs
        BY DEF GroundResults
      <4> QED
        BY <4>1, <4>2
    <3>2. \A i \in 1..Len(results) : results[i].error <=> results[i].out = "failed"
      BY GroundParts DEF Recorded
    <3>3. WorkedTools \subseteq SuccessfulTools
      BY <3>2 DEF WorkedTools, SuccessfulTools
    <3>4. \A j \in 1..Len(results) : ~ results[j].error =>
            results[j].out \in {"text", "empty"} \/ results[j].out = "rejected"
      BY <3>1, <3>2 DEF Outputs
    <3>5. SuccessfulTools \subseteq WorkedTools \cup RejectedTools \cup notFound
      BY <3>4 DEF WorkedTools, RejectedTools, SuccessfulTools
    <3> QED
      BY <3>3, <3>5
  <2>1. ClaimsAreTrue'
    <3> SUFFICES ASSUME said = "answer", ~ answer.safe, ~ unheard',
                        NEW c \in answer.claims \cap RequireSuccess
                 PROVE  RequiredTools(c) \cap (WorkedTools \cup RejectedTools \cup notFound) # {}
      BY <2>0, <2>a DEF ClaimsAreTrue, Delivered
    <3>1. ~ asks
      BY <1>7 DEF Finalize, asks, want, over
    <3>2. ~ ToolGuardBlocks
      BY <1>f, <3>1
    <3>3. Grounded(c)
      BY <3>2 DEF ToolGuardBlocks, Offending
    <3> QED
      BY <2>b, <3>3 DEF Grounded
  <2>2. IdsAreReal'
    <3> SUFFICES ASSUME said = "answer", answer.success \/ answer.presents
                 PROVE  answer.ids \subseteq jobsMade
      BY <2>0 DEF IdsAreReal, Delivered
    <3>1. answer.ids \subseteq jobs \cup CronIDs
      BY <1>f DEF StateGuardBlocks
    <3>2. CronIDs \subseteq jobsMade
      BY GroundParts DEF CronIDs, Recorded
    <3> QED
      BY <3>1, <3>2, GroundParts DEF GroundTypes
  <2>3. GuardsAreFair'
    <3> SUFFICES ASSUME said = "tool guard", answer.markup = {}
                 PROVE  \E c \in answer.claims :
                          RequiredTools(c) \cap (IF c \in RequireSuccess THEN WorkedTools ELSE CalledTools) = {}
      BY <1>5, <2>0, <2>a DEF GuardsAreFair
    <3>1. PICK c \in answer.claims : ~ Grounded(c)
      BY <1>f DEF ToolGuardBlocks, Offending
    <3> QED
      BY <2>b, <3>1 DEF Grounded
  <2> QED
    BY <1>1, <1>2, <1>3, <1>4, <2>1, <2>2, <2>3 DEF GroundInv, GroundingInv
<1> QED
  BY <1>6, <1>7

LEMMA GroundStep == GroundInv /\ [GroundingNext]_groundingVars => GroundInv'
<1> SUFFICES ASSUME GroundInv, [GroundingNext]_groundingVars PROVE GroundInv'
  OBVIOUS
<1>1. CASE UNCHANGED groundingVars
  <2>1. UNCHANGED <<WorkedTools, RejectedTools, CalledTools, notFound>>
    BY <1>1 DEF groundingVars, WorkedTools, RejectedTools, CalledTools
  <2>2. ClaimsAreTrue' /\ IdsAreReal' /\ GuardsAreFair'
    BY <1>1, <2>1
    DEF groundingVars, GroundInv, GroundingInv, ClaimsAreTrue, IdsAreReal, GuardsAreFair, Delivered
  <2>3. GroundTypes' /\ Resumed' /\ Retried' /\ DecidedIsFound'
    BY <1>1, GroundParts DEF groundingVars, GroundTypes, Resumed, Target, Retried, DecidedIsFound
  <2>4. Recorded' /\ LedgerSound'
    BY <1>1, SameResults DEF groundingVars
  <2> QED
    BY <2>2, <2>3, <2>4 DEF GroundInv, GroundingInv
<1> QED
  BY <1>1, AskToolsStep, AnswerFinallyStep, EndStep, EndCallStep, NotFoundStep, JobGoneStep, RetryStep, FinalizeStep
  DEF GroundingNext

(* Whatever the tools return and whichever way a run starts over: what an       *)
(* answer that is delivered says was done was done, the ids in it are of jobs    *)
(* there have been, and the ledger is sound, with the exceptions that the        *)
(* invariant names.                                                         *)
THEOREM AnswersAreGrounded == GroundingSpec => []GroundingInv
<1>1. GroundInv => GroundingInv
  BY DEF GroundInv
<1> QED
  BY <1>1, GroundFirst, GroundStep, PTL DEF GroundingSpec

-----------------------------------------------------------------------------
(* The Feishu channel.  The two parts of the state are proved apart: WindowInv  *)
(* speaks of the window, Consistent of the record of one turn.                 *)

WindowInv ==
  /\ processed \in Seq(Ids) /\ seen \subseteq Ids /\ accepted \in Seq(Ids)
  /\ WindowIsLast /\ NoEarlyRepeat

(* What AnswerShown says of one turn.                                        *)
Shows(r) ==
  /\ Answers(r) > 0 => r.answer \in {"answer", "error"}
  /\ ~ r.failed => Answers(r) <= 1
  /\ r.loop = "over" /\ ~ r.failed =>
       /\ ~ r.reaction
       /\ r.answer # "empty" /\ r.cancel = "no" =>
            Answers(r) = 1 /\ r.card \in {"none", "answer", "decided"}

(* What process knows of the chat, as long as no API call reported an error. *)
Knows(r) ==
  ~ r.failed =>
    /\ r.knowsCard <=> r.card # "none"
    /\ r.loop \in {"free", "waiting", "feedback"} => (r.knowsReaction <=> r.reaction)
    /\ r.loop \in {"patching", "sending"} => ~ r.reaction
    /\ r.loop = "sending" => ~ r.knowsCard

(* Where the turn stands, and what it has decided and given so far.          *)
Stands(r) ==
  /\ r.handler = "returned" => r.reply # "none"
  /\ r.loop \in {"free", "waiting", "feedback"} =>
       r.answer = "none" /\ r.texts = 0 /\ r.card \notin {"answer", "decided"}
  /\ r.loop = "patching" =>
       /\ r.answer \in {"answer", "error"} /\ r.texts = 0
       /\ r.card \notin {"answer", "decided"} /\ r.knowsCard
  /\ r.loop = "sending" => r.answer \in {"answer", "error"} /\ r.texts = 0
  /\ Answers(r) > 0 => r.answer \in {"answer", "error"}
  /\ r.cancel = "no" => r.card # "cancelling"
  /\ r.cancel # "no" => r.card # "none"

Consistent(r) == r \in TurnRecord /\ Shows(r) /\ Knows(r) /\ Stands(r)

-----------------------------------------------------------------------------
LEMMA NoTurnConsistent == Consistent(NoTurn) /\ Consistent(Started)
<1>1. NoTurn \in TurnRecord
  BY DEF NoTurn, TurnRecord
<1>2. Started \in TurnRecord
  BY <1>1 DEF Started, TurnRecord
<1>3. /\ Started.loop = "waiting" /\ Started.handler = "working" /\ Started.answer = "none"
      /\ Started.texts = 0 /\ Started.card = "none" /\ Started.cancel = "no"
      /\ ~ Started.knowsCard /\ ~ Started.knowsReaction /\ ~ Started.reaction
  BY DEF NoTurn, Started
<1>4. /\ NoTurn.loop = "free" /\ NoTurn.handler = "none" /\ NoTurn.answer = "none"
      /\ NoTurn.texts = 0 /\ NoTurn.card = "none" /\ NoTurn.cancel = "no"
      /\ ~ NoTurn.knowsCard /\ ~ NoTurn.knowsReaction /\ ~ NoTurn.reaction
  BY DEF NoTurn
<1>5. Consistent(NoTurn)
  BY <1>1, <1>4 DEF Consistent, Shows, Knows, Stands, Answers
<1> QED
  BY <1>2, <1>3, <1>5 DEF Consistent, Shows, Knows, Stands, Answers

(* A progress update is put into the queue.                                 *)
LEMMA ReportConsistent ==
  ASSUME NEW r, Consistent(r)
  PROVE  Consistent([r EXCEPT !.updates = @ + 1])
<1> DEFINE s == [r EXCEPT !.updates = @ + 1]
<1>1. s \in TurnRecord
  BY DEF Consistent, TurnRecord
<1>2. /\ s.loop = r.loop /\ s.handler = r.handler /\ s.reply = r.reply
      /\ s.answer = r.answer /\ s.knowsReaction = r.knowsReaction
      /\ s.knowsCard = r.knowsCard /\ s.reaction = r.reaction /\ s.card = r.card
      /\ s.texts = r.texts /\ s.cancel = r.cancel /\ s.failed = r.failed
  BY DEF Consistent, TurnRecord
<1> HIDE DEF s
<1>3. Consistent(s)
  BY <1>1, <1>2 DEF Consistent, TurnRecord, Shows, Knows, Stands, Answers
<1> QED
  BY <1>3 DEF s

(* A click asks for the run to be cancelled.                                *)
LEMMA CancelConsistent ==
  ASSUME NEW r, Consistent(r), r.card = "button"
  PROVE  Consistent([r EXCEPT !.cancel = "asked"])
<1> DEFINE s == [r EXCEPT !.cancel = "asked"]
<1>1. s \in TurnRecord
  BY DEF Consistent, TurnRecord
<1>2. /\ s.loop = r.loop /\ s.handler = r.handler /\ s.reply = r.reply
      /\ s.answer = r.answer /\ s.knowsReaction = r.knowsReaction
      /\ s.knowsCard = r.knowsCard /\ s.reaction = r.reaction /\ s.card = r.card
      /\ s.texts = r.texts /\ s.failed = r.failed /\ s.cancel = "asked"
  BY DEF Consistent, TurnRecord
<1> HIDE DEF s
<1>3. Consistent(s)
  BY <1>1, <1>2 DEF Consistent, TurnRecord, Shows, Knows, Stands, Answers
<1> QED
  BY <1>3 DEF s

(* The response of a click replaces the card.                               *)
LEMMA ResponseConsistent ==
  ASSUME NEW r, Consistent(r), r.cancel = "asked"
  PROVE  Consistent([r EXCEPT !.cancel = "shown", !.card = "cancelling"])
<1> DEFINE s == [r EXCEPT !.cancel = "shown", !.card = "cancelling"]
<1>1. s \in TurnRecord
  BY DEF Consistent, TurnRecord
<1>2. /\ s.loop = r.loop /\ s.handler = r.handler /\ s.reply = r.reply
      /\ s.answer = r.answer /\ s.knowsReaction = r.knowsReaction
      /\ s.knowsCard = r.knowsCard /\ s.reaction = r.reaction /\ s.texts = r.texts
      /\ s.failed = r.failed /\ s.cancel = "shown" /\ s.card = "cancelling"
  BY DEF Consistent, TurnRecord
<1> HIDE DEF s
<1>3. Consistent(s)
  BY <1>1, <1>2 DEF Consistent, TurnRecord, Shows, Knows, Stands, Answers
<1> QED
  BY <1>3 DEF s

(* The response of a decision replaces the answer.                          *)
LEMMA DecideConsistent ==
  ASSUME NEW r, Consistent(r), r.card = "answer"
  PROVE  Consistent([r EXCEPT !.card = "decided"])
<1> DEFINE s == [r EXCEPT !.card = "decided"]
<1>1. s \in TurnRecord
  BY DEF Consistent, TurnRecord
<1>2. /\ s.loop = r.loop /\ s.handler = r.handler /\ s.reply = r.reply
      /\ s.answer = r.answer /\ s.knowsReaction = r.knowsReaction
      /\ s.knowsCard = r.knowsCard /\ s.reaction = r.reaction /\ s.texts = r.texts
      /\ s.failed = r.failed /\ s.cancel = r.cancel /\ s.card = "decided"
  BY DEF Consistent, TurnRecord
<1> HIDE DEF s
<1>3. Answers(s) = Answers(r)
  BY <1>2 DEF Answers
<1>4. Consistent(s)
  BY <1>1, <1>2, <1>3 DEF Consistent, TurnRecord, Shows, Knows, Stands
<1> QED
  BY <1>4 DEF s

(* The handler returns.                                                     *)
LEMMA ReturnConsistent ==
  ASSUME NEW r, Consistent(r), NEW reply \in {"answer", "empty", "error"}
  PROVE  Consistent([r EXCEPT !.handler = "returned", !.reply = reply])
<1> DEFINE s == [r EXCEPT !.handler = "returned", !.reply = reply]
<1>1. s \in TurnRecord
  BY DEF Consistent, TurnRecord
<1>2. /\ s.loop = r.loop /\ s.answer = r.answer /\ s.knowsReaction = r.knowsReaction
      /\ s.knowsCard = r.knowsCard /\ s.reaction = r.reaction /\ s.card = r.card
      /\ s.texts = r.texts /\ s.cancel = r.cancel /\ s.failed = r.failed
      /\ s.handler = "returned" /\ s.reply = reply
  BY DEF Consistent, TurnRecord
<1> HIDE DEF s
<1>3. Consistent(s)
  BY <1>1, <1>2 DEF Consistent, TurnRecord, Shows, Knows, Stands, Answers
<1> QED
  BY <1>3 DEF s

(* The time of the turn is over.                                            *)
LEMMA ExpireConsistent ==
  ASSUME NEW r, Consistent(r)
  PROVE  Consistent([r EXCEPT !.expired = TRUE])
<1> DEFINE s == [r EXCEPT !.expired = TRUE]
<1>1. s \in TurnRecord
  BY DEF Consistent, TurnRecord
<1>2. /\ s.loop = r.loop /\ s.handler = r.handler /\ s.reply = r.reply
      /\ s.answer = r.answer /\ s.knowsReaction = r.knowsReaction
      /\ s.knowsCard = r.knowsCard /\ s.reaction = r.reaction /\ s.card = r.card
      /\ s.texts = r.texts /\ s.cancel = r.cancel /\ s.failed = r.failed
  BY DEF Consistent, TurnRecord
<1> HIDE DEF s
<1>3. Consistent(s)
  BY <1>1, <1>2 DEF Consistent, TurnRecord, Shows, Knows, Stands, Answers
<1> QED
  BY <1>3 DEF s

(* The process of a turn dies.                                              *)
LEMMA CrashConsistent ==
  ASSUME NEW r, Consistent(r)
  PROVE  Consistent([r EXCEPT !.loop = IF @ = "over" THEN @ ELSE "dead",
                              !.handler = IF @ = "working" THEN "none" ELSE @,
                              !.updates = 0])
<1> DEFINE s == [r EXCEPT !.loop = IF @ = "over" THEN @ ELSE "dead",
                              !.handler = IF @ = "working" THEN "none" ELSE @,
                              !.updates = 0]
<1>1. s \in TurnRecord
  BY DEF Consistent, TurnRecord
<1>2. /\ s.reply = r.reply /\ s.answer = r.answer /\ s.knowsReaction = r.knowsReaction
      /\ s.knowsCard = r.knowsCard /\ s.reaction = r.reaction /\ s.card = r.card
      /\ s.texts = r.texts /\ s.cancel = r.cancel /\ s.failed = r.failed
      /\ s.loop = (IF r.loop = "over" THEN "over" ELSE "dead")
      /\ s.handler = (IF r.handler = "working" THEN "none" ELSE r.handler)
  BY DEF Consistent, TurnRecord
<1> HIDE DEF s
<1>3. Consistent(s)
  BY <1>1, <1>2 DEF Consistent, TurnRecord, Shows, Knows, Stands, Answers
<1> QED
  BY <1>3 DEF s

-----------------------------------------------------------------------------
(* The outcome of an API call, as Counted writes it.                         *)
Charged(r, o) == [r EXCEPT !.failed = @ \/ o # "ok"]

LEMMA ChargedIs ==
  ASSUME NEW r \in TurnRecord, NEW o
  PROVE  /\ o = "ok" => Charged(r, o) = r
         /\ o # "ok" => Charged(r, o) = [r EXCEPT !.failed = TRUE]
<1>1. CASE o = "ok"
  BY <1>1 DEF Charged, TurnRecord
<1>2. CASE o # "ok"
  BY <1>2 DEF Charged, TurnRecord
<1> QED
  BY <1>1, <1>2

(* A call that reported an error excuses what the turn shows and knows.      *)
LEMMA ChargedConsistent ==
  ASSUME NEW r \in TurnRecord, NEW o, Stands(r), o = "ok" => Shows(r) /\ Knows(r)
  PROVE  Consistent(Charged(r, o))
<1>1. CASE o = "ok"
  BY <1>1, ChargedIs DEF Consistent
<1>2. CASE o # "ok"
  <2> DEFINE s == [r EXCEPT !.failed = TRUE]
  <2>1. s \in TurnRecord /\ s.failed
    BY DEF TurnRecord
  <2>2. Shows(s) /\ Knows(s) /\ Stands(s)
    BY DEF TurnRecord, Shows, Knows, Stands, Answers
  <2> QED
    BY <1>2, <2>1, <2>2, ChargedIs DEF Consistent
<1> QED
  BY <1>1, <1>2

(* An update is merged when there is no card ...                            *)
LEMMA UpdateConsistent ==
  ASSUME NEW r, Consistent(r), NEW o \in {"ok", "refused", "lost"}, r.loop = "waiting", r.updates > 0
  PROVE  Consistent(Charged([r EXCEPT !.updates = @ - 1, !.tracked = TRUE], o))
<1> DEFINE s == [r EXCEPT !.updates = @ - 1, !.tracked = TRUE]
<1>0. r.updates - 1 \in Nat
  BY DEF Consistent, TurnRecord
<1>1. s \in TurnRecord
  BY <1>0 DEF Consistent, TurnRecord
<1>2. /\ s.loop = r.loop /\ s.handler = r.handler /\ s.reply = r.reply
      /\ s.answer = r.answer /\ s.knowsReaction = r.knowsReaction
      /\ s.knowsCard = r.knowsCard /\ s.reaction = r.reaction /\ s.card = r.card
      /\ s.texts = r.texts /\ s.cancel = r.cancel /\ s.failed = r.failed
  BY DEF Consistent, TurnRecord
<1> HIDE DEF s
<1>3. Stands(s)
  BY <1>1, <1>2 DEF Consistent, TurnRecord, Shows, Knows, Stands, Answers, Applied
<1>4. o = "ok" => Shows(s) /\ Knows(s)
  BY <1>1, <1>2 DEF Consistent, TurnRecord, Shows, Knows, Stands, Answers, Applied
<1>5. Consistent(Charged(s, o))
  BY <1>1, <1>3, <1>4, ChargedConsistent
<1> QED
  BY <1>5 DEF s

(* ... and shown on the card when there is one.                             *)
LEMMA UpdateCardConsistent ==
  ASSUME NEW r, Consistent(r), NEW o \in {"ok", "refused", "lost"}, r.loop = "waiting", r.updates > 0, r.knowsCard
  PROVE  Consistent(Charged([r EXCEPT !.updates = @ - 1, !.tracked = TRUE, !.card = IF Applied(o) THEN "button" ELSE @], o))
<1> DEFINE s == [r EXCEPT !.updates = @ - 1, !.tracked = TRUE, !.card = IF Applied(o) THEN "button" ELSE @]
<1>0. /\ r.updates - 1 \in Nat
      /\ (IF Applied(o) THEN "button" ELSE r.card)
           \in {"none", "progress", "button", "cancelling", "answer", "decided"}
  BY DEF Consistent, TurnRecord
<1>1. s \in TurnRecord
  BY <1>0 DEF Consistent, TurnRecord
<1>2. /\ s.loop = r.loop /\ s.handler = r.handler /\ s.reply = r.reply
      /\ s.answer = r.answer /\ s.knowsReaction = r.knowsReaction
      /\ s.knowsCard = r.knowsCard /\ s.reaction = r.reaction /\ s.texts = r.texts
      /\ s.cancel = r.cancel /\ s.failed = r.failed
      /\ s.card = (IF Applied(o) THEN "button" ELSE r.card)
  BY DEF Consistent, TurnRecord
<1> HIDE DEF s
<1>3. Stands(s)
  BY <1>1, <1>2 DEF Consistent, TurnRecord, Shows, Knows, Stands, Answers, Applied
<1>4. o = "ok" => Shows(s) /\ Knows(s)
  BY <1>1, <1>2 DEF Consistent, TurnRecord, Shows, Knows, Stands, Answers, Applied
<1>5. Consistent(Charged(s, o))
  BY <1>1, <1>3, <1>4, ChargedConsistent
<1> QED
  BY <1>5 DEF s

(* The reaction is added.                                                   *)
LEMMA ReactionConsistent ==
  ASSUME NEW r, Consistent(r), NEW o \in {"ok", "refused", "lost"}, r.loop = "waiting", r.timer
  PROVE  Consistent(Charged([r EXCEPT !.loop = "feedback", !.timer = FALSE,
                              !.reaction = Applied(o), !.knowsReaction = (o = "ok")], o))
<1> DEFINE s == [r EXCEPT !.loop = "feedback", !.timer = FALSE,
                              !.reaction = Applied(o), !.knowsReaction = (o = "ok")]
<1>0. Applied(o) \in BOOLEAN /\ (o = "ok") \in BOOLEAN
  BY DEF Applied
<1>1. s \in TurnRecord
  BY <1>0 DEF Consistent, TurnRecord
<1>2. /\ s.handler = r.handler /\ s.reply = r.reply /\ s.answer = r.answer
      /\ s.knowsCard = r.knowsCard /\ s.card = r.card /\ s.texts = r.texts
      /\ s.cancel = r.cancel /\ s.failed = r.failed /\ s.loop = "feedback"
      /\ s.reaction = Applied(o) /\ s.knowsReaction = (o = "ok")
  BY DEF Consistent, TurnRecord
<1> HIDE DEF s
<1>3. Stands(s)
  BY <1>1, <1>2 DEF Consistent, TurnRecord, Shows, Knows, Stands, Answers, Applied
<1>4. o = "ok" => Shows(s) /\ Knows(s)
  BY <1>1, <1>2 DEF Consistent, TurnRecord, Shows, Knows, Stands, Answers, Applied
<1>5. Consistent(Charged(s, o))
  BY <1>1, <1>3, <1>4, ChargedConsistent
<1> QED
  BY <1>5 DEF s

(* The progress card is sent.                                               *)
LEMMA CardConsistent ==
  ASSUME NEW r, Consistent(r), NEW o \in {"ok", "refused", "lost"}, r.loop = "feedback"
  PROVE  Consistent(Charged([r EXCEPT !.loop = "waiting", !.knowsCard = (o = "ok"),
                              !.card = IF Applied(o) THEN Progress(r) ELSE @], o))
<1> DEFINE s == [r EXCEPT !.loop = "waiting", !.knowsCard = (o = "ok"),
                              !.card = IF Applied(o) THEN Progress(r) ELSE @]
<1>0. (o = "ok") \in BOOLEAN /\ (IF Applied(o) THEN Progress(r) ELSE r.card)
           \in {"none", "progress", "button", "cancelling", "answer", "decided"}
  BY DEF Consistent, TurnRecord, Progress
<1>a. \A shows \in BOOLEAN, shown \in {"none", "progress", "button", "cancelling", "answer", "decided"} :
        [r EXCEPT !.loop = "waiting", !.knowsCard = shows, !.card = shown] \in TurnRecord
  BY DEF Consistent, TurnRecord
<1>1. s \in TurnRecord
  BY <1>0, <1>a
<1>2. /\ s.handler = r.handler /\ s.reply = r.reply /\ s.answer = r.answer
      /\ s.knowsReaction = r.knowsReaction /\ s.reaction = r.reaction
      /\ s.texts = r.texts /\ s.cancel = r.cancel /\ s.failed = r.failed
      /\ s.loop = "waiting" /\ s.knowsCard = (o = "ok")
      /\ s.card = (IF Applied(o) THEN Progress(r) ELSE r.card)
  BY DEF Consistent, TurnRecord
<1> HIDE DEF s
<1>3. Stands(s)
  BY <1>1, <1>2 DEF Consistent, TurnRecord, Shows, Knows, Stands, Answers, Applied, Progress
<1>4. o = "ok" => Shows(s) /\ Knows(s)
  BY <1>1, <1>2 DEF Consistent, TurnRecord, Shows, Knows, Stands, Answers, Applied, Progress
<1>5. Consistent(Charged(s, o))
  BY <1>1, <1>3, <1>4, ChargedConsistent
<1> QED
  BY <1>5 DEF s

(* The answer replaces the card.                                            *)
LEMMA PatchConsistent ==
  ASSUME NEW r, Consistent(r), NEW o \in {"ok", "refused", "lost"}, r.loop = "patching"
  PROVE  Consistent(Charged([r EXCEPT !.loop = IF o = "ok" THEN "over" ELSE "sending",
                              !.card = IF Applied(o) THEN "answer" ELSE @], o))
<1> DEFINE s == [r EXCEPT !.loop = IF o = "ok" THEN "over" ELSE "sending",
                              !.card = IF Applied(o) THEN "answer" ELSE @]
<1>0. (IF Applied(o) THEN "answer" ELSE r.card)
           \in {"none", "progress", "button", "cancelling", "answer", "decided"}
  BY DEF Consistent, TurnRecord
<1>1. s \in TurnRecord
  BY <1>0 DEF Consistent, TurnRecord
<1>2. /\ s.handler = r.handler /\ s.reply = r.reply /\ s.answer = r.answer
      /\ s.knowsReaction = r.knowsReaction /\ s.knowsCard = r.knowsCard
      /\ s.reaction = r.reaction /\ s.texts = r.texts /\ s.cancel = r.cancel
      /\ s.failed = r.failed /\ s.loop = (IF o = "ok" THEN "over" ELSE "sending")
      /\ s.card = (IF Applied(o) THEN "answer" ELSE r.card)
  BY DEF Consistent, TurnRecord
<1> HIDE DEF s
<1>3. Stands(s)
  BY <1>1, <1>2 DEF Consistent, TurnRecord, Shows, Knows, Stands, Answers, Applied
<1>4. o = "ok" => Shows(s) /\ Knows(s)
  BY <1>1, <1>2 DEF Consistent, TurnRecord, Shows, Knows, Stands, Answers, Applied
<1>5. Consistent(Charged(s, o))
  BY <1>1, <1>3, <1>4, ChargedConsistent
<1> QED
  BY <1>5 DEF s

(* The answer is sent as a message.                                         *)
LEMMA SendConsistent ==
  ASSUME NEW r, Consistent(r), NEW o \in {"ok", "refused", "lost"}, r.loop = "sending"
  PROVE  Consistent(Charged([r EXCEPT !.loop = "over", !.texts = @ + (IF Applied(o) THEN 1 ELSE 0)], o))
<1> DEFINE s == [r EXCEPT !.loop = "over", !.texts = @ + (IF Applied(o) THEN 1 ELSE 0)]
<1>0. r.texts + (IF Applied(o) THEN 1 ELSE 0) \in Nat
  BY DEF Consistent, TurnRecord
<1>1. s \in TurnRecord
  BY <1>0 DEF Consistent, TurnRecord
<1>2. /\ s.handler = r.handler /\ s.reply = r.reply /\ s.answer = r.answer
      /\ s.knowsReaction = r.knowsReaction /\ s.knowsCard = r.knowsCard
      /\ s.reaction = r.reaction /\ s.card = r.card /\ s.cancel = r.cancel
      /\ s.failed = r.failed /\ s.loop = "over"
      /\ s.texts = r.texts + (IF Applied(o) THEN 1 ELSE 0)
  BY DEF Consistent, TurnRecord
<1> HIDE DEF s
<1>3. Stands(s)
  BY <1>1, <1>2 DEF Consistent, TurnRecord, Shows, Knows, Stands, Answers, Applied
<1>4. o = "ok" => Shows(s) /\ Knows(s)
  BY <1>1, <1>2 DEF Consistent, TurnRecord, Shows, Knows, Stands, Answers, Applied
<1>5. Consistent(Charged(s, o))
  BY <1>1, <1>3, <1>4, ChargedConsistent
<1> QED
  BY <1>5 DEF s

(* The answer is decided, and the reaction goes if it is known.              *)
Decided(r, said) ==
  [r EXCEPT !.loop = IF said = "empty" THEN "over"
                     ELSE IF r.knowsCard THEN "patching" ELSE "sending",
            !.answer = said, !.timer = FALSE]

LEMMA DecidedIs ==
  ASSUME NEW r, Consistent(r), r.loop = "waiting", NEW said \in {"answer", "empty", "error"}
  PROVE  LET s == Decided(r, said) IN
         /\ s \in TurnRecord /\ Stands(s)
         /\ s.failed = r.failed /\ s.knowsCard = r.knowsCard /\ s.card = r.card
         /\ s.texts = r.texts /\ s.cancel = r.cancel /\ s.reaction = r.reaction
         /\ s.answer = said
         /\ s.loop = (IF said = "empty" THEN "over"
                      ELSE IF r.knowsCard THEN "patching" ELSE "sending")
<1> DEFINE s == Decided(r, said)
<1>1. s \in TurnRecord
  BY DEF Consistent, TurnRecord, Decided
<1>2. /\ s.handler = r.handler /\ s.reply = r.reply
      /\ s.knowsReaction = r.knowsReaction
      /\ s.failed = r.failed /\ s.knowsCard = r.knowsCard /\ s.card = r.card
      /\ s.texts = r.texts /\ s.cancel = r.cancel /\ s.reaction = r.reaction
      /\ s.answer = said
      /\ s.loop = (IF said = "empty" THEN "over"
                   ELSE IF r.knowsCard THEN "patching" ELSE "sending")
  BY DEF Consistent, TurnRecord, Decided
<1> HIDE DEF s
<1>3. Stands(s)
  BY <1>1, <1>2 DEF Consistent, TurnRecord, Stands, Answers
<1> QED
  BY <1>1, <1>2, <1>3 DEF s

LEMMA AnswerConsistent ==
  ASSUME NEW r, Consistent(r), r.loop = "waiting", NEW said \in {"answer", "empty", "error"},
         NEW o \in {"ok", "refused", "lost"}
  PROVE  /\ Consistent(Charged([Decided(r, said) EXCEPT !.reaction = ~ Applied(o)], o))
         /\ ~ r.knowsReaction => Consistent(Charged(Decided(r, said), "ok"))
<1> DEFINE s == Decided(r, said)
<1>1. /\ s \in TurnRecord /\ Stands(s)
      /\ s.failed = r.failed /\ s.knowsCard = r.knowsCard /\ s.card = r.card
      /\ s.texts = r.texts /\ s.cancel = r.cancel /\ s.reaction = r.reaction
      /\ s.answer = said
      /\ s.loop = (IF said = "empty" THEN "over"
                   ELSE IF r.knowsCard THEN "patching" ELSE "sending")
  BY DecidedIs
<1> HIDE DEF s
<1>2. ASSUME ~ r.knowsReaction PROVE Consistent(Charged(s, "ok"))
  <2>1. Shows(s) /\ Knows(s)
    BY <1>1, <1>2 DEF Consistent, TurnRecord, Shows, Knows, Stands, Answers
  <2> QED
    BY <1>1, <2>1, ChargedConsistent
<1>3. Consistent(Charged([s EXCEPT !.reaction = ~ Applied(o)], o))
  <2> DEFINE u == [s EXCEPT !.reaction = ~ Applied(o)]
  <2>1. \A b \in BOOLEAN : [s EXCEPT !.reaction = b] \in TurnRecord
    BY <1>1 DEF TurnRecord
  <2>2. u \in TurnRecord
    BY <2>1
  <2>3. /\ u.loop = s.loop /\ u.handler = s.handler /\ u.reply = s.reply
        /\ u.answer = s.answer /\ u.knowsReaction = s.knowsReaction
        /\ u.knowsCard = s.knowsCard /\ u.card = s.card /\ u.texts = s.texts
        /\ u.cancel = s.cancel /\ u.failed = s.failed /\ u.reaction = (~ Applied(o))
    BY <1>1 DEF TurnRecord
  <2> HIDE DEF u
  <2>4. Stands(u)
    BY <1>1, <2>2, <2>3 DEF TurnRecord, Stands, Answers
  <2>5. o = "ok" => ~ u.reaction
    BY <2>3 DEF Applied
  <2>6. o = "ok" => Shows(u) /\ Knows(u)
    BY <1>1, <2>2, <2>3, <2>5 DEF Consistent, TurnRecord, Shows, Knows, Stands, Answers
  <2>7. Consistent(Charged(u, o))
    BY <2>2, <2>4, <2>6, ChargedConsistent
  <2> QED
    BY <2>7 DEF u
<1> QED
  BY <1>2, <1>3 DEF s

-----------------------------------------------------------------------------
(* The turns.                                                              *)
TurnInv ==
  /\ turn \in [Turns -> TurnRecord]
  /\ \A t \in Turns : Consistent(turn[t])
  /\ channelFaults \in Nat /\ channelCrashes \in Nat

(* One turn changes, the others stay.                                       *)
LEMMA OneTurnChanges ==
  ASSUME TurnInv, NEW t \in Turns, NEW r, Consistent(r), turn' = [turn EXCEPT ![t] = r],
         channelFaults' \in Nat, channelCrashes' \in Nat
  PROVE  TurnInv'
<1>1. r \in TurnRecord
  BY DEF Consistent
<1>2. turn' \in [Turns -> TurnRecord]
  BY <1>1 DEF TurnInv
<1>3. ASSUME NEW u \in Turns PROVE Consistent(turn'[u])
  BY DEF TurnInv
<1> QED
  BY <1>2, <1>3 DEF TurnInv

LEMMA CountedKeeps ==
  ASSUME TurnInv, NEW t \in Turns, NEW o \in {"ok", "refused", "lost"}, NEW r,
         Consistent(Charged(r, o)), Counted(t, o, r)
  PROVE  TurnInv'
<1>1. turn' = [turn EXCEPT ![t] = Charged(r, o)]
  BY DEF Counted, Charged
<1>2. channelFaults' \in Nat /\ channelCrashes' \in Nat
  BY DEF Counted, TurnInv, channelVars
<1> QED
  BY <1>1, <1>2, OneTurnChanges

LEMMA InitTurns == ChannelInit => TurnInv
BY NoTurnConsistent DEF ChannelInit, TurnInv, Consistent

LEMMA GiveAnswerKeeps ==
  ASSUME TurnInv, NEW t \in Turns, turn[t].loop = "waiting",
         NEW said \in {"answer", "empty", "error"}, GiveAnswer(t, said)
  PROVE  TurnInv'
<1>1. Consistent(turn[t])
  BY DEF TurnInv
<1>2. CASE turn[t].knowsReaction
  <2>1. PICK o \in Outcomes :
          Counted(t, o, [Decided(turn[t], said) EXCEPT !.reaction = ~ Applied(o)])
    BY <1>2 DEF GiveAnswer, Decided
  <2>2. o \in {"ok", "refused", "lost"}
    BY DEF Outcomes
  <2>3. Consistent(Charged([Decided(turn[t], said) EXCEPT !.reaction = ~ Applied(o)], o))
    BY <1>1, <2>2, AnswerConsistent
  <2> QED
    BY <2>1, <2>2, <2>3, CountedKeeps
<1>3. CASE ~ turn[t].knowsReaction
  <2>1. Counted(t, "ok", Decided(turn[t], said))
    BY <1>3 DEF GiveAnswer, Decided
  <2>2. Consistent(Charged(Decided(turn[t], said), "ok"))
    BY <1>1, <1>3, AnswerConsistent
  <2> QED
    BY <2>1, <2>2, CountedKeeps
<1> QED
  BY <1>2, <1>3

(* What the window does leaves the turns alone.                             *)
LEMMA SameTurns ==
  ASSUME TurnInv, UNCHANGED turn, channelFaults' \in Nat, channelCrashes' \in Nat PROVE TurnInv'
BY DEF TurnInv

(* Every step of the channel keeps the turns consistent.                    *)
LEMMA TurnStep == TurnInv /\ [ChannelNext]_channelVars => TurnInv'
<1> SUFFICES ASSUME TurnInv, [ChannelNext]_channelVars PROVE TurnInv'
  OBVIOUS
<1>1. ASSUME NEW m \in Messages, NEW t \in Turns, Deliver(m, t) PROVE TurnInv'
  <2>1. turn' = [turn EXCEPT ![t] = Started] /\ UNCHANGED <<channelFaults, channelCrashes>>
    BY <1>1 DEF Deliver
  <2> QED
    BY <2>1, NoTurnConsistent, OneTurnChanges DEF TurnInv
<1>2. ASSUME NEW c \in Clicks, ClickElsewhere(c) PROVE TurnInv'
  BY <1>2, SameTurns DEF ClickElsewhere, TurnInv
<1>3. ASSUME NEW c \in Clicks, NEW t \in Turns, ClickCancel(c, t) PROVE TurnInv'
  <2>1. Consistent(turn[t]) /\ turn[t].card = "button"
    BY <1>3 DEF TurnInv, ClickCancel
  <2>2. channelFaults' \in Nat /\ channelCrashes' \in Nat
    BY <1>3 DEF ClickCancel, TurnInv
  <2>3. CASE turn[t].handler = "working"
    <3>1. turn' = [turn EXCEPT ![t] = [turn[t] EXCEPT !.cancel = "asked"]]
      BY <1>3, <2>3 DEF ClickCancel, TurnInv
    <3> QED
      BY <2>1, <2>2, <3>1, CancelConsistent, OneTurnChanges
  <2>4. CASE turn[t].handler # "working"
    BY <1>3, <2>2, <2>4, SameTurns DEF ClickCancel
  <2> QED
    BY <2>3, <2>4
<1>4. ASSUME NEW t \in Turns, ShowResponse(t) PROVE TurnInv'
  <2>1. Consistent(turn[t])
    BY DEF TurnInv
  <2>2. turn' = [turn EXCEPT ![t] = [turn[t] EXCEPT !.cancel = "shown", !.card = "cancelling"]]
    BY <1>4 DEF ShowResponse, TurnInv
  <2>3. Consistent([turn[t] EXCEPT !.cancel = "shown", !.card = "cancelling"])
    BY <1>4, <2>1, ResponseConsistent DEF ShowResponse
  <2>4. channelFaults' \in Nat /\ channelCrashes' \in Nat
    BY <1>4 DEF ShowResponse, TurnInv
  <2> QED
    BY <2>2, <2>3, <2>4, OneTurnChanges
<1>5. ASSUME NEW t \in Turns, Report(t) PROVE TurnInv'
  <2>1. Consistent(turn[t])
    BY DEF TurnInv
  <2>2. turn' = [turn EXCEPT ![t] = [turn[t] EXCEPT !.updates = @ + 1]]
    BY <1>5 DEF Report, TurnInv
  <2>3. Consistent([turn[t] EXCEPT !.updates = @ + 1])
    BY <1>5, <2>1, ReportConsistent DEF Report
  <2>4. channelFaults' \in Nat /\ channelCrashes' \in Nat
    BY <1>5 DEF Report, TurnInv
  <2> QED
    BY <2>2, <2>3, <2>4, OneTurnChanges
<1>6. ASSUME NEW t \in Turns, NEW reply \in {"answer", "empty", "error"}, Return(t, reply) PROVE TurnInv'
  <2>1. Consistent(turn[t])
    BY DEF TurnInv
  <2>2. turn' = [turn EXCEPT ![t] = [turn[t] EXCEPT !.handler = "returned", !.reply = reply]]
    BY <1>6 DEF Return, TurnInv
  <2>3. Consistent([turn[t] EXCEPT !.handler = "returned", !.reply = reply])
    BY <1>6, <2>1, ReturnConsistent DEF Return
  <2>4. channelFaults' \in Nat /\ channelCrashes' \in Nat
    BY <1>6 DEF Return, TurnInv
  <2> QED
    BY <2>2, <2>3, <2>4, OneTurnChanges
<1>7. ASSUME NEW t \in Turns, Expire(t) PROVE TurnInv'
  <2>1. Consistent(turn[t])
    BY DEF TurnInv
  <2>2. turn' = [turn EXCEPT ![t] = [turn[t] EXCEPT !.expired = TRUE]]
    BY <1>7 DEF Expire, TurnInv
  <2>3. Consistent([turn[t] EXCEPT !.expired = TRUE])
    BY <1>7, <2>1, ExpireConsistent DEF Expire
  <2>4. channelFaults' \in Nat /\ channelCrashes' \in Nat
    BY <1>7 DEF Expire, TurnInv
  <2> QED
    BY <2>2, <2>3, <2>4, OneTurnChanges
<1>8. ASSUME NEW t \in Turns, TakeUpdate(t) PROVE TurnInv'
  <2> DEFINE r == turn[t]
             merged == [r EXCEPT !.updates = @ - 1, !.tracked = TRUE]
             shown(o) == [r EXCEPT !.updates = @ - 1, !.tracked = TRUE,
                                   !.card = IF Applied(o) THEN "button" ELSE @]
  <2>1. Consistent(r) /\ r.loop = "waiting" /\ r.updates > 0
    BY <1>8 DEF TurnInv, TakeUpdate
  <2>2. CASE r.knowsCard
    <3>0. merged.knowsCard
      BY <2>1, <2>2 DEF Consistent, TurnRecord
    <3>1. PICK o \in Outcomes :
            Counted(t, o, [merged EXCEPT !.card = IF Applied(o) THEN "button" ELSE @])
      BY <1>8, <3>0 DEF TakeUpdate
    <3>2. o \in {"ok", "refused", "lost"}
      BY DEF Outcomes
    <3>3. [merged EXCEPT !.card = IF Applied(o) THEN "button" ELSE @] = shown(o)
      BY <2>1 DEF Consistent, TurnRecord
    <3>4. Consistent(Charged(shown(o), o))
      BY <2>1, <2>2, <3>2, UpdateCardConsistent
    <3> HIDE DEF shown, merged
    <3> QED
      BY <3>1, <3>2, <3>3, <3>4, CountedKeeps
  <2>3. CASE ~ r.knowsCard
    <3>0. ~ merged.knowsCard
      BY <2>1, <2>3 DEF Consistent, TurnRecord
    <3>1. Counted(t, "ok", merged)
      BY <1>8, <3>0 DEF TakeUpdate
    <3>2. Consistent(Charged(merged, "ok"))
      BY <2>1, UpdateConsistent
    <3> QED
      BY <3>1, <3>2, CountedKeeps
  <2> QED
    BY <2>2, <2>3
<1>9. ASSUME NEW t \in Turns, AddReaction(t) PROVE TurnInv'
  <2>1. Consistent(turn[t])
    BY DEF TurnInv
  <2>2. PICK o \in Outcomes : Counted(t, o, [turn[t] EXCEPT !.loop = "feedback", !.timer = FALSE,
                                  !.reaction = Applied(o), !.knowsReaction = (o = "ok")])
    BY <1>9 DEF AddReaction
  <2>3. o \in {"ok", "refused", "lost"}
    BY DEF Outcomes
  <2>4. Consistent(Charged([turn[t] EXCEPT !.loop = "feedback", !.timer = FALSE,
                                  !.reaction = Applied(o), !.knowsReaction = (o = "ok")], o))
    BY <1>9, <2>1, <2>3, ReactionConsistent DEF AddReaction
  <2> QED
    BY <2>2, <2>3, <2>4, CountedKeeps
<1>10. ASSUME NEW t \in Turns, SendCard(t) PROVE TurnInv'
  <2>1. Consistent(turn[t])
    BY DEF TurnInv
  <2>2. PICK o \in Outcomes : Counted(t, o, [turn[t] EXCEPT !.loop = "waiting", !.knowsCard = (o = "ok"),
                                  !.card = IF Applied(o) THEN Progress(turn[t]) ELSE @])
    BY <1>10 DEF SendCard
  <2>3. o \in {"ok", "refused", "lost"}
    BY DEF Outcomes
  <2>4. Consistent(Charged([turn[t] EXCEPT !.loop = "waiting", !.knowsCard = (o = "ok"),
                                  !.card = IF Applied(o) THEN Progress(turn[t]) ELSE @], o))
    BY <1>10, <2>1, <2>3, CardConsistent DEF SendCard
  <2> QED
    BY <2>2, <2>3, <2>4, CountedKeeps
<1>11. ASSUME NEW t \in Turns, PatchAnswer(t) PROVE TurnInv'
  <2>1. Consistent(turn[t])
    BY DEF TurnInv
  <2>2. PICK o \in Outcomes : Counted(t, o, [turn[t] EXCEPT !.loop = IF o = "ok" THEN "over" ELSE "sending",
                                  !.card = IF Applied(o) THEN "answer" ELSE @])
    BY <1>11 DEF PatchAnswer
  <2>3. o \in {"ok", "refused", "lost"}
    BY DEF Outcomes
  <2>4. Consistent(Charged([turn[t] EXCEPT !.loop = IF o = "ok" THEN "over" ELSE "sending",
                                  !.card = IF Applied(o) THEN "answer" ELSE @], o))
    BY <1>11, <2>1, <2>3, PatchConsistent DEF PatchAnswer
  <2> QED
    BY <2>2, <2>3, <2>4, CountedKeeps
<1>12. ASSUME NEW t \in Turns, SendAnswer(t) PROVE TurnInv'
  <2>1. Consistent(turn[t])
    BY DEF TurnInv
  <2>2. PICK o \in Outcomes : Counted(t, o, [turn[t] EXCEPT !.loop = "over",
                                  !.texts = @ + (IF Applied(o) THEN 1 ELSE 0)])
    BY <1>12 DEF SendAnswer
  <2>3. o \in {"ok", "refused", "lost"}
    BY DEF Outcomes
  <2>4. Consistent(Charged([turn[t] EXCEPT !.loop = "over",
                                  !.texts = @ + (IF Applied(o) THEN 1 ELSE 0)], o))
    BY <1>12, <2>1, <2>3, SendConsistent DEF SendAnswer
  <2> QED
    BY <2>2, <2>3, <2>4, CountedKeeps
<1>13. ASSUME NEW t \in Turns, TakeResult(t) PROVE TurnInv'
  <2>1. Consistent(turn[t]) /\ turn[t].loop = "waiting" /\ turn[t].handler = "returned"
    BY <1>13 DEF TurnInv, TakeResult
  <2>2. turn[t].reply \in {"answer", "empty", "error"}
    BY <2>1 DEF Consistent, TurnRecord, Stands
  <2> QED
    BY <1>13, <2>1, <2>2, GiveAnswerKeeps DEF TakeResult
<1>14. ASSUME NEW t \in Turns, TakeTimeout(t) PROVE TurnInv'
  BY <1>14, GiveAnswerKeeps DEF TakeTimeout
<1>15. CASE ChannelCrash
  <2> DEFINE dead(r) == [r EXCEPT !.loop = IF @ = "over" THEN @ ELSE "dead",
                                  !.handler = IF @ = "working" THEN "none" ELSE @,
                                  !.updates = 0]
  <2>1. turn' = [t \in Turns |-> IF turn[t].loop = "free" THEN turn[t] ELSE dead(turn[t])]
    BY <1>15 DEF ChannelCrash
  <2>2. ASSUME NEW t \in Turns PROVE Consistent(turn[t]) /\ Consistent(dead(turn[t]))
    BY CrashConsistent DEF TurnInv
  <2> HIDE DEF dead
  <2>3. ASSUME NEW t \in Turns PROVE Consistent(turn'[t])
    BY <2>1, <2>2
  <2>4. turn' \in [Turns -> TurnRecord]
    BY <2>1, <2>2 DEF Consistent
  <2>a. channelFaults \in Nat /\ channelCrashes \in Nat
    BY DEF TurnInv
  <2>b. channelFaults' = channelFaults /\ channelCrashes' = channelCrashes + 1
    BY <1>15 DEF ChannelCrash
  <2>5. channelFaults' \in Nat /\ channelCrashes' \in Nat
    BY <2>a, <2>b
  <2> QED
    BY <2>3, <2>4, <2>5 DEF TurnInv
<1>16. CASE UNCHANGED channelVars
  BY <1>16, SameTurns DEF channelVars, TurnInv
<1>17. ASSUME NEW c \in Clicks, NEW t \in Turns, ClickDecide(c, t) PROVE TurnInv'
  <2>1. Consistent(turn[t]) /\ turn[t].card = "answer"
    BY <1>17 DEF TurnInv, ClickDecide
  <2>2. turn' = [turn EXCEPT ![t] = [turn[t] EXCEPT !.card = "decided"]]
    BY <1>17 DEF ClickDecide, TurnInv
  <2>3. Consistent([turn[t] EXCEPT !.card = "decided"])
    BY <2>1, DecideConsistent
  <2>4. channelFaults' \in Nat /\ channelCrashes' \in Nat
    BY <1>17 DEF ClickDecide, TurnInv
  <2> QED
    BY <2>2, <2>3, <2>4, OneTurnChanges
<1> QED
  BY <1>1, <1>2, <1>3, <1>4, <1>5, <1>6, <1>7, <1>8, <1>9, <1>10, <1>11, <1>12, <1>13, <1>14,
     <1>15, <1>16, <1>17 DEF ChannelNext, LoopStep

(* A turn that is over has given its answer once and left nothing else in the *)
(* chat, unless a call of the API reported an error (finishProcessingFeedback). *)
THEOREM AnswersShown == ChannelSpec => []AnswerShown
<1>1. ChannelInit => TurnInv
  BY InitTurns
<1>2. TurnInv /\ [ChannelNext]_channelVars => TurnInv'
  BY TurnStep
<1>3. TurnInv => AnswerShown
  BY DEF TurnInv, Consistent, Shows, AnswerShown
<1> QED
  BY <1>1, <1>2, <1>3, PTL DEF ChannelSpec

-----------------------------------------------------------------------------
(* The window.                                                             *)

LEMMA InitWindow == ChannelInit => WindowInv
<1> SUFFICES ASSUME ChannelInit PROVE WindowInv
  OBVIOUS
<1>1. Len(processed) = 0 /\ Len(accepted) = 0 /\ seen = {}
  BY DEF ChannelInit
<1> QED
  BY <1>1, ChannelAssumption DEF ChannelInit, WindowInv, WindowIsLast, NoEarlyRepeat

(* No id is twice in the window.                                            *)
LEMMA WindowOnce ==
  ASSUME WindowInv, NEW i \in 1..Len(processed), NEW j \in 1..Len(processed),
         processed[i] = processed[j]
  PROVE  i = j
<1> DEFINE left == Len(accepted) - Len(processed)
<1>1. /\ Len(processed) \in Nat /\ Len(accepted) \in Nat /\ Window \in Nat
      /\ Len(processed) <= Len(accepted) /\ Len(processed) <= Window
  BY ChannelAssumption DEF WindowInv, WindowIsLast
<1>2. left + i \in 1..Len(accepted) /\ left + j \in 1..Len(accepted)
  BY <1>1
<1>3. accepted[left + i] = accepted[left + j]
  BY DEF WindowInv, WindowIsLast
<1>4. ~ (left + i < left + j) /\ ~ (left + j < left + i)
  BY <1>1, <1>2, <1>3 DEF WindowInv, NoEarlyRepeat
<1> QED
  BY <1>1, <1>4

(* An id that is marked as processed is the newest of the window.            *)
LEMMA MarkKeepsWindow ==
  ASSUME WindowInv, NEW id \in Ids, MarkProcessed(id) PROVE WindowInv'
<1> DEFINE ids == Append(processed, id)
           n   == Len(processed)
           m   == Len(accepted)
<1>1. /\ n \in Nat /\ m \in Nat /\ Window \in Nat \ {0} /\ n <= m /\ n <= Window
      /\ n = (IF m < Window THEN m ELSE Window)
  BY ChannelAssumption DEF WindowInv, WindowIsLast
<1>2. /\ accepted' = Append(accepted, id) /\ accepted' \in Seq(Ids) /\ Len(accepted') = m + 1
      /\ accepted'[m + 1] = id /\ \A i \in 1..m : accepted'[i] = accepted[i]
  BY <1>1 DEF MarkProcessed, WindowInv
<1>3. /\ ids \in Seq(Ids) /\ Len(ids) = n + 1 /\ ids[n + 1] = id
      /\ \A i \in 1..n : ids[i] = processed[i]
  BY <1>1 DEF WindowInv
<1>4. seen = {processed[i] : i \in 1..n} /\ id \notin seen
  BY DEF WindowInv, WindowIsLast, MarkProcessed
<1>5. \A i \in 1..n : processed[i] = accepted[m - n + i]
  BY DEF WindowInv, WindowIsLast
<1>6. NoEarlyRepeat'
  <2> SUFFICES ASSUME NEW i \in 1..(m + 1), NEW j \in 1..(m + 1), i < j,
                      accepted'[i] = accepted'[j]
               PROVE  j - i > Window
    BY <1>2 DEF NoEarlyRepeat
  <2>1. CASE j <= m
    BY <1>1, <1>2, <2>1 DEF WindowInv, NoEarlyRepeat
  <2>2. CASE j = m + 1
    <3>1. accepted[i] = id /\ i \in 1..m
      BY <1>1, <1>2, <2>2
    <3> SUFFICES ASSUME j - i <= Window PROVE FALSE
      BY <1>1
    <3>2. PICK k \in 1..n : k = i + (n - m)
      BY <1>1, <2>2, <3>1
    <3>a. m \in Nat /\ n \in Nat /\ i \in Nat
      BY <1>1
    <3> HIDE DEF m, n
    <3>3. (m - n) + k = i
      BY <3>2, <3>a
    <3>4. processed[k] = id
      BY <1>5, <3>1, <3>2, <3>3
    <3> QED
      BY <1>4, <3>2, <3>4
  <2> QED
    BY <1>1, <2>1, <2>2
<1> HIDE DEF ids
<1>7. CASE n + 1 <= Window
  <2>1. Trimmed(ids) = ids
    BY <1>1, <1>3, <1>7 DEF Trimmed
  <2>2. processed' = ids /\ seen' = seen \cup {id}
    BY <2>1 DEF MarkProcessed, ids
  <2>3. m = n
    BY <1>1, <1>7
  <2>4. \A i \in 1..(n + 1) : ids[i] = accepted'[i]
    <3> SUFFICES ASSUME NEW i \in 1..(n + 1) PROVE ids[i] = accepted'[i]
      OBVIOUS
    <3>1. i \in 1..n \/ i = n + 1
      BY <1>1
    <3>2. CASE i = n + 1
      BY <1>2, <1>3, <2>3, <3>2
    <3>3. CASE i \in 1..n
      <4>1. m - n + i = i /\ i \in 1..m
        BY <1>1, <2>3, <3>3
      <4>2. processed[i] = accepted[i]
        BY <1>5, <3>3, <4>1
      <4> QED
        BY <1>2, <1>3, <3>3, <4>1, <4>2
    <3> QED
      BY <3>1, <3>2, <3>3
  <2>5. seen' = {ids[i] : i \in 1..(n + 1)}
    BY <1>1, <1>3, <1>4, <2>2
  <2>6. WindowIsLast'
    BY <1>1, <1>2, <1>3, <1>7, <2>2, <2>3, <2>4, <2>5 DEF WindowIsLast
  <2>7. seen' \subseteq Ids
    BY <2>2 DEF WindowInv
  <2> QED
    BY <1>2, <1>3, <1>6, <2>2, <2>6, <2>7 DEF WindowInv
<1>8. CASE n = Window
  <2>1. Trimmed(ids) = Tail(ids) /\ Trimmed(ids) # ids
    BY <1>1, <1>3, <1>8 DEF Trimmed
  <2>2. processed' = Tail(ids) /\ seen' = (seen \cup {id}) \ {ids[1]}
    BY <1>1, <1>3, <2>1 DEF MarkProcessed, ids
  <2>3. /\ Tail(ids) \in Seq(Ids) /\ Len(Tail(ids)) = n
        /\ \A i \in 1..n : Tail(ids)[i] = ids[i + 1]
    BY <1>1, <1>3
  <2>4. \A i \in 1..n : ids[i + 1] = accepted'[(m + 1) - n + i]
    <3> SUFFICES ASSUME NEW i \in 1..n PROVE ids[i + 1] = accepted'[(m + 1) - n + i]
      OBVIOUS
    <3>1. CASE i = n
      BY <1>1, <1>2, <1>3, <3>1
    <3>2. CASE i < n
      <4>1. i + 1 \in 1..n /\ m - n + (i + 1) \in 1..m /\ (m + 1) - n + i = m - n + (i + 1)
        BY <1>1, <3>2
      <4> QED
        BY <1>2, <1>3, <1>5, <4>1
    <3>3. i = n \/ i < n
      BY <1>1
    <3> QED
      BY <3>1, <3>2, <3>3
  <2>5. ids[1] = processed[1] /\ processed[1] \in seen
    BY <1>1, <1>3, <1>4, <1>8
  <2>6. ASSUME NEW x \in seen' PROVE \E i \in 1..n : x = ids[i + 1]
    <3>1. CASE x = id
      BY <1>1, <1>3, <1>8, <3>1
    <3>2. CASE x \in seen
      <4>1. PICK k \in 1..n : x = processed[k]
        BY <1>4, <3>2
      <4>2. k # 1
        BY <2>2, <2>5, <2>6, <4>1
      <4>3. k - 1 \in 1..n /\ (k - 1) + 1 = k
        BY <1>1, <4>2
      <4> QED
        BY <1>3, <4>1, <4>3
    <3> QED
      BY <2>2, <3>1, <3>2, <2>6
  <2>7. ASSUME NEW i \in 1..n PROVE ids[i + 1] \in seen'
    <3>1. CASE i = n
      BY <1>1, <1>3, <1>4, <2>2, <2>5, <3>1
    <3>2. CASE i < n
      <4>1. i + 1 \in 1..n /\ 1 \in 1..n /\ i + 1 # 1
        BY <1>1, <3>2
      <4>2. processed[i + 1] # processed[1]
        BY <4>1, WindowOnce
      <4>3. processed[i + 1] \in seen /\ ids[i + 1] = processed[i + 1]
        BY <1>3, <1>4, <4>1
      <4> QED
        BY <2>2, <2>5, <4>2, <4>3
    <3>3. i = n \/ i < n
      BY <1>1
    <3> QED
      BY <3>1, <3>2, <3>3
  <2>8. seen' = {ids[i + 1] : i \in 1..n}
    BY <2>6, <2>7
  <2>9. WindowIsLast'
    <3>1. Len(processed') = n /\ Len(accepted') = m + 1 /\ n = Window /\ m >= Window
      BY <1>1, <1>2, <1>8, <2>2, <2>3
    <3>2. \A i \in 1..n : processed'[i] = accepted'[(m + 1) - n + i]
      BY <2>2, <2>3, <2>4
    <3>a. \A i \in 1..n : processed'[i] = ids[i + 1]
      BY <2>2, <2>3
    <3>3. seen' = {processed'[i] : i \in 1..n}
      BY <2>8, <3>a
    <3>4. Len(processed') = IF Len(accepted') < Window THEN Len(accepted') ELSE Window
      BY <1>1, <3>1
    <3>5. \A i \in 1..Len(processed') :
            processed'[i] = accepted'[Len(accepted') - Len(processed') + i]
      BY <3>1, <3>2
    <3>6. seen' = {processed'[i] : i \in 1..Len(processed')}
      BY <3>1, <3>3
    <3> QED
      BY <3>4, <3>5, <3>6 DEF WindowIsLast
  <2>10. seen' \subseteq Ids
    BY <2>2 DEF WindowInv
  <2> QED
    BY <1>2, <1>6, <2>2, <2>3, <2>9, <2>10 DEF WindowInv
<1> QED
  BY <1>1, <1>7, <1>8

LEMMA WindowStep == WindowInv /\ [ChannelNext]_channelVars => WindowInv'
<1> SUFFICES ASSUME WindowInv, [ChannelNext]_channelVars PROVE WindowInv'
  OBVIOUS
<1>1. ASSUME NEW m \in Messages, NEW t \in Turns, Deliver(m, t) PROVE WindowInv'
  BY <1>1, MarkKeepsWindow DEF Deliver, Ids
<1>2. ASSUME NEW c \in Clicks, ClickElsewhere(c) PROVE WindowInv'
  BY <1>2, MarkKeepsWindow DEF ClickElsewhere, Ids
<1>3. ASSUME NEW c \in Clicks, NEW t \in Turns, ClickCancel(c, t) PROVE WindowInv'
  BY <1>3, MarkKeepsWindow DEF ClickCancel, Ids
<1>10. ASSUME NEW c \in Clicks, NEW t \in Turns, ClickDecide(c, t) PROVE WindowInv'
  BY <1>10, MarkKeepsWindow DEF ClickDecide, Ids
<1>4. CASE ChannelCrash
  <2>1. processed' = <<>> /\ seen' = {} /\ accepted' = <<>>
    BY <1>4 DEF ChannelCrash
  <2> QED
    BY <2>1, ChannelAssumption DEF WindowInv, WindowIsLast, NoEarlyRepeat
<1>5. CASE UNCHANGED windowVars
  BY <1>5 DEF windowVars, WindowInv, WindowIsLast, NoEarlyRepeat
<1>6. ASSUME NEW t \in Turns, NEW said, GiveAnswer(t, said) PROVE UNCHANGED windowVars
  BY <1>6 DEF GiveAnswer, Counted
<1>7. ASSUME NEW t \in Turns, LoopStep(t) PROVE UNCHANGED windowVars
  BY <1>6, <1>7 DEF LoopStep, TakeResult, TakeTimeout, SendCard, PatchAnswer, SendAnswer, Counted
<1>8. ASSUME NEW t \in Turns,
             \/ ShowResponse(t) \/ Report(t) \/ Expire(t) \/ TakeUpdate(t) \/ AddReaction(t)
             \/ \E reply \in {"answer", "empty", "error"} : Return(t, reply)
      PROVE  UNCHANGED windowVars
  BY <1>8 DEF ShowResponse, Report, Expire, TakeUpdate, AddReaction, Return, Counted
<1>9. UNCHANGED channelVars => UNCHANGED windowVars
  BY DEF channelVars
<1> QED
  BY <1>1, <1>2, <1>3, <1>4, <1>5, <1>7, <1>8, <1>9, <1>10 DEF ChannelNext

(* The ids that are recognised are the last ones that were accepted, and none  *)
(* is accepted again before as many others were as the window holds            *)
(* (markProcessed): redelivered events start no second turn.                  *)
THEOREM ChannelInvariant == ChannelSpec => []ChannelInv
<1>1. ChannelInit => TurnInv /\ WindowInv
  BY InitTurns, InitWindow
<1>2. TurnInv /\ WindowInv /\ [ChannelNext]_channelVars => TurnInv' /\ WindowInv'
  BY TurnStep, WindowStep
<1>3. TurnInv /\ WindowInv => ChannelInv
  BY DEF TurnInv, WindowInv, ChannelInv, ChannelTypeOK
<1> QED
  BY <1>1, <1>2, <1>3, PTL DEF ChannelSpec

=============================================================================
