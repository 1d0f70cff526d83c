-------------------------- MODULE SessionStoreProofs --------------------------
(***************************************************************************)
(* Proofs about the session store.                                         *)
(***************************************************************************)
EXTENDS SessionStore, FiniteSetTheorems, TLAPS

(***************************************************************************)
(* The inductive invariant, from what a save has left to do up to what a   *)
(* load gives.                                                             *)
(***************************************************************************)

(* Nothing of the session is saved yet.                                    *)
Untouched(s) ==
  /\ \A r \in RunNames(s) : <<"run", s, r>> \in left
  /\ <<"sweep", s>> \in left /\ <<"meta", s>> \in left /\ <<"talk", s>> \in left

(* A save ends with the index, behind which is the old file alone; until    *)
(* then nothing is synced.  The removal of a reset comes before all of it.  *)
LeftInv ==
  /\ left # {} => <<"index">> \in left \/ left = {<<"archive">>}
  /\ <<"index">> \in left => ~ synced
  /\ <<"index">> \notin left => givesUp = {}
  /\ ~ up => ~ synced
  /\ <<"archive">> \in left => legacy
  /\ \A s \in Sessions :
       <<"remove", s>> \in left =>
         /\ s \in Chats /\ mem[s] = NoRecords /\ <<"index">> \in left
         /\ \A t \in listed : Untouched(t)

(* What a save has passed is on the disk as it is in memory.                *)
PassedInv ==
  left # {} =>
    /\ \A s \in listed :
         /\ \A r \in RunNames(s) : <<"run", s, r>> \notin left => disk[s].run[r] = mem[s].run[r]
         /\ <<"sweep", s>> \notin left => \A r \in Runs \ RunNames(s) : disk[s].run[r] = None
         /\ <<"meta", s>> \notin left => disk[s].meta = RunNames(s)
         /\ <<"talk", s>> \notin left => disk[s].talk = mem[s].talk
    /\ <<"index">> \notin left => index = listed

(* A process that could load serves every session of the index.             *)
ServedInv == up /\ ~ blind /\ index # None => index \subseteq listed

(* What is being executed has no other record than one that runs: a reset   *)
(* may have taken it.                                                      *)
LiveInv ==
  \A p \in live : mem[p[1]].run[p[2]] \in {None, "running"} /\ p[2] \notin LegacyRuns

(* Memory is ahead of the disk.                                            *)
AheadInv ==
  up /\ ~ blind =>
    \A s \in Sessions \ torn :
      Stored(s) /\ <<"remove", s>> \notin left =>
        \A r \in Runs : Forward(LoadRuns(s)[r], mem[s].run[r])

(* The runs of a conversation have ended in memory.                        *)
TalkInv ==
  ~ blind =>
    \A s \in Sessions \ torn : \A r \in mem[s].talk : mem[s].run[r] \in {"waiting"} \cup Final

(* The runs of the old file are in no session named by a channel; once the  *)
(* file is read they are in one session that the store made up, in memory   *)
(* and, from the index on, on the disk.                                    *)
ChatsInv ==
  \A s \in Chats, r \in LegacyRuns : mem[s].run[r] = None /\ disk[s].run[r] = None

InMemory(f) ==
  /\ listed \cap Fresh = {f} /\ LegacyRuns \subseteq mem[f].talk
  /\ \A r \in LegacyRuns : mem[f].run[r] = "succeeded"

OnDisk(f) ==
  /\ index \cap Fresh = {f} /\ LegacyRuns \subseteq LoadSession(f).talk
  /\ \A r \in LegacyRuns : LoadRuns(f)[r] = "succeeded"

MigratedInv ==
  (legacy \/ backup) /\ ~ blind =>
    /\ index = None => legacy
    /\ up \/ index # None =>
         \E f \in Fresh : (up => InMemory(f)) /\ (index # None => OnDisk(f))


(* What an operation of a save waits for.                                  *)
LEMMA ReadyRun ==
  ASSUME NEW s \in Sessions, NEW r \in Runs, Ready(<<"run", s, r>>)
  PROVE  \A t \in Sessions : <<"remove", t>> \notin left
  BY DEF Ready, Stage

LEMMA ReadySweep ==
  ASSUME NEW s \in Sessions, Ready(<<"sweep", s>>)
  PROVE  /\ \A t \in Sessions : <<"remove", t>> \notin left
         /\ \A r \in Runs : <<"run", s, r>> \notin left
  BY DEF Ready, Stage

LEMMA ReadyMeta ==
  ASSUME NEW s \in Sessions, Ready(<<"meta", s>>)
  PROVE  /\ \A t \in Sessions : <<"remove", t>> \notin left
         /\ \A r \in Runs : <<"run", s, r>> \notin left
         /\ <<"sweep", s>> \notin left
  BY DEF Ready, Stage

LEMMA ReadyTalk ==
  ASSUME NEW s \in Sessions, Ready(<<"talk", s>>)
  PROVE  /\ \A t \in Sessions : <<"remove", t>> \notin left
         /\ \A r \in Runs : <<"run", s, r>> \notin left
         /\ <<"sweep", s>> \notin left /\ <<"meta", s>> \notin left
  BY DEF Ready, Stage

LEMMA ReadyDirs ==
  ASSUME Ready(<<"dirs">>)
  PROVE  \A s \in Sessions :
           /\ <<"remove", s>> \notin left /\ <<"sweep", s>> \notin left
           /\ <<"meta", s>> \notin left /\ <<"talk", s>> \notin left
           /\ \A r \in Runs : <<"run", s, r>> \notin left
  BY DEF Ready, Stage

LEMMA ReadyIndex ==
  ASSUME left \subseteq FileOps, Ready(<<"index">>)
  PROVE  left \subseteq {<<"index">>, <<"archive">>}
<1> SUFFICES ASSUME NEW op \in left PROVE op \in {<<"index">>, <<"archive">>}
  OBVIOUS
<1>1. ~ (Stage[op[1]] < 6)
  BY DEF Ready, Stage
<1>2. CASE op \in {"sweep", "meta", "talk", "remove"} \X Sessions
  BY <1>1, <1>2 DEF Stage
<1>3. CASE op \in {<<"run", s, r>> : s \in Sessions, r \in Runs}
  BY <1>1, <1>3 DEF Stage
<1>4. CASE op \in {<<"dirs">>, <<"index">>, <<"archive">>}
  BY <1>1, <1>4 DEF Stage
<1>5. op \in FileOps
  OBVIOUS
<1>6. \/ op \in {"sweep", "meta", "talk", "remove"} \X Sessions
      \/ op \in {<<"run", s, r>> : s \in Sessions, r \in Runs}
      \/ op \in {<<"dirs">>, <<"index">>, <<"archive">>}
  BY <1>5 DEF FileOps
<1> QED
  BY <1>2, <1>3, <1>4, <1>6

LEMMA ReadyArchive ==
  ASSUME Ready(<<"archive">>)
  PROVE  <<"index">> \notin left
  BY DEF Ready, Stage

LEMMA SaveOpsAreFileOps ==
  ASSUME listed' \subseteq Sessions
  PROVE  SaveOps \subseteq FileOps
<1>1. <<"dirs">> \in FileOps /\ <<"index">> \in FileOps
  BY DEF FileOps
<1>2. ASSUME NEW s \in listed' PROVE SessionOps(s) \subseteq FileOps
  <2>1. ASSUME NEW r \in Runs PROVE <<"run", s, r>> \in FileOps
    BY <1>2 DEF FileOps
  <2>2. <<"sweep", s>> \in FileOps /\ <<"meta", s>> \in FileOps /\ <<"talk", s>> \in FileOps
    BY <1>2 DEF FileOps
  <2>3. {<<"run", s, r>> : r \in {q \in Runs : mem'[s].run[q] # None}} \subseteq FileOps
    BY <2>1
  <2> QED
    BY <2>2, <2>3 DEF SessionOps
<1>3. ASSUME NEW op \in UNION {SessionOps(s) : s \in listed'} PROVE op \in FileOps
  <2>1. PICK s \in listed' : op \in SessionOps(s)
    BY <1>3
  <2> QED
    BY <1>2, <2>1
<1> QED
  BY <1>1, <1>3 DEF SaveOps


LEMMA RecordUpdates ==
  ASSUME NEW m \in [Sessions -> Records], NEW s \in Sessions, NEW r \in Runs,
         NEW st \in Status \cup {None}, NEW talk \in SUBSET Runs
  PROVE  /\ [m EXCEPT ![s].run[r] = st] \in [Sessions -> Records]
         /\ [m EXCEPT ![s].run[r] = st, ![s].talk = talk] \in [Sessions -> Records]
<1>1. m[s] \in Records
  OBVIOUS
<1>2. [m[s] EXCEPT !.run[r] = st] \in Records
  BY <1>1 DEF Records
<1>3. [m[s] EXCEPT !.run[r] = st, !.talk = talk] \in Records
  BY <1>1 DEF Records
<1>4. /\ [m EXCEPT ![s].run[r] = st] = [m EXCEPT ![s] = [m[s] EXCEPT !.run[r] = st]]
      /\ [m EXCEPT ![s].run[r] = st, ![s].talk = talk]
           = [m EXCEPT ![s] = [m[s] EXCEPT !.run[r] = st, !.talk = talk]]
  BY <1>1 DEF Records
<1> QED
  BY <1>2, <1>3, <1>4

LEMMA FileUpdates ==
  ASSUME NEW d \in [Sessions -> Files], NEW s \in Sessions
  PROVE  /\ \A r \in Runs, st \in Status \cup {None} :
              [d EXCEPT ![s].run[r] = st] \in [Sessions -> Files]
         /\ \A set \in (SUBSET Runs) \cup {None} :
              /\ [d EXCEPT ![s].meta = set] \in [Sessions -> Files]
              /\ [d EXCEPT ![s].talk = set] \in [Sessions -> Files]
<1>1. d[s] \in Files
  OBVIOUS
<1>2. ASSUME NEW r \in Runs, NEW st \in Status \cup {None}
      PROVE  [d EXCEPT ![s].run[r] = st] \in [Sessions -> Files]
  <2>1. [d[s] EXCEPT !.run[r] = st] \in Files
    BY <1>1 DEF Files
  <2> QED
    BY <2>1
<1>3. ASSUME NEW set \in (SUBSET Runs) \cup {None}
      PROVE  /\ [d EXCEPT ![s].meta = set] \in [Sessions -> Files]
             /\ [d EXCEPT ![s].talk = set] \in [Sessions -> Files]
  <2>1. /\ [d[s] EXCEPT !.meta = set] \in Files
        /\ [d[s] EXCEPT !.talk = set] \in Files
    BY <1>1 DEF Files
  <2> QED
    BY <2>1
<1> QED
  BY <1>2, <1>3

LEMMA RemovedFile ==
  ASSUME TypeOK, NEW s \in Sessions, RemoveFile(s)
  PROVE  disk' \in [Sessions -> Files]
<1>1. disk \in [Sessions -> Files]
  BY DEF TypeOK
<1>2. CASE disk' = [disk EXCEPT ![s].meta = None]
  BY <1>1, <1>2, FileUpdates
<1>3. CASE disk' = [disk EXCEPT ![s].talk = None]
  BY <1>1, <1>3, FileUpdates
<1>4. CASE \E r \in Runs : disk' = [disk EXCEPT ![s].run[r] = None]
  BY <1>1, <1>4, FileUpdates
<1> QED
  BY <1>2, <1>3, <1>4 DEF RemoveFile

LEMMA LoadType ==
  ASSUME TypeOK, NEW s \in Sessions
  PROVE  /\ LoadSession(s) \in Records
         /\ Interrupted(LoadSession(s)) \in Records
<1>1. LoadSession(s) \in Records
  <2>1. disk[s] \in Files
    BY DEF TypeOK
  <2>2. LoadRuns(s) \in [Runs -> Status \cup {None}]
    BY <2>1 DEF LoadRuns, Files
  <2>3. (IF disk[s].talk = None THEN {} ELSE disk[s].talk) \in SUBSET Runs
    BY <2>1 DEF Files
  <2> QED
    BY <2>2, <2>3 DEF LoadSession, Records
<1>2. ASSUME NEW x \in Records
      PROVE  Interrupted(x) \in Records
  BY DEF Interrupted, Status, Final, Records
<1> QED
  BY <1>1, <1>2

(* Every step keeps the types.                                             *)
LEMMA TypeStep ==
  TypeOK /\ LeftInv /\ [Next]_vars => TypeOK'
<1> SUFFICES ASSUME TypeOK, LeftInv, [Next]_vars PROVE TypeOK'
  OBVIOUS
<1>a. Chats \subseteq Sessions /\ Fresh \subseteq Sessions
  BY DEF Sessions
<1>b. NoRecords \in Records
  BY DEF NoRecords, Records
<1>e. \A s \in Sessions : /\ mem[s] \in Records /\ mem[s].talk \in SUBSET Runs
                          /\ \A r \in Runs : mem[s].run[r] \in Status \cup {None}
  BY DEF TypeOK, Records
<1>f. None \in Status \cup {None} /\ None \in (SUBSET Runs) \cup {None}
  OBVIOUS
<1>c. \A st \in {"running", "waiting", "succeeded", "failed", "approved", "cancelled"} : st \in Status
  BY DEF Status, Final

<1>1. ASSUME NEW s \in Chats, EnsureSession(s) PROVE TypeOK'
  <2>1. listed' \in SUBSET Sessions
    BY <1>1, <1>a DEF TypeOK, EnsureSession
  <2>2. left' \subseteq FileOps
    BY <1>1, <1>a, <2>1, SaveOpsAreFileOps DEF EnsureSession, Saving
  <2>3. mem' \in [Sessions -> Records]
    BY <1>1, <1>a, <1>b DEF TypeOK, EnsureSession
  <2>4. live' \in SUBSET (Sessions \X Runs) /\ givesUp' \subseteq live'
    BY <1>1 DEF TypeOK, LeftInv, EnsureSession, Idle
  <2> QED
    BY <1>1, <2>1, <2>2, <2>3, <2>4
       DEF TypeOK, EnsureSession, Idle, Saving, memVars, diskVars, histVars
<1>2. ASSUME NEW s \in Chats, ResetSession(s) PROVE TypeOK'
  <2>1. listed' \in SUBSET Sessions
    BY <1>2, <1>a DEF TypeOK, ResetSession
  <2>2. left' \subseteq FileOps
    BY <1>2, <1>a, <2>1, SaveOpsAreFileOps DEF ResetSession, Saving, FileOps
  <2>3. mem' \in [Sessions -> Records]
    BY <1>2, <1>a, <1>b DEF TypeOK, ResetSession
  <2>4. live' \in SUBSET (Sessions \X Runs) /\ givesUp' \subseteq live'
    BY <1>2 DEF TypeOK, LeftInv, ResetSession, Idle
  <2> QED
    BY <1>2, <2>1, <2>2, <2>3, <2>4
       DEF TypeOK, ResetSession, Idle, Saving, memVars, diskVars, histVars
<1>3. ASSUME NEW s \in Sessions, NEW r \in Runs, NEW scheduled \in BOOLEAN,
             StartRun(s, r, scheduled)
      PROVE  TypeOK'
  <2>1. listed' \in SUBSET Sessions
    BY <1>3, <1>a DEF TypeOK, StartRun
  <2>2. left' \subseteq FileOps
    BY <1>3, <1>a, <2>1, SaveOpsAreFileOps DEF StartRun, Saving
  <2>3. mem' \in [Sessions -> Records]
    BY <1>3, <1>c, RecordUpdates DEF TypeOK, StartRun
  <2>4. live' \in SUBSET (Sessions \X Runs) /\ givesUp' \subseteq live'
    BY <1>3 DEF TypeOK, LeftInv, StartRun, Idle
  <2> QED
    BY <1>3, <2>1, <2>2, <2>3, <2>4
       DEF TypeOK, StartRun, Idle, Saving, memVars, diskVars, histVars
<1>4. ASSUME NEW s \in Sessions, NEW r \in Runs, NEW st \in {"waiting", "succeeded", "failed"},
             FinishRun(s, r, st)
      PROVE  TypeOK'
  <2>1. listed' \in SUBSET Sessions
    BY <1>4, <1>a DEF TypeOK, FinishRun
  <2>2. left' \subseteq FileOps
    BY <1>4, <1>a, <2>1, SaveOpsAreFileOps DEF FinishRun, Saving
  <2>3. mem' \in [Sessions -> Records]
    <3>1. mem[s] \in Records /\ mem[s].talk \in SUBSET Runs
      BY <1>e
    <3>2. (IF st \in Answers THEN mem[s].talk \cup {r} ELSE mem[s].talk) \in SUBSET Runs
      BY <3>1
    <3>3. mem' = [mem EXCEPT ![s].run[r] = st,
                            ![s].talk = IF st \in Answers THEN mem[s].talk \cup {r}
                                                          ELSE mem[s].talk]
      BY <1>4, <1>e DEF FinishRun, TypeOK, Records
    <3> QED
      BY <3>2, <3>3, <1>c, RecordUpdates DEF TypeOK
  <2>4. live' \in SUBSET (Sessions \X Runs) /\ givesUp' \subseteq live'
    BY <1>4 DEF TypeOK, LeftInv, FinishRun, Idle
  <2> QED
    BY <1>4, <2>1, <2>2, <2>3, <2>4
       DEF TypeOK, FinishRun, Idle, Saving, memVars, diskVars, histVars
<1>5. ASSUME NEW s \in Sessions, NEW r \in Runs, NEW st \in {"approved", "cancelled"},
             SettleRun(s, r, st)
      PROVE  TypeOK'
  <2>1. listed' \in SUBSET Sessions
    BY <1>5, <1>a DEF TypeOK, SettleRun
  <2>2. left' \subseteq FileOps
    BY <1>5, <1>a, <2>1, SaveOpsAreFileOps DEF SettleRun, Saving
  <2>3. mem' \in [Sessions -> Records]
    BY <1>5, <1>c, RecordUpdates DEF TypeOK, SettleRun
  <2>4. live' \in SUBSET (Sessions \X Runs) /\ givesUp' \subseteq live'
    BY <1>5 DEF TypeOK, LeftInv, SettleRun, Idle
  <2> QED
    BY <1>5, <2>1, <2>2, <2>3, <2>4
       DEF TypeOK, SettleRun, Idle, Saving, memVars, diskVars, histVars
<1>6. ASSUME NEW s \in Sessions, NEW r \in Runs, WriteRun(s, r) PROVE TypeOK'
  <2>1. disk' \in [Sessions -> Files]
    BY <1>6, <1>e, FileUpdates DEF WriteRun, TypeOK, Records
  <2> QED
    BY <1>6, <2>1 DEF TypeOK, WriteRun, memVars, diskVars, histVars
<1>7. ASSUME NEW s \in Sessions, SweepRuns(s) PROVE TypeOK'
  <2>1. disk' \in [Sessions -> Files]
    BY <1>7, <1>f, FileUpdates DEF SweepRuns, TypeOK
  <2> QED
    BY <1>7, <2>1 DEF TypeOK, SweepRuns, memVars, diskVars, histVars
<1>8. ASSUME NEW s \in Sessions, WriteMeta(s) PROVE TypeOK'
  <2>1. disk' \in [Sessions -> Files]
    BY <1>8, <1>f, FileUpdates DEF WriteMeta, TypeOK, RunNames
  <2> QED
    BY <1>8, <2>1 DEF TypeOK, WriteMeta, memVars, diskVars, histVars
<1>9. ASSUME NEW s \in Sessions, WriteTalk(s) PROVE TypeOK'
  <2>1. disk' \in [Sessions -> Files]
    BY <1>9, <1>e, FileUpdates DEF WriteTalk, TypeOK, Records
  <2> QED
    BY <1>9, <2>1 DEF TypeOK, WriteTalk, memVars, diskVars, histVars
<1>10. ASSUME NEW s \in Sessions, RemoveSession(s) PROVE TypeOK'
  <2>1. disk' \in [Sessions -> Files]
    BY <1>10, RemovedFile DEF RemoveSession, TypeOK
  <2> QED
    BY <1>10, <2>1 DEF TypeOK, RemoveSession, memVars, diskVars, histVars
<1>11. ASSUME RemoveStrays PROVE TypeOK'
  <2>1. disk' \in [Sessions -> Files]
    BY <1>11, RemovedFile DEF RemoveStrays, TypeOK
  <2> QED
    BY <1>11, <2>1 DEF TypeOK, RemoveStrays, memVars, diskVars, histVars
<1>12. ASSUME WriteIndex PROVE TypeOK'
  BY <1>12 DEF TypeOK, WriteIndex, memVars, diskVars, histVars
<1>13. ASSUME ArchiveLegacy PROVE TypeOK'
  BY <1>13 DEF TypeOK, ArchiveLegacy, memVars, diskVars, histVars
<1>14. ASSUME SaveFails PROVE TypeOK'
  BY <1>14, SessionStoreAssumption DEF TypeOK, SaveFails, memVars, diskVars, histVars, MayFail
<1>15. ASSUME Crash PROVE TypeOK'
  <2>1. [s \in Sessions |-> NoRecords] \in [Sessions -> Records]
    BY <1>b
  <2>2. crashes' \in 0 .. MaxMishaps
    BY <1>15, SessionStoreAssumption DEF TypeOK, Crash
  <2> QED
    BY <1>15, <2>1, <2>2 DEF TypeOK, Crash, memVars, diskVars, histVars
<1>16. ASSUME LoadSplit PROVE TypeOK'
  <2>1. listed' \in SUBSET Sessions
    BY <1>16 DEF TypeOK, LoadSplit, Starting, diskVars
  <2>2. left' \subseteq FileOps
    BY <1>16, <2>1, SaveOpsAreFileOps DEF LoadSplit
  <2>3. mem' \in [Sessions -> Records]
    BY <1>16, <1>b, LoadType DEF LoadSplit
  <2>4. synced' \in BOOLEAN
    BY <1>16 DEF LoadSplit
  <2> QED
    BY <1>16, <2>1, <2>2, <2>3, <2>4
       DEF TypeOK, LoadSplit, Starting, memVars, diskVars, histVars
<1>17. ASSUME LoadLegacy PROVE TypeOK'
  <2>1. PICK f \in Fresh :
            /\ listed' = {f}
            /\ mem' = [mem EXCEPT ![f] =
                         [run  |-> [r \in Runs |-> IF r \in LegacyRuns THEN "succeeded" ELSE None],
                          talk |-> LegacyRuns]]
    BY <1>17 DEF LoadLegacy
  <2>2. left' \subseteq FileOps
    BY <1>17, <1>a, <2>1, SaveOpsAreFileOps DEF LoadLegacy, FileOps
  <2>3. [run  |-> [r \in Runs |-> IF r \in LegacyRuns THEN "succeeded" ELSE None],
         talk |-> LegacyRuns] \in Records
    BY <1>c, SessionStoreAssumption DEF Records
  <2> QED
    BY <1>17, <1>a, <2>1, <2>2, <2>3
       DEF TypeOK, LoadLegacy, Starting, memVars, diskVars, histVars
<1>18. ASSUME LoadNothing PROVE TypeOK'
  BY <1>18, <1>a, SessionStoreAssumption
     DEF TypeOK, LoadNothing, memVars, diskVars, histVars, Starting, NewId, MayFail
<1>19. ASSUME LoadFails PROVE TypeOK'
  BY <1>19, <1>a, SessionStoreAssumption
     DEF TypeOK, LoadFails, memVars, diskVars, histVars, Starting, NewId, MayFail
<1>20. CASE UNCHANGED vars
  BY <1>20 DEF TypeOK, vars, memVars, diskVars, histVars
<1> QED
  BY <1>1, <1>2, <1>3, <1>4, <1>5, <1>6, <1>7, <1>8, <1>9, <1>10, <1>11, <1>12, <1>13,
     <1>14, <1>15, <1>16, <1>17, <1>18, <1>19, <1>20 DEF Next, SaveStep

(* What a save has to do, of the memory it saves.                          *)
LEMMA SaveOpsHave ==
  /\ <<"index">> \in SaveOps /\ <<"dirs">> \in SaveOps
  /\ <<"archive">> \notin SaveOps
  /\ \A s \in Sessions : <<"remove", s>> \notin SaveOps
  /\ \A s \in listed' :
       /\ \A r \in Runs : mem'[s].run[r] # None => <<"run", s, r>> \in SaveOps
       /\ <<"sweep", s>> \in SaveOps /\ <<"meta", s>> \in SaveOps /\ <<"talk", s>> \in SaveOps
<1>1. ASSUME NEW s \in listed'
      PROVE  /\ \A r \in Runs : mem'[s].run[r] # None => <<"run", s, r>> \in SessionOps(s)
             /\ <<"sweep", s>> \in SessionOps(s) /\ <<"meta", s>> \in SessionOps(s)
             /\ <<"talk", s>> \in SessionOps(s)
  BY DEF SessionOps
<1>2. ASSUME NEW s, NEW t
      PROVE  <<"remove", s>> \notin SessionOps(t) /\ <<"archive">> \notin SessionOps(t)
  BY DEF SessionOps
<1>3. \A op : op \in SaveOps <=> \/ op = <<"dirs">> \/ op = <<"index">>
                                 \/ \E s \in listed' : op \in SessionOps(s)
  BY DEF SaveOps
<1> QED
  BY <1>1, <1>2, <1>3

(* A session whose files are all written is loaded as it is in memory.     *)
LEMMA WrittenIsLoaded ==
  ASSUME TypeOK, NEW s \in Sessions,
         \A r \in RunNames(s) : disk[s].run[r] = mem[s].run[r],
         \A r \in Runs \ RunNames(s) : disk[s].run[r] = None,
         disk[s].meta = RunNames(s), disk[s].talk = mem[s].talk
  PROVE  LoadSession(s) = mem[s]
<1>1. mem[s] \in Records /\ disk[s] \in Files
  BY DEF TypeOK
<1>2. ASSUME NEW r \in Runs PROVE LoadRuns(s)[r] = mem[s].run[r]
  BY DEF LoadRuns, RunNames
<1>3. LoadRuns(s) = mem[s].run
  BY <1>1, <1>2 DEF LoadRuns, Records
<1>4. disk[s].talk # None
  BY <1>1, SessionStoreAssumption DEF Records
<1> QED
  BY <1>1, <1>3, <1>4 DEF LoadSession, Records

(* What is left of a save stays a save's.                                  *)
LEMMA LeftStep ==
  TypeOK /\ LeftInv /\ [Next]_vars => LeftInv'
<1> SUFFICES ASSUME TypeOK, LeftInv, [Next]_vars PROVE LeftInv'
  OBVIOUS
<1> USE DEF LeftInv
<1>1. ASSUME NEW s \in Chats, EnsureSession(s) PROVE LeftInv'
  BY <1>1, SaveOpsHave DEF EnsureSession, Saving, Idle, diskVars
<1>2. ASSUME NEW s \in Chats, ResetSession(s) PROVE LeftInv'
  <2>1. mem'[s] = NoRecords /\ s \in Sessions
    BY <1>2 DEF ResetSession, TypeOK, Sessions
  <2>2. \A t \in listed' : Untouched(t)'
    BY <1>2, SaveOpsHave DEF ResetSession, Untouched, RunNames
  <2> QED
    BY <1>2, <2>1, <2>2, SaveOpsHave DEF ResetSession, Idle
<1>3. ASSUME NEW s \in Sessions, NEW r \in Runs, NEW scheduled \in BOOLEAN,
             StartRun(s, r, scheduled)
      PROVE  LeftInv'
  BY <1>3, SaveOpsHave DEF StartRun, Saving, Idle, diskVars
<1>4. ASSUME NEW s \in Sessions, NEW r \in Runs, NEW st \in {"waiting", "succeeded", "failed"},
             FinishRun(s, r, st)
      PROVE  LeftInv'
  BY <1>4, SaveOpsHave DEF FinishRun, Saving, Idle, diskVars
<1>5. ASSUME NEW s \in Sessions, NEW r \in Runs, NEW st \in {"approved", "cancelled"},
             SettleRun(s, r, st)
      PROVE  LeftInv'
  BY <1>5, SaveOpsHave DEF SettleRun, Saving, Idle, diskVars
<1>6. ASSUME NEW s \in Sessions, NEW r \in Runs, WriteRun(s, r) PROVE LeftInv'
  BY <1>6, ReadyRun DEF WriteRun, memVars, histVars
<1>7. ASSUME NEW s \in Sessions, SweepRuns(s) PROVE LeftInv'
  BY <1>7, ReadySweep DEF SweepRuns, memVars, histVars
<1>8. ASSUME NEW s \in Sessions, WriteMeta(s) PROVE LeftInv'
  BY <1>8, ReadyMeta DEF WriteMeta, memVars, histVars
<1>9. ASSUME NEW s \in Sessions, WriteTalk(s) PROVE LeftInv'
  BY <1>9, ReadyTalk DEF WriteTalk, memVars, histVars
<1>10. ASSUME NEW s \in Sessions, RemoveSession(s) PROVE LeftInv'
  <2>1. \A t \in listed : Untouched(t)'
    BY <1>10 DEF RemoveSession, Untouched, RunNames, memVars
  <2> QED
    BY <1>10, <2>1 DEF RemoveSession, memVars
<1>11. ASSUME RemoveStrays PROVE LeftInv'
  BY <1>11, ReadyDirs DEF RemoveStrays, memVars, histVars
<1>12. ASSUME WriteIndex PROVE LeftInv'
  BY <1>12, ReadyIndex DEF WriteIndex, TypeOK
<1>13. ASSUME ArchiveLegacy PROVE LeftInv'
  BY <1>13, ReadyArchive DEF ArchiveLegacy, memVars
<1>14. ASSUME SaveFails PROVE LeftInv'
  BY <1>14 DEF SaveFails
<1>15. ASSUME Crash PROVE LeftInv'
  BY <1>15 DEF Crash
<1>16. ASSUME LoadSplit PROVE LeftInv'
  BY <1>16, SaveOpsHave DEF LoadSplit, Starting, TypeOK, histVars
<1>17. ASSUME LoadLegacy PROVE LeftInv'
  BY <1>17, SaveOpsHave DEF LoadLegacy, Starting, TypeOK, diskVars, histVars
<1>18. ASSUME LoadNothing PROVE LeftInv'
  BY <1>18 DEF LoadNothing, Starting, TypeOK, histVars
<1>19. ASSUME LoadFails PROVE LeftInv'
  BY <1>19 DEF LoadFails, Starting, TypeOK, histVars
<1>20. CASE UNCHANGED vars
  BY <1>20 DEF vars, memVars, diskVars, histVars, Untouched, RunNames
<1> QED
  BY <1>1, <1>2, <1>3, <1>4, <1>5, <1>6, <1>7, <1>8, <1>9, <1>10, <1>11, <1>12, <1>13,
     <1>14, <1>15, <1>16, <1>17, <1>18, <1>19, <1>20 DEF Next, SaveStep



(* When the index is all that is left of a save, a load would give what is  *)
(* in memory.                                                              *)
LEMMA PassedIsLoaded ==
  ASSUME TypeOK, PassedInv, left # {}, left \subseteq {<<"index">>, <<"archive">>}
  PROVE  \A s \in listed : LoadSession(s) = mem[s]
<1> SUFFICES ASSUME NEW s \in listed PROVE LoadSession(s) = mem[s]
  OBVIOUS
<1>1. /\ \A r \in Runs : <<"run", s, r>> \notin left
      /\ <<"sweep", s>> \notin left /\ <<"meta", s>> \notin left /\ <<"talk", s>> \notin left
  OBVIOUS
<1>2. /\ \A r \in RunNames(s) : disk[s].run[r] = mem[s].run[r]
      /\ \A r \in Runs \ RunNames(s) : disk[s].run[r] = None
      /\ disk[s].meta = RunNames(s) /\ disk[s].talk = mem[s].talk
  BY <1>1 DEF PassedInv, RunNames
<1>3. s \in Sessions
  BY DEF TypeOK
<1> QED
  BY <1>2, <1>3, WrittenIsLoaded

(* Each file of a save is written as it is in memory, and stays so.        *)
LEMMA PassedStep ==
  TypeOK /\ LeftInv /\ PassedInv /\ [Next]_vars => PassedInv'
<1> SUFFICES ASSUME TypeOK, LeftInv, PassedInv, [Next]_vars PROVE PassedInv'
  OBVIOUS
<1>a. /\ disk \in [Sessions -> Files] /\ listed \subseteq Sessions
      /\ \A s \in Sessions : /\ disk[s] \in Files
                             /\ disk[s].run \in [Runs -> Status \cup {None}]
  BY DEF TypeOK, Files
<1>b. \A s : RunNames(s) \subseteq Runs
  BY DEF RunNames

<1>1. ASSUME NEW s \in Chats, EnsureSession(s) PROVE PassedInv'
  BY <1>1, SaveOpsHave DEF EnsureSession, Saving, PassedInv, RunNames
<1>2. ASSUME NEW s \in Chats, ResetSession(s) PROVE PassedInv'
  BY <1>2, SaveOpsHave DEF ResetSession, Saving, PassedInv, RunNames
<1>3. ASSUME NEW s \in Sessions, NEW r \in Runs, NEW scheduled \in BOOLEAN,
             StartRun(s, r, scheduled)
      PROVE  PassedInv'
  BY <1>3, SaveOpsHave DEF StartRun, Saving, PassedInv, RunNames
<1>4. ASSUME NEW s \in Sessions, NEW r \in Runs, NEW st \in {"waiting", "succeeded", "failed"},
             FinishRun(s, r, st)
      PROVE  PassedInv'
  BY <1>4, SaveOpsHave DEF FinishRun, Saving, PassedInv, RunNames
<1>5. ASSUME NEW s \in Sessions, NEW r \in Runs, NEW st \in {"approved", "cancelled"},
             SettleRun(s, r, st)
      PROVE  PassedInv'
  BY <1>5, SaveOpsHave DEF SettleRun, Saving, PassedInv, RunNames
<1>6. ASSUME NEW s \in Sessions, NEW r \in Runs, WriteRun(s, r) PROVE PassedInv'
  <2>1. /\ left # {} /\ left' \subseteq left /\ (<<"index">> \in left' <=> <<"index">> \in left)
        /\ UNCHANGED <<listed, mem, index>> /\ \A t : RunNames(t)' = RunNames(t)
    BY <1>6 DEF WriteRun, memVars, RunNames
  <2>2. /\ disk' = [disk EXCEPT ![s].run[r] = mem[s].run[r]]
        /\ left' = left \ {<<"run", s, r>>}
    BY <1>6 DEF WriteRun
  <2>3. ASSUME NEW t \in listed, NEW q \in Runs
        PROVE  /\ disk'[t].run[q] = IF t = s /\ q = r THEN mem[s].run[r] ELSE disk[t].run[q]
               /\ disk'[t].meta = disk[t].meta /\ disk'[t].talk = disk[t].talk
    BY <1>a, <2>2 DEF Files
  <2>4. ASSUME NEW t \in listed
        PROVE  /\ \A q \in RunNames(t) : <<"run", t, q>> \notin left' => disk'[t].run[q] = mem[t].run[q]
               /\ <<"sweep", t>> \notin left' => \A q \in Runs \ RunNames(t) : disk'[t].run[q] = None
               /\ <<"meta", t>> \notin left' => disk'[t].meta = RunNames(t)
               /\ <<"talk", t>> \notin left' => disk'[t].talk = mem[t].talk
    BY <1>b, <2>1, <2>2, <2>3 DEF PassedInv, RunNames
  <2>5. <<"index">> \notin left' => index' = listed'
    BY <2>1 DEF PassedInv
  <2> QED
    BY <2>1, <2>4, <2>5 DEF PassedInv
<1>7. ASSUME NEW s \in Sessions, SweepRuns(s) PROVE PassedInv'
  <2>1. /\ left # {} /\ left' \subseteq left /\ (<<"index">> \in left' <=> <<"index">> \in left)
        /\ UNCHANGED <<listed, mem, index>> /\ \A t : RunNames(t)' = RunNames(t)
    BY <1>7 DEF SweepRuns, memVars, RunNames
  <2>2. /\ <<"sweep", s>> \in left' \/ \A q \in Runs \ RunNames(s) : disk[s].run[q] = None
        /\ left' = left \/ left' = left \ {<<"sweep", s>>}
        /\ \/ disk' = disk
           \/ \E r \in Runs \ RunNames(s) : disk' = [disk EXCEPT ![s].run[r] = None]
    BY <1>7 DEF SweepRuns
  <2>3. ASSUME NEW t \in listed, NEW q \in Runs
        PROVE  /\ \/ disk'[t].run[q] = disk[t].run[q]
                  \/ t = s /\ q \notin RunNames(s) /\ disk'[t].run[q] = None
               /\ disk'[t].meta = disk[t].meta /\ disk'[t].talk = disk[t].talk
    BY <1>a, <2>2 DEF Files
  <2>4. ASSUME NEW t \in listed
        PROVE  /\ \A q \in RunNames(t) : <<"run", t, q>> \notin left' => disk'[t].run[q] = mem[t].run[q]
               /\ <<"sweep", t>> \notin left' => \A q \in Runs \ RunNames(t) : disk'[t].run[q] = None
               /\ <<"meta", t>> \notin left' => disk'[t].meta = RunNames(t)
               /\ <<"talk", t>> \notin left' => disk'[t].talk = mem[t].talk
    BY <1>b, <2>1, <2>2, <2>3 DEF PassedInv
  <2>5. <<"index">> \notin left' => index' = listed'
    BY <2>1 DEF PassedInv
  <2> QED
    BY <2>1, <2>4, <2>5 DEF PassedInv
<1>8. ASSUME NEW s \in Sessions, WriteMeta(s) PROVE PassedInv'
  <2>1. /\ left # {} /\ left' \subseteq left /\ (<<"index">> \in left' <=> <<"index">> \in left)
        /\ UNCHANGED <<listed, mem, index>> /\ \A t : RunNames(t)' = RunNames(t)
    BY <1>8 DEF WriteMeta, memVars, RunNames
  <2>2. /\ disk' = [disk EXCEPT ![s].meta = RunNames(s)]
        /\ left' = left \ {<<"meta", s>>}
    BY <1>8 DEF WriteMeta
  <2>3. ASSUME NEW t \in listed
        PROVE  /\ disk'[t].meta = IF t = s THEN RunNames(s) ELSE disk[t].meta
               /\ disk'[t].talk = disk[t].talk /\ disk'[t].run = disk[t].run
    BY <1>a, <2>2 DEF Files
  <2>4. ASSUME NEW t \in listed
        PROVE  /\ \A q \in RunNames(t) : <<"run", t, q>> \notin left' => disk'[t].run[q] = mem[t].run[q]
               /\ <<"sweep", t>> \notin left' => \A q \in Runs \ RunNames(t) : disk'[t].run[q] = None
               /\ <<"meta", t>> \notin left' => disk'[t].meta = RunNames(t)
               /\ <<"talk", t>> \notin left' => disk'[t].talk = mem[t].talk
    BY <1>b, <2>1, <2>2, <2>3 DEF PassedInv
  <2>5. <<"index">> \notin left' => index' = listed'
    BY <2>1 DEF PassedInv
  <2> QED
    BY <2>1, <2>4, <2>5 DEF PassedInv
<1>9. ASSUME NEW s \in Sessions, WriteTalk(s) PROVE PassedInv'
  <2>1. /\ left # {} /\ left' \subseteq left /\ (<<"index">> \in left' <=> <<"index">> \in left)
        /\ UNCHANGED <<listed, mem, index>> /\ \A t : RunNames(t)' = RunNames(t)
    BY <1>9 DEF WriteTalk, memVars, RunNames
  <2>2. /\ disk' = [disk EXCEPT ![s].talk = mem[s].talk]
        /\ left' = left \ {<<"talk", s>>}
    BY <1>9 DEF WriteTalk
  <2>3. ASSUME NEW t \in listed
        PROVE  /\ disk'[t].talk = IF t = s THEN mem[s].talk ELSE disk[t].talk
               /\ disk'[t].meta = disk[t].meta /\ disk'[t].run = disk[t].run
    BY <1>a, <2>2 DEF Files
  <2>4. ASSUME NEW t \in listed
        PROVE  /\ \A q \in RunNames(t) : <<"run", t, q>> \notin left' => disk'[t].run[q] = mem[t].run[q]
               /\ <<"sweep", t>> \notin left' => \A q \in Runs \ RunNames(t) : disk'[t].run[q] = None
               /\ <<"meta", t>> \notin left' => disk'[t].meta = RunNames(t)
               /\ <<"talk", t>> \notin left' => disk'[t].talk = mem[t].talk
    BY <1>b, <2>1, <2>2, <2>3 DEF PassedInv
  <2>5. <<"index">> \notin left' => index' = listed'
    BY <2>1 DEF PassedInv
  <2> QED
    BY <2>1, <2>4, <2>5 DEF PassedInv
<1>10. ASSUME NEW s \in Sessions, RemoveSession(s) PROVE PassedInv'
  <2>1. /\ <<"index">> \in left' /\ listed' = listed
        /\ \A t \in listed : Untouched(t)'
    BY <1>10 DEF RemoveSession, LeftInv, Untouched, RunNames, memVars
  <2> QED
    BY <2>1 DEF PassedInv, Untouched
<1>11. ASSUME RemoveStrays PROVE PassedInv'
  <2>1. /\ left # {} /\ left' \subseteq left /\ (<<"index">> \in left' <=> <<"index">> \in left)
        /\ UNCHANGED <<listed, mem, index>> /\ \A t : RunNames(t)' = RunNames(t)
    BY <1>11 DEF RemoveStrays, memVars, RunNames
  <2>2. /\ disk' = disk \/ \E s \in Sessions \ listed : RemoveFile(s)
        /\ left' = left \/ left' = left \ {<<"dirs">>}
    BY <1>11 DEF RemoveStrays
  <2>3. ASSUME NEW t \in listed PROVE disk'[t] = disk[t]
    BY <1>a, <2>2 DEF RemoveFile
  <2>4. ASSUME NEW t \in listed
        PROVE  /\ \A q \in RunNames(t) : <<"run", t, q>> \notin left' => disk'[t].run[q] = mem[t].run[q]
               /\ <<"sweep", t>> \notin left' => \A q \in Runs \ RunNames(t) : disk'[t].run[q] = None
               /\ <<"meta", t>> \notin left' => disk'[t].meta = RunNames(t)
               /\ <<"talk", t>> \notin left' => disk'[t].talk = mem[t].talk
    BY <1>b, <2>1, <2>2, <2>3 DEF PassedInv
  <2>5. <<"index">> \notin left' => index' = listed'
    BY <2>1 DEF PassedInv
  <2> QED
    BY <2>1, <2>4, <2>5 DEF PassedInv
<1>12. ASSUME WriteIndex PROVE PassedInv'
  BY <1>12 DEF WriteIndex, PassedInv, RunNames
<1>13. ASSUME ArchiveLegacy PROVE PassedInv'
  BY <1>13, ReadyArchive DEF ArchiveLegacy, LeftInv, PassedInv
<1>14. ASSUME SaveFails PROVE PassedInv'
  BY <1>14 DEF SaveFails, PassedInv
<1>15. ASSUME Crash PROVE PassedInv'
  BY <1>15 DEF Crash, PassedInv
<1>16. ASSUME LoadSplit PROVE PassedInv'
  BY <1>16, SaveOpsHave DEF LoadSplit, PassedInv, RunNames
<1>17. ASSUME LoadLegacy PROVE PassedInv'
  BY <1>17, SaveOpsHave DEF LoadLegacy, PassedInv, RunNames
<1>18. ASSUME LoadNothing PROVE PassedInv'
  BY <1>18 DEF LoadNothing, Starting, TypeOK, PassedInv
<1>19. ASSUME LoadFails PROVE PassedInv'
  BY <1>19 DEF LoadFails, Starting, TypeOK, PassedInv
<1>20. CASE UNCHANGED vars
  BY <1>20 DEF vars, memVars, diskVars, histVars, PassedInv, RunNames
<1> QED
  BY <1>1, <1>2, <1>3, <1>4, <1>5, <1>6, <1>7, <1>8, <1>9, <1>10, <1>11, <1>12, <1>13,
     <1>14, <1>15, <1>16, <1>17, <1>18, <1>19, <1>20 DEF Next, SaveStep

(* A save that reports no error leaves what is in memory on the disk.       *)
LEMMA SavedStep ==
  TypeOK /\ LeftInv /\ PassedInv /\ SavedIsLoaded /\ [Next]_vars => SavedIsLoaded'
<1> SUFFICES ASSUME TypeOK, LeftInv, PassedInv, SavedIsLoaded, [Next]_vars PROVE SavedIsLoaded'
  OBVIOUS
<1>a. UNCHANGED <<disk, mem>> => \A s : LoadSession(s)' = LoadSession(s) /\ mem'[s] = mem[s]
  BY DEF LoadSession, LoadRuns

<1>1. ASSUME NEW s \in Chats, EnsureSession(s) PROVE SavedIsLoaded'
  BY <1>1 DEF EnsureSession, Saving, SavedIsLoaded
<1>2. ASSUME NEW s \in Chats, ResetSession(s) PROVE SavedIsLoaded'
  BY <1>2 DEF ResetSession, Saving, SavedIsLoaded
<1>3. ASSUME NEW s \in Sessions, NEW r \in Runs, NEW scheduled \in BOOLEAN,
             StartRun(s, r, scheduled)
      PROVE  SavedIsLoaded'
  BY <1>3 DEF StartRun, Saving, SavedIsLoaded
<1>4. ASSUME NEW s \in Sessions, NEW r \in Runs, NEW st \in {"waiting", "succeeded", "failed"},
             FinishRun(s, r, st)
      PROVE  SavedIsLoaded'
  BY <1>4 DEF FinishRun, Saving, SavedIsLoaded
<1>5. ASSUME NEW s \in Sessions, NEW r \in Runs, NEW st \in {"approved", "cancelled"},
             SettleRun(s, r, st)
      PROVE  SavedIsLoaded'
  BY <1>5 DEF SettleRun, Saving, SavedIsLoaded
<1>6. ASSUME NEW s \in Sessions, NEW r \in Runs, WriteRun(s, r) PROVE SavedIsLoaded'
  BY <1>6 DEF WriteRun, SavedIsLoaded, LeftInv, Idle
<1>7. ASSUME NEW s \in Sessions, SweepRuns(s) PROVE SavedIsLoaded'
  BY <1>7 DEF SweepRuns, SavedIsLoaded, LeftInv, Idle
<1>8. ASSUME NEW s \in Sessions, WriteMeta(s) PROVE SavedIsLoaded'
  BY <1>8 DEF WriteMeta, SavedIsLoaded, LeftInv, Idle
<1>9. ASSUME NEW s \in Sessions, WriteTalk(s) PROVE SavedIsLoaded'
  BY <1>9 DEF WriteTalk, SavedIsLoaded, LeftInv, Idle
<1>10. ASSUME NEW s \in Sessions, RemoveSession(s) PROVE SavedIsLoaded'
  BY <1>10 DEF RemoveSession, SavedIsLoaded, LeftInv, Idle
<1>11. ASSUME RemoveStrays PROVE SavedIsLoaded'
  BY <1>11 DEF RemoveStrays, SavedIsLoaded, LeftInv, Idle
<1>12. ASSUME WriteIndex PROVE SavedIsLoaded'
  <2>1. \A s \in listed : LoadSession(s) = mem[s]
    BY <1>12, ReadyIndex, PassedIsLoaded DEF WriteIndex, TypeOK
  <2> QED
    BY <1>12, <1>a, <2>1 DEF WriteIndex, SavedIsLoaded
<1>13. ASSUME ArchiveLegacy PROVE SavedIsLoaded'
  <2>1. left = {<<"archive">>}
    BY <1>13, ReadyArchive DEF ArchiveLegacy, LeftInv
  <2>2. index = listed /\ \A s \in listed : LoadSession(s) = mem[s]
    BY <2>1, PassedIsLoaded DEF PassedInv
  <2> QED
    BY <1>13, <1>a, <2>2 DEF ArchiveLegacy, SavedIsLoaded, memVars
<1>14. ASSUME SaveFails PROVE SavedIsLoaded'
  <2>1. CASE synced
    <3>1. left = {<<"archive">>}
      BY <1>14, <2>1 DEF SaveFails, LeftInv
    <3>2. index = listed /\ \A s \in listed : LoadSession(s) = mem[s]
      BY <3>1, PassedIsLoaded DEF PassedInv
    <3> QED
      BY <1>14, <1>a, <3>2 DEF SaveFails, SavedIsLoaded, diskVars
  <2>2. CASE ~ synced
    BY <1>14, <2>2 DEF SaveFails, SavedIsLoaded
  <2> QED
    BY <2>1, <2>2
<1>15. ASSUME Crash PROVE SavedIsLoaded'
  BY <1>15 DEF Crash, SavedIsLoaded
<1>16. ASSUME LoadSplit PROVE SavedIsLoaded'
  <2>1. \A s : LoadSession(s)' = LoadSession(s)
    BY <1>16 DEF LoadSplit, Starting, diskVars, LoadSession, LoadRuns
  <2> QED
    BY <1>16, <2>1 DEF LoadSplit, Starting, diskVars, SavedIsLoaded
<1>17. ASSUME LoadLegacy PROVE SavedIsLoaded'
  BY <1>17 DEF LoadLegacy, Starting, LeftInv, SavedIsLoaded
<1>18. ASSUME LoadNothing PROVE SavedIsLoaded'
  BY <1>18 DEF LoadNothing, Starting, LeftInv, SavedIsLoaded
<1>19. ASSUME LoadFails PROVE SavedIsLoaded'
  BY <1>19 DEF LoadFails, Starting, LeftInv, SavedIsLoaded
<1>20. CASE UNCHANGED vars
  BY <1>20, <1>a DEF vars, memVars, diskVars, histVars, SavedIsLoaded, Idle
<1> QED
  BY <1>1, <1>2, <1>3, <1>4, <1>5, <1>6, <1>7, <1>8, <1>9, <1>10, <1>11, <1>12, <1>13,
     <1>14, <1>15, <1>16, <1>17, <1>18, <1>19, <1>20 DEF Next, SaveStep

(* Sessions of the index are served, an executed run has no other record,   *)
(* and the runs of the old file are in no session a channel names.         *)
LEMMA ServedStep ==
  TypeOK /\ ServedInv /\ [Next]_vars => ServedInv'
<1> SUFFICES ASSUME TypeOK, ServedInv, [Next]_vars PROVE ServedInv'
  OBVIOUS
<1> USE DEF ServedInv
<1>1. ASSUME NEW s \in Chats, EnsureSession(s) PROVE ServedInv'
  BY <1>1 DEF EnsureSession, Saving, diskVars, histVars
<1>2. ASSUME NEW s \in Chats, ResetSession(s) PROVE ServedInv'
  BY <1>2 DEF ResetSession, Saving, diskVars, histVars
<1>3. ASSUME NEW s \in Sessions, NEW r \in Runs, NEW scheduled \in BOOLEAN,
             StartRun(s, r, scheduled)
      PROVE  ServedInv'
  BY <1>3 DEF StartRun, Saving, diskVars, histVars
<1>4. ASSUME NEW s \in Sessions, NEW r \in Runs, NEW st \in {"waiting", "succeeded", "failed"},
             FinishRun(s, r, st)
      PROVE  ServedInv'
  BY <1>4 DEF FinishRun, Saving, diskVars, histVars
<1>5. ASSUME NEW s \in Sessions, NEW r \in Runs, NEW st \in {"approved", "cancelled"},
             SettleRun(s, r, st)
      PROVE  ServedInv'
  BY <1>5 DEF SettleRun, Saving, diskVars, histVars
<1>6. ASSUME NEW s \in Sessions, NEW r \in Runs, WriteRun(s, r) PROVE ServedInv'
  BY <1>6 DEF WriteRun, memVars, diskVars, histVars
<1>7. ASSUME NEW s \in Sessions, SweepRuns(s) PROVE ServedInv'
  BY <1>7 DEF SweepRuns, memVars, diskVars, histVars
<1>8. ASSUME NEW s \in Sessions, WriteMeta(s) PROVE ServedInv'
  BY <1>8 DEF WriteMeta, memVars, diskVars, histVars
<1>9. ASSUME NEW s \in Sessions, WriteTalk(s) PROVE ServedInv'
  BY <1>9 DEF WriteTalk, memVars, diskVars, histVars
<1>10. ASSUME NEW s \in Sessions, RemoveSession(s) PROVE ServedInv'
  BY <1>10 DEF RemoveSession, memVars, diskVars, histVars
<1>11. ASSUME RemoveStrays PROVE ServedInv'
  BY <1>11 DEF RemoveStrays, memVars, diskVars, histVars
<1>12. ASSUME WriteIndex PROVE ServedInv'
  BY <1>12 DEF WriteIndex, memVars, diskVars, histVars
<1>13. ASSUME ArchiveLegacy PROVE ServedInv'
  BY <1>13 DEF ArchiveLegacy, memVars, diskVars, histVars
<1>14. ASSUME SaveFails PROVE ServedInv'
  BY <1>14 DEF SaveFails, memVars, diskVars, histVars
<1>15. ASSUME Crash PROVE ServedInv'
  BY <1>15 DEF Crash, memVars, diskVars, histVars
<1>16. ASSUME LoadSplit PROVE ServedInv'
  BY <1>16 DEF LoadSplit, Starting, diskVars, histVars
<1>17. ASSUME LoadLegacy PROVE ServedInv'
  BY <1>17 DEF LoadLegacy, Starting, diskVars, histVars
<1>18. ASSUME LoadNothing PROVE ServedInv'
  BY <1>18 DEF LoadNothing, Starting, diskVars, histVars
<1>19. ASSUME LoadFails PROVE ServedInv'
  BY <1>19 DEF LoadFails, Starting, diskVars, histVars
<1>20. CASE UNCHANGED vars
  BY <1>20 DEF vars, memVars, diskVars, histVars
<1> QED
  BY <1>1, <1>2, <1>3, <1>4, <1>5, <1>6, <1>7, <1>8, <1>9, <1>10, <1>11, <1>12, <1>13,
     <1>14, <1>15, <1>16, <1>17, <1>18, <1>19, <1>20 DEF Next, SaveStep

LEMMA LiveStep ==
  TypeOK /\ LiveInv /\ [Next]_vars => LiveInv'
<1> SUFFICES ASSUME TypeOK, LiveInv, [Next]_vars PROVE LiveInv'
  OBVIOUS
<1>a. \A s \in Sessions : mem[s] \in Records
  BY DEF TypeOK
<1>b. live \subseteq Sessions \X Runs
  BY DEF TypeOK
<1> USE DEF LiveInv

<1>1. ASSUME NEW s \in Chats, EnsureSession(s) PROVE LiveInv'
  BY <1>1, <1>b DEF EnsureSession, TypeOK, NoRecords
<1>2. ASSUME NEW s \in Chats, ResetSession(s) PROVE LiveInv'
  BY <1>2, <1>b DEF ResetSession, TypeOK, NoRecords
<1>3. ASSUME NEW s \in Sessions, NEW r \in Runs, NEW scheduled \in BOOLEAN,
             StartRun(s, r, scheduled)
      PROVE  LiveInv'
  BY <1>3, <1>a, <1>b, SessionStoreAssumption DEF StartRun, TypeOK, Records
<1>4. ASSUME NEW s \in Sessions, NEW r \in Runs, NEW st \in {"waiting", "succeeded", "failed"},
             FinishRun(s, r, st)
      PROVE  LiveInv'
  BY <1>4, <1>a, <1>b, SessionStoreAssumption DEF FinishRun, TypeOK, Records
<1>5. ASSUME NEW s \in Sessions, NEW r \in Runs, NEW st \in {"approved", "cancelled"},
             SettleRun(s, r, st)
      PROVE  LiveInv'
  BY <1>5, <1>a, <1>b, SessionStoreAssumption DEF SettleRun, TypeOK, Records
<1>6. ASSUME NEW s \in Sessions, NEW r \in Runs, WriteRun(s, r) PROVE LiveInv'
  BY <1>6 DEF WriteRun, memVars
<1>7. ASSUME NEW s \in Sessions, SweepRuns(s) PROVE LiveInv'
  BY <1>7 DEF SweepRuns, memVars
<1>8. ASSUME NEW s \in Sessions, WriteMeta(s) PROVE LiveInv'
  BY <1>8 DEF WriteMeta, memVars
<1>9. ASSUME NEW s \in Sessions, WriteTalk(s) PROVE LiveInv'
  BY <1>9 DEF WriteTalk, memVars
<1>10. ASSUME NEW s \in Sessions, RemoveSession(s) PROVE LiveInv'
  BY <1>10 DEF RemoveSession, memVars
<1>11. ASSUME RemoveStrays PROVE LiveInv'
  BY <1>11 DEF RemoveStrays, memVars
<1>12. ASSUME WriteIndex PROVE LiveInv'
  BY <1>12 DEF WriteIndex, memVars
<1>13. ASSUME ArchiveLegacy PROVE LiveInv'
  BY <1>13 DEF ArchiveLegacy, memVars
<1>14. ASSUME SaveFails PROVE LiveInv'
  BY <1>14 DEF SaveFails, memVars
<1>15. ASSUME Crash PROVE LiveInv'
  BY <1>15 DEF Crash, memVars
<1>16. ASSUME LoadSplit PROVE LiveInv'
  BY <1>16 DEF LoadSplit, Starting, TypeOK
<1>17. ASSUME LoadLegacy PROVE LiveInv'
  BY <1>17 DEF LoadLegacy, Starting, TypeOK
<1>18. ASSUME LoadNothing PROVE LiveInv'
  BY <1>18 DEF LoadNothing, Starting, TypeOK
<1>19. ASSUME LoadFails PROVE LiveInv'
  BY <1>19 DEF LoadFails, Starting, TypeOK
<1>20. CASE UNCHANGED vars
  BY <1>20 DEF vars, memVars, diskVars, histVars
<1> QED
  BY <1>1, <1>2, <1>3, <1>4, <1>5, <1>6, <1>7, <1>8, <1>9, <1>10, <1>11, <1>12, <1>13,
     <1>14, <1>15, <1>16, <1>17, <1>18, <1>19, <1>20 DEF Next, SaveStep

LEMMA RemovedRun ==
  ASSUME TypeOK, NEW s \in Sessions, NEW t \in Sessions, NEW q \in Runs, RemoveFile(s)
  PROVE  disk'[t].run[q] \in {disk[t].run[q], None}
<1>1. disk \in [Sessions -> Files] /\ disk[s] \in Files /\ disk[t] \in Files
  BY DEF TypeOK
<1>2. CASE disk' = [disk EXCEPT ![s].meta = None]
  BY <1>1, <1>2 DEF Files
<1>3. CASE disk' = [disk EXCEPT ![s].talk = None]
  BY <1>1, <1>3 DEF Files
<1>4. CASE \E r \in Runs : disk' = [disk EXCEPT ![s].run[r] = None]
  BY <1>1, <1>4 DEF Files
<1> QED
  BY <1>2, <1>3, <1>4 DEF RemoveFile

LEMMA ChatsStep ==
  TypeOK /\ LiveInv /\ ChatsInv /\ [Next]_vars => ChatsInv'
<1> SUFFICES ASSUME TypeOK, LiveInv, ChatsInv, [Next]_vars, NEW c \in Chats, NEW q \in LegacyRuns
             PROVE  mem'[c].run[q] = None /\ disk'[c].run[q] = None
  BY DEF ChatsInv
<1>a. /\ mem \in [Sessions -> Records] /\ disk \in [Sessions -> Files]
      /\ \A s \in Sessions : mem[s] \in Records /\ disk[s] \in Files
      /\ c \in Sessions /\ q \in Runs
  BY SessionStoreAssumption DEF TypeOK, Sessions
<1>b. mem[c].run[q] = None /\ disk[c].run[q] = None
  BY DEF ChatsInv

<1>1. ASSUME NEW s \in Chats, EnsureSession(s)
      PROVE  mem'[c].run[q] = None /\ disk'[c].run[q] = None
  BY <1>1, <1>a, <1>b DEF EnsureSession, Saving, NoRecords, diskVars
<1>2. ASSUME NEW s \in Chats, ResetSession(s)
      PROVE  mem'[c].run[q] = None /\ disk'[c].run[q] = None
  BY <1>2, <1>a, <1>b DEF ResetSession, Saving, NoRecords, diskVars
<1>3. ASSUME NEW s \in Sessions, NEW r \in Runs, NEW scheduled \in BOOLEAN,
             StartRun(s, r, scheduled)
      PROVE  mem'[c].run[q] = None /\ disk'[c].run[q] = None
  BY <1>3, <1>a, <1>b, SessionStoreAssumption DEF StartRun, Records, Saving, diskVars
<1>4. ASSUME NEW s \in Sessions, NEW r \in Runs, NEW st \in {"waiting", "succeeded", "failed"},
             FinishRun(s, r, st)
      PROVE  mem'[c].run[q] = None /\ disk'[c].run[q] = None
  <2>1. s # c \/ r # q
    BY <1>4 DEF FinishRun, LiveInv
  <2> QED
    BY <1>4, <1>a, <1>b, <2>1 DEF FinishRun, Records, Saving, diskVars
<1>5. ASSUME NEW s \in Sessions, NEW r \in Runs, NEW st \in {"approved", "cancelled"},
             SettleRun(s, r, st)
      PROVE  mem'[c].run[q] = None /\ disk'[c].run[q] = None
  BY <1>5, <1>a, <1>b, SessionStoreAssumption DEF SettleRun, Records, Saving, diskVars
<1>6. ASSUME NEW s \in Sessions, NEW r \in Runs, WriteRun(s, r)
      PROVE  mem'[c].run[q] = None /\ disk'[c].run[q] = None
  BY <1>6, <1>a, <1>b DEF WriteRun, Files, memVars
<1>7. ASSUME NEW s \in Sessions, SweepRuns(s)
      PROVE  mem'[c].run[q] = None /\ disk'[c].run[q] = None
  BY <1>7, <1>a, <1>b DEF SweepRuns, Files, memVars
<1>8. ASSUME NEW s \in Sessions, WriteMeta(s)
      PROVE  mem'[c].run[q] = None /\ disk'[c].run[q] = None
  BY <1>8, <1>a, <1>b DEF WriteMeta, Files, memVars
<1>9. ASSUME NEW s \in Sessions, WriteTalk(s)
      PROVE  mem'[c].run[q] = None /\ disk'[c].run[q] = None
  BY <1>9, <1>a, <1>b DEF WriteTalk, Files, memVars
<1>10. ASSUME NEW s \in Sessions, RemoveSession(s)
       PROVE  mem'[c].run[q] = None /\ disk'[c].run[q] = None
  BY <1>10, <1>a, <1>b, RemovedRun DEF RemoveSession, memVars
<1>11. ASSUME RemoveStrays PROVE mem'[c].run[q] = None /\ disk'[c].run[q] = None
  BY <1>11, <1>a, <1>b, RemovedRun DEF RemoveStrays, memVars
<1>12. ASSUME WriteIndex PROVE mem'[c].run[q] = None /\ disk'[c].run[q] = None
  BY <1>12, <1>b DEF WriteIndex, memVars, diskVars
<1>13. ASSUME ArchiveLegacy PROVE mem'[c].run[q] = None /\ disk'[c].run[q] = None
  BY <1>13, <1>b DEF ArchiveLegacy, memVars, diskVars
<1>14. ASSUME SaveFails PROVE mem'[c].run[q] = None /\ disk'[c].run[q] = None
  BY <1>14, <1>b DEF SaveFails, memVars, diskVars
<1>15. ASSUME Crash PROVE mem'[c].run[q] = None /\ disk'[c].run[q] = None
  BY <1>15, <1>a, <1>b DEF Crash, NoRecords, diskVars
<1>16. ASSUME LoadSplit PROVE mem'[c].run[q] = None /\ disk'[c].run[q] = None
  <2>1. LoadSession(c) \in Records /\ LoadSession(c).run[q] = None
    BY <1>a, <1>b, LoadType DEF LoadSession, LoadRuns
  <2>2. Interrupted(LoadSession(c)).run[q] = None
    BY <1>a, <2>1, SessionStoreAssumption DEF Interrupted, Records
  <2> QED
    BY <1>16, <1>a, <1>b, <2>2 DEF LoadSplit, Starting, diskVars, NoRecords
<1>17. ASSUME LoadLegacy PROVE mem'[c].run[q] = None /\ disk'[c].run[q] = None
  BY <1>17, <1>a, <1>b, SessionStoreAssumption DEF LoadLegacy, Starting, diskVars
<1>18. ASSUME LoadNothing PROVE mem'[c].run[q] = None /\ disk'[c].run[q] = None
  BY <1>18, <1>b DEF LoadNothing, Starting, diskVars
<1>19. ASSUME LoadFails PROVE mem'[c].run[q] = None /\ disk'[c].run[q] = None
  BY <1>19, <1>b DEF LoadFails, Starting, diskVars
<1>20. CASE UNCHANGED vars
  BY <1>20, <1>b DEF vars, memVars, diskVars, histVars
<1> QED
  BY <1>1, <1>2, <1>3, <1>4, <1>5, <1>6, <1>7, <1>8, <1>9, <1>10, <1>11, <1>12, <1>13,
     <1>14, <1>15, <1>16, <1>17, <1>18, <1>19, <1>20 DEF Next, SaveStep

-----------------------------------------------------------------------------
(* What a load gives.                                                      *)

LEMMA ForwardFacts ==
  /\ \A a : Forward(a, a) /\ Forward(None, a)
  /\ \A a, b, c \in Status \cup {None} : Forward(a, b) /\ Forward(b, c) => Forward(a, c)
  /\ \A a \in Status \cup {None} :
       /\ Forward(a, None) => a = None
       /\ Forward(a, "running") => a \in {None, "running"}
  /\ \A a \in {"waiting"} \cup Final, b \in Status \cup {None} :
       Forward(a, b) => b \in {"waiting"} \cup Final
  BY SessionStoreAssumption DEF Forward, Status, Final

LEMMA SameFiles ==
  /\ UNCHANGED disk => \A s : LoadRuns(s)' = LoadRuns(s) /\ LoadSession(s)' = LoadSession(s)
  /\ UNCHANGED index => \A s : Stored(s)' = Stored(s)
  BY DEF LoadRuns, LoadSession, Stored

(* The runs of a session are loaded as they are in memory once its         *)
(* meta.json is written.                                                   *)
LEMMA RunsWritten ==
  ASSUME TypeOK, PassedInv, left # {}, NEW s \in listed,
         \A r \in Runs : <<"run", s, r>> \notin left,
         <<"sweep", s>> \notin left, <<"meta", s>> \notin left
  PROVE  \A r \in Runs : LoadRuns(s)[r] = mem[s].run[r]
<1>1. /\ \A r \in RunNames(s) : disk[s].run[r] = mem[s].run[r]
      /\ \A r \in Runs \ RunNames(s) : disk[s].run[r] = None
      /\ disk[s].meta = RunNames(s)
  BY DEF PassedInv, RunNames
<1> QED
  BY <1>1 DEF LoadRuns, RunNames

(* A file of a session changes what a load gives to what is in memory, or   *)
(* not at all.                                                             *)
LEMMA RunFileWritten ==
  ASSUME TypeOK, PassedInv, NEW s \in Sessions, NEW t \in listed, NEW q \in Runs,
         (\E r \in Runs : WriteRun(s, r)) \/ SweepRuns(s) \/ WriteMeta(s) \/ WriteTalk(s)
  PROVE  /\ LoadRuns(t)'[q] = LoadRuns(t)[q] \/ LoadRuns(t)'[q] = mem[t].run[q]
         /\ \A c \in Sessions : <<"remove", c>> \notin left
         /\ left # {} /\ UNCHANGED <<up, memVars, index, legacy, backup, synced, histVars>>
<1>a. /\ disk \in [Sessions -> Files] /\ t \in Sessions /\ disk[t] \in Files /\ disk[s] \in Files
  BY DEF TypeOK
<1>b. LoadRuns(t)[q] = IF disk[t].meta \in {None, {}} \/ q \in disk[t].meta
                       THEN disk[t].run[q] ELSE None
  BY DEF LoadRuns
<1>c. LoadRuns(t)'[q] = IF disk'[t].meta \in {None, {}} \/ q \in disk'[t].meta
                        THEN disk'[t].run[q] ELSE None
  BY DEF LoadRuns
<1>1. ASSUME NEW r \in Runs, WriteRun(s, r)
      PROVE  LoadRuns(t)'[q] = LoadRuns(t)[q] \/ LoadRuns(t)'[q] = mem[t].run[q]
  <2>1. /\ disk'[t].meta = disk[t].meta
        /\ disk'[t].run[q] = disk[t].run[q] \/ disk'[t].run[q] = mem[t].run[q]
    BY <1>a, <1>1 DEF WriteRun, Files
  <2> QED
    BY <1>b, <1>c, <2>1
<1>2. ASSUME SweepRuns(s)
      PROVE  LoadRuns(t)'[q] = LoadRuns(t)[q] \/ LoadRuns(t)'[q] = mem[t].run[q]
  <2>1. /\ disk'[t].meta = disk[t].meta
        /\ \/ disk'[t].run[q] = disk[t].run[q]
           \/ disk'[t].run[q] = None /\ mem[t].run[q] = None
    BY <1>a, <1>2 DEF SweepRuns, Files, RunNames
  <2> QED
    BY <1>b, <1>c, <2>1
<1>3. ASSUME WriteMeta(s)
      PROVE  LoadRuns(t)'[q] = LoadRuns(t)[q] \/ LoadRuns(t)'[q] = mem[t].run[q]
  <2>1. CASE t # s
    BY <1>a, <1>b, <1>c, <1>3, <2>1 DEF WriteMeta
  <2>2. CASE t = s
    <3>1. /\ disk'[t].meta = RunNames(t) /\ disk'[t].run = disk[t].run
      BY <1>a, <1>3, <2>2 DEF WriteMeta, Files
    <3>2. /\ \A r \in RunNames(t) : disk[t].run[r] = mem[t].run[r]
          /\ \A r \in Runs \ RunNames(t) : disk[t].run[r] = None
      BY <1>3, <2>2, ReadyMeta DEF WriteMeta, PassedInv, RunNames
    <3>3. LoadRuns(t)'[q] = IF RunNames(t) \in {None, {}} \/ q \in RunNames(t)
                            THEN disk[t].run[q] ELSE None
      BY <1>c, <3>1
    <3>4. CASE q \in RunNames(t)
      BY <3>2, <3>3, <3>4
    <3>5. CASE q \notin RunNames(t)
      BY <3>2, <3>3, <3>5 DEF RunNames
    <3> QED
      BY <3>4, <3>5
  <2> QED
    BY <2>1, <2>2
<1>4. ASSUME WriteTalk(s)
      PROVE  LoadRuns(t)'[q] = LoadRuns(t)[q]
  <2>1. disk'[t].meta = disk[t].meta /\ disk'[t].run = disk[t].run
    BY <1>a, <1>4 DEF WriteTalk, Files
  <2> QED
    BY <1>b, <1>c, <2>1
<1>5. /\ \A c \in Sessions : <<"remove", c>> \notin left
      /\ left # {} /\ UNCHANGED <<up, memVars, index, legacy, backup, synced, histVars>>
  BY ReadyRun, ReadySweep, ReadyMeta, ReadyTalk DEF WriteRun, SweepRuns, WriteMeta, WriteTalk
<1> QED
  BY <1>1, <1>2, <1>3, <1>4, <1>5

LEMMA OtherFiles ==
  ASSUME TypeOK, NEW s \in Sessions, NEW t \in Sessions, t # s, RemoveFile(s)
  PROVE  disk'[t] = disk[t] /\ LoadRuns(t)' = LoadRuns(t) /\ LoadSession(t)' = LoadSession(t)
<1>1. disk'[t] = disk[t]
  BY DEF RemoveFile, TypeOK
<1> QED
  BY <1>1 DEF LoadRuns, LoadSession

LEMMA LoadedRun ==
  ASSUME TypeOK, NEW s \in Sessions, NEW r \in Runs
  PROVE  /\ LoadRuns(s)[r] \in Status \cup {None} /\ mem[s].run[r] \in Status \cup {None}
         /\ LoadSession(s).run = LoadRuns(s) /\ mem[s].talk \subseteq Runs
         /\ LoadSession(s).talk \subseteq Runs
<1>1. mem[s] \in Records /\ LoadSession(s) \in Records /\ LoadSession(s).run = LoadRuns(s)
  BY LoadType DEF TypeOK, LoadSession
<1> QED
  BY <1>1 DEF Records

(* A session leaves no index, and what a load gives of it only moves       *)
(* forward.                                                                *)
LEMMA ForwardStep ==
  ASSUME TypeOK, LeftInv, PassedInv, ServedInv, AheadInv, [Next]_vars,
         NEW z \in Sessions, Stored(z), ~ blind'
  PROVE  /\ Stored(z)'
         /\ z \in torn' \/ \A q \in Runs : Forward(LoadRuns(z)[q], LoadRuns(z)'[q])
<1>a. UNCHANGED disk => \A q \in Runs : Forward(LoadRuns(z)[q], LoadRuns(z)'[q])
  BY SameFiles, ForwardFacts
<1>b. UNCHANGED index => Stored(z)'
  BY SameFiles
<1>c. left # {} => up
  BY DEF TypeOK
<1>d. left # {} /\ ~ blind => z \in listed
  BY <1>c DEF ServedInv, Stored

<1>1. ASSUME NEW s \in Chats, EnsureSession(s)
      PROVE  /\ Stored(z)'
             /\ z \in torn' \/ \A q \in Runs : Forward(LoadRuns(z)[q], LoadRuns(z)'[q])
  BY <1>1, <1>a, <1>b DEF EnsureSession, Saving, diskVars
<1>2. ASSUME NEW s \in Chats, ResetSession(s)
      PROVE  /\ Stored(z)'
             /\ z \in torn' \/ \A q \in Runs : Forward(LoadRuns(z)[q], LoadRuns(z)'[q])
  BY <1>2, <1>a, <1>b DEF ResetSession, Saving, diskVars
<1>3. ASSUME NEW s \in Sessions, NEW r \in Runs, NEW scheduled \in BOOLEAN,
             StartRun(s, r, scheduled)
      PROVE  /\ Stored(z)'
             /\ z \in torn' \/ \A q \in Runs : Forward(LoadRuns(z)[q], LoadRuns(z)'[q])
  BY <1>3, <1>a, <1>b DEF StartRun, Saving, diskVars
<1>4. ASSUME NEW s \in Sessions, NEW r \in Runs, NEW st \in {"waiting", "succeeded", "failed"},
             FinishRun(s, r, st)
      PROVE  /\ Stored(z)'
             /\ z \in torn' \/ \A q \in Runs : Forward(LoadRuns(z)[q], LoadRuns(z)'[q])
  BY <1>4, <1>a, <1>b DEF FinishRun, Saving, diskVars
<1>5. ASSUME NEW s \in Sessions, NEW r \in Runs, NEW st \in {"approved", "cancelled"},
             SettleRun(s, r, st)
      PROVE  /\ Stored(z)'
             /\ z \in torn' \/ \A q \in Runs : Forward(LoadRuns(z)[q], LoadRuns(z)'[q])
  BY <1>5, <1>a, <1>b DEF SettleRun, Saving, diskVars
<1>6. ASSUME NEW s \in Sessions, NEW r \in Runs, WriteRun(s, r)
      PROVE  /\ Stored(z)'
             /\ z \in torn' \/ \A q \in Runs : Forward(LoadRuns(z)[q], LoadRuns(z)'[q])
  <2>1. ~ blind /\ z \in listed
    BY <1>6, <1>d DEF WriteRun, histVars
  <2>2. ASSUME NEW q \in Runs
        PROVE  /\ LoadRuns(z)'[q] = LoadRuns(z)[q] \/ LoadRuns(z)'[q] = mem[z].run[q]
               /\ \A c \in Sessions : <<"remove", c>> \notin left
               /\ left # {} /\ UNCHANGED <<up, memVars, index, legacy, backup, synced, histVars>>
    BY <1>6, <2>1, RunFileWritten
  <2>3. ASSUME NEW q \in Runs, z \notin torn PROVE Forward(LoadRuns(z)[q], mem[z].run[q])
    BY <2>1, <2>2, <2>3, <1>c DEF AheadInv
  <2>4. UNCHANGED <<index, torn>>
    BY <1>6 DEF WriteRun, histVars
  <2> QED
    BY <1>b, <2>2, <2>3, <2>4, ForwardFacts
<1>7. ASSUME NEW s \in Sessions, SweepRuns(s)
      PROVE  /\ Stored(z)'
             /\ z \in torn' \/ \A q \in Runs : Forward(LoadRuns(z)[q], LoadRuns(z)'[q])
  <2>1. ~ blind /\ z \in listed
    BY <1>7, <1>d DEF SweepRuns, histVars
  <2>2. ASSUME NEW q \in Runs
        PROVE  /\ LoadRuns(z)'[q] = LoadRuns(z)[q] \/ LoadRuns(z)'[q] = mem[z].run[q]
               /\ \A c \in Sessions : <<"remove", c>> \notin left
               /\ left # {} /\ UNCHANGED <<up, memVars, index, legacy, backup, synced, histVars>>
    BY <1>7, <2>1, RunFileWritten
  <2>3. ASSUME NEW q \in Runs, z \notin torn PROVE Forward(LoadRuns(z)[q], mem[z].run[q])
    BY <2>1, <2>2, <2>3, <1>c DEF AheadInv
  <2>4. UNCHANGED <<index, torn>>
    BY <1>7 DEF SweepRuns, histVars
  <2> QED
    BY <1>b, <2>2, <2>3, <2>4, ForwardFacts
<1>8. ASSUME NEW s \in Sessions, WriteMeta(s)
      PROVE  /\ Stored(z)'
             /\ z \in torn' \/ \A q \in Runs : Forward(LoadRuns(z)[q], LoadRuns(z)'[q])
  <2>1. ~ blind /\ z \in listed
    BY <1>8, <1>d DEF WriteMeta, histVars
  <2>2. ASSUME NEW q \in Runs
        PROVE  /\ LoadRuns(z)'[q] = LoadRuns(z)[q] \/ LoadRuns(z)'[q] = mem[z].run[q]
               /\ \A c \in Sessions : <<"remove", c>> \notin left
               /\ left # {} /\ UNCHANGED <<up, memVars, index, legacy, backup, synced, histVars>>
    BY <1>8, <2>1, RunFileWritten
  <2>3. ASSUME NEW q \in Runs, z \notin torn PROVE Forward(LoadRuns(z)[q], mem[z].run[q])
    BY <2>1, <2>2, <2>3, <1>c DEF AheadInv
  <2>4. UNCHANGED <<index, torn>>
    BY <1>8 DEF WriteMeta, histVars
  <2> QED
    BY <1>b, <2>2, <2>3, <2>4, ForwardFacts
<1>9. ASSUME NEW s \in Sessions, WriteTalk(s)
      PROVE  /\ Stored(z)'
             /\ z \in torn' \/ \A q \in Runs : Forward(LoadRuns(z)[q], LoadRuns(z)'[q])
  <2>1. ~ blind /\ z \in listed
    BY <1>9, <1>d DEF WriteTalk, histVars
  <2>2. ASSUME NEW q \in Runs
        PROVE  /\ LoadRuns(z)'[q] = LoadRuns(z)[q] \/ LoadRuns(z)'[q] = mem[z].run[q]
               /\ \A c \in Sessions : <<"remove", c>> \notin left
               /\ left # {} /\ UNCHANGED <<up, memVars, index, legacy, backup, synced, histVars>>
    BY <1>9, <2>1, RunFileWritten
  <2>3. ASSUME NEW q \in Runs, z \notin torn PROVE Forward(LoadRuns(z)[q], mem[z].run[q])
    BY <2>1, <2>2, <2>3, <1>c DEF AheadInv
  <2>4. UNCHANGED <<index, torn>>
    BY <1>9 DEF WriteTalk, histVars
  <2> QED
    BY <1>b, <2>2, <2>3, <2>4, ForwardFacts
<1>10. ASSUME NEW s \in Sessions, RemoveSession(s)
       PROVE  /\ Stored(z)'
              /\ z \in torn' \/ \A q \in Runs : Forward(LoadRuns(z)[q], LoadRuns(z)'[q])
  <2>1. CASE z = s /\ UNCHANGED disk
    BY <1>10, <1>a, <1>b, <2>1 DEF RemoveSession
  <2>2. CASE z = s /\ torn' = torn \cup {s}
    BY <1>10, <1>b, <2>2 DEF RemoveSession
  <2>3. CASE z # s
    <3>1. UNCHANGED disk \/ LoadRuns(z)' = LoadRuns(z)
      BY <1>10, <2>3, OtherFiles DEF RemoveSession
    <3> QED
      BY <1>10, <1>a, <1>b, <3>1, ForwardFacts DEF RemoveSession
  <2> QED
    BY <1>10, <2>1, <2>2, <2>3 DEF RemoveSession
<1>11. ASSUME RemoveStrays
       PROVE  /\ Stored(z)'
              /\ z \in torn' \/ \A q \in Runs : Forward(LoadRuns(z)[q], LoadRuns(z)'[q])
  <2>1. z \in listed
    BY <1>11, <1>d DEF RemoveStrays, histVars
  <2>2. UNCHANGED disk \/ LoadRuns(z)' = LoadRuns(z)
    BY <1>11, <2>1, OtherFiles DEF RemoveStrays
  <2> QED
    BY <1>11, <1>a, <1>b, <2>2, ForwardFacts DEF RemoveStrays
<1>12. ASSUME WriteIndex
       PROVE  /\ Stored(z)'
              /\ z \in torn' \/ \A q \in Runs : Forward(LoadRuns(z)[q], LoadRuns(z)'[q])
  <2>1. z \in listed
    BY <1>12, <1>d DEF WriteIndex, histVars
  <2>2. listed # None
    BY SessionStoreAssumption DEF TypeOK, Sessions
  <2> QED
    BY <1>12, <1>a, <2>1, <2>2 DEF WriteIndex, Stored
<1>13. ASSUME ArchiveLegacy
       PROVE  /\ Stored(z)'
              /\ z \in torn' \/ \A q \in Runs : Forward(LoadRuns(z)[q], LoadRuns(z)'[q])
  BY <1>13, <1>a, <1>b DEF ArchiveLegacy, diskVars
<1>14. ASSUME SaveFails
       PROVE  /\ Stored(z)'
              /\ z \in torn' \/ \A q \in Runs : Forward(LoadRuns(z)[q], LoadRuns(z)'[q])
  BY <1>14, <1>a, <1>b DEF SaveFails, diskVars
<1>15. ASSUME Crash
       PROVE  /\ Stored(z)'
              /\ z \in torn' \/ \A q \in Runs : Forward(LoadRuns(z)[q], LoadRuns(z)'[q])
  BY <1>15, <1>a, <1>b DEF Crash, diskVars
<1>16. ASSUME LoadSplit
       PROVE  /\ Stored(z)'
              /\ z \in torn' \/ \A q \in Runs : Forward(LoadRuns(z)[q], LoadRuns(z)'[q])
  BY <1>16, <1>a, <1>b DEF LoadSplit, Starting, diskVars
<1>17. ASSUME LoadLegacy
       PROVE  /\ Stored(z)'
              /\ z \in torn' \/ \A q \in Runs : Forward(LoadRuns(z)[q], LoadRuns(z)'[q])
  BY <1>17, <1>a, <1>b DEF LoadLegacy, Starting, diskVars
<1>18. ASSUME LoadNothing
       PROVE  /\ Stored(z)'
              /\ z \in torn' \/ \A q \in Runs : Forward(LoadRuns(z)[q], LoadRuns(z)'[q])
  BY <1>18, <1>a, <1>b DEF LoadNothing, Starting, diskVars
<1>19. ASSUME LoadFails
       PROVE  /\ Stored(z)'
              /\ z \in torn' \/ \A q \in Runs : Forward(LoadRuns(z)[q], LoadRuns(z)'[q])
  BY <1>19, <1>a, <1>b DEF LoadFails, Starting, diskVars
<1>20. CASE UNCHANGED vars
  BY <1>20, <1>a, <1>b DEF vars, diskVars
<1> QED
  BY <1>1, <1>2, <1>3, <1>4, <1>5, <1>6, <1>7, <1>8, <1>9, <1>10, <1>11, <1>12, <1>13,
     <1>14, <1>15, <1>16, <1>17, <1>18, <1>19, <1>20 DEF Next, SaveStep

(* Memory stays ahead of what a load gives.                                *)
LEMMA AheadStep ==
  ASSUME TypeOK, LeftInv, PassedInv, ServedInv, LiveInv, AheadInv, [Next]_vars
  PROVE  AheadInv'
<1> SUFFICES ASSUME up', ~ blind', NEW z \in Sessions, z \notin torn', Stored(z)',
                    <<"remove", z>> \notin left', NEW q \in Runs
             PROVE  Forward(LoadRuns(z)'[q], mem'[z].run[q])
  BY DEF AheadInv
<1>a. ASSUME up, ~ blind, z \notin torn, Stored(z), <<"remove", z>> \notin left
      PROVE  Forward(LoadRuns(z)[q], mem[z].run[q])
  BY <1>a DEF AheadInv
<1>b. /\ UNCHANGED disk => LoadRuns(z)' = LoadRuns(z)
      /\ UNCHANGED index => Stored(z)
  BY SameFiles
<1>c. left # {} => up
  BY DEF TypeOK
<1>d. /\ LoadRuns(z)[q] \in Status \cup {None} /\ mem[z].run[q] \in Status \cup {None}
      /\ mem \in [Sessions -> Records] /\ mem[z] \in Records
  BY LoadedRun DEF TypeOK
<1>e. up /\ ~ blind /\ Stored(z) => z \in listed
  BY DEF ServedInv, Stored

<1>1. ASSUME NEW s \in Chats, EnsureSession(s)
      PROVE  Forward(LoadRuns(z)'[q], mem'[z].run[q])
  <2>1. /\ up /\ ~ blind /\ z \notin torn /\ Stored(z) /\ <<"remove", z>> \notin left
        /\ LoadRuns(z)' = LoadRuns(z)
    BY <1>1, <1>b DEF EnsureSession, Saving, Idle, diskVars, histVars
  <2> QED
    BY <1>1, <1>a, <1>d, <1>e, <2>1 DEF EnsureSession
<1>2. ASSUME NEW s \in Chats, ResetSession(s)
      PROVE  Forward(LoadRuns(z)'[q], mem'[z].run[q])
  <2>1. /\ up /\ ~ blind /\ z \notin torn /\ Stored(z) /\ <<"remove", z>> \notin left
        /\ LoadRuns(z)' = LoadRuns(z)
    BY <1>2, <1>b DEF ResetSession, Saving, Idle, diskVars, histVars
  <2>2. z # s
    BY <1>2 DEF ResetSession
  <2> QED
    BY <1>2, <1>a, <1>d, <2>1, <2>2 DEF ResetSession
<1>3. ASSUME NEW s \in Sessions, NEW r \in Runs, NEW scheduled \in BOOLEAN,
             StartRun(s, r, scheduled)
      PROVE  Forward(LoadRuns(z)'[q], mem'[z].run[q])
  <2>1. /\ up /\ ~ blind /\ z \notin torn /\ Stored(z) /\ <<"remove", z>> \notin left
        /\ LoadRuns(z)' = LoadRuns(z)
    BY <1>3, <1>b DEF StartRun, Saving, Idle, diskVars, histVars
  <2>2. z = s /\ q = r => LoadRuns(z)[q] = None
    BY <1>3 DEF StartRun, Unused, LoadRuns
  <2>3. mem'[z].run[q] = IF z = s /\ q = r THEN "running" ELSE mem[z].run[q]
    BY <1>3, <1>d DEF StartRun, Records
  <2>4. CASE z = s /\ q = r
    BY <2>1, <2>2, <2>3, <2>4, ForwardFacts
  <2>5. CASE ~ (z = s /\ q = r)
    BY <1>a, <2>1, <2>3, <2>5
  <2> QED
    BY <2>4, <2>5
<1>4. ASSUME NEW s \in Sessions, NEW r \in Runs, NEW st \in {"waiting", "succeeded", "failed"},
             FinishRun(s, r, st)
      PROVE  Forward(LoadRuns(z)'[q], mem'[z].run[q])
  <2>1. /\ up /\ ~ blind /\ z \notin torn /\ Stored(z) /\ <<"remove", z>> \notin left
        /\ LoadRuns(z)' = LoadRuns(z)
    BY <1>4, <1>b DEF FinishRun, Saving, Idle, diskVars, histVars
  <2>2. mem[s].run[r] \in {None, "running"}
    BY <1>4 DEF FinishRun, LiveInv
  <2>3. mem'[z].run[q] = IF z = s /\ q = r THEN st ELSE mem[z].run[q]
    BY <1>4, <1>d DEF FinishRun, Records
  <2>4. CASE z = s /\ q = r
    <3>1. Forward(LoadRuns(z)[q], mem[z].run[q])
      BY <1>a, <2>1
    <3>2. LoadRuns(z)[q] \in {None, "running"}
      <4>1. Forward(LoadRuns(z)[q], None) \/ Forward(LoadRuns(z)[q], "running")
        BY <2>2, <2>4, <3>1
      <4> QED
        BY <1>d, <4>1, ForwardFacts
    <3>3. Forward("running", st) /\ Forward(None, st)
      BY SessionStoreAssumption DEF Forward
    <3> QED
      BY <2>1, <2>3, <2>4, <3>2, <3>3
  <2>5. CASE ~ (z = s /\ q = r)
    BY <1>a, <2>1, <2>3, <2>5
  <2> QED
    BY <2>4, <2>5
<1>5. ASSUME NEW s \in Sessions, NEW r \in Runs, NEW st \in {"approved", "cancelled"},
             SettleRun(s, r, st)
      PROVE  Forward(LoadRuns(z)'[q], mem'[z].run[q])
  <2>1. /\ up /\ ~ blind /\ z \notin torn /\ Stored(z) /\ <<"remove", z>> \notin left
        /\ LoadRuns(z)' = LoadRuns(z)
    BY <1>5, <1>b DEF SettleRun, Saving, Idle, diskVars, histVars
  <2>2. mem'[z].run[q] = IF z = s /\ q = r THEN st ELSE mem[z].run[q]
    BY <1>5, <1>d DEF SettleRun, Records
  <2>3. Forward("waiting", st) /\ st \in Status
    BY SessionStoreAssumption DEF Forward, Status, Final
  <2>4. z = s /\ q = r => mem[z].run[q] = "waiting"
    BY <1>5 DEF SettleRun
  <2>5. CASE z = s /\ q = r
    <3>1. Forward(LoadRuns(z)[q], "waiting")
      BY <1>a, <2>1, <2>4, <2>5
    <3>2. "waiting" \in Status
      BY DEF Status
    <3>3. Forward(LoadRuns(z)[q], st)
      BY <1>d, <2>3, <3>1, <3>2, ForwardFacts
    <3> QED
      BY <2>1, <2>2, <2>5, <3>3
  <2>6. CASE ~ (z = s /\ q = r)
    BY <1>a, <2>1, <2>2, <2>6
  <2> QED
    BY <2>5, <2>6
<1>6. ASSUME NEW s \in Sessions, NEW r \in Runs, WriteRun(s, r)
      PROVE  Forward(LoadRuns(z)'[q], mem'[z].run[q])
  <2>1. /\ up /\ ~ blind /\ z \notin torn /\ Stored(z) /\ mem' = mem
    BY <1>6, <1>b DEF WriteRun, memVars, histVars
  <2>2. /\ LoadRuns(z)'[q] = LoadRuns(z)[q] \/ LoadRuns(z)'[q] = mem[z].run[q]
        /\ <<"remove", z>> \notin left
    BY <1>6, <1>e, <2>1, RunFileWritten
  <2> QED
    BY <1>a, <2>1, <2>2, ForwardFacts
<1>7. ASSUME NEW s \in Sessions, SweepRuns(s)
      PROVE  Forward(LoadRuns(z)'[q], mem'[z].run[q])
  <2>1. /\ up /\ ~ blind /\ z \notin torn /\ Stored(z) /\ mem' = mem
    BY <1>7, <1>b DEF SweepRuns, memVars, histVars
  <2>2. /\ LoadRuns(z)'[q] = LoadRuns(z)[q] \/ LoadRuns(z)'[q] = mem[z].run[q]
        /\ <<"remove", z>> \notin left
    BY <1>7, <1>e, <2>1, RunFileWritten
  <2> QED
    BY <1>a, <2>1, <2>2, ForwardFacts
<1>8. ASSUME NEW s \in Sessions, WriteMeta(s)
      PROVE  Forward(LoadRuns(z)'[q], mem'[z].run[q])
  <2>1. /\ up /\ ~ blind /\ z \notin torn /\ Stored(z) /\ mem' = mem
    BY <1>8, <1>b DEF WriteMeta, memVars, histVars
  <2>2. /\ LoadRuns(z)'[q] = LoadRuns(z)[q] \/ LoadRuns(z)'[q] = mem[z].run[q]
        /\ <<"remove", z>> \notin left
    BY <1>8, <1>e, <2>1, RunFileWritten
  <2> QED
    BY <1>a, <2>1, <2>2, ForwardFacts
<1>9. ASSUME NEW s \in Sessions, WriteTalk(s)
      PROVE  Forward(LoadRuns(z)'[q], mem'[z].run[q])
  <2>1. /\ up /\ ~ blind /\ z \notin torn /\ Stored(z) /\ mem' = mem
    BY <1>9, <1>b DEF WriteTalk, memVars, histVars
  <2>2. /\ LoadRuns(z)'[q] = LoadRuns(z)[q] \/ LoadRuns(z)'[q] = mem[z].run[q]
        /\ <<"remove", z>> \notin left
    BY <1>9, <1>e, <2>1, RunFileWritten
  <2> QED
    BY <1>a, <2>1, <2>2, ForwardFacts
<1>10. ASSUME NEW s \in Sessions, RemoveSession(s)
       PROVE  Forward(LoadRuns(z)'[q], mem'[z].run[q])
  <2>1. up /\ ~ blind /\ Stored(z) /\ mem' = mem
    BY <1>10, <1>b DEF RemoveSession, memVars
  <2>2. CASE z = s
    <3>1. disk' = disk /\ disk[z] = NoFiles
      BY <1>10, <2>2 DEF RemoveSession
    <3>2. LoadRuns(z)'[q] = None
      BY <3>1 DEF LoadRuns, NoFiles
    <3> QED
      BY <3>2, ForwardFacts
  <2>3. CASE z # s
    <3>1. z \notin torn /\ <<"remove", z>> \notin left
      BY <1>10, <2>3 DEF RemoveSession
    <3>2. UNCHANGED disk \/ LoadRuns(z)' = LoadRuns(z)
      BY <1>10, <2>3, OtherFiles DEF RemoveSession
    <3> QED
      BY <1>a, <1>b, <2>1, <3>1, <3>2
  <2> QED
    BY <2>2, <2>3
<1>11. ASSUME RemoveStrays PROVE Forward(LoadRuns(z)'[q], mem'[z].run[q])
  <2>1. up /\ ~ blind /\ Stored(z) /\ mem' = mem /\ z \notin torn
    BY <1>11, <1>b DEF RemoveStrays, memVars, histVars
  <2>2. <<"remove", z>> \notin left
    BY <1>11, ReadyDirs DEF RemoveStrays
  <2>3. UNCHANGED disk \/ LoadRuns(z)' = LoadRuns(z)
    BY <1>11, <1>e, <2>1, OtherFiles DEF RemoveStrays
  <2> QED
    BY <1>a, <1>b, <2>1, <2>2, <2>3
<1>12. ASSUME WriteIndex PROVE Forward(LoadRuns(z)'[q], mem'[z].run[q])
  <2>1. z \in listed /\ mem' = mem /\ disk' = disk
    BY <1>12 DEF WriteIndex, Stored
  <2>2. LoadSession(z) = mem[z]
    BY <1>12, <2>1, ReadyIndex, PassedIsLoaded DEF WriteIndex, TypeOK
  <2> QED
    BY <1>b, <2>1, <2>2, LoadedRun, ForwardFacts
<1>13. ASSUME ArchiveLegacy PROVE Forward(LoadRuns(z)'[q], mem'[z].run[q])
  BY <1>13, <1>a, <1>b DEF ArchiveLegacy, memVars, diskVars, histVars
<1>14. ASSUME SaveFails PROVE Forward(LoadRuns(z)'[q], mem'[z].run[q])
  BY <1>14, <1>a, <1>b, <1>c DEF SaveFails, diskVars, histVars
<1>15. ASSUME Crash PROVE Forward(LoadRuns(z)'[q], mem'[z].run[q])
  BY <1>15 DEF Crash
<1>16. ASSUME LoadSplit PROVE Forward(LoadRuns(z)'[q], mem'[z].run[q])
  <2>1. z \in index /\ LoadRuns(z)' = LoadRuns(z)
    BY <1>16, <1>b DEF LoadSplit, Starting, diskVars, Stored
  <2>2. mem'[z] = Interrupted(LoadSession(z)) /\ LoadSession(z) \in Records
    BY <1>16, <2>1, LoadType DEF LoadSplit
  <2>3. mem'[z].run[q] = IF LoadRuns(z)[q] = "running" THEN "failed" ELSE LoadRuns(z)[q]
    BY <2>2, LoadedRun DEF Interrupted, Records
  <2> QED
    BY <2>1, <2>3, ForwardFacts, SessionStoreAssumption DEF Forward
<1>17. ASSUME LoadLegacy PROVE Forward(LoadRuns(z)'[q], mem'[z].run[q])
  BY <1>17 DEF LoadLegacy, Starting, diskVars, Stored
<1>18. ASSUME LoadNothing PROVE Forward(LoadRuns(z)'[q], mem'[z].run[q])
  BY <1>18 DEF LoadNothing, Starting, diskVars, Stored
<1>19. ASSUME LoadFails PROVE Forward(LoadRuns(z)'[q], mem'[z].run[q])
  BY <1>19 DEF LoadFails
<1>20. CASE UNCHANGED vars
  BY <1>20, <1>a, <1>b DEF vars, memVars, diskVars, histVars
<1> QED
  BY <1>1, <1>2, <1>3, <1>4, <1>5, <1>6, <1>7, <1>8, <1>9, <1>10, <1>11, <1>12, <1>13,
     <1>14, <1>15, <1>16, <1>17, <1>18, <1>19, <1>20 DEF Next, SaveStep

(* The runs of a conversation in memory have ended.                        *)
LEMMA TalkStep ==
  ASSUME TypeOK, LeftInv, TalkInv, TalkHasRuns, [Next]_vars
  PROVE  TalkInv'
<1> DEFINE Ended == {"waiting"} \cup Final
<1> SUFFICES ASSUME ~ blind', NEW z \in Sessions, z \notin torn', NEW q \in mem'[z].talk
             PROVE  mem'[z].run[q] \in Ended
  BY DEF TalkInv
<1>a. ASSUME ~ blind, z \notin torn, q \in mem[z].talk
      PROVE  mem[z].run[q] \in Ended /\ q \in Runs
  BY <1>a DEF TalkInv, TypeOK, Records
<1>b. /\ mem \in [Sessions -> Records] /\ mem[z] \in Records /\ NoRecords.talk = {}
  BY DEF TypeOK, NoRecords
<1>c. None \notin Ended
  BY SessionStoreAssumption DEF Final
<1> HIDE DEF Ended

<1>1. ASSUME NEW s \in Chats, EnsureSession(s) PROVE mem'[z].run[q] \in Ended
  BY <1>1, <1>a, <1>b DEF EnsureSession, Saving, histVars
<1>2. ASSUME NEW s \in Chats, ResetSession(s) PROVE mem'[z].run[q] \in Ended
  BY <1>2, <1>a, <1>b DEF ResetSession, Saving, histVars
<1>3. ASSUME NEW s \in Sessions, NEW r \in Runs, NEW scheduled \in BOOLEAN,
             StartRun(s, r, scheduled)
      PROVE  mem'[z].run[q] \in Ended
  <2>1. /\ mem'[z].talk = mem[z].talk
        /\ mem'[z].run[q] = IF z = s /\ q = r THEN "running" ELSE mem[z].run[q]
    <3>1. mem'[z].talk = mem[z].talk
      BY <1>3, <1>b DEF StartRun, Records
    <3>2. q \in Runs
      BY <1>b, <3>1 DEF Records
    <3> QED
      BY <1>3, <1>b, <3>1, <3>2 DEF StartRun, Records
  <2>2. mem[z].run[q] \in Ended
    BY <1>3, <1>a, <2>1 DEF StartRun, Saving, histVars
  <2>3. mem[s].run[r] = None
    BY <1>3 DEF StartRun, Unused
  <2> QED
    BY <1>c, <2>1, <2>2, <2>3
<1>4. ASSUME NEW s \in Sessions, NEW r \in Runs, NEW st \in {"waiting", "succeeded", "failed"},
             FinishRun(s, r, st)
      PROVE  mem'[z].run[q] \in Ended
  <2>1. /\ q \in mem[z].talk \/ (z = s /\ q = r /\ st \in Answers)
        /\ q \in Runs
    <3>1. mem'[z].talk = IF z = s /\ st \in Answers THEN mem[z].talk \cup {r} ELSE mem[z].talk
      BY <1>4, <1>b DEF FinishRun, Records
    <3>2. q \in mem[z].talk \/ (z = s /\ q = r /\ st \in Answers)
      BY <3>1
    <3>3. mem[z].talk \subseteq Runs
      BY <1>b DEF Records
    <3> QED
      BY <3>2, <3>3
  <2>2. mem'[z].run[q] = IF z = s /\ q = r THEN st ELSE mem[z].run[q]
    BY <1>4, <1>b, <2>1 DEF FinishRun, Records
  <2>3. st \in Ended
    BY DEF Ended, Final
  <2>4. ~ blind /\ z \notin torn
    BY <1>4 DEF FinishRun, Saving, histVars
  <2> QED
    BY <1>a, <2>1, <2>2, <2>3, <2>4
<1>5. ASSUME NEW s \in Sessions, NEW r \in Runs, NEW st \in {"approved", "cancelled"},
             SettleRun(s, r, st)
      PROVE  mem'[z].run[q] \in Ended
  <2>1. mem'[z].talk = mem[z].talk
    BY <1>5, <1>b DEF SettleRun, Records
  <2>2. mem[z].run[q] \in Ended /\ q \in Runs
    BY <1>5, <1>a, <2>1 DEF SettleRun, Saving, histVars
  <2>3. mem'[z].run[q] = IF z = s /\ q = r THEN st ELSE mem[z].run[q]
    BY <1>5, <1>b, <2>2 DEF SettleRun, Records
  <2>4. st \in Ended
    BY DEF Ended, Final
  <2> QED
    BY <2>2, <2>3, <2>4
<1>6. ASSUME NEW s \in Sessions, NEW r \in Runs, WriteRun(s, r)
      PROVE  mem'[z].run[q] \in Ended
  BY <1>6, <1>a DEF WriteRun, memVars, histVars
<1>7. ASSUME NEW s \in Sessions, SweepRuns(s) PROVE mem'[z].run[q] \in Ended
  BY <1>7, <1>a DEF SweepRuns, memVars, histVars
<1>8. ASSUME NEW s \in Sessions, WriteMeta(s) PROVE mem'[z].run[q] \in Ended
  BY <1>8, <1>a DEF WriteMeta, memVars, histVars
<1>9. ASSUME NEW s \in Sessions, WriteTalk(s) PROVE mem'[z].run[q] \in Ended
  BY <1>9, <1>a DEF WriteTalk, memVars, histVars
<1>10. ASSUME NEW s \in Sessions, RemoveSession(s) PROVE mem'[z].run[q] \in Ended
  <2>1. CASE torn' = torn \ {s}
    <3>1. <<"remove", s>> \in left /\ mem' = mem /\ ~ blind
      BY <1>10, <2>1 DEF RemoveSession, memVars
    <3>2. mem[s].talk = {}
      BY <1>b, <3>1 DEF LeftInv
    <3> QED
      BY <1>a, <2>1, <3>1, <3>2
  <2>2. CASE torn' = torn \cup {s}
    BY <1>10, <1>a, <2>2 DEF RemoveSession, memVars
  <2> QED
    BY <1>10, <2>1, <2>2 DEF RemoveSession
<1>11. ASSUME RemoveStrays PROVE mem'[z].run[q] \in Ended
  BY <1>11, <1>a DEF RemoveStrays, memVars, histVars
<1>12. ASSUME WriteIndex PROVE mem'[z].run[q] \in Ended
  BY <1>12, <1>a DEF WriteIndex, memVars, histVars
<1>13. ASSUME ArchiveLegacy PROVE mem'[z].run[q] \in Ended
  BY <1>13, <1>a DEF ArchiveLegacy, memVars, histVars
<1>14. ASSUME SaveFails PROVE mem'[z].run[q] \in Ended
  BY <1>14, <1>a DEF SaveFails
<1>15. ASSUME Crash PROVE mem'[z].run[q] \in Ended
  BY <1>15, <1>b DEF Crash
<1>16. ASSUME LoadSplit PROVE mem'[z].run[q] \in Ended
  <2>1. z \in index /\ Stored(z) /\ LoadSession(z) \in Records
    BY <1>16, <1>b, LoadType DEF LoadSplit, Starting, Stored
  <2>2. mem'[z] = Interrupted(LoadSession(z))
    BY <1>16, <2>1 DEF LoadSplit
  <2>3. q \in LoadSession(z).talk /\ q \in Runs
    BY <2>1, <2>2 DEF Interrupted, Records
  <2>4. LoadRuns(z)[q] \in Ended
    BY <1>16, <2>1, <2>3 DEF LoadSplit, histVars, TalkHasRuns, Ended
  <2>5. mem'[z].run[q] = IF LoadRuns(z)[q] = "running" THEN "failed" ELSE LoadRuns(z)[q]
    BY <2>1, <2>2, <2>3, LoadedRun DEF Interrupted, Records
  <2> QED
    BY <2>4, <2>5 DEF Ended, Final
<1>17. ASSUME LoadLegacy PROVE mem'[z].run[q] \in Ended
  <2>1. PICK f \in Fresh :
          mem' = [mem EXCEPT ![f] =
                   [run  |-> [r \in Runs |-> IF r \in LegacyRuns THEN "succeeded" ELSE None],
                    talk |-> LegacyRuns]]
    BY <1>17 DEF LoadLegacy
  <2>2. CASE z = f
    <3>1. q \in LegacyRuns /\ q \in Runs
      BY <1>b, <2>1, <2>2, SessionStoreAssumption
    <3>2. mem'[z].run[q] = "succeeded"
      BY <1>b, <2>1, <2>2, <3>1
    <3> QED
      BY <3>2 DEF Ended, Final
  <2>3. CASE z # f
    BY <1>17, <1>a, <1>b, <2>1, <2>3 DEF LoadLegacy, histVars
  <2> QED
    BY <2>2, <2>3
<1>18. ASSUME LoadNothing PROVE mem'[z].run[q] \in Ended
  BY <1>18, <1>a DEF LoadNothing, histVars
<1>19. ASSUME LoadFails PROVE mem'[z].run[q] \in Ended
  BY <1>19 DEF LoadFails
<1>20. CASE UNCHANGED vars
  BY <1>20, <1>a DEF vars, memVars, diskVars, histVars
<1> QED
  BY <1>1, <1>2, <1>3, <1>4, <1>5, <1>6, <1>7, <1>8, <1>9, <1>10, <1>11, <1>12, <1>13,
     <1>14, <1>15, <1>16, <1>17, <1>18, <1>19, <1>20 DEF Next, SaveStep

(* The runs of a conversation that a load gives have ended.                *)
LEMMA TalkHasRunsStep ==
  ASSUME TypeOK, LeftInv, PassedInv, ServedInv, AheadInv, TalkInv, TalkHasRuns, [Next]_vars
  PROVE  TalkHasRuns'
<1> DEFINE Ended == {"waiting"} \cup Final
<1> SUFFICES ASSUME ~ blind', NEW z \in Sessions, z \notin torn', Stored(z)',
                    NEW q \in LoadSession(z)'.talk
             PROVE  LoadRuns(z)'[q] \in Ended
  BY DEF TalkHasRuns
<1>a. ASSUME ~ blind, z \notin torn, Stored(z), q \in LoadSession(z).talk
      PROVE  LoadRuns(z)[q] \in Ended /\ q \in Runs
  BY <1>a, LoadType DEF TalkHasRuns, Records
<1>b. ASSUME z \notin torn, ~ blind, q \in mem[z].talk
      PROVE  mem[z].run[q] \in Ended /\ q \in Runs
  BY <1>b DEF TalkInv, TypeOK, Records
<1>c. /\ UNCHANGED disk => /\ LoadRuns(z)' = LoadRuns(z)
                           /\ LoadSession(z)' = LoadSession(z)
      /\ UNCHANGED index => Stored(z)
  BY SameFiles
<1>d. /\ LoadSession(z).talk = IF disk[z].talk = None THEN {} ELSE disk[z].talk
      /\ LoadSession(z)'.talk = IF disk'[z].talk = None THEN {} ELSE disk'[z].talk
  BY DEF LoadSession
<1>e. left # {} => up
  BY DEF TypeOK
<1>f. disk \in [Sessions -> Files] /\ disk[z] \in Files
  BY DEF TypeOK
<1>g. up /\ ~ blind /\ Stored(z) => z \in listed
  BY DEF ServedInv, Stored
<1> HIDE DEF Ended
<1>h. \A a \in Ended : Forward(a, None) => FALSE
  BY SessionStoreAssumption DEF Ended, Forward, Final

<1>1. ASSUME NEW s \in Chats, EnsureSession(s) PROVE LoadRuns(z)'[q] \in Ended
  BY <1>1, <1>a, <1>c DEF EnsureSession, Saving, diskVars, histVars
<1>2. ASSUME NEW s \in Chats, ResetSession(s) PROVE LoadRuns(z)'[q] \in Ended
  BY <1>2, <1>a, <1>c DEF ResetSession, Saving, diskVars, histVars
<1>3. ASSUME NEW s \in Sessions, NEW r \in Runs, NEW scheduled \in BOOLEAN,
             StartRun(s, r, scheduled)
      PROVE  LoadRuns(z)'[q] \in Ended
  BY <1>3, <1>a, <1>c DEF StartRun, Saving, diskVars, histVars
<1>4. ASSUME NEW s \in Sessions, NEW r \in Runs, NEW st \in {"waiting", "succeeded", "failed"},
             FinishRun(s, r, st)
      PROVE  LoadRuns(z)'[q] \in Ended
  BY <1>4, <1>a, <1>c DEF FinishRun, Saving, diskVars, histVars
<1>5. ASSUME NEW s \in Sessions, NEW r \in Runs, NEW st \in {"approved", "cancelled"},
             SettleRun(s, r, st)
      PROVE  LoadRuns(z)'[q] \in Ended
  BY <1>5, <1>a, <1>c DEF SettleRun, Saving, diskVars, histVars
<1>6. ASSUME NEW s \in Sessions, NEW r \in Runs, WriteRun(s, r)
      PROVE  LoadRuns(z)'[q] \in Ended
  <2>1. ~ blind /\ z \notin torn /\ Stored(z) /\ left # {}
    BY <1>6, <1>c DEF WriteRun, histVars
  <2>2. LoadSession(z)'.talk = LoadSession(z).talk
    BY <1>6, <1>d, <1>f DEF WriteRun, Files
  <2>3. LoadRuns(z)[q] \in Ended /\ q \in Runs /\ z \in listed
    BY <1>a, <1>e, <1>g, <2>1, <2>2
  <2>4. /\ LoadRuns(z)'[q] = LoadRuns(z)[q] \/ LoadRuns(z)'[q] = mem[z].run[q]
        /\ <<"remove", z>> \notin left
    BY <1>6, <2>3, RunFileWritten
  <2>5. Forward(LoadRuns(z)[q], mem[z].run[q])
    BY <1>e, <2>1, <2>3, <2>4 DEF AheadInv
  <2>6. mem[z].run[q] \in Ended
    BY <2>3, <2>5, LoadedRun, ForwardFacts DEF Ended
  <2> QED
    BY <2>3, <2>4, <2>6
<1>7. ASSUME NEW s \in Sessions, SweepRuns(s) PROVE LoadRuns(z)'[q] \in Ended
  <2>1. ~ blind /\ z \notin torn /\ Stored(z) /\ left # {}
    BY <1>7, <1>c DEF SweepRuns, histVars
  <2>2. LoadSession(z)'.talk = LoadSession(z).talk
    BY <1>7, <1>d, <1>f DEF SweepRuns, Files
  <2>3. LoadRuns(z)[q] \in Ended /\ q \in Runs /\ z \in listed
    BY <1>a, <1>e, <1>g, <2>1, <2>2
  <2>4. /\ LoadRuns(z)'[q] = LoadRuns(z)[q] \/ LoadRuns(z)'[q] = mem[z].run[q]
        /\ <<"remove", z>> \notin left
    BY <1>7, <2>3, RunFileWritten
  <2>5. Forward(LoadRuns(z)[q], mem[z].run[q])
    BY <1>e, <2>1, <2>3, <2>4 DEF AheadInv
  <2>6. mem[z].run[q] \in Ended
    BY <2>3, <2>5, LoadedRun, ForwardFacts DEF Ended
  <2> QED
    BY <2>3, <2>4, <2>6
<1>8. ASSUME NEW s \in Sessions, WriteMeta(s) PROVE LoadRuns(z)'[q] \in Ended
  <2>1. ~ blind /\ z \notin torn /\ Stored(z) /\ left # {}
    BY <1>8, <1>c DEF WriteMeta, histVars
  <2>2. LoadSession(z)'.talk = LoadSession(z).talk
    BY <1>8, <1>d, <1>f DEF WriteMeta, Files
  <2>3. LoadRuns(z)[q] \in Ended /\ q \in Runs /\ z \in listed
    BY <1>a, <1>e, <1>g, <2>1, <2>2
  <2>4. /\ LoadRuns(z)'[q] = LoadRuns(z)[q] \/ LoadRuns(z)'[q] = mem[z].run[q]
        /\ <<"remove", z>> \notin left
    BY <1>8, <2>3, RunFileWritten
  <2>5. Forward(LoadRuns(z)[q], mem[z].run[q])
    BY <1>e, <2>1, <2>3, <2>4 DEF AheadInv
  <2>6. mem[z].run[q] \in Ended
    BY <2>3, <2>5, LoadedRun, ForwardFacts DEF Ended
  <2> QED
    BY <2>3, <2>4, <2>6
<1>9. ASSUME NEW s \in Sessions, WriteTalk(s) PROVE LoadRuns(z)'[q] \in Ended
  <2>1. ~ blind /\ z \notin torn /\ Stored(z) /\ left # {}
    BY <1>9, <1>c DEF WriteTalk, histVars
  <2>2. z \in listed
    BY <1>e, <1>g, <2>1
  <2>3. disk'[z].meta = disk[z].meta /\ disk'[z].run = disk[z].run
    BY <1>9, <1>f DEF WriteTalk, Files
  <2>4. LoadRuns(z)' = LoadRuns(z)
    BY <2>3 DEF LoadRuns
  <2>5. CASE z = s
    <3>1. q \in mem[z].talk
      BY <1>9, <1>d, <1>f, <2>5 DEF WriteTalk, Files
    <3>2. \A r \in Runs : LoadRuns(z)[r] = mem[z].run[r]
      BY <1>9, <2>1, <2>2, <2>5, ReadyTalk, RunsWritten DEF WriteTalk
    <3> QED
      BY <1>b, <2>1, <2>4, <3>1, <3>2
  <2>6. CASE z # s
    <3>1. disk'[z].talk = disk[z].talk
      BY <1>9, <1>f, <2>6 DEF WriteTalk
    <3> QED
      BY <1>a, <1>d, <2>1, <2>4, <3>1
  <2> QED
    BY <2>5, <2>6
<1>10. ASSUME NEW s \in Sessions, RemoveSession(s) PROVE LoadRuns(z)'[q] \in Ended
  <2>1. CASE z = s
    <3>1. disk' = disk /\ disk[z] = NoFiles
      BY <1>10, <2>1 DEF RemoveSession
    <3>2. LoadSession(z)'.talk = {}
      BY <1>d, <3>1 DEF NoFiles
    <3> QED
      BY <3>2
  <2>2. CASE z # s
    <3>1. ~ blind /\ z \notin torn /\ Stored(z)
      BY <1>10, <1>c, <2>2 DEF RemoveSession
    <3>2. LoadRuns(z)' = LoadRuns(z) /\ LoadSession(z)' = LoadSession(z)
      <4>1. CASE RemoveFile(s)
        BY <2>2, <4>1, OtherFiles
      <4>2. CASE UNCHANGED disk
        BY <1>c, <4>2
      <4> QED
        BY <1>10, <4>1, <4>2 DEF RemoveSession
    <3> QED
      BY <1>a, <1>c, <3>1, <3>2
  <2> QED
    BY <2>1, <2>2
<1>11. ASSUME RemoveStrays PROVE LoadRuns(z)'[q] \in Ended
  <2>1. ~ blind /\ z \notin torn /\ Stored(z) /\ z \in listed
    BY <1>11, <1>c, <1>e, <1>g DEF RemoveStrays, histVars
  <2>2. LoadRuns(z)' = LoadRuns(z) /\ LoadSession(z)' = LoadSession(z)
    <3>1. ASSUME NEW s \in Sessions \ listed, RemoveFile(s)
          PROVE  LoadRuns(z)' = LoadRuns(z) /\ LoadSession(z)' = LoadSession(z)
      BY <2>1, <3>1, OtherFiles
    <3>2. CASE UNCHANGED disk
      BY <1>c, <3>2
    <3> QED
      BY <1>11, <3>1, <3>2 DEF RemoveStrays
  <2> QED
    BY <1>a, <1>c, <2>1, <2>2
<1>12. ASSUME WriteIndex PROVE LoadRuns(z)'[q] \in Ended
  <2>1. z \in listed /\ disk' = disk /\ ~ blind /\ z \notin torn
    BY <1>12 DEF WriteIndex, Stored, histVars
  <2>2. LoadSession(z) = mem[z]
    BY <1>12, <2>1, ReadyIndex, PassedIsLoaded DEF WriteIndex, TypeOK
  <2>3. LoadRuns(z) = mem[z].run
    BY <2>2 DEF LoadSession
  <2> QED
    BY <1>b, <1>c, <2>1, <2>2, <2>3
<1>13. ASSUME ArchiveLegacy PROVE LoadRuns(z)'[q] \in Ended
  BY <1>13, <1>a, <1>c DEF ArchiveLegacy, memVars, diskVars, histVars
<1>14. ASSUME SaveFails PROVE LoadRuns(z)'[q] \in Ended
  BY <1>14, <1>a, <1>c DEF SaveFails, diskVars
<1>15. ASSUME Crash PROVE LoadRuns(z)'[q] \in Ended
  BY <1>15, <1>a, <1>c DEF Crash, diskVars
<1>16. ASSUME LoadSplit PROVE LoadRuns(z)'[q] \in Ended
  BY <1>16, <1>a, <1>c DEF LoadSplit, Starting, diskVars, histVars
<1>17. ASSUME LoadLegacy PROVE LoadRuns(z)'[q] \in Ended
  BY <1>17, <1>a, <1>c DEF LoadLegacy, Starting, diskVars, histVars
<1>18. ASSUME LoadNothing PROVE LoadRuns(z)'[q] \in Ended
  BY <1>18, <1>a, <1>c DEF LoadNothing, Starting, diskVars, histVars
<1>19. ASSUME LoadFails PROVE LoadRuns(z)'[q] \in Ended
  BY <1>19 DEF LoadFails
<1>20. CASE UNCHANGED vars
  BY <1>20, <1>a, <1>c DEF vars, memVars, diskVars, histVars
<1> QED
  BY <1>1, <1>2, <1>3, <1>4, <1>5, <1>6, <1>7, <1>8, <1>9, <1>10, <1>11, <1>12, <1>13,
     <1>14, <1>15, <1>16, <1>17, <1>18, <1>19, <1>20 DEF Next, SaveStep

(* The runs of the old file stay in the session that the load made for      *)
(* them.                                                                   *)
LEMMA MigratedStep ==
  ASSUME TypeOK, LeftInv, PassedInv, LiveInv, MigratedInv, [Next]_vars
  PROVE  MigratedInv'
<1> DEFINE Goal == /\ index' = None => legacy'
                   /\ up' \/ index' # None =>
                        \E f \in Fresh : (up' => InMemory(f)') /\ (index' # None => OnDisk(f)')
<1> SUFFICES ASSUME legacy' \/ backup', ~ blind' PROVE Goal
  BY DEF MigratedInv
<1>a. ASSUME legacy \/ backup, ~ blind
      PROVE  /\ index = None => legacy
             /\ up \/ index # None =>
                  \E f \in Fresh : (up => InMemory(f)) /\ (index # None => OnDisk(f))
  BY <1>a DEF MigratedInv
<1>b. ASSUME UNCHANGED <<index, disk>>, NEW f \in Fresh, OnDisk(f) PROVE OnDisk(f)'
  BY <1>b, SameFiles DEF OnDisk
<1>c. ASSUME UNCHANGED <<listed, mem>>, NEW f \in Fresh, InMemory(f) PROVE InMemory(f)'
  BY <1>c DEF InMemory
<1>d. ASSUME UNCHANGED <<up, legacy, backup, blind, index>>,
             \A f \in Fresh :
               /\ up /\ InMemory(f) => InMemory(f)'
               /\ (up => InMemory(f)) /\ OnDisk(f) => OnDisk(f)'
      PROVE  Goal
  BY <1>a, <1>d
<1>e. \A f \in Fresh : f \in Sessions /\ f \notin Chats /\ mem[f] \in Records /\ disk[f] \in Files
  BY SessionStoreAssumption DEF TypeOK, Sessions
<1>f. LegacyRuns \subseteq Runs
  BY SessionStoreAssumption
<1>g. \A f \in Fresh : InMemory(f) => f \in listed
  BY DEF InMemory
<1>h. /\ left # {} => up
      /\ mem \in [Sessions -> Records] /\ disk \in [Sessions -> Files]
  BY DEF TypeOK
<1>k. ASSUME NEW f \in Fresh
      PROVE  /\ LoadSession(f).run = LoadRuns(f)
             /\ LoadSession(f)'.run = LoadRuns(f)'
             /\ LoadSession(f)'.talk = IF disk'[f].talk = None THEN {} ELSE disk'[f].talk
             /\ LoadSession(f).talk = IF disk[f].talk = None THEN {} ELSE disk[f].talk
  BY DEF LoadSession
<1> HIDE DEF Goal

<1>1. ASSUME NEW s \in Chats, EnsureSession(s) PROVE Goal
  <2>1. ASSUME NEW f \in Fresh, InMemory(f) PROVE InMemory(f)'
    BY <1>1, <1>e, <1>h, <2>1 DEF InMemory, EnsureSession
  <2>2. UNCHANGED <<up, legacy, backup, blind, index, disk>>
    BY <1>1 DEF EnsureSession, Saving, diskVars, histVars
  <2> QED
    BY <1>b, <1>d, <2>1, <2>2
<1>2. ASSUME NEW s \in Chats, ResetSession(s) PROVE Goal
  <2>1. ASSUME NEW f \in Fresh, InMemory(f) PROVE InMemory(f)'
    BY <1>2, <1>e, <1>h, <2>1 DEF InMemory, ResetSession
  <2>2. UNCHANGED <<up, legacy, backup, blind, index, disk>>
    BY <1>2 DEF ResetSession, Saving, diskVars, histVars
  <2> QED
    BY <1>b, <1>d, <2>1, <2>2
<1>3. ASSUME NEW s \in Sessions, NEW r \in Runs, NEW scheduled \in BOOLEAN,
             StartRun(s, r, scheduled)
      PROVE  Goal
  <2>1. ASSUME NEW f \in Fresh, InMemory(f) PROVE InMemory(f)'
    BY <1>3, <1>e, <1>f, <1>h, <2>1 DEF InMemory, StartRun, Records
  <2>2. UNCHANGED <<up, legacy, backup, blind, index, disk>>
    BY <1>3 DEF StartRun, Saving, diskVars, histVars
  <2> QED
    BY <1>b, <1>d, <2>1, <2>2
<1>4. ASSUME NEW s \in Sessions, NEW r \in Runs, NEW st \in {"waiting", "succeeded", "failed"},
             FinishRun(s, r, st)
      PROVE  Goal
  <2>1. ASSUME NEW f \in Fresh, InMemory(f) PROVE InMemory(f)'
    <3>1. r \notin LegacyRuns
      BY <1>4 DEF FinishRun, LiveInv
    <3>2. mem[f].talk \subseteq mem'[f].talk
      BY <1>4, <1>e, <1>h DEF FinishRun, Records
    <3>3. \A q \in LegacyRuns : mem'[f].run[q] = mem[f].run[q]
      BY <1>4, <1>e, <1>f, <1>h, <3>1 DEF FinishRun, Records
    <3> QED
      BY <1>4, <2>1, <3>2, <3>3 DEF InMemory, FinishRun
  <2>2. UNCHANGED <<up, legacy, backup, blind, index, disk>>
    BY <1>4 DEF FinishRun, Saving, diskVars, histVars
  <2> QED
    BY <1>b, <1>d, <2>1, <2>2
<1>5. ASSUME NEW s \in Sessions, NEW r \in Runs, NEW st \in {"approved", "cancelled"},
             SettleRun(s, r, st)
      PROVE  Goal
  <2>1. ASSUME NEW f \in Fresh, InMemory(f) PROVE InMemory(f)'
    BY <1>5, <1>e, <1>f, <1>h, <2>1 DEF InMemory, SettleRun, Records
  <2>2. UNCHANGED <<up, legacy, backup, blind, index, disk>>
    BY <1>5 DEF SettleRun, Saving, diskVars, histVars
  <2> QED
    BY <1>b, <1>d, <2>1, <2>2
<1>6. ASSUME NEW s \in Sessions, NEW r \in Runs, WriteRun(s, r) PROVE Goal
  <2>1. UNCHANGED <<up, legacy, backup, blind, index, listed, mem>> /\ left # {}
    BY <1>6 DEF WriteRun, memVars, histVars
  <2>2. ASSUME NEW f \in Fresh, InMemory(f), OnDisk(f) PROVE OnDisk(f)'
    <3>1. ASSUME NEW q \in LegacyRuns PROVE LoadRuns(f)'[q] = "succeeded"
      <4>1. LoadRuns(f)'[q] = LoadRuns(f)[q] \/ LoadRuns(f)'[q] = mem[f].run[q]
        BY <1>6, <1>f, <1>g, <2>2, RunFileWritten
      <4> QED
        BY <2>2, <4>1 DEF InMemory, OnDisk
    <3>2. disk'[f].talk = disk[f].talk \/ disk'[f].talk = mem[f].talk
      BY <1>6, <1>e, <1>h DEF WriteRun, Files
    <3>3. mem[f].talk # None
      BY <1>e, SessionStoreAssumption DEF Records
    <3>4. LegacyRuns \subseteq LoadSession(f)'.talk
      BY <1>k, <2>2, <3>2, <3>3 DEF InMemory, OnDisk
    <3> QED
      BY <2>1, <2>2, <3>1, <3>4 DEF InMemory, OnDisk
  <2> QED
    BY <1>c, <1>d, <1>h, <2>1, <2>2
<1>7. ASSUME NEW s \in Sessions, SweepRuns(s) PROVE Goal
  <2>1. UNCHANGED <<up, legacy, backup, blind, index, listed, mem>> /\ left # {}
    BY <1>7 DEF SweepRuns, memVars, histVars
  <2>2. ASSUME NEW f \in Fresh, InMemory(f), OnDisk(f) PROVE OnDisk(f)'
    <3>1. ASSUME NEW q \in LegacyRuns PROVE LoadRuns(f)'[q] = "succeeded"
      <4>1. LoadRuns(f)'[q] = LoadRuns(f)[q] \/ LoadRuns(f)'[q] = mem[f].run[q]
        BY <1>7, <1>f, <1>g, <2>2, RunFileWritten
      <4> QED
        BY <2>2, <4>1 DEF InMemory, OnDisk
    <3>2. disk'[f].talk = disk[f].talk \/ disk'[f].talk = mem[f].talk
      BY <1>7, <1>e, <1>h DEF SweepRuns, Files
    <3>3. mem[f].talk # None
      BY <1>e, SessionStoreAssumption DEF Records
    <3>4. LegacyRuns \subseteq LoadSession(f)'.talk
      BY <1>k, <2>2, <3>2, <3>3 DEF InMemory, OnDisk
    <3> QED
      BY <2>1, <2>2, <3>1, <3>4 DEF InMemory, OnDisk
  <2> QED
    BY <1>c, <1>d, <1>h, <2>1, <2>2
<1>8. ASSUME NEW s \in Sessions, WriteMeta(s) PROVE Goal
  <2>1. UNCHANGED <<up, legacy, backup, blind, index, listed, mem>> /\ left # {}
    BY <1>8 DEF WriteMeta, memVars, histVars
  <2>2. ASSUME NEW f \in Fresh, InMemory(f), OnDisk(f) PROVE OnDisk(f)'
    <3>1. ASSUME NEW q \in LegacyRuns PROVE LoadRuns(f)'[q] = "succeeded"
      <4>1. LoadRuns(f)'[q] = LoadRuns(f)[q] \/ LoadRuns(f)'[q] = mem[f].run[q]
        BY <1>8, <1>f, <1>g, <2>2, RunFileWritten
      <4> QED
        BY <2>2, <4>1 DEF InMemory, OnDisk
    <3>2. disk'[f].talk = disk[f].talk \/ disk'[f].talk = mem[f].talk
      BY <1>8, <1>e, <1>h DEF WriteMeta, Files
    <3>3. mem[f].talk # None
      BY <1>e, SessionStoreAssumption DEF Records
    <3>4. LegacyRuns \subseteq LoadSession(f)'.talk
      BY <1>k, <2>2, <3>2, <3>3 DEF InMemory, OnDisk
    <3> QED
      BY <2>1, <2>2, <3>1, <3>4 DEF InMemory, OnDisk
  <2> QED
    BY <1>c, <1>d, <1>h, <2>1, <2>2
<1>9. ASSUME NEW s \in Sessions, WriteTalk(s) PROVE Goal
  <2>1. UNCHANGED <<up, legacy, backup, blind, index, listed, mem>> /\ left # {}
    BY <1>9 DEF WriteTalk, memVars, histVars
  <2>2. ASSUME NEW f \in Fresh, InMemory(f), OnDisk(f) PROVE OnDisk(f)'
    <3>1. ASSUME NEW q \in LegacyRuns PROVE LoadRuns(f)'[q] = "succeeded"
      <4>1. LoadRuns(f)'[q] = LoadRuns(f)[q] \/ LoadRuns(f)'[q] = mem[f].run[q]
        BY <1>9, <1>f, <1>g, <2>2, RunFileWritten
      <4> QED
        BY <2>2, <4>1 DEF InMemory, OnDisk
    <3>2. disk'[f].talk = disk[f].talk \/ disk'[f].talk = mem[f].talk
      BY <1>9, <1>e, <1>h DEF WriteTalk, Files
    <3>3. mem[f].talk # None
      BY <1>e, SessionStoreAssumption DEF Records
    <3>4. LegacyRuns \subseteq LoadSession(f)'.talk
      BY <1>k, <2>2, <3>2, <3>3 DEF InMemory, OnDisk
    <3> QED
      BY <2>1, <2>2, <3>1, <3>4 DEF InMemory, OnDisk
  <2> QED
    BY <1>c, <1>d, <1>h, <2>1, <2>2
<1>10. ASSUME NEW s \in Sessions, RemoveSession(s) PROVE Goal
  <2>1. /\ UNCHANGED <<up, legacy, backup, blind, index, listed, mem>>
        /\ left # {} /\ s \in Chats
    BY <1>10 DEF RemoveSession, memVars, LeftInv
  <2>2. ASSUME NEW f \in Fresh PROVE LoadRuns(f)' = LoadRuns(f) /\ LoadSession(f)' = LoadSession(f)
    <3>1. CASE RemoveFile(s)
      BY <1>e, <2>1, <3>1, OtherFiles
    <3>2. CASE UNCHANGED disk
      BY <3>2, SameFiles
    <3> QED
      BY <1>10, <3>1, <3>2 DEF RemoveSession
  <2> QED
    BY <1>c, <1>d, <2>1, <2>2 DEF OnDisk
<1>11. ASSUME RemoveStrays PROVE Goal
  <2>1. UNCHANGED <<up, legacy, backup, blind, index, listed, mem>> /\ left # {}
    BY <1>11 DEF RemoveStrays, memVars, histVars
  <2>2. ASSUME NEW f \in Fresh, f \in listed
        PROVE  LoadRuns(f)' = LoadRuns(f) /\ LoadSession(f)' = LoadSession(f)
    <3>1. ASSUME NEW s \in Sessions \ listed, RemoveFile(s)
          PROVE  LoadRuns(f)' = LoadRuns(f) /\ LoadSession(f)' = LoadSession(f)
      BY <1>e, <2>2, <3>1, OtherFiles
    <3>2. CASE UNCHANGED disk
      BY <3>2, SameFiles
    <3> QED
      BY <1>11, <3>1, <3>2 DEF RemoveStrays
  <2> QED
    BY <1>c, <1>d, <1>g, <1>h, <2>1, <2>2 DEF OnDisk
<1>12. ASSUME WriteIndex PROVE Goal
  <2>1. UNCHANGED <<up, legacy, backup, blind, listed, mem, disk>> /\ up /\ index' = listed
    BY <1>12, <1>h DEF WriteIndex, histVars
  <2>2. PICK f \in Fresh : InMemory(f)
    BY <1>a, <2>1
  <2>3. LoadSession(f) = mem[f]
    BY <1>12, <1>g, <2>2, ReadyIndex, PassedIsLoaded DEF WriteIndex, TypeOK
  <2>4. LoadRuns(f) = mem[f].run
    BY <1>k, <2>3
  <2>5. InMemory(f)' /\ OnDisk(f)'
    BY <2>1, <2>2, <2>3, <2>4, SameFiles DEF InMemory, OnDisk
  <2>6. listed # None
    BY SessionStoreAssumption DEF TypeOK, Sessions
  <2> QED
    BY <2>1, <2>5, <2>6 DEF Goal
<1>13. ASSUME ArchiveLegacy PROVE Goal
  <2>1. /\ UNCHANGED <<up, blind, listed, mem, index, disk>> /\ up /\ legacy
        /\ left = {<<"archive">>}
    BY <1>13, <1>h, ReadyArchive DEF ArchiveLegacy, LeftInv, memVars, histVars
  <2>2. index = listed /\ listed # None
    BY <2>1, SessionStoreAssumption DEF PassedInv, TypeOK, Sessions
  <2>3. PICK f \in Fresh : InMemory(f) /\ OnDisk(f)
    BY <1>a, <2>1, <2>2
  <2> QED
    BY <1>b, <1>c, <2>1, <2>2, <2>3 DEF Goal
<1>14. ASSUME SaveFails PROVE Goal
  <2>1. UNCHANGED <<up, legacy, backup, blind, index, disk, listed, mem>>
    BY <1>14 DEF SaveFails, diskVars
  <2> QED
    BY <1>b, <1>c, <1>d, <2>1
<1>15. ASSUME Crash PROVE Goal
  <2>1. ~ up' /\ UNCHANGED <<legacy, backup, blind, index, disk>>
    BY <1>15 DEF Crash, diskVars
  <2> QED
    BY <1>a, <1>b, <2>1 DEF Goal
<1>16. ASSUME LoadSplit PROVE Goal
  <2>1. /\ UNCHANGED <<legacy, backup, blind, index, disk>>
        /\ index # None /\ listed' = index /\ ~ up
    BY <1>16 DEF LoadSplit, Starting, diskVars, histVars
  <2>2. PICK f \in Fresh : OnDisk(f)
    BY <1>a, <2>1
  <2>3. f \in index /\ LoadSession(f) \in Records
    BY <1>e, <2>2, LoadType DEF OnDisk
  <2>4. mem'[f] = Interrupted(LoadSession(f))
    BY <1>16, <1>e, <2>3 DEF LoadSplit
  <2>5. InMemory(f)'
    <3>1. mem'[f].talk = LoadSession(f).talk
      BY <2>3, <2>4 DEF Interrupted, Records
    <3>2. ASSUME NEW q \in LegacyRuns PROVE mem'[f].run[q] = "succeeded"
      <4>1. LoadRuns(f)[q] = "succeeded" /\ LoadSession(f).run = LoadRuns(f)
        BY <1>k, <2>2 DEF OnDisk
      <4> QED
        BY <1>f, <2>3, <2>4, <4>1 DEF Interrupted, Records
    <3> QED
      BY <2>1, <2>2, <3>1, <3>2 DEF InMemory, OnDisk
  <2> QED
    BY <1>a, <1>b, <2>1, <2>2, <2>5 DEF Goal
<1>17. ASSUME LoadLegacy PROVE Goal
  <2>1. UNCHANGED <<legacy, index>> /\ index = None /\ legacy
    BY <1>17 DEF LoadLegacy, Starting, diskVars
  <2>2. PICK f \in Fresh :
          /\ listed' = {f}
          /\ mem' = [mem EXCEPT ![f] =
                       [run  |-> [r \in Runs |-> IF r \in LegacyRuns THEN "succeeded" ELSE None],
                        talk |-> LegacyRuns]]
    BY <1>17 DEF LoadLegacy
  <2>3. InMemory(f)'
    BY <1>e, <1>f, <1>h, <2>2 DEF InMemory
  <2> QED
    BY <2>1, <2>3 DEF Goal
<1>18. ASSUME LoadNothing PROVE Goal
  BY <1>18, <1>a DEF LoadNothing, Starting, diskVars, histVars
<1>19. ASSUME LoadFails PROVE Goal
  BY <1>19 DEF LoadFails
<1>20. CASE UNCHANGED vars
  <2>1. UNCHANGED <<up, legacy, backup, blind, index, disk, listed, mem>>
    BY <1>20 DEF vars, memVars, diskVars, histVars
  <2> QED
    BY <1>b, <1>c, <1>d, <2>1
<1> QED
  BY <1>1, <1>2, <1>3, <1>4, <1>5, <1>6, <1>7, <1>8, <1>9, <1>10, <1>11, <1>12, <1>13,
     <1>14, <1>15, <1>16, <1>17, <1>18, <1>19, <1>20 DEF Next, SaveStep

LEMMA MigratedIsKept ==
  TypeOK /\ ChatsInv /\ MigratedInv => LegacyKept
<1> SUFFICES ASSUME TypeOK, ChatsInv, MigratedInv, LegacyRuns # {}, legacy \/ backup, ~ blind, index # None
             PROVE  Cardinality({s \in index : /\ LegacyRuns \subseteq LoadSession(s).talk
                                               /\ \A r \in LegacyRuns : LoadRuns(s)[r] = "succeeded"}) = 1
  BY DEF LegacyKept, MigratedInv
<1> DEFINE Kept == {s \in index : /\ LegacyRuns \subseteq LoadSession(s).talk
                                  /\ \A r \in LegacyRuns : LoadRuns(s)[r] = "succeeded"}
<1>1. PICK f \in Fresh : OnDisk(f)
  BY DEF MigratedInv
<1>2. ASSUME NEW s \in Kept PROVE s = f
  <2>1. CASE s \in Chats
    <3>1. PICK r \in LegacyRuns : TRUE
      OBVIOUS
    <3>2. LoadRuns(s)[r] = None
      BY <2>1, SessionStoreAssumption DEF ChatsInv, LoadRuns
    <3> QED
      BY <3>1, <3>2, SessionStoreAssumption
  <2>2. CASE s \in Fresh
    BY <1>1, <2>2 DEF OnDisk
  <2> QED
    BY <2>1, <2>2 DEF TypeOK, Sessions
<1>3. f \in Kept
  BY <1>1 DEF OnDisk
<1>4. Kept = {f}
  BY <1>2, <1>3
<1>5. Cardinality({f}) = 1
  BY FS_Singleton
<1> QED
  BY <1>4, <1>5

-----------------------------------------------------------------------------
(* The theorems.                                                           *)

DiskInv ==
  /\ TypeOK /\ LeftInv /\ PassedInv /\ SavedIsLoaded /\ ServedInv /\ LiveInv
  /\ AheadInv /\ TalkInv /\ TalkHasRuns /\ ChatsInv /\ MigratedInv

LEMMA DiskInvInit ==
  Init => DiskInv
<1> SUFFICES ASSUME Init PROVE DiskInv
  OBVIOUS
<1>1. TypeOK
  <2>1. NoRecords \in Records /\ NoFiles \in Files
    BY DEF NoRecords, NoFiles, Records, Files
  <2>2. /\ listed = {} /\ torn = {} /\ live = {} /\ givesUp = {} /\ left = {} /\ index = None
        /\ crashes = 0 /\ faults = 0
    BY DEF Init
  <2>3. crashes \in 0 .. MaxMishaps /\ faults \in 0 .. MaxFaults
    BY <2>2, SessionStoreAssumption
  <2>4. mem \in [Sessions -> Records] /\ disk \in [Sessions -> Files]
    BY <2>1 DEF Init
  <2> QED
    BY <2>2, <2>3, <2>4 DEF Init, TypeOK
<1>2. LeftInv /\ PassedInv /\ SavedIsLoaded /\ ServedInv /\ LiveInv /\ AheadInv
  BY DEF Init, LeftInv, PassedInv, SavedIsLoaded, Idle, ServedInv, LiveInv, AheadInv
<1>3. TalkInv /\ TalkHasRuns
  BY DEF Init, TalkInv, TalkHasRuns, Stored, NoRecords
<1>4. ChatsInv
  BY SessionStoreAssumption DEF Init, ChatsInv, NoRecords, NoFiles, Sessions
<1>5. MigratedInv
  BY DEF Init, MigratedInv
<1> QED
  BY <1>1, <1>2, <1>3, <1>4, <1>5 DEF DiskInv

LEMMA DiskInvStep ==
  DiskInv /\ [Next]_vars => DiskInv'
  BY TypeStep, LeftStep, PassedStep, SavedStep, ServedStep, LiveStep, AheadStep, TalkStep,
     TalkHasRunsStep, ChatsStep, MigratedStep
  DEF DiskInv

(* What a process has saved is what the next one finds (session_store.go,   *)
(* saveSplitLocked and loadSplitLocked).                                   *)
THEOREM SessionsAreSaved == Spec => []StoreInv
<1>1. DiskInv => StoreInv
  BY DEF DiskInv, StoreInv
<1> QED
  BY <1>1, DiskInvInit, DiskInvStep, PTL DEF Spec

(* Wherever a crash cuts a save, a conversation on the disk belongs to runs *)
(* that are on the disk and have ended.                                    *)
THEOREM ConversationsHaveRuns == Spec => []TalkHasRuns
<1>1. DiskInv => TalkHasRuns
  BY DEF DiskInv
<1> QED
  BY <1>1, DiskInvInit, DiskInvStep, PTL DEF Spec

(* The runs of an older version's file are in one place a load reads.      *)
THEOREM LegacyRunsAreKept == Spec => []LegacyKept
<1>1. DiskInv => LegacyKept
  BY MigratedIsKept DEF DiskInv
<1> QED
  BY <1>1, DiskInvInit, DiskInvStep, PTL DEF Spec

(* What a load would give only moves forward, whatever fails or crashes.    *)
THEOREM DiskMovesForward == Spec => DurableForward
<1>1. DiskInv /\ [Next]_vars =>
        [\A s \in Sessions :
           Stored(s) /\ ~ blind' =>
             /\ Stored(s)'
             /\ s \in torn' \/ \A r \in Runs : Forward(LoadRuns(s)[r], LoadRuns(s)'[r])]_vars
  BY ForwardStep DEF DiskInv
<1> QED
  BY <1>1, DiskInvInit, DiskInvStep, PTL DEF Spec, DurableForward

====
