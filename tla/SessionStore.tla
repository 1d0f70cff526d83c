---------------------------- MODULE SessionStore ----------------------------
(***************************************************************************)
(* The session store: the sessions in memory and the files they are saved  *)
(* to.  Every operation changes memory and then rewrites all files, one    *)
(* after another, under one mutex; each file is replaced atomically, the   *)
(* save as a whole is not.  The process may die, and a write, a removal or *)
(* the load may fail, between any two files.                               *)
(*                                                                         *)
(* A run record is its status, a conversation the set of runs whose turn   *)
(* is in it.  messages.json stands for todos.json too: both follow         *)
(* meta.json and neither is read with another file.  A save takes its      *)
(* sessions, and the runs of a session, in an order left open here.        *)
(***************************************************************************)
EXTENDS Naturals, FiniteSets

CONSTANTS Chats,       (* sessions named by their channel                  *)
          Fresh,       (* ids the store makes up for a session of its own  *)
          Runs,
          LegacyRuns,  (* the runs in session.json of an older version     *)
          None,        (* no file, no record                               *)
          MaxMishaps,  (* bound: how often the process dies or a file       *)
                       (* operation fails                                   *)
          MaxFaults    (* bound: how many file operations fail             *)

ASSUME SessionStoreAssumption ==
  /\ Chats \cap Fresh = {} /\ LegacyRuns \subseteq Runs
  /\ IsFiniteSet(Chats \cup Fresh) /\ IsFiniteSet(Runs)
  /\ MaxMishaps \in Nat /\ MaxFaults \in Nat
  /\ None \notin {"running", "waiting", "succeeded", "failed", "approved", "cancelled"}
  /\ \A sessions \in SUBSET (Chats \cup Fresh) : None # sessions
  /\ \A runs \in SUBSET Runs : None # runs

Sessions == Chats \cup Fresh
Answers  == {"waiting", "succeeded"}
Final    == {"succeeded", "failed", "approved", "cancelled"}
Status   == {"running", "waiting"} \cup Final

VARIABLES
  up,       (* the process runs                                            *)
  listed,   (* snapshot.Sessions: the sessions in memory                   *)
  mem,      (* session -> run records and conversation in memory           *)
  live,     (* runs being executed by this process, with their session     *)
  left,     (* what the save that holds the mutex has still to do          *)
  givesUp,  (* runs that are not executed if this save fails               *)
  index,    (* index.json: the sessions it names, or None                  *)
  disk,     (* session -> its files                                        *)
  legacy,   (* session.json is there                                       *)
  backup,   (* session.legacy.json is there                                *)
  synced,   (* history: the last save succeeded, or the load needed none   *)
  torn,     (* history: sessions whose removal began or failed, not ended *)
  blind,    (* history: a load failed and the server went on without it    *)
  crashes, faults

memVars  == <<listed, mem, live, givesUp>>
diskVars == <<index, disk, legacy, backup>>
histVars == <<torn, blind, crashes, faults>>
vars == <<up, memVars, left, diskVars, synced, histVars>>

Idle == up /\ left = {}

NoRecords == [run |-> [r \in Runs |-> None], talk |-> {}]
NoFiles   == [meta |-> None, talk |-> None, run |-> [r \in Runs |-> None]]

-----------------------------------------------------------------------------
(* Reading the files.                                                      *)

(* The records of a session: those meta.json lists, or every run file there *)
(* is when it lists none.                                                  *)
LoadRuns(s) ==
  [r \in Runs |-> IF disk[s].meta \in {None, {}} \/ r \in disk[s].meta
                  THEN disk[s].run[r] ELSE None]

LoadSession(s) ==
  [run  |-> LoadRuns(s),
   talk |-> IF disk[s].talk = None THEN {} ELSE disk[s].talk]

Stored(s) == index # None /\ s \in index

(* Mutant: everything that did not succeed is marked.                      *)
InterruptedAll(session) ==
  [session EXCEPT !.run = [r \in Runs |-> IF @[r] \in {None, "succeeded"} THEN @[r] ELSE "failed"]]

(* markInterruptedRunsLocked: nobody executes a run that was running.      *)
Interrupted(session) ==
  [session EXCEPT !.run = [r \in Runs |-> IF @[r] = "running" THEN "failed" ELSE @[r]]]

-----------------------------------------------------------------------------
(* Writing the files.                                                      *)

(* Mutant: no cleanup of run files.                                        *)
SessionOpsNoSweep(s) ==
  {<<"run", s, r>> : r \in {q \in Runs : mem'[s].run[q] # None}}
    \cup {<<"meta", s>>, <<"talk", s>>}

(* The file operations of a save, and which of them must wait for others.  *)
SessionOps(s) ==
  {<<"run", s, r>> : r \in {q \in Runs : mem'[s].run[q] # None}}
    \cup {<<"sweep", s>>, <<"meta", s>>, <<"talk", s>>}

SaveOps == {<<"dirs">>, <<"index">>} \cup UNION {SessionOps(s) : s \in listed'}

(* Mutant: the conversation is written before the runs.                    *)
StageTalkFirst ==
  [remove |-> 0, talk |-> 1, run |-> 2, sweep |-> 3, meta |-> 4, dirs |-> 5, index |-> 6,
   archive |-> 7]

(* Mutant: the old file is archived before the index names its session.    *)
StageArchiveEarly ==
  [remove |-> 0, run |-> 1, sweep |-> 2, meta |-> 3, talk |-> 4, dirs |-> 5, archive |-> 6,
   index |-> 7]

(* The order of a save: a reset's removal, each session's files, the stray  *)
(* directories, the index, and the old file at last.                       *)
Stage ==
  [remove |-> 0, run |-> 1, sweep |-> 2, meta |-> 3, talk |-> 4, dirs |-> 5, index |-> 6,
   archive |-> 7]

Ready(op) ==
  \A other \in left :
    Stage[other[1]] < Stage[op[1]] =>
      /\ Stage[op[1]] < Stage["dirs"] /\ other[1] # "remove"
      /\ other[2] # op[2]

RunNames(s) == {r \in Runs : mem[s].run[r] # None}

WriteRun(s, r) ==
  /\ <<"run", s, r>> \in left /\ Ready(<<"run", s, r>>)
  /\ disk' = [disk EXCEPT ![s].run[r] = mem[s].run[r]]
  /\ left' = left \ {<<"run", s, r>>}
  /\ UNCHANGED <<up, memVars, index, legacy, backup, synced, histVars>>

(* cleanupRunFilesLocked, one file or the end of it.                       *)
SweepRuns(s) ==
  LET stale == {r \in Runs \ RunNames(s) : disk[s].run[r] # None} IN
  /\ <<"sweep", s>> \in left /\ Ready(<<"sweep", s>>)
  /\ \/ /\ stale = {}
        /\ left' = left \ {<<"sweep", s>>}
        /\ UNCHANGED disk
     \/ /\ \E r \in stale : disk' = [disk EXCEPT ![s].run[r] = None]
        /\ UNCHANGED left
  /\ UNCHANGED <<up, memVars, index, legacy, backup, synced, histVars>>

WriteMeta(s) ==
  /\ <<"meta", s>> \in left /\ Ready(<<"meta", s>>)
  /\ disk' = [disk EXCEPT ![s].meta = RunNames(s)]
  /\ left' = left \ {<<"meta", s>>}
  /\ UNCHANGED <<up, memVars, index, legacy, backup, synced, histVars>>

WriteTalk(s) ==
  /\ <<"talk", s>> \in left /\ Ready(<<"talk", s>>)
  /\ disk' = [disk EXCEPT ![s].talk = mem[s].talk]
  /\ left' = left \ {<<"talk", s>>}
  /\ UNCHANGED <<up, memVars, index, legacy, backup, synced, histVars>>

(* os.RemoveAll takes the files of a directory in any order.               *)
RemoveFile(s) ==
  \/ disk[s].meta # None /\ disk' = [disk EXCEPT ![s].meta = None]
  \/ disk[s].talk # None /\ disk' = [disk EXCEPT ![s].talk = None]
  \/ \E r \in Runs : disk[s].run[r] # None /\ disk' = [disk EXCEPT ![s].run[r] = None]

(* ResetSession removes the directory before it saves.                     *)
RemoveSession(s) ==
  /\ <<"remove", s>> \in left
  /\ \/ /\ disk[s] = NoFiles
        /\ left' = left \ {<<"remove", s>>}
        /\ torn' = torn \ {s}
        /\ UNCHANGED disk
     \/ RemoveFile(s) /\ torn' = torn \cup {s} /\ UNCHANGED left
  /\ UNCHANGED <<up, memVars, index, legacy, backup, synced, blind, crashes, faults>>

(* cleanupSessionDirsLocked: the directories of sessions not in memory.    *)
RemoveStrays ==
  LET strays == {s \in Sessions \ listed : disk[s] # NoFiles} IN
  /\ <<"dirs">> \in left /\ Ready(<<"dirs">>)
  /\ \/ strays = {} /\ left' = left \ {<<"dirs">>} /\ UNCHANGED disk
     \/ (\E s \in strays : RemoveFile(s)) /\ UNCHANGED left
  /\ UNCHANGED <<up, memVars, index, legacy, backup, synced, histVars>>

(* The index is the last file of a save; a first load archives after it.   *)
WriteIndex ==
  /\ <<"index">> \in left /\ Ready(<<"index">>)
  /\ index' = listed
  /\ left' = left \ {<<"index">>}
  /\ synced' = TRUE
  /\ givesUp' = {}
  /\ UNCHANGED <<up, listed, mem, live, disk, legacy, backup, histVars>>

ArchiveLegacy ==
  /\ <<"archive">> \in left /\ Ready(<<"archive">>)
  /\ legacy' = FALSE
  /\ backup' = TRUE
  /\ left' = left \ {<<"archive">>}
  /\ UNCHANGED <<up, memVars, index, disk, synced, histVars>>

(* The bound of failing file operations.                                   *)
MayFail == faults < MaxFaults /\ crashes + faults < MaxMishaps

(* An error of any of these operations ends the save; memory keeps the     *)
(* change.  Only the start of a scheduled run heeds it.                    *)
SaveFails ==
  /\ left # {} /\ MayFail
  /\ faults' = faults + 1
  /\ left' = {}
  /\ live' = live \ givesUp
  /\ givesUp' = {}
  /\ torn' = torn \cup {s \in Sessions : <<"remove", s>> \in left}
  /\ UNCHANGED <<up, listed, mem, diskVars, synced, blind, crashes>>

SaveStep ==
  \/ \E s \in Sessions : \/ \E r \in Runs : WriteRun(s, r)
                         \/ SweepRuns(s) \/ WriteMeta(s) \/ WriteTalk(s)
                         \/ RemoveSession(s)
  \/ RemoveStrays \/ WriteIndex \/ ArchiveLegacy \/ SaveFails

-----------------------------------------------------------------------------
(* The operations: memory first, then a save.                              *)

Saving == left' = SaveOps /\ synced' = FALSE /\ UNCHANGED <<up, diskVars, histVars>>

EnsureSession(s) ==
  /\ Idle /\ s \notin listed
  /\ listed' = listed \cup {s}
  /\ mem' = [mem EXCEPT ![s] = NoRecords]
  /\ UNCHANGED <<live, givesUp>>
  /\ Saving

Unused(r) == \A s \in Sessions : mem[s].run[r] = None /\ disk[s].run[r] = None

(* startRunLocked.  A user run goes on when it could not be saved, a        *)
(* scheduled one does not.                                                 *)
StartRun(s, r, scheduled) ==
  /\ Idle /\ s \in listed /\ r \notin LegacyRuns
  /\ Unused(r) /\ \A t \in Sessions : <<t, r>> \notin live
  /\ mem' = [mem EXCEPT ![s].run[r] = "running"]
  /\ live' = live \cup {<<s, r>>}
  /\ givesUp' = IF scheduled THEN {<<s, r>>} ELSE {}
  /\ UNCHANGED listed
  /\ Saving

(* finishRunLocked puts the record back if a reset has taken it away.      *)
FinishRun(s, r, st) ==
  /\ Idle /\ <<s, r>> \in live
  /\ mem' = [mem EXCEPT ![s].run[r] = st,
                        ![s].talk = IF st \in Answers THEN @ \cup {r} ELSE @]
  /\ live' = live \ {<<s, r>>}
  /\ UNCHANGED <<listed, givesUp>>
  /\ Saving

(* ResolvePendingApproval and CancelRun of a run that waits.               *)
SettleRun(s, r, st) ==
  /\ Idle /\ s \in listed
  /\ mem[s].run[r] = "waiting"
  /\ mem' = [mem EXCEPT ![s].run[r] = st]
  /\ UNCHANGED <<listed, live, givesUp>>
  /\ Saving

ResetSession(s) ==
  /\ Idle
  /\ listed' = listed \cup {s}
  /\ mem' = [mem EXCEPT ![s] = NoRecords]
  /\ left' = SaveOps \cup {<<"remove", s>>}
  /\ synced' = FALSE
  /\ UNCHANGED <<up, live, givesUp, diskVars, histVars>>

-----------------------------------------------------------------------------
(* Crash and load.                                                         *)

Crash ==
  /\ up /\ crashes + faults < MaxMishaps
  /\ up' = FALSE
  /\ crashes' = crashes + 1
  /\ listed' = {} /\ mem' = [s \in Sessions |-> NoRecords]
  /\ live' = {} /\ givesUp' = {} /\ left' = {} /\ synced' = FALSE
  /\ UNCHANGED <<diskVars, torn, blind, faults>>

Starting == ~ up /\ up' = TRUE /\ UNCHANGED <<live, givesUp, diskVars>>

NewId(f) == f \in Fresh /\ disk[f] = NoFiles /\ ~ Stored(f)

LoadSplit ==
  /\ Starting /\ index # None
  /\ listed' = index
  /\ mem' = [s \in Sessions |-> IF s \in index THEN Interrupted(LoadSession(s)) ELSE NoRecords]
  /\ LET changed == \E s \in index : mem'[s] # LoadSession(s) IN
       /\ left' = IF changed THEN SaveOps ELSE {}
       /\ synced' = ~ changed
  /\ UNCHANGED histVars

LoadLegacy ==
  /\ Starting /\ index = None /\ legacy
  /\ \E f \in Fresh :
       /\ NewId(f)
       /\ listed' = {f}
       /\ mem' = [mem EXCEPT ![f] =
                    [run  |-> [r \in Runs |-> IF r \in LegacyRuns THEN "succeeded" ELSE None],
                     talk |-> LegacyRuns]]
  /\ left' = SaveOps \cup {<<"archive">>}
  /\ UNCHANGED <<synced, histVars>>

LoadNothing ==
  /\ Starting /\ index = None /\ ~ legacy
  /\ \E f \in Fresh : NewId(f) /\ listed' = {f}
  /\ UNCHANGED <<mem, left, synced, histVars>>

(* main only logs an error of Load and serves with the empty store.        *)
LoadFails ==
  /\ Starting /\ (index # None \/ legacy)
  /\ MayFail
  /\ faults' = faults + 1
  /\ \E f \in Fresh : NewId(f) /\ listed' = {f}
  /\ blind' = TRUE
  /\ UNCHANGED <<mem, left, synced, torn, crashes>>

-----------------------------------------------------------------------------
Init ==
  /\ up = FALSE
  /\ listed = {} /\ mem = [s \in Sessions |-> NoRecords]
  /\ live = {} /\ givesUp = {} /\ left = {}
  /\ index = None /\ disk = [s \in Sessions |-> NoFiles]
  /\ legacy \in BOOLEAN /\ backup = FALSE
  /\ synced = FALSE /\ torn = {} /\ blind = FALSE
  /\ crashes = 0 /\ faults = 0

Next ==
  \/ \E s \in Chats : EnsureSession(s) \/ ResetSession(s)
  \/ \E s \in Sessions, r \in Runs :
       \/ \E scheduled \in BOOLEAN : StartRun(s, r, scheduled)
       \/ \E st \in {"waiting", "succeeded", "failed"} : FinishRun(s, r, st)
       \/ \E st \in {"approved", "cancelled"} : SettleRun(s, r, st)
  \/ SaveStep
  \/ Crash \/ LoadSplit \/ LoadLegacy \/ LoadNothing \/ LoadFails

Spec == Init /\ [][Next]_vars

-----------------------------------------------------------------------------
FileOps ==
  ({"sweep", "meta", "talk", "remove"} \X Sessions)
    \cup {<<"run", s, r>> : s \in Sessions, r \in Runs}
    \cup {<<"dirs">>, <<"index">>, <<"archive">>}

Records == [run : [Runs -> Status \cup {None}], talk : SUBSET Runs]
Files   == [meta : (SUBSET Runs) \cup {None}, talk : (SUBSET Runs) \cup {None},
            run : [Runs -> Status \cup {None}]]

(* The types of the store; what is saved is in memory, and the runs a       *)
(* process executes die with it.                                           *)
TypeOK ==
  /\ up \in BOOLEAN /\ synced \in BOOLEAN /\ blind \in BOOLEAN
  /\ legacy \in BOOLEAN /\ backup \in BOOLEAN
  /\ listed \subseteq Sessions /\ torn \subseteq Sessions
  /\ mem \in [Sessions -> Records]
  /\ live \subseteq Sessions \X Runs /\ givesUp \subseteq live
  /\ left \subseteq FileOps
  /\ index \in (SUBSET Sessions) \cup {None}
  /\ disk \in [Sessions -> Files]
  /\ crashes \in 0 .. MaxMishaps /\ faults \in 0 .. MaxFaults
  /\ ~ up => live = {} /\ left = {}

(* After a save that reported no error, a load would give exactly what is  *)
(* in memory: nothing older, nothing removed, nothing of another session.  *)
SavedIsLoaded ==
  Idle /\ synced => /\ index = listed
                    /\ \A s \in listed : LoadSession(s) = mem[s]

(* What a process has saved is what the next one finds.                     *)
StoreInv == TypeOK /\ SavedIsLoaded

(* Wherever a crash cuts a save, a turn in the conversation that a load    *)
(* gives belongs to a run that the load gives too, and that has ended.     *)
TalkHasRuns ==
  \A s \in Sessions \ torn :
    ~ blind /\ Stored(s) =>
      \A r \in LoadSession(s).talk : LoadRuns(s)[r] \in {"waiting"} \cup Final

(* Whatever fails or crashes, what a load would give only moves forward: no *)
(* session leaves the index, no run disappears, none that ended or waits   *)
(* is running again.  Only a reset takes a session's runs away.            *)
Forward(old, new) ==
  CASE old = None -> TRUE
    [] old = "running" -> new # None
    [] old = "waiting" -> new \notin {None, "running"}
    [] OTHER -> new = old

DurableForward ==
  [][\A s \in Sessions :
       Stored(s) /\ ~ blind' =>
         /\ Stored(s)'
         /\ s \in torn' \/ \A r \in Runs : Forward(LoadRuns(s)[r], LoadRuns(s)'[r])]_vars

(* The runs of an older version's session.json, if it has any, are always  *)
(* in exactly one place that a load reads: the old file, until the index is *)
(* written, and one session from then on, however often the migration is   *)
(* cut off.                                                                *)
LegacyKept ==
  LegacyRuns # {} /\ (legacy \/ backup) /\ ~ blind =>
    IF index = None THEN legacy
    ELSE Cardinality({s \in index : /\ LegacyRuns \subseteq LoadSession(s).talk
                                    /\ \A r \in LegacyRuns : LoadRuns(s)[r] = "succeeded"}) = 1
=============================================================================
