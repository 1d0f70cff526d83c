---------------------------- MODULE MemoryStore ----------------------------
(***************************************************************************)
(* The memory of internal/app/memory_store.go: the long-term file shared   *)
(* by all sessions, and of one session the short-term file (turns and      *)
(* records of tool results) and the directory of raw tool results.  Each   *)
(* operation reads, changes and replaces a file under one mutex.           *)
(* A run works under the lock of its session: it recalls memories before   *)
(* it asks the model (memory_hook.go), records the results of its tools,   *)
(* several of which finish at once (tool_memory_hook.go), and keeps its    *)
(* turn and those records when it ends well.  The "new session" command    *)
(* empties the memory of the session, under the same lock.                 *)
(***************************************************************************)
EXTENDS Naturals, Sequences, FiniteSets

CONSTANTS
  Runs,            (* runs of the session                                    *)
  Calls,           (* tool calls with a result                               *)
  Contents,        (* what there is to remember, up to case and spaces       *)
  LongContents,    (* contents of more than 500 runes, which are cut off     *)
  LongTermLimit,   (* maxLongTermMemories                                    *)
  TurnLimit,       (* shortTermTurnLimit                                     *)
  ToolLimit,       (* toolMemoryLimit                                        *)
  RecallLimit,     (* activeMemoryShortTermLimit                             *)
  MaxUpdates,      (* bound: changes of the long-term file                   *)
  MaxMemoryFaults, (* bound: failing file operations                         *)
  MaxMemoryCrashes (* bound: how often the process dies                      *)

ASSUME MemoryAssumption ==
  /\ LongContents \subseteq Contents
  /\ {LongTermLimit, TurnLimit, ToolLimit} \subseteq Nat \ {0}
  /\ {RecallLimit, MaxUpdates, MaxMemoryFaults, MaxMemoryCrashes} \subseteq Nat
  /\ "none" \notin Runs

VARIABLES
  longTerm,    (* the records of long_term.json, with the time of their last *)
               (* change                                                     *)
  updates,     (* the time: changes of that file so far                      *)
  shortTurns,  (* memory.json: the runs whose turns it holds, oldest first   *)
  toolRecords, (* memory.json: the calls it holds records of, oldest first   *)
  artifacts,   (* the calls whose results are in tool_artifacts              *)
  work,        (* run -> how far it is, its pending records, what it recalls *)
  call,        (* call -> how far the hook is that records its result        *)
  forgotten,   (* history: the runs begun before the last successful reset   *)
  memoryFaults, memoryCrashes

longVars   == <<longTerm, updates>>
fileVars   == <<shortTurns, toolRecords, artifacts>>
memoryVars == <<longVars, fileVars, work, call, forgotten, memoryFaults, memoryCrashes>>

NewWork == [state |-> "new", pending |-> <<>>, recall |-> {}, recalls |-> "not"]
NewCall == [state |-> "none", by |-> "none", base |-> <<>>]

MemoryInit ==
  /\ longTerm = {} /\ updates = 0
  /\ shortTurns = <<>> /\ toolRecords = <<>> /\ artifacts = {}
  /\ work = [r \in Runs |-> NewWork]
  /\ call = [c \in Calls |-> NewCall]
  /\ forgotten = {}
  /\ memoryFaults = 0 /\ memoryCrashes = 0

Members(seq) == {seq[i] : i \in 1..Len(seq)}

(* The last limit elements, as the lists of the files are trimmed.           *)
LastOf(seq, limit) ==
  IF Len(seq) <= limit THEN seq ELSE SubSeq(seq, Len(seq) - limit + 1, Len(seq))

(* The records of these calls are gone.                                     *)
Lose(calls) ==
  [c \in Calls |-> IF c \in calls THEN [call[c] EXCEPT !.state = "lost"] ELSE call[c]]

(* The hooks of these runs go no further.                                   *)
Stop(runs) ==
  [c \in Calls |-> IF call[c].by \in runs /\ call[c].state # "lost"
                   THEN [call[c] EXCEPT !.state = "over", !.base = <<>>] ELSE call[c]]

(* A file operation succeeds, or fails and leaves the file as it was.        *)
FileWorks == UNCHANGED memoryFaults
FileFails == memoryFaults < MaxMemoryFaults /\ memoryFaults' = memoryFaults + 1

(* The lock of the session is free.                                         *)
Unlocked == \A r \in Runs : work[r].state \in {"new", "over"}

-----------------------------------------------------------------------------
(* Long-term memory: the remember and forget_memory tools of any session.  *)

(* trimLongTermMemories: with one record too many the oldest goes.           *)
TrimLongTerm(records) ==
  IF Cardinality(records) <= LongTermLimit THEN records
  ELSE records \ {m \in records : \A n \in records : m.at <= n.at}

(* A stored content has the key of the new one; one that was cut off has the *)
(* key of no new content.                                                   *)
SameKey(content) == {m \in longTerm : m.content = content /\ ~ m.cut}

(* Remember: a known content is changed in place, a new one is added and may *)
(* push the oldest out.                                                     *)
Remember(content) ==
  LET record == [content |-> content, cut |-> content \in LongContents, at |-> updates + 1]
  IN
  /\ updates < MaxUpdates /\ updates' = updates + 1
  /\ longTerm' = IF SameKey(content) # {}
                 THEN (longTerm \ SameKey(content)) \cup {record}
                 ELSE TrimLongTerm(longTerm \cup {record})
  /\ UNCHANGED <<fileVars, work, call, forgotten, memoryFaults, memoryCrashes>>

Forget(record) ==
  /\ updates < MaxUpdates /\ updates' = updates + 1
  /\ longTerm' = longTerm \ {record}
  /\ UNCHANGED <<fileVars, work, call, forgotten, memoryFaults, memoryCrashes>>

-----------------------------------------------------------------------------
(* A run.                                                                  *)

BeginWork(r) ==
  /\ work[r].state = "new" /\ Unlocked
  /\ work' = [work EXCEPT ![r].state = "running"]
  /\ UNCHANGED <<longVars, fileVars, call, forgotten, memoryFaults, memoryCrashes>>

(* BeforeModelCall: what the message needs is derived from the recent turns, *)
(* with the help of a model, outside the mutex; a failed read is logged and  *)
(* tried again before the next call of the model.                            *)
AskForMemories(r) ==
  /\ work[r].state = "running" /\ work[r].recalls = "not"
  /\ \/ /\ FileWorks
        /\ work' = [work EXCEPT ![r].recalls = "asked"]
     \/ FileFails /\ UNCHANGED work
  /\ UNCHANGED <<longVars, fileVars, call, forgotten, memoryCrashes>>

(* What a run can be shown: the latest turns and the records of tool results *)
(* (selectShortTermTurnsForActiveRecall, tool memories), each by its run.    *)
Recallable ==
  Members(LastOf(shortTurns, RecallLimit)) \cup {call[c].by : c \in Members(toolRecords)}

(* ActiveRecall: what it selects, nothing included, stays for the whole run. *)
RecallMemories(r) ==
  /\ work[r].state = "running" /\ work[r].recalls = "asked"
  /\ \/ /\ FileWorks
        /\ \E chosen \in SUBSET Recallable :
             work' = [work EXCEPT ![r].recalls = "done", ![r].recall = chosen]
     \/ /\ FileFails
        /\ work' = [work EXCEPT ![r].recalls = "not"]
  /\ UNCHANGED <<longVars, fileVars, call, forgotten, memoryCrashes>>

(* AfterToolCall, CaptureToolMemory: the raw result is written first.        *)
CaptureTool(r, c) ==
  /\ work[r].state = "running" /\ call[c].state = "none"
  /\ \/ /\ FileWorks
        /\ artifacts' = artifacts \cup {c}
        /\ call' = [call EXCEPT ![c].state = "captured", ![c].by = r]
     \/ /\ FileFails
        /\ call' = [call EXCEPT ![c].state = "over", ![c].by = r]
        /\ UNCHANGED artifacts
  /\ UNCHANGED <<longVars, shortTurns, toolRecords, work, forgotten, memoryCrashes>>

(* The pending records of the run are read and written back without a lock,  *)
(* by the hook of each of the calls that run in parallel: what another hook  *)
(* wrote in between is lost.                                                *)
ReadPending(c) ==
  /\ call[c].state = "captured"
  /\ call' = [call EXCEPT ![c].state = "read", ![c].base = work[call[c].by].pending]
  /\ UNCHANGED <<longVars, fileVars, work, forgotten, memoryFaults, memoryCrashes>>

WritePending(c) ==
  /\ call[c].state = "read"
  /\ call' = [Lose(Members(work[call[c].by].pending) \ Members(call[c].base))
               EXCEPT ![c].state = "over", ![c].base = <<>>]
  /\ work' = [work EXCEPT ![call[c].by].pending = Append(call[c].base, c)]
  /\ UNCHANGED <<longVars, fileVars, forgotten, memoryFaults, memoryCrashes>>

(* The tools of a run have finished before it ends well.                     *)
ToolsFinished(r) == \A c \in Calls : call[c].by = r => call[c].state \in {"over", "lost"}

(* AfterRun of memoryHook, AppendShortTermTurn: a turn with nothing to keep  *)
(* is skipped, a failed save is logged.                                     *)
KeepTurn(r) ==
  /\ work[r].state = "running" /\ ToolsFinished(r)
  /\ work' = [work EXCEPT ![r].state = "kept"]
  /\ \/ FileWorks /\ shortTurns' = LastOf(Append(shortTurns, r), TurnLimit)
     \/ FileWorks /\ UNCHANGED shortTurns
     \/ FileFails /\ UNCHANGED shortTurns
  /\ UNCHANGED <<longVars, toolRecords, artifacts, call, forgotten, memoryCrashes>>

(* AfterRun of toolMemoryHook, AppendToolMemories; a failed save is logged.  *)
KeepTools(r) ==
  /\ work[r].state = "kept"
  /\ \/ /\ FileWorks
        /\ toolRecords' = LastOf(toolRecords \o work[r].pending, ToolLimit)
        /\ work' = [work EXCEPT ![r].state = "over"]
     \/ /\ FileFails
        /\ work' = [work EXCEPT ![r].state = "over", ![r].pending = <<>>]
        /\ UNCHANGED toolRecords
  /\ UNCHANGED <<longVars, shortTurns, artifacts, call, forgotten, memoryCrashes>>

(* A run that fails, or is cancelled, keeps nothing.                         *)
FailWork(r) ==
  /\ work[r].state = "running"
  /\ work' = [work EXCEPT ![r].state = "over", ![r].pending = <<>>]
  /\ call' = Stop({r})
  /\ UNCHANGED <<longVars, fileVars, forgotten, memoryFaults, memoryCrashes>>

-----------------------------------------------------------------------------
(* The session starts anew; the process dies.                              *)

Begun == {r \in Runs : work[r].state # "new"}

(* Mutant: the lock of the session is not taken.                           *)
ResetUnlocked ==
  /\ shortTurns' = <<>> /\ toolRecords' = <<>> /\ artifacts' = {}
  /\ forgotten' = Begun
  /\ UNCHANGED <<longVars, work, call, memoryFaults, memoryCrashes>>

(* ResetSession succeeds.                                                   *)
Reset ==
  /\ Unlocked
  /\ shortTurns' = <<>> /\ toolRecords' = <<>> /\ artifacts' = {}
  /\ forgotten' = Begun
  /\ UNCHANGED <<longVars, work, call, memoryFaults, memoryCrashes>>

(* Mutant: the directory of results goes first.                            *)
ResetBreaksFilesFirst ==
  /\ Unlocked /\ FileFails
  /\ artifacts' \in SUBSET artifacts
  /\ UNCHANGED <<shortTurns, toolRecords, longVars, work, call, forgotten, memoryCrashes>>

(* ResetSession fails: memory.json could not be removed, or it is gone and   *)
(* some of the results are left.                                            *)
ResetBreaks ==
  /\ Unlocked /\ FileFails
  /\ \/ UNCHANGED <<fileVars, call>>
     \/ /\ shortTurns' = <<>> /\ toolRecords' = <<>> /\ artifacts' \in SUBSET artifacts
        /\ call' = Lose({c \in Calls : call[c].by \in Begun})
  /\ UNCHANGED <<longVars, work, forgotten, memoryCrashes>>

(* The process dies between two operations or between the two parts of one   *)
(* (two tools that change the map of their run at once can kill it too): the *)
(* runs are over, the files stay.                                           *)
MemoryCrash ==
  /\ memoryCrashes < MaxMemoryCrashes /\ memoryCrashes' = memoryCrashes + 1
  /\ work' = [r \in Runs |-> IF work[r].state \in {"new", "over"} THEN work[r]
                             ELSE [work[r] EXCEPT !.state = "over", !.pending = <<>>]]
  /\ call' = Stop(Runs)
  /\ UNCHANGED <<longVars, fileVars, forgotten, memoryFaults>>

(* The tools of any session change the long-term file ...                   *)
LongTermNext ==
  \/ \E content \in Contents : Remember(content)
  \/ \E record \in longTerm : Forget(record)

(* ... and the files of the session are changed by its runs and its resets:  *)
(* no step of one kind reads what the other kind changes.                    *)
SessionNext ==
  \/ \E r \in Runs :
       \/ BeginWork(r) \/ AskForMemories(r) \/ RecallMemories(r)
       \/ \E c \in Calls : CaptureTool(r, c)
       \/ KeepTurn(r) \/ KeepTools(r) \/ FailWork(r)
  \/ \E c \in Calls : ReadPending(c) \/ WritePending(c)
  \/ Reset \/ ResetBreaks \/ MemoryCrash

MemoryNext == LongTermNext \/ SessionNext

MemorySpec == MemoryInit /\ [][MemoryNext]_memoryVars

-----------------------------------------------------------------------------
(* Every variable keeps its shape.                                         *)
MemoryTypeOK ==
  /\ longTerm \subseteq [content : Contents, cut : BOOLEAN, at : Nat] /\ updates \in Nat
  /\ shortTurns \in Seq(Runs) /\ toolRecords \in Seq(Calls) /\ artifacts \subseteq Calls
  /\ work \in [Runs -> [state : {"new", "running", "kept", "over"}, pending : Seq(Calls),
                        recall : SUBSET Runs, recalls : {"not", "asked", "done"}]]
  /\ call \in [Calls -> [state : {"none", "captured", "read", "over", "lost"},
                         by : Runs \cup {"none"}, base : Seq(Calls)]]
  /\ forgotten \subseteq Runs /\ memoryFaults \in Nat /\ memoryCrashes \in Nat

(* Every record of a tool result in memory.json names a raw result that is   *)
(* there, whatever failed or died on the way.                                *)
RefsResolve == Members(toolRecords) \subseteq artifacts

(* The long-term file stays within its limit and holds no content twice,     *)
(* unless the content was too long to be recognised.                        *)
KeysOnce ==
  /\ \A m, n \in longTerm : m.content = n.content /\ ~ m.cut /\ ~ n.cut => m = n
  /\ Cardinality(longTerm) <= LongTermLimit

(* A run that ended well and whose records were saved has a record of every  *)
(* result it captured, as memory_store_test.go says of one call ("tool       *)
(* memory should be visible after run finishes"), until newer ones push it   *)
(* out or a reset, even one that fails, removes it; but for those lost to a  *)
(* parallel call.                                                           *)
ToolMemoryVisible ==
  \A r \in Runs \ forgotten :
    work[r].state = "over" /\ work[r].pending # <<>> =>
      \A c \in Calls :
        call[c].by = r /\ call[c].state # "lost" /\ c \in artifacts =>
          c \in Members(toolRecords) \/ Len(toolRecords) = ToolLimit

(* What is in the files of the memory fits together, and with the runs that  *)
(* were kept.                                                               *)
MemoryInv == MemoryTypeOK /\ RefsResolve /\ KeysOnce /\ ToolMemoryVisible

(* After a reset that reported success nothing of the runs before it is in   *)
(* the memory of the session, now or later, and no later run recalls it.     *)
ResetForgets ==
  /\ Members(shortTurns) \cap forgotten = {}
  /\ \A c \in Members(toolRecords) : call[c].by \notin forgotten
  /\ \A r \in Runs \ forgotten : work[r].recall \cap forgotten = {}
=============================================================================
