--------------------------- MODULE RuntimeContext ---------------------------
(***************************************************************************)
(* What a run tells the model about itself before each call of it: blocks   *)
(* of text that the loop and the hooks put into the run context and that     *)
(* are joined, by priority and within a budget, to the system prompt.        *)
(* agent/hook.go, eino_loop.go, skill.go, internal/app/runtime_guidance_     *)
(* hook.go, session_summary_hook.go and memory_hook.go.                      *)
(*                                                                         *)
(* Of a text there is its length in runes.  The lengths, limits and          *)
(* priorities are those of the code; texts whose length varies only by some  *)
(* digits have their greatest.                                              *)
(***************************************************************************)
EXTENDS Naturals, Sequences, FiniteSets

CONSTANTS
  Intents,       (* what the user's message may ask for                      *)
  SkillTexts,    (* lengths the list of skills may have                      *)
  SummaryTexts,  (* lengths the summary of the session may have              *)
  MemoryTexts,   (* lengths what is recalled may have                        *)
  PayloadTexts,  (* lengths the message of a job that is due may have        *)
  EntryText,     (* the length of an entry of the evidence ledger            *)
  MaxEntries,    (* bound: entries of the ledger                             *)
  MaxBlockCalls, (* the limit of model calls                                 *)
  Unread         (* what could not be read                                   *)

ASSUME RuntimeContextAssumption ==
  /\ Intents \subseteq {"chat", "weak", "vague", "cancel", "cancel_id", "strong", "due"}
  /\ SkillTexts \cup SummaryTexts \cup MemoryTexts \cup PayloadTexts \subseteq Nat
  /\ EntryText \in Nat \ {0} /\ MaxEntries \in Nat /\ MaxBlockCalls \in Nat
  /\ Unread \notin Nat

VARIABLES
  intent, skillText, payload,  (* of this run                                *)
  blocks,      (* RunContext.contextBlocks                                   *)
  policy,      (* RunContext.toolPolicy: "none", "one", "several" tools       *)
  entries,     (* the number of entries of the ledger                        *)
  called,      (* ToolCallCount > 0                                          *)
  recall,      (* the length of what was recalled, or Unread                 *)
  modelCalls,  (* ModelCallCount                                             *)
  nudges,      (* the reasons to start over that are used up                 *)
  awaits       (* "call": the loop calls the model next; "reply"; "over"      *)

blocksVars == <<intent, skillText, payload, blocks, policy, entries, called, recall, modelCalls,
                nudges, awaits>>

-----------------------------------------------------------------------------
(* The blocks: priority, limit and the length of the heading.                *)
Kinds ==
  LET kind(priority, limit, title) ==
        [priority |-> priority, limit |-> limit, heading |-> title + 6]
  IN [run_budget        |-> kind(800, 1200, 10),
      skills            |-> kind(800, 4000, 14),
      session_summary   |-> kind(200, 800, 15),
      active_memory     |-> kind(500, 1000, 13),
      current_time      |-> kind(800, 1200, 12),
      schedule_guidance |-> kind(1000, 4500, 17),
      cron_execution    |-> kind(1000, 3000, 14),
      evidence_ledger   |-> kind(800, 6000, 15),
      tool_policy       |-> kind(1000, 2000, 11)]

Critical(key) == Kinds[key].priority = 1000
Heading(key)  == Kinds[key].heading
ContextBudget == 12000
TitleText     == 17

BudgetText == 402
TimeText   == 190
LedgerText(n) == IF n = 0 THEN 0 ELSE 246 + n * EntryText
PolicyText(p) == CASE p = "none" -> 0 [] p = "one" -> 81 [] OTHER -> 111
GuidanceText(i) ==
  CASE i \in {"cancel", "cancel_id"} -> 284 [] i = "vague" -> 235 [] OTHER -> 975
DueText(n) == 321 + n

(* trimRunesWithNotice: the notice counts.                                   *)
Trim(n, limit) == IF limit > 0 /\ n > limit THEN limit ELSE n

Text(key, n) == [key |-> key, text |-> n]
Has(list, key) == \E i \in 1..Len(list) : list[i].key = key
TextOf(list, key) ==
  IF Has(list, key) THEN list[CHOOSE i \in 1..Len(list) : list[i].key = key].text ELSE 0

(* The blocks of a list whose places are in a set, in their order.            *)
Only(list, places) ==
  LET kept[n \in 0..Len(list)] ==
        IF n = 0 THEN <<>>
        ELSE IF n \in places THEN Append(kept[n - 1], list[n]) ELSE kept[n - 1]
  IN kept[Len(list)]

Full(list) == {i \in 1..Len(list) : list[i].text # 0}

Updated(list, texts) ==
  [i \in 1..Len(list) |-> IF Has(texts, list[i].key)
                          THEN Text(list[i].key, TextOf(texts, list[i].key)) ELSE list[i]]

Added(list, texts) == Only(texts, {i \in Full(texts) : ~ Has(list, texts[i].key)})

(* Mutant: an empty text leaves the block as it was.                         *)
PutKeepsOld(list, texts) ==
  LET full == Only(texts, Full(texts))
  IN Updated(list, full) \o Added(list, full)

(* SetContextBlockWithPriority for one text after the other, each of a key of   *)
(* its own: a block keeps its place, and one without a text is taken out.      *)
Put(list, texts) ==
  LET updated == Updated(list, texts)
  IN Only(updated, Full(updated)) \o Added(list, texts)

(* renderRuntimeContext: the blocks by priority, those of one priority as they  *)
(* were put first.  What does not fit is cut, and left out when not a rune is   *)
(* left for it, but one that is critical keeps a rune.                        *)
ByPriority(list) ==
  LET at(level) == Only(list, {i \in 1..Len(list) : Kinds[list[i].key].priority = level})
  IN at(1000) \o at(800) \o at(500) \o at(200)

(* The runes of blocks under the title of the whole.                         *)
LengthOf(list) ==
  LET length[n \in 0..Len(list)] ==
        IF n = 0 THEN TitleText ELSE length[n - 1] + Heading(list[n].key) + list[n].text
  IN length[Len(list)]

Join(shown, block) ==
  LET length == LengthOf(shown)
      text   == Trim(block.text, Kinds[block.key].limit)
      head   == Heading(block.key)
      put(n) == Append(shown, Text(block.key, n))
  IN IF length + head + text <= ContextBudget THEN put(text)
     ELSE IF length + head < ContextBudget THEN put(Trim(text, ContextBudget - length - head))
     ELSE IF Critical(block.key) THEN put(Trim(text, 1))
     ELSE shown

Rendered(list) ==
  LET shown[n \in 0..Len(list)] == IF n = 0 THEN <<>> ELSE Join(shown[n - 1], list[n])
  IN shown[Len(list)]

Render(list) == Rendered(ByPriority(list))

-----------------------------------------------------------------------------
(* A call of the model.                                                    *)

Guided == intent \in {"weak", "vague", "cancel", "cancel_id", "strong"}

(* scheduleGuidanceHook: which tool the call requires.                       *)
NextPolicy ==
  IF intent = "due" THEN "none"
  ELSE IF intent \in {"cancel_id", "strong"} /\ modelCalls = 0 THEN "one"
  ELSE IF Guided /\ called THEN "none"
  ELSE policy

Guidance ==
  IF intent = "due" THEN <<Text("schedule_guidance", 0), Text("cron_execution", DueText(payload))>>
  ELSE <<Text("schedule_guidance", IF Guided THEN GuidanceText(intent) ELSE 0)>>

IfRead(key, n) == IF n = Unread THEN <<>> ELSE <<Text(key, n)>>

(* beforeModelCall, with the hooks in their order.  What is recalled is kept     *)
(* for the run, once it could be read.                                       *)
BeforeModelCall ==
  /\ awaits = "call" /\ modelCalls < MaxBlockCalls
  /\ modelCalls' = modelCalls + 1 /\ policy' = NextPolicy /\ awaits' = "reply"
  /\ \E summary \in SummaryTexts \cup {Unread}, memory \in MemoryTexts \cup {Unread} :
       /\ recall' = IF recall = Unread THEN memory ELSE recall
       /\ blocks' = Put(blocks, <<Text("run_budget", BudgetText), Text("skills", skillText)>>
                                 \o IfRead("session_summary", summary)
                                 \o IfRead("active_memory", recall')
                                 \o <<Text("current_time", TimeText)>> \o Guidance
                                 \o <<Text("evidence_ledger", LedgerText(entries)),
                                      Text("tool_policy", PolicyText(policy'))>>)
  /\ UNCHANGED <<intent, skillText, payload, entries, called, nudges>>

(* The model calls tools, and their results become entries.                   *)
ReplyWithCalls ==
  /\ awaits = "reply" /\ awaits' = "call"
  /\ called' = TRUE /\ policy' = "none"
  /\ entries' \in entries .. MaxEntries
  /\ UNCHANGED <<intent, skillText, payload, blocks, recall, modelCalls, nudges>>

(* retryIgnoredToolPolicy: an answer where a tool is required.                *)
NudgeIgnored ==
  /\ awaits = "reply" /\ policy # "none" /\ "ignored" \notin nudges
  /\ nudges' = nudges \cup {"ignored"} /\ awaits' = "call"
  /\ UNCHANGED <<intent, skillText, payload, blocks, policy, entries, called, recall, modelCalls>>

(* retryFinalizationToolPolicy: the answer is judged, and a guard may require    *)
(* tools.                                                                  *)
NudgeFinal ==
  /\ awaits = "reply" /\ "final" \notin nudges
  /\ policy # "none" => "ignored" \in nudges
  /\ policy' \in {"one", "several"} \cup ({policy} \ {"none"})
  /\ nudges' = nudges \cup {"final"} /\ awaits' = "call"
  /\ UNCHANGED <<intent, skillText, payload, blocks, entries, called, recall, modelCalls>>

FinishReply ==
  /\ \/ awaits = "reply" /\ (policy # "none" => {"ignored", "final"} \subseteq nudges)
     \/ awaits = "call" /\ modelCalls = MaxBlockCalls
  /\ awaits' = "over"
  /\ UNCHANGED <<intent, skillText, payload, blocks, policy, entries, called, recall, modelCalls,
                 nudges>>

BlocksInit ==
  /\ intent \in Intents /\ skillText \in SkillTexts
  /\ payload \in PayloadTexts /\ blocks = <<>> /\ policy = "none" /\ entries = 0
  /\ called = FALSE /\ recall = Unread /\ modelCalls = 0 /\ nudges = {} /\ awaits = "call"

BlocksNext ==
  BeforeModelCall \/ ReplyWithCalls \/ NudgeIgnored \/ NudgeFinal \/ FinishReply

BlocksSpec == BlocksInit /\ [][BlocksNext]_blocksVars

-----------------------------------------------------------------------------
(* The model is told what is true at this call: nothing an earlier call was     *)
(* told lingers, and each block is there once.                               *)
NothingStale ==
  /\ \A i, j \in 1..Len(blocks) : blocks[i].key = blocks[j].key => i = j
  /\ awaits = "reply" =>
       /\ TextOf(blocks, "tool_policy") = PolicyText(policy)
       /\ TextOf(blocks, "evidence_ledger") = LedgerText(entries)
       /\ TextOf(blocks, "schedule_guidance") > 0 <=> Guided

(* The guidance for schedules and the tool that must be called come through     *)
(* uncut but for their own limits, however much else there is.                *)
CriticalWhole ==
  \A i \in 1..Len(blocks) : Critical(blocks[i].key) =>
    TextOf(Render(blocks), blocks[i].key) = Trim(blocks[i].text, Kinds[blocks[i].key].limit)

(* Every later call has the evidence ledger (architecture.md:146), the first    *)
(* 4000 runes of it at least.                                               *)
LedgerShown ==
  TextOf(Render(blocks), "evidence_ledger") >= Trim(TextOf(blocks, "evidence_ledger"), 4000)

(* The whole keeps to its budget, and a block is only left out when there is no  *)
(* room for a rune of it behind blocks of no lower priority.                   *)
WholeFits ==
  LET shown == Render(blocks)
  IN /\ LengthOf(shown) <= ContextBudget
     /\ \A i \in 1..Len(blocks) : TextOf(shown, blocks[i].key) = 0 =>
          \E n \in 0..Len(shown) :
            /\ \A k \in 1..n :
                 Kinds[shown[k].key].priority >= Kinds[blocks[i].key].priority
            /\ LengthOf(SubSeq(shown, 1, n)) + Heading(blocks[i].key) >= ContextBudget

BlocksInv == NothingStale /\ CriticalWhole /\ LedgerShown /\ WholeFits
=============================================================================
