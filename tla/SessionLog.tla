----------------------------- MODULE SessionLog -----------------------------
(***************************************************************************)
(* What one conversation session promises to every entry point (Feishu     *)
(* message, HTTP task, approval, cron job): a run that was accepted is     *)
(* closed with one outcome, and a run that contributes to the conversation *)
(* appends its turn to exactly the conversation it was computed from, as   *)
(* if runs were executed one at a time.  The detailed specification is     *)
(* TurnLoop; nothing here knows about loops, locks or preemption.          *)
(***************************************************************************)
EXTENDS Naturals, Sequences

CONSTANTS Runs,     (* every run of the session                            *)
          Silent    (* runs that never add messages (the reset confirmation) *)

VARIABLES outcome,  (* run -> "none", "open" or how it was closed          *)
          log,      (* the turns in the conversation, with their basis     *)
          epoch     (* how many times the session has been reset           *)

vars == <<outcome, log, epoch>>

Answered == {"succeeded", "waiting_approval"}
Dropped  == {"failed", "cancelled"}
Closed   == Answered \cup Dropped

(* The conversation a turn was computed from. *)
Basis == [epoch |-> epoch, len |-> Len(log)]

Init ==
  /\ outcome = [a \in Runs |-> "none"]
  /\ log = <<>>
  /\ epoch = 0

Accept(a) ==
  /\ outcome[a] = "none"
  /\ outcome' = [outcome EXCEPT ![a] = "open"]
  /\ UNCHANGED <<log, epoch>>

(* Reading the conversation and appending to it is one step here. *)
Answer(a) ==
  /\ outcome[a] = "open"
  /\ a \notin Silent
  /\ \E st \in Answered : outcome' = [outcome EXCEPT ![a] = st]
  /\ log' = Append(log, [run |-> a, basis |-> Basis])
  /\ UNCHANGED epoch

(* Runs can be dropped together: the messages one newer message replaces.  *)
Drop(R) ==
  /\ R # {}
  /\ \A a \in R : outcome[a] = "open"
  /\ \E st \in Dropped : outcome' = [a \in Runs |-> IF a \in R THEN st ELSE outcome[a]]
  /\ UNCHANGED <<log, epoch>>

Confirm(a) ==
  /\ outcome[a] = "open"
  /\ a \in Silent
  /\ outcome' = [outcome EXCEPT ![a] = "succeeded"]
  /\ UNCHANGED <<log, epoch>>

(* A reset empties the conversation and may accept its own confirmation. *)
Reset ==
  /\ log' = <<>>
  /\ epoch' = epoch + 1
  /\ \/ UNCHANGED outcome
     \/ \E a \in Silent : /\ outcome[a] = "none"
                          /\ outcome' = [outcome EXCEPT ![a] = "open"]

Settle(a) == Answer(a) \/ Confirm(a) \/ \E R \in SUBSET Runs : a \in R /\ Drop(R)

Next ==
  \/ \E a \in Runs : Accept(a) \/ Settle(a)
  \/ Reset

Spec ==
  /\ Init
  /\ [][Next]_vars
  /\ \A a \in Runs : WF_vars(Settle(a))
=============================================================================
