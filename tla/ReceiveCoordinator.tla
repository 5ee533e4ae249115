------------------------- MODULE ReceiveCoordinator -------------------------
(***************************************************************************)
(* The owner of passive receives, capsule_passive_receive_coordinator.dart:*)
(* the foreground capsule with its periodic and follow-up timers, and the  *)
(* coalescer, which runs one receive of a capsule at a time, lets automatic*)
(* requests join it and keeps one forced follow-up for manual ones.  The   *)
(* receive asks invitation_intent_handler.dart, which skips the poll of an *)
(* automatic request soon after a success or while                         *)
(* transport_health_policy_service.dart cools down after timeouts.         *)
(*                                                                         *)
(* Every manual request of the screens is a full receive, every other one  *)
(* a quick receive.  Delays are choices: a timer may fire and a cooldown   *)
(* may be over at any time.                                                *)
(***************************************************************************)
EXTENDS ReceiveRequests

CONSTANTS Capsules, None

ASSUME CoordinatorAssumption == None \notin Capsules

VARIABLES
  foreground,  \* the capsule whose periodic timer runs
  followUp,    \* the capsule of the follow-up timer
  op,          \* op[c]: the running receive
  pending,     \* pending[c]: manual requests waiting for a follow-up
  recent,      \* recent[c]: a quick poll succeeded a moment ago
  cooling      \* cooling[c]: polls timed out

vars == <<foreground, followUp, op, pending, recent, cooling, request>>
policy == <<recent, cooling>>

Operation(manual, who) ==
  [at |-> "fetching", manual |-> manual, polled |-> FALSE, waiters |-> who]
NoOperation == [Operation(FALSE, {}) EXCEPT !.at = "idle"]

Init ==
  /\ foreground = None /\ followUp = None
  /\ op = [c \in Capsules |-> NoOperation]
  /\ pending = [c \in Capsules |-> {}]
  /\ recent = [c \in Capsules |-> FALSE]
  /\ cooling = [c \in Capsules |-> FALSE]
  /\ request = [r \in Requests |-> [manual |-> FALSE, status |-> "none"]]

-----------------------------------------------------------------------------
(* The coalescer *)

BugRun(c, manual, who) ==
  IF op[c].at = "idle"
  THEN op' = [op EXCEPT ![c] = Operation(manual, who)] /\ pending' = pending
  ELSE op' = [op EXCEPT ![c].waiters = @ \cup who] /\ pending' = pending

\* _ProcessReceiveCoalescer.run; a timer waits for no answer (who = {}).
Run(c, manual, who) ==
  IF op[c].at = "idle"
  THEN op' = [op EXCEPT ![c] = Operation(manual, who)] /\ pending' = pending
  ELSE IF ~manual \/ op[c].manual
  THEN op' = [op EXCEPT ![c].waiters = @ \cup who] /\ pending' = pending
  ELSE op' = op /\ pending' = [pending EXCEPT ![c] = @ \cup who]

BugAdvance(c) ==
  /\ op' = [op EXCEPT ![c] = NoOperation]
  /\ pending' = [pending EXCEPT ![c] = {}]
BugStuck(c) ==
  IF pending[c] = {} THEN op' = [op EXCEPT ![c].waiters = {}] /\ pending' = pending
  ELSE /\ op' = [op EXCEPT ![c] = Operation(TRUE, pending[c])]
       /\ pending' = [pending EXCEPT ![c] = {}]

\* _advance
Advance(c) ==
  /\ op' = [op EXCEPT ![c] = IF pending[c] = {} THEN NoOperation
                             ELSE Operation(TRUE, pending[c])]
  /\ pending' = [pending EXCEPT ![c] = {}]

\* The receive is done or has failed; those who wait get its result.
Finish(c) ==
  /\ op[c].at = "draining"
  /\ request' = [r \in Requests |->
       IF r \in op[c].waiters
       THEN [request[r] EXCEPT !.status = IF op[c].polled THEN "polled" ELSE "skipped"]
       ELSE request[r]]
  /\ Advance(c)
  /\ UNCHANGED <<foreground, followUp, policy>>

-----------------------------------------------------------------------------
(* The poll *)

\* A full receive knows no quick cooldown, a manual one no health cooldown.
MayPoll(c) == op[c].manual \/ ~(recent[c] \/ cooling[c])

Ingress(c) ==
  /\ op[c].at = "fetching"
  /\ op' = [op EXCEPT ![c].at = IF MayPoll(c) THEN "polling" ELSE "draining"]
  /\ UNCHANGED <<foreground, followUp, pending, policy, request>>

\* recordResult
PollEnds(c) ==
  \E result \in {"ok", "timeout", "error"} :
    /\ op[c].at = "polling"
    /\ op' = [op EXCEPT ![c].at = "draining", ![c].polled = TRUE]
    /\ recent' = [recent EXCEPT ![c] = @ \/ (result = "ok" /\ ~op[c].manual)]
    /\ cooling' = [cooling EXCEPT ![c] = (@ /\ result # "ok") \/ result = "timeout"]
    /\ UNCHANGED <<foreground, followUp, pending, request>>

Elapse(c) ==
  /\ \/ recent[c] /\ recent' = [recent EXCEPT ![c] = FALSE] /\ cooling' = cooling
     \/ cooling[c] /\ cooling' = [cooling EXCEPT ![c] = FALSE] /\ recent' = recent
  /\ UNCHANGED <<foreground, followUp, op, pending, request>>

-----------------------------------------------------------------------------
(* The triggers *)

Request(r, c, manual) ==
  /\ request[r].status = "none"
  /\ request' = [request EXCEPT ![r] = [manual |-> manual, status |-> "waiting"]]
  /\ Run(c, manual, {r})
  /\ UNCHANGED <<foreground, followUp, policy>>

\* Launch, resume or switch; both restart the timers and receive at once.
ActivateForeground(c) ==
  /\ foreground' = c /\ followUp' = c
  /\ Run(c, FALSE, {})
  /\ UNCHANGED <<policy, request>>

\* Not again within its cooldown.
ConnectivityRestored ==
  /\ foreground # None
  /\ followUp' = foreground
  /\ Run(foreground, FALSE, {})
  /\ UNCHANGED <<foreground, policy, request>>

PauseForeground ==
  /\ foreground # None
  /\ foreground' = None /\ followUp' = None
  /\ UNCHANGED <<op, pending, policy, request>>

Periodic ==
  /\ foreground # None
  /\ Run(foreground, FALSE, {})
  /\ UNCHANGED <<foreground, followUp, policy, request>>

FollowUp ==
  /\ followUp # None /\ followUp' = None
  /\ IF foreground = followUp THEN Run(followUp, FALSE, {}) ELSE UNCHANGED <<op, pending>>
  /\ UNCHANGED <<foreground, policy, request>>

Receive(c) == Ingress(c) \/ PollEnds(c) \/ Finish(c)

Next ==
  \/ \E c \in Capsules :
       \/ Receive(c) \/ Elapse(c) \/ ActivateForeground(c)
       \/ \E r \in Requests, manual \in BOOLEAN : Request(r, c, manual)
  \/ ConnectivityRestored \/ PauseForeground \/ Periodic \/ FollowUp

Spec == Init /\ [][Next]_vars

\* A receive comes to an end, for its workers have timeouts; time passes; the
\* timers fire.
LiveSpec ==
  /\ Spec
  /\ \A c \in Capsules : WF_vars(Receive(c)) /\ WF_vars(Elapse(c))
  /\ WF_vars(Periodic) /\ WF_vars(FollowUp)

-----------------------------------------------------------------------------
(* Properties *)

\* A manual request waits in the running manual receive or for the follow-up,
\* never in both; nobody waits for a receive that does not run.
TypeOK ==
  /\ {foreground, followUp} \subseteq Capsules \cup {None}
  /\ followUp # None => followUp = foreground
  /\ {recent, cooling} \subseteq [Capsules -> BOOLEAN]
  /\ \A c \in Capsules :
       /\ op[c].at \in {"idle", "fetching", "polling", "draining"}
       /\ op[c].at = "idle" => op[c] = NoOperation /\ pending[c] = {}
       /\ op[c].manual => pending[c] = {}
       /\ op[c].waiters \cap pending[c] = {}
  /\ \A r \in Requests :
       request[r].status = "waiting" <=>
         \E c \in Capsules : r \in op[c].waiters \cup pending[c]

\* While a capsule stays in the foreground it polls again and again, whatever its
\* polls answered; in the background the coordinator comes to rest.
PollsInForeground ==
  /\ \A c \in Capsules : <>[](foreground = c) => []<>(op[c].at = "polling")
  /\ <>[](foreground = None) => <>[](\A c \in Capsules : op[c] = NoOperation)
=============================================================================
