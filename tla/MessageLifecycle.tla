-------------------------- MODULE MessageLifecycle --------------------------
(***************************************************************************)
(* What POST /chats/{id}/messages promises to a client that watches the    *)
(* chat's events and waits for the reply.                                  *)
(*                                                                         *)
(* The events of a message tell one story: received, processing, any       *)
(* number of tool calls, and at most one verdict, which is the last of     *)
(* them.  The answer is stored before "completed" is told, and after the   *)
(* last tool call.  The reply comes after the verdict: 201 only for a      *)
(* completed message, an error never for one.  Short of that an error says *)
(* nothing about how far the message got, and no reply says nothing at     *)
(* all.  Deleting the chat erases the story, at any point.                 *)
(***************************************************************************)
EXTENDS Naturals

CONSTANT Requests

VARIABLES
    stage,     \* per request, what the last event told
    tools,     \* per request, the tool calls told
    answered,  \* per request, whether its answer is stored
    reply      \* per request, what the client was told

vars == <<stage, tools, answered, reply>>

Stages  == {"unborn", "silent", "received", "processing", "completed", "failed", "erased"}
Replies == {"none", "created", "error", "lost"}

TypeOK ==
    /\ stage \in [Requests -> Stages]
    /\ tools \in [Requests -> Nat]
    /\ answered \in [Requests -> BOOLEAN]
    /\ reply \in [Requests -> Replies]

Init ==
    /\ stage = [r \in Requests |-> "unborn"]
    /\ tools = [r \in Requests |-> 0]
    /\ answered = [r \in Requests |-> FALSE]
    /\ reply = [r \in Requests |-> "none"]

Receive(r) ==
    /\ reply[r] = "none" /\ stage[r] = "silent"
    /\ stage' = [stage EXCEPT ![r] = "received"]
    /\ UNCHANGED <<tools, answered, reply>>

Process(r) ==
    /\ reply[r] = "none" /\ stage[r] = "received"
    /\ stage' = [stage EXCEPT ![r] = "processing"]
    /\ UNCHANGED <<tools, answered, reply>>

CallTool(r) ==
    /\ reply[r] = "none" /\ stage[r] = "processing" /\ ~answered[r]
    /\ tools' = [tools EXCEPT ![r] = @ + 1]
    /\ UNCHANGED <<stage, answered, reply>>

StoreAnswer(r) ==
    /\ reply[r] = "none" /\ stage[r] = "processing" /\ ~answered[r]
    /\ answered' = [answered EXCEPT ![r] = TRUE]
    /\ UNCHANGED <<stage, tools, reply>>

Complete(r) ==
    /\ reply[r] = "none" /\ stage[r] = "processing" /\ answered[r]
    /\ stage' = [stage EXCEPT ![r] = "completed"]
    /\ UNCHANGED <<tools, answered, reply>>

(* A failure is told if it can be, and the client is told anyway. *)
Fail(r) ==
    /\ reply[r] = "none" /\ stage[r] \in {"silent", "received", "processing"}
    /\ stage' = [stage EXCEPT ![r] = "failed"]
    /\ UNCHANGED <<tools, answered, reply>>

Accept(r) ==
    /\ reply[r] = "none" /\ stage[r] \in {"completed", "erased"}
    /\ reply' = [reply EXCEPT ![r] = "created"]
    /\ UNCHANGED <<stage, tools, answered>>

Refuse(r) ==
    /\ reply[r] = "none" /\ stage[r] # "completed"
    /\ reply' = [reply EXCEPT ![r] = "error"]
    /\ UNCHANGED <<stage, tools, answered>>

(* The server dies under some of the requests it has not replied to. *)
Lose ==
    /\ \E dead \in SUBSET {r \in Requests : reply[r] = "none"} :
          reply' = [r \in Requests |-> IF r \in dead THEN "lost" ELSE reply[r]]
    /\ UNCHANGED <<stage, tools, answered>>

Create ==
    /\ stage = [r \in Requests |-> "unborn"]
    /\ stage' = [r \in Requests |-> "silent"]
    /\ UNCHANGED <<tools, answered, reply>>

Erase ==
    /\ \A r \in Requests : stage[r] \notin {"unborn", "erased"}
    /\ stage' = [r \in Requests |-> "erased"]
    /\ tools' = [r \in Requests |-> 0]
    /\ answered' = [r \in Requests |-> FALSE]
    /\ UNCHANGED reply

Next ==
    \/ \E r \in Requests :
          \/ Receive(r) \/ Process(r) \/ CallTool(r) \/ StoreAnswer(r)
          \/ Complete(r) \/ Fail(r) \/ Accept(r) \/ Refuse(r)
    \/ Lose \/ Create \/ Erase

Spec == Init /\ [][Next]_vars

=============================================================================
