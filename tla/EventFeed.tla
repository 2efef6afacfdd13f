----------------------------- MODULE EventFeed -----------------------------
(***************************************************************************)
(* What the event stream of a chat promises to one subscriber, however     *)
(* often its connection is lost, if it comes back with the id of the last  *)
(* event it received.                                                      *)
(*                                                                         *)
(* A subscription starts at the latest event stored when it is opened; a   *)
(* client that has received nothing yet may start anew.  From there it     *)
(* receives the stored events in their order, each once, without leaving   *)
(* one out.  There is one exception: a late event, stored when a later one *)
(* was stored already, may be delivered or left out.  Deleting the chat    *)
(* ends the feed at an arbitrary point.                                    *)
(***************************************************************************)
CONSTANTS
    Events,          \* what may be stored
    Beginning,       \* a point before every event
    Before(_, _)     \* the order of the feed

VARIABLES
    stored,    \* the events of the chat
    late,      \* those that were not the latest when they were stored
    deleted,   \* whether the chat is deleted
    start,     \* the event the subscription starts after
    lastSeen,  \* the last event delivered
    received   \* the events delivered

vars == <<stored, late, deleted, start, lastSeen, received>>

Init ==
    /\ stored = {}
    /\ late = {}
    /\ deleted = FALSE
    /\ start = Beginning
    /\ lastSeen = Beginning
    /\ received = {}

Store(r) ==
    /\ ~deleted
    /\ stored' = stored \cup {r}
    /\ late' = IF \E s \in stored : Before(r, s) THEN late \cup {r} ELSE late
    /\ UNCHANGED <<deleted, start, lastSeen, received>>

Delete ==
    /\ stored' = {}
    /\ deleted' = TRUE
    /\ UNCHANGED <<late, start, lastSeen, received>>

Subscribe ==
    /\ received = {}
    /\ \/ stored = {} /\ start' = Beginning
       \/ start' \in stored /\ \A s \in stored : ~Before(start', s)
    /\ UNCHANGED <<stored, late, deleted, lastSeen, received>>

(* Nothing that was owed is left out: nothing stored in time is between. *)
Deliver(r) ==
    /\ Before(lastSeen, r)
    /\ \/ deleted
       \/ /\ r \in stored
          /\ \A s \in stored \ late :
                ~(Before(start, s) /\ Before(lastSeen, s) /\ Before(s, r))
    /\ lastSeen' = r
    /\ received' = received \cup {r}
    /\ UNCHANGED <<stored, late, deleted, start>>

Next ==
    \/ \E r \in Events : Store(r) \/ Deliver(r)
    \/ Delete \/ Subscribe

Spec == Init /\ [][Next]_vars

=============================================================================
