---------------------------- MODULE EventStream ----------------------------
(***************************************************************************)
(* The event feed of one chat, from the coroutines that emit its events,   *)
(* through the chat_events table, to a client of GET .../events/stream     *)
(* that may lose its connection and come back with a Last-Event-ID header. *)
(*                                                                         *)
(* An emitter is one request that calls NotificationService._emit.  The    *)
(* row gets its id and its created_at stamp when create_event starts; it   *)
(* is in the table only when its own connection commits, and meanwhile     *)
(* other emitters may stamp and commit theirs.  The stream never sees the  *)
(* emitters: it polls the table for the rows after its cursor in the order *)
(* (created_at, id), and advances the cursor row by row as it yields them. *)
(*                                                                         *)
(* Subscribers of a chat share nothing, so one is modelled; events of      *)
(* other chats are rows no query of this chat returns, so only their ids   *)
(* appear here, as headers a confused client may send (ForeignIds).        *)
(*                                                                         *)
(* A definition named ..._Mutant is a wrong form of the one it precedes;   *)
(* no specification uses it (see README, "Mutants").                       *)
(***************************************************************************)
EXTENDS Naturals, Sequences, FiniteSets

CONSTANTS
    Emitters,     \* requests that emit events of the chat, one at a time each
    Ids,          \* the uuids the chat's events may get, ordered as text is
    ForeignIds,   \* ids of no event of this chat that a client may present
    MaxTime,      \* bound on the clock
    BatchSize     \* SSE_BATCH_SIZE

ASSUME EventStreamAssumption ==
    /\ Ids \subseteq Nat \ {0}
    /\ ForeignIds \subseteq Nat \ ({0} \cup Ids)
    /\ MaxTime \in Nat
    /\ BatchSize \in Nat \ {0}

VARIABLES
    now,       \* the clock utcnow() reads
    chat,      \* the row of the chat: "active" or "deleted"
    table,     \* the committed rows of chat_events of this chat
    issued,    \* every row ever stamped: a uuid is never drawn twice
    pending,   \* per emitter, the stamped row it has not committed, or NoRow
    overtaken, \* rows committed when a later one was committed already (history)
    pc,        \* the stream endpoint: "closed", "opening" or "streaming"
    header,    \* the Last-Event-ID of the open request, 0 when there is none
    cursor,    \* the last row yielded (or resumed from), or Beginning
    batch,     \* the fetched rows that are still to be yielded
    wire,      \* the frames sent and not yet received
    lastSeen,  \* the last event the client received, Beginning if none
    received,  \* every event the client received
    start      \* where the client's subscription begins (history)

feedVars   == <<now, chat, table, issued, pending, overtaken>>
streamVars == <<pc, header, cursor, batch, wire>>
clientVars == <<lastSeen, received, start>>
vars == <<feedVars, streamVars, clientVars>>

Rows == [at : 1 .. MaxTime, id : Ids]

(* The cursor (None, None): no row of the table is before it. *)
Beginning == [at |-> 0, id |-> 0]
NoRow     == Beginning

(***************************************************************************)
(* ORDER BY created_at ASC, id ASC, and its strict part in the WHERE       *)
(* clause of list_events_after.                                            *)
(***************************************************************************)
AtOrBefore(a, b) == a.at < b.at \/ (a.at = b.at /\ a.id <= b.id)
Before(a, b) == a.at < b.at \/ (a.at = b.at /\ a.id < b.id)

IdsIn(rows) == {r.id : r \in rows}

(* Types; and a deleted chat leaves no row behind (foreign_keys = ON). *)
TypeOK ==
    /\ now \in 1 .. MaxTime + 1
    /\ chat \in {"active", "deleted"}
    /\ issued \in SUBSET Rows
    /\ table \in SUBSET issued
    /\ chat = "deleted" => table = {}
    /\ pending \in [Emitters -> issued \cup {NoRow}]
    /\ overtaken \in SUBSET issued
    /\ pc \in {"closed", "opening", "streaming"}
    /\ header \in Ids \cup ForeignIds \cup {0}
    /\ cursor \in issued \cup {Beginning}
    /\ batch \in SUBSET issued
    /\ wire \in Seq(issued)
    /\ lastSeen \in issued \cup {Beginning}
    /\ received \in SUBSET issued
    /\ start \in issued \cup {Beginning}

Init ==
    /\ now = 1
    /\ chat = "active"
    /\ table = {}
    /\ issued = {}
    /\ pending = [e \in Emitters |-> NoRow]
    /\ overtaken = {}
    /\ pc = "closed"
    /\ header = 0
    /\ cursor = Beginning
    /\ batch = {}
    /\ wire = <<>>
    /\ lastSeen = Beginning
    /\ received = {}
    /\ start = Beginning

-----------------------------------------------------------------------------
(* The emitters and the table. *)

Tick ==
    /\ now <= MaxTime
    /\ now' = now + 1
    /\ UNCHANGED <<chat, table, issued, pending, overtaken, streamVars, clientVars>>

(* create_event: the row is stamped before any connection is open. *)
Stamp(e) ==
    /\ pending[e] = NoRow
    /\ now <= MaxTime
    /\ \E i \in Ids \ IdsIn(issued) :
          LET row == [at |-> now, id |-> i] IN
          /\ issued' = issued \cup {row}
          /\ pending' = [pending EXCEPT ![e] = row]
    /\ UNCHANGED <<now, chat, table, overtaken, streamVars, clientVars>>

(***************************************************************************)
(* _execute_write returns: the INSERT is committed.  Opening a connection, *)
(* the INSERT and the commit take more than the microsecond the stamp      *)
(* resolves, so the clock has moved on since the row was stamped.          *)
(***************************************************************************)
Commit(e) ==
    /\ pending[e] # NoRow
    /\ now > pending[e].at
    /\ chat = "active"
    /\ table' = table \cup {pending[e]}
    /\ pending' = [pending EXCEPT ![e] = NoRow]
    /\ overtaken' = IF \E r \in table : Before(pending[e], r)
                      THEN overtaken \cup {pending[e]} ELSE overtaken
    /\ UNCHANGED <<now, chat, issued, streamVars, clientVars>>

(***************************************************************************)
(* The write raises DatabaseError (a busy database, or the foreign key of  *)
(* a chat deleted meanwhile), or its process dies: the row is nowhere.     *)
(***************************************************************************)
Abort(e) ==
    /\ pending[e] # NoRow
    /\ pending' = [pending EXCEPT ![e] = NoRow]
    /\ UNCHANGED <<now, chat, table, issued, overtaken, streamVars, clientVars>>

(* DELETE FROM chats, and ON DELETE CASCADE takes the chat's events. *)
DeleteWithoutCascade_Mutant ==
    /\ chat = "active"
    /\ chat' = "deleted"
    /\ UNCHANGED <<now, table, issued, pending, overtaken, streamVars, clientVars>>

DeleteChat ==
    /\ chat = "active"
    /\ chat' = "deleted"
    /\ table' = {}
    /\ UNCHANGED <<now, issued, pending, overtaken, streamVars, clientVars>>

-----------------------------------------------------------------------------
(* The stream endpoint. *)

OpenStreamForgetting_Mutant ==
    /\ pc = "closed"
    /\ chat = "active"
    /\ pc' = "opening"
    /\ header' \in {0} \cup ForeignIds
    /\ UNCHANGED <<feedVars, cursor, batch, wire, clientVars>>

(***************************************************************************)
(* stream_events finds the chat (a deleted one is a 404 that opens         *)
(* nothing).  The client sends the id of the last event it received, no    *)
(* header when it has received none, or an id that is not of this chat.    *)
(***************************************************************************)
OpenStream ==
    /\ pc = "closed"
    /\ chat = "active"
    /\ pc' = "opening"
    /\ header' \in {lastSeen.id} \cup ForeignIds
    /\ UNCHANGED <<feedVars, cursor, batch, wire, clientVars>>

(***************************************************************************)
(* The three branches of _resolve_stream_cursor, one query each: the event *)
(* the header names, (None, None) when this chat has no such event, the    *)
(* latest event when there is no header.  In the last case the subscriber  *)
(* starts afresh.                                                          *)
(***************************************************************************)
ResumeAfter(r) ==
    /\ r.id = header
    /\ cursor' = r
    /\ UNCHANGED start

ResumeUnknown ==
    /\ header # 0
    /\ header \notin IdsIn(table)
    /\ cursor' = Beginning
    /\ UNCHANGED start

StartAtLatest ==
    /\ header = 0
    /\ \/ table = {} /\ cursor' = Beginning
       \/ \E r \in table : /\ \A s \in table : AtOrBefore(s, r)
                           /\ cursor' = r
    /\ start' = cursor'

ResolveIgnoringHeader_Mutant ==
    /\ pc = "opening"
    /\ \/ ResumeUnknown \/ StartAtLatest
       \/ header # 0 /\ header \in IdsIn(table) /\ cursor' = Beginning /\ UNCHANGED start
    /\ pc' = "streaming"
    /\ UNCHANGED <<feedVars, header, batch, wire, lastSeen, received>>

ResolveCursor ==
    /\ pc = "opening"
    /\ \/ \E r \in table : ResumeAfter(r)
       \/ ResumeUnknown
       \/ StartAtLatest
    /\ pc' = "streaming"
    /\ UNCHANGED <<feedVars, header, batch, wire, lastSeen, received>>

(***************************************************************************)
(* list_events_after: the first BatchSize rows after the cursor in order,  *)
(* all of them if there are fewer.                                         *)
(***************************************************************************)
PageUnordered_Mutant(c, page) ==
    LET later == {r \in table : Before(c, r)} IN
    /\ page \subseteq later
    /\ Cardinality(page) = BatchSize \/ page = later

PageAfterTime_Mutant(c, page) ==
    LET later == {r \in table : c.at < r.at} IN
    /\ page \subseteq later
    /\ \A r \in page, s \in later : Before(s, r) => s \in page
    /\ Cardinality(page) = BatchSize \/ (Cardinality(page) < BatchSize /\ page = later)

IsPageAfter(c, page) ==
    LET later == {r \in table : Before(c, r)} IN
    /\ page \subseteq later
    /\ \A r \in page, s \in later : Before(s, r) => s \in page
    /\ Cardinality(page) = BatchSize \/ (Cardinality(page) < BatchSize /\ page = later)

(* An empty page is the heartbeat and the sleep: nothing changes. *)
Poll ==
    /\ pc = "streaming"
    /\ batch = {}
    /\ batch' \in SUBSET table
    /\ IsPageAfter(cursor, batch')
    /\ UNCHANGED <<feedVars, pc, header, cursor, wire, clientVars>>

(* The next event of the batch is yielded, then becomes the cursor. *)
Yield ==
    /\ pc = "streaming"
    /\ \E r \in batch :
          /\ \A s \in batch : AtOrBefore(r, s)
          /\ wire' = Append(wire, r)
          /\ cursor' = r
          /\ batch' = batch \ {r}
    /\ UNCHANGED <<feedVars, pc, header, clientVars>>

(***************************************************************************)
(* The connection is lost, the server restarts, a poll raises, or opening  *)
(* the stream fails: the coroutine ends, and the frames on the wire with   *)
(* it.  The client keeps what it received.                                 *)
(***************************************************************************)
Disconnect ==
    /\ pc # "closed"
    /\ pc' = "closed"
    /\ header' = 0
    /\ cursor' = Beginning
    /\ batch' = {}
    /\ wire' = <<>>
    /\ UNCHANGED <<feedVars, clientVars>>

(* The client: frames arrive in the order they were sent. *)
Receive ==
    /\ wire # <<>>
    /\ lastSeen' = Head(wire)
    /\ received' = received \cup {Head(wire)}
    /\ wire' = Tail(wire)
    /\ UNCHANGED <<feedVars, pc, header, cursor, batch, start>>

-----------------------------------------------------------------------------
Next ==
    \/ Tick
    \/ \E e \in Emitters : Stamp(e) \/ Commit(e) \/ Abort(e)
    \/ DeleteChat
    \/ OpenStream \/ ResolveCursor \/ Poll \/ Yield \/ Disconnect
    \/ Receive

(***************************************************************************)
(* The event loop resumes a stream that can continue (after its sleep, or  *)
(* after a send), and a live connection carries its frames.  Nothing is    *)
(* owed of an emitter, of a client that might reconnect, or of a failure.  *)
(***************************************************************************)
Fairness ==
    /\ WF_vars(Poll)
    /\ WF_vars(Yield)
    /\ WF_vars(Receive)

Spec     == Init /\ [][Next]_vars
FairSpec == Spec /\ Fairness

-----------------------------------------------------------------------------
(* Properties. *)

(***************************************************************************)
(* Across batches, lost connections and resumptions by Last-Event-ID, the  *)
(* client sees every event at most once and in the order of the table: an  *)
(* event that arrives is later than every event received before it.        *)
(***************************************************************************)
InOrderOnce == [][Receive => \A r \in received : Before(r, lastSeen')]_vars

(***************************************************************************)
(* No gap: an event that is stored, follows the start of the subscription  *)
(* and precedes the last one received has been received.  A resuming       *)
(* client asks only for what follows lastSeen, so an event that becomes    *)
(* visible behind it is lost to that client for good.  The exception is an *)
(* event that another request overtook: stamped before a row that was      *)
(* committed when its own was.                                             *)
(***************************************************************************)
NoGap ==
    \A r \in table \ overtaken :
        Before(start, r) /\ ~Before(lastSeen, r) => r \in received

(***************************************************************************)
(* For a client that presents only ids it received, the table, the stream  *)
(* endpoint and the connection together implement EventFeed: nothing of    *)
(* cursors, pages, frames and reconnections is left to be seen.            *)
(***************************************************************************)
Feed == INSTANCE EventFeed WITH
    Events  <- Rows,
    stored  <- table,
    late    <- overtaken,
    deleted <- (chat = "deleted")

FeedSpec == Feed!Spec

(***************************************************************************)
(* The same at the server: what the cursor has passed is received or on    *)
(* its way.                                                                *)
(***************************************************************************)
Sent == {wire[i] : i \in DOMAIN wire}
CursorLeavesNothingBehind ==
    pc = "streaming" =>
        \A r \in table \ overtaken :
            Before(start, r) /\ ~Before(cursor, r) => r \in received \cup Sent

(***************************************************************************)
(* A stream "delivers [a] persisted event" (tests/integration/test_sse.py) *)
(* whoever emitted it: NoGap without the exception.                        *)
(***************************************************************************)
PersistedEventsAreDelivered ==
    \A r \in table :
        Before(start, r) /\ ~Before(lastSeen, r) => r \in received

(***************************************************************************)
(* Once the connection stays up, everything stored after the start of the  *)
(* subscription and not overtaken is received, what was lost with earlier  *)
(* connections included, unless the chat is deleted.                       *)
(***************************************************************************)
Owed(i) == \E r \in table \ (received \cup overtaken) : r.id = i /\ Before(start, r)
EverythingArrives ==
    <>[](pc = "streaming") =>
        \A i \in Ids : Owed(i) ~> (chat = "deleted" \/ ~Owed(i))

=============================================================================
