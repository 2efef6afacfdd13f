------------------------------ MODULE Listing ------------------------------
(***************************************************************************)
(* GET /chats and GET /chats/{id}/messages: pages of rows, newest first,   *)
(* by limit and offset, and a total; and a client that walks a listing     *)
(* page by page while chats are created and deleted and messages stored.   *)
(*                                                                         *)
(* A request reads up to three times, each time on a connection of its     *)
(* own: the chat, then, in either order, the page and the total.  Between  *)
(* two requests, and between two reads of one, any writes may commit; and  *)
(* a request may fail, or its process die and another one start, with or   *)
(* without tools.  The client then asks for the same page again.           *)
(*                                                                         *)
(* The rows of chats and of messages differ only in what they belong to,   *)
(* so both are rows here: chat is the chat of a message, and Chats of a    *)
(* chat.  Stamps are arbitrary: a row may be committed long after it was   *)
(* stamped, and the wall clock may step back.                              *)
(*                                                                         *)
(* A definition named ..._Mutant is a wrong form of the one it precedes;   *)
(* no specification uses it (see README, "Mutants").                       *)
(***************************************************************************)
EXTENDS Naturals, FiniteSets

CONSTANTS
    ChatIds, MessageIds,   \* the uuids drawn, ordered as text is
    Stamps,                \* created_at
    Limits                 \* page sizes clients ask for

Chats == 0   \* the listing of all chats, where a chat's id is that of its messages

ASSUME ListingAssumption ==
    /\ ChatIds \subseteq Nat \ {Chats}
    /\ MessageIds \subseteq Nat \ {Chats}
    /\ ChatIds \cap MessageIds = {}
    /\ IsFiniteSet(ChatIds) /\ IsFiniteSet(MessageIds)
    /\ Stamps \subseteq Nat
    /\ Limits \subseteq Nat \ {0}

VARIABLES
    rows,      \* the rows of chats and of messages
    drawn,     \* the ids drawn: a uuid is never drawn twice
    tools,     \* whether the process has the tool executor it should start with
    quiet,     \* whether nobody writes and nothing fails any more (history)
    pc,        \* where the walk stands
    listing,   \* what it lists: Chats, or a chat's id
    limit,     \* its page size
    offset,    \* the offset of the next request
    page,      \* the items of the current request
    total,     \* the total of the current request
    reads,     \* which of the two have been read
    seen,      \* the rows the client was given
    first,     \* the rows listed when the walk began (history)
    gone,      \* the rows that have left the listing since (history)
    new,       \* the rows that have come into it since (history)
    repeats,   \* how often a row was given that had been given before (history)
    between    \* the rows that came or left between the two reads (history)

store   == <<rows, drawn>>
process == <<tools, quiet>>
request == <<page, total, reads, between>>
walk    == <<listing, limit, first>>
given   == <<offset, seen, repeats>>
vars    == <<store, process, pc, request, walk, given, gone, new>>

Rows == [chat : {Chats}, id : ChatIds, at : Stamps]
            \cup [chat : ChatIds, id : MessageIds, at : Stamps]

Listed(l) == {r \in rows : r.chat = l}
Exists(c) == \E r \in Listed(Chats) : r.id = c

(* ORDER BY created_at DESC, id DESC. *)
Newer(a, b) == a.at > b.at \/ (a.at = b.at /\ a.id > b.id)
Rank(r)     == Cardinality({s \in Listed(r.chat) : Newer(s, r)})

Walking == pc \in {"between", "asked", "reading"}

(* Types; and a message has a chat (foreign_keys = ON). *)
TypeOK ==
    /\ rows \in SUBSET Rows
    /\ \A r \in rows : r.id \in drawn /\ (r.chat # Chats => Exists(r.chat))
    /\ drawn \in SUBSET (ChatIds \cup MessageIds)
    /\ tools \in BOOLEAN
    /\ quiet \in BOOLEAN
    /\ pc \in {"idle", "between", "asked", "reading", "ended", "refused"}
    /\ listing \in {Chats} \cup ChatIds
    /\ limit \in Limits \cup {0}
    /\ offset \in Nat
    /\ page \in SUBSET Rows
    /\ total \in Nat
    /\ reads \in SUBSET {"page", "total"}
    /\ seen \in SUBSET Rows
    /\ first \in SUBSET Rows
    /\ gone \in SUBSET Rows
    /\ new \in SUBSET Rows
    /\ repeats \in Nat
    /\ between \in Nat

Init ==
    /\ rows = {}
    /\ drawn = {}
    /\ tools \in BOOLEAN
    /\ quiet = FALSE
    /\ pc = "idle"
    /\ listing = Chats
    /\ limit = 0
    /\ offset = 0
    /\ page = {}
    /\ total = 0
    /\ reads = {}
    /\ seen = {}
    /\ first = {}
    /\ gone = {}
    /\ new = {}
    /\ repeats = 0
    /\ between = 0

-----------------------------------------------------------------------------
(* The writers. *)

(* The history: what a commit changes in the listing of the walk. *)
Note(came, left) ==
    LET mine(rs) == {r \in rs : r.chat = listing} IN
    /\ IF Walking
          THEN new' = new \cup mine(came) /\ gone' = gone \cup mine(left)
          ELSE UNCHANGED <<new, gone>>
    /\ between' = IF Cardinality(reads) = 1
                     THEN between + Cardinality(mine(came \cup left)) ELSE between

Insert(r) ==
    /\ r.id \notin drawn
    /\ rows' = rows \cup {r}
    /\ drawn' = drawn \cup {r.id}
    /\ Note({r}, {})
    /\ UNCHANGED <<process, pc, page, total, reads, walk, given>>

(* create_chat; the row is committed before the reply. *)
CreateChat ==
    \E c \in ChatIds, t \in Stamps : Insert([chat |-> Chats, id |-> c, at |-> t])

(* create_message, by a POST to the chat. *)
CreateMessage ==
    \E c \in ChatIds, m \in MessageIds, t \in Stamps :
        Exists(c) /\ Insert([chat |-> c, id |-> m, at |-> t])

(* ON DELETE CASCADE: a chat goes with its messages. *)
CascadeNothing_Mutant(c) == {r \in rows : r.chat = Chats /\ r.id = c}
Cascade(c) == {r \in rows : r.chat = c \/ (r.chat = Chats /\ r.id = c)}

(* delete_chat; of a chat that is not there, it is a 404. *)
DeleteChat ==
    \E c \in ChatIds :
        /\ Exists(c)
        /\ rows' = rows \ Cascade(c)
        /\ Note({}, Cascade(c))
        /\ UNCHANGED <<drawn, process, pc, page, total, reads, walk, given>>

-----------------------------------------------------------------------------
(* The client. *)

Begin ==
    /\ pc = "idle"
    /\ pc' = "between"
    /\ listing' \in {Chats} \cup ChatIds
    /\ limit' \in Limits
    /\ first' = Listed(listing')
    /\ UNCHANGED <<store, process, request, given, gone, new>>

Ask ==
    /\ pc = "between"
    /\ pc' = "asked"
    /\ UNCHANGED <<store, process, request, walk, given, gone, new>>

(***************************************************************************)
(* The items are taken.  A page that is not full is the last; a client     *)
(* cannot rely on the total, which may be of another moment.               *)
(***************************************************************************)
Respond ==
    /\ pc = "reading"
    /\ reads = {"page", "total"}
    /\ pc' = IF Cardinality(page) < limit THEN "ended" ELSE "between"
    /\ offset' = offset + Cardinality(page)
    /\ seen' = seen \cup page
    /\ repeats' = repeats + Cardinality(page \cap seen)
    /\ page' = {} /\ total' = 0 /\ reads' = {} /\ between' = 0
    /\ UNCHANGED <<store, process, walk, gone, new>>

-----------------------------------------------------------------------------
(* The routes and services. *)

(***************************************************************************)
(* get_message_service: without the executor of the startup, MessageService *)
(* builds one of its own, and passes the retriever the wrong arguments.    *)
(* That raises outside the try of the route, for a listing too: 500.       *)
(***************************************************************************)
GetMessageServiceFails ==
    /\ pc = "asked"
    /\ listing # Chats /\ ~tools
    /\ pc' = "between"
    /\ UNCHANGED <<store, process, request, walk, given, gone, new>>

EnsureChatExistsUnnamed_Mutant ==
    /\ pc = "asked"
    /\ listing = Chats \/ tools
    /\ pc' = IF listing = Chats \/ Exists(listing) THEN "reading" ELSE "between"
    /\ UNCHANGED <<store, process, request, walk, given, gone, new>>

(* _ensure_chat_exists, which GET /chats does not need; no chat is a 404. *)
EnsureChatExists ==
    /\ pc = "asked"
    /\ listing = Chats \/ tools
    /\ pc' = IF listing = Chats \/ Exists(listing) THEN "reading" ELSE "refused"
    /\ UNCHANGED <<store, process, request, walk, given, gone, new>>

(* LIMIT and OFFSET: the rows whose rank is within the page. *)
IsPageFromOne_Mutant(p) ==
    p = {r \in Listed(listing) : offset <= Rank(r) + 1 /\ Rank(r) + 1 < offset + limit}

IsPageByTime_Mutant(p) ==
    /\ p \subseteq Listed(listing)
    /\ \A r \in p : \A s \in Listed(listing) \ p : s.at > r.at =>
          Cardinality({q \in Listed(listing) : q.at > s.at}) < offset
    /\ Cardinality(p) = LET n == Cardinality(Listed(listing)) IN
          IF n <= offset THEN 0 ELSE IF n < offset + limit THEN n - offset ELSE limit

IsPage(p) == p = {r \in Listed(listing) : offset <= Rank(r) /\ Rank(r) < offset + limit}

ListRows ==
    /\ pc = "reading" /\ "page" \notin reads
    /\ page' \in SUBSET Listed(listing)
    /\ IsPage(page')
    /\ reads' = reads \cup {"page"}
    /\ UNCHANGED <<store, process, pc, total, between, walk, given, gone, new>>

CountEveryRow_Mutant ==
    /\ pc = "reading" /\ "total" \notin reads
    /\ total' = Cardinality({r \in rows : (r.chat = Chats) = (listing = Chats)})
    /\ reads' = reads \cup {"total"}
    /\ UNCHANGED <<store, process, pc, page, between, walk, given, gone, new>>

CountRows ==
    /\ pc = "reading" /\ "total" \notin reads
    /\ total' = Cardinality(Listed(listing))
    /\ reads' = reads \cup {"total"}
    /\ UNCHANGED <<store, process, pc, page, between, walk, given, gone, new>>

GiveUp ==
    /\ pc \in {"asked", "reading"}
    /\ pc' = "between"
    /\ page' = {} /\ total' = 0 /\ reads' = {} /\ between' = 0

(* DatabaseError of any of the reads: 500. *)
ReadFails == GiveUp /\ UNCHANGED <<store, process, walk, given, gone, new>>

(***************************************************************************)
(* The process dies, and its requests; the next one has its tools unless   *)
(* its sync failed, or there is no provider of embeddings.                 *)
(***************************************************************************)
Restart ==
    /\ GiveUp \/ (pc \notin {"asked", "reading"} /\ UNCHANGED <<pc, request>>)
    /\ tools' \in BOOLEAN
    /\ UNCHANGED <<quiet, store, walk, given, gone, new>>

-----------------------------------------------------------------------------
(* From here on nobody else writes, and nothing fails. *)
Settle ==
    /\ quiet' = TRUE
    /\ UNCHANGED <<store, tools, pc, request, walk, given, gone, new>>

Serve == GetMessageServiceFails \/ EnsureChatExists \/ ListRows \/ CountRows \/ Respond

Next ==
    \/ /\ ~quiet
       /\ CreateChat \/ CreateMessage \/ DeleteChat \/ ReadFails \/ Restart \/ Settle
    \/ Begin \/ Ask
    \/ Serve

(* A client that walks asks again, and an accepted request is served. *)
Fairness == WF_vars(Ask) /\ WF_vars(Serve)

Spec     == Init /\ [][Next]_vars
FairSpec == Spec /\ Fairness

-----------------------------------------------------------------------------
(* Properties. *)

(***************************************************************************)
(* A walk that came to its end was given every row that was listed all     *)
(* along, but for as many as rows have left the listing meanwhile: each    *)
(* deletion may move one row across the boundary of two pages.  Messages   *)
(* are never deleted one by one, so a walk of a chat's messages misses     *)
(* nothing, whatever is stored meanwhile, with whatever stamp.             *)
(***************************************************************************)
OnlyDeletionsSkip ==
    pc = "ended" => Cardinality((first \ gone) \ seen) <= Cardinality(gone)

(***************************************************************************)
(* And a row is given again at most once for each row that has come.       *)
(***************************************************************************)
OnlyInsertionsRepeat == repeats <= Cardinality(new)

(***************************************************************************)
(* The total and the page of one reply are of two moments.  They disagree  *)
(* by no more rows than came or left between them.                         *)
(***************************************************************************)
TotalAgrees ==
    reads = {"page", "total"} =>
        /\ page # {} => offset + Cardinality(page) <= total + between
        /\ Cardinality(page) < limit => total <= offset + Cardinality(page) + between

(***************************************************************************)
(* Once writes and failures cease, a walk ends, in a process that has its  *)
(* tools; a listing of chats ends in any.                                  *)
(***************************************************************************)
WalkEnds == Walking /\ quiet /\ (tools \/ listing = Chats) ~> ~Walking

=============================================================================
