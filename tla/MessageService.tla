--------------------------- MODULE MessageService ---------------------------
(***************************************************************************)
(* The requests that post messages to one chat, from the route handler     *)
(* (api/v1/messages.py) through MessageService.post_user_message and its   *)
(* agent loop to the rows of messages and chat_events they leave.          *)
(*                                                                         *)
(* Each request is a coroutine; pc says which of its awaits it stands at,  *)
(* and between two awaits nobody else runs.  Requests meet in the database *)
(* only: there every statement is a transaction on a connection of its     *)
(* own, which commits and returns or raises and leaves nothing.  The chat  *)
(* may be deleted, and the single worker process may die, at any await.    *)
(*                                                                         *)
(* The model provider and the knowledge base are outside: a completion is  *)
(* any content or any number of tool calls up to MaxCalls, a search        *)
(* returns any set of files, a file that is read may be gone.              *)
(*                                                                         *)
(* A definition named ..._Mutant is a wrong form of the one it precedes;   *)
(* no specification uses it (see README, "Mutants").                       *)
(***************************************************************************)
EXTENDS ToolExecutor, Sequences, FiniteSets

CONSTANTS
    Requests,        \* the POSTs to the chat
    Flagged,         \* those whose content the input guard rejects
    MaxToolRounds,   \* MAX_TOOL_ROUND_TRIPS
    MaxCalls,        \* bound on the tool calls of one completion
    Faults           \* what may go wrong besides: "database", "crash"

ASSUME MessageServiceAssumption ==
    /\ Flagged \subseteq Requests
    /\ MaxToolRounds \in Nat \ {0}
    /\ MaxCalls \in Nat \ {0}
    /\ Faults \subseteq {"database", "crash"}

VARIABLES
    chat,          \* the chats row: "absent", "active", "deleted"
    clock,         \* the last created_at drawn for a message
    messages,      \* the committed rows of messages
    events,        \* per request, the types of its chat_events rows in order
    pc,            \* per request, the await it stands at
    stamp,         \* per request, created_at of the row being written
    history,       \* per request, the earlier messages of its prompt
    conversation,  \* per request, the tool results appended to the prompt
    ctx,           \* per request, its ToolExecutionContext
    rounds,        \* per request, the completions that called tools
    todo,          \* per request, the calls of the last one not yet handled
    calls,         \* per request, tool_calls_executed
    used,          \* per request, used_knowledge_files
    error,         \* per request, what post_user_message caught
    reply,         \* per request, the HTTP status
    before         \* per request, the requests answered before it was posted

tables == <<chat, messages, events>>
flow   == <<history, conversation, ctx, rounds, todo, calls, used>>
vars   == <<tables, clock, pc, stamp, flow, error, reply, before>>

-----------------------------------------------------------------------------
EventTypes == {"received", "processing", "tool_called", "completed", "failed"}

(* metadata_json of an assistant row is calls and used; a user row has none. *)
MessageRows == [req : Requests, role : {"user", "assistant"}, at : Nat,
                calls : Nat, used : SUBSET Files]

UserRow(r)      == [req |-> r, role |-> "user", at |-> stamp[r], calls |-> 0, used |-> {}]
AssistantRow(r) == [req |-> r, role |-> "assistant", at |-> stamp[r],
                    calls |-> calls[r], used |-> used[r]]

(* A search result names the hits, a read result the file and if it was found. *)
ToolResults == [tool : {"search", "read"}, files : SUBSET Files, found : BOOLEAN]

(* LLMProviderError and MessageProcessingError pass, the rest is wrapped. *)
Errors   == {"none", "provider", "processing", "guardrail", "other"}
Statuses == {0, 201, 404, 500, 502}

PCs == {"idle", "create_user_message", "emit_received", "emit_processing",
        "get_chat_history", "chat_completion", "execute_tool_call",
        "emit_tool_called", "create_assistant_message", "emit_completed",
        "emit_failed", "respond", "done", "dead"}

InFlight(r) == pc[r] \notin {"idle", "done", "dead"}

TypeOK ==
    /\ chat \in {"absent", "active", "deleted"}
    /\ clock \in Nat
    /\ messages \in SUBSET MessageRows
    /\ events \in [Requests -> Seq(EventTypes)]
    /\ pc \in [Requests -> PCs]
    /\ stamp \in [Requests -> Nat]
    /\ history \in [Requests -> SUBSET MessageRows]
    /\ conversation \in [Requests -> Seq(ToolResults)]
    /\ ctx \in [Requests -> Contexts]
    /\ rounds \in [Requests -> 0 .. MaxToolRounds]
    /\ todo \in [Requests -> 0 .. MaxCalls]
    /\ calls \in [Requests -> Nat]
    /\ used \in [Requests -> SUBSET Files]
    /\ error \in [Requests -> Errors]
    /\ reply \in [Requests -> Statuses]
    /\ before \in [Requests -> SUBSET Requests]

Init ==
    /\ chat = "absent"
    /\ clock = 0
    /\ messages = {}
    /\ events = [r \in Requests |-> <<>>]
    /\ pc = [r \in Requests |-> "idle"]
    /\ stamp = [r \in Requests |-> 0]
    /\ history = [r \in Requests |-> {}]
    /\ conversation = [r \in Requests |-> <<>>]
    /\ ctx = [r \in Requests |-> FreshContext]
    /\ rounds = [r \in Requests |-> 0]
    /\ todo = [r \in Requests |-> 0]
    /\ calls = [r \in Requests |-> 0]
    /\ used = [r \in Requests |-> {}]
    /\ error = [r \in Requests |-> "none"]
    /\ reply = [r \in Requests |-> 0]
    /\ before = [r \in Requests |-> {}]

-----------------------------------------------------------------------------
(* The chat. *)

CreateChat ==
    /\ chat = "absent"
    /\ chat' = "active"
    /\ UNCHANGED <<messages, events, clock, pc, stamp, flow, error, reply, before>>

(* ON DELETE CASCADE takes the messages and the events of the chat. *)
DeleteChat ==
    /\ chat = "active"
    /\ chat' = "deleted"
    /\ messages' = {}
    /\ events' = [r \in Requests |-> <<>>]
    /\ UNCHANGED <<clock, pc, stamp, flow, error, reply, before>>

-----------------------------------------------------------------------------
(* Steps shared by the operations below. *)

Goto(r, label) == pc' = [pc EXCEPT ![r] = label]

Reply(r, status) ==
    /\ reply' = [reply EXCEPT ![r] = status]
    /\ Goto(r, "done")

(* The except clause of post_user_message: first tell of the failure. *)
Raise(r, kind) ==
    /\ error' = [error EXCEPT ![r] = kind]
    /\ Goto(r, "emit_failed")

(* created_at is drawn before the connection is opened. *)
DrawStamp(r) ==
    /\ clock' = clock + 1
    /\ stamp' = [stamp EXCEPT ![r] = clock + 1]

(* A write is possible while the row its foreign key names is there. *)
CanWrite   == chat = "active"
WriteFails == chat # "active" \/ "database" \in Faults

Append1(log, r, item) == [log EXCEPT ![r] = Append(@, item)]

-----------------------------------------------------------------------------
(* post_user_message up to the agent loop. *)

(* _ensure_chat_exists; ChatNotFoundError is a 404. *)
Post(r) ==
    /\ pc[r] = "idle"
    /\ before' = [before EXCEPT ![r] = {q \in Requests : reply[q] = 201}]
    /\ \/ /\ chat = "active"
          /\ DrawStamp(r)
          /\ Goto(r, "create_user_message")
          /\ UNCHANGED reply
       \/ /\ chat # "active"
          /\ Reply(r, 404)
          /\ UNCHANGED <<clock, stamp>>
       \/ /\ "database" \in Faults
          /\ Reply(r, 500)
          /\ UNCHANGED <<clock, stamp>>
    /\ UNCHANGED <<tables, flow, error>>

(* Before the try: a failure leaves no event, and is an internal_error. *)
CreateUserMessage(r) ==
    /\ pc[r] = "create_user_message"
    /\ \/ /\ CanWrite
          /\ messages' = messages \cup {UserRow(r)}
          /\ Goto(r, "emit_received")
          /\ UNCHANGED reply
       \/ /\ WriteFails
          /\ Reply(r, 500)
          /\ UNCHANGED messages
    /\ UNCHANGED <<chat, events, clock, stamp, flow, error, before>>

(* _emit of one event, and what follows when it has returned. *)
Emit(r, type, label) ==
    \/ /\ CanWrite
       /\ events' = Append1(events, r, type)
       /\ Goto(r, label)
       /\ UNCHANGED error
    \/ /\ WriteFails
       /\ Raise(r, "other")
       /\ UNCHANGED events

EmitReceived(r) ==
    /\ pc[r] = "emit_received"
    /\ Emit(r, "received", "emit_processing")
    /\ UNCHANGED <<chat, messages, clock, stamp, flow, reply, before>>

EmitProcessing(r) ==
    /\ pc[r] = "emit_processing"
    /\ Emit(r, "processing", "get_chat_history")
    /\ UNCHANGED <<chat, messages, clock, stamp, flow, reply, before>>

(***************************************************************************)
(* _exclude_current_user_message: the current message is dropped from the  *)
(* history only if it is the last of it.                                   *)
(***************************************************************************)
IsLast(row) == \A other \in messages : other.at <= row.at

PriorQuestions_Mutant(r) ==
    {row \in messages : row.role = "user" /\ ~(row.req = r /\ IsLast(row))}
PriorHistory(r) ==
    {row \in messages : ~(row.req = r /\ row.role = "user" /\ IsLast(row))}

(* InputGuard.check: too long, or a phrase of the deny-list in it. *)
InputGuardRejects(r) == r \in Flagged

(* get_chat_history, build_chat_messages, then the input guard. *)
GetChatHistory(r) ==
    /\ pc[r] = "get_chat_history"
    /\ \/ /\ history' = [history EXCEPT ![r] = PriorHistory(r)]
          /\ IF InputGuardRejects(r)
                THEN Raise(r, "guardrail")
                ELSE Goto(r, "chat_completion") /\ UNCHANGED error
       \/ /\ "database" \in Faults
          /\ Raise(r, "other")
          /\ UNCHANGED history
    /\ UNCHANGED <<tables, clock, stamp, conversation, ctx, rounds, todo, calls, used,
                   reply, before>>

-----------------------------------------------------------------------------
(* _run_agent_flow. *)

(* _extract_assistant_content: the content is no text, or blank. *)
NoTextualContent(r) == Raise(r, "processing")

(* OutputGuard.check: too long, or tool syntax in it. *)
OutputGuardRejects(r) == Raise(r, "guardrail")

(* Content; the output guard follows in the same step. *)
CompleteWithContent(r) ==
    /\ pc[r] = "chat_completion"
    /\ \/ /\ DrawStamp(r)
          /\ Goto(r, "create_assistant_message")
          /\ UNCHANGED error
       \/ /\ NoTextualContent(r) \/ OutputGuardRejects(r)
          /\ UNCHANGED <<clock, stamp>>
    /\ UNCHANGED <<tables, flow, reply, before>>

CompleteWithToolCalls(r) ==
    /\ pc[r] = "chat_completion"
    /\ rounds' = [rounds EXCEPT ![r] = @ + 1]
    /\ \E n \in 1 .. MaxCalls : todo' = [todo EXCEPT ![r] = n]
    /\ Goto(r, "execute_tool_call")
    /\ UNCHANGED <<tables, clock, stamp, history, conversation, ctx, calls, used,
                   error, reply, before>>

(* LLMProviderError: the request failed, or no choice, or no message in it. *)
ProviderFailsRetried_Mutant(r) ==
    /\ pc[r] = "chat_completion"
    /\ IF rounds[r] = 0 THEN Goto(r, "get_chat_history") /\ UNCHANGED error
       ELSE Raise(r, "provider")
    /\ UNCHANGED <<tables, clock, stamp, flow, reply, before>>

ProviderFails(r) ==
    /\ pc[r] = "chat_completion"
    /\ Raise(r, "provider")
    /\ UNCHANGED <<tables, clock, stamp, flow, reply, before>>

IsRead(result) == result.tool = "read"

(* _extract_used_knowledge_file: the document of a read, if it was found. *)
UsedFiles(result) == IF IsRead(result) /\ result.found THEN result.files ELSE {}

(***************************************************************************)
(* The result of the call is appended, counted, and the file it brought is *)
(* noted; but a call without an id has been executed by then and raises.   *)
(***************************************************************************)
TakeResultUncounted_Mutant(r, result) ==
    \/ /\ conversation' = Append1(conversation, r, result)
       /\ calls' = [calls EXCEPT ![r] = IF result.found THEN @ + 1 ELSE @]
       /\ used' = [used EXCEPT ![r] = @ \cup UsedFiles(result)]
       /\ Goto(r, "emit_tool_called")
       /\ UNCHANGED error
    \/ /\ Raise(r, "processing")
       /\ UNCHANGED <<conversation, calls, used>>

TakeResult(r, result) ==
    \/ /\ conversation' = Append1(conversation, r, result)
       /\ calls' = [calls EXCEPT ![r] = @ + 1]
       /\ used' = [used EXCEPT ![r] = @ \cup UsedFiles(result)]
       /\ Goto(r, "emit_tool_called")
       /\ UNCHANGED error
    \/ /\ Raise(r, "processing")
       /\ UNCHANGED <<conversation, calls, used>>

ExecuteSearchShared_Mutant(r) ==
    /\ pc[r] = "execute_tool_call"
    /\ \E hits \in SUBSET Files :
          /\ ctx' = [q \in Requests |-> AfterSearch(ctx[q], hits)]
          /\ TakeResult(r, [tool |-> "search", files |-> hits, found |-> TRUE])
    /\ UNCHANGED <<tables, clock, stamp, history, rounds, todo, reply, before>>

ExecuteSearch(r) ==
    /\ pc[r] = "execute_tool_call"
    /\ \E hits \in SUBSET Files :
          /\ ctx' = [ctx EXCEPT ![r] = AfterSearch(@, hits)]
          /\ TakeResult(r, [tool |-> "search", files |-> hits, found |-> TRUE])
    /\ UNCHANGED <<tables, clock, stamp, history, rounds, todo, reply, before>>

ExecuteRead(r) ==
    /\ pc[r] = "execute_tool_call"
    /\ \E file \in Files, found \in BOOLEAN :
          /\ MayRead(ctx[r], file)
          /\ ctx' = [ctx EXCEPT ![r] = AfterRead(@)]
          /\ TakeResult(r, [tool |-> "read", files |-> {file}, found |-> found])
    /\ UNCHANGED <<tables, clock, stamp, history, rounds, todo, reply, before>>

(* A refused read, bad arguments, an unknown tool, a failing database or disk. *)
ToolRaises(r) ==
    /\ pc[r] = "execute_tool_call"
    /\ Raise(r, "other")
    /\ UNCHANGED <<tables, clock, stamp, flow, reply, before>>

(* The event, then the next call, the next round, or one round too many. *)
EmitToolCalledUnbounded_Mutant(r) ==
    /\ pc[r] = "emit_tool_called"
    /\ todo' = [todo EXCEPT ![r] = @ - 1]
    /\ Emit(r, "tool_called",
            IF todo[r] > 1 THEN "execute_tool_call" ELSE "chat_completion")
    /\ UNCHANGED <<chat, messages, clock, stamp, history, conversation, ctx, rounds,
                   calls, used, reply, before>>

EmitToolCalledBestEffort_Mutant(r) ==
    /\ pc[r] = "emit_tool_called"
    /\ todo' = [todo EXCEPT ![r] = @ - 1]
    /\ \/ CanWrite /\ events' = Append1(events, r, "tool_called")
       \/ WriteFails /\ UNCHANGED events
    /\ IF todo[r] = 1 /\ rounds[r] = MaxToolRounds
          THEN Raise(r, "processing")
          ELSE /\ Goto(r, IF todo[r] > 1 THEN "execute_tool_call" ELSE "chat_completion")
               /\ UNCHANGED error
    /\ UNCHANGED <<chat, messages, clock, stamp, history, conversation, ctx, rounds,
                   calls, used, reply, before>>

EmitToolCalled(r) ==
    /\ pc[r] = "emit_tool_called"
    /\ todo' = [todo EXCEPT ![r] = @ - 1]
    /\ IF todo[r] = 1 /\ rounds[r] = MaxToolRounds
          THEN \/ /\ CanWrite
                  /\ events' = Append1(events, r, "tool_called")
                  /\ Raise(r, "processing")
               \/ /\ WriteFails
                  /\ Raise(r, "other")
                  /\ UNCHANGED events
          ELSE Emit(r, "tool_called",
                    IF todo[r] > 1 THEN "execute_tool_call" ELSE "chat_completion")
    /\ UNCHANGED <<chat, messages, clock, stamp, history, conversation, ctx, rounds,
                   calls, used, reply, before>>

-----------------------------------------------------------------------------
(* post_user_message after the agent loop. *)

CreateAssistantMessageBestEffort_Mutant(r) ==
    /\ pc[r] = "create_assistant_message"
    /\ \/ CanWrite /\ messages' = messages \cup {AssistantRow(r)}
       \/ WriteFails /\ UNCHANGED messages
    /\ Goto(r, "emit_completed")
    /\ UNCHANGED <<chat, events, clock, stamp, flow, error, reply, before>>

CreateAssistantMessage(r) ==
    /\ pc[r] = "create_assistant_message"
    /\ \/ /\ CanWrite
          /\ messages' = messages \cup {AssistantRow(r)}
          /\ Goto(r, "emit_completed")
          /\ UNCHANGED error
       \/ /\ WriteFails
          /\ Raise(r, "other")
          /\ UNCHANGED messages
    /\ UNCHANGED <<chat, events, clock, stamp, flow, reply, before>>

EmitCompleted(r) ==
    /\ pc[r] = "emit_completed"
    /\ Emit(r, "completed", "respond")
    /\ UNCHANGED <<chat, messages, clock, stamp, flow, reply, before>>

(* _emit_failure_event swallows its own failure. *)
EmitFailedSelective_Mutant(r) ==
    /\ pc[r] = "emit_failed"
    /\ \/ /\ error[r] # "other" /\ CanWrite
          /\ events' = Append1(events, r, "failed")
       \/ /\ error[r] = "other" \/ WriteFails
          /\ UNCHANGED events
    /\ Goto(r, "respond")
    /\ UNCHANGED <<chat, messages, clock, stamp, flow, error, reply, before>>

EmitFailed(r) ==
    /\ pc[r] = "emit_failed"
    /\ \/ CanWrite /\ events' = Append1(events, r, "failed")
       \/ WriteFails /\ UNCHANGED events
    /\ Goto(r, "respond")
    /\ UNCHANGED <<chat, messages, clock, stamp, flow, error, reply, before>>

(***************************************************************************)
(* The verdict is committed, its connection still to be closed: the reply  *)
(* is behind one more await.  LLMProviderError is re-raised (502), and all *)
(* else leaves as MessageProcessingError (500), a GuardrailViolationError  *)
(* included.                                                               *)
(***************************************************************************)
Status(r) == CASE error[r] = "none"     -> 201
               [] error[r] = "provider" -> 502
               [] OTHER                 -> 500

Respond(r) ==
    /\ pc[r] = "respond"
    /\ Reply(r, Status(r))
    /\ UNCHANGED <<tables, clock, stamp, flow, error, before>>

-----------------------------------------------------------------------------
(* The worker process dies: its coroutines, and their replies, are gone. *)
Crash ==
    /\ "crash" \in Faults
    /\ \E r \in Requests : InFlight(r)
    /\ pc' = [r \in Requests |-> IF InFlight(r) THEN "dead" ELSE pc[r]]
    /\ UNCHANGED <<tables, clock, stamp, flow, error, reply, before>>

Work(r) ==
    \/ CreateUserMessage(r) \/ EmitReceived(r) \/ EmitProcessing(r) \/ GetChatHistory(r)
    \/ CompleteWithContent(r) \/ CompleteWithToolCalls(r) \/ ProviderFails(r)
    \/ ExecuteSearch(r) \/ ExecuteRead(r) \/ ToolRaises(r) \/ EmitToolCalled(r)
    \/ CreateAssistantMessage(r) \/ EmitCompleted(r) \/ EmitFailed(r)
    \/ Respond(r)

Next ==
    \/ CreateChat \/ DeleteChat \/ Crash
    \/ \E r \in Requests : Post(r) \/ Work(r)

(***************************************************************************)
(* Every await of a running request returns: SQLite gives up after its     *)
(* busy timeout, the provider's SDK after its own.                         *)
(***************************************************************************)
Fairness == \A r \in Requests : WF_vars(Work(r))

Spec     == Init /\ [][Next]_vars
FairSpec == Spec /\ Fairness

-----------------------------------------------------------------------------
(* Properties. *)

Told(r)        == {events[r][i] : i \in DOMAIN events[r]}
ToolsTold(r)   == Cardinality({i \in DOMAIN events[r] : events[r][i] = "tool_called"})
Stored(r, who) == {row \in messages : row.req = r /\ row.role = who}

(***************************************************************************)
(* The requests implement MessageLifecycle, read off the tables: the last  *)
(* event of a message is its stage.                                        *)
(***************************************************************************)
Stage(r) ==
    CASE chat = "absent"                       -> "unborn"
      [] chat = "deleted"                      -> "erased"
      [] chat = "active" /\ events[r] = <<>>   -> "silent"
      [] chat = "active" /\ events[r] # <<>>   ->
            LET last == events[r][Len(events[r])]
            IN  IF last = "tool_called" THEN "processing" ELSE last

ReplyTold(r) ==
    CASE pc[r] = "dead"                     -> "lost"
      [] pc[r] # "dead" /\ reply[r] = 0     -> "none"
      [] pc[r] # "dead" /\ reply[r] = 201   -> "created"
      [] OTHER                              -> "error"

Lifecycle == INSTANCE MessageLifecycle WITH
    stage    <- [r \in Requests |-> Stage(r)],
    tools    <- [r \in Requests |-> ToolsTold(r)],
    answered <- [r \in Requests |-> Stored(r, "assistant") # {}],
    reply    <- [r \in Requests |-> ReplyTold(r)]

LifecycleSpec == Lifecycle!Spec

(***************************************************************************)
(* Accounting: when "completed" is in the log, there is one answer, newer  *)
(* than its question, and its metadata agrees with the tool events of the  *)
(* log and with the tool results the model was given.                      *)
(***************************************************************************)
FoundIn(results) ==
    UNION {results[i].files : i \in {j \in DOMAIN results : IsRead(results[j]) /\ results[j].found}}

AccountingAgrees ==
    \A r \in Requests : "completed" \in Told(r) =>
        \E question, answer \in messages :
            /\ Stored(r, "user") = {question}
            /\ Stored(r, "assistant") = {answer}
            /\ question.at < answer.at
            /\ answer.calls = ToolsTold(r)
            /\ answer.calls = Len(conversation[r])
            /\ answer.used = FoundIn(conversation[r])

(***************************************************************************)
(* Grounding: every document in a conversation was a hit of the last       *)
(* search of the same conversation before it, and there are at most two    *)
(* (MAX_KNOWLEDGE_FILES_IN_CONTEXT).  The executor is shared by concurrent *)
(* requests, so this rests on the context being the request's own.         *)
(***************************************************************************)
LastSearchBefore(results, i, j) ==
    /\ j < i /\ ~IsRead(results[j])
    /\ \A k \in DOMAIN results : j < k /\ k < i => IsRead(results[k])

GroundedReads ==
    \A r \in Requests :
        LET results == conversation[r]
            reads   == {i \in DOMAIN results : IsRead(results[i])}
        IN  /\ Cardinality(reads) <= MaxFullReads
            /\ \A i \in reads : \E j \in DOMAIN results :
                  /\ LastSearchBefore(results, i, j)
                  /\ results[i].files \subseteq results[j].files

(***************************************************************************)
(* Read your answers: a message posted after another got its 201 is sent   *)
(* to the model with that question and that answer before it, whatever     *)
(* runs beside it.                                                         *)
(***************************************************************************)
AnswersAreRemembered ==
    \A r \in Requests : chat = "active" /\ pc[r] = "chat_completion" =>
        \A q \in before[r], who \in {"user", "assistant"} :
            Stored(q, who) # {} /\ Stored(q, who) \subseteq history[r]

(***************************************************************************)
(* A POST is bounded: whatever the model asks for and whoever else is at   *)
(* work, it goes through MAX_TOOL_ROUND_TRIPS rounds of tool calls at most *)
(* and through no other await twice; each step it takes leaves less of     *)
(* them.                                                                   *)
(***************************************************************************)
StepsLeft(r) ==
    LET loop == (MaxToolRounds - rounds[r]) * (2 * MaxCalls + 1)
    IN  CASE pc[r] = "idle"                     -> loop + 10
          [] pc[r] = "create_user_message"      -> loop + 9
          [] pc[r] = "emit_received"            -> loop + 8
          [] pc[r] = "emit_processing"          -> loop + 7
          [] pc[r] = "get_chat_history"         -> loop + 6
          [] pc[r] = "chat_completion"          -> loop + 5
          [] pc[r] = "execute_tool_call"        -> loop + 5 + 2 * todo[r]
          [] pc[r] = "emit_tool_called"         -> loop + 4 + 2 * todo[r]
          [] pc[r] = "create_assistant_message" -> 4
          [] pc[r] = "emit_completed"           -> 3
          [] pc[r] = "emit_failed"              -> 2
          [] pc[r] = "respond"                  -> 1
          [] pc[r] \in {"done", "dead"}         -> 0

PostIsBounded ==
    [][\A r \in Requests :
          /\ StepsLeft(r)' \in Nat
          /\ pc'[r] # pc[r] => StepsLeft(r)' < StepsLeft(r)
          /\ pc'[r] = pc[r] => StepsLeft(r)' = StepsLeft(r)]_vars

(***************************************************************************)
(* What a client was told when its POST is replied to, or about to be:     *)
(* exactly one verdict, if the chat was there all along and the database   *)
(* refused no event.                                                       *)
(***************************************************************************)
Verdicts(r) == {i \in DOMAIN events[r] : events[r][i] \in {"completed", "failed"}}

VerdictIsTold ==
    "database" \notin Faults =>
        \A r \in Requests : chat = "active" /\ pc[r] \in {"respond", "done"} /\ reply[r] # 404 =>
            Cardinality(Verdicts(r)) = 1

(* Every POST is replied to, if the server stays up: nothing blocks it. *)
EveryPostIsRepliedTo ==
    \A r \in Requests : InFlight(r) ~> pc[r] \in {"done", "dead"}

(***************************************************************************)
(* A client that was told "received" is told a verdict, unless the chat    *)
(* goes; this takes a database that does not refuse the failure event.     *)
(***************************************************************************)
VerdictArrives ==
    \A r \in Requests : "received" \in Told(r) ~>
        (Told(r) \cap {"completed", "failed"} # {} \/ chat = "deleted")

(***************************************************************************)
(* "history: Previous messages in the conversation" (llm/prompts.py): the  *)
(* current message is appended after the history and is not in it.         *)
(***************************************************************************)
CurrentMessageOnce ==
    \A r \in Requests : \A row \in history[r] : row.req # r

(***************************************************************************)
(* "Validates user message content before it is sent to the LLM"           *)
(* (guardrails/input_guard.py): a message the guard rejects is not in what *)
(* the model is sent.                                                      *)
(***************************************************************************)
RejectedIsNeverSent ==
    \A r \in Requests : pc[r] = "chat_completion" =>
        \A row \in history[r] : row.req \notin Flagged

=============================================================================
