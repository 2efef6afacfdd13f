----------------------- MODULE MessageAnswers_proofs -----------------------
(***************************************************************************)
(* Proofs about what the requests of MessageService leave in the tables,   *)
(* for any number of requests and whatever faults: a message posted after  *)
(* another was answered is sent to the model with that question and that   *)
(* answer, what is reported completed is accounted for, and as long as no  *)
(* two POSTs overlap, no message is sent twice in one prompt.              *)
(*                                                                         *)
(* The last is a matter of stamps: a request that is alone has drawn the   *)
(* latest stamp of all, so its own row is the last one of the history it   *)
(* reads, and that is the row which the code takes off (LatestInv).        *)
(***************************************************************************)
EXTENDS MessageService_proofs

(* Where the row of the question is there, and where the history is used. *)
Asked == {"emit_received", "emit_processing", "get_chat_history", "chat_completion",
          "execute_tool_call", "emit_tool_called", "create_assistant_message",
          "emit_completed"}
Loop  == {"chat_completion", "execute_tool_call", "emit_tool_called"}

(* r was replied to with its answer, or is about to be. *)
Answers(r) == reply[r] = 201 \/ (pc[r] = "respond" /\ error[r] = "none")

(***************************************************************************)
(* Why an answered message is remembered: its rows are there while the     *)
(* chat is, it writes no more of them, and a request that is already in    *)
(* its loop has read all of them.                                          *)
(***************************************************************************)
Remembers(r) ==
    /\ pc[r] # "done" => reply[r] = 0
    /\ pc[r] = "emit_failed" => error[r] # "none"
    /\ chat = "absent" => pc[r] \in {"idle", "done"} /\ reply[r] # 201
    /\ \A q \in before[r] : reply[q] = 201
    /\ chat = "active" /\ (pc[r] \in Asked \/ Answers(r)) => Stored(r, "user") # {}
    /\ chat = "active" /\ (pc[r] = "emit_completed" \/ Answers(r)) =>
          Stored(r, "assistant") # {}
    /\ chat = "active" /\ pc[r] \in Loop =>
          \A q \in before[r], who \in {"user", "assistant"} : Stored(q, who) \subseteq history[r]

LEMMA RowIsStored ==
  ASSUME NEW r, NEW row, row.req = r, messages' = messages \cup {row}
  PROVE  /\ \A q, who : q # r => Stored(q, who)' = Stored(q, who)
         /\ \A who : who # row.role => Stored(r, who)' = Stored(r, who)
         /\ Stored(r, row.role)' = Stored(r, row.role) \cup {row}
  BY DEF Stored

(* Fails(r): r has caught an exception.  A raise does that, and an event may. *)
Fails(r) == Moves(r, "emit_failed") /\ error' \in [Requests -> Errors] /\ error'[r] # "none"

LEMMA RaiseFails ==
  ASSUME TypeOK, NEW r \in Requests, NEW kind \in Errors \ {"none"}, Raise(r, kind)
  PROVE  Fails(r) /\ \A q \in Requests \ {r} : error'[q] = error[q]
  BY RaiseIsTyped DEF Fails, Raise, TypeOK

LEMMA EmitFails ==
  ASSUME TypeOK, NEW r \in Requests, NEW type \in EventTypes, NEW label \in PCs,
         Emit(r, type, label)
  PROVE  /\ \A q \in Requests \ {r} : error'[q] = error[q]
         /\ (Moves(r, label) /\ chat = "active" /\ UNCHANGED error) \/ Fails(r)
  <1>1. CASE Raise(r, "other")
    BY <1>1, Kinds, RaiseFails
  <1>2. CASE CanWrite /\ Goto(r, label) /\ UNCHANGED error
    BY <1>2 DEF CanWrite, Goto, Moves
  <1> QED  BY <1>1, <1>2 DEF Emit

(* A request whose part of the state stands still. *)
LEMMA RemembersStill ==
  ASSUME NEW r \in Requests, Remembers(r),
         pc'[r] = pc[r], history'[r] = history[r], reply'[r] = reply[r], error'[r] = error[r],
         before'[r] = before[r], UNCHANGED chat,
         \A q \in before[r] : reply'[q] = 201,
         \A who : Stored(r, who)' = Stored(r, who),
         \A q \in before[r] : \A who : Stored(q, who)' = Stored(q, who)
  PROVE  Remembers(r)'
  BY DEF Remembers, Answers

(* One request moves, no row is written and nothing is answered. *)
LEMMA RemembersMove ==
  ASSUME TypeOK, \A r \in Requests : Remembers(r),
         NEW p \in Requests, NEW l, Moves(p, l), pc[p] \notin {"idle", "done", "dead"},
         UNCHANGED <<chat, messages, before>>,
         \/ UNCHANGED history
         \/ /\ history' = [history EXCEPT ![p] = PriorHistory(p)]
            /\ pc[p] = "get_chat_history",
         \/ l # "done" /\ UNCHANGED reply
         \/ /\ l = "done"
            /\ \/ reply' = [reply EXCEPT ![p] = 500]
               \/ reply' = [reply EXCEPT ![p] = 502],
         \A q \in Requests \ {p} : error'[q] = error[q],
         l = "emit_failed" => error'[p] # "none",
         l = "respond" => pc[p] = "emit_failed" /\ error'[p] = error[p],
         l # "emit_completed",
         l \in Asked => pc[p] \in Asked,
         l \in Loop => \/ pc[p] \in Loop
                       \/ history' = [history EXCEPT ![p] = PriorHistory(p)]
  PROVE  \A r \in Requests : Remembers(r)'
  <1>1. /\ pc'[p] = l /\ \A q \in Requests \ {p} : pc'[q] = pc[q]
        /\ \A q \in Requests \ {p} : history'[q] = history[q] /\ reply'[q] = reply[q]
        /\ reply[p] = 0 /\ reply'[p] # 201
        /\ chat # "absent"
    <2>1. pc'[p] = l /\ \A q \in Requests \ {p} : pc'[q] = pc[q]
      BY DEF TypeOK, Moves
    <2>2. reply[p] = 0 /\ chat # "absent"
      BY DEF Remembers
    <2>3. \A q \in Requests \ {p} : history'[q] = history[q]
      BY DEF TypeOK
    <2>4. reply'[p] # 201 /\ \A q \in Requests \ {p} : reply'[q] = reply[q]
      BY <2>2 DEF TypeOK
    <2> QED  BY <2>1, <2>2, <2>3, <2>4
  <1>2. \A q, who : Stored(q, who)' = Stored(q, who)
    BY DEF Stored
  <1>3. \A r \in Requests : \A q \in before[r] : q \in Requests \ {p} /\ reply'[q] = 201
    <2>1. \A r \in Requests : before[r] \subseteq Requests /\ \A q \in before[r] : reply[q] = 201
      BY DEF Remembers, TypeOK
    <2>2. \A r \in Requests : p \notin before[r]
      BY <1>1, <2>1
    <2> QED  BY <1>1, <2>1, <2>2
  <1>4. ASSUME chat = "active", l \in Loop
        PROVE  \A q \in before[p], who \in {"user", "assistant"} : Stored(q, who) \subseteq history'[p]
    <2>1. CASE pc[p] \in Loop
      BY <1>4, <2>1 DEF Remembers, Loop
    <2>2. CASE history' = [history EXCEPT ![p] = PriorHistory(p)]
      <3>1. history'[p] = PriorHistory(p)
        BY <2>2 DEF TypeOK
      <3> QED  BY <1>3, <3>1 DEF PriorHistory, Stored
    <2> QED  BY <1>4, <2>1, <2>2
  <1> SUFFICES ASSUME NEW r \in Requests PROVE Remembers(r)'
    OBVIOUS
  <1>5. CASE r # p
    <2>1. /\ pc'[r] = pc[r] /\ history'[r] = history[r] /\ reply'[r] = reply[r]
          /\ error'[r] = error[r] /\ before'[r] = before[r]
      BY <1>1, <1>5
    <2>2. \A q \in before[r] : reply'[q] = 201
      BY <1>3
    <2> QED  BY <1>2, <2>1, <2>2, RemembersStill
  <1>6. CASE r = p
    <2>1. \A q \in before'[p] : reply'[q] = 201
      BY <1>3
    <2>2. l # "done" => reply'[p] = 0
      BY <1>1
    <2>3. l \in Asked /\ chat = "active" => Stored(p, "user") # {}
      BY DEF Remembers
    <2>4. ~Answers(p)' /\ (pc'[p] = "emit_failed" => error'[p] # "none")
      <3>1. l = "respond" => error'[p] # "none"
        BY DEF Remembers
      <3> QED  BY <1>1, <3>1 DEF Answers
    <2>5. chat' = "active" /\ pc'[p] \in Asked => Stored(p, "user")' # {}
      BY <1>1, <1>2, <2>3
    <2>6. chat' = "active" /\ pc'[p] \in Loop =>
             \A q \in before'[p], who \in {"user", "assistant"} : Stored(q, who)' \subseteq history'[p]
      BY <1>1, <1>2, <1>4
    <2>7. pc'[p] # "emit_completed" /\ reply'[p] # 201
      BY <1>1
    <2>8. /\ pc'[p] # "done" => reply'[p] = 0
          /\ chat' # "absent"
      BY <1>1, <2>2
    <2> QED  BY <1>6, <2>1, <2>4, <2>5, <2>6, <2>7, <2>8 DEF Remembers
  <1> QED  BY <1>5, <1>6

(* The steps that write rows or answer. *)
LEMMA RemembersPost ==
  ASSUME TypeOK, \A r \in Requests : Remembers(r), NEW p \in Requests, Post(p)
  PROVE  \A r \in Requests : Remembers(r)'
  <1>1. /\ pc[p] = "idle" /\ reply[p] = 0
        /\ UNCHANGED <<chat, messages, history, error>>
        /\ before' = [before EXCEPT ![p] = {q \in Requests : reply[q] = 201}]
    BY DEF Post, Remembers, tables, flow
  <1>2. \A q, who : Stored(q, who)' = Stored(q, who)
    BY <1>1 DEF Stored
  <1>3. \/ /\ chat = "active" /\ pc' = [pc EXCEPT ![p] = "create_user_message"]
           /\ reply' = reply
        \/ /\ pc' = [pc EXCEPT ![p] = "done"]
           /\ \E s \in {404, 500} : reply' = [reply EXCEPT ![p] = s]
    BY DEF Post, Reply, Goto
  <1>4. /\ pc'[p] \in {"create_user_message", "done"} /\ (pc'[p] # "done" => chat = "active" /\ reply'[p] = 0)
        /\ reply'[p] # 201
        /\ \A q \in Requests \ {p} : pc'[q] = pc[q] /\ reply'[q] = reply[q] /\ before'[q] = before[q]
        /\ before'[p] = {q \in Requests : reply[q] = 201}
    BY <1>1, <1>3 DEF TypeOK
  <1>5. \A r \in Requests : \A q \in before'[r] : q \in Requests /\ reply[q] = 201 /\ q # p
    BY <1>1, <1>4 DEF Remembers, TypeOK
  <1>6. \A r \in Requests : \A q \in before'[r] : reply'[q] = 201
    BY <1>4, <1>5
  <1> SUFFICES ASSUME NEW r \in Requests PROVE Remembers(r)'
    OBVIOUS
  <1>7. CASE r # p
    <2>1. pc'[r] = pc[r] /\ history'[r] = history[r] /\ reply'[r] = reply[r] /\ before'[r] = before[r]
      BY <1>1, <1>4, <1>7
    <2> QED  BY <1>1, <1>2, <1>6, <2>1 DEF Remembers, Answers
  <1>8. CASE r = p
    <2>1. pc'[p] \notin Asked /\ pc'[p] \notin Loop /\ pc'[p] # "emit_completed"
          /\ pc'[p] # "emit_failed" /\ ~Answers(p)'
      BY <1>4 DEF Asked, Loop, Answers
    <2>2. chat' = "absent" => pc'[p] \in {"idle", "done"}
      BY <1>1, <1>4
    <2> QED  BY <1>4, <1>6, <1>8, <2>1, <2>2 DEF Remembers
  <1> QED  BY <1>7, <1>8

LEMMA RemembersRow ==
  ASSUME TypeOK, \A r \in Requests : Remembers(r),
         NEW p \in Requests, NEW row, row.req = p, row.role \in {"user", "assistant"},
         messages' = messages \cup {row},
         NEW l, Moves(p, l), chat = "active",
         UNCHANGED <<chat, history, error, reply, before>>,
         \/ pc[p] = "create_user_message" /\ row.role = "user" /\ l = "emit_received"
         \/ pc[p] = "create_assistant_message" /\ row.role = "assistant" /\ l = "emit_completed"
  PROVE  \A r \in Requests : Remembers(r)'
  <1>1. /\ pc'[p] = l /\ \A q \in Requests \ {p} : pc'[q] = pc[q]
        /\ reply[p] = 0 /\ l # "done"
    BY DEF TypeOK, Moves, Remembers
  <1>2. /\ \A q, who : q # p => Stored(q, who)' = Stored(q, who)
        /\ \A who : who # row.role => Stored(p, who)' = Stored(p, who)
        /\ Stored(p, row.role)' = Stored(p, row.role) \cup {row}
    BY RowIsStored
  <1>3. \A r \in Requests : \A q \in before[r] : q # p
    BY <1>1 DEF Remembers
  <1> SUFFICES ASSUME NEW r \in Requests PROVE Remembers(r)'
    OBVIOUS
  <1>4. CASE r # p
    <2>1. pc'[r] = pc[r]
      BY <1>1, <1>4
    <2>2. \A q \in before[r], who \in {"user", "assistant"} : Stored(q, who)' = Stored(q, who)
      BY <1>2, <1>3
    <2>3. \A who : Stored(r, who)' = Stored(r, who)
      BY <1>2, <1>4
    <2> QED  BY <2>1, <2>2, <2>3 DEF Remembers, Answers
  <1>5. CASE r = p
    <2>1. pc'[p] \notin Loop
      BY <1>1 DEF Loop
    <2>2. Stored(p, "user")' # {}
      BY <1>2 DEF Remembers, Asked
    <2>3. l = "emit_completed" => Stored(p, "assistant")' # {}
      BY <1>2
    <2>4. ~Answers(p)' /\ l # "emit_failed"
      BY <1>1 DEF Answers
    <2> QED  BY <1>1, <1>5, <2>1, <2>2, <2>3, <2>4 DEF Remembers
  <1> QED  BY <1>4, <1>5

(* An answer is on its way to the client, or reaches it. *)
LEMMA RemembersAnswer ==
  ASSUME TypeOK, \A r \in Requests : Remembers(r), NEW p \in Requests, NEW l, Moves(p, l),
         \/ pc[p] = "emit_completed" /\ l = "respond" /\ reply' = reply
         \/ /\ pc[p] = "respond" /\ error[p] = "none"
            /\ l = "done" /\ reply' = [reply EXCEPT ![p] = 201],
         UNCHANGED <<chat, messages, history, error, before>>
  PROVE  \A r \in Requests : Remembers(r)'
  <1>1. /\ pc'[p] = l /\ \A q \in Requests \ {p} : pc'[q] = pc[q]
        /\ \A q \in Requests \ {p} : reply'[q] = reply[q]
        /\ l # "done" => reply'[p] = 0
        /\ chat # "absent"
    <2>1. pc'[p] = l /\ \A q \in Requests \ {p} : pc'[q] = pc[q]
      BY DEF TypeOK, Moves
    <2>2. reply[p] = 0 /\ chat # "absent"
      BY DEF Remembers
    <2> QED  BY <2>1, <2>2 DEF TypeOK
  <1>2. \A q, who : Stored(q, who)' = Stored(q, who)
    BY DEF Stored
  <1>3. \A r \in Requests : \A q \in before[r] : reply'[q] = 201
    <2> SUFFICES ASSUME NEW r \in Requests, NEW q \in before[r] PROVE reply'[q] = 201
      OBVIOUS
    <2>1. reply[p] # 201
      BY DEF Remembers
    <2>2. q \in Requests
      BY DEF TypeOK
    <2>3. reply[q] = 201
      BY DEF Remembers
    <2> QED  BY <1>1, <2>1, <2>2, <2>3
  <1>4. chat = "active" => Stored(p, "user") # {} /\ Stored(p, "assistant") # {}
    BY DEF Remembers, Asked, Answers
  <1>5. l \notin Loop /\ l \notin Asked
    BY DEF Asked, Loop
  <1> SUFFICES ASSUME NEW r \in Requests PROVE Remembers(r)'
    OBVIOUS
  <1>6. CASE r # p
    <2>1. pc'[r] = pc[r] /\ reply'[r] = reply[r]
      BY <1>1, <1>6
    <2> QED  BY <1>2, <1>3, <2>1, RemembersStill
  <1>7. CASE r = p
    BY <1>1, <1>2, <1>3, <1>4, <1>5, <1>7 DEF Remembers
  <1> QED  BY <1>6, <1>7

LEMMA RemembersStep ==
  ASSUME TypeOK, \A r \in Requests : Remembers(r), [Next]_vars
  PROVE  \A r \in Requests : Remembers(r)'
  <1> DEFINE Goal == \A r \in Requests : Remembers(r)'
  <1>1. ASSUME CreateChat PROVE Goal
    <2>1. UNCHANGED <<pc, error, reply, before, history, messages>> /\ chat = "absent"
      BY <1>1 DEF CreateChat, flow
    <2>2. \A r \in Requests : pc[r] \notin Asked /\ pc[r] \notin Loop /\ pc[r] # "emit_completed"
                             /\ ~Answers(r)
      BY <2>1 DEF Remembers, Asked, Loop, Answers
    <2>3. chat' = "active"
      BY <1>1 DEF CreateChat
    <2> QED  BY <2>1, <2>2, <2>3 DEF Remembers, Answers
  <1>2. ASSUME DeleteChat PROVE Goal
    BY <1>2 DEF DeleteChat, flow, Remembers, Answers
  <1>3. ASSUME Crash PROVE Goal
    <2>1. UNCHANGED <<chat, messages, before, error, reply, history>>
      BY <1>3 DEF Crash, tables, flow
    <2>2. \A r \in Requests : pc'[r] = pc[r] \/ (pc'[r] = "dead" /\ pc[r] \notin {"idle", "done"})
      BY <1>3 DEF Crash, InFlight, TypeOK
    <2>3. "dead" \notin Loop /\ "dead" \notin Asked
      BY DEF Asked, Loop
    <2>4. \A r \in Requests : (pc'[r] \in Asked => pc[r] \in Asked) /\ (Answers(r)' => Answers(r))
      BY <2>1, <2>2, <2>3 DEF Answers
    <2>5. \A q, who : Stored(q, who)' = Stored(q, who)
      BY <2>1 DEF Stored
    <2> QED  BY <2>1, <2>2, <2>3, <2>4, <2>5 DEF Remembers
  <1>4. ASSUME NEW r \in Requests, Post(r) PROVE Goal
    BY <1>4, RemembersPost
  <1>5. ASSUME NEW r \in Requests, CreateUserMessage(r) PROVE Goal
    <2>1. pc[r] = "create_user_message" /\ UNCHANGED <<chat, history, error, before>>
      BY <1>5 DEF CreateUserMessage, flow
    <2>2. CASE CanWrite /\ messages' = messages \cup {UserRow(r)} /\ Goto(r, "emit_received")
               /\ UNCHANGED reply
      <3>1. UserRow(r).req = r /\ UserRow(r).role = "user" /\ Moves(r, "emit_received")
            /\ chat = "active"
        BY <2>2, Labels DEF UserRow, Goto, Moves, CanWrite
      <3> QED  BY <2>1, <2>2, <3>1, RemembersRow
    <2>3. CASE Reply(r, 500) /\ UNCHANGED messages
      <3>1. Moves(r, "done") /\ reply' = [reply EXCEPT ![r] = 500]
        BY ZenonT(40), <2>3, Codes, ReplyIsTyped DEF Reply
      <3> QED  BY <2>1, <2>3, <3>1, RemembersMove DEF Asked, Loop
    <2> QED  BY <1>5, <2>2, <2>3 DEF CreateUserMessage
  <1>6. ASSUME NEW r \in Requests, CreateAssistantMessage(r) PROVE Goal
    <2>1. pc[r] = "create_assistant_message" /\ UNCHANGED <<chat, history, reply, before>>
      BY <1>6 DEF CreateAssistantMessage, flow
    <2>2. CASE CanWrite /\ messages' = messages \cup {AssistantRow(r)} /\ Goto(r, "emit_completed")
               /\ UNCHANGED error
      <3>1. AssistantRow(r).req = r /\ AssistantRow(r).role = "assistant" /\ Moves(r, "emit_completed")
            /\ chat = "active"
        BY <2>2, Labels DEF AssistantRow, Goto, Moves, CanWrite
      <3> QED  BY <2>1, <2>2, <3>1, RemembersRow
    <2>3. CASE Raise(r, "other") /\ UNCHANGED messages
      <3>1. Fails(r) /\ \A q \in Requests \ {r} : error'[q] = error[q]
        BY <2>3, Kinds, RaiseFails
      <3> QED  BY <2>1, <2>3, <3>1, RemembersMove DEF Asked, Loop, Fails
    <2> QED  BY <1>6, <2>2, <2>3 DEF CreateAssistantMessage
  <1>7. ASSUME NEW r \in Requests, EmitCompleted(r) PROVE Goal
    <2>1. pc[r] = "emit_completed" /\ UNCHANGED <<chat, messages, history, reply, before>>
      BY <1>7 DEF EmitCompleted, flow
    <2>2. /\ \A q \in Requests \ {r} : error'[q] = error[q]
          /\ (Moves(r, "respond") /\ UNCHANGED error) \/ Fails(r)
      BY <1>7, Types, Labels, EmitFails DEF EmitCompleted
    <2>3. CASE Moves(r, "respond") /\ UNCHANGED error
      BY <2>1, <2>3, RemembersAnswer
    <2>4. CASE Fails(r)
      BY <2>1, <2>2, <2>4, RemembersMove DEF Asked, Loop, Fails
    <2> QED  BY <2>2, <2>3, <2>4
  <1>8. ASSUME NEW r \in Requests, GetChatHistory(r) PROVE Goal
    <2>1. pc[r] = "get_chat_history" /\ UNCHANGED <<chat, messages, reply, before>>
      BY <1>8 DEF GetChatHistory, tables
    <2>2. CASE UNCHANGED history \/ history' = [history EXCEPT ![r] = PriorHistory(r)]
      <3>1. CASE Raise(r, "guardrail") \/ Raise(r, "other")
        <4>1. Fails(r) /\ \A q \in Requests \ {r} : error'[q] = error[q]
          BY <3>1, Kinds, RaiseFails
        <4> QED  BY <2>1, <2>2, <4>1, RemembersMove DEF Asked, Loop, Fails
      <3>2. CASE /\ history' = [history EXCEPT ![r] = PriorHistory(r)]
                 /\ Goto(r, "chat_completion") /\ UNCHANGED error
        <4>1. Moves(r, "chat_completion")
          BY <3>2, Labels DEF Goto, Moves
        <4> QED  BY <2>1, <3>2, <4>1, RemembersMove DEF Asked, Loop
      <3> QED  BY <1>8, <3>1, <3>2 DEF GetChatHistory
    <2> QED  BY <1>8, <2>2 DEF GetChatHistory
  <1>9. ASSUME NEW r \in Requests, EmitFailed(r) PROVE Goal
    <2>1. /\ pc[r] = "emit_failed" /\ Moves(r, "respond")
          /\ UNCHANGED <<chat, messages, history, error, reply, before>>
      BY <1>9, Labels DEF EmitFailed, flow, Goto, Moves
    <2> QED  BY <2>1, RemembersMove DEF Asked, Loop
  <1>10. ASSUME NEW r \in Requests, EmitReceived(r) \/ EmitProcessing(r)
         PROVE  Goal
    <2>1. /\ pc[r] \in {"emit_received", "emit_processing"}
          /\ UNCHANGED <<chat, messages, history, reply, before>>
      BY <1>10 DEF EmitReceived, EmitProcessing, flow
    <2>2. /\ \A q \in Requests \ {r} : error'[q] = error[q]
          /\ \/ \E l \in {"emit_processing", "get_chat_history"} : Moves(r, l)
             \/ Fails(r)
      BY <1>10, Labels, Types, EmitFails DEF EmitReceived, EmitProcessing
    <2>3. CASE Fails(r)
      BY <2>1, <2>2, <2>3, RemembersMove DEF Asked, Loop, Fails
    <2>4. CASE \E l \in {"emit_processing", "get_chat_history"} : Moves(r, l)
      BY <2>1, <2>2, <2>4, RemembersMove DEF Asked, Loop
    <2> QED  BY <2>2, <2>3, <2>4
  <1>11. ASSUME NEW r \in Requests,
                \/ CompleteWithContent(r) \/ CompleteWithToolCalls(r) \/ ProviderFails(r)
                \/ ExecuteSearch(r) \/ ExecuteRead(r) \/ ToolRaises(r) \/ EmitToolCalled(r)
         PROVE  Goal
    <2>1. pc[r] \in Loop /\ UNCHANGED <<chat, messages, history, reply, before>>
      BY <1>11 DEF CompleteWithContent, CompleteWithToolCalls, ProviderFails, ExecuteSearch,
         ExecuteRead, ToolRaises, EmitToolCalled, tables, flow, Loop
    <2>2. \/ /\ UNCHANGED error
             /\ \E l \in Loop \cup {"create_assistant_message"} : Moves(r, l)
          \/ \E kind \in Errors \ {"none"} : Raise(r, kind)
      <3>1. \/ /\ UNCHANGED error
               /\ \E l \in Loop \cup {"create_assistant_message"} : Goto(r, l)
            \/ Raise(r, "provider") \/ Raise(r, "processing") \/ Raise(r, "guardrail")
            \/ Raise(r, "other")
        BY <1>11 DEF CompleteWithContent, NoTextualContent, OutputGuardRejects,
           CompleteWithToolCalls, ProviderFails, ExecuteSearch, ExecuteRead, TakeResult,
           ToolRaises, EmitToolCalled, Emit, Loop
      <3>2. \A l \in Loop \cup {"create_assistant_message"} : Goto(r, l) => Moves(r, l)
        BY Labels DEF Goto, Moves, Loop
      <3> QED  BY <3>1, <3>2, Kinds
    <2>3. Loop \subseteq Asked /\ "create_assistant_message" \in Asked
          /\ "create_assistant_message" \notin Loop
          /\ "emit_failed" \notin Asked /\ "emit_failed" \notin Loop
          /\ \A l \in Loop : l \notin {"idle", "emit_completed", "emit_failed", "respond", "done", "dead"}
      BY DEF Asked, Loop
    <2>4. CASE \E kind \in Errors \ {"none"} : Raise(r, kind)
      <3>1. Fails(r) /\ \A q \in Requests \ {r} : error'[q] = error[q]
        BY <2>4, RaiseFails
      <3> QED  BY <2>1, <2>3, <3>1, RemembersMove DEF Fails
    <2>5. CASE UNCHANGED error /\ \E l \in Loop \cup {"create_assistant_message"} : Moves(r, l)
      BY <2>1, <2>3, <2>5, RemembersMove
    <2> QED  BY <2>2, <2>4, <2>5
  <1>12. ASSUME NEW r \in Requests, Respond(r) PROVE Goal
    <2>1. pc[r] = "respond" /\ UNCHANGED <<chat, messages, history, error, before>>
      BY <1>12 DEF Respond, tables, flow
    <2>2. Moves(r, "done") /\ reply' = [reply EXCEPT ![r] = Status(r)]
      BY <1>12, Labels DEF Respond, Reply, Goto, Moves
    <2>3. CASE error[r] = "none"
      <3>1. reply' = [reply EXCEPT ![r] = 201]
        BY <2>2, <2>3 DEF Status
      <3> QED  BY <2>1, <2>2, <2>3, <3>1, RemembersAnswer
    <2>4. CASE error[r] # "none"
      <3>1. Status(r) = 500 \/ Status(r) = 502
        BY <2>4 DEF Status
      <3>2. reply' = [reply EXCEPT ![r] = 500] \/ reply' = [reply EXCEPT ![r] = 502]
        BY <2>2, <3>1
      <3> QED  BY <2>1, <2>2, <3>2, RemembersMove DEF Asked, Loop
    <2> QED  BY <2>3, <2>4
  <1>13. CASE UNCHANGED vars
    BY <1>13 DEF vars, tables, flow, Remembers, Answers, Stored
  <1> QED
    BY <1>1, <1>2, <1>3, <1>4, <1>5, <1>6, <1>7, <1>8, <1>9, <1>10, <1>11, <1>12, <1>13
       DEF Next, Work

(***************************************************************************)
(* However many requests run beside it and whatever fails, a message that  *)
(* was posted after another got its 201 goes to the model with that        *)
(* question and that answer before it.                                     *)
(***************************************************************************)
THEOREM AnswersRemembered == Spec => []AnswersAreRemembered
  <1> DEFINE Inv == \A r \in Requests : Remembers(r)
  <1>1. Init => Inv
    BY DEF Init, Remembers, Answers, Asked, Loop
  <1>2. TypeOK /\ Inv /\ [Next]_vars => Inv'
    BY RemembersStep
  <1>3. TypeOK /\ Inv => AnswersAreRemembered
    <2> SUFFICES ASSUME TypeOK, Inv, NEW r \in Requests, chat = "active",
                        pc[r] = "chat_completion", NEW q \in before[r],
                        NEW who \in {"user", "assistant"}
                 PROVE  Stored(q, who) # {} /\ Stored(q, who) \subseteq history[r]
      BY DEF AnswersAreRemembered
    <2>1. q \in Requests /\ reply[q] = 201
      BY DEF TypeOK, Remembers
    <2>2. Stored(q, who) # {}
      BY <2>1 DEF Remembers, Answers
    <2> QED  BY <2>2 DEF Remembers, Loop
  <1> QED  BY <1>1, <1>2, <1>3, TypeCorrect, PTL DEF Spec

-----------------------------------------------------------------------------
(* Accounting. *)

(* The request asks nothing yet; its log is level with its conversation; its *)
(* question is stored and its stamp is the question's; it has no answer row. *)
Early      == {"idle", "create_user_message", "emit_received", "emit_processing",
               "get_chat_history"}
Level      == Early \cup {"chat_completion", "execute_tool_call", "create_assistant_message",
                          "emit_completed"}
Questioned == {"emit_received", "emit_processing", "get_chat_history"} \cup Loop
Unanswered == Early \cup Loop \cup {"create_assistant_message"}

Counted(r) ==
    /\ calls[r] = Len(conversation[r])
    /\ used[r] = FoundIn(conversation[r])
    /\ stamp[r] <= clock
    /\ pc[r] \in Early => conversation[r] = <<>>

Logged(r) ==
    /\ chat # "active" => events[r] = <<>>
    /\ chat = "absent" => pc[r] \in {"idle", "done"} /\ messages = {}
    /\ pc[r] \notin {"respond", "done", "dead"} => "completed" \notin Told(r)
    /\ chat = "active" /\ pc[r] \in Level => ToolsTold(r) = Len(conversation[r])
    /\ chat = "active" /\ pc[r] = "emit_tool_called" => ToolsTold(r) + 1 = Len(conversation[r])

Settled(r) ==
    \E question, answer :
        /\ Stored(r, "user") = {question}
        /\ Stored(r, "assistant") = {answer}
        /\ question.at < answer.at
        /\ answer.calls = ToolsTold(r)
        /\ answer.calls = Len(conversation[r])
        /\ answer.used = FoundIn(conversation[r])

Filed(r) == chat = "active" =>
    /\ pc[r] \in {"idle", "create_user_message"} => Stored(r, "user") = {}
    /\ pc[r] \in Unanswered => Stored(r, "assistant") = {}
    /\ pc[r] \in Questioned => Stored(r, "user") = {UserRow(r)}
    /\ pc[r] \in {"create_assistant_message", "emit_completed"} =>
          \E question : Stored(r, "user") = {question} /\ question.at < stamp[r]
    /\ pc[r] = "emit_completed" => Stored(r, "assistant") = {AssistantRow(r)}
    /\ "completed" \in Told(r) => Settled(r)

(***************************************************************************)
(* Why the accounts agree: every request, wherever it stands, has counted  *)
(* what its conversation holds, logged what it counted, and filed one row  *)
(* of each kind when it has written it.                                    *)
(***************************************************************************)
Accounts(r) == Counted(r) /\ Logged(r) /\ Filed(r)

(* What an event, and a tool result, add. *)
ToolEvents(log) == {i \in DOMAIN log : log[i] = "tool_called"}

LEMMA ToldOfAppend ==
  ASSUME TypeOK, NEW p \in Requests, NEW type \in EventTypes,
         events' = Append1(events, p, type)
  PROVE  /\ Told(p)' = Told(p) \cup {type}
         /\ type # "tool_called" => ToolsTold(p)' = ToolsTold(p)
         /\ type = "tool_called" => ToolsTold(p)' = ToolsTold(p) + 1
         /\ \A q \in Requests \ {p} : events'[q] = events[q]
  <1> DEFINE log == events[p]
             new == Append(log, type)
  <1>1. log \in Seq(EventTypes) /\ events'[p] = new
        /\ \A q \in Requests \ {p} : events'[q] = events[q]
    BY DEF TypeOK, Append1
  <1>2. /\ Len(log) \in Nat /\ DOMAIN log = 1 .. Len(log)
        /\ DOMAIN new = 1 .. Len(log) + 1
        /\ \A i \in DOMAIN log : new[i] = log[i]
        /\ new[Len(log) + 1] = type
    BY <1>1
  <1>3. DOMAIN new = DOMAIN log \cup {Len(log) + 1} /\ Len(log) + 1 \notin DOMAIN log
    BY <1>2
  <1> HIDE DEF new
  <1>4. {new[i] : i \in DOMAIN new} = {log[i] : i \in DOMAIN log} \cup {type}
    BY <1>2, <1>3
  <1>5. type # "tool_called" => ToolEvents(new) = ToolEvents(log)
    BY <1>2, <1>3 DEF ToolEvents
  <1>6. type = "tool_called" => ToolEvents(new) = ToolEvents(log) \cup {Len(log) + 1}
    BY <1>2, <1>3 DEF ToolEvents
  <1>7. IsFiniteSet(ToolEvents(log))
    <2>1. IsFiniteSet(1 .. Len(log))
      BY <1>2, FS_Interval
    <2>2. ToolEvents(log) \subseteq 1 .. Len(log)
      BY <1>2 DEF ToolEvents
    <2> QED  BY <2>1, <2>2, FS_Subset
  <1>8. Len(log) + 1 \notin ToolEvents(log)
    BY <1>3 DEF ToolEvents
  <1>9. Cardinality(ToolEvents(log) \cup {Len(log) + 1}) = Cardinality(ToolEvents(log)) + 1
    BY <1>7, <1>8, FS_AddElement
  <1>10. /\ ToolsTold(p) = Cardinality(ToolEvents(log)) /\ ToolsTold(p)' = Cardinality(ToolEvents(new))
         /\ Told(p) = {log[i] : i \in DOMAIN log} /\ Told(p)' = {new[i] : i \in DOMAIN new}
    BY <1>1 DEF ToolsTold, ToolEvents, Told
  <1> QED  BY <1>1, <1>4, <1>5, <1>6, <1>9, <1>10

LEMMA FoundOfAppend ==
  ASSUME NEW results \in Seq(ToolResults), NEW x \in ToolResults
  PROVE  FoundIn(Append(results, x)) = FoundIn(results) \cup UsedFiles(x)
  <1> DEFINE new == Append(results, x)
             Good(s) == {j \in DOMAIN s : IsRead(s[j]) /\ s[j].found}
  <1>1. /\ Len(results) \in Nat /\ DOMAIN results = 1 .. Len(results)
        /\ DOMAIN new = 1 .. Len(results) + 1
        /\ \A i \in DOMAIN results : new[i] = results[i]
        /\ new[Len(results) + 1] = x
    OBVIOUS
  <1>2. DOMAIN new = DOMAIN results \cup {Len(results) + 1}
    BY <1>1
  <1> HIDE DEF new
  <1>3. CASE IsRead(x) /\ x.found
    <2>1. Good(new) = Good(results) \cup {Len(results) + 1}
      BY <1>1, <1>2, <1>3
    <2>2. UNION {new[i].files : i \in Good(new)} = (UNION {results[i].files : i \in Good(results)}) \cup x.files
      <3> HIDE DEF Good
      <3>1. \A i \in Good(results) : new[i] = results[i]
        BY <1>1 DEF Good
      <3> QED  BY <1>1, <2>1, <3>1
    <2> QED  BY <1>3, <2>2 DEF FoundIn, UsedFiles, new
  <1>4. CASE ~(IsRead(x) /\ x.found)
    <2>1. Good(new) = Good(results)
      BY <1>1, <1>2, <1>4
    <2>2. \A i \in Good(results) : new[i] = results[i]
      BY <1>1
    <2>3. {new[i].files : i \in Good(new)} = {results[i].files : i \in Good(results)}
      <3> HIDE DEF Good
      <3> QED  BY <2>1, <2>2
    <2>4. UsedFiles(x) = {}
      BY <1>4 DEF UsedFiles
    <2>5. FoundIn(new) = UNION {new[i].files : i \in Good(new)}
          /\ FoundIn(results) = UNION {results[i].files : i \in Good(results)}
      BY DEF FoundIn
    <2> HIDE DEF Good
    <2> QED  BY <2>3, <2>4, <2>5 DEF new
  <1> QED  BY <1>3, <1>4

(* The requests that a step of p, or of the chat, leaves alone. *)
LEMMA AccountsStill ==
  ASSUME NEW r \in Requests, Accounts(r), clock \in Nat, clock' \in Nat, stamp[r] \in Nat,
         pc'[r] = pc[r], stamp'[r] = stamp[r], conversation'[r] = conversation[r],
         calls'[r] = calls[r], used'[r] = used[r], events'[r] = events[r],
         UNCHANGED chat, chat = "absent" => messages' = messages,
         clock <= clock',
         \A who : Stored(r, who)' = Stored(r, who)
  PROVE  Accounts(r)'
  <1>1. Told(r)' = Told(r) /\ ToolsTold(r)' = ToolsTold(r)
    BY DEF Told, ToolsTold
  <1>2. Counted(r)'
    BY DEF Accounts, Counted
  <1>3. Logged(r)'
    BY <1>1 DEF Accounts, Logged
  <1>4. UserRow(r)' = UserRow(r) /\ AssistantRow(r)' = AssistantRow(r)
    BY DEF UserRow, AssistantRow
  <1>5. Settled(r) => Settled(r)'
    BY <1>1 DEF Settled
  <1>6. Filed(r)'
    BY <1>1, <1>4, <1>5 DEF Accounts, Filed
  <1> QED  BY <1>2, <1>3, <1>6 DEF Accounts

(* p moves: the others stand still if the row, the event and the result are p's. *)
LEMMA AccountsOthers ==
  ASSUME TypeOK, \A r \in Requests : Accounts(r), NEW p \in Requests, NEW l, Moves(p, l),
         UNCHANGED chat, clock' \in Nat, clock <= clock',
         chat = "absent" => messages' = messages,
         \A r \in Requests \ {p} :
            /\ stamp'[r] = stamp[r] /\ conversation'[r] = conversation[r]
            /\ calls'[r] = calls[r] /\ used'[r] = used[r] /\ events'[r] = events[r]
            /\ \A who : Stored(r, who)' = Stored(r, who)
  PROVE  pc'[p] = l /\ \A r \in Requests \ {p} : Accounts(r)'
  <1>1. pc'[p] = l /\ \A r \in Requests \ {p} : pc'[r] = pc[r]
    BY DEF TypeOK, Moves
  <1>2. clock \in Nat /\ \A r \in Requests : stamp[r] \in Nat
    BY DEF TypeOK
  <1> QED  BY <1>1, <1>2, AccountsStill

(* A request that fails, or is answered an error, has no more to account for. *)
LEMMA AccountsFail ==
  ASSUME TypeOK, \A r \in Requests : Accounts(r), NEW p \in Requests,
         NEW l \in {"emit_failed", "respond", "done"}, Moves(p, l),
         pc[p] \notin {"respond", "done", "dead"},
         UNCHANGED <<chat, messages, clock, stamp, conversation, calls, used>>,
         \/ UNCHANGED events
         \/ chat = "active" /\ events' = Append1(events, p, "tool_called")
         \/ chat = "active" /\ events' = Append1(events, p, "failed"),
         chat = "absent" => l = "done"
  PROVE  \A r \in Requests : Accounts(r)'
  <1>1. \A r, who : Stored(r, who)' = Stored(r, who)
    BY DEF Stored
  <1>2. "completed" \notin Told(p)' /\ \A r \in Requests \ {p} : events'[r] = events[r]
    <2>1. "completed" \notin Told(p)
      BY DEF Accounts, Logged
    <2>2. CASE UNCHANGED events
      BY <2>1, <2>2 DEF Told
    <2>3. CASE events' = Append1(events, p, "tool_called")
      BY <2>1, <2>3, Types, ToldOfAppend
    <2>4. CASE events' = Append1(events, p, "failed")
      BY <2>1, <2>4, Types, ToldOfAppend
    <2> QED  BY <2>2, <2>3, <2>4
  <1>3. pc'[p] = l /\ \A r \in Requests \ {p} : Accounts(r)'
    <2>1. clock' \in Nat /\ clock <= clock'
      BY DEF TypeOK
    <2> QED  BY <1>1, <1>2, <2>1, AccountsOthers
  <1>4. l \notin Level /\ l \notin Unanswered /\ l \notin Questioned /\ l \notin Early
        /\ l \notin {"emit_tool_called", "emit_completed", "create_assistant_message",
                      "idle", "create_user_message"}
    BY DEF Level, Unanswered, Questioned, Early, Loop
  <1>5. Counted(p)'
    BY <1>3, <1>4 DEF Accounts, Counted
  <1>6. Logged(p)'
    BY <1>2, <1>3, <1>4 DEF Accounts, Logged
  <1>7. Filed(p)'
    BY <1>2, <1>3, <1>4 DEF Filed
  <1> QED  BY <1>3, <1>5, <1>6, <1>7 DEF Accounts

(* A request goes on to l; its question stays, it has no answer yet. *)
LEMMA AccountsGoOn ==
  ASSUME TypeOK, \A r \in Requests : Accounts(r), NEW p \in Requests,
         chat # "absent", chat # "active" => UNCHANGED events, NEW l, Moves(p, l),
         UNCHANGED <<chat, messages, clock, stamp, conversation, calls, used>>,
         \/ /\ pc[p] \in Questioned \ {"emit_tool_called", "execute_tool_call"}
            /\ l \in Questioned \ {"emit_tool_called"} /\ UNCHANGED events
         \/ /\ pc[p] \in {"emit_received", "emit_processing"}
            /\ l \in Questioned \ {"emit_tool_called"}
            /\ \E type \in {"received", "processing"} : events' = Append1(events, p, type)
         \/ /\ pc[p] = "emit_tool_called" /\ l \in {"execute_tool_call", "chat_completion"}
            /\ events' = Append1(events, p, "tool_called"),
         l \in Early => pc[p] \in Early
  PROVE  \A r \in Requests : Accounts(r)'
  <1>1. \A r, who : Stored(r, who)' = Stored(r, who)
    BY DEF Stored
  <1>2. pc[p] \in Questioned /\ pc[p] \notin {"respond", "done", "dead"}
        /\ pc[p] \in Unanswered /\ l \in Questioned
        /\ l \in Level /\ l # "emit_tool_called" /\ l # "done"
        /\ l \notin {"idle", "create_user_message", "create_assistant_message", "emit_completed"}
    BY DEF Questioned, Loop, Level, Early, Unanswered
  <1>3. /\ "completed" \notin Told(p)'
        /\ chat = "active" => ToolsTold(p)' = Len(conversation[p])
        /\ \A r \in Requests \ {p} : events'[r] = events[r]
    <2>1. /\ "completed" \notin Told(p)
          /\ chat = "active" /\ pc[p] \in Level => ToolsTold(p) = Len(conversation[p])
          /\ chat = "active" /\ pc[p] = "emit_tool_called" => ToolsTold(p) + 1 = Len(conversation[p])
      BY <1>2 DEF Accounts, Logged
    <2>2. CASE UNCHANGED events /\ pc[p] # "emit_tool_called"
      <3>1. pc[p] \in Level
        BY <1>2, <2>2 DEF Questioned, Loop, Level, Early
      <3> QED  BY <2>1, <2>2, <3>1 DEF Told, ToolsTold
    <2>3. CASE /\ pc[p] \in {"emit_received", "emit_processing"}
               /\ \E type \in {"received", "processing"} : events' = Append1(events, p, type)
      <3>1. pc[p] \in Level
        BY <2>3 DEF Level, Early
      <3> QED  BY <2>1, <2>3, <3>1, Types, ToldOfAppend
    <2>4. CASE pc[p] = "emit_tool_called" /\ events' = Append1(events, p, "tool_called")
      BY <2>1, <2>4, Types, ToldOfAppend
    <2> QED  BY <2>2, <2>3, <2>4
  <1>4. pc'[p] = l /\ \A r \in Requests \ {p} : Accounts(r)'
    <2>1. clock' \in Nat /\ clock <= clock'
      BY DEF TypeOK
    <2> QED  BY <1>1, <1>3, <2>1, AccountsOthers
  <1>5. Counted(p)'
    BY <1>4 DEF Accounts, Counted
  <1>6. Logged(p)'
    BY <1>2, <1>3, <1>4 DEF Accounts, Logged
  <1>7. UserRow(p)' = UserRow(p)
    BY DEF UserRow
  <1>8. Filed(p)'
    BY <1>1, <1>2, <1>3, <1>4, <1>7 DEF Accounts, Filed
  <1> QED  BY <1>4, <1>5, <1>6, <1>8 DEF Accounts

LEMMA AccountsResult ==
  ASSUME TypeOK, \A r \in Requests : Accounts(r), NEW p \in Requests, NEW x \in ToolResults,
         chat # "absent", pc[p] = "execute_tool_call", Moves(p, "emit_tool_called"),
         UNCHANGED <<chat, messages, clock, stamp, events>>,
         conversation' = Append1(conversation, p, x),
         calls' = [calls EXCEPT ![p] = @ + 1],
         used' = [used EXCEPT ![p] = @ \cup UsedFiles(x)]
  PROVE  \A r \in Requests : Accounts(r)'
  <1>1. \A r, who : Stored(r, who)' = Stored(r, who)
    BY DEF Stored
  <1>2. /\ conversation[p] \in Seq(ToolResults) /\ conversation'[p] = Append(conversation[p], x)
        /\ calls'[p] = calls[p] + 1 /\ used'[p] = used[p] \cup UsedFiles(x)
        /\ Len(conversation'[p]) = Len(conversation[p]) + 1
        /\ \A r \in Requests \ {p} :
              conversation'[r] = conversation[r] /\ calls'[r] = calls[r] /\ used'[r] = used[r]
    BY DEF TypeOK, Append1
  <1>3. pc'[p] = "emit_tool_called" /\ \A r \in Requests \ {p} : Accounts(r)'
    <2>1. clock' \in Nat /\ clock <= clock'
      BY DEF TypeOK
    <2> QED  BY <1>1, <1>2, <2>1, AccountsOthers
  <1>4. FoundIn(conversation'[p]) = FoundIn(conversation[p]) \cup UsedFiles(x)
    BY <1>2, FoundOfAppend
  <1>5. "execute_tool_call" \in Level /\ "execute_tool_call" \in Questioned
        /\ "execute_tool_call" \in Unanswered
        /\ "emit_tool_called" \notin Level /\ "emit_tool_called" \notin Early
        /\ Len(conversation[p]) \in Nat
    BY <1>2 DEF Level, Early, Questioned, Loop, Unanswered
  <1>6. Counted(p)'
    BY <1>2, <1>3, <1>4, <1>5 DEF Accounts, Counted
  <1>7. Told(p)' = Told(p) /\ ToolsTold(p)' = ToolsTold(p)
    BY DEF Told, ToolsTold
  <1>8. Logged(p)'
    BY <1>2, <1>3, <1>5, <1>7 DEF Accounts, Logged
  <1>9. UserRow(p)' = UserRow(p)
    BY DEF UserRow
  <1>10. "completed" \notin Told(p)
    BY DEF Accounts, Logged
  <1>11. Filed(p)'
    BY <1>1, <1>3, <1>5, <1>7, <1>9, <1>10 DEF Accounts, Filed
  <1> QED  BY <1>3, <1>6, <1>8, <1>11 DEF Accounts

(* The answer gets a stamp of its own, newer than the question's. *)
LEMMA AccountsDraw ==
  ASSUME TypeOK, \A r \in Requests : Accounts(r), NEW p \in Requests, chat # "absent",
         pc[p] = "chat_completion", Moves(p, "create_assistant_message"), DrawStamp(p),
         UNCHANGED <<chat, messages, events, conversation, calls, used>>
  PROVE  \A r \in Requests : Accounts(r)'
  <1>1. \A r, who : Stored(r, who)' = Stored(r, who)
    BY DEF Stored
  <1>2. /\ clock \in Nat /\ clock' = clock + 1 /\ stamp'[p] = clock' /\ stamp[p] < stamp'[p]
        /\ \A r \in Requests \ {p} : stamp'[r] = stamp[r]
    BY DEF TypeOK, DrawStamp, Accounts, Counted
  <1>3. pc'[p] = "create_assistant_message" /\ \A r \in Requests \ {p} : Accounts(r)'
    <2>1. clock' \in Nat /\ clock <= clock'
      BY <1>2
    <2> QED  BY <1>1, <1>2, <2>1, AccountsOthers
  <1>4. "chat_completion" \in Level /\ "chat_completion" \in Questioned
        /\ "chat_completion" \in Unanswered
        /\ "create_assistant_message" \in Level /\ "create_assistant_message" \notin Early
        /\ "create_assistant_message" \notin Questioned /\ "create_assistant_message" \in Unanswered
    BY DEF Level, Early, Questioned, Loop, Unanswered
  <1>5. Counted(p)'
    BY <1>2, <1>3, <1>4 DEF Accounts, Counted
  <1>6. Told(p)' = Told(p) /\ ToolsTold(p)' = ToolsTold(p)
    BY DEF Told, ToolsTold
  <1>7. Logged(p)'
    BY <1>3, <1>4, <1>6 DEF Accounts, Logged
  <1>8. chat = "active" => Stored(p, "user") = {UserRow(p)} /\ UserRow(p).at < stamp'[p]
    BY <1>2, <1>4 DEF Accounts, Filed, UserRow
  <1>9. "completed" \notin Told(p)
    BY DEF Accounts, Logged
  <1>10. chat' = "active" => \E question : Stored(p, "user")' = {question} /\ question.at < stamp'[p]
    BY <1>1, <1>8
  <1>11. Filed(p)'
    BY <1>1, <1>3, <1>4, <1>6, <1>9, <1>10 DEF Accounts, Filed
  <1> QED  BY <1>3, <1>5, <1>7, <1>11 DEF Accounts

LEMMA AccountsPost ==
  ASSUME TypeOK, \A r \in Requests : Accounts(r), NEW p \in Requests, Post(p)
  PROVE  \A r \in Requests : Accounts(r)'
  <1>1. pc[p] = "idle" /\ UNCHANGED <<chat, messages, events, conversation, calls, used>>
    BY DEF Post, tables, flow
  <1>2. CASE Reply(p, 404) \/ Reply(p, 500)
    <2>1. Moves(p, "done")
      BY <1>2, Codes, ReplyIsTyped
    <2>2. CASE UNCHANGED <<clock, stamp>>
      BY <1>1, <2>1, <2>2, AccountsFail
    <2>3. pc'[p] = "done"
      BY <2>1 DEF Moves, TypeOK
    <2> QED  BY <2>2, <2>3, Labels, <1>1 DEF Post, Goto, Moves, TypeOK
  <1>3. CASE chat = "active" /\ DrawStamp(p) /\ Goto(p, "create_user_message")
    <2>1. Moves(p, "create_user_message")
      BY <1>3, Labels DEF Goto, Moves
    <2>2. \A r, who : Stored(r, who)' = Stored(r, who)
      BY <1>1 DEF Stored
    <2>3. /\ clock \in Nat /\ clock' = clock + 1 /\ stamp'[p] = clock'
          /\ \A r \in Requests \ {p} : stamp'[r] = stamp[r]
      BY <1>3 DEF TypeOK, DrawStamp
    <2>4. pc'[p] = "create_user_message" /\ \A r \in Requests \ {p} : Accounts(r)'
      <3>1. clock' \in Nat /\ clock <= clock'
        BY <2>3
      <3> QED  BY <1>1, <2>1, <2>2, <2>3, <3>1, AccountsOthers
    <2>5. "idle" \in Early /\ "create_user_message" \in Early
          /\ "idle" \in Level /\ "create_user_message" \in Level
          /\ "create_user_message" \notin Questioned /\ "idle" \in Unanswered
      BY DEF Early, Level, Questioned, Loop, Unanswered
    <2>6. Counted(p)'
      BY <1>1, <2>3, <2>4, <2>5 DEF Accounts, Counted
    <2>7. Told(p)' = Told(p) /\ ToolsTold(p)' = ToolsTold(p)
      BY <1>1 DEF Told, ToolsTold
    <2>8. Logged(p)'
      BY <1>1, <1>3, <2>4, <2>5, <2>7 DEF Accounts, Logged
    <2>9. "completed" \notin Told(p)
      BY <1>1 DEF Accounts, Logged
    <2>10. Filed(p)'
      BY <1>1, <2>2, <2>4, <2>5, <2>7, <2>9 DEF Accounts, Filed
    <2> QED  BY <2>4, <2>6, <2>8, <2>10 DEF Accounts
  <1> QED  BY <1>2, <1>3 DEF Post

LEMMA AccountsRow ==
  ASSUME TypeOK, \A r \in Requests : Accounts(r), NEW p \in Requests, chat = "active",
         UNCHANGED <<chat, events, clock, stamp, conversation, calls, used>>,
         \/ /\ pc[p] = "create_user_message" /\ Moves(p, "emit_received")
            /\ messages' = messages \cup {UserRow(p)}
         \/ /\ pc[p] = "create_assistant_message" /\ Moves(p, "emit_completed")
            /\ messages' = messages \cup {AssistantRow(p)}
  PROVE  \A r \in Requests : Accounts(r)'
  <1>1. /\ UserRow(p).req = p /\ UserRow(p).role = "user"
        /\ AssistantRow(p).req = p /\ AssistantRow(p).role = "assistant"
        /\ UserRow(p)' = UserRow(p) /\ AssistantRow(p)' = AssistantRow(p)
    BY DEF UserRow, AssistantRow
  <1>2. \A r, who : r # p => Stored(r, who)' = Stored(r, who)
    BY <1>1, RowIsStored
  <1>3. \A r \in Requests \ {p} : Accounts(r)'
    <2>1. clock' \in Nat /\ clock <= clock'
      BY DEF TypeOK
    <2> QED  BY <1>2, <2>1, AccountsOthers
  <1>4. Told(p)' = Told(p) /\ ToolsTold(p)' = ToolsTold(p)
    BY DEF Told, ToolsTold
  <1>5. "completed" \notin Told(p)
    BY DEF Accounts, Logged
  <1>6. CASE /\ pc[p] = "create_user_message" /\ Moves(p, "emit_received")
             /\ messages' = messages \cup {UserRow(p)}
    <2>1. pc'[p] = "emit_received"
      BY <1>6 DEF Moves, TypeOK
    <2>2. /\ "create_user_message" \in Early /\ "emit_received" \in Early
          /\ "create_user_message" \in Level /\ "emit_received" \in Level
          /\ "create_user_message" \in Unanswered
      BY DEF Early, Level, Unanswered
    <2>3. Stored(p, "user")' = {UserRow(p)} /\ Stored(p, "assistant")' = {}
      BY SMTT(30), <1>1, <1>6, <2>2, RowIsStored DEF Accounts, Filed
    <2>4. Counted(p)'
      BY <1>6, <2>1, <2>2 DEF Accounts, Counted
    <2>5. Logged(p)'
      BY <1>4, <1>6, <2>1, <2>2 DEF Accounts, Logged
    <2>6. Filed(p)'
      BY <1>1, <1>4, <1>5, <2>1, <2>3 DEF Filed
    <2> QED  BY <1>3, <2>4, <2>5, <2>6 DEF Accounts
  <1>7. CASE /\ pc[p] = "create_assistant_message" /\ Moves(p, "emit_completed")
             /\ messages' = messages \cup {AssistantRow(p)}
    <2>1. pc'[p] = "emit_completed"
      BY <1>7 DEF Moves, TypeOK
    <2>2. /\ "create_assistant_message" \in Level /\ "emit_completed" \in Level
          /\ "create_assistant_message" \in Unanswered /\ "emit_completed" \notin Early
          /\ "emit_completed" \notin Unanswered /\ "emit_completed" \notin Questioned
      BY DEF Early, Level, Unanswered, Questioned, Loop
    <2>3. /\ Stored(p, "assistant")' = {AssistantRow(p)}
          /\ Stored(p, "user")' = Stored(p, "user")
      <3>1. Stored(p, "assistant") = {}
        BY <1>7, <2>2 DEF Accounts, Filed
      <3> QED  BY <1>1, <1>7, <3>1, RowIsStored
    <2>4. \E question : Stored(p, "user") = {question} /\ question.at < stamp[p]
      BY <1>7 DEF Accounts, Filed
    <2>5. Counted(p)'
      BY <2>1, <2>2 DEF Accounts, Counted
    <2>6. Logged(p)'
      BY <1>4, <1>7, <2>1, <2>2 DEF Accounts, Logged
    <2>7. Filed(p)'
      BY <1>1, <1>4, <1>5, <2>1, <2>2, <2>3, <2>4 DEF Filed
    <2> QED  BY <1>3, <2>5, <2>6, <2>7 DEF Accounts
  <1> QED  BY <1>6, <1>7

LEMMA AccountsComplete ==
  ASSUME TypeOK, \A r \in Requests : Accounts(r), NEW p \in Requests, chat = "active",
         pc[p] = "emit_completed", Moves(p, "respond"), events' = Append1(events, p, "completed"),
         UNCHANGED <<chat, messages, clock, stamp, conversation, calls, used>>
  PROVE  \A r \in Requests : Accounts(r)'
  <1>1. \A r, who : Stored(r, who)' = Stored(r, who)
    BY DEF Stored
  <1>2. ToolsTold(p)' = ToolsTold(p) /\ \A r \in Requests \ {p} : events'[r] = events[r]
    BY Types, ToldOfAppend
  <1>3. pc'[p] = "respond" /\ \A r \in Requests \ {p} : Accounts(r)'
    <2>1. clock' \in Nat /\ clock <= clock'
      BY DEF TypeOK
    <2> QED  BY <1>1, <1>2, <2>1, AccountsOthers
  <1>4. "respond" \notin Level /\ "respond" \notin Early /\ "respond" \notin Questioned
        /\ "respond" \notin Unanswered /\ "emit_completed" \in Level
    BY DEF Level, Early, Questioned, Loop, Unanswered
  <1>5. Counted(p)'
    BY <1>3, <1>4 DEF Accounts, Counted
  <1>6. Logged(p)'
    BY <1>3, <1>4 DEF Accounts, Logged
  <1>7. Settled(p)
    <2>1. PICK question : Stored(p, "user") = {question} /\ question.at < stamp[p]
      BY DEF Accounts, Filed
    <2>2. Stored(p, "assistant") = {AssistantRow(p)}
      BY DEF Accounts, Filed
    <2>3. /\ AssistantRow(p).at = stamp[p] /\ AssistantRow(p).calls = calls[p]
          /\ AssistantRow(p).used = used[p]
      BY DEF AssistantRow
    <2>4. /\ calls[p] = Len(conversation[p]) /\ used[p] = FoundIn(conversation[p])
          /\ ToolsTold(p) = Len(conversation[p])
      BY <1>4 DEF Accounts, Counted, Logged
    <2> QED  BY <2>1, <2>2, <2>3, <2>4 DEF Settled
  <1>8. Settled(p)'
    BY <1>1, <1>2, <1>7 DEF Settled
  <1>9. Filed(p)'
    BY <1>3, <1>4, <1>8 DEF Filed
  <1> QED  BY <1>3, <1>5, <1>6, <1>9 DEF Accounts

(* A request that comes to its end, replied to or not, leaves its accounts as they are. *)
LEMMA AccountsOver ==
  ASSUME NEW r \in Requests, Accounts(r), pc[r] \notin {"idle", "done"},
         pc'[r] \in {"done", "dead"},
         UNCHANGED <<chat, messages, events, clock, stamp, conversation, calls, used>>
  PROVE  Accounts(r)'
  <1>1. /\ \A who : Stored(r, who)' = Stored(r, who)
        /\ Told(r)' = Told(r) /\ ToolsTold(r)' = ToolsTold(r)
    BY DEF Stored, Told, ToolsTold
  <1>2. pc'[r] \notin Level /\ pc'[r] \notin Early /\ pc'[r] \notin Questioned
        /\ pc'[r] \notin Unanswered
    BY DEF Level, Early, Questioned, Loop, Unanswered
  <1>3. Counted(r)' /\ Logged(r)'
    BY <1>1, <1>2 DEF Accounts, Counted, Logged
  <1>4. Settled(r) => Settled(r)'
    BY <1>1 DEF Settled
  <1>5. Filed(r)'
    BY <1>1, <1>2, <1>4 DEF Accounts, Filed
  <1> QED  BY <1>3, <1>5 DEF Accounts

LEMMA AccountsStep ==
  ASSUME TypeOK, \A r \in Requests : Accounts(r), [Next]_vars
  PROVE  \A r \in Requests : Accounts(r)'
  <1> DEFINE Goal == \A r \in Requests : Accounts(r)'
  <1>1. ASSUME CreateChat PROVE Goal
    <2>1. /\ chat = "absent" /\ chat' = "active"
          /\ UNCHANGED <<messages, events, clock, pc, stamp, conversation, calls, used>>
      BY <1>1 DEF CreateChat, flow
    <2>2. ASSUME NEW r \in Requests
          PROVE  /\ events[r] = <<>> /\ pc[r] \in {"idle", "done"} /\ messages = {}
                 /\ Counted(r) /\ (pc[r] = "idle" => conversation[r] = <<>>)
      <3>1. events[r] = <<>> /\ pc[r] \in {"idle", "done"} /\ messages = {} /\ Counted(r)
        BY <2>1 DEF Accounts, Logged
      <3> QED  BY <3>1 DEF Counted, Early
    <2>3. ASSUME NEW r \in Requests PROVE Told(r)' = {} /\ ToolsTold(r)' = 0
      <3>1. events'[r] = <<>>
        BY <2>1, <2>2
      <3> QED  BY <3>1, FS_EmptySet DEF Told, ToolsTold
    <2>4. ASSUME NEW r \in Requests, NEW who PROVE Stored(r, who)' = {}
      BY <2>1, <2>2 DEF Stored
    <2>5. ASSUME NEW r \in Requests PROVE Accounts(r)'
      <3>1. Counted(r)'
        BY <2>1, <2>2 DEF Counted
      <3>2. pc'[r] \in {"idle", "done"} /\ (pc'[r] = "idle" => conversation'[r] = <<>>)
        BY <2>1, <2>2
      <3>3. "done" \notin Level /\ "done" \notin Questioned /\ "idle" \notin Questioned
        BY DEF Level, Early, Questioned, Loop
      <3>4. Logged(r)'
        BY <2>1, <2>3, <3>2, <3>3 DEF Logged
      <3>5. Filed(r)'
        BY <2>3, <2>4, <3>2, <3>3 DEF Filed
      <3> QED  BY <3>1, <3>4, <3>5 DEF Accounts
    <2> QED  BY <2>5
  <1>2. ASSUME DeleteChat PROVE Goal
    <2>1. /\ chat' = "deleted" /\ events' = [r \in Requests |-> <<>>]
          /\ UNCHANGED <<clock, pc, stamp, conversation, calls, used>>
      BY <1>2 DEF DeleteChat, flow
    <2>2. \A r \in Requests : Told(r)' = {} /\ events'[r] = <<>>
      BY <2>1 DEF Told
    <2>3. \A r \in Requests : Counted(r)'
      BY <2>1 DEF Accounts, Counted
    <2>4. \A r \in Requests : Logged(r)' /\ Filed(r)'
      BY <2>1, <2>2 DEF Logged, Filed
    <2> QED  BY <2>3, <2>4 DEF Accounts
  <1>3. ASSUME Crash PROVE Goal
    <2>1. UNCHANGED <<chat, messages, events, clock, stamp, conversation, calls, used>>
      BY <1>3 DEF Crash, tables, flow
    <2>2. \A r \in Requests : pc'[r] = pc[r] \/ (pc'[r] = "dead" /\ pc[r] \notin {"idle", "done"})
      BY <1>3 DEF Crash, InFlight, TypeOK
    <2>3. ASSUME NEW r \in Requests PROVE Accounts(r)'
      <3>1. \A who : Stored(r, who)' = Stored(r, who)
        BY <2>1 DEF Stored
      <3>2. CASE pc'[r] = pc[r]
        <4>1. clock \in Nat /\ stamp[r] \in Nat /\ clock' = clock
          BY <2>1 DEF TypeOK
        <4> QED  BY <2>1, <3>1, <3>2, <4>1, AccountsStill
      <3>3. CASE pc'[r] = "dead" /\ pc[r] \notin {"idle", "done"}
        BY <2>1, <3>3, AccountsOver
      <3> QED  BY <2>2, <3>2, <3>3
    <2> QED  BY <2>3
  <1>4. ASSUME NEW r \in Requests, Post(r) PROVE Goal
    BY <1>4, AccountsPost
  <1>5. ASSUME NEW r \in Requests, CreateUserMessage(r) \/ CreateAssistantMessage(r) PROVE Goal
    <2>1. /\ pc[r] \in {"create_user_message", "create_assistant_message"}
          /\ UNCHANGED <<chat, events, clock, stamp, conversation, calls, used>>
          /\ chat # "absent"
      BY <1>5 DEF CreateUserMessage, CreateAssistantMessage, flow, Accounts, Logged
    <2>2. CASE chat = "active" /\ pc[r] = "create_user_message" /\ Goto(r, "emit_received")
               /\ messages' = messages \cup {UserRow(r)}
      <3>1. Moves(r, "emit_received")
        BY <2>2, Labels DEF Goto, Moves
      <3> QED  BY <2>1, <2>2, <3>1, AccountsRow
    <2>3. CASE chat = "active" /\ pc[r] = "create_assistant_message" /\ Goto(r, "emit_completed")
               /\ messages' = messages \cup {AssistantRow(r)}
      <3>1. Moves(r, "emit_completed")
        BY <2>3, Labels DEF Goto, Moves
      <3> QED  BY <2>1, <2>3, <3>1, AccountsRow
    <2>4. CASE (Reply(r, 500) \/ Raise(r, "other")) /\ UNCHANGED messages
      <3>1. \E l \in {"emit_failed", "done"} : Moves(r, l)
        BY <2>4, Codes, Kinds, ReplyIsTyped, RaiseIsTyped
      <3> QED  BY <2>1, <2>4, <3>1, AccountsFail
    <2> QED  BY <1>5, <2>2, <2>3, <2>4 DEF CreateUserMessage, CreateAssistantMessage, CanWrite
  <1>6. ASSUME NEW r \in Requests, EmitCompleted(r) PROVE Goal
    <2>1. /\ pc[r] = "emit_completed" /\ chat # "absent"
          /\ UNCHANGED <<chat, messages, clock, stamp, conversation, calls, used>>
      BY <1>6 DEF EmitCompleted, flow, Accounts, Logged
    <2>2. CASE chat = "active" /\ events' = Append1(events, r, "completed") /\ Goto(r, "respond")
      <3>1. Moves(r, "respond")
        BY <2>2, Labels DEF Goto, Moves
      <3> QED  BY <2>1, <2>2, <3>1, AccountsComplete
    <2>3. CASE Raise(r, "other") /\ UNCHANGED events
      <3>1. Moves(r, "emit_failed")
        BY <2>3, Kinds, RaiseIsTyped
      <3> QED  BY <2>1, <2>3, <3>1, AccountsFail
    <2> QED  BY <1>6, <2>2, <2>3 DEF EmitCompleted, Emit, CanWrite
  <1>7. ASSUME NEW r \in Requests, EmitFailed(r) PROVE Goal
    <2>1. /\ pc[r] = "emit_failed" /\ chat # "absent"
          /\ UNCHANGED <<chat, messages, clock, stamp, conversation, calls, used>>
      BY <1>7 DEF EmitFailed, flow, Accounts, Logged
    <2>2. Moves(r, "respond")
      BY <1>7, Labels DEF EmitFailed, Goto, Moves
    <2>3. UNCHANGED events \/ (chat = "active" /\ events' = Append1(events, r, "failed"))
      BY <1>7 DEF EmitFailed, CanWrite
    <2> QED  BY <2>1, <2>2, <2>3, AccountsFail
  <1>8. ASSUME NEW r \in Requests, EmitReceived(r) \/ EmitProcessing(r) PROVE Goal
    <2>1. /\ pc[r] \in {"emit_received", "emit_processing"} /\ chat # "absent"
          /\ UNCHANGED <<chat, messages, clock, stamp, conversation, calls, used>>
      BY <1>8 DEF EmitReceived, EmitProcessing, flow, Accounts, Logged
    <2>2. CASE /\ chat = "active"
               /\ \E type \in {"received", "processing"} : events' = Append1(events, r, type)
               /\ Moves(r, "emit_processing") \/ Moves(r, "get_chat_history")
      <3>1. /\ "emit_processing" \in Questioned \ {"emit_tool_called"}
            /\ "get_chat_history" \in Questioned \ {"emit_tool_called"}
            /\ pc[r] \in Early
        BY <2>1 DEF Questioned, Early
      <3> QED  BY <2>1, <2>2, <3>1, AccountsGoOn
    <2>3. CASE Raise(r, "other") /\ UNCHANGED events
      <3>1. Moves(r, "emit_failed")
        BY <2>3, Kinds, RaiseIsTyped
      <3> QED  BY <2>1, <2>3, <3>1, AccountsFail
    <2>4. /\ Goto(r, "emit_processing") => Moves(r, "emit_processing")
          /\ Goto(r, "get_chat_history") => Moves(r, "get_chat_history")
      BY Labels DEF Goto, Moves
    <2> QED  BY <1>8, <2>2, <2>3, <2>4 DEF EmitReceived, EmitProcessing, Emit, CanWrite
  <1>9. ASSUME NEW r \in Requests, GetChatHistory(r) \/ CompleteWithToolCalls(r) PROVE Goal
    <2>1. /\ pc[r] \in {"get_chat_history", "chat_completion"} /\ chat # "absent"
          /\ UNCHANGED <<chat, messages, events, clock, stamp, conversation, calls, used>>
      BY <1>9 DEF GetChatHistory, CompleteWithToolCalls, tables, Accounts, Logged
    <2>2. CASE Goto(r, "chat_completion") \/ Goto(r, "execute_tool_call")
      <3>1. \E l \in {"chat_completion", "execute_tool_call"} : Moves(r, l)
        BY <2>2, Labels DEF Goto, Moves
      <3>2. /\ {"get_chat_history", "chat_completion"}
                   \subseteq Questioned \ {"emit_tool_called", "execute_tool_call"}
            /\ {"chat_completion", "execute_tool_call"} \subseteq Questioned \ {"emit_tool_called"}
            /\ \A l \in {"chat_completion", "execute_tool_call"} : l \notin Early
        BY DEF Questioned, Loop, Early
      <3> QED  BY <2>1, <3>1, <3>2, AccountsGoOn
    <2>3. CASE Raise(r, "guardrail") \/ Raise(r, "other")
      <3>1. Moves(r, "emit_failed")
        BY <2>3, Kinds, RaiseIsTyped
      <3> QED  BY <2>1, <3>1, AccountsFail
    <2> QED  BY <1>9, <2>2, <2>3 DEF GetChatHistory, CompleteWithToolCalls
  <1>10. ASSUME NEW r \in Requests, CompleteWithContent(r) \/ ProviderFails(r) \/ ToolRaises(r)
         PROVE  Goal
    <2>1. /\ pc[r] \in {"chat_completion", "execute_tool_call"} /\ chat # "absent"
          /\ UNCHANGED <<chat, messages, events, conversation, calls, used>>
      BY <1>10 DEF CompleteWithContent, ProviderFails, ToolRaises, tables, flow, Accounts, Logged
    <2>2. CASE pc[r] = "chat_completion" /\ DrawStamp(r) /\ Goto(r, "create_assistant_message")
      <3>1. Moves(r, "create_assistant_message")
        BY <2>2, Labels DEF Goto, Moves
      <3> QED  BY <2>1, <2>2, <3>1, AccountsDraw
    <2>3. CASE (\E kind \in Errors : Raise(r, kind)) /\ UNCHANGED <<clock, stamp>>
      <3>1. Moves(r, "emit_failed")
        BY <2>3, RaiseIsTyped
      <3> QED  BY <2>1, <2>3, <3>1, AccountsFail
    <2> QED  BY <1>10, <2>2, <2>3, Kinds DEF CompleteWithContent, NoTextualContent,
                OutputGuardRejects, ProviderFails, ToolRaises
  <1>11. ASSUME NEW r \in Requests, ExecuteSearch(r) \/ ExecuteRead(r) PROVE Goal
    <2>1. /\ pc[r] = "execute_tool_call" /\ chat # "absent"
          /\ UNCHANGED <<chat, messages, events, clock, stamp>>
      BY <1>11 DEF ExecuteSearch, ExecuteRead, tables, Accounts, Logged
    <2>2. PICK x \in ToolResults : TakeResult(r, x)
      BY <1>11 DEF ExecuteSearch, ExecuteRead, ToolResults
    <2>3. CASE Raise(r, "processing") /\ UNCHANGED <<conversation, calls, used>>
      <3>1. Moves(r, "emit_failed")
        BY <2>3, Kinds, RaiseIsTyped
      <3> QED  BY <2>1, <2>3, <3>1, AccountsFail
    <2>4. CASE /\ conversation' = Append1(conversation, r, x)
               /\ calls' = [calls EXCEPT ![r] = @ + 1]
               /\ used' = [used EXCEPT ![r] = @ \cup UsedFiles(x)]
               /\ Goto(r, "emit_tool_called")
      <3>1. Moves(r, "emit_tool_called")
        BY <2>4, Labels DEF Goto, Moves
      <3> QED  BY <2>1, <2>4, <3>1, AccountsResult
    <2> QED  BY <2>2, <2>3, <2>4 DEF TakeResult
  <1>12. ASSUME NEW r \in Requests, EmitToolCalled(r) PROVE Goal
    <2>1. /\ pc[r] = "emit_tool_called" /\ chat # "absent"
          /\ UNCHANGED <<chat, messages, clock, stamp, conversation, calls, used>>
      BY <1>12 DEF EmitToolCalled, Accounts, Logged
    <2>2. CASE /\ \E kind \in Errors : Raise(r, kind)
               /\ UNCHANGED events \/ (chat = "active" /\ events' = Append1(events, r, "tool_called"))
      <3>1. Moves(r, "emit_failed")
        BY <2>2, RaiseIsTyped
      <3> QED  BY <2>1, <2>2, <3>1, AccountsFail
    <2>3. CASE /\ chat = "active" /\ events' = Append1(events, r, "tool_called")
               /\ \E l \in {"execute_tool_call", "chat_completion"} : Goto(r, l)
      <3>1. \E l \in {"execute_tool_call", "chat_completion"} : Moves(r, l)
        BY <2>3, Labels DEF Goto, Moves
      <3>2. "emit_tool_called" \in Questioned
            /\ \A l \in {"chat_completion", "execute_tool_call"} : l \notin Early
        BY DEF Questioned, Loop, Early
      <3> QED  BY <2>1, <2>3, <3>1, <3>2, AccountsGoOn
    <2> QED  BY <1>12, <2>2, <2>3, Kinds DEF EmitToolCalled, Emit, CanWrite
  <1>13. ASSUME NEW r \in Requests, Respond(r) PROVE Goal
    <2>1. /\ pc[r] = "respond" /\ Moves(r, "done")
          /\ UNCHANGED <<chat, messages, events, clock, stamp, conversation, calls, used>>
      BY <1>13, Labels DEF Respond, Reply, Goto, Moves, tables, flow
    <2>2. \A q, who : Stored(q, who)' = Stored(q, who)
      BY <2>1 DEF Stored
    <2>3. pc'[r] = "done" /\ \A q \in Requests \ {r} : Accounts(q)'
      <3>1. clock' \in Nat /\ clock <= clock'
        BY <2>1 DEF TypeOK
      <3> QED  BY <2>1, <2>2, <3>1, AccountsOthers
    <2>4. Accounts(r)'
      BY <2>1, <2>3, AccountsOver
    <2> QED  BY <2>3, <2>4
  <1>14. CASE UNCHANGED vars
    <2>1. /\ UNCHANGED <<chat, messages, events, pc, stamp, conversation, calls, used>>
          /\ clock \in Nat /\ clock' = clock /\ \A r \in Requests : stamp[r] \in Nat
      BY <1>14 DEF vars, tables, flow, TypeOK
    <2>2. \A r, who : Stored(r, who)' = Stored(r, who)
      BY <2>1 DEF Stored
    <2> QED  BY <2>1, <2>2, AccountsStill
  <1> QED
    BY <1>1, <1>2, <1>3, <1>4, <1>5, <1>6, <1>7, <1>8, <1>9, <1>10, <1>11, <1>12, <1>13, <1>14
       DEF Next, Work

LEMMA AccountsAlways == Spec => [](\A r \in Requests : Accounts(r))
  <1> DEFINE Inv == \A r \in Requests : Accounts(r)
  <1>1. Init => Inv
    <2> SUFFICES ASSUME Init, NEW r \in Requests PROVE Accounts(r)
      OBVIOUS
    <2>1. Told(r) = {} /\ FoundIn(conversation[r]) = {} /\ conversation[r] = <<>>
      BY DEF Init, Told, FoundIn
    <2>2. Counted(r)
      BY <2>1 DEF Init, Counted
    <2> QED  BY <2>1, <2>2 DEF Init, Accounts, Logged, Filed
  <1>2. TypeOK /\ Inv /\ [Next]_vars => Inv'
    BY AccountsStep
  <1> QED  BY <1>1, <1>2, TypeCorrect, PTL DEF Spec

(***************************************************************************)
(* For any number of requests and tool rounds, whatever fails and whenever *)
(* the chat is deleted: what is reported completed has one question, one   *)
(* newer answer, and metadata that agrees with the log and with what the   *)
(* model was given.                                                        *)
(***************************************************************************)
THEOREM AccountsAgree == Spec => []AccountingAgrees
  <1> DEFINE Inv == \A r \in Requests : Accounts(r)
  <1>1. TypeOK /\ Inv => AccountingAgrees
    <2> SUFFICES ASSUME TypeOK, Inv, NEW r \in Requests, "completed" \in Told(r)
                 PROVE  \E question, answer \in messages :
                           /\ Stored(r, "user") = {question}
                           /\ Stored(r, "assistant") = {answer}
                           /\ question.at < answer.at
                           /\ answer.calls = ToolsTold(r)
                           /\ answer.calls = Len(conversation[r])
                           /\ answer.used = FoundIn(conversation[r])
      BY DEF AccountingAgrees
    <2>1. chat = "active"
      BY DEF Accounts, Logged, Told
    <2>2. Settled(r)
      BY <2>1 DEF Accounts, Filed
    <2>3. \A who : Stored(r, who) \subseteq messages
      BY DEF Stored
    <2> QED  BY <2>2, <2>3 DEF Settled
  <1> QED  BY <1>1, AccountsAlways, TypeCorrect, PTL

-----------------------------------------------------------------------------
(* The current message, when the posts of the chat do not overlap. *)

OneAtATime == \A r, q \in Requests : InFlight(r) /\ InFlight(q) => r = q

(* The stamp of the question is drawn, the history is still to be read. *)
Opening == {"create_user_message", "emit_received", "emit_processing", "get_chat_history"}

(***************************************************************************)
(* Why _exclude_current_user_message finds the message: until the request  *)
(* has read its history, no later stamp than its own has been drawn.       *)
(***************************************************************************)
LatestInv ==
    /\ chat = "deleted" => messages = {}
    /\ \A row \in messages : row.at <= clock
    /\ \A r \in Requests : pc[r] \in Opening => stamp[r] = clock
    /\ CurrentMessageOnce

(* No row is written, no stamp drawn, no history read. *)
LEMMA LatestStill ==
  ASSUME LatestInv, UNCHANGED <<messages, clock, stamp, history>>,
         chat' = "deleted" => chat = "deleted",
         \A r \in Requests : pc'[r] \in Opening => pc[r] \in Opening
  PROVE  LatestInv'
  BY DEF LatestInv, CurrentMessageOnce

(* One request moves, and does not begin. *)
LEMMA LatestMoves ==
  ASSUME TypeOK, LatestInv, UNCHANGED <<chat, messages, clock, stamp, history>>,
         NEW p \in Requests, NEW l, pc' = [pc EXCEPT ![p] = l],
         l \in Opening => pc[p] \in Opening
  PROVE  LatestInv'
  <1>1. \A r \in Requests : pc'[r] \in Opening => pc[r] \in Opening
    BY DEF TypeOK
  <1> QED  BY <1>1, LatestStill

LEMMA LatestDraw ==
  ASSUME TypeOK, LatestInv, OneAtATime', NEW p \in Requests, DrawStamp(p),
         InFlight(p)', UNCHANGED <<chat, messages, history>>
  PROVE  LatestInv'
  <1>1. clock' = clock + 1 /\ clock \in Nat /\ stamp'[p] = clock'
    BY DEF DrawStamp, TypeOK
  <1>2. \A row \in messages : row.at \in Nat
    BY DEF TypeOK, MessageRows
  <1>3. \A r \in Requests : pc'[r] \in Opening => r = p
    BY DEF OneAtATime, InFlight, Opening
  <1> QED  BY <1>1, <1>2, <1>3 DEF LatestInv, CurrentMessageOnce

LEMMA LatestRow ==
  ASSUME TypeOK, LatestInv, NEW p \in Requests, NEW row, row.at = stamp[p], stamp[p] <= clock,
         messages' = messages \cup {row}, chat = "active",
         UNCHANGED <<chat, clock, stamp, history>>,
         NEW l, pc' = [pc EXCEPT ![p] = l], l \in Opening => pc[p] \in Opening
  PROVE  LatestInv'
  <1>1. \A r \in Requests : pc'[r] \in Opening => pc[r] \in Opening
    BY DEF TypeOK
  <1> QED  BY <1>1 DEF LatestInv, CurrentMessageOnce

(* The history of a request that is alone has the earlier messages only. *)
LEMMA PriorIsPrior ==
  ASSUME TypeOK, LatestInv, NEW p \in Requests, Accounts(p), pc[p] = "get_chat_history"
  PROVE  \A row \in PriorHistory(p) : row.req # p
  <1> SUFFICES ASSUME NEW row \in PriorHistory(p), row.req = p
               PROVE  FALSE
    OBVIOUS
  <1>1. row \in messages /\ ~(row.role = "user" /\ IsLast(row))
    BY DEF PriorHistory
  <1>2. chat = "active"
    BY <1>1 DEF LatestInv, Accounts, Logged, TypeOK
  <1>3. Stored(p, "user") = {UserRow(p)} /\ Stored(p, "assistant") = {}
    BY <1>2 DEF Accounts, Filed, Questioned, Unanswered, Early
  <1>4. row.role \in {"user", "assistant"}
    BY <1>1 DEF TypeOK, MessageRows
  <1>5. row = UserRow(p) /\ row.role = "user"
    BY <1>1, <1>3, <1>4 DEF Stored
  <1>6. row.at = clock
    BY <1>5 DEF UserRow, LatestInv, Opening
  <1> QED  BY <1>1, <1>5, <1>6 DEF IsLast, LatestInv

LEMMA LatestStep ==
  ASSUME TypeOK, \A r \in Requests : Accounts(r), LatestInv, OneAtATime', [Next]_vars
  PROVE  LatestInv'
  <1>1. CASE CreateChat
    BY <1>1, LatestStill DEF CreateChat, flow
  <1>2. CASE DeleteChat
    BY <1>2 DEF DeleteChat, flow, LatestInv, CurrentMessageOnce
  <1>3. CASE Crash
    <2>1. \A r \in Requests : pc'[r] \in Opening => pc[r] \in Opening
      BY <1>3 DEF Crash, Opening
    <2> QED  BY <1>3, <2>1, LatestStill DEF Crash, tables, flow
  <1>4. ASSUME NEW r \in Requests, Post(r) PROVE LatestInv'
    <2>1. UNCHANGED <<chat, messages, history>>
      BY <1>4 DEF Post, tables, flow
    <2>2. CASE DrawStamp(r) /\ Goto(r, "create_user_message")
      <3>1. InFlight(r)'
        BY <2>2 DEF Goto, InFlight, TypeOK
      <3> QED  BY <2>1, <2>2, <3>1, LatestDraw
    <2>3. CASE UNCHANGED <<clock, stamp>> /\ pc' = [pc EXCEPT ![r] = "done"]
      BY <2>1, <2>3, LatestMoves DEF Opening
    <2> QED  BY <1>4, <2>2, <2>3 DEF Post, Reply, Goto
  <1>5. ASSUME NEW r \in Requests, CompleteWithContent(r) PROVE LatestInv'
    <2>1. UNCHANGED <<chat, messages, history>>
      BY <1>5 DEF CompleteWithContent, tables, flow
    <2>2. CASE DrawStamp(r) /\ Goto(r, "create_assistant_message")
      <3>1. InFlight(r)'
        BY <2>2 DEF Goto, InFlight, TypeOK
      <3> QED  BY <2>1, <2>2, <3>1, LatestDraw
    <2>3. CASE UNCHANGED <<clock, stamp>> /\ pc' = [pc EXCEPT ![r] = "emit_failed"]
      BY <2>1, <2>3, LatestMoves DEF Opening
    <2> QED
      BY <1>5, <2>2, <2>3 DEF CompleteWithContent, NoTextualContent, OutputGuardRejects, Raise, Goto
  <1>6. ASSUME NEW r \in Requests, CreateUserMessage(r) \/ CreateAssistantMessage(r) PROVE LatestInv'
    <2>1. /\ pc[r] \in {"create_user_message", "create_assistant_message"}
          /\ UNCHANGED <<chat, clock, stamp, history>>
      BY <1>6 DEF CreateUserMessage, CreateAssistantMessage, flow
    <2>2. CASE CanWrite /\ \E row \in {UserRow(r), AssistantRow(r)} : messages' = messages \cup {row}
      <3>1. PICK row \in {UserRow(r), AssistantRow(r)} : messages' = messages \cup {row}
        BY <2>2
      <3>2. row.at = stamp[r] /\ stamp[r] <= clock /\ chat = "active"
        BY <2>2 DEF UserRow, AssistantRow, Accounts, Counted, CanWrite
      <3>3. \E l : pc' = [pc EXCEPT ![r] = l] /\ (l \in Opening => pc[r] \in Opening)
        BY <1>6, <2>1 DEF CreateUserMessage, CreateAssistantMessage, Reply, Raise, Goto, Opening
      <3> QED  BY <2>1, <3>1, <3>2, <3>3, LatestRow
    <2>3. CASE UNCHANGED messages
      <3>1. \E l : pc' = [pc EXCEPT ![r] = l] /\ (l \in Opening => pc[r] \in Opening)
        BY <1>6, <2>1 DEF CreateUserMessage, CreateAssistantMessage, Reply, Raise, Goto, Opening
      <3> QED  BY <2>1, <2>3, <3>1, LatestMoves
    <2> QED  BY <1>6, <2>2, <2>3 DEF CreateUserMessage, CreateAssistantMessage
  <1>7. ASSUME NEW r \in Requests, GetChatHistory(r) PROVE LatestInv'
    <2>1. /\ pc[r] = "get_chat_history" /\ UNCHANGED <<chat, messages, clock, stamp>>
          /\ history' \in {history, [history EXCEPT ![r] = PriorHistory(r)]}
      BY <1>7 DEF GetChatHistory, tables
    <2>2. \E l : pc' = [pc EXCEPT ![r] = l]
      BY <1>7 DEF GetChatHistory, Raise, Goto
    <2>3. \A q \in Requests : pc'[q] \in Opening => pc[q] \in Opening
      BY <2>1, <2>2 DEF TypeOK, Opening
    <2>4. CurrentMessageOnce'
      <3>1. \A row \in PriorHistory(r) : row.req # r
        BY <2>1, PriorIsPrior
      <3> QED  BY <2>1, <3>1 DEF CurrentMessageOnce, LatestInv, TypeOK
    <2> QED  BY <2>1, <2>3, <2>4 DEF LatestInv
  <1>8. ASSUME NEW r \in Requests,
               \/ EmitReceived(r) \/ EmitProcessing(r) \/ CompleteWithToolCalls(r)
               \/ ProviderFails(r) \/ ExecuteSearch(r) \/ ExecuteRead(r) \/ ToolRaises(r)
               \/ EmitToolCalled(r) \/ EmitCompleted(r) \/ EmitFailed(r) \/ Respond(r)
        PROVE  LatestInv'
    <2>1. UNCHANGED <<chat, messages, clock, stamp, history>>
      BY <1>8 DEF EmitReceived, EmitProcessing, CompleteWithToolCalls, ProviderFails, ExecuteSearch,
         ExecuteRead, ToolRaises, EmitToolCalled, EmitCompleted, EmitFailed, Respond, tables, flow
    <2>2. CASE EmitReceived(r) \/ EmitProcessing(r)
      <3>1. /\ pc[r] \in Opening
            /\ \E l : pc' = [pc EXCEPT ![r] = l]
        BY <2>2 DEF EmitReceived, EmitProcessing, Emit, Raise, Goto, Opening
      <3> QED  BY <2>1, <3>1, LatestMoves
    <2>3. CASE CompleteWithToolCalls(r) \/ ProviderFails(r) \/ ToolRaises(r) \/ EmitCompleted(r)
               \/ EmitFailed(r) \/ Respond(r)
      <3>1. \E l \in {"execute_tool_call", "emit_failed", "respond", "done"} : pc' = [pc EXCEPT ![r] = l]
        BY <2>3 DEF CompleteWithToolCalls, ProviderFails, ToolRaises, EmitCompleted, EmitFailed,
           Respond, Emit, Raise, Reply, Goto
      <3> QED  BY <2>1, <3>1, LatestMoves DEF Opening
    <2>4. CASE ExecuteSearch(r) \/ ExecuteRead(r)
      <3>1. \E l \in {"emit_tool_called", "emit_failed"} : pc' = [pc EXCEPT ![r] = l]
        BY <2>4 DEF ExecuteSearch, ExecuteRead, TakeResult, Raise, Goto
      <3> QED  BY <2>1, <3>1, LatestMoves DEF Opening
    <2>5. CASE EmitToolCalled(r)
      <3>1. \E l \in {"execute_tool_call", "chat_completion", "emit_failed"} : pc' = [pc EXCEPT ![r] = l]
        BY <2>5 DEF EmitToolCalled, Emit, Raise, Goto
      <3> QED  BY <2>1, <3>1, LatestMoves DEF Opening
    <2> QED  BY <1>8, <2>2, <2>3, <2>4, <2>5
  <1>9. CASE UNCHANGED vars
    BY <1>9, LatestStill DEF vars, tables, flow
  <1> QED
    BY <1>1, <1>2, <1>3, <1>4, <1>5, <1>6, <1>7, <1>8, <1>9 DEF Next, Work

(***************************************************************************)
(* If no two posts to the chat overlap, the history a message is sent with *)
(* has the earlier messages only, whatever fails and whenever the chat is  *)
(* deleted.  With overlapping posts it need not be so: TLC finds two (run  *)
(* current_message_twice).                                                 *)
(***************************************************************************)
THEOREM SequentialPostsSendOnce == Spec /\ []OneAtATime => []CurrentMessageOnce
  <1> DEFINE Inv == \A r \in Requests : Accounts(r)
  <1>1. Init => LatestInv
    BY DEF Init, LatestInv, Opening, CurrentMessageOnce
  <1>2. TypeOK /\ Inv /\ LatestInv /\ OneAtATime' /\ [Next]_vars => LatestInv'
    BY LatestStep
  <1>3. LatestInv => CurrentMessageOnce
    BY DEF LatestInv
  <1> QED  BY <1>1, <1>2, <1>3, AccountsAlways, TypeCorrect, PTL DEF Spec

=============================================================================
