---------------------- MODULE MessageLifecycle_proofs ----------------------
(***************************************************************************)
(* The proof that MessageService implements MessageLifecycle, for any      *)
(* number of requests, any MAX_TOOL_ROUND_TRIPS and whatever faults, and   *)
(* that whoever reads the reply of a POST finds its verdict told already.  *)
(*                                                                         *)
(* What the tables tell of a request follows where it stands (Story); the  *)
(* rest is in the invariants of MessageAnswers_proofs: who is in flight    *)
(* has no reply, and who has not stored an answer has none.                *)
(***************************************************************************)
EXTENDS MessageAnswers_proofs

Silent  == {"idle", "create_user_message", "emit_received"}
Working == {"get_chat_history", "create_assistant_message", "emit_completed"} \cup Loop

Story(r) ==
    /\ pc[r] = "done" => reply[r] # 0
    /\ pc[r] \in Silent \cup Working \cup {"emit_processing"} => error[r] = "none"
    /\ chat = "active" =>
          /\ pc[r] \in Silent => Stage(r) = "silent"
          /\ pc[r] = "emit_processing" => Stage(r) = "received"
          /\ pc[r] \in Working => Stage(r) = "processing"
          /\ pc[r] = "emit_failed" => Stage(r) \in {"silent", "received", "processing"}
          /\ pc[r] = "respond" => (Stage(r) = "completed" <=> error[r] = "none")

(* All that is known of a request in a reachable state. *)
Known(r) == Remembers(r) /\ Accounts(r) /\ Story(r)

HasAnswer(r) == Stored(r, "assistant") # {}

(* What a step of r is in the terms of MessageLifecycle. *)
TellsNothing(r) ==
    /\ Stage(r)' = Stage(r) /\ ToolsTold(r)' = ToolsTold(r)
    /\ HasAnswer(r)' = HasAnswer(r) /\ ReplyTold(r)' = ReplyTold(r)

TellsStage(r) ==
    /\ \/ Stage(r) = "silent" /\ Stage(r)' = "received"
       \/ Stage(r) = "received" /\ Stage(r)' = "processing"
    /\ ToolsTold(r)' = ToolsTold(r) /\ HasAnswer(r)' = HasAnswer(r)
    /\ ReplyTold(r) = "none" /\ ReplyTold(r)' = "none"

TellsTool(r) ==
    /\ Stage(r) = "processing" /\ Stage(r)' = "processing"
    /\ ToolsTold(r)' = ToolsTold(r) + 1
    /\ ~HasAnswer(r) /\ ~HasAnswer(r)'
    /\ ReplyTold(r) = "none" /\ ReplyTold(r)' = "none"

StoresAnswer(r) ==
    /\ Stage(r) = "processing" /\ Stage(r)' = "processing"
    /\ ToolsTold(r)' = ToolsTold(r)
    /\ ~HasAnswer(r) /\ HasAnswer(r)'
    /\ ReplyTold(r) = "none" /\ ReplyTold(r)' = "none"

TellsAnswer(r) ==
    /\ Stage(r) = "processing" /\ Stage(r)' = "completed"
    /\ ToolsTold(r)' = ToolsTold(r)
    /\ HasAnswer(r) /\ HasAnswer(r)'
    /\ ReplyTold(r) = "none" /\ ReplyTold(r)' = "none"

TellsFailure(r) ==
    /\ Stage(r) \in {"silent", "received", "processing"} /\ Stage(r)' = "failed"
    /\ ToolsTold(r)' = ToolsTold(r) /\ HasAnswer(r)' = HasAnswer(r)
    /\ ReplyTold(r) = "none" /\ ReplyTold(r)' = "none"

TellsReply(r) ==
    /\ Stage(r)' = Stage(r) /\ ToolsTold(r)' = ToolsTold(r) /\ HasAnswer(r)' = HasAnswer(r)
    /\ ReplyTold(r) = "none"
    /\ \/ ReplyTold(r)' = "created" /\ Stage(r) \in {"completed", "erased"}
       \/ ReplyTold(r)' = "error" /\ Stage(r) # "completed"

Tells(r) ==
    \/ TellsNothing(r) \/ TellsStage(r) \/ TellsTool(r) \/ StoresAnswer(r)
    \/ TellsAnswer(r) \/ TellsFailure(r) \/ TellsReply(r)

(* If nothing is told of the others, that is a step of MessageLifecycle. *)
LEMMA LifecycleMove ==
  ASSUME NEW p \in Requests, Tells(p), \A r \in Requests \ {p} : TellsNothing(r)
  PROVE  [Lifecycle!Next]_(Lifecycle!vars)
  <1> DEFINE stage    == [r \in Requests |-> Stage(r)]
             tools    == [r \in Requests |-> ToolsTold(r)]
             answered == [r \in Requests |-> Stored(r, "assistant") # {}]
             told     == [r \in Requests |-> ReplyTold(r)]
  <1>1. /\ stage' = [stage EXCEPT ![p] = Stage(p)']
        /\ tools' = [tools EXCEPT ![p] = ToolsTold(p)']
        /\ told' = [told EXCEPT ![p] = ReplyTold(p)']
        /\ stage[p] = Stage(p) /\ tools[p] = ToolsTold(p) /\ told[p] = ReplyTold(p)
    BY DEF TellsNothing
  <1>2. /\ answered' = [answered EXCEPT ![p] = HasAnswer(p)']
        /\ answered[p] = HasAnswer(p)
    BY DEF TellsNothing, HasAnswer
  <1>3. /\ Stage(p)' = Stage(p) => stage' = stage
        /\ ToolsTold(p)' = ToolsTold(p) => tools' = tools
        /\ ReplyTold(p)' = ReplyTold(p) => told' = told
    BY DEF TellsNothing
  <1>4. (HasAnswer(p)' <=> HasAnswer(p)) => answered' = answered
    BY DEF TellsNothing, HasAnswer
  <1>5. CASE TellsNothing(p)
    BY <1>3, <1>4, <1>5 DEF TellsNothing, Lifecycle!vars
  <1>6. CASE TellsStage(p)
    <2>1. Lifecycle!Receive(p) \/ Lifecycle!Process(p)
      BY <1>1, <1>3, <1>4, <1>6 DEF TellsStage, Lifecycle!Receive, Lifecycle!Process
    <2> QED  BY <2>1 DEF Lifecycle!Next
  <1>7. CASE TellsTool(p)
    <2>1. Lifecycle!CallTool(p)
      BY <1>1, <1>2, <1>3, <1>4, <1>7 DEF TellsTool, Lifecycle!CallTool
    <2> QED  BY <2>1 DEF Lifecycle!Next
  <1>8. CASE StoresAnswer(p)
    <2>1. Lifecycle!StoreAnswer(p)
      <3>1. answered' = [answered EXCEPT ![p] = TRUE] /\ ~answered[p]
        BY <1>2, <1>8 DEF StoresAnswer
      <3> QED  BY <1>1, <1>3, <1>8, <3>1 DEF StoresAnswer, Lifecycle!StoreAnswer
    <2> QED  BY <2>1 DEF Lifecycle!Next
  <1>9. CASE TellsAnswer(p)
    <2>1. Lifecycle!Complete(p)
      BY <1>1, <1>2, <1>3, <1>4, <1>9 DEF TellsAnswer, Lifecycle!Complete
    <2> QED  BY <2>1 DEF Lifecycle!Next
  <1>10. CASE TellsFailure(p)
    <2>1. Lifecycle!Fail(p)
      BY <1>1, <1>3, <1>4, <1>10 DEF TellsFailure, Lifecycle!Fail
    <2> QED  BY <2>1 DEF Lifecycle!Next
  <1>11. CASE TellsReply(p)
    <2>1. Lifecycle!Accept(p) \/ Lifecycle!Refuse(p)
      BY <1>1, <1>3, <1>4, <1>11 DEF TellsReply, Lifecycle!Accept, Lifecycle!Refuse
    <2> QED  BY <2>1 DEF Lifecycle!Next
  <1> QED  BY <1>5, <1>6, <1>7, <1>8, <1>9, <1>10, <1>11 DEF Tells

-----------------------------------------------------------------------------
(* What the last event tells, and what a request in flight was told. *)
LEMMA StageOfAppend ==
  ASSUME TypeOK, NEW p \in Requests, NEW type \in EventTypes,
         events' = Append1(events, p, type), chat' = "active"
  PROVE  Stage(p)' = IF type = "tool_called" THEN "processing" ELSE type
  <1>1. events'[p] = Append(events[p], type) /\ events[p] \in Seq(EventTypes)
    BY DEF TypeOK, Append1
  <1>2. events'[p] # <<>> /\ events'[p][Len(events'[p])] = type
    BY <1>1
  <1> QED  BY <1>2 DEF Stage

LEMMA NotTold ==
  ASSUME NEW p \in Requests, Remembers(p), pc[p] \notin {"done", "dead"}
  PROVE  ReplyTold(p) = "none" /\ reply[p] = 0
  BY DEF Remembers, ReplyTold

(* A step of p, seen from the others. *)
LEMMA OthersTellNothing ==
  ASSUME TypeOK, \A r \in Requests : Story(r), NEW p \in Requests, NEW l, Moves(p, l),
         UNCHANGED chat,
         \A r \in Requests \ {p} :
            /\ reply'[r] = reply[r] /\ events'[r] = events[r] /\ error'[r] = error[r]
            /\ Stored(r, "assistant")' = Stored(r, "assistant")
  PROVE  pc'[p] = l /\ \A r \in Requests \ {p} : Story(r)' /\ TellsNothing(r)
  <1>1. pc'[p] = l /\ \A r \in Requests \ {p} : pc'[r] = pc[r]
    BY DEF TypeOK, Moves
  <1>2. ASSUME NEW r \in Requests \ {p} PROVE Story(r)' /\ TellsNothing(r)
    <2>1. Stage(r)' = Stage(r) /\ ToolsTold(r)' = ToolsTold(r)
      BY DEF Stage, ToolsTold
    <2>2. ReplyTold(r)' = ReplyTold(r) /\ HasAnswer(r)' = HasAnswer(r)
      BY <1>1 DEF ReplyTold, HasAnswer
    <2> QED  BY <1>1, <2>1, <2>2 DEF Story, TellsNothing
  <1> QED  BY <1>1, <1>2

(* p goes on, or fails, and tells nobody. *)
LEMMA QuietMove ==
  ASSUME TypeOK, \A r \in Requests : Known(r), NEW p \in Requests, NEW l, Moves(p, l),
         UNCHANGED <<chat, events, reply>>,
         \A r \in Requests : Stored(r, "assistant")' = Stored(r, "assistant"),
         \A r \in Requests \ {p} : error'[r] = error[r],
         l # "emit_failed" => error'[p] = error[p],
         pc[p] \notin {"done", "dead"},
         \/ pc[p] \in Silent /\ l \in Silent
         \/ pc[p] \in Working /\ l \in Working
         \/ pc[p] \in Silent \cup Working \cup {"emit_processing"} /\ l = "emit_failed"
         \/ pc[p] = "emit_failed" /\ l = "respond"
  PROVE  (\A r \in Requests : Story(r)') /\ [Lifecycle!Next]_(Lifecycle!vars)
  <1>1. pc'[p] = l /\ \A r \in Requests \ {p} : Story(r)' /\ TellsNothing(r)
    BY OthersTellNothing DEF Known
  <1>2. /\ l \notin {"done", "dead", "emit_processing"}
        /\ l \in Silent => l \notin Working /\ l \notin {"emit_failed", "respond"}
        /\ l \in Working => l \notin {"emit_failed", "respond"}
        /\ pc[p] = "emit_failed" => pc[p] \notin Silent /\ pc[p] \notin Working
    BY DEF Silent, Working, Loop
  <1>3. ReplyTold(p) = "none" /\ ReplyTold(p)' = "none"
    BY <1>1, <1>2, NotTold DEF Known, ReplyTold
  <1>4. Stage(p)' = Stage(p) /\ ToolsTold(p)' = ToolsTold(p) /\ HasAnswer(p)' = HasAnswer(p)
    BY DEF Stage, ToolsTold, HasAnswer
  <1>5. Story(p)'
    <2>1. CASE l \in Silent \/ l \in Working
      BY <1>1, <1>2, <1>4, <2>1 DEF Known, Story
    <2>2. CASE l = "emit_failed"
      BY <1>1, <1>2, <1>4, <2>2 DEF Known, Story
    <2>3. CASE pc[p] = "emit_failed" /\ l = "respond"
      <3>1. error'[p] # "none" /\ (chat = "active" => Stage(p)' # "completed")
        BY <1>4, <2>3 DEF Known, Story, Remembers
      <3>2. "respond" \notin Silent /\ "respond" \notin Working
        BY DEF Silent, Working, Loop
      <3> QED  BY <1>1, <2>3, <3>1, <3>2 DEF Story
    <2> QED  BY <2>1, <2>2, <2>3
  <1> QED  BY <1>1, <1>3, <1>4, <1>5, LifecycleMove DEF Tells, TellsNothing

(* p appends an event and goes on. *)
LEMMA EventMove ==
  ASSUME TypeOK, \A r \in Requests : Known(r), NEW p \in Requests, NEW l, Moves(p, l),
         chat = "active", NEW type \in EventTypes, events' = Append1(events, p, type),
         UNCHANGED <<chat, reply, messages>>,
         \A r \in Requests \ {p} : error'[r] = error[r],
         l # "emit_failed" => error'[p] = error[p],
         \/ pc[p] = "emit_received" /\ type = "received" /\ l = "emit_processing"
         \/ pc[p] = "emit_processing" /\ type = "processing" /\ l = "get_chat_history"
         \/ /\ pc[p] = "emit_tool_called" /\ type = "tool_called"
            /\ l \in Loop \cup {"emit_failed"}
  PROVE  (\A r \in Requests : Story(r)') /\ [Lifecycle!Next]_(Lifecycle!vars)
  <1>1. /\ \A r : Stored(r, "assistant")' = Stored(r, "assistant")
        /\ \A r \in Requests \ {p} : events'[r] = events[r]
    BY ToldOfAppend DEF Stored
  <1>2. pc'[p] = l /\ \A r \in Requests \ {p} : Story(r)' /\ TellsNothing(r)
    BY <1>1, OthersTellNothing DEF Known
  <1>3. l \notin {"done", "dead"} /\ (l = "emit_failed" => l \notin Working)
        /\ l # "respond" /\ l \notin Silent /\ "emit_processing" \notin Working /\ "emit_tool_called" \in Working
        /\ (l \in Loop => l # "emit_processing")
    BY DEF Silent, Working, Loop
  <1>4. ReplyTold(p) = "none" /\ ReplyTold(p)' = "none"
    <2>1. reply[p] = 0
      BY NotTold DEF Known
    <2> QED  BY <1>2, <1>3, <2>1 DEF ReplyTold
  <1>5. /\ Stage(p)' = IF type = "tool_called" THEN "processing" ELSE type
        /\ type # "tool_called" => ToolsTold(p)' = ToolsTold(p)
        /\ type = "tool_called" => ToolsTold(p)' = ToolsTold(p) + 1
        /\ HasAnswer(p)' = HasAnswer(p)
    BY <1>1, StageOfAppend, ToldOfAppend DEF HasAnswer
  <1>6. Story(p)'
    <2>1. l # "emit_failed" => error'[p] = "none"
      BY <1>3 DEF Known, Story, Silent
    <2> QED  BY <1>2, <1>3, <1>5, <2>1 DEF Story
  <1>7. "emit_received" \in Silent
    BY DEF Silent
  <1>8. pc[p] = "emit_tool_called" => ~HasAnswer(p) /\ Stage(p) = "processing"
    <2>1. "emit_tool_called" \in Unanswered
      BY DEF Unanswered, Loop
    <2> QED  BY <1>3, <2>1 DEF Known, Accounts, Filed, Story, HasAnswer
  <1>9. /\ pc[p] = "emit_received" => Stage(p) = "silent"
        /\ pc[p] = "emit_processing" => Stage(p) = "received"
    BY <1>7 DEF Known, Story
  <1>10. Tells(p)
    <2>1. CASE type = "received" \/ type = "processing"
      BY <1>4, <1>5, <1>9, <2>1 DEF Tells, TellsStage
    <2>2. CASE type = "tool_called"
      BY <1>4, <1>5, <1>8, <2>2 DEF Tells, TellsTool
    <2> QED  BY <2>1, <2>2
  <1> QED  BY <1>2, <1>6, <1>10, LifecycleMove

(* p tells that it has failed. *)
LEMMA FailureMove ==
  ASSUME TypeOK, \A r \in Requests : Known(r), NEW p \in Requests, chat = "active",
         pc[p] = "emit_failed", Moves(p, "respond"), events' = Append1(events, p, "failed"),
         UNCHANGED <<chat, messages, error, reply>>
  PROVE  (\A r \in Requests : Story(r)') /\ [Lifecycle!Next]_(Lifecycle!vars)
  <1>1. /\ \A r : Stored(r, "assistant")' = Stored(r, "assistant")
        /\ \A r \in Requests \ {p} : events'[r] = events[r]
        /\ ToolsTold(p)' = ToolsTold(p) /\ Stage(p)' = "failed"
    BY SMTT(30), Types, ToldOfAppend, StageOfAppend DEF Stored
  <1>2. pc'[p] = "respond" /\ \A r \in Requests \ {p} : Story(r)' /\ TellsNothing(r)
    BY <1>1, OthersTellNothing DEF Known
  <1>3. Stage(p) \in {"silent", "received", "processing"} /\ error[p] # "none"
    BY DEF Known, Remembers, Story
  <1>4. ReplyTold(p) = "none" /\ ReplyTold(p)' = "none"
    BY <1>2, NotTold DEF Known, ReplyTold
  <1>5. HasAnswer(p)' = HasAnswer(p)
    BY <1>1 DEF HasAnswer
  <1>6. Story(p)'
    <2>1. "respond" \notin Silent /\ "respond" \notin Working
      BY DEF Silent, Working, Loop
    <2> QED  BY <1>1, <1>2, <1>3, <2>1 DEF Story
  <1>7. TellsFailure(p)
    BY <1>1, <1>3, <1>4, <1>5 DEF TellsFailure
  <1> QED  BY <1>2, <1>6, <1>7, LifecycleMove DEF Tells

(* p is replied to: with 201 if its answer is told, with an error if it is not. *)
LEMMA ReplyMove ==
  ASSUME TypeOK, \A r \in Requests : Known(r), NEW p \in Requests,
         NEW status \in {201, 404, 500, 502}, Reply(p, status),
         UNCHANGED <<chat, messages, events, error>>,
         \/ status # 201 /\ pc[p] \in Silent
         \/ pc[p] = "respond" /\ (status = 201 <=> error[p] = "none")
  PROVE  (\A r \in Requests : Story(r)') /\ [Lifecycle!Next]_(Lifecycle!vars)
  <1>1. /\ \A r : Stored(r, "assistant")' = Stored(r, "assistant")
        /\ \A r \in Requests \ {p} : reply'[r] = reply[r]
        /\ reply'[p] = status
    BY DEF Stored, TypeOK, Reply
  <1>2. pc'[p] = "done" /\ \A r \in Requests \ {p} : Story(r)' /\ TellsNothing(r)
    <2>1. Moves(p, "done")
      BY Labels DEF Reply, Goto, Moves
    <2> QED  BY <1>1, <2>1, OthersTellNothing DEF Known
  <1>3. Story(p)'
    <2>1. "done" \notin Silent /\ "done" \notin Working
      BY DEF Silent, Working, Loop
    <2> QED  BY <1>1, <1>2, <2>1 DEF Story
  <1>4. ReplyTold(p) = "none" /\ ReplyTold(p)' = IF status = 201 THEN "created" ELSE "error"
    <2>1. pc[p] \notin {"done", "dead"}
      BY DEF Silent
    <2> QED  BY <1>1, <1>2, <2>1, NotTold DEF Known, ReplyTold
  <1>5. Stage(p)' = Stage(p) /\ ToolsTold(p)' = ToolsTold(p) /\ HasAnswer(p)' = HasAnswer(p)
    BY <1>1 DEF Stage, ToolsTold, HasAnswer
  <1>6. /\ status = 201 => Stage(p) \in {"completed", "erased"}
        /\ status # 201 => Stage(p) # "completed"
    <2>1. CASE chat = "active"
      BY <2>1 DEF Known, Story
    <2>2. CASE chat = "deleted"
      BY <2>2 DEF Stage
    <2>3. CASE chat = "absent"
      <3>1. Stage(p) = "unborn"
        BY <2>3 DEF Stage
      <3>2. pc[p] # "respond"
        BY <2>3 DEF Known, Remembers
      <3> QED  BY <3>1, <3>2
    <2> QED  BY <2>1, <2>2, <2>3 DEF TypeOK
  <1>7. TellsReply(p)
    BY <1>4, <1>5, <1>6 DEF TellsReply
  <1> QED  BY <1>2, <1>3, <1>7, LifecycleMove DEF Tells

LEMMA StoreMove ==
  ASSUME TypeOK, \A r \in Requests : Known(r), NEW p \in Requests, chat = "active",
         pc[p] = "create_assistant_message", Moves(p, "emit_completed"),
         messages' = messages \cup {AssistantRow(p)}, UNCHANGED <<chat, events, error, reply>>
  PROVE  (\A r \in Requests : Story(r)') /\ [Lifecycle!Next]_(Lifecycle!vars)
  <1>1. AssistantRow(p).req = p /\ AssistantRow(p).role = "assistant"
    BY DEF AssistantRow
  <1>2. /\ \A r \in Requests \ {p} : Stored(r, "assistant")' = Stored(r, "assistant")
        /\ Stored(p, "assistant")' # {}
    BY <1>1, RowIsStored
  <1>3. pc'[p] = "emit_completed" /\ \A r \in Requests \ {p} : Story(r)' /\ TellsNothing(r)
    BY <1>2, OthersTellNothing DEF Known
  <1>4. "create_assistant_message" \in Working /\ "create_assistant_message" \in Unanswered
        /\ "emit_completed" \notin Silent
    BY DEF Working, Unanswered, Silent
  <1>5. Stage(p) = "processing" /\ ~HasAnswer(p) /\ error[p] = "none"
    BY <1>4 DEF Known, Accounts, Filed, Story, HasAnswer
  <1>6. Stage(p)' = Stage(p) /\ ToolsTold(p)' = ToolsTold(p) /\ HasAnswer(p)'
    BY <1>2 DEF Stage, ToolsTold, HasAnswer
  <1>7. ReplyTold(p) = "none" /\ ReplyTold(p)' = "none"
    BY <1>3, NotTold DEF Known, ReplyTold
  <1>8. Story(p)'
    BY <1>3, <1>4, <1>5, <1>6 DEF Story
  <1>9. StoresAnswer(p)
    BY <1>5, <1>6, <1>7 DEF StoresAnswer
  <1> QED  BY <1>3, <1>8, <1>9, LifecycleMove DEF Tells

LEMMA CompleteMove ==
  ASSUME TypeOK, \A r \in Requests : Known(r), NEW p \in Requests, chat = "active",
         pc[p] = "emit_completed", Moves(p, "respond"), events' = Append1(events, p, "completed"),
         UNCHANGED <<chat, messages, error, reply>>
  PROVE  (\A r \in Requests : Story(r)') /\ [Lifecycle!Next]_(Lifecycle!vars)
  <1>1. /\ \A r : Stored(r, "assistant")' = Stored(r, "assistant")
        /\ \A r \in Requests \ {p} : events'[r] = events[r]
        /\ ToolsTold(p)' = ToolsTold(p) /\ Stage(p)' = "completed"
    BY SMTT(30), Types, ToldOfAppend, StageOfAppend DEF Stored
  <1>2. pc'[p] = "respond" /\ \A r \in Requests \ {p} : Story(r)' /\ TellsNothing(r)
    BY <1>1, OthersTellNothing DEF Known
  <1>3. "emit_completed" \in Working /\ "respond" \notin Silent /\ "respond" \notin Working
    BY DEF Silent, Working, Loop
  <1>4. Stage(p) = "processing" /\ HasAnswer(p) /\ HasAnswer(p)' /\ error[p] = "none"
    BY <1>1, <1>3 DEF Known, Remembers, Story, HasAnswer
  <1>5. ReplyTold(p) = "none" /\ ReplyTold(p)' = "none"
    BY <1>2, NotTold DEF Known, ReplyTold
  <1>6. Story(p)'
    BY <1>1, <1>2, <1>3, <1>4 DEF Story
  <1>7. TellsAnswer(p)
    BY <1>1, <1>4, <1>5 DEF TellsAnswer
  <1> QED  BY <1>2, <1>6, <1>7, LifecycleMove DEF Tells

(* The steps of the chat and of the server are told of everyone at once. *)
LEMMA CreateMove ==
  ASSUME TypeOK, \A r \in Requests : Known(r), CreateChat
  PROVE  (\A r \in Requests : Story(r)') /\ [Lifecycle!Next]_(Lifecycle!vars)
  <1>1. chat = "absent" /\ chat' = "active" /\ UNCHANGED <<messages, events, pc, error, reply>>
    BY DEF CreateChat
  <1>2. \A r \in Requests : events[r] = <<>> /\ pc[r] \in {"idle", "done"}
    BY <1>1 DEF Known, Accounts, Logged
  <1>3. ASSUME NEW r \in Requests PROVE Stage(r) = "unborn" /\ Stage(r)' = "silent"
    <2>1. Stage(r) = "unborn"
      BY <1>1 DEF Stage
    <2>2. events'[r] = <<>>
      BY <1>1, <1>2
    <2>3. Stage(r)' = "silent"
      BY <1>1, <2>2 DEF Stage
    <2> QED  BY <2>1, <2>3
  <1>4. \A r \in Requests : /\ ToolsTold(r)' = ToolsTold(r)
                            /\ Stored(r, "assistant")' = Stored(r, "assistant")
                            /\ ReplyTold(r)' = ReplyTold(r)
    BY <1>1 DEF ToolsTold, Stored, ReplyTold
  <1>5. Lifecycle!Create
    BY <1>3, <1>4 DEF Lifecycle!Create
  <1>6. "done" \notin Silent /\ "done" \notin Working /\ "idle" \notin Working
    BY DEF Silent, Working, Loop
  <1>7. \A r \in Requests : Story(r)'
    BY <1>1, <1>2, <1>3, <1>6 DEF Known, Story
  <1> QED  BY <1>5, <1>7 DEF Lifecycle!Next

LEMMA DeleteMove ==
  ASSUME TypeOK, \A r \in Requests : Known(r), DeleteChat
  PROVE  (\A r \in Requests : Story(r)') /\ [Lifecycle!Next]_(Lifecycle!vars)
  <1>1. /\ chat = "active" /\ chat' = "deleted" /\ messages' = {}
        /\ events' = [r \in Requests |-> <<>>] /\ UNCHANGED <<pc, error, reply>>
    BY DEF DeleteChat
  <1>2. \A r \in Requests : Stage(r) \notin {"unborn", "erased"}
    <2> SUFFICES ASSUME NEW r \in Requests, events[r] # <<>>
                 PROVE  events[r][Len(events[r])] \in EventTypes
      BY <1>1 DEF Stage, EventTypes
    <2>1. events[r] \in Seq(EventTypes) /\ Len(events[r]) \in DOMAIN events[r]
      BY DEF TypeOK
    <2> QED  BY <2>1
  <1>3. ASSUME NEW r \in Requests PROVE Stage(r)' = "erased"
    <2>1. chat' = "deleted"
      BY <1>1
    <2> QED  BY <2>1 DEF Stage
  <1>4. ASSUME NEW r \in Requests
        PROVE  ToolsTold(r)' = 0 /\ Stored(r, "assistant")' = {} /\ ReplyTold(r)' = ReplyTold(r)
    <2>1. events'[r] = <<>>
      BY <1>1
    <2> QED  BY <1>1, <2>1, FS_EmptySet DEF ToolsTold, Stored, ReplyTold
  <1>5. Lifecycle!Erase
    BY <1>2, <1>3, <1>4 DEF Lifecycle!Erase
  <1>6. \A r \in Requests : Story(r)'
    BY <1>1 DEF Known, Story
  <1> QED  BY <1>5, <1>6 DEF Lifecycle!Next

LEMMA CrashMove ==
  ASSUME TypeOK, \A r \in Requests : Known(r), Crash
  PROVE  (\A r \in Requests : Story(r)') /\ [Lifecycle!Next]_(Lifecycle!vars)
  <1>1. UNCHANGED <<chat, messages, events, error, reply>>
    BY DEF Crash, tables
  <1>2. \A r \in Requests : pc'[r] = IF InFlight(r) THEN "dead" ELSE pc[r]
    BY DEF Crash
  <1>3. \A r \in Requests : /\ Stage(r)' = Stage(r) /\ ToolsTold(r)' = ToolsTold(r)
                            /\ Stored(r, "assistant")' = Stored(r, "assistant")
    BY <1>1 DEF Stage, ToolsTold, Stored
  <1> DEFINE dead == {r \in Requests : InFlight(r)}
  <1>4. \A r \in dead : ReplyTold(r) = "none"
    BY NotTold DEF Known, InFlight
  <1>5. ASSUME NEW r \in Requests
        PROVE  ReplyTold(r)' = IF r \in dead THEN "lost" ELSE ReplyTold(r)
    <2>1. CASE r \in dead
      <3>1. pc'[r] = "dead"
        BY <1>2, <2>1
      <3> QED  BY <2>1, <3>1 DEF ReplyTold
    <2>2. CASE r \notin dead
      <3>1. pc'[r] = pc[r] /\ reply'[r] = reply[r]
        BY <1>1, <1>2, <2>2
      <3> QED  BY <2>2, <3>1 DEF ReplyTold
    <2> QED  BY <2>1, <2>2
  <1>6. Lifecycle!Lose
    <2>1. dead \in SUBSET {r \in Requests : [q \in Requests |-> ReplyTold(q)][r] = "none"}
      BY <1>4
    <2>2. [r \in Requests |-> ReplyTold(r)]'
             = [r \in Requests |-> IF r \in dead THEN "lost" ELSE [q \in Requests |-> ReplyTold(q)][r]]
      BY <1>5
    <2> HIDE DEF dead
    <2> QED  BY <1>3, <2>1, <2>2 DEF Lifecycle!Lose
  <1>7. \A r \in Requests : Story(r)'
    <2>1. "dead" \notin Silent /\ "dead" \notin Working
      BY DEF Silent, Working, Loop
    <2> QED  BY <1>1, <1>2, <1>3, <2>1 DEF Known, Story
  <1> QED  BY <1>6, <1>7 DEF Lifecycle!Next

LEMMA LifecycleStep ==
  ASSUME TypeOK, \A r \in Requests : Known(r), [Next]_vars
  PROVE  (\A r \in Requests : Story(r)') /\ [Lifecycle!Next]_(Lifecycle!vars)
  <1> DEFINE Goal == (\A r \in Requests : Story(r)') /\ [Lifecycle!Next]_(Lifecycle!vars)
  <1>1. CASE CreateChat
    BY <1>1, CreateMove
  <1>2. CASE DeleteChat
    BY <1>2, DeleteMove
  <1>3. CASE Crash
    BY <1>3, CrashMove
  <1>4. ASSUME NEW r \in Requests, Post(r) PROVE Goal
    <2>1. pc[r] = "idle" /\ UNCHANGED <<chat, messages, events, error>>
      BY <1>4 DEF Post, tables
    <2>2. CASE Reply(r, 404) \/ Reply(r, 500)
      BY <2>1, <2>2, ReplyMove DEF Silent
    <2>3. CASE Goto(r, "create_user_message") /\ UNCHANGED reply
      <3>1. Moves(r, "create_user_message")
        BY <2>3, Labels DEF Goto, Moves
      <3>2. "idle" \in Silent /\ "create_user_message" \in Silent
        BY DEF Silent
      <3>3. \A q \in Requests : Stored(q, "assistant")' = Stored(q, "assistant")
        BY <2>1 DEF Stored
      <3> QED  BY <2>1, <2>3, <3>1, <3>2, <3>3, QuietMove
    <2> QED  BY <1>4, <2>2, <2>3 DEF Post
  <1>5. ASSUME NEW r \in Requests, CreateUserMessage(r) PROVE Goal
    <2>1. pc[r] = "create_user_message" /\ UNCHANGED <<chat, events, error>>
      BY <1>5 DEF CreateUserMessage
    <2>2. CASE messages' = messages \cup {UserRow(r)} /\ Goto(r, "emit_received") /\ UNCHANGED reply
      <3>1. Moves(r, "emit_received")
        BY <2>2, Labels DEF Goto, Moves
      <3>2. "create_user_message" \in Silent /\ "emit_received" \in Silent
        BY DEF Silent
      <3>3. UserRow(r).req = r /\ UserRow(r).role = "user"
        BY DEF UserRow
      <3>4. \A q \in Requests : Stored(q, "assistant")' = Stored(q, "assistant")
        BY <2>2, <3>3, RowIsStored
      <3> QED  BY <2>1, <2>2, <3>1, <3>2, <3>4, QuietMove
    <2>3. CASE Reply(r, 500) /\ UNCHANGED messages
      BY <2>1, <2>3, ReplyMove DEF Silent
    <2> QED  BY <1>5, <2>2, <2>3 DEF CreateUserMessage
  <1>6. ASSUME NEW r \in Requests, EmitReceived(r) \/ EmitProcessing(r) PROVE Goal
    <2>1. /\ pc[r] \in {"emit_received", "emit_processing"}
          /\ UNCHANGED <<chat, messages, reply>>
      BY <1>6 DEF EmitReceived, EmitProcessing
    <2>2. CASE /\ chat = "active" /\ pc[r] = "emit_received"
               /\ events' = Append1(events, r, "received") /\ Goto(r, "emit_processing")
               /\ UNCHANGED error
      <3>1. Moves(r, "emit_processing")
        BY <2>2, Labels DEF Goto, Moves
      <3> QED  BY <2>1, <2>2, <3>1, Types, EventMove
    <2>3. CASE /\ chat = "active" /\ pc[r] = "emit_processing"
               /\ events' = Append1(events, r, "processing") /\ Goto(r, "get_chat_history")
               /\ UNCHANGED error
      <3>1. Moves(r, "get_chat_history")
        BY <2>3, Labels DEF Goto, Moves
      <3> QED  BY <2>1, <2>3, <3>1, Types, EventMove
    <2>4. CASE Raise(r, "other") /\ UNCHANGED events
      <3>1. Moves(r, "emit_failed") /\ \A q \in Requests \ {r} : error'[q] = error[q]
        BY <2>4, Kinds, RaiseFails DEF Fails
      <3>2. pc[r] \in Silent \cup Working \cup {"emit_processing"}
        BY <2>1 DEF Silent
      <3>3. \A q \in Requests : Stored(q, "assistant")' = Stored(q, "assistant")
        BY <2>1 DEF Stored
      <3> QED  BY <2>1, <2>4, <3>1, <3>2, <3>3, QuietMove
    <2> QED  BY <1>6, <2>2, <2>3, <2>4 DEF EmitReceived, EmitProcessing, Emit, CanWrite
  <1>7. ASSUME NEW r \in Requests,
               \/ GetChatHistory(r) \/ CompleteWithContent(r) \/ CompleteWithToolCalls(r)
               \/ ProviderFails(r) \/ ExecuteSearch(r) \/ ExecuteRead(r) \/ ToolRaises(r)
        PROVE  Goal
    <2>1. /\ pc[r] \in {"get_chat_history", "chat_completion", "execute_tool_call"}
          /\ UNCHANGED <<chat, messages, events, reply>>
      BY <1>7 DEF GetChatHistory, CompleteWithContent, CompleteWithToolCalls, ProviderFails,
         ExecuteSearch, ExecuteRead, ToolRaises, tables
    <2>2. /\ \A q \in Requests \ {r} : error'[q] = error[q]
          /\ \E l \in Working \cup {"emit_failed"} :
                Moves(r, l) /\ (l # "emit_failed" => UNCHANGED error)
      <3>1. \/ /\ UNCHANGED error
               /\ \E l \in {"chat_completion", "create_assistant_message", "execute_tool_call",
                            "emit_tool_called"} : Goto(r, l)
            \/ Raise(r, "provider") \/ Raise(r, "processing") \/ Raise(r, "guardrail")
            \/ Raise(r, "other")
        BY <1>7 DEF GetChatHistory, CompleteWithContent, NoTextualContent, OutputGuardRejects,
           CompleteWithToolCalls, ProviderFails, ExecuteSearch, ExecuteRead, TakeResult, ToolRaises
      <3>2. CASE \E kind \in Errors \ {"none"} : Raise(r, kind)
        BY <3>2, RaiseFails DEF Fails
      <3>3. CASE /\ UNCHANGED error
                 /\ \E l \in {"chat_completion", "create_assistant_message", "execute_tool_call",
                              "emit_tool_called"} : Goto(r, l)
        BY <3>3, Labels DEF Goto, Moves, Working, Loop
      <3> QED  BY <3>1, <3>2, <3>3, Kinds
    <2>3. \A q \in Requests : Stored(q, "assistant")' = Stored(q, "assistant")
      BY <2>1 DEF Stored
    <2>4. pc[r] \in Working /\ pc[r] \notin {"done", "dead"}
      BY <2>1 DEF Working, Loop
    <2> QED  BY <2>1, <2>2, <2>3, <2>4, QuietMove
  <1>8. ASSUME NEW r \in Requests, EmitToolCalled(r) PROVE Goal
    <2>1. pc[r] = "emit_tool_called" /\ UNCHANGED <<chat, messages, reply>>
      BY <1>8 DEF EmitToolCalled
    <2>2. CASE chat = "active" /\ events' = Append1(events, r, "tool_called")
      <3>1. \/ /\ UNCHANGED error
               /\ \E l \in {"execute_tool_call", "chat_completion"} : Goto(r, l)
            \/ Raise(r, "processing") \/ Raise(r, "other")
        BY <1>8 DEF EmitToolCalled, Emit
      <3>2. CASE Raise(r, "processing") \/ Raise(r, "other")
        <4>1. Moves(r, "emit_failed") /\ \A q \in Requests \ {r} : error'[q] = error[q]
          BY <3>2, Kinds, RaiseFails DEF Fails
        <4> QED  BY <2>1, <2>2, <4>1, Types, EventMove
      <3>3. CASE UNCHANGED error /\ \E l \in {"execute_tool_call", "chat_completion"} : Goto(r, l)
        <4>1. \E l \in Loop : Moves(r, l)
          BY <3>3, Labels DEF Goto, Moves, Loop
        <4> QED  BY <2>1, <2>2, <3>3, <4>1, Types, EventMove
      <3> QED  BY <3>1, <3>2, <3>3
    <2>3. CASE Raise(r, "other") /\ UNCHANGED events
      <3>1. Moves(r, "emit_failed") /\ \A q \in Requests \ {r} : error'[q] = error[q]
        BY <2>3, Kinds, RaiseFails DEF Fails
      <3>2. pc[r] \in Working
        BY <2>1 DEF Working, Loop
      <3>3. \A q \in Requests : Stored(q, "assistant")' = Stored(q, "assistant")
        BY <2>1 DEF Stored
      <3> QED  BY <2>1, <2>3, <3>1, <3>2, <3>3, QuietMove
    <2> QED  BY <1>8, <2>2, <2>3 DEF EmitToolCalled, Emit, CanWrite
  <1>9. ASSUME NEW r \in Requests, CreateAssistantMessage(r) PROVE Goal
    <2>1. pc[r] = "create_assistant_message" /\ UNCHANGED <<chat, events, reply>>
      BY <1>9 DEF CreateAssistantMessage
    <2>2. CASE CanWrite /\ messages' = messages \cup {AssistantRow(r)} /\ Goto(r, "emit_completed")
               /\ UNCHANGED error
      <3>1. Moves(r, "emit_completed")
        BY <2>2, Labels DEF Goto, Moves
      <3> QED  BY <2>1, <2>2, <3>1, StoreMove DEF CanWrite
    <2>3. CASE Raise(r, "other") /\ UNCHANGED messages
      <3>1. Moves(r, "emit_failed") /\ \A q \in Requests \ {r} : error'[q] = error[q]
        BY <2>3, Kinds, RaiseFails DEF Fails
      <3>2. pc[r] \in Working
        BY <2>1 DEF Working
      <3>3. \A q \in Requests : Stored(q, "assistant")' = Stored(q, "assistant")
        BY <2>3 DEF Stored
      <3> QED  BY <2>1, <2>3, <3>1, <3>2, <3>3, QuietMove
    <2> QED  BY <1>9, <2>2, <2>3 DEF CreateAssistantMessage
  <1>10. ASSUME NEW r \in Requests, EmitCompleted(r) PROVE Goal
    <2>1. pc[r] = "emit_completed" /\ UNCHANGED <<chat, messages, reply>>
      BY <1>10 DEF EmitCompleted
    <2>2. CASE CanWrite /\ events' = Append1(events, r, "completed") /\ Goto(r, "respond")
               /\ UNCHANGED error
      <3>1. Moves(r, "respond")
        BY <2>2, Labels DEF Goto, Moves
      <3> QED  BY <2>1, <2>2, <3>1, CompleteMove DEF CanWrite
    <2>3. CASE Raise(r, "other") /\ UNCHANGED events
      <3>1. Moves(r, "emit_failed") /\ \A q \in Requests \ {r} : error'[q] = error[q]
        BY <2>3, Kinds, RaiseFails DEF Fails
      <3>2. pc[r] \in Working
        BY <2>1 DEF Working
      <3>3. \A q \in Requests : Stored(q, "assistant")' = Stored(q, "assistant")
        BY <2>1 DEF Stored
      <3> QED  BY <2>1, <2>3, <3>1, <3>2, <3>3, QuietMove
    <2> QED  BY <1>10, <2>2, <2>3 DEF EmitCompleted, Emit
  <1>11. ASSUME NEW r \in Requests, EmitFailed(r) PROVE Goal
    <2>1. /\ pc[r] = "emit_failed" /\ Moves(r, "respond")
          /\ UNCHANGED <<chat, messages, error, reply>>
      BY <1>11, Labels DEF EmitFailed, Goto, Moves
    <2>2. CASE chat = "active" /\ events' = Append1(events, r, "failed")
      BY <2>1, <2>2, FailureMove
    <2>3. CASE UNCHANGED events
      <3>1. \A q \in Requests : Stored(q, "assistant")' = Stored(q, "assistant")
        BY <2>1 DEF Stored
      <3> QED  BY <2>1, <2>3, <3>1, QuietMove
    <2> QED  BY <1>11, <2>2, <2>3 DEF EmitFailed, CanWrite
  <1>12. ASSUME NEW r \in Requests, Respond(r) PROVE Goal
    <2>1. /\ pc[r] = "respond" /\ Reply(r, Status(r))
          /\ UNCHANGED <<chat, messages, events, error>>
      BY <1>12 DEF Respond, tables
    <2>2. Status(r) \in {201, 404, 500, 502} /\ (Status(r) = 201 <=> error[r] = "none")
      BY DEF Status
    <2> QED  BY <2>1, <2>2, ReplyMove
  <1>13. CASE UNCHANGED vars
    <2>1. UNCHANGED <<chat, messages, events, pc, error, reply>>
      BY <1>13 DEF vars, tables
    <2>2. \A r \in Requests : Stage(r)' = Stage(r) /\ ToolsTold(r)' = ToolsTold(r)
                              /\ Stored(r, "assistant")' = Stored(r, "assistant")
                              /\ ReplyTold(r)' = ReplyTold(r)
      BY <2>1 DEF Stage, ToolsTold, Stored, ReplyTold
    <2>3. UNCHANGED Lifecycle!vars
      BY <2>2 DEF Lifecycle!vars
    <2>4. \A r \in Requests : Story(r)'
      BY <2>1, <2>2 DEF Known, Story
    <2> QED  BY <2>3, <2>4
  <1> QED
    BY <1>1, <1>2, <1>3, <1>4, <1>5, <1>6, <1>7, <1>8, <1>9, <1>10, <1>11, <1>12, <1>13
       DEF Next, Work

(***************************************************************************)
(* For any number of requests, any round limit, a chat that may be deleted *)
(* at any await, a database that may fail and a process that may die: the  *)
(* requests implement MessageLifecycle.  "completed" is told after the     *)
(* answer is stored, the client is told 201 only after that, and nobody is *)
(* told both that a message is completed and that it failed.               *)
(***************************************************************************)
THEOREM RequestsImplementLifecycle == Spec => LifecycleSpec
  <1> DEFINE Inv == \A r \in Requests : Known(r)
  <1>1. Init => Inv /\ Lifecycle!Init
    <2> SUFFICES ASSUME Init PROVE Inv /\ Lifecycle!Init
      OBVIOUS
    <2>1. ASSUME NEW r \in Requests
          PROVE  Stage(r) = "unborn" /\ ToolsTold(r) = 0 /\ Stored(r, "assistant") = {}
                 /\ ReplyTold(r) = "none" /\ Known(r)
      <3>1. Told(r) = {} /\ FoundIn(conversation[r]) = {} /\ conversation[r] = <<>>
            /\ events[r] = <<>> /\ messages = {} /\ chat = "absent" /\ pc[r] = "idle"
            /\ error[r] = "none" /\ reply[r] = 0
        BY DEF Init, Told, FoundIn
      <3>2. Counted(r)
        BY <3>1 DEF Init, Counted
      <3>3. Accounts(r)
        BY <3>1, <3>2 DEF Accounts, Logged, Filed
      <3>4. Remembers(r)
        BY <3>1 DEF Init, Remembers, Answers, Asked, Loop
      <3>5. Story(r)
        BY <3>1 DEF Story
      <3>6. Stage(r) = "unborn" /\ ReplyTold(r) = "none"
        BY <3>1 DEF Stage, ReplyTold
      <3>7. ToolsTold(r) = 0 /\ Stored(r, "assistant") = {}
        BY <3>1, FS_EmptySet DEF ToolsTold, Stored
      <3> QED  BY <3>3, <3>4, <3>5, <3>6, <3>7 DEF Known
    <2> QED  BY <2>1 DEF Lifecycle!Init
  <1>2. TypeOK /\ Inv /\ [Next]_vars => Inv' /\ [Lifecycle!Next]_(Lifecycle!vars)
    <2> SUFFICES ASSUME TypeOK, Inv, [Next]_vars
                 PROVE  Inv' /\ [Lifecycle!Next]_(Lifecycle!vars)
      OBVIOUS
    <2>1. (\A r \in Requests : Remembers(r)) /\ (\A r \in Requests : Accounts(r))
      BY DEF Known
    <2>2. (\A r \in Requests : Remembers(r)') /\ (\A r \in Requests : Accounts(r)')
      BY <2>1, RemembersStep, AccountsStep
    <2>3. (\A r \in Requests : Story(r)') /\ [Lifecycle!Next]_(Lifecycle!vars)
      BY LifecycleStep
    <2> QED  BY <2>2, <2>3 DEF Known
  <1> QED  BY <1>1, <1>2, TypeCorrect, PTL DEF Spec, LifecycleSpec, Lifecycle!Spec

-----------------------------------------------------------------------------
(* The verdict. *)

(***************************************************************************)
(* A request has told no verdict until it is about to reply; from then on  *)
(* it has told one, if there is a chat to tell it in.  Before there is a   *)
(* chat, all that a request can get is a 404.                              *)
(***************************************************************************)
OneVerdict(r) == \E i : Verdicts(r) = {i}

Judged(r) ==
    /\ chat = "absent" => /\ pc[r] = "idle" \/ (pc[r] = "done" /\ reply[r] = 404)
                          /\ Verdicts(r) = {}
    /\ chat = "active" /\ pc[r] \notin {"respond", "done", "dead"} => Verdicts(r) = {}
    /\ chat = "active" /\ (pc[r] = "respond" \/ (pc[r] = "done" /\ reply[r] # 404)) =>
          OneVerdict(r)

LEMMA VerdictsOfAppend ==
  ASSUME TypeOK, NEW p \in Requests, NEW type \in EventTypes,
         events' = Append1(events, p, type)
  PROVE  /\ type \notin {"completed", "failed"} => Verdicts(p)' = Verdicts(p)
         /\ type \in {"completed", "failed"} => Verdicts(p)' = Verdicts(p) \cup {Len(events[p]) + 1}
         /\ \A q \in Requests \ {p} : events'[q] = events[q]
  <1> DEFINE log == events[p]
             new == events'[p]
  <1>1. /\ log \in Seq(EventTypes) /\ new = Append(log, type)
        /\ \A q \in Requests \ {p} : events'[q] = events[q]
    BY DEF TypeOK, Append1
  <1>2. /\ Len(log) \in Nat /\ DOMAIN log = 1 .. Len(log)
        /\ DOMAIN new = DOMAIN log \cup {Len(log) + 1}
        /\ \A i \in DOMAIN log : new[i] = log[i]
        /\ new[Len(log) + 1] = type
    BY <1>1
  <1> HIDE DEF log, new
  <1>3. /\ Verdicts(p) = {i \in DOMAIN log : log[i] \in {"completed", "failed"}}
        /\ Verdicts(p)' = {i \in DOMAIN new : new[i] \in {"completed", "failed"}}
    BY DEF Verdicts, log, new
  <1>4. /\ type \notin {"completed", "failed"} => Verdicts(p)' = Verdicts(p)
        /\ type \in {"completed", "failed"} => Verdicts(p)' = Verdicts(p) \cup {Len(log) + 1}
    BY <1>2, <1>3
  <1> QED  BY <1>1, <1>4 DEF log

(* A request that a step of another leaves alone. *)
LEMMA JudgedStill ==
  ASSUME NEW r \in Requests, Judged(r), UNCHANGED chat,
         pc'[r] = pc[r], reply'[r] = reply[r], events'[r] = events[r]
  PROVE  Judged(r)'
  <1>1. Verdicts(r)' = Verdicts(r)
    BY DEF Verdicts
  <1>2. OneVerdict(r)' <=> OneVerdict(r)
    BY <1>1 DEF OneVerdict
  <1> QED  BY <1>1, <1>2 DEF Judged

(* p goes on, or fails, and tells no verdict. *)
LEMMA JudgedMove ==
  ASSUME TypeOK, \A r \in Requests : Judged(r), NEW p \in Requests, NEW l, Moves(p, l),
         l \notin {"respond", "done"}, pc[p] \notin {"respond", "done", "dead"},
         chat # "absent", UNCHANGED <<chat, reply>>,
         \/ UNCHANGED events
         \/ \E type \in EventTypes \ {"completed", "failed"} : events' = Append1(events, p, type)
  PROVE  \A r \in Requests : Judged(r)'
  <1>1. pc'[p] = l /\ \A q \in Requests \ {p} : pc'[q] = pc[q]
    BY DEF TypeOK, Moves
  <1>2. Verdicts(p)' = Verdicts(p) /\ \A q \in Requests \ {p} : events'[q] = events[q]
    <2>1. CASE UNCHANGED events
      BY <2>1 DEF Verdicts
    <2>2. CASE \E type \in EventTypes \ {"completed", "failed"} : events' = Append1(events, p, type)
      BY <2>2, VerdictsOfAppend
    <2> QED  BY <2>1, <2>2
  <1>3. \A r \in Requests \ {p} : Judged(r)'
    BY <1>1, <1>2, JudgedStill
  <1>4. Judged(p)'
    BY <1>1, <1>2 DEF Judged
  <1> QED  BY <1>3, <1>4

(* p is about to reply: it has told its verdict, or there is no chat to tell it in. *)
LEMMA JudgedTold ==
  ASSUME TypeOK, \A r \in Requests : Judged(r), NEW p \in Requests,
         pc[p] \notin {"respond", "done", "dead"}, Moves(p, "respond"),
         chat # "absent", UNCHANGED <<chat, reply>>,
         \/ chat # "active" /\ UNCHANGED events
         \/ /\ chat = "active"
            /\ events' = Append1(events, p, "completed") \/ events' = Append1(events, p, "failed")
  PROVE  \A r \in Requests : Judged(r)'
  <1>1. pc'[p] = "respond" /\ \A q \in Requests \ {p} : pc'[q] = pc[q]
    BY DEF TypeOK, Moves
  <1>2. CASE chat # "active" /\ UNCHANGED events
    <2>1. \A r \in Requests \ {p} : Judged(r)'
      BY <1>1, <1>2, JudgedStill
    <2>2. Judged(p)'
      BY <1>1, <1>2 DEF Judged
    <2> QED  BY <2>1, <2>2
  <1>3. CASE /\ chat = "active"
             /\ events' = Append1(events, p, "completed") \/ events' = Append1(events, p, "failed")
    <2>1. /\ Verdicts(p)' = Verdicts(p) \cup {Len(events[p]) + 1}
          /\ \A q \in Requests \ {p} : events'[q] = events[q]
      BY <1>3, Types, VerdictsOfAppend
    <2>2. \A r \in Requests \ {p} : Judged(r)'
      BY <1>1, <2>1, JudgedStill
    <2>3. Verdicts(p) = {}
      BY <1>3 DEF Judged
    <2>4. Verdicts(p)' = {Len(events[p]) + 1}
      BY <2>1, <2>3
    <2>5. Judged(p)'
      BY <1>1, <1>3, <2>4 DEF Judged, OneVerdict
    <2> QED  BY <2>2, <2>5
  <1> QED  BY <1>2, <1>3

(* p is replied to: by its own verdict, or where there is no chat. *)
LEMMA JudgedReply ==
  ASSUME TypeOK, \A r \in Requests : Judged(r), NEW p \in Requests,
         NEW status \in Statuses, Reply(p, status), UNCHANGED <<chat, events>>,
         chat = "active" => pc[p] = "respond", chat = "absent" => status = 404
  PROVE  \A r \in Requests : Judged(r)'
  <1>1. /\ pc'[p] = "done" /\ reply'[p] = status
        /\ \A q \in Requests \ {p} : pc'[q] = pc[q] /\ reply'[q] = reply[q]
    BY DEF TypeOK, Reply, Goto
  <1>2. \A r \in Requests \ {p} : Judged(r)'
    BY <1>1, JudgedStill
  <1>3. Verdicts(p)' = Verdicts(p)
    BY DEF Verdicts
  <1>4. Judged(p)
    OBVIOUS
  <1>5. chat = "active" => Judged(p)'
    <2> HAVE chat = "active"
    <2>1. \E i : Verdicts(p) = {i}
      BY <1>4 DEF Judged, OneVerdict
    <2>2. PICK i : Verdicts(p)' = {i}
      BY <2>1, <1>3
    <2>3. chat' = "active" /\ pc'[p] = "done"
      BY <1>1
    <2> QED  BY <2>2, <2>3 DEF Judged, OneVerdict
  <1>6. chat = "absent" => Judged(p)'
    <2> HAVE chat = "absent"
    <2>1. Verdicts(p)' = {}
      BY <1>3, <1>4 DEF Judged
    <2>2. chat' = "absent" /\ pc'[p] = "done" /\ reply'[p] = 404
      BY <1>1
    <2> QED  BY <2>1, <2>2 DEF Judged
  <1>7. chat \notin {"active", "absent"} => Judged(p)'
    BY DEF Judged
  <1> QED  BY <1>2, <1>5, <1>6, <1>7

LEMMA JudgedStep ==
  ASSUME TypeOK, "database" \notin Faults, \A r \in Requests : Judged(r), [Next]_vars
  PROVE  \A r \in Requests : Judged(r)'
  <1> DEFINE Goal == \A r \in Requests : Judged(r)'
  <1>1. CASE CreateChat
    <2>1. chat = "absent" /\ chat' = "active" /\ UNCHANGED <<pc, reply, events>>
      BY <1>1 DEF CreateChat
    <2> SUFFICES ASSUME NEW r \in Requests PROVE Judged(r)'
      OBVIOUS
    <2>2. pc[r] = "idle" \/ (pc[r] = "done" /\ reply[r] = 404)
      BY <2>1 DEF Judged
    <2>3. Verdicts(r)' = Verdicts(r)
      BY <2>1 DEF Verdicts
    <2>4. Verdicts(r) = {}
      BY <2>1 DEF Judged
    <2> QED  BY <2>1, <2>2, <2>3, <2>4 DEF Judged
  <1>2. CASE DeleteChat
    BY <1>2 DEF DeleteChat, Judged
  <1>3. CASE Crash
    <2>1. UNCHANGED <<chat, events, reply>>
      BY <1>3 DEF Crash, tables
    <2>2. \A r \in Requests : pc'[r] = pc[r] \/ (pc'[r] = "dead" /\ InFlight(r))
      BY <1>3 DEF Crash, TypeOK
    <2>3. \A r \in Requests : Verdicts(r)' = Verdicts(r)
      BY <2>1 DEF Verdicts
    <2> SUFFICES ASSUME NEW r \in Requests PROVE Judged(r)'
      OBVIOUS
    <2>4. CASE pc'[r] = pc[r]
      BY <2>1, <2>4, JudgedStill
    <2>5. CASE pc'[r] = "dead" /\ InFlight(r)
      <3>1. pc[r] \notin {"idle", "done"}
        BY <2>5 DEF InFlight
      <3> QED  BY <2>1, <2>3, <2>5, <3>1 DEF Judged
    <2> QED  BY <2>2, <2>4, <2>5
  <1>4. ASSUME NEW r \in Requests, Post(r) PROVE Goal
    <2>1. pc[r] = "idle" /\ UNCHANGED <<chat, events>>
      BY <1>4 DEF Post, tables
    <2>2. CASE chat = "active" /\ Goto(r, "create_user_message") /\ UNCHANGED reply
      <3>1. Moves(r, "create_user_message")
        BY <2>2, Labels DEF Goto, Moves
      <3> QED  BY <2>1, <2>2, <3>1, JudgedMove
    <2>3. CASE chat # "active" /\ Reply(r, 404)
      BY <2>1, <2>3, Codes, JudgedReply
    <2> QED  BY <1>4, <2>2, <2>3 DEF Post
  <1>5. ASSUME NEW r \in Requests, Work(r) PROVE pc[r] \notin {"idle", "done"} /\ chat # "absent"
    <2>1. pc[r] \notin {"idle", "done"}
      BY ZenonT(40), <1>5 DEF Work, CreateUserMessage, EmitReceived, EmitProcessing, GetChatHistory,
         CompleteWithContent, CompleteWithToolCalls, ProviderFails, ExecuteSearch, ExecuteRead,
         ToolRaises, EmitToolCalled, CreateAssistantMessage, EmitCompleted, EmitFailed, Respond
    <2> QED  BY <2>1 DEF Judged
  <1>6. ASSUME NEW r \in Requests, CreateUserMessage(r) PROVE Goal
    <2>1. UNCHANGED <<chat, events>> /\ pc[r] = "create_user_message" /\ chat # "absent"
      BY <1>5, <1>6 DEF CreateUserMessage, Work
    <2>2. CASE Goto(r, "emit_received") /\ UNCHANGED reply
      <3>1. Moves(r, "emit_received")
        BY <2>2, Labels DEF Goto, Moves
      <3> QED  BY <2>1, <2>2, <3>1, JudgedMove
    <2>3. CASE WriteFails /\ Reply(r, 500)
      BY <2>1, <2>3, Codes, JudgedReply DEF WriteFails
    <2> QED  BY <1>6, <2>2, <2>3 DEF CreateUserMessage
  <1>7. ASSUME NEW r \in Requests, EmitReceived(r) \/ EmitProcessing(r) \/ EmitToolCalled(r)
        PROVE  Goal
    <2>1. /\ UNCHANGED <<chat, reply>> /\ chat # "absent"
          /\ pc[r] \in {"emit_received", "emit_processing", "emit_tool_called"}
      BY <1>5, <1>7 DEF EmitReceived, EmitProcessing, EmitToolCalled, Work
    <2>2. \E l \in {"emit_processing", "get_chat_history", "execute_tool_call", "chat_completion",
                    "emit_failed"} : pc' = [pc EXCEPT ![r] = l]
      BY <1>7 DEF EmitReceived, EmitProcessing, EmitToolCalled, Emit, Raise, Goto
    <2>3. \E l : Moves(r, l) /\ l \notin {"respond", "done"}
      BY <2>2, Labels DEF Moves
    <2>4. \/ UNCHANGED events
          \/ \E type \in {"received", "processing", "tool_called"} : events' = Append1(events, r, type)
      BY <1>7 DEF EmitReceived, EmitProcessing, EmitToolCalled, Emit
    <2>5. {"received", "processing", "tool_called"} \subseteq EventTypes \ {"completed", "failed"}
      BY Types
    <2> QED  BY <2>1, <2>3, <2>4, <2>5, JudgedMove
  <1>8. ASSUME NEW r \in Requests,
               \/ GetChatHistory(r) \/ CompleteWithContent(r) \/ CompleteWithToolCalls(r)
               \/ ProviderFails(r) \/ ExecuteSearch(r) \/ ExecuteRead(r) \/ ToolRaises(r)
               \/ CreateAssistantMessage(r)
        PROVE  Goal
    <2>1. UNCHANGED <<chat, events, reply>>
      BY <1>8 DEF GetChatHistory, CompleteWithContent, CompleteWithToolCalls, ProviderFails,
         ExecuteSearch, ExecuteRead, ToolRaises, CreateAssistantMessage, tables
    <2>2. \E l \in {"chat_completion", "create_assistant_message", "execute_tool_call",
                    "emit_tool_called", "emit_completed", "emit_failed"} : pc' = [pc EXCEPT ![r] = l]
      BY <1>8 DEF GetChatHistory, CompleteWithContent, NoTextualContent, OutputGuardRejects,
         CompleteWithToolCalls, ProviderFails, ExecuteSearch, ExecuteRead, TakeResult,
         ToolRaises, CreateAssistantMessage, Raise, Goto
    <2>3. \E l : Moves(r, l) /\ l \notin {"respond", "done"}
      BY <2>2, Labels DEF Moves
    <2>4. pc[r] \notin {"respond", "done", "dead"} /\ chat # "absent"
      <3>1. pc[r] \in {"get_chat_history", "chat_completion", "execute_tool_call",
                       "create_assistant_message"}
        BY <1>8 DEF GetChatHistory, CompleteWithContent, CompleteWithToolCalls, ProviderFails,
           ExecuteSearch, ExecuteRead, ToolRaises, CreateAssistantMessage
      <3> QED  BY <1>5, <1>8, <3>1 DEF Work
    <2> QED  BY <2>1, <2>3, <2>4, JudgedMove
  <1>9. ASSUME NEW r \in Requests, EmitCompleted(r) PROVE Goal
    <2>1. UNCHANGED <<chat, reply>> /\ pc[r] = "emit_completed" /\ chat # "absent"
      BY <1>5, <1>9 DEF EmitCompleted, Work
    <2>2. CASE CanWrite /\ events' = Append1(events, r, "completed") /\ Goto(r, "respond")
      <3>1. Moves(r, "respond")
        BY <2>2, Labels DEF Goto, Moves
      <3> QED  BY <2>1, <2>2, <3>1, JudgedTold DEF CanWrite
    <2>3. CASE Raise(r, "other") /\ UNCHANGED events
      <3>1. Moves(r, "emit_failed")
        BY <2>3, Kinds, RaiseIsTyped
      <3> QED  BY <2>1, <2>3, <3>1, JudgedMove
    <2> QED  BY <1>9, <2>2, <2>3 DEF EmitCompleted, Emit
  <1>10. ASSUME NEW r \in Requests, EmitFailed(r) PROVE Goal
    <2>1. UNCHANGED <<chat, reply>> /\ pc[r] = "emit_failed" /\ chat # "absent"
      BY <1>5, <1>10 DEF EmitFailed, Work
    <2>2. Moves(r, "respond")
      BY <1>10, Labels DEF EmitFailed, Goto, Moves
    <2>3. \/ chat = "active" /\ events' = Append1(events, r, "failed")
          \/ chat # "active" /\ UNCHANGED events
      BY <1>10 DEF EmitFailed, CanWrite, WriteFails
    <2> QED  BY <2>1, <2>2, <2>3, JudgedTold
  <1>11. ASSUME NEW r \in Requests, Respond(r) PROVE Goal
    <2>1. /\ pc[r] = "respond" /\ Reply(r, Status(r)) /\ UNCHANGED <<chat, events>>
          /\ chat # "absent"
      BY <1>5, <1>11 DEF Respond, tables, Work
    <2>2. Status(r) \in Statuses
      BY Codes DEF Status
    <2> QED  BY <2>1, <2>2, JudgedReply
  <1>12. CASE UNCHANGED vars
    BY <1>12, JudgedStill DEF vars, tables
  <1> QED
    BY <1>1, <1>2, <1>3, <1>4, <1>6, <1>7, <1>8, <1>9, <1>10, <1>11, <1>12 DEF Next, Work

(***************************************************************************)
(* While the chat is there and the database takes every event, a POST that *)
(* is replied to, or about to be, has told exactly one verdict, however it *)
(* ended: the safety half of VerdictArrives, for any number of requests,   *)
(* rounds and calls.                                                       *)
(***************************************************************************)
THEOREM VerdictsAreTold == Spec => []VerdictIsTold
  <1> DEFINE Inv == "database" \notin Faults => \A r \in Requests : Judged(r)
  <1>1. Init => Inv
    BY DEF Init, Judged, Verdicts
  <1>2. TypeOK /\ Inv /\ [Next]_vars => Inv'
    BY JudgedStep
  <1>3. Inv => VerdictIsTold
    <2> SUFFICES ASSUME Inv, "database" \notin Faults, NEW r \in Requests,
                        chat = "active", pc[r] \in {"respond", "done"}, reply[r] # 404
                 PROVE  Cardinality(Verdicts(r)) = 1
      BY DEF VerdictIsTold
    <2>1. Judged(r) /\ (pc[r] = "respond" \/ pc[r] = "done")
      OBVIOUS
    <2>2. \E i : Verdicts(r) = {i}
      BY <2>1 DEF Judged, OneVerdict
    <2>3. PICK i : Verdicts(r) = {i}
      BY <2>2
    <2> QED  BY <2>3, FS_Singleton
  <1> QED  BY <1>1, <1>2, <1>3, TypeCorrect, PTL DEF Spec

=============================================================================
