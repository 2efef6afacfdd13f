----------------------- MODULE MessageService_proofs -----------------------
(***************************************************************************)
(* Proofs about MessageService, for any number of requests and of files,   *)
(* any MAX_TOOL_ROUND_TRIPS, any length of a completion, whatever faults:  *)
(* types, with the bound on the completions that call tools, that the      *)
(* documents in a conversation are grounded and at most two, and that a    *)
(* POST takes a bounded number of steps.                                   *)
(*                                                                         *)
(* Neither is inductive.  The bound on rounds rests on where in the loop a *)
(* request stands (LoopIsBounded), and the grounding on what its context   *)
(* says of its conversation (ContextIsOfConversation): of a refused or     *)
(* unidentified call the context knows more than the conversation does,    *)
(* but such a request calls nothing any more.                              *)
(***************************************************************************)
EXTENDS MessageService, SequenceTheorems, FiniteSetTheorems, TLAPS

(* A request that asks the model has a round left, one that executes has a call. *)
LoopIsBounded ==
    \A r \in Requests :
        /\ pc[r] \in {"idle", "create_user_message", "emit_received", "emit_processing",
                      "get_chat_history"} => rounds[r] = 0
        /\ pc[r] = "chat_completion" => rounds[r] < MaxToolRounds
        /\ pc[r] \in {"execute_tool_call", "emit_tool_called"} => todo[r] > 0

-----------------------------------------------------------------------------
(* Facts about the constants and the helpers. *)

LEMMA Constants ==
    /\ MaxToolRounds \in Nat \ {0} /\ MaxCalls \in Nat \ {0}
    /\ 0 \in 0 .. MaxToolRounds /\ 0 \in 0 .. MaxCalls
  BY MessageServiceAssumption

(* Memberships one by one: the provers are slow on long enumerations. *)
LEMMA Labels ==
    /\ "idle" \in PCs /\ "create_user_message" \in PCs
    /\ "emit_received" \in PCs /\ "emit_processing" \in PCs
    /\ "get_chat_history" \in PCs /\ "chat_completion" \in PCs
    /\ "execute_tool_call" \in PCs /\ "emit_tool_called" \in PCs
    /\ "create_assistant_message" \in PCs /\ "emit_completed" \in PCs
    /\ "emit_failed" \in PCs /\ "respond" \in PCs
    /\ "done" \in PCs /\ "dead" \in PCs
  BY DEF PCs

LEMMA Kinds ==
    /\ "none" \in Errors /\ "provider" \in Errors /\ "processing" \in Errors
    /\ "guardrail" \in Errors /\ "other" \in Errors
  BY DEF Errors

LEMMA Codes ==
    /\ 0 \in Statuses /\ 201 \in Statuses /\ 404 \in Statuses /\ 500 \in Statuses /\ 502 \in Statuses
  BY DEF Statuses

LEMMA Types ==
    /\ "received" \in EventTypes /\ "processing" \in EventTypes
    /\ "tool_called" \in EventTypes /\ "completed" \in EventTypes
    /\ "failed" \in EventTypes
  BY DEF EventTypes

LEMMA RowsAreTyped ==
  ASSUME TypeOK, NEW r \in Requests
  PROVE  UserRow(r) \in MessageRows /\ AssistantRow(r) \in MessageRows
  BY DEF TypeOK, UserRow, AssistantRow, MessageRows

LEMMA SearchedContext ==
  ASSUME NEW c \in Contexts, NEW hits \in SUBSET Files
  PROVE  /\ AfterSearch(c, hits) \in Contexts
         /\ AfterSearch(c, hits).reads = c.reads
         /\ AfterSearch(c, hits).searched
         /\ AfterSearch(c, hits).allowed = hits
  BY DEF Contexts, AfterSearch

LEMMA ReadContext ==
  ASSUME NEW c \in Contexts
  PROVE  /\ AfterRead(c) \in Contexts
         /\ AfterRead(c).reads = c.reads + 1
         /\ AfterRead(c).searched = c.searched
         /\ AfterRead(c).allowed = c.allowed
  BY DEF Contexts, AfterRead

LEMMA AppendIsTyped ==
  ASSUME NEW S, NEW log \in [Requests -> Seq(S)], NEW r \in Requests, NEW item \in S
  PROVE  Append1(log, r, item) \in [Requests -> Seq(S)]
  BY DEF Append1

(* What the shared steps leave.  Moves(r, l): r goes on to the await l. *)
Moves(r, l) == l \in PCs /\ pc' = [pc EXCEPT ![r] = l]

LEMMA DrawStampIsTyped ==
  ASSUME TypeOK, NEW r \in Requests, DrawStamp(r)
  PROVE  clock' \in Nat /\ stamp' \in [Requests -> Nat]
  BY DEF TypeOK, DrawStamp

LEMMA ReplyIsTyped ==
  ASSUME TypeOK, NEW r \in Requests, NEW status \in Statuses, Reply(r, status)
  PROVE  reply' \in [Requests -> Statuses] /\ Moves(r, "done")
  BY Labels DEF TypeOK, Reply, Goto, Moves

LEMMA RaiseIsTyped ==
  ASSUME TypeOK, NEW r \in Requests, NEW kind \in Errors, Raise(r, kind)
  PROVE  error' \in [Requests -> Errors] /\ Moves(r, "emit_failed")
  BY Labels DEF TypeOK, Raise, Goto, Moves

LEMMA EmitIsTyped ==
  ASSUME TypeOK, NEW r \in Requests, NEW type \in EventTypes, NEW label \in PCs,
         Emit(r, type, label)
  PROVE  /\ events' \in [Requests -> Seq(EventTypes)]
         /\ error' \in [Requests -> Errors]
         /\ Moves(r, label) \/ Moves(r, "emit_failed")
  <1>1. CASE events' = Append1(events, r, type) /\ Goto(r, label) /\ UNCHANGED error
    BY <1>1, AppendIsTyped DEF TypeOK, Goto, Moves
  <1>2. CASE Raise(r, "other") /\ UNCHANGED events
    BY <1>2, Kinds, RaiseIsTyped DEF TypeOK
  <1> QED  BY <1>1, <1>2 DEF Emit

LEMMA TakeResultIsTyped ==
  ASSUME TypeOK, NEW r \in Requests, NEW result \in ToolResults, TakeResult(r, result)
  PROVE  /\ conversation' \in [Requests -> Seq(ToolResults)]
         /\ calls' \in [Requests -> Nat]
         /\ used' \in [Requests -> SUBSET Files]
         /\ error' \in [Requests -> Errors]
         /\ \/ /\ conversation' = Append1(conversation, r, result)
               /\ Moves(r, "emit_tool_called")
            \/ UNCHANGED conversation /\ Moves(r, "emit_failed")
  <1>1. CASE /\ conversation' = Append1(conversation, r, result)
             /\ calls' = [calls EXCEPT ![r] = @ + 1]
             /\ used' = [used EXCEPT ![r] = @ \cup UsedFiles(result)]
             /\ Goto(r, "emit_tool_called")
             /\ UNCHANGED error
    <2>1. conversation' \in [Requests -> Seq(ToolResults)]
      BY <1>1, AppendIsTyped DEF TypeOK
    <2>2. used' \in [Requests -> SUBSET Files]
      BY <1>1 DEF TypeOK, ToolResults, UsedFiles
    <2>3. calls' \in [Requests -> Nat] /\ error' \in [Requests -> Errors]
      BY <1>1 DEF TypeOK
    <2> QED  BY <1>1, <2>1, <2>2, <2>3, Labels DEF Goto, Moves
  <1>2. CASE Raise(r, "processing") /\ UNCHANGED <<conversation, calls, used>>
    BY <1>2, Kinds, RaiseIsTyped DEF TypeOK
  <1> QED  BY <1>1, <1>2 DEF TakeResult

(* A step that takes no round and no call keeps the bound, if where it goes *)
(* to requires no more than where it came from.                             *)
LEMMA LoopKept ==
  ASSUME TypeOK, LoopIsBounded, NEW r \in Requests, NEW l, Moves(r, l),
         UNCHANGED <<rounds, todo>>,
         \/ l \in {"create_assistant_message", "emit_completed", "emit_failed", "respond", "done"}
         \/ /\ pc[r] \in {"idle", "create_user_message", "emit_received", "emit_processing",
                          "get_chat_history"}
            /\ l \in {"create_user_message", "emit_received", "emit_processing",
                      "get_chat_history", "chat_completion"}
         \/ pc[r] = "execute_tool_call" /\ l = "emit_tool_called"
  PROVE  pc' \in [Requests -> PCs] /\ LoopIsBounded'
  <1>1. pc' \in [Requests -> PCs] /\ pc'[r] = l /\ \A q \in Requests \ {r} : pc'[q] = pc[q]
    BY DEF TypeOK, Moves
  <1>2. rounds[r] = 0 => rounds[r] < MaxToolRounds
    BY Constants
  <1> QED  BY <1>1, <1>2 DEF LoopIsBounded

-----------------------------------------------------------------------------
(* Types. *)

LEMMA TypeStep ==
  ASSUME TypeOK, LoopIsBounded, [Next]_vars
  PROVE  TypeOK' /\ LoopIsBounded'
  <1> DEFINE Goal == TypeOK' /\ LoopIsBounded'
  <1>1. ASSUME CreateChat PROVE Goal
    BY <1>1 DEF CreateChat, flow, TypeOK, LoopIsBounded
  <1>2. ASSUME DeleteChat PROVE Goal
    BY <1>2 DEF DeleteChat, flow, TypeOK, LoopIsBounded
  <1>3. ASSUME Crash PROVE Goal
    <2>1. pc' \in [Requests -> PCs] /\ \A r \in Requests : pc'[r] \in {pc[r], "dead"}
      BY <1>3, Labels DEF Crash, TypeOK
    <2>2. UNCHANGED <<rounds, todo>>
      BY <1>3 DEF Crash, flow
    <2>3. LoopIsBounded'
      BY <2>1, <2>2 DEF LoopIsBounded
    <2> QED  BY <1>3, <2>1, <2>3 DEF Crash, tables, flow, TypeOK
  <1>4. ASSUME NEW r \in Requests, Post(r) PROVE Goal
    <2>1. CASE chat = "active" /\ DrawStamp(r) /\ Goto(r, "create_user_message") /\ UNCHANGED reply
      <3>1. Moves(r, "create_user_message")
        BY <2>1, Labels DEF Goto, Moves
      <3>2. pc[r] = "idle" /\ UNCHANGED <<rounds, todo>>
        BY <1>4 DEF Post, flow
      <3>3. pc' \in [Requests -> PCs] /\ LoopIsBounded'
        BY <3>1, <3>2, LoopKept
      <3> QED  BY <1>4, <2>1, <3>3, DrawStampIsTyped DEF Post, tables, flow, TypeOK
    <2>2. CASE (Reply(r, 404) \/ Reply(r, 500)) /\ UNCHANGED <<clock, stamp>>
      <3>1. reply' \in [Requests -> Statuses] /\ Moves(r, "done")
        BY <2>2, Codes, ReplyIsTyped
      <3>2. UNCHANGED <<rounds, todo>>
        BY <1>4 DEF Post, flow
      <3>3. pc' \in [Requests -> PCs] /\ LoopIsBounded'
        BY <3>1, <3>2, LoopKept
      <3> QED  BY <1>4, <2>2, <3>1, <3>3 DEF Post, tables, flow, TypeOK
    <2> QED  BY <1>4, <2>1, <2>2 DEF Post
  <1>5. ASSUME NEW r \in Requests, CreateUserMessage(r) PROVE Goal
    <2>1. /\ messages' \in SUBSET MessageRows
          /\ reply' \in [Requests -> Statuses]
          /\ Moves(r, "emit_received") \/ Moves(r, "done")
      <3>1. CASE messages' = messages \cup {UserRow(r)} /\ Goto(r, "emit_received") /\ UNCHANGED reply
        BY <3>1, RowsAreTyped, Labels DEF TypeOK, Goto, Moves
      <3>2. CASE Reply(r, 500) /\ UNCHANGED messages
        BY SMTT(30), <3>2, Codes, ReplyIsTyped DEF TypeOK
      <3> QED  BY <1>5, <3>1, <3>2 DEF CreateUserMessage
    <2>2. pc[r] = "create_user_message" /\ UNCHANGED <<rounds, todo>>
      BY <1>5 DEF CreateUserMessage, flow
    <2>3. pc' \in [Requests -> PCs] /\ LoopIsBounded'
      BY <2>1, <2>2, LoopKept
    <2> QED  BY <1>5, <2>1, <2>3 DEF CreateUserMessage, flow, TypeOK
  <1>6. ASSUME NEW r \in Requests, EmitReceived(r) PROVE Goal
    <2>1. /\ events' \in [Requests -> Seq(EventTypes)] /\ error' \in [Requests -> Errors]
          /\ Moves(r, "emit_processing") \/ Moves(r, "emit_failed")
      BY <1>6, Types, Labels, EmitIsTyped DEF EmitReceived
    <2>2. pc[r] = "emit_received" /\ UNCHANGED <<rounds, todo>>
      BY <1>6 DEF EmitReceived, flow
    <2>3. pc' \in [Requests -> PCs] /\ LoopIsBounded'
      BY <2>1, <2>2, LoopKept
    <2> QED  BY <1>6, <2>1, <2>3 DEF EmitReceived, flow, TypeOK
  <1>7. ASSUME NEW r \in Requests, EmitProcessing(r) PROVE Goal
    <2>1. /\ events' \in [Requests -> Seq(EventTypes)] /\ error' \in [Requests -> Errors]
          /\ Moves(r, "get_chat_history") \/ Moves(r, "emit_failed")
      BY <1>7, Types, Labels, EmitIsTyped DEF EmitProcessing
    <2>2. pc[r] = "emit_processing" /\ UNCHANGED <<rounds, todo>>
      BY <1>7 DEF EmitProcessing, flow
    <2>3. pc' \in [Requests -> PCs] /\ LoopIsBounded'
      BY <2>1, <2>2, LoopKept
    <2> QED  BY <1>7, <2>1, <2>3 DEF EmitProcessing, flow, TypeOK
  <1>8. ASSUME NEW r \in Requests, GetChatHistory(r) PROVE Goal
    <2>1. history' \in [Requests -> SUBSET MessageRows]
      <3>1. PriorHistory(r) \in SUBSET MessageRows
        BY DEF PriorHistory, TypeOK
      <3> QED  BY <1>8, <3>1 DEF GetChatHistory, TypeOK
    <2>2. /\ error' \in [Requests -> Errors]
          /\ Moves(r, "chat_completion") \/ Moves(r, "emit_failed")
      <3>1. CASE Raise(r, "guardrail") \/ Raise(r, "other")
        BY <3>1, Kinds, RaiseIsTyped
      <3>2. CASE Goto(r, "chat_completion") /\ UNCHANGED error
        BY <3>2, Labels DEF TypeOK, Goto, Moves
      <3> QED  BY <1>8, <3>1, <3>2 DEF GetChatHistory
    <2>3. pc[r] = "get_chat_history" /\ UNCHANGED <<rounds, todo>>
      BY <1>8 DEF GetChatHistory
    <2>4. pc' \in [Requests -> PCs] /\ LoopIsBounded'
      BY <2>2, <2>3, LoopKept
    <2> QED  BY <1>8, <2>1, <2>2, <2>4 DEF GetChatHistory, tables, TypeOK
  <1>9. ASSUME NEW r \in Requests, CompleteWithContent(r) PROVE Goal
    <2>1. /\ clock' \in Nat /\ stamp' \in [Requests -> Nat]
          /\ error' \in [Requests -> Errors]
          /\ Moves(r, "create_assistant_message") \/ Moves(r, "emit_failed")
      <3>1. CASE DrawStamp(r) /\ Goto(r, "create_assistant_message") /\ UNCHANGED error
        BY <3>1, Labels, DrawStampIsTyped DEF TypeOK, Goto, Moves
      <3>2. CASE (Raise(r, "processing") \/ Raise(r, "guardrail")) /\ UNCHANGED <<clock, stamp>>
        BY <3>2, Kinds, RaiseIsTyped DEF TypeOK
      <3> QED  BY <1>9, <3>1, <3>2 DEF CompleteWithContent, NoTextualContent, OutputGuardRejects
    <2>2. UNCHANGED <<rounds, todo>>
      BY <1>9 DEF CompleteWithContent, flow
    <2>3. pc' \in [Requests -> PCs] /\ LoopIsBounded'
      BY <2>1, <2>2, LoopKept
    <2> QED  BY <1>9, <2>1, <2>3 DEF CompleteWithContent, tables, flow, TypeOK
  <1>10. ASSUME NEW r \in Requests, CompleteWithToolCalls(r) PROVE Goal
    <2>1. rounds' \in [Requests -> 0 .. MaxToolRounds]
      <3>1. rounds[r] < MaxToolRounds /\ rounds' = [rounds EXCEPT ![r] = @ + 1]
        BY <1>10 DEF CompleteWithToolCalls, LoopIsBounded
      <3>2. rounds[r] + 1 \in 0 .. MaxToolRounds
        BY <3>1, Constants DEF TypeOK
      <3> QED  BY <3>1, <3>2 DEF TypeOK
    <2>2. PICK n \in 1 .. MaxCalls : todo' = [todo EXCEPT ![r] = n]
      BY <1>10 DEF CompleteWithToolCalls
    <2>3. todo' \in [Requests -> 0 .. MaxCalls] /\ todo'[r] > 0
      BY <2>2, Constants DEF TypeOK
    <2>4. pc' \in [Requests -> PCs] /\ pc'[r] = "execute_tool_call"
      BY <1>10, Labels DEF CompleteWithToolCalls, Goto, TypeOK
    <2>5. \A q \in Requests \ {r} : pc'[q] = pc[q] /\ rounds'[q] = rounds[q] /\ todo'[q] = todo[q]
      BY <1>10, <2>2 DEF CompleteWithToolCalls, Goto, TypeOK
    <2>6. LoopIsBounded'
      BY <2>3, <2>4, <2>5 DEF LoopIsBounded
    <2> QED  BY <1>10, <2>1, <2>3, <2>4, <2>6 DEF CompleteWithToolCalls, tables, TypeOK
  <1>11. ASSUME NEW r \in Requests, ProviderFails(r) PROVE Goal
    <2>1. error' \in [Requests -> Errors] /\ Moves(r, "emit_failed")
      BY <1>11, Kinds, RaiseIsTyped DEF ProviderFails
    <2>2. UNCHANGED <<rounds, todo>>
      BY <1>11 DEF ProviderFails, flow
    <2>3. pc' \in [Requests -> PCs] /\ LoopIsBounded'
      BY <2>1, <2>2, LoopKept
    <2> QED  BY <1>11, <2>1, <2>3 DEF ProviderFails, tables, flow, TypeOK
  <1>12. ASSUME NEW r \in Requests, ExecuteSearch(r) PROVE Goal
    <2>1. PICK hits \in SUBSET Files :
             /\ ctx' = [ctx EXCEPT ![r] = AfterSearch(@, hits)]
             /\ TakeResult(r, [tool |-> "search", files |-> hits, found |-> TRUE])
      BY <1>12 DEF ExecuteSearch
    <2> DEFINE result == [tool |-> "search", files |-> hits, found |-> TRUE]
    <2>2. result \in ToolResults
      BY DEF ToolResults
    <2>3. ctx' \in [Requests -> Contexts]
      BY <2>1, SearchedContext DEF TypeOK
    <2>4. TakeResult(r, result)
      BY <2>1
    <2> HIDE DEF result
    <2>5. /\ conversation' \in [Requests -> Seq(ToolResults)] /\ calls' \in [Requests -> Nat]
          /\ used' \in [Requests -> SUBSET Files] /\ error' \in [Requests -> Errors]
          /\ Moves(r, "emit_tool_called") \/ Moves(r, "emit_failed")
      BY <2>2, <2>4, TakeResultIsTyped
    <2>6. pc[r] = "execute_tool_call" /\ UNCHANGED <<rounds, todo>>
      BY <1>12 DEF ExecuteSearch
    <2>7. pc' \in [Requests -> PCs] /\ LoopIsBounded'
      BY <2>5, <2>6, LoopKept
    <2> QED  BY <1>12, <2>3, <2>5, <2>7 DEF ExecuteSearch, tables, TypeOK
  <1>13. ASSUME NEW r \in Requests, ExecuteRead(r) PROVE Goal
    <2>1. PICK file \in Files, found \in BOOLEAN :
             /\ ctx' = [ctx EXCEPT ![r] = AfterRead(@)]
             /\ TakeResult(r, [tool |-> "read", files |-> {file}, found |-> found])
      BY <1>13 DEF ExecuteRead
    <2> DEFINE result == [tool |-> "read", files |-> {file}, found |-> found]
    <2>2. result \in ToolResults
      BY DEF ToolResults
    <2>3. ctx' \in [Requests -> Contexts]
      BY <2>1, ReadContext DEF TypeOK
    <2>4. TakeResult(r, result)
      BY <2>1
    <2> HIDE DEF result
    <2>5. /\ conversation' \in [Requests -> Seq(ToolResults)] /\ calls' \in [Requests -> Nat]
          /\ used' \in [Requests -> SUBSET Files] /\ error' \in [Requests -> Errors]
          /\ Moves(r, "emit_tool_called") \/ Moves(r, "emit_failed")
      BY <2>2, <2>4, TakeResultIsTyped
    <2>6. pc[r] = "execute_tool_call" /\ UNCHANGED <<rounds, todo>>
      BY <1>13 DEF ExecuteRead
    <2>7. pc' \in [Requests -> PCs] /\ LoopIsBounded'
      BY <2>5, <2>6, LoopKept
    <2> QED  BY <1>13, <2>3, <2>5, <2>7 DEF ExecuteRead, tables, TypeOK
  <1>14. ASSUME NEW r \in Requests, ToolRaises(r) PROVE Goal
    <2>1. error' \in [Requests -> Errors] /\ Moves(r, "emit_failed")
      BY <1>14, Kinds, RaiseIsTyped DEF ToolRaises
    <2>2. UNCHANGED <<rounds, todo>>
      BY <1>14 DEF ToolRaises, flow
    <2>3. pc' \in [Requests -> PCs] /\ LoopIsBounded'
      BY <2>1, <2>2, LoopKept
    <2> QED  BY <1>14, <2>1, <2>3 DEF ToolRaises, tables, flow, TypeOK
  <1>15. ASSUME NEW r \in Requests, EmitToolCalled(r) PROVE Goal
    <2>1. todo[r] > 0 /\ todo' = [todo EXCEPT ![r] = @ - 1] /\ UNCHANGED rounds
      BY <1>15 DEF EmitToolCalled, LoopIsBounded
    <2>2. todo' \in [Requests -> 0 .. MaxCalls] /\ todo'[r] = todo[r] - 1
      <3>1. todo[r] - 1 \in 0 .. MaxCalls
        BY <2>1, Constants DEF TypeOK
      <3> QED  BY <2>1, <3>1 DEF TypeOK
    <2>3. /\ events' \in [Requests -> Seq(EventTypes)]
          /\ error' \in [Requests -> Errors]
          /\ \/ Moves(r, "emit_failed")
             \/ todo[r] > 1 /\ Moves(r, "execute_tool_call")
             \/ rounds[r] # MaxToolRounds /\ Moves(r, "chat_completion")
      <3>1. CASE todo[r] = 1 /\ rounds[r] = MaxToolRounds
        <4>1. \/ events' = Append1(events, r, "tool_called") /\ Raise(r, "processing")
              \/ UNCHANGED events /\ Raise(r, "other")
          BY <1>15, <3>1 DEF EmitToolCalled
        <4>2. events' \in [Requests -> Seq(EventTypes)]
          <5>1. events \in [Requests -> Seq(EventTypes)]
            BY DEF TypeOK
          <5> QED  BY <4>1, <5>1, Types, AppendIsTyped
        <4> QED  BY <4>1, <4>2, Kinds, RaiseIsTyped
      <3>2. CASE ~(todo[r] = 1 /\ rounds[r] = MaxToolRounds)
        <4> DEFINE label == IF todo[r] > 1 THEN "execute_tool_call" ELSE "chat_completion"
        <4>1. Emit(r, "tool_called", label)
          BY <1>15, <3>2 DEF EmitToolCalled
        <4>2. \/ todo[r] > 1 /\ label = "execute_tool_call"
              \/ rounds[r] # MaxToolRounds /\ label = "chat_completion"
          BY <2>1, <3>2 DEF TypeOK
        <4>3. label \in PCs
          BY Labels
        <4> HIDE DEF label
        <4>4. /\ events' \in [Requests -> Seq(EventTypes)] /\ error' \in [Requests -> Errors]
              /\ Moves(r, label) \/ Moves(r, "emit_failed")
          BY <4>1, <4>3, Types, EmitIsTyped
        <4> QED  BY <4>2, <4>4
      <3> QED  BY <3>1, <3>2
    <2>4. pc' \in [Requests -> PCs]
      BY <2>3 DEF Moves, TypeOK
    <2>5. LoopIsBounded'
      <3>1. \A q \in Requests \ {r} : pc'[q] = pc[q] /\ todo'[q] = todo[q]
        BY <2>1, <2>3 DEF Moves, TypeOK
      <3>2. \/ pc'[r] = "emit_failed"
            \/ pc'[r] = "execute_tool_call" /\ todo'[r] > 0
            \/ pc'[r] = "chat_completion" /\ rounds[r] < MaxToolRounds
        BY <2>2, <2>3, Constants DEF Moves, TypeOK
      <3> QED  BY <2>1, <3>1, <3>2 DEF LoopIsBounded
    <2> QED  BY <1>15, <2>2, <2>3, <2>4, <2>5 DEF EmitToolCalled, TypeOK
  <1>16. ASSUME NEW r \in Requests, CreateAssistantMessage(r) PROVE Goal
    <2>1. /\ messages' \in SUBSET MessageRows
          /\ error' \in [Requests -> Errors]
          /\ Moves(r, "emit_completed") \/ Moves(r, "emit_failed")
      <3>1. CASE messages' = messages \cup {AssistantRow(r)} /\ Goto(r, "emit_completed") /\ UNCHANGED error
        BY <3>1, RowsAreTyped, Labels DEF TypeOK, Goto, Moves
      <3>2. CASE Raise(r, "other") /\ UNCHANGED messages
        BY <3>2, Kinds, RaiseIsTyped DEF TypeOK
      <3> QED  BY <1>16, <3>1, <3>2 DEF CreateAssistantMessage
    <2>2. UNCHANGED <<rounds, todo>>
      BY <1>16 DEF CreateAssistantMessage, flow
    <2>3. pc' \in [Requests -> PCs] /\ LoopIsBounded'
      BY <2>1, <2>2, LoopKept
    <2> QED  BY <1>16, <2>1, <2>3 DEF CreateAssistantMessage, flow, TypeOK
  <1>17. ASSUME NEW r \in Requests, EmitCompleted(r) PROVE Goal
    <2>1. /\ events' \in [Requests -> Seq(EventTypes)] /\ error' \in [Requests -> Errors]
          /\ Moves(r, "respond") \/ Moves(r, "emit_failed")
      BY <1>17, Types, Labels, EmitIsTyped DEF EmitCompleted
    <2>2. UNCHANGED <<rounds, todo>>
      BY <1>17 DEF EmitCompleted, flow
    <2>3. pc' \in [Requests -> PCs] /\ LoopIsBounded'
      BY <2>1, <2>2, LoopKept
    <2> QED  BY <1>17, <2>1, <2>3 DEF EmitCompleted, flow, TypeOK
  <1>18. ASSUME NEW r \in Requests, EmitFailed(r) PROVE Goal
    <2>1. events' \in [Requests -> Seq(EventTypes)]
      <3>1. events' = Append1(events, r, "failed") \/ events' = events
        BY <1>18 DEF EmitFailed
      <3>2. events \in [Requests -> Seq(EventTypes)]
        BY DEF TypeOK
      <3> QED  BY <3>1, <3>2, Types, AppendIsTyped
    <2>2. Moves(r, "respond")
      BY <1>18, Labels DEF EmitFailed, Goto, Moves
    <2>3. UNCHANGED <<rounds, todo>>
      BY <1>18 DEF EmitFailed, flow
    <2>4. pc' \in [Requests -> PCs] /\ LoopIsBounded'
      BY <2>2, <2>3, LoopKept
    <2> QED  BY <1>18, <2>1, <2>2, <2>4 DEF EmitFailed, flow, TypeOK
  <1>19. ASSUME NEW r \in Requests, Respond(r) PROVE Goal
    <2>1. reply' \in [Requests -> Statuses] /\ Moves(r, "done")
      <3>1. Status(r) \in Statuses
        BY Codes DEF Status
      <3> QED  BY <1>19, <3>1, ReplyIsTyped DEF Respond
    <2>2. UNCHANGED <<rounds, todo>>
      BY <1>19 DEF Respond, flow
    <2>3. pc' \in [Requests -> PCs] /\ LoopIsBounded'
      BY <2>1, <2>2, LoopKept
    <2> QED  BY <1>19, <2>1, <2>3 DEF Respond, tables, flow, TypeOK
  <1>20. CASE UNCHANGED vars
    BY <1>20 DEF vars, tables, flow, TypeOK, LoopIsBounded
  <1> QED
    BY <1>1, <1>2, <1>3, <1>4, <1>5, <1>6, <1>7, <1>8, <1>9, <1>10, <1>11, <1>12, <1>13, <1>14,
       <1>15, <1>16, <1>17, <1>18, <1>19, <1>20 DEF Next, Work

(***************************************************************************)
(* For any number of requests, any round limit and whatever the model      *)
(* answers, the state keeps its type; in particular a request never takes  *)
(* more completions with tool calls than MAX_TOOL_ROUND_TRIPS.             *)
(***************************************************************************)
THEOREM TypeCorrect == Spec => []TypeOK
  <1>1. ASSUME Init PROVE TypeOK /\ LoopIsBounded
    <2>1. FreshContext \in Contexts
      BY DEF FreshContext, Contexts
    <2>2. TypeOK
      BY <1>1, <2>1, Constants, Labels, Kinds, Codes DEF Init, TypeOK
    <2> QED  BY <1>1, <2>2 DEF Init, LoopIsBounded
  <1>2. TypeOK /\ LoopIsBounded /\ [Next]_vars => TypeOK' /\ LoopIsBounded'
    BY TypeStep
  <1> QED  BY <1>1, <1>2, PTL DEF Spec

-----------------------------------------------------------------------------
(* The bound on a POST. *)

(* StepsLeft as a function of the await, the rounds' share and the calls left. *)
StepsAt(l, w, n) ==
    CASE l = "idle"                     -> w + 10
      [] l = "create_user_message"      -> w + 9
      [] l = "emit_received"            -> w + 8
      [] l = "emit_processing"          -> w + 7
      [] l = "get_chat_history"         -> w + 6
      [] l = "chat_completion"          -> w + 5
      [] l = "execute_tool_call"        -> w + 5 + 2 * n
      [] l = "emit_tool_called"         -> w + 4 + 2 * n
      [] l = "create_assistant_message" -> 4
      [] l = "emit_completed"           -> 3
      [] l = "emit_failed"              -> 2
      [] l = "respond"                  -> 1
      [] l \in {"done", "dead"}         -> 0

RoundsShare(r) == (MaxToolRounds - rounds[r]) * (2 * MaxCalls + 1)

LEMMA StepsLeftIsStepsAt ==
  ASSUME NEW r \in Requests
  PROVE  StepsLeft(r) = StepsAt(pc[r], RoundsShare(r), todo[r])
  BY DEF StepsLeft, StepsAt, RoundsShare

LEMMA StepsAtIs ==
  ASSUME NEW w, NEW n
  PROVE  /\ StepsAt("idle", w, n) = w + 10
         /\ StepsAt("create_user_message", w, n) = w + 9
         /\ StepsAt("emit_received", w, n) = w + 8
         /\ StepsAt("emit_processing", w, n) = w + 7
         /\ StepsAt("get_chat_history", w, n) = w + 6
         /\ StepsAt("chat_completion", w, n) = w + 5
         /\ StepsAt("execute_tool_call", w, n) = w + 5 + 2 * n
         /\ StepsAt("emit_tool_called", w, n) = w + 4 + 2 * n
         /\ StepsAt("create_assistant_message", w, n) = 4
         /\ StepsAt("emit_completed", w, n) = 3
         /\ StepsAt("emit_failed", w, n) = 2
         /\ StepsAt("respond", w, n) = 1
         /\ StepsAt("done", w, n) = 0
         /\ StepsAt("dead", w, n) = 0
  BY DEF StepsAt

LEMMA StepsAtIsNat ==
  ASSUME NEW l \in PCs, NEW w \in Nat, NEW n \in Nat
  PROVE  /\ StepsAt(l, w, n) \in Nat
         /\ l \notin {"done", "dead"} => StepsAt(l, w, n) > 0
         /\ l \notin {"emit_failed", "respond", "done", "dead"} => StepsAt(l, w, n) > 2
  BY StepsAtIs DEF PCs

(* A round more takes its share of the steps. *)
LEMMA ShareOfRound ==
  ASSUME NEW k \in Nat, NEW m \in Nat, NEW n \in Nat, n <= m
  PROVE  /\ (m - n) * k \in Nat
         /\ n < m => (m - n) * k = (m - (n + 1)) * k + k
  <1>1. \A a \in Nat : a * k \in Nat
    OBVIOUS
  <1>2. \A a \in Nat : (a + 1) * k = a * k + k
    OBVIOUS
  <1>3. m - n \in Nat
    OBVIOUS
  <1>4. ASSUME n < m PROVE m - (n + 1) \in Nat /\ m - n = (m - (n + 1)) + 1
    BY <1>4
  <1> QED  BY <1>1, <1>2, <1>3, <1>4

LEMMA RoundsShareIs ==
  ASSUME TypeOK, NEW r \in Requests
  PROVE  /\ RoundsShare(r) \in Nat
         /\ rounds[r] < MaxToolRounds =>
               RoundsShare(r) =
                  (MaxToolRounds - (rounds[r] + 1)) * (2 * MaxCalls + 1) + 2 * MaxCalls + 1
  <1>1. MaxToolRounds \in Nat /\ rounds[r] \in Nat /\ rounds[r] <= MaxToolRounds /\ 2 * MaxCalls + 1 \in Nat
    BY Constants DEF TypeOK
  <1> DEFINE k == 2 * MaxCalls + 1
  <1>2. /\ RoundsShare(r) = (MaxToolRounds - rounds[r]) * k /\ RoundsShare(r) \in Nat
        /\ rounds[r] < MaxToolRounds =>
              RoundsShare(r) = (MaxToolRounds - (rounds[r] + 1)) * k + k
    <2>1. k \in Nat
      BY <1>1
    <2> HIDE DEF k
    <2>2. /\ (MaxToolRounds - rounds[r]) * k \in Nat
          /\ rounds[r] < MaxToolRounds =>
                (MaxToolRounds - rounds[r]) * k = (MaxToolRounds - (rounds[r] + 1)) * k + k
      BY <1>1, <2>1, ShareOfRound
    <2> QED  BY <2>2 DEF RoundsShare, k
  <1>3. rounds[r] < MaxToolRounds => (MaxToolRounds - (rounds[r] + 1)) * k \in Nat
    <2>1. k \in Nat /\ (rounds[r] < MaxToolRounds => MaxToolRounds - (rounds[r] + 1) \in Nat)
      BY <1>1
    <2> HIDE DEF k
    <2> QED  BY <2>1
  <1>4. ASSUME NEW p \in Nat PROVE p + k = p + 2 * MaxCalls + 1
    BY Constants
  <1> HIDE DEF k
  <1>5. rounds[r] < MaxToolRounds =>
           RoundsShare(r) = (MaxToolRounds - (rounds[r] + 1)) * k + 2 * MaxCalls + 1
    BY <1>2, <1>3, <1>4
  <1> QED  BY <1>2, <1>5 DEF k

(* A request that leaves its rounds and calls alone, and goes on or gives up. *)
LEMMA StepShrinks ==
  ASSUME TypeOK, NEW r \in Requests, NEW l, Moves(r, l), UNCHANGED <<rounds, todo>>,
         \/ l = "emit_failed" /\ pc[r] \notin {"emit_failed", "respond", "done", "dead"}
         \/ l \in {"done", "dead"} /\ pc[r] \notin {"done", "dead"}
         \/ pc[r] = "idle" /\ l = "create_user_message"
         \/ pc[r] = "create_user_message" /\ l = "emit_received"
         \/ pc[r] = "emit_received" /\ l = "emit_processing"
         \/ pc[r] = "emit_processing" /\ l = "get_chat_history"
         \/ pc[r] = "get_chat_history" /\ l = "chat_completion"
         \/ pc[r] = "chat_completion" /\ l = "create_assistant_message"
         \/ pc[r] = "execute_tool_call" /\ l = "emit_tool_called"
         \/ pc[r] = "create_assistant_message" /\ l = "emit_completed"
         \/ pc[r] \in {"emit_completed", "emit_failed"} /\ l = "respond"
  PROVE  StepsLeft(r)' \in Nat /\ StepsLeft(r)' < StepsLeft(r) /\ pc'[r] # pc[r]
  <1> DEFINE w == RoundsShare(r)
             n == todo[r]
  <1>1. w \in Nat /\ n \in Nat /\ pc[r] \in PCs /\ l \in PCs /\ pc'[r] = l
    BY RoundsShareIs DEF TypeOK, Moves
  <1>2. StepsLeft(r) = StepsAt(pc[r], w, n) /\ StepsLeft(r)' = StepsAt(l, w, n)
    BY <1>1, StepsLeftIsStepsAt DEF StepsLeft, StepsAt, RoundsShare
  <1> HIDE DEF w, n
  <1>3. /\ StepsAt(l, w, n) \in Nat /\ StepsAt(pc[r], w, n) \in Nat
        /\ pc[r] \notin {"done", "dead"} => StepsAt(pc[r], w, n) > 0
        /\ pc[r] \notin {"emit_failed", "respond", "done", "dead"} => StepsAt(pc[r], w, n) > 2
    BY <1>1, StepsAtIsNat
  <1>4. StepsAt(l, w, n) < StepsAt(pc[r], w, n)
    <2>1. CASE l = "emit_failed" /\ pc[r] \notin {"emit_failed", "respond", "done", "dead"}
      BY <1>3, <2>1, StepsAtIs
    <2>2. CASE l \in {"done", "dead"} /\ pc[r] \notin {"done", "dead"}
      BY <1>3, <2>2, StepsAtIs
    <2>3. CASE \/ pc[r] = "idle" /\ l = "create_user_message"
               \/ pc[r] = "create_user_message" /\ l = "emit_received"
               \/ pc[r] = "emit_received" /\ l = "emit_processing"
               \/ pc[r] = "emit_processing" /\ l = "get_chat_history"
               \/ pc[r] = "get_chat_history" /\ l = "chat_completion"
      BY <1>1, <2>3, StepsAtIs
    <2>4. CASE \/ pc[r] = "chat_completion" /\ l = "create_assistant_message"
               \/ pc[r] = "execute_tool_call" /\ l = "emit_tool_called"
               \/ pc[r] = "create_assistant_message" /\ l = "emit_completed"
               \/ pc[r] \in {"emit_completed", "emit_failed"} /\ l = "respond"
      BY <1>1, <2>4, StepsAtIs
    <2> QED  BY <2>1, <2>2, <2>3, <2>4
  <1>5. l # pc[r]
    BY <1>3, <1>4
  <1> QED  BY <1>1, <1>2, <1>3, <1>4, <1>5

(* The two steps that take a round or a call. *)
LEMMA RoundShrinks ==
  ASSUME TypeOK, LoopIsBounded, NEW r \in Requests, CompleteWithToolCalls(r)
  PROVE  StepsLeft(r)' \in Nat /\ StepsLeft(r)' < StepsLeft(r) /\ pc'[r] # pc[r]
  <1>1. PICK n \in 1 .. MaxCalls : todo' = [todo EXCEPT ![r] = n]
    BY DEF CompleteWithToolCalls
  <1>2. /\ pc[r] = "chat_completion" /\ rounds[r] < MaxToolRounds
        /\ pc'[r] = "execute_tool_call" /\ rounds'[r] = rounds[r] + 1 /\ todo'[r] = n
    BY <1>1, Labels DEF CompleteWithToolCalls, Goto, LoopIsBounded, TypeOK
  <1> DEFINE w == (MaxToolRounds - (rounds[r] + 1)) * (2 * MaxCalls + 1)
  <1>3. RoundsShare(r) = w + 2 * MaxCalls + 1 /\ w \in Nat
    <2>1. MaxToolRounds - (rounds[r] + 1) \in Nat /\ 2 * MaxCalls + 1 \in Nat
      BY <1>2, Constants DEF TypeOK
    <2>2. \A a, b \in Nat : a * b \in Nat
      OBVIOUS
    <2> QED  BY <1>2, <2>1, <2>2, RoundsShareIs
  <1>4. /\ StepsLeft(r) = StepsAt("chat_completion", RoundsShare(r), todo[r])
        /\ StepsLeft(r)' = StepsAt("execute_tool_call", w, n)
    BY <1>2 DEF StepsLeft, StepsAt, RoundsShare
  <1> HIDE DEF w
  <1>5. n \in Nat /\ n <= MaxCalls /\ MaxCalls \in Nat
    BY Constants
  <1> QED  BY <1>2, <1>3, <1>4, <1>5, StepsAtIs

LEMMA CallShrinks ==
  ASSUME TypeOK, LoopIsBounded, NEW r \in Requests, EmitToolCalled(r)
  PROVE  StepsLeft(r)' \in Nat /\ StepsLeft(r)' < StepsLeft(r) /\ pc'[r] # pc[r]
  <1> DEFINE w == RoundsShare(r)
             n == todo[r]
  <1>1. /\ pc[r] = "emit_tool_called" /\ n \in Nat /\ n > 0
        /\ todo'[r] = n - 1 /\ rounds'[r] = rounds[r] /\ w \in Nat
    BY RoundsShareIs DEF EmitToolCalled, LoopIsBounded, TypeOK
  <1>2. \/ pc'[r] = "emit_failed"
        \/ pc'[r] = "execute_tool_call"
        \/ pc'[r] = "chat_completion"
    BY DEF EmitToolCalled, Emit, Raise, Goto, TypeOK
  <1>3. /\ StepsLeft(r) = StepsAt("emit_tool_called", w, n)
        /\ StepsLeft(r)' = StepsAt(pc'[r], w, n - 1)
    BY <1>1 DEF StepsLeft, StepsAt, RoundsShare
  <1> HIDE DEF w, n
  <1> QED  BY <1>1, <1>2, <1>3, StepsAtIs

LEMMA NobodyElseMoves ==
  ASSUME TypeOK, NEW p \in Requests, Post(p) \/ Work(p), NEW r \in Requests \ {p}
  PROVE  pc'[r] = pc[r] /\ rounds'[r] = rounds[r] /\ todo'[r] = todo[r]
  <1>1. pc'[r] = pc[r]
    <2>1. \E l : pc' = [pc EXCEPT ![p] = l]
      BY ZenonT(40) DEF Post, Work, CreateUserMessage, EmitReceived, EmitProcessing,
         GetChatHistory, CompleteWithContent, NoTextualContent, OutputGuardRejects,
         CompleteWithToolCalls, ProviderFails, ExecuteSearch, ExecuteRead, TakeResult,
         ToolRaises, EmitToolCalled, Emit, CreateAssistantMessage, EmitCompleted,
         EmitFailed, Respond, Reply, Raise, Goto
    <2> QED  BY <2>1 DEF TypeOK
  <1>2. CASE CompleteWithToolCalls(p) \/ EmitToolCalled(p)
    BY <1>1, <1>2 DEF CompleteWithToolCalls, EmitToolCalled, TypeOK
  <1>3. CASE ~(CompleteWithToolCalls(p) \/ EmitToolCalled(p))
    <2>1. UNCHANGED <<rounds, todo>>
      BY <1>3 DEF Work, flow, Post, CreateUserMessage, EmitReceived, EmitProcessing,
         GetChatHistory, CompleteWithContent, ProviderFails, ExecuteSearch, ExecuteRead,
         ToolRaises, CreateAssistantMessage, EmitCompleted, EmitFailed, Respond
    <2> QED  BY <1>1, <2>1
  <1> QED  BY <1>2, <1>3

LEMMA OwnStepShrinks ==
  ASSUME TypeOK, LoopIsBounded, NEW r \in Requests, Post(r) \/ Work(r)
  PROVE  StepsLeft(r)' \in Nat /\ StepsLeft(r)' < StepsLeft(r) /\ pc'[r] # pc[r]
  <1> DEFINE Goal == StepsLeft(r)' \in Nat /\ StepsLeft(r)' < StepsLeft(r) /\ pc'[r] # pc[r]
             Fails == Moves(r, "emit_failed")
  <1>1. /\ \A kind : Raise(r, kind) => Fails
        /\ \A status : Reply(r, status) => Moves(r, "done")
        /\ \A l \in PCs : Goto(r, l) => Moves(r, l)
    BY Labels DEF Raise, Reply, Goto, Moves
  <1>2. \A type : \A l \in PCs : Emit(r, type, l) => Moves(r, l) \/ Fails
    BY <1>1 DEF Emit
  <1> HIDE DEF Goal
  <1>3. ASSUME Post(r) PROVE Goal
    <2>1. pc[r] = "idle" /\ UNCHANGED <<rounds, todo>>
      BY <1>3 DEF Post, flow
    <2>2. Moves(r, "create_user_message") \/ Moves(r, "done")
      BY <1>1, <1>3, Labels DEF Post
    <2> QED  BY <2>1, <2>2, StepShrinks DEF Goal
  <1>4. ASSUME CreateUserMessage(r) PROVE Goal
    <2>1. pc[r] = "create_user_message" /\ UNCHANGED <<rounds, todo>>
      BY <1>4 DEF CreateUserMessage, flow
    <2>2. Moves(r, "emit_received") \/ Moves(r, "done")
      BY <1>1, <1>4, Labels DEF CreateUserMessage
    <2> QED  BY <2>1, <2>2, StepShrinks DEF Goal
  <1>5. ASSUME EmitReceived(r) PROVE Goal
    <2>1. pc[r] = "emit_received" /\ UNCHANGED <<rounds, todo>>
      BY <1>5 DEF EmitReceived, flow
    <2>2. Moves(r, "emit_processing") \/ Fails
      BY <1>2, <1>5, Labels DEF EmitReceived
    <2> QED  BY <2>1, <2>2, StepShrinks DEF Goal
  <1>6. ASSUME EmitProcessing(r) PROVE Goal
    <2>1. pc[r] = "emit_processing" /\ UNCHANGED <<rounds, todo>>
      BY <1>6 DEF EmitProcessing, flow
    <2>2. Moves(r, "get_chat_history") \/ Fails
      BY <1>2, <1>6, Labels DEF EmitProcessing
    <2> QED  BY <2>1, <2>2, StepShrinks DEF Goal
  <1>7. ASSUME GetChatHistory(r) PROVE Goal
    <2>1. pc[r] = "get_chat_history" /\ UNCHANGED <<rounds, todo>>
      BY <1>7 DEF GetChatHistory
    <2>2. Moves(r, "chat_completion") \/ Fails
      BY <1>1, <1>7, Labels DEF GetChatHistory
    <2> QED  BY <2>1, <2>2, StepShrinks DEF Goal
  <1>8. ASSUME CompleteWithContent(r) \/ ProviderFails(r) PROVE Goal
    <2>1. pc[r] = "chat_completion" /\ UNCHANGED <<rounds, todo>>
      BY <1>8 DEF CompleteWithContent, ProviderFails, flow
    <2>2. Moves(r, "create_assistant_message") \/ Fails
      BY <1>1, <1>8, Labels DEF CompleteWithContent, NoTextualContent, OutputGuardRejects,
         ProviderFails
    <2> QED  BY <2>1, <2>2, StepShrinks DEF Goal
  <1>9. ASSUME ExecuteSearch(r) \/ ExecuteRead(r) \/ ToolRaises(r) PROVE Goal
    <2>1. pc[r] = "execute_tool_call" /\ UNCHANGED <<rounds, todo>>
      BY <1>9 DEF ExecuteSearch, ExecuteRead, ToolRaises, flow
    <2>2. Moves(r, "emit_tool_called") \/ Fails
      BY <1>1, <1>9, Labels DEF ExecuteSearch, ExecuteRead, TakeResult, ToolRaises
    <2> QED  BY <2>1, <2>2, StepShrinks DEF Goal
  <1>10. ASSUME CreateAssistantMessage(r) PROVE Goal
    <2>1. pc[r] = "create_assistant_message" /\ UNCHANGED <<rounds, todo>>
      BY <1>10 DEF CreateAssistantMessage, flow
    <2>2. Moves(r, "emit_completed") \/ Fails
      BY <1>1, <1>10, Labels DEF CreateAssistantMessage
    <2> QED  BY <2>1, <2>2, StepShrinks DEF Goal
  <1>11. ASSUME EmitCompleted(r) PROVE Goal
    <2>1. pc[r] = "emit_completed" /\ UNCHANGED <<rounds, todo>>
      BY <1>11 DEF EmitCompleted, flow
    <2>2. Moves(r, "respond") \/ Fails
      BY <1>2, <1>11, Labels DEF EmitCompleted
    <2> QED  BY <2>1, <2>2, StepShrinks DEF Goal
  <1>12. ASSUME EmitFailed(r) PROVE Goal
    <2>1. pc[r] = "emit_failed" /\ UNCHANGED <<rounds, todo>>
      BY <1>12 DEF EmitFailed, flow
    <2>2. Moves(r, "respond")
      BY <1>1, <1>12, Labels DEF EmitFailed
    <2> QED  BY <2>1, <2>2, StepShrinks DEF Goal
  <1>13. ASSUME Respond(r) PROVE Goal
    <2>1. pc[r] = "respond" /\ UNCHANGED <<rounds, todo>>
      BY <1>13 DEF Respond, flow
    <2>2. Moves(r, "done")
      BY <1>1, <1>13 DEF Respond
    <2> QED  BY <2>1, <2>2, StepShrinks DEF Goal
  <1>14. CompleteWithToolCalls(r) \/ EmitToolCalled(r) => Goal
    BY RoundShrinks, CallShrinks DEF Goal
  <1>15. Goal
    BY <1>3, <1>4, <1>5, <1>6, <1>7, <1>8, <1>9, <1>10, <1>11, <1>12, <1>13, <1>14 DEF Work
  <1> QED  BY <1>15 DEF Goal

(***************************************************************************)
(* Whatever the model asks for and whatever fails, each step of a POST     *)
(* leaves it less to do, and no step of another gives it more: it is over  *)
(* after MAX_TOOL_ROUND_TRIPS * (2 * MaxCalls + 1) + 10 steps of its own.  *)
(***************************************************************************)
THEOREM PostsAreBounded == Spec => PostIsBounded
  <1>1. ASSUME Init PROVE LoopIsBounded
    BY <1>1 DEF Init, LoopIsBounded
  <1>2. TypeOK /\ LoopIsBounded /\ [Next]_vars => TypeOK' /\ LoopIsBounded'
    BY TypeStep
  <1> DEFINE Bounded(r) == /\ StepsLeft(r)' \in Nat
                           /\ pc'[r] # pc[r] => StepsLeft(r)' < StepsLeft(r)
                           /\ pc'[r] = pc[r] => StepsLeft(r)' = StepsLeft(r)
  <1>3. ASSUME TypeOK, LoopIsBounded, [Next]_vars PROVE \A r \in Requests : Bounded(r)
    <2> SUFFICES ASSUME NEW r \in Requests PROVE Bounded(r)
      OBVIOUS
    <2>1. ASSUME pc'[r] = pc[r], rounds'[r] = rounds[r], todo'[r] = todo[r] PROVE Bounded(r)
      <3>1. StepsLeft(r)' = StepsLeft(r)
        BY <2>1 DEF StepsLeft
      <3>2. pc[r] \in PCs /\ RoundsShare(r) \in Nat /\ todo[r] \in Nat
        BY <1>3, RoundsShareIs DEF TypeOK
      <3> QED  BY <2>1, <3>1, <3>2, StepsLeftIsStepsAt, StepsAtIsNat
    <2>2. CASE CreateChat \/ DeleteChat \/ UNCHANGED vars
      BY <2>1, <2>2 DEF CreateChat, DeleteChat, vars, flow
    <2>3. CASE Crash
      <3>1. UNCHANGED <<rounds, todo>>
        BY <2>3 DEF Crash, flow
      <3>2. CASE ~InFlight(r)
        BY <1>3, <2>1, <2>3, <3>1, <3>2 DEF Crash, TypeOK
      <3>3. CASE InFlight(r)
        <4>1. pc[r] \notin {"done", "dead"} /\ pc'[r] = "dead"
          BY <2>3, <3>3 DEF Crash, InFlight
        <4> DEFINE w == RoundsShare(r)
                   n == todo[r]
        <4>2. w \in Nat /\ n \in Nat /\ pc[r] \in PCs
          BY <1>3, RoundsShareIs DEF TypeOK
        <4>3. StepsLeft(r) = StepsAt(pc[r], w, n) /\ StepsLeft(r)' = StepsAt("dead", w, n)
          BY <3>1, <4>1 DEF StepsLeft, StepsAt, RoundsShare
        <4> HIDE DEF w, n
        <4>4. StepsAt("dead", w, n) = 0 /\ StepsAt(pc[r], w, n) \in Nat /\ StepsAt(pc[r], w, n) > 0
          BY <4>1, <4>2, StepsAtIs, StepsAtIsNat
        <4> QED  BY <4>1, <4>3, <4>4
      <3> QED  BY <3>2, <3>3
    <2>4. ASSUME NEW p \in Requests, Post(p) \/ Work(p) PROVE Bounded(r)
      <3>1. CASE p = r
        BY <1>3, <2>4, <3>1, OwnStepShrinks
      <3>2. CASE p # r
        BY <1>3, <2>1, <2>4, <3>2, NobodyElseMoves
      <3> QED  BY <3>1, <3>2
    <2> QED  BY <1>3, <2>2, <2>3, <2>4 DEF Next
  <1>4. TypeOK /\ LoopIsBounded /\ [Next]_vars => [\A r \in Requests : Bounded(r)]_vars
    BY <1>3
  <1> QED  BY <1>1, <1>2, <1>4, TypeCorrect, PTL DEF Spec, PostIsBounded

-----------------------------------------------------------------------------
(* Grounding. *)

Reads(results) == {i \in DOMAIN results : IsRead(results[i])}

IsGrounded(results, i) ==
    \E j \in DOMAIN results : LastSearchBefore(results, i, j) /\ results[i].files \subseteq results[j].files

(* What the context of a request says of its conversation; of the hits it   *)
(* allows, only while the request may still call tools.                     *)
ContextIsOfConversation ==
    \A r \in Requests :
        /\ ctx[r].reads <= MaxFullReads
        /\ IsFiniteSet(Reads(conversation[r])) /\ Cardinality(Reads(conversation[r])) <= ctx[r].reads
        /\ \A i \in Reads(conversation[r]) : IsGrounded(conversation[r], i)
        /\ pc[r] \notin {"emit_failed", "respond", "done", "dead"} /\ ctx[r].searched =>
              \E j \in DOMAIN conversation[r] :
                 /\ LastSearchBefore(conversation[r], Len(conversation[r]) + 1, j)
                 /\ conversation[r][j].files = ctx[r].allowed

(* Appending a result adds a read or does not, and leaves what was grounded so. *)
LEMMA ReadsOfAppend ==
  ASSUME NEW results \in Seq(ToolResults), NEW x \in ToolResults
  PROVE  /\ ~IsRead(x) => Reads(Append(results, x)) = Reads(results)
         /\ IsRead(x) => Reads(Append(results, x)) = Reads(results) \cup {Len(results) + 1}
         /\ Len(results) + 1 \notin Reads(results)
  BY DEF Reads

LEMMA GroundedInAppend ==
  ASSUME NEW results \in Seq(ToolResults), NEW x \in ToolResults,
         NEW i \in DOMAIN results, IsGrounded(results, i)
  PROVE  IsGrounded(Append(results, x), i)
  <1>1. PICK j \in DOMAIN results :
           LastSearchBefore(results, i, j) /\ results[i].files \subseteq results[j].files
    BY DEF IsGrounded
  <1>2. j < i /\ ~IsRead(results[j]) /\ \A k \in DOMAIN results : j < k /\ k < i => IsRead(results[k])
    BY <1>1 DEF LastSearchBefore
  <1>3. /\ DOMAIN Append(results, x) = 1 .. Len(results) + 1 /\ DOMAIN results = 1 .. Len(results)
        /\ \A k \in DOMAIN results : Append(results, x)[k] = results[k]
    OBVIOUS
  <1>4. LastSearchBefore(Append(results, x), i, j)
    <2> SUFFICES ASSUME NEW k \in 1 .. Len(results) + 1, j < k, k < i
                 PROVE  IsRead(Append(results, x)[k])
      BY <1>2, <1>3 DEF LastSearchBefore
    <2>1. k \in DOMAIN results
      BY <1>3
    <2> QED  BY <1>2, <1>3, <2>1
  <1>5. j \in DOMAIN Append(results, x)
    BY <1>3
  <1> QED  BY <1>1, <1>3, <1>4, <1>5 DEF IsGrounded

(* One request's facts, carried to a state that differs in nothing they read. *)
LEMMA ContextKept ==
  ASSUME TypeOK, ContextIsOfConversation, UNCHANGED <<conversation, ctx>>,
         \A r \in Requests : pc'[r] = pc[r] \/ pc'[r] \in {"emit_failed", "respond", "done", "dead"}
                             \/ pc[r] \notin {"emit_failed", "respond", "done", "dead"}
  PROVE  ContextIsOfConversation'
  BY DEF ContextIsOfConversation

(* A search that is refused an id is in the context and not in the           *)
(* conversation, but the request fails.                                      *)
LEMMA SearchKeepsContext ==
  ASSUME TypeOK, ContextIsOfConversation, NEW r \in Requests, ExecuteSearch(r)
  PROVE  ContextIsOfConversation'
  <1>1. PICK hits \in SUBSET Files :
           /\ ctx' = [ctx EXCEPT ![r] = AfterSearch(@, hits)]
           /\ TakeResult(r, [tool |-> "search", files |-> hits, found |-> TRUE])
    BY DEF ExecuteSearch
  <1> DEFINE x == [tool |-> "search", files |-> hits, found |-> TRUE]
  <1>2. x \in ToolResults /\ ~IsRead(x) /\ x.files = hits
    BY DEF ToolResults, IsRead
  <1>3. TakeResult(r, x)
    BY <1>1
  <1> HIDE DEF x
  <1>4. \/ conversation' = Append1(conversation, r, x) /\ Moves(r, "emit_tool_called")
        \/ UNCHANGED conversation /\ Moves(r, "emit_failed")
    BY <1>2, <1>3, TakeResultIsTyped
  <1>5. /\ ctx'[r].reads = ctx[r].reads /\ ctx'[r].allowed = hits
        /\ \A q \in Requests \ {r} :
              ctx'[q] = ctx[q] /\ conversation'[q] = conversation[q] /\ pc'[q] = pc[q]
    BY <1>1, <1>4, SearchedContext DEF TypeOK, Append1, Moves
  <1>6. CASE UNCHANGED conversation /\ Moves(r, "emit_failed")
    <2>1. pc'[r] = "emit_failed"
      BY <1>6 DEF Moves, TypeOK
    <2> QED  BY <1>5, <1>6, <2>1 DEF ContextIsOfConversation
  <1>7. CASE conversation' = Append1(conversation, r, x) /\ Moves(r, "emit_tool_called")
    <2> DEFINE old == conversation[r]
               new == conversation'[r]
    <2>1. old \in Seq(ToolResults) /\ new = Append(old, x)
      BY <1>7 DEF TypeOK, Append1
    <2>2. /\ DOMAIN new = 1 .. Len(old) + 1 /\ Len(new) = Len(old) + 1
          /\ new[Len(old) + 1] = x /\ Len(old) \in Nat
      BY <1>2, <2>1
    <2>3. Reads(new) = Reads(old)
      BY <1>2, <2>1, ReadsOfAppend
    <2>4. \A i \in Reads(new) : IsGrounded(new, i)
      <3>1. \A i \in Reads(old) : i \in DOMAIN old /\ IsGrounded(old, i)
        BY DEF ContextIsOfConversation, Reads
      <3> QED  BY <1>2, <2>1, <2>3, <3>1, GroundedInAppend
    <2>5. /\ Len(old) + 1 \in DOMAIN new
          /\ LastSearchBefore(new, Len(new) + 1, Len(old) + 1)
          /\ new[Len(old) + 1].files = hits
      BY <1>2, <2>2 DEF LastSearchBefore
    <2> HIDE DEF new
    <2>6. /\ ctx'[r].reads <= MaxFullReads
          /\ IsFiniteSet(Reads(new)) /\ Cardinality(Reads(new)) <= ctx'[r].reads
      BY <1>5, <2>3 DEF ContextIsOfConversation
    <2> QED  BY <1>5, <2>4, <2>5, <2>6 DEF ContextIsOfConversation, new
  <1> QED  BY <1>4, <1>6, <1>7

LEMMA ReadKeepsContext ==
  ASSUME TypeOK, ContextIsOfConversation, NEW r \in Requests, ExecuteRead(r)
  PROVE  ContextIsOfConversation'
  <1>1. PICK file \in Files, found \in BOOLEAN :
           /\ MayRead(ctx[r], file)
           /\ ctx' = [ctx EXCEPT ![r] = AfterRead(@)]
           /\ TakeResult(r, [tool |-> "read", files |-> {file}, found |-> found])
    BY DEF ExecuteRead
  <1> DEFINE x == [tool |-> "read", files |-> {file}, found |-> found]
  <1>2. x \in ToolResults /\ IsRead(x) /\ x.files = {file}
    BY DEF ToolResults, IsRead
  <1>3. TakeResult(r, x)
    BY <1>1
  <1> HIDE DEF x
  <1>4. \/ conversation' = Append1(conversation, r, x) /\ Moves(r, "emit_tool_called")
        \/ UNCHANGED conversation /\ Moves(r, "emit_failed")
    BY <1>2, <1>3, TakeResultIsTyped
  <1>5. /\ ctx'[r].reads = ctx[r].reads + 1 /\ ctx[r].reads \in Nat
        /\ ctx'[r].allowed = ctx[r].allowed /\ ctx'[r].searched = ctx[r].searched
        /\ \A q \in Requests \ {r} :
              ctx'[q] = ctx[q] /\ conversation'[q] = conversation[q] /\ pc'[q] = pc[q]
    <2>1. ctx[r] \in Contexts /\ ctx[r].reads \in Nat
      BY DEF TypeOK, Contexts
    <2>2. ctx'[r] = AfterRead(ctx[r]) /\ \A q \in Requests \ {r} : ctx'[q] = ctx[q]
      BY <1>1 DEF TypeOK
    <2>3. \A q \in Requests \ {r} : conversation'[q] = conversation[q] /\ pc'[q] = pc[q]
      BY <1>4 DEF TypeOK, Append1, Moves
    <2> QED  BY <2>1, <2>2, <2>3, ReadContext
  <1>6. ctx[r].searched /\ file \in ctx[r].allowed /\ ctx[r].reads < MaxFullReads
    BY <1>1 DEF MayRead
  <1>7. ctx'[r].reads <= MaxFullReads
    BY <1>5, <1>6 DEF MaxFullReads
  <1> DEFINE old == conversation[r]
  <1>8. old \in Seq(ToolResults) /\ IsFiniteSet(Reads(old)) /\ Cardinality(Reads(old)) \in Nat
        /\ Cardinality(Reads(old)) <= ctx[r].reads
        /\ \A i \in Reads(old) : i \in DOMAIN old /\ IsGrounded(old, i)
    BY FS_CardinalityType DEF ContextIsOfConversation, TypeOK, Reads
  <1>9. CASE UNCHANGED conversation /\ Moves(r, "emit_failed")
    <2>1. pc'[r] = "emit_failed"
      BY <1>9 DEF Moves, TypeOK
    <2>2. Cardinality(Reads(old)) <= ctx'[r].reads
      BY <1>5, <1>8
    <2> QED  BY <1>5, <1>7, <1>8, <1>9, <2>1, <2>2 DEF ContextIsOfConversation
  <1>10. CASE conversation' = Append1(conversation, r, x) /\ Moves(r, "emit_tool_called")
    <2> DEFINE new == conversation'[r]
    <2>1. new = Append(old, x)
      BY <1>10 DEF TypeOK, Append1
    <2>2. /\ DOMAIN new = 1 .. Len(old) + 1 /\ Len(new) = Len(old) + 1
          /\ new[Len(old) + 1] = x /\ Len(old) \in Nat /\ DOMAIN old = 1 .. Len(old)
          /\ \A k \in DOMAIN old : new[k] = old[k]
      BY <1>2, <1>8, <2>1
    <2>3. Reads(new) = Reads(old) \cup {Len(old) + 1} /\ Len(old) + 1 \notin Reads(old)
      BY <1>2, <1>8, <2>1, ReadsOfAppend
    <2>4. IsFiniteSet(Reads(new)) /\ Cardinality(Reads(new)) <= ctx'[r].reads
      <3>1. /\ IsFiniteSet(Reads(old) \cup {Len(old) + 1})
            /\ Cardinality(Reads(old) \cup {Len(old) + 1}) = Cardinality(Reads(old)) + 1
        BY <1>8, <2>3, FS_AddElement
      <3> QED  BY <1>5, <1>8, <2>3, <3>1
    <2>5. PICK j \in DOMAIN old : LastSearchBefore(old, Len(old) + 1, j) /\ old[j].files = ctx[r].allowed
      <3>1. pc[r] = "execute_tool_call"
        BY DEF ExecuteRead
      <3> QED  BY <1>6, <3>1 DEF ContextIsOfConversation
    <2>6. j \in DOMAIN new /\ new[j].files = ctx'[r].allowed
      BY <1>5, <2>2, <2>5
    <2>7. LastSearchBefore(new, Len(old) + 1, j) /\ LastSearchBefore(new, Len(new) + 1, j)
      <3>1. j < Len(old) + 1 /\ ~IsRead(old[j])
            /\ \A k \in DOMAIN old : j < k /\ k < Len(old) + 1 => IsRead(old[k])
        BY <2>5 DEF LastSearchBefore
      <3>2. \A k \in DOMAIN new : j < k => IsRead(new[k])
        <4> SUFFICES ASSUME NEW k \in DOMAIN new, j < k PROVE IsRead(new[k])
          OBVIOUS
        <4>1. CASE k \in DOMAIN old
          BY <2>2, <3>1, <4>1
        <4>2. CASE k = Len(old) + 1
          BY <1>2, <2>2, <4>2
        <4> QED  BY <2>2, <4>1, <4>2
      <3> QED  BY <2>2, <2>5, <3>1, <3>2 DEF LastSearchBefore
    <2>8. \A i \in Reads(new) : IsGrounded(new, i)
      <3>1. \A i \in Reads(old) : IsGrounded(new, i)
        BY <1>2, <1>8, <2>1, GroundedInAppend
      <3>2. IsGrounded(new, Len(old) + 1)
        BY <1>2, <1>5, <1>6, <2>2, <2>6, <2>7 DEF IsGrounded
      <3> QED  BY <2>3, <3>1, <3>2
    <2> HIDE DEF new
    <2> QED  BY ZenonT(40), <1>5, <1>7, <2>4, <2>6, <2>7, <2>8 DEF ContextIsOfConversation, new
  <1> QED  BY <1>4, <1>9, <1>10

(***************************************************************************)
(* However many requests share the executor, and whatever the model asks   *)
(* for, every document in a conversation was a hit of the last search      *)
(* before it in the same conversation, and there are at most two.          *)
(***************************************************************************)
THEOREM ReadsAreGrounded == Spec => []GroundedReads
  <1>1. ASSUME TypeOK, Init PROVE ContextIsOfConversation
    <2>1. \A r \in Requests : Reads(conversation[r]) = {} /\ ctx[r].reads = 0 /\ ~ctx[r].searched
      BY <1>1 DEF Init, Reads, FreshContext
    <2>2. IsFiniteSet({}) /\ Cardinality({}) = 0 /\ 0 <= MaxFullReads
      BY FS_EmptySet DEF MaxFullReads
    <2> SUFFICES ASSUME NEW r \in Requests
                 PROVE  /\ ctx[r].reads <= MaxFullReads
                        /\ IsFiniteSet(Reads(conversation[r]))
                        /\ Cardinality(Reads(conversation[r])) <= ctx[r].reads
      BY <2>1 DEF ContextIsOfConversation
    <2>3. Reads(conversation[r]) = {} /\ ctx[r].reads = 0
      BY <2>1
    <2> QED  BY <2>2, <2>3
  <1>2. ASSUME TypeOK, ContextIsOfConversation, [Next]_vars PROVE ContextIsOfConversation'
    <2>1. CASE \E r \in Requests : ExecuteSearch(r)
      BY <1>2, <2>1, SearchKeepsContext
    <2>2. CASE \E r \in Requests : ExecuteRead(r)
      BY <1>2, <2>2, ReadKeepsContext
    <2>3. CASE ~(\E r \in Requests : ExecuteSearch(r) \/ ExecuteRead(r))
      <3>1. UNCHANGED <<conversation, ctx>>
        BY <1>2, <2>3 DEF Next, Work, vars, tables, flow, CreateChat, DeleteChat, Crash, Post,
           CreateUserMessage, EmitReceived, EmitProcessing, GetChatHistory, CompleteWithContent, NoTextualContent, OutputGuardRejects,
           CompleteWithToolCalls, ProviderFails, ToolRaises, EmitToolCalled,
           CreateAssistantMessage, EmitCompleted, EmitFailed, Respond
      <3>2. \A r \in Requests : pc'[r] = pc[r] \/ pc'[r] \in {"emit_failed", "respond", "done", "dead"}
                                \/ pc[r] \notin {"emit_failed", "respond", "done", "dead"}
        <4>1. CASE CreateChat \/ DeleteChat \/ UNCHANGED vars
          BY <4>1 DEF CreateChat, DeleteChat, vars
        <4>2. CASE Crash
          BY <1>2, <4>2 DEF Crash, TypeOK
        <4>3. ASSUME NEW r \in Requests, Post(r) \/ Work(r)
              PROVE  /\ pc[r] \notin {"done", "dead"}
                     /\ pc[r] = "emit_failed" => pc' = [pc EXCEPT ![r] = "respond"]
                     /\ pc[r] = "respond" => pc' = [pc EXCEPT ![r] = "done"]
                     /\ \E l : pc' = [pc EXCEPT ![r] = l]
          BY ZenonT(40), <4>3 DEF Post, Work, CreateUserMessage, EmitReceived, EmitProcessing,
             GetChatHistory, CompleteWithContent, NoTextualContent, OutputGuardRejects,
             CompleteWithToolCalls, ProviderFails,
             ExecuteSearch, ExecuteRead, TakeResult, ToolRaises, EmitToolCalled, Emit,
             CreateAssistantMessage, EmitCompleted, EmitFailed, Respond, Reply, Raise, Goto
        <4> QED  BY <1>2, <4>1, <4>2, <4>3 DEF Next, TypeOK
      <3> QED  BY <1>2, <3>1, <3>2, ContextKept
    <2> QED  BY <2>1, <2>2, <2>3
  <1>3. ASSUME TypeOK, ContextIsOfConversation PROVE GroundedReads
    <2> SUFFICES ASSUME NEW r \in Requests
                 PROVE  /\ Cardinality(Reads(conversation[r])) <= MaxFullReads
                        /\ \A i \in Reads(conversation[r]) : IsGrounded(conversation[r], i)
      BY DEF GroundedReads, Reads, IsGrounded
    <2>1. /\ ctx[r].reads \in Nat /\ ctx[r].reads <= MaxFullReads
          /\ Cardinality(Reads(conversation[r])) \in Nat
          /\ Cardinality(Reads(conversation[r])) <= ctx[r].reads
      BY <1>3, FS_CardinalityType DEF ContextIsOfConversation, TypeOK, Contexts
    <2> QED  BY <1>3, <2>1 DEF ContextIsOfConversation, MaxFullReads
  <1> QED  BY <1>1, <1>2, <1>3, TypeCorrect, PTL DEF Spec

=============================================================================
