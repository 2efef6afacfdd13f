------------------------- MODULE EventStream_proofs -------------------------
(***************************************************************************)
(* Proofs about EventStream, for every set of emitters, every set of ids,  *)
(* every bound on the clock and every batch size:                          *)
(*                                                                         *)
(*   - type correctness, with the cascade of a deletion;                   *)
(*   - InOrderOnce, for clients that present ids of this chat only;        *)
(*   - NoGap and CursorLeavesNothingBehind, for the same clients;          *)
(*   - the refinement: the stream implements EventFeed, for those clients; *)
(*   - PersistedEventsAreDelivered, if moreover the events of the chat are *)
(*     emitted one at a time.                                              *)
(*                                                                         *)
(* The last hypothesis cannot be dropped: TLC finds the lost event with    *)
(* two emitters (run overtaken_event_is_lost).                             *)
(***************************************************************************)
EXTENDS EventStream, TLAPS

(* Points of the order (created_at, id): the rows and Beginning. *)
Points == [at : Nat, id : Nat]

-----------------------------------------------------------------------------
(* The order is a strict total order. *)

LEMMA RowsArePoints == Rows \subseteq Points /\ Beginning \in Points
  <1>1. Ids \subseteq Nat /\ 1 .. MaxTime \subseteq Nat
    BY EventStreamAssumption
  <1>2. ASSUME NEW r \in Rows PROVE r \in Points
    BY <1>1 DEF Rows, Points
  <1>3. Beginning \in Points
    BY DEF Points, Beginning
  <1> QED  BY <1>2, <1>3

LEMMA OrderIsTotal ==
  ASSUME NEW a \in Points, NEW b \in Points
  PROVE  /\ AtOrBefore(a, b) <=> (a = b \/ Before(a, b))
         /\ ~Before(a, b) <=> AtOrBefore(b, a)
         /\ ~Before(a, a)
  <1>1. (a.at = b.at /\ a.id = b.id) => a = b
    BY DEF Points
  <1> QED  BY <1>1 DEF Points, AtOrBefore, Before

LEMMA OrderIsTransitive ==
  ASSUME NEW a \in Points, NEW b \in Points, NEW c \in Points
  PROVE  /\ Before(a, b) /\ Before(b, c) => Before(a, c)
         /\ Before(a, b) /\ AtOrBefore(b, c) => Before(a, c)
         /\ AtOrBefore(a, b) /\ Before(b, c) => Before(a, c)
  BY DEF Points, AtOrBefore, Before

LEMMA BeginningIsFirst ==
  ASSUME NEW r \in Rows
  PROVE  Before(Beginning, r) /\ r # Beginning
  BY EventStreamAssumption DEF Rows, Before, Beginning

-----------------------------------------------------------------------------
(***************************************************************************)
(* Type correctness.  A row is drawn with a fresh id, the deletion of the  *)
(* chat empties the table and no later commit succeeds.                    *)
(***************************************************************************)
LEMMA TypeStep == TypeOK /\ [Next]_vars => TypeOK'
  <1> SUFFICES ASSUME TypeOK, [Next]_vars PROVE TypeOK'
    OBVIOUS
  <1> USE DEF TypeOK
  <1>1. CASE Tick
    BY <1>1, EventStreamAssumption DEF Tick, streamVars, clientVars
  <1>2. ASSUME NEW e \in Emitters, Stamp(e) PROVE TypeOK'
    <2>1. PICK i \in Ids : /\ issued' = issued \cup {[at |-> now, id |-> i]}
                           /\ pending' = [pending EXCEPT ![e] = [at |-> now, id |-> i]]
      BY <1>2 DEF Stamp
    <2>2. [at |-> now, id |-> i] \in Rows
      BY <1>2, EventStreamAssumption DEF Stamp, Rows
    <2>3. wire' \in Seq(issued')
      BY <1>2, <2>1 DEF Stamp, streamVars
    <2> QED  BY <1>2, <2>1, <2>2, <2>3 DEF Stamp, streamVars, clientVars
  <1>3. ASSUME NEW e \in Emitters, Commit(e) PROVE TypeOK'
    BY <1>3 DEF Commit, streamVars, clientVars, NoRow
  <1>4. ASSUME NEW e \in Emitters, Abort(e) PROVE TypeOK'
    BY <1>4 DEF Abort, streamVars, clientVars
  <1>5. CASE DeleteChat
    BY <1>5 DEF DeleteChat, streamVars, clientVars
  <1>6. CASE OpenStream
    BY <1>6 DEF OpenStream, feedVars, clientVars, Rows, Beginning
  <1>7. CASE ResolveCursor
    <2>1. cursor' \in issued \cup {Beginning} /\ start' \in issued \cup {Beginning}
      BY <1>7 DEF ResolveCursor, ResumeAfter, ResumeUnknown, StartAtLatest
    <2> QED  BY <1>7, <2>1 DEF ResolveCursor, feedVars
  <1>8. CASE Poll
    BY <1>8 DEF Poll, feedVars, clientVars
  <1>9. CASE Yield
    BY <1>9 DEF Yield, feedVars, clientVars
  <1>10. CASE Disconnect
    BY <1>10 DEF Disconnect, feedVars, clientVars
  <1>11. CASE Receive
    BY <1>11 DEF Receive, feedVars
  <1>12. CASE UNCHANGED vars
    BY <1>12 DEF vars, feedVars, streamVars, clientVars
  <1> QED
    BY <1>1, <1>2, <1>3, <1>4, <1>5, <1>6, <1>7, <1>8, <1>9, <1>10, <1>11, <1>12 DEF Next

THEOREM TypeCorrect == Spec => []TypeOK
  <1>1. Init => TypeOK
    BY EventStreamAssumption DEF Init, TypeOK, NoRow
  <1> QED  BY <1>1, TypeStep, PTL DEF Spec

-----------------------------------------------------------------------------
(***************************************************************************)
(* Order.  What is on its way follows what has been received, what is      *)
(* fetched follows the cursor, and the cursor is never behind lastSeen:    *)
(* either the header named a row of the table, and then it is lastSeen, or *)
(* there was no header and nothing had been received, or the chat is gone  *)
(* and no row will ever follow.                                            *)
(***************************************************************************)
OneRowPerId ==
    \A a, b \in issued : a.id = b.id => a = b

StillStored ==
    chat = "active" =>
        /\ {lastSeen, cursor, start} \subseteq table \cup {Beginning}
        /\ batch \cup Sent \subseteq table

IdleWhenNotStreaming ==
    /\ pc = "opening" => header = lastSeen.id
    /\ pc # "streaming" => batch = {} /\ wire = <<>>

CursorAhead ==
    pc = "streaming" =>
        \/ AtOrBefore(lastSeen, cursor)
        \/ chat = "deleted" /\ batch = {} /\ wire = <<>>

AheadInOrder ==
    /\ \A r \in received : AtOrBefore(r, lastSeen)
    /\ \A i, j \in DOMAIN wire : i < j => Before(wire[i], wire[j])
    /\ \A i \in DOMAIN wire : Before(lastSeen, wire[i]) /\ AtOrBefore(wire[i], cursor)
    /\ \A r \in batch : Before(lastSeen, r) /\ Before(cursor, r)

OrderInv ==
    /\ TypeOK
    /\ OneRowPerId
    /\ StillStored
    /\ IdleWhenNotStreaming
    /\ CursorAhead
    /\ AheadInOrder

(***************************************************************************)
(* Completeness.  A row that is committed behind no other follows every    *)
(* point where a client or a stream can stand; the fetched rows are the    *)
(* next ones after the cursor.                                             *)
(***************************************************************************)
BatchIsNext ==
    \A r \in batch, s \in table \ overtaken :
        Before(cursor, s) /\ Before(s, r) => s \in batch

GapInv ==
    /\ BatchIsNext
    /\ CursorLeavesNothingBehind
    /\ NoGap

(***************************************************************************)
(* One emitter: the row it has stamped is later than the whole table.      *)
(***************************************************************************)
CommitsInOrder ==
    /\ overtaken = {}
    /\ \A r \in table : r.at < now
    /\ \A e \in Emitters : pending[e] # NoRow => \A r \in table : r.at < pending[e].at

LEMMA PointsTyped ==
  ASSUME TypeOK
  PROVE  /\ issued \subseteq Points
         /\ {cursor, lastSeen, start} \subseteq Points
         /\ \A r \in issued : r \in Rows /\ Before(Beginning, r) /\ r # Beginning /\ r.id # 0
         /\ \A i \in DOMAIN wire : wire[i] \in issued
         /\ DOMAIN wire = 1 .. Len(wire) /\ Len(wire) \in Nat
  <1>1. issued \subseteq Rows /\ {cursor, lastSeen, start} \subseteq Rows \cup {Beginning}
    BY DEF TypeOK
  <1>2. \A r \in Rows : r.id # 0
    BY EventStreamAssumption DEF Rows
  <1>3. /\ \A i \in DOMAIN wire : wire[i] \in issued
        /\ DOMAIN wire = 1 .. Len(wire) /\ Len(wire) \in Nat
    BY DEF TypeOK
  <1> QED  BY <1>1, <1>2, <1>3, RowsArePoints, BeginningIsFirst

LEMMA OrderStep ==
  ASSUME OrderInv, [Next]_vars, ForeignIds = {}
  PROVE  OrderInv'
  <1>0. TypeOK'
    BY TypeStep DEF OrderInv
  <1> USE PointsTyped DEF OrderInv
  <1>1. CASE Tick
    BY <1>1, <1>0 DEF Tick, streamVars, clientVars, OneRowPerId, StillStored,
       IdleWhenNotStreaming, CursorAhead, AheadInOrder, Sent
  <1>2. ASSUME NEW e \in Emitters, Stamp(e) PROVE OrderInv'
    <2>1. OneRowPerId'
      BY <1>2 DEF Stamp, OneRowPerId, IdsIn
    <2> QED
      BY <1>2, <1>0, <2>1 DEF Stamp, streamVars, clientVars, StillStored,
         IdleWhenNotStreaming, CursorAhead, AheadInOrder, Sent
  <1>3. ASSUME NEW e \in Emitters, Commit(e) PROVE OrderInv'
    BY <1>3, <1>0 DEF Commit, streamVars, clientVars, OneRowPerId, StillStored,
       IdleWhenNotStreaming, CursorAhead, AheadInOrder, Sent
  <1>4. ASSUME NEW e \in Emitters, Abort(e) PROVE OrderInv'
    BY <1>4, <1>0 DEF Abort, streamVars, clientVars, OneRowPerId, StillStored,
       IdleWhenNotStreaming, CursorAhead, AheadInOrder, Sent
  <1>5. CASE DeleteChat
    BY <1>5, <1>0 DEF DeleteChat, streamVars, clientVars, OneRowPerId, StillStored,
       IdleWhenNotStreaming, CursorAhead, AheadInOrder, Sent
  <1>6. CASE OpenStream
    BY <1>6, <1>0 DEF OpenStream, feedVars, clientVars, OneRowPerId, StillStored,
       IdleWhenNotStreaming, CursorAhead, AheadInOrder, Sent
  <1>7. CASE ResolveCursor
    <2>1. header = lastSeen.id /\ batch = {} /\ wire = <<>>
      BY <1>7 DEF ResolveCursor, IdleWhenNotStreaming
    <2>2. ASSUME NEW r \in table, ResumeAfter(r) PROVE cursor' = lastSeen
      <3>1. lastSeen # Beginning
        BY <2>1, <2>2 DEF ResumeAfter, Beginning, TypeOK
      <3> QED  BY <2>1, <2>2, <3>1 DEF ResumeAfter, OneRowPerId, TypeOK
    <2>3. ResumeUnknown => chat = "deleted"
      BY <2>1 DEF ResumeUnknown, StillStored, IdsIn, Beginning, TypeOK
    <2>4. StartAtLatest => lastSeen = Beginning
      BY <2>1 DEF StartAtLatest, TypeOK
    <2>5. cursor' \in table \cup {Beginning, lastSeen} /\ start' \in {start, cursor'}
      BY <1>7, <2>2 DEF ResolveCursor, ResumeUnknown, StartAtLatest, ResumeAfter
    <2>6. StillStored'
      BY <1>7, <2>5 DEF ResolveCursor, feedVars, StillStored, Sent
    <2>7. CursorAhead'
      <3>1. AtOrBefore(lastSeen, lastSeen)
        BY OrderIsTotal
      <3>2. lastSeen = Beginning => AtOrBefore(lastSeen, cursor')
        BY <2>5, <3>1, OrderIsTotal DEF TypeOK
      <3> QED
        BY <1>7, <2>1, <2>2, <2>3, <2>4, <3>1, <3>2 DEF ResolveCursor, feedVars, CursorAhead
    <2> QED
      BY <1>7, <1>0, <2>1, <2>6, <2>7 DEF ResolveCursor, feedVars, OneRowPerId,
         IdleWhenNotStreaming, AheadInOrder
  <1>8. CASE Poll
    <2>1. /\ batch = {} /\ batch' \subseteq table
          /\ \A r \in batch' : Before(cursor, r)
      BY <1>8 DEF Poll, IsPageAfter
    <2>2. chat = "deleted" => batch' = {}
      BY <2>1 DEF TypeOK
    <2>3. \A r \in batch' : Before(lastSeen, r)
      BY <1>8, <2>1, <2>2, OrderIsTransitive DEF Poll, CursorAhead, TypeOK
    <2> QED
      BY <1>8, <1>0, <2>1, <2>2, <2>3 DEF Poll, feedVars, clientVars, OneRowPerId, StillStored,
         IdleWhenNotStreaming, CursorAhead, AheadInOrder, Sent
  <1>9. CASE Yield
    <2>1. PICK r \in batch : /\ \A s \in batch : AtOrBefore(r, s)
                             /\ wire' = Append(wire, r)
                             /\ cursor' = r
                             /\ batch' = batch \ {r}
      BY <1>9 DEF Yield
    <2>2. /\ r \in issued /\ r \in Points
          /\ Before(lastSeen, r) /\ Before(cursor, r)
      BY <2>1 DEF AheadInOrder, TypeOK
    <2>3. /\ DOMAIN wire' = 1 .. Len(wire) + 1
          /\ \A i \in DOMAIN wire : wire'[i] = wire[i]
          /\ wire'[Len(wire) + 1] = r
      BY <2>1, <2>2 DEF TypeOK
    <2>4. \A i \in DOMAIN wire : Before(wire[i], r)
      BY <2>2, OrderIsTransitive DEF AheadInOrder
    <2>5. \A s \in batch' : Before(r, s)
      BY <2>1, OrderIsTotal DEF TypeOK
    <2>6. AtOrBefore(lastSeen, r) /\ AtOrBefore(r, r)
      BY <2>2, OrderIsTotal
    <2>7. \A i \in DOMAIN wire' : i \in DOMAIN wire \/ i = Len(wire) + 1
      BY <2>3
    <2>8. AheadInOrder'
      <3>1. \A i, j \in DOMAIN wire' : i < j => Before(wire'[i], wire'[j])
        <4> SUFFICES ASSUME NEW i \in DOMAIN wire', NEW j \in DOMAIN wire', i < j
                     PROVE  Before(wire'[i], wire'[j])
          OBVIOUS
        <4>1. i \in DOMAIN wire
          BY <2>3
        <4> QED  BY <4>1, <2>3, <2>4, <2>7 DEF AheadInOrder
      <3>2. \A i \in DOMAIN wire' : Before(lastSeen, wire'[i]) /\ AtOrBefore(wire'[i], r)
        <4>1. \A i \in DOMAIN wire : AtOrBefore(wire[i], r)
          BY <2>4, OrderIsTotal, <2>2
        <4> QED  BY <4>1, <2>2, <2>3, <2>6, <2>7 DEF AheadInOrder
      <3> QED
        BY <1>9, <2>1, <2>5, <3>1, <3>2 DEF Yield, feedVars, clientVars, AheadInOrder
    <2>9. Sent' = Sent \cup {r}
      BY <2>3, <2>7 DEF Sent
    <2> QED
      BY <1>9, <1>0, <2>1, <2>6, <2>8, <2>9 DEF Yield, feedVars, clientVars, OneRowPerId,
         StillStored, IdleWhenNotStreaming, CursorAhead
  <1>10. CASE Disconnect
    BY <1>10, <1>0 DEF Disconnect, feedVars, clientVars, OneRowPerId, StillStored,
       IdleWhenNotStreaming, CursorAhead, AheadInOrder, Sent
  <1>11. CASE Receive
    <2>1. /\ wire # <<>> /\ Len(wire) > 0 /\ 1 \in DOMAIN wire /\ lastSeen' = wire[1]
          /\ Len(wire') = Len(wire) - 1 /\ DOMAIN wire' = 1 .. Len(wire) - 1
          /\ \A i \in DOMAIN wire' : wire'[i] = wire[i + 1] /\ i + 1 \in DOMAIN wire
      BY <1>11 DEF Receive, TypeOK
    <2>2. pc = "streaming" /\ ~(chat = "deleted" /\ wire = <<>>)
      BY <2>1 DEF IdleWhenNotStreaming, TypeOK
    <2>3. Before(lastSeen, wire[1]) /\ AtOrBefore(wire[1], cursor)
      BY <2>1 DEF AheadInOrder
    <2>4. \A r \in received' : AtOrBefore(r, lastSeen')
      <3>1. \A r \in received : Before(r, wire[1])
        BY <2>1, <2>3, OrderIsTransitive DEF AheadInOrder, TypeOK
      <3>2. received \subseteq Points /\ wire[1] \in Points
        BY <2>1 DEF TypeOK
      <3>3. received' = received \cup {wire[1]}
        BY <1>11 DEF Receive, TypeOK
      <3> QED  BY <2>1, <3>1, <3>2, <3>3, OrderIsTotal
    <2>5. \A i, j \in DOMAIN wire' : i < j => Before(wire'[i], wire'[j])
      BY <2>1 DEF AheadInOrder
    <2>6. \A i \in DOMAIN wire' : Before(wire[1], wire'[i]) /\ AtOrBefore(wire'[i], cursor)
      BY <2>1 DEF AheadInOrder
    <2>7. \A r \in batch : Before(wire[1], r)
      BY <2>1, <2>3, OrderIsTransitive DEF AheadInOrder, TypeOK
    <2>8. AheadInOrder'
      BY <1>11, <2>1, <2>4, <2>5, <2>6, <2>7 DEF Receive, feedVars, AheadInOrder
    <2>9. wire[1] \in Sent /\ Sent' \subseteq Sent
      BY <2>1 DEF Sent
    <2> QED
      BY <1>11, <1>0, <2>1, <2>2, <2>3, <2>8, <2>9 DEF Receive, feedVars, OneRowPerId,
         StillStored, IdleWhenNotStreaming, CursorAhead
  <1>12. CASE UNCHANGED vars
    BY <1>12, <1>0 DEF vars, feedVars, streamVars, clientVars, OneRowPerId, StillStored,
       IdleWhenNotStreaming, CursorAhead, AheadInOrder, Sent
  <1> QED
    BY <1>1, <1>2, <1>3, <1>4, <1>5, <1>6, <1>7, <1>8, <1>9, <1>10, <1>11, <1>12 DEF Next

LEMMA OrderInvariant ==
  ASSUME ForeignIds = {}
  PROVE  Spec => []OrderInv
  <1>1. Init => OrderInv
    <2> SUFFICES ASSUME Init PROVE OrderInv
      OBVIOUS
    <2>1. TypeOK
      BY EventStreamAssumption DEF Init, TypeOK, NoRow
    <2> QED
      BY <2>1 DEF Init, OrderInv, OneRowPerId, StillStored, IdleWhenNotStreaming, CursorAhead,
         AheadInOrder, Sent
  <1> QED  BY <1>1, OrderStep, PTL DEF Spec

(***************************************************************************)
(* For every number of concurrent emitters, batch size and history of      *)
(* lost connections, an event that arrives is later in the order of the    *)
(* table than all the client received before: nothing is seen twice.       *)
(***************************************************************************)
THEOREM DeliveryIsInOrder ==
  ASSUME ForeignIds = {}
  PROVE  Spec => InOrderOnce
  <1>1. OrderInv /\ [Next]_vars => [Receive => \A r \in received : Before(r, lastSeen')]_vars
    <2> SUFFICES ASSUME OrderInv, Receive, NEW r \in received
                 PROVE  Before(r, lastSeen')
      OBVIOUS
    <2>1. 1 \in DOMAIN wire /\ lastSeen' = wire[1]
      BY DEF Receive, OrderInv, TypeOK
    <2>2. AtOrBefore(r, lastSeen) /\ Before(lastSeen, wire[1])
      BY <2>1 DEF OrderInv, AheadInOrder
    <2>3. r \in Points /\ lastSeen \in Points /\ wire[1] \in Points
      BY <2>1, PointsTyped DEF OrderInv, TypeOK
    <2> QED  BY <2>1, <2>2, <2>3, OrderIsTransitive
  <1> QED  BY <1>1, OrderInvariant, PTL DEF Spec, InOrderOnce

-----------------------------------------------------------------------------
(* Completeness. *)

LEMMA GapStep ==
  ASSUME OrderInv, OrderInv', GapInv, [Next]_vars, ForeignIds = {}
  PROVE  GapInv'
  <1> USE PointsTyped DEF OrderInv, GapInv
  <1>1. CASE Tick
    BY <1>1 DEF Tick, streamVars, clientVars, BatchIsNext,
       CursorLeavesNothingBehind, NoGap, Sent, TypeOK, Rows
  <1>2. ASSUME NEW e \in Emitters, Stamp(e) PROVE GapInv'
    BY <1>2 DEF Stamp, streamVars, clientVars, BatchIsNext,
       CursorLeavesNothingBehind, NoGap, Sent
  <1>3. ASSUME NEW e \in Emitters, Commit(e) PROVE GapInv'
    <2> DEFINE new == pending[e]
    <2>1. /\ new \in issued /\ new \in Points
          /\ table' = table \cup {new} /\ chat = "active"
          /\ overtaken \subseteq overtaken'
          /\ UNCHANGED <<streamVars, clientVars>>
      BY <1>3 DEF Commit, TypeOK
    <2>2. CASE new \in table \/ new \in overtaken'
      <3>1. table' \ overtaken' \subseteq table \ overtaken
        BY <2>1, <2>2
      <3> QED
        BY <2>1, <3>1 DEF streamVars, clientVars, BatchIsNext, CursorLeavesNothingBehind, NoGap, Sent
    <2>3. CASE new \notin table /\ new \notin overtaken'
      <3>1. \A r \in table : ~Before(new, r)
        BY <1>3, <2>3 DEF Commit
      <3>2. \A r \in table : Before(r, new)
        BY <2>1, <2>3, <3>1, OrderIsTotal DEF TypeOK
      <3>3. Before(lastSeen, new) /\ Before(cursor, new)
        BY <2>1, <3>2 DEF StillStored
      <3>4. BatchIsNext'
        BY <2>1, <3>1 DEF streamVars, BatchIsNext, StillStored
      <3>5. CursorLeavesNothingBehind' /\ NoGap'
        BY <2>1, <3>3 DEF streamVars, clientVars, CursorLeavesNothingBehind, NoGap, Sent
      <3> QED  BY <3>4, <3>5
    <2> QED  BY <2>2, <2>3
  <1>4. ASSUME NEW e \in Emitters, Abort(e) PROVE GapInv'
    BY <1>4 DEF Abort, streamVars, clientVars, BatchIsNext,
       CursorLeavesNothingBehind, NoGap, Sent, TypeOK
  <1>5. CASE DeleteChat
    BY <1>5 DEF DeleteChat, streamVars, clientVars, BatchIsNext,
       CursorLeavesNothingBehind, NoGap, Sent
  <1>6. CASE OpenStream
    BY <1>6 DEF OpenStream, feedVars, clientVars, BatchIsNext,
       CursorLeavesNothingBehind, NoGap, Sent
  <1>7. CASE ResolveCursor
    <2>1. /\ header = lastSeen.id /\ batch = {} /\ wire = <<>>
          /\ batch' = {} /\ wire' = <<>> /\ table' = table /\ received' = received
          /\ lastSeen' = lastSeen
      BY <1>7 DEF ResolveCursor, IdleWhenNotStreaming, feedVars
    <2>2. CASE \E r \in table : ResumeAfter(r)
      <3>1. PICK r \in table : ResumeAfter(r)
        BY <2>2
      <3>2. lastSeen # Beginning
        BY <2>1, <3>1 DEF ResumeAfter, Beginning, TypeOK
      <3>3. cursor' = lastSeen /\ start' = start
        BY <2>1, <3>1, <3>2 DEF ResumeAfter, OneRowPerId, TypeOK
      <3> QED
        BY <1>7, <2>1, <3>3 DEF ResolveCursor, feedVars, BatchIsNext,
           CursorLeavesNothingBehind, NoGap, Sent
    <2>3. CASE ResumeUnknown
      <3>1. chat = "deleted" /\ table = {}
        BY <2>1, <2>3 DEF ResumeUnknown, StillStored, IdsIn, Beginning, TypeOK
      <3> QED
        BY <1>7, <2>1, <3>1 DEF ResolveCursor, feedVars, BatchIsNext,
           CursorLeavesNothingBehind, NoGap, Sent
    <2>4. CASE StartAtLatest
      <3>1. \A r \in table : ~Before(start', r)
        BY <2>4, OrderIsTotal DEF StartAtLatest, TypeOK
      <3> QED
        BY <1>7, <2>1, <3>1 DEF ResolveCursor, feedVars, BatchIsNext,
           CursorLeavesNothingBehind, NoGap, Sent
    <2> QED  BY <1>7, <2>2, <2>3, <2>4 DEF ResolveCursor
  <1>8. CASE Poll
    <2>1. BatchIsNext'
      BY <1>8, PointsTyped, OrderIsTransitive DEF Poll, IsPageAfter, BatchIsNext, feedVars, TypeOK
    <2> QED
      BY <1>8, <2>1 DEF Poll, feedVars, clientVars,
         CursorLeavesNothingBehind, NoGap, Sent
  <1>9. CASE Yield
    <2>1. PICK r \in batch : /\ \A s \in batch : AtOrBefore(r, s)
                             /\ wire' = Append(wire, r)
                             /\ cursor' = r
                             /\ batch' = batch \ {r}
      BY <1>9 DEF Yield
    <2>2. r \in issued /\ r \in Points /\ batch \subseteq Points /\ table \subseteq Points
      BY <2>1 DEF TypeOK
    <2>3. Sent' = Sent \cup {r}
      <3>1. /\ DOMAIN wire' = 1 .. Len(wire) + 1
            /\ \A i \in DOMAIN wire : wire'[i] = wire[i]
            /\ wire'[Len(wire) + 1] = r
        BY <2>1, <2>2 DEF TypeOK
      <3>2. \A i \in DOMAIN wire' : i \in DOMAIN wire \/ i = Len(wire) + 1
        BY <3>1
      <3> QED  BY <3>1, <3>2 DEF Sent
    <2>4. \A s \in table \ overtaken : Before(cursor, s) /\ ~Before(r, s) => s = r
      <3> SUFFICES ASSUME NEW s \in table \ overtaken, Before(cursor, s), ~Before(r, s), s # r
                   PROVE  FALSE
        OBVIOUS
      <3>1. Before(s, r)
        BY <2>2, OrderIsTotal
      <3>2. s \in batch
        BY <2>1, <3>1 DEF BatchIsNext
      <3> QED  BY <2>1, <2>2, <3>1, <3>2, OrderIsTotal
    <2>5. BatchIsNext'
      BY <1>9, <2>1, <2>2, <2>4, OrderIsTotal, OrderIsTransitive DEF Yield, feedVars, BatchIsNext, AheadInOrder
    <2>6. CursorLeavesNothingBehind'
      BY <1>9, <2>1, <2>3, <2>4 DEF Yield, feedVars, clientVars, CursorLeavesNothingBehind
    <2> QED
      BY <1>9, <2>5, <2>6 DEF Yield, feedVars, clientVars, NoGap
  <1>10. CASE Disconnect
    BY <1>10 DEF Disconnect, feedVars, clientVars, BatchIsNext,
       CursorLeavesNothingBehind, NoGap, Sent
  <1>11. CASE Receive
    <2>1. /\ wire # <<>> /\ 1 \in DOMAIN wire /\ lastSeen' = wire[1]
          /\ received' = received \cup {wire[1]}
          /\ \A i \in DOMAIN wire : i = 1 \/ (i - 1 \in DOMAIN wire' /\ wire'[i - 1] = wire[i])
      BY <1>11 DEF Receive, TypeOK
    <2>2. pc = "streaming"
      BY <2>1 DEF IdleWhenNotStreaming, TypeOK
    <2>3. Sent \subseteq Sent' \cup {wire[1]}
      BY <2>1 DEF Sent
    <2>4. CursorLeavesNothingBehind'
      BY <1>11, <2>1, <2>3 DEF Receive, feedVars, CursorLeavesNothingBehind
    <2>5. NoGap'
      <3> SUFFICES ASSUME NEW r \in table \ overtaken, Before(start, r), ~Before(wire[1], r)
                   PROVE  r \in received \cup {wire[1]}
        BY <1>11, <2>1 DEF Receive, feedVars, NoGap
      <3>1. r \in Points /\ wire[1] \in Points
        BY <2>1 DEF TypeOK
      <3>2. ~Before(cursor, r)
        BY <2>1, <3>1, OrderIsTotal, OrderIsTransitive DEF AheadInOrder
      <3>3. r \in received \cup Sent
        BY <2>2, <3>2 DEF CursorLeavesNothingBehind
      <3>4. \A i \in DOMAIN wire : wire[i] = r => i = 1
        BY <2>1 DEF AheadInOrder
      <3> QED  BY <3>3, <3>4 DEF Sent
    <2> QED
      BY <1>11, <2>4, <2>5 DEF Receive, feedVars, BatchIsNext
  <1>12. CASE UNCHANGED vars
    BY <1>12 DEF vars, feedVars, streamVars, clientVars, BatchIsNext,
       CursorLeavesNothingBehind, NoGap, Sent
  <1> QED
    BY <1>1, <1>2, <1>3, <1>4, <1>5, <1>6, <1>7, <1>8, <1>9, <1>10, <1>11, <1>12 DEF Next

(***************************************************************************)
(* Whatever the number of emitters and the disconnections, an event that   *)
(* no other overtook is not behind a client, nor behind its stream,        *)
(* without having been received or sent.                                   *)
(***************************************************************************)
THEOREM NothingElseIsLost ==
  ASSUME ForeignIds = {}
  PROVE  Spec => [](NoGap /\ CursorLeavesNothingBehind)
  <1>1. Init => GapInv
    BY DEF Init, GapInv, BatchIsNext, CursorLeavesNothingBehind, NoGap
  <1>2. OrderInv /\ OrderInv' /\ GapInv /\ [Next]_vars => GapInv'
    BY GapStep
  <1>3. GapInv => NoGap /\ CursorLeavesNothingBehind
    BY DEF GapInv
  <1> QED  BY <1>1, <1>2, <1>3, OrderInvariant, PTL DEF Spec

(***************************************************************************)
(* The same of the stream alone, which is ahead of its client: whatever    *)
(* follows the start of the subscription and is not after the cursor is    *)
(* received or on the wire, for any number of emitters.                    *)
(***************************************************************************)
THEOREM CursorSkipsNothing ==
  ASSUME ForeignIds = {}
  PROVE  Spec => []CursorLeavesNothingBehind
  BY NothingElseIsLost, PTL

-----------------------------------------------------------------------------
(* The feed a subscriber is promised. *)

LEMMA ReceiveDelivers ==
  ASSUME OrderInv, GapInv, Receive
  PROVE  Feed!Next
  <1> USE PointsTyped DEF OrderInv
  <1>1. wire # <<>> /\ 1 \in DOMAIN wire /\ lastSeen' = wire[1] /\ received' = received \cup {wire[1]}
    BY DEF Receive, TypeOK
  <1>2. wire[1] \in Rows /\ wire[1] \in Points /\ lastSeen \in Points /\ cursor \in Points
    BY <1>1 DEF TypeOK
  <1>3. Before(lastSeen, wire[1]) /\ AtOrBefore(wire[1], cursor)
    BY <1>1 DEF AheadInOrder
  <1>4. chat = "active" => wire[1] \in table
    BY <1>1 DEF StillStored, Sent
  <1>5. pc = "streaming"
    BY <1>1 DEF IdleWhenNotStreaming, TypeOK
  <1>6. ASSUME NEW s \in table \ overtaken, Before(start, s), Before(lastSeen, s), Before(s, wire[1])
        PROVE  FALSE
    <2>1. s \in Points
      BY DEF TypeOK
    <2>2. ~Before(cursor, s)
      BY <1>2, <1>3, <1>6, <2>1, OrderIsTotal, OrderIsTransitive
    <2>3. s \in received \cup Sent
      BY <1>5, <1>6, <2>2 DEF GapInv, CursorLeavesNothingBehind
    <2>4. s \notin received
      BY <1>2, <1>6, <2>1, OrderIsTotal, OrderIsTransitive DEF AheadInOrder
    <2>5. PICK i \in DOMAIN wire : wire[i] = s
      BY <2>3, <2>4 DEF Sent
    <2>6. i = 1 \/ Before(wire[1], s)
      BY <1>1, <2>5 DEF AheadInOrder
    <2> QED  BY <1>2, <1>6, <2>1, <2>5, <2>6, OrderIsTotal, OrderIsTransitive
  <1>7. UNCHANGED <<table, overtaken, chat, start>>
    BY DEF Receive, feedVars
  <1>8. Feed!Deliver(wire[1])
    BY <1>1, <1>3, <1>4, <1>6, <1>7 DEF Feed!Deliver, TypeOK
  <1> QED  BY <1>2, <1>8 DEF Feed!Next

LEMMA FeedStep ==
  ASSUME OrderInv, GapInv, [Next]_vars, ForeignIds = {}
  PROVE  [Feed!Next]_(Feed!vars)
  <1>1. ASSUME NEW e \in Emitters, Commit(e) PROVE Feed!Next
    <2>1. pending[e] \in Rows
      BY <1>1 DEF Commit, OrderInv, TypeOK
    <2>2. Feed!Store(pending[e])
      BY <1>1 DEF Commit, clientVars, Feed!Store
    <2> QED  BY <2>1, <2>2 DEF Feed!Next
  <1>2. CASE DeleteChat
    BY <1>2 DEF DeleteChat, clientVars, Feed!Next, Feed!Delete
  <1>3. CASE ResolveCursor
    <2>1. CASE StartAtLatest
      <3>1. lastSeen = Beginning
        BY <1>3, <2>1, PointsTyped DEF ResolveCursor, StartAtLatest, OrderInv, IdleWhenNotStreaming, TypeOK
      <3>2. received = {}
        <4> SUFFICES ASSUME NEW r \in received PROVE FALSE
          OBVIOUS
        <4>1. r \in issued /\ AtOrBefore(r, Beginning)
          BY <3>1 DEF OrderInv, AheadInOrder, TypeOK
        <4>2. r \in Points /\ Before(Beginning, r) /\ Beginning \in Points
          BY <4>1, PointsTyped, RowsArePoints DEF OrderInv
        <4> QED  BY <4>1, <4>2, OrderIsTotal
      <3>3. \/ table = {} /\ start' = Beginning
            \/ start' \in table /\ \A s \in table : ~Before(start', s)
        <4>1. \A r, s \in table : AtOrBefore(s, r) => ~Before(r, s)
          BY PointsTyped, OrderIsTotal DEF OrderInv, TypeOK
        <4> QED  BY <2>1, <4>1 DEF StartAtLatest
      <3> QED  BY <1>3, <3>2, <3>3 DEF ResolveCursor, feedVars, Feed!Next, Feed!Subscribe
    <2>2. CASE ResumeUnknown \/ \E r \in table : ResumeAfter(r)
      BY <1>3, <2>2 DEF ResolveCursor, ResumeUnknown, ResumeAfter, feedVars, Feed!vars
    <2> QED  BY <1>3, <2>1, <2>2 DEF ResolveCursor
  <1>4. CASE Receive
    BY <1>4, ReceiveDelivers
  <1>5. CASE Tick \/ (\E e \in Emitters : Stamp(e) \/ Abort(e)) \/ OpenStream \/ Poll \/ Yield
             \/ Disconnect \/ UNCHANGED vars
    BY <1>5 DEF Tick, Stamp, Abort, OpenStream, Poll, Yield, Disconnect, vars, feedVars, clientVars,
       Feed!vars
  <1> QED  BY <1>1, <1>2, <1>3, <1>4, <1>5 DEF Next

(***************************************************************************)
(* For any number of emitters, any batch size and any loss of connections, *)
(* the table, the endpoint and the connection implement EventFeed, for a   *)
(* client that presents only ids it received.                              *)
(***************************************************************************)
THEOREM StreamImplementsFeed ==
  ASSUME ForeignIds = {}
  PROVE  Spec => FeedSpec
  <1>1. Init => Feed!Init
    BY DEF Init, Feed!Init
  <1>2. Init => GapInv
    BY DEF Init, GapInv, BatchIsNext, CursorLeavesNothingBehind, NoGap
  <1>3. OrderInv /\ OrderInv' /\ GapInv /\ [Next]_vars => GapInv'
    BY GapStep
  <1>4. OrderInv /\ GapInv /\ [Next]_vars => [Feed!Next]_(Feed!vars)
    BY FeedStep
  <1> QED  BY <1>1, <1>2, <1>3, <1>4, OrderInvariant, PTL DEF Spec, FeedSpec, Feed!Spec

-----------------------------------------------------------------------------
(* One request at a time. *)

LEMMA CommitsInOrderStep ==
  ASSUME TypeOK, CommitsInOrder, [Next]_vars, \A e, f \in Emitters : e = f
  PROVE  CommitsInOrder'
  <1> USE DEF CommitsInOrder, TypeOK
  <1>0. \A r \in issued : r.at \in Nat /\ r.id \in Nat
    BY RowsArePoints DEF Points
  <1>1. CASE Tick
    BY <1>0, <1>1 DEF Tick
  <1>2. ASSUME NEW e \in Emitters, Stamp(e) PROVE CommitsInOrder'
    BY <1>2 DEF Stamp, NoRow, Beginning
  <1>3. ASSUME NEW e \in Emitters, Commit(e) PROVE CommitsInOrder'
    <2>1. \A r \in table : ~Before(pending[e], r)
      BY <1>0, <1>3 DEF Commit, Before
    <2>2. overtaken' = {}
      BY <1>3, <2>1 DEF Commit
    <2>3. \A f \in Emitters : pending'[f] = NoRow
      BY <1>3 DEF Commit
    <2> QED  BY <1>0, <1>3, <2>2, <2>3 DEF Commit
  <1>4. ASSUME NEW e \in Emitters, Abort(e) PROVE CommitsInOrder'
    BY <1>4 DEF Abort
  <1>5. CASE DeleteChat
    BY <1>5 DEF DeleteChat
  <1>6. CASE OpenStream \/ ResolveCursor \/ Poll \/ Yield \/ Disconnect \/ Receive \/ UNCHANGED vars
    BY <1>6 DEF OpenStream, ResolveCursor, Poll, Yield, Disconnect, Receive, vars, feedVars
  <1> QED  BY <1>1, <1>2, <1>3, <1>4, <1>5, <1>6 DEF Next

(***************************************************************************)
(* When the events of the chat are emitted one at a time, no event is      *)
(* overtaken, and every stored event between the start of the subscription *)
(* and the last event received has been received.                          *)
(***************************************************************************)
THEOREM OneEmitterLosesNothing ==
  ASSUME ForeignIds = {}, \A e, f \in Emitters : e = f
  PROVE  Spec => []PersistedEventsAreDelivered
  <1>1. Init => CommitsInOrder
    BY DEF Init, CommitsInOrder, NoRow
  <1>2. TypeOK /\ CommitsInOrder /\ [Next]_vars => CommitsInOrder'
    BY CommitsInOrderStep
  <1>3. CommitsInOrder /\ NoGap => PersistedEventsAreDelivered
    BY DEF CommitsInOrder, NoGap, PersistedEventsAreDelivered
  <1> QED  BY <1>1, <1>2, <1>3, TypeCorrect, NothingElseIsLost, PTL DEF Spec

=============================================================================
