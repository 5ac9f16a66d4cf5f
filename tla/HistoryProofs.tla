---------------------------- MODULE HistoryProofs ----------------------------
(***************************************************************************)
(* Proofs about what a history leads to: the state a replay of all events  *)
(* of an entity computes (Replayed in Commands), how the read model's row  *)
(* relates to it, and the total of an order.                               *)
(***************************************************************************)
EXTENDS OrderCommands, CommandsProofs, EntityProofs

-----------------------------------------------------------------------------
(* Replays of committed histories *)

LEMMA SameReplay ==
    ASSUME NEW a, EventsOf(a)' = EventsOf(a)
    PROVE  Replayed(a)' = Replayed(a)
BY DEF Replayed, History, EventAt, LatestVersion, Versions

LEMMA VisibleReplays ==
    ASSUME IInv, IInv', NEW w \in Writers, MakeVisible(w),
           NEW a \in Aggregates, a = tx[w].req.agg
    PROVE  Replayed(a)' = ApplyEvent(Replayed(a), EventRow(tx[w]))
<1>1. PICK n \in Nat : n = LatestVersion(a)
  BY DEF IInv
<1>2. /\ LatestVersion(a)' = n + 1
      /\ EventAt(a, n + 1)' = EventRow(tx[w])
      /\ \A v \in 1 .. n : EventAt(a, v)' = EventAt(a, v)
  BY <1>1, VisibleRows
<1>3. PICK h : h = History(a)
  OBVIOUS
<1>4. PICK k : k = History(a)'
  OBVIOUS
<1>5. DOMAIN h = 1 .. n /\ \A v \in 1 .. n : h[v] = EventAt(a, v)
  BY <1>1, <1>3 DEF History
<1>6. DOMAIN k = 1 .. (n + 1) /\ \A v \in 1 .. (n + 1) : k[v] = EventAt(a, v)'
  BY <1>2, <1>4 DEF History
<1>7. (\A v \in 1 .. n : k[v] = h[v]) /\ k[n + 1] = EventRow(tx[w])
  BY <1>2, <1>5, <1>6
<1>8. ReplayOf(k) = ApplyEvent(ReplayOf(h), k[n + 1])
  BY <1>5, <1>6, <1>7, ReplayOfOneMore
<1>9. Replayed(a)' = ReplayOf(k) /\ Replayed(a) = ReplayOf(h)
  BY <1>3, <1>4 DEF Replayed
<1> QED
  BY <1>7, <1>8, <1>9

(* What a replay of an entity leads to changes by one applied event at a   *)
(* time, that of the commit that changed it, and never otherwise.          *)
ReplaysAdvance ==
    [][\A a \in Aggregates :
          \/ EventsOf(a)' = EventsOf(a) /\ Replayed(a)' = Replayed(a)
          \/ \E e \in events' \ events :
                e.agg = a /\ Replayed(a)' = ApplyEvent(Replayed(a), e)]_vars

(* Replaying the whole history of an entity (LoadEvents, Apply in a loop)  *)
(* and applying each event as it is committed lead to the same state,      *)
(* however many writers append to however many entities.                   *)
THEOREM ReplayIsIncremental == Spec => ReplaysAdvance
<1>1. ASSUME IInv, IInv', [Next]_vars, NEW a \in Aggregates
      PROVE  \/ EventsOf(a)' = EventsOf(a) /\ Replayed(a)' = Replayed(a)
             \/ \E e \in events' \ events :
                   e.agg = a /\ Replayed(a)' = ApplyEvent(Replayed(a), e)
  <2>1. CASE events' = events
    BY <2>1, SameEvents, SameReplay
  <2>2. ASSUME NEW w \in Writers, MakeVisible(w), a # tx[w].req.agg
        PROVE  EventsOf(a)' = EventsOf(a) /\ Replayed(a)' = Replayed(a)
    BY <1>1, <2>2, VisibleExtends, SameReplay
  <2>3. ASSUME NEW w \in Writers, MakeVisible(w), a = tx[w].req.agg
        PROVE  \E e \in events' \ events :
                   e.agg = a /\ Replayed(a)' = ApplyEvent(Replayed(a), e)
    <3> DEFINE row == EventRow(tx[w])
    <3>1. Replayed(a)' = ApplyEvent(Replayed(a), row)
      BY <1>1, <2>3, VisibleReplays
    <3>2. row \in events' /\ row.agg = a
      BY <2>3 DEF MakeVisible, EventRow
    <3>3. row \notin events
      <4>1. PICK n \in Nat : n = LatestVersion(a)
        BY <1>1 DEF IInv
      <4>2. row.version = n + 1
        BY <1>1, <2>3, <4>1, VisibleExtends
      <4>3. \A e \in EventsOf(a) : e.version \in 1 .. n
        BY <1>1, <4>1 DEF IInv, HistoryContiguous, Versions
      <4> QED
        BY <3>2, <4>2, <4>3 DEF EventsOf
    <3> QED
      BY <3>1, <3>2, <3>3
  <2> QED
    BY <1>1, <2>1, <2>2, <2>3, CommitOrSame
<1>2. IInv /\ IInv' /\ [Next]_vars =>
        [\A a \in Aggregates :
          \/ EventsOf(a)' = EventsOf(a) /\ Replayed(a)' = Replayed(a)
          \/ \E e \in events' \ events :
                e.agg = a /\ Replayed(a)' = ApplyEvent(Replayed(a), e)]_vars
  BY <1>1
<1> QED
  BY <1>2, Invariance, PTL DEF Spec, ReplaysAdvance

-----------------------------------------------------------------------------
(* Rows of the read model *)

(* The row of an entity is what its latest event alone makes of a fresh    *)
(* entity; every event is that of a command.                               *)
RowOfLatestEvent ==
    \A a \in Aggregates :
        readModel[a].state =
            IF LatestVersion(a) = 0 THEN Fresh
            ELSE TableColumns(ApplyEvent(Fresh, EventAt(a, LatestVersion(a))))

EventsAreRequested ==
    \A e \in events : \E r \in Requests :
        e.agg = r.agg /\ e.type = r.type /\ e.payload = r.payload

RInv == RowOfLatestEvent /\ EventsAreRequested

LEMMA RowsInit == Init => RInv
<1> SUFFICES ASSUME Init PROVE RInv
  OBVIOUS
<1>1. \A a : LatestVersion(a) = 0
  BY MaxOfInterval DEF Init, LatestVersion, Versions, EventsOf
<1>2. \A a \in Aggregates : readModel[a].state = Fresh
  BY DEF Init, NoRow
<1> QED
  BY <1>1, <1>2 DEF RInv, RowOfLatestEvent, EventsAreRequested, Init

LEMMA RowsStep ==
    ASSUME IInv, IInv', CInv, RInv, [Next]_vars
    PROVE  RInv'
<1>1. CASE UNCHANGED database
  BY <1>1, SameEvents DEF RInv, RowOfLatestEvent, EventsAreRequested, EventAt, EventsOf, database
<1>2. ASSUME NEW w \in Writers, MakeVisible(w) PROVE RInv'
  <2> DEFINE row == EventRow(tx[w])
  <2>1. tx[w] \in Tx /\ tx[w].req \in Requests /\ tx[w].req.agg \in Aggregates
    BY <1>2, RequestsAssumption DEF IInv, TypeOK, MakeVisible, Tx
  <2>2. EventsAreRequested'
    <3>1. row.agg = tx[w].req.agg /\ row.type = tx[w].req.type /\ row.payload = tx[w].req.payload
      BY DEF EventRow
    <3>2. \A e \in events' : e \in events \/ e = row
      BY <1>2 DEF MakeVisible
    <3> HIDE DEF row
    <3> QED
      BY <2>1, <3>1, <3>2 DEF RInv, EventsAreRequested
  <2>3. ASSUME NEW a \in Aggregates, a # tx[w].req.agg
        PROVE  /\ readModel'[a] = readModel[a]
               /\ LatestVersion(a)' = LatestVersion(a)
               /\ EventAt(a, LatestVersion(a))' = EventAt(a, LatestVersion(a))
    <3>1. readModel'[a] = readModel[a]
      BY <1>2, <2>3 DEF MakeVisible, IInv, TypeOK
    <3> QED
      BY <1>2, <2>3, <3>1, VisibleExtends DEF EventAt
  <2>4. ASSUME NEW a \in Aggregates, a = tx[w].req.agg
        PROVE  /\ LatestVersion(a)' # 0
               /\ readModel'[a].state =
                     TableColumns(ApplyEvent(Fresh, EventAt(a, LatestVersion(a))'))
    <3>1. PICK n \in Nat : n = LatestVersion(a)
      BY DEF IInv
    <3>2. LatestVersion(a)' = n + 1 /\ EventAt(a, n + 1)' = row
      BY <1>2, <2>4, <3>1, VisibleRows
    <3>3. readModel'[a] = Upsert(readModel[a], row)
      BY <1>2, <2>1, <2>4 DEF MakeVisible, CInv, StagedFresh, IInv, TypeOK
    <3>4. readModel'[a].state = TableColumns(ApplyEvent(Fresh, row))
      BY <3>3 DEF Upsert
    <3>5. EventAt(a, LatestVersion(a))' = row
      BY <3>2 DEF EventAt
    <3> QED
      BY <3>2, <3>4, <3>5
  <2>5. RowOfLatestEvent'
    BY <2>3, <2>4 DEF RInv, RowOfLatestEvent
  <2> QED
    BY <2>2, <2>5 DEF RInv
<1> QED
  BY <1>1, <1>2, CommitOrSameTables

THEOREM Rows == Spec => [](IInv /\ CInv /\ RInv)
<1>1. IInv /\ IInv' /\ CInv /\ RInv /\ [Next]_vars => RInv'
  BY RowsStep
<1> QED
  BY <1>1, RowsInit, Consistency, PTL DEF Spec

(* The projector rebuilds the row from New and one event (catalog.go): the *)
(* table columns of an entity never hold more than its latest event says,  *)
(* whatever was committed before it.                                       *)
THEOREM RowsForgetThePast == Spec => []RowOfLatestEvent
BY Rows, PTL DEF RInv

(* Until its first update an entity's row is the state its history leads   *)
(* to: the create command records every column the table has.              *)
THEOREM CreatedRowsMatchHistory ==
    Spec => [](\A a \in Aggregates : LatestVersion(a) = 1 =>
                  readModel[a].state = TableColumns(Replayed(a)))
<1>1. ASSUME RowOfLatestEvent, NEW a \in Aggregates, LatestVersion(a) = 1
      PROVE  readModel[a].state = TableColumns(Replayed(a))
  <2>1. PICK h : h = History(a)
    OBVIOUS
  <2>2. DOMAIN h = 1 .. (0 + 1) /\ h[0 + 1] = EventAt(a, 1)
    BY <1>1, <2>1 DEF History
  <2>3. DOMAIN <<>> = 1 .. 0 /\ \A i \in 1 .. 0 : h[i] = <<>>[i]
    OBVIOUS
  <2>4. ReplayOf(h)
          = ApplyEvent(ReplayOf(<<>>), h[0 + 1])
    BY <2>2, <2>3, ReplayOfOneMore
  <2>5. Replayed(a) = ApplyEvent(Fresh, EventAt(a, 1))
    BY <2>1, <2>2, <2>3, <2>4, ReplayOfNone DEF Replayed
  <2> QED
    BY <1>1, <2>5 DEF RowOfLatestEvent
<1>2. RowOfLatestEvent =>
        (\A a \in Aggregates : LatestVersion(a) = 1 =>
            readModel[a].state = TableColumns(Replayed(a)))
  BY <1>1
<1> QED
  BY <1>2, RowsForgetThePast, PTL

-----------------------------------------------------------------------------
(* Totals of orders *)

TotalIsSum(o) == {"total", "items"} \subseteq DOMAIN o /\ o.total = TotalOf(o.items)

LEMMA TotalOfNone == TotalOf(<<>>) = 0
<1> DEFINE op(x, y) == y + x.price * x.quantity
           IsSum(g) == g = [s \in SUBSET DOMAIN <<>> |->
               IF s = {} THEN 0 ELSE op(<<>>[Max(s)], g[s \ {Max(s)}])]
           sum == CHOOSE g : IsSum(g)
<1>1. TotalOf(<<>>) = sum[DOMAIN <<>>]
  BY Zenon DEF TotalOf, FoldLeft, MapThenFoldSet
<1>2. DOMAIN <<>> = {}
  OBVIOUS
<1>3. IsSum([s \in SUBSET DOMAIN <<>> |-> 0])
  BY <1>2
<1>4. IsSum(sum)
  BY <1>3, Zenon
<1> HIDE DEF sum
<1>5. {} \in SUBSET DOMAIN <<>>
  BY <1>2
<1>6. sum[{}] = 0
  BY <1>4, <1>5, Zenon
<1> QED
  BY <1>1, <1>2, <1>6

(* New and every event of a command keep the total the sum over the items. *)
LEMMA NewTotal == TotalIsSum(New)
BY TotalOfNone DEF TotalIsSum, New

LEMMA ApplyKeepsTotal ==
    ASSUME NEW o, TotalIsSum(o), NEW event,
           event.type = "OrderCreated" => event.payload.total = TotalOf(event.payload.items)
    PROVE  TotalIsSum(Apply(o, event))
<1>1. ASSUME NEW items PROVE TotalIsSum(WithItems(o, items))
  BY DEF WithItems, TotalIsSum
<1>2. CASE event.type = "OrderCreated"
  BY <1>2 DEF Apply, TotalIsSum
<1>3. CASE event.type = "OrderItemAdded"
  BY <1>1, <1>3 DEF Apply
<1>4. CASE event.type = "OrderItemRemoved"
  BY <1>1, <1>4 DEF Apply
<1>5. CASE event.type = "OrderUpdated"
  BY <1>5 DEF Apply, TotalIsSum
<1>6. CASE event.type = "OrderCancelled"
  BY <1>6 DEF Apply, TotalIsSum
<1>7. CASE event.type \notin {"OrderCreated", "OrderItemAdded", "OrderItemRemoved",
                              "OrderUpdated", "OrderCancelled"}
  BY <1>7 DEF Apply
<1> QED
  BY <1>2, <1>3, <1>4, <1>5, <1>6, <1>7

(* What a replay leads to has the right total after every event, by        *)
(* induction over the history.                                             *)
LEMMA ReplayKeepsTotal ==
    ASSUME Fresh = New, \A o, e : ApplyEvent(o, e) = Apply(o, e),
           NEW n \in Nat, NEW h, DOMAIN h = 1 .. n,
           \A i \in 1 .. n : h[i].type = "OrderCreated" =>
               h[i].payload.total = TotalOf(h[i].payload.items)
    PROVE  TotalIsSum(ReplayOf(h))
<1>1. PICK g : IsFold(h, g, n) /\ ReplayOf(h) = g[1 .. n]
  BY FoldIs
<1> DEFINE T == {m \in Nat : m <= n => TotalIsSum(g[1 .. m])}
<1>2. 0 \in T
  <2>1. 1 .. 0 = {} /\ {} \in SUBSET (1 .. n)
    OBVIOUS
  <2>2. g[{}] = Fresh
    BY <1>1, <2>1, Zenon DEF IsFold
  <2> QED
    BY <2>1, <2>2, NewTotal
<1>3. ASSUME NEW m \in Nat, m \in T PROVE m + 1 \in T
  <2> SUFFICES ASSUME m + 1 <= n PROVE TotalIsSum(g[1 .. (m + 1)])
    OBVIOUS
  <2>1. TotalIsSum(g[1 .. m]) /\ m + 1 \in 1 .. n
    BY <1>3
  <2>2. g[1 .. (m + 1)] = Apply(g[1 .. m], h[m + 1])
    BY <1>1, FoldUnrolls
  <2> QED
    BY <2>1, <2>2, ApplyKeepsTotal
<1> HIDE DEF T
<1>4. n \in T
  BY <1>2, <1>3, NatSetInduction
<1> QED
  BY <1>1, <1>4 DEF T

(* The total of an order is the sum over its items, in the state of every  *)
(* history and in every row of the read model, although creation takes it  *)
(* from the command (service.go), item events recompute it (recalcTotal)   *)
(* and the row is rebuilt from one event (catalog.go).  The hypotheses are *)
(* that the entities are the orders of OrderAggregate.                     *)
THEOREM OrderTotalsAgree ==
    ASSUME Fresh = New,
           \A o, e : ApplyEvent(o, e) = Apply(o, e),
           \A o : TableColumns(o) = Columns(o)
    PROVE  Spec => []TotalsAgree
<1>1. ASSUME IInv, RInv, NEW a \in Aggregates
      PROVE  /\ readModel[a].state.total = TotalOf(readModel[a].state.items)
             /\ Replayed(a).total = TotalOf(Replayed(a).items)
  <2>1. PICK n \in Nat : n = LatestVersion(a)
    BY <1>1 DEF IInv
  <2>2. ASSUME NEW v \in 1 .. n
        PROVE  EventAt(a, v).type = "OrderCreated" =>
                   EventAt(a, v).payload.total = TotalOf(EventAt(a, v).payload.items)
    <3>1. EventAt(a, v) \in events
      BY <1>1, <2>1, EventAtExists DEF EventsOf
    <3>2. PICK r \in Requests : EventAt(a, v).type = r.type /\ EventAt(a, v).payload = r.payload
      BY <1>1, <3>1 DEF RInv, EventsAreRequested
    <3> QED
      BY <3>2, OrderRequestsAssumption
  <2>3. TotalIsSum(Replayed(a))
    <3>1. PICK h : h = History(a)
      OBVIOUS
    <3>2. DOMAIN h = 1 .. n /\ \A v \in 1 .. n : h[v] = EventAt(a, v)
      BY <2>1, <3>1 DEF History
    <3>3. TotalIsSum(ReplayOf(h))
      BY <2>2, <3>2, ReplayKeepsTotal
    <3> QED
      BY <3>1, <3>3 DEF Replayed
  <2>4. TotalIsSum(readModel[a].state)
    <3>1. CASE n = 0
      BY <1>1, <2>1, <3>1, NewTotal DEF RInv, RowOfLatestEvent
    <3>2. CASE n # 0
      <4>1. TotalIsSum(Apply(New, EventAt(a, n)))
        BY <2>2, <3>2, NewTotal, ApplyKeepsTotal
      <4> QED
        BY <1>1, <2>1, <3>2, <4>1 DEF RInv, RowOfLatestEvent, Columns
    <3> QED
      BY <3>1, <3>2
  <2> QED
    BY <2>3, <2>4 DEF TotalIsSum
<1>2. IInv /\ RInv => TotalsAgree
  BY <1>1 DEF TotalsAgree
<1> QED
  BY <1>2, Rows, PTL
=============================================================================
