---------------------------- MODULE CommandsProofs ----------------------------
(***************************************************************************)
(* Proofs about Commands for every set of writers, entities and requests:  *)
(* the logs first, then what clients and readers of the tables see.        *)
(***************************************************************************)
EXTENDS Commands, SequenceTheorems, FiniteSetTheorems, TLAPS

(* LatestVersion of a contiguous history is its length. *)
LEMMA MaxOfInterval ==
    ASSUME NEW n \in Nat
    PROVE  Max((1 .. n) \cup {0}) = n
<1> DEFINE S == (1 .. n) \cup {0}
<1>1. n \in S /\ \A y \in S : n >= y
  OBVIOUS
<1>2. \A m \in S : (\A y \in S : m >= y) => m = n
  BY <1>1
<1> QED
  BY <1>1, <1>2, Zenon DEF Max

-----------------------------------------------------------------------------
(* The inductive invariant.  Contiguity alone is not inductive: it needs   *)
(* what the transactions in flight have read and hold.                     *)
IInv ==
    /\ TypeOK
    /\ \A a \in Aggregates : LatestVersion(a) \in Nat
    /\ HistoryContiguous
    /\ InFlightSound

(* Return resets the writer's locals and touches nothing the types of the  *)
(* tables depend on.                                                       *)
LEMMA ReturnKeepsLocals ==
    ASSUME TypeOK, NEW w \in Writers, NEW kind, NEW version, NEW seen,
           Return(w, kind, version, seen)
    PROVE  /\ pc' \in [Writers -> PCs]
           /\ DOMAIN tx' = Writers
           /\ \A u \in Writers : pc'[u] # "idle" => tx'[u] \in Tx
           /\ DOMAIN staged' = Writers
           /\ \A u \in Writers : staged'[u].version \in Nat
<1>1. NoRow.version \in Nat
  BY DEF NoRow
<1>2. \A u \in Writers : u # w => pc'[u] = pc[u] /\ tx'[u] = tx[u]
  BY DEF TypeOK, Return
<1>3. pc'[w] = "idle"
  BY DEF TypeOK, Return
<1>4. pc' \in [Writers -> PCs] /\ DOMAIN tx' = Writers /\ DOMAIN staged' = Writers
  BY DEF TypeOK, Return, PCs
<1>5. \A u \in Writers : staged'[u].version \in Nat
  BY <1>1 DEF TypeOK, Return
<1> QED
  BY <1>2, <1>3, <1>4, <1>5 DEF TypeOK

(* The row a transaction with checked locals inserts is an events row. *)
LEMMA EventRowType ==
    ASSUME NEW t \in Tx
    PROVE  EventRow(t) \in EventRows
BY RequestsAssumption DEF Tx, EventRow, EventRows

(* Making a transaction's rows visible keeps the types of the tables. *)
LEMMA VisibleKeepsTables ==
    ASSUME TypeOK, NEW w \in Writers, MakeVisible(w)
    PROVE  /\ events' \subseteq EventRows
           /\ outbox' \subseteq [id : Nat, event : Nat]
           /\ DOMAIN readModel' = Aggregates
           /\ \A a \in Aggregates : readModel'[a].version \in Nat
           /\ eventSeq' \in Nat /\ outboxSeq' \in Nat /\ clock' \in Nat
<1>1. tx[w] \in Tx
  BY DEF TypeOK, MakeVisible
<1>2. EventRow(tx[w]) \in EventRows
  BY <1>1, EventRowType
<1>3. [id |-> tx[w].oid, event |-> tx[w].id] \in [id : Nat, event : Nat]
  BY <1>1 DEF Tx
<1>4. DOMAIN readModel' = Aggregates
  BY DEF TypeOK, MakeVisible
<1>5. \A a \in Aggregates : readModel'[a].version \in Nat
  BY DEF TypeOK, MakeVisible
<1> QED
  BY <1>2, <1>3, <1>4, <1>5 DEF TypeOK, MakeVisible, sequences

LEMMA TypeInit == Init => TypeOK
BY DEF Init, TypeOK, NoRow, PCs, Tx

(* Every step keeps the types; that the version Accept reads is a number   *)
(* needs the history to be contiguous, hence finite.                       *)
LEMMA TypeStep == IInv /\ [Next]_vars => TypeOK'
<1> SUFFICES ASSUME IInv, [Next]_vars PROVE TypeOK'
  OBVIOUS
<1>0. TypeOK
  BY DEF IInv
<1> USE DEF database, sequences
<1>1. ASSUME NEW w \in Writers, Begin(w) PROVE TypeOK'
  <2>1. PICK r \in Requests :
           tx' = [tx EXCEPT ![w] = [req |-> r, at |-> clock + 1,
                                    current |-> 0, id |-> 0, oid |-> 0]]
    BY <1>0, <1>1 DEF Begin
  <2>2. tx'[w] \in Tx
    BY <1>0, <2>1 DEF TypeOK, Tx
  <2> QED
    BY <1>0, <1>1, <2>1, <2>2 DEF TypeOK, Begin, PCs
<1>2. ASSUME NEW w \in Writers, Reject(w) PROVE TypeOK'
  BY <1>0, <1>2, ReturnKeepsLocals DEF TypeOK, Reject
<1>3. ASSUME NEW w \in Writers, Accept(w) PROVE TypeOK'
  <2>1. tx[w] \in Tx
    BY <1>0, <1>3 DEF TypeOK, Accept
  <2>2. LatestVersion(tx[w].req.agg) \in Nat
    BY <2>1, RequestsAssumption DEF IInv, Tx
  <2>3. tx'[w] \in Tx
    BY <1>0, <1>3, <2>1, <2>2 DEF TypeOK, Accept, Tx
  <2> QED
    BY <1>0, <1>3, <2>3 DEF TypeOK, Accept, PCs
<1>4. ASSUME NEW w \in Writers, DrawId(w) PROVE TypeOK'
  <2>1. tx'[w] \in Tx
    BY <1>0, <1>4 DEF TypeOK, DrawId, Tx, NextId
  <2> QED
    BY <1>0, <1>4, <2>1 DEF TypeOK, DrawId, PCs, NextId
<1>5. ASSUME NEW w \in Writers, Insert(w) PROVE TypeOK'
  BY <1>0, <1>5 DEF TypeOK, Insert, PCs
<1>6. ASSUME NEW w \in Writers, UniqueViolation(w) PROVE TypeOK'
  BY <1>0, <1>6, ReturnKeepsLocals DEF TypeOK, UniqueViolation
<1>7. ASSUME NEW w \in Writers, InsertOutbox(w) PROVE TypeOK'
  <2>1. tx'[w] \in Tx
    BY <1>0, <1>7 DEF TypeOK, InsertOutbox, Tx, NextId
  <2> QED
    BY <1>0, <1>7, <2>1 DEF TypeOK, InsertOutbox, PCs, NextId
<1>8. ASSUME NEW w \in Writers, Project(w) PROVE TypeOK'
  <2>1. tx[w] \in Tx
    BY <1>0, <1>8 DEF TypeOK, Project
  <2>2. staged'[w].version \in Nat
    BY <1>0, <1>8, <2>1 DEF TypeOK, Project, Upsert, EventRow, Tx
  <2> QED
    BY <1>0, <1>8, <2>2 DEF TypeOK, Project, PCs
<1>9. ASSUME NEW w \in Writers, Commit(w) PROVE TypeOK'
  <2>1. pc' \in [Writers -> PCs] /\ \A u \in Writers : pc'[u] # "idle" => pc[u] # "idle"
    BY <1>0, <1>9 DEF TypeOK, Commit, MakeVisible, PCs
  <2> QED
    BY <1>0, <1>9, <2>1, VisibleKeepsTables DEF TypeOK, Commit
<1>10. ASSUME NEW w \in Writers, CommitUnanswered(w) PROVE TypeOK'
  BY <1>0, <1>10, VisibleKeepsTables, ReturnKeepsLocals DEF TypeOK, CommitUnanswered
<1>11. ASSUME NEW w \in Writers, GetCurrent(w) PROVE TypeOK'
  BY <1>0, <1>11, ReturnKeepsLocals DEF TypeOK, GetCurrent
<1>12. ASSUME NEW w \in Writers, Fail(w) PROVE TypeOK'
  BY <1>0, <1>12, ReturnKeepsLocals DEF TypeOK, Fail
<1>13. CASE UNCHANGED vars
  BY <1>0, <1>13 DEF TypeOK, vars
<1> QED
  BY <1>1, <1>2, <1>3, <1>4, <1>5, <1>6, <1>7, <1>8, <1>9, <1>10, <1>11,
     <1>12, <1>13 DEF Next, Proceed

-----------------------------------------------------------------------------
(* How a step changes the history: not at all, or by exactly the next      *)
(* version of one entity.                                                  *)
LEMMA SameEvents ==
    ASSUME events' = events, NEW a
    PROVE  /\ EventsOf(a)' = EventsOf(a)
           /\ Versions(a)' = Versions(a)
           /\ LatestVersion(a)' = LatestVersion(a)
BY DEF EventsOf, Versions, LatestVersion

LEMMA VisibleExtends ==
    ASSUME IInv, NEW w \in Writers, MakeVisible(w), NEW a \in Aggregates
    PROVE  /\ a # tx[w].req.agg =>
                 /\ EventsOf(a)' = EventsOf(a)
                 /\ LatestVersion(a)' = LatestVersion(a)
                 /\ Versions(a)' = Versions(a)
           /\ a = tx[w].req.agg =>
                 /\ EventsOf(a)' = EventsOf(a) \cup {EventRow(tx[w])}
                 /\ EventRow(tx[w]).version = LatestVersion(a) + 1
                 /\ LatestVersion(a)' = LatestVersion(a) + 1
                 /\ Versions(a)' = 1 .. (LatestVersion(a) + 1)
<1>1. tx[w] \in Tx /\ Holding(w) /\ events' = events \cup {EventRow(tx[w])}
  BY DEF IInv, TypeOK, MakeVisible, Holding
<1>2. EventRow(tx[w]).agg = tx[w].req.agg
  BY DEF EventRow
<1>3. CASE a # tx[w].req.agg
  <2>1. EventsOf(a)' = EventsOf(a)
    BY <1>1, <1>2, <1>3 DEF EventsOf
  <2> QED
    BY <1>3, <2>1 DEF Versions, LatestVersion
<1>4. CASE a = tx[w].req.agg
  <2>1. EventsOf(a)' = EventsOf(a) \cup {EventRow(tx[w])}
    BY <1>1, <1>2, <1>4 DEF EventsOf
  <2>2. EventRow(tx[w]).version = LatestVersion(a) + 1
    BY <1>1, <1>4 DEF IInv, InFlightSound, EventRow
  <2>3. Versions(a)' = Versions(a) \cup {LatestVersion(a) + 1}
    BY <2>1, <2>2 DEF Versions
  <2>4. Versions(a) = 1 .. LatestVersion(a) /\ LatestVersion(a) \in Nat
    BY DEF IInv, HistoryContiguous
  <2>5. Versions(a)' = 1 .. (LatestVersion(a) + 1)
    BY <2>3, <2>4
  <2>6. LatestVersion(a)' = LatestVersion(a) + 1
    <3>1. LatestVersion(a)' = Max(Versions(a)' \cup {0})
      BY DEF LatestVersion
    <3> QED
      BY <3>1, <2>4, <2>5, MaxOfInterval
  <2> QED
    BY <1>4, <2>1, <2>2, <2>5, <2>6
<1> QED
  BY <1>3, <1>4

(* Only a commit changes the events. *)
LEMMA CommitOrSame ==
    ASSUME [Next]_vars
    PROVE  events' = events \/ \E w \in Writers : MakeVisible(w)
BY DEF Next, Proceed, vars, database, Begin, Reject, Accept, DrawId, Insert,
   UniqueViolation, InsertOutbox, Project, Commit, CommitUnanswered, GetCurrent,
   Fail

(* The history stays contiguous with one row per version. *)
LEMMA HistoryStep ==
    ASSUME IInv, [Next]_vars
    PROVE  /\ \A a \in Aggregates : LatestVersion(a)' \in Nat
           /\ HistoryContiguous'
<1>1. CASE \E w \in Writers : MakeVisible(w)
  <2>1. PICK w \in Writers : MakeVisible(w)
    BY <1>1
  <2> SUFFICES ASSUME NEW a \in Aggregates
               PROVE  /\ LatestVersion(a)' \in Nat
                      /\ Versions(a)' = 1 .. LatestVersion(a)'
                      /\ \A e, f \in EventsOf(a)' : e.version = f.version => e = f
    BY DEF HistoryContiguous
  <2>2. /\ LatestVersion(a) \in Nat
        /\ Versions(a) = 1 .. LatestVersion(a)
        /\ \A e, f \in EventsOf(a) : e.version = f.version => e = f
    BY DEF IInv, HistoryContiguous
  <2>3. CASE a # tx[w].req.agg
    BY <2>1, <2>2, <2>3, VisibleExtends
  <2>4. CASE a = tx[w].req.agg
    <3>1. \A e \in EventsOf(a) : e.version # EventRow(tx[w]).version
      BY <2>1, <2>2, <2>4, VisibleExtends DEF Versions
    <3> QED
      BY <2>1, <2>2, <2>4, <3>1, VisibleExtends
  <2> QED
    BY <2>3, <2>4
<1>2. CASE events' = events
  BY <1>2, SameEvents DEF IInv, HistoryContiguous
<1> QED
  BY <1>1, <1>2, CommitOrSame

-----------------------------------------------------------------------------
(* What the transactions in flight know stays true. *)
Checked(w) == pc[w] \in {"checked", "inserting"} \/ Holding(w)

Undisturbed(w) == \A u \in Writers \ {w} : pc'[u] = pc[u] /\ tx'[u] = tx[u]

(* A writer whose transaction is not past its checks is free of promises. *)
LEMMA OutOfFlight ==
    ASSUME IInv, NEW w \in Writers, events' = events, Undisturbed(w), ~Checked(w)'
    PROVE  InFlightSound'
<1>1. \A u \in Writers : Checked(u)' => u # w /\ Checked(u) /\ tx'[u] = tx[u]
  BY DEF Undisturbed, Checked, Holding
<1>2. \A u \in Writers : Holding(u)' => u # w /\ Holding(u) /\ tx'[u] = tx[u]
  BY DEF Undisturbed, Checked, Holding
<1>3. \A u \in Writers : Checked(u)' =>
          LatestVersion(tx[u].req.agg)' = LatestVersion(tx[u].req.agg)
  BY <1>1 DEF LatestVersion, Versions, EventsOf
<1> QED
  BY <1>1, <1>2, <1>3 DEF IInv, InFlightSound, Checked, Rejection

(* A checked transaction that goes on keeps what it has read; it comes to  *)
(* hold the key only when the unique index lets it.                        *)
LEMMA StaysInFlight ==
    ASSUME IInv, NEW w \in Writers, events' = events, Undisturbed(w),
           Checked(w), Checked(w)',
           tx'[w].req = tx[w].req, tx'[w].current = tx[w].current,
           Holding(w)' => Holding(w) \/ KeyFree(w)
    PROVE  InFlightSound'
<1>1. \A u \in Writers : /\ Checked(u)' => Checked(u)
                         /\ u # w => (Holding(u)' <=> Holding(u))
                         /\ tx'[u].req = tx[u].req
                         /\ tx'[u].current = tx[u].current
  BY DEF Undisturbed, Checked, Holding
<1>3. \A u \in Writers : Checked(u)' =>
          /\ (tx[u].current <= LatestVersion(tx[u].req.agg))'
          /\ Rejection(tx[u].req, tx[u].current)' = "none"
  <2> SUFFICES ASSUME NEW u \in Writers, Checked(u)'
               PROVE  /\ (tx[u].current <= LatestVersion(tx[u].req.agg))'
                      /\ Rejection(tx[u].req, tx[u].current)' = "none"
    OBVIOUS
  <2>1. /\ tx[u].current <= LatestVersion(tx[u].req.agg)
        /\ Rejection(tx[u].req, tx[u].current) = "none"
    BY <1>1 DEF IInv, InFlightSound, Checked
  <2>2. LatestVersion(tx[u].req.agg)' = LatestVersion(tx[u].req.agg)
    BY <1>1 DEF LatestVersion, Versions, EventsOf
  <2> QED
    BY <1>1, <2>1, <2>2 DEF Rejection
<1>4. ASSUME KeyFree(w)
      PROVE  /\ tx[w].current = LatestVersion(tx[w].req.agg)
             /\ \A u \in Writers \ {w} : Holding(u) => tx[u].req.agg # tx[w].req.agg
  <2>1. tx[w] \in Tx /\ tx[w].req.agg \in Aggregates /\ tx[w].current \in Nat
    BY RequestsAssumption DEF IInv, TypeOK, Checked, Holding, Tx
  <2>2. tx[w].current <= LatestVersion(tx[w].req.agg)
    BY DEF IInv, InFlightSound, Checked
  <2>3. tx[w].current + 1 \notin 1 .. LatestVersion(tx[w].req.agg)
    BY <1>4, <2>1 DEF KeyFree, KeyTaken, IInv, HistoryContiguous
  <2>4. tx[w].current = LatestVersion(tx[w].req.agg)
    BY <2>1, <2>2, <2>3 DEF IInv
  <2>5. \A u \in Writers \ {w} : Holding(u) =>
            tx[u].current = LatestVersion(tx[u].req.agg)
    BY DEF IInv, InFlightSound
  <2> QED
    BY <1>4, <2>4, <2>5 DEF KeyFree, SameKey
<1>5. \A u, v \in Writers : u # v /\ Holding(u)' /\ Holding(v)' =>
          tx[u].req.agg # tx[v].req.agg
  BY <1>1, <1>4 DEF IInv, InFlightSound
<1>6. \A u \in Writers : Holding(u)' => tx[u].current = LatestVersion(tx[u].req.agg)
  BY <1>1, <1>4 DEF IInv, InFlightSound
<1>7. \A u \in Writers : LatestVersion(tx[u].req.agg)' = LatestVersion(tx[u].req.agg)
  BY <1>1 DEF LatestVersion, Versions, EventsOf
<1> QED
  BY <1>1, <1>3, <1>5, <1>6, <1>7 DEF InFlightSound, Checked

(* The holder of the next version commits: the others of its entity have   *)
(* read an older version and hold nothing.                                 *)
LEMMA VisibleKeepsFlight ==
    ASSUME IInv, NEW w \in Writers, MakeVisible(w), Undisturbed(w), ~Checked(w)'
    PROVE  InFlightSound'
<1>1. \A u \in Writers : Checked(u)' => u # w /\ Checked(u) /\ tx'[u] = tx[u]
  BY DEF Undisturbed, Checked, Holding
<1>2. \A u \in Writers : Holding(u)' => u # w /\ Holding(u) /\ tx'[u] = tx[u]
  BY DEF Undisturbed, Checked, Holding
<1>3. Holding(w)
  BY DEF MakeVisible, Holding
<1>4. ASSUME NEW u \in Writers, Checked(u)'
      PROVE  /\ (tx[u].current <= LatestVersion(tx[u].req.agg))'
             /\ Rejection(tx[u].req, tx[u].current)' = "none"
  <2>1. PICK a \in Aggregates : a = tx[u].req.agg
    BY <1>1, <1>4, RequestsAssumption DEF IInv, TypeOK, Checked, Holding, Tx
  <2>2. tx[u].current \in Nat
    BY <1>1, <1>4 DEF IInv, TypeOK, Checked, Holding, Tx
  <2>3. /\ tx[u].current <= LatestVersion(a)
        /\ Rejection(tx[u].req, tx[u].current) = "none"
    BY <1>1, <1>4, <2>1 DEF IInv, InFlightSound, Checked
  <2>4. LatestVersion(a)' \in {LatestVersion(a), LatestVersion(a) + 1}
    BY VisibleExtends
  <2>5. tx[u].current <= LatestVersion(a)'
    BY <2>2, <2>3, <2>4 DEF IInv
  <2> QED
    BY <1>1, <1>4, <2>1, <2>3, <2>5 DEF Rejection
<1>5. ASSUME NEW u \in Writers, Holding(u)'
      PROVE  (tx[u].current = LatestVersion(tx[u].req.agg))'
  <2>1. PICK a \in Aggregates : a = tx[u].req.agg
    BY <1>2, <1>5, RequestsAssumption DEF IInv, TypeOK, Holding, Tx
  <2>2. a # tx[w].req.agg
    BY <1>2, <1>3, <1>5, <2>1 DEF IInv, InFlightSound
  <2>3. tx[u].current = LatestVersion(a) /\ LatestVersion(a)' = LatestVersion(a)
    BY <1>2, <1>5, <2>1, <2>2, VisibleExtends DEF IInv, InFlightSound
  <2> QED
    BY <1>2, <1>5, <2>1, <2>3
<1> QED
  BY <1>1, <1>2, <1>4, <1>5 DEF IInv, InFlightSound, Checked

LEMMA FlightStep == IInv /\ [Next]_vars => InFlightSound'
<1> SUFFICES ASSUME IInv, [Next]_vars PROVE InFlightSound'
  OBVIOUS
<1>0. TypeOK
  BY DEF IInv
<1> USE DEF database, Undisturbed
<1>1. ASSUME NEW w \in Writers, Begin(w) PROVE InFlightSound'
  <2>1. ~Checked(w)'
    BY <1>0, <1>1 DEF Begin, Checked, Holding, TypeOK
  <2> QED
    BY <1>1, <2>1, OutOfFlight DEF Begin
<1>2. ASSUME NEW w \in Writers,
             events' = events, NEW kind, NEW version, NEW seen,
             Return(w, kind, version, seen)
      PROVE  InFlightSound'
  <2>1. ~Checked(w)'
    BY <1>0, <1>2 DEF Return, Checked, Holding, TypeOK
  <2> QED
    BY <1>2, <2>1, OutOfFlight DEF Return
<1>3. ASSUME NEW w \in Writers, Accept(w) PROVE InFlightSound'
  <2>1. PICK a \in Aggregates : a = tx[w].req.agg /\ LatestVersion(a) \in Nat
    BY <1>0, <1>3, RequestsAssumption DEF Accept, IInv, TypeOK, Tx
  <2>2. /\ tx'[w].req = tx[w].req
        /\ tx'[w].current = LatestVersion(a)
        /\ Rejection(tx[w].req, LatestVersion(a)) = "none"
    BY <1>0, <1>3, <2>1 DEF Accept, TypeOK, Tx
  <2>3. Checked(w)' /\ ~Holding(w)'
    BY <1>0, <1>3 DEF Accept, TypeOK, Checked, Holding
  <2>4. /\ \A u \in Writers \ {w} : pc'[u] = pc[u] /\ tx'[u] = tx[u]
        /\ events' = events
    BY <1>3 DEF Accept
  <2>5. ASSUME NEW u \in Writers, Checked(u)'
        PROVE  /\ (tx[u].current <= LatestVersion(tx[u].req.agg))'
               /\ Rejection(tx[u].req, tx[u].current)' = "none"
    <3>1. CASE u = w
      <4>1. (LatestVersion(tx[u].req.agg))' = LatestVersion(a)
        BY <2>1, <2>2, <2>4, <3>1 DEF LatestVersion, Versions, EventsOf
      <4> QED
        BY <2>1, <2>2, <3>1, <4>1 DEF Rejection
    <3>2. CASE u # w
      <4>1. Checked(u) /\ tx'[u] = tx[u]
        BY <2>4, <2>5, <3>2 DEF Checked, Holding
      <4>2. (LatestVersion(tx[u].req.agg))' = LatestVersion(tx[u].req.agg)
        BY <2>4, <4>1 DEF LatestVersion, Versions, EventsOf
      <4> QED
        BY <4>1, <4>2 DEF IInv, InFlightSound, Checked, Rejection
    <3> QED
      BY <3>1, <3>2
  <2>6. \A u \in Writers : Holding(u)' => u # w /\ Holding(u) /\ tx'[u] = tx[u]
    BY <2>3, <2>4 DEF Holding
  <2>7. \A u \in Writers : Holding(u)' =>
            (LatestVersion(tx[u].req.agg))' = LatestVersion(tx[u].req.agg)
    BY <2>4, <2>6 DEF LatestVersion, Versions, EventsOf
  <2> QED
    BY <2>5, <2>6, <2>7 DEF IInv, InFlightSound, Checked
<1>4. ASSUME NEW w \in Writers,
             DrawId(w) \/ Insert(w) \/ InsertOutbox(w) \/ Project(w)
      PROVE  InFlightSound'
  <2>1. ASSUME DrawId(w) PROVE InFlightSound'
    <3>1. tx[w] \in Tx
      BY <1>0, <2>1 DEF DrawId, TypeOK
    <3>2. Checked(w) /\ Checked(w)' /\ (Holding(w)' => Holding(w) \/ KeyFree(w))
      BY <1>0, <2>1 DEF DrawId, Checked, Holding, TypeOK
    <3>3. tx'[w].req = tx[w].req /\ tx'[w].current = tx[w].current
      BY <1>0, <2>1, <3>1 DEF DrawId, TypeOK, Tx
    <3>4. events' = events /\ \A u \in Writers \ {w} : pc'[u] = pc[u] /\ tx'[u] = tx[u]
      BY <1>0, <2>1 DEF DrawId, TypeOK
    <3> QED
      BY <3>2, <3>3, <3>4, StaysInFlight
  <2>2. ASSUME Insert(w) PROVE InFlightSound'
    <3>1. tx[w] \in Tx
      BY <1>0, <2>2 DEF Insert, TypeOK
    <3>2. Checked(w) /\ Checked(w)' /\ (Holding(w)' => Holding(w) \/ KeyFree(w))
      BY <1>0, <2>2 DEF Insert, Checked, Holding, TypeOK
    <3>3. tx'[w].req = tx[w].req /\ tx'[w].current = tx[w].current
      BY <1>0, <2>2, <3>1 DEF Insert, TypeOK, Tx
    <3>4. events' = events /\ \A u \in Writers \ {w} : pc'[u] = pc[u] /\ tx'[u] = tx[u]
      BY <1>0, <2>2 DEF Insert, TypeOK
    <3> QED
      BY <3>2, <3>3, <3>4, StaysInFlight
  <2>3. ASSUME InsertOutbox(w) PROVE InFlightSound'
    <3>1. tx[w] \in Tx
      BY <1>0, <2>3 DEF InsertOutbox, TypeOK
    <3>2. Checked(w) /\ Checked(w)' /\ (Holding(w)' => Holding(w) \/ KeyFree(w))
      BY <1>0, <2>3 DEF InsertOutbox, Checked, Holding, TypeOK
    <3>3. tx'[w].req = tx[w].req /\ tx'[w].current = tx[w].current
      BY <1>0, <2>3, <3>1 DEF InsertOutbox, TypeOK, Tx
    <3>4. events' = events /\ \A u \in Writers \ {w} : pc'[u] = pc[u] /\ tx'[u] = tx[u]
      BY <1>0, <2>3 DEF InsertOutbox, TypeOK
    <3> QED
      BY <3>2, <3>3, <3>4, StaysInFlight
  <2>4. ASSUME Project(w) PROVE InFlightSound'
    <3>1. tx[w] \in Tx
      BY <1>0, <2>4 DEF Project, TypeOK
    <3>2. Checked(w) /\ Checked(w)' /\ (Holding(w)' => Holding(w) \/ KeyFree(w))
      BY <1>0, <2>4 DEF Project, Checked, Holding, TypeOK
    <3>3. tx'[w].req = tx[w].req /\ tx'[w].current = tx[w].current
      BY <1>0, <2>4, <3>1 DEF Project, TypeOK, Tx
    <3>4. events' = events /\ \A u \in Writers \ {w} : pc'[u] = pc[u] /\ tx'[u] = tx[u]
      BY <1>0, <2>4 DEF Project, TypeOK
    <3> QED
      BY <3>2, <3>3, <3>4, StaysInFlight
  <2> QED
    BY <1>4, <2>1, <2>2, <2>3, <2>4
<1>5. ASSUME NEW w \in Writers, Commit(w) \/ CommitUnanswered(w)
      PROVE  InFlightSound'
  <2>1. ~Checked(w)'
    BY <1>0, <1>5 DEF Commit, CommitUnanswered, Return, Checked, Holding, TypeOK
  <2>2. MakeVisible(w)
    BY <1>5 DEF Commit, CommitUnanswered
  <2>3. Undisturbed(w)
    BY <1>0, <1>5 DEF Commit, CommitUnanswered, Return, TypeOK
  <2> QED
    BY <2>1, <2>2, <2>3, VisibleKeepsFlight
<1>6. CASE UNCHANGED vars
  BY <1>6 DEF vars, IInv, InFlightSound, Holding, LatestVersion, Versions, EventsOf
<1>7. ASSUME NEW w \in Writers,
             Reject(w) \/ UniqueViolation(w) \/ GetCurrent(w) \/ Fail(w)
      PROVE  InFlightSound'
  BY <1>2, <1>7 DEF Reject, UniqueViolation, GetCurrent, Fail
<1> QED
  BY <1>1, <1>3, <1>4, <1>5, <1>6, <1>7 DEF Next, Proceed

LEMMA InductiveInit == Init => IInv
<1> SUFFICES ASSUME Init PROVE IInv
  OBVIOUS
<1>1. \A a : Versions(a) = {} /\ EventsOf(a) = {}
  BY DEF Init, Versions, EventsOf
<1>2. \A a : LatestVersion(a) = 0
  BY <1>1, MaxOfInterval DEF LatestVersion
<1>3. InFlightSound
  BY DEF Init, InFlightSound, Holding
<1> QED
  BY <1>1, <1>2, <1>3, TypeInit DEF IInv, HistoryContiguous

(* The inductive invariant holds in every reachable state of append.       *)
THEOREM Invariance == Spec => []IInv
<1>1. IInv /\ [Next]_vars => IInv'
  BY TypeStep, HistoryStep, FlightStep DEF IInv
<1> QED
  BY InductiveInit, <1>1, PTL DEF Spec

(* append keeps the shapes of its tables, sequences and locals, for any    *)
(* number of writers, entities and requests.                               *)
THEOREM TypeCorrect == Spec => []TypeOK
BY Invariance, PTL DEF IInv

(* Concurrent writers never corrupt a history (PRD): its versions are      *)
(* 1..n, one row each, for any number of writers and failures.             *)
THEOREM HistoryIsContiguous == Spec => []HistoryContiguous
BY Invariance, PTL DEF IInv

(* At most one transaction holds an uncommitted row of an entity, and it   *)
(* holds the next version.                                                 *)
THEOREM OnlyTheNextVersionIsHeld == Spec => []InFlightSound
BY Invariance, PTL DEF IInv

(* An entity is created once and first (aggregate conflict, not found): a  *)
(* create that commits saw version 0 and still appends version 1.          *)
THEOREM CreationIsFirst == Spec => []CreatedOnceAndFirst
<1>1. Init => CreatedOnceAndFirst
  BY DEF Init, CreatedOnceAndFirst
<1>2. IInv /\ CreatedOnceAndFirst /\ [Next]_vars => CreatedOnceAndFirst'
  <2> SUFFICES ASSUME IInv, CreatedOnceAndFirst, [Next]_vars
               PROVE  CreatedOnceAndFirst'
    OBVIOUS
  <2>1. CASE events' = events
    BY <2>1 DEF CreatedOnceAndFirst
  <2>2. ASSUME NEW w \in Writers, MakeVisible(w)
        PROVE  CreatedOnceAndFirst'
    <3>1. tx[w] \in Tx /\ Rejection(tx[w].req, tx[w].current) = "none"
      BY <2>2 DEF MakeVisible, Holding, IInv, TypeOK, InFlightSound
    <3>2. tx[w].req.type = CreatedType <=> tx[w].current = 0
      BY <3>1 DEF Rejection, Tx
    <3>3. EventRow(tx[w]).type = CreatedType <=> EventRow(tx[w]).version = 1
      BY <3>1, <3>2 DEF EventRow, Tx
    <3> QED
      BY <2>2, <3>3 DEF MakeVisible, CreatedOnceAndFirst
  <2> QED
    BY <2>1, <2>2, CommitOrSame
<1> QED
  BY <1>1, <1>2, Invariance, PTL DEF Spec

-----------------------------------------------------------------------------
(* The committed rows implement the abstract log. *)
Changes == [type : {r.type : r \in Requests}, payload : {r.payload : r \in Requests}]

ChangeOf(e) == [type |-> e.type, payload |-> e.payload]

(* Each version of a contiguous history names one row. *)
LEMMA EventAtExists ==
    ASSUME IInv, NEW a \in Aggregates, NEW v \in 1 .. LatestVersion(a)
    PROVE  EventAt(a, v) \in EventsOf(a) /\ EventAt(a, v).version = v
<1>1. \E e \in EventsOf(a) : e.version = v
  BY DEF IInv, HistoryContiguous, Versions
<1> QED
  BY <1>1 DEF EventAt

LEMMA ChangesType ==
    ASSUME IInv, NEW a \in Aggregates
    PROVE  /\ ChangesOf(a) \in Seq(Changes)
           /\ Len(ChangesOf(a)) = LatestVersion(a)
<1>1. LatestVersion(a) \in Nat
  BY DEF IInv
<1>2. \A v \in 1 .. LatestVersion(a) :
          [type |-> EventAt(a, v).type, payload |-> EventAt(a, v).payload] \in Changes
  <2> SUFFICES ASSUME NEW v \in 1 .. LatestVersion(a)
               PROVE  [type |-> EventAt(a, v).type,
                       payload |-> EventAt(a, v).payload] \in Changes
    OBVIOUS
  <2>1. EventAt(a, v) \in EventRows
    BY EventAtExists DEF IInv, TypeOK, EventsOf
  <2> QED
    BY <2>1 DEF EventRows, Changes
<1>3. ChangesOf(a) \in [1 .. LatestVersion(a) -> Changes]
  BY <1>2 DEF ChangesOf
<1> QED
  BY <1>1, <1>3

(* A step that does not touch an entity's rows does not touch its changes. *)
LEMMA SameChanges ==
    ASSUME NEW a, EventsOf(a)' = EventsOf(a)
    PROVE  ChangesOf(a)' = ChangesOf(a)
BY DEF ChangesOf, EventAt, LatestVersion, Versions

(* A commit gives its row the next version and leaves the others in place. *)
LEMMA VisibleRows ==
    ASSUME IInv, IInv', NEW w \in Writers, MakeVisible(w),
           NEW a \in Aggregates, a = tx[w].req.agg,
           NEW n \in Nat, n = LatestVersion(a)
    PROVE  /\ LatestVersion(a)' = n + 1
           /\ EventAt(a, n + 1)' = EventRow(tx[w])
           /\ \A v \in 1 .. n : EventAt(a, v)' = EventAt(a, v)
<1> DEFINE row == EventRow(tx[w])
<1>1. /\ EventsOf(a)' = EventsOf(a) \cup {row}
      /\ row.version = n + 1
      /\ LatestVersion(a)' = n + 1
  BY VisibleExtends
<1>2. \A v \in 1 .. (n + 1) : EventAt(a, v)' \in EventsOf(a)' /\ EventAt(a, v)'.version = v
  <2>1. \A v \in 1 .. (n + 1) : \E e \in EventsOf(a)' : e.version = v
    BY <1>1, VisibleExtends DEF Versions
  <2> QED
    BY <2>1 DEF EventAt
<1>3. \A e, f \in EventsOf(a)' : e.version = f.version => e = f
  BY DEF IInv, HistoryContiguous
<1>4. EventAt(a, n + 1)' = row
  BY <1>1, <1>2, <1>3
<1>5. \A v \in 1 .. n : EventAt(a, v)' = EventAt(a, v)
  <2> SUFFICES ASSUME NEW v \in 1 .. n PROVE EventAt(a, v)' = EventAt(a, v)
    OBVIOUS
  <2>1. EventAt(a, v) \in EventsOf(a)' /\ EventAt(a, v).version = v
    BY <1>1, EventAtExists
  <2>2. v \in 1 .. (n + 1)
    OBVIOUS
  <2> QED
    BY <1>2, <1>3, <2>1, <2>2
<1> QED
  BY <1>1, <1>4, <1>5

(* A commit appends the command's change to the changes of its entity.     *)
LEMMA VisibleAppends ==
    ASSUME IInv, IInv', NEW w \in Writers, MakeVisible(w),
           NEW a \in Aggregates, a = tx[w].req.agg
    PROVE  ChangesOf(a)' = Append(ChangesOf(a), ChangeOf(tx[w].req))
<1>1. PICK n \in Nat : n = LatestVersion(a)
  BY DEF IInv
<1> DEFINE row == EventRow(tx[w])
<1>2. /\ LatestVersion(a)' = n + 1
      /\ EventAt(a, n + 1)' = row
      /\ \A v \in 1 .. n : EventAt(a, v)' = EventAt(a, v)
  BY <1>1, VisibleRows
<1>3. ChangeOf(row) = ChangeOf(tx[w].req)
  BY DEF ChangeOf, EventRow
<1>4. ChangesOf(a)' = [v \in 1 .. (n + 1) |-> ChangeOf(EventAt(a, v)')]
  BY <1>2 DEF ChangesOf, ChangeOf
<1>5. ChangesOf(a) = [v \in 1 .. n |-> ChangeOf(EventAt(a, v))]
  BY <1>1 DEF ChangesOf, ChangeOf
<1>6. ChangeOf(tx[w].req) \in Changes
  BY DEF IInv, TypeOK, MakeVisible, Tx, ChangeOf, Changes
<1> DEFINE appended == Append(ChangesOf(a), ChangeOf(tx[w].req))
<1>7. ChangesOf(a) \in Seq(Changes) /\ Len(ChangesOf(a)) = n
  BY <1>1, ChangesType
<1>8. /\ appended \in Seq(Changes) /\ Len(appended) = n + 1
       /\ \A v \in 1 .. n : appended[v] = ChangesOf(a)[v]
       /\ appended[n + 1] = ChangeOf(tx[w].req)
  BY <1>6, <1>7, AppendProperties
<1>9. appended = [v \in 1 .. (n + 1) |-> appended[v]]
  BY <1>1, <1>8
<1>10. \A v \in 1 .. (n + 1) : ChangeOf(EventAt(a, v)') = appended[v]
  BY <1>1, <1>2, <1>3, <1>5, <1>8
<1> QED
  BY <1>4, <1>9, <1>10

(* A commit is an append to the abstract log: the conditions the command   *)
(* was checked against still hold of the log at that instant.              *)
LEMMA VisibleIsAppend ==
    ASSUME IInv, IInv', NEW w \in Writers, MakeVisible(w)
    PROVE  Log!AppendTo(tx[w].req)
<1> DEFINE r == tx[w].req
<1>1. PICK a \in Aggregates : a = r.agg
  BY RequestsAssumption DEF IInv, TypeOK, MakeVisible, Tx
<1>2. /\ tx[w] \in Tx
      /\ tx[w].current = LatestVersion(a)
      /\ Rejection(r, LatestVersion(a)) = "none"
  BY <1>1 DEF IInv, TypeOK, InFlightSound, MakeVisible, Holding
<1>3. ChangesOf(a) \in Seq(Changes) /\ Len(ChangesOf(a)) = LatestVersion(a)
  BY ChangesType
<1>4. ChangesOf(a) = <<>> <=> LatestVersion(a) = 0
  BY <1>3
<1>5. (r.type = CreatedType) <=> (ChangesOf(a) = <<>>)
  BY <1>2, <1>4 DEF Rejection, IInv
<1>6. r.expected \in {NoExpectation, Len(ChangesOf(a))}
  BY <1>2, <1>3 DEF Rejection
<1>7. ChangesOf(a)' = Append(ChangesOf(a), ChangeOf(r))
  BY <1>1, VisibleAppends
<1>8. \A b \in Aggregates : b # a => ChangesOf(b)' = ChangesOf(b)
  BY <1>1, VisibleExtends, SameChanges
<1> DEFINE log == [b \in Aggregates |-> ChangesOf(b)]
<1>9. log' = [b \in Aggregates |->
                 IF b = a THEN Append(ChangesOf(a), ChangeOf(r)) ELSE ChangesOf(b)]
  BY <1>7, <1>8
<1>10. log' = [log EXCEPT ![a] = Append(@, ChangeOf(r))]
  BY <1>9
<1> QED
  BY <1>1, <1>5, <1>6, <1>10 DEF Log!AppendTo, Log!Change, ChangeOf

(* Check, insert and commit of append together are one atomic conditional  *)
(* append: the write path implements VersionedLog.                         *)
THEOREM WritePathAppendsAtomically == Spec => AppendsAtomically
<1> DEFINE log == [a \in Aggregates |-> ChangesOf(a)]
<1>1. Init => Log!Init
  <2> SUFFICES ASSUME Init PROVE log = [a \in Aggregates |-> <<>>]
    BY DEF Log!Init
  <2>1. \A a \in Aggregates : LatestVersion(a) = 0 /\ Len(ChangesOf(a)) = 0
                              /\ ChangesOf(a) \in Seq(Changes)
    BY InductiveInit, ChangesType, MaxOfInterval
       DEF Init, LatestVersion, Versions, EventsOf
  <2>2. \A a \in Aggregates : ChangesOf(a) = <<>>
    BY <2>1
  <2> QED
    BY <2>2
<1>2. IInv /\ IInv' /\ [Next]_vars => [Log!Next]_log
  <2> SUFFICES ASSUME IInv, IInv', [Next]_vars PROVE [Log!Next]_log
    OBVIOUS
  <2>1. CASE events' = events
    <3>1. \A a : ChangesOf(a)' = ChangesOf(a)
      BY <2>1, SameEvents, SameChanges
    <3> QED
      BY <3>1
  <2>2. ASSUME NEW w \in Writers, MakeVisible(w)
        PROVE  Log!Next
    <3>1. tx[w].req \in Requests
      BY <2>2 DEF IInv, TypeOK, MakeVisible, Tx
    <3> QED
      BY <2>2, <3>1, VisibleIsAppend DEF Log!Next
  <2> QED
    BY <2>1, <2>2, CommitOrSame
<1> QED
  BY <1>1, <1>2, Invariance, PTL DEF Spec, AppendsAtomically, Log!Spec

-----------------------------------------------------------------------------
(* What readers of the tables and clients see, on top of IInv *)

Active(w) == pc[w] # "idle"

Uncommitted(w) == pc[w] \notin {"idle", "committed"}

(* The transaction has drawn the id of its event, of its outbox row. *)
Drawn(w)  == pc[w] = "inserting" \/ Holding(w)
Queued(w) == pc[w] \in {"queued", "projected"}

(* Start times tell commands apart: those that run, the events they have   *)
(* left and the replies they were given.                                   *)
Stamped ==
    /\ \A e \in events : e.at <= clock
    /\ \A k \in replies : k.at \in 0 .. clock
    /\ \A w \in Writers : Active(w) => tx[w].at <= clock
    /\ \A k \in replies, l \in replies : k.at = l.at => k = l
    /\ \A w \in Writers, u \in Writers :
          Active(w) /\ Active(u) /\ tx[w].at = tx[u].at => w = u
    /\ \A w \in Writers, k \in replies : Active(w) => k.at # tx[w].at
    /\ \A w \in Writers, e \in events : Uncommitted(w) => e.at # tx[w].at

(* What a command that has committed did is in the log, and it had been    *)
(* checked against the version before its own.                             *)
Told ==
    /\ \A w \in Writers : pc[w] = "committed" =>
          /\ EventRow(tx[w]) \in events
          /\ Rejection(tx[w].req, tx[w].current) = "none"
    /\ \A k \in Succeeded :
          /\ k.req \in Requests
          /\ k.req.expected \in {NoExpectation, k.version - 1}

(* An id is drawn once, after every event was visible that the transaction *)
(* has read: only events that will make it fail can have a larger one.     *)
Numbered ==
    /\ \A e \in events : e.id <= eventSeq
    /\ \A e \in events, f \in events : e.id = f.id => e = f
    /\ \A e \in events, f \in events :
          e.agg = f.agg /\ e.version < f.version => e.id < f.id
    /\ \A w \in Writers : Drawn(w) => tx[w].id <= eventSeq
    /\ \A w \in Writers, u \in Writers :
          Drawn(w) /\ Drawn(u) /\ tx[w].id = tx[u].id => w = u
    /\ \A w \in Writers, e \in events : Drawn(w) =>
          /\ e.id # tx[w].id
          /\ e.agg = tx[w].req.agg /\ e.version <= tx[w].current => e.id < tx[w].id

(* The same for the outbox, whose rows are drawn by the only transaction   *)
(* that holds a row of the entity.                                         *)
OutboxNumbered ==
    /\ \A p \in outbox : p.id <= outboxSeq /\ \E e \in events : e.id = p.event
    /\ \A p \in outbox, q \in outbox : p.event = q.event => p = q
    /\ \A e \in events, f \in events, p \in outbox, q \in outbox :
          e.agg = f.agg /\ e.version < f.version /\ p.event = e.id /\ q.event = f.id
             => p.id < q.id
    /\ \A w \in Writers : Queued(w) => tx[w].oid <= outboxSeq
    /\ \A w \in Writers, e \in events, p \in outbox :
          Queued(w) /\ e.agg = tx[w].req.agg /\ p.event = e.id => p.id < tx[w].oid

(* The projector read the row its upsert will replace: nobody else can     *)
(* commit a row of the entity in between.                                  *)
StagedFresh ==
    \A w \in Writers : pc[w] = "projected" =>
        staged[w] = Upsert(readModel[tx[w].req.agg], EventRow(tx[w]))

-----------------------------------------------------------------------------
(* What each kind of step leaves alone *)

Others(w) == \A u \in Writers \ {w} :
                 pc'[u] = pc[u] /\ tx'[u] = tx[u] /\ staged'[u] = staged[u]

Local(w) == Accept(w) \/ DrawId(w) \/ Insert(w) \/ InsertOutbox(w) \/ Project(w)

Refuse(w) == Reject(w) \/ UniqueViolation(w)

(* A step inside a transaction changes the locals of its writer only. *)
LEMMA LocalFrame ==
    ASSUME TypeOK, NEW w \in Writers, Local(w)
    PROVE  /\ Others(w)
           /\ Uncommitted(w) /\ Uncommitted(w)'
           /\ tx[w] \in Tx /\ tx'[w].req = tx[w].req /\ tx'[w].at = tx[w].at
           /\ UNCHANGED <<events, outbox, readModel, clock, replies>>
<1> USE DEF TypeOK, Others, Uncommitted, database, Tx
<1>1. CASE Accept(w)
  BY <1>1 DEF Accept
<1>2. CASE DrawId(w)
  BY <1>2 DEF DrawId
<1>3. CASE Insert(w)
  BY <1>3 DEF Insert
<1>4. CASE InsertOutbox(w)
  BY <1>4 DEF InsertOutbox
<1>5. CASE Project(w)
  BY <1>5 DEF Project
<1> QED
  BY <1>1, <1>2, <1>3, <1>4, <1>5 DEF Local

(* A reply ends the command and changes no table. *)
LEMMA ReturnFrame ==
    ASSUME TypeOK, NEW w \in Writers, NEW kind, NEW version, NEW seen,
           Return(w, kind, version, seen)
    PROVE  /\ Others(w) /\ pc'[w] = "idle"
           /\ replies' = replies \cup {[kind |-> kind, at |-> tx[w].at, req |-> tx[w].req,
                                        version |-> version, seen |-> seen]}
BY DEF TypeOK, Return, Others

(* A commit: its writer leaves the transaction, answered or not. *)
LEMMA CommitFrame ==
    ASSUME TypeOK, NEW w \in Writers, Commit(w) \/ CommitUnanswered(w)
    PROVE  /\ Others(w) /\ MakeVisible(w) /\ tx[w] \in Tx /\ Holding(w) /\ Queued(w)
           /\ Uncommitted(w) /\ Drawn(w) /\ Active(w)
           /\ \/ pc'[w] = "committed" /\ tx'[w] = tx[w] /\ replies' = replies
              \/ pc'[w] = "idle"
                 /\ \E k : k.at = tx[w].at /\ k.kind = "error" /\ replies' = replies \cup {k}
<1>1. MakeVisible(w)
  BY DEF Commit, CommitUnanswered
<1>2. /\ tx[w] \in Tx /\ Holding(w) /\ Queued(w) /\ Uncommitted(w) /\ Drawn(w) /\ Active(w)
  BY <1>1 DEF MakeVisible, TypeOK, Holding, Queued, Uncommitted, Drawn, Active
<1>3. CASE Commit(w)
  BY <1>1, <1>2, <1>3 DEF Commit, Others, TypeOK
<1>4. CASE CommitUnanswered(w)
  <2>1. Return(w, "error", 0, 0)
    BY <1>4 DEF CommitUnanswered
  <2> DEFINE k == [kind |-> "error", at |-> tx[w].at, req |-> tx[w].req,
                   version |-> 0, seen |-> 0]
  <2>2. k.at = tx[w].at /\ k.kind = "error" /\ replies' = replies \cup {k}
    BY <2>1, ReturnFrame
  <2>3. \E r : r.at = tx[w].at /\ r.kind = "error" /\ replies' = replies \cup {r}
    BY <2>2
  <2> QED
    BY <1>1, <1>2, <2>1, <2>3, ReturnFrame
<1> QED
  BY <1>3, <1>4

(* The kinds of steps of the write path. *)
LEMMA StepKinds ==
    ASSUME [Next]_vars
    PROVE  \/ UNCHANGED vars
           \/ \E w \in Writers : \/ Begin(w) \/ Local(w) \/ Refuse(w) \/ GetCurrent(w)
                                 \/ Fail(w) \/ Commit(w) \/ CommitUnanswered(w)
BY DEF Next, Proceed, Local, Refuse

(* A reply: a success tells what was committed, a refusal comes from a     *)
(* transaction that is rolled back.                                        *)
LEMMA AnswerFrame ==
    ASSUME TypeOK, NEW w \in Writers, Refuse(w) \/ GetCurrent(w) \/ Fail(w)
    PROVE  /\ Others(w) /\ Active(w) /\ tx[w] \in Tx /\ pc'[w] = "idle"
           /\ UNCHANGED <<events, outbox, readModel, eventSeq, outboxSeq, clock>>
           /\ \E k : /\ replies' = replies \cup {k}
                     /\ k.at = tx[w].at /\ k.req = tx[w].req
                     /\ k.kind \in Refusals => Uncommitted(w)
                     /\ k.kind = "ok" =>
                           /\ pc[w] = "committed"
                           /\ k.version = tx[w].current + 1
                           /\ k.seen = readModel[tx[w].req.agg].version
<1> DEFINE reply(kind, version, seen) ==
        [kind |-> kind, at |-> tx[w].at, req |-> tx[w].req, version |-> version, seen |-> seen]
<1>1. CASE Refuse(w)
  <2>1. PICK kind : kind \in Refusals /\ Return(w, kind, 0, 0)
    BY <1>1, Zenon DEF Refuse, Reject, UniqueViolation, Rejection, Refusals
  <2>2. /\ Uncommitted(w) /\ Active(w) /\ tx[w] \in Tx
        /\ UNCHANGED <<events, outbox, readModel, eventSeq, outboxSeq, clock>>
    BY <1>1 DEF Refuse, Reject, UniqueViolation, Uncommitted, Active, TypeOK, database, sequences
  <2>3. kind # "ok"
    BY <2>1 DEF Refusals
  <2>4. /\ replies' = replies \cup {reply(kind, 0, 0)} /\ reply(kind, 0, 0).kind = kind
        /\ reply(kind, 0, 0).at = tx[w].at /\ reply(kind, 0, 0).req = tx[w].req
    BY <2>1, ReturnFrame
  <2> QED
    BY <2>1, <2>2, <2>3, <2>4, ReturnFrame
<1>2. CASE GetCurrent(w)
  <2> DEFINE seen == readModel[tx[w].req.agg].version
             k    == reply("ok", tx[w].current + 1, seen)
  <2>1. /\ Return(w, "ok", tx[w].current + 1, seen) /\ pc[w] = "committed"
        /\ Active(w) /\ tx[w] \in Tx
        /\ UNCHANGED <<events, outbox, readModel, eventSeq, outboxSeq, clock>>
    BY <1>2 DEF GetCurrent, Active, TypeOK, database, sequences
  <2>2. /\ replies' = replies \cup {k} /\ k.kind = "ok" /\ k.at = tx[w].at
        /\ k.req = tx[w].req /\ k.version = tx[w].current + 1 /\ k.seen = seen
    BY <2>1, ReturnFrame
  <2>3. k.kind \notin Refusals
    BY DEF Refusals
  <2> QED
    BY <2>1, <2>2, <2>3, ReturnFrame
<1>3. CASE Fail(w)
  <2> DEFINE k == reply("error", 0, 0)
  <2>1. /\ Return(w, "error", 0, 0) /\ Active(w) /\ tx[w] \in Tx
        /\ UNCHANGED <<events, outbox, readModel, eventSeq, outboxSeq, clock>>
    BY <1>3 DEF Fail, Active, TypeOK, database, sequences
  <2>2. /\ replies' = replies \cup {k} /\ k.kind = "error" /\ k.at = tx[w].at
        /\ k.req = tx[w].req
    BY <2>1, ReturnFrame
  <2>3. k.kind \notin Refusals /\ k.kind # "ok"
    BY DEF Refusals
  <2> QED
    BY <2>1, <2>2, <2>3, ReturnFrame
<1> QED
  BY <1>1, <1>2, <1>3

(* A request that arrives gets a start time nobody has. *)
LEMMA BeginFrame ==
    ASSUME TypeOK, NEW w \in Writers, Begin(w)
    PROVE  /\ Others(w) /\ ~Active(w)
           /\ pc'[w] = "begun" /\ tx'[w].at = clock + 1 /\ clock' = clock + 1
           /\ UNCHANGED <<events, outbox, readModel, eventSeq, outboxSeq, replies>>
BY DEF TypeOK, Begin, Others, Active, database, sequences

-----------------------------------------------------------------------------
(* Start times *)

LEMMA StampedStep ==
    ASSUME TypeOK, Stamped, [Next]_vars
    PROVE  Stamped'
<1> USE DEF Stamped, Others, Active, Uncommitted
<1>0. /\ clock \in Nat /\ \A e \in events : e.at \in Nat
      /\ \A w \in Writers : Active(w) => tx[w].at \in Nat
  BY DEF TypeOK, EventRows, Tx
<1>1. CASE UNCHANGED vars
  BY <1>1 DEF vars
<1>2. ASSUME NEW w \in Writers, Begin(w) PROVE Stamped'
  <2>1. \A k \in replies : k.at \in 0 .. (clock + 1) /\ k.at # clock + 1
    BY <1>0
  <2>2. \A u \in Writers \ {w} : Active(u) => tx[u].at <= clock + 1 /\ tx[u].at # clock + 1
    BY <1>0
  <2>3. \A e \in events : e.at <= clock + 1 /\ e.at # clock + 1
    BY <1>0
  <2> QED
    BY <1>0, <1>2, <2>1, <2>2, <2>3, BeginFrame
<1>3. ASSUME NEW w \in Writers, Local(w) PROVE Stamped'
  BY <1>3, LocalFrame
<1>4. ASSUME NEW w \in Writers, Refuse(w) \/ GetCurrent(w) \/ Fail(w) PROVE Stamped'
  BY <1>0, <1>4, AnswerFrame
<1>5. ASSUME NEW w \in Writers, Commit(w) \/ CommitUnanswered(w) PROVE Stamped'
  <2>1. /\ events' = events \cup {EventRow(tx[w])} /\ clock' = clock
        /\ EventRow(tx[w]).at = tx[w].at
    BY <1>5, CommitFrame DEF MakeVisible, EventRow
  <2>2. CASE pc'[w] = "committed" /\ tx'[w] = tx[w] /\ replies' = replies
    BY <1>0, <1>5, <2>1, <2>2, CommitFrame
  <2>3. CASE /\ pc'[w] = "idle"
             /\ \E k : k.at = tx[w].at /\ k.kind = "error" /\ replies' = replies \cup {k}
    BY <1>0, <1>5, <2>1, <2>3, CommitFrame
  <2> QED
    BY <1>5, <2>2, <2>3, CommitFrame
<1> QED
  BY <1>1, <1>2, <1>3, <1>4, <1>5, StepKinds

-----------------------------------------------------------------------------
(* What committed commands and successful replies say *)

LEMMA ToldStep ==
    ASSUME IInv, Told, [Next]_vars
    PROVE  Told'
<1> USE DEF Others, EventRow, Rejection
<1>0. TypeOK
  BY DEF IInv
<1>1. CASE UNCHANGED vars
  BY <1>1 DEF vars, Told, Succeeded
<1>2. ASSUME NEW w \in Writers, Begin(w) PROVE Told'
  BY <1>0, <1>2, BeginFrame DEF Told, Succeeded
<1>3. ASSUME NEW w \in Writers, Local(w) PROVE Told'
  BY <1>0, <1>3, LocalFrame DEF Told, Succeeded, Uncommitted
<1>4. ASSUME NEW w \in Writers, Refuse(w) \/ GetCurrent(w) \/ Fail(w) PROVE Told'
  <2>1. PICK k : /\ replies' = replies \cup {k} /\ k.req = tx[w].req
                 /\ k.kind = "ok" => /\ pc[w] = "committed"
                                     /\ k.version = tx[w].current + 1
    BY <1>0, <1>4, AnswerFrame
  <2>2. tx[w] \in Tx /\ tx[w].req \in Requests /\ tx[w].current \in Nat
    BY <1>0, <1>4, AnswerFrame DEF Tx
  <2>3. k.kind = "ok" => /\ k.req \in Requests
                         /\ k.req.expected \in {NoExpectation, k.version - 1}
    <3> SUFFICES ASSUME k.kind = "ok"
                 PROVE  k.req.expected \in {NoExpectation, k.version - 1}
      BY <2>1, <2>2
    <3>1. Rejection(tx[w].req, tx[w].current) = "none"
      BY <2>1 DEF Told
    <3>2. tx[w].req.expected \in {NoExpectation, tx[w].current}
      BY <3>1
    <3>3. k.version - 1 = tx[w].current
      BY <2>1, <2>2
    <3> QED
      BY <2>1, <3>2, <3>3
  <2> QED
    BY <1>0, <1>4, <2>1, <2>3, AnswerFrame DEF Told, Succeeded
<1>5. ASSUME NEW w \in Writers, Commit(w) \/ CommitUnanswered(w) PROVE Told'
  <2>1. Rejection(tx[w].req, tx[w].current) = "none"
    BY <1>0, <1>5, CommitFrame DEF IInv, InFlightSound
  <2>2. events' = events \cup {EventRow(tx[w])}
    BY <1>0, <1>5, CommitFrame DEF MakeVisible
  <2>3. CASE pc'[w] = "committed" /\ tx'[w] = tx[w] /\ replies' = replies
    BY <1>0, <1>5, <2>1, <2>2, <2>3, CommitFrame DEF Told, Succeeded
  <2>4. CASE /\ pc'[w] = "idle"
             /\ \E k : k.at = tx[w].at /\ k.kind = "error" /\ replies' = replies \cup {k}
    BY <1>0, <1>5, <2>1, <2>2, <2>4, CommitFrame DEF Told, Succeeded
  <2> QED
    BY <1>0, <1>5, <2>3, <2>4, CommitFrame
<1> QED
  BY <1>1, <1>2, <1>3, <1>4, <1>5, StepKinds

(* A 404, 409 or 412 leaves no event behind, a success leaves its own.     *)
LEMMA TruthfulStep ==
    ASSUME IInv, Stamped, Told, RepliesTruthful, [Next]_vars
    PROVE  RepliesTruthful'
<1> USE DEF Others
<1>0. TypeOK
  BY DEF IInv
<1>1. CASE UNCHANGED vars
  BY <1>1 DEF vars, RepliesTruthful, Succeeded
<1>2. ASSUME NEW w \in Writers, Begin(w) PROVE RepliesTruthful'
  BY <1>0, <1>2, BeginFrame DEF RepliesTruthful, Succeeded
<1>3. ASSUME NEW w \in Writers, Local(w) PROVE RepliesTruthful'
  BY <1>0, <1>3, LocalFrame DEF RepliesTruthful, Succeeded
<1>4. ASSUME NEW w \in Writers, Refuse(w) \/ GetCurrent(w) \/ Fail(w)
      PROVE  RepliesTruthful'
  <2>1. PICK k : /\ replies' = replies \cup {k} /\ k.req = tx[w].req
                 /\ k.at = tx[w].at
                 /\ k.kind \in Refusals => Uncommitted(w)
                 /\ k.kind = "ok" => /\ pc[w] = "committed"
                                     /\ k.version = tx[w].current + 1
    BY <1>0, <1>4, AnswerFrame
  <2>2. events' = events
    BY <1>0, <1>4, AnswerFrame
  <2>3. k.kind \in Refusals => \A e \in events : e.at # k.at
    BY <2>1 DEF Stamped
  <2>4. k.kind = "ok" => \E e \in events :
           /\ e.at = k.at /\ e.agg = k.req.agg /\ e.version = k.version
           /\ e.type = k.req.type /\ e.payload = k.req.payload
    <3>1. SUFFICES ASSUME k.kind = "ok" PROVE EventRow(tx[w]) \in events
      BY <2>1 DEF EventRow
    <3> QED
      BY <2>1, <3>1 DEF Told
  <2> QED
    BY <2>1, <2>2, <2>3, <2>4 DEF RepliesTruthful, Succeeded
<1>5. ASSUME NEW w \in Writers, Commit(w) \/ CommitUnanswered(w)
      PROVE  RepliesTruthful'
  <2>1. /\ events' = events \cup {EventRow(tx[w])}
        /\ EventRow(tx[w]).at = tx[w].at
    BY <1>0, <1>5, CommitFrame DEF MakeVisible, EventRow
  <2>2. \A k \in replies : k.at # tx[w].at
    BY <1>0, <1>5, CommitFrame DEF Stamped
  <2>3. \A k \in replies' : k \in replies \/ k.kind = "error"
    BY <1>0, <1>5, CommitFrame
  <2>4. "error" \notin Refusals /\ "error" # "ok"
    BY DEF Refusals
  <2>5. Succeeded' \subseteq Succeeded
    BY <2>3, <2>4 DEF Succeeded
  <2>6. \A k \in replies' : k.kind \in Refusals => k \in replies
    BY <2>3, <2>4
  <2> QED
    BY <2>1, <2>2, <2>5, <2>6 DEF RepliesTruthful
<1> QED
  BY <1>1, <1>2, <1>3, <1>4, <1>5, StepKinds

-----------------------------------------------------------------------------
(* The read model *)

LEMMA StagedStep ==
    ASSUME IInv, StagedFresh, [Next]_vars
    PROVE  StagedFresh'
<1> USE DEF Others, StagedFresh, EventRow, Upsert
<1>0. TypeOK
  BY DEF IInv
<1>1. CASE UNCHANGED vars
  BY <1>1 DEF vars
<1>2. ASSUME NEW w \in Writers, Begin(w) PROVE StagedFresh'
  BY <1>0, <1>2, BeginFrame
<1>3. ASSUME NEW w \in Writers, Local(w) PROVE StagedFresh'
  <2>1. ASSUME NEW u \in Writers \ {w}, pc'[u] = "projected"
        PROVE  staged'[u] = Upsert(readModel[tx[u].req.agg], EventRow(tx[u]))'
    BY <1>0, <1>3, <2>1, LocalFrame
  <2>2. ASSUME pc'[w] = "projected"
        PROVE  staged'[w] = Upsert(readModel[tx[w].req.agg], EventRow(tx[w]))'
    <3>1. Project(w)
      BY <1>0, <1>3, <2>2 DEF Local, Accept, DrawId, Insert, InsertOutbox, TypeOK
    <3> QED
      BY <1>0, <3>1 DEF Project, TypeOK, database
  <2> QED
    BY <2>1, <2>2
<1>4. ASSUME NEW w \in Writers, Refuse(w) \/ GetCurrent(w) \/ Fail(w) PROVE StagedFresh'
  BY <1>0, <1>4, AnswerFrame
<1>5. ASSUME NEW w \in Writers, Commit(w) \/ CommitUnanswered(w) PROVE StagedFresh'
  <2> SUFFICES ASSUME NEW u \in Writers, pc'[u] = "projected"
               PROVE  staged'[u] = Upsert(readModel[tx[u].req.agg], EventRow(tx[u]))'
    OBVIOUS
  <2>1. /\ u # w /\ pc[u] = "projected" /\ tx'[u] = tx[u] /\ staged'[u] = staged[u]
        /\ MakeVisible(w) /\ Holding(w)
    BY <1>0, <1>5, CommitFrame
  <2>2. tx[u].req.agg # tx[w].req.agg
    BY <2>1 DEF IInv, InFlightSound, Holding
  <2>3. tx[u].req.agg \in Aggregates
    BY <1>0, <2>1, RequestsAssumption DEF TypeOK, Tx
  <2>4. readModel'[tx[u].req.agg] = readModel[tx[u].req.agg]
    BY <1>0, <2>1, <2>2, <2>3 DEF MakeVisible, TypeOK
  <2> QED
    BY <2>1, <2>4
<1> QED
  BY <1>1, <1>2, <1>3, <1>4, <1>5, StepKinds

(* Only a commit changes the read model. *)
LEMMA CommitOrSameTables ==
    ASSUME [Next]_vars
    PROVE  UNCHANGED database \/ \E w \in Writers : MakeVisible(w)
BY DEF Next, Proceed, vars, database, Begin, Reject, Accept, DrawId, Insert,
   UniqueViolation, InsertOutbox, Project, Commit, CommitUnanswered, GetCurrent,
   Fail

LEMMA ReadModelStep ==
    ASSUME IInv, StagedFresh, ReadModelFresh, [Next]_vars
    PROVE  ReadModelFresh'
<1>1. CASE UNCHANGED database
  BY <1>1, SameEvents DEF ReadModelFresh, database
<1>2. ASSUME NEW w \in Writers, MakeVisible(w) PROVE ReadModelFresh'
  <2> DEFINE row == EventRow(tx[w])
  <2>1. tx[w] \in Tx /\ tx[w].req.agg \in Aggregates /\ row \in EventRows
    BY <1>2, RequestsAssumption, EventRowType DEF IInv, TypeOK, MakeVisible, Tx
  <2> SUFFICES ASSUME NEW a \in Aggregates
               PROVE  /\ readModel'[a].version = LatestVersion(a)'
                      /\ \A e \in EventsOf(a)' :
                            /\ e.version = LatestVersion(a)' => readModel'[a].updatedAt = e.at
                            /\ e.version = 1 => readModel'[a].createdAt = e.at
    BY DEF ReadModelFresh
  <2>2. CASE a # tx[w].req.agg
    <3>1. readModel'[a] = readModel[a]
      BY <1>2, <2>2 DEF MakeVisible, IInv, TypeOK
    <3> QED
      BY <1>2, <2>2, <3>1, VisibleExtends DEF ReadModelFresh
  <2>3. CASE a = tx[w].req.agg
    <3>1. PICK n \in Nat : n = LatestVersion(a)
      BY DEF IInv
    <3>2. /\ EventsOf(a)' = EventsOf(a) \cup {row}
          /\ row.version = n + 1 /\ LatestVersion(a)' = n + 1
      BY <1>2, <2>3, <3>1, VisibleExtends
    <3>3. readModel'[a] = Upsert(readModel[a], row)
      BY <1>2, <2>1, <2>3 DEF MakeVisible, StagedFresh, IInv, TypeOK
    <3>4. readModel[a].version = n /\ readModel'[a].version = n + 1
          /\ readModel'[a].updatedAt = row.at
      BY <3>1, <3>2, <3>3 DEF ReadModelFresh, Upsert
    <3>5. \A e \in EventsOf(a) : e.version \in 1 .. n
      BY <3>1 DEF IInv, HistoryContiguous, Versions
    <3>6. CASE n = 0
      <4>1. tx[w].current = 0 /\ row.type = tx[w].req.type
        BY <1>2, <2>1, <2>3, <3>1, <3>6
           DEF IInv, InFlightSound, MakeVisible, Holding, EventRow
      <4>2. row.type = CreatedType
        BY <1>2, <4>1 DEF IInv, InFlightSound, MakeVisible, Holding, Rejection
      <4>3. readModel'[a].createdAt = row.at
        BY <3>3, <3>4, <3>6, <4>2 DEF Upsert
      <4> QED
        BY <3>2, <3>4, <3>5, <3>6, <4>3
    <3>7. CASE n > 0
      <4>1. readModel'[a].createdAt = readModel[a].createdAt
        BY <3>3, <3>4, <3>7 DEF Upsert
      <4>2. \A e \in EventsOf(a) : e.version = 1 => readModel[a].createdAt = e.at
        BY DEF ReadModelFresh
      <4> QED
        BY <3>2, <3>4, <3>5, <3>7, <4>1, <4>2
    <3> QED
      BY <3>6, <3>7
  <2> QED
    BY <2>2, <2>3
<1> QED
  BY <1>1, <1>2, CommitOrSameTables

-----------------------------------------------------------------------------
(* Ids *)

(* The transactions that have drawn an id keep it and what they have read. *)
KeepDrawn(S) == \A u \in S : Drawn(u)' =>
    /\ Drawn(u)
    /\ tx'[u].id = tx[u].id /\ tx'[u].req = tx[u].req /\ tx'[u].current = tx[u].current

KeepQueued(S) == \A u \in S : Queued(u)' =>
    /\ Queued(u)
    /\ tx'[u].oid = tx[u].oid /\ tx'[u].req = tx[u].req

LEMMA KeepFrame ==
    ASSUME TypeOK, [Next]_vars
    PROVE  \/ KeepDrawn(Writers) /\ events' = events /\ eventSeq' = eventSeq
           \/ \E w \in Writers : DrawId(w)
           \/ \E w \in Writers : MakeVisible(w) /\ KeepDrawn(Writers) /\ ~Drawn(w)'
<1> USE DEF KeepDrawn, Others, Drawn, Holding
<1>1. CASE UNCHANGED vars
  BY <1>1 DEF vars
<1>2. ASSUME NEW w \in Writers, Begin(w)
      PROVE  KeepDrawn(Writers) /\ events' = events /\ eventSeq' = eventSeq
  BY <1>2, BeginFrame
<1>3. ASSUME NEW w \in Writers, Local(w), ~DrawId(w)
      PROVE  KeepDrawn(Writers) /\ events' = events /\ eventSeq' = eventSeq
  <2>1. events' = events /\ KeepDrawn(Writers \ {w})
    BY <1>3, LocalFrame
  <2>2. tx[w] \in Tx
    BY <1>3, LocalFrame
  <2>3. eventSeq' = eventSeq /\ KeepDrawn({w})
    BY <1>3, <2>2 DEF Local, Accept, Insert, InsertOutbox, Project, TypeOK, sequences, Tx
  <2> QED
    BY <2>1, <2>3
<1>4. ASSUME NEW w \in Writers, Refuse(w) \/ GetCurrent(w) \/ Fail(w)
      PROVE  KeepDrawn(Writers) /\ events' = events /\ eventSeq' = eventSeq
  BY <1>4, AnswerFrame
<1>5. ASSUME NEW w \in Writers, Commit(w) \/ CommitUnanswered(w)
      PROVE  MakeVisible(w) /\ KeepDrawn(Writers) /\ ~Drawn(w)'
  BY <1>5, CommitFrame
<1> QED
  BY <1>1, <1>2, <1>3, <1>4, <1>5, StepKinds

(* The versions of the committed events of an entity. *)
LEMMA VersionRange ==
    ASSUME IInv, NEW a \in Aggregates, NEW e \in EventsOf(a)
    PROVE  e.version \in Nat /\ 1 <= e.version /\ e.version <= LatestVersion(a)
<1>1. e.version \in 1 .. LatestVersion(a) /\ LatestVersion(a) \in Nat
  BY DEF IInv, HistoryContiguous, Versions
<1> QED
  BY <1>1

LEMMA NumberedStep ==
    ASSUME IInv, Numbered, [Next]_vars
    PROVE  Numbered'
<1>0. /\ TypeOK /\ eventSeq \in Nat
      /\ \A e \in events : e.id \in Nat /\ e.version \in Nat /\ e.agg \in Aggregates
      /\ \A w \in Writers : Drawn(w) =>
            tx[w] \in Tx /\ tx[w].id \in Nat /\ tx[w].current \in Nat
  BY DEF IInv, TypeOK, EventRows, Tx, Drawn, Holding
<1>1. CASE KeepDrawn(Writers) /\ events' = events /\ eventSeq' = eventSeq
  BY <1>1 DEF Numbered, KeepDrawn
<1>2. ASSUME NEW w \in Writers, DrawId(w) PROVE Numbered'
  <2>1. /\ tx[w] \in Tx /\ tx'[w].id = eventSeq + 1 /\ eventSeq' = eventSeq + 1
        /\ events' = events
    BY <1>0, <1>2 DEF DrawId, NextId, TypeOK, database
  <2>2. \A u \in Writers \ {w} : tx'[u] = tx[u] /\ (Drawn(u)' <=> Drawn(u))
    BY <1>0, <1>2 DEF DrawId, TypeOK, Drawn, Holding
  <2>3. \A e \in events : e.id <= eventSeq /\ e.id < eventSeq + 1
    BY <1>0 DEF Numbered
  <2>4. \A u \in Writers \ {w} : Drawn(u) => tx[u].id <= eventSeq /\ tx[u].id < eventSeq + 1
    BY <1>0 DEF Numbered
  <2> QED
    BY <1>0, <2>1, <2>2, <2>3, <2>4 DEF Numbered
<1>3. ASSUME NEW w \in Writers, MakeVisible(w), KeepDrawn(Writers), ~Drawn(w)'
      PROVE  Numbered'
  <2> DEFINE row == EventRow(tx[w])
  <2>1. /\ Drawn(w) /\ Holding(w) /\ eventSeq' = eventSeq /\ events' = events \cup {row}
        /\ tx[w] \in Tx /\ tx[w].req.agg \in Aggregates
    BY <1>0, <1>3, RequestsAssumption
       DEF MakeVisible, Drawn, Holding, sequences, Tx
  <2>2. /\ row.id = tx[w].id /\ row.agg = tx[w].req.agg
        /\ row.version = tx[w].current + 1
    BY DEF EventRow
  <2>3. tx[w].current = LatestVersion(tx[w].req.agg)
    BY <2>1 DEF IInv, InFlightSound
  <2>4. \A e \in events : e.agg = row.agg =>
           e.version <= tx[w].current /\ e.version < row.version /\ e.id < row.id
    <3> SUFFICES ASSUME NEW e \in events, e.agg = row.agg
                 PROVE  e.version <= tx[w].current /\ e.version < row.version /\ e.id < row.id
      OBVIOUS
    <3>1. e \in EventsOf(tx[w].req.agg)
      BY <2>2 DEF EventsOf
    <3>2. e.version <= tx[w].current
      BY <2>1, <2>3, <3>1, VersionRange
    <3> QED
      BY <1>0, <2>1, <2>2, <3>2 DEF Numbered
  <2>5. \A u \in Writers : Drawn(u)' =>
           row.id # tx[u].id /\ ~(row.agg = tx[u].req.agg /\ row.version <= tx[u].current)
    <3> SUFFICES ASSUME NEW u \in Writers, Drawn(u)'
                 PROVE  row.id # tx[u].id
                        /\ ~(row.agg = tx[u].req.agg /\ row.version <= tx[u].current)
      OBVIOUS
    <3>1. Drawn(u) /\ u # w
      BY <1>3 DEF KeepDrawn
    <3>2. row.id # tx[u].id
      BY <2>1, <2>2, <3>1 DEF Numbered
    <3>3. tx[u].current <= LatestVersion(tx[u].req.agg)
      BY <3>1 DEF IInv, InFlightSound, Drawn
    <3> QED
      BY <1>0, <2>1, <2>2, <2>3, <3>1, <3>2, <3>3
  <2>6. \A e \in events : e.id <= eventSeq /\ e.id # row.id
    BY <2>1, <2>2 DEF Numbered
  <2>7. row.id <= eventSeq
    BY <2>1, <2>2 DEF Numbered
  <2>8. /\ \A e \in events' : e.id <= eventSeq'
        /\ \A e \in events', f \in events' : e.id = f.id => e = f
    BY <2>1, <2>6, <2>7 DEF Numbered
  <2>9. \A e \in events', f \in events' : e.agg = f.agg /\ e.version < f.version => e.id < f.id
    <3> SUFFICES ASSUME NEW e \in events', NEW f \in events',
                        e.agg = f.agg, e.version < f.version
                 PROVE  e.id < f.id
      OBVIOUS
    <3>1. row.version \in Nat
      BY <1>0, <2>1, <2>2
    <3>2. e \in events \/ e = row
      BY <2>1
    <3>3. f \in events \/ f = row
      BY <2>1
    <3> QED
      BY <1>0, <2>4, <3>1, <3>2, <3>3 DEF Numbered
  <2>10. /\ \A u \in Writers : Drawn(u)' => tx'[u].id <= eventSeq'
         /\ \A u \in Writers, v \in Writers :
               Drawn(u)' /\ Drawn(v)' /\ tx'[u].id = tx'[v].id => u = v
    BY <1>3, <2>1 DEF KeepDrawn, Numbered
  <2>11. \A u \in Writers, e \in events' : Drawn(u)' =>
            /\ e.id # tx'[u].id
            /\ e.agg = tx'[u].req.agg /\ e.version <= tx'[u].current => e.id < tx'[u].id
    BY <1>3, <2>1, <2>5 DEF KeepDrawn, Numbered
  <2> QED
    BY <2>8, <2>9, <2>10, <2>11 DEF Numbered
<1> QED
  BY <1>0, <1>1, <1>2, <1>3, KeepFrame

LEMMA KeepQueuedFrame ==
    ASSUME TypeOK, [Next]_vars
    PROVE  \/ KeepQueued(Writers) /\ UNCHANGED <<events, outbox, outboxSeq>>
           \/ \E w \in Writers : InsertOutbox(w)
           \/ \E w \in Writers : MakeVisible(w) /\ KeepQueued(Writers) /\ ~Queued(w)'
<1> USE DEF KeepQueued, Others, Queued
<1>1. CASE UNCHANGED vars
  BY <1>1 DEF vars
<1>2. ASSUME NEW w \in Writers, Begin(w)
      PROVE  KeepQueued(Writers) /\ UNCHANGED <<events, outbox, outboxSeq>>
  BY <1>2, BeginFrame
<1>3. ASSUME NEW w \in Writers, Local(w), ~InsertOutbox(w)
      PROVE  KeepQueued(Writers) /\ UNCHANGED <<events, outbox, outboxSeq>>
  <2>1. UNCHANGED <<events, outbox>> /\ KeepQueued(Writers \ {w})
    BY <1>3, LocalFrame
  <2>2. tx[w] \in Tx
    BY <1>3, LocalFrame
  <2>3. outboxSeq' = outboxSeq /\ KeepQueued({w})
    BY <1>3, <2>2 DEF Local, Accept, DrawId, Insert, Project, TypeOK, sequences, Tx
  <2> QED
    BY <2>1, <2>3
<1>4. ASSUME NEW w \in Writers, Refuse(w) \/ GetCurrent(w) \/ Fail(w)
      PROVE  KeepQueued(Writers) /\ UNCHANGED <<events, outbox, outboxSeq>>
  BY <1>4, AnswerFrame
<1>5. ASSUME NEW w \in Writers, Commit(w) \/ CommitUnanswered(w)
      PROVE  MakeVisible(w) /\ KeepQueued(Writers) /\ ~Queued(w)'
  BY <1>5, CommitFrame
<1> QED
  BY <1>1, <1>2, <1>3, <1>4, <1>5, StepKinds

LEMMA OutboxNumberedStep ==
    ASSUME IInv, Numbered, OutboxNumbered, [Next]_vars
    PROVE  OutboxNumbered'
<1>0. /\ TypeOK /\ outboxSeq \in Nat
      /\ \A e \in events : e.id \in Nat /\ e.version \in Nat /\ e.agg \in Aggregates
      /\ \A p \in outbox : p.id \in Nat
      /\ \A w \in Writers : Queued(w) => tx[w] \in Tx /\ tx[w].oid \in Nat
  BY DEF IInv, TypeOK, EventRows, Tx, Queued
<1>1. CASE KeepQueued(Writers) /\ UNCHANGED <<events, outbox, outboxSeq>>
  BY <1>1 DEF OutboxNumbered, KeepQueued
<1>2. ASSUME NEW w \in Writers, InsertOutbox(w) PROVE OutboxNumbered'
  <2>1. /\ tx[w] \in Tx /\ tx'[w].oid = outboxSeq + 1 /\ outboxSeq' = outboxSeq + 1
        /\ events' = events /\ outbox' = outbox
    BY <1>0, <1>2 DEF InsertOutbox, NextId, TypeOK, database
  <2>2. \A u \in Writers \ {w} : tx'[u] = tx[u] /\ (Queued(u)' <=> Queued(u))
    BY <1>0, <1>2 DEF InsertOutbox, TypeOK, Queued
  <2>3. \A p \in outbox : p.id <= outboxSeq + 1 /\ p.id < outboxSeq + 1
    BY <1>0 DEF OutboxNumbered
  <2>4. \A u \in Writers \ {w} : Queued(u) => tx[u].oid <= outboxSeq + 1
    BY <1>0 DEF OutboxNumbered
  <2> QED
    BY <1>0, <2>1, <2>2, <2>3, <2>4 DEF OutboxNumbered
<1>3. ASSUME NEW w \in Writers, MakeVisible(w), KeepQueued(Writers), ~Queued(w)'
      PROVE  OutboxNumbered'
  <2> DEFINE row  == EventRow(tx[w])
             item == [id |-> tx[w].oid, event |-> tx[w].id]
  <2>1. /\ Queued(w) /\ Drawn(w) /\ Holding(w) /\ outboxSeq' = outboxSeq
        /\ events' = events \cup {row} /\ outbox' = outbox \cup {item}
        /\ tx[w] \in Tx /\ tx[w].req.agg \in Aggregates
    BY <1>0, <1>3, RequestsAssumption
       DEF MakeVisible, Queued, Drawn, Holding, sequences, Tx
  <2>2. /\ row.id = tx[w].id /\ row.agg = tx[w].req.agg /\ row.version = tx[w].current + 1
        /\ item.event = row.id /\ item.id = tx[w].oid
    BY DEF EventRow
  <2>3. tx[w].current = LatestVersion(tx[w].req.agg)
    BY <2>1 DEF IInv, InFlightSound
  <2>4. \A e \in events : e.agg = row.agg => e.version < row.version
    <3> SUFFICES ASSUME NEW e \in events, e.agg = row.agg PROVE e.version < row.version
      OBVIOUS
    <3>1. e \in EventsOf(tx[w].req.agg)
      BY <2>2 DEF EventsOf
    <3> QED
      BY <1>0, <2>1, <2>2, <2>3, <3>1, VersionRange DEF Tx
  <2>5. \A e \in events : e.id # row.id
    BY <2>1, <2>2 DEF Numbered
  <2>6. \A p \in outbox : p.event # row.id
    BY <2>5 DEF OutboxNumbered
  <2>7. \A u \in Writers : Queued(u)' => tx[u].req.agg # row.agg
    <3> SUFFICES ASSUME NEW u \in Writers, Queued(u)' PROVE tx[u].req.agg # row.agg
      OBVIOUS
    <3>1. Queued(u) /\ u # w
      BY <1>3 DEF KeepQueued
    <3> QED
      BY <2>1, <2>2, <3>1 DEF IInv, InFlightSound, Queued, Holding
  <2>8. item.id <= outboxSeq
    BY <2>1, <2>2 DEF OutboxNumbered
  <2>9. /\ \A p \in outbox' : p.id <= outboxSeq' /\ \E e \in events' : e.id = p.event
        /\ \A p \in outbox', q \in outbox' : p.event = q.event => p = q
    BY <2>1, <2>2, <2>6, <2>8 DEF OutboxNumbered
  <2>10. ASSUME NEW e \in events', NEW f \in events', NEW p \in outbox', NEW q \in outbox',
                e.agg = f.agg, e.version < f.version, p.event = e.id, q.event = f.id
         PROVE  p.id < q.id
    <3>1. e # row
      <4>1. SUFFICES ASSUME e = row PROVE FALSE
        OBVIOUS
      <4>2. f = row \/ f \in events
        BY <2>1
      <4>3. row.version \in Nat /\ \A g \in events : g.version \in Nat
        BY <1>0, <2>1, <2>2 DEF Tx
      <4> QED
        BY <2>4, <2>10, <4>1, <4>2, <4>3
    <3>2. e \in events /\ p \in outbox
      BY <2>1, <2>2, <2>5, <2>10, <3>1
    <3>3. CASE q = item
      <4>1. f = row
        BY <2>1, <2>2, <2>5, <2>10, <3>3
      <4> QED
        BY <2>1, <2>2, <2>10, <3>2, <3>3, <4>1 DEF OutboxNumbered
    <3>4. CASE q # item
      <4>1. q \in outbox /\ f \in events
        BY <2>1, <2>6, <2>10, <3>4
      <4> QED
        BY <2>10, <3>2, <4>1 DEF OutboxNumbered
    <3> QED
      BY <3>3, <3>4
  <2>11. \A u \in Writers : Queued(u)' => tx'[u].oid <= outboxSeq'
    BY <1>3, <2>1 DEF KeepQueued, OutboxNumbered
  <2>12. ASSUME NEW u \in Writers, NEW e \in events', NEW p \in outbox',
                Queued(u)', e.agg = tx'[u].req.agg, p.event = e.id
         PROVE  p.id < tx'[u].oid
    <3>1. Queued(u) /\ tx'[u].oid = tx[u].oid /\ tx'[u].req = tx[u].req
      BY <1>3, <2>12 DEF KeepQueued
    <3>2. e \in events
      BY <2>1, <2>7, <2>12, <3>1
    <3>3. p \in outbox
      BY <2>1, <2>2, <2>5, <2>12, <3>2
    <3> QED
      BY <2>12, <3>1, <3>2, <3>3 DEF OutboxNumbered
  <2> QED
    BY <2>9, <2>10, <2>11, <2>12 DEF OutboxNumbered
<1> QED
  BY <1>0, <1>1, <1>2, <1>3, KeepQueuedFrame

(* An event and its entity's earlier events compare alike by version and   *)
(* by id, whether versions or ids are given first.                         *)
LEMMA NumberedOrders ==
    ASSUME IInv, Numbered, OutboxNumbered
    PROVE  IdsFollowVersions
<1> SUFFICES ASSUME NEW e \in events, NEW f \in events, e.agg = f.agg
             PROVE  /\ e.version < f.version <=> e.id < f.id
                    /\ \A p, q \in outbox : p.event = e.id /\ q.event = f.id =>
                          (e.version < f.version <=> p.id < q.id)
  BY DEF IdsFollowVersions
<1>1. /\ e.version \in Nat /\ f.version \in Nat /\ e.id \in Nat /\ f.id \in Nat
      /\ e.agg \in Aggregates /\ \A p \in outbox : p.id \in Nat
  BY DEF IInv, TypeOK, EventRows
<1>2. e.version = f.version => e = f
  BY <1>1 DEF IInv, HistoryContiguous, EventsOf
<1>3. e.version < f.version => e.id < f.id
  BY DEF Numbered
<1>4. f.version < e.version => f.id < e.id
  BY DEF Numbered
<1>5. ASSUME NEW p \in outbox, NEW q \in outbox, p.event = e.id, q.event = f.id
      PROVE  e.version < f.version <=> p.id < q.id
  <2>1. e = f => p = q
    BY <1>5 DEF OutboxNumbered
  <2>2. e.version < f.version => p.id < q.id
    BY <1>5 DEF OutboxNumbered
  <2>3. f.version < e.version => q.id < p.id
    BY <1>5 DEF OutboxNumbered
  <2> QED
    BY <1>1, <1>2, <2>1, <2>2, <2>3
<1> QED
  BY <1>1, <1>2, <1>3, <1>4, <1>5

-----------------------------------------------------------------------------
(* What clients are told *)

(* The row that GetCurrent reads carries the latest version, and the event *)
(* of the command it serves is among those of the entity.                  *)
LEMMA ReadYourWritesStep ==
    ASSUME IInv, Told, ReadModelFresh, ReadYourWrites, [Next]_vars
    PROVE  ReadYourWrites'
<1> USE DEF ReadYourWrites, Succeeded
<1>0. TypeOK
  BY DEF IInv
<1>1. CASE UNCHANGED vars
  BY <1>1 DEF vars
<1>2. ASSUME NEW w \in Writers, Begin(w) PROVE ReadYourWrites'
  BY <1>0, <1>2, BeginFrame
<1>3. ASSUME NEW w \in Writers, Local(w) PROVE ReadYourWrites'
  BY <1>0, <1>3, LocalFrame
<1>4. ASSUME NEW w \in Writers, Refuse(w) \/ GetCurrent(w) \/ Fail(w)
      PROVE  ReadYourWrites'
  <2>1. PICK k : /\ replies' = replies \cup {k}
                 /\ k.kind = "ok" => /\ pc[w] = "committed"
                                     /\ k.version = tx[w].current + 1
                                     /\ k.seen = readModel[tx[w].req.agg].version
    BY <1>0, <1>4, AnswerFrame
  <2>2. ASSUME k.kind = "ok" PROVE k.seen >= k.version
    <3>1. tx[w] \in Tx /\ tx[w].req.agg \in Aggregates
      BY <1>0, <1>4, AnswerFrame, RequestsAssumption DEF Tx
    <3>2. EventRow(tx[w]) \in EventsOf(tx[w].req.agg)
      BY <2>1, <2>2 DEF Told, EventsOf, EventRow
    <3>3. EventRow(tx[w]).version = k.version
      BY <2>1, <2>2 DEF EventRow
    <3>4. k.version \in Nat /\ k.version <= LatestVersion(tx[w].req.agg)
      BY <3>1, <3>2, <3>3, VersionRange
    <3> QED
      BY <2>1, <2>2, <3>1, <3>4 DEF ReadModelFresh, IInv
  <2> QED
    BY <2>1, <2>2
<1>5. ASSUME NEW w \in Writers, Commit(w) \/ CommitUnanswered(w)
      PROVE  ReadYourWrites'
  BY <1>0, <1>5, CommitFrame
<1> QED
  BY <1>1, <1>2, <1>3, <1>4, <1>5, StepKinds

(* Two successes with one expected version would have appended one version *)
(* of the entity, hence be the same event, transaction and reply.          *)
LEMMA ExpectationsAreUsedOnce ==
    ASSUME IInv, Stamped, Told, RepliesTruthful
    PROVE  NoLostUpdate
<1> SUFFICES ASSUME NEW k \in Succeeded, NEW l \in Succeeded,
                    k.req.agg = l.req.agg,
                    k.req.expected = l.req.expected, k.req.expected # NoExpectation
             PROVE  k = l
  BY DEF NoLostUpdate
<1>1. PICK e \in events : e.at = k.at /\ e.agg = k.req.agg /\ e.version = k.version
  BY DEF RepliesTruthful
<1>2. PICK f \in events : f.at = l.at /\ f.agg = l.req.agg /\ f.version = l.version
  BY DEF RepliesTruthful
<1>3. e.version \in Nat /\ f.version \in Nat /\ e.agg \in Aggregates
  BY DEF IInv, TypeOK, EventRows
<1>4. k.version - 1 = l.version - 1
  BY DEF Told
<1>5. e.version = f.version
  BY <1>1, <1>2, <1>3, <1>4
<1>6. e = f
  BY <1>1, <1>2, <1>3, <1>5 DEF IInv, HistoryContiguous, EventsOf
<1> QED
  BY <1>1, <1>2, <1>6 DEF Stamped, Succeeded

-----------------------------------------------------------------------------
CInv ==
    /\ Stamped /\ Told
    /\ Numbered /\ OutboxNumbered
    /\ StagedFresh /\ ReadModelFresh
    /\ RepliesTruthful /\ ReadYourWrites

LEMMA ConsistencyInit == Init => CInv
<1> SUFFICES ASSUME Init PROVE CInv
  OBVIOUS
<1>1. events = {} /\ outbox = {} /\ replies = {} /\ clock = 0
      /\ \A w \in Writers : pc[w] = "idle"
  BY DEF Init
<1>2. \A a : EventsOf(a) = {} /\ LatestVersion(a) = 0
  BY <1>1, MaxOfInterval DEF LatestVersion, Versions, EventsOf
<1>3. \A a \in Aggregates : readModel[a].version = 0
  BY DEF Init, NoRow
<1>4. Stamped /\ Told /\ StagedFresh
  BY <1>1 DEF Stamped, Told, StagedFresh, Active, Uncommitted, Succeeded
<1>5. Numbered /\ OutboxNumbered
  BY <1>1 DEF Numbered, OutboxNumbered, Drawn, Queued, Holding
<1>6. ReadModelFresh
  BY <1>2, <1>3 DEF ReadModelFresh
<1>7. RepliesTruthful /\ ReadYourWrites
  BY <1>1 DEF RepliesTruthful, ReadYourWrites, Succeeded
<1> QED
  BY <1>4, <1>5, <1>6, <1>7 DEF CInv

LEMMA ConsistencyStep == IInv /\ CInv /\ [Next]_vars => CInv'
<1> SUFFICES ASSUME IInv, CInv, [Next]_vars PROVE CInv'
  OBVIOUS
<1>1. Stamped' /\ Told'
  BY StampedStep, ToldStep DEF IInv, CInv
<1>2. Numbered' /\ OutboxNumbered'
  BY NumberedStep, OutboxNumberedStep DEF CInv
<1>3. StagedFresh' /\ ReadModelFresh'
  BY StagedStep, ReadModelStep DEF CInv
<1>4. RepliesTruthful' /\ ReadYourWrites'
  BY TruthfulStep, ReadYourWritesStep DEF CInv
<1> QED
  BY <1>1, <1>2, <1>3, <1>4 DEF CInv

THEOREM Consistency == Spec => [](IInv /\ CInv)
<1> QED
  BY ConsistencyInit, ConsistencyStep, Invariance, PTL DEF Spec

(* projector.Apply never leaves the read model behind the log or ahead of  *)
(* it: every committed state has the latest version, its time and the      *)
(* creation time in the entity's row.                                      *)
THEOREM ReadModelIsFresh == Spec => []ReadModelFresh
BY Consistency, PTL DEF CInv

(* Ids of events and of outbox rows, drawn from sequences by concurrent    *)
(* transactions, order each entity's rows as their versions do.            *)
THEOREM IdsOrderVersions == Spec => []IdsFollowVersions
<1>1. IInv /\ CInv => IdsFollowVersions
  BY NumberedOrders DEF CInv
<1> QED
  BY <1>1, Consistency, PTL

(* A success reports an event that is in the log, a refusal left none.     *)
THEOREM RepliesAreTruthful == Spec => []RepliesTruthful
BY Consistency, PTL DEF CInv

(* Optimistic concurrency: one expected version lets one writer succeed.   *)
THEOREM NoUpdateIsLost == Spec => []NoLostUpdate
<1>1. IInv /\ CInv => NoLostUpdate
  BY ExpectationsAreUsedOnce DEF CInv
<1> QED
  BY <1>1, Consistency, PTL

(* The state a successful command returns contains its own event.          *)
THEOREM WritesAreRead == Spec => []ReadYourWrites
BY Consistency, PTL DEF CInv

-----------------------------------------------------------------------------
(* Who waits for whom *)

(* The guards of Proceed: a writer with a command and something to do *)
Ready(w) ==
    /\ pc[w] # "idle"
    /\ pc[w] \in {"begun", "committed"} => FreeConn
    /\ pc[w] = "inserting" => KeyFree(w) \/ KeyTaken(w)

Stuck == (\E w \in Writers : pc[w] # "idle") /\ \A w \in Writers : ~Ready(w)

(* All connections are those of transactions that wait for a second one. *)
PoolTakenUp == ~FreeConn /\ \A w \in Writers : InTx(w) => pc[w] = "begun"

LEMMA StuckOnPool ==
    ASSUME TypeOK, Stuck
    PROVE  PoolTakenUp
<1>1. \A w \in Writers : pc[w] \in PCs
  BY DEF TypeOK
<1>2. \A w \in Writers : ~Holding(w)
  BY <1>1 DEF Stuck, Ready, Holding
<1>3. \A w \in Writers : pc[w] # "inserting"
  BY <1>2 DEF Stuck, Ready, KeyFree
<1>4. \A w \in Writers : pc[w] \in {"idle", "begun", "committed"}
  BY <1>1, <1>2, <1>3 DEF Stuck, Ready, PCs, Holding
<1>5. ~FreeConn
  BY <1>4 DEF Stuck, Ready
<1> QED
  BY <1>4, <1>5 DEF PoolTakenUp, InTx, Holding

(* Waiting for the key that another transaction holds (store.go:40) never  *)
(* leads to a cycle: when no command can go on, it is because every        *)
(* connection is held by a transaction that waits for a second one to read *)
(* the latest version (service.go:87), whatever the pool's size.           *)
THEOREM OnlyThePoolIsWaitedFor == Spec => [](Stuck => PoolTakenUp)
<1>1. TypeOK => (Stuck => PoolTakenUp)
  BY StuckOnPool
<1> QED
  BY <1>1, TypeCorrect, PTL

(* One connection more than there are writers is enough for some command   *)
(* to go on at any time.                                                   *)
THEOREM NobodyIsStuck ==
    ASSUME IsFiniteSet(Writers), PoolSize > Cardinality(Writers)
    PROVE  Spec => []~Stuck
<1>1. FreeConn
  <2>1. Cardinality({w \in Writers : InTx(w)}) <= Cardinality(Writers)
    BY FS_Subset
  <2>2. Cardinality({w \in Writers : InTx(w)}) \in Nat /\ Cardinality(Writers) \in Nat
    BY FS_Subset, FS_CardinalityType
  <2> QED
    BY <2>1, <2>2, BoundsAssumption DEF FreeConn
<1>2. (Stuck => PoolTakenUp) => ~Stuck
  BY <1>1 DEF PoolTakenUp
<1> QED
  BY <1>2, OnlyThePoolIsWaitedFor, PTL
=============================================================================
