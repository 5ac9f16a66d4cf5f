-------------------------- MODULE IdempotencyProofs --------------------------
(***************************************************************************)
(* Proofs about Idempotency for every set of handlers, entities, requests  *)
(* and keys, whatever fails and however often.                             *)
(***************************************************************************)
EXTENDS Idempotency, SequenceTheorems, TLAPS

-----------------------------------------------------------------------------
(* Each effect is one version of its entity, and the version its command   *)
(* asked for.                                                              *)
EffectsInLog ==
    /\ \A e \in effects :
          /\ e.version <= Len(log[e.req.agg])
          /\ e.req.type = CreatedType <=> e.version = 1
          /\ e.req.type # CreatedType /\ NamesVersion(e.req) =>
                ParsedVersion(e.req) = e.version - 1
    /\ \A e, f \in effects :
          e.req.agg = f.req.agg /\ e.version = f.version => e = f

(* One of the effects E was made under key k, and its success reply has    *)
(* this body and status.                                                   *)
Backed(E, k, body, status) ==
    \E e \in E : /\ e.req.key = k /\ e.req.agg = body.agg
                 /\ e.version <= body.version
                 /\ status = SuccessStatus(e.req)

(* What is stored, about to be stored or replayed is backed.               *)
RepliesBacked ==
    /\ \A row \in keys : Backed(effects, row.key, row.body, row.status)
    /\ \A h \in Handlers : pc[h] = "appended" =>
          \E e \in effects : e.req = call[h].req
    /\ \A h \in Handlers : pc[h] \in {"storing", "replying"} =>
          Backed(effects, call[h].req.key, call[h].body, SuccessStatus(call[h].req))
    /\ \A p \in replies : p.replayed =>
          Backed(effects, p.req.key, p.body, p.status)

(* In the rows K a key is stored, or a call for it has failed; and its row *)
(* has expired by t, or a call for it has failed.                          *)
Kept(K, failed, k) == k \in failed \/ \E row \in K : row.key = k
Expired(K, failed, k, t) ==
    k \in failed \/ \E row \in K : row.key = k /\ row.expires <= t

(* A success is answered only when its key is kept, so a handler that came *)
(* later and yet executes found the row expired.                           *)
AnsweredKept ==
    /\ \A p \in replies : Keyed(p.req) /\ p.status \in {200, 201} =>
          Kept(keys, unreliable, p.req.key)
    /\ \A h \in Handlers : Keyed(call[h].req) =>
          /\ pc[h] = "replying" => Kept(keys, unreliable, call[h].req.key)
          /\ pc[h] = "received" /\ call[h].answered =>
                Kept(keys, unreliable, call[h].req.key)
          /\ pc[h] = "executing" /\ call[h].answered =>
                Expired(keys, unreliable, call[h].req.key, clock)
    /\ \A e \in effects : Keyed(e.req) /\ e.answered =>
          Expired(keys, unreliable, e.req.key, e.at)

(* A key has one row, and what is replayed is that row. *)
ReplaysFromRows ==
    /\ \A row, other \in keys : row.key = other.key => row = other
    /\ \A p \in replies : p.replayed =>
          \E row \in keys : row.key = p.req.key /\ row.body = p.body
                                                /\ row.status = p.status

IInv == TypeOK /\ EffectsInLog /\ RepliesBacked /\ AnsweredKept /\ ReplaysFromRows

-----------------------------------------------------------------------------
(* Answer resets the handler's locals and adds one reply.                  *)
LEMMA AnswerKeepsTypes ==
    ASSUME TypeOK, NEW h \in Handlers, pc[h] # "idle", NEW status \in Statuses,
           NEW body \in Bodies \cup {Nil}, NEW replayed \in BOOLEAN,
           Answer(h, status, body, replayed)
    PROVE  /\ LocalsOK'
           /\ replies' \subseteq [req : Requests, status : Statuses,
                                  body : Bodies \cup {Nil}, replayed : BOOLEAN]
<1>1. call[h].req \in Requests
  BY DEF TypeOK, LocalsOK, Calls
<1>2. LocalsOK'
  BY DEF TypeOK, LocalsOK, Answer
<1> QED
  BY <1>1, <1>2 DEF TypeOK, Answer

LEMMA ExecuteKeepsTypes ==
    ASSUME TypeOK, NEW h \in Handlers, Execute(h)
    PROVE  LocalsOK'
<1>1. call[h] \in Calls /\ call[h].req.agg \in Aggregates
  BY EntitiesAssumption DEF TypeOK, LocalsOK, Execute, Calls
<1>2. Len(log[call[h].req.agg]) \in Nat
  BY <1>1 DEF TypeOK
<1>3. call'[h] \in Calls
  BY <1>1, <1>2 DEF TypeOK, LocalsOK, Execute, Calls
<1> QED
  BY <1>3 DEF TypeOK, LocalsOK, Execute

(* The log between read and append: the new version is its new length.     *)
LEMMA AppendGrowsLog ==
    ASSUME TypeOK, NEW h \in Handlers, AppendEvent(h)
    PROVE  LET r == call[h].req
           IN  /\ r \in Requests /\ r.agg \in Aggregates
               /\ log' \in [Aggregates ->
                                Seq({Log!Change(Command(q)) : q \in Requests})]
               /\ Len(log[r.agg]) \in Nat
               /\ Len(log'[r.agg]) = Len(log[r.agg]) + 1
               /\ \A a \in Aggregates \ {r.agg} : log'[a] = log[a]
<1> DEFINE r == call[h].req
           E == {Log!Change(Command(q)) : q \in Requests}
<1>1. r \in Requests /\ r.agg \in Aggregates
  BY EntitiesAssumption DEF TypeOK, LocalsOK, AppendEvent, Calls
<1>2. log[r.agg] \in Seq(E) /\ Log!Change(Command(r)) \in E
  BY <1>1 DEF TypeOK
<1>3. log' = [log EXCEPT ![r.agg] = Append(@, Log!Change(Command(r)))]
  BY DEF AppendEvent, Log!AppendTo, Command
<1> HIDE DEF r, E
<1>4. Append(log[r.agg], Log!Change(Command(r))) \in Seq(E)
  BY <1>2
<1>5. log \in [Aggregates -> Seq(E)]
  BY DEF TypeOK, E
<1>6. log' \in [Aggregates -> Seq(E)]
  BY <1>1, <1>3, <1>4, <1>5
<1>7. log'[r.agg] = Append(log[r.agg], Log!Change(Command(r)))
  BY <1>1, <1>3, <1>5
<1>8. Len(log[r.agg]) \in Nat /\ Len(log'[r.agg]) = Len(log[r.agg]) + 1
  BY <1>2, <1>7
<1>9. \A a \in Aggregates \ {r.agg} : log'[a] = log[a]
  BY <1>3, <1>5
<1> QED
  BY <1>1, <1>6, <1>8, <1>9 DEF r, E

-----------------------------------------------------------------------------
LEMMA TypeInit == Init => TypeOK
BY DurationsAssumption DEF Init, TypeOK, LocalsOK

(* Every step keeps the types; that the state read back has a version      *)
(* needs the event appended before.                                        *)
LEMMA TypeStep == IInv /\ [Next]_vars => TypeOK'
<1> SUFFICES ASSUME IInv, [Next]_vars PROVE TypeOK'
  OBVIOUS
<1>0. TypeOK
  BY DEF IInv
<1>1. ASSUME NEW h \in Handlers, Receive(h) PROVE TypeOK'
  <2>1. PICK r \in Requests :
           call' = [call EXCEPT ![h] = [NoCall EXCEPT
                        !.req = r, !.answered = Succeeded(r.key)]]
    BY <1>1 DEF Receive
  <2>2. Succeeded(r.key) \in BOOLEAN
    BY DEF Succeeded
  <2>3. [NoCall EXCEPT !.req = r, !.answered = Succeeded(r.key)] \in Calls
    BY <2>2 DEF NoCall, Calls
  <2>4. LocalsOK'
    BY <1>0, <1>1, <2>1, <2>3 DEF TypeOK, LocalsOK, Receive
  <2> QED
    BY <1>0, <1>1, <2>4 DEF TypeOK, Receive
<1>2. ASSUME NEW h \in Handlers, BadRequest(h) PROVE TypeOK'
  <2>1. 400 \in Statuses /\ pc[h] # "idle" /\ Answer(h, 400, Nil, FALSE)
    BY <1>2 DEF BadRequest, Statuses
  <2> QED
    BY <1>0, <1>2, <2>1, AnswerKeepsTypes DEF TypeOK, BadRequest
<1>3. ASSUME NEW h \in Handlers, Replay(h) PROVE TypeOK'
  <2>1. PICK row \in keys : Answer(h, row.status, row.body, TRUE)
    BY <1>3 DEF Replay, Live
  <2>2. row.status \in Statuses /\ row.body \in Bodies /\ pc[h] # "idle"
    BY <1>0, <1>3 DEF TypeOK, Statuses, Replay
  <2> QED
    BY <1>0, <1>3, <2>1, <2>2, AnswerKeepsTypes DEF TypeOK, Replay
<1>4. ASSUME NEW h \in Handlers, LookupMisses(h) PROVE TypeOK'
  BY <1>0, <1>4, ExecuteKeepsTypes DEF TypeOK, LookupMisses, Execute
<1>5. ASSUME NEW h \in Handlers, LookupFails(h) PROVE TypeOK'
  <2>1. call[h].req.key \in Keys
    BY <1>0, <1>5 DEF TypeOK, LocalsOK, LookupFails, Execute, Calls, Keys
  <2>2. failures' \in 0 .. MaxFailures
    BY <1>0, <1>5, DurationsAssumption DEF TypeOK, LookupFails
  <2> QED
    BY <1>0, <1>5, <2>1, <2>2, ExecuteKeepsTypes DEF TypeOK, LookupFails, Execute
<1>6. ASSUME NEW h \in Handlers, AppendEvent(h) PROVE TypeOK'
  <2>1. /\ call[h].req \in Requests
        /\ call[h].answered \in BOOLEAN
        /\ Len(log[call[h].req.agg]) + 1 \in Nat \ {0}
    BY <1>0, <1>6, AppendGrowsLog DEF TypeOK, LocalsOK, AppendEvent, Calls
  <2>2. effects' \subseteq [req : Requests, version : Nat \ {0}, at : Nat,
                            answered : BOOLEAN]
    BY <1>0, <1>6, <2>1 DEF TypeOK, AppendEvent
  <2>3. LocalsOK'
    BY <1>0, <1>6 DEF TypeOK, LocalsOK, AppendEvent
  <2> QED
    BY <1>0, <1>6, <2>2, <2>3, AppendGrowsLog DEF TypeOK, AppendEvent
<1>7. ASSUME NEW h \in Handlers, Refuse(h) PROVE TypeOK'
  <2> DEFINE r == call[h].req
  <2>1. PICK s \in Refusals(Command(r), Len(log[r.agg]), call[h].began) :
           Answer(h, s, Nil, FALSE)
    BY <1>7 DEF Refuse
  <2>2. s \in Statuses /\ pc[h] # "idle"
    BY <1>7 DEF Refusals, Verdict, Statuses, Refuse
  <2>3. /\ LocalsOK'
        /\ replies' \subseteq [req : Requests, status : Statuses,
                               body : Bodies \cup {Nil}, replayed : BOOLEAN]
    BY <1>0, <2>1, <2>2, AnswerKeepsTypes
  <2> QED
    BY <1>0, <1>7, <2>3 DEF TypeOK, Refuse
<1>8. ASSUME NEW h \in Handlers, CommandFails(h) PROVE TypeOK'
  <2>1. failures' \in 0 .. MaxFailures
    BY <1>0, <1>8, DurationsAssumption DEF TypeOK, CommandFails
  <2>2. 500 \in Statuses /\ pc[h] # "idle"
    BY <1>8 DEF CommandFails, Statuses
  <2>3. Answer(h, 500, Nil, FALSE)
    BY <1>8 DEF CommandFails
  <2> QED
    BY <1>0, <1>8, <2>1, <2>2, <2>3, AnswerKeepsTypes DEF TypeOK, CommandFails
<1>9. ASSUME NEW h \in Handlers, ReadBack(h) PROVE TypeOK'
  <2> DEFINE a == call[h].req.agg
  <2>1. call[h] \in Calls /\ a \in Aggregates
    BY <1>0, <1>9, EntitiesAssumption DEF TypeOK, LocalsOK, ReadBack, Calls
  <2>2. PICK e \in effects : e.req = call[h].req
    BY <1>9 DEF IInv, RepliesBacked, ReadBack
  <2>3. Len(log[a]) \in Nat
    BY <1>0, <2>1 DEF TypeOK
  <2>4. e.version \in Nat \ {0} /\ e.version <= Len(log[a])
    BY <1>0, <2>2 DEF TypeOK, IInv, EffectsInLog
  <2>5. [agg |-> a, version |-> Len(log[a])] \in Bodies
    BY <2>1, <2>3, <2>4 DEF Bodies
  <2>6. call' = [call EXCEPT ![h].body = [agg |-> a, version |-> Len(log[a])]]
    BY <1>9 DEF ReadBack
  <2> HIDE DEF a
  <2>7. call'[h] \in Calls /\ call'[h].body \in Bodies
    BY <1>0, <2>1, <2>5, <2>6 DEF TypeOK, LocalsOK, Calls
  <2>8. LocalsOK'
    BY <1>0, <1>9, <2>6, <2>7 DEF TypeOK, LocalsOK, ReadBack
  <2> QED
    BY <1>0, <1>9, <2>8 DEF TypeOK, ReadBack
<1>10. ASSUME NEW h \in Handlers, StoreKey(h) PROVE TypeOK'
  <2>1. LocalsOK'
    BY <1>0, <1>10 DEF TypeOK, LocalsOK, StoreKey
  <2>2. call[h].body \in Bodies /\ call[h].req.key \in Keys
    BY <1>0, <1>10 DEF TypeOK, LocalsOK, StoreKey, Calls, Keys
  <2>3. KeyRow(h) \in [key : Keys, body : Bodies, status : {200, 201},
                       expires : 1 .. clock + TTL]
    BY <1>0, <2>2, DurationsAssumption DEF TypeOK, KeyRow, SuccessStatus
  <2>4. keys' \subseteq [key : Keys, body : Bodies, status : {200, 201},
                         expires : 1 .. clock + TTL]
    BY <1>0, <1>10, <2>3 DEF TypeOK, StoreKey, WithRow
  <2> QED
    BY <1>0, <1>10, <2>1, <2>4 DEF TypeOK, StoreKey
<1>11. ASSUME NEW h \in Handlers, StoreFails(h) PROVE TypeOK'
  <2>1. LocalsOK'
    BY <1>0, <1>11 DEF TypeOK, LocalsOK, StoreFails
  <2>2. call[h].req.key \in Keys
    BY <1>0, <1>11 DEF TypeOK, LocalsOK, StoreFails, Calls, Keys
  <2>3. failures' \in 0 .. MaxFailures
    BY <1>0, <1>11, DurationsAssumption DEF TypeOK, StoreFails
  <2>4. unreliable' \subseteq Keys
    BY <1>0, <1>11, <2>2 DEF TypeOK, StoreFails
  <2> QED
    BY <1>0, <1>11, <2>1, <2>3, <2>4 DEF TypeOK, StoreFails
<1>12. ASSUME NEW h \in Handlers, Reply(h) PROVE TypeOK'
  <2>1. /\ SuccessStatus(call[h].req) \in Statuses
        /\ call[h].body \in Bodies /\ pc[h] # "idle"
    BY <1>0, <1>12 DEF TypeOK, LocalsOK, Reply, SuccessStatus, Statuses
  <2>2. Answer(h, SuccessStatus(call[h].req), call[h].body, FALSE)
    BY <1>12 DEF Reply
  <2> QED
    BY <1>0, <1>12, <2>1, <2>2, AnswerKeepsTypes DEF TypeOK, Reply
<1>13. ASSUME NEW h \in Handlers, Stop(h) PROVE TypeOK'
  <2>1. LocalsOK'
    BY <1>0, <1>13 DEF TypeOK, LocalsOK, Stop
  <2>2. failures' \in 0 .. MaxFailures
    BY <1>0, <1>13, DurationsAssumption DEF TypeOK, Stop
  <2> QED
    BY <1>0, <1>13, <2>1, <2>2 DEF TypeOK, Stop
<1>14. ASSUME Tick PROVE TypeOK'
  <2>1. 1 .. clock + TTL \subseteq 1 .. clock' + TTL
    BY <1>0, <1>14, DurationsAssumption DEF TypeOK, Tick
  <2>2. keys' \subseteq [key : Keys, body : Bodies, status : {200, 201},
                         expires : 1 .. clock' + TTL]
    BY <1>0, <1>14, <2>1 DEF TypeOK, Tick
  <2>3. LocalsOK'
    BY <1>0, <1>14 DEF TypeOK, LocalsOK, Tick
  <2> QED
    BY <1>0, <1>14, <2>2, <2>3 DEF TypeOK, Tick
<1>15. CASE UNCHANGED vars
  BY <1>0, <1>15 DEF TypeOK, LocalsOK, vars
<1> QED
  BY <1>1, <1>2, <1>3, <1>4, <1>5, <1>6, <1>7, <1>8, <1>9, <1>10, <1>11,
     <1>12, <1>13, <1>14, <1>15 DEF Next, Handle
-----------------------------------------------------------------------------
LEMMA NamedIsANumber ==
    ASSUME NEW r \in Requests, NamesVersion(r)
    PROVE  ParsedVersion(r) \in Nat
BY HeadersAssumption DEF NamesVersion, ParsedVersion

LEMMA EffectsInit == Init => EffectsInLog
BY DEF Init, EffectsInLog

(* Only an append makes an effect, with the version that follows all       *)
(* others of its entity.                                                   *)
LEMMA EffectsStep == IInv /\ [Next]_vars => EffectsInLog'
<1> SUFFICES ASSUME IInv, [Next]_vars PROVE EffectsInLog'
  OBVIOUS
<1>0. TypeOK /\ EffectsInLog
  BY DEF IInv
<1>1. ASSUME NEW h \in Handlers, AppendEvent(h) PROVE EffectsInLog'
  <2> DEFINE r == call[h].req
             n == Len(log[r.agg])
             new == [req |-> r, version |-> n + 1, at |-> clock,
                     answered |-> call[h].answered]
  <2>1. /\ r \in Requests /\ r.agg \in Aggregates /\ n \in Nat
        /\ Len(log'[r.agg]) = n + 1
        /\ \A a \in Aggregates \ {r.agg} : log'[a] = log[a]
    BY <1>0, <1>1, AppendGrowsLog
  <2>2. effects' = effects \cup {new}
    BY <1>1 DEF AppendEvent
  <2>3. r.type = CreatedType <=> log[r.agg] = <<>>
    BY <1>1 DEF AppendEvent, Log!AppendTo, Command
  <2>4. log[r.agg] = <<>> <=> n = 0
    BY <1>0, <2>1, EmptySeq DEF TypeOK
  <2>5. r.type = CreatedType <=> n + 1 = 1
    BY <2>1, <2>3, <2>4
  <2>6. ASSUME r.type # CreatedType, NamesVersion(r)
        PROVE  ParsedVersion(r) = n
    <3>1. ParsedVersion(r) \in {Nil, n}
      BY <1>1, <2>6 DEF AppendEvent, Log!AppendTo, Command
    <3> QED
      BY <2>1, <2>6, <3>1, NamedIsANumber, DurationsAssumption
  <2>7. \A e \in effects : /\ e.req \in Requests /\ e.req.agg \in Aggregates
                           /\ e.version \in Nat \ {0}
    BY <1>0, EntitiesAssumption DEF TypeOK
  <2>8. /\ new.req = r /\ new.version = n + 1
        /\ \A e \in effects : e.req.agg = r.agg => e.version <= n
    BY <1>0 DEF EffectsInLog
  <2> HIDE DEF r, n, new
  <2>9. \A e \in effects : e.version <= Len(log'[e.req.agg])
    <3> SUFFICES ASSUME NEW e \in effects PROVE e.version <= Len(log'[e.req.agg])
      OBVIOUS
    <3>1. CASE e.req.agg = r.agg
      BY <2>1, <2>7, <2>8, <3>1
    <3>2. CASE e.req.agg # r.agg
      BY <1>0, <2>1, <2>7, <3>2 DEF EffectsInLog
    <3> QED
      BY <3>1, <3>2
  <2>10. \A e, f \in effects' :
            e.req.agg = f.req.agg /\ e.version = f.version => e = f
    BY <1>0, <2>1, <2>2, <2>7, <2>8 DEF EffectsInLog
  <2>11. \A e \in effects' :
            /\ e.version <= Len(log'[e.req.agg])
            /\ e.req.type = CreatedType <=> e.version = 1
    BY <1>0, <2>1, <2>2, <2>5, <2>8, <2>9 DEF EffectsInLog
  <2>12. \A e \in effects' :
            e.req.type # CreatedType /\ NamesVersion(e.req) =>
               ParsedVersion(e.req) = e.version - 1
    BY <1>0, <2>1, <2>2, <2>6, <2>8 DEF EffectsInLog
  <2> QED
    BY <2>10, <2>11, <2>12 DEF EffectsInLog
<1>2. CASE UNCHANGED <<log, effects>>
  BY <1>0, <1>2 DEF EffectsInLog
<1> QED
  BY <1>1, <1>2 DEF Next, Handle, vars, Receive, BadRequest, Replay, LookupMisses,
     LookupFails, Execute, Refuse, CommandFails, ReadBack, StoreKey, StoreFails,
     Reply, Stop, Tick

-----------------------------------------------------------------------------
LEMMA RepliesInit == Init => RepliesBacked
BY DEF Init, RepliesBacked

(* What was backed stays backed: a step has to account only for the new    *)
(* rows and replies and for the handler it moves.                          *)
LEMMA BackedStays ==
    ASSUME RepliesBacked, NEW h \in Handlers, effects \subseteq effects',
           \A g \in Handlers \ {h} : pc'[g] = pc[g] /\ call'[g] = call[g],
           \A row \in keys' \ keys :
              Backed(effects', row.key, row.body, row.status),
           pc'[h] = "appended" => \E e \in effects' : e.req = call'[h].req,
           pc'[h] \in {"storing", "replying"} =>
              Backed(effects', call'[h].req.key, call'[h].body,
                     SuccessStatus(call'[h].req)),
           \A p \in replies' \ replies : p.replayed =>
              Backed(effects', p.req.key, p.body, p.status)
    PROVE  RepliesBacked'
<1>1. \A k, body, status :
         Backed(effects, k, body, status) => Backed(effects', k, body, status)
  BY DEF Backed
<1> QED
  BY <1>1 DEF RepliesBacked

LEMMA RepliesStep == IInv /\ [Next]_vars => RepliesBacked'
<1> SUFFICES ASSUME IInv, [Next]_vars PROVE RepliesBacked'
  OBVIOUS
<1>0. TypeOK /\ LocalsOK /\ EffectsInLog /\ RepliesBacked
  BY DEF IInv, TypeOK
<1>1. ASSUME NEW h \in Handlers, Receive(h) PROVE RepliesBacked'
  BY <1>0, <1>1, BackedStays DEF LocalsOK, Receive
<1>2. ASSUME NEW h \in Handlers, BadRequest(h) PROVE RepliesBacked'
  BY <1>0, <1>2, BackedStays DEF LocalsOK, BadRequest, Answer
<1>3. ASSUME NEW h \in Handlers, Replay(h) PROVE RepliesBacked'
  <2>1. PICK row \in keys : /\ row.key = call[h].req.key
                            /\ Answer(h, row.status, row.body, TRUE)
    BY <1>3 DEF Replay, Live
  <2>2. Backed(effects', call[h].req.key, row.body, row.status)
    BY <1>0, <1>3, <2>1 DEF RepliesBacked, Replay
  <2> QED
    BY <1>0, <1>3, <2>1, <2>2, BackedStays DEF LocalsOK, Replay, Answer
<1>4. ASSUME NEW h \in Handlers, Execute(h), UNCHANGED <<keys, effects, replies>>
      PROVE  RepliesBacked'
  <2>1. pc'[h] = "executing" /\ effects \subseteq effects' /\ replies' \ replies = {}
    BY <1>0, <1>4 DEF LocalsOK, Execute
  <2>2. \A g \in Handlers \ {h} : pc'[g] = pc[g] /\ call'[g] = call[g]
    BY <1>0, <1>4 DEF LocalsOK, Execute
  <2>3. keys' \ keys = {}
    BY <1>4
  <2> QED
    BY <1>0, <2>1, <2>2, <2>3, BackedStays
<1>5. ASSUME NEW h \in Handlers, AppendEvent(h) PROVE RepliesBacked'
  <2> DEFINE new == [req |-> call[h].req, version |-> Len(log[call[h].req.agg]) + 1,
                     at |-> clock, answered |-> call[h].answered]
  <2>0. effects' = effects \cup {new}
    BY <1>5 DEF AppendEvent
  <2>1. new \in effects' /\ new.req = call[h].req
    BY <2>0
  <2>2. call' = call /\ pc'[h] = "appended" /\ effects \subseteq effects'
    BY <1>0, <1>5 DEF LocalsOK, AppendEvent
  <2>3. \A g \in Handlers \ {h} : pc'[g] = pc[g] /\ call'[g] = call[g]
    BY <1>0, <1>5 DEF LocalsOK, AppendEvent
  <2>4. keys' = keys /\ replies' = replies
    BY <1>5 DEF AppendEvent
  <2> QED
    BY <1>0, <2>1, <2>2, <2>3, <2>4, BackedStays
<1>6. ASSUME NEW h \in Handlers, Refuse(h) PROVE RepliesBacked'
  BY <1>0, <1>6, BackedStays DEF LocalsOK, Refuse, Answer
<1>7. ASSUME NEW h \in Handlers, CommandFails(h) PROVE RepliesBacked'
  BY <1>0, <1>7, BackedStays DEF LocalsOK, CommandFails, Answer
<1>8. ASSUME NEW h \in Handlers, ReadBack(h) PROVE RepliesBacked'
  <2>1. PICK e \in effects : e.req = call[h].req
    BY <1>0, <1>8 DEF RepliesBacked, ReadBack
  <2>2. e.version <= Len(log[e.req.agg])
    BY <1>0, <2>1 DEF EffectsInLog
  <2>3. /\ call[h] \in Calls
        /\ call' = [call EXCEPT ![h].body =
                        [agg |-> call[h].req.agg, version |-> Len(log[call[h].req.agg])]]
    BY <1>0, <1>8 DEF LocalsOK, ReadBack
  <2>4. /\ call'[h].req = call[h].req
        /\ call'[h].body = [agg |-> call[h].req.agg,
                            version |-> Len(log[call[h].req.agg])]
    BY <1>0, <2>3 DEF LocalsOK, Calls
  <2>5. Backed(effects', call'[h].req.key, call'[h].body, SuccessStatus(call'[h].req))
    BY <1>8, <2>1, <2>2, <2>4 DEF Backed, ReadBack
  <2>6. pc'[h] = "storing"
    BY <1>0, <1>8 DEF LocalsOK, ReadBack
  <2> QED
    BY <1>0, <1>8, <2>5, <2>6, BackedStays DEF LocalsOK, ReadBack
<1>9. ASSUME NEW h \in Handlers, StoreKey(h) PROVE RepliesBacked'
  <2>1. Backed(effects', call[h].req.key, call[h].body, SuccessStatus(call[h].req))
    BY <1>0, <1>9 DEF RepliesBacked, StoreKey
  <2>2. \A row \in keys' \ keys : Backed(effects', row.key, row.body, row.status)
    BY <1>9, <2>1 DEF StoreKey, WithRow, KeyRow
  <2>3. pc'[h] = "replying" /\ call' = call
    BY <1>0, <1>9 DEF LocalsOK, StoreKey
  <2> QED
    BY <1>0, <1>9, <2>1, <2>2, <2>3, BackedStays DEF LocalsOK, StoreKey
<1>10. ASSUME NEW h \in Handlers, StoreFails(h) PROVE RepliesBacked'
  <2>1. Backed(effects', call[h].req.key, call[h].body, SuccessStatus(call[h].req))
    BY <1>0, <1>10 DEF RepliesBacked, StoreFails
  <2> QED
    BY <1>0, <1>10, <2>1, BackedStays DEF LocalsOK, StoreFails
<1>11. ASSUME NEW h \in Handlers, Reply(h) PROVE RepliesBacked'
  BY <1>0, <1>11, BackedStays DEF LocalsOK, Reply, Answer
<1>12. ASSUME NEW h \in Handlers, Stop(h) PROVE RepliesBacked'
  BY <1>0, <1>12, BackedStays DEF LocalsOK, Stop
<1>13. CASE UNCHANGED <<keys, pc, call, effects, replies>>
  BY <1>0, <1>13 DEF RepliesBacked
<1> QED
  BY <1>1, <1>2, <1>3, <1>4, <1>5, <1>6, <1>7, <1>8, <1>9, <1>10, <1>11, <1>12,
     <1>13 DEF Next, Handle, vars, Tick, LookupMisses, LookupFails, Execute

-----------------------------------------------------------------------------
LEMMA KeptInit == Init => AnsweredKept
BY DEF Init, AnsweredKept

(* Rows and failures stay and time goes on: a step has to account only for *)
(* new replies and effects and for the handler it moves.                   *)
LEMMA KeptStays ==
    ASSUME TypeOK, AnsweredKept, NEW h \in Handlers,
           keys \subseteq keys', unreliable \subseteq unreliable', clock' = clock,
           \A g \in Handlers \ {h} : pc'[g] = pc[g] /\ call'[g] = call[g],
           Keyed(call'[h].req) =>
              /\ pc'[h] = "replying" => Kept(keys', unreliable', call'[h].req.key)
              /\ pc'[h] = "received" /\ call'[h].answered =>
                    Kept(keys', unreliable', call'[h].req.key)
              /\ pc'[h] = "executing" /\ call'[h].answered =>
                    Expired(keys', unreliable', call'[h].req.key, clock),
           \A p \in replies' \ replies :
              Keyed(p.req) /\ p.status \in {200, 201} =>
                 Kept(keys', unreliable', p.req.key),
           \A e \in effects' \ effects :
              Keyed(e.req) /\ e.answered => Expired(keys', unreliable', e.req.key, e.at)
    PROVE  AnsweredKept'
<1>1. \A k : Kept(keys, unreliable, k) => Kept(keys', unreliable', k)
  BY DEF Kept
<1>2. \A k, t : Expired(keys, unreliable, k, t) => Expired(keys', unreliable', k, t)
  BY DEF Expired
<1>3. \A g \in Handlers \ {h} : Keyed(call'[g].req) =>
         /\ pc'[g] = "replying" => Kept(keys', unreliable', call'[g].req.key)
         /\ pc'[g] = "received" /\ call'[g].answered =>
               Kept(keys', unreliable', call'[g].req.key)
         /\ pc'[g] = "executing" /\ call'[g].answered =>
               Expired(keys', unreliable', call'[g].req.key, clock)
  BY <1>1, <1>2 DEF AnsweredKept
<1>4. \A p \in replies' : Keyed(p.req) /\ p.status \in {200, 201} =>
         Kept(keys', unreliable', p.req.key)
  BY <1>1 DEF AnsweredKept
<1>5. \A e \in effects' : Keyed(e.req) /\ e.answered =>
         Expired(keys', unreliable', e.req.key, e.at)
  BY <1>2 DEF AnsweredKept
<1> QED
  BY <1>3, <1>4, <1>5 DEF AnsweredKept

LEMMA KeptStep == IInv /\ [Next]_vars => AnsweredKept'
<1> SUFFICES ASSUME IInv, [Next]_vars PROVE AnsweredKept'
  OBVIOUS
<1>0. TypeOK /\ LocalsOK /\ AnsweredKept
  BY DEF IInv, TypeOK
<1>1. ASSUME NEW h \in Handlers, Receive(h) PROVE AnsweredKept'
  <2>1. PICK r \in Requests :
           call' = [call EXCEPT ![h] = [NoCall EXCEPT
                        !.req = r, !.answered = Succeeded(r.key)]]
    BY <1>1 DEF Receive
  <2>2. /\ call'[h].req = r /\ call'[h].answered = Succeeded(r.key)
        /\ pc'[h] = "received"
    BY <1>0, <1>1, <2>1 DEF LocalsOK, Receive, NoCall
  <2>3. Succeeded(r.key) => Kept(keys, unreliable, r.key)
    BY <1>0 DEF Succeeded, AnsweredKept
  <2>4. keys' = keys /\ unreliable' = unreliable
    BY <1>1 DEF Receive
  <2>5. Kept(keys', unreliable', r.key) <=> Kept(keys, unreliable, r.key)
    BY <2>4 DEF Kept
  <2> QED
    BY <1>0, <1>1, <2>1, <2>2, <2>3, <2>4, <2>5, KeptStays DEF LocalsOK, Receive
<1>2. ASSUME NEW h \in Handlers, NEW status, NEW body, NEW replayed,
             Answer(h, status, body, replayed), pc[h] # "idle",
             UNCHANGED <<keys, clock, effects, unreliable>>,
             Keyed(call[h].req) /\ status \in {200, 201} =>
                Kept(keys, unreliable, call[h].req.key)
      PROVE  AnsweredKept'
  <2>1. /\ pc'[h] = "idle"
        /\ \A g \in Handlers \ {h} : pc'[g] = pc[g] /\ call'[g] = call[g]
    BY <1>0, <1>2 DEF LocalsOK, Answer
  <2>2. Kept(keys', unreliable', call[h].req.key) <=>
           Kept(keys, unreliable, call[h].req.key)
    BY <1>2 DEF Kept
  <2> QED
    BY <1>0, <1>2, <2>1, <2>2, KeptStays DEF Answer
<1>3. ASSUME NEW h \in Handlers, BadRequest(h) PROVE AnsweredKept'
  <2> DEFINE status == 400
  <2>1. Answer(h, status, Nil, FALSE)
    BY <1>3 DEF BadRequest
  <2>2. status \notin {200, 201} /\ pc[h] # "idle"
    BY <1>3 DEF BadRequest
  <2>3. UNCHANGED <<keys, clock, effects, unreliable>>
    BY <1>3 DEF BadRequest
  <2> HIDE DEF status
  <2> QED
    BY <1>2, <2>1, <2>2, <2>3
<1>4. ASSUME NEW h \in Handlers, Replay(h) PROVE AnsweredKept'
  <2>1. PICK row \in keys : /\ row.key = call[h].req.key
                            /\ Answer(h, row.status, row.body, TRUE)
    BY <1>4 DEF Replay, Live
  <2>2. Kept(keys, unreliable, call[h].req.key)
    BY <2>1 DEF Kept
  <2> QED
    BY <1>2, <1>4, <2>1, <2>2 DEF Replay
<1>5. ASSUME NEW h \in Handlers, Execute(h), UNCHANGED <<keys, clock, effects, replies>>,
             unreliable \subseteq unreliable',
             Keyed(call[h].req) /\ call[h].answered =>
                Expired(keys', unreliable', call[h].req.key, clock)
      PROVE  AnsweredKept'
  <2>1. /\ call[h] \in Calls
        /\ call'[h] = [call[h] EXCEPT !.began = Len(log[call[h].req.agg])]
    BY <1>0, <1>5 DEF LocalsOK, Execute
  <2>2. call'[h].req = call[h].req /\ call'[h].answered = call[h].answered
    BY <2>1 DEF Calls
  <2>3. /\ pc'[h] = "executing"
        /\ \A g \in Handlers \ {h} : pc'[g] = pc[g] /\ call'[g] = call[g]
    BY <1>0, <1>5 DEF LocalsOK, Execute
  <2> QED
    BY <1>0, <1>5, <2>2, <2>3, KeptStays
<1>6. ASSUME NEW h \in Handlers, LookupMisses(h) PROVE AnsweredKept'
  <2>1. ASSUME Keyed(call[h].req), call[h].answered
        PROVE  Expired(keys, unreliable, call[h].req.key, clock)
    <3>1. Kept(keys, unreliable, call[h].req.key) /\ Live(call[h].req.key) = {}
      BY <1>0, <1>6, <2>1 DEF LookupMisses, Execute, AnsweredKept
    <3>2. \A row \in keys : row.expires \in Nat /\ clock \in Nat
      BY <1>0, DurationsAssumption DEF TypeOK
    <3> QED
      BY <3>1, <3>2 DEF Kept, Live, Expired
  <2>2. Execute(h) /\ UNCHANGED <<keys, clock, effects, replies, unreliable>>
    BY <1>6 DEF LookupMisses, Execute
  <2> QED
    BY <1>5, <2>1, <2>2
<1>7. ASSUME NEW h \in Handlers, LookupFails(h) PROVE AnsweredKept'
  <2>1. Expired(keys', unreliable', call[h].req.key, clock)
    BY <1>7 DEF LookupFails, Expired
  <2>2. /\ Execute(h) /\ unreliable \subseteq unreliable'
        /\ UNCHANGED <<keys, clock, effects, replies>>
    BY <1>7 DEF LookupFails, Execute
  <2> QED
    BY <1>5, <2>1, <2>2
<1>8. ASSUME NEW h \in Handlers, AppendEvent(h) PROVE AnsweredKept'
  <2> DEFINE new == [req |-> call[h].req, version |-> Len(log[call[h].req.agg]) + 1,
                     at |-> clock, answered |-> call[h].answered]
  <2>1. effects' = effects \cup {new} /\ new.at = clock
    BY <1>8 DEF AppendEvent
  <2>2. /\ call' = call /\ keys' = keys /\ clock' = clock
        /\ unreliable' = unreliable /\ replies' = replies
    BY <1>8 DEF AppendEvent
  <2>3. Keyed(new.req) /\ new.answered => Expired(keys, unreliable, new.req.key, new.at)
    BY <1>0, <1>8 DEF AppendEvent, AnsweredKept
  <2>4. pc'[h] = "appended" /\ \A g \in Handlers \ {h} : pc'[g] = pc[g]
    BY <1>0, <1>8 DEF LocalsOK, AppendEvent
  <2> HIDE DEF new
  <2> QED
    BY <1>0, <2>1, <2>2, <2>3, <2>4, KeptStays
<1>9. ASSUME NEW h \in Handlers, Refuse(h) PROVE AnsweredKept'
  <2> DEFINE r == call[h].req
  <2>1. PICK s \in Refusals(Command(r), Len(log[r.agg]), call[h].began) :
           Answer(h, s, Nil, FALSE)
    BY <1>9 DEF Refuse
  <2>2. s \notin {200, 201} /\ pc[h] # "idle"
    BY <1>9 DEF Refusals, Verdict, Refuse
  <2>3. UNCHANGED <<keys, clock, effects, unreliable>>
    BY <1>9 DEF Refuse
  <2> QED
    BY <1>2, <2>1, <2>2, <2>3
<1>10. ASSUME NEW h \in Handlers, CommandFails(h) PROVE AnsweredKept'
  <2> DEFINE status == 500
  <2>1. Answer(h, status, Nil, FALSE)
    BY <1>10 DEF CommandFails
  <2>2. status \notin {200, 201} /\ pc[h] # "idle"
    BY <1>10 DEF CommandFails
  <2>3. UNCHANGED <<keys, clock, effects, unreliable>>
    BY <1>10 DEF CommandFails
  <2> HIDE DEF status
  <2> QED
    BY <1>2, <2>1, <2>2, <2>3
<1>11. ASSUME NEW h \in Handlers, ReadBack(h) PROVE AnsweredKept'
  <2>1. /\ pc'[h] = "storing"
        /\ \A g \in Handlers \ {h} : pc'[g] = pc[g] /\ call'[g] = call[g]
    BY <1>0, <1>11 DEF LocalsOK, ReadBack
  <2>2. UNCHANGED <<keys, clock, effects, unreliable, replies>>
    BY <1>11 DEF ReadBack
  <2> QED
    BY <1>0, <2>1, <2>2, KeptStays
<1>12. ASSUME NEW h \in Handlers, StoreKey(h) PROVE AnsweredKept'
  <2>1. /\ pc'[h] = "replying" /\ call' = call
        /\ \A g \in Handlers \ {h} : pc'[g] = pc[g]
    BY <1>0, <1>12 DEF LocalsOK, StoreKey
  <2>2. keys \subseteq keys' /\ UNCHANGED <<clock, effects, unreliable, replies>>
    BY <1>12 DEF StoreKey, WithRow
  <2>3. Keyed(call[h].req) => Kept(keys', unreliable', call[h].req.key)
    <3>1. CASE Stored(call[h].req.key)
      BY <2>2, <3>1 DEF Stored, Kept
    <3>2. CASE Keyed(call[h].req) /\ ~Stored(call[h].req.key)
      <4>1. KeyRow(h) \in keys' /\ KeyRow(h).key = call[h].req.key
        BY <1>12, <3>2 DEF StoreKey, WithRow, KeyRow
      <4> QED
        BY <4>1 DEF Kept
    <3> QED
      BY <3>1, <3>2
  <2> QED
    BY <1>0, <2>1, <2>2, <2>3, KeptStays
<1>13. ASSUME NEW h \in Handlers, StoreFails(h) PROVE AnsweredKept'
  <2>1. /\ pc'[h] = "replying" /\ call' = call
        /\ \A g \in Handlers \ {h} : pc'[g] = pc[g]
    BY <1>0, <1>13 DEF LocalsOK, StoreFails
  <2>2. unreliable \subseteq unreliable' /\ UNCHANGED <<keys, clock, effects, replies>>
    BY <1>13 DEF StoreFails
  <2>3. Kept(keys', unreliable', call[h].req.key)
    BY <1>13 DEF StoreFails, Kept
  <2> QED
    BY <1>0, <2>1, <2>2, <2>3, KeptStays
<1>14. ASSUME NEW h \in Handlers, Reply(h) PROVE AnsweredKept'
  <2>1. /\ Answer(h, SuccessStatus(call[h].req), call[h].body, FALSE)
        /\ pc[h] = "replying" /\ UNCHANGED <<keys, clock, effects, unreliable>>
    BY <1>14 DEF Reply
  <2>2. Keyed(call[h].req) => Kept(keys, unreliable, call[h].req.key)
    BY <1>0, <2>1 DEF AnsweredKept
  <2> QED
    BY <1>2, <2>1, <2>2
<1>15. ASSUME NEW h \in Handlers, Stop(h) PROVE AnsweredKept'
  <2>1. /\ pc'[h] = "idle"
        /\ \A g \in Handlers \ {h} : pc'[g] = pc[g] /\ call'[g] = call[g]
    BY <1>0, <1>15 DEF LocalsOK, Stop
  <2>2. UNCHANGED <<keys, clock, effects, unreliable, replies>>
    BY <1>15 DEF Stop
  <2> QED
    BY <1>0, <2>1, <2>2, KeptStays
<1>16. ASSUME Tick PROVE AnsweredKept'
  <2>1. /\ clock \in Nat /\ clock' = clock + 1
        /\ \A row \in keys : row.expires \in Nat
    BY <1>0, <1>16, DurationsAssumption DEF TypeOK, Tick
  <2>2. \A k : Expired(keys, unreliable, k, clock) =>
                  Expired(keys, unreliable, k, clock')
    BY <2>1 DEF Expired
  <2> QED
    BY <1>0, <1>16, <2>2 DEF AnsweredKept, Tick
<1>17. CASE UNCHANGED vars
  BY <1>0, <1>17 DEF AnsweredKept, vars
<1> QED
  BY <1>1, <1>3, <1>4, <1>6, <1>7, <1>8, <1>9, <1>10, <1>11, <1>12, <1>13, <1>14,
     <1>15, <1>16, <1>17 DEF Next, Handle

-----------------------------------------------------------------------------
LEMMA RowsInit == Init => ReplaysFromRows
BY DEF Init, ReplaysFromRows

(* Rows are only added, each under a key that has none, and only Replay    *)
(* answers from a row.                                                     *)
LEMMA RowsStep == IInv /\ [Next]_vars => ReplaysFromRows'
<1> SUFFICES ASSUME IInv, [Next]_vars PROVE ReplaysFromRows'
  OBVIOUS
<1>0. ReplaysFromRows
  BY DEF IInv
<1>1. ASSUME NEW h \in Handlers, StoreKey(h) PROVE ReplaysFromRows'
  <2>1. replies' = replies
    BY <1>1 DEF StoreKey
  <2>2. CASE keys' = keys
    BY <1>0, <2>1, <2>2 DEF ReplaysFromRows
  <2>3. CASE ~Stored(call[h].req.key) /\ keys' = keys \cup {KeyRow(h)}
    <3>1. KeyRow(h).key = call[h].req.key
      BY DEF KeyRow
    <3>2. \A row \in keys : row.key # KeyRow(h).key
      BY <2>3, <3>1 DEF Stored
    <3> QED
      BY <1>0, <2>1, <2>3, <3>2 DEF ReplaysFromRows
  <2> QED
    BY <1>1, <2>2, <2>3 DEF StoreKey, WithRow
<1>2. ASSUME NEW h \in Handlers, NEW status, NEW body,
             Answer(h, status, body, FALSE), keys' = keys
      PROVE  ReplaysFromRows'
  <2>1. \A p \in replies' : p.replayed => p \in replies
    BY <1>2 DEF Answer
  <2> QED
    BY <1>0, <1>2, <2>1 DEF ReplaysFromRows
<1>3. ASSUME NEW h \in Handlers, Replay(h) PROVE ReplaysFromRows'
  <2>1. PICK row \in keys : /\ row.key = call[h].req.key
                            /\ Answer(h, row.status, row.body, TRUE)
    BY <1>3 DEF Replay, Live
  <2> DEFINE new == [req |-> call[h].req, status |-> row.status,
                     body |-> row.body, replayed |-> TRUE]
  <2>2. replies' = replies \cup {new}
    BY <2>1 DEF Answer
  <2>3. keys' = keys
    BY <1>3 DEF Replay
  <2>4. /\ new.req.key = row.key /\ new.body = row.body /\ new.status = row.status
    BY <2>1
  <2> HIDE DEF new
  <2> QED
    BY <1>0, <2>2, <2>3, <2>4 DEF ReplaysFromRows
<1>4. ASSUME NEW h \in Handlers, BadRequest(h) PROVE ReplaysFromRows'
  <2> DEFINE status == 400
  <2>1. Answer(h, status, Nil, FALSE) /\ keys' = keys
    BY <1>4 DEF BadRequest
  <2> HIDE DEF status
  <2> QED
    BY <1>2, <2>1
<1>5. ASSUME NEW h \in Handlers, CommandFails(h) PROVE ReplaysFromRows'
  <2> DEFINE status == 500
  <2>1. Answer(h, status, Nil, FALSE) /\ keys' = keys
    BY <1>5 DEF CommandFails
  <2> HIDE DEF status
  <2> QED
    BY <1>2, <2>1
<1>6. ASSUME NEW h \in Handlers, Refuse(h) \/ Reply(h) PROVE ReplaysFromRows'
  <2>1. keys' = keys /\ \E status, body : Answer(h, status, body, FALSE)
    BY <1>6 DEF Refuse, Reply
  <2> QED
    BY <1>2, <2>1
<1>7. CASE UNCHANGED <<keys, replies>>
  BY <1>0, <1>7 DEF ReplaysFromRows
<1> QED
  BY <1>1, <1>3, <1>4, <1>5, <1>6, <1>7 DEF Next, Handle, vars, Receive, LookupMisses,
     LookupFails, Execute, AppendEvent, ReadBack, StoreFails, Stop, Tick

-----------------------------------------------------------------------------
LEMMA Invariance == Spec => []IInv
<1>1. Init => IInv
  BY TypeInit, EffectsInit, RepliesInit, KeptInit, RowsInit DEF IInv
<1>2. IInv /\ [Next]_vars => IInv'
  BY TypeStep, EffectsStep, RepliesStep, KeptStep, RowsStep DEF IInv
<1> QED
  BY <1>1, <1>2, PTL DEF Spec

(* The tables and the handlers' locals keep their shapes (users.go,        *)
(* commands.go).                                                           *)
THEOREM TypeCorrect == Spec => []TypeOK
<1>1. IInv => TypeOK
  BY DEF IInv
<1> QED
  BY <1>1, Invariance, PTL

(* checkIdempotency never replays a reply that no command earned, however  *)
(* many handlers share the key and whatever fails (helpers.go).            *)
THEOREM NoUnearnedReplay == Spec => []ReplaysTruthful
<1>1. IInv => ReplaysTruthful
  BY DEF IInv, RepliesBacked, Backed, ReplaysTruthful
<1> QED
  BY <1>1, Invariance, PTL

(* However often a creation or a command with an expected version is sent, *)
(* append lets it take effect once (service.go, commands.go).              *)
THEOREM ConditionalCommandsRunOnce == Spec => []ConditionalOnce
<1>1. ASSUME IInv PROVE ConditionalOnce
  <2> SUFFICES ASSUME NEW e \in effects, NEW f \in effects, e.req = f.req,
                      e.req.type = CreatedType \/ NamesVersion(e.req)
               PROVE  e = f
    BY DEF ConditionalOnce
  <2>1. e.version \in Nat /\ f.version \in Nat
    BY <1>1 DEF IInv, TypeOK
  <2>2. e.version = f.version
    BY <1>1, <2>1 DEF IInv, EffectsInLog
  <2> QED
    BY <1>1, <2>2 DEF IInv, EffectsInLog
<1> QED
  BY <1>1, Invariance, PTL

(* All retries of a key are replayed the same reply: Store does nothing    *)
(* when the key has a row (commands.go).                                   *)
THEOREM RetriesHearTheSame == Spec => []ReplaysAgree
<1>1. IInv => ReplaysAgree
  BY DEF IInv, ReplaysFromRows, ReplaysAgree
<1> QED
  BY <1>1, Invariance, PTL

(* Once storeIdempotency and the reply are through, checkIdempotency lets  *)
(* no retry run before the row expires, unless one of its calls fails.     *)
THEOREM AnsweredCommandsRunOnce == Spec => []AnsweredRunsOnce
<1>1. IInv => AnsweredRunsOnce
  BY DEF IInv, AnsweredKept, Expired, AnsweredRunsOnce
<1> QED
  BY <1>1, Invariance, PTL
=============================================================================
