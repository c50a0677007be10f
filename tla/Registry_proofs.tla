---------------------------- MODULE Registry_proofs ----------------------------
(***************************************************************************)
(* Safety of the model registry for any number of clients, models and      *)
(* versions.  What the proofs rest on is that the number a client holds    *)
(* between its two transactions lies beyond every recorded version as long *)
(* as the client is alone.                                                 *)
(***************************************************************************)
EXTENDS Registry, TLAPS

NumberFresh ==
  \A c \in Clients : pc[c] = "numbered" /\ call[c].alone =>
    \A u \in Versions : Exists(<<call[c].id, u>>) => u < call[c].version

IInv == TypeOK /\ NumberFresh /\ RegistrationsKept

-----------------------------------------------------------------------------
\* A number is beyond every recorded version.
LEMMA NextBeyond ==
  ASSUME NEW id \in ModelIds, NEW v \in Versions, IsNextVersion(id, v)
  PROVE  \A u \in Versions : Exists(<<id, u>>) => u < v
  BY DEF IsNextVersion, Recorded

LEMMA UpsertType ==
  ASSUME TypeOK, NEW id \in ModelIds, NEW v \in Versions, NEW content \in Contents,
         Upsert(id, v, content)
  PROVE  /\ models' \in [Keys -> Row]
         /\ models'[<<id, v>>] = [content |-> content, deleted |-> FALSE]
         /\ \A k \in Keys \ {<<id, v>>} : models'[k] = models[k]
         /\ \A k \in Keys : Exists(k)' => Exists(k) \/ k = <<id, v>>
         /\ \A k \in Keys : ~Exists(k)' => models'[k] = NoRow
<1>1. <<id, v>> \in Keys /\ [content |-> content, deleted |-> FALSE] \in Row
  BY DEF Keys, Row
<1>2. /\ models' \in [Keys -> Row]
      /\ models'[<<id, v>>] = [content |-> content, deleted |-> FALSE]
      /\ \A k \in Keys \ {<<id, v>>} : models'[k] = models[k]
  BY <1>1 DEF Upsert, TypeOK
<1>3. content # NoContent
  BY RegistryAssumption
<1>4. QED
  BY <1>2, <1>3 DEF Exists, TypeOK

\* What a registration of a model does to those who are numbering one.
LEMMA OvertakeStep ==
  ASSUME TypeOK, NEW c \in Clients, NEW id \in ModelIds
  PROVE  /\ Overtake(c, id) \in [Clients -> Calls \cup {NoCall}]
         /\ \A d \in Clients : pc[d] = "numbered" =>
              /\ Overtake(c, id)[d] \in Calls
              /\ Overtake(c, id)[d].id = call[d].id
              /\ Overtake(c, id)[d].version = call[d].version
              /\ Overtake(c, id)[d].alone => call[d].alone /\ (d = c \/ call[d].id # id)
<1> SUFFICES ASSUME NEW d \in Clients
             PROVE  /\ Overtake(c, id)[d] \in Calls \cup {NoCall}
                    /\ pc[d] = "numbered" =>
                         /\ Overtake(c, id)[d] \in Calls
                         /\ Overtake(c, id)[d].id = call[d].id
                         /\ Overtake(c, id)[d].version = call[d].version
                         /\ Overtake(c, id)[d].alone => call[d].alone /\ (d = c \/ call[d].id # id)
  BY DEF Overtake
<1>1. CASE d # c /\ pc[d] = "numbered" /\ call[d].id = id
  <2>1. Overtake(c, id)[d] = [call[d] EXCEPT !.alone = FALSE] /\ call[d] \in Calls
    BY <1>1 DEF Overtake, TypeOK
  <2>2. QED
    BY <1>1, <2>1 DEF Calls
<1>2. CASE ~(d # c /\ pc[d] = "numbered" /\ call[d].id = id)
  <2>1. Overtake(c, id)[d] = call[d]
    BY <1>2 DEF Overtake
  <2>2. QED
    BY <1>2, <2>1 DEF TypeOK
<1>3. QED
  BY <1>1, <1>2

-----------------------------------------------------------------------------
LEMMA InitInv == Init => IInv
<1> SUFFICES ASSUME Init PROVE IInv
  OBVIOUS
<1>1. TypeOK
  BY DEF Init, TypeOK, NoRow, Row, Exists
<1>2. NumberFresh /\ RegistrationsKept
  BY DEF Init, NumberFresh, RegistrationsKept
<1>3. QED
  BY <1>1, <1>2 DEF IInv

LEMMA RegisterStep ==
  ASSUME IInv, NEW c \in Clients, NEW id \in ModelIds, NEW v \in Versions, NEW content \in Contents,
         Register(c, id, v, content)
  PROVE  IInv'
<1>0. TypeOK
  BY DEF IInv
<1>1. /\ Upsert(id, v, content) /\ call' = Overtake(c, id) /\ pc' = pc /\ pc[c] = "idle"
      /\ acked' = {a \in acked : a.key # <<id, v>>} /\ shared' = shared \ {<<id, v>>}
  BY DEF Register
<1>2. /\ models' \in [Keys -> Row]
      /\ \A k \in Keys \ {<<id, v>>} : models'[k] = models[k]
      /\ \A k \in Keys : Exists(k)' => Exists(k) \/ k = <<id, v>>
      /\ \A k \in Keys : ~Exists(k)' => models'[k] = NoRow
  BY <1>0, <1>1, UpsertType
<1>3. TypeOK'
  BY <1>0, <1>1, <1>2, OvertakeStep DEF TypeOK
<1>4. NumberFresh'
  <2>1. SUFFICES ASSUME NEW d \in Clients, pc[d] = "numbered", Overtake(c, id)[d].alone,
                        NEW u \in Versions, NEW k \in Keys, k = <<call[d].id, u>>, Exists(k)'
                 PROVE  u < call[d].version
    BY <1>0, <1>1, OvertakeStep DEF NumberFresh, TypeOK, Calls, Keys
  <2>2. call[d].alone /\ call[d].id # id /\ call[d].id \in ModelIds
    BY <1>0, <1>1, <2>1, OvertakeStep DEF TypeOK, Calls
  <2>3. Exists(<<call[d].id, u>>)
    <3>1. k # <<id, v>>
      BY <2>1, <2>2 DEF Keys
    <3>2. QED
      BY <1>2, <2>1, <3>1
  <2>4. QED
    BY <2>1, <2>2, <2>3 DEF IInv, NumberFresh
<1>5. RegistrationsKept'
  <2>1. SUFFICES ASSUME NEW a \in acked, a.key # <<id, v>> PROVE a.key \in shared' \/ Stored(a)'
    BY <1>1 DEF RegistrationsKept
  <2>2. a.key \in Keys /\ models'[a.key] = models[a.key]
    BY <1>0, <1>2, <2>1 DEF TypeOK
  <2>3. QED
    BY <1>1, <2>1, <2>2 DEF IInv, RegistrationsKept, Stored
<1>6. QED
  BY <1>4, <1>5, <1>3 DEF IInv

LEMMA NumberStep ==
  ASSUME IInv, NEW c \in Clients, NEW id \in ModelIds, NEW content \in Contents,
         Number(c, id, content)
  PROVE  IInv'
<1>0. TypeOK
  BY DEF IInv
<1>1. PICK v \in Versions :
        IsNextVersion(id, v) /\ call' = [call EXCEPT ![c] =
          [id |-> id, version |-> v, content |-> content, alone |-> TRUE]]
  BY DEF Number
<1>2. UNCHANGED <<models, acked, shared>> /\ pc' = [pc EXCEPT ![c] = "numbered"]
  BY DEF Number
<1>3. [id |-> id, version |-> v, content |-> content, alone |-> TRUE] \in Calls
  BY DEF Calls
<1>4. TypeOK'
  BY <1>0, <1>1, <1>2, <1>3 DEF TypeOK, Exists
<1>5. NumberFresh'
  <2>1. SUFFICES ASSUME NEW d \in Clients, pc'[d] = "numbered", call'[d].alone,
                        NEW u \in Versions, Exists(<<call'[d].id, u>>)
                 PROVE  u < call'[d].version
    BY <1>2 DEF NumberFresh, Exists
  <2>2. CASE d = c
    BY <1>0, <1>1, <2>1, <2>2, NextBeyond DEF TypeOK
  <2>3. CASE d # c
    BY <1>0, <1>1, <1>2, <2>1, <2>3 DEF TypeOK, IInv, NumberFresh
  <2>4. QED
    BY <2>2, <2>3
<1>6. RegistrationsKept'
  BY <1>2 DEF IInv, RegistrationsKept, Stored
<1>7. QED
  BY <1>4, <1>5, <1>6 DEF IInv

LEMMA CommitStep ==
  ASSUME IInv, NEW c \in Clients, Commit(c)
  PROVE  IInv'
<1> DEFINE id == call[c].id
           v == call[c].version
           key == <<id, v>>
<1>0. TypeOK
  BY DEF IInv
<1>1. /\ pc[c] = "numbered" /\ Upsert(id, v, call[c].content)
      /\ acked' = acked \cup {[key |-> key, content |-> call[c].content]}
      /\ shared' = IF call[c].alone THEN shared ELSE shared \cup {key}
      /\ call' = [Overtake(c, id) EXCEPT ![c] = NoCall]
      /\ pc' = [pc EXCEPT ![c] = "idle"]
  BY DEF Commit
<1>2. /\ call[c] \in Calls /\ id \in ModelIds /\ v \in Versions /\ call[c].content \in Contents
      /\ key \in Keys
  BY <1>0, <1>1 DEF TypeOK, Calls, Keys
<1> HIDE DEF id, v, key
<1>3. /\ models' \in [Keys -> Row]
      /\ models'[key] = [content |-> call[c].content, deleted |-> FALSE]
      /\ \A k \in Keys \ {key} : models'[k] = models[k]
      /\ \A k \in Keys : Exists(k)' => Exists(k) \/ k = key
      /\ \A k \in Keys : ~Exists(k)' => models'[k] = NoRow
  BY <1>0, <1>1, <1>2, UpsertType DEF key
<1>4. TypeOK'
  <2>1. /\ Overtake(c, id) \in [Clients -> Calls \cup {NoCall}]
        /\ \A d \in Clients : pc[d] = "numbered" => Overtake(c, id)[d] \in Calls
    BY <1>0, <1>2, OvertakeStep
  <2>2. call' \in [Clients -> Calls \cup {NoCall}] /\ \A d \in Clients : pc'[d] = "numbered" => call'[d] \in Calls
    BY <1>0, <1>1, <2>1 DEF TypeOK
  <2>3. acked' \subseteq [key : Keys, content : Contents] /\ shared' \subseteq Keys
    BY <1>0, <1>1, <1>2 DEF TypeOK
  <2>4. QED
    BY <1>0, <1>1, <1>3, <2>2, <2>3 DEF TypeOK
<1>5. NumberFresh'
  <2>1. SUFFICES ASSUME NEW d \in Clients \ {c}, pc[d] = "numbered", Overtake(c, id)[d].alone,
                        NEW u \in Versions, NEW k \in Keys, k = <<call[d].id, u>>, Exists(k)'
                 PROVE  u < call[d].version
    BY <1>0, <1>1, <1>2, OvertakeStep DEF NumberFresh, TypeOK, Calls, Keys
  <2>2. call[d].alone /\ call[d].id # id /\ call[d].id \in ModelIds
    BY <1>0, <1>2, <2>1, OvertakeStep DEF TypeOK, Calls
  <2>3. Exists(<<call[d].id, u>>)
    <3>1. k # key
      BY <2>1, <2>2 DEF Keys, key
    <3>2. QED
      BY <1>3, <2>1, <3>1
  <2>4. QED
    BY <2>1, <2>2, <2>3 DEF IInv, NumberFresh
<1>6. RegistrationsKept'
  <2>1. SUFFICES ASSUME NEW a \in acked \cup {[key |-> key, content |-> call[c].content]}
                 PROVE  a.key \in shared' \/ Stored(a)'
    BY <1>1 DEF RegistrationsKept
  <2>2. models'[key].content = call[c].content /\ \A k \in Keys \ {key} : models'[k] = models[k]
    BY <1>3
  <2>3. CASE a = [key |-> key, content |-> call[c].content]
    BY <2>2, <2>3 DEF Stored
  <2>4. CASE a \in acked /\ a.key # key
    <3>1. a.key \in Keys
      BY <1>0, <2>4 DEF TypeOK
    <3>2. QED
      BY <1>1, <2>2, <2>4, <3>1 DEF IInv, RegistrationsKept, Stored
  <2>5. CASE a \in acked /\ a.key = key /\ call[c].alone
    <3>1. ~Exists(key)
      BY <1>1, <1>2, <2>5 DEF IInv, NumberFresh, id, v, key, Versions
    <3>2. a.content # NoContent
      BY <1>0, <2>5, RegistryAssumption DEF TypeOK
    <3>3. key \in shared
      BY <2>5, <3>1, <3>2 DEF IInv, RegistrationsKept, Stored, Exists
    <3>4. QED
      BY <1>1, <2>5, <3>3
  <2>6. CASE a \in acked /\ a.key = key /\ ~call[c].alone
    BY <1>1, <2>6
  <2>7. QED
    BY <2>1, <2>3, <2>4, <2>5, <2>6
<1>7. QED
  BY <1>5, <1>6, <1>4 DEF IInv

LEMMA AbandonStep ==
  ASSUME IInv, NEW c \in Clients, Abandon(c)
  PROVE  IInv'
<1>0. TypeOK
  BY DEF IInv
<1>1. TypeOK'
  BY <1>0 DEF Abandon, TypeOK, Exists
<1>2. NumberFresh'
  BY <1>0 DEF Abandon, TypeOK, IInv, NumberFresh, Exists
<1>3. RegistrationsKept'
  BY DEF Abandon, IInv, RegistrationsKept, Stored
<1>4. QED
  BY <1>1, <1>2, <1>3 DEF IInv

LEMMA DeleteStep ==
  ASSUME IInv, NEW c \in Clients, NEW keys \in SUBSET Keys, NEW soft \in BOOLEAN,
         Delete(c, keys, soft)
  PROVE  IInv'
<1>0. TypeOK
  BY DEF IInv
<1>1. /\ UNCHANGED <<pc, call>>
      /\ models' \in [Keys -> Row]
      /\ \A k \in Keys : models'[k].content = models[k].content \/ (~soft /\ k \in keys)
      /\ \A k \in Keys : Exists(k)' => Exists(k)
      /\ \A k \in Keys : ~Exists(k)' => models'[k] = NoRow
  BY <1>0 DEF Delete, TypeOK, Row, NoRow, Exists
<1>2. /\ acked' = IF soft THEN acked ELSE {a \in acked : a.key \notin keys}
      /\ shared' = IF soft THEN shared ELSE shared \ keys
  BY DEF Delete
<1>3. TypeOK'
  BY <1>0, <1>1, <1>2 DEF TypeOK
<1>4. NumberFresh'
  BY <1>0, <1>1 DEF TypeOK, Calls, Keys, IInv, NumberFresh
<1>5. RegistrationsKept'
  <2>1. \A a \in acked : a.key \in Keys
    BY <1>0 DEF TypeOK
  <2>2. QED
    BY <1>1, <1>2, <2>1 DEF IInv, RegistrationsKept, Stored
<1>6. QED
  BY <1>3, <1>4, <1>5 DEF IInv

LEMMA StepInv == IInv /\ [Next]_vars => IInv'
<1> SUFFICES ASSUME IInv, [Next]_vars PROVE IInv'
  OBVIOUS
<1>1. CASE UNCHANGED vars
  BY <1>1 DEF vars, IInv, TypeOK, NumberFresh, RegistrationsKept, Stored, Exists
<1>2. ASSUME NEW c \in Clients, NEW id \in ModelIds, NEW soft \in BOOLEAN,
             NEW keys \in Matching(id), Delete(c, keys, soft)
      PROVE  IInv'
  <2>1. keys \in SUBSET Keys
    BY <1>2 DEF Matching, Keys
  <2>2. QED
    BY <1>2, <2>1, DeleteStep
<1>3. QED
  BY <1>1, <1>2, RegisterStep, NumberStep, CommitStep, AbandonStep DEF Next

\* The inductive invariant.
THEOREM Inductive == Spec => []IInv
  BY InitInv, StepInv, PTL DEF Spec

\* The registry keeps its type, and a version that is not recorded bears no mark.
THEOREM TypeCorrect == Spec => []TypeOK
<1>1. IInv => TypeOK
  BY DEF IInv
<1>2. QED
  BY Inductive, <1>1, PTL

\* An automatic registration stays recorded unless another one overlapped.
THEOREM Kept == Spec => []RegistrationsKept
<1>1. IInv => RegistrationsKept
  BY DEF IInv
<1>2. QED
  BY Inductive, <1>1, PTL

\* An automatic registration that was alone is the latest when it returns.
THEOREM Latest == Spec => NewestIsLatest
<1> DEFINE Newest == \A c \in Clients, id \in ModelIds, v \in Versions :
             Commit(c) /\ call[c].alone /\ call[c].id = id /\ call[c].version = v
               => IsLatest(id, v)'
<1>1. ASSUME IInv PROVE Newest
  <2>1. SUFFICES ASSUME NEW c \in Clients, NEW id \in ModelIds, NEW v \in Versions,
                        Commit(c), call[c].alone, call[c].id = id, call[c].version = v
                 PROVE  IsLatest(id, v)'
    OBVIOUS
  <2>2. pc[c] = "numbered" /\ call[c].content \in Contents
    BY <1>1, <2>1 DEF IInv, TypeOK, Commit, Calls
  <2>3. Live(<<id, v>>)'
    BY <1>1, <2>1, <2>2, RegistryAssumption DEF IInv, TypeOK, Commit, Upsert, Live, Exists, Keys
  <2>4. ASSUME NEW u \in Versions, Live(<<id, u>>)', u # v PROVE u <= v
    <3>1. Exists(<<id, u>>)
      BY <1>1, <2>1, <2>2, <2>4 DEF IInv, TypeOK, Commit, Upsert, Live, Exists, Keys
    <3>2. <<id, u>> \in Keys
      BY <2>1, <2>4 DEF Keys
    <3>3. u < v
      BY <1>1, <2>1, <2>2, <3>1, <3>2 DEF IInv, NumberFresh
    <3>4. QED
      BY <3>3, <2>1, <2>4, RegistryAssumption DEF Versions
  <2>5. \A u \in Versions : Live(<<id, u>>)' => u <= v
    BY <2>1, <2>4, RegistryAssumption DEF Versions
  <2>6. QED
    BY <2>3, <2>5 DEF IsLatest
<1>2. IInv => [Newest]_vars
  BY <1>1
<1>3. QED
  BY Inductive, <1>2, PTL DEF NewestIsLatest
=============================================================================
