------------------------------- MODULE Registry -------------------------------
(***************************************************************************)
(* dist_stack.registry used by several processes at once.  Every call is   *)
(* one transaction except register with version=None: next_version reads   *)
(* the highest version in a transaction of its own, hash_fn may run, and   *)
(* the upsert follows in a second transaction.                             *)
(*                                                                         *)
(* What a row says of its model (stored_path, model_hash, metadata) is one *)
(* content.  Versions are numbers below a bound; 0 can only be given       *)
(* explicitly.                                                             *)
(***************************************************************************)
EXTENDS Naturals

CONSTANTS
  Clients,      \* processes that call the library
  ModelIds,
  Contents,     \* what rows may say of a model
  MaxVersion,   \* bound on the versions that are registered
  NoContent     \* no row

ASSUME RegistryAssumption == NoContent \notin Contents /\ MaxVersion \in Nat

VARIABLES
  models,   \* table models: (id, version) -> row
  pc,       \* client -> "idle", or "numbered" between the two transactions
  call,     \* client -> what it is registering, and whether it has been alone
  acked,    \* history: automatic registrations that returned and that nobody
            \* has replaced explicitly or hard-deleted since
  shared    \* history: keys registered by a client that had not been alone

vars == <<models, pc, call, acked, shared>>

Versions == 0..MaxVersion
Keys     == ModelIds \X Versions
Row      == [content : Contents \cup {NoContent}, deleted : BOOLEAN]
NoRow    == [content |-> NoContent, deleted |-> FALSE]
Calls    == [id : ModelIds, version : Versions, content : Contents, alone : BOOLEAN]
NoCall   == [id |-> NoContent, version |-> 0, content |-> NoContent, alone |-> FALSE]

Exists(k)    == models[k].content # NoContent
Live(k)      == Exists(k) /\ ~models[k].deleted
Recorded(id) == {v \in Versions : Exists(<<id, v>>)}

\* lookup(id): the highest version that is not deleted.
IsLatest(id, v) == Live(<<id, v>>) /\ \A u \in Versions : Live(<<id, u>>) => u <= v

TypeOK ==
  /\ models \in [Keys -> Row]
  /\ \A k \in Keys : ~Exists(k) => models[k] = NoRow
  /\ pc \in [Clients -> {"idle", "numbered"}]
  /\ call \in [Clients -> Calls \cup {NoCall}]
  /\ \A c \in Clients : pc[c] = "numbered" => call[c] \in Calls
  /\ acked \subseteq [key : Keys, content : Contents]
  /\ shared \subseteq Keys

Init ==
  /\ models = [k \in Keys |-> NoRow]
  /\ pc = [c \in Clients |-> "idle"]
  /\ call = [c \in Clients |-> NoCall]
  /\ acked = {}
  /\ shared = {}

-----------------------------------------------------------------------------
\* Faulty variants of IsNextVersion: soft-deleted versions are not counted; the
\* first free number is taken instead of the one beyond the highest.
IsNextLive(id, v) ==
  IF \A u \in Versions : ~Live(<<id, u>>) THEN v = 1
  ELSE v \in 1..MaxVersion /\ Live(<<id, v - 1>>) /\ \A u \in Versions : Live(<<id, u>>) => u < v
IsFirstGap(id, v) == v \in 1..MaxVersion /\ ~Exists(<<id, v>>) /\ \A u \in 1..(v - 1) : Exists(<<id, u>>)

\* next_version: MAX(version) + 1, over soft-deleted rows too, else 1.
IsNextVersion(id, v) ==
  IF Recorded(id) = {} THEN v = 1
  ELSE v - 1 \in Recorded(id) /\ \A u \in Recorded(id) : u < v

\* INSERT ... ON CONFLICT(model_id, version) DO UPDATE: clears the stamp.
Upsert(id, v, content) ==
  models' = [models EXCEPT ![<<id, v>>] = [content |-> content, deleted |-> FALSE]]

\* Whoever is between its two transactions for this model is no longer alone.
Overtake(c, id) ==
  [d \in Clients |-> IF d # c /\ pc[d] = "numbered" /\ call[d].id = id
                     THEN [call[d] EXCEPT !.alone = FALSE] ELSE call[d]]

\* register(id, version=v).
Register(c, id, v, content) ==
  /\ pc[c] = "idle"
  /\ Upsert(id, v, content)
  /\ call' = Overtake(c, id)
  /\ acked' = {a \in acked : a.key # <<id, v>>}
  /\ shared' = shared \ {<<id, v>>}
  /\ UNCHANGED pc

\* register(id): next_version.
Number(c, id, content) ==
  /\ pc[c] = "idle"
  /\ \E v \in Versions :
       /\ IsNextVersion(id, v)
       /\ call' = [call EXCEPT ![c] =
                     [id |-> id, version |-> v, content |-> content, alone |-> TRUE]]
  /\ pc' = [pc EXCEPT ![c] = "numbered"]
  /\ UNCHANGED <<models, acked, shared>>

\* The upsert of register(id).
Commit(c) ==
  LET id == call[c].id  key == <<id, call[c].version>> IN
  /\ pc[c] = "numbered"
  /\ Upsert(id, call[c].version, call[c].content)
  /\ acked' = acked \cup {[key |-> key, content |-> call[c].content]}
  /\ shared' = IF call[c].alone THEN shared ELSE shared \cup {key}
  /\ call' = [Overtake(c, id) EXCEPT ![c] = NoCall]
  /\ pc' = [pc EXCEPT ![c] = "idle"]

\* hash_fn raises, or the process dies: nothing has been written.
Abandon(c) ==
  /\ pc[c] = "numbered"
  /\ pc' = [pc EXCEPT ![c] = "idle"]
  /\ call' = [call EXCEPT ![c] = NoCall]
  /\ UNCHANGED <<models, acked, shared>>

\* delete(id, v) and delete(id): the rows that match are stamped, or dropped.
Delete(c, keys, soft) ==
  /\ pc[c] = "idle"
  /\ \E k \in keys : Exists(k)
  /\ models' = [k \in Keys |->
                  IF k \notin keys \/ ~Exists(k) THEN models[k]
                  ELSE IF soft THEN [models[k] EXCEPT !.deleted = TRUE] ELSE NoRow]
  /\ acked' = IF soft THEN acked ELSE {a \in acked : a.key \notin keys}
  /\ shared' = IF soft THEN shared ELSE shared \ keys
  /\ UNCHANGED <<pc, call>>

Matching(id) == {{<<id, v>>} : v \in Versions} \cup {{id} \X Versions}

Next ==
  \/ \E c \in Clients, id \in ModelIds, content \in Contents :
       \/ \E v \in Versions : Register(c, id, v, content)
       \/ Number(c, id, content)
  \/ \E c \in Clients : Commit(c) \/ Abandon(c)
  \/ \E c \in Clients, id \in ModelIds, soft \in BOOLEAN :
       \E keys \in Matching(id) : Delete(c, keys, soft)

Spec == Init /\ [][Next]_vars

-----------------------------------------------------------------------------
Stored(a) == models[a.key].content = a.content

(* What register(id) has recorded and returned stays recorded under its     *)
(* version, soft-deleted or not, until that version is registered again     *)
(* explicitly or hard-deleted; or two registrations of the model overlapped.*)
RegistrationsKept == \A a \in acked : a.key \in shared \/ Stored(a)

(* register(id) makes its model the latest: when it returns, lookup(id)     *)
(* answers with what it has recorded, whatever was deleted and registered   *)
(* before; unless it was overtaken between its transactions.                *)
NewestIsLatest ==
  [][\A c \in Clients, id \in ModelIds, v \in Versions :
       Commit(c) /\ call[c].alone /\ call[c].id = id /\ call[c].version = v
         => IsLatest(id, v)']_vars
=============================================================================
