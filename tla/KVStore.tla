------------------------------ MODULE KVStore -------------------------------
(***************************************************************************)
(* The key-value service of the sample server (KVServiceBase), which the   *)
(* server's workers use at the same time: five maps, each with a lock.     *)
(***************************************************************************)
EXTENDS Integers

CONSTANTS
  Workers,   \* the threads that serve requests
  Keys,      \* the ids that are asked for
  Values,    \* the names that are stored
  None

(* NUM_NAME_DICTIONARY_BUCKETS *)
Buckets == 0..4

(* What a worker is asked: a value to set, or None to get.                 *)
Requests == [key : Keys, val : Values \cup {None}]

(* "not found" is a value like any other; code 1 is a value replaced, code *)
(* 2 one inserted: the codes are numbers, which no name is.                *)
Replies == Values \cup {"not found", "code 1", "code 2"}

ASSUME StoreAssumption ==
  /\ Keys \subseteq Nat
  /\ "code 1" \notin Values /\ "code 2" \notin Values
  /\ None \notin Workers /\ None \notin Replies /\ None \notin Requests

VARIABLES
  dicts,       \* dicts[b][k]: the value under k in map b, or None
  dict_locks,  \* who holds each lock
  step,        \* where each worker is
  req,         \* its request
  rsp          \* its answer

storeVars == <<dicts, dict_locks, step, req, rsp>>

getAllottedBucket(k) == (k \div 2000) % 5

StoreTypeOK ==
  /\ dicts \in [Buckets -> [Keys -> Values \cup {None}]]
  /\ dict_locks \in [Buckets -> Workers \cup {None}]
  /\ step \in [Workers -> {"idle", "lock", "find", "store", "unlock", "end"}]
  /\ req \in [Workers -> Requests \cup {None}]
  /\ rsp \in [Workers -> Replies \cup {None}]

StoreInit ==
  /\ dicts = [b \in Buckets |-> [k \in Keys |-> None]]
  /\ dict_locks = [b \in Buckets |-> None]
  /\ step = [w \in Workers |-> "idle"]
  /\ req = [w \in Workers |-> None]
  /\ rsp = [w \in Workers |-> None]

Index(w) == getAllottedBucket(req[w].key)

(* Handle: GetValueInternal or SetValueInternal is called,                 *)
Begin(w, r) ==
  /\ step[w] = "idle"
  /\ step' = [step EXCEPT ![w] = "lock"]
  /\ req' = [req EXCEPT ![w] = r]
  /\ UNCHANGED <<dicts, dict_locks, rsp>>

(* Variant: SetValueInternal does not wait for the lock.                   *)
LockSkipped(w) ==
  /\ step[w] = "lock"
  /\ dict_locks' = [dict_locks EXCEPT ![Index(w)] = w]
  /\ step' = [step EXCEPT ![w] = "find"]
  /\ UNCHANGED <<dicts, req, rsp>>

(* locks the key's map,                                                    *)
Lock(w) ==
  /\ step[w] = "lock"
  /\ dict_locks[Index(w)] = None
  /\ dict_locks' = [dict_locks EXCEPT ![Index(w)] = w]
  /\ step' = [step EXCEPT ![w] = "find"]
  /\ UNCHANGED <<dicts, req, rsp>>

(* Variants: a key asked for is inserted (dicts[index][key]); it is looked *)
(* for in another map than SetValueInternal puts it in.                    *)
FindInserting(w) ==
  /\ step[w] = "find"
  /\ req[w].val = None
  /\ dicts' = [dicts EXCEPT ![Index(w)][req[w].key] = ""]
  /\ rsp' = [rsp EXCEPT ![w] = ""]
  /\ step' = [step EXCEPT ![w] = "unlock"]
  /\ UNCHANGED <<dict_locks, req>>

FindElsewhere(w) ==
  /\ step[w] = "find"
  /\ LET it == dicts[req[w].key % 5][req[w].key] IN
       IF req[w].val = None
       THEN /\ rsp' = [rsp EXCEPT ![w] = IF it # None THEN it ELSE "not found"]
            /\ step' = [step EXCEPT ![w] = "unlock"]
       ELSE /\ rsp' = [rsp EXCEPT ![w] = "code 1"]
            /\ step' = [step EXCEPT ![w] = "store"]
  /\ UNCHANGED <<dicts, dict_locks, req>>

(* finds the key and knows its answer;                                     *)
Find(w) ==
  /\ step[w] = "find"
  /\ LET it == dicts[Index(w)][req[w].key] IN
       IF req[w].val = None
       THEN /\ rsp' = [rsp EXCEPT ![w] = IF it # None THEN it ELSE "not found"]
            /\ step' = [step EXCEPT ![w] = "unlock"]
       ELSE /\ rsp' = [rsp EXCEPT ![w] = IF it # None THEN "code 1" ELSE "code 2"]
            /\ step' = [step EXCEPT ![w] = "store"]
  /\ UNCHANGED <<dicts, dict_locks, req>>

(* a value to set is stored;                                               *)
Store(w) ==
  /\ step[w] = "store"
  /\ dicts' = [dicts EXCEPT ![Index(w)][req[w].key] = req[w].val]
  /\ step' = [step EXCEPT ![w] = "unlock"]
  /\ UNCHANGED <<dict_locks, req, rsp>>

(* the lock is released                                                    *)
Unlock(w) ==
  /\ step[w] = "unlock"
  /\ dict_locks' = [dict_locks EXCEPT ![Index(w)] = None]
  /\ step' = [step EXCEPT ![w] = "end"]
  /\ UNCHANGED <<dicts, req, rsp>>

(* and the answer is returned.                                             *)
End(w) ==
  /\ step[w] = "end"
  /\ step' = [step EXCEPT ![w] = "idle"]
  /\ req' = [req EXCEPT ![w] = None]
  /\ rsp' = [rsp EXCEPT ![w] = None]
  /\ UNCHANGED <<dicts, dict_locks>>

Inside(w) == step[w] \in {"find", "store", "unlock"}

(* No two workers are in the same std::map at once: it is not made for     *)
(* that.  The lock is chosen by the same function as the map, so one lock  *)
(* per map is enough.                                                      *)
MapsExclusive ==
  \A v, w \in Workers : v # w /\ Inside(v) /\ Inside(w) => Index(v) # Index(w)

=============================================================================
