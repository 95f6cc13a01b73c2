------------------------------ MODULE KvStore ------------------------------
(***************************************************************************)
(* What the database library of apue.3e/db promises its callers: db_fetch, *)
(* db_delete and db_store of any number of processes each take effect at   *)
(* one moment between call and return, on a map from keys to data.         *)
(***************************************************************************)
CONSTANTS Procs, Keys, NULL,
          DataOf     \* the data a caller stores under a key

VARIABLES map, phase, req, res
vars == <<map, phase, req, res>>

NoReq == [name |-> "none", key |-> NULL, data |-> NULL]

\* DB_INSERT, DB_REPLACE and DB_STORE are the three flags of db_store
Requests ==
  {[name |-> n, key |-> k, data |-> NULL] : n \in {"fetch", "delete"}, k \in Keys}
    \cup UNION {{[name |-> n, key |-> k, data |-> d] :
                   n \in {"insert", "replace", "store"}, d \in DataOf[k]} : k \in Keys}

Init ==
  /\ map \in [Keys -> {NULL} \cup UNION {DataOf[k] : k \in Keys}]
  /\ phase = [p \in Procs |-> "idle"]
  /\ req = [p \in Procs |-> NoReq]
  /\ res = [p \in Procs |-> NULL]

Call(p) ==
  /\ phase[p] = "idle"
  /\ phase' = [phase EXCEPT ![p] = "called"]
  /\ \E r \in Requests : req' = [req EXCEPT ![p] = r]
  /\ UNCHANGED <<map, res>>

\* Whether a db_store changes the map.
Stores(r, old) ==
  \/ r.name = "store"
  \/ r.name = "replace" /\ old # NULL
  \/ r.name = "insert" /\ old = NULL

Answer(r, old) ==
  CASE r.name = "fetch" -> old
    [] r.name = "delete" -> IF old = NULL THEN "-1" ELSE "0"
    [] OTHER -> IF Stores(r, old) THEN "0" ELSE IF old = NULL THEN "-1" ELSE "1"

Effect(p) ==
  LET r == req[p]
      old == map[r.key]
  IN  /\ phase[p] = "called"
      /\ phase' = [phase EXCEPT ![p] = "done"]
      /\ res' = [res EXCEPT ![p] = Answer(r, old)]
      /\ map' = [map EXCEPT ![r.key] =
                   CASE r.name = "fetch" -> old
                     [] r.name = "delete" -> NULL
                     [] OTHER -> IF Stores(r, old) THEN r.data ELSE old]
      /\ UNCHANGED req

Return(p) ==
  /\ phase[p] = "done"
  /\ phase' = [phase EXCEPT ![p] = "idle"]
  /\ req' = [req EXCEPT ![p] = NoReq]
  /\ res' = [res EXCEPT ![p] = NULL]
  /\ UNCHANGED map

Next == \E p \in Procs : Call(p) \/ Effect(p) \/ Return(p)
Spec == Init /\ [][Next]_vars
=============================================================================
