------------------------------- MODULE DbOpen -------------------------------
(***************************************************************************)
(* Opening the database of apue.3e/db/db.c from several processes: db_open *)
(* creates or truncates both files, and only then locks the index and      *)
(* writes the hash table if the index is empty.  A process that has opened *)
(* the database stores a record (the locks and writes of db_store on one   *)
(* chain; Db has the call in full) and closes it.                          *)
(***************************************************************************)
EXTENDS Integers, FiniteSets, FiniteSetsExt

CONSTANTS Procs, NULL,
          Setups       \* the flags each process opens with and whether the database exists

VARIABLES setup,
          p,           \* the processes: place, size seen, offset to write at
          idx, dat,    \* the files; the index: length, hash table, records on the chain, each
                       \* named by the process that stored it; the data file: their data
          lock,        \* the process that has the index locked
          g            \* records stored since the index was last emptied; whether a
                       \* process was interrupted: its store by a truncation, or by death

vars == <<setup, p, idx, dat, lock, g>>

Flags(q) == setup.flags[q]
CREAT_TRUNC(q) == Flags(q) = {"O_CREAT", "O_TRUNC"}
To(q, l) == p' = [p EXCEPT ![q].pc = l]
Opening(q) == p[q].pc \in {"data", "lock", "stat", "init"}
Storing(q) == p[q].pc \in {"dat", "seek", "write", "ptr"}
\* between its two opens, the second of which empties the data file
WillEmpty(q) == p[q].pc = "data" /\ "O_TRUNC" \in Flags(q)

Absent == [exists |-> FALSE, len |-> 0, table |-> FALSE, recs |-> {}]
Empty == [Absent EXCEPT !.exists = TRUE]

\* open(2): creates, empties, or fails
MayOpen(q, file) == file.exists \/ "O_CREAT" \in Flags(q)
Empties(q, file) == "O_TRUNC" \in Flags(q) \/ ~file.exists
Opened(q, file) == IF Empties(q, file) THEN Empty ELSE file

\* _db_free: close releases the locks
db_free(q, l) == To(q, l) /\ lock' = IF lock = q THEN NULL ELSE lock

\* mutation: the lock is not waited for
TakesAnyway(q) == lock' = q

\* writew_lock and un_lock of the whole index
writew_lock(q) == lock = NULL /\ lock' = q

\* the index file, then the data file, before any lock; db_open returns NULL if one fails
db_open(q) ==
  \/ /\ p[q].pc = "open"
     /\ IF MayOpen(q, idx)
        THEN /\ idx' = Opened(q, idx)
             /\ g' = IF ~Empties(q, idx) THEN g
                     ELSE [stored |-> {}, cut |-> ~CREAT_TRUNC(q) \/ \E r \in Procs : Storing(r)]
        ELSE UNCHANGED <<idx, g>>
     /\ p' = [p EXCEPT ![q].pc = "data", ![q].idxfd = MayOpen(q, idx)]
     /\ UNCHANGED <<dat, lock>>
  \/ /\ p[q].pc = "data"
     /\ dat' = IF MayOpen(q, dat) THEN Opened(q, dat) ELSE dat
     /\ IF p[q].idxfd /\ MayOpen(q, dat)
        THEN To(q, IF CREAT_TRUNC(q) THEN "lock" ELSE "opened") /\ UNCHANGED lock
        ELSE db_free(q, "done")
     /\ UNCHANGED <<idx, g>>
  \/ /\ p[q].pc = "lock" /\ writew_lock(q) /\ To(q, "stat")
     /\ UNCHANGED <<idx, dat, g>>
  \/ /\ p[q].pc = "stat"
     /\ p' = [p EXCEPT ![q].pc = "init", ![q].size = idx.len]
     /\ UNCHANGED <<idx, dat, lock, g>>
  \/ /\ p[q].pc = "init"
     /\ idx' = IF p[q].size = 0
               THEN [idx EXCEPT !.len = Max({idx.len, 1}), !.table = TRUE, !.recs = {}] ELSE idx
     /\ lock' = NULL /\ To(q, "opened")
     /\ UNCHANGED <<dat, g>>

\* db_store of a key that is not there: _db_readptr dumps core without a hash table; the
\* data (_db_writedat), the record at the end seen before, then the chain's pointer
db_store(q) ==
  \/ /\ p[q].pc = "opened" /\ lock = NULL
     /\ IF idx.table THEN lock' = q /\ To(q, "dat") ELSE db_free(q, "dead")
     /\ UNCHANGED <<idx, dat, g>>
  \/ /\ p[q].pc = "dat"
     /\ dat' = [dat EXCEPT !.recs = @ \union {q}]
     /\ g' = [g EXCEPT !.cut = @ \/ \E r \in Procs : WillEmpty(r)]
     /\ To(q, "seek") /\ UNCHANGED <<idx, lock>>
  \/ /\ p[q].pc = "seek"
     /\ p' = [p EXCEPT ![q].pc = "write", ![q].size = idx.len + 1]
     /\ UNCHANGED <<idx, dat, lock, g>>
  \/ /\ p[q].pc = "write"
     /\ idx' = [idx EXCEPT !.len = Max({@, p[q].size})]
     /\ To(q, "ptr") /\ UNCHANGED <<dat, lock, g>>
  \/ /\ p[q].pc = "ptr"
     /\ idx' = [idx EXCEPT !.len = Max({@, 1}), !.recs = @ \union {q}]
     /\ g' = [g EXCEPT !.stored = @ \union {q}]
     /\ lock' = NULL /\ To(q, "stored") /\ UNCHANGED dat

db_close(q) == p[q].pc = "stored" /\ db_free(q, "done") /\ UNCHANGED <<idx, dat, g>>

\* a process killed between emptying the index and writing the table, or in a store
Kill(q) ==
  /\ q \in setup.dies /\ (Opening(q) \/ Storing(q))
  /\ db_free(q, "dead")
  /\ g' = [g EXCEPT !.cut = TRUE]
  /\ UNCHANGED <<idx, dat>>

Init ==
  /\ setup \in Setups
  /\ p = [q \in Procs |-> [pc |-> "open", size |-> 0, idxfd |-> FALSE]]
  /\ idx = IF setup.exists THEN [Empty EXCEPT !.len = 1, !.table = TRUE] ELSE Absent
  /\ dat = IF setup.exists THEN Empty ELSE Absent
  /\ lock = NULL
  /\ g = [stored |-> {}, cut |-> ~setup.exists]

Next ==
  /\ \E q \in Procs : db_open(q) \/ db_store(q) \/ db_close(q) \/ Kill(q)
  /\ UNCHANGED setup

Spec == Init /\ [][Next]_vars

-----------------------------------------------------------------------------
\* "initialize it, atomically": whatever the order in which processes create, open and use
\* the database, once none is inside db_open the index has its hash table and every record
\* stored since it was emptied is on its chain and has its data in the data file.  The
\* exceptions are what the lock, taken after both truncations, cannot prevent: a truncation of
\* the index during another process's store; data written while a creator is between its two
\* opens, the second of which removes them; and a death between truncation and table.
TableWhole ==
  (~g.cut /\ ~\E q \in Procs : Opening(q)) => idx.table /\ idx.recs = g.stored /\ idx.recs \subseteq dat.recs

=============================================================================
