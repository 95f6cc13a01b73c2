--------------------------------- MODULE Db ---------------------------------
(***************************************************************************)
(* The database library of apue.3e/db/db.c: an index file (free list, hash *)
(* table, index records) and a data file, used by several processes that   *)
(* coordinate by fcntl record locks alone.  Every system call on a file is *)
(* a step of its own; lseek moves a private offset and is part of the call *)
(* it precedes, except where the end of a file is sought.                  *)
(*                                                                         *)
(* A place in the index file that holds a chain ptr is named by a number:  *)
(* FREE_OFF, 1 .. nhash for the hash table, nhash + i for record i.  0 is  *)
(* the null pointer too, as in the code.                                   *)
(***************************************************************************)
EXTENDS Integers, Sequences

CONSTANTS Procs, Keys,
          nhash, Hash,      \* _db_hash: the chain of each key, 1 .. nhash
          KeyLen,           \* strlen of each key
          DataOf, DatLen,   \* the data stored under a key; its length + 1
          Files,            \* databases that earlier calls have left
          PTR_MAX,          \* the largest offset a chain ptr can hold
          MaxCalls,         \* bound on the calls of a behaviour
          MaxFails          \* bound on system calls that fail

NULL == "NULL"
Blank == "blank"       \* a key or data overwritten with spaces
FREE_OFF == 0
IdxTail == nhash + 1   \* lock region: the index file after the hash table
DatFile == nhash + 2   \* lock region: the data file
AllData == UNION {DataOf[k] : k \in Keys}

Rec(o) == o - nhash
Places(x) == nhash + 1 .. nhash + Len(x)   \* of the records x

\* Following the chain ptrs f from o and from the places S, one stays in S
Closed(f, S, o) == \A r \in S \cup {o} : f[r] \in S \cup {0}

\* The records, of those at R, on the list whose head is at o
Reach(f, R, o) == {r \in R : \A S \in SUBSET R : Closed(f, S, o) => r \in S}

\* The list whose head is at o ends, as no two of its ptrs are the same; a chain
\* holds live records of its own hash value under distinct keys, the free list
\* blank records: so no record is on two of them.
SoundList(f, x, o) ==
  LET records == Reach(f, Places(x), o)
      key(r) == x[Rec(r)].key
  IN  /\ \A r, s \in records \cup {o} : r # s /\ f[r] = f[s] => f[r] = 0
      /\ \A r \in records :
           IF o = FREE_OFF THEN key(r) = Blank ELSE key(r) \in Keys /\ Hash[key(r)] = o
      /\ o # FREE_OFF => \A r, s \in records : key(r) = key(s) => r = s

\* The index and data files that complete calls leave
Sound(f) ==
  /\ f.idx \in Seq([key : Keys \cup {Blank}, keylen : Nat, datoff : Nat, datlen : Nat])
  /\ f.dat \in Seq([data : AllData \cup {Blank}, len : Nat])
  /\ f.ptr \in [0 .. nhash + Len(f.idx) -> {0} \cup Places(f.idx)]
  /\ \A i \in DOMAIN f.idx :
       /\ f.idx[i].datoff \in DOMAIN f.dat
       /\ f.dat[f.idx[i].datoff].len = f.idx[i].datlen
       /\ f.idx[i].key # Blank => f.dat[f.idx[i].datoff].data \in DataOf[f.idx[i].key]
       /\ \A j \in DOMAIN f.idx : f.idx[i].datoff = f.idx[j].datoff => i = j
  /\ \A o \in 0 .. nhash : SoundList(f.ptr, f.idx, o)

ASSUME DbAssumption ==
  /\ nhash \in Nat \ {0} /\ Hash \in [Keys -> 1 .. nhash] /\ KeyLen \in [Keys -> Nat \ {0}]
  /\ DatLen \in [AllData -> Nat \ {0}] /\ PTR_MAX \in Nat /\ PTR_MAX >= nhash
  /\ MaxCalls \in Nat /\ MaxFails \in Nat
  /\ {NULL, Blank} \cap (Keys \cup AllData) = {}

ASSUME FilesAssumption == \A f \in Files : Sound(f)

VARIABLES ptr,     \* the chain ptrs of the index file
          idx,     \* the index records: key, its length, datoff, datlen
          dat,     \* the data records: data and its length
          locks,   \* the record locks held
          pc, op,  \* where each process is, and in which call
          db,      \* the DB structure of each process, and its locals
          dead,    \* processes that err_dump or err_quit ended
          calls, fails

files == <<ptr, idx, dat>>
vars == <<ptr, idx, dat, locks, pc, op, db, dead, calls, fails>>

NoCall == [name |-> "none", key |-> NULL, data |-> NULL]
Requests ==
  {[name |-> n, key |-> k, data |-> NULL] : n \in {"fetch", "delete"}, k \in Keys}
    \cup UNION {{[name |-> n, key |-> k, data |-> d] :
                   n \in {"insert", "replace", "store"}, d \in DataOf[k]} : k \in Keys}
Nextrec == [NoCall EXCEPT !.name = "nextrec"]

\* The length of an index record is fixed by these three; no two of the records
\* modelled have one length unless they agree on them.
Shape(r) == <<r.keylen, r.datoff, r.datlen>>

\* ptr is the local that walks a list, save the ptrval or saveptr of the
\* functions, pos the record the index file is positioned at for db_nextrec
\* (0: anywhere else).  ptroff serves as saveoffset in _db_findfree.
NewDb(pos) == [idxoff |-> 0, idxlen |-> <<0, 0, 0>>, keylen |-> 0, datoff |-> 0,
               datlen |-> 0, ptrval |-> 0, ptroff |-> 0, ptr |-> 0, save |-> 0,
               pos |-> pos, key |-> NULL, res |-> NULL]

\* db_open has returned in every process, db_rewind included
Init ==
  /\ \E f \in Files : ptr = f.ptr /\ idx = f.idx /\ dat = f.dat
  /\ locks = {}
  /\ pc = [p \in Procs |-> "idle"]
  /\ op = [p \in Procs |-> NoCall]
  /\ db = [p \in Procs |-> NewDb(1)]
  /\ dead = {} /\ calls = 0 /\ fails = 0

-----------------------------------------------------------------------------
(* Locks, files and the end of a process *)

\* fcntl grants process p a lock on region r, to write if w
MayLock(p, r, w) == \A l \in locks : l.p # p /\ l.r = r => ~w /\ ~l.w

Take(p, r, w) == MayLock(p, r, w) /\ locks' = locks \cup {[p |-> p, r |-> r, w |-> w]}

\* mutation: the free list is not locked by a delete or a store
FreeUnlocked(p, r, w) == IF r = FREE_OFF /\ w THEN UNCHANGED locks ELSE Take(p, r, w)

\* mutation: chains are locked for reading only
ChainShared(p, r, w) == Take(p, r, w /\ r \notin 1 .. nhash)

\* readw_lock and writew_lock
Lock(p, r, w) == Take(p, r, w)
un_lock(p, r) == locks' = {l \in locks : l.p # p \/ l.r # r}

Goto(p, to) == pc' = [pc EXCEPT ![p] = to]
Set(p, d) == db' = [db EXCEPT ![p] = d]
chainoff(p) == Hash[op[p].key]

\* err_dump and err_quit: the process ends where it is, its locks are released
Die(p) ==
  /\ dead' = dead \cup {p}
  /\ locks' = {l \in locks : l.p # p}
  /\ UNCHANGED <<files, pc, op, db>>

\* what a step that neither ends the process nor is a call leaves alone
Alive == UNCHANGED <<op, dead, calls, fails>>
Private == UNCHANGED <<files, locks>> /\ Alive

\* any system call of any function fails
CallFails(p) ==
  /\ p \notin dead /\ pc[p] # "idle" /\ fails < MaxFails
  /\ Die(p) /\ fails' = fails + 1 /\ UNCHANGED calls

\* _db_readidx: the chain ptr and the length at the front of the record
ReadHeader(d, o) ==
  [d EXCEPT !.idxoff = o, !.ptrval = ptr[o], !.idxlen = Shape(idx[Rec(o)])]

\* The sanity checks of _db_readidx (the record has the length read, newline and
\* separators included) and of _db_readdat end the process when they fail.
\* SaneReads says they never do, so no action is given to it.
RecordFits(d) == Shape(idx[Rec(d.idxoff)]) = d.idxlen

ReadRecord(d) ==
  LET r == idx[Rec(d.idxoff)]
  IN  [d EXCEPT !.key = r.key, !.keylen = r.keylen, !.datoff = r.datoff, !.datlen = r.datlen]

DataFits(d) == d.datoff <= Len(dat) /\ dat[d.datoff].len = d.datlen

writedat(d, data) ==
  LET r == [data |-> data, len |-> d.datlen]
  IN  dat' = IF d.datoff <= Len(dat) THEN [dat EXCEPT ![d.datoff] = r] ELSE Append(dat, r)

writeidx(d, key, ptrval) ==
  LET r == [key |-> key, keylen |-> d.keylen, datoff |-> d.datoff, datlen |-> d.datlen]
  IN  /\ idx' = IF Rec(d.idxoff) <= Len(idx) THEN [idx EXCEPT ![Rec(d.idxoff)] = r]
                                             ELSE Append(idx, r)
      /\ ptr' = [o \in DOMAIN ptr \cup {d.idxoff} |-> IF o = d.idxoff THEN ptrval ELSE ptr[o]]

writeptr(o, v) == ptr' = [ptr EXCEPT ![o] = v]

-----------------------------------------------------------------------------
(* _db_find_and_lock and db_fetch *)

Call(p) ==
  /\ p \notin dead /\ pc[p] = "idle" /\ calls < MaxCalls
  /\ \/ \E r \in Requests : op' = [op EXCEPT ![p] = r] /\ Goto(p, "lock") /\ Set(p, NewDb(0))
     \/ /\ db[p].pos # 0
        /\ op' = [op EXCEPT ![p] = Nextrec] /\ Goto(p, "n_lock") /\ UNCHANGED db
  /\ calls' = calls + 1
  /\ UNCHANGED <<files, locks, dead, fails>>

\* How each call goes on when its key is not found: where to, with which answer
NotFound(p, d) ==
  CASE op[p].name = "fetch" -> Goto(p, "unlock") /\ Set(p, [d EXCEPT !.res = NULL])
    [] op[p].name \in {"delete", "replace"} -> Goto(p, "unlock") /\ Set(p, [d EXCEPT !.res = "-1"])
    [] OTHER -> Goto(p, "ptr") /\ Set(p, [d EXCEPT !.res = "0"])

Found(p, d) ==
  CASE op[p].name = "fetch" -> Goto(p, "getdat") /\ Set(p, d)
    [] op[p].name = "insert" -> Goto(p, "unlock") /\ Set(p, [d EXCEPT !.res = "1"])
    [] OTHER -> /\ Goto(p, IF op[p].name # "delete" /\ DatLen[op[p].data] = d.datlen
                             THEN "r_dat" ELSE "d_lock")
                /\ Set(p, [d EXCEPT !.res = "0"])

\* the loop goes on with the record at d.ptr, if there is one
Walk(p, d) ==
  IF d.ptr = 0 THEN NotFound(p, d) ELSE Goto(p, "hdr") /\ Set(p, d)

FindAndLock(p) ==
  /\ p \notin dead
  /\ \/ /\ pc[p] = "lock" /\ Lock(p, chainoff(p), op[p].name # "fetch")
        /\ Goto(p, "chain") /\ Set(p, [db[p] EXCEPT !.ptroff = chainoff(p)])
        /\ UNCHANGED files /\ Alive
     \/ /\ pc[p] = "chain" /\ Walk(p, [db[p] EXCEPT !.ptr = ptr[db[p].ptroff]])
        /\ Private
     \/ /\ pc[p] = "hdr" /\ Goto(p, "body") /\ Set(p, ReadHeader(db[p], db[p].ptr))
        /\ Private
     \/ /\ pc[p] = "body"
        /\ LET d == ReadRecord(db[p])
           IN  IF d.key = op[p].key THEN Found(p, d)
               ELSE Walk(p, [d EXCEPT !.ptroff = d.ptr, !.ptr = d.ptrval])
        /\ Private

\* db_fetch reads the data
Fetch(p) ==
  /\ p \notin dead /\ pc[p] = "getdat"
  /\ Goto(p, "unlock") /\ Set(p, [db[p] EXCEPT !.res = dat[db[p].datoff].data])
  /\ Private

\* mutation: a failed insert returns without unlocking the chain
LeavesLocked(p) ==
  /\ p \notin dead /\ pc[p] = "unlock"
  /\ IF db[p].res = "1" THEN UNCHANGED locks ELSE un_lock(p, chainoff(p))
  /\ Goto(p, "idle") /\ Set(p, NewDb(0)) /\ op' = [op EXCEPT ![p] = NoCall]
  /\ UNCHANGED <<files, dead, calls, fails>>

\* doreturn: the chain is unlocked and the call returns
Return(p) ==
  /\ p \notin dead /\ pc[p] = "unlock" /\ un_lock(p, chainoff(p))
  /\ Goto(p, "idle") /\ Set(p, NewDb(0)) /\ op' = [op EXCEPT ![p] = NoCall]
  /\ UNCHANGED <<files, dead, calls, fails>>

-----------------------------------------------------------------------------
(* _db_dodelete, in db_delete and in db_store *)

DoDelete(p) ==
  /\ p \notin dead
  /\ \/ /\ pc[p] = "d_lock" /\ Lock(p, FREE_OFF, TRUE) /\ Goto(p, "d_dat")
        /\ UNCHANGED <<files, db>>
     \/ /\ pc[p] = "d_dat" /\ writedat(db[p], Blank) /\ Goto(p, "d_free")
        /\ UNCHANGED <<ptr, idx, locks, db>>
     \/ /\ pc[p] = "d_free" /\ Goto(p, "d_idx")
        /\ Set(p, [db[p] EXCEPT !.ptr = ptr[FREE_OFF], !.save = db[p].ptrval])
        /\ UNCHANGED <<files, locks>>
     \/ /\ pc[p] = "d_idx" /\ writeidx(db[p], Blank, db[p].ptr) /\ Goto(p, "d_head")
        /\ Set(p, [db[p] EXCEPT !.ptrval = db[p].ptr])
        /\ UNCHANGED <<dat, locks>>
     \/ /\ pc[p] = "d_head" /\ writeptr(FREE_OFF, db[p].idxoff) /\ Goto(p, "d_chain")
        /\ UNCHANGED <<idx, dat, locks, db>>
     \/ /\ pc[p] = "d_chain" /\ writeptr(db[p].ptroff, db[p].save) /\ Goto(p, "d_unlock")
        /\ UNCHANGED <<idx, dat, locks, db>>
     \/ /\ pc[p] = "d_unlock" /\ un_lock(p, FREE_OFF)
        /\ Goto(p, IF op[p].name = "delete" THEN "unlock" ELSE "reptr")
        /\ UNCHANGED <<files, db>>
  /\ Alive

-----------------------------------------------------------------------------
(* db_store *)

\* the loop of _db_findfree goes on with the record at d.ptr, if there is one
WalkFree(p, d) == Goto(p, IF d.ptr = 0 THEN "f_unlock" ELSE "f_hdr") /\ Set(p, d)

\* the chain ptr is read, then _db_findfree looks for a record of the sizes
FindFree(p) ==
  /\ p \notin dead
  /\ \/ /\ pc[p] = "ptr" /\ Goto(p, "f_lock")
        /\ Set(p, [db[p] EXCEPT !.save = ptr[chainoff(p)]])
        /\ UNCHANGED <<files, locks>>
     \/ /\ pc[p] = "f_lock" /\ Lock(p, FREE_OFF, TRUE) /\ Goto(p, "f_ptr")
        /\ UNCHANGED <<files, db>>
     \/ /\ pc[p] = "f_ptr" /\ WalkFree(p, [db[p] EXCEPT !.ptroff = FREE_OFF, !.ptr = ptr[FREE_OFF]])
        /\ UNCHANGED <<files, locks>>
     \/ /\ pc[p] = "f_hdr" /\ Goto(p, "f_body") /\ Set(p, ReadHeader(db[p], db[p].ptr))
        /\ UNCHANGED <<files, locks>>
     \/ /\ pc[p] = "f_body"
        /\ LET d == ReadRecord(db[p])
           IN  IF d.keylen = KeyLen[op[p].key] /\ d.datlen = DatLen[op[p].data]
                 THEN Goto(p, "f_take") /\ Set(p, d)
                 ELSE WalkFree(p, [d EXCEPT !.ptroff = d.ptr, !.ptr = d.ptrval])
        /\ UNCHANGED <<files, locks>>
     \/ /\ pc[p] = "f_take" /\ writeptr(db[p].ptroff, db[p].ptrval) /\ Goto(p, "f_unlock")
        /\ UNCHANGED <<idx, dat, locks, db>>
     \/ /\ pc[p] = "f_unlock" /\ un_lock(p, FREE_OFF)
        /\ Goto(p, IF db[p].ptr = 0 THEN "a_dlock" ELSE "u_dat")
        /\ UNCHANGED <<files, db>>
  /\ Alive

\* A free record is reused, or data of the same size replaced
Reuse(p) ==
  /\ p \notin dead
  /\ \/ /\ pc[p] \in {"u_dat", "r_dat"} /\ writedat(db[p], op[p].data)
        /\ Goto(p, IF pc[p] = "u_dat" THEN "u_idx" ELSE "unlock")
        /\ UNCHANGED <<ptr, idx, db>>
     \/ /\ pc[p] = "u_idx" /\ writeidx(db[p], op[p].key, db[p].save) /\ Goto(p, "u_link")
        /\ UNCHANGED <<dat, db>>
     \/ /\ pc[p] = "u_link" /\ writeptr(chainoff(p), db[p].idxoff) /\ Goto(p, "unlock")
        /\ UNCHANGED <<idx, dat, db>>
  /\ UNCHANGED locks /\ Alive

\* Data and index records are appended, each behind a lock of its own
AppendRec(p) ==
  /\ p \notin dead
  /\ \/ /\ pc[p] = "reptr" /\ Goto(p, "a_dlock")
        /\ Set(p, [db[p] EXCEPT !.save = ptr[chainoff(p)]])
        /\ UNCHANGED <<files, locks>>
     \/ /\ pc[p] = "a_dlock" /\ Lock(p, DatFile, TRUE) /\ Goto(p, "a_dseek")
        /\ UNCHANGED <<files, db>>
     \/ /\ pc[p] = "a_dseek" /\ Goto(p, "a_dat")
        /\ Set(p, [db[p] EXCEPT !.datoff = Len(dat) + 1, !.datlen = DatLen[op[p].data],
                                !.keylen = KeyLen[op[p].key]])
        /\ UNCHANGED <<files, locks>>
     \/ /\ pc[p] = "a_dat" /\ writedat(db[p], op[p].data) /\ Goto(p, "a_dunlock")
        /\ UNCHANGED <<ptr, idx, locks, db>>
     \/ /\ pc[p] = "a_dunlock" /\ un_lock(p, DatFile) /\ Goto(p, "a_ilock")
        /\ UNCHANGED <<files, db>>
     \/ /\ pc[p] = "a_ilock" /\ Lock(p, IdxTail, TRUE) /\ Goto(p, "a_iseek")
        /\ UNCHANGED <<files, db>>
     \/ /\ pc[p] = "a_iseek" /\ Goto(p, "a_idx")
        /\ Set(p, [db[p] EXCEPT !.idxoff = nhash + Len(idx) + 1])
        /\ UNCHANGED <<files, locks>>
     \/ /\ pc[p] = "a_idx" /\ writeidx(db[p], op[p].key, db[p].save) /\ Goto(p, "a_iunlock")
        /\ UNCHANGED <<dat, locks, db>>
     \/ /\ pc[p] = "a_iunlock" /\ un_lock(p, IdxTail) /\ Goto(p, "a_link")
        /\ UNCHANGED <<files, db>>
     \/ /\ pc[p] = "a_link" /\ db[p].idxoff <= PTR_MAX
        /\ writeptr(chainoff(p), db[p].idxoff) /\ Goto(p, "unlock")
        /\ UNCHANGED <<idx, dat, locks, db>>
  /\ Alive

\* _db_writeptr quits: the new record lies beyond what a chain ptr can hold
PtrTooLarge(p) ==
  /\ p \notin dead /\ pc[p] = "a_link" /\ db[p].idxoff > PTR_MAX
  /\ Die(p) /\ UNCHANGED <<calls, fails>>

-----------------------------------------------------------------------------
(* db_rewind and db_nextrec *)

Rewind(p) ==
  /\ p \notin dead /\ pc[p] = "idle" /\ db[p].pos # 1 /\ calls < MaxCalls
  /\ Set(p, NewDb(1)) /\ calls' = calls + 1
  /\ UNCHANGED <<files, locks, pc, op, dead, fails>>

NextRec(p) ==
  /\ p \notin dead
  /\ \/ /\ pc[p] = "n_lock" /\ Lock(p, FREE_OFF, FALSE) /\ Goto(p, "n_hdr")
        /\ UNCHANGED <<db, op>>
     \/ /\ pc[p] = "n_hdr" /\ db[p].pos > Len(idx)
        /\ Goto(p, "n_unlock") /\ UNCHANGED <<locks, db, op>>
     \/ /\ pc[p] = "n_hdr" /\ db[p].pos <= Len(idx)
        /\ Goto(p, "n_body") /\ Set(p, ReadHeader(db[p], nhash + db[p].pos))
        /\ UNCHANGED <<locks, op>>
     \/ /\ pc[p] = "n_body"
        /\ LET d == ReadRecord(db[p])
           IN  Set(p, [d EXCEPT !.pos = @ + 1]) /\ Goto(p, IF d.key = Blank THEN "n_hdr" ELSE "n_dat")
        /\ UNCHANGED <<locks, op>>
     \/ /\ pc[p] = "n_dat" /\ Goto(p, "n_unlock")
        /\ Set(p, [db[p] EXCEPT !.res = dat[db[p].datoff].data])
        /\ UNCHANGED <<locks, op>>
     \/ /\ pc[p] = "n_unlock" /\ un_lock(p, FREE_OFF) /\ Goto(p, "idle")
        /\ Set(p, NewDb(db[p].pos)) /\ op' = [op EXCEPT ![p] = NoCall]
  /\ UNCHANGED <<files, dead, calls, fails>>

Step(p) ==
  \/ Call(p) \/ FindAndLock(p) \/ Fetch(p) \/ Return(p)
  \/ DoDelete(p) \/ FindFree(p) \/ Reuse(p) \/ AppendRec(p) \/ PtrTooLarge(p)
  \/ Rewind(p) \/ NextRec(p)

Next == \E p \in Procs : Step(p) \/ CallFails(p)

\* A process that has a call to make, or is in one, goes on; locks are granted
Spec == Init /\ [][Next]_vars /\ \A p \in Procs : WF_vars(Step(p))
-----------------------------------------------------------------------------
(* Properties *)

Pcs == {"idle", "lock", "chain", "hdr", "body", "getdat", "unlock", "r_dat",
        "d_lock", "d_dat", "d_free", "d_idx", "d_head", "d_chain", "d_unlock",
        "ptr", "f_lock", "f_ptr", "f_hdr", "f_body", "f_take", "f_unlock",
        "u_dat", "u_idx", "u_link", "reptr", "a_dlock", "a_dseek", "a_dat", "a_dunlock",
        "a_ilock", "a_iseek", "a_idx", "a_iunlock", "a_link",
        "n_lock", "n_hdr", "n_body", "n_dat", "n_unlock"}

\* The two files and the DB structures are well formed: every chain ptr names a
\* record of the index file or is 0, every index record a data record.
TypeOK ==
  /\ DOMAIN ptr = 0 .. nhash + Len(idx)
  /\ \A o \in DOMAIN ptr : ptr[o] \in {0} \cup (nhash + 1 .. nhash + Len(idx))
  /\ \A i \in DOMAIN idx : idx[i].key \in Keys \cup {Blank} /\ idx[i].datoff \in DOMAIN dat
  /\ \A i \in DOMAIN dat : dat[i].data \in AllData \cup {Blank}
  /\ pc \in [Procs -> Pcs] /\ op \in [Procs -> Requests \cup {NoCall, Nextrec}]
  /\ \A l \in locks : l.p \in Procs \ dead /\ l.r \in 0 .. DatFile /\ l.w \in BOOLEAN
  /\ calls \in 0 .. MaxCalls /\ fails \in 0 .. MaxFails

\* _db_dodelete has put its record's free-list ptr in place and has not yet taken
\* it off chain c: from here to d_chain the chain leads into the free list.
HalfDeleted(c) == \E p \in Procs : pc[p] \in {"d_head", "d_chain"} /\ chainoff(p) = c
Lists == {FREE_OFF} \cup {c \in 1 .. nhash : ~HalfDeleted(c)}

\* Whatever processes do at once, and wherever one of them ends, each chain and
\* the free list is sound.  The one exception is a chain a delete is (or was, when
\* it ended) half way on.
ListsSound == \A o \in Lists : SoundList(ptr, idx, o)

\* The bytes a process reads as an index or data record are those of one whole
\* record: the sanity checks of _db_readidx and _db_readdat never end a process,
\* though the length is read before the record and the record before its data.
SaneReads ==
  \A p \in Procs \ dead :
    /\ pc[p] \in {"body", "f_body", "n_body"} => RecordFits(db[p])
    /\ pc[p] \in {"getdat", "n_dat"} => DataFits(db[p])

\* db_nextrec never returns "a record in the middle of its being deleted": the
\* data returned was stored under the key returned, unless a process ended after
\* it had blanked data and before it had blanked the key.
ScanSeesWhole ==
  \A p \in Procs :
    pc[p] = "n_unlock" /\ db[p].res # NULL /\ (\A q \in dead : pc[q] \notin {"d_free", "d_idx"})
      => db[p].res \in DataOf[db[p].key]

\* The files are sound while processes work on them: the lists hold what they
\* should (ListsSound), nobody reads half a record (SaneReads) and a scan returns
\* no record that is half deleted (ScanSeesWhole).
FilesSound == ListsSound /\ SaneReads /\ ScanSeesWhole

\* A call has been decided: the answer is fixed and, in a store or a delete, no
\* other process can look at the chain before the change is complete.
Decided(p) == pc[p] \notin {"idle", "lock", "chain", "hdr", "body", "getdat"}
Keyed(p) == op[p].name \notin {"none", "nextrec"}
Writing(p, k) ==
  op[p].key = k /\ Decided(p) /\ pc[p] # "unlock" /\ db[p].res = "0"

\* The data of key k, as it is or as the change under way will leave it.  The
\* chains play no part here: that a search along them finds it is what is checked.
Content(k) ==
  LET rs == {i \in DOMAIN idx : idx[i].key = k}
  IN  IF \E p \in Procs : Writing(p, k) THEN op[CHOOSE p \in Procs : Writing(p, k)].data
      ELSE IF rs = {} THEN NULL ELSE dat[idx[CHOOSE i \in rs : TRUE].datoff].data

KV == INSTANCE KvStore WITH
        map <- [k \in Keys |-> Content(k)],
        phase <- [p \in Procs |-> IF ~Keyed(p) THEN "idle" ELSE IF Decided(p) THEN "done" ELSE "called"],
        req <- [p \in Procs |-> IF Keyed(p) THEN op[p] ELSE NoCall],
        res <- [p \in Procs |-> IF Keyed(p) /\ Decided(p) THEN db[p].res ELSE NULL]

\* Until a process ends inside a call, db_fetch, db_delete and db_store of all
\* processes act as if each took effect at one moment on a map (KvStore).
ImplementsStore == KV!Init /\ [][dead' = {} => KV!Next]_KV!vars

\* Every call returns, or its process ends: the locks are taken in an order that
\* lets no two processes wait for each other, and the lists end.  A chain left
\* half deleted by a process that ended may lead in a circle.
CallsReturn ==
  <>[](\A p \in Procs : p \in dead \/ pc[p] = "idle" \/ \E q \in dead : pc[q] \in {"d_head", "d_chain"})
=============================================================================
