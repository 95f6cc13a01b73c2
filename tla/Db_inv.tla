------------------------------ MODULE Db_inv ------------------------------
(* The inductive invariant of Db, and that it is kept by every step that does   *)
(* not write to the files; what a write of data, of a ptr or of an index record   *)
(* leaves as it is.                                                               *)
(* Db_proofs has the steps that write, and the theorems.                         *)
(* A leaf is Zenon's unless it needs arithmetic or the fields of a record.  SMT   *)
(* and Z3 are cited together: the second tries again where the types that the     *)
(* first looks for are not found in time.                                         *)
EXTENDS Db, TLAPS

\* Nobody has ended with a record on the free list, or about to be, that its chain
\* still leads to.
NoneHalfDeleted == \A q \in dead : pc[q] \notin {"d_head", "d_chain"}

-----------------------------------------------------------------------------
(* The inductive invariant *)

Alives == Procs \ dead
Recs == Places(idx)
Heads == 0 .. nhash
KeyAt(r) == idx[Rec(r)].key

\* The chain ptrs, as they will be when the delete under way has taken its record
\* off the chain.
Unlinking == {"d_head", "d_chain"}
Saves(c, d, o) == {d[p].save : p \in {q \in Procs : c[q] \in Unlinking /\ d[q].ptroff = o}}
OneOf(S) == CHOOSE s : s \in S
ChainOf(f, c, d) ==
  [o \in DOMAIN f |-> IF Saves(c, d, o) = {} THEN f[o] ELSE OneOf(Saves(c, d, o))]
chain == ChainOf(ptr, pc, db)
List(o) == Reach(chain, Recs, o)
At(o) == List(o) \cup {o}

DbType == [idxoff : Nat, idxlen : Nat \X Nat \X Nat, keylen : Nat, datoff : Nat, datlen : Nat,
           ptrval : {0} \cup Recs, ptroff : 0 .. nhash + Len(idx), ptr : {0} \cup Recs,
           save : {0} \cup Recs, pos : Nat, key : Keys \cup {Blank, NULL},
           res : AllData \cup {Blank, NULL, "0", "1", "-1"}]

Types ==
  /\ idx \in Seq([key : Keys \cup {Blank}, keylen : Nat, datoff : Nat, datlen : Nat])
  /\ dat \in Seq([data : AllData \cup {Blank}, len : Nat])
  /\ ptr \in [0 .. nhash + Len(idx) -> {0} \cup Recs]
  /\ pc \in [Procs -> Pcs] /\ op \in [Procs -> Requests \cup {NoCall, Nextrec}]
  /\ db \in [Procs -> DbType]
  /\ locks \subseteq [p : Alives, r : 0 .. DatFile, w : BOOLEAN]
  /\ dead \subseteq Procs /\ calls \in 0 .. MaxCalls /\ fails \in 0 .. MaxFails

\* Where a process holds which lock
ScanPcs == {"n_hdr", "n_body", "n_dat", "n_unlock"}
ChainPcs == Pcs \ ({"idle", "lock", "n_lock"} \cup ScanPcs)
FreePcs == {"d_dat", "d_free", "d_idx", "d_head", "d_chain", "d_unlock",
            "f_ptr", "f_hdr", "f_body", "f_take", "f_unlock"}
DatPcs == {"a_dseek", "a_dat", "a_dunlock"}
IdxPcs == {"a_iseek", "a_idx", "a_iunlock"}

Held(p, r, w) == [p |-> p, r |-> r, w |-> w] \in locks
Locked(p) ==
  /\ pc[p] \in ChainPcs => Held(p, chainoff(p), op[p].name # "fetch")
  /\ pc[p] \in FreePcs => Held(p, FREE_OFF, TRUE)
  /\ pc[p] \in ScanPcs => Held(p, FREE_OFF, FALSE)
  /\ pc[p] \in DatPcs => Held(p, DatFile, TRUE)
  /\ pc[p] \in IdxPcs => Held(p, IdxTail, TRUE)
Exclusive == \A l, m \in locks : l.p # m.p /\ l.r = m.r => ~l.w /\ ~m.w

\* The call a process is in
DeletePcs == {"d_lock", "d_dat", "d_free", "d_idx", "d_head", "d_chain", "d_unlock"}
StorePcs == {"r_dat", "ptr", "f_lock", "f_ptr", "f_hdr", "f_body", "f_take", "f_unlock",
             "u_dat", "u_idx", "u_link", "reptr"}
            \cup {"a_dlock", "a_dseek", "a_dat", "a_dunlock", "a_ilock", "a_iseek", "a_idx",
                  "a_iunlock", "a_link"}
Calling(p) ==
  /\ pc[p] \in ChainPcs \cup {"lock"} => op[p] \in Requests
  /\ pc[p] \in DeletePcs => op[p].name # "fetch"
  /\ pc[p] \in StorePcs => op[p].name \in {"insert", "replace", "store"}

\* What DB says of the record it names is so
Read(p) ==
  LET r == idx[Rec(db[p].idxoff)]
  IN  /\ db[p].idxoff \in Recs
      /\ db[p].keylen = r.keylen /\ db[p].datoff = r.datoff /\ db[p].datlen = r.datlen
FoundPcs == {"getdat", "r_dat", "d_lock", "d_dat", "d_free", "d_idx"}
Reading(p) ==
  /\ pc[p] \in {"body", "f_body", "n_body"} =>
       db[p].idxoff \in Recs /\ db[p].idxlen = Shape(idx[Rec(db[p].idxoff)])
  /\ pc[p] \in FoundPcs \cup {"f_take", "u_dat", "u_idx", "n_dat"} => Read(p)
  /\ pc[p] = "f_unlock" /\ db[p].ptr # 0 => Read(p)

\* A process that looks for its key on its chain: ptroff is the place of the ptr
\* that leads to the record, and the key is not before that place.
Walking(p) ==
  LET c == chainoff(p) IN
  /\ pc[p] = "chain" => db[p].ptroff = c
  /\ pc[p] \in {"hdr", "body", "d_head", "d_chain"} \cup FoundPcs => db[p].ptroff \in At(c)
  /\ pc[p] \in {"hdr", "body"} =>
       /\ db[p].ptr \in Recs /\ chain[db[p].ptroff] = db[p].ptr
       /\ \A r \in List(c) : KeyAt(r) = op[p].key => r \in Reach(chain, Recs, db[p].ptroff)
  /\ pc[p] = "body" => db[p].idxoff = db[p].ptr
  /\ pc[p] \in {"body"} \cup FoundPcs =>
       chain[db[p].ptroff] = db[p].idxoff /\ db[p].ptrval = chain[db[p].idxoff]
  /\ pc[p] \in FoundPcs => KeyAt(db[p].idxoff) = op[p].key
  /\ pc[p] = "d_idx" => db[p].ptr = chain[FREE_OFF] /\ db[p].save = db[p].ptrval

\* A process that stores: its key is not on the chain, and save is the head of it
AbsentPcs == {"d_head", "d_chain", "d_unlock"} \cup (StorePcs \ {"r_dat"})
Storing(p) ==
  LET c == chainoff(p) IN
  /\ pc[p] \in AbsentPcs => \A r \in List(c) : KeyAt(r) # op[p].key
  /\ pc[p] \in StorePcs \ {"r_dat", "ptr", "reptr"} => db[p].save = chain[c]

\* A process that looks for a free record
Freeing(p) ==
  /\ pc[p] \in {"f_hdr", "f_body", "f_take"} =>
       db[p].ptroff \in At(FREE_OFF) /\ db[p].ptr \in Recs /\ chain[db[p].ptroff] = db[p].ptr
  /\ pc[p] \in {"f_body", "f_take"} =>
       db[p].idxoff = db[p].ptr /\ db[p].ptrval = chain[db[p].idxoff]

\* A process has the record at idxoff to itself
Owns(p) ==
  \/ pc[p] \in {"d_head", "u_dat", "u_idx", "u_link", "a_iunlock", "a_link"}
  \/ pc[p] = "f_unlock" /\ db[p].ptr # 0
Owning(p) ==
  /\ Owns(p) => db[p].idxoff \in Recs /\ \A o \in Heads : db[p].idxoff \notin List(o)
  /\ Owns(p) /\ pc[p] \in {"f_unlock", "u_dat", "u_idx", "d_head"} => KeyAt(db[p].idxoff) = Blank
  /\ pc[p] = "d_head" => ptr[db[p].idxoff] = chain[FREE_OFF]
  /\ pc[p] \in {"u_link", "a_iunlock", "a_link"} =>
       KeyAt(db[p].idxoff) = op[p].key /\ ptr[db[p].idxoff] = db[p].save
  /\ pc[p] = "u_idx" => dat[db[p].datoff].data = op[p].data

\* A process has the data record at datoff to itself
Adds(p) == pc[p] \in {"a_dunlock", "a_ilock", "a_iseek", "a_idx"}
Appending(p) ==
  /\ pc[p] = "a_dat" => db[p].datoff = Len(dat) + 1
  /\ Adds(p) =>
       /\ db[p].datoff \in DOMAIN dat /\ \A i \in DOMAIN idx : idx[i].datoff # db[p].datoff
       /\ dat[db[p].datoff] = [data |-> op[p].data, len |-> db[p].datlen]
  /\ pc[p] = "a_idx" => db[p].idxoff = nhash + Len(idx) + 1

Scanning(p) ==
  /\ pc[p] \in {"idle", "n_lock", "n_hdr", "n_body", "n_dat"} => db[p].res = NULL
  /\ pc[p] \in {"n_lock", "n_hdr", "n_body", "n_dat", "n_unlock"} => db[p].pos # 0
  /\ pc[p] = "n_dat" => KeyAt(db[p].idxoff) = db[p].key /\ db[p].key # Blank
  /\ pc[p] = "n_unlock" /\ db[p].res # NULL /\ (\A q \in dead : pc[q] \notin {"d_free", "d_idx"})
       => db[p].res \in DataOf[db[p].key]

Local(p) == /\ Locked(p) /\ Calling(p) /\ Reading(p) /\ Walking(p) /\ Storing(p)
            /\ Freeing(p) /\ Owning(p) /\ Appending(p) /\ Scanning(p)

\* What processes have to themselves are different records.
Apart ==
  \A p, q \in Alives : p # q =>
    /\ Owns(p) /\ Owns(q) => db[p].idxoff # db[q].idxoff
    /\ Adds(p) /\ Adds(q) => db[p].datoff # db[q].datoff

\* Each index record has a data record of its own that fits it, and data of its key
\* unless a delete has blanked the data and not yet the key.
Records ==
  \A i \in DOMAIN idx :
    /\ idx[i].datoff \in DOMAIN dat /\ dat[idx[i].datoff].len = idx[i].datlen
    /\ \A j \in DOMAIN idx : idx[i].datoff = idx[j].datoff => i = j
    /\ idx[i].key # Blank /\ dat[idx[i].datoff].data \notin DataOf[idx[i].key] =>
         \E q \in Procs : pc[q] \in {"d_free", "d_idx"} /\ db[q].idxoff = nhash + i

\* With the deletes under way completed, all the lists are sound.
Chains == \A o \in Heads : SoundList(chain, idx, o)

IInv == /\ Types /\ Exclusive /\ Apart /\ Records /\ Chains
        /\ \A p \in Alives : Local(p)

-----------------------------------------------------------------------------
(* Lists *)

\* A list is closed, and it is the smallest set that is.
LEMMA ReachClosed ==
  ASSUME NEW f, NEW R, NEW o, 0 \notin R, Closed(f, R, o)
  PROVE  /\ Reach(f, R, o) \subseteq R
         /\ Closed(f, Reach(f, R, o), o)
         /\ \A S \in SUBSET R : Closed(f, S, o) => Reach(f, R, o) \subseteq S
<1>1. Reach(f, R, o) \subseteq R
  BY Zenon DEF Reach
<1>2. \A S \in SUBSET R : Closed(f, S, o) => Reach(f, R, o) \subseteq S
  BY Zenon DEF Reach
<1>3. ASSUME NEW r \in Reach(f, R, o) \cup {o}, f[r] # 0
      PROVE  f[r] \in Reach(f, R, o)
  <2>1. f[r] \in R
    BY <1>3, <1>1, Zenon DEF Closed
  <2>2. ASSUME NEW S \in SUBSET R, Closed(f, S, o) PROVE f[r] \in S
    BY <2>2, <1>2, <1>3, Zenon DEF Closed
  <2> QED  BY <2>1, <2>2, Zenon DEF Reach
<1>4. Closed(f, Reach(f, R, o), o)
  BY <1>3, Zenon DEF Closed
<1> QED  BY <1>1, <1>2, <1>4, Zenon

\* What lies behind a place of a list is on the list.
LEMMA ReachBehind ==
  ASSUME NEW f, NEW R, NEW o, 0 \notin R, Closed(f, R, o),
         NEW a \in Reach(f, R, o) \cup {o}
  PROVE  Closed(f, R, a) /\ Reach(f, R, a) \subseteq Reach(f, R, o)
<1>1. Closed(f, R, a) /\ Closed(f, Reach(f, R, o), a)
  BY ReachClosed, Zenon DEF Closed
<1> QED  BY <1>1, ReachClosed, Zenon

\* A list stays as it is when its own ptrs do.
LEMMA ReachSame ==
  ASSUME NEW f, NEW g, NEW R, NEW Q, NEW o, R \subseteq Q, 0 \notin Q,
         Closed(f, R, o), Closed(g, Q, o),
         \A r \in Reach(f, R, o) \cup {o} : g[r] = f[r]
  PROVE  Reach(g, Q, o) = Reach(f, R, o)
<1> DEFINE L == Reach(f, R, o)  M == Reach(g, Q, o)
<1>0. 0 \notin R
  BY Zenon
<1>1. L \subseteq R /\ Closed(f, L, o) /\ \A S \in SUBSET R : Closed(f, S, o) => L \subseteq S
  BY <1>0, ReachClosed, Zenon
<1>2. M \subseteq Q /\ Closed(g, M, o) /\ \A S \in SUBSET Q : Closed(g, S, o) => M \subseteq S
  BY ReachClosed, Zenon
<1> HIDE DEF L, M
<1>3. \A r \in L \cup {o} : g[r] = f[r]
  BY Zenon DEF L
<1>4. Closed(g, L, o)
  BY <1>1, <1>3, Zenon DEF Closed
<1>5. M \subseteq L
  BY <1>4, <1>2, <1>1, Zenon
<1>6. Closed(f, M, o)
  BY <1>2, <1>3, <1>5, Zenon DEF Closed
<1>7. L \subseteq M
  BY <1>6, <1>1, <1>5, Zenon
<1> QED  BY <1>5, <1>7, Zenon DEF L, M

\* No two ptrs of a list are the same
Apart1(f, L, o) == \A r, s \in L \cup {o} : r # s /\ f[r] = f[s] => f[r] = 0

\* The record at b, of the list's kind, is put at the front of the list at o: g are the ptrs then.
PutFirst(f, g, x, o, b) ==
  /\ 0 \notin Places(x) /\ o \notin Places(x)
  /\ Closed(f, Places(x), o) /\ Closed(g, Places(x), o) /\ SoundList(f, x, o)
  /\ b \in Places(x) /\ b \notin Reach(f, Places(x), o) /\ g[o] = b /\ g[b] = f[o]
  /\ \A r \in Reach(f, Places(x), o) : g[r] = f[r]
  /\ IF o = FREE_OFF THEN x[Rec(b)].key = Blank
                     ELSE x[Rec(b)].key \in Keys /\ Hash[x[Rec(b)].key] = o
  /\ o # FREE_OFF => \A r \in Reach(f, Places(x), o) : x[Rec(r)].key # x[Rec(b)].key

OnList(f, g, x, o, b) ==
  Reach(g, Places(x), o) \subseteq Reach(f, Places(x), o) \cup {b} /\ SoundList(g, x, o)

\* A sound list is sound when a record has been put at its front ...
LEMMA PushSound ==
  ASSUME NEW x, NEW f, NEW g, NEW o, NEW b, PutFirst(f, g, x, o, b)
  PROVE  OnList(f, g, x, o, b)
  \* A record x is put at the front of a list.
<1>ReachPush. ASSUME NEW f0, NEW g0, NEW R, NEW o0, 0 \notin R, o0 \notin R, Closed(f0, R, o0), Closed(g0, R, o0),
             NEW x0 \in R \ Reach(f0, R, o0), g0[o0] = x0, g0[x0] = f0[o0],
             \A r \in Reach(f0, R, o0) : g0[r] = f0[r]
      PROVE  Reach(g0, R, o0) \subseteq Reach(f0, R, o0) \cup {x0}
  <2> USE <1>ReachPush
  <2> DEFINE L == Reach(f0, R, o0)
  <2>1. L \subseteq R /\ Closed(f0, L, o0)
    BY ReachClosed, Zenon
  <2>2. Closed(g0, L \cup {x0}, o0)
    BY <2>1, Zenon DEF Closed
  <2>3. L \cup {x0} \in SUBSET R
    BY <2>1, Zenon
  <2>4. \A S \in SUBSET R : Closed(g0, S, o0) => Reach(g0, R, o0) \subseteq S
    BY ReachClosed, Zenon
  <2> QED  BY <2>2, <2>3, <2>4, Zenon
<1> USE DEF PutFirst
<1> DEFINE L == Reach(f, Places(x), o)  M == Reach(g, Places(x), o)
<1>1. 0 \notin Places(x) /\ o \notin Places(x)
  BY Zenon
<1>2. M \subseteq L \cup {b}
  BY <1>1, <1>ReachPush, Zenon
<1>3. L \subseteq Places(x) /\ \A r \in L \cup {o} : f[r] \in L \cup {0}
  BY <1>1, ReachClosed, Zenon DEF Closed
<1>4. /\ \A r, s \in L \cup {o} : r # s /\ f[r] = f[s] => f[r] = 0
      /\ \A r \in L : IF o = FREE_OFF THEN x[Rec(r)].key = Blank
                                      ELSE x[Rec(r)].key \in Keys /\ Hash[x[Rec(r)].key] = o
      /\ o # FREE_OFF => \A r, s \in L : x[Rec(r)].key = x[Rec(s)].key => r = s
  BY Zenon DEF SoundList
<1>5. \A r \in L : g[r] = f[r] /\ f[r] # b
  BY <1>1, <1>3, Zenon
<1>6. b \notin L /\ b # o /\ b # 0 /\ o \notin L
  BY <1>1, <1>3, Zenon
<1> HIDE DEF L, M
<1>7. \A r, s \in M \cup {o} : r # s /\ g[r] = g[s] => g[r] = 0
  <2> SUFFICES ASSUME NEW r \in L \cup {o, b}, NEW s \in L \cup {o, b}, r # s, g[r] = g[s] PROVE g[r] = 0
    BY <1>2, Zenon
  <2>1. g[b] = f[o] /\ f[o] # b
    BY <1>3, <1>6, Zenon
  <2>2. \A y \in L \cup {b} : g[y] # b
    BY <1>5, <2>1, Zenon
  <2>3. r # o /\ s # o
    <3>1. ASSUME r = o PROVE FALSE
      <4>1. s \in L \cup {b} /\ g[s] = b
        BY <3>1, Zenon
      <4> QED  BY <2>2, <4>1, Zenon
    <3>2. ASSUME s = o PROVE FALSE
      <4>1. r \in L \cup {b} /\ g[r] = b
        BY <3>2, Zenon
      <4> QED  BY <2>2, <4>1, Zenon
    <3> QED  BY <3>1, <3>2, Zenon
  <2>4. CASE r = b
    BY <1>4, <1>5, <1>6, <2>1, <2>3, <2>4, ZenonT(30)
  <2>5. CASE s = b
    BY <1>4, <1>5, <1>6, <2>1, <2>3, <2>5, ZenonT(30)
  <2>6. CASE r \in L /\ s \in L
    <3>1. f[r] = f[s] /\ g[r] = f[r] /\ r \in L \cup {o} /\ s \in L \cup {o}
      BY <1>5, <2>6, Zenon
    <3> QED  BY <1>4, <3>1, Zenon
  <2> QED  BY <2>3, <2>4, <2>5, <2>6, Zenon
<1>8. \A r \in M : IF o = FREE_OFF THEN x[Rec(r)].key = Blank
                                   ELSE x[Rec(r)].key \in Keys /\ Hash[x[Rec(r)].key] = o
  BY <1>2, <1>4, Zenon
<1>9. o # FREE_OFF => \A r, s \in M : x[Rec(r)].key = x[Rec(s)].key => r = s
  BY <1>2, <1>4, Zenon DEF L
<1> QED  BY <1>2, <1>7, <1>8, <1>9, Zenon DEF OnList, SoundList, L, M

\* The record behind the place a is taken off the list at o, and may be written over.
TakenOff(f, g, x, z, o, a) ==
  /\ Places(z) = Places(x) /\ 0 \notin Places(x) /\ o \notin Places(x)
  /\ Closed(f, Places(x), o) /\ Closed(g, Places(x), o) /\ SoundList(f, x, o)
  /\ a \in Reach(f, Places(x), o) \cup {o} /\ f[a] # 0 /\ g[a] = f[f[a]]
  /\ \A r \in Reach(f, Places(x), o) \cup {o} : r # a /\ r # f[a] => g[r] = f[r]
  /\ \A r \in Reach(f, Places(x), o) : r # f[a] => z[Rec(r)].key = x[Rec(r)].key

OffList(f, g, x, z, o, a) ==
  /\ Reach(g, Places(x), o) = Reach(f, Places(x), o) \ {f[a]} /\ SoundList(g, z, o)
  /\ a # f[a] /\ f[a] \in Reach(f, Places(x), o)

\* ... and when one has been taken off it, and written over.
LEMMA UnlinkSound ==
  ASSUME NEW x, NEW z, NEW f, NEW g, NEW o, NEW a, TakenOff(f, g, x, z, o, a)
  PROVE  OffList(f, g, x, z, o, a)
  \* Every record of a list has another place of the list before it.
<1>ReachPred. ASSUME NEW f0, NEW R, NEW o0, 0 \notin R, Closed(f0, R, o0), o0 \notin R
      PROVE  \A b \in Reach(f0, R, o0) : \E r \in Reach(f0, R, o0) \cup {o0} : r # b /\ f0[r] = b
  <2> USE <1>ReachPred
  <2> TAKE b \in Reach(f0, R, o0)
  <2> DEFINE L == Reach(f0, R, o0)
  <2>1. L \subseteq R /\ Closed(f0, L, o0) /\ \A S \in SUBSET R : Closed(f0, S, o0) => L \subseteq S
    BY ReachClosed, Zenon
  <2> HIDE DEF L
  <2>2. SUFFICES ASSUME \A r \in L \cup {o0} : r # b => f0[r] # b PROVE FALSE
    BY Zenon DEF L
  <2>3. b \in L /\ b # o0
    BY <2>1, Zenon DEF L
  <2>4. Closed(f0, L \ {b}, o0)
    BY <2>1, <2>2, <2>3, Zenon DEF Closed
  <2> QED  BY <2>1, <2>3, <2>4, Zenon
  \* The record b behind the place a is taken off a list.
<1>ReachUnlink. ASSUME NEW f0, NEW g0, NEW R, NEW o0, 0 \notin R, o0 \notin R, Closed(f0, R, o0), Closed(g0, R, o0),
             Apart1(f0, Reach(f0, R, o0), o0),
             NEW a0 \in Reach(f0, R, o0) \cup {o0}, f0[a0] # 0, g0[a0] = f0[f0[a0]],
             \A r \in Reach(f0, R, o0) \cup {o0} : r # a0 /\ r # f0[a0] => g0[r] = f0[r]
      PROVE  /\ a0 # f0[a0] /\ f0[a0] \in Reach(f0, R, o0)
             /\ Reach(g0, R, o0) = Reach(f0, R, o0) \ {f0[a0]}
  <2> USE <1>ReachUnlink
  <2> DEFINE L == Reach(f0, R, o0)  M == Reach(g0, R, o0)  b == f0[a0]
  <2>1. L \subseteq R /\ Closed(f0, L, o0) /\ \A S \in SUBSET R : Closed(f0, S, o0) => L \subseteq S
    BY ReachClosed, Zenon
  <2>2. M \subseteq R /\ Closed(g0, M, o0) /\ \A S \in SUBSET R : Closed(g0, S, o0) => M \subseteq S
    BY ReachClosed, Zenon
  <2>3. b \in L
    BY <2>1, Zenon DEF Closed
  <2>4. PICK r \in L \cup {o0} : r # b /\ f0[r] = b
    <3>1. \A y \in L : \E r \in L \cup {o0} : r # y /\ f0[r] = y
      BY <1>ReachPred, SMT, Z3 DEF L
    <3> QED  BY <2>3, <3>1, Zenon
  <2>5. r = a0
    BY <2>4, Zenon DEF Apart1
  <2>6. \A s \in L \cup {o0} : f0[s] = b => s = a0
    BY Zenon DEF Apart1
  <2>7. \A s \in L \cup {o0} : s # a0 /\ s # b => g0[s] = f0[s]
    BY Zenon
  <2>8. g0[a0] = f0[b] /\ a0 \in L \cup {o0} /\ o0 # b
    BY <2>1, <2>3, Zenon
  <2> HIDE DEF L, M, b
  <2>9. Closed(g0, L \ {b}, o0)
    <3> SUFFICES ASSUME NEW s \in (L \ {b}) \cup {o0} PROVE g0[s] \in (L \ {b}) \cup {0}
      BY Zenon DEF Closed
    <3>1. CASE s = a0
      <4>1. f0[b] \in L \cup {0} /\ f0[b] # b
        BY <2>1, <2>3, <2>4, <2>5, <2>6, Zenon DEF Closed
      <4> QED  BY <4>1, <3>1, <2>8, Zenon
    <3>2. CASE s # a0
      <4>1. f0[s] \in L \cup {0} /\ f0[s] # b /\ g0[s] = f0[s]
        BY <3>2, <2>1, <2>6, <2>7, <2>8, Zenon DEF Closed
      <4> QED  BY <4>1, Zenon
    <3> QED  BY <3>1, <3>2, Zenon
  <2>10. M \subseteq L \ {b}
    BY <2>1, <2>2, <2>9, Zenon
  <2>11. a0 \in M \cup {o0}
    <3> SUFFICES ASSUME a0 \notin M \cup {o0} PROVE FALSE
      BY Zenon
    <3>1. Closed(f0, M, o0)
      BY <2>2, <2>7, <2>10, <2>8, Zenon DEF Closed
    <3> QED  BY <3>1, <2>1, <2>2, <2>8, Zenon
  <2>12. f0[b] \in M \cup {0} /\ f0[a0] = b
    BY <2>11, <2>2, <2>8, Zenon DEF Closed, b
  <2>13. Closed(f0, M \cup {b}, o0)
    BY <2>2, <2>7, <2>8, <2>10, <2>12, Zenon DEF Closed
  <2>14. M \cup {b} \in SUBSET R
    BY <2>1, <2>2, <2>3, Zenon
  <2>15. L \subseteq M \cup {b}
    BY <2>13, <2>14, <2>1, Zenon
  <2> QED  BY <2>3, <2>4, <2>5, <2>10, <2>15, Zenon DEF L, M, b
<1> USE DEF TakenOff
<1> DEFINE L == Reach(f, Places(x), o)  M == Reach(g, Places(x), o)
<1>1. 0 \notin Places(x) /\ o \notin Places(x)
  BY Zenon
<1>2. /\ \A r, s \in L \cup {o} : r # s /\ f[r] = f[s] => f[r] = 0
      /\ \A r \in L : IF o = FREE_OFF THEN x[Rec(r)].key = Blank
                                      ELSE x[Rec(r)].key \in Keys /\ Hash[x[Rec(r)].key] = o
      /\ o # FREE_OFF => \A r, s \in L : x[Rec(r)].key = x[Rec(s)].key => r = s
  BY Zenon DEF SoundList
<1>3. a # f[a] /\ f[a] \in L /\ M = L \ {f[a]}
  <2>1. Apart1(f, L, o)
    BY <1>2, Zenon DEF Apart1
  <2> QED  BY <1>1, <2>1, <1>ReachUnlink, SMT, Z3
<1>4. L \subseteq Places(x)
  BY <1>1, ReachClosed, Zenon
<1>5. o # f[a]
  BY <1>1, <1>3, <1>4, Zenon
<1> HIDE DEF L, M
<1>6. \A r \in L \cup {o} : r # a /\ r # f[a] => g[r] = f[r]
  BY Zenon DEF L
<1>7. \A r, s \in M \cup {o} : r # s /\ g[r] = g[s] => g[r] = 0
  <2> SUFFICES ASSUME NEW r \in (L \ {f[a]}) \cup {o}, NEW s \in (L \ {f[a]}) \cup {o}, r # s, g[r] = g[s]
               PROVE  g[r] = 0
    BY <1>3, Zenon
  <2>1. r # f[a] /\ s # f[a] /\ r \in L \cup {o} /\ s \in L \cup {o} /\ f[a] \in L \cup {o}
    BY <1>3, <1>5, Zenon
  <2>2. CASE r = a
    <3>1. g[s] = f[s] /\ g[r] = f[f[a]]
      BY <1>6, <2>1, <2>2, Zenon
    <3> QED  BY <1>2, <2>1, <3>1, Zenon
  <2>3. CASE s = a
    <3>1. g[r] = f[r] /\ g[s] = f[f[a]]
      BY <1>6, <2>1, <2>3, Zenon
    <3> QED  BY <1>2, <2>1, <3>1, Zenon
  <2>4. CASE r # a /\ s # a
    BY <1>2, <1>6, <2>1, <2>4, Zenon
  <2> QED  BY <2>2, <2>3, <2>4, Zenon
<1>8. \A r \in M : z[Rec(r)].key = x[Rec(r)].key /\ r \in L
  BY <1>3, Zenon DEF L
<1>9. \A r \in M : IF o = FREE_OFF THEN z[Rec(r)].key = Blank
                                   ELSE z[Rec(r)].key \in Keys /\ Hash[z[Rec(r)].key] = o
  BY <1>2, <1>8, Zenon
<1>10. o # FREE_OFF => \A r, s \in M : z[Rec(r)].key = z[Rec(s)].key => r = s
  <2> SUFFICES ASSUME o # FREE_OFF, NEW r \in M, NEW s \in M, z[Rec(r)].key = z[Rec(s)].key PROVE r = s
    BY Zenon
  <2>1. r \in L /\ s \in L /\ x[Rec(r)].key = x[Rec(s)].key
    BY <1>8, Zenon
  <2> QED  BY <1>2, <2>1, Zenon
<1>11. Reach(g, Places(z), o) = M
  BY Zenon DEF M
<1>12. SoundList(g, z, o)
  BY <1>7, <1>9, <1>10, <1>11, Zenon DEF SoundList
<1> QED  BY <1>3, <1>12, Zenon DEF OffList, L, M

-----------------------------------------------------------------------------
(* The state *)

\* The ptrs while nobody, and while one process unlinks a record.
LEMMA ChainIs ==
  ASSUME NEW f, NEW c, NEW d
  PROVE  /\ (\A q \in Procs : c[q] \notin Unlinking) =>
              DOMAIN ChainOf(f, c, d) = DOMAIN f /\ \A o \in DOMAIN f : ChainOf(f, c, d)[o] = f[o]
         /\ \A p \in Procs : c[p] \in Unlinking /\ (\A q \in Procs : q # p => c[q] \notin Unlinking) =>
              /\ DOMAIN ChainOf(f, c, d) = DOMAIN f
              /\ \A o \in DOMAIN f :
                   ChainOf(f, c, d)[o] = IF o = d[p].ptroff THEN d[p].save ELSE f[o]
<1>1. DOMAIN ChainOf(f, c, d) = DOMAIN f
  BY Zenon DEF ChainOf
<1>2. ASSUME \A q \in Procs : c[q] \notin Unlinking, NEW o \in DOMAIN f
      PROVE  ChainOf(f, c, d)[o] = f[o]
  BY <1>2, Zenon DEF ChainOf, Saves
<1>3. ASSUME NEW p \in Procs, c[p] \in Unlinking, \A q \in Procs : q # p => c[q] \notin Unlinking,
             NEW o \in DOMAIN f
      PROVE  ChainOf(f, c, d)[o] = IF o = d[p].ptroff THEN d[p].save ELSE f[o]
  <2>1. CASE o # d[p].ptroff
    <3>1. Saves(c, d, o) = {}
      BY <1>3, <2>1, Zenon DEF Saves
    <3> QED  BY <3>1, <2>1, Zenon DEF ChainOf
  <2>2. CASE o = d[p].ptroff
    <3>1. Saves(c, d, o) = {d[p].save}
      BY <1>3, <2>2, Zenon DEF Saves
    <3>2. OneOf({d[p].save}) = d[p].save
      BY Zenon DEF OneOf
    <3> QED  BY <3>1, <3>2, <2>2, Zenon DEF ChainOf
  <2> QED  BY <2>1, <2>2, Zenon
<1> QED  BY <1>1, <1>2, <1>3, Zenon

\* A request of db_fetch, db_store or db_delete names a key, and a store data of that key.
LEMMA RequestFacts ==
  ASSUME NEW r \in Requests
  PROVE  /\ r.key \in Keys /\ Hash[r.key] \in 1 .. nhash
         /\ r.name \in {"fetch", "delete", "insert", "replace", "store"}
         /\ r.name \in {"insert", "replace", "store"} => r.data \in DataOf[r.key] /\ r.data \in AllData
BY DbAssumption, SMT, Z3 DEF Requests, AllData

\* Where the places of an index file are.
LEMMA PlaceFacts ==
  ASSUME NEW S, NEW x \in Seq(S)
  PROVE  /\ 0 \notin Places(x) /\ Heads \cap Places(x) = {} /\ 0 \in Heads
         /\ 0 .. nhash + Len(x) = Heads \cup Places(x)
         /\ \A r \in Places(x) : Rec(r) \in DOMAIN x /\ nhash + Rec(r) = r
         /\ \A i \in DOMAIN x : nhash + i \in Places(x) /\ Rec(nhash + i) = i
         /\ Len(x) \in Nat /\ DOMAIN x = 1 .. Len(x) /\ nhash \in Nat
<1>1. Len(x) \in Nat /\ DOMAIN x = 1 .. Len(x)
  BY SMT, Z3
<1>2. nhash \in Nat /\ nhash # 0
  BY DbAssumption, Zenon
<1>3. 0 \notin Places(x) /\ Heads \cap Places(x) = {} /\ 0 \in Heads
  BY <1>1, <1>2, SMT, Z3 DEF Places, Heads
<1>4. 0 .. nhash + Len(x) = Heads \cup Places(x)
  BY <1>1, <1>2, SMT, Z3 DEF Places, Heads
<1>5. \A r \in Places(x) : Rec(r) \in DOMAIN x /\ nhash + Rec(r) = r
  BY <1>1, <1>2, SMT, Z3 DEF Places, Rec
<1>6. \A i \in DOMAIN x : nhash + i \in Places(x) /\ Rec(nhash + i) = i
  BY <1>1, <1>2, SMT, Z3 DEF Places, Rec
<1> QED  BY <1>1, <1>2, <1>3, <1>4, <1>5, <1>6, Zenon

\* The ptrs, with the delete under way completed, are ptrs too.
LEMMA ChainType ==
  ASSUME NEW S, NEW x \in Seq(S), NEW f \in [0 .. nhash + Len(x) -> {0} \cup Places(x)],
         NEW c, NEW d, \A p \in Procs : d[p].save \in {0} \cup Places(x)
  PROVE  /\ ChainOf(f, c, d) \in [Heads \cup Places(x) -> {0} \cup Places(x)]
         /\ \A o \in Heads \cup Places(x) : Closed(ChainOf(f, c, d), Places(x), o)
<1>1. f \in [Heads \cup Places(x) -> {0} \cup Places(x)]
  BY PlaceFacts, Zenon
<1>3. ASSUME NEW o \in Heads \cup Places(x) PROVE ChainOf(f, c, d)[o] \in {0} \cup Places(x)
  <2>1. CASE Saves(c, d, o) = {}
    BY Zenon, <1>1, <2>1 DEF ChainOf
  <2>2. CASE Saves(c, d, o) # {}
    <3>1. OneOf(Saves(c, d, o)) \in Saves(c, d, o)
      BY <2>2, Zenon DEF OneOf
    <3>2. OneOf(Saves(c, d, o)) \in {0} \cup Places(x)
      BY <3>1, Zenon DEF Saves
    <3> QED  BY Zenon, <1>1, <2>2, <3>2 DEF ChainOf
  <2> QED  BY <2>1, <2>2, Zenon
<1>4. ChainOf(f, c, d) = [o \in Heads \cup Places(x) |-> ChainOf(f, c, d)[o]]
  BY Zenon, <1>1 DEF ChainOf
<1>5. ChainOf(f, c, d) \in [Heads \cup Places(x) -> {0} \cup Places(x)]
  BY <1>3, <1>4, Zenon
<1> QED  BY <1>5, Zenon DEF Closed

\* Where everything is, in a state of the invariant.
LEMMA Layout ==
  ASSUME IInv
  PROVE  /\ 0 \notin Recs /\ Heads \cap Recs = {} /\ 0 \in Heads
         /\ chain \in [Heads \cup Recs -> {0} \cup Recs]
         /\ ptr \in [Heads \cup Recs -> {0} \cup Recs]
         /\ \A o \in Heads \cup Recs : Closed(chain, Recs, o)
         /\ \A o \in Heads : List(o) \subseteq Recs /\ \A r \in At(o) : chain[r] \in List(o) \cup {0}
         /\ \A o, u \in Heads : o # u => At(o) \cap At(u) = {}
  \* The chains and the free list have no place in common.
<1>ListsApart. ASSUME NEW S, NEW x \in Seq(S), NEW f,
             \A o \in Heads : Closed(f, Places(x), o) /\ SoundList(f, x, o)
      PROVE  \A o, u \in Heads : o # u =>
               (Reach(f, Places(x), o) \cup {o}) \cap (Reach(f, Places(x), u) \cup {u}) = {}
  <2> USE <1>ListsApart
  <2>1. 0 \notin Places(x) /\ Heads \cap Places(x) = {} /\ 0 \in Heads
    BY PlaceFacts, Zenon
  <2>2. \A o \in Heads : Reach(f, Places(x), o) \subseteq Places(x)
    BY Zenon DEF Reach
  <2>3. ASSUME NEW o \in Heads, NEW u \in Heads, o # u, NEW r \in Places(x),
               r \in Reach(f, Places(x), o), r \in Reach(f, Places(x), u)
        PROVE  FALSE
    <3>1. Blank \notin Keys
      BY DbAssumption, Zenon
    <3>2. IF o = FREE_OFF THEN x[Rec(r)].key = Blank
                          ELSE x[Rec(r)].key \in Keys /\ Hash[x[Rec(r)].key] = o
      BY <2>3, Zenon DEF SoundList
    <3>3. IF u = FREE_OFF THEN x[Rec(r)].key = Blank
                          ELSE x[Rec(r)].key \in Keys /\ Hash[x[Rec(r)].key] = u
      BY <2>3, Zenon DEF SoundList
    <3> QED  BY <2>3, <3>1, <3>2, <3>3, Zenon
  <2> QED  BY <2>1, <2>2, <2>3, Zenon
<1>1. idx \in Seq([key : Keys \cup {Blank}, keylen : Nat, datoff : Nat, datlen : Nat])
  BY Zenon DEF IInv, Types
<1>2. 0 \notin Recs /\ Heads \cap Recs = {} /\ 0 \in Heads
  BY <1>1, PlaceFacts, Zenon DEF Recs
<1>3. ptr \in [0 .. nhash + Len(idx) -> {0} \cup Recs]
  BY Zenon DEF IInv, Types
<1>4. ptr \in [Heads \cup Recs -> {0} \cup Recs]
  BY <1>1, <1>3, PlaceFacts, Zenon DEF Recs
<1>5. \A p \in Procs : db[p].save \in {0} \cup Recs
  BY Zenon DEF IInv, Types, DbType
<1>6. /\ chain \in [Heads \cup Recs -> {0} \cup Recs]
      /\ \A o \in Heads \cup Recs : Closed(chain, Recs, o)
  BY <1>1, <1>3, <1>5, ChainType, Zenon DEF chain, Recs
<1>7. ASSUME NEW o \in Heads
      PROVE  List(o) \subseteq Recs /\ \A r \in At(o) : chain[r] \in List(o) \cup {0}
  <2>1. Closed(chain, Recs, o)
    BY <1>6, Zenon
  <2>2. Closed(chain, List(o), o) /\ List(o) \subseteq Recs
    BY <2>1, <1>2, ReachClosed, Zenon DEF List
  <2> QED  BY <2>2, Zenon DEF Closed, At
<1>8. \A o, u \in Heads : o # u => At(o) \cap At(u) = {}
  BY <1>1, <1>6, <1>ListsApart, Zenon DEF IInv, Chains, At, List, Recs
<1> QED  BY <1>2, <1>4, <1>6, <1>7, <1>8, Zenon

\* What the locks exclude.
LEMMA Exclusion ==
  ASSUME IInv, NEW p \in Alives, NEW q \in Alives, p # q
  PROVE  /\ pc[p] \in ChainPcs /\ pc[q] \in ChainPcs /\ op[p].name # "fetch" => chainoff(p) # chainoff(q)
         /\ pc[p] \in FreePcs => pc[q] \notin FreePcs \cup ScanPcs
         /\ pc[p] \in DatPcs => pc[q] \notin DatPcs
         /\ pc[p] \in IdxPcs => pc[q] \notin IdxPcs
<1>1. ASSUME NEW r, NEW w, NEW v, Held(p, r, w), Held(q, r, v) PROVE ~w
  <2> DEFINE l == [p |-> p, r |-> r, w |-> w]  m == [p |-> q, r |-> r, w |-> v]
  <2>1. l \in locks /\ m \in locks /\ l.p # m.p /\ l.r = m.r /\ l.w = w
    BY <1>1, Zenon DEF Held
  <2> QED  BY <2>1, Zenon DEF IInv, Exclusive
<1>2. Locked(p) /\ Locked(q)
  BY Zenon DEF IInv, Local
<1> QED  BY <1>1, <1>2, Zenon DEF Locked

\* One process at a time takes a record off its chain, and none that has ended.
LEMMA Unlinker ==
  ASSUME IInv, NoneHalfDeleted, NEW p \in Procs, pc[p] \in Unlinking
  PROVE  p \in Alives /\ \A q \in Procs : q # p => pc[q] \notin Unlinking
<1>1. \A q \in Procs : pc[q] \in Unlinking => q \in Alives
  BY Zenon DEF NoneHalfDeleted, Unlinking, Alives
<1>2. \A q \in Procs : pc[q] \in Unlinking => pc[q] \in FreePcs
  BY Zenon DEF Unlinking, FreePcs
<1> QED  BY <1>1, <1>2, Exclusion, Zenon

-----------------------------------------------------------------------------
(* The processes that have ended, and the first state *)

\* The functions of processes, and the processes that have ended, for any number of
\* failures: what has ended stays as it is.
Frame == DOMAIN pc = Procs /\ DOMAIN db = Procs /\ dead \subseteq Procs /\ fails \in Nat
DeadStay ==
  /\ Frame' /\ dead \subseteq dead' /\ \A q \in dead' : pc'[q] = pc[q] /\ db'[q] = db[q]
  /\ fails' = 0 => fails = 0 /\ \A q \in dead' \ dead : pc[q] = "a_link"

\* All that a step changes of pc and db is p's
Own(p) ==
  /\ pc' = pc \/ \E v : pc' = [pc EXCEPT ![p] = v]
  /\ db' = db \/ \E d : db' = [db EXCEPT ![p] = d]

\* No step changes what a process that has ended has left behind.
LEMMA StepFrame ==
  ASSUME Frame, NEW p \in Procs, Step(p) \/ CallFails(p)
  PROVE  DeadStay
  \* A step of one process leaves those that have ended as they are.
<1>OwnFacts. ASSUME Frame, p \in Procs \ dead, Own(p), dead' = dead, fails' = fails
      PROVE  DeadStay
  <2> USE <1>OwnFacts
  <2>1. DOMAIN pc' = Procs /\ \A q \in Procs : q # p => pc'[q] = pc[q]
    BY Zenon DEF Frame, Own
  <2>2. DOMAIN db' = Procs /\ \A q \in Procs : q # p => db'[q] = db[q]
    BY Zenon DEF Frame, Own
  <2> QED  BY <2>1, <2>2, Zenon DEF Frame, DeadStay
<1>0. ASSUME Die(p), fails' \in Nat, fails' = 0 => fails = 0 /\ pc[p] = "a_link" PROVE DeadStay
  <2>1. pc' = pc /\ db' = db /\ dead' = dead \cup {p}
    BY <1>0, Zenon DEF Die
  <2> QED  BY <1>0, <2>1, Zenon DEF Frame, DeadStay
<1>1. ASSUME NEW v, NEW d, Goto(p, v), Set(p, d) PROVE Own(p)
  BY <1>1, Zenon DEF Goto, Set, Own
<1>2. ASSUME NEW v, Goto(p, v), db' = db PROVE Own(p)
  BY <1>2, Zenon DEF Goto, Own
<1>3. CASE Call(p)
  <2>1. p \notin dead /\ dead' = dead /\ fails' = fails /\ Own(p)
    BY <1>1, <1>2, <1>3, Zenon DEF Call
  <2> QED  BY <2>1, <1>OwnFacts, Zenon
<1>4. CASE FindAndLock(p)
  <2>1. ASSUME NEW d, NotFound(p, d) \/ Found(p, d) PROVE Own(p)
    <3>1. \E v, e : Goto(p, v) /\ Set(p, e)
      BY <2>1, Zenon DEF NotFound, Found
    <3> QED  BY <1>1, <3>1, Zenon
  <2>2. ASSUME NEW d, Walk(p, d) PROVE Own(p)
    BY <1>1, <2>1, <2>2, Zenon DEF Walk
  <2>3. p \notin dead /\ dead' = dead /\ fails' = fails
    BY <1>4, Zenon DEF FindAndLock, Private, Alive
  <2>4. Own(p)
    BY <1>1, <1>4, <2>1, <2>2, Zenon DEF FindAndLock
  <2> QED  BY <2>3, <2>4, <1>OwnFacts, Zenon
<1>5. CASE Fetch(p) \/ Return(p)
  <2>1. p \notin dead /\ dead' = dead /\ fails' = fails /\ Own(p)
    BY <1>1, <1>5, Zenon DEF Fetch, Return, Private, Alive
  <2> QED  BY <2>1, <1>OwnFacts, Zenon
<1>6. CASE DoDelete(p)
  <2>1. p \notin dead /\ dead' = dead /\ fails' = fails
    BY <1>6, Zenon DEF DoDelete, Alive
  <2>2. Own(p)
    BY <1>1, <1>2, <1>6, Zenon DEF DoDelete
  <2> QED  BY <2>1, <2>2, <1>OwnFacts, Zenon
<1>7. CASE FindFree(p)
  <2>1. p \notin dead /\ dead' = dead /\ fails' = fails
    BY <1>7, Zenon DEF FindFree, Alive
  <2>2. ASSUME NEW d, WalkFree(p, d) PROVE Own(p)
    BY <1>1, <2>2, Zenon DEF WalkFree
  <2>3. Own(p)
    BY <1>1, <1>2, <1>7, <2>2, Zenon DEF FindFree
  <2> QED  BY <2>1, <2>3, <1>OwnFacts, Zenon
<1>8. CASE Reuse(p) \/ AppendRec(p)
  <2>1. p \notin dead /\ dead' = dead /\ fails' = fails
    BY <1>8, Zenon DEF Reuse, AppendRec, Alive
  <2>2. Own(p)
    BY <1>1, <1>2, <1>8, Zenon DEF Reuse, AppendRec
  <2> QED  BY <2>1, <2>2, <1>OwnFacts, Zenon
<1>9. CASE PtrTooLarge(p)
  BY <1>0, <1>9, Zenon DEF PtrTooLarge, Frame
<1>10. CASE Rewind(p)
  <2>1. p \notin dead /\ dead' = dead /\ fails' = fails /\ Own(p)
    BY <1>10, Zenon DEF Rewind, Set, Own
  <2> QED  BY <2>1, <1>OwnFacts, Zenon
<1>11. CASE NextRec(p)
  <2>1. p \notin dead /\ dead' = dead /\ fails' = fails /\ Own(p)
    BY <1>1, <1>2, <1>11, Zenon DEF NextRec
  <2> QED  BY <2>1, <1>OwnFacts, Zenon
<1>12. CASE CallFails(p)
  <2>1. fails' \in Nat /\ fails' # 0
    BY <1>12, SMT, Z3 DEF CallFails, Frame
  <2> QED  BY <1>0, <1>12, <2>1, Zenon DEF CallFails
<1> QED  BY <1>3, <1>4, <1>5, <1>6, <1>7, <1>8, <1>9, <1>10, <1>11, <1>12, Zenon DEF Step

\* Initially the processes are idle and the files those that complete calls left.
LEMMA InitHolds ==
  ASSUME Init
  PROVE  Frame /\ dead = {} /\ IInv /\ ScanSeesWhole
<1>1. PICK f \in Files : ptr = f.ptr /\ idx = f.idx /\ dat = f.dat
  BY Zenon DEF Init
<1>2. Sound(f)
  BY FilesAssumption, Zenon
<1>3. /\ locks = {} /\ pc = [p \in Procs |-> "idle"] /\ op = [p \in Procs |-> NoCall]
      /\ db = [p \in Procs |-> NewDb(1)] /\ dead = {} /\ calls = 0 /\ fails = 0
  BY Zenon DEF Init
<1>4. /\ idx \in Seq([key : Keys \cup {Blank}, keylen : Nat, datoff : Nat, datlen : Nat])
      /\ dat \in Seq([data : AllData \cup {Blank}, len : Nat])
      /\ ptr \in [0 .. nhash + Len(idx) -> {0} \cup Recs]
  BY <1>1, <1>2, Zenon DEF Sound, Recs
<1>5. Records
  BY <1>1, <1>2, Zenon DEF Sound, Records
<1>6. NewDb(1) \in DbType /\ NewDb(1).res = NULL
  <2>1. 0 \in Nat /\ 1 \in Nat /\ <<0, 0, 0>> \in Nat \X Nat \X Nat
    BY Zenon
  <2>2. 0 \in 0 .. nhash + Len(idx)
    BY <1>4, DbAssumption, SMT, Z3
  <2> QED  BY <2>1, <2>2, Zenon DEF NewDb, DbType
<1>7. Types
  <2>1. "idle" \in Pcs
    BY Zenon DEF Pcs
  <2>2. pc \in [Procs -> Pcs] /\ op \in [Procs -> Requests \cup {NoCall, Nextrec}] /\ db \in [Procs -> DbType]
    BY <1>3, <1>6, <2>1, Zenon
  <2>3. calls \in 0 .. MaxCalls /\ fails \in 0 .. MaxFails
    BY <1>3, DbAssumption, SMT, Z3
  <2> QED  BY <1>3, <1>4, <2>2, <2>3, Zenon DEF Types
<1>8. chain = ptr
  <2>1. \A q \in Procs : pc[q] \notin Unlinking
    BY <1>3, Zenon DEF Unlinking
  <2>2. DOMAIN ChainOf(ptr, pc, db) = DOMAIN ptr /\ \A o \in DOMAIN ptr : ChainOf(ptr, pc, db)[o] = ptr[o]
    BY <2>1, ChainIs, SMT, Z3
  <2>3. chain = [o \in DOMAIN ptr |-> ChainOf(ptr, pc, db)[o]]
    BY Zenon DEF chain, ChainOf
  <2>4. ptr = [o \in DOMAIN ptr |-> ptr[o]]
    BY <1>4, Zenon
  <2> QED  BY <2>2, <2>3, <2>4, Zenon
<1>9. Chains
  BY <1>1, <1>2, <1>8, Zenon DEF Chains, Sound, Heads
<1>10. ASSUME NEW p \in Alives PROVE Local(p)
  <2>1. pc[p] = "idle" /\ db[p].res = NULL
    BY <1>3, <1>6, Zenon DEF Alives
  <2>2. Locked(p) /\ Calling(p)
    BY <2>1, Zenon DEF Locked, Calling, ChainPcs, FreePcs, ScanPcs, DatPcs, IdxPcs, DeletePcs, StorePcs, Pcs
  <2>3. Reading(p) /\ Walking(p)
    BY <2>1, Zenon DEF Reading, Walking, FoundPcs
  <2>4. Storing(p) /\ Freeing(p)
    BY <2>1, Zenon DEF Storing, Freeing, AbsentPcs, StorePcs
  <2>5. Owning(p) /\ Appending(p) /\ Scanning(p)
    BY <2>1, Zenon DEF Owning, Owns, Appending, Adds, Scanning
  <2> QED  BY <2>2, <2>3, <2>4, <2>5, Zenon DEF Local
<1>11. Exclusive /\ Apart
  <2>1. \A p \in Alives : ~ Owns(p) /\ ~ Adds(p)
    BY <1>3, Zenon DEF Alives, Owns, Adds
  <2> QED  BY <1>3, <2>1, Zenon DEF Exclusive, Apart
<1>12. Frame /\ dead = {}
  BY <1>3, Zenon DEF Frame
<1>13. ScanSeesWhole
  BY <1>3, Zenon DEF ScanSeesWhole
<1> QED  BY <1>5, <1>7, <1>9, <1>10, <1>11, <1>12, <1>13, Zenon DEF IInv

-----------------------------------------------------------------------------
(* What a step of one process leaves of the others' *)

SameList(o) ==
  /\ List(o)' = List(o)
  /\ \A r \in At(o) : chain'[r] = chain[r]
  /\ \A r \in List(o) : KeyAt(r)' = KeyAt(r)

SameShapes ==
  /\ Recs \subseteq Recs'
  /\ \A r \in Recs : /\ idx'[Rec(r)].keylen = idx[Rec(r)].keylen
                     /\ idx'[Rec(r)].datoff = idx[Rec(r)].datoff
                     /\ idx'[Rec(r)].datlen = idx[Rec(r)].datlen

\* All that the others' part of the invariant says of the files still holds.
SameFor(q) ==
  LET i == db[q].idxoff  d == db[q].datoff IN
  /\ pc[q] \in ChainPcs => SameList(chainoff(q))
  /\ pc[q] \in FreePcs => SameList(FREE_OFF)
  /\ Owns(q) => /\ idx'[Rec(i)].key = idx[Rec(i)].key /\ ptr'[i] = ptr[i]
                /\ \A o \in Heads : i \notin List(o)'
  /\ pc[q] = "u_idx" \/ Adds(q) => d \in DOMAIN dat' /\ dat'[d] = dat[d]
  /\ Adds(q) => \A j \in DOMAIN idx' : idx'[j].datoff # d
  /\ pc[q] = "a_dat" => Len(dat') = Len(dat)
  /\ pc[q] = "a_idx" => Len(idx') = Len(idx)
  /\ pc[q] = "n_dat" => idx'[Rec(i)].key = idx[Rec(i)].key

\* A process that walks, deletes or stores holds its chain's lock, one that frees or
\* takes a free record the free list's.
LEMMA PcSets ==
  /\ {"chain", "hdr", "body"} \cup Unlinking \cup FoundPcs \cup AbsentPcs \cup StorePcs \subseteq ChainPcs
  /\ {"f_hdr", "f_body", "f_take", "d_idx"} \cup Unlinking \subseteq FreePcs
BY SMT, Z3 DEF Unlinking, FoundPcs, AbsentPcs, StorePcs, ChainPcs, FreePcs, Pcs, ScanPcs

\* Of the types alone: where the ptrs lead.
LEMMA TypesLinks ==
  ASSUME Types'
  PROVE  /\ 0 \notin Recs' /\ (\A o \in Heads : o \notin Recs')
         /\ \A o \in Heads \cup Recs' : Closed(chain', Recs', o)
         /\ chain' \in [Heads \cup Recs' -> {0} \cup Recs']
         /\ ptr' \in [Heads \cup Recs' -> {0} \cup Recs']
<1>1. idx' \in Seq([key : Keys \cup {Blank}, keylen : Nat, datoff : Nat, datlen : Nat])
  BY Zenon DEF Types
<1>2. ptr' \in [0 .. nhash + Len(idx') -> {0} \cup Recs']
  BY Zenon DEF Types
<1>3. \A q \in Procs : db'[q].save \in {0} \cup Recs'
  BY Zenon DEF Types, DbType
<1>4. chain' = ChainOf(ptr', pc', db') /\ Recs' = Places(idx')
  BY Zenon DEF chain, Recs
<1>5. 0 \notin Places(idx') /\ Heads \cap Places(idx') = {} /\ 0 .. nhash + Len(idx') = Heads \cup Places(idx')
  BY <1>1, PlaceFacts, Zenon
<1>6. /\ ChainOf(ptr', pc', db') \in [Heads \cup Places(idx') -> {0} \cup Places(idx')]
      /\ \A o \in Heads \cup Places(idx') : Closed(ChainOf(ptr', pc', db'), Places(idx'), o)
  BY <1>1, <1>2, <1>3, <1>4, ChainType, Zenon
<1> QED  BY <1>2, <1>4, <1>5, <1>6, Zenon

\* What is said of q stays so when another process moves and q's lists, records and
\* locks are as they were.
LEMMA OthersKeep ==
  ASSUME IInv, NEW p \in Alives, NEW q \in Alives, Types', dead' = dead,
         p # q, \A x \in Procs : x # p => pc'[x] = pc[x] /\ op'[x] = op[x] /\ db'[x] = db[x],
         \A l \in locks : l.p = q => l \in locks',
         SameShapes, SameFor(q)
  PROVE  Local(q)'
<1>1. q \in Procs /\ pc'[q] = pc[q] /\ op'[q] = op[q] /\ db'[q] = db[q]
  BY Zenon DEF Alives
<1>2. chainoff(q)' = chainoff(q)
  BY <1>1, Zenon DEF chainoff
<1>3. Local(q)
  BY Zenon DEF IInv
<1>4. Locked(q)'
  <2>1. \A r, w : Held(q, r, w) => Held(q, r, w)'
    BY Zenon DEF Held
  <2> QED  BY <2>1, <1>1, <1>2, <1>3, Zenon DEF Local, Locked
<1>5. Calling(q)'
  BY <1>1, <1>3, Zenon DEF Local, Calling
<1>6. Reading(q)'
  <2>1. Read(q) => Read(q)'
    BY <1>1, Zenon DEF Read, SameShapes
  <2>2. db[q].idxoff \in Recs => Shape(idx[Rec(db[q].idxoff)])' = Shape(idx[Rec(db[q].idxoff)])
    BY <1>1, Zenon DEF Shape, SameShapes
  <2> QED  BY <2>1, <2>2, <1>1, <1>3, Zenon DEF Local, Reading, SameShapes
<1>7. Walking(q)'
  <2> DEFINE c == chainoff(q)  o == db[q].ptroff
  <2>1. SUFFICES ASSUME pc[q] \in {"chain", "hdr", "body"} \cup Unlinking \cup FoundPcs
                 PROVE  Walking(q)'
    BY <1>1, Zenon DEF Walking, Unlinking, FoundPcs
  <2>2. SameList(c) /\ c \in Heads
    BY <2>1, <1>3, PcSets, RequestFacts, SMT, Z3 DEF SameFor, Local, Calling, chainoff, Heads
  <2>3. pc[q] = "d_idx" => chain'[FREE_OFF] = chain[FREE_OFF]
    BY PcSets, Zenon DEF SameFor, SameList, At
  <2>4. pc[q] \in {"hdr", "body"} \cup FoundPcs => o \in At(c) /\ chain[o] \in List(c) \cup {0}
    <3>1. \A r \in At(c) : chain[r] \in List(c) \cup {0}
      BY <2>2, Layout, Zenon
    <3> QED  BY <1>3, <3>1, Zenon DEF Local, Walking
  <2>5. pc[q] \in {"body"} \cup FoundPcs => db[q].idxoff \in List(c)
    BY <2>4, <1>3, Layout, SMT, Z3 DEF Local, Walking, Reading, Read, FoundPcs
  <2>6. ASSUME pc[q] \in {"hdr", "body"}
        PROVE  Reach(chain, Recs, o)' = Reach(chain, Recs, o)
    <3>1. Closed(chain, Recs, c) /\ 0 \notin Recs
      BY <2>2, Layout, Zenon
    <3>2. Closed(chain, Recs, o) /\ Reach(chain, Recs, o) \subseteq List(c)
      BY <3>1, <2>4, <2>6, ReachBehind, Zenon DEF At, List
    <3>3. Closed(chain', Recs', o) /\ 0 \notin Recs'
      <4>1. o \in Heads \cup Recs'
        BY <2>4, <2>2, <2>6, Layout, Zenon DEF At, SameShapes, Heads
      <4> QED  BY <4>1, TypesLinks, Zenon
    <3>4. \A r \in Reach(chain, Recs, o) \cup {o} : chain'[r] = chain[r]
      BY <3>2, <2>2, <2>4, <2>6, Zenon DEF SameList, At
    <3>5. Recs \subseteq Recs'
      BY Zenon DEF SameShapes
    <3>6. Reach(chain', Recs', o) = Reach(chain, Recs, o)
      BY <3>2, <3>3, <3>4, <3>5, ReachSame, SMT, Z3
    <3> QED  BY <3>6, <1>1, Zenon
  <2>7. \A r \in At(c) : r \in At(c)' /\ chain'[r] = chain[r]
    BY <2>2, <1>2, Zenon DEF SameList, At
  <2>8. \A r \in List(c) : KeyAt(r)' = KeyAt(r) /\ r \in At(c)
    BY <2>2, Zenon DEF SameList, At
  <2>9. List(c)' = List(c) /\ Recs \subseteq Recs'
    BY <2>2, <1>2, Zenon DEF SameList, SameShapes
  <2>10. Walking(q)
    BY <1>3, Zenon DEF Local
  <2>11. CASE pc[q] \in {"chain"} \cup Unlinking
    BY <2>11, <2>7, <2>10, <1>1, <1>2, Zenon DEF Walking, Unlinking, FoundPcs
  <2>12. CASE pc[q] \in {"hdr", "body"}
    <3>1. db[q].ptroff \in At(c)' /\ db[q].ptr \in Recs' /\ chain'[db[q].ptroff] = db[q].ptr
      BY <2>12, <2>7, <2>9, <2>10, Zenon DEF Walking
    <3>2. \A r \in List(c)' : KeyAt(r)' = op[q].key => r \in Reach(chain, Recs, o)'
      BY <2>12, <2>6, <2>8, <2>9, <2>10, Zenon DEF Walking
    <3>3. pc[q] = "body" =>
            /\ db[q].idxoff = db[q].ptr /\ chain'[db[q].ptroff] = db[q].idxoff
            /\ db[q].ptrval = chain'[db[q].idxoff]
      BY <2>12, <2>5, <2>7, <2>8, <2>10, Zenon DEF Walking
    <3> QED  BY <2>12, <3>1, <3>2, <3>3, <1>1, <1>2, Zenon DEF Walking, FoundPcs
  <2>13. CASE pc[q] \in FoundPcs
    <3>1. /\ db[q].ptroff \in At(c)' /\ chain'[db[q].ptroff] = db[q].idxoff
          /\ db[q].ptrval = chain'[db[q].idxoff] /\ (KeyAt(db[q].idxoff))' = op[q].key
      BY <2>13, <2>5, <2>7, <2>8, <2>10, <1>1, Zenon DEF Walking, KeyAt
    <3>2. pc[q] = "d_idx" => db[q].ptr = chain'[FREE_OFF] /\ db[q].save = db[q].ptrval
      BY <2>3, <2>10, Zenon DEF Walking
    <3> QED  BY <2>13, <3>1, <3>2, <1>1, <1>2, Zenon DEF Walking, FoundPcs
  <2> QED  BY <2>1, <2>11, <2>12, <2>13, Zenon
<1>8. Storing(q)'
  <2>1. pc[q] \in AbsentPcs \cup StorePcs => SameList(chainoff(q))
    BY PcSets, Zenon DEF SameFor
  <2> QED  BY <2>1, <1>1, <1>2, <1>3, ZenonT(30) DEF Local, Storing, SameList, At
<1>9. Freeing(q)'
  <2>1. pc[q] \in {"f_hdr", "f_body", "f_take"} => SameList(FREE_OFF)
    BY PcSets, Zenon DEF SameFor
  <2>2. pc[q] \in {"f_hdr", "f_body", "f_take"} => db[q].ptr \in List(FREE_OFF)
    <3>1. \A r \in At(FREE_OFF) : chain[r] \in List(FREE_OFF) \cup {0}
      BY Layout, Zenon DEF FREE_OFF
    <3>2. 0 \notin Recs
      BY Layout, Zenon
    <3> QED  BY <3>1, <3>2, <1>3, Zenon DEF Local, Freeing
  <2>3. \A r \in At(FREE_OFF) : SameList(FREE_OFF) => r \in At(FREE_OFF)' /\ chain'[r] = chain[r]
    BY Zenon DEF SameList, At
  <2>4. List(FREE_OFF) \subseteq At(FREE_OFF) /\ Recs \subseteq Recs'
    BY Zenon DEF At, SameShapes
  <2>5. Freeing(q)
    BY <1>3, Zenon DEF Local
  <2> QED  BY <2>1, <2>2, <2>3, <2>4, <2>5, <1>1, SMT, Z3 DEF Freeing
<1>10. Owning(q)'
  <2>1. pc[q] = "d_head" => chain'[FREE_OFF] = chain[FREE_OFF]
    BY PcSets, Zenon DEF SameFor, SameList, At, Unlinking
  <2>2. Owns(q)' = Owns(q)
    BY <1>1, Zenon DEF Owns
  <2>3. Owns(q) => db[q].idxoff \in Recs /\ db[q].idxoff \in Recs'
    BY <1>3, Zenon DEF Local, Owning, SameShapes
  <2>4. pc[q] \in {"d_head", "u_link", "a_iunlock", "a_link"} => Owns(q)
    BY Zenon DEF Owns
  <2> QED  BY <2>1, <2>2, <2>3, <2>4, <1>1, <1>3, ZenonT(30) DEF Local, Owning, SameFor, KeyAt
<1>11. Appending(q)'
  BY <1>1, <1>3, Zenon DEF Local, Appending, SameFor, Adds
<1>12. Scanning(q)'
  BY <1>1, <1>3, Zenon DEF Local, Scanning, SameFor, KeyAt, IInv, Types, Alives
<1> QED  BY <1>4, <1>5, <1>6, <1>7, <1>8, <1>9, <1>10, <1>11, <1>12, Zenon DEF Local

-----------------------------------------------------------------------------
(* Steps that leave the files as they are *)

\* p alone moves, and keeps what it has.
Moves(p) ==
  /\ dead' = dead
  /\ \A x \in Procs : x # p => pc'[x] = pc[x] /\ op'[x] = op[x] /\ db'[x] = db[x]
  /\ \A l \in locks : l.p # p => l \in locks'

\* The ptrs that deletes under way will write are the same before and after a step
\* of another process.
LEMMA SavesSame ==
  ASSUME NEW p, Moves(p), pc[p] \notin Unlinking, pc'[p] \notin Unlinking
  PROVE  \A o : Saves(pc', db', o) = Saves(pc, db, o)
<1> TAKE o
<1>1. {q \in Procs : pc'[q] \in Unlinking /\ db'[q].ptroff = o}
        = {q \in Procs : pc[q] \in Unlinking /\ db[q].ptroff = o}
  BY Zenon DEF Moves
<1>2. \A q \in {x \in Procs : pc[x] \in Unlinking /\ db[x].ptroff = o} : db'[q] = db[q]
  BY Zenon DEF Moves
<1> QED  BY <1>1, <1>2, ZenonT(30) DEF Saves

\* A process ends.
LEMMA DieKeeps ==
  ASSUME IInv, NEW p \in Alives, Die(p), calls' \in 0 .. MaxCalls, fails' \in 0 .. MaxFails
  PROVE  IInv'
<1>1. /\ ptr' = ptr /\ idx' = idx /\ dat' = dat /\ pc' = pc /\ op' = op /\ db' = db
      /\ Alives' = Alives \ {p} /\ Recs' = Recs /\ chain' = chain
  BY Zenon DEF Die, files, Alives, Recs, chain
<1>2. \A l \in locks : l \in locks' <=> l.p # p
  BY Zenon DEF Die
<1>3. locks' \subseteq locks
  BY Zenon DEF Die
<1>4. Types'
  <2>1. locks' \subseteq [p : Alives', r : 0 .. DatFile, w : BOOLEAN]
    BY <1>1, <1>2, <1>3, Zenon DEF IInv, Types
  <2>2. dead' \subseteq Procs
    BY Zenon DEF Die, Alives, IInv, Types
  <2>3. DbType' = DbType
    BY <1>1, Zenon DEF DbType
  <2> QED  BY <2>1, <2>2, <2>3, <1>1, Zenon DEF IInv, Types
<1>5. Exclusive'
  BY <1>3, Zenon DEF IInv, Exclusive
<1>6. Apart' /\ Records' /\ Chains'
  <2>1. \A q \in Procs : Owns(q)' = Owns(q) /\ Adds(q)' = Adds(q)
    BY <1>1, Zenon DEF Owns, Adds
  <2>2. Alives' \subseteq Alives /\ Alives \subseteq Procs
    BY <1>1, Zenon DEF Alives
  <2>3. Apart'
    BY <2>1, <2>2, <1>1, Zenon DEF IInv, Apart
  <2>4. Records'
    BY <1>1, Zenon DEF IInv, Records
  <2>5. Chains'
    BY <1>1, Zenon DEF IInv, Chains
  <2> QED  BY <2>3, <2>4, <2>5, Zenon
<1>7. ASSUME NEW q \in Alives' PROVE Local(q)'
  <2>1. Local(q) /\ q # p
    BY <1>1, Zenon DEF IInv
  <2>2. \A r, w : Held(q, r, w) => Held(q, r, w)'
    BY <1>2, <2>1, Zenon DEF Held
  <2>3. chainoff(q)' = chainoff(q) /\ \A o : List(o)' = List(o)
    BY <1>1, Zenon DEF chainoff, List
  <2>4. /\ Locked(q) /\ Calling(q) /\ Reading(q) /\ Walking(q) /\ Storing(q)
        /\ Freeing(q) /\ Owning(q) /\ Appending(q) /\ Scanning(q)
    BY <2>1, Zenon DEF Local
  <2>5. Locked(q)'
    BY <2>4, <2>2, <2>3, <1>1, Zenon DEF Locked
  <2>6. Calling(q)'
    BY <2>4, <1>1, Zenon DEF Calling
  <2>7. Reading(q)'
    BY <2>4, <1>1, Zenon DEF Reading, Read, Shape
  <2>8. Walking(q)'
    BY <2>4, <2>3, <1>1, Zenon DEF Walking, KeyAt, At
  <2>9. Storing(q)'
    BY <2>4, <2>3, <1>1, Zenon DEF Storing, KeyAt
  <2>10. Freeing(q)'
    BY <2>4, <2>3, <1>1, Zenon DEF Freeing, At
  <2>11. Owning(q)'
    BY <2>4, <2>3, <1>1, Zenon DEF Owning, Owns, KeyAt
  <2>12. Appending(q)'
    BY <2>4, <1>1, Zenon DEF Appending, Adds
  <2>13. Scanning(q)'
    BY <2>4, <1>1, Zenon DEF Scanning, KeyAt, Die
  <2> QED  BY <2>5, <2>6, <2>7, <2>8, <2>9, <2>10, <2>11, <2>12, <2>13, Zenon DEF Local
<1> QED  BY <1>4, <1>5, <1>6, <1>7, Zenon DEF IInv

\* What a step that leaves the files alone does to the state, and to the locks.
MovesTo(p, v, e) ==
  UNCHANGED files /\ dead' = dead /\ pc' = [pc EXCEPT ![p] = v] /\ db' = [db EXCEPT ![p] = e]
KeepsOthers(p) ==
  /\ op' \in [Procs -> Requests \cup {NoCall, Nextrec}]
  /\ \A x \in Procs : x # p => op'[x] = op[x]
  /\ locks' \subseteq [p : Alives, r : 0 .. DatFile, w : BOOLEAN]
  /\ \A l \in locks : l.p # p => l \in locks'
  /\ calls' \in 0 .. MaxCalls /\ fails' \in 0 .. MaxFails

\* Such a step keeps the types.
LEMMA QuietTypes ==
  ASSUME IInv, NEW p \in Alives, NEW v \in Pcs, NEW d \in DbType, MovesTo(p, v, d), KeepsOthers(p)
  PROVE  Types' /\ Moves(p) /\ pc'[p] = v /\ db'[p] = d
<1>0. UNCHANGED files /\ dead' = dead /\ pc' = [pc EXCEPT ![p] = v] /\ db' = [db EXCEPT ![p] = d]
  BY Zenon DEF MovesTo
<1>1. pc \in [Procs -> Pcs] /\ db \in [Procs -> DbType] /\ p \in Procs
  BY Zenon DEF IInv, Types, Alives
<1>2. pc' \in [Procs -> Pcs] /\ db' \in [Procs -> DbType] /\ pc'[p] = v /\ db'[p] = d
  BY <1>0, <1>1, Zenon
<1>3. \A x \in Procs : x # p => pc'[x] = pc[x] /\ db'[x] = db[x]
  BY <1>0, <1>1, Zenon
<1>4. DbType' = DbType /\ Recs' = Recs /\ Alives' = Alives
  BY <1>0, Zenon DEF DbType, Recs, files, Alives
<1>5. Types'
  BY <1>0, <1>2, <1>4, Zenon DEF IInv, Types, files, KeepsOthers
<1> QED  BY <1>0, <1>2, <1>3, <1>5, Zenon DEF Moves, KeepsOthers

\* Such a step leaves the lists and the keys as they are.
LEMMA QuietSame ==
  ASSUME IInv, NEW p \in Alives, Moves(p), ptr' = ptr, idx' = idx,
         pc[p] \notin Unlinking, pc'[p] \notin Unlinking
  PROVE  /\ chain' = chain /\ Recs' = Recs /\ \A o : List(o)' = List(o) /\ At(o)' = At(o)
         /\ \A r : KeyAt(r)' = KeyAt(r)
<1>1. ptr' = ptr /\ idx' = idx /\ p \in Procs /\ Recs' = Recs
  BY Zenon DEF files, Alives, Recs
<1>2. chain' = chain
  BY <1>1, SavesSame, SMT, Z3 DEF chain, ChainOf
<1> QED  BY <1>1, <1>2, Zenon DEF List, KeyAt, At

\* writew_lock and readw_lock: a lock that is granted excludes what it should.
LEMMA LockTaken ==
  ASSUME IInv, NEW p \in Alives, NEW r \in 0 .. DatFile, NEW w \in BOOLEAN, Lock(p, r, w)
  PROVE  /\ Exclusive' /\ locks' \subseteq [p : Alives, r : 0 .. DatFile, w : BOOLEAN]
         /\ locks \subseteq locks' /\ Held(p, r, w)'
<1> DEFINE n == [p |-> p, r |-> r, w |-> w]
<1>1. locks' = locks \cup {n} /\ \A l \in locks : l.p # p /\ l.r = r => ~w /\ ~l.w
  BY Zenon DEF Lock, Take, MayLock
<1>2. locks \subseteq [p : Alives, r : 0 .. DatFile, w : BOOLEAN]
  BY Zenon DEF IInv, Types
<1>3. n \in [p : Alives, r : 0 .. DatFile, w : BOOLEAN] /\ n.p = p /\ n.r = r /\ n.w = w
  BY Zenon
<1> HIDE DEF n
<1>4. Exclusive'
  <2>1. \A l, m \in locks : l.p # m.p /\ l.r = m.r => ~l.w /\ ~m.w
    BY Zenon DEF IInv, Exclusive
  <2> QED  BY <1>1, <1>3, <2>1, Zenon DEF Exclusive
<1>5. Held(p, r, w)'
  BY <1>1, Zenon DEF Held, n
<1> QED  BY <1>1, <1>2, <1>3, <1>4, <1>5, Zenon

\* un_lock takes away the process's own lock of one region only.
LEMMA LockLeft ==
  ASSUME IInv, NEW p \in Alives, NEW r, un_lock(p, r)
  PROVE  /\ Exclusive' /\ locks' \subseteq [p : Alives, r : 0 .. DatFile, w : BOOLEAN]
         /\ \A l \in locks : l.p # p => l \in locks'
         /\ \A s, w : s # r /\ Held(p, s, w) => Held(p, s, w)'
<1>1. locks' \subseteq locks /\ \A l \in locks : l.p # p \/ l.r # r => l \in locks'
  BY Zenon DEF un_lock
<1>2. Exclusive'
  BY <1>1, Zenon DEF IInv, Exclusive
<1>3. \A s, w : s # r /\ Held(p, s, w) => Held(p, s, w)'
  <2> SUFFICES ASSUME NEW s, NEW w, s # r, [p |-> p, r |-> s, w |-> w] \in locks
               PROVE  [p |-> p, r |-> s, w |-> w] \in locks'
    BY Zenon DEF Held
  <2>1. [p |-> p, r |-> s, w |-> w].r = s
    BY Zenon
  <2> QED  BY <1>1, <2>1, Zenon
<1> QED  BY <1>1, <1>2, <1>3, Zenon DEF IInv, Types

\* Where each part of Local says something
ReadPcs == {"body", "f_body", "n_body", "f_take", "f_unlock", "u_dat", "u_idx", "n_dat"} \cup FoundPcs
WalkPcs == {"chain", "hdr", "body"} \cup Unlinking \cup FoundPcs
TakePcs == {"f_hdr", "f_body", "f_take"}
OwnPcs == {"d_head", "u_dat", "u_idx", "u_link", "a_iunlock", "a_link", "f_unlock"}
AddPcs == {"a_dat", "a_dunlock", "a_ilock", "a_iseek", "a_idx"}
NextPcs == {"idle", "n_lock"} \cup ScanPcs

\* Each part of Local speaks of certain places in the code only.
LEMMA Vacuous ==
  ASSUME NEW p, NEW v, pc'[p] = v
  PROVE  /\ v \notin ReadPcs => Reading(p)'
         /\ v \notin WalkPcs => Walking(p)'
         /\ v \notin AbsentPcs => Storing(p)'
         /\ v \notin TakePcs => Freeing(p)'
         /\ v \notin OwnPcs => Owning(p)' /\ ~Owns(p)'
         /\ v \notin AddPcs => Appending(p)' /\ ~Adds(p)'
         /\ v \notin NextPcs => Scanning(p)'
<1>1. v \notin ReadPcs => Reading(p)'
  BY Zenon DEF Reading, ReadPcs, FoundPcs
<1>2. v \notin WalkPcs => Walking(p)'
  BY Zenon DEF Walking, WalkPcs, FoundPcs, Unlinking
<1>3. v \notin AbsentPcs => Storing(p)'
  BY Zenon DEF Storing, AbsentPcs, StorePcs
<1>4. v \notin TakePcs => Freeing(p)'
  BY Zenon DEF Freeing, TakePcs
<1>5. v \notin OwnPcs => Owning(p)' /\ ~Owns(p)'
  BY Zenon DEF Owning, Owns, OwnPcs
<1>6. v \notin AddPcs => Appending(p)' /\ ~Adds(p)'
  BY Zenon DEF Appending, Adds, AddPcs
<1>7. v \notin NextPcs => Scanning(p)'
  BY Zenon DEF Scanning, NextPcs, ScanPcs
<1> QED  BY <1>1, <1>2, <1>3, <1>4, <1>5, <1>6, <1>7, Zenon

-----------------------------------------------------------------------------
(* The ptrs a process follows are those of its list *)

\* A process in a call has a key, and the lock region of its chain is none of the others.
LEMMA CallFacts ==
  ASSUME IInv, NEW p \in Alives, pc[p] \in ChainPcs \cup {"lock"}
  PROVE  /\ p \in Procs /\ op[p] \in Requests /\ chainoff(p) \in 1 .. nhash /\ chainoff(p) \in Heads
         /\ chainoff(p) # FREE_OFF /\ chainoff(p) \in 0 .. DatFile /\ chainoff(p) # IdxTail
         /\ chainoff(p) # DatFile
         /\ op[p].key \in Keys /\ op[p].key # Blank
         /\ op[p].name \in {"fetch", "delete", "insert", "replace", "store"}
<1>1. op[p] \in Requests /\ p \in Procs
  BY Zenon DEF IInv, Local, Calling, Alives
<1>2. chainoff(p) \in 1 .. nhash
  BY <1>1, RequestFacts, Zenon DEF chainoff
<1>3. chainoff(p) \in Heads /\ chainoff(p) # FREE_OFF /\ chainoff(p) \in 0 .. DatFile
      /\ chainoff(p) # IdxTail /\ chainoff(p) # DatFile
  BY <1>2, DbAssumption, SMT, Z3 DEF Heads, FREE_OFF, DatFile, IdxTail
<1>4. op[p].key \in Keys /\ op[p].key # Blank
  BY <1>1, RequestFacts, DbAssumption, Zenon
<1>5. op[p].name \in {"fetch", "delete", "insert", "replace", "store"}
  BY <1>1, RequestFacts, Zenon
<1> QED  BY <1>1, <1>2, <1>3, <1>4, <1>5, Zenon

\* When no delete is half way on a list its ptrs in the file are those of the list.
LEMMA Unbroken ==
  ASSUME IInv, NoneHalfDeleted, NEW o \in Heads,
         \A q \in Alives : pc[q] \in Unlinking => chainoff(q) # o
  PROVE  \A r \in At(o) : ptr[r] = chain[r]
<1>1. \A r \in At(o) : r \in DOMAIN ptr
  <2>1. DOMAIN ptr = Heads \cup Recs /\ List(o) \subseteq Recs
    BY Layout, Zenon
  <2> QED  BY <2>1, Zenon DEF At
<1>2. CASE \A q \in Procs : pc[q] \notin Unlinking
  <2>1. \A r \in DOMAIN ptr : chain[r] = ptr[r]
    BY <1>2, ChainIs, SMT, Z3 DEF chain
  <2> QED  BY <1>1, <2>1, Zenon
<1>3. CASE \E q \in Procs : pc[q] \in Unlinking
  <2>1. PICK q \in Procs : pc[q] \in Unlinking
    BY <1>3, Zenon
  <2>2. q \in Alives /\ \A x \in Procs : x # q => pc[x] \notin Unlinking
    BY <2>1, Unlinker, Zenon
  <2>3. \A r \in DOMAIN ptr : chain[r] = IF r = db[q].ptroff THEN db[q].save ELSE ptr[r]
    BY <2>1, <2>2, ChainIs, SMT, Z3 DEF chain
  <2>4. chainoff(q) # o
    BY <2>1, <2>2, Zenon
  <2>5. pc[q] \in ChainPcs
    BY <2>1, PcSets, Zenon
  <2>6. chainoff(q) \in Heads
    BY <2>2, <2>5, CallFacts, Zenon
  <2>7. At(chainoff(q)) \cap At(o) = {}
    BY <2>4, <2>6, Layout, Zenon
  <2>8. Walking(q)
    BY <2>2, Zenon DEF IInv, Local
  <2>9. db[q].ptroff \in At(chainoff(q))
    BY <2>1, <2>8, Zenon DEF Walking, Unlinking
  <2> QED  BY <1>1, <2>3, <2>7, <2>9, Zenon
<1> QED  BY <1>2, <1>3, Zenon

\* So are those of the chain a process has locked and is not deleting from,
LEMMA OwnChain ==
  ASSUME IInv, NoneHalfDeleted, NEW p \in Alives, pc[p] \in ChainPcs \ Unlinking
  PROVE  \A r \in At(chainoff(p)) : ptr[r] = chain[r]
<1>1. chainoff(p) \in Heads
  BY CallFacts, Zenon
<1>2. ASSUME NEW q \in Alives, pc[q] \in Unlinking PROVE chainoff(q) # chainoff(p)
  <2>1. pc[q] \in ChainPcs /\ pc[q] \in DeletePcs
    BY <1>2, PcSets, Zenon DEF DeletePcs, Unlinking
  <2>2. Calling(q)
    BY Zenon DEF IInv, Local
  <2>3. op[q].name # "fetch"
    BY <2>1, <2>2, Zenon DEF Calling
  <2>4. p # q
    BY <1>2, Zenon
  <2> QED  BY <2>1, <2>3, <2>4, Exclusion, Zenon
<1> QED  BY <1>1, <1>2, Unbroken, Zenon

\* and those of the free list: a delete writes its head in one step.
LEMMA FreeChain ==
  ASSUME IInv, NoneHalfDeleted
  PROVE  \A r \in At(FREE_OFF) : ptr[r] = chain[r]
<1>1. FREE_OFF \in Heads
  BY Layout, Zenon DEF FREE_OFF
<1>2. \A q \in Alives : pc[q] \in Unlinking => chainoff(q) # FREE_OFF
  BY PcSets, CallFacts, Zenon
<1> QED  BY <1>1, <1>2, Unbroken, Zenon

\* What a process that has the lock of its chain, or of the free list, can follow.
LEMMA WalkFacts ==
  ASSUME IInv, NEW o \in Heads, NEW a \in At(o), chain[a] # 0
  PROVE  chain[a] \in List(o) /\ chain[a] \in At(o) /\ chain[a] \in Recs
<1>1. List(o) \subseteq Recs /\ \A r \in At(o) : chain[r] \in List(o) \cup {0}
  BY Layout, Zenon
<1> QED  BY <1>1, Zenon DEF At

-----------------------------------------------------------------------------
(* _db_find_and_lock *)

\* The elements of a sequence are of its set.
LEMMA ElementOf ==
  ASSUME NEW S, NEW x \in Seq(S)
  PROVE  \A i \in DOMAIN x : x[i] \in S
BY SMT, Z3

\* The fields of DB, and of the records that they name, have their types.
LEMMA DbFacts ==
  ASSUME IInv, NEW p \in Alives
  PROVE  /\ db[p] \in DbType /\ pc[p] \in Pcs /\ op \in [Procs -> Requests \cup {NoCall, Nextrec}]
         /\ locks \subseteq [p : Alives, r : 0 .. DatFile, w : BOOLEAN] /\ p \in Procs
         /\ calls \in 0 .. MaxCalls /\ fails \in 0 .. MaxFails
         /\ Heads \cup Recs = 0 .. nhash + Len(idx) /\ Recs \subseteq Nat
         /\ \A r \in Recs : Shape(idx[Rec(r)]) \in Nat \X Nat \X Nat
         /\ \A r \in Recs : /\ Rec(r) \in DOMAIN idx /\ idx[Rec(r)].keylen \in Nat
                            /\ idx[Rec(r)].datoff \in Nat /\ idx[Rec(r)].datlen \in Nat
                            /\ idx[Rec(r)].key \in Keys \cup {Blank}
<1>1. /\ db[p] \in DbType /\ pc[p] \in Pcs /\ op \in [Procs -> Requests \cup {NoCall, Nextrec}]
      /\ locks \subseteq [p : Alives, r : 0 .. DatFile, w : BOOLEAN] /\ p \in Procs
      /\ calls \in 0 .. MaxCalls /\ fails \in 0 .. MaxFails
  BY Zenon DEF IInv, Types, Alives
<1>2. idx \in Seq([key : Keys \cup {Blank}, keylen : Nat, datoff : Nat, datlen : Nat])
  BY Zenon DEF IInv, Types
<1>3. Heads \cup Recs = 0 .. nhash + Len(idx) /\ \A r \in Recs : Rec(r) \in DOMAIN idx
  BY <1>2, PlaceFacts, Zenon DEF Recs
<1>4. Recs \subseteq Nat
  <2>1. nhash \in Nat /\ Len(idx) \in Nat
    BY <1>2, PlaceFacts, Zenon
  <2> QED  BY <2>1, SMT, Z3 DEF Recs, Places
<1>5. \A r \in Recs : idx[Rec(r)] \in [key : Keys \cup {Blank}, keylen : Nat, datoff : Nat, datlen : Nat]
  <2>1. \A i \in DOMAIN idx : idx[i] \in [key : Keys \cup {Blank}, keylen : Nat, datoff : Nat, datlen : Nat]
    BY <1>2, ElementOf, Zenon
  <2> QED  BY <1>3, <2>1, Zenon
<1>6. \A r \in Recs : Shape(idx[Rec(r)]) \in Nat \X Nat \X Nat
  BY <1>5, Zenon DEF Shape
<1>7. \A r \in Recs : /\ idx[Rec(r)].keylen \in Nat
                      /\ idx[Rec(r)].datoff \in Nat /\ idx[Rec(r)].datlen \in Nat
                      /\ idx[Rec(r)].key \in Keys \cup {Blank}
  BY <1>5, Zenon
<1> QED  BY <1>1, <1>3, <1>4, <1>6, <1>7, Zenon

\* Every ptr of a list is 0 or the offset of a record.
LEMMA Ptrs ==
  ASSUME IInv
  PROVE  /\ 0 \notin Recs /\ 0 \in Heads /\ FREE_OFF \in Heads
         /\ \A o \in Heads : \A r \in At(o) : r \in Heads \cup Recs
         /\ \A r \in Heads \cup Recs : ptr[r] \in {0} \cup Recs /\ chain[r] \in {0} \cup Recs
<1>1. /\ 0 \notin Recs /\ 0 \in Heads /\ \A o \in Heads : List(o) \subseteq Recs
  BY Layout, Zenon
<1>2. ptr \in [Heads \cup Recs -> {0} \cup Recs] /\ chain \in [Heads \cup Recs -> {0} \cup Recs]
  BY Layout, Zenon
<1> QED  BY <1>1, <1>2, Zenon DEF At, FREE_OFF

\* A step of p, in its call, that leaves the files alone: it goes on at v, with e
Quiet(p, v, e) == UNCHANGED files /\ Alive /\ Goto(p, v) /\ Set(p, e)

\* What a step that writes no file leaves, in one place.
LEMMA QuietFacts ==
  ASSUME IInv, NEW p \in Alives, NEW v \in Pcs \ Unlinking, NEW e \in DbType, Quiet(p, v, e),
         locks' \subseteq [p : Alives, r : 0 .. DatFile, w : BOOLEAN],
         \A l \in locks : l.p # p => l \in locks', pc[p] \notin Unlinking
  PROVE  /\ Types' /\ Moves(p) /\ pc'[p] = v /\ db'[p] = e /\ op' = op
         /\ ptr' = ptr /\ idx' = idx /\ dat' = dat /\ chainoff(p)' = chainoff(p)
         /\ chain' = chain /\ Recs' = Recs /\ \A o : List(o)' = List(o) /\ At(o)' = At(o)
         /\ \A r : KeyAt(r)' = KeyAt(r)
<1>1. /\ ptr' = ptr /\ idx' = idx /\ dat' = dat /\ op' = op /\ dead' = dead /\ calls' = calls
      /\ fails' = fails /\ pc' = [pc EXCEPT ![p] = v] /\ db' = [db EXCEPT ![p] = e] /\ UNCHANGED files
  BY Zenon DEF Quiet, Alive, Goto, Set, files
<1>2. /\ op' \in [Procs -> Requests \cup {NoCall, Nextrec}] /\ \A x \in Procs : x # p => op'[x] = op[x]
      /\ calls' \in 0 .. MaxCalls /\ fails' \in 0 .. MaxFails
  BY <1>1, DbFacts, Zenon
<1>3. Types' /\ Moves(p) /\ pc'[p] = v /\ db'[p] = e
  <2>1. v \in Pcs /\ MovesTo(p, v, e) /\ KeepsOthers(p)
    BY <1>1, <1>2, Zenon DEF MovesTo, KeepsOthers
  <2> QED  BY <2>1, QuietTypes, Zenon
<1>4. /\ chain' = chain /\ Recs' = Recs /\ \A o : List(o)' = List(o) /\ At(o)' = At(o)
      /\ \A r : KeyAt(r)' = KeyAt(r)
  BY <1>1, <1>3, QuietSame, Zenon
<1>5. chainoff(p)' = chainoff(p)
  BY <1>1, Zenon DEF chainoff
<1> QED  BY <1>1, <1>3, <1>4, <1>5, Zenon

\* ... and what there is to show of it
LEMMA QuietStep ==
  ASSUME IInv, NEW p \in Alives, NEW v \in Pcs \ Unlinking, Moves(p), UNCHANGED files, pc'[p] = v,
         pc[p] \notin Unlinking, Types', Exclusive', Locked(p)', Calling(p)',
         pc[p] \in {"d_free", "d_idx"} => v \in {"d_free", "d_idx"} /\ db'[p].idxoff = db[p].idxoff,
         v \in ReadPcs => Reading(p)', v \in WalkPcs => Walking(p)', v \in AbsentPcs => Storing(p)',
         v \in TakePcs => Freeing(p)',
         v \in OwnPcs => Owning(p)' /\ (Owns(p)' => Owns(p) /\ db'[p].idxoff = db[p].idxoff),
         v \in AddPcs => Appending(p)' /\ (Adds(p)' => Adds(p) /\ db'[p].datoff = db[p].datoff),
         v \in NextPcs => Scanning(p)'
  PROVE  IInv'
  \* A step that writes no file keeps the invariant when it keeps what is said of the
  \* process that takes it.
<1>QuietKeeps. ASSUME IInv, p \in Alives, Moves(p), UNCHANGED files,
             pc[p] \notin Unlinking, pc'[p] \notin Unlinking,
             Owns(p)' => Owns(p) /\ db'[p].idxoff = db[p].idxoff,
             Adds(p)' => Adds(p) /\ db'[p].datoff = db[p].datoff,
             pc[p] \in {"d_free", "d_idx"} => pc'[p] \in {"d_free", "d_idx"} /\ db'[p].idxoff = db[p].idxoff,
             Types', Exclusive', Local(p)'
      PROVE  IInv'
  <2> USE <1>QuietKeeps
  <2>1. ptr' = ptr /\ idx' = idx /\ dat' = dat /\ Alives' = Alives /\ p \in Procs /\ Recs' = Recs
    BY Zenon DEF files, Moves, Alives, Recs
  <2>2. chain' = chain
    BY <2>1, SavesSame, SMT, Z3 DEF chain, ChainOf
  <2>3. \A o : List(o)' = List(o) /\ SameList(o)
    BY <2>1, <2>2, Zenon DEF List, SameList, KeyAt
  <2>4. Chains'
    BY <2>1, <2>2, Zenon DEF IInv, Chains
  <2>5. Records'
    <3> SUFFICES ASSUME NEW i \in DOMAIN idx, NEW q \in Procs,
                        pc[q] \in {"d_free", "d_idx"}, db[q].idxoff = nhash + i
                 PROVE  pc'[q] \in {"d_free", "d_idx"} /\ db'[q].idxoff = nhash + i
      BY <2>1, Zenon DEF IInv, Records
    <3> QED  BY Zenon DEF Moves
  <2>6. Apart'
    <3> SUFFICES ASSUME NEW x \in Alives, NEW y \in Alives, x # y
                 PROVE  /\ Owns(x)' /\ Owns(y)' => db'[x].idxoff # db'[y].idxoff
                        /\ Adds(x)' /\ Adds(y)' => db'[x].datoff # db'[y].datoff
      BY <2>1, Zenon DEF Apart
    <3>1. \A z \in Alives : Owns(z)' => Owns(z) /\ db'[z].idxoff = db[z].idxoff
      BY Zenon DEF Moves, Owns, Alives
    <3>2. \A z \in Alives : Adds(z)' => Adds(z) /\ db'[z].datoff = db[z].datoff
      BY Zenon DEF Moves, Adds, Alives
    <3> QED  BY <3>1, <3>2, ZenonT(30) DEF IInv, Apart
  <2>7. ASSUME NEW q \in Alives, q # p PROVE Local(q)'
    <3>1. SameShapes
      BY <2>1, Zenon DEF SameShapes
    <3>2. SameFor(q)
      <4>1. Local(q)
        BY Zenon DEF IInv
      <4>2. Owns(q) => \A o \in Heads : db[q].idxoff \notin List(o)'
        BY <4>1, <2>3, Zenon DEF Local, Owning
      <4>3. Adds(q) => /\ db[q].datoff \in DOMAIN dat'
                       /\ \A j \in DOMAIN idx' : idx'[j].datoff # db[q].datoff
        BY <4>1, <2>1, Zenon DEF Local, Appending
      <4>4. pc[q] = "u_idx" => db[q].datoff \in DOMAIN dat'
        <5>1. pc[q] = "u_idx" => Read(q)
          BY <4>1, Zenon DEF Local, Reading
        <5>2. \A r \in Recs : Rec(r) \in DOMAIN idx
          BY PlaceFacts, Zenon DEF IInv, Types, Recs
        <5> QED  BY <5>1, <5>2, <2>1, Zenon DEF Read, IInv, Records
      <4> QED  BY <4>2, <4>3, <4>4, <2>1, <2>3, Zenon DEF SameFor
    <3>3. \A l \in locks : l.p = q => l \in locks'
      BY <2>7, Zenon DEF Moves
    <3> QED  BY <2>7, <3>1, <3>2, <3>3, OthersKeep, Zenon DEF Moves
  <2> QED  BY <2>1, <2>4, <2>5, <2>6, <2>7, Zenon DEF IInv
<1>1. /\ Reading(p)' /\ Walking(p)' /\ Storing(p)' /\ Freeing(p)' /\ Owning(p)' /\ Appending(p)'
      /\ Scanning(p)'
      /\ Owns(p)' => Owns(p) /\ db'[p].idxoff = db[p].idxoff
      /\ Adds(p)' => Adds(p) /\ db'[p].datoff = db[p].datoff
  BY Vacuous, Zenon
<1>2. Local(p)'
  BY <1>1, Zenon DEF Local
<1> QED  BY <1>1, <1>2, <1>QuietKeeps, Zenon

\* What there is to show of a step of p from pc[p] to v: that the locks and the call
\* allow v, and what is said of the process at v.
Holds(p, v) ==
  /\ v \in ChainPcs => pc[p] \in ChainPcs
  /\ v \in FreePcs => pc[p] \in FreePcs
  /\ v \in DatPcs => pc[p] \in DatPcs
  /\ v \in IdxPcs => pc[p] \in IdxPcs
  /\ v \notin ScanPcs

GoesOn(p, v) ==
  /\ v \in ChainPcs => pc[p] \in ChainPcs \cup {"lock"}
  /\ v \in DeletePcs => op[p].name # "fetch"
  /\ v \in StorePcs => op[p].name \in {"insert", "replace", "store"}
  /\ v \notin NextPcs \cup {"lock"}

Arrives(p, v, e) ==
  /\ v \in ReadPcs => Reading(p)'
  /\ v \in WalkPcs => Walking(p)'
  /\ v \in AbsentPcs => Storing(p)'
  /\ v \in TakePcs => Freeing(p)'
  /\ v \in OwnPcs => Owning(p)' /\ (Owns(p)' => Owns(p) /\ e.idxoff = db[p].idxoff)
  /\ v \in AddPcs => Appending(p)' /\ (Adds(p)' => Adds(p) /\ e.datoff = db[p].datoff)
  /\ pc[p] \in {"d_free", "d_idx"} => v \in {"d_free", "d_idx"} /\ e.idxoff = db[p].idxoff

\* With no lock taken or left
LEMMA PrivateFacts ==
  ASSUME IInv, NEW p \in Alives, NEW v \in Pcs \ Unlinking, NEW e \in DbType, Quiet(p, v, e),
         locks' = locks, pc[p] \notin Unlinking
  PROVE  /\ Types' /\ Moves(p) /\ pc'[p] = v /\ db'[p] = e /\ op' = op /\ Exclusive' /\ UNCHANGED files
         /\ ptr' = ptr /\ idx' = idx /\ dat' = dat /\ chainoff(p)' = chainoff(p)
         /\ chain' = chain /\ Recs' = Recs /\ \A o : List(o)' = List(o) /\ At(o)' = At(o)
         /\ \A r : KeyAt(r)' = KeyAt(r)
<1>1. /\ locks' \subseteq [p : Alives, r : 0 .. DatFile, w : BOOLEAN]
      /\ \A l \in locks : l.p # p => l \in locks'
  BY DbFacts, Zenon
<1>2. Exclusive' /\ UNCHANGED files
  BY Zenon DEF IInv, Exclusive, Quiet
<1> QED  BY <1>1, <1>2, QuietFacts, Zenon

\* A step in a call that writes no file keeps the invariant when it arrives where it may,
LEMMA CallStep ==
  ASSUME IInv, NEW p \in Alives, NEW v \in Pcs \ Unlinking, NEW e \in DbType, Quiet(p, v, e),
         locks' \subseteq [p : Alives, r : 0 .. DatFile, w : BOOLEAN],
         \A l \in locks : l.p # p => l \in locks', pc[p] \notin Unlinking,
         Exclusive', Locked(p)', GoesOn(p, v), Arrives(p, v, e)
  PROVE  IInv'
<1>1. Types' /\ Moves(p) /\ pc'[p] = v /\ db'[p] = e /\ op' = op
  BY QuietFacts, Zenon
<1>2. UNCHANGED files
  BY Zenon DEF Quiet
<1>3. Calling(p)'
  <2>1. Calling(p)
    BY Zenon DEF IInv, Local
  <2> QED  BY <1>1, <2>1, Zenon DEF Calling, GoesOn
<1>4. v \notin NextPcs
  BY Zenon DEF GoesOn
<1> QED  BY <1>1, <1>2, <1>3, <1>4, QuietStep, ZenonT(30) DEF Arrives

\* with no lock taken or left,
LEMMA PrivateStep ==
  ASSUME IInv, NEW p \in Alives, NEW v \in Pcs \ Unlinking, NEW e \in DbType, Quiet(p, v, e),
         locks' = locks, pc[p] \notin Unlinking, Holds(p, v), GoesOn(p, v), Arrives(p, v, e)
  PROVE  IInv'
<1>1. /\ Exclusive' /\ pc'[p] = v /\ op' = op /\ chainoff(p)' = chainoff(p)
  BY PrivateFacts, Zenon
<1>2. Locked(p)
  BY Zenon DEF IInv, Local
<1>3. Locked(p)'
  <2>1. \A r, w : Held(p, r, w)' = Held(p, r, w)
    BY Zenon DEF Held
  <2> QED  BY <1>1, <1>2, <2>1, Zenon DEF Locked, Holds
<1>4. /\ locks' \subseteq [p : Alives, r : 0 .. DatFile, w : BOOLEAN]
      /\ \A l \in locks : l.p # p => l \in locks'
  BY DbFacts, Zenon
<1> QED  BY <1>1, <1>3, <1>4, CallStep, Zenon

\* A lock is taken, or left, between pc[p] and v.
Takes(p, v, r, w) ==
  /\ v \in ChainPcs => pc[p] \in ChainPcs \/ (r = chainoff(p) /\ w = (op[p].name # "fetch"))
  /\ v \in FreePcs => pc[p] \in FreePcs \/ (r = FREE_OFF /\ w = TRUE)
  /\ v \in DatPcs => pc[p] \in DatPcs \/ (r = DatFile /\ w = TRUE)
  /\ v \in IdxPcs => pc[p] \in IdxPcs \/ (r = IdxTail /\ w = TRUE)
  /\ v \notin ScanPcs

Leaves(p, v, r) ==
  /\ v \in ChainPcs => pc[p] \in ChainPcs /\ r # chainoff(p)
  /\ v \in FreePcs => pc[p] \in FreePcs /\ r # FREE_OFF
  /\ v \in DatPcs => pc[p] \in DatPcs /\ r # DatFile
  /\ v \in IdxPcs => pc[p] \in IdxPcs /\ r # IdxTail
  /\ v \notin ScanPcs

\* A step that takes a lock, and writes no file,
LEMMA LockStep ==
  ASSUME IInv, NEW p \in Alives, NEW v \in Pcs \ Unlinking, NEW e \in DbType, Quiet(p, v, e),
         pc[p] \notin Unlinking, NEW r \in 0 .. DatFile, NEW w \in BOOLEAN, Lock(p, r, w),
         Takes(p, v, r, w), GoesOn(p, v), Arrives(p, v, e)
  PROVE  IInv'
<1>1. /\ Exclusive' /\ locks' \subseteq [p : Alives, r : 0 .. DatFile, w : BOOLEAN]
      /\ locks \subseteq locks' /\ Held(p, r, w)'
  BY LockTaken, Zenon
<1>2. \A l \in locks : l.p # p => l \in locks'
  BY <1>1, Zenon
<1>3. pc'[p] = v /\ op' = op /\ chainoff(p)' = chainoff(p)
  BY <1>1, <1>2, QuietFacts, Zenon
<1>4. Locked(p)'
  <2>1. Locked(p)
    BY Zenon DEF IInv, Local
  <2>2. \A s, x : Held(p, s, x) => Held(p, s, x)'
    BY <1>1, Zenon DEF Held
  <2>3. v \in ChainPcs => Held(p, chainoff(p), op[p].name # "fetch")'
    BY <1>1, <1>3, <2>1, <2>2, Zenon DEF Locked, Takes, Held
  <2>4. v \in FreePcs => Held(p, FREE_OFF, TRUE)'
    BY <1>1, <1>3, <2>1, <2>2, Zenon DEF Locked, Takes, Held
  <2>5. v \in DatPcs => Held(p, DatFile, TRUE)'
    BY <1>1, <1>3, <2>1, <2>2, Zenon DEF Locked, Takes, Held
  <2>6. v \in IdxPcs => Held(p, IdxTail, TRUE)'
    BY <1>1, <1>3, <2>1, <2>2, Zenon DEF Locked, Takes, Held
  <2> QED  BY <1>3, <2>3, <2>4, <2>5, <2>6, Zenon DEF Locked, Takes
<1> QED  BY <1>1, <1>2, <1>4, CallStep, Zenon

\* and one that leaves a lock.
LEMMA UnlockStep ==
  ASSUME IInv, NEW p \in Alives, NEW v \in Pcs \ Unlinking, NEW e \in DbType, Quiet(p, v, e),
         pc[p] \notin Unlinking, NEW r, un_lock(p, r), Leaves(p, v, r), GoesOn(p, v), Arrives(p, v, e)
  PROVE  IInv'
<1>1. /\ Exclusive' /\ locks' \subseteq [p : Alives, r : 0 .. DatFile, w : BOOLEAN]
      /\ \A l \in locks : l.p # p => l \in locks'
      /\ \A s, w : s # r /\ Held(p, s, w) => Held(p, s, w)'
  BY LockLeft, Zenon
<1>2. pc'[p] = v /\ op' = op /\ chainoff(p)' = chainoff(p)
  BY <1>1, QuietFacts, Zenon
<1>3. Locked(p)'
  <2>1. Locked(p)
    BY Zenon DEF IInv, Local
  <2> QED  BY <1>1, <1>2, <2>1, Zenon DEF Locked, Leaves
<1> QED  BY <1>1, <1>3, CallStep, Zenon

\* A step that does not change DB sets it to what it was.
LEMMA SameDb ==
  ASSUME IInv, NEW p \in Alives, db' = db
  PROVE  db[p] \in DbType /\ Set(p, db[p])
<1>1. db \in [Procs -> DbType] /\ p \in Procs
  BY Zenon DEF IInv, Types, Alives
<1>2. db = [db EXCEPT ![p] = db[p]]
  BY <1>1, Zenon
<1> QED  BY <1>1, <1>2, Zenon DEF Set

\* The free list, the end of the index file and the data file are regions of their own.
LEMMA RegionFacts ==
  FREE_OFF \in 0 .. DatFile /\ IdxTail \in 0 .. DatFile /\ DatFile \in 0 .. DatFile
  /\ FREE_OFF # IdxTail /\ FREE_OFF # DatFile /\ IdxTail # DatFile
BY DbAssumption, SMT, Z3 DEF FREE_OFF, IdxTail, DatFile

\* _db_find_and_lock and db_fetch keep the invariant.
LEMMA FindKeeps ==
  ASSUME IInv, NoneHalfDeleted, NEW p \in Procs, FindAndLock(p) \/ Fetch(p)
  PROVE  IInv'
  \* The first record behind a place, and the ones behind that.
<1>ReachFirst. ASSUME NEW f, NEW R, NEW a, 0 \notin R, Closed(f, R, a)
      PROVE  /\ f[a] = 0 => Reach(f, R, a) = {}
             /\ f[a] # 0 => /\ f[a] \in Reach(f, R, a)
                            /\ Reach(f, R, a) \subseteq {f[a]} \cup Reach(f, R, f[a])
  <2> USE <1>ReachFirst
  <2>1. CASE f[a] = 0
    <3>1. Closed(f, {}, a)
      BY <2>1, Zenon DEF Closed
    <3> QED  BY <3>1, <2>1, ReachClosed, Zenon
  <2>2. CASE f[a] # 0
    <3> DEFINE x == f[a]
    <3>1. x \in R /\ x \in Reach(f, R, a) /\ Closed(f, R, x)
      BY <2>2, ReachClosed, Zenon DEF Closed
    <3>2. Closed(f, Reach(f, R, x), x) /\ Reach(f, R, x) \subseteq R
      BY <3>1, ReachClosed, Zenon
    <3>3. Closed(f, {x} \cup Reach(f, R, x), a)
      BY <3>2, Zenon DEF Closed
    <3>4. {x} \cup Reach(f, R, x) \in SUBSET R
      BY <3>1, <3>2, Zenon
    <3> QED  BY <3>1, <3>3, <3>4, <2>2, ReachClosed, Zenon
  <2> QED  BY <2>1, <2>2, Zenon
  \* _db_find_and_lock has come to the end of the chain: the key is not on it.
<1>NotFoundKeeps. ASSUME IInv, NoneHalfDeleted, p \in Alives, pc[p] \in {"chain", "body"}, Private,
             NEW d \in DbType, NotFound(p, d), \A r \in List(chainoff(p)) : KeyAt(r) # op[p].key
      PROVE  IInv'
  <2> USE <1>NotFoundKeeps
  <2>1. /\ pc[p] \in ChainPcs /\ pc[p] \notin Unlinking
        /\ op[p].name \in {"fetch", "delete", "insert", "replace", "store"}
    <3>1. pc[p] \in ChainPcs /\ pc[p] \notin Unlinking
      BY PcSets, Zenon DEF Unlinking
    <3> QED  BY <3>1, CallFacts, Zenon
  <2>2. ASSUME NEW v \in {"unlock", "ptr"}, NEW x \in {NULL, "-1", "0"},
               Goto(p, v), Set(p, [d EXCEPT !.res = x]), v = "ptr" => op[p].name \in {"insert", "store"}
        PROVE  IInv'
    <3> DEFINE e == [d EXCEPT !.res = x]
    <3>1. e \in DbType
      BY Zenon DEF DbType
    <3>2. Quiet(p, v, e) /\ locks' = locks
      BY <2>2, Zenon DEF Quiet, Private
    <3> HIDE DEF e
    <3>3. /\ v \in Pcs \ Unlinking /\ v \notin ScanPcs /\ v \notin FreePcs /\ v \notin DatPcs /\ v \notin IdxPcs
          /\ v \notin NextPcs \cup {"lock"} /\ v \notin DeletePcs /\ v \notin ReadPcs /\ v \notin WalkPcs
          /\ v \notin TakePcs /\ v \notin OwnPcs /\ v \notin AddPcs
      BY <2>2, Zenon DEF Pcs, Unlinking, ChainPcs, FreePcs, DatPcs, IdxPcs, NextPcs, ScanPcs, DeletePcs, ReadPcs,
           WalkPcs, FoundPcs, TakePcs, OwnPcs, AddPcs
    <3>4. Holds(p, v) /\ GoesOn(p, v)
      <4>1. v \in StorePcs => op[p].name \in {"insert", "replace", "store"}
        BY <2>2, Zenon DEF StorePcs
      <4> QED  BY <2>1, <3>3, <4>1, Zenon DEF GoesOn, Holds
    <3>5. Storing(p)'
      <4>0. /\ pc'[p] = v /\ op' = op /\ chainoff(p)' = chainoff(p) /\ \A o : List(o)' = List(o)
            /\ \A r : KeyAt(r)' = KeyAt(r)
        BY <3>1, <3>2, <3>3, <2>1, PrivateFacts, Zenon
      <4>1. \A r \in List(chainoff(p))' : KeyAt(r)' # op'[p].key
        BY <4>0, Zenon
      <4>2. pc'[p] \notin StorePcs \ {"r_dat", "ptr", "reptr"}
        BY <4>0, <2>2, Zenon DEF StorePcs
      <4> QED  BY <4>1, <4>2, Zenon DEF Storing
    <3>6. Arrives(p, v, e)
      <4>1. pc[p] \notin {"d_free", "d_idx"}
        BY Zenon
      <4> QED  BY <3>3, <3>5, <4>1, Zenon DEF Arrives
    <3> QED  BY <2>1, <3>1, <3>2, <3>3, <3>4, <3>6, PrivateStep, Zenon
  <2>3. CASE op[p].name = "fetch"
    BY <2>2, <2>3, Zenon DEF NotFound
  <2>4. CASE op[p].name \in {"delete", "replace"}
    BY <2>2, <2>4, Zenon DEF NotFound
  <2>5. CASE op[p].name \in {"insert", "store"}
    BY <2>2, <2>5, Zenon DEF NotFound
  <2> QED  BY <2>1, <2>3, <2>4, <2>5, Zenon
  \* _db_find_and_lock goes on to the next record, or to the end.
<1>WalkKeeps. ASSUME IInv, NoneHalfDeleted, p \in Alives, pc[p] \in {"chain", "body"}, Private,
             NEW d \in DbType, Walk(p, d), d.ptroff \in At(chainoff(p)), d.ptr = chain[d.ptroff],
             \A r \in List(chainoff(p)) : KeyAt(r) = op[p].key => r \in Reach(chain, Recs, d.ptroff)
      PROVE  IInv'
  <2> USE <1>WalkKeeps
  <2> DEFINE c == chainoff(p)
  <2>0. pc[p] \in ChainPcs /\ pc[p] \notin Unlinking /\ pc[p] \notin {"d_free", "d_idx"}
    BY PcSets, Zenon DEF Unlinking
  <2>1. c \in Heads
    BY <2>0, CallFacts, Zenon
  <2>2. CASE d.ptr = 0
    <3>1. Closed(chain, Recs, c) /\ 0 \notin Recs
      BY <2>1, Layout, Zenon
    <3>2. Closed(chain, Recs, d.ptroff)
      BY <3>1, ReachBehind, Zenon DEF At, List
    <3>3. Reach(chain, Recs, d.ptroff) = {}
      BY <3>1, <3>2, <2>2, <1>ReachFirst, Zenon
    <3>4. \A r \in List(chainoff(p)) : KeyAt(r) # op[p].key
      BY <3>3, Zenon
    <3>5. NotFound(p, d)
      BY <2>2, Zenon DEF Walk
    <3> QED  BY <3>4, <3>5, <1>NotFoundKeeps, Zenon
  <2>3. CASE d.ptr # 0
    <3>1. Quiet(p, "hdr", d) /\ locks' = locks
      BY <2>3, Zenon DEF Walk, Quiet, Private
    <3>2. /\ "hdr" \in Pcs \ Unlinking /\ "hdr" \notin ScanPcs /\ "hdr" \notin FreePcs /\ "hdr" \notin DatPcs
          /\ "hdr" \notin IdxPcs /\ "hdr" \notin NextPcs \cup {"lock"} /\ "hdr" \notin DeletePcs
          /\ "hdr" \notin ReadPcs /\ "hdr" \notin AbsentPcs /\ "hdr" \notin StorePcs
          /\ "hdr" \notin TakePcs /\ "hdr" \notin OwnPcs /\ "hdr" \notin AddPcs
      BY Zenon DEF Pcs, Unlinking, FreePcs, DatPcs, IdxPcs, NextPcs, ScanPcs, DeletePcs, ReadPcs,
           FoundPcs, TakePcs, OwnPcs, AddPcs, AbsentPcs, StorePcs
    <3>3. Walking(p)'
      <4>1. d.ptr \in Recs
        BY <2>1, <2>3, WalkFacts, ZenonT(30)
      <4>2. /\ pc'[p] = "hdr" /\ db'[p] = d /\ op' = op /\ chainoff(p)' = chainoff(p) /\ chain' = chain
            /\ Recs' = Recs /\ (\A o : List(o)' = List(o) /\ At(o)' = At(o)) /\ \A r : KeyAt(r)' = KeyAt(r)
        BY <3>1, <3>2, <2>0, PrivateFacts, Zenon
      <4>3. d.ptroff \in At(chainoff(p))' /\ d.ptr \in Recs' /\ chain'[d.ptroff] = d.ptr
        BY <4>1, <4>2, Zenon
      <4>4. \A r \in List(chainoff(p))' : KeyAt(r)' = op'[p].key => r \in Reach(chain', Recs', d.ptroff)
        BY <4>2, Zenon
      <4> QED  BY <4>2, <4>3, <4>4, Zenon DEF Walking, FoundPcs
    <3>4. Holds(p, "hdr") /\ GoesOn(p, "hdr")
      BY <2>0, <3>2, ZenonT(30) DEF GoesOn, Holds
    <3>5. Arrives(p, "hdr", d)
      BY <2>0, <3>2, <3>3, Zenon DEF Arrives
    <3> QED  BY <2>0, <3>1, <3>2, <3>4, <3>5, PrivateStep, Zenon
  <2> QED  BY <2>2, <2>3, Zenon
  \* _db_readidx reads the chain ptr and the length of the record ...
<1>HdrStep. ASSUME IInv, NoneHalfDeleted, p \in Alives, pc[p] = "hdr", Private, Goto(p, "body"),
             Set(p, ReadHeader(db[p], db[p].ptr))
      PROVE  IInv'
  <2> USE <1>HdrStep
  <2> DEFINE d == db[p]  x == d.ptr  e == ReadHeader(d, x)
  <2>1. pc[p] \in ChainPcs /\ pc[p] \notin Unlinking
    BY PcSets, Zenon DEF Unlinking
  <2>2. chainoff(p) \in Heads /\ \A r \in At(chainoff(p)) : ptr[r] = chain[r]
    BY <2>1, CallFacts, OwnChain, ZenonT(30)
  <2>3. /\ d.ptroff \in At(chainoff(p)) /\ x \in Recs /\ chain[d.ptroff] = x
        /\ \A r \in List(chainoff(p)) : KeyAt(r) = op[p].key => r \in Reach(chain, Recs, d.ptroff)
    BY Zenon DEF IInv, Local, Walking
  <2>4. x # 0
    BY <2>3, Ptrs, Zenon
  <2>5. x \in At(chainoff(p)) /\ ptr[x] = chain[x] /\ ptr[x] \in {0} \cup Recs
    <3>1. x \in At(chainoff(p))
      BY <2>2, <2>3, <2>4, WalkFacts, Zenon
    <3>2. ptr[x] \in {0} \cup Recs
      BY <2>3, Ptrs, Zenon
    <3> QED  BY <2>2, <3>1, <3>2, Zenon
  <2>6. /\ e \in DbType /\ e.idxoff = x /\ e.ptrval = ptr[x] /\ e.idxlen = Shape(idx[Rec(x)])
        /\ e.ptr = x /\ e.ptroff = d.ptroff
    <3>1. d \in DbType /\ x \in Nat /\ Shape(idx[Rec(x)]) \in Nat \X Nat \X Nat
      BY <2>3, DbFacts, Zenon
    <3> QED  BY <2>5, <3>1, Zenon DEF ReadHeader, DbType
  <2>7. Quiet(p, "body", e) /\ locks' = locks
    BY Zenon DEF Quiet, Private
  <2> HIDE DEF e
  <2>8. Holds(p, "body") /\ GoesOn(p, "body") /\ "body" \in Pcs \ Unlinking
    BY Zenon DEF Holds, GoesOn, Pcs, Unlinking, ChainPcs, FreePcs, DatPcs, IdxPcs, NextPcs, ScanPcs,
           DeletePcs, StorePcs
  <2>9. Arrives(p, "body", e)
    <3>1. /\ pc'[p] = "body" /\ db'[p] = e /\ op' = op /\ idx' = idx /\ chainoff(p)' = chainoff(p)
          /\ chain' = chain /\ Recs' = Recs /\ (\A o : List(o)' = List(o) /\ At(o)' = At(o))
          /\ \A r : KeyAt(r)' = KeyAt(r)
      BY <2>1, <2>6, <2>7, <2>8, PrivateFacts, Zenon
    <3>2. Reading(p)'
      BY <2>3, <2>6, <3>1, Zenon DEF Reading, Shape, FoundPcs
    <3>3. Walking(p)'
      <4>1. e.ptroff \in At(chainoff(p))' /\ e.ptr \in Recs' /\ chain'[e.ptroff] = e.ptr
        BY <2>3, <2>6, <3>1, Zenon
      <4>2. \A r \in List(chainoff(p))' : KeyAt(r)' = op'[p].key => r \in Reach(chain', Recs', e.ptroff)
        BY <2>3, <2>6, <3>1, Zenon
      <4>3. e.idxoff = e.ptr /\ chain'[e.ptroff] = e.idxoff /\ e.ptrval = chain'[e.idxoff]
        BY <2>3, <2>5, <2>6, <3>1, Zenon
      <4> QED  BY <3>1, <4>1, <4>2, <4>3, Zenon DEF Walking, FoundPcs
    <3> QED  BY <3>2, <3>3, Zenon DEF Arrives, Unlinking, ReadPcs, WalkPcs, FoundPcs, AbsentPcs, StorePcs,
                             TakePcs, OwnPcs, AddPcs
  <2> QED  BY <2>1, <2>6, <2>7, <2>8, <2>9, PrivateStep, Zenon
  \* _db_find_and_lock reads the head of the chain.
<1>ChainStep. ASSUME IInv, NoneHalfDeleted, p \in Alives, pc[p] = "chain", Private,
             Walk(p, [db[p] EXCEPT !.ptr = ptr[db[p].ptroff]])
      PROVE  IInv'
  <2> USE <1>ChainStep
  <2> DEFINE d == db[p]  c == chainoff(p)  e == [d EXCEPT !.ptr = ptr[d.ptroff]]
  <2>1. pc[p] \in ChainPcs /\ pc[p] \notin Unlinking
    BY PcSets, Zenon DEF Unlinking
  <2>2. c \in Heads /\ \A r \in At(c) : ptr[r] = chain[r]
    BY <2>1, CallFacts, OwnChain, Zenon
  <2>3. d.ptroff = c
    BY Zenon DEF IInv, Local, Walking
  <2>4. ptr[c] = chain[c] /\ ptr[c] \in {0} \cup Recs /\ c \in At(c)
    <3>1. c \in At(c)
      BY Zenon DEF At
    <3> QED  BY <2>2, <3>1, Ptrs, Zenon
  <2>5. e \in DbType /\ e.ptroff = c /\ e.ptr = ptr[c]
    <3>1. d \in DbType
      BY DbFacts, Zenon
    <3> QED  BY <2>3, <2>4, <3>1, Zenon DEF DbType
  <2>6. Walk(p, e)
    BY Zenon
  <2> HIDE DEF e
  <2>7. e.ptroff \in At(c) /\ e.ptr = chain[e.ptroff]
    BY <2>4, <2>5, Zenon
  <2>8. \A r \in List(c) : KeyAt(r) = op[p].key => r \in Reach(chain, Recs, e.ptroff)
    BY <2>5, Zenon DEF List
  <2> QED  BY <2>5, <2>6, <2>7, <2>8, <1>WalkKeeps, Zenon
  \* _db_readidx has read a whole record of the chain, at the place it has come to.
<1>BodyFacts. ASSUME IInv, NoneHalfDeleted, p \in Alives, pc[p] = "body", NEW e, e = ReadRecord(db[p])
      PROVE  LET d == db[p]  x == d.ptr  c == chainoff(p) IN
             /\ c \in Heads /\ d.ptroff \in At(c) /\ x \in Recs /\ chain[d.ptroff] = x /\ d.idxoff = x
             /\ d.ptrval = chain[x] /\ x \in List(c) /\ x \in At(c)
             /\ \A r \in List(c) : KeyAt(r) = op[p].key => r \in Reach(chain, Recs, d.ptroff)
             /\ e \in DbType /\ e.key = KeyAt(x) /\ e.keylen = idx[Rec(x)].keylen
             /\ e.datoff = idx[Rec(x)].datoff /\ e.datlen = idx[Rec(x)].datlen /\ e.idxoff = x
             /\ e.ptroff = d.ptroff /\ e.ptr = x /\ e.ptrval = chain[x]
  <2> USE <1>BodyFacts
  <2> DEFINE d == db[p]  x == d.ptr  c == chainoff(p)
  <2>1. pc[p] \in ChainPcs
    BY PcSets, Zenon
  <2>2. c \in Heads
    BY <2>1, CallFacts, Zenon
  <2>3. /\ d.ptroff \in At(c) /\ x \in Recs /\ chain[d.ptroff] = x
        /\ \A r \in List(c) : KeyAt(r) = op[p].key => r \in Reach(chain, Recs, d.ptroff)
        /\ d.idxoff = x /\ d.ptrval = chain[x]
    <3>1. Walking(p)
      BY Zenon DEF IInv, Local
    <3> QED  BY <3>1, Zenon DEF Walking
  <2>4. x # 0
    BY <2>3, Ptrs, Zenon
  <2>5. x \in List(c) /\ x \in At(c)
    BY <2>2, <2>3, <2>4, WalkFacts, Zenon
  <2>6. /\ e \in DbType /\ e.key = KeyAt(x) /\ e.keylen = idx[Rec(x)].keylen
        /\ e.datoff = idx[Rec(x)].datoff /\ e.datlen = idx[Rec(x)].datlen /\ e.idxoff = d.idxoff
        /\ e.ptroff = d.ptroff /\ e.ptr = d.ptr /\ e.ptrval = d.ptrval
    <3>1. /\ d \in DbType /\ idx[Rec(x)].key \in Keys \cup {Blank, NULL} /\ idx[Rec(x)].keylen \in Nat
          /\ idx[Rec(x)].datoff \in Nat /\ idx[Rec(x)].datlen \in Nat
      BY <2>3, DbFacts, Zenon
    <3>2. e = [d EXCEPT !.key = idx[Rec(x)].key, !.keylen = idx[Rec(x)].keylen,
                        !.datoff = idx[Rec(x)].datoff, !.datlen = idx[Rec(x)].datlen]
      BY <2>3, Zenon DEF ReadRecord
    <3> QED  BY <3>1, <3>2, ZenonT(30) DEF KeyAt, DbType
  <2> QED  BY <2>2, <2>3, <2>5, <2>6, Zenon
  \* The record read has the key: the call goes on with it.
<1>FoundStep. ASSUME IInv, NoneHalfDeleted, p \in Alives, pc[p] = "body", ReadRecord(db[p]).key = op[p].key,
             Private, NEW x \in {"0", db[p].res}, Set(p, [ReadRecord(db[p]) EXCEPT !.res = x]),
             NEW v \in {"getdat", "r_dat", "d_lock"}, Goto(p, v),
             v = "d_lock" => op[p].name # "fetch",
             v = "r_dat" => op[p].name \in {"insert", "replace", "store"}
      PROVE  IInv'
  <2> USE <1>FoundStep
  <2> DEFINE d == db[p]  b == ReadRecord(d)  e == [b EXCEPT !.res = x]  c == chainoff(p)
  <2>1. /\ d.ptroff \in At(c) /\ d.ptr \in Recs /\ chain[d.ptroff] = d.ptr
        /\ b \in DbType /\ b.key = KeyAt(d.ptr) /\ b.keylen = idx[Rec(d.ptr)].keylen
        /\ b.datoff = idx[Rec(d.ptr)].datoff /\ b.datlen = idx[Rec(d.ptr)].datlen /\ b.idxoff = d.ptr
        /\ b.ptroff = d.ptroff /\ b.ptr = d.ptr /\ b.ptrval = chain[d.ptr]
    BY <1>BodyFacts, Zenon
  <2>2. x \in AllData \cup {Blank, NULL, "0", "1", "-1"}
    <3>1. d \in DbType
      BY DbFacts, Zenon
    <3> QED  BY <3>1, Zenon DEF DbType
  <2>4. Quiet(p, v, e) /\ locks' = locks
    BY Zenon DEF Quiet, Private
  <2> HIDE DEF b
  <2>3. /\ e \in DbType /\ e.keylen = b.keylen /\ e.datoff = b.datoff /\ e.datlen = b.datlen
        /\ e.idxoff = b.idxoff /\ e.ptroff = b.ptroff /\ e.ptrval = b.ptrval
    BY <2>1, <2>2, ZenonT(30) DEF DbType
  <2> HIDE DEF e
  <2>5. Holds(p, v) /\ GoesOn(p, v) /\ v \in Pcs \ Unlinking /\ pc[p] \notin Unlinking
    BY ZenonT(30) DEF Holds, GoesOn, Pcs, Unlinking, ChainPcs, FreePcs, DatPcs, IdxPcs, NextPcs, ScanPcs,
           DeletePcs, StorePcs
  <2>6. Arrives(p, v, e)
    <3>1. /\ pc'[p] = v /\ db'[p] = e /\ op' = op /\ idx' = idx /\ chainoff(p)' = chainoff(p)
          /\ chain' = chain /\ Recs' = Recs /\ (\A o : List(o)' = List(o) /\ At(o)' = At(o))
          /\ \A r : KeyAt(r)' = KeyAt(r)
      BY <2>3, <2>4, <2>5, PrivateFacts, Zenon
    <3>2. Reading(p)'
      <4>1. Read(p)'
        BY <2>1, <2>3, <3>1, Zenon DEF Read
      <4> QED  BY <3>1, <4>1, Zenon DEF Reading
    <3>3. Walking(p)'
      <4>1. /\ e.ptroff \in At(chainoff(p))' /\ chain'[e.ptroff] = e.idxoff /\ e.ptrval = chain'[e.idxoff]
            /\ idx'[Rec(e.idxoff)].key = op'[p].key
        BY <2>1, <2>3, <3>1, Zenon DEF b, KeyAt
      <4> QED  BY <3>1, <4>1, Zenon DEF Walking, FoundPcs, KeyAt
    <3> QED  BY <3>2, <3>3, Zenon DEF Arrives, Unlinking, ReadPcs, WalkPcs, FoundPcs, AbsentPcs, StorePcs,
                             TakePcs, OwnPcs, AddPcs
  <2> QED  BY <2>3, <2>4, <2>5, <2>6, PrivateStep, Zenon
  \* The call is over: nothing but the chain's lock is left.
<1>DoneStep. ASSUME IInv, p \in Alives, pc[p] \in {"body", "getdat"}, NEW e \in DbType,
             Private, Set(p, e), Goto(p, "unlock")
      PROVE  IInv'
  <2> USE <1>DoneStep
  <2>1. Quiet(p, "unlock", e) /\ locks' = locks
    BY Zenon DEF Quiet, Private
  <2>2. Holds(p, "unlock") /\ GoesOn(p, "unlock") /\ "unlock" \in Pcs \ Unlinking /\ pc[p] \notin Unlinking
    BY Zenon DEF Holds, GoesOn, Pcs, Unlinking, ChainPcs, FreePcs, DatPcs, IdxPcs, NextPcs, ScanPcs,
           DeletePcs, StorePcs
  <2>3. Arrives(p, "unlock", e)
    BY Zenon DEF Arrives, Unlinking, ReadPcs, WalkPcs, FoundPcs, AbsentPcs, StorePcs, TakePcs, OwnPcs, AddPcs
  <2> QED  BY <2>1, <2>2, <2>3, PrivateStep, Zenon
  \* ... and then the record itself, which is the one or leads to the next.
<1>BodyStep. ASSUME IInv, NoneHalfDeleted, p \in Alives, pc[p] = "body", Private, NEW d, d = ReadRecord(db[p]),
             IF d.key = op[p].key THEN Found(p, d) ELSE Walk(p, [d EXCEPT !.ptroff = d.ptr, !.ptr = d.ptrval])
      PROVE  IInv'
  <2> USE <1>BodyStep
  <2> DEFINE c == chainoff(p)  x == db[p].ptr
  <2>1. /\ c \in Heads /\ db[p].ptroff \in At(c) /\ x \in Recs /\ chain[db[p].ptroff] = x
        /\ x \in At(c) /\ d \in DbType /\ d.key = KeyAt(x) /\ d.ptr = x /\ d.ptrval = chain[x]
        /\ \A r \in List(c) : KeyAt(r) = op[p].key => r \in Reach(chain, Recs, db[p].ptroff)
    BY <1>BodyFacts, Zenon
  <2>0. d \in DbType
    BY <2>1, Zenon
  <2>2. op[p].name \in {"fetch", "delete", "insert", "replace", "store"}
    BY PcSets, CallFacts, Zenon
  <2>3. CASE d.key = op[p].key
    <3>1. Found(p, d)
      BY <2>3, Zenon
    <3>2. CASE op[p].name = "insert"
      <4>1. Goto(p, "unlock") /\ Set(p, [d EXCEPT !.res = "1"])
        BY <3>1, <3>2, Zenon DEF Found
      <4>2. [d EXCEPT !.res = "1"] \in DbType
        BY <2>0, Zenon DEF DbType
      <4> QED  BY <4>1, <4>2, <1>DoneStep, Zenon
    <3>3. CASE op[p].name = "fetch"
      <4>1. Goto(p, "getdat") /\ Set(p, d)
        BY <3>1, <3>3, Zenon DEF Found
      <4>2. d = [ReadRecord(db[p]) EXCEPT !.res = db[p].res]
        <5>1. db[p] \in DbType
          BY DbFacts, Zenon
        <5> QED  BY <5>1, Zenon DEF ReadRecord, DbType
      <4> QED  BY <2>3, <3>3, <4>1, <4>2, <1>FoundStep, Zenon
    <3>4. CASE op[p].name \in {"delete", "replace", "store"}
      <4>1. /\ Goto(p, IF op[p].name # "delete" /\ DatLen[op[p].data] = d.datlen THEN "r_dat" ELSE "d_lock")
            /\ Set(p, [d EXCEPT !.res = "0"])
        BY <3>1, <3>4, Zenon DEF Found
      <4> QED  BY <2>3, <3>4, <4>1, <1>FoundStep, Zenon
    <3> QED  BY <2>2, <3>2, <3>3, <3>4, Zenon
  <2>4. CASE d.key # op[p].key
    <3> DEFINE e == [d EXCEPT !.ptroff = d.ptr, !.ptr = d.ptrval]
    <3>1. Walk(p, e)
      BY <2>4, Zenon
    <3>2. chain[x] \in {0} \cup Recs /\ x \in 0 .. nhash + Len(idx)
      BY <2>1, Ptrs, DbFacts, Zenon
    <3>3. e \in DbType /\ e.ptroff = x /\ e.ptr = chain[x]
      BY <2>1, <3>2, Zenon DEF DbType
    <3> HIDE DEF e
    <3>4. \A r \in List(c) : KeyAt(r) = op[p].key => r \in Reach(chain, Recs, x)
      <4>1. Closed(chain, Recs, c) /\ 0 \notin Recs
        BY <2>1, Layout, Zenon
      <4>2. Closed(chain, Recs, db[p].ptroff)
        BY <4>1, <2>1, ReachBehind, Zenon DEF At, List
      <4>3. x # 0
        BY <2>1, <4>1, Zenon
      <4>4. Reach(chain, Recs, db[p].ptroff) \subseteq {x} \cup Reach(chain, Recs, x)
        BY <4>1, <4>2, <4>3, <2>1, <1>ReachFirst, Zenon
      <4> QED  BY <4>4, <2>1, <2>4, Zenon
    <3> QED  BY <2>1, <3>1, <3>3, <3>4, <1>WalkKeeps, Zenon
  <2> QED  BY <2>3, <2>4, Zenon
  \* _db_find_and_lock locks the chain before it reads any of it.
<1>FirstStep. ASSUME IInv, p \in Alives, pc[p] = "lock", Lock(p, chainoff(p), op[p].name # "fetch"),
             Goto(p, "chain"), Set(p, [db[p] EXCEPT !.ptroff = chainoff(p)]), UNCHANGED files, Alive
      PROVE  IInv'
  <2> USE <1>FirstStep
  <2> DEFINE c == chainoff(p)  e == [db[p] EXCEPT !.ptroff = c]
  <2>1. c \in Heads /\ c \in 0 .. DatFile
    BY CallFacts, Zenon
  <2>2. e \in DbType /\ e.ptroff = c
    <3>1. db[p] \in DbType /\ c \in 0 .. nhash + Len(idx)
      BY <2>1, DbFacts, Zenon
    <3> QED  BY <3>1, Zenon DEF DbType
  <2>3. Quiet(p, "chain", e)
    BY Zenon DEF Quiet
  <2> HIDE DEF e
  <2>4. /\ "chain" \in Pcs \ Unlinking /\ pc[p] \notin Unlinking
        /\ Takes(p, "chain", c, op[p].name # "fetch") /\ GoesOn(p, "chain")
    BY Zenon DEF Takes, GoesOn, Pcs, Unlinking, ChainPcs, FreePcs, DatPcs, IdxPcs, NextPcs, ScanPcs,
           DeletePcs, StorePcs
  <2>5. Arrives(p, "chain", e)
    <3>1. /\ locks' \subseteq [p : Alives, r : 0 .. DatFile, w : BOOLEAN]
          /\ \A l \in locks : l.p # p => l \in locks'
      BY <2>1, LockTaken, Zenon
    <3>2. pc'[p] = "chain" /\ db'[p] = e /\ chainoff(p)' = chainoff(p)
      BY <2>2, <2>3, <2>4, <3>1, QuietFacts, Zenon
    <3>3. Walking(p)'
      BY <2>2, <3>2, Zenon DEF Walking, FoundPcs
    <3> QED  BY <3>3, Zenon DEF Arrives, Unlinking, ReadPcs, WalkPcs, FoundPcs, AbsentPcs, StorePcs,
                         TakePcs, OwnPcs, AddPcs
  <2> QED  BY <2>1, <2>2, <2>3, <2>4, <2>5, LockStep, Zenon
<1>1. p \in Alives
  BY Zenon DEF FindAndLock, Fetch, Alives
<1>2. CASE Fetch(p)
  <2> DEFINE e == [db[p] EXCEPT !.res = dat[db[p].datoff].data]
  <2>1. pc[p] = "getdat" /\ Goto(p, "unlock") /\ Set(p, e) /\ Private
    BY <1>2, Zenon DEF Fetch
  <2>2. dat[db[p].datoff].data \in AllData \cup {Blank}
    <3>1. Read(p)
      BY <1>1, <2>1, Zenon DEF IInv, Local, Reading, FoundPcs
    <3>2. Rec(db[p].idxoff) \in DOMAIN idx
      BY <1>1, <3>1, DbFacts, Zenon DEF Read
    <3>3. db[p].datoff \in DOMAIN dat
      BY <3>1, <3>2, Zenon DEF Read, IInv, Records
    <3>4. dat \in Seq([data : AllData \cup {Blank}, len : Nat])
      BY Zenon DEF IInv, Types
    <3>5. dat[db[p].datoff] \in [data : AllData \cup {Blank}, len : Nat]
      BY <3>3, <3>4, ElementOf, Zenon
    <3> QED  BY <3>5, Zenon
  <2>3. db[p] \in DbType
    BY <1>1, DbFacts, Zenon
  <2>4. e \in DbType
    BY <2>2, <2>3, Zenon DEF DbType
  <2> QED  BY <1>1, <2>1, <2>4, <1>DoneStep, Zenon
<1>3. CASE pc[p] = "lock" /\ FindAndLock(p)
  BY <1>1, <1>3, <1>FirstStep, Zenon DEF FindAndLock
<1>4. CASE pc[p] = "chain" /\ FindAndLock(p)
  BY <1>1, <1>4, <1>ChainStep, Zenon DEF FindAndLock
<1>5. CASE pc[p] = "hdr" /\ FindAndLock(p)
  BY <1>1, <1>5, <1>HdrStep, Zenon DEF FindAndLock
<1>6. CASE pc[p] = "body" /\ FindAndLock(p)
  <2> DEFINE d == ReadRecord(db[p])
  <2>1. /\ Private
        /\ IF d.key = op[p].key THEN Found(p, d) ELSE Walk(p, [d EXCEPT !.ptroff = d.ptr, !.ptr = d.ptrval])
    BY <1>6, Zenon DEF FindAndLock
  <2> QED  BY <1>1, <1>6, <2>1, <1>BodyStep, Zenon
<1> QED  BY <1>2, <1>3, <1>4, <1>5, <1>6, Zenon DEF FindAndLock

Unmoved(p) ==
  /\ ptr' = ptr /\ idx' = idx /\ op' = op /\ chainoff(p)' = chainoff(p)
  /\ chain' = chain /\ Recs' = Recs
  /\ \A o : List(o)' = List(o) /\ At(o)' = At(o)
  /\ \A r : KeyAt(r)' = KeyAt(r)

\* What a step that writes no file and takes no lock leaves of what the process knows,
LEMMA PrivateUnmoved ==
  ASSUME IInv, NEW p \in Alives, NEW v \in Pcs \ Unlinking, NEW e \in DbType, Quiet(p, v, e),
         pc[p] \notin Unlinking, locks' = locks
  PROVE  pc'[p] = v /\ db'[p] = e /\ Unmoved(p)
BY PrivateFacts, Zenon DEF Unmoved

\* what one that takes a lock leaves,
LEMMA LockUnmoved ==
  ASSUME IInv, NEW p \in Alives, NEW v \in Pcs \ Unlinking, NEW e \in DbType, Quiet(p, v, e),
         pc[p] \notin Unlinking, NEW r \in 0 .. DatFile, NEW w \in BOOLEAN, Lock(p, r, w)
  PROVE  pc'[p] = v /\ db'[p] = e /\ Unmoved(p)
<1>1. /\ locks' \subseteq [p : Alives, r : 0 .. DatFile, w : BOOLEAN]
      /\ \A l \in locks : l.p # p => l \in locks'
  BY LockTaken, Zenon
<1> QED  BY <1>1, QuietFacts, Zenon DEF Unmoved

\* and what one that leaves a lock does.
LEMMA UnlockUnmoved ==
  ASSUME IInv, NEW p \in Alives, NEW v \in Pcs \ Unlinking, NEW e \in DbType, Quiet(p, v, e),
         pc[p] \notin Unlinking, NEW r, un_lock(p, r)
  PROVE  pc'[p] = v /\ db'[p] = e /\ Unmoved(p)
<1>1. /\ locks' \subseteq [p : Alives, r : 0 .. DatFile, w : BOOLEAN]
      /\ \A l \in locks : l.p # p => l \in locks'
  BY LockLeft, Zenon
<1> QED  BY <1>1, QuietFacts, Zenon DEF Unmoved

\* What p's part of the invariant said before the step and says after it
LEMMA StoringStays ==
  ASSUME IInv, NEW p \in Alives, Unmoved(p), pc[p] \in AbsentPcs,
         pc'[p] \in StorePcs \ {"r_dat", "ptr", "reptr"} => db'[p].save = chain[chainoff(p)]
  PROVE  Storing(p)'
<1>1. \A r \in List(chainoff(p)) : KeyAt(r) # op[p].key
  BY Zenon DEF IInv, Local, Storing
<1>2. \A r \in List(chainoff(p))' : KeyAt(r)' # op'[p].key
  BY <1>1, Zenon DEF Unmoved
<1> QED  BY <1>2, Zenon DEF Storing, Unmoved

\* The head of the chain that db_store has read is still the head: it has the lock.
LEMMA SaveIs ==
  ASSUME IInv, NEW p \in Alives, pc[p] \in StorePcs \ {"r_dat", "ptr", "reptr"}
  PROVE  db[p].save = chain[chainoff(p)]
BY Zenon DEF IInv, Local, Storing

SameRecord(d, e) ==
  e.idxoff = d.idxoff /\ e.keylen = d.keylen /\ e.datoff = d.datoff /\ e.datlen = d.datlen

\* A process that still names the record it read still has it right,
LEMMA ReadStays ==
  ASSUME NEW p, Unmoved(p), Read(p), SameRecord(db[p], db'[p])
  PROVE  Read(p)'
BY Zenon DEF Unmoved, Read, SameRecord

\* and so is the data record.
LEMMA AppendingStays ==
  ASSUME IInv, NEW p \in Alives, Unmoved(p), dat' = dat, Adds(p), pc'[p] \in {"a_ilock", "a_iseek", "a_idx"},
         db'[p].datoff = db[p].datoff, db'[p].datlen = db[p].datlen,
         pc'[p] = "a_idx" => db'[p].idxoff = nhash + Len(idx) + 1
  PROVE  Appending(p)' /\ Adds(p)'
<1>1. /\ db[p].datoff \in DOMAIN dat /\ \A i \in DOMAIN idx : idx[i].datoff # db[p].datoff
      /\ dat[db[p].datoff] = [data |-> op[p].data, len |-> db[p].datlen]
  BY Zenon DEF IInv, Local, Appending
<1> QED  BY <1>1, Zenon DEF Appending, Adds, Unmoved

-----------------------------------------------------------------------------
(* _db_dodelete, between its writes *)

\* A process that deletes is in a delete or a store, one that stores in a store.
LEMMA CallingIs ==
  ASSUME IInv, NEW p \in Alives
  PROVE  /\ pc[p] \in DeletePcs => op[p].name # "fetch"
         /\ pc[p] \in StorePcs => op[p].name \in {"insert", "replace", "store"}
BY Zenon DEF IInv, Local, Calling

-----------------------------------------------------------------------------
(* db_store, between its writes *)

\* The chain ptr is read: before the free list is searched, and after a delete.
LEMMA StorePtr ==
  ASSUME IInv, NoneHalfDeleted, NEW p \in Alives, NEW v \in {"f_lock", "a_dlock"},
         pc[p] \in {"ptr", "reptr"}, Goto(p, v),
         Set(p, [db[p] EXCEPT !.save = ptr[chainoff(p)]]), UNCHANGED <<files, locks>>, Alive
  PROVE  IInv'
<1> DEFINE d == db[p]  c == chainoff(p)  e == [d EXCEPT !.save = ptr[c]]
<1>1. pc[p] \in ChainPcs \ Unlinking /\ pc[p] \in StorePcs /\ pc[p] \in AbsentPcs
  BY Zenon DEF AbsentPcs, Pcs, Unlinking, ChainPcs, FreePcs, DatPcs, IdxPcs, NextPcs, ScanPcs,
         DeletePcs, StorePcs
<1>2. c \in Heads /\ c \in At(c)
  BY <1>1, CallFacts, Zenon DEF At
<1>3. d \in DbType /\ ptr[c] \in {0} \cup Recs /\ ptr[c] = chain[c]
  BY <1>1, <1>2, DbFacts, Ptrs, OwnChain, Zenon
<1>4. e \in DbType /\ e.save = chain[c]
  BY <1>3, Zenon DEF DbType
<1>5. Quiet(p, v, e) /\ locks' = locks
  BY Zenon DEF Quiet
<1> HIDE DEF e
<1>6. Holds(p, v) /\ v \in Pcs \ Unlinking /\ pc[p] \notin Unlinking
  BY Zenon DEF Holds, Pcs, Unlinking, ChainPcs, FreePcs, DatPcs, IdxPcs, NextPcs, ScanPcs,
         DeletePcs, StorePcs
<1>7. GoesOn(p, v)
  <2>1. op[p].name \in {"insert", "replace", "store"}
    BY <1>1, CallingIs, Zenon
  <2> QED  BY <2>1, Zenon DEF GoesOn, Pcs, Unlinking, ChainPcs, FreePcs, DatPcs, IdxPcs, NextPcs, ScanPcs,
         DeletePcs, StorePcs
<1>8. pc'[p] = v /\ db'[p] = e /\ Unmoved(p)
  BY <1>4, <1>5, <1>6, PrivateUnmoved, Zenon
<1>9. Arrives(p, v, e)
  <2>1. Storing(p)'
    BY <1>1, <1>4, <1>8, StoringStays, Zenon
  <2> QED  BY <2>1, Zenon DEF Arrives, Unlinking, ReadPcs, WalkPcs, FoundPcs, AbsentPcs, StorePcs,
         TakePcs, OwnPcs, AddPcs
<1> QED  BY <1>4, <1>5, <1>6, <1>7, <1>9, PrivateStep, Zenon

LocksFor(p, r, v) ==
  \/ pc[p] = "f_lock" /\ r = FREE_OFF /\ v = "f_ptr"
  \/ pc[p] = "a_dlock" /\ r = DatFile /\ v = "a_dseek"
  \/ pc[p] = "a_ilock" /\ r = IdxTail /\ v = "a_iseek"

\* A lock of the free list or of the end of a file is taken.
LEMMA StoreLock ==
  ASSUME IInv, NEW p \in Alives, NEW r, NEW v, LocksFor(p, r, v), Lock(p, r, TRUE), Goto(p, v),
         UNCHANGED <<files, db>>, Alive
  PROVE  IInv'
<1> USE DEF LocksFor
<1>1. db[p] \in DbType /\ Quiet(p, v, db[p])
  BY SameDb, Zenon DEF Quiet
<1>2. Takes(p, v, r, TRUE) /\ v \in Pcs \ Unlinking /\ pc[p] \notin Unlinking
  BY Zenon DEF Takes, Pcs, Unlinking, ChainPcs, FreePcs, DatPcs, IdxPcs, NextPcs, ScanPcs,
         DeletePcs, StorePcs
<1>3. pc[p] \in StorePcs \ {"r_dat", "ptr", "reptr"} /\ pc[p] \in AbsentPcs
  BY Zenon DEF StorePcs, AbsentPcs
<1>4. GoesOn(p, v)
  <2>1. op[p].name \in {"insert", "replace", "store"}
    BY <1>3, CallingIs, Zenon
  <2> QED  BY <2>1, Zenon DEF GoesOn, Pcs, Unlinking, ChainPcs, FreePcs, DatPcs, IdxPcs, NextPcs, ScanPcs,
         DeletePcs, StorePcs
<1>5. r \in 0 .. DatFile
  BY RegionFacts, Zenon
<1>6. pc'[p] = v /\ db'[p] = db[p] /\ Unmoved(p)
  BY <1>1, <1>2, <1>5, LockUnmoved, Zenon
<1>7. Arrives(p, v, db[p])
  <2>1. Storing(p)'
    BY <1>3, <1>6, SaveIs, StoringStays, Zenon
  <2>2. v = "a_iseek" => Appending(p)' /\ Adds(p)
    BY <1>6, AppendingStays, Zenon DEF Adds, files
  <2> QED  BY <2>1, <2>2, Zenon DEF Arrives, Unlinking, ReadPcs, WalkPcs, FoundPcs, AbsentPcs, StorePcs,
         TakePcs, OwnPcs, AddPcs
<1> QED  BY <1>1, <1>2, <1>4, <1>5, <1>7, LockStep, Zenon

UnlocksFor(p, r, v) ==
  \/ pc[p] = "f_unlock" /\ r = FREE_OFF /\ db[p].ptr = 0 /\ v = "a_dlock"
  \/ pc[p] = "f_unlock" /\ r = FREE_OFF /\ db[p].ptr # 0 /\ v = "u_dat"
  \/ pc[p] = "a_dunlock" /\ r = DatFile /\ v = "a_ilock"
  \/ pc[p] = "a_iunlock" /\ r = IdxTail /\ v = "a_link"

\* The lock of the free list or of the end of a file is left.
LEMMA StoreUnlock ==
  ASSUME IInv, NEW p \in Alives, NEW r, NEW v, UnlocksFor(p, r, v), un_lock(p, r), Goto(p, v),
         UNCHANGED <<files, db>>, Alive
  PROVE  IInv'
  \* The record a process has to itself is still its own,
<1>OwningStays. ASSUME IInv, p \in Alives, Unmoved(p), Owns(p), db'[p] = db[p],
             pc'[p] \in {"u_dat", "a_link"}, pc[p] \in {"f_unlock", "a_iunlock"},
             pc'[p] = "u_dat" <=> pc[p] = "f_unlock"
      PROVE  Owning(p)'
  <2> USE <1>OwningStays
  <2>1. /\ db[p].idxoff \in Recs /\ (\A o \in Heads : db[p].idxoff \notin List(o))
        /\ pc[p] = "f_unlock" => KeyAt(db[p].idxoff) = Blank
        /\ pc[p] = "a_iunlock" => KeyAt(db[p].idxoff) = op[p].key /\ ptr[db[p].idxoff] = db[p].save
    BY Zenon DEF IInv, Local, Owning
  <2>2. db[p].idxoff \in Recs' /\ (\A o \in Heads : db[p].idxoff \notin List(o)')
    BY <2>1, Zenon DEF Unmoved
  <2>3. idx'[Rec(db[p].idxoff)].key = KeyAt(db[p].idxoff) /\ ptr' = ptr /\ op' = op
    BY Zenon DEF Unmoved, KeyAt
  <2> QED  BY <2>1, <2>2, <2>3, Zenon DEF Owning, KeyAt
<1> USE DEF UnlocksFor
<1>1. db[p] \in DbType /\ Quiet(p, v, db[p])
  BY SameDb, Zenon DEF Quiet
<1>2. pc[p] \in StorePcs \ {"r_dat", "ptr", "reptr"} /\ pc[p] \in AbsentPcs /\ pc[p] \in ChainPcs
  BY Zenon DEF AbsentPcs, Pcs, Unlinking, ChainPcs, FreePcs, DatPcs, IdxPcs, NextPcs, ScanPcs,
         DeletePcs, StorePcs
<1>3. r # chainoff(p)
  BY <1>2, CallFacts, Zenon
<1>4. Leaves(p, v, r) /\ v \in Pcs \ Unlinking /\ pc[p] \notin Unlinking
  BY <1>3, Zenon DEF Leaves, Pcs, Unlinking, ChainPcs, FreePcs, DatPcs, IdxPcs, NextPcs, ScanPcs,
         DeletePcs, StorePcs
<1>5. GoesOn(p, v)
  <2>1. op[p].name \in {"insert", "replace", "store"}
    BY <1>2, CallingIs, Zenon
  <2> QED  BY <2>1, Zenon DEF GoesOn, Pcs, Unlinking, ChainPcs, FreePcs, DatPcs, IdxPcs, NextPcs, ScanPcs,
         DeletePcs, StorePcs
<1>6. pc'[p] = v /\ db'[p] = db[p] /\ Unmoved(p)
  BY <1>1, <1>4, UnlockUnmoved, ZenonT(30)
<1>7. Arrives(p, v, db[p])
  <2>1. Storing(p)'
    BY <1>2, <1>6, SaveIs, StoringStays, Zenon
  <2>2. v = "a_ilock" => Appending(p)' /\ Adds(p)
    BY <1>6, AppendingStays, Zenon DEF Adds, files
  <2>3. v \in {"u_dat", "a_link"} => Owning(p)' /\ Owns(p)
    BY <1>6, <1>OwningStays, Zenon DEF Owns
  <2>4. v = "u_dat" => Reading(p)'
    <3>1. v = "u_dat" => Read(p)
      BY Zenon DEF IInv, Local, Reading
    <3>2. v = "u_dat" => Read(p)'
      BY <1>6, <3>1, ReadStays, Zenon DEF SameRecord
    <3> QED  BY <1>6, <3>2, Zenon DEF Reading
  <2> QED  BY <2>1, <2>2, <2>3, <2>4, Zenon DEF Arrives, Unlinking, ReadPcs, WalkPcs, FoundPcs, AbsentPcs, StorePcs,
         TakePcs, OwnPcs, AddPcs
<1> QED  BY <1>1, <1>4, <1>5, <1>7, UnlockStep, Zenon

-----------------------------------------------------------------------------
(* Between calls, and db_nextrec *)

\* A step between calls or of db_nextrec keeps the invariant when it arrives where it may.
LEMMA OtherStep ==
  ASSUME IInv, NEW p \in Alives, NEW v \in NextPcs \cup {"lock"}, NEW e \in DbType,
         UNCHANGED <<files, dead, fails>>, calls' \in 0 .. MaxCalls,
         pc' = [pc EXCEPT ![p] = v], Set(p, e),
         NEW x \in Requests \cup {NoCall, Nextrec}, op' = [op EXCEPT ![p] = x], v = "lock" => x \in Requests,
         locks' \subseteq [p : Alives, r : 0 .. DatFile, w : BOOLEAN],
         \A l \in locks : l.p # p => l \in locks', Exclusive',
         v \in ScanPcs => Held(p, FREE_OFF, FALSE)',
         pc[p] \notin Unlinking \cup {"d_free", "d_idx"},
         v \in ReadPcs => Reading(p)', v \in NextPcs => Scanning(p)'
  PROVE  IInv'
<1>1. /\ v \in Pcs \ Unlinking /\ v \notin ChainPcs /\ v \notin FreePcs /\ v \notin DatPcs
      /\ v \notin IdxPcs /\ v \notin DeletePcs /\ v \notin StorePcs /\ v \notin WalkPcs
      /\ v \notin AbsentPcs /\ v \notin TakePcs /\ v \notin OwnPcs /\ v \notin AddPcs
  BY Zenon DEF Pcs, Unlinking, ChainPcs, FreePcs, DatPcs, IdxPcs, NextPcs, ScanPcs,
         DeletePcs, StorePcs, WalkPcs, FoundPcs, AbsentPcs, TakePcs, OwnPcs, AddPcs
<1>2. p \in Procs /\ op \in [Procs -> Requests \cup {NoCall, Nextrec}]
  BY DbFacts, Zenon
<1>3. /\ op' \in [Procs -> Requests \cup {NoCall, Nextrec}] /\ op'[p] = x
      /\ \A q \in Procs : q # p => op'[q] = op[q]
  BY <1>2, Zenon
<1>4. UNCHANGED files /\ dead' = dead /\ fails' \in 0 .. MaxFails /\ db' = [db EXCEPT ![p] = e]
  BY DbFacts, Zenon DEF Set
<1>5. Types' /\ Moves(p) /\ pc'[p] = v /\ db'[p] = e
  <2>1. v \in Pcs /\ MovesTo(p, v, e) /\ KeepsOthers(p)
    BY <1>1, <1>3, <1>4, Zenon DEF MovesTo, KeepsOthers
  <2> QED  BY <2>1, QuietTypes, Zenon
<1>6. Locked(p)'
  BY <1>1, <1>5, Zenon DEF Locked
<1>7. Calling(p)'
  BY <1>1, <1>3, <1>5, Zenon DEF Calling
<1> QED  BY <1>1, <1>4, <1>5, <1>6, <1>7, QuietStep, ZenonT(30)

\* A DB that is in no call has its type.
LEMMA NewDbType ==
  ASSUME IInv, NEW n \in Nat
  PROVE  NewDb(n) \in DbType /\ NewDb(n).res = NULL /\ NewDb(n).pos = n
<1>1. 0 \in Nat /\ <<0, 0, 0>> \in Nat \X Nat \X Nat
  BY Zenon
<1>2. 0 \in 0 .. nhash + Len(idx)
  BY DbAssumption, SMT, Z3 DEF IInv, Types
<1> QED  BY <1>1, <1>2, Zenon DEF NewDb, DbType

\* Calls, returns and db_rewind keep the invariant.
LEMMA CallKeeps ==
  ASSUME IInv, NEW p \in Procs, Call(p) \/ Return(p) \/ Rewind(p)
  PROVE  IInv'
<1>1. p \in Alives
  BY Zenon DEF Call, Return, Rewind, Alives
<1>2. db[p] \in DbType /\ pc \in [Procs -> Pcs] /\ op \in [Procs -> Requests \cup {NoCall, Nextrec}]
  BY <1>1, DbFacts, Zenon DEF IInv, Types
<1>3. calls \in 0 .. MaxCalls /\ locks \subseteq [p : Alives, r : 0 .. DatFile, w : BOOLEAN]
  BY <1>1, DbFacts, Zenon
<1>4. /\ "lock" \in NextPcs \cup {"lock"} /\ "lock" \notin ScanPcs /\ "lock" \notin ReadPcs /\ "lock" \notin NextPcs
      /\ "n_lock" \in NextPcs \cup {"lock"} /\ "n_lock" \notin ScanPcs /\ "n_lock" \notin ReadPcs
      /\ "idle" \in NextPcs \cup {"lock"} /\ "idle" \notin ScanPcs /\ "idle" \notin ReadPcs
  BY Zenon DEF NextPcs, ScanPcs, ReadPcs, FoundPcs
<1>5. ASSUME locks' = locks
      PROVE  /\ locks' \subseteq [p : Alives, r : 0 .. DatFile, w : BOOLEAN]
             /\ (\A l \in locks : l.p # p => l \in locks') /\ Exclusive'
  BY <1>3, <1>5, Zenon DEF IInv, Exclusive
<1>6. CASE Call(p)
  <2>1. /\ pc[p] = "idle" /\ calls < MaxCalls /\ calls' = calls + 1
        /\ UNCHANGED <<files, dead, fails>> /\ locks' = locks
    BY <1>6, Zenon DEF Call
  <2>2. calls' \in 0 .. MaxCalls
    BY <1>3, <2>1, DbAssumption, SMT, Z3
  <2>3. pc[p] \notin Unlinking \cup {"d_free", "d_idx"}
    BY <2>1, Zenon DEF Unlinking
  <2>4. CASE \E r \in Requests : op' = [op EXCEPT ![p] = r] /\ Goto(p, "lock") /\ Set(p, NewDb(0))
    <3>1. PICK r \in Requests : op' = [op EXCEPT ![p] = r] /\ Goto(p, "lock") /\ Set(p, NewDb(0))
      BY <2>4, Zenon
    <3>2. NewDb(0) \in DbType
      <4>1. 0 \in Nat
        BY Zenon
      <4> QED  BY <4>1, NewDbType, Zenon
    <3>3. pc' = [pc EXCEPT ![p] = "lock"] /\ r \in Requests \cup {NoCall, Nextrec}
      BY <3>1, Zenon DEF Goto
    <3> QED  BY <1>1, <1>4, <1>5, <2>1, <2>2, <2>3, <3>1, <3>2, <3>3, OtherStep, Zenon
  <2>5. CASE db[p].pos # 0 /\ op' = [op EXCEPT ![p] = Nextrec] /\ Goto(p, "n_lock") /\ UNCHANGED db
    <3>1. Set(p, db[p]) /\ pc' = [pc EXCEPT ![p] = "n_lock"]
      BY <1>1, <2>5, SameDb, Zenon DEF Goto
    <3>2. Nextrec \in Requests \cup {NoCall, Nextrec}
      BY Zenon
    <3>3. Scanning(p)'
      <4>1. pc'[p] = "n_lock" /\ db'[p] = db[p]
        BY <1>2, <2>5, <3>1, ZenonT(30)
      <4>2. db[p].res = NULL
        BY <1>1, <2>1, Zenon DEF IInv, Local, Scanning
      <4> QED  BY <2>5, <4>1, <4>2, Zenon DEF Scanning
    <3> QED  BY <1>1, <1>2, <1>4, <1>5, <2>1, <2>2, <2>3, <2>5, <3>1, <3>2, <3>3, OtherStep, Zenon
  <2> QED  BY <1>6, <2>4, <2>5, Zenon DEF Call
<1>7. CASE Return(p)
  <2>1. /\ pc[p] = "unlock" /\ un_lock(p, chainoff(p)) /\ calls' = calls /\ UNCHANGED <<files, dead, fails>>
        /\ pc' = [pc EXCEPT ![p] = "idle"] /\ Set(p, NewDb(0)) /\ op' = [op EXCEPT ![p] = NoCall]
    BY <1>7, Zenon DEF Return, Goto
  <2>2. pc[p] \notin Unlinking \cup {"d_free", "d_idx"}
    BY <2>1, Zenon DEF Unlinking
  <2>3. /\ Exclusive' /\ locks' \subseteq [p : Alives, r : 0 .. DatFile, w : BOOLEAN]
        /\ \A l \in locks : l.p # p => l \in locks'
    BY <1>1, <2>1, LockLeft, Zenon
  <2>4. NewDb(0) \in DbType /\ NewDb(0).res = NULL
    BY NewDbType, Zenon
  <2>5. Scanning(p)'
    <3>1. pc'[p] = "idle" /\ db'[p] = NewDb(0)
      BY <1>2, <2>1, Zenon DEF Set, IInv, Types
    <3> QED  BY <2>4, <3>1, Zenon DEF Scanning
  <2>6. NoCall \in Requests \cup {NoCall, Nextrec} /\ calls' \in 0 .. MaxCalls
    BY <1>3, <2>1, Zenon
  <2> QED  BY <1>1, <1>4, <2>1, <2>2, <2>3, <2>4, <2>5, <2>6, OtherStep, Zenon
<1>8. CASE Rewind(p)
  <2>1. /\ pc[p] = "idle" /\ calls < MaxCalls /\ calls' = calls + 1 /\ Set(p, NewDb(1))
        /\ UNCHANGED <<files, dead, fails>> /\ locks' = locks /\ pc' = pc /\ op' = op
    BY <1>8, Zenon DEF Rewind
  <2>2. calls' \in 0 .. MaxCalls
    BY <1>3, <2>1, DbAssumption, SMT, Z3
  <2>3. pc[p] \notin Unlinking \cup {"d_free", "d_idx"}
    BY <2>1, Zenon DEF Unlinking
  <2>4. NewDb(1) \in DbType /\ NewDb(1).res = NULL
    BY NewDbType, Zenon
  <2>5. pc' = [pc EXCEPT ![p] = "idle"] /\ op' = [op EXCEPT ![p] = op[p]]
        /\ op[p] \in Requests \cup {NoCall, Nextrec}
    BY <1>2, <2>1, Zenon
  <2>6. Scanning(p)'
    <3>1. pc'[p] = "idle" /\ db'[p] = NewDb(1)
      BY <1>2, <2>1, Zenon DEF Set, IInv, Types
    <3> QED  BY <2>4, <3>1, Zenon DEF Scanning
  <2> QED  BY <1>1, <1>4, <1>5, <2>1, <2>2, <2>3, <2>4, <2>5, <2>6, OtherStep, Zenon
<1> QED  BY <1>6, <1>7, <1>8, Zenon

\* db_nextrec keeps the invariant.
LEMMA NextKeeps ==
  ASSUME IInv, NEW p \in Procs, NextRec(p)
  PROVE  IInv'
  \* A step of db_nextrec
<1>NextStep. ASSUME IInv, p \in Alives, pc[p] \in {"n_hdr", "n_body", "n_dat"}, NEW v \in ScanPcs, NEW e \in DbType,
             UNCHANGED <<files, dead, calls, fails>>, Goto(p, v), Set(p, e), locks' = locks, op' = op,
             v \in {"n_hdr", "n_body", "n_dat"} => e.res = NULL, e.pos # 0,
             v = "n_body" => e.idxoff \in Recs /\ e.idxlen = Shape(idx[Rec(e.idxoff)]),
             v = "n_dat" => /\ e.idxoff \in Recs /\ e.keylen = idx[Rec(e.idxoff)].keylen
                            /\ e.datoff = idx[Rec(e.idxoff)].datoff /\ e.datlen = idx[Rec(e.idxoff)].datlen
                            /\ e.key = idx[Rec(e.idxoff)].key /\ e.key # Blank,
             v = "n_unlock" => e.res = NULL \/ (\E q \in dead : pc[q] \in {"d_free", "d_idx"})
                                 \/ e.res \in DataOf[e.key]
      PROVE  IInv'
  <2> USE <1>NextStep
  <2>1. db[p] \in DbType /\ pc \in [Procs -> Pcs] /\ op \in [Procs -> Requests \cup {NoCall, Nextrec}]
    BY DbFacts, Zenon DEF IInv, Types
  <2>2. /\ calls \in 0 .. MaxCalls /\ locks \subseteq [p : Alives, r : 0 .. DatFile, w : BOOLEAN]
        /\ p \in Procs /\ dead \subseteq Procs
    BY DbFacts, Zenon DEF IInv, Types
  <2>3. /\ locks' \subseteq [p : Alives, r : 0 .. DatFile, w : BOOLEAN]
        /\ (\A l \in locks : l.p # p => l \in locks') /\ Exclusive'
    BY <2>2, Zenon DEF IInv, Exclusive
  <2>4. Held(p, FREE_OFF, FALSE)'
    <3>1. pc[p] \in ScanPcs /\ Locked(p)
      BY Zenon DEF IInv, Local, ScanPcs
    <3> QED  BY <3>1, ZenonT(30) DEF Locked, Held
  <2>5. pc' = [pc EXCEPT ![p] = v] /\ pc'[p] = v /\ db'[p] = e
    BY <2>1, <2>2, Zenon DEF Goto, Set, IInv, Types
  <2>6. ptr' = ptr /\ idx' = idx /\ dat' = dat /\ dead' = dead /\ Recs' = Recs
    BY ZenonT(30) DEF files, Recs
  <2>7. Reading(p)'
    BY <2>5, <2>6, Zenon DEF Reading, Read, ScanPcs, FoundPcs, Shape
  <2>8. Scanning(p)'
    <3>1. (\E q \in dead : pc[q] \in {"d_free", "d_idx"}) => \E q \in dead' : pc'[q] \in {"d_free", "d_idx"}
      <4> SUFFICES ASSUME NEW q \in dead, pc[q] \in {"d_free", "d_idx"} PROVE pc'[q] \in {"d_free", "d_idx"}
        BY <2>6, Zenon
      <4>1. q # p /\ q \in Procs
        BY <2>2, ZenonT(30) DEF Alives
      <4> QED  BY <2>1, <2>5, <4>1, Zenon
    <3> QED  BY <2>5, <2>6, <3>1, Zenon DEF Scanning, KeyAt, ScanPcs
  <2>9. /\ pc[p] \notin Unlinking \cup {"d_free", "d_idx"} /\ v \in NextPcs \cup {"lock"} /\ v # "lock"
    BY Zenon DEF Unlinking, NextPcs, ScanPcs
  <2>10. op' = [op EXCEPT ![p] = op[p]] /\ op[p] \in Requests \cup {NoCall, Nextrec}
    BY <2>1, <2>2, Zenon
  <2>11. UNCHANGED <<files, dead, fails>> /\ calls' \in 0 .. MaxCalls
    BY <2>2, Zenon
  <2> QED  BY <2>3, <2>4, <2>5, <2>7, <2>8, <2>9, <2>10, <2>11, OtherStep, Zenon
  \* The data at the offset a scan has read was stored under the key it has read.
<1>ScanData. ASSUME IInv, p \in Alives, pc[p] = "n_dat"
      PROVE  /\ dat[db[p].datoff].data \in AllData \cup {Blank}
             /\ \/ \E q \in dead : pc[q] \in {"d_free", "d_idx"}
                \/ dat[db[p].datoff].data \in DataOf[db[p].key]
  <2> USE <1>ScanData
  <2> DEFINE i == Rec(db[p].idxoff)
  <2>1. Read(p) /\ KeyAt(db[p].idxoff) = db[p].key /\ db[p].key # Blank
    BY Zenon DEF IInv, Local, Reading, Scanning
  <2>2. i \in DOMAIN idx /\ idx[i].datoff = db[p].datoff /\ idx[i].key = db[p].key
    BY <2>1, DbFacts, Zenon DEF Read, KeyAt
  <2>3. /\ idx[i].datoff \in DOMAIN dat
        /\ idx[i].key # Blank /\ dat[idx[i].datoff].data \notin DataOf[idx[i].key] =>
             \E q \in Procs : pc[q] \in {"d_free", "d_idx"}
    BY <2>2, Zenon DEF IInv, Records
  <2>4. dat[db[p].datoff].data \in AllData \cup {Blank}
    <3>1. dat \in Seq([data : AllData \cup {Blank}, len : Nat])
      BY Zenon DEF IInv, Types
    <3>2. dat[db[p].datoff] \in [data : AllData \cup {Blank}, len : Nat]
      BY <2>2, <2>3, <3>1, ElementOf, Zenon
    <3> QED  BY <3>2, Zenon
  <2>5. ASSUME NEW q \in Procs, pc[q] \in {"d_free", "d_idx"} PROVE q \in dead
    <3>1. SUFFICES ASSUME q \in Alives PROVE FALSE
      BY Zenon DEF Alives
    <3>2. pc[q] \in FreePcs /\ pc[p] \in ScanPcs /\ p # q
      BY <2>5, Zenon DEF FreePcs, ScanPcs
    <3> QED  BY <3>1, <3>2, Exclusion, Zenon
  <2> QED  BY <2>1, <2>2, <2>3, <2>4, <2>5, ZenonT(30)
<1> DEFINE d == db[p]
<1>1. p \in Alives /\ UNCHANGED <<files, dead, calls, fails>>
  BY Zenon DEF NextRec, Alives
<1>2. d \in DbType /\ pc \in [Procs -> Pcs] /\ op \in [Procs -> Requests \cup {NoCall, Nextrec}]
  BY <1>1, DbFacts, Zenon DEF IInv, Types
<1>3. /\ pc[p] \in {"n_lock", "n_hdr", "n_body", "n_dat"} => d.res = NULL
      /\ pc[p] \in {"n_lock", "n_hdr", "n_body", "n_dat", "n_unlock"} => d.pos # 0
  <2>1. Scanning(p)
    BY <1>1, Zenon DEF IInv, Local
  <2> QED  BY <2>1, Zenon DEF Scanning
<1>4. d.pos \in Nat
  BY <1>2, Zenon DEF DbType
<1>5. CASE pc[p] = "n_lock" /\ Lock(p, FREE_OFF, FALSE) /\ Goto(p, "n_hdr") /\ UNCHANGED <<db, op>>
  <2>1. /\ Exclusive' /\ locks' \subseteq [p : Alives, r : 0 .. DatFile, w : BOOLEAN]
        /\ locks \subseteq locks' /\ Held(p, FREE_OFF, FALSE)'
    <3>1. FREE_OFF \in 0 .. DatFile /\ FALSE \in BOOLEAN
      BY RegionFacts, Zenon
    <3> QED  BY <1>1, <1>5, <3>1, LockTaken, Zenon
  <2>2. Set(p, d) /\ pc' = [pc EXCEPT ![p] = "n_hdr"] /\ pc'[p] = "n_hdr" /\ db'[p] = d
    BY <1>1, <1>2, <1>5, SameDb, Zenon DEF Goto
  <2>3. Scanning(p)'
    BY <1>3, <1>5, <2>2, Zenon DEF Scanning
  <2>4. /\ pc[p] \notin Unlinking \cup {"d_free", "d_idx"} /\ "n_hdr" \in NextPcs \cup {"lock"}
        /\ "n_hdr" # "lock" /\ "n_hdr" \notin ReadPcs
    BY <1>5, Zenon DEF Unlinking, NextPcs, ScanPcs, ReadPcs, FoundPcs
  <2>5. op' = [op EXCEPT ![p] = op[p]] /\ op[p] \in Requests \cup {NoCall, Nextrec}
    BY <1>2, <1>5, Zenon
  <2>6. UNCHANGED <<files, dead, fails>> /\ calls' \in 0 .. MaxCalls /\ \A l \in locks : l.p # p => l \in locks'
    BY <1>1, <2>1, DbFacts, ZenonT(30)
  <2> QED  BY <1>1, <1>2, <2>1, <2>2, <2>3, <2>4, <2>5, <2>6, OtherStep, Zenon
<1>6. CASE pc[p] = "n_hdr" /\ Goto(p, "n_unlock") /\ UNCHANGED <<locks, db, op>>
  <2>1. Set(p, d) /\ "n_unlock" \in ScanPcs
    BY <1>1, <1>6, SameDb, Zenon DEF ScanPcs
  <2> QED  BY <1>1, <1>2, <1>3, <1>6, <2>1, <1>NextStep, Zenon
<1>7. CASE /\ pc[p] = "n_hdr" /\ d.pos <= Len(idx) /\ Goto(p, "n_body")
           /\ Set(p, ReadHeader(d, nhash + d.pos)) /\ UNCHANGED <<locks, op>>
  <2> DEFINE x == nhash + d.pos  e == ReadHeader(d, x)
  <2>1. x \in Recs
    BY <1>3, <1>4, <1>7, DbAssumption, SMT, Z3 DEF Recs, Places, IInv, Types
  <2>2. x \in Nat /\ Shape(idx[Rec(x)]) \in Nat \X Nat \X Nat /\ ptr[x] \in {0} \cup Recs
    BY <1>1, <2>1, DbFacts, Ptrs, Zenon
  <2> HIDE DEF x
  <2>3. /\ e \in DbType /\ e.idxoff = x /\ e.idxlen = Shape(idx[Rec(x)]) /\ e.res = d.res /\ e.pos = d.pos
    BY <1>2, <2>2, Zenon DEF ReadHeader, DbType
  <2>4. Set(p, e) /\ "n_body" \in ScanPcs
    BY <1>7, Zenon DEF x, ScanPcs
  <2> HIDE DEF e
  <2> QED  BY <1>1, <1>3, <1>7, <2>1, <2>3, <2>4, <1>NextStep, Zenon
<1>8. CASE /\ pc[p] = "n_body" /\ Set(p, [ReadRecord(d) EXCEPT !.pos = @ + 1])
           /\ Goto(p, IF ReadRecord(d).key = Blank THEN "n_hdr" ELSE "n_dat") /\ UNCHANGED <<locks, op>>
  <2> DEFINE x == d.idxoff  b == ReadRecord(d)  e == [b EXCEPT !.pos = @ + 1]
             v == IF b.key = Blank THEN "n_hdr" ELSE "n_dat"
  <2>1. x \in Recs
    BY <1>1, <1>8, Zenon DEF IInv, Local, Reading
  <2>2. /\ b \in DbType /\ b.keylen = idx[Rec(x)].keylen /\ b.key = idx[Rec(x)].key /\ b.idxoff = x
        /\ b.datoff = idx[Rec(x)].datoff /\ b.datlen = idx[Rec(x)].datlen /\ b.res = d.res /\ b.pos = d.pos
    <3>1. /\ idx[Rec(x)].key \in Keys \cup {Blank, NULL} /\ idx[Rec(x)].keylen \in Nat
          /\ idx[Rec(x)].datoff \in Nat /\ idx[Rec(x)].datlen \in Nat
      BY <1>1, <2>1, DbFacts, Zenon
    <3> QED  BY <1>2, <3>1, Zenon DEF ReadRecord, DbType
  <2>3. Set(p, e) /\ Goto(p, v) /\ v \in ScanPcs /\ (v = "n_dat" => b.key # Blank) /\ v \in {"n_hdr", "n_dat"}
    BY <1>8, Zenon DEF ScanPcs
  <2> HIDE DEF b, v
  <2>4. b.pos + 1 \in Nat /\ b.pos + 1 # 0
    BY <2>2, <1>4, SMT, Z3
  <2>5. /\ e \in DbType /\ e.keylen = b.keylen /\ e.key = b.key /\ e.idxoff = b.idxoff
        /\ e.datoff = b.datoff /\ e.datlen = b.datlen /\ e.res = b.res /\ e.pos = b.pos + 1
    BY <2>2, <2>4, Zenon DEF DbType
  <2> HIDE DEF e
  <2> QED  BY <1>1, <1>3, <1>8, <2>1, <2>2, <2>3, <2>4, <2>5, <1>NextStep, Zenon
<1>9. CASE /\ pc[p] = "n_dat" /\ Goto(p, "n_unlock") /\ Set(p, [d EXCEPT !.res = dat[d.datoff].data])
           /\ UNCHANGED <<locks, op>>
  <2> DEFINE e == [d EXCEPT !.res = dat[d.datoff].data]
  <2>1. /\ dat[d.datoff].data \in AllData \cup {Blank}
        /\ (\E q \in dead : pc[q] \in {"d_free", "d_idx"}) \/ dat[d.datoff].data \in DataOf[d.key]
    BY <1>1, <1>9, <1>ScanData, Zenon
  <2>2. e \in DbType /\ e.res = dat[d.datoff].data /\ e.key = d.key /\ e.pos = d.pos
    BY <1>2, <2>1, Zenon DEF DbType
  <2>3. Set(p, e) /\ "n_unlock" \in ScanPcs
    BY <1>9, Zenon DEF ScanPcs
  <2> HIDE DEF e
  <2> QED  BY <1>1, <1>3, <1>9, <2>1, <2>2, <2>3, <1>NextStep, Zenon
<1>10. CASE /\ pc[p] = "n_unlock" /\ un_lock(p, FREE_OFF) /\ Goto(p, "idle")
            /\ Set(p, NewDb(d.pos)) /\ op' = [op EXCEPT ![p] = NoCall]
  <2>1. pc[p] \notin Unlinking \cup {"d_free", "d_idx"} /\ "idle" \in NextPcs \cup {"lock"}
        /\ "idle" \notin ScanPcs /\ "idle" \notin ReadPcs
    BY <1>10, Zenon DEF Unlinking, NextPcs, ScanPcs, ReadPcs, FoundPcs
  <2>2. /\ Exclusive' /\ locks' \subseteq [p : Alives, r : 0 .. DatFile, w : BOOLEAN]
        /\ \A l \in locks : l.p # p => l \in locks'
    BY <1>1, <1>10, LockLeft, Zenon
  <2>3. NewDb(d.pos) \in DbType /\ NewDb(d.pos).res = NULL
    BY <1>4, NewDbType, Zenon
  <2>4. pc' = [pc EXCEPT ![p] = "idle"] /\ pc'[p] = "idle" /\ db'[p] = NewDb(d.pos)
    BY <1>2, <1>10, ZenonT(30) DEF Goto, Set, IInv, Types
  <2>5. Scanning(p)'
    BY <2>3, <2>4, Zenon DEF Scanning
  <2>6. NoCall \in Requests \cup {NoCall, Nextrec} /\ calls' \in 0 .. MaxCalls /\ UNCHANGED <<files, dead, fails>>
    BY <1>1, DbFacts, Zenon
  <2> QED  BY <1>1, <1>10, <2>1, <2>2, <2>3, <2>4, <2>5, <2>6, OtherStep, Zenon
<1> QED  BY <1>5, <1>6, <1>7, <1>8, <1>9, <1>10, Zenon DEF NextRec

-----------------------------------------------------------------------------
(* Steps that write to the files *)

\* p goes on at v, with e, and has written
Writes(p, v, e) == Goto(p, v) /\ Set(p, e) /\ locks' = locks /\ Alive

\* What is said of the process at v, and that what it owns there is its own
Reaches(p, v, e) ==
  /\ v \in ReadPcs => Reading(p)'
  /\ v \in WalkPcs => Walking(p)'
  /\ v \in AbsentPcs => Storing(p)'
  /\ v \notin TakePcs
  /\ v \in OwnPcs => /\ Owning(p)'
                     /\ \A q \in Alives : q # p /\ Owns(q) => db[q].idxoff # e.idxoff
  /\ v \in AddPcs => /\ Appending(p)'
                     /\ \A q \in Alives : q # p /\ Adds(q) => db[q].datoff # e.datoff

\* A step that writes to a file changes nothing of the other processes' DBs.
LEMMA WriteMoves ==
  ASSUME IInv, NEW p \in Alives, NEW v \in Pcs, NEW e, Writes(p, v, e)
  PROVE  /\ Moves(p) /\ pc'[p] = v /\ db'[p] = e /\ op' = op /\ Alives' = Alives /\ dead' = dead
         /\ (\A x \in Procs : x # p => pc'[x] = pc[x] /\ db'[x] = db[x])
         /\ Exclusive' /\ \A x : chainoff(x)' = chainoff(x)
<1>1. /\ pc' = [pc EXCEPT ![p] = v] /\ db' = [db EXCEPT ![p] = e] /\ op' = op /\ dead' = dead
      /\ locks' = locks
  BY Zenon DEF Writes, Goto, Set, Alive
<1>2. pc \in [Procs -> Pcs] /\ db \in [Procs -> DbType] /\ p \in Procs
  BY Zenon DEF IInv, Types, Alives
<1>3. pc'[p] = v /\ db'[p] = e /\ \A x \in Procs : x # p => pc'[x] = pc[x] /\ db'[x] = db[x]
  BY <1>1, <1>2, Zenon
<1>4. Moves(p)
  BY <1>1, <1>3, Zenon DEF Moves
<1>5. Exclusive' /\ Alives' = Alives /\ \A x : chainoff(x)' = chainoff(x)
  BY <1>1, Zenon DEF IInv, Exclusive, Alives, chainoff
<1> QED  BY <1>1, <1>3, <1>4, <1>5, Zenon

\* The files after the step are files
FilesAre ==
  /\ idx' \in Seq([key : Keys \cup {Blank}, keylen : Nat, datoff : Nat, datlen : Nat])
  /\ dat' \in Seq([data : AllData \cup {Blank}, len : Nat])
  /\ ptr' \in [0 .. nhash + Len(idx') -> {0} \cup Recs']
  /\ Len(idx) <= Len(idx')

\* The types after a write are those of the files after it.
LEMMA WriteTypes ==
  ASSUME IInv, NEW p \in Alives, NEW v \in Pcs, NEW e \in DbType, Writes(p, v, e), FilesAre
  PROVE  Types' /\ Recs \subseteq Recs'
<1>1. /\ pc' = [pc EXCEPT ![p] = v] /\ db' = [db EXCEPT ![p] = e] /\ op' = op /\ dead' = dead
      /\ locks' = locks /\ calls' = calls /\ fails' = fails /\ Alives' = Alives
  BY Zenon DEF Writes, Goto, Set, Alive, Alives
<1>2. pc \in [Procs -> Pcs] /\ db \in [Procs -> DbType] /\ p \in Procs
  BY Zenon DEF IInv, Types, Alives
<1>3. nhash \in Nat /\ Len(idx) \in Nat /\ Len(idx') \in Nat /\ Len(idx) <= Len(idx')
  BY DbAssumption, SMT, Z3 DEF FilesAre, IInv, Types
<1>4. Recs \subseteq Recs' /\ 0 .. nhash + Len(idx) \subseteq 0 .. nhash + Len(idx')
  BY <1>3, SMT, Z3 DEF Recs, Places
<1>5. ASSUME NEW d \in DbType PROVE d \in DbType'
  <2>1. /\ d.ptrval \in {0} \cup Recs' /\ d.ptr \in {0} \cup Recs' /\ d.save \in {0} \cup Recs'
        /\ d.ptroff \in 0 .. nhash + Len(idx')
    BY <1>4, Zenon DEF DbType
  <2> QED  BY <2>1, Zenon DEF DbType
<1>6. pc' \in [Procs -> Pcs] /\ db' \in [Procs -> DbType']
  BY <1>1, <1>2, <1>5, Zenon
<1> QED  BY <1>1, <1>4, <1>6, Zenon DEF IInv, Types, FilesAre

\* A step that writes keeps the invariant when it keeps the lists and the records, spares
\* the others, and arrives where it may.
LEMMA WriteStep ==
  ASSUME IInv, NEW p \in Alives, NEW v \in Pcs, NEW e, Writes(p, v, e), Types', SameShapes,
         Records', Chains', \A q \in Alives : q # p => SameFor(q),
         Holds(p, v), GoesOn(p, v), Reaches(p, v, e)
  PROVE  IInv'
<1>1. /\ Moves(p) /\ pc'[p] = v /\ db'[p] = e /\ op' = op /\ Alives' = Alives /\ dead' = dead
      /\ (\A x \in Procs : x # p => pc'[x] = pc[x] /\ db'[x] = db[x])
      /\ Exclusive' /\ \A x : chainoff(x)' = chainoff(x)
  BY WriteMoves, Zenon
<1>2. Locked(p) /\ Calling(p)
  BY Zenon DEF IInv, Local
<1>3. Locked(p)'
  <2>1. \A r, w : Held(p, r, w)' = Held(p, r, w)
    BY Zenon DEF Held, Writes
  <2> QED  BY <1>1, <1>2, <2>1, Zenon DEF Locked, Holds
<1>4. Calling(p)'
  BY <1>1, <1>2, Zenon DEF Calling, GoesOn
<1>5. /\ Reading(p)' /\ Walking(p)' /\ Storing(p)' /\ Freeing(p)' /\ Owning(p)' /\ Appending(p)'
      /\ Scanning(p)'
  <2>1. v \notin NextPcs
    BY Zenon DEF GoesOn
  <2> QED  BY <1>1, <2>1, Vacuous, Zenon DEF Reaches
<1>6. Local(p)'
  BY <1>3, <1>4, <1>5, Zenon DEF Local
<1>7. ASSUME NEW q \in Alives, q # p PROVE Local(q)'
  <2>1. \A l \in locks : l.p = q => l \in locks'
    BY Zenon DEF Writes
  <2>2. \A x \in Procs : x # p => pc'[x] = pc[x] /\ op'[x] = op[x] /\ db'[x] = db[x]
    BY <1>1, Zenon
  <2>3. SameFor(q)
    BY <1>7, Zenon
  <2> QED  BY <1>1, <1>7, <2>1, <2>2, <2>3, OthersKeep, Zenon
<1>8. Apart'
  <2>1. \A q \in Alives : q # p => /\ Owns(q)' = Owns(q) /\ Adds(q)' = Adds(q) /\ db'[q] = db[q]
    BY <1>1, Zenon DEF Alives, Owns, Adds
  <2>2. \A q \in Alives : q # p /\ Owns(q)' /\ Owns(p)' => db'[q].idxoff # db'[p].idxoff
    <3>1. Owns(p)' => v \in OwnPcs
      BY <1>1, Vacuous, Zenon
    <3> QED  BY <3>1, <2>1, <1>1, Zenon DEF Reaches
  <2>3. \A q \in Alives : q # p /\ Adds(q)' /\ Adds(p)' => db'[q].datoff # db'[p].datoff
    <3>1. Adds(p)' => v \in AddPcs
      BY <1>1, Vacuous, Zenon
    <3> QED  BY <3>1, <2>1, <1>1, Zenon DEF Reaches
  <2> SUFFICES ASSUME NEW x \in Alives, NEW y \in Alives, x # y
               PROVE  /\ Owns(x)' /\ Owns(y)' => db'[x].idxoff # db'[y].idxoff
                      /\ Adds(x)' /\ Adds(y)' => db'[x].datoff # db'[y].datoff
    BY <1>1, Zenon DEF Apart
  <2>4. CASE x = p
    BY <2>2, <2>3, <2>4, Zenon
  <2>5. CASE y = p
    BY <2>2, <2>3, <2>5, Zenon
  <2>6. CASE x # p /\ y # p
    BY <2>1, <2>6, Zenon DEF IInv, Apart
  <2> QED  BY <2>4, <2>5, <2>6, Zenon
<1> QED  BY <1>1, <1>6, <1>7, <1>8, Zenon DEF IInv

\* The ptrs of a process that unlinks are those of its chain.
LEMMA UnlinkerAt ==
  ASSUME IInv, NoneHalfDeleted, NEW q \in Procs, pc[q] \in Unlinking
  PROVE  /\ q \in Alives /\ chainoff(q) \in Heads /\ chainoff(q) # FREE_OFF
         /\ db[q].ptroff \in At(chainoff(q)) /\ pc[q] \in ChainPcs /\ op[q].name # "fetch"
         /\ pc[q] \in FreePcs
<1>1. q \in Alives
  BY Unlinker, Zenon
<1>2. pc[q] \in ChainPcs /\ pc[q] \in FreePcs /\ pc[q] \in DeletePcs
  BY PcSets, Zenon DEF DeletePcs, Unlinking
<1>3. op[q].name # "fetch" /\ chainoff(q) \in Heads /\ chainoff(q) # FREE_OFF
  BY <1>1, <1>2, CallFacts, CallingIs, ZenonT(30)
<1>4. db[q].ptroff \in At(chainoff(q))
  BY <1>1, Zenon DEF IInv, Local, Walking, Unlinking
<1> QED  BY <1>1, <1>2, <1>3, <1>4, Zenon

\* The ptrs before and after a step of a process that unlinks at neither time
LEMMA ChainKept ==
  ASSUME IInv, NoneHalfDeleted, NEW p \in Alives, Moves(p), pc[p] \notin Unlinking, pc'[p] \notin Unlinking
  PROVE  /\ \A o \in DOMAIN ptr \cap DOMAIN ptr' : ptr'[o] = ptr[o] => chain'[o] = chain[o]
         /\ \A o \in DOMAIN ptr' :
              (\A q \in Alives : pc[q] \in Unlinking => o \notin At(chainoff(q))) => chain'[o] = ptr'[o]
<1>1. \A o : Saves(pc', db', o) = Saves(pc, db, o)
  BY SavesSame, ZenonT(30)
<1>2. /\ \A o \in DOMAIN ptr : chain[o] = IF Saves(pc, db, o) = {} THEN ptr[o] ELSE OneOf(Saves(pc, db, o))
      /\ \A o \in DOMAIN ptr' : chain'[o] = IF Saves(pc, db, o) = {} THEN ptr'[o] ELSE OneOf(Saves(pc, db, o))
  BY <1>1, SMT, Z3 DEF chain, ChainOf
<1>3. ASSUME NEW o, \A q \in Alives : pc[q] \in Unlinking => o \notin At(chainoff(q))
      PROVE  Saves(pc, db, o) = {}
  <2>1. \A q \in Procs : ~(pc[q] \in Unlinking /\ db[q].ptroff = o)
    BY <1>3, UnlinkerAt, Zenon
  <2>2. {q \in Procs : pc[q] \in Unlinking /\ db[q].ptroff = o} = {}
    BY <2>1, Zenon
  <2> QED  BY <2>2, Zenon DEF Saves
<1> QED  BY <1>2, <1>3, Zenon

\* A list none of whose ptrs and keys has changed
LEMMA ListKept ==
  ASSUME IInv, Types', Recs \subseteq Recs', NEW o \in Heads,
         \A r \in At(o) : chain'[r] = chain[r], \A r \in List(o) : idx'[Rec(r)].key = idx[Rec(r)].key
  PROVE  SameList(o) /\ SoundList(chain', idx', o)
<1>1. Closed(chain, Recs, o) /\ 0 \notin Recs'
  BY Layout, TypesLinks, Zenon
<1>2. Closed(chain', Recs', o)
  BY TypesLinks, Zenon
<1>3. Reach(chain', Recs', o) = List(o)
  <2>1. \A r \in Reach(chain, Recs, o) \cup {o} : chain'[r] = chain[r]
    BY Zenon DEF At, List
  <2>2. Reach(chain', Recs', o) = Reach(chain, Recs, o)
    BY <1>1, <1>2, <2>1, ReachSame, SMT, Z3
  <2> QED  BY <2>2, Zenon DEF List
<1>4. SameList(o)
  BY <1>3, Zenon DEF SameList, KeyAt, List
<1>5. SoundList(chain, idx, o)
  BY Zenon DEF IInv, Chains
<1>6. Reach(chain', Places(idx'), o) = Reach(chain, Places(idx), o)
  BY <1>3, Zenon DEF Recs, List
<1>7. \A r \in Reach(chain, Places(idx), o) \cup {o} : chain'[r] = chain[r]
  BY Zenon DEF At, List, Recs
<1>8. \A r \in Reach(chain, Places(idx), o) : idx'[Rec(r)].key = idx[Rec(r)].key
  BY Zenon DEF List, Recs
<1>9. SoundList(chain', idx', o)
  BY <1>5, <1>6, <1>7, <1>8, ZenonT(30) DEF SoundList
<1> QED  BY <1>4, <1>9, Zenon

-----------------------------------------------------------------------------
(* _db_writedat *)

\* A data record is written over, or appended.
LEMMA DatOver ==
  ASSUME IInv, NEW d, d.datoff \in DOMAIN dat, d.datlen \in Nat, NEW data \in AllData \cup {Blank},
         writedat(d, data)
  PROVE  /\ dat' \in Seq([data : AllData \cup {Blank}, len : Nat]) /\ Len(dat') = Len(dat)
         /\ DOMAIN dat' = DOMAIN dat /\ dat'[d.datoff] = [data |-> data, len |-> d.datlen]
         /\ \A i \in DOMAIN dat : i # d.datoff => dat'[i] = dat[i]
<1> DEFINE r == [data |-> data, len |-> d.datlen]
<1>1. dat \in Seq([data : AllData \cup {Blank}, len : Nat])
  BY Zenon DEF IInv, Types
<1>2. r \in [data : AllData \cup {Blank}, len : Nat]
  BY Zenon
<1>3. d.datoff <= Len(dat)
  BY <1>1, SMT, Z3
<1>4. dat' = [dat EXCEPT ![d.datoff] = r]
  BY <1>3, Zenon DEF writedat
<1> HIDE DEF r
<1>5. dat' \in Seq([data : AllData \cup {Blank}, len : Nat]) /\ Len(dat') = Len(dat)
  BY <1>1, <1>2, <1>4, SMT, Z3
<1> QED  BY <1>1, <1>4, <1>5, Zenon DEF r

\* A data record that is written leaves what the process knows of its index record.
LEMMA DatUnmoved ==
  ASSUME IInv, NEW p \in Alives, NEW v \in Pcs \ Unlinking, Writes(p, v, db[p]), pc[p] \notin Unlinking,
         ptr' = ptr, idx' = idx
  PROVE  pc'[p] = v /\ db'[p] = db[p] /\ Unmoved(p)
<1>1. v \in Pcs
  BY Zenon
<1>2. /\ Moves(p) /\ pc'[p] = v /\ db'[p] = db[p] /\ op' = op /\ \A x : chainoff(x)' = chainoff(x)
  BY <1>1, WriteMoves, Zenon
<1>3. /\ chain' = chain /\ Recs' = Recs /\ (\A o : List(o)' = List(o) /\ At(o)' = At(o))
      /\ \A r : KeyAt(r)' = KeyAt(r)
  BY <1>2, QuietSame, Zenon
<1> QED  BY <1>2, <1>3, Zenon DEF Unmoved

\* All that the step changes is the data record at t.
DatOnly(t) ==
  /\ ptr' = ptr /\ idx' = idx /\ dat' \in Seq([data : AllData \cup {Blank}, len : Nat])
  /\ \A i \in DOMAIN dat : i \in DOMAIN dat' /\ (i # t => dat'[i] = dat[i])

\* A step that writes one data record which is nobody else's keeps the invariant.
LEMMA DatStep ==
  ASSUME IInv, NoneHalfDeleted, NEW p \in Alives, NEW v \in Pcs \ Unlinking, Writes(p, v, db[p]),
         pc[p] \notin Unlinking, NEW t, DatOnly(t), Records',
         \A q \in Alives : q # p => /\ pc[q] = "u_idx" \/ Adds(q) => db[q].datoff # t
                                    /\ pc[q] = "a_dat" => Len(dat') = Len(dat),
         Holds(p, v), GoesOn(p, v), Reaches(p, v, db[p])
  PROVE  IInv'
<1>1. Unmoved(p)
  BY DatUnmoved, Zenon DEF DatOnly
<1>2. v \in Pcs /\ db[p] \in DbType
  BY DbFacts, Zenon
<1>3. FilesAre
  <2>1. ptr \in [0 .. nhash + Len(idx) -> {0} \cup Recs]
    BY Zenon DEF IInv, Types
  <2>2. Len(idx) <= Len(idx)
    BY SMT, Z3 DEF IInv, Types
  <2> QED  BY <1>1, <2>1, <2>2, Zenon DEF FilesAre, DatOnly, IInv, Types, Unmoved
<1>4. Types'
  BY <1>2, <1>3, WriteTypes, Zenon
<1>5. SameShapes
  BY <1>1, Zenon DEF SameShapes, Unmoved
<1>6. Chains'
  BY <1>1, Zenon DEF IInv, Chains, Unmoved
<1>7. ASSUME NEW q \in Alives, q # p PROVE SameFor(q)
  <2>1. Local(q)
    BY Zenon DEF IInv
  <2>2. \A o : SameList(o)
    BY <1>1, Zenon DEF SameList, Unmoved
  <2>3. Owns(q) => \A o \in Heads : db[q].idxoff \notin List(o)'
    BY <1>1, <2>1, Zenon DEF Local, Owning, Unmoved
  <2>4. Adds(q) => db[q].datoff \in DOMAIN dat /\ \A j \in DOMAIN idx' : idx'[j].datoff # db[q].datoff
    BY <2>1, <1>1, Zenon DEF Local, Appending, Unmoved
  <2>5. pc[q] = "u_idx" => db[q].datoff \in DOMAIN dat
    <3>1. pc[q] = "u_idx" => Read(q)
      BY <2>1, Zenon DEF Local, Reading
    <3>2. \A r \in Recs : Rec(r) \in DOMAIN idx
      BY DbFacts, Zenon
    <3> QED  BY <3>1, <3>2, ZenonT(30) DEF Read, IInv, Records
  <2>6. pc[q] = "u_idx" \/ Adds(q) => db[q].datoff \in DOMAIN dat' /\ dat'[db[q].datoff] = dat[db[q].datoff]
    BY <1>7, <2>4, <2>5, Zenon DEF DatOnly
  <2>7. pc[q] = "a_dat" => Len(dat') = Len(dat)
    BY <1>7, Zenon
  <2> QED  BY <1>1, <2>2, <2>3, <2>4, <2>6, <2>7, Zenon DEF SameFor, Unmoved
<1> QED  BY <1>2, <1>4, <1>5, <1>6, <1>7, WriteStep, Zenon

\* Offsets and numbers of index records correspond.
LEMMA RecFacts ==
  ASSUME IInv
  PROVE  /\ \A r \in Recs : Rec(r) \in DOMAIN idx /\ nhash + Rec(r) = r
         /\ \A i \in DOMAIN idx : nhash + i \in Recs /\ Rec(nhash + i) = i
<1>1. idx \in Seq([key : Keys \cup {Blank}, keylen : Nat, datoff : Nat, datlen : Nat])
  BY Zenon DEF IInv, Types
<1> QED  BY <1>1, PlaceFacts, Zenon DEF Recs

\* The data record of an index record that a process has found, or owns, is no
\* other process's.
LEMMA DatOwn ==
  ASSUME IInv, NEW p \in Alives, Read(p),
         Owns(p) \/ \E o \in Heads : db[p].idxoff \in List(o)
  PROVE  /\ db[p].datoff \in DOMAIN dat /\ db[p].datlen = dat[db[p].datoff].len /\ db[p].datlen \in Nat
         /\ Rec(db[p].idxoff) \in DOMAIN idx /\ nhash + Rec(db[p].idxoff) = db[p].idxoff
         /\ \A i \in DOMAIN idx : idx[i].datoff = db[p].datoff => i = Rec(db[p].idxoff)
         /\ \A q \in Alives : q # p => (pc[q] = "u_idx" \/ Adds(q) => db[q].datoff # db[p].datoff)
<1> DEFINE x == db[p].idxoff
<1>1. /\ x \in Recs /\ Rec(x) \in DOMAIN idx /\ idx[Rec(x)].datoff = db[p].datoff
      /\ idx[Rec(x)].datlen = db[p].datlen /\ db[p].datlen \in Nat
  BY DbFacts, Zenon DEF Read
<1>2. nhash + Rec(x) = x
  BY <1>1, RecFacts, Zenon
<1>3. /\ db[p].datoff \in DOMAIN dat /\ db[p].datlen = dat[db[p].datoff].len
      /\ \A i \in DOMAIN idx : idx[i].datoff = db[p].datoff => i = Rec(x)
  BY <1>1, ZenonT(30) DEF IInv, Records
<1>4. ASSUME NEW q \in Alives, q # p, pc[q] = "u_idx" PROVE db[q].datoff # db[p].datoff
  <2>1. Local(q)
    BY Zenon DEF IInv
  <2>2. Owns(q) /\ Read(q)
    BY <1>4, <2>1, Zenon DEF Owns, Local, Reading
  <2>3. db[q].idxoff # x
    <3>1. CASE Owns(p)
      BY <1>4, <2>2, <3>1, Zenon DEF IInv, Apart
    <3>2. CASE \E o \in Heads : x \in List(o)
      BY <2>1, <2>2, <3>2, Zenon DEF Local, Owning
    <3> QED  BY <3>1, <3>2, Zenon
  <2>4. db[q].idxoff \in Recs /\ idx[Rec(db[q].idxoff)].datoff = db[q].datoff
    BY <2>2, Zenon DEF Read
  <2>5. Rec(db[q].idxoff) \in DOMAIN idx /\ nhash + Rec(db[q].idxoff) = db[q].idxoff
    BY <2>4, RecFacts, Zenon
  <2>6. Rec(db[q].idxoff) # Rec(x)
    BY <1>2, <2>3, <2>5, Zenon
  <2> QED  BY <1>3, <2>4, <2>5, <2>6, Zenon
<1>5. ASSUME NEW q \in Alives, Adds(q) PROVE db[q].datoff # db[p].datoff
  <2>1. \A i \in DOMAIN idx : idx[i].datoff # db[q].datoff
    BY <1>5, Zenon DEF IInv, Local, Appending
  <2> QED  BY <1>1, <2>1, Zenon
<1> QED  BY <1>1, <1>2, <1>3, <1>4, <1>5, Zenon

\* A process that has found its record
LEMMA FoundFacts ==
  ASSUME IInv, NEW p \in Alives, pc[p] \in FoundPcs
  PROVE  LET d == db[p]  c == chainoff(p) IN
         /\ c \in Heads /\ c # FREE_OFF /\ Read(p) /\ d.idxoff \in List(c) /\ d.idxoff \in Recs
         /\ KeyAt(d.idxoff) = op[p].key /\ d.ptroff \in At(c) /\ chain[d.ptroff] = d.idxoff
         /\ d.ptrval = chain[d.idxoff] /\ d \in DbType /\ d.idxoff # 0
<1> DEFINE c == chainoff(p)
<1>1. pc[p] \in ChainPcs
  BY PcSets, Zenon
<1>2. c \in Heads /\ c # FREE_OFF
  BY <1>1, CallFacts, Zenon
<1>3. /\ Read(p) /\ KeyAt(db[p].idxoff) = op[p].key /\ db[p].ptroff \in At(c)
      /\ chain[db[p].ptroff] = db[p].idxoff /\ db[p].ptrval = chain[db[p].idxoff]
  BY Zenon DEF IInv, Local, Reading, Walking
<1>4. db[p].idxoff \in Recs /\ db[p].idxoff # 0
  BY <1>3, Ptrs, Zenon DEF Read
<1>5. db[p].idxoff \in List(c)
  BY <1>2, <1>3, <1>4, WalkFacts, Zenon
<1> QED  BY <1>2, <1>3, <1>4, <1>5, DbFacts, Zenon

\* The fields of a data record.
LEMMA DataFields ==
  ASSUME NEW x, NEW d, NEW n, x = [data |-> d, len |-> n]
  PROVE  x.data = d /\ x.len = n
  BY Zenon

\* data has been written over the data of index record i, and over no other.
DataOver(i, data) ==
  /\ DOMAIN dat' = DOMAIN dat /\ idx' = idx
  /\ dat'[idx[i].datoff] = [data |-> data, len |-> dat[idx[i].datoff].len]
  /\ \A j \in DOMAIN dat : j # idx[i].datoff => dat'[j] = dat[j]

\* The data of the process's own index record is written over.
LEMMA OverStep ==
  ASSUME IInv, NoneHalfDeleted, NEW p \in Alives, NEW v \in Pcs \ Unlinking, Writes(p, v, db[p]),
         pc[p] \notin Unlinking \cup {"d_free", "d_idx"}, ptr' = ptr, idx' = idx,
         NEW data \in AllData \cup {Blank}, writedat(db[p], data),
         Read(p), Owns(p) \/ \E o \in Heads : db[p].idxoff \in List(o),
         KeyAt(db[p].idxoff) = Blank \/ data \in DataOf[KeyAt(db[p].idxoff)] \/ v \in {"d_free", "d_idx"},
         Holds(p, v), GoesOn(p, v), Reaches(p, v, db[p])
  PROVE  IInv'
  \* The index records and their data still fit when the data of one is written over.
<1>DatRecords. ASSUME IInv, p \in Alives, pc[p] \notin {"d_free", "d_idx"},
             \A q \in Procs : q # p => pc'[q] = pc[q] /\ db'[q] = db[q],
             NEW i \in DOMAIN idx, NEW data0, DataOver(i, data0),
             \/ idx[i].key = Blank \/ data0 \in DataOf[idx[i].key]
             \/ pc'[p] \in {"d_free", "d_idx"} /\ db'[p].idxoff = nhash + i
      PROVE  Records'
  <2> USE <1>DatRecords
  <2>1. p \in Procs /\ Records /\ idx' = idx /\ DOMAIN dat' = DOMAIN dat
    BY ZenonT(30) DEF IInv, Alives, DataOver
  <2>2. dat'[idx[i].datoff].data = data0 /\ dat'[idx[i].datoff].len = dat[idx[i].datoff].len
    <3> DEFINE y == dat'[idx[i].datoff]  n == dat[idx[i].datoff].len
    <3>1. y = [data |-> data0, len |-> n]
      BY Zenon DEF DataOver
    <3> HIDE DEF y, n
    <3>2. y.data = data0 /\ y.len = n
      BY <3>1, DataFields, Zenon
    <3> QED  BY <3>2, Zenon DEF y, n
  <2>3. ASSUME NEW j \in DOMAIN idx, j # i
        PROVE  dat'[idx[j].datoff] = dat[idx[j].datoff]
    BY <2>1, <2>3, Zenon DEF Records, DataOver
  <2>4. ASSUME NEW j \in DOMAIN idx
        PROVE  /\ idx[j].datoff \in DOMAIN dat' /\ dat'[idx[j].datoff].len = idx[j].datlen
               /\ \A k \in DOMAIN idx : idx[j].datoff = idx[k].datoff => j = k
               /\ idx[j].key # Blank /\ dat'[idx[j].datoff].data \notin DataOf[idx[j].key] =>
                    \E q \in Procs : pc'[q] \in {"d_free", "d_idx"} /\ db'[q].idxoff = nhash + j
    <3>1. CASE j = i
      <4>1. dat'[idx[i].datoff].len = idx[i].datlen /\ idx[i].datoff \in DOMAIN dat'
        BY <2>1, <2>2, Zenon DEF Records
      <4>2. idx[i].key # Blank /\ dat'[idx[i].datoff].data \notin DataOf[idx[i].key] =>
              \E q \in Procs : pc'[q] \in {"d_free", "d_idx"} /\ db'[q].idxoff = nhash + i
        BY <2>1, <2>2, Zenon
      <4>3. \A k \in DOMAIN idx : idx[i].datoff = idx[k].datoff => i = k
        BY <2>1, Zenon DEF Records
      <4> QED  BY <3>1, <4>1, <4>2, <4>3, Zenon
    <3>2. CASE j # i
      <4>1. ASSUME idx[j].key # Blank, dat'[idx[j].datoff].data \notin DataOf[idx[j].key]
            PROVE  \E q \in Procs : pc'[q] \in {"d_free", "d_idx"} /\ db'[q].idxoff = nhash + j
        <5>1. PICK q \in Procs : pc[q] \in {"d_free", "d_idx"} /\ db[q].idxoff = nhash + j
          BY <2>1, <2>3, <3>2, <4>1, Zenon DEF Records
        <5> QED  BY <5>1, Zenon
      <4> QED  BY <2>1, <2>3, <3>2, <4>1, Zenon DEF Records
    <3> QED  BY <3>1, <3>2, Zenon
  <2> QED  BY <2>1, <2>4, ZenonT(30) DEF Records
<1> DEFINE d == db[p]  i == Rec(d.idxoff)
<1>1. /\ d.datoff \in DOMAIN dat /\ d.datlen = dat[d.datoff].len /\ d.datlen \in Nat
      /\ i \in DOMAIN idx /\ nhash + i = d.idxoff
      /\ \A q \in Alives : q # p => (pc[q] = "u_idx" \/ Adds(q) => db[q].datoff # d.datoff)
  BY DatOwn, Zenon
<1>2. /\ dat' \in Seq([data : AllData \cup {Blank}, len : Nat]) /\ Len(dat') = Len(dat)
      /\ DOMAIN dat' = DOMAIN dat /\ dat'[d.datoff] = [data |-> data, len |-> d.datlen]
      /\ \A j \in DOMAIN dat : j # d.datoff => dat'[j] = dat[j]
  BY <1>1, DatOver, Zenon
<1>3. pc'[p] = v /\ db'[p] = d /\ \A q \in Procs : q # p => pc'[q] = pc[q] /\ db'[q] = db[q]
  <2>1. v \in Pcs
    BY Zenon
  <2> QED  BY <2>1, WriteMoves, ZenonT(30)
<1>4. idx[i].datoff = d.datoff /\ idx[i].key = KeyAt(d.idxoff)
  BY Zenon DEF Read, KeyAt
<1>5. Records'
  <2>1. DataOver(i, data)
    BY <1>1, <1>2, <1>4, Zenon DEF DataOver
  <2>3. \/ idx[i].key = Blank \/ data \in DataOf[idx[i].key]
        \/ pc'[p] \in {"d_free", "d_idx"} /\ db'[p].idxoff = nhash + i
    BY <1>1, <1>3, <1>4, Zenon
  <2>4. pc[p] \notin {"d_free", "d_idx"}
    BY Zenon
  <2> HIDE DEF i
  <2> QED  BY <1>1, <1>3, <2>1, <2>3, <2>4, <1>DatRecords, Zenon
<1>6. DatOnly(d.datoff)
  BY <1>2, Zenon DEF DatOnly
<1>7. \A q \in Alives : q # p => /\ pc[q] = "u_idx" \/ Adds(q) => db[q].datoff # d.datoff
                                 /\ pc[q] = "a_dat" => Len(dat') = Len(dat)
  BY <1>1, <1>2, Zenon
<1>8. pc[p] \notin Unlinking
  BY Zenon
<1> QED  BY <1>5, <1>6, <1>7, <1>8, DatStep, Zenon

\* A process that stores: what its call says
LEMMA StoreFacts ==
  ASSUME IInv, NEW p \in Alives, pc[p] \in StorePcs
  PROVE  /\ op[p].name \in {"insert", "replace", "store"} /\ op[p].key \in Keys /\ op[p].key # Blank
         /\ op[p].data \in DataOf[op[p].key] /\ op[p].data \in AllData
         /\ pc[p] \in ChainPcs /\ chainoff(p) \in Heads /\ chainoff(p) # FREE_OFF
         /\ Hash[op[p].key] = chainoff(p) /\ db[p] \in DbType
<1>1. pc[p] \in ChainPcs
  BY PcSets, Zenon
<1>2. /\ chainoff(p) \in Heads /\ chainoff(p) # FREE_OFF /\ op[p] \in Requests
      /\ op[p].key \in Keys /\ op[p].key # Blank
  BY <1>1, CallFacts, Zenon
<1>3. op[p].name \in {"insert", "replace", "store"}
  BY CallingIs, Zenon
<1>4. op[p].data \in DataOf[op[p].key] /\ op[p].data \in AllData
  BY <1>2, <1>3, RequestFacts, Zenon
<1> QED  BY <1>1, <1>2, <1>3, <1>4, DbFacts, Zenon DEF chainoff

-----------------------------------------------------------------------------
(* _db_writeptr *)

\* All that the step changes is the ptr at a, which becomes y.
PtrWritten(p, v, a, y) ==
  /\ Writes(p, v, db[p]) /\ idx' = idx /\ dat' = dat /\ writeptr(a, y)
  /\ a \in Heads \cup Recs /\ y \in {0} \cup Recs

PtrDone(p, v, a, y) ==
  /\ Types' /\ Moves(p) /\ Recs' = Recs /\ DOMAIN ptr = Heads \cup Recs
  /\ DOMAIN ptr' = Heads \cup Recs /\ ptr'[a] = y
  /\ \A r \in Heads \cup Recs : r # a => ptr'[r] = ptr[r]
  /\ pc'[p] = v /\ db'[p] = db[p] /\ op' = op /\ chainoff(p)' = chainoff(p)

\* What _db_writeptr does to the state.
LEMMA PtrFacts ==
  ASSUME IInv, NEW p \in Alives, NEW v \in Pcs, NEW a, NEW y, PtrWritten(p, v, a, y)
  PROVE  PtrDone(p, v, a, y)
<1>1. /\ Writes(p, v, db[p]) /\ idx' = idx /\ dat' = dat /\ ptr' = [ptr EXCEPT ![a] = y]
      /\ a \in Heads \cup Recs /\ y \in {0} \cup Recs
  BY Zenon DEF PtrWritten, writeptr
<1>2. Recs' = Recs /\ Heads \cup Recs = 0 .. nhash + Len(idx) /\ db[p] \in DbType
  BY <1>1, DbFacts, Zenon DEF Recs
<1>3. ptr \in [Heads \cup Recs -> {0} \cup Recs]
  BY Layout, Zenon
<1>4. ptr' \in [Heads \cup Recs -> {0} \cup Recs] /\ ptr'[a] = y
  BY <1>1, <1>3, Zenon
<1>5. \A r \in Heads \cup Recs : r # a => ptr'[r] = ptr[r]
  BY <1>1, <1>3, Zenon
<1>6. FilesAre
  <2>1. /\ idx \in Seq([key : Keys \cup {Blank}, keylen : Nat, datoff : Nat, datlen : Nat])
        /\ dat \in Seq([data : AllData \cup {Blank}, len : Nat])
    BY Zenon DEF IInv, Types
  <2>2. Len(idx) <= Len(idx)
    BY <2>1, SMT, Z3
  <2> QED  BY <1>1, <1>2, <1>4, <2>1, <2>2, Zenon DEF FilesAre
<1>7. Types'
  BY <1>1, <1>2, <1>6, WriteTypes, Zenon
<1>8. Moves(p) /\ pc'[p] = v /\ db'[p] = db[p] /\ op' = op /\ chainoff(p)' = chainoff(p)
  BY <1>1, WriteMoves, Zenon
<1> QED  BY <1>2, <1>3, <1>4, <1>5, <1>7, <1>8, Zenon DEF PtrDone

\* A list that a ptr write does not touch, for a process that unlinks neither before
\* nor after, or before and after.
LEMMA PtrList ==
  ASSUME IInv, NEW p \in Alives, NEW v \in Pcs, NEW a, NEW y, PtrWritten(p, v, a, y),
         NEW o \in Heads, \A r \in At(o) : chain'[r] = chain[r]
  PROVE  SameList(o) /\ SoundList(chain', idx', o)
<1>0. PtrDone(p, v, a, y)
  BY PtrFacts, Zenon
<1>1. Types' /\ Recs' = Recs /\ idx' = idx
  BY <1>0, Zenon DEF PtrWritten, PtrDone
<1>2. Recs \subseteq Recs' /\ \A r \in List(o) : idx'[Rec(r)].key = idx[Rec(r)].key
  BY <1>1, Zenon
<1> QED  BY <1>1, <1>2, ListKept, Zenon

\* The list that is written to is locked
Guards(p, c) ==
  \/ c = chainoff(p) /\ pc[p] \in ChainPcs /\ op[p].name # "fetch"
  \/ c = FREE_OFF /\ pc[p] \in FreePcs

\* Nobody else works on a list that a process has locked.
LEMMA GuardFacts ==
  ASSUME IInv, NEW p \in Alives, NEW c, Guards(p, c), NEW q \in Alives, q # p
  PROVE  /\ pc[q] \in ChainPcs => chainoff(q) \in Heads /\ chainoff(q) # c
         /\ pc[q] \in FreePcs => FREE_OFF # c
<1>1. pc[q] \in ChainPcs => chainoff(q) \in Heads /\ chainoff(q) # FREE_OFF
  BY CallFacts, Zenon
<1>2. CASE c = chainoff(p) /\ pc[p] \in ChainPcs /\ op[p].name # "fetch"
  <2>1. c # FREE_OFF
    BY <1>2, CallFacts, Zenon
  <2>2. pc[q] \in ChainPcs => chainoff(q) # c
    BY <1>2, Exclusion, Zenon
  <2> QED  BY <1>1, <2>1, <2>2, Zenon
<1>3. CASE c = FREE_OFF /\ pc[p] \in FreePcs
  <2>1. pc[q] \notin FreePcs
    BY <1>3, Exclusion, Zenon
  <2> QED  BY <1>1, <1>3, <2>1, Zenon
<1> QED  BY <1>2, <1>3, Zenon DEF Guards

\* ... and all but it are as they were
OneList(c) == \A o \in Heads : o # c => SameList(o)

\* p writes the ptr at a of the list c
ListWrite(p, c, a) ==
  /\ c \in Heads /\ Guards(p, c) /\ OneList(c) /\ Chains'
  /\ \A q \in Alives : q # p /\ Owns(q) => db[q].idxoff # a /\ db[q].idxoff \notin Reach(chain', Recs', c)

\* _db_writeptr keeps the invariant when it keeps the lists and is on a locked one.
LEMMA PtrStep ==
  ASSUME IInv, NEW p \in Alives, NEW v \in Pcs, NEW a, NEW y, PtrWritten(p, v, a, y),
         pc[p] \notin {"d_free", "d_idx"}, NEW c, ListWrite(p, c, a),
         Holds(p, v), GoesOn(p, v), Reaches(p, v, db[p])
  PROVE  IInv'
<1>0. PtrDone(p, v, a, y)
  BY PtrFacts, Zenon
<1>1. /\ Types' /\ Recs' = Recs /\ (\A r \in Heads \cup Recs : r # a => ptr'[r] = ptr[r])
      /\ Moves(p)
  BY <1>0, Zenon DEF PtrDone
<1>2. Writes(p, v, db[p]) /\ idx' = idx /\ dat' = dat
  BY Zenon DEF PtrWritten
<1>3. SameShapes
  BY <1>1, <1>2, Zenon DEF SameShapes
<1>4. Records'
  <2>1. \A i : (\E q \in Procs : pc[q] \in {"d_free", "d_idx"} /\ db[q].idxoff = nhash + i)
                 => \E q \in Procs : pc'[q] \in {"d_free", "d_idx"} /\ db'[q].idxoff = nhash + i
    BY <1>1, Zenon DEF Moves
  <2>2. Records
    BY Zenon DEF IInv
  <2> QED  BY <1>2, <2>1, <2>2, Zenon DEF Records
<1>5. ASSUME NEW q \in Alives, q # p PROVE SameFor(q)
  <2>1. Local(q)
    BY Zenon DEF IInv
  <2>2. /\ pc[q] \in ChainPcs => SameList(chainoff(q))
        /\ pc[q] \in FreePcs => SameList(FREE_OFF)
    <3>1. /\ pc[q] \in ChainPcs => chainoff(q) \in Heads /\ chainoff(q) # c
          /\ pc[q] \in FreePcs => FREE_OFF # c
      BY <1>5, GuardFacts, Zenon DEF ListWrite
    <3> QED  BY <3>1, Ptrs, Zenon DEF OneList, ListWrite
  <2>3. Owns(q) => ptr'[db[q].idxoff] = ptr[db[q].idxoff] /\ \A o \in Heads : db[q].idxoff \notin List(o)'
    <3>1. Owns(q) => db[q].idxoff \in Recs /\ \A o \in Heads : db[q].idxoff \notin List(o)
      BY <2>1, Zenon DEF Local, Owning
    <3>2. Owns(q) => ptr'[db[q].idxoff] = ptr[db[q].idxoff]
      <4>1. Owns(q) => db[q].idxoff # a
        BY <1>5, Zenon DEF ListWrite
      <4> QED  BY <1>1, <3>1, <4>1, Zenon
    <3>3. \A o \in Heads : o # c => List(o)' = List(o)
      BY Zenon DEF OneList, SameList, ListWrite
    <3>4. Owns(q) => db[q].idxoff \notin List(c)'
      BY <1>5, Zenon DEF ListWrite, List
    <3> QED  BY <3>1, <3>2, <3>3, <3>4, Zenon
  <2>4. Adds(q) => db[q].datoff \in DOMAIN dat' /\ \A j \in DOMAIN idx' : idx'[j].datoff # db[q].datoff
    BY <2>1, <1>2, Zenon DEF Local, Appending
  <2>5. pc[q] = "u_idx" => db[q].datoff \in DOMAIN dat'
    <3>1. pc[q] = "u_idx" => Read(q)
      BY <2>1, Zenon DEF Local, Reading
    <3> QED  BY <1>2, <3>1, RecFacts, Zenon DEF Read, IInv, Records
  <2> QED  BY <1>2, <2>2, <2>3, <2>4, <2>5, Zenon DEF SameFor
<1>6. Chains'
  BY Zenon DEF ListWrite
<1> QED  BY <1>1, <1>2, <1>3, <1>4, <1>5, <1>6, WriteStep, Zenon

\* A process puts the record it owns at the front of a list.
Pushes(p, v, c) ==
  LET x == db[p].idxoff IN
  /\ PtrWritten(p, v, c, x) /\ Owns(p) /\ c \in Heads /\ Guards(p, c)
  /\ chain'[c] = x /\ chain'[x] = chain[c]
  /\ \A r \in Heads \cup Recs : r # c /\ r # x => chain'[r] = chain[r]
  /\ IF c = FREE_OFF THEN KeyAt(x) = Blank ELSE KeyAt(x) \in Keys /\ Hash[KeyAt(x)] = c
  /\ c # FREE_OFF => \A r \in List(c) : KeyAt(r) # KeyAt(x)

\* A record that is put at the front of its list leaves all the lists sound.
LEMMA PushLists ==
  ASSUME IInv, NEW p \in Alives, NEW v \in Pcs, NEW c, Pushes(p, v, c)
  PROVE  ListWrite(p, c, c)
<1> DEFINE x == db[p].idxoff
<1>1. PtrWritten(p, v, c, x) /\ Owns(p) /\ c \in Heads /\ Guards(p, c)
  BY Zenon DEF Pushes
<1>2. Types' /\ Recs' = Recs /\ idx' = idx
  <2>1. PtrDone(p, v, c, x)
    BY <1>1, PtrFacts, Zenon
  <2> QED  BY <1>1, <2>1, Zenon DEF PtrDone, PtrWritten
<1>3. x \in Recs /\ \A o \in Heads : x \notin List(o)
  BY <1>1, Zenon DEF IInv, Local, Owning
<1>4. ASSUME NEW o \in Heads, o # c PROVE SameList(o) /\ SoundList(chain', idx', o)
  <2>1. x \notin At(o) /\ c \notin At(o)
    <3>1. o \notin Recs /\ c \notin Recs /\ List(o) \subseteq Recs
      BY <1>1, Layout, Zenon
    <3> QED  BY <1>3, <1>4, <3>1, Zenon DEF At
  <2>2. \A r \in At(o) : chain'[r] = chain[r]
    <3>1. \A r \in At(o) : r \in Heads \cup Recs
      BY Ptrs, Zenon
    <3> QED  BY <2>1, <3>1, Zenon DEF Pushes
  <2> QED  BY <1>1, <2>2, PtrList, Zenon
<1>5. Reach(chain', Places(idx), c) \subseteq List(c) \cup {x} /\ SoundList(chain', idx, c)
  <2>2. Closed(chain, Places(idx), c) /\ 0 \notin Places(idx) /\ c \notin Places(idx)
    BY <1>1, Layout, Zenon DEF Recs
  <2>3. Closed(chain', Places(idx), c)
    <3>1. Closed(chain', Recs', c)
      BY <1>1, <1>2, TypesLinks, Zenon
    <3> QED  BY <1>2, <3>1, Zenon DEF Recs
  <2>4. SoundList(chain, idx, c)
    BY <1>1, Zenon DEF IInv, Chains
  <2>5. /\ x \in Places(idx) /\ x \notin Reach(chain, Places(idx), c)
    BY <1>1, <1>3, Zenon DEF List, Recs
  <2>6. \A r \in Reach(chain, Places(idx), c) : chain'[r] = chain[r]
    <3>1. List(c) \subseteq Recs /\ c \notin List(c)
      BY <1>1, Layout, Zenon
    <3>2. \A r \in List(c) : chain'[r] = chain[r]
      BY <1>1, <1>3, <3>1, Zenon DEF Pushes
    <3> QED  BY <3>2, Zenon DEF List, Recs
  <2>7. /\ chain'[c] = x /\ chain'[x] = chain[c]
        /\ IF c = FREE_OFF THEN idx[Rec(x)].key = Blank
                           ELSE idx[Rec(x)].key \in Keys /\ Hash[idx[Rec(x)].key] = c
        /\ c # FREE_OFF => \A r \in Reach(chain, Places(idx), c) : idx[Rec(r)].key # idx[Rec(x)].key
    BY Zenon DEF Pushes, KeyAt, List, Recs
  <2>8. PutFirst(chain, chain', idx, c, x)
    BY <2>2, <2>3, <2>4, <2>5, <2>6, <2>7, Zenon DEF PutFirst
  <2>9. OnList(chain, chain', idx, c, x)
    BY <2>8, PushSound, Zenon
  <2> QED  BY <2>9, Zenon DEF OnList, List, Recs
<1>6. OneList(c) /\ Chains'
  BY <1>2, <1>4, <1>5, Zenon DEF OneList, Chains
<1>7. \A q \in Alives : q # p /\ Owns(q) => db[q].idxoff # c /\ db[q].idxoff \notin Reach(chain', Recs', c)
  <2>1. Reach(chain', Recs', c) \subseteq List(c) \cup {x}
    BY <1>2, <1>5, Zenon DEF Recs
  <2>2. \A q \in Alives : Owns(q) => db[q].idxoff \in Recs /\ db[q].idxoff \notin List(c)
    BY <1>1, Zenon DEF IInv, Local, Owning
  <2>3. \A q \in Alives : q # p /\ Owns(q) => db[q].idxoff # x
    BY <1>1, Zenon DEF IInv, Apart
  <2>4. c \notin Recs
    BY <1>1, Layout, Zenon
  <2> QED  BY <2>1, <2>2, <2>3, <2>4, Zenon
<1> QED  BY <1>1, <1>6, <1>7, Zenon DEF ListWrite

\* A record is put on its chain: the last write of a store.
LEMMA LinkStep ==
  ASSUME IInv, NoneHalfDeleted, NEW p \in Alives, pc[p] \in {"u_link", "a_link"},
         writeptr(chainoff(p), db[p].idxoff), Goto(p, "unlock"),
         UNCHANGED <<idx, dat, db>>, locks' = locks, Alive
  PROVE  IInv'
<1> DEFINE x == db[p].idxoff  c == chainoff(p)
<1>1. /\ pc[p] \notin Unlinking /\ pc[p] \notin {"d_free", "d_idx"} /\ pc[p] \in StorePcs
      /\ pc[p] \in AbsentPcs /\ "unlock" \in Pcs /\ "unlock" \notin Unlinking
      /\ Holds(p, "unlock") /\ GoesOn(p, "unlock") /\ Owns(p) /\ pc[p] \in ChainPcs \ Unlinking
      /\ pc[p] \in StorePcs \ {"r_dat", "ptr", "reptr"}
  BY Zenon DEF Owns, Holds, GoesOn, AbsentPcs, Pcs, Unlinking, ChainPcs, FreePcs, DatPcs, IdxPcs, NextPcs, ScanPcs,
         DeletePcs, StorePcs
<1>2. Writes(p, "unlock", db[p])
  BY SameDb, Zenon DEF Writes
<1>3. /\ c \in Heads /\ op[p].key \in Keys /\ Hash[op[p].key] = c /\ c # FREE_OFF
      /\ op[p].name \in {"insert", "replace", "store"}
  BY <1>1, StoreFacts, Zenon
<1>4. /\ x \in Recs /\ (\A o \in Heads : x \notin List(o)) /\ KeyAt(x) = op[p].key
      /\ ptr[x] = db[p].save
  BY <1>1, Zenon DEF IInv, Local, Owning
<1>5. db[p].save = chain[c]
  BY <1>1, SaveIs, Zenon
<1>6. PtrWritten(p, "unlock", c, x)
  BY <1>2, <1>3, <1>4, Zenon DEF PtrWritten
<1>7. /\ Moves(p) /\ DOMAIN ptr = Heads \cup Recs /\ DOMAIN ptr' = Heads \cup Recs /\ ptr'[c] = x
      /\ (\A r \in Heads \cup Recs : r # c => ptr'[r] = ptr[r]) /\ pc'[p] = "unlock"
  <2>1. PtrDone(p, "unlock", c, x)
    BY <1>1, <1>6, PtrFacts, Zenon
  <2> QED  BY <2>1, Zenon DEF PtrDone
<1>8. /\ \A r \in Heads \cup Recs : ptr'[r] = ptr[r] => chain'[r] = chain[r]
      /\ \A r \in Heads \cup Recs :
           (\A q \in Alives : pc[q] \in Unlinking => r \notin At(chainoff(q))) => chain'[r] = ptr'[r]
  BY <1>1, <1>7, ChainKept, Zenon
<1>9. ASSUME NEW q \in Alives, pc[q] \in Unlinking PROVE c \notin At(chainoff(q)) /\ x \notin At(chainoff(q))
  <2>1. q \in Procs
    BY DbFacts, Zenon
  <2>2. chainoff(q) \in Heads /\ pc[q] \in ChainPcs
    BY <1>9, <2>1, UnlinkerAt, Zenon
  <2>3. chainoff(q) # c
    <3>1. q # p /\ op[p].name # "fetch" /\ pc[p] \in ChainPcs
      BY <1>1, <1>3, <1>9, Zenon
    <3> QED  BY <2>2, <3>1, Exclusion, Zenon
  <2>4. c \notin Recs /\ chainoff(q) \notin Recs /\ List(chainoff(q)) \subseteq Recs
    BY <1>3, <2>2, Layout, Zenon
  <2> QED  BY <1>4, <2>2, <2>3, <2>4, Zenon DEF At
<1>10. c \in Heads \cup Recs /\ x \in Heads \cup Recs /\ c # x
  <2>1. c \notin Recs
    BY <1>3, Layout, Zenon
  <2> QED  BY <1>3, <1>4, <2>1, Zenon
<1>11. /\ chain'[c] = x /\ chain'[x] = chain[c]
       /\ \A r \in Heads \cup Recs : r # c /\ r # x => chain'[r] = chain[r]
  <2>1. chain'[c] = ptr'[c] /\ chain'[x] = ptr'[x]
    BY <1>8, <1>9, <1>10, Zenon
  <2> QED  BY <1>4, <1>5, <1>7, <1>8, <1>10, <2>1, Zenon
<1>12. \A r \in List(c) : KeyAt(r) # op[p].key
  BY <1>1, Zenon DEF IInv, Local, Storing
<1>13. Guards(p, c)
  BY <1>1, <1>3, Zenon DEF Guards
<1>14. Pushes(p, "unlock", c)
  BY <1>1, <1>3, <1>4, <1>6, <1>11, <1>12, <1>13, Zenon DEF Pushes
<1>15. ListWrite(p, c, c)
  BY <1>1, <1>14, PushLists, Zenon
<1>16. Reaches(p, "unlock", db[p])
  BY Zenon DEF Reaches, ReadPcs, WalkPcs, Unlinking, FoundPcs, AbsentPcs, StorePcs,
         TakePcs, OwnPcs, AddPcs
<1> QED  BY <1>1, <1>6, <1>15, <1>16, PtrStep, Zenon

\* The key a process stores stays off a chain that is left alone.
LEMMA StoringKept ==
  ASSUME IInv, NEW p \in Alives, NEW c, c = chainoff(p), c = chainoff(p)', SameList(c), op' = op,
         pc[p] \in AbsentPcs,
         pc'[p] \in StorePcs \ {"r_dat", "ptr", "reptr"} => db'[p].save = chain[c]
  PROVE  Storing(p)'
<1>1. \A r \in List(c) : KeyAt(r) # op[p].key
  BY Zenon DEF IInv, Local, Storing
<1>2. Reach(chain', Recs', c) = List(c) /\ \A r \in List(c) : idx'[Rec(r)].key = KeyAt(r)
  BY Zenon DEF SameList, List, KeyAt
<1>3. chain'[c] = chain[c]
  BY Zenon DEF SameList, At
<1>4. \A r \in Reach(chain', Recs', chainoff(p)') : idx'[Rec(r)].key # op'[p].key
  BY <1>1, <1>2, Zenon
<1>5. pc'[p] \in StorePcs \ {"r_dat", "ptr", "reptr"} => db'[p].save = chain'[chainoff(p)']
  BY <1>3, Zenon
<1> QED  BY <1>4, <1>5, Zenon DEF Storing, List, KeyAt

-----------------------------------------------------------------------------
(* _db_writeidx *)

\* The record that DB names is written over: k becomes its key, y its chain ptr.
IdxWritten(p, v, e, k, y) ==
  /\ Writes(p, v, e) /\ dat' = dat /\ writeidx(db[p], k, y) /\ Read(p)
  /\ y \in {0} \cup Recs /\ k \in Keys \cup {Blank} /\ e \in DbType

IdxDone(p, v, e, k, y) ==
  LET x == db[p].idxoff IN
  /\ Types' /\ Moves(p) /\ Recs' = Recs /\ SameShapes /\ Len(idx') = Len(idx) /\ DOMAIN idx' = DOMAIN idx
  /\ DOMAIN ptr = Heads \cup Recs /\ DOMAIN ptr' = Heads \cup Recs /\ ptr'[x] = y
  /\ \A r \in Heads \cup Recs : r # x => ptr'[r] = ptr[r]
  /\ \A r \in Recs : r # x => idx'[Rec(r)].key = idx[Rec(r)].key
  /\ x \in Recs /\ idx'[Rec(x)].key = k
  /\ pc'[p] = v /\ db'[p] = e /\ op' = op /\ chainoff(p)' = chainoff(p)

\* What _db_writeidx does to the state when it writes over a record.
LEMMA IdxFacts ==
  ASSUME IInv, NEW p \in Alives, NEW v \in Pcs, NEW e, NEW k, NEW y, IdxWritten(p, v, e, k, y)
  PROVE  IdxDone(p, v, e, k, y)
<1> DEFINE d == db[p]  x == d.idxoff
           R == [key : Keys \cup {Blank}, keylen : Nat, datoff : Nat, datlen : Nat]
           z == [key |-> k, keylen |-> d.keylen, datoff |-> d.datoff, datlen |-> d.datlen]
<1>1. /\ Writes(p, v, e) /\ dat' = dat /\ writeidx(d, k, y) /\ Read(p)
      /\ y \in {0} \cup Recs /\ k \in Keys \cup {Blank} /\ e \in DbType
  BY Zenon DEF IdxWritten
<1>2. /\ x \in Recs /\ d.keylen = idx[Rec(x)].keylen /\ d.datoff = idx[Rec(x)].datoff
      /\ d.datlen = idx[Rec(x)].datlen
  BY <1>1, Zenon DEF Read
<1>3. idx \in Seq(R) /\ dat \in Seq([data : AllData \cup {Blank}, len : Nat])
  BY Zenon DEF IInv, Types
<1>4. /\ Rec(x) \in DOMAIN idx /\ (\A r \in Recs : Rec(r) \in DOMAIN idx /\ nhash + Rec(r) = r)
  BY <1>2, RecFacts, Zenon
<1>5. z \in R
  <2>1. idx[Rec(x)].keylen \in Nat /\ idx[Rec(x)].datoff \in Nat /\ idx[Rec(x)].datlen \in Nat
    BY <1>2, DbFacts, Zenon
  <2>2. d.keylen \in Nat /\ d.datoff \in Nat /\ d.datlen \in Nat
    BY <1>2, <2>1, Zenon
  <2> QED  BY <1>1, <2>2, Zenon
<1> HIDE DEF R
<1>6. idx' = [idx EXCEPT ![Rec(x)] = z]
  <2>1. Rec(x) <= Len(idx)
    BY <1>3, <1>4, SMT, Z3
  <2> QED  BY <1>1, <2>1, Zenon DEF writeidx
<1>7. ptr \in [Heads \cup Recs -> {0} \cup Recs] /\ Heads \cup Recs = 0 .. nhash + Len(idx)
  BY Layout, DbFacts, Zenon
<1>8. ptr' = [o \in Heads \cup Recs |-> IF o = x THEN y ELSE ptr[o]]
  <2>1. DOMAIN ptr = Heads \cup Recs /\ (Heads \cup Recs) \cup {x} = Heads \cup Recs
    BY <1>2, <1>7, Zenon
  <2>2. ptr' = [o \in DOMAIN ptr \cup {x} |-> IF o = x THEN y ELSE ptr[o]]
    BY <1>1, Zenon DEF writeidx
  <2> QED  BY <2>1, <2>2, Zenon
<1>9. /\ ptr' \in [Heads \cup Recs -> {0} \cup Recs] /\ ptr'[x] = y
      /\ \A r \in Heads \cup Recs : r # x => ptr'[r] = ptr[r]
  BY <1>1, <1>2, <1>7, <1>8, Zenon
<1>10. /\ idx' \in Seq(R) /\ Len(idx') = Len(idx) /\ DOMAIN idx' = DOMAIN idx /\ idx'[Rec(x)] = z
       /\ \A i \in DOMAIN idx : i # Rec(x) => idx'[i] = idx[i]
  <2> HIDE DEF z, x, d
  <2> QED  BY <1>3, <1>4, <1>5, <1>6, SMT, Z3
<1>11. Recs' = Recs
  BY <1>10, Zenon DEF Recs, Places
<1>12. FilesAre
  <2>1. Len(idx) <= Len(idx')
    BY <1>3, <1>10, SMT, Z3
  <2>2. ptr' \in [0 .. nhash + Len(idx') -> {0} \cup Recs']
    BY <1>7, <1>9, <1>10, <1>11, Zenon
  <2> QED  BY <1>1, <1>3, <1>10, <2>1, <2>2, Zenon DEF FilesAre, R
<1>13. Types'
  BY <1>1, <1>12, WriteTypes, Zenon
<1>14. ASSUME NEW r \in Recs, r # x PROVE idx'[Rec(r)] = idx[Rec(r)]
  <2>1. Rec(r) # Rec(x) /\ Rec(r) \in DOMAIN idx
    BY <1>2, <1>4, <1>14, Zenon
  <2> QED  BY <1>10, <2>1, Zenon
<1>15. /\ idx'[Rec(x)].key = k /\ idx'[Rec(x)].keylen = idx[Rec(x)].keylen
       /\ idx'[Rec(x)].datoff = idx[Rec(x)].datoff /\ idx'[Rec(x)].datlen = idx[Rec(x)].datlen
  <2>1. z.key = k /\ z.keylen = d.keylen /\ z.datoff = d.datoff /\ z.datlen = d.datlen
    BY Zenon
  <2> QED  BY <1>2, <1>10, <2>1, Zenon
<1>16. SameShapes
  BY <1>11, <1>14, <1>15, Zenon DEF SameShapes
<1>17. Moves(p) /\ pc'[p] = v /\ db'[p] = e /\ op' = op /\ chainoff(p)' = chainoff(p)
  BY <1>1, WriteMoves, Zenon
<1> QED  BY <1>2, <1>7, <1>9, <1>10, <1>11, <1>13, <1>14, <1>15, <1>16, <1>17, ZenonT(30) DEF IdxDone

\* What a record written over does to the lists and to the others
Spares(p, c) ==
  /\ c \in Heads /\ Guards(p, c) /\ OneList(c) /\ Chains' /\ Reach(chain', Recs', c) \subseteq List(c)
  /\ \A q \in Alives : q # p /\ (Owns(q) \/ pc[q] = "n_dat") => db[q].idxoff # db[p].idxoff

\* _db_writeidx over a record keeps the invariant when it keeps the lists and the record
\* is nobody else's.
LEMMA IdxStep ==
  ASSUME IInv, NEW p \in Alives, NEW v \in Pcs, NEW e, NEW k, NEW y, IdxWritten(p, v, e, k, y),
         k = Blank \/ dat[db[p].datoff].data \in DataOf[k], NEW c, Spares(p, c),
         Holds(p, v), GoesOn(p, v), Reaches(p, v, e)
  PROVE  IInv'
  \* The index records and their data still fit when an index record is written over.
<1>IdxRecords. ASSUME IInv, p \in Alives, NEW v0, NEW e0, NEW k0, NEW y0, IdxDone(p, v0, e0, k0, y0), dat' = dat, Read(p),
             k0 = Blank \/ dat[db[p].datoff].data \in DataOf[k0]
      PROVE  Records'
  <2> USE <1>IdxRecords
  <2> DEFINE x == db[p].idxoff
  <2>1. /\ DOMAIN idx' = DOMAIN idx /\ SameShapes /\ Moves(p) /\ idx'[Rec(x)].key = k0 /\ x \in Recs
        /\ \A r \in Recs : r # x => idx'[Rec(r)].key = idx[Rec(r)].key
    BY Zenon DEF IdxDone
  <2>2. db[p].datoff = idx[Rec(x)].datoff
    BY Zenon DEF Read
  <2>3. ASSUME NEW i \in DOMAIN idx
        PROVE  /\ idx'[i].datoff = idx[i].datoff /\ idx'[i].datlen = idx[i].datlen
               /\ nhash + i # x => idx'[i].key = idx[i].key
               /\ nhash + i = x => i = Rec(x)
    <3>1. nhash + i \in Recs /\ Rec(nhash + i) = i
      BY RecFacts, Zenon
    <3> QED  BY <2>1, <3>1, Zenon DEF SameShapes
  <2>4. Records
    BY Zenon DEF IInv
  <2>5. ASSUME NEW i \in DOMAIN idx, idx'[i].key # Blank, dat[idx[i].datoff].data \notin DataOf[idx'[i].key]
        PROVE  \E q \in Procs : pc'[q] \in {"d_free", "d_idx"} /\ db'[q].idxoff = nhash + i
    <3>1. nhash + i # x
      BY <2>1, <2>2, <2>3, <2>5, Zenon
    <3>2. PICK q \in Procs : pc[q] \in {"d_free", "d_idx"} /\ db[q].idxoff = nhash + i
      BY <2>3, <2>4, <2>5, <3>1, Zenon DEF Records
    <3>3. q # p
      BY <3>1, <3>2, Zenon
    <3> QED  BY <2>1, <3>2, <3>3, Zenon DEF Moves
  <2>6. ASSUME NEW i \in DOMAIN idx'
        PROVE  /\ idx'[i].datoff \in DOMAIN dat /\ dat[idx'[i].datoff].len = idx'[i].datlen
               /\ \A j \in DOMAIN idx' : idx'[i].datoff = idx'[j].datoff => i = j
               /\ idx'[i].key # Blank /\ dat[idx'[i].datoff].data \notin DataOf[idx'[i].key] =>
                    \E q \in Procs : pc'[q] \in {"d_free", "d_idx"} /\ db'[q].idxoff = nhash + i
    BY <2>1, <2>3, <2>4, <2>5, Zenon DEF Records
  <2> QED  BY <2>6, Zenon DEF Records
<1> DEFINE x == db[p].idxoff
<1>1. IdxDone(p, v, e, k, y) /\ dat' = dat /\ Read(p) /\ Writes(p, v, e)
  BY IdxFacts, Zenon DEF IdxWritten
<1>2. Records'
  BY <1>1, <1>IdxRecords, Zenon
<1>3. /\ Types' /\ SameShapes /\ Recs' = Recs /\ Len(idx') = Len(idx) /\ DOMAIN idx' = DOMAIN idx
      /\ (\A r \in Heads \cup Recs : r # x => ptr'[r] = ptr[r])
      /\ \A r \in Recs : r # x => idx'[Rec(r)].key = idx[Rec(r)].key
  BY <1>1, Zenon DEF IdxDone
<1>4. ASSUME NEW q \in Alives, q # p PROVE SameFor(q)
  <2>1. Local(q)
    BY Zenon DEF IInv
  <2>2. /\ pc[q] \in ChainPcs => SameList(chainoff(q))
        /\ pc[q] \in FreePcs => SameList(FREE_OFF)
    <3>1. /\ pc[q] \in ChainPcs => chainoff(q) \in Heads /\ chainoff(q) # c
          /\ pc[q] \in FreePcs => FREE_OFF # c
      BY <1>4, GuardFacts, Zenon DEF Spares
    <3> QED  BY <3>1, Ptrs, Zenon DEF OneList, Spares
  <2>3. Owns(q) \/ pc[q] = "n_dat" => db[q].idxoff # x
    BY <1>4, Zenon DEF Spares
  <2>4. /\ Owns(q) => db[q].idxoff \in Recs /\ \A o \in Heads : db[q].idxoff \notin List(o)
        /\ pc[q] = "n_dat" => db[q].idxoff \in Recs
    <3>1. Owns(q) => db[q].idxoff \in Recs /\ \A o \in Heads : db[q].idxoff \notin List(o)
      BY <2>1, Zenon DEF Local, Owning
    <3>2. pc[q] = "n_dat" => Read(q)
      BY <2>1, Zenon DEF Local, Reading
    <3> QED  BY <3>1, <3>2, Zenon DEF Read
  <2>5. Owns(q) => \A o \in Heads : db[q].idxoff \notin List(o)'
    <3>1. \A o \in Heads : o # c => List(o)' = List(o)
      BY Zenon DEF OneList, SameList, Spares
    <3>2. Owns(q) => db[q].idxoff \notin List(c)'
      BY <2>4, Zenon DEF Spares, List
    <3> QED  BY <2>4, <3>1, <3>2, Zenon
  <2>6. /\ Owns(q) => idx'[Rec(db[q].idxoff)].key = idx[Rec(db[q].idxoff)].key
                      /\ ptr'[db[q].idxoff] = ptr[db[q].idxoff]
        /\ pc[q] = "n_dat" => idx'[Rec(db[q].idxoff)].key = idx[Rec(db[q].idxoff)].key
    BY <1>3, <2>3, <2>4, Zenon
  <2>7. Adds(q) => db[q].datoff \in DOMAIN dat' /\ \A j \in DOMAIN idx' : idx'[j].datoff # db[q].datoff
    <3>1. \A j \in DOMAIN idx' : idx'[j].datoff = idx[j].datoff
      BY <1>3, RecFacts, ZenonT(30) DEF SameShapes
    <3> QED  BY <1>1, <1>3, <2>1, <3>1, Zenon DEF Local, Appending
  <2>8. pc[q] = "u_idx" => db[q].datoff \in DOMAIN dat'
    <3>1. pc[q] = "u_idx" => Read(q)
      BY <2>1, Zenon DEF Local, Reading
    <3> QED  BY <1>1, <3>1, RecFacts, Zenon DEF Read, IInv, Records
  <2> QED  BY <1>1, <1>3, <2>2, <2>5, <2>6, <2>7, <2>8, Zenon DEF SameFor
<1>5. Chains'
  BY Zenon DEF Spares
<1> QED  BY <1>1, <1>2, <1>3, <1>4, <1>5, WriteStep, Zenon

\* A record is added at the end of the index file
Added(x, k) ==
  /\ Types' /\ SameShapes /\ Recs' = Recs \cup {x} /\ x \notin Recs
  /\ DOMAIN idx' = DOMAIN idx \cup {Rec(x)} /\ Rec(x) \notin DOMAIN idx
  /\ \A i \in DOMAIN idx : idx'[i] = idx[i]
  /\ DOMAIN ptr = Heads \cup Recs /\ DOMAIN ptr' = Heads \cup Recs'
  /\ \A r \in Heads \cup Recs : ptr'[r] = ptr[r]
  /\ idx'[Rec(x)].key = k
=============================================================================
