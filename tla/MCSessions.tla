----------------------------- MODULE MCSessions -----------------------------
(***************************************************************************)
(* Three small systems checked together, for safety only: the print        *)
(* command with the client threads of printd (PrintSession), the opening   *)
(* of the database (DbOpen) and the memory-order programs (StoreOrder).    *)
(* which says the one that runs; the others stay in an initial state.      *)
(***************************************************************************)
EXTENDS Integers, Sequences, TLC

CONSTANTS m1, m2, m3, NULL

\* The configuration file with the given keywords.
Lines(s) ==
  SelectSeq(<< <<"x">>, <<"printer", "q">>, <<"printserver", "h">> >>, LAMBDA l : l[1] \in s)
\* Two clients, one slow and one call that fails; a third client that comes when one has been
\* served; no print server; no printer.
PrintConfigs ==
  {[lines |-> Lines({"x", "printer", "printserver"}), clients |-> {m1, m2}, later |-> {},
    slow |-> {m1}, faults |-> 1, len |-> 3],
   [lines |-> Lines({"printer", "printserver"}), clients |-> {m1, m2}, later |-> {m3},
    slow |-> {}, faults |-> 0, len |-> 0],
   [lines |-> Lines({"x", "printer"}), clients |-> {m1, m2}, later |-> {},
    slow |-> {}, faults |-> 0, len |-> 0],
   [lines |-> Lines({"printserver"}), clients |-> {m1, m2}, later |-> {},
    slow |-> {}, faults |-> 0, len |-> 0]}

\* One process creates the database, which exists or not; the others create or open it.
Creates == {"O_CREAT", "O_TRUNC"}
DbSetups ==
  {[flags |-> (m1 :> Creates @@ m2 :> x @@ m3 :> y), exists |-> e, dies |-> k] :
     x \in {Creates, {}}, y \in {Creates, {"O_CREAT"}, {}}, e \in BOOLEAN, k \in {{}, {m1}}}

OrderProgs == {"release", "storeloadreorder", "goatomic"}

VARIABLES which,
          pr_config, pr_cl, pr_conn, pr_th, pr_mem, pr_d,
          db_setup, db_p, db_idx, db_dat, db_lock, db_g,
          so_prog, so_th, so_buf, so_mem

pr_vars == <<pr_config, pr_cl, pr_conn, pr_th, pr_mem, pr_d>>
db_vars == <<db_setup, db_p, db_idx, db_dat, db_lock, db_g>>
so_vars == <<so_prog, so_th, so_buf, so_mem>>
vars == <<which, pr_vars, db_vars, so_vars>>

Spooler == INSTANCE PrintSession WITH
  Clients <- {m1, m2, m3}, Addr <- 1 .. 3, HDR <- 2, IOBUFSZ <- 2, NAddrs <- 1, Configs <- PrintConfigs,
  config <- pr_config, cl <- pr_cl, conn <- pr_conn, th <- pr_th, mem <- pr_mem, d <- pr_d
Opening == INSTANCE DbOpen WITH
  Procs <- {m1, m2, m3}, Setups <- DbSetups, setup <- db_setup, p <- db_p, idx <- db_idx,
  dat <- db_dat, lock <- db_lock, g <- db_g
Order == INSTANCE StoreOrder WITH
  Progs <- OrderProgs, LOOPCNT <- 2, prog <- so_prog, th <- so_th, buf <- so_buf, mem <- so_mem

Init ==
  /\ which \in {"print", "dbopen", "order"}
  /\ which # "print" => pr_config = CHOOSE x \in PrintConfigs : TRUE
  /\ which # "dbopen" => db_setup = CHOOSE x \in DbSetups : TRUE
  /\ which # "order" => so_prog = "goatomic"
  /\ Spooler!Init /\ Opening!Init /\ Order!Init

Next ==
  /\ UNCHANGED which
  /\ \/ which = "print" /\ Spooler!Next /\ UNCHANGED <<db_vars, so_vars>>
     \/ which = "dbopen" /\ Opening!Next /\ UNCHANGED <<pr_vars, so_vars>>
     \/ which = "order" /\ Order!Next /\ UNCHANGED <<pr_vars, db_vars>>

Spec == Init /\ [][Next]_vars

-----------------------------------------------------------------------------
\* printd (add_worker, client_cleanup): as long as no two clients were served at once, the list
\* holds exactly the threads that serve one, no node is used after free, and a thread that is
\* gone has closed its connection.
WorkersListed == Spooler!WorkersListed

\* print and client_thread: what is spooled is the beginning of the file, in order; a job that is
\* reported or queued has its control file, and with it its whole file, unless the client was
\* interrupted or its pause was taken for the end; while the daemon is up a job with a control
\* file whose thread is gone is in the queue.
JobWhole == Spooler!JobWhole

\* db_open: once no process is inside it the index has its hash table and every record stored
\* since it was emptied, with its data, unless a store met a creator that had still to empty one
\* of the files, or a creator died.
TableWhole == Opening!TableWhole

\* release.c and goatomic.go: what is stored before a release store is seen with it; no round of
\* two atomic stores ends with both missed.
StoresOrdered == Order!StoresOrdered

\* kill_workers (printd.c): "Cancel (kill) all outstanding workers."
KillsAll == Spooler!KillsAll
=============================================================================
