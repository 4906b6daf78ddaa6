---------------------------- MODULE Transactions ----------------------------
(***************************************************************************)
(* Dbx: the transactions a ModelManager opens on demand.  The clones of a  *)
(* manager share one holder behind a mutex: the first begin_txn takes a    *)
(* connection of the pool and opens a transaction, further ones count, and *)
(* the end of the last level commits or rolls back.  Tasks that share a    *)
(* manager interleave at every await; the mutex is held across those       *)
(* inside Dbx, and a task may return, or be dropped, at any of them.       *)
(***************************************************************************)
EXTENDS Naturals, FiniteSets

CONSTANTS
  Tasks,       \* futures that work with the model layer
  Managers,    \* groups of ModelManagers that are clones of each other
  WithTxn,     \* those made by new_with_txn
  Uses,        \* the manager each task works with
  MaxConns,    \* connections of the pool
  MaxDepth,    \* bound: levels one task has open
  MaxWrites,   \* bound: statements that write, of each task
  None

Writes == Tasks \X (1..MaxWrites)

ASSUME TransactionsAssumption ==
  /\ IsFiniteSet(Tasks) /\ IsFiniteSet(Managers)
  /\ WithTxn \subseteq Managers
  /\ Uses \in [Tasks -> Managers]
  /\ MaxConns \in Nat \ {0} /\ MaxDepth \in Nat /\ MaxWrites \in Nat
  /\ None \notin Tasks /\ None \notin Writes

VARIABLES
  table,    \* the writes that are stored
  holder,   \* txn_holder of each manager
  mutex,    \* the task that has locked it
  free,     \* idle connections of the pool
  task,     \* the call each task awaits
  depth,    \* levels each task has begun and not ended
  wrote,    \* writes each task has issued
  mine      \* those issued since the task's outermost open begin

vars == <<table, holder, mutex, free, task, depth, wrote, mine>>

-----------------------------------------------------------------------------
\* An open transaction.  ok: no statement in it has failed.
TxnHolder == [counter : Nat \ {0}, work : SUBSET Writes, ok : BOOLEAN]
Closed == [counter |-> 0, work |-> {}, ok |-> TRUE]
Started == [counter |-> 1, work |-> {}, ok |-> TRUE]

Ops == {"none", "begin", "commit", "rollback", "write", "count"}

\* What a task waits for: the mutex, a connection of the pool, an answer on that
\* connection, an answer in the transaction, or the end of the one it has taken.
Pcs == {"run", "lock", "pool", "conn", "txn", "end", "gone"}

Task == [pc : Pcs, op : Ops, write : Writes \cup {None},
         taken : TxnHolder \cup {Closed}]

Waits(pc, op, w) == [pc |-> pc, op |-> op, write |-> w, taken |-> Closed]
Running == Waits("run", "none", None)
Gone == Waits("gone", "none", None)

Mgr(t) == Uses[t]
Open(m) == holder[m] # Closed
At(t, pc) == task[t].pc = pc
Goto(t, pc) == task' = [task EXCEPT ![t].pc = pc]
Return(t) == task' = [task EXCEPT ![t] = Running]
Lock(t) == mutex' = [mutex EXCEPT ![Mgr(t)] = t]
\* The guard goes out of scope; a task that holds none releases nothing.
Unlock(t) == mutex' = [mutex EXCEPT ![Mgr(t)] = IF @ = t THEN None ELSE @]

\* A task that nobody shares an open manager with.
Sole(t) ==
  \A u \in Tasks \ {t} : Mgr(u) = Mgr(t) => At(u, "gone") /\ depth[u] = 0

-----------------------------------------------------------------------------
(* Callers.  A task ends only levels that it has begun; when nobody else   *)
(* can have a level open, it may also call to no purpose, as after an      *)
(* error.                                                                  *)

Call(t, op) ==
  /\ At(t, "run")
  /\ op = "begin" => depth[t] < MaxDepth
  /\ op \in {"commit", "rollback"} => depth[t] > 0 \/ Sole(t)
  /\ op \in {"begin", "commit"} => Mgr(t) \in WithTxn   \* else refused at once
  /\ LET pc == IF op = "count" \/ (op = "write" /\ Mgr(t) \notin WithTxn)
               THEN "pool" ELSE "lock"
         w == <<t, wrote[t] + 1>>
     IN  \/ /\ op = "write" /\ wrote[t] < MaxWrites
            /\ wrote' = [wrote EXCEPT ![t] = @ + 1]
            /\ mine' = [mine EXCEPT ![t] = IF depth[t] > 0 THEN @ \cup {w} ELSE {}]
            /\ task' = [task EXCEPT ![t] = Waits(pc, op, w)]
         \/ /\ op # "write"
            /\ task' = [task EXCEPT ![t] = Waits(pc, op, None)]
            /\ UNCHANGED <<wrote, mine>>
  /\ UNCHANGED <<table, holder, mutex, free, depth>>

\* The task returns, perhaps early and with levels open.
Finish(t) ==
  /\ At(t, "run")
  /\ task' = [task EXCEPT ![t] = Gone]
  /\ UNCHANGED <<table, holder, mutex, free, depth, wrote, mine>>

-----------------------------------------------------------------------------
(* Dbx: what happens once the mutex is locked.                             *)

Locked(t, op) == At(t, "lock") /\ task[t].op = op /\ mutex[Mgr(t)] = None

BeginAnew(t) ==                          \* every begin opens a transaction
  /\ Locked(t, "begin")
  /\ Lock(t) /\ Goto(t, "pool")
  /\ UNCHANGED <<table, holder, free, depth, wrote, mine>>

Begin(t) ==
  /\ Locked(t, "begin")
  /\ \/ /\ Open(Mgr(t))
        /\ holder' = [holder EXCEPT ![Mgr(t)].counter = @ + 1]
        /\ depth' = [depth EXCEPT ![t] = @ + 1]
        /\ mine' = [mine EXCEPT ![t] = IF depth[t] = 0 THEN {} ELSE @]
        /\ Return(t)
        /\ UNCHANGED mutex
     \/ /\ ~Open(Mgr(t))
        /\ Lock(t) /\ Goto(t, "pool")
        /\ UNCHANGED <<holder, depth, mine>>
  /\ UNCHANGED <<table, free, wrote>>

EndsLevelEarly(t, op) ==                 \* any level ends the transaction
  /\ Locked(t, op)
  /\ \/ /\ ~Open(Mgr(t))
        /\ Return(t)
        /\ UNCHANGED <<holder, mutex, depth>>
     \/ /\ Open(Mgr(t))
        /\ holder' = [holder EXCEPT ![Mgr(t)] = Closed]
        /\ depth' = [depth EXCEPT ![t] = @ - 1]
        /\ task' = [task EXCEPT ![t].pc = "end", ![t].taken = holder[Mgr(t)]]
        /\ Lock(t)
  /\ UNCHANGED <<table, free, wrote, mine>>

\* The counter as commit_txn and rollback_txn move it: above one they only count,
\* else they take the holder out and await the end of the transaction.
EndsLevel(t, op) ==
  /\ Locked(t, op)
  /\ LET h == holder[Mgr(t)]
     IN  \/ /\ ~Open(Mgr(t))                  \* NoTxn, TxnCantCommitNoOpenTxn
            /\ Return(t)
            /\ UNCHANGED <<holder, mutex, depth>>
         \/ /\ Open(Mgr(t)) /\ h.counter > 1
            /\ holder' = [holder EXCEPT ![Mgr(t)].counter = @ - 1]
            /\ depth' = [depth EXCEPT ![t] = @ - 1]
            /\ Return(t)
            /\ UNCHANGED mutex
         \/ /\ Open(Mgr(t)) /\ h.counter = 1
            /\ holder' = [holder EXCEPT ![Mgr(t)] = Closed]
            /\ depth' = [depth EXCEPT ![t] = @ - 1]
            /\ task' = [task EXCEPT ![t].pc = "end", ![t].taken = h]
            /\ Lock(t)
  /\ UNCHANGED <<table, free, wrote, mine>>

Rollback(t) == EndsLevel(t, "rollback")
Commit(t) == EndsLevel(t, "commit")

\* fetch_one, fetch_optional, fetch_all, execute with with_txn.
Statement(t) ==
  /\ Locked(t, "write")
  /\ Lock(t)
  /\ Goto(t, IF Open(Mgr(t)) THEN "txn" ELSE "pool")
  /\ UNCHANGED <<table, holder, free, depth, wrote, mine>>

AcquireNoTimeout(t) ==                   \* a pool that waits for ever
  /\ At(t, "pool") /\ free > 0
  /\ free' = free - 1 /\ Goto(t, "conn")
  /\ UNCHANGED <<table, holder, mutex, depth, wrote, mine>>

\* The pool hands out a connection, or gives up after its acquire timeout.
Acquire(t) ==
  /\ At(t, "pool")
  /\ \/ free > 0 /\ free' = free - 1 /\ Goto(t, "conn") /\ UNCHANGED mutex
     \/ free' = free /\ Return(t) /\ Unlock(t)
  /\ UNCHANGED <<table, holder, depth, wrote, mine>>

\* BEGIN is answered: the holder keeps the connection, or has none.
Opened(t) ==
  /\ At(t, "conn") /\ task[t].op = "begin"
  /\ \/ /\ holder' = [holder EXCEPT ![Mgr(t)] = Started]
        /\ depth' = [depth EXCEPT ![t] = @ + 1]
        /\ mine' = [mine EXCEPT ![t] = {}]
        /\ free' = free
     \/ free' = free + 1 /\ UNCHANGED <<holder, depth, mine>>
  /\ Return(t) /\ Unlock(t)
  /\ UNCHANGED <<table, wrote>>

\* A statement of its own: stored, or failed with or without effect.  count always
\* runs so, beside the transaction.
Autocommitted(t) ==
  /\ At(t, "conn") /\ task[t].op \in {"write", "count"}
  /\ table' \in {table, table \cup ({task[t].write} \ {None})}
  /\ free' = free + 1
  /\ Return(t) /\ Unlock(t)
  /\ UNCHANGED <<holder, depth, wrote, mine>>

\* A statement in the transaction.  Once one has failed, no later one succeeds.
InTxn(t) ==
  /\ At(t, "txn")
  /\ LET h == holder[Mgr(t)]
     IN  \/ /\ h.ok
            /\ holder' = [holder EXCEPT ![Mgr(t)].work = @ \cup {task[t].write}]
         \/ holder' = [holder EXCEPT ![Mgr(t)].ok = FALSE]
  /\ Return(t) /\ Unlock(t)
  /\ UNCHANGED <<table, free, depth, wrote, mine>>

\* The transaction that was taken ends, and its connection goes back.  A failed
\* commit may have stored the work; one after a failed statement stores nothing.
Ended(t) ==
  /\ At(t, "end")
  /\ LET h == task[t].taken
     IN  table' \in {table, IF task[t].op = "commit" /\ h.ok
                            THEN table \cup h.work ELSE table}
  /\ free' = free + 1
  /\ Return(t) /\ Unlock(t)
  /\ UNCHANGED <<holder, depth, wrote, mine>>

-----------------------------------------------------------------------------
\* A task is dropped at its await: the guard and the connection are released,
\* and a statement or commit it has sent may have taken effect.
Abandon(t) ==
  /\ task[t].pc \in {"lock", "pool", "conn", "txn", "end"}
  /\ table' \in {table} \cup
       (IF At(t, "conn") /\ task[t].op = "write" THEN {table \cup {task[t].write}} ELSE {})
       \cup (IF At(t, "end") /\ task[t].op = "commit" /\ task[t].taken.ok
             THEN {table \cup task[t].taken.work} ELSE {})
  /\ \/ holder' = holder
     \/ /\ At(t, "txn") /\ holder[Mgr(t)].ok
        /\ holder' = [holder EXCEPT ![Mgr(t)].work = @ \cup {task[t].write}]
  /\ free' = IF At(t, "conn") \/ At(t, "end") THEN free + 1 ELSE free
  /\ task' = [task EXCEPT ![t] = Gone]
  /\ Unlock(t)
  /\ UNCHANGED <<depth, wrote, mine>>

\* The last clone of a manager is dropped, and with it an open transaction.
DropManager(m) ==
  /\ Open(m)
  /\ \A t \in Tasks : Mgr(t) = m => At(t, "gone")
  /\ holder' = [holder EXCEPT ![m] = Closed]
  /\ free' = free + 1
  /\ UNCHANGED <<table, mutex, task, depth, wrote, mine>>

-----------------------------------------------------------------------------
Init ==
  /\ table = {}
  /\ holder = [m \in Managers |-> Closed]
  /\ mutex = [m \in Managers |-> None]
  /\ free = MaxConns
  /\ task = [t \in Tasks |-> Running]
  /\ depth = [t \in Tasks |-> 0]
  /\ wrote = [t \in Tasks |-> 0]
  /\ mine = [t \in Tasks |-> {}]

Served(t) == Begin(t) \/ Rollback(t) \/ Commit(t) \/ Statement(t)
Answered(t) == Opened(t) \/ Autocommitted(t) \/ InTxn(t) \/ Ended(t)

Next ==
  \/ \E t \in Tasks :
       \/ \E op \in Ops \ {"none"} : Call(t, op)
       \/ Begin(t) \/ Rollback(t) \/ Commit(t) \/ Statement(t)
       \/ Acquire(t)
       \/ Opened(t) \/ Autocommitted(t) \/ InTxn(t) \/ Ended(t)
       \/ Finish(t) \/ Abandon(t)
  \/ \E m \in Managers : DropManager(m)

Spec == Init /\ [][Next]_vars

\* tokio's mutex serves its waiters in turn, the pool answers within its acquire
\* timeout, and Postgres answers a statement or breaks its connection.  Nothing is
\* assumed of what callers do between their calls.
FairSpec ==
  /\ Spec
  /\ \A t \in Tasks :
       SF_vars(Served(t)) /\ WF_vars(Acquire(t)) /\ WF_vars(Answered(t))

-----------------------------------------------------------------------------
(* Properties.                                                             *)

TypeOK ==
  /\ table \subseteq Writes
  /\ holder \in [Managers -> TxnHolder \cup {Closed}]
  /\ mutex \in [Managers -> Tasks \cup {None}]
  /\ free \in 0..MaxConns
  /\ task \in [Tasks -> Task]
  /\ depth \in [Tasks -> 0..MaxDepth]
  /\ wrote \in [Tasks -> 0..MaxWrites]
  /\ mine \in [Tasks -> SUBSET Writes]

\* A transaction is all or nothing for every task in it: what a task has written
\* since its begin is not stored before it has ended its level, whichever levels of
\* others begin or end meanwhile and whatever fails, and never if it is dropped or
\* returns early instead.
WorkHidden == \A t \in Tasks : depth[t] > 0 => mine[t] \cap table = {}

\* Every call into Dbx returns: tasks that hold the mutex, or an open transaction
\* and with it a connection, never wait for each other for ever.
CallsEnd == \A t \in Tasks : ~At(t, "run") ~> At(t, "run") \/ At(t, "gone")

-----------------------------------------------------------------------------
(* Transactions implements FlatTransactions.                               *)

\* A write is done once the call that made it has returned.
Done == {w \in Writes : w[2] <= wrote[w[1]] /\ task[w[1]].write # w}

\* The transaction of a manager is in its holder, or with the task that ends it.
Ends(t, m) == Mgr(t) = m /\ At(t, "end")
TxnOf(m) ==
  LET t == CHOOSE x \in Tasks : Ends(x, m)
      Txn(st, h) == [st |-> st, work |-> h.work, ok |-> h.ok]
  IN  IF Open(m) THEN Txn("open", holder[m])
      ELSE IF \E x \in Tasks : Ends(x, m) THEN Txn(task[t].op, task[t].taken)
      ELSE Txn("none", Closed)

Flat ==
  INSTANCE FlatTransactions
  WITH tried  <- Done,
       txn    <- [m \in Managers |-> TxnOf(m)],
       inside <- {t \in Tasks : depth[t] > 0},
       gone   <- {t \in Tasks : At(t, "gone")}

\* Counters, mutexes, connections and failed calls come to one flat transaction per
\* manager: whichever task begins and ends levels in which order, and is dropped at
\* which await, the work of all of them is stored together, or not at all.
TransactionsImplemented == Flat!Spec

-----------------------------------------------------------------------------
(* The inductive invariant.                                                *)

Levels(m) ==
  {x \in Tasks \X (1..MaxDepth) : Mgr(x[1]) = m /\ x[2] <= depth[x[1]]}

Dropped(m) == ~Open(m) /\ \A t \in Tasks : Mgr(t) = m => At(t, "gone")

\* The counter of a manager is the number of levels its tasks have open.
LevelsCounted ==
  \A m \in Managers : Dropped(m) \/ holder[m].counter = Cardinality(Levels(m))

\* A manager without transactions never has one.
PlainStaysPlain ==
  \A t \in Tasks : Mgr(t) \notin WithTxn => depth[t] = 0 /\ ~Open(Mgr(t))

\* A task that waits inside Dbx holds the mutex of its manager, unless it needs none;
\* a transaction is open if it waits in one, and none if it waits for anything else.
MutexHeld ==
  \A t \in Tasks :
    /\ At(t, "txn") => mutex[Mgr(t)] = t /\ Open(Mgr(t))
    /\ At(t, "end") => mutex[Mgr(t)] = t /\ ~Open(Mgr(t))
    /\ task[t].pc \in {"pool", "conn"} /\ Mgr(t) \in WithTxn /\ task[t].op # "count" =>
         mutex[Mgr(t)] = t /\ ~Open(Mgr(t))

\* What the task of each call may still do.
CallsSound ==
  \A t \in Tasks :
    LET c == task[t] IN
    /\ c.op = "write" => c.write \in {t} \X (1..wrote[t])
    /\ c.op # "write" => c.write = None
    /\ c.pc = "lock" => c.op \in {"begin", "commit", "rollback", "write"}
    /\ c.pc \in {"pool", "conn"} => c.op \in {"begin", "write", "count"}
    /\ c.pc = "txn" => c.op = "write"
    /\ c.op \in {"begin", "commit"} \/ (c.pc = "lock" /\ c.op = "write") =>
         Mgr(t) \in WithTxn
    /\ c.op = "begin" => depth[t] < MaxDepth
    /\ c.pc = "lock" /\ c.op \in {"commit", "rollback"} => depth[t] > 0 \/ Sole(t)

\* A task that awaits nothing has no call; one that ends a transaction holds that of
\* a manager with transactions.
CallsSettled ==
  \A t \in Tasks :
    /\ task[t].pc \in {"run", "gone"} => task[t].op = "none"
    /\ At(t, "end") => task[t].op \in {"commit", "rollback"} /\ Mgr(t) \in WithTxn

\* Writes belong to a task of the manager in whose transaction they are, and a task
\* issues none twice.
Issued(m) == {w \in Writes : Mgr(w[1]) = m /\ w[2] <= wrote[w[1]]}

WritesOwned ==
  /\ \A w \in table : w[2] <= wrote[w[1]]
  /\ \A m \in Managers : holder[m].work \subseteq Issued(m)
  /\ \A t \in Tasks : task[t].taken.work \subseteq Issued(Mgr(t))
  /\ \A t \in Tasks : mine[t] \subseteq {t} \X (1..wrote[t])

\* Every connection is idle, in an open transaction, or in use by one task.
OpenManagers == {m \in Managers : Open(m)}
Busy == {t \in Tasks : task[t].pc \in {"conn", "end"}}

ConnsAccounted == free + Cardinality(OpenManagers) + Cardinality(Busy) = MaxConns

TxInv ==
  /\ TypeOK /\ LevelsCounted /\ PlainStaysPlain /\ MutexHeld /\ CallsSound
  /\ CallsSettled /\ WritesOwned /\ ConnsAccounted /\ WorkHidden

=============================================================================
