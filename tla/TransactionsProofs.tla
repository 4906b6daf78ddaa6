------------------------- MODULE TransactionsProofs -------------------------
(***************************************************************************)
(* Theorems about Transactions for any tasks, managers, pool and bounds:   *)
(* the counter of a manager is the number of levels its tasks have open,   *)
(* connections are neither lost nor made, and no part of a transaction is  *)
(* stored while a task in it has a level open.                             *)
(***************************************************************************)
EXTENDS Transactions, FiniteSetTheorems, TLAPS

USE DEF Mgr, At

\* The records a task goes through.
LEMMA TaskRecords ==
  /\ \A pc \in Pcs, op \in Ops, w \in Writes \cup {None} : Waits(pc, op, w) \in Task
  /\ \A pc, op, w : /\ Waits(pc, op, w).pc = pc /\ Waits(pc, op, w).op = op
                    /\ Waits(pc, op, w).write = w /\ Waits(pc, op, w).taken = Closed
  /\ Running \in Task /\ Gone \in Task
  /\ Running.pc = "run" /\ Running.op = "none" /\ Running.write = None
  /\ Running.taken = Closed
  /\ Gone.pc = "gone" /\ Gone.op = "none" /\ Gone.write = None /\ Gone.taken = Closed
BY DEF Waits, Running, Gone, Task, Pcs, Ops

\* A holder is closed, or counts at least one level.
LEMMA Holders ==
  ASSUME TypeOK, NEW m \in Managers
  PROVE  /\ Open(m) => holder[m] \in TxnHolder
         /\ ~Open(m) => holder[m].counter = 0 /\ holder[m].work = {}
         /\ holder[m].counter \in Nat /\ holder[m].work \subseteq Writes
         /\ holder[m].ok \in BOOLEAN
         /\ Open(m) <=> holder[m].counter # 0
<1>1. holder[m] \in TxnHolder \cup {Closed}
  BY DEF TypeOK
<1>2. CASE holder[m] = Closed
  BY <1>2 DEF Open, Closed
<1>3. CASE holder[m] \in TxnHolder
  <2>1. holder[m].counter \in Nat \ {0} /\ holder[m].work \in SUBSET Writes
    BY <1>3 DEF TxnHolder
  <2>2. holder[m].ok \in BOOLEAN
    BY <1>3 DEF TxnHolder
  <2>3. holder[m] # Closed
    BY <2>1 DEF Closed
  <2> QED BY <1>3, <2>1, <2>2, <2>3 DEF Open
<1> QED BY <1>1, <1>2, <1>3

LEMMA UsesManagers == \A t \in Tasks : Uses[t] \in Managers
BY TransactionsAssumption

\* What a call does to the task that makes it.
LEMMA CallShape ==
  ASSUME NEW t \in Tasks, NEW op \in Ops \ {"none"}, Call(t, op), TypeOK
  PROVE  /\ task[t].pc = "run"
         /\ \E pc \in {"lock", "pool"} : \E w \in Writes \cup {None} :
              /\ task' = [task EXCEPT ![t] = Waits(pc, op, w)]
              /\ pc = "lock" => op # "count" /\ (op = "write" => Mgr(t) \in WithTxn)
              /\ pc = "pool" => op = "count" \/ (op = "write" /\ Mgr(t) \notin WithTxn)
              /\ \/ /\ op = "write" /\ w = <<t, wrote[t] + 1>>
                    /\ wrote[t] < MaxWrites /\ wrote' = [wrote EXCEPT ![t] = @ + 1]
                    /\ mine' = [mine EXCEPT ![t] = IF depth[t] > 0 THEN @ \cup {w} ELSE {}]
                 \/ op # "write" /\ w = None /\ UNCHANGED <<wrote, mine>>
         /\ op = "begin" => depth[t] < MaxDepth
         /\ op \in {"commit", "rollback"} => depth[t] > 0 \/ Sole(t)
         /\ op \in {"begin", "commit"} => Mgr(t) \in WithTxn
         /\ UNCHANGED <<table, holder, mutex, free, depth>>
<1> DEFINE pc == IF op = "count" \/ (op = "write" /\ Mgr(t) \notin WithTxn)
                 THEN "pool" ELSE "lock"
           w == IF op = "write" THEN <<t, wrote[t] + 1>> ELSE None
<1>1. pc \in {"lock", "pool"}
  OBVIOUS
<1>2. op = "write" => wrote[t] < MaxWrites
  BY DEF Call
<1>3. w \in Writes \cup {None}
  BY <1>2, TransactionsAssumption DEF TypeOK, Writes
<1>4. task' = [task EXCEPT ![t] = Waits(pc, op, w)]
  BY DEF Call
<1>5. \/ /\ op = "write" /\ w = <<t, wrote[t] + 1>>
         /\ wrote[t] < MaxWrites /\ wrote' = [wrote EXCEPT ![t] = @ + 1]
         /\ mine' = [mine EXCEPT ![t] = IF depth[t] > 0 THEN @ \cup {w} ELSE {}]
      \/ op # "write" /\ w = None /\ UNCHANGED <<wrote, mine>>
  BY DEF Call
<1>6. /\ pc = "lock" => op # "count" /\ (op = "write" => Mgr(t) \in WithTxn)
      /\ pc = "pool" => op = "count" \/ (op = "write" /\ Mgr(t) \notin WithTxn)
  OBVIOUS
<1>7. \E p \in {"lock", "pool"} : \E x \in Writes \cup {None} :
        /\ task' = [task EXCEPT ![t] = Waits(p, op, x)]
        /\ p = "lock" => op # "count" /\ (op = "write" => Mgr(t) \in WithTxn)
        /\ p = "pool" => op = "count" \/ (op = "write" /\ Mgr(t) \notin WithTxn)
        /\ \/ /\ op = "write" /\ x = <<t, wrote[t] + 1>>
              /\ wrote[t] < MaxWrites /\ wrote' = [wrote EXCEPT ![t] = @ + 1]
              /\ mine' = [mine EXCEPT ![t] = IF depth[t] > 0 THEN @ \cup {x} ELSE {}]
           \/ op # "write" /\ x = None /\ UNCHANGED <<wrote, mine>>
  <2> HIDE DEF pc, w
  <2> QED BY <1>1, <1>3, <1>4, <1>5, <1>6
<1> QED BY <1>7 DEF Call

-----------------------------------------------------------------------------
(* Counting levels.                                                        *)

LEMMA LevelsFinite ==
  ASSUME NEW m \in Managers
  PROVE  IsFiniteSet(Levels(m)) /\ Cardinality(Levels(m)) \in Nat
<1>1. IsFiniteSet(1..MaxDepth)
  BY FS_Interval, TransactionsAssumption
<1>2. IsFiniteSet(Tasks \X (1..MaxDepth))
  BY <1>1, FS_Product, TransactionsAssumption
<1> QED BY <1>2, FS_Subset, FS_CardinalityType DEF Levels

LEMMA LevelBegun ==
  ASSUME NEW t \in Tasks, depth \in [Tasks -> 0..MaxDepth], depth[t] < MaxDepth,
         depth' = [depth EXCEPT ![t] = @ + 1]
  PROVE  \A m \in Managers :
           Cardinality(Levels(m)') =
             IF m = Mgr(t) THEN Cardinality(Levels(m)) + 1 ELSE Cardinality(Levels(m))
<1> SUFFICES ASSUME NEW m \in Managers
             PROVE  Cardinality(Levels(m)') =
                      IF m = Mgr(t) THEN Cardinality(Levels(m)) + 1
                      ELSE Cardinality(Levels(m))
  OBVIOUS
<1>1. CASE m # Mgr(t)
  <2>1. Levels(m)' = Levels(m)
    BY <1>1 DEF Levels
  <2> QED BY <1>1, <2>1
<1>2. CASE m = Mgr(t)
  <2>1. <<t, depth[t] + 1>> \notin Levels(m)
    BY DEF Levels
  <2>2. Levels(m)' = Levels(m) \cup {<<t, depth[t] + 1>>}
    BY <1>2, TransactionsAssumption DEF Levels
  <2> QED BY <1>2, <2>1, <2>2, LevelsFinite, FS_AddElement
<1> QED BY <1>1, <1>2

LEMMA LevelEnded ==
  ASSUME NEW t \in Tasks, depth \in [Tasks -> 0..MaxDepth], depth[t] > 0,
         depth' = [depth EXCEPT ![t] = @ - 1]
  PROVE  \A m \in Managers :
           Cardinality(Levels(m)') =
             IF m = Mgr(t) THEN Cardinality(Levels(m)) - 1 ELSE Cardinality(Levels(m))
<1> SUFFICES ASSUME NEW m \in Managers
             PROVE  Cardinality(Levels(m)') =
                      IF m = Mgr(t) THEN Cardinality(Levels(m)) - 1
                      ELSE Cardinality(Levels(m))
  OBVIOUS
<1>1. CASE m # Mgr(t)
  <2>1. Levels(m)' = Levels(m)
    BY <1>1 DEF Levels
  <2> QED BY <1>1, <2>1
<1>2. CASE m = Mgr(t)
  <2>1. <<t, depth[t]>> \in Levels(m)
    BY <1>2, TransactionsAssumption DEF Levels
  <2>2. Levels(m)' = Levels(m) \ {<<t, depth[t]>>}
    BY <1>2, TransactionsAssumption DEF Levels
  <2> QED BY <1>2, <2>1, <2>2, LevelsFinite, FS_RemoveElement
<1> QED BY <1>1, <1>2

\* While a task of a manager is there, the counter is right; if none is open, none
\* of its tasks has a level.
LEMMA Counted ==
  ASSUME TypeOK, LevelsCounted, NEW t \in Tasks, task[t].pc # "gone"
  PROVE  /\ holder[Mgr(t)].counter = Cardinality(Levels(Mgr(t)))
         /\ ~Open(Mgr(t)) => \A u \in Tasks : Mgr(u) = Mgr(t) => depth[u] = 0
<1>1. holder[Mgr(t)].counter = Cardinality(Levels(Mgr(t)))
  BY UsesManagers DEF LevelsCounted, Dropped
<1>2. ASSUME ~Open(Mgr(t)), NEW u \in Tasks, Mgr(u) = Mgr(t)
      PROVE  depth[u] = 0
  <2>1. Levels(Mgr(t)) = {}
    BY <1>1, <1>2, Holders, UsesManagers, LevelsFinite, FS_EmptySet
  <2>2. depth[u] # 0 => <<u, 1>> \in Levels(Mgr(t))
    BY <1>2, TransactionsAssumption DEF Levels, TypeOK
  <2> QED BY <2>1, <2>2
<1> QED BY <1>1, <1>2

\* A task that ends a level has one.
LEMMA EndsOwnLevel ==
  ASSUME TxInv, NEW t \in Tasks, NEW op \in {"commit", "rollback"}, Locked(t, op),
         Open(Mgr(t))
  PROVE  depth[t] \in 1..MaxDepth
<1>1. depth[t] > 0 \/ Sole(t)
  BY DEF TxInv, CallsSound, Locked
<1>2. ASSUME Sole(t), depth[t] = 0
      PROVE  FALSE
  <2>1. Levels(Mgr(t)) = {}
    BY <1>2 DEF Sole, Levels, TxInv, TypeOK
  <2>2. holder[Mgr(t)].counter = Cardinality(Levels(Mgr(t)))
    BY Counted DEF TxInv, Locked
  <2> QED BY <2>1, <2>2, FS_EmptySet, Holders, UsesManagers DEF TxInv
<1> QED BY <1>1, <1>2 DEF TxInv, TypeOK

-----------------------------------------------------------------------------
(* The steps, one lemma per conjunct of TxInv.                             *)

\* The changes of a task and of a holder that keep their types.
LEMMA RecordUpdates ==
  /\ \A c \in Task, pc \in Pcs : [c EXCEPT !.pc = pc] \in Task
  /\ \A c \in Task, h \in TxnHolder : [c EXCEPT !.pc = "end", !.taken = h] \in Task
  /\ \A h \in TxnHolder, n \in Nat \ {0} : [h EXCEPT !.counter = n] \in TxnHolder
  /\ \A h \in TxnHolder, w \in Writes :
       [h EXCEPT !.work = h.work \cup {w}] \in TxnHolder
  /\ \A h \in TxnHolder : [h EXCEPT !.ok = FALSE] \in TxnHolder
  /\ Started \in TxnHolder
<1>1. \A c \in Task, pc \in Pcs : [c EXCEPT !.pc = pc] \in Task
  BY DEF Task
<1>2. \A c \in Task, h \in TxnHolder : [c EXCEPT !.pc = "end", !.taken = h] \in Task
  BY DEF Task, Pcs
<1>3. Started \in TxnHolder
  BY DEF Started, TxnHolder
<1> QED BY <1>1, <1>2, <1>3 DEF TxnHolder

LEMMA NextType == TxInv /\ Next => TypeOK'
<1> SUFFICES ASSUME TxInv, Next PROVE TypeOK'
  OBVIOUS
<1> USE UsesManagers, TaskRecords, TransactionsAssumption
<1>t. /\ TypeOK /\ MaxDepth \in Nat /\ MaxWrites \in Nat /\ MaxConns \in Nat
      /\ Cardinality(OpenManagers) \in Nat /\ Cardinality(Busy) \in Nat
      /\ free + Cardinality(OpenManagers) + Cardinality(Busy) = MaxConns
  BY FS_Subset, FS_CardinalityType DEF TxInv, ConnsAccounted, OpenManagers, Busy
<1>b. ASSUME NEW t \in Tasks, task[t].pc \in {"conn", "end"}
      PROVE  free + 1 \in 0..MaxConns
  <2>1. t \in Busy /\ IsFiniteSet(Busy)
    BY <1>b, FS_Subset DEF Busy
  <2>2. Cardinality(Busy) > 0
    BY <1>t, <2>1, FS_EmptySet
  <2> QED BY <1>t, <2>2 DEF TypeOK
<1>1. ASSUME NEW t \in Tasks, NEW op \in Ops \ {"none"}, Call(t, op)
      PROVE  TypeOK'
  <2>1. PICK pc \in {"lock", "pool"}, w \in Writes \cup {None} :
          /\ task' = [task EXCEPT ![t] = Waits(pc, op, w)]
          /\ \/ /\ op = "write" /\ w = <<t, wrote[t] + 1>>
                /\ wrote[t] < MaxWrites /\ wrote' = [wrote EXCEPT ![t] = @ + 1]
                /\ mine' = [mine EXCEPT ![t] = IF depth[t] > 0 THEN @ \cup {w} ELSE {}]
             \/ op # "write" /\ w = None /\ UNCHANGED <<wrote, mine>>
    BY <1>t, <1>1, CallShape
  <2>2. task' \in [Tasks -> Task]
    BY <1>t, <2>1 DEF TypeOK, Pcs
  <2>3. wrote' \in [Tasks -> 0..MaxWrites] /\ mine' \in [Tasks -> SUBSET Writes]
    BY <1>t, <2>1 DEF TypeOK, Writes
  <2> QED BY <1>t, <1>1, <2>2, <2>3, CallShape DEF TypeOK
<1>2. ASSUME NEW t \in Tasks, Begin(t)
      PROVE  TypeOK'
  <2>1. depth[t] < MaxDepth
    BY <1>2 DEF TxInv, CallsSound, Begin, Locked
  <2>2. CASE Open(Mgr(t)) /\ Return(t)
             /\ holder' = [holder EXCEPT ![Mgr(t)].counter = @ + 1]
             /\ depth' = [depth EXCEPT ![t] = @ + 1]
             /\ mine' = [mine EXCEPT ![t] = IF depth[t] = 0 THEN {} ELSE @]
             /\ UNCHANGED <<mutex, table, free, wrote>>
    <3>1. holder[Mgr(t)] \in TxnHolder
      BY <1>t, <2>2, Holders
    <3>2. holder' \in [Managers -> TxnHolder \cup {Closed}]
      BY <1>t, <2>2, <3>1 DEF TypeOK, TxnHolder
    <3> QED BY <1>t, <2>1, <2>2, <3>2 DEF TypeOK, Return
  <2>3. CASE Lock(t) /\ Goto(t, "pool") /\ UNCHANGED <<holder, depth, mine, table, free, wrote>>
    BY <1>t, <2>3 DEF TypeOK, Lock, Goto, Task, Pcs
  <2> QED BY <1>2, <2>2, <2>3 DEF Begin
<1>3. ASSUME NEW t \in Tasks, NEW op \in {"commit", "rollback"}, EndsLevel(t, op)
      PROVE  TypeOK'
  <2>1. CASE ~Open(Mgr(t))
    BY <1>t, <1>3, <2>1 DEF EndsLevel, TypeOK, Return
  <2>2. CASE Open(Mgr(t))
    <3>1. depth[t] \in 1..MaxDepth /\ holder[Mgr(t)] \in TxnHolder
      BY <1>t, <1>3, <2>2, EndsOwnLevel, Holders DEF EndsLevel
    <3>2. depth' = [depth EXCEPT ![t] = @ - 1] /\ UNCHANGED <<table, free, wrote, mine>>
      BY <1>3, <2>2 DEF EndsLevel
    <3>3. depth' \in [Tasks -> 0..MaxDepth]
      BY <1>t, <3>1, <3>2 DEF TypeOK
    <3>4. CASE /\ holder[Mgr(t)].counter > 1
               /\ holder' = [holder EXCEPT ![Mgr(t)].counter = @ - 1]
               /\ Return(t) /\ UNCHANGED mutex
      <4>1. holder' \in [Managers -> TxnHolder \cup {Closed}]
        BY <1>t, <3>1, <3>4 DEF TypeOK, TxnHolder
      <4> QED BY <1>t, <3>2, <3>3, <3>4, <4>1 DEF TypeOK, Return
    <3>5. CASE /\ holder' = [holder EXCEPT ![Mgr(t)] = Closed]
               /\ task' = [task EXCEPT ![t].pc = "end", ![t].taken = holder[Mgr(t)]]
               /\ Lock(t)
      <4>1. task' \in [Tasks -> Task]
        <5>1. task' = [task EXCEPT ![t] = [task[t] EXCEPT !.pc = "end",
                                                         !.taken = holder[Mgr(t)]]]
          BY <3>5
        <5> QED BY <1>t, <3>1, <5>1, RecordUpdates DEF TypeOK
      <4> QED BY <1>t, <3>2, <3>3, <3>5, <4>1 DEF TypeOK, Lock
    <3> QED BY <1>3, <2>2, <3>4, <3>5 DEF EndsLevel
  <2> QED BY <2>1, <2>2
<1>4. ASSUME NEW t \in Tasks, Statement(t)
      PROVE  TypeOK'
  BY <1>t, <1>4 DEF Statement, TypeOK, Lock, Goto, Task, Pcs
<1>5. ASSUME NEW t \in Tasks, Acquire(t)
      PROVE  TypeOK'
  <2>1. CASE free > 0 /\ free' = free - 1 /\ Goto(t, "conn") /\ UNCHANGED mutex
             /\ UNCHANGED <<table, holder, depth, wrote, mine>>
    <3>1. task' = [task EXCEPT ![t] = [task[t] EXCEPT !.pc = "conn"]]
      BY <2>1 DEF Goto
    <3>2. task' \in [Tasks -> Task]
      BY <1>t, <3>1, RecordUpdates DEF TypeOK, Pcs
    <3> QED BY <1>t, <2>1, <3>2 DEF TypeOK
  <2>2. CASE free' = free /\ Return(t) /\ Unlock(t)
             /\ UNCHANGED <<table, holder, depth, wrote, mine>>
    BY <1>t, <2>2 DEF TypeOK, Return, Unlock
  <2> QED BY <1>5, <2>1, <2>2 DEF Acquire
<1>6. ASSUME NEW t \in Tasks, Opened(t)
      PROVE  TypeOK'
  <2>1. depth[t] < MaxDepth /\ free + 1 \in 0..MaxConns
    BY <1>6, <1>b DEF TxInv, CallsSound, Opened
  <2>2. Started \in TxnHolder
    BY RecordUpdates
  <2>3. holder' \in [Managers -> TxnHolder \cup {Closed}]
    BY <1>t, <1>6, <2>2 DEF TypeOK, Opened
  <2>4. depth' \in [Tasks -> 0..MaxDepth] /\ mine' \in [Tasks -> SUBSET Writes]
        /\ free' \in 0..MaxConns
    BY <1>t, <1>6, <2>1 DEF TypeOK, Opened
  <2> QED BY <1>t, <1>6, <2>3, <2>4 DEF TypeOK, Opened, Return, Unlock
<1>7. ASSUME NEW t \in Tasks, Autocommitted(t)
      PROVE  TypeOK'
  <2>1. table' \subseteq Writes
    BY <1>t, <1>7 DEF TypeOK, Autocommitted, Task
  <2> QED BY <1>t, <1>7, <1>b, <2>1 DEF TypeOK, Autocommitted, Return, Unlock
<1>8. ASSUME NEW t \in Tasks, InTxn(t)
      PROVE  TypeOK'
  <2>1. Open(Mgr(t)) /\ task[t].write \in Writes
    BY <1>t, <1>8 DEF TxInv, MutexHeld, CallsSound, InTxn, Writes, TypeOK
  <2>2. holder[Mgr(t)] \in TxnHolder
    BY <1>t, <2>1, Holders
  <2>3. holder' \in [Managers -> TxnHolder \cup {Closed}]
    <3>1. \/ holder' = [holder EXCEPT ![Mgr(t)] =
                        [holder[Mgr(t)] EXCEPT !.work = holder[Mgr(t)].work \cup {task[t].write}]]
          \/ holder' = [holder EXCEPT ![Mgr(t)] = [holder[Mgr(t)] EXCEPT !.ok = FALSE]]
      BY <1>8 DEF InTxn
    <3>2. \E h \in TxnHolder : holder' = [holder EXCEPT ![Mgr(t)] = h]
      BY <2>1, <2>2, <3>1, RecordUpdates
    <3> QED BY <1>t, <3>2 DEF TypeOK
  <2> QED BY <1>t, <1>8, <2>3 DEF TypeOK, InTxn, Return, Unlock
<1>9. ASSUME NEW t \in Tasks, Ended(t)
      PROVE  TypeOK'
  <2>1. task[t].taken.work \subseteq Writes
    BY <1>t DEF TypeOK, Task, TxnHolder, Closed
  <2>2. table' \subseteq Writes
    BY <1>t, <1>9, <2>1 DEF TypeOK, Ended
  <2> QED BY <1>t, <1>9, <1>b, <2>2 DEF TypeOK, Ended, Return, Unlock
<1>10. ASSUME NEW t \in Tasks, Finish(t)
       PROVE  TypeOK'
  BY <1>t, <1>10 DEF TypeOK, Finish
<1>11. ASSUME NEW t \in Tasks, Abandon(t)
       PROVE  TypeOK'
  <2>1. task[t].taken.work \subseteq Writes /\ task[t].write \in Writes \cup {None}
    BY <1>t DEF TypeOK, Task, TxnHolder, Closed
  <2>2. task[t].op = "write" => task[t].write \in Writes
    BY <1>t DEF TxInv, CallsSound, Writes, TypeOK
  <2>3. table' \subseteq Writes
    BY <1>t, <1>11, <2>1, <2>2 DEF TypeOK, Abandon
  <2>4. holder' \in [Managers -> TxnHolder \cup {Closed}]
    <3>1. CASE holder' = holder
      BY <1>t, <3>1 DEF TypeOK
    <3>2. CASE /\ task[t].pc = "txn"
               /\ holder' = [holder EXCEPT ![Mgr(t)].work = @ \cup {task[t].write}]
      <4>1. Open(Mgr(t)) /\ task[t].write \in Writes
        BY <3>2, <2>2 DEF TxInv, MutexHeld, CallsSound
      <4>2. holder[Mgr(t)] \in TxnHolder
        BY <1>t, <4>1, Holders
      <4> QED BY <1>t, <3>2, <4>1, <4>2 DEF TypeOK, TxnHolder
    <3> QED BY <1>11, <3>1, <3>2 DEF Abandon
  <2>5. free' \in 0..MaxConns
    BY <1>t, <1>11, <1>b DEF TypeOK, Abandon
  <2> QED BY <1>t, <1>11, <2>3, <2>4, <2>5 DEF TypeOK, Abandon, Unlock
<1>12. ASSUME NEW m \in Managers, DropManager(m)
       PROVE  TypeOK'
  <2>1. m \in OpenManagers /\ IsFiniteSet(OpenManagers)
    BY <1>12, FS_Subset DEF OpenManagers, DropManager
  <2>2. Cardinality(OpenManagers) > 0
    BY <1>t, <2>1, FS_EmptySet
  <2> QED BY <1>t, <1>12, <2>2 DEF TypeOK, DropManager
<1> QED
  BY <1>1, <1>2, <1>3, <1>4, <1>5, <1>6, <1>7, <1>8, <1>9, <1>10, <1>11, <1>12
     DEF Next, Commit, Rollback

\* Only the task that holds the mutex of a manager opens, ends or uses its transaction.
LEMMA NextMutex == TxInv /\ Next => MutexHeld'
<1> SUFFICES ASSUME TxInv, Next PROVE MutexHeld'
  OBVIOUS
<1> USE UsesManagers, TaskRecords, TransactionsAssumption
<1>t. TypeOK /\ TypeOK'
  BY NextType DEF TxInv
<1>1. ASSUME NEW t \in Tasks, NEW op \in Ops \ {"none"}, Call(t, op)
      PROVE  MutexHeld'
  <2>1. PICK pc \in {"lock", "pool"}, w \in Writes \cup {None} :
          /\ task' = [task EXCEPT ![t] = Waits(pc, op, w)]
          /\ pc = "pool" => op = "count" \/ Mgr(t) \notin WithTxn
    BY <1>t, <1>1, CallShape
  <2> QED BY <1>t, <1>1, <2>1, CallShape DEF TypeOK, TxInv, MutexHeld, Open
<1>2. ASSUME NEW t \in Tasks, Begin(t)
      PROVE  MutexHeld'
  <2>1. mutex[Mgr(t)] = None
    BY <1>2 DEF Begin, Locked
  <2>2. CASE /\ Open(Mgr(t)) /\ Return(t) /\ UNCHANGED mutex
             /\ holder' = [holder EXCEPT ![Mgr(t)].counter = @ + 1]
    <3>1. holder[Mgr(t)].counter \in Nat
      BY <1>t, Holders
    <3>2. holder'[Mgr(t)].counter = holder[Mgr(t)].counter + 1
      BY <1>t, <2>2, Holders DEF TypeOK, TxnHolder
    <3>3. Open(Mgr(t))'
      BY <3>1, <3>2 DEF Open, Closed
    <3>4. \A n \in Managers : n # Mgr(t) => holder'[n] = holder[n]
      BY <1>t, <2>2 DEF TypeOK
    <3> QED BY <1>t, <2>1, <2>2, <3>3, <3>4 DEF TypeOK, TxInv, MutexHeld, Open, Return
  <2>3. CASE ~Open(Mgr(t)) /\ Lock(t) /\ Goto(t, "pool") /\ UNCHANGED holder
    BY <1>t, <2>1, <2>3 DEF TypeOK, TxInv, MutexHeld, Open, Lock, Goto
  <2> QED BY <1>2, <2>2, <2>3 DEF Begin
<1>3. ASSUME NEW t \in Tasks, NEW op \in {"commit", "rollback"}, EndsLevel(t, op)
      PROVE  MutexHeld'
  <2>1. mutex[Mgr(t)] = None
    BY <1>3 DEF EndsLevel, Locked
  <2>2. CASE Return(t) /\ UNCHANGED <<holder, mutex>>
    BY <1>t, <2>2 DEF TypeOK, TxInv, MutexHeld, Open, Return
  <2>3. CASE /\ Open(Mgr(t)) /\ holder[Mgr(t)].counter > 1
             /\ holder' = [holder EXCEPT ![Mgr(t)].counter = @ - 1]
             /\ Return(t) /\ UNCHANGED mutex
    <3>1. \A n \in Managers : n # Mgr(t) => holder'[n] = holder[n]
      BY <1>t, <2>3 DEF TypeOK
    <3> QED BY <1>t, <2>1, <2>3, <3>1 DEF TypeOK, TxInv, MutexHeld, Open, Return
  <2>4. CASE /\ holder' = [holder EXCEPT ![Mgr(t)] = Closed]
             /\ task' = [task EXCEPT ![t].pc = "end", ![t].taken = holder[Mgr(t)]]
             /\ Lock(t)
    <3>1. task'[t].pc = "end" /\ \A u \in Tasks \ {t} : task'[u] = task[u]
      BY <1>t, <2>4 DEF TypeOK, Task
    <3>2. /\ ~Open(Mgr(t))' /\ mutex'[Mgr(t)] = t
          /\ \A n \in Managers : n # Mgr(t) => holder'[n] = holder[n] /\ mutex'[n] = mutex[n]
      BY <1>t, <2>4 DEF TypeOK, Open, Lock
    <3> QED BY <1>t, <2>1, <3>1, <3>2 DEF TxInv, MutexHeld, Open
  <2> QED BY <1>3, <2>2, <2>3, <2>4 DEF EndsLevel
<1>4. ASSUME NEW t \in Tasks, Statement(t)
      PROVE  MutexHeld'
  BY <1>t, <1>4 DEF TypeOK, TxInv, MutexHeld, Open, Statement, Locked, Lock, Goto
<1>5. ASSUME NEW t \in Tasks, Acquire(t)
      PROVE  MutexHeld'
  <2>1. CASE Goto(t, "conn") /\ UNCHANGED <<holder, mutex>>
    <3>1. /\ task'[t].pc = "conn" /\ task'[t].op = task[t].op
          /\ \A u \in Tasks \ {t} : task'[u] = task[u]
      BY <1>t, <2>1 DEF TypeOK, Goto, Task
    <3> QED BY <1>5, <2>1, <3>1 DEF TxInv, MutexHeld, Open, Acquire
  <2>2. CASE Return(t) /\ Unlock(t) /\ UNCHANGED holder
    BY <1>t, <2>2 DEF TypeOK, TxInv, MutexHeld, Open, Unlock, Return
  <2> QED BY <1>5, <2>1, <2>2 DEF Acquire
<1>6. ASSUME NEW t \in Tasks, Opened(t)
      PROVE  MutexHeld'
  BY <1>t, <1>6 DEF TypeOK, TxInv, MutexHeld, CallsSound, Open, Opened, Unlock, Return, Started, Closed
<1>7. ASSUME NEW t \in Tasks, Autocommitted(t)
      PROVE  MutexHeld'
  BY <1>t, <1>7 DEF TypeOK, TxInv, MutexHeld, Open, Autocommitted, Unlock, Return
<1>8. ASSUME NEW t \in Tasks, InTxn(t)
      PROVE  MutexHeld'
  BY <1>t, <1>8 DEF TypeOK, TxInv, MutexHeld, Open, InTxn, Unlock, Return
<1>9. ASSUME NEW t \in Tasks, Ended(t)
      PROVE  MutexHeld'
  BY <1>t, <1>9 DEF TypeOK, TxInv, MutexHeld, Open, Ended, Unlock, Return
<1>10. ASSUME NEW t \in Tasks, Finish(t)
       PROVE  MutexHeld'
  BY <1>t, <1>10 DEF TypeOK, TxInv, MutexHeld, Open, Finish
<1>11. ASSUME NEW t \in Tasks, Abandon(t)
       PROVE  MutexHeld'
  BY <1>t, <1>11 DEF TypeOK, TxInv, MutexHeld, Open, Abandon, Unlock
<1>12. ASSUME NEW m \in Managers, DropManager(m)
       PROVE  MutexHeld'
  BY <1>t, <1>12 DEF TypeOK, TxInv, MutexHeld, Open, DropManager
<1> QED
  BY <1>1, <1>2, <1>3, <1>4, <1>5, <1>6, <1>7, <1>8, <1>9, <1>10, <1>11, <1>12
     DEF Next, Commit, Rollback

\* A manager without transactions is never asked to begin one.
LEMMA NextPlain == TxInv /\ Next => PlainStaysPlain'
<1> SUFFICES ASSUME TxInv, Next PROVE PlainStaysPlain'
  OBVIOUS
<1> USE UsesManagers, TaskRecords, TransactionsAssumption
<1>t. TypeOK /\ TypeOK'
  BY NextType DEF TxInv
<1>1. ASSUME NEW t \in Tasks, NEW op \in Ops \ {"none"}, Call(t, op)
      PROVE  PlainStaysPlain'
  BY <1>t, <1>1, CallShape DEF TxInv, PlainStaysPlain, Open
<1>2. ASSUME NEW t \in Tasks, Begin(t)
      PROVE  PlainStaysPlain'
  BY <1>t, <1>2 DEF TypeOK, TxInv, PlainStaysPlain, CallsSound, Open, Begin, Locked
<1>3. ASSUME NEW t \in Tasks, NEW op \in {"commit", "rollback"}, EndsLevel(t, op)
      PROVE  PlainStaysPlain'
  BY <1>t, <1>3 DEF TypeOK, TxInv, PlainStaysPlain, CallsSound, Open, EndsLevel, Locked
<1>4. ASSUME NEW t \in Tasks, Statement(t)
      PROVE  PlainStaysPlain'
  BY <1>t, <1>4 DEF TypeOK, TxInv, PlainStaysPlain, Open, Statement
<1>5. ASSUME NEW t \in Tasks, Acquire(t)
      PROVE  PlainStaysPlain'
  BY <1>t, <1>5 DEF TypeOK, TxInv, PlainStaysPlain, Open, Acquire
<1>6. ASSUME NEW t \in Tasks, Opened(t)
      PROVE  PlainStaysPlain'
  BY <1>t, <1>6 DEF TypeOK, TxInv, PlainStaysPlain, CallsSound, Open, Opened
<1>7. ASSUME NEW t \in Tasks, Autocommitted(t)
      PROVE  PlainStaysPlain'
  BY <1>t, <1>7 DEF TypeOK, TxInv, PlainStaysPlain, Open, Autocommitted
<1>8. ASSUME NEW t \in Tasks, InTxn(t)
      PROVE  PlainStaysPlain'
  BY <1>t, <1>8 DEF TypeOK, TxInv, PlainStaysPlain, MutexHeld, Open, InTxn
<1>9. ASSUME NEW t \in Tasks, Ended(t)
      PROVE  PlainStaysPlain'
  BY <1>t, <1>9 DEF TypeOK, TxInv, PlainStaysPlain, Open, Ended
<1>10. ASSUME NEW t \in Tasks, Finish(t)
       PROVE  PlainStaysPlain'
  BY <1>t, <1>10 DEF TypeOK, TxInv, PlainStaysPlain, Open, Finish
<1>11. ASSUME NEW t \in Tasks, Abandon(t)
       PROVE  PlainStaysPlain'
  BY <1>t, <1>11 DEF TypeOK, TxInv, PlainStaysPlain, MutexHeld, Open, Abandon
<1>12. ASSUME NEW m \in Managers, DropManager(m)
       PROVE  PlainStaysPlain'
  BY <1>t, <1>12 DEF TypeOK, TxInv, PlainStaysPlain, Open, DropManager
<1> QED
  BY <1>1, <1>2, <1>3, <1>4, <1>5, <1>6, <1>7, <1>8, <1>9, <1>10, <1>11, <1>12
     DEF Next, Commit, Rollback

\* What the tasks other than the one that moves keep.
Moves(t) ==
  \/ \E op \in Ops \ {"none"} : Call(t, op)
  \/ Begin(t) \/ (\E op \in {"commit", "rollback"} : EndsLevel(t, op)) \/ Statement(t)
  \/ Acquire(t) \/ Opened(t) \/ Autocommitted(t) \/ InTxn(t) \/ Ended(t)
  \/ Finish(t) \/ Abandon(t)

LEMMA OneMoves ==
  ASSUME TypeOK, NEW t \in Tasks, Moves(t)
  PROVE  /\ task[t].pc # "gone"
         /\ \A u \in Tasks \ {t} : /\ task'[u] = task[u] /\ depth'[u] = depth[u]
                                   /\ wrote'[u] = wrote[u] /\ mine'[u] = mine[u]
<1>1. ASSUME NEW op \in Ops \ {"none"}, Call(t, op)
      PROVE  /\ task[t].pc # "gone"
             /\ \A u \in Tasks \ {t} : /\ task'[u] = task[u] /\ depth'[u] = depth[u]
                                       /\ wrote'[u] = wrote[u] /\ mine'[u] = mine[u]
  BY <1>1, CallShape DEF TypeOK
<1>2. CASE Begin(t)
  BY <1>2 DEF TypeOK, Begin, Locked, Return, Goto
<1>3. ASSUME NEW op \in {"commit", "rollback"}, EndsLevel(t, op)
      PROVE  /\ task[t].pc # "gone"
             /\ \A u \in Tasks \ {t} : /\ task'[u] = task[u] /\ depth'[u] = depth[u]
                                       /\ wrote'[u] = wrote[u] /\ mine'[u] = mine[u]
  BY <1>3 DEF TypeOK, EndsLevel, Locked, Return
<1>4. CASE Statement(t) \/ Acquire(t)
  BY <1>4 DEF TypeOK, Statement, Locked, Acquire, Return, Goto
<1>5. CASE Opened(t) \/ Autocommitted(t)
  BY <1>5 DEF TypeOK, Opened, Autocommitted, Return
<1>6. CASE InTxn(t) \/ Ended(t)
  BY <1>6 DEF TypeOK, InTxn, Ended, Return
<1>7. CASE Finish(t) \/ Abandon(t)
  BY <1>7 DEF TypeOK, Finish, Abandon
<1> QED BY <1>1, <1>2, <1>3, <1>4, <1>5, <1>6, <1>7 DEF Moves

LEMMA NextMoves ==
  Next => (\E t \in Tasks : Moves(t)) \/ (\E m \in Managers : DropManager(m))
BY DEF Next, Moves, Rollback, Commit

\* What CallsSound says of one task.
CallSound(t, c, d, w) ==
  /\ c.op = "write" => c.write \in {t} \X (1..w)
  /\ c.op # "write" => c.write = None
  /\ c.pc = "lock" => c.op \in {"begin", "commit", "rollback", "write"}
  /\ c.pc \in {"pool", "conn"} => c.op \in {"begin", "write", "count"}
  /\ c.pc = "txn" => c.op = "write"
  /\ c.op \in {"begin", "commit"} \/ (c.pc = "lock" /\ c.op = "write") =>
       Mgr(t) \in WithTxn
  /\ c.op = "begin" => d < MaxDepth

LEMMA CallsSplit ==
  CallsSound <=>
    \A t \in Tasks :
      /\ CallSound(t, task[t], depth[t], wrote[t])
      /\ task[t].pc = "lock" /\ task[t].op \in {"commit", "rollback"} =>
           depth[t] > 0 \/ Sole(t)
BY DEF CallsSound, CallSound

\* A task that is alone stays alone.
LEMMA SoleStays ==
  ASSUME TypeOK, NEW t \in Tasks, Moves(t), NEW u \in Tasks, Sole(u)
  PROVE  Sole(u)'
BY OneMoves DEF Sole

\* Returning, and leaving, ends a call.
LEMMA IdleSound ==
  ASSUME NEW t \in Tasks, NEW c \in {Running, Gone}, NEW d, NEW w
  PROVE  CallSound(t, c, d, w) /\ c.pc # "lock"
BY TaskRecords DEF CallSound

LEMMA NextCalls == TxInv /\ Next => CallsSound'
<1> SUFFICES ASSUME TxInv, Next PROVE CallsSound'
  OBVIOUS
<1> USE UsesManagers, TransactionsAssumption
<1>t. TypeOK /\ TypeOK' /\ CallsSound
  BY NextType DEF TxInv
<1>d. ASSUME NEW m \in Managers, DropManager(m)
      PROVE  CallsSound'
  BY <1>t, <1>d DEF CallsSound, DropManager, Sole
<1>m. ASSUME NEW t \in Tasks, Moves(t)
      PROVE  CallsSound'
  <2>0. SUFFICES /\ CallSound(t, task'[t], depth'[t], wrote'[t])
                 /\ task'[t].pc = "lock" /\ task'[t].op \in {"commit", "rollback"} =>
                      depth'[t] > 0 \/ Sole(t)'
    <3>1. \A u \in Tasks \ {t} :
            /\ CallSound(u, task'[u], depth'[u], wrote'[u])
            /\ task'[u].pc = "lock" /\ task'[u].op \in {"commit", "rollback"} =>
                 depth'[u] > 0 \/ Sole(u)'
      BY <1>t, <1>m, OneMoves, SoleStays, CallsSplit
    <3>2. \A u \in Tasks :
            /\ CallSound(u, task'[u], depth'[u], wrote'[u])
            /\ task'[u].pc = "lock" /\ task'[u].op \in {"commit", "rollback"} =>
                 depth'[u] > 0 \/ Sole(u)'
      BY <3>1
    <3> QED BY <3>2 DEF CallsSound, CallSound
  <2>1. ASSUME NEW op \in Ops \ {"none"}, Call(t, op)
        PROVE  /\ CallSound(t, task'[t], depth'[t], wrote'[t])
               /\ task'[t].pc = "lock" /\ task'[t].op \in {"commit", "rollback"} =>
                    depth'[t] > 0 \/ Sole(t)'
    <3>1. PICK pc \in {"lock", "pool"}, w \in Writes \cup {None} :
            /\ task' = [task EXCEPT ![t] = Waits(pc, op, w)]
            /\ pc = "lock" => op # "count" /\ (op = "write" => Mgr(t) \in WithTxn)
            /\ pc = "pool" => op = "count" \/ (op = "write" /\ Mgr(t) \notin WithTxn)
            /\ \/ /\ op = "write" /\ w = <<t, wrote[t] + 1>>
                  /\ wrote' = [wrote EXCEPT ![t] = @ + 1]
               \/ op # "write" /\ w = None
      BY <1>t, <2>1, CallShape
    <3>2. /\ task'[t].pc = pc /\ task'[t].op = op /\ task'[t].write = w
          /\ op = "write" => w \in {t} \X (1..wrote'[t])
      BY <1>t, <3>1, TaskRecords DEF TypeOK
    <3>3. Sole(t) => Sole(t)'
      BY <1>t, <1>m, SoleStays
    <3>4. /\ op = "begin" => depth'[t] < MaxDepth
          /\ op \in {"commit", "rollback"} => depth'[t] > 0 \/ Sole(t)
          /\ op \in {"begin", "commit"} => Mgr(t) \in WithTxn
      BY <1>t, <2>1, CallShape
    <3> QED BY <3>1, <3>2, <3>3, <3>4 DEF CallSound, Ops
  <2>2. ASSUME task'[t] \in {Running, Gone}
        PROVE  /\ CallSound(t, task'[t], depth'[t], wrote'[t])
               /\ task'[t].pc = "lock" /\ task'[t].op \in {"commit", "rollback"} =>
                    depth'[t] > 0 \/ Sole(t)'
    BY <2>2, IdleSound
  <2>3. ASSUME NEW pc \in {"pool", "txn", "conn"}, task'[t] = [task[t] EXCEPT !.pc = pc],
               UNCHANGED <<depth, wrote>>,
               pc = "pool" => task[t].op \in {"begin", "write"},
               pc = "txn" => task[t].op = "write",
               pc = "conn" => task[t].op \in {"begin", "write", "count"}
        PROVE  /\ CallSound(t, task'[t], depth'[t], wrote'[t])
               /\ task'[t].pc = "lock" /\ task'[t].op \in {"commit", "rollback"} =>
                    depth'[t] > 0 \/ Sole(t)'
    <3>1. /\ task'[t].pc = pc /\ task'[t].op = task[t].op /\ task'[t].write = task[t].write
      BY <1>t, <2>3 DEF TypeOK, Task
    <3>2. CallSound(t, task[t], depth[t], wrote[t])
      BY <1>t, CallsSplit
    <3> QED BY <2>3, <3>1, <3>2 DEF CallSound
  <2>4. CASE Begin(t)
    <3>1. task[t].op = "begin"
      BY <2>4 DEF Begin, Locked
    <3>2. CASE Return(t)
      BY <1>t, <3>2, <2>2 DEF TypeOK, Return
    <3>3. CASE Goto(t, "pool") /\ UNCHANGED <<depth, wrote>>
      <4>1. task'[t] = [task[t] EXCEPT !.pc = "pool"]
        BY <1>t, <3>3 DEF TypeOK, Goto
      <4> QED BY <3>1, <3>3, <4>1, <2>3
    <3> QED BY <2>4, <3>2, <3>3 DEF Begin
  <2>5. ASSUME NEW op \in {"commit", "rollback"}, EndsLevel(t, op)
        PROVE  /\ CallSound(t, task'[t], depth'[t], wrote'[t])
               /\ task'[t].pc = "lock" /\ task'[t].op \in {"commit", "rollback"} =>
                    depth'[t] > 0 \/ Sole(t)'
    <3>1. CASE Return(t)
      BY <1>t, <3>1, <2>2 DEF TypeOK, Return
    <3>2. CASE task' = [task EXCEPT ![t].pc = "end", ![t].taken = holder[Mgr(t)]]
      <4>1. /\ task'[t].pc = "end" /\ task'[t].op = op /\ task[t].op = op
            /\ task'[t].write = task[t].write
        BY <1>t, <2>5, <3>2 DEF TypeOK, Task, EndsLevel, Locked
      <4>2. CallSound(t, task[t], depth[t], wrote[t])
        BY <1>t, CallsSplit
      <4> QED BY <4>1, <4>2 DEF CallSound
    <3> QED BY <2>5, <3>1, <3>2 DEF EndsLevel
  <2>6. CASE Statement(t)
    <3>1. /\ task[t].op = "write" /\ UNCHANGED <<depth, wrote>>
          /\ \E pc \in {"pool", "txn"} : task'[t] = [task[t] EXCEPT !.pc = pc]
      BY <1>t, <2>6 DEF TypeOK, Statement, Locked, Goto
    <3> QED BY <3>1, <2>3
  <2>7. CASE Acquire(t)
    <3>1. CASE Return(t)
      BY <1>t, <3>1, <2>2 DEF TypeOK, Return
    <3>2. CASE Goto(t, "conn")
      <4>1. task'[t] = [task[t] EXCEPT !.pc = "conn"] /\ UNCHANGED <<depth, wrote>>
        BY <1>t, <2>7, <3>2 DEF TypeOK, Goto, Acquire
      <4>2. task[t].op \in {"begin", "write", "count"}
        BY <1>t, <2>7 DEF CallsSound, Acquire
      <4> QED BY <4>1, <4>2, <2>3
    <3> QED BY <2>7, <3>1, <3>2 DEF Acquire
  <2>8. CASE Opened(t) \/ Autocommitted(t) \/ InTxn(t) \/ Ended(t)
    BY <1>t, <2>2, <2>8 DEF TypeOK, Opened, Autocommitted, InTxn, Ended, Return
  <2>9. CASE Finish(t) \/ Abandon(t)
    BY <1>t, <2>2, <2>9 DEF TypeOK, Finish, Abandon
  <2> QED BY <1>m, <2>1, <2>4, <2>5, <2>6, <2>7, <2>8, <2>9 DEF Moves
<1> QED BY <1>d, <1>m, NextMoves

\* The call of a task ends when the task goes on or is gone.
LEMMA NextSettled == TxInv /\ Next => CallsSettled'
<1> SUFFICES ASSUME TxInv, Next PROVE CallsSettled'
  OBVIOUS
<1> DEFINE Settled(t, c) ==
      /\ c.pc \in {"run", "gone"} => c.op = "none"
      /\ c.pc = "end" => c.op \in {"commit", "rollback"} /\ Mgr(t) \in WithTxn
<1>t. TypeOK /\ CallsSettled /\ \A t \in Tasks : task[t] \in Task
  BY DEF TxInv, TypeOK
<1>d. ASSUME NEW m \in Managers, DropManager(m)
      PROVE  CallsSettled'
  BY <1>t, <1>d DEF CallsSettled, DropManager
<1>m. ASSUME NEW t \in Tasks, Moves(t)
      PROVE  CallsSettled'
  <2>0. SUFFICES Settled(t, task'[t])
    BY <1>t, <1>m, OneMoves DEF CallsSettled
  <2>1. ASSUME task'[t] \in {Running, Gone}
        PROVE  Settled(t, task'[t])
    BY <2>1, TaskRecords
  <2>2. ASSUME NEW pc \in {"pool", "conn", "txn"}, Goto(t, pc)
        PROVE  Settled(t, task'[t])
    BY <1>t, <2>2 DEF TypeOK, Task, Goto
  <2>3. ASSUME Return(t) \/ task' = [task EXCEPT ![t] = Gone]
        PROVE  Settled(t, task'[t])
    BY <1>t, <2>1, <2>3 DEF TypeOK, Return
  <2>4. ASSUME NEW op \in Ops \ {"none"}, Call(t, op)
        PROVE  Settled(t, task'[t])
    BY <1>t, <2>4, CallShape, TaskRecords DEF TypeOK
  <2>5. ASSUME NEW op \in {"commit", "rollback"}, EndsLevel(t, op)
        PROVE  Settled(t, task'[t])
    <3>1. CASE /\ Open(Mgr(t))
               /\ task' = [task EXCEPT ![t].pc = "end", ![t].taken = holder[Mgr(t)]]
      <4>1. task'[t].op = op /\ task'[t].pc = "end"
        BY <1>t, <2>5, <3>1 DEF TypeOK, Task, EndsLevel, Locked
      <4>2. Mgr(t) \in WithTxn
        BY <3>1 DEF TxInv, PlainStaysPlain
      <4> QED BY <4>1, <4>2
    <3> QED BY <2>3, <2>5, <3>1 DEF EndsLevel
  <2> QED
    BY <1>m, <2>2, <2>3, <2>4, <2>5
       DEF Moves, Begin, Statement, Acquire, Opened, Autocommitted, InTxn, Ended, Finish,
           Abandon
<1> QED BY <1>d, <1>m, NextMoves

\* Writes stay in the hands of the manager of the task that issued them.
LEMMA NextOwned == TxInv /\ Next => WritesOwned'
<1> SUFFICES ASSUME TxInv, Next PROVE WritesOwned'
  OBVIOUS
<1> USE UsesManagers, TaskRecords, TransactionsAssumption
<1>t. TypeOK /\ TypeOK' /\ WritesOwned /\ CallsSound
  BY NextType DEF TxInv
<1>s. ASSUME holder' = holder, wrote' = wrote, mine' = mine, table' = table,
             NEW t \in Tasks, \A u \in Tasks \ {t} : task'[u] = task[u],
             task'[t].taken.work \subseteq Issued(Mgr(t))
      PROVE  WritesOwned'
  BY <1>t, <1>s DEF WritesOwned, Issued
<1>c. Closed.work = {} /\ Started.work = {}
  BY DEF Closed, Started
<1>w. \A t \in Tasks : task[t].op = "write" =>
        /\ task[t].write \in Issued(Mgr(t)) /\ task[t].write[2] <= wrote[task[t].write[1]]
  BY <1>t DEF CallsSound, Issued, Writes, TypeOK
<1>r. ASSUME NEW t \in Tasks, Return(t)
      PROVE  /\ task'[t].taken.work = {}
             /\ \A u \in Tasks \ {t} : task'[u] = task[u]
  BY <1>t, <1>r, <1>c DEF TypeOK, Return
<1>1. ASSUME NEW t \in Tasks, NEW op \in Ops \ {"none"}, Call(t, op)
      PROVE  WritesOwned'
  <2>1. PICK pc \in {"lock", "pool"}, w \in Writes \cup {None} :
          /\ task' = [task EXCEPT ![t] = Waits(pc, op, w)]
          /\ \/ /\ op = "write" /\ w = <<t, wrote[t] + 1>>
                /\ wrote[t] < MaxWrites /\ wrote' = [wrote EXCEPT ![t] = @ + 1]
                /\ mine' = [mine EXCEPT ![t] = IF depth[t] > 0 THEN @ \cup {w} ELSE {}]
             \/ op # "write" /\ w = None /\ UNCHANGED <<wrote, mine>>
    BY <1>t, <1>1, CallShape
  <2>2. UNCHANGED <<table, holder>>
    BY <1>t, <1>1, CallShape
  <2>3. /\ \A u \in Tasks : wrote[u] <= wrote'[u] /\ wrote[u] \in Nat /\ wrote'[u] \in Nat
        /\ \A u \in Tasks : mine'[u] \subseteq {u} \X (1..wrote'[u])
    BY <1>t, <2>1 DEF TypeOK, WritesOwned
  <2>4. \A x \in Writes : x[1] \in Tasks /\ x[2] \in Nat
    BY DEF Writes
  <2>5. \A m \in Managers : Issued(m) \subseteq Issued(m)'
    BY <2>3, <2>4 DEF Issued
  <2>6. \A x \in table : x[2] <= wrote'[x[1]]
    BY <1>t, <2>3, <2>4 DEF WritesOwned, TypeOK
  <2>7. \A u \in Tasks : task'[u].taken.work \subseteq Issued(Mgr(u))'
    BY <1>t, <1>c, <2>1, <2>5 DEF WritesOwned, TypeOK
  <2>8. \A m \in Managers : holder'[m].work \subseteq Issued(m)'
    BY <1>t, <2>2, <2>5 DEF WritesOwned
  <2> QED BY <2>2, <2>3, <2>6, <2>7, <2>8 DEF WritesOwned
<1>2. ASSUME NEW t \in Tasks, Begin(t)
      PROVE  WritesOwned'
  <2>1. \A m \in Managers : holder'[m].work = holder[m].work
    BY <1>t, <1>2, Holders DEF TypeOK, TxnHolder, Begin
  <2>2. \A u \in Tasks : mine'[u] \in {{}, mine[u]}
    BY <1>t, <1>2 DEF TypeOK, Begin
  <2>3. \A u \in Tasks : task'[u].taken.work \in {{}, task[u].taken.work}
    <3>1. CASE Return(t)
      BY <1>r, <3>1
    <3>2. CASE Goto(t, "pool")
      BY <1>t, <3>2 DEF TypeOK, Goto, Task
    <3> QED BY <1>2, <3>1, <3>2 DEF Begin
  <2> QED BY <1>t, <1>2, <2>1, <2>2, <2>3 DEF WritesOwned, Issued, Begin
<1>3. ASSUME NEW t \in Tasks, NEW op \in {"commit", "rollback"}, EndsLevel(t, op)
      PROVE  WritesOwned'
  <2>1. \A m \in Managers : holder'[m].work \in {{}, holder[m].work}
    <3>1. CASE /\ Open(Mgr(t))
               /\ holder' = [holder EXCEPT ![Mgr(t)].counter = @ - 1]
      BY <1>t, <3>1, Holders DEF TypeOK, TxnHolder
    <3>2. CASE holder' = [holder EXCEPT ![Mgr(t)] = Closed]
      BY <1>t, <1>c, <3>2 DEF TypeOK
    <3> QED BY <1>3, <3>1, <3>2 DEF EndsLevel
  <2>2. \A u \in Tasks : task'[u].taken.work \subseteq Issued(Mgr(u))
    <3>1. CASE Return(t)
      BY <1>t, <1>r, <3>1 DEF WritesOwned
    <3>2. CASE task' = [task EXCEPT ![t].pc = "end", ![t].taken = holder[Mgr(t)]]
      BY <1>t, <3>2 DEF WritesOwned, TypeOK, Task
    <3> QED BY <1>3, <3>1, <3>2 DEF EndsLevel
  <2> QED BY <1>t, <1>3, <2>1, <2>2 DEF WritesOwned, Issued, EndsLevel
<1>4. ASSUME NEW t \in Tasks, Statement(t)
      PROVE  WritesOwned'
  <2>1. \A u \in Tasks : task'[u].taken = task[u].taken
    BY <1>t, <1>4 DEF TypeOK, Statement, Goto, Task
  <2> QED BY <1>t, <1>4, <2>1 DEF WritesOwned, Issued, Statement
<1>5. ASSUME NEW t \in Tasks, Acquire(t)
      PROVE  WritesOwned'
  <2>1. CASE Goto(t, "conn")
    <3>1. \A u \in Tasks : task'[u].taken = task[u].taken
      BY <1>t, <2>1 DEF TypeOK, Goto, Task
    <3> QED BY <1>t, <1>5, <3>1 DEF WritesOwned, Issued, Acquire
  <2>2. CASE Return(t)
    BY <1>5, <1>r, <1>s, <2>2 DEF Acquire
  <2> QED BY <1>5, <2>1, <2>2 DEF Acquire
<1>6. ASSUME NEW t \in Tasks, Opened(t)
      PROVE  WritesOwned'
  <2>1. \A m \in Managers : holder'[m].work \in {{}, holder[m].work}
    BY <1>t, <1>c, <1>6 DEF TypeOK, Opened
  <2>2. \A u \in Tasks : mine'[u] \in {{}, mine[u]}
    BY <1>t, <1>6 DEF TypeOK, Opened
  <2>3. \A u \in Tasks : task'[u].taken.work \in {{}, task[u].taken.work}
    BY <1>r, <1>6 DEF Opened
  <2> QED BY <1>t, <1>6, <2>1, <2>2, <2>3 DEF WritesOwned, Issued, Opened
<1>7. ASSUME NEW t \in Tasks, Autocommitted(t)
      PROVE  WritesOwned'
  <2>1. \A u \in Tasks : task'[u].taken.work \in {{}, task[u].taken.work}
    BY <1>r, <1>7 DEF Autocommitted
  <2>2. \A w \in table' : w[2] <= wrote[w[1]]
    BY <1>t, <1>w, <1>7 DEF WritesOwned, CallsSound, Autocommitted
  <2> QED BY <1>t, <1>7, <2>1, <2>2 DEF WritesOwned, Issued, Autocommitted
<1>8. ASSUME NEW t \in Tasks, InTxn(t)
      PROVE  WritesOwned'
  <2>1. \A u \in Tasks : task'[u].taken.work \in {{}, task[u].taken.work}
    BY <1>r, <1>8 DEF InTxn
  <2>2. task[t].write \in Issued(Mgr(t))
    BY <1>t, <1>w, <1>8 DEF CallsSound, InTxn
  <2>3. \A m \in Managers : holder'[m].work \subseteq Issued(m)
    <3>1. \A m \in Managers : holder'[m].work \subseteq
            IF m = Mgr(t) THEN holder[m].work \cup {task[t].write} ELSE holder[m].work
      BY <1>t, <1>8, Holders DEF TypeOK, InTxn, TxnHolder, Closed
    <3> QED BY <1>t, <2>2, <3>1 DEF WritesOwned
  <2> QED BY <1>t, <1>8, <2>1, <2>3 DEF WritesOwned, Issued, InTxn
<1>9. ASSUME NEW t \in Tasks, Ended(t)
      PROVE  WritesOwned'
  <2>1. \A u \in Tasks : task'[u].taken.work \in {{}, task[u].taken.work}
    BY <1>r, <1>9 DEF Ended
  <2>2. \A w \in table' : w \in table \/ w \in Issued(Mgr(t))
    BY <1>t, <1>9 DEF WritesOwned, Ended
  <2>3. \A w \in table' : w[2] <= wrote[w[1]]
    BY <1>t, <2>2 DEF WritesOwned, Issued
  <2> QED BY <1>t, <1>9, <2>1, <2>3 DEF WritesOwned, Issued, Ended
<1>10. ASSUME NEW t \in Tasks, Finish(t)
       PROVE  WritesOwned'
  BY <1>t, <1>10, <1>c, <1>s DEF TypeOK, Finish
<1>11. ASSUME NEW t \in Tasks, Abandon(t)
       PROVE  WritesOwned'
  <2>1. \A u \in Tasks : task'[u].taken.work \in {{}, task[u].taken.work}
    BY <1>t, <1>11, <1>c DEF Abandon, TypeOK
  <2>2. \A w \in table' : w \in table \/ w \in Issued(Mgr(t))
    BY <1>t, <1>w, <1>11 DEF WritesOwned, Abandon
  <2>3. \A w \in table' : w[2] <= wrote[w[1]]
    BY <1>t, <2>2 DEF WritesOwned, Issued
  <2>4. \A m \in Managers : holder'[m].work \subseteq Issued(m)
    <3>1. CASE holder' = holder
      BY <1>t, <3>1 DEF WritesOwned
    <3>2. CASE /\ task[t].pc = "txn"
               /\ holder' = [holder EXCEPT ![Mgr(t)].work = @ \cup {task[t].write}]
      <4>1. task[t].write \in Issued(Mgr(t))
        BY <1>t, <1>w, <3>2 DEF CallsSound
      <4>2. \A m \in Managers : holder'[m].work \subseteq
              IF m = Mgr(t) THEN holder[m].work \cup {task[t].write} ELSE holder[m].work
        BY <1>t, <3>2, Holders DEF TypeOK, TxnHolder, Closed
      <4> QED BY <1>t, <4>1, <4>2 DEF WritesOwned
    <3> QED BY <1>11, <3>1, <3>2 DEF Abandon
  <2> QED BY <1>t, <1>11, <2>1, <2>3, <2>4 DEF WritesOwned, Issued, Abandon
<1>12. ASSUME NEW m \in Managers, DropManager(m)
       PROVE  WritesOwned'
  <2>1. \A n \in Managers : holder'[n].work \in {{}, holder[n].work}
    BY <1>t, <1>c, <1>12 DEF TypeOK, DropManager
  <2> QED BY <1>t, <1>12, <2>1 DEF WritesOwned, Issued, DropManager
<1> QED
  BY <1>1, <1>2, <1>3, <1>4, <1>5, <1>6, <1>7, <1>8, <1>9, <1>10, <1>11, <1>12
     DEF Next, Commit, Rollback

\* The counters and the levels move together.
LEMMA NextLevels == TxInv /\ Next => LevelsCounted'
<1> SUFFICES ASSUME TxInv, Next PROVE LevelsCounted'
  OBVIOUS
<1> USE UsesManagers
<1>t. TypeOK /\ TypeOK' /\ LevelsCounted /\ CallsSound /\ MutexHeld
  BY NextType DEF TxInv
<1>o. \A m \in Managers : /\ Open(m) <=> holder[m].counter # 0
                          /\ Open(m)' <=> holder'[m].counter # 0
  <2>1. ASSUME NEW m \in Managers
        PROVE  Open(m)' <=> holder'[m].counter # 0
    <3>1. holder'[m] \in TxnHolder \cup {Closed}
      BY <1>t DEF TypeOK
    <3>2. holder'[m] \in TxnHolder => holder'[m].counter # 0 /\ holder'[m] # Closed
      BY DEF TxnHolder, Closed
    <3>3. holder'[m] = Closed => holder'[m].counter = 0
      BY DEF Closed
    <3> QED BY <3>1, <3>2, <3>3 DEF Open
  <2> QED BY <1>t, <2>1, Holders
<1>k. ASSUME NEW t \in Tasks, Moves(t),
             \A m \in Managers \ {Mgr(t)} :
               /\ holder'[m].counter = holder[m].counter
               /\ Cardinality(Levels(m)') = Cardinality(Levels(m)),
             holder'[Mgr(t)].counter = Cardinality(Levels(Mgr(t))')
      PROVE  LevelsCounted'
  <2> SUFFICES ASSUME NEW m \in Managers, m # Mgr(t), Dropped(m)
               PROVE  Dropped(m)'
    BY <1>t, <1>k DEF LevelsCounted
  <2> QED BY <1>t, <1>o, <1>k, OneMoves DEF Dropped
<1>n. ASSUME NEW t \in Tasks, Moves(t), depth' = depth,
             \A m \in Managers : holder'[m].counter = holder[m].counter
      PROVE  LevelsCounted'
  <2>1. \A m \in Managers : Levels(m)' = Levels(m)
    BY <1>n DEF Levels
  <2>2. holder[Mgr(t)].counter = Cardinality(Levels(Mgr(t)))
    BY <1>t, <1>n, OneMoves, Counted
  <2> QED BY <1>n, <1>k, <2>1, <2>2
<1>1. ASSUME NEW t \in Tasks, NEW op \in Ops \ {"none"}, Call(t, op)
      PROVE  LevelsCounted'
  BY <1>t, <1>n, <1>1, CallShape DEF Moves
<1>2. ASSUME NEW t \in Tasks, Begin(t)
      PROVE  LevelsCounted'
  <2>1. CASE UNCHANGED <<holder, depth>>
    BY <1>n, <1>2, <2>1 DEF Moves
  <2>2. CASE /\ Open(Mgr(t)) /\ depth' = [depth EXCEPT ![t] = @ + 1]
             /\ holder' = [holder EXCEPT ![Mgr(t)].counter = @ + 1]
    <3>1. depth[t] < MaxDepth
      BY <1>t, <1>2 DEF CallsSound, Begin, Locked
    <3>2. holder[Mgr(t)].counter = Cardinality(Levels(Mgr(t)))
      BY <1>t, <1>2, Counted DEF Begin, Locked
    <3>3. \A m \in Managers : holder'[m].counter =
            IF m = Mgr(t) THEN holder[m].counter + 1 ELSE holder[m].counter
      BY <1>t, <2>2, Holders DEF TypeOK, TxnHolder
    <3>4. \A m \in Managers : Cardinality(Levels(m)') =
            IF m = Mgr(t) THEN Cardinality(Levels(m)) + 1 ELSE Cardinality(Levels(m))
      BY <1>t, <2>2, <3>1, LevelBegun DEF TypeOK
    <3> QED BY <1>k, <1>2, <3>2, <3>3, <3>4 DEF Moves
  <2> QED BY <1>2, <2>1, <2>2 DEF Begin
<1>3. ASSUME NEW t \in Tasks, NEW op \in {"commit", "rollback"}, EndsLevel(t, op)
      PROVE  LevelsCounted'
  <2>1. CASE UNCHANGED <<holder, depth>>
    BY <1>n, <1>3, <2>1 DEF Moves
  <2>2. CASE Open(Mgr(t)) /\ depth' = [depth EXCEPT ![t] = @ - 1]
    <3>1. depth[t] \in 1..MaxDepth /\ depth[t] > 0
      BY <1>3, <2>2, EndsOwnLevel, TransactionsAssumption DEF EndsLevel
    <3>2. holder[Mgr(t)].counter = Cardinality(Levels(Mgr(t)))
      BY <1>t, <1>3, Counted DEF EndsLevel, Locked
    <3>3. \A m \in Managers : Cardinality(Levels(m)') =
            IF m = Mgr(t) THEN Cardinality(Levels(m)) - 1 ELSE Cardinality(Levels(m))
      BY <1>t, <2>2, <3>1, LevelEnded DEF TypeOK
    <3>4. CASE holder' = [holder EXCEPT ![Mgr(t)].counter = @ - 1]
      <4>1. \A m \in Managers : holder'[m].counter =
              IF m = Mgr(t) THEN holder[m].counter - 1 ELSE holder[m].counter
        BY <1>t, <2>2, <3>4, Holders DEF TypeOK, TxnHolder
      <4> QED BY <1>k, <1>3, <3>2, <3>3, <4>1 DEF Moves
    <3>5. CASE holder[Mgr(t)].counter = 1 /\ holder' = [holder EXCEPT ![Mgr(t)] = Closed]
      <4>1. \A m \in Managers : holder'[m].counter =
              IF m = Mgr(t) THEN 0 ELSE holder[m].counter
        BY <1>t, <3>5 DEF TypeOK, Closed
      <4>2. Cardinality(Levels(Mgr(t))') = 0
        <5>1. Cardinality(Levels(Mgr(t))) = 1
          BY <3>2, <3>5
        <5>2. Cardinality(Levels(Mgr(t))') = Cardinality(Levels(Mgr(t))) - 1
          BY <3>3
        <5> QED BY <5>1, <5>2
      <4> QED BY <1>k, <1>3, <3>3, <4>1, <4>2 DEF Moves
    <3> QED BY <1>3, <2>2, <3>4, <3>5 DEF EndsLevel
  <2> QED BY <1>3, <2>1, <2>2 DEF EndsLevel
<1>4. ASSUME NEW t \in Tasks,
             Statement(t) \/ Acquire(t) \/ Autocommitted(t) \/ Ended(t) \/ Finish(t)
      PROVE  LevelsCounted'
  BY <1>n, <1>4 DEF Moves, Statement, Acquire, Autocommitted, Ended, Finish
<1>5. ASSUME NEW t \in Tasks, Opened(t)
      PROVE  LevelsCounted'
  <2>1. CASE UNCHANGED <<holder, depth>>
    BY <1>n, <1>5, <2>1 DEF Moves
  <2>2. CASE /\ holder' = [holder EXCEPT ![Mgr(t)] = Started]
             /\ depth' = [depth EXCEPT ![t] = @ + 1]
    <3>1. depth[t] < MaxDepth /\ ~Open(Mgr(t))
      BY <1>t, <1>5 DEF CallsSound, MutexHeld, Opened
    <3>2. Cardinality(Levels(Mgr(t))) = 0
      BY <1>t, <1>o, <1>5, <3>1, Counted DEF Opened
    <3>3. \A m \in Managers : holder'[m].counter =
            IF m = Mgr(t) THEN 1 ELSE holder[m].counter
      BY <1>t, <2>2 DEF TypeOK, Started
    <3>4. \A m \in Managers : Cardinality(Levels(m)') =
            IF m = Mgr(t) THEN Cardinality(Levels(m)) + 1 ELSE Cardinality(Levels(m))
      BY <1>t, <2>2, <3>1, LevelBegun DEF TypeOK
    <3> QED BY <1>k, <1>5, <3>2, <3>3, <3>4 DEF Moves
  <2> QED BY <1>5, <2>1, <2>2 DEF Opened
<1>6. ASSUME NEW t \in Tasks, InTxn(t) \/ Abandon(t)
      PROVE  LevelsCounted'
  <2>1. \A m \in Managers : holder'[m].counter = holder[m].counter
    <3>1. CASE holder' = holder
      BY <3>1
    <3>2. CASE /\ task[t].pc = "txn"
               /\ \/ holder' = [holder EXCEPT ![Mgr(t)].work = @ \cup {task[t].write}]
                  \/ holder' = [holder EXCEPT ![Mgr(t)].ok = FALSE]
      <4>1. Open(Mgr(t))
        BY <1>t, <3>2 DEF MutexHeld
      <4> QED BY <1>t, <3>2, <4>1, Holders DEF TypeOK, TxnHolder
    <3> QED BY <1>6, <3>1, <3>2 DEF InTxn, Abandon
  <2> QED BY <1>n, <1>6, <2>1 DEF Moves, InTxn, Abandon
<1>7. ASSUME NEW m \in Managers, DropManager(m)
      PROVE  LevelsCounted'
  <2>1. \A n \in Managers : Levels(n)' = Levels(n)
    BY <1>7 DEF Levels, DropManager
  <2>2. Dropped(m)'
    BY <1>t, <1>7 DEF TypeOK, Dropped, DropManager, Open
  <2>3. \A n \in Managers \ {m} : holder'[n] = holder[n] /\ (Dropped(n) <=> Dropped(n)')
    BY <1>t, <1>7 DEF TypeOK, Dropped, DropManager, Open
  <2> QED BY <1>t, <2>1, <2>2, <2>3 DEF LevelsCounted
<1> QED
  BY <1>1, <1>2, <1>3, <1>4, <1>5, <1>6, <1>7 DEF Next, Commit, Rollback

\* Storing writes of tasks that have no level open hides what it did before.
LEMMA StoredHidden ==
  ASSUME NEW W, TypeOK, WritesOwned, WorkHidden, UNCHANGED <<depth, mine>>,
         table' = table \cup W, \A w \in W : w[1] \in Tasks /\ depth[w[1]] = 0
  PROVE  WorkHidden'
<1> SUFFICES ASSUME NEW u \in Tasks, depth[u] > 0, NEW w \in mine[u], w \in W
             PROVE  FALSE
  BY DEF WorkHidden
<1>1. w[1] = u
  BY DEF WritesOwned
<1> QED BY <1>1

\* Nothing of a task that has a level open becomes stored: an autocommitted write is
\* its task's own, which then has none; work that is committed belongs to tasks of one
\* manager, none of which then has one.
LEMMA NextHidden == TxInv /\ Next => WorkHidden'
<1> SUFFICES ASSUME TxInv, Next PROVE WorkHidden'
  OBVIOUS
<1> USE UsesManagers
<1>t. /\ TypeOK /\ LevelsCounted /\ PlainStaysPlain /\ MutexHeld /\ CallsSound
      /\ WritesOwned /\ WorkHidden
  BY DEF TxInv
<1>n. ASSUME table' = table, \A u \in Tasks : depth'[u] > 0 => mine'[u] \cap table = {}
      PROVE  WorkHidden'
  BY <1>n DEF WorkHidden
<1>u. ASSUME table' = table, UNCHANGED <<depth, mine>>
      PROVE  WorkHidden'
  BY <1>t, <1>u DEF WorkHidden
<1>w. ASSUME NEW t \in Tasks, task[t].pc = "conn", task[t].op = "write"
      PROVE  task[t].write[1] = t /\ depth[t] = 0
  <2>1. task[t].write[1] = t
    BY <1>t, <1>w DEF CallsSound
  <2>2. ~Open(Mgr(t))
    BY <1>t, <1>w DEF MutexHeld, PlainStaysPlain
  <2> QED BY <1>t, <1>w, <2>1, <2>2, Counted
<1>e. ASSUME NEW t \in Tasks, task[t].pc = "end"
      PROVE  \A w \in task[t].taken.work : w[1] \in Tasks /\ depth[w[1]] = 0
  <2>1. ~Open(Mgr(t))
    BY <1>t, <1>e DEF MutexHeld
  <2>2. \A u \in Tasks : Mgr(u) = Mgr(t) => depth[u] = 0
    BY <1>t, <1>e, <2>1, Counted
  <2>3. \A w \in task[t].taken.work : w[1] \in Tasks /\ Mgr(w[1]) = Mgr(t)
    BY <1>t DEF WritesOwned, Issued, Writes
  <2> QED BY <2>2, <2>3
<1>1. ASSUME NEW t \in Tasks, NEW op \in Ops \ {"none"}, Call(t, op)
      PROVE  WorkHidden'
  <2>1. table' = table /\ depth' = depth
    BY <1>t, <1>1, CallShape
  <2>2. \A u \in Tasks : mine'[u] \subseteq mine[u] \cup {<<u, wrote[u] + 1>>}
    BY <1>t, <1>1, CallShape DEF TypeOK
  <2>3. \A u \in Tasks : <<u, wrote[u] + 1>> \notin table
    BY <1>t, TransactionsAssumption DEF WritesOwned, TypeOK
  <2> QED BY <1>t, <1>n, <2>1, <2>2, <2>3 DEF WorkHidden
<1>2. ASSUME NEW t \in Tasks, Begin(t)
      PROVE  WorkHidden'
  BY <1>t, <1>n, <1>2 DEF TypeOK, WorkHidden, Begin
<1>3. ASSUME NEW t \in Tasks, NEW op \in {"commit", "rollback"}, EndsLevel(t, op)
      PROVE  WorkHidden'
  <2>1. \A u \in Tasks : depth'[u] > 0 => depth[u] > 0
    BY <1>t, <1>3 DEF TypeOK, EndsLevel
  <2> QED BY <1>t, <1>n, <1>3, <2>1 DEF WorkHidden, EndsLevel
<1>4. ASSUME NEW t \in Tasks, Statement(t) \/ Acquire(t) \/ InTxn(t) \/ Finish(t)
      PROVE  WorkHidden'
  BY <1>t, <1>4 DEF WorkHidden, Statement, Acquire, InTxn, Finish
<1>5. ASSUME NEW t \in Tasks, Opened(t)
      PROVE  WorkHidden'
  BY <1>t, <1>n, <1>5 DEF TypeOK, WorkHidden, Opened
<1>6. ASSUME NEW t \in Tasks, Autocommitted(t)
      PROVE  WorkHidden'
  <2>1. CASE task[t].op = "write"
    <3>1. \A w \in {task[t].write} \ {None} : w[1] \in Tasks /\ depth[w[1]] = 0
      BY <1>6, <1>w, <2>1 DEF Autocommitted
    <3>2. /\ UNCHANGED <<depth, mine>>
          /\ table' = table \/ table' = table \cup ({task[t].write} \ {None})
      BY <1>6 DEF Autocommitted
    <3> QED BY <1>t, <1>u, <3>1, <3>2, StoredHidden
  <2>2. CASE task[t].op = "count"
    <3>1. task[t].write = None
      BY <1>t, <2>2 DEF CallsSound
    <3> QED BY <1>t, <1>6, <3>1 DEF WorkHidden, Autocommitted
  <2> QED BY <1>6, <2>1, <2>2 DEF Autocommitted
<1>7. ASSUME NEW t \in Tasks, Ended(t)
      PROVE  WorkHidden'
  <2>1. /\ UNCHANGED <<depth, mine>>
        /\ table' = table \/ table' = table \cup task[t].taken.work
    BY <1>7 DEF Ended
  <2>2. \A w \in task[t].taken.work : w[1] \in Tasks /\ depth[w[1]] = 0
    BY <1>e, <1>7 DEF Ended
  <2> QED BY <1>t, <1>u, <2>1, <2>2, StoredHidden
<1>8. ASSUME NEW t \in Tasks, Abandon(t)
      PROVE  WorkHidden'
  <2>1. CASE table' = table
    BY <1>t, <1>8, <2>1 DEF WorkHidden, Abandon
  <2>2. CASE /\ task[t].pc = "conn" /\ task[t].op = "write"
             /\ table' = table \cup {task[t].write}
    <3> DEFINE W == {task[t].write}
    <3>1. \A w \in W : w[1] \in Tasks /\ depth[w[1]] = 0
      BY <1>w, <2>2
    <3>2. table' = table \cup W /\ UNCHANGED <<depth, mine>>
      BY <1>8, <2>2 DEF Abandon
    <3> HIDE DEF W
    <3> QED BY <1>t, <3>1, <3>2, StoredHidden
  <2>3. CASE task[t].pc = "end" /\ table' = table \cup task[t].taken.work
    <3>1. \A w \in task[t].taken.work : w[1] \in Tasks /\ depth[w[1]] = 0
      BY <1>e, <2>3
    <3> QED BY <1>t, <1>8, <2>3, <3>1, StoredHidden DEF Abandon
  <2> QED BY <1>8, <2>1, <2>2, <2>3 DEF Abandon
<1>9. ASSUME NEW m \in Managers, DropManager(m)
      PROVE  WorkHidden'
  BY <1>t, <1>9 DEF WorkHidden, DropManager
<1> QED
  BY <1>1, <1>2, <1>3, <1>4, <1>5, <1>6, <1>7, <1>8, <1>9 DEF Next, Commit, Rollback

-----------------------------------------------------------------------------
(* Connections.                                                            *)

LEMMA ConnsFinite ==
  /\ IsFiniteSet(OpenManagers) /\ Cardinality(OpenManagers) \in Nat
  /\ IsFiniteSet(Busy) /\ Cardinality(Busy) \in Nat
<1>1. OpenManagers \subseteq Managers /\ Busy \subseteq Tasks
  BY DEF OpenManagers, Busy
<1> QED BY <1>1, FS_Subset, FS_CardinalityType, TransactionsAssumption

\* One task starts or stops to use a connection at a time.
LEMMA BusyMoves ==
  ASSUME NEW t \in Tasks, \A u \in Tasks \ {t} : task'[u] = task[u]
  PROVE  /\ (t \in Busy <=> t \in Busy') => Cardinality(Busy') = Cardinality(Busy)
         /\ t \notin Busy /\ t \in Busy' => Cardinality(Busy') = Cardinality(Busy) + 1
         /\ t \in Busy /\ t \notin Busy' => Cardinality(Busy') = Cardinality(Busy) - 1
<1>1. (t \in Busy <=> t \in Busy') => Busy' = Busy
  BY DEF Busy
<1>2. t \notin Busy /\ t \in Busy' => Busy' = Busy \cup {t}
  BY DEF Busy
<1>3. t \in Busy /\ t \notin Busy' => Busy' = Busy \ {t}
  BY DEF Busy
<1> QED BY <1>1, <1>2, <1>3, ConnsFinite, FS_AddElement, FS_RemoveElement

\* One manager opens or closes its transaction at a time.
LEMMA OpenMoves ==
  ASSUME NEW m \in Managers, \A n \in Managers \ {m} : Open(n)' <=> Open(n)
  PROVE  /\ (Open(m) <=> Open(m)') => Cardinality(OpenManagers') = Cardinality(OpenManagers)
         /\ ~Open(m) /\ Open(m)' =>
              Cardinality(OpenManagers') = Cardinality(OpenManagers) + 1
         /\ Open(m) /\ ~Open(m)' =>
              Cardinality(OpenManagers') = Cardinality(OpenManagers) - 1
<1>1. (Open(m) <=> Open(m)') => OpenManagers' = OpenManagers
  BY DEF OpenManagers
<1>2. ~Open(m) /\ Open(m)' => m \notin OpenManagers /\ OpenManagers' = OpenManagers \cup {m}
  BY DEF OpenManagers
<1>3. Open(m) /\ ~Open(m)' => m \in OpenManagers /\ OpenManagers' = OpenManagers \ {m}
  BY DEF OpenManagers
<1> QED BY <1>1, <1>2, <1>3, ConnsFinite, FS_AddElement, FS_RemoveElement

\* The ways a connection moves between the pool, the managers and the tasks.
LEMMA ConnMoves ==
  ASSUME free \in Nat, ConnsAccounted,
         NEW o \in Nat, o = Cardinality(OpenManagers), NEW o2, o2 = Cardinality(OpenManagers'),
         NEW b \in Nat, b = Cardinality(Busy), NEW b2, b2 = Cardinality(Busy'),
         \/ free' = free + 1 /\ o2 = o /\ b2 = b - 1
         \/ free' = free + 1 /\ o2 = o - 1 /\ b2 = b
         \/ free' = free - 1 /\ o2 = o /\ b2 = b + 1
         \/ free' = free /\ o2 = o - 1 /\ b2 = b + 1
         \/ free' = free /\ o2 = o + 1 /\ b2 = b - 1
  PROVE  ConnsAccounted'
<1>1. free + o + b = MaxConns
  BY DEF ConnsAccounted
<1>2. free' + o2 + b2 = free + o + b
  OBVIOUS
<1> QED BY <1>1, <1>2 DEF ConnsAccounted

\* No action loses a connection or makes one.
LEMMA NextConns == TxInv /\ Next => ConnsAccounted'
<1> SUFFICES ASSUME TxInv, Next PROVE ConnsAccounted'
  OBVIOUS
<1> USE UsesManagers
<1>t. /\ TypeOK /\ TypeOK' /\ MutexHeld /\ ConnsAccounted
      /\ free \in Nat /\ free' \in Nat /\ MaxConns \in Nat
  BY NextType, TransactionsAssumption DEF TxInv, TypeOK
<1>o. \A m \in Managers : Open(m)' <=> holder'[m] # Closed
  BY DEF Open
<1>f. /\ Cardinality(OpenManagers) \in Nat /\ Cardinality(Busy) \in Nat
      /\ free + Cardinality(OpenManagers) + Cardinality(Busy) = MaxConns
  BY <1>t, ConnsFinite DEF ConnsAccounted
<1>b. \A t \in Tasks : /\ t \in Busy <=> task[t].pc \in {"conn", "end"}
                       /\ t \in Busy' <=> task'[t].pc \in {"conn", "end"}
  BY DEF Busy
<1>s. ASSUME NEW t \in Tasks, Moves(t), free' = free,
             task[t].pc \notin {"conn", "end"}, task'[t].pc \notin {"conn", "end"},
             \A m \in Managers : Open(m)' <=> Open(m)
      PROVE  ConnsAccounted'
  <2>1. OpenManagers' = OpenManagers
    BY <1>s DEF OpenManagers
  <2>2. Cardinality(Busy') = Cardinality(Busy)
    BY <1>t, <1>b, <1>s, OneMoves, BusyMoves
  <2> QED BY <1>f, <1>s, <2>1, <2>2 DEF ConnsAccounted
<1>r. ASSUME NEW t \in Tasks, Moves(t), free' = free + 1,
             task[t].pc \in {"conn", "end"}, task'[t].pc \notin {"conn", "end"},
             holder' = holder
      PROVE  ConnsAccounted'
  <2>1. OpenManagers' = OpenManagers
    BY <1>r DEF OpenManagers, Open
  <2>2. Cardinality(Busy') = Cardinality(Busy) - 1
    BY <1>t, <1>b, <1>r, OneMoves, BusyMoves
  <2> QED BY <1>t, <1>f, <1>r, <2>1, <2>2, ConnMoves
<1>1. ASSUME NEW t \in Tasks, NEW op \in Ops \ {"none"}, Call(t, op)
      PROVE  ConnsAccounted'
  <2>1. task[t].pc = "run" /\ task'[t].pc \in {"lock", "pool"}
    BY <1>t, <1>1, CallShape, TaskRecords DEF TypeOK
  <2>2. holder' = holder /\ free' = free
    BY <1>1 DEF Call
  <2> QED BY <1>s, <1>1, <2>1, <2>2 DEF Moves, Open
<1>2. ASSUME NEW t \in Tasks, Begin(t)
      PROVE  ConnsAccounted'
  <2>1. task[t].pc = "lock" /\ task'[t].pc \in {"run", "pool"}
    <3>1. task[t].pc = "lock" /\ (Return(t) \/ Goto(t, "pool"))
      BY <1>2 DEF Begin, Locked
    <3>2. Return(t) => task'[t].pc = "run"
      BY <1>t, TaskRecords DEF TypeOK, Return
    <3>3. Goto(t, "pool") => task'[t].pc = "pool"
      BY <1>t DEF TypeOK, Task, Goto
    <3> QED BY <3>1, <3>2, <3>3
  <2>2. \A m \in Managers : Open(m)' <=> Open(m)
    <3>1. CASE holder' = holder
      BY <3>1 DEF Open
    <3>2. CASE Open(Mgr(t)) /\ holder' = [holder EXCEPT ![Mgr(t)].counter = @ + 1]
      <4>1. holder'[Mgr(t)].counter # 0
        BY <1>t, <3>2, Holders DEF TypeOK, TxnHolder
      <4>2. holder'[Mgr(t)] # Closed
        BY <4>1 DEF Closed
      <4>3. \A m \in Managers \ {Mgr(t)} : holder'[m] = holder[m]
        BY <1>t, <3>2 DEF TypeOK
      <4> QED BY <3>2, <4>2, <4>3 DEF Open
    <3> QED BY <1>2, <3>1, <3>2 DEF Begin
  <2> QED BY <1>s, <1>2, <2>1, <2>2 DEF Moves, Begin
<1>3. ASSUME NEW t \in Tasks, NEW op \in {"commit", "rollback"}, EndsLevel(t, op)
      PROVE  ConnsAccounted'
  <2>0. task[t].pc = "lock" /\ free' = free
    BY <1>3 DEF EndsLevel, Locked
  <2>1. CASE Return(t) /\ holder' = holder
    BY <1>t, <1>s, <1>3, <2>0, <2>1, TaskRecords DEF TypeOK, Moves, Return, Open
  <2>2. CASE /\ Return(t) /\ Open(Mgr(t)) /\ holder[Mgr(t)].counter > 1
             /\ holder' = [holder EXCEPT ![Mgr(t)].counter = @ - 1]
    <3>1. task'[t].pc = "run"
      BY <1>t, <2>2, TaskRecords DEF TypeOK, Return
    <3>2. holder'[Mgr(t)].counter # 0
      BY <1>t, <2>2, Holders DEF TypeOK, TxnHolder
    <3>3. holder'[Mgr(t)] # Closed
      BY <3>2 DEF Closed
    <3>4. \A m \in Managers \ {Mgr(t)} : holder'[m] = holder[m]
      BY <1>t, <2>2 DEF TypeOK
    <3>5. \A m \in Managers : Open(m)' <=> Open(m)
      BY <2>2, <3>3, <3>4 DEF Open
    <3> QED BY <1>s, <1>3, <2>0, <3>1, <3>5 DEF Moves
  <2>3. CASE /\ Open(Mgr(t)) /\ holder' = [holder EXCEPT ![Mgr(t)] = Closed]
             /\ task' = [task EXCEPT ![t].pc = "end", ![t].taken = holder[Mgr(t)]]
    <3>1. task'[t].pc = "end"
      BY <1>t, <2>3 DEF TypeOK, Task
    <3>2. Cardinality(Busy') = Cardinality(Busy) + 1
      BY <1>t, <1>b, <1>3, <2>0, <3>1, OneMoves, BusyMoves DEF Moves
    <3>3. ~Open(Mgr(t))' /\ \A m \in Managers \ {Mgr(t)} : Open(m)' <=> Open(m)
      BY <1>t, <2>3 DEF TypeOK, Open
    <3>4. Cardinality(OpenManagers') = Cardinality(OpenManagers) - 1
      BY <2>3, <3>3, OpenMoves
    <3> QED BY <1>t, <1>f, <2>0, <3>2, <3>4, ConnMoves
  <2> QED BY <1>3, <2>1, <2>2, <2>3 DEF EndsLevel
<1>4. ASSUME NEW t \in Tasks, Statement(t)
      PROVE  ConnsAccounted'
  <2>1. task[t].pc = "lock" /\ task'[t].pc \in {"txn", "pool"}
    BY <1>t, <1>4, TaskRecords DEF TypeOK, Statement, Locked, Goto
  <2> QED BY <1>s, <1>4, <2>1 DEF Moves, Statement, Open
<1>5. ASSUME NEW t \in Tasks, Acquire(t)
      PROVE  ConnsAccounted'
  <2>1. CASE free' = free /\ Return(t)
    BY <1>t, <1>s, <1>5, <2>1, TaskRecords DEF TypeOK, Moves, Acquire, Return, Open
  <2>2. CASE free' = free - 1 /\ Goto(t, "conn")
    <3>1. task[t].pc = "pool" /\ task'[t].pc = "conn" /\ holder' = holder
      BY <1>t, <1>5, <2>2, TaskRecords DEF TypeOK, Acquire, Goto
    <3>2. Cardinality(Busy') = Cardinality(Busy) + 1
      BY <1>t, <1>b, <1>5, <3>1, OneMoves, BusyMoves DEF Moves
    <3>3. OpenManagers' = OpenManagers
      BY <3>1 DEF OpenManagers, Open
    <3> QED BY <1>t, <1>f, <2>2, <3>2, <3>3, ConnMoves
  <2> QED BY <1>5, <2>1, <2>2 DEF Acquire
<1>6. ASSUME NEW t \in Tasks, Opened(t)
      PROVE  ConnsAccounted'
  <2>1. task[t].pc = "conn" /\ task'[t].pc = "run"
    BY <1>t, <1>6, TaskRecords DEF TypeOK, Opened, Return
  <2>2. CASE free' = free + 1 /\ holder' = holder
    BY <1>r, <1>6, <2>1, <2>2 DEF Moves
  <2>3. CASE free' = free /\ holder' = [holder EXCEPT ![Mgr(t)] = Started]
    <3>1. Cardinality(Busy') = Cardinality(Busy) - 1
      BY <1>t, <1>b, <1>6, <2>1, OneMoves, BusyMoves DEF Moves
    <3>2. ~Open(Mgr(t))
      BY <1>t, <1>6 DEF TxInv, CallsSound, MutexHeld, Opened
    <3>3. Started # Closed
      BY DEF Started, Closed
    <3>4. Open(Mgr(t))' /\ \A m \in Managers \ {Mgr(t)} : Open(m)' <=> Open(m)
      BY <1>t, <2>3, <3>3 DEF TypeOK, Open
    <3>5. Cardinality(OpenManagers') = Cardinality(OpenManagers) + 1
      BY <3>2, <3>4, OpenMoves
    <3> QED BY <1>t, <1>f, <2>3, <3>1, <3>5, ConnMoves
  <2> QED BY <1>6, <2>2, <2>3 DEF Opened
<1>7. ASSUME NEW t \in Tasks, Autocommitted(t) \/ Ended(t)
      PROVE  ConnsAccounted'
  <2>1. task[t].pc \in {"conn", "end"} /\ task'[t].pc = "run"
    BY <1>t, <1>7, TaskRecords DEF TypeOK, Autocommitted, Ended, Return
  <2> QED BY <1>r, <1>7, <2>1 DEF Moves, Autocommitted, Ended
<1>8. ASSUME NEW t \in Tasks, Finish(t)
      PROVE  ConnsAccounted'
  <2>1. task[t].pc = "run" /\ task'[t].pc = "gone"
    BY <1>t, <1>8, TaskRecords DEF TypeOK, Finish
  <2> QED BY <1>s, <1>8, <2>1 DEF Moves, Finish, Open
<1>9. ASSUME NEW t \in Tasks, InTxn(t) \/ Abandon(t)
      PROVE  ConnsAccounted'
  <2>1. task'[t].pc \in {"run", "gone"}
    BY <1>t, <1>9, TaskRecords DEF TypeOK, InTxn, Abandon, Return
  <2>2. CASE task[t].pc \in {"conn", "end"}
    <3>1. free' = free + 1 /\ holder' = holder
      BY <1>9, <2>2 DEF InTxn, Abandon
    <3> QED BY <1>r, <1>9, <2>1, <2>2, <3>1 DEF Moves
  <2>3. CASE task[t].pc \notin {"conn", "end"}
    <3>1. free' = free
      BY <1>9, <2>3 DEF InTxn, Abandon
    <3>2. CASE holder' = holder
      BY <1>s, <1>9, <2>1, <2>3, <3>1, <3>2 DEF Moves, Open
    <3>3. CASE /\ task[t].pc = "txn"
               /\ \/ holder' = [holder EXCEPT ![Mgr(t)].work = @ \cup {task[t].write}]
                  \/ holder' = [holder EXCEPT ![Mgr(t)].ok = FALSE]
      <4>1. Open(Mgr(t))
        BY <1>t, <3>3 DEF MutexHeld
      <4>2. holder'[Mgr(t)].counter # 0
        BY <1>t, <3>3, <4>1, Holders DEF TypeOK, TxnHolder
      <4>3. holder'[Mgr(t)] # Closed
        BY <4>2 DEF Closed
      <4>4. \A m \in Managers \ {Mgr(t)} : holder'[m] = holder[m]
        BY <1>t, <3>3 DEF TypeOK
      <4>5. \A m \in Managers : Open(m)' <=> Open(m)
        BY <4>1, <4>3, <4>4 DEF Open
      <4> QED BY <1>s, <1>9, <2>1, <2>3, <3>1, <4>5 DEF Moves
    <3> QED BY <1>9, <3>2, <3>3 DEF InTxn, Abandon
  <2> QED BY <2>2, <2>3
<1>10. ASSUME NEW m \in Managers, DropManager(m)
      PROVE  ConnsAccounted'
  <2>1. Busy' = Busy
    BY <1>10 DEF Busy, DropManager
  <2>2. ~Open(m)' /\ \A n \in Managers \ {m} : Open(n)' <=> Open(n)
    BY <1>t, <1>10 DEF TypeOK, Open, DropManager
  <2>3. Cardinality(OpenManagers') = Cardinality(OpenManagers) - 1
    BY <1>10, <2>2, OpenMoves DEF DropManager
  <2> QED BY <1>t, <1>f, <1>10, <2>1, <2>3, ConnMoves DEF DropManager
<1> QED
  BY <1>1, <1>2, <1>3, <1>4, <1>5, <1>6, <1>7, <1>8, <1>9, <1>10
     DEF Next, Commit, Rollback

-----------------------------------------------------------------------------
(* The theorems.                                                           *)

LEMMA InitTxInv == Init => TxInv
<1> SUFFICES ASSUME Init PROVE TxInv
  OBVIOUS
<1> USE UsesManagers, TransactionsAssumption
<1>1. TypeOK
  <2>1. Running \in Task
    BY TaskRecords
  <2> QED BY <2>1 DEF Init, TypeOK
<1>2. \A m \in Managers : ~Open(m) /\ holder[m].counter = 0 /\ holder[m].work = {}
  BY DEF Init, Open, Closed
<1>3. LevelsCounted
  <2>1. \A m \in Managers : Levels(m) = {}
    BY DEF Init, Levels
  <2> QED BY <1>2, <2>1, FS_EmptySet DEF LevelsCounted
<1>4. \A t \in Tasks : /\ task[t].pc = "run" /\ task[t].op = "none"
                       /\ task[t].write = None /\ task[t].taken.work = {}
  BY TaskRecords DEF Init, Closed
<1>5. PlainStaysPlain
  BY <1>2 DEF Init, PlainStaysPlain
<1>6. MutexHeld /\ CallsSound /\ CallsSettled
  BY <1>4 DEF MutexHeld, CallsSound, CallsSettled
<1>7. WritesOwned
  BY <1>2, <1>4 DEF Init, WritesOwned
<1>8. ConnsAccounted
  <2>1. OpenManagers = {} /\ Busy = {}
    BY <1>2, <1>4 DEF OpenManagers, Busy
  <2> QED BY <2>1, FS_EmptySet DEF Init, ConnsAccounted
<1>9. WorkHidden
  BY DEF Init, WorkHidden
<1> QED BY <1>1, <1>3, <1>5, <1>6, <1>7, <1>8, <1>9 DEF TxInv

LEMMA TxInvStutters == TxInv /\ UNCHANGED vars => TxInv'
<1> SUFFICES ASSUME TxInv, UNCHANGED vars PROVE TxInv'
  OBVIOUS
<1> QED
  BY DEF vars, TxInv, TypeOK, LevelsCounted, PlainStaysPlain, MutexHeld, CallsSound,
         CallsSettled, WritesOwned, ConnsAccounted, WorkHidden, Dropped, Levels, Open, Sole, Issued,
         OpenManagers, Busy

\* The bookkeeping of Dbx: the counter of a manager is the number of levels its tasks
\* have begun and not ended, whoever began them; a task inside Dbx holds its manager's
\* mutex; and every connection of the pool is idle, in one open transaction or in use
\* by one task, so none leaks when a level, a commit or a task fails.
THEOREM TransactionsInvariance == Spec => []TxInv
<1>1. TxInv /\ [Next]_vars => TxInv'
  BY NextType, NextLevels, NextPlain, NextMutex, NextCalls, NextSettled, NextOwned,
     NextConns, NextHidden, TxInvStutters DEF TxInv
<1> QED BY InitTxInv, <1>1, PTL DEF Spec

\* A transaction is all or nothing for the tasks in it: nothing a task has written
\* since its begin_txn is stored while it has that level open.
THEOREM TransactionsHidden == Spec => []WorkHidden
<1>1. TxInv => WorkHidden
  BY DEF TxInv
<1> QED BY <1>1, TransactionsInvariance, PTL

=============================================================================
