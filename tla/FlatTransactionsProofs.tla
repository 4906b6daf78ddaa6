----------------------- MODULE FlatTransactionsProofs -----------------------
(***************************************************************************)
(* Transactions implements FlatTransactions, for any tasks, managers, pool *)
(* and bounds: each step of Dbx is one of the flat transaction, or changes *)
(* nothing that one can see.                                               *)
(***************************************************************************)
EXTENDS TransactionsProofs

USE DEF Mgr, At

TxnNow == [m \in Managers |-> TxnOf(m)]
InsideNow == {t \in Tasks : depth[t] > 0}
GoneNow == {t \in Tasks : At(t, "gone")}

\* What one step of the implementation is to the flat transaction.
FlatStep == Flat!Next \/ UNCHANGED Flat!vars

FlatTxn(st, h) == [st |-> st, work |-> h.work, ok |-> h.ok]

-----------------------------------------------------------------------------
(* The mapping.                                                            *)

\* Where a manager's transaction is, before and after a step.
LEMMA TxnForms ==
  ASSUME NEW m \in Managers
  PROVE  /\ Open(m) => TxnOf(m) = FlatTxn("open", holder[m])
         /\ MutexHeld => \A t \in Tasks :
              Ends(t, m) => ~Open(m) /\ TxnOf(m) = FlatTxn(task[t].op, task[t].taken)
         /\ ~Open(m) /\ (\A t \in Tasks : ~Ends(t, m)) => TxnOf(m) = Flat!NoTxn
<1>1. Open(m) => TxnOf(m) = FlatTxn("open", holder[m])
  BY DEF TxnOf, FlatTxn
<1>2. ASSUME MutexHeld, NEW t \in Tasks, Ends(t, m)
      PROVE  ~Open(m) /\ TxnOf(m) = FlatTxn(task[t].op, task[t].taken)
  <2>1. \A x \in Tasks : Ends(x, m) => x = mutex[m] /\ ~Open(m)
    BY <1>2 DEF MutexHeld, Ends
  <2>2. (CHOOSE x \in Tasks : Ends(x, m)) = t
    BY <1>2, <2>1
  <2> QED BY <1>2, <2>1, <2>2 DEF TxnOf, FlatTxn
<1>3. ~Open(m) /\ (\A t \in Tasks : ~Ends(t, m)) => TxnOf(m) = Flat!NoTxn
  BY DEF TxnOf, Closed, Flat!NoTxn
<1> QED BY <1>1, <1>2, <1>3

LEMMA TxnFormsNext ==
  ASSUME NEW m \in Managers
  PROVE  /\ Open(m)' => TxnOf(m)' = FlatTxn("open", holder'[m])
         /\ MutexHeld' => \A t \in Tasks :
              Ends(t, m)' => ~Open(m)' /\ TxnOf(m)' = FlatTxn(task'[t].op, task'[t].taken)
         /\ ~Open(m)' /\ (\A t \in Tasks : ~Ends(t, m)') => TxnOf(m)' = Flat!NoTxn
<1>1. Open(m)' => TxnOf(m)' = FlatTxn("open", holder'[m])
  BY DEF TxnOf, FlatTxn
<1>2. ASSUME MutexHeld', NEW t \in Tasks, Ends(t, m)'
      PROVE  ~Open(m)' /\ TxnOf(m)' = FlatTxn(task'[t].op, task'[t].taken)
  <2>1. \A x \in Tasks : Ends(x, m)' => x = mutex'[m] /\ ~Open(m)'
    BY <1>2 DEF MutexHeld, Ends
  <2>2. (CHOOSE x \in Tasks : Ends(x, m)') = t
    BY <1>2, <2>1
  <2> QED BY <1>2, <2>1, <2>2 DEF TxnOf, FlatTxn
<1>3. ~Open(m)' /\ (\A t \in Tasks : ~Ends(t, m)') => TxnOf(m)' = Flat!NoTxn
  BY DEF TxnOf, Closed, Flat!NoTxn
<1> QED BY <1>1, <1>2, <1>3

\* A transaction stays as it is while its holder does, and the task that ends it.
LEMMA TxnKept ==
  ASSUME MutexHeld, MutexHeld', NEW m \in Managers,
         Open(m)' <=> Open(m),
         holder'[m].work = holder[m].work, holder'[m].ok = holder[m].ok,
         \A t \in Tasks : Ends(t, m) \/ Ends(t, m)' => task'[t] = task[t]
  PROVE  TxnOf(m)' = TxnOf(m)
<1>1. \A t \in Tasks : Ends(t, m)' <=> Ends(t, m)
  BY DEF Ends
<1>2. CASE Open(m)
  BY <1>2, TxnForms, TxnFormsNext DEF FlatTxn
<1>3. ASSUME NEW t \in Tasks, Ends(t, m)
      PROVE  TxnOf(m)' = TxnOf(m)
  BY <1>1, <1>3, TxnForms, TxnFormsNext
<1>4. CASE ~Open(m) /\ \A t \in Tasks : ~Ends(t, m)
  BY <1>1, <1>4, TxnForms, TxnFormsNext
<1> QED BY <1>2, <1>3, <1>4

\* The transactions when one of them changes.
LEMMA TxnUpdate ==
  ASSUME NEW m \in Managers, NEW v, TxnOf(m)' = v,
         \A n \in Managers \ {m} : TxnOf(n)' = TxnOf(n)
  PROVE  TxnNow' = [TxnNow EXCEPT ![m] = v]
BY DEF TxnNow

\* Only the transaction of the task's own manager changes.
LEMMA OthersKept ==
  ASSUME TxInv, TxInv', NEW t \in Tasks, Moves(t)
  PROVE  \A m \in Managers \ {Mgr(t)} : TxnOf(m)' = TxnOf(m)
<1>t. TypeOK /\ MutexHeld /\ MutexHeld'
  BY DEF TxInv
<1>1. \A m \in Managers \ {Mgr(t)} : holder'[m] = holder[m]
  <2>1. CASE \E op \in Ops \ {"none"} : Call(t, op)
    BY <2>1 DEF Call
  <2>2. CASE Begin(t)
    BY <1>t, <2>2 DEF TypeOK, Begin
  <2>3. ASSUME NEW op \in {"commit", "rollback"}, EndsLevel(t, op)
        PROVE  \A m \in Managers \ {Mgr(t)} : holder'[m] = holder[m]
    BY <1>t, <2>3 DEF TypeOK, EndsLevel
  <2>4. CASE Statement(t) \/ Acquire(t) \/ Autocommitted(t) \/ Ended(t) \/ Finish(t)
    BY <2>4 DEF Statement, Acquire, Autocommitted, Ended, Finish
  <2>5. CASE Opened(t)
    BY <1>t, <2>5 DEF TypeOK, Opened
  <2>6. CASE InTxn(t)
    BY <1>t, <2>6 DEF TypeOK, InTxn
  <2>7. CASE Abandon(t)
    BY <1>t, <2>7 DEF TypeOK, Abandon
  <2> QED BY <2>1, <2>2, <2>3, <2>4, <2>5, <2>6, <2>7 DEF Moves
<1> SUFFICES ASSUME NEW m \in Managers \ {Mgr(t)}
             PROVE  TxnOf(m)' = TxnOf(m)
  OBVIOUS
<1>2. Open(m)' <=> Open(m)
  BY <1>1 DEF Open
<1>3. \A u \in Tasks : Ends(u, m) \/ Ends(u, m)' => task'[u] = task[u]
  BY <1>t, OneMoves DEF Ends
<1> QED BY <1>t, <1>1, <1>2, <1>3, TxnKept

\* Writes that are done, by what becomes of the task's own.
LEMMA DoneForms ==
  ASSUME TxInv, NEW t \in Tasks,
         \A u \in Tasks \ {t} : task'[u] = task[u] /\ wrote'[u] = wrote[u]
  PROVE  /\ wrote'[t] = wrote[t] /\ task'[t].write = task[t].write => Done' = Done
         /\ /\ wrote'[t] = wrote[t] + 1 /\ task'[t].write = <<t, wrote[t] + 1>>
            /\ task[t].write = None
            => Done' = Done
         /\ /\ wrote'[t] = wrote[t] /\ task'[t].write = None
            /\ task[t].op = "write"
            => LET w == task[t].write
               IN  w \in Writes /\ w[1] = t /\ w \notin Done /\ Done' = Done \cup {w}
<1>t. /\ None \notin Writes /\ wrote[t] \in 0..MaxWrites /\ MaxWrites \in Nat
      /\ task[t].op = "write" => task[t].write \in {t} \X (1..wrote[t])
  BY TransactionsAssumption DEF TxInv, TypeOK, CallsSound
<1>w. \A w \in Writes : w[1] \in Tasks /\ w[2] \in 1..MaxWrites /\ w = <<w[1], w[2]>>
  BY DEF Writes
<1>1. \A w \in Writes : w[1] # t => (w \in Done' <=> w \in Done)
  BY <1>w DEF Done
<1>2. ASSUME wrote'[t] = wrote[t], task'[t].write = task[t].write
      PROVE  Done' = Done
  <2>1. \A w \in Writes : w[1] = t => (w \in Done' <=> w \in Done)
    BY <1>2 DEF Done
  <2> QED BY <1>1, <2>1 DEF Done
<1>3. ASSUME wrote'[t] = wrote[t] + 1, task'[t].write = <<t, wrote[t] + 1>>,
             task[t].write = None
      PROVE  Done' = Done
  <2>1. ASSUME NEW w \in Writes, w[1] = t
        PROVE  w \in Done' <=> w \in Done
    <3>1. w \in Done <=> w[2] <= wrote[t]
      BY <1>t, <1>3, <2>1 DEF Done
    <3>2. w \in Done' <=> w[2] <= wrote[t] + 1 /\ w # <<t, wrote[t] + 1>>
      BY <1>3, <2>1 DEF Done
    <3>3. w = <<t, wrote[t] + 1>> <=> w[2] = wrote[t] + 1
      BY <1>w, <2>1
    <3> QED BY <1>t, <1>w, <3>1, <3>2, <3>3
  <2> QED BY <1>1, <2>1 DEF Done
<1>4. ASSUME wrote'[t] = wrote[t], task'[t].write = None, task[t].op = "write",
             NEW w, w = task[t].write
      PROVE  w \in Writes /\ w[1] = t /\ w \notin Done /\ Done' = Done \cup {w}
  <2>1. w[1] = t /\ w[2] \in 1..wrote[t] /\ w \in Writes
    BY <1>t, <1>4 DEF Writes
  <2>2. w \notin Done /\ w \in Done'
    BY <1>t, <1>4, <2>1 DEF Done
  <2>3. \A x \in Writes : x[1] = t /\ x # w => (x \in Done' <=> x \in Done)
    BY <1>t, <1>4 DEF Done
  <2> QED BY <1>1, <2>1, <2>2, <2>3 DEF Done
<1> QED BY <1>2, <1>3, <1>4

-----------------------------------------------------------------------------
(* The steps of the flat transaction, by what the mapping shows of them.   *)

LEMMA FlatStutters ==
  ASSUME table' = table, Done' = Done,
         \A m \in Managers : TxnOf(m)' = TxnOf(m),
         \A t \in Tasks : depth'[t] > 0 <=> depth[t] > 0,
         \A t \in Tasks : At(t, "gone")' <=> At(t, "gone")
  PROVE  FlatStep
<1>1. TxnNow' = TxnNow /\ InsideNow' = InsideNow /\ GoneNow' = GoneNow
  BY DEF TxnNow, InsideNow, GoneNow
<1> QED BY <1>1 DEF FlatStep, Flat!vars, TxnNow, InsideNow, GoneNow

\* A task that stops, or goes on.
LEMMA GoneForms ==
  ASSUME NEW t \in Tasks, \A u \in Tasks \ {t} : task'[u] = task[u], task[t].pc # "gone"
  PROVE  /\ t \notin GoneNow
         /\ task'[t].pc = "gone" => GoneNow' = GoneNow \cup {t}
         /\ task'[t].pc # "gone" => GoneNow' = GoneNow
BY DEF GoneNow

LEMMA FlatWrites ==
  ASSUME TxInv, TxInv', NEW t \in Tasks, Moves(t),
         task[t].op = "write", task'[t].write = None, UNCHANGED <<wrote, depth>>,
         NEW v, v = TxnOf(Mgr(t)),
         \/ table' = table /\ TxnOf(Mgr(t))' = v
         \/ v.st = "none" /\ table' = table \cup {task[t].write} /\ TxnOf(Mgr(t))' = v
         \/ /\ v.st = "open" /\ table' = table
            /\ \/ /\ v.ok
                  /\ TxnOf(Mgr(t))' = [v EXCEPT !.work = @ \cup {task[t].write}]
               \/ TxnOf(Mgr(t))' = [v EXCEPT !.ok = FALSE]
  PROVE  FlatStep
<1>m. Mgr(t) \in Managers
  BY UsesManagers
<1>k. \A m \in Managers \ {Mgr(t)} : TxnOf(m)' = TxnOf(m)
  BY OthersKept
<1>1. /\ task[t].pc # "gone"
      /\ \A u \in Tasks \ {t} : task'[u] = task[u] /\ wrote'[u] = wrote[u]
  BY OneMoves DEF TxInv
<1>2. PICK w \in Writes : /\ w = task[t].write /\ w[1] = t /\ w \notin Done
                          /\ Done' = Done \cup {w}
  BY <1>1, DoneForms
<1>3. t \notin GoneNow /\ GoneNow' \in {GoneNow, GoneNow \cup {t}}
  BY <1>1, GoneForms
<1>4. InsideNow' = InsideNow
  BY DEF InsideNow
<1>5. TxnNow[Mgr(t)] = v
  BY <1>m DEF TxnNow
<1>6. \/ TxnNow' = TxnNow /\ table' = table
      \/ TxnNow' = TxnNow /\ v.st = "none" /\ table' = table \cup {w}
      \/ /\ v.st = "open" /\ table' = table
         /\ \/ v.ok /\ TxnNow' = [TxnNow EXCEPT ![Mgr(t)].work = @ \cup {w}]
            \/ TxnNow' = [TxnNow EXCEPT ![Mgr(t)].ok = FALSE]
  <2>1. CASE TxnOf(Mgr(t))' = v
    <3>1. TxnNow' = TxnNow
      BY <1>k, <2>1 DEF TxnNow
    <3> QED BY <1>2, <2>1, <3>1
  <2>2. ASSUME NEW x, TxnOf(Mgr(t))' = x
        PROVE  TxnNow' = [TxnNow EXCEPT ![Mgr(t)] = x]
    BY <1>m, <1>k, <2>2, TxnUpdate
  <2> QED BY <1>2, <1>5, <2>1, <2>2
<1>7. Flat!Write(t, w)
  BY <1>2, <1>3, <1>4, <1>5, <1>6
     DEF Flat!Write, Flat!Txn, Flat!MayBeLost, TxnNow, InsideNow, GoneNow
<1> QED BY <1>7 DEF FlatStep, Flat!Next

\* A call that is not a write ends with nothing to show, but that its task may stop.
LEMMA FlatIdles ==
  ASSUME TxInv, TxInv', NEW t \in Tasks, Moves(t), TxnOf(Mgr(t))' = TxnOf(Mgr(t)),
         table' = table, task'[t].write = task[t].write, UNCHANGED <<wrote, depth>>
  PROVE  FlatStep
<1>1. /\ task[t].pc # "gone"
      /\ \A u \in Tasks \ {t} : task'[u] = task[u] /\ wrote'[u] = wrote[u]
  BY OneMoves DEF TxInv
<1>2. Done' = Done
  BY <1>1, DoneForms
<1>3. \A m \in Managers : TxnOf(m)' = TxnOf(m)
  BY OthersKept
<1>4. CASE task'[t].pc # "gone"
  <2>1. \A u \in Tasks : At(u, "gone")' <=> At(u, "gone")
    BY <1>1, <1>4
  <2> QED BY <1>2, <1>3, <2>1, FlatStutters
<1>5. CASE task'[t].pc = "gone"
  <2>1. GoneNow' = GoneNow \cup {t} /\ TxnNow' = TxnNow /\ InsideNow' = InsideNow
    BY <1>1, <1>3, <1>5, GoneForms DEF TxnNow, InsideNow
  <2>2. Flat!Stop(t)
    BY <1>2, <2>1 DEF Flat!Stop, TxnNow, InsideNow, GoneNow
  <2> QED BY <2>2 DEF FlatStep, Flat!Next
<1> QED BY <1>4, <1>5

\* A task enters, leaves, or ends the transaction of its manager.
LEMMA FlatEnters ==
  ASSUME TxInv, TxInv', NEW t \in Tasks, Moves(t),
         task'[t].write = task[t].write, task'[t].pc # "gone",
         depth' = [depth EXCEPT ![t] = @ + 1], UNCHANGED <<table, wrote>>,
         \/ TxnOf(Mgr(t)).st = "none" /\ TxnOf(Mgr(t))' = Flat!Begun
         \/ TxnOf(Mgr(t)).st = "open" /\ TxnOf(Mgr(t))' = TxnOf(Mgr(t))
  PROVE  FlatStep
<1>m. Mgr(t) \in Managers /\ depth \in [Tasks -> 0..MaxDepth] /\ MaxDepth \in Nat
  BY UsesManagers, TransactionsAssumption DEF TxInv, TypeOK
<1>k. \A m \in Managers \ {Mgr(t)} : TxnOf(m)' = TxnOf(m)
  BY OthersKept
<1>1. /\ task[t].pc # "gone"
      /\ \A u \in Tasks \ {t} : task'[u] = task[u] /\ wrote'[u] = wrote[u]
  BY OneMoves DEF TxInv
<1>2. Done' = Done /\ t \notin GoneNow /\ GoneNow' = GoneNow
  BY <1>1, DoneForms, GoneForms
<1>3. InsideNow' = InsideNow \cup {t}
  BY <1>m DEF InsideNow
<1>4. TxnNow[Mgr(t)] = TxnOf(Mgr(t))
  BY <1>m DEF TxnNow
<1>5. \/ TxnNow[Mgr(t)].st = "none" /\ TxnNow' = [TxnNow EXCEPT ![Mgr(t)] = Flat!Begun]
      \/ TxnNow[Mgr(t)].st = "open" /\ TxnNow' = TxnNow
  <2>1. CASE TxnOf(Mgr(t)).st = "none" /\ TxnOf(Mgr(t))' = Flat!Begun
    BY <1>m, <1>k, <1>4, <2>1, TxnUpdate
  <2>2. CASE TxnOf(Mgr(t)).st = "open" /\ TxnOf(Mgr(t))' = TxnOf(Mgr(t))
    BY <1>k, <1>4, <2>2 DEF TxnNow
  <2> QED BY <2>1, <2>2
<1>6. Flat!Enter(t)
  BY <1>2, <1>3, <1>5 DEF Flat!Enter, Flat!Txn, TxnNow, InsideNow, GoneNow
<1> QED BY <1>6 DEF FlatStep, Flat!Next

LEMMA FlatLeaves ==
  ASSUME TxInv, TxInv', NEW t \in Tasks, Moves(t),
         task'[t].write = task[t].write, task'[t].pc # "gone",
         depth[t] > 0, depth' = [depth EXCEPT ![t] = @ - 1], UNCHANGED <<table, wrote>>,
         NEW v, v = TxnOf(Mgr(t)), v.st = "open",
         \/ /\ TxnOf(Mgr(t))' = v
            /\ \E u \in Tasks : Mgr(u) = Mgr(t) /\ depth'[u] > 0
         \/ /\ \E st \in Flat!Ending : TxnOf(Mgr(t))' = [v EXCEPT !.st = st]
            /\ \A u \in Tasks : Mgr(u) = Mgr(t) => ~(depth'[u] > 0)
  PROVE  FlatStep
<1>m. Mgr(t) \in Managers /\ depth \in [Tasks -> 0..MaxDepth] /\ MaxDepth \in Nat
  BY UsesManagers, TransactionsAssumption DEF TxInv, TypeOK
<1>k. \A m \in Managers \ {Mgr(t)} : TxnOf(m)' = TxnOf(m)
  BY OthersKept
<1>1. /\ task[t].pc # "gone"
      /\ \A u \in Tasks \ {t} : task'[u] = task[u] /\ wrote'[u] = wrote[u]
  BY OneMoves DEF TxInv
<1>2. Done' = Done /\ t \notin GoneNow /\ GoneNow' = GoneNow
  BY <1>1, DoneForms, GoneForms
<1>3. t \in InsideNow /\ InsideNow' \in {InsideNow, InsideNow \ {t}}
  <2>1. \A u \in Tasks \ {t} : depth'[u] = depth[u]
    BY <1>m
  <2>2. InsideNow' = IF depth'[t] > 0 THEN InsideNow ELSE InsideNow \ {t}
    BY <2>1 DEF InsideNow
  <2> QED BY <2>2 DEF InsideNow
<1>4. TxnNow[Mgr(t)] = v
  BY <1>m DEF TxnNow
<1> DEFINE left == {u \in InsideNow : Uses[u] = Uses[t]}
<1>5. \/ left' # {} /\ TxnNow' = TxnNow
      \/ /\ left' = {}
         /\ \E st \in Flat!Ending : TxnNow' = [TxnNow EXCEPT ![Mgr(t)].st = st]
  <2>1. CASE TxnOf(Mgr(t))' = v /\ \E u \in Tasks : Mgr(u) = Mgr(t) /\ depth'[u] > 0
    <3>1. left' # {}
      BY <2>1 DEF InsideNow
    <3>2. TxnNow' = TxnNow
      BY <1>k, <2>1 DEF TxnNow
    <3> QED BY <3>1, <3>2
  <2>2. ASSUME NEW st \in Flat!Ending, TxnOf(Mgr(t))' = [v EXCEPT !.st = st],
               \A u \in Tasks : Mgr(u) = Mgr(t) => ~(depth'[u] > 0)
        PROVE  left' = {} /\ TxnNow' = [TxnNow EXCEPT ![Mgr(t)].st = st]
    <3>1. left' = {}
      BY <2>2 DEF InsideNow
    <3>2. TxnNow' = [TxnNow EXCEPT ![Mgr(t)] = [v EXCEPT !.st = st]]
      BY <1>m, <1>k, <2>2, TxnUpdate
    <3> QED BY <1>4, <3>1, <3>2
  <2> QED BY <2>1, <2>2
<1>6. Flat!InsideOf(Uses[t])' = left'
  BY DEF Flat!InsideOf, InsideNow
<1> HIDE DEF left
<1>7. Flat!Leave(t)
  BY <1>2, <1>3, <1>4, <1>5, <1>6 DEF Flat!Leave, Flat!Txn, TxnNow, InsideNow, GoneNow
<1> QED BY <1>7 DEF FlatStep, Flat!Next

LEMMA FlatEnds ==
  ASSUME TxInv, TxInv', NEW t \in Tasks, Moves(t), At(t, "end"),
         task'[t].pc # "end", task'[t].write = None, UNCHANGED <<holder, wrote, depth>>,
         \/ table' = table
         \/ /\ task[t].op = "commit" /\ task[t].taken.ok
            /\ table' = table \cup task[t].taken.work
  PROVE  FlatStep
<1>m. Mgr(t) \in Managers
  BY UsesManagers
<1>t. MutexHeld /\ MutexHeld' /\ CallsSettled /\ CallsSound
  BY DEF TxInv
<1>k. \A m \in Managers \ {Mgr(t)} : TxnOf(m)' = TxnOf(m)
  BY OthersKept
<1>1. /\ task[t].pc # "gone"
      /\ \A u \in Tasks \ {t} : task'[u] = task[u] /\ wrote'[u] = wrote[u]
  BY OneMoves DEF TxInv
<1>2. task[t].op \in Flat!Ending /\ task[t].write = None
  BY <1>t DEF CallsSettled, CallsSound, Flat!Ending
<1>3. Done' = Done /\ t \notin GoneNow /\ GoneNow' \in {GoneNow, GoneNow \cup {t}}
  BY <1>1, <1>2, DoneForms, GoneForms
<1>4. TxnNow[Mgr(t)] = FlatTxn(task[t].op, task[t].taken)
  BY <1>m, <1>t, TxnForms DEF TxnNow, Ends
<1>5. TxnOf(Mgr(t))' = Flat!NoTxn
  <2>1. ~Open(Mgr(t))'
    BY <1>t DEF MutexHeld, Open
  <2>2. \A u \in Tasks : ~Ends(u, Mgr(t))'
    BY <1>t, <1>1 DEF MutexHeld, Ends
  <2> QED BY <1>m, <2>1, <2>2, TxnFormsNext
<1>6. TxnNow' = [TxnNow EXCEPT ![Mgr(t)] = Flat!NoTxn]
  BY <1>m, <1>k, <1>5, TxnUpdate
<1>7. Flat!End(t)
  BY <1>2, <1>3, <1>4, <1>6
     DEF Flat!End, Flat!Txn, Flat!MayBeLost, FlatTxn, TxnNow, InsideNow, GoneNow
<1> QED BY <1>7 DEF FlatStep, Flat!Next

-----------------------------------------------------------------------------
(* The steps of the implementation, one lemma per action.                  *)

\* While a task neither starts nor stops to end it, a transaction shows its holder.
LEMMA TxnStays ==
  ASSUME TxInv, TxInv', NEW t \in Tasks, Moves(t),
         task[t].pc # "end", task'[t].pc # "end",
         Open(Mgr(t))' <=> Open(Mgr(t)),
         holder'[Mgr(t)].work = holder[Mgr(t)].work, holder'[Mgr(t)].ok = holder[Mgr(t)].ok
  PROVE  TxnOf(Mgr(t))' = TxnOf(Mgr(t))
<1>1. \A u \in Tasks : Ends(u, Mgr(t)) \/ Ends(u, Mgr(t))' => task'[u] = task[u]
  BY OneMoves DEF TxInv, Ends
<1> QED BY <1>1, TxnKept, UsesManagers DEF TxInv

LEMMA HolderKept ==
  ASSUME TxInv, TxInv', NEW t \in Tasks, Moves(t),
         task[t].pc # "end", task'[t].pc # "end", holder' = holder
  PROVE  TxnOf(Mgr(t))' = TxnOf(Mgr(t))
BY TxnStays DEF Open

\* What a task that is in the way of others may rely on.
LEMMA NobodyEnds ==
  ASSUME TxInv, NEW t \in Tasks,
         \/ task[t].pc \in {"pool", "conn"} /\ task[t].op # "count"
         \/ task[t].pc = "lock" /\ mutex[Mgr(t)] = None /\ ~Open(Mgr(t))
  PROVE  ~Open(Mgr(t)) /\ TxnOf(Mgr(t)) = Flat!NoTxn
<1>1. ~Open(Mgr(t))
  BY DEF TxInv, MutexHeld, PlainStaysPlain
<1>2. \A u \in Tasks : ~Ends(u, Mgr(t))
  BY TransactionsAssumption DEF TxInv, MutexHeld, CallsSettled, Ends
<1> QED BY <1>1, <1>2, TxnForms, UsesManagers

\* A call that returns, or that its task is dropped in.
LEMMA Returns ==
  ASSUME TypeOK, NEW t \in Tasks, Return(t) \/ task' = [task EXCEPT ![t] = Gone]
  PROVE  task'[t].pc \in {"run", "gone"} /\ task'[t].write = None
BY TaskRecords DEF TypeOK, Return

LEMMA Goes ==
  ASSUME TypeOK, NEW t \in Tasks, NEW pc \in Pcs, Goto(t, pc)
  PROVE  task'[t].pc = pc /\ task'[t].write = task[t].write
BY DEF TypeOK, Task, Goto

\* A call that ends without effect.
LEMMA FlatReturns ==
  ASSUME TxInv, TxInv', NEW t \in Tasks, Moves(t), task[t].pc # "end",
         Return(t) \/ task' = [task EXCEPT ![t] = Gone],
         UNCHANGED <<table, holder, depth, wrote>>
  PROVE  FlatStep
<1>1. task'[t].pc \in {"run", "gone"} /\ task'[t].write = None
  BY Returns DEF TxInv
<1>2. TxnOf(Mgr(t))' = TxnOf(Mgr(t))
  BY <1>1, HolderKept
<1>3. CASE task[t].op = "write"
  BY <1>1, <1>2, <1>3, FlatWrites
<1>4. CASE task[t].op # "write"
  <2>1. task[t].write = None
    BY <1>4 DEF TxInv, CallsSound
  <2> QED BY <1>1, <1>2, <2>1, FlatIdles
<1> QED BY <1>3, <1>4

LEMMA FlatGoes ==
  ASSUME TxInv, TxInv', NEW t \in Tasks, Moves(t), task[t].pc # "end",
         NEW pc \in Pcs \ {"end"}, Goto(t, pc),
         UNCHANGED <<table, holder, depth, wrote>>
  PROVE  FlatStep
<1>1. task'[t].pc = pc /\ task'[t].write = task[t].write
  BY Goes DEF TxInv
<1>2. TxnOf(Mgr(t))' = TxnOf(Mgr(t))
  BY <1>1, HolderKept
<1> QED BY <1>1, <1>2, FlatIdles

LEMMA FlatCall ==
  ASSUME TxInv, TxInv', NEW t \in Tasks, NEW op \in Ops \ {"none"}, Call(t, op)
  PROVE  FlatStep
<1>t. TypeOK /\ Moves(t)
  BY DEF TxInv, Moves
<1>1. PICK pc \in {"lock", "pool"}, w \in Writes \cup {None} :
        /\ task' = [task EXCEPT ![t] = Waits(pc, op, w)]
        /\ \/ /\ w = <<t, wrote[t] + 1>> /\ wrote' = [wrote EXCEPT ![t] = @ + 1]
           \/ w = None /\ wrote' = wrote
  BY <1>t, CallShape
<1>2. /\ task[t].pc = "run" /\ task'[t].pc = pc /\ task'[t].write = w
      /\ UNCHANGED <<table, holder, depth>>
  BY <1>t, <1>1, CallShape, TaskRecords DEF TypeOK
<1>3. task[t].write = None
  BY <1>2 DEF TxInv, CallsSettled, CallsSound
<1>4. \A u \in Tasks \ {t} : task'[u] = task[u] /\ wrote'[u] = wrote[u]
  BY <1>t, OneMoves
<1>5. \/ wrote'[t] = wrote[t] + 1 /\ w = <<t, wrote[t] + 1>>
      \/ wrote'[t] = wrote[t] /\ w = None
  BY <1>t, <1>1 DEF TypeOK
<1>6. Done' = Done
  BY <1>2, <1>3, <1>4, <1>5, DoneForms
<1>7. \A m \in Managers : TxnOf(m)' = TxnOf(m)
  BY <1>t, <1>2, HolderKept, OthersKept
<1>8. \A u \in Tasks : At(u, "gone")' <=> At(u, "gone")
  BY <1>2, <1>4
<1> QED BY <1>2, <1>6, <1>7, <1>8, FlatStutters

LEMMA FlatBegin ==
  ASSUME TxInv, TxInv', NEW t \in Tasks, Begin(t)
  PROVE  FlatStep
<1>t. TypeOK /\ Moves(t) /\ task[t].pc = "lock" /\ task[t].op = "begin"
  BY DEF TxInv, Moves, Begin, Locked
<1>1. CASE /\ Open(Mgr(t)) /\ Return(t)
           /\ holder' = [holder EXCEPT ![Mgr(t)].counter = @ + 1]
           /\ depth' = [depth EXCEPT ![t] = @ + 1]
           /\ UNCHANGED <<table, wrote>>
  <2>1. task'[t].pc # "gone" /\ task'[t].pc # "end" /\ task'[t].write = None
    BY <1>t, <1>1, TaskRecords DEF TypeOK, Return
  <2>2. task[t].write = None
    BY <1>t DEF TxInv, CallsSound
  <2>3. holder[Mgr(t)] \in TxnHolder
    BY <1>t, <1>1, Holders, UsesManagers
  <2>4. /\ holder'[Mgr(t)].work = holder[Mgr(t)].work
        /\ holder'[Mgr(t)].ok = holder[Mgr(t)].ok
        /\ holder'[Mgr(t)].counter = holder[Mgr(t)].counter + 1
    BY <1>t, <1>1, <2>3, UsesManagers DEF TypeOK, TxnHolder
  <2>5. Open(Mgr(t))'
    BY <1>t, <2>3, <2>4 DEF Open, Closed, TxnHolder
  <2>6. TxnOf(Mgr(t))' = TxnOf(Mgr(t))
    BY <1>t, <1>1, <2>1, <2>4, <2>5, TxnStays
  <2>7. TxnOf(Mgr(t)).st = "open"
    BY <1>1, TxnForms, UsesManagers DEF FlatTxn
  <2> QED BY <1>t, <1>1, <2>1, <2>2, <2>6, <2>7, FlatEnters
<1>2. CASE Goto(t, "pool") /\ UNCHANGED <<holder, depth, table, wrote>>
  BY <1>t, <1>2, FlatGoes DEF Pcs
<1> QED BY <1>1, <1>2 DEF Begin

LEMMA FlatOpened ==
  ASSUME TxInv, TxInv', NEW t \in Tasks, Opened(t)
  PROVE  FlatStep
<1>t. /\ TypeOK /\ Moves(t) /\ task[t].pc = "conn" /\ task[t].op = "begin"
      /\ Return(t) /\ UNCHANGED <<table, wrote>>
  BY DEF TxInv, Moves, Opened
<1>1. CASE /\ holder' = [holder EXCEPT ![Mgr(t)] = Started]
           /\ depth' = [depth EXCEPT ![t] = @ + 1]
  <2>1. task'[t].pc # "gone" /\ task'[t].write = None /\ task[t].write = None
    BY <1>t, TaskRecords DEF TxInv, TypeOK, Return, CallsSound
  <2>2. TxnOf(Mgr(t)).st = "none"
    BY <1>t, NobodyEnds DEF Flat!NoTxn
  <2>3. holder'[Mgr(t)] = Started
    BY <1>t, <1>1, UsesManagers DEF TypeOK
  <2>4. Open(Mgr(t))'
    BY <2>3 DEF Open, Started, Closed
  <2>5. TxnOf(Mgr(t))' = Flat!Begun
    <3>1. TxnOf(Mgr(t))' = FlatTxn("open", Started)
      BY <2>3, <2>4, TxnFormsNext, UsesManagers
    <3>2. FlatTxn("open", Started) = Flat!Begun
      BY DEF FlatTxn, Started, Flat!Begun
    <3> QED BY <3>1, <3>2
  <2> QED BY <1>t, <1>1, <2>1, <2>2, <2>5, FlatEnters
<1>2. CASE UNCHANGED <<holder, depth>>
  BY <1>t, <1>2, FlatReturns
<1> QED BY <1>1, <1>2 DEF Opened

LEMMA FlatEndsLevel ==
  ASSUME TxInv, TxInv', NEW t \in Tasks, NEW op \in {"commit", "rollback"},
         EndsLevel(t, op)
  PROVE  FlatStep
<1>t. /\ TypeOK /\ Moves(t) /\ task[t].pc = "lock" /\ task[t].op = op
      /\ UNCHANGED <<table, wrote>>
  BY DEF TxInv, Moves, EndsLevel, Locked
<1>w. task[t].write = None
  BY <1>t DEF TxInv, CallsSound
<1>m. Mgr(t) \in Managers
  BY UsesManagers
<1>1. CASE ~Open(Mgr(t))
  BY <1>t, <1>1, FlatReturns DEF EndsLevel
<1>2. CASE Open(Mgr(t))
  <2>1. /\ depth[t] \in 1..MaxDepth /\ holder[Mgr(t)] \in TxnHolder
        /\ depth' = [depth EXCEPT ![t] = @ - 1]
    BY <1>t, <1>m, <1>2, EndsOwnLevel, Holders DEF EndsLevel
  <2>2. /\ holder[Mgr(t)].counter = Cardinality(Levels(Mgr(t)))
        /\ Cardinality(Levels(Mgr(t))') = Cardinality(Levels(Mgr(t))) - 1
    <3>1. holder[Mgr(t)].counter = Cardinality(Levels(Mgr(t)))
      BY <1>t, Counted DEF TxInv
    <3>2. depth \in [Tasks -> 0..MaxDepth] /\ depth[t] > 0
      BY <2>1 DEF TxInv, TypeOK
    <3>3. Cardinality(Levels(Mgr(t))') = Cardinality(Levels(Mgr(t))) - 1
      BY <1>m, <2>1, <3>2, LevelEnded
    <3> QED BY <3>1, <3>3
  <2>3. TxnOf(Mgr(t)) = FlatTxn("open", holder[Mgr(t)])
    BY <1>m, <1>2, TxnForms
  <2>d. depth' \in [Tasks -> 0..MaxDepth] /\ MaxDepth \in Nat
    BY TransactionsAssumption DEF TxInv, TypeOK
  <2>4. CASE /\ holder[Mgr(t)].counter > 1 /\ Return(t)
             /\ holder' = [holder EXCEPT ![Mgr(t)].counter = @ - 1]
    <3>1. task'[t].pc = "run" /\ task'[t].write = None
      BY <1>t, <2>4, TaskRecords DEF TypeOK, Return
    <3>2. /\ holder'[Mgr(t)].work = holder[Mgr(t)].work
          /\ holder'[Mgr(t)].ok = holder[Mgr(t)].ok
          /\ holder'[Mgr(t)].counter = holder[Mgr(t)].counter - 1
      BY <1>t, <1>m, <2>1, <2>4 DEF TypeOK, TxnHolder
    <3>3. Open(Mgr(t))'
      BY <2>1, <2>4, <3>2 DEF Open, Closed, TxnHolder
    <3>4. TxnOf(Mgr(t))' = TxnOf(Mgr(t))
      BY <1>t, <1>2, <3>1, <3>2, <3>3, TxnStays
    <3>5. \E u \in Tasks : Mgr(u) = Mgr(t) /\ depth'[u] > 0
      <4>1. Levels(Mgr(t))' # {}
        <5>1. holder[Mgr(t)].counter - 1 # 0
          BY <2>1, <2>4 DEF TxnHolder
        <5>2. Cardinality(Levels(Mgr(t))') # 0
          BY <2>2, <5>1
        <5> QED BY <5>2, FS_EmptySet
      <4>2. PICK x \in Levels(Mgr(t))' : TRUE
        BY <4>1
      <4>3. x[1] \in Tasks /\ Mgr(x[1]) = Mgr(t) /\ x[2] \in 1..MaxDepth /\ x[2] <= depth'[x[1]]
        BY <4>2 DEF Levels
      <4>4. depth'[x[1]] > 0
        BY <2>d, <4>3
      <4> QED BY <4>3, <4>4
    <3>6. TxnOf(Mgr(t)).st = "open" /\ depth[t] > 0
      BY <2>1, <2>3 DEF FlatTxn
    <3> QED BY <1>t, <1>w, <2>1, <3>1, <3>4, <3>5, <3>6, FlatLeaves
  <2>5. CASE /\ holder[Mgr(t)].counter = 1
             /\ holder' = [holder EXCEPT ![Mgr(t)] = Closed]
             /\ task' = [task EXCEPT ![t].pc = "end", ![t].taken = holder[Mgr(t)]]
    <3>1. /\ task'[t].pc = "end" /\ task'[t].write = None /\ task'[t].op = op
          /\ task'[t].taken = holder[Mgr(t)]
      BY <1>t, <1>w, <2>5 DEF TypeOK, Task
    <3>2. TxnOf(Mgr(t))' = FlatTxn(op, holder[Mgr(t)])
      BY <1>m, <3>1, TxnFormsNext DEF TxInv, Ends
    <3>3. FlatTxn(op, holder[Mgr(t)]) = [TxnOf(Mgr(t)) EXCEPT !.st = op]
      BY <2>3 DEF FlatTxn
    <3>4. \A u \in Tasks : Mgr(u) = Mgr(t) => ~(depth'[u] > 0)
      <4>1. Levels(Mgr(t))' = {}
        <5>1. IsFiniteSet(Levels(Mgr(t))')
          <6>1. IsFiniteSet(Tasks \X (1..MaxDepth))
            <7>1. IsFiniteSet(1..MaxDepth)
              BY FS_Interval, TransactionsAssumption
            <7> QED BY <7>1, FS_Product, TransactionsAssumption
          <6>2. Levels(Mgr(t))' \subseteq Tasks \X (1..MaxDepth)
            BY DEF Levels
          <6> QED BY <6>1, <6>2, FS_Subset
        <5> QED BY <2>2, <2>5, <5>1, FS_EmptySet
      <4>2. \A u \in Tasks : Mgr(u) = Mgr(t) /\ depth'[u] > 0 => <<u, 1>> \in Levels(Mgr(t))'
        BY <2>d DEF Levels
      <4> QED BY <4>1, <4>2
    <3>5. op \in Flat!Ending
      BY DEF Flat!Ending
    <3>6. TxnOf(Mgr(t)).st = "open" /\ depth[t] > 0 /\ task'[t].pc # "gone"
      BY <2>1, <2>3, <3>1 DEF FlatTxn
    <3>7. \E st \in Flat!Ending : TxnOf(Mgr(t))' = [TxnOf(Mgr(t)) EXCEPT !.st = st]
      BY <3>2, <3>3, <3>5
    <3> QED BY <1>t, <1>w, <2>1, <3>1, <3>4, <3>6, <3>7, FlatLeaves
  <2> QED BY <1>2, <2>4, <2>5 DEF EndsLevel
<1> QED BY <1>1, <1>2

LEMMA FlatAcquire ==
  ASSUME TxInv, TxInv', NEW t \in Tasks, Acquire(t)
  PROVE  FlatStep
<1>1. Moves(t) /\ task[t].pc = "pool" /\ UNCHANGED <<table, holder, depth, wrote>>
  BY DEF Moves, Acquire
<1>2. Goto(t, "conn") \/ Return(t)
  BY DEF Acquire
<1> QED BY <1>1, <1>2, FlatGoes, FlatReturns DEF Pcs

LEMMA FlatStatement ==
  ASSUME TxInv, TxInv', NEW t \in Tasks, Statement(t)
  PROVE  FlatStep
<1>1. /\ Moves(t) /\ task[t].pc = "lock" /\ UNCHANGED <<table, holder, depth, wrote>>
      /\ Goto(t, "txn") \/ Goto(t, "pool")
  BY DEF Moves, Statement, Locked
<1> QED BY <1>1, FlatGoes DEF Pcs

\* A statement that runs by itself, answered or not.
LEMMA FlatOwnStatement ==
  ASSUME TxInv, TxInv', NEW t \in Tasks, Moves(t),
         task[t].pc = "conn", task[t].op = "write", table' = table \cup {task[t].write},
         Return(t) \/ task' = [task EXCEPT ![t] = Gone],
         UNCHANGED <<holder, depth, wrote>>
  PROVE  FlatStep
<1>1. task'[t].pc \in {"run", "gone"} /\ task'[t].write = None
  BY Returns DEF TxInv
<1>2. TxnOf(Mgr(t))' = TxnOf(Mgr(t))
  BY <1>1, HolderKept
<1>3. TxnOf(Mgr(t)).st = "none"
  BY NobodyEnds DEF Flat!NoTxn
<1> QED BY <1>1, <1>2, <1>3, FlatWrites

LEMMA FlatAutocommitted ==
  ASSUME TxInv, TxInv', NEW t \in Tasks, Autocommitted(t)
  PROVE  FlatStep
<1>1. /\ Moves(t) /\ task[t].pc = "conn" /\ Return(t) /\ UNCHANGED <<holder, depth, wrote>>
      /\ task[t].op \in {"write", "count"}
      /\ table' \in {table, table \cup ({task[t].write} \ {None})}
  BY DEF Moves, Autocommitted
<1>2. CASE table' = table
  BY <1>1, <1>2, FlatReturns
<1>3. CASE task[t].op = "count"
  <2>1. task[t].write = None
    BY <1>3 DEF TxInv, CallsSound
  <2>2. table' = table
    BY <1>1, <2>1
  <2> QED BY <1>2, <2>2
<1>4. CASE task[t].op = "write" /\ table' # table
  <2>1. table' = table \cup {task[t].write}
    BY <1>1, <1>4
  <2> QED BY <1>1, <1>4, <2>1, FlatOwnStatement
<1> QED BY <1>1, <1>2, <1>3, <1>4

\* A statement in the transaction, answered or not.
LEMMA FlatTxnStatement ==
  ASSUME TxInv, TxInv', NEW t \in Tasks, Moves(t), task[t].pc = "txn",
         Return(t) \/ task' = [task EXCEPT ![t] = Gone],
         UNCHANGED <<table, depth, wrote>>,
         \/ /\ holder[Mgr(t)].ok
            /\ holder' = [holder EXCEPT ![Mgr(t)].work = @ \cup {task[t].write}]
         \/ holder' = [holder EXCEPT ![Mgr(t)].ok = FALSE]
  PROVE  FlatStep
<1>m. Mgr(t) \in Managers /\ TypeOK /\ task[t].op = "write" /\ Open(Mgr(t))
  BY UsesManagers DEF TxInv, CallsSound, MutexHeld
<1>1. task'[t].pc \in {"run", "gone"} /\ task'[t].write = None
  BY <1>m, Returns
<1>h. holder[Mgr(t)] \in TxnHolder
  BY <1>m, Holders
<1>2. TxnOf(Mgr(t)) = FlatTxn("open", holder[Mgr(t)])
  BY <1>m, TxnForms
<1>3. Open(Mgr(t))'
  <2>1. holder'[Mgr(t)].counter = holder[Mgr(t)].counter
    BY <1>m, <1>h DEF TypeOK, TxnHolder
  <2> QED BY <1>h, <2>1 DEF Open, Closed, TxnHolder
<1>4. TxnOf(Mgr(t))' = FlatTxn("open", holder'[Mgr(t)])
  BY <1>m, <1>3, TxnFormsNext
<1>5. CASE /\ holder[Mgr(t)].ok
           /\ holder' = [holder EXCEPT ![Mgr(t)].work = @ \cup {task[t].write}]
  <2>1. holder'[Mgr(t)] =
          [holder[Mgr(t)] EXCEPT !.work = holder[Mgr(t)].work \cup {task[t].write}]
    BY <1>m, <1>5 DEF TypeOK
  <2>2. TxnOf(Mgr(t))' = [TxnOf(Mgr(t)) EXCEPT !.work = @ \cup {task[t].write}]
    BY <1>h, <1>2, <1>4, <2>1 DEF FlatTxn, TxnHolder
  <2>3. TxnOf(Mgr(t)).st = "open" /\ TxnOf(Mgr(t)).ok
    BY <1>2, <1>5 DEF FlatTxn
  <2> QED BY <1>m, <1>1, <2>2, <2>3, FlatWrites
<1>6. CASE holder' = [holder EXCEPT ![Mgr(t)].ok = FALSE]
  <2>1. holder'[Mgr(t)] = [holder[Mgr(t)] EXCEPT !.ok = FALSE]
    BY <1>m, <1>6 DEF TypeOK
  <2>2. TxnOf(Mgr(t))' = [TxnOf(Mgr(t)) EXCEPT !.ok = FALSE]
    <3>1. ASSUME NEW h \in TxnHolder, NEW b
          PROVE  FlatTxn("open", [h EXCEPT !.ok = b]) = [FlatTxn("open", h) EXCEPT !.ok = b]
      BY DEF FlatTxn, TxnHolder
    <3> QED BY <1>h, <1>2, <1>4, <2>1, <3>1, Zenon
  <2>3. TxnOf(Mgr(t)).st = "open"
    BY <1>2 DEF FlatTxn
  <2> QED BY <1>m, <1>1, <2>2, <2>3, FlatWrites
<1> QED BY <1>5, <1>6

LEMMA FlatEnded ==
  ASSUME TxInv, TxInv', NEW t \in Tasks, Ended(t)
  PROVE  FlatStep
<1>1. /\ Moves(t) /\ task[t].pc = "end" /\ Return(t) /\ UNCHANGED <<holder, depth, wrote>>
      /\ \/ table' = table
         \/ /\ task[t].op = "commit" /\ task[t].taken.ok
            /\ table' = table \cup task[t].taken.work
  BY DEF Moves, Ended
<1>2. task'[t].pc \in {"run", "gone"} /\ task'[t].write = None
  BY <1>1, Returns DEF TxInv
<1> QED BY <1>1, <1>2, FlatEnds

LEMMA FlatAbandon ==
  ASSUME TxInv, TxInv', NEW t \in Tasks, Abandon(t)
  PROVE  FlatStep
<1>1. /\ Moves(t) /\ task[t].pc \in {"lock", "pool", "conn", "txn", "end"}
      /\ task' = [task EXCEPT ![t] = Gone] /\ UNCHANGED <<depth, wrote>>
  BY DEF Moves, Abandon
<1>2. task'[t].pc \in {"run", "gone"} /\ task'[t].write = None
  BY <1>1, Returns DEF TxInv
<1>3. CASE task[t].pc = "end"
  <2>1. /\ holder' = holder
        /\ \/ table' = table
           \/ /\ task[t].op = "commit" /\ task[t].taken.ok
              /\ table' = table \cup task[t].taken.work
    BY <1>3 DEF Abandon
  <2> QED BY <1>1, <1>2, <1>3, <2>1, FlatEnds
<1>4. CASE task[t].pc # "end" /\ table' = table /\ holder' = holder
  BY <1>1, <1>4, FlatReturns
<1>5. CASE task[t].pc = "conn" /\ ~(table' = table)
  <2>1. /\ holder' = holder /\ task[t].op = "write"
        /\ table' = table \cup {task[t].write}
    BY <1>5 DEF Abandon
  <2> QED BY <1>1, <1>5, <2>1, FlatOwnStatement
<1>6. CASE task[t].pc # "end" /\ ~(holder' = holder)
  <2>1. /\ task[t].pc = "txn" /\ holder[Mgr(t)].ok /\ table' = table
        /\ holder' = [holder EXCEPT ![Mgr(t)].work = @ \cup {task[t].write}]
    BY <1>6 DEF Abandon
  <2> QED BY <1>1, <2>1, FlatTxnStatement
<1>7. task[t].pc \notin {"conn", "end"} => table' = table
  BY DEF Abandon
<1> QED BY <1>3, <1>4, <1>5, <1>6, <1>7

LEMMA FlatDropManager ==
  ASSUME TxInv, TxInv', NEW m \in Managers, DropManager(m)
  PROVE  FlatStep
<1>t. TypeOK /\ MutexHeld /\ MutexHeld' /\ UNCHANGED <<table, task, depth, wrote>>
  BY DEF TxInv, DropManager
<1>1. TxnNow[m].st = "open"
  BY TxnForms DEF DropManager, TxnNow, FlatTxn
<1>2. TxnOf(m)' = Flat!NoTxn
  <2>1. ~Open(m)' /\ \A t \in Tasks : ~Ends(t, m)'
    BY <1>t DEF DropManager, TypeOK, Open, Ends
  <2> QED BY <2>1, TxnFormsNext
<1>3. \A n \in Managers \ {m} : TxnOf(n)' = TxnOf(n)
  BY <1>t, TxnKept DEF DropManager, TypeOK, Open
<1>4. TxnNow' = [TxnNow EXCEPT ![m] = Flat!NoTxn]
  BY <1>2, <1>3, TxnUpdate
<1>5. Done' = Done /\ InsideNow' = InsideNow /\ GoneNow' = GoneNow
  BY <1>t DEF Done, InsideNow, GoneNow
<1>6. \A t \in Tasks : Uses[t] = m => t \in GoneNow
  BY DEF DropManager, GoneNow
<1>7. Flat!GiveUp(m)
  BY <1>t, <1>1, <1>4, <1>5, <1>6 DEF Flat!GiveUp, TxnNow, InsideNow, GoneNow
<1> QED BY <1>7 DEF FlatStep, Flat!Next

LEMMA FlatVars ==
  ASSUME TxInv, TxInv', UNCHANGED vars
  PROVE  FlatStep
<1>1. Done' = Done
  BY DEF vars, Done
<1>2. \A m \in Managers : TxnOf(m)' = TxnOf(m)
  BY TxnKept DEF vars, TxInv, Open
<1> QED BY <1>1, <1>2, FlatStutters DEF vars

LEMMA NextFlat == TxInv /\ TxInv' /\ [Next]_vars => FlatStep
<1> SUFFICES ASSUME TxInv, TxInv', Next PROVE FlatStep
  BY FlatVars
<1>1. ASSUME NEW t \in Tasks, InTxn(t) PROVE FlatStep
  BY <1>1, FlatTxnStatement DEF InTxn, Moves
<1>2. ASSUME NEW t \in Tasks, Finish(t) PROVE FlatStep
  BY <1>2, FlatReturns DEF Finish, Moves
<1> QED
  BY <1>1, <1>2, FlatCall, FlatBegin, FlatEndsLevel, FlatStatement, FlatAcquire, FlatOpened,
     FlatAutocommitted, FlatEnded, FlatAbandon, FlatDropManager
     DEF Next, Commit, Rollback

-----------------------------------------------------------------------------
\* Dbx is one flat transaction per manager, whatever its counter, its mutex and its pool
\* go through and whichever tasks are dropped: a transaction ends when nobody has a level
\* open any more, and all of its work is stored, or nothing of it ever is.
THEOREM TransactionsRefined == Spec => TransactionsImplemented
<1>1. Init => Flat!Init
  <2>1. ASSUME Init, NEW m \in Managers
        PROVE  TxnOf(m) = Flat!NoTxn
    BY <2>1, TaskRecords, TxnForms DEF Init, Open, Ends
  <2>2. ASSUME Init
        PROVE  /\ Done = {} /\ InsideNow = {} /\ GoneNow = {}
    BY <2>2, TaskRecords DEF Init, Done, InsideNow, GoneNow, Writes
  <2> QED BY <2>1, <2>2 DEF Init, Flat!Init, InsideNow, GoneNow
<1>2. TxInv /\ TxInv' /\ [Next]_vars => [Flat!Next]_(Flat!vars)
  BY NextFlat DEF FlatStep
<1> QED
  BY <1>1, <1>2, TransactionsInvariance, PTL DEF Spec, TransactionsImplemented, Flat!Spec

=============================================================================
