-------------------------- MODULE FlatTransactions --------------------------
(***************************************************************************)
(* What Dbx promises to tasks that share a manager, however deep they nest *)
(* and whatever fails: there is at most one transaction per manager, which *)
(* everybody works in while it is open.  It lasts until nobody has a level *)
(* open any more, a task that was lost with its level open included; then  *)
(* all of its work is stored, or nothing of it.  It is given up before     *)
(* that only when all of its tasks are gone.  No write is tried twice, so  *)
(* work that is lost is not stored later either.                           *)
(*                                                                         *)
(* The one who leaves last decides.  It is not promised that work done in  *)
(* a level is lost when that level is rolled back.                         *)
(***************************************************************************)
CONSTANTS
  Tasks,
  Managers,
  Uses,      \* the manager of each task
  Writes     \* pairs of the task that issues the write and a number

VARIABLES
  table,     \* the writes that are stored
  tried,     \* the writes that are done, with or without effect
  txn,       \* the transaction of each manager
  inside,    \* tasks with a level open
  gone       \* tasks that do nothing any more

vars == <<table, tried, txn, inside, gone>>

Ending == {"commit", "rollback"}

NoTxn == [st |-> "none", work |-> {}, ok |-> TRUE]
Begun == [st |-> "open", work |-> {}, ok |-> TRUE]

Txn(t) == txn[Uses[t]]
InsideOf(m) == {t \in inside : Uses[t] = m}

\* A task may be lost while it waits for a step, which happens all the same.
MayBeLost(t) == gone' \in {gone, gone \cup {t}}

-----------------------------------------------------------------------------
\* The first to enter opens the transaction, others join it.
Enter(t) ==
  /\ t \notin gone
  /\ \/ Txn(t).st = "none" /\ txn' = [txn EXCEPT ![Uses[t]] = Begun]
     \/ Txn(t).st = "open" /\ UNCHANGED txn
  /\ inside' = inside \cup {t}
  /\ UNCHANGED <<table, tried, gone>>

\* A task ends a level, perhaps its last one.  The last of all decides how the
\* transaction ends.
Leave(t) ==
  /\ t \in inside \ gone
  /\ Txn(t).st = "open"
  /\ inside' \in {inside, inside \ {t}}
  /\ IF InsideOf(Uses[t])' = {}
     THEN \E st \in Ending : txn' = [txn EXCEPT ![Uses[t]].st = st]
     ELSE UNCHANGED txn
  /\ UNCHANGED <<table, tried, gone>>

\* A write goes to the open transaction, or to the table if there is none.  It may
\* have no effect, or fail, and with it what the transaction does from then on.
Write(t, w) ==
  /\ t \notin gone
  /\ w[1] = t /\ w \notin tried
  /\ tried' = tried \cup {w}
  /\ \/ UNCHANGED <<table, txn>>
     \/ /\ Txn(t).st = "none"
        /\ table' = table \cup {w}
        /\ UNCHANGED txn
     \/ /\ Txn(t).st = "open"
        /\ \/ Txn(t).ok /\ txn' = [txn EXCEPT ![Uses[t]].work = @ \cup {w}]
           \/ txn' = [txn EXCEPT ![Uses[t]].ok = FALSE]
        /\ UNCHANGED table
  /\ MayBeLost(t)
  /\ UNCHANGED inside

\* The transaction ends while the task that left last waits for it.
End(t) ==
  /\ t \notin gone
  /\ Txn(t).st \in Ending
  /\ \/ UNCHANGED table
     \/ /\ Txn(t).st = "commit" /\ Txn(t).ok
        /\ table' = table \cup Txn(t).work
  /\ txn' = [txn EXCEPT ![Uses[t]] = NoTxn]
  /\ MayBeLost(t)
  /\ UNCHANGED <<tried, inside>>

\* Nobody is left to end the transaction.
GiveUp(m) ==
  /\ txn[m].st = "open"
  /\ \A t \in Tasks : Uses[t] = m => t \in gone
  /\ txn' = [txn EXCEPT ![m] = NoTxn]
  /\ UNCHANGED <<table, tried, inside, gone>>

Stop(t) ==
  /\ gone' = gone \cup {t}
  /\ UNCHANGED <<table, tried, txn, inside>>

-----------------------------------------------------------------------------
Init ==
  /\ table = {} /\ tried = {}
  /\ txn = [m \in Managers |-> NoTxn]
  /\ inside = {} /\ gone = {}

Next ==
  \/ \E t \in Tasks :
       \/ Enter(t) \/ Leave(t)
       \/ \E w \in Writes : Write(t, w)
       \/ End(t) \/ Stop(t)
  \/ \E m \in Managers : GiveUp(m)

Spec == Init /\ [][Next]_vars
=============================================================================
