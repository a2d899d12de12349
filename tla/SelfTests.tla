------------------------------ MODULE SelfTests ------------------------------
(***************************************************************************)
(* Kernel::ThreadSelfTest: two threads that pass a token back and forth    *)
(* through two semaphores (Semaphore::SelfTest), then through two          *)
(* synchronized lists (SynchList::SelfTest), and a main thread that        *)
(* deletes the semaphores and the lists as soon as it has the token for    *)
(* the last time, while the helper may still be returning from the call    *)
(* that handed it over.  A thread may be preempted wherever interrupts go  *)
(* on again, that is at the end of every P and V; between two such places  *)
(* its code is one step.  A call is the sequence of its steps.             *)
(***************************************************************************)
EXTENDS Naturals, Sequences

CONSTANT Rounds    \* how often the token goes round: 10 in the code

ASSUME RoundsAssumption == Rounds \in Nat \ {0}

Tester == {"main", "helper"}
TestList == {"pingList", "pongList"}

(* SynchList::lock, by its semaphore, and the semaphore Condition::Wait allocates for t. *)
Lock(l) == IF l = "pingList" THEN "pingLock" ELSE "pongLock"
Waiter(t) == IF t = "main" THEN "mainWaiter" ELSE "helperWaiter"

TestSem == {"ping", "pong"} \cup {Lock(l) : l \in TestList} \cup {Waiter(t) : t \in Tester}

(* An object with what its constructor allocates: a list has a lock. *)
Whole(x) == IF x \in TestList THEN {x, Lock(x)} ELSE {x}

VARIABLES
  steps,     \* what a thread still has to do: a sequence of [op, on]
  made,      \* the objects that exist
  value,     \* Semaphore::value
  items,     \* SynchList::list, by its length: every item is the same value
  waiters    \* Condition::waitQueue of a list: threads, for their semaphores

tvars == <<steps, made, value, items, waiters>>

Do(op, on) == <<[op |-> op, on |-> on]>>

(* A call of Semaphore::V: after the step that increments it the caller still has to return. *)
VCall(s) == Do("V", s) \o Do("return", s)

(* The tests' loops: n rounds of a sequence of steps. *)
Repeat(n, body) == [i \in 1 .. n * Len(body) |-> body[((i - 1) % Len(body)) + 1]]

(* SynchList::Append, RemoveFront: the lock, then the list with Signal or Wait, as "append" *)
(* and "remove" go on.                                                                      *)
AppendCall(l) == Do("P", Lock(l)) \o Do("append", l)
RemoveCall(l) == Do("P", Lock(l)) \o Do("remove", l)

(* Semaphore::SelfTest and its SelfTestHelper. *)
SemaphoreTest ==
  Do("new", "ping") \o Do("fork", "semaphore") \o
  Repeat(Rounds, VCall("ping") \o Do("P", "pong")) \o Do("delete", "ping")
SemaphoreHelper == Repeat(Rounds, Do("P", "ping") \o VCall("pong"))

(* SynchList::SelfTest and its SelfTestHelper. *)
ListTest ==
  Do("new", "pingList") \o Do("fork", "list") \o
  Repeat(Rounds, AppendCall("pingList") \o RemoveCall("pongList")) \o Do("delete", "pingList")
ListHelper == Repeat(Rounds, RemoveCall("pingList") \o AppendCall("pongList"))

(* Kernel::ThreadSelfTest, from the semaphore test on. *)
ThreadSelfTest ==
  Do("new", "pong") \o SemaphoreTest \o Do("delete", "pong") \o
  Do("new", "pongList") \o ListTest \o Do("delete", "pongList")

TestInit ==
  /\ steps = [t \in Tester |-> IF t = "main" THEN ThreadSelfTest ELSE <<>>]
  /\ made = {}
  /\ value = [s \in TestSem |-> 0]
  /\ items = [l \in TestList |-> 0]
  /\ waiters = [l \in TestList |-> <<>>]

(* What the code at the end of V reads once interrupts are on again: nothing of the      *)
(* semaphore, because it has kernel->interrupt in a local variable.                      *)
ReadsItself(s) == {s}
AfterV(s) == {}

(* The objects that a step reads or writes. *)
Touches(step) ==
  CASE step.op \in {"new", "fork"} -> {}
    [] step.op = "return" -> AfterV(step.on)
    [] step.op \in {"append", "remove"} -> Whole(step.on)
    [] OTHER -> {step.on}

At(t, op) == steps[t] # <<>> /\ Head(steps[t]).op = op
On(t) == Head(steps[t]).on
GoesOn(t) == steps' = [steps EXCEPT ![t] = Tail(@)]
Calls(t, call) == steps' = [steps EXCEPT ![t] = call \o Tail(@)]

(* Semaphore::P, its loop included: the thread sleeps while the value is 0. *)
TestP(t) ==
  /\ At(t, "P") /\ value[On(t)] > 0
  /\ value' = [value EXCEPT ![On(t)] = @ - 1]
  /\ GoesOn(t)
  /\ UNCHANGED <<made, items, waiters>>

(* Semaphore::V; a sleeping thread sees the value when it runs. *)
TestV(t) ==
  /\ At(t, "V")
  /\ value' = [value EXCEPT ![On(t)] = @ + 1]
  /\ GoesOn(t)
  /\ UNCHANGED <<made, items, waiters>>

TestReturn(t) == At(t, "return") /\ GoesOn(t) /\ UNCHANGED <<made, value, items, waiters>>

TestAppend(t) ==
  /\ At(t, "append")
  /\ items' = [items EXCEPT ![On(t)] = @ + 1]
  /\ IF waiters[On(t)] = <<>>
     THEN Calls(t, VCall(Lock(On(t)))) /\ UNCHANGED waiters
     ELSE /\ Calls(t, VCall(Waiter(Head(waiters[On(t)]))) \o VCall(Lock(On(t))))
          /\ waiters' = [waiters EXCEPT ![On(t)] = Tail(@)]
  /\ UNCHANGED <<made, value>>

(* Condition::Wait: what is left to do once the waiter is in the queue. *)
Wait(t, l) ==
  VCall(Lock(l)) \o Do("P", Waiter(t)) \o Do("P", Lock(l)) \o Do("delete", Waiter(t))

(* SynchList::RemoveFront: the loop goes back to the test after a Wait. *)
TestRemove(t) ==
  /\ At(t, "remove")
  /\ LET l == On(t) IN
       IF items[l] = 0
       THEN /\ Calls(t, Wait(t, l) \o Do("remove", l))
            /\ made' = made \cup {Waiter(t)}
            /\ value' = [value EXCEPT ![Waiter(t)] = 0]
            /\ waiters' = [waiters EXCEPT ![l] = Append(@, t)]
            /\ UNCHANGED items
       ELSE /\ Calls(t, VCall(Lock(l)))
            /\ items' = [items EXCEPT ![l] = @ - 1]
            /\ UNCHANGED <<made, value, waiters>>

(* The constructors: a list comes with its lock, which is free. *)
TestNew(t) ==
  /\ At(t, "new")
  /\ LET x == On(t) IN
       /\ made' = made \cup Whole(x)
       /\ value' = IF x \in TestList THEN [value EXCEPT ![Lock(x)] = 1]
                                     ELSE [value EXCEPT ![x] = 0]
  /\ GoesOn(t)
  /\ UNCHANGED <<items, waiters>>

(* The destructors. *)
TestDelete(t) ==
  /\ At(t, "delete")
  /\ made' = made \ Whole(On(t))
  /\ GoesOn(t)
  /\ UNCHANGED <<value, items, waiters>>

(* Thread::Fork of the helper.  Each test forks a thread of its own; the first one has no  *)
(* more to do than return when the second one starts, and one name stands for both.        *)
TestFork(t) ==
  /\ At(t, "fork")
  /\ steps' = [steps EXCEPT ![t] = Tail(@),
                            !["helper"] = @ \o IF On(t) = "list" THEN ListHelper
                                                                 ELSE SemaphoreHelper]
  /\ UNCHANGED <<made, value, items, waiters>>

TesterStep(t) ==
  \/ TestP(t) \/ TestV(t) \/ TestReturn(t)
  \/ TestAppend(t) \/ TestRemove(t)
  \/ TestNew(t) \/ TestDelete(t) \/ TestFork(t)

TestNext == \E t \in Tester : TesterStep(t)

TestSpec == TestInit /\ [][TestNext]_tvars /\ \A t \in Tester : WF_tvars(TesterStep(t))

-----------------------------------------------------------------------------
(* No thread has a step before it that touches a semaphore, a lock or a list which the     *)
(* other has deleted, although main deletes them while the helper may still be on its way  *)
(* out of V, Release or Append: they read nothing of their own once interrupts are on.     *)
DeletedAfterLastUse ==
  \A t \in Tester : steps[t] # <<>> => Touches(Head(steps[t])) \subseteq made

=============================================================================
