----------------------------- MODULE SynchList -----------------------------
(***************************************************************************)
(* The synchronized list of threads/synchlist.cc, on which the mailboxes   *)
(* of network/post.cc are built: one list used by any number of threads.   *)
(* An action is the code between two ticks, so it joins the end of one     *)
(* lock operation with the beginning of the next.                          *)
(***************************************************************************)
EXTENDS Monitor

CONSTANTS
  Item,      \* what is put on the list; each item is put there once
  NoItem,
  MaxApply   \* bound: the calls of Apply

ASSUME ItemAssumption ==
  /\ NoItem \notin Item
  /\ MaxApply \in Nat

VARIABLES
  list,    \* SynchList::list
  item,    \* the item a thread is about to put on the list
  got,     \* the item a thread's RemoveFront has returned
  fresh,   \* the items that have not been passed to Append
  applied  \* the calls of Apply so far

lvars == <<list, item, got, fresh, applied>>
listvars == <<allvars, lvars>>

LInit ==
  /\ MInit
  /\ list = <<>>
  /\ item = [t \in Thread |-> NoItem]
  /\ got = [t \in Thread |-> NoItem]
  /\ fresh = Item
  /\ applied = 0

-----------------------------------------------------------------------------
(* lock->Release() by a thread that has just set lockHolder. *)
Unlock ==
  /\ lockHolder' = NoThread
  /\ V(LockSem)
  /\ Goto("outside")
  /\ UNCHANGED waitQueue

(* Append, up to the end of P. *)
LAppend(x) ==
  /\ x \in fresh
  /\ Acquire("outside", "append")
  /\ item' = [item EXCEPT ![currentThread] = x]
  /\ fresh' = fresh \ {x}
  /\ UNCHANGED <<list, got, applied>>

(* "wake up a waiter, if any" *)
NoWaiter == waitQueue = <<>>

(* The item is appended; Signal ends with a tick when it wakes a thread. *)
AppendItem ==
  /\ At("append")
  /\ list' = Append(list, item[currentThread])
  /\ \/ NoWaiter /\ Unlock
     \/ /\ ~NoWaiter
        /\ V(Waiter(Head(waitQueue)))
        /\ waitQueue' = Dequeued
        /\ lockHolder' = currentThread
        /\ Goto("appended")
  /\ item' = [item EXCEPT ![currentThread] = NoItem]
  /\ UNCHANGED <<got, fresh, applied>>

AppendRelease ==
  /\ At("appended")
  /\ Unlock
  /\ UNCHANGED lvars

(* RemoveFront, up to the end of P. *)
LRemoveFront ==
  /\ Acquire("outside", "remove")
  /\ got' = [got EXCEPT ![currentThread] = NoItem]
  /\ UNCHANGED <<list, item, fresh, applied>>

(* The loop of RemoveFront: Wait if the list is empty, else take an item. *)
RemoveTest ==
  /\ At("remove") \/ At("reacquired")
  /\ \/ list = <<>> /\ StartWait /\ UNCHANGED lvars
     \/ /\ list # <<>>
        /\ got' = [got EXCEPT ![currentThread] = Head(list)]
        /\ list' = Tail(list)
        /\ Unlock
        /\ UNCHANGED <<item, fresh, applied>>

(* The two other steps of Wait. *)
InWait == (WaitSignal \/ Reacquire) /\ UNCHANGED lvars

(* Apply calls its function on every item while it holds the lock. *)
Apply ==
  /\ applied < MaxApply
  /\ Acquire("outside", "apply")
  /\ applied' = applied + 1
  /\ UNCHANGED <<list, item, got, fresh>>

ApplyAll ==
  /\ At("apply")
  /\ Unlock
  /\ UNCHANGED lvars

InList == AppendItem \/ AppendRelease \/ RemoveTest \/ InWait \/ ApplyAll

LNext ==
  \/ Environment /\ UNCHANGED lvars
  \/ InList
  \/ LRemoveFront
  \/ Apply
  \/ \E x \in Item : LAppend(x)

LFairness ==
  /\ WF_listvars(Yield /\ UNCHANGED <<mvars, lvars>>)
  /\ WF_listvars(Run /\ UNCHANGED <<mvars, lvars>>)
  /\ WF_listvars(CheckToBeDestroyed /\ UNCHANGED <<mvars, lvars>>)
  /\ WF_listvars(Resume /\ UNCHANGED <<mvars, lvars>>)
  /\ \A t \in Thread : SF_listvars(currentThread = t /\ InList)

LSpec == LInit /\ [][LNext]_listvars /\ LFairness

-----------------------------------------------------------------------------
(* The threads in RemoveFront. *)
Removing == {t \in Thread : at[t] \in {"remove", "waiting", "woken", "reacquired"}}

Queue == INSTANCE AtomicQueue WITH asking <- Removing

(***************************************************************************)
(* To its users the list is a queue with atomic operations: every item is  *)
(* removed by one thread, in the order of Append, and while there are      *)
(* items and threads that ask for one, some thread gets one (if Apply is   *)
(* called finitely often: Semaphore::P does not queue for the lock).       *)
(***************************************************************************)
ImplementsAtomicQueue == Queue!Spec
=============================================================================
