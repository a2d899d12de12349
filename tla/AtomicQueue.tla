---------------------------- MODULE AtomicQueue ----------------------------
(***************************************************************************)
(* What threads/synchlist.h promises: a queue that threads append to, and  *)
(* from which a thread removes the first item, waiting while there is none *)
(***************************************************************************)
EXTENDS Sequences

CONSTANTS Thread, Item, NoItem

VARIABLES
  list,    \* the items
  asking,  \* the threads in RemoveFront
  got      \* the item each thread got from its last RemoveFront

vars == <<list, asking, got>>

Init ==
  /\ list = <<>>
  /\ asking = {}
  /\ got = [t \in Thread |-> NoItem]

Put(x) ==
  /\ list' = Append(list, x)
  /\ UNCHANGED <<asking, got>>

Ask(t) ==
  /\ asking' = asking \cup {t}
  /\ got' = [got EXCEPT ![t] = NoItem]
  /\ UNCHANGED list

Get(t) ==
  /\ t \in asking
  /\ list # <<>>
  /\ list' = Tail(list)
  /\ asking' = asking \ {t}
  /\ got' = [got EXCEPT ![t] = Head(list)]

Next ==
  \/ \E x \in Item : Put(x)
  \/ \E t \in Thread : Ask(t) \/ Get(t)

(* While there are items and threads that ask for one, some thread gets one. *)
Fairness == WF_vars(\E t \in Thread : Get(t))

Spec == Init /\ [][Next]_vars /\ Fairness
=============================================================================
