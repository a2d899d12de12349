------------------------------- MODULE Stacks -------------------------------
(***************************************************************************)
(* The stacks of c++example/: one in an array (stack.cc, and for any type  *)
(* templatestack.cc), one in a linked list (the ListStack of               *)
(* inheritstack.cc over list.cc), and their self tests.                    *)
(***************************************************************************)
EXTENDS Integers, Sequences, SequencesExt

CONSTANTS
  StackSizes, \* the sizes an array stack is made with
  FirstValue  \* the value the self tests push first

ASSUME StacksAssumption == StackSizes \subseteq Nat \ {0} /\ FirstValue \in Nat

VARIABLES
  kind,    \* "array" or "list"
  stack,   \* array: [size, top, slot]; list: [first, last, cell]
  test,    \* the self test: what it does, how many it has to push, what it pushes next
  pushed,  \* history: what should be on the stack, the top last
  popped   \* history: the value Pop returned last, and the one it should have

svars == <<kind, stack, test, pushed, popped>>

(* Stack<T>::Stack: new T[size] is not initialized. *)
NewArray(size) == [size |-> size, top |-> 0, slot |-> [i \in 0 .. size - 1 |-> -1]]
ArrayFull == stack.top = stack.size
ArrayEmpty == stack.top = 0

(* List::List of list.cc; the null pointer is 0. *)
NewList == [first |-> 0, last |-> 0, cell |-> [c \in {} |-> [item |-> 0, next |-> 0]]]
ListEmpty == stack.first = 0

Full == IF kind = "array" THEN ArrayFull ELSE FALSE
Empty == IF kind = "array" THEN ArrayEmpty ELSE ListEmpty

SInit ==
  /\ kind \in {"array", "list"}
  /\ \E size \in StackSizes :
       /\ stack = IF kind = "array" THEN NewArray(size) ELSE NewList
       /\ \E does \in {"fill", "push"} :
            /\ kind = "list" => does = "push"
            /\ test = [does |-> does, left |-> size, count |-> FirstValue]
  /\ pushed = <<>>
  /\ popped = [got |-> 0, due |-> 0]

-----------------------------------------------------------------------------
ArrayPush(value) == stack' = [stack EXCEPT !.slot[stack.top] = value, !.top = @ + 1]

(* Mutant: top moves after the value is taken. *)
PopPostDecrement ==
  [value |-> stack.slot[stack.top % stack.size], rest |-> [stack EXCEPT !.top = @ - 1]]

ArrayPop == [value |-> stack.slot[stack.top - 1], rest |-> [stack EXCEPT !.top = @ - 1]]

(* List::Prepend *)
ListPush(value) ==
  LET e == Cardinality(DOMAIN stack.cell) + 1
      cells == [c \in DOMAIN stack.cell \cup {e} |->
                  IF c = e THEN [item |-> value, next |-> stack.first] ELSE stack.cell[c]]
  IN  stack' = [first |-> e, last |-> IF ListEmpty THEN e ELSE stack.last, cell |-> cells]

(* List::Remove *)
ListPop ==
  LET e == stack.first
      one == stack.first = stack.last
  IN  [value |-> stack.cell[e].item,
       rest |-> [first |-> IF one THEN 0 ELSE stack.cell[e].next,
                 last |-> IF one THEN 0 ELSE stack.last,
                 cell |-> [c \in DOMAIN stack.cell \ {e} |-> stack.cell[c]]]]

Push(value) ==
  /\ IF kind = "array" THEN ArrayPush(value) ELSE ListPush(value)
  /\ pushed' = Append(pushed, value)
  /\ UNCHANGED <<kind, popped>>

Pop ==
  LET p == IF kind = "array" THEN ArrayPop ELSE ListPop
  IN  /\ stack' = p.rest
      /\ pushed' = Front(pushed)
      /\ popped' = [got |-> p.value, due |-> Last(pushed)]
      /\ UNCHANGED kind

(* Stack::SelfTest of stack.cc: push until the stack is full. *)
SelfTestFill ==
  /\ test.does = "fill"
  /\ IF Full THEN test' = [test EXCEPT !.does = "pop"] /\ UNCHANGED <<kind, stack, pushed, popped>>
     ELSE Push(test.count) /\ test' = [test EXCEPT !.count = @ + 1]

(* Stack::SelfTest of inheritstack.cc: push numToPush values, then pop them all. *)
SelfTestPush ==
  /\ test.does = "push"
  /\ IF test.left = 0
     THEN test' = [test EXCEPT !.does = "pop"] /\ UNCHANGED <<kind, stack, pushed, popped>>
     ELSE /\ ~Full
          /\ Push(test.count)
          /\ test' = [test EXCEPT !.left = @ - 1, !.count = @ + 1]

SelfTestPop ==
  /\ test.does = "pop"
  /\ ~Empty
  /\ Pop
  /\ UNCHANGED test

(* Another user pops in between; only while a bounded number is still to be pushed. *)
UserPop ==
  /\ test.does = "push"
  /\ ~Empty
  /\ Pop
  /\ UNCHANGED test

SNext == SelfTestFill \/ SelfTestPush \/ SelfTestPop \/ UserPop

-----------------------------------------------------------------------------
(* Every Pop returns the value pushed last of those still there, in the array as in   *)
(* the list, and no self test runs into an ASSERT: one that still has to push finds   *)
(* room (inheritstack.cc:200), one that pops ends with an empty stack.                *)
LastInFirstOut ==
  /\ popped.got = popped.due
  /\ Empty <=> pushed = <<>>
  /\ test.does = "push" /\ test.left > 0 => ~Full
=============================================================================
