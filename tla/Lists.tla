------------------------------- MODULE Lists --------------------------------
(***************************************************************************)
(* The linked lists of lib/list.h and lib/list.cc, cell by cell: List and  *)
(* SortedList, which keeps its elements in increasing order.  The ready    *)
(* list, the wait queues, the pending interrupts and the buckets of hash   *)
(* tables are such lists; the other modules use sequences for them.        *)
(***************************************************************************)
EXTENDS Integers, Sequences, FiniteSets, FiniteSetsExt

CONSTANTS
  Item,     \* the things put on the list
  Rank,     \* Rank[x] - Rank[y] is what compare says of x and y
  MaxCells  \* bound: the cells new can allocate

ASSUME ListsAssumption == MaxCells \in Nat /\ IsFiniteSet(Item) /\ Cardinality(Item) < MaxCells

NULL == 0

VARIABLES
  list,     \* [first, last, numInList, cell]: cell has the allocated ListElements
  sorted,   \* the list is a SortedList
  contents  \* history: the items that should be on the list, in order

lvars == <<list, sorted, contents>>

LInit ==
  /\ list = [first |-> NULL, last |-> NULL, numInList |-> 0,
             cell |-> [c \in {} |-> [item |-> NULL, next |-> NULL]]]
  /\ sorted \in BOOLEAN
  /\ contents = <<>>

-----------------------------------------------------------------------------
IsEmpty(l) == l.numInList = 0

(* new ListElement(item): some free cell. *)
FreeCell(l) == Min(1 .. MaxCells \ DOMAIN l.cell)

NewElement(l, x) ==
  [l EXCEPT !.cell = [c \in DOMAIN l.cell \cup {FreeCell(l)} |->
     IF c = FreeCell(l) THEN [item |-> x, next |-> NULL] ELSE l.cell[c]]]

Delete(l, c) == [l EXCEPT !.cell = [d \in DOMAIN l.cell \ {c} |-> l.cell[d]]]

(* The cells from c on, as Apply, IsInList and ListIterator visit them. *)
RECURSIVE Follow(_, _, _)
Follow(l, c, limit) ==
  IF c \notin DOMAIN l.cell \/ limit = 0 THEN <<>>
  ELSE <<c>> \o Follow(l, l.cell[c].next, limit - 1)

Cells(l) == Follow(l, l.first, MaxCells + 1)
Items(l) == [i \in 1 .. Len(Cells(l)) |-> l.cell[Cells(l)[i]].item]

IsInList(l, x) == \E i \in DOMAIN Items(l) : Items(l)[i] = x

(* The element at e becomes the only one. *)
OnlyElement(l, e) == [l EXCEPT !.first = e, !.last = e, !.numInList = @ + 1]

(* List::Append; the ASSERT is the caller's part. *)
Append1(l, x) ==
  LET e == FreeCell(l)
      n == NewElement(l, x)
  IN  IF IsEmpty(l) THEN OnlyElement(n, e)
      ELSE [n EXCEPT !.cell[l.last].next = e, !.last = e, !.numInList = @ + 1]

Prepend1(l, x) ==
  LET e == FreeCell(l)
      n == NewElement(l, x)
  IN  IF IsEmpty(l) THEN OnlyElement(n, e)
      ELSE [n EXCEPT !.cell[e].next = l.first, !.first = e, !.numInList = @ + 1]

(* List::RemoveFront of a list that is not empty. *)
RemoveFront1(l) ==
  Delete([l EXCEPT !.first = IF l.first = l.last THEN NULL ELSE l.cell[l.first].next,
                   !.last = IF l.first = l.last THEN NULL ELSE @,
                   !.numInList = @ - 1], l.first)

(* Mutant: last still points at the element that was removed. *)
UnlinkOnly(l, prev, ptr) ==
  Delete([l EXCEPT !.cell[prev].next = l.cell[ptr].next, !.numInList = @ - 1], ptr)

(* List::Remove: ptr, which follows prev, is taken out. *)
Unlink(l, prev, ptr) ==
  Delete([l EXCEPT !.cell[prev].next = l.cell[ptr].next,
                   !.last = IF l.cell[ptr].next = NULL THEN prev ELSE @,
                   !.numInList = @ - 1], ptr)

Remove1(l, x) ==
  IF x = l.cell[l.first].item THEN RemoveFront1(l)
  ELSE LET i == Min({j \in 2 .. Len(Cells(l)) : Items(l)[j] = x})
       IN  Unlink(l, Cells(l)[i - 1], Cells(l)[i])

(* SortedList::Insert: before the first element that is bigger. *)
Insert1(l, x) ==
  LET e == FreeCell(l)
      n == NewElement(l, x)
      bigger == {i \in DOMAIN Items(l) : Rank[x] - Rank[Items(l)[i]] < 0}
  IN  CASE IsEmpty(l) -> OnlyElement(n, e)
        [] ~IsEmpty(l) /\ bigger = {} ->
             [n EXCEPT !.cell[l.last].next = e, !.last = e, !.numInList = @ + 1]
        [] 1 \in bigger -> [n EXCEPT !.cell[e].next = l.first, !.first = e, !.numInList = @ + 1]
        [] OTHER ->
             LET ptr == Cells(l)[Min(bigger) - 1]
             IN  [n EXCEPT !.cell[e].next = l.cell[ptr].next, !.cell[ptr].next = e,
                           !.numInList = @ + 1]

(* The assertions of List::SanityCheck: last is reached from first in numInList cells. *)
SanityCheck(l) ==
  IF l.first = NULL THEN l.numInList = 0 /\ l.last = NULL
  ELSE /\ l.numInList = Len(Cells(l))
       /\ l.last = Cells(l)[Len(Cells(l))]
       /\ l.cell[l.last].next = NULL

(* And those of SortedList::SanityCheck. *)
SortedSanityCheck(l) ==
  /\ SanityCheck(l)
  /\ \A i \in 1 .. Len(Items(l)) - 1 : Rank[Items(l)[i]] - Rank[Items(l)[i + 1]] <= 0

-----------------------------------------------------------------------------
Count(Op(_)) == Cardinality({i \in DOMAIN contents : Op(contents[i])})
Spliced(s, i, x) == SubSeq(s, 1, i) \o <<x>> \o SubSeq(s, i + 1, Len(s))

ListAppend(x) ==
  /\ ~sorted /\ ~IsInList(list, x)
  /\ list' = Append1(list, x)
  /\ contents' = Append(contents, x)
  /\ UNCHANGED sorted

ListPrepend(x) ==
  /\ ~sorted /\ ~IsInList(list, x)
  /\ list' = Prepend1(list, x)
  /\ contents' = <<x>> \o contents
  /\ UNCHANGED sorted

ListInsert(x) ==
  /\ sorted /\ ~IsInList(list, x)
  /\ list' = Insert1(list, x)
  /\ contents' = LET NotBigger(y) == Rank[y] <= Rank[x] IN Spliced(contents, Count(NotBigger), x)
  /\ UNCHANGED sorted

ListRemoveFront ==
  /\ ~IsEmpty(list)
  /\ list' = RemoveFront1(list)
  /\ contents' = Tail(contents)
  /\ UNCHANGED sorted

ListRemove(x) ==
  /\ IsInList(list, x)
  /\ list' = Remove1(list, x)
  /\ contents' = LET Other(y) == y # x IN SelectSeq(contents, Other)
  /\ UNCHANGED sorted

LNext ==
  \/ ListRemoveFront
  \/ \E x \in Item : ListAppend(x) \/ ListPrepend(x) \/ ListInsert(x) \/ ListRemove(x)

LSpec == LInit /\ [][LNext]_lvars

-----------------------------------------------------------------------------
(* The cells are the sequence the operations say: from first along next one meets     *)
(* exactly the items that should be there, in that order, first and last and          *)
(* numInList pass SanityCheck, no cell is lost, and a SortedList keeps equal elements  *)
(* in the order they came.                                                            *)
ListIsSequence ==
  /\ Items(list) = contents
  /\ IF sorted THEN SortedSanityCheck(list) ELSE SanityCheck(list)
  /\ DOMAIN list.cell = {Cells(list)[i] : i \in DOMAIN contents}
=============================================================================
