----------------------------- MODULE HashTable ------------------------------
(***************************************************************************)
(* The hash table of lib/hash.h and lib/hash.cc: chained buckets that grow *)
(* when there are too many items for them.  A bucket is a List.            *)
(***************************************************************************)
EXTENDS Integers, Sequences, FiniteSets, FiniteSetsExt

CONSTANTS
  Key,            \* keys; an item is known by its key
  Hash,           \* the hash function
  InitialBuckets, ResizeRatio, IncreaseSizeBy

ASSUME HashAssumption ==
  /\ Hash \in [Key -> Nat]
  /\ InitialBuckets \in Nat \ {0} /\ IncreaseSizeBy \in Nat \ {0} /\ ResizeRatio \in Nat

VARIABLES
  buckets,  \* bucket number -> the items on its list
  numItems,
  items     \* history: the items that should be in the table

hvars == <<buckets, numItems, items>>

InitBuckets(size) == [b \in 0 .. size - 1 |-> <<>>]

NumBuckets == Cardinality(DOMAIN buckets)

HInit ==
  /\ buckets = InitBuckets(InitialBuckets)
  /\ numItems = 0
  /\ items = {}

HashValue(key, numBuckets) == Hash[key] % numBuckets

FindInBucket(bucket, key) == \E i \in DOMAIN buckets[bucket] : buckets[bucket][i] = key

IsInTable(key) == FindInBucket(HashValue(key, NumBuckets), key)

AppendTo(table, key) ==
  [table EXCEPT ![HashValue(key, Cardinality(DOMAIN table))] = Append(@, key)]

(* All the items, bucket after bucket, front to back: the order of ReHash, Apply and  *)
(* HashIterator.                                                                      *)
Order ==
  LET upTo[b \in 0 .. NumBuckets] == IF b = 0 THEN <<>> ELSE upTo[b - 1] \o buckets[b - 1]
  IN  upTo[NumBuckets]

(* Mutant: the items of the old table keep the bucket numbers they had. *)
Enlarged == [b \in 0 .. NumBuckets * IncreaseSizeBy - 1 |->
               IF b < NumBuckets THEN buckets[b] ELSE <<>>]

(* HashTable::ReHash: every item moves to a larger table. *)
ReHash ==
  LET moved[i \in 0 .. Len(Order)] ==
        IF i = 0 THEN InitBuckets(NumBuckets * IncreaseSizeBy)
        ELSE AppendTo(moved[i - 1], Order[i])
  IN  moved[Len(Order)]

(* HashTable::Insert of a key that is not in the table. *)
HashInsert(key) ==
  /\ ~IsInTable(key)
  /\ buckets' = AppendTo(IF numItems \div NumBuckets >= ResizeRatio THEN ReHash ELSE buckets, key)
  /\ numItems' = numItems + 1
  /\ items' = items \cup {key}

(* HashTable::Remove of a key that is in the table. *)
HashRemove(key) ==
  /\ IsInTable(key)
  /\ buckets' = [buckets EXCEPT ![HashValue(key, NumBuckets)] =
                   LET Other(k) == k # key IN SelectSeq(@, Other)]
  /\ numItems' = numItems - 1
  /\ items' = items \ {key}

(* HashIterator: the bucket FindNextFullBucket finds from b on, and the items Next visits. *)
FindNextFullBucket(b) ==
  LET full == {c \in DOMAIN buckets : c >= b /\ buckets[c] # <<>>}
  IN  IF full = {} THEN NumBuckets ELSE Min(full)

Visited ==
  LET from[b \in 0 .. NumBuckets] ==
        IF b = NumBuckets THEN <<>>
        ELSE buckets[b] \o from[FindNextFullBucket(b + 1)]
  IN  from[FindNextFullBucket(0)]

(* The assertions of HashTable::SanityCheck. *)
HashSanityCheck ==
  /\ numItems = Len(Order)
  /\ \A b \in DOMAIN buckets : \A i \in DOMAIN buckets[b] : b = HashValue(buckets[b][i], NumBuckets)

HNext == \E key \in Key : HashInsert(key) \/ HashRemove(key)

HSpec == HInit /\ [][HNext]_hvars

-----------------------------------------------------------------------------
(* Whatever was inserted, removed and moved by ReHash in between, Find finds a key     *)
(* exactly when its item should be in the table, SanityCheck passes, and a             *)
(* HashIterator visits each item once (hash.cc FindInBucket, ReHash).                  *)
FindsWhatWasInserted ==
  /\ \A key \in Key : IsInTable(key) <=> key \in items
  /\ numItems = Cardinality(items) /\ HashSanityCheck
  /\ Len(Visited) = numItems
  /\ {Visited[i] : i \in DOMAIN Visited} = items
=============================================================================
