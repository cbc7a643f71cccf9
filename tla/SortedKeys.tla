----------------------------- MODULE SortedKeys -----------------------------
(***************************************************************************)
(* sortedKeysToID of the ERC-1155 contract: the keys (recipient, token id) *)
(* of a Go map, in the order the runtime happens to iterate over them, are *)
(* sorted so that every endorsing peer deposits in the same order.         *)
(* sort.Slice sorts up to six elements by insertion.                       *)
(***************************************************************************)
EXTENDS SequencesExt, Integers

CONSTANTS
    Id,         \* token ids
    To,         \* recipients, as the ranks of their names
    MaxKeys     \* bound: the size of the map, at most 6

ToID == [to : To, id : Id]

VARIABLES
    keys,       \* the slice
    i, j        \* the loop variables of the insertion sort

vars == <<keys, i, j>>

\* The function given to sort.Slice.
Less(a, b) == IF a.id # b.id THEN a.to < b.to ELSE a.id < b.id

Init ==
    /\ keys \in UNION {SetToSeqs(m) : m \in {m \in SUBSET ToID : Cardinality(m) <= MaxKeys}}
    /\ i = 2 /\ j = 2

Swap ==
    /\ i <= Len(keys)
    /\ j > 1 /\ Less(keys[j], keys[j - 1])
    /\ keys' = [keys EXCEPT ![j] = keys[j - 1], ![j - 1] = keys[j]]
    /\ j' = j - 1
    /\ UNCHANGED i

Advance ==
    /\ i <= Len(keys)
    /\ ~(j > 1 /\ Less(keys[j], keys[j - 1]))
    /\ i' = i + 1 /\ j' = i + 1
    /\ UNCHANGED keys

Next == Swap \/ Advance

Spec == Init /\ [][Next]_vars

\* "Sort the slice first according to ID if equal then sort by recipient": of
\* any two keys of the result, the first has the smaller ID, or the same ID and
\* the smaller recipient.
SortedByIdThenRecipient ==
    i > Len(keys) =>
        \A m, n \in DOMAIN keys : m < n =>
            \/ keys[m].id < keys[n].id
            \/ keys[m].id = keys[n].id /\ keys[m].to < keys[n].to
=============================================================================
