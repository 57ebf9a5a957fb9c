------------------------------ MODULE StaticMap ------------------------------
(***************************************************************************)
(* StaticMap (include/utils/container.h): a table built at compile time    *)
(* and searched by halving.  StaticSet is the same with a value for a key. *)
(*                                                                         *)
(* Keys are integers: only their order matters.  The sort and the halving  *)
(* are the standard library's; what the class relies on is that the array  *)
(* the constructor leaves is sorted and has no key twice.                  *)
(***************************************************************************)
EXTENDS Integers, Sequences, FiniteSets

CONSTANTS
    Maps,      \* the arrays the constructor's sort may leave
    Values

VARIABLES
    items,     \* items_ of the map being searched
    key,       \* the key looked for
    first,     \* lower_bound: first entry of the part not yet excluded
    count      \* lower_bound: length of that part

mapVars == <<items, key, first, count>>

Entries == [key : Int, value : Values]

\* A key twice makes the constructor throw, and the program does not build.
Constructed == {m \in Maps : /\ m \in Seq(Entries)
                             /\ \A i, j \in 1 .. Len(m) : i < j => m[i].key < m[j].key}

Search(m, k) ==
    /\ items' = m
    /\ key' = k
    /\ first' = 1
    /\ count' = Len(m)

MapInit ==
    /\ items \in Constructed
    /\ key \in Int
    /\ first = 1
    /\ count = Len(items)

Middle == first + count \div 2

Halve ==
    /\ count > 0
    /\ IF items[Middle].key < key
       THEN first' = Middle + 1 /\ count' = count - count \div 2 - 1
       ELSE count' = count \div 2 /\ UNCHANGED first
    /\ UNCHANGED <<items, key>>

\* Mutant of Has: the entry found is not compared with the key.
HasLeast == first <= Len(items)

\* What find returns: nothing, or the value of the entry.
Has       == first <= Len(items) /\ items[first].key = key
FoundValue == items[first].value

\* The next search, of any map for any key.
Again == \E m \in Constructed, k \in Int : count = 0 /\ Search(m, k)

MapNext == Halve \/ Again

MapSpec == MapInit /\ [][MapNext]_mapVars

-----------------------------------------------------------------------------
\* A search that has come to its end finds a key exactly if some entry has it.
FindExact == count = 0 => (Has <=> \E i \in 1 .. Len(items) : items[i].key = key)
==============================================================================
