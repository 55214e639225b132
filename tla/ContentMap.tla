------------------------------- MODULE ContentMap ------------------------------
(***************************************************************************)
(* The content map of the getfile servers (gflib/content.c): the keys that *)
(* content_init has read and sorted, and the binary search of content_get. *)
(* A key is an integer in the place of a string, as strcmp orders them;    *)
(* the file descriptor of an item is its index in items.                   *)
(***************************************************************************)
EXTENDS Integers, Sequences

\* Items[i + 1] is items[i].key.
CONSTANT Items

\* qsort has put the keys in order.
ASSUME ItemsAssumption ==
  /\ Items \in Seq(Int)
  /\ \A i, j \in 1..Len(Items) : i < j => Items[i] <= Items[j]

VARIABLES
  key,     \* the key content_get was called with
  lo, hi,  \* its local variables
  search,  \* "none" before the first call, "on" during a call, "over" after it
  fildes   \* what the last call returned

lookup == <<key, lo, hi, search, fildes>>

nitems == Len(Items)

LookupInit == key = 0 /\ lo = 0 /\ hi = -1 /\ search = "none" /\ fildes = -1

\* content_get is called.
Lookup(k) ==
  /\ search # "on"
  /\ key' = k /\ lo' = 0 /\ hi' = nitems - 1
  /\ search' = "on" /\ fildes' = -1

\* The items that are left to search through.
Middle == lo + (hi - lo) \div 2

\* The key is not there.
Miss ==
  /\ search = "on" /\ lo > hi
  /\ search' = "over"
  /\ UNCHANGED <<key, lo, hi, fildes>>

\* Variant: the upper bound leaves out one item too many.
CompareSkips ==
  /\ search = "on" /\ lo <= hi
  /\ \/ /\ key < Items[Middle + 1]
        /\ hi' = Middle - 2 /\ UNCHANGED <<lo, search, fildes>>
     \/ /\ key > Items[Middle + 1]
        /\ lo' = Middle + 1 /\ UNCHANGED <<hi, search, fildes>>
     \/ /\ key = Items[Middle + 1]
        /\ fildes' = Middle /\ search' = "over" /\ UNCHANGED <<lo, hi>>
  /\ UNCHANGED key

\* A turn of the loop.
Compare ==
  /\ search = "on" /\ lo <= hi
  /\ \/ /\ key < Items[Middle + 1]
        /\ hi' = Middle - 1 /\ UNCHANGED <<lo, search, fildes>>
     \/ /\ key > Items[Middle + 1]
        /\ lo' = Middle + 1 /\ UNCHANGED <<hi, search, fildes>>
     \/ /\ key = Items[Middle + 1]
        /\ fildes' = Middle /\ search' = "over" /\ UNCHANGED <<lo, hi>>
  /\ UNCHANGED key

LookupNext == Miss \/ Compare

LookupSpec == LookupInit /\ [][LookupNext \/ \E k \in Int : Lookup(k)]_lookup

-----------------------------------------------------------------------------

\* The types, and the comment in the loop of content_get (content.c:76): "Key is
\* in items[lo..hi] or not present."
SearchInv ==
  /\ key \in Int /\ lo \in Nat /\ hi \in -1..(nitems - 1) /\ fildes \in -1..(nitems - 1)
  /\ search \in {"none", "on", "over"}
  /\ search = "on" =>
       /\ fildes = -1
       /\ \A i \in 0..(nitems - 1) : Items[i + 1] = key => lo <= i /\ i <= hi

\* content_get returns a file of this key, or -1 when no item has it, whichever
\* item it is and however many there are.
LookupIsRight ==
  search = "over" =>
    IF fildes = -1 THEN \A i \in 1..nitems : Items[i] # key
    ELSE fildes \in 0..(nitems - 1) /\ Items[fildes + 1] = key

\* Every turn of the loop makes what is left to search smaller, so that
\* content_get returns.
LookupShrinks == [][LookupNext => search' = "over" \/ hi' - lo' < hi - lo]_lookup
================================================================================
