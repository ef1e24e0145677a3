------------------------------ MODULE MCLibrary ------------------------------
(***************************************************************************)
(* The packages that the rest is built on, each through every sequence of  *)
(* its operations: the cache and its scheduler, the tree, the list and the *)
(* heap.  They share nothing; `part` says which one a behaviour is about.  *)
(***************************************************************************)
EXTENDS Cache, AvlTree, LinkedList, BinaryHeap

CONSTANTS
    b1, b2, c1, c2, x,   \* buckets, keys of entries, another's task
    w                    \* a value of the tree

VARIABLE part

\* One bucket and its entries; or two buckets, and a task of somebody else.
OneAtATime == {[buckets |-> {b1}, keys |-> {c1, c2}, tasks |-> {}],
               [buckets |-> {b1, b2}, keys |-> {}, tasks |-> {x}]}

\* Items 2 and 3, 4 and 5 are ties.
Halved(i) == i \div 2

\* One key of the tree at most has the value w, which is enough to see a value
\* at the wrong key.
OneMarked == Cardinality({k \in TreeKey : find(root, k) = w}) <= 1

\* A part that a behaviour is not about starts in one of its initial states.
Resting ==
    /\ part = "cache" \/ load.keys = {}
    /\ part = "heap" \/ heapType = "min"

LibInit ==
    /\ part \in {"cache", "tree", "list", "heap"}
    /\ Init /\ AvlInit /\ ListInit /\ HeapInit
    /\ Resting

LibNext ==
    /\ UNCHANGED part
    /\ \/ part = "cache" /\ Next /\ UNCHANGED <<avlVars, listVars, heapVars>>
       \/ part = "tree" /\ AvlNext /\ OneMarked' /\ UNCHANGED <<vars, listVars, heapVars>>
       \/ part = "list" /\ ListNext /\ UNCHANGED <<vars, avlVars, heapVars>>
       \/ part = "heap" /\ HeapNext /\ UNCHANGED <<vars, avlVars, listVars>>

libVars == <<part, vars, avlVars, listVars, heapVars>>

\* The behaviours that are about the tree.
PopSpec == (LibInit /\ part = "tree") /\ [][LibNext]_libVars

\* The goroutines of the cache run in the behaviours that are about it.
LibSpec ==
    /\ LibInit /\ [][LibNext]_libVars
    /\ part = "cache" => Fairness
=============================================================================
