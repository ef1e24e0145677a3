------------------------------- MODULE AvlTree -------------------------------
(***************************************************************************)
(* The AVL tree of pkg/util/tree/avl, in which the resources, the routers  *)
(* and the edges between resources are kept.  An operation holds the       *)
(* tree's mutex from its beginning to its end, so it is one action.        *)
(***************************************************************************)
EXTENDS Integers, Sequences

CONSTANTS
    TreeKey,  \* keys, as numbers
    Value,
    NoValue   \* the zero value

VARIABLES
    root,     \* the tree
    result,   \* what the last operation returned
    popped,   \* the value the last operation returned, if that was a Pop
    sought,   \* history: the value its key had
    cloned    \* the tree was copied by Clone, which leaves the heights zero

avlVars == <<root, result, popped, sought, cloned>>

Nil == [key |-> 0, height |-> 0]   \* a nil pointer
IsNil(n) == n.key = 0
Node(k, v, l, r, h) == [key |-> k, val |-> v, left |-> l, right |-> r, height |-> h]

Larger(a, b) == IF a > b THEN a ELSE b

-----------------------------------------------------------------------------
(* Shape *)

\* getHeight is height, which a nil node has as well.
updateHeight(n) == [n EXCEPT !.height = 1 + Larger(n.left.height, n.right.height)]

\* Mutant of rotateRight: the subtree between the two nodes is lost.
rotateRightLosing(y) ==
    updateHeight([y.left EXCEPT !.right = updateHeight([y EXCEPT !.left = Nil])])

rotateRight(y) ==
    updateHeight([y.left EXCEPT !.right = updateHeight([y EXCEPT !.left = y.left.right])])

rotateLeft(x) ==
    updateHeight([x.right EXCEPT !.left = updateHeight([x EXCEPT !.right = x.right.left])])

\* A leaf has 1.
getBalanceFactor(n) ==
    IF IsNil(n) THEN 0
    ELSE IF IsNil(n.left) /\ IsNil(n.right) THEN 1
    ELSE n.left.height - n.right.height

-----------------------------------------------------------------------------
(* Reading *)

\* find; NoValue if the key is not there.
RECURSIVE find(_, _)
find(n, k) ==
    IF IsNil(n) THEN NoValue
    ELSE IF k < n.key THEN find(n.left, k)
    ELSE IF k > n.key THEN find(n.right, k)
    ELSE n.val

\* The keys in the order in which each visits them.
RECURSIVE each(_)
each(n) == IF IsNil(n) THEN <<>> ELSE each(n.left) \o <<n.key>> \o each(n.right)

RECURSIVE length(_)
length(n) == IF IsNil(n) THEN 0 ELSE 1 + length(n.left) + length(n.right)

RECURSIVE findMin(_)
findMin(n) == IF IsNil(n.left) THEN n ELSE findMin(n.left)

-----------------------------------------------------------------------------
(* Insert *)

\* The rotations after an insertion of k below n.
Rebalanced(n, k) ==
    LET b == getBalanceFactor(n) IN
    IF b > 1 /\ k < n.left.key THEN rotateRight(n)
    ELSE IF b < -1 /\ k > n.right.key THEN rotateLeft(n)
    ELSE IF b > 1 /\ k > n.left.key THEN rotateRight([n EXCEPT !.left = rotateLeft(n.left)])
    ELSE IF b < -1 /\ k < n.right.key THEN rotateLeft([n EXCEPT !.right = rotateRight(n.right)])
    ELSE n

\* The tree, and the value k had.
RECURSIVE replace(_, _, _)
replace(n, k, v) ==
    IF IsNil(n) THEN <<Node(k, v, Nil, Nil, 1), NoValue>>
    ELSE IF k = n.key THEN <<[n EXCEPT !.val = v], n.val>>
    ELSE LET sub == replace(IF k < n.key THEN n.left ELSE n.right, k, v)
             new == IF k < n.key THEN [n EXCEPT !.left = sub[1]] ELSE [n EXCEPT !.right = sub[1]]
         IN <<Rebalanced(updateHeight(new), k), sub[2]>>

-----------------------------------------------------------------------------
(* Delete *)

\* Mutant of DeleteRebalanced: a double rotation is done as a single one.
DeleteRebalancedOnce(n) ==
    LET b == getBalanceFactor(n) IN
    IF b > 1 THEN rotateRight(n) ELSE IF b < -1 THEN rotateLeft(n) ELSE n

\* The rotations after a deletion below n.
DeleteRebalanced(n) ==
    LET b == getBalanceFactor(n) IN
    IF b > 1 /\ getBalanceFactor(n.left) >= 0 THEN rotateRight(n)
    ELSE IF b > 1 THEN rotateRight([n EXCEPT !.left = rotateLeft(n.left)])
    ELSE IF b < -1 /\ getBalanceFactor(n.right) <= 0 THEN rotateLeft(n)
    ELSE IF b < -1 THEN rotateLeft([n EXCEPT !.right = rotateRight(n.right)])
    ELSE n

\* deleteNode at the node itself, when a child is missing: its other child
\* takes its place.
Unlinked(n) == <<IF IsNil(n.left) THEN n.right ELSE n.left, n.val, TRUE>>

\* The tree, a value, and whether the key was found.  A node with two children
\* takes over its successor, and the value returned is the successor's.
RECURSIVE deleteNode(_, _)
deleteNode(n, k) ==
    LET Up(sub, new) ==
            <<IF sub[3] /\ ~IsNil(new) THEN DeleteRebalanced(updateHeight(new)) ELSE new,
              sub[2], sub[3]>>
    IN IF IsNil(n) THEN <<Nil, NoValue, FALSE>>
       ELSE IF k < n.key
       THEN LET sub == deleteNode(n.left, k) IN Up(sub, [n EXCEPT !.left = sub[1]])
       ELSE IF k > n.key
       THEN LET sub == deleteNode(n.right, k) IN Up(sub, [n EXCEPT !.right = sub[1]])
       ELSE IF IsNil(n.left) \/ IsNil(n.right)
       THEN Up(Unlinked(n), Unlinked(n)[1])
       ELSE LET s == findMin(n.right)
                sub == deleteNode(n.right, s.key)
            IN Up(sub, Node(s.key, s.val, n.left, sub[1], n.height))

\* clone copies keys and values, and no height.
RECURSIVE clone(_)
clone(n) == IF IsNil(n) THEN Nil ELSE Node(n.key, n.val, clone(n.left), clone(n.right), 0)

-----------------------------------------------------------------------------
NotPopped == popped' = NoValue /\ sought' = NoValue

AvlInit ==
    /\ root = Nil /\ result = NoValue
    /\ popped = NoValue /\ sought = NoValue
    /\ cloned = FALSE

Insert(k, v) ==
    LET r == replace(root, k, v) IN
    /\ root' = r[1]
    /\ result' = r[2] /\ NotPopped
    /\ UNCHANGED cloned

avlDelete(k) ==
    LET r == deleteNode(root, k) IN
    /\ root' = r[1]
    /\ result' = r[3] /\ NotPopped
    /\ UNCHANGED cloned

Pop(k) ==
    LET r == deleteNode(root, k) IN
    /\ root' = r[1]
    /\ result' = r[3]
    /\ popped' = r[2] /\ sought' = find(root, k)
    /\ UNCHANGED cloned

avlClear == root' = Nil /\ result' = NoValue /\ cloned' = FALSE /\ NotPopped

\* The copy is used from here on.
Clone ==
    /\ root' = clone(root) /\ cloned' = TRUE
    /\ result' = NoValue /\ NotPopped

\* A copy is read and not changed, as Clone's only caller, the Clone of a link,
\* has none: with heights of zero an insertion can rotate around a nil child.
AvlNext ==
    \/ /\ ~cloned
       /\ \E k \in TreeKey : avlDelete(k) \/ Pop(k) \/ \E v \in Value : Insert(k, v)
    \/ avlClear \/ Clone

-----------------------------------------------------------------------------
(* Properties *)

\* A tree: its heights are right, and those of two siblings differ by one at
\* most.
RECURSIVE Balanced(_)
Balanced(n) ==
    IsNil(n) \/ /\ n.height = 1 + Larger(n.left.height, n.right.height)
                /\ n.left.height - n.right.height \in -1..1
                /\ Balanced(n.left) /\ Balanced(n.right)

\* The tree stays balanced, so that an operation takes logarithmic time, as
\* long as it is not a copy: Clone loses the heights.
StaysBalanced == cloned \/ Balanced(root)

\* Each visits every key that Find finds, once and in order: what the listings
\* of resources and the order of domains and routes are built from.
ListsInOrder ==
    LET s == each(root) IN
    /\ \A i \in 1..(Len(s) - 1) : s[i] < s[i + 1]
    /\ {s[i] : i \in DOMAIN s} = {k \in TreeKey : find(root, k) # NoValue}
    /\ Len(s) = length(root)

\* The tree is a balanced search tree.
SearchTreeKept == StaysBalanced /\ ListsInOrder

\* The tree is a map: through every rotation Insert, Delete, Pop, Clear and
\* Clone change what Find finds for their key and for no other, Insert returns the
\* value it replaces, and Delete and Pop report whether the key was there.  The
\* value that Pop returns is left to PopReturnsValue.
Map == INSTANCE OrderedMap WITH
    Key <- TreeKey,
    map <- [k \in TreeKey |-> find(root, k)],
    out <- result
ImplementsMap == Map!Spec

\* Pop "removes a node with the given key from the AVL tree and returns the
\* value" (avl.go:33, 310), the value the key had.
PopReturnsValue == popped = sought
=============================================================================
