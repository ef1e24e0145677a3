----------------------------- MODULE LinkedList -----------------------------
(***************************************************************************)
(* The singly linked list of pkg/util/linkedlist with its two merge sorts, *)
(* and the list of networks of pkg/util/iplist that is kept in one: the    *)
(* admin API's list of allowed addresses.                                  *)
(***************************************************************************)
EXTENDS Integers, Sequences, SequencesExt, Bags, BagsExt

CONSTANTS
    Item,         \* what is stored, as numbers
    RankOf(_),    \* what the order looks at; listItems of one rank are ties
    MaxLength

VARIABLES
    listItems,   \* the values from Head on
    tail,    \* the position of the node Tail points to, 0 if nil
    len,     \* the field len
    kept     \* what was put in and not taken out, as a bag

listVars == <<listItems, tail, len, kept>>

less(a, b) == RankOf(a) < RankOf(b)

ListInit == listItems = <<>> /\ tail = 0 /\ len = 0 /\ kept = EmptyBag

\* The first position of v, 0 if there is none.
PositionOf(v) ==
    IF \E i \in DOMAIN listItems : listItems[i] = v
    THEN CHOOSE i \in DOMAIN listItems : listItems[i] = v /\ \A j \in 1..(i - 1) : listItems[j] # v
    ELSE 0

\* The list after the insertion of v: behind Tail, whatever follows it.
Appended(v) ==
    /\ listItems' = SubSeq(listItems, 1, tail) \o <<v>>
    /\ tail' = tail + 1
    /\ len' = len + 1

InsertedBefore(i, v) ==
    /\ listItems' = InsertAt(listItems, i, v)
    /\ tail' = tail + 1
    /\ len' = len + 1

InsertValue(v) == Appended(v) /\ kept' = BagAdd(kept, v)

\* InsertBefore with a node of the list.
InsertBefore(i, v) == InsertedBefore(i, v) /\ kept' = BagAdd(kept, v)

\* The removal of the node at i; Tail moves back when it was that node.
RemovedAt(i) ==
    /\ listItems' = RemoveAt(listItems, i)
    /\ len' = len - 1
    /\ tail' = IF i <= tail THEN tail - 1 ELSE tail

\* Removing a value that is not there changes nothing.
RemoveValue(v) ==
    /\ PositionOf(v) # 0
    /\ RemovedAt(PositionOf(v))
    /\ kept' = BagRemove(kept, v)

\* RemoveTail cuts the list before the node Tail points to.
RemoveTail ==
    /\ listItems # <<>>
    /\ listItems' = IF len = 1 THEN <<>> ELSE SubSeq(listItems, 1, tail - 1)
    /\ tail' = tail - 1
    /\ len' = len - 1
    /\ kept' = BagRemove(kept, listItems[tail])

-----------------------------------------------------------------------------
(* Sorting *)

\* Of two that are not in order either way the second list's comes first.
RECURSIVE merge(_, _)
merge(l, r) ==
    IF l = <<>> \/ r = <<>> THEN l \o r
    ELSE IF less(Head(l), Head(r)) THEN <<Head(l)>> \o merge(Tail(l), r)
    ELSE <<Head(r)>> \o merge(l, Tail(r))

\* Where slow ends when fast goes at twice its speed.
findMiddle(s) == (Len(s) + 1) \div 2

RECURSIVE mergeSortListNode(_)
mergeSortListNode(s) ==
    IF Len(s) < 2 THEN s
    ELSE LET m == findMiddle(s)
         IN merge(mergeSortListNode(SubSeq(s, 1, m)), mergeSortListNode(SubSeq(s, m + 1, Len(s))))

\* The first n values and the rest.
split(s, n) == IF Len(s) <= n THEN <<s, <<>>>> ELSE <<SubSeq(s, 1, n), SubSeq(s, n + 1, Len(s))>>

\* One pass: neighbouring runs of step values are merged.
RECURSIVE Pass(_, _)
Pass(s, step) ==
    IF s = <<>> THEN <<>>
    ELSE LET l == split(s, step)
             r == split(l[2], step)
         IN merge(l[1], r[1]) \o Pass(r[2], step)

\* Mutant of Passes: the last, incomplete doubling is left out.
RECURSIVE PassesShort(_, _)
PassesShort(s, step) ==
    IF 2 * step > Len(s) THEN s ELSE PassesShort(Pass(s, step), 2 * step)

RECURSIVE Passes(_, _)
Passes(s, step) == IF step >= Len(s) THEN s ELSE Passes(Pass(s, step), 2 * step)

sortLinkedListNodeIterative(s) == Passes(s, 1)

SortLinkedList ==
    /\ listItems' = mergeSortListNode(listItems)
    /\ tail' = Len(listItems')
    /\ UNCHANGED <<len, kept>>

SortLinkedListIterative ==
    /\ listItems' = sortLinkedListNodeIterative(listItems)
    /\ tail' = Len(listItems')
    /\ UNCHANGED <<len, kept>>

-----------------------------------------------------------------------------
(* The IP list *)

\* Where insertIPv4 and insertIPv6 stop: the loop looks at no last node.
Place(v) == {i \in 1..(Len(listItems) - 1) : less(v, listItems[i])}

\* AddIPString and AddCIDRString, after parsing.
AddIP(v) ==
    /\ kept' = BagAdd(kept, v)
    /\ IF len = 0 \/ Place(v) = {}
       THEN Appended(v)
       ELSE InsertedBefore(CHOOSE i \in Place(v) : \A j \in Place(v) : i <= j, v)

\* Contains looks at every node from Head on.
Found(v) == len # 0 /\ PositionOf(v) # 0

ListNext ==
    \/ /\ len < MaxLength
       /\ \E v \in Item : InsertValue(v) \/ AddIP(v) \/ \E i \in DOMAIN listItems : InsertBefore(i, v)
    \/ \E v \in Item : RemoveValue(v)
    \/ RemoveTail \/ SortLinkedList \/ SortLinkedListIterative

-----------------------------------------------------------------------------
(* Properties *)

\* Every operation that moves a node, the sorts included, leaves Tail on the
\* last node and len at the number of nodes: Insert links behind Tail and would
\* lose or disconnect nodes otherwise.
TailIsLast == tail = Len(listItems) /\ len = Len(listItems)

\* No operation loses or repeats an item that was put in and not taken out,
\* and an address that was added is found.
ItemsKept ==
    /\ \A v \in Item : CopiesIn(v, kept) = Len(SelectSeq(listItems, LAMBDA w : w = v))
    /\ \A v \in Item : Found(v) <=> BagIn(v, kept)

Ordered(s) == \A i \in 1..(Len(s) - 1) : ~less(s[i + 1], s[i])
Ranks(s) == [i \in DOMAIN s |-> RankOf(s[i])]

\* Both sorts put the list in order, and in the same order but for ties: for
\* every length, powers of two or not.
SortsInOrder ==
    [][SortLinkedList \/ SortLinkedListIterative =>
         /\ Ordered(listItems')
         /\ Ranks(mergeSortListNode(listItems)) = Ranks(sortLinkedListNodeIterative(listItems))]_listVars

\* The list keeps its listItems and its tail, and its sorts sort.
ListKept == [](TailIsLast /\ ItemsKept) /\ SortsInOrder
=============================================================================
