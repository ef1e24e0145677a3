----------------------------- MODULE BinaryHeap -----------------------------
(***************************************************************************)
(* The heap of pkg/util/heap, in an array: the scheduler's queue of tasks  *)
(* and the two queues of a cache bucket.                                   *)
(***************************************************************************)
EXTENDS Integers, Sequences, FiniteSets

CONSTANTS Pair, KeyOf(_), MaxPairs

\* The keys have an order (cmp.Ordered); the program's are times, in seconds.
ASSUME HeapAssumption == (\A e \in Pair : KeyOf(e) \in Int) /\ MaxPairs \in Nat

VARIABLES
    heapType,   \* "min" or "max"
    data,       \* the array
    taken,      \* what the last Pop returned, NoPair if nothing
    held        \* how often a pair was pushed and not taken

heapVars == <<heapType, data, taken, held>>

NoPair == 0

\* a must be above b.
Above(a, b) == IF heapType = "min" THEN KeyOf(a) < KeyOf(b) ELSE KeyOf(a) > KeyOf(b)

Swapped(d, i, j) == [d EXCEPT ![i] = d[j], ![j] = d[i]]

\* Indices begin at 1: the children of i are 2 * i and 2 * i + 1.
ParentOf(i) == i \div 2

\* A round of heapifyUp: the pair at s.at changes places with its parent, unless
\* the loop has ended.
Rise(s) ==
    LET p == ParentOf(s.at)
    IN IF s.at = 1 \/ ~Above(s.data[s.at], s.data[p]) THEN s
       ELSE [data |-> Swapped(s.data, s.at, p), at |-> p]

\* A round brings the pair one level up, so that Len(d) are more than enough.
heapifyUp(d, i) ==
    LET round[n \in 0..Len(d)] ==
            IF n = 0 THEN [data |-> d, at |-> i] ELSE Rise(round[n - 1])
    IN round[Len(d)].data

\* Mutant of Target: the right child is compared with its parent only.
TargetParent(d, i) ==
    IF 2 * i + 1 <= Len(d) /\ Above(d[2 * i + 1], d[i]) THEN 2 * i + 1
    ELSE IF 2 * i <= Len(d) /\ Above(d[2 * i], d[i]) THEN 2 * i
    ELSE i

\* The one of i and its children that must be uppermost.
Target(d, i) ==
    LET l == 2 * i
        t == IF l <= Len(d) /\ Above(d[l], d[i]) THEN l ELSE i
    IN IF l + 1 <= Len(d) /\ Above(d[l + 1], d[t]) THEN l + 1 ELSE t

\* A round of heapifyDown: the pair at s.at changes places with the child that
\* must be above it, if one must.
Sink(s) ==
    LET t == Target(s.data, s.at)
    IN IF t = s.at THEN s ELSE [data |-> Swapped(s.data, s.at, t), at |-> t]

heapifyDown(d, i) ==
    LET round[n \in 0..Len(d)] ==
            IF n = 0 THEN [data |-> d, at |-> i] ELSE Sink(round[n - 1])
    IN round[Len(d)].data

HeapInit ==
    /\ heapType \in {"min", "max"}
    /\ data = <<>> /\ taken = NoPair /\ held = [e \in Pair |-> 0]

Push(e) ==
    /\ data' = heapifyUp(Append(data, e), Len(data) + 1)
    /\ held' = [held EXCEPT ![e] = @ + 1]
    /\ UNCHANGED <<heapType, taken>>

\* The last pair takes the place of the first and moves down.
PoppedData ==
    LET n == Len(data)
    IN IF n = 1 THEN <<>>
       ELSE heapifyDown([SubSeq(data, 1, n - 1) EXCEPT ![1] = data[n]], 1)

PopTop ==
    /\ data # <<>>
    /\ taken' = data[1]
    /\ data' = PoppedData
    /\ held' = [held EXCEPT ![data[1]] = @ - 1]
    /\ UNCHANGED heapType

HeapNext ==
    \/ Len(data) < MaxPairs /\ \E e \in Pair : Push(e)
    \/ PopTop

HeapSpec == HeapInit /\ [][HeapNext]_heapVars

-----------------------------------------------------------------------------
(* Properties *)

CountOf(d, e) == Cardinality({j \in 1..Len(d) : d[j] = e})

\* The heap holds what was pushed and not taken: no queued task or cache
\* entry is lost or doubled by the swaps.
PairsKept == \A e \in Pair : held[e] = CountOf(data, e)

\* Pop returns a pair with a least key, or a greatest in a max heap, of all
\* that are held: the task that is due first.
PopsFirst == [][PopTop => \A e \in Pair : held[e] > 0 => ~Above(e, taken')]_heapVars

\* The heap is a queue by priority that loses nothing.
HeapKept == []PairsKept /\ PopsFirst
=============================================================================
