--------------------------- MODULE EventLoopProofs ---------------------------
(***************************************************************************)
(* Proofs about EventLoop for any jobs, any number of them and any number  *)
(* of calls of RunOnLoop: the loop's count of its jobs, and the order of   *)
(* the functions given to RunOnLoop.                                       *)
(***************************************************************************)
EXTENDS EventLoop, FiniteSetTheorems, SequenceTheorems, WellFoundedInduction, TLAPS

\* The loop's goroutine exists exactly while the loop is running; what runAux has
\* taken is done with before the loop selects again or ends.
LoopShape ==
    /\ running <=> pc # "off"
    /\ pc = "off" => ~background
    /\ pc \in {"off", "begin", "main", "select", "exit"} => batch = <<>>
    /\ pc \in {"select", "exit"} => ~first
    /\ pc = "job" => /\ cur \in Job /\ status[cur] # "new"
                     /\ cur \notin Immediate => batch = <<>> /\ ~first

\* The request's operation under way is about a job not created yet, or about one
\* that was.
HandlerShape ==
    handler # NoOp => /\ handler.op \in {"set", "clear"} /\ handler.job \in Job
                      /\ (handler.op = "set") <=> (status[handler.job] = "new")

Created == {j \in Job : status[j] # "new"}

Shape == TypeOK /\ LoopShape /\ HandlerShape

-----------------------------------------------------------------------------
(* Entries of auxJobs *)

LEMMA AuxEntry ==
  ASSUME NEW e \in Aux
  PROVE  /\ e = <<e[1], e[2]>>
         /\ e[1] \in {"call", "count", "clear", "immediate"}
         /\ e[1] = "call" => e[2] \in 1..MaxCalls
         /\ e[1] \in {"clear", "immediate"} => e[2] \in Job
         /\ e[1] = "immediate" => e[2] \in Immediate
  BY DEF Aux, Job

LEMMA AuxTypes ==
  /\ \A n \in 1..MaxCalls : <<"call", n>> \in Aux
  /\ <<"count", None>> \in Aux
  /\ \A j \in Timeout \cup Interval : <<"clear", j>> \in Aux
  /\ \A j \in Immediate : <<"immediate", j>> \in Aux
  BY DEF Aux

LEMMA HeadOfBatch ==
  ASSUME TypeOK, batch # <<>>
  PROVE  Head(batch) \in Aux /\ Tail(batch) \in Seq(Aux)
  BY HeadTailProperties DEF TypeOK

LEMMA JobKinds ==
  /\ Job = Timeout \cup Interval \cup Immediate /\ None \notin Job
  /\ \A j \in Immediate : j \notin Timeout \cup Interval
  BY JobAssumption DEF Job

LEMMA AddAuxType ==
  ASSUME TypeOK, NEW e \in Aux, addAuxJob(e)
  PROVE  (auxJobs \in Seq(Aux))' /\ (wakeupChan \in BOOLEAN)'
  BY AppendProperties DEF TypeOK, addAuxJob

LEMMA CreateType ==
  ASSUME TypeOK, NEW j \in Job, Create(j)
  PROVE  /\ (auxJobs \in Seq(Aux))' /\ (wakeupChan \in BOOLEAN)'
         /\ (status \in [Job -> {"new", "live", "cancelled"}])'
         /\ (thread \in [Job -> {"none", "armed", "sending", "ended"}])'
         /\ status' = [status EXCEPT ![j] = "live"]
  <1>1. status' = [status EXCEPT ![j] = "live"]
    BY DEF Create
  <1>2. CASE j \in Immediate
    BY <1>1, <1>2, AddAuxType, AuxTypes DEF Create, TypeOK
  <1>3. CASE j \notin Immediate
    BY <1>1, <1>3 DEF Create, TypeOK
  <1> QED
    BY <1>2, <1>3

LEMMA CancelType ==
  ASSUME TypeOK, NEW j \in Job, Cancel(j)
  PROVE  /\ (status \in [Job -> {"new", "live", "cancelled"}])'
         /\ (thread \in [Job -> {"none", "armed", "sending", "ended"}])'
         /\ status' = [status EXCEPT ![j] = "cancelled"]
  BY DEF Cancel, TypeOK

-----------------------------------------------------------------------------
(* The types and the shape of the loop *)

LEMMA StartShape == ASSUME Shape, Start \/ Run PROVE Shape'
  BY DEF Shape, TypeOK, LoopShape, HandlerShape, Start, Run, setRunning, jobVars

LEMMA StopShape == ASSUME Shape, StopCall \/ StopReturn \/ StopNoWait PROVE Shape'
  <1>a. ASSUME StopCall PROVE TypeOK'
    BY <1>a DEF Shape, TypeOK, StopCall, loopVars, jobVars
  <1>b. ASSUME StopReturn PROVE TypeOK'
    BY <1>b DEF Shape, TypeOK, StopReturn, loopVars, jobVars
  <1>c. ASSUME StopNoWait PROVE TypeOK'
    BY <1>c DEF Shape, TypeOK, StopNoWait, loopVars, jobVars
  <1>1. TypeOK'
    BY <1>a, <1>b, <1>c
  <1>2. LoopShape' /\ HandlerShape'
    BY DEF Shape, LoopShape, HandlerShape, StopCall, StopReturn, StopNoWait, loopVars, jobVars
  <1> QED
    BY <1>1, <1>2 DEF Shape

LEMMA RunOnLoopShape == ASSUME Shape, RunOnLoop PROVE Shape'
  <1>1. calls + 1 \in 1..MaxCalls
    BY JobAssumption DEF Shape, TypeOK, RunOnLoop
  <1>2. TypeOK'
    BY <1>1, AddAuxType, AuxTypes DEF Shape, TypeOK, RunOnLoop, loopVars, jobVars
  <1> QED
    BY <1>2 DEF Shape, LoopShape, HandlerShape, RunOnLoop, loopVars, jobVars

LEMMA SetTimerShape == ASSUME Shape, NEW j \in Timeout \cup Interval, SetTimer(j) PROVE Shape'
  <1>1. j \in Job /\ status[j] = "new" /\ handler.job # j
    BY DEF SetTimer, Fresh, Job
  <1>2. TypeOK'
    BY <1>1 DEF Shape, TypeOK, SetTimer, loopVars
  <1> QED
    BY <1>1, <1>2 DEF Shape, TypeOK, LoopShape, HandlerShape, SetTimer, loopVars

LEMMA TimerCountsShape == ASSUME Shape, SetTimerCounts PROVE Shape'
  <1>1. (auxJobs \in Seq(Aux))' /\ (wakeupChan \in BOOLEAN)'
    BY AddAuxType, AuxTypes DEF Shape, SetTimerCounts
  <1>2. setting' \in Nat
    BY DEF Shape, TypeOK, SetTimerCounts
  <1>3. TypeOK'
    BY <1>1, <1>2 DEF Shape, TypeOK, SetTimerCounts, loopVars, jobVars
  <1> QED
    BY <1>3 DEF Shape, LoopShape, HandlerShape, SetTimerCounts, loopVars, jobVars

LEMMA ClearTimerShape == ASSUME Shape, NEW j \in Timeout \cup Interval, ClearTimer(j) PROVE Shape'
  <1>1. j \in Job
    BY DEF Job
  <1>a. (auxJobs \in Seq(Aux))' /\ (wakeupChan \in BOOLEAN)'
    BY <1>1, AddAuxType, AuxTypes DEF Shape, ClearTimer
  <1>2. TypeOK'
    BY <1>1, <1>a DEF Shape, TypeOK, ClearTimer, loopVars, jobVars
  <1> QED
    BY <1>1, <1>2 DEF Shape, LoopShape, HandlerShape, ClearTimer, loopVars, jobVars

LEMMA HandlerBeginShape ==
  ASSUME Shape, NEW j \in Job, NEW op \in {"set", "clear"}, HandlerBegin(op, j)
  PROVE  Shape'
  BY DEF Shape, TypeOK, LoopShape, HandlerShape, HandlerBegin, Fresh, loopVars, jobVars

LEMMA HandlerEndShape == ASSUME Shape, HandlerEnd PROVE Shape'
  <1> DEFINE j == handler.job
  <1>1. j \in Job /\ handler.op \in {"set", "clear"} /\ handler # NoOp
    BY DEF Shape, HandlerShape, HandlerEnd
  <1>2. CASE handler.op = "set"
    <2>1. Create(j)
      BY <1>2 DEF HandlerEnd
    <2>2. status' = [status EXCEPT ![j] = "live"]
      BY <1>1, <2>1, CreateType DEF Shape
    <2>3. TypeOK'
      BY <1>1, <2>1, CreateType DEF Shape, TypeOK, HandlerEnd, loopVars, NoOp
    <2> QED
      BY <1>1, <2>2, <2>3 DEF Shape, TypeOK, LoopShape, HandlerShape, HandlerEnd, loopVars
  <1>3. CASE handler.op = "clear"
    <2>1. Cancel(j) /\ UNCHANGED <<auxJobs, wakeupChan>>
      BY <1>3 DEF HandlerEnd
    <2>2. status' = [status EXCEPT ![j] = "cancelled"]
      BY <1>1, <2>1, CancelType DEF Shape
    <2>3. TypeOK'
      BY <1>1, <2>1, CancelType DEF Shape, TypeOK, HandlerEnd, loopVars, NoOp
    <2> QED
      BY <1>1, <2>2, <2>3 DEF Shape, TypeOK, LoopShape, HandlerShape, HandlerEnd, loopVars
  <1> QED
    BY <1>1, <1>2, <1>3

LEMMA ThreadShape ==
  ASSUME Shape, NEW j \in Timeout \cup Interval, Fire(j) \/ IntervalStops(j)
  PROVE  Shape'
  BY DEF Shape, TypeOK, LoopShape, HandlerShape, Fire, IntervalStops, loopVars, Job

LEMMA TakeShape == ASSUME Shape, Begin \/ Wake PROVE Shape'
  BY ZenonT(60) DEF Shape, TypeOK, LoopShape, HandlerShape, Begin, Wake, RunAuxTake, jobVars

LEMMA EntryShape == ASSUME Shape, RunAuxEntry PROVE Shape'
  <1> DEFINE j == Head(batch)[2]
  <1>1. Head(batch) \in Aux /\ batch' \in Seq(Aux) /\ batch' = Tail(batch)
    BY HeadOfBatch DEF Shape, RunAuxEntry
  <1>2. (Head(batch)[1] = "clear" => j \in Job) /\ pc = "aux"
    BY <1>1, AuxEntry DEF RunAuxEntry
  <1>3. jobCount' \in Int
    BY DEF Shape, TypeOK, RunAuxEntry
  <1>4. CASE Head(batch)[1] = "clear" /\ status[j] = "live"
    <2>1. Cancel(j)
      BY <1>4 DEF RunAuxEntry
    <2>2. status' = [status EXCEPT ![j] = "cancelled"]
      BY <1>2, <1>4, <2>1, CancelType DEF Shape
    <2>3. TypeOK'
      BY <1>1, <1>2, <1>3, <1>4, <2>1, CancelType DEF Shape, TypeOK, RunAuxEntry
    <2> QED
      BY <1>2, <1>4, <2>2, <2>3 DEF Shape, TypeOK, LoopShape, HandlerShape, RunAuxEntry
  <1>5. CASE ~(Head(batch)[1] = "clear" /\ status[j] = "live")
    <2>1. UNCHANGED jobVars
      BY <1>5 DEF RunAuxEntry
    <2>2. TypeOK'
      BY <1>1, <1>2, <1>3, <2>1 DEF Shape, TypeOK, RunAuxEntry, jobVars
    <2> QED
      BY <1>2, <2>1, <2>2 DEF Shape, LoopShape, HandlerShape, RunAuxEntry, jobVars
  <1> QED
    BY <1>4, <1>5

LEMMA AuxCallShape == ASSUME Shape, RunAuxCall PROVE Shape'
  <1>1. Head(batch) \in Aux /\ batch' \in Seq(Aux) /\ batch' = Tail(batch)
    BY HeadOfBatch DEF Shape, RunAuxCall
  <1>2. ran' \in 0..MaxCalls
    BY <1>1, AuxEntry DEF RunAuxCall
  <1> QED
    BY <1>1, <1>2 DEF Shape, TypeOK, LoopShape, HandlerShape, RunAuxCall, jobVars

LEMMA ImmediateShape == ASSUME Shape, RunAuxImmediate PROVE Shape'
  <1>1. Head(batch) \in Aux /\ batch' \in Seq(Aux) /\ batch' = Tail(batch)
    BY HeadOfBatch DEF Shape, RunAuxImmediate
  <1>2. cur' \in Job /\ cur' \in Immediate
    BY <1>1, AuxEntry DEF RunAuxImmediate
  <1>4. TypeOK'
    BY <1>1, <1>2 DEF Shape, TypeOK, RunAuxImmediate, jobVars
  <1>5. LoopShape' /\ HandlerShape'
    BY <1>1, <1>2 DEF Shape, LoopShape, HandlerShape, RunAuxImmediate, jobVars
  <1> QED
    BY <1>4, <1>5 DEF Shape

LEMMA AuxEndShape == ASSUME Shape, RunAuxEnd PROVE Shape'
  <1>1. jobCount' \in Int /\ (pc \in {"select", "exit"})' /\ first' = FALSE
    BY DEF Shape, TypeOK, RunAuxEnd, LoopTest
  <1>2. TypeOK'
    BY <1>1, ZenonT(60) DEF Shape, TypeOK, RunAuxEnd, jobVars
  <1>3. LoopShape' /\ HandlerShape'
    BY <1>1 DEF Shape, LoopShape, HandlerShape, RunAuxEnd, jobVars
  <1> QED
    BY <1>2, <1>3 DEF Shape

LEMMA ReceiveShape == ASSUME Shape, NEW j \in Timeout \cup Interval, Receive(j) PROVE Shape'
  <1>1. j \in Job
    BY DEF Job
  <1> QED
    BY <1>1 DEF Shape, TypeOK, LoopShape, HandlerShape, Receive, LoopTest

LEMMA JsShape == ASSUME Shape, NEW j \in Job, JsSet(j) \/ JsClear(j) PROVE Shape'
  <1>1. CASE JsSet(j)
    <2>1. status[j] = "new" /\ handler.job # j /\ status' = [status EXCEPT ![j] = "live"]
      BY <1>1, CreateType DEF Shape, JsSet, Fresh
    <2>2. TypeOK'
      BY <1>1, CreateType DEF Shape, TypeOK, JsSet, loopVars
    <2> QED
      BY <1>1, <2>1, <2>2 DEF Shape, TypeOK, LoopShape, HandlerShape, JsSet, loopVars
  <1>2. CASE JsClear(j)
    <2>1. status' = [status EXCEPT ![j] = "cancelled"] /\ status[j] = "live"
      BY <1>2, CancelType DEF Shape, JsClear
    <2>2. TypeOK'
      BY <1>2, CancelType DEF Shape, TypeOK, JsClear, loopVars
    <2> QED
      BY <1>2, <2>1, <2>2 DEF Shape, TypeOK, LoopShape, HandlerShape, JsClear, loopVars
  <1> QED
    BY <1>1, <1>2

LEMMA FinishShape == ASSUME Shape, Finish PROVE Shape'
  <1>1. cur \in Job /\ pc = "job" /\ status[cur] # "new"
    BY DEF Shape, LoopShape, Finish
  <1>n. jobCount' \in Int /\ (miscounted \in BOOLEAN)' /\ (pc \in {"aux", "select", "exit"})'
        /\ (status \in [Job -> {"new", "live", "cancelled"}])'
    <2>1. CASE cur \in Interval
      BY <2>1 DEF Shape, TypeOK, Finish, LoopTest
    <2>2. CASE cur \notin Interval
      BY <1>1, <2>2 DEF Shape, TypeOK, Finish, LoopTest
    <2> QED
      BY <2>1, <2>2
  <1>2. TypeOK'
    BY <1>1, <1>n DEF Shape, TypeOK, Finish
  <1> QED
    BY <1>1, <1>2 DEF Shape, TypeOK, LoopShape, HandlerShape, Finish, LoopTest

LEMMA ReturnShape == ASSUME Shape, MainReturns \/ Exit PROVE Shape'
  <1>1. CASE MainReturns
    BY <1>1 DEF Shape, TypeOK, LoopShape, HandlerShape, MainReturns, jobVars
  <1>2. CASE Exit
    <2>b. background' \in BOOLEAN /\ running' \in BOOLEAN
      BY <1>2 DEF Exit
    <2>n. jobCount' \in Int
      BY <1>2 DEF Exit, Shape, TypeOK
    <2>1. TypeOK'
      BY <1>2, <2>b, <2>n DEF Shape, TypeOK, Exit, jobVars
    <2> QED
      BY <1>2, <2>1 DEF Shape, LoopShape, HandlerShape, Exit, jobVars
  <1> QED
    BY <1>1, <1>2

-----------------------------------------------------------------------------
(* Counting *)

LEMMA CountFinite ==
  ASSUME NEW s \in Seq(Aux)
  PROVE  IsFiniteSet(ToCount(s)) /\ Cardinality(ToCount(s)) \in Nat
  <1>1. ToCount(s) \subseteq 1..Len(s) /\ Len(s) \in Nat
    BY DEF ToCount
  <1>2. IsFiniteSet(1..Len(s))
    BY <1>1, FS_Interval
  <1> QED
    BY <1>1, <1>2, FS_Subset, FS_CardinalityType

LEMMA CountEmpty == ToCount(<<>>) = {} /\ Cardinality(ToCount(<<>>)) = 0
  <1>1. ToCount(<<>>) = {}
    BY DEF ToCount
  <1> QED
    BY <1>1, FS_EmptySet

LEMMA CountAppend ==
  ASSUME NEW s \in Seq(Aux), NEW e \in Aux
  PROVE  /\ Cardinality(ToCount(Append(s, e)))
              = Cardinality(ToCount(s)) + (IF e[1] = "count" THEN 1 ELSE 0)
         /\ ToCount(s) # {} \/ e[1] = "count" => ToCount(Append(s, e)) # {}
  <1>1. /\ Len(Append(s, e)) = Len(s) + 1 /\ Len(s) \in Nat
        /\ \A i \in 1..Len(s) : Append(s, e)[i] = s[i]
        /\ Append(s, e)[Len(s) + 1] = e
    BY AppendProperties
  <1>2. ToCount(Append(s, e)) = {i \in 1..(Len(s) + 1) : Append(s, e)[i][1] = "count"}
    BY <1>1, AppendProperties DEF ToCount
  <1>3. ToCount(s) = {i \in 1..Len(s) : s[i][1] = "count"}
    BY DEF ToCount
  <1>4. CASE e[1] = "count"
    <2>1. ToCount(Append(s, e)) = ToCount(s) \cup {Len(s) + 1} /\ Len(s) + 1 \notin ToCount(s)
      BY <1>1, <1>2, <1>3, <1>4
    <2> QED
      BY <1>4, <2>1, CountFinite, FS_AddElement
  <1>5. CASE e[1] # "count"
    <2>1. ToCount(Append(s, e)) = ToCount(s)
      BY <1>1, <1>2, <1>3, <1>5
    <2> QED
      BY <1>5, <2>1, CountFinite
  <1> QED
    BY <1>4, <1>5

LEMMA CountTail ==
  ASSUME NEW s \in Seq(Aux), s # <<>>
  PROVE  Cardinality(ToCount(s))
           = Cardinality(ToCount(Tail(s))) + (IF Head(s)[1] = "count" THEN 1 ELSE 0)
  <1> DEFINE A == ToCount(s) \ {1}
             B == ToCount(Tail(s))
             f == [i \in A |-> i - 1]
  <1>1. /\ Tail(s) \in Seq(Aux) /\ Len(s) \in Nat \ {0} /\ Len(Tail(s)) = Len(s) - 1
        /\ \A i \in 1..Len(Tail(s)) : Tail(s)[i] = s[i + 1]
        /\ Head(s) = s[1]
    BY HeadTailProperties, LenProperties, EmptySeq
  <1>2. ToCount(s) = {i \in 1..Len(s) : s[i][1] = "count"}
    BY DEF ToCount
  <1>3. B = {i \in 1..(Len(s) - 1) : s[i + 1][1] = "count"}
    BY <1>1 DEF ToCount
  <1>4. f \in Bijection(A, B)
    <2>1. \A i \in A : f[i] \in B
      BY <1>1, <1>2, <1>3
    <2>2. \A a, b \in A : f[a] = f[b] => a = b
      BY <1>2
    <2>3. \A b \in B : b + 1 \in A /\ f[b + 1] = b
      BY <1>1, <1>2, <1>3
    <2> HIDE DEF A, B
    <2>4. f \in [A -> B]
      BY <2>1
    <2>5. \A b \in B : \E a \in A : f[a] = b
      BY <2>3
    <2> HIDE DEF f
    <2> QED
      BY <2>2, <2>4, <2>5 DEF Bijection, Injection, Surjection, IsInjective
  <1>5. IsFiniteSet(ToCount(s)) /\ IsFiniteSet(A)
    BY CountFinite, FS_RemoveElement
  <1>6. Cardinality(A) = Cardinality(B)
    <2> HIDE DEF A, B, f
    <2>1. ExistsBijection(A, B)
      BY <1>4 DEF ExistsBijection
    <2> QED
      BY <1>5, <2>1, FS_Bijection
  <1>7. Cardinality(ToCount(s)) = Cardinality(A) + (IF 1 \in ToCount(s) THEN 1 ELSE 0)
    <2>1. Cardinality(A) = IF 1 \in ToCount(s) THEN Cardinality(ToCount(s)) - 1
                                               ELSE Cardinality(ToCount(s))
      BY <1>5, FS_RemoveElement
    <2>2. Cardinality(ToCount(s)) \in Nat
      BY CountFinite
    <2> HIDE DEF A
    <2> QED
      BY <2>1, <2>2
  <1>8. 1 \in ToCount(s) <=> Head(s)[1] = "count"
    BY <1>1, <1>2
  <1> QED
    BY <1>6, <1>7, <1>8

\* A job is created, and it is one more live job.
LEMMA LiveAdd ==
  ASSUME TypeOK, IsFiniteSet(Created), NEW j \in Job, status[j] = "new",
         status' = [status EXCEPT ![j] = "live"]
  PROVE  IsFiniteSet(Created)' /\ Cardinality(Live)' = Cardinality(Live) + 1 /\ Cardinality(Live) \in Nat
  <1>1. Created' = Created \cup {j} /\ Live' = Live \cup {j} /\ j \notin Live /\ Live \subseteq Created
    BY DEF TypeOK, Created, Live
  <1>2. IsFiniteSet(Live) /\ IsFiniteSet(Created')
    BY <1>1, FS_Subset, FS_AddElement
  <1> QED
    BY <1>1, <1>2, FS_AddElement, FS_CardinalityType

\* A job is cancelled, and it is one live job less unless it was cancelled before.
LEMMA LiveRemove ==
  ASSUME TypeOK, IsFiniteSet(Created), NEW j \in Job, status[j] # "new",
         status' = [status EXCEPT ![j] = "cancelled"]
  PROVE  /\ IsFiniteSet(Created)' /\ Cardinality(Live) \in Nat
         /\ Cardinality(Live)' = Cardinality(Live) - (IF status[j] = "live" THEN 1 ELSE 0)
  <1>1. Created' = Created /\ Live' = Live \ {j} /\ Live \subseteq Created /\ (j \in Live <=> status[j] = "live")
    BY DEF TypeOK, Created, Live
  <1>2. IsFiniteSet(Live)
    BY <1>1, FS_Subset
  <1>3. Cardinality(Live') = IF j \in Live THEN Cardinality(Live) - 1 ELSE Cardinality(Live)
    BY <1>1, <1>2, FS_RemoveElement
  <1>4. Cardinality(Live) \in Nat
    BY <1>2, FS_CardinalityType
  <1> QED
    BY <1>1, <1>3, <1>4

LEMMA LiveSame ==
  ASSUME IsFiniteSet(Created), UNCHANGED status
  PROVE  IsFiniteSet(Created)' /\ Live' = Live /\ Cardinality(Live) \in Nat
  <1>1. Created' = Created /\ Live' = Live /\ Live \subseteq Created
    BY DEF Created, Live
  <1> QED
    BY <1>1, FS_Subset, FS_CardinalityType

-----------------------------------------------------------------------------
(* The count of the jobs *)

\* What the proof carries beside the shape: finitely many jobs were created, and
\* the two properties of jobCount.
Counted == IsFiniteSet(Created) /\ CountsLiveJobs /\ RunsUntilStopped

\* The loop that leaves because its count is used up, and counted right, has no
\* job left and is not in the background.
LEMMA LeavesByCount ==
  ASSUME Shape', IsFiniteSet(Created)', CountsLiveJobs',
         (pc = "exit" /\ canRun = 1 => jobCount <= 0)'
  PROVE  RunsUntilStopped'
  <1> SUFFICES ASSUME pc' = "exit", canRun' = 1, ~miscounted', (ToCount(auxJobs) = {})',
                            ~(setting > 0)'
               PROVE  (~background /\ Live = {})'
    BY DEF RunsUntilStopped
  <1>1. /\ jobCount' <= 0 /\ jobCount' \in Int /\ background' \in BOOLEAN
        /\ batch' = <<>> /\ ~first'
    BY DEF Shape, TypeOK, LoopShape
  <1>2. Cardinality(ToCount(batch)') = 0 /\ Cardinality(ToCount(auxJobs)') = 0 /\ setting' = 0
    BY <1>1, CountEmpty, FS_EmptySet DEF Shape, TypeOK
  <1>3. jobCount' = Cardinality(Live') + (IF background' THEN 1 ELSE 0)
    BY <1>1, <1>2 DEF CountsLiveJobs, SelfCounted
  <1>4. IsFiniteSet(Live')
    <2>1. Live' \subseteq Created'
      BY DEF Live, Created
    <2> QED
      BY <2>1, FS_Subset
  <1>5. Cardinality(Live') \in Nat
    BY <1>4, FS_CardinalityType
  <1>6. ~background' /\ Cardinality(Live') = 0
    BY <1>1, <1>3, <1>5
  <1> QED
    BY <1>4, <1>6, FS_EmptySet

LEMMA StartCounts == ASSUME Shape, Counted, Start \/ Run PROVE Counted'
  <1>1. IsFiniteSet(Created)' /\ Live' = Live
    BY LiveSame DEF Counted, Start, Run, jobVars
  <1>2. ~SelfCounted /\ ~SelfCounted'
    BY DEF Shape, LoopShape, SelfCounted, Start, Run, setRunning
  <1>3. CountsLiveJobs'
    BY <1>1, <1>2 DEF Counted, CountsLiveJobs, Start, Run
  <1>4. RunsUntilStopped'
    BY DEF RunsUntilStopped, Start, Run
  <1> QED
    BY <1>1, <1>3, <1>4 DEF Counted

\* Steps that write neither the count nor what it counts.
LEMMA QuietCounts ==
  ASSUME Shape, Counted,
         UNCHANGED <<pc, batch, first, background, jobCount, auxJobs, status, setting, miscounted>>,
         canRun' = 1 => canRun = 1
  PROVE  Counted'
  <1>1. IsFiniteSet(Created)' /\ Live' = Live
    BY LiveSame DEF Counted
  <1>2. CountsLiveJobs'
    BY <1>1 DEF Counted, CountsLiveJobs, SelfCounted
  <1>3. RunsUntilStopped'
    BY <1>1 DEF Counted, RunsUntilStopped
  <1> QED
    BY <1>1, <1>2, <1>3 DEF Counted

\* An entry that is no count is added.
LEMMA AddCounts ==
  ASSUME Shape, Counted, NEW e \in Aux, e[1] # "count", addAuxJob(e),
         UNCHANGED <<loopVars, jobCount, canRun, status, setting, miscounted>>
  PROVE  Counted'
  <1>1. IsFiniteSet(Created)' /\ Live' = Live
    BY LiveSame DEF Counted
  <1>2. /\ Cardinality(ToCount(auxJobs')) = Cardinality(ToCount(auxJobs))
        /\ ToCount(auxJobs) # {} => ToCount(auxJobs') # {}
    <2>1. auxJobs \in Seq(Aux) /\ auxJobs' = Append(auxJobs, e)
      BY DEF Shape, TypeOK, addAuxJob
    <2>2. Cardinality(ToCount(auxJobs)) \in Nat
      BY <2>1, CountFinite
    <2> QED
      BY <2>1, <2>2, CountAppend
  <1>3. CountsLiveJobs'
    BY <1>1, <1>2 DEF Counted, CountsLiveJobs, SelfCounted, loopVars
  <1>4. RunsUntilStopped'
    BY <1>1, <1>2 DEF Counted, RunsUntilStopped, loopVars
  <1> QED
    BY <1>1, <1>3, <1>4 DEF Counted

LEMMA SetTimerKeepsCount ==
  ASSUME Shape, Counted, NEW j \in Timeout \cup Interval, SetTimer(j)
  PROVE  Counted'
  <1>1. IsFiniteSet(Created)' /\ Cardinality(Live)' = Cardinality(Live) + 1 /\ Cardinality(Live) \in Nat
    BY LiveAdd, JobKinds DEF Shape, Counted, SetTimer, Fresh
  <1>2. /\ Cardinality(ToCount(auxJobs)) \in Nat /\ Cardinality(ToCount(batch)) \in Nat
        /\ jobCount \in Int /\ setting \in Nat
    BY CountFinite DEF Shape, TypeOK
  <1>3. /\ setting' = setting + 1
        /\ UNCHANGED <<batch, auxJobs, jobCount, first, background, miscounted>>
    BY DEF SetTimer, loopVars
  <1>4. CountsLiveJobs'
    BY <1>1, <1>2, <1>3 DEF Counted, CountsLiveJobs, SelfCounted
  <1>5. RunsUntilStopped'
    BY <1>2, <1>3 DEF RunsUntilStopped
  <1> QED
    BY <1>1, <1>4, <1>5 DEF Counted

LEMMA TimerCountsKeepsCount == ASSUME Shape, Counted, SetTimerCounts PROVE Counted'
  <1>1. IsFiniteSet(Created)' /\ Live' = Live /\ Cardinality(Live) \in Nat
    BY LiveSame DEF Counted, SetTimerCounts, jobVars
  <1>2. auxJobs \in Seq(Aux) /\ batch \in Seq(Aux) /\ <<"count", None>> \in Aux
        /\ auxJobs' = Append(auxJobs, <<"count", None>>) /\ <<"count", None>>[1] = "count"
    BY AuxTypes DEF Shape, TypeOK, SetTimerCounts, addAuxJob
  <1>3. /\ Cardinality(ToCount(auxJobs)) \in Nat /\ Cardinality(ToCount(batch)) \in Nat
        /\ jobCount \in Int /\ setting \in Nat
    BY CountFinite DEF Shape, TypeOK
  <1>4. /\ Cardinality(ToCount(auxJobs')) = Cardinality(ToCount(auxJobs)) + 1
        /\ ToCount(auxJobs') # {}
    BY <1>2, CountAppend
  <1>5. /\ setting' = setting - 1
        /\ UNCHANGED <<batch, jobCount, first, background, miscounted>>
    BY DEF SetTimerCounts, loopVars
  <1>6. CountsLiveJobs'
    BY <1>1, <1>3, <1>4, <1>5 DEF Counted, CountsLiveJobs, SelfCounted
  <1>7. RunsUntilStopped'
    BY <1>4 DEF RunsUntilStopped
  <1> QED
    BY <1>1, <1>6, <1>7 DEF Counted

LEMMA CreateCounts ==
  ASSUME Shape, IsFiniteSet(Created), NEW j \in Job, status[j] = "new", Create(j)
  PROVE  /\ IsFiniteSet(Created)' /\ Cardinality(Live) \in Nat
         /\ Cardinality(Live)' = Cardinality(Live) + 1
         /\ Cardinality(ToCount(auxJobs)') = Cardinality(ToCount(auxJobs))
  <1>1. IsFiniteSet(Created)' /\ Cardinality(Live)' = Cardinality(Live) + 1 /\ Cardinality(Live) \in Nat
    BY LiveAdd DEF Shape, Create
  <1>2. auxJobs \in Seq(Aux)
    BY DEF Shape, TypeOK
  <1>3. CASE j \in Immediate
    <2>1. /\ auxJobs' = Append(auxJobs, <<"immediate", j>>) /\ <<"immediate", j>> \in Aux
          /\ <<"immediate", j>>[1] # "count"
      BY <1>3, AuxTypes DEF Create, addAuxJob
    <2>2. Cardinality(ToCount(auxJobs)) \in Nat
      BY <1>2, CountFinite
    <2> QED
      BY <1>1, <1>2, <2>1, <2>2, CountAppend
  <1>4. CASE j \notin Immediate
    BY <1>1, <1>4 DEF Create
  <1> QED
    BY <1>3, <1>4

LEMMA HandlerEndCounts == ASSUME Shape, Counted, HandlerEnd PROVE Counted'
  <1> DEFINE j == handler.job
             raced == jobCount # handler.read \/ pc \notin {"begin", "select"}
  <1>1. j \in Job /\ handler.op \in {"set", "clear"} /\ ((handler.op = "set") <=> (status[j] = "new"))
    BY DEF Shape, HandlerShape, HandlerEnd
  <1>a. miscounted' = (miscounted \/ raced \/ (handler.op = "clear" /\ status[j] # "live"))
    BY DEF HandlerEnd
  <1>2. /\ miscounted \/ raced \/ (handler.op = "clear" /\ status[j] # "live") => miscounted'
        /\ ~raced => jobCount' = jobCount + (IF handler.op = "set" THEN 1 ELSE -1)
        /\ UNCHANGED <<pc, batch, first, background, setting>>
    BY <1>a DEF HandlerEnd, loopVars
  <1>3. RunsUntilStopped'
    BY <1>2 DEF RunsUntilStopped
  <1>4. /\ jobCount \in Int /\ setting \in Nat /\ Cardinality(ToCount(batch)) \in Nat
        /\ Cardinality(ToCount(auxJobs)) \in Nat
    BY CountFinite DEF Shape, TypeOK
  <1> HIDE DEF raced
  <1>5. CASE handler.op = "set"
    <2>1. Create(j) /\ status[j] = "new"
      BY <1>1, <1>5 DEF HandlerEnd
    <2>2. /\ IsFiniteSet(Created)' /\ Cardinality(Live) \in Nat
          /\ Cardinality(Live)' = Cardinality(Live) + 1
          /\ Cardinality(ToCount(auxJobs)') = Cardinality(ToCount(auxJobs))
      BY <1>1, <2>1, CreateCounts DEF Counted
    <2>3. CountsLiveJobs'
      BY <1>2, <1>4, <1>5, <2>2 DEF Counted, CountsLiveJobs, SelfCounted
    <2> QED
      BY <1>3, <2>2, <2>3 DEF Counted
  <1>6. CASE handler.op = "clear"
    <2>1. Cancel(j) /\ status[j] # "new" /\ auxJobs' = auxJobs
      BY <1>1, <1>6 DEF HandlerEnd
    <2>2. /\ IsFiniteSet(Created)' /\ Cardinality(Live) \in Nat
          /\ Cardinality(Live)' = Cardinality(Live) - (IF status[j] = "live" THEN 1 ELSE 0)
      BY <1>1, <2>1, LiveRemove DEF Shape, Counted, Cancel
    <2>3. CountsLiveJobs'
      <3> SUFFICES ASSUME ~miscounted' PROVE CountsLiveJobs'
        BY DEF CountsLiveJobs
      <3>1. /\ ~miscounted /\ jobCount' = jobCount - 1
            /\ Cardinality(Live)' = Cardinality(Live) - 1
        BY <1>2, <1>4, <1>6, <2>2
      <3>2. SelfCounted' = SelfCounted /\ batch' = batch /\ setting' = setting
        BY <1>2 DEF SelfCounted
      <3> QED
        BY <1>4, <2>1, <2>2, <3>1, <3>2 DEF Counted, CountsLiveJobs
    <2> QED
      BY <1>3, <2>2, <2>3 DEF Counted
  <1> QED
    BY <1>1, <1>5, <1>6

LEMMA JsCounts == ASSUME Shape, Counted, NEW j \in Job, JsSet(j) \/ JsClear(j) PROVE Counted'
  <1>1. /\ jobCount \in Int /\ setting \in Nat /\ Cardinality(ToCount(batch)) \in Nat
        /\ Cardinality(ToCount(auxJobs)) \in Nat
    BY CountFinite DEF Shape, TypeOK
  <1>2. pc' # "exit" /\ UNCHANGED <<batch, first, background, setting, miscounted>>
    BY DEF JsSet, JsClear, InLoop, loopVars
  <1>3. RunsUntilStopped'
    BY <1>2 DEF RunsUntilStopped
  <1>4. CASE JsSet(j)
    <2>1. /\ IsFiniteSet(Created)' /\ Cardinality(Live) \in Nat
          /\ Cardinality(Live)' = Cardinality(Live) + 1
          /\ Cardinality(ToCount(auxJobs)') = Cardinality(ToCount(auxJobs))
      BY <1>4, CreateCounts DEF Counted, JsSet, Fresh
    <2>2. CountsLiveJobs'
      BY <1>1, <1>2, <1>4, <2>1 DEF Counted, CountsLiveJobs, SelfCounted, JsSet
    <2> QED
      BY <1>3, <2>1, <2>2 DEF Counted
  <1>5. CASE JsClear(j)
    <2>1. /\ IsFiniteSet(Created)' /\ Cardinality(Live) \in Nat
          /\ Cardinality(Live)' = Cardinality(Live) - 1
      BY <1>5, LiveRemove DEF Shape, Counted, JsClear, Cancel
    <2>2. CountsLiveJobs'
      BY <1>1, <1>2, <1>5, <2>1 DEF Counted, CountsLiveJobs, SelfCounted, JsClear
    <2> QED
      BY <1>3, <2>1, <2>2 DEF Counted
  <1> QED
    BY <1>4, <1>5

LEMMA TakeCounts == ASSUME Shape, Counted, Begin \/ Wake PROVE Counted'
  <1>1. IsFiniteSet(Created)' /\ Live' = Live
    BY LiveSame DEF Counted, Begin, Wake, RunAuxTake, jobVars
  <1>2. batch = <<>> /\ batch' = auxJobs /\ auxJobs' = <<>> /\ auxJobs \in Seq(Aux)
    BY DEF Shape, TypeOK, LoopShape, Begin, Wake, RunAuxTake
  <1>3. /\ Cardinality(ToCount(batch)) = 0 /\ Cardinality(ToCount(auxJobs')) = 0
        /\ Cardinality(ToCount(batch')) = Cardinality(ToCount(auxJobs))
        /\ Cardinality(ToCount(auxJobs)) \in Nat /\ jobCount \in Int /\ setting \in Nat
    BY <1>2, CountEmpty, CountFinite DEF Shape, TypeOK
  <1>4. UNCHANGED <<first, background, jobCount, setting, miscounted>> /\ pc' = "aux"
    BY DEF Begin, Wake, RunAuxTake
  <1>5. CountsLiveJobs'
    BY <1>1, <1>3, <1>4 DEF Counted, CountsLiveJobs, SelfCounted
  <1>6. RunsUntilStopped'
    BY <1>4 DEF RunsUntilStopped
  <1> QED
    BY <1>1, <1>5, <1>6 DEF Counted

\* What a count of jobs loses on one side it may lose on the other.
LEMMA Balance ==
  ASSUME NEW c1 \in Int, NEW c2 \in Int, NEW b1 \in Int, NEW b2 \in Int, NEW l1 \in Int,
         NEW l2 \in Int, NEW x \in Int, NEW y \in Int, NEW z \in Int,
         c1 + b1 + x + y = l1 + z, c2 + b2 + l1 = c1 + b1 + l2
  PROVE  c2 + b2 + x + y = l2 + z
  OBVIOUS

LEMMA EntryCounts == ASSUME Shape, Counted, RunAuxEntry PROVE Counted'
  <1> DEFINE j == Head(batch)[2]
             clears == Head(batch)[1] = "clear" /\ status[j] = "live"
  <1>1. /\ batch # <<>> /\ batch' = Tail(batch) /\ pc' = "aux"
        /\ jobCount' = jobCount + (IF Head(batch)[1] = "count" THEN 1
                                   ELSE IF clears THEN -1 ELSE 0)
        /\ UNCHANGED <<first, background, setting, miscounted, auxJobs>>
    BY DEF RunAuxEntry
  <1>2. Head(batch) \in Aux /\ batch \in Seq(Aux) /\ batch' \in Seq(Aux)
    BY <1>1, HeadOfBatch DEF Shape, TypeOK
  <1>3. clears => j \in Job
    BY <1>2, AuxEntry
  <1>4. Cardinality(ToCount(batch))
          = Cardinality(ToCount(batch')) + (IF Head(batch)[1] = "count" THEN 1 ELSE 0)
    BY <1>1, <1>2, CountTail
  <1>5. /\ jobCount \in Int /\ setting \in Nat /\ Cardinality(ToCount(batch')) \in Nat
        /\ Cardinality(ToCount(auxJobs)) \in Nat
    BY <1>2, CountFinite DEF Shape, TypeOK
  <1>6. /\ IsFiniteSet(Created)' /\ Cardinality(Live) \in Nat
        /\ Cardinality(Live)' = Cardinality(Live) - (IF clears THEN 1 ELSE 0)
    <2>1. CASE clears
      <3>1. Cancel(j)
        BY <2>1 DEF RunAuxEntry
      <3> QED
        BY <1>3, <2>1, <3>1, LiveRemove DEF Shape, Counted, Cancel
    <2>2. CASE ~clears
      <3>1. UNCHANGED status
        BY <2>2 DEF RunAuxEntry, jobVars
      <3>2. IsFiniteSet(Created)' /\ Live' = Live /\ Cardinality(Live) \in Nat
        BY <3>1, LiveSame DEF Counted
      <3> HIDE DEF clears
      <3> QED
        BY <2>2, <3>2
    <2> QED
      BY <2>1, <2>2
  <1>7. CountsLiveJobs'
    <2>1. clears => Head(batch)[1] # "count"
      OBVIOUS
    <2> HIDE DEF clears
    <2>2. SelfCounted' = SelfCounted
      BY <1>1 DEF SelfCounted
    <2>3. jobCount' + Cardinality(ToCount(batch')) + Cardinality(Live)
            = jobCount + Cardinality(ToCount(batch)) + Cardinality(Live)'
      BY <1>1, <1>4, <1>5, <1>6, <2>1
    <2>4. Cardinality(ToCount(batch)) \in Nat /\ jobCount' \in Int /\ Cardinality(Live)' \in Int
      BY <1>1, <1>4, <1>5, <1>6
    <2> SUFFICES ASSUME ~miscounted'
                 PROVE  jobCount' + Cardinality(ToCount(batch')) + Cardinality(ToCount(auxJobs')) + setting'
                          = Cardinality(Live)' + (IF SelfCounted' THEN 1 ELSE 0)
      BY DEF CountsLiveJobs
    <2>5. jobCount + Cardinality(ToCount(batch)) + Cardinality(ToCount(auxJobs)) + setting
            = Cardinality(Live) + (IF SelfCounted THEN 1 ELSE 0)
      BY <1>1 DEF Counted, CountsLiveJobs
    <2>6. auxJobs' = auxJobs /\ setting' = setting
      BY <1>1
    <2>7. PICK self \in {0, 1} : self = (IF SelfCounted THEN 1 ELSE 0)
                                 /\ self = (IF SelfCounted' THEN 1 ELSE 0)
      BY <2>2
    <2>8. jobCount + Cardinality(ToCount(batch)) + Cardinality(ToCount(auxJobs)) + setting
            = Cardinality(Live) + self
      BY <2>5, <2>7
    <2>9. jobCount' + Cardinality(ToCount(batch')) + Cardinality(ToCount(auxJobs)) + setting
            = Cardinality(Live)' + self
      BY <1>5, <1>6, <2>3, <2>4, <2>8, Balance
    <2> QED
      BY <2>6, <2>7, <2>9
  <1>8. RunsUntilStopped'
    BY <1>1 DEF RunsUntilStopped
  <1> QED
    BY <1>6, <1>7, <1>8 DEF Counted

LEMMA AuxJobCounts == ASSUME Shape, Counted, RunAuxCall \/ RunAuxImmediate PROVE Counted'
  <1>1. IsFiniteSet(Created)' /\ Live' = Live
    BY LiveSame DEF Counted, RunAuxCall, RunAuxImmediate, jobVars
  <1>2. /\ batch # <<>> /\ batch' = Tail(batch) /\ Head(batch)[1] # "count"
        /\ UNCHANGED <<first, background, jobCount, setting, miscounted, auxJobs>> /\ pc' # "exit"
    BY DEF RunAuxCall, RunAuxImmediate
  <1>3. batch \in Seq(Aux) /\ batch' \in Seq(Aux)
    BY <1>2, HeadOfBatch DEF Shape, TypeOK
  <1>4. Cardinality(ToCount(batch')) = Cardinality(ToCount(batch))
    <2>1. Cardinality(ToCount(batch')) \in Nat
      BY <1>3, CountFinite
    <2> QED
      BY <1>2, <1>3, <2>1, CountTail
  <1>5. CountsLiveJobs'
    BY <1>1, <1>2, <1>4 DEF Counted, CountsLiveJobs, SelfCounted
  <1>6. RunsUntilStopped'
    BY <1>2 DEF RunsUntilStopped
  <1> QED
    BY <1>1, <1>5, <1>6 DEF Counted

LEMMA AuxEndCounts == ASSUME Shape, Counted, RunAuxEnd PROVE Counted'
  <1>1. IsFiniteSet(Created)' /\ Live' = Live /\ Cardinality(Live) \in Nat
    BY LiveSame DEF Counted, RunAuxEnd, jobVars
  <1>2. /\ jobCount' = jobCount + (IF first /\ background THEN 1 ELSE 0) /\ first' = FALSE
        /\ UNCHANGED <<batch, auxJobs, background, setting, miscounted>>
    BY DEF RunAuxEnd
  <1>3. /\ jobCount \in Int /\ setting \in Nat /\ Cardinality(ToCount(batch)) \in Nat
        /\ Cardinality(ToCount(auxJobs)) \in Nat
    BY CountFinite DEF Shape, TypeOK
  <1>4. CountsLiveJobs'
    BY <1>1, <1>2, <1>3 DEF Counted, CountsLiveJobs, SelfCounted
  <1>5. (pc = "exit" /\ canRun = 1 => jobCount <= 0)'
    <2>1. jobCount' \in Int
      BY <1>2, <1>3
    <2>2. canRun' = 1 => canRun # 0
      BY DEF RunAuxEnd
    <2>3. pc' = IF ~first /\ canRun = 0 THEN "exit" ELSE LoopTest(jobCount')
      BY DEF RunAuxEnd
    <2> QED
      BY <2>1, <2>2, <2>3 DEF LoopTest
  <1> QED
    BY <1>1, <1>4, <1>5, LeavesByCount, AuxEndShape DEF Counted

LEMMA ReceiveCounts ==
  ASSUME Shape, Counted, NEW j \in Timeout \cup Interval, Receive(j)
  PROVE  Counted'
  <1>1. IsFiniteSet(Created)' /\ Live' = Live
    BY LiveSame DEF Counted, Receive
  <1>2. CountsLiveJobs'
    BY <1>1 DEF Counted, CountsLiveJobs, SelfCounted, Receive
  <1>3. (pc = "exit" /\ canRun = 1 => jobCount <= 0)'
    BY DEF Shape, TypeOK, Receive, LoopTest
  <1> QED
    BY <1>1, <1>2, <1>3, LeavesByCount, ReceiveShape DEF Counted

LEMMA FinishCounts == ASSUME Shape, Counted, Finish PROVE Counted'
  <1>1. cur \in Job /\ status[cur] # "new" /\ jobCount \in Int
    BY DEF Shape, TypeOK, LoopShape, Finish
  <1>2. UNCHANGED <<batch, auxJobs, first, background, setting>>
    BY DEF Finish
  <1>3. /\ Cardinality(ToCount(batch)) \in Nat /\ Cardinality(ToCount(auxJobs)) \in Nat
        /\ setting \in Nat
    BY CountFinite DEF Shape, TypeOK
  <1>4. IsFiniteSet(Created)' /\ CountsLiveJobs' /\ jobCount' \in Int
    <2>1. CASE cur \in Interval
      <3>1. UNCHANGED <<status, jobCount, miscounted>>
        BY <2>1 DEF Finish
      <3>2. IsFiniteSet(Created)' /\ Live' = Live
        BY <3>1, LiveSame DEF Counted
      <3> QED
        BY <1>1, <1>2, <3>1, <3>2 DEF Counted, CountsLiveJobs, SelfCounted
    <2>2. CASE cur \notin Interval
      <3>1. /\ status' = [status EXCEPT ![cur] = "cancelled"] /\ jobCount' = jobCount - 1
            /\ miscounted' = (miscounted \/ status[cur] # "live")
        BY <2>2 DEF Finish
      <3>a. miscounted \/ status[cur] # "live" => miscounted'
        BY <3>1
      <3>2. /\ IsFiniteSet(Created)' /\ Cardinality(Live) \in Nat
            /\ Cardinality(Live)' = Cardinality(Live) - (IF status[cur] = "live" THEN 1 ELSE 0)
        BY <1>1, <3>1, LiveRemove DEF Shape, Counted
      <3>3. SelfCounted' = SelfCounted
        BY <1>2 DEF SelfCounted
      <3>4. CountsLiveJobs'
        <4> SUFFICES ASSUME ~miscounted' PROVE CountsLiveJobs'
          BY DEF CountsLiveJobs
        <4>1. ~miscounted /\ Cardinality(Live)' = Cardinality(Live) - 1
          BY <3>2, <3>a
        <4> QED
          BY <1>1, <1>2, <1>3, <3>1, <3>2, <3>3, <4>1 DEF Counted, CountsLiveJobs
      <3> QED
        BY <1>1, <3>1, <3>2, <3>4
    <2> QED
      BY <2>1, <2>2
  <1>5. (pc = "exit" /\ canRun = 1 => jobCount <= 0)'
    <2>1. pc' = IF cur \in Immediate THEN "aux" ELSE LoopTest(jobCount')
      BY DEF Finish
    <2> QED
      BY <1>4, <2>1 DEF LoopTest
  <1> QED
    BY <1>4, <1>5, LeavesByCount, FinishShape DEF Counted

LEMMA ReturnCounts == ASSUME Shape, Counted, MainReturns \/ Exit PROVE Counted'
  <1>1. IsFiniteSet(Created)' /\ Live' = Live /\ Cardinality(Live) \in Nat
    BY LiveSame DEF Counted, MainReturns, Exit, jobVars
  <1>2. RunsUntilStopped'
    BY DEF RunsUntilStopped, MainReturns, Exit
  <1>3. CASE MainReturns
    <2>1. CountsLiveJobs'
      BY <1>1, <1>3 DEF Counted, CountsLiveJobs, SelfCounted, MainReturns
    <2> QED
      BY <1>1, <1>2, <2>1 DEF Counted
  <1>4. CASE Exit
    <2>1. /\ jobCount \in Int /\ setting \in Nat /\ Cardinality(ToCount(batch)) \in Nat
          /\ Cardinality(ToCount(auxJobs)) \in Nat /\ ~first
      BY <1>4, CountFinite DEF Shape, TypeOK, LoopShape, Exit
    <2>2. CountsLiveJobs'
      BY <1>1, <1>4, <2>1 DEF Counted, CountsLiveJobs, SelfCounted, Exit
    <2> QED
      BY <1>1, <1>2, <2>2 DEF Counted
  <1> QED
    BY <1>3, <1>4

-----------------------------------------------------------------------------
IInv == Shape /\ Counted

LEMMA InitHolds == Init => IInv
  <1> SUFFICES ASSUME Init PROVE IInv
    OBVIOUS
  <1>b. first \in BOOLEAN /\ background \in BOOLEAN /\ miscounted \in BOOLEAN
        /\ running \in BOOLEAN /\ wakeupChan \in BOOLEAN
    BY DEF Init
  <1>t. TypeOK
    BY <1>b, JobAssumption DEF Init, TypeOK, NoOp
  <1>1. Shape
    BY <1>t DEF Init, Shape, LoopShape, HandlerShape
  <1>2. Created = {} /\ Live = {}
    BY DEF Init, Created, Live
  <1>3. IsFiniteSet(Created) /\ Cardinality(Live) = 0
    BY <1>2, FS_EmptySet
  <1>4. CountsLiveJobs /\ RunsUntilStopped
    BY <1>3, CountEmpty DEF Init, CountsLiveJobs, RunsUntilStopped, SelfCounted
  <1> QED
    BY <1>1, <1>3, <1>4 DEF IInv, Counted

LEMMA StepHolds == IInv /\ [Next]_vars => IInv'
  <1> SUFFICES ASSUME Shape, Counted, [Next]_vars PROVE Shape' /\ Counted'
    BY DEF IInv
  <1>1. CASE Start \/ Run
    BY <1>1, StartShape, StartCounts
  <1>2. CASE StopCall \/ StopReturn \/ StopNoWait
    <2>1. /\ UNCHANGED <<pc, batch, first, background, jobCount, auxJobs, status, setting, miscounted>>
          /\ canRun' = 1 => canRun = 1
      BY <1>2 DEF StopCall, StopReturn, StopNoWait, loopVars, jobVars
    <2> QED
      BY <1>2, <2>1, StopShape, QuietCounts
  <1>3. CASE RunOnLoop
    <2>1. <<"call", calls + 1>> \in Aux
      <3>1. calls + 1 \in 1..MaxCalls
        BY <1>3, JobAssumption DEF Shape, TypeOK, RunOnLoop
      <3> QED
        BY <3>1, AuxTypes
    <2> QED
      BY <1>3, <2>1, RunOnLoopShape, AddCounts DEF RunOnLoop, jobVars
  <1>4. ASSUME NEW j \in Timeout \cup Interval, SetTimer(j) PROVE Shape' /\ Counted'
    BY <1>4, SetTimerShape, SetTimerKeepsCount
  <1>5. ASSUME NEW j \in Timeout \cup Interval, ClearTimer(j) PROVE Shape' /\ Counted'
    BY <1>5, ClearTimerShape, AddCounts, AuxTypes DEF ClearTimer, jobVars
  <1>6. ASSUME NEW j \in Timeout \cup Interval, Fire(j) \/ IntervalStops(j) PROVE Shape' /\ Counted'
    BY <1>6, ThreadShape, QuietCounts DEF Fire, IntervalStops, loopVars
  <1>7. ASSUME NEW j \in Job, NEW op \in {"set", "clear"}, HandlerBegin(op, j) PROVE Shape' /\ Counted'
    BY <1>7, HandlerBeginShape, QuietCounts DEF HandlerBegin, loopVars, jobVars
  <1>8. CASE HandlerEnd
    BY <1>8, HandlerEndShape, HandlerEndCounts
  <1>9. CASE Begin \/ Wake
    BY <1>9, TakeShape, TakeCounts
  <1>10. CASE RunAuxEntry
    BY <1>10, EntryShape, EntryCounts
  <1>11. CASE RunAuxCall
    BY <1>11, AuxCallShape, AuxJobCounts
  <1>12. CASE RunAuxImmediate
    BY <1>12, ImmediateShape, AuxJobCounts
  <1>13. CASE RunAuxEnd
    BY <1>13, AuxEndShape, AuxEndCounts
  <1>14. ASSUME NEW j \in Timeout \cup Interval, Receive(j) PROVE Shape' /\ Counted'
    BY <1>14, ReceiveShape, ReceiveCounts
  <1>15. ASSUME NEW j \in Job, JsSet(j) \/ JsClear(j) PROVE Shape' /\ Counted'
    BY <1>15, JsShape, JsCounts
  <1>16. CASE Finish
    BY <1>16, FinishShape, FinishCounts
  <1>17. CASE MainReturns \/ Exit
    BY <1>17, ReturnShape, ReturnCounts
  <1>18. CASE UNCHANGED vars
    <2>1. Shape'
      BY <1>18 DEF vars, loopVars, jobVars, Shape, TypeOK, LoopShape, HandlerShape
    <2> QED
      BY <1>18, <2>1, QuietCounts DEF vars, loopVars, jobVars
  <1>19. CASE SetTimerCounts
    BY <1>19, TimerCountsShape, TimerCountsKeepsCount
  <1> QED
    BY <1>1, <1>2, <1>3, <1>4, <1>5, <1>6, <1>7, <1>8, <1>9, <1>10, <1>11, <1>12, <1>13,
       <1>14, <1>15, <1>16, <1>17, <1>18, <1>19, Zenon DEF Next, LoopRuns

\* In every behaviour the shape of the loop and the count of its jobs are kept.
THEOREM InvariantHolds == Spec => []IInv
  BY InitHolds, StepHolds, PTL DEF Spec

\* jobCount counts the live jobs exactly until a data race or a double clear, and
\* until then the loop ends unasked only when no job is left, or when a timer set
\* from outside has run before it was counted: for any jobs and any number of
\* them, whatever the timers, the request's JavaScript and the callers of Start,
\* Stop and RunOnLoop do in between.
THEOREM LoopAlwaysKeepsCount == Spec => []LoopKeepsCount
  <1>1. IInv => LoopKeepsCount
    BY DEF IInv, Shape, Counted, LoopKeepsCount
  <1> QED
    BY <1>1, InvariantHolds, PTL
-----------------------------------------------------------------------------
(* Induction over the natural numbers, for a set of them *)

LEMMA LessThanPairs == \A x, y \in Nat : <<x, y>> \in OpToRel(<, Nat) <=> x < y
  BY DEF OpToRel

LEMMA LeastOf ==
  ASSUME NEW T, T \subseteq Nat, NEW R, \A x, y \in Nat : <<x, y>> \in R <=> x < y,
         \E x \in T : \A y \in T : ~ (<<y, x>> \in R)
  PROVE  \E x \in T : \A y \in T : x <= y
  <1>1. PICK x \in T : \A y \in T : ~ (<<y, x>> \in R)
    OBVIOUS
  <1>2. ASSUME NEW y \in T PROVE x <= y
    <2>1. x \in Nat /\ y \in Nat /\ <<y, x>> \notin R
      BY <1>1
    <2>2. ~(y < x)
      BY <2>1
    <2> QED
      BY <2>1, <2>2
  <1> QED
    BY <1>2

LEMMA LeastElement ==
  ASSUME NEW T, T \subseteq Nat, T # {}
  PROVE  \E x \in T : \A y \in T : x <= y
  <1>1. \E x \in T : \A y \in T : ~ (<<y, x>> \in OpToRel(<, Nat))
    BY NatLessThanWellFounded, WFMin
  <1> QED
    BY <1>1, LessThanPairs, LeastOf

LEMMA SetInduction ==
  ASSUME NEW S, 0 \in S, \A n \in Nat : n \in S => n + 1 \in S
  PROVE  Nat \subseteq S
  <1> DEFINE T == Nat \ S
  <1> SUFFICES ASSUME T # {} PROVE FALSE
    OBVIOUS
  <1>1. PICK x \in T : \A y \in T : x <= y
    BY LeastElement
  <1>2. x # 0 /\ x - 1 \in Nat /\ x - 1 \in S
    BY <1>1
  <1> QED
    BY <1>1, <1>2

-----------------------------------------------------------------------------
(* The calls among the entries *)

\* What an entry adds to the calls before it.
Also(q, e) == IF e[1] = "call" THEN Append(q, e[2]) ELSE q

\* F gives the calls among the first i entries of s, for every i up to n.
IsCalls(F, s, n) == F = [i \in 0..n |-> IF i = 0 THEN <<>> ELSE Also(F[i - 1], s[i])]

LEMMA CallsExist ==
  ASSUME NEW s
  PROVE  \A n \in Nat : \E F : IsCalls(F, s, n)
  <1> DEFINE S == {n \in Nat : \E F : IsCalls(F, s, n)}
  <1>1. 0 \in S
    <2>1. IsCalls([i \in 0..0 |-> <<>>], s, 0)
      BY DEF IsCalls
    <2> QED
      BY <2>1
  <1>2. ASSUME NEW n \in Nat, n \in S PROVE n + 1 \in S
    <2>1. PICK F : IsCalls(F, s, n)
      BY <1>2
    <2> DEFINE G == [i \in 0..(n + 1) |-> IF i <= n THEN F[i] ELSE Also(F[n], s[n + 1])]
    <2>2. IsCalls(G, s, n + 1)
      <3>1. \A i \in 0..n : F[i] = IF i = 0 THEN <<>> ELSE Also(F[i - 1], s[i])
        BY <2>1 DEF IsCalls
      <3>2. ASSUME NEW i \in 0..(n + 1) PROVE G[i] = IF i = 0 THEN <<>> ELSE Also(G[i - 1], s[i])
        <4>1. CASE i <= n
          BY <3>1, <4>1
        <4>2. CASE i = n + 1
          BY <4>2
        <4> QED
          BY <4>1, <4>2
      <3> HIDE DEF G
      <3>3. DOMAIN G = 0..(n + 1) /\ G = [i \in 0..(n + 1) |-> G[i]]
        BY DEF G
      <3> QED
        BY <3>2, <3>3 DEF IsCalls
    <2> QED
      BY <2>2
  <1> HIDE DEF S
  <1>3. Nat \subseteq S
    BY <1>1, <1>2, SetInduction
  <1> QED
    BY <1>3 DEF S

\* The recursion of CallsIn has a solution, and CallsIn is its last value.
LEMMA CallsInStep ==
  ASSUME NEW s \in Seq(Aux)
  PROVE  \E F : /\ F[0] = <<>> /\ F[Len(s)] = CallsIn(s)
                /\ \A i \in 1..Len(s) : F[i] = Also(F[i - 1], s[i])
  <1> DEFINE n == Len(s)
             H == CHOOSE F : F = [i \in 0..n |->
                    IF i = 0 THEN <<>>
                    ELSE IF s[i][1] = "call" THEN Append(F[i - 1], s[i][2]) ELSE F[i - 1]]
  <1>0. n \in Nat
    OBVIOUS
  <1>1. \E F : F = [i \in 0..n |->
                    IF i = 0 THEN <<>>
                    ELSE IF s[i][1] = "call" THEN Append(F[i - 1], s[i][2]) ELSE F[i - 1]]
    <2>1. PICK F : IsCalls(F, s, n)
      BY <1>0, CallsExist
    <2>2. F = [i \in 0..n |->
                    IF i = 0 THEN <<>>
                    ELSE IF s[i][1] = "call" THEN Append(F[i - 1], s[i][2]) ELSE F[i - 1]]
      BY <2>1, Zenon DEF IsCalls, Also
    <2> QED
      BY <2>2, Zenon
  <1>2. H = [i \in 0..n |->
                    IF i = 0 THEN <<>>
                    ELSE IF s[i][1] = "call" THEN Append(H[i - 1], s[i][2]) ELSE H[i - 1]]
    BY <1>1, Zenon
  <1>3. CallsIn(s) = H[n]
    BY DEF CallsIn
  <1> HIDE DEF H
  <1>4. H[0] = <<>> /\ \A i \in 1..n : H[i] = Also(H[i - 1], s[i])
    <2> HIDE DEF n
    <2>1. \A i \in 0..n : H[i] = IF i = 0 THEN <<>> ELSE Also(H[i - 1], s[i])
      BY <1>2, Zenon DEF Also
    <2> QED
      BY <1>0, <2>1
  <1> QED
    BY <1>3, <1>4

\* The values of the recursion are sequences of the numbers of calls.
LEMMA CallsTyped ==
  ASSUME NEW s \in Seq(Aux), NEW F, F[0] = <<>>,
         \A i \in 1..Len(s) : F[i] = Also(F[i - 1], s[i])
  PROVE  \A i \in 0..Len(s) : F[i] \in Seq(Nat)
  <1> DEFINE S == {i \in Nat : i <= Len(s) => F[i] \in Seq(Nat)}
  <1>0. <<>> \in Seq(Nat)
    OBVIOUS
  <1>1. 0 \in S
    BY <1>0
  <1>2. ASSUME NEW i \in Nat, i \in S PROVE i + 1 \in S
    <2> SUFFICES ASSUME i + 1 <= Len(s) PROVE F[i + 1] \in Seq(Nat)
      OBVIOUS
    <2>1. i + 1 \in 1..Len(s) /\ F[i] \in Seq(Nat)
      BY <1>2
    <2>2. F[i + 1] = Also(F[i], s[i + 1])
      BY <2>1
    <2>3. s[i + 1] \in Aux
      BY <2>1
    <2>4. s[i + 1][1] = "call" => s[i + 1][2] \in Nat
      BY <2>3, AuxEntry
    <2> QED
      BY <2>1, <2>2, <2>4 DEF Also
  <1> HIDE DEF S
  <1>3. Nat \subseteq S
    BY <1>1, <1>2, SetInduction
  <1> QED
    BY <1>3 DEF S

\* Two such recursions agree.
LEMMA CallsUnique ==
  ASSUME NEW s, NEW n \in Nat, NEW F, NEW G, F[0] = G[0],
         \A i \in 1..n : F[i] = Also(F[i - 1], s[i]),
         \A i \in 1..n : G[i] = Also(G[i - 1], s[i])
  PROVE  F[n] = G[n]
  <1> DEFINE S == {i \in Nat : i <= n => F[i] = G[i]}
  <1>1. 0 \in S
    OBVIOUS
  <1>2. ASSUME NEW i \in Nat, i \in S PROVE i + 1 \in S
    <2> SUFFICES ASSUME i + 1 <= n PROVE F[i + 1] = G[i + 1]
      OBVIOUS
    <2>1. i + 1 \in 1..n /\ F[i] = G[i] /\ (i + 1) - 1 = i
      BY <1>2
    <2> QED
      BY <2>1
  <1> HIDE DEF S
  <1>3. Nat \subseteq S
    BY <1>1, <1>2, SetInduction
  <1> QED
    BY <1>3 DEF S

LEMMA CallsInType == ASSUME NEW s \in Seq(Aux) PROVE CallsIn(s) \in Seq(Nat)
  BY CallsInStep, CallsTyped

LEMMA CallsInEmpty == CallsIn(<<>>) = <<>>
  <1>1. <<>> \in Seq(Aux) /\ Len(<<>>) = 0
    OBVIOUS
  <1> QED
    BY <1>1, CallsInStep

LEMMA CallsInAppend ==
  ASSUME NEW s \in Seq(Aux), NEW e \in Aux
  PROVE  CallsIn(Append(s, e)) = Also(CallsIn(s), e)
  <1> DEFINE t == Append(s, e)
             n == Len(s)
  <1>1. /\ t \in Seq(Aux) /\ n \in Nat /\ Len(t) = n + 1 /\ t[n + 1] = e
        /\ \A i \in 1..n : t[i] = s[i]
    BY AppendProperties
  <1> HIDE DEF t
  <1>2. PICK F : /\ F[0] = <<>> /\ F[n] = CallsIn(s)
                 /\ \A i \in 1..n : F[i] = Also(F[i - 1], s[i])
    BY CallsInStep
  <1>3. PICK G : /\ G[0] = <<>> /\ G[n + 1] = CallsIn(t)
                 /\ \A i \in 1..(n + 1) : G[i] = Also(G[i - 1], t[i])
    BY <1>1, CallsInStep
  <1> HIDE DEF n
  <1>4. F[n] = G[n]
    <2>1. F[0] = G[0] /\ n \in Nat
      BY <1>1, <1>2, <1>3
    <2>2. \A i \in 1..n : F[i] = Also(F[i - 1], s[i])
      BY <1>2
    <2>3. \A i \in 1..n : G[i] = Also(G[i - 1], s[i])
      BY <1>1, <1>3
    <2> QED
      BY <2>1, <2>2, <2>3, CallsUnique, SMT
  <1>5. G[n + 1] = Also(G[n], e)
    BY <1>1, <1>3
  <1> QED
    BY <1>2, <1>3, <1>4, <1>5 DEF t

LEMMA AlsoConcat ==
  ASSUME NEW p \in Seq(Nat), NEW q \in Seq(Nat), NEW e \in Aux
  PROVE  Also(p \o q, e) = p \o Also(q, e)
  <1>1. CASE e[1] = "call"
    <2>1. e[2] \in Nat
      BY <1>1, AuxEntry
    <2>2. Append(p \o q, e[2]) = (p \o q) \o <<e[2]>> /\ Append(q, e[2]) = q \o <<e[2]>>
      BY <2>1, AppendIsConcat, ConcatProperties
    <2>3. <<e[2]>> \in Seq(Nat)
      BY <2>1
    <2>4. (p \o q) \o <<e[2]>> = p \o (q \o <<e[2]>>)
      BY <2>3, ConcatAssociative, SMTT(30)
    <2>5. Also(p \o q, e) = Append(p \o q, e[2]) /\ Also(q, e) = Append(q, e[2])
      BY <1>1, Zenon DEF Also
    <2> QED
      BY <2>2, <2>4, <2>5, Zenon
  <1>2. CASE e[1] # "call"
    BY <1>2 DEF Also
  <1> QED
    BY <1>1, <1>2

\* The calls among the entries of s are the first entry's, then the others'.
LEMMA CallsInHead ==
  ASSUME NEW s \in Seq(Aux), s # <<>>
  PROVE  CallsIn(s) = Also(<<>>, Head(s)) \o CallsIn(Tail(s))
  <1> DEFINE t == Tail(s)
             m == Len(t)
             p == Also(<<>>, Head(s))
  <1>1. /\ Head(s) \in Aux /\ Head(s) = s[1] /\ t \in Seq(Aux)
        /\ m \in Nat /\ Len(s) = m + 1 /\ \A i \in 1..m : t[i] = s[i + 1]
    BY HeadTailProperties, LenProperties, EmptySeq
  <1>2. p \in Seq(Nat)
    <2>1. Head(s)[1] = "call" => Head(s)[2] \in Nat
      BY <1>1, AuxEntry
    <2> QED
      BY <2>1 DEF Also
  <1>3. PICK F : /\ F[0] = <<>> /\ F[Len(s)] = CallsIn(s)
                 /\ \A i \in 1..Len(s) : F[i] = Also(F[i - 1], s[i])
    BY CallsInStep
  <1>4. PICK G : /\ G[0] = <<>> /\ G[m] = CallsIn(t)
                 /\ \A i \in 1..m : G[i] = Also(G[i - 1], t[i])
    BY <1>1, CallsInStep
  <1>5. \A i \in 0..m : G[i] \in Seq(Nat)
    BY <1>1, <1>4, CallsTyped
  <1> DEFINE S == {i \in Nat : i <= m => F[i + 1] = p \o G[i]}
  <1>6. 0 \in S
    <2>1. F[1] = Also(<<>>, s[1])
      BY <1>1, <1>3
    <2>2. p \o <<>> = p
      BY <1>2, ConcatEmptySeq
    <2> HIDE DEF p, m
    <2>3. F[0 + 1] = p \o G[0]
      BY <1>1, <1>4, <2>1, <2>2 DEF p
    <2> QED
      BY <2>3
  <1>7. ASSUME NEW i \in Nat, i \in S PROVE i + 1 \in S
    <2> HIDE DEF p, t, m
    <2> SUFFICES ASSUME i + 1 <= m PROVE F[i + 2] = p \o G[i + 1]
      OBVIOUS
    <2>1. F[i + 1] = p \o G[i] /\ i + 1 \in 1..m /\ i + 2 \in 1..Len(s) /\ i \in 0..m
      BY <1>1, <1>7
    <2>a. (i + 2) - 1 = i + 1 /\ (i + 1) + 1 = i + 2
      OBVIOUS
    <2>2. F[i + 2] = Also(F[i + 1], s[i + 2]) /\ s[i + 2] = t[i + 1]
      <3>1. F[i + 2] = Also(F[(i + 2) - 1], s[i + 2])
        BY <1>3, <2>1
      <3>2. t[i + 1] = s[(i + 1) + 1]
        BY <1>1, <2>1
      <3> QED
        BY <2>a, <3>1, <3>2
    <2>3. G[i + 1] = Also(G[i], t[i + 1])
      BY <1>4, <2>1
    <2>4. t[i + 1] \in Aux /\ G[i] \in Seq(Nat)
      BY <1>1, <1>5, <2>1 DEF m
    <2> QED
      BY <1>2, <2>1, <2>2, <2>3, <2>4, AlsoConcat
  <1> HIDE DEF S, p, t, m
  <1>8. Nat \subseteq S
    BY <1>6, <1>7, SetInduction
  <1>9. F[m + 1] = p \o G[m]
    BY <1>1, <1>8 DEF S
  <1> QED
    BY <1>1, <1>3, <1>4, <1>9 DEF p, t

-----------------------------------------------------------------------------
(* The queue of RunOnLoop *)

\* The entries the loop has still to run, oldest first: runAux's own and those
\* that wait for the next wakeup.
Entries == batch \o auxJobs

\* The functions that wait are numbered on from the last that ran, up to the last
\* call.
Numbered ==
    /\ Len(CallsIn(Entries)) = calls - ran
    /\ \A i \in 1..Len(CallsIn(Entries)) : CallsIn(Entries)[i] = ran + i

LEMMA EntriesType == ASSUME TypeOK PROVE Entries \in Seq(Aux)
  BY ConcatProperties DEF TypeOK, Entries

LEMMA EntriesAdded ==
  ASSUME TypeOK, NEW e \in Aux, auxJobs' = Append(auxJobs, e), batch' = batch
  PROVE  CallsIn(Entries') = Also(CallsIn(Entries), e)
  <1>1. batch \in Seq(Aux) /\ auxJobs \in Seq(Aux) /\ <<e>> \in Seq(Aux)
    BY DEF TypeOK
  <1>2. Entries' = batch \o (auxJobs \o <<e>>)
    BY <1>1, AppendIsConcat DEF Entries
  <1>3. Append(Entries, e) = Entries \o <<e>>
    BY EntriesType, AppendIsConcat
  <1>4. Entries' = Append(Entries, e)
    BY <1>1, <1>2, <1>3, ConcatAssociative DEF Entries
  <1> QED
    BY <1>4, EntriesType, CallsInAppend

LEMMA EntryRemoved ==
  ASSUME TypeOK, batch # <<>>, batch' = Tail(batch), auxJobs' = auxJobs
  PROVE  CallsIn(Entries) = Also(<<>>, Head(batch)) \o CallsIn(Entries')
  <1>1. batch \in Seq(Aux) /\ auxJobs \in Seq(Aux)
    BY DEF TypeOK
  <1>2. /\ Tail(batch) \in Seq(Aux) /\ Len(batch) \in Nat \ {0} /\ Len(Tail(batch)) = Len(batch) - 1
        /\ \A i \in 1..Len(Tail(batch)) : Tail(batch)[i] = batch[i + 1]
        /\ Head(batch) = batch[1]
    BY <1>1, HeadTailProperties, LenProperties, EmptySeq
  <1>3. /\ Entries \in Seq(Aux) /\ Len(Entries) = Len(batch) + Len(auxJobs)
        /\ \A i \in 1..(Len(batch) + Len(auxJobs)) :
             Entries[i] = IF i <= Len(batch) THEN batch[i] ELSE auxJobs[i - Len(batch)]
    BY <1>1, ConcatProperties DEF Entries
  <1>4. /\ Entries' \in Seq(Aux) /\ Len(Entries') = Len(batch) - 1 + Len(auxJobs)
        /\ \A i \in 1..(Len(batch) - 1 + Len(auxJobs)) :
             Entries'[i] = IF i <= Len(batch) - 1 THEN batch[i + 1] ELSE auxJobs[i - (Len(batch) - 1)]
    <2>1. Entries' = Tail(batch) \o auxJobs
      BY DEF Entries
    <2> QED
      BY <1>1, <1>2, <2>1, ConcatProperties
  <1>5. Entries # <<>> /\ Head(Entries) = Head(batch)
    BY <1>1, <1>2, <1>3
  <1>6. Tail(Entries) = Entries'
    <2>1. /\ Tail(Entries) \in Seq(Aux) /\ Len(Tail(Entries)) = Len(Entries) - 1
          /\ \A i \in 1..Len(Tail(Entries)) : Tail(Entries)[i] = Entries[i + 1]
      BY <1>3, <1>5, HeadTailProperties
    <2>2. Len(Tail(Entries)) = Len(Entries') /\ Len(auxJobs) \in Nat
      BY <1>1, <1>2, <1>3, <1>4, <2>1
    <2>3. ASSUME NEW i \in 1..Len(Tail(Entries)) PROVE Tail(Entries)[i] = Entries'[i]
      <3>1. /\ i \in Nat /\ i \in 1..(Len(batch) - 1 + Len(auxJobs))
            /\ i + 1 \in 1..(Len(batch) + Len(auxJobs))
            /\ i <= Len(batch) - 1 <=> i + 1 <= Len(batch)
            /\ (i + 1) - Len(batch) = i - (Len(batch) - 1)
        BY <1>2, <1>3, <2>1, <2>2
      <3>2. Tail(Entries)[i] = Entries[i + 1]
        BY <2>1
      <3> HIDE DEF Entries
      <3> QED
        BY <1>3, <1>4, <3>1, <3>2
    <2> QED
      BY <1>4, <2>1, <2>2, <2>3, SeqEqual
  <1> QED
    BY <1>3, <1>5, <1>6, CallsInHead

Waiting == CallsIn(Entries)

\* What a step does to the queue: nothing, add the next call, or run the oldest.
LEMMA QueueStep ==
  ASSUME Shape, [Next]_vars
  PROVE  \/ Waiting' = Waiting /\ UNCHANGED <<ran, calls>>
         \/ Waiting' = Append(Waiting, calls + 1) /\ calls' = calls + 1 /\ UNCHANGED ran
         \/ Waiting = <<ran'>> \o Waiting' /\ ran' \in Nat /\ UNCHANGED calls
  <1> DEFINE Goal == \/ Waiting' = Waiting /\ UNCHANGED <<ran, calls>>
                     \/ Waiting' = Append(Waiting, calls + 1) /\ calls' = calls + 1 /\ UNCHANGED ran
                     \/ Waiting = <<ran'>> \o Waiting' /\ ran' \in Nat /\ UNCHANGED calls
  <1> SUFFICES Goal
    OBVIOUS
  <1>0. TypeOK
    BY DEF Shape
  <1>1. ASSUME UNCHANGED <<batch, auxJobs, ran, calls>> PROVE Goal
    BY <1>1 DEF Waiting, Entries
  <1>2. ASSUME NEW e \in Aux, e[1] # "call", addAuxJob(e), UNCHANGED <<batch, ran, calls>> PROVE Goal
    <2>1. Waiting' = Also(Waiting, e)
      BY <1>0, <1>2, EntriesAdded DEF addAuxJob, Waiting
    <2> QED
      BY <1>2, <2>1 DEF Also
  <1>3. ASSUME NEW j \in Job, Create(j), UNCHANGED <<batch, ran, calls>> PROVE Goal
    <2>1. CASE j \in Immediate
      BY <1>2, <1>3, <2>1, AuxTypes DEF Create
    <2>2. CASE j \notin Immediate
      BY <1>1, <1>3, <2>2 DEF Create
    <2> QED
      BY <2>1, <2>2
  <1>4. CASE RunOnLoop
    <2>1. calls + 1 \in 1..MaxCalls
      BY <1>0, <1>4, JobAssumption DEF TypeOK, RunOnLoop
    <2>2. <<"call", calls + 1>> \in Aux /\ auxJobs' = Append(auxJobs, <<"call", calls + 1>>)
          /\ batch' = batch /\ calls' = calls + 1 /\ ran' = ran
      BY <1>4, <2>1, AuxTypes DEF RunOnLoop, addAuxJob, loopVars
    <2>3. Waiting' = Also(Waiting, <<"call", calls + 1>>)
      BY <1>0, <2>2, EntriesAdded DEF Waiting
    <2> QED
      BY <2>2, <2>3 DEF Also
  <1>5. CASE RunAuxCall
    <2>1. batch # <<>> /\ batch' = Tail(batch) /\ auxJobs' = auxJobs /\ ran' = Head(batch)[2]
          /\ Head(batch)[1] = "call" /\ calls' = calls
      BY <1>5 DEF RunAuxCall
    <2>2. Waiting = Also(<<>>, Head(batch)) \o Waiting'
      BY <1>0, <2>1, EntryRemoved DEF Waiting
    <2>3. Head(batch) \in Aux
      BY <1>0, <2>1, HeadOfBatch
    <2>4. ran' \in Nat
      BY <2>1, <2>3, AuxEntry
    <2>5. Also(<<>>, Head(batch)) = <<ran'>>
      BY <2>1 DEF Also
    <2> QED
      BY <2>1, <2>2, <2>4, <2>5
  <1>6. CASE RunAuxEntry \/ RunAuxImmediate
    <2>1. batch # <<>> /\ batch' = Tail(batch) /\ auxJobs' = auxJobs
          /\ Head(batch)[1] # "call" /\ UNCHANGED <<ran, calls>>
      BY <1>6 DEF RunAuxEntry, RunAuxImmediate
    <2>2. Waiting = Also(<<>>, Head(batch)) \o Waiting'
      BY <1>0, <2>1, EntryRemoved DEF Waiting
    <2>3. Also(<<>>, Head(batch)) = <<>>
      BY <2>1 DEF Also
    <2>4. Shape'
      BY <1>6, EntryShape, ImmediateShape
    <2>5. Entries' \in Seq(Aux)
      BY <2>4, ConcatProperties DEF Shape, TypeOK, Entries
    <2>6. Waiting' \in Seq(Nat)
      BY <2>5, CallsInType DEF Waiting
    <2> QED
      BY <2>1, <2>2, <2>3, <2>6, ConcatEmptySeq
  <1>7. CASE Begin \/ Wake
    <2>1. batch = <<>> /\ batch' = auxJobs /\ auxJobs' = <<>> /\ UNCHANGED <<ran, calls>>
          /\ auxJobs \in Seq(Aux)
      BY <1>7 DEF Begin, Wake, RunAuxTake, Shape, TypeOK, LoopShape
    <2>2. Entries' = Entries
      BY <2>1, ConcatEmptySeq DEF Entries
    <2> QED
      BY <2>1, <2>2 DEF Waiting
  <1>8. CASE Start \/ Run \/ StopCall \/ StopReturn \/ StopNoWait
    BY <1>1, <1>8 DEF Start, Run, StopCall, StopReturn, StopNoWait, loopVars
  <1>9. ASSUME NEW j \in Timeout \cup Interval, SetTimer(j) \/ ClearTimer(j) PROVE Goal
    <2>1. CASE SetTimer(j)
      BY <1>1, <2>1 DEF SetTimer, loopVars
    <2>2. CASE ClearTimer(j)
      <3>1. <<"clear", j>> \in Aux
        BY AuxTypes
      <3> HIDE DEF Goal
      <3> QED
        BY <1>2, <2>2, <3>1 DEF ClearTimer, loopVars
    <2> HIDE DEF Goal
    <2> QED
      BY <1>9, <2>1, <2>2
  <1>10. ASSUME NEW j \in Timeout \cup Interval, Fire(j) \/ IntervalStops(j) \/ Receive(j) PROVE Goal
    BY <1>1, <1>10 DEF Fire, IntervalStops, Receive, loopVars
  <1>11. ASSUME NEW j \in Job, NEW op \in {"set", "clear"}, HandlerBegin(op, j) PROVE Goal
    BY <1>1, <1>11 DEF HandlerBegin, loopVars
  <1>12. CASE HandlerEnd
    <2>1. handler.job \in Job
      BY <1>12 DEF HandlerEnd, Shape, HandlerShape
    <2>2. UNCHANGED <<batch, ran, calls>> /\ (Create(handler.job) \/ UNCHANGED auxJobs)
      BY <1>12 DEF HandlerEnd, loopVars
    <2> HIDE DEF Goal
    <2> QED
      BY <1>1, <1>3, <2>1, <2>2
  <1>13. ASSUME NEW j \in Job, JsSet(j) \/ JsClear(j) PROVE Goal
    BY <1>1, <1>3, <1>13 DEF JsSet, JsClear, loopVars
  <1>14. CASE RunAuxEnd \/ Finish \/ MainReturns \/ Exit
    BY <1>1, <1>14 DEF RunAuxEnd, Finish, MainReturns, Exit
  <1>15. CASE UNCHANGED vars
    BY <1>1, <1>15 DEF vars, loopVars
  <1>16. CASE SetTimerCounts
    <2>1. <<"count", None>> \in Aux
      BY AuxTypes
    <2> HIDE DEF Goal
    <2> QED
      BY <1>2, <1>16, <2>1 DEF SetTimerCounts, loopVars
  <1> HIDE DEF Goal
  <1> QED
    BY <1>4, <1>5, <1>6, <1>7, <1>8, <1>9, <1>10, <1>11, <1>12, <1>13, <1>14, <1>15, <1>16, Zenon
       DEF Next, LoopRuns

LEMMA NumberedStep ==
  ASSUME Shape, Shape', Numbered, [Next]_vars
  PROVE  /\ Numbered'
         /\ [Queue!Submit \/ Queue!RunNext]_<<Waiting, ran>>
  <1>1. ran \in Nat /\ calls \in Nat
    BY DEF Shape, TypeOK
  <1>2. Waiting \in Seq(Nat)
    BY EntriesType, CallsInType DEF Shape, Waiting
  <1>w. Waiting' \in Seq(Nat)
    <2>1. Entries' \in Seq(Aux)
      BY ConcatProperties DEF Shape, TypeOK, Entries
    <2> QED
      BY <2>1, CallsInType DEF Waiting
  <1>3. Len(Waiting) = calls - ran /\ \A i \in 1..Len(Waiting) : Waiting[i] = ran + i
    BY DEF Numbered, Waiting
  <1>4. Numbered' <=> (Len(Waiting') = calls' - ran' /\ \A i \in 1..Len(Waiting') : Waiting'[i] = ran' + i)
    BY DEF Numbered, Waiting
  <1>5. CASE Waiting' = Waiting /\ UNCHANGED <<ran, calls>>
    BY <1>3, <1>4, <1>5
  <1>6. CASE Waiting' = Append(Waiting, calls + 1) /\ calls' = calls + 1 /\ UNCHANGED ran
    <2>1. ran + Len(Waiting) + 1 = calls + 1 /\ calls + 1 \in Nat
      BY <1>1, <1>3
    <2>2. Queue!Submit
      BY <1>6, <2>1 DEF Queue!Submit, Waiting, Entries
    <2>3. /\ Len(Waiting') = Len(Waiting) + 1
          /\ \A i \in 1..Len(Waiting) : Waiting'[i] = Waiting[i]
          /\ Waiting'[Len(Waiting) + 1] = calls + 1
      BY <1>2, <1>6, <2>1, AppendProperties
    <2>4. Numbered'
      BY <1>1, <1>2, <1>3, <1>4, <1>6, <2>3
    <2> QED
      BY <2>2, <2>4
  <1>7. CASE Waiting = <<ran'>> \o Waiting' /\ ran' \in Nat /\ UNCHANGED calls
    <2>1. <<ran'>> \in Seq(Nat) /\ Len(<<ran'>>) = 1
      BY <1>7
    <2>2. /\ Len(Waiting) = 1 + Len(Waiting') /\ Len(Waiting') \in Nat
          /\ Waiting[1] = ran'
          /\ \A i \in 1..Len(Waiting') : Waiting[i + 1] = Waiting'[i]
      BY <1>w, <1>7, <2>1, ConcatProperties
    <2>3. ran' = ran + 1
      BY <1>3, <2>2
    <2>4. Numbered'
      BY <1>1, <1>3, <1>4, <1>7, <2>2, <2>3
    <2>5. Waiting # <<>> /\ Head(Waiting) = ran'
      BY <1>2, <2>2
    <2>6. Tail(Waiting) = Waiting'
      <3>1. /\ Tail(Waiting) \in Seq(Nat) /\ Len(Tail(Waiting)) = Len(Waiting')
            /\ \A i \in 1..Len(Tail(Waiting)) : Tail(Waiting)[i] = Waiting[i + 1]
        BY <1>2, <2>2, <2>5, HeadTailProperties
      <3> QED
        BY <1>w, <2>2, <3>1, SeqEqual
    <2>7. Queue!RunNext
      BY <2>5, <2>6 DEF Queue!RunNext, Waiting, Entries
    <2> QED
      BY <2>4, <2>7
  <1> QED
    BY <1>5, <1>6, <1>7, QueueStep

LEMMA NumberedInit == Init => Numbered /\ Queue!Init
  <1> SUFFICES ASSUME Init PROVE Numbered /\ Queue!Init
    OBVIOUS
  <1>1. Entries = <<>>
    BY DEF Init, Entries
  <1>2. CallsIn(Entries) = <<>>
    BY <1>1, CallsInEmpty
  <1> QED
    BY <1>2 DEF Init, Numbered, Queue!Init, Entries

\* The functions given to RunOnLoop run in the order of the calls, each once: the
\* event loop implements the queue of CallQueue, through every stop and start,
\* for any number of calls.
THEOREM CallsAlwaysKeepOrder == Spec => CallsKeepOrder
  <1>1. Init => Numbered /\ Queue!Init
    BY NumberedInit
  <1>2. IInv /\ IInv' /\ Numbered /\ [Next]_vars
          => Numbered' /\ [Queue!Submit \/ Queue!RunNext]_<<CallsIn(batch \o auxJobs), ran>>
    BY NumberedStep DEF IInv, Waiting, Entries
  <1> QED
    BY <1>1, <1>2, InvariantHolds, PTL DEF Spec, CallsKeepOrder, Queue!Spec
==============================================================================
