------------------------------ MODULE EventLoop ------------------------------
(***************************************************************************)
(* The event loop of pkg/eventloop, which runs a module's delayed jobs.    *)
(*                                                                         *)
(* Three goroutines meet here.  The loop (run) executes the jobs; the      *)
(* request that borrowed the runtime starts and stops the loop and, between*)
(* the two, calls the module's functions itself, beside the loop; a timer  *)
(* or an interval has a goroutine that hands its job over on jobChan.      *)
(* Outside the loop and the request, any goroutine may call the exported   *)
(* operations.                                                             *)
(***************************************************************************)
EXTENDS Integers, Sequences, FiniteSets

CONSTANTS
    Timeout, Interval, Immediate,   \* the jobs a behaviour may create, by kind
    MaxJobs,                        \* bound on the jobs created
    MaxCalls,                       \* bound on the calls of RunOnLoop
    None                            \* no job

Job == Timeout \cup Interval \cup Immediate

ASSUME JobAssumption ==
    /\ MaxJobs \in Nat /\ MaxCalls \in Nat
    /\ None \notin Job
    /\ Timeout \cap Interval = {} /\ Interval \cap Immediate = {} /\ Timeout \cap Immediate = {}

VARIABLES
    pc,          \* where the loop's goroutine is
    batch,       \* the rest of the jobs runAux took
    first,       \* the runAux at the beginning of run has not ended
    cur,         \* the job whose function is running, or None
    jobCount, canRun, auxJobs, running,
    wakeupChan,  \* the channel of capacity one holds a token
    background,  \* inBackground
    caller,      \* "idle", or in "Stop", or in "Run"
    status,      \* per job: "new", "live", or "cancelled"
    thread,      \* per job, its goroutine: "none", "armed", "sending", "ended"
    handler,     \* an operation of the request's own JavaScript under way
    ran, calls,  \* the functions of RunOnLoop: number of the last run, given
    setting,     \* calls of SetTimeout and SetInterval between their two steps
    miscounted   \* jobCount was written by a race or twice for one job

loopVars == <<pc, batch, first, cur, background>>
jobVars == <<status, thread>>
vars == <<loopVars, jobCount, canRun, auxJobs, running, wakeupChan, caller, jobVars,
          handler, ran, calls, setting, miscounted>>

\* An entry of auxJobs: a function of RunOnLoop, or what an operation left for
\* the loop to do with a job.
Aux ==
    ({"call"} \X (1..MaxCalls))
    \cup ({"count"} \X {None}) \cup ({"clear"} \X (Timeout \cup Interval))
    \cup ({"immediate"} \X Immediate)
NoOp == [op |-> "none", job |-> None, read |-> 0]

Init ==
    /\ pc = "off" /\ batch = <<>> /\ first = FALSE /\ cur = None /\ background = FALSE
    /\ jobCount = 0 /\ canRun = 0 /\ auxJobs = <<>> /\ running = FALSE
    /\ wakeupChan = FALSE
    /\ caller = "idle"
    /\ status = [j \in Job |-> "new"] /\ thread = [j \in Job |-> "none"]
    /\ handler = NoOp
    /\ ran = 0 /\ calls = 0 /\ setting = 0
    /\ miscounted = FALSE

-----------------------------------------------------------------------------
(* Jobs *)

\* A job not used before, nor about to be created by the request.
Fresh(j) ==
    /\ status[j] = "new" /\ handler.job # j
    /\ Cardinality({i \in Job : status[i] # "new"} \cup ({handler.job} \ {None})) < MaxJobs

\* Mutant of addAuxJob: the loop is not woken.
addAuxJobSilent(entry) == auxJobs' = Append(auxJobs, entry) /\ UNCHANGED wakeupChan

\* wakeup comes with it; a second token is dropped.
addAuxJob(entry) == auxJobs' = Append(auxJobs, entry) /\ wakeupChan' = TRUE

\* addTimeout, addInterval and addImmediate, for a job of that kind.
Create(j) ==
    /\ status' = [status EXCEPT ![j] = "live"]
    /\ IF j \in Immediate
       THEN addAuxJob(<<"immediate", j>>) /\ UNCHANGED thread
       ELSE thread' = [thread EXCEPT ![j] = "armed"] /\ UNCHANGED <<auxJobs, wakeupChan>>

\* What clearTimeout, clearInterval and clearImmediate do but for jobCount: a
\* timer that has not fired is stopped, an interval's stopChan is closed.
Cancel(j) ==
    /\ status' = [status EXCEPT ![j] = "cancelled"]
    /\ thread' = [thread EXCEPT ![j] = IF j \in Timeout /\ @ = "armed" THEN "ended" ELSE @]

-----------------------------------------------------------------------------
(* Starting and stopping.  setRunning panics when the loop runs, and nothing *)
(* changes then.                                                             *)

setRunning ==
    /\ ~running /\ caller = "idle"
    /\ running' = TRUE
    /\ canRun' = 1

Start ==
    /\ setRunning
    /\ background' = TRUE
    /\ pc' = "begin" /\ first' = TRUE
    /\ UNCHANGED <<batch, cur, jobCount, auxJobs, wakeupChan, caller, jobVars,
                   handler, ran, calls, setting, miscounted>>

\* The function given to Run is executed before the loop begins.
Run ==
    /\ setRunning
    /\ background' = FALSE
    /\ caller' = "Run"
    /\ pc' = "main" /\ first' = TRUE
    /\ UNCHANGED <<batch, cur, jobCount, auxJobs, wakeupChan, jobVars,
                   handler, ran, calls, setting, miscounted>>

\* Stop of a running loop; on another it returns at once.
StopCall ==
    /\ caller = "idle" /\ handler = NoOp /\ running
    /\ canRun' = 0 /\ wakeupChan' = TRUE
    /\ caller' = "Stop"
    /\ UNCHANGED <<loopVars, jobCount, auxJobs, running, jobVars, handler, ran, calls, setting,
                   miscounted>>

\* Stop after the broadcast, and the end of Run.
StopReturn ==
    /\ caller \in {"Stop", "Run"} /\ ~running /\ pc = "off"
    /\ caller' = "idle"
    /\ UNCHANGED <<loopVars, jobCount, canRun, auxJobs, running, wakeupChan, jobVars,
                   handler, ran, calls, setting, miscounted>>

StopNoWait ==
    /\ running
    /\ canRun' = 0 /\ wakeupChan' = TRUE
    /\ UNCHANGED <<loopVars, jobCount, auxJobs, running, caller, jobVars, handler, ran,
                   calls, setting, miscounted>>

-----------------------------------------------------------------------------
(* Operations from any goroutine *)

RunOnLoop ==
    /\ calls < MaxCalls
    /\ calls' = calls + 1
    /\ addAuxJob(<<"call", calls + 1>>)
    /\ UNCHANGED <<loopVars, jobCount, canRun, running, caller, jobVars, handler, ran,
                   setting, miscounted>>

\* SetTimeout and SetInterval arm the timer first and leave the counting to the
\* loop then: the timer may fire, and its job run, before either.
SetTimer(j) ==
    /\ Fresh(j)
    /\ status' = [status EXCEPT ![j] = "live"]
    /\ thread' = [thread EXCEPT ![j] = "armed"]
    /\ setting' = setting + 1
    /\ UNCHANGED <<loopVars, jobCount, canRun, auxJobs, running, wakeupChan, caller, handler, ran,
                   calls, miscounted>>

SetTimerCounts ==
    /\ setting > 0
    /\ setting' = setting - 1
    /\ addAuxJob(<<"count", None>>)
    /\ UNCHANGED <<loopVars, jobCount, canRun, running, caller, jobVars, handler, ran, calls,
                   miscounted>>

\* ClearTimeout and ClearInterval.  Of several clears of one job only the first
\* finds it live.  Here a clear may also overtake the count of its own timer.
ClearTimer(j) ==
    /\ status[j] = "live"
    /\ \A i \in DOMAIN (batch \o auxJobs) : (batch \o auxJobs)[i] # <<"clear", j>>
    /\ addAuxJob(<<"clear", j>>)
    /\ UNCHANGED <<loopVars, jobCount, canRun, running, caller, jobVars, handler, ran, calls, setting,
                   miscounted>>

-----------------------------------------------------------------------------
(* The request's JavaScript, beside the loop: jobCount is read and written   *)
(* without a lock.                                                           *)

HandlerBegin(op, j) ==
    /\ running /\ background /\ caller = "idle" /\ handler = NoOp
    /\ IF op = "set" THEN Fresh(j) ELSE status[j] = "live"
    /\ handler' = [op |-> op, job |-> j, read |-> jobCount]
    /\ UNCHANGED <<loopVars, jobCount, canRun, auxJobs, running, wakeupChan, caller, jobVars,
                   ran, calls, setting, miscounted>>

\* If the loop wrote jobCount in between, or may be writing it, either update
\* may be lost.  Nor is it known what follows when the loop has cleared the job in
\* between: it is uncounted twice, and an interval's channel, closed twice, panics.
HandlerEnd ==
    LET j == handler.job
        d == IF handler.op = "set" THEN 1 ELSE -1
        raced == jobCount # handler.read \/ pc \notin {"begin", "select"}
    IN /\ handler # NoOp
       /\ jobCount' \in {jobCount + d} \cup
                        (IF raced THEN {handler.read + d, jobCount} ELSE {})
       /\ miscounted' = (miscounted \/ raced \/ (handler.op = "clear" /\ status[j] # "live"))
       /\ IF handler.op = "set" THEN Create(j)
          ELSE Cancel(j) /\ UNCHANGED <<auxJobs, wakeupChan>>
       /\ handler' = NoOp
       /\ UNCHANGED <<loopVars, canRun, running, caller, ran, calls, setting>>

-----------------------------------------------------------------------------
(* Goroutines of timers and intervals *)

\* The time is up: the goroutine stands in its send to jobChan.
Fire(j) ==
    /\ thread[j] = "armed"
    /\ thread' = [thread EXCEPT ![j] = "sending"]
    /\ UNCHANGED <<loopVars, jobCount, canRun, auxJobs, running, wakeupChan, caller, status,
                   handler, ran, calls, setting, miscounted>>

\* Interval.run reads stopChan; it does so only when it is not sending.
IntervalStops(j) ==
    /\ j \in Interval /\ thread[j] = "armed" /\ status[j] = "cancelled"
    /\ thread' = [thread EXCEPT ![j] = "ended"]
    /\ UNCHANGED <<loopVars, jobCount, canRun, auxJobs, running, wakeupChan, caller, status,
                   handler, ran, calls, setting, miscounted>>

-----------------------------------------------------------------------------
(* The loop *)

\* The condition of the for statement.
LoopTest(count) == IF count > 0 THEN "select" ELSE "exit"

\* Mutant of RunAuxTake: the batch of the round before is left in auxJobs.
RunAuxTakeKeeping ==
    /\ batch' = auxJobs
    /\ pc' = "aux"
    /\ UNCHANGED <<first, cur, background, jobCount, canRun, auxJobs, running, caller, jobVars,
                   handler, ran, calls, setting, miscounted>>

\* runAux takes what there is; later entries wait for the next wakeup.
RunAuxTake ==
    /\ batch' = auxJobs /\ auxJobs' = <<>>
    /\ pc' = "aux"
    /\ UNCHANGED <<first, cur, background, jobCount, canRun, running, caller, jobVars, handler, ran,
                   calls, setting, miscounted>>

Begin == pc = "begin" /\ RunAuxTake /\ UNCHANGED wakeupChan
Wake == pc = "select" /\ wakeupChan /\ wakeupChan' = FALSE /\ RunAuxTake

\* A job of the batch that does not run JavaScript: a count, a clear, and an
\* immediate that was cleared.
RunAuxEntry ==
    LET j == Head(batch)[2]
        clears == Head(batch)[1] = "clear" /\ status[j] = "live"
    IN /\ pc = "aux" /\ batch # <<>>
       /\ \/ Head(batch)[1] \in {"count", "clear"}
          \/ Head(batch)[1] = "immediate" /\ status[j] = "cancelled"
       /\ batch' = Tail(batch)
       /\ jobCount' = jobCount + (IF Head(batch)[1] = "count" THEN 1
                                  ELSE IF clears THEN -1 ELSE 0)
       /\ IF clears THEN Cancel(j) ELSE UNCHANGED jobVars
       /\ UNCHANGED <<pc, first, cur, background, canRun, auxJobs, running, wakeupChan,
                      caller, handler, ran, calls, setting, miscounted>>

\* A function of RunOnLoop.
RunAuxCall ==
    /\ pc = "aux" /\ batch # <<>> /\ Head(batch)[1] = "call"
    /\ ran' = Head(batch)[2]
    /\ batch' = Tail(batch)
    /\ pc' = "main-aux"
    /\ UNCHANGED <<first, cur, background, jobCount, canRun, auxJobs, running, wakeupChan,
                   caller, jobVars, handler, calls, setting, miscounted>>

RunAuxImmediate ==
    /\ pc = "aux" /\ batch # <<>> /\ Head(batch)[1] = "immediate"
    /\ status[Head(batch)[2]] = "live"
    /\ cur' = Head(batch)[2]
    /\ batch' = Tail(batch)
    /\ pc' = "job"
    /\ UNCHANGED <<first, background, jobCount, canRun, auxJobs, running, wakeupChan, caller,
                   jobVars, handler, ran, calls, setting, miscounted>>

\* The end of runAux: after the first, the loop counts itself; after another it
\* looks at canRun.
RunAuxEnd ==
    LET count == jobCount + (IF first /\ background THEN 1 ELSE 0)
    IN /\ pc = "aux" /\ batch = <<>>
       /\ jobCount' = count
       /\ pc' = IF ~first /\ canRun = 0 THEN "exit" ELSE LoopTest(count)
       /\ first' = FALSE
       /\ UNCHANGED <<batch, cur, background, canRun, auxJobs, running, wakeupChan,
                      caller, jobVars, handler, ran, calls, setting, miscounted>>

\* A job arrives on jobChan: doTimeout or doInterval.  A timer's goroutine ends
\* with it, an interval's waits for its next tick.
Receive(j) ==
    /\ pc = "select" /\ thread[j] = "sending"
    /\ thread' = [thread EXCEPT ![j] = IF j \in Timeout THEN "ended" ELSE "armed"]
    /\ IF status[j] = "live"
       THEN cur' = j /\ pc' = "job"
       ELSE cur' = None /\ pc' = LoopTest(jobCount)
    /\ UNCHANGED <<batch, first, background, jobCount, canRun, auxJobs, running, wakeupChan,
                   caller, status, handler, ran, calls, setting, miscounted>>

\* JavaScript that runs on the loop sets a job, or clears one.
InLoop == pc \in {"main", "main-aux", "job"}

JsSet(j) ==
    /\ InLoop /\ Fresh(j)
    /\ jobCount' = jobCount + 1
    /\ Create(j)
    /\ UNCHANGED <<loopVars, canRun, running, caller, handler, ran, calls, setting, miscounted>>

\* Mutant of JsClear: jobCount is decremented for a job cleared before, too.
JsClearTwice(j) ==
    /\ InLoop /\ status[j] # "new" /\ jobCount > -2
    /\ jobCount' = jobCount - 1
    /\ Cancel(j)
    /\ UNCHANGED <<loopVars, canRun, auxJobs, running, wakeupChan, caller, handler, ran,
                   calls, setting, miscounted>>

JsClear(j) ==
    /\ InLoop /\ status[j] = "live"
    /\ jobCount' = jobCount - 1
    /\ Cancel(j)
    /\ UNCHANGED <<loopVars, canRun, auxJobs, running, wakeupChan, caller, handler, ran,
                   calls, setting, miscounted>>

\* The function of a timeout or an immediate has returned: the job is over, and
\* not counted any more; it is so a second time when the function cleared it.
Finish ==
    /\ pc = "job"
    /\ IF cur \in Interval
       THEN UNCHANGED <<status, jobCount, miscounted>>
       ELSE /\ status' = [status EXCEPT ![cur] = "cancelled"]
            /\ jobCount' = jobCount - 1
            /\ miscounted' = (miscounted \/ status[cur] # "live")
    /\ cur' = None
    /\ pc' = IF cur \in Immediate THEN "aux" ELSE LoopTest(jobCount')
    /\ UNCHANGED <<batch, first, background, canRun, auxJobs, running, wakeupChan, caller,
                   thread, handler, ran, calls, setting>>

\* The function given to Run or to RunOnLoop has returned.
MainReturns ==
    /\ pc \in {"main", "main-aux"}
    /\ pc' = IF pc = "main" THEN "begin" ELSE "aux"
    /\ UNCHANGED <<batch, first, cur, background, jobCount, canRun, auxJobs, running,
                   wakeupChan, caller, jobVars, handler, ran, calls, setting, miscounted>>

Exit ==
    /\ pc = "exit"
    /\ jobCount' = jobCount - (IF background THEN 1 ELSE 0)
    /\ running' = FALSE
    /\ pc' = "off" /\ background' = FALSE
    /\ UNCHANGED <<batch, first, cur, canRun, auxJobs, wakeupChan, caller, jobVars, handler,
                   ran, calls, setting, miscounted>>

-----------------------------------------------------------------------------
LoopRuns ==
    \/ Begin \/ RunAuxEntry \/ RunAuxCall \/ RunAuxImmediate \/ RunAuxEnd
    \/ Finish \/ MainReturns \/ Exit

Next ==
    \/ Start \/ Run \/ StopCall \/ StopReturn \/ StopNoWait \/ RunOnLoop
    \/ LoopRuns \/ Wake \/ HandlerEnd \/ SetTimerCounts
    \/ \E j \in Timeout \cup Interval : SetTimer(j) \/ ClearTimer(j) \/ Fire(j) \/ Receive(j)
    \/ \E j \in Interval : IntervalStops(j)
    \/ \E j \in Job : JsSet(j) \/ JsClear(j) \/ \E op \in {"set", "clear"} : HandlerBegin(op, j)

Spec == Init /\ [][Next]_vars

\* The loop's goroutine and the request's own go on; select is random, so a case
\* that is ready again and again is taken; timers fire.
Fairness ==
    /\ WF_vars(LoopRuns)
    /\ WF_vars(HandlerEnd) /\ WF_vars(StopReturn)
    /\ SF_vars(Wake)
    /\ \A j \in Timeout \cup Interval :
          /\ WF_vars(Fire(j))
          /\ SF_vars(Receive(j))
    /\ \A j \in Interval : SF_vars(IntervalStops(j))

FairSpec == Spec /\ Fairness

-----------------------------------------------------------------------------
(* Properties *)

\* Every variable of the event loop has its type.
TypeOK ==
    /\ pc \in {"off", "begin", "main", "main-aux", "aux", "select", "job", "exit"}
    /\ batch \in Seq(Aux) /\ auxJobs \in Seq(Aux)
    /\ first \in BOOLEAN /\ background \in BOOLEAN /\ miscounted \in BOOLEAN
    /\ cur \in Job \cup {None}
    /\ jobCount \in Int /\ canRun \in {0, 1}
    /\ running \in BOOLEAN /\ wakeupChan \in BOOLEAN
    /\ caller \in {"idle", "Stop", "Run"}
    /\ status \in [Job -> {"new", "live", "cancelled"}]
    /\ thread \in [Job -> {"none", "armed", "sending", "ended"}]
    /\ handler \in [op : {"none", "set", "clear"}, job : Job \cup {None}, read : Int]
    /\ ran \in 0..MaxCalls /\ calls \in 0..MaxCalls /\ setting \in Nat

\* The live jobs, and those among the entries still to be run that will be
\* counted.
Live == {j \in Job : status[j] = "live"}
ToCount(s) == {i \in DOMAIN s : s[i][1] = "count"}

\* The loop in the background has counted itself.
SelfCounted == background /\ ~first

\* jobCount is the number of jobs still to come, those not yet counted aside:
\* this is why the loop neither ends early nor hangs after the last job.  It
\* fails only after a race of the request with the loop, or after the function
\* of a job cleared its own job.
CountsLiveJobs ==
    \/ miscounted
    \/ jobCount + Cardinality(ToCount(batch)) + Cardinality(ToCount(auxJobs)) + setting
         = Cardinality(Live) + (IF SelfCounted THEN 1 ELSE 0)

\* "The loop continues to run until Stop() is called", and Run ends when no job
\* is left: the loop leaves unasked only when jobCount was wrong, or a timer set
\* from outside ran before the loop had counted it.
RunsUntilStopped ==
    (pc = "exit" /\ canRun = 1) =>
        \/ miscounted
        \/ ToCount(auxJobs) # {} \/ setting > 0
        \/ ~background /\ Live = {}

\* The variables have their types, and the loop keeps count of its jobs and ends
\* by that count.
LoopKeepsCount == TypeOK /\ CountsLiveJobs /\ RunsUntilStopped

\* Stop returns, whatever jobs, timers and calls keep the loop busy.
StopReturns == caller = "Stop" ~> caller = "idle"

\* The functions given to RunOnLoop all run, unless the loop is ended.
CallsRun == ran < calls ~> (ran = calls \/ ~running)

\* The goroutine of a cleared interval ends while the loop runs, also when it
\* was about to hand over a job.
IntervalsEnd ==
    \A j \in Interval : status[j] = "cancelled" ~> (thread[j] = "ended" \/ ~running)

\* Nobody waits for ever: not for the end of the loop, nor for a function or the
\* goroutine of an interval.
NobodyWaits == StopReturns /\ CallsRun /\ IntervalsEnd

\* The numbers of the functions of RunOnLoop among some entries, in their order.
CallsIn(s) ==
    LET upTo[i \in 0..Len(s)] ==
          IF i = 0 THEN <<>>
          ELSE IF s[i][1] = "call" THEN Append(upTo[i - 1], s[i][2]) ELSE upTo[i - 1]
    IN upTo[Len(s)]

\* RunOnLoop keeps the order of the calls, and loses or repeats none of them,
\* through every stop and start of the loop.
Queue == INSTANCE CallQueue WITH waiting <- CallsIn(batch \o auxJobs), ran <- ran
CallsKeepOrder == Queue!Spec
=============================================================================
