-------------------------- MODULE JobQueue_proofs --------------------------
(***************************************************************************)
(* Proofs about JobQueue, for any finite set of jobs, any dependencies,    *)
(* channels, capacities and workers, and any number of troubles; and about *)
(* JobGraphs, for any number of delayables, parts, calls and records.      *)
(***************************************************************************)
EXTENDS JobQueue, JobGraphs, Sums, FiniteSetTheorems, WellFoundedInduction, TLAPS

USE DEF tableVars, channelVars, historyVars

-----------------------------------------------------------------------------
(* The order of the jobs.                                                  *)

\* A set of natural numbers has a least element.
LEMMA LeastNat ==
    ASSUME NEW T \in SUBSET Nat, T # {}
    PROVE  \E n \in T : \A m \in T : n <= m
<1> DEFINE R == OpToRel(<, Nat)
<1>1. IsWellFoundedOn(R, Nat)
  BY NatLessThanWellFounded
<1>2. \A m, n \in Nat : m < n => <<m, n>> \in R
  BY DEF OpToRel
<1> HIDE DEF R
<1>3. PICK n \in T : \A m \in T : <<m, n>> \notin R
  BY <1>1, WFMin
<1>4. \A m \in T : n <= m
  <2> TAKE m \in T
  <2>1. m \in Nat /\ n \in Nat
    OBVIOUS
  <2>2. ~(m < n)
    BY <1>2, <1>3, <2>1
  <2> QED
    BY <2>1, <2>2
<1> QED
  BY <1>4

\* The first of some jobs is one of them.
LEMMA FirstIsIn ==
    ASSUME NEW js \in SUBSET Jobs, js # {}
    PROVE  First(js) \in js
<1> DEFINE T == {Rank[j] : j \in js}
<1>1. T \in SUBSET Nat /\ T # {}
  BY JobQueueAssumption
<1>2. PICK n \in T : \A m \in T : n <= m
  <2> HIDE DEF T
  <2> QED
    BY <1>1, LeastNat
<1>3. \E j \in js : \A k \in js : Rank[j] <= Rank[k]
  BY <1>2
<1> QED
  BY <1>3 DEF First

-----------------------------------------------------------------------------
(* Types.                                                                  *)

WorkerRec == {Idle} \cup [pc : {"locking", "performing", "closing", "releasing"},
                          job : Jobs, try : Nat, ready : BOOLEAN]

ClickRec == {NoClick} \cup [kind : {"done", "cancel", "requeue"}, job : Jobs,
                            seen : [Jobs -> States]]

Typed ==
    /\ state \in [Jobs -> States]
    /\ retry \in [Jobs -> Nat]
    /\ eta \in [Jobs -> {"none", "future", "past"}]
    /\ lock \in [Jobs -> Workers \cup {Nobody}]
    /\ runner \in {"down", "started", "notify", "run"}
    /\ queue \in [Channels -> SUBSET Jobs]
    /\ run \in [Channels -> SUBSET Jobs]
    /\ failed \in [Channels -> SUBSET Jobs]
    /\ fresh \in [Jobs -> BOOLEAN]
    /\ notified \in SUBSET Jobs
    /\ requests \in [Jobs -> 0 .. MaxRequests]
    /\ worker \in [Workers -> WorkerRec]
    /\ click \in ClickRec
    /\ finished \in [Jobs -> Nat]
    /\ asked \in [Jobs -> Nat]
    /\ conflicts \in [Jobs -> Nat]
    /\ everDone \in [Jobs -> BOOLEAN]

\* A worker that is not idle is about a job.
LEMMA BusyWorker ==
    ASSUME Typed, NEW w \in Workers, worker[w].pc # "idle"
    PROVE  /\ worker[w] \in [pc : {"locking", "performing", "closing", "releasing"},
                             job : Jobs, try : Nat, ready : BOOLEAN]
           /\ worker[w].job \in Jobs /\ worker[w].try \in Nat /\ worker[w].ready \in BOOLEAN
BY DEF Typed, WorkerRec, Idle

\* A click that is open is about a job, and keeps a table.
LEMMA OpenClick ==
    ASSUME Typed, click.kind # "none"
    PROVE  /\ click \in [kind : {"done", "cancel", "requeue"}, job : Jobs,
                         seen : [Jobs -> States]]
           /\ click.kind \in {"done", "cancel", "requeue"} /\ click.job \in Jobs
           /\ click.seen \in [Jobs -> States]
BY DEF Typed, ClickRec, NoClick

\* The sets of a channel stay sets of jobs.
LEMMA ChannelSets ==
    ASSUME NEW f \in [Channels -> SUBSET Jobs], NEW j \in Jobs, NEW cs
    PROVE  /\ Without(f, j, cs) \in [Channels -> SUBSET Jobs]
           /\ With(f, j, cs) \in [Channels -> SUBSET Jobs]
BY DEF Without, With

\* A notification leaves sets of jobs in the channels.
LEMMA HandledSets ==
    ASSUME Typed, NEW j \in Jobs, HandleNotification(j)
    PROVE  /\ queue' \in [Channels -> SUBSET Jobs]
           /\ run' \in [Channels -> SUBSET Jobs]
           /\ failed' \in [Channels -> SUBSET Jobs]
<1> USE DEF Typed
<1>1. CASE Forget(j)
  BY <1>1, ChannelSets DEF Forget
<1>2. CASE SetPending(j)
  <2>1. Without(queue, j, {Root}) \in [Channels -> SUBSET Jobs]
    BY ChannelSets
  <2> QED
    BY <1>2, <2>1, ChannelSets DEF SetPending
<1>3. CASE SetRunning(j)
  BY <1>3, ChannelSets DEF SetRunning
<1>4. CASE SetFailed(j)
  <2>1. Without(failed, j, {Root}) \in [Channels -> SUBSET Jobs]
    BY ChannelSets
  <2> QED
    BY <1>4, <2>1, ChannelSets DEF SetFailed
<1>5. CASE UNCHANGED <<queue, run, failed>>
  BY <1>5
<1> QED
  BY <1>1, <1>2, <1>3, <1>4, <1>5 DEF HandleNotification

\* The runner is notified of jobs.
LEMMA NotifyType ==
    ASSUME Typed, NEW js \in SUBSET Jobs, Notify(js)
    PROVE  notified' \in SUBSET Jobs
BY DEF Typed, Notify

\* The initial state is well typed.
LEMMA InitTyped == JobInit => Typed
BY JobQueueAssumption DEF JobInit, Typed, States, WorkerRec, Idle, ClickRec, NoClick

\* Every step keeps the types.
LEMMA StepTyped == Typed /\ [JobNext]_jobVars => Typed'
<1> SUFFICES ASSUME Typed, [JobNext]_jobVars
             PROVE  Typed'
  OBVIOUS
<1>1. ASSUME NEW g \in Graphs, DelayGraph(g)
      PROVE  Typed'
  <2>1. g \in SUBSET Jobs
    BY JobQueueAssumption
  <2>2. notified' \in SUBSET Jobs
    BY <1>1, <2>1, NotifyType DEF DelayGraph
  <2> QED
    BY <1>1, <2>1, <2>2 DEF Typed, DelayGraph, States
<1>2. ASSUME NEW j \in Jobs, ProcessNotification(j)
      PROVE  Typed'
  BY <1>2, HandledSets DEF Typed, ProcessNotification
<1>3. CASE EnterRun
  <2> DEFINE all == UNION {Yielded(c) : c \in Subchannels}
  <2>1. \A c \in Channels : Yielded(c) \in SUBSET Jobs
    BY DEF Typed, Yielded, Ready
  <2>2. all \in SUBSET Jobs
    BY <2>1 DEF Channels
  <2>3. /\ queue' = [c \in Channels |-> IF c = Root THEN queue[c] \cup all ELSE queue[c] \ all]
        /\ run' = [c \in Channels |-> IF c = Root THEN run[c] ELSE run[c] \cup Yielded(c)]
        /\ fresh' = [j \in Jobs |-> fresh[j] /\ ~(j \in all /\ eta[j] = "past")]
    BY <1>3 DEF EnterRun
  <2> HIDE DEF all
  <2>4. queue' \in [Channels -> SUBSET Jobs] /\ run' \in [Channels -> SUBSET Jobs]
    BY <2>1, <2>2, <2>3 DEF Typed
  <2>5. fresh' \in [Jobs -> BOOLEAN]
    BY <2>3
  <2> QED
    BY <1>3, <2>4, <2>5 DEF Typed, EnterRun
<1>4. CASE Dispatch
  <2> DEFINE j == First(Ready(Root))
  <2>1. j \in Jobs
    <3>1. Ready(Root) \in SUBSET Jobs /\ Ready(Root) # {}
      BY <1>4 DEF Dispatch, CanDispatch, Ready, Typed, Channels
    <3> QED
      BY <3>1, FirstIsIn
  <2>2. /\ requests[j] < MaxRequests
        /\ queue' = Without(queue, j, {Root})
        /\ run' = With(run, j, {Root})
        /\ fresh' = [fresh EXCEPT ![j] = @ /\ eta[j] # "past"]
        /\ state' = [state EXCEPT ![j] = "enqueued"]
        /\ requests' = [requests EXCEPT ![j] = @ + 1]
        /\ Notify({j})
    BY <1>4 DEF Dispatch
  <2> HIDE DEF j
  <2>3. notified' \in SUBSET Jobs
    BY <2>1, <2>2, NotifyType
  <2>4. queue' \in [Channels -> SUBSET Jobs] /\ run' \in [Channels -> SUBSET Jobs]
    BY <2>1, <2>2, ChannelSets DEF Typed
  <2>5. requests' \in [Jobs -> 0 .. MaxRequests]
    BY <2>1, <2>2, JobQueueAssumption DEF Typed
  <2>6. fresh' \in [Jobs -> BOOLEAN] /\ state' \in [Jobs -> States]
    BY <2>1, <2>2 DEF Typed, States
  <2> QED
    BY <1>4, <2>3, <2>4, <2>5, <2>6 DEF Typed, Dispatch
<1>5. CASE StartRunner
  BY <1>5 DEF Typed, StartRunner, Loaded
<1>6. CASE StopRunner
  BY <1>6 DEF Typed, StopRunner
<1>7. ASSUME NEW js \in SUBSET Dead, RequeueDead(js)
      PROVE  Typed'
  <2>1. js \in SUBSET Jobs
    BY DEF Dead, InFlight
  <2>2. notified' \in SUBSET Jobs
    BY <1>7, <2>1, NotifyType DEF RequeueDead
  <2>3. state' \in [Jobs -> States]
    BY <1>7 DEF RequeueDead, Typed, States
  <2>4. retry' \in [Jobs -> Nat]
    BY <1>7 DEF RequeueDead, Typed
  <2> QED
    BY <1>7, <2>2, <2>3, <2>4 DEF Typed, RequeueDead
<1>8. ASSUME NEW w \in Workers, NEW j \in Jobs, Acquire(w, j)
      PROVE  Typed'
  <2>1. requests' \in [Jobs -> 0 .. MaxRequests]
    BY <1>8, JobQueueAssumption DEF Acquire, Typed
  <2>2. CASE /\ state' = [state EXCEPT ![j] = "started"]
             /\ worker' = [worker EXCEPT ![w] = Busy("locking", j, retry[j], ParentsDone(j, state))]
             /\ Notify({j})
    <3>1. notified' \in SUBSET Jobs
      BY <2>2, NotifyType
    <3>2. ParentsDone(j, state) \in BOOLEAN
      BY DEF ParentsDone
    <3>3. Busy("locking", j, retry[j], ParentsDone(j, state)) \in WorkerRec
      BY <3>2 DEF Busy, WorkerRec, Typed
    <3>4. worker' \in [Workers -> WorkerRec]
      BY <2>2, <3>3 DEF Typed
    <3>5. state' \in [Jobs -> States]
      BY <2>2 DEF Typed, States
    <3> QED
      BY <1>8, <2>1, <3>1, <3>4, <3>5 DEF Typed, Acquire
  <2>3. CASE UNCHANGED <<state, worker, notified>>
    BY <1>8, <2>1, <2>3 DEF Typed, Acquire
  <2> QED
    BY <1>8, <2>2, <2>3 DEF Acquire
<1>9. ASSUME NEW w \in Workers, TakeLock(w)
      PROVE  Typed'
  <2>1. worker[w].pc # "idle"
    BY <1>9 DEF TakeLock
  <2>2. worker' \in [Workers -> WorkerRec]
    BY <1>9, <2>1, BusyWorker DEF TakeLock, Typed, WorkerRec
  <2>3. lock' \in [Jobs -> Workers \cup {Nobody}]
    BY <1>9, <2>1, BusyWorker DEF TakeLock, Typed
  <2> QED
    BY <1>9, <2>2, <2>3 DEF Typed, TakeLock
<1>10. ASSUME NEW w \in Workers, PerformDone(w)
       PROVE  Typed'
  <2>1. worker[w].pc # "idle"
    BY <1>10 DEF PerformDone
  <2> DEFINE j == worker[w].job
  <2>2. j \in Jobs /\ worker[w].try \in Nat
    BY <2>1, BusyWorker
  <2>3. worker' = [worker EXCEPT ![w].pc = "releasing"] /\ Notify({j})
    BY <1>10 DEF PerformDone
  <2>4. worker' \in [Workers -> WorkerRec]
    BY <2>1, <2>3, BusyWorker DEF Typed, WorkerRec
  <2>5. notified' \in SUBSET Jobs
    BY <2>2, <2>3, NotifyType
  <2>6. state' \in [Jobs -> States] /\ lock' \in [Jobs -> Workers \cup {Nobody}]
    BY <1>10, <2>2 DEF PerformDone, Typed, States
  <2>7. retry' \in [Jobs -> Nat] /\ finished' \in [Jobs -> Nat]
    BY <1>10, <2>2 DEF PerformDone, Typed
  <2>8. everDone' \in [Jobs -> BOOLEAN]
    BY <1>10, <2>2 DEF PerformDone, Typed
  <2> QED
    BY <1>10, <2>4, <2>5, <2>6, <2>7, <2>8 DEF Typed, PerformDone
<1>11. ASSUME NEW w \in Workers, NEW ignored \in BOOLEAN, PerformRetry(w, ignored)
       PROVE  Typed'
  <2>1. worker[w].pc # "idle"
    BY <1>11 DEF PerformRetry, Postpone
  <2> DEFINE j == worker[w].job
             try == worker[w].try + IF ignored THEN 0 ELSE 1
  <2>2. j \in Jobs /\ try \in Nat
    BY <2>1, BusyWorker
  <2>3. worker' = [worker EXCEPT ![w].pc = "closing"] /\ Notify({j})
    BY <1>11 DEF PerformRetry, Postpone
  <2>4. worker' \in [Workers -> WorkerRec]
    BY <2>1, <2>3, BusyWorker DEF Typed, WorkerRec
  <2>5. notified' \in SUBSET Jobs
    BY <2>2, <2>3, NotifyType
  <2>6. retry' = [retry EXCEPT ![j] = try] /\ eta' = [eta EXCEPT ![j] = "future"]
    BY <1>11 DEF PerformRetry, Postpone
  <2>7. state' \in [Jobs -> States]
    BY <1>11, <2>2 DEF PerformRetry, Postpone, Typed, States
  <2>8. retry' \in [Jobs -> Nat] /\ eta' \in [Jobs -> {"none", "future", "past"}]
    <3> HIDE DEF try, j
    <3> QED
      BY <2>2, <2>6 DEF Typed
  <2>9. fresh' \in [Jobs -> BOOLEAN]
    BY <1>11, <2>2 DEF PerformRetry, Postpone, Typed
  <2> QED
    BY <1>11, <2>4, <2>5, <2>7, <2>8, <2>9 DEF Typed, PerformRetry, Postpone
<1>21. ASSUME NEW w \in Workers, PerformConflict(w)
       PROVE  Typed'
  <2>1. worker[w].pc # "idle"
    BY <1>21 DEF PerformConflict
  <2>2. worker[w].job \in Jobs /\ worker[w].try \in Nat
    BY <2>1, BusyWorker
  <2>3. worker' \in [Workers -> WorkerRec] /\ lock' \in [Jobs -> Workers \cup {Nobody}]
    BY <1>21, <2>2 DEF PerformConflict, Typed, WorkerRec
  <2>4. notified' \in SUBSET Jobs
    BY <1>21, <2>2, NotifyType DEF PerformConflict, Postpone
  <2>5. state' \in [Jobs -> States]
    BY <1>21, <2>2 DEF PerformConflict, Postpone, Typed, States
  <2>6. /\ retry' \in [Jobs -> Nat] /\ eta' \in [Jobs -> {"none", "future", "past"}]
        /\ fresh' \in [Jobs -> BOOLEAN]
    BY <1>21, <2>2 DEF PerformConflict, Postpone, Typed
  <2>7. conflicts' \in [Jobs -> Nat]
    BY <1>21, <2>2 DEF PerformConflict, Typed
  <2> QED
    BY <1>21, <2>3, <2>4, <2>5, <2>6, <2>7 DEF Typed, PerformConflict
<1>12. ASSUME NEW w \in Workers, PerformFail(w)
       PROVE  Typed'
  <2>1. worker[w].pc # "idle"
    BY <1>12 DEF PerformFail
  <2>2. worker[w].job \in Jobs /\ worker[w].try \in Nat
    BY <2>1, BusyWorker
  <2>3. worker' \in [Workers -> WorkerRec]
    BY <1>12, <2>1, BusyWorker DEF PerformFail, Typed, WorkerRec
  <2>4. notified' \in SUBSET Jobs
    BY <1>12, <2>2, NotifyType DEF PerformFail
  <2>5. state' \in [Jobs -> States] /\ retry' \in [Jobs -> Nat]
    BY <1>12, <2>2 DEF PerformFail, Typed, States
  <2> QED
    BY <1>12, <2>3, <2>4, <2>5 DEF Typed, PerformFail
<1>13. ASSUME NEW w \in Workers, Close(w)
       PROVE  Typed'
  BY <1>13 DEF Typed, Close, WorkerRec
<1>14. ASSUME NEW w \in Workers, ReleaseChildren(w)
       PROVE  Typed'
  <2>1. Released(worker[w].job, state) \in SUBSET Jobs
    BY DEF Released
  <2>2. notified' \in SUBSET Jobs
    BY <1>14, <2>1, NotifyType DEF ReleaseChildren
  <2>3. state' \in [Jobs -> States]
    BY <1>14 DEF ReleaseChildren, Typed, States
  <2> QED
    BY <1>14, <2>2, <2>3 DEF Typed, ReleaseChildren, WorkerRec
<1>15. ASSUME NEW w \in Workers, KillWorker(w)
       PROVE  Typed'
  BY <1>15 DEF Typed, KillWorker, WorkerRec
<1>16. ASSUME NEW j \in Jobs, LoseRequest(j)
       PROVE  Typed'
  BY <1>16, JobQueueAssumption DEF Typed, LoseRequest
<1>17. ASSUME NEW kind \in {"done", "cancel", "requeue"}, NEW j \in Jobs, Click(kind, j)
       PROVE  Typed'
  BY <1>17 DEF Typed, Click, ClickRec
<1>18. CASE CommitClick
  <2>1. click.kind # "none"
    BY <1>18 DEF CommitClick
  <2>2. click.job \in Jobs /\ click.seen \in [Jobs -> States]
    BY <2>1, OpenClick
  <2> DEFINE st == [click.seen EXCEPT ![click.job] =
                    CASE click.kind = "done" -> "done"
                      [] click.kind = "cancel" -> "cancelled"
                      [] click.kind = "requeue" /\ ParentsDone(click.job, click.seen) -> "pending"
                      [] OTHER -> "wait_dependencies"]
             ks == CASE click.kind = "done" -> Released(click.job, st)
                     [] click.kind = "cancel" -> Cancelled(click.job, st)
                     [] OTHER -> {}
  <2>3. ks \in SUBSET Jobs
    BY DEF Released, Cancelled
  <2>4. st[click.job] \in States
    BY <2>2 DEF States
  <2>5. \/ /\ state' = [k \in Jobs |-> IF k = click.job THEN st[click.job]
                                       ELSE IF k \notin ks THEN state[k]
                                       ELSE IF click.kind = "done" THEN "pending"
                                       ELSE "cancelled"]
           /\ retry' = [retry EXCEPT ![click.job] = IF click.kind = "requeue" THEN 0 ELSE @]
           /\ Notify(ks \cup {click.job})
           /\ asked' = [asked EXCEPT ![click.job] = IF click.kind = "requeue" THEN @ + 1 ELSE @]
           /\ everDone' = [everDone EXCEPT ![click.job] = @ \/ click.kind = "done"]
        \/ UNCHANGED <<state, retry, notified, asked, everDone>>
    BY <1>18 DEF CommitClick
  <2> HIDE DEF st, ks
  <2>6. state' \in [Jobs -> States]
    BY <2>2, <2>4, <2>5 DEF Typed, States
  <2>7. retry' \in [Jobs -> Nat] /\ asked' \in [Jobs -> Nat]
    BY <2>2, <2>5 DEF Typed
  <2>8. notified' \in SUBSET Jobs
    <3>1. ks \cup {click.job} \in SUBSET Jobs
      BY <2>2, <2>3
    <3> QED
      BY <2>5, <3>1, NotifyType DEF Typed
  <2>9. everDone' \in [Jobs -> BOOLEAN]
    BY <2>2, <2>5 DEF Typed
  <2>10. click' \in ClickRec
    BY <1>18 DEF CommitClick, ClickRec
  <2> QED
    BY <1>18, <2>6, <2>7, <2>8, <2>9, <2>10 DEF Typed, CommitClick
<1>19. ASSUME NEW j \in Jobs, PassEta(j)
       PROVE  Typed'
  BY <1>19 DEF Typed, PassEta
<1>20. CASE UNCHANGED jobVars
  BY <1>20 DEF Typed, jobVars
<1> QED
  BY <1>1, <1>2, <1>3, <1>4, <1>5, <1>6, <1>7, <1>8, <1>9, <1>10, <1>11, <1>12, <1>13,
     <1>14, <1>15, <1>16, <1>17, <1>18, <1>19, <1>20, <1>21
  DEF JobNext, RunnerStep, WorkerStep, Fault, UserStep

-----------------------------------------------------------------------------
(* Steps that leave the table, the locks and the workers alone.            *)

Quiet ==
    \/ EnterRun \/ StartRunner \/ StopRunner
    \/ \E j \in Jobs : ProcessNotification(j) \/ LoseRequest(j) \/ PassEta(j)
    \/ UNCHANGED jobVars

\* The steps of the runner in memory, of time and of the network write no row.
LEMMA QuietKeeps ==
    ASSUME Quiet
    PROVE  UNCHANGED <<state, retry, lock, worker, click, historyVars>>
BY DEF Quiet, EnterRun, StartRunner, StopRunner, ProcessNotification, LoseRequest, PassEta, jobVars

\* Steps of the table, the workers and the users leave the channels alone.
LEMMA ChannelsKept ==
    ASSUME \/ \E g \in Graphs : DelayGraph(g)
           \/ \E js \in SUBSET Dead : RequeueDead(js)
           \/ \E w \in Workers : WorkerStep(w) \/ KillWorker(w)
           \/ \E j \in Jobs : LoseRequest(j) \/ PassEta(j)
           \/ \E kind \in {"done", "cancel", "requeue"}, j \in Jobs : Click(kind, j)
           \/ CommitClick
           \/ UNCHANGED jobVars
    PROVE  UNCHANGED <<queue, run, failed>>
BY DEF DelayGraph, RequeueDead, WorkerStep, Acquire, TakeLock, PerformDone, PerformRetry, Postpone, PerformConflict,
       PerformFail, Close, ReleaseChildren, KillWorker, LoseRequest, PassEta, Click, CommitClick,
       jobVars

\* The job root gives to the runner waits in root, and its date is not to come.
LEMMA Dispatched ==
    ASSUME Typed, Dispatch
    PROVE  LET j == First(Ready(Root)) IN
           /\ j \in Jobs /\ j \in queue[Root]
           /\ requests[j] < MaxRequests
           /\ queue' = Without(queue, j, {Root})
           /\ run' = With(run, j, {Root})
           /\ state' = [state EXCEPT ![j] = "enqueued"]
           /\ Notify({j})
           /\ HasCapacity(Root) /\ runner = "run"
           /\ UNCHANGED <<retry, eta, lock, runner, failed, worker, click, troubles, historyVars>>
<1> DEFINE j == First(Ready(Root))
<1>1. Ready(Root) \in SUBSET Jobs /\ Ready(Root) # {} /\ Ready(Root) \subseteq queue[Root]
  BY DEF Dispatch, CanDispatch, Ready, Typed, Channels
<1>2. j \in Jobs /\ j \in queue[Root]
  BY <1>1, FirstIsIn
<1> QED
  BY <1>2 DEF Dispatch, CanDispatch

-----------------------------------------------------------------------------
(* A worker that performs a job holds its lock, and the job is started.  A *)
(* job in a queue is not enqueued or started, and is in one queue.  A      *)
(* button was pressed on a state it is shown for.                          *)

LockInv ==
    \A w \in Workers : worker[w].pc = "performing" =>
        lock[worker[w].job] = w /\ state[worker[w].job] = "started"

ClickInv == click.kind # "none" => click.seen[click.job] \in Clickable(click.kind)

PlaceInv ==
    \A c \in Channels : \A j \in queue[c] :
        /\ c \in Path(j)
        /\ j \notin InFlight
        /\ c = Root /\ ChannelOf[j] # Root => j \notin queue[ChannelOf[j]]

\* What a click that is committed may change.
LEMMA ClickChanges ==
    ASSUME Typed, ClickInv, CommitClick, NEW k \in Jobs, state'[k] # state[k]
    PROVE  /\ click.kind # "none"
           /\ \/ /\ k = click.job
                 /\ state[k] = click.seen[k]
                 /\ state[k] \in Clickable(click.kind)
                 /\ \/ click.kind = "done" /\ state'[k] = "done" /\ everDone'[k]
                    \/ click.kind = "cancel" /\ state'[k] = "cancelled"
                    \/ /\ click.kind = "requeue" /\ ParentsDone(k, click.seen)
                       /\ state'[k] = "pending"
                    \/ /\ click.kind = "requeue" /\ ~ParentsDone(k, click.seen)
                       /\ state'[k] = "wait_dependencies"
              \/ /\ k # click.job /\ click.kind = "done"
                 /\ click.job \in Parents[k]
                 /\ state[k] = "wait_dependencies" /\ state'[k] = "pending"
                 /\ \A p \in Parents[k] : p = click.job \/ click.seen[p] = "done"
                 /\ everDone'[click.job]
              \/ /\ k # click.job /\ click.kind = "cancel"
                 /\ state[k] = "wait_dependencies" /\ state'[k] = "cancelled"
<1> DEFINE j == click.job
           st == [click.seen EXCEPT ![j] =
                    CASE click.kind = "done" -> "done"
                      [] click.kind = "cancel" -> "cancelled"
                      [] click.kind = "requeue" /\ ParentsDone(j, click.seen) -> "pending"
                      [] OTHER -> "wait_dependencies"]
           ks == CASE click.kind = "done" -> Released(j, st)
                   [] click.kind = "cancel" -> Cancelled(j, st)
                   [] OTHER -> {}
<1>1. click.kind # "none"
  BY DEF CommitClick
<1>2. /\ click.kind \in {"done", "cancel", "requeue"} /\ j \in Jobs
      /\ click.seen \in [Jobs -> States]
  BY <1>1, OpenClick
<1>3. /\ \A i \in ks \cup {j} : state[i] = click.seen[i]
      /\ state' = [i \in Jobs |-> IF i = j THEN st[j]
                                  ELSE IF i \notin ks THEN state[i]
                                  ELSE IF click.kind = "done" THEN "pending"
                                  ELSE "cancelled"]
      /\ everDone' = [everDone EXCEPT ![j] = @ \/ click.kind = "done"]
  BY DEF CommitClick
<1>4. click.kind = "done" => everDone'[j]
  BY <1>2, <1>3 DEF Typed
<1>5. CASE k = j
  <2>1. state[k] = click.seen[k] /\ state[k] \in Clickable(click.kind) /\ state'[k] = st[j]
    BY <1>1, <1>2, <1>3, <1>5 DEF ClickInv
  <2>2. st[j] = CASE click.kind = "done" -> "done"
                  [] click.kind = "cancel" -> "cancelled"
                  [] click.kind = "requeue" /\ ParentsDone(j, click.seen) -> "pending"
                  [] OTHER -> "wait_dependencies"
    BY <1>2
  <2> QED
    BY <1>1, <1>2, <1>4, <1>5, <2>1, <2>2
<1>6. CASE k # j
  <2>1. /\ k \in ks /\ state[k] = click.seen[k]
        /\ state'[k] = IF click.kind = "done" THEN "pending" ELSE "cancelled"
    BY <1>3, <1>6
  <2>2. CASE click.kind = "done"
    <3>1. k \in Released(j, st) /\ st[j] = "done"
      BY <1>2, <2>1, <2>2
    <3>2. st[k] = click.seen[k]
      BY <1>2, <1>6
    <3>3. j \in Parents[k] /\ st[k] = "wait_dependencies" /\ ParentsDone(k, st)
      BY <3>1 DEF Released
    <3>4. \A p \in Parents[k] : p = j \/ click.seen[p] = "done"
      BY <1>2, <3>3, JobQueueAssumption DEF ParentsDone
    <3> QED
      BY <1>1, <1>4, <1>6, <2>1, <2>2, <3>2, <3>3, <3>4
  <2>3. CASE click.kind = "cancel"
    <3>1. k \in Cancelled(j, st)
      BY <2>1, <2>3
    <3>2. st[k] = "wait_dependencies" /\ st[k] = click.seen[k]
      BY <1>2, <1>6, <3>1 DEF Cancelled
    <3> QED
      BY <1>1, <1>6, <2>1, <2>3, <3>2
  <2>4. CASE click.kind = "requeue"
    BY <2>1, <2>4
  <2> QED
    BY <1>2, <2>2, <2>3, <2>4
<1> QED
  BY <1>5, <1>6

\* A job that is started, or performed, is none of a button's business.
LEMMA ClickSpares ==
    ASSUME Typed, ClickInv, CommitClick, NEW k \in Jobs, state[k] = "started"
    PROVE  state'[k] = state[k]
<1> SUFFICES ASSUME state'[k] # state[k]
             PROVE  FALSE
  OBVIOUS
<1>1. state[k] = "wait_dependencies" \/ state[k] \in Clickable(click.kind)
  BY ClickChanges
<1>2. click.kind \in {"done", "cancel", "requeue"}
  BY ClickChanges, OpenClick
<1> QED
  BY <1>1, <1>2 DEF Clickable

\* What a click saw of its job stays a state its button is shown for.
LEMMA StepClick ==
    ASSUME Typed, ClickInv, [JobNext]_jobVars
    PROVE  ClickInv'
<1>1. CASE CommitClick
  BY <1>1 DEF CommitClick, ClickInv, NoClick
<1>2. ASSUME NEW kind \in {"done", "cancel", "requeue"}, NEW j \in Jobs, Click(kind, j)
      PROVE  ClickInv'
  BY <1>2 DEF Click, ClickInv, Clickable
<1>3. CASE UNCHANGED click
  BY <1>3 DEF ClickInv, Clickable
<1> QED
  BY <1>1, <1>2, <1>3
  DEF JobNext, RunnerStep, WorkerStep, Fault, UserStep, DelayGraph, ProcessNotification,
      EnterRun, Dispatch, StartRunner, StopRunner, RequeueDead, Acquire, TakeLock, PerformDone,
      PerformRetry, Postpone, PerformConflict, PerformFail, Close, ReleaseChildren, KillWorker, LoseRequest, PassEta, jobVars

\* A job goes from its channel to root and leaves root when it is dispatched.
LEMMA StepPlace ==
    ASSUME Typed, ClickInv, PlaceInv, [JobNext]_jobVars
    PROVE  PlaceInv'
<1>1. CASE /\ UNCHANGED queue
           /\ \A k \in Jobs : k \in InFlight' => k \in InFlight
  <2>1. \A c \in Channels : \A j \in queue'[c] : j \in Jobs
    BY <1>1 DEF Typed
  <2> QED
    BY <1>1, <2>1 DEF PlaceInv
<1>2. ASSUME NEW g \in Graphs, DelayGraph(g)
      PROVE  PlaceInv'
  <2>1. \A k \in Jobs : state'[k] \in {"absent", "pending", "wait_dependencies"}
    BY <1>2 DEF DelayGraph
  <2> QED
    BY <1>1, <1>2, <2>1, ChannelsKept DEF InFlight
<1>3. ASSUME NEW j \in Jobs, ProcessNotification(j)
      PROVE  PlaceInv'
  <2>1. UNCHANGED state /\ HandleNotification(j) /\ state[j] \in States
    BY <1>3 DEF ProcessNotification, Typed
  <2>2. CASE state[j] = "pending" /\ SetPending(j)
    <3>1. CASE Known(j, queue)
      BY <1>1, <2>1, <2>2, <3>1 DEF SetPending, InFlight
    <3>2. CASE ~Known(j, queue)
      <4>1. queue' = With(Without(queue, j, {Root}), j, {ChannelOf[j]})
        BY <2>2, <3>2 DEF SetPending
      <4>2. \A c \in Channels : queue'[c] = (IF c = Root THEN queue[c] \ {j} ELSE queue[c])
                                             \cup (IF c = ChannelOf[j] THEN {j} ELSE {})
        BY <4>1 DEF With, Without
      <4>3. Root \in Channels /\ ChannelOf[j] \in Channels
        BY JobQueueAssumption DEF Channels
      <4>4. j \notin InFlight
        BY <2>2 DEF InFlight
      <4>5. InFlight' = InFlight
        BY <2>1 DEF InFlight
      <4>6. \A c \in Channels : \A k \in queue'[c] : k # j => k \in queue[c]
        BY <4>2
      <4>7. \A c \in Channels : j \in queue'[c] => c = ChannelOf[j] \/ (c # Root /\ j \in queue[c])
        BY <4>2
      <4>8. ASSUME NEW c \in Channels, NEW k \in queue'[c]
            PROVE  /\ c \in Path(k) /\ k \notin InFlight'
                   /\ c = Root /\ ChannelOf[k] # Root => k \notin queue'[ChannelOf[k]]
        <5>1. CASE k = j
          BY <4>4, <4>5, <4>7, <4>8, <5>1 DEF PlaceInv, Path
        <5>2. CASE k # j
          <6>1. k \in queue[c] /\ k \in Jobs
            BY <4>6, <5>2 DEF Typed
          <6>2. ChannelOf[k] \in Channels
            BY <6>1, JobQueueAssumption
          <6> QED
            BY <4>5, <4>6, <5>2, <6>1, <6>2 DEF PlaceInv
        <5> QED
          BY <5>1, <5>2
      <4> QED
        BY <4>8 DEF PlaceInv
    <3> QED
      BY <3>1, <3>2
  <2>3. CASE \A c \in Channels : queue'[c] \subseteq queue[c]
    <3>1. InFlight' = InFlight
      BY <2>1 DEF InFlight
    <3>2. ASSUME NEW c \in Channels, NEW k \in queue'[c]
          PROVE  /\ c \in Path(k) /\ k \notin InFlight'
                 /\ c = Root /\ ChannelOf[k] # Root => k \notin queue'[ChannelOf[k]]
      <4>1. k \in queue[c] /\ k \in Jobs
        BY <2>3 DEF Typed
      <4>2. ChannelOf[k] \in Channels
        BY <4>1, JobQueueAssumption
      <4> QED
        BY <2>3, <3>1, <4>1, <4>2 DEF PlaceInv
    <3> QED
      BY <3>2 DEF PlaceInv
  <2>4. SetRunning(j) \/ SetFailed(j) \/ Forget(j) \/ UNCHANGED queue
           => \A c \in Channels : queue'[c] \subseteq queue[c]
    BY DEF SetRunning, SetFailed, Forget, Without
  <2> QED
    BY <2>1, <2>2, <2>3, <2>4 DEF HandleNotification
<1>4. CASE EnterRun
  <2> DEFINE all == UNION {Yielded(c) : c \in Subchannels}
  <2>1. /\ queue' = [c \in Channels |-> IF c = Root THEN queue[c] \cup all ELSE queue[c] \ all]
        /\ UNCHANGED state
    BY <1>4 DEF EnterRun
  <2>2. \A k \in all : k \in Jobs /\ \E c \in Subchannels : k \in queue[c]
    BY DEF Yielded, Ready, Typed, Channels
  <2> HIDE DEF all
  <2>3. InFlight' = InFlight
    BY <2>1 DEF InFlight
  <2>4. \A k \in all : k \notin InFlight
    BY <2>2 DEF PlaceInv, Channels
  <2>5. \A k \in all : ChannelOf[k] # Root => k \notin queue'[ChannelOf[k]]
    BY <2>1, <2>2, JobQueueAssumption
  <2>6. ASSUME NEW c \in Channels, NEW k \in queue'[c]
        PROVE  /\ c \in Path(k) /\ k \notin InFlight'
               /\ c = Root /\ ChannelOf[k] # Root => k \notin queue'[ChannelOf[k]]
    <3>1. CASE k \in all
      <4>1. c = Root
        BY <2>1, <3>1
      <4> QED
        BY <2>3, <2>4, <2>5, <3>1, <4>1 DEF Path
    <3>2. CASE k \notin all
      <4>1. k \in queue[c] /\ k \in Jobs
        BY <2>1, <3>2 DEF Typed
      <4>2. ChannelOf[k] \in Channels
        BY <4>1, JobQueueAssumption
      <4>3. ChannelOf[k] # Root => queue'[ChannelOf[k]] \subseteq queue[ChannelOf[k]]
        BY <2>1, <4>2
      <4> QED
        BY <2>3, <4>1, <4>2, <4>3 DEF PlaceInv
    <3> QED
      BY <3>1, <3>2
  <2> QED
    BY <2>6 DEF PlaceInv
<1>5. CASE Dispatch
  <2> DEFINE j == First(Ready(Root))
  <2>1. /\ j \in Jobs /\ j \in queue[Root]
        /\ queue' = Without(queue, j, {Root}) /\ state' = [state EXCEPT ![j] = "enqueued"]
    BY <1>5, Dispatched
  <2> HIDE DEF j
  <2>2. \A c \in Channels : queue'[c] = IF c = Root THEN queue[c] \ {j} ELSE queue[c]
    BY <2>1 DEF Without
  <2>3. \A k \in Jobs : k # j /\ k \in InFlight' => k \in InFlight
    BY <2>1 DEF InFlight, Typed
  <2>4. \A c \in Channels : j \notin queue'[c]
    <3> SUFFICES ASSUME NEW c \in Channels, j \in queue'[c]
                 PROVE  FALSE
      OBVIOUS
    <3>1. c # Root /\ j \in queue[c]
      BY <2>2
    <3>2. c = ChannelOf[j]
      BY <3>1 DEF PlaceInv, Path
    <3> QED
      BY <2>1, <3>1, <3>2 DEF PlaceInv, Channels
  <2>5. ASSUME NEW c \in Channels, NEW k \in queue'[c]
        PROVE  /\ c \in Path(k) /\ k \notin InFlight'
               /\ c = Root /\ ChannelOf[k] # Root => k \notin queue'[ChannelOf[k]]
    <3>1. k \in queue[c] /\ k \in Jobs /\ k # j
      BY <2>2, <2>4 DEF Typed
    <3>2. ChannelOf[k] \in Channels
      BY <3>1, JobQueueAssumption
    <3> QED
      BY <2>2, <2>3, <3>1, <3>2 DEF PlaceInv
  <2> QED
    BY <2>5 DEF PlaceInv
<1>6. CASE StartRunner
  BY <1>6 DEF StartRunner, PlaceInv, Path, Loaded, InFlight
<1>7. CASE StopRunner
  BY <1>7 DEF StopRunner, PlaceInv
<1>8. ASSUME NEW js \in SUBSET Dead, RequeueDead(js)
      PROVE  PlaceInv'
  <2>1. \A k \in Jobs : state'[k] \in {"enqueued", "started"} => state'[k] = state[k]
    BY <1>8 DEF RequeueDead
  <2> QED
    BY <1>1, <1>8, <2>1, ChannelsKept DEF InFlight
<1>9. ASSUME NEW w \in Workers, WorkerStep(w)
      PROVE  PlaceInv'
  <2>1. UNCHANGED queue
    BY <1>9, ChannelsKept
  <2>2. CASE \E j \in Jobs : Acquire(w, j)
    BY <1>1, <2>1, <2>2 DEF Acquire, InFlight, Typed
  <2>3. CASE TakeLock(w) \/ Close(w)
    BY <1>1, <2>1, <2>3 DEF TakeLock, Close, InFlight
  <2>4. CASE \/ PerformDone(w) \/ PerformFail(w) \/ ReleaseChildren(w)
             \/ PerformConflict(w) \/ \E ignored \in BOOLEAN : PerformRetry(w, ignored)
    <3>1. \A k \in Jobs : state'[k] \in {"enqueued", "started"} => state'[k] = state[k]
      BY <2>4 DEF PerformDone, PerformFail, ReleaseChildren, PerformRetry, Postpone, PerformConflict, Typed
    <3> QED
      BY <1>1, <2>1, <3>1 DEF InFlight
  <2> QED
    BY <1>9, <2>2, <2>3, <2>4 DEF WorkerStep
<1>10. CASE CommitClick
  <2>1. \A k \in Jobs : state'[k] \in {"enqueued", "started"} => state'[k] = state[k]
    BY <1>10, ClickChanges
  <2> QED
    BY <1>1, <1>10, <2>1, ChannelsKept DEF InFlight
<1>11. CASE \/ \E w \in Workers : KillWorker(w)
            \/ \E j \in Jobs : LoseRequest(j) \/ PassEta(j)
            \/ \E kind \in {"done", "cancel", "requeue"}, j \in Jobs : Click(kind, j)
            \/ UNCHANGED jobVars
  <2>1. UNCHANGED state
    BY <1>11 DEF KillWorker, LoseRequest, PassEta, Click, jobVars
  <2> QED
    BY <1>1, <1>11, <2>1, ChannelsKept DEF InFlight
<1> QED
  BY <1>2, <1>3, <1>4, <1>5, <1>6, <1>7, <1>8, <1>9, <1>10, <1>11
  DEF JobNext, RunnerStep, Fault, UserStep

\* The order of the steps that a job's lock and state go through.
LEMMA StepLock ==
    ASSUME Typed, ClickInv, PlaceInv, LockInv, [JobNext]_jobVars
    PROVE  LockInv'
<1>1. CASE Quiet
  BY <1>1, QuietKeeps DEF LockInv
<1>2. ASSUME NEW g \in Graphs, DelayGraph(g)
      PROVE  LockInv'
  <2>1. \A w \in Workers : worker[w].pc # "performing"
    BY <1>2, BusyWorker DEF DelayGraph, LockInv
  <2> QED
    BY <1>2, <2>1 DEF DelayGraph, LockInv
<1>3. CASE Dispatch
  <2> DEFINE j == First(Ready(Root))
  <2>1. /\ j \in Jobs /\ j \in queue[Root] /\ state' = [state EXCEPT ![j] = "enqueued"]
        /\ UNCHANGED <<worker, lock>>
    BY <1>3, Dispatched
  <2> HIDE DEF j
  <2>2. j \notin InFlight
    BY <2>1 DEF PlaceInv, Channels
  <2>3. \A w \in Workers : worker[w].pc = "performing" => worker[w].job # j
    BY <2>1, <2>2 DEF LockInv, InFlight
  <2> QED
    BY <2>1, <2>3, BusyWorker DEF LockInv, Typed
<1>4. ASSUME NEW js \in SUBSET Dead, RequeueDead(js)
      PROVE  LockInv'
  <2>1. ASSUME NEW w \in Workers, worker[w].pc = "performing"
        PROVE  worker[w].job \notin js
    BY <2>1, JobQueueAssumption DEF Dead, LockInv
  <2> QED
    BY <1>4, <2>1, BusyWorker DEF RequeueDead, LockInv
<1>5. ASSUME NEW w \in Workers, NEW j \in Jobs, Acquire(w, j)
      PROVE  LockInv'
  BY <1>5, BusyWorker DEF Acquire, LockInv, Busy, Typed
<1>6. ASSUME NEW w \in Workers, TakeLock(w)
      PROVE  LockInv'
  <2> DEFINE j == worker[w].job
  <2>1. worker[w].pc # "idle" /\ j \in Jobs
    BY <1>6, BusyWorker DEF TakeLock
  <2>2. CASE CanLock(j)
    <3>1. \A v \in Workers : worker[v].pc = "performing" => worker[v].job # j
      BY <2>2, JobQueueAssumption DEF CanLock, LockInv
    <3>2. /\ lock' = [lock EXCEPT ![j] = w] /\ worker' = [worker EXCEPT ![w].pc = "performing"]
          /\ UNCHANGED state
      BY <1>6, <2>2 DEF TakeLock
    <3>3. \A v \in Workers : v # w => worker'[v] = worker[v]
      BY <3>2 DEF Typed
    <3>4. worker'[w].job = j
      BY <2>1, <3>2, BusyWorker DEF Typed
    <3>5. lock'[j] = w /\ state'[j] = "started"
      BY <2>1, <2>2, <3>2 DEF CanLock, Typed
    <3>6. ASSUME NEW v \in Workers, v # w, worker'[v].pc = "performing"
          PROVE  lock'[worker'[v].job] = v /\ state'[worker'[v].job] = "started"
      <4>1. worker[v].pc = "performing" /\ worker'[v].job = worker[v].job
        BY <3>3, <3>6
      <4>2. worker[v].job \in Jobs /\ worker[v].job # j
        BY <3>1, <4>1, BusyWorker
      <4> QED
        BY <3>2, <4>1, <4>2 DEF LockInv, Typed
    <3> QED
      BY <3>4, <3>5, <3>6 DEF LockInv
  <2>3. CASE ~CanLock(j)
    BY <1>6, <2>3 DEF TakeLock, LockInv, Idle, Typed
  <2> QED
    BY <2>2, <2>3
<1>7. ASSUME NEW w \in Workers,
             PerformDone(w) \/ PerformFail(w) \/ PerformConflict(w) \/ \E ignored \in BOOLEAN : PerformRetry(w, ignored)
      PROVE  LockInv'
  <2> DEFINE j == worker[w].job
  <2>1. worker[w].pc = "performing"
    BY <1>7 DEF PerformDone, PerformFail, PerformRetry, Postpone, PerformConflict
  <2>2. j \in Jobs /\ lock[j] = w
    BY <2>1, BusyWorker DEF LockInv
  <2>3. /\ \A k \in Jobs : k # j => state'[k] = state[k] /\ lock'[k] = lock[k]
        /\ \A v \in Workers : v # w => worker'[v] = worker[v]
        /\ worker'[w].pc # "performing"
    <3>1. CASE PerformDone(w) \/ PerformFail(w)
      BY <2>2, <3>1, BusyWorker DEF PerformDone, PerformFail, Typed
    <3>2. CASE PerformConflict(w)
      <4>1. /\ \A k \in Jobs : k # j => state'[k] = state[k] /\ lock'[k] = lock[k]
            /\ worker' = [worker EXCEPT ![w] = Idle]
        BY <2>2, <3>2 DEF PerformConflict, Postpone, Typed
      <4> QED
        BY <4>1 DEF Typed, Idle
    <3>3. CASE \E ignored \in BOOLEAN : PerformRetry(w, ignored)
      <4>1. /\ \A k \in Jobs : k # j => state'[k] = state[k] /\ lock'[k] = lock[k]
            /\ worker' = [worker EXCEPT ![w].pc = "closing"]
        BY <2>2, <3>3 DEF PerformRetry, Postpone, Typed
      <4> QED
        BY <2>1, <4>1, BusyWorker DEF Typed
    <3> QED
      BY <1>7, <3>1, <3>2, <3>3
  <2>4. ASSUME NEW v \in Workers, worker'[v].pc = "performing"
        PROVE  lock'[worker'[v].job] = v /\ state'[worker'[v].job] = "started"
    <3>1. v # w /\ worker'[v] = worker[v]
      BY <2>3, <2>4
    <3>2. worker[v].job \in Jobs /\ worker[v].job # j
      BY <2>2, <2>4, <3>1, BusyWorker DEF LockInv
    <3> QED
      BY <2>3, <2>4, <3>1, <3>2 DEF LockInv
  <2> QED
    BY <2>4 DEF LockInv
<1>8. ASSUME NEW w \in Workers, Close(w) \/ KillWorker(w)
      PROVE  LockInv'
  BY <1>8, BusyWorker DEF Close, KillWorker, LockInv, Idle, Typed
<1>9. ASSUME NEW w \in Workers, ReleaseChildren(w)
      PROVE  LockInv'
  <2>1. \A k \in Jobs : state[k] = "started" => state'[k] = "started"
    BY <1>9 DEF ReleaseChildren, Released
  <2> QED
    BY <1>9, <2>1, BusyWorker DEF ReleaseChildren, LockInv, Idle, Typed
<1>10. CASE CommitClick
  <2>1. UNCHANGED <<worker, lock>>
    BY <1>10 DEF CommitClick
  <2> QED
    BY <1>10, <2>1, ClickSpares, BusyWorker DEF LockInv
<1>11. ASSUME NEW kind \in {"done", "cancel", "requeue"}, NEW j \in Jobs, Click(kind, j)
       PROVE  LockInv'
  BY <1>11 DEF Click, LockInv
<1> QED
  BY <1>1, <1>2, <1>3, <1>4, <1>5, <1>6, <1>7, <1>8, <1>9, <1>10, <1>11
  DEF JobNext, RunnerStep, WorkerStep, Fault, UserStep, Quiet

-----------------------------------------------------------------------------
(* The effects of a job are counted against what users asked for.  A job   *)
(* that was done as often as it was asked for is done, and in no queue: no *)
(* one enqueues it again before a user asks.                               *)

Queued(j) == \E c \in Channels : j \in queue[c]

SpentInv ==
    \A j \in Jobs :
        /\ finished[j] <= asked[j] + 1
        /\ finished[j] = asked[j] + 1 => state[j] = "done" /\ ~Queued(j)

\* A job enters a queue when it is pending, or from another queue.
LEMMA QueueEntries ==
    ASSUME Typed, [JobNext]_jobVars, NEW k \in Jobs, Queued(k)'
    PROVE  Queued(k) \/ (state[k] = "pending" /\ UNCHANGED <<state, retry, historyVars>>)
<1>1. CASE UNCHANGED queue
  BY <1>1 DEF Queued
<1>2. ASSUME NEW j \in Jobs, ProcessNotification(j)
      PROVE  Queued(k) \/ (state[k] = "pending" /\ UNCHANGED <<state, retry, historyVars>>)
  <2>1. CASE state[j] = "pending" /\ SetPending(j) /\ ~Known(j, queue)
    <3>1. queue' = With(Without(queue, j, {Root}), j, {ChannelOf[j]})
      BY <2>1 DEF SetPending
    <3>2. k = j \/ Queued(k)
      BY <3>1 DEF Queued, With, Without
    <3> QED
      BY <1>2, <2>1, <3>2 DEF ProcessNotification
  <2>2. CASE \A c \in Channels : queue'[c] \subseteq queue[c]
    BY <2>2 DEF Queued
  <2>3. SetRunning(j) \/ SetFailed(j) \/ Forget(j) \/ UNCHANGED queue \/ (SetPending(j) /\ Known(j, queue))
          => \A c \in Channels : queue'[c] \subseteq queue[c]
    BY DEF SetRunning, SetFailed, Forget, SetPending, Without
  <2> QED
    BY <1>2, <2>1, <2>2, <2>3 DEF HandleNotification, ProcessNotification
<1>3. CASE EnterRun
  <2> DEFINE all == UNION {Yielded(c) : c \in Subchannels}
  <2>1. queue' = [c \in Channels |-> IF c = Root THEN queue[c] \cup all ELSE queue[c] \ all]
    BY <1>3 DEF EnterRun
  <2>2. k \in all => \E c \in Subchannels : k \in queue[c]
    BY DEF Yielded, Ready
  <2> QED
    BY <2>1, <2>2 DEF Queued, Channels
<1>4. CASE Dispatch
  <2>1. \A c \in Channels : queue'[c] \subseteq queue[c]
    BY <1>4, Dispatched DEF Without
  <2> QED
    BY <2>1 DEF Queued
<1>5. CASE StartRunner
  <2>1. PICK c \in Channels : k \in queue'[c]
    BY DEF Queued
  <2>2. state[k] = "pending"
    BY <1>5, <2>1 DEF StartRunner
  <2> QED
    BY <1>5, <2>2 DEF StartRunner
<1>6. CASE StopRunner
  BY <1>6 DEF StopRunner, Queued
<1> QED
  BY <1>1, <1>2, <1>3, <1>4, <1>5, <1>6, ChannelsKept
  DEF JobNext, RunnerStep, Fault, UserStep

\* A job in a queue is not enqueued or started.
LEMMA QueuedIsNotInFlight ==
    ASSUME PlaceInv, NEW k \in Jobs, state[k] \in {"enqueued", "started"}
    PROVE  ~Queued(k)
BY DEF PlaceInv, Queued, InFlight

\* Effects are committed by a worker that performs a started job; a job that was done
\* enters no queue before a user asks for it again.
LEMMA StepSpent ==
    ASSUME Typed, ClickInv, PlaceInv, LockInv, SpentInv, [JobNext]_jobVars
    PROVE  SpentInv'
<1> SUFFICES ASSUME NEW k \in Jobs
             PROVE  /\ finished'[k] <= asked'[k] + 1
                    /\ finished'[k] = asked'[k] + 1 => state'[k] = "done" /\ ~Queued(k)'
  BY DEF SpentInv
<1>0. finished[k] \in Nat /\ asked[k] \in Nat
  BY DEF Typed
<1>1. CASE finished'[k] = finished[k] /\ asked'[k] = asked[k] /\ (state[k] = "done" => state'[k] = "done")
  BY <1>1, QueueEntries DEF SpentInv
<1>2. CASE Quiet
  BY <1>1, <1>2, QuietKeeps
<1>3. ASSUME NEW g \in Graphs, DelayGraph(g)
      PROVE  /\ finished'[k] <= asked'[k] + 1
             /\ finished'[k] = asked'[k] + 1 => state'[k] = "done" /\ ~Queued(k)'
  BY <1>1, <1>3 DEF DelayGraph
<1>4. CASE Dispatch
  <2> DEFINE j == First(Ready(Root))
  <2>1. /\ j \in Jobs /\ j \in queue[Root] /\ state' = [state EXCEPT ![j] = "enqueued"]
        /\ UNCHANGED historyVars
    BY <1>4, Dispatched
  <2> HIDE DEF j
  <2>2. CASE k = j
    <3>1. Queued(k)
      BY <2>1, <2>2 DEF Queued, Channels
    <3> QED
      BY <1>0, <2>1, <3>1 DEF SpentInv
  <2>3. CASE k # j
    BY <1>1, <2>1, <2>3 DEF Typed
  <2> QED
    BY <2>2, <2>3
<1>5. ASSUME NEW js \in SUBSET Dead, RequeueDead(js)
      PROVE  /\ finished'[k] <= asked'[k] + 1
             /\ finished'[k] = asked'[k] + 1 => state'[k] = "done" /\ ~Queued(k)'
  BY <1>1, <1>5 DEF RequeueDead, Dead, InFlight
<1>6. ASSUME NEW w \in Workers, WorkerStep(w)
      PROVE  /\ finished'[k] <= asked'[k] + 1
             /\ finished'[k] = asked'[k] + 1 => state'[k] = "done" /\ ~Queued(k)'
  <2>1. CASE PerformDone(w) /\ k = worker[w].job
    <3>1. state[k] = "started"
      BY <2>1 DEF PerformDone, LockInv
    <3>2. ~Queued(k)'
      BY <3>1, QueueEntries, QueuedIsNotInFlight
    <3>3. finished'[k] = finished[k] + 1 /\ asked'[k] = asked[k] /\ state'[k] = "done"
      BY <2>1 DEF PerformDone, Typed
    <3> QED
      BY <1>0, <3>1, <3>2, <3>3 DEF SpentInv
  <2>2. CASE PerformDone(w) /\ k # worker[w].job
    BY <1>1, <2>2 DEF PerformDone, Typed
  <2>3. CASE PerformFail(w) \/ PerformConflict(w) \/ \E ignored \in BOOLEAN : PerformRetry(w, ignored)
    <3>1. state[worker[w].job] = "started"
      BY <2>3 DEF PerformFail, PerformRetry, Postpone, PerformConflict, LockInv
    <3> QED
      BY <1>1, <2>3, <3>1 DEF PerformFail, PerformRetry, Postpone, PerformConflict, Typed
  <2>4. CASE TakeLock(w) \/ Close(w)
    BY <1>1, <2>4 DEF TakeLock, Close
  <2>5. CASE ReleaseChildren(w)
    BY <1>1, <2>5 DEF ReleaseChildren, Released
  <2>6. CASE \E j \in Jobs : Acquire(w, j)
    BY <1>1, <2>6 DEF Acquire, Typed
  <2> QED
    BY <1>6, <2>1, <2>2, <2>3, <2>4, <2>5, <2>6 DEF WorkerStep
<1>7. ASSUME NEW w \in Workers, KillWorker(w)
      PROVE  /\ finished'[k] <= asked'[k] + 1
             /\ finished'[k] = asked'[k] + 1 => state'[k] = "done" /\ ~Queued(k)'
  BY <1>1, <1>7 DEF KillWorker
<1>8. CASE CommitClick
  <2>1. finished'[k] = finished[k] /\ asked'[k] \in {asked[k], asked[k] + 1}
    BY <1>8 DEF CommitClick, Typed
  <2>2. CASE state[k] = "done" /\ state'[k] # state[k]
    <3>1. k = click.job /\ state[k] \in Clickable(click.kind) /\ click.kind \in {"done", "cancel", "requeue"}
      BY <1>8, <2>2, ClickChanges, OpenClick
    <3>2. click.kind = "requeue"
      BY <2>2, <3>1 DEF Clickable
    <3>3. asked'[k] = asked[k] + 1
      BY <1>8, <2>2, <3>1, <3>2 DEF CommitClick, Typed
    <3> QED
      BY <1>0, <2>1, <3>3 DEF SpentInv
  <2>3. CASE state[k] = "done" => state'[k] = "done"
    <3>1. CASE asked'[k] = asked[k]
      BY <1>1, <2>1, <2>3, <3>1
    <3>2. CASE asked'[k] = asked[k] + 1
      BY <1>0, <2>1, <3>2 DEF SpentInv
    <3> QED
      BY <2>1, <3>1, <3>2
  <2> QED
    BY <2>2, <2>3
<1>9. ASSUME NEW kind \in {"done", "cancel", "requeue"}, NEW j \in Jobs, Click(kind, j)
      PROVE  /\ finished'[k] <= asked'[k] + 1
             /\ finished'[k] = asked'[k] + 1 => state'[k] = "done" /\ ~Queued(k)'
  BY <1>1, <1>9 DEF Click
<1> QED
  BY <1>2, <1>3, <1>4, <1>5, <1>6, <1>7, <1>8, <1>9
  DEF JobNext, RunnerStep, Fault, UserStep, Quiet

-----------------------------------------------------------------------------
(* The first half of the inductive invariant.                              *)

BaseInv == Typed /\ ClickInv /\ PlaceInv /\ LockInv /\ SpentInv

\* The initial state satisfies the first half.
LEMMA InitBase == JobInit => BaseInv
BY InitTyped DEF JobInit, BaseInv, ClickInv, PlaceInv, LockInv, SpentInv, Idle, NoClick

\* Every step keeps the first half.
LEMMA StepBase == BaseInv /\ [JobNext]_jobVars => BaseInv'
BY StepTyped, StepClick, StepPlace, StepLock, StepSpent DEF BaseInv

\* Locks, places, clicks and counts hold in every state: a worker that performs a job
\* holds its lock and the job is started, and a job in a queue is not in flight.
THEOREM BaseInvariant == JobSpec => []BaseInv
BY InitBase, StepBase, PTL DEF JobSpec

\* The counts bound how often effects are committed.
LEMMA BaseAtMostOnce == BaseInv => AtMostOnce
<1> SUFFICES ASSUME BaseInv, NEW j \in Jobs
             PROVE  finished[j] <= 1 + asked[j]
  BY DEF AtMostOnce
<1> QED
  BY DEF BaseInv, SpentInv, Typed

\* The effects of a job are committed at most once each time a user asks for it,
\* whatever crashes, is lost, is late or is started twice: for any jobs, channels,
\* workers and number of troubles.
THEOREM EffectsAtMostOnce == JobSpec => []AtMostOnce
BY BaseInvariant, BaseAtMostOnce, PTL

\* A lock has one owner, so that a job has one performer.
LEMMA BaseExclusive == BaseInv => Exclusive
BY DEF BaseInv, LockInv, Exclusive

\* Two workers never perform the same job at once.
THEOREM OneWorkerPerJob == JobSpec => []Exclusive
BY BaseInvariant, BaseExclusive, PTL

-----------------------------------------------------------------------------
(* The parents of a job that may be performed have been done.              *)

DoneInv ==
    \A p \in Jobs :
        /\ state[p] = "done" => everDone[p]
        /\ click.kind # "none" /\ click.seen[p] = "done" => everDone[p]

Runnable(j) == state[j] \in {"pending", "enqueued", "started", "failed"} \/ Queued(j)

ParentInv == \A j \in Jobs : Runnable(j) => \A p \in Parents[j] : everDone[p]

\* A job that was done once stays so in the history.
LEMMA EverDoneStays ==
    ASSUME Typed, [JobNext]_jobVars, NEW p \in Jobs, everDone[p]
    PROVE  everDone'[p]
<1>1. CASE Quiet
  BY <1>1, QuietKeeps
<1>2. CASE CommitClick
  <2>1. everDone' \in {everDone, [everDone EXCEPT ![click.job] = @ \/ click.kind = "done"]}
    BY <1>2 DEF CommitClick
  <2> QED
    BY <2>1 DEF Typed
<1>3. ASSUME NEW w \in Workers, PerformDone(w)
      PROVE  everDone'[p]
  BY <1>3 DEF PerformDone, Typed
<1> QED
  BY <1>1, <1>2, <1>3
  DEF JobNext, RunnerStep, WorkerStep, Fault, UserStep, Quiet, DelayGraph, Dispatch, RequeueDead,
      Acquire, TakeLock, PerformRetry, Postpone, PerformConflict, PerformFail, Close, ReleaseChildren, KillWorker, Click

\* Who sets a job to done.
LEMMA DoneBy ==
    ASSUME Typed, ClickInv, [JobNext]_jobVars, NEW p \in Jobs, state'[p] = "done", state[p] # "done"
    PROVE  \/ \E w \in Workers : PerformDone(w) /\ p = worker[w].job
           \/ CommitClick /\ p = click.job /\ click.kind = "done" /\ everDone'[p]
<1>1. CASE Quiet
  BY <1>1, QuietKeeps
<1>2. ASSUME NEW g \in Graphs, DelayGraph(g)
      PROVE  FALSE
  BY <1>2 DEF DelayGraph
<1>3. CASE Dispatch
  BY <1>3, Dispatched DEF Typed
<1>4. ASSUME NEW js \in SUBSET Dead, RequeueDead(js)
      PROVE  FALSE
  BY <1>4 DEF RequeueDead
<1>5. ASSUME NEW w \in Workers, WorkerStep(w)
      PROVE  PerformDone(w) /\ p = worker[w].job
  BY <1>5 DEF WorkerStep, Acquire, TakeLock, PerformDone, PerformRetry, Postpone, PerformConflict, PerformFail, Close,
              ReleaseChildren, Typed
<1>6. CASE CommitClick
  <2>1. click.kind \in {"done", "cancel", "requeue"}
    BY <1>6, OpenClick DEF CommitClick
  <2> QED
    BY <1>6, <2>1, ClickChanges
<1> QED
  BY <1>1, <1>2, <1>3, <1>4, <1>5, <1>6
  DEF JobNext, RunnerStep, Fault, UserStep, Quiet, KillWorker, Click

\* A job that is done, in the table or in a snapshot of it, was done.
LEMMA StepDone ==
    ASSUME Typed, ClickInv, DoneInv, [JobNext]_jobVars
    PROVE  DoneInv'
<1> SUFFICES ASSUME NEW p \in Jobs
             PROVE  /\ state'[p] = "done" => everDone'[p]
                    /\ click'.kind # "none" /\ click'.seen[p] = "done" => everDone'[p]
  BY DEF DoneInv
<1>1. state'[p] = "done" => everDone'[p]
  <2>1. CASE state[p] = "done"
    BY <2>1, EverDoneStays DEF DoneInv
  <2>2. ASSUME NEW w \in Workers, PerformDone(w), p = worker[w].job
        PROVE  everDone'[p]
    BY <2>2 DEF PerformDone, Typed
  <2> QED
    BY <2>1, <2>2, DoneBy
<1>2. click'.kind # "none" /\ click'.seen[p] = "done" => everDone'[p]
  <2>1. CASE CommitClick
    BY <2>1 DEF CommitClick, NoClick
  <2>2. ASSUME NEW kind \in {"done", "cancel", "requeue"}, NEW j \in Jobs, Click(kind, j)
        PROVE  click'.kind # "none" /\ click'.seen[p] = "done" => everDone'[p]
    BY <2>2, EverDoneStays DEF Click, DoneInv
  <2>3. CASE UNCHANGED click
    BY <2>3, EverDoneStays DEF DoneInv
  <2> QED
    BY <2>1, <2>2, <2>3
    DEF JobNext, RunnerStep, WorkerStep, Fault, UserStep, DelayGraph, ProcessNotification,
        EnterRun, Dispatch, StartRunner, StopRunner, RequeueDead, Acquire, TakeLock, PerformDone,
        PerformRetry, Postpone, PerformConflict, PerformFail, Close, ReleaseChildren, KillWorker, LoseRequest, PassEta, jobVars
<1> QED
  BY <1>1, <1>2

\* A job becomes runnable only when its parents are done in the table, or in the
\* snapshot of the click that releases it.
LEMMA StepParent ==
    ASSUME Typed, ClickInv, LockInv, DoneInv, ParentInv, [JobNext]_jobVars
    PROVE  ParentInv'
<1> SUFFICES ASSUME NEW j \in Jobs, Runnable(j)', NEW p \in Parents[j]
             PROVE  everDone'[p]
  BY DEF ParentInv
<1>0. p \in Jobs
  BY JobQueueAssumption
<1>1. CASE Runnable(j)
  BY <1>0, <1>1, EverDoneStays DEF ParentInv
<1>2. CASE ~Runnable(j)
  <2>1. ~Queued(j)' /\ state'[j] \in {"pending", "enqueued", "started", "failed"}
    BY <1>2, QueueEntries DEF Runnable
  <2>2. state'[j] # state[j] /\ state[j] \notin {"pending", "enqueued", "started", "failed"}
    BY <1>2, <2>1 DEF Runnable
  <2>3. CASE Quiet
    BY <2>2, <2>3, QuietKeeps
  <2>4. ASSUME NEW g \in Graphs, DelayGraph(g)
        PROVE  FALSE
    BY <2>1, <2>4 DEF DelayGraph
  <2>5. CASE Dispatch
    BY <1>2, <2>2, <2>5, Dispatched DEF Typed, Runnable, Queued, Channels
  <2>6. ASSUME NEW js \in SUBSET Dead, RequeueDead(js)
        PROVE  FALSE
    BY <2>2, <2>6 DEF RequeueDead, Dead, InFlight
  <2>7. ASSUME NEW w \in Workers, WorkerStep(w)
        PROVE  everDone'[p]
    <3>1. CASE ReleaseChildren(w)
      <4>1. ParentsDone(j, state)
        BY <2>2, <3>1 DEF ReleaseChildren, Released
      <4>2. everDone[p]
        BY <1>0, <4>1 DEF ParentsDone, DoneInv
      <4> QED
        BY <1>0, <4>2, EverDoneStays
    <3>2. CASE PerformDone(w) \/ PerformFail(w) \/ PerformConflict(w) \/ \E ignored \in BOOLEAN : PerformRetry(w, ignored)
      <4>1. state[worker[w].job] = "started"
        BY <3>2 DEF PerformDone, PerformFail, PerformRetry, Postpone, PerformConflict, LockInv
      <4>2. state'[j] = state[j]
        BY <2>2, <3>2, <4>1 DEF PerformDone, PerformFail, PerformRetry, Postpone, PerformConflict, Typed
      <4> QED
        BY <2>2, <4>2
    <3>3. CASE TakeLock(w) \/ Close(w) \/ \E k \in Jobs : Acquire(w, k)
      BY <2>2, <3>3 DEF TakeLock, Close, Acquire, Typed
    <3> QED
      BY <2>7, <3>1, <3>2, <3>3 DEF WorkerStep
  <2>8. CASE CommitClick
    <3>1. \/ /\ click.kind # "none" /\ ParentsDone(j, click.seen)
          \/ /\ click.kind # "none" /\ everDone'[click.job]
             /\ p = click.job \/ click.seen[p] = "done"
      BY <2>1, <2>2, <2>8, ClickChanges
    <3>2. everDone[p] \/ everDone'[p]
      BY <1>0, <3>1 DEF ParentsDone, DoneInv
    <3> QED
      BY <1>0, <3>2, EverDoneStays
  <2> QED
    BY <2>2, <2>3, <2>4, <2>5, <2>6, <2>7, <2>8
    DEF JobNext, RunnerStep, Fault, UserStep, Quiet, KillWorker, Click
<1> QED
  BY <1>1, <1>2

FamilyInv == BaseInv /\ DoneInv /\ ParentInv

\* No job is stored at first.
LEMMA InitFamily == JobInit => FamilyInv
BY InitBase DEF JobInit, FamilyInv, DoneInv, ParentInv, Runnable, Queued, NoClick

\* Every step keeps the order of the jobs of a graph.
LEMMA StepFamily == FamilyInv /\ [JobNext]_jobVars => FamilyInv'
BY StepBase, StepDone, StepParent DEF FamilyInv, BaseInv

\* The parents of a runnable job were done in every state.
THEOREM FamilyInvariant == JobSpec => []FamilyInv
BY InitFamily, StepFamily, PTL DEF JobSpec

\* A job that is performed is started, hence runnable.
LEMMA FamilyChildAfterParents == FamilyInv => ChildAfterParents
BY BusyWorker DEF FamilyInv, BaseInv, LockInv, ParentInv, Runnable, ChildAfterParents

\* A job is performed only after each of its parents was done once, or a user said so.
THEOREM ParentsFirst == JobSpec => []ChildAfterParents
BY FamilyInvariant, FamilyChildAfterParents, PTL

-----------------------------------------------------------------------------
(* The children of a job that is done are released.                        *)

\* A worker that is releasing goes on, unless it is killed.
LEMMA ReleasingStays ==
    ASSUME Typed, [JobNext]_jobVars, NEW v \in Workers, worker[v].pc = "releasing"
    PROVE  worker'[v] = worker[v] \/ ReleaseChildren(v) \/ KillWorker(v)
<1>1. CASE Quiet
  BY <1>1, QuietKeeps
<1>2. ASSUME NEW w \in Workers, WorkerStep(w) \/ KillWorker(w)
      PROVE  worker'[v] = worker[v] \/ ReleaseChildren(v) \/ KillWorker(v)
  <2>1. CASE w = v
    BY <1>2, <2>1 DEF WorkerStep, Acquire, TakeLock, PerformDone, PerformRetry, Postpone, PerformConflict, PerformFail, Close
  <2>2. CASE w # v
    <3>1. \A x : [worker EXCEPT ![w] = x][v] = worker[v]
      BY <2>2 DEF Typed
    <3> QED
      BY <1>2, <2>2, <3>1 DEF WorkerStep, Acquire, TakeLock, PerformDone, PerformRetry, Postpone, PerformConflict, PerformFail, Close,
                ReleaseChildren, KillWorker
  <2> QED
    BY <2>1, <2>2
<1> QED
  BY <1>1, <1>2
  DEF JobNext, RunnerStep, Fault, UserStep, Quiet, DelayGraph, Dispatch, RequeueDead, Click, CommitClick

\* A job that is told to wait has a parent that is not done, in the table of then.
LEMMA WaitsForSomeone ==
    ASSUME Typed, ClickInv, LockInv, [JobNext]_jobVars, NEW j \in Jobs,
           state[j] # "wait_dependencies", state'[j] = "wait_dependencies", ParentsDone(j, state)'
    PROVE  stale'
<1>1. CASE Quiet
  BY <1>1, QuietKeeps
<1>2. ASSUME NEW g \in Graphs, DelayGraph(g)
      PROVE  FALSE
  <2>1. j \in g /\ Parents[j] # {} /\ Parents[j] \subseteq g /\ Parents[j] \subseteq Jobs
    BY <1>2, JobQueueAssumption DEF DelayGraph
  <2>2. PICK p \in Parents[j] : p \in g /\ p \in Jobs
    BY <2>1
  <2>3. state'[p] \in {"pending", "wait_dependencies"}
    BY <1>2, <2>2 DEF DelayGraph
  <2> QED
    BY <2>3 DEF ParentsDone
<1>3. CASE Dispatch
  BY <1>3, Dispatched DEF Typed
<1>4. ASSUME NEW js \in SUBSET Dead, RequeueDead(js)
      PROVE  FALSE
  BY <1>4 DEF RequeueDead
<1>5. ASSUME NEW w \in Workers, WorkerStep(w)
      PROVE  stale'
  <2>1. PerformConflict(w) \/ \E ignored \in BOOLEAN : PerformRetry(w, ignored)
    BY <1>5 DEF WorkerStep, Acquire, TakeLock, PerformDone, PerformFail, Close,
                ReleaseChildren, Typed
  <2>2. /\ worker[w].pc = "performing"
        /\ state' = [state EXCEPT ![worker[w].job] = IF worker[w].ready THEN "pending"
                                                     ELSE "wait_dependencies"]
        /\ stale' = (stale \/ worker[w].ready # ParentsDone(worker[w].job, state))
    BY <2>1 DEF PerformRetry, Postpone, PerformConflict
  <2>3. j = worker[w].job /\ ~worker[w].ready
    BY <2>2 DEF Typed
  <2>4. \A p \in Parents[j] : p # j /\ state[p] = "done"
    BY <2>2, <2>3, JobQueueAssumption DEF ParentsDone, Typed
  <2>5. ParentsDone(j, state)
    BY <2>4 DEF ParentsDone
  <2> QED
    BY <2>2, <2>3, <2>5
<1>6. CASE CommitClick
  <2>1. j = click.job /\ click.kind = "requeue" /\ ~ParentsDone(j, click.seen)
    BY <1>6, ClickChanges
  <2>2. stale' = (stale \/ Outdated(j))
    BY <1>6, <2>1 DEF CommitClick
  <2>3. \A p \in Parents[j] : p # j /\ state[p] = "done"
    <3>1. \A q \in Jobs : q # j => state'[q] = state[q]
      BY <1>6, <2>1 DEF CommitClick
    <3>2. \A p \in Parents[j] : p \in Jobs /\ state'[p] = "done"
      BY JobQueueAssumption DEF ParentsDone
    <3> QED
      BY <3>1, <3>2
  <2>4. ParentsDone(j, state)
    BY <2>3 DEF ParentsDone
  <2> QED
    BY <2>1, <2>2, <2>4 DEF Outdated
<1> QED
  BY <1>1, <1>2, <1>3, <1>4, <1>5, <1>6
  DEF JobNext, RunnerStep, Fault, UserStep, Quiet, KillWorker, Click

\* The last parent of a waiting job is done: a worker is about to release the job,
\* or the click that did it has, unless it decided on a view that was outdated.
LEMMA LastParent ==
    ASSUME Typed, ClickInv, [JobNext]_jobVars, NEW j \in Jobs,
           state[j] = "wait_dependencies", state'[j] = "wait_dependencies",
           ~ParentsDone(j, state), ParentsDone(j, state)'
    PROVE  \/ stale'
           \/ \E w \in Workers : worker'[w].pc = "releasing" /\ worker'[w].job \in Parents[j]
<1>1. PICK p \in Parents[j] : state[p] # "done" /\ state'[p] = "done"
  BY DEF ParentsDone
<1>2. p \in Jobs
  BY JobQueueAssumption
<1>3. ASSUME NEW w \in Workers, PerformDone(w), p = worker[w].job
      PROVE  worker'[w].pc = "releasing" /\ worker'[w].job \in Parents[j]
  BY <1>3, BusyWorker DEF PerformDone, Typed
<1>4. ASSUME CommitClick, p = click.job, click.kind = "done"
      PROVE  stale'
  <2>1. click.seen \in [Jobs -> States]
    BY <1>4, OpenClick
  <2> DEFINE st == [click.seen EXCEPT ![p] = "done"]
             now == [state EXCEPT ![p] = "done"]
  <2>2. /\ state' = [k \in Jobs |-> IF k = p THEN st[p]
                                    ELSE IF k \notin Released(p, st) THEN state[k] ELSE "pending"]
        /\ stale' = (stale \/ Outdated(p))
    BY <1>1, <1>2, <1>4 DEF CommitClick
  <2>3. j \notin Released(p, st)
    BY <1>1, <2>2
  <2>4. \A q \in Parents[j] : q # p => state[q] = "done"
    <3>1. \A q \in Jobs : q # p => state'[q] \in {state[q], "pending"}
      BY <2>2
    <3>2. \A q \in Parents[j] : q \in Jobs /\ state'[q] = "done"
      BY JobQueueAssumption DEF ParentsDone
    <3> QED
      BY <3>1, <3>2
  <2>5. ParentsDone(j, now)
    BY <2>4, JobQueueAssumption DEF ParentsDone, Typed
  <2>6. j \in Released(p, now)
    BY <1>1, <1>2, <2>5 DEF Released, Typed
  <2> QED
    BY <1>4, <2>2, <2>3, <2>6 DEF Outdated
<1> QED
  BY <1>1, <1>2, <1>3, <1>4, DoneBy

\* What was once decided on an outdated view stays in the history.
LEMMA StaleStays ==
    ASSUME [JobNext]_jobVars, stale
    PROVE  stale'
<1>1. CASE Quiet
  BY <1>1, QuietKeeps
<1> QED
  BY <1>1
  DEF JobNext, RunnerStep, WorkerStep, Fault, UserStep, Quiet, DelayGraph, Dispatch, RequeueDead,
      Acquire, TakeLock, PerformDone, PerformRetry, Postpone, PerformConflict, PerformFail, Close, ReleaseChildren, KillWorker,
      Click, CommitClick

\* A child whose parents are all done is released by the last of them, and waits again
\* only for a parent that is not done.
LEMMA StepReleased ==
    ASSUME Typed, ClickInv, LockInv, ChildIsReleased, [JobNext]_jobVars
    PROVE  ChildIsReleased'
<1> SUFFICES ASSUME NEW j \in Jobs, state'[j] = "wait_dependencies", ParentsDone(j, state)'
             PROVE  \/ stale'
                    \/ \E w \in Workers : worker'[w].pc = "releasing" /\ worker'[w].job \in Parents[j]
  BY DEF ChildIsReleased
<1>1. CASE state[j] = "wait_dependencies" /\ ParentsDone(j, state)
  <2>1. CASE stale
    BY <2>1, StaleStays
  <2>2. ASSUME NEW v \in Workers, worker[v].pc = "releasing", worker[v].job \in Parents[j]
        PROVE  \/ stale'
               \/ \E w \in Workers : worker'[w].pc = "releasing" /\ worker'[w].job \in Parents[j]
    <3>1. CASE worker'[v] = worker[v]
      BY <2>2, <3>1
    <3>2. CASE ReleaseChildren(v)
      <4>1. j \in Released(worker[v].job, state)
        BY <1>1, <2>2 DEF Released
      <4>2. state'[j] = "pending"
        BY <3>2, <4>1 DEF ReleaseChildren
      <4> QED
        BY <4>2
    <3>3. CASE KillWorker(v)
      BY <2>2, <3>3 DEF KillWorker
    <3> QED
      BY <2>2, <3>1, <3>2, <3>3, ReleasingStays
  <2> QED
    BY <1>1, <2>1, <2>2 DEF ChildIsReleased
<1>2. CASE state[j] # "wait_dependencies"
  BY <1>2, WaitsForSomeone
<1>3. CASE state[j] = "wait_dependencies" /\ ~ParentsDone(j, state)
  BY <1>3, LastParent
<1> QED
  BY <1>1, <1>2, <1>3

\* A child whose parents are all done is released, or about to be, unless a worker was
\* killed before it released or someone decided on a view of the table that another
\* commit had outdated: whatever the graph of the jobs.
THEOREM ChildrenReleased == JobSpec => []ChildIsReleased
<1>1. JobInit => ChildIsReleased
  BY DEF JobInit, ChildIsReleased
<1>2. BaseInv /\ ChildIsReleased /\ [JobNext]_jobVars => ChildIsReleased'
  BY StepReleased DEF BaseInv
<1> QED
  BY <1>1, <1>2, BaseInvariant, PTL DEF JobSpec

-----------------------------------------------------------------------------
(* The tries of a job.  A job that was found dead after its last try has   *)
(* one try more than its maximum, and two once it is done or failed: it is *)
(* then in no queue, so that no one starts it again before a user resets   *)
(* its tries.                                                              *)

Over == {"failed", "done", "cancelled"}

RetryInv ==
    \A j \in Jobs : MaxTries[j] # 0 =>
        /\ retry[j] <= MaxTries[j] + 2 + conflicts[j]
        /\ state[j] \notin Over => retry[j] <= MaxTries[j] + 1 + conflicts[j]
        /\ retry[j] = MaxTries[j] + 2 + conflicts[j] => ~Queued(j)

TryInv ==
    \A w \in Workers :
        worker[w].pc \in {"locking", "performing"} /\ MaxTries[worker[w].job] # 0
            => worker[w].try <= MaxTries[worker[w].job] + 1 + conflicts[worker[w].job]

\* The concurrency failures of a job are only counted up.
LEMMA ConflictsGrow ==
    ASSUME Typed, [JobNext]_jobVars, NEW k \in Jobs
    PROVE  conflicts[k] \in Nat /\ conflicts'[k] \in Nat /\ conflicts'[k] >= conflicts[k]
<1>1. CASE UNCHANGED conflicts
  BY <1>1 DEF Typed
<1>2. ASSUME NEW w \in Workers, PerformConflict(w)
      PROVE  conflicts[k] \in Nat /\ conflicts'[k] \in Nat /\ conflicts'[k] >= conflicts[k]
  BY <1>2 DEF PerformConflict, Typed
<1>3. CASE Quiet
  BY <1>1, <1>3, QuietKeeps
<1> QED
  BY <1>1, <1>2, <1>3
  DEF JobNext, RunnerStep, WorkerStep, Fault, UserStep, Quiet, DelayGraph, Dispatch, RequeueDead,
      Acquire, TakeLock, PerformDone, PerformRetry, PerformFail, Close, ReleaseChildren,
      KillWorker, Click, CommitClick

\* A bound on the tries of a worker outlasts what PostgreSQL refuses next.
LEMMA TryStays ==
    ASSUME Typed, TryInv, [JobNext]_jobVars, NEW v \in Workers, worker'[v].pc \in {"locking", "performing"},
           worker[v].pc \in {"locking", "performing"}, worker'[v].job = worker[v].job,
           worker'[v].try = worker[v].try, MaxTries[worker[v].job] # 0
    PROVE  worker'[v].try <= MaxTries[worker'[v].job] + 1 + conflicts'[worker'[v].job]
<1> DEFINE j == worker[v].job
<1>1. j \in Jobs /\ worker[v].try \in Nat
  BY BusyWorker
<1>2. worker[v].try <= MaxTries[j] + 1 + conflicts[j]
  BY DEF TryInv
<1>3. conflicts[j] \in Nat /\ conflicts'[j] \in Nat /\ conflicts'[j] >= conflicts[j]
  BY <1>1, ConflictsGrow
<1>4. MaxTries[j] \in Nat
  BY <1>1, JobQueueAssumption
<1> QED
  BY <1>1, <1>2, <1>3, <1>4

\* A worker starts from the tries of a job that is not over.
LEMMA StepTry ==
    ASSUME Typed, RetryInv, TryInv, [JobNext]_jobVars
    PROVE  TryInv'
<1>1. CASE UNCHANGED worker
  <2> SUFFICES ASSUME NEW w \in Workers, worker'[w].pc \in {"locking", "performing"},
                      MaxTries[worker'[w].job] # 0
               PROVE  worker'[w].try <= MaxTries[worker'[w].job] + 1 + conflicts'[worker'[w].job]
    BY DEF TryInv
  <2> QED
    BY <1>1, TryStays
<1>2. ASSUME NEW w \in Workers, NEW j \in Jobs, Acquire(w, j)
      PROVE  TryInv'
  <2>1. CASE UNCHANGED worker
    BY <1>1, <2>1
  <2>2. CASE /\ state[j] = "enqueued"
             /\ worker' = [worker EXCEPT ![w] = Busy("locking", j, retry[j], ParentsDone(j, state))]
    <3>1. worker'[w].job = j /\ worker'[w].try = retry[j]
      BY <2>2 DEF Typed, Busy
    <3>2. \A v \in Workers : v # w => worker'[v] = worker[v]
      BY <2>2 DEF Typed
    <3>3. MaxTries[j] # 0 => retry[j] <= MaxTries[j] + 1 + conflicts[j]
      BY <2>2 DEF RetryInv, Over
    <3>4. conflicts' = conflicts
      BY <1>2 DEF Acquire
    <3> QED
      BY <3>1, <3>2, <3>3, <3>4 DEF TryInv
  <2> QED
    BY <1>2, <2>1, <2>2 DEF Acquire
<1>3. ASSUME NEW w \in Workers, TakeLock(w)
      PROVE  TryInv'
  BY <1>3, BusyWorker DEF TakeLock, TryInv, Typed, Idle
<1>4. ASSUME NEW w \in Workers,
             \/ PerformDone(w) \/ PerformFail(w) \/ PerformConflict(w) \/ \E ignored \in BOOLEAN : PerformRetry(w, ignored)
             \/ Close(w) \/ ReleaseChildren(w) \/ KillWorker(w)
      PROVE  TryInv'
  <2>1. \A v \in Workers : v # w => worker'[v] = worker[v]
    BY <1>4 DEF Typed, PerformDone, PerformFail, PerformRetry, Postpone, PerformConflict, Close, ReleaseChildren, KillWorker
  <2>2. worker'[w].pc \notin {"locking", "performing"}
    BY <1>4, BusyWorker
    DEF Typed, PerformDone, PerformFail, PerformRetry, Postpone, PerformConflict, Close, ReleaseChildren, KillWorker, Idle
  <2> SUFFICES ASSUME NEW v \in Workers, worker'[v].pc \in {"locking", "performing"},
                      MaxTries[worker'[v].job] # 0
               PROVE  worker'[v].try <= MaxTries[worker'[v].job] + 1 + conflicts'[worker'[v].job]
    BY DEF TryInv
  <2>3. worker'[v] = worker[v]
    BY <2>1, <2>2
  <2> QED
    BY <2>3, TryStays
<1> QED
  BY <1>1, <1>2, <1>3, <1>4, QuietKeeps
  DEF JobNext, RunnerStep, WorkerStep, Fault, UserStep, Quiet, DelayGraph, Dispatch, RequeueDead,
      Click, CommitClick

\* A try is counted once by the worker, and once more by the runner that finds it dead.
LEMMA StepRetry ==
    ASSUME Typed, ClickInv, PlaceInv, LockInv, RetryInv, TryInv, [JobNext]_jobVars
    PROVE  RetryInv'
<1> SUFFICES ASSUME NEW k \in Jobs, MaxTries[k] # 0
             PROVE  /\ retry'[k] <= MaxTries[k] + 2 + conflicts'[k]
                    /\ state'[k] \notin Over => retry'[k] <= MaxTries[k] + 1 + conflicts'[k]
                    /\ retry'[k] = MaxTries[k] + 2 + conflicts'[k] => ~Queued(k)'
  BY DEF RetryInv
<1> DEFINE Good == /\ retry'[k] <= MaxTries[k] + 2 + conflicts'[k]
                   /\ state'[k] \notin Over => retry'[k] <= MaxTries[k] + 1 + conflicts'[k]
                   /\ retry'[k] = MaxTries[k] + 2 + conflicts'[k] => ~Queued(k)'
<1>0. /\ retry[k] \in Nat /\ MaxTries[k] \in Nat
      /\ conflicts[k] \in Nat /\ conflicts'[k] \in Nat /\ conflicts'[k] >= conflicts[k]
  BY ConflictsGrow, JobQueueAssumption DEF Typed
<1>1. CASE retry'[k] = retry[k] /\ (state'[k] \notin Over => state[k] \notin Over)
  <2>1. /\ retry[k] <= MaxTries[k] + 2 + conflicts[k]
        /\ state'[k] \notin Over => retry[k] <= MaxTries[k] + 1 + conflicts[k]
    BY <1>1 DEF RetryInv
  <2>2. ASSUME retry[k] = MaxTries[k] + 2 + conflicts'[k]
        PROVE  ~Queued(k)'
    <3>0. retry[k] = MaxTries[k] + 2 + conflicts[k]
      BY <1>0, <2>1, <2>2
    <3>1. ~Queued(k) /\ state[k] # "pending"
      BY <1>0, <3>0 DEF RetryInv, Over
    <3> QED
      BY <3>1, QueueEntries
  <2> QED
    BY <1>0, <1>1, <2>1, <2>2
<1>2. CASE Quiet
  BY <1>1, <1>2, QuietKeeps
<1>3. ASSUME NEW g \in Graphs, DelayGraph(g)
      PROVE  Good
  BY <1>1, <1>3 DEF DelayGraph, Over
<1>4. CASE Dispatch
  <2> DEFINE j == First(Ready(Root))
  <2>1. /\ j \in Jobs /\ j \in queue[Root] /\ state' = [state EXCEPT ![j] = "enqueued"]
        /\ retry' = retry
    BY <1>4, Dispatched
  <2> HIDE DEF j
  <2>2. CASE k = j
    <3>1. Queued(k)
      BY <2>1, <2>2 DEF Queued, Channels
    <3>2. retry[k] <= MaxTries[k] + 1 + conflicts[k]
      BY <1>0, <3>1 DEF RetryInv
    <3> QED
      BY <1>0, <2>1, <3>2
  <2>3. CASE k # j
    BY <1>1, <2>1, <2>3 DEF Typed
  <2> QED
    BY <2>2, <2>3
<1>5. ASSUME NEW js \in SUBSET Dead, RequeueDead(js)
      PROVE  Good
  <2>1. CASE k \in js
    <3>1. state[k] \in {"enqueued", "started"}
      BY <2>1 DEF Dead, InFlight
    <3>2. retry[k] <= MaxTries[k] + 1 + conflicts[k] /\ ~Queued(k)
      BY <3>1, QueuedIsNotInFlight DEF RetryInv, Over
    <3>3. /\ state'[k] = IF TooManyTries(k) THEN "failed" ELSE "pending"
          /\ retry'[k] \in {retry[k], retry[k] + 1}
      BY <1>5, <2>1 DEF RequeueDead, Typed
    <3>4. ~Queued(k)'
      BY <3>1, <3>2, QueueEntries
    <3>5. CASE TooManyTries(k)
      BY <1>0, <3>2, <3>3, <3>4, <3>5 DEF Over
    <3>6. CASE ~TooManyTries(k)
      BY <1>0, <3>3, <3>4, <3>6 DEF TooManyTries
    <3> QED
      BY <3>5, <3>6
  <2>2. CASE k \notin js
    BY <1>1, <1>5, <2>2 DEF RequeueDead
  <2> QED
    BY <2>1, <2>2
<1>6. ASSUME NEW w \in Workers, WorkerStep(w)
      PROVE  Good
  <2>1. CASE /\ PerformDone(w) \/ PerformFail(w) \/ PerformConflict(w) \/ \E ignored \in BOOLEAN : PerformRetry(w, ignored)
             /\ k = worker[w].job
    <3>1. worker[w].pc = "performing"
      BY <2>1 DEF PerformDone, PerformFail, PerformRetry, Postpone, PerformConflict
    <3>2. state[k] = "started" /\ worker[w].try \in Nat /\ worker[w].try <= MaxTries[k] + 1 + conflicts[k]
      BY <2>1, <3>1, BusyWorker DEF LockInv, TryInv
    <3>3. ~Queued(k)'
      BY <3>2, QueueEntries, QueuedIsNotInFlight
    <3>4. CASE PerformDone(w) \/ PerformFail(w)
      <4>1. retry'[k] = worker[w].try + 1 /\ state'[k] \in Over
        BY <2>1, <3>4 DEF PerformDone, PerformFail, Typed, Over
      <4> QED
        BY <1>0, <3>2, <3>3, <4>1
    <3>5. ASSUME NEW ignored \in BOOLEAN, PerformRetry(w, ignored)
          PROVE  Good
      <4>1. CASE ignored
        <5>1. retry'[k] = worker[w].try + 0
          BY <2>1, <3>5, <4>1 DEF PerformRetry, Postpone, PerformConflict, Typed
        <5> QED
          BY <1>0, <3>2, <3>3, <5>1
      <4>2. CASE ~ignored
        <5>1. retry'[k] = worker[w].try + 1 /\ TriesLeft(k, worker[w].try + 1)
          BY <2>1, <3>5, <4>2 DEF PerformRetry, Postpone, PerformConflict, Typed
        <5> QED
          BY <1>0, <3>2, <3>3, <5>1 DEF TriesLeft
      <4> QED
        BY <4>1, <4>2
    <3>6. CASE PerformConflict(w)
      <4>1. retry'[k] = worker[w].try + 1 /\ conflicts'[k] = conflicts[k] + 1
        BY <2>1, <3>6 DEF PerformConflict, Postpone, Typed
      <4> QED
        BY <1>0, <3>2, <3>3, <4>1
    <3> QED
      BY <2>1, <3>4, <3>5, <3>6
  <2>2. CASE /\ PerformDone(w) \/ PerformFail(w) \/ PerformConflict(w) \/ \E ignored \in BOOLEAN : PerformRetry(w, ignored)
             /\ k # worker[w].job
    BY <1>1, <2>2 DEF PerformDone, PerformFail, PerformRetry, Postpone, PerformConflict, Typed
  <2>3. CASE TakeLock(w) \/ Close(w)
    BY <1>1, <2>3 DEF TakeLock, Close
  <2>4. CASE ReleaseChildren(w)
    BY <1>1, <2>4 DEF ReleaseChildren, Released, Over
  <2>5. CASE \E j \in Jobs : Acquire(w, j)
    BY <1>1, <2>5 DEF Acquire, Typed, Over
  <2> QED
    BY <1>6, <2>1, <2>2, <2>3, <2>4, <2>5 DEF WorkerStep
<1>7. ASSUME NEW w \in Workers, KillWorker(w)
      PROVE  Good
  BY <1>1, <1>7 DEF KillWorker
<1>8. CASE CommitClick
  <2>1. CASE click.kind = "requeue" /\ k = click.job
    <3>1. retry'[k] = 0 \/ (retry'[k] = retry[k] /\ state'[k] = state[k])
      BY <1>8, <2>1 DEF CommitClick, Typed
    <3>2. CASE retry'[k] = 0
      BY <1>0, <3>2
    <3> QED
      BY <1>1, <3>1, <3>2
  <2>2. CASE ~(click.kind = "requeue" /\ k = click.job)
    <3>1. retry'[k] = retry[k]
      BY <1>8, <2>2 DEF CommitClick, Typed
    <3>2. state'[k] \notin Over => state[k] \notin Over
      BY <1>8, <2>2, ClickChanges DEF Over
    <3> QED
      BY <1>1, <3>1, <3>2
  <2> QED
    BY <2>1, <2>2
<1>9. ASSUME NEW kind \in {"done", "cancel", "requeue"}, NEW j \in Jobs, Click(kind, j)
      PROVE  Good
  BY <1>1, <1>9 DEF Click
<1> QED
  BY <1>2, <1>3, <1>4, <1>5, <1>6, <1>7, <1>8, <1>9
  DEF JobNext, RunnerStep, Fault, UserStep, Quiet

CountInv == FamilyInv /\ RetryInv /\ TryInv

\* The tries of a job are bounded by its maximum, two, and its concurrency failures.
THEOREM CountInvariant == JobSpec => []CountInv
<1>1. JobInit => RetryInv /\ TryInv
  BY JobQueueAssumption DEF JobInit, RetryInv, TryInv, Over, Idle
<1>2. FamilyInv /\ RetryInv /\ TryInv /\ [JobNext]_jobVars => RetryInv' /\ TryInv'
  BY StepTry, StepRetry DEF FamilyInv, BaseInv
<1> QED
  BY <1>1, <1>2, FamilyInvariant, PTL DEF JobSpec, CountInv

\* The bound on tries and the types make the type invariant of the runs.
LEMMA CountTypeOK == CountInv => JobTypeOK
<1> SUFFICES ASSUME CountInv
             PROVE  JobTypeOK
  OBVIOUS
<1>1. Typed /\ RetryInv
  BY DEF CountInv, FamilyInv, BaseInv
<1> QED
  BY <1>1 DEF Typed, RetryInv, JobTypeOK

-----------------------------------------------------------------------------
(* The runner holds a job in at most one of its queues, its running jobs   *)
(* and its failed jobs, and what it holds is what the table says unless a  *)
(* notification is to come.                                                *)

Waits(j) == j \in queue[ChannelOf[j]] \cup queue[Root]

Once(j) ==
    /\ ~(Waits(j) /\ j \in run[Root])
    /\ ~(Waits(j) /\ j \in failed[ChannelOf[j]])
    /\ ~(j \in run[Root] /\ j \in failed[ChannelOf[j]])
    /\ j \in run[ChannelOf[j]] => j \in run[Root] \cup queue[Root]
    /\ state[j] = "absent" => ~Waits(j) /\ j \notin run[Root] /\ j \notin failed[ChannelOf[j]]

OnceInv == \A j \in Jobs : Once(j)

Agrees(j) ==
    state[j] # "wait_dependencies" =>
        /\ Waits(j) <=> state[j] = "pending"
        /\ j \in run[Root] <=> j \in InFlight
        /\ j \in failed[ChannelOf[j]] <=> state[j] = "failed"

AgreeInv == runner # "down" => \A j \in Jobs \ notified : Agrees(j)

\* The jobs of a channel after one of them leaves or enters some channels.
LEMMA Members ==
    ASSUME NEW f \in [Channels -> SUBSET Jobs], NEW j \in Jobs, NEW cs,
           NEW c \in Channels, NEW k \in Jobs
    PROVE  /\ k \in Without(f, j, cs)[c] <=> k \in f[c] /\ ~(k = j /\ c \in cs)
           /\ k \in With(f, j, cs)[c] <=> k \in f[c] \/ (k = j /\ c \in cs)
BY DEF Without, With

\* A job that leaves its path is in none of its channels, and one that enters is there.
LEMMA OwnPath ==
    ASSUME NEW f \in [Channels -> SUBSET Jobs], NEW j \in Jobs
    PROVE  /\ j \notin Without(f, j, Path(j))[ChannelOf[j]] /\ j \notin Without(f, j, Path(j))[Root]
           /\ j \in With(f, j, Path(j))[Root]
           /\ j \in With(Without(f, j, {Root}), j, {ChannelOf[j]})[ChannelOf[j]]
<1>1. Root \in Channels /\ ChannelOf[j] \in Channels
  BY JobQueueAssumption DEF Channels
<1>2. \A cs : Without(f, j, cs) \in [Channels -> SUBSET Jobs]
  BY ChannelSets
<1>3. j \notin Without(f, j, Path(j))[ChannelOf[j]] /\ j \notin Without(f, j, Path(j))[Root]
  BY <1>1 DEF Without, Path
<1>4. j \in With(f, j, Path(j))[Root]
  BY <1>1 DEF With, Path
<1>5. j \in With(Without(f, j, {Root}), j, {ChannelOf[j]})[ChannelOf[j]]
  <2> DEFINE g == Without(f, j, {Root})
  <2>1. g \in [Channels -> SUBSET Jobs]
    BY <1>2
  <2> HIDE DEF g
  <2>2. j \in With(g, j, {ChannelOf[j]})[ChannelOf[j]]
    BY <1>1 DEF With
  <2> QED
    BY <2>2 DEF g
<1> QED
  BY <1>3, <1>4, <1>5

\* A notification about a job moves no other job.
LEMMA HandledOthers ==
    ASSUME Typed, NEW j \in Jobs, HandleNotification(j), NEW k \in Jobs, k # j, NEW c \in Channels
    PROVE  /\ k \in queue'[c] <=> k \in queue[c]
           /\ k \in run'[c] <=> k \in run[c]
           /\ k \in failed'[c] <=> k \in failed[c]
<1> USE Members, ChannelSets
<1>0. /\ queue \in [Channels -> SUBSET Jobs] /\ run \in [Channels -> SUBSET Jobs]
      /\ failed \in [Channels -> SUBSET Jobs]
  BY DEF Typed
<1>1. CASE SetPending(j)
  <2>1. Without(queue, j, {Root}) \in [Channels -> SUBSET Jobs]
    BY <1>0
  <2> QED
    BY <1>0, <1>1, <2>1 DEF SetPending
<1>2. CASE SetRunning(j)
  BY <1>0, <1>2 DEF SetRunning
<1>3. CASE SetFailed(j)
  <2>1. Without(failed, j, {Root}) \in [Channels -> SUBSET Jobs]
    BY <1>0
  <2> QED
    BY <1>0, <1>3, <2>1 DEF SetFailed
<1>4. CASE Forget(j)
  BY <1>0, <1>4 DEF Forget
<1>5. CASE UNCHANGED <<queue, run, failed>>
  BY <1>5
<1> QED
  BY <1>1, <1>2, <1>3, <1>4, <1>5 DEF HandleNotification

\* The job it is about is then where its state says.
LEMMA HandledJob ==
    ASSUME Typed, PlaceInv, OnceInv, NEW j \in Jobs, HandleNotification(j), UNCHANGED state
    PROVE  Once(j)' /\ Agrees(j)'
<1> DEFINE c == ChannelOf[j]
<1>0. /\ queue \in [Channels -> SUBSET Jobs] /\ run \in [Channels -> SUBSET Jobs]
      /\ failed \in [Channels -> SUBSET Jobs]
      /\ c \in Channels /\ Root \in Channels /\ Path(j) = {c, Root} /\ Once(j) /\ state'[j] = state[j]
  BY JobQueueAssumption DEF Typed, Channels, Path, OnceInv
<1>1. CASE state[j] = "pending" /\ SetPending(j)
  <2>1. CASE Known(j, queue)
    BY <1>0, <1>1, <2>1 DEF SetPending, Known, Once, Agrees, Waits, InFlight
  <2>2. CASE ~Known(j, queue)
    <3>1. Without(queue, j, {Root}) \in [Channels -> SUBSET Jobs]
      BY <1>0, ChannelSets
    <3>2. /\ queue' = With(Without(queue, j, {Root}), j, {c})
          /\ run' = Without(run, j, Path(j)) /\ failed' = Without(failed, j, Path(j))
      BY <1>1, <2>2 DEF SetPending
    <3>3. /\ j \in queue'[c] /\ j \notin run'[Root] /\ j \notin run'[c] /\ j \notin failed'[c]
      BY <1>0, <3>2, OwnPath
    <3> QED
      BY <1>0, <1>1, <3>3 DEF Once, Agrees, Waits, InFlight
  <2> QED
    BY <2>1, <2>2
<1>2. CASE state[j] \in {"enqueued", "started"} /\ SetRunning(j)
  <2>1. CASE Known(j, run)
    <3>1. ~Waits(j) /\ j \notin queue[Root]
      BY <1>0, <1>2 DEF PlaceInv, Waits, InFlight
    <3>2. j \in run[Root]
      BY <1>0, <2>1, <3>1 DEF Known, Once
    <3> QED
      BY <1>0, <1>2, <2>1, <3>1, <3>2 DEF SetRunning, Once, Agrees, Waits, InFlight
  <2>2. CASE ~Known(j, run)
    <3>1. /\ queue' = Without(queue, j, Path(j))
          /\ run' = With(run, j, Path(j)) /\ failed' = Without(failed, j, Path(j))
      BY <1>2, <2>2 DEF SetRunning
    <3>2. /\ j \notin queue'[c] /\ j \notin queue'[Root] /\ j \in run'[Root] /\ j \notin failed'[c]
      BY <1>0, <3>1, OwnPath
    <3> QED
      BY <1>0, <1>2, <3>2 DEF Once, Agrees, Waits, InFlight
  <2> QED
    BY <2>1, <2>2
<1>3. CASE state[j] = "failed" /\ SetFailed(j)
  <2>1. CASE Known(j, failed)
    BY <1>0, <1>3, <2>1 DEF SetFailed, Known, Once, Agrees, Waits, InFlight
  <2>2. CASE ~Known(j, failed)
    <3>1. Without(failed, j, {Root}) \in [Channels -> SUBSET Jobs]
      BY <1>0, ChannelSets
    <3>2. /\ queue' = Without(queue, j, Path(j)) /\ run' = Without(run, j, Path(j))
          /\ failed' = With(Without(failed, j, {Root}), j, {c})
      BY <1>3, <2>2 DEF SetFailed
    <3>3. /\ j \notin queue'[c] /\ j \notin queue'[Root] /\ j \notin run'[Root] /\ j \notin run'[c]
          /\ j \in failed'[c]
      BY <1>0, <3>2, OwnPath
    <3> QED
      BY <1>0, <1>3, <3>3 DEF Once, Agrees, Waits, InFlight
  <2> QED
    BY <2>1, <2>2
<1>4. CASE state[j] \in {"done", "cancelled", "wait_dependencies"} /\ Forget(j)
  <2>1. /\ j \notin queue'[c] /\ j \notin queue'[Root] /\ j \notin run'[Root] /\ j \notin run'[c]
        /\ j \notin failed'[c]
    BY <1>0, <1>4, OwnPath DEF Forget
  <2> QED
    BY <1>0, <1>4, <2>1 DEF Once, Agrees, Waits, InFlight
<1>5. CASE state[j] \in {"absent", "wait_dependencies"} /\ UNCHANGED <<queue, run, failed>>
  BY <1>0, <1>5 DEF Once, Agrees, Waits, InFlight
<1> QED
  BY <1>1, <1>2, <1>3, <1>4, <1>5 DEF HandleNotification

\* Where the jobs are when the channels were emptied into root.
LEMMA EnteredJob ==
    ASSUME Typed, PlaceInv, OnceInv, EnterRun, NEW k \in Jobs
    PROVE  /\ Waits(k)' <=> Waits(k)
           /\ k \in queue[Root] => k \in queue'[Root]
           /\ k \in run'[ChannelOf[k]] => k \in run[ChannelOf[k]] \cup queue'[Root]
           /\ UNCHANGED <<state, failed>> /\ run'[Root] = run[Root]
<1> DEFINE all == UNION {Yielded(c) : c \in Subchannels}
           ck == ChannelOf[k]
<1>1. /\ queue' = [c \in Channels |-> IF c = Root THEN queue[c] \cup all ELSE queue[c] \ all]
      /\ run' = [c \in Channels |-> IF c = Root THEN run[c] ELSE run[c] \cup Yielded(c)]
      /\ UNCHANGED <<state, failed>>
  BY DEF EnterRun
<1>2. \A c \in Subchannels : k \in Yielded(c) => k \in queue[c] /\ c = ck
  BY JobQueueAssumption DEF Yielded, Ready, PlaceInv, Path, Channels
<1>3. k \in all <=> \E c \in Subchannels : k \in Yielded(c)
  OBVIOUS
<1>4. k \in all => k \in queue[ck]
  BY <1>2, <1>3
<1> HIDE DEF all
<1>5. Root \in Channels /\ ck \in Channels /\ (ck # Root => ck \in Subchannels)
  BY JobQueueAssumption DEF Channels
<1>6. queue'[Root] = queue[Root] \cup all /\ (ck # Root => queue'[ck] = queue[ck] \ all)
  BY <1>1, <1>5
<1>7. run'[Root] = run[Root] /\ (ck # Root => run'[ck] = run[ck] \cup Yielded(ck))
  BY <1>1, <1>5
<1>8. ck # Root /\ k \in Yielded(ck) => k \in all
  BY <1>3, <1>5
<1> QED
  BY <1>1, <1>4, <1>5, <1>6, <1>7, <1>8 DEF Waits

\* Where a job is after a dispatch: the one dispatched runs, no other moves.
LEMMA DispatchedJob ==
    ASSUME Typed, PlaceInv, OnceInv, Dispatch, NEW k \in Jobs
    PROVE  \/ /\ ~Waits(k)' /\ k \in run'[Root] /\ Waits(k) /\ state'[k] = "enqueued"
              /\ UNCHANGED failed /\ (runner' # "down" => k \in notified')
           \/ /\ Waits(k)' <=> Waits(k)
              /\ k \in queue'[Root] <=> k \in queue[Root]
              /\ \A c \in Channels : k \in run'[c] <=> k \in run[c]
              /\ state'[k] = state[k] /\ UNCHANGED failed
<1> DEFINE j == First(Ready(Root))
<1>1. /\ j \in Jobs /\ j \in queue[Root]
      /\ queue' = Without(queue, j, {Root}) /\ run' = With(run, j, {Root})
      /\ state' = [state EXCEPT ![j] = "enqueued"] /\ Notify({j}) /\ UNCHANGED <<failed, runner>>
  BY Dispatched
<1> HIDE DEF j
<1>2. Root \in Channels /\ ChannelOf[k] \in Channels
  BY JobQueueAssumption DEF Channels
<1>3. \A c \in Channels : /\ k \in queue'[c] <=> k \in queue[c] /\ ~(k = j /\ c = Root)
                          /\ k \in run'[c] <=> k \in run[c] \/ (k = j /\ c = Root)
  BY <1>1, Members DEF Typed
<1>4. CASE k = j
  <2>1. ChannelOf[j] # Root => j \notin queue[ChannelOf[j]]
    BY <1>1, <1>2 DEF PlaceInv
  <2>2. ~Waits(k)' /\ Waits(k) /\ k \in run'[Root]
    BY <1>1, <1>2, <1>3, <1>4, <2>1 DEF Waits
  <2>3. state'[k] = "enqueued" /\ (runner' # "down" => k \in notified')
    BY <1>1, <1>4 DEF Typed, Notify
  <2> QED
    BY <1>1, <2>2, <2>3
<1>5. CASE k # j
  BY <1>1, <1>2, <1>3, <1>5 DEF Waits, Typed
<1> QED
  BY <1>4, <1>5

\* A job whose state changes is one the runner is told about, while it listens.
LEMMA ChangesAreNotified ==
    ASSUME Typed, ClickInv, [JobNext]_jobVars, NEW k \in Jobs, state'[k] # state[k]
    PROVE  runner' # "down" => k \in notified' /\ runner # "down"
<1>1. CASE Quiet
  BY <1>1, QuietKeeps
<1>2. ASSUME NEW g \in Graphs, DelayGraph(g)
      PROVE  runner' # "down" => k \in notified' /\ runner # "down"
  BY <1>2 DEF DelayGraph, Notify
<1>3. CASE Dispatch
  BY <1>3, Dispatched DEF Typed, Notify
<1>4. ASSUME NEW js \in SUBSET Dead, RequeueDead(js)
      PROVE  k \in notified' /\ runner # "down"
  BY <1>4 DEF RequeueDead, Notify
<1>5. ASSUME NEW w \in Workers, WorkerStep(w)
      PROVE  runner' # "down" => k \in notified' /\ runner # "down"
  BY <1>5 DEF WorkerStep, Acquire, TakeLock, PerformDone, PerformRetry, Postpone, PerformConflict, PerformFail, Close,
              ReleaseChildren, Typed, Notify
<1>6. CASE CommitClick
  <2> DEFINE j == click.job
             st == [click.seen EXCEPT ![j] =
                      CASE click.kind = "done" -> "done"
                        [] click.kind = "cancel" -> "cancelled"
                        [] click.kind = "requeue" /\ ParentsDone(j, click.seen) -> "pending"
                        [] OTHER -> "wait_dependencies"]
             ks == CASE click.kind = "done" -> Released(j, st)
                     [] click.kind = "cancel" -> Cancelled(j, st)
                     [] OTHER -> {}
  <2>1. /\ \A i \in Jobs : i # j /\ i \notin ks => state'[i] = state[i]
        /\ Notify(ks \cup {j}) /\ UNCHANGED runner
    BY <1>6 DEF CommitClick
  <2> HIDE DEF ks
  <2> QED
    BY <2>1 DEF Notify
<1> QED
  BY <1>1, <1>2, <1>3, <1>4, <1>5, <1>6
  DEF JobNext, RunnerStep, Fault, UserStep, Quiet, KillWorker, Click

\* The table never forgets a job, and a job that is not stored stays out of the channels.
LEMMA AbsentBefore ==
    ASSUME Typed, ClickInv, [JobNext]_jobVars, NEW k \in Jobs, state'[k] = "absent"
    PROVE  state[k] = "absent"
<1>1. CASE Quiet
  BY <1>1, QuietKeeps
<1>2. CASE Dispatch
  BY <1>2, Dispatched DEF Typed
<1>3. CASE CommitClick
  BY <1>3, ClickChanges
<1>4. ASSUME NEW w \in Workers, WorkerStep(w)
      PROVE  state[k] = "absent"
  BY <1>4 DEF WorkerStep, Acquire, TakeLock, PerformDone, PerformRetry, Postpone, PerformConflict, PerformFail, Close,
              ReleaseChildren, Typed
<1>5. ASSUME NEW js \in SUBSET Dead, RequeueDead(js)
      PROVE  state[k] = "absent"
  BY <1>5 DEF RequeueDead
<1> QED
  BY <1>1, <1>2, <1>3, <1>4, <1>5
  DEF JobNext, RunnerStep, Fault, UserStep, Quiet, DelayGraph, KillWorker, Click

\* A job moves from one of its sets to another, and is stored before it enters one.
LEMMA StepOnce ==
    ASSUME Typed, ClickInv, PlaceInv, OnceInv, [JobNext]_jobVars
    PROVE  OnceInv'
<1> SUFFICES ASSUME NEW k \in Jobs
             PROVE  Once(k)'
  BY DEF OnceInv
<1>0. Once(k) /\ ChannelOf[k] \in Channels /\ Root \in Channels
  BY JobQueueAssumption DEF OnceInv, Channels
<1>1. CASE UNCHANGED <<queue, run, failed>>
  BY <1>0, <1>1, AbsentBefore DEF Once, Waits
<1>2. ASSUME NEW j \in Jobs, ProcessNotification(j)
      PROVE  Once(k)'
  <2>1. HandleNotification(j) /\ UNCHANGED state
    BY <1>2 DEF ProcessNotification
  <2>2. CASE k = j
    BY <2>1, <2>2, HandledJob
  <2>3. CASE k # j
    BY <1>0, <2>1, <2>3, HandledOthers DEF Once, Waits
  <2> QED
    BY <2>2, <2>3
<1>3. CASE EnterRun
  BY <1>0, <1>3, EnteredJob DEF Once, Waits
<1>4. CASE Dispatch
  BY <1>0, <1>4, DispatchedJob DEF Once, Waits
<1>5. CASE StartRunner
  BY <1>0, <1>5 DEF StartRunner, Once, Waits, Loaded, Path
<1>6. CASE StopRunner
  BY <1>0, <1>6 DEF StopRunner, Once, Waits
<1> QED
  BY <1>1, <1>2, <1>3, <1>4, <1>5, <1>6, ChannelsKept
  DEF JobNext, RunnerStep, Fault, UserStep

\* A job of which no notification is to come did not change, or was just handled.
LEMMA StepAgree ==
    ASSUME Typed, ClickInv, PlaceInv, OnceInv, AgreeInv, [JobNext]_jobVars
    PROVE  AgreeInv'
<1> SUFFICES ASSUME runner' # "down", NEW k \in Jobs, k \notin notified'
             PROVE  Agrees(k)'
  BY DEF AgreeInv
<1>0. ChannelOf[k] \in Channels /\ Root \in Channels
  BY JobQueueAssumption DEF Channels
<1>1. state'[k] = state[k]
  BY ChangesAreNotified
<1>2. ASSUME UNCHANGED <<queue, run, failed>>, runner # "down", k \notin notified
      PROVE  Agrees(k)'
  <2>1. Agrees(k)
    BY <1>2 DEF AgreeInv
  <2> QED
    BY <1>1, <1>2, <2>1 DEF Agrees, Waits, InFlight
<1>3. ASSUME NEW j \in Jobs, ProcessNotification(j)
      PROVE  Agrees(k)'
  <2>1. HandleNotification(j) /\ UNCHANGED state /\ runner # "down" /\ notified' = notified \ {j}
    BY <1>3 DEF ProcessNotification
  <2>2. CASE k = j
    BY <2>1, <2>2, HandledJob
  <2>3. CASE k # j
    <3>1. Agrees(k)
      BY <2>1, <2>3 DEF AgreeInv
    <3> QED
      BY <1>0, <1>1, <2>1, <2>3, <3>1, HandledOthers DEF Agrees, Waits, InFlight
  <2> QED
    BY <2>2, <2>3
<1>4. CASE EnterRun
  <2>1. runner # "down" /\ k \notin notified
    BY <1>4 DEF EnterRun
  <2>2. Agrees(k)
    BY <2>1 DEF AgreeInv
  <2> QED
    BY <1>1, <1>4, <2>2, EnteredJob DEF Agrees, InFlight
<1>5. CASE Dispatch
  <2>1. runner # "down" /\ k \notin notified
    BY <1>5, Dispatched DEF Notify
  <2>2. Agrees(k)
    BY <2>1 DEF AgreeInv
  <2> QED
    BY <1>0, <1>1, <1>5, <2>2, DispatchedJob DEF Agrees, InFlight
<1>6. CASE StartRunner
  <2>1. state[k] \in States
    BY DEF Typed
  <2> QED
    BY <1>0, <1>1, <1>6, <2>1 DEF StartRunner, Agrees, Waits, Loaded, Path, InFlight, States
<1>7. CASE StopRunner
  BY <1>7 DEF StopRunner
<1>8. ASSUME \/ \E g \in Graphs : DelayGraph(g)
             \/ \E js \in SUBSET Dead : RequeueDead(js)
             \/ \E w \in Workers : WorkerStep(w) \/ KillWorker(w)
             \/ \E j \in Jobs : LoseRequest(j) \/ PassEta(j)
             \/ \E kind \in {"done", "cancel", "requeue"}, j \in Jobs : Click(kind, j)
             \/ CommitClick
             \/ UNCHANGED jobVars
      PROVE  Agrees(k)'
  <2>1. runner # "down" /\ k \notin notified
    BY <1>8 DEF DelayGraph, RequeueDead, WorkerStep, Acquire, TakeLock, PerformDone, PerformRetry, Postpone, PerformConflict,
       PerformFail, Close, ReleaseChildren, KillWorker, LoseRequest, PassEta, Click, CommitClick,
       jobVars, Notify
  <2> QED
    BY <1>2, <1>8, <2>1, ChannelsKept
<1> QED
  BY <1>3, <1>4, <1>5, <1>6, <1>7, <1>8
  DEF JobNext, RunnerStep, Fault, UserStep

-----------------------------------------------------------------------------
(* Capacities.  A channel counts the jobs it has given to root among its   *)
(* running ones, and every job in flight is among those of its channels,   *)
(* so that a channel within its capacity bounds the table.                 *)

\* A set of jobs is finite.
LEMMA JobSets ==
    ASSUME NEW T, T \subseteq Jobs
    PROVE  IsFiniteSet(T) /\ Cardinality(T) \in Nat
BY JobQueueAssumption, FS_Subset, FS_CardinalityType

\* Fewer jobs are not more.
LEMMA SmallerSet ==
    ASSUME NEW T, T \subseteq Jobs, NEW S, S \subseteq T
    PROVE  Cardinality(S) <= Cardinality(T)
BY JobSets, FS_Subset

\* One job more adds one at most.
LEMMA OneMore ==
    ASSUME NEW T, T \subseteq Jobs, NEW j \in Jobs
    PROVE  Cardinality(T \cup {j}) <= Cardinality(T) + 1
<1>1. IsFiniteSet(T) /\ Cardinality(T) \in Nat
  BY JobSets
<1>2. CASE j \in T
  <2>1. T \cup {j} = T
    BY <1>2
  <2>2. Cardinality(T) <= Cardinality(T) + 1
    BY <1>1
  <2> QED
    BY <2>1, <2>2, Zenon
<1>3. CASE j \notin T
  <2>1. Cardinality(T \cup {j}) = Cardinality(T) + 1
    BY <1>1, <1>3, FS_AddElement
  <2> QED
    BY <1>1, <2>1
<1> QED
  BY <1>2, <1>3

\* A channel gives to root no more jobs than it has places left.
LEMMA YieldedFits ==
    ASSUME Typed, NEW c \in Channels, Capacity[c] # 0, HasCapacity(c)
    PROVE  Cardinality(run[c]) + Cardinality(Yielded(c)) <= Capacity[c]
<1> DEFINE n == Cardinality(run[c])
           Y == Yielded(c)
           B(j) == Before(j, c)
           Left(j) == Capacity[c] - n - Cardinality(B(j))
<1>0. n \in Nat /\ Capacity[c] \in Nat /\ n < Capacity[c]
  BY JobSets, JobQueueAssumption DEF Typed, HasCapacity
<1>1. Ready(c) \subseteq Jobs /\ Y \subseteq Ready(c)
  BY DEF Typed, Ready, Yielded
<1>2. \A j \in Jobs : B(j) \subseteq Jobs /\ IsFiniteSet(B(j)) /\ Cardinality(B(j)) \in Nat
  <2> TAKE j \in Jobs
  <2>1. B(j) \subseteq Jobs
    BY <1>1 DEF Before
  <2> QED
    BY <2>1, JobSets
<1>3. \A j \in Y : n + Cardinality(B(j)) < Capacity[c]
  BY DEF Yielded
<1>4. CASE Y = {}
  BY <1>0, <1>4, FS_EmptySet
<1>5. CASE Y # {}
  <2> DEFINE T == {Left(j) : j \in Y}
  <2> HIDE DEF n, Y, B
  <2>1. T \in SUBSET Nat /\ T # {}
    <3>1. \A j \in Y : Left(j) \in Nat
      BY <1>0, <1>1, <1>2, <1>3
    <3> QED
      BY <1>5, <3>1
  <2>2. PICK m \in T : \A i \in T : m <= i
    <3> HIDE DEF T
    <3> QED
      BY <2>1, LeastNat
  <2>3. PICK l \in Y : \A j \in Y : Left(l) <= Left(j)
    BY <2>2
  <2>4. \A j \in Y : Cardinality(B(j)) <= Cardinality(B(l))
    BY <1>0, <1>1, <1>2, <2>3
  <2>5. l \in Jobs /\ l \in Ready(c)
    BY <1>1
  <2>6. ASSUME NEW j \in Y, j # l
        PROVE  j \in B(l)
    <3>1. j \in Jobs /\ j \in Ready(c) /\ Rank[j] \in Nat /\ Rank[l] \in Nat /\ Rank[j] # Rank[l]
      BY <1>1, <2>5, <2>6, JobQueueAssumption
    <3>2. CASE Rank[j] < Rank[l]
      BY <3>1, <3>2 DEF B, Before
    <3>3. CASE Rank[l] < Rank[j]
      <4>1. B(l) \cup {l} \subseteq B(j)
        <5>1. \A k \in Jobs : Rank[k] \in Nat
          BY JobQueueAssumption
        <5>2. \A k \in Jobs : Rank[k] < Rank[l] => Rank[k] < Rank[j]
          BY <3>1, <3>3, <5>1
        <5> QED
          BY <1>1, <2>5, <3>3, <5>2 DEF B, Before
      <4>2. l \notin B(l)
        BY <3>1 DEF B, Before
      <4>3. Cardinality(B(l) \cup {l}) = Cardinality(B(l)) + 1
        BY <1>2, <2>5, <4>2, FS_AddElement
      <4>4. Cardinality(B(l) \cup {l}) <= Cardinality(B(j))
        BY <1>2, <3>1, <4>1, SmallerSet
      <4> QED
        BY <1>2, <2>4, <2>5, <3>1, <4>3, <4>4
    <3> QED
      BY <3>1, <3>2, <3>3
  <2>7. Y \subseteq B(l) \cup {l}
    BY <2>6
  <2>8. Cardinality(B(l) \cup {l}) <= Cardinality(B(l)) + 1
    BY <1>2, <2>5, OneMore
  <2>9. Cardinality(Y) <= Cardinality(B(l) \cup {l})
    <3>1. B(l) \cup {l} \subseteq Jobs
      BY <1>2, <2>5
    <3> QED
      BY <2>7, <3>1, SmallerSet
  <2>10. Cardinality(Y) \in Nat /\ Cardinality(B(l) \cup {l}) \in Nat /\ Cardinality(B(l)) \in Nat
    <3>1. B(l) \cup {l} \subseteq Jobs /\ Y \subseteq Jobs
      BY <1>1, <1>2, <2>5
    <3> QED
      BY <1>2, <2>5, <3>1, JobSets
  <2>11. n + Cardinality(B(l)) < Capacity[c]
    BY <1>3
  <2> QED
    BY <1>0, <2>8, <2>9, <2>10, <2>11 DEF n, Y
<1> QED
  BY <1>4, <1>5

Mine(c) == {j \in InFlight : c \in Path(j)}

\* A job of a subchannel that waits in root keeps its place in its channel.
KeepsPlace == \A j \in queue[Root] : ChannelOf[j] # Root => j \in run[ChannelOf[j]]

HoldsInv == runner # "down" => \A c \in Channels : Mine(c) \subseteq run[c]

SizeInv ==
    runner # "down" => \A c \in Channels :
        Capacity[c] # 0 => Cardinality(run[c]) <= Capacity[c]

\* Only the dispatcher puts a job in flight.
LEMMA InFlightBy ==
    ASSUME Typed, ClickInv, [JobNext]_jobVars, NEW k \in Jobs, k \in InFlight', k \notin InFlight
    PROVE  Dispatch
<1>0. state'[k] \in {"enqueued", "started"} /\ state[k] \notin {"enqueued", "started"}
  BY DEF InFlight
<1>1. CASE Quiet
  BY <1>0, <1>1, QuietKeeps
<1>2. ASSUME NEW w \in Workers, WorkerStep(w)
      PROVE  FALSE
  BY <1>0, <1>2 DEF WorkerStep, Acquire, TakeLock, PerformDone, PerformRetry, Postpone, PerformConflict, PerformFail, Close,
                    ReleaseChildren, Typed
<1>3. CASE CommitClick
  BY <1>0, <1>3, ClickChanges
<1>4. ASSUME NEW js \in SUBSET Dead, RequeueDead(js)
      PROVE  FALSE
  BY <1>0, <1>4 DEF RequeueDead
<1>5. ASSUME NEW g \in Graphs, DelayGraph(g)
      PROVE  FALSE
  BY <1>0, <1>5 DEF DelayGraph
<1> QED
  BY <1>0, <1>1, <1>2, <1>3, <1>4, <1>5
  DEF JobNext, RunnerStep, Fault, UserStep, Quiet, KillWorker, Click

\* A job is counted by its channel when it is given to root, and until it leaves root.
LEMMA StepPlaceKept ==
    ASSUME Typed, PlaceInv, KeepsPlace, [JobNext]_jobVars
    PROVE  KeepsPlace'
<1> SUFFICES ASSUME NEW k \in queue'[Root], ChannelOf[k] # Root
             PROVE  k \in run'[ChannelOf[k]]
  BY DEF KeepsPlace
<1>0. Root \in Channels
  BY DEF Channels
<1>1. CASE UNCHANGED <<queue, run, failed>>
  BY <1>1 DEF KeepsPlace
<1>2. ASSUME NEW j \in Jobs, ProcessNotification(j)
      PROVE  k \in run'[ChannelOf[k]]
  <2>1. HandleNotification(j)
    BY <1>2 DEF ProcessNotification
  <2>2. k \in Jobs /\ ChannelOf[k] \in Channels
    BY <1>0, <2>1, HandledSets, JobQueueAssumption
  <2>3. CASE k # j
    BY <1>0, <2>1, <2>2, <2>3, HandledOthers DEF KeepsPlace
  <2>4. CASE k = j
    <3>1. CASE UNCHANGED <<queue, run, failed>>
      BY <1>1, <3>1
    <3>2. CASE SetPending(j) /\ ~Known(j, queue)
      BY <1>0, <2>4, <3>2 DEF SetPending, With, Without
    <3>3. CASE queue' = Without(queue, j, Path(j))
      BY <2>2, <2>4, <3>3, OwnPath DEF Typed
    <3> QED
      BY <2>1, <3>1, <3>2, <3>3 DEF HandleNotification, SetPending, SetRunning, SetFailed, Forget
  <2> QED
    BY <2>3, <2>4
<1>3. CASE EnterRun
  <2> DEFINE all == UNION {Yielded(c) : c \in Subchannels}
  <2>1. /\ queue' = [c \in Channels |-> IF c = Root THEN queue[c] \cup all ELSE queue[c] \ all]
        /\ run' = [c \in Channels |-> IF c = Root THEN run[c] ELSE run[c] \cup Yielded(c)]
    BY <1>3 DEF EnterRun
  <2>2. CASE k \in queue[Root]
    <3>1. k \in run[ChannelOf[k]] /\ k \in Jobs
      BY <1>0, <2>2 DEF KeepsPlace, Typed
    <3>2. ChannelOf[k] \in Channels
      BY <3>1, JobQueueAssumption
    <3> QED
      BY <2>1, <3>1, <3>2
  <2>3. CASE k \in all
    <3>1. PICK c \in Subchannels : k \in Yielded(c)
      BY <2>3
    <3>2. k \in queue[c] /\ c \in Channels /\ c # Root
      BY <3>1, JobQueueAssumption DEF Yielded, Ready, Channels
    <3>3. c = ChannelOf[k]
      BY <3>2 DEF PlaceInv, Path
    <3> QED
      BY <2>1, <3>1, <3>2, <3>3
  <2> QED
    BY <1>0, <2>1, <2>2, <2>3
<1>4. CASE Dispatch
  <2>1. k \in queue[Root] /\ k \in Jobs
    BY <1>0, <1>4, Dispatched DEF Without, Typed
  <2>2. ChannelOf[k] \in Channels
    BY <2>1, JobQueueAssumption
  <2>3. \A c \in Channels : run[c] \subseteq run'[c]
    BY <1>4, Dispatched DEF With
  <2> QED
    BY <2>1, <2>2, <2>3 DEF KeepsPlace
<1>5. CASE StartRunner
  BY <1>0, <1>5 DEF StartRunner
<1>6. CASE StopRunner
  BY <1>0, <1>6 DEF StopRunner
<1> QED
  BY <1>1, <1>2, <1>3, <1>4, <1>5, <1>6, ChannelsKept
  DEF JobNext, RunnerStep, Fault, UserStep

\* A job in flight is counted by its channel and by root.
LEMMA StepHolds ==
    ASSUME Typed, ClickInv, PlaceInv, KeepsPlace, HoldsInv, [JobNext]_jobVars
    PROVE  HoldsInv'
<1> SUFFICES ASSUME runner' # "down", NEW c \in Channels, NEW k \in Jobs, k \in InFlight', c \in Path(k)
             PROVE  k \in run'[c]
  BY DEF HoldsInv, Mine, InFlight
<1>0. Root \in Channels /\ ChannelOf[k] \in Channels
  BY JobQueueAssumption DEF Channels
<1>1. ASSUME UNCHANGED <<queue, run, failed>>, runner # "down", k \in InFlight
      PROVE  k \in run'[c]
  BY <1>1 DEF HoldsInv, Mine
<1>2. ASSUME NEW j \in Jobs, ProcessNotification(j)
      PROVE  k \in run'[c]
  <2>1. HandleNotification(j) /\ UNCHANGED state /\ runner # "down"
    BY <1>2 DEF ProcessNotification
  <2>2. k \in run[c] /\ state[k] \in {"enqueued", "started"}
    BY <2>1 DEF HoldsInv, Mine, InFlight
  <2>3. CASE k # j
    BY <2>1, <2>2, <2>3, HandledOthers
  <2>4. CASE k = j
    <3>1. SetRunning(j)
      BY <2>1, <2>2, <2>4 DEF HandleNotification
    <3> QED
      BY <2>2, <3>1 DEF SetRunning, With
  <2> QED
    BY <2>3, <2>4
<1>3. CASE EnterRun
  <2>1. UNCHANGED state /\ runner # "down" /\ run[c] \subseteq run'[c]
    BY <1>3 DEF EnterRun
  <2> QED
    BY <2>1 DEF HoldsInv, Mine, InFlight
<1>4. CASE Dispatch
  <2> DEFINE j == First(Ready(Root))
  <2>1. /\ j \in Jobs /\ j \in queue[Root] /\ run' = With(run, j, {Root})
        /\ state' = [state EXCEPT ![j] = "enqueued"] /\ runner # "down"
    BY <1>4, Dispatched
  <2> HIDE DEF j
  <2>2. run[c] \subseteq run'[c] /\ j \in run'[Root]
    BY <1>0, <2>1 DEF With
  <2>3. CASE k = j
    <3>1. CASE c = Root
      BY <2>2, <2>3, <3>1
    <3>2. CASE c # Root
      <4>1. c = ChannelOf[k]
        BY <3>2 DEF Path
      <4> QED
        BY <2>1, <2>2, <2>3, <3>2, <4>1 DEF KeepsPlace
    <3> QED
      BY <3>1, <3>2
  <2>4. CASE k # j
    <3>1. k \in InFlight
      BY <2>1, <2>4 DEF InFlight, Typed
    <3> QED
      BY <2>1, <2>2, <3>1 DEF HoldsInv, Mine
  <2> QED
    BY <2>3, <2>4
<1>5. CASE StartRunner
  BY <1>5 DEF StartRunner, Loaded, InFlight
<1>6. CASE StopRunner
  BY <1>6 DEF StopRunner
<1>7. ASSUME \/ \E g \in Graphs : DelayGraph(g)
             \/ \E js \in SUBSET Dead : RequeueDead(js)
             \/ \E w \in Workers : WorkerStep(w) \/ KillWorker(w)
             \/ \E j \in Jobs : LoseRequest(j) \/ PassEta(j)
             \/ \E kind \in {"done", "cancel", "requeue"}, j \in Jobs : Click(kind, j)
             \/ CommitClick
             \/ UNCHANGED jobVars
      PROVE  k \in run'[c]
  <2>1. runner # "down"
    BY <1>7 DEF DelayGraph, RequeueDead, WorkerStep, Acquire, TakeLock, PerformDone, PerformRetry, Postpone, PerformConflict,
       PerformFail, Close, ReleaseChildren, KillWorker, LoseRequest, PassEta, Click, CommitClick,
       jobVars
  <2>2. CASE k \in InFlight
    BY <1>1, <1>7, <2>1, <2>2, ChannelsKept
  <2>3. CASE k \notin InFlight
    BY <1>4, <2>3, InFlightBy
  <2> QED
    BY <2>2, <2>3
<1> QED
  BY <1>2, <1>3, <1>4, <1>5, <1>6, <1>7
  DEF JobNext, RunnerStep, Fault, UserStep

\* A channel that gives jobs to root stays within its capacity.
LEMMA StepSize ==
    ASSUME Typed, PlaceInv, HoldsInv, SizeInv, CapacityRespected, [JobNext]_jobVars
    PROVE  SizeInv'
<1> SUFFICES ASSUME runner' # "down", NEW c \in Channels, Capacity[c] # 0
             PROVE  Cardinality(run'[c]) <= Capacity[c]
  BY DEF SizeInv
<1>0. /\ Root \in Channels /\ Capacity[c] \in Nat /\ run[c] \subseteq Jobs
      /\ IsFiniteSet(run[c]) /\ Cardinality(run[c]) \in Nat
  BY JobSets, JobQueueAssumption DEF Channels, Typed
<1>1. ASSUME runner # "down", run'[c] \subseteq run[c]
      PROVE  Cardinality(run'[c]) <= Capacity[c]
  <2>1. Cardinality(run'[c]) <= Cardinality(run[c]) /\ Cardinality(run'[c]) \in Nat
    BY <1>0, <1>1, SmallerSet, JobSets
  <2>2. Cardinality(run[c]) <= Capacity[c]
    BY <1>1 DEF SizeInv
  <2> QED
    BY <1>0, <2>1, <2>2
<1>2. ASSUME NEW j \in Jobs, ProcessNotification(j)
      PROVE  Cardinality(run'[c]) <= Capacity[c]
  <2>1. HandleNotification(j) /\ runner # "down"
    BY <1>2 DEF ProcessNotification
  <2>2. CASE state[j] \in {"enqueued", "started"} /\ SetRunning(j)
    <3>1. c \in Path(j) => j \in run[c]
      BY <2>1, <2>2 DEF HoldsInv, Mine, InFlight
    <3>2. run'[c] \subseteq run[c]
      BY <2>2, <3>1 DEF SetRunning, With
    <3> QED
      BY <1>1, <2>1, <3>2
  <2>3. CASE SetPending(j) \/ SetFailed(j) \/ Forget(j) \/ UNCHANGED run
    <3>1. run'[c] \subseteq run[c]
      BY <2>3 DEF SetPending, SetFailed, Forget, Without
    <3> QED
      BY <1>1, <2>1, <3>1
  <2> QED
    BY <2>1, <2>2, <2>3 DEF HandleNotification
<1>3. CASE EnterRun
  <2>1. runner # "down" /\ run'[c] = IF c = Root THEN run[c] ELSE run[c] \cup Yielded(c)
    BY <1>3 DEF EnterRun
  <2>2. CASE c = Root
    BY <1>1, <2>1, <2>2
  <2>3. CASE c # Root /\ ~HasCapacity(c)
    <3>1. Yielded(c) = {}
      BY <2>3 DEF Yielded
    <3> QED
      BY <1>1, <2>1, <3>1
  <2>4. CASE c # Root /\ HasCapacity(c)
    <3>1. Yielded(c) \subseteq Jobs
      BY DEF Yielded, Ready, Typed
    <3>2. IsFiniteSet(Yielded(c)) /\ Cardinality(Yielded(c)) \in Nat
      BY <3>1, JobSets
    <3>3. IsFiniteSet(run[c] \cap Yielded(c)) /\ Cardinality(run[c] \cap Yielded(c)) \in Nat
      BY <1>0, JobSets
    <3>4. Cardinality(run'[c]) = Cardinality(run[c]) + Cardinality(Yielded(c))
                                 - Cardinality(run[c] \cap Yielded(c))
      BY <1>0, <2>1, <2>4, <3>2, FS_Union
    <3>5. Cardinality(run[c]) + Cardinality(Yielded(c)) <= Capacity[c]
      BY <2>4, YieldedFits
    <3> QED
      BY <1>0, <3>2, <3>3, <3>4, <3>5
  <2> QED
    BY <2>2, <2>3, <2>4
<1>4. CASE Dispatch
  <2> DEFINE j == First(Ready(Root))
  <2>1. /\ j \in Jobs /\ run' = With(run, j, {Root}) /\ HasCapacity(Root) /\ runner # "down"
    BY <1>4, Dispatched
  <2> HIDE DEF j
  <2>2. CASE c # Root
    BY <1>1, <2>1, <2>2 DEF With
  <2>3. CASE c = Root
    <3>1. run'[c] = run[c] \cup {j}
      BY <2>1, <2>3 DEF With
    <3>2. Cardinality(run'[c]) <= Cardinality(run[c]) + 1
      BY <1>0, <2>1, <3>1, OneMore
    <3>3. Cardinality(run[c]) < Capacity[c]
      BY <2>1, <2>3 DEF HasCapacity
    <3>4. Cardinality(run'[c]) \in Nat
      BY <1>0, <2>1, <3>1, JobSets
    <3> QED
      BY <1>0, <3>2, <3>3, <3>4
  <2> QED
    BY <2>2, <2>3
<1>5. CASE StartRunner
  <2>1. run'[c] = Mine(c)
    BY <1>5 DEF StartRunner, Loaded, Mine, InFlight
  <2> QED
    BY <2>1 DEF CapacityRespected, Mine
<1>6. CASE StopRunner
  BY <1>6 DEF StopRunner
<1>7. ASSUME \/ \E g \in Graphs : DelayGraph(g)
             \/ \E js \in SUBSET Dead : RequeueDead(js)
             \/ \E w \in Workers : WorkerStep(w) \/ KillWorker(w)
             \/ \E j \in Jobs : LoseRequest(j) \/ PassEta(j)
             \/ \E kind \in {"done", "cancel", "requeue"}, j \in Jobs : Click(kind, j)
             \/ CommitClick
             \/ UNCHANGED jobVars
      PROVE  Cardinality(run'[c]) <= Capacity[c]
  <2>1. runner # "down"
    BY <1>7 DEF DelayGraph, RequeueDead, WorkerStep, Acquire, TakeLock, PerformDone, PerformRetry, Postpone, PerformConflict,
       PerformFail, Close, ReleaseChildren, KillWorker, LoseRequest, PassEta, Click, CommitClick,
       jobVars
  <2> QED
    BY <1>1, <1>7, <2>1, ChannelsKept
<1> QED
  BY <1>2, <1>3, <1>4, <1>5, <1>6, <1>7
  DEF JobNext, RunnerStep, Fault, UserStep

\* The table stays within the capacities: only the dispatcher adds a job, and it counts.
LEMMA StepCapacity ==
    ASSUME Typed, ClickInv, PlaceInv, KeepsPlace, HoldsInv, SizeInv, CapacityRespected,
           [JobNext]_jobVars
    PROVE  CapacityRespected'
<1> SUFFICES ASSUME NEW c \in Channels, Capacity[c] # 0
             PROVE  Cardinality(Mine(c)') <= Capacity[c]
  BY DEF CapacityRespected, Mine
<1>0. Capacity[c] \in Nat /\ Mine(c) \subseteq Jobs /\ Mine(c)' \subseteq Jobs
  BY JobQueueAssumption DEF Mine, InFlight
<1>1. Cardinality(Mine(c)) \in Nat /\ Cardinality(Mine(c)') \in Nat
  BY <1>0, JobSets
<1>2. CASE Dispatch
  <2>1. runner' # "down"
    BY <1>2, Dispatched
  <2>2. HoldsInv' /\ SizeInv' /\ Typed'
    BY StepHolds, StepSize, StepTyped
  <2>3. Mine(c)' \subseteq run'[c] /\ Cardinality(run'[c]) <= Capacity[c] /\ run'[c] \subseteq Jobs
    BY <2>1, <2>2 DEF HoldsInv, SizeInv, Typed
  <2>4. Cardinality(Mine(c)') <= Cardinality(run'[c]) /\ Cardinality(run'[c]) \in Nat
    BY <2>3, SmallerSet, JobSets
  <2> QED
    BY <1>0, <1>1, <2>3, <2>4
<1>3. CASE ~Dispatch
  <2>1. Mine(c)' \subseteq Mine(c)
    BY <1>0, <1>3, InFlightBy DEF Mine
  <2>2. Cardinality(Mine(c)') <= Cardinality(Mine(c))
    BY <1>0, <2>1, SmallerSet
  <2>3. Cardinality(Mine(c)) <= Capacity[c]
    BY DEF CapacityRespected, Mine
  <2> QED
    BY <1>0, <1>1, <2>2, <2>3
<1> QED
  BY <1>2, <1>3

-----------------------------------------------------------------------------
(* The invariant of the queue.                                             *)

SlotInv == OnceInv /\ AgreeInv /\ KeepsPlace /\ HoldsInv /\ SizeInv /\ CapacityRespected

\* No channel holds a job at first.
LEMMA InitSlot == JobInit => SlotInv
<1> SUFFICES ASSUME JobInit
             PROVE  SlotInv
  OBVIOUS
<1>0. Root \in Channels /\ \A j \in Jobs : ChannelOf[j] \in Channels
  BY JobQueueAssumption DEF Channels
<1>1. OnceInv
  BY <1>0 DEF JobInit, OnceInv, Once, Waits
<1>2. AgreeInv /\ HoldsInv /\ SizeInv
  BY DEF JobInit, AgreeInv, HoldsInv, SizeInv
<1>3. KeepsPlace
  BY <1>0 DEF JobInit, KeepsPlace
<1>4. CapacityRespected
  <2>1. InFlight = {}
    BY DEF JobInit, InFlight
  <2> SUFFICES ASSUME NEW c \in Channels
               PROVE  Cardinality({j \in InFlight : c \in Path(j)}) <= Capacity[c]
    BY DEF CapacityRespected
  <2>2. {j \in InFlight : c \in Path(j)} = {}
    BY <2>1
  <2>3. Cardinality({j \in InFlight : c \in Path(j)}) = 0
    BY <2>2, FS_EmptySet, Zenon
  <2> QED
    BY <2>3, JobQueueAssumption
<1> QED
  BY <1>1, <1>2, <1>3, <1>4 DEF SlotInv

\* Every step keeps places and capacities.
LEMMA StepSlot ==
    ASSUME Typed, ClickInv, PlaceInv, SlotInv, [JobNext]_jobVars
    PROVE  SlotInv'
BY StepOnce, StepAgree, StepPlaceKept, StepHolds, StepSize, StepCapacity DEF SlotInv

\* The agreement of memory and table, as the runs state it.
LEMMA AgreeChannels == AgreeInv => ChannelsAgree
BY DEF AgreeInv, Agrees, Waits, ChannelsAgree

\* The table is well typed and no job has more tries than its maximum and two; two
\* workers never perform the same job; the jobs in flight never exceed a channel's
\* capacity, whatever the runner has lost of its memory; what the runner holds of a job
\* is what the table says or it is about to be told; and no job is performed before its
\* parents: for any jobs, channels, workers and troubles.
THEOREM QueueIsSound == JobSpec => []JobInv
<1>1. BaseInv /\ SlotInv /\ [JobNext]_jobVars => SlotInv'
  BY StepSlot DEF BaseInv
<1>2. JobSpec => []SlotInv
  BY <1>1, InitSlot, BaseInvariant, PTL DEF JobSpec
<1>3. SlotInv /\ CountInv => JobInv
  BY CountTypeOK, AgreeChannels, FamilyChildAfterParents, BaseExclusive
  DEF SlotInv, CountInv, FamilyInv, JobInv
<1> QED
  BY <1>2, <1>3, CountInvariant, PTL

-----------------------------------------------------------------------------
(* What is reached in a graph.                                             *)

\* A set and what follows it.
Grown(R, T) == UNION {{x} \cup {r[2] : r \in {k \in R : k[1] = x}} : x \in T}

\* T is closed under R.
ClosedIn(R, T) == \A r \in R : r[1] \in T => r[2] \in T

\* What is met turn after turn.
Wave(g, R, S, X) ==
    /\ g \in [0 .. Units + MaxCalls -> SUBSET X]
    /\ g[0] = S
    /\ \A n \in 0 .. (Units + MaxCalls) - 1 : g[n + 1] = Grown(R, g[n])

\* Growing keeps what there is, and stops at what is closed.
LEMMA GrownIs ==
    ASSUME NEW X, NEW R \in SUBSET (X \X X), NEW T \in SUBSET X
    PROVE  /\ Grown(R, T) \in SUBSET X
           /\ T \subseteq Grown(R, T)
           /\ \A C : T \subseteq C /\ ClosedIn(R, C) => Grown(R, T) \subseteq C
           /\ Grown(R, T) = T => ClosedIn(R, T)
<1>1. \A y : y \in Grown(R, T) <=> \E x \in T : y = x \/ \E r \in R : r[1] = x /\ y = r[2]
  BY DEF Grown
<1>2. \A r \in R : r[1] \in X /\ r[2] \in X
  OBVIOUS
<1>3. Grown(R, T) \in SUBSET X
  BY <1>1, <1>2
<1>4. T \subseteq Grown(R, T)
  BY <1>1
<1>5. \A C : T \subseteq C /\ ClosedIn(R, C) => Grown(R, T) \subseteq C
  BY <1>1 DEF ClosedIn
<1>6. Grown(R, T) = T => ClosedIn(R, T)
  BY <1>1 DEF ClosedIn
<1> QED
  BY <1>3, <1>4, <1>5, <1>6

\* What is reached is what the last turn met.
LEMMA ReachedIsWave ==
    ASSUME NEW X, NEW R \in SUBSET (X \X X), NEW S \in SUBSET X
    PROVE  \E g : Wave(g, R, S, X) /\ Reached(R, S) = g[Units + MaxCalls]
<1> DEFINE N == Units + MaxCalls
           Turns(g) == g = [n \in 0 .. N |->
                               IF n = 0 THEN S
                               ELSE UNION {{x} \cup {r[2] : r \in {k \in R : k[1] = x}} : x \in g[n - 1]}]
<1>0. N \in Nat
  BY JobGraphsAssumption
<1>1. \A T \in SUBSET X : Grown(R, T) \in SUBSET X
  BY GrownIs
<1>2. PICK next : next = [p \in (1 .. N) \X SUBSET X |-> Grown(R, p[2])]
  OBVIOUS
<1>3. next \in [(1 .. N) \X SUBSET X -> SUBSET X]
  BY <1>1, <1>2
<1>4. PICK h : TurnByTurn(h, N, SUBSET X, S, next)
  <2>1. PICK V : V = SUBSET X
    OBVIOUS
  <2>2. S \in V /\ next \in [(1 .. N) \X V -> V]
    BY <1>3, <2>1
  <2> HIDE DEF N
  <2>3. \E g : TurnByTurn(g, N, V, S, next)
    BY <1>0, <2>2, TurnsExist
  <2> QED
    BY <2>1, <2>3
<1>5. h \in [0 .. N -> SUBSET X] /\ h[0] = S /\ \A n \in 1 .. N : h[n] = Grown(R, h[n - 1])
  <2>1. h \in [0 .. N -> SUBSET X] /\ h[0] = S /\ \A n \in 1 .. N : h[n] = next[<<n, h[n - 1]>>]
    BY <1>4 DEF TurnByTurn
  <2> HIDE DEF N
  <2>2. ASSUME NEW n \in 1 .. N PROVE h[n] = Grown(R, h[n - 1])
    <3>1. n - 1 \in 0 .. N
      BY <1>0
    <3>2. <<n, h[n - 1]>> \in (1 .. N) \X SUBSET X
      BY <2>1, <3>1
    <3> QED
      BY <1>2, <2>1, <3>2
  <2> QED
    BY <2>1, <2>2
<1>6. Turns(h)
  BY <1>5 DEF Grown
<1>7. Turns(CHOOSE g : Turns(g))
  BY <1>6
<1>8. PICK f : f = CHOOSE g : Turns(g)
  OBVIOUS
<1>9. Reached(R, S) = f[N]
  BY <1>8 DEF Reached
<1>10. Turns(f)
  BY <1>7, <1>8
<1>11. f[0] = S /\ \A n \in 1 .. N : f[n] = Grown(R, f[n - 1])
  <2>1. f[0] = S
    BY <1>0, <1>10
  <2>2. ASSUME NEW n \in 1 .. N PROVE f[n] = Grown(R, f[n - 1])
    <3>1. n \in 0 .. N /\ n # 0
      BY <1>0
    <3>2. f[n] = UNION {{x} \cup {r[2] : r \in {k \in R : k[1] = x}} : x \in f[n - 1]}
      BY <1>10, <3>1
    <3> QED
      BY <3>2 DEF Grown
  <2> QED
    BY <2>1, <2>2
<1>12. \A n \in 0 .. N - 1 : f[n + 1] = Grown(R, f[n])
  <2> TAKE n \in 0 .. N - 1
  <2>1. n + 1 \in 1 .. N /\ (n + 1) - 1 = n
    BY <1>0
  <2> QED
    BY <1>11, <2>1
<1> DEFINE P == {n \in 0 .. N : f[n] \in SUBSET X}
<1>13. 0 \in P
  BY <1>0, <1>11
<1>14. \A n \in 0 .. N - 1 : n \in P => n + 1 \in P
  BY <1>0, <1>1, <1>12
<1>15. \A n \in 0 .. N : n \in P
  <2> HIDE DEF P, N
  <2> QED
    BY <1>0, <1>13, <1>14, CountInduction
<1>16. \A n \in 0 .. N : f[n] \in SUBSET X
  BY <1>15
<1>17. DOMAIN f = 0 .. N /\ f = [n \in DOMAIN f |-> f[n]]
  BY <1>10
<1>18. Wave(f, R, S, X)
  BY <1>11, <1>12, <1>16, <1>17 DEF Wave
<1> QED
  BY <1>9, <1>18

\* In a graph that is not too large, what is reached from S is the least set that holds S
\* and is closed.
LEMMA ReachedIsLeast ==
    ASSUME NEW X, IsFiniteSet(X), Cardinality(X) <= Units + MaxCalls,
           NEW R \in SUBSET (X \X X), NEW S \in SUBSET X
    PROVE  /\ Reached(R, S) \in SUBSET X
           /\ S \subseteq Reached(R, S)
           /\ ClosedIn(R, Reached(R, S))
           /\ \A C : S \subseteq C /\ ClosedIn(R, C) => Reached(R, S) \subseteq C
<1> DEFINE N == Units + MaxCalls
<1>0. N \in Nat
  BY JobGraphsAssumption
<1>1. PICK g : Wave(g, R, S, X) /\ Reached(R, S) = g[N]
  BY ReachedIsWave
<1>2. /\ \A n \in 0 .. N : g[n] \in SUBSET X
      /\ g[0] = S
      /\ \A n \in 0 .. N - 1 : g[n + 1] = Grown(R, g[n])
  BY <1>1 DEF Wave
<1> HIDE DEF N
<1>3. 0 \in 0 .. N /\ N \in 0 .. N /\ \A n \in 0 .. N - 1 : n \in 0 .. N /\ n + 1 \in 0 .. N
  BY <1>0
<1>4. ASSUME NEW C, S \subseteq C, ClosedIn(R, C) PROVE Reached(R, S) \subseteq C
  <2> DEFINE P == {n \in 0 .. N : g[n] \subseteq C}
  <2>1. 0 \in P
    BY <1>2, <1>3, <1>4
  <2>2. \A n \in 0 .. N - 1 : n \in P => n + 1 \in P
    <3> TAKE n \in 0 .. N - 1
    <3> HAVE n \in P
    <3>1. g[n + 1] \subseteq C
      BY <1>2, <1>3, <1>4, GrownIs
    <3> QED
      BY <1>3, <3>1
  <2> HIDE DEF P
  <2>3. N \in P
    BY <1>0, <1>3, <2>1, <2>2, CountInduction
  <2> QED
    BY <1>1, <2>3 DEF P
<1>5. S \subseteq Reached(R, S)
  <2> DEFINE P == {n \in 0 .. N : S \subseteq g[n]}
  <2>1. 0 \in P
    BY <1>2, <1>3
  <2>2. \A n \in 0 .. N - 1 : n \in P => n + 1 \in P
    <3> TAKE n \in 0 .. N - 1
    <3> HAVE n \in P
    <3>1. g[n] \subseteq g[n + 1]
      BY <1>2, <1>3, GrownIs
    <3> QED
      BY <1>3, <3>1
  <2> HIDE DEF P
  <2>3. N \in P
    BY <1>0, <1>3, <2>1, <2>2, CountInduction
  <2> QED
    BY <1>1, <2>3 DEF P
<1>6. ClosedIn(R, g[N])
  <2> DEFINE P == {n \in 0 .. N : Cardinality(g[n]) >= n \/ ClosedIn(R, g[n])}
  <2>1. \A n \in 0 .. N : IsFiniteSet(g[n]) /\ Cardinality(g[n]) \in Nat /\ Cardinality(g[n]) <= Cardinality(X)
    BY <1>2, FS_Subset, FS_CardinalityType
  <2>2. 0 \in P
    BY <1>3, <2>1
  <2>3. ASSUME NEW n \in 0 .. N - 1, n \in P PROVE n + 1 \in P
    <3>1. n \in 0 .. N /\ n + 1 \in 0 .. N /\ g[n] \in SUBSET X /\ g[n + 1] = Grown(R, g[n])
      BY <1>2, <1>3
    <3>2. g[n] \subseteq g[n + 1] /\ (g[n + 1] = g[n] => ClosedIn(R, g[n]))
      BY <3>1, GrownIs
    <3>3. CASE g[n + 1] = g[n]
      BY <3>1, <3>2, <3>3
    <3>4. CASE g[n + 1] # g[n]
      <4>1. ~ClosedIn(R, g[n])
        <5>1. SUFFICES ASSUME ClosedIn(R, g[n]) PROVE FALSE
          OBVIOUS
        <5>2. g[n + 1] \subseteq g[n]
          BY <3>1, <5>1, GrownIs
        <5> QED
          BY <3>2, <3>4, <5>2
      <4>2. Cardinality(g[n]) >= n
        BY <2>3, <4>1
      <4>3. Cardinality(g[n]) < Cardinality(g[n + 1])
        <5>1. g[n] # g[n + 1] /\ g[n] \in SUBSET g[n + 1]
          BY <3>2, <3>4
        <5>2. IsFiniteSet(g[n + 1]) /\ Cardinality(g[n]) \in Nat /\ Cardinality(g[n + 1]) \in Nat
          BY <2>1, <3>1
        <5>3. Cardinality(g[n]) <= Cardinality(g[n + 1])
              /\ (Cardinality(g[n]) = Cardinality(g[n + 1]) => g[n] = g[n + 1])
          BY <5>1, <5>2, FS_Subset
        <5> QED
          BY <5>1, <5>2, <5>3
      <4>4. Cardinality(g[n + 1]) >= n + 1
        BY <2>1, <3>1, <4>2, <4>3
      <4> QED
        BY <3>1, <4>4
    <3> QED
      BY <3>3, <3>4
  <2> HIDE DEF P
  <2>4. N \in P
    BY <1>0, <1>3, <2>2, <2>3, CountInduction
  <2>5. CASE ClosedIn(R, g[N])
    BY <2>5
  <2>6. CASE Cardinality(g[N]) >= N
    <3>1. g[N] \in SUBSET X /\ Cardinality(g[N]) \in Nat /\ Cardinality(g[N]) <= Cardinality(X) /\ Cardinality(X) \in Nat
      BY <1>2, <1>3, <2>1, FS_CardinalityType
    <3>2. Cardinality(X) <= N
      BY DEF N
    <3>3. Cardinality(g[N]) = Cardinality(X)
      BY <1>0, <2>6, <3>1, <3>2
    <3>4. g[N] = X
      BY <3>1, <3>3, FS_Subset
    <3> QED
      BY <3>4 DEF ClosedIn
  <2> QED
    BY <2>4, <2>5, <2>6 DEF P
<1>7. g[N] \in SUBSET X
  BY <1>2, <1>3
<1> QED
  BY <1>1, <1>4, <1>5, <1>6, <1>7

-----------------------------------------------------------------------------
\* The delayables that there can be.
Delayables == 1 .. Units

\* There are as many as Units.
LEMMA DelayablesAreFinite ==
    IsFiniteSet(Delayables) /\ Cardinality(Delayables) <= Units + MaxCalls
<1>1. Units \in Nat /\ MaxCalls \in Nat /\ Units # 0
  BY JobGraphsAssumption
<1>2. IsFiniteSet(Delayables) /\ Cardinality(Delayables) = Units
  BY <1>1, FS_Interval DEF Delayables
<1> QED
  BY <1>1, <1>2

\* Pairs that go on from each other are in Q together.
Transits(Q, R) == \A q \in Q, r \in R : q[2] = r[1] => <<q[1], r[2]>> \in Q

\* What R says is the least set of pairs that holds R and goes on.
LEMMA ClosureIsLeast ==
    ASSUME NEW R \in SUBSET (Delayables \X Delayables)
    PROVE  /\ Closure(R) \in SUBSET (Delayables \X Delayables)
           /\ R \subseteq Closure(R)
           /\ Transits(Closure(R), Closure(R))
           /\ \A Q : R \subseteq Q /\ Transits(Q, R) => Closure(R) \subseteq Q
           /\ \A x, y : <<x, y>> \in Closure(R) <=> \E r \in R : r[1] = x /\ y \in Reached(R, {r[2]})
<1>1. PICK X : X = Delayables
  OBVIOUS
<1>2. IsFiniteSet(X) /\ Cardinality(X) <= Units + MaxCalls /\ R \in SUBSET (X \X X)
  BY <1>1, DelayablesAreFinite
<1>3. \A x \in X : /\ Reached(R, {x}) \in SUBSET X
                   /\ x \in Reached(R, {x})
                   /\ ClosedIn(R, Reached(R, {x}))
                   /\ \A C : x \in C /\ ClosedIn(R, C) => Reached(R, {x}) \subseteq C
  <2> TAKE x \in X
  <2>1. PICK S \in SUBSET X : S = {x}
    OBVIOUS
  <2>2. /\ Reached(R, S) \in SUBSET X
        /\ S \subseteq Reached(R, S)
        /\ ClosedIn(R, Reached(R, S))
        /\ \A C : S \subseteq C /\ ClosedIn(R, C) => Reached(R, S) \subseteq C
    BY <1>2, ReachedIsLeast
  <2> QED
    BY <2>1, <2>2
<1>4. \A r \in R : r[1] \in X /\ r[2] \in X /\ r = <<r[1], r[2]>>
  BY <1>2
<1>5. \A p : p \in Closure(R) <=> \E r \in R : p \in {r[1]} \X Reached(R, {r[2]})
  BY DEF Closure
<1>6. /\ \A a, y : <<a, y>> \in Closure(R) <=> \E r \in R : r[1] = a /\ y \in Reached(R, {r[2]})
      /\ \A p \in Closure(R) : p = <<p[1], p[2]>> /\ \E r \in R : r[1] = p[1] /\ p[2] \in Reached(R, {r[2]})
  <2>1. \A A, b, a, y : <<a, y>> \in {b} \X A <=> a = b /\ y \in A
    OBVIOUS
  <2>2. \A A, b : \A p \in {b} \X A : p = <<p[1], p[2]>> /\ p[1] = b /\ p[2] \in A
    OBVIOUS
  <2>3. ASSUME NEW a, NEW y PROVE <<a, y>> \in Closure(R) <=> \E r \in R : r[1] = a /\ y \in Reached(R, {r[2]})
    <3>1. \A r \in R : <<a, y>> \in {r[1]} \X Reached(R, {r[2]}) <=> r[1] = a /\ y \in Reached(R, {r[2]})
      BY <2>1
    <3> QED
      BY <1>5, <3>1
  <2>4. ASSUME NEW p \in Closure(R)
        PROVE  p = <<p[1], p[2]>> /\ \E r \in R : r[1] = p[1] /\ p[2] \in Reached(R, {r[2]})
    <3>1. PICK r \in R : p \in {r[1]} \X Reached(R, {r[2]})
      BY <1>5
    <3>2. p = <<p[1], p[2]>> /\ p[1] = r[1] /\ p[2] \in Reached(R, {r[2]})
      BY <2>2, <3>1
    <3> QED
      BY <3>2
  <2> QED
    BY <2>3, <2>4
<1>7. Closure(R) \in SUBSET (X \X X) /\ R \subseteq Closure(R)
  <2>1. ASSUME NEW p \in Closure(R) PROVE p \in X \X X
    <3>1. PICK r \in R : r[1] = p[1] /\ p[2] \in Reached(R, {r[2]})
      BY <1>6
    <3>2. p[1] \in X /\ p[2] \in X /\ p = <<p[1], p[2]>>
      <4>1. r[1] \in X /\ r[2] \in X
        BY <1>4
      <4>2. Reached(R, {r[2]}) \in SUBSET X
        BY <1>3, <4>1
      <4>3. p = <<p[1], p[2]>>
        BY <1>6
      <4> QED
        BY <3>1, <4>1, <4>2, <4>3
    <3> QED
      BY <3>2
  <2>2. ASSUME NEW r \in R PROVE r \in Closure(R)
    <3>1. r[2] \in X /\ r = <<r[1], r[2]>>
      BY <1>4
    <3>2. r[2] \in Reached(R, {r[2]})
      BY <1>3, <3>1
    <3>3. <<r[1], r[2]>> \in Closure(R)
      BY <1>6, <3>2
    <3> QED
      BY <3>1, <3>3
  <2> QED
    BY <2>1, <2>2
<1>8. Transits(Closure(R), Closure(R))
  <2>1. ASSUME NEW p \in Closure(R), NEW q \in Closure(R), p[2] = q[1]
        PROVE  <<p[1], q[2]>> \in Closure(R)
    <3>1. PICK r \in R : r[1] = p[1] /\ p[2] \in Reached(R, {r[2]})
      BY <1>6
    <3>2. PICK s \in R : s[1] = q[1] /\ q[2] \in Reached(R, {s[2]})
      BY <1>6
    <3>3. r[2] \in X /\ s[2] \in X
      BY <1>4
    <3>4. ClosedIn(R, Reached(R, {r[2]}))
      BY <1>3, <3>3
    <3>5. s[2] \in Reached(R, {r[2]})
      BY <2>1, <3>1, <3>2, <3>4 DEF ClosedIn
    <3>6. Reached(R, {s[2]}) \subseteq Reached(R, {r[2]})
      <4>1. PICK C : C = Reached(R, {r[2]})
        OBVIOUS
      <4>2. s[2] \in C /\ ClosedIn(R, C)
        BY <3>4, <3>5, <4>1
      <4>3. Reached(R, {s[2]}) \subseteq C
        BY <1>3, <3>3, <4>2
      <4> QED
        BY <4>1, <4>3
    <3> QED
      BY <1>6, <3>1, <3>2, <3>6
  <2> QED
    BY <2>1 DEF Transits
<1>9. ASSUME NEW Q, R \subseteq Q, Transits(Q, R) PROVE Closure(R) \subseteq Q
  <2>1. ASSUME NEW r \in R, NEW y \in Reached(R, {r[2]}) PROVE <<r[1], y>> \in Q
    <3>1. PICK C : C = {z \in X : <<r[1], z>> \in Q}
      OBVIOUS
    <3>2. r[2] \in C
      BY <1>4, <1>9, <3>1
    <3>3. ASSUME NEW s \in R, s[1] \in C PROVE s[2] \in C
      <4>1. <<r[1], s[1]>> \in Q
        BY <3>1, <3>3
      <4>2. PICK q \in Q : q = <<r[1], s[1]>>
        BY <4>1
      <4>3. <<q[1], s[2]>> \in Q
        BY <1>9, <4>2 DEF Transits
      <4> QED
        BY <1>4, <3>1, <4>2, <4>3
    <3>4. ClosedIn(R, C)
      BY <3>3 DEF ClosedIn
    <3>5. Reached(R, {r[2]}) \subseteq C
      BY <1>3, <1>4, <3>2, <3>4
    <3> QED
      BY <2>1, <3>1, <3>5
  <2>2. ASSUME NEW p \in Closure(R) PROVE p \in Q
    <3>1. PICK r \in R : r[1] = p[1] /\ p[2] \in Reached(R, {r[2]})
      BY <1>6
    <3>2. p = <<p[1], p[2]>>
      BY <1>6
    <3>3. <<r[1], p[2]>> \in Q
      BY <2>1, <3>1
    <3> QED
      BY <3>1, <3>2, <3>3
  <2> QED
    BY <2>2
<1> QED
  BY <1>1, <1>6, <1>7, <1>8, <1>9

\* What more pairs say holds what fewer say.
LEMMA ClosureWithin ==
    ASSUME NEW R \in SUBSET (Delayables \X Delayables), NEW T \in SUBSET (Delayables \X Delayables),
           R \subseteq Closure(T)
    PROVE  Closure(R) \subseteq Closure(T)
<1>1. Transits(Closure(T), Closure(T))
  BY ClosureIsLeast
<1>2. Transits(Closure(T), R)
  BY <1>1 DEF Transits
<1> QED
  BY <1>2, ClosureIsLeast

\* No job comes after itself.
Loopless(R) == \A p \in Closure(R) : p[1] # p[2]

\* That is what the guard of the calls says.
LEMMA LooplessIs ==
    ASSUME NEW R \in SUBSET (Delayables \X Delayables)
    PROVE  Loopless(R) <=> ~ \E r \in R : r[1] \in Reached(R, {r[2]})
<1>1. /\ Closure(R) \in SUBSET (Delayables \X Delayables)
      /\ \A x, y : <<x, y>> \in Closure(R) <=> \E r \in R : r[1] = x /\ y \in Reached(R, {r[2]})
  BY ClosureIsLeast
<1>2. \A x : <<x, x>> \in Closure(R) <=> \E r \in R : r[1] = x /\ r[1] \in Reached(R, {r[2]})
  <2> TAKE x
  <2>1. <<x, x>> \in Closure(R) <=> \E r \in R : r[1] = x /\ x \in Reached(R, {r[2]})
    BY <1>1
  <2> QED
    BY <2>1, Zenon
<1>3. \A p \in Closure(R) : p = <<p[1], p[2]>>
  <2>1. \A p \in Delayables \X Delayables : p = <<p[1], p[2]>>
    OBVIOUS
  <2> QED
    BY <1>1, <2>1
<1>4. Loopless(R) <=> \A x : <<x, x>> \notin Closure(R)
  BY <1>3 DEF Loopless
<1> QED
  BY <1>2, <1>4

\* Where no job comes after itself, some job of any of them comes after no other.
LEMMA SomeComesFirst ==
    ASSUME NEW R \in SUBSET (Delayables \X Delayables), Loopless(R),
           NEW T \in SUBSET Delayables, T # {}
    PROVE  \E t \in T : \A x \in T : <<x, t>> \notin R
<1> DEFINE Earlier(t) == {x \in T : <<x, t>> \in Closure(R)}
           Counts == {Cardinality(Earlier(t)) : t \in T}
<1>1. \A t \in T : IsFiniteSet(Earlier(t)) /\ Cardinality(Earlier(t)) \in Nat
  <2> TAKE t \in T
  <2>1. Earlier(t) \in SUBSET Delayables
    OBVIOUS
  <2> QED
    BY <2>1, DelayablesAreFinite, FS_Subset, FS_CardinalityType
<1>2. Counts \in SUBSET Nat /\ Counts # {}
  BY <1>1
<1>3. PICK n \in Counts : \A k \in Counts : n <= k
  <2> HIDE DEF Counts
  <2> QED
    BY <1>2, SmallestExists
<1>4. PICK t \in T : n = Cardinality(Earlier(t))
  OBVIOUS
<1>5. SUFFICES ASSUME NEW x \in T, <<x, t>> \in R PROVE FALSE
  OBVIOUS
<1>6. <<x, t>> \in Closure(R) /\ Transits(Closure(R), Closure(R))
  BY <1>5, ClosureIsLeast
<1>7. \A y : <<y, x>> \in Closure(R) => <<y, t>> \in Closure(R)
  BY <1>6 DEF Transits
<1>8. <<x, x>> \notin Closure(R)
  BY DEF Loopless
<1>9. Earlier(x) \subseteq Earlier(t) /\ x \in Earlier(t) /\ x \notin Earlier(x)
  BY <1>6, <1>7, <1>8
<1>10. Cardinality(Earlier(x)) <= Cardinality(Earlier(t))
       /\ (Cardinality(Earlier(t)) = Cardinality(Earlier(x)) => Earlier(t) = Earlier(x))
  <2>1. PICK A : A = Earlier(x)
    OBVIOUS
  <2>2. PICK B : B = Earlier(t)
    OBVIOUS
  <2>3. IsFiniteSet(B) /\ A \in SUBSET B
    BY <1>1, <1>9, <2>1, <2>2
  <2>4. Cardinality(A) <= Cardinality(B) /\ (Cardinality(B) = Cardinality(A) => B = A)
    BY <2>3, FS_Subset
  <2> QED
    BY <2>1, <2>2, <2>4
<1>11. Cardinality(Earlier(t)) <= Cardinality(Earlier(x))
  BY <1>3, <1>4
<1>12. Cardinality(Earlier(t)) = Cardinality(Earlier(x))
  BY <1>1, <1>10, <1>11
<1> QED
  BY <1>9, <1>10, <1>12

-----------------------------------------------------------------------------
(* What is made: n delayables, the chains and groups of m, the calls of    *)
(* on_done of a.                                                           *)

\* The objects, and what each is.
Nodes(n, m) == 1 .. n \cup (Units + 1 .. Units + Len(m))

ObjectIn(m, o) == IF o <= Units THEN Alone(o) ELSE m[o - Units]

\* What comes one after the other in a chain, and what is said of objects.
PairsIn(m, o) ==
    {<<ObjectIn(m, o).parts[i], ObjectIn(m, o).parts[i + 1]>> : i \in 1 .. Len(ObjectIn(m, o).parts) - 1}

LinksIn(m, a, os) ==
    {k \in a : k[1] \in os} \cup UNION {PairsIn(m, o) : o \in {x \in os : ObjectIn(m, x).kind = "chain"}}

ToldIn(m, a, os) == UNION {ObjectIn(m, l[1]).jobs \X ObjectIn(m, l[2]).jobs : l \in LinksIn(m, a, os)}

\* Chains and groups.
Makes == [kind : {"chain", "group"}, parts : Seq(Nat), size : 0 .. Records,
          head : SUBSET Delayables, tail : SUBSET Delayables,
          begins : SUBSET Delayables, finishes : SUBSET Delayables, jobs : SUBSET Delayables]

\* What one is, from its parts.
Formed(m, c) ==
    /\ Len(c.parts) \in Nat \ {0}
    /\ c.jobs = UNION {ObjectIn(m, c.parts[i]).jobs : i \in 1 .. Len(c.parts)}
    /\ c.kind = "chain" => /\ c.head = ObjectIn(m, c.parts[1]).tail
                           /\ c.tail = ObjectIn(m, c.parts[Len(c.parts)]).head
                           /\ c.begins = ObjectIn(m, c.parts[1]).begins
                           /\ c.finishes = ObjectIn(m, c.parts[Len(c.parts)]).finishes
    /\ c.kind = "group" =>
          /\ c.head = UNION {ObjectIn(m, c.parts[i]).head : i \in 1 .. Len(c.parts)}
          /\ c.tail = UNION {ObjectIn(m, c.parts[i]).tail : i \in 1 .. Len(c.parts)}
          /\ c.begins = UNION {ObjectIn(m, c.parts[i]).begins : i \in 1 .. Len(c.parts)}
          /\ c.finishes = UNION {ObjectIn(m, c.parts[i]).finishes : i \in 1 .. Len(c.parts)}

\* It has a first and a last job, and what it is connected by is part of it.
Bounded(c, n) ==
    /\ c.jobs \subseteq 1 .. n
    /\ c.head \subseteq c.jobs /\ c.tail \subseteq c.jobs
    /\ c.begins \subseteq c.jobs /\ c.finishes \subseteq c.jobs
    /\ c.begins # {} /\ c.finishes # {}

\* It was made of objects that were there.
PartsWithin(c, n, top) == \A i \in 1 .. Len(c.parts) : c.parts[i] \in 1 .. n \cup (Units + 1 .. top)

WellMade(n, m, a) ==
    /\ n \in 0 .. Units
    /\ m \in Seq(Makes) /\ Len(m) <= MaxCalls
    /\ a \in SUBSET (Nodes(n, m) \X Nodes(n, m))
    /\ \A i \in 1 .. Len(m) :
          Formed(m, m[i]) /\ Bounded(m[i], n) /\ PartsWithin(m[i], n, Units + i - 1)

\* A delayable is bounded by itself.
LEMMA AloneIs ==
    ASSUME NEW u \in Nat
    PROVE  /\ Alone(u).kind = "alone" /\ Alone(u).parts = <<u>>
           /\ Alone(u).head = {u} /\ Alone(u).tail = {u} /\ Alone(u).begins = {u}
           /\ Alone(u).finishes = {u} /\ Alone(u).jobs = {u}
<1>1. PICK k : k = "alone"
  OBVIOUS
<1>2. PICK z : z = 0
  OBVIOUS
<1>3. Alone(u) = [kind |-> k, parts |-> <<u>>, size |-> z, head |-> {u}, tail |-> {u},
                  begins |-> {u}, finishes |-> {u}, jobs |-> {u}]
  BY <1>1, <1>2 DEF Alone
<1> QED
  BY <1>1, <1>3

\* Every object is bounded, and made of objects before it.
LEMMA NodesAreBounded ==
    ASSUME NEW n, NEW m, NEW a, WellMade(n, m, a), NEW o \in Nodes(n, m)
    PROVE  /\ Bounded(ObjectIn(m, o), n)
           /\ ObjectIn(m, o).jobs \subseteq Delayables
           /\ Len(ObjectIn(m, o).parts) \in Nat \ {0}
           /\ \A i \in 1 .. Len(ObjectIn(m, o).parts) : ObjectIn(m, o).parts[i] \in Nodes(n, m)
           /\ o <= Units => ObjectIn(m, o) = Alone(o) /\ o \in 1 .. n
           /\ o > Units => /\ o - Units \in 1 .. Len(m)
                           /\ ObjectIn(m, o) = m[o - Units]
                           /\ ObjectIn(m, o).kind \in {"chain", "group"}
                           /\ Formed(m, ObjectIn(m, o))
                           /\ \A i \in 1 .. Len(ObjectIn(m, o).parts) : ObjectIn(m, o).parts[i] < o
<1>1. Units \in Nat /\ n \in Nat /\ n <= Units /\ Len(m) \in Nat /\ o \in Nat /\ 1 .. n \subseteq Delayables
  BY JobGraphsAssumption DEF WellMade, Nodes, Delayables
<1>2. CASE o <= Units
  <2>1. o \in 1 .. n /\ ObjectIn(m, o) = Alone(o)
    BY <1>1, <1>2 DEF Nodes, ObjectIn
  <2>2. Len(<<o>>) = 1 /\ <<o>>[1] = o
    OBVIOUS
  <2>3. Bounded(ObjectIn(m, o), n) /\ ObjectIn(m, o).jobs \subseteq Delayables
    BY <1>1, <2>1, AloneIs DEF Bounded
  <2>4. ObjectIn(m, o).parts = <<o>>
    BY <1>1, <2>1, AloneIs
  <2> QED
    BY <1>1, <1>2, <2>1, <2>2, <2>3, <2>4
<1>3. CASE o > Units
  <2>1. o - Units \in 1 .. Len(m) /\ ObjectIn(m, o) = m[o - Units]
    BY <1>1, <1>3 DEF Nodes, ObjectIn
  <2>2. PICK i \in 1 .. Len(m) : i = o - Units
    BY <2>1
  <2>3. PICK c : c = m[i]
    OBVIOUS
  <2>4. Formed(m, c) /\ Bounded(c, n) /\ PartsWithin(c, n, Units + i - 1)
    BY <2>3 DEF WellMade
  <2>5. c \in Makes
    <3>1. m \in Seq(Makes)
      BY DEF WellMade
    <3> QED
      BY <2>3, <3>1
  <2>6. c.kind \in {"chain", "group"}
    BY <2>5 DEF Makes
  <2>7. Units + i - 1 = o - 1
    BY <1>1, <2>2
  <2>8. \A k \in 1 .. Len(c.parts) : c.parts[k] \in Nodes(n, m) /\ c.parts[k] < o
    <3>1. \A k \in 1 .. Len(c.parts) : c.parts[k] \in 1 .. n \cup (Units + 1 .. o - 1)
      BY <2>4, <2>7 DEF PartsWithin
    <3>2. \A x \in 1 .. n \cup (Units + 1 .. o - 1) : x \in 1 .. n \cup (Units + 1 .. Units + Len(m)) /\ x < o
      BY <1>1, <1>3, <2>1
    <3> QED
      BY <3>1, <3>2 DEF Nodes
  <2>9. Len(c.parts) \in Nat \ {0}
    BY <2>4 DEF Formed
  <2>10. c.jobs \subseteq Delayables
    BY <1>1, <2>4 DEF Bounded
  <2> QED
    BY <1>1, <1>3, <2>1, <2>2, <2>3, <2>4, <2>6, <2>8, <2>9, <2>10
<1> QED
  BY <1>1, <1>2, <1>3

\* What is said is about delayables that are there.
LEMMA LinksAreNodes ==
    ASSUME NEW n, NEW m, NEW a, WellMade(n, m, a), NEW os \in SUBSET Nodes(n, m)
    PROVE  LinksIn(m, a, os) \in SUBSET (Nodes(n, m) \X Nodes(n, m))
<1>1. {k \in a : k[1] \in os} \in SUBSET (Nodes(n, m) \X Nodes(n, m))
  BY DEF WellMade
<1>2. ASSUME NEW o \in os PROVE PairsIn(m, o) \in SUBSET (Nodes(n, m) \X Nodes(n, m))
  <2>1. PICK ps : ps = ObjectIn(m, o).parts
    OBVIOUS
  <2>2. Len(ps) \in Nat /\ \A i \in 1 .. Len(ps) : ps[i] \in Nodes(n, m)
    BY <2>1, NodesAreBounded
  <2>3. \A i \in 1 .. Len(ps) - 1 : i \in 1 .. Len(ps) /\ i + 1 \in 1 .. Len(ps)
    BY <2>2
  <2>4. \A i \in 1 .. Len(ps) - 1 : <<ps[i], ps[i + 1]>> \in Nodes(n, m) \X Nodes(n, m)
    BY <2>2, <2>3
  <2>5. PairsIn(m, o) = {<<ps[i], ps[i + 1]>> : i \in 1 .. Len(ps) - 1}
    BY <2>1 DEF PairsIn
  <2> QED
    BY <2>4, <2>5
<1>3. UNION {PairsIn(m, o) : o \in {x \in os : ObjectIn(m, x).kind = "chain"}} \in SUBSET (Nodes(n, m) \X Nodes(n, m))
  BY <1>2
<1> QED
  BY <1>1, <1>3 DEF LinksIn

\* What is told is of delayables: the jobs of one object, then those of the next.
LEMMA ToldIsBounded ==
    ASSUME NEW n, NEW m, NEW a, WellMade(n, m, a), NEW os \in SUBSET Nodes(n, m)
    PROVE  /\ ToldIn(m, a, os) \in SUBSET ((1 .. n) \X (1 .. n))
           /\ ToldIn(m, a, os) \in SUBSET (Delayables \X Delayables)
           /\ \A l \in LinksIn(m, a, os) : \A x, y :
                 x \in ObjectIn(m, l[1]).jobs /\ y \in ObjectIn(m, l[2]).jobs => <<x, y>> \in ToldIn(m, a, os)
           /\ \A p \in ToldIn(m, a, os) : \E l \in LinksIn(m, a, os) :
                 p = <<p[1], p[2]>> /\ p[1] \in ObjectIn(m, l[1]).jobs /\ p[2] \in ObjectIn(m, l[2]).jobs
<1>1. \A l \in LinksIn(m, a, os) : l[1] \in Nodes(n, m) /\ l[2] \in Nodes(n, m)
  BY LinksAreNodes
<1>2. \A o \in Nodes(n, m) : ObjectIn(m, o).jobs \subseteq 1 .. n
  BY NodesAreBounded DEF Bounded
<1>3. \A l \in LinksIn(m, a, os) : ObjectIn(m, l[1]).jobs \X ObjectIn(m, l[2]).jobs \subseteq (1 .. n) \X (1 .. n)
  BY <1>1, <1>2
<1>4. \A p : p \in ToldIn(m, a, os) <=> \E l \in LinksIn(m, a, os) : p \in ObjectIn(m, l[1]).jobs \X ObjectIn(m, l[2]).jobs
  BY DEF ToldIn
<1>5. ToldIn(m, a, os) \in SUBSET ((1 .. n) \X (1 .. n))
  BY <1>3, <1>4
<1>6. 1 .. n \subseteq Delayables
  BY JobGraphsAssumption DEF WellMade, Delayables
<1>7. ToldIn(m, a, os) \in SUBSET (Delayables \X Delayables)
  BY <1>5, <1>6
<1>8. ASSUME NEW l \in LinksIn(m, a, os), NEW x \in ObjectIn(m, l[1]).jobs, NEW y \in ObjectIn(m, l[2]).jobs
      PROVE  <<x, y>> \in ToldIn(m, a, os)
  BY <1>4
<1>9. ASSUME NEW p \in ToldIn(m, a, os)
      PROVE  \E l \in LinksIn(m, a, os) :
                 p = <<p[1], p[2]>> /\ p[1] \in ObjectIn(m, l[1]).jobs /\ p[2] \in ObjectIn(m, l[2]).jobs
  <2>1. PICK l \in LinksIn(m, a, os) : p \in ObjectIn(m, l[1]).jobs \X ObjectIn(m, l[2]).jobs
    BY <1>4
  <2> QED
    BY <2>1
<1> QED
  BY <1>5, <1>7, <1>8, <1>9

-----------------------------------------------------------------------------
(* The state.                                                              *)

\* The objects of a state, what they are, and what the calls say of them.
LEMMA ObjectsAre ==
    /\ Objects = Nodes(used, made)
    /\ \A o : Object(o) = ObjectIn(made, o)
    /\ \A os : Told(os) = ToldIn(made, after, os)
    /\ Cyclic <=> \E r \in ToldIn(made, after, Nodes(used, made)) :
                     r[1] \in Reached(ToldIn(made, after, Nodes(used, made)), {r[2]})
<1>1. Objects = Nodes(used, made)
  BY DEF Objects, Nodes
<1>2. \A o : Object(o) = ObjectIn(made, o)
  BY DEF Object, ObjectIn, IsUnit
<1>3. \A o : Pairs(o) = PairsIn(made, o)
  BY <1>2 DEF Pairs, PairsIn, Parts
<1>4. \A os : Told(os) = ToldIn(made, after, os)
  BY <1>2, <1>3 DEF Told, ToldIn, LinksIn
<1> QED
  BY <1>1, <1>2, <1>4 DEF Cyclic

\* The same of the next state.
LEMMA ObjectsWillBe ==
    /\ Objects' = Nodes(used', made')
    /\ Cyclic' <=> \E r \in ToldIn(made', after', Nodes(used', made')) :
                     r[1] \in Reached(ToldIn(made', after', Nodes(used', made')), {r[2]})
    /\ Said(Objects)' = Closure(ToldIn(made', after', Nodes(used', made')))
<1>1. Objects' = Nodes(used', made')
  BY DEF Objects, Nodes
<1>2. Told(Objects)' = ToldIn(made', after', Nodes(used', made'))
  BY DEF Objects, Nodes, Told, ToldIn, LinksIn, Object, ObjectIn, IsUnit, Pairs, PairsIn, Parts
<1>3. Said(Objects)' = Closure(ToldIn(made', after', Nodes(used', made')))
  BY <1>2 DEF Said
<1> QED
  BY <1>1, <1>2, <1>3 DEF Cyclic

-----------------------------------------------------------------------------
(* Making more.                                                            *)

\* A chain or a group is formed the same way where its parts are the same.
LEMMA FormedKept ==
    ASSUME NEW m, NEW m2, NEW c, Formed(m, c),
           \A i \in 1 .. Len(c.parts) : ObjectIn(m2, c.parts[i]) = ObjectIn(m, c.parts[i])
    PROVE  Formed(m2, c)
<1>1. Len(c.parts) \in Nat \ {0}
  BY DEF Formed
<1>2. 1 \in 1 .. Len(c.parts) /\ Len(c.parts) \in 1 .. Len(c.parts)
  BY <1>1
<1>3. /\ {ObjectIn(m2, c.parts[i]).jobs : i \in 1 .. Len(c.parts)}
           = {ObjectIn(m, c.parts[i]).jobs : i \in 1 .. Len(c.parts)}
      /\ {ObjectIn(m2, c.parts[i]).head : i \in 1 .. Len(c.parts)}
           = {ObjectIn(m, c.parts[i]).head : i \in 1 .. Len(c.parts)}
      /\ {ObjectIn(m2, c.parts[i]).tail : i \in 1 .. Len(c.parts)}
           = {ObjectIn(m, c.parts[i]).tail : i \in 1 .. Len(c.parts)}
      /\ {ObjectIn(m2, c.parts[i]).begins : i \in 1 .. Len(c.parts)}
           = {ObjectIn(m, c.parts[i]).begins : i \in 1 .. Len(c.parts)}
      /\ {ObjectIn(m2, c.parts[i]).finishes : i \in 1 .. Len(c.parts)}
           = {ObjectIn(m, c.parts[i]).finishes : i \in 1 .. Len(c.parts)}
  OBVIOUS
<1> QED
  BY <1>1, <1>2, <1>3 DEF Formed

\* What is formed of bounded parts is bounded.
LEMMA FormedIsBounded ==
    ASSUME NEW m, NEW c, NEW n, Formed(m, c), c.kind \in {"chain", "group"},
           \A i \in 1 .. Len(c.parts) : Bounded(ObjectIn(m, c.parts[i]), n)
    PROVE  Bounded(c, n)
<1>1. PICK N \in Nat \ {0} : N = Len(c.parts)
  BY DEF Formed
<1>2. PICK p : p = [i \in 1 .. N |-> ObjectIn(m, c.parts[i])]
  OBVIOUS
<1>3. \A i \in 1 .. N : Bounded(p[i], n)
  BY <1>1, <1>2
<1>4. 1 \in 1 .. N /\ N \in 1 .. N
  BY <1>1
<1>5. c.jobs = UNION {p[i].jobs : i \in 1 .. N}
  BY <1>1, <1>2 DEF Formed
<1>6. c.jobs \subseteq 1 .. n /\ \A i \in 1 .. N : p[i].jobs \subseteq c.jobs
  BY <1>3, <1>5 DEF Bounded
<1>7. CASE c.kind = "chain"
  <2>1. /\ c.head = p[1].tail /\ c.tail = p[N].head
        /\ c.begins = p[1].begins /\ c.finishes = p[N].finishes
    BY <1>1, <1>2, <1>4, <1>7 DEF Formed
  <2>2. Bounded(p[1], n) /\ Bounded(p[N], n) /\ p[1].jobs \subseteq c.jobs /\ p[N].jobs \subseteq c.jobs
    BY <1>3, <1>4, <1>6
  <2> QED
    BY <1>6, <2>1, <2>2 DEF Bounded
<1>8. CASE c.kind = "group"
  <2>1. /\ c.head = UNION {p[i].head : i \in 1 .. N} /\ c.tail = UNION {p[i].tail : i \in 1 .. N}
        /\ c.begins = UNION {p[i].begins : i \in 1 .. N} /\ c.finishes = UNION {p[i].finishes : i \in 1 .. N}
    BY <1>1, <1>2, <1>8 DEF Formed
  <2>2. \A i \in 1 .. N : /\ p[i].head \subseteq c.jobs /\ p[i].tail \subseteq c.jobs
                          /\ p[i].begins \subseteq c.jobs /\ p[i].finishes \subseteq c.jobs
                          /\ p[i].begins # {} /\ p[i].finishes # {}
    BY <1>3, <1>6 DEF Bounded
  <2>3. /\ c.head \subseteq c.jobs /\ c.tail \subseteq c.jobs
        /\ c.begins \subseteq c.jobs /\ c.finishes \subseteq c.jobs
    BY <2>1, <2>2
  <2>4. p[1].begins \subseteq c.begins /\ p[1].finishes \subseteq c.finishes
    BY <1>4, <2>1
  <2>5. c.begins # {} /\ c.finishes # {}
    BY <1>4, <2>2, <2>4
  <2> QED
    BY <1>6, <2>3, <2>5 DEF Bounded
<1> QED
  BY <1>7, <1>8

\* m2 is m with more objects.
Prolongs(n, m, n2, m2) ==
    /\ Nodes(n, m) \subseteq Nodes(n2, m2)
    /\ \A o \in Nodes(n, m) : ObjectIn(m2, o) = ObjectIn(m, o)

\* A chain or a group of objects that are there makes one more.
LEMMA OneMoreIsMade ==
    ASSUME NEW n, NEW m, NEW a, WellMade(n, m, a), Len(m) < MaxCalls,
           NEW n2 \in n .. Units, NEW c \in Makes, Formed(m, c), PartsWithin(c, n2, Units + Len(m))
    PROVE  /\ WellMade(n2, Append(m, c), a)
           /\ Prolongs(n, m, n2, Append(m, c))
           /\ ObjectIn(Append(m, c), Units + Len(m) + 1) = c
           /\ Nodes(n2, Append(m, c)) = Nodes(n2, m) \cup {Units + Len(m) + 1}
<1>1. Units \in Nat /\ n \in Nat /\ n2 \in Nat /\ n <= n2 /\ n2 <= Units /\ m \in Seq(Makes) /\ Len(m) \in Nat
  BY JobGraphsAssumption DEF WellMade
<1>2. PICK m2 : m2 = Append(m, c)
  OBVIOUS
<1>3. /\ m2 \in Seq(Makes) /\ Len(m2) = Len(m) + 1
      /\ m2[Len(m) + 1] = c
      /\ \A i \in 1 .. Len(m) : m2[i] = m[i]
  BY <1>1, <1>2
<1>4. \A o \in 1 .. Units \cup (Units + 1 .. Units + Len(m)) : ObjectIn(m2, o) = ObjectIn(m, o)
  <2> TAKE o \in 1 .. Units \cup (Units + 1 .. Units + Len(m))
  <2>1. CASE o <= Units
    BY <2>1 DEF ObjectIn
  <2>2. CASE ~(o <= Units)
    <3>1. o - Units \in 1 .. Len(m)
      BY <1>1, <2>2
    <3>2. m2[o - Units] = m[o - Units]
      BY <1>3, <3>1
    <3> QED
      BY <2>2, <3>2 DEF ObjectIn
  <2> QED
    BY <2>1, <2>2
<1>5. Nodes(n, m) \subseteq 1 .. Units \cup (Units + 1 .. Units + Len(m))
  BY <1>1 DEF Nodes
<1>6. Nodes(n, m) \subseteq Nodes(n2, m2) /\ Nodes(n2, m2) = Nodes(n2, m) \cup {Units + Len(m) + 1}
  BY <1>1, <1>3 DEF Nodes
<1>7. Prolongs(n, m, n2, m2)
  BY <1>4, <1>5, <1>6 DEF Prolongs
<1>8. ObjectIn(m2, Units + Len(m) + 1) = c
  <2>1. ~(Units + Len(m) + 1 <= Units) /\ (Units + Len(m) + 1) - Units = Len(m) + 1
    BY <1>1
  <2> QED
    BY <1>3, <2>1 DEF ObjectIn
<1>9. ASSUME NEW i \in 1 .. Len(m)
      PROVE  Formed(m2, m2[i]) /\ Bounded(m2[i], n2) /\ PartsWithin(m2[i], n2, Units + i - 1)
  <2>1. Formed(m, m[i]) /\ Bounded(m[i], n) /\ PartsWithin(m[i], n, Units + i - 1)
    BY DEF WellMade
  <2>2. 1 .. n \subseteq 1 .. n2 /\ Units + 1 .. Units + i - 1 \subseteq Units + 1 .. Units + Len(m)
        /\ 1 .. n2 \subseteq 1 .. Units
    BY <1>1
  <2>3. Bounded(m[i], n2) /\ PartsWithin(m[i], n2, Units + i - 1)
    BY <2>1, <2>2 DEF Bounded, PartsWithin
  <2>4. \A k \in 1 .. Len(m[i].parts) : ObjectIn(m2, m[i].parts[k]) = ObjectIn(m, m[i].parts[k])
    BY <1>4, <2>2, <2>3 DEF PartsWithin
  <2>5. PICK d : d = m[i]
    OBVIOUS
  <2>6. Formed(m2, d)
    BY <2>1, <2>4, <2>5, FormedKept
  <2> QED
    BY <1>3, <2>3, <2>5, <2>6
<1>10. Formed(m2, c)
  <2>1. \A k \in 1 .. Len(c.parts) : ObjectIn(m2, c.parts[k]) = ObjectIn(m, c.parts[k])
    <3>1. 1 .. n2 \subseteq 1 .. Units
      BY <1>1
    <3> QED
      BY <1>4, <3>1 DEF PartsWithin
  <2> QED
    BY <2>1, FormedKept
<1>11. Bounded(c, n2)
  <2>1. ASSUME NEW k \in 1 .. Len(c.parts) PROVE Bounded(ObjectIn(m, c.parts[k]), n2)
    <3>1. PICK p : p = c.parts[k]
      OBVIOUS
    <3>2. p \in 1 .. n2 \cup (Units + 1 .. Units + Len(m))
      BY <3>1 DEF PartsWithin
    <3>3. CASE p \in 1 .. n2
      <4>1. ObjectIn(m, p) = Alone(p) /\ p \in Nat
        BY <1>1, <3>3 DEF ObjectIn
      <4> QED
        BY <3>1, <3>3, <4>1, AloneIs DEF Bounded
    <3>4. CASE p \in Units + 1 .. Units + Len(m)
      <4>1. p \in Nodes(n, m)
        BY <3>4 DEF Nodes
      <4>2. Bounded(ObjectIn(m, p), n)
        BY <4>1, NodesAreBounded
      <4>3. 1 .. n \subseteq 1 .. n2
        BY <1>1
      <4> QED
        BY <3>1, <4>2, <4>3 DEF Bounded
    <3> QED
      BY <3>2, <3>3, <3>4
  <2>2. c.kind \in {"chain", "group"}
    BY DEF Makes
  <2> QED
    BY <2>1, <2>2, FormedIsBounded
<1>12. WellMade(n2, m2, a)
  <2>1. \A i \in 1 .. Len(m2) : Formed(m2, m2[i]) /\ Bounded(m2[i], n2) /\ PartsWithin(m2[i], n2, Units + i - 1)
    <3> TAKE i \in 1 .. Len(m2)
    <3>1. CASE i \in 1 .. Len(m)
      BY <1>9, <3>1
    <3>2. CASE i = Len(m) + 1
      <4>1. Units + i - 1 = Units + Len(m) /\ m2[i] = c
        BY <1>1, <1>3, <3>2
      <4> QED
        BY <1>10, <1>11, <4>1
    <3> QED
      BY <1>1, <1>3, <3>1, <3>2
  <2>2. a \in SUBSET (Nodes(n2, m2) \X Nodes(n2, m2))
    BY <1>6 DEF WellMade
  <2>3. Len(m2) <= MaxCalls /\ n2 \in 0 .. Units
    BY <1>1, <1>3, JobGraphsAssumption
  <2> QED
    BY <1>3, <2>1, <2>2, <2>3 DEF WellMade
<1> QED
  BY <1>2, <1>6, <1>7, <1>8, <1>12

\* More calls say no less.
LEMMA ToldGrows ==
    ASSUME NEW n, NEW m, NEW a, WellMade(n, m, a), NEW n2, NEW m2, NEW a2, WellMade(n2, m2, a2),
           Prolongs(n, m, n2, m2), a \subseteq a2
    PROVE  ToldIn(m, a, Nodes(n, m)) \subseteq ToldIn(m2, a2, Nodes(n2, m2))
<1>1. PICK os : os = Nodes(n, m)
  OBVIOUS
<1>2. PICK os2 : os2 = Nodes(n2, m2)
  OBVIOUS
<1>3. os \subseteq os2 /\ \A o \in os : ObjectIn(m2, o) = ObjectIn(m, o)
  BY <1>1, <1>2 DEF Prolongs
<1>4. \A o \in os : PairsIn(m2, o) = PairsIn(m, o)
  BY <1>3 DEF PairsIn
<1>5. LinksIn(m, a, os) \subseteq LinksIn(m2, a2, os2)
  <2>1. {k \in a : k[1] \in os} \subseteq {k \in a2 : k[1] \in os2}
    BY <1>3
  <2>2. UNION {PairsIn(m, o) : o \in {x \in os : ObjectIn(m, x).kind = "chain"}}
          \subseteq UNION {PairsIn(m2, o) : o \in {x \in os2 : ObjectIn(m2, x).kind = "chain"}}
    BY <1>3, <1>4
  <2> QED
    BY <2>1, <2>2 DEF LinksIn
<1>6. \A l \in LinksIn(m, a, os) : l[1] \in os /\ l[2] \in os
  BY <1>1, LinksAreNodes
<1>7. ASSUME NEW p \in ToldIn(m, a, os) PROVE p \in ToldIn(m2, a2, os2)
  <2>1. PICK l \in LinksIn(m, a, os) :
          p = <<p[1], p[2]>> /\ p[1] \in ObjectIn(m, l[1]).jobs /\ p[2] \in ObjectIn(m, l[2]).jobs
    BY <1>1, ToldIsBounded
  <2>2. p[1] \in ObjectIn(m2, l[1]).jobs /\ p[2] \in ObjectIn(m2, l[2]).jobs /\ l \in LinksIn(m2, a2, os2)
    BY <1>3, <1>5, <1>6, <2>1
  <2>3. <<p[1], p[2]>> \in ToldIn(m2, a2, os2)
    BY <1>2, <2>2, ToldIsBounded
  <2> QED
    BY <2>1, <2>3
<1> QED
  BY <1>1, <1>2, <1>7

-----------------------------------------------------------------------------
(* The calls that make objects.                                            *)

\* The delayables that are named for the first time are there after that.
LEMMA NamesAreNodes ==
    ASSUME used \in 0 .. Units, NEW os \in Seq(Nat), Names(os),
           \A i \in 1 .. Len(os) : os[i] \in Nameable
    PROVE  /\ used' \in used .. Units
           /\ \A i \in 1 .. Len(os) : os[i] \in 1 .. used' \cup (Units + 1 .. Units + Len(made))
<1> DEFINE new == {i \in 1 .. Len(os) : IsUnit(os[i]) /\ os[i] > used}
           upto(i) == {k \in new : k <= i}
<1>0. Units \in Nat /\ Len(os) \in Nat /\ used \in Nat /\ \A i \in 1 .. Len(os) : os[i] \in Nat
  BY JobGraphsAssumption
<1>1. (\A i \in new : os[i] = used + Cardinality(upto(i))) /\ used' = used + Cardinality(new)
  BY DEF Names
<1>2. new \in SUBSET (1 .. Len(os)) /\ IsFiniteSet(new) /\ Cardinality(new) \in Nat
  <2>1. IsFiniteSet(1 .. Len(os))
    BY <1>0, FS_Interval
  <2>2. new \in SUBSET (1 .. Len(os))
    OBVIOUS
  <2> QED
    BY <2>1, <2>2, FS_Subset, FS_CardinalityType
<1>3. \A i \in new : Cardinality(upto(i)) \in Nat /\ Cardinality(upto(i)) <= Cardinality(new)
  <2> TAKE i \in new
  <2>1. PICK U : U = upto(i)
    OBVIOUS
  <2>2. U \in SUBSET new
    BY <2>1
  <2> HIDE DEF new, upto
  <2> QED
    BY <1>2, <2>1, <2>2, FS_Subset, FS_CardinalityType
<1>4. \A i \in new : os[i] <= used'
  <2> TAKE i \in new
  <2>1. os[i] = used + Cardinality(upto(i)) /\ Cardinality(upto(i)) \in Nat /\ Cardinality(upto(i)) <= Cardinality(new)
    BY <1>1, <1>3
  <2> HIDE DEF new, upto
  <2> QED
    BY <1>0, <1>1, <1>2, <2>1
<1>5. used' \in used .. Units
  <2>1. CASE new = {}
    <3>1. Cardinality(new) = 0
      BY <2>1, FS_EmptySet
    <3> HIDE DEF new
    <3> QED
      BY <1>0, <1>1, <3>1
  <2>2. CASE new # {}
    <3>1. PICK g \in new : \A j \in new : j <= g
      <4> HIDE DEF new
      <4> QED
        BY <1>0, <1>2, <2>2, GreatestExists
    <3>2. upto(g) = new
      BY <3>1
    <3>3. os[g] = used + Cardinality(new)
      BY <1>1, <3>2
    <3>4. os[g] <= Units
      BY DEF IsUnit
    <3> HIDE DEF new
    <3> QED
      BY <1>0, <1>1, <1>2, <3>3, <3>4
  <2> QED
    BY <2>1, <2>2
<1>6. ASSUME NEW i \in 1 .. Len(os)
      PROVE  os[i] \in 1 .. used' \cup (Units + 1 .. Units + Len(made))
  <2>1. os[i] \in 1 .. Units \cup 1 .. used \cup (Units + 1 .. Units + Len(made)) /\ os[i] \in Nat
    BY <1>0 DEF Nameable, Objects
  <2>2. CASE i \in new
    <3> QED
      BY <1>0, <1>4, <1>5, <2>1, <2>2
  <2>3. CASE i \notin new
    <3>1. ~(os[i] <= Units) \/ os[i] <= used
      BY <1>0, <2>3 DEF IsUnit
    <3> HIDE DEF new
    <3> QED
      BY <1>0, <1>5, <2>1, <3>1
  <2> QED
    BY <2>2, <2>3
<1> QED
  BY <1>5, <1>6

\* What a chain or a group is made to be.
LEMMA CompositeIs ==
    ASSUME WellMade(used, made, after), NEW kind \in {"chain", "group"}, NEW size \in 0 .. Records,
           NEW ps \in Seq(Nat), Len(ps) # 0,
           \A i \in 1 .. Len(ps) : ps[i] \in Delayables \cup (Units + 1 .. Units + Len(made))
    PROVE  /\ Composite(kind, ps, size) \in Makes
           /\ Formed(made, Composite(kind, ps, size))
           /\ Composite(kind, ps, size).kind = kind
           /\ Composite(kind, ps, size).parts = ps
           /\ Composite(kind, ps, size).size = size
<1> DEFINE ends == IF kind = "chain" THEN Chained(ps) ELSE Grouped(ps)
           heads == IF kind = "chain" THEN {Head(ps)} ELSE ToSet(ps)
           tails == IF kind = "chain" THEN {Last(ps)} ELSE ToSet(ps)
           begins == UNION {Object(p).begins : p \in heads}
           finishes == UNION {Object(p).finishes : p \in tails}
           jobs == UNION {Object(p).jobs : p \in ToSet(ps)}
<1>1. PICK N \in Nat \ {0} : N = Len(ps)
  OBVIOUS
<1>2. PICK p : p = [i \in 1 .. N |-> ObjectIn(made, ps[i])]
  OBVIOUS
<1>3. PICK c : c = Composite(kind, ps, size)
  OBVIOUS
<1>4. c = [kind |-> kind, parts |-> ps, size |-> size, head |-> ends.head, tail |-> ends.tail,
           begins |-> begins, finishes |-> finishes, jobs |-> jobs]
  BY <1>3 DEF Composite
<1>5. /\ c.kind = kind /\ c.parts = ps /\ c.size = size /\ c.head = ends.head /\ c.tail = ends.tail
      /\ c.begins = begins /\ c.finishes = finishes /\ c.jobs = jobs
  <2> HIDE DEF ends, begins, finishes, jobs
  <2> QED
    BY <1>4
<1>6. DOMAIN ps = 1 .. N /\ Head(ps) = ps[1] /\ Last(ps) = ps[N] /\ 1 \in 1 .. N /\ N \in 1 .. N
  BY <1>1 DEF Last
<1>7. \A i \in 1 .. N : Object(ps[i]) = p[i]
  BY <1>2, ObjectsAre
<1>8. /\ {Object(x).jobs : x \in ToSet(ps)} = {p[i].jobs : i \in 1 .. N}
      /\ {Object(x).head : x \in ToSet(ps)} = {p[i].head : i \in 1 .. N}
      /\ {Object(x).tail : x \in ToSet(ps)} = {p[i].tail : i \in 1 .. N}
      /\ {Object(x).begins : x \in ToSet(ps)} = {p[i].begins : i \in 1 .. N}
      /\ {Object(x).finishes : x \in ToSet(ps)} = {p[i].finishes : i \in 1 .. N}
  BY <1>6, <1>7 DEF ToSet
<1>9. /\ c.jobs = UNION {p[i].jobs : i \in 1 .. N}
      /\ kind = "chain" => /\ c.head = p[1].tail /\ c.tail = p[N].head
                           /\ c.begins = p[1].begins /\ c.finishes = p[N].finishes
      /\ kind = "group" => /\ c.head = UNION {p[i].head : i \in 1 .. N}
                           /\ c.tail = UNION {p[i].tail : i \in 1 .. N}
                           /\ c.begins = UNION {p[i].begins : i \in 1 .. N}
                           /\ c.finishes = UNION {p[i].finishes : i \in 1 .. N}
  <2>1. c.jobs = UNION {p[i].jobs : i \in 1 .. N}
    BY <1>5, <1>8
  <2>2. CASE kind = "chain"
    <3>1. ends = [head |-> Object(Head(ps)).tail, tail |-> Object(Last(ps)).head]
      BY <2>2 DEF Chained
    <3>2. ends.head = p[1].tail /\ ends.tail = p[N].head
      BY <1>6, <1>7, <3>1
    <3>3. begins = p[1].begins /\ finishes = p[N].finishes
      BY <1>6, <1>7, <2>2
    <3> QED
      BY <1>5, <2>1, <2>2, <3>2, <3>3
  <2>3. CASE kind = "group"
    <3>1. ends = [head |-> UNION {Object(x).head : x \in ToSet(ps)},
                  tail |-> UNION {Object(x).tail : x \in ToSet(ps)}]
      BY <2>3 DEF Grouped
    <3>2. ends.head = UNION {p[i].head : i \in 1 .. N} /\ ends.tail = UNION {p[i].tail : i \in 1 .. N}
      <4>1. PICK h : h = UNION {Object(x).head : x \in ToSet(ps)}
        OBVIOUS
      <4>2. PICK t : t = UNION {Object(x).tail : x \in ToSet(ps)}
        OBVIOUS
      <4>3. ends = [head |-> h, tail |-> t]
        BY <3>1, <4>1, <4>2
      <4> HIDE DEF ends
      <4>4. ends.head = h /\ ends.tail = t
        BY <4>3
      <4> QED
        BY <1>8, <4>1, <4>2, <4>4
    <3>3. begins = UNION {p[i].begins : i \in 1 .. N} /\ finishes = UNION {p[i].finishes : i \in 1 .. N}
      BY <1>8, <2>3
    <3> QED
      BY <1>5, <2>1, <2>3, <3>2, <3>3
  <2> QED
    BY <2>1, <2>2, <2>3
<1>10. Formed(made, c)
  <2>1. \A i \in 1 .. N : p[i] = ObjectIn(made, c.parts[i])
    BY <1>2, <1>5
  <2>2. /\ {p[i].jobs : i \in 1 .. N} = {ObjectIn(made, c.parts[i]).jobs : i \in 1 .. N}
        /\ {p[i].head : i \in 1 .. N} = {ObjectIn(made, c.parts[i]).head : i \in 1 .. N}
        /\ {p[i].tail : i \in 1 .. N} = {ObjectIn(made, c.parts[i]).tail : i \in 1 .. N}
        /\ {p[i].begins : i \in 1 .. N} = {ObjectIn(made, c.parts[i]).begins : i \in 1 .. N}
        /\ {p[i].finishes : i \in 1 .. N} = {ObjectIn(made, c.parts[i]).finishes : i \in 1 .. N}
    BY <2>1
  <2>3. Len(c.parts) = N /\ c.kind = kind
    BY <1>1, <1>5
  <2> HIDE DEF ends, begins, finishes, jobs
  <2>4. c.jobs = UNION {ObjectIn(made, c.parts[i]).jobs : i \in 1 .. N}
    BY <1>9, <2>2
  <2>5. kind = "chain" => /\ c.head = ObjectIn(made, c.parts[1]).tail
                          /\ c.tail = ObjectIn(made, c.parts[N]).head
                          /\ c.begins = ObjectIn(made, c.parts[1]).begins
                          /\ c.finishes = ObjectIn(made, c.parts[N]).finishes
    BY <1>6, <1>9, <2>1
  <2>6. kind = "group" => /\ c.head = UNION {ObjectIn(made, c.parts[i]).head : i \in 1 .. N}
                          /\ c.tail = UNION {ObjectIn(made, c.parts[i]).tail : i \in 1 .. N}
                          /\ c.begins = UNION {ObjectIn(made, c.parts[i]).begins : i \in 1 .. N}
                          /\ c.finishes = UNION {ObjectIn(made, c.parts[i]).finishes : i \in 1 .. N}
    BY <1>9, <2>2
  <2> QED
    BY <2>3, <2>4, <2>5, <2>6 DEF Formed
<1>11. Bounded(c, Units)
  <2>1. ASSUME NEW i \in 1 .. N PROVE Bounded(ObjectIn(made, ps[i]), Units)
    <3>1. PICK x : x = ps[i]
      OBVIOUS
    <3>2. x \in Delayables \cup (Units + 1 .. Units + Len(made)) /\ Units \in Nat
      BY <1>1, <3>1, JobGraphsAssumption
    <3>3. CASE x \in Delayables
      <4>1. ObjectIn(made, x) = Alone(x) /\ x \in Nat /\ x \in 1 .. Units
        BY <3>2, <3>3 DEF ObjectIn, Delayables
      <4>2. /\ Alone(x).jobs = {x} /\ Alone(x).head = {x} /\ Alone(x).tail = {x}
            /\ Alone(x).begins = {x} /\ Alone(x).finishes = {x}
        BY <4>1, AloneIs
      <4>3. Bounded(Alone(x), Units)
        BY <4>1, <4>2 DEF Bounded
      <4> QED
        BY <3>1, <4>1, <4>3
    <3>4. CASE x \in Units + 1 .. Units + Len(made)
      <4>1. x \in Nodes(used, made)
        BY <3>4 DEF Nodes
      <4>2. Bounded(ObjectIn(made, x), used)
        BY <4>1, NodesAreBounded
      <4>3. 1 .. used \subseteq 1 .. Units
        BY <3>2 DEF WellMade
      <4> QED
        BY <3>1, <4>2, <4>3 DEF Bounded
    <3> QED
      BY <3>2, <3>3, <3>4
  <2>2. \A i \in 1 .. Len(c.parts) : Bounded(ObjectIn(made, c.parts[i]), Units)
    BY <1>1, <1>5, <2>1
  <2>3. c.kind \in {"chain", "group"}
    BY <1>5
  <2> HIDE DEF ends, begins, finishes, jobs
  <2> QED
    BY <1>10, <2>2, <2>3, FormedIsBounded
<1>12. c \in Makes
  <2>1. /\ c.jobs \in SUBSET Delayables /\ c.head \in SUBSET Delayables /\ c.tail \in SUBSET Delayables
        /\ c.begins \in SUBSET Delayables /\ c.finishes \in SUBSET Delayables
    <3> HIDE DEF ends, begins, finishes, jobs
    <3> QED
      BY <1>11 DEF Bounded, Delayables
  <2> HIDE DEF ends, begins, finishes, jobs
  <2> QED
    BY <1>4, <1>5, <2>1 DEF Makes
<1> QED
  BY <1>3, <1>5, <1>10, <1>12

-----------------------------------------------------------------------------
(* Splitting.                                                              *)

\* A product of natural numbers grows with each.
LEMMA ProductGrows ==
    ASSUME NEW a \in Nat, NEW b \in Nat, NEW s \in Nat, a <= b
    PROVE  a * s <= b * s /\ a * s \in Nat /\ b * s \in Nat
<1>1. PICK d \in Nat : b = a + d
  <2>1. b - a \in Nat /\ b = a + (b - a)
    OBVIOUS
  <2> QED
    BY <2>1
<1>2. b * s = a * s + d * s
  BY <1>1
<1>3. a * s \in Nat /\ d * s \in Nat
  OBVIOUS
<1> QED
  BY <1>2, <1>3

\* There are as many slices as it takes.
LEMMA SlicesAreEnough ==
    ASSUME NEW size \in Nat \ {0}
    PROVE  /\ Slices(size) \in Nat \ {0}
           /\ (Slices(size) - 1) * size < Records
           /\ Records <= Slices(size) * size
<1>1. Records \in Nat \ {0}
  BY JobGraphsAssumption
<1>2. PICK x \in Nat : x = Records + size - 1
  BY <1>1
<1>3. PICK n \in Nat : n = x \div size
  OBVIOUS
<1>4. n * size <= x /\ x < n * size + size
  BY <1>3
<1>5. Slices(size) = n
  BY <1>2, <1>3 DEF Slices
<1>6. n # 0
  <2>1. SUFFICES ASSUME n = 0 PROVE FALSE
    OBVIOUS
  <2>2. x < size
    BY <1>4, <2>1
  <2> QED
    BY <1>1, <1>2, <2>2
<1>7. PICK p \in Nat : p = n * size
  OBVIOUS
<1>8. (n - 1) * size = p - size
  BY <1>6, <1>7
<1>9. p - size < Records /\ Records <= p
  BY <1>1, <1>2, <1>4, <1>7
<1> QED
  BY <1>5, <1>6, <1>7, <1>8, <1>9

\* Every record is in a slice, slices are in order, and none is empty or too large.
LEMMA SlicesAreWhole ==
    ASSUME NEW size \in Nat \ {0}
    PROVE  /\ UNION {Slice(size, k) : k \in 1 .. Slices(size)} = 1 .. Records
           /\ \A k, l \in 1 .. Slices(size) : k < l =>
                 \A r \in Slice(size, k), q \in Slice(size, l) : r < q
           /\ \A k \in 1 .. Slices(size) :
                 Slice(size, k) \in SUBSET (1 .. Records) /\ Cardinality(Slice(size, k)) \in 1 .. size
<1>1. PICK n \in Nat \ {0} : n = Slices(size)
  BY SlicesAreEnough
<1>2. Records \in Nat \ {0} /\ (n - 1) * size < Records /\ Records <= n * size
  BY <1>1, SlicesAreEnough, JobGraphsAssumption
<1>3. \A k \in 1 .. n : \A r : r \in Slice(size, k) <=> r \in 1 .. Records /\ (k - 1) * size < r /\ r <= k * size
  BY DEF Slice
<1>4. ASSUME NEW r \in 1 .. Records PROVE \E k \in 1 .. n : r \in Slice(size, k)
  <2>1. PICK x \in Nat : x = r - 1
    OBVIOUS
  <2>2. PICK j \in Nat : j = x \div size
    OBVIOUS
  <2>3. j * size <= x /\ x < j * size + size
    BY <2>2
  <2>4. (j + 1) * size = j * size + size /\ j * size \in Nat
    OBVIOUS
  <2>5. j < n
    <3>1. SUFFICES ASSUME n <= j PROVE FALSE
      OBVIOUS
    <3>2. n * size <= j * size
      BY <3>1, ProductGrows
    <3>3. n * size \in Nat
      OBVIOUS
    <3> QED
      BY <1>2, <2>1, <2>3, <2>4, <3>2, <3>3
  <2>6. PICK k \in 1 .. n : k = j + 1
    BY <2>5
  <2>7. (k - 1) * size = j * size /\ k * size = j * size + size
    BY <2>4, <2>6
  <2>8. (k - 1) * size < r /\ r <= k * size
    BY <2>1, <2>3, <2>4, <2>7
  <2> QED
    BY <1>3, <2>8
<1>5. UNION {Slice(size, k) : k \in 1 .. n} = 1 .. Records
  BY <1>3, <1>4
<1>6. ASSUME NEW k \in 1 .. n, NEW l \in 1 .. n, k < l, NEW r \in Slice(size, k), NEW q \in Slice(size, l)
      PROVE  r < q
  <2>1. r \in Nat /\ q \in Nat /\ r <= k * size /\ (l - 1) * size < q
    BY <1>3
  <2>2. k \in Nat /\ l - 1 \in Nat /\ k <= l - 1
    BY <1>6
  <2>3. k * size <= (l - 1) * size /\ k * size \in Nat /\ (l - 1) * size \in Nat
    BY <2>2, ProductGrows
  <2> QED
    BY <2>1, <2>3
<1>7. ASSUME NEW k \in 1 .. n
      PROVE  Slice(size, k) \in SUBSET (1 .. Records) /\ Cardinality(Slice(size, k)) \in 1 .. size
  <2>1. k - 1 \in Nat /\ n - 1 \in Nat /\ k - 1 <= n - 1
    OBVIOUS
  <2>2. PICK b \in Nat : b = (k - 1) * size
    BY <2>1
  <2>3. k * size = b + size
    BY <2>2
  <2>4. b < Records
    <3>1. b <= (n - 1) * size /\ (n - 1) * size \in Nat
      BY <2>1, <2>2, ProductGrows
    <3> QED
      BY <1>2, <3>1
  <2>5. PICK t \in Nat : t = IF b + size <= Records THEN b + size ELSE Records
    BY <1>2
  <2>6. b < t /\ t - b <= size /\ t <= Records /\ t <= b + size /\ (t = Records \/ t = b + size)
    BY <1>2, <2>4, <2>5
  <2>7. Slice(size, k) = b + 1 .. t
    <3>1. \A r : r \in Slice(size, k) <=> r \in 1 .. Records /\ b < r /\ r <= b + size
      BY <1>3, <2>2, <2>3
    <3>2. \A r : r \in 1 .. Records /\ b < r /\ r <= b + size <=> r \in b + 1 .. t
      BY <1>2, <2>6
    <3> QED
      BY <3>1, <3>2
  <2>8. Cardinality(b + 1 .. t) = t - b
    <3>1. b + 1 \in Int /\ t \in Int /\ ~(b + 1 > t)
      BY <2>6
    <3>2. Cardinality(b + 1 .. t) = t - (b + 1) + 1
      BY <3>1, FS_Interval
    <3> QED
      BY <3>2
  <2> QED
    BY <1>2, <1>3, <2>6, <2>7, <2>8
<1> QED
  BY <1>1, <1>5, <1>6, <1>7

\* The batches of object i, which a split made: delayables after u, a slice each.
BatchesFrom(m, b, n, i, u) ==
    /\ u + Slices(m[i].size) <= n
    /\ m[i].parts = [k \in 1 .. Slices(m[i].size) |-> u + k]
    /\ \A k \in 1 .. Slices(m[i].size) : b[u + k] = Slice(m[i].size, k)

BatchesKept(m, b, n) == \A i \in 1 .. Len(m) : m[i].size # 0 => \E u \in Nat : BatchesFrom(m, b, n, i, u)

\* Such batches hold the recordset.
LEMMA BatchesAreWhole ==
    ASSUME WellMade(used, made, after), BatchesKept(made, batch, used)
    PROVE  SplitIsWhole
<1>1. SUFFICES ASSUME NEW i \in 1 .. Len(made), made[i].size # 0
               PROVE  LET ps == made[i].parts IN
                      /\ UNION {batch[u] : u \in ToSet(ps)} = 1 .. Records
                      /\ \A a, b \in 1 .. Len(ps) : a < b =>
                            \A r \in batch[ps[a]], s \in batch[ps[b]] : r < s
                      /\ \A u \in ToSet(ps) : Cardinality(batch[u]) \in 1 .. made[i].size
  BY DEF SplitIsWhole
<1>2. PICK size \in Nat \ {0} : size = made[i].size
  <2>1. made[i] \in Makes
    BY DEF WellMade
  <2> QED
    BY <1>1, <2>1, JobGraphsAssumption DEF Makes
<1>3. PICK v \in Nat : BatchesFrom(made, batch, used, i, v)
  BY <1>1 DEF BatchesKept
<1>4. PICK n \in Nat \ {0} : n = Slices(size)
  BY SlicesAreEnough
<1>5. PICK ps : ps = made[i].parts
  OBVIOUS
<1>6. ps = [k \in 1 .. n |-> v + k] /\ \A k \in 1 .. n : batch[ps[k]] = Slice(size, k)
  BY <1>2, <1>3, <1>4, <1>5 DEF BatchesFrom
<1>7. Len(ps) = n /\ DOMAIN ps = 1 .. n
  BY <1>6
<1>8. {batch[u] : u \in ToSet(ps)} = {Slice(size, k) : k \in 1 .. n}
  <2>1. ToSet(ps) = {ps[k] : k \in 1 .. n}
    BY <1>7 DEF ToSet
  <2>2. \A k \in 1 .. n : batch[ps[k]] = Slice(size, k)
    BY <1>6
  <2>3. {batch[u] : u \in ToSet(ps)} = {batch[ps[k]] : k \in 1 .. n}
    BY <2>1
  <2>4. {batch[ps[k]] : k \in 1 .. n} = {Slice(size, k) : k \in 1 .. n}
    BY <2>2
  <2> QED
    BY <2>3, <2>4
<1>9. /\ UNION {Slice(size, k) : k \in 1 .. n} = 1 .. Records
      /\ \A k, l \in 1 .. n : k < l => \A r \in Slice(size, k), q \in Slice(size, l) : r < q
      /\ \A k \in 1 .. n : Cardinality(Slice(size, k)) \in 1 .. size
  BY <1>4, SlicesAreWhole
<1>10. \A u \in ToSet(ps) : Cardinality(batch[u]) \in 1 .. size
  BY <1>6, <1>7, <1>9 DEF ToSet
<1>11. \A a, b \in 1 .. Len(ps) : a < b => \A r \in batch[ps[a]], s \in batch[ps[b]] : r < s
  <2> TAKE a, b \in 1 .. Len(ps)
  <2> HAVE a < b
  <2>1. a \in 1 .. n /\ b \in 1 .. n
    BY <1>7
  <2>2. batch[ps[a]] = Slice(size, a) /\ batch[ps[b]] = Slice(size, b)
    BY <1>6, <2>1
  <2>3. \A r \in Slice(size, a), q \in Slice(size, b) : r < q
    BY <1>9, <2>1
  <2> QED
    BY <2>2, <2>3
<1>12. UNION {batch[u] : u \in ToSet(ps)} = 1 .. Records
  BY <1>8, <1>9
<1> QED
  BY <1>2, <1>5, <1>10, <1>11, <1>12

-----------------------------------------------------------------------------
(* Performing at once.                                                     *)

\* A sequence of all of a set holds all of it, once each.
LEMMA SequencesHoldAll ==
    ASSUME NEW S, IsFiniteSet(S), NEW q \in SetToSeqs(S)
    PROVE  /\ q \in Seq(S)
           /\ {q[i] : i \in 1 .. Len(q)} = S
           /\ \A i, k \in 1 .. Len(q) : q[i] = q[k] => i = k
<1>1. PICK n \in Nat : n = Cardinality(S)
  BY FS_CardinalityType
<1>2. q \in [1 .. n -> S] /\ \A i, k \in 1 .. n : i # k => q[i] # q[k]
  BY <1>1 DEF SetToSeqs
<1>3. q \in Seq(S) /\ Len(q) = n
  BY <1>2
<1>4. q \in Injection(1 .. n, S)
  BY <1>2 DEF Injection, IsInjective
<1>5. Cardinality(1 .. n) = n
  <2>1. 1 \in Int /\ n \in Int
    OBVIOUS
  <2>2. Cardinality(1 .. n) = IF 1 > n THEN 0 ELSE n - 1 + 1
    BY <2>1, FS_Interval
  <2> QED
    BY <2>2
<1>6. q \in Surjection(1 .. n, S)
  BY <1>1, <1>4, <1>5, FS_Injection
<1>7. \A x \in S : \E i \in 1 .. n : q[i] = x
  BY <1>6 DEF Surjection
<1> QED
  BY <1>2, <1>3, <1>7

\* What a sequence holds.
Held(s) == {s[i] : i \in 1 .. Len(s)}

NoTwice(s) == \A i, k \in 1 .. Len(s) : s[i] = s[k] => i = k

\* The pairs of E that lead to j from what is not in D.
Awaited(E, D, j) == {l \in E : l[2] = j /\ l[1] \notin D}

\* The jobs of J, of which ran have run and q are next: a job waits for those that come
\* before it in E and have not run.
Sorted(E, J, q, w, ran) ==
    /\ J \in SUBSET Delayables /\ E \in SUBSET (J \X J)
    /\ w \in [J -> Nat]
    /\ q \in Seq(J) /\ ran \in Seq(J)
    /\ NoTwice(q) /\ NoTwice(ran)
    /\ \A j \in J : w[j] = Cardinality(Awaited(E, Held(ran), j))
    /\ Held(q) = {j \in J : w[j] = 0} \ Held(ran)
    /\ \A j \in Held(ran) : w[j] = 0
    /\ \A i \in 1 .. Len(ran) : \A l \in E : l[2] = ran[i] => \E k \in 1 .. i - 1 : ran[k] = l[1]

\* Pairs of delayables are few.
LEMMA BeforeIsFinite ==
    ASSUME NEW J \in SUBSET Delayables, NEW E \in SUBSET (J \X J), NEW D, NEW j
    PROVE  /\ IsFiniteSet(Awaited(E, D, j)) /\ Cardinality(Awaited(E, D, j)) \in Nat
           /\ Cardinality(Awaited(E, D, j)) = 0 <=> \A l \in E : l[2] = j => l[1] \in D
<1>1. IsFiniteSet(Delayables) /\ IsFiniteSet(J)
  BY DelayablesAreFinite, FS_Subset
<1>2. IsFiniteSet(J \X J)
  BY <1>1, FS_Product
<1>3. Awaited(E, D, j) \in SUBSET (J \X J)
  BY DEF Awaited
<1>4. IsFiniteSet(Awaited(E, D, j)) /\ Cardinality(Awaited(E, D, j)) \in Nat
  BY <1>2, <1>3, FS_Subset, FS_CardinalityType
<1>5. Cardinality(Awaited(E, D, j)) = 0 <=> Awaited(E, D, j) = {}
  BY <1>4, FS_EmptySet
<1> QED
  BY <1>4, <1>5 DEF Awaited

\* What is sorted and has nothing next has run in full, if no job comes after itself.
LEMMA SortedIsWhole ==
    ASSUME NEW E, NEW J, NEW q, NEW w, NEW ran, Sorted(E, J, q, w, ran), q = <<>>,
           NEW R \in SUBSET (Delayables \X Delayables), E \subseteq R, Loopless(R)
    PROVE  Held(ran) = J
<1>1. J \in SUBSET Delayables /\ E \in SUBSET (J \X J) /\ ran \in Seq(J)
  BY DEF Sorted
<1>2. Held(ran) \subseteq J
  BY <1>1 DEF Held
<1>3. Held(q) = {}
  BY DEF Held
<1>4. SUFFICES ASSUME J \ Held(ran) # {} PROVE FALSE
  BY <1>2
<1>5. PICK T \in SUBSET Delayables : T = J \ Held(ran)
  BY <1>1
<1>6. PICK t \in T : \A x \in T : <<x, t>> \notin R
  BY <1>4, <1>5, SomeComesFirst
<1>7. \A l \in E : l[2] = t => l[1] \in Held(ran)
  <2>1. SUFFICES ASSUME NEW l \in E, l[2] = t, l[1] \notin Held(ran) PROVE FALSE
    OBVIOUS
  <2>2. l = <<l[1], l[2]>> /\ l[1] \in J
    BY <1>1
  <2> QED
    BY <1>5, <1>6, <2>1, <2>2
<1>8. w[t] = 0
  <2>1. w[t] = Cardinality(Awaited(E, Held(ran), t))
    BY <1>5 DEF Sorted
  <2> QED
    BY <1>1, <1>7, <2>1, BeforeIsFinite
<1>9. t \in Held(q)
  BY <1>5, <1>8 DEF Sorted
<1> QED
  BY <1>3, <1>9

\* The roots come first.
LEMMA RootsAreSorted ==
    ASSUME NEW J \in SUBSET Delayables, NEW E \in SUBSET (J \X J), NEW q \in SetToSeqs(J \ {l[2] : l \in E}),
           NEW w, w = [j \in J |-> Cardinality({l \in E : l[2] = j})]
    PROVE  Sorted(E, J, q, w, <<>>)
<1>1. PICK S : S = J \ {l[2] : l \in E}
  OBVIOUS
<1>2. IsFiniteSet(S)
  <2>1. IsFiniteSet(Delayables) /\ S \in SUBSET Delayables
    BY <1>1, DelayablesAreFinite
  <2> QED
    BY <2>1, FS_Subset
<1>3. q \in Seq(S) /\ Held(q) = S /\ NoTwice(q)
  BY <1>1, <1>2, SequencesHoldAll DEF Held, NoTwice
<1>4. q \in Seq(J)
  BY <1>1, <1>3
<1>5. PICK none : none = <<>>
  OBVIOUS
<1>6. none \in Seq(J) /\ Len(none) = 0 /\ Held(none) = {} /\ NoTwice(none)
  BY <1>5 DEF Held, NoTwice
<1>7. \A j \in J : {l \in E : l[2] = j} = Awaited(E, Held(none), j)
  BY <1>6 DEF Awaited
<1>8. \A j \in J : w[j] = Cardinality(Awaited(E, Held(none), j))
  BY <1>7
<1>9. \A j \in J : w[j] \in Nat /\ (w[j] = 0 <=> \A l \in E : l[2] # j)
  <2> TAKE j \in J
  <2>1. /\ Cardinality(Awaited(E, Held(none), j)) \in Nat
        /\ Cardinality(Awaited(E, Held(none), j)) = 0 <=> \A l \in E : l[2] = j => l[1] \in Held(none)
    BY BeforeIsFinite
  <2> QED
    BY <1>6, <1>8, <2>1
<1>10. Held(q) = {j \in J : w[j] = 0} \ Held(none)
  BY <1>1, <1>3, <1>6, <1>9
<1>11. w \in [J -> Nat]
  <2>1. w = [j \in J |-> w[j]]
    OBVIOUS
  <2> QED
    BY <1>9, <2>1
<1>12. Sorted(E, J, q, w, none)
  BY <1>3, <1>4, <1>6, <1>8, <1>10, <1>11 DEF Sorted
<1> QED
  BY <1>5, <1>12

\* The jobs that wait for the first of q, and those of them that then wait for nothing.
Frees(E, J, q, w, nexts, left, free) ==
    /\ nexts = {l[2] : l \in {k \in E : k[1] = Head(q)}}
    /\ left = [i \in J |-> w[i] - (IF i \in nexts THEN 1 ELSE 0)]
    /\ free = {i \in nexts : left[i] = 0}

\* Running the next job keeps the order.
LEMMA NextIsSorted ==
    ASSUME NEW E, NEW J, NEW q, NEW w, NEW ran, Sorted(E, J, q, w, ran), q # <<>>,
           NEW nexts, NEW left, NEW free, Frees(E, J, q, w, nexts, left, free),
           NEW more \in SetToSeqs(free)
    PROVE  Sorted(E, J, Tail(q) \o more, left, Append(ran, Head(q)))
<1> USE DEF Frees
<1>1. /\ J \in SUBSET Delayables /\ E \in SUBSET (J \X J) /\ w \in [J -> Nat]
      /\ q \in Seq(J) /\ ran \in Seq(J) /\ NoTwice(q) /\ NoTwice(ran)
      /\ \A j \in J : w[j] = Cardinality(Awaited(E, Held(ran), j))
      /\ Held(q) = {j \in J : w[j] = 0} \ Held(ran)
      /\ \A j \in Held(ran) : w[j] = 0
      /\ \A i \in 1 .. Len(ran) : \A l \in E : l[2] = ran[i] => \E k \in 1 .. i - 1 : ran[k] = l[1]
  BY DEF Sorted
<1>2. PICK h : h = Head(q)
  OBVIOUS
<1>3. PICK t : t = Tail(q)
  OBVIOUS
<1>4. PICK done : done = Append(ran, h)
  OBVIOUS
<1>5. /\ h = q[1] /\ 1 \in 1 .. Len(q) /\ h \in J /\ Len(q) \in Nat
      /\ t \in Seq(J) /\ Len(t) = Len(q) - 1 /\ \A i \in 1 .. Len(t) : t[i] = q[i + 1]
  BY <1>1, <1>2, <1>3
<1>6. h \in Held(q) /\ h \notin Held(ran) /\ w[h] = 0
  <2>1. h \in Held(q)
    BY <1>5 DEF Held
  <2> QED
    BY <1>1, <2>1
<1>7. done \in Seq(J) /\ Len(done) = Len(ran) + 1 /\ done[Len(ran) + 1] = h /\ Len(ran) \in Nat
      /\ \A i \in 1 .. Len(ran) : done[i] = ran[i]
  BY <1>1, <1>4, <1>5
<1>8. Held(done) = Held(ran) \cup {h}
  <2>1. \A x : x \in Held(done) <=> \E i \in 1 .. Len(ran) + 1 : x = done[i]
    BY <1>7 DEF Held
  <2>2. \A x : x \in Held(ran) <=> \E i \in 1 .. Len(ran) : x = ran[i]
    BY DEF Held
  <2>3. \A i \in 1 .. Len(ran) + 1 : i \in 1 .. Len(ran) \/ i = Len(ran) + 1
    BY <1>7
  <2>4. Len(ran) + 1 \in 1 .. Len(ran) + 1 /\ \A i \in 1 .. Len(ran) : i \in 1 .. Len(ran) + 1
    BY <1>7
  <2> QED
    BY <1>7, <2>1, <2>2, <2>3, <2>4
<1>9. NoTwice(done)
  <2>1. ASSUME NEW i \in 1 .. Len(done), NEW k \in 1 .. Len(done), done[i] = done[k] PROVE i = k
    <3>1. \A x \in 1 .. Len(done) : (x \in 1 .. Len(ran) /\ done[x] = ran[x] /\ ran[x] \in Held(ran)) \/ (x = Len(ran) + 1 /\ done[x] = h)
      BY <1>7 DEF Held
    <3>2. CASE i \in 1 .. Len(ran) /\ k \in 1 .. Len(ran)
      <4>1. ran[i] = ran[k]
        BY <1>7, <2>1, <3>2
      <4> QED
        BY <1>1, <3>2, <4>1 DEF NoTwice
    <3>3. CASE i = Len(ran) + 1 /\ k = Len(ran) + 1
      BY <3>3
    <3> QED
      BY <1>6, <2>1, <3>1, <3>2, <3>3
  <2> QED
    BY <2>1 DEF NoTwice
<1>10. \A x : x \in nexts <=> \E l \in E : l[1] = h /\ l[2] = x
  BY <1>2
<1>11. nexts \subseteq J
  BY <1>1, <1>10
<1>12. ASSUME NEW i \in J
       PROVE  left[i] = Cardinality(Awaited(E, Held(done), i)) /\ (i \in nexts => w[i] > 0)
  <2>1. PICK A : A = Awaited(E, Held(ran), i)
    OBVIOUS
  <2>2. PICK B : B = Awaited(E, Held(done), i)
    OBVIOUS
  <2>3. IsFiniteSet(A) /\ Cardinality(A) \in Nat /\ w[i] = Cardinality(A)
    BY <1>1, <2>1, BeforeIsFinite
  <2>4. left[i] = w[i] - (IF i \in nexts THEN 1 ELSE 0)
    OBVIOUS
  <2>5. B = A \ {<<h, i>>}
    <3>1. \A l \in E : l = <<l[1], l[2]>>
      BY <1>1
    <3> QED
      BY <1>8, <2>1, <2>2, <3>1 DEF Awaited
  <2>6. CASE i \in nexts
    <3>1. PICK l \in E : l[1] = h /\ l[2] = i
      BY <1>10, <2>6
    <3>2. l = <<h, i>>
      BY <1>1, <3>1
    <3>3. <<h, i>> \in A
      BY <1>6, <2>1, <3>1, <3>2 DEF Awaited
    <3>4. Cardinality(B) = Cardinality(A) - 1 /\ Cardinality(B) \in Nat
      <4>1. PICK e : e = <<h, i>>
        OBVIOUS
      <4>2. IsFiniteSet(A \ {e}) /\ Cardinality(A \ {e}) = IF e \in A THEN Cardinality(A) - 1 ELSE Cardinality(A)
        BY <2>3, FS_RemoveElement
      <4>3. Cardinality(A \ {e}) \in Nat
        BY <4>2, FS_CardinalityType
      <4> QED
        BY <2>5, <3>3, <4>1, <4>2, <4>3
    <3> QED
      BY <2>2, <2>3, <2>4, <2>6, <3>4
  <2>7. CASE i \notin nexts
    <3>1. <<h, i>> \notin A
      <4>1. SUFFICES ASSUME <<h, i>> \in A PROVE FALSE
        OBVIOUS
      <4>2. PICK l \in E : l = <<h, i>>
        BY <2>1, <4>1 DEF Awaited
      <4>3. l[1] = h /\ l[2] = i
        BY <4>2
      <4> QED
        BY <1>10, <2>7, <4>3
    <3>2. B = A
      BY <2>5, <3>1
    <3> QED
      BY <2>2, <2>3, <2>4, <2>7, <3>2
  <2> QED
    BY <2>6, <2>7
<1>13. left \in [J -> Nat]
  <2>1. \A i \in J : left[i] \in Nat
    BY <1>1, <1>12, BeforeIsFinite
  <2>2. left = [i \in J |-> left[i]]
    OBVIOUS
  <2> QED
    BY <2>1, <2>2
<1>14. PICK S : S = {i \in nexts : left[i] = 0}
  OBVIOUS
<1>15. more \in Seq(S) /\ Held(more) = S /\ NoTwice(more) /\ more \in Seq(J)
  <2>1. S \in SUBSET Delayables /\ S \subseteq J
    BY <1>1, <1>11, <1>14
  <2>2. IsFiniteSet(S)
    BY <2>1, DelayablesAreFinite, FS_Subset
  <2>3. more \in Seq(S) /\ Held(more) = S /\ NoTwice(more)
    BY <1>14, <2>2, SequencesHoldAll DEF Held, NoTwice
  <2> QED
    BY <2>1, <2>3
<1>16. \A i \in S : i \notin Held(q) /\ i \notin Held(ran)
  BY <1>1, <1>11, <1>12, <1>14
<1>17. Held(t) = Held(q) \ {h} /\ NoTwice(t)
  <2>1. \A i \in 1 .. Len(t) : i + 1 \in 1 .. Len(q) /\ i + 1 # 1
    BY <1>5
  <2>2. ASSUME NEW x \in Held(t) PROVE x \in Held(q) /\ x # h
    <3>1. PICK i \in 1 .. Len(t) : x = t[i]
      BY DEF Held
    <3>2. x = q[i + 1]
      BY <1>5, <3>1
    <3> QED
      BY <1>1, <1>5, <2>1, <3>2 DEF Held, NoTwice
  <2>3. ASSUME NEW x \in Held(q), x # h PROVE x \in Held(t)
    <3>1. PICK i \in 1 .. Len(q) : x = q[i]
      BY DEF Held
    <3>2. i # 1
      BY <1>5, <2>3, <3>1
    <3>3. i - 1 \in 1 .. Len(t) /\ (i - 1) + 1 = i
      BY <1>5, <3>2
    <3>4. t[i - 1] = x
      BY <1>5, <3>1, <3>3
    <3> QED
      BY <3>3, <3>4 DEF Held
  <2>4. NoTwice(t)
    <3>1. ASSUME NEW i \in 1 .. Len(t), NEW k \in 1 .. Len(t), t[i] = t[k] PROVE i = k
      <4>1. q[i + 1] = q[k + 1]
        BY <1>5, <3>1
      <4>2. i + 1 = k + 1
        BY <1>1, <2>1, <4>1 DEF NoTwice
      <4> QED
        BY <1>5, <4>2
    <3> QED
      BY <3>1 DEF NoTwice
  <2> QED
    BY <2>2, <2>3, <2>4
<1>18. PICK r : r = t \o more
  OBVIOUS
<1>19. /\ r \in Seq(J) /\ Len(t) \in Nat /\ Len(more) \in Nat /\ Len(r) = Len(t) + Len(more)
       /\ \A i \in 1 .. Len(t) : r[i] = t[i]
       /\ \A i \in 1 .. Len(more) : r[Len(t) + i] = more[i]
  <2>1. t \in Seq(J) /\ more \in Seq(J) /\ Len(t) \in Nat /\ Len(more) \in Nat
    BY <1>5, <1>15
  <2>2. r \in Seq(J) /\ Len(r) = Len(t) + Len(more)
    BY <1>18, <2>1
  <2>3. \A i \in 1 .. Len(t) : r[i] = t[i]
    BY <1>18, <2>1
  <2>4. ASSUME NEW i \in 1 .. Len(more) PROVE r[Len(t) + i] = more[i]
    <3>1. Len(t) + i \in 1 .. Len(t) + Len(more) /\ ~(Len(t) + i <= Len(t)) /\ (Len(t) + i) - Len(t) = i
      BY <2>1
    <3> QED
      BY <1>18, <2>1, <3>1
  <2> QED
    BY <2>1, <2>2, <2>3, <2>4
<1>20. \A i \in 1 .. Len(r) : \/ i \in 1 .. Len(t) /\ r[i] = t[i] /\ t[i] \in Held(t)
                              \/ i - Len(t) \in 1 .. Len(more) /\ r[i] = more[i - Len(t)] /\ more[i - Len(t)] \in S
  <2> TAKE i \in 1 .. Len(r)
  <2>1. CASE i <= Len(t)
    BY <1>19, <2>1 DEF Held
  <2>2. CASE i > Len(t)
    <3>1. i - Len(t) \in 1 .. Len(more) /\ Len(t) + (i - Len(t)) = i
      BY <1>19, <2>2
    <3> QED
      BY <1>15, <1>19, <3>1 DEF Held
  <2> QED
    BY <1>19, <2>1, <2>2
<1>21. Held(r) = (Held(q) \ {h}) \cup S
  <2>1. ASSUME NEW x \in Held(r) PROVE x \in Held(t) \cup S
    <3>1. PICK i \in 1 .. Len(r) : x = r[i]
      BY DEF Held
    <3> QED
      BY <1>20, <3>1
  <2>2. ASSUME NEW x \in Held(t) PROVE x \in Held(r)
    <3>1. PICK i \in 1 .. Len(t) : x = t[i]
      BY DEF Held
    <3>2. i \in 1 .. Len(r) /\ r[i] = x
      BY <1>19, <3>1
    <3> QED
      BY <3>2 DEF Held
  <2>3. ASSUME NEW x \in S PROVE x \in Held(r)
    <3>1. PICK i \in 1 .. Len(more) : x = more[i]
      BY <1>15 DEF Held
    <3>2. Len(t) + i \in 1 .. Len(r) /\ r[Len(t) + i] = x
      BY <1>19, <3>1
    <3> QED
      BY <3>2 DEF Held
  <2> QED
    BY <1>17, <2>1, <2>2, <2>3
<1>22. NoTwice(r)
  <2>1. ASSUME NEW i \in 1 .. Len(r), NEW k \in 1 .. Len(r), r[i] = r[k] PROVE i = k
    <3>1. CASE i \in 1 .. Len(t) /\ k \in 1 .. Len(t)
      BY <1>17, <1>19, <2>1, <3>1 DEF NoTwice
    <3>2. CASE i \notin 1 .. Len(t) /\ k \notin 1 .. Len(t)
      <4>1. /\ i - Len(t) \in 1 .. Len(more) /\ k - Len(t) \in 1 .. Len(more)
            /\ more[i - Len(t)] = more[k - Len(t)]
        BY <1>20, <2>1, <3>2
      <4>2. i - Len(t) = k - Len(t)
        BY <1>15, <4>1 DEF NoTwice
      <4> QED
        BY <1>19, <4>2
    <3>3. \A x : x \in Held(t) => x \notin S
      BY <1>16, <1>17
    <3>4. ~(i \in 1 .. Len(t) /\ k \notin 1 .. Len(t)) /\ ~(i \notin 1 .. Len(t) /\ k \in 1 .. Len(t))
      BY <1>20, <2>1, <3>3
    <3> QED
      BY <3>1, <3>2, <3>4
  <2> QED
    BY <2>1 DEF NoTwice
<1>23. Held(r) = {j \in J : left[j] = 0} \ Held(done)
  <2>1. \A j \in J : left[j] = w[j] - (IF j \in nexts THEN 1 ELSE 0)
    OBVIOUS
  <2>2. \A j \in J : j \notin nexts => left[j] = w[j]
    BY <1>1, <2>1
  <2>3. h \notin nexts
    BY <1>5, <1>6, <1>12
  <2>4. ASSUME NEW x \in Held(r) PROVE x \in J /\ left[x] = 0 /\ x \notin Held(done)
    <3>1. CASE x \in Held(q) \ {h}
      <4>1. x \in J /\ w[x] = 0 /\ x \notin Held(ran)
        BY <1>1, <3>1
      <4>2. x \notin nexts
        BY <1>12, <4>1
      <4> QED
        BY <1>8, <2>2, <3>1, <4>1, <4>2
    <3>2. CASE x \in S
      BY <1>6, <1>8, <1>11, <1>14, <1>16, <3>2
    <3> QED
      BY <1>21, <2>4, <3>1, <3>2
  <2>5. ASSUME NEW x \in J, left[x] = 0, x \notin Held(done) PROVE x \in Held(r)
    <3>1. x \notin Held(ran) /\ x # h
      BY <1>8, <2>5
    <3>2. CASE x \in nexts
      BY <1>14, <1>21, <2>5, <3>2
    <3>3. CASE x \notin nexts
      BY <1>1, <1>21, <2>2, <2>5, <3>1, <3>3
    <3> QED
      BY <3>2, <3>3
  <2> QED
    BY <2>4, <2>5
<1>24. \A j \in Held(done) : left[j] = 0
  <2> TAKE j \in Held(done)
  <2>1. j \in J /\ w[j] = 0
    <3>1. Held(ran) \subseteq J
      BY <1>1 DEF Held
    <3> QED
      BY <1>1, <1>5, <1>6, <1>8, <3>1
  <2>2. j \notin nexts
    BY <1>12, <2>1
  <2> QED
    BY <1>1, <2>1, <2>2
<1>25. ASSUME NEW i \in 1 .. Len(done), NEW l \in E, l[2] = done[i]
       PROVE  \E k \in 1 .. i - 1 : done[k] = l[1]
  <2>1. CASE i \in 1 .. Len(ran)
    <3>1. PICK k \in 1 .. i - 1 : ran[k] = l[1]
      BY <1>1, <1>7, <1>25, <2>1
    <3>2. done[k] = l[1]
      BY <1>7, <2>1, <3>1
    <3> QED
      BY <3>2
  <2>2. CASE i = Len(ran) + 1
    <3>1. l[2] = h
      BY <1>7, <1>25, <2>2
    <3>2. Cardinality(Awaited(E, Held(ran), h)) = 0
      BY <1>1, <1>5, <1>6
    <3>3. l[1] \in Held(ran)
      <4>1. PICK D : D = Held(ran)
        OBVIOUS
      <4>2. \A k \in E : k[2] = h => k[1] \in D
        BY <1>1, <3>2, <4>1, BeforeIsFinite
      <4> QED
        BY <3>1, <4>1, <4>2
    <3>4. PICK k \in 1 .. Len(ran) : ran[k] = l[1]
      BY <3>3 DEF Held
    <3> QED
      BY <1>7, <2>2, <3>4
  <2> QED
    BY <1>7, <2>1, <2>2
<1>26. Sorted(E, J, r, left, done)
  BY <1>1, <1>7, <1>9, <1>12, <1>13, <1>19, <1>22, <1>23, <1>24, <1>25 DEF Sorted
<1> QED
  BY <1>2, <1>3, <1>4, <1>18, <1>26

-----------------------------------------------------------------------------
(* What is visited, and what is connected.                                 *)

\* The visit holds the object, what is linked to it and what it is made of, and so on.
LEMMA VisitedIsClosed ==
    ASSUME WellMade(used, made, after), NEW o \in Nodes(used, made)
    PROVE  /\ Visited(o) \in SUBSET Nodes(used, made)
           /\ o \in Visited(o)
           /\ \A l \in after : l[1] \in Visited(o) => l[2] \in Visited(o)
           /\ \A v \in Visited(o) : \A i \in 1 .. Len(ObjectIn(made, v).parts) :
                 ObjectIn(made, v).parts[i] \in Visited(o)
<1>1. PICK X : X = Nodes(used, made)
  OBVIOUS
<1>2. PICK R : R = UNION {{v} \X Vertices(v) : v \in Objects}
  OBVIOUS
<1>3. PICK S : S = {o}
  OBVIOUS
<1>4. \A v : Vertices(v) = {l[2] : l \in {k \in after : k[1] = v}} \cup ToSet(ObjectIn(made, v).parts)
  BY ObjectsAre DEF Vertices, Children, Parts
<1>5. \A v \in X : /\ Len(ObjectIn(made, v).parts) \in Nat
                   /\ \A i \in 1 .. Len(ObjectIn(made, v).parts) : ObjectIn(made, v).parts[i] \in X
                   /\ ToSet(ObjectIn(made, v).parts)
                        = {ObjectIn(made, v).parts[i] : i \in 1 .. Len(ObjectIn(made, v).parts)}
  <2> TAKE v \in X
  <2>1. PICK ps : ps = ObjectIn(made, v).parts
    OBVIOUS
  <2>2. Len(ps) \in Nat /\ \A i \in 1 .. Len(ps) : ps[i] \in X
    BY <1>1, <2>1, NodesAreBounded
  <2>3. DOMAIN ps = 1 .. Len(ps)
    <3>1. CASE v <= Units
      <4>1. v \in Nat /\ ObjectIn(made, v) = Alone(v)
        <5>1. v \in Nat
          BY <1>1, JobGraphsAssumption DEF Nodes, WellMade
        <5> QED
          BY <1>1, <3>1, <5>1, NodesAreBounded
      <4>2. ps = <<v>>
        BY <2>1, <4>1, AloneIs
      <4> QED
        BY <4>2
    <3>2. CASE ~(v <= Units)
      <4>1. v \in Nat /\ Units \in Nat
        BY <1>1, JobGraphsAssumption DEF Nodes, WellMade
      <4>2. v - Units \in 1 .. Len(made) /\ ObjectIn(made, v) = made[v - Units]
        BY <1>1, <3>2, <4>1, NodesAreBounded
      <4>3. made[v - Units] \in Makes
        BY <4>2 DEF WellMade
      <4>4. ps \in Seq(Nat)
        BY <2>1, <4>2, <4>3 DEF Makes
      <4> QED
        BY <4>4
    <3> QED
      BY <3>1, <3>2
  <2> QED
    BY <2>1, <2>2, <2>3 DEF ToSet
<1>6. \A v \in X : Vertices(v) \subseteq X
  <2> TAKE v \in X
  <2>1. \A l \in after : l[2] \in X
    BY <1>1 DEF WellMade
  <2>2. ToSet(ObjectIn(made, v).parts) \subseteq X
    BY <1>5
  <2> QED
    BY <1>4, <2>1, <2>2
<1>7. Objects = X
  BY <1>1, ObjectsAre
<1>8. R \in SUBSET (X \X X) /\ S \in SUBSET X
  BY <1>1, <1>2, <1>3, <1>6, <1>7
<1>9. IsFiniteSet(X) /\ Cardinality(X) <= Units + MaxCalls
  <2>1. /\ Units \in Nat /\ MaxCalls \in Nat /\ used \in Nat /\ used <= Units
        /\ Len(made) \in Nat /\ Len(made) <= MaxCalls
    BY JobGraphsAssumption DEF WellMade
  <2>2. PICK Y : Y = 1 .. Units + MaxCalls
    OBVIOUS
  <2>3. X \in SUBSET Y
    BY <1>1, <2>1, <2>2 DEF Nodes
  <2>4. IsFiniteSet(Y) /\ Cardinality(Y) = Units + MaxCalls
    <3>1. PICK N \in Nat : N = Units + MaxCalls
      BY <2>1
    <3>2. Cardinality(1 .. N) = (IF 1 > N THEN 0 ELSE N - 1 + 1) /\ IsFiniteSet(1 .. N)
      <4>1. 1 \in Int /\ N \in Int
        OBVIOUS
      <4> QED
        BY <4>1, FS_Interval
    <3> QED
      BY <2>2, <3>1, <3>2
  <2> QED
    BY <2>3, <2>4, FS_Subset
<1>10. Visited(o) = Reached(R, S)
  BY <1>2, <1>3 DEF Visited
<1>11. Visited(o) \in SUBSET X /\ S \subseteq Visited(o) /\ ClosedIn(R, Visited(o))
  BY <1>8, <1>9, <1>10, ReachedIsLeast
<1>12. \A v \in Visited(o) : Vertices(v) \subseteq Visited(o)
  <2>1. SUFFICES ASSUME NEW v \in Visited(o), NEW w \in Vertices(v) PROVE w \in Visited(o)
    OBVIOUS
  <2>2. v \in Objects
    BY <1>7, <1>11
  <2>3. <<v, w>> \in R
    BY <1>2, <2>1, <2>2
  <2>4. PICK r \in R : r = <<v, w>>
    BY <2>3
  <2> QED
    BY <1>11, <2>4 DEF ClosedIn
<1>13. \A l \in after : l[1] \in Visited(o) => l[2] \in Visited(o)
  BY <1>4, <1>12
<1>14. ASSUME NEW v \in Visited(o), NEW i \in 1 .. Len(ObjectIn(made, v).parts)
       PROVE  ObjectIn(made, v).parts[i] \in Visited(o)
  <2>1. v \in X
    BY <1>11
  <2>2. ObjectIn(made, v).parts[i] \in ToSet(ObjectIn(made, v).parts)
    BY <1>5, <2>1
  <2> QED
    BY <1>4, <1>12, <2>2
<1> QED
  BY <1>1, <1>3, <1>11, <1>13, <1>14

\* What an object is made of has its jobs from it.
LEMMA PartsHoldJobs ==
    ASSUME NEW n, NEW m, NEW a, WellMade(n, m, a), NEW o \in Nodes(n, m)
    PROVE  /\ ObjectIn(m, o).jobs
                = UNION {ObjectIn(m, ObjectIn(m, o).parts[i]).jobs : i \in 1 .. Len(ObjectIn(m, o).parts)}
           /\ o <= Units => /\ ObjectIn(m, o).jobs = {o} /\ ObjectIn(m, o).begins = {o}
                            /\ ObjectIn(m, o).finishes = {o} /\ ObjectIn(m, o).parts = <<o>>
                            /\ ObjectIn(m, o).kind = "alone"
<1>0. o \in Nat /\ Units \in Nat
  BY JobGraphsAssumption DEF Nodes, WellMade
<1>1. CASE o <= Units
  <2>1. ObjectIn(m, o) = Alone(o)
    BY <1>1, NodesAreBounded
  <2>2. /\ ObjectIn(m, o).jobs = {o} /\ ObjectIn(m, o).begins = {o} /\ ObjectIn(m, o).finishes = {o}
        /\ ObjectIn(m, o).parts = <<o>> /\ ObjectIn(m, o).kind = "alone"
    BY <1>0, <2>1, AloneIs
  <2>3. Len(<<o>>) = 1 /\ <<o>>[1] = o
    OBVIOUS
  <2>4. {ObjectIn(m, <<o>>[i]).jobs : i \in 1 .. Len(<<o>>)} = {ObjectIn(m, o).jobs}
    <3>1. PICK s : s = <<o>>
      OBVIOUS
    <3>2. Len(s) = 1 /\ s[1] = o
      BY <3>1
    <3>3. \A i : i \in 1 .. Len(s) <=> i = 1
      BY <3>2
    <3>4. {ObjectIn(m, s[i]).jobs : i \in 1 .. Len(s)} = {ObjectIn(m, s[1]).jobs}
      BY <3>3
    <3> QED
      BY <3>1, <3>2, <3>4
  <2>5. UNION {ObjectIn(m, o).jobs} = ObjectIn(m, o).jobs
    OBVIOUS
  <2> QED
    BY <2>2, <2>4, <2>5
<1>2. CASE ~(o <= Units)
  <2>1. Formed(m, ObjectIn(m, o))
    BY <1>0, <1>2, NodesAreBounded
  <2> QED
    BY <1>2, <2>1 DEF Formed
<1> QED
  BY <1>1, <1>2

\* The jobs of what is visited are visited.
LEMMA JobsAreVisited ==
    ASSUME WellMade(used, made, after), NEW o \in Nodes(used, made), NEW v \in Visited(o)
    PROVE  ObjectIn(made, v).jobs \subseteq JobsFrom(o)
<1> DEFINE V == Visited(o)
           N == Units + Len(made)
           P == {k \in 0 .. N : \A x \in V : x <= k => ObjectIn(made, x).jobs \subseteq V}
<1>1. Units \in Nat /\ Len(made) \in Nat /\ N \in Nat /\ used \in Nat /\ used <= Units
  BY JobGraphsAssumption DEF WellMade
<1>2. V \in SUBSET Nodes(used, made) /\ \A x \in V : x \in 1 .. N
  <2>1. V \in SUBSET Nodes(used, made)
    BY VisitedIsClosed
  <2>2. \A x \in Nodes(used, made) : x \in 1 .. N
    BY <1>1 DEF Nodes
  <2> QED
    BY <2>1, <2>2
<1>3. 0 \in P
  BY <1>1, <1>2
<1>4. ASSUME NEW k \in 0 .. N - 1, k \in P PROVE k + 1 \in P
  <2>1. ASSUME NEW x \in V, x <= k + 1 PROVE ObjectIn(made, x).jobs \subseteq V
    <3>1. x \in Nodes(used, made) /\ x \in Nat /\ k \in Nat
      BY <1>2
    <3>2. CASE x <= Units
      <4>1. ObjectIn(made, x).jobs = {x}
        BY <3>1, <3>2, PartsHoldJobs
      <4> QED
        BY <4>1
    <3>3. CASE ~(x <= Units)
      <4>1. PICK ps : ps = ObjectIn(made, x).parts
        OBVIOUS
      <4>2. ObjectIn(made, x).jobs = UNION {ObjectIn(made, ps[i]).jobs : i \in 1 .. Len(ps)}
        BY <3>1, <4>1, PartsHoldJobs
      <4>3. \A i \in 1 .. Len(ps) : ps[i] < x
        BY <1>1, <3>1, <3>3, <4>1, NodesAreBounded
      <4>4. \A i \in 1 .. Len(ps) : ps[i] \in V
        BY <4>1, VisitedIsClosed
      <4>5. \A i \in 1 .. Len(ps) : ps[i] <= k
        <5> TAKE i \in 1 .. Len(ps)
        <5>1. ps[i] \in Nat /\ ps[i] < x
          BY <1>2, <4>3, <4>4
        <5> QED
          BY <2>1, <3>1, <5>1
      <4>6. \A i \in 1 .. Len(ps) : ObjectIn(made, ps[i]).jobs \subseteq V
        BY <1>4, <4>4, <4>5
      <4> QED
        BY <4>2, <4>6
    <3> QED
      BY <3>2, <3>3
  <2>2. k + 1 \in 0 .. N
    BY <1>1
  <2> QED
    BY <2>1, <2>2
<1> HIDE DEF P
<1>5. \A k \in 0 .. N : k \in P
  <2> HIDE DEF N
  <2> QED
    BY <1>1, <1>3, <1>4, CountInduction
<1>6. N \in P
  BY <1>1, <1>5
<1>7. ObjectIn(made, v).jobs \subseteq V
  BY <1>2, <1>6 DEF P
<1>8. ObjectIn(made, v).jobs \subseteq 1 .. used
  BY <1>2, NodesAreBounded DEF Bounded
<1> QED
  BY <1>1, <1>7, <1>8 DEF JobsFrom, IsUnit

\* The objects that on_done links are parts, all of them or the last one.
LEMMA EndingIsOfParts ==
    ASSUME WellMade(used, made, after), NEW v \in Nodes(used, made)
    PROVE  /\ \A e \in Ending(v) : \E i \in 1 .. Len(ObjectIn(made, v).parts) : e = ObjectIn(made, v).parts[i]
           /\ \A f \in ObjectIn(made, v).finishes : \E e \in Ending(v) : f \in ObjectIn(made, e).finishes
<1>1. PICK c : c = ObjectIn(made, v)
  OBVIOUS
<1>2. PICK N \in Nat \ {0} : N = Len(c.parts)
  BY <1>1, NodesAreBounded
<1>3. v \in Nat /\ Units \in Nat
  BY JobGraphsAssumption DEF Nodes, WellMade
<1>4. Ending(v) = IF c.kind = "chain" THEN {c.parts[N]} ELSE ToSet(c.parts)
  <2>1. Object(v) = c
    BY <1>1, ObjectsAre
  <2> QED
    BY <1>2, <2>1 DEF Ending, Parts, Last
<1>5. 1 \in 1 .. N /\ N \in 1 .. N
  BY <1>2
<1>6. CASE v <= Units
  <2>1. c.parts = <<v>> /\ c.kind = "alone" /\ c.finishes = {v}
    BY <1>1, <1>6, PartsHoldJobs
  <2>2. PICK s : s = <<v>>
    OBVIOUS
  <2>3. Len(s) = 1 /\ s[1] = v /\ DOMAIN s = 1 .. 1
    BY <2>2
  <2>4. ToSet(s) = {v}
    BY <2>3 DEF ToSet
  <2>5. Ending(v) = {v}
    BY <1>4, <2>1, <2>2, <2>4
  <2>6. c.parts[1] = v /\ N = 1
    BY <1>2, <2>1, <2>2, <2>3
  <2> QED
    BY <1>1, <1>2, <1>5, <2>1, <2>5, <2>6
<1>7. CASE ~(v <= Units)
  <2>1. Formed(made, c) /\ c.kind \in {"chain", "group"}
    BY <1>1, <1>3, <1>7, NodesAreBounded
  <2>2. DOMAIN c.parts = 1 .. N
    <3>1. v - Units \in 1 .. Len(made) /\ c = made[v - Units]
      BY <1>1, <1>3, <1>7, NodesAreBounded
    <3>2. c \in Makes
      BY <3>1 DEF WellMade
    <3>3. c.parts \in Seq(Nat)
      BY <3>2 DEF Makes
    <3> QED
      BY <1>2, <3>3
  <2>3. CASE c.kind = "chain"
    <3>1. Ending(v) = {c.parts[N]} /\ c.finishes = ObjectIn(made, c.parts[N]).finishes
      BY <1>2, <1>4, <2>1, <2>3 DEF Formed
    <3> QED
      BY <1>1, <1>2, <1>5, <3>1
  <2>4. CASE c.kind = "group"
    <3>1. Ending(v) = {c.parts[i] : i \in 1 .. N}
      BY <1>4, <2>2, <2>4 DEF ToSet
    <3>2. c.finishes = UNION {ObjectIn(made, c.parts[i]).finishes : i \in 1 .. N}
      BY <1>2, <2>1, <2>4 DEF Formed
    <3>3. ASSUME NEW f \in c.finishes PROVE \E e \in Ending(v) : f \in ObjectIn(made, e).finishes
      <4>1. PICK i \in 1 .. N : f \in ObjectIn(made, c.parts[i]).finishes
        BY <3>2
      <4> QED
        BY <3>1, <4>1
    <3> QED
      BY <1>1, <1>2, <3>1, <3>3
  <2> QED
    BY <2>1, <2>3, <2>4
<1> QED
  BY <1>6, <1>7

\* The links of the graph of an object: from what ends it to what on_done was given, and
\* from part to part of a chain.
LEMMA LinksAre ==
    ASSUME NEW v
    PROVE  \A l : l \in Links(v) <=>
               \/ \E e \in Ending(v), k \in after : k[1] = v /\ l = <<e, k[2]>>
               \/ ObjectIn(made, v).kind = "chain" /\ l \in PairsIn(made, v)
<1>1. Object(v) = ObjectIn(made, v)
  BY ObjectsAre
<1>2. Pairs(v) = PairsIn(made, v)
  BY <1>1 DEF Pairs, PairsIn, Parts
<1>3. \A l : l \in Ending(v) \X Children(v) <=> \E e \in Ending(v), k \in after : k[1] = v /\ l = <<e, k[2]>>
  BY DEF Children
<1>4. \A l : l \in Links(v) <=> l \in Ending(v) \X Children(v)
                               \/ (ObjectIn(made, v).kind = "chain" /\ l \in PairsIn(made, v))
  BY <1>1, <1>2 DEF Links
<1> QED
  BY <1>3, <1>4

\* What is connected are jobs of the graph, in an order that was told.
LEMMA ConnectedIs ==
    ASSUME WellMade(used, made, after), NEW o \in Nodes(used, made)
    PROVE  /\ Connected(o) \in SUBSET (JobsFrom(o) \X JobsFrom(o))
           /\ Connected(o) \subseteq ToldIn(made, after, Nodes(used, made))
           /\ \A v \in Visited(o) : \A l \in Links(v) :
                 \A x \in ObjectIn(made, l[1]).tail, y \in ObjectIn(made, l[2]).head : <<x, y>> \in Connected(o)
<1>1. PICK X : X = Nodes(used, made)
  OBVIOUS
<1>2. PICK V : V = Visited(o)
  OBVIOUS
<1>3. V \in SUBSET X
  BY <1>1, <1>2, VisitedIsClosed
<1>4. \A p : p \in Connected(o) <=> \E v \in V : \E l \in Links(v) :
                 p \in ObjectIn(made, l[1]).tail \X ObjectIn(made, l[2]).head
  BY <1>2, ObjectsAre DEF Connected
<1>5. \A x \in X : ObjectIn(made, x).tail \subseteq ObjectIn(made, x).jobs
                   /\ ObjectIn(made, x).head \subseteq ObjectIn(made, x).jobs
  BY <1>1, NodesAreBounded DEF Bounded
<1>6. \A v \in V : \A i \in 1 .. Len(ObjectIn(made, v).parts) :
          /\ ObjectIn(made, v).parts[i] \in V
          /\ ObjectIn(made, ObjectIn(made, v).parts[i]).jobs \subseteq ObjectIn(made, v).jobs
  <2> TAKE v \in V
  <2>1. ObjectIn(made, v).jobs
          = UNION {ObjectIn(made, ObjectIn(made, v).parts[i]).jobs : i \in 1 .. Len(ObjectIn(made, v).parts)}
    BY <1>1, <1>3, PartsHoldJobs
  <2>2. \A i \in 1 .. Len(ObjectIn(made, v).parts) :
          ObjectIn(made, ObjectIn(made, v).parts[i]).jobs \subseteq ObjectIn(made, v).jobs
    BY <2>1
  <2> QED
    BY <1>2, <2>2, VisitedIsClosed
<1>7. ASSUME NEW v \in V, NEW l \in Links(v), NEW x \in ObjectIn(made, l[1]).tail, NEW y \in ObjectIn(made, l[2]).head
      PROVE  /\ x \in JobsFrom(o) /\ y \in JobsFrom(o)
             /\ <<x, y>> \in ToldIn(made, after, X)
  <2>1. CASE \E e \in Ending(v), k \in after : k[1] = v /\ l = <<e, k[2]>>
    <3>1. PICK e \in Ending(v), k \in after : k[1] = v /\ l = <<e, k[2]>>
      BY <2>1
    <3>2. l[1] = e /\ l[2] = k[2]
      BY <3>1
    <3>3. PICK i \in 1 .. Len(ObjectIn(made, v).parts) : e = ObjectIn(made, v).parts[i]
      BY <1>1, <1>3, EndingIsOfParts
    <3>4. e \in V /\ ObjectIn(made, e).jobs \subseteq ObjectIn(made, v).jobs
      BY <1>6, <3>3
    <3>5. k[2] \in V
      BY <1>2, <3>1, VisitedIsClosed
    <3>6. x \in ObjectIn(made, v).jobs /\ y \in ObjectIn(made, k[2]).jobs
      BY <1>3, <1>5, <3>2, <3>4, <3>5
    <3>7. k \in LinksIn(made, after, X)
      BY <1>3, <3>1 DEF LinksIn
    <3>8. <<x, y>> \in ToldIn(made, after, X)
      BY <1>1, <3>1, <3>6, <3>7, ToldIsBounded
    <3> QED
      BY <1>1, <1>2, <3>5, <3>6, <3>8, JobsAreVisited
  <2>2. CASE ObjectIn(made, v).kind = "chain" /\ l \in PairsIn(made, v)
    <3>1. PICK i \in 1 .. Len(ObjectIn(made, v).parts) - 1 :
            l = <<ObjectIn(made, v).parts[i], ObjectIn(made, v).parts[i + 1]>>
      BY <2>2 DEF PairsIn
    <3>2. Len(ObjectIn(made, v).parts) \in Nat
      BY <1>1, <1>3, NodesAreBounded
    <3>3. i \in 1 .. Len(ObjectIn(made, v).parts) /\ i + 1 \in 1 .. Len(ObjectIn(made, v).parts)
      BY <3>2
    <3>4. l[1] \in V /\ l[2] \in V
      BY <1>6, <3>1, <3>3
    <3>5. x \in ObjectIn(made, l[1]).jobs /\ y \in ObjectIn(made, l[2]).jobs
      BY <1>3, <1>5, <3>4
    <3>6. l \in LinksIn(made, after, X)
      BY <1>3, <2>2 DEF LinksIn
    <3>7. <<x, y>> \in ToldIn(made, after, X)
      BY <1>1, <3>5, <3>6, ToldIsBounded
    <3> QED
      BY <1>1, <1>2, <3>4, <3>5, <3>7, JobsAreVisited
  <2> QED
    BY <2>1, <2>2, LinksAre
<1>8. ASSUME NEW p \in Connected(o)
      PROVE  p \in JobsFrom(o) \X JobsFrom(o) /\ p \in ToldIn(made, after, X)
  <2>0. PICK v \in V : \E l \in Links(v) : p \in ObjectIn(made, l[1]).tail \X ObjectIn(made, l[2]).head
    BY <1>4
  <2>1. PICK l \in Links(v) : p \in ObjectIn(made, l[1]).tail \X ObjectIn(made, l[2]).head
    BY <2>0
  <2>2. PICK x \in ObjectIn(made, l[1]).tail, y \in ObjectIn(made, l[2]).head : p = <<x, y>>
    BY <2>1
  <2> QED
    BY <1>7, <2>2
<1>9. ASSUME NEW v \in V, NEW l \in Links(v), NEW x \in ObjectIn(made, l[1]).tail, NEW y \in ObjectIn(made, l[2]).head
      PROVE  <<x, y>> \in Connected(o)
  BY <1>4
<1> QED
  BY <1>1, <1>2, <1>8, <1>9

-----------------------------------------------------------------------------
(* The order that is kept.                                                 *)

\* A job that is, or that comes before, one of S; that is, or that comes after, one of S.
LeadsTo(C, x, S) == x \in S \/ \E f \in S : <<x, f>> \in C

ComesFrom(C, x, S) == x \in S \/ \E g \in S : <<g, x>> \in C

\* Where each part leads to its end and the ends of one part come before the beginning of
\* the next, all parts lead to the end of the last and come from the beginning of the first.
LEMMA ChainLeads ==
    ASSUME NEW C, Transits(C, C), NEW N \in Nat \ {0}, NEW p,
           \A i \in 1 .. N : \A x \in p[i].jobs :
              LeadsTo(C, x, p[i].finishes) /\ ComesFrom(C, x, p[i].begins),
           \A i \in 1 .. N : /\ p[i].begins \subseteq p[i].jobs /\ p[i].finishes \subseteq p[i].jobs
                             /\ p[i].begins # {} /\ p[i].finishes # {},
           \A i \in 1 .. N - 1 : \A f \in p[i].finishes, g \in p[i + 1].begins : <<f, g>> \in C
    PROVE  \A i \in 1 .. N : \A x \in p[i].jobs :
              LeadsTo(C, x, p[N].finishes) /\ ComesFrom(C, x, p[1].begins)
<1>1. \A x, y, z : <<x, y>> \in C /\ <<y, z>> \in C => <<x, z>> \in C
  <2> TAKE x, y, z
  <2> HAVE <<x, y>> \in C /\ <<y, z>> \in C
  <2>1. PICK q \in C : q = <<x, y>>
    OBVIOUS
  <2>2. PICK r \in C : r = <<y, z>>
    OBVIOUS
  <2>3. <<q[1], r[2]>> \in C
    BY <2>1, <2>2 DEF Transits
  <2> QED
    BY <2>1, <2>2, <2>3
<1> DEFINE P == {n \in 0 .. N - 1 : \A x \in p[N - n].jobs : LeadsTo(C, x, p[N].finishes)}
           Q == {n \in 0 .. N - 1 : \A x \in p[n + 1].jobs : ComesFrom(C, x, p[1].begins)}
<1>2. 0 \in 0 .. N - 1 /\ N - 0 = N /\ N \in 1 .. N /\ 0 + 1 = 1 /\ 1 \in 1 .. N /\ N - 1 \in Nat
  OBVIOUS
<1>3. 0 \in P /\ 0 \in Q
  BY <1>2
<1>4. ASSUME NEW n \in 0 .. (N - 1) - 1, n \in P PROVE n + 1 \in P
  <2>1. PICK i \in 1 .. N - 1 : i = N - (n + 1)
    OBVIOUS
  <2>2. N - n = i + 1 /\ i \in 1 .. N /\ i + 1 \in 1 .. N /\ n + 1 \in 0 .. N - 1
    BY <2>1
  <2>3. ASSUME NEW x \in p[i].jobs PROVE LeadsTo(C, x, p[N].finishes)
    <3>1. PICK f \in p[i].finishes : x = f \/ <<x, f>> \in C
      BY <2>2 DEF LeadsTo
    <3>2. PICK g \in p[i + 1].begins : TRUE
      BY <2>2
    <3>3. <<f, g>> \in C
      BY <3>1, <3>2
    <3>4. <<x, g>> \in C
      BY <1>1, <3>1, <3>3
    <3>5. LeadsTo(C, g, p[N].finishes)
      <4>1. g \in p[N - n].jobs
        BY <2>2, <3>2
      <4> QED
        BY <1>4, <4>1
    <3> QED
      BY <1>1, <3>4, <3>5 DEF LeadsTo
  <2> QED
    BY <2>1, <2>2, <2>3
<1>5. ASSUME NEW n \in 0 .. (N - 1) - 1, n \in Q PROVE n + 1 \in Q
  <2>1. PICK i \in 1 .. N - 1 : i = n + 1
    OBVIOUS
  <2>2. i \in 1 .. N /\ i + 1 \in 1 .. N /\ n + 1 \in 0 .. N - 1 /\ (n + 1) + 1 = i + 1
    BY <2>1
  <2>3. ASSUME NEW x \in p[i + 1].jobs PROVE ComesFrom(C, x, p[1].begins)
    <3>1. PICK g \in p[i + 1].begins : x = g \/ <<g, x>> \in C
      BY <2>2 DEF ComesFrom
    <3>2. PICK f \in p[i].finishes : TRUE
      BY <2>2
    <3>3. <<f, g>> \in C
      BY <3>1, <3>2
    <3>4. <<f, x>> \in C
      BY <1>1, <3>1, <3>3
    <3>5. ComesFrom(C, f, p[1].begins)
      <4>1. f \in p[n + 1].jobs
        BY <2>1, <2>2, <3>2
      <4> QED
        BY <1>5, <4>1
    <3> QED
      BY <1>1, <3>4, <3>5 DEF ComesFrom
  <2> QED
    BY <2>2, <2>3
<1> HIDE DEF P, Q
<1>6. \A n \in 0 .. N - 1 : n \in P /\ n \in Q
  <2>1. PICK M \in Nat : M = N - 1
    BY <1>2
  <2>2. \A n \in 0 .. M - 1 : n \in P => n + 1 \in P
    BY <1>4, <2>1
  <2>3. \A n \in 0 .. M - 1 : n \in Q => n + 1 \in Q
    BY <1>5, <2>1
  <2>4. \A n \in 0 .. M : n \in P
    BY <1>3, <2>2, CountInduction
  <2>5. \A n \in 0 .. M : n \in Q
    BY <1>3, <2>3, CountInduction
  <2> QED
    BY <2>1, <2>4, <2>5
<1>7. ASSUME NEW i \in 1 .. N, NEW x \in p[i].jobs
      PROVE  LeadsTo(C, x, p[N].finishes) /\ ComesFrom(C, x, p[1].begins)
  <2>1. N - i \in 0 .. N - 1 /\ i - 1 \in 0 .. N - 1 /\ N - (N - i) = i /\ (i - 1) + 1 = i
    OBVIOUS
  <2>2. N - i \in P /\ i - 1 \in Q
    BY <1>6, <2>1
  <2>3. \A y \in p[N - (N - i)].jobs : LeadsTo(C, y, p[N].finishes)
    BY <2>2 DEF P
  <2>4. \A y \in p[(i - 1) + 1].jobs : ComesFrom(C, y, p[1].begins)
    BY <2>2 DEF Q
  <2> QED
    BY <2>1, <2>3, <2>4
<1> QED
  BY <1>7

\* Nothing that is visited from o is turned.
Straight(o) ==
    \A v \in Visited(o) : /\ ObjectIn(made, v).head = ObjectIn(made, v).begins
                          /\ ObjectIn(made, v).tail = ObjectIn(made, v).finishes

\* The jobs of all that is visited lead to its end and come from its beginning.
LEMMA EndsAreReached ==
    ASSUME WellMade(used, made, after), NEW o \in Nodes(used, made), Straight(o),
           NEW C, Transits(C, C), Connected(o) \subseteq C
    PROVE  \A v \in Visited(o) : \A x \in ObjectIn(made, v).jobs :
              LeadsTo(C, x, ObjectIn(made, v).finishes) /\ ComesFrom(C, x, ObjectIn(made, v).begins)
<1> DEFINE V == Visited(o)
           N == Units + Len(made)
           Good(v) == \A x \in ObjectIn(made, v).jobs :
                         /\ LeadsTo(C, x, ObjectIn(made, v).finishes)
                         /\ ComesFrom(C, x, ObjectIn(made, v).begins)
           P == {k \in 0 .. N : \A v \in V : v <= k => Good(v)}
<1>1. Units \in Nat /\ Len(made) \in Nat /\ N \in Nat /\ used \in Nat /\ used <= Units
  BY JobGraphsAssumption DEF WellMade
<1>2. V \in SUBSET Nodes(used, made) /\ \A x \in V : x \in 1 .. N
  <2>1. V \in SUBSET Nodes(used, made)
    BY VisitedIsClosed
  <2>2. \A x \in Nodes(used, made) : x \in 1 .. N
    BY <1>1 DEF Nodes
  <2> QED
    BY <2>1, <2>2
<1>3. 0 \in P
  BY <1>1, <1>2
<1>4. ASSUME NEW k \in 0 .. N - 1, k \in P PROVE k + 1 \in P
  <2>1. ASSUME NEW v \in V, v <= k + 1 PROVE Good(v)
    <3>1. v \in Nodes(used, made) /\ v \in Nat /\ k \in Nat
      BY <1>2
    <3>2. CASE v <= Units
      <4>1. /\ ObjectIn(made, v).jobs = {v} /\ ObjectIn(made, v).begins = {v}
            /\ ObjectIn(made, v).finishes = {v}
        BY <3>1, <3>2, PartsHoldJobs
      <4> QED
        BY <4>1 DEF LeadsTo, ComesFrom
    <3>3. CASE ~(v <= Units)
      <4>1. PICK c : c = ObjectIn(made, v)
        OBVIOUS
      <4>2. PICK n \in Nat \ {0} : n = Len(c.parts)
        BY <3>1, <4>1, NodesAreBounded
      <4>3. PICK p : p = [i \in 1 .. n |-> ObjectIn(made, c.parts[i])]
        OBVIOUS
      <4>4. Formed(made, c) /\ c.kind \in {"chain", "group"}
        BY <1>1, <3>1, <3>3, <4>1, NodesAreBounded
      <4>5. \A i \in 1 .. n : c.parts[i] \in V /\ c.parts[i] <= k
        <5> TAKE i \in 1 .. n
        <5>1. c.parts[i] \in V
          BY <4>1, <4>2, VisitedIsClosed
        <5>2. c.parts[i] < v
          BY <1>1, <3>1, <3>3, <4>1, <4>2, NodesAreBounded
        <5>3. c.parts[i] \in Nat
          BY <1>2, <5>1
        <5> QED
          BY <2>1, <3>1, <5>1, <5>2, <5>3
      <4>6. \A i \in 1 .. n : Good(c.parts[i])
        BY <1>4, <4>5
      <4>7. \A i \in 1 .. n : \A x \in p[i].jobs :
               LeadsTo(C, x, p[i].finishes) /\ ComesFrom(C, x, p[i].begins)
        BY <4>3, <4>6
      <4>8. 1 \in 1 .. n /\ n \in 1 .. n
        BY <4>2
      <4>9. CASE c.kind = "chain"
        <5>1. c.jobs = UNION {p[i].jobs : i \in 1 .. n} /\ c.begins = p[1].begins /\ c.finishes = p[n].finishes
          BY <4>2, <4>3, <4>4, <4>8, <4>9 DEF Formed
        <5>2. \A i \in 1 .. n : /\ p[i].begins \subseteq p[i].jobs /\ p[i].finishes \subseteq p[i].jobs
                                /\ p[i].begins # {} /\ p[i].finishes # {}
          <6> TAKE i \in 1 .. n
          <6>1. Bounded(ObjectIn(made, c.parts[i]), used)
            BY <1>2, <4>5, NodesAreBounded
          <6> QED
            BY <4>3, <6>1 DEF Bounded
        <5>3. ASSUME NEW i \in 1 .. n - 1, NEW f \in p[i].finishes, NEW g \in p[i + 1].begins
              PROVE  <<f, g>> \in C
          <6>1. i \in 1 .. n /\ i + 1 \in 1 .. n
            BY <4>2
          <6>2. PICK l : l = <<c.parts[i], c.parts[i + 1]>>
            OBVIOUS
          <6>3. l[1] = c.parts[i] /\ l[2] = c.parts[i + 1]
            BY <6>2
          <6>4. l \in PairsIn(made, v)
            BY <4>1, <4>2, <6>2 DEF PairsIn
          <6>5. l \in Links(v)
            BY <4>1, <4>9, <6>4, LinksAre
          <6>6. f \in ObjectIn(made, l[1]).finishes /\ g \in ObjectIn(made, l[2]).begins
            BY <4>3, <5>3, <6>1, <6>3
          <6>7. l[1] \in V /\ l[2] \in V
            BY <4>5, <6>1, <6>3
          <6>8. f \in ObjectIn(made, l[1]).tail /\ g \in ObjectIn(made, l[2]).head
            BY <6>6, <6>7 DEF Straight
          <6>9. <<f, g>> \in Connected(o)
            BY <6>5, <6>8, ConnectedIs
          <6> QED
            BY <6>9
        <5>4. \A i \in 1 .. n : \A x \in p[i].jobs :
                 LeadsTo(C, x, p[n].finishes) /\ ComesFrom(C, x, p[1].begins)
          BY <4>7, <5>2, <5>3, ChainLeads
        <5> QED
          BY <4>1, <5>1, <5>4
      <4>10. CASE c.kind = "group"
        <5>1. /\ c.jobs = UNION {p[i].jobs : i \in 1 .. n}
              /\ c.begins = UNION {p[i].begins : i \in 1 .. n}
              /\ c.finishes = UNION {p[i].finishes : i \in 1 .. n}
          <6>1. /\ {p[i].jobs : i \in 1 .. n} = {ObjectIn(made, c.parts[i]).jobs : i \in 1 .. n}
                /\ {p[i].begins : i \in 1 .. n} = {ObjectIn(made, c.parts[i]).begins : i \in 1 .. n}
                /\ {p[i].finishes : i \in 1 .. n} = {ObjectIn(made, c.parts[i]).finishes : i \in 1 .. n}
            BY <4>3
          <6> QED
            BY <4>2, <4>4, <4>10, <6>1 DEF Formed
        <5>2. ASSUME NEW x \in c.jobs PROVE LeadsTo(C, x, c.finishes) /\ ComesFrom(C, x, c.begins)
          <6>1. PICK i \in 1 .. n : x \in p[i].jobs
            BY <5>1
          <6>2. p[i].finishes \subseteq c.finishes /\ p[i].begins \subseteq c.begins
            BY <5>1
          <6>3. LeadsTo(C, x, p[i].finishes) /\ ComesFrom(C, x, p[i].begins)
            BY <4>7, <6>1
          <6> QED
            BY <6>2, <6>3 DEF LeadsTo, ComesFrom
        <5> QED
          BY <4>1, <5>2
      <4> QED
        BY <4>4, <4>9, <4>10
    <3> QED
      BY <3>2, <3>3
  <2>2. k + 1 \in 0 .. N
    BY <1>1
  <2> HIDE DEF Good
  <2> QED
    BY <2>1, <2>2
<1> HIDE DEF P
<1>5. \A k \in 0 .. N : k \in P
  <2> HIDE DEF N
  <2> QED
    BY <1>1, <1>3, <1>4, CountInduction
<1>6. N \in P
  BY <1>1, <1>5
<1>7. \A v \in V : Good(v)
  BY <1>2, <1>6 DEF P
<1> QED
  BY <1>7

\* What is said of what is visited is in the graph.
LEMMA OrderIsReached ==
    ASSUME WellMade(used, made, after), NEW o \in Nodes(used, made), Straight(o),
           NEW D \in SUBSET (Delayables \X Delayables), Connected(o) \subseteq D
    PROVE  \A p \in Closure(ToldIn(made, after, Visited(o))) : p \in Closure(D) /\ p[1] \in JobsFrom(o)
<1>1. PICK C : C = Closure(D)
  OBVIOUS
<1>2. PICK V : V = Visited(o)
  OBVIOUS
<1>3. PICK T : T = ToldIn(made, after, V)
  OBVIOUS
<1>4. D \subseteq C /\ Transits(C, C)
  BY <1>1, ClosureIsLeast
<1>5. \A v \in V : \A x \in ObjectIn(made, v).jobs :
              LeadsTo(C, x, ObjectIn(made, v).finishes) /\ ComesFrom(C, x, ObjectIn(made, v).begins)
  <2>1. Connected(o) \subseteq C
    BY <1>4
  <2> QED
    BY <1>2, <1>4, <2>1, EndsAreReached
<1>6. V \in SUBSET Nodes(used, made)
  BY <1>2, VisitedIsClosed
<1>7. T \in SUBSET (Delayables \X Delayables)
  BY <1>3, <1>6, ToldIsBounded
<1>8. \A x, y, z : <<x, y>> \in C /\ <<y, z>> \in C => <<x, z>> \in C
  <2> TAKE x, y, z
  <2> HAVE <<x, y>> \in C /\ <<y, z>> \in C
  <2>1. PICK q \in C : q = <<x, y>>
    OBVIOUS
  <2>2. PICK r \in C : r = <<y, z>>
    OBVIOUS
  <2>3. <<q[1], r[2]>> \in C
    BY <1>4, <2>1, <2>2 DEF Transits
  <2> QED
    BY <2>1, <2>2, <2>3
<1>9. ASSUME NEW l \in LinksIn(made, after, V)
      PROVE  /\ l[1] \in V /\ l[2] \in V
             /\ \A f \in ObjectIn(made, l[1]).finishes, g \in ObjectIn(made, l[2]).begins : <<f, g>> \in C
  <2>1. CASE l \in after /\ l[1] \in V
    <3>1. l[2] \in V
      BY <1>2, <2>1, VisitedIsClosed
    <3>2. ASSUME NEW f \in ObjectIn(made, l[1]).finishes, NEW g \in ObjectIn(made, l[2]).begins
          PROVE  <<f, g>> \in C
      <4>1. PICK e \in Ending(l[1]) : f \in ObjectIn(made, e).finishes
        BY <1>6, <2>1, EndingIsOfParts
      <4>2. PICK k : k = <<e, l[2]>>
        OBVIOUS
      <4>3. k \in Links(l[1]) /\ k[1] = e /\ k[2] = l[2]
        BY <2>1, <4>2, LinksAre
      <4>4. e \in V
        <5>1. PICK i \in 1 .. Len(ObjectIn(made, l[1]).parts) : e = ObjectIn(made, l[1]).parts[i]
          BY <1>6, <2>1, EndingIsOfParts
        <5> QED
          BY <1>2, <2>1, <5>1, VisitedIsClosed
      <4>5. f \in ObjectIn(made, k[1]).tail /\ g \in ObjectIn(made, k[2]).head
        BY <1>2, <3>1, <3>2, <4>1, <4>3, <4>4 DEF Straight
      <4>6. <<f, g>> \in Connected(o)
        BY <1>2, <2>1, <4>3, <4>5, ConnectedIs
      <4> QED
        BY <1>4, <4>6
    <3> QED
      BY <2>1, <3>1, <3>2
  <2>2. CASE \E v \in V : ObjectIn(made, v).kind = "chain" /\ l \in PairsIn(made, v)
    <3>1. PICK v \in V : ObjectIn(made, v).kind = "chain" /\ l \in PairsIn(made, v)
      BY <2>2
    <3>2. PICK n \in Nat : n = Len(ObjectIn(made, v).parts)
      BY <1>6, NodesAreBounded
    <3>3. PICK i \in 1 .. n - 1 : l = <<ObjectIn(made, v).parts[i], ObjectIn(made, v).parts[i + 1]>>
      BY <3>1, <3>2 DEF PairsIn
    <3>4. i \in 1 .. n /\ i + 1 \in 1 .. n
      BY <3>2
    <3>5. l[1] \in V /\ l[2] \in V
      BY <1>2, <3>2, <3>3, <3>4, VisitedIsClosed
    <3>6. l \in Links(v)
      BY <3>1, LinksAre
    <3>7. ASSUME NEW f \in ObjectIn(made, l[1]).finishes, NEW g \in ObjectIn(made, l[2]).begins
          PROVE  <<f, g>> \in C
      <4>1. f \in ObjectIn(made, l[1]).tail /\ g \in ObjectIn(made, l[2]).head
        BY <1>2, <3>5, <3>7 DEF Straight
      <4>2. <<f, g>> \in Connected(o)
        BY <1>2, <3>6, <4>1, ConnectedIs
      <4> QED
        BY <1>4, <4>2
    <3> QED
      BY <3>5, <3>7
  <2> QED
    BY <2>1, <2>2 DEF LinksIn
<1>10. ASSUME NEW p \in T PROVE p \in C /\ p[1] \in JobsFrom(o) /\ p[2] \in JobsFrom(o) /\ p = <<p[1], p[2]>>
  <2>1. PICK l \in LinksIn(made, after, V) :
          p = <<p[1], p[2]>> /\ p[1] \in ObjectIn(made, l[1]).jobs /\ p[2] \in ObjectIn(made, l[2]).jobs
    BY <1>3, <1>6, ToldIsBounded
  <2>2. l[1] \in V /\ l[2] \in V
    BY <1>9
  <2>3. PICK f \in ObjectIn(made, l[1]).finishes : p[1] = f \/ <<p[1], f>> \in C
    BY <1>5, <2>1, <2>2 DEF LeadsTo
  <2>4. PICK g \in ObjectIn(made, l[2]).begins : p[2] = g \/ <<g, p[2]>> \in C
    BY <1>5, <2>1, <2>2 DEF ComesFrom
  <2>5. <<f, g>> \in C
    BY <1>9
  <2>6. <<p[1], g>> \in C
    BY <1>8, <2>3, <2>5
  <2>7. <<p[1], p[2]>> \in C
    BY <1>8, <2>4, <2>6
  <2> QED
    BY <1>2, <2>1, <2>2, <2>7, JobsAreVisited
<1>11. Closure(T) \subseteq C
  BY <1>1, <1>7, <1>10, ClosureWithin
<1>12. Closure(T) \subseteq JobsFrom(o) \X JobsFrom(o)
  <2>1. PICK J : J = JobsFrom(o)
    OBVIOUS
  <2>2. PICK Q : Q = J \X J
    OBVIOUS
  <2>3. T \subseteq Q
    BY <1>10, <2>1, <2>2
  <2>4. Transits(Q, T)
    BY <1>10, <2>1, <2>2 DEF Transits
  <2>5. Closure(T) \subseteq Q
    BY <1>7, <2>3, <2>4, ClosureIsLeast
  <2> QED
    BY <2>1, <2>2, <2>5
<1> QED
  BY <1>1, <1>2, <1>3, <1>11, <1>12

-----------------------------------------------------------------------------
(* The invariant.                                                          *)

\* What the calls have said so far.
ToldNow == ToldIn(made, after, Nodes(used, made))

GraphTypes ==
    /\ WellMade(used, made, after)
    /\ batch \in [Delayables -> SUBSET (1 .. Records)]
    /\ depends \in [Delayables -> SUBSET Delayables]
    /\ graph \in [Delayables -> Nat]
    /\ stored \in SUBSET Delayables
    /\ last # 0 => outcome = "open"

\* What a job depends on was said to come before it.
DependsTold == \A u \in Delayables : \A p \in depends[u] : <<p, u>> \in Closure(ToldNow)

\* Jobs that depend on each other are in one graph, and stored unless they were found.
DependsInGraph ==
    outcome # "found" =>
        \A u \in Delayables : \A p \in depends[u] :
            u \in stored /\ p \in stored /\ graph[p] = graph[u] /\ graph[u] # 0

\* What is performed at once is sorted, along what was said.
Performs(d, T) ==
    \E E, J, q, w, ran : /\ d = [edges |-> E, queue |-> q, waits |-> w, ran |-> ran]
                         /\ Sorted(E, J, q, w, ran)
                         /\ E \subseteq T

PerformingIs ==
    /\ outcome # "performing" => direct = NoGraph
    /\ outcome = "performing" => Performs(direct, ToldNow)

GraphIInv ==
    /\ GraphTypes
    /\ Loopless(ToldNow)
    /\ DependsTold
    /\ DependsInGraph
    /\ PerformingIs
    /\ BatchesKept(made, batch, used)
    /\ OrderIsKept

\* The invariant holds at the start.
LEMMA GraphInitIs == GraphInit => GraphIInv
<1> SUFFICES ASSUME GraphInit PROVE GraphIInv
  OBVIOUS
<1> USE DEF GraphInit
<1>0. Units \in Nat /\ MaxCalls \in Nat /\ Records \in Nat
  BY JobGraphsAssumption
<1>1. used = 0 /\ made = <<>> /\ after = {} /\ Len(made) = 0 /\ made \in Seq(Makes)
  OBVIOUS
<1>2. Nodes(used, made) = {}
  BY <1>0, <1>1 DEF Nodes
<1>3. WellMade(used, made, after)
  BY <1>0, <1>1 DEF WellMade
<1>4. GraphTypes
  BY <1>3 DEF GraphTypes, Delayables
<1>5. ToldNow = {}
  BY <1>1, <1>2 DEF ToldNow, ToldIn, LinksIn
<1>6. Closure(ToldNow) = {}
  <2>1. PICK R \in SUBSET (Delayables \X Delayables) : R = {}
    OBVIOUS
  <2>2. PICK Q : Q = {}
    OBVIOUS
  <2>3. R \subseteq Q /\ Transits(Q, R)
    BY <2>1, <2>2 DEF Transits
  <2>4. Closure(R) \subseteq Q
    BY <2>3, ClosureIsLeast
  <2> QED
    BY <1>5, <2>1, <2>2, <2>4
<1>7. Loopless(ToldNow)
  BY <1>6 DEF Loopless
<1>8. DependsTold /\ DependsInGraph
  BY DEF DependsTold, DependsInGraph, Delayables
<1>9. PerformingIs
  BY DEF PerformingIs
<1>10. BatchesKept(made, batch, used)
  BY <1>1 DEF BatchesKept
<1>11. OrderIsKept
  BY DEF OrderIsKept
<1> QED
  BY <1>4, <1>7, <1>8, <1>9, <1>10, <1>11 DEF GraphIInv

\* Calls that only make objects leave the jobs as they are.
LEMMA JobsAreKept ==
    ASSUME GraphIInv, outcome = "open", last' = 0,
           UNCHANGED <<depends, graph, stored, direct, outcome>>,
           batch' \in [Delayables -> SUBSET (1 .. Records)],
           WellMade(used', made', after'), Prolongs(used, made, used', made'), after \subseteq after',
           Loopless(ToldIn(made', after', Nodes(used', made'))),
           BatchesKept(made', batch', used')
    PROVE  GraphIInv'
<1> USE DEF GraphIInv
<1>1. GraphTypes'
  BY DEF GraphTypes
<1>2. ToldNow' = ToldIn(made', after', Nodes(used', made'))
  BY DEF ToldNow, ToldIn, LinksIn, ObjectIn, PairsIn, Nodes
<1>3. Loopless(ToldNow)'
  BY <1>2 DEF Loopless
<1>4. Closure(ToldNow) \subseteq Closure(ToldNow')
  <2>1. PICK R : R = ToldIn(made, after, Nodes(used, made))
    OBVIOUS
  <2>2. PICK T : T = ToldIn(made', after', Nodes(used', made'))
    OBVIOUS
  <2>3. R \subseteq T
    BY <2>1, <2>2, ToldGrows DEF GraphTypes
  <2>4. R \in SUBSET (Delayables \X Delayables)
    BY <2>1, ToldIsBounded DEF GraphTypes
  <2>5. T \in SUBSET (Delayables \X Delayables)
    BY <2>2, ToldIsBounded
  <2>6. R \subseteq Closure(T)
    BY <2>3, <2>5, ClosureIsLeast
  <2>7. Closure(R) \subseteq Closure(T)
    BY <2>4, <2>5, <2>6, ClosureWithin
  <2> QED
    BY <1>2, <2>1, <2>2, <2>7 DEF ToldNow
<1>5. DependsTold'
  BY <1>4 DEF DependsTold
<1>6. DependsInGraph'
  BY DEF DependsInGraph
<1>7. PerformingIs'
  BY DEF PerformingIs
<1>8. BatchesKept(made, batch, used)'
  BY DEF BatchesKept, BatchesFrom
<1>9. OrderIsKept'
  BY DEF OrderIsKept
<1> QED
  BY <1>1, <1>3, <1>5, <1>6, <1>7, <1>8, <1>9

-----------------------------------------------------------------------------
(* The calls keep the invariant.                                           *)

\* An open caller has room for one more call.
LEMMA RoomForOne ==
    ASSUME GraphIInv, Open
    PROVE  /\ WellMade(used, made, after) /\ outcome = "open"
           /\ made \in Seq(Makes) /\ Len(made) \in Nat /\ Len(made) < MaxCalls
           /\ used \in Nat /\ Units \in Nat /\ used <= Units
<1>1. WellMade(used, made, after)
  BY DEF GraphIInv, GraphTypes
<1>2. made \in Seq(Makes) /\ Len(made) \in Nat /\ used \in Nat /\ Units \in Nat /\ used <= Units /\ MaxCalls \in Nat
  BY <1>1, JobGraphsAssumption DEF WellMade
<1>3. IsFiniteSet(after)
  <2>1. PICK Y : Y = 1 .. Units + MaxCalls
    OBVIOUS
  <2>2. IsFiniteSet(Y)
    <3>1. 1 \in Int /\ Units + MaxCalls \in Int
      BY <1>2
    <3> QED
      BY <2>1, <3>1, FS_Interval
  <2>3. Nodes(used, made) \subseteq Y
    BY <1>1, <1>2, <2>1 DEF Nodes, WellMade
  <2>4. after \in SUBSET (Y \X Y)
    BY <1>1, <2>3 DEF WellMade
  <2>5. IsFiniteSet(Y \X Y)
    BY <2>2, FS_Product
  <2> QED
    BY <2>4, <2>5, FS_Subset
<1>4. Cardinality(after) \in Nat
  BY <1>3, FS_CardinalityType
<1> QED
  BY <1>1, <1>2, <1>4 DEF Open, Calls

\* What the guard of the calls keeps.
LEMMA GuardIs ==
    ASSUME WellMade(used', made', after'), ~Cyclic'
    PROVE  Loopless(ToldIn(made', after', Nodes(used', made')))
<1>1. PICK R : R = ToldIn(made', after', Nodes(used', made'))
  OBVIOUS
<1>2. R \in SUBSET (Delayables \X Delayables)
  BY <1>1, ToldIsBounded
<1>3. ~ \E r \in R : r[1] \in Reached(R, {r[2]})
  BY <1>1, ObjectsWillBe
<1> QED
  BY <1>1, <1>2, <1>3, LooplessIs

\* A chain or a group that is made.
LEMMA MakeStep ==
    ASSUME GraphIInv, NEW kind \in {"chain", "group"}, NEW ps \in SeqOf(Nameable, MaxParts), Len(ps) >= 2,
           Make(kind, ps)
    PROVE  GraphIInv'
<1> USE DEF Make
<1>1. /\ WellMade(used, made, after) /\ outcome = "open"
      /\ made \in Seq(Makes) /\ Len(made) \in Nat /\ Len(made) < MaxCalls
      /\ used \in Nat /\ Units \in Nat /\ used <= Units
  BY RoomForOne
<1>2. ps \in Seq(Nat) /\ Len(ps) \in Nat /\ \A i \in 1 .. Len(ps) : ps[i] \in Nameable
  <2>1. PICK N \in 0 .. MaxParts : ps \in [1 .. N -> Nameable]
    BY DEF SeqOf
  <2>2. N \in Nat
    BY JobGraphsAssumption
  <2>3. Nameable \subseteq Nat
    BY <1>1 DEF Nameable, Objects
  <2>4. ps \in [1 .. N -> Nat]
    BY <2>1, <2>3
  <2>5. Len(ps) = N /\ ps \in Seq(Nat)
    BY <2>2, <2>4
  <2> QED
    BY <2>1, <2>2, <2>5
<1>3. PICK n2 : n2 = used'
  OBVIOUS
<1>4. n2 \in used .. Units /\ \A i \in 1 .. Len(ps) : ps[i] \in 1 .. n2 \cup (Units + 1 .. Units + Len(made))
  BY <1>1, <1>2, <1>3, NamesAreNodes
<1>5. PICK c : c = Composite(kind, ps, 0)
  OBVIOUS
<1>6. /\ c \in Makes /\ Formed(made, c) /\ c.parts = ps /\ c.size = 0
  <2>1. \A i \in 1 .. Len(ps) : ps[i] \in Delayables \cup (Units + 1 .. Units + Len(made))
    <3>1. 1 .. n2 \subseteq Delayables
      BY <1>1, <1>4 DEF Delayables
    <3> QED
      BY <1>4, <3>1
  <2>2. 0 \in 0 .. Records /\ Len(ps) # 0
    BY <1>2, JobGraphsAssumption
  <2> QED
    BY <1>1, <1>2, <1>5, <2>1, <2>2, CompositeIs
<1>7. PartsWithin(c, n2, Units + Len(made))
  BY <1>4, <1>6 DEF PartsWithin
<1>8. made' = Append(made, c) /\ after' = after
  BY <1>5
<1>9. WellMade(n2, Append(made, c), after) /\ Prolongs(used, made, n2, Append(made, c))
  BY <1>1, <1>4, <1>6, <1>7, OneMoreIsMade
<1>10. WellMade(used', made', after') /\ Prolongs(used, made, used', made')
  BY <1>3, <1>8, <1>9
<1>11. Loopless(ToldIn(made', after', Nodes(used', made')))
  BY <1>10, GuardIs
<1>12. BatchesKept(made', batch', used')
  <2>1. BatchesKept(made, batch, used) /\ batch' = batch
    BY DEF GraphIInv
  <2>2. ASSUME NEW i \in 1 .. Len(made'), made'[i].size # 0
        PROVE  \E u \in Nat : BatchesFrom(made', batch', used', i, u)
    <3>1. Len(made') = Len(made) + 1 /\ made'[Len(made) + 1] = c
      BY <1>1, <1>6, <1>8
    <3>2. i \in 1 .. Len(made)
      BY <1>1, <1>6, <2>2, <3>1
    <3>3. made'[i] = made[i]
      BY <1>1, <1>6, <1>8, <3>2
    <3>4. PICK u \in Nat : BatchesFrom(made, batch, used, i, u)
      BY <2>1, <2>2, <3>2, <3>3 DEF BatchesKept
    <3>5. Slices(made[i].size) \in Nat
      <4>1. made[i] \in Makes
        BY <1>1, <3>2
      <4>2. made[i].size \in Nat \ {0}
        BY <2>2, <3>3, <4>1, JobGraphsAssumption DEF Makes
      <4> QED
        BY <4>2, SlicesAreEnough
    <3>6. u + Slices(made[i].size) <= used'
      BY <1>1, <1>3, <1>4, <3>4, <3>5 DEF BatchesFrom
    <3>7. BatchesFrom(made', batch', used', i, u)
      BY <2>1, <3>3, <3>4, <3>6 DEF BatchesFrom
    <3> QED
      BY <3>7
  <2> QED
    BY <2>2 DEF BatchesKept
<1>13. batch' \in [Delayables -> SUBSET (1 .. Records)]
  BY DEF GraphIInv, GraphTypes
<1> QED
  BY <1>1, <1>8, <1>10, <1>11, <1>12, <1>13, JobsAreKept

\* on_done between two objects.
LEMMA OnDoneStep ==
    ASSUME GraphIInv, NEW o \in Nameable, NEW y \in Nameable, OnDone(o, y)
    PROVE  GraphIInv'
<1> USE DEF OnDone
<1>1. /\ WellMade(used, made, after) /\ outcome = "open"
      /\ made \in Seq(Makes) /\ Len(made) \in Nat /\ Len(made) < MaxCalls
      /\ used \in Nat /\ Units \in Nat /\ used <= Units
  BY RoomForOne
<1>2. PICK ps : ps = <<o, y>>
  OBVIOUS
<1>3. ps \in Seq(Nat) /\ Len(ps) = 2 /\ ps[1] = o /\ ps[2] = y /\ \A i \in 1 .. Len(ps) : ps[i] \in Nameable
  <2>1. Nameable \subseteq Nat
    BY <1>1 DEF Nameable, Objects
  <2>2. o \in Nat /\ y \in Nat
    BY <2>1
  <2>3. ps \in Seq(Nat) /\ Len(ps) = 2 /\ ps[1] = o /\ ps[2] = y
    BY <1>2, <2>2
  <2>4. \A i \in 1 .. 2 : i = 1 \/ i = 2
    OBVIOUS
  <2> QED
    BY <2>3, <2>4
<1>4. PICK n2 : n2 = used'
  OBVIOUS
<1>5. n2 \in used .. Units /\ \A i \in 1 .. Len(ps) : ps[i] \in 1 .. n2 \cup (Units + 1 .. Units + Len(made))
  <2>1. Names(ps)
    BY <1>2
  <2>2. used \in 0 .. Units
    BY <1>1
  <2> HIDE DEF OnDone
  <2> QED
    BY <1>3, <1>4, <2>1, <2>2, NamesAreNodes
<1>6. o \in Nodes(n2, made) /\ y \in Nodes(n2, made)
  BY <1>3, <1>5 DEF Nodes
<1>7. PICK a2 : a2 = after \cup {<<o, y>>}
  OBVIOUS
<1>8. Nodes(used, made) \subseteq Nodes(n2, made)
  BY <1>1, <1>5 DEF Nodes
<1>9. WellMade(n2, made, a2)
  <2>1. a2 \in SUBSET (Nodes(n2, made) \X Nodes(n2, made))
    BY <1>1, <1>6, <1>7, <1>8 DEF WellMade
  <2>2. ASSUME NEW i \in 1 .. Len(made)
        PROVE  Formed(made, made[i]) /\ Bounded(made[i], n2) /\ PartsWithin(made[i], n2, Units + i - 1)
    <3>1. Formed(made, made[i]) /\ Bounded(made[i], used) /\ PartsWithin(made[i], used, Units + i - 1)
      BY <1>1 DEF WellMade
    <3>2. 1 .. used \subseteq 1 .. n2
      BY <1>1, <1>5
    <3> QED
      BY <3>1, <3>2 DEF Bounded, PartsWithin
  <2>3. n2 \in 0 .. Units /\ Len(made) <= MaxCalls
    BY <1>1, <1>5 DEF WellMade
  <2> QED
    BY <1>1, <2>1, <2>2, <2>3 DEF WellMade
<1>10. Prolongs(used, made, n2, made)
  BY <1>8 DEF Prolongs
<1>11. after' = a2 /\ made' = made /\ after \subseteq after'
  BY <1>7
<1>12. WellMade(used', made', after') /\ Prolongs(used, made, used', made')
  BY <1>4, <1>9, <1>10, <1>11
<1>13. Loopless(ToldIn(made', after', Nodes(used', made')))
  BY <1>12, GuardIs
<1>14. BatchesKept(made', batch', used')
  <2>1. BatchesKept(made, batch, used) /\ batch' = batch /\ made' = made
    BY DEF GraphIInv
  <2>2. ASSUME NEW i \in 1 .. Len(made), made[i].size # 0
        PROVE  \E u \in Nat : BatchesFrom(made, batch, n2, i, u)
    <3>1. PICK u \in Nat : BatchesFrom(made, batch, used, i, u)
      BY <2>1, <2>2 DEF BatchesKept
    <3>2. Slices(made[i].size) \in Nat
      <4>1. made[i] \in Makes
        BY <1>1
      <4>2. made[i].size \in Nat \ {0}
        BY <2>2, <4>1, JobGraphsAssumption DEF Makes
      <4> QED
        BY <4>2, SlicesAreEnough
    <3>3. u + Slices(made[i].size) <= n2
      BY <1>1, <1>5, <3>1, <3>2 DEF BatchesFrom
    <3>4. BatchesFrom(made, batch, n2, i, u)
      BY <3>1, <3>3 DEF BatchesFrom
    <3> QED
      BY <3>4
  <2>3. BatchesKept(made, batch, n2)
    BY <2>2 DEF BatchesKept
  <2> QED
    BY <1>4, <2>1, <2>3
<1>15. batch' \in [Delayables -> SUBSET (1 .. Records)]
  BY DEF GraphIInv, GraphTypes
<1> QED
  BY <1>1, <1>11, <1>12, <1>13, <1>14, <1>15, JobsAreKept

\* Batches are new delayables: nothing comes before the first nor after the last.
LEMMA SplitIsOrdered ==
    ASSUME NEW n, NEW m, NEW a, WellMade(n, m, a), Loopless(ToldIn(m, a, Nodes(n, m))),
           NEW n2 \in n .. Units, NEW c, WellMade(n2, Append(m, c), a), Prolongs(n, m, n2, Append(m, c)),
           ObjectIn(Append(m, c), Units + Len(m) + 1) = c,
           Nodes(n2, Append(m, c)) = Nodes(n2, m) \cup {Units + Len(m) + 1},
           NEW N \in Nat, n + N <= n2, c.parts = [i \in 1 .. N |-> n + i]
    PROVE  Loopless(ToldIn(Append(m, c), a, Nodes(n2, Append(m, c))))
<1>1. Units \in Nat /\ n \in Nat /\ n2 \in Nat /\ n <= n2 /\ n2 <= Units /\ Len(m) \in Nat
  BY JobGraphsAssumption DEF WellMade
<1>2. PICK m2 : m2 = Append(m, c)
  OBVIOUS
<1>3. PICK R : R = ToldIn(m, a, Nodes(n, m))
  OBVIOUS
<1>4. PICK T : T = ToldIn(m2, a, Nodes(n2, m2))
  OBVIOUS
<1>5. PICK K : K = Closure(R)
  OBVIOUS
<1>6. PICK new : new = {p \in Delayables \X Delayables : n < p[1] /\ p[1] < p[2]}
  OBVIOUS
<1>7. R \in SUBSET ((1 .. n) \X (1 .. n)) /\ R \in SUBSET (Delayables \X Delayables)
  BY <1>3, ToldIsBounded
<1>8. T \in SUBSET (Delayables \X Delayables)
  BY <1>2, <1>4, ToldIsBounded
<1>9. R \subseteq K /\ Transits(K, K)
  BY <1>5, <1>7, ClosureIsLeast
<1>10. K \subseteq (1 .. n) \X (1 .. n)
  <2>1. PICK Q : Q = (1 .. n) \X (1 .. n)
    OBVIOUS
  <2>2. R \subseteq Q /\ Transits(Q, R)
    BY <1>7, <2>1 DEF Transits
  <2> QED
    BY <1>5, <1>7, <2>1, <2>2, ClosureIsLeast
<1>11. ASSUME NEW p \in T PROVE p \in R \/ p \in new
  <2>1. PICK l \in LinksIn(m2, a, Nodes(n2, m2)) :
          p = <<p[1], p[2]>> /\ p[1] \in ObjectIn(m2, l[1]).jobs /\ p[2] \in ObjectIn(m2, l[2]).jobs
    BY <1>2, <1>4, ToldIsBounded
  <2>2. CASE l \in LinksIn(m, a, Nodes(n, m))
    <3>1. l[1] \in Nodes(n, m) /\ l[2] \in Nodes(n, m)
      BY <2>2, LinksAreNodes
    <3>2. ObjectIn(m2, l[1]) = ObjectIn(m, l[1]) /\ ObjectIn(m2, l[2]) = ObjectIn(m, l[2])
      BY <1>2, <3>1 DEF Prolongs
    <3>3. <<p[1], p[2]>> \in R
      BY <1>3, <2>1, <2>2, <3>2, ToldIsBounded
    <3> QED
      BY <2>1, <3>3
  <2>3. CASE l \notin LinksIn(m, a, Nodes(n, m))
    <3>1. l \notin a
      <4>1. SUFFICES ASSUME l \in a PROVE FALSE
        OBVIOUS
      <4>2. l[1] \in Nodes(n, m)
        BY <4>1 DEF WellMade
      <4>3. l \in LinksIn(m, a, Nodes(n, m))
        BY <4>1, <4>2 DEF LinksIn
      <4> QED
        BY <2>3, <4>3
    <3>2. PICK v \in Nodes(n2, m2) : ObjectIn(m2, v).kind = "chain" /\ l \in PairsIn(m2, v)
      BY <2>1, <3>1 DEF LinksIn
    <3>3. v \notin Nodes(n, m)
      <4>1. SUFFICES ASSUME v \in Nodes(n, m) PROVE FALSE
        OBVIOUS
      <4>2. ObjectIn(m2, v) = ObjectIn(m, v)
        BY <1>2, <4>1 DEF Prolongs
      <4>3. ObjectIn(m, v).kind = "chain" /\ l \in PairsIn(m, v)
        BY <3>2, <4>2 DEF PairsIn
      <4>4. l \in LinksIn(m, a, Nodes(n, m))
        BY <4>1, <4>3 DEF LinksIn
      <4> QED
        BY <2>3, <4>4
    <3>4. v > Units
      <4>1. SUFFICES ASSUME v <= Units PROVE FALSE
        BY <1>1, <1>2, <3>2 DEF Nodes
      <4>2. v \in Nat /\ ObjectIn(m2, v) = Alone(v)
        BY <1>1, <1>2, <3>2, <4>1, NodesAreBounded DEF Nodes
      <4>3. Alone(v).kind = "alone"
        BY <4>2, AloneIs
      <4> QED
        BY <3>2, <4>2, <4>3
    <3>5. v = Units + Len(m) + 1
      BY <1>1, <1>2, <3>2, <3>3, <3>4 DEF Nodes
    <3>6. ObjectIn(m2, v) = c
      BY <1>2, <3>5
    <3>7. PICK ps : ps = c.parts
      OBVIOUS
    <3>8. ps = [i \in 1 .. N |-> n + i] /\ Len(ps) = N
      BY <3>7
    <3>9. PICK i \in 1 .. N - 1 : l = <<ps[i], ps[i + 1]>>
      BY <3>2, <3>6, <3>7, <3>8 DEF PairsIn
    <3>10. i \in 1 .. N /\ i + 1 \in 1 .. N
      OBVIOUS
    <3>11. ps[i] = n + i /\ ps[i + 1] = n + i + 1
      BY <1>1, <3>8, <3>10
    <3>12. l[1] = n + i /\ l[2] = n + i + 1 /\ n + i \in 1 .. Units /\ n + i + 1 \in 1 .. Units
      BY <1>1, <3>9, <3>10, <3>11
    <3>13. ObjectIn(m2, l[1]) = Alone(l[1]) /\ ObjectIn(m2, l[2]) = Alone(l[2])
      BY <3>12 DEF ObjectIn
    <3>14. Alone(l[1]).jobs = {l[1]} /\ Alone(l[2]).jobs = {l[2]}
      <4>1. l[1] \in Nat /\ l[2] \in Nat
        BY <1>1, <3>12
      <4> QED
        BY <4>1, AloneIs
    <3>15. p[1] = n + i /\ p[2] = n + i + 1
      BY <2>1, <3>12, <3>13, <3>14
    <3> QED
      BY <1>1, <1>6, <1>8, <3>15
  <2> QED
    BY <2>2, <2>3
<1>12. PICK Q : Q = K \cup new
  OBVIOUS
<1>13. T \subseteq Q
  BY <1>9, <1>11, <1>12
<1>14. ASSUME NEW q \in Q, NEW r \in T, q[2] = r[1] PROVE <<q[1], r[2]>> \in Q
  <2>1. CASE q \in K /\ r \in R
    BY <1>9, <1>12, <1>14, <2>1 DEF Transits
  <2>2. CASE q \in K /\ r \in new
    <3>1. q[2] \in 1 .. n
      BY <1>10, <2>2
    <3>2. n < r[1]
      BY <1>6, <2>2
    <3> QED
      BY <1>1, <1>14, <3>1, <3>2
  <2>3. CASE q \in new /\ r \in R
    <3>1. r[1] \in 1 .. n
      BY <1>7, <2>3
    <3>2. q \in Delayables \X Delayables /\ n < q[1] /\ q[1] < q[2]
      BY <1>6, <2>3
    <3>3. q[1] \in Nat /\ q[2] \in Nat
      BY <3>2 DEF Delayables
    <3> QED
      BY <1>1, <1>14, <3>1, <3>2, <3>3
  <2>4. CASE q \in new /\ r \in new
    <3>1. q \in Delayables \X Delayables /\ n < q[1] /\ q[1] < q[2]
      BY <1>6, <2>4
    <3>2. r \in Delayables \X Delayables /\ n < r[1] /\ r[1] < r[2]
      BY <1>6, <2>4
    <3>3. q[1] \in Delayables /\ r[2] \in Delayables
      BY <3>1, <3>2
    <3>4. q[1] \in Nat /\ q[2] \in Nat /\ r[2] \in Nat
      BY <3>1, <3>2 DEF Delayables
    <3>5. q[1] < r[2]
      BY <1>14, <3>1, <3>2, <3>4
    <3> QED
      BY <1>6, <1>12, <3>1, <3>3, <3>5
  <2> QED
    BY <1>11, <1>12, <2>1, <2>2, <2>3, <2>4
<1>15. Closure(T) \subseteq Q
  <2>1. Transits(Q, T)
    BY <1>14 DEF Transits
  <2> QED
    BY <1>8, <1>13, <2>1, ClosureIsLeast
<1>16. ASSUME NEW p \in Closure(T) PROVE p[1] # p[2]
  <2>1. CASE p \in K
    BY <1>3, <1>5, <2>1 DEF Loopless
  <2>2. CASE p \in new
    <3>1. p[1] \in Nat /\ p[2] \in Nat /\ p[1] < p[2]
      BY <1>6, <2>2 DEF Delayables
    <3> QED
      BY <3>1
  <2> QED
    BY <1>12, <1>15, <2>1, <2>2
<1> QED
  BY <1>2, <1>4, <1>16 DEF Loopless

\* A recordset that is split.
LEMMA SplitStep ==
    ASSUME GraphIInv, NEW kind \in {"chain", "group"}, NEW size \in 1 .. Records, Split(size, kind)
    PROVE  GraphIInv'
<1> USE DEF Split
<1>1. /\ WellMade(used, made, after) /\ outcome = "open"
      /\ made \in Seq(Makes) /\ Len(made) \in Nat /\ Len(made) < MaxCalls
      /\ used \in Nat /\ Units \in Nat /\ used <= Units
  BY RoomForOne
<1>2. size \in Nat \ {0} /\ size \in 0 .. Records
  BY JobGraphsAssumption
<1>3. PICK N \in Nat \ {0} : N = Slices(size)
  BY <1>2, SlicesAreEnough
<1>4. PICK ps : ps = [i \in 1 .. N |-> used + i]
  OBVIOUS
<1>5. ps \in Seq(Nat) /\ Len(ps) = N /\ \A i \in 1 .. Len(ps) : ps[i] = used + i
  BY <1>1, <1>4
<1>6. PICK n2 \in Nat : n2 = used + N
  BY <1>1
<1>7. n2 \in used .. Units /\ used' = n2
  BY <1>1, <1>3, <1>6
<1>8. PICK c : c = Composite(kind, ps, size)
  OBVIOUS
<1>9. c \in Makes /\ Formed(made, c) /\ c.parts = ps /\ c.size = size
  <2>1. \A i \in 1 .. Len(ps) : ps[i] \in Delayables \cup (Units + 1 .. Units + Len(made))
    BY <1>1, <1>5, <1>6, <1>7 DEF Delayables
  <2>2. Len(ps) # 0
    BY <1>5
  <2> HIDE DEF Split
  <2> QED
    BY <1>1, <1>2, <1>5, <1>8, <2>1, <2>2, CompositeIs
<1>10. PartsWithin(c, n2, Units + Len(made))
  BY <1>1, <1>5, <1>6, <1>9 DEF PartsWithin
<1>11. made' = Append(made, c) /\ after' = after
  BY <1>3, <1>4, <1>8
<1>12. PICK m2 : m2 = Append(made, c)
  OBVIOUS
<1>13. /\ WellMade(n2, m2, after) /\ Prolongs(used, made, n2, m2)
       /\ ObjectIn(m2, Units + Len(made) + 1) = c
       /\ Nodes(n2, m2) = Nodes(n2, made) \cup {Units + Len(made) + 1}
  BY <1>1, <1>7, <1>9, <1>10, <1>12, OneMoreIsMade
<1>14. WellMade(used', made', after') /\ Prolongs(used, made, used', made')
  BY <1>7, <1>11, <1>12, <1>13
<1>15. Loopless(ToldIn(made', after', Nodes(used', made')))
  <2>1. Loopless(ToldIn(made, after, Nodes(used, made)))
    BY DEF GraphIInv, ToldNow
  <2>2. used + N <= n2 /\ c.parts = [i \in 1 .. N |-> used + i]
    BY <1>4, <1>6, <1>9
  <2>3. Loopless(ToldIn(m2, after, Nodes(n2, m2)))
    BY <1>1, <1>7, <1>12, <1>13, <2>1, <2>2, SplitIsOrdered
  <2> QED
    BY <1>7, <1>11, <1>12, <2>3
<1>16. PICK b2 : b2 = batch'
  OBVIOUS
<1>17. b2 = [u \in Delayables |-> IF u \in used + 1 .. n2 THEN Slice(size, u - used) ELSE batch[u]]
  BY <1>7, <1>16 DEF Delayables
<1>18. BatchesKept(m2, b2, n2)
  <2>1. BatchesKept(made, batch, used)
    BY DEF GraphIInv
  <2>2. /\ Len(m2) = Len(made) + 1 /\ m2[Len(made) + 1] = c
        /\ \A i \in 1 .. Len(made) : m2[i] = made[i]
    BY <1>1, <1>9, <1>12
  <2>3. ASSUME NEW i \in 1 .. Len(made), made[i].size # 0
        PROVE  \E u \in Nat : BatchesFrom(m2, b2, n2, i, u)
    <3>1. PICK u \in Nat : BatchesFrom(made, batch, used, i, u)
      BY <2>1, <2>3 DEF BatchesKept
    <3>2. PICK k \in Nat : k = Slices(made[i].size)
      <4>1. made[i] \in Makes
        BY <1>1
      <4>2. made[i].size \in Nat \ {0}
        BY <2>3, <4>1, JobGraphsAssumption DEF Makes
      <4> QED
        BY <4>2, SlicesAreEnough
    <3>3. /\ u + k <= used /\ made[i].parts = [j \in 1 .. k |-> u + j]
          /\ \A j \in 1 .. k : batch[u + j] = Slice(made[i].size, j)
      BY <3>1, <3>2 DEF BatchesFrom
    <3>4. \A j \in 1 .. k : b2[u + j] = batch[u + j]
      <4> TAKE j \in 1 .. k
      <4>1. u + j \in Delayables /\ u + j \notin used + 1 .. n2
        BY <1>1, <3>3 DEF Delayables
      <4> QED
        BY <1>17, <4>1
    <3>5. BatchesFrom(m2, b2, n2, i, u)
      <4>1. m2[i] = made[i] /\ u + k <= n2
        BY <1>1, <1>6, <2>2, <3>3
      <4> QED
        BY <3>2, <3>3, <3>4, <4>1 DEF BatchesFrom
    <3> QED
      BY <3>5
  <2>4. BatchesFrom(m2, b2, n2, Len(made) + 1, used)
    <3>1. \A j \in 1 .. N : b2[used + j] = Slice(size, j)
      <4> TAKE j \in 1 .. N
      <4>1. used + j \in Delayables /\ used + j \in used + 1 .. n2 /\ (used + j) - used = j
        BY <1>1, <1>6, <1>7 DEF Delayables
      <4> QED
        BY <1>17, <4>1
    <3>2. used + N <= n2
      BY <1>1, <1>6
    <3>3. m2[Len(made) + 1].size = size /\ m2[Len(made) + 1].parts = [j \in 1 .. N |-> used + j]
      BY <1>4, <1>9, <2>2
    <3> QED
      BY <1>3, <3>1, <3>2, <3>3 DEF BatchesFrom
  <2>5. \A i \in 1 .. Len(m2) : i \in 1 .. Len(made) \/ i = Len(made) + 1
    BY <1>1, <2>2
  <2>6. ASSUME NEW i \in 1 .. Len(m2), m2[i].size # 0 PROVE \E u \in Nat : BatchesFrom(m2, b2, n2, i, u)
    <3>1. CASE i \in 1 .. Len(made)
      BY <2>2, <2>3, <2>6, <3>1
    <3>2. CASE i = Len(made) + 1
      BY <1>1, <2>4, <3>2
    <3> QED
      BY <2>5, <3>1, <3>2
  <2> QED
    BY <2>6 DEF BatchesKept
<1>19. BatchesKept(made', batch', used')
  BY <1>7, <1>11, <1>12, <1>16, <1>18
<1>20. batch' \in [Delayables -> SUBSET (1 .. Records)]
  <2>1. batch \in [Delayables -> SUBSET (1 .. Records)]
    BY DEF GraphIInv, GraphTypes
  <2>2. \A u : Slice(size, u - used) \in SUBSET (1 .. Records)
    BY DEF Slice
  <2> QED
    BY <1>16, <1>17, <2>1, <2>2
<1> QED
  BY <1>1, <1>11, <1>14, <1>15, <1>19, <1>20, JobsAreKept

-----------------------------------------------------------------------------
(* delay, and performing at once.                                          *)

\* Where a set has one member at most, its members are the same.
LEMMA OneIsAlone ==
    ASSUME NEW S, IsFiniteSet(S), ~(Cardinality(S) > 1), NEW x \in S, NEW y \in S
    PROVE  x = y
<1>1. Cardinality(S) \in Nat
  BY FS_CardinalityType
<1>2. IsFiniteSet(S \ {x}) /\ Cardinality(S \ {x}) = Cardinality(S) - 1
  BY FS_RemoveElement
<1>3. Cardinality(S \ {x}) \in Nat
  BY <1>2, FS_CardinalityType
<1>4. Cardinality(S \ {x}) = 0
  BY <1>1, <1>2, <1>3
<1>5. S \ {x} = {}
  BY <1>2, <1>4, FS_EmptySet
<1> QED
  BY <1>5

\* A graph that is not refused has one number, which its jobs with a number share, and
\* none only where it is of one job.
LEMMA NextGraphIs ==
    ASSUME graph \in [Delayables -> Nat], NEW js \in SUBSET Delayables, ~Refused(js)
    PROVE  /\ NextGraph(js) \in Nat
           /\ \A j \in js : graph[j] # 0 => graph[j] = NextGraph(js)
           /\ \A i, j \in js : i # j => NextGraph(js) # 0
<1>1. IsFiniteSet(js)
  BY DelayablesAreFinite, FS_Subset
<1>2. \A S \in SUBSET Delayables : IsFiniteSet(GraphsOf(S)) /\ GraphsOf(S) \in SUBSET (Nat \ {0})
  <2> TAKE S \in SUBSET Delayables
  <2>1. PICK T : T = {graph[j] : j \in S}
    OBVIOUS
  <2>2. PICK f : f = [j \in S |-> graph[j]]
    OBVIOUS
  <2>3. f \in Surjection(S, T)
    BY <2>1, <2>2 DEF Surjection
  <2>4. IsFiniteSet(S)
    BY DelayablesAreFinite, FS_Subset
  <2>5. IsFiniteSet(T)
    BY <2>3, <2>4, FS_Surjection
  <2>6. GraphsOf(S) \subseteq T /\ GraphsOf(S) \in SUBSET (Nat \ {0})
    BY <2>1 DEF GraphsOf
  <2> QED
    BY <2>5, <2>6, FS_Subset
<1>3. PICK G : G = GraphsOf(js)
  OBVIOUS
<1>4. IsFiniteSet(G) /\ G \in SUBSET (Nat \ {0}) /\ Cardinality(G) \in Nat
  BY <1>2, <1>3, FS_CardinalityType
<1>5. \A j \in js : graph[j] # 0 => graph[j] \in G
  BY <1>3 DEF GraphsOf
<1>6. CASE Cardinality(js) = 1
  <2>1. G = {} /\ NextGraph(js) = 0
    BY <1>3, <1>6 DEF Refused, NextGraph
  <2>2. \A i, j \in js : i = j
    BY <1>1, <1>6, OneIsAlone
  <2> QED
    BY <1>5, <2>1, <2>2
<1>7. CASE Cardinality(js) # 1 /\ G # {}
  <2>1. PICK g : g = CHOOSE h \in G : TRUE
    OBVIOUS
  <2>2. NextGraph(js) = g /\ g \in G
    BY <1>3, <1>7, <2>1 DEF NextGraph
  <2>3. ~(Cardinality(G) > 1)
    BY <1>3, <1>7 DEF Refused
  <2>4. \A h \in G : h = g
    BY <1>4, <2>2, <2>3, OneIsAlone
  <2> QED
    BY <1>4, <1>5, <2>2, <2>4
<1>8. CASE Cardinality(js) # 1 /\ G = {}
  <2>1. NextGraph(js) = 1 + Cardinality(GraphsOf(Delayables))
    BY <1>3, <1>8 DEF NextGraph, Delayables
  <2>2. Cardinality(GraphsOf(Delayables)) \in Nat
    BY <1>2, FS_CardinalityType
  <2>3. NextGraph(js) \in Nat \ {0}
    BY <2>1, <2>2
  <2> QED
    BY <1>5, <1>8, <2>3
<1> QED
  BY <1>6, <1>7, <1>8

\* What delay and what is performed at once are about.
LEMMA WholeGraphIs ==
    ASSUME GraphIInv, NEW o \in Objects
    PROVE  /\ o \in Nodes(used, made) /\ WellMade(used, made, after)
           /\ ToldNow \in SUBSET (Delayables \X Delayables)
           /\ JobsFrom(o) \in SUBSET Delayables
           /\ Connected(o) \in SUBSET (JobsFrom(o) \X JobsFrom(o))
           /\ Connected(o) \subseteq ToldNow
           /\ ToldNow \subseteq Closure(ToldNow)
<1>1. o \in Nodes(used, made) /\ WellMade(used, made, after)
  BY ObjectsAre DEF GraphIInv, GraphTypes
<1>2. ToldNow \in SUBSET (Delayables \X Delayables)
  BY <1>1, ToldIsBounded DEF ToldNow
<1>3. JobsFrom(o) \in SUBSET Delayables
  <2>1. Visited(o) \in SUBSET Nodes(used, made)
    BY <1>1, VisitedIsClosed
  <2>2. used \in 0 .. Units /\ Units \in Nat
    BY <1>1, JobGraphsAssumption DEF WellMade
  <2> QED
    BY <2>1, <2>2 DEF JobsFrom, Nodes, IsUnit, Delayables
<1> QED
  BY <1>1, <1>2, <1>3, ConnectedIs, ClosureIsLeast DEF ToldNow

\* Calls that make no object say nothing more.
LEMMA ToldIsKept == UNCHANGED <<used, made, after>> => ToldNow' = ToldNow
  BY DEF ToldNow, ToldIn, LinksIn, ObjectIn, PairsIn, Nodes

\* The steps that leave the jobs as they are, but for what is performed.
LEMMA GraphsAreKept ==
    ASSUME GraphIInv, UNCHANGED <<used, made, after, batch, depends, graph, stored>>,
           last' = 0, outcome # "found", PerformingIs'
    PROVE  GraphIInv'
<1>1. ToldNow' = ToldNow
  BY ToldIsKept
<1>2. GraphTypes'
  BY DEF GraphIInv, GraphTypes
<1>3. Loopless(ToldNow)' /\ DependsTold'
  BY <1>1 DEF GraphIInv, Loopless, DependsTold
<1>4. DependsInGraph'
  BY DEF GraphIInv, DependsInGraph
<1>5. BatchesKept(made, batch, used)'
  BY DEF GraphIInv, BatchesKept, BatchesFrom
<1>6. OrderIsKept'
  BY DEF OrderIsKept
<1> QED
  BY <1>2, <1>3, <1>4, <1>5, <1>6 DEF GraphIInv

\* A graph that is refused changes nothing but what comes of the calls.
LEMMA DelayRaisesStep ==
    ASSUME GraphIInv, NEW o \in Objects, DelayRaises(o)
    PROVE  GraphIInv'
<1>1. UNCHANGED <<used, made, after, batch, depends, graph, stored, direct>> /\ last' = 0
      /\ outcome = "open" /\ outcome' = "raised"
  BY DEF DelayRaises
<1>2. PerformingIs'
  BY <1>1 DEF GraphIInv, PerformingIs
<1> QED
  BY <1>1, <1>2, GraphsAreKept

\* The first jobs of what is performed at once.
LEMMA PerformStep ==
    ASSUME GraphIInv, NEW o \in Objects, Perform(o)
    PROVE  GraphIInv'
<1>1. UNCHANGED <<used, made, after, batch, depends, graph, stored>> /\ last' = 0
      /\ outcome = "open" /\ outcome' = "performing"
  BY DEF Perform
<1>2. PICK E : E = Connected(o)
  OBVIOUS
<1>3. PICK J : J = JobsFrom(o)
  OBVIOUS
<1>4. J \in SUBSET Delayables /\ E \in SUBSET (J \X J) /\ E \subseteq ToldNow
  BY <1>2, <1>3, WholeGraphIs
<1>5. PICK q \in SetToSeqs(J \ {l[2] : l \in E}) :
        direct' = [edges |-> E, queue |-> q, ran |-> <<>>,
                   waits |-> [j \in J |-> Cardinality({l \in E : l[2] = j})]]
  BY <1>2, <1>3 DEF Perform, Roots
<1>6. PICK w : w = [j \in J |-> Cardinality({l \in E : l[2] = j})]
  OBVIOUS
<1>7. Sorted(E, J, q, w, <<>>)
  BY <1>4, <1>6, RootsAreSorted
<1>8. PICK ran : ran = <<>>
  OBVIOUS
<1>9. direct' = [edges |-> E, queue |-> q, waits |-> w, ran |-> ran] /\ Sorted(E, J, q, w, ran)
  BY <1>5, <1>6, <1>7, <1>8
<1>10. Performs(direct', ToldNow)
  BY <1>4, <1>9 DEF Performs
<1>11. PerformingIs'
  <2>1. ToldNow' = ToldNow
    BY <1>1, ToldIsKept
  <2>2. Performs(direct', ToldNow')
    BY <1>10, <2>1
  <2> QED
    BY <1>1, <2>2 DEF PerformingIs
<1> QED
  BY <1>1, <1>11, GraphsAreKept

\* The next of them runs, and lets those run that waited for it alone.
LEMMA PerformNextStep ==
    ASSUME GraphIInv, PerformNext
    PROVE  GraphIInv'
<1>1. UNCHANGED <<used, made, after, batch, depends, graph, stored, last, outcome>> /\ direct.queue # <<>>
  BY DEF PerformNext
<1>2. outcome = "performing" /\ Performs(direct, ToldNow)
  <2>1. NoGraph.queue = <<>>
    BY DEF NoGraph
  <2> QED
    BY <1>1, <2>1 DEF GraphIInv, PerformingIs
<1>3. last' = 0
  BY <1>1, <1>2 DEF GraphIInv, GraphTypes
<1>4. PICK E, J, q, w, ran : /\ direct = [edges |-> E, queue |-> q, waits |-> w, ran |-> ran]
                             /\ Sorted(E, J, q, w, ran)
                             /\ E \subseteq ToldNow
  BY <1>2 DEF Performs
<1>5. direct.edges = E /\ direct.queue = q /\ direct.waits = w /\ direct.ran = ran /\ DOMAIN w = J
  BY <1>4 DEF Sorted
<1>6. PICK h : h = Head(q)
  OBVIOUS
<1>7. PICK nexts : nexts = {l[2] : l \in {k \in E : k[1] = h}}
  OBVIOUS
<1>8. PICK left : left = [i \in J |-> w[i] - (IF i \in nexts THEN 1 ELSE 0)]
  OBVIOUS
<1>9. PICK follows \in SetToSeqs({i \in nexts : left[i] = 0}) :
        direct' = [direct EXCEPT !.queue = Tail(@) \o follows, !.waits = left, !.ran = Append(@, h)]
  <2> DEFINE first == Head(direct.queue)
             after1 == {l[2] : l \in {k \in direct.edges : k[1] = first}}
             rest == [i \in DOMAIN direct.waits |-> direct.waits[i] - (IF i \in after1 THEN 1 ELSE 0)]
  <2>1. \E f \in SetToSeqs({i \in after1 : rest[i] = 0}) :
          direct' = [direct EXCEPT !.queue = Tail(@) \o f, !.waits = rest, !.ran = Append(@, first)]
    BY DEF PerformNext
  <2>2. first = h
    BY <1>5, <1>6
  <2>3. after1 = nexts
    BY <1>5, <1>7, <2>2
  <2> HIDE DEF after1
  <2>4. rest = left
    BY <1>5, <1>8, <2>3
  <2> HIDE DEF first, rest
  <2> QED
    BY <2>1, <2>2, <2>3, <2>4
<1>10. Sorted(E, J, Tail(q) \o follows, left, Append(ran, h))
  <2>1. q # <<>> /\ Sorted(E, J, q, w, ran)
    BY <1>1, <1>4, <1>5
  <2>2. nexts = {l[2] : l \in {k \in E : k[1] = Head(q)}}
    BY <1>6, <1>7
  <2>3. PICK free : free = {i \in nexts : left[i] = 0}
    OBVIOUS
  <2>4. follows \in SetToSeqs(free)
    BY <1>9, <2>3
  <2>5. Frees(E, J, q, w, nexts, left, free)
    BY <1>8, <2>2, <2>3 DEF Frees
  <2>6. Sorted(E, J, Tail(q) \o follows, left, Append(ran, Head(q)))
    BY <2>1, <2>4, <2>5, NextIsSorted
  <2> QED
    BY <1>6, <2>6
<1>11. PICK q2 : q2 = Tail(q) \o follows
  OBVIOUS
<1>12. PICK ran2 : ran2 = Append(ran, h)
  OBVIOUS
<1>13. direct' = [edges |-> E, queue |-> q2, waits |-> left, ran |-> ran2]
  BY <1>4, <1>9, <1>11, <1>12
<1>14. Sorted(E, J, q2, left, ran2)
  BY <1>10, <1>11, <1>12
<1>15. Performs(direct', ToldNow)
  BY <1>4, <1>13, <1>14 DEF Performs
<1>16. PerformingIs'
  <2>1. ToldNow' = ToldNow
    BY <1>1, ToldIsKept
  <2>2. Performs(direct', ToldNow')
    BY <1>15, <2>1
  <2> QED
    BY <1>1, <1>2, <2>2 DEF PerformingIs
<1>17. outcome # "found"
  BY <1>2
<1> QED
  BY <1>1, <1>3, <1>16, <1>17, GraphsAreKept

\* A step of nothing keeps everything.
LEMMA GraphStutters ==
    ASSUME GraphIInv, UNCHANGED graphVars
    PROVE  GraphIInv'
<1> USE DEF graphVars
<1>1. ToldNow' = ToldNow
  BY ToldIsKept
<1>2. GraphTypes'
  BY DEF GraphIInv, GraphTypes
<1>3. Loopless(ToldNow)' /\ DependsTold' /\ DependsInGraph' /\ PerformingIs'
  BY <1>1 DEF GraphIInv, Loopless, DependsTold, DependsInGraph, PerformingIs
<1>4. BatchesKept(made, batch, used)'
  BY DEF GraphIInv, BatchesKept, BatchesFrom
<1>5. OrderIsKept'
  <2>1. OrderIsKept' <=> OrderIsKept
    BY DEF OrderIsKept, Visited, Vertices, Children, Parts, Object, Objects, IsUnit, Turned, Said, Told, Pairs, JobsFrom
  <2> QED
    BY <2>1 DEF GraphIInv
<1> QED
  BY <1>2, <1>3, <1>4, <1>5 DEF GraphIInv

\* delay adds what is connected to what the jobs depend on, and stores them in one graph
\* or finds that they wait already.
LEMMA DelayStep ==
    ASSUME GraphIInv, NEW o \in Objects, Delay(o)
    PROVE  GraphIInv'
<1>1. PICK C : C = Connected(o)
  OBVIOUS
<1>2. PICK J : J = JobsFrom(o)
  OBVIOUS
<1>3. PICK T : T = ToldNow
  OBVIOUS
<1>4. /\ J \in SUBSET Delayables /\ C \in SUBSET (J \X J) /\ C \subseteq T /\ T \subseteq Closure(T)
      /\ T \in SUBSET (Delayables \X Delayables)
      /\ o \in Nodes(used, made) /\ WellMade(used, made, after)
  BY <1>1, <1>2, <1>3, WholeGraphIs
<1>5. /\ outcome = "open" /\ UNCHANGED <<used, made, after, batch, direct>> /\ ~Refused(J)
      /\ \/ outcome' = "found" /\ last' = 0 /\ stored' = stored
         \/ outcome' = "open" /\ last' = o /\ stored' = stored \cup J
  BY <1>2 DEF Delay
<1>6. graph' = [u \in Delayables |-> IF u \in J THEN NextGraph(J) ELSE graph[u]]
  BY <1>2 DEF Delay, Delayables
<1>7. PICK dn : dn = depends'
  OBVIOUS
<1>8. dn = [u \in Delayables |-> depends[u] \cup {l[1] : l \in {k \in C : k[2] = u}}]
  BY <1>1, <1>7 DEF Delay, Delayables
<1>9. \A u \in Delayables : \A p : p \in dn[u] <=> p \in depends[u] \/ <<p, u>> \in C
  <2> TAKE u \in Delayables
  <2> TAKE p
  <2>1. p \in dn[u] <=> p \in depends[u] \/ \E k \in C : k[2] = u /\ p = k[1]
    BY <1>8
  <2>2. \A k \in C : k = <<k[1], k[2]>>
    BY <1>4
  <2>3. ASSUME NEW k \in C, k[2] = u, p = k[1] PROVE <<p, u>> \in C
    BY <2>2, <2>3
  <2> QED
    BY <2>1, <2>3
<1>10. depends \in [Delayables -> SUBSET Delayables] /\ graph \in [Delayables -> Nat] /\ stored \in SUBSET Delayables
       /\ batch \in [Delayables -> SUBSET (1 .. Records)] /\ Loopless(T)
  BY <1>3 DEF GraphIInv, GraphTypes
<1>11. dn \in [Delayables -> SUBSET Delayables]
  <2>1. ASSUME NEW u \in Delayables, NEW p \in dn[u] PROVE p \in Delayables
    <3>1. CASE p \in depends[u]
      BY <1>10, <3>1
    <3>2. CASE <<p, u>> \in C
      BY <1>4, <3>2
    <3> QED
      BY <1>9, <2>1, <3>1, <3>2
  <2> QED
    BY <1>8, <2>1
<1>12. PICK g : g = NextGraph(J)
  OBVIOUS
<1>13. /\ g \in Nat /\ (\A j \in J : graph[j] # 0 => graph[j] = g)
       /\ \A i, j \in J : i # j => g # 0
  BY <1>4, <1>5, <1>10, <1>12, NextGraphIs
<1>14. ToldNow' = T
  BY <1>3, <1>5, ToldIsKept
<1>15. GraphTypes'
  <2>1. depends' \in [Delayables -> SUBSET Delayables]
    BY <1>7, <1>11
  <2>2. graph' \in [Delayables -> Nat]
    BY <1>6, <1>10, <1>12, <1>13
  <2>3. stored' \in SUBSET Delayables
    BY <1>4, <1>5, <1>10
  <2>4. WellMade(used, made, after)'
    BY <1>4, <1>5
  <2> QED
    BY <1>5, <1>10, <2>1, <2>2, <2>3, <2>4 DEF GraphTypes
<1>16. \A u \in Delayables : \A p \in dn[u] : <<p, u>> \in Closure(T)
  <2>1. DependsTold
    BY DEF GraphIInv
  <2> QED
    BY <1>3, <1>4, <1>9, <2>1 DEF DependsTold
<1>17. DependsTold'
  BY <1>7, <1>14, <1>16 DEF DependsTold
<1>18. DependsInGraph'
  <2> SUFFICES ASSUME outcome' # "found", NEW u \in Delayables, NEW p \in dn[u]
               PROVE  u \in stored' /\ p \in stored' /\ graph'[p] = graph'[u] /\ graph'[u] # 0
    BY <1>7 DEF DependsInGraph
  <2>1. stored' = stored \cup J
    BY <1>5
  <2>2. u \in Delayables /\ p \in Delayables
    BY <1>11
  <2>3. CASE p \in depends[u]
    <3>1. u \in stored /\ p \in stored /\ graph[p] = graph[u] /\ graph[u] # 0
      BY <1>5, <2>3 DEF GraphIInv, DependsInGraph
    <3>2. graph'[u] = graph[u] /\ graph'[p] = graph[p]
      BY <1>6, <1>12, <1>13, <2>2, <3>1
    <3> QED
      BY <2>1, <3>1, <3>2
  <2>4. CASE <<p, u>> \in C
    <3>1. p \in J /\ u \in J
      BY <1>4, <2>4
    <3>2. p # u
      <4>1. PICK e : e = <<p, u>>
        OBVIOUS
      <4>2. e \in Closure(T)
        BY <1>4, <2>4, <4>1
      <4>3. e[1] # e[2]
        BY <1>10, <4>2 DEF Loopless
      <4> QED
        BY <4>1, <4>3
    <3>3. graph'[u] = g /\ graph'[p] = g
      BY <1>6, <1>12, <2>2, <3>1
    <3> QED
      BY <1>13, <2>1, <3>1, <3>2, <3>3
  <2> QED
    BY <1>9, <2>3, <2>4
<1>19. PerformingIs'
  BY <1>5 DEF GraphIInv, PerformingIs
<1>20. BatchesKept(made, batch, used)'
  BY <1>5 DEF GraphIInv, BatchesKept, BatchesFrom
<1>21. PICK D : D = UNION {dn[u] \X {u} : u \in J}
  OBVIOUS
<1>22. D \in SUBSET (Delayables \X Delayables) /\ C \subseteq D /\ D \subseteq Closure(T)
  <2>1. ASSUME NEW p \in D PROVE p \in Delayables \X Delayables /\ p \in Closure(T)
    <3>1. PICK u \in J : p \in dn[u] \X {u}
      BY <1>21, <2>1
    <3>2. u \in Delayables /\ p[1] \in dn[u] /\ p = <<p[1], u>>
      BY <1>4, <3>1
    <3> QED
      BY <1>11, <1>16, <3>2
  <2>2. ASSUME NEW p \in C PROVE p \in D
    <3>1. p = <<p[1], p[2]>> /\ p[2] \in J /\ p[2] \in Delayables
      BY <1>4
    <3>2. p[1] \in dn[p[2]]
      BY <1>9, <3>1
    <3> QED
      BY <1>21, <3>1, <3>2
  <2> QED
    BY <2>1, <2>2
<1>23. Closure(D) \subseteq Closure(T)
  BY <1>4, <1>22, ClosureWithin
<1>24. ASSUME Straight(o) PROVE Said(Visited(o)) \subseteq {l \in Closure(D) : l[1] \in J}
  <2>1. Said(Visited(o)) = Closure(ToldIn(made, after, Visited(o)))
    BY ObjectsAre DEF Said
  <2>2. \A p \in Closure(ToldIn(made, after, Visited(o))) : p \in Closure(D) /\ p[1] \in JobsFrom(o)
    BY <1>1, <1>4, <1>22, <1>24, OrderIsReached
  <2> QED
    BY <1>2, <2>1, <2>2
<1>25. Said(Objects) = Closure(T)
  BY <1>3, ObjectsAre DEF Said, ToldNow
<1>26. OrderIsKept'
  <2>1. CASE last' = 0
    BY <2>1 DEF OrderIsKept
  <2>2. CASE last' = o
    <3>1. Visited(last)' = Visited(o)
      BY <1>5, <2>2 DEF Visited, Vertices, Children, Parts, Object, Objects, IsUnit
    <3>2. \A x : Turned(x)' <=> Turned(x)
      BY <1>5 DEF Turned, Object, IsUnit
    <3>3. Said(Objects)' = Said(Objects)
      BY <1>3, <1>14, <1>25, ObjectsWillBe DEF ToldNow, ToldIn, LinksIn, ObjectIn, PairsIn, Nodes
    <3>4. Said(Visited(last))' = Said(Visited(o))
      BY <1>5, <3>1 DEF Said, Told, Pairs, Parts, Object, IsUnit
    <3>5. JobsFrom(last)' = J
      BY <1>2, <3>1 DEF JobsFrom, IsUnit
    <3>6. (\A x \in Visited(o) : ~Turned(x)) => Straight(o)
      <4>1. \A x : Object(x) = ObjectIn(made, x)
        BY ObjectsAre
      <4> QED
        BY <4>1 DEF Straight, Turned
    <3>7. (UNION {depends[u] \X {u} : u \in JobsFrom(last)})' = D
      BY <1>7, <1>21, <3>5
    <3>8. (last # 0 /\ (\A x \in Visited(last) : ~Turned(x)))' =>
             /\ Said(Visited(o)) \subseteq {l \in Closure(D) : l[1] \in J}
             /\ {l \in Closure(D) : l[1] \in J} \subseteq Said(Objects)
      BY <1>23, <1>24, <1>25, <3>1, <3>2, <3>6
    <3> QED
      BY <3>1, <3>3, <3>4, <3>5, <3>7, <3>8 DEF OrderIsKept
  <2> QED
    BY <1>5, <2>1, <2>2
<1> QED
  BY <1>10, <1>14, <1>15, <1>17, <1>18, <1>19, <1>20, <1>26 DEF GraphIInv, Loopless

\* The invariant holds in every state that the calls reach.
THEOREM GraphIInvHolds == GraphSpec => []GraphIInv
<1>1. GraphInit => GraphIInv
  BY GraphInitIs
<1>2. GraphIInv /\ [GraphNext]_graphVars => GraphIInv'
  <2> SUFFICES ASSUME GraphIInv, [GraphNext]_graphVars PROVE GraphIInv'
    OBVIOUS
  <2>1. ASSUME NEW kind \in {"chain", "group"}, NEW ps \in SeqOf(Nameable, MaxParts), Len(ps) >= 2, Make(kind, ps)
        PROVE  GraphIInv'
    BY <2>1, MakeStep
  <2>2. ASSUME NEW kind \in {"chain", "group"}, NEW size \in 1 .. Records, Split(size, kind) PROVE GraphIInv'
    BY <2>2, SplitStep
  <2>3. ASSUME NEW o \in Nameable, NEW y \in Nameable, OnDone(o, y) PROVE GraphIInv'
    BY <2>3, OnDoneStep
  <2>4. ASSUME NEW o \in Objects, Delay(o) PROVE GraphIInv'
    BY <2>4, DelayStep
  <2>5. ASSUME NEW o \in Objects, DelayRaises(o) PROVE GraphIInv'
    BY <2>5, DelayRaisesStep
  <2>6. ASSUME NEW o \in Objects, Perform(o) PROVE GraphIInv'
    BY <2>6, PerformStep
  <2>7. CASE PerformNext
    BY <2>7, PerformNextStep
  <2>8. CASE UNCHANGED graphVars
    BY <2>8, GraphStutters
  <2> QED
    BY <2>1, <2>2, <2>3, <2>4, <2>5, <2>6, <2>7, <2>8 DEF GraphNext
<1> QED
  BY <1>1, <1>2, PTL DEF GraphSpec

\* The invariant holds what the run checks.
LEMMA GraphsFollow == GraphIInv => JobGraphInv
<1> SUFFICES ASSUME GraphIInv PROVE JobGraphInv
  OBVIOUS
<1>1. OrderIsKept
  BY DEF GraphIInv
<1>2. WaitsInsideGraph
  BY DEF GraphIInv, GraphTypes, DependsInGraph, WaitsInsideGraph
<1>3. SplitIsWhole
  BY BatchesAreWhole DEF GraphIInv, GraphTypes
<1>4. PerformedInOrder
  <2>1. CASE outcome # "performing"
    <3>1. direct.ran = <<>>
      BY <2>1 DEF GraphIInv, PerformingIs, NoGraph
    <3>2. Len(direct.ran) = 0
      BY <3>1
    <3> QED
      BY <2>1, <3>2 DEF PerformedInOrder
  <2>2. CASE outcome = "performing"
    <3>1. Performs(direct, ToldNow)
      BY <2>2 DEF GraphIInv, PerformingIs
    <3>2. PICK E, J, q, w, ran : /\ direct = [edges |-> E, queue |-> q, waits |-> w, ran |-> ran]
                                 /\ Sorted(E, J, q, w, ran)
                                 /\ E \subseteq ToldNow
      BY <3>1 DEF Performs
    <3>3. direct.edges = E /\ direct.queue = q /\ direct.waits = w /\ direct.ran = ran
      BY <3>2
    <3>4. /\ ran \in Seq(J) /\ NoTwice(ran) /\ DOMAIN w = J
          /\ \A i \in 1 .. Len(ran) : \A l \in E : l[2] = ran[i] => \E k \in 1 .. i - 1 : ran[k] = l[1]
      BY <3>2 DEF Sorted
    <3>5. ASSUME q = <<>> PROVE ToSet(ran) = DOMAIN w /\ IsInjective(ran)
      <4>1. ToldNow \in SUBSET (Delayables \X Delayables) /\ Loopless(ToldNow)
        BY ToldIsBounded DEF GraphIInv, GraphTypes, ToldNow
      <4>2. Held(ran) = J
        BY <3>2, <3>5, <4>1, SortedIsWhole
      <4>3. DOMAIN ran = 1 .. Len(ran)
        BY <3>4
      <4>4. ToSet(ran) = Held(ran)
        BY <4>3 DEF ToSet, Held
      <4>5. IsInjective(ran)
        BY <3>4, <4>3 DEF IsInjective, NoTwice
      <4> QED
        BY <3>4, <4>2, <4>4, <4>5
    <3> QED
      BY <3>3, <3>4, <3>5 DEF PerformedInOrder
  <2> QED
    BY <2>1, <2>2
<1> QED
  BY <1>1, <1>2, <1>3, <1>4 DEF JobGraphInv

\* Every graph that the calls can make is stored as they say, in one graph, and runs at
\* once in that order; what is split is whole.
THEOREM GraphsAreSound == GraphSpec => []JobGraphInv
  BY GraphIInvHolds, GraphsFollow, PTL
=============================================================================
