----------------------------- MODULE JobQueue -----------------------------
(***************************************************************************)
(* The job queue (queue_job): the table queue_job and its graph of         *)
(* dependencies, the runner with its channels in memory, the HTTP workers  *)
(* that perform the jobs, and the users' buttons.                          *)
(*                                                                         *)
(* A commit on the table notifies the runner (trigger queue_job_notify);   *)
(* the runner reads the row again when it processes the notification, so   *)
(* that notifications are a set of jobs.  A worker locks the job's row of  *)
(* queue_job_lock for as long as it performs it; a killed worker releases  *)
(* it, and the runner then finds the job dead.  A button is a transaction  *)
(* with its snapshot, so it has two steps; a worker's commits are one      *)
(* step each.                                                              *)
(*                                                                         *)
(* Time is abstract: a request that takes more than 10 seconds is a fault, *)
(* and a date to come is past whenever it likes.  Left out: the            *)
(* throttle of channels (0 unless configured), identity keys, the removal  *)
(* of old jobs, and channels more than one level below root.               *)
(***************************************************************************)
EXTENDS Integers, FiniteSetsExt

CONSTANTS
    Jobs, Workers,
    Parents,      \* Parents[j]: the jobs j depends on
    Rank,         \* Rank[j]: its place by priority, creation date and sequence
    Subchannels,  \* the channels below Root
    Root,
    ChannelOf,    \* ChannelOf[j]: the channel configured for the job
    Capacity,     \* Capacity[c]: 0 means unlimited
    Sequential,   \* the channels configured as sequential
    MaxTries,     \* MaxTries[j]: max_retries of the job; 0 means infinite
    MaxRequests,  \* bound: requests to run one job that are on their way
    Graphs,       \* the sets of jobs that may be delayed together
    MaxTroubles,  \* bound: MaxTroubles[g] kills of a worker or of the runner, lost
                  \* or slow requests, uncounted tries, concurrency failures, and
                  \* clicks of users, when g is delayed
    Nobody

Channels == Subchannels \cup {Root}

ASSUME JobQueueAssumption ==
    /\ Parents \in [Jobs -> SUBSET Jobs]
    /\ IsFiniteSet(Jobs)
    /\ Rank \in [Jobs -> Nat] /\ \A j, k \in Jobs : Rank[j] = Rank[k] => j = k
    /\ ChannelOf \in [Jobs -> Channels] /\ Root \notin Subchannels
    /\ Capacity \in [Channels -> Nat] /\ Sequential \subseteq Channels
    /\ \A c \in Sequential : Capacity[c] = 1
    /\ MaxTries \in [Jobs -> Nat] /\ MaxRequests \in Nat
    /\ Graphs \subseteq SUBSET Jobs /\ MaxTroubles \in [Graphs -> Nat]
    /\ \A g \in Graphs, j \in Jobs : j \in g => Parents[j] \subseteq g
    /\ Nobody \notin Workers

VARIABLES
    state, retry, eta,    \* columns of queue_job
    lock,                 \* the worker whose transaction holds the job's lock
    runner,               \* where the runner's loop is
    queue, run, failed,   \* its channels
    fresh,                \* its ChannelJob has the eta of the row
    notified,             \* notifications it has not processed
    requests,             \* GET /queue_job/runjob on their way
    worker,               \* the HTTP workers
    click,                \* the transaction of a user
    troubles,             \* how many are still to come
    finished,             \* how often the effects of a job were committed (history)
    asked,                \* how often a user has asked for it again (history)
    conflicts,            \* how often PostgreSQL refused its transaction (history)
    everDone,             \* it was done once, or set to done (history)
    stale                 \* a release was decided on a view of the table that was no
                          \* longer true, or was never made (history)

tableVars   == <<state, retry, eta>>
channelVars == <<queue, run, failed, fresh>>
historyVars == <<finished, asked, conflicts, everDone, stale>>
jobVars     == <<tableVars, lock, runner, channelVars, notified, requests, worker,
                 click, troubles, historyVars>>

States == {"absent", "wait_dependencies", "pending", "enqueued", "started",
           "done", "cancelled", "failed"}

InFlight == {j \in Jobs : state[j] \in {"enqueued", "started"}}

Idle == [pc |-> "idle"]

\* try: job.retry in memory; ready: the parents it has cached are all done.
Busy(pc, j, try, ready) == [pc |-> pc, job |-> j, try |-> try, ready |-> ready]

NoClick == [kind |-> "none"]

JobInit ==
    /\ state = [j \in Jobs |-> "absent"]
    /\ retry = [j \in Jobs |-> 0]
    /\ eta = [j \in Jobs |-> "none"]
    /\ lock = [j \in Jobs |-> Nobody]
    /\ runner = "down"
    /\ queue = [c \in Channels |-> {}]
    /\ run = [c \in Channels |-> {}]
    /\ failed = [c \in Channels |-> {}]
    /\ fresh = [j \in Jobs |-> TRUE]
    /\ notified = {}
    /\ requests = [j \in Jobs |-> 0]
    /\ worker = [w \in Workers |-> Idle]
    /\ click = NoClick
    /\ troubles = 0
    /\ finished = [j \in Jobs |-> 0]
    /\ asked = [j \in Jobs |-> 0]
    /\ conflicts = [j \in Jobs |-> 0]
    /\ everDone = [j \in Jobs |-> FALSE]
    /\ stale = FALSE

\* Trigger queue_job_notify; nobody listens while the runner is down.
Notify(js) == notified' = IF runner = "down" THEN {} ELSE notified \cup js

\* DelayableGraph.delay: the jobs of a graph are stored in one transaction.
DelayGraph(g) ==
    /\ \A j \in Jobs : state[j] = "absent"
    /\ state' = [j \in Jobs |-> IF j \notin g THEN "absent"
                                ELSE IF Parents[j] = {} THEN "pending" ELSE "wait_dependencies"]
    /\ Notify(g)
    /\ troubles' = MaxTroubles[g]
    /\ UNCHANGED <<retry, eta, lock, runner, channelVars, requests, worker, click, historyVars>>

\* One of the troubles the bound allows.
Trouble(n) == n <= troubles /\ troubles' = troubles - n

-----------------------------------------------------------------------------
(* Channels.                                                               *)

\* From the job's channel down to root.
Path(j) == {ChannelOf[j], Root}

Without(f, j, cs) == [c \in Channels |-> IF c \in cs THEN f[c] \ {j} ELSE f[c]]
With(f, j, cs)    == [c \in Channels |-> IF c \in cs THEN f[c] \cup {j} ELSE f[c]]

\* A job whose eta changed is a new ChannelJob, in no channel yet.
Known(j, f) == fresh[j] /\ j \in f[ChannelOf[j]]

\* Channel.set_pending: into the job's channel, out of the parents.
SetPending(j) ==
    IF Known(j, queue) THEN UNCHANGED <<queue, run, failed>>
    ELSE /\ queue' = With(Without(queue, j, {Root}), j, {ChannelOf[j]})
         /\ run' = Without(run, j, Path(j))
         /\ failed' = Without(failed, j, Path(j))

SetRunning(j) ==
    IF Known(j, run) THEN UNCHANGED <<queue, run, failed>>
    ELSE /\ queue' = Without(queue, j, Path(j))
         /\ run' = With(run, j, Path(j))
         /\ failed' = Without(failed, j, Path(j))

SetFailed(j) ==
    IF Known(j, failed) THEN UNCHANGED <<queue, run, failed>>
    ELSE /\ queue' = Without(queue, j, Path(j))
         /\ run' = Without(run, j, Path(j))
         /\ failed' = With(Without(failed, j, {Root}), j, {ChannelOf[j]})

Forget(j) ==
    /\ queue' = Without(queue, j, Path(j))
    /\ run' = Without(run, j, Path(j))
    /\ failed' = Without(failed, j, Path(j))

\* Variant: a job that is started again keeps its slot.
HandleNotification_KeepsSlot(j) ==
    \/ state[j] = "pending" /\ SetPending(j)
    \/ state[j] \in {"enqueued", "started"} /\ SetRunning(j)
    \/ state[j] = "failed" /\ SetFailed(j)
    \/ /\ state[j] \in {"done", "cancelled", "wait_dependencies", "absent"}
       /\ UNCHANGED <<queue, run, failed>>

\* ChannelManager.notify.  A job that waits for its parents is left where it is,
\* unless its eta changed.
HandleNotification(j) ==
    \/ state[j] \in {"done", "cancelled"} /\ Forget(j)
    \/ state[j] = "pending" /\ SetPending(j)
    \/ state[j] \in {"enqueued", "started"} /\ SetRunning(j)
    \/ state[j] = "failed" /\ SetFailed(j)
    \/ state[j] = "wait_dependencies" /\ ~fresh[j] /\ Forget(j)
    \/ /\ state[j] = "absent" \/ (state[j] = "wait_dependencies" /\ fresh[j])
       /\ UNCHANGED <<queue, run, failed>>

ProcessNotification(j) ==
    /\ runner = "notify"
    /\ j \in notified
    /\ HandleNotification(j)
    /\ fresh' = [fresh EXCEPT ![j] = TRUE]
    /\ notified' = notified \ {j}
    /\ UNCHANGED <<tableVars, lock, runner, requests, worker, click, troubles, historyVars>>

HasCapacity(c) ==
    /\ ~(c \in Sequential /\ failed[c] # {})
    /\ Capacity[c] = 0 \/ Cardinality(run[c]) < Capacity[c]

First(js) == CHOOSE j \in js : \A k \in js : Rank[j] <= Rank[k]

Ready(c) == {j \in queue[c] : eta[j] # "future"}

\* A sequential channel waits for a job with an eta that comes before.
WaitsForEta(c) ==
    /\ c \in Sequential /\ Ready(c) # {}
    /\ \E j \in queue[c] \ Ready(c) : Rank[j] < Rank[First(Ready(c))]

Before(j, c) == {k \in Ready(c) : Rank[k] < Rank[j]}

\* The jobs a channel gives to root: the first ones, within its capacity.
Yielded(c) ==
    IF ~HasCapacity(c) \/ WaitsForEta(c) THEN {}
    ELSE {j \in Ready(c) :
             Capacity[c] # 0 => Cardinality(run[c]) + Cardinality(Before(j, c)) < Capacity[c]}

\* Channel.get_jobs_to_run: the channels are emptied into root first.
EnterRun ==
    /\ runner = "notify"
    /\ notified = {}
    /\ LET all == UNION {Yielded(c) : c \in Subchannels} IN
       /\ queue' = [c \in Channels |-> IF c = Root THEN queue[c] \cup all
                                       ELSE queue[c] \ all]
       /\ run' = [c \in Channels |-> IF c = Root THEN run[c] ELSE run[c] \cup Yielded(c)]
       /\ fresh' = [j \in Jobs |-> fresh[j] /\ ~(j \in all /\ eta[j] = "past")]
    /\ runner' = "run"
    /\ UNCHANGED <<tableVars, lock, failed, notified, requests, worker, click, troubles,
                   historyVars>>

CanDispatch == HasCapacity(Root) /\ Ready(Root) # {} /\ ~WaitsForEta(Root)

\* QueueJobRunner.run_jobs: the row is written whatever its state is now.
Dispatch ==
    /\ runner = "run"
    /\ CanDispatch
    /\ LET j == First(Ready(Root)) IN
       /\ requests[j] < MaxRequests
       /\ queue' = Without(queue, j, {Root})
       /\ run' = With(run, j, {Root})
       /\ fresh' = [fresh EXCEPT ![j] = @ /\ eta[j] # "past"]
       /\ state' = [state EXCEPT ![j] = "enqueued"]
       /\ requests' = [requests EXCEPT ![j] = @ + 1]
       /\ Notify({j})
    /\ UNCHANGED <<retry, eta, lock, runner, failed, worker, click, troubles, historyVars>>

-----------------------------------------------------------------------------
(* The runner starts, recovers and stops.                                  *)

\* Variant: the jobs that are already running are not read.
Loaded_PendingOnly == {j \in Jobs : state[j] \in {"pending", "failed"}}

\* initialize_databases reads the jobs that are not done.
Loaded == {j \in Jobs : state[j] \in {"pending", "enqueued", "started", "failed"}}

\* It listens first, then reads: nothing is missed in between.
StartRunner ==
    /\ runner = "down"
    /\ runner' = "started"
    /\ LET In(c, st) == {j \in Loaded : state[j] \in st /\ ChannelOf[j] = c}
           Running(c) == {j \in Loaded : state[j] \in {"enqueued", "started"} /\ c \in Path(j)}
       IN /\ queue' = [c \in Channels |-> In(c, {"pending"})]
          /\ run' = [c \in Channels |-> Running(c)]
          /\ failed' = [c \in Channels |-> In(c, {"failed"})]
    /\ fresh' = [j \in Jobs |-> TRUE]
    /\ notified' = {}
    /\ UNCHANGED <<tableVars, lock, requests, worker, click, troubles, historyVars>>

\* A killed runner, or a lost connection: close_databases, then again.
StopRunner ==
    /\ runner # "down"
    /\ Trouble(1)
    /\ runner' = "down"
    /\ notified' = {}
    /\ queue' = [c \in Channels |-> {}]
    /\ run' = [c \in Channels |-> {}]
    /\ failed' = [c \in Channels |-> {}]
    /\ fresh' = [j \in Jobs |-> TRUE]
    /\ UNCHANGED <<tableVars, lock, requests, worker, click, historyVars>>

TooManyTries(j) == MaxTries[j] # 0 /\ retry[j] > MaxTries[j]

\* Variant: a lock that is held does not matter.
Dead_Locked == InFlight

\* Variant: a job whose request was lost is not found.
Dead_StartedOnly == {j \in InFlight : lock[j] = Nobody /\ state[j] = "started"}

\* Enqueued or started, and not locked by a worker.
Dead == {j \in InFlight : lock[j] = Nobody}

\* On their way to a worker, which takes longer than 10 seconds.
Slow == {j \in Dead : \/ requests[j] > 0
                     \/ \E w \in Workers : worker[w].pc = "locking" /\ worker[w].job = j}

\* A turn of the loop begins: requeue_dead_jobs takes those that were enqueued
\* more than 10 seconds ago.
RequeueDead(js) ==
    /\ runner = "started" \/ (runner = "run" /\ ~CanDispatch)
    /\ js \subseteq Dead
    /\ Trouble(Cardinality(js \cap Slow))
    /\ state' = [j \in Jobs |-> IF j \notin js THEN state[j]
                                ELSE IF TooManyTries(j) THEN "failed" ELSE "pending"]
    /\ retry' = [j \in Jobs |-> IF j \in js /\ state[j] = "started" THEN retry[j] + 1
                                ELSE retry[j]]
    /\ Notify(js)
    /\ runner' = "notify"
    /\ UNCHANGED <<eta, lock, channelVars, requests, worker, click, historyVars>>

-----------------------------------------------------------------------------
(* Workers.                                                                *)

ParentsDone(j, st) == \A p \in Parents[j] : st[p] = "done"

\* RunJobController._acquire_job, to its commit.  A row that a user's
\* transaction is writing is skipped.
Acquire(w, j) ==
    /\ worker[w].pc = "idle"
    /\ requests[j] > 0
    /\ requests' = [requests EXCEPT ![j] = @ - 1]
    /\ \/ /\ state[j] = "enqueued"
          /\ state' = [state EXCEPT ![j] = "started"]
          /\ worker' = [worker EXCEPT ![w] = Busy("locking", j, retry[j], ParentsDone(j, state))]
          /\ Notify({j})
       \/ /\ state[j] # "enqueued" \/ (click.kind # "none" /\ click.job = j)
          /\ UNCHANGED <<state, worker, notified>>
    /\ UNCHANGED <<retry, eta, lock, runner, channelVars, click, troubles, historyVars>>

\* Variant: the lock is not tried.
CanLock_Always(j) == state[j] = "started"

CanLock(j) == state[j] = "started" /\ lock[j] = Nobody

\* Job.lock: a job that is no longer started, or locked, is abandoned.
TakeLock(w) ==
    /\ worker[w].pc = "locking"
    /\ LET j == worker[w].job IN
       IF CanLock(j)
       THEN /\ lock' = [lock EXCEPT ![j] = w]
            /\ worker' = [worker EXCEPT ![w].pc = "performing"]
       ELSE /\ worker' = [worker EXCEPT ![w] = Idle]
            /\ UNCHANGED lock
    /\ UNCHANGED <<tableVars, runner, channelVars, notified, requests, click, troubles,
                   historyVars>>

\* _try_perform_job: the effects of the job and its new state, in one commit.
PerformDone(w) ==
    /\ worker[w].pc = "performing"
    /\ LET j == worker[w].job IN
       /\ state' = [state EXCEPT ![j] = "done"]
       /\ retry' = [retry EXCEPT ![j] = worker[w].try + 1]
       /\ lock' = [lock EXCEPT ![j] = Nobody]
       /\ finished' = [finished EXCEPT ![j] = @ + 1]
       /\ everDone' = [everDone EXCEPT ![j] = TRUE]
       /\ worker' = [worker EXCEPT ![w].pc = "releasing"]
       /\ Notify({j})
    /\ UNCHANGED <<eta, runner, channelVars, requests, click, troubles, asked, conflicts, stale>>

\* Job.perform: the last try fails.
TriesLeft(j, try) == MaxTries[j] = 0 \/ try < MaxTries[j]

\* retry_postpone, by another connection; no parent is read again.
Postpone(w, try) ==
    LET j == worker[w].job IN
    /\ state' = [state EXCEPT ![j] = IF worker[w].ready THEN "pending" ELSE "wait_dependencies"]
    /\ retry' = [retry EXCEPT ![j] = try]
    /\ eta' = [eta EXCEPT ![j] = "future"]
    /\ fresh' = [fresh EXCEPT ![j] = FALSE]
    /\ Notify({j})
    /\ stale' = (stale \/ worker[w].ready # ParentsDone(j, state))

\* A retryable error: postponed, the lock still held.  ignored: the error says that
\* this try does not count.
PerformRetry(w, ignored) ==
    /\ worker[w].pc = "performing"
    /\ LET try == worker[w].try + IF ignored THEN 0 ELSE 1 IN
       /\ IF ignored THEN Trouble(1)
          ELSE TriesLeft(worker[w].job, try) /\ UNCHANGED troubles
       /\ Postpone(w, try)
    /\ worker' = [worker EXCEPT ![w].pc = "closing"]
    /\ UNCHANGED <<lock, runner, queue, run, failed, requests, click, finished, asked,
                   conflicts, everDone>>

\* A concurrency failure of PostgreSQL, which ends the transaction and its lock: made a
\* retryable error outside Job.perform, postponed whatever max_retries says.
PerformConflict(w) ==
    /\ worker[w].pc = "performing"
    /\ Trouble(1)
    /\ Postpone(w, worker[w].try + 1)
    /\ conflicts' = [conflicts EXCEPT ![worker[w].job] = @ + 1]
    /\ lock' = [lock EXCEPT ![worker[w].job] = Nobody]
    /\ worker' = [worker EXCEPT ![w] = Idle]
    /\ UNCHANGED <<runner, queue, run, failed, requests, click, finished, asked, everDone>>

\* Any other error, or a retryable one on the last try.
PerformFail(w) ==
    /\ worker[w].pc = "performing"
    /\ LET j == worker[w].job IN
       /\ state' = [state EXCEPT ![j] = "failed"]
       /\ retry' = [retry EXCEPT ![j] = worker[w].try + 1]
       /\ Notify({j})
    /\ worker' = [worker EXCEPT ![w].pc = "closing"]
    /\ UNCHANGED <<eta, lock, runner, channelVars, requests, click, troubles, historyVars>>

\* The transaction of the job is rolled back, and its lock released.
Close(w) ==
    /\ worker[w].pc = "closing"
    /\ lock' = [j \in Jobs |-> IF lock[j] = w THEN Nobody ELSE lock[j]]
    /\ worker' = [worker EXCEPT ![w] = Idle]
    /\ UNCHANGED <<tableVars, runner, channelVars, notified, requests, click, troubles,
                   historyVars>>

\* Variant: a child is released by its first parent that is done.
Released_ByOne(j, st) ==
    {k \in Jobs : j \in Parents[k] /\ st[k] = "wait_dependencies"}

\* Variant: a child with several parents is not released.
Released_OnlyParent(j, st) ==
    {k \in Jobs : Parents[k] = {j} /\ st[k] = "wait_dependencies" /\ ParentsDone(k, st)}

\* Job.enqueue_waiting: the children whose parents are all done, as st shows them.
Released(j, st) ==
    {k \in Jobs : j \in Parents[k] /\ st[k] = "wait_dependencies" /\ ParentsDone(k, st)}

\* _enqueue_dependent_jobs, in a transaction of its own after the commit.
ReleaseChildren(w) ==
    /\ worker[w].pc = "releasing"
    /\ LET ks == Released(worker[w].job, state) IN
       /\ state' = [j \in Jobs |-> IF j \in ks THEN "pending" ELSE state[j]]
       /\ Notify(ks)
    /\ worker' = [worker EXCEPT ![w] = Idle]
    /\ UNCHANGED <<retry, eta, lock, runner, channelVars, requests, click, troubles,
                   historyVars>>

\* A worker is killed: PostgreSQL ends its transaction.
KillWorker(w) ==
    /\ worker[w].pc # "idle"
    /\ Trouble(1)
    /\ stale' = (stale \/ worker[w].pc = "releasing")
    /\ lock' = [j \in Jobs |-> IF lock[j] = w THEN Nobody ELSE lock[j]]
    /\ worker' = [worker EXCEPT ![w] = Idle]
    /\ UNCHANGED <<tableVars, runner, channelVars, notified, requests, click,
                   finished, asked, conflicts, everDone>>

LoseRequest(j) ==
    /\ requests[j] > 0
    /\ Trouble(1)
    /\ requests' = [requests EXCEPT ![j] = @ - 1]
    /\ UNCHANGED <<tableVars, lock, runner, channelVars, notified, worker, click,
                   historyVars>>

-----------------------------------------------------------------------------
(* Users' buttons, and time.                                               *)

Clickable(kind) ==
    CASE kind = "done"    -> {"wait_dependencies", "pending", "enqueued", "failed"}
      [] kind = "cancel"  -> {"pending", "enqueued", "failed"}
      [] kind = "requeue" -> {"failed", "done", "cancelled"}

\* The transaction reads its snapshot of the table.
Click(kind, j) ==
    /\ click.kind = "none"
    /\ state[j] \in Clickable(kind)
    /\ Trouble(1)
    /\ click' = [kind |-> kind, job |-> j, seen |-> state]
    /\ UNCHANGED <<tableVars, lock, runner, channelVars, notified, requests, worker,
                   historyVars>>

Cancelled(j, st) ==
    {k \in Jobs : /\ j \in Parents[k] /\ st[k] = "wait_dependencies"
                  /\ \A p \in Parents[k] : st[p] = "cancelled"}

\* The table of now would release other children, or the job itself.
Outdated(j) ==
    \/ /\ click.kind = "done"
       /\ Released(j, [click.seen EXCEPT ![j] = "done"]) # Released(j, [state EXCEPT ![j] = "done"])
    \/ click.kind = "requeue" /\ ParentsDone(j, click.seen) # ParentsDone(j, state)

\* _change_job_state, decided on the snapshot.  A row written since then makes
\* the transaction fail, and its request run again: the user's click is lost here.
CommitClick ==
    /\ click.kind # "none"
    /\ LET j == click.job
           st == [click.seen EXCEPT ![j] =
                    CASE click.kind = "done" -> "done"
                      [] click.kind = "cancel" -> "cancelled"
                      [] click.kind = "requeue" /\ ParentsDone(j, click.seen) -> "pending"
                      [] OTHER -> "wait_dependencies"]
           ks == CASE click.kind = "done" -> Released(j, st)
                   [] click.kind = "cancel" -> Cancelled(j, st)
                   [] OTHER -> {}
       IN IF \A k \in ks \cup {j} : state[k] = click.seen[k]
          THEN /\ state' = [k \in Jobs |-> IF k = j THEN st[j]
                                           ELSE IF k \notin ks THEN state[k]
                                           ELSE IF click.kind = "done" THEN "pending"
                                           ELSE "cancelled"]
               /\ retry' = [retry EXCEPT ![j] = IF click.kind = "requeue" THEN 0 ELSE @]
               /\ Notify(ks \cup {j})
               /\ asked' = [asked EXCEPT ![j] = IF click.kind = "requeue" THEN @ + 1 ELSE @]
               /\ everDone' = [everDone EXCEPT ![j] = @ \/ click.kind = "done"]
               /\ stale' = (stale \/ Outdated(j))
          ELSE UNCHANGED <<state, retry, notified, asked, everDone, stale>>
    /\ click' = NoClick
    /\ UNCHANGED <<eta, lock, runner, channelVars, requests, worker, troubles, finished,
                   conflicts>>

PassEta(j) ==
    /\ eta[j] = "future"
    /\ eta' = [eta EXCEPT ![j] = "past"]
    /\ UNCHANGED <<state, retry, lock, runner, channelVars, notified, requests, worker, click,
                   troubles, historyVars>>

-----------------------------------------------------------------------------
RunnerStep ==
    \/ StartRunner \/ EnterRun \/ Dispatch
    \/ \E js \in SUBSET Dead : RequeueDead(js)
    \/ \E j \in Jobs : ProcessNotification(j)

WorkerStep(w) ==
    \/ \E j \in Jobs : Acquire(w, j)
    \/ TakeLock(w) \/ PerformDone(w) \/ PerformFail(w) \/ Close(w) \/ ReleaseChildren(w)
    \/ PerformConflict(w)
    \/ \E ignored \in BOOLEAN : PerformRetry(w, ignored)

Fault ==
    \/ StopRunner
    \/ \E w \in Workers : KillWorker(w)
    \/ \E j \in Jobs : LoseRequest(j)

UserStep ==
    \/ CommitClick
    \/ \E g \in Graphs : DelayGraph(g)
    \/ \E kind \in {"done", "cancel", "requeue"}, j \in Jobs : Click(kind, j)

JobNext ==
    \/ RunnerStep
    \/ \E w \in Workers : WorkerStep(w)
    \/ Fault
    \/ UserStep
    \/ \E j \in Jobs : PassEta(j)

JobSpec == JobInit /\ [][JobNext]_jobVars

\* The loop of the runner goes on, and finds dead jobs once they are 10 seconds
\* old; a worker goes on with what it has begun, and takes requests; time passes.
JobFairness ==
    /\ WF_jobVars(RunnerStep)
    /\ SF_jobVars(RequeueDead(Dead \ Slow))
    /\ WF_jobVars(\E w \in Workers : WorkerStep(w))
    /\ \A w \in Workers : WF_jobVars(worker[w].pc # "idle" /\ WorkerStep(w))
    /\ \A j \in Jobs : WF_jobVars(PassEta(j))
    /\ WF_jobVars(CommitClick)

JobFairSpec == JobSpec /\ JobFairness

-----------------------------------------------------------------------------
(* Properties.                                                             *)

\* Types of the table, the channels and the workers.  A job has at most two tries
\* more than its limit, those of a dead job that is found after its last and fails then,
\* and one for every concurrency failure.
JobTypeOK ==
    /\ state \in [Jobs -> States]
    /\ \A j \in Jobs : retry[j] \in Nat /\ (MaxTries[j] # 0 => retry[j] <= MaxTries[j] + 2 + conflicts[j])
    /\ eta \in [Jobs -> {"none", "future", "past"}]
    /\ lock \in [Jobs -> Workers \cup {Nobody}]
    /\ runner \in {"down", "started", "notify", "run"}
    /\ queue \in [Channels -> SUBSET Jobs]
    /\ run \in [Channels -> SUBSET Jobs]
    /\ failed \in [Channels -> SUBSET Jobs]
    /\ notified \in SUBSET Jobs
    /\ \A j \in Jobs : requests[j] \in 0 .. MaxRequests

\* The effects of a job are committed at most once each time it is asked for,
\* whatever is killed, lost, late or started twice (controllers/main.py).
AtMostOnce == \A j \in Jobs : finished[j] <= 1 + asked[j]

\* Two workers never perform the same job at once (Job.lock).
Exclusive ==
    \A v, w \in Workers :
        /\ v # w
        /\ worker[v].pc = "performing" /\ worker[w].pc = "performing"
        => worker[v].job # worker[w].job

\* A job is not performed before each of its parents has been done at least once
\* (README of queue_job: "When and only when all the jobs of the group [A] are
\* executed, the jobs of the group [B] are executed").
ChildAfterParents ==
    \A w \in Workers : worker[w].pc = "performing" =>
        \A p \in Parents[worker[w].job] : everDone[p]

\* The jobs that are enqueued or started in the table are never more than a
\* channel's capacity, whatever the runner has lost of its memory (Channel).
CapacityRespected ==
    \A c \in Channels : Capacity[c] # 0 =>
        Cardinality({j \in InFlight : c \in Path(j)}) <= Capacity[c]

\* What the runner holds of a job is what the table says, unless a notification
\* is to come, or the job waits for its parents: no pending job is forgotten and
\* no slot is kept by a job that does not run (ChannelManager.notify).
ChannelsAgree ==
    runner # "down" => \A j \in Jobs \ notified :
        LET c == ChannelOf[j] IN
        state[j] # "wait_dependencies" =>
            /\ j \in queue[c] \cup queue[Root] <=> state[j] = "pending"
            /\ j \in run[Root] <=> j \in InFlight
            /\ j \in failed[c] <=> state[j] = "failed"

\* A child whose parents are all done is released, or about to be, unless someone
\* decided on a view of the table that another commit had outdated (enqueue_waiting).
ChildIsReleased ==
    \A j \in Jobs : state[j] = "wait_dependencies" /\ ParentsDone(j, state) =>
        \/ stale
        \/ \E w \in Workers : worker[w].pc = "releasing" /\ worker[w].job \in Parents[j]

Settled(j) == state[j] \in {"absent", "wait_dependencies", "done", "failed", "cancelled"}

\* Once nothing more goes wrong every job comes to rest: done, failed, cancelled,
\* waiting for its parents, or behind a failed job in a sequential channel.
JobsSettle ==
    []<>(\A j \in Jobs : Settled(j) \/ (ChannelOf[j] \in Sequential /\ failed[ChannelOf[j]] # {}))

\* The invariant of the table, the workers and the runner's memory: types, one worker for
\* a job, capacities, the agreement of memory and table, and the order of a graph's jobs.
JobInv == JobTypeOK /\ Exclusive /\ CapacityRespected /\ ChannelsAgree /\ ChildAfterParents
=============================================================================
