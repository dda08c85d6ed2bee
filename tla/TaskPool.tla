------------------------------- MODULE TaskPool -------------------------------
(***************************************************************************)
(* RtTaskPool: threads that push tasks, worker threads that poll for them, *)
(* and the owner, which pushes too, pauses, resumes and at last waits for  *)
(* the pool to run dry.  The counts are tested without the lock.           *)
(***************************************************************************)
EXTENDS Integers, Sequences, FiniteSets

CONSTANTS
    Workers,       \* the pool's threads: 1..max_thread_num
    Pushers,       \* the threads that push
    Owner,         \* the one that waits
    Quota,         \* how many tasks each of them pushes
    max_task_num,
    MaxPauses,     \* bound on the pauses
    NULL

VARIABLES
    pool,      \* state: "running", "pausing", "waiting"; "none" before, "freed" after
    cur,       \* cur_task_num
    busy,      \* busy_task_num
    tasks,     \* the deque
    wpc,       \* per worker: where it is
    task,      \* per worker: the task it has
    seen,      \* per worker: the busy_task_num that it read
    ppc,       \* per pusher: where it is
    made,      \* per pusher: how many tasks it made
    accepted,  \* the tasks that push() took
    ran,       \* how often each task was run
    joined,    \* how many workers wait() has joined
    pauses

pushVars == <<ppc, made, accepted>>
workVars == <<wpc, task, seen, busy, ran>>
poolVars == <<pool, cur, tasks, pushVars, workVars, joined, pauses>>

Tasks == Pushers \X (1..Quota)
Made(p) == <<p, made[p]>>

PoolInit ==
    /\ pool = "none" /\ cur = 0 /\ busy = 0 /\ tasks = <<>>
    /\ wpc = [w \in Workers |-> "unborn"] /\ task = [w \in Workers |-> NULL]
    /\ seen = [w \in Workers |-> 0]
    /\ ppc = [p \in Pushers |-> "idle"] /\ made = [p \in Pushers |-> 0]
    /\ accepted = {} /\ ran = [t \in Tasks |-> 0]
    /\ joined = 0 /\ pauses = 0

PushTo(p, label) == ppc' = [ppc EXCEPT ![p] = label]
WorkTo(w, label) == wpc' = [wpc EXCEPT ![w] = label]

(* It starts the workers one after the other, and they run at once.        *)
rt_taskpool_init ==
    /\ \E w \in Workers :
        /\ wpc[w] = "unborn" /\ \A v \in 1..(w - 1) : wpc[v] # "unborn"
        /\ WorkTo(w, "test")
    /\ pool' = "running"
    /\ UNCHANGED <<cur, tasks, pushVars, task, seen, busy, ran, joined, pauses>>

Started == \A w \in Workers : wpc[w] # "unborn"

-----------------------------------------------------------------------------
(* rt_taskpool_push(): the state is tested, the count is tested until it   *)
(* is not the maximum, and then the task is queued under the lock.         *)

(* A refused task stays with its caller.                                   *)
TestState(p) ==
    /\ ppc[p] = "idle" /\ made[p] < Quota /\ Started /\ pool # "freed"
    /\ made' = [made EXCEPT ![p] = @ + 1]
    /\ PushTo(p, IF pool = "running" THEN "full?" ELSE "idle")
    /\ UNCHANGED <<pool, cur, tasks, accepted, workVars, joined, pauses>>

TestRoom(p) ==
    /\ ppc[p] = "full?" /\ cur # max_task_num
    /\ PushTo(p, "push")
    /\ UNCHANGED <<pool, cur, tasks, made, accepted, workVars, joined, pauses>>

Push(p) ==
    /\ ppc[p] = "push"
    /\ \/ tasks' = Append(tasks, Made(p))     \* rt_taskpool_push_tail()
       \/ tasks' = <<Made(p)>> \o tasks       \* rt_taskpool_push_head()
    /\ cur' = cur + 1
    /\ accepted' = accepted \union {Made(p)}
    /\ PushTo(p, "idle")
    /\ UNCHANGED <<pool, made, workVars, joined, pauses>>

-----------------------------------------------------------------------------
(* rt_taskpool_loop().                                                     *)

(* Mutant: a pool that is waited for is left although it has tasks.        *)
WorkerLeavesEarly(w) ==
    /\ wpc[w] = "test" /\ pool = "waiting"
    /\ WorkTo(w, "done")
    /\ UNCHANGED <<pool, cur, tasks, pushVars, task, seen, busy, ran, joined, pauses>>

WorkerLeaves(w) ==
    /\ wpc[w] = "test" /\ pool = "waiting" /\ cur = 0
    /\ WorkTo(w, "done")
    /\ UNCHANGED <<pool, cur, tasks, pushVars, task, seen, busy, ran, joined, pauses>>

(* While the pool runs and is empty the worker sleeps and tests again; in  *)
(* every other case it goes on to the lock.                                *)
WorkerGoesOn(w) ==
    /\ wpc[w] = "test"
    /\ ~(pool \in {"waiting", "running"} /\ cur = 0)
    /\ WorkTo(w, "pop")
    /\ UNCHANGED <<pool, cur, tasks, pushVars, task, seen, busy, ran, joined, pauses>>

(* Under the lock: a worker that finds no task sleeps and starts over.     *)
Pop(w) ==
    /\ wpc[w] = "pop"
    /\ IF tasks # <<>>
       THEN /\ task' = [task EXCEPT ![w] = Head(tasks)] /\ tasks' = Tail(tasks)
            /\ cur' = cur - 1 /\ busy' = busy + 1 /\ WorkTo(w, "run")
       ELSE WorkTo(w, "test") /\ UNCHANGED <<task, tasks, cur, busy>>
    /\ UNCHANGED <<pool, pushVars, seen, ran, joined, pauses>>

Run(w) ==
    /\ wpc[w] = "run" /\ WorkTo(w, "read")
    /\ ran' = [ran EXCEPT ![task[w]] = @ + 1]
    /\ UNCHANGED <<pool, cur, tasks, pushVars, task, seen, busy, joined, pauses>>

(* busy_task_num-- without the lock: it is read, and written.              *)
ReadBusy(w) ==
    /\ wpc[w] = "read" /\ WorkTo(w, "write")
    /\ seen' = [seen EXCEPT ![w] = busy]
    /\ UNCHANGED <<pool, cur, tasks, pushVars, task, busy, ran, joined, pauses>>

WriteBusy(w) ==
    /\ wpc[w] = "write" /\ WorkTo(w, "test")
    /\ busy' = seen[w] - 1 /\ seen' = [seen EXCEPT ![w] = 0]
    /\ task' = [task EXCEPT ![w] = NULL]
    /\ UNCHANGED <<pool, cur, tasks, pushVars, ran, joined, pauses>>

-----------------------------------------------------------------------------
(* The owner.                                                              *)

rt_taskpool_pause ==
    /\ ppc[Owner] = "idle" /\ Started /\ pool = "running" /\ pauses < MaxPauses
    /\ pool' = "pausing" /\ pauses' = pauses + 1
    /\ UNCHANGED <<cur, tasks, pushVars, workVars, joined>>

rt_taskpool_resume ==
    /\ ppc[Owner] = "idle" /\ pool = "pausing"
    /\ pool' = "running"
    /\ UNCHANGED <<cur, tasks, pushVars, workVars, joined, pauses>>

(* The owner waits when nobody pushes any more, as a push that races with  *)
(* wait() would use a pool that is freed.                                  *)
rt_taskpool_wait ==
    /\ ppc[Owner] = "idle" /\ Started /\ pool # "freed"
    /\ \A p \in Pushers : ppc[p] = "idle" /\ made[p] = Quota
    /\ pool' = "waiting" /\ PushTo(Owner, "join")
    /\ UNCHANGED <<cur, tasks, made, accepted, workVars, joined, pauses>>

(* The workers are joined one after the other; then all is freed.          *)
JoinWorker ==
    /\ ppc[Owner] = "join" /\ joined < Cardinality(Workers)
    /\ wpc[joined + 1] = "done" /\ joined' = joined + 1
    /\ UNCHANGED <<pool, cur, tasks, pushVars, workVars, pauses>>

Free ==
    /\ ppc[Owner] = "join" /\ joined = Cardinality(Workers)
    /\ pool' = "freed" /\ PushTo(Owner, "idle")
    /\ UNCHANGED <<cur, tasks, made, accepted, workVars, joined, pauses>>

PushStep(p) == TestState(p) \/ TestRoom(p) \/ Push(p)
Work(w) == WorkerLeaves(w) \/ WorkerGoesOn(w) \/ Pop(w) \/ Run(w) \/ ReadBusy(w) \/ WriteBusy(w)
OwnerStep == rt_taskpool_init \/ rt_taskpool_pause \/ rt_taskpool_resume \/ rt_taskpool_wait \/ JoinWorker \/ Free

PoolNext == (\E p \in Pushers : PushStep(p)) \/ (\E w \in Workers : Work(w)) \/ OwnerStep

(* The threads are scheduled; the owner need not wait, but a wait that was *)
(* called goes on.                                                         *)
PoolFairness ==
    /\ \A w \in Workers : WF_poolVars(Work(w))
    /\ WF_poolVars(JoinWorker) /\ WF_poolVars(Free)

PoolSpec == PoolInit /\ [][PoolNext]_poolVars /\ PoolFairness

-----------------------------------------------------------------------------
(* No task is run twice, and when wait() frees the pool every task that    *)
(* push() took was run: a worker leaves only when the count that it reads  *)
(* without the lock says that nothing is queued, also after a pause (the   *)
(* tests at the head of rt_taskpool_loop()).                               *)
WaitRunsAll ==
    /\ \A t \in Tasks : ran[t] <= 1
    /\ pool = "freed" => \A t \in accepted : ran[t] = 1

(* rt_taskpool_wait() returns.                                             *)
WaitReturns == (ppc[Owner] = "join") ~> (pool = "freed")
=============================================================================
