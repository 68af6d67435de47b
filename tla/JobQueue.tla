------------------------------ MODULE JobQueue ------------------------------
(***************************************************************************)
(* The Redis-backed delivery queue (server/internal/queue): three priority *)
(* lists, a sorted set of delayed jobs, a dead-letter list, and consumer   *)
(* processes that each run one scheduler goroutine and a pool of workers.  *)
(* Every Redis command is one step, so the steps of different goroutines   *)
(* and processes interleave exactly between commands.  A process may be    *)
(* stopped gracefully, may crash, and may start again; Redis itself keeps  *)
(* its data.                                                               *)
(*                                                                         *)
(* Abstractions: wall-clock time is the set `due' of delayed members whose *)
(* run-at time has passed; a payload is the job's identity and its attempt *)
(* counter, the two parts of the marshalled member that change its value.  *)
(***************************************************************************)
EXTENDS Integers, Sequences, FiniteSets

CONSTANTS
    Jobs,            \* deliveries, each enqueued by the service at most once
    Unhandled,       \* the jobs whose channel has no registered handler
    Priorities,      \* the priorities the producer is called with
    Procs,           \* operating-system processes that run a consumer
    PoolSize,        \* workers of one consumer
    MaxAttempts,     \* QueueJob.MaxAttempts
    BatchLimit,      \* how many due members one promotion round reads
    RedisFaults,     \* the ways a Redis command may fail
    MaxStops,        \* bound on graceful stops
    MaxCrashes,      \* bound on crashes
    None

Workers == Procs \X (1..PoolSize)
PoolOf(p) == {w \in Workers : w[1] = p}

Lists       == 1..3          \* high, default, low: the order BRPOP serves them
DefaultList == 2
Entry       == [job : Jobs, attempt : 0..MaxAttempts]
Waiting     == [job : Jobs, attempt : 0..(MaxAttempts - 1)]

ASSUME JobsAssumption     == Unhandled \subseteq Jobs
ASSUME PriorityAssumption == Priorities \subseteq Int
ASSUME PoolAssumption     == PoolSize \in Nat \ {0}
ASSUME AttemptAssumption  == MaxAttempts \in Nat \ {0}
ASSUME BatchAssumption    == BatchLimit \in Nat \ {0}
ASSUME FaultAssumption    == RedisFaults \subseteq {"refused", "unacked"}
ASSUME BoundAssumption    == MaxStops \in Nat /\ MaxCrashes \in Nat
ASSUME NoneAssumption     == None \notin Entry

VARIABLES
    unsent,      \* jobs the service has not enqueued
    queue,       \* the three Redis lists; the head is the right end of the list
    delayed,     \* members of the sorted set
    due,         \* those whose score is not in the future
    dlq,         \* the dead-letter list
    proc,        \* "off", "running" or "stopping", per process
    pc,          \* where each worker goroutine is
    scan,        \* the list drainRemaining reads next, 0 in the main loop
    held,        \* the job a worker is processing
    sched,       \* where each scheduler goroutine is
    batch,       \* members it has read and not yet looked at
    promoting,   \* the member it removed and has not yet pushed
    stops,       \* graceful stops so far
    crashes,     \* crashes so far
    tries,       \* history: handler calls per job
    done,        \* history: jobs whose handler returned nil
    backlog      \* history: what the lists held when Stop was called

redis     == <<queue, delayed, due, dlq>>
workers   == <<pc, scan, held>>
scheduler == <<sched, batch, promoting>>
budget    == <<stops, crashes>>
history   == <<tries, done, backlog>>
vars      == <<unsent, redis, proc, workers, scheduler, budget, history>>

(* A command either takes effect and is acknowledged, is refused and has no *)
(* effect, or takes effect while the client sees an error.                  *)
Outcome    == {"ok"} \cup RedisFaults
Applied(o) == o # "refused"
Acked(o)   == o = "ok"

QueueForPriority(priority) ==
    CASE priority <= 3 -> 1
      [] priority > 3 /\ priority <= 7 -> DefaultList
      [] OTHER -> 3

(* Two mutants of ShouldRetry: one attempt too many, one too few.           *)
RetryOnceMore(e)  == e.attempt <= MaxAttempts
RetryOnceLess(e)  == e.attempt < MaxAttempts - 1
ShouldRetry(e) == e.attempt < MaxAttempts

Listed(l)    == {queue[l][i] : i \in DOMAIN queue[l]}
Pushed(l, e) == [queue EXCEPT ![l] = Append(@, e)]
Popped(l)    == [queue EXCEPT ![l] = Tail(@)]

(* The list a pop over the lists `from' serves: the first that has a job.   *)
FirstReady(from) ==
    {l \in from : queue[l] # <<>> /\ \A m \in from : m < l => queue[m] = <<>>}

Init ==
    /\ unsent = Jobs
    /\ queue = [l \in Lists |-> <<>>]
    /\ delayed = {} /\ due = {} /\ dlq = <<>>
    /\ proc = [p \in Procs |-> "off"]
    /\ pc = [w \in Workers |-> "off"]
    /\ scan = [w \in Workers |-> 0]
    /\ held = [w \in Workers |-> None]
    /\ sched = [p \in Procs |-> "off"]
    /\ batch = [p \in Procs |-> {}]
    /\ promoting = [p \in Procs |-> None]
    /\ stops = 0 /\ crashes = 0
    /\ tries = [j \in Jobs |-> 0]
    /\ done = {}
    /\ backlog = [p \in Procs |-> {}]

-----------------------------------------------------------------------------
(* The producer.  A refused push changes nothing, so only pushes that take  *)
(* effect are steps.                                                        *)
Enqueue(j, priority) ==
    /\ j \in unsent
    /\ unsent' = unsent \ {j}
    /\ queue' = Pushed(QueueForPriority(priority), [job |-> j, attempt |-> 0])
    /\ UNCHANGED <<delayed, due, dlq, proc, workers, scheduler, budget, history>>

EnqueueDelayed(j) ==
    /\ j \in unsent
    /\ unsent' = unsent \ {j}
    /\ delayed' = delayed \cup {[job |-> j, attempt |-> 0]}
    /\ UNCHANGED <<queue, due, dlq, proc, workers, scheduler, budget, history>>

(* The run-at time of a delayed member passes.                              *)
Elapse(e) ==
    /\ e \in delayed \ due
    /\ due' = due \cup {e}
    /\ UNCHANGED <<unsent, queue, delayed, dlq, proc, workers, scheduler, budget, history>>

-----------------------------------------------------------------------------
(* The worker loop.                                                         *)

(* Mutant of Observe: the loop does not look at stopCh.                     *)
ObserveNothing(w) ==
    /\ pc[w] = "check"
    /\ pc' = [pc EXCEPT ![w] = "brpop"]
    /\ UNCHANGED <<unsent, redis, proc, scan, held, scheduler, budget, history>>

(* The select at the top of the loop: Stop has closed stopCh, or BRPOP.     *)
Observe(w) ==
    /\ pc[w] = "check"
    /\ IF proc[w[1]] = "stopping"
         THEN /\ pc' = [pc EXCEPT ![w] = "drain"]
              /\ scan' = [scan EXCEPT ![w] = 1]
         ELSE /\ pc' = [pc EXCEPT ![w] = "brpop"]
              /\ UNCHANGED scan
    /\ UNCHANGED <<unsent, redis, proc, held, scheduler, budget, history>>

(* Mutant of Process: the counter in the job is not incremented.            *)
ProcessUncounted(w, e) ==
    /\ pc' = [pc EXCEPT ![w] = "handle"]
    /\ held' = [held EXCEPT ![w] = e]
    /\ tries' = [tries EXCEPT ![e.job] = @ + 1]

(* process up to the handler call, with the job just popped.                *)
Process(w, e) ==
    IF e.job \in Unhandled
      THEN /\ pc' = [pc EXCEPT ![w] = "bury"]
           /\ held' = [held EXCEPT ![w] = e]
           /\ UNCHANGED tries
      ELSE /\ pc' = [pc EXCEPT ![w] = "handle"]
           /\ held' = [held EXCEPT ![w] = [e EXCEPT !.attempt = @ + 1]]
           /\ tries' = [tries EXCEPT ![e.job] = @ + 1]

(* BRPOP returns a job; if its reply is lost the job is gone with it.       *)
BRPop(w) ==
    /\ pc[w] = "brpop"
    /\ \E l \in FirstReady(Lists), o \in Outcome \ {"refused"} :
         /\ queue' = Popped(l)
         /\ IF Acked(o)
              THEN Process(w, Head(queue[l]))
              ELSE pc' = [pc EXCEPT ![w] = "check"] /\ UNCHANGED <<held, tries>>
    /\ UNCHANGED <<unsent, delayed, due, dlq, proc, scan, scheduler, budget, done, backlog>>

(* BRPOP times out on empty lists, or fails.                                *)
BRPopNothing(w) ==
    /\ pc[w] = "brpop"
    /\ FirstReady(Lists) = {} \/ "refused" \in RedisFaults
    /\ pc' = [pc EXCEPT ![w] = "check"]
    /\ UNCHANGED <<unsent, redis, proc, scan, held, scheduler, budget, history>>

(* One RPOP of drainRemaining finds a job: after it the scan starts again.  *)
DrainPop(w) ==
    /\ pc[w] = "drain"
    /\ queue[scan[w]] # <<>>
    /\ queue' = Popped(scan[w])
    /\ scan' = [scan EXCEPT ![w] = 1]
    /\ Process(w, Head(queue[scan[w]]))
    /\ UNCHANGED <<unsent, delayed, due, dlq, proc, scheduler, budget, done, backlog>>

(* Mutant of DrainSkip: the low list is not drained.                        *)
DrainSkipLow(w) ==
    /\ pc[w] = "drain"
    /\ queue[scan[w]] = <<>>
    /\ IF scan[w] < 2
         THEN scan' = [scan EXCEPT ![w] = @ + 1] /\ UNCHANGED pc
         ELSE scan' = [scan EXCEPT ![w] = 0] /\ pc' = [pc EXCEPT ![w] = "exited"]
    /\ UNCHANGED <<unsent, redis, proc, held, scheduler, budget, history>>

(* It finds the list empty, or fails, which the code treats alike: on to    *)
(* the next list, and after the last one the worker exits.                  *)
DrainSkip(w) ==
    /\ pc[w] = "drain"
    /\ \/ queue[scan[w]] = <<>> /\ UNCHANGED queue
       \/ "refused" \in RedisFaults /\ UNCHANGED queue
       \/ "unacked" \in RedisFaults /\ queue[scan[w]] # <<>> /\ queue' = Popped(scan[w])
    /\ IF scan[w] < 3
         THEN scan' = [scan EXCEPT ![w] = @ + 1] /\ UNCHANGED pc
         ELSE scan' = [scan EXCEPT ![w] = 0] /\ pc' = [pc EXCEPT ![w] = "exited"]
    /\ UNCHANGED <<unsent, delayed, due, dlq, proc, held, scheduler, budget, history>>

(* process returns to the loop that called it.                              *)
Return(w) ==
    /\ held' = [held EXCEPT ![w] = None]
    /\ pc' = [pc EXCEPT ![w] = IF scan[w] = 0 THEN "check" ELSE "drain"]

HandlerSucceeds(w) ==
    /\ pc[w] = "handle"
    /\ done' = done \cup {held[w].job}
    /\ Return(w)
    /\ UNCHANGED <<unsent, redis, proc, scan, scheduler, budget, tries, backlog>>

(* Mutant of HandlerFails: an exhausted job is dropped.                     *)
HandlerFailsQuietly(w) ==
    /\ pc[w] = "handle"
    /\ IF ShouldRetry(held[w])
         THEN pc' = [pc EXCEPT ![w] = "retry"] /\ UNCHANGED held
         ELSE Return(w)
    /\ UNCHANGED <<unsent, redis, proc, scan, scheduler, budget, history>>

HandlerFails(w) ==
    /\ pc[w] = "handle"
    /\ pc' = [pc EXCEPT ![w] = IF ShouldRetry(held[w]) THEN "retry" ELSE "bury"]
    /\ UNCHANGED <<unsent, redis, proc, scan, held, scheduler, budget, history>>

(* EnqueueDelayed with the backoff; a retry that cannot be scheduled goes   *)
(* to the dead-letter queue.                                                *)
ScheduleRetry(w) ==
    /\ pc[w] = "retry"
    /\ \E o \in Outcome :
         /\ delayed' = IF Applied(o) THEN delayed \cup {held[w]} ELSE delayed
         /\ IF Acked(o) THEN Return(w)
                        ELSE pc' = [pc EXCEPT ![w] = "bury"] /\ UNCHANGED held
    /\ UNCHANGED <<unsent, queue, due, dlq, proc, scan, scheduler, budget, history>>

(* DLQ.Push, whose error nobody acts on.                                    *)
Bury(w) ==
    /\ pc[w] = "bury"
    /\ \E o \in Outcome : dlq' = IF Applied(o) THEN Append(dlq, held[w]) ELSE dlq
    /\ Return(w)
    /\ UNCHANGED <<unsent, queue, delayed, due, proc, scan, scheduler, budget, history>>

-----------------------------------------------------------------------------
(* The scheduler.                                                           *)

AfterMember(rest) == IF rest = {} THEN "tick" ELSE "promote"

(* Mutant of ReadDue: the read takes the members out of the set.            *)
ReadDueDestructive(p) ==
    /\ sched[p] = "tick"
    /\ due # {}
    /\ batch' = [batch EXCEPT ![p] = due]
    /\ delayed' = delayed \ due
    /\ due' = {}
    /\ sched' = [sched EXCEPT ![p] = "promote"]
    /\ UNCHANGED <<unsent, queue, dlq, proc, workers, promoting, budget, history>>

(* ZRANGEBYSCORE reads up to BatchLimit due members and removes none.       *)
ReadDue(p) ==
    /\ sched[p] = "tick"
    /\ \E B \in SUBSET due :
         /\ B # {}
         /\ Cardinality(B) = BatchLimit \/ (B = due /\ Cardinality(B) < BatchLimit)
         /\ batch' = [batch EXCEPT ![p] = B]
    /\ sched' = [sched EXCEPT ![p] = "promote"]
    /\ UNCHANGED <<unsent, redis, proc, workers, promoting, budget, history>>

(* Mutants of Claim: the answer of ZREM is not looked at; the member is     *)
(* removed by its delivery id, whatever its attempt.                        *)
ClaimUnchecked(p, e) ==
    /\ sched[p] = "promote" /\ e \in batch[p]
    /\ delayed' = delayed \ {e}
    /\ due' = due \ {e}
    /\ batch' = [batch EXCEPT ![p] = @ \ {e}]
    /\ promoting' = [promoting EXCEPT ![p] = e]
    /\ sched' = [sched EXCEPT ![p] = "push"]
    /\ UNCHANGED <<unsent, queue, dlq, proc, workers, budget, history>>
ClaimById(p, e) ==
    /\ sched[p] = "promote" /\ e \in batch[p]
    /\ \E d \in delayed :
         /\ d.job = e.job
         /\ delayed' = delayed \ {d}
         /\ due' = due \ {d}
         /\ promoting' = [promoting EXCEPT ![p] = d]
    /\ batch' = [batch EXCEPT ![p] = @ \ {e}]
    /\ sched' = [sched EXCEPT ![p] = "push"]
    /\ UNCHANGED <<unsent, queue, dlq, proc, workers, budget, history>>

(* ZREM answers that the member was there: this scheduler owns it now.      *)
Claim(p, e) ==
    /\ sched[p] = "promote" /\ e \in batch[p]
    /\ e \in delayed
    /\ delayed' = delayed \ {e}
    /\ due' = due \ {e}
    /\ batch' = [batch EXCEPT ![p] = @ \ {e}]
    /\ promoting' = [promoting EXCEPT ![p] = e]
    /\ sched' = [sched EXCEPT ![p] = "push"]
    /\ UNCHANGED <<unsent, queue, dlq, proc, workers, budget, history>>

(* ZREM answers 0, or fails: the member is left to whoever removed it.      *)
Pass(p, e) ==
    /\ sched[p] = "promote" /\ e \in batch[p]
    /\ \/ /\ e \notin delayed \/ "refused" \in RedisFaults
          /\ UNCHANGED <<delayed, due>>
       \/ /\ "unacked" \in RedisFaults
          /\ delayed' = delayed \ {e}
          /\ due' = due \ {e}
    /\ batch' = [batch EXCEPT ![p] = @ \ {e}]
    /\ sched' = [sched EXCEPT ![p] = AfterMember(batch[p] \ {e})]
    /\ UNCHANGED <<unsent, queue, dlq, proc, workers, promoting, budget, history>>

(* LPUSH onto the default queue, whatever list the job came from; its error *)
(* is only logged.                                                          *)
Promote(p) ==
    /\ sched[p] = "push"
    /\ \E o \in Outcome :
         queue' = IF Applied(o) THEN Pushed(DefaultList, promoting[p]) ELSE queue
    /\ promoting' = [promoting EXCEPT ![p] = None]
    /\ sched' = [sched EXCEPT ![p] = AfterMember(batch[p])]
    /\ UNCHANGED <<unsent, delayed, due, dlq, proc, workers, batch, budget, history>>

SchedulerExits(p) ==
    /\ sched[p] = "tick"
    /\ proc[p] = "stopping"
    /\ sched' = [sched EXCEPT ![p] = "exited"]
    /\ UNCHANGED <<unsent, redis, proc, workers, batch, promoting, budget, history>>

-----------------------------------------------------------------------------
(* Processes.                                                               *)

(* Mutant of Start: no scheduler goroutine.                                 *)
StartUnscheduled(p) ==
    /\ proc[p] = "off"
    /\ proc' = [proc EXCEPT ![p] = "running"]
    /\ pc' = [w \in Workers |-> IF w[1] = p THEN "check" ELSE pc[w]]
    /\ sched' = [sched EXCEPT ![p] = "exited"]
    /\ UNCHANGED <<unsent, redis, scan, held, batch, promoting, budget, history>>

Start(p) ==
    /\ proc[p] = "off"
    /\ proc' = [proc EXCEPT ![p] = "running"]
    /\ pc' = [w \in Workers |-> IF w[1] = p THEN "check" ELSE pc[w]]
    /\ sched' = [sched EXCEPT ![p] = "tick"]
    /\ UNCHANGED <<unsent, redis, scan, held, batch, promoting, budget, history>>

(* Stop closes stopCh ...                                                   *)
Stop(p) ==
    /\ proc[p] = "running"
    /\ stops < MaxStops
    /\ stops' = stops + 1
    /\ proc' = [proc EXCEPT ![p] = "stopping"]
    /\ backlog' = [backlog EXCEPT ![p] = UNION {Listed(l) : l \in Lists}]
    /\ UNCHANGED <<unsent, redis, workers, scheduler, crashes, tries, done>>

AllExited(p) == sched[p] = "exited" /\ \A w \in PoolOf(p) : pc[w] = "exited"

(* ... and returns once every goroutine has.                                *)
StopReturns(p) ==
    /\ proc[p] = "stopping"
    /\ AllExited(p)
    /\ proc' = [proc EXCEPT ![p] = "off"]
    /\ pc' = [w \in Workers |-> IF w[1] = p THEN "off" ELSE pc[w]]
    /\ sched' = [sched EXCEPT ![p] = "off"]
    /\ backlog' = [backlog EXCEPT ![p] = {}]
    /\ UNCHANGED <<unsent, redis, scan, held, batch, promoting, budget, tries, done>>

(* The process dies: what its goroutines hold in memory is gone.            *)
Crash(p) ==
    /\ proc[p] # "off"
    /\ crashes < MaxCrashes
    /\ crashes' = crashes + 1
    /\ proc' = [proc EXCEPT ![p] = "off"]
    /\ pc' = [w \in Workers |-> IF w[1] = p THEN "off" ELSE pc[w]]
    /\ scan' = [w \in Workers |-> IF w[1] = p THEN 0 ELSE scan[w]]
    /\ held' = [w \in Workers |-> IF w[1] = p THEN None ELSE held[w]]
    /\ sched' = [sched EXCEPT ![p] = "off"]
    /\ batch' = [batch EXCEPT ![p] = {}]
    /\ promoting' = [promoting EXCEPT ![p] = None]
    /\ backlog' = [backlog EXCEPT ![p] = {}]
    /\ UNCHANGED <<unsent, redis, stops, tries, done>>
-----------------------------------------------------------------------------
ProducerStep ==
    \E j \in Jobs : EnqueueDelayed(j) \/ \E priority \in Priorities : Enqueue(j, priority)
WorkerStep(w) ==
    \/ Observe(w) \/ BRPop(w) \/ BRPopNothing(w) \/ DrainPop(w) \/ DrainSkip(w)
    \/ HandlerSucceeds(w) \/ HandlerFails(w) \/ ScheduleRetry(w) \/ Bury(w)
SchedulerStep(p) ==
    \/ ReadDue(p) \/ Promote(p) \/ SchedulerExits(p)
    \/ \E e \in batch[p] : Claim(p, e) \/ Pass(p, e)
ProcessStep(p) == Start(p) \/ Stop(p) \/ StopReturns(p) \/ Crash(p)

Next ==
    \/ ProducerStep
    \/ \E e \in delayed : Elapse(e)
    \/ \E w \in Workers : WorkerStep(w)
    \/ \E p \in Procs : SchedulerStep(p) \/ ProcessStep(p)

Spec == Init /\ [][Next]_vars

(* Fairness: the Go runtime and Redis serve every goroutine, a handler      *)
(* returns (every channel call has a timeout), time passes, and the         *)
(* container runtime restarts a process that ended (restart: always).       *)
Fairness ==
    /\ \A e \in Waiting : WF_vars(Elapse(e))
    /\ \A w \in Workers : WF_vars(WorkerStep(w))
    /\ \A p \in Procs : WF_vars(SchedulerStep(p)) /\ WF_vars(Start(p) \/ StopReturns(p))

FairSpec == Spec /\ Fairness

-----------------------------------------------------------------------------
TypeOK ==
    /\ unsent \subseteq Jobs
    /\ queue \in [Lists -> Seq(Waiting)]
    /\ delayed \subseteq Waiting
    /\ due \subseteq delayed
    /\ dlq \in Seq(Entry)
    /\ proc \in [Procs -> {"off", "running", "stopping"}]
    /\ pc \in [Workers -> {"off", "check", "brpop", "drain", "handle", "retry", "bury", "exited"}]
    /\ scan \in [Workers -> 0..3]
    /\ held \in [Workers -> Entry \cup {None}]
    /\ sched \in [Procs -> {"off", "tick", "promote", "push", "exited"}]
    /\ batch \in [Procs -> SUBSET Waiting]
    /\ promoting \in [Procs -> Waiting \cup {None}]
    /\ stops \in Nat /\ crashes \in Nat
    /\ tries \in [Jobs -> Nat]
    /\ done \subseteq Jobs
    /\ backlog \in [Procs -> SUBSET Waiting]

(* Where a copy of job j can be that some later step may run: a list, the   *)
(* delayed set, a worker that has not given up on it, or a scheduler.       *)
InHand(w)      == pc[w] \in {"handle", "retry"}
InPush(p)      == sched[p] = "push"
OnList(j)      == \E l \in Lists : \E i \in DOMAIN queue[l] : queue[l][i].job = j
IsDelayed(j)   == \E e \in delayed : e.job = j
IsRunning(j)   == \E w \in Workers : InHand(w) /\ held[w].job = j
IsPromoting(j) == \E p \in Procs : InPush(p) /\ promoting[p].job = j

ListedOnce ==
    \A l, m \in Lists : \A i \in DOMAIN queue[l], k \in DOMAIN queue[m] :
        queue[l][i].job = queue[m][k].job => l = m /\ i = k
DelayedOnce  == \A d, e \in delayed : d.job = e.job => d = e
RunOnce      == \A v, w \in Workers : InHand(v) /\ InHand(w) /\ held[v].job = held[w].job => v = w
PromotedOnce ==
    \A p, q \in Procs : InPush(p) /\ InPush(q) /\ promoting[p].job = promoting[q].job => p = q
OnePlace ==
    \A j \in Jobs :
        /\ OnList(j) => ~IsDelayed(j) /\ ~IsRunning(j) /\ ~IsPromoting(j)
        /\ IsDelayed(j) => ~IsRunning(j) /\ ~IsPromoting(j)
        /\ IsRunning(j) => ~IsPromoting(j)

(* No job is ever in two places a goroutine could run it from, whatever the *)
(* schedulers and workers of the processes do at once, through crashes and  *)
(* Redis errors: the promise of promoteDue ("to avoid double-processing     *)
(* across workers").                                                        *)
SingleOwner == ListedOnce /\ DelayedOnce /\ RunOnce /\ PromotedOnce /\ OnePlace

(* The attempt counter that travels with a job through retries, promotions  *)
(* and restarts is the number of times its handler was called, and nothing  *)
(* calls it more than MaxAttempts times.                                    *)
AttemptCountsCalls ==
    /\ \A l \in Lists : \A i \in DOMAIN queue[l] :
         queue[l][i].attempt = tries[queue[l][i].job]
    /\ \A e \in delayed : e.attempt = tries[e.job]
    /\ \A w \in Workers : InHand(w) => held[w].attempt = tries[held[w].job]
    /\ \A p \in Procs : InPush(p) => promoting[p].attempt = tries[promoting[p].job]
    /\ \A j \in Jobs : tries[j] <= MaxAttempts

(* A member leaves the delayed set only after its run-at time, although a   *)
(* scheduler decides from a read that other schedulers and workers have     *)
(* long overtaken: the same job may be back with a later attempt.           *)
RetryWaitsForBackoff == [][\A e \in delayed : e \in delayed' \/ e \in due]_vars

(* While no Redis command fails, and until a process crashes, every job     *)
(* sent is somewhere: in Redis, in a goroutine's hands, done or dead.       *)
IsBuried(j)  == \E i \in DOMAIN dlq : dlq[i].job = j
IsBurying(j) == \E w \in Workers : pc[w] = "bury" /\ held[w].job = j
Pending(j)   == OnList(j) \/ IsDelayed(j) \/ IsRunning(j) \/ IsPromoting(j) \/ IsBurying(j)
NothingLost  ==
    crashes = 0 => \A j \in Jobs \ unsent : Pending(j) \/ j \in done \/ IsBuried(j)

(* The dead-letter queue holds permanently failed jobs only: a job there    *)
(* has used up its attempts (or has no handler), is there once, did not     *)
(* succeed and is not about to run again.                                   *)
DeadLettersAreFinal ==
    \A i \in DOMAIN dlq :
        LET j == dlq[i].job IN
        /\ j \in Unhandled \/ dlq[i].attempt = MaxAttempts
        /\ tries[j] = dlq[i].attempt
        /\ j \notin done /\ ~Pending(j)
        /\ \A k \in DOMAIN dlq : dlq[k].job = j => k = i

(* A job whose attempts are used up without success is in the dead-letter   *)
(* queue once its worker has let go of it.                                  *)
ExhaustedReachDeadLetters ==
    \A j \in Jobs :
        tries[j] = MaxAttempts /\ j \notin done /\ ~Pending(j) => IsBuried(j)

(* When the goroutines of a stopping consumer have ended, nothing that was  *)
(* in the lists when Stop was called is still there, though the workers     *)
(* leave one by one after three reads that are not one snapshot.            *)
DrainLeavesNothing ==
    \A p \in Procs : proc[p] = "stopping" /\ AllExited(p) =>
        \A l \in Lists : backlog[p] \cap Listed(l) = {}

(* Every job sent is eventually done, dead-lettered, or gone with a process *)
(* that crashed; none waits for ever in Redis or in a goroutine.            *)
EventuallySettled == \A j \in Jobs : j \notin unsent ~> j \notin unsent /\ ~Pending(j)

(* Stop returns (or the process is killed meanwhile).                       *)
StopTerminates == \A p \in Procs : proc[p] = "stopping" ~> proc[p] = "off"

-----------------------------------------------------------------------------
(* The phase of a job, read off where its copies are.                       *)
Phase(j) ==
    IF j \in unsent THEN "new"
    ELSE IF IsRunning(j) \/ IsBurying(j) THEN "running"
    ELSE IF OnList(j) THEN "ready"
    ELSE IF IsDelayed(j) THEN "waiting"
    ELSE IF IsPromoting(j) THEN "promoting"
    ELSE IF j \in done THEN "done"
    ELSE IF IsBuried(j) THEN "dead"
    ELSE "lost"

Lifecycle == INSTANCE JobLifecycle WITH
    phase <- [j \in Jobs |-> Phase(j)],
    calls <- tries,
    Lossy <- RedisFaults # {} \/ MaxCrashes > 0

(* Lists, schedulers, workers, stops, crashes and refused Redis commands    *)
(* together do to each job what the abstract lifecycle allows, and nothing  *)
(* that rests in Redis is lost.                                             *)
ImplementsLifecycle == Lifecycle!Spec

-----------------------------------------------------------------------------
(* The inductive strengthening of SingleOwner and AttemptCountsCalls.       *)

(* What a goroutine's position says of the job in its hands.                *)
Control ==
    /\ \A w \in Workers :
         /\ pc[w] \in {"handle", "retry", "bury"} => held[w] \in Entry
         /\ pc[w] = "retry" => held[w] \in Waiting
         /\ pc[w] = "drain" => scan[w] \in Lists
    /\ \A p \in Procs : InPush(p) => promoting[p] \in Waiting

(* A job that was not sent is nowhere.                                      *)
UnsentNowhere ==
    /\ \A j \in unsent :
         /\ tries[j] = 0
         /\ ~OnList(j) /\ ~IsDelayed(j) /\ ~IsRunning(j) /\ ~IsPromoting(j)
    /\ \A p \in Procs : \A b \in batch[p] : b.job \notin unsent

(* What a scheduler read is either still delayed and due, or overtaken: its *)
(* job cannot come back to the delayed set with the same attempt.           *)
BatchOvertaken ==
    \A p \in Procs : \A b \in batch[p] :
        /\ b.attempt <= tries[b.job]
        /\ b \in delayed => b \in due
        /\ \A w \in Workers : InHand(w) /\ held[w].job = b.job => b.attempt < held[w].attempt

Inductive ==
    TypeOK /\ Control /\ UnsentNowhere /\ SingleOwner /\ AttemptCountsCalls /\ BatchOvertaken
=============================================================================
