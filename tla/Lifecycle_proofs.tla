--------------------------- MODULE Lifecycle_proofs ---------------------------
(***************************************************************************)
(* The queue implements the lifecycle of a job, for any number of jobs,    *)
(* processes and workers, with stops, crashes and refused Redis commands.  *)
(* Replies are not lost: when the reply to a BRPOP or to a retry's ZADD is *)
(* lost, the code does lose a job at rest, or bury one that is retried.    *)
(***************************************************************************)
EXTENDS JobQueue_proofs

Places == {"new", "ready", "waiting", "promoting", "running", "burying", "done", "dead", "lost"}
Holding == {"handle", "retry", "bury"}

USE DEF InHand, InPush

(* Job j is at place x and nowhere else.                                    *)
IsAt(j, x) ==
    /\ j \in unsent <=> x = "new"
    /\ OnList(j) <=> x = "ready"
    /\ IsDelayed(j) <=> x = "waiting"
    /\ IsPromoting(j) <=> x = "promoting"
    /\ IsRunning(j) <=> x = "running"
    /\ IsBurying(j) <=> x = "burying"
    /\ j \in done <=> x = "done"
    /\ IsBuried(j) <=> x = "dead"

PhaseAt(x) == IF x = "burying" THEN "running" ELSE x

(* Every job is at one place, workers hold different jobs, only jobs with a *)
(* handler run, and those given up have no attempt left or met a failure.   *)
Hands ==
    /\ \A v, w \in Workers :
         pc[v] \in Holding /\ pc[w] \in Holding /\ held[v].job = held[w].job => v = w
    /\ \A w \in Workers : InHand(w) => held[w].job \notin Unhandled
    /\ \A w \in Workers : pc[w] = "bury" =>
         held[w].job \in Unhandled \/ tries[held[w].job] = MaxAttempts \/ RedisFaults # {}

Placed == \A j \in Jobs : \E x \in Places : IsAt(j, x)

(* A process that is off has no goroutines.                                 *)
Idle == \A p \in Procs : proc[p] = "off" =>
          sched[p] = "off" /\ \A w \in Workers : w[1] = p => pc[w] = "off"

Full == Inductive /\ Hands /\ Placed /\ Idle

(* A step that does not touch job j.                                        *)
Untouched(j) ==
    /\ j \in unsent' <=> j \in unsent
    /\ OnList(j)' <=> OnList(j)
    /\ IsDelayed(j)' <=> IsDelayed(j)
    /\ IsPromoting(j)' <=> IsPromoting(j)
    /\ IsRunning(j)' <=> IsRunning(j)
    /\ IsBurying(j)' <=> IsBurying(j)
    /\ j \in done' <=> j \in done
    /\ IsBuried(j)' <=> IsBuried(j)

LEMMA PhaseOfPlace ==
    ASSUME NEW j, NEW x \in Places, IsAt(j, x)
    PROVE  Phase(j) = PhaseAt(x)
BY DEF Places, IsAt, Phase, PhaseAt

LEMMA PhaseOfPlaceNext ==
    ASSUME NEW j, NEW x \in Places, IsAt(j, x)'
    PROVE  Phase(j)' = PhaseAt(x)
BY DEF Places, IsAt, Phase, PhaseAt

LEMMA UntouchedStays ==
    ASSUME NEW j, Untouched(j)
    PROVE  /\ Phase(j)' = Phase(j)
           /\ \A x \in Places : IsAt(j, x) => IsAt(j, x)'
<1>1. Phase(j)' = Phase(j)
  BY DEF Untouched, Phase
<1>2. \A x \in Places : IsAt(j, x) => IsAt(j, x)'
  BY DEF Untouched, IsAt
<1> QED BY <1>1, <1>2

(* A step that moves job k from one place to another and touches no other.  *)
LEMMA MoveStep ==
    ASSUME Placed, NEW k \in Jobs, NEW x \in Places, NEW y \in Places,
           IsAt(k, x), IsAt(k, y)',
           \A j \in Jobs \ {k} : Untouched(j)
    PROVE  /\ Placed'
           /\ Phase(k) = PhaseAt(x)
           /\ [j \in Jobs |-> Phase(j)]'
                = [[j \in Jobs |-> Phase(j)] EXCEPT ![k] = PhaseAt(y)]
<1>1. Phase(k) = PhaseAt(x) /\ Phase(k)' = PhaseAt(y)
  BY PhaseOfPlace, PhaseOfPlaceNext
<1>2. \A j \in Jobs \ {k} : Phase(j)' = Phase(j) /\ \A z \in Places : IsAt(j, z) => IsAt(j, z)'
  BY UntouchedStays
<1>3. \A j \in Jobs : (\E z \in Places : IsAt(j, z))'
  BY <1>2 DEF Placed
<1>4. \A j \in Jobs : Phase(j)' = [[i \in Jobs |-> Phase(i)] EXCEPT ![k] = PhaseAt(y)][j]
  BY <1>1, <1>2
<1> QED BY <1>1, <1>3, <1>4 DEF Placed

-----------------------------------------------------------------------------
(* What the commands do to the places of jobs.                              *)

LEMMA PushPlace ==
    ASSUME Full, NEW l \in Lists, NEW e \in Waiting, queue' = Pushed(l, e)
    PROVE  \A j \in Jobs : OnList(j)' <=> OnList(j) \/ j = e.job
<1> SUFFICES ASSUME NEW j \in Jobs PROVE OnList(j)' <=> OnList(j) \/ j = e.job
  OBVIOUS
<1>1. queue \in QueueType
  BY DEF Full, Inductive, TypeOK, QueueType
<1>2. OnList(j)' => OnList(j) \/ j = e.job
  BY <1>1, PushFacts DEF OnList, Pushed
<1>3. OnList(j) => OnList(j)'
  <2>1. ASSUME NEW m \in Lists, NEW i \in DOMAIN queue[m]
        PROVE  i \in DOMAIN queue'[m] /\ queue'[m][i] = queue[m][i]
    BY <1>1, <2>1 DEF QueueType, Pushed
  <2> QED BY <2>1 DEF OnList
<1>4. j = e.job => OnList(j)'
  <2>1. Len(queue[l]) + 1 \in DOMAIN queue'[l] /\ queue'[l][Len(queue[l]) + 1] = e
    BY <1>1 DEF QueueType, Pushed
  <2> QED BY <2>1 DEF OnList
<1> QED BY <1>2, <1>3, <1>4

LEMMA PopPlace ==
    ASSUME Full, NEW l \in Lists, queue[l] # <<>>, queue' = Popped(l),
           NEW e, e = Head(queue[l])
    PROVE  /\ e \in Waiting /\ e.job \in Jobs /\ OnList(e.job) /\ e.attempt = tries[e.job]
           /\ ~OnList(e.job)'
           /\ \A j \in Jobs \ {e.job} : OnList(j)' <=> OnList(j)
<1>1. queue \in QueueType /\ ListedOnce /\ TypeOK
  BY DEF Full, Inductive, TypeOK, QueueType, SingleOwner
<1>2. /\ 1 \in DOMAIN queue[l] /\ e = queue[l][1] /\ e \in Waiting
      /\ \A m \in Lists : \A i \in DOMAIN queue'[m] :
           \E k \in DOMAIN queue[m] : queue'[m][i] = queue[m][k] /\ queue[m][k].job # e.job
  BY <1>1, PopListing
<1>3. e.job \in Jobs /\ OnList(e.job)
  BY <1>2 DEF OnList, Waiting
<1>4. e.attempt = tries[e.job]
  BY <1>2 DEF Full, Inductive, AttemptCountsCalls
<1>5. ~OnList(e.job)'
  BY <1>2 DEF OnList
<1>6. ASSUME NEW j \in Jobs \ {e.job} PROVE OnList(j)' <=> OnList(j)
  <2>1. OnList(j)' => OnList(j)
    BY <1>2 DEF OnList
  <2>2. ASSUME NEW m \in Lists, NEW i \in DOMAIN queue[m], queue[m][i].job = j
        PROVE  OnList(j)'
    <3>1. CASE m # l
      <4>1. queue'[m] = queue[m]
        BY <1>1, <3>1 DEF Popped, QueueType
      <4> QED BY <2>2, <4>1 DEF OnList
    <3>2. CASE m = l
      <4>1. i # 1
        BY <1>2, <1>6, <2>2, <3>2
      <4>2. i - 1 \in DOMAIN queue'[l] /\ queue'[l][i - 1] = queue[l][i]
        BY <1>1, <1>2, <2>2, <3>2, <4>1 DEF Popped, QueueType
      <4> QED BY <2>2, <3>2, <4>2 DEF OnList
    <3> QED BY <3>1, <3>2
  <2> QED BY <2>1, <2>2 DEF OnList
<1> QED BY <1>2, <1>3, <1>4, <1>5, <1>6

LEMMA BuryPlace ==
    ASSUME TypeOK, NEW e \in Entry, dlq' = Append(dlq, e)
    PROVE  \A j \in Jobs : IsBuried(j)' <=> IsBuried(j) \/ j = e.job
<1> SUFFICES ASSUME NEW j \in Jobs PROVE IsBuried(j)' <=> IsBuried(j) \/ j = e.job
  OBVIOUS
<1>1. dlq \in Seq(Entry)
  BY DEF TypeOK
<1>2. /\ DOMAIN dlq' = DOMAIN dlq \cup {Len(dlq) + 1}
      /\ dlq'[Len(dlq) + 1] = e
      /\ \A i \in DOMAIN dlq : dlq'[i] = dlq[i]
  BY <1>1
<1> QED BY <1>2 DEF IsBuried

(* One worker takes, keeps or lets go of job k, which no other worker has.  *)
LEMMA HandsStep ==
    ASSUME Full, NEW w \in Workers, NEW k \in Jobs,
           \A v \in Workers \ {w} : pc'[v] = pc[v] /\ held'[v] = held[v],
           \A v \in Workers \ {w} : pc[v] \in Holding => held[v].job # k,
           pc[w] \in Holding => held[w].job = k,
           pc'[w] \in Holding => held'[w].job = k,
           InHand(w)' => k \notin Unhandled,
           pc'[w] = "bury" => k \in Unhandled \/ tries'[k] = MaxAttempts \/ RedisFaults # {},
           \A j \in Jobs \ {k} : tries'[j] = tries[j]
    PROVE  /\ Hands'
           /\ IsRunning(k)' <=> InHand(w)'
           /\ IsBurying(k)' <=> pc'[w] = "bury"
           /\ \A j \in Jobs \ {k} : /\ IsRunning(j)' <=> IsRunning(j)
                                    /\ IsBurying(j)' <=> IsBurying(j)
<1> USE DEF Holding
<1>1. \A v \in Workers : pc[v] \in Holding => held[v].job \in Jobs
  BY DEF Full, Inductive, Control, Entry
<1>2. Hands'
  BY <1>1 DEF Full, Hands
<1>3. IsRunning(k)' <=> InHand(w)'
  BY DEF IsRunning
<1>4. IsBurying(k)' <=> pc'[w] = "bury"
  BY DEF IsBurying
<1>5. ASSUME NEW j \in Jobs \ {k}
      PROVE  (IsRunning(j)' <=> IsRunning(j)) /\ (IsBurying(j)' <=> IsBurying(j))
  BY <1>5 DEF IsRunning, IsBurying
<1> QED BY <1>2, <1>3, <1>4, <1>5

(* A predicate of a job's places depends on these variables only.           *)
LEMMA Frame ==
    ASSUME NEW j
    PROVE  /\ queue' = queue => (OnList(j)' <=> OnList(j))
           /\ delayed' = delayed => (IsDelayed(j)' <=> IsDelayed(j))
           /\ (\A p \in Procs : /\ InPush(p)' <=> InPush(p)
                                /\ InPush(p) => promoting'[p] = promoting[p])
                => (IsPromoting(j)' <=> IsPromoting(j))
           /\ pc' = pc /\ held' = held
                => (IsRunning(j)' <=> IsRunning(j)) /\ (IsBurying(j)' <=> IsBurying(j))
           /\ dlq' = dlq => (IsBuried(j)' <=> IsBuried(j))
<1>1. queue' = queue => (OnList(j)' <=> OnList(j))
  BY DEF OnList
<1>2. delayed' = delayed => (IsDelayed(j)' <=> IsDelayed(j))
  BY DEF IsDelayed
<1>3. (\A p \in Procs : (InPush(p)' <=> InPush(p)) /\ (InPush(p) => promoting'[p] = promoting[p]))
        => (IsPromoting(j)' <=> IsPromoting(j))
  BY DEF IsPromoting
<1>4. pc' = pc /\ held' = held
        => (IsRunning(j)' <=> IsRunning(j)) /\ (IsBurying(j)' <=> IsBurying(j))
  BY DEF IsRunning, IsBurying
<1>5. dlq' = dlq => (IsBuried(j)' <=> IsBuried(j))
  BY DEF IsBuried
<1> QED BY <1>1, <1>2, <1>3, <1>4, <1>5

(* Being somewhere is being there only.                                     *)
LEMMA OnlyThere ==
    ASSUME Placed, NEW k \in Jobs
    PROVE  /\ k \in unsent => IsAt(k, "new")
           /\ OnList(k) => IsAt(k, "ready")
           /\ IsDelayed(k) => IsAt(k, "waiting")
           /\ IsPromoting(k) => IsAt(k, "promoting")
           /\ IsRunning(k) => IsAt(k, "running")
           /\ IsBurying(k) => IsAt(k, "burying")
<1> PICK x \in Places : IsAt(k, x)
  BY DEF Placed
<1> QED BY DEF Places, IsAt

(* A step that moves no job.                                                *)
LEMMA QuietStep ==
    ASSUME Full, unsent' = unsent, queue' = queue, delayed' = delayed, dlq' = dlq,
           done' = done, tries' = tries,
           \A p \in Procs : /\ InPush(p)' <=> InPush(p)
                            /\ InPush(p) => promoting'[p] = promoting[p],
           \A v \in Workers : /\ pc[v] \in Holding \/ pc'[v] \in Holding =>
                                  InHand(v)' = InHand(v) /\ (pc'[v] = "bury" <=> pc[v] = "bury")
                              /\ pc[v] \in Holding => held'[v] = held[v]
    PROVE  Hands' /\ Placed' /\ [j \in Jobs |-> Phase(j)]' = [j \in Jobs |-> Phase(j)]
<1> USE DEF Holding
<1>1. Hands'
  BY DEF Full, Hands
<1>2. \A j \in Jobs : (IsRunning(j)' <=> IsRunning(j)) /\ (IsBurying(j)' <=> IsBurying(j))
  BY DEF IsRunning, IsBurying
<1>3. \A j \in Jobs : Untouched(j)
  BY <1>2, Frame DEF Untouched
<1>4. Placed'
  BY <1>3, UntouchedStays DEF Full, Placed
<1>5. \A j \in Jobs : Phase(j)' = Phase(j)
  BY <1>3, UntouchedStays
<1> QED BY <1>1, <1>4, <1>5

-----------------------------------------------------------------------------
(* The steps of the queue as steps of the lifecycle.                        *)

(* The lifecycle without a crash: only a failing command loses a job.       *)
Calm == INSTANCE JobLifecycle WITH
    phase <- [j \in Jobs |-> Phase(j)],
    calls <- tries,
    Lossy <- RedisFaults # {}

Simulated == Hands' /\ Placed' /\ [Calm!Next]_<<[j \in Jobs |-> Phase(j)], tries>>

LEMMA QuietSimulated ==
    ASSUME Full, unsent' = unsent, queue' = queue, delayed' = delayed, dlq' = dlq,
           done' = done, tries' = tries,
           \A p \in Procs : /\ InPush(p)' <=> InPush(p)
                            /\ InPush(p) => promoting'[p] = promoting[p],
           \A v \in Workers : /\ pc[v] \in Holding \/ pc'[v] \in Holding =>
                                  InHand(v)' = InHand(v) /\ (pc'[v] = "bury" <=> pc[v] = "bury")
                              /\ pc[v] \in Holding => held'[v] = held[v]
    PROVE  Simulated
BY QuietStep DEF Simulated

LEMMA EnqueueSimulated ==
    ASSUME Full, NEW k \in Jobs, NEW priority \in Priorities, Enqueue(k, priority)
    PROVE  Simulated
<1> DEFINE e == [job |-> k, attempt |-> 0]
<1>1. QueueForPriority(priority) \in Lists
  BY PriorityAssumption DEF QueueForPriority, Lists, DefaultList
<1>2. e \in Waiting /\ e.job = k
  BY AttemptAssumption DEF Waiting
<1>3. /\ k \in unsent /\ unsent' = unsent \ {k} /\ queue' = Pushed(QueueForPriority(priority), e)
      /\ delayed' = delayed /\ dlq' = dlq /\ done' = done /\ tries' = tries
      /\ pc' = pc /\ held' = held /\ sched' = sched /\ promoting' = promoting
  BY DEF Enqueue, workers, scheduler, history
<1> HIDE DEF e
<1>4. \A j \in Jobs : OnList(j)' <=> OnList(j) \/ j = k
  BY <1>1, <1>2, <1>3, PushPlace
<1>5. IsAt(k, "new")
  BY <1>3, OnlyThere DEF Full
<1>6. IsAt(k, "ready")'
  BY <1>3, <1>4, <1>5, Frame DEF IsAt
<1>7. \A j \in Jobs \ {k} : Untouched(j)
  BY <1>3, <1>4, Frame DEF Untouched
<1>8. Hands'
  BY <1>3 DEF Full, Hands
<1>9. /\ Placed' /\ Phase(k) = "new"
      /\ [j \in Jobs |-> Phase(j)]' = [[j \in Jobs |-> Phase(j)] EXCEPT ![k] = "ready"]
  BY <1>5, <1>6, <1>7, MoveStep DEF Full, Places, PhaseAt
<1>10. Calm!Send(k)
  BY <1>3, <1>9 DEF Calm!Send, Calm!Move
<1> QED BY <1>8, <1>9, <1>10 DEF Simulated, Calm!Next

LEMMA EnqueueDelayedSimulated ==
    ASSUME Full, NEW k \in Jobs, EnqueueDelayed(k)
    PROVE  Simulated
<1>1. /\ k \in unsent /\ unsent' = unsent \ {k} /\ queue' = queue
      /\ delayed' = delayed \cup {[job |-> k, attempt |-> 0]}
      /\ dlq' = dlq /\ done' = done /\ tries' = tries
      /\ pc' = pc /\ held' = held /\ sched' = sched /\ promoting' = promoting
  BY DEF EnqueueDelayed, workers, scheduler, history
<1>2. \A j \in Jobs : IsDelayed(j)' <=> IsDelayed(j) \/ j = k
  <2> PICK e : e = [job |-> k, attempt |-> 0]
    OBVIOUS
  <2>1. e.job = k /\ delayed' = delayed \cup {e}
    BY <1>1
  <2> QED BY <2>1 DEF IsDelayed
<1>3. IsAt(k, "new")
  BY <1>1, OnlyThere DEF Full
<1>4. IsAt(k, "waiting")'
  BY <1>1, <1>2, <1>3, Frame DEF IsAt
<1>5. \A j \in Jobs \ {k} : Untouched(j)
  BY <1>1, <1>2, Frame DEF Untouched
<1>6. Hands'
  BY <1>1 DEF Full, Hands
<1>7. /\ Placed' /\ Phase(k) = "new"
      /\ [j \in Jobs |-> Phase(j)]' = [[j \in Jobs |-> Phase(j)] EXCEPT ![k] = "waiting"]
  BY <1>3, <1>4, <1>5, MoveStep DEF Full, Places, PhaseAt
<1>8. Calm!Send(k)
  BY <1>1, <1>7 DEF Calm!Send, Calm!Move
<1> QED BY <1>6, <1>7, <1>8 DEF Simulated, Calm!Next

(* A pop: the job begins.                                                   *)
LEMMA BeginSimulated ==
    ASSUME Full, NEW w \in Workers, pc[w] \notin Holding,
           NEW l \in Lists, queue[l] # <<>>, queue' = Popped(l), Process(w, Head(queue[l])),
           UNCHANGED <<unsent, delayed, due, dlq, scheduler, done>>
    PROVE  Simulated
<1> PICK e : e = Head(queue[l])
  OBVIOUS
<1> PICK k : k = e.job
  OBVIOUS
<1>1. /\ e \in Waiting /\ k \in Jobs /\ OnList(k) /\ e.attempt = tries[k] /\ ~OnList(k)'
      /\ \A j \in Jobs \ {k} : OnList(j)' <=> OnList(j)
  BY PopPlace
<1>2. /\ pc' = [pc EXCEPT ![w] = IF k \in Unhandled THEN "bury" ELSE "handle"]
      /\ held'[w].job = k
      /\ \A v \in Workers \ {w} : held'[v] = held[v]
      /\ IF k \in Unhandled THEN tries' = tries ELSE tries' = [tries EXCEPT ![k] = @ + 1]
  BY <1>1, ProcessType DEF Full, Inductive
<1>3. pc \in [Workers -> {"off", "check", "brpop", "drain", "handle", "retry", "bury", "exited"}]
  BY DEF Full, Inductive, TypeOK
<1>4. pc'[w] = (IF k \in Unhandled THEN "bury" ELSE "handle") /\ \A v \in Workers \ {w} : pc'[v] = pc[v]
  BY <1>2, <1>3
<1>5. IsAt(k, "ready") /\ k \in Jobs
  BY <1>1, OnlyThere DEF Full
<1>6. \A v \in Workers : pc[v] \in Holding => held[v].job # k
  BY <1>5 DEF IsAt, IsRunning, IsBurying, Holding
<1>7. \A j \in Jobs \ {k} : tries'[j] = tries[j]
  <2>1. tries \in [Jobs -> Nat]
    BY DEF Full, Inductive, TypeOK
  <2> QED BY <1>2, <2>1
<1>8. /\ Hands' /\ (IsRunning(k)' <=> InHand(w)') /\ (IsBurying(k)' <=> pc'[w] = "bury")
      /\ \A j \in Jobs \ {k} : (IsRunning(j)' <=> IsRunning(j)) /\ (IsBurying(j)' <=> IsBurying(j))
  BY <1>1, <1>2, <1>4, <1>6, <1>7, HandsStep DEF Holding
<1>9. sched' = sched /\ promoting' = promoting
  BY DEF scheduler
<1>10. \A j \in Jobs \ {k} : Untouched(j)
  BY <1>1, <1>8, <1>9, Frame DEF Untouched
<1>11. tries[k] \in Nat /\ tries[k] < MaxAttempts /\ tries \in [Jobs -> Nat]
  BY <1>1, AttemptAssumption DEF Waiting, Full, Inductive, TypeOK
<1>12. CASE k \in Unhandled
  <2>1. IsAt(k, "burying")'
    BY <1>1, <1>4, <1>5, <1>8, <1>9, <1>12, Frame DEF IsAt
  <2>2. /\ Placed' /\ Phase(k) = "ready"
        /\ [j \in Jobs |-> Phase(j)]' = [[j \in Jobs |-> Phase(j)] EXCEPT ![k] = "running"]
    BY <1>1, <1>5, <1>10, <2>1, MoveStep DEF Full, Places, PhaseAt
  <2>3. Calm!Begin(k)
    BY <1>1, <1>2, <1>12, <2>2 DEF Calm!Begin, Calm!Move
  <2> QED BY <1>1, <1>8, <2>2, <2>3 DEF Simulated, Calm!Next
<1>13. CASE k \notin Unhandled
  <2>1. IsAt(k, "running")'
    BY <1>1, <1>4, <1>5, <1>8, <1>9, <1>13, Frame DEF IsAt
  <2>2. /\ Placed' /\ Phase(k) = "ready"
        /\ [j \in Jobs |-> Phase(j)]' = [[j \in Jobs |-> Phase(j)] EXCEPT ![k] = "running"]
    BY <1>1, <1>5, <1>10, <2>1, MoveStep DEF Full, Places, PhaseAt
  <2>3. Calm!Begin(k)
    BY <1>1, <1>2, <1>11, <1>13, <2>2 DEF Calm!Begin, Calm!Move
  <2> QED BY <1>1, <1>8, <2>2, <2>3 DEF Simulated, Calm!Next
<1> QED BY <1>12, <1>13

(* What a worker with a job in hand knows.                                  *)
LEMMA InHandFacts ==
    ASSUME Full, NEW w \in Workers, pc[w] \in Holding, NEW k, k = held[w].job
    PROVE  /\ k \in Jobs /\ held[w] \in Entry
           /\ \A v \in Workers \ {w} : pc[v] \in Holding => held[v].job # k
           /\ InHand(w) => /\ IsAt(k, "running") /\ k \notin Unhandled
                           /\ held[w].attempt = tries[k]
           /\ pc[w] = "bury" => /\ IsAt(k, "burying")
                                /\ k \in Unhandled \/ tries[k] = MaxAttempts \/ RedisFaults # {}
<1> USE DEF Holding
<1>1. k \in Jobs /\ held[w] \in Entry
  BY DEF Full, Inductive, Control, Entry
<1>2. \A v \in Workers \ {w} : pc[v] \in Holding => held[v].job # k
  BY DEF Full, Hands
<1>3. ASSUME InHand(w)
      PROVE  IsAt(k, "running") /\ k \notin Unhandled /\ held[w].attempt = tries[k]
  <2>1. IsRunning(k)
    BY <1>3 DEF IsRunning
  <2>2. k \notin Unhandled /\ held[w].attempt = tries[k]
    BY <1>3 DEF Full, Hands, Inductive, AttemptCountsCalls
  <2> QED BY <1>1, <2>1, <2>2, OnlyThere DEF Full
<1>4. ASSUME pc[w] = "bury"
      PROVE  IsAt(k, "burying") /\ (k \in Unhandled \/ tries[k] = MaxAttempts \/ RedisFaults # {})
  <2>1. IsBurying(k)
    BY <1>4 DEF IsBurying
  <2>2. k \in Unhandled \/ tries[k] = MaxAttempts \/ RedisFaults # {}
    BY <1>4 DEF Full, Hands
  <2> QED BY <1>1, <2>1, <2>2, OnlyThere DEF Full
<1> QED BY <1>1, <1>2, <1>3, <1>4

LEMMA SucceedSimulated ==
    ASSUME Full, Control, NEW w \in Workers, HandlerSucceeds(w)
    PROVE  Simulated
<1> PICK k : k = held[w].job
  OBVIOUS
<1>1. /\ pc[w] = "handle" /\ Return(w) /\ done' = done \cup {k}
      /\ UNCHANGED <<unsent, queue, delayed, dlq, tries, sched, promoting>>
  BY DEF HandlerSucceeds, redis, scheduler
<1>2. /\ k \in Jobs /\ IsAt(k, "running") /\ k \notin Unhandled
      /\ \A v \in Workers \ {w} : pc[v] \in Holding => held[v].job # k
  BY <1>1, InHandFacts DEF Holding
<1>3. /\ pc'[w] \notin Holding
      /\ \A v \in Workers \ {w} : pc'[v] = pc[v] /\ held'[v] = held[v]
  BY <1>1, ReturnType DEF Full, Inductive, Holding
<1>4. /\ Hands' /\ ~IsRunning(k)' /\ ~IsBurying(k)'
      /\ \A j \in Jobs \ {k} : (IsRunning(j)' <=> IsRunning(j)) /\ (IsBurying(j)' <=> IsBurying(j))
  BY <1>1, <1>2, <1>3, HandsStep DEF Holding
<1>5. \A j \in Jobs \ {k} : Untouched(j)
  BY <1>1, <1>4, Frame DEF Untouched
<1>6. IsAt(k, "done")'
  BY <1>1, <1>2, <1>4, Frame DEF IsAt
<1>7. /\ Placed' /\ Phase(k) = "running"
      /\ [j \in Jobs |-> Phase(j)]' = [[j \in Jobs |-> Phase(j)] EXCEPT ![k] = "done"]
  BY <1>2, <1>5, <1>6, MoveStep DEF Full, Places, PhaseAt
<1>8. Calm!Succeed(k)
  BY <1>1, <1>2, <1>7 DEF Calm!Succeed, Calm!Move
<1> QED BY <1>2, <1>4, <1>7, <1>8 DEF Simulated, Calm!Next

(* A worker turns to bury the job it ran: no move in the lifecycle yet.     *)
LEMMA TurnSimulated ==
    ASSUME Full, NEW w \in Workers, InHand(w),
           pc' = [pc EXCEPT ![w] = "bury"], held' = held,
           held[w].attempt = MaxAttempts \/ RedisFaults # {},
           UNCHANGED <<unsent, queue, delayed, dlq, tries, sched, promoting, done>>
    PROVE  Simulated
<1> PICK k : k = held[w].job
  OBVIOUS
<1>1. /\ k \in Jobs /\ IsAt(k, "running") /\ held[w].attempt = tries[k]
      /\ \A v \in Workers \ {w} : pc[v] \in Holding => held[v].job # k
  BY InHandFacts DEF Holding
<1>2. pc'[w] = "bury" /\ \A v \in Workers \ {w} : pc'[v] = pc[v] /\ held'[v] = held[v]
  BY DEF Full, Inductive, TypeOK
<1>3. /\ Hands' /\ ~IsRunning(k)' /\ IsBurying(k)'
      /\ \A j \in Jobs \ {k} : (IsRunning(j)' <=> IsRunning(j)) /\ (IsBurying(j)' <=> IsBurying(j))
  BY <1>1, <1>2, HandsStep DEF Holding
<1>4. \A j \in Jobs \ {k} : Untouched(j)
  BY <1>3, Frame DEF Untouched
<1>5. IsAt(k, "burying")'
  BY <1>1, <1>3, Frame DEF IsAt
<1>6. /\ Placed' /\ Phase(k) = "running"
      /\ [j \in Jobs |-> Phase(j)]' = [[j \in Jobs |-> Phase(j)] EXCEPT ![k] = "running"]
  BY <1>1, <1>4, <1>5, MoveStep DEF Full, Places, PhaseAt
<1>7. [j \in Jobs |-> Phase(j)]' = [j \in Jobs |-> Phase(j)]
  BY <1>1, <1>6
<1> QED BY <1>3, <1>6, <1>7 DEF Simulated

LEMMA FailSimulated ==
    ASSUME Full, NEW w \in Workers, HandlerFails(w)
    PROVE  Simulated
<1>1. /\ pc[w] = "handle" /\ held' = held
      /\ UNCHANGED <<unsent, queue, delayed, dlq, tries, sched, promoting, done>>
  BY DEF HandlerFails, redis, scheduler, history
<1>2. pc \in [Workers -> {"off", "check", "brpop", "drain", "handle", "retry", "bury", "exited"}]
  BY DEF Full, Inductive, TypeOK
<1>3. CASE pc' = [pc EXCEPT ![w] = "retry"]
  <2>1. pc'[w] = "retry" /\ \A v \in Workers \ {w} : pc'[v] = pc[v]
    BY <1>2, <1>3
  <2> QED BY <1>1, <2>1, QuietSimulated DEF Holding
<1>4. CASE ~ShouldRetry(held[w]) /\ pc' = [pc EXCEPT ![w] = "bury"]
  <2>1. held[w] \in Entry
    BY <1>1, InHandFacts DEF Holding
  <2>2. held[w].attempt = MaxAttempts
    BY <1>4, <2>1, AttemptAssumption DEF ShouldRetry, Entry
  <2> QED BY <1>1, <1>4, <2>2, TurnSimulated
<1> QED BY <1>3, <1>4 DEF HandlerFails

LEMMA RetrySimulated ==
    ASSUME "unacked" \notin RedisFaults, Full, NEW w \in Workers, ScheduleRetry(w)
    PROVE  Simulated
<1> PICK e : e = held[w]
  OBVIOUS
<1> PICK k : k = e.job
  OBVIOUS
<1>1. /\ pc[w] = "retry"
      /\ UNCHANGED <<unsent, queue, dlq, tries, sched, promoting, done>>
  BY DEF ScheduleRetry, scheduler, history
<1>2. /\ k \in Jobs /\ IsAt(k, "running") /\ k \notin Unhandled /\ e.attempt = tries[k]
      /\ \A v \in Workers \ {w} : pc[v] \in Holding => held[v].job # k
  BY <1>1, InHandFacts DEF Holding
<1>3. tries[k] < MaxAttempts
  BY <1>1, <1>2, AttemptAssumption DEF Full, Inductive, Control, Waiting
<1>4. \/ delayed' = delayed \cup {e} /\ Return(w)
      \/ /\ RedisFaults # {} /\ delayed' = delayed
         /\ pc' = [pc EXCEPT ![w] = "bury"] /\ held' = held
  BY FaultAssumption DEF ScheduleRetry, Outcome, Applied, Acked
<1>5. CASE RedisFaults # {} /\ delayed' = delayed /\ pc' = [pc EXCEPT ![w] = "bury"] /\ held' = held
  BY <1>1, <1>5, TurnSimulated
<1>6. CASE delayed' = delayed \cup {e} /\ Return(w)
  <2>1. /\ pc'[w] \notin Holding
        /\ \A v \in Workers \ {w} : pc'[v] = pc[v] /\ held'[v] = held[v]
    BY <1>6, ReturnType DEF Full, Inductive, Holding
  <2>2. /\ Hands' /\ ~IsRunning(k)' /\ ~IsBurying(k)'
        /\ \A j \in Jobs \ {k} : (IsRunning(j)' <=> IsRunning(j)) /\ (IsBurying(j)' <=> IsBurying(j))
    BY <1>1, <1>2, <2>1, HandsStep DEF Holding
  <2>3. \A j \in Jobs : IsDelayed(j)' <=> IsDelayed(j) \/ j = k
    BY <1>6 DEF IsDelayed
  <2>4. \A j \in Jobs \ {k} : Untouched(j)
    BY <1>1, <2>2, <2>3, Frame DEF Untouched
  <2>5. IsAt(k, "waiting")'
    BY <1>1, <1>2, <2>2, <2>3, Frame DEF IsAt
  <2>6. /\ Placed' /\ Phase(k) = "running"
        /\ [j \in Jobs |-> Phase(j)]' = [[j \in Jobs |-> Phase(j)] EXCEPT ![k] = "waiting"]
    BY <1>2, <2>4, <2>5, MoveStep DEF Full, Places, PhaseAt
  <2>7. Calm!Retry(k)
    BY <1>1, <1>2, <1>3, <2>6 DEF Calm!Retry, Calm!Move
  <2> QED BY <1>2, <2>2, <2>6, <2>7 DEF Simulated, Calm!Next
<1> QED BY <1>4, <1>5, <1>6

(* One job is lost.                                                         *)
LEMMA LoseOne ==
    ASSUME NEW k \in Jobs, RedisFaults # {}, tries' = tries,
           Phase(k) \in {"promoting", "running"},
           [j \in Jobs |-> Phase(j)]' = [[j \in Jobs |-> Phase(j)] EXCEPT ![k] = "lost"]
    PROVE  Calm!Next
<1>1. Calm!Lose({k})
  <2>1. [j \in Jobs |-> Phase(j)]'
          = [j \in Jobs |-> IF j \in {k} THEN "lost" ELSE [i \in Jobs |-> Phase(i)][j]]
    OBVIOUS
  <2>2. \A j \in {k} : [i \in Jobs |-> Phase(i)][j] \in {"promoting", "running"}
    OBVIOUS
  <2> QED BY <2>1, <2>2 DEF Calm!Lose
<1> QED BY <1>1 DEF Calm!Next

LEMMA BurySimulated ==
    ASSUME "unacked" \notin RedisFaults, Full, NEW w \in Workers, Bury(w)
    PROVE  Simulated
<1> PICK e : e = held[w]
  OBVIOUS
<1> PICK k : k = e.job
  OBVIOUS
<1>1. /\ pc[w] = "bury" /\ Return(w)
      /\ UNCHANGED <<unsent, queue, delayed, tries, sched, promoting, done>>
  BY DEF Bury, scheduler, history
<1>2. /\ k \in Jobs /\ e \in Entry /\ IsAt(k, "burying")
      /\ k \in Unhandled \/ tries[k] = MaxAttempts \/ RedisFaults # {}
      /\ \A v \in Workers \ {w} : pc[v] \in Holding => held[v].job # k
  BY <1>1, InHandFacts DEF Holding
<1>3. dlq' = Append(dlq, e) \/ (RedisFaults # {} /\ dlq' = dlq)
  BY FaultAssumption DEF Bury, Outcome, Applied
<1>4. /\ pc'[w] \notin Holding
      /\ \A v \in Workers \ {w} : pc'[v] = pc[v] /\ held'[v] = held[v]
  BY <1>1, ReturnType DEF Full, Inductive, Holding
<1>5. /\ Hands' /\ ~IsRunning(k)' /\ ~IsBurying(k)'
      /\ \A j \in Jobs \ {k} : (IsRunning(j)' <=> IsRunning(j)) /\ (IsBurying(j)' <=> IsBurying(j))
  BY <1>1, <1>2, <1>4, HandsStep DEF Holding
<1>6. CASE dlq' = Append(dlq, e)
  <2>1. \A j \in Jobs : IsBuried(j)' <=> IsBuried(j) \/ j = k
    BY <1>2, <1>6, BuryPlace DEF Full, Inductive
  <2>2. \A j \in Jobs \ {k} : Untouched(j)
    BY <1>1, <1>5, <2>1, Frame DEF Untouched
  <2>3. IsAt(k, "dead")'
    BY <1>1, <1>2, <1>5, <2>1, Frame DEF IsAt
  <2>4. /\ Placed' /\ Phase(k) = "running"
        /\ [j \in Jobs |-> Phase(j)]' = [[j \in Jobs |-> Phase(j)] EXCEPT ![k] = "dead"]
    BY <1>2, <2>2, <2>3, MoveStep DEF Full, Places, PhaseAt
  <2>5. Calm!GiveUp(k)
    BY <1>1, <1>2, <2>4 DEF Calm!GiveUp, Calm!Move
  <2> QED BY <1>2, <1>5, <2>4, <2>5 DEF Simulated, Calm!Next
<1>7. CASE RedisFaults # {} /\ dlq' = dlq
  <2>1. \A j \in Jobs \ {k} : Untouched(j)
    BY <1>1, <1>5, <1>7, Frame DEF Untouched
  <2>2. IsAt(k, "lost")'
    BY <1>1, <1>2, <1>5, <1>7, Frame DEF IsAt
  <2>3. /\ Placed' /\ Phase(k) = "running"
        /\ [j \in Jobs |-> Phase(j)]' = [[j \in Jobs |-> Phase(j)] EXCEPT ![k] = "lost"]
    BY <1>2, <2>1, <2>2, MoveStep DEF Full, Places, PhaseAt
  <2>4. Calm!Next
    BY <1>1, <1>2, <1>7, <2>3, LoseOne
  <2> QED BY <1>5, <2>3, <2>4 DEF Simulated
<1> QED BY <1>3, <1>6, <1>7

LEMMA ClaimSimulated ==
    ASSUME Full, NEW p \in Procs, NEW e \in batch[p], Claim(p, e)
    PROVE  Simulated
<1> PICK k : k = e.job
  OBVIOUS
<1>1. /\ sched[p] = "promote" /\ e \in delayed /\ delayed' = delayed \ {e}
      /\ UNCHANGED <<unsent, queue, dlq, pc, held, done, tries>>
      /\ promoting' = [promoting EXCEPT ![p] = e] /\ sched' = [sched EXCEPT ![p] = "push"]
  BY DEF Claim, workers, history
<1>2. k \in Jobs /\ IsDelayed(k)
  BY <1>1 DEF Full, Inductive, TypeOK, Waiting, IsDelayed
<1>3. IsAt(k, "waiting")
  BY <1>2, OnlyThere DEF Full
<1>4. \A j \in Jobs : IsDelayed(j)' <=> IsDelayed(j) /\ j # k
  BY <1>1 DEF Full, Inductive, SingleOwner, DelayedOnce, IsDelayed
<1>5. /\ sched'[p] = "push" /\ promoting'[p] = e
      /\ \A q \in Procs \ {p} : sched'[q] = sched[q] /\ promoting'[q] = promoting[q]
  BY <1>1 DEF Full, Inductive, TypeOK
<1>6. \A j \in Jobs : IsPromoting(j)' <=> IsPromoting(j) \/ j = k
  BY <1>1, <1>5 DEF IsPromoting
<1>7. IsAt(k, "promoting")'
  BY <1>1, <1>2, <1>3, <1>4, <1>6, Frame DEF IsAt
<1>8. \A j \in Jobs \ {k} : Untouched(j)
  BY <1>1, <1>4, <1>6, Frame DEF Untouched
<1>9. Hands'
  BY <1>1 DEF Full, Hands
<1>10. /\ Placed' /\ Phase(k) = "waiting"
       /\ [j \in Jobs |-> Phase(j)]' = [[j \in Jobs |-> Phase(j)] EXCEPT ![k] = "promoting"]
  BY <1>2, <1>3, <1>7, <1>8, MoveStep DEF Full, Places, PhaseAt
<1>11. Calm!Claim(k)
  BY <1>1, <1>2, <1>10 DEF Calm!Claim, Calm!Move
<1> QED BY <1>2, <1>9, <1>10, <1>11 DEF Simulated, Calm!Next

LEMMA PromoteSimulated ==
    ASSUME "unacked" \notin RedisFaults, Full, NEW p \in Procs, Promote(p)
    PROVE  Simulated
<1> PICK e : e = promoting[p]
  OBVIOUS
<1> PICK k : k = e.job
  OBVIOUS
<1>1. /\ sched[p] = "push"
      /\ UNCHANGED <<unsent, delayed, dlq, pc, held, done, tries>>
      /\ promoting' = [promoting EXCEPT ![p] = None]
      /\ sched' = [sched EXCEPT ![p] = AfterMember(batch[p])]
  BY DEF Promote, workers, history
<1>2. e \in Waiting /\ k \in Jobs /\ IsPromoting(k)
  BY <1>1 DEF Full, Inductive, Control, Waiting, IsPromoting
<1>3. IsAt(k, "promoting")
  BY <1>2, OnlyThere DEF Full
<1>4. /\ sched'[p] # "push"
      /\ \A q \in Procs \ {p} : sched'[q] = sched[q] /\ promoting'[q] = promoting[q]
  BY <1>1 DEF Full, Inductive, TypeOK, AfterMember
<1>5. \A j \in Jobs : IsPromoting(j)' <=> IsPromoting(j) /\ j # k
  BY <1>1, <1>2, <1>4 DEF Full, Inductive, SingleOwner, PromotedOnce, IsPromoting
<1>6. Hands'
  BY <1>1 DEF Full, Hands
<1>7. queue' = Pushed(DefaultList, e) \/ (RedisFaults # {} /\ queue' = queue)
  BY FaultAssumption DEF Promote, Outcome, Applied
<1>8. CASE queue' = Pushed(DefaultList, e)
  <2>1. \A j \in Jobs : OnList(j)' <=> OnList(j) \/ j = k
    BY <1>2, <1>8, PushPlace DEF DefaultList, Lists
  <2>2. IsAt(k, "ready")'
    BY <1>1, <1>3, <1>5, <2>1, <1>2, Frame DEF IsAt
  <2>3. \A j \in Jobs \ {k} : Untouched(j)
    BY <1>1, <1>5, <2>1, Frame DEF Untouched
  <2>4. /\ Placed' /\ Phase(k) = "promoting"
        /\ [j \in Jobs |-> Phase(j)]' = [[j \in Jobs |-> Phase(j)] EXCEPT ![k] = "ready"]
    BY <1>2, <1>3, <2>2, <2>3, MoveStep DEF Full, Places, PhaseAt
  <2>5. Calm!Promote(k)
    BY <1>1, <1>2, <2>4 DEF Calm!Promote, Calm!Move
  <2> QED BY <1>2, <1>6, <2>4, <2>5 DEF Simulated, Calm!Next
<1>9. CASE RedisFaults # {} /\ queue' = queue
  <2>1. IsAt(k, "lost")'
    BY <1>1, <1>2, <1>3, <1>5, <1>9, Frame DEF IsAt
  <2>2. \A j \in Jobs \ {k} : Untouched(j)
    BY <1>1, <1>5, <1>9, Frame DEF Untouched
  <2>3. /\ Placed' /\ Phase(k) = "promoting"
        /\ [j \in Jobs |-> Phase(j)]' = [[j \in Jobs |-> Phase(j)] EXCEPT ![k] = "lost"]
    BY <1>2, <1>3, <2>1, <2>2, MoveStep DEF Full, Places, PhaseAt
  <2>4. Calm!Next
    BY <1>1, <1>2, <1>9, <2>3, LoseOne
  <2> QED BY <1>6, <2>3, <2>4 DEF Simulated
<1> QED BY <1>7, <1>8, <1>9

(* A crash loses what the goroutines of the process held, together.         *)
LEMMA CrashSimulated ==
    ASSUME Full, NEW p \in Procs, Crash(p)
    PROVE  Hands' /\ Placed' /\ Lifecycle!Next
<1> PICK S : S = {j \in Jobs : \/ \E w \in Workers : w[1] = p /\ pc[w] \in Holding /\ held[w].job = j
                               \/ InPush(p) /\ promoting[p].job = j}
  OBVIOUS
<1>1. /\ UNCHANGED <<unsent, queue, delayed, dlq, done, tries>>
      /\ pc' = [w \in Workers |-> IF w[1] = p THEN "off" ELSE pc[w]]
      /\ held' = [w \in Workers |-> IF w[1] = p THEN None ELSE held[w]]
      /\ sched' = [sched EXCEPT ![p] = "off"] /\ promoting' = [promoting EXCEPT ![p] = None]
      /\ MaxCrashes > 0
  BY BoundAssumption DEF Crash, redis, Full, Inductive, TypeOK
<1>2. /\ \A w \in Workers : IF w[1] = p THEN pc'[w] \notin Holding
                                        ELSE pc'[w] = pc[w] /\ held'[w] = held[w]
      /\ sched'[p] # "push"
      /\ \A q \in Procs \ {p} : sched'[q] = sched[q] /\ promoting'[q] = promoting[q]
  BY <1>1 DEF Full, Inductive, TypeOK, Holding
<1>3. Hands'
  BY <1>1, <1>2 DEF Full, Hands, Holding
<1>4. ASSUME NEW j \in Jobs \ S PROVE Untouched(j)
  <2>1. (IsRunning(j)' <=> IsRunning(j)) /\ (IsBurying(j)' <=> IsBurying(j))
    BY <1>2, <1>4 DEF IsRunning, IsBurying, Holding
  <2>2. IsPromoting(j)' <=> IsPromoting(j)
    BY <1>2, <1>4 DEF IsPromoting
  <2> QED BY <1>1, <2>1, <2>2, Frame DEF Untouched
<1>5. ASSUME NEW j \in S PROVE IsAt(j, "lost")' /\ Phase(j) \in {"promoting", "running"}
  <2>1. j \in Jobs
    OBVIOUS
  <2>2. CASE InPush(p) /\ promoting[p].job = j
    <3>1. IsAt(j, "promoting")
      BY <2>1, <2>2, OnlyThere DEF Full, IsPromoting
    <3>2. ~IsPromoting(j)'
      BY <1>2, <2>2 DEF Full, Inductive, SingleOwner, PromotedOnce, IsPromoting
    <3>3. ~IsRunning(j)' /\ ~IsBurying(j)'
      BY <1>2, <3>1 DEF IsAt, IsRunning, IsBurying, Holding
    <3>4. IsAt(j, "lost")'
      BY <1>1, <3>1, <3>2, <3>3, Frame DEF IsAt
    <3> QED BY <3>1, <3>4, PhaseOfPlace DEF Places, PhaseAt
  <2>3. ASSUME NEW w \in Workers, w[1] = p, pc[w] \in Holding, held[w].job = j
        PROVE  IsAt(j, "lost")' /\ Phase(j) \in {"promoting", "running"}
    <3>1. /\ IsAt(j, "running") \/ IsAt(j, "burying")
          /\ \A v \in Workers \ {w} : pc[v] \in Holding => held[v].job # j
      BY <2>3, InHandFacts DEF Holding
    <3>2. ~IsRunning(j)' /\ ~IsBurying(j)'
      BY <1>2, <2>3, <3>1 DEF IsRunning, IsBurying, Holding
    <3>3. ~IsPromoting(j)'
      BY <1>2, <3>1 DEF IsAt, IsPromoting
    <3>4. IsAt(j, "lost")'
      BY <1>1, <3>1, <3>2, <3>3, Frame DEF IsAt
    <3>5. Phase(j) = "running"
      BY <3>1, PhaseOfPlace DEF Places, PhaseAt
    <3> QED BY <3>4, <3>5
  <2> QED BY <2>2, <2>3
<1>6. Placed'
  BY <1>4, <1>5, UntouchedStays DEF Full, Placed, Places
<1>7. \A j \in Jobs : Phase(j)' = IF j \in S THEN "lost" ELSE Phase(j)
  <2>1. ASSUME NEW j \in S PROVE Phase(j)' = "lost"
    BY <1>5, <2>1, PhaseOfPlaceNext DEF Places, PhaseAt
  <2> QED BY <1>4, <2>1, UntouchedStays
<1>8. Lifecycle!Lose(S)
  <2>1. [j \in Jobs |-> Phase(j)]'
          = [j \in Jobs |-> IF j \in S THEN "lost" ELSE [i \in Jobs |-> Phase(i)][j]]
    BY <1>7
  <2>2. \A j \in S : [i \in Jobs |-> Phase(i)][j] \in {"promoting", "running"}
    BY <1>5
  <2> QED BY <1>1, <2>1, <2>2 DEF Lifecycle!Lose
<1>9. S \in SUBSET Jobs
  OBVIOUS
<1> QED BY <1>3, <1>6, <1>8, <1>9 DEF Lifecycle!Next

-----------------------------------------------------------------------------
LEMMA WorkerSimulated ==
    ASSUME "unacked" \notin RedisFaults, Full, NEW w \in Workers, WorkerStep(w)
    PROVE  Simulated
<1> USE DEF Holding
<1>0. pc \in [Workers -> {"off", "check", "brpop", "drain", "handle", "retry", "bury", "exited"}]
  BY DEF Full, Inductive, TypeOK
<1>1. CASE Observe(w)
  <2>1. /\ pc[w] = "check" /\ pc'[w] \in {"drain", "brpop"} /\ held' = held
        /\ \A v \in Workers \ {w} : pc'[v] = pc[v]
        /\ UNCHANGED <<unsent, queue, delayed, dlq, done, tries, sched, promoting>>
    BY <1>0, <1>1 DEF Observe, redis, scheduler, history
  <2> QED BY <2>1, QuietSimulated
<1>2. CASE BRPop(w)
  <2>1. PICK l \in Lists : /\ queue[l] # <<>> /\ queue' = Popped(l) /\ Process(w, Head(queue[l]))
    BY <1>2, FaultAssumption DEF BRPop, FirstReady, Outcome, Acked
  <2>2. pc[w] \notin Holding /\ UNCHANGED <<unsent, delayed, due, dlq, scheduler, done>>
    BY <1>2 DEF BRPop
  <2> QED BY <2>1, <2>2, BeginSimulated
<1>3. CASE BRPopNothing(w)
  <2>1. /\ pc[w] = "brpop" /\ pc'[w] = "check" /\ held' = held
        /\ \A v \in Workers \ {w} : pc'[v] = pc[v]
        /\ UNCHANGED <<unsent, queue, delayed, dlq, done, tries, sched, promoting>>
    BY <1>0, <1>3 DEF BRPopNothing, redis, scheduler, history
  <2> QED BY <2>1, QuietSimulated
<1>4. CASE DrainPop(w)
  <2>1. /\ scan[w] \in Lists /\ queue[scan[w]] # <<>> /\ queue' = Popped(scan[w])
        /\ Process(w, Head(queue[scan[w]])) /\ pc[w] \notin Holding
        /\ UNCHANGED <<unsent, delayed, due, dlq, scheduler, done>>
    BY <1>4 DEF DrainPop, Full, Inductive, Control
  <2> QED BY <2>1, BeginSimulated
<1>5. CASE DrainSkip(w)
  <2>1. /\ pc[w] = "drain" /\ pc'[w] \in {"drain", "exited"} /\ held' = held
        /\ \A v \in Workers \ {w} : pc'[v] = pc[v]
        /\ UNCHANGED <<unsent, queue, delayed, dlq, done, tries, sched, promoting>>
    BY <1>0, <1>5 DEF DrainSkip, scheduler, history
  <2> QED BY <2>1, QuietSimulated
<1>6. CASE HandlerSucceeds(w)
  BY <1>6, SucceedSimulated DEF Full, Inductive
<1>7. CASE HandlerFails(w)
  BY <1>7, FailSimulated
<1>8. CASE ScheduleRetry(w)
  BY <1>8, RetrySimulated
<1>9. CASE Bury(w)
  BY <1>9, BurySimulated
<1> QED BY <1>1, <1>2, <1>3, <1>4, <1>5, <1>6, <1>7, <1>8, <1>9 DEF WorkerStep

LEMMA SchedulerSimulated ==
    ASSUME "unacked" \notin RedisFaults, Full, NEW p \in Procs, SchedulerStep(p)
    PROVE  Simulated
<1>0. sched \in [Procs -> {"off", "tick", "promote", "push", "exited"}]
  BY DEF Full, Inductive, TypeOK
<1>1. ASSUME ReadDue(p) \/ SchedulerExits(p) \/ \E e \in batch[p] : Pass(p, e)
      PROVE  Simulated
  <2>1. /\ sched[p] # "push" /\ sched'[p] # "push" /\ \A q \in Procs \ {p} : sched'[q] = sched[q]
        /\ UNCHANGED <<unsent, queue, delayed, dlq, done, tries, promoting, pc, held>>
    BY <1>0, <1>1 DEF ReadDue, SchedulerExits, Pass, AfterMember, redis, workers, history
  <2> QED BY <2>1, QuietSimulated
<1>2. CASE Promote(p)
  BY <1>2, PromoteSimulated
<1>3. ASSUME NEW e \in batch[p], Claim(p, e) PROVE Simulated
  BY <1>3, ClaimSimulated
<1> QED BY <1>1, <1>2, <1>3 DEF SchedulerStep

LEMMA ProcessSimulated ==
    ASSUME Full, NEW p \in Procs, Start(p) \/ StopReturns(p) \/ Stop(p)
    PROVE  Simulated
<1> USE DEF Holding
<1>1. UNCHANGED <<unsent, queue, delayed, dlq, done, tries, promoting, held>>
  BY DEF Start, StopReturns, Stop, redis, workers, scheduler, history
<1>2. /\ sched[p] # "push" /\ \A w \in Workers : w[1] = p => pc[w] \notin Holding
      \/ UNCHANGED <<sched, pc>>
  BY DEF Start, StopReturns, Stop, AllExited, PoolOf, workers, scheduler, Full, Idle
<1>3. \A q \in Procs : InPush(q)' <=> InPush(q)
  BY <1>2 DEF Start, StopReturns, Stop, scheduler, Full, Inductive, TypeOK
<1>4. \A v \in Workers : pc[v] \in Holding \/ pc'[v] \in Holding => pc'[v] = pc[v]
  BY <1>2 DEF Start, StopReturns, Stop, workers
<1> QED BY <1>1, <1>3, <1>4, QuietSimulated

LEMMA IdleStep == TypeOK /\ Idle /\ [Next]_vars => Idle'
<1> SUFFICES ASSUME TypeOK, Idle, [Next]_vars PROVE Idle'
  OBVIOUS
<1> USE DEF TypeOK, Idle
<1>1. CASE UNCHANGED vars
  BY <1>1 DEF vars, workers, scheduler
<1>2. CASE ProducerStep \/ \E e \in delayed : Elapse(e)
  BY <1>2 DEF ProducerStep, Enqueue, EnqueueDelayed, Elapse, workers, scheduler
<1>3. ASSUME NEW w \in Workers, WorkerStep(w) PROVE Idle'
  <2>1. pc[w] # "off" /\ UNCHANGED <<proc, sched>> /\ \A v \in Workers \ {w} : pc'[v] = pc[v]
    BY <1>3 DEF WorkerStep, Observe, BRPop, BRPopNothing, DrainPop, DrainSkip, HandlerSucceeds,
                HandlerFails, ScheduleRetry, Bury, Return, Process, scheduler
  <2>2. w[1] \in Procs
    BY DEF Workers
  <2> QED BY <2>1, <2>2
<1>4. ASSUME NEW p \in Procs, SchedulerStep(p) PROVE Idle'
  <2>1. sched[p] # "off" /\ UNCHANGED <<proc, pc>> /\ \A q \in Procs \ {p} : sched'[q] = sched[q]
    BY <1>4 DEF SchedulerStep, ReadDue, Claim, Pass, Promote, SchedulerExits, workers
  <2> QED BY <2>1
<1>5. ASSUME NEW p \in Procs, ProcessStep(p) PROVE Idle'
  <2>1. CASE Start(p)
    BY <2>1 DEF Start
  <2>2. CASE Stop(p)
    BY <2>2 DEF Stop, workers, scheduler
  <2>3. CASE StopReturns(p)
    BY <2>3 DEF StopReturns
  <2>4. CASE Crash(p)
    BY <2>4 DEF Crash
  <2> QED BY <1>5, <2>1, <2>2, <2>3, <2>4 DEF ProcessStep
<1> QED BY <1>1, <1>2, <1>3, <1>4, <1>5 DEF Next

(* Every step but a crash is one of the calm lifecycle, or none; a crash    *)
(* is one of the lifecycle, and counted.                                    *)
LEMMA StepIsCalm ==
    ASSUME "unacked" \notin RedisFaults, Full, [Next]_vars
    PROVE  Simulated \/ \E p \in Procs : Crash(p)
<1>1. ASSUME UNCHANGED vars PROVE Simulated
  BY <1>1, QuietSimulated DEF vars, redis, workers, scheduler, history
<1>2. ASSUME NEW j \in Jobs, NEW priority \in Priorities, Enqueue(j, priority) PROVE Simulated
  BY <1>2, EnqueueSimulated
<1>3. ASSUME NEW j \in Jobs, EnqueueDelayed(j) PROVE Simulated
  BY <1>3, EnqueueDelayedSimulated
<1>4. ASSUME NEW e \in delayed, Elapse(e) PROVE Simulated
  BY <1>4, QuietSimulated DEF Elapse, workers, scheduler, history, Holding
<1>5. ASSUME NEW w \in Workers, WorkerStep(w) PROVE Simulated
  BY <1>5, WorkerSimulated
<1>6. ASSUME NEW p \in Procs, SchedulerStep(p) \/ ProcessStep(p), ~Crash(p) PROVE Simulated
  BY <1>6, SchedulerSimulated, ProcessSimulated DEF ProcessStep
<1> QED BY <1>1, <1>2, <1>3, <1>4, <1>5, <1>6 DEF Next, ProducerStep

LEMMA CalmIsLifecycle == Calm!Next => Lifecycle!Next
<1>1. \A j \in Jobs : Calm!GiveUp(j) => Lifecycle!GiveUp(j)
  BY DEF Calm!GiveUp, Lifecycle!GiveUp, Calm!Move, Lifecycle!Move
<1>2. \A S \in SUBSET Jobs : Calm!Lose(S) => Lifecycle!Lose(S)
  BY DEF Calm!Lose, Lifecycle!Lose
<1> QED BY <1>1, <1>2 DEF Calm!Next, Calm!Send, Calm!Claim, Calm!Promote, Calm!Begin, Calm!Succeed,
           Calm!Retry, Calm!Move, Lifecycle!Next, Lifecycle!Send, Lifecycle!Claim, Lifecycle!Promote,
           Lifecycle!Begin, Lifecycle!Succeed, Lifecycle!Retry, Lifecycle!Move

LEMMA StepSimulated ==
    ASSUME "unacked" \notin RedisFaults, Full, [Next]_vars
    PROVE  Full' /\ [Lifecycle!Next]_<<[j \in Jobs |-> Phase(j)], tries>>
<1>1. Inductive' /\ Idle'
  BY TypeStep, RestStep, IdleStep DEF Full, Inductive, Rest
<1>2. Hands' /\ Placed' /\ [Lifecycle!Next]_<<[j \in Jobs |-> Phase(j)], tries>>
  BY StepIsCalm, CalmIsLifecycle, CrashSimulated DEF Simulated
<1> QED BY <1>1, <1>2 DEF Full

LEMMA StartSimulated ==
    Init => Full /\ Lifecycle!Init
<1> SUFFICES ASSUME Init PROVE Full /\ Lifecycle!Init
  OBVIOUS
<1>1. Inductive
  BY InitOK
<1>2. ASSUME NEW j \in Jobs PROVE IsAt(j, "new")
  BY <1>2 DEF Init, IsAt, OnList, IsDelayed, IsPromoting, IsRunning, IsBurying, IsBuried
<1>3. Placed /\ \A j \in Jobs : Phase(j) = "new"
  BY <1>2, PhaseOfPlace DEF Placed, Places, PhaseAt
<1>4. Hands /\ Idle
  BY DEF Init, Hands, Idle, Holding
<1> QED BY <1>1, <1>3, <1>4 DEF Init, Full, Lifecycle!Init

(* THEOREM: lists, schedulers, workers, stops, crashes and refused commands *)
(* do to every job what the lifecycle allows, for every value of the        *)
(* constants: the queue implements its abstract specification.              *)
THEOREM QueueImplementsLifecycle ==
    ASSUME "unacked" \notin RedisFaults
    PROVE  Spec => ImplementsLifecycle
<1>1. Init => Full /\ Lifecycle!Init
  BY StartSimulated
<1>2. Full /\ [Next]_vars => Full' /\ [Lifecycle!Next]_<<[j \in Jobs |-> Phase(j)], tries>>
  BY StepSimulated
<1> QED BY <1>1, <1>2, PTL DEF Spec, ImplementsLifecycle, Lifecycle!Spec

-----------------------------------------------------------------------------
(* What follows from it.                                                    *)

NoneLost == \A j \in Jobs : Phase(j) # "lost"

LEMMA NoneLostStep ==
    ASSUME RedisFaults = {}, NoneLost, [Calm!Next]_<<[j \in Jobs |-> Phase(j)], tries>>
    PROVE  NoneLost'
<1> DEFINE phase == [j \in Jobs |-> Phase(j)]
<1>1. CASE phase' = phase
  BY <1>1 DEF NoneLost
<1>2. ASSUME NEW k \in Jobs, NEW x \in Places \ {"lost"}, phase' = [phase EXCEPT ![k] = x]
      PROVE  NoneLost'
  <2>1. ASSUME NEW j \in Jobs PROVE Phase(j)' # "lost"
    <3>1. phase'[j] = [phase EXCEPT ![k] = x][j]
      BY <1>2
    <3>2. phase'[j] = Phase(j)' /\ (phase'[j] = x \/ phase'[j] = Phase(j))
      BY <3>1
    <3> QED BY <3>2 DEF NoneLost, Places
  <2> QED BY <2>1 DEF NoneLost
<1>3. ASSUME NEW k \in Jobs,
             \/ Calm!Send(k) \/ Calm!Claim(k) \/ Calm!Promote(k) \/ Calm!Begin(k)
             \/ Calm!Succeed(k) \/ Calm!Retry(k) \/ Calm!GiveUp(k)
      PROVE  NoneLost'
  <2>1. \E x \in {"ready", "waiting", "promoting", "running", "done", "dead"} :
          phase' = [phase EXCEPT ![k] = x]
    BY <1>3 DEF Calm!Send, Calm!Claim, Calm!Promote, Calm!Begin,
                Calm!Succeed, Calm!Retry, Calm!GiveUp, Calm!Move
  <2> QED BY <1>2, <2>1 DEF Places
<1>4. ASSUME NEW S \in SUBSET Jobs PROVE ~Calm!Lose(S)
  BY DEF Calm!Lose
<1> QED BY <1>1, <1>3, <1>4 DEF Calm!Next

LEMMA CrashesCount ==
    ASSUME TypeOK, [Next]_vars
    PROVE  crashes' = 0 => crashes = 0 /\ ~\E p \in Procs : Crash(p)
<1>1. CASE UNCHANGED vars \/ ProducerStep \/ \E e \in delayed : Elapse(e)
  <2>1. crashes' = crashes
    BY <1>1 DEF vars, budget, ProducerStep, Enqueue, EnqueueDelayed, Elapse
  <2>2. ~\E p \in Procs : Crash(p)
    BY <2>1 DEF Crash, TypeOK
  <2> QED BY <2>1, <2>2
<1>2. ASSUME NEW w \in Workers, WorkerStep(w) PROVE crashes' = crashes
  BY <1>2 DEF WorkerStep, budget, Observe, BRPop, BRPopNothing, DrainPop, DrainSkip,
              HandlerSucceeds, HandlerFails, ScheduleRetry, Bury
<1>3. ASSUME NEW p \in Procs, SchedulerStep(p) PROVE crashes' = crashes
  BY <1>3 DEF SchedulerStep, budget, ReadDue, Claim, Pass, Promote, SchedulerExits
<1>4. ASSUME NEW p \in Procs, Start(p) \/ Stop(p) \/ StopReturns(p) PROVE crashes' = crashes
  BY <1>4 DEF budget, Start, Stop, StopReturns
<1>5. ASSUME NEW p \in Procs, Crash(p) PROVE crashes' = crashes + 1
  BY <1>5 DEF Crash
<1>6. crashes \in Nat
  BY DEF TypeOK
<1> QED BY <1>1, <1>2, <1>3, <1>4, <1>5, <1>6 DEF Next, ProcessStep

(* THEOREM: while no command fails, and until the first crash, every job    *)
(* sent is in Redis, in a goroutine's hands, done or dead-lettered.         *)
THEOREM NothingIsLost == ASSUME RedisFaults = {} PROVE Spec => []NothingLost
<1> DEFINE I == Full /\ (crashes = 0 => NoneLost)
<1>1. Init => I
  <2>1. Init => \A j \in Jobs : Phase(j) = "new"
    BY DEF Init, Phase
  <2> QED BY <2>1, StartSimulated DEF NoneLost
<1>2. I /\ [Next]_vars => I'
  <2> SUFFICES ASSUME I, [Next]_vars PROVE I'
    OBVIOUS
  <2>1. Full'
    BY StepSimulated
  <2>2. ASSUME crashes' = 0 PROVE NoneLost'
    <3>1. crashes = 0 /\ Simulated
      BY <2>2, CrashesCount, StepIsCalm DEF Full, Inductive
    <3> QED BY <3>1, NoneLostStep DEF Simulated
  <2> QED BY <2>1, <2>2
<1>3. I => NothingLost
  BY DEF NoneLost, NothingLost, Phase, Pending
<1> QED BY <1>1, <1>2, <1>3, PTL DEF Spec

(* Dead letters, and jobs about to be, carry the count of their calls.      *)
DeadInv ==
    /\ \A w \in Workers : pc[w] = "bury" => held[w].attempt = tries[held[w].job]
    /\ \A i \in DOMAIN dlq : /\ tries[dlq[i].job] = dlq[i].attempt
                             /\ dlq[i].job \in Unhandled \/ dlq[i].attempt = MaxAttempts
    /\ \A i, k \in DOMAIN dlq : dlq[i].job = dlq[k].job => i = k

LEMMA DeadLettersStay ==
    ASSUME DeadInv, tries' = tries, dlq' = dlq,
           \A v \in Workers : pc'[v] = "bury" => pc[v] = "bury" /\ held'[v] = held[v]
    PROVE  DeadInv'
BY DEF DeadInv

LEMMA BeginKeepsDead ==
    ASSUME Full, DeadInv, NEW w \in Workers, NEW l \in Lists, queue[l] # <<>>, queue' = Popped(l),
           Process(w, Head(queue[l])), dlq' = dlq
    PROVE  DeadInv'
<1> PICK e : e = Head(queue[l])
  OBVIOUS
<1> PICK k : k = e.job
  OBVIOUS
<1>1. e \in Waiting /\ k \in Jobs /\ OnList(k) /\ e.attempt = tries[k]
  BY PopPlace
<1>2. tries \in [Jobs -> Nat] /\ dlq \in Seq(Entry)
      /\ pc \in [Workers -> {"off", "check", "brpop", "drain", "handle", "retry", "bury", "exited"}]
  BY DEF Full, Inductive, TypeOK
<1>3. /\ pc' = [pc EXCEPT ![w] = IF k \in Unhandled THEN "bury" ELSE "handle"]
      /\ \A v \in Workers \ {w} : held'[v] = held[v]
      /\ IF k \in Unhandled THEN tries' = tries ELSE tries' = [tries EXCEPT ![k] = @ + 1]
  BY <1>1, ProcessType DEF Full, Inductive
<1>4. k \in Unhandled => held' = [held EXCEPT ![w] = e]
  BY DEF Process
<1>5. IsAt(k, "ready")
  BY <1>1, OnlyThere DEF Full
<1>6. \A j \in Jobs \ {k} : tries'[j] = tries[j]
  BY <1>2, <1>3
<1>7. \A i \in DOMAIN dlq : dlq[i].job \in Jobs \ {k}
  <2>1. \A i \in DOMAIN dlq : dlq[i] \in Entry
    BY <1>2
  <2>2. ~IsBuried(k)
    BY <1>5 DEF IsAt
  <2> QED BY <2>1, <2>2 DEF IsBuried, Entry
<1>8. \A v \in Workers \ {w} : pc'[v] = pc[v]
  BY <1>2, <1>3
<1>9. \A v \in Workers \ {w} : pc'[v] = "bury" => held[v].job \in Jobs \ {k}
  BY <1>5, <1>8 DEF IsAt, IsBurying, Full, Inductive, Control, Entry
<1>10. ASSUME pc'[w] = "bury" PROVE held'[w].attempt = tries'[held'[w].job]
  <2>1. k \in Unhandled
    BY <1>2, <1>3, <1>10
  <2>2. held'[w] = e
    BY <1>4, <2>1 DEF Full, Inductive, TypeOK
  <2> QED BY <1>1, <1>3, <2>1, <2>2
<1>11. \A v \in Workers : pc'[v] = "bury" => held'[v].attempt = tries'[held'[v].job]
  BY <1>3, <1>6, <1>8, <1>9, <1>10 DEF DeadInv
<1> QED BY <1>6, <1>7, <1>11 DEF DeadInv

LEMMA DeadStep ==
    ASSUME RedisFaults = {}, Full, DeadInv, [Next]_vars
    PROVE  DeadInv'
<1>0. pc \in [Workers -> {"off", "check", "brpop", "drain", "handle", "retry", "bury", "exited"}]
  BY DEF Full, Inductive, TypeOK
<1>1. CASE UNCHANGED vars
  BY <1>1, DeadLettersStay DEF vars, redis, workers, history
<1>2. ASSUME NEW j \in Jobs, NEW priority \in Priorities, Enqueue(j, priority) PROVE DeadInv'
  BY <1>2, DeadLettersStay DEF Enqueue, workers, history
<1>3. ASSUME NEW j \in Jobs, EnqueueDelayed(j) PROVE DeadInv'
  BY <1>3, DeadLettersStay DEF EnqueueDelayed, workers, history
<1>4. ASSUME NEW e \in delayed, Elapse(e) PROVE DeadInv'
  BY <1>4, DeadLettersStay DEF Elapse, workers, history
<1>5. ASSUME NEW w \in Workers, WorkerStep(w) PROVE DeadInv'
  <2>1. CASE BRPop(w)
    <3>1. PICK l \in Lists : queue[l] # <<>> /\ queue' = Popped(l) /\ Process(w, Head(queue[l]))
      BY <2>1 DEF BRPop, FirstReady, Outcome, Acked
    <3> QED BY <2>1, <3>1, BeginKeepsDead DEF BRPop
  <2>2. CASE DrainPop(w)
    <3>1. /\ scan[w] \in Lists /\ queue[scan[w]] # <<>> /\ queue' = Popped(scan[w])
          /\ Process(w, Head(queue[scan[w]])) /\ dlq' = dlq
      BY <2>2 DEF DrainPop, Full, Inductive, Control
    <3> QED BY <3>1, BeginKeepsDead
  <2>3. CASE HandlerFails(w)
    <3>1. /\ pc[w] = "handle" /\ held' = held /\ tries' = tries /\ dlq' = dlq
          /\ \A v \in Workers \ {w} : pc'[v] = pc[v]
          /\ held[w].attempt = tries[held[w].job]
      BY <2>3 DEF HandlerFails, redis, history, Full, Inductive, AttemptCountsCalls
    <3> QED BY <3>1 DEF DeadInv
  <2>4. CASE Bury(w)
    <3> PICK e : e = held[w]
      OBVIOUS
    <3>1. /\ pc[w] = "bury" /\ Return(w) /\ tries' = tries /\ dlq' = Append(dlq, e)
      BY <2>4 DEF Bury, Outcome, Applied, history
    <3>2. /\ e \in Entry /\ IsAt(e.job, "burying") /\ e.attempt = tries[e.job]
          /\ e.job \in Unhandled \/ tries[e.job] = MaxAttempts
      BY <3>1, InHandFacts DEF Holding, DeadInv
    <3>3. /\ DOMAIN dlq' = DOMAIN dlq \cup {Len(dlq) + 1} /\ dlq'[Len(dlq) + 1] = e
          /\ \A i \in DOMAIN dlq : dlq'[i] = dlq[i]
      BY <3>1, <3>2 DEF Full, Inductive, TypeOK
    <3>4. \A i \in DOMAIN dlq : dlq[i].job # e.job
      BY <3>2 DEF IsAt, IsBuried
    <3>5. \A v \in Workers : pc'[v] = "bury" => pc[v] = "bury" /\ held'[v] = held[v]
      BY <3>1, ReturnType DEF Full, Inductive
    <3> QED BY <3>1, <3>2, <3>3, <3>4, <3>5 DEF DeadInv
  <2>5. ASSUME Observe(w) \/ BRPopNothing(w) \/ DrainSkip(w)
        PROVE  DeadInv'
    <3>1. /\ tries' = tries /\ dlq' = dlq /\ held' = held
          /\ \A v \in Workers : pc'[v] = "bury" => pc[v] = "bury"
      BY <1>0, <2>5 DEF Observe, BRPopNothing, DrainSkip, redis, history
    <3> QED BY <3>1, DeadLettersStay
  <2>6. ASSUME HandlerSucceeds(w) \/ ScheduleRetry(w) PROVE DeadInv'
    <3>1. Return(w) /\ tries' = tries /\ dlq' = dlq
      BY <2>6 DEF HandlerSucceeds, ScheduleRetry, Outcome, Acked, redis, history
    <3>2. \A v \in Workers : pc'[v] = "bury" => pc[v] = "bury" /\ held'[v] = held[v]
      BY <3>1, ReturnType DEF Full, Inductive
    <3> QED BY <3>1, <3>2, DeadLettersStay
  <2> QED BY <1>5, <2>1, <2>2, <2>3, <2>4, <2>5, <2>6 DEF WorkerStep
<1>6. ASSUME NEW p \in Procs, SchedulerStep(p) PROVE DeadInv'
  <2>1. UNCHANGED <<pc, held, tries, dlq>>
    BY <1>6 DEF SchedulerStep, ReadDue, Claim, Pass, Promote, SchedulerExits, redis, workers, history
  <2> QED BY <2>1, DeadLettersStay
<1>7. ASSUME NEW p \in Procs, ProcessStep(p) PROVE DeadInv'
  <2>1. /\ tries' = tries /\ dlq' = dlq
        /\ \A v \in Workers : pc'[v] = "bury" => pc[v] = "bury" /\ held'[v] = held[v]
    BY <1>7 DEF ProcessStep, Start, Stop, StopReturns, Crash, redis, workers, history
  <2> QED BY <2>1, DeadLettersStay
<1> QED BY <1>1, <1>2, <1>3, <1>4, <1>5, <1>6, <1>7 DEF Next, ProducerStep

(* THEOREM: while no Redis command fails a dead letter is final: exhausted  *)
(* or without a handler, there once, never successful, never run again,     *)
(* crashes or not.                                                          *)
THEOREM DeadLettersStayDead ==
    ASSUME RedisFaults = {}
    PROVE  Spec => []DeadLettersAreFinal
<1>1. Init => Full /\ DeadInv
  <2>1. Init => DeadInv
    BY DEF Init, DeadInv
  <2> QED BY <2>1, StartSimulated
<1>2. Full /\ DeadInv /\ [Next]_vars => Full' /\ DeadInv'
  BY StepSimulated, DeadStep
<1>3. Full /\ DeadInv => DeadLettersAreFinal
  <2> SUFFICES ASSUME Full, DeadInv, NEW i \in DOMAIN dlq,
                      NEW j, j = dlq[i].job
               PROVE  /\ j \in Unhandled \/ dlq[i].attempt = MaxAttempts
                      /\ tries[j] = dlq[i].attempt
                      /\ j \notin done /\ ~Pending(j)
                      /\ \A k \in DOMAIN dlq : dlq[k].job = j => k = i
    BY DEF DeadLettersAreFinal
  <2>1. j \in Jobs
    <3>1. dlq[i] \in Entry
      BY DEF Full, Inductive, TypeOK
    <3> QED BY <3>1 DEF Entry
  <2>2. IsBuried(j)
    BY DEF IsBuried
  <2>3. PICK x \in Places : IsAt(j, x)
    BY <2>1 DEF Full, Placed
  <2>4. j \notin done /\ ~Pending(j)
    BY <2>2, <2>3 DEF IsAt, Pending
  <2> QED BY <2>4 DEF DeadInv
<1> QED BY <1>1, <1>2, <1>3, PTL DEF Spec
=============================================================================
