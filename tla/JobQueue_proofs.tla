--------------------------- MODULE JobQueue_proofs ---------------------------
(***************************************************************************)
(* Proofs about JobQueue for any number of jobs, processes and workers, any *)
(* number of attempts, and every way Redis commands may fail.               *)
(***************************************************************************)
EXTENDS JobQueue, TLAPS

QueueType == [Lists -> Seq(Waiting)]

(* LPUSH leaves every element where it was and adds one at the end.         *)
LEMMA PushFacts ==
    ASSUME NEW q \in QueueType, NEW l \in Lists, NEW e \in Waiting
    PROVE  LET r == [q EXCEPT ![l] = Append(@, e)] IN
           /\ r \in QueueType
           /\ \A m \in Lists : \A i \in DOMAIN r[m] :
                \/ i \in DOMAIN q[m] /\ r[m][i] = q[m][i]
                \/ m = l /\ i = Len(q[l]) + 1 /\ i \notin DOMAIN q[m] /\ r[m][i] = e
<1> DEFINE r == [q EXCEPT ![l] = Append(@, e)]
<1>1. r \in QueueType
  BY DEF QueueType
<1>2. ASSUME NEW m \in Lists, NEW i \in DOMAIN r[m]
      PROVE  \/ i \in DOMAIN q[m] /\ r[m][i] = q[m][i]
             \/ m = l /\ i = Len(q[l]) + 1 /\ i \notin DOMAIN q[m] /\ r[m][i] = e
  <2>1. CASE m = l
    BY <2>1 DEF QueueType
  <2>2. CASE m # l
    BY <2>2 DEF QueueType
  <2> QED BY <2>1, <2>2
<1> QED BY <1>1, <1>2

(* A pop takes the head of a list and moves the rest of it down by one.     *)
LEMMA PopFacts ==
    ASSUME NEW q \in QueueType, NEW l \in Lists, q[l] # <<>>
    PROVE  LET r == [q EXCEPT ![l] = Tail(@)] IN
           /\ r \in QueueType
           /\ 1 \in DOMAIN q[l] /\ Head(q[l]) = q[l][1] /\ Head(q[l]) \in Waiting
           /\ \A m \in Lists : \A i \in DOMAIN r[m] :
                \/ m # l /\ i \in DOMAIN q[m] /\ r[m][i] = q[m][i]
                \/ m = l /\ i \in Nat /\ i # 0 /\ i + 1 \in DOMAIN q[l] /\ r[m][i] = q[l][i + 1]
<1> DEFINE r == [q EXCEPT ![l] = Tail(@)]
<1>1. r \in QueueType
  BY DEF QueueType
<1>2. 1 \in DOMAIN q[l] /\ Head(q[l]) = q[l][1] /\ Head(q[l]) \in Waiting
  BY DEF QueueType
<1>3. ASSUME NEW m \in Lists, NEW i \in DOMAIN r[m]
      PROVE  \/ m # l /\ i \in DOMAIN q[m] /\ r[m][i] = q[m][i]
             \/ m = l /\ i \in Nat /\ i # 0 /\ i + 1 \in DOMAIN q[l] /\ r[m][i] = q[l][i + 1]
  <2>1. CASE m = l
    BY <2>1 DEF QueueType
  <2>2. CASE m # l
    BY <2>2 DEF QueueType
  <2> QED BY <2>1, <2>2
<1> QED BY <1>1, <1>2, <1>3

-----------------------------------------------------------------------------
USE DEF InHand, InPush

(* A job at rest has an attempt left.                                       *)
LEMMA WaitingInEntry == Waiting \subseteq Entry
BY AttemptAssumption DEF Waiting, Entry

(* process: the counter of a waiting job can be incremented once more.      *)
LEMMA ProcessType ==
    ASSUME TypeOK, Control, NEW w \in Workers, NEW e \in Waiting, Process(w, e)
    PROVE  /\ pc' = [pc EXCEPT ![w] = IF e.job \in Unhandled THEN "bury" ELSE "handle"]
           /\ held' \in [Workers -> Entry \cup {None}]
           /\ held'[w] \in Entry /\ held'[w].job = e.job
           /\ \A v \in Workers \ {w} : held'[v] = held[v]
           /\ tries' \in [Jobs -> Nat]
           /\ IF e.job \in Unhandled
                THEN tries' = tries
                ELSE /\ tries' = [tries EXCEPT ![e.job] = @ + 1]
                     /\ held'[w].attempt = e.attempt + 1
<1>1. e \in Entry /\ e.job \in Jobs
  BY AttemptAssumption DEF Waiting, Entry
<1>2. [e EXCEPT !.attempt = @ + 1] \in Entry
  BY AttemptAssumption DEF Waiting, Entry
<1>3. /\ [e EXCEPT !.attempt = @ + 1].job = e.job
      /\ [e EXCEPT !.attempt = @ + 1].attempt = e.attempt + 1
  BY DEF Waiting
<1>4. CASE e.job \in Unhandled
  BY <1>1, <1>4 DEF TypeOK, Process
<1>5. CASE e.job \notin Unhandled
  <2> DEFINE f == [e EXCEPT !.attempt = @ + 1]
  <2>1. /\ pc' = [pc EXCEPT ![w] = "handle"]
        /\ held' = [held EXCEPT ![w] = f]
        /\ tries' = [tries EXCEPT ![e.job] = @ + 1]
    BY <1>5 DEF Process
  <2>2. f \in Entry /\ f.job = e.job /\ f.attempt = e.attempt + 1
    BY <1>2, <1>3
  <2>3. tries' \in [Jobs -> Nat]
    BY <1>1, <2>1 DEF TypeOK
  <2> HIDE DEF f
  <2> QED BY <1>5, <2>1, <2>2, <2>3 DEF TypeOK
<1> QED BY <1>4, <1>5

(* The return from process: the worker is back in its loop, empty-handed.   *)
LEMMA ReturnType ==
    ASSUME TypeOK, Control, NEW w \in Workers, Return(w)
    PROVE  /\ pc' \in [Workers -> {"off", "check", "brpop", "drain", "handle", "retry", "bury", "exited"}]
           /\ pc'[w] \in {"check", "drain"}
           /\ pc'[w] = "drain" => scan[w] \in Lists
           /\ held' \in [Workers -> Entry \cup {None}]
           /\ \A v \in Workers \ {w} : pc'[v] = pc[v] /\ held'[v] = held[v]
BY DEF TypeOK, Return, Lists

(* Type correctness, and what positions say of jobs in hand, are kept by    *)
(* every step.                                                              *)
LEMMA TypeStep == TypeOK /\ Control /\ [Next]_vars => TypeOK' /\ Control'
<1> SUFFICES ASSUME TypeOK, Control, [Next]_vars PROVE TypeOK' /\ Control'
  OBVIOUS
<1> USE WaitingInEntry DEF TypeOK, Control
<1>1. CASE UNCHANGED vars
  BY <1>1 DEF vars, redis, workers, scheduler, budget, history
<1>2. ASSUME NEW j \in Jobs, NEW priority \in Priorities, Enqueue(j, priority)
      PROVE  TypeOK' /\ Control'
  <2>1. QueueForPriority(priority) \in Lists
    BY PriorityAssumption DEF QueueForPriority, Lists, DefaultList
  <2>2. [job |-> j, attempt |-> 0] \in Waiting
    BY AttemptAssumption DEF Waiting
  <2>3. queue' \in [Lists -> Seq(Waiting)]
    BY <1>2, <2>1, <2>2, PushFacts DEF Enqueue, Pushed, QueueType
  <2> QED
    BY <1>2, <2>3 DEF Enqueue, workers, scheduler, budget, history
<1>3. ASSUME NEW j \in Jobs, EnqueueDelayed(j)
      PROVE  TypeOK' /\ Control'
  <2>1. [job |-> j, attempt |-> 0] \in Waiting
    BY AttemptAssumption DEF Waiting
  <2> QED
    BY <1>3, <2>1 DEF EnqueueDelayed, workers, scheduler, budget, history
<1>4. ASSUME NEW e \in delayed, Elapse(e)
      PROVE  TypeOK' /\ Control'
  BY <1>4 DEF Elapse, workers, scheduler, budget, history
<1>5. ASSUME NEW w \in Workers, WorkerStep(w)
      PROVE  TypeOK' /\ Control'
  <2>1. CASE Observe(w)
    <3>1. /\ pc' \in [Workers -> {"off", "check", "brpop", "drain", "handle", "retry", "bury", "exited"}]
          /\ scan' \in [Workers -> 0..3]
      <4>1. CASE proc[w[1]] = "stopping"
        <5>1. pc' = [pc EXCEPT ![w] = "drain"] /\ scan' = [scan EXCEPT ![w] = 1]
          BY <2>1, <4>1 DEF Observe
        <5> QED BY <5>1
      <4>2. CASE proc[w[1]] # "stopping"
        BY <2>1, <4>2 DEF Observe
      <4> QED BY <4>1, <4>2
    <3>2. \A v \in Workers : pc'[v] = "drain" => scan'[v] \in Lists
      BY <2>1 DEF Observe, Lists
    <3>3. \A v \in Workers : pc'[v] \in {"handle", "retry", "bury"} => pc'[v] = pc[v]
      BY <2>1 DEF Observe
    <3> QED BY <2>1, <3>1, <3>2, <3>3 DEF Observe, redis, scheduler, budget, history
  <2>2. CASE BRPop(w)
    <3> PICK l \in Lists : /\ queue[l] # <<>> /\ queue' = Popped(l)
                           /\ \/ Process(w, Head(queue[l]))
                              \/ pc' = [pc EXCEPT ![w] = "check"] /\ UNCHANGED <<held, tries>>
      BY <2>2 DEF BRPop, FirstReady
    <3>1. queue' \in [Lists -> Seq(Waiting)] /\ Head(queue[l]) \in Waiting
      BY PopFacts DEF Popped, QueueType
    <3>2. CASE Process(w, Head(queue[l]))
      <4>1. /\ pc' \in [Workers -> {"off", "check", "brpop", "drain", "handle", "retry", "bury", "exited"}]
            /\ \A v \in Workers \ {w} : pc'[v] = pc[v] /\ held'[v] = held[v]
            /\ pc'[w] \in {"handle", "bury"} /\ held'[w] \in Entry
            /\ held' \in [Workers -> Entry \cup {None}]
            /\ tries' \in [Jobs -> Nat]
        BY <3>1, <3>2, ProcessType
      <4> QED BY <2>2, <3>1, <4>1 DEF BRPop, scheduler, budget
    <3>3. CASE pc' = [pc EXCEPT ![w] = "check"] /\ UNCHANGED <<held, tries>>
      BY <2>2, <3>1, <3>3 DEF BRPop, scheduler, budget
    <3> QED BY <3>2, <3>3
  <2>3. CASE BRPopNothing(w)
    BY <2>3 DEF BRPopNothing, redis, scheduler, budget, history
  <2>4. CASE DrainPop(w)
    <3>1. /\ scan[w] \in Lists
          /\ queue' \in [Lists -> Seq(Waiting)]
          /\ Head(queue[scan[w]]) \in Waiting
      BY <2>4, PopFacts DEF DrainPop, Popped, QueueType
    <3>2. /\ pc' \in [Workers -> {"off", "check", "brpop", "drain", "handle", "retry", "bury", "exited"}]
          /\ \A v \in Workers \ {w} : pc'[v] = pc[v] /\ held'[v] = held[v]
          /\ pc'[w] \in {"handle", "bury"} /\ held'[w] \in Entry
          /\ held' \in [Workers -> Entry \cup {None}]
          /\ tries' \in [Jobs -> Nat]
      BY <2>4, <3>1, ProcessType DEF DrainPop
    <3>3. scan' \in [Workers -> 0..3] /\ \A v \in Workers \ {w} : scan'[v] = scan[v]
      BY <2>4 DEF DrainPop
    <3> QED BY <2>4, <3>1, <3>2, <3>3 DEF DrainPop, scheduler, budget
  <2>5. CASE DrainSkip(w)
    <3>1. scan[w] \in Lists
      BY <2>5 DEF DrainSkip
    <3>2. queue' = queue \/ (queue[scan[w]] # <<>> /\ queue' = Popped(scan[w]))
      BY <2>5 DEF DrainSkip
    <3>3. queue' \in [Lists -> Seq(Waiting)]
      <4>1. CASE queue' = queue
        BY <4>1
      <4>2. CASE queue[scan[w]] # <<>> /\ queue' = Popped(scan[w])
        BY <3>1, <4>2, PopFacts DEF Popped, QueueType
      <4> QED BY <3>2, <4>1, <4>2
    <3>4. /\ pc' \in [Workers -> {"off", "check", "brpop", "drain", "handle", "retry", "bury", "exited"}]
          /\ scan' \in [Workers -> 0..3]
          /\ \A v \in Workers : pc'[v] = pc[v] \/ pc'[v] = "exited"
          /\ \A v \in Workers : pc'[v] = "drain" => scan'[v] \in Lists
      <4>1. CASE scan[w] < 3
        <5>1. scan' = [scan EXCEPT ![w] = scan[w] + 1] /\ pc' = pc
          BY <2>5, <4>1 DEF DrainSkip
        <5>2. scan[w] + 1 \in Lists /\ scan[w] + 1 \in 0..3
          BY <3>1, <4>1 DEF Lists
        <5>3. scan' \in [Workers -> 0..3] /\ \A v \in Workers \ {w} : scan'[v] = scan[v]
          BY <5>1, <5>2
        <5> QED BY <5>1, <5>2, <5>3
      <4>2. CASE ~(scan[w] < 3)
        <5>1. scan' = [scan EXCEPT ![w] = 0] /\ pc' = [pc EXCEPT ![w] = "exited"]
          BY <2>5, <4>2 DEF DrainSkip
        <5> QED BY <5>1
      <4> QED BY <4>1, <4>2
    <3> QED BY <2>5, <3>3, <3>4 DEF DrainSkip, scheduler, budget, history
  <2>6. CASE HandlerSucceeds(w)
    BY <2>6, ReturnType DEF HandlerSucceeds, redis, scheduler, budget, history, Entry
  <2>7. CASE HandlerFails(w)
    <3>1. held[w] \in Entry
      BY <2>7 DEF HandlerFails
    <3>2. ShouldRetry(held[w]) => held[w] \in Waiting
      BY <3>1, AttemptAssumption DEF ShouldRetry, Entry, Waiting
    <3> QED BY <2>7, <3>1, <3>2 DEF HandlerFails, redis, scheduler, budget, history
  <2>8. CASE ScheduleRetry(w)
    <3>1. held[w] \in Waiting
      BY <2>8 DEF ScheduleRetry
    <3>2. delayed \subseteq delayed' /\ delayed' \subseteq Waiting
      BY <2>8, <3>1 DEF ScheduleRetry
    <3>3. \/ pc' = [pc EXCEPT ![w] = "bury"] /\ UNCHANGED held
          \/ Return(w)
      BY <2>8 DEF ScheduleRetry
    <3>4. CASE pc' = [pc EXCEPT ![w] = "bury"] /\ UNCHANGED held
      BY <2>8, <3>1, <3>2, <3>4 DEF ScheduleRetry, scheduler, budget, history
    <3>5. CASE Return(w)
      BY <2>8, <3>2, <3>5, ReturnType DEF ScheduleRetry, scheduler, budget, history
    <3> QED BY <3>3, <3>4, <3>5
  <2>9. CASE Bury(w)
    BY <2>9, ReturnType DEF Bury, scheduler, budget, history
  <2> QED BY <1>5, <2>1, <2>2, <2>3, <2>4, <2>5, <2>6, <2>7, <2>8, <2>9 DEF WorkerStep
<1>6. ASSUME NEW p \in Procs, SchedulerStep(p)
      PROVE  TypeOK' /\ Control'
  <2>1. CASE ReadDue(p)
    BY <2>1 DEF ReadDue, redis, workers, budget, history
  <2>2. CASE Promote(p)
    <3>1. queue' \in [Lists -> Seq(Waiting)]
      BY <2>2, PushFacts DEF Promote, Pushed, QueueType, Lists, DefaultList
    <3> QED BY <2>2, <3>1 DEF Promote, AfterMember, workers, budget, history
  <2>3. CASE SchedulerExits(p)
    BY <2>3 DEF SchedulerExits, redis, workers, budget, history
  <2>4. ASSUME NEW e \in batch[p], Claim(p, e)
        PROVE  TypeOK' /\ Control'
    BY <2>4 DEF Claim, workers, budget, history
  <2>5. ASSUME NEW e \in batch[p], Pass(p, e)
        PROVE  TypeOK' /\ Control'
    BY <2>5 DEF Pass, AfterMember, workers, budget, history
  <2> QED BY <1>6, <2>1, <2>2, <2>3, <2>4, <2>5 DEF SchedulerStep
<1>7. ASSUME NEW p \in Procs, ProcessStep(p)
      PROVE  TypeOK' /\ Control'
  <2>1. CASE Start(p)
    BY <2>1 DEF Start, redis, budget, history
  <2>2. CASE Stop(p)
    <3>1. UNION {Listed(l) : l \in Lists} \subseteq Waiting
      BY DEF Listed
    <3> QED BY <2>2, <3>1 DEF Stop, redis, workers, scheduler
  <2>3. CASE StopReturns(p)
    BY <2>3 DEF StopReturns, redis, budget
  <2>4. CASE Crash(p)
    BY <2>4 DEF Crash, redis
  <2> QED BY <1>7, <2>1, <2>2, <2>3, <2>4 DEF ProcessStep
<1> QED
  BY <1>1, <1>2, <1>3, <1>4, <1>5, <1>6, <1>7 DEF Next, ProducerStep

(* The strengthened invariant holds of empty lists and stopped processes.   *)
THEOREM InitOK == Init => Inductive
<1> SUFFICES ASSUME Init PROVE Inductive
  OBVIOUS
<1>1. TypeOK /\ Control
  BY DEF Init, TypeOK, Control, Lists
<1>2. UnsentNowhere
  BY DEF Init, UnsentNowhere, OnList, IsDelayed, IsRunning, IsPromoting
<1>3. SingleOwner
  BY DEF Init, SingleOwner, ListedOnce, DelayedOnce, RunOnce, PromotedOnce, OnePlace,
         OnList, IsDelayed, IsRunning, IsPromoting
<1>4. AttemptCountsCalls
  BY AttemptAssumption DEF Init, AttemptCountsCalls
<1>5. BatchOvertaken
  BY DEF Init, BatchOvertaken
<1> QED BY <1>1, <1>2, <1>3, <1>4, <1>5 DEF Inductive

(* THEOREM: in every reachable state every variable has its type: attempt   *)
(* counters stay within MaxAttempts, and jobs at rest have an attempt left. *)
THEOREM TypeCorrect == Spec => []TypeOK
<1>1. Init => TypeOK /\ Control
  BY InitOK DEF Inductive
<1> QED BY <1>1, TypeStep, PTL DEF Spec

-----------------------------------------------------------------------------
Rest == UnsentNowhere /\ SingleOwner /\ AttemptCountsCalls /\ BatchOvertaken

(* A step after which every copy of a job is one that was there before.     *)
LEMMA ShrinkStep ==
    ASSUME Inductive, TypeOK', Control',
           unsent' = unsent, tries' = tries,
           ListedOnce',
           \A l \in Lists : \A i \in DOMAIN queue'[l] :
               \E k \in DOMAIN queue[l] : queue'[l][i] = queue[l][k],
           delayed' \subseteq delayed,
           \A e \in delayed' : e \in due => e \in due',
           \A w \in Workers : InHand(w)' => InHand(w) /\ held'[w] = held[w],
           \A p \in Procs : InPush(p)' => InPush(p) /\ promoting'[p] = promoting[p],
           \A p \in Procs : \A b \in batch'[p] : b \in batch[p] \/ b \in due
    PROVE  Rest'
<1> USE DEF Inductive
<1>1. \A j \in Jobs :
        /\ OnList(j)' => OnList(j)
        /\ IsDelayed(j)' => IsDelayed(j)
        /\ IsRunning(j)' => IsRunning(j)
        /\ IsPromoting(j)' => IsPromoting(j)
  BY DEF OnList, IsDelayed, IsRunning, IsPromoting
<1>2. \A e \in due : e \in delayed /\ e \in Waiting /\ e.job \in Jobs /\ e.attempt = tries[e.job]
  BY DEF TypeOK, AttemptCountsCalls, Waiting
<1>3. UnsentNowhere'
  <2>1. \A j \in unsent' : j \in Jobs
    BY DEF TypeOK
  <2>2. \A e \in due : e.job \notin unsent
    BY <1>2 DEF UnsentNowhere, IsDelayed
  <2> QED BY <1>1, <2>1, <2>2 DEF UnsentNowhere
<1>4. SingleOwner'
  <2>1. DelayedOnce'
    BY DEF SingleOwner, DelayedOnce
  <2>2. RunOnce'
    BY DEF SingleOwner, RunOnce
  <2>3. PromotedOnce'
    BY DEF SingleOwner, PromotedOnce
  <2>4. OnePlace'
    BY <1>1 DEF SingleOwner, OnePlace
  <2> QED BY <2>1, <2>2, <2>3, <2>4 DEF SingleOwner
<1>5. AttemptCountsCalls'
  BY DEF AttemptCountsCalls
<1>6. BatchOvertaken'
  <2> SUFFICES ASSUME NEW p \in Procs, NEW b \in batch'[p]
               PROVE  /\ b.attempt <= tries[b.job]
                      /\ b \in delayed' => b \in due'
                      /\ \A w \in Workers :
                           InHand(w)' /\ held'[w].job = b.job => b.attempt < held'[w].attempt
    BY DEF BatchOvertaken
  <2>1. CASE b \in batch[p]
    BY <2>1 DEF BatchOvertaken
  <2>2. CASE b \in due
    <3>1. b.attempt <= tries[b.job]
      BY <1>2, <2>2 DEF TypeOK
    <3>2. IsDelayed(b.job) /\ ~IsRunning(b.job)
      BY <1>2, <2>2 DEF SingleOwner, OnePlace, IsDelayed
    <3> QED BY <2>2, <3>1, <3>2 DEF IsRunning
  <2> QED BY <2>1, <2>2
<1> QED BY <1>3, <1>4, <1>5, <1>6 DEF Rest


(* A job that was nowhere, or only in the hands of the goroutine that gives *)
(* it away, is pushed onto a list.                                          *)
LEMMA ListingStep ==
    ASSUME Inductive, TypeOK', Control',
           NEW l \in Lists, NEW e \in Waiting,
           queue' = Pushed(l, e),
           unsent' \subseteq unsent, e.job \notin unsent', tries' = tries,
           delayed' = delayed, due' = due, batch' = batch,
           \A w \in Workers : InHand(w)' => InHand(w) /\ held'[w] = held[w],
           \A p \in Procs : InPush(p)' =>
               InPush(p) /\ promoting'[p] = promoting[p] /\ promoting[p].job # e.job,
           e.attempt = tries[e.job],
           ~OnList(e.job), ~IsDelayed(e.job), ~IsRunning(e.job)
    PROVE  Rest'
<1> USE DEF Inductive
<1>1. \A m \in Lists : \A i \in DOMAIN queue'[m] :
        \/ i \in DOMAIN queue[m] /\ queue'[m][i] = queue[m][i]
        \/ m = l /\ i = Len(queue[l]) + 1 /\ i \notin DOMAIN queue[m] /\ queue'[m][i] = e
  BY PushFacts DEF TypeOK, QueueType, Pushed
<1>2. e.job \in Jobs
  BY DEF Waiting
<1>3. \A j \in Jobs :
        /\ OnList(j)' => OnList(j) \/ j = e.job
        /\ IsDelayed(j)' => IsDelayed(j)
        /\ IsRunning(j)' => IsRunning(j)
        /\ IsPromoting(j)' => IsPromoting(j) /\ j # e.job
  BY <1>1 DEF OnList, IsDelayed, IsRunning, IsPromoting
<1>4. UnsentNowhere'
  <2>1. \A j \in unsent' : j \in Jobs /\ j \in unsent /\ j # e.job
    BY DEF TypeOK
  <2> QED BY <1>3, <2>1 DEF UnsentNowhere
<1>5. SingleOwner'
  <2>1. ListedOnce'
    <3>1. \A m \in Lists : \A i \in DOMAIN queue[m] : queue[m][i].job # e.job
      BY DEF OnList
    <3> QED BY <1>1, <3>1 DEF SingleOwner, ListedOnce
  <2>2. DelayedOnce'
    BY DEF SingleOwner, DelayedOnce
  <2>3. RunOnce'
    BY DEF SingleOwner, RunOnce
  <2>4. PromotedOnce'
    BY DEF SingleOwner, PromotedOnce
  <2>5. OnePlace'
    BY <1>2, <1>3 DEF SingleOwner, OnePlace
  <2> QED BY <2>1, <2>2, <2>3, <2>4, <2>5 DEF SingleOwner
<1>6. AttemptCountsCalls'
  BY <1>1 DEF AttemptCountsCalls
<1>7. BatchOvertaken'
  BY DEF BatchOvertaken
<1> QED BY <1>4, <1>5, <1>6, <1>7 DEF Rest

(* A job that was nowhere, or only in the hands of the worker that gives it *)
(* away, is added to the delayed set; no scheduler has it in its batch.     *)
LEMMA DelayingStep ==
    ASSUME Inductive, TypeOK', Control',
           NEW e \in Waiting,
           delayed' = delayed \cup {e}, queue' = queue, due' = due, batch' = batch,
           unsent' \subseteq unsent, e.job \notin unsent', tries' = tries,
           \A w \in Workers : InHand(w)' => InHand(w) /\ held'[w] = held[w] /\ held[w].job # e.job,
           \A p \in Procs : InPush(p)' => InPush(p) /\ promoting'[p] = promoting[p],
           e.attempt = tries[e.job],
           ~OnList(e.job), ~IsDelayed(e.job), ~IsPromoting(e.job),
           \A p \in Procs : e \notin batch[p]
    PROVE  Rest'
<1> USE DEF Inductive
<1>2. e.job \in Jobs
  BY DEF Waiting
<1>3. \A j \in Jobs :
        /\ OnList(j)' => OnList(j)
        /\ IsDelayed(j)' => IsDelayed(j) \/ j = e.job
        /\ IsRunning(j)' => IsRunning(j) /\ j # e.job
        /\ IsPromoting(j)' => IsPromoting(j)
  BY DEF OnList, IsDelayed, IsRunning, IsPromoting
<1>4. UnsentNowhere'
  <2>1. \A j \in unsent' : j \in Jobs /\ j \in unsent /\ j # e.job
    BY DEF TypeOK
  <2> QED BY <1>3, <2>1 DEF UnsentNowhere
<1>5. SingleOwner'
  <2>1. ListedOnce'
    BY DEF SingleOwner, ListedOnce
  <2>2. DelayedOnce'
    BY DEF SingleOwner, DelayedOnce, IsDelayed
  <2>3. RunOnce'
    BY DEF SingleOwner, RunOnce
  <2>4. PromotedOnce'
    BY DEF SingleOwner, PromotedOnce
  <2>5. OnePlace'
    BY <1>2, <1>3 DEF SingleOwner, OnePlace
  <2> QED BY <2>1, <2>2, <2>3, <2>4, <2>5 DEF SingleOwner
<1>6. AttemptCountsCalls'
  BY DEF AttemptCountsCalls
<1>7. BatchOvertaken'
  BY DEF BatchOvertaken
<1> QED BY <1>4, <1>5, <1>6, <1>7 DEF Rest

(* A pop leaves the other elements, at other positions, and each job once.  *)
LEMMA PopListing ==
    ASSUME TypeOK, ListedOnce, NEW l \in Lists, queue[l] # <<>>, queue' = Popped(l)
    PROVE  /\ Head(queue[l]) \in Waiting
           /\ Head(queue[l]) = queue[l][1] /\ 1 \in DOMAIN queue[l]
           /\ ListedOnce'
           /\ \A m \in Lists : \A i \in DOMAIN queue'[m] :
                \E k \in DOMAIN queue[m] :
                    queue'[m][i] = queue[m][k] /\ queue[m][k].job # Head(queue[l]).job
<1>1. /\ 1 \in DOMAIN queue[l] /\ Head(queue[l]) = queue[l][1] /\ Head(queue[l]) \in Waiting
      /\ \A m \in Lists : \A i \in DOMAIN queue'[m] :
           \/ m # l /\ i \in DOMAIN queue[m] /\ queue'[m][i] = queue[m][i]
           \/ m = l /\ i \in Nat /\ i # 0 /\ i + 1 \in DOMAIN queue[l] /\ queue'[m][i] = queue[l][i + 1]
  BY PopFacts DEF TypeOK, QueueType, Popped
<1>2. ListedOnce'
  <2> SUFFICES ASSUME NEW m \in Lists, NEW n \in Lists,
                      NEW i \in DOMAIN queue'[m], NEW k \in DOMAIN queue'[n],
                      queue'[m][i].job = queue'[n][k].job
               PROVE  m = n /\ i = k
    BY DEF ListedOnce
  <2>1. CASE m = l /\ n = l
    <3>1. i + 1 = k + 1 /\ i \in Nat /\ k \in Nat
      BY <1>1, <2>1 DEF ListedOnce
    <3> QED BY <2>1, <3>1
  <2>2. CASE m # l \/ n # l
    BY <1>1, <2>2 DEF ListedOnce
  <2> QED BY <2>1, <2>2
<1>3. ASSUME NEW m \in Lists, NEW i \in DOMAIN queue'[m]
      PROVE  \E k \in DOMAIN queue[m] :
               queue'[m][i] = queue[m][k] /\ queue[m][k].job # Head(queue[l]).job
  <2>1. CASE m = l
    <3>1. i \in Nat /\ i # 0 /\ i + 1 \in DOMAIN queue[l] /\ queue'[m][i] = queue[l][i + 1]
      BY <1>1, <2>1
    <3>2. queue[l][i + 1].job # Head(queue[l]).job
      BY <1>1, <3>1 DEF ListedOnce
    <3> QED BY <2>1, <3>1, <3>2
  <2>2. CASE m # l
    BY <1>1, <2>2 DEF ListedOnce
  <2> QED BY <2>1, <2>2
<1> QED BY <1>1, <1>2, <1>3

(* A worker pops the job at the head of a list and processes it.            *)
LEMMA BeginStep ==
    ASSUME Inductive, TypeOK', Control',
           NEW w \in Workers, NEW l \in Lists, queue[l] # <<>>,
           queue' = Popped(l), Process(w, Head(queue[l])),
           ~InHand(w),
           UNCHANGED <<unsent, delayed, due, scheduler>>
    PROVE  Rest'
<1> DEFINE e == Head(queue[l])
<1> USE DEF Inductive
<1>1. /\ e \in Waiting /\ e.job \in Jobs
      /\ e = queue[l][1] /\ 1 \in DOMAIN queue[l]
      /\ ListedOnce'
      /\ \A m \in Lists : \A i \in DOMAIN queue'[m] :
           \E k \in DOMAIN queue[m] :
               queue'[m][i] = queue[m][k] /\ queue[m][k].job # e.job
  BY PopListing DEF SingleOwner, Waiting
<1>2. /\ OnList(e.job) /\ ~IsDelayed(e.job) /\ ~IsRunning(e.job) /\ ~IsPromoting(e.job)
      /\ e.attempt = tries[e.job] /\ e.attempt < MaxAttempts
      /\ e.job \notin unsent
  <2>1. OnList(e.job)
    BY <1>1 DEF OnList
  <2>2. e.attempt = tries[e.job] /\ e.attempt < MaxAttempts
    BY <1>1, AttemptAssumption DEF AttemptCountsCalls, Waiting
  <2> QED BY <1>1, <2>1, <2>2 DEF SingleOwner, OnePlace, UnsentNowhere
<1>3. unsent' = unsent /\ delayed' = delayed /\ due' = due
      /\ sched' = sched /\ batch' = batch /\ promoting' = promoting
  BY DEF scheduler
<1>4. /\ pc' = [pc EXCEPT ![w] = IF e.job \in Unhandled THEN "bury" ELSE "handle"]
      /\ held'[w].job = e.job
      /\ \A v \in Workers \ {w} : held'[v] = held[v]
      /\ IF e.job \in Unhandled
           THEN tries' = tries
           ELSE tries' = [tries EXCEPT ![e.job] = @ + 1] /\ held'[w].attempt = e.attempt + 1
  BY <1>1, ProcessType
<1>5. CASE e.job \in Unhandled
  <2>1. \A v \in Workers : InHand(v)' => InHand(v) /\ held'[v] = held[v]
    BY <1>4, <1>5 DEF TypeOK
  <2>2. tries' = tries
    BY <1>4, <1>5
  <2>3. \A p \in Procs : InPush(p)' => InPush(p) /\ promoting'[p] = promoting[p]
    BY <1>3
  <2> HIDE DEF e
  <2>4. \A m \in Lists : \A i \in DOMAIN queue'[m] :
           \E k \in DOMAIN queue[m] : queue'[m][i] = queue[m][k]
    BY <1>1
  <2> QED BY <1>1, <1>3, <2>1, <2>2, <2>3, <2>4, ShrinkStep
<1>6. CASE e.job \notin Unhandled
  <2> HIDE DEF e
  <2>1. /\ \A v \in Workers \ {w} : (InHand(v)' <=> InHand(v)) /\ held'[v] = held[v]
        /\ InHand(w)' /\ held'[w].job = e.job /\ held'[w].attempt = e.attempt + 1
    BY <1>4, <1>6 DEF TypeOK
  <2>2. /\ tries'[e.job] = tries[e.job] + 1 /\ tries[e.job] \in Nat
        /\ \A j \in Jobs : j # e.job => tries'[j] = tries[j]
    BY <1>1, <1>4, <1>6 DEF TypeOK
  <2>3. \A j \in Jobs :
          /\ OnList(j)' => OnList(j) /\ j # e.job
          /\ IsDelayed(j)' => IsDelayed(j)
          /\ IsRunning(j)' => IsRunning(j) \/ j = e.job
          /\ IsPromoting(j)' => IsPromoting(j)
    BY <1>1, <1>3, <2>1 DEF OnList, IsDelayed, IsRunning, IsPromoting
  <2>4. UnsentNowhere'
    <3>1. \A j \in unsent' : j \in Jobs /\ j \in unsent /\ j # e.job
      BY <1>2, <1>3 DEF TypeOK
    <3> QED BY <1>3, <2>2, <2>3, <3>1 DEF UnsentNowhere
  <2>5. SingleOwner'
    <3>1. DelayedOnce'
      BY <1>3 DEF SingleOwner, DelayedOnce
    <3>2. RunOnce'
      BY <1>2, <2>1 DEF SingleOwner, RunOnce, IsRunning
    <3>3. PromotedOnce'
      BY <1>3 DEF SingleOwner, PromotedOnce
    <3>4. OnePlace'
      BY <1>1, <1>2, <2>3 DEF SingleOwner, OnePlace
    <3> QED BY <1>1, <3>1, <3>2, <3>3, <3>4 DEF SingleOwner
  <2>6. AttemptCountsCalls'
    <3>1. \A m \in Lists : \A i \in DOMAIN queue'[m] :
            queue'[m][i].attempt = tries'[queue'[m][i].job]
      <4> SUFFICES ASSUME NEW m \in Lists, NEW i \in DOMAIN queue'[m]
                   PROVE  queue'[m][i].attempt = tries'[queue'[m][i].job]
        OBVIOUS
      <4> PICK k \in DOMAIN queue[m] : queue'[m][i] = queue[m][k] /\ queue[m][k].job # e.job
        BY <1>1
      <4>1. queue[m][k].job \in Jobs
        <5>1. queue[m] \in Seq(Waiting)
          BY DEF TypeOK
        <5>2. queue[m][k] \in Waiting
          BY <5>1
        <5> QED BY <5>2 DEF Waiting
      <4> QED BY <2>2, <4>1 DEF AttemptCountsCalls
    <3>2. \A d \in delayed' : d.attempt = tries'[d.job]
      BY <1>2, <1>3, <2>2 DEF AttemptCountsCalls, IsDelayed, TypeOK, Waiting
    <3>3. \A v \in Workers : InHand(v)' => held'[v].attempt = tries'[held'[v].job]
      <4> SUFFICES ASSUME NEW v \in Workers, InHand(v)'
                   PROVE  held'[v].attempt = tries'[held'[v].job]
        OBVIOUS
      <4>1. CASE v = w
        BY <1>2, <2>1, <2>2, <4>1
      <4>2. CASE v # w
        <5>1. InHand(v) /\ held'[v] = held[v] /\ held[v].job # e.job
          BY <1>2, <2>1, <4>2 DEF IsRunning
        <5>2. held[v].job \in Jobs
          BY <5>1 DEF Control, Entry
        <5> QED BY <2>2, <5>1, <5>2 DEF AttemptCountsCalls
      <4> QED BY <4>1, <4>2
    <3>4. \A p \in Procs : InPush(p)' => promoting'[p].attempt = tries'[promoting'[p].job]
      BY <1>2, <1>3, <2>2 DEF AttemptCountsCalls, IsPromoting, Control, Waiting
    <3>5. \A j \in Jobs : tries'[j] <= MaxAttempts
      BY <1>2, <2>2, AttemptAssumption DEF AttemptCountsCalls
    <3> QED BY <3>1, <3>2, <3>3, <3>4, <3>5 DEF AttemptCountsCalls
  <2>7. BatchOvertaken'
    <3> SUFFICES ASSUME NEW p \in Procs, NEW b \in batch[p]
                 PROVE  /\ b.attempt <= tries'[b.job]
                        /\ b \in delayed => b \in due
                        /\ \A v \in Workers :
                             InHand(v)' /\ held'[v].job = b.job => b.attempt < held'[v].attempt
      BY <1>3 DEF BatchOvertaken
    <3>1. b.job \in Jobs /\ b.attempt \in Nat /\ b.attempt <= tries[b.job] /\ tries[b.job] \in Nat
      BY DEF BatchOvertaken, TypeOK, Waiting
    <3>2. b.attempt <= tries'[b.job]
      BY <2>2, <3>1
    <3>3. ASSUME NEW v \in Workers, InHand(v)', held'[v].job = b.job
          PROVE  b.attempt < held'[v].attempt
      <4>1. CASE v = w
        BY <1>2, <2>1, <2>2, <3>1, <3>3, <4>1
      <4>2. CASE v # w
        BY <2>1, <3>3, <4>2 DEF BatchOvertaken
      <4> QED BY <4>1, <4>2
    <3> QED BY <3>2, <3>3 DEF BatchOvertaken
  <2> QED BY <2>4, <2>5, <2>6, <2>7 DEF Rest
<1> QED BY <1>5, <1>6


(* A scheduler takes a member out of the delayed set.                       *)
LEMMA ClaimStep ==
    ASSUME Inductive, TypeOK', Control', NEW p \in Procs, NEW e \in batch[p], Claim(p, e)
    PROVE  Rest'
<1> USE DEF Inductive
<1>1. /\ e \in delayed /\ e \in Waiting /\ e.job \in Jobs
      /\ e.attempt = tries[e.job] /\ e.job \notin unsent
      /\ ~OnList(e.job) /\ IsDelayed(e.job) /\ ~IsRunning(e.job) /\ ~IsPromoting(e.job)
  <2>1. e \in delayed /\ e \in Waiting /\ e.job \in Jobs
    BY DEF Claim, TypeOK, Waiting
  <2>2. IsDelayed(e.job)
    BY <2>1 DEF IsDelayed
  <2> QED
    BY <2>1, <2>2 DEF AttemptCountsCalls, UnsentNowhere, SingleOwner, OnePlace
<1>2. /\ delayed' = delayed \ {e} /\ due' = due \ {e}
      /\ sched' = [sched EXCEPT ![p] = "push"]
      /\ promoting' = [promoting EXCEPT ![p] = e]
      /\ batch' = [batch EXCEPT ![p] = @ \ {e}]
      /\ unsent' = unsent /\ queue' = queue /\ pc' = pc /\ held' = held /\ tries' = tries
  BY DEF Claim, workers, history
<1>3. /\ \A q \in Procs \ {p} : (InPush(q)' <=> InPush(q)) /\ promoting'[q] = promoting[q]
      /\ InPush(p)' /\ promoting'[p] = e
  BY <1>2 DEF TypeOK
<1>4. \A j \in Jobs :
        /\ OnList(j)' => OnList(j)
        /\ IsDelayed(j)' => IsDelayed(j) /\ j # e.job
        /\ IsRunning(j)' => IsRunning(j)
        /\ IsPromoting(j)' => IsPromoting(j) \/ j = e.job
  <2>1. \A d \in delayed : d # e => d.job # e.job
    BY <1>1 DEF SingleOwner, DelayedOnce
  <2> QED BY <1>2, <1>3, <2>1 DEF OnList, IsDelayed, IsRunning, IsPromoting
<1>5. \A q \in Procs : batch'[q] \subseteq batch[q]
  BY <1>2 DEF TypeOK
<1>6. UnsentNowhere'
  <2>1. \A j \in unsent' : j \in Jobs /\ j \in unsent /\ j # e.job
    BY <1>1, <1>2 DEF TypeOK
  <2> QED BY <1>2, <1>4, <1>5, <2>1 DEF UnsentNowhere
<1>7. SingleOwner'
  <2>1. ListedOnce'
    BY <1>2 DEF SingleOwner, ListedOnce
  <2>2. DelayedOnce'
    BY <1>2 DEF SingleOwner, DelayedOnce
  <2>3. RunOnce'
    BY <1>2 DEF SingleOwner, RunOnce
  <2>4. PromotedOnce'
    BY <1>1, <1>3 DEF SingleOwner, PromotedOnce, IsPromoting
  <2>5. OnePlace'
    BY <1>1, <1>4 DEF SingleOwner, OnePlace
  <2> QED BY <2>1, <2>2, <2>3, <2>4, <2>5 DEF SingleOwner
<1>8. AttemptCountsCalls'
  BY <1>1, <1>2, <1>3 DEF AttemptCountsCalls
<1>9. BatchOvertaken'
  BY <1>2, <1>5 DEF BatchOvertaken
<1> QED BY <1>6, <1>7, <1>8, <1>9 DEF Rest

(* What of the queue a step that touches no list, and adds to no place,     *)
(* leaves behind.                                                           *)
LEMMA SameLists ==
    ASSUME ListedOnce, queue' = queue
    PROVE  /\ ListedOnce'
           /\ \A l \in Lists : \A i \in DOMAIN queue'[l] :
                \E k \in DOMAIN queue[l] : queue'[l][i] = queue[l][k]
BY DEF ListedOnce

(* Every step keeps the rest of the inductive invariant: one owner, counted *)
(* attempts, unsent jobs nowhere, batches overtaken.                        *)
LEMMA RestStep == Inductive /\ [Next]_vars => Rest'
<1> SUFFICES ASSUME Inductive, [Next]_vars PROVE Rest'
  OBVIOUS
<1> USE DEF Inductive
<1>0. TypeOK' /\ Control' /\ ListedOnce
  BY TypeStep DEF SingleOwner
<1>1. CASE UNCHANGED vars
  BY <1>0, <1>1, SameLists, ShrinkStep DEF vars, redis, workers, scheduler, budget, history
<1>2. ASSUME NEW j \in Jobs, NEW priority \in Priorities, Enqueue(j, priority)
      PROVE  Rest'
  <2> DEFINE e == [job |-> j, attempt |-> 0]
  <2>1. QueueForPriority(priority) \in Lists
    BY PriorityAssumption DEF QueueForPriority, Lists, DefaultList
  <2>2. e \in Waiting /\ e.job = j /\ e.attempt = 0
    BY AttemptAssumption DEF Waiting
  <2>3. /\ tries[j] = 0 /\ ~OnList(j) /\ ~IsDelayed(j) /\ ~IsRunning(j)
        /\ \A p \in Procs : InPush(p) => promoting[p].job # j
    BY <1>2 DEF Enqueue, UnsentNowhere, IsPromoting
  <2>4. /\ queue' = Pushed(QueueForPriority(priority), e)
        /\ unsent' \subseteq unsent /\ j \notin unsent' /\ tries' = tries
        /\ delayed' = delayed /\ due' = due /\ batch' = batch
        /\ pc' = pc /\ held' = held /\ sched' = sched /\ promoting' = promoting
    BY <1>2 DEF Enqueue, workers, scheduler, history
  <2> HIDE DEF e
  <2> QED BY <1>0, <2>1, <2>2, <2>3, <2>4, ListingStep
<1>3. ASSUME NEW j \in Jobs, EnqueueDelayed(j)
      PROVE  Rest'
  <2> DEFINE e == [job |-> j, attempt |-> 0]
  <2>1. e \in Waiting /\ e.job = j /\ e.attempt = 0
    BY AttemptAssumption DEF Waiting
  <2>2. /\ tries[j] = 0 /\ ~OnList(j) /\ ~IsDelayed(j) /\ ~IsPromoting(j)
        /\ \A w \in Workers : InHand(w) => held[w].job # j
        /\ \A p \in Procs : \A b \in batch[p] : b.job # j
    BY <1>3 DEF EnqueueDelayed, UnsentNowhere, IsRunning
  <2>3. /\ delayed' = delayed \cup {e} /\ queue' = queue /\ due' = due
        /\ unsent' \subseteq unsent /\ j \notin unsent' /\ tries' = tries /\ batch' = batch
        /\ pc' = pc /\ held' = held /\ sched' = sched /\ promoting' = promoting
    BY <1>3 DEF EnqueueDelayed, workers, scheduler, history
  <2> HIDE DEF e
  <2>4. \A p \in Procs : e \notin batch[p]
    BY <2>1, <2>2
  <2> QED BY <1>0, <2>1, <2>2, <2>3, <2>4, DelayingStep
<1>4. ASSUME NEW e \in delayed, Elapse(e)
      PROVE  Rest'
  BY <1>0, <1>4, SameLists, ShrinkStep DEF Elapse, workers, scheduler, history
<1>5. ASSUME NEW w \in Workers, WorkerStep(w)
      PROVE  Rest'
  <2>1. CASE Observe(w)
    <3>1. \A v \in Workers : InHand(v)' => InHand(v) /\ held'[v] = held[v]
      BY <2>1 DEF Observe, TypeOK
    <3> QED BY <1>0, <2>1, <3>1, SameLists, ShrinkStep DEF Observe, redis, scheduler, history
  <2>2. CASE BRPop(w)
    <3> PICK l \in Lists : /\ queue[l] # <<>> /\ queue' = Popped(l)
                           /\ \/ Process(w, Head(queue[l]))
                              \/ pc' = [pc EXCEPT ![w] = "check"] /\ UNCHANGED <<held, tries>>
      BY <2>2 DEF BRPop, FirstReady
    <3>1. ~InHand(w) /\ UNCHANGED <<unsent, delayed, due, scheduler>>
      BY <2>2 DEF BRPop
    <3>2. CASE Process(w, Head(queue[l]))
      BY <1>0, <3>1, <3>2, BeginStep
    <3>3. CASE pc' = [pc EXCEPT ![w] = "check"] /\ UNCHANGED <<held, tries>>
      <4>1. \A v \in Workers : InHand(v)' => InHand(v) /\ held'[v] = held[v]
        BY <3>3 DEF TypeOK
      <4>2. /\ ListedOnce'
            /\ \A m \in Lists : \A i \in DOMAIN queue'[m] :
                 \E k \in DOMAIN queue[m] : queue'[m][i] = queue[m][k]
        BY <1>0, PopListing
      <4> QED BY <1>0, <3>1, <3>3, <4>1, <4>2, ShrinkStep DEF scheduler
    <3> QED BY <3>2, <3>3
  <2>3. CASE BRPopNothing(w)
    <3>1. \A v \in Workers : InHand(v)' => InHand(v) /\ held'[v] = held[v]
      BY <2>3 DEF BRPopNothing, TypeOK
    <3> QED BY <1>0, <2>3, <3>1, SameLists, ShrinkStep DEF BRPopNothing, redis, scheduler, history
  <2>4. CASE DrainPop(w)
    <3>1. /\ scan[w] \in Lists /\ queue[scan[w]] # <<>> /\ queue' = Popped(scan[w])
          /\ Process(w, Head(queue[scan[w]])) /\ ~InHand(w)
          /\ UNCHANGED <<unsent, delayed, due, scheduler>>
      BY <2>4 DEF DrainPop, Control
    <3> QED BY <1>0, <3>1, BeginStep
  <2>5. CASE DrainSkip(w)
    <3>1. \A v \in Workers : InHand(v)' => InHand(v) /\ held'[v] = held[v]
      BY <2>5 DEF DrainSkip, TypeOK
    <3>2. /\ ListedOnce'
          /\ \A m \in Lists : \A i \in DOMAIN queue'[m] :
               \E k \in DOMAIN queue[m] : queue'[m][i] = queue[m][k]
      <4>1. \/ queue' = queue
            \/ scan[w] \in Lists /\ queue[scan[w]] # <<>> /\ queue' = Popped(scan[w])
        BY <2>5 DEF DrainSkip, Control
      <4>2. CASE queue' = queue
        BY <1>0, <4>2, SameLists
      <4>3. CASE scan[w] \in Lists /\ queue[scan[w]] # <<>> /\ queue' = Popped(scan[w])
        BY <1>0, <4>3, PopListing
      <4> QED BY <4>1, <4>2, <4>3
    <3>3. UNCHANGED <<unsent, tries, delayed, due, sched, batch, promoting>>
      BY <2>5 DEF DrainSkip, scheduler, history
    <3> QED BY <1>0, <3>1, <3>2, <3>3, ShrinkStep
  <2>6. CASE HandlerSucceeds(w)
    <3>1. \A v \in Workers : InHand(v)' => InHand(v) /\ held'[v] = held[v]
      BY <2>6, ReturnType DEF HandlerSucceeds
    <3> QED BY <1>0, <2>6, <3>1, SameLists, ShrinkStep DEF HandlerSucceeds, redis, scheduler
  <2>7. CASE HandlerFails(w)
    <3>1. \A v \in Workers : InHand(v)' => InHand(v) /\ held'[v] = held[v]
      BY <2>7 DEF HandlerFails, TypeOK
    <3> QED BY <1>0, <2>7, <3>1, SameLists, ShrinkStep DEF HandlerFails, redis, scheduler, history
  <2>8. CASE ScheduleRetry(w)
    <3> DEFINE e == held[w]
    <3>1. /\ e \in Waiting /\ e.job \in Jobs /\ InHand(w) /\ IsRunning(e.job)
          /\ e.attempt = tries[e.job] /\ ~OnList(e.job) /\ ~IsDelayed(e.job)
          /\ ~IsPromoting(e.job) /\ e.job \notin unsent
      <4>1. e \in Waiting /\ e.job \in Jobs /\ InHand(w)
        BY <2>8 DEF ScheduleRetry, Control, Waiting
      <4>2. IsRunning(e.job) /\ e.attempt = tries[e.job]
        BY <4>1 DEF IsRunning, AttemptCountsCalls
      <4> QED BY <4>1, <4>2 DEF SingleOwner, OnePlace, UnsentNowhere
    <3>2. \A p \in Procs : e \notin batch[p]
      <4> SUFFICES ASSUME NEW p \in Procs, e \in batch[p] PROVE FALSE
        OBVIOUS
      <4>1. e.attempt < e.attempt /\ e.attempt \in Nat
        BY <3>1 DEF BatchOvertaken, Waiting
      <4> QED BY <4>1
    <3>3. \A v \in Workers : InHand(v)' => InHand(v) /\ held'[v] = held[v] /\ held[v].job # e.job
      <4>1. \A v \in Workers \ {w} : InHand(v) => held[v].job # e.job
        BY <3>1 DEF SingleOwner, RunOnce
      <4>2. ~InHand(w)' /\ \A v \in Workers \ {w} : pc'[v] = pc[v] /\ held'[v] = held[v]
        <5>1. CASE Return(w)
          BY <5>1, ReturnType
        <5>2. CASE pc' = [pc EXCEPT ![w] = "bury"] /\ UNCHANGED held
          BY <5>2 DEF TypeOK
        <5> QED BY <2>8, <5>1, <5>2 DEF ScheduleRetry
      <4> QED BY <4>1, <4>2
    <3>4. /\ UNCHANGED <<unsent, queue, due, tries, sched, batch, promoting>>
          /\ delayed' = delayed \/ delayed' = delayed \cup {e}
      BY <2>8 DEF ScheduleRetry, scheduler, history
    <3> HIDE DEF e
    <3>5. CASE delayed' = delayed
      BY <1>0, <3>3, <3>4, <3>5, SameLists, ShrinkStep
    <3>6. CASE delayed' = delayed \cup {e}
      BY <1>0, <3>1, <3>2, <3>3, <3>4, <3>6, DelayingStep
    <3> QED BY <3>4, <3>5, <3>6
  <2>9. CASE Bury(w)
    <3>1. \A v \in Workers : InHand(v)' => InHand(v) /\ held'[v] = held[v]
      BY <2>9, ReturnType DEF Bury
    <3> QED BY <1>0, <2>9, <3>1, SameLists, ShrinkStep DEF Bury, scheduler, history
  <2> QED BY <1>5, <2>1, <2>2, <2>3, <2>4, <2>5, <2>6, <2>7, <2>8, <2>9 DEF WorkerStep
<1>6. ASSUME NEW p \in Procs, SchedulerStep(p)
      PROVE  Rest'
  <2>1. CASE ReadDue(p)
    <3>1. /\ \A q \in Procs : InPush(q)' => InPush(q) /\ promoting'[q] = promoting[q]
          /\ \A q \in Procs : \A b \in batch'[q] : b \in batch[q] \/ b \in due
      BY <2>1 DEF ReadDue, TypeOK
    <3> QED BY <1>0, <2>1, <3>1, SameLists, ShrinkStep DEF ReadDue, redis, workers, history
  <2>2. CASE Promote(p)
    <3> DEFINE e == promoting[p]
    <3>1. /\ e \in Waiting /\ e.job \in Jobs /\ InPush(p) /\ IsPromoting(e.job)
          /\ e.attempt = tries[e.job]
          /\ ~OnList(e.job) /\ ~IsDelayed(e.job) /\ ~IsRunning(e.job) /\ e.job \notin unsent
      <4>1. e \in Waiting /\ e.job \in Jobs /\ InPush(p)
        BY <2>2 DEF Promote, Control, Waiting
      <4>2. IsPromoting(e.job) /\ e.attempt = tries[e.job]
        BY <4>1 DEF IsPromoting, AttemptCountsCalls
      <4> QED BY <4>1, <4>2 DEF SingleOwner, OnePlace, UnsentNowhere
    <3>2. \A q \in Procs : InPush(q)' =>
            InPush(q) /\ promoting'[q] = promoting[q] /\ promoting[q].job # e.job
      <4>1. \A q \in Procs \ {p} : InPush(q) => promoting[q].job # e.job
        BY <3>1 DEF SingleOwner, PromotedOnce
      <4>2. /\ ~InPush(p)'
            /\ \A q \in Procs \ {p} : sched'[q] = sched[q] /\ promoting'[q] = promoting[q]
        BY <2>2 DEF Promote, AfterMember, TypeOK
      <4> QED BY <4>1, <4>2
    <3>3. /\ UNCHANGED <<unsent, delayed, due, tries, pc, held, batch>>
          /\ queue' = queue \/ queue' = Pushed(DefaultList, e)
      BY <2>2 DEF Promote, workers, history
    <3>4. DefaultList \in Lists
      BY DEF DefaultList, Lists
    <3> HIDE DEF e
    <3>5. CASE queue' = queue
      BY <1>0, <3>2, <3>3, <3>5, SameLists, ShrinkStep
    <3>6. CASE queue' = Pushed(DefaultList, e)
      BY <1>0, <3>1, <3>2, <3>3, <3>4, <3>6, ListingStep
    <3> QED BY <3>3, <3>5, <3>6
  <2>3. CASE SchedulerExits(p)
    <3>1. \A q \in Procs : InPush(q)' => InPush(q) /\ promoting'[q] = promoting[q]
      BY <2>3 DEF SchedulerExits, TypeOK
    <3> QED BY <1>0, <2>3, <3>1, SameLists, ShrinkStep DEF SchedulerExits, redis, workers, history
  <2>4. ASSUME NEW e \in batch[p], Claim(p, e)
        PROVE  Rest'
    BY <1>0, <2>4, ClaimStep
  <2>5. ASSUME NEW e \in batch[p], Pass(p, e)
        PROVE  Rest'
    <3>1. \A q \in Procs : InPush(q)' => InPush(q) /\ promoting'[q] = promoting[q]
      BY <2>5 DEF Pass, AfterMember, TypeOK
    <3>2. \A q \in Procs : batch'[q] \subseteq batch[q]
      BY <2>5 DEF Pass, TypeOK
    <3>3. /\ delayed' \subseteq delayed
          /\ \A d \in delayed' : d \in due => d \in due'
      BY <2>5 DEF Pass
    <3> QED BY <1>0, <2>5, <3>1, <3>2, <3>3, SameLists, ShrinkStep DEF Pass, workers, history
  <2> QED BY <1>6, <2>1, <2>2, <2>3, <2>4, <2>5 DEF SchedulerStep
<1>7. ASSUME NEW p \in Procs, ProcessStep(p)
      PROVE  Rest'
  <2>1. CASE Start(p)
    <3>1. /\ \A v \in Workers : InHand(v)' => InHand(v) /\ held'[v] = held[v]
          /\ \A q \in Procs : InPush(q)' => InPush(q) /\ promoting'[q] = promoting[q]
      BY <2>1 DEF Start, TypeOK
    <3> QED BY <1>0, <2>1, <3>1, SameLists, ShrinkStep DEF Start, redis, history
  <2>2. CASE Stop(p)
    BY <1>0, <2>2, SameLists, ShrinkStep DEF Stop, redis, workers, scheduler
  <2>3. CASE StopReturns(p)
    <3>1. /\ \A v \in Workers : InHand(v)' => InHand(v) /\ held'[v] = held[v]
          /\ \A q \in Procs : InPush(q)' => InPush(q) /\ promoting'[q] = promoting[q]
      BY <2>3 DEF StopReturns, TypeOK
    <3> QED BY <1>0, <2>3, <3>1, SameLists, ShrinkStep DEF StopReturns, redis
  <2>4. CASE Crash(p)
    <3>1. /\ \A v \in Workers : InHand(v)' => InHand(v) /\ held'[v] = held[v]
          /\ \A q \in Procs : InPush(q)' => InPush(q) /\ promoting'[q] = promoting[q]
          /\ \A q \in Procs : batch'[q] \subseteq batch[q]
      BY <2>4 DEF Crash, TypeOK
    <3> QED BY <1>0, <2>4, <3>1, SameLists, ShrinkStep DEF Crash, redis
  <2> QED BY <1>7, <2>1, <2>2, <2>3, <2>4 DEF ProcessStep
<1> QED
  BY <1>1, <1>2, <1>3, <1>4, <1>5, <1>6, <1>7 DEF Next, ProducerStep

-----------------------------------------------------------------------------
(* The strengthening holds in every reachable state.                        *)
LEMMA InductiveStep == Inductive /\ [Next]_vars => Inductive'
BY TypeStep, RestStep DEF Inductive, Rest

LEMMA InductiveInvariant == Spec => []Inductive
BY InitOK, InductiveStep, PTL DEF Spec

(* THEOREM: no job is ever where two goroutines could run it.               *)
THEOREM OneOwner == Spec => []SingleOwner
<1>1. Inductive => SingleOwner
  BY DEF Inductive
<1> QED BY InductiveInvariant, <1>1, PTL

(* THEOREM: the counter in a job is the number of its handler calls, which  *)
(* never exceeds MaxAttempts.                                               *)
THEOREM AttemptsCounted == Spec => []AttemptCountsCalls
<1>1. Inductive => AttemptCountsCalls
  BY DEF Inductive
<1> QED BY InductiveInvariant, <1>1, PTL


(* Only Claim and Pass remove members, and only ones of their batch.        *)
LEMMA LeavesWhenDue ==
    Inductive /\ [Next]_vars => [\A e \in delayed : e \in delayed' \/ e \in due]_vars
<1> SUFFICES ASSUME Inductive, [Next]_vars, NEW e \in delayed, e \notin delayed'
             PROVE  e \in due
  OBVIOUS
<1>1. CASE UNCHANGED vars
  BY <1>1 DEF vars, redis
<1>2. ASSUME NEW w \in Workers, WorkerStep(w) PROVE e \in delayed'
  BY <1>2 DEF WorkerStep, Observe, BRPop, BRPopNothing, DrainPop, DrainSkip, HandlerSucceeds,
              HandlerFails, ScheduleRetry, Bury, redis
<1>3. ASSUME NEW p \in Procs, SchedulerStep(p) PROVE e \in due
  <2>1. CASE ReadDue(p) \/ Promote(p) \/ SchedulerExits(p)
    BY <2>1 DEF ReadDue, Promote, SchedulerExits, redis
  <2>2. ASSUME NEW b \in batch[p], Claim(p, b) \/ Pass(p, b) PROVE e \in due
    <3>1. e = b
      BY <2>2 DEF Claim, Pass
    <3> QED BY <3>1 DEF Inductive, BatchOvertaken
  <2> QED BY <1>3, <2>1, <2>2 DEF SchedulerStep
<1>4. ASSUME NEW p \in Procs, ProcessStep(p) PROVE e \in delayed'
  BY <1>4 DEF ProcessStep, Start, Stop, StopReturns, Crash, redis
<1>5. ASSUME NEW j \in Jobs, NEW priority \in Priorities,
             Enqueue(j, priority) \/ EnqueueDelayed(j)
      PROVE  e \in delayed'
  BY <1>5 DEF Enqueue, EnqueueDelayed
<1>6. ASSUME NEW j \in Jobs, EnqueueDelayed(j) PROVE e \in delayed'
  BY <1>6 DEF EnqueueDelayed
<1>7. ASSUME NEW d \in delayed, Elapse(d) PROVE e \in delayed'
  BY <1>7 DEF Elapse
<1> QED BY <1>1, <1>2, <1>3, <1>4, <1>5, <1>6, <1>7 DEF Next, ProducerStep

(* THEOREM: no member leaves the delayed set before its run-at time.        *)
THEOREM RetriesWait == Spec => RetryWaitsForBackoff
BY InductiveInvariant, LeavesWhenDue, PTL DEF Spec, RetryWaitsForBackoff

-----------------------------------------------------------------------------
(* Stopping.  What was in the lists when Stop was called does not come back  *)
(* to them: it is nowhere it could be pushed from, and its counter moves.   *)
Overtaken ==
    \A p \in Procs : \A b \in backlog[p] :
        /\ b.job \notin unsent /\ b \notin delayed /\ b.attempt <= tries[b.job]
        /\ \A w \in Workers : InHand(w) => held[w] # b
        /\ \A q \in Procs : InPush(q) => promoting[q] # b

(* A worker drains only in a process that stops.                            *)
LoopInv ==
    \A w \in Workers :
        /\ pc[w] \in {"off", "check", "brpop", "exited"} => scan[w] = 0
        /\ proc[w[1]] = "off" <=> pc[w] = "off"
        /\ proc[w[1]] = "running" => scan[w] = 0 /\ pc[w] # "exited"

(* A worker has seen the lists it is past, or all of them, without anything *)
(* of the backlog; what came since is not of the backlog.                   *)
Drained(p, m) == backlog[p] \cap Listed(m) = {}
DrainInv ==
    \A w \in Workers : \A m \in Lists :
        m < scan[w] \/ pc[w] = "exited" => Drained(w[1], m)

LEMMA PopShrinks ==
    ASSUME TypeOK, NEW l \in Lists, queue[l] # <<>>, queue' = Popped(l)
    PROVE  \A m \in Lists : Listed(m)' \subseteq Listed(m)
<1>1. \A m \in Lists : \A i \in DOMAIN queue'[m] :
        \/ m # l /\ i \in DOMAIN queue[m] /\ queue'[m][i] = queue[m][i]
        \/ m = l /\ i \in Nat /\ i # 0 /\ i + 1 \in DOMAIN queue[l] /\ queue'[m][i] = queue[l][i + 1]
  BY PopFacts DEF TypeOK, QueueType, Popped
<1> QED BY <1>1 DEF Listed

(* What the lists gain is a job not sent before or one being promoted.      *)
LEMMA ListsGain ==
    ASSUME TypeOK, Control, [Next]_vars, NEW m \in Lists, NEW e \in Listed(m)'
    PROVE  e \in Listed(m) \/ e.job \in unsent \/ \E q \in Procs : InPush(q) /\ promoting[q] = e
<1> DEFINE Gained == e.job \in unsent \/ \E q \in Procs : InPush(q) /\ promoting[q] = e
<1>1. PICK i \in DOMAIN queue'[m] : queue'[m][i] = e
  BY DEF Listed
<1>2. queue \in QueueType
  BY DEF TypeOK, QueueType
<1>3. ASSUME queue' = queue PROVE e \in Listed(m)
  BY <1>1, <1>3 DEF Listed
<1>4. ASSUME NEW l \in Lists, NEW f \in Waiting, queue' = Pushed(l, f)
      PROVE  e \in Listed(m) \/ e = f
  BY <1>1, <1>2, <1>4, PushFacts DEF Pushed, Listed
<1>5. ASSUME NEW l \in Lists, queue[l] # <<>>, queue' = Popped(l)
      PROVE  e \in Listed(m)
  BY <1>5, PopShrinks
<1>6. ASSUME NEW j \in Jobs, EnqueueDelayed(j) \/ \E priority \in Priorities : Enqueue(j, priority)
      PROVE  e \in Listed(m) \/ Gained
  <2>1. CASE EnqueueDelayed(j)
    BY <1>3, <2>1 DEF EnqueueDelayed
  <2>2. ASSUME NEW priority \in Priorities, Enqueue(j, priority) PROVE e \in Listed(m) \/ Gained
    <3>1. QueueForPriority(priority) \in Lists
      BY PriorityAssumption DEF QueueForPriority, Lists, DefaultList
    <3>2. [job |-> j, attempt |-> 0] \in Waiting /\ [job |-> j, attempt |-> 0].job = j
      BY AttemptAssumption DEF Waiting
    <3> QED BY <1>4, <2>2, <3>1, <3>2 DEF Enqueue
  <2> QED BY <1>6, <2>1, <2>2
<1>7. ASSUME NEW w \in Workers, WorkerStep(w) PROVE e \in Listed(m)
  <2>1. CASE BRPop(w)
    <3>1. PICK l \in FirstReady(Lists) : queue' = Popped(l)
      BY <2>1 DEF BRPop
    <3> QED BY <1>5, <3>1 DEF FirstReady
  <2>2. CASE DrainPop(w)
    BY <1>5, <2>2 DEF DrainPop, Control
  <2>3. CASE DrainSkip(w)
    BY <1>3, <1>5, <2>3 DEF DrainSkip, Control
  <2>4. CASE \/ Observe(w) \/ BRPopNothing(w) \/ HandlerSucceeds(w) \/ HandlerFails(w)
             \/ ScheduleRetry(w) \/ Bury(w)
    BY <1>3, <2>4 DEF Observe, BRPopNothing, HandlerSucceeds, HandlerFails, ScheduleRetry, Bury, redis
  <2> QED BY <1>7, <2>1, <2>2, <2>3, <2>4 DEF WorkerStep
<1>8. ASSUME NEW p \in Procs, SchedulerStep(p) PROVE e \in Listed(m) \/ Gained
  <2>1. CASE Promote(p)
    <3>1. InPush(p) /\ promoting[p] \in Waiting /\ (queue' = queue \/ queue' = Pushed(DefaultList, promoting[p]))
      BY <2>1 DEF Promote, Control
    <3>2. DefaultList \in Lists
      BY DEF DefaultList, Lists
    <3> QED BY <1>3, <1>4, <3>1, <3>2
  <2>2. CASE ~Promote(p)
    BY <1>3, <1>8, <2>2 DEF SchedulerStep, ReadDue, SchedulerExits, Claim, Pass, redis
  <2> QED BY <2>1, <2>2
<1>9. ASSUME NEW p \in Procs, ProcessStep(p) PROVE e \in Listed(m)
  BY <1>3, <1>9 DEF ProcessStep, Start, Stop, StopReturns, Crash, redis
<1>10. CASE UNCHANGED vars
  BY <1>3, <1>10 DEF vars, redis
<1>11. ASSUME NEW d \in delayed, Elapse(d) PROVE e \in Listed(m)
  BY <1>3, <1>11 DEF Elapse
<1> QED BY <1>6, <1>7, <1>8, <1>9, <1>10, <1>11 DEF Next, ProducerStep

LEMMA OvertakenStep ==
    ASSUME Inductive, Overtaken, [Next]_vars
    PROVE  Overtaken'
<1> USE DEF Overtaken
<1>1. TypeOK /\ Control /\ UnsentNowhere /\ SingleOwner /\ AttemptCountsCalls /\ TypeOK'
  BY TypeStep DEF Inductive
<1>2. CASE UNCHANGED vars
  BY <1>2 DEF vars, redis, workers, scheduler, budget, history
<1>3. ASSUME NEW j \in Jobs, EnqueueDelayed(j) \/ \E priority \in Priorities : Enqueue(j, priority)
      PROVE  Overtaken'
  <2>1. /\ j \in unsent /\ unsent' \subseteq unsent
        /\ \A b \in delayed' : b \in delayed \/ b.job = j
        /\ UNCHANGED <<proc, workers, scheduler, budget, history>>
    BY <1>3 DEF EnqueueDelayed, Enqueue
  <2> QED BY <2>1 DEF workers, scheduler, history
<1>4. ASSUME NEW e \in delayed, Elapse(e) PROVE Overtaken'
  BY <1>4 DEF Elapse, workers, scheduler, history
<1>5. ASSUME NEW w \in Workers, NEW e \in Waiting, Process(w, e), e.attempt = tries[e.job],
             UNCHANGED <<unsent, delayed, backlog, sched, promoting>>
      PROVE  Overtaken'
  <2>1. /\ e.job \in Jobs /\ held'[w].job = e.job /\ \A v \in Workers \ {w} : held'[v] = held[v]
        /\ pc' = [pc EXCEPT ![w] = IF e.job \in Unhandled THEN "bury" ELSE "handle"]
        /\ IF e.job \in Unhandled
             THEN tries' = tries
             ELSE tries' = [tries EXCEPT ![e.job] = @ + 1] /\ held'[w].attempt = e.attempt + 1
    BY <1>1, <1>5, ProcessType DEF Waiting
  <2>2. \A v \in Workers \ {w} : pc'[v] = pc[v]
    BY <1>1, <2>1 DEF TypeOK
  <2>3. \A j \in Jobs : tries'[j] >= tries[j] /\ tries[j] \in Nat /\ tries'[j] \in Nat
    <3>1. tries \in [Jobs -> Nat] /\ (tries' = tries \/ tries' = [tries EXCEPT ![e.job] = @ + 1])
      BY <1>1, <2>1 DEF TypeOK
    <3> QED BY <2>1, <3>1
  <2> SUFFICES ASSUME NEW p \in Procs, NEW b \in backlog[p]
               PROVE  b.attempt <= tries'[b.job] /\ (pc'[w] \in {"handle", "retry"} => held'[w] # b)
    BY <1>5, <2>1, <2>2
  <2>4. b \in Waiting /\ b.job \in Jobs /\ b.attempt \in Nat /\ b.attempt <= tries[b.job]
    BY <1>1, AttemptAssumption DEF TypeOK, Waiting
  <2>5. b.attempt <= tries'[b.job]
    BY <2>3, <2>4
  <2>6. ASSUME pc'[w] \in {"handle", "retry"}, held'[w] = b PROVE FALSE
    <3>1. held'[w].attempt = tries[e.job] + 1 /\ b.job = e.job
      BY <1>1, <1>5, <2>1, <2>6 DEF TypeOK
    <3> QED BY <2>1, <2>3, <2>4, <2>6, <3>1
  <2> QED BY <2>5, <2>6
<1>6. ASSUME NEW w \in Workers, WorkerStep(w) PROVE Overtaken'
  <2>1. ASSUME NEW l \in Lists, queue[l] # <<>> PROVE Head(queue[l]) \in Waiting /\ Head(queue[l]).attempt = tries[Head(queue[l]).job]
    BY <1>1, <2>1, PopFacts DEF TypeOK, QueueType, AttemptCountsCalls
  <2>2. ASSUME UNCHANGED <<unsent, delayed, backlog, sched, promoting, tries>>,
               \A v \in Workers : InHand(v)' => InHand(v) /\ held'[v] = held[v]
        PROVE  Overtaken'
    BY <2>2
  <2>3. CASE BRPop(w)
    <3>1. PICK l \in FirstReady(Lists), o \in Outcome \ {"refused"} :
            IF Acked(o) THEN Process(w, Head(queue[l]))
                        ELSE pc' = [pc EXCEPT ![w] = "check"] /\ UNCHANGED <<held, tries>>
      BY <2>3 DEF BRPop
    <3>2. l \in Lists /\ queue[l] # <<>> /\ UNCHANGED <<unsent, delayed, backlog, sched, promoting>>
      BY <2>3 DEF BRPop, FirstReady, scheduler
    <3>3. CASE Acked(o)
      BY <1>5, <2>1, <3>1, <3>2, <3>3
    <3>4. CASE ~Acked(o)
      BY <1>1, <2>2, <3>1, <3>2, <3>4 DEF TypeOK
    <3> QED BY <3>3, <3>4
  <2>4. CASE DrainPop(w)
    <3>1. scan[w] \in Lists /\ queue[scan[w]] # <<>> /\ Process(w, Head(queue[scan[w]]))
      BY <1>1, <2>4 DEF DrainPop, Control
    <3> QED BY <1>5, <2>1, <2>4, <3>1 DEF DrainPop, scheduler
  <2>5. CASE Observe(w) \/ BRPopNothing(w) \/ DrainSkip(w)
    <3>1. /\ UNCHANGED <<unsent, delayed, backlog, sched, promoting, tries, held>>
          /\ pc' = pc \/ \E s \in {"check", "brpop", "drain", "exited"} : pc' = [pc EXCEPT ![w] = s]
      BY <2>5 DEF Observe, BRPopNothing, DrainSkip, redis, scheduler, history
    <3> QED BY <1>1, <2>2, <3>1 DEF TypeOK
  <2>6. CASE HandlerSucceeds(w) \/ Bury(w)
    <3>1. Return(w) /\ UNCHANGED <<unsent, delayed, backlog, sched, promoting, tries>>
      BY <2>6 DEF HandlerSucceeds, Bury, redis, scheduler, history
    <3> QED BY <1>1, <2>2, <3>1, ReturnType
  <2>7. CASE HandlerFails(w)
    BY <1>1, <2>2, <2>7 DEF HandlerFails, redis, scheduler, history, TypeOK
  <2>8. CASE ScheduleRetry(w)
    <3>1. /\ UNCHANGED <<unsent, backlog, sched, promoting, tries>> /\ InHand(w)
          /\ delayed' \subseteq delayed \cup {held[w]}
          /\ Return(w) \/ (pc' = [pc EXCEPT ![w] = "bury"] /\ UNCHANGED held)
      BY <2>8 DEF ScheduleRetry, scheduler, history
    <3>2. \A v \in Workers : InHand(v)' => InHand(v) /\ held'[v] = held[v]
      BY <1>1, <3>1, ReturnType DEF TypeOK
    <3> QED BY <3>1, <3>2
  <2> QED BY <1>6, <2>3, <2>4, <2>5, <2>6, <2>7, <2>8 DEF WorkerStep
<1>7. ASSUME NEW p \in Procs, SchedulerStep(p) PROVE Overtaken'
  <2>1. /\ UNCHANGED <<unsent, backlog, tries, pc, held>> /\ delayed' \subseteq delayed
        /\ \A q \in Procs : InPush(q)' => (InPush(q) /\ promoting'[q] = promoting[q]) \/ promoting'[q] \in delayed
    BY <1>1, <1>7 DEF SchedulerStep, ReadDue, Promote, SchedulerExits, Claim, Pass, AfterMember, TypeOK, redis, workers, history
  <2> QED BY <2>1
<1>8. ASSUME NEW p \in Procs, ProcessStep(p) PROVE Overtaken'
  <2>1. /\ UNCHANGED <<unsent, delayed, queue, tries>>
        /\ \A v \in Workers : InHand(v)' => InHand(v) /\ held'[v] = held[v]
        /\ \A q \in Procs : InPush(q)' => InPush(q) /\ promoting'[q] = promoting[q]
    <3>1. CASE Start(p)
      BY <1>1, <3>1 DEF Start, TypeOK, redis, history
    <3>2. CASE Stop(p)
      BY <3>2 DEF Stop, redis, workers, scheduler
    <3>3. CASE StopReturns(p)
      BY <1>1, <3>3 DEF StopReturns, TypeOK, redis
    <3>4. CASE Crash(p)
      BY <1>1, <3>4 DEF Crash, TypeOK, redis
    <3> QED BY <1>8, <3>1, <3>2, <3>3, <3>4 DEF ProcessStep
  <2>2. ASSUME NEW q \in Procs, NEW b \in backlog'[q]
        PROVE  b \in backlog[q] \/ \E l \in Lists : b \in Listed(l)
    <3>1. \/ backlog' = backlog \/ backlog' = [backlog EXCEPT ![p] = {}]
          \/ backlog' = [backlog EXCEPT ![p] = UNION {Listed(l) : l \in Lists}]
      BY <1>8 DEF ProcessStep, Start, Stop, StopReturns, Crash, history
    <3>2. backlog \in [Procs -> SUBSET Waiting]
      BY <1>1 DEF TypeOK
    <3> QED BY <2>2, <3>1, <3>2
  <2>3. ASSUME NEW l \in Lists, NEW b \in Listed(l)
        PROVE  /\ b.job \notin unsent /\ b \notin delayed /\ b.attempt <= tries[b.job]
               /\ \A w \in Workers : InHand(w) => held[w] # b
               /\ \A q \in Procs : InPush(q) => promoting[q] # b
    <3>1. b \in Waiting /\ b.job \in Jobs /\ OnList(b.job) /\ b.attempt = tries[b.job] /\ b.attempt \in Nat
      <4>1. PICK i \in DOMAIN queue[l] : queue[l][i] = b
        BY DEF Listed
      <4>2. b \in Waiting
        BY <1>1, <4>1 DEF TypeOK
      <4>3. OnList(b.job) /\ b.attempt = tries[b.job]
        BY <1>1, <4>1 DEF OnList, AttemptCountsCalls
      <4> QED BY <4>2, <4>3, AttemptAssumption DEF Waiting
    <3>2. b.job \notin unsent
      BY <1>1, <3>1 DEF UnsentNowhere
    <3>3. ~IsDelayed(b.job) /\ ~IsRunning(b.job) /\ ~IsPromoting(b.job)
      BY <1>1, <3>1 DEF SingleOwner, OnePlace
    <3> QED BY <3>1, <3>2, <3>3 DEF IsDelayed, IsRunning, IsPromoting
  <2> QED BY <2>1, <2>2, <2>3
<1> QED BY <1>2, <1>3, <1>4, <1>6, <1>7, <1>8 DEF Next, ProducerStep

(* Where workers are in a process that is off, runs or stops.               *)
LEMMA LoopStep ==
    ASSUME TypeOK, Control, LoopInv, [Next]_vars
    PROVE  LoopInv'
<1> USE DEF LoopInv
<1>1. \A w \in Workers : w[1] \in Procs
  BY DEF Workers
<1>2. CASE UNCHANGED vars
  BY <1>2 DEF vars, workers
<1>3. ASSUME UNCHANGED <<pc, scan, proc>> PROVE LoopInv'
  BY <1>3
<1>4. ASSUME NEW w \in Workers, WorkerStep(w) PROVE LoopInv'
  <2>1. ASSUME NEW s \in {"check", "brpop", "drain", "handle", "retry", "bury"}, pc' = [pc EXCEPT ![w] = s],
               UNCHANGED <<scan, proc>>, pc[w] # "off", s \in {"check", "brpop"} => scan[w] = 0
        PROVE  LoopInv'
    BY <2>1 DEF TypeOK
  <2>2. CASE Observe(w)
    BY <2>1, <2>2 DEF Observe, TypeOK
  <2>3. CASE BRPop(w)
    <3>1. \E s \in {"check", "handle", "bury"} : pc' = [pc EXCEPT ![w] = s]
      BY <2>3 DEF BRPop, Process
    <3> QED BY <2>1, <2>3, <3>1 DEF BRPop
  <2>4. CASE BRPopNothing(w)
    BY <2>1, <2>4 DEF BRPopNothing
  <2>5. CASE DrainPop(w)
    <3>1. \E s \in {"handle", "bury"} : pc' = [pc EXCEPT ![w] = s]
      BY <2>5 DEF DrainPop, Process
    <3>2. proc[w[1]] \notin {"off", "running"} /\ scan' = [scan EXCEPT ![w] = 1] /\ proc' = proc
      BY <2>5 DEF DrainPop, Control, Lists
    <3> QED BY <1>1, <3>1, <3>2 DEF TypeOK
  <2>6. CASE DrainSkip(w)
    <3>1. proc[w[1]] \notin {"off", "running"} /\ proc' = proc /\ pc[w] = "drain"
      BY <2>6 DEF DrainSkip, Control, Lists
    <3>2. \/ scan' = [scan EXCEPT ![w] = @ + 1] /\ pc' = pc
          \/ scan' = [scan EXCEPT ![w] = 0] /\ pc' = [pc EXCEPT ![w] = "exited"]
      BY <2>6 DEF DrainSkip
    <3> QED BY <1>1, <3>1, <3>2 DEF TypeOK
  <2>7. CASE HandlerSucceeds(w) \/ Bury(w)
    <3>1. pc[w] # "off" /\ UNCHANGED <<scan, proc>> /\ Return(w)
      BY <2>7 DEF HandlerSucceeds, Bury
    <3> QED BY <2>1, <3>1 DEF Return
  <2>8. CASE HandlerFails(w)
    BY <2>1, <2>8 DEF HandlerFails
  <2>9. CASE ScheduleRetry(w)
    <3>1. pc[w] # "off" /\ UNCHANGED <<scan, proc>> /\ (Return(w) \/ pc' = [pc EXCEPT ![w] = "bury"])
      BY <2>9 DEF ScheduleRetry
    <3> QED BY <2>1, <3>1 DEF Return
  <2> QED BY <1>4, <2>2, <2>3, <2>4, <2>5, <2>6, <2>7, <2>8, <2>9 DEF WorkerStep
<1>5. ASSUME NEW p \in Procs, ProcessStep(p) PROVE LoopInv'
  <2>1. CASE Start(p)
    BY <1>1, <2>1 DEF Start, TypeOK
  <2>2. CASE Stop(p)
    BY <1>1, <2>2 DEF Stop, workers, TypeOK
  <2>3. CASE StopReturns(p)
    BY <1>1, <2>3 DEF StopReturns, AllExited, PoolOf, TypeOK
  <2>4. CASE Crash(p)
    BY <1>1, <2>4 DEF Crash, TypeOK
  <2> QED BY <1>5, <2>1, <2>2, <2>3, <2>4 DEF ProcessStep
<1>6. ASSUME NEW p \in Procs, SchedulerStep(p) PROVE LoopInv'
  BY <1>3, <1>6 DEF SchedulerStep, ReadDue, Promote, SchedulerExits, Claim, Pass, workers
<1>7. ASSUME NEW j \in Jobs, EnqueueDelayed(j) \/ \E priority \in Priorities : Enqueue(j, priority) PROVE LoopInv'
  BY <1>3, <1>7 DEF EnqueueDelayed, Enqueue, workers
<1>8. ASSUME NEW e \in delayed, Elapse(e) PROVE LoopInv'
  BY <1>3, <1>8 DEF Elapse, workers
<1> QED BY <1>2, <1>4, <1>5, <1>6, <1>7, <1>8 DEF Next, ProducerStep

(* The lists that a worker is past stay without a job of the backlog; with  *)
(* Redis up it leaves a list only when that is empty.                       *)
LEMMA DrainStep ==
    ASSUME RedisFaults = {}, Inductive, Overtaken, LoopInv, DrainInv, [Next]_vars
    PROVE  DrainInv'
<1>1. TypeOK /\ Control /\ \A w \in Workers : w[1] \in Procs
  BY DEF Inductive, Workers
<1>2. ASSUME NEW p \in Procs, backlog'[p] = backlog[p], NEW m \in Lists, Drained(p, m)
      PROVE  Drained(p, m)'
  <2> SUFFICES ASSUME NEW b \in backlog[p], b \in Listed(m)' PROVE FALSE
    BY <1>2 DEF Drained
  <2>1. b \notin Listed(m) /\ b.job \notin unsent /\ \A q \in Procs : InPush(q) => promoting[q] # b
    BY <1>2 DEF Drained, Overtaken
  <2> QED BY <1>1, <2>1, ListsGain
<1>3. ASSUME NEW p \in Procs, backlog'[p] = {}, NEW m \in Lists PROVE Drained(p, m)'
  BY <1>3 DEF Drained
<1>4. ASSUME backlog' = backlog, \A w \in Workers : /\ scan'[w] = scan[w] \/ scan'[w] \in {0, 1}
                                                    /\ pc'[w] = "exited" => pc[w] = "exited"
      PROVE  DrainInv'
  <2> SUFFICES ASSUME NEW w \in Workers, NEW m \in Lists, m < scan'[w] \/ pc'[w] = "exited"
               PROVE  Drained(w[1], m)'
    BY DEF DrainInv
  <2>1. m < scan[w] \/ pc[w] = "exited"
    <3>1. m \in {1, 2, 3} /\ (scan'[w] = scan[w] \/ scan'[w] = 0 \/ scan'[w] = 1)
      BY <1>4 DEF Lists
    <3>2. ~(m < 0) /\ ~(m < 1)
      BY <3>1
    <3>3. CASE m < scan'[w]
      BY <3>1, <3>2, <3>3
    <3> QED BY <1>4, <3>3
  <2> QED BY <1>1, <1>2, <1>4, <2>1 DEF DrainInv
<1>5. CASE UNCHANGED vars
  BY <1>4, <1>5 DEF vars, workers, history
<1>6. ASSUME NEW w \in Workers, WorkerStep(w) PROVE DrainInv'
  <2>1. CASE DrainSkip(w)
    <3>1. scan[w] \in Lists /\ queue[scan[w]] = <<>> /\ backlog' = backlog
      BY <1>1, <2>1 DEF DrainSkip, Control, history
    <3>2. \/ scan[w] < 3 /\ scan' = [scan EXCEPT ![w] = @ + 1] /\ pc' = pc
          \/ scan[w] = 3 /\ scan' = [scan EXCEPT ![w] = 0] /\ pc' = [pc EXCEPT ![w] = "exited"]
      BY <2>1, <3>1 DEF DrainSkip, Lists
    <3>3. Drained(w[1], scan[w])
      BY <3>1 DEF Drained, Listed
    <3> SUFFICES ASSUME NEW v \in Workers, NEW m \in Lists, m < scan'[v] \/ pc'[v] = "exited"
                 PROVE  Drained(v[1], m)'
      BY DEF DrainInv
    <3>4. Drained(v[1], m)
      BY <1>1, <3>1, <3>2, <3>3 DEF DrainInv, TypeOK, Lists
    <3> QED BY <1>1, <1>2, <3>1, <3>4
  <2>2. CASE ~DrainSkip(w)
    <3>1. backlog' = backlog
      BY <1>6, <2>2 DEF WorkerStep, Observe, BRPop, BRPopNothing, DrainPop, HandlerSucceeds, HandlerFails,
                        ScheduleRetry, Bury, history
    <3>2. scan' = scan \/ scan' = [scan EXCEPT ![w] = 1]
      BY <1>6, <2>2 DEF WorkerStep, Observe, BRPop, BRPopNothing, DrainPop, HandlerSucceeds, HandlerFails,
                        ScheduleRetry, Bury
    <3>3. pc' = pc \/ \E s \in {"check", "brpop", "drain", "handle", "retry", "bury"} : pc' = [pc EXCEPT ![w] = s]
      BY <1>6, <2>2 DEF WorkerStep, Observe, BRPop, BRPopNothing, DrainPop, HandlerSucceeds, HandlerFails,
                        ScheduleRetry, Bury, Return, Process
    <3> QED BY <1>1, <1>4, <3>1, <3>2, <3>3 DEF TypeOK
  <2> QED BY <2>1, <2>2
<1>7. ASSUME NEW p \in Procs, ProcessStep(p) PROVE DrainInv'
  <2> SUFFICES ASSUME NEW w \in Workers, NEW m \in Lists, m < scan'[w] \/ pc'[w] = "exited"
               PROVE  Drained(w[1], m)'
    BY DEF DrainInv
  <2>1. CASE Start(p)
    <3>1. m < scan[w] \/ pc[w] = "exited"
      BY <1>1, <2>1 DEF Start, TypeOK
    <3> QED BY <1>1, <1>2, <2>1, <3>1 DEF Start, DrainInv, history
  <2>2. CASE Stop(p)
    <3>1. w[1] # p /\ (m < scan[w] \/ pc[w] = "exited")
      BY <1>1, <2>2 DEF Stop, workers, LoopInv, TypeOK, Lists
    <3>2. backlog'[w[1]] = backlog[w[1]]
      BY <1>1, <2>2, <3>1 DEF Stop, TypeOK
    <3> QED BY <1>1, <1>2, <3>1, <3>2 DEF DrainInv
  <2>3. CASE StopReturns(p) \/ Crash(p)
    <3>1. backlog' = [backlog EXCEPT ![p] = {}]
      BY <2>3 DEF StopReturns, Crash
    <3>2. CASE w[1] = p
      BY <1>1, <1>3, <3>1, <3>2 DEF TypeOK
    <3>3. CASE w[1] # p
      <4>1. m < scan[w] \/ pc[w] = "exited"
        BY <2>3, <3>3 DEF StopReturns, Crash
      <4> QED BY <1>1, <1>2, <3>1, <3>3, <4>1 DEF DrainInv, TypeOK
    <3> QED BY <3>2, <3>3
  <2> QED BY <1>7, <2>1, <2>2, <2>3 DEF ProcessStep
<1>8. ASSUME NEW p \in Procs, SchedulerStep(p) PROVE DrainInv'
  BY <1>4, <1>8 DEF SchedulerStep, ReadDue, Promote, SchedulerExits, Claim, Pass, workers, history
<1>9. ASSUME NEW j \in Jobs, EnqueueDelayed(j) \/ \E priority \in Priorities : Enqueue(j, priority) PROVE DrainInv'
  BY <1>4, <1>9 DEF EnqueueDelayed, Enqueue, workers, history
<1>10. ASSUME NEW e \in delayed, Elapse(e) PROVE DrainInv'
  BY <1>4, <1>10 DEF Elapse, workers, history
<1> QED BY <1>5, <1>6, <1>7, <1>8, <1>9, <1>10 DEF Next, ProducerStep

(* THEOREM: with Redis up, what was in the lists when a consumer was told   *)
(* to stop has been taken from them when its goroutines have ended, for any *)
(* number of workers that leave at different times, and processes that go   *)
(* on, start, stop or crash beside it.                                      *)
THEOREM DrainedAtExit == ASSUME RedisFaults = {} PROVE Spec => []DrainLeavesNothing
<1> DEFINE StopInv == Inductive /\ Overtaken /\ LoopInv /\ DrainInv
<1>1. Init => StopInv
  <2> SUFFICES ASSUME Init PROVE Overtaken /\ LoopInv /\ DrainInv
    BY InitOK
  <2>1. Overtaken
    BY DEF Init, Overtaken
  <2>2. LoopInv
    BY DEF Init, LoopInv, Workers
  <2>3. DrainInv
    BY DEF Init, DrainInv, Lists
  <2> QED BY <2>1, <2>2, <2>3
<1>2. StopInv /\ [Next]_vars => StopInv'
  <2>1. Inductive /\ [Next]_vars => Inductive'
    BY InductiveStep
  <2> QED BY <2>1, OvertakenStep, LoopStep, DrainStep DEF Inductive
<1>3. StopInv => DrainLeavesNothing
  <2> SUFFICES ASSUME StopInv, NEW p \in Procs, AllExited(p), NEW l \in Lists
               PROVE  Drained(p, l)
    BY DEF DrainLeavesNothing, Drained
  <2>1. <<p, 1>> \in Workers /\ <<p, 1>> \in PoolOf(p) /\ <<p, 1>>[1] = p
    BY PoolAssumption DEF Workers, PoolOf
  <2>2. pc[<<p, 1>>] = "exited"
    BY <2>1 DEF AllExited
  <2> QED BY <2>1, <2>2 DEF DrainInv
<1> QED BY <1>1, <1>2, <1>3, PTL DEF Spec
=============================================================================
