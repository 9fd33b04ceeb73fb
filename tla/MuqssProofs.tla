---------------------------- MODULE MuqssProofs ----------------------------
(***************************************************************************)
(* Proofs about the scheduler for any number of cores and tasks and any    *)
(* time slice.  Types and RTFirst are shown for any priorities; the rest   *)
(* is about tasks of one priority, which is what first_initialize gives    *)
(* them: wake_up then never stores without the lock.                       *)
(***************************************************************************)
EXTENDS Muqss, TLAPS

OnePriority == \A t, u \in Task : Priority[t] = Priority[u]

\* No core is on the path that stores into another's next without its lock.
NoBarge == \A c \in Core : pc[c] \notin BargePC
Barge(c) == BargeMove(c) \/ BargeFlag(c) \/ BargeCpu(c) \/ BargeUnlock(c)

\* Where the code moves or compares a PCB without a test there is one.
Filled ==
    \A c \in Core :
        /\ pc[c] \in {"sched", "check", "rtlock", "rt", "nplock", "np", "ret"}
              => running_task[c] # None
        /\ pc[c] = "move" => next[c].task # None
        /\ pc[c] \in WakePC \cup {"barge"} => pcb[c] # None
        /\ pc[c] = "pick" => top[c] # None
Aimed == \A c \in Core : pc[c] = "store" => target[c] # None

\* What a core holds while it boots, and why a switch finds a next task when
\* the running one has been queued.
BootInv ==
    \A c \in Core :
        /\ pc[c] \in {"off", "boot"} => Main[c] \in fresh
        /\ pc[c] = "boot" => cpu[Main[c]] = c
SwitchReady ==
    \A c \in Core :
        pc[c] \in {"swlock", "switch"} /\ running_task[c] = None
            => has_task(next[c])

\* What holds whatever the priorities are, and what needs there to be one.
AnyInv == TypeOK /\ Filled /\ SwitchReady
IInv == /\ AnyInv
        /\ NoBarge
        /\ Aimed
        /\ BootInv
        /\ NoTaskTwice
        /\ CpuNamesHolder

LEMMA NobodyBarges ==
    ASSUME NoBarge, NEW c \in Core
    PROVE  ~Barge(c)
BY DEF NoBarge, Barge, BargePC, BargeMove, BargeFlag, BargeCpu, BargeUnlock, At

-----------------------------------------------------------------------------
(* Sequences *)

\* Append adds one element to what a sequence of tasks ranges over.
LEMMA RangeAppend ==
    ASSUME NEW q \in Seq(Task), NEW t \in Task
    PROVE  /\ \A u : u \in Range(Append(q, t)) <=> u \in Range(q) \/ u = t
           /\ IsInjective(q) /\ t \notin Range(q) => IsInjective(Append(q, t))
<1> DEFINE r == Append(q, t)
<1>1. /\ DOMAIN q = 1 .. Len(q) /\ DOMAIN r = 1 .. Len(q) + 1
      /\ \A i \in 1 .. Len(q) : r[i] = q[i]
      /\ r[Len(q) + 1] = t
      /\ Len(q) \in Nat
  OBVIOUS
<1> HIDE DEF r
<1>2. \A u : u \in Range(r) <=> u \in Range(q) \/ u = t
  <2>1. ASSUME NEW u, u \in Range(r) PROVE u \in Range(q) \/ u = t
    BY <1>1, <2>1 DEF Range
  <2>2. ASSUME NEW u, u \in Range(q) PROVE u \in Range(r)
    BY <1>1, <2>2 DEF Range
  <2>3. t \in Range(r)
    BY <1>1 DEF Range
  <2> QED
    BY <2>1, <2>2, <2>3
<1>3. IsInjective(q) /\ t \notin Range(q) => IsInjective(r)
  BY <1>1 DEF IsInjective, Range
<1> QED
  BY <1>2, <1>3 DEF r

\* Tail takes the head out of it, for good if nothing occurs twice.
LEMMA RangeTail ==
    ASSUME NEW q \in Seq(Task), q # << >>
    PROVE  /\ Head(q) \in Range(q) /\ Head(q) \in Task /\ Tail(q) \in Seq(Task)
           /\ Range(Tail(q)) \subseteq Range(q)
           /\ IsInjective(q) => IsInjective(Tail(q)) /\ Head(q) \notin Range(Tail(q))
<1> DEFINE r == Tail(q)
<1>1. /\ DOMAIN q = 1 .. Len(q) /\ DOMAIN r = 1 .. Len(q) - 1
      /\ \A i \in 1 .. Len(q) - 1 : r[i] = q[i + 1]
      /\ Head(q) = q[1] /\ Len(q) \in Nat \ {0}
      /\ Head(q) \in Task /\ r \in Seq(Task)
  OBVIOUS
<1> HIDE DEF r
<1>2. Head(q) \in Range(q)
  BY <1>1 DEF Range
<1>3. Range(r) \subseteq Range(q)
  <2>1. ASSUME NEW i \in DOMAIN r PROVE r[i] \in Range(q)
    BY <1>1 DEF Range
  <2> QED
    BY <2>1 DEF Range
<1>4. ASSUME IsInjective(q) PROVE IsInjective(r) /\ Head(q) \notin Range(r)
  <2>1. ASSUME NEW i \in DOMAIN r, NEW j \in DOMAIN r, r[i] = r[j] PROVE i = j
    <3>1. i + 1 \in DOMAIN q /\ j + 1 \in DOMAIN q
      BY <1>1
    <3>2. q[i + 1] = q[j + 1]
      BY <1>1, <2>1
    <3>3. i + 1 = j + 1
      BY <1>4, <3>1, <3>2 DEF IsInjective
    <3> QED
      BY <1>1, <3>3
  <2>2. ASSUME NEW i \in DOMAIN r PROVE r[i] # Head(q)
    <3>1. i + 1 \in DOMAIN q /\ 1 \in DOMAIN q /\ i + 1 # 1
      BY <1>1
    <3>2. q[i + 1] # q[1]
      BY <1>4, <3>1 DEF IsInjective
    <3> QED
      BY <1>1, <3>2
  <2> QED
    BY <2>1, <2>2 DEF IsInjective, Range
<1> QED
  BY <1>1, <1>2, <1>3, <1>4 DEF r

-----------------------------------------------------------------------------
(* The helpers of the actions, once for all of them *)

\* A clock reading within the bound gives a deadline.
LEMMA DeadlineType ==
    ASSUME NEW n \in 0 .. MaxTime, NEW r \in n .. MaxTime
    PROVE  r \in 0 .. MaxTime /\ Deadline(r) \in Nat
<1>1. Ratio * rr_interval \in Nat
  BY MuqssAssumption
<1> QED
  BY <1>1, MuqssAssumption DEF Deadline

\* What is on top of a heap is in it.
LEMMA ChoiceType ==
    ASSUME NEW S
    PROVE  TopCores(S) \subseteq S /\ Tops(S) \subseteq S
BY DEF TopCores, Tops

\* Pushes keep the queues within the tasks,
LEMMA PushType ==
    ASSUME NEW S \in SUBSET Task, NEW q \in Seq(Task), NEW t \in Task
    PROVE  NPPush(S, t) \in SUBSET Task /\ RTPush(q, t) \in Seq(Task)
BY DEF NPPush, RTPush

\* and so do pop_running_tasks,
LEMMA PopType ==
    ASSUME NEW c \in Core, NEW S \in SUBSET Task, NEW q \in Seq(Task),
           running_task \in [Core -> Task \cup {None}], running_task[c] # None,
           scheduler_queue \in [Core -> SUBSET Task],
           RT_task_queue \in [Core -> Seq(Task)],
           PopRunning(c, S, q)
    PROVE  /\ running_task' \in [Core -> Task \cup {None}]
           /\ scheduler_queue' \in [Core -> SUBSET Task]
           /\ RT_task_queue' \in [Core -> Seq(Task)]
<1>1. running_task[c] \in Task
  OBVIOUS
<1>2. /\ NPPush(S, running_task[c]) \in SUBSET Task
      /\ RTPush(q, running_task[c]) \in Seq(Task)
  BY <1>1, PushType
<1> QED
  BY <1>2 DEF PopRunning

\* the assignment to next,
LEMMA SetNextType ==
    ASSUME NEW c \in Core \cup {None}, NEW t \in Task, SetNext(c, t),
           next \in [Core -> [task : Task \cup {None}, is_empty : BOOLEAN]],
           cpu \in [Task -> Core \cup {None}]
    PROVE  /\ next' \in [Core -> [task : Task \cup {None}, is_empty : BOOLEAN]]
           /\ cpu' \in [Task -> Core \cup {None}]
BY DEF SetNext, Assigned

\* and first_initialize.
LEMMA InitializeType ==
    ASSUME NEW c \in Core, NEW t \in Task, first_initialize(c, t),
           time_slice \in [Task -> 0 .. rr_interval],
           virtual_deadline \in [Task -> Nat],
           cpu \in [Task -> Core \cup {None}],
           now \in 0 .. MaxTime
    PROVE  /\ time_slice' \in [Task -> 0 .. rr_interval]
           /\ virtual_deadline' \in [Task -> Nat]
           /\ cpu' \in [Task -> Core \cup {None}]
           /\ now' \in 0 .. MaxTime
<1>1. rr_interval \in 0 .. rr_interval
  BY MuqssAssumption
<1>2. PICK r \in now .. MaxTime :
         /\ now' = r
         /\ virtual_deadline' = [virtual_deadline EXCEPT ![t] = Deadline(r)]
  BY DEF first_initialize
<1>3. r \in 0 .. MaxTime /\ Deadline(r) \in Nat
  BY DeadlineType
<1> QED
  BY <1>1, <1>2, <1>3 DEF first_initialize

-----------------------------------------------------------------------------
(* Where tasks are, and what a step does to it *)

\* After the step, t can only be in place l of core d; or only where it was.
Moves(t, d, l) ==
    \A e \in Core : \A m \in Place : Has(e, m, t)' => e = d /\ m = l
Stays(t) ==
    \A e \in Core : \A m \in Place : Has(e, m, t)' => Has(e, m, t)

\* What every step does to every task.
Orderly(t) ==
    \/ /\ Stays(t)
       /\ t \in fresh' => t \in fresh
       /\ cpu'[t] = cpu[t] \/ t \in fresh
    \/ /\ t \notin fresh'
       /\ \E d \in Core : \E l \in Place :
            Moves(t, d, l) /\ cpu'[t] = d /\ \A c \in Core : Kept(c, t) => c = d

\* Where a task goes that is given to the queues of a core.
Destination(t) == IF RealTime(t) THEN "rt" ELSE "np"

\* A push adds the task to the one queue its priority says.
LEMMA PushEffect ==
    ASSUME NEW S \in SUBSET Task, NEW q \in Seq(Task), NEW t \in Task
    PROVE  /\ \A u \in NPPush(S, t) : u \in S \/ (u = t /\ Destination(t) = "np")
           /\ \A u \in Range(RTPush(q, t)) :
                 u \in Range(q) \/ (u = t /\ Destination(t) = "rt")
           /\ IsInjective(q) /\ t \notin Range(q) => IsInjective(RTPush(q, t))
           /\ Destination(t) \in {"rt", "np"}
<1>1. CASE RealTime(t)
  <2>1. NPPush(S, t) = S /\ RTPush(q, t) = Append(q, t) /\ Destination(t) = "rt"
    BY <1>1 DEF RTPush, NPPush, Destination
  <2> QED
    BY <2>1, RangeAppend
<1>2. CASE ~RealTime(t)
  <2>1. NPPush(S, t) = S \cup {t} /\ RTPush(q, t) = q /\ Destination(t) = "np"
    BY <1>2 DEF RTPush, NPPush, Destination
  <2> QED
    BY <2>1
<1> QED
  BY <1>1, <1>2

\* The places pop_running_tasks writes.
Queued == {"running", "rt", "np"}

\* It puts r, which c was running, in one queue of c, and leaves every other
\* task where it was, or takes it out of c's queues.
LEMMA PopEffect ==
    ASSUME TypeOK, NoTaskTwice,
           NEW c \in Core, NEW S \in SUBSET scheduler_queue[c], NEW q \in Seq(Task),
           Range(q) \subseteq Range(RT_task_queue[c]), IsInjective(q),
           NEW r \in Task, running_task[c] = r, PopRunning(c, S, q)
    PROVE  /\ \A e \in Core : \A m \in Queued :
                 Has(e, m, r)' => e = c /\ m = Destination(r)
           /\ \A e \in Core : \A m \in Queued : \A t \in Task \ {r} :
                 Has(e, m, t)' => Has(e, m, t)
           /\ \A t \in Task \ {r} : Has(c, "np", t)' => t \in S
           /\ \A t \in Task \ {r} : Has(c, "rt", t)' => t \in Range(q)
           /\ \A e \in Core : IsInjective(RT_task_queue'[e])
           /\ Destination(r) \in Place
<1>1. \A e \in Core : \A m \in Place : Has(e, m, r) => e = c /\ m = "running"
  BY DEF NoTaskTwice, Place, Has
<1>2. /\ \A e \in Core : r \notin scheduler_queue[e]
      /\ \A e \in Core : r \notin Range(RT_task_queue[e])
      /\ \A e \in Core \ {c} : running_task[e] # r
  BY <1>1 DEF Has, Place
<1>3. r \notin S /\ r \notin Range(q)
  BY <1>2
<1>4. /\ \A e \in Core : running_task'[e] = IF e = c THEN None ELSE running_task[e]
      /\ \A e \in Core : scheduler_queue'[e] =
            IF e = c THEN NPPush(S, r) ELSE scheduler_queue[e]
      /\ \A e \in Core : RT_task_queue'[e] =
            IF e = c THEN RTPush(q, r) ELSE RT_task_queue[e]
  BY DEF PopRunning, TypeOK
<1>5. /\ \A u \in NPPush(S, r) : u \in S \/ (u = r /\ Destination(r) = "np")
      /\ \A u \in Range(RTPush(q, r)) :
            u \in Range(q) \/ (u = r /\ Destination(r) = "rt")
      /\ IsInjective(RTPush(q, r))
      /\ Destination(r) \in {"rt", "np"}
  <2>1. S \in SUBSET Task
    BY DEF TypeOK
  <2> QED
    BY <1>3, <2>1, PushEffect
<1>6. None \notin Task
  BY MuqssAssumption
<1>7. ASSUME NEW e \in Core, NEW m \in Queued, Has(e, m, r)'
      PROVE  e = c /\ m = Destination(r)
  BY <1>2, <1>3, <1>4, <1>5, <1>6, <1>7 DEF Has, Queued
<1>8. ASSUME NEW e \in Core, NEW m \in Queued, NEW t \in Task \ {r}, Has(e, m, t)'
      PROVE  /\ Has(e, m, t)
             /\ e = c /\ m = "np" => t \in S
             /\ e = c /\ m = "rt" => t \in Range(q)
  BY <1>4, <1>5, <1>6, <1>8 DEF Has, Queued
<1>9. \A e \in Core : IsInjective(RT_task_queue'[e])
  BY <1>4, <1>5 DEF NoTaskTwice
<1> QED
  BY <1>5, <1>7, <1>8, <1>9 DEF Place, Queued

\* Whatever the step was, if it was orderly the invariants still hold.
LEMMA OrderlyKeeps ==
    ASSUME TypeOK, TypeOK', NoTaskTwice, CpuNamesHolder, \A t \in Task : Orderly(t),
           \A c \in Core : IsInjective(RT_task_queue'[c])
    PROVE  NoTaskTwice' /\ CpuNamesHolder' 
<1>1. ASSUME NEW c \in Core, NEW d \in Core, NEW k \in Place, NEW l \in Place,
             NEW t \in Task, Has(c, k, t)', Has(d, l, t)'
      PROVE  c = d /\ k = l
  <2>1. CASE Stays(t)
    BY <1>1, <2>1 DEF Stays, NoTaskTwice
  <2>2. CASE \E e \in Core : \E m \in Place : Moves(t, e, m)
    BY <1>1, <2>2 DEF Moves
  <2> QED
    BY <2>1, <2>2 DEF Orderly
<1>2. ASSUME NEW c \in Core, NEW k \in Place, NEW t \in fresh', Has(c, k, t)'
      PROVE  FALSE
  <2>1. t \in Task
    BY <1>2 DEF TypeOK
  <2>2. Stays(t) /\ t \in fresh
    BY <1>2, <2>1 DEF Orderly
  <2> QED
    BY <1>2, <2>2 DEF Stays, NoTaskTwice
<1>3. ASSUME NEW c \in Core, NEW k \in Place, NEW t \in Task, Has(c, k, t)'
      PROVE  cpu'[t] = c
  <2>1. CASE Stays(t) /\ (cpu'[t] = cpu[t] \/ t \in fresh)
    <3>1. Has(c, k, t)
      BY <1>3, <2>1 DEF Stays
    <3>2. t \notin fresh
      BY <3>1 DEF NoTaskTwice
    <3> QED
      BY <2>1, <3>1, <3>2 DEF CpuNamesHolder
  <2>2. CASE \E e \in Core : \E m \in Place : Moves(t, e, m) /\ cpu'[t] = e
    BY <1>3, <2>2 DEF Moves
  <2> QED
    BY <2>1, <2>2 DEF Orderly
<1>4. NoTaskTwice'
  BY <1>1, <1>2 DEF NoTaskTwice
<1>5. CpuNamesHolder'
  BY <1>3 DEF CpuNamesHolder
<1> QED
  BY <1>4, <1>5

\* A task does not change cores in an orderly step.
LEMMA OrderlyStays ==
    ASSUME TypeOK, CpuNamesHolder, \A t \in Task : Orderly(t), NoTaskTwice,
           NEW c \in Core, NEW d \in Core, NEW t \in Task, Kept(c, t), Kept(d, t)'
    PROVE  c = d
<1>1. CASE Stays(t)
  BY <1>1 DEF Stays, Kept, NoTaskTwice
<1>2. CASE \E e \in Core : \E l \in Place :
            Moves(t, e, l) /\ cpu'[t] = e /\ \A b \in Core : Kept(b, t) => b = e
  BY <1>2 DEF Moves, Kept
<1> QED
  BY <1>1, <1>2 DEF Orderly

\* What the effects of a step are argued from.
Placed == TypeOK /\ NoBarge /\ Aimed /\ NoTaskTwice /\ CpuNamesHolder

\* A task in a place is in no other, is not fresh, and has its cpu right.
LEMMA OnlyAt ==
    ASSUME Placed, NEW c \in Core, NEW k \in Place, NEW t \in Task, Has(c, k, t)
    PROVE  /\ \A e \in Core : \A m \in Place : Has(e, m, t) => e = c /\ m = k
           /\ \A e \in Core : Kept(e, t) => e = c
           /\ t \notin fresh /\ cpu[t] = c
BY DEF Placed, NoTaskTwice, CpuNamesHolder, Kept

\* Queueing the running task is orderly,
LEMMA PopOrderly ==
    ASSUME Placed, NEW c \in Core, running_task[c] # None,
           PopRunning(c, scheduler_queue[c], RT_task_queue[c]),
           UNCHANGED <<next, pcb, cpu, fresh>>
    PROVE  /\ \A t \in Task : Orderly(t)
           /\ \A e \in Core : IsInjective(RT_task_queue'[e])
<1>1. PICK r \in Task : r = running_task[c]
  BY DEF Placed, TypeOK
<1>2. /\ \A e \in Core : \A m \in Queued : Has(e, m, r)' => e = c /\ m = Destination(r)
      /\ \A e \in Core : \A m \in Queued : \A t \in Task \ {r} :
            Has(e, m, t)' => Has(e, m, t)
      /\ \A e \in Core : IsInjective(RT_task_queue'[e])
      /\ Destination(r) \in Place
  <2>1. RT_task_queue[c] \in Seq(Task) /\ IsInjective(RT_task_queue[c])
    BY DEF Placed, TypeOK, NoTaskTwice
  <2> QED
    BY <1>1, <2>1, PopEffect DEF Placed
<1>3. \A e \in Core : \A m \in {"next", "pcb"} : \A t \in Task :
         Has(e, m, t)' <=> Has(e, m, t)
  BY DEF Has
<1>4. Has(c, "running", r)
  BY <1>1 DEF Has
<1>5. Orderly(r)
  <2>1. Moves(r, c, Destination(r))
    BY <1>2, <1>3, <1>4, OnlyAt DEF Moves, Place, Queued
  <2> QED
    BY <2>1, <1>2, <1>4, OnlyAt DEF Orderly, Place
<1>6. ASSUME NEW t \in Task \ {r} PROVE Orderly(t)
  <2>1. Stays(t)
    BY <1>2, <1>3 DEF Stays, Place, Queued
  <2> QED
    BY <2>1 DEF Orderly
<1> QED
  BY <1>2, <1>5, <1>6

\* next holds the task it is given, and that task has the cpu of the core.
LEMMA SetNextEffect ==
    ASSUME TypeOK, NEW c \in Core, NEW h \in Task, SetNext(c, h)
    PROVE  /\ \A e \in Core : \A t \in Task :
                Has(e, "next", t)' => IF e = c THEN t = h ELSE Has(e, "next", t)
           /\ \A t \in Task : cpu'[t] = IF t = h THEN c ELSE cpu[t]
BY DEF SetNext, Has, TypeOK, Assigned

\* so is doing so after another task was taken out of a queue into next,
LEMMA TakeOrderly ==
    ASSUME Placed, NEW c \in Core, running_task[c] # None,
           NEW S \in SUBSET scheduler_queue[c], NEW q \in Seq(Task),
           Range(q) \subseteq Range(RT_task_queue[c]), IsInjective(q),
           NEW h \in Task, h \notin S, h \notin Range(q),
           NEW k \in {"rt", "np"}, Has(c, k, h),
           SetNext(c, h), PopRunning(c, S, q), UNCHANGED <<pcb, fresh>>
    PROVE  /\ \A t \in Task : Orderly(t)
           /\ \A e \in Core : IsInjective(RT_task_queue'[e])
<1>1. PICK r \in Task : r = running_task[c]
  BY DEF Placed, TypeOK
<1>2. /\ \A e \in Core : \A m \in Queued : Has(e, m, r)' => e = c /\ m = Destination(r)
      /\ \A e \in Core : \A m \in Queued : \A t \in Task \ {r} :
            Has(e, m, t)' => Has(e, m, t)
      /\ \A t \in Task \ {r} : Has(c, "np", t)' => t \in S
      /\ \A t \in Task \ {r} : Has(c, "rt", t)' => t \in Range(q)
      /\ \A e \in Core : IsInjective(RT_task_queue'[e])
      /\ Destination(r) \in Place
  <2>1. TypeOK /\ NoTaskTwice
    BY DEF Placed
  <2>2. running_task[c] = r
    BY <1>1
  <2> QED
    BY <2>1, <2>2, PopEffect
<1>3. /\ \A e \in Core : \A t \in Task :
            Has(e, "next", t)' => IF e = c THEN t = h ELSE Has(e, "next", t)
      /\ \A t \in Task : cpu'[t] = IF t = h THEN c ELSE cpu[t]
      /\ \A e \in Core : \A t \in Task : Has(e, "pcb", t)' => Has(e, "pcb", t)
  <2>1. TypeOK
    BY DEF Placed
  <2>2. \A e \in Core : \A t \in Task : Has(e, "pcb", t)' => Has(e, "pcb", t)
    BY DEF Has
  <2> QED
    BY <2>1, <2>2, SetNextEffect
<1>4. Has(c, "running", r)
  BY <1>1 DEF Has
<1>5. h # r
  BY <1>4, OnlyAt DEF Place
<1>6. Orderly(r)
  <2>1. Moves(r, c, Destination(r))
    BY <1>2, <1>3, <1>4, <1>5, OnlyAt DEF Moves, Place, Queued
  <2> QED
    BY <2>1, <1>2, <1>3, <1>4, <1>5, OnlyAt DEF Orderly, Place
<1>7. Orderly(h)
  <2>1. \A e \in Core : \A m \in Place : Has(e, m, h) => e = c /\ m = k
    BY OnlyAt DEF Place
  <2>2. Moves(h, c, "next")
    BY <1>2, <1>3, <1>5, <2>1 DEF Moves, Place, Queued
  <2>3. h \notin fresh /\ \A e \in Core : Kept(e, h) => e = c
    BY OnlyAt DEF Place
  <2> QED
    BY <2>2, <2>3, <1>3 DEF Orderly, Place
<1>8. ASSUME NEW t \in Task \ {r, h} PROVE Orderly(t)
  <2>1. Stays(t)
    BY <1>2, <1>3 DEF Stays, Place, Queued
  <2> QED
    BY <2>1, <1>3 DEF Orderly
<1> QED
  BY <1>2, <1>6, <1>7, <1>8

\* and so is moving nothing.
LEMMA StayOrderly ==
    ASSUME Placed,
           UNCHANGED <<running_task, next, scheduler_queue, RT_task_queue, pcb>>,
           fresh' \subseteq fresh, \A t \in Task \ fresh : cpu'[t] = cpu[t]
    PROVE  /\ \A t \in Task : Orderly(t)
           /\ \A e \in Core : IsInjective(RT_task_queue'[e])
<1>1. ASSUME NEW t \in Task PROVE Orderly(t)
  <2>1. Stays(t)
    BY DEF Stays, Has
  <2> QED
    BY <2>1 DEF Orderly
<1> QED
  BY <1>1 DEF Placed, NoTaskTwice

\* The steps that move a task or set the cpu of one.
Move(c) ==
    \/ InitializeTask(c) \/ StartMain(c) \/ CheckNext(c) \/ TakeRT(c)
    \/ TakeNP(c) \/ MoveNext(c) \/ YieldSelect(c) \/ YieldPush(c)
    \/ Enable(c) \/ WakeStore(c) \/ WakeLocal(c)

\* Every other step leaves tasks and cpus alone.
LEMMA MoveOrNot ==
    ASSUME NoBarge, [Next]_vars
    PROVE  \/ \E c \in Core : Move(c)
           \/ UNCHANGED <<running_task, next, scheduler_queue, RT_task_queue,
                          pcb, cpu, fresh>>
<1> DEFINE Same == UNCHANGED <<running_task, next, scheduler_queue,
                               RT_task_queue, pcb, cpu, fresh>>
<1>1. ASSUME NEW c \in Core,
             Tick(c) \/ TickLock(c) \/ SaveContext(c) \/ Expire(c) \/ KeepRunning(c)
      PROVE  Same
  BY <1>1 DEF Tick, TickLock, SaveContext, Expire, KeepRunning, slots, runqs,
              waking, sched
<1>2. ASSUME NEW c \in Core,
             RTLock(c) \/ NPLock(c) \/ SwitchLock(c) \/ Activate(c) \/ Return(c)
      PROVE  Same
  BY <1>2 DEF RTLock, NPLock, SwitchLock, Activate, Return, slots, runqs,
              waking, sched
<1>3. ASSUME NEW c \in Core,
             Yield(c) \/ YieldLock(c) \/ WakeScan(c) \/ WakeStale(c) \/ WakeContinue(c)
      PROVE  Same
  BY <1>3 DEF Yield, YieldLock, WakeScan, WakeStale, WakeContinue, slots,
              runqs, waking, sched, vars
<1>4. ASSUME NEW c \in Core,
             WakeOutrank(c) \/ WakeTryLock(c) \/ WakePop(c) \/ LocalLock(c)
      PROVE  Same
  BY <1>4 DEF WakeOutrank, WakeTryLock, WakePop, LocalLock, slots, runqs,
              waking, sched
<1>5. CASE UNCHANGED vars
  BY <1>5 DEF vars
<1> QED
  BY <1>1, <1>2, <1>3, <1>4, <1>5, NobodyBarges
     DEF Next, Step, Enter, Halted, Move, Barge

\* Every step is orderly.
LEMMA MoveOrderly ==
    ASSUME Placed, Filled, BootInv, [Next]_vars
    PROVE  /\ \A t \in Task : Orderly(t)
           /\ \A e \in Core : IsInjective(RT_task_queue'[e])
<1> DEFINE Goal == /\ \A t \in Task : Orderly(t)
                   /\ \A e \in Core : IsInjective(RT_task_queue'[e])
<1> USE DEF slots, runqs, waking, sched
<1>1. ASSUME NEW c \in Core, InitializeTask(c) PROVE Goal
  <2>1. Main[c] \in fresh
    BY <1>1 DEF InitializeTask, At, BootInv
  <2>2. \A t \in Task \ fresh : cpu'[t] = cpu[t]
    BY <1>1, <2>1 DEF InitializeTask, first_initialize, Placed, TypeOK
  <2> QED
    BY <1>1, <2>2, StayOrderly DEF InitializeTask
<1>2. ASSUME NEW c \in Core, StartMain(c) PROVE Goal
  <2>1. Main[c] \in fresh /\ cpu[Main[c]] = c /\ Main[c] \in Task
    BY <1>2, MuqssAssumption DEF StartMain, At, BootInv
  <2>2. \A e \in Core : \A m \in Place : ~Has(e, m, Main[c])
    BY <2>1 DEF Placed, NoTaskTwice
  <2>3. \A e \in Core : running_task'[e] = IF e = c THEN Main[c] ELSE running_task[e]
    BY <1>2 DEF StartMain, Placed, TypeOK
  <2>4. UNCHANGED <<next, scheduler_queue, RT_task_queue, pcb, cpu>>
    BY <1>2 DEF StartMain
  <2>5. fresh' = fresh \ {Main[c]}
    BY <1>2 DEF StartMain
  <2>6. ASSUME NEW t \in Task, t # Main[c] PROVE Orderly(t)
    <3>1. Stays(t)
      BY <2>3, <2>4, <2>6 DEF Stays, Has, Place
    <3> QED
      BY <3>1, <2>4, <2>5 DEF Orderly
  <2>7. ASSUME NEW t \in Task, t = Main[c] PROVE Orderly(t)
    <3>1. Moves(t, c, "running")
      BY <2>2, <2>3, <2>4, <2>7 DEF Moves, Has, Place
    <3>2. \A b \in Core : ~Kept(b, t)
      BY <2>2, <2>7 DEF Kept
    <3> QED
      BY <3>1, <3>2, <2>1, <2>4, <2>5, <2>7 DEF Orderly, Place
  <2>8. \A e \in Core : IsInjective(RT_task_queue'[e])
    BY <2>4 DEF Placed, NoTaskTwice
  <2> QED
    BY <2>6, <2>7, <2>8
<1>3. ASSUME NEW c \in Core, CheckNext(c) PROVE Goal
  <2>1. running_task[c] # None
    BY <1>3 DEF CheckNext, At, Filled
  <2>2. CASE UNCHANGED <<running_task, runqs>>
    BY <1>3, <2>2, StayOrderly DEF CheckNext
  <2>3. CASE PopRunning(c, scheduler_queue[c], RT_task_queue[c])
    BY <1>3, <2>1, <2>3, PopOrderly DEF CheckNext
  <2> QED
    BY <1>3, <2>2, <2>3 DEF CheckNext
<1>4. ASSUME NEW c \in Core, TakeRT(c) PROVE Goal
  <2>1. running_task[c] # None
    BY <1>4 DEF TakeRT, At, Filled
  <2>2. CASE RT_task_queue[c] = << >>
    BY <1>4, <2>2, StayOrderly DEF TakeRT
  <2>3. CASE RT_task_queue[c] # << >>
    <3> DEFINE q == Tail(RT_task_queue[c])
               h == Head(RT_task_queue[c])
    <3>1. RT_task_queue[c] \in Seq(Task) /\ IsInjective(RT_task_queue[c])
      BY DEF Placed, TypeOK, NoTaskTwice
    <3>2. /\ h \in Range(RT_task_queue[c]) /\ h \in Task /\ q \in Seq(Task)
          /\ Range(q) \subseteq Range(RT_task_queue[c])
          /\ IsInjective(q) /\ h \notin Range(q)
      BY <2>3, <3>1, RangeTail
    <3>3. SetNext(c, h) /\ PopRunning(c, scheduler_queue[c], q)
          /\ UNCHANGED <<pcb, fresh>>
      BY <1>4, <2>3 DEF TakeRT
    <3> HIDE DEF q, h
    <3>4. Has(c, "rt", h)
      BY <3>2 DEF Has
    <3>5. h \notin scheduler_queue[c]
      BY <3>2, <3>4, OnlyAt DEF Has, Place
    <3> QED
      BY <2>1, <3>2, <3>3, <3>4, <3>5, TakeOrderly
  <2> QED
    BY <2>2, <2>3
<1>5. ASSUME NEW c \in Core, TakeNP(c) PROVE Goal
  <2>1. running_task[c] # None
    BY <1>5 DEF TakeNP, At, Filled
  <2>2. CASE scheduler_queue[c] = {}
    BY <1>5, <2>2, StayOrderly DEF TakeNP
  <2>3. CASE scheduler_queue[c] # {}
    <3>1. PICK h \in Tops(scheduler_queue[c]) :
             SetNext(c, h) /\ PopRunning(c, scheduler_queue[c] \ {h}, RT_task_queue[c])
      BY <1>5, <2>3 DEF TakeNP
    <3>2. h \in scheduler_queue[c] /\ h \in Task
      BY ChoiceType DEF Placed, TypeOK
    <3>3. Has(c, "np", h)
      BY <3>2 DEF Has
    <3>4. h \notin Range(RT_task_queue[c])
      BY <3>2, <3>3, OnlyAt DEF Has, Place
    <3>5. RT_task_queue[c] \in Seq(Task) /\ IsInjective(RT_task_queue[c])
      BY DEF Placed, TypeOK, NoTaskTwice
    <3>6. UNCHANGED <<pcb, fresh>>
      BY <1>5 DEF TakeNP
    <3> QED
      BY <2>1, <3>1, <3>2, <3>3, <3>4, <3>5, <3>6, TakeOrderly
  <2> QED
    BY <2>2, <2>3
<1>6. ASSUME NEW c \in Core, MoveNext(c) PROVE Goal
  <2>1. PICK h \in Task : h = next[c].task
    BY <1>6 DEF MoveNext, At, Filled, Placed, TypeOK
  <2>2. \A e \in Core : \A m \in Place : Has(e, m, h) => e = c /\ m = "next"
    BY <2>1, OnlyAt DEF Has, Place
  <2>3. h \notin fresh /\ \A e \in Core : Kept(e, h) => e = c
    BY <2>1, OnlyAt DEF Has, Place
  <2>4. /\ \A e \in Core : running_task'[e] = IF e = c THEN h ELSE running_task[e]
        /\ \A e \in Core : next'[e].task = IF e = c THEN None ELSE next[e].task
        /\ \A t \in Task : cpu'[t] = IF t = h THEN c ELSE cpu[t]
    BY <1>6, <2>1 DEF MoveNext, Assigned, Default, Placed, TypeOK
  <2>5. UNCHANGED <<scheduler_queue, RT_task_queue, pcb, fresh>>
    BY <1>6 DEF MoveNext
  <2>6. None \notin Task
    BY MuqssAssumption
  <2>7. Orderly(h)
    <3>1. Moves(h, c, "running")
      BY <2>2, <2>4, <2>5, <2>6 DEF Moves, Has, Place
    <3> QED
      BY <3>1, <2>3, <2>4, <2>5 DEF Orderly, Place
  <2>8. ASSUME NEW t \in Task \ {h} PROVE Orderly(t)
    <3>1. Stays(t)
      BY <2>4, <2>5, <2>6 DEF Stays, Has, Place
    <3> QED
      BY <3>1, <2>4, <2>5 DEF Orderly
  <2> QED
    BY <2>5, <2>7, <2>8 DEF Placed, NoTaskTwice
<1>7. ASSUME NEW c \in Core, YieldSelect(c) PROVE Goal
  <2>1. CASE UNCHANGED <<next, cpu, runqs>>
    BY <1>7, <2>1, StayOrderly DEF YieldSelect
  <2>2. ASSUME ~UNCHANGED <<next, cpu, runqs>>
        PROVE  \E h \in Task : \E k \in {"rt", "np"} :
                  /\ Has(c, k, h) /\ SetNext(c, h)
                  /\ \A e \in Core : \A t \in Task :
                        /\ Has(e, "rt", t)' => Has(e, "rt", t) /\ ~(t = h /\ k = "rt")
                        /\ Has(e, "np", t)' => Has(e, "np", t) /\ ~(t = h /\ k = "np")
                  /\ \A e \in Core : IsInjective(RT_task_queue'[e])
    <3>1. CASE RT_task_queue[c] # << >>
      <4> DEFINE h == Head(RT_task_queue[c])
                 q == Tail(RT_task_queue[c])
      <4>1. RT_task_queue[c] \in Seq(Task) /\ IsInjective(RT_task_queue[c])
        BY DEF Placed, TypeOK, NoTaskTwice
      <4>2. /\ h \in Range(RT_task_queue[c]) /\ h \in Task
            /\ Range(q) \subseteq Range(RT_task_queue[c])
            /\ IsInjective(q) /\ h \notin Range(q)
        BY <3>1, <4>1, RangeTail
      <4>3. /\ SetNext(c, h) /\ UNCHANGED scheduler_queue
            /\ \A e \in Core :
                  RT_task_queue'[e] = IF e = c THEN q ELSE RT_task_queue[e]
        BY <1>7, <3>1 DEF YieldSelect, Placed, TypeOK
      <4> HIDE DEF h, q
      <4>4. PICK g \in Task : g = h
        BY <4>2
      <4>5. Has(c, "rt", g) /\ SetNext(c, g)
        BY <4>2, <4>3, <4>4 DEF Has
      <4>6. \A e \in Core : \A m \in Place : Has(e, m, g) => e = c /\ m = "rt"
        BY <4>5, OnlyAt DEF Place
      <4>7. ASSUME NEW e \in Core, NEW t \in Task
            PROVE  /\ Has(e, "rt", t)' => Has(e, "rt", t) /\ t # g
                   /\ Has(e, "np", t)' => Has(e, "np", t)
        BY <4>2, <4>3, <4>4, <4>6 DEF Has, Place
      <4>8. \A e \in Core : IsInjective(RT_task_queue'[e])
        BY <4>2, <4>3 DEF Placed, NoTaskTwice
      <4> QED
        BY <4>5, <4>7, <4>8
    <3>2. CASE RT_task_queue[c] = << >>
      <4>1. PICK g \in Tops(scheduler_queue[c]) :
              /\ SetNext(c, g)
              /\ scheduler_queue' = [scheduler_queue EXCEPT ![c] = @ \ {g}]
              /\ UNCHANGED RT_task_queue
        BY <1>7, <2>2, <3>2 DEF YieldSelect
      <4>2. g \in scheduler_queue[c] /\ g \in Task
        BY ChoiceType DEF Placed, TypeOK
      <4>3. Has(c, "np", g)
        BY <4>2 DEF Has
      <4>4. \A e \in Core : \A m \in Place : Has(e, m, g) => e = c /\ m = "np"
        BY <4>2, <4>3, OnlyAt DEF Place
      <4>5. \A e \in Core : scheduler_queue'[e] =
               IF e = c THEN scheduler_queue[e] \ {g} ELSE scheduler_queue[e]
        BY <4>1 DEF Placed, TypeOK
      <4>6. ASSUME NEW e \in Core, NEW t \in Task
            PROVE  /\ Has(e, "rt", t)' => Has(e, "rt", t)
                   /\ Has(e, "np", t)' => Has(e, "np", t) /\ t # g
        BY <4>1, <4>4, <4>5 DEF Has, Place
      <4>7. \A e \in Core : IsInjective(RT_task_queue'[e])
        BY <4>1 DEF Placed, NoTaskTwice
      <4> QED
        BY <4>1, <4>2, <4>3, <4>6, <4>7
    <3> QED
      BY <3>1, <3>2
  <2>3. CASE ~UNCHANGED <<next, cpu, runqs>>
    <3>1. PICK h \in Task, k \in {"rt", "np"} :
            /\ Has(c, k, h) /\ SetNext(c, h)
            /\ \A e \in Core : \A t \in Task :
                  /\ Has(e, "rt", t)' => Has(e, "rt", t) /\ ~(t = h /\ k = "rt")
                  /\ Has(e, "np", t)' => Has(e, "np", t) /\ ~(t = h /\ k = "np")
            /\ \A e \in Core : IsInjective(RT_task_queue'[e])
      BY <2>2, <2>3
    <3>2. /\ \A e \in Core : \A m \in Place : Has(e, m, h) => e = c /\ m = k
          /\ \A e \in Core : Kept(e, h) => e = c
          /\ h \notin fresh
      BY <3>1, OnlyAt DEF Place
    <3>3. /\ \A e \in Core : \A t \in Task :
                Has(e, "next", t)' => IF e = c THEN t = h ELSE Has(e, "next", t)
          /\ \A t \in Task : cpu'[t] = IF t = h THEN c ELSE cpu[t]
      BY <3>1, SetNextEffect DEF Placed
    <3>4. /\ \A e \in Core : \A t \in Task : \A m \in {"running", "pcb"} :
                Has(e, m, t)' => Has(e, m, t)
          /\ fresh' = fresh
      BY <1>7 DEF YieldSelect, Has
    <3>5. Orderly(h)
      <4>1. Moves(h, c, "next")
        BY <3>1, <3>2, <3>3, <3>4 DEF Moves, Place
      <4> QED
        BY <4>1, <3>2, <3>3, <3>4 DEF Orderly, Place
    <3>6. ASSUME NEW t \in Task \ {h} PROVE Orderly(t)
      <4>1. Stays(t)
        BY <3>1, <3>3, <3>4 DEF Stays, Place
      <4> QED
        BY <4>1, <3>3, <3>4 DEF Orderly
    <3> QED
      BY <3>1, <3>5, <3>6
  <2> QED
    BY <2>1, <2>3
<1>8. ASSUME NEW c \in Core, YieldPush(c) PROVE Goal
  <2>1. CASE running_task[c] = None
    BY <1>8, <2>1, StayOrderly DEF YieldPush
  <2>2. CASE running_task[c] # None
    BY <1>8, <2>2, PopOrderly DEF YieldPush
  <2> QED
    BY <2>1, <2>2
<1>9. ASSUME NEW c \in Core, Enable(c) PROVE Goal
  <2>1. PICK h \in fresh : /\ first_initialize(c, h)
                           /\ pcb' = [pcb EXCEPT ![c] = h]
                           /\ fresh' = fresh \ {h}
    BY <1>9 DEF Enable
  <2>2. h \in Task
    BY DEF Placed, TypeOK
  <2>3. \A e \in Core : \A m \in Place : ~Has(e, m, h)
    BY DEF Placed, NoTaskTwice
  <2>4. /\ \A e \in Core : pcb'[e] = IF e = c THEN h ELSE pcb[e]
        /\ \A t \in Task : cpu'[t] = IF t = h THEN c ELSE cpu[t]
    BY <2>1 DEF first_initialize, Placed, TypeOK
  <2>5. UNCHANGED <<running_task, next, scheduler_queue, RT_task_queue>>
    BY <1>9 DEF Enable
  <2>6. Orderly(h)
    <3>1. Moves(h, c, "pcb")
      BY <2>3, <2>4, <2>5 DEF Moves, Has, Place
    <3>2. \A e \in Core : ~Kept(e, h)
      BY <2>3 DEF Kept
    <3> QED
      BY <3>1, <3>2, <2>1, <2>2, <2>4 DEF Orderly, Place
  <2>7. ASSUME NEW t \in Task \ {h} PROVE Orderly(t)
    <3>1. Stays(t)
      BY <2>4, <2>5 DEF Stays, Has, Place
    <3> QED
      BY <3>1, <2>1, <2>4 DEF Orderly
  <2> QED
    BY <2>5, <2>6, <2>7 DEF Placed, NoTaskTwice
<1>10. ASSUME NEW c \in Core, WakeStore(c) PROVE Goal
  <2>1. PICK h \in Task, d \in Core : h = pcb[c] /\ d = target[c]
    BY <1>10 DEF WakeStore, WakeReturn, At, Filled, Aimed, WakePC, Placed, TypeOK
  <2>2. /\ \A e \in Core : \A m \in Place : Has(e, m, h) => e = c /\ m = "pcb"
        /\ h \notin fresh
    BY <2>1, OnlyAt DEF Has, Place
  <2>3. /\ \A e \in Core : \A t \in Task :
              Has(e, "next", t)' => IF e = d THEN t = h ELSE Has(e, "next", t)
        /\ \A t \in Task : cpu'[t] = IF t = h THEN d ELSE cpu[t]
    BY <1>10, <2>1, SetNextEffect DEF WakeStore, WakeReturn, Placed
  <2>4. \A e \in Core : pcb'[e] = IF e = c THEN None ELSE pcb[e]
    BY <1>10 DEF WakeStore, WakeReturn, Placed, TypeOK
  <2>5. UNCHANGED <<running_task, scheduler_queue, RT_task_queue, fresh>>
    BY <1>10 DEF WakeStore, WakeReturn
  <2>6. \A e \in Core : \A t \in Task : \A m \in {"running", "rt", "np", "pcb"} :
           Has(e, m, t)' => Has(e, m, t) /\ ~(m = "pcb" /\ e = c)
    BY <2>4, <2>5, MuqssAssumption DEF Has
  <2>7. Orderly(h)
    <3>1. Moves(h, d, "next")
      BY <2>2, <2>3, <2>6 DEF Moves, Place
    <3>2. \A e \in Core : ~Kept(e, h)
      BY <2>2 DEF Kept
    <3> QED
      BY <3>1, <3>2, <2>2, <2>3, <2>5 DEF Orderly, Place
  <2>8. ASSUME NEW t \in Task \ {h} PROVE Orderly(t)
    <3>1. Stays(t)
      BY <2>3, <2>6 DEF Stays, Place
    <3> QED
      BY <3>1, <2>3, <2>5 DEF Orderly
  <2> QED
    BY <2>5, <2>7, <2>8 DEF Placed, NoTaskTwice
<1>11. ASSUME NEW c \in Core, WakeLocal(c) PROVE Goal
  <2>1. PICK h \in Task : h = pcb[c]
    BY <1>11 DEF WakeLocal, At, Filled, WakePC, Placed, TypeOK
  <2>2. /\ \A e \in Core : \A m \in Place : Has(e, m, h) => e = c /\ m = "pcb"
        /\ h \notin fresh /\ cpu[h] = c
    BY <2>1, OnlyAt DEF Has, Place
  <2>3. /\ \A e \in Core : scheduler_queue'[e] =
              IF e = c THEN NPPush(scheduler_queue[e], h) ELSE scheduler_queue[e]
        /\ \A e \in Core : RT_task_queue'[e] =
              IF e = c THEN RTPush(RT_task_queue[e], h) ELSE RT_task_queue[e]
        /\ \A e \in Core : pcb'[e] = IF e = c THEN None ELSE pcb[e]
    BY <1>11, <2>1 DEF WakeLocal, Placed, TypeOK
  <2>4. /\ \A u \in NPPush(scheduler_queue[c], h) :
              u \in scheduler_queue[c] \/ (u = h /\ Destination(h) = "np")
        /\ \A u \in Range(RTPush(RT_task_queue[c], h)) :
              u \in Range(RT_task_queue[c]) \/ (u = h /\ Destination(h) = "rt")
        /\ IsInjective(RTPush(RT_task_queue[c], h))
        /\ Destination(h) \in {"rt", "np"}
    <3>1. /\ scheduler_queue[c] \in SUBSET Task /\ RT_task_queue[c] \in Seq(Task)
          /\ IsInjective(RT_task_queue[c])
      BY DEF Placed, TypeOK, NoTaskTwice
    <3>2. h \notin Range(RT_task_queue[c])
      BY <2>2 DEF Has, Place
    <3> QED
      BY <3>1, <3>2, PushEffect
  <2>5. UNCHANGED <<running_task, next, cpu, fresh>>
    BY <1>11 DEF WakeLocal
  <2>6. Orderly(h)
    <3>1. Moves(h, c, Destination(h))
      BY <2>2, <2>3, <2>4, <2>5, MuqssAssumption DEF Moves, Has, Place
    <3>2. \A e \in Core : ~Kept(e, h)
      BY <2>2 DEF Kept
    <3> QED
      BY <3>1, <3>2, <2>2, <2>4, <2>5 DEF Orderly, Place
  <2>7. ASSUME NEW t \in Task \ {h} PROVE Orderly(t)
    <3>1. Stays(t)
      BY <2>3, <2>4, <2>5, MuqssAssumption DEF Stays, Has, Place
    <3> QED
      BY <3>1, <2>5 DEF Orderly
  <2>8. \A e \in Core : IsInjective(RT_task_queue'[e])
    BY <2>3, <2>4 DEF Placed, NoTaskTwice
  <2> QED
    BY <2>6, <2>7, <2>8
<1>12. CASE UNCHANGED <<running_task, next, scheduler_queue, RT_task_queue,
                        pcb, cpu, fresh>>
  BY <1>12, StayOrderly
<1> QED
  BY <1>1, <1>2, <1>3, <1>4, <1>5, <1>6, <1>7, <1>8, <1>9, <1>10, <1>11, <1>12,
     MoveOrNot DEF Move, Placed

-----------------------------------------------------------------------------
(* One lemma per part of the invariant, one step per action *)

\* TypeOK: what the code moves without a check is a task.
LEMMA TypeStep ==
    ASSUME TypeOK, Filled, [Next]_vars
    PROVE  TypeOK'
<1> USE DEF TypeOK, PC, TickPC, YieldPC, WakePC, BargePC
<1>1. ASSUME NEW c \in Core, InitializeTask(c) PROVE TypeOK'
  BY <1>1, InitializeType, MuqssAssumption
     DEF InitializeTask, Goto, slots, runqs, waking
<1>2. ASSUME NEW c \in Core, StartMain(c) PROVE TypeOK'
  BY <1>2, MuqssAssumption
     DEF StartMain, Goto, runqs, waking, sched
<1>3. ASSUME NEW c \in Core, Tick(c) PROVE TypeOK'
  BY <1>3 DEF Tick, Goto, slots, runqs, waking, sched
<1>4. ASSUME NEW c \in Core, TickLock(c) PROVE TypeOK'
  BY <1>4 DEF TickLock, Acquire, try_lock, Goto, slots, runqs, waking, sched
<1>5. ASSUME NEW c \in Core, SaveContext(c) PROVE TypeOK'
  BY <1>5 DEF SaveContext, Goto, Fault, Unlock, slots, runqs, waking, sched
<1>6. ASSUME NEW c \in Core, Expire(c) PROVE TypeOK'
  <2>1. PICK r \in now .. MaxTime :
           /\ now' = r
           /\ virtual_deadline' =
                [virtual_deadline EXCEPT ![running_task[c]] = Deadline(r)]
    BY <1>6 DEF Expire
  <2>2. now' \in 0 .. MaxTime /\ virtual_deadline' \in [Task -> Nat]
    BY <2>1, DeadlineType
  <2>3. time_slice' \in [Task -> 0 .. rr_interval]
    <3>1. rr_interval \in 0 .. rr_interval
      BY MuqssAssumption
    <3>2. time_slice' = [time_slice EXCEPT ![running_task[c]] = rr_interval]
      BY <1>6 DEF Expire
    <3> QED
      BY <3>1, <3>2
  <2>4. pc' \in [Core -> PC]
    BY <1>6 DEF Expire, Goto
  <2>5. UNCHANGED <<queues, slots, lock, runqs, waking, cpu, fresh>>
    BY <1>6 DEF Expire
  <2> QED
    BY <2>2, <2>3, <2>4, <2>5 DEF slots, runqs, waking
<1>7. ASSUME NEW c \in Core, KeepRunning(c) PROVE TypeOK'
  <2>1. running_task[c] \in Task
    BY <1>7 DEF KeepRunning, At, Filled
  <2>2. time_slice' \in [Task -> 0 .. rr_interval]
    BY <1>7, <2>1, MuqssAssumption DEF KeepRunning
  <2> QED
    BY <1>7, <2>2 DEF KeepRunning, Goto, slots, runqs, waking
<1>8. ASSUME NEW c \in Core, CheckNext(c) PROVE TypeOK'
  <2>1. running_task[c] # None
    BY <1>8 DEF CheckNext, At, Filled
  <2> QED
    BY <1>8, <2>1, PopType DEF CheckNext, Goto, runqs, waking, sched
<1>9. ASSUME NEW c \in Core, RTLock(c) PROVE TypeOK'
  BY <1>9 DEF RTLock, Acquire, try_lock, Goto, slots, runqs, waking, sched
<1>10. ASSUME NEW c \in Core, TakeRT(c) PROVE TypeOK'
  <2>1. running_task[c] # None
    BY <1>10 DEF TakeRT, At, Filled
  <2>2. CASE RT_task_queue[c] = << >>
    BY <1>10, <2>2 DEF TakeRT, Goto, Unlock, runqs, waking
  <2>3. CASE RT_task_queue[c] # << >>
    <3>1. Head(RT_task_queue[c]) \in Task /\ Tail(RT_task_queue[c]) \in Seq(Task)
      BY <2>3
    <3> QED
      BY <1>10, <2>1, <2>3, <3>1, PopType, SetNextType
         DEF TakeRT, Goto, Unlock, waking
  <2> QED
    BY <2>2, <2>3
<1>11. ASSUME NEW c \in Core, NPLock(c) PROVE TypeOK'
  BY <1>11 DEF NPLock, Acquire, try_lock, Goto, slots, runqs, waking, sched
<1>12. ASSUME NEW c \in Core, TakeNP(c) PROVE TypeOK'
  <2>1. running_task[c] # None
    BY <1>12 DEF TakeNP, At, Filled
  <2>2. CASE scheduler_queue[c] = {}
    BY <1>12, <2>2 DEF TakeNP, Goto, Unlock, runqs, waking
  <2>3. CASE scheduler_queue[c] # {}
    <3>1. PICK t \in Tops(scheduler_queue[c]) :
            /\ SetNext(c, t)
            /\ PopRunning(c, scheduler_queue[c] \ {t}, RT_task_queue[c])
      BY <1>12, <2>3 DEF TakeNP
    <3>2. t \in Task
      BY ChoiceType
    <3> QED
      BY <1>12, <2>1, <3>1, <3>2, PopType, SetNextType
         DEF TakeNP, Goto, Unlock, waking
  <2> QED
    BY <2>2, <2>3
<1>13. ASSUME NEW c \in Core, SwitchLock(c) PROVE TypeOK'
  BY <1>13 DEF SwitchLock, Acquire, try_lock, Goto, slots, runqs, waking, sched
<1>14. ASSUME NEW c \in Core, Activate(c) PROVE TypeOK'
  <2>1. next[c].task # None => next[c].task \in Task
    OBVIOUS
  <2>2. active' \in [Core -> Task] /\ lock' \in [Core -> BOOLEAN]
    BY <1>14, <2>1 DEF Activate, Unlock
  <2>3. pc' \in [Core -> PC]
    BY <1>14 DEF Activate, Goto, Fault
  <2> QED
    BY <1>14, <2>2, <2>3 DEF Activate, runqs, waking, sched
<1>15. ASSUME NEW c \in Core, MoveNext(c) PROVE TypeOK'
  <2>1. next[c].task \in Task
    BY <1>15 DEF MoveNext, At, Filled
  <2> QED
    BY <1>15, <2>1 DEF MoveNext, Goto, Unlock, Assigned, Default, runqs, waking
<1>16. ASSUME NEW c \in Core, Return(c) PROVE TypeOK'
  BY <1>16 DEF Return, Goto, Fault, slots, runqs, waking, sched
<1>17. ASSUME NEW c \in Core, Yield(c) PROVE TypeOK'
  BY <1>17 DEF Yield, Goto, slots, runqs, waking, sched
<1>18. ASSUME NEW c \in Core, YieldLock(c) PROVE TypeOK'
  BY <1>18 DEF YieldLock, Acquire, try_lock, Goto, slots, runqs, waking, sched
<1>19. ASSUME NEW c \in Core, YieldSelect(c) PROVE TypeOK'
  <2>1. CASE UNCHANGED <<next, cpu, runqs>>
    BY <1>19, <2>1 DEF YieldSelect, Goto, runqs, waking
  <2>2. CASE RT_task_queue[c] # << >> /\ SetNext(c, Head(RT_task_queue[c]))
    <3>1. Head(RT_task_queue[c]) \in Task /\ Tail(RT_task_queue[c]) \in Seq(Task)
      BY <2>2
    <3>2. /\ next' \in [Core -> [task : Task \cup {None}, is_empty : BOOLEAN]]
          /\ cpu' \in [Task -> Core \cup {None}]
      BY <2>2, <3>1, SetNextType
    <3>3. /\ RT_task_queue' \in [Core -> Seq(Task)]
          /\ scheduler_queue' = scheduler_queue
      BY <1>19, <2>2, <3>1, ZenonT(40) DEF YieldSelect
    <3>4. /\ pc' \in [Core -> PC]
          /\ UNCHANGED <<queues, running_task, active, lock, waking, time_slice,
                         virtual_deadline, now, fresh>>
      BY <1>19 DEF YieldSelect, Goto
    <3> QED
      BY <3>2, <3>3, <3>4 DEF waking
  <2>3. CASE RT_task_queue[c] = << >> /\ ~UNCHANGED <<next, cpu, runqs>>
    <3>1. PICK t \in Tops(scheduler_queue[c]) :
            /\ SetNext(c, t)
            /\ scheduler_queue' = [scheduler_queue EXCEPT ![c] = @ \ {t}]
      BY <1>19, <2>3 DEF YieldSelect
    <3>2. t \in Task
      BY ChoiceType
    <3> QED
      BY <1>19, <2>3, <3>1, <3>2, SetNextType DEF YieldSelect, Goto, waking, runqs
  <2> QED
    BY <1>19, <2>1, <2>2, <2>3 DEF YieldSelect
<1>20. ASSUME NEW c \in Core, YieldPush(c) PROVE TypeOK'
  <2>1. CASE running_task[c] = None
    BY <1>20, <2>1 DEF YieldPush, Goto, Fault, runqs, waking, sched
  <2>2. CASE running_task[c] # None
    BY <1>20, <2>2, PopType DEF YieldPush, Goto, Unlock, waking, sched
  <2> QED
    BY <2>1, <2>2
<1>21. ASSUME NEW c \in Core, Enable(c) PROVE TypeOK'
  BY <1>21, InitializeType DEF Enable, Goto, slots, runqs
<1>22. ASSUME NEW c \in Core, WakeScan(c) PROVE TypeOK'
  <2>1. pc' \in [Core -> PC]
    BY <1>22 DEF WakeScan, Goto, Fault
  <2>2. rq' \in [Core -> SUBSET Core]
    BY <1>22 DEF WakeScan
  <2>3. top' \in [Core -> Core \cup {None}]
    BY <1>22, ZenonT(40) DEF WakeScan, TopCores
  <2> QED
    BY <1>22, <2>1, <2>2, <2>3 DEF WakeScan, slots, runqs, sched
<1>23. ASSUME NEW c \in Core, WakeStale(c) PROVE TypeOK'
  BY <1>23 DEF WakeStale, Fault, Goto, slots, runqs, waking, sched
<1>24. ASSUME NEW c \in Core, WakeContinue(c) PROVE TypeOK'
  BY <1>24 DEF WakeContinue, vars
<1>25. ASSUME NEW c \in Core, WakeOutrank(c) PROVE TypeOK'
  <2>1. running_task[top[c]] \in Task
    BY <1>25 DEF WakeOutrank, At, Filled
  <2>2. target' \in [Core -> Core \cup {None}]
    BY <1>25, <2>1 DEF WakeOutrank
  <2> QED
    BY <1>25, <2>2 DEF WakeOutrank, Goto, slots, runqs, sched
<1>26. ASSUME NEW c \in Core, WakeTryLock(c) PROVE TypeOK'
  <2>1. running_task[top[c]] \in Task
    BY <1>26 DEF WakeTryLock, try_lock, At, Filled
  <2>2. target' \in [Core -> Core \cup {None}]
    BY <1>26, <2>1 DEF WakeTryLock, try_lock
  <2> QED
    BY <1>26, <2>2 DEF WakeTryLock, try_lock, Goto, slots, runqs, sched
<1>27. ASSUME NEW c \in Core, WakePop(c) PROVE TypeOK'
  <2>1. pc' \in [Core -> PC]
    BY <1>27 DEF WakePop, Goto, Fault
  <2>2. rq' \in [Core -> SUBSET Core]
    BY <1>27 DEF WakePop
  <2>3. top' \in [Core -> Core \cup {None}]
    BY <1>27, ZenonT(40) DEF WakePop, TopCores
  <2> QED
    BY <1>27, <2>1, <2>2, <2>3 DEF WakePop, slots, runqs, sched
<1>28. ASSUME NEW c \in Core, WakeStore(c) PROVE TypeOK'
  <2>1. pcb[c] \in Task /\ target[c] \in Core \cup {None}
    BY <1>28 DEF WakeStore, WakeReturn, At, Filled, WakePC
  <2> QED
    BY <1>28, <2>1, SetNextType DEF WakeStore, WakeReturn, Goto, runqs
<1>29. ASSUME NEW c \in Core, LocalLock(c) PROVE TypeOK'
  BY <1>29 DEF LocalLock, Acquire, try_lock, Goto, slots, runqs, waking, sched
<1>30. ASSUME NEW c \in Core, WakeLocal(c) PROVE TypeOK'
  <2>1. pcb[c] \in Task
    BY <1>30 DEF WakeLocal, At, Filled, WakePC
  <2> QED
    BY <1>30, <2>1, PushType DEF WakeLocal, Goto, Unlock, slots, sched
<1>31. CASE UNCHANGED vars
  BY <1>31 DEF vars
<1>32. ASSUME NEW c \in Core, BargeMove(c) PROVE TypeOK'
  BY <1>32 DEF BargeMove, Goto, runqs, sched
<1>33. ASSUME NEW c \in Core, BargeFlag(c) PROVE TypeOK'
  BY <1>33 DEF BargeFlag, Goto, runqs, waking, sched
<1>34. ASSUME NEW c \in Core, BargeCpu(c) PROVE TypeOK'
  BY <1>34 DEF BargeCpu, Goto, Fault, slots, runqs, waking
<1>35. ASSUME NEW c \in Core, BargeUnlock(c) PROVE TypeOK'
  BY <1>35 DEF BargeUnlock, WakeReturn, Goto, slots, runqs, sched
<1> QED
  BY <1>1, <1>2, <1>3, <1>4, <1>5, <1>6, <1>7, <1>8, <1>9, <1>10, <1>11, <1>12,
     <1>13, <1>14, <1>15, <1>16, <1>17, <1>18, <1>19, <1>20, <1>21, <1>22,
     <1>23, <1>24, <1>25, <1>26, <1>27, <1>28, <1>29, <1>30, <1>31, <1>32,
     <1>33, <1>34, <1>35 DEF Next, Step, Enter, Halted

\* Filled: other cores write next, but never empty it.
LEMMA FilledStep ==
    ASSUME TypeOK, TypeOK', Filled, SwitchReady, [Next]_vars
    PROVE  Filled'
<1> USE DEF TypeOK, Filled, WakePC, At
<1>1. ASSUME NEW c \in Core, InitializeTask(c) PROVE Filled'
  BY <1>1 DEF InitializeTask, Goto, first_initialize, Deadline, slots, runqs,
     waking
<1>2. ASSUME NEW c \in Core, StartMain(c) PROVE Filled'
  BY <1>2 DEF StartMain, Goto, runqs, waking, sched
<1>3. ASSUME NEW c \in Core, Tick(c) PROVE Filled'
  BY <1>3 DEF Tick, Goto, slots, runqs, waking, sched
<1>4. ASSUME NEW c \in Core, TickLock(c) PROVE Filled'
  BY <1>4 DEF TickLock, Acquire, try_lock, Goto, slots, runqs, waking, sched
<1>5. ASSUME NEW c \in Core, SaveContext(c) PROVE Filled'
  BY <1>5 DEF SaveContext, Goto, Fault, Unlock, slots, runqs, waking, sched
<1>6. ASSUME NEW c \in Core, Expire(c) PROVE Filled'
  BY <1>6 DEF Expire, Goto, Deadline, slots, runqs, waking, sched
<1>7. ASSUME NEW c \in Core, KeepRunning(c) PROVE Filled'
  BY <1>7 DEF KeepRunning, Goto, slots, runqs, waking, sched
<1>8. ASSUME NEW c \in Core, CheckNext(c) PROVE Filled'
  <2>1. /\ UNCHANGED <<next, pcb, top, target>>
        /\ pc[c] = "check" /\ pc'[c] \in {"swlock", "rtlock"}
        /\ pc'[c] = "rtlock" => running_task'[c] = running_task[c]
    BY <1>8 DEF CheckNext, Goto, waking
  <2>2. \A d \in Core \ {c} : pc'[d] = pc[d] /\ running_task'[d] = running_task[d]
    BY <1>8 DEF CheckNext, Goto, PopRunning
  <2>3. running_task[c] # None
    BY <2>1
  <2> QED
    BY <2>1, <2>2, <2>3
<1>9. ASSUME NEW c \in Core, RTLock(c) PROVE Filled'
  BY <1>9 DEF RTLock, Acquire, try_lock, Goto, slots, runqs, waking, sched
<1>10. ASSUME NEW c \in Core, TakeRT(c) PROVE Filled'
  BY <1>10, SMTT(40) DEF TakeRT, Goto, PopRunning, SetNext, Assigned, waking
<1>11. ASSUME NEW c \in Core, NPLock(c) PROVE Filled'
  BY <1>11 DEF NPLock, Acquire, try_lock, Goto, slots, runqs, waking, sched
<1>12. ASSUME NEW c \in Core, TakeNP(c) PROVE Filled'
  <2>1. CASE scheduler_queue[c] = {}
    BY <1>12, <2>1 DEF TakeNP, Goto, waking
  <2>2. CASE scheduler_queue[c] # {}
    <3>1. PICK t \in Tops(scheduler_queue[c]) :
             SetNext(c, t) /\ PopRunning(c, scheduler_queue[c] \ {t}, RT_task_queue[c])
      BY <1>12, <2>2 DEF TakeNP
    <3>2. t \in Task
      BY ChoiceType
    <3> QED
      BY <1>12, <3>1, <3>2, MuqssAssumption
         DEF TakeNP, Goto, PopRunning, SetNext, Assigned, waking
  <2> QED
    BY <2>1, <2>2
<1>13. ASSUME NEW c \in Core, SwitchLock(c) PROVE Filled'
  BY <1>13 DEF SwitchLock, Acquire, try_lock, Goto, slots, runqs, waking, sched
<1>14. ASSUME NEW c \in Core, Activate(c) PROVE Filled'
  <2>1. CASE ~has_task(next[c])
    <3>1. running_task[c] # None
      BY <1>14, <2>1 DEF Activate, SwitchReady
    <3> QED
      BY <1>14, <2>1, <3>1, SMTT(40) DEF Activate, Goto, waking
  <2>2. CASE has_task(next[c]) /\ next[c].task = None
    BY <1>14, <2>2, SMTT(40) DEF Activate, Goto, Fault, waking
  <2>3. CASE has_task(next[c]) /\ next[c].task # None
    BY <1>14, <2>3, ZenonT(40) DEF Activate, Goto, waking
  <2> QED
    BY <2>1, <2>2, <2>3
<1>15. ASSUME NEW c \in Core, MoveNext(c) PROVE Filled'
  BY <1>15 DEF MoveNext, Goto, Unlock, Assigned, Default, runqs, waking
<1>16. ASSUME NEW c \in Core, Return(c) PROVE Filled'
  BY <1>16 DEF Return, Goto, Fault, slots, runqs, waking, sched
<1>17. ASSUME NEW c \in Core, Yield(c) PROVE Filled'
  BY <1>17 DEF Yield, Goto, slots, runqs, waking, sched
<1>18. ASSUME NEW c \in Core, YieldLock(c) PROVE Filled'
  BY <1>18 DEF YieldLock, Acquire, try_lock, Goto, slots, runqs, waking, sched
<1>19. ASSUME NEW c \in Core, YieldSelect(c) PROVE Filled'
  BY <1>19, SMTT(40) DEF YieldSelect, Goto, SetNext, Assigned, Tops, runqs, waking
<1>20. ASSUME NEW c \in Core, YieldPush(c) PROVE Filled'
  BY <1>20 DEF YieldPush, Goto, Fault, Unlock, PopRunning, RTPush, NPPush,
     runqs, waking, sched
<1>21. ASSUME NEW c \in Core, Enable(c) PROVE Filled'
  BY <1>21, MuqssAssumption DEF Enable, Goto, Service, slots
<1>22. ASSUME NEW c \in Core, WakeScan(c) PROVE Filled'
  <2>1. pc'[c] = "pick" => top'[c] # None
    BY <1>22, MuqssAssumption DEF WakeScan, Goto, Fault, TopCores
  <2>2. pc'[c] \in {"pick", "dead"}
    BY <1>22 DEF WakeScan, Goto, Fault
  <2>3. \A d \in Core \ {c} : pc'[d] = pc[d] /\ top'[d] = top[d]
    BY <1>22, SMTT(40) DEF WakeScan, Goto, Fault
  <2> QED
    BY <1>22, <2>1, <2>2, <2>3 DEF WakeScan, slots
<1>23. ASSUME NEW c \in Core, WakeStale(c) PROVE Filled'
  BY <1>23 DEF WakeStale, Fault, Goto, slots, runqs, waking, sched
<1>24. ASSUME NEW c \in Core, WakeContinue(c) PROVE Filled'
  BY <1>24 DEF WakeContinue, vars
<1>25. ASSUME NEW c \in Core, WakeOutrank(c) PROVE Filled'
  BY <1>25 DEF WakeOutrank, Goto, slots
<1>26. ASSUME NEW c \in Core, WakeTryLock(c) PROVE Filled'
  BY <1>26 DEF WakeTryLock, try_lock, Goto, slots
<1>27. ASSUME NEW c \in Core, WakePop(c) PROVE Filled'
  <2>1. \/ pc' = [pc EXCEPT ![c] = "llock"] /\ top' = [top EXCEPT ![c] = None]
        \/ pc' = pc /\ \E d \in Core : top' = [top EXCEPT ![c] = d]
        \/ pc' = [pc EXCEPT ![c] = "dead"] /\ top' = top
    BY <1>27 DEF WakePop, Goto, Fault, TopCores
  <2>2. UNCHANGED <<running_task, next, pcb, target>>
    BY <1>27 DEF WakePop, slots
  <2>4. pc[c] = "pick" /\ pcb[c] # None
    BY <1>27 DEF WakePop
  <2>5. \A d \in Core : pc'[d] = "llock" => pcb[d] # None
    BY <2>1, <2>4
  <2>6. CASE pc' = [pc EXCEPT ![c] = "llock"] /\ top' = [top EXCEPT ![c] = None]
    BY <2>2, <2>5, <2>6
  <2>7. CASE pc' = pc /\ \E d \in Core : top' = [top EXCEPT ![c] = d]
    BY <2>2, <2>7, MuqssAssumption
  <2>8. CASE pc' = [pc EXCEPT ![c] = "dead"] /\ top' = top
    BY <2>2, <2>8
  <2> QED
    BY <2>1, <2>6, <2>7, <2>8
<1>28. ASSUME NEW c \in Core, WakeStore(c) PROVE Filled'
  BY <1>28, MuqssAssumption DEF WakeStore, WakeReturn, Goto, SetNext, Assigned
<1>29. ASSUME NEW c \in Core, LocalLock(c) PROVE Filled'
  BY <1>29 DEF LocalLock, Acquire, try_lock, Goto, slots, runqs, waking, sched
<1>30. ASSUME NEW c \in Core, WakeLocal(c) PROVE Filled'
  BY <1>30 DEF WakeLocal, Goto, Unlock, RTPush, NPPush, slots, sched
<1>31. CASE UNCHANGED vars
  BY <1>31 DEF vars
<1>32. ASSUME NEW c \in Core, BargeMove(c) PROVE Filled'
  BY <1>32 DEF BargeMove, Goto, runqs, sched
<1>33. ASSUME NEW c \in Core, BargeFlag(c) PROVE Filled'
  BY <1>33 DEF BargeFlag, Goto, runqs, waking, sched
<1>34. ASSUME NEW c \in Core, BargeCpu(c) PROVE Filled'
  BY <1>34 DEF BargeCpu, Goto, Fault, slots, runqs, waking
<1>35. ASSUME NEW c \in Core, BargeUnlock(c) PROVE Filled'
  BY <1>35 DEF BargeUnlock, WakeReturn, Goto, slots, runqs, sched
<1> QED
  BY <1>1, <1>2, <1>3, <1>4, <1>5, <1>6, <1>7, <1>8, <1>9, <1>10, <1>11, <1>12,
     <1>13, <1>14, <1>15, <1>16, <1>17, <1>18, <1>19, <1>20, <1>21, <1>22,
     <1>23, <1>24, <1>25, <1>26, <1>27, <1>28, <1>29, <1>30, <1>31, <1>32,
     <1>33, <1>34, <1>35 DEF Next, Step, Enter, Halted

\* SwitchReady: the running task is only queued when a next one is there.
LEMMA SwitchStep ==
    ASSUME TypeOK, TypeOK', Filled, SwitchReady, [Next]_vars
    PROVE  SwitchReady'
<1> USE DEF TypeOK, Filled, SwitchReady, has_task, At
<1>1. ASSUME NEW c \in Core, InitializeTask(c) PROVE SwitchReady'
  BY <1>1 DEF InitializeTask, Goto, first_initialize, Deadline, slots, runqs,
     waking
<1>2. ASSUME NEW c \in Core, StartMain(c) PROVE SwitchReady'
  BY <1>2 DEF StartMain, Goto, runqs, waking, sched
<1>3. ASSUME NEW c \in Core, Tick(c) PROVE SwitchReady'
  BY <1>3 DEF Tick, Goto, slots, runqs, waking, sched
<1>4. ASSUME NEW c \in Core, TickLock(c) PROVE SwitchReady'
  BY <1>4 DEF TickLock, Acquire, try_lock, Goto, slots, runqs, waking, sched
<1>5. ASSUME NEW c \in Core, SaveContext(c) PROVE SwitchReady'
  BY <1>5 DEF SaveContext, Goto, Fault, Unlock, slots, runqs, waking, sched
<1>6. ASSUME NEW c \in Core, Expire(c) PROVE SwitchReady'
  BY <1>6 DEF Expire, Goto, Deadline, slots, runqs, waking, sched
<1>7. ASSUME NEW c \in Core, KeepRunning(c) PROVE SwitchReady'
  BY <1>7 DEF KeepRunning, Goto, slots, runqs, waking, sched
<1>8. ASSUME NEW c \in Core, CheckNext(c) PROVE SwitchReady'
  <2>1. /\ next' = next
        /\ \A d \in Core \ {c} : pc'[d] = pc[d] /\ running_task'[d] = running_task[d]
    BY <1>8 DEF CheckNext, Goto, PopRunning
  <2>2. pc'[c] \in {"swlock", "switch"} => has_task(next[c])
    BY <1>8 DEF CheckNext, Goto
  <2> QED
    BY <2>1, <2>2
<1>9. ASSUME NEW c \in Core, RTLock(c) PROVE SwitchReady'
  BY <1>9 DEF RTLock, Acquire, try_lock, Goto, slots, runqs, waking, sched
<1>10. ASSUME NEW c \in Core, TakeRT(c) PROVE SwitchReady'
  BY <1>10 DEF TakeRT, Goto, PopRunning, SetNext, Assigned
<1>11. ASSUME NEW c \in Core, NPLock(c) PROVE SwitchReady'
  BY <1>11 DEF NPLock, Acquire, try_lock, Goto, slots, runqs, waking, sched
<1>12. ASSUME NEW c \in Core, TakeNP(c) PROVE SwitchReady'
  <2>1. CASE scheduler_queue[c] = {}
    BY <1>12, <2>1 DEF TakeNP, Goto
  <2>2. CASE scheduler_queue[c] # {}
    <3>1. PICK t \in Tops(scheduler_queue[c]) :
             SetNext(c, t) /\ PopRunning(c, scheduler_queue[c] \ {t}, RT_task_queue[c])
      BY <1>12, <2>2 DEF TakeNP
    <3> QED
      BY <1>12, <3>1 DEF TakeNP, Goto, PopRunning, SetNext, Assigned
  <2> QED
    BY <2>1, <2>2
<1>13. ASSUME NEW c \in Core, SwitchLock(c) PROVE SwitchReady'
  BY <1>13 DEF SwitchLock, Acquire, try_lock, Goto, slots, runqs, waking, sched
<1>14. ASSUME NEW c \in Core, Activate(c) PROVE SwitchReady'
  BY <1>14 DEF Activate, Goto, Fault, Unlock, has_task, runqs, waking, sched
<1>15. ASSUME NEW c \in Core, MoveNext(c) PROVE SwitchReady'
  BY <1>15 DEF MoveNext, Goto, Unlock, Assigned, Default, runqs, waking
<1>16. ASSUME NEW c \in Core, Return(c) PROVE SwitchReady'
  BY <1>16 DEF Return, Goto, Fault, slots, runqs, waking, sched
<1>17. ASSUME NEW c \in Core, Yield(c) PROVE SwitchReady'
  BY <1>17 DEF Yield, Goto, slots, runqs, waking, sched
<1>18. ASSUME NEW c \in Core, YieldLock(c) PROVE SwitchReady'
  BY <1>18 DEF YieldLock, Acquire, try_lock, Goto, slots, runqs, waking, sched
<1>19. ASSUME NEW c \in Core, YieldSelect(c) PROVE SwitchReady'
  BY <1>19 DEF YieldSelect, Goto, SetNext, Assigned, Tops, runqs, waking
<1>20. ASSUME NEW c \in Core, YieldPush(c) PROVE SwitchReady'
  BY <1>20 DEF YieldPush, Goto, Fault, Unlock, PopRunning, RTPush, NPPush,
     runqs, waking, sched
<1>21. ASSUME NEW c \in Core, Enable(c) PROVE SwitchReady'
  BY <1>21 DEF Enable, Goto, first_initialize, Deadline, Service, slots, runqs
<1>22. ASSUME NEW c \in Core, WakeScan(c) PROVE SwitchReady'
  BY <1>22 DEF WakeScan, Goto, Fault, MeetsNull, TopCores, slots, runqs, sched
<1>23. ASSUME NEW c \in Core, WakeStale(c) PROVE SwitchReady'
  BY <1>23 DEF WakeStale, Fault, Goto, slots, runqs, waking, sched
<1>24. ASSUME NEW c \in Core, WakeContinue(c) PROVE SwitchReady'
  BY <1>24 DEF WakeContinue, vars
<1>25. ASSUME NEW c \in Core, WakeOutrank(c) PROVE SwitchReady'
  BY <1>25 DEF WakeOutrank, Goto, Outranks, slots, runqs, sched
<1>26. ASSUME NEW c \in Core, WakeTryLock(c) PROVE SwitchReady'
  BY <1>26 DEF WakeTryLock, try_lock, Goto, Outranks, NotBelow, EarlierThan, slots,
     runqs, sched
<1>27. ASSUME NEW c \in Core, WakePop(c) PROVE SwitchReady'
  BY <1>27 DEF WakePop, Goto, Fault, MeetsNull, TopCores, Outranks, NotBelow,
     EarlierThan, slots, runqs, sched
<1>28. ASSUME NEW c \in Core, WakeStore(c) PROVE SwitchReady'
  BY <1>28 DEF WakeStore, WakeReturn, Goto, SetNext, Assigned, runqs
<1>29. ASSUME NEW c \in Core, LocalLock(c) PROVE SwitchReady'
  BY <1>29 DEF LocalLock, Acquire, try_lock, Goto, slots, runqs, waking, sched
<1>30. ASSUME NEW c \in Core, WakeLocal(c) PROVE SwitchReady'
  BY <1>30 DEF WakeLocal, Goto, Unlock, RTPush, NPPush, slots, sched
<1>31. CASE UNCHANGED vars
  BY <1>31 DEF vars
<1>32. ASSUME NEW c \in Core, BargeMove(c) PROVE SwitchReady'
  BY <1>32 DEF BargeMove, Goto, runqs, sched
<1>33. ASSUME NEW c \in Core, BargeFlag(c) PROVE SwitchReady'
  BY <1>33 DEF BargeFlag, Goto, runqs, waking, sched
<1>34. ASSUME NEW c \in Core, BargeCpu(c) PROVE SwitchReady'
  BY <1>34 DEF BargeCpu, Goto, Fault, slots, runqs, waking
<1>35. ASSUME NEW c \in Core, BargeUnlock(c) PROVE SwitchReady'
  BY <1>35 DEF BargeUnlock, WakeReturn, Goto, slots, runqs, sched
<1> QED
  BY <1>1, <1>2, <1>3, <1>4, <1>5, <1>6, <1>7, <1>8, <1>9, <1>10, <1>11, <1>12,
     <1>13, <1>14, <1>15, <1>16, <1>17, <1>18, <1>19, <1>20, <1>21, <1>22,
     <1>23, <1>24, <1>25, <1>26, <1>27, <1>28, <1>29, <1>30, <1>31, <1>32,
     <1>33, <1>34, <1>35 DEF Next, Step, Enter, Halted

\* Only InitializeTask brings a core to "boot", and nothing brings it back.
LEMMA BootStays ==
    ASSUME TypeOK, NoBarge, [Next]_vars, NEW d \in Core, pc'[d] \in {"off", "boot"}
    PROVE  pc'[d] = pc[d] \/ InitializeTask(d)
<1> USE DEF TypeOK, Goto, Fault, Acquire, try_lock
<1>1. ASSUME NEW c \in Core, InitializeTask(c) PROVE pc'[d] = pc[d] \/ c = d
  BY <1>1 DEF InitializeTask
<1>2. ASSUME NEW c \in Core,
             \/ StartMain(c) \/ Tick(c) \/ TickLock(c) \/ SaveContext(c)
             \/ Expire(c) \/ KeepRunning(c) \/ CheckNext(c)
      PROVE  pc'[d] = pc[d]
  BY <1>2 DEF StartMain, Tick, TickLock, SaveContext, Expire, KeepRunning,
              CheckNext
<1>3. ASSUME NEW c \in Core,
             \/ RTLock(c) \/ TakeRT(c) \/ NPLock(c) \/ TakeNP(c)
             \/ SwitchLock(c) \/ Activate(c) \/ MoveNext(c) \/ Return(c)
      PROVE  pc'[d] = pc[d]
  BY <1>3 DEF RTLock, TakeRT, NPLock, TakeNP, SwitchLock, Activate, MoveNext,
              Return
<1>4. ASSUME NEW c \in Core,
             \/ Yield(c) \/ YieldLock(c) \/ YieldSelect(c) \/ YieldPush(c)
             \/ Enable(c) \/ WakeScan(c) \/ WakeStale(c) \/ WakeContinue(c)
      PROVE  pc'[d] = pc[d]
  BY <1>4 DEF Yield, YieldLock, YieldSelect, YieldPush, Enable, WakeScan,
              WakeStale, WakeContinue, vars
<1>5. ASSUME NEW c \in Core,
             \/ WakeOutrank(c) \/ WakeTryLock(c) \/ WakePop(c)
             \/ WakeStore(c) \/ LocalLock(c) \/ WakeLocal(c)
      PROVE  pc'[d] = pc[d]
  BY <1>5 DEF WakeOutrank, WakeTryLock, WakePop, WakeStore, WakeReturn, LocalLock, WakeLocal
<1>6. CASE UNCHANGED vars
  BY <1>6 DEF vars
<1> QED
  BY <1>1, <1>2, <1>3, <1>4, <1>5, <1>6, NobodyBarges
     DEF Next, Step, Enter, Halted, Barge

\* A task that has a place is not the main task of a core still booting.
LEMMA BootStep ==
    ASSUME Placed, Filled, BootInv, [Next]_vars
    PROVE  BootInv'
<1> SUFFICES ASSUME NEW d \in Core, pc'[d] \in {"off", "boot"}
             PROVE  Main[d] \in fresh' /\ (pc'[d] = "boot" => cpu'[Main[d]] = d)
  BY DEF BootInv
<1> DEFINE Goal == Main[d] \in fresh' /\ (pc'[d] = "boot" => cpu'[Main[d]] = d)
<1>0. Main \in [Core -> Task]
  BY MuqssAssumption
<1>1. CASE InitializeTask(d)
  BY <1>0, <1>1 DEF InitializeTask, At, first_initialize, BootInv, Placed, TypeOK
<1>2. ASSUME pc'[d] = pc[d] PROVE Goal
  <2>1. /\ Main[d] \in fresh /\ Main[d] \in Task
        /\ pc[d] = "boot" => cpu[Main[d]] = d
        /\ \A e \in Core : \A k \in Place : ~Has(e, k, Main[d])
    BY <1>0, <1>2 DEF BootInv, Placed, NoTaskTwice
  <2>2. ASSUME NEW t \in Task, t # Main[d], NEW e \in Core, SetNext(e, t)
        PROVE  cpu'[Main[d]] = cpu[Main[d]]
    BY <2>1, <2>2 DEF SetNext, Placed, TypeOK
  <2>3. ASSUME NEW c \in Core, InitializeTask(c) \/ StartMain(c) PROVE Goal
    <3>1. c # d
      BY <1>2, <2>3 DEF InitializeTask, StartMain, At, Goto, Placed, TypeOK
    <3>2. Main[c] # Main[d]
      BY <3>1, MuqssAssumption
    <3> QED
      BY <1>0, <1>2, <2>1, <2>3, <3>2
         DEF InitializeTask, StartMain, first_initialize, sched, Placed, TypeOK
  <2>4. ASSUME NEW c \in Core, CheckNext(c) \/ YieldPush(c) \/ WakeLocal(c)
        PROVE  Goal
    BY <1>2, <2>1, <2>4 DEF CheckNext, YieldPush, WakeLocal, sched
  <2>5. ASSUME NEW c \in Core, TakeRT(c) PROVE Goal
    <3>1. CASE RT_task_queue[c] = << >>
      BY <1>2, <2>1, <2>5, <3>1 DEF TakeRT
    <3>2. CASE RT_task_queue[c] # << >>
      <4>1. PICK h \in Task : h = Head(RT_task_queue[c]) /\ Has(c, "rt", h)
        BY <3>2, RangeTail DEF Placed, TypeOK, Has
      <4>2. h # Main[d] /\ SetNext(c, h) /\ fresh' = fresh
        BY <2>1, <2>5, <3>2, <4>1 DEF TakeRT, Place
      <4> QED
        BY <1>2, <2>1, <2>2, <4>2
    <3> QED
      BY <3>1, <3>2
  <2>6. ASSUME NEW c \in Core, TakeNP(c) PROVE Goal
    <3>1. CASE scheduler_queue[c] = {}
      BY <1>2, <2>1, <2>6, <3>1 DEF TakeNP
    <3>2. CASE scheduler_queue[c] # {}
      <4>1. PICK h \in Tops(scheduler_queue[c]) : SetNext(c, h)
        BY <2>6, <3>2 DEF TakeNP
      <4>2. h \in Task /\ h # Main[d] /\ fresh' = fresh
        BY <2>1, <2>6, ChoiceType DEF TakeNP, Has, Place, Placed, TypeOK
      <4> QED
        BY <1>2, <2>1, <2>2, <4>1, <4>2
    <3> QED
      BY <3>1, <3>2
  <2>7. ASSUME NEW c \in Core, MoveNext(c) PROVE Goal
    <3>1. PICK h \in Task : h = next[c].task
      BY <2>7 DEF MoveNext, At, Filled, Placed, TypeOK
    <3>2. h # Main[d]
      BY <2>1, <3>1 DEF Has, Place
    <3> QED
      BY <1>2, <2>1, <2>7, <3>1, <3>2 DEF MoveNext, Placed, TypeOK
  <2>8. ASSUME NEW c \in Core, YieldSelect(c) PROVE Goal
    <3>1. CASE UNCHANGED <<next, cpu, runqs>>
      BY <1>2, <2>1, <2>8, <3>1 DEF YieldSelect
    <3>2. CASE RT_task_queue[c] # << >>
      <4>1. PICK h \in Task : h = Head(RT_task_queue[c]) /\ Has(c, "rt", h)
        BY <3>2, RangeTail DEF Placed, TypeOK, Has
      <4>2. h # Main[d] /\ SetNext(c, h) /\ fresh' = fresh
        BY <2>1, <2>8, <3>2, <4>1 DEF YieldSelect, Place
      <4> QED
        BY <1>2, <2>1, <2>2, <4>2
    <3>3. CASE RT_task_queue[c] = << >> /\ ~UNCHANGED <<next, cpu, runqs>>
      <4>1. PICK h \in Tops(scheduler_queue[c]) : SetNext(c, h)
        BY <2>8, <3>3 DEF YieldSelect
      <4>2. h \in Task /\ h # Main[d] /\ fresh' = fresh
        BY <2>1, <2>8, ChoiceType DEF YieldSelect, Has, Place, Placed, TypeOK
      <4> QED
        BY <1>2, <2>1, <2>2, <4>1, <4>2
    <3> QED
      BY <3>1, <3>2, <3>3
  <2>9. ASSUME NEW c \in Core, Enable(c) PROVE Goal
    <3>1. PICK h \in fresh \cap Service :
            first_initialize(c, h) /\ fresh' = fresh \ {h}
      BY <2>9 DEF Enable
    <3>2. h # Main[d]
      BY <1>0, <3>1 DEF Service
    <3> QED
      BY <1>2, <2>1, <3>1, <3>2 DEF first_initialize, Placed, TypeOK
  <2>10. ASSUME NEW c \in Core, WakeStore(c) PROVE Goal
    <3>1. PICK h \in Task, e \in Core : h = pcb[c] /\ e = target[c]
      BY <2>10 DEF WakeStore, WakeReturn, At, Filled, Aimed, WakePC, Placed, TypeOK
    <3>2. h # Main[d]
      BY <2>1, <3>1 DEF Has, Place
    <3>3. SetNext(e, h) /\ fresh' = fresh
      BY <2>10, <3>1 DEF WakeStore, WakeReturn
    <3> QED
      BY <1>2, <2>1, <2>2, <3>2, <3>3
  <2>11. CASE UNCHANGED <<running_task, next, scheduler_queue, RT_task_queue,
                          pcb, cpu, fresh>>
    BY <1>2, <2>1, <2>11
  <2> QED
    BY <2>3, <2>4, <2>5, <2>6, <2>7, <2>8, <2>9, <2>10, <2>11, MoveOrNot DEF Move, Placed
<1> QED
  BY <1>1, <1>2, BootStays DEF Placed

\* With one priority nobody outranks anybody.
LEMMA NoOutrank ==
    ASSUME OnePriority, TypeOK, Filled, NEW c \in Core
    PROVE  ~WakeOutrank(c)
<1> SUFFICES ASSUME WakeOutrank(c) PROVE FALSE
  OBVIOUS
<1>1. running_task[top[c]] \in Task /\ pcb[c] \in Task
  BY DEF WakeOutrank, At, Filled, WakePC, TypeOK
<1>2. Priority[pcb[c]] = Priority[running_task[top[c]]]
  BY <1>1 DEF OnePriority
<1>3. Priority[pcb[c]] \in 0 .. 102
  BY <1>1, MuqssAssumption
<1>4. Outranks(pcb[c], running_task[top[c]])
  BY DEF WakeOutrank
<1>5. \A n \in 0 .. 102 : ~(n < n)
  OBVIOUS
<1> QED
  BY <1>2, <1>3, <1>4, <1>5 DEF Outranks

\* So nobody comes to the unlocked store, and the locked one knows its target.
LEMMA BargeStep ==
    ASSUME OnePriority, TypeOK, Filled, NoBarge, Aimed, CpuNamesHolder, [Next]_vars
    PROVE  NoBarge' /\ Aimed'
<1> USE DEF TypeOK, Goto, Fault, Acquire, try_lock, At
<1> DEFINE Safe(d) == /\ pc'[d] \notin BargePC
                      /\ pc'[d] = "store" => target'[d] # None
<1>0. \A d \in Core : pc[d] \notin BargePC /\ (pc[d] = "store" => target[d] # None)
  BY DEF NoBarge, Aimed
<1>1. ASSUME NEW c \in Core,
             \/ InitializeTask(c) \/ StartMain(c) \/ Tick(c) \/ TickLock(c)
             \/ SaveContext(c) \/ Expire(c) \/ KeepRunning(c) \/ CheckNext(c)
      PROVE  \A d \in Core : Safe(d)
  BY <1>0, <1>1 DEF InitializeTask, StartMain, Tick, TickLock, SaveContext, Expire,
              KeepRunning, CheckNext, BargePC, waking
<1>2. ASSUME NEW c \in Core,
             \/ RTLock(c) \/ TakeRT(c) \/ NPLock(c) \/ TakeNP(c)
             \/ SwitchLock(c) \/ Activate(c) \/ MoveNext(c) \/ Return(c)
      PROVE  \A d \in Core : Safe(d)
  BY <1>0, <1>2 DEF RTLock, TakeRT, NPLock, TakeNP, SwitchLock, Activate, MoveNext,
              Return, BargePC, waking
<1>3. ASSUME NEW c \in Core,
             \/ Yield(c) \/ YieldLock(c) \/ YieldSelect(c) \/ YieldPush(c)
             \/ Enable(c) \/ WakeScan(c) \/ WakeStale(c) \/ WakeContinue(c)
      PROVE  \A d \in Core : Safe(d)
  BY <1>0, <1>3 DEF Yield, YieldLock, YieldSelect, YieldPush, Enable, WakeScan,
              WakeStale, WakeContinue, BargePC, waking, vars
<1>4. ASSUME NEW c \in Core, WakeTryLock(c) PROVE \A d \in Core : Safe(d)
  <2>1. running_task[top[c]] \in Task /\ top[c] \in Core
    BY <1>4 DEF WakeTryLock, Filled
  <2>2. cpu[running_task[top[c]]] = top[c]
    BY <2>1 DEF CpuNamesHolder, Has, Place
  <2> QED
    BY <1>0, <1>4, <2>1, <2>2, MuqssAssumption DEF WakeTryLock, BargePC
<1>5. ASSUME NEW c \in Core,
             WakePop(c) \/ WakeStore(c) \/ LocalLock(c) \/ WakeLocal(c)
      PROVE  \A d \in Core : Safe(d)
  BY <1>0, <1>5 DEF WakePop, WakeStore, WakeReturn, LocalLock, WakeLocal, BargePC, waking
<1>6. ASSUME UNCHANGED vars PROVE \A d \in Core : Safe(d)
  BY <1>0, <1>6 DEF vars
<1>7. \A d \in Core : Safe(d)
  BY <1>1, <1>2, <1>3, <1>4, <1>5, <1>6, NobodyBarges, NoOutrank
     DEF Next, Step, Enter, Halted, Barge
<1> QED
  BY <1>7 DEF NoBarge, Aimed

-----------------------------------------------------------------------------
(* The invariant *)

\* The invariant holds at power-on,
LEMMA InitInv == Init => IInv
<1> SUFFICES ASSUME Init PROVE IInv
  OBVIOUS
<1> USE MuqssAssumption DEF Init
<1>1. TypeOK
  BY DEF TypeOK, PC, Default
<1>2. Filled /\ BootInv /\ SwitchReady /\ NoBarge /\ Aimed
  BY DEF Filled, BootInv, SwitchReady, NoBarge, Aimed, WakePC, BargePC
<1>3. \A c \in Core : \A k \in Place : \A t \in Task : ~Has(c, k, t)
  BY DEF Has, Place, Default, Range
<1>4. NoTaskTwice /\ CpuNamesHolder
  BY <1>3 DEF NoTaskTwice, CpuNamesHolder, IsInjective
<1> QED
  BY <1>1, <1>2, <1>4 DEF IInv, AnyInv

\* every step keeps it,
LEMMA StepAny == AnyInv /\ [Next]_vars => AnyInv'
BY TypeStep, FilledStep, SwitchStep DEF AnyInv

LEMMA StepInv ==
    ASSUME OnePriority
    PROVE  IInv /\ [Next]_vars => IInv'
<1> SUFFICES ASSUME IInv, [Next]_vars PROVE IInv'
  OBVIOUS
<1> USE DEF IInv, AnyInv
<1>1. Placed
  BY DEF Placed
<1>2. AnyInv'
  BY StepAny
<1>3. NoBarge' /\ Aimed'
  BY <1>2, BargeStep
<1>4. BootInv'
  BY <1>1, BootStep
<1>5. NoTaskTwice' /\ CpuNamesHolder'
  BY <1>1, <1>2, MoveOrderly, OrderlyKeeps
<1> QED
  BY <1>2, <1>3, <1>4, <1>5

\* so it holds for ever.
THEOREM Invariance ==
    ASSUME OnePriority
    PROVE  Spec => []IInv
BY InitInv, StepInv, PTL DEF Spec

\* Every variable of the scheduler keeps to its range, on any machine and
\* with any priorities.
THEOREM TypeCorrect == Spec => []TypeOK
<1>1. Init => AnyInv
  BY InitInv DEF IInv
<1>2. AnyInv => TypeOK
  BY DEF AnyInv
<1> QED
  BY <1>1, <1>2, StepAny, PTL DEF Spec

\* When all tasks have one priority, no PCB is ever in two slots, queues or
\* wake_up arguments at once.
THEOREM TaskUnique ==
    ASSUME OnePriority
    PROVE  Spec => []NoTaskTwice
<1>1. IInv => NoTaskTwice
  BY DEF IInv
<1> QED
  BY <1>1, Invariance, PTL

\* ... and schedule->cpu names the core that has the task.
THEOREM CpuRight ==
    ASSUME OnePriority
    PROVE  Spec => []CpuNamesHolder
<1>1. IInv => CpuNamesHolder
  BY DEF IInv
<1> QED
  BY <1>1, Invariance, PTL

\* ... and a handler that has queued its running task has one to switch to,
\* and returns no empty slot's context.
THEOREM SwitchesReady ==
    ASSUME OnePriority
    PROVE  Spec => []SwitchIsReady
<1>1. IInv => SwitchIsReady
  BY DEF IInv, AnyInv, SwitchReady, Filled, SwitchIsReady
<1> QED
  BY <1>1, Invariance, PTL

\* ... and a task stays with the core whose slots and queues it was given to.
THEOREM Stationary ==
    ASSUME OnePriority
    PROVE  Spec => NoMigration
<1>1. IInv /\ [Next]_vars =>
        [\A c, d \in Core : \A t \in Task :
            c # d /\ Kept(c, t) => ~Kept(d, t)']_vars
  <2> SUFFICES ASSUME IInv, [Next]_vars,
                      NEW c \in Core, NEW d \in Core, NEW t \in Task,
                      Kept(c, t), Kept(d, t)'
               PROVE  c = d
    OBVIOUS
  <2>1. Placed /\ Filled /\ BootInv /\ TypeOK /\ NoTaskTwice
        /\ CpuNamesHolder
    BY DEF IInv, AnyInv, Placed
  <2> QED
    BY <2>1, MoveOrderly, OrderlyStays
<1> QED
  BY <1>1, Invariance, PTL DEF Spec, NoMigration

-----------------------------------------------------------------------------
(* Real-time tasks first *)

\* Between the two checks no real-time task comes to the core: only its own
\* steps queue one, and those of the other cores leave its queues alone.
NoneWaits == \A c \in Core : pc[c] \in {"nplock", "np"} => RT_task_queue[c] = << >>

Leaves(c) == scheduler_queue[c] \ scheduler_queue'[c] # {}

LEMMA RTStep ==
    ASSUME TypeOK, NoneWaits, NEW c \in Core, Step(c) \/ Enter(c)
    PROVE  NoneWaits' /\ \A d \in Core : Leaves(d) => RT_task_queue[d] = << >>
<1>1. /\ pc \in [Core -> PC] /\ RT_task_queue \in [Core -> Seq(Task)]
      /\ scheduler_queue \in [Core -> SUBSET Task]
  BY DEF TypeOK
<1> SUFFICES /\ \A d \in Core \ {c} : /\ pc'[d] = pc[d] /\ RT_task_queue'[d] = RT_task_queue[d]
                                      /\ scheduler_queue'[d] = scheduler_queue[d]
             /\ pc'[c] \in {"nplock", "np"} => RT_task_queue'[c] = << >>
             /\ Leaves(c) => RT_task_queue[c] = << >>
  BY DEF NoneWaits, Leaves
<1> USE DEF At, Goto
<1>2. CASE InitializeTask(c) \/ StartMain(c) \/ Tick(c) \/ TickLock(c) \/ SaveContext(c) \/ Expire(c) \/ KeepRunning(c) \/ RTLock(c)
  <2>1. UNCHANGED runqs
    BY <1>2 DEF InitializeTask, StartMain, Tick, TickLock, SaveContext, Expire, KeepRunning, RTLock, vars, runqs
  <2>2. /\ \A d \in Core \ {c} : pc'[d] = pc[d]
        /\ pc'[c] \in {"nplock", "np"} => pc[c] \in {"nplock", "np"}
    BY <1>1, <1>2 DEF InitializeTask, StartMain, Tick, TickLock, SaveContext, Expire, KeepRunning, RTLock, Acquire, Fault, vars
  <2> QED
    BY <2>1, <2>2 DEF runqs, NoneWaits, Leaves
<1>3. CASE NPLock(c) \/ SwitchLock(c) \/ Activate(c) \/ MoveNext(c) \/ Return(c) \/ Yield(c) \/ YieldLock(c) \/ Enable(c)
  <2>1. UNCHANGED runqs
    BY <1>3 DEF NPLock, SwitchLock, Activate, MoveNext, Return, Yield, YieldLock, Enable, vars, runqs
  <2>2. /\ \A d \in Core \ {c} : pc'[d] = pc[d]
        /\ pc'[c] \in {"nplock", "np"} => pc[c] \in {"nplock", "np"}
    BY <1>1, <1>3 DEF NPLock, SwitchLock, Activate, MoveNext, Return, Yield, YieldLock, Enable, Acquire, Fault, vars
  <2> QED
    BY <2>1, <2>2 DEF runqs, NoneWaits, Leaves
<1>4. CASE WakeScan(c) \/ WakeStale(c) \/ WakeContinue(c) \/ WakeOutrank(c)
  <2>1. UNCHANGED runqs
    BY <1>4 DEF WakeScan, WakeStale, WakeContinue, WakeOutrank, vars, runqs
  <2>2. /\ \A d \in Core \ {c} : pc'[d] = pc[d]
        /\ pc'[c] \in {"nplock", "np"} => pc[c] \in {"nplock", "np"}
    BY <1>1, <1>4 DEF WakeScan, WakeStale, WakeContinue, WakeOutrank, Acquire, Fault, vars
  <2> QED
    BY <2>1, <2>2 DEF runqs, NoneWaits, Leaves
<1>5. CASE WakeTryLock(c) \/ WakePop(c)
  <2>1. UNCHANGED runqs
    BY <1>5 DEF WakeTryLock, WakePop, vars, runqs
  <2>2. /\ \A d \in Core \ {c} : pc'[d] = pc[d]
        /\ pc'[c] \in {"nplock", "np"} => pc[c] \in {"nplock", "np"}
    BY <1>1, <1>5 DEF WakeTryLock, WakePop, Acquire, Fault, vars
  <2> QED
    BY <2>1, <2>2 DEF runqs, NoneWaits, Leaves
<1>6. CASE WakeStore(c) \/ LocalLock(c)
  <2>1. UNCHANGED runqs
    BY <1>6 DEF WakeStore, WakeReturn, LocalLock, vars, runqs
  <2>2. /\ \A d \in Core \ {c} : pc'[d] = pc[d]
        /\ pc'[c] \in {"nplock", "np"} => pc[c] \in {"nplock", "np"}
    BY <1>1, <1>6 DEF WakeStore, WakeReturn, LocalLock, Acquire, Fault, vars
  <2> QED
    BY <2>1, <2>2 DEF runqs, NoneWaits, Leaves
<1>7. CASE CheckNext(c)
  BY <1>1, <1>7 DEF CheckNext, PopRunning, NPPush, Fault, runqs, NoneWaits, Leaves
<1>8. CASE TakeRT(c)
  BY <1>1, <1>8 DEF TakeRT, PopRunning, NPPush, Fault, runqs, NoneWaits, Leaves
<1>9. CASE TakeNP(c)
  BY <1>1, <1>9 DEF TakeNP, PopRunning, NPPush, Fault, runqs, NoneWaits, Leaves
<1>10. CASE YieldSelect(c)
  BY <1>1, <1>10 DEF YieldSelect, PopRunning, NPPush, Fault, runqs, NoneWaits, Leaves
<1>11. CASE YieldPush(c)
  BY <1>1, <1>11 DEF YieldPush, PopRunning, NPPush, Fault, runqs, NoneWaits, Leaves
<1>12. CASE WakeLocal(c)
  BY <1>1, <1>12 DEF WakeLocal, PopRunning, NPPush, Fault, runqs, NoneWaits, Leaves
<1>13. CASE BargeMove(c) \/ BargeFlag(c) \/ BargeCpu(c) \/ BargeUnlock(c)
  <2>1. UNCHANGED runqs
    BY <1>13 DEF BargeMove, BargeFlag, BargeCpu, BargeUnlock, runqs
  <2>2. /\ \A d \in Core \ {c} : pc'[d] = pc[d]
        /\ pc'[c] \notin {"nplock", "np"}
    BY <1>1, <1>13 DEF BargeMove, BargeFlag, BargeCpu, BargeUnlock, WakeReturn, Fault
  <2> QED
    BY <2>1, <2>2 DEF runqs, NoneWaits, Leaves
<1> QED
  BY <1>2, <1>3, <1>4, <1>5, <1>6, <1>7, <1>8, <1>9, <1>10, <1>11, <1>12, <1>13 DEF Step, Enter

(* A task leaves the deadline-ordered queue only when no real-time task of its
   core waits, for any number of cores and tasks, although schedule releases
   the lock between looking at the two queues. *)
THEOREM RealTimeFirst == Spec => RTFirst
<1>1. Init => NoneWaits
  BY DEF Init, NoneWaits
<1>2. TypeOK /\ NoneWaits /\ [Next]_vars =>
          NoneWaits' /\ \A c \in Core : Leaves(c) => RT_task_queue[c] = << >>
  <2> SUFFICES ASSUME TypeOK, NoneWaits, [Next]_vars
               PROVE  NoneWaits' /\ \A c \in Core : Leaves(c) => RT_task_queue[c] = << >>
    OBVIOUS
  <2>1. CASE UNCHANGED vars
    BY <2>1 DEF vars, runqs, NoneWaits, Leaves
  <2> QED
    BY <2>1, RTStep DEF Next, Halted
<1>3. TypeOK /\ NoneWaits /\ [Next]_vars =>
          [\A c \in Core : scheduler_queue[c] \ scheduler_queue'[c] # {} => RT_task_queue[c] = << >>]_vars
  BY <1>2 DEF Leaves
<1> QED
  BY <1>1, <1>2, <1>3, TypeCorrect, PTL DEF Spec, RTFirst

-----------------------------------------------------------------------------
(* The abstract scheduler *)

\* A core that still boots runs nothing, and a task is handed on only inside
\* wake_up: what Begin and Offer need.
Idle ==
    \A c \in Core :
        /\ pc[c] \in {"off", "boot"} => running_task[c] = None
        /\ pcb[c] # None => pc[c] \in WakePC \cup {"barge", "dead"}

\* A core that boots does not touch its slot before it is done,
LEMMA BootIdle ==
    ASSUME TypeOK, NoBarge, [Next]_vars, NEW d \in Core, pc'[d] \in {"off", "boot"}
    PROVE  running_task'[d] = running_task[d]
<1> USE DEF TypeOK, Goto, Fault
<1> DEFINE Goal == running_task'[d] = running_task[d]
<1>1. ASSUME NEW c \in Core,
             \/ InitializeTask(c) \/ YieldSelect(c) \/ Enable(c)
             \/ WakeStore(c) \/ WakeLocal(c)
      PROVE  Goal
  BY <1>1 DEF InitializeTask, YieldSelect, Enable, WakeStore, WakeReturn, WakeLocal, slots
<1>2. ASSUME NEW c \in Core, StartMain(c) \/ MoveNext(c) PROVE Goal
  BY <1>2 DEF StartMain, MoveNext
<1>3. ASSUME NEW c \in Core, CheckNext(c) PROVE Goal
  BY <1>3 DEF CheckNext, PopRunning
<1>4. ASSUME NEW c \in Core, TakeRT(c) PROVE Goal
  BY <1>4 DEF TakeRT, PopRunning
<1>5. ASSUME NEW c \in Core, TakeNP(c) PROVE Goal
  BY <1>5 DEF TakeNP, PopRunning
<1>6. ASSUME NEW c \in Core, YieldPush(c) PROVE Goal
  BY <1>6 DEF YieldPush, PopRunning
<1> QED
  BY <1>1, <1>2, <1>3, <1>4, <1>5, <1>6, MoveOrNot DEF Move

\* and a core leaves wake_up without its argument.
LEMMA HandedIdle ==
    ASSUME TypeOK, NoBarge, Idle, [Next]_vars, NEW d \in Core, pcb'[d] # None
    PROVE  pc'[d] \in WakePC \cup {"barge", "dead"}
<1> USE DEF TypeOK, Goto, Fault, Acquire
<1> DEFINE Goal == pc'[d] \in WakePC \cup {"barge", "dead"}
<1>0. pcb[d] # None => pc[d] \in WakePC \cup {"barge", "dead"}
  BY DEF Idle
<1>1. ASSUME NEW c \in Core,
             \/ InitializeTask(c) \/ StartMain(c) \/ Tick(c) \/ TickLock(c)
             \/ SaveContext(c) \/ Expire(c) \/ KeepRunning(c) \/ CheckNext(c)
      PROVE  Goal
  <2>1. pcb'[d] = pcb[d] /\ (c # d => pc'[d] = pc[d])
    BY <1>1 DEF InitializeTask, StartMain, Tick, TickLock, SaveContext, Expire,
                KeepRunning, CheckNext, waking
  <2>2. pc[c] \notin WakePC \cup {"barge", "dead"}
    BY <1>1 DEF InitializeTask, StartMain, Tick, TickLock, SaveContext, Expire,
                KeepRunning, CheckNext, At, WakePC
  <2> QED
    BY <1>0, <2>1, <2>2
<1>2. ASSUME NEW c \in Core,
             \/ RTLock(c) \/ TakeRT(c) \/ NPLock(c) \/ TakeNP(c)
             \/ SwitchLock(c) \/ Activate(c) \/ MoveNext(c) \/ Return(c)
      PROVE  Goal
  <2>1. pcb'[d] = pcb[d] /\ (c # d => pc'[d] = pc[d])
    BY <1>2 DEF RTLock, TakeRT, NPLock, TakeNP, SwitchLock, Activate, MoveNext,
                Return, waking
  <2>2. pc[c] \notin WakePC \cup {"barge", "dead"}
    BY <1>2 DEF RTLock, TakeRT, NPLock, TakeNP, SwitchLock, Activate, MoveNext,
                Return, At, WakePC
  <2> QED
    BY <1>0, <2>1, <2>2
<1>3. ASSUME NEW c \in Core,
             Yield(c) \/ YieldLock(c) \/ YieldSelect(c) \/ YieldPush(c)
      PROVE  Goal
  <2>1. pcb'[d] = pcb[d] /\ (c # d => pc'[d] = pc[d])
    BY <1>3 DEF Yield, YieldLock, YieldSelect, YieldPush, waking
  <2>2. pc[c] \notin WakePC \cup {"barge", "dead"}
    BY <1>3 DEF Yield, YieldLock, YieldSelect, YieldPush, At, WakePC
  <2> QED
    BY <1>0, <2>1, <2>2
<1>4. ASSUME NEW c \in Core, Enable(c) PROVE Goal
  BY <1>0, <1>4 DEF Enable, WakePC
<1>5. ASSUME NEW c \in Core, WakeStore(c) \/ WakeLocal(c) PROVE Goal
  BY <1>0, <1>5 DEF WakeStore, WakeReturn, WakeLocal
<1>6. ASSUME NEW c \in Core,
             \/ WakeScan(c) \/ WakeStale(c) \/ WakeOutrank(c)
             \/ WakeTryLock(c) \/ WakePop(c) \/ LocalLock(c)
      PROVE  Goal
  <2>1. pcb'[d] = pcb[d] /\ (c # d => pc'[d] = pc[d])
    BY <1>6 DEF WakeScan, WakeStale, WakeOutrank, WakeTryLock, WakePop,
                LocalLock, waking
  <2>2. pc'[c] \in WakePC \cup {"barge", "dead"}
    BY <1>6 DEF WakeScan, WakeStale, WakeOutrank, WakeTryLock, WakePop,
                LocalLock, At, WakePC
  <2> QED
    BY <1>0, <2>1, <2>2
<1>7. ASSUME NEW c \in Core, WakeContinue(c) PROVE Goal
  BY <1>0, <1>7 DEF WakeContinue, vars
<1>8. CASE UNCHANGED vars
  BY <1>0, <1>8 DEF vars
<1> QED
  BY <1>1, <1>2, <1>3, <1>4, <1>5, <1>6, <1>7, <1>8, NobodyBarges
     DEF Next, Step, Enter, Halted, Barge

\* So it holds at power-on, and every step keeps it.
LEMMA IdleInit == Init => Idle
BY DEF Init, Idle

LEMMA IdleStep == IInv /\ Idle /\ [Next]_vars => Idle'
<1> SUFFICES ASSUME IInv, Idle, [Next]_vars, NEW d \in Core
             PROVE  /\ pc'[d] \in {"off", "boot"} => running_task'[d] = None
                    /\ pcb'[d] # None => pc'[d] \in WakePC \cup {"barge", "dead"}
  BY DEF Idle
<1>1. TypeOK /\ NoBarge
  BY DEF IInv, AnyInv
<1>2. ASSUME pc'[d] \in {"off", "boot"} PROVE running_task'[d] = None
  <2>1. running_task'[d] = running_task[d]
    BY <1>1, <1>2, BootIdle
  <2>2. pc[d] \in {"off", "boot"}
    BY <1>1, <1>2, BootStays DEF InitializeTask, At
  <2> QED
    BY <2>1, <2>2 DEF Idle
<1> QED
  BY <1>1, <1>2, HandedIdle

\* What a queue and a slot hold together, before a push and after it.
LEMMA PushWaits ==
    ASSUME NEW S \in SUBSET Task, NEW q \in Seq(Task), NEW t \in Task
    PROVE  \A u : u \in NPPush(S, t) \/ u \in Range(RTPush(q, t))
                     <=> u \in S \/ u \in Range(q) \/ u = t
<1>1. \A u : u \in Range(Append(q, t)) <=> u \in Range(q) \/ u = t
  BY RangeAppend
<1> QED
  BY <1>1 DEF NPPush, RTPush

\* A FIFO queue is its head and the rest.
LEMMA HeadAndTail ==
    ASSUME NEW q \in Seq(Task), q # << >>, IsInjective(q)
    PROVE  Range(q) \ {Head(q)} = Range(Tail(q)) /\ Head(q) \in Range(q)
<1> DEFINE r == Tail(q)
<1>1. /\ DOMAIN q = 1 .. Len(q) /\ DOMAIN r = 1 .. Len(q) - 1
      /\ \A i \in 1 .. Len(q) - 1 : r[i] = q[i + 1]
      /\ Head(q) = q[1] /\ Len(q) \in Nat \ {0}
  OBVIOUS
<1> HIDE DEF r
<1>2. ASSUME NEW i \in DOMAIN q, q[i] # Head(q) PROVE q[i] \in Range(r)
  <2>1. i - 1 \in DOMAIN r /\ r[i - 1] = q[i]
    BY <1>1, <1>2
  <2> QED
    BY <2>1 DEF Range
<1>3. Range(q) \ {Head(q)} \subseteq Range(r)
  BY <1>2 DEF Range
<1> QED
  BY <1>3, RangeTail DEF r

\* A step that leaves slot and queues of a core alone changes nothing there.
LEMMA WaitsStill ==
    ASSUME NEW e \in Core, next'[e] = next[e],
           scheduler_queue'[e] = scheduler_queue[e],
           RT_task_queue'[e] = RT_task_queue[e]
    PROVE  Waiting(e)' = Waiting(e)
BY DEF Waiting

\* What pop_running_tasks does to the places of the core: nothing is set to
\* next here.
LEMMA PopWaits ==
    ASSUME Placed, NEW c \in Core, NEW S \in SUBSET Task, NEW q \in Seq(Task),
           running_task[c] # None, PopRunning(c, S, q)
    PROVE  /\ running_task' = [running_task EXCEPT ![c] = None]
           /\ scheduler_queue'[c] \cup Range(RT_task_queue'[c])
                = S \cup Range(q) \cup {running_task[c]}
           /\ \A e \in Core \ {c} : /\ scheduler_queue'[e] = scheduler_queue[e]
                                    /\ RT_task_queue'[e] = RT_task_queue[e]
<1>1. PICK r \in Task : r = running_task[c]
  BY DEF Placed, TypeOK
<1>2. /\ scheduler_queue'[c] = NPPush(S, r)
      /\ RT_task_queue'[c] = RTPush(q, r)
      /\ running_task' = [running_task EXCEPT ![c] = None]
      /\ \A e \in Core \ {c} : /\ scheduler_queue'[e] = scheduler_queue[e]
                               /\ RT_task_queue'[e] = RT_task_queue[e]
  BY <1>1 DEF PopRunning, Placed, TypeOK
<1>3. \A u : u \in NPPush(S, r) \/ u \in Range(RTPush(q, r))
                <=> u \in S \/ u \in Range(q) \/ u = r
  BY <1>1, PushWaits
<1> QED
  BY <1>1, <1>2, <1>3

\* The slot after an assignment to it.
LEMMA SlotWaits ==
    ASSUME TypeOK, NEW c \in Core, NEW t \in Task, SetNext(c, t)
    PROVE  /\ {next'[c].task} \ {None} = {t}
           /\ \A e \in Core \ {c} : next'[e] = next[e]
BY MuqssAssumption DEF TypeOK, SetNext, Assigned

\* What waits on a core is what its slot and queues hold, each task once.
LEMMA WaitsApart ==
    ASSUME Placed, NEW c \in Core
    PROVE  /\ scheduler_queue[c] \in SUBSET Task /\ RT_task_queue[c] \in Seq(Task)
           /\ IsInjective(RT_task_queue[c])
           /\ Range(RT_task_queue[c]) \cap scheduler_queue[c] = {}
           /\ next[c].task \notin scheduler_queue[c]
           /\ next[c].task \notin Range(RT_task_queue[c])
           /\ next[c].task \in Task \cup {None} /\ None \notin Task
           /\ Range(RT_task_queue[c]) \subseteq Task
<1>1. /\ scheduler_queue[c] \in SUBSET Task /\ RT_task_queue[c] \in Seq(Task)
      /\ IsInjective(RT_task_queue[c])
      /\ next[c].task \in Task \cup {None} /\ None \notin Task
  BY MuqssAssumption DEF Placed, TypeOK, NoTaskTwice
<1>2. Range(RT_task_queue[c]) \subseteq Task
  BY <1>1 DEF Range
<1>3. ASSUME NEW t \in Task PROVE ~(t \in scheduler_queue[c] /\ t \in Range(RT_task_queue[c]))
  BY OnlyAt DEF Has, Place
<1>4. ASSUME NEW t \in Task, t = next[c].task
      PROVE  t \notin scheduler_queue[c] /\ t \notin Range(RT_task_queue[c])
  BY <1>4, OnlyAt DEF Has, Place
<1> QED
  BY <1>1, <1>2, <1>3, <1>4

\* What the abstract scheduler calls waiting.
W == [e \in Core |-> Waiting(e)]

\* W after a step that changes what waits on one core.
LEMMA OneWaits ==
    ASSUME NEW c \in Core, NEW X, Waiting(c)' = X,
           \A e \in Core \ {c} : Waiting(e)' = Waiting(e)
    PROVE  W' = [W EXCEPT ![c] = X]
BY DEF W

\* The abstract steps: a task stops, and one that waited may be lost,
LEMMA Stops ==
    ASSUME NEW c \in Core, NEW l \in Task \cup {None}, l \in Waiting(c) \cup {None},
           running_task[c] # None,
           running_task' = [running_task EXCEPT ![c] = None],
           Waiting(c)' = (Waiting(c) \ ({l} \ {None})) \cup {running_task[c]},
           \A e \in Core \ {c} : Waiting(e)' = Waiting(e),
           UNCHANGED <<fresh, pcb>>
    PROVE  Abstract!Next
<1>1. PICK lost : lost = {l} \ {None}
  OBVIOUS
<1>2. lost \in Abstract!Losses(c)
  BY <1>1 DEF Abstract!Losses
<1>3. PICK r : r = running_task[c]
  OBVIOUS
<1>4. PICK X : X = (Waiting(c) \ lost) \cup {r}
  OBVIOUS
<1>5. W' = [W EXCEPT ![c] = X]
  BY <1>1, <1>3, <1>4, OneWaits
<1>6. W' = [W EXCEPT ![c] = (@ \ lost) \cup {running_task[c]}]
  BY <1>3, <1>4, <1>5 DEF W
<1>7. Abstract!Stop(c, lost)
  BY <1>6 DEF Abstract!Stop, W
<1> QED
  BY <1>2, <1>7 DEF Abstract!Next

\* one that waited is lost while no other moves,
LEMMA Loses ==
    ASSUME NEW c \in Core, NEW l \in Task \cup {None}, l \in Waiting(c) \cup {None},
           Waiting(c)' = Waiting(c) \ ({l} \ {None}),
           \A e \in Core \ {c} : Waiting(e)' = Waiting(e),
           UNCHANGED <<fresh, pcb, running_task>>
    PROVE  Abstract!Next
<1>1. PICK lost : lost = {l} \ {None}
  OBVIOUS
<1>2. lost \in Abstract!Losses(c)
  BY <1>1 DEF Abstract!Losses
<1>3. PICK X : X = Waiting(c) \ lost
  OBVIOUS
<1>4. W' = [W EXCEPT ![c] = X]
  BY <1>1, <1>3, OneWaits
<1>5. W' = [W EXCEPT ![c] = @ \ lost]
  BY <1>3, <1>4 DEF W
<1>6. Abstract!Lose(c, lost)
  BY <1>5 DEF Abstract!Lose, W
<1> QED
  BY <1>2, <1>6 DEF Abstract!Next

\* or a task is handed to a core.
LEMMA Hands ==
    ASSUME NEW c \in Core, NEW d \in Core, NEW l \in Task \cup {None},
           l \in Waiting(d) \cup {None}, pcb[c] # None,
           pcb' = [pcb EXCEPT ![c] = None],
           Waiting(d)' = (Waiting(d) \ ({l} \ {None})) \cup {pcb[c]},
           \A e \in Core \ {d} : Waiting(e)' = Waiting(e),
           UNCHANGED <<fresh, running_task>>
    PROVE  Abstract!Next
<1>1. PICK lost : lost = {l} \ {None}
  OBVIOUS
<1>2. lost \in Abstract!Losses(d)
  BY <1>1 DEF Abstract!Losses
<1>3. PICK r : r = pcb[c]
  OBVIOUS
<1>4. PICK X : X = (Waiting(d) \ lost) \cup {r}
  OBVIOUS
<1>5. W' = [W EXCEPT ![d] = X]
  BY <1>1, <1>3, <1>4, OneWaits
<1>6. W' = [W EXCEPT ![d] = (@ \ lost) \cup {pcb[c]}]
  BY <1>3, <1>4, <1>5 DEF W
<1>7. Abstract!Hand(c, d, lost)
  BY <1>6 DEF Abstract!Hand, W
<1> QED
  BY <1>2, <1>7 DEF Abstract!Next

\* Boot hands a core its init task, and a service comes with its wake_up.
LEMMA ComesStep ==
    ASSUME Placed, BootInv, Idle, NEW c \in Core,
           InitializeTask(c) \/ StartMain(c) \/ Enable(c)
    PROVE  Abstract!Next \/ UNCHANGED <<fresh, pcb, running_task, W>>
<1> USE DEF slots, runqs, waking, sched
<1>1. W' = W
  <2>1. UNCHANGED <<next, scheduler_queue, RT_task_queue>>
    BY DEF InitializeTask, StartMain, Enable
  <2> QED
    BY <2>1 DEF W, Waiting
<1>2. CASE InitializeTask(c)
  BY <1>1, <1>2 DEF InitializeTask
<1>3. CASE StartMain(c)
  <2>1. /\ Main[c] \in fresh /\ Main[c] \in Task /\ running_task[c] = None
        /\ fresh' = fresh \ {Main[c]} /\ UNCHANGED pcb
        /\ running_task' = [running_task EXCEPT ![c] = Main[c]]
    BY <1>3, MuqssAssumption DEF StartMain, At, BootInv, Idle
  <2>2. Abstract!Begin(c, Main[c])
    BY <1>1, <2>1 DEF Abstract!Begin, W
  <2> QED
    BY <2>1, <2>2 DEF Abstract!Next
<1>4. CASE Enable(c)
  <2>1. PICK t \in fresh \cap Service :
          pcb' = [pcb EXCEPT ![c] = t] /\ fresh' = fresh \ {t}
    BY <1>4 DEF Enable
  <2>2. t \in Task /\ UNCHANGED running_task
    BY <1>4, <2>1 DEF Enable, Service
  <2>3. pcb[c] = None
    BY <1>4 DEF Enable, At, Idle, WakePC
  <2>4. Abstract!Offer(c, t)
    BY <1>1, <2>1, <2>2, <2>3 DEF Abstract!Offer, W
  <2> QED
    BY <2>2, <2>4 DEF Abstract!Next
<1> QED
  BY <1>2, <1>3, <1>4

\* The tick queues the running task when it finds a next one or takes one,
\* over whatever the slot got meanwhile.
LEMMA TickStep ==
    ASSUME Placed, Filled, NEW c \in Core,
           CheckNext(c) \/ TakeRT(c) \/ TakeNP(c)
    PROVE  Abstract!Next \/ UNCHANGED <<fresh, pcb, running_task, W>>
<1> USE DEF slots, runqs, waking, sched
<1>0. /\ running_task[c] # None /\ UNCHANGED <<fresh, pcb>> /\ TypeOK
      /\ None \in Task \cup {None}
  BY DEF CheckNext, TakeRT, TakeNP, At, Filled, Placed
<1>1. CASE UNCHANGED <<running_task, next, scheduler_queue, RT_task_queue>>
  BY <1>0, <1>1 DEF W, Waiting
<1>2. ASSUME CheckNext(c), ~UNCHANGED <<running_task, scheduler_queue, RT_task_queue>>
      PROVE  Abstract!Next
  <2>1. PopRunning(c, scheduler_queue[c], RT_task_queue[c]) /\ next' = next
    BY <1>2 DEF CheckNext
  <2>2. scheduler_queue[c] \in SUBSET Task /\ RT_task_queue[c] \in Seq(Task)
    BY WaitsApart
  <2>3. /\ running_task' = [running_task EXCEPT ![c] = None]
        /\ scheduler_queue'[c] \cup Range(RT_task_queue'[c])
             = scheduler_queue[c] \cup Range(RT_task_queue[c]) \cup {running_task[c]}
        /\ \A e \in Core \ {c} : /\ scheduler_queue'[e] = scheduler_queue[e]
                                 /\ RT_task_queue'[e] = RT_task_queue[e]
    BY <1>0, <2>1, <2>2, PopWaits
  <2>4. Waiting(c)' = (Waiting(c) \ ({None} \ {None})) \cup {running_task[c]}
    BY <2>1, <2>3 DEF Waiting
  <2>5. \A e \in Core \ {c} : Waiting(e)' = Waiting(e)
    BY <2>1, <2>3, WaitsStill
  <2> QED
    BY <1>0, <2>3, <2>4, <2>5, Stops
<1>3. ASSUME NEW h \in Task, SetNext(c, h), NEW T \in SUBSET Task, NEW q \in Seq(Task),
             PopRunning(c, T, q), h \in scheduler_queue[c] \cup Range(RT_task_queue[c]),
             T \cup Range(q) = (scheduler_queue[c] \cup Range(RT_task_queue[c])) \ {h}
      PROVE  Abstract!Next
  <2>1. PICK l \in Task \cup {None} : l = next[c].task
    BY WaitsApart
  <2>2. l \notin scheduler_queue[c] \cup Range(RT_task_queue[c])
    BY <2>1, WaitsApart
  <2>3. l \in Waiting(c) \cup {None}
    BY <2>1 DEF Waiting
  <2>4. /\ {next'[c].task} \ {None} = {h}
        /\ \A e \in Core \ {c} : next'[e] = next[e]
    BY <1>0, <1>3, SlotWaits
  <2>5. /\ running_task' = [running_task EXCEPT ![c] = None]
        /\ scheduler_queue'[c] \cup Range(RT_task_queue'[c])
             = T \cup Range(q) \cup {running_task[c]}
        /\ \A e \in Core \ {c} : /\ scheduler_queue'[e] = scheduler_queue[e]
                                 /\ RT_task_queue'[e] = RT_task_queue[e]
    BY <1>0, <1>3, PopWaits
  <2>6. Waiting(c)' = T \cup Range(q) \cup {running_task[c]} \cup {h}
    BY <2>4, <2>5 DEF Waiting
  <2>7. Waiting(c) \ ({l} \ {None}) = scheduler_queue[c] \cup Range(RT_task_queue[c])
    BY <2>1, <2>2 DEF Waiting
  <2>8. Waiting(c)' = (Waiting(c) \ ({l} \ {None})) \cup {running_task[c]}
    BY <1>3, <2>6, <2>7
  <2>9. \A e \in Core \ {c} : Waiting(e)' = Waiting(e)
    BY <2>4, <2>5, WaitsStill
  <2> QED
    BY <1>0, <2>3, <2>5, <2>8, <2>9, Stops
<1>4. ASSUME TakeRT(c), RT_task_queue[c] # << >> PROVE Abstract!Next
  <2>1. PICK q \in Seq(Task) : q = RT_task_queue[c]
    BY WaitsApart
  <2>2. /\ Range(q) \ {Head(q)} = Range(Tail(q)) /\ Head(q) \in Range(q)
        /\ Head(q) \in Task /\ Tail(q) \in Seq(Task)
        /\ q # << >> /\ IsInjective(q)
    BY <1>4, <2>1, HeadAndTail, RangeTail, WaitsApart
  <2>3. PICK h \in Task : h = Head(q)
    BY <2>2
  <2>4. PICK r \in Seq(Task) : r = Tail(q)
    BY <2>2
  <2>5. SetNext(c, h) /\ PopRunning(c, scheduler_queue[c], r)
    BY <1>4, <2>1, <2>3, <2>4 DEF TakeRT
  <2>6. PICK T \in SUBSET Task : T = scheduler_queue[c]
    BY WaitsApart
  <2>7. T \cup Range(r) = (T \cup Range(q)) \ {h}
    <3>1. h \notin T
      BY <2>1, <2>2, <2>3, <2>6, WaitsApart
    <3> QED
      BY <2>2, <2>3, <2>4, <3>1
  <2> QED
    BY <1>3, <2>1, <2>2, <2>3, <2>5, <2>6, <2>7
<1>5. ASSUME TakeNP(c), scheduler_queue[c] # {} PROVE Abstract!Next
  <2>1. PICK h \in Tops(scheduler_queue[c]) :
          /\ SetNext(c, h)
          /\ PopRunning(c, scheduler_queue[c] \ {h}, RT_task_queue[c])
    BY <1>5 DEF TakeNP
  <2>2. PICK T \in SUBSET Task : T = scheduler_queue[c]
    BY WaitsApart
  <2>3. PICK q \in Seq(Task) : q = RT_task_queue[c]
    BY WaitsApart
  <2>4. h \in T /\ h \in Task
    BY <2>1, <2>2, ChoiceType
  <2>5. h \notin Range(q)
    BY <2>2, <2>3, <2>4, WaitsApart
  <2>6. (T \ {h}) \cup Range(q) = (T \cup Range(q)) \ {h} /\ T \ {h} \in SUBSET Task
    BY <2>5
  <2> QED
    BY <1>3, <2>1, <2>2, <2>3, <2>4, <2>6
<1> QED
  BY <1>1, <1>2, <1>4, <1>5 DEF CheckNext, TakeRT, TakeNP

\* The switch starts the task of the slot.
LEMMA SwitchesStep ==
    ASSUME Placed, Filled, NEW c \in Core, MoveNext(c)
    PROVE  Abstract!Next
<1>1. PICK h \in Task : h = next[c].task
  BY DEF MoveNext, At, Filled, Placed, TypeOK
<1>2. /\ UNCHANGED <<fresh, pcb, scheduler_queue, RT_task_queue>>
      /\ running_task' = [running_task EXCEPT ![c] = h]
      /\ next' = [next EXCEPT ![c] = Assigned(Default.task)]
  BY <1>1 DEF MoveNext, runqs, waking
<1>3. /\ next'[c].task = None /\ \A e \in Core \ {c} : next'[e] = next[e]
  BY <1>2 DEF Assigned, Default, Placed, TypeOK
<1>4. PICK X : X = scheduler_queue[c] \cup Range(RT_task_queue[c])
  OBVIOUS
<1>5. Waiting(c)' = X
  BY <1>2, <1>3, <1>4 DEF Waiting
<1>6. h \notin X /\ None \notin Task
  BY <1>1, <1>4, WaitsApart
<1>7. Waiting(c) = X \cup {h}
  BY <1>1, <1>4, <1>6 DEF Waiting
<1>8. \A e \in Core \ {c} : Waiting(e)' = Waiting(e)
  BY <1>2, <1>3, WaitsStill
<1>9. W' = [W EXCEPT ![c] = X]
  BY <1>5, <1>8, OneWaits
<1>10. W' = [W EXCEPT ![c] = @ \ {h}]
  BY <1>6, <1>7, <1>9 DEF W
<1>11. Abstract!Start(c, h)
  BY <1>2, <1>7, <1>10 DEF Abstract!Start, W
<1> QED
  BY <1>11 DEF Abstract!Next

\* yield moves a waiting task to the slot, and then queues the running one.
LEMMA YieldStep ==
    ASSUME Placed, NEW c \in Core, YieldSelect(c) \/ YieldPush(c)
    PROVE  Abstract!Next \/ UNCHANGED <<fresh, pcb, running_task, W>>
<1> USE DEF slots, runqs, waking, sched
<1>0. UNCHANGED <<fresh, pcb>> /\ TypeOK /\ None \in Task \cup {None}
  BY DEF YieldSelect, YieldPush, Placed
<1>1. CASE UNCHANGED <<running_task, next, scheduler_queue, RT_task_queue>>
  BY <1>0, <1>1 DEF W, Waiting
<1>2. ASSUME YieldPush(c), running_task[c] # None PROVE Abstract!Next
  <2>1. PopRunning(c, scheduler_queue[c], RT_task_queue[c]) /\ next' = next
    BY <1>2 DEF YieldPush
  <2>2. scheduler_queue[c] \in SUBSET Task /\ RT_task_queue[c] \in Seq(Task)
    BY WaitsApart
  <2>3. /\ running_task' = [running_task EXCEPT ![c] = None]
        /\ scheduler_queue'[c] \cup Range(RT_task_queue'[c])
             = scheduler_queue[c] \cup Range(RT_task_queue[c]) \cup {running_task[c]}
        /\ \A e \in Core \ {c} : /\ scheduler_queue'[e] = scheduler_queue[e]
                                 /\ RT_task_queue'[e] = RT_task_queue[e]
    BY <1>2, <2>1, <2>2, PopWaits
  <2>4. Waiting(c)' = (Waiting(c) \ ({None} \ {None})) \cup {running_task[c]}
    BY <2>1, <2>3 DEF Waiting
  <2>5. \A e \in Core \ {c} : Waiting(e)' = Waiting(e)
    BY <2>1, <2>3, WaitsStill
  <2> QED
    BY <1>0, <1>2, <2>3, <2>4, <2>5, Stops
<1>3. ASSUME YieldSelect(c), NEW h \in Task, SetNext(c, h),
             h \in scheduler_queue[c] \cup Range(RT_task_queue[c]),
             scheduler_queue'[c] \cup Range(RT_task_queue'[c])
               = (scheduler_queue[c] \cup Range(RT_task_queue[c])) \ {h},
             \A e \in Core \ {c} : /\ scheduler_queue'[e] = scheduler_queue[e]
                                   /\ RT_task_queue'[e] = RT_task_queue[e]
      PROVE  Abstract!Next
  <2>1. PICK l \in Task \cup {None} : l = next[c].task
    BY WaitsApart
  <2>2. l \notin scheduler_queue[c] \cup Range(RT_task_queue[c])
    BY <2>1, WaitsApart
  <2>3. l \in Waiting(c) \cup {None}
    BY <2>1 DEF Waiting
  <2>4. /\ {next'[c].task} \ {None} = {h}
        /\ \A e \in Core \ {c} : next'[e] = next[e]
    BY <1>0, <1>3, SlotWaits
  <2>5. Waiting(c)' = scheduler_queue[c] \cup Range(RT_task_queue[c])
    BY <1>3, <2>4 DEF Waiting
  <2>6. Waiting(c) \ ({l} \ {None}) = scheduler_queue[c] \cup Range(RT_task_queue[c])
    BY <2>1, <2>2 DEF Waiting
  <2>7. \A e \in Core \ {c} : Waiting(e)' = Waiting(e)
    BY <1>3, <2>4, WaitsStill
  <2>8. UNCHANGED running_task
    BY <1>3 DEF YieldSelect
  <2> QED
    BY <1>0, <2>3, <2>5, <2>6, <2>7, <2>8, Loses
<1>4. ASSUME YieldSelect(c), RT_task_queue[c] # << >> PROVE Abstract!Next
  <2>1. PICK q \in Seq(Task) : q = RT_task_queue[c]
    BY WaitsApart
  <2>2. /\ Range(q) \ {Head(q)} = Range(Tail(q)) /\ Head(q) \in Range(q)
        /\ Head(q) \in Task /\ q # << >>
    BY <1>4, <2>1, HeadAndTail, RangeTail, WaitsApart
  <2>3. PICK h \in Task : h = Head(q)
    BY <2>2
  <2>4. /\ SetNext(c, h) /\ scheduler_queue' = scheduler_queue
        /\ RT_task_queue' = [RT_task_queue EXCEPT ![c] = Tail(@)]
    BY <1>4, <2>1, <2>3 DEF YieldSelect
  <2>5. /\ RT_task_queue'[c] = Tail(q)
        /\ \A e \in Core \ {c} : RT_task_queue'[e] = RT_task_queue[e]
    BY <1>0, <2>1, <2>4 DEF TypeOK
  <2>6. h \notin scheduler_queue[c]
    BY <2>1, <2>2, <2>3, WaitsApart
  <2>7. scheduler_queue'[c] \cup Range(RT_task_queue'[c])
          = (scheduler_queue[c] \cup Range(RT_task_queue[c])) \ {h}
    BY <2>1, <2>2, <2>3, <2>4, <2>5, <2>6
  <2> QED
    BY <1>3, <1>4, <2>1, <2>2, <2>3, <2>4, <2>5, <2>7
<1>5. ASSUME YieldSelect(c), RT_task_queue[c] = << >>, NEW h \in Tops(scheduler_queue[c]),
             SetNext(c, h), RT_task_queue' = RT_task_queue,
             scheduler_queue' = [scheduler_queue EXCEPT ![c] = @ \ {h}]
      PROVE  Abstract!Next
  <2>1. h \in scheduler_queue[c] /\ h \in Task /\ h \notin Range(RT_task_queue[c])
    BY ChoiceType, WaitsApart
  <2>2. /\ scheduler_queue'[c] = scheduler_queue[c] \ {h}
        /\ \A e \in Core \ {c} : scheduler_queue'[e] = scheduler_queue[e]
    BY <1>0, <1>5 DEF TypeOK
  <2>3. scheduler_queue'[c] \cup Range(RT_task_queue'[c])
          = (scheduler_queue[c] \cup Range(RT_task_queue[c])) \ {h}
    BY <1>5, <2>1, <2>2
  <2> QED
    BY <1>3, <1>5, <2>1, <2>2, <2>3
<1>6. CASE YieldPush(c)
  BY <1>1, <1>2, <1>6 DEF YieldPush
<1>7. CASE YieldSelect(c)
  <2>1. CASE RT_task_queue[c] # << >>
    BY <1>4, <1>7, <2>1
  <2>2. CASE UNCHANGED <<next, cpu, runqs>>
    BY <1>1, <1>7, <2>2 DEF YieldSelect
  <2>3. CASE RT_task_queue[c] = << >> /\ ~UNCHANGED <<next, cpu, runqs>>
    <3>1. PICK h \in Tops(scheduler_queue[c]) :
            /\ SetNext(c, h)
            /\ scheduler_queue' = [scheduler_queue EXCEPT ![c] = @ \ {h}]
            /\ RT_task_queue' = RT_task_queue
      BY <1>7, <2>3 DEF YieldSelect
    <3> QED
      BY <1>5, <1>7, <2>3, <3>1
  <2> QED
    BY <2>1, <2>2, <2>3
<1> QED
  BY <1>6, <1>7

\* wake_up hands its task to the slot of one core or to the queues of its own.
LEMMA WakeStep ==
    ASSUME Placed, Filled, NEW c \in Core, WakeStore(c) \/ WakeLocal(c)
    PROVE  Abstract!Next
<1> USE DEF slots, runqs, waking, sched
<1>0. /\ UNCHANGED <<fresh, running_task>> /\ TypeOK /\ None \in Task \cup {None}
      /\ pcb' = [pcb EXCEPT ![c] = None]
  BY DEF WakeStore, WakeReturn, WakeLocal, Placed
<1>1. PICK h \in Task : h = pcb[c] /\ h # None
  BY MuqssAssumption DEF WakeStore, WakeReturn, WakeLocal, At, Filled, WakePC, Placed, TypeOK
<1>2. CASE WakeStore(c)
  <2>1. PICK d \in Core : d = target[c]
    BY <1>2 DEF WakeStore, WakeReturn, At, Aimed, Placed, TypeOK
  <2>2. SetNext(d, h) /\ UNCHANGED <<scheduler_queue, RT_task_queue>>
    BY <1>1, <1>2, <2>1 DEF WakeStore, WakeReturn
  <2>3. PICK l \in Task \cup {None} : l = next[d].task
    BY WaitsApart
  <2>4. /\ {next'[d].task} \ {None} = {h}
        /\ \A e \in Core \ {d} : next'[e] = next[e]
    BY <1>0, <2>2, SlotWaits
  <2>5. l \notin scheduler_queue[d] \cup Range(RT_task_queue[d])
    BY <2>3, WaitsApart
  <2>6. Waiting(d)' = (Waiting(d) \ ({l} \ {None})) \cup {pcb[c]}
    BY <1>1, <2>2, <2>3, <2>4, <2>5 DEF Waiting
  <2>7. \A e \in Core \ {d} : Waiting(e)' = Waiting(e)
    BY <2>2, <2>4, WaitsStill
  <2>8. l \in Waiting(d) \cup {None}
    BY <2>3 DEF Waiting
  <2> QED
    BY <1>0, <1>1, <2>6, <2>7, <2>8, Hands
<1>3. CASE WakeLocal(c)
  <2>1. PICK T \in SUBSET Task : T = scheduler_queue[c]
    BY WaitsApart
  <2>2. PICK q \in Seq(Task) : q = RT_task_queue[c]
    BY WaitsApart
  <2>3. /\ scheduler_queue'[c] = NPPush(T, h)
        /\ RT_task_queue'[c] = RTPush(q, h)
        /\ next' = next
        /\ \A e \in Core \ {c} : /\ scheduler_queue'[e] = scheduler_queue[e]
                                 /\ RT_task_queue'[e] = RT_task_queue[e]
    BY <1>0, <1>1, <1>3, <2>1, <2>2 DEF WakeLocal, TypeOK
  <2>4. \A u : u \in NPPush(T, h) \/ u \in Range(RTPush(q, h))
                  <=> u \in T \/ u \in Range(q) \/ u = h
    BY PushWaits
  <2>5. Waiting(c)' = (Waiting(c) \ ({None} \ {None})) \cup {pcb[c]}
    BY <1>1, <2>1, <2>2, <2>3, <2>4 DEF Waiting
  <2>6. \A e \in Core \ {c} : Waiting(e)' = Waiting(e)
    BY <2>3, WaitsStill
  <2> QED
    BY <1>0, <1>1, <2>5, <2>6, Hands
<1> QED
  BY <1>2, <1>3

\* With one priority, whatever the cores do, in whatever order, is what the
\* abstract scheduler may do: a task comes once, to one core, waits and runs there and nowhere
\* else, and what a slot loses never runs again.
THEOREM SchedulerImplemented ==
    ASSUME OnePriority
    PROVE  Spec => ImplementsScheduler
<1>1. Init => Abstract!Init
  <2>1. Init => [e \in Core |-> Waiting(e)] = [e \in Core |-> {}]
    BY DEF Init, Waiting, Default, Range
  <2> QED
    BY <2>1 DEF Init, Abstract!Init
<1>2. IInv /\ Idle /\ [Next]_vars => [Abstract!Next]_(Abstract!vars)
  <2> SUFFICES ASSUME IInv, Idle, [Next]_vars PROVE [Abstract!Next]_(Abstract!vars)
    OBVIOUS
  <2>1. Placed /\ Filled /\ BootInv
    BY DEF IInv, AnyInv, Placed
  <2>2. Abstract!Next \/ UNCHANGED <<fresh, pcb, running_task, W>>
    <3>1. ASSUME NEW c \in Core, Move(c)
          PROVE  Abstract!Next \/ UNCHANGED <<fresh, pcb, running_task, W>>
      BY <2>1, <3>1, ComesStep, TickStep, SwitchesStep, YieldStep, WakeStep DEF Move
    <3>2. CASE UNCHANGED <<running_task, next, scheduler_queue, RT_task_queue,
                           pcb, cpu, fresh>>
      BY <3>2 DEF W, Waiting
    <3> QED
      BY <2>1, <3>1, <3>2, MoveOrNot DEF Placed
  <2> QED
    BY <2>2 DEF Abstract!vars, W
<1>3. Spec => []Idle
  BY Invariance, IdleInit, IdleStep, PTL DEF Spec
<1> QED
  BY <1>1, <1>2, <1>3, Invariance, PTL DEF Spec, ImplementsScheduler, Abstract!Spec

-----------------------------------------------------------------------------
(* What the abstract scheduler promises *)

Ranges ==
    /\ fresh \subseteq Task
    /\ pcb \in [Core -> Task \cup {None}]
    /\ running_task \in [Core -> Task \cup {None}]
    /\ W \in [Core -> SUBSET Task]

\* Places in words of W.
In(c, k, t) ==
    \/ k = "handed" /\ pcb[c] = t
    \/ k = "running" /\ running_task[c] = t
    \/ k = "waiting" /\ t \in W[c]

Alone(t) ==
    \A c \in Core : \A k \in Abstract!Place :
        In(c, k, t) => /\ t \notin fresh
                       /\ \A d \in Core : \A l \in Abstract!Place :
                             In(d, l, t) => d = c /\ l = k

\* A task keeps to its place, or it leaves it for another one of the same
\* core, for the core it is handed to, or for good.
Follows(t) ==
    \A d \in Core : \A l \in Abstract!Place :
        In(d, l, t)' =>
            \/ In(d, l, t)
            \/ /\ \/ t \in fresh
                  \/ \E c \in Core : In(c, "handed", t)
                  \/ In(d, "running", t) \/ In(d, "waiting", t)
               /\ t \notin fresh'
               /\ \A e \in Core : \A m \in Abstract!Place : In(e, m, t)' => e = d /\ m = l

Moved == Ranges' /\ fresh' \subseteq fresh /\ \A t \in Task : Follows(t)

\* Every abstract step moves its tasks in this way.
LEMMA PromiseMove ==
    ASSUME None \notin Task, Ranges, \A t \in Task : Alone(t), Abstract!Next
    PROVE  Moved
<1> USE DEF Ranges, In, Alone, Abstract!Place
<1>1. ASSUME NEW c \in Core, NEW u \in Task, Abstract!Begin(c, u)
      PROVE  Moved
  <2>1. /\ u \in fresh /\ running_task[c] = None /\ fresh' = fresh \ {u}
        /\ running_task' = [running_task EXCEPT ![c] = u]
        /\ pcb' = pcb /\ W' = W
    BY <1>1 DEF Abstract!Begin, W
  <2> QED
    BY <2>1 DEF Follows, Moved
<1>2. ASSUME NEW c \in Core, NEW u \in Task, Abstract!Offer(c, u)
      PROVE  Moved
  <2>1. /\ u \in fresh /\ pcb[c] = None /\ fresh' = fresh \ {u}
        /\ pcb' = [pcb EXCEPT ![c] = u]
        /\ running_task' = running_task /\ W' = W
    BY <1>2 DEF Abstract!Offer, W
  <2> QED
    BY <2>1 DEF Follows, Moved
<1>3. ASSUME NEW c \in Core, NEW u \in Task, Abstract!Start(c, u)
      PROVE  Moved
  <2>1. /\ u \in W[c] /\ fresh' = fresh /\ pcb' = pcb
        /\ running_task' = [running_task EXCEPT ![c] = u]
        /\ W' = [W EXCEPT ![c] = @ \ {u}]
    BY <1>3 DEF Abstract!Start, W
  <2> QED
    BY <2>1 DEF Follows, Moved
<1>4. ASSUME NEW c \in Core, NEW d \in Core, NEW lost \in Abstract!Losses(d), Abstract!Hand(c, d, lost)
      PROVE  Moved
  <2>1. PICK u \in Task : u = pcb[c]
    BY <1>4 DEF Abstract!Hand
  <2>2. /\ fresh' = fresh /\ running_task' = running_task
        /\ pcb' = [pcb EXCEPT ![c] = None]
        /\ W' = [W EXCEPT ![d] = (@ \ lost) \cup {u}]
    BY <1>4, <2>1 DEF Abstract!Hand, W
  <2> QED
    BY <2>1, <2>2 DEF Follows, Moved
<1>5. ASSUME NEW c \in Core, NEW lost \in Abstract!Losses(c), Abstract!Stop(c, lost)
      PROVE  Moved
  <2>1. PICK u \in Task : u = running_task[c]
    BY <1>5 DEF Abstract!Stop
  <2>2. /\ fresh' = fresh /\ pcb' = pcb
        /\ running_task' = [running_task EXCEPT ![c] = None]
        /\ W' = [W EXCEPT ![c] = (@ \ lost) \cup {u}]
    BY <1>5, <2>1 DEF Abstract!Stop, W
  <2> QED
    BY <2>1, <2>2 DEF Follows, Moved
<1>6. ASSUME NEW c \in Core, NEW lost \in Abstract!Losses(c), Abstract!Lose(c, lost)
      PROVE  Moved
  <2>1. /\ fresh' = fresh /\ pcb' = pcb /\ running_task' = running_task
        /\ W' = [W EXCEPT ![c] = @ \ lost]
    BY <1>6 DEF Abstract!Lose, W
  <2> QED
    BY <2>1 DEF Follows, Moved
<1> QED
  BY <1>1, <1>2, <1>3, <1>4, <1>5, <1>6 DEF Abstract!Next

\* Nothing is anywhere at first,
LEMMA PromiseInit ==
    ASSUME None \notin Task, Abstract!Init
    PROVE  Ranges /\ \A t \in Task : Alone(t)
BY DEF Abstract!Init, Ranges, Alone, In, W, Abstract!Place

\* and what a step does to one task it does to no other.
LEMMA PromiseStep ==
    ASSUME None \notin Task, Ranges, \A t \in Task : Alone(t), [Abstract!Next]_(Abstract!vars)
    PROVE  /\ Ranges' /\ (\A t \in Task : Alone(t))'
           /\ \A t \in Task :
                /\ \A c, d \in Core : Abstract!Mine(c, t) /\ Abstract!Mine(d, t)' => c = d
                /\ t \notin fresh /\ (\A c \in Core : \A k \in Abstract!Place : ~Abstract!Has(c, k, t))
                      => \A c \in Core : \A k \in Abstract!Place : ~Abstract!Has(c, k, t)'
<1>1. Moved
  <2>1. CASE UNCHANGED Abstract!vars
    <3>1. UNCHANGED <<fresh, pcb, running_task, W>>
      BY <2>1 DEF Abstract!vars, W
    <3> QED
      BY <3>1 DEF Ranges, Follows, In, Moved
  <2>2. CASE Abstract!Next
    BY <2>2, PromiseMove
  <2> QED
    BY <2>1, <2>2
<1>2. ASSUME NEW t \in Task PROVE Alone(t)'
  BY <1>1 DEF Alone, Follows, Moved
<1>3. ASSUME NEW t \in Task, NEW c \in Core, NEW k \in Abstract!Place
      PROVE  (Abstract!Has(c, k, t) <=> In(c, k, t)) /\ (Abstract!Has(c, k, t) <=> In(c, k, t))'
  BY DEF Abstract!Has, In, W
<1> QED
  BY <1>1, <1>2, <1>3 DEF Alone, Follows, Moved, Abstract!Mine, Abstract!Place

\* What follows from the abstract scheduler alone, so that the refinement
\* gives it to the code: a task is in one place of one core.
THEOREM PromiseOfOnePlace == ImplementsScheduler => []Abstract!EachTaskOnce
<1> DEFINE I == Ranges /\ \A t \in Task : Alone(t)
<1>0. None \notin Task
  BY MuqssAssumption
<1>1. Abstract!Init => I
  BY <1>0, PromiseInit
<1>2. I /\ [Abstract!Next]_(Abstract!vars) => I'
  BY <1>0, PromiseStep
<1>3. I => Abstract!EachTaskOnce
  <2>1. ASSUME NEW t \in Task, NEW c \in Core, NEW k \in Abstract!Place
        PROVE  Abstract!Has(c, k, t) <=> In(c, k, t)
    BY DEF Abstract!Has, In, W
  <2> QED
    BY <2>1 DEF Abstract!EachTaskOnce, Alone
<1> HIDE DEF I
<1> QED
  BY <1>1, <1>2, <1>3, PTL DEF ImplementsScheduler, Abstract!Spec

\* It stays with its core, and what is lost never comes back.
THEOREM PromiseOfSettling == ImplementsScheduler => Abstract!Settled
<1> DEFINE I == Ranges /\ \A t \in Task : Alone(t)
<1>0. None \notin Task
  BY MuqssAssumption
<1>1. Abstract!Init => I
  BY <1>0, PromiseInit
<1>2. I /\ [Abstract!Next]_(Abstract!vars) => I'
  BY <1>0, PromiseStep
<1>3. I /\ [Abstract!Next]_(Abstract!vars) =>
        [\A t \in Task :
            /\ \A c, d \in Core : Abstract!Mine(c, t) /\ Abstract!Mine(d, t)' => c = d
            /\ t \notin fresh /\ (\A c \in Core : \A k \in Abstract!Place : ~Abstract!Has(c, k, t))
                  => \A c \in Core : \A k \in Abstract!Place : ~Abstract!Has(c, k, t)']_(Abstract!vars)
  BY <1>0, PromiseStep
<1> HIDE DEF I
<1> QED
  BY <1>1, <1>2, <1>3, PTL DEF ImplementsScheduler, Abstract!Spec, Abstract!Settled

=============================================================================
