------------------------------- MODULE Muqss -------------------------------
(***************************************************************************)
(* The MuQSS task scheduler of the kernel (Task::Muqss), one instance of   *)
(* its state per core, driven by the local APIC clock interrupt, by the    *)
(* system call path (yield) and by services that are enabled (wake_up).    *)
(*                                                                         *)
(* A step of the model is one critical section, or one access outside any  *)
(* lock to state that another core writes.  The contents of a PCB move as  *)
(* one, apart from its flag is_empty.  The program counter of a core says  *)
(* where in the source it stands.  A null dereference takes a core to      *)
(* "dead": the page fault handler never returns, and the locks the core    *)
(* held stay taken.                                                        *)
(***************************************************************************)
EXTENDS Integers, Sequences, Functions

CONSTANTS
    Core,       \* local APIC ids of the cores
    Task,       \* process control blocks that ever exist
    None,       \* a moved-from or default-constructed PCB
    Main,       \* Main[c]: the "init" PCB that initialize_task builds on c
    Priority,   \* Priority[t]: what t's schedule->priority is set to
    rr_interval,\* ticks a refilled time slice lasts
    Ratio,      \* the prio_ratio of the default nice value
    MaxTime     \* bound on the clock reading of the model

ISO    == 100
NORMAL == 101

Service == Task \ {Main[c] : c \in Core}

ASSUME MuqssAssumption ==
    /\ None \notin Core \cup Task
    /\ Main \in [Core -> Task]
    /\ \A c, d \in Core : Main[c] = Main[d] => c = d
    /\ Priority \in [Task -> 0 .. 102]
    /\ rr_interval \in Nat \ {0}
    /\ Ratio \in Nat
    /\ MaxTime \in Nat

VARIABLES
    pc,              \* where each core stands in the code
    queues,          \* cores whose Core node is in scheduler->running_queue
    running_task,    \* running_task[c]: the task of the slot, or None
    next,            \* next[c]: the PCB slot next, with its is_empty flag
    active,          \* active[c]: whose page table and kernel stack are loaded
    lock,            \* lock[c]: the atomic_flag of c's lock
    scheduler_queue, \* scheduler_queue[c]: the set in c's priority queue
    RT_task_queue,   \* RT_task_queue[c]: c's FIFO of real-time tasks
    pcb,             \* pcb[c]: the argument of the wake_up c is running
    rq,              \* rq[c]: cores in the heap of that wake_up
    top,             \* top[c]: the core at the top of that heap
    target,          \* target[c]: the core q that wake_up preempts
    time_slice, virtual_deadline, cpu,   \* fields of each task's Schedule
    fresh,           \* tasks constructed but not yet given to the scheduler
    now              \* the last clock reading, hpet->nano_time()

vars == <<pc, queues, running_task, next, active, lock, scheduler_queue,
          RT_task_queue, pcb, rq, top, target, time_slice, virtual_deadline,
          cpu, fresh, now>>

sched    == <<time_slice, virtual_deadline, cpu, now>>
slots    == <<running_task, next, active>>
runqs    == <<scheduler_queue, RT_task_queue>>
waking   == <<pcb, rq, top, target>>

TickPC  == {"tick", "save", "sched", "check", "rtlock", "rt", "nplock", "np",
            "swlock", "switch", "move", "ret"}
YieldPC == {"ylock", "yield", "ypush"}
BargePC == {"barge", "bflag", "bcpu", "bunlock"}
WakePC  == {"scan", "pick", "store", "llock", "local"}
PC == {"off", "boot", "user", "dead"} \cup TickPC \cup YieldPC \cup WakePC \cup BargePC

-----------------------------------------------------------------------------
(* Helpers *)

At(c, from) == pc[c] = from
Goto(c, to) == pc' = [pc EXCEPT ![c] = to]
Fault(c)    == Goto(c, "dead")

\* Variant: the answer of test_and_set is not looked at.
Untested_lock(d) == lock' = [lock EXCEPT ![d] = TRUE]

\* SpinLock::try_lock when it succeeds; lock() does nothing until it does.
try_lock(d) ==
    /\ ~lock[d]
    /\ lock' = [lock EXCEPT ![d] = TRUE]

Acquire(c, from, to) ==
    /\ At(c, from)
    /\ try_lock(c)
    /\ Goto(c, to)

\* Variant: a path that leaves the lock taken.
Forgotten_unlock(c) == UNCHANGED lock

Unlock(c) == lock' = [lock EXCEPT ![c] = FALSE]

\* Variant: the move assignment leaves is_empty as it was constructed.
Empty_assigned(t) == [task |-> t, is_empty |-> TRUE]

\* PCB::operator=(PCB&&): the destination always becomes "not empty",
\* even when the source is a default-constructed PCB.
Assigned(t) == [task |-> t, is_empty |-> FALSE]
Default     == [task |-> None, is_empty |-> TRUE]
has_task(slot) == ~slot.is_empty

\* mCore::compare and compare_ptr: t is not below u in the heap.
AtLeastAsUrgent(t, u) ==
    \/ Priority[t] < Priority[u]
    \/ Priority[t] = Priority[u] /\ virtual_deadline[t] <= virtual_deadline[u]

\* What scheduler_queue.top() may be: equal elements come in any order.
Tops(S) == {t \in S : \A u \in S : AtLeastAsUrgent(t, u)}

\* A heap of pointers to the running tasks of S: its comparisons meet a
\* null Schedule, or else it has one of TopCores(S) on top.
MeetsNull(S) == \E d, e \in S : d # e /\ running_task[d] = None
TopCores(S) ==
    {d \in S : \A e \in S \ {d} :
                  AtLeastAsUrgent(running_task[d], running_task[e])}

RealTime(t) == Priority[t] <= ISO
RTPush(q, t) == IF RealTime(t) THEN Append(q, t) ELSE q
NPPush(S, t) == IF RealTime(t) THEN S ELSE S \cup {t}

\* get_virtual_deadline at a clock reading r.
Deadline(r) == r + Ratio * rr_interval

-----------------------------------------------------------------------------
(* Boot of a core and of its first task *)

Init ==
    /\ pc = [c \in Core |-> "off"]
    /\ queues = {}
    /\ running_task = [c \in Core |-> None]
    /\ next = [c \in Core |-> Default]
    /\ active = [c \in Core |-> Main[c]]
    /\ lock = [c \in Core |-> FALSE]
    /\ scheduler_queue = [c \in Core |-> {}]
    /\ RT_task_queue = [c \in Core |-> << >>]
    /\ pcb = [c \in Core |-> None]
    /\ rq = [c \in Core |-> {}]
    /\ top = [c \in Core |-> None]
    /\ target = [c \in Core |-> None]
    /\ time_slice = [t \in Task |-> 0]
    /\ virtual_deadline = [t \in Task |-> 0]
    /\ cpu = [t \in Task |-> None]
    /\ fresh = Task
    /\ now = 0

\* Muqss::first_initialize of t, run on core c.
first_initialize(c, t) ==
    /\ time_slice' = [time_slice EXCEPT ![t] = rr_interval]
    /\ cpu' = [cpu EXCEPT ![t] = c]
    /\ \E r \in now .. MaxTime :
        /\ now' = r
        /\ virtual_deadline' = [virtual_deadline EXCEPT ![t] = Deadline(r)]

\* initialize_task up to first_initialize, whose get_current inserts the
\* core's node, with an empty running_task, into running_queue.
InitializeTask(c) ==
    /\ At(c, "off")
    /\ Goto(c, "boot")
    /\ queues' = queues \cup {c}
    /\ first_initialize(c, Main[c])
    /\ UNCHANGED <<slots, lock, runqs, waking, fresh>>

\* ... and its last statement, which fills the slot; then interrupts go on.
StartMain(c) ==
    /\ At(c, "boot")
    /\ Goto(c, "user")
    /\ running_task' = [running_task EXCEPT ![c] = Main[c]]
    /\ fresh' = fresh \ {Main[c]}
    /\ UNCHANGED <<queues, next, active, lock, runqs, waking, sched>>

-----------------------------------------------------------------------------
(* The clock interrupt: Clock::handler and Muqss::schedule *)

Tick(c) ==
    /\ At(c, "user")
    /\ Goto(c, "tick")
    /\ UNCHANGED <<queues, slots, lock, runqs, waking, sched, fresh>>

TickLock(c) ==
    /\ Acquire(c, "tick", "save")
    /\ UNCHANGED <<queues, slots, runqs, waking, sched, fresh>>

\* save_context dereferences running_thread, null in a moved-from PCB.
SaveContext(c) ==
    /\ At(c, "save")
    /\ IF running_task[c] = None
       THEN Fault(c) /\ UNCHANGED lock
       ELSE Goto(c, "sched") /\ Unlock(c)
    /\ UNCHANGED <<queues, slots, runqs, waking, sched, fresh>>

\* The slice is used up: refill it and set a later deadline.
Expire(c) ==
    /\ At(c, "sched")
    /\ time_slice[running_task[c]] = 0
    /\ Goto(c, "check")
    /\ time_slice' = [time_slice EXCEPT ![running_task[c]] = rr_interval]
    /\ \E r \in now .. MaxTime :
        /\ now' = r
        /\ virtual_deadline' =
              [virtual_deadline EXCEPT ![running_task[c]] = Deadline(r)]
    /\ UNCHANGED <<queues, slots, lock, runqs, waking, cpu, fresh>>

\* Variant: the counter is not tested before it is decremented.
Untested_slice(c) ==
    /\ At(c, "sched")
    /\ Goto(c, "swlock")
    /\ time_slice' = [time_slice EXCEPT ![running_task[c]] = @ - 1]
    /\ UNCHANGED <<queues, slots, lock, runqs, waking, virtual_deadline, cpu,
                   now, fresh>>

KeepRunning(c) ==
    /\ At(c, "sched")
    /\ time_slice[running_task[c]] > 0
    /\ Goto(c, "swlock")
    /\ time_slice' = [time_slice EXCEPT ![running_task[c]] = @ - 1]
    /\ UNCHANGED <<queues, slots, lock, runqs, waking, virtual_deadline, cpu,
                   now, fresh>>

\* Variant: running_task is copied to its queue, not moved.
Copied_running(c, S, q) ==
    /\ scheduler_queue' =
          [scheduler_queue EXCEPT ![c] = NPPush(S, running_task[c])]
    /\ RT_task_queue' = [RT_task_queue EXCEPT ![c] = RTPush(q, running_task[c])]
    /\ UNCHANGED running_task

\* pop_running_tasks, given what the queues hold before it.
PopRunning(c, S, q) ==
    /\ scheduler_queue' =
          [scheduler_queue EXCEPT ![c] = NPPush(S, running_task[c])]
    /\ RT_task_queue' = [RT_task_queue EXCEPT ![c] = RTPush(q, running_task[c])]
    /\ running_task' = [running_task EXCEPT ![c] = None]

\* next.has_task() is read without the lock.
CheckNext(c) ==
    /\ At(c, "check")
    /\ IF has_task(next[c])
       THEN /\ Goto(c, "swlock")
            /\ PopRunning(c, scheduler_queue[c], RT_task_queue[c])
       ELSE Goto(c, "rtlock") /\ UNCHANGED <<running_task, runqs>>
    /\ UNCHANGED <<queues, next, active, lock, waking, sched, fresh>>

RTLock(c) ==
    /\ Acquire(c, "rtlock", "rt")
    /\ UNCHANGED <<queues, slots, runqs, waking, sched, fresh>>

\* Variants: cpu is left as it was; next is shared by the cores.
Stale_cpu_next(c, t) == next' = [next EXCEPT ![c] = Assigned(t)] /\ UNCHANGED cpu
Shared_next(c, t) ==
    /\ next' = [d \in Core |-> Assigned(t)]
    /\ cpu' = [cpu EXCEPT ![t] = c]

\* next = move(t); next.schedule->cpu = cpu_id.
SetNext(c, t) ==
    /\ next' = [next EXCEPT ![c] = Assigned(t)]
    /\ cpu' = [cpu EXCEPT ![t] = c]

TakeRT(c) ==
    /\ At(c, "rt")
    /\ Unlock(c)
    /\ IF RT_task_queue[c] # << >>
       THEN /\ Goto(c, "swlock")
            /\ SetNext(c, Head(RT_task_queue[c]))
            /\ PopRunning(c, scheduler_queue[c], Tail(RT_task_queue[c]))
       ELSE Goto(c, "nplock") /\ UNCHANGED <<running_task, next, runqs, cpu>>
    /\ UNCHANGED <<queues, active, waking, time_slice, virtual_deadline, now,
                   fresh>>

NPLock(c) ==
    /\ Acquire(c, "nplock", "np")
    /\ UNCHANGED <<queues, slots, runqs, waking, sched, fresh>>

TakeNP(c) ==
    /\ At(c, "np")
    /\ Unlock(c)
    /\ Goto(c, "swlock")
    /\ IF scheduler_queue[c] # {}
       THEN \E t \in Tops(scheduler_queue[c]) :
              /\ SetNext(c, t)
              /\ PopRunning(c, scheduler_queue[c] \ {t}, RT_task_queue[c])
       ELSE UNCHANGED <<running_task, next, runqs, cpu>>
    /\ UNCHANGED <<queues, active, waking, time_slice, virtual_deadline, now,
                   fresh>>

SwitchLock(c) ==
    /\ Acquire(c, "swlock", "switch")
    /\ UNCHANGED <<queues, slots, runqs, waking, sched, fresh>>

\* The tail of schedule(): activate() loads next's page table and kernel
\* stack through next.schedule.
Activate(c) ==
    /\ At(c, "switch")
    /\ \/ /\ ~has_task(next[c])
          /\ Goto(c, "ret") /\ Unlock(c)
          /\ UNCHANGED active
       \/ /\ has_task(next[c]) /\ next[c].task = None
          /\ Fault(c)
          /\ UNCHANGED <<active, lock>>
       \/ /\ has_task(next[c]) /\ next[c].task # None
          /\ Goto(c, "move")
          /\ active' = [active EXCEPT ![c] = next[c].task]
          /\ UNCHANGED lock
    /\ UNCHANGED <<queues, running_task, next, runqs, waking, sched, fresh>>

\* next is moved to running_task by way of next_task, and "cleared" by
\* assigning a default PCB to it.  What running_task held is destroyed.
MoveNext(c) ==
    /\ At(c, "move")
    /\ running_task' = [running_task EXCEPT ![c] = next[c].task]
    /\ cpu' = [cpu EXCEPT ![next[c].task] = c]
    /\ next' = [next EXCEPT ![c] = Assigned(Default.task)]
    /\ Goto(c, "ret") /\ Unlock(c)
    /\ UNCHANGED <<queues, active, runqs, waking, time_slice, virtual_deadline,
                   now, fresh>>

\* return running_task.get_context(), which dereferences running_thread.
Return(c) ==
    /\ At(c, "ret")
    /\ IF running_task[c] = None THEN Fault(c) ELSE Goto(c, "user")
    /\ UNCHANGED <<queues, slots, lock, runqs, waking, sched, fresh>>

-----------------------------------------------------------------------------
(* Muqss::yield, on the system call path with interrupts masked *)

Yield(c) ==
    /\ At(c, "user")
    /\ Goto(c, "ylock")
    /\ UNCHANGED <<queues, slots, lock, runqs, waking, sched, fresh>>

YieldLock(c) ==
    /\ Acquire(c, "ylock", "yield")
    /\ UNCHANGED <<queues, slots, runqs, waking, sched, fresh>>

\* Variant: the deadline-ordered queue is looked at first.
NP_first_YieldSelect(c) ==
    /\ At(c, "yield")
    /\ Goto(c, "ypush")
    /\ \/ \E t \in Tops(scheduler_queue[c]) :
             /\ SetNext(c, t)
             /\ scheduler_queue' = [scheduler_queue EXCEPT ![c] = @ \ {t}]
             /\ UNCHANGED RT_task_queue
       \/ /\ scheduler_queue[c] = {} /\ RT_task_queue[c] # << >>
          /\ SetNext(c, Head(RT_task_queue[c]))
          /\ RT_task_queue' = [RT_task_queue EXCEPT ![c] = Tail(@)]
          /\ UNCHANGED scheduler_queue
       \/ /\ RT_task_queue[c] = << >> /\ scheduler_queue[c] = {}
          /\ UNCHANGED <<next, cpu, runqs>>
    /\ UNCHANGED <<queues, running_task, active, lock, waking, time_slice,
                   virtual_deadline, now, fresh>>

YieldSelect(c) ==
    /\ At(c, "yield")
    /\ Goto(c, "ypush")
    /\ \/ /\ RT_task_queue[c] # << >>
          /\ SetNext(c, Head(RT_task_queue[c]))
          /\ RT_task_queue' = [RT_task_queue EXCEPT ![c] = Tail(@)]
          /\ UNCHANGED scheduler_queue
       \/ /\ RT_task_queue[c] = << >>
          /\ \E t \in Tops(scheduler_queue[c]) :
                /\ SetNext(c, t)
                /\ scheduler_queue' = [scheduler_queue EXCEPT ![c] = @ \ {t}]
          /\ UNCHANGED RT_task_queue
       \/ /\ RT_task_queue[c] = << >> /\ scheduler_queue[c] = {}
          /\ UNCHANGED <<next, cpu, runqs>>
    /\ UNCHANGED <<queues, running_task, active, lock, waking, time_slice,
                   virtual_deadline, now, fresh>>

\* The running task is put back; its Schedule is dereferenced to do so.
YieldPush(c) ==
    /\ At(c, "ypush")
    /\ IF running_task[c] = None
       THEN Fault(c) /\ UNCHANGED <<running_task, runqs, lock>>
       ELSE /\ Goto(c, "user") /\ Unlock(c)
            /\ PopRunning(c, scheduler_queue[c], RT_task_queue[c])
    /\ UNCHANGED <<queues, next, active, waking, sched, fresh>>

-----------------------------------------------------------------------------
(* Servicer::enable: first_initialize, then Muqss::wake_up *)

Enable(c) ==
    /\ At(c, "user")
    /\ \E t \in fresh \cap Service :
        /\ first_initialize(c, t)
        /\ pcb' = [pcb EXCEPT ![c] = t]
        /\ fresh' = fresh \ {t}
    /\ Goto(c, "scan")
    /\ UNCHANGED <<queues, slots, lock, runqs, rq, top, target>>

\* The heap of pointers to every core's running_task is built, without any
\* lock; its comparisons dereference each of them.
WakeScan(c) ==
    /\ At(c, "scan")
    /\ IF MeetsNull(queues)
       THEN Fault(c) /\ UNCHANGED <<rq, top>>
       ELSE /\ Goto(c, "pick")
            /\ rq' = [rq EXCEPT ![c] = queues]
            /\ \E d \in TopCores(queues) : top' = [top EXCEPT ![c] = d]
    /\ UNCHANGED <<queues, slots, lock, runqs, pcb, target, sched, fresh>>

\* The top's running task can have been moved away since.
WakeStale(c) ==
    /\ At(c, "pick")
    /\ running_task[top[c]] = None
    /\ Fault(c)
    /\ UNCHANGED <<queues, slots, lock, runqs, waking, sched, fresh>>

Outranks(t, p)  == Priority[t] < Priority[p]
NotBelow(t, p)  == Priority[t] <= Priority[p]
EarlierThan(t, p) == virtual_deadline[t] < virtual_deadline[p]

\* "continue" without a pop: the loop looks at the same top again.
WakeContinue(c) ==
    /\ At(c, "pick")
    /\ running_task[top[c]] # None
    /\ ~NotBelow(pcb[c], running_task[top[c]])
    /\ UNCHANGED vars

\* A higher priority makes the condition true before try_lock is reached.
WakeOutrank(c) ==
    LET p == running_task[top[c]] IN
    /\ At(c, "pick")
    /\ p # None
    /\ Outranks(pcb[c], p)
    /\ target' = [target EXCEPT ![c] = cpu[p]]
    /\ Goto(c, "barge")
    /\ UNCHANGED <<queues, slots, lock, runqs, pcb, rq, top, sched, fresh>>

WakeTryLock(c) ==
    LET p == running_task[top[c]] IN
    /\ At(c, "pick")
    /\ p # None
    /\ NotBelow(pcb[c], p) /\ ~Outranks(pcb[c], p)
    /\ EarlierThan(pcb[c], p)
    /\ try_lock(cpu[p])
    /\ target' = [target EXCEPT ![c] = cpu[p]]
    /\ Goto(c, "store")
    /\ UNCHANGED <<queues, slots, runqs, pcb, rq, top, sched, fresh>>

\* rq.pop(): the deadline is no earlier or the lock is taken.  Restoring
\* the heap compares, and so dereferences, what is left of it.
WakePop(c) ==
    LET p == running_task[top[c]]
        rest == rq[c] \ {top[c]}
    IN
    /\ At(c, "pick")
    /\ p # None
    /\ NotBelow(pcb[c], p) /\ ~Outranks(pcb[c], p)
    /\ ~EarlierThan(pcb[c], p) \/ lock[cpu[p]]
    /\ rq' = [rq EXCEPT ![c] = rest]
    /\ \/ /\ rest = {}
          /\ top' = [top EXCEPT ![c] = None]
          /\ Goto(c, "llock")
       \/ /\ ~MeetsNull(rest)
          /\ \E d \in TopCores(rest) : top' = [top EXCEPT ![c] = d]
          /\ UNCHANGED pc
       \/ /\ MeetsNull(rest)
          /\ Fault(c)
          /\ UNCHANGED top
    /\ UNCHANGED <<queues, slots, lock, runqs, pcb, target, sched, fresh>>

\* The return from the loop: q's lock is cleared, the locals are gone.
WakeReturn(c) ==
    /\ lock' = [lock EXCEPT ![target[c]] = FALSE]
    /\ pcb' = [pcb EXCEPT ![c] = None]
    /\ target' = [target EXCEPT ![c] = None]
    /\ rq' = [rq EXCEPT ![c] = {}]
    /\ top' = [top EXCEPT ![c] = None]
    /\ Goto(c, "user")

\* With q's lock: the pcb is moved over whatever q.next holds.
WakeStore(c) ==
    /\ At(c, "store")
    /\ SetNext(target[c], pcb[c])
    /\ WakeReturn(c)
    /\ UNCHANGED <<queues, running_task, active, runqs, time_slice,
                   virtual_deadline, now, fresh>>

\* Without it: the contents move first, while is_empty is as it was, ...
BargeMove(c) ==
    /\ At(c, "barge")
    /\ next' = [next EXCEPT ![target[c]].task = pcb[c]]
    /\ pcb' = [pcb EXCEPT ![c] = None]
    /\ Goto(c, "bflag")
    /\ UNCHANGED <<queues, running_task, active, lock, runqs, rq, top, target,
                   sched, fresh>>

\* ... then is_empty is set, ...
BargeFlag(c) ==
    /\ At(c, "bflag")
    /\ next' = [next EXCEPT ![target[c]].is_empty = FALSE]
    /\ Goto(c, "bcpu")
    /\ UNCHANGED <<queues, running_task, active, lock, runqs, waking, sched,
                   fresh>>

\* ... then cpu is set in whatever q.next holds by now, if anything, ...
BargeCpu(c) ==
    /\ At(c, "bcpu")
    /\ IF next[target[c]].task = None
       THEN Fault(c) /\ UNCHANGED cpu
       ELSE /\ cpu' = [cpu EXCEPT ![next[target[c]].task] = target[c]]
            /\ Goto(c, "bunlock")
    /\ UNCHANGED <<queues, slots, lock, runqs, waking, time_slice,
                   virtual_deadline, now, fresh>>

\* ... and a lock is cleared that somebody else may have taken.
BargeUnlock(c) ==
    /\ At(c, "bunlock")
    /\ WakeReturn(c)
    /\ UNCHANGED <<queues, slots, runqs, sched, fresh>>

LocalLock(c) ==
    /\ Acquire(c, "llock", "local")
    /\ UNCHANGED <<queues, slots, runqs, waking, sched, fresh>>

WakeLocal(c) ==
    /\ At(c, "local")
    /\ scheduler_queue' =
          [scheduler_queue EXCEPT ![c] = NPPush(@, pcb[c])]
    /\ RT_task_queue' = [RT_task_queue EXCEPT ![c] = RTPush(@, pcb[c])]
    /\ pcb' = [pcb EXCEPT ![c] = None]
    /\ Goto(c, "user") /\ Unlock(c)
    /\ UNCHANGED <<queues, slots, rq, top, target, sched, fresh>>

-----------------------------------------------------------------------------
(* Specification *)

\* What a core does on its own once it has entered the kernel.
Step(c) ==
    \/ StartMain(c)
    \/ TickLock(c) \/ SaveContext(c) \/ Expire(c) \/ KeepRunning(c)
    \/ CheckNext(c) \/ RTLock(c) \/ TakeRT(c) \/ NPLock(c) \/ TakeNP(c)
    \/ SwitchLock(c) \/ Activate(c) \/ MoveNext(c) \/ Return(c)
    \/ YieldLock(c) \/ YieldSelect(c) \/ YieldPush(c)
    \/ WakeScan(c) \/ WakeStale(c) \/ WakeContinue(c) \/ WakeOutrank(c)
    \/ WakeTryLock(c) \/ WakePop(c) \/ WakeStore(c) \/ LocalLock(c) \/ WakeLocal(c)
    \/ BargeMove(c) \/ BargeFlag(c) \/ BargeCpu(c) \/ BargeUnlock(c)

\* What brings it there: power-on, the clock, a system call, a new service.
Enter(c) == InitializeTask(c) \/ Tick(c) \/ Yield(c) \/ Enable(c)

\* Every core hangs in the page fault handler.
Halted == (\A c \in Core : At(c, "dead")) /\ UNCHANGED vars

Next == (\E c \in Core : Step(c) \/ Enter(c)) \/ Halted

Spec == Init /\ [][Next]_vars

\* A core keeps executing instructions and its clock is periodic; nothing
\* obliges a system call or a new service to happen.
FairSpec == Spec /\ \A c \in Core : WF_vars(Step(c)) /\ WF_vars(Tick(c))

-----------------------------------------------------------------------------
(* Properties *)

\* Every variable keeps to its range.
TypeOK ==
    /\ pc \in [Core -> PC]
    /\ queues \in SUBSET Core
    /\ running_task \in [Core -> Task \cup {None}]
    /\ next \in [Core -> [task : Task \cup {None}, is_empty : BOOLEAN]]
    /\ active \in [Core -> Task]
    /\ lock \in [Core -> BOOLEAN]
    /\ scheduler_queue \in [Core -> SUBSET Task]
    /\ RT_task_queue \in [Core -> Seq(Task)]
    /\ pcb \in [Core -> Task \cup {None}]
    /\ rq \in [Core -> SUBSET Core]
    /\ top \in [Core -> Core \cup {None}]
    /\ target \in [Core -> Core \cup {None}]
    /\ time_slice \in [Task -> 0 .. rr_interval]
    /\ virtual_deadline \in [Task -> Nat]
    /\ cpu \in [Task -> Core \cup {None}]
    /\ fresh \in SUBSET Task
    /\ now \in 0 .. MaxTime

\* A core that has queued its running task on the word of an unlocked read of
\* next finds a task to switch to, and its handler never returns the context of
\* an empty slot, although other cores write next.  (Where the running task was
\* gone before the handler came, the core faults: SaveContext, Activate.)
SwitchIsReady ==
    \A c \in Core :
        /\ pc[c] \in {"swlock", "switch"} /\ running_task[c] = None
              => has_task(next[c])
        /\ pc[c] = "move" => next[c].task # None
        /\ pc[c] = "ret" => running_task[c] # None

\* t is in place k of core c.
Place == {"running", "next", "rt", "np", "pcb"}
Has(c, k, t) ==
    \/ k = "running" /\ running_task[c] = t
    \/ k = "next" /\ next[c].task = t
    \/ k = "rt" /\ t \in Range(RT_task_queue[c])
    \/ k = "np" /\ t \in scheduler_queue[c]
    \/ k = "pcb" /\ pcb[c] = t

\* However moves between slots, queues and cores interleave, a PCB is never
\* in two of them: two cores would run one task on one kernel stack.
NoTaskTwice ==
    /\ \A c, d \in Core : \A k, l \in Place : \A t \in Task :
          Has(c, k, t) /\ Has(d, l, t) => c = d /\ k = l
    /\ \A c \in Core : \A k \in Place : \A t \in fresh : ~Has(c, k, t)
    /\ \A c \in Core : IsInjective(RT_task_queue[c])

\* c is between taking and releasing d's lock.
LockPC == {"save", "rt", "np", "switch", "move", "yield", "ypush", "local"}
Holding(c, d) ==
    \/ c = d /\ pc[c] \in LockPC
    \/ target[c] = d /\ pc[c] = "store"

\* A critical section on a core's queues is entered by one core at a time,
\* and its lock is taken as long as it lasts.
LockExclusion ==
    \A d \in Core :
        /\ \A c \in Core : Holding(c, d) => lock[d]
        /\ \A b, c \in Core : Holding(b, d) /\ Holding(c, d) => b = c

\* A lock that nobody will ever release is that of the core that faulted:
\* the fault of one core never blocks another in lock().
FaultContained ==
    \A d \in Core :
        lock[d] => (\E c \in Core : Holding(c, d)) \/ pc[d] = "dead"

\* schedule->cpu of a task names the core whose slots or queues it is in.
\* activate() picks the TSS, and wake_up the queue to preempt, by it.
CpuNamesHolder ==
    \A c \in Core : \A k \in Place : \A t \in Task :
        Has(c, k, t) => cpu[t] = c

\* Outside the switch itself, a core that runs a task runs it in the address
\* space and on the kernel stack of that task, although another core may
\* write next just before the switch.
AddressSpaceMatches ==
    \A c \in Core :
        pc[c] \notin {"move", "dead"} /\ running_task[c] # None
            => active[c] = running_task[c]

\* The scheduler keeps t on core c.
Kept(c, t) == \E k \in Place \ {"pcb"} : Has(c, k, t)

\* A task handed to a core's slots or queues stays with that core: nothing
\* balances tasks since the "interactive" selection was taken out.
NoMigration ==
    [][\A c, d \in Core : \A t \in Task :
          c # d /\ Kept(c, t) => ~Kept(d, t)']_vars

\* The tasks that core c has besides the running one.
Waiting(c) == scheduler_queue[c] \cup Range(RT_task_queue[c]) \cup ({next[c].task} \ {None})
Abstract == INSTANCE Scheduler WITH
        new <- fresh, handed <- pcb, running <- running_task,
        waiting <- [c \in Core |-> Waiting(c)]

\* Through slots, queues and the argument of wake_up a task keeps to what the
\* abstract scheduler promises: it comes once, to one core, runs and waits there
\* alone, and if a slot is overwritten with it inside it never runs again.
ImplementsScheduler == Abstract!Spec

\* A task leaves the deadline-ordered queue only when no real-time task of
\* that core waits, although the lock is released between the two checks.
RTFirst ==
    [][\A c \in Core : scheduler_queue[c] \ scheduler_queue'[c] # {}
                          => RT_task_queue[c] = << >>]_vars

\* Every handler, system call or boot path that is entered comes to its end
\* or faults: no core spins for ever on a lock.
HandlerReturns ==
    \A c \in Core : pc[c] \notin {"off", "user", "dead"}
                        ~> pc[c] \in {"user", "dead"}

-----------------------------------------------------------------------------
(* What comments and documents say of the scheduler, and the code refutes *)

\* "Clear next" (Muqss.cpp:112): a slot without a task says it has none.
ClearedNextHasNoTask ==
    \A c \in Core : next[c].task = None => ~has_task(next[c])

\* "Ensure no double initialization or resource leakage" (Muqss.cpp:111): the
\* task a switch takes off a core is somewhere to be found afterwards.
SwitchLeaksNoTask ==
    [][\A c \in Core : \A t \in Task :
          running_task[c] = t /\ running_task'[c] # t
             => \E d \in Core : \E k \in Place : Has(d, k, t)']_vars

\* "Only release rq.core.lock if acquired" (CRITICAL_BUGS_ANALYSIS.md:108):
\* a lock that is taken is cleared by a core that leaves its section.
ReleaseOnlyIfAcquired ==
    [][\A d \in Core :
          lock[d] /\ ~lock'[d]
             => \E c \in Core : Holding(c, d) /\ ~Holding(c, d)']_vars
=============================================================================
