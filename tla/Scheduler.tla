------------------------------ MODULE Scheduler ------------------------------
(* What a task may rely on: it is handed to one core, waits and runs there  *)
(* and nowhere else, and no other task runs on a core while it does.  The   *)
(* scheduler may lose tasks, one at a time; what is lost does not come back.*)
CONSTANTS Core, Task, None

VARIABLES
    new,        \* tasks that the scheduler has not seen
    handed,     \* [core -> the task that it is handing to some core, or None]
    running,    \* [core -> the task that it runs, or None]
    waiting     \* [core -> the tasks that wait to run on it]

vars == <<new, handed, running, waiting>>

Init ==
    /\ new = Task
    /\ handed = [c \in Core |-> None] /\ running = [c \in Core |-> None]
    /\ waiting = [c \in Core |-> {}]

\* What a step on core c may lose: nothing, or one task.
Losses(c) == {{}} \cup {{u} : u \in waiting[c]}

\* A core that runs nothing yet comes with a task of its own.
Begin(c, t) ==
    /\ t \in new /\ running[c] = None
    /\ new' = new \ {t}
    /\ running' = [running EXCEPT ![c] = t]
    /\ UNCHANGED <<handed, waiting>>

Offer(c, t) ==
    /\ t \in new /\ handed[c] = None
    /\ new' = new \ {t}
    /\ handed' = [handed EXCEPT ![c] = t]
    /\ UNCHANGED <<running, waiting>>

\* Core c hands its task to core d.
Hand(c, d, lost) ==
    /\ handed[c] # None
    /\ handed' = [handed EXCEPT ![c] = None]
    /\ waiting' = [waiting EXCEPT ![d] = (@ \ lost) \cup {handed[c]}]
    /\ UNCHANGED <<new, running>>

Stop(c, lost) ==
    /\ running[c] # None
    /\ running' = [running EXCEPT ![c] = None]
    /\ waiting' = [waiting EXCEPT ![c] = (@ \ lost) \cup {running[c]}]
    /\ UNCHANGED <<new, handed>>

\* The task that ran before, if there is one, is lost.
Start(c, t) ==
    /\ t \in waiting[c]
    /\ running' = [running EXCEPT ![c] = t]
    /\ waiting' = [waiting EXCEPT ![c] = @ \ {t}]
    /\ UNCHANGED <<new, handed>>

Lose(c, lost) ==
    /\ waiting' = [waiting EXCEPT ![c] = @ \ lost]
    /\ UNCHANGED <<new, handed, running>>

Next ==
    \E c \in Core :
        \/ \E t \in Task : Begin(c, t) \/ Offer(c, t) \/ Start(c, t)
        \/ \E d \in Core : \E lost \in Losses(d) : Hand(c, d, lost)
        \/ \E lost \in Losses(c) : Stop(c, lost) \/ Lose(c, lost)

Spec == Init /\ [][Next]_vars

-----------------------------------------------------------------------------
(* What follows from it *)

Place == {"handed", "running", "waiting"}
Has(c, k, t) ==
    \/ k = "handed" /\ handed[c] = t
    \/ k = "running" /\ running[c] = t
    \/ k = "waiting" /\ t \in waiting[c]

\* A task is in one place of one core, and the scheduler has not seen it
\* before (what Task::Muqss promises with its move-only PCBs).
EachTaskOnce ==
    \A t \in Task : \A c \in Core : \A k \in Place :
        Has(c, k, t) =>
            /\ t \notin new
            /\ \A d \in Core : \A l \in Place : Has(d, l, t) => d = c /\ l = k

\* A core's task stays its own, and a lost one stays lost (there is no
\* balancing between the queues of Task::Muqss).
Mine(c, t) == Has(c, "running", t) \/ Has(c, "waiting", t)
Settled ==
    [][\A t \in Task :
          /\ \A c, d \in Core : Mine(c, t) /\ Mine(d, t)' => c = d
          /\ t \notin new /\ (\A c \in Core : \A k \in Place : ~Has(c, k, t))
                => \A c \in Core : \A k \in Place : ~Has(c, k, t)']_vars
=============================================================================
