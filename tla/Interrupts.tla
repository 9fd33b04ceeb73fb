----------------------------- MODULE Interrupts -----------------------------
(***************************************************************************)
(* The cores from their entry into the kernel to the tasks they run: the   *)
(* boot of loader_entry and smp_start, the gates, the local APIC timer and *)
(* the way of an interrupt through its stub, do_IRQ and its handler.       *)
(* A core is at one step of its boot, of register_ioapic (Routing) or of a *)
(* handler; frames[c] holds what it was doing when interrupts came.        *)
(***************************************************************************)
EXTENDS Routing

CONSTANTS Files, Firmwares, PAGE, TEXT_SEGMENT, None

ASSUME CoreAssumption == BSP \in Cores /\ None \notin Cores

\* The firmware's tables are in order.
FirmwareInOrder == \A f \in Firmwares : Plausible(f)

E == INSTANCE Elf

\* The boot modules are what a linker wrote.
ASSUME FileAssumption ==
    PAGE \in Nat \ {0} /\ TEXT_SEGMENT \in Nat /\ \A f \in Files : E!WellFormed(f)

VARIABLES
    file,        \* the first boot module
    image,       \* what load_elf_file made of it, or None
    boot,        \* [core -> the calls of its boot to come]
    frames,      \* [core -> what interrupts found it doing, and with which vector]
    RFLAGS_IF,   \* [core -> are interrupts enabled]
    taken,       \* [core -> the vector it handles, or 0]
    irr, isr,    \* [core -> is a tick requested, in service]
    ticr,        \* [core -> the timer's initial count]
    calibrated,  \* calibrated_timer_initial
    handlers,    \* GeneralInterruptHandle::handlers
    task,        \* the cores whose queue has a running task
    locked,      \* [queue -> the core that holds its lock, or None]
    go           \* the cores whose goto_address is set

request == <<taken, irr, isr>>
kernel  == <<calibrated, handlers, task, go, image>>
vars    == <<firmware, file, at, todo, boot, frames, RFLAGS_IF, ticr, locked, request, kernel, routing>>

FAULT   == 14
Vectors == {FAULT, CLOCK, SYSCALL, APIC_ERROR, APIC_SPURIOUS}

\* The calls of loader_entry that the model needs.  The last four are comments
\* in the source (see Committed).
loader_entry == <<"idt", "acpi", "lvt", "calibrate", "timer", "clock",
                  "task", "syscall", "smp", "modules", "sti">>
Early_smp_start  == <<"idt", "lvt", "timer", "sti", "task", "syscall">>
Closed_smp_start == <<"idt", "lvt", "timer", "task", "syscall">>
smp_start == <<"idt", "lvt", "timer", "task", "syscall", "sti">>

Init ==
    /\ firmware \in Firmwares /\ file \in Files
    /\ RoutingInit
    /\ at = [c \in Cores |-> IF c = BSP THEN "boot" ELSE "parked"]
    /\ boot = [c \in Cores |-> IF c = BSP THEN loader_entry ELSE smp_start]
    /\ todo = [c \in Cores |-> <<>>]
    /\ frames = [c \in Cores |-> <<>>]
    /\ RFLAGS_IF = [c \in Cores |-> FALSE]
    /\ taken = [c \in Cores |-> 0]
    /\ irr = [c \in Cores |-> FALSE] /\ isr = [c \in Cores |-> FALSE]
    /\ ticr = [c \in Cores |-> "off"]
    /\ calibrated = "zero"
    /\ handlers = [v \in Vectors |-> None]
    /\ task = {} /\ go = {} /\ image = None
    /\ locked = [c \in Cores |-> None]
-----------------------------------------------------------------------------
(* The boot. *)

Call(c, name, next) ==
    /\ at[c] = "boot" /\ boot[c] # <<>> /\ Head(boot[c]) = name
    /\ boot' = [boot EXCEPT ![c] = Tail(@)]
    /\ Go(c, next)
    /\ UNCHANGED <<firmware, file, frames, request>>

register_handle(table, v, h) == [table EXCEPT ![v] = h]

\* IDT::initialize: the gates and the table of handlers are filled by the boot
\* processor, which passes 0 whatever its number, and by a core numbered 0.
fills(c) == c = BSP \/ firmware.lapic_id[c] = 0
OneZero  == \A c \in Cores : fills(c) => c = BSP
Gates == [v \in Vectors |-> IF v = FAULT THEN "fault" ELSE "general"]
Idt(c) ==
    /\ Call(c, "idt", "boot")
    /\ RFLAGS_IF' = [RFLAGS_IF EXCEPT ![c] = FALSE]
    /\ handlers' = IF fills(c) THEN Gates ELSE handlers
    /\ UNCHANGED <<todo, ticr, locked, calibrated, task, go, image, routing>>

Acpi(c) ==
    /\ Call(c, "acpi", "boot")
    /\ MADT
    /\ UNCHANGED <<todo, RFLAGS_IF, ticr, locked, kernel>>

\* Apic::initialize up to the first count; the timer is unmasked from here on.
Lvt(c) ==
    /\ Call(c, "lvt", "boot")
    /\ handlers' = register_handle(register_handle(handlers, APIC_SPURIOUS, "spurious"),
                                   APIC_ERROR, "error")
    /\ ticr' = [ticr EXCEPT ![c] = "max"]
    /\ UNCHANGED <<todo, RFLAGS_IF, locked, calibrated, task, go, image, routing>>

Calibrate(c) ==
    /\ Call(c, "calibrate", "boot")
    /\ calibrated' = "period"
    /\ UNCHANGED <<todo, RFLAGS_IF, ticr, locked, handlers, task, go, image, routing>>

Timer(c) ==
    /\ Call(c, "timer", "boot")
    /\ ticr' = [ticr EXCEPT ![c] = calibrated]
    /\ UNCHANGED <<todo, RFLAGS_IF, locked, kernel, routing>>

Clock(c) ==
    /\ Call(c, "clock", "route")
    /\ handlers' = register_handle(handlers, CLOCK, "clock")
    /\ todo' = [todo EXCEPT ![c] = <<<<CLOCK, 0>>, <<APIC_ERROR, 124>>, <<APIC_SPURIOUS, 125>>>>]
    /\ UNCHANGED <<RFLAGS_IF, ticr, locked, calibrated, task, go, image, routing>>

\* initialize_task; Muqss has what it does to the queue.
Task(c) ==
    /\ Call(c, "task", "boot")
    /\ task' = task \cup {c}
    /\ UNCHANGED <<todo, RFLAGS_IF, ticr, locked, calibrated, handlers, go, image, routing>>

\* loader_entry as committed goes no further than initialize_task.
Committed(c) ==
    /\ c = BSP /\ Call(c, "syscall", "main")
    /\ UNCHANGED <<todo, RFLAGS_IF, ticr, locked, kernel, routing>>

Syscall(c) ==
    /\ Call(c, "syscall", "route")
    /\ handlers' = register_handle(handlers, SYSCALL, "syscall")
    /\ todo' = [todo EXCEPT ![c] = <<<<SYSCALL, 96>>>>]
    /\ UNCHANGED <<RFLAGS_IF, ticr, locked, calibrated, task, go, image, routing>>

\* The end of register_ioapic's requests, and each access of them.
Route(c) ==
    /\ \/ Register(c)
       \/ at[c] = "route" /\ todo[c] = <<>> /\ Go(c, "boot") /\ UNCHANGED <<todo, routing>>
    /\ UNCHANGED <<firmware, file, boot, frames, RFLAGS_IF, ticr, locked, request, kernel>>

Smp(c) ==
    /\ Call(c, "smp", "boot")
    /\ go' = Cores \ {BSP}
    /\ UNCHANGED <<todo, RFLAGS_IF, ticr, locked, calibrated, handlers, task, image, routing>>

Parked(c) ==
    /\ at[c] = "parked" /\ c \in go
    /\ Go(c, "boot")
    /\ UNCHANGED <<firmware, file, todo, boot, frames, RFLAGS_IF, ticr, locked, request, kernel, routing>>

\* Loader::initialize loads the file; its enable() puts the task on a queue
\* under that queue's lock (Muqss has wake_up's choice of it).
Modules(c) ==
    /\ Call(c, "modules", "wake_up")
    /\ image' = E!load_elf_file(file)
    /\ UNCHANGED <<todo, RFLAGS_IF, ticr, locked, calibrated, handlers, task, go, routing>>

Sti(c) ==
    /\ Call(c, "sti", IF Len(boot[c]) = 1 THEN "run" ELSE "boot")
    /\ RFLAGS_IF' = [RFLAGS_IF EXCEPT ![c] = TRUE]
    /\ UNCHANGED <<todo, ticr, locked, kernel, routing>>

Boot(c) ==
    \/ Idt(c) \/ Acpi(c) \/ Lvt(c) \/ Calibrate(c) \/ Timer(c) \/ Clock(c) \/ Task(c)
    \/ Committed(c) \/ Syscall(c) \/ Route(c) \/ Smp(c) \/ Parked(c) \/ Modules(c) \/ Sti(c)
-----------------------------------------------------------------------------
(* The machine. *)

\* A timer with a count requests its interrupt, whether or not interrupts are
\* enabled; one request waits, the next is merged with it.
Tick(c) ==
    /\ ticr[c] \in {"max", "period"} /\ ~irr[c]
    /\ irr' = [irr EXCEPT ![c] = TRUE]
    /\ UNCHANGED <<firmware, file, at, todo, boot, frames, RFLAGS_IF, ticr, locked, taken, isr, kernel, routing>>

Enter(c, v) ==
    /\ frames' = [frames EXCEPT ![c] = <<<<at[c], taken[c]>>>> \o @]
    /\ taken' = [taken EXCEPT ![c] = v]
    /\ Go(c, "stub")
    /\ UNCHANGED <<firmware, file, todo, boot, ticr, locked, kernel, routing>>

\* SET_INTERRUPT_HANDLER builds trap gates (0x8f), which leave IF as it is.
Deliver(c) ==
    /\ RFLAGS_IF[c] /\ irr[c] /\ ~isr[c]
    /\ Enter(c, CLOCK)
    /\ irr' = [irr EXCEPT ![c] = FALSE] /\ isr' = [isr EXCEPT ![c] = TRUE]
    /\ UNCHANGED RFLAGS_IF

\* SET_TRAP_HANDLER builds interrupt gates (0x8e).
Fault(c) ==
    /\ at[c] = "run"
    /\ Enter(c, FAULT)
    /\ RFLAGS_IF' = [RFLAGS_IF EXCEPT ![c] = FALSE]
    /\ UNCHANGED <<irr, isr>>

\* A spurious interrupt has no bit in service.
Spurious(c) ==
    /\ at[c] = "run" /\ RFLAGS_IF[c]
    /\ Enter(c, APIC_SPURIOUS)
    /\ UNCHANGED <<RFLAGS_IF, irr, isr>>
-----------------------------------------------------------------------------
(* The way of an interrupt. *)

Step(c, from, to) ==
    /\ at[c] = from /\ Go(c, to)
    /\ UNCHANGED <<firmware, file, todo, boot, ticr, irr, kernel, routing>>

Open_Stub(c) ==
    /\ Step(c, "stub", "do_IRQ")
    /\ UNCHANGED <<RFLAGS_IF, frames, taken, isr, locked>>

\* The stubs of entry.S begin with CLI.
Stub(c) ==
    /\ Step(c, "stub", "do_IRQ")
    /\ RFLAGS_IF' = [RFLAGS_IF EXCEPT ![c] = FALSE]
    /\ UNCHANGED <<frames, taken, isr, locked>>

\* do_IRQ: no handler halts, the general one and a fault's print and stay.
do_IRQ(c) ==
    /\ Step(c, "do_IRQ", CASE handlers[taken[c]] \in {None, "general", "fault"} -> "stuck"
                            [] OTHER -> "eoi")
    /\ UNCHANGED <<frames, taken, isr, locked, RFLAGS_IF>>

\* Only the clock's handler goes on after it; ApicError's and the spurious
\* one's loop.
Eoi(c) ==
    /\ Step(c, "eoi", IF taken[c] = CLOCK THEN "lock" ELSE "stuck")
    /\ isr' = [isr EXCEPT ![c] = FALSE]
    /\ UNCHANGED <<frames, taken, locked, RFLAGS_IF>>

Lock(c, q, from, to) ==
    /\ locked[q] = None
    /\ Step(c, from, to)
    /\ locked' = [locked EXCEPT ![q] = c]
    /\ UNCHANGED <<frames, taken, isr, RFLAGS_IF>>

Unlock(c, from, to) ==
    /\ Step(c, from, to)
    /\ locked' = [q \in Cores |-> IF locked[q] = c THEN None ELSE locked[q]]
    /\ UNCHANGED <<frames, taken, isr, RFLAGS_IF>>

\* save_context and schedule_thread under the queue's lock, then schedule,
\* which takes it again (Muqss).
Handler(c) ==
    \/ Lock(c, c, "lock", "save")
    \/ Unlock(c, "save", "schedule")
    \/ Lock(c, c, "schedule", "switch")
    \/ Unlock(c, "switch", "iret")

\* return_from_isr, into a frame with IF set.
Iret(c) ==
    /\ Step(c, "iret", Head(frames[c])[1])
    /\ taken' = [taken EXCEPT ![c] = Head(frames[c])[2]]
    /\ frames' = [frames EXCEPT ![c] = Tail(@)]
    /\ RFLAGS_IF' = [RFLAGS_IF EXCEPT ![c] = TRUE]
    /\ UNCHANGED <<isr, locked>>

Held_WakeUp(c) ==
    \/ \E q \in task : Lock(c, q, "wake_up", "woken")
    \/ Step(c, "woken", "boot") /\ UNCHANGED <<frames, taken, isr, locked, RFLAGS_IF>>

\* wake_up tries other queues' locks and waits for its own.
WakeUp(c) == (\E q \in task : Lock(c, q, "wake_up", "woken")) \/ Unlock(c, "woken", "boot")

Interrupt(c) == Stub(c) \/ do_IRQ(c) \/ Eoi(c) \/ Handler(c) \/ Iret(c)

Run(c) == Boot(c) \/ WakeUp(c) \/ Interrupt(c)
Next == \E c \in Cores : Run(c) \/ Tick(c) \/ Deliver(c) \/ Fault(c) \/ Spurious(c)

\* Every core executes, and takes an interrupt that it may take.
Fairness == \A c \in Cores : WF_vars(Run(c)) /\ WF_vars(Deliver(c))
Spec == Init /\ [][Next]_vars /\ Fairness
-----------------------------------------------------------------------------
TypeOK ==
    /\ at \in [Cores -> {"parked", "boot", "main", "run", "stuck", "wake_up", "woken",
                         "route", "low", "next", "high", "enable", "again", "stray",
                         "stub", "do_IRQ", "eoi", "lock", "save", "schedule", "switch", "iret"}]
    /\ RFLAGS_IF \in [Cores -> BOOLEAN] /\ irr \in [Cores -> BOOLEAN] /\ isr \in [Cores -> BOOLEAN]
    /\ taken \in [Cores -> Vectors \cup {0}]
    /\ ticr \in [Cores -> {"off", "max", "zero", "period"}]
    /\ handlers \in [Vectors -> {None, "general", "fault", "clock", "error", "spurious", "syscall"}]
    /\ task \subseteq Cores /\ go \subseteq Cores
    /\ locked \in [Cores -> Cores \cup {None}]

(* No core comes to wait for a lock that it holds itself: an interrupt never
   finds its core between lock and unlock, although the gates of all device
   interrupts leave interrupts enabled. *)
NoSelfDeadlock ==
    \A c \in Cores : at[c] \in {"lock", "schedule"} => locked[c] # c

(* A tick comes to a core whose queue has the running task that the handler
   saves into, although timers count from the middle of the boot and a tick may
   wait for interrupts to be enabled; and it is handled by Clock::handler,
   unless another core than the boot processor has the number 0 and has wiped
   the table. *)
ClockIsPrepared ==
    \A c \in Cores : at[c] \in {"do_IRQ", "eoi", "lock"} /\ taken[c] = CLOCK =>
        c \in task /\ (OneZero => handlers[CLOCK] = "clock")

(* No order of the cores' numbers makes a tick find another handler.  It does
   not hold (PlatformOrder.cfg). *)
ClockIsHandled ==
    \A c \in Cores : at[c] = "do_IRQ" /\ taken[c] = CLOCK => handlers[CLOCK] = "clock"

(* A core that runs tasks has a timer that the calibration of the boot
   processor gave its count. *)
TimerIsCalibrated == \A c \in Cores : at[c] = "run" => ticr[c] = "period"

(* Whatever the order of the boots, what a core's ticks and tasks need is there,
   and no other core's boot spoils it. *)
BootIsPrepared == TypeOK /\ ClockIsPrepared /\ TimerIsCalibrated

(* A task runs with interrupts enabled, none in service, nothing left on the
   stack of frames and no queue locked in its core's name. *)
TasksRunClean ==
    \A c \in Cores : at[c] = "run" =>
        RFLAGS_IF[c] /\ ~isr[c] /\ frames[c] = <<>> /\ \A q \in Cores : locked[q] # c

(* Interrupts, whenever they come, leave every core able to go on. *)
CoresStayClean == NoSelfDeadlock /\ TasksRunClean

\* The filesystem service's task reads its file (Elf!IsFile).
ImageIsFile == image # None => E!IsFile(file, image)

(* A tick requested on a core that runs tasks gets to the scheduler, unless a
   fault or a spurious interrupt stops the core for good. *)
TickIsServed ==
    \A c \in Cores : (irr[c] /\ at[c] = "run") ~> (at[c] \in {"schedule", "stuck"})

(* A processor that is sent to smp_start comes to run tasks. *)
CoresComeUp == \A c \in Cores : (c \in go /\ at[c] = "parked") ~> (at[c] = "run")
=============================================================================
