-------------------------- MODULE InterruptProofs --------------------------
(***************************************************************************)
(* For any number of cores, machines and modules: no core waits for a lock *)
(* that it holds, and a task runs on a clean core.  The invariant says     *)
(* where a core may be while interrupts are enabled, what its frames hold  *)
(* and where it holds a lock.  A second one, of the calls that its boot    *)
(* has left, shows that the boot prepares what a later step uses; a third, *)
(* of the accesses to the I/O APICs, that the kernel reads the firmware's  *)
(* table right and writes the pins that the table says, and no others.     *)
(***************************************************************************)
EXTENDS Interrupts, TLAPS, WellFoundedInduction,
        FiniteSetTheorems, FunctionTheorems, SequenceTheorems

Handling == {"stub", "do_IRQ", "eoi", "lock", "save", "schedule", "switch", "iret"}
Booting  == {"parked", "boot", "main", "wake_up", "woken",
             "route", "low", "next", "high", "enable", "again", "stray"}

Calls == {"idt", "acpi", "lvt", "calibrate", "timer", "clock", "task", "syscall", "smp", "modules", "sti"}

Shape ==
    /\ at \in [Cores -> Booting \cup Handling \cup {"run", "stuck"}]
    /\ boot \in [Cores -> Seq(Calls)]
    /\ frames \in [Cores -> Seq({"run", "stub"} \X Nat)]
    /\ taken \in [Cores -> Nat]
    /\ RFLAGS_IF \in [Cores -> BOOLEAN]
    /\ isr \in [Cores -> BOOLEAN]
    /\ locked \in [Cores -> Cores \cup {None}]

\* Interrupts are enabled by the last call of a boot.
StiIsLast ==
    \A c \in Cores : \A k \in 1 .. Len(boot[c]) : boot[c][k] = "sti" <=> k = Len(boot[c])

\* They are enabled between tasks and stubs only, and always in a task.
WhereEnabled ==
    \A c \in Cores : /\ RFLAGS_IF[c] => at[c] \in {"run", "stub"}
                     /\ at[c] = "run" => RFLAGS_IF[c]

\* Under the frames of interrupted stubs lies one task's.
FrameOfTask ==
    \A c \in Cores :
        /\ \A k \in 1 .. Len(frames[c]) :
               frames[c][k][1] = "run" <=> k = Len(frames[c])
        /\ at[c] \in Handling => frames[c] # <<>>
        /\ at[c] \in Booting \cup {"run"} => frames[c] = <<>>

WhereInService == \A c \in Cores : isr[c] => at[c] \in {"stub", "do_IRQ", "eoi", "stuck"}

WhereLocked ==
    \A c, q \in Cores : locked[q] = c => at[c] \in {"save", "switch", "woken"}

IInv == Shape /\ StiIsLast /\ WhereEnabled /\ FrameOfTask /\ WhereInService /\ WhereLocked
-----------------------------------------------------------------------------
(* The invariant gives the two properties. *)
LEMMA Clean == IInv => NoSelfDeadlock /\ TasksRunClean
<1> SUFFICES ASSUME IInv PROVE NoSelfDeadlock /\ TasksRunClean
  OBVIOUS
<1>1. NoSelfDeadlock
  BY DEF NoSelfDeadlock, IInv, WhereLocked
<1>2. TasksRunClean
  BY DEF TasksRunClean, IInv, WhereLocked, WhereInService, WhereEnabled, FrameOfTask, Handling, Booting
<1> QED
  BY <1>1, <1>2

(* The state a boot loader leaves satisfies it. *)
LEMMA InitInv == Init => IInv
<1> SUFFICES ASSUME Init PROVE IInv
  OBVIOUS
<1> USE CoreAssumption
<1>1. Shape
  <2>1. loader_entry \in Seq(Calls) /\ smp_start \in Seq(Calls)
    BY DEF loader_entry, smp_start, Calls
  <2>2. boot \in [Cores -> Seq(Calls)]
    BY <2>1 DEF Init
  <2>3. at \in [Cores -> Booting \cup Handling \cup {"run", "stuck"}]
    BY DEF Init, Booting
  <2>4. frames \in [Cores -> Seq({"run", "stub"} \X Nat)]
    BY DEF Init
  <2>5. taken \in [Cores -> Nat] /\ locked \in [Cores -> Cores \cup {None}]
    BY DEF Init
  <2>6. RFLAGS_IF \in [Cores -> BOOLEAN] /\ isr \in [Cores -> BOOLEAN]
    BY DEF Init
  <2> QED
    BY <2>2, <2>3, <2>4, <2>5, <2>6 DEF Shape
<1>2. StiIsLast
  <2>1. ASSUME NEW c \in Cores, c = BSP
        PROVE  \A k \in 1 .. Len(boot[c]) : boot[c][k] = "sti" <=> k = Len(boot[c])
    <3>1. boot[c] = loader_entry
      BY <2>1 DEF Init
    <3>2. \A k \in 1 .. Len(loader_entry) : loader_entry[k] = "sti" <=> k = Len(loader_entry)
      BY DEF loader_entry
    <3> QED
      BY <3>1, <3>2
  <2>2. ASSUME NEW c \in Cores, c # BSP
        PROVE  \A k \in 1 .. Len(boot[c]) : boot[c][k] = "sti" <=> k = Len(boot[c])
    <3>1. boot[c] = smp_start
      BY <2>2 DEF Init
    <3>2. \A k \in 1 .. Len(smp_start) : smp_start[k] = "sti" <=> k = Len(smp_start)
      BY DEF smp_start
    <3> QED
      BY <3>1, <3>2
  <2> QED
    BY <2>1, <2>2 DEF StiIsLast
<1>3. WhereEnabled /\ FrameOfTask /\ WhereInService /\ WhereLocked
  BY DEF Init, WhereEnabled, FrameOfTask, WhereInService, WhereLocked, Handling, Booting
<1> QED
  BY <1>1, <1>2, <1>3 DEF IInv
-----------------------------------------------------------------------------
(* The tail of a sequence, place by place. *)
LEMMA TailPlaces ==
    ASSUME NEW S, NEW q \in Seq(S), q # <<>>
    PROVE  /\ Tail(q) \in Seq(S)
           /\ Len(q) \in Nat \ {0} /\ Len(Tail(q)) = Len(q) - 1
           /\ \A k \in 1 .. Len(Tail(q)) : Tail(q)[k] = q[k + 1]
  OBVIOUS

(* A call of the boot takes the first of the calls to come. *)
LEMMA CallTaken ==
    ASSUME IInv, NEW c \in Cores, boot[c] # <<>>, boot' = [boot EXCEPT ![c] = Tail(@)]
    PROVE  boot' \in [Cores -> Seq(Calls)] /\ StiIsLast'
<1>1. boot \in [Cores -> Seq(Calls)]
  BY DEF IInv, Shape
<1>2. boot'[c] = Tail(boot[c]) /\ \A d \in Cores : d # c => boot'[d] = boot[d]
  BY <1>1
<1>3. /\ Tail(boot[c]) \in Seq(Calls)
      /\ Len(boot[c]) \in Nat \ {0} /\ Len(boot'[c]) = Len(boot[c]) - 1
      /\ \A k \in 1 .. Len(boot'[c]) : boot'[c][k] = boot[c][k + 1]
  BY <1>1, <1>2, TailPlaces
<1>4. \A k \in 1 .. Len(boot'[c]) : boot'[c][k] = "sti" <=> k = Len(boot'[c])
  BY <1>3 DEF IInv, StiIsLast
<1>5. StiIsLast'
  BY <1>2, <1>4 DEF IInv, StiIsLast
<1> QED
  BY <1>1, <1>3, <1>5

(* A step of the boot that moves one core within it, and takes no lock and
   enables nothing, keeps the invariant. *)
LEMMA Quiet ==
    ASSUME IInv, NEW c \in Cores, NEW s \in Booting,
           at[c] \in Booting \ {"woken"},
           at' = [at EXCEPT ![c] = s],
           \/ UNCHANGED boot
           \/ boot[c] # <<>> /\ boot' = [boot EXCEPT ![c] = Tail(@)],
           UNCHANGED <<frames, taken, RFLAGS_IF, isr, locked>>
    PROVE  IInv'
<1>1. boot' \in [Cores -> Seq(Calls)] /\ StiIsLast'
  <2>1. CASE UNCHANGED boot
    BY <2>1 DEF IInv, Shape, StiIsLast
  <2> QED
    BY <2>1, CallTaken
<1>2. at' \in [Cores -> Booting \cup Handling \cup {"run", "stuck"}]
  BY DEF IInv, Shape
<1>3. Shape'
  BY <1>1, <1>2 DEF IInv, Shape
<1>4. \A d \in Cores : at'[d] = IF d = c THEN s ELSE at[d]
  BY DEF IInv, Shape
<1>5. WhereEnabled'
  BY <1>4 DEF IInv, WhereEnabled, Booting
<1>6. FrameOfTask'
  BY <1>4 DEF IInv, FrameOfTask, Booting, Handling
<1>7. WhereInService'
  BY <1>4 DEF IInv, WhereInService, Booting
<1>8. WhereLocked'
  BY <1>4 DEF IInv, WhereLocked, Booting
<1> QED
  BY <1>1, <1>3, <1>5, <1>6, <1>7, <1>8 DEF IInv

LEMMA QuietCall ==
    ASSUME IInv, NEW c \in Cores, NEW name, NEW s \in Booting, Call(c, name, s),
           UNCHANGED <<RFLAGS_IF, locked>>
    PROVE  IInv'
<1>1. at[c] \in Booting \ {"woken"} /\ at' = [at EXCEPT ![c] = s]
  BY DEF Call, Go, Booting
<1>2. boot[c] # <<>> /\ boot' = [boot EXCEPT ![c] = Tail(@)]
  BY DEF Call
<1>3. UNCHANGED <<frames, taken, RFLAGS_IF, isr, locked>>
  BY DEF Call, request
<1> QED
  BY <1>1, <1>2, <1>3, Quiet

(* enable_interrupt is the last call, so it leaves the core in its task. *)
LEMMA StiInv == ASSUME IInv, NEW c \in Cores, Sti(c) PROVE IInv'
<1>1. /\ at[c] = "boot" /\ boot[c] # <<>> /\ Head(boot[c]) = "sti"
      /\ boot' = [boot EXCEPT ![c] = Tail(@)]
      /\ at' = [at EXCEPT ![c] = IF Len(boot[c]) = 1 THEN "run" ELSE "boot"]
      /\ RFLAGS_IF' = [RFLAGS_IF EXCEPT ![c] = TRUE]
      /\ UNCHANGED <<frames, taken, isr, locked>>
  BY DEF Sti, Call, Go, request
<1>2. Len(boot[c]) = 1
  <2>1. boot[c] \in Seq(Calls)
    BY DEF IInv, Shape
  <2>2. Len(boot[c]) \in Nat \ {0} /\ boot[c][1] = Head(boot[c])
    BY <1>1, <2>1
  <2>3. 1 \in 1 .. Len(boot[c]) /\ boot[c][1] = "sti"
    BY <1>1, <2>2
  <2>4. \A k \in 1 .. Len(boot[c]) : boot[c][k] = "sti" <=> k = Len(boot[c])
    BY DEF IInv, StiIsLast
  <2> QED
    BY <2>3, <2>4
<1>3. boot' \in [Cores -> Seq(Calls)] /\ StiIsLast'
  BY <1>1, CallTaken
<1>4. at' = [at EXCEPT ![c] = "run"]
  BY <1>1, <1>2
<1>5. Shape'
  <2>1. at' \in [Cores -> Booting \cup Handling \cup {"run", "stuck"}]
    BY <1>4 DEF IInv, Shape
  <2>2. RFLAGS_IF' \in [Cores -> BOOLEAN]
    BY <1>1 DEF IInv, Shape
  <2> QED
    BY <1>1, <1>3, <2>1, <2>2 DEF IInv, Shape
<1>6. \A d \in Cores : at'[d] = IF d = c THEN "run" ELSE at[d]
  BY <1>4 DEF IInv, Shape
<1>7. \A d \in Cores : RFLAGS_IF'[d] = IF d = c THEN TRUE ELSE RFLAGS_IF[d]
  BY <1>1 DEF IInv, Shape
<1>8. WhereEnabled'
  BY <1>6, <1>7 DEF IInv, WhereEnabled
<1>9. FrameOfTask'
  BY <1>1, <1>6 DEF IInv, FrameOfTask, Booting, Handling
<1>10. WhereInService' /\ WhereLocked'
  BY <1>1, <1>6 DEF IInv, WhereInService, WhereLocked
<1> QED
  BY <1>3, <1>5, <1>8, <1>9, <1>10 DEF IInv

(* Every call and every access of register_ioapic. *)
LEMMA BootInv == ASSUME IInv, NEW c \in Cores, Boot(c) PROVE IInv'
<1>0. "boot" \in Booting /\ "main" \in Booting /\ "route" \in Booting /\ "wake_up" \in Booting
  BY DEF Booting
<1>1. CASE Idt(c)
  <2>1. Call(c, "idt", "boot") /\ at[c] = "boot" /\ UNCHANGED locked
    BY <1>1 DEF Idt, Call
  <2>2. RFLAGS_IF[c] = FALSE
    BY <2>1 DEF IInv, WhereEnabled, Shape
  <2>3. RFLAGS_IF' = RFLAGS_IF
    BY <1>1, <2>2 DEF Idt, IInv, Shape
  <2> QED
    BY <1>0, <2>1, <2>3, QuietCall
<1>2. CASE Acpi(c)
  BY <1>0, <1>2, QuietCall DEF Acpi
<1>3. CASE Lvt(c)
  BY <1>0, <1>3, QuietCall DEF Lvt
<1>4. CASE Calibrate(c)
  BY <1>0, <1>4, QuietCall DEF Calibrate
<1>5. CASE Timer(c)
  BY <1>0, <1>5, QuietCall DEF Timer
<1>6. CASE Clock(c)
  BY <1>0, <1>6, QuietCall DEF Clock
<1>7. CASE Task(c)
  BY <1>0, <1>7, QuietCall DEF Task
<1>8. CASE Committed(c)
  BY <1>0, <1>8, QuietCall DEF Committed
<1>9. CASE Syscall(c)
  BY <1>0, <1>9, QuietCall DEF Syscall
<1>10. CASE Route(c)
  <2>1. PICK s \in Booting : at' = [at EXCEPT ![c] = s]
    <3>1. CASE UNCHANGED at /\ at[c] = "route"
      <4>1. at' = [at EXCEPT ![c] = "route"]
        BY <3>1 DEF IInv, Shape
      <4> QED
        BY <1>0, <4>1
    <3> QED
      BY <1>10, <3>1 DEF Route, Register, Go, Booting
  <2>2. at[c] \in Booting \ {"woken"}
    BY <1>10 DEF Route, Register, Booting
  <2>3. UNCHANGED <<boot, frames, taken, RFLAGS_IF, isr, locked>>
    BY <1>10 DEF Route, request
  <2> QED
    BY <2>1, <2>2, <2>3, Quiet
<1>11. CASE Smp(c)
  BY <1>0, <1>11, QuietCall DEF Smp
<1>12. CASE Parked(c)
  BY <1>0, <1>12, Quiet DEF Parked, Go, request, Booting
<1>13. CASE Modules(c)
  BY <1>0, <1>13, QuietCall DEF Modules
<1>14. CASE Sti(c)
  BY <1>14, StiInv
<1> QED
  BY <1>1, <1>2, <1>3, <1>4, <1>5, <1>6, <1>7, <1>8, <1>9, <1>10, <1>11, <1>12, <1>13, <1>14 DEF Boot
-----------------------------------------------------------------------------
(* One more in front of a sequence, place by place. *)
LEMMA ConsPlaces ==
    ASSUME NEW S, NEW q \in Seq(S), NEW x \in S
    PROVE  /\ <<x>> \o q \in Seq(S)
           /\ Len(q) \in Nat /\ Len(<<x>> \o q) = Len(q) + 1
           /\ (<<x>> \o q)[1] = x
           /\ \A k \in 1 .. Len(q) : (<<x>> \o q)[k + 1] = q[k]
  OBVIOUS

(* An interrupt finds a task or an interrupted stub, and no lock. *)
LEMMA EnterInv ==
    ASSUME IInv, NEW c \in Cores, NEW v \in Nat, NEW b \in BOOLEAN, NEW d \in BOOLEAN,
           at[c] \in {"run", "stub"}, Enter(c, v),
           RFLAGS_IF' = [RFLAGS_IF EXCEPT ![c] = b], isr' = [isr EXCEPT ![c] = d]
    PROVE  IInv'
<1>1. /\ at' = [at EXCEPT ![c] = "stub"]
      /\ frames' = [frames EXCEPT ![c] = <<<<at[c], taken[c]>>>> \o @]
      /\ taken' = [taken EXCEPT ![c] = v]
      /\ UNCHANGED <<boot, locked>>
  BY DEF Enter, Go
<1>2. \A e \in Cores : at'[e] = IF e = c THEN "stub" ELSE at[e]
  BY <1>1 DEF IInv, Shape
<1>3. <<at[c], taken[c]>> \in {"run", "stub"} \X Nat /\ frames[c] \in Seq({"run", "stub"} \X Nat)
  BY DEF IInv, Shape
<1>4. frames'[c] = <<<<at[c], taken[c]>>>> \o frames[c]
  BY <1>1 DEF IInv, Shape
<1>5. /\ frames'[c] \in Seq({"run", "stub"} \X Nat)
      /\ Len(frames[c]) \in Nat /\ Len(frames'[c]) = Len(frames[c]) + 1
      /\ frames'[c][1] = <<at[c], taken[c]>>
      /\ \A k \in 1 .. Len(frames[c]) : frames'[c][k + 1] = frames[c][k]
  BY <1>3, <1>4, ConsPlaces
<1>6. Shape'
  <2>1. frames' \in [Cores -> Seq({"run", "stub"} \X Nat)]
    BY <1>1, <1>4, <1>5 DEF IInv, Shape
  <2>2. at' \in [Cores -> Booting \cup Handling \cup {"run", "stuck"}]
    BY <1>1 DEF IInv, Shape, Handling
  <2>3. taken' \in [Cores -> Nat]
    BY <1>1 DEF IInv, Shape
  <2>4. RFLAGS_IF' \in [Cores -> BOOLEAN] /\ isr' \in [Cores -> BOOLEAN]
    BY DEF IInv, Shape
  <2> QED
    BY <1>1, <2>1, <2>2, <2>3, <2>4 DEF IInv, Shape
<1>7. StiIsLast'
  BY <1>1 DEF IInv, StiIsLast
<1>8. WhereEnabled'
  BY <1>2 DEF IInv, WhereEnabled, Shape
<1>9. FrameOfTask'
  <2>1. \A k \in 1 .. Len(frames'[c]) : frames'[c][k][1] = "run" <=> k = Len(frames'[c])
    <3>1. frames'[c][1][1] = "run" <=> 1 = Len(frames'[c])
      <4>1. at[c] = "run" <=> frames[c] = <<>>
        BY DEF IInv, FrameOfTask, Handling
      <4>2. frames[c] = <<>> <=> Len(frames[c]) = 0
        BY <1>3
      <4>3. frames'[c][1][1] = at[c]
        BY <1>5
      <4> QED
        BY <1>5, <4>1, <4>2, <4>3
    <3>2. \A k \in 1 .. Len(frames[c]) : frames'[c][k + 1][1] = "run" <=> k = Len(frames[c])
      <4>1. \A k \in 1 .. Len(frames[c]) : frames[c][k][1] = "run" <=> k = Len(frames[c])
        BY DEF IInv, FrameOfTask
      <4> QED
        BY <1>5, <4>1
    <3> SUFFICES ASSUME NEW k \in 1 .. Len(frames'[c]), k # 1
                 PROVE  frames'[c][k][1] = "run" <=> k = Len(frames'[c])
      BY <3>1
    <3>3. PICK j \in 1 .. Len(frames[c]) : k = j + 1
      <4>1. k - 1 \in 1 .. Len(frames[c]) /\ k = (k - 1) + 1
        BY <1>5
      <4> QED
        BY <4>1
    <3>4. frames'[c][k][1] = "run" <=> j = Len(frames[c])
      BY <3>2, <3>3
    <3> QED
      BY <1>5, <3>3, <3>4
  <2>2. frames'[c] # <<>>
    BY <1>5
  <2>3. \A e \in Cores : e # c => frames'[e] = frames[e]
    BY <1>1 DEF IInv, Shape
  <2> QED
    BY <1>2, <2>1, <2>2, <2>3 DEF IInv, FrameOfTask, Booting
<1>10. WhereInService'
  BY <1>2 DEF IInv, WhereInService, Shape
<1>11. WhereLocked'
  BY <1>1, <1>2 DEF IInv, WhereLocked
<1> QED
  BY <1>6, <1>7, <1>8, <1>9, <1>10, <1>11 DEF IInv

(* The machine's interrupts, all of which find interrupts enabled or a task. *)
LEMMA MachineInv ==
    ASSUME IInv, NEW c \in Cores, Deliver(c) \/ Fault(c) \/ Spurious(c)
    PROVE  IInv'
<1> USE DEF CLOCK, FAULT, APIC_SPURIOUS
<1>0. /\ RFLAGS_IF \in [Cores -> BOOLEAN] /\ isr \in [Cores -> BOOLEAN]
      /\ RFLAGS_IF = [RFLAGS_IF EXCEPT ![c] = RFLAGS_IF[c]]
      /\ isr = [isr EXCEPT ![c] = isr[c]]
      /\ RFLAGS_IF[c] \in BOOLEAN /\ isr[c] \in BOOLEAN
  BY DEF IInv, Shape
<1>1. CASE Deliver(c)
  <2>1. at[c] \in {"run", "stub"}
    BY <1>0, <1>1 DEF Deliver, IInv, WhereEnabled
  <2>2. Enter(c, CLOCK) /\ isr' = [isr EXCEPT ![c] = TRUE] /\ RFLAGS_IF' = [RFLAGS_IF EXCEPT ![c] = RFLAGS_IF[c]]
    BY <1>0, <1>1 DEF Deliver
  <2> QED
    BY <1>0, <2>1, <2>2, EnterInv
<1>2. CASE Fault(c)
  <2>1. Enter(c, FAULT) /\ isr' = [isr EXCEPT ![c] = isr[c]] /\ RFLAGS_IF' = [RFLAGS_IF EXCEPT ![c] = FALSE]
    BY <1>0, <1>2 DEF Fault
  <2> QED
    BY <1>0, <1>2, <2>1, EnterInv DEF Fault
<1>3. CASE Spurious(c)
  <2>1. /\ Enter(c, APIC_SPURIOUS) /\ isr' = [isr EXCEPT ![c] = isr[c]]
        /\ RFLAGS_IF' = [RFLAGS_IF EXCEPT ![c] = RFLAGS_IF[c]]
    BY <1>0, <1>3 DEF Spurious
  <2>2. at[c] \in {"run", "stub"}
    BY <1>3 DEF Spurious
  <2>3. APIC_SPURIOUS \in Nat
    OBVIOUS
  <2> HIDE DEF APIC_SPURIOUS
  <2> QED
    BY <1>0, <2>1, <2>2, <2>3, EnterInv
<1> QED
  BY <1>1, <1>2, <1>3
-----------------------------------------------------------------------------
(* A step of the stub or the handler that leaves the locks and the frames. *)
LEMMA HandleInv ==
    ASSUME IInv, NEW c \in Cores, NEW s \in (Handling \ {"stub"}) \cup {"stuck"}, NEW d \in BOOLEAN,
           at[c] \in Handling \ {"save", "switch"}, at' = [at EXCEPT ![c] = s],
           UNCHANGED <<boot, frames, taken, locked>>,
           RFLAGS_IF' = [RFLAGS_IF EXCEPT ![c] = FALSE],
           isr' = [isr EXCEPT ![c] = d], d => s \in {"do_IRQ", "eoi", "stuck"}
    PROVE  IInv'
<1>1. \A e \in Cores : at'[e] = IF e = c THEN s ELSE at[e]
  BY DEF IInv, Shape
<1>2. Shape'
  <2>1. at' \in [Cores -> Booting \cup Handling \cup {"run", "stuck"}]
    BY DEF IInv, Shape
  <2>2. RFLAGS_IF' \in [Cores -> BOOLEAN] /\ isr' \in [Cores -> BOOLEAN]
    BY DEF IInv, Shape
  <2> QED
    BY <2>1, <2>2 DEF IInv, Shape
<1>3. StiIsLast'
  BY DEF IInv, StiIsLast
<1>4. WhereEnabled'
  BY <1>1 DEF IInv, WhereEnabled, Shape, Handling
<1>5. FrameOfTask'
  BY <1>1 DEF IInv, FrameOfTask, Booting, Handling
<1>6. WhereInService'
  BY <1>1 DEF IInv, WhereInService, Shape
<1>7. WhereLocked'
  BY <1>1 DEF IInv, WhereLocked, Handling
<1> QED
  BY <1>2, <1>3, <1>4, <1>5, <1>6, <1>7 DEF IInv

(* Outside tasks and stubs interrupts are off, and past eoi nothing is in
   service. *)
LEMMA Masked ==
    ASSUME IInv, NEW c \in Cores, at[c] \notin {"run", "stub"}
    PROVE  RFLAGS_IF = [RFLAGS_IF EXCEPT ![c] = FALSE] /\ RFLAGS_IF[c] = FALSE
<1>1. RFLAGS_IF \in [Cores -> BOOLEAN] /\ RFLAGS_IF[c] = FALSE
  BY DEF IInv, Shape, WhereEnabled
<1> QED
  BY <1>1

LEMMA EntryInv ==
    ASSUME IInv, NEW c \in Cores, Stub(c) \/ do_IRQ(c) \/ Eoi(c) PROVE IInv'
<1>0. isr = [isr EXCEPT ![c] = isr[c]] /\ isr[c] \in BOOLEAN
  BY DEF IInv, Shape
<1>1. CASE Stub(c)
  <2>1. at[c] \in Handling \ {"save", "switch"} /\ "do_IRQ" \in Handling \ {"stub"}
    BY <1>1 DEF Stub, Step, Handling
  <2>2. /\ at' = [at EXCEPT ![c] = "do_IRQ"]
        /\ UNCHANGED <<boot, frames, taken, locked>>
        /\ RFLAGS_IF' = [RFLAGS_IF EXCEPT ![c] = FALSE]
        /\ isr' = [isr EXCEPT ![c] = isr[c]]
    BY <1>0, <1>1 DEF Stub, Step, Go
  <2> QED
    BY <1>0, <2>1, <2>2, HandleInv
<1>2. CASE do_IRQ(c)
  <2>1. at[c] = "do_IRQ" /\ at[c] \in Handling \ {"save", "switch"} /\ "eoi" \in Handling \ {"stub"}
    BY <1>2 DEF do_IRQ, Step, Handling
  <2>2. PICK s \in {"eoi", "stuck"} : at' = [at EXCEPT ![c] = s]
    BY <1>2 DEF do_IRQ, Step, Go
  <2>3. /\ UNCHANGED <<boot, frames, taken, locked>>
        /\ RFLAGS_IF' = [RFLAGS_IF EXCEPT ![c] = FALSE]
        /\ isr' = [isr EXCEPT ![c] = isr[c]]
    BY <1>0, <1>2, <2>1, Masked DEF do_IRQ, Step
  <2> QED
    BY <1>0, <2>1, <2>2, <2>3, HandleInv
<1>3. CASE Eoi(c)
  <2>1. at[c] = "eoi" /\ at[c] \in Handling \ {"save", "switch"} /\ "lock" \in Handling \ {"stub"}
    BY <1>3 DEF Eoi, Step, Handling
  <2>2. PICK s \in {"lock", "stuck"} : at' = [at EXCEPT ![c] = s]
    BY <1>3 DEF Eoi, Step, Go
  <2>3. /\ UNCHANGED <<boot, frames, taken, locked>>
        /\ RFLAGS_IF' = [RFLAGS_IF EXCEPT ![c] = FALSE]
        /\ isr' = [isr EXCEPT ![c] = FALSE]
    BY <1>3, <2>1, Masked DEF Eoi, Step
  <2> QED
    BY <2>1, <2>2, <2>3, HandleInv
<1> QED
  BY <1>1, <1>2, <1>3

(* Taking a queue's lock, in the handler and in wake_up. *)
LEMMA LockInv ==
    ASSUME IInv, NEW c \in Cores, NEW q, NEW from, NEW to, Lock(c, q, from, to),
           <<from, to>> \in {<<"lock", "save">>, <<"schedule", "switch">>, <<"wake_up", "woken">>}
    PROVE  IInv'
<1>1. /\ at[c] = from /\ at' = [at EXCEPT ![c] = to]
      /\ locked' = [locked EXCEPT ![q] = c]
      /\ UNCHANGED <<boot, frames, taken, isr, RFLAGS_IF>>
  BY DEF Lock, Step, Go
<1>2. \A e \in Cores : at'[e] = IF e = c THEN to ELSE at[e]
  BY <1>1 DEF IInv, Shape
<1>3. \A p \in Cores : locked'[p] = IF p = q THEN c ELSE locked[p]
  BY <1>1 DEF IInv, Shape
<1>4. Shape'
  <2>1. at' \in [Cores -> Booting \cup Handling \cup {"run", "stuck"}]
    BY <1>1 DEF IInv, Shape, Booting, Handling
  <2>2. locked' \in [Cores -> Cores \cup {None}]
    BY <1>1 DEF IInv, Shape
  <2> QED
    BY <1>1, <2>1, <2>2 DEF IInv, Shape
<1>5. StiIsLast'
  BY <1>1 DEF IInv, StiIsLast
<1>6. WhereEnabled'
  BY <1>1, <1>2 DEF IInv, WhereEnabled
<1>7. FrameOfTask'
  BY <1>1, <1>2 DEF IInv, FrameOfTask, Booting, Handling
<1>8. WhereInService'
  BY <1>1, <1>2 DEF IInv, WhereInService
<1>9. WhereLocked'
  BY <1>2, <1>3 DEF IInv, WhereLocked
<1> QED
  BY <1>4, <1>5, <1>6, <1>7, <1>8, <1>9 DEF IInv

(* Releasing whatever the core holds. *)
LEMMA UnlockInv ==
    ASSUME IInv, NEW c \in Cores, NEW from, NEW to, Unlock(c, from, to),
           <<from, to>> \in {<<"save", "schedule">>, <<"switch", "iret">>, <<"woken", "boot">>}
    PROVE  IInv'
<1> USE CoreAssumption
<1>1. /\ at[c] = from /\ at' = [at EXCEPT ![c] = to]
      /\ locked' = [q \in Cores |-> IF locked[q] = c THEN None ELSE locked[q]]
      /\ UNCHANGED <<boot, frames, taken, isr, RFLAGS_IF>>
  BY DEF Unlock, Step, Go
<1>2. \A e \in Cores : at'[e] = IF e = c THEN to ELSE at[e]
  BY <1>1 DEF IInv, Shape
<1>3. Shape'
  <2>1. at' \in [Cores -> Booting \cup Handling \cup {"run", "stuck"}]
    BY <1>1 DEF IInv, Shape, Booting, Handling
  <2>2. locked' \in [Cores -> Cores \cup {None}]
    BY <1>1 DEF IInv, Shape
  <2> QED
    BY <1>1, <2>1, <2>2 DEF IInv, Shape
<1>4. StiIsLast'
  BY <1>1 DEF IInv, StiIsLast
<1>5. WhereEnabled'
  BY <1>1, <1>2 DEF IInv, WhereEnabled
<1>6. FrameOfTask'
  BY <1>1, <1>2 DEF IInv, FrameOfTask, Booting, Handling
<1>7. WhereInService'
  BY <1>1, <1>2 DEF IInv, WhereInService
<1>8. WhereLocked'
  BY <1>1, <1>2 DEF IInv, WhereLocked
<1> QED
  BY <1>3, <1>4, <1>5, <1>6, <1>7, <1>8 DEF IInv

LEMMA HeadPlace ==
    ASSUME NEW S, NEW q \in Seq(S), q # <<>>
    PROVE  /\ Head(q) = q[1] /\ 1 \in 1 .. Len(q)
           /\ Tail(q) = <<>> <=> Len(q) = 1
<1>1. Tail(q) \in Seq(S) /\ Len(q) \in Nat \ {0} /\ Len(Tail(q)) = Len(q) - 1
  BY TailPlaces
<1>2. Head(q) = q[1]
  OBVIOUS
<1>3. 1 \in 1 .. Len(q)
  BY <1>1
<1>4. Len(Tail(q)) = 0 <=> Len(q) = 1
  BY <1>1
<1>5. ASSUME NEW p \in Seq(S) PROVE p = <<>> <=> Len(p) = 0
  OBVIOUS
<1> QED
  BY <1>1, <1>2, <1>3, <1>4, <1>5

(* The frame on top is a task's exactly if it is the only one. *)
LEMMA TopFrame ==
    ASSUME NEW S, NEW q \in Seq(S), q # <<>>,
           \A k \in 1 .. Len(q) : q[k][1] = "run" <=> k = Len(q)
    PROVE  /\ Head(q)[1] = "run" <=> Tail(q) = <<>>
           /\ \A k \in 1 .. Len(Tail(q)) : Tail(q)[k][1] = "run" <=> k = Len(Tail(q))
<1>1. /\ Len(q) \in Nat \ {0} /\ Len(Tail(q)) = Len(q) - 1
      /\ \A k \in 1 .. Len(Tail(q)) : Tail(q)[k] = q[k + 1]
  BY TailPlaces
<1>2. Head(q) = q[1] /\ 1 \in 1 .. Len(q)
  BY HeadPlace
<1>3. Tail(q) = <<>> <=> Len(q) = 1
  BY HeadPlace
<1>4. q[1][1] = "run" <=> 1 = Len(q)
  BY <1>2
<1>5. PICK n \in Nat : Len(Tail(q)) = n /\ Len(q) = n + 1
  <2>1. PICK m \in Nat \ {0} : Len(q) = m /\ Len(Tail(q)) = m - 1
    BY TailPlaces, Zenon
  <2>2. m - 1 \in Nat /\ m = m - 1 + 1
    OBVIOUS
  <2> QED
    BY <2>1, <2>2, Zenon
<1>6. ASSUME NEW k \in 1 .. n PROVE Tail(q)[k][1] = "run" <=> k = n
  <2>1. k + 1 \in 1 .. n + 1 /\ (k + 1 = n + 1 <=> k = n)
    OBVIOUS
  <2>2. q[k + 1][1] = "run" <=> k + 1 = n + 1
    BY <1>5, <2>1
  <2>3. Tail(q)[k] = q[k + 1]
    BY <1>1, <1>5
  <2> QED
    BY <2>1, <2>2, <2>3
<1> QED
  BY <1>2, <1>3, <1>4, <1>5, <1>6

(* The frame that return_from_isr takes is a task's if it is the last one. *)
LEMMA IretInv == ASSUME IInv, NEW c \in Cores, Iret(c) PROVE IInv'
<1>1. /\ at[c] = "iret" /\ at' = [at EXCEPT ![c] = Head(frames[c])[1]]
      /\ taken' = [taken EXCEPT ![c] = Head(frames[c])[2]]
      /\ frames' = [frames EXCEPT ![c] = Tail(@)]
      /\ RFLAGS_IF' = [RFLAGS_IF EXCEPT ![c] = TRUE]
      /\ UNCHANGED <<boot, isr, locked>>
  BY DEF Iret, Step, Go
<1>2. frames[c] \in Seq({"run", "stub"} \X Nat) /\ frames[c] # <<>>
  BY <1>1 DEF IInv, Shape, FrameOfTask, Handling
<1>3. /\ frames'[c] = Tail(frames[c])
      /\ \A e \in Cores : e # c => frames'[e] = frames[e]
  BY <1>1 DEF IInv, Shape
<1>4. /\ frames'[c] \in Seq({"run", "stub"} \X Nat)
      /\ Len(frames[c]) \in Nat \ {0} /\ Len(frames'[c]) = Len(frames[c]) - 1
      /\ \A k \in 1 .. Len(frames'[c]) : frames'[c][k] = frames[c][k + 1]
  BY <1>2, <1>3, TailPlaces
<1>5. Head(frames[c]) = frames[c][1] /\ Head(frames[c]) \in {"run", "stub"} \X Nat
  BY <1>2, <1>4
<1>6. /\ Head(frames[c])[1] = "run" <=> Tail(frames[c]) = <<>>
      /\ \A k \in 1 .. Len(Tail(frames[c])) :
             Tail(frames[c])[k][1] = "run" <=> k = Len(Tail(frames[c]))
  <2>1. \A k \in 1 .. Len(frames[c]) : frames[c][k][1] = "run" <=> k = Len(frames[c])
    BY DEF IInv, FrameOfTask
  <2> QED
    BY <1>2, <2>1, TopFrame
<1> DEFINE s == Head(frames[c])[1]
<1>7. s \in {"run", "stub"} /\ at' = [at EXCEPT ![c] = s]
  BY <1>1, <1>5
<1>8. s = "run" <=> frames'[c] = <<>>
  BY <1>3, <1>6
<1> HIDE DEF s
<1>9. \A e \in Cores : at'[e] = IF e = c THEN s ELSE at[e]
  BY <1>7 DEF IInv, Shape
<1>10. Shape'
  <2>1. at' \in [Cores -> Booting \cup Handling \cup {"run", "stuck"}]
    BY <1>7 DEF IInv, Shape, Handling
  <2>2. taken' \in [Cores -> Nat]
    BY <1>1, <1>5 DEF IInv, Shape
  <2>3. frames' \in [Cores -> Seq({"run", "stub"} \X Nat)]
    BY <1>1, <1>3, <1>4 DEF IInv, Shape
  <2>4. RFLAGS_IF' \in [Cores -> BOOLEAN]
    BY <1>1 DEF IInv, Shape
  <2> QED
    BY <1>1, <2>1, <2>2, <2>3, <2>4 DEF IInv, Shape
<1>11. StiIsLast'
  BY <1>1 DEF IInv, StiIsLast
<1>12. WhereEnabled'
  <2>1. \A e \in Cores : RFLAGS_IF'[e] = IF e = c THEN TRUE ELSE RFLAGS_IF[e]
    BY <1>1 DEF IInv, Shape
  <2> QED
    BY <1>7, <1>9, <2>1 DEF IInv, WhereEnabled
<1>13. FrameOfTask'
  <2>1. \A k \in 1 .. Len(frames'[c]) : frames'[c][k][1] = "run" <=> k = Len(frames'[c])
    BY <1>3, <1>6
  <2>2. ASSUME NEW e \in Cores, e # c
        PROVE  /\ \A k \in 1 .. Len(frames'[e]) :
                      frames'[e][k][1] = "run" <=> k = Len(frames'[e])
               /\ at'[e] \in Handling => frames'[e] # <<>>
               /\ at'[e] \in Booting \cup {"run"} => frames'[e] = <<>>
    BY <1>3, <1>9, <2>2 DEF IInv, FrameOfTask
  <2>3. /\ at'[c] \in Handling => frames'[c] # <<>>
        /\ at'[c] \in Booting \cup {"run"} => frames'[c] = <<>>
    BY <1>7, <1>8, <1>9 DEF Booting, Handling
  <2> QED
    BY <2>1, <2>2, <2>3 DEF FrameOfTask
<1>14. WhereInService'
  BY <1>1, <1>9 DEF IInv, WhereInService
<1>15. WhereLocked'
  BY <1>1, <1>9 DEF IInv, WhereLocked
<1> QED
  BY <1>10, <1>11, <1>12, <1>13, <1>14, <1>15 DEF IInv
-----------------------------------------------------------------------------
LEMMA StepInv == IInv /\ [Next]_vars => IInv'
<1> SUFFICES ASSUME IInv, [Next]_vars PROVE IInv'
  OBVIOUS
<1>1. ASSUME NEW c \in Cores, Run(c) PROVE IInv'
  <2>1. CASE Boot(c)
    BY <2>1, BootInv
  <2>2. CASE WakeUp(c)
    BY <2>2, LockInv, UnlockInv DEF WakeUp
  <2>3. CASE Stub(c) \/ do_IRQ(c) \/ Eoi(c)
    BY <2>3, EntryInv
  <2>4. CASE Handler(c)
    BY <2>4, LockInv, UnlockInv DEF Handler
  <2>5. CASE Iret(c)
    BY <2>5, IretInv
  <2> QED
    BY <1>1, <2>1, <2>2, <2>3, <2>4, <2>5 DEF Run, Interrupt
<1>2. ASSUME NEW c \in Cores, Tick(c) PROVE IInv'
  BY <1>2 DEF Tick, IInv, Shape, StiIsLast, WhereEnabled, FrameOfTask, WhereInService, WhereLocked
<1>3. ASSUME NEW c \in Cores, Deliver(c) \/ Fault(c) \/ Spurious(c) PROVE IInv'
  BY <1>3, MachineInv
<1>4. CASE UNCHANGED vars
  BY <1>4 DEF vars, request, IInv, Shape, StiIsLast, WhereEnabled, FrameOfTask, WhereInService, WhereLocked
<1> QED
  BY <1>1, <1>2, <1>3, <1>4 DEF Next

(* The invariant holds in every reachable state, for any number of cores. *)
THEOREM Invariant == Spec => []IInv
  BY InitInv, StepInv, PTL DEF Spec

(* Clock::handler never waits for the lock of its own queue that its core
   holds, whatever interrupts come and although the gates leave interrupts
   enabled: the CLI of the stubs is enough.  Every way back to a task leaves
   no interrupt in service, no frame and no lock behind. *)
THEOREM AlwaysClean == Spec => []CoresStayClean
<1>1. IInv => CoresStayClean
  BY Clean DEF CoresStayClean
<1> QED
  BY <1>1, Invariant, PTL
-----------------------------------------------------------------------------
(* The order of the boots: what a core finds prepared when it comes to run *)

Plan(c) == IF c = BSP THEN loader_entry ELSE smp_start

\* The calls to come are the last ones of the core's plan.
InOrder ==
    \A c \in Cores :
        /\ Len(boot[c]) <= Len(Plan(c))
        /\ \A k \in 1 .. Len(boot[c]) : boot[c][k] = Plan(c)[Len(Plan(c)) - Len(boot[c]) + k]

Values ==
    /\ firmware \in Firmwares
    /\ irr \in [Cores -> BOOLEAN] /\ taken \in [Cores -> Vectors \cup {0}]
    /\ \A c \in Cores : \A k \in 1 .. Len(frames[c]) : frames[c][k][2] \in Vectors \cup {0}
    /\ ticr \in [Cores -> {"off", "max", "zero", "period"}] /\ calibrated \in {"zero", "period"}
    /\ handlers \in [Vectors -> {None, "general", "fault", "clock", "error", "spurious", "syscall"}]
    /\ task \subseteq Cores /\ go \subseteq Cores

\* What is done once so many calls are left; the other cores are sent off
\* when the boot processor has calibrated, and registered the clock.
Shared ==
    /\ Len(boot[BSP]) <= 7 => calibrated = "period"
    /\ OneZero /\ Len(boot[BSP]) <= 5 => handlers[CLOCK] = "clock"
    /\ go # {} => Len(boot[BSP]) <= 2
Own(c) ==
    /\ Len(boot[c]) <= (IF c = BSP THEN 6 ELSE 3) => ticr[c] = "period"
    /\ Len(boot[c]) <= (IF c = BSP THEN 4 ELSE 2) => c \in task
    /\ c # BSP /\ at[c] # "parked" => c \in go
    /\ at[c] \in Handling \cup {"run", "stuck"} => Len(boot[c]) = 0

Ahead == InOrder /\ Values /\ Shared /\ \A c \in Cores : Own(c)

(* The plans have eleven and six calls. *)
LEMMA Plans ==
    /\ Len(loader_entry) = 11 /\ Len(smp_start) = 6
    /\ loader_entry \in Seq(Calls) /\ smp_start \in Seq(Calls)
  BY DEF loader_entry, smp_start, Calls

(* The invariant gives the property. *)
LEMMA Prepared == IInv /\ Ahead => BootIsPrepared
<1> SUFFICES ASSUME IInv, Ahead PROVE BootIsPrepared
  OBVIOUS
<1> USE CoreAssumption
<1>1. TypeOK
  BY DEF TypeOK, IInv, Shape, Ahead, Values, Booting, Handling
<1>2. \A c \in Cores : at[c] \in Handling \cup {"run"} =>
          (OneZero => handlers[CLOCK] = "clock") /\ c \in task /\ ticr[c] = "period"
  <2> SUFFICES ASSUME NEW c \in Cores, at[c] \in Handling \cup {"run"}
               PROVE  (OneZero => handlers[CLOCK] = "clock") /\ c \in task /\ ticr[c] = "period"
    OBVIOUS
  <2>1. Own(c) /\ Shared /\ Own(BSP)
    BY CoreAssumption DEF Ahead
  <2>2. Len(boot[c]) = 0
    BY <2>1 DEF Own
  <2>3. ticr[c] = "period" /\ c \in task
    BY <2>1, <2>2 DEF Own
  <2>4. OneZero => handlers[CLOCK] = "clock"
    <3>1. CASE c = BSP
      BY <2>1, <2>2, <3>1 DEF Shared
    <3>2. CASE c # BSP
      <4>1. c \in go
        BY <2>1, <3>2 DEF Own, Handling
      <4>2. Len(boot[BSP]) \in Nat
        BY DEF IInv, Shape
      <4> QED
        BY <2>1, <4>1, <4>2 DEF Shared
    <3> QED
      BY <3>1, <3>2
  <2> QED
    BY <2>3, <2>4
<1>3. ClockIsPrepared /\ TimerIsCalibrated
  BY <1>2 DEF ClockIsPrepared, TimerIsCalibrated, Handling
<1> QED
  BY <1>1, <1>3 DEF BootIsPrepared

LEMMA InitAhead == Init => Ahead
<1> SUFFICES ASSUME Init PROVE Ahead
  OBVIOUS
<1> USE CoreAssumption
<1>1. \A c \in Cores : boot[c] = Plan(c)
  BY DEF Init, Plan
<1>2. \A c \in Cores : Plan(c) \in Seq(Calls) /\ Len(Plan(c)) = IF c = BSP THEN 11 ELSE 6
  BY Plans DEF Plan
<1>3. InOrder
  <2> SUFFICES ASSUME NEW c \in Cores
               PROVE  /\ Len(boot[c]) <= Len(Plan(c))
                      /\ \A k \in 1 .. Len(boot[c]) :
                             boot[c][k] = Plan(c)[Len(Plan(c)) - Len(boot[c]) + k]
    BY DEF InOrder
  <2> DEFINE n == Len(Plan(c))
  <2>1. n \in Nat /\ boot[c] = Plan(c) /\ Len(boot[c]) = n
    BY <1>1, <1>2
  <2> HIDE DEF n
  <2>2. n <= n /\ \A k \in 1 .. n : n - n + k = k
    BY <2>1
  <2> QED
    BY <2>1, <2>2 DEF n
<1>4. Values
  <2>1. \A c \in Cores : frames[c] = <<>>
    BY DEF Init
  <2> QED
    BY <2>1 DEF Init, Values
<1>5. \A c \in Cores : Len(boot[c]) = IF c = BSP THEN 11 ELSE 6
  BY <1>1, <1>2
<1>6. Shared
  BY <1>5 DEF Init, Shared
<1>7. \A c \in Cores : Own(c)
  <2>1. \A c \in Cores : at[c] = IF c = BSP THEN "boot" ELSE "parked"
    BY DEF Init
  <2> QED
    BY <1>5, <2>1 DEF Own, Handling
<1> QED
  BY <1>3, <1>4, <1>6, <1>7 DEF Ahead

(* The call that is made says how many are left. *)
LEMMA Position ==
    ASSUME IInv, InOrder, NEW c \in Cores, boot[c] # <<>>
    PROVE  /\ c = BSP => Len(boot[c]) \in 1 .. 11 /\ Head(boot[c]) = loader_entry[12 - Len(boot[c])]
           /\ c # BSP => Len(boot[c]) \in 1 .. 6 /\ Head(boot[c]) = smp_start[7 - Len(boot[c])]
<1>1. boot[c] \in Seq(Calls)
  BY DEF IInv, Shape
<1>2. Len(boot[c]) \in Nat \ {0} /\ Head(boot[c]) = boot[c][1]
  BY <1>1
<1> DEFINE n == Len(boot[c])
<1>3. n \in Nat \ {0} /\ 1 \in 1 .. n
  BY <1>2
<1>4. n <= Len(Plan(c)) /\ boot[c][1] = Plan(c)[Len(Plan(c)) - n + 1]
  BY <1>3 DEF InOrder
<1> HIDE DEF n
<1>5. CASE c = BSP
  <2>1. Plan(c) = loader_entry /\ Len(Plan(c)) = 11
    BY <1>5, Plans DEF Plan
  <2>2. n \in 1 .. 11 /\ 11 - n + 1 = 12 - n
    BY <1>3, <1>4, <2>1
  <2>3. Head(boot[c]) = loader_entry[12 - n]
    BY <1>2, <1>4, <2>1, <2>2
  <2> QED
    BY <1>5, <2>2, <2>3 DEF n
<1>6. CASE c # BSP
  <2>1. Plan(c) = smp_start /\ Len(Plan(c)) = 6
    BY <1>6, Plans DEF Plan
  <2>2. n \in 1 .. 6 /\ 6 - n + 1 = 7 - n
    BY <1>3, <1>4, <2>1
  <2>3. Head(boot[c]) = smp_start[7 - n]
    BY <1>2, <1>4, <2>1, <2>2
  <2> QED
    BY <1>6, <2>2, <2>3 DEF n
<1> QED
  BY <1>5, <1>6

(* Where a call has its place in the two plans. *)
LEMMA Places ==
    ASSUME IInv, InOrder, NEW c \in Cores, boot[c] # <<>>
    PROVE  LET n == Len(boot[c])  name == Head(boot[c])
           IN /\ n \in 1 .. 11
              /\ name = "idt"       => n = IF c = BSP THEN 11 ELSE 6
              /\ name = "acpi"      => c = BSP /\ n = 10
              /\ name = "lvt"       => n = IF c = BSP THEN 9 ELSE 5
              /\ name = "calibrate" => c = BSP /\ n = 8
              /\ name = "timer"     => n = IF c = BSP THEN 7 ELSE 4
              /\ name = "clock"     => c = BSP /\ n = 6
              /\ name = "task"      => n = IF c = BSP THEN 5 ELSE 3
              /\ name = "syscall"   => n = IF c = BSP THEN 4 ELSE 2
              /\ name = "smp"       => c = BSP /\ n = 3
              /\ name = "modules"   => c = BSP /\ n = 2
              /\ name = "sti"       => n = 1
<1> DEFINE n == Len(boot[c])
           name == Head(boot[c])
<1>1. /\ c = BSP => n \in 1 .. 11 /\ name = loader_entry[12 - n]
      /\ c # BSP => n \in 1 .. 6 /\ name = smp_start[7 - n]
  BY Position
<1> HIDE DEF n, name
<1>2. ASSUME c = BSP
      PROVE  /\ n \in 1 .. 11
             /\ n = 11 => name = "idt"
             /\ n = 10 => name = "acpi"
             /\ n = 9 => name = "lvt"
             /\ n = 8 => name = "calibrate"
             /\ n = 7 => name = "timer"
             /\ n = 6 => name = "clock"
             /\ n = 5 => name = "task"
             /\ n = 4 => name = "syscall"
             /\ n = 3 => name = "smp"
             /\ n = 2 => name = "modules"
             /\ n = 1 => name = "sti"
  BY <1>1, <1>2 DEF loader_entry
<1>3. ASSUME c # BSP
      PROVE  /\ n \in 1 .. 6
             /\ n = 6 => name = "idt"
             /\ n = 5 => name = "lvt"
             /\ n = 4 => name = "timer"
             /\ n = 3 => name = "task"
             /\ n = 2 => name = "syscall"
             /\ n = 1 => name = "sti"
  BY <1>1, <1>3 DEF smp_start
<1>4. n \in {1, 2, 3, 4, 5, 6, 7, 8, 9, 10, 11} /\ (c # BSP => n \in {1, 2, 3, 4, 5, 6})
  BY <1>2, <1>3
<1>5. /\ name = "idt"       => n = IF c = BSP THEN 11 ELSE 6
      /\ name = "acpi"      => c = BSP /\ n = 10
      /\ name = "lvt"       => n = IF c = BSP THEN 9 ELSE 5
      /\ name = "calibrate" => c = BSP /\ n = 8
      /\ name = "timer"     => n = IF c = BSP THEN 7 ELSE 4
      /\ name = "clock"     => c = BSP /\ n = 6
  BY <1>2, <1>3, <1>4
<1>6. /\ name = "task"      => n = IF c = BSP THEN 5 ELSE 3
      /\ name = "syscall"   => n = IF c = BSP THEN 4 ELSE 2
      /\ name = "smp"       => c = BSP /\ n = 3
      /\ name = "modules"   => c = BSP /\ n = 2
      /\ name = "sti"       => n = 1
  BY <1>2, <1>3, <1>4
<1>7. n \in 1 .. 11
  BY <1>4
<1> QED
  BY <1>5, <1>6, <1>7 DEF n, name

LEMMA TakenInOrder ==
    ASSUME IInv, InOrder, NEW c \in Cores, boot[c] # <<>>, boot' = [boot EXCEPT ![c] = Tail(@)]
    PROVE  /\ InOrder'
           /\ Len(boot[c]) \in Nat \ {0} /\ Len(boot'[c]) = Len(boot[c]) - 1
           /\ \A d \in Cores : d # c => boot'[d] = boot[d]
           /\ \A d \in Cores : Len(boot[d]) \in Nat /\ Len(boot'[d]) \in Nat
<1>1. boot \in [Cores -> Seq(Calls)]
  BY DEF IInv, Shape
<1>2. boot'[c] = Tail(boot[c]) /\ \A d \in Cores : d # c => boot'[d] = boot[d]
  BY <1>1
<1>3. /\ Len(boot[c]) \in Nat \ {0} /\ Len(boot'[c]) = Len(boot[c]) - 1
      /\ \A k \in 1 .. Len(boot'[c]) : boot'[c][k] = boot[c][k + 1]
  BY <1>1, <1>2, TailPlaces
<1>4. \A d \in Cores : Len(boot[d]) \in Nat /\ Len(boot'[d]) \in Nat
  BY <1>1, <1>2, <1>3
<1>5. /\ Len(boot'[c]) <= Len(Plan(c))
      /\ \A k \in 1 .. Len(boot'[c]) : boot'[c][k] = Plan(c)[Len(Plan(c)) - Len(boot'[c]) + k]
  <2> DEFINE L == Len(Plan(c))
             n == Len(boot[c])
             m == Len(boot'[c])
  <2>1. L \in Nat
    BY Plans DEF Plan
  <2>2. n \in Nat \ {0} /\ m = n - 1 /\ n <= L
    BY <1>3 DEF InOrder
  <2>3. \A k \in 1 .. m : boot'[c][k] = boot[c][k + 1]
    BY <1>3
  <2>4. \A k \in 1 .. n : boot[c][k] = Plan(c)[L - n + k]
    BY DEF InOrder
  <2> HIDE DEF L, n, m
  <2>5. ASSUME NEW k \in 1 .. m PROVE boot'[c][k] = Plan(c)[L - m + k]
    <3>1. k + 1 \in 1 .. n /\ L - n + (k + 1) = L - m + k
      BY <2>1, <2>2
    <3> QED
      BY <2>3, <2>4, <3>1
  <2>6. m <= L
    BY <2>1, <2>2
  <2> QED
    BY <2>5, <2>6 DEF L, m
<1>6. InOrder'
  <2>1. ASSUME NEW d \in Cores
        PROVE  /\ Len(boot'[d]) <= Len(Plan(d))
               /\ \A k \in 1 .. Len(boot'[d]) : boot'[d][k] = Plan(d)[Len(Plan(d)) - Len(boot'[d]) + k]
    <3>1. CASE d = c
      BY <1>5, <3>1
    <3>2. CASE d # c
      <4>1. boot'[d] = boot[d]
        BY <1>2, <3>2
      <4> QED
        BY <4>1 DEF InOrder
    <3> QED
      BY <3>1, <3>2
  <2> QED
    BY <2>1 DEF InOrder, Plan
<1> QED
  BY <1>2, <1>3, <1>4, <1>6

\* A call that core c makes when n are left changes what is shared, and its own
\* count, in its turn.
Turn(c, n) ==
    /\ task \subseteq task' /\ go \subseteq go'
    /\ calibrated' \in {calibrated, "period"}
    /\ c = BSP /\ n = 8 => calibrated' = "period"
    /\ OneZero' = OneZero
    /\ OneZero => handlers'[CLOCK] \in {handlers[CLOCK], "clock"} \/ (c = BSP /\ n = 11)
    /\ c = BSP /\ n = 6 => handlers'[CLOCK] = "clock"
    /\ go' = go \/ (c = BSP /\ n = 3)
    /\ \A d \in Cores : d # c => ticr'[d] = ticr[d]
    /\ ticr'[c] \in {ticr[c], "period"} \/ n = IF c = BSP THEN 9 ELSE 5
    /\ n = (IF c = BSP THEN 7 ELSE 4) => ticr'[c] = "period"
    /\ n = (IF c = BSP THEN 5 ELSE 3) => c \in task'

LEMMA OneLess ==
    ASSUME NEW n \in Nat
    PROVE  /\ n - 1 <= 7 => n <= 7 \/ n = 8
           /\ n - 1 <= 5 => n <= 5 \/ n = 6
           /\ n <= 2 \/ n = 3 => n - 1 <= 2
           /\ n <= 5 => n # 11
  OBVIOUS

(* A call in its turn keeps what is prepared. *)
LEMMA Moves ==
    ASSUME IInv, Ahead, NEW c \in Cores, NEW s \in (Booting \ {"parked"}) \cup {"run"},
           NEW n \in Nat, n = Len(boot[c]), Turn(c, n),
           at[c] = "boot", boot[c] # <<>>, boot' = [boot EXCEPT ![c] = Tail(@)],
           at' = [at EXCEPT ![c] = s], s = "run" => n = 1,
           Values'
    PROVE  Ahead'
<1> USE CoreAssumption
<1>1. /\ InOrder'
      /\ n \in Nat \ {0} /\ Len(boot'[c]) = n - 1
      /\ \A d \in Cores : d # c => boot'[d] = boot[d]
      /\ \A d \in Cores : Len(boot[d]) \in Nat /\ Len(boot'[d]) \in Nat
  BY TakenInOrder DEF Ahead
<1>2. \A d \in Cores : at'[d] = IF d = c THEN s ELSE at[d]
  BY DEF IInv, Shape
<1>3. Shared'
  <2>1. CASE c = BSP
    <3>1. Len(boot'[BSP]) = n - 1 /\ n = Len(boot[BSP]) /\ n \in Nat
      BY <1>1, <2>1
    <3>2. /\ n <= 7 => calibrated = "period"
          /\ OneZero /\ n <= 5 => handlers[CLOCK] = "clock"
          /\ go # {} => n <= 2
      BY <3>1 DEF Ahead, Shared
    <3>a. /\ n - 1 <= 7 => n <= 7 \/ n = 8
          /\ n - 1 <= 5 => n <= 5 \/ n = 6
          /\ n <= 2 \/ n = 3 => n - 1 <= 2
          /\ n <= 5 => n # 11
      BY OneLess, Zenon
    <3>3. n - 1 <= 7 => calibrated' = "period"
      BY <2>1, <3>2, <3>a, Zenon DEF Turn
    <3>4. OneZero /\ n - 1 <= 5 => handlers'[CLOCK] = "clock"
      <4>1. n = 6 => handlers'[CLOCK] = "clock"
        BY <2>1, Zenon DEF Turn
      <4>2. OneZero /\ n <= 5 => handlers'[CLOCK] = "clock"
        BY <3>2, <3>a, Zenon DEF Turn
      <4> QED
        BY <3>a, <4>1, <4>2, Zenon
    <3>5. go' # {} => n - 1 <= 2
      BY <2>1, <3>2, <3>a, Zenon DEF Turn
    <3>6. OneZero' = OneZero
      BY DEF Turn
    <3> QED
      BY <3>1, <3>3, <3>4, <3>5, <3>6 DEF Shared
  <2>2. CASE c # BSP
    BY <1>1, <2>2 DEF Ahead, Shared, Turn
  <2> QED
    BY <2>1, <2>2
<1>4. Own(c)'
  <2>1. Own(c) /\ s # "parked" /\ s \notin Handling /\ s # "stuck"
    BY DEF Ahead, Booting, Handling
  <2>2. at'[c] = s
    BY <1>2
  <2>3. Len(boot'[c]) <= (IF c = BSP THEN 6 ELSE 3) => ticr'[c] = "period"
    BY <1>1, <2>1 DEF Own, Turn
  <2>4. Len(boot'[c]) <= (IF c = BSP THEN 4 ELSE 2) => c \in task'
    BY <1>1, <2>1 DEF Own, Turn
  <2>5. c # BSP => c \in go'
    BY <2>1 DEF Own, Turn
  <2>6. s = "run" => Len(boot'[c]) = 0
    BY <1>1
  <2> QED
    BY <2>1, <2>2, <2>3, <2>4, <2>5, <2>6 DEF Own
<1>5. ASSUME NEW d \in Cores, d # c PROVE Own(d)'
  BY <1>1, <1>2, <1>5 DEF Ahead, Own, Turn
<1> QED
  BY <1>1, <1>3, <1>4, <1>5 DEF Ahead

(* A step that makes no call. *)
LEMMA Stays ==
    ASSUME IInv, Ahead, NEW c \in Cores, NEW s, at' = [at EXCEPT ![c] = s],
           UNCHANGED <<boot, calibrated, handlers, task, go, ticr, firmware>>,
           Values',
           s \in Handling \cup {"run", "stuck"} => at[c] \in Handling \cup {"run", "stuck"},
           at[c] = "parked" => c \in go
    PROVE  Ahead'
<1>1. \A d \in Cores : at'[d] = IF d = c THEN s ELSE at[d]
  BY DEF IInv, Shape
<1>2. InOrder' /\ Shared'
  <2>1. OneZero' = OneZero
    BY DEF OneZero, fills
  <2> QED
    BY <2>1 DEF Ahead, InOrder, Shared, Plan
<1>3. ASSUME NEW d \in Cores PROVE Own(d)'
  BY <1>1 DEF Ahead, Own
<1> QED
  BY <1>2, <1>3 DEF Ahead

(* A call finds the core in its boot and comes in its place. *)
LEMMA Called ==
    ASSUME IInv, Ahead, NEW c \in Cores, NEW name, NEW s, Call(c, name, s)
    PROVE  LET n == Len(boot[c])
           IN /\ n \in Nat /\ at[c] = "boot" /\ boot[c] # <<>>
              /\ boot' = [boot EXCEPT ![c] = Tail(@)] /\ at' = [at EXCEPT ![c] = s]
              /\ UNCHANGED <<firmware, frames, taken, irr>>
              /\ name = "idt"       => n = IF c = BSP THEN 11 ELSE 6
              /\ name = "acpi"      => c = BSP /\ n = 10
              /\ name = "lvt"       => n = IF c = BSP THEN 9 ELSE 5
              /\ name = "calibrate" => c = BSP /\ n = 8
              /\ name = "timer"     => n = IF c = BSP THEN 7 ELSE 4
              /\ name = "clock"     => c = BSP /\ n = 6
              /\ name = "task"      => n = IF c = BSP THEN 5 ELSE 3
              /\ name = "syscall"   => n = IF c = BSP THEN 4 ELSE 2
              /\ name = "smp"       => c = BSP /\ n = 3
              /\ name = "modules"   => c = BSP /\ n = 2
              /\ name = "sti"       => n = 1
<1>1. /\ at[c] = "boot" /\ boot[c] # <<>> /\ name = Head(boot[c])
      /\ boot' = [boot EXCEPT ![c] = Tail(@)] /\ at' = [at EXCEPT ![c] = s]
      /\ UNCHANGED <<firmware, frames, taken, irr>>
  BY DEF Call, Go, request
<1>2. boot[c] \in Seq(Calls)
  BY DEF IInv, Shape
<1>3. Len(boot[c]) \in Nat
  BY <1>2
<1>4. InOrder
  BY DEF Ahead
<1> QED
  BY <1>1, <1>3, <1>4, Places, Zenon

(* The calls of the boot, each in its place. *)
LEMMA CallAhead ==
    ASSUME IInv, Ahead, NEW c \in Cores,
           \/ Idt(c) \/ Acpi(c) \/ Lvt(c) \/ Calibrate(c) \/ Timer(c) \/ Clock(c) \/ Task(c)
           \/ Committed(c) \/ Syscall(c) \/ Smp(c) \/ Modules(c) \/ Sti(c)
    PROVE  Ahead'
<1> DEFINE n == Len(boot[c])
           Kinds == {None, "general", "fault", "clock", "error", "spurious", "syscall"}
<1>1. /\ CLOCK \in Vectors /\ CLOCK # APIC_ERROR /\ CLOCK # APIC_SPURIOUS /\ CLOCK # SYSCALL
      /\ APIC_ERROR # APIC_SPURIOUS /\ {APIC_ERROR, APIC_SPURIOUS, SYSCALL} \subseteq Vectors
  BY DEF CLOCK, APIC_ERROR, APIC_SPURIOUS, SYSCALL, Vectors
<1>2. /\ "boot" \in (Booting \ {"parked"}) \cup {"run"} /\ "route" \in (Booting \ {"parked"}) \cup {"run"}
      /\ "main" \in (Booting \ {"parked"}) \cup {"run"} /\ "wake_up" \in (Booting \ {"parked"}) \cup {"run"}
      /\ "run" \in (Booting \ {"parked"}) \cup {"run"}
  BY DEF Booting
<1>3. /\ firmware \in Firmwares /\ handlers \in [Vectors -> Kinds]
      /\ ticr \in [Cores -> {"off", "max", "zero", "period"}] /\ calibrated \in {"zero", "period"}
      /\ task \subseteq Cores /\ go \subseteq Cores
      /\ irr \in [Cores -> BOOLEAN] /\ taken \in [Cores -> Vectors \cup {0}]
      /\ \A d \in Cores : \A k \in 1 .. Len(frames[d]) : frames[d][k][2] \in Vectors \cup {0}
  BY DEF Ahead, Values
<1>4. CASE Idt(c)
  <2>1. Call(c, "idt", "boot")
    BY <1>4 DEF Idt
  <2>2. /\ n \in Nat /\ n = IF c = BSP THEN 11 ELSE 6
        /\ at[c] = "boot" /\ boot[c] # <<>> /\ boot' = [boot EXCEPT ![c] = Tail(@)]
        /\ at' = [at EXCEPT ![c] = "boot"]
        /\ UNCHANGED <<firmware, frames, taken, irr>>
    BY <2>1, Called
  <2>z. OneZero' = OneZero
    BY <2>2 DEF OneZero, fills
  <2>3. UNCHANGED <<ticr, calibrated, task, go>> /\ handlers' = (IF fills(c) THEN Gates ELSE handlers)
    BY <1>4 DEF Idt, kernel
  <2>4. handlers' \in [Vectors -> Kinds] /\ (OneZero => handlers' = handlers \/ c = BSP)
    <3>1. OneZero => (fills(c) => c = BSP)
      BY DEF OneZero
    <3>2. Gates \in [Vectors -> Kinds]
      BY DEF Gates
    <3> QED
      BY <1>3, <2>3, <3>1, <3>2
  <2>5. Values'
    BY <1>3, <2>2, <2>3, <2>4, CoreAssumption DEF Values
  <2>6. Turn(c, n)
    BY <1>3, <2>2, <2>3, <2>4, <2>z, CoreAssumption DEF Turn
  <2> QED
    BY <1>2, <2>2, <2>5, <2>6, Moves
<1>5. CASE Acpi(c)
  <2>1. Call(c, "acpi", "boot")
    BY <1>5 DEF Acpi
  <2>2. /\ n \in Nat /\ c = BSP /\ n = 10
        /\ at[c] = "boot" /\ boot[c] # <<>> /\ boot' = [boot EXCEPT ![c] = Tail(@)]
        /\ at' = [at EXCEPT ![c] = "boot"]
        /\ UNCHANGED <<firmware, frames, taken, irr>>
    BY <2>1, Called
  <2>z. OneZero' = OneZero
    BY <2>2 DEF OneZero, fills
  <2>3. UNCHANGED <<ticr, calibrated, handlers, task, go>>
    BY <1>5 DEF Acpi, kernel
  <2>4. handlers' \in [Vectors -> Kinds]
    BY <1>3, <2>3
  <2>5. Values'
    BY <1>3, <2>2, <2>3, <2>4, CoreAssumption DEF Values
  <2>6. Turn(c, n)
    BY <1>3, <2>2, <2>3, <2>4, <2>z, CoreAssumption DEF Turn
  <2> QED
    BY <1>2, <2>2, <2>5, <2>6, Moves
<1>6. CASE Lvt(c)
  <2>1. Call(c, "lvt", "boot")
    BY <1>6 DEF Lvt
  <2>2. /\ n \in Nat /\ n = IF c = BSP THEN 9 ELSE 5
        /\ at[c] = "boot" /\ boot[c] # <<>> /\ boot' = [boot EXCEPT ![c] = Tail(@)]
        /\ at' = [at EXCEPT ![c] = "boot"]
        /\ UNCHANGED <<firmware, frames, taken, irr>>
    BY <2>1, Called
  <2>z. OneZero' = OneZero
    BY <2>2 DEF OneZero, fills
  <2>3. ticr' = [ticr EXCEPT ![c] = "max"] /\ UNCHANGED <<calibrated, task, go>>
    BY <1>6 DEF Lvt, kernel
  <2>4. handlers' \in [Vectors -> Kinds] /\ handlers'[CLOCK] = handlers[CLOCK]
    <3>1. handlers' = [[handlers EXCEPT ![APIC_SPURIOUS] = "spurious"] EXCEPT ![APIC_ERROR] = "error"]
      BY <1>6 DEF Lvt, register_handle
    <3> QED
      BY <1>1, <1>3, <3>1
  <2>5. Values'
    BY <1>3, <2>2, <2>3, <2>4, CoreAssumption DEF Values
  <2>6. Turn(c, n)
    BY <1>3, <2>2, <2>3, <2>4, <2>z, CoreAssumption DEF Turn
  <2> QED
    BY <1>2, <2>2, <2>5, <2>6, Moves
<1>7. CASE Calibrate(c)
  <2>1. Call(c, "calibrate", "boot")
    BY <1>7 DEF Calibrate
  <2>2. /\ n \in Nat /\ c = BSP /\ n = 8
        /\ at[c] = "boot" /\ boot[c] # <<>> /\ boot' = [boot EXCEPT ![c] = Tail(@)]
        /\ at' = [at EXCEPT ![c] = "boot"]
        /\ UNCHANGED <<firmware, frames, taken, irr>>
    BY <2>1, Called
  <2>z. OneZero' = OneZero
    BY <2>2 DEF OneZero, fills
  <2>3. calibrated' = "period" /\ UNCHANGED <<ticr, handlers, task, go>>
    BY <1>7 DEF Calibrate, kernel
  <2>4. handlers' \in [Vectors -> Kinds]
    BY <1>3, <2>3
  <2>5. Values'
    BY <1>3, <2>2, <2>3, <2>4, CoreAssumption DEF Values
  <2>6. Turn(c, n)
    BY <1>3, <2>2, <2>3, <2>4, <2>z, CoreAssumption DEF Turn
  <2> QED
    BY <1>2, <2>2, <2>5, <2>6, Moves
<1>8. CASE Timer(c)
  <2>1. Call(c, "timer", "boot")
    BY <1>8 DEF Timer
  <2>2. /\ n \in Nat /\ n = IF c = BSP THEN 7 ELSE 4
        /\ at[c] = "boot" /\ boot[c] # <<>> /\ boot' = [boot EXCEPT ![c] = Tail(@)]
        /\ at' = [at EXCEPT ![c] = "boot"]
        /\ UNCHANGED <<firmware, frames, taken, irr>>
    BY <2>1, Called
  <2>z. OneZero' = OneZero
    BY <2>2 DEF OneZero, fills
  <2>3. ticr' = [ticr EXCEPT ![c] = calibrated] /\ UNCHANGED <<calibrated, handlers, task, go>>
    BY <1>8 DEF Timer, kernel
  <2>4. handlers' \in [Vectors -> Kinds]
    BY <1>3, <2>3
  <2>t. calibrated = "period"
    <3>1. Own(c) /\ Shared
      BY DEF Ahead
    <3>2. CASE c = BSP
      <4>1. n <= 7 /\ n = Len(boot[BSP])
        BY <2>2, <3>2 DEF n
      <4> QED
        BY <3>1, <4>1 DEF Shared
    <3>3. CASE c # BSP
      <4>1. c \in go
        BY <2>2, <3>1, <3>3 DEF Own
      <4>2. Len(boot[BSP]) \in Nat
        BY CoreAssumption DEF IInv, Shape
      <4> QED
        BY <3>1, <4>1, <4>2 DEF Shared
    <3> QED
      BY <3>2, <3>3
  <2>5. Values'
    BY <1>3, <2>2, <2>3, <2>4, <2>t, CoreAssumption DEF Values
  <2>6. Turn(c, n)
    BY <1>3, <2>2, <2>3, <2>4, <2>z, <2>t, CoreAssumption DEF Turn
  <2> QED
    BY <1>2, <2>2, <2>5, <2>6, Moves
<1>9. CASE Clock(c)
  <2>1. Call(c, "clock", "route")
    BY <1>9 DEF Clock
  <2>2. /\ n \in Nat /\ c = BSP /\ n = 6
        /\ at[c] = "boot" /\ boot[c] # <<>> /\ boot' = [boot EXCEPT ![c] = Tail(@)]
        /\ at' = [at EXCEPT ![c] = "route"]
        /\ UNCHANGED <<firmware, frames, taken, irr>>
    BY <2>1, Called
  <2>z. OneZero' = OneZero
    BY <2>2 DEF OneZero, fills
  <2>3. UNCHANGED <<ticr, calibrated, task, go>>
    BY <1>9 DEF Clock, kernel
  <2>4. handlers' \in [Vectors -> Kinds] /\ handlers'[CLOCK] = "clock"
    <3>1. handlers' = [handlers EXCEPT ![CLOCK] = "clock"]
      BY <1>9 DEF Clock, register_handle
    <3> QED
      BY <1>1, <1>3, <3>1
  <2>5. Values'
    BY <1>3, <2>2, <2>3, <2>4, CoreAssumption DEF Values
  <2>6. Turn(c, n)
    BY <1>3, <2>2, <2>3, <2>4, <2>z, CoreAssumption DEF Turn
  <2> QED
    BY <1>2, <2>2, <2>5, <2>6, Moves
<1>10. CASE Task(c)
  <2>1. Call(c, "task", "boot")
    BY <1>10 DEF Task
  <2>2. /\ n \in Nat /\ n = IF c = BSP THEN 5 ELSE 3
        /\ at[c] = "boot" /\ boot[c] # <<>> /\ boot' = [boot EXCEPT ![c] = Tail(@)]
        /\ at' = [at EXCEPT ![c] = "boot"]
        /\ UNCHANGED <<firmware, frames, taken, irr>>
    BY <2>1, Called
  <2>z. OneZero' = OneZero
    BY <2>2 DEF OneZero, fills
  <2>3. task' = task \cup {c} /\ UNCHANGED <<ticr, calibrated, handlers, go>>
    BY <1>10 DEF Task, kernel
  <2>4. handlers' \in [Vectors -> Kinds]
    BY <1>3, <2>3
  <2>5. Values'
    BY <1>3, <2>2, <2>3, <2>4, CoreAssumption DEF Values
  <2>6. Turn(c, n)
    BY <1>3, <2>2, <2>3, <2>4, <2>z, CoreAssumption DEF Turn
  <2> QED
    BY <1>2, <2>2, <2>5, <2>6, Moves
<1>11. CASE Committed(c)
  <2>1. Call(c, "syscall", "main")
    BY <1>11 DEF Committed
  <2>2. /\ n \in Nat /\ n = IF c = BSP THEN 4 ELSE 2
        /\ at[c] = "boot" /\ boot[c] # <<>> /\ boot' = [boot EXCEPT ![c] = Tail(@)]
        /\ at' = [at EXCEPT ![c] = "main"]
        /\ UNCHANGED <<firmware, frames, taken, irr>>
    BY <2>1, Called
  <2>z. OneZero' = OneZero
    BY <2>2 DEF OneZero, fills
  <2>3. UNCHANGED <<ticr, calibrated, handlers, task, go>>
    BY <1>11 DEF Committed, kernel
  <2>4. handlers' \in [Vectors -> Kinds]
    BY <1>3, <2>3
  <2>5. Values'
    BY <1>3, <2>2, <2>3, <2>4, CoreAssumption DEF Values
  <2>6. Turn(c, n)
    BY <1>3, <2>2, <2>3, <2>4, <2>z, CoreAssumption DEF Turn
  <2> QED
    BY <1>2, <2>2, <2>5, <2>6, Moves
<1>12. CASE Syscall(c)
  <2>1. Call(c, "syscall", "route")
    BY <1>12 DEF Syscall
  <2>2. /\ n \in Nat /\ n = IF c = BSP THEN 4 ELSE 2
        /\ at[c] = "boot" /\ boot[c] # <<>> /\ boot' = [boot EXCEPT ![c] = Tail(@)]
        /\ at' = [at EXCEPT ![c] = "route"]
        /\ UNCHANGED <<firmware, frames, taken, irr>>
    BY <2>1, Called
  <2>z. OneZero' = OneZero
    BY <2>2 DEF OneZero, fills
  <2>3. UNCHANGED <<ticr, calibrated, task, go>>
    BY <1>12 DEF Syscall, kernel
  <2>4. handlers' \in [Vectors -> Kinds] /\ handlers'[CLOCK] = handlers[CLOCK]
    <3>1. handlers' = [handlers EXCEPT ![SYSCALL] = "syscall"]
      BY <1>12 DEF Syscall, register_handle
    <3> QED
      BY <1>1, <1>3, <3>1
  <2>5. Values'
    BY <1>3, <2>2, <2>3, <2>4, CoreAssumption DEF Values
  <2>6. Turn(c, n)
    BY <1>3, <2>2, <2>3, <2>4, <2>z, CoreAssumption DEF Turn
  <2> QED
    BY <1>2, <2>2, <2>5, <2>6, Moves
<1>13. CASE Smp(c)
  <2>1. Call(c, "smp", "boot")
    BY <1>13 DEF Smp
  <2>2. /\ n \in Nat /\ c = BSP /\ n = 3
        /\ at[c] = "boot" /\ boot[c] # <<>> /\ boot' = [boot EXCEPT ![c] = Tail(@)]
        /\ at' = [at EXCEPT ![c] = "boot"]
        /\ UNCHANGED <<firmware, frames, taken, irr>>
    BY <2>1, Called
  <2>z. OneZero' = OneZero
    BY <2>2 DEF OneZero, fills
  <2>3. go' = Cores \ {BSP} /\ UNCHANGED <<ticr, calibrated, handlers, task>>
    BY <1>13 DEF Smp, kernel
  <2>4. handlers' \in [Vectors -> Kinds]
    BY <1>3, <2>3
  <2>t. go = {}
    <3>1. go # {} => Len(boot[BSP]) <= 2
      BY DEF Ahead, Shared
    <3>2. Len(boot[BSP]) = 3
      BY <2>2 DEF n
    <3> QED
      BY <3>1, <3>2
  <2>5. Values'
    BY <1>3, <2>2, <2>3, <2>4, <2>t, CoreAssumption DEF Values
  <2>6. Turn(c, n)
    BY <1>3, <2>2, <2>3, <2>4, <2>z, <2>t, CoreAssumption DEF Turn
  <2> QED
    BY <1>2, <2>2, <2>5, <2>6, Moves
<1>14. CASE Modules(c)
  <2>1. Call(c, "modules", "wake_up")
    BY <1>14 DEF Modules
  <2>2. /\ n \in Nat /\ c = BSP /\ n = 2
        /\ at[c] = "boot" /\ boot[c] # <<>> /\ boot' = [boot EXCEPT ![c] = Tail(@)]
        /\ at' = [at EXCEPT ![c] = "wake_up"]
        /\ UNCHANGED <<firmware, frames, taken, irr>>
    BY <2>1, Called
  <2>z. OneZero' = OneZero
    BY <2>2 DEF OneZero, fills
  <2>3. UNCHANGED <<ticr, calibrated, handlers, task, go>>
    BY <1>14 DEF Modules, kernel
  <2>4. handlers' \in [Vectors -> Kinds]
    BY <1>3, <2>3
  <2>5. Values'
    BY <1>3, <2>2, <2>3, <2>4, CoreAssumption DEF Values
  <2>6. Turn(c, n)
    BY <1>3, <2>2, <2>3, <2>4, <2>z, CoreAssumption DEF Turn
  <2> QED
    BY <1>2, <2>2, <2>5, <2>6, Moves
<1>15. CASE Sti(c)
  <2>1. Call(c, "sti", (IF n = 1 THEN "run" ELSE "boot"))
    BY <1>15 DEF Sti
  <2>2. /\ n \in Nat /\ n = 1
        /\ at[c] = "boot" /\ boot[c] # <<>> /\ boot' = [boot EXCEPT ![c] = Tail(@)]
        /\ at' = [at EXCEPT ![c] = (IF n = 1 THEN "run" ELSE "boot")]
        /\ UNCHANGED <<firmware, frames, taken, irr>>
    BY <2>1, Called
  <2>z. OneZero' = OneZero
    BY <2>2 DEF OneZero, fills
  <2>3. UNCHANGED <<ticr, calibrated, handlers, task, go>>
    BY <1>15 DEF Sti, kernel
  <2>4. handlers' \in [Vectors -> Kinds]
    BY <1>3, <2>3
  <2>5. Values'
    BY <1>3, <2>2, <2>3, <2>4, CoreAssumption DEF Values
  <2>6. Turn(c, n)
    BY <1>3, <2>2, <2>3, <2>4, <2>z, CoreAssumption DEF Turn
  <2> QED
    BY <1>2, <2>2, <2>5, <2>6, Moves
<1> QED
  BY <1>4, <1>5, <1>6, <1>7, <1>8, <1>9, <1>10, <1>11, <1>12, <1>13, <1>14, <1>15

(* An access of register_ioapic, a release from the waiting loop, and the two
   steps of wake_up. *)
LEMMA WaitAhead ==
    ASSUME IInv, Ahead, NEW c \in Cores, Route(c) \/ Parked(c) \/ WakeUp(c)
    PROVE  Ahead'
<1>1. PICK s \in Booting : at' = [at EXCEPT ![c] = s]
  <2>1. CASE UNCHANGED at /\ at[c] = "route"
    <3>1. at' = [at EXCEPT ![c] = "route"] /\ "route" \in Booting
      BY <2>1 DEF IInv, Shape, Booting
    <3> QED
      BY <3>1
  <2> QED
    BY <2>1 DEF Route, Register, Parked, WakeUp, Lock, Unlock, Step, Go, Booting
<1>2. UNCHANGED <<boot, calibrated, handlers, task, go, ticr, firmware, frames, taken, irr>>
  BY DEF Route, Parked, WakeUp, Lock, Unlock, Step, kernel, request
<1>3. Values'
  BY <1>2 DEF Ahead, Values
<1>4. at[c] = "parked" => c \in go
  BY DEF Route, Register, Parked, WakeUp, Lock, Unlock, Step
<1>5. s \notin Handling \cup {"run", "stuck"}
  BY DEF Booting, Handling
<1> QED
  BY <1>1, <1>2, <1>3, <1>4, <1>5, Stays

(* What interrupts find, and their way. *)
LEMMA InterruptAhead ==
    ASSUME IInv, Ahead, NEW c \in Cores,
           Interrupt(c) \/ Deliver(c) \/ Fault(c) \/ Spurious(c)
    PROVE  Ahead'
<1> DEFINE Late == Handling \cup {"run", "stuck"}
<1>1. at[c] \in Late
  BY DEF Interrupt, Stub, do_IRQ, Eoi, Handler, Iret, Lock, Unlock, Step,
         Deliver, Fault, Spurious, Handling, IInv, WhereEnabled
<1>2. frames[c] \in Seq({"run", "stub"} \X Nat)
  BY DEF IInv, Shape
<1>3. UNCHANGED <<boot, calibrated, handlers, task, go, ticr, firmware>>
  BY DEF Interrupt, Stub, do_IRQ, Eoi, Handler, Iret, Lock, Unlock, Step,
         Deliver, Fault, Spurious, Enter, kernel
<1>4. PICK s : at' = [at EXCEPT ![c] = s]
  BY DEF Interrupt, Stub, do_IRQ, Eoi, Handler, Iret, Lock, Unlock, Step,
         Deliver, Fault, Spurious, Enter, Go
<1>5. at[c] # "parked"
  BY <1>1 DEF Handling
<1>6. CASE Iret(c)
  <2>1. /\ taken' = [taken EXCEPT ![c] = Head(frames[c])[2]]
        /\ frames' = [frames EXCEPT ![c] = Tail(@)]
        /\ at[c] = "iret" /\ irr' = irr
    BY <1>6 DEF Iret, Step
  <2>2. frames[c] # <<>>
    BY <2>1 DEF IInv, FrameOfTask, Handling
  <2>3. Head(frames[c]) = frames[c][1] /\ 1 \in 1 .. Len(frames[c])
    BY <1>2, <2>2, HeadPlace
  <2>4. /\ Len(frames[c]) \in Nat \ {0} /\ Len(Tail(frames[c])) = Len(frames[c]) - 1
        /\ \A k \in 1 .. Len(Tail(frames[c])) : Tail(frames[c])[k] = frames[c][k + 1]
    BY <1>2, <2>2, TailPlaces
  <2>5. /\ taken \in [Cores -> Vectors \cup {0}] /\ irr \in [Cores -> BOOLEAN]
        /\ \A d \in Cores : \A k \in 1 .. Len(frames[d]) : frames[d][k][2] \in Vectors \cup {0}
    BY DEF Ahead, Values
  <2>6. taken' \in [Cores -> Vectors \cup {0}]
    BY <2>1, <2>3, <2>5
  <2>7. ASSUME NEW d \in Cores, NEW k \in 1 .. Len(frames'[d])
        PROVE  frames'[d][k][2] \in Vectors \cup {0}
    <3>1. CASE d # c
      <4>1. frames'[d] = frames[d]
        BY <2>1, <3>1 DEF IInv, Shape
      <4> QED
        BY <2>5, <4>1
    <3>2. CASE d = c
      <4>1. frames'[c] = Tail(frames[c])
        BY <2>1 DEF IInv, Shape
      <4>2. k + 1 \in 1 .. Len(frames[c]) /\ frames'[c][k] = frames[c][k + 1]
        BY <2>4, <3>2, <4>1
      <4> QED
        BY <2>5, <3>2, <4>2
    <3> QED
      BY <3>1, <3>2
  <2> QED
    BY <1>1, <1>3, <1>4, <1>5, <2>1, <2>5, <2>6, <2>7, Stays DEF Ahead, Values
<1>7. CASE ~ Iret(c)
  <2>1. Values'
    <3>1. taken' \in [Cores -> Vectors \cup {0}] /\ irr' \in [Cores -> BOOLEAN]
      BY <1>7 DEF Interrupt, Stub, do_IRQ, Eoi, Handler, Lock, Unlock, Step,
                  Deliver, Fault, Spurious, Enter, Ahead, Values, Vectors
    <3>2. ASSUME NEW d \in Cores, NEW k \in 1 .. Len(frames'[d])
          PROVE  frames'[d][k][2] \in Vectors \cup {0}
      <4>1. CASE frames' = frames
        BY <4>1 DEF Ahead, Values
      <4>2. CASE frames' = [frames EXCEPT ![c] = <<<<at[c], taken[c]>>>> \o @]
        <5>1. CASE d # c
          <6>1. frames'[d] = frames[d]
            BY <4>2, <5>1 DEF IInv, Shape
          <6> QED
            BY <6>1 DEF Ahead, Values
        <5>2. CASE d = c
          <6>1. frames'[c] = <<<<at[c], taken[c]>>>> \o frames[c] /\ taken[c] \in Vectors \cup {0}
            BY <4>2 DEF IInv, Shape, Ahead, Values
          <6>2. <<at[c], taken[c]>> \in {"run", "stub"} \X Nat
            <7>1. frames' # frames
              BY <1>2, <6>1
            <7>2. at[c] \in {"run", "stub"}
              BY <1>7, <7>1 DEF Interrupt, Stub, do_IRQ, Eoi, Handler, Lock, Unlock, Step,
                  Deliver, Fault, Spurious, IInv, WhereEnabled
            <7> QED
              BY <7>2 DEF IInv, Shape
          <6>3. /\ Len(frames[c]) \in Nat /\ Len(frames'[c]) = Len(frames[c]) + 1
                /\ frames'[c][1] = <<at[c], taken[c]>>
                /\ \A j \in 1 .. Len(frames[c]) : frames'[c][j + 1] = frames[c][j]
            BY <1>2, <6>1, <6>2, ConsPlaces, SMTT(40)
          <6>4. CASE k = 1
            BY <5>2, <6>1, <6>3, <6>4
          <6>5. CASE k # 1
            <7>1. k - 1 \in 1 .. Len(frames[c]) /\ k = (k - 1) + 1
              BY <5>2, <6>3, <6>5
            <7>2. frames'[c][k] = frames[c][k - 1]
              BY <6>3, <7>1
            <7>3. frames[c][k - 1][2] \in Vectors \cup {0}
              BY <7>1 DEF Ahead, Values
            <7> QED
              BY <5>2, <7>2, <7>3
          <6> QED
            BY <6>4, <6>5
        <5> QED
          BY <5>1, <5>2
      <4> QED
        BY <1>7, <4>1, <4>2 DEF Interrupt, Stub, do_IRQ, Eoi, Handler, Lock, Unlock, Step,
                                Deliver, Fault, Spurious, Enter
    <3> QED
      BY <1>3, <3>1, <3>2 DEF Ahead, Values
  <2> QED
    BY <1>1, <1>3, <1>4, <1>5, <2>1, Stays
<1> QED
  BY <1>6, <1>7

LEMMA StepAhead == IInv /\ Ahead /\ [Next]_vars => Ahead'
<1> SUFFICES ASSUME IInv, Ahead, [Next]_vars PROVE Ahead'
  OBVIOUS
<1>1. ASSUME NEW c \in Cores, Boot(c) PROVE Ahead'
  BY <1>1, CallAhead, WaitAhead DEF Boot
<1>2. ASSUME NEW c \in Cores, WakeUp(c) PROVE Ahead'
  BY <1>2, WaitAhead
<1>3. ASSUME NEW c \in Cores, Interrupt(c) \/ Deliver(c) \/ Fault(c) \/ Spurious(c) PROVE Ahead'
  BY <1>3, InterruptAhead
<1>4. ASSUME NEW c \in Cores, Tick(c) PROVE Ahead'
  <2>1. irr' \in [Cores -> BOOLEAN]
    BY <1>4 DEF Tick, Ahead, Values
  <2> QED
    BY <1>4, <2>1 DEF Tick, kernel, Ahead, InOrder, Plan, Values, Shared, Own, OneZero, fills
<1>5. CASE UNCHANGED vars
  BY <1>5 DEF vars, request, kernel, Ahead, InOrder, Plan, Values, Shared, Own, OneZero, fills
<1> QED
  BY <1>1, <1>2, <1>3, <1>4, <1>5 DEF Next, Run

(* Whatever the order in which the cores boot, and whatever interrupts come:
   a tick that is handled finds a running task on its core's queue and, where
   no core but the boot processor has the number 0, the clock's handler
   registered, and a task runs under a timer that the boot processor's
   calibration gave its count. *)
THEOREM BootsInOrder == Spec => []BootIsPrepared
<1>1. Init => IInv /\ Ahead
  BY InitInv, InitAhead
<1>2. IInv /\ Ahead /\ [Next]_vars => (IInv /\ Ahead)'
  BY StepInv, StepAhead
<1>3. IInv /\ Ahead => BootIsPrepared
  BY Prepared
<1> QED
  BY <1>1, <1>2, <1>3, PTL DEF Spec
-----------------------------------------------------------------------------
(* The image of a file *)

LEMMA LeastNat ==
    ASSUME NEW T \in SUBSET Nat, T # {}
    PROVE  \E x \in T : \A y \in T : x <= y
<1> DEFINE Less == OpToRel(<, Nat)
<1>1. PICK x \in T : \A y \in T : ~ (<<y, x>> \in Less)
  <2> HIDE DEF Less
  <2>1. IsWellFoundedOn(Less, Nat)
    BY NatLessThanWellFounded DEF Less
  <2> QED
    BY <2>1, WFMin
<1>2. \A y \in T : ~ (y < x)
  BY <1>1 DEF OpToRel
<1> HIDE DEF Less
<1>3. \A y \in T : y \in Nat /\ x \in Nat
  OBVIOUS
<1>4. \A y \in T : x <= y
  BY <1>2, <1>3
<1> QED
  BY <1>4

(* A sequence of numbers has an upper bound: if not, take the first place up
   to which it has none. *)
LEMMA Bounded ==
    ASSUME NEW n \in Nat, NEW f, \A i \in 1 .. n : f[i] \in Nat
    PROVE  \E b \in Nat : \A i \in 1 .. n : f[i] <= b
<1> DEFINE Has(k) == \E b \in Nat : \A i \in 1 .. k : f[i] <= b
           Bad == {k \in 0 .. n : ~ Has(k)}
<1>1. Has(0)
  BY 0 \in Nat
<1>2. ASSUME NEW k \in 1 .. n, Has(k - 1) PROVE Has(k)
  <2>1. PICK b \in Nat : \A i \in 1 .. k - 1 : f[i] <= b
    BY <1>2
  <2>2. PICK m \in Nat : m >= b /\ m >= f[k]
    <3>1. f[k] \in Nat
      OBVIOUS
    <3>2. (IF b >= f[k] THEN b ELSE f[k]) \in Nat
      BY <3>1
    <3> QED
      BY <3>1, <3>2
  <2>3. \A i \in 1 .. k : f[i] <= m
    BY <2>1, <2>2
  <2> QED
    BY <2>3
<1>3. Bad = {}
  <2> SUFFICES ASSUME Bad # {} PROVE FALSE
    OBVIOUS
  <2> HIDE DEF Has
  <2>1. Bad \in SUBSET Nat
    OBVIOUS
  <2>2. PICK k \in Bad : \A j \in Bad : k <= j
    <3> HIDE DEF Bad
    <3> QED
      BY <2>1, LeastNat
  <2>3. k \in 1 .. n /\ k - 1 \in 0 .. n
    BY <1>1, <2>2
  <2>4. Has(k - 1)
    BY <2>2, <2>3
  <2> QED
    BY <1>2, <2>2, <2>3, <2>4
<1> QED
  BY <1>3

LEMMA Least ==
    ASSUME NEW T \in SUBSET Nat, T # {}
    PROVE  E!Min(T) \in T /\ \A y \in T : E!Min(T) <= y
<1>1. \E x \in T : \A y \in T : x <= y
  BY LeastNat
<1> QED
  BY <1>1 DEF E!Min

LEMMA Greatest ==
    ASSUME NEW T \in SUBSET Nat, T # {}, NEW b \in Nat, \A y \in T : y <= b
    PROVE  E!Max(T) \in T /\ \A y \in T : E!Max(T) >= y
<1> DEFINE Over == {x \in Nat : \A y \in T : y <= x}
<1>1. Over \in SUBSET Nat /\ Over # {}
  OBVIOUS
<1>2. PICK x \in Over : \A z \in Over : x <= z
  <2> HIDE DEF Over
  <2> QED
    BY <1>1, LeastNat
<1>3. x \in T
  <2> SUFFICES ASSUME x \notin T PROVE FALSE
    OBVIOUS
  <2>1. \A y \in T : y < x
    BY <1>2
  <2>2. x \in Nat /\ \A y \in T : y \in Nat
    BY <1>2
  <2>3. x - 1 \in Nat
    <3>1. PICK y \in T : TRUE
      OBVIOUS
    <3> QED
      BY <2>1, <2>2, <3>1
  <2>4. \A y \in T : y <= x - 1
    BY <2>1, <2>2
  <2>5. x - 1 \in Over
    BY <2>3, <2>4
  <2> QED
    BY <1>2, <2>2, <2>5
<1>4. \E m \in T : \A y \in T : m >= y
  BY <1>2, <1>3
<1> QED
  BY <1>4 DEF E!Max

LEMMA Only ==
    ASSUME NEW x \in Nat
    PROVE  E!Max({x}) = x
  BY DEF E!Max

LEMMA Remainder ==
    ASSUME NEW P \in Nat \ {0}, NEW x \in Nat
    PROVE  x \div P \in Nat /\ x % P \in 0 .. P - 1 /\ x = (x \div P) * P + (x % P)
  OBVIOUS

\* The headers that are loaded.
Header(f, i) ==
    /\ i \in 1 .. Len(f.headers)
    /\ f.headers[i].p_vaddr \in Nat /\ f.headers[i].p_filesz \in Nat /\ f.headers[i].p_memsz \in Nat
    /\ f.headers[i].p_paddr = f.headers[i].p_vaddr /\ f.headers[i].p_filesz <= f.headers[i].p_memsz

LEMMA Headers ==
    ASSUME NEW f, E!LaidOut(f), NEW i \in E!Loads(f)
    PROVE  Header(f, i)
<1>1. i \in 1 .. Len(f.headers)
  <2>1. i \in DOMAIN f.headers
    BY DEF E!Loads
  <2>2. DOMAIN f.headers = 1 .. Len(f.headers)
    BY DEF E!LaidOut
  <2> QED
    BY <2>1, <2>2
<1> QED
  BY <1>1 DEF Header, E!LaidOut

(* Every segment lies between the lowest address and the highest one. *)
LEMMA Within ==
    ASSUME NEW f, E!LaidOut(f)
    PROVE  /\ E!low_address(f) \in Nat /\ E!high_address(f) \in Nat
           /\ E!low_address(f) <= E!high_address(f)
           /\ \A i \in E!Loads(f) :
                 /\ E!low_address(f) <= f.headers[i].p_vaddr
                 /\ f.headers[i].p_vaddr + f.headers[i].p_memsz <= E!high_address(f)
<1> DEFINE Starts == {f.headers[i].p_paddr : i \in E!Loads(f)}
           Stops == {f.headers[i].p_paddr + f.headers[i].p_memsz : i \in E!Loads(f)}
           n == Len(f.headers)
           stop == [i \in 1 .. n |-> IF i \in E!Loads(f)
                                     THEN f.headers[i].p_paddr + f.headers[i].p_memsz ELSE 0]
<1>1. \A i \in E!Loads(f) : Header(f, i)
  BY Headers
<1>2. E!Loads(f) # {} /\ n \in Nat
  BY DEF E!LaidOut
<1>3. Starts \in SUBSET Nat /\ Starts # {} /\ Stops \in SUBSET Nat /\ Stops # {}
  BY <1>1, <1>2 DEF Header
<1>4. \A i \in 1 .. n : stop[i] \in Nat
  BY <1>1 DEF Header
<1>5. PICK b \in Nat : \A i \in 1 .. n : stop[i] <= b
  <2> HIDE DEF stop, n
  <2> QED
    BY <1>2, <1>4, Bounded
<1>6. \A y \in Stops : y <= b
  BY <1>1, <1>5 DEF Header
<1>7. E!low_address(f) \in Starts /\ \A y \in Starts : E!low_address(f) <= y
  <2> HIDE DEF Starts
  <2>1. E!Min(Starts) \in Starts /\ \A y \in Starts : E!Min(Starts) <= y
    BY <1>3, Least
  <2> QED
    BY <2>1 DEF E!low_address, Starts
<1>8. E!high_address(f) \in Stops /\ \A y \in Stops : E!high_address(f) >= y
  <2> HIDE DEF Stops
  <2>1. E!Max(Stops) \in Stops /\ \A y \in Stops : E!Max(Stops) >= y
    BY <1>3, <1>6, Greatest
  <2> QED
    BY <2>1 DEF E!high_address, Stops
<1>9. \A i \in E!Loads(f) :
          /\ f.headers[i].p_vaddr \in Starts /\ f.headers[i].p_vaddr \in Nat /\ f.headers[i].p_memsz \in Nat
          /\ f.headers[i].p_vaddr + f.headers[i].p_memsz \in Stops
  BY <1>1 DEF Header
<1>10. PICK i \in E!Loads(f) : TRUE
  BY <1>2
<1> HIDE DEF Starts, Stops
<1>11. \A j \in E!Loads(f) :
          /\ E!low_address(f) <= f.headers[j].p_vaddr
          /\ f.headers[j].p_vaddr + f.headers[j].p_memsz <= E!high_address(f)
  BY <1>3, <1>7, <1>8, <1>9
<1>12. E!low_address(f) \in Nat /\ E!high_address(f) \in Nat
  BY <1>3, <1>7, <1>8
<1>13. E!low_address(f) <= E!high_address(f)
  BY <1>9, <1>10, <1>11, <1>12
<1> QED
  BY <1>11, <1>12, <1>13

(* The pages: the copy has one more than the segments need, the task's text
   has what they need. *)
LEMMA Pages ==
    ASSUME NEW P \in Nat \ {0}, NEW n \in Nat
    PROVE  /\ ((n + (P - 1)) \div P) * P \in Nat /\ n <= ((n + (P - 1)) \div P) * P
           /\ ((n \div P) + 1) * P \in Nat /\ n < ((n \div P) + 1) * P
<1> DEFINE x == n + (P - 1)
           q == x \div P
           r == x % P
           d == n \div P
           e == n % P
<1>1. x \in Nat
  OBVIOUS
<1>2. q \in Nat /\ r \in 0 .. P - 1 /\ x = q * P + r
  <2> HIDE DEF x
  <2> QED
    BY <1>1, Remainder
<1>3. d \in Nat /\ e \in 0 .. P - 1 /\ n = d * P + e
  BY Remainder
<1> HIDE DEF q, r, d, e
<1>4. q * P \in Nat /\ d * P \in Nat /\ (d + 1) * P = d * P + P
  BY <1>2, <1>3
<1>5. n <= q * P
  BY <1>2, <1>4
<1>6. n < (d + 1) * P /\ (d + 1) * P \in Nat
  BY <1>3, <1>4
<1> QED
  BY <1>4, <1>5, <1>6 DEF q, d

(* What the copy has at a place of its pages is what the file says of the address. *)
Copied(f, a) ==
    LET From == {i \in E!Loads(f) : a \in E!Bytes(f, i)} IN
    IF From = {} THEN E!Zero ELSE <<E!Max(From), a - E!Place(f, E!Max(From))>>

LEMMA CopyIsSaid ==
    ASSUME NEW f, E!LaidOut(f), NEW v \in Int
    PROVE  Copied(f, v - E!low_address(f)) = E!Said(f, v)
<1> DEFINE L == E!low_address(f)
           a == v - L
           From == {i \in E!Loads(f) : a \in E!Bytes(f, i)}
           in == {i \in E!Loads(f) : v \in E!Segment(f, i)}
<1>1. L \in Nat
  BY Within
<1>2. \A i \in E!Loads(f) :
          /\ v \in E!Segment(f, i) <=> /\ f.headers[i].p_vaddr <= v
                                       /\ v < f.headers[i].p_vaddr + f.headers[i].p_memsz
          /\ a \in E!Bytes(f, i) <=> /\ f.headers[i].p_vaddr <= v
                                     /\ v < f.headers[i].p_vaddr + f.headers[i].p_filesz
          /\ E!Place(f, i) = f.headers[i].p_vaddr - L
  <2> SUFFICES ASSUME NEW i \in E!Loads(f)
               PROVE  /\ v \in E!Segment(f, i) <=> /\ f.headers[i].p_vaddr <= v
                                                   /\ v < f.headers[i].p_vaddr + f.headers[i].p_memsz
                      /\ a \in E!Bytes(f, i) <=> /\ f.headers[i].p_vaddr <= v
                                                 /\ v < f.headers[i].p_vaddr + f.headers[i].p_filesz
                      /\ E!Place(f, i) = f.headers[i].p_vaddr - L
    OBVIOUS
  <2>1. f.headers[i].p_vaddr \in Nat /\ f.headers[i].p_filesz \in Nat /\ f.headers[i].p_memsz \in Nat
    BY Headers DEF Header
  <2>2. E!Place(f, i) = f.headers[i].p_vaddr - L
    BY DEF E!Place
  <2> HIDE DEF L
  <2>3. v \in E!Segment(f, i) <=> /\ f.headers[i].p_vaddr <= v
                                  /\ v < f.headers[i].p_vaddr + f.headers[i].p_memsz
    BY <2>1 DEF E!Segment
  <2>4. a \in E!Bytes(f, i) <=> /\ f.headers[i].p_vaddr <= v
                                /\ v < f.headers[i].p_vaddr + f.headers[i].p_filesz
    BY <1>1, <2>1, <2>2 DEF E!Bytes
  <2> QED
    BY <2>2, <2>3, <2>4 DEF L
<1>3. From \subseteq in
  <2> SUFFICES ASSUME NEW i \in E!Loads(f), a \in E!Bytes(f, i) PROVE v \in E!Segment(f, i)
    OBVIOUS
  <2>1. /\ f.headers[i].p_vaddr \in Nat /\ f.headers[i].p_filesz \in Nat /\ f.headers[i].p_memsz \in Nat
        /\ f.headers[i].p_filesz <= f.headers[i].p_memsz
    BY Headers DEF Header
  <2> HIDE DEF a
  <2> QED
    BY <1>2, <2>1
<1>4. E!Said(f, v) = IF in = {} THEN E!Zero
                     ELSE IF v - f.headers[E!Max(in)].p_vaddr < f.headers[E!Max(in)].p_filesz
                          THEN <<E!Max(in), v - f.headers[E!Max(in)].p_vaddr>> ELSE E!Zero
  BY Zenon DEF E!Said
<1>5. Copied(f, a) = IF From = {} THEN E!Zero ELSE <<E!Max(From), a - E!Place(f, E!Max(From))>>
  BY Zenon DEF Copied
<1>6. CASE in = {}
  BY <1>3, <1>4, <1>5, <1>6
<1>7. CASE in # {}
  <2>1. PICK i \in E!Loads(f) : v \in E!Segment(f, i)
    BY <1>7
  <2>2. \A j \in E!Loads(f) : v \in E!Segment(f, j) => j = i
    BY <2>1 DEF E!LaidOut
  <2>3. in = {i}
    BY <2>1, <2>2
  <2>4. i \in Nat /\ f.headers[i].p_vaddr \in Nat /\ f.headers[i].p_filesz \in Nat
    <3>1. i \in 1 .. Len(f.headers) /\ f.headers[i].p_vaddr \in Nat /\ f.headers[i].p_filesz \in Nat
      BY Headers DEF Header
    <3> QED
      BY <3>1
  <2>5. E!Max(in) = i
    BY <2>3, <2>4, Only
  <2>6. E!Said(f, v) = IF v - f.headers[i].p_vaddr < f.headers[i].p_filesz
                       THEN <<i, v - f.headers[i].p_vaddr>> ELSE E!Zero
    BY <1>4, <1>7, <2>5
  <2>7. a \in E!Bytes(f, i) <=> v - f.headers[i].p_vaddr < f.headers[i].p_filesz
    <3>1. v \in E!Segment(f, i) <=> /\ f.headers[i].p_vaddr <= v
                                    /\ v < f.headers[i].p_vaddr + f.headers[i].p_memsz
      BY <1>2
    <3>2. a \in E!Bytes(f, i) <=> /\ f.headers[i].p_vaddr <= v
                                  /\ v < f.headers[i].p_vaddr + f.headers[i].p_filesz
      BY <1>2
    <3> HIDE DEF a
    <3> QED
      BY <2>1, <2>4, <3>1, <3>2
  <2>8. CASE a \in E!Bytes(f, i)
    <3>1. From = {i}
      BY <1>3, <2>3, <2>8
    <3>2. E!Max(From) = i /\ From # {}
      BY <2>4, <3>1, Only
    <3>3. a - E!Place(f, i) = v - f.headers[i].p_vaddr
      <4>1. E!Place(f, i) = f.headers[i].p_vaddr - L
        BY <1>2
      <4> HIDE DEF L
      <4> QED
        BY <1>1, <2>4, <4>1
    <3> HIDE DEF a, From, in
    <3> QED
      BY <1>5, <2>6, <2>7, <2>8, <3>2, <3>3 DEF a
  <2>9. CASE a \notin E!Bytes(f, i)
    <3>1. From = {}
      BY <1>3, <2>3, <2>9
    <3> HIDE DEF a, From, in
    <3> QED
      BY <1>5, <2>6, <2>7, <2>9, <3>1 DEF a
  <2> QED
    BY <2>8, <2>9
<1> QED
  BY <1>6, <1>7

LEMMA CopyIsRight ==
    ASSUME FileAssumption, NEW f \in Files, E!check_elf_magic(f)
    PROVE  E!Shows(f, E!Copy(f))
<1> DEFINE info == E!Copy(f)
           L == E!low_address(f)
           H == E!high_address(f)
           n == H - L
           room == E!page_count(f) * PAGE
           pages == 0 .. room - 1
<1>1. E!LaidOut(f) /\ PAGE \in Nat \ {0} /\ TEXT_SEGMENT \in Nat
  BY DEF FileAssumption, E!WellFormed
<1>2. L \in Nat /\ n \in Nat /\ f.e_Entry \in Nat
  <2>1. L \in Nat /\ H \in Nat /\ L <= H /\ f.e_Entry \in Nat
    BY <1>1, Within DEF E!LaidOut
  <2> HIDE DEF L, H
  <2> QED
    BY <2>1
<1>3. /\ info.memory = [a \in pages |-> Copied(f, a)]
      /\ info.outside = (UNION {E!Bytes(f, i) : i \in E!Loads(f)}) \ pages
      /\ info.length = n /\ info.entry = f.e_Entry - L
  BY Zenon DEF E!Copy, Copied
<1>4. room \in Nat /\ n < room /\ E!mapped(info) \in Nat /\ n <= E!mapped(info)
  <2>1. E!mapped(info) = ((n + (PAGE - 1)) \div PAGE) * PAGE
    BY <1>3, Zenon DEF E!mapped
  <2>2. room = ((n \div PAGE) + 1) * PAGE
    BY DEF E!page_count
  <2> HIDE DEF n, room, info
  <2> QED
    BY <1>1, <1>2, <2>1, <2>2, Pages
<1>5. ASSUME NEW i \in E!Loads(f)
      PROVE  /\ f.headers[i].p_vaddr \in Nat /\ f.headers[i].p_filesz \in Nat /\ f.headers[i].p_memsz \in Nat
             /\ f.headers[i].p_filesz <= f.headers[i].p_memsz
             /\ L <= f.headers[i].p_vaddr /\ f.headers[i].p_vaddr + f.headers[i].p_memsz <= H
  <2>1. Header(f, i)
    BY <1>1, Headers
  <2>2. L <= f.headers[i].p_vaddr /\ f.headers[i].p_vaddr + f.headers[i].p_memsz <= H
    BY <1>1, Within
  <2> QED
    BY <2>1, <2>2 DEF Header
<1>6. H = L + n
  <2>1. L \in Nat /\ H \in Nat
    BY <1>1, Within
  <2> HIDE DEF L, H
  <2> QED
    BY <2>1
<1>7. info.outside = {}
  <2>1. ASSUME NEW i \in E!Loads(f), NEW a \in E!Bytes(f, i) PROVE a \in pages
    <3>1. a \in f.headers[i].p_vaddr - L .. f.headers[i].p_vaddr - L + f.headers[i].p_filesz - 1
      BY DEF E!Bytes, E!Place
    <3>2. PICK u \in Nat, k \in Nat, m \in Nat :
              /\ u = f.headers[i].p_vaddr /\ k = f.headers[i].p_filesz /\ m = f.headers[i].p_memsz
              /\ k <= m /\ L <= u /\ u + m <= H
      BY <1>5
    <3> HIDE DEF L, H, n, room
    <3>3. a \in u - L .. u - L + k - 1
      BY <3>1, <3>2
    <3>4. a \in Int /\ u - L <= a /\ a <= u - L + k - 1
      BY <1>2, <3>3
    <3> QED
      BY <1>2, <1>4, <1>6, <3>2, <3>4
  <2> DEFINE all == UNION {E!Bytes(f, i) : i \in E!Loads(f)}
  <2>2. info.outside = all \ pages
    BY <1>3
  <2> HIDE DEF pages
  <2>3. \A a \in all : a \in pages
    BY <2>1
  <2> HIDE DEF all
  <2> QED
    BY <2>2, <2>3
<1>8. ASSUME NEW v \in Int
      PROVE  /\ v - L \in 0 .. n - 1 => E!Fetch(info, TEXT_SEGMENT + v - L) = E!Said(f, v)
             /\ E!Fetch(info, TEXT_SEGMENT + v - L) \in {E!Said(f, v), E!Zero}
  <2> DEFINE a == v - L
           b == TEXT_SEGMENT + v - L
  <2>1. b - TEXT_SEGMENT = a
    BY <1>1, <1>2
  <2>2. DOMAIN info.memory = pages
    BY <1>3
  <2>3. E!Fetch(info, b) =
            IF a \in 0 .. E!mapped(info) - 1 \cap DOMAIN info.memory THEN info.memory[a] ELSE E!Zero
    <3>1. E!Fetch(info, b) =
              IF b - TEXT_SEGMENT \in 0 .. E!mapped(info) - 1 \cap DOMAIN info.memory
              THEN info.memory[b - TEXT_SEGMENT] ELSE E!Zero
      BY Zenon DEF E!Fetch
    <3> HIDE DEF a, b, info
    <3> QED
      BY <2>1, <3>1
  <2>4. a \in pages => info.memory[a] = E!Said(f, v)
    <3>1. Copied(f, a) = E!Said(f, v)
      BY <1>1, CopyIsSaid
    <3> HIDE DEF a, pages
    <3> QED
      BY <1>3, <3>1
  <2>5. a \in 0 .. n - 1 => a \in pages /\ a \in 0 .. E!mapped(info) - 1
    <3>1. a \in Int
      BY <1>2
    <3> HIDE DEF a, n, room, info
    <3> QED
      BY <1>2, <1>4, <3>1
  <2> HIDE DEF a, pages, info, n
  <2>6. a \in 0 .. n - 1 => E!Fetch(info, TEXT_SEGMENT + v - L) = E!Said(f, v)
    BY <2>2, <2>3, <2>4, <2>5
  <2>7. E!Fetch(info, TEXT_SEGMENT + v - L) \in {E!Said(f, v), E!Zero}
    BY <2>2, <2>3, <2>4
  <2> QED
    BY <2>6, <2>7 DEF a
<1>9. ASSUME NEW v \in E!Spans(f) PROVE v \in Int /\ v - L \in 0 .. n - 1
  <2>1. PICK i \in E!Loads(f) : v \in E!Segment(f, i)
    BY DEF E!Spans
  <2>2. v \in f.headers[i].p_vaddr .. f.headers[i].p_vaddr + f.headers[i].p_memsz - 1
    BY <2>1 DEF E!Segment
  <2> HIDE DEF L, H, n
  <2> QED
    BY <1>2, <1>5, <1>6, <2>2
<1>10. ASSUME NEW v, v \notin E!Spans(f) PROVE E!Said(f, v) = E!Zero
  <2>1. {i \in E!Loads(f) : v \in E!Segment(f, i)} = {}
    BY <1>10 DEF E!Spans
  <2> QED
    BY <2>1, Zenon DEF E!Said
<1>11. \A v \in E!Spans(f) :
           /\ v - L < E!mapped(info)
           /\ E!Fetch(info, TEXT_SEGMENT + v - L) = E!Said(f, v)
  <2> SUFFICES ASSUME NEW v \in E!Spans(f)
               PROVE  v - L < E!mapped(info) /\ E!Fetch(info, TEXT_SEGMENT + v - L) = E!Said(f, v)
    OBVIOUS
  <2>1. v \in Int /\ v - L \in 0 .. n - 1
    BY <1>9
  <2>2. E!Fetch(info, TEXT_SEGMENT + v - L) = E!Said(f, v)
    BY <1>8, <2>1
  <2> HIDE DEF L, n, info
  <2>3. v - L < E!mapped(info)
    BY <1>2, <1>4, <2>1
  <2> QED
    BY <2>2, <2>3
<1>12. E!Fetch(info, E!rip(info)) = E!Said(f, f.e_Entry)
  <2>1. E!rip(info) = TEXT_SEGMENT + f.e_Entry - L
    <3>1. E!rip(info) = TEXT_SEGMENT + (f.e_Entry - L)
      BY <1>3 DEF E!rip
    <3> HIDE DEF L, info
    <3> QED
      BY <1>1, <1>2, <3>1
  <2>2. f.e_Entry \in Int
    BY <1>2
  <2>3. CASE f.e_Entry \in E!Spans(f)
    BY <1>11, <2>1, <2>3
  <2>4. CASE f.e_Entry \notin E!Spans(f)
    <3>1. E!Said(f, f.e_Entry) = E!Zero
      BY <1>10, <2>4
    <3>2. E!Fetch(info, TEXT_SEGMENT + f.e_Entry - L) \in {E!Said(f, f.e_Entry), E!Zero}
      BY <1>8, <2>2
    <3> QED
      BY <2>1, <3>1, <3>2
  <2> QED
    BY <2>3, <2>4
<1> HIDE DEF info
<1> QED
  BY <1>7, <1>11, <1>12 DEF E!Shows, info

LEMMA LoadIsRight ==
    ASSUME FileAssumption, NEW f \in Files
    PROVE  E!IsFile(f, E!load_elf_file(f))
<1>1. CASE E!check_elf_magic(f)
  BY <1>1, CopyIsRight DEF E!IsFile, E!load_elf_file
<1>2. CASE ~ E!check_elf_magic(f)
  <2>1. E!load_elf_file(f).length = 0
    BY <1>2 DEF E!load_elf_file, E!NoInformation
  <2>2. PAGE \in Nat \ {0} /\ (0 + (PAGE - 1)) \div PAGE = 0
    BY DEF FileAssumption
  <2>3. E!mapped(E!load_elf_file(f)) = 0
    BY <2>1, <2>2 DEF E!mapped
  <2> QED
    BY <1>2, <2>3 DEF E!IsFile
<1> QED
  BY <1>1, <1>2

\* The image, once there, is that of the file.
Loaded == file \in Files /\ image \in {None, E!load_elf_file(file)}

LEMMA StepLoaded == Loaded /\ [Next]_vars => Loaded'
<1> SUFFICES ASSUME Loaded, [Next]_vars PROVE Loaded'
  OBVIOUS
<1>1. ASSUME UNCHANGED <<file, image>> PROVE Loaded'
  BY <1>1 DEF Loaded
<1>2. ASSUME NEW c \in Cores, Boot(c) PROVE Loaded'
  <2>1. CASE Modules(c)
    <3>1. image' = E!load_elf_file(file) /\ file' = file
      BY <2>1 DEF Modules, Call
    <3> QED
      BY <3>1 DEF Loaded
  <2>2. CASE Idt(c) \/ Acpi(c) \/ Lvt(c) \/ Calibrate(c) \/ Timer(c) \/ Clock(c) \/ Task(c)
    BY <1>1, <2>2 DEF Idt, Acpi, Lvt, Calibrate, Timer, Clock, Task, Call, kernel
  <2>3. CASE Committed(c) \/ Syscall(c) \/ Route(c) \/ Smp(c) \/ Parked(c) \/ Sti(c)
    BY <1>1, <2>3 DEF Committed, Syscall, Route, Smp, Parked, Sti, Call, kernel
  <2> QED
    BY <1>2, <2>1, <2>2, <2>3 DEF Boot
<1>3. ASSUME NEW c \in Cores, WakeUp(c) \/ Interrupt(c) PROVE Loaded'
  BY <1>1, <1>3 DEF WakeUp, Interrupt, Stub, do_IRQ, Eoi, Handler, Iret, Lock, Unlock, Step, kernel
<1>4. ASSUME NEW c \in Cores, Tick(c) \/ Deliver(c) \/ Fault(c) \/ Spurious(c) PROVE Loaded'
  BY <1>1, <1>4 DEF Tick, Deliver, Fault, Spurious, Enter, kernel
<1>5. CASE UNCHANGED vars
  BY <1>1, <1>5 DEF vars, kernel
<1> QED
  BY <1>2, <1>3, <1>4, <1>5 DEF Next, Run

(* For every file that a linker may write, the text segment of the service's
   task reads as the file's headers say, from the copy that load_elf_file made
   and PCB's constructor mapped (elf.cpp:6-52, task.cpp:52-64). *)
THEOREM FilesAreLoaded == Spec => []ImageIsFile
<1>1. Init => Loaded
  BY DEF Init, Loaded
<1>2. Loaded => ImageIsFile
  BY FileAssumption, LoadIsRight DEF Loaded, ImageIsFile
<1> QED
  BY <1>1, <1>2, StepLoaded, PTL DEF Spec
-----------------------------------------------------------------------------
(* What the kernel reads of the firmware, and the pins it programs *)

(* The loop's place before an entry is the sum of the lengths before it: if
   there is no such function for a number of entries, take the first. *)
LEMMA Sums ==
    ASSUME NEW m \in Nat, NEW g, \A k \in 1 .. m : g[k] \in Nat
    PROVE  \E s : s = [k \in 1 .. m + 1 |-> IF k = 1 THEN 0 ELSE s[k - 1] + g[k - 1]]
<1> DEFINE Is(s, j) == s = [k \in 1 .. j + 1 |-> IF k = 1 THEN 0 ELSE s[k - 1] + g[k - 1]]
           Bad == {j \in 0 .. m : ~ \E s : Is(s, j)}
<1>1. 0 \notin Bad
  <2>1. Is([k \in 1 .. 1 |-> 0], 0)
    OBVIOUS
  <2> QED
    BY <2>1
<1>2. ASSUME NEW j \in 1 .. m, j - 1 \notin Bad PROVE j \notin Bad
  <2>1. PICK s : Is(s, j - 1)
    BY <1>2
  <2> DEFINE t == [k \in 1 .. j + 1 |-> IF k = j + 1 THEN s[j] + g[j] ELSE s[k]]
  <2>2. \A k \in 1 .. j : s[k] = IF k = 1 THEN 0 ELSE s[k - 1] + g[k - 1]
    BY <2>1
  <2>3. \A k \in 1 .. j + 1 : t[k] = IF k = 1 THEN 0 ELSE t[k - 1] + g[k - 1]
    <3> SUFFICES ASSUME NEW k \in 1 .. j + 1
                 PROVE  t[k] = IF k = 1 THEN 0 ELSE t[k - 1] + g[k - 1]
      OBVIOUS
    <3>1. CASE k = j + 1
      <4>1. k # 1 /\ k - 1 = j /\ j \in 1 .. j + 1 /\ j # j + 1
        BY <3>1
      <4>2. t[k] = s[j] + g[j] /\ t[j] = s[j]
        BY <3>1, <4>1
      <4> QED
        BY <4>1, <4>2
    <3>2. CASE k # j + 1
      <4>1. k \in 1 .. j /\ (k # 1 => k - 1 \in 1 .. j + 1 /\ k - 1 # j + 1)
        BY <3>2
      <4>2. t[k] = s[k] /\ (k # 1 => t[k - 1] = s[k - 1])
        BY <3>2, <4>1
      <4> QED
        BY <2>2, <4>1, <4>2
    <3> QED
      BY <3>1, <3>2
  <2>4. Is(t, j)
    BY <2>3
  <2> QED
    BY <2>4
<1>3. Bad = {}
  <2> SUFFICES ASSUME Bad # {} PROVE FALSE
    OBVIOUS
  <2>1. Bad \in SUBSET Nat
    OBVIOUS
  <2>2. PICK j \in Bad : \A i \in Bad : j <= i
    <3> HIDE DEF Bad
    <3> QED
      BY <2>1, LeastNat
  <2>3. j \in 1 .. m
    <3>1. j \in 0 .. m
      OBVIOUS
    <3> HIDE DEF Bad
    <3> QED
      BY <1>1, <2>2, <3>1
  <2>4. j - 1 \notin Bad
    <3> HIDE DEF Bad
    <3> QED
      BY <2>2, <2>3
  <2> HIDE DEF Bad
  <2> QED
    BY <1>2, <2>2, <2>3, <2>4
<1>4. \E s : Is(s, m)
  <2>1. m \notin Bad /\ m \in 0 .. m
    <3> HIDE DEF Bad
    <3> QED
      BY <1>3
  <2> HIDE DEF Is
  <2> QED
    BY <2>1
<1> QED
  BY <1>4

(* A function that grows by natural numbers does not come down. *)
LEMMA Climbs ==
    ASSUME NEW m \in Nat, NEW g, \A k \in 1 .. m : g[k] \in Nat,
           NEW s, \A k \in 1 .. m + 1 : s[k] = IF k = 1 THEN 0 ELSE s[k - 1] + g[k - 1]
    PROVE  \A k \in 1 .. m + 1 : s[k] \in Nat /\ \A j \in 1 .. k : s[j] <= s[k]
<1> DEFINE Good(k) == s[k] \in Nat /\ \A j \in 1 .. k : s[j] <= s[k]
           Bad == {k \in 1 .. m + 1 : ~ Good(k)}
<1> SUFFICES ASSUME Bad # {} PROVE FALSE
  OBVIOUS
<1>1. Bad \in SUBSET Nat
  OBVIOUS
<1>2. PICK k \in Bad : \A i \in Bad : k <= i
  <2> HIDE DEF Bad
  <2> QED
    BY <1>1, LeastNat
<1>3. k \in 1 .. m + 1 /\ ~ Good(k)
  OBVIOUS
<1>4. k # 1
  <2>1. 1 \in 1 .. m + 1 /\ s[1] = 0
    OBVIOUS
  <2>2. Good(1)
    BY <2>1
  <2> QED
    BY <1>3, <2>2
<1>5. k - 1 \in 1 .. m /\ s[k] = s[k - 1] + g[k - 1]
  BY <1>3, <1>4
<1>6. Good(k - 1)
  <2>1. k - 1 \notin Bad
    <3> HIDE DEF Bad
    <3> QED
      BY <1>2, <1>3
  <2> HIDE DEF Good
  <2> QED
    BY <1>5, <2>1
<1>7. s[k] \in Nat /\ s[k - 1] <= s[k]
  BY <1>5, <1>6
<1>8. \A j \in 1 .. k : s[j] <= s[k]
  <2> SUFFICES ASSUME NEW j \in 1 .. k, j # k PROVE s[j] <= s[k]
    BY <1>7
  <2>1. j \in 1 .. k - 1
    BY <1>3
  <2>2. s[j] \in Nat
    <3>1. j \notin Bad
      <4> HIDE DEF Bad
      <4> QED
        BY <1>2, <1>3, <2>1
    <3>2. j \in 1 .. m + 1
      BY <1>3, <2>1
    <3> QED
      BY <3>1, <3>2
  <2> QED
    BY <1>6, <1>7, <2>1, <2>2
<1> QED
  BY <1>3, <1>7, <1>8

(* The members of a finite set of numbers, by their rank. *)
LEMMA Ranks ==
    ASSUME NEW n \in Nat, NEW S \in SUBSET (1 .. n)
    PROVE  /\ IsFiniteSet(S) /\ Cardinality(S) \in Nat
           /\ \A i \in 1 .. Cardinality(S) : Nth(S, i) \in S
           /\ \A i, j \in 1 .. Cardinality(S) : Nth(S, i) = Nth(S, j) => i = j
           /\ \A k \in S : \E i \in 1 .. Cardinality(S) : Nth(S, i) = k
<1> DEFINE C == Cardinality(S)
           Below(k) == {j \in S : j < k}
           rank == [k \in S |-> Cardinality(Below(k))]
<1>1. IsFiniteSet(S) /\ C \in Nat
  <2>1. IsFiniteSet(1 .. n)
    BY FS_Interval
  <2>2. IsFiniteSet(S)
    BY <2>1, FS_Subset
  <2> QED
    BY <2>2, FS_CardinalityType
<1>2. ASSUME NEW k \in S
      PROVE  IsFiniteSet(Below(k)) /\ Cardinality(Below(k)) \in 0 .. C - 1
  <2>1. IsFiniteSet(Below(k)) /\ Cardinality(Below(k)) <= C /\ (C = Cardinality(Below(k)) => S = Below(k))
    BY <1>1, FS_Subset
  <2>2. k \notin Below(k)
    OBVIOUS
  <2>3. Cardinality(Below(k)) \in Nat
    BY <2>1, FS_CardinalityType
  <2>4. C # Cardinality(Below(k))
    BY <2>1, <2>2
  <2> HIDE DEF Below, C
  <2> QED
    BY <1>1, <2>1, <2>3, <2>4
<1>3. ASSUME NEW j \in S, NEW k \in S, j < k
      PROVE  Cardinality(Below(j)) < Cardinality(Below(k))
  <2>1. Below(j) \subseteq Below(k) /\ j \in Below(k) /\ j \notin Below(j)
    <3>1. \A i \in S : i \in Nat
      OBVIOUS
    <3>2. \A i \in S : i < j => i < k
      BY <1>3, <3>1
    <3>3. ~ (j < j)
      BY <3>1
    <3> QED
      BY <1>3, <3>2, <3>3
  <2>2. /\ Cardinality(Below(j)) <= Cardinality(Below(k))
        /\ Cardinality(Below(k)) = Cardinality(Below(j)) => Below(k) = Below(j)
    <3> HIDE DEF Below
    <3> QED
      BY <1>2, <2>1, FS_Subset
  <2>3. Cardinality(Below(j)) \in Nat /\ Cardinality(Below(k)) \in Nat
    BY <1>2
  <2> HIDE DEF Below
  <2> QED
    BY <2>1, <2>2, <2>3
<1>4. rank \in Injection(S, 0 .. C - 1)
  <2>1. rank \in [S -> 0 .. C - 1]
    BY <1>2
  <2>2. \A j, k \in S : rank[j] = rank[k] => j = k
    <3> SUFFICES ASSUME NEW j \in S, NEW k \in S, j # k PROVE rank[j] # rank[k]
      OBVIOUS
    <3>1. j < k \/ k < j
      OBVIOUS
    <3>2. rank[j] \in Nat /\ rank[k] \in Nat /\ (rank[j] < rank[k] \/ rank[k] < rank[j])
      <4>1. rank[j] = Cardinality(Below(j)) /\ rank[k] = Cardinality(Below(k))
        OBVIOUS
      <4> HIDE DEF rank, Below
      <4> QED
        BY <1>2, <1>3, <3>1, <4>1
    <3> HIDE DEF rank
    <3> QED
      BY <3>2
  <2> HIDE DEF rank, C
  <2> QED
    BY <2>1, <2>2, Fun_IsInj
<1>5. rank \in Surjection(S, 0 .. C - 1)
  <2>1. IsFiniteSet(0 .. C - 1) /\ Cardinality(0 .. C - 1) = C
    <3> HIDE DEF C
    <3>1. 0 \in Int /\ C - 1 \in Int /\ (IF 0 > C - 1 THEN 0 ELSE C - 1 - 0 + 1) = C
      BY <1>1
    <3> QED
      BY <3>1, FS_Interval
  <2> HIDE DEF rank
  <2> QED
    BY <1>4, <2>1, FS_Injection DEF C
<1>6. \A i \in 1 .. C : \E k \in S : Cardinality(Below(k)) = i - 1
  <2> SUFFICES ASSUME NEW i \in 1 .. C PROVE \E k \in S : Cardinality(Below(k)) = i - 1
    OBVIOUS
  <2>1. i - 1 \in 0 .. C - 1
    BY <1>1
  <2>2. \E k \in S : rank[k] = i - 1
    <3> HIDE DEF rank, C
    <3>1. \A t \in 0 .. C - 1 : \E k \in S : rank[k] = t
      BY <1>5, Zenon DEF Surjection
    <3> QED
      BY <2>1, <3>1
  <2> QED
    BY <2>2
<1>7. \A i \in 1 .. C : Nth(S, i) \in S /\ Cardinality(Below(Nth(S, i))) = i - 1
  BY <1>6 DEF Nth
<1>8. \A i, j \in 1 .. C : Nth(S, i) = Nth(S, j) => i = j
  <2> SUFFICES ASSUME NEW i \in 1 .. C, NEW j \in 1 .. C, Nth(S, i) = Nth(S, j) PROVE i = j
    OBVIOUS
  <2>1. i - 1 = j - 1
    BY <1>7
  <2> QED
    BY <1>1, <2>1
<1>9. \A k \in S : \E i \in 1 .. C : Nth(S, i) = k
  <2> SUFFICES ASSUME NEW k \in S PROVE \E i \in 1 .. C : Nth(S, i) = k
    OBVIOUS
  <2> DEFINE i == Cardinality(Below(k)) + 1
  <2>1. i \in 1 .. C /\ i - 1 = Cardinality(Below(k))
    <3>1. Cardinality(Below(k)) \in 0 .. C - 1
      BY <1>2
    <3> HIDE DEF Below, C
    <3> QED
      BY <1>1, <3>1
  <2>2. Nth(S, i) \in S /\ Cardinality(Below(Nth(S, i))) = Cardinality(Below(k))
    <3> HIDE DEF i, Below
    <3> QED
      BY <1>7, <2>1
  <2>3. Nth(S, i) = k
    <3> DEFINE x == Nth(S, i)
    <3>1. x \in S /\ rank[x] = rank[k]
      BY <2>2
    <3> HIDE DEF x, rank
    <3>2. x = k
      BY <1>4, <3>1, Fun_InjectionProperties
    <3> QED
      BY <3>2 DEF x
  <2> QED
    BY <2>1, <2>3
<1> QED
  BY <1>1, <1>7, <1>8, <1>9
-----------------------------------------------------------------------------
(* The loop comes to every entry of the table, and keeps nothing that it reads
   behind it. *)
LEMMA LoopReads ==
    ASSUME NEW f, Plausible(f), NEW type \in {"lapic", "ioapic", "iso"}
    PROVE  /\ Found(f, type) = Listed(f, type) /\ Len(f.entries) \in Nat
           /\ Listed(f, type) \subseteq 1 .. Len(f.entries)
           /\ \A k \in Listed(f, type) : Memory(f)[k] = f.entries[k]
<1> DEFINE S == {f.entries[k] : k \in 1 .. Len(f.entries)} \cup {f.beyond[k] : k \in 1 .. Len(f.beyond)}
           m == Len(Memory(f))
           e == Len(f.entries)
           g == [k \in 1 .. m |-> Memory(f)[k].length]
           s == Offset(f)
<1>1. /\ e \in Nat /\ f.entries = [k \in 1 .. e |-> f.entries[k]]
      /\ Len(f.beyond) \in Nat /\ f.beyond = [k \in 1 .. Len(f.beyond) |-> f.beyond[k]]
      /\ \A k \in DOMAIN Memory(f) : Memory(f)[k].length \in Nat \ {0}
      /\ \A k \in Visited(f) : k > e => Memory(f)[k].type \notin {"lapic", "ioapic", "iso"}
  BY Zenon DEF Plausible
<1>2. f.entries \in Seq(S) /\ f.beyond \in Seq(S)
  <2>1. ASSUME NEW q, Len(q) \in Nat, q = [k \in 1 .. Len(q) |-> q[k]], \A k \in 1 .. Len(q) : q[k] \in S
        PROVE  q \in Seq(S)
    <3> HIDE DEF S
    <3>1. [k \in 1 .. Len(q) |-> q[k]] \in Seq(S)
      BY <2>1
    <3> QED
      BY <2>1, <3>1
  <2>2. \A k \in 1 .. e : f.entries[k] \in S
    OBVIOUS
  <2>3. \A k \in 1 .. Len(f.beyond) : f.beyond[k] \in S
    OBVIOUS
  <2> HIDE DEF S
  <2> QED
    BY <1>1, <2>1, <2>2, <2>3
<1>3. /\ Memory(f) \in Seq(S) /\ m = e + Len(f.beyond)
      /\ \A k \in 1 .. e : Memory(f)[k] = f.entries[k]
  <2> HIDE DEF S
  <2>1. /\ Memory(f) \in Seq(S) /\ m = e + Len(f.beyond)
        /\ \A k \in 1 .. e + Len(f.beyond) :
               Memory(f)[k] = IF k <= e THEN f.entries[k] ELSE f.beyond[k - e]
    BY <1>2, ConcatProperties, Zenon DEF Memory
  <2>2. \A k \in 1 .. e : k \in 1 .. e + Len(f.beyond) /\ k <= e
    <3> DEFINE b == Len(f.beyond)
    <3>1. e \in Nat /\ b \in Nat
      BY <1>1
    <3> HIDE DEF e, b
    <3>2. \A k \in 1 .. e : k \in 1 .. e + b /\ k <= e
      BY <3>1
    <3> QED
      BY <3>2 DEF b
  <2> QED
    BY <2>1, <2>2
<1>4. m \in Nat /\ e \in 0 .. m /\ DOMAIN Memory(f) = 1 .. m
  <2> DEFINE b == Len(f.beyond)
  <2>1. e \in Nat /\ b \in Nat /\ m = e + b
    BY <1>1, <1>3
  <2>2. DOMAIN Memory(f) = 1 .. m
    <3> HIDE DEF S
    <3> QED
      BY <1>3
  <2> HIDE DEF m, e, b
  <2> QED
    BY <2>1, <2>2
<1>5. \A k \in 1 .. m : g[k] \in Nat
  BY <1>1, <1>4
<1>6. \A k \in 1 .. m + 1 : s[k] = IF k = 1 THEN 0 ELSE s[k - 1] + g[k - 1]
  <2>1. \E o : o = [k \in 1 .. m + 1 |-> IF k = 1 THEN 0 ELSE o[k - 1] + g[k - 1]]
    <3> HIDE DEF g, m
    <3> QED
      BY <1>4, <1>5, Sums
  <2>2. \A k \in 1 .. m + 1 : k # 1 => g[k - 1] = Memory(f)[k - 1].length
    <3> SUFFICES ASSUME NEW k \in 1 .. m + 1, k # 1 PROVE g[k - 1] = Memory(f)[k - 1].length
      OBVIOUS
    <3>1. k - 1 \in 1 .. m
      BY <1>4
    <3> QED
      BY <3>1
  <2>3. \E o : o = [k \in 1 .. m + 1 |-> IF k = 1 THEN 0 ELSE o[k - 1] + Memory(f)[k - 1].length]
    <3> HIDE DEF g, m
    <3> QED
      BY <2>1, <2>2
  <2>4. s = [k \in 1 .. m + 1 |-> IF k = 1 THEN 0 ELSE s[k - 1] + Memory(f)[k - 1].length]
    BY <2>3, Zenon DEF Offset
  <2> HIDE DEF g, m, s
  <2> QED
    BY <2>2, <2>4
<1>7. \A k \in 1 .. m + 1 : s[k] \in Nat /\ \A j \in 1 .. k : s[j] <= s[k]
  <2> HIDE DEF g, m, s
  <2> QED
    BY <1>4, <1>5, <1>6, Climbs
<1>8. \A k \in 1 .. e : k \in Visited(f)
  <2> SUFFICES ASSUME NEW k \in 1 .. e PROVE k \in Visited(f)
    OBVIOUS
  <2>1. k \in 1 .. m /\ e + 1 \in 1 .. m + 1 /\ k \in 1 .. e + 1 /\ k \in 1 .. m + 1
    <3> HIDE DEF m, e
    <3> QED
      BY <1>4
  <2>2. s[k] <= s[e + 1] /\ s[k] \in Nat /\ s[e + 1] \in Nat
    <3> HIDE DEF m, e, s
    <3> QED
      BY <1>7, <2>1
  <2>3. Length(f) = 44 + s[e + 1]
    BY DEF Length, HEADER
  <2>4. s[k] <= Length(f)
    <3> HIDE DEF s, e
    <3> QED
      BY <2>2, <2>3
  <2> QED
    BY <1>4, <2>1, <2>4 DEF Visited
<1>9. Visited(f) \subseteq 1 .. m
  BY <1>4 DEF Visited
<1>10. DOMAIN f.entries = 1 .. e
  <2> HIDE DEF e
  <2> QED
    BY <1>1
<1> HIDE DEF S, m, e, g, s
<1>11. Found(f, type) = Listed(f, type)
  <2>1. ASSUME NEW k, k \in Found(f, type) PROVE k \in Listed(f, type)
    <3>1. k \in 1 .. m /\ k \in Visited(f) /\ Memory(f)[k].type = type
      BY <1>9, <2>1 DEF Found
    <3>2. ~ (k > e)
      BY <1>1, <3>1
    <3>3. k \in 1 .. e
      BY <1>4, <3>1, <3>2
    <3> QED
      BY <1>3, <1>10, <3>1, <3>3 DEF Listed
  <2>2. ASSUME NEW k, k \in Listed(f, type) PROVE k \in Found(f, type)
    BY <1>3, <1>8, <1>10, <2>2 DEF Found, Listed
  <2> QED
    BY <2>1, <2>2
<1> QED
  BY <1>1, <1>3, <1>10, <1>11 DEF Listed, e

(* What MADT::MADT keeps of a type is the table's entries of it, each once. *)
LEMMA Keeps ==
    ASSUME NEW f, Plausible(f), NEW type \in {"lapic", "ioapic", "iso"}
    PROVE  LET q == OfType(f, type)  n == Cardinality(Listed(f, type)) IN
           /\ n \in Nat /\ Len(q) = n /\ DOMAIN q = 1 .. n
           /\ \E nth \in [1 .. n -> Listed(f, type)] :
                 /\ \A i \in 1 .. n : q[i] = f.entries[nth[i]]
                 /\ \A i, j \in 1 .. n : nth[i] = nth[j] => i = j
                 /\ \A k \in Listed(f, type) : \E i \in 1 .. n : nth[i] = k
<1> DEFINE q == OfType(f, type)
           S == Listed(f, type)
           n == Cardinality(S)
           nth == [i \in 1 .. n |-> Nth(S, i)]
<1>1. /\ Found(f, type) = S /\ Len(f.entries) \in Nat /\ S \in SUBSET (1 .. Len(f.entries))
      /\ \A k \in S : Memory(f)[k] = f.entries[k]
  BY LoopReads
<1> HIDE DEF S
<1>2. /\ n \in Nat
      /\ \A i \in 1 .. n : Nth(S, i) \in S
      /\ \A i, j \in 1 .. n : Nth(S, i) = Nth(S, j) => i = j
      /\ \A k \in S : \E i \in 1 .. n : Nth(S, i) = k
  BY <1>1, Ranks, ZenonT(40)
<1>3. q = [i \in 1 .. n |-> Memory(f)[Nth(S, i)]]
  BY <1>1 DEF OfType
<1> HIDE DEF n, q
<1>4. DOMAIN q = 1 .. n /\ Len(q) = n /\ \A i \in 1 .. n : q[i] = f.entries[Nth(S, i)]
  <2>1. DOMAIN q = 1 .. n /\ \A i \in 1 .. n : q[i] = f.entries[Nth(S, i)]
    BY <1>1, <1>2, <1>3
  <2>2. Len(q) = n
    <3> DEFINE T == {q[i] : i \in 1 .. n}
    <3>1. q = [i \in 1 .. n |-> q[i]] /\ \A i \in 1 .. n : q[i] \in T
      BY <1>3
    <3> HIDE DEF T
    <3>2. [i \in 1 .. n |-> q[i]] \in Seq(T) /\ Len([i \in 1 .. n |-> q[i]]) = n
      BY <1>2, <3>1
    <3> QED
      BY <3>1, <3>2
  <2> QED
    BY <2>1, <2>2
<1>5. /\ nth \in [1 .. n -> S]
      /\ \A i \in 1 .. n : q[i] = f.entries[nth[i]]
      /\ \A i, j \in 1 .. n : nth[i] = nth[j] => i = j
      /\ \A k \in S : \E i \in 1 .. n : nth[i] = k
  BY <1>2, <1>4
<1> HIDE DEF nth
<1> QED
  BY <1>2, <1>4, <1>5 DEF S, n, q
-----------------------------------------------------------------------------
\* The kernel has read the table.
Knows == FirmwareInOrder /\ firmware \in Firmwares /\ apic = madt(firmware)

Gsis(i) == apic.ioapic[i].base .. apic.ioapic[i].base + apic.ioapic[i].answer

(* What it then knows of the I/O APICs and the overrides. *)
LEMMA Machine ==
    ASSUME Knows
    PROVE  /\ apic.core_count = Cardinality(Listed(firmware, "lapic"))
           /\ Says("ioapic") = {apic.ioapic[i] : i \in DOMAIN apic.ioapic}
           /\ Says("iso") = {apic.iso[i] : i \in DOMAIN apic.iso}
           /\ \A i \in DOMAIN apic.ioapic :
                 i \in 1 .. CHIPS /\ apic.ioapic[i].base \in Nat /\ apic.ioapic[i].answer \in 0 .. 119
           /\ \A i, j \in DOMAIN apic.ioapic : i # j => Gsis(i) \cap Gsis(j) = {}
           /\ \A i \in DOMAIN apic.iso : i \in Nat /\ apic.iso[i].source \in Nat /\ apic.iso[i].gsi \in Nat
           /\ \E n \in Nat : DOMAIN apic.iso = 1 .. n
           /\ \A i, j \in DOMAIN apic.iso : apic.iso[i].source = apic.iso[j].source => i = j
           /\ \A a \in Asked : \/ \E i \in DOMAIN apic.iso : apic.iso[i].source = a[2]
                               \/ \A i \in DOMAIN apic.iso : apic.iso[i].gsi # a[2]
           /\ \A c \in Cores : destination(c) = 0
<1> DEFINE f == firmware
           q == apic.ioapic
           o == apic.iso
<1>0. Plausible(f)
  BY DEF Knows, FirmwareInOrder
<1>1. apic.core_count = Len(OfType(f, "lapic")) /\ q = OfType(f, "ioapic") /\ o = OfType(f, "iso")
  BY DEF Knows, madt
<1>2. apic.core_count = Cardinality(Listed(f, "lapic"))
  BY <1>0, <1>1, Keeps
<1> DEFINE n == Cardinality(Listed(f, "ioapic"))
           m == Cardinality(Listed(f, "iso"))
<1>3. PICK nth \in [1 .. n -> Listed(f, "ioapic")] :
          /\ \A i \in 1 .. n : q[i] = f.entries[nth[i]]
          /\ \A i, j \in 1 .. n : nth[i] = nth[j] => i = j
          /\ \A k \in Listed(f, "ioapic") : \E i \in 1 .. n : nth[i] = k
  <2>1. /\ n \in Nat /\ DOMAIN OfType(f, "ioapic") = 1 .. n
        /\ \E nth \in [1 .. n -> Listed(f, "ioapic")] :
              /\ \A i \in 1 .. n : OfType(f, "ioapic")[i] = f.entries[nth[i]]
              /\ \A i, j \in 1 .. n : nth[i] = nth[j] => i = j
              /\ \A k \in Listed(f, "ioapic") : \E i \in 1 .. n : nth[i] = k
    <3> HIDE DEF f
    <3> QED
      BY <1>0, Keeps
  <2> HIDE DEF f, q, n
  <2> QED
    BY <1>1, <2>1
<1>4. PICK mth \in [1 .. m -> Listed(f, "iso")] :
          /\ \A i \in 1 .. m : o[i] = f.entries[mth[i]]
          /\ \A i, j \in 1 .. m : mth[i] = mth[j] => i = j
          /\ \A k \in Listed(f, "iso") : \E i \in 1 .. m : mth[i] = k
  <2>1. /\ m \in Nat /\ DOMAIN OfType(f, "iso") = 1 .. m
        /\ \E mth \in [1 .. m -> Listed(f, "iso")] :
              /\ \A i \in 1 .. m : OfType(f, "iso")[i] = f.entries[mth[i]]
              /\ \A i, j \in 1 .. m : mth[i] = mth[j] => i = j
              /\ \A k \in Listed(f, "iso") : \E i \in 1 .. m : mth[i] = k
    <3> HIDE DEF f
    <3> QED
      BY <1>0, Keeps
  <2> HIDE DEF f, o, m
  <2> QED
    BY <1>1, <2>1
<1>d. n \in Nat /\ m \in Nat /\ DOMAIN q = 1 .. n /\ DOMAIN o = 1 .. m
  <2> HIDE DEF f, q, o
  <2> QED
    BY <1>0, <1>1, Keeps, Zenon
<1>5. Says("ioapic") = {q[i] : i \in DOMAIN q}
  <2>1. Says("ioapic") = {f.entries[k] : k \in Listed(f, "ioapic")}
    BY DEF Says
  <2> HIDE DEF f, q, n
  <2> QED
    BY <1>3, <1>d, <2>1
<1>6. Says("iso") = {o[i] : i \in DOMAIN o}
  <2>1. Says("iso") = {f.entries[k] : k \in Listed(f, "iso")}
    BY DEF Says
  <2> HIDE DEF f, o, m
  <2> QED
    BY <1>4, <1>d, <2>1
<1>7. /\ n <= 8
      /\ \A k \in Listed(f, "ioapic") : f.entries[k].base \in Nat /\ f.entries[k].answer \in 0 .. 119
      /\ \A k, j \in Listed(f, "ioapic") : k # j =>
             (f.entries[k].base .. f.entries[k].base + f.entries[k].answer) \cap
             (f.entries[j].base .. f.entries[j].base + f.entries[j].answer) = {}
      /\ \A k \in Listed(f, "iso") : f.entries[k].source \in Nat /\ f.entries[k].gsi \in Nat
      /\ \A k, j \in Listed(f, "iso") : f.entries[k].source = f.entries[j].source => k = j
      /\ \A a \in Asked : \/ \E k \in Listed(f, "iso") : f.entries[k].source = a[2]
                          \/ \A k \in Listed(f, "iso") : f.entries[k].gsi # a[2]
      /\ \A c \in Cores : f.lapic_id[c] \in 0 .. 2^24 - 1
  BY <1>0, Zenon DEF Plausible, CHIPS
<1>8. \A c \in Cores : destination(c) = 0
  <2>1. \A x \in 0 .. 2^24 - 1 : x \div 2^24 = 0
    BY 2^24 = 16777216
  <2> QED
    BY <1>7, <2>1 DEF destination
<1> HIDE DEF f, q, o, n, m
<1>e. /\ \A i \in DOMAIN q : i \in 1 .. n /\ nth[i] \in Listed(f, "ioapic") /\ q[i] = f.entries[nth[i]]
      /\ \A i \in DOMAIN o : i \in 1 .. m /\ mth[i] \in Listed(f, "iso") /\ o[i] = f.entries[mth[i]]
  BY <1>3, <1>4, <1>d
<1>f. /\ \A i, j \in DOMAIN q : i # j => nth[i] # nth[j]
      /\ \A i, j \in DOMAIN o : i # j => mth[i] # mth[j]
  BY <1>3, <1>4, <1>d
<1>9. \A i \in DOMAIN q : i \in 1 .. CHIPS /\ q[i].base \in Nat /\ q[i].answer \in 0 .. 119
  <2>1. \A i \in 1 .. n : i \in 1 .. 8
    BY <1>7, <1>d
  <2>2. \A i \in DOMAIN q : q[i].base \in Nat /\ q[i].answer \in 0 .. 119
    <3>1. \A k \in Listed(f, "ioapic") : f.entries[k].base \in Nat /\ f.entries[k].answer \in 0 .. 119
      BY <1>7, Zenon
    <3> QED
      BY <1>e, <3>1, ZenonT(40)
  <2>3. \A i \in DOMAIN q : i \in 1 .. CHIPS
    BY <1>e, <2>1 DEF CHIPS
  <2> QED
    BY <2>2, <2>3
<1>10. ASSUME NEW i \in DOMAIN q, NEW j \in DOMAIN q, i # j
       PROVE  (q[i].base .. q[i].base + q[i].answer) \cap (q[j].base .. q[j].base + q[j].answer) = {}
  BY <1>7, <1>e, <1>f, <1>10
<1>11. /\ \A i \in DOMAIN o : i \in Nat /\ o[i].source \in Nat /\ o[i].gsi \in Nat
       /\ \A i, j \in DOMAIN o : o[i].source = o[j].source => i = j
  <2>1. \A i \in DOMAIN o : i \in Nat
    BY <1>d
  <2>2. \A i, j \in DOMAIN o : o[i].source = o[j].source => i = j
    BY <1>7, <1>e, <1>f
  <2>3. \A i \in DOMAIN o : o[i].source \in Nat /\ o[i].gsi \in Nat
    BY <1>7, <1>e
  <2> QED
    BY <2>1, <2>2, <2>3
<1>12. ASSUME NEW a \in Asked, \A i \in DOMAIN o : o[i].source # a[2]
       PROVE  \A i \in DOMAIN o : o[i].gsi # a[2]
  <2>1. \A k \in Listed(f, "iso") : \E i \in DOMAIN o : o[i] = f.entries[k]
    BY <1>4, <1>d
  <2>2. \A k \in Listed(f, "iso") : f.entries[k].source # a[2]
    BY <1>12, <2>1
  <2>3. \A k \in Listed(f, "iso") : f.entries[k].gsi # a[2]
    BY <1>7, <2>2, Zenon
  <2> QED
    BY <1>e, <2>3
<1> QED
  BY <1>2, <1>d, <1>5, <1>6, <1>8, <1>9, <1>10, <1>11, <1>12 DEF f, q, o, Gsis

(* A single number is the greatest and the least of its set. *)
LEMMA Alone ==
    ASSUME NEW x \in Int
    PROVE  Max({x}) = x /\ Min({x}) = x
  BY DEF Max, Min

(* An override holds for its irq, and the chip that has the gsi is found. *)
LEMMA Overridden ==
    ASSUME Knows, NEW irq
    PROVE  /\ \A i \in DOMAIN apic.iso : apic.iso[i].source = irq => gsi_of(irq) = apic.iso[i].gsi
           /\ (\A i \in DOMAIN apic.iso : apic.iso[i].source # irq) => gsi_of(irq) = irq
<1> DEFINE of == {i \in DOMAIN apic.iso : apic.iso[i].source = irq}
<1>1. gsi_of(irq) = IF of = {} THEN irq ELSE apic.iso[Max(of)].gsi
  BY Zenon DEF gsi_of
<1>2. ASSUME NEW i \in DOMAIN apic.iso, apic.iso[i].source = irq PROVE gsi_of(irq) = apic.iso[i].gsi
  <2>1. of = {i} /\ i \in Int
    BY <1>2, Machine
  <2>2. Max(of) = i /\ of # {}
    BY <2>1, Alone
  <2> HIDE DEF of
  <2> QED
    BY <1>1, <2>2
<1>3. ASSUME \A i \in DOMAIN apic.iso : apic.iso[i].source # irq PROVE gsi_of(irq) = irq
  <2>1. of = {}
    BY <1>3
  <2> HIDE DEF of
  <2> QED
    BY <1>1, <2>1
<1> QED
  BY <1>2, <1>3

(* find_ioapic answers the one I/O APIC that has the gsi, if there is one. *)
LEMMA FoundChip ==
    ASSUME Knows, NEW gsi \in Nat
    PROVE  /\ \A i \in DOMAIN apic.ioapic : gsi \in Gsis(i) => find_ioapic(gsi) = i
           /\ find_ioapic(gsi) # 0 => /\ find_ioapic(gsi) \in DOMAIN apic.ioapic
                                      /\ gsi \in Gsis(find_ioapic(gsi))
<1> DEFINE found == {i \in DOMAIN apic.ioapic : gsi \in Gsis(i)}
<1>1. find_ioapic(gsi) = IF found = {} THEN 0 ELSE Min(found)
  <2>1. ASSUME NEW i \in DOMAIN apic.ioapic
        PROVE  gsi \in Gsis(i) <=> /\ gsi >= apic.ioapic[i].base
                                   /\ gsi < apic.ioapic[i].base + irq_count(apic.ioapic[i])
    <3>1. apic.ioapic[i].base \in Nat /\ apic.ioapic[i].answer \in 0 .. 119
      BY Machine
    <3> QED
      BY <3>1 DEF Gsis, irq_count
  <2>2. found = {i \in DOMAIN apic.ioapic : /\ gsi >= apic.ioapic[i].base
                                            /\ gsi < apic.ioapic[i].base + irq_count(apic.ioapic[i])}
    BY <2>1
  <2> HIDE DEF found
  <2> QED
    BY <2>2, Zenon DEF find_ioapic
<1>2. ASSUME NEW i \in DOMAIN apic.ioapic, gsi \in Gsis(i)
      PROVE  find_ioapic(gsi) = i
  <2>1. \A j \in DOMAIN apic.ioapic : gsi \in Gsis(j) => j = i
    BY <1>2, Machine
  <2>2. found = {i} /\ i \in Int
    BY <1>2, <2>1, Machine
  <2>3. Min(found) = i /\ found # {}
    BY <2>2, Alone
  <2> HIDE DEF found
  <2> QED
    BY <1>1, <2>3
<1>3. ASSUME find_ioapic(gsi) # 0
      PROVE  find_ioapic(gsi) \in DOMAIN apic.ioapic /\ gsi \in Gsis(find_ioapic(gsi))
  <2>1. PICK i \in found : TRUE
    BY <1>1, <1>3
  <2> QED
    BY <1>2, <2>1
<1> QED
  BY <1>2, <1>3
-----------------------------------------------------------------------------
\* Where a request is written: the I/O APIC and the low register of the pin.
Chip(a) == find_ioapic(gsi_of(a[2]))
Low(a)  == 16 + (gsi_of(a[2]) - apic.ioapic[Chip(a)].base) * 2

(* An asked irq is one of the irqs of the gsi that the kernel takes for it,
   and of no other. *)
LEMMA RightGsi ==
    ASSUME Knows, NEW a \in Asked
    PROVE  /\ gsi_of(a[2]) \in Nat /\ a[2] \in Irq(gsi_of(a[2]))
           /\ \A gsi : a[2] \in Irq(gsi) => gsi_of(a[2]) = gsi
<1> DEFINE irq == a[2]
           From(gsi) == {e.source : e \in {o \in Says("iso") : o.gsi = gsi}}
<1>1. irq \in Nat
  BY DEF Asked
<1>2. \A gsi : Irq(gsi) = IF From(gsi) # {} THEN From(gsi)
                          ELSE IF \E o \in Says("iso") : o.source = gsi THEN {} ELSE {gsi}
  BY Zenon DEF Irq
<1>3. Says("iso") = {apic.iso[i] : i \in DOMAIN apic.iso}
  BY Machine, Zenon
<1>4. /\ \A i \in DOMAIN apic.iso : apic.iso[i].gsi \in Nat
      /\ \/ \E i \in DOMAIN apic.iso : apic.iso[i].source = irq
         \/ \A i \in DOMAIN apic.iso : apic.iso[i].gsi # irq
  BY Machine, Zenon
<1>5. /\ \A i \in DOMAIN apic.iso : apic.iso[i].source = irq => gsi_of(irq) = apic.iso[i].gsi
      /\ (\A i \in DOMAIN apic.iso : apic.iso[i].source # irq) => gsi_of(irq) = irq
  BY Overridden
<1> HIDE DEF irq
<1>6. \A gsi : irq \in From(gsi) <=> \E i \in DOMAIN apic.iso : apic.iso[i].source = irq /\ apic.iso[i].gsi = gsi
  BY <1>3
<1>7. gsi_of(irq) \in Nat
  BY <1>1, <1>4, <1>5
<1>8. irq \in Irq(gsi_of(irq))
  <2>1. CASE \E i \in DOMAIN apic.iso : apic.iso[i].source = irq
    <3>1. irq \in From(gsi_of(irq))
      BY <1>5, <1>6, <2>1
    <3> HIDE DEF From
    <3> QED
      BY <1>2, <3>1
  <2>2. CASE \A i \in DOMAIN apic.iso : apic.iso[i].source # irq
    <3>1. gsi_of(irq) = irq /\ \A i \in DOMAIN apic.iso : apic.iso[i].gsi # irq
      BY <1>4, <1>5, <2>2
    <3>2. From(irq) = {} /\ ~ \E o \in Says("iso") : o.source = irq
      BY <1>3, <2>2, <3>1
    <3> HIDE DEF From
    <3> QED
      BY <1>2, <3>1, <3>2
  <2> QED
    BY <2>1, <2>2
<1>9. ASSUME NEW gsi, irq \in Irq(gsi) PROVE gsi_of(irq) = gsi
  <2>1. CASE From(gsi) # {}
    <3>1. irq \in From(gsi)
      BY <1>2, <1>9, <2>1
    <3> QED
      BY <1>5, <1>6, <3>1
  <2>2. CASE From(gsi) = {}
    <3>1. irq = gsi /\ ~ \E o \in Says("iso") : o.source = gsi
      <4> HIDE DEF From
      <4> QED
        BY <1>2, <1>9, <2>2
    <3>2. \A i \in DOMAIN apic.iso : apic.iso[i].source # irq
      BY <1>3, <3>1
    <3> QED
      BY <1>5, <3>1, <3>2
  <2> QED
    BY <2>1, <2>2
<1> QED
  BY <1>7, <1>8, <1>9 DEF irq

(* A request that has a chip has a pin of it. *)
LEMMA HasPin ==
    ASSUME Knows, NEW a \in Asked, Chip(a) # 0
    PROVE  /\ Chip(a) \in DOMAIN apic.ioapic /\ Chip(a) \in 1 .. CHIPS
           /\ \E pin \in 0 .. apic.ioapic[Chip(a)].answer :
                 Low(a) = 16 + 2 * pin /\ a[2] \in Irq(apic.ioapic[Chip(a)].base + pin)
<1> DEFINE g == gsi_of(a[2])
           i == Chip(a)
<1>1. g \in Nat /\ a[2] \in Irq(g)
  BY RightGsi
<1>2. i \in DOMAIN apic.ioapic /\ g \in Gsis(i)
  <2>1. i = find_ioapic(g)
    BY DEF Chip
  <2> HIDE DEF g
  <2> QED
    BY <1>1, <2>1, FoundChip
<1>3. i \in 1 .. CHIPS /\ apic.ioapic[i].base \in Nat /\ apic.ioapic[i].answer \in 0 .. 119
  BY <1>2, Machine
<1>4. Low(a) = 16 + (g - apic.ioapic[i].base) * 2
  BY DEF Low
<1> HIDE DEF g, i
<1>5. PICK pin \in 0 .. apic.ioapic[i].answer : g = apic.ioapic[i].base + pin
  <2>1. /\ g - apic.ioapic[i].base \in 0 .. apic.ioapic[i].answer
        /\ g = apic.ioapic[i].base + (g - apic.ioapic[i].base)
    BY <1>1, <1>2, <1>3 DEF Gsis
  <2> QED
    BY <2>1
<1>6. Low(a) = 16 + 2 * pin
  <2>1. g - apic.ioapic[i].base = pin
    BY <1>3, <1>5
  <2> QED
    BY <1>3, <1>4, <2>1
<1>7. a[2] \in Irq(apic.ioapic[i].base + pin)
  BY <1>1, <1>5
<1> QED
  BY <1>2, <1>3, <1>6, <1>7 DEF i

(* The pin of an asked irq is the one that its request is written to. *)
LEMMA PinOf ==
    ASSUME Knows, NEW i \in DOMAIN apic.ioapic, NEW pin \in 0 .. apic.ioapic[i].answer,
           NEW a \in Asked, a[2] \in Irq(apic.ioapic[i].base + pin)
    PROVE  Chip(a) = i /\ Low(a) = 16 + 2 * pin
<1> DEFINE g == apic.ioapic[i].base + pin
<1>1. apic.ioapic[i].base \in Nat /\ apic.ioapic[i].answer \in 0 .. 119
  BY Machine
<1>2. gsi_of(a[2]) = g
  BY RightGsi
<1>3. g \in Nat /\ g \in Gsis(i) /\ g - apic.ioapic[i].base = pin
  BY <1>1 DEF Gsis
<1> HIDE DEF g
<1>4. Chip(a) = i
  BY <1>2, <1>3, FoundChip DEF Chip
<1>5. Low(a) = 16 + pin * 2
  BY <1>2, <1>3, <1>4 DEF Low
<1> QED
  BY <1>1, <1>4, <1>5
-----------------------------------------------------------------------------
\* A core whose accesses no other core's come between: all of them are, if
\* there is no third core, and the boot processor always is.
Private(c) == Contended => c = BSP

Access == {"low", "next", "high", "enable", "again", "stray"}
Clocks == <<<<CLOCK, 0>>, <<APIC_ERROR, 124>>, <<APIC_SPURIOUS, 125>>>>

\* The second call of the boot processor reads the table.
Known ==
    IF Len(boot[BSP]) >= 10
    THEN apic = NoApic /\ redirection = [i \in 1 .. CHIPS |-> <<>>]
    ELSE apic = madt(firmware)

\* What the two calls that register have left to do.
Requests ==
    /\ DOMAIN todo = Cores
    /\ \A c \in Cores : at[c] \in Access \cup {"route"} =>
          \/ c = BSP /\ Len(boot[c]) = 5 /\ todo[c] \in {Clocks, Tail(Clocks), Tail(Tail(Clocks)), <<>>}
          \/ Len(boot[c]) = (IF c = BSP THEN 3 ELSE 1) /\ todo[c] \in {<<<<SYSCALL, 96>>>>, <<>>}

\* A core between two accesses: the pair of registers is as it left it, or, if
\* another core registers the same request, as one of the two left it.
Reached(a) == {Low(a), Low(a) + 1, Chip(a), Chip(a) - 1}
Accessing(c) ==
    /\ todo[c] # <<>> /\ Chip(Head(todo[c])) # 0
    /\ Private(c) =>
          /\ at[c] = "low" => select[Chip(Head(todo[c]))] = Low(Head(todo[c]))
          /\ at[c] # "low" => Low(Head(todo[c])) \in DOMAIN redirection[Chip(Head(todo[c]))]
          /\ at[c] = "high" => select[Chip(Head(todo[c]))] = Low(Head(todo[c])) + 1
    /\ ~ Private(c) /\ at[c] \in {"low", "high"} =>
          select[Chip(Head(todo[c]))] \in Reached(Head(todo[c]))

\* An entry that has been written delivers what was asked for, or is about to.
Delivers(i, pin) ==
    16 + 2 * pin \in DOMAIN redirection[i] =>
        /\ \E a \in Asked : /\ a[2] \in Irq(apic.ioapic[i].base + pin)
                            /\ redirection[i][16 + 2 * pin] = a[1]
        /\ \/ 17 + 2 * pin \in DOMAIN redirection[i] /\ redirection[i][17 + 2 * pin] = 0
           \/ \E c \in Cores : /\ at[c] \in {"next", "high"}
                               /\ Chip(Head(todo[c])) = i /\ Low(Head(todo[c])) = 16 + 2 * pin

\* What the boot processor is still to register; the rest has an entry.
Left ==
    (IF Len(boot[BSP]) >= 6 THEN Range(Clocks) ELSE {}) \cup
    (IF Len(boot[BSP]) >= 4 THEN {<<SYSCALL, 96>>} ELSE {}) \cup
    (IF at[BSP] \in Access \cup {"route"} THEN Range(todo[BSP]) ELSE {})
Done ==
    at[BSP] # "main" =>
        \A a \in Asked \ Left : Chip(a) = 0 \/ Low(a) \in DOMAIN redirection[Chip(a)]

Chips ==
    /\ select \in [1 .. CHIPS -> Int] /\ DOMAIN redirection = 1 .. CHIPS
    /\ \A i \in DOMAIN apic.ioapic :
          /\ DOMAIN redirection[i] \subseteq Written(i)
          /\ \A pin \in 0 .. apic.ioapic[i].answer : Loose(i, pin) \/ Delivers(i, pin)

Wired ==
    /\ Known /\ Requests /\ Done /\ Chips
    /\ \A c \in Cores : at[c] \in Access => Accessing(c)

(* The invariant gives the property. *)
LEMMA Obeyed == ASSUME FirmwareInOrder, IInv, Ahead, Wired PROVE FirmwareIsObeyed
<1>1. apic = NoApic \/ Knows
  BY DEF Wired, Known, Knows, Ahead, Values
<1>2. TableIsReadExactly
  <2> SUFFICES ASSUME apic # NoApic PROVE TableIsReadExactly
    BY DEF TableIsReadExactly
  <2>1. /\ apic.core_count = Cardinality(Listed(firmware, "lapic"))
        /\ Says("ioapic") = {apic.ioapic[i] : i \in DOMAIN apic.ioapic}
        /\ Says("iso") = {apic.iso[i] : i \in DOMAIN apic.iso}
    BY <1>1, Machine
  <2>2. Range(apic.ioapic) = Says("ioapic") /\ Range(apic.iso) = Says("iso")
    BY <2>1 DEF Range
  <2> QED
    BY <2>1, <2>2, Zenon DEF TableIsReadExactly
<1>3. RoutesAreExact
  <2> DEFINE for(i, pin) == {a \in Asked : a[2] \in Irq(apic.ioapic[i].base + pin)}
  <2> SUFFICES ASSUME \A c \in Cores : at[c] \notin {"low", "next", "high", "enable", "again", "stray"},
                      NEW i \in DOMAIN apic.ioapic
               PROVE  /\ DOMAIN redirection[i] \subseteq Written(i)
                      /\ \A pin \in 0 .. apic.ioapic[i].answer : ~ Loose(i, pin) =>
                            IF 16 + 2 * pin \in DOMAIN redirection[i]
                            THEN \E a \in for(i, pin) : /\ redirection[i][16 + 2 * pin] = a[1]
                                                        /\ redirection[i][(16 + 2 * pin) + 1] = 0
                            ELSE at[BSP] = "run" => for(i, pin) = {}
    BY Zenon DEF RoutesAreExact
  <2>1. DOMAIN redirection[i] \subseteq Written(i)
    BY DEF Wired, Chips
  <2>2. Knows
    BY <1>1 DEF NoApic
  <2>3. i \in 1 .. CHIPS /\ apic.ioapic[i].answer \in 0 .. 119
    BY <2>2, Machine
  <2>4. ASSUME NEW pin \in 0 .. apic.ioapic[i].answer, ~ Loose(i, pin),
               16 + 2 * pin \in DOMAIN redirection[i]
        PROVE  \E a \in for(i, pin) : /\ redirection[i][16 + 2 * pin] = a[1]
                                      /\ redirection[i][(16 + 2 * pin) + 1] = 0
    <3>1. Delivers(i, pin)
      BY <2>4 DEF Wired, Chips
    <3>2. (16 + 2 * pin) + 1 = 17 + 2 * pin
      BY <2>3
    <3> QED
      BY <2>4, <3>1, <3>2, Zenon DEF Delivers
  <2>5. ASSUME NEW pin \in 0 .. apic.ioapic[i].answer, 16 + 2 * pin \notin DOMAIN redirection[i],
               at[BSP] = "run", NEW a \in for(i, pin)
        PROVE  FALSE
    <3>1. Chip(a) = i /\ Low(a) = 16 + 2 * pin
      BY <2>2, PinOf
    <3>2. Len(boot[BSP]) = 0
      BY <2>5, CoreAssumption DEF Ahead, Own
    <3>3. Left = {}
      BY <2>5, <3>2 DEF Left, Access
    <3>4. Chip(a) = 0 \/ Low(a) \in DOMAIN redirection[Chip(a)]
      BY <2>5, <3>3 DEF Wired, Done
    <3>5. i # 0
      BY <2>3
    <3> QED
      BY <2>5, <3>1, <3>4, <3>5
  <2> QED
    BY <2>1, <2>4, <2>5
<1> QED
  BY <1>2, <1>3 DEF FirmwareIsObeyed

(* Nothing has been read or asked for when the boot processor comes in. *)
LEMMA InitWired == Init => Wired
<1> SUFFICES ASSUME Init PROVE Wired
  OBVIOUS
<1> USE CoreAssumption
<1>1. Len(boot[BSP]) = 11 /\ at[BSP] = "boot"
  <2>1. boot[BSP] = loader_entry
    BY DEF Init
  <2> QED
    BY <2>1, Plans DEF Init
<1>2. Known
  <2>1. Len(boot[BSP]) >= 10
    BY <1>1
  <2>2. apic = NoApic /\ redirection = [i \in 1 .. CHIPS |-> <<>>]
    BY Zenon DEF Init, RoutingInit
  <2> QED
    BY <2>1, <2>2, Zenon DEF Known
<1>3. Requests /\ \A c \in Cores : at[c] \notin Access
  BY DEF Init, Requests, Access
<1>4. Done
  <2>1. Asked \subseteq Left
    <3>1. Range(Clocks) = {<<CLOCK, 0>>, <<APIC_ERROR, 124>>, <<APIC_SPURIOUS, 125>>}
      BY DEF Range, Clocks
    <3> QED
      BY <1>1, <3>1 DEF Left, Asked
  <2> QED
    BY <2>1 DEF Done
<1>5. Chips
  <2>1. select \in [1 .. CHIPS -> Int] /\ DOMAIN redirection = 1 .. CHIPS
    BY DEF Init, RoutingInit
  <2>2. DOMAIN apic.ioapic = {}
    BY DEF Init, RoutingInit, NoApic
  <2> QED
    BY <2>1, <2>2 DEF Chips
<1> QED
  BY <1>2, <1>3, <1>4, <1>5 DEF Wired
-----------------------------------------------------------------------------
(* Head, tail and range of the short sequences that requests are. *)
LEMMA Triples ==
    ASSUME NEW x, NEW y, NEW z
    PROVE  /\ Head(<<x, y, z>>) = x /\ Tail(<<x, y, z>>) = <<y, z>> /\ Range(<<x, y, z>>) = {x, y, z}
           /\ Head(<<x, y>>) = x /\ Tail(<<x, y>>) = <<y>> /\ Range(<<x, y>>) = {x, y}
           /\ Head(<<x>>) = x /\ Tail(<<x>>) = <<>> /\ Range(<<x>>) = {x} /\ Range(<<>>) = {}
  BY DEF Range

(* A core that has requests has the table, and asks for what is asked. *)
LEMMA Asks ==
    ASSUME FirmwareInOrder, IInv, Ahead, Wired, NEW c \in Cores, at[c] \in Access \cup {"route"}
    PROVE  /\ Knows /\ ~ (Len(boot[BSP]) >= 10)
           /\ todo[c] # <<>> => /\ Head(todo[c]) \in Asked
                                /\ Range(todo[c]) = {Head(todo[c])} \cup Range(Tail(todo[c]))
<1>1. \/ c = BSP /\ Len(boot[c]) = 5 /\ todo[c] \in {Clocks, Tail(Clocks), Tail(Tail(Clocks)), <<>>}
      \/ Len(boot[c]) = (IF c = BSP THEN 3 ELSE 1) /\ todo[c] \in {<<<<SYSCALL, 96>>>>, <<>>}
  BY DEF Wired, Requests
<1>2. ~ (Len(boot[BSP]) >= 10)
  <2>1. CASE c = BSP
    <3>1. Len(boot[BSP]) = 5 \/ Len(boot[BSP]) = 3
      BY <1>1, <2>1, Zenon
    <3>2. ~ (5 >= 10) /\ ~ (3 >= 10)
      OBVIOUS
    <3> QED
      BY <3>1, <3>2, Zenon
  <2>2. CASE c # BSP
    <3>1. c \in go /\ Len(boot[BSP]) \in Nat
      BY <2>2, CoreAssumption DEF Ahead, Own, Access, IInv, Shape
    <3>2. Len(boot[BSP]) <= 2
      BY <3>1 DEF Ahead, Shared
    <3> QED
      BY <3>1, <3>2
  <2> QED
    BY <2>1, <2>2
<1>3. Knows
  BY <1>2 DEF Knows, Wired, Known, Ahead, Values
<1>4. todo[c] # <<>> => /\ Head(todo[c]) \in Asked
                        /\ Range(todo[c]) = {Head(todo[c])} \cup Range(Tail(todo[c]))
  <2>1. todo[c] \in {Clocks, Tail(Clocks), Tail(Tail(Clocks)), <<<<SYSCALL, 96>>>>, <<>>}
    BY <1>1, Zenon
  <2> DEFINE x == <<CLOCK, 0>>
             y == <<APIC_ERROR, 124>>
             z == <<APIC_SPURIOUS, 125>>
             u == <<SYSCALL, 96>>
  <2>2. Clocks = <<x, y, z>> /\ x \in Asked /\ y \in Asked /\ z \in Asked /\ u \in Asked
    BY DEF Clocks, Asked
  <2> HIDE DEF x, y, z, u
  <2>3. todo[c] \in {<<x, y, z>>, <<y, z>>, <<z>>, <<u>>, <<>>}
    BY <2>1, <2>2, Triples DEF u
  <2> DEFINE Good(q) == Head(q) \in Asked /\ Range(q) = {Head(q)} \cup Range(Tail(q))
  <2>4. Good(<<z>>) /\ Good(<<u>>)
    BY <2>2, Triples
  <2>5. Good(<<y, z>>)
    <3>1. Head(<<y, z>>) = y /\ Tail(<<y, z>>) = <<z>> /\ Range(<<y, z>>) = {y, z} /\ Range(<<z>>) = {z}
      BY Triples, Zenon
    <3>2. {y, z} = {y} \cup {z}
      OBVIOUS
    <3> QED
      BY <2>2, <3>1, <3>2
  <2>6. Good(<<x, y, z>>)
    <3>1. Head(<<x, y, z>>) = x /\ Tail(<<x, y, z>>) = <<y, z>>
      OBVIOUS
    <3>b. Range(<<x, y, z>>) = {x, y, z}
      BY DEF Range
    <3>a. Range(<<y, z>>) = {y, z}
      BY Triples, Zenon
    <3>2. {x, y, z} = {x} \cup {y, z}
      OBVIOUS
    <3> QED
      BY <2>2, <3>1, <3>a, <3>b, <3>2
  <2> HIDE DEF Good
  <2>7. todo[c] # <<>> => Good(todo[c])
    BY <2>3, <2>4, <2>5, <2>6, Zenon
  <2> QED
    BY <2>7 DEF Good
<1> QED
  BY <1>2, <1>3, <1>4

(* No core's accesses come between those of a private one. *)
LEMMA OneAccess ==
    ASSUME IInv, Ahead, Wired, NEW c \in Cores, NEW d \in Cores,
           at[c] \in Access \cup {"route"}, at[d] \in Access, Private(c) \/ Private(d)
    PROVE  c = d
<1> SUFFICES ASSUME c # d PROVE FALSE
  OBVIOUS
<1>1. \A e \in Cores : at[e] \in Access \cup {"route"} =>
          /\ e = BSP => Len(boot[BSP]) \in {3, 5}
          /\ e # BSP => e \in go /\ todo[e] \in {<<<<SYSCALL, 96>>>>, <<>>}
  BY DEF Wired, Requests, Ahead, Own, Access
<1>2. c # BSP /\ d # BSP
  <2>1. go # {} => Len(boot[BSP]) <= 2
    BY DEF Ahead, Shared
  <2>2. ~ (3 <= 2) /\ ~ (5 <= 2)
    OBVIOUS
  <2> QED
    BY <1>1, <2>1, <2>2
<1> QED
  BY <1>2 DEF Private, Contended

(* Cores whose accesses come between each other's make the same request. *)
LEMMA Same ==
    ASSUME Wired, NEW c \in Cores, at[c] \in Access \cup {"route"}, todo[c] # <<>>, ~ Private(c)
    PROVE  c # BSP /\ Contended /\ Head(todo[c]) = <<SYSCALL, 96>>
<1>1. c # BSP /\ Contended
  BY DEF Private
<1>2. todo[c] = <<<<SYSCALL, 96>>>>
  BY <1>1 DEF Wired, Requests
<1> QED
  BY <1>1, <1>2

(* A step that writes no entry, of a core that is not about to complete one:
   what is left to show is that the boot processor's requests are in order. *)
LEMMA Apart ==
    ASSUME IInv, Wired, NEW c \in Cores, NEW s, at' = [at EXCEPT ![c] = s],
           at[c] \notin {"next", "high"}, s \notin Access,
           UNCHANGED <<firmware, apic, select, redirection>>,
           \A d \in Cores : d # c => todo'[d] = todo[d],
           Known', Requests', Done'
    PROVE  Wired'
<1>1. \A d \in Cores : at'[d] = IF d = c THEN s ELSE at[d]
  BY DEF IInv, Shape
<1>2. \A a : Chip(a)' = Chip(a) /\ Low(a)' = Low(a)
  BY DEF Chip, Low, find_ioapic, gsi_of, irq_count
<1>3. \A g : Irq(g)' = Irq(g)
  BY DEF Irq, Says, Listed
<1>4. ASSUME NEW d \in Cores, at'[d] \in Access PROVE Accessing(d)'
  <2>1. d # c /\ at'[d] = at[d] /\ at[d] \in Access /\ todo'[d] = todo[d]
    BY <1>1, <1>4
  <2>2. Accessing(d)
    BY <2>1 DEF Wired
  <2> QED
    BY <1>2, <2>1, <2>2 DEF Accessing, Reached
<1>5. Chips'
  <2>1. ASSUME NEW i \in DOMAIN apic.ioapic, NEW pin \in 0 .. apic.ioapic[i].answer, ~ Loose(i, pin)
        PROVE  Delivers(i, pin)'
    <3>1. Delivers(i, pin)
      BY <2>1 DEF Wired, Chips
    <3>2. \A d \in Cores : at[d] \in {"next", "high"} => at'[d] = at[d] /\ todo'[d] = todo[d]
      BY <1>1
    <3> QED
      BY <1>2, <1>3, <3>1, <3>2 DEF Delivers
  <2>2. \A i, pin : Loose(i, pin)' = Loose(i, pin)
    BY <1>3 DEF Loose
  <2> QED
    BY <2>1, <2>2 DEF Wired, Chips, Written, irq_count
<1> QED
  BY <1>4, <1>5 DEF Wired
-----------------------------------------------------------------------------
(* A core that moves on in register_ioapic leaves the requests as they are. *)
LEMMA MovesOn ==
    ASSUME IInv, Wired, NEW c \in Cores, NEW s \in Access \cup {"route"},
           at[c] \in Access \cup {"route"}, at' = [at EXCEPT ![c] = s],
           UNCHANGED <<boot, todo>>
    PROVE  /\ \A d \in Cores : at'[d] = IF d = c THEN s ELSE at[d]
           /\ Requests' /\ Left' = Left /\ (at'[BSP] # "main" => at[BSP] # "main")
<1> USE CoreAssumption
<1>1. \A d \in Cores : at'[d] = IF d = c THEN s ELSE at[d]
  BY DEF IInv, Shape
<1>2. \A d \in Cores : at'[d] \in Access \cup {"route"} <=> at[d] \in Access \cup {"route"}
  BY <1>1
<1>3. Requests'
  BY <1>2 DEF Wired, Requests
<1>4. Left' = Left
  <2>1. (at'[BSP] \in Access \cup {"route"}) = (at[BSP] \in Access \cup {"route"})
    BY <1>2
  <2> QED
    BY <2>1 DEF Left
<1>5. at'[BSP] # "main" => at[BSP] # "main"
  BY <1>1 DEF Access
<1> QED
  BY <1>1, <1>3, <1>4, <1>5

(* Selecting a register of the core's chip. *)
LEMMA SelectStep ==
    ASSUME FirmwareInOrder, IInv, Ahead, Wired, NEW c \in Cores, NEW s \in Access, NEW x \in Int,
           at[c] \in Access \cup {"route"}, todo[c] # <<>>, Chip(Head(todo[c])) # 0,
           at' = [at EXCEPT ![c] = s],
           select' = [select EXCEPT ![Chip(Head(todo[c]))] = x],
           UNCHANGED <<firmware, boot, todo, apic, redirection>>,
           x \in Reached(Head(todo[c])),
           s = "low" => x = Low(Head(todo[c])),
           s = "high" => x = Low(Head(todo[c])) + 1,
           s # "low" => at[c] \in Access \ {"low"},
           at[c] \in {"next", "high"} => s \in {"next", "high"}
    PROVE  Wired'
<1> DEFINE a == Head(todo[c])
           i == Chip(a)
<1>1. /\ \A d \in Cores : at'[d] = IF d = c THEN s ELSE at[d]
      /\ Requests' /\ Left' = Left /\ (at'[BSP] # "main" => at[BSP] # "main")
  BY MovesOn
<1>2. \A b : Chip(b)' = Chip(b) /\ Low(b)' = Low(b)
  BY ZenonT(40) DEF Chip, Low, find_ioapic, gsi_of, irq_count
<1>3. \A g : Irq(g)' = Irq(g)
  BY DEF Irq, Says, Listed
<1>4. i \in 1 .. CHIPS
  BY Asks, HasPin
<1>5. select \in [1 .. CHIPS -> Int]
  BY DEF Wired, Chips
<1>s. select'[i] = x
  BY <1>4, <1>5
<1>6. ASSUME NEW d \in Cores, d # c, at'[d] \in Access PROVE Accessing(d)'
  <2>1. at'[d] = at[d] /\ at[d] \in Access /\ Accessing(d)
    BY <1>1, <1>6 DEF Wired
  <2>2. ~ Private(c) /\ ~ Private(d)
    BY <1>6, <2>1, OneAccess
  <2>3. Head(todo[d]) = a
    BY <2>1, <2>2, Same DEF Accessing
  <2> QED
    BY <1>2, <1>s, <2>1, <2>2, <2>3 DEF Accessing, Reached
<1>7. Accessing(c)'
  <2>1. /\ at[c] \in Access => Accessing(c)
        /\ at'[c] = s
    BY <1>1 DEF Wired
  <2>2. Private(c) /\ s # "low" => Low(a) \in DOMAIN redirection[i]
    BY <2>1 DEF Accessing
  <2> QED
    BY <1>2, <1>s, <2>1, <2>2 DEF Accessing, Reached
<1>8. Known'
  BY DEF Wired, Known
<1>9. Done'
  BY <1>1, <1>2 DEF Wired, Done, Asked
<1>10. Chips'
  <2>1. ASSUME NEW j \in DOMAIN apic.ioapic, NEW pin \in 0 .. apic.ioapic[j].answer, ~ Loose(j, pin)
        PROVE  Delivers(j, pin)'
    <3>1. Delivers(j, pin)
      BY <2>1 DEF Wired, Chips
    <3>2. \A d \in Cores : at[d] \in {"next", "high"} => at'[d] \in {"next", "high"}
      BY <1>1
    <3> QED
      BY <1>2, <1>3, <3>1, <3>2 DEF Delivers
  <2>2. select' \in [1 .. CHIPS -> Int]
    BY <1>4, <1>5
  <2>3. \A j, pin : Loose(j, pin)' = Loose(j, pin)
    BY <1>3 DEF Loose
  <2> QED
    BY <2>1, <2>2, <2>3 DEF Wired, Chips, Written, irq_count
<1> QED
  BY <1>1, <1>6, <1>7, <1>8, <1>9, <1>10 DEF Wired

(* The low and the high registers of pins are all different. *)
LEMMA Parity ==
    ASSUME NEW p \in Nat, NEW q \in Nat
    PROVE  /\ 16 + 2 * p # 17 + 2 * q
           /\ 16 + 2 * p = 16 + 2 * q => p = q
           /\ 17 + 2 * p = 17 + 2 * q => p = q
           /\ (16 + 2 * p) + 1 = 17 + 2 * p
  OBVIOUS

(* The window of a private core writes what it means, where it means it. *)
LEMMA WindowStep ==
    ASSUME FirmwareInOrder, IInv, Ahead, Wired, NEW c \in Cores, at[c] \in {"low", "high"}, Private(c),
           at' = [at EXCEPT ![c] = IF at[c] = "low" THEN "next" ELSE "enable"],
           redirection' = [redirection EXCEPT ![Chip(Head(todo[c]))] =
               [r \in DOMAIN @ \cup {select[Chip(Head(todo[c]))]} |->
                   IF r # select[Chip(Head(todo[c]))] THEN @[r]
                   ELSE IF at[c] = "low" THEN Head(todo[c])[1] ELSE 0]],
           UNCHANGED <<firmware, boot, todo, apic, select>>
    PROVE  Wired'
<1> DEFINE a == Head(todo[c])
           i == Chip(a)
           w == select[i]
           s == IF at[c] = "low" THEN "next" ELSE "enable"
           v == IF at[c] = "low" THEN a[1] ELSE 0
<1>0. at[c] \in Access /\ s \in Access
  BY DEF Access
<1>s. at' = [at EXCEPT ![c] = s]
  OBVIOUS
<1>h. /\ at[c] = "low" => s = "next" /\ v = a[1]
      /\ at[c] = "high" => s = "enable" /\ v = 0
  OBVIOUS
<1>r. redirection' = [redirection EXCEPT ![i] =
          [r \in DOMAIN redirection[i] \cup {w} |-> IF r = w THEN v ELSE redirection[i][r]]]
  <2>1. CASE i \in DOMAIN redirection
    BY <2>1
  <2>2. CASE i \notin DOMAIN redirection
    BY <2>2
  <2> QED
    BY <2>1, <2>2
<1> HIDE DEF s, v
<1>1. /\ \A d \in Cores : at'[d] = IF d = c THEN s ELSE at[d]
      /\ Requests' /\ Left' = Left /\ (at'[BSP] # "main" => at[BSP] # "main")
  <2>1. s \in Access \cup {"route"} /\ at[c] \in Access \cup {"route"} /\ UNCHANGED <<boot, todo>>
    BY <1>0
  <2> QED
    BY <1>s, <2>1, MovesOn, Zenon
<1>2. \A b : Chip(b)' = Chip(b) /\ Low(b)' = Low(b)
  BY ZenonT(40) DEF Chip, Low, find_ioapic, gsi_of, irq_count
<1>3. \A g : Irq(g)' = Irq(g)
  BY DEF Irq, Says, Listed
<1>a. /\ Accessing(c) /\ todo[c] # <<>> /\ i # 0
      /\ at[c] = "low" => w = Low(a)
      /\ at[c] = "high" => w = Low(a) + 1 /\ Low(a) \in DOMAIN redirection[i]
  BY <1>0 DEF Wired, Accessing
<1>4. Knows /\ ~ (Len(boot[BSP]) >= 10) /\ a \in Asked
  BY <1>0, <1>a, Asks
<1>5. i \in DOMAIN apic.ioapic /\ i \in 1 .. CHIPS
  BY <1>4, <1>a, HasPin
<1>6. PICK pin0 \in 0 .. apic.ioapic[i].answer :
          Low(a) = 16 + 2 * pin0 /\ a[2] \in Irq(apic.ioapic[i].base + pin0)
  BY <1>4, <1>a, HasPin
<1>7. \A d \in Cores : d # c => at[d] \notin Access
  BY <1>0, <1>a, OneAccess
<1> HIDE DEF a, i, w
<1>8. /\ \A j \in 1 .. CHIPS : j # i => redirection'[j] = redirection[j]
      /\ redirection'[i] = [r \in DOMAIN redirection[i] \cup {w} |-> IF r = w THEN v ELSE redirection[i][r]]
      /\ DOMAIN redirection' = 1 .. CHIPS
  <2>1. DOMAIN redirection = 1 .. CHIPS
    BY DEF Wired, Chips
  <2> QED
    BY <1>5, <1>r, <2>1
<1>9. DOMAIN redirection'[i] = DOMAIN redirection[i] \cup {w}
  BY <1>8
<1>v. redirection'[i][w] = v
  <2> DEFINE f == redirection[i]
             g == redirection'[i]
  <2>1. g = [r \in DOMAIN f \cup {w} |-> IF r = w THEN v ELSE f[r]]
    BY <1>8
  <2> HIDE DEF f, g
  <2>2. g[w] = v
    BY <2>1
  <2> QED
    BY <2>2 DEF g
<1>10. \A j \in 1 .. CHIPS : DOMAIN redirection[j] \subseteq DOMAIN redirection'[j]
  BY <1>8, <1>9
<1>11. \A j \in DOMAIN apic.ioapic :
           j \in 1 .. CHIPS /\ apic.ioapic[j].answer \in Nat /\ apic.ioapic[j].base \in Nat
  <2>1. \A j \in DOMAIN apic.ioapic :
            j \in 1 .. CHIPS /\ apic.ioapic[j].base \in Nat /\ apic.ioapic[j].answer \in 0 .. 119
    BY <1>4, Machine, Zenon
  <2> QED
    BY <2>1, SMTT(40)
<1>12. Accessing(c)'
  <2>1. at'[c] = s /\ todo'[c] = todo[c] /\ Chip(Head(todo[c]))' = i /\ Low(Head(todo[c]))' = Low(a)
    BY <1>1, <1>2 DEF a, i
  <2>2. Low(a) \in DOMAIN redirection'[i]
    BY <1>a, <1>5, <1>9, <1>10
  <2>3. s # "low" /\ s # "high"
    BY <1>h
  <2> QED
    BY <1>a, <2>1, <2>2, <2>3 DEF Accessing
<1>13. Known'
  BY <1>4 DEF Wired, Known
<1>14. Done'
  <2>1. ASSUME NEW b \in Asked, Chip(b) # 0 PROVE Chip(b) \in 1 .. CHIPS
    BY <1>4, <2>1, HasPin
  <2>2. ASSUME at'[BSP] # "main", NEW b \in Asked \ Left
        PROVE  Chip(b) = 0 \/ Low(b) \in DOMAIN redirection'[Chip(b)]
    <3>1. Chip(b) = 0 \/ Low(b) \in DOMAIN redirection[Chip(b)]
      BY <1>1, <2>2 DEF Wired, Done
    <3> QED
      BY <1>10, <2>1, <3>1
  <2> QED
    BY <1>1, <1>2, <2>2 DEF Done, Asked
<1>15. ASSUME NEW j \in DOMAIN apic.ioapic, NEW pin \in 0 .. apic.ioapic[j].answer, ~ Loose(j, pin)
       PROVE  Delivers(j, pin)'
  <2>0. pin \in Nat /\ pin0 \in Nat /\ apic.ioapic[j].base + pin \in Nat
    BY <1>5, <1>11
  <2>1. Delivers(j, pin)
    BY <1>15 DEF Wired, Chips
  <2>2. ASSUME NEW d \in Cores, at[d] \in {"next", "high"} PROVE d = c /\ at[c] = "high"
    BY <1>7, <2>2 DEF Access
  <2>3. ASSUME 16 + 2 * pin \in DOMAIN redirection[j], ~ (j = i /\ pin = pin0)
        PROVE  /\ \E b \in Asked : b[2] \in Irq(apic.ioapic[j].base + pin) /\ redirection[j][16 + 2 * pin] = b[1]
               /\ 17 + 2 * pin \in DOMAIN redirection[j] /\ redirection[j][17 + 2 * pin] = 0
    <3>1. ~ \E d \in Cores : /\ at[d] \in {"next", "high"}
                             /\ Chip(Head(todo[d])) = j /\ Low(Head(todo[d])) = 16 + 2 * pin
      <4> SUFFICES ASSUME Chip(a) = j, Low(a) = 16 + 2 * pin PROVE FALSE
        BY <2>2 DEF a
      <4>1. j = i /\ 16 + 2 * pin = 16 + 2 * pin0
        BY <1>6 DEF i
      <4> QED
        BY <2>0, <2>3, <4>1, Parity
    <3> QED
      BY <2>1, <2>3, <3>1, Zenon DEF Delivers
  <2>4. Irq(apic.ioapic[j].base + pin)' = Irq(apic.ioapic[j].base + pin)
    BY <1>3
  <2>5. CASE j # i
    <3>1. redirection'[j] = redirection[j]
      BY <1>8, <1>11, <2>5
    <3> QED
      BY <2>3, <2>4, <2>5, <3>1 DEF Delivers, Asked
  <2>6. CASE j = i /\ pin # pin0
    <3>1. w # 16 + 2 * pin /\ w # 17 + 2 * pin
      BY <1>a, <1>6, <2>0, <2>6, Parity
    <3>2. /\ 16 + 2 * pin \in DOMAIN redirection'[j] <=> 16 + 2 * pin \in DOMAIN redirection[j]
          /\ 17 + 2 * pin \in DOMAIN redirection'[j] <=> 17 + 2 * pin \in DOMAIN redirection[j]
          /\ 16 + 2 * pin \in DOMAIN redirection[j] => redirection'[j][16 + 2 * pin] = redirection[j][16 + 2 * pin]
          /\ 17 + 2 * pin \in DOMAIN redirection[j] => redirection'[j][17 + 2 * pin] = redirection[j][17 + 2 * pin]
      BY <1>8, <1>9, <2>6, <3>1
    <3> QED
      BY <2>3, <2>4, <2>6, <3>2 DEF Delivers, Asked
  <2>7. CASE j = i /\ pin = pin0 /\ at[c] = "low"
    <3>1. w = 16 + 2 * pin /\ redirection'[j][16 + 2 * pin] = a[1]
      <4>1. w = 16 + 2 * pin
        BY <1>a, <1>6, <2>7
      <4>2. v = a[1]
        BY <1>h, <2>7
      <4> QED
        BY <1>v, <2>7, <4>1, <4>2
    <3>2. at'[c] \in {"next", "high"} /\ Chip(Head(todo[c]))' = j /\ Low(Head(todo[c]))' = 16 + 2 * pin
      BY <1>1, <1>2, <1>6, <1>h, <2>7 DEF a, i
    <3>3. a[2] \in Irq(apic.ioapic[j].base + pin)
      BY <1>6, <2>7
    <3> QED
      BY <1>4, <2>4, <3>1, <3>2, <3>3 DEF Delivers, Asked
  <2>8. CASE j = i /\ pin = pin0 /\ at[c] = "high"
    <3>1. w = 17 + 2 * pin
      BY <1>a, <1>6, <2>0, <2>8, Parity
    <3>2. 17 + 2 * pin \in DOMAIN redirection'[j] /\ redirection'[j][17 + 2 * pin] = 0
      <4>1. v = 0
        BY <1>h, <2>8
      <4>2. w \in DOMAIN redirection'[i] /\ redirection'[i][w] = v
        BY <1>8, <1>9
      <4> QED
        BY <2>8, <3>1, <4>1, <4>2
    <3>3. /\ 16 + 2 * pin \in DOMAIN redirection[j]
          /\ redirection'[j][16 + 2 * pin] = redirection[j][16 + 2 * pin]
      <4>1. 16 + 2 * pin \in DOMAIN redirection[j]
        BY <1>a, <1>6, <2>8
      <4>2. w # 16 + 2 * pin
        BY <2>0, <3>1, Parity
      <4> QED
        BY <1>8, <2>8, <4>1, <4>2
    <3>4. \E b \in Asked : b[2] \in Irq(apic.ioapic[j].base + pin) /\ redirection[j][16 + 2 * pin] = b[1]
      BY <2>1, <3>3, Zenon DEF Delivers
    <3> QED
      BY <2>4, <3>2, <3>3, <3>4 DEF Delivers, Asked
  <2> QED
    BY <2>5, <2>6, <2>7, <2>8
<1>16. \A j \in DOMAIN apic.ioapic : DOMAIN redirection'[j] \subseteq Written(j)
  <2> SUFFICES ASSUME NEW j \in DOMAIN apic.ioapic
               PROVE  DOMAIN redirection'[j] \subseteq Written(j)
    OBVIOUS
  <2>1. DOMAIN redirection[j] \subseteq Written(j)
    BY DEF Wired, Chips
  <2>2. CASE j # i
    BY <1>8, <1>11, <2>1, <2>2
  <2>3. CASE j = i
    <3>1. pin0 \in 0 .. apic.ioapic[j].answer /\ apic.ioapic[j].answer \in Nat
      BY <1>11, <2>3
    <3>2. w = 16 + 2 * pin0 \/ w = 17 + 2 * pin0
      BY <1>a, <1>6, <3>1, Parity
    <3>3. w \in 16 .. 16 + 2 * irq_count(apic.ioapic[j]) - 1
      <4> DEFINE n == apic.ioapic[j].answer
      <4>1. pin0 \in 0 .. n /\ n \in Nat /\ irq_count(apic.ioapic[j]) = n + 1
        BY <3>1 DEF irq_count
      <4> HIDE DEF n
      <4>2. w \in 16 .. 16 + 2 * (n + 1) - 1
        BY <3>2, <4>1
      <4> QED
        BY <4>1, <4>2
    <3> QED
      BY <1>9, <2>1, <2>3, <3>3 DEF Written
  <2> QED
    BY <2>2, <2>3
<1>17. Chips'
  <2>1. \A j, pin : Loose(j, pin)' = Loose(j, pin)
    BY <1>3 DEF Loose
  <2> QED
    BY <1>8, <1>15, <1>16, <2>1 DEF Wired, Chips, Written, irq_count
<1>18. \A d \in Cores : d # c => at'[d] \notin Access
  BY <1>1, <1>7
<1> QED
  BY <1>1, <1>12, <1>13, <1>14, <1>17, <1>18 DEF Wired

(* The window of one of several cores writes one of the four registers of their
   common request; no other pin has these. *)
LEMMA RacedWindow ==
    ASSUME FirmwareInOrder, IInv, Ahead, Wired, NEW c \in Cores, at[c] \in {"low", "high"},
           ~ Private(c), NEW s \in {"next", "enable"}, NEW v, s = "enable" => at[c] = "high",
           at' = [at EXCEPT ![c] = s],
           redirection' = [redirection EXCEPT ![Chip(Head(todo[c]))] =
               [r \in DOMAIN @ \cup {select[Chip(Head(todo[c]))]} |->
                   IF r = select[Chip(Head(todo[c]))] THEN v ELSE @[r]]],
           UNCHANGED <<firmware, boot, todo, apic, select>>
    PROVE  Wired'
<1> DEFINE a == Head(todo[c])
           i == Chip(a)
           w == select[i]
<1>0. at[c] \in Access /\ s \in Access
  BY DEF Access
<1>1. /\ \A d \in Cores : at'[d] = IF d = c THEN s ELSE at[d]
      /\ Requests' /\ Left' = Left /\ (at'[BSP] # "main" => at[BSP] # "main")
  <2>1. s \in Access \cup {"route"} /\ at[c] \in Access \cup {"route"} /\ UNCHANGED <<boot, todo>>
    BY <1>0
  <2> QED
    BY <2>1, MovesOn, Zenon
<1>2. \A b : Chip(b)' = Chip(b) /\ Low(b)' = Low(b)
  BY ZenonT(40) DEF Chip, Low, find_ioapic, gsi_of, irq_count
<1>3. \A g : Irq(g)' = Irq(g)
  BY DEF Irq, Says, Listed
<1>a. Accessing(c) /\ todo[c] # <<>> /\ i # 0 /\ w \in Reached(a)
  BY <1>0 DEF Wired, Accessing
<1>b. c # BSP /\ Contended /\ a = <<SYSCALL, 96>>
  BY <1>0, <1>a, Same
<1>4. Knows /\ a \in Asked
  BY <1>0, <1>a, Asks
<1>5. i \in DOMAIN apic.ioapic /\ i \in 1 .. CHIPS
  BY <1>4, <1>a, HasPin
<1>6. PICK pin0 \in 0 .. apic.ioapic[i].answer :
          Low(a) = 16 + 2 * pin0 /\ a[2] \in Irq(apic.ioapic[i].base + pin0)
  BY <1>4, <1>a, HasPin
<1>7. Loose(i, pin0)
  BY <1>b, <1>6 DEF Loose
<1>8. /\ \A j \in 1 .. CHIPS : j # i => redirection'[j] = redirection[j]
      /\ redirection'[i] = [r \in DOMAIN redirection[i] \cup {w} |-> IF r = w THEN v ELSE redirection[i][r]]
      /\ DOMAIN redirection' = 1 .. CHIPS
  <2>1. DOMAIN redirection = 1 .. CHIPS
    BY DEF Wired, Chips
  <2>2. redirection' = [redirection EXCEPT ![i] =
            [r \in DOMAIN @ \cup {w} |-> IF r = w THEN v ELSE @[r]]]
    BY Zenon DEF i, w, a
  <2> HIDE DEF a, i, w
  <2>3. redirection' = [j \in DOMAIN redirection |->
            IF j = i THEN [r \in DOMAIN redirection[i] \cup {w} |-> IF r = w THEN v ELSE redirection[i][r]]
            ELSE redirection[j]]
    BY <2>2
  <2> QED
    BY <1>5, <2>1, <2>3, Zenon
<1> HIDE DEF a, i, w
<1>9. DOMAIN redirection'[i] = DOMAIN redirection[i] \cup {w}
  BY <1>8
<1>10. \A j \in 1 .. CHIPS : DOMAIN redirection[j] \subseteq DOMAIN redirection'[j]
  BY <1>8, <1>9
<1>11. \A j \in DOMAIN apic.ioapic :
           j \in 1 .. CHIPS /\ apic.ioapic[j].answer \in Nat /\ apic.ioapic[j].base \in Nat
  <2>1. \A j \in DOMAIN apic.ioapic :
            j \in 1 .. CHIPS /\ apic.ioapic[j].base \in Nat /\ apic.ioapic[j].answer \in 0 .. 119
    BY <1>4, Machine, Zenon
  <2> QED
    BY <2>1
<1>w. w \in {16 + 2 * pin0, (16 + 2 * pin0) + 1, i, i - 1}
  BY <1>a, <1>6 DEF Reached, i
<1>12. ASSUME NEW d \in Cores, at'[d] \in Access PROVE Accessing(d)'
  <2>1. CASE d = c
    <3>1. at'[c] = s /\ s \notin {"low", "high"}
      BY <1>1
    <3> QED
      BY <1>2, <1>a, <2>1, <3>1 DEF Accessing, a, i
  <2>2. CASE d # c
    <3>1. at'[d] = at[d] /\ Accessing(d)
      BY <1>1, <1>12, <2>2 DEF Wired
    <3>2. ~ Private(d)
      BY <1>0, <1>12, <2>2, <3>1, OneAccess
    <3> QED
      BY <1>2, <3>1, <3>2 DEF Accessing, Reached
  <2> QED
    BY <2>1, <2>2
<1>13. Known'
  <2>1. ~ (Len(boot[BSP]) >= 10)
    BY <1>0, Asks
  <2> QED
    BY <2>1 DEF Wired, Known
<1>14. Done'
  <2>1. ASSUME NEW b \in Asked, Chip(b) # 0 PROVE Chip(b) \in 1 .. CHIPS
    BY <1>4, <2>1, HasPin
  <2>2. ASSUME at'[BSP] # "main", NEW b \in Asked \ Left
        PROVE  Chip(b) = 0 \/ Low(b) \in DOMAIN redirection'[Chip(b)]
    <3>1. Chip(b) = 0 \/ Low(b) \in DOMAIN redirection[Chip(b)]
      BY <1>1, <2>2 DEF Wired, Done
    <3> QED
      BY <1>10, <2>1, <3>1
  <2> QED
    BY <1>1, <1>2, <2>2 DEF Done, Asked
<1>15. ASSUME NEW j \in DOMAIN apic.ioapic, NEW pin \in 0 .. apic.ioapic[j].answer, ~ Loose(j, pin)
       PROVE  Delivers(j, pin)'
  <2>0. pin \in Nat /\ pin0 \in Nat
    BY <1>5, <1>11
  <2>1. Delivers(j, pin)
    BY <1>15 DEF Wired, Chips
  <2>2. /\ 16 + 2 * pin \in DOMAIN redirection'[j] <=> 16 + 2 * pin \in DOMAIN redirection[j]
        /\ 17 + 2 * pin \in DOMAIN redirection'[j] <=> 17 + 2 * pin \in DOMAIN redirection[j]
        /\ 16 + 2 * pin \in DOMAIN redirection[j] => redirection'[j][16 + 2 * pin] = redirection[j][16 + 2 * pin]
        /\ 17 + 2 * pin \in DOMAIN redirection[j] => redirection'[j][17 + 2 * pin] = redirection[j][17 + 2 * pin]
    <3>1. CASE j # i
      <4>1. redirection'[j] = redirection[j]
        BY <1>8, <1>11, <3>1
      <4> QED
        BY <4>1
    <3>2. CASE j = i
      <4>1. pin # pin0
        BY <1>7, <1>15, <3>2
      <4>2. w # 16 + 2 * pin /\ w # 17 + 2 * pin
        BY <1>5, <1>w, <2>0, <4>1 DEF CHIPS
      <4> QED
        BY <1>8, <1>9, <3>2, <4>2
    <3> QED
      BY <3>1, <3>2
  <2>3. ASSUME NEW d \in Cores, at[d] \in {"next", "high"},
               Chip(Head(todo[d])) = j, Low(Head(todo[d])) = 16 + 2 * pin
        PROVE  d # c
    <3> SUFFICES ASSUME d = c PROVE FALSE
      OBVIOUS
    <3>1. j = i /\ 16 + 2 * pin = 16 + 2 * pin0
      BY <1>6, <2>3 DEF a, i
    <3>2. pin = pin0
      BY <2>0, <3>1, Parity
    <3> QED
      BY <1>7, <1>15, <3>1, <3>2
  <2>4. Irq(apic.ioapic[j].base + pin)' = Irq(apic.ioapic[j].base + pin)
    BY <1>3
  <2>5. \A d \in Cores : d # c => at'[d] = at[d] /\ todo'[d] = todo[d]
    BY <1>1
  <2>6. ASSUME 16 + 2 * pin \in DOMAIN redirection'[j]
        PROVE  /\ \E b \in Asked : /\ b[2] \in Irq(apic.ioapic[j].base + pin)
                                    /\ redirection'[j][16 + 2 * pin] = b[1]
               /\ \/ 17 + 2 * pin \in DOMAIN redirection'[j] /\ redirection'[j][17 + 2 * pin] = 0
                  \/ \E d \in Cores : /\ at'[d] \in {"next", "high"}
                                      /\ Chip(Head(todo[d])) = j /\ Low(Head(todo[d])) = 16 + 2 * pin
    <3>1. 16 + 2 * pin \in DOMAIN redirection[j]
      BY <2>2, <2>6
    <3>2. /\ \E b \in Asked : /\ b[2] \in Irq(apic.ioapic[j].base + pin)
                               /\ redirection[j][16 + 2 * pin] = b[1]
          /\ \/ 17 + 2 * pin \in DOMAIN redirection[j] /\ redirection[j][17 + 2 * pin] = 0
             \/ \E d \in Cores : /\ at[d] \in {"next", "high"}
                                 /\ Chip(Head(todo[d])) = j /\ Low(Head(todo[d])) = 16 + 2 * pin
      BY <2>1, <3>1, Zenon DEF Delivers
    <3> QED
      BY <2>2, <2>3, <2>5, <3>1, <3>2
  <2> QED
    BY <1>2, <2>4, <2>6 DEF Delivers, Asked
<1>16. \A j \in DOMAIN apic.ioapic : DOMAIN redirection'[j] \subseteq Written(j)
  <2> SUFFICES ASSUME NEW j \in DOMAIN apic.ioapic
               PROVE  DOMAIN redirection'[j] \subseteq Written(j)
    OBVIOUS
  <2>1. DOMAIN redirection[j] \subseteq Written(j)
    BY DEF Wired, Chips
  <2>2. CASE j # i
    BY <1>8, <1>11, <2>1, <2>2
  <2>3. CASE j = i
    <3>1. PICK n \in Nat : n = apic.ioapic[i].answer
      BY <1>5, <1>11
    <3>2. 16 + 2 * pin0 \in 16 .. 16 + 2 * (n + 1) - 1 /\ (16 + 2 * pin0) + 1 \in 16 .. 16 + 2 * (n + 1) - 1
      BY <1>6, <3>1
    <3>3. Written(i) = (16 .. 16 + 2 * (n + 1) - 1) \cup {i - 1, i}
      BY <1>b, <3>1 DEF Written, irq_count
    <3>4. w \in Written(i)
      BY <1>w, <3>2, <3>3, Zenon
    <3> QED
      BY <1>9, <2>1, <2>3, <3>4
  <2> QED
    BY <2>2, <2>3
<1>17. Chips'
  <2>1. \A j, pin : Loose(j, pin)' = Loose(j, pin)
    BY <1>3 DEF Loose
  <2> QED
    BY <1>8, <1>15, <1>16, <2>1 DEF Wired, Chips, Written, irq_count
<1> QED
  BY <1>1, <1>12, <1>13, <1>14, <1>17 DEF Wired
-----------------------------------------------------------------------------
(* The request on top is done with: it has no chip, or has been written. *)
LEMMA Popped ==
    ASSUME FirmwareInOrder, IInv, Ahead, Wired, NEW c \in Cores, at[c] \in {"route", "stray"},
           at' = [at EXCEPT ![c] = "route"], todo[c] # <<>>, Pop(c),
           UNCHANGED <<firmware, boot, apic, select, redirection>>,
           \/ c # BSP
           \/ Chip(Head(todo[c])) = 0
           \/ Low(Head(todo[c])) \in DOMAIN redirection[Chip(Head(todo[c]))]
    PROVE  Wired'
<1> USE CoreAssumption
<1> DEFINE a == Head(todo[c])
<1>1. \A d \in Cores : at'[d] = IF d = c THEN "route" ELSE at[d]
  BY DEF IInv, Shape
<1>2. \A b : Chip(b)' = Chip(b) /\ Low(b)' = Low(b)
  BY ZenonT(40) DEF Chip, Low, find_ioapic, gsi_of, irq_count
<1>3. at[c] \in Access \cup {"route"}
  BY DEF Access
<1>4. ~ (Len(boot[BSP]) >= 10) /\ a \in Asked /\ Range(todo[c]) = {a} \cup Range(Tail(todo[c]))
  BY <1>3, Asks
<1>5. \A d \in Cores : d # c => todo'[d] = todo[d]
  BY DEF Pop, Wired, Requests
<1>t. todo'[c] = Tail(todo[c]) /\ DOMAIN todo' = Cores
  BY DEF Pop, Wired, Requests
<1>6. Requests'
  <2>1. ASSUME NEW d \in Cores, d # c, at'[d] \in Access \cup {"route"}
        PROVE  at[d] \in Access \cup {"route"} /\ boot'[d] = boot[d] /\ todo'[d] = todo[d]
    BY <1>1, <1>5, <2>1
  <2>2. \/ c = BSP /\ Len(boot'[c]) = 5 /\ todo'[c] \in {Clocks, Tail(Clocks), Tail(Tail(Clocks)), <<>>}
        \/ Len(boot'[c]) = (IF c = BSP THEN 3 ELSE 1) /\ todo'[c] \in {<<<<SYSCALL, 96>>>>, <<>>}
    <3>1. /\ Tail(<<<<SYSCALL, 96>>>>) = <<>> /\ Tail(Tail(Tail(Clocks))) = <<>>
      BY DEF Clocks
    <3>2. \/ c = BSP /\ Len(boot[c]) = 5 /\ todo[c] \in {Clocks, Tail(Clocks), Tail(Tail(Clocks)), <<>>}
          \/ Len(boot[c]) = (IF c = BSP THEN 3 ELSE 1) /\ todo[c] \in {<<<<SYSCALL, 96>>>>, <<>>}
      BY <1>3, Zenon DEF Wired, Requests
    <3> QED
      BY <1>t, <3>1, <3>2
  <2> QED
    BY <1>t, <2>1, <2>2 DEF Wired, Requests
<1>7. Known'
  BY <1>4 DEF Wired, Known
<1>8. Done'
  <2>1. Left \subseteq Left' \cup {a} /\ (c # BSP => Left' = Left)
    <3>1. CASE c = BSP
      <4>1. /\ at[BSP] \in Access \cup {"route"} /\ at'[BSP] \in Access \cup {"route"}
            /\ Range(todo[BSP]) = {a} \cup Range(todo'[BSP])
        BY <1>1, <1>3, <1>4, <1>t, <3>1
      <4> QED
        BY <3>1, <4>1 DEF Left
    <3>2. CASE c # BSP
      BY <1>1, <1>5, <3>2 DEF Left
    <3> QED
      BY <3>1, <3>2
  <2>2. at'[BSP] # "main" => at[BSP] # "main"
    BY <1>1
  <2>3. at[BSP] # "main" => \A b \in Asked \ Left : Chip(b) = 0 \/ Low(b) \in DOMAIN redirection[Chip(b)]
    BY DEF Wired, Done
  <2>4. ASSUME at'[BSP] # "main", NEW b \in Asked \ Left'
        PROVE  Chip(b) = 0 \/ Low(b) \in DOMAIN redirection[Chip(b)]
    <3>1. CASE b \in Asked \ Left
      BY <2>2, <2>3, <2>4, <3>1
    <3>2. CASE b \notin Asked \ Left
      <4>1. b = a /\ c = BSP
        BY <2>1, <2>4, <3>2
      <4> QED
        BY <4>1
    <3> QED
      BY <3>1, <3>2
  <2> QED
    BY <1>2, <2>4 DEF Done, Asked
<1>9. at[c] \notin {"next", "high"} /\ "route" \notin Access
  BY DEF Access
<1> QED
  BY <1>5, <1>6, <1>7, <1>8, <1>9, Apart

(* A step of register_ioapic. *)
LEMMA RouteWired ==
    ASSUME FirmwareInOrder, IInv, Ahead, Wired, NEW c \in Cores, Route(c)
    PROVE  Wired'
<1> DEFINE a == Head(todo[c])
<1>0. /\ UNCHANGED <<firmware, boot>>
      /\ chip(c) = Chip(a) /\ ioredtbl(c) = Low(a) /\ vector(c) = a[1]
      /\ at \in [Cores -> Booting \cup Handling \cup {"run", "stuck"}]
  BY DEF Route, chip, ioredtbl, vector, Chip, Low, IInv, Shape
<1>a. /\ at[c] \in Access => Accessing(c)
      /\ at[c] \in Access \cup {"route"} /\ todo[c] # <<>> => Knows /\ a \in Asked
  BY Asks DEF Wired
<1>b. ASSUME at[c] \in Access \cup {"route"}, todo[c] # <<>>, Chip(a) # 0
      PROVE  Chip(a) \in Int /\ Low(a) \in Int
  <2>1. Chip(a) \in 1 .. CHIPS
    BY <1>a, <1>b, HasPin
  <2>2. PICK pin \in 0 .. apic.ioapic[Chip(a)].answer : Low(a) = 16 + 2 * pin
    BY <1>a, <1>b, HasPin
  <2> QED
    BY <2>1, <2>2 DEF CHIPS
<1>1. CASE at[c] = "route" /\ todo[c] = <<>> /\ Go(c, "boot") /\ UNCHANGED <<todo, routing>>
  <2>1. at' = [at EXCEPT ![c] = "boot"] /\ UNCHANGED <<todo, apic, select, redirection>>
    BY <1>1 DEF Go, routing
  <2>2. \A d \in Cores : at'[d] = IF d = c THEN "boot" ELSE at[d]
    BY <1>0, <2>1
  <2>3. Requests'
    BY <1>0, <2>1, <2>2 DEF Wired, Requests, Access
  <2>4. Known'
    BY <1>0, <2>1 DEF Wired, Known
  <2>5. Done'
    <3>1. Left' = Left
      <4>1. CASE c = BSP
        <5>1. Range(todo[BSP]) = {}
          BY <1>1, <4>1 DEF Range
        <5> QED
          BY <1>0, <2>1, <5>1 DEF Left
      <4>2. CASE c # BSP
        BY <1>0, <2>1, <2>2, <4>2, CoreAssumption DEF Left
      <4> QED
        BY <4>1, <4>2
    <3>2. at[BSP] # "main"
          \/ at'[BSP] = "main"
      BY <1>1, <2>2, CoreAssumption
    <3>3. \A b : Chip(b)' = Chip(b) /\ Low(b)' = Low(b)
      BY <2>1 DEF Chip, Low, find_ioapic, gsi_of, irq_count
    <3> QED
      BY <2>1, <3>1, <3>2, <3>3 DEF Wired, Done, Asked
  <2> QED
    BY <1>0, <1>1, <2>1, <2>3, <2>4, <2>5, Apart DEF Access
<1>2. CASE todo[c] # <<>> /\ at[c] = "route" /\ chip(c) = 0 /\ Pop(c) /\ UNCHANGED <<at, routing>>
  <2>1. at' = [at EXCEPT ![c] = "route"]
    BY <1>0, <1>2
  <2>2. UNCHANGED <<apic, select, redirection>>
    BY <1>2 DEF routing
  <2> QED
    BY <1>0, <1>2, <2>1, <2>2, Popped
<1>3. CASE /\ todo[c] # <<>> /\ at[c] = "route" /\ chip(c) # 0
           /\ Select(c, ioredtbl(c)) /\ Go(c, "low") /\ UNCHANGED todo
  <2>1. /\ select' = [select EXCEPT ![Chip(a)] = Low(a)] /\ at' = [at EXCEPT ![c] = "low"]
        /\ UNCHANGED <<apic, redirection>>
    BY <1>0, <1>3 DEF Select, Go
  <2>2. "low" \in Access /\ at[c] \in Access \cup {"route"} /\ at[c] \notin {"next", "high"}
    BY <1>3 DEF Access
  <2> QED
    BY <1>0, <1>3, <1>b, <2>1, <2>2, SelectStep DEF Reached
<1>4. CASE todo[c] # <<>> /\ at[c] = "low" /\ Window(c, vector(c)) /\ Go(c, "next") /\ UNCHANGED todo
  <2>1. redirection' = [redirection EXCEPT ![Chip(Head(todo[c]))] =
            [r \in DOMAIN @ \cup {select[Chip(Head(todo[c]))]} |->
                IF r # select[Chip(Head(todo[c]))] THEN @[r]
                ELSE IF at[c] = "low" THEN Head(todo[c])[1] ELSE 0]]
    BY <1>0, <1>4 DEF Window
  <2>2. at' = [at EXCEPT ![c] = IF at[c] = "low" THEN "next" ELSE "enable"]
    BY <1>4 DEF Go
  <2>3. UNCHANGED <<firmware, boot, todo, apic, select>>
    BY <1>0, <1>4 DEF Window
  <2>4. CASE Private(c)
    BY <1>4, <2>1, <2>2, <2>3, <2>4, WindowStep
  <2>5. CASE ~ Private(c)
    <3>1. redirection' = [redirection EXCEPT ![Chip(Head(todo[c]))] =
              [r \in DOMAIN @ \cup {select[Chip(Head(todo[c]))]} |->
                  IF r = select[Chip(Head(todo[c]))] THEN vector(c) ELSE @[r]]]
      BY <1>0, <1>4 DEF Window
    <3>2. PICK v : v = vector(c)
      OBVIOUS
    <3>3. at' = [at EXCEPT ![c] = "next"]
      BY <1>4 DEF Go
    <3> QED
      BY <1>4, <2>3, <2>5, <3>1, <3>2, <3>3, RacedWindow
  <2> QED
    BY <2>4, <2>5
<1>5. CASE todo[c] # <<>> /\ at[c] = "next" /\ Select(c, ioredtbl(c) + 1) /\ Go(c, "high") /\ UNCHANGED todo
  <2>1. /\ select' = [select EXCEPT ![Chip(a)] = Low(a) + 1] /\ at' = [at EXCEPT ![c] = "high"]
        /\ UNCHANGED <<apic, redirection>>
    BY <1>0, <1>5 DEF Select, Go
  <2>2. "high" \in Access /\ at[c] \in Access \ {"low"}
    BY <1>5 DEF Access
  <2>3. Chip(a) # 0 /\ Low(a) + 1 \in Int
    BY <1>5, <1>a, <1>b, <2>2 DEF Accessing
  <2> QED
    BY <1>0, <1>5, <2>1, <2>2, <2>3, SelectStep DEF Reached
<1>6. CASE todo[c] # <<>> /\ at[c] = "high" /\ Window(c, destination(c)) /\ Go(c, "enable") /\ UNCHANGED todo
  <2>0. destination(c) = 0
    BY <1>6, <1>a, Machine DEF Access
  <2>1. redirection' = [redirection EXCEPT ![Chip(Head(todo[c]))] =
            [r \in DOMAIN @ \cup {select[Chip(Head(todo[c]))]} |->
                IF r # select[Chip(Head(todo[c]))] THEN @[r]
                ELSE IF at[c] = "low" THEN Head(todo[c])[1] ELSE 0]]
    BY <1>0, <1>6, <2>0 DEF Window
  <2>2. at' = [at EXCEPT ![c] = IF at[c] = "low" THEN "next" ELSE "enable"]
    BY <1>6 DEF Go
  <2>3. UNCHANGED <<firmware, boot, todo, apic, select>>
    BY <1>0, <1>6 DEF Window
  <2>4. CASE Private(c)
    BY <1>6, <2>1, <2>2, <2>3, <2>4, WindowStep
  <2>5. CASE ~ Private(c)
    <3>1. redirection' = [redirection EXCEPT ![Chip(Head(todo[c]))] =
              [r \in DOMAIN @ \cup {select[Chip(Head(todo[c]))]} |->
                  IF r = select[Chip(Head(todo[c]))] THEN destination(c) ELSE @[r]]]
      BY <1>0, <1>6 DEF Window
    <3>2. PICK v : v = destination(c)
      OBVIOUS
    <3>3. at' = [at EXCEPT ![c] = "enable"]
      BY <1>6 DEF Go
    <3> QED
      BY <1>6, <2>3, <2>5, <3>1, <3>2, <3>3, RacedWindow
  <2> QED
    BY <2>4, <2>5
<1>7. CASE todo[c] # <<>> /\ at[c] = "enable" /\ Select(c, chip(c)) /\ Go(c, "again") /\ UNCHANGED todo
  <2>1. /\ select' = [select EXCEPT ![Chip(a)] = Chip(a)] /\ at' = [at EXCEPT ![c] = "again"]
        /\ UNCHANGED <<apic, redirection>>
    BY <1>0, <1>7 DEF Select, Go
  <2>2. "again" \in Access /\ at[c] \in Access \ {"low"} /\ at[c] \notin {"next", "high"}
    BY <1>7 DEF Access
  <2>3. Chip(a) # 0 /\ Chip(a) \in Int
    BY <1>7, <1>a, <1>b, <2>2 DEF Accessing
  <2> QED
    BY <1>0, <1>7, <2>1, <2>2, <2>3, SelectStep DEF Reached
<1>8. CASE todo[c] # <<>> /\ at[c] = "again" /\ Select(c, chip(c) - 1) /\ Go(c, "stray") /\ UNCHANGED todo
  <2>1. /\ select' = [select EXCEPT ![Chip(a)] = Chip(a) - 1] /\ at' = [at EXCEPT ![c] = "stray"]
        /\ UNCHANGED <<apic, redirection>>
    BY <1>0, <1>8 DEF Select, Go
  <2>2. "stray" \in Access /\ at[c] \in Access \ {"low"} /\ at[c] \notin {"next", "high"}
    BY <1>8 DEF Access
  <2>3. Chip(a) # 0 /\ Chip(a) - 1 \in Int
    BY <1>8, <1>a, <1>b, <2>2 DEF Accessing
  <2> QED
    BY <1>0, <1>8, <2>1, <2>2, <2>3, SelectStep DEF Reached
<1>9. CASE todo[c] # <<>> /\ at[c] = "stray" /\ Stray(c) /\ Go(c, "route") /\ Pop(c)
  <2>1. at' = [at EXCEPT ![c] = "route"] /\ UNCHANGED <<apic, select, redirection>>
    BY <1>9 DEF Stray, Go
  <2>2. c # BSP \/ Low(a) \in DOMAIN redirection[Chip(a)]
    BY <1>9, <1>a DEF Accessing, Access, Private
  <2> QED
    BY <1>0, <1>9, <2>1, <2>2, Popped
<1> HIDE DEF a
<1> QED
  BY <1>1, <1>2, <1>3, <1>4, <1>5, <1>6, <1>7, <1>8, <1>9, Zenon DEF Route, Register
-----------------------------------------------------------------------------
(* A call less passes a threshold only where it stands. *)
LEMMA OneFewer ==
    ASSUME NEW n \in Nat
    PROVE  /\ n # 10 => (n - 1 >= 10 <=> n >= 10)
           /\ n # 6 => (n - 1 >= 6 <=> n >= 6)
           /\ n # 4 => (n - 1 >= 4 <=> n >= 4)
  OBVIOUS

(* A step outside register_ioapic that is none of the calls that read the
   table or register. *)
LEMMA Elsewhere ==
    ASSUME IInv, Wired, NEW c \in Cores, NEW s, at' = [at EXCEPT ![c] = s],
           at[c] \notin Access \cup {"route", "main"}, s \notin Access \cup {"route"},
           UNCHANGED <<firmware, apic, select, redirection, todo>>,
           \A d \in Cores : d # c => boot'[d] = boot[d],
           \/ boot'[c] = boot[c]
           \/ /\ Len(boot'[c]) = Len(boot[c]) - 1
              /\ c = BSP => Len(boot[c]) \notin {6, 10} /\ (s # "main" => Len(boot[c]) # 4)
    PROVE  Wired'
<1> USE CoreAssumption
<1>1. \A d \in Cores : at'[d] = IF d = c THEN s ELSE at[d]
  BY DEF IInv, Shape
<1>2. Len(boot[BSP]) \in Nat
  BY DEF IInv, Shape
<1>3. /\ Len(boot'[BSP]) >= 10 <=> Len(boot[BSP]) >= 10
      /\ Len(boot'[BSP]) >= 6 <=> Len(boot[BSP]) >= 6
      /\ at'[BSP] # "main" => (Len(boot'[BSP]) >= 4 <=> Len(boot[BSP]) >= 4)
  <2>1. CASE boot'[BSP] = boot[BSP]
    BY <2>1
  <2>2. CASE boot'[BSP] # boot[BSP]
    <3>1. /\ c = BSP /\ Len(boot'[BSP]) = Len(boot[BSP]) - 1
          /\ Len(boot[BSP]) # 6 /\ Len(boot[BSP]) # 10 /\ (s # "main" => Len(boot[BSP]) # 4)
      BY <2>2
    <3>2. PICK n \in Nat : n = Len(boot[BSP])
      BY <1>2
    <3>3. /\ n - 1 >= 10 <=> n >= 10
          /\ n - 1 >= 6 <=> n >= 6
          /\ s # "main" => (n - 1 >= 4 <=> n >= 4)
      BY <3>1, <3>2, OneFewer
    <3>4. Len(boot'[BSP]) = n - 1 /\ at'[BSP] = s
      BY <1>1, <3>1, <3>2
    <3> QED
      BY <3>2, <3>3, <3>4, Zenon
  <2> QED
    BY <2>1, <2>2
<1>4. Known'
  BY <1>3 DEF Wired, Known
<1>5. \A d \in Cores : at'[d] \in Access \cup {"route"} => d # c /\ at'[d] = at[d]
  BY <1>1
<1>6. Requests'
  BY <1>5 DEF Wired, Requests
<1>7. Done'
  <2>1. at'[BSP] \in Access \cup {"route"} <=> at[BSP] \in Access \cup {"route"}
    BY <1>1
  <2>2. at'[BSP] # "main" => Left' = Left
    <3>1. (at'[BSP] \in Access \cup {"route"}) = (at[BSP] \in Access \cup {"route"})
      BY <2>1
    <3>2. /\ (Len(boot'[BSP]) >= 6) = (Len(boot[BSP]) >= 6)
          /\ at'[BSP] # "main" => (Len(boot'[BSP]) >= 4) = (Len(boot[BSP]) >= 4)
      BY <1>3
    <3> QED
      BY <3>1, <3>2 DEF Left
  <2>3. at'[BSP] # "main" => at[BSP] # "main"
    BY <1>1
  <2>4. \A b : Chip(b)' = Chip(b) /\ Low(b)' = Low(b)
    BY DEF Chip, Low, find_ioapic, gsi_of, irq_count
  <2> QED
    BY <2>2, <2>3, <2>4 DEF Wired, Done, Asked
<1>8. at[c] \notin {"next", "high"} /\ s \notin Access
  BY DEF Access
<1> QED
  BY <1>4, <1>6, <1>7, <1>8, Apart

(* The calls that neither read the table nor register. *)
LEMMA CallWired ==
    ASSUME IInv, Ahead, Wired, NEW c \in Cores, NEW name \in Calls \ {"acpi", "clock"}, NEW s,
           Call(c, name, s), s \notin Access \cup {"route"}, name = "syscall" => s = "main",
           UNCHANGED <<apic, select, redirection, todo>>
    PROVE  Wired'
<1> DEFINE n == Len(boot[c])
<1>1. /\ at[c] = "boot" /\ boot[c] # <<>>
      /\ boot' = [boot EXCEPT ![c] = Tail(@)] /\ at' = [at EXCEPT ![c] = s]
      /\ UNCHANGED firmware
  BY Called
<1>2. /\ Len(boot'[c]) = n - 1
      /\ \A d \in Cores : d # c => boot'[d] = boot[d]
  <2>1. boot \in [Cores -> Seq(Calls)]
    BY DEF IInv, Shape
  <2>2. boot'[c] = Tail(boot[c]) /\ boot[c] \in Seq(Calls)
    BY <1>1, <2>1
  <2> QED
    BY <1>1, <2>1, <2>2, TailPlaces
<1>3. c = BSP => n \notin {6, 10} /\ (s # "main" => n # 4)
  <2> SUFFICES ASSUME c = BSP PROVE n \notin {6, 10} /\ (s # "main" => n # 4)
    OBVIOUS
  <2>1. /\ name = "idt" => n = 11
        /\ name = "lvt" => n = 9
        /\ name = "calibrate" => n = 8
        /\ name = "timer" => n = 7
        /\ name = "task" => n = 5
        /\ name = "syscall" => n = 4
        /\ name = "smp" => n = 3
        /\ name = "modules" => n = 2
        /\ name = "sti" => n = 1
    BY Called
  <2> HIDE DEF n
  <2> QED
    BY <2>1 DEF Calls
<1>4. at[c] \notin Access \cup {"route", "main"}
  BY <1>1 DEF Access
<1> QED
  BY <1>1, <1>2, <1>3, <1>4, Elsewhere

(* Apic has room for the I/O APICs of every machine. *)
LEMMA Room ==
    ASSUME FirmwareInOrder, NEW f \in Firmwares
    PROVE  DOMAIN madt(f).ioapic \subseteq 1 .. CHIPS
<1>1. Plausible(f)
  BY DEF FirmwareInOrder
<1>2. Cardinality(Listed(f, "ioapic")) <= 8
  BY <1>1, Zenon DEF Plausible, CHIPS
<1>3. /\ Cardinality(Listed(f, "ioapic")) \in Nat
      /\ DOMAIN OfType(f, "ioapic") = 1 .. Cardinality(Listed(f, "ioapic"))
  BY <1>1, Keeps, Zenon
<1> QED
  BY <1>2, <1>3 DEF madt, CHIPS

(* MADT::MADT: the boot processor reads the table. *)
LEMMA AcpiWired == ASSUME FirmwareInOrder, IInv, Ahead, Wired, NEW c \in Cores, Acpi(c) PROVE Wired'
<1> USE CoreAssumption
<1>1. /\ c = BSP /\ Len(boot[BSP]) = 10 /\ at[c] = "boot" /\ boot[c] # <<>>
      /\ boot' = [boot EXCEPT ![c] = Tail(@)] /\ at' = [at EXCEPT ![c] = "boot"]
      /\ UNCHANGED firmware
  <2>1. Call(c, "acpi", "boot")
    BY DEF Acpi
  <2> QED
    BY <2>1, Called
<1>2. apic' = madt(firmware) /\ UNCHANGED <<select, redirection, todo>>
  BY DEF Acpi, MADT
<1>3. Len(boot'[BSP]) = 9 /\ \A d \in Cores : d # BSP => boot'[d] = boot[d]
  <2>1. boot \in [Cores -> Seq(Calls)]
    BY DEF IInv, Shape
  <2>2. boot'[BSP] = Tail(boot[BSP]) /\ boot[BSP] \in Seq(Calls)
    BY <1>1, <2>1
  <2>3. Len(boot'[BSP]) = Len(boot[BSP]) - 1
    BY <1>1, <2>2, TailPlaces
  <2> QED
    BY <1>1, <2>1, <2>3
<1>4. \A d \in Cores : at'[d] = at[d]
  BY <1>1 DEF IInv, Shape
<1>5. \A d \in Cores : at[d] \notin Access \cup {"route"}
  <2> SUFFICES ASSUME NEW d \in Cores, at[d] \in Access \cup {"route"} PROVE FALSE
    OBVIOUS
  <2>1. Len(boot[BSP]) # 10
    <3>1. ~ (Len(boot[BSP]) >= 10)
      BY Asks
    <3>2. 10 >= 10
      OBVIOUS
    <3> QED
      BY <3>1, <3>2, Zenon
  <2> QED
    BY <1>1, <2>1
<1>6. Known'
  <2>1. ~ (Len(boot'[BSP]) >= 10)
    BY <1>3
  <2> QED
    BY <1>1, <1>2, <2>1 DEF Known
<1>7. Requests'
  BY <1>2, <1>4, <1>5 DEF Wired, Requests
<1>8. Done'
  <2>1. Range(Clocks) = {<<CLOCK, 0>>, <<APIC_ERROR, 124>>, <<APIC_SPURIOUS, 125>>}
    BY DEF Range, Clocks
  <2>2. Left' = Range(Clocks) \cup {<<SYSCALL, 96>>}
    <3>1. Len(boot'[BSP]) >= 6 /\ Len(boot'[BSP]) >= 4 /\ at'[BSP] \notin Access \cup {"route"}
      BY <1>3, <1>4, <1>5
    <3> QED
      BY <3>1 DEF Left
  <2>3. Asked \subseteq Left'
    BY <2>1, <2>2 DEF Asked
  <2> QED
    BY <2>3 DEF Done, Asked
<1>9. Chips'
  <2>1. redirection = [i \in 1 .. CHIPS |-> <<>>]
    <3>1. Len(boot[BSP]) >= 10
      BY <1>1
    <3> QED
      BY <3>1 DEF Wired, Known
  <2>2. DOMAIN apic'.ioapic \subseteq 1 .. CHIPS
    <3>1. PICK f \in Firmwares : f = firmware
      BY DEF Ahead, Values
    <3>2. apic' = madt(f)
      BY <1>2, <3>1
    <3> QED
      BY <3>2, Room
  <2>3. \A i \in DOMAIN apic'.ioapic : DOMAIN redirection'[i] = {}
    BY <1>2, <2>1, <2>2
  <2>4. select' \in [1 .. CHIPS -> Int] /\ DOMAIN redirection' = 1 .. CHIPS
    BY <1>2 DEF Wired, Chips
  <2> QED
    BY <2>3, <2>4 DEF Chips, Delivers
<1>10. \A d \in Cores : at'[d] \notin Access
  BY <1>4, <1>5
<1> QED
  BY <1>6, <1>7, <1>8, <1>9, <1>10 DEF Wired
-----------------------------------------------------------------------------
(* A call that hands register_ioapic its requests. *)
LEMMA RegisterWired ==
    ASSUME FirmwareInOrder, IInv, Ahead, Wired, NEW c \in Cores, Clock(c) \/ Syscall(c)
    PROVE  Wired'
<1> USE CoreAssumption
<1> DEFINE n == Len(boot[c])
           q == IF Clock(c) THEN Clocks ELSE <<<<SYSCALL, 96>>>>
<1>1. /\ at[c] = "boot" /\ boot[c] # <<>>
      /\ boot' = [boot EXCEPT ![c] = Tail(@)] /\ at' = [at EXCEPT ![c] = "route"]
      /\ UNCHANGED firmware
      /\ Clock(c) => c = BSP /\ n = 6
      /\ Syscall(c) => n = IF c = BSP THEN 4 ELSE 2
  <2>1. CASE Clock(c)
    <3>1. Call(c, "clock", "route") /\ ~ Call(c, "syscall", "route")
      BY <2>1 DEF Clock, Call
    <3>2. ~ Syscall(c)
      BY <3>1 DEF Syscall
    <3> QED
      BY <3>1, <3>2, Called
  <2>2. CASE Syscall(c)
    <3>1. Call(c, "syscall", "route") /\ ~ Call(c, "clock", "route")
      BY <2>2 DEF Syscall, Call
    <3>2. ~ Clock(c)
      BY <3>1 DEF Clock
    <3> QED
      BY <3>1, <3>2, Called
  <2> QED
    BY <2>1, <2>2
<1>2. UNCHANGED <<apic, select, redirection>> /\ todo' = [todo EXCEPT ![c] = q]
  BY DEF Clock, Syscall, Call, Clocks, routing
<1>3. /\ Len(boot'[c]) = n - 1
      /\ \A d \in Cores : d # c => boot'[d] = boot[d]
  <2>1. boot \in [Cores -> Seq(Calls)]
    BY DEF IInv, Shape
  <2>2. boot'[c] = Tail(boot[c]) /\ boot[c] \in Seq(Calls)
    BY <1>1, <2>1
  <2> QED
    BY <1>1, <2>1, <2>2, TailPlaces
<1>4. \A d \in Cores : at'[d] = IF d = c THEN "route" ELSE at[d]
  BY <1>1 DEF IInv, Shape
<1>5. todo'[c] = q /\ DOMAIN todo' = Cores /\ \A d \in Cores : d # c => todo'[d] = todo[d]
  BY <1>2 DEF Wired, Requests
<1> HIDE DEF q
<1>6. \/ c = BSP /\ n = 6 /\ Len(boot'[c]) = 5 /\ q = Clocks
      \/ c = BSP /\ n = 4 /\ Len(boot'[c]) = 3 /\ q = <<<<SYSCALL, 96>>>>
      \/ c # BSP /\ n = 2 /\ Len(boot'[c]) = 1 /\ q = <<<<SYSCALL, 96>>>>
  <2>1. CASE Clock(c)
    <3>1. q = Clocks
      BY <2>1 DEF q
    <3>2. c = BSP /\ n = 6 /\ Len(boot'[c]) = 5
      BY <1>1, <1>3, <2>1
    <3> QED
      BY <3>1, <3>2, Zenon
  <2>2. CASE ~ Clock(c)
    <3>1. q = <<<<SYSCALL, 96>>>>
      BY <2>2 DEF q
    <3>2. /\ c = BSP => n = 4 /\ Len(boot'[c]) = 3
          /\ c # BSP => n = 2 /\ Len(boot'[c]) = 1
      <4>1. n = IF c = BSP THEN 4 ELSE 2
        BY <1>1, <2>2 DEF Clock
      <4>2. Len(boot'[c]) = n - 1
        BY <1>3
      <4> HIDE DEF n
      <4> QED
        BY <4>1, <4>2
    <3> QED
      BY <3>1, <3>2, Zenon
  <2> QED
    BY <2>1, <2>2
<1> HIDE DEF n
<1>7. Known'
  <2>1. (Len(boot'[BSP]) >= 10) = (Len(boot[BSP]) >= 10)
    <3>1. CASE c = BSP
      <4>1. (Len(boot[BSP]) = 4 \/ Len(boot[BSP]) = 6) /\ (Len(boot'[BSP]) = 3 \/ Len(boot'[BSP]) = 5)
        BY <1>6, <3>1 DEF n
      <4>2. ~ (3 >= 10) /\ ~ (4 >= 10) /\ ~ (5 >= 10) /\ ~ (6 >= 10)
        OBVIOUS
      <4>3. ~ (Len(boot'[BSP]) >= 10) /\ ~ (Len(boot[BSP]) >= 10)
        BY <4>1, <4>2, Zenon
      <4> QED
        BY <4>3
    <3>2. CASE c # BSP
      BY <1>3, <3>2
    <3> QED
      BY <3>1, <3>2
  <2> QED
    BY <1>1, <1>2, <2>1 DEF Wired, Known
<1>8. Requests'
  <2>1. ASSUME NEW d \in Cores, d # c, at'[d] \in Access \cup {"route"}
        PROVE  at[d] \in Access \cup {"route"} /\ boot'[d] = boot[d] /\ todo'[d] = todo[d]
    BY <1>3, <1>4, <1>5, <2>1
  <2>2. \/ c = BSP /\ Len(boot'[c]) = 5 /\ todo'[c] = Clocks
        \/ Len(boot'[c]) = (IF c = BSP THEN 3 ELSE 1) /\ todo'[c] = <<<<SYSCALL, 96>>>>
    BY <1>5, <1>6
  <2> QED
    BY <1>5, <2>1, <2>2 DEF Wired, Requests
<1>9. Done'
  <2>1. Left' = Left
    <3>0. Range(<<<<SYSCALL, 96>>>>) = {<<SYSCALL, 96>>}
      BY Triples, Zenon
    <3>1. CASE c = BSP /\ n = 6
      <4>1. /\ Len(boot[BSP]) = 6 /\ at[BSP] \notin Access \cup {"route"}
            /\ Len(boot'[BSP]) = 5 /\ at'[BSP] = "route" /\ todo'[BSP] = Clocks
        BY <1>1, <1>4, <1>5, <1>6, <3>1 DEF n, Access
      <4>2. Left = Range(Clocks) \cup {<<SYSCALL, 96>>}
        BY <4>1 DEF Left
      <4>3. Left' = {<<SYSCALL, 96>>} \cup Range(Clocks)
        BY <4>1 DEF Left
      <4> QED
        BY <4>2, <4>3
    <3>2. CASE c = BSP /\ n = 4
      <4>1. /\ Len(boot[BSP]) = 4 /\ at[BSP] \notin Access \cup {"route"}
            /\ Len(boot'[BSP]) = 3 /\ at'[BSP] = "route" /\ todo'[BSP] = <<<<SYSCALL, 96>>>>
        BY <1>1, <1>4, <1>5, <1>6, <3>2 DEF n, Access
      <4>2. Left = {<<SYSCALL, 96>>}
        BY <4>1 DEF Left
      <4>3. Left' = {<<SYSCALL, 96>>}
        BY <3>0, <4>1 DEF Left
      <4> QED
        BY <4>2, <4>3
    <3>3. CASE c # BSP
      <4>1. at'[BSP] = at[BSP] /\ boot'[BSP] = boot[BSP] /\ todo'[BSP] = todo[BSP]
        BY <1>3, <1>4, <1>5, <3>3
      <4> QED
        BY <4>1 DEF Left
    <3> QED
      BY <1>6, <3>1, <3>2, <3>3
  <2>2. at'[BSP] # "main" => at[BSP] # "main"
    BY <1>1, <1>4
  <2>3. \A b : Chip(b)' = Chip(b) /\ Low(b)' = Low(b)
    BY <1>2 DEF Chip, Low, find_ioapic, gsi_of, irq_count
  <2> QED
    BY <1>2, <2>1, <2>2, <2>3 DEF Wired, Done, Asked
<1>10. at[c] \notin {"next", "high"} /\ "route" \notin Access
  BY <1>1 DEF Access
<1> QED
  BY <1>1, <1>2, <1>5, <1>7, <1>8, <1>9, <1>10, Apart

(* The calls of the boot and the steps of register_ioapic, together. *)
LEMMA BootWired ==
    ASSUME FirmwareInOrder, IInv, Ahead, Wired, NEW c \in Cores, Boot(c)
    PROVE  Wired'
<1>0. /\ {"boot", "main", "wake_up", "run"} \cap (Access \cup {"route"}) = {}
      /\ Calls \ {"acpi", "clock"} =
            {"idt", "lvt", "calibrate", "timer", "task", "syscall", "smp", "modules", "sti"}
  BY DEF Access, Calls
<1>1. CASE Idt(c)
  <2>1. Call(c, "idt", "boot") /\ UNCHANGED <<apic, select, redirection, todo>>
    BY <1>1 DEF Idt, routing
  <2> QED
    BY <1>0, <2>1, CallWired
<1>2. CASE Lvt(c)
  <2>1. Call(c, "lvt", "boot") /\ UNCHANGED <<apic, select, redirection, todo>>
    BY <1>2 DEF Lvt, routing
  <2> QED
    BY <1>0, <2>1, CallWired
<1>3. CASE Calibrate(c)
  <2>1. Call(c, "calibrate", "boot") /\ UNCHANGED <<apic, select, redirection, todo>>
    BY <1>3 DEF Calibrate, routing
  <2> QED
    BY <1>0, <2>1, CallWired
<1>4. CASE Timer(c)
  <2>1. Call(c, "timer", "boot") /\ UNCHANGED <<apic, select, redirection, todo>>
    BY <1>4 DEF Timer, routing
  <2> QED
    BY <1>0, <2>1, CallWired
<1>5. CASE Task(c)
  <2>1. Call(c, "task", "boot") /\ UNCHANGED <<apic, select, redirection, todo>>
    BY <1>5 DEF Task, routing
  <2> QED
    BY <1>0, <2>1, CallWired
<1>6. CASE Committed(c)
  <2>1. Call(c, "syscall", "main") /\ UNCHANGED <<apic, select, redirection, todo>>
    BY <1>6 DEF Committed, routing
  <2> QED
    BY <1>0, <2>1, CallWired
<1>7. CASE Smp(c)
  <2>1. Call(c, "smp", "boot") /\ UNCHANGED <<apic, select, redirection, todo>>
    BY <1>7 DEF Smp, routing
  <2> QED
    BY <1>0, <2>1, CallWired
<1>8. CASE Modules(c)
  <2>1. Call(c, "modules", "wake_up") /\ UNCHANGED <<apic, select, redirection, todo>>
    BY <1>8 DEF Modules, routing
  <2> QED
    BY <1>0, <2>1, CallWired
<1>9. CASE Sti(c)
  <2>1. PICK s \in {"run", "boot"} : Call(c, "sti", s)
    <3>1. CASE Len(boot[c]) = 1
      BY <1>9, <3>1 DEF Sti, Call, Go
    <3>2. CASE Len(boot[c]) # 1
      BY <1>9, <3>2 DEF Sti, Call, Go
    <3> QED
      BY <3>1, <3>2
  <2>2. UNCHANGED <<apic, select, redirection, todo>>
    BY <1>9 DEF Sti, routing
  <2> QED
    BY <1>0, <2>1, <2>2, CallWired
<1>10. CASE Parked(c)
  <2>1. /\ at[c] = "parked" /\ at' = [at EXCEPT ![c] = "boot"]
        /\ UNCHANGED <<firmware, boot, todo, apic, select, redirection>>
    BY <1>10 DEF Parked, Go, routing
  <2>2. at[c] \notin Access \cup {"route", "main"}
    BY <2>1 DEF Access
  <2> QED
    BY <1>0, <2>1, <2>2, Elsewhere
<1>11. CASE Acpi(c)
  BY <1>11, AcpiWired
<1>12. CASE Clock(c) \/ Syscall(c)
  BY <1>12, RegisterWired
<1>13. CASE Route(c)
  BY <1>13, RouteWired
<1> QED
  BY <1>1, <1>2, <1>3, <1>4, <1>5, <1>6, <1>7, <1>8, <1>9, <1>10, <1>11, <1>12, <1>13, Zenon DEF Boot

(* Interrupts, their way and wake_up leave the controllers alone. *)
LEMMA InterruptWired ==
    ASSUME IInv, Ahead, Wired, NEW c \in Cores,
           WakeUp(c) \/ Interrupt(c) \/ Deliver(c) \/ Fault(c) \/ Spurious(c)
    PROVE  Wired'
<1> DEFINE Late == Handling \cup {"wake_up", "woken", "run", "boot", "stuck"}
<1>1. UNCHANGED <<firmware, boot, todo, apic, select, redirection>>
  BY DEF WakeUp, Interrupt, Stub, do_IRQ, Eoi, Handler, Iret, Lock, Unlock, Step,
         Deliver, Fault, Spurious, Enter, routing
<1>2. at[c] \in Late
  BY DEF WakeUp, Interrupt, Stub, do_IRQ, Eoi, Handler, Iret, Lock, Unlock, Step,
         Deliver, Fault, Spurious, Handling, IInv, WhereEnabled
<1>3. PICK s \in Late : at' = [at EXCEPT ![c] = s]
  <2>1. CASE Iret(c)
    <3>1. frames[c] \in Seq({"run", "stub"} \X Nat) /\ frames[c] # <<>>
      BY <2>1 DEF Iret, Step, IInv, Shape, FrameOfTask, Handling
    <3>2. Head(frames[c])[1] \in {"run", "stub"}
      BY <3>1
    <3>3. at' = [at EXCEPT ![c] = Head(frames[c])[1]]
      BY <2>1 DEF Iret, Step, Go
    <3> QED
      BY <3>2, <3>3 DEF Handling
  <2>2. CASE ~ Iret(c)
    BY <2>2 DEF WakeUp, Interrupt, Stub, do_IRQ, Eoi, Handler, Lock, Unlock, Step,
         Deliver, Fault, Spurious, Enter, Go, Handling
  <2> QED
    BY <2>1, <2>2
<1>4. Late \cap (Access \cup {"route", "main"}) = {}
  BY DEF Handling, Access
<1> HIDE DEF Late
<1> QED
  BY <1>1, <1>2, <1>3, <1>4, Elsewhere

(* Every step keeps the invariant. *)
LEMMA StepWired ==
    ASSUME FirmwareInOrder, IInv, Ahead, Wired, [Next]_vars
    PROVE  Wired'
<1>1. ASSUME NEW c \in Cores, Boot(c) PROVE Wired'
  BY <1>1, BootWired
<1>2. ASSUME NEW c \in Cores, WakeUp(c) \/ Interrupt(c) \/ Deliver(c) \/ Fault(c) \/ Spurious(c)
      PROVE  Wired'
  BY <1>2, InterruptWired
<1>3. CASE UNCHANGED <<firmware, at, todo, boot, routing>>
  <2>1. UNCHANGED <<firmware, at, todo, boot, apic, select, redirection>>
    BY <1>3 DEF routing
  <2>2. Known' /\ Requests'
    BY <2>1 DEF Wired, Known, Requests
  <2>3. \A b : Chip(b)' = Chip(b) /\ Low(b)' = Low(b)
    BY <2>1 DEF Chip, Low, find_ioapic, gsi_of, irq_count
  <2>4. Done'
    <3>1. Left' = Left
      BY <2>1 DEF Left
    <3> QED
      BY <2>1, <2>3, <3>1 DEF Wired, Done, Asked
  <2>5. \A c \in Cores : at'[c] \in Access => Accessing(c)'
    BY <2>1, <2>3 DEF Wired, Accessing, Reached
  <2>6. Chips'
    <3>1. \A g : Irq(g)' = Irq(g)
      BY <2>1 DEF Irq, Says, Listed
    <3>2. ASSUME NEW i \in DOMAIN apic.ioapic, NEW pin \in 0 .. apic.ioapic[i].answer, ~ Loose(i, pin)
          PROVE  Delivers(i, pin)'
      <4>1. Delivers(i, pin)
        BY <3>2 DEF Wired, Chips
      <4> QED
        BY <2>1, <2>3, <3>1, <4>1 DEF Delivers
    <3>3. \A i, pin : Loose(i, pin)' = Loose(i, pin)
      BY <2>1, <3>1 DEF Loose
    <3> QED
      BY <2>1, <3>2, <3>3 DEF Wired, Chips, Written, irq_count
  <2> QED
    BY <2>2, <2>4, <2>5, <2>6 DEF Wired
<1>4. ASSUME NEW c \in Cores, Tick(c) PROVE Wired'
  BY <1>3, <1>4 DEF Tick
<1>5. CASE UNCHANGED vars
  BY <1>3, <1>5 DEF vars
<1> QED
  BY <1>1, <1>2, <1>4, <1>5, Zenon DEF Next, Run

(* On every machine whose tables are in order, and however the accesses of any
   number of cores to the I/O APICs come between each other: the kernel knows
   the processors, the I/O APICs and the overrides that the firmware's table
   lists, and, when no core is about to write an entry, each pin but that of
   system calls delivers the vector that was registered for the irq the table
   puts there, and no other entry has been written; the pin of system calls too,
   if there is no third core. *)
THEOREM RoutesObeyed == ASSUME FirmwareInOrder PROVE Spec => []FirmwareIsObeyed
<1>1. Init => IInv /\ Ahead /\ Wired
  BY InitInv, InitAhead, InitWired
<1>2. IInv /\ Ahead /\ Wired /\ [Next]_vars => (IInv /\ Ahead /\ Wired)'
  BY StepInv, StepAhead, StepWired
<1>3. IInv /\ Ahead /\ Wired => FirmwareIsObeyed
  BY Obeyed
<1> QED
  BY <1>1, <1>2, <1>3, PTL DEF Spec
=============================================================================
