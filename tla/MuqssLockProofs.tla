--------------------------- MODULE MuqssLockProofs ---------------------------
(***************************************************************************)
(* What the locks of the scheduler guarantee when every task has the same  *)
(* priority, which is what first_initialize gives them: wake_up then never *)
(* stores without the lock, and the critical sections exclude each other.  *)
(***************************************************************************)
EXTENDS MuqssProofs

LockInv == LockExclusion /\ FaultContained

-----------------------------------------------------------------------------
(* What a step of core c does to the locks *)

OthersKeep(c) ==
    \A d \in Core \ {c} : pc'[d] = pc[d] /\ target'[d] = target[d]

\* It takes or clears none, and enters no section and leaves none but by a fault.
LeavesLocks(c) ==
    /\ lock' = lock /\ target'[c] = target[c]
    /\ pc[c] \notin {"dead", "store"} /\ pc'[c] # "store"
    /\ pc'[c] = "dead" \/ (pc[c] \in LockPC <=> pc'[c] \in LockPC)
\* It takes c's own lock.
TakesOwn(c) ==
    /\ ~lock[c] /\ lock' = [lock EXCEPT ![c] = TRUE] /\ target'[c] = target[c]
    /\ pc[c] \notin LockPC \cup {"dead", "store"} /\ pc'[c] \in LockPC
\* It clears c's own lock, which c holds.
ClearsOwn(c) ==
    /\ lock' = [lock EXCEPT ![c] = FALSE] /\ target'[c] = target[c]
    /\ pc[c] \in LockPC /\ pc'[c] \in {"sched", "nplock", "swlock", "ret", "user"}
\* It takes a lock by try_lock, or clears the one it took so.
TakesOther(c) ==
    \E d \in Core : /\ ~lock[d] /\ lock' = [lock EXCEPT ![d] = TRUE]
                    /\ target'[c] = d
                    /\ pc[c] = "pick" /\ pc'[c] = "store"
ClearsOther(c) ==
    \E d \in Core : /\ lock' = [lock EXCEPT ![d] = FALSE]
                    /\ target[c] = d /\ target'[c] = None
                    /\ pc[c] = "store" /\ pc'[c] = "user"

\* With one priority every step is of one of these kinds.
LEMMA LockEffect ==
    ASSUME OnePriority, TypeOK, Filled, Aimed, CpuNamesHolder, NoBarge,
           [Next]_vars
    PROVE  \/ UNCHANGED <<pc, lock, target>>
           \/ \E c \in Core :
                 /\ OthersKeep(c)
                 /\ \/ LeavesLocks(c) \/ TakesOwn(c) \/ ClearsOwn(c)
                    \/ TakesOther(c) \/ ClearsOther(c)
<1> USE DEF TypeOK, At, Goto, Fault, LockPC, OthersKeep
<1>1. ASSUME NEW c \in Core, InitializeTask(c)
      PROVE  OthersKeep(c) /\ LeavesLocks(c)
  BY <1>1 DEF InitializeTask, LeavesLocks, slots, waking
<1>2. ASSUME NEW c \in Core, StartMain(c)
      PROVE  OthersKeep(c) /\ LeavesLocks(c)
  BY <1>2 DEF StartMain, LeavesLocks, waking
<1>3. ASSUME NEW c \in Core, Tick(c)
      PROVE  OthersKeep(c) /\ LeavesLocks(c)
  BY <1>3 DEF Tick, LeavesLocks, slots, waking
<1>4. ASSUME NEW c \in Core, TickLock(c)
      PROVE  OthersKeep(c) /\ TakesOwn(c)
  BY <1>4 DEF TickLock, TakesOwn, Acquire, try_lock, slots, waking
<1>5. ASSUME NEW c \in Core, SaveContext(c)
      PROVE  OthersKeep(c) /\ (LeavesLocks(c) \/ ClearsOwn(c))
  BY <1>5 DEF SaveContext, LeavesLocks, ClearsOwn, Unlock, slots, waking
<1>6. ASSUME NEW c \in Core, Expire(c)
      PROVE  OthersKeep(c) /\ LeavesLocks(c)
  BY <1>6 DEF Expire, LeavesLocks, slots, waking
<1>7. ASSUME NEW c \in Core, KeepRunning(c)
      PROVE  OthersKeep(c) /\ LeavesLocks(c)
  BY <1>7 DEF KeepRunning, LeavesLocks, slots, waking
<1>8. ASSUME NEW c \in Core, CheckNext(c)
      PROVE  OthersKeep(c) /\ LeavesLocks(c)
  BY <1>8 DEF CheckNext, LeavesLocks, waking
<1>9. ASSUME NEW c \in Core, RTLock(c)
      PROVE  OthersKeep(c) /\ TakesOwn(c)
  BY <1>9 DEF RTLock, TakesOwn, Acquire, try_lock, slots, waking
<1>10. ASSUME NEW c \in Core, TakeRT(c)
      PROVE  OthersKeep(c) /\ ClearsOwn(c)
  BY <1>10 DEF TakeRT, ClearsOwn, Unlock, waking
<1>11. ASSUME NEW c \in Core, NPLock(c)
      PROVE  OthersKeep(c) /\ TakesOwn(c)
  BY <1>11 DEF NPLock, TakesOwn, Acquire, try_lock, slots, waking
<1>12. ASSUME NEW c \in Core, TakeNP(c)
      PROVE  OthersKeep(c) /\ ClearsOwn(c)
  BY <1>12 DEF TakeNP, ClearsOwn, Unlock, waking
<1>13. ASSUME NEW c \in Core, SwitchLock(c)
      PROVE  OthersKeep(c) /\ TakesOwn(c)
  BY <1>13 DEF SwitchLock, TakesOwn, Acquire, try_lock, slots, waking
<1>14. ASSUME NEW c \in Core, Activate(c)
      PROVE  OthersKeep(c) /\ (LeavesLocks(c) \/ ClearsOwn(c))
  BY <1>14 DEF Activate, LeavesLocks, ClearsOwn, Unlock, waking
<1>15. ASSUME NEW c \in Core, MoveNext(c)
      PROVE  OthersKeep(c) /\ ClearsOwn(c)
  BY <1>15 DEF MoveNext, ClearsOwn, Unlock, waking
<1>16. ASSUME NEW c \in Core, Return(c)
      PROVE  OthersKeep(c) /\ LeavesLocks(c)
  BY <1>16 DEF Return, LeavesLocks, slots, waking
<1>17. ASSUME NEW c \in Core, Yield(c)
      PROVE  OthersKeep(c) /\ LeavesLocks(c)
  BY <1>17 DEF Yield, LeavesLocks, slots, waking
<1>18. ASSUME NEW c \in Core, YieldLock(c)
      PROVE  OthersKeep(c) /\ TakesOwn(c)
  BY <1>18 DEF YieldLock, TakesOwn, Acquire, try_lock, slots, waking
<1>19. ASSUME NEW c \in Core, YieldSelect(c)
      PROVE  OthersKeep(c) /\ LeavesLocks(c)
  BY <1>19 DEF YieldSelect, LeavesLocks, waking
<1>20. ASSUME NEW c \in Core, YieldPush(c)
      PROVE  OthersKeep(c) /\ (LeavesLocks(c) \/ ClearsOwn(c))
  BY <1>20 DEF YieldPush, LeavesLocks, ClearsOwn, Unlock, waking
<1>21. ASSUME NEW c \in Core, Enable(c)
      PROVE  OthersKeep(c) /\ LeavesLocks(c)
  BY <1>21 DEF Enable, LeavesLocks, slots
<1>22. ASSUME NEW c \in Core, WakeScan(c)
      PROVE  OthersKeep(c) /\ LeavesLocks(c)
  BY <1>22 DEF WakeScan, LeavesLocks, slots
<1>23. ASSUME NEW c \in Core, WakeStale(c)
      PROVE  OthersKeep(c) /\ LeavesLocks(c)
  BY <1>23 DEF WakeStale, LeavesLocks, slots, waking
<1>24. ASSUME NEW c \in Core, WakeTryLock(c)
      PROVE  OthersKeep(c) /\ TakesOther(c)
  <2>1. running_task[top[c]] \in Task /\ top[c] \in Core
    BY <1>24 DEF WakeTryLock, try_lock, Filled
  <2>2. cpu[running_task[top[c]]] = top[c]
    BY <2>1 DEF CpuNamesHolder, Has, Place
  <2> QED
    BY <1>24, <2>1, <2>2 DEF WakeTryLock, try_lock, TakesOther
<1>25. ASSUME NEW c \in Core, WakePop(c)
      PROVE  OthersKeep(c) /\ LeavesLocks(c)
  BY <1>25 DEF WakePop, LeavesLocks, slots
<1>26. ASSUME NEW c \in Core, WakeStore(c)
      PROVE  OthersKeep(c) /\ ClearsOther(c)
  <2>1. target[c] \in Core /\ pc[c] = "store"
    BY <1>26 DEF WakeStore, WakeReturn, Aimed
  <2> QED
    BY <1>26, <2>1 DEF WakeStore, WakeReturn, ClearsOther
<1>27. ASSUME NEW c \in Core, LocalLock(c)
      PROVE  OthersKeep(c) /\ TakesOwn(c)
  BY <1>27 DEF LocalLock, TakesOwn, Acquire, try_lock, slots, waking
<1>28. ASSUME NEW c \in Core, WakeLocal(c)
      PROVE  OthersKeep(c) /\ ClearsOwn(c)
  BY <1>28 DEF WakeLocal, ClearsOwn, Unlock, slots
<1>29. ASSUME NEW c \in Core PROVE ~WakeOutrank(c) /\ ~Barge(c)
  BY NoOutrank, NobodyBarges
<1>30. ASSUME NEW c \in Core, WakeContinue(c) PROVE UNCHANGED vars
  BY <1>30 DEF WakeContinue
<1>31. CASE UNCHANGED vars
  BY <1>31 DEF vars
<1> QED
  BY <1>1, <1>2, <1>3, <1>4, <1>5, <1>6, <1>7, <1>8, <1>9, <1>10, <1>11, <1>12,
     <1>13, <1>14, <1>15, <1>16, <1>17, <1>18, <1>19, <1>20, <1>21, <1>22,
     <1>23, <1>24, <1>25, <1>26, <1>27, <1>28, <1>29, <1>30, <1>31 DEF Next,
     Step, Enter, Halted, Barge

\* Each of these kinds keeps the sections exclusive and covered.
LEMMA LockStep ==
    ASSUME OnePriority, TypeOK, TypeOK', Filled, Aimed, NoBarge, CpuNamesHolder,
           LockInv, [Next]_vars
    PROVE  LockInv'
<1> USE DEF TypeOK, OthersKeep
<1>0. ASSUME NEW b \in Core, NEW d \in Core, Holding(b, d)
      PROVE  lock[d] /\ \A g \in Core : Holding(g, d) => g = b
  BY <1>0 DEF LockInv, LockExclusion
<1>1. CASE UNCHANGED <<pc, lock, target>>
  BY <1>1 DEF LockInv, LockExclusion, FaultContained, Holding
<1>2. \A d \in Core : pc[d] = "dead" => pc'[d] = "dead"
  <2>1. ASSUME NEW c \in Core, OthersKeep(c),
               \/ LeavesLocks(c) \/ TakesOwn(c) \/ ClearsOwn(c)
               \/ TakesOther(c) \/ ClearsOther(c)
        PROVE  pc[c] # "dead"
    BY <2>1 DEF LeavesLocks, TakesOwn, ClearsOwn, TakesOther, ClearsOther, LockPC
  <2> QED
    BY <2>1, LockEffect
<1>3. ASSUME NEW c \in Core, OthersKeep(c), LeavesLocks(c) PROVE LockInv'
  <2>1. ASSUME NEW b \in Core, NEW d \in Core
        PROVE  /\ Holding(b, d)' => Holding(b, d)
               /\ Holding(b, d) => Holding(b, d)' \/ (b = d /\ pc'[d] = "dead")
    BY <1>3 DEF LeavesLocks, Holding, LockPC
  <2>2. lock' = lock
    BY <1>3 DEF LeavesLocks
  <2>6. ASSUME NEW b \in Core, NEW d \in Core, Holding(b, d)' PROVE lock'[d]
    BY <1>0, <2>6, <2>1, <2>2
  <2>7. ASSUME NEW b \in Core, NEW g \in Core, NEW d \in Core,
               Holding(b, d)', Holding(g, d)'
        PROVE  b = g
    BY <1>0, <2>7, <2>1, <2>2
  <2>8. LockExclusion'
    BY <2>6, <2>7 DEF LockExclusion
  <2>9. FaultContained'
    BY <1>2, <2>1, <2>2 DEF LockInv, LockExclusion, FaultContained
  <2> QED
    BY <1>2, <2>8, <2>9 DEF LockInv
<1>4. ASSUME NEW c \in Core, OthersKeep(c), TakesOwn(c) PROVE LockInv'
  <2>1. ASSUME NEW b \in Core, NEW d \in Core
        PROVE  /\ Holding(b, d)' => Holding(b, d) \/ (b = c /\ d = c)
               /\ Holding(b, d) \/ (b = c /\ d = c) => Holding(b, d)'
    BY <1>4 DEF TakesOwn, Holding, LockPC
  <2>2. ~lock[c] /\ \A d \in Core : lock'[d] = IF d = c THEN TRUE ELSE lock[d]
    BY <1>4 DEF TakesOwn
  <2>6. ASSUME NEW b \in Core, NEW d \in Core, Holding(b, d)' PROVE lock'[d]
    BY <1>0, <2>6, <2>1, <2>2
  <2>7. ASSUME NEW b \in Core, NEW g \in Core, NEW d \in Core,
               Holding(b, d)', Holding(g, d)'
        PROVE  b = g
    BY <1>0, <2>7, <2>1, <2>2, ZenonT(40)
  <2>8. LockExclusion'
    BY <2>6, <2>7 DEF LockExclusion
  <2>9. FaultContained'
    BY <1>2, <2>1, <2>2 DEF LockInv, LockExclusion, FaultContained
  <2> QED
    BY <1>2, <2>8, <2>9 DEF LockInv
<1>5. ASSUME NEW c \in Core, OthersKeep(c), ClearsOwn(c) PROVE LockInv'
  <2>1. ASSUME NEW b \in Core, NEW d \in Core
        PROVE  /\ Holding(b, d)' => Holding(b, d) /\ ~(b = c /\ d = c)
               /\ Holding(b, d) /\ ~(b = c /\ d = c) => Holding(b, d)'
    BY <1>5 DEF ClearsOwn, Holding, LockPC
  <2>2. Holding(c, c) /\ \A d \in Core : lock'[d] = IF d = c THEN FALSE ELSE lock[d]
    BY <1>5 DEF ClearsOwn, Holding
  <2>6. ASSUME NEW b \in Core, NEW d \in Core, Holding(b, d)' PROVE lock'[d]
    <3>1. Holding(b, d) /\ ~(b = c /\ d = c)
      BY <2>1, <2>6
    <3>2. d # c
      BY <1>0, <2>2, <3>1
    <3>3. lock[d]
      BY <1>0, <3>1
    <3> QED
      BY <2>2, <3>2, <3>3
  <2>7. ASSUME NEW b \in Core, NEW g \in Core, NEW d \in Core,
               Holding(b, d)', Holding(g, d)'
        PROVE  b = g
    BY <1>0, <2>7, <2>1, <2>2
  <2>8. LockExclusion'
    BY <2>6, <2>7 DEF LockExclusion
  <2>9. FaultContained'
    BY <1>2, <2>1, <2>2 DEF LockInv, LockExclusion, FaultContained
  <2> QED
    BY <1>2, <2>8, <2>9 DEF LockInv
<1>6. ASSUME NEW c \in Core, OthersKeep(c), TakesOther(c) PROVE LockInv'
  <2>1. PICK e \in Core : /\ ~lock[e] /\ lock' = [lock EXCEPT ![e] = TRUE]
                          /\ target'[c] = e
                          /\ pc[c] = "pick" /\ pc'[c] = "store"
    BY <1>6 DEF TakesOther
  <2>2. ASSUME NEW b \in Core, NEW d \in Core
        PROVE  /\ Holding(b, d)' => Holding(b, d) \/ (b = c /\ d = e)
               /\ Holding(b, d) \/ (b = c /\ d = e) => Holding(b, d)'
    BY <1>6, <2>1 DEF Holding, LockPC
  <2>3. \A d \in Core : lock'[d] = IF d = e THEN TRUE ELSE lock[d]
    BY <2>1
  <2>6. ASSUME NEW b \in Core, NEW d \in Core, Holding(b, d)' PROVE lock'[d]
    BY <1>0, <2>6, <2>1, <2>2, <2>3
  <2>7. ASSUME NEW b \in Core, NEW g \in Core, NEW d \in Core,
               Holding(b, d)', Holding(g, d)'
        PROVE  b = g
    <3>1. \A f \in Core : ~Holding(f, e)
      BY <1>0, <2>1
    <3>2. CASE d = e
      BY <2>2, <2>7, <3>1, <3>2
    <3>3. CASE d # e
      BY <1>0, <2>2, <2>7, <3>3
    <3> QED
      BY <3>2, <3>3
  <2>8. LockExclusion'
    BY <2>6, <2>7 DEF LockExclusion
  <2>9. FaultContained'
    BY <1>2, <2>1, <2>2, <2>3 DEF LockInv, LockExclusion, FaultContained
  <2> QED
    BY <1>2, <2>8, <2>9 DEF LockInv
<1>7. ASSUME NEW c \in Core, OthersKeep(c), ClearsOther(c) PROVE LockInv'
  <2>1. PICK e \in Core : /\ lock' = [lock EXCEPT ![e] = FALSE]
                          /\ target[c] = e /\ target'[c] = None
                          /\ pc[c] = "store" /\ pc'[c] = "user"
    BY <1>7 DEF ClearsOther
  <2>2. ASSUME NEW b \in Core, NEW d \in Core
        PROVE  /\ Holding(b, d)' => Holding(b, d) /\ ~(b = c /\ d = e)
               /\ Holding(b, d) /\ ~(b = c /\ d = e) => Holding(b, d)'
    BY <1>7, <2>1 DEF Holding, LockPC
  <2>3. Holding(c, e) /\ \A d \in Core : lock'[d] = IF d = e THEN FALSE ELSE lock[d]
    BY <2>1 DEF Holding
  <2>6. ASSUME NEW b \in Core, NEW d \in Core, Holding(b, d)' PROVE lock'[d]
    BY <1>0, <2>6, <2>2, <2>3, ZenonT(40)
  <2>7. ASSUME NEW b \in Core, NEW g \in Core, NEW d \in Core,
               Holding(b, d)', Holding(g, d)'
        PROVE  b = g
    BY <1>0, <2>7, <2>2, <2>3
  <2>8. LockExclusion'
    BY <2>6, <2>7 DEF LockExclusion
  <2>9. FaultContained'
    BY <1>2, <2>2, <2>3 DEF LockInv, LockExclusion, FaultContained
  <2> QED
    BY <1>2, <2>8, <2>9 DEF LockInv
<1> QED
  BY <1>1, <1>2, <1>3, <1>4, <1>5, <1>6, <1>7,
     LockEffect DEF LockInv

-----------------------------------------------------------------------------
(* The address space a core has loaded *)

\* The main task's while the core boots, the next one's while it is moved.
ActiveInv ==
    \A c \in Core :
        /\ pc[c] \in {"off", "boot"} => active[c] = Main[c]
        /\ pc[c] = "move" => active[c] = next[c].task

\* A step of core c that is not a part of a switch: c may clear its
\* running_task and set its own next.
NoSwitch(c) ==
    /\ UNCHANGED active
    /\ \A d \in Core : running_task'[d] \in {running_task[d], None}
    /\ \A d \in Core \ {c} : pc'[d] = pc[d] /\ next'[d] = next[d]
    /\ pc[c] \notin {"off", "boot", "move", "dead"}
    /\ pc'[c] \notin {"off", "boot", "move"}

\* Every step is one, but for those that start, switch or wake tasks.
LEMMA SwitchOrNot ==
    ASSUME TypeOK, NoBarge, [Next]_vars
    PROVE  \/ UNCHANGED <<pc, running_task, next, active>>
           \/ \E c \in Core : \/ NoSwitch(c) \/ InitializeTask(c) \/ StartMain(c)
                              \/ Activate(c) \/ MoveNext(c) \/ WakeStore(c)
<1> USE DEF TypeOK, At, Goto, Fault, NoSwitch
<1>1. ASSUME NEW c \in Core, Tick(c) PROVE NoSwitch(c)
  BY <1>1 DEF Tick, slots
<1>2. ASSUME NEW c \in Core, TickLock(c) PROVE NoSwitch(c)
  BY <1>2 DEF TickLock, Acquire, try_lock, slots
<1>3. ASSUME NEW c \in Core, SaveContext(c) PROVE NoSwitch(c)
  BY <1>3 DEF SaveContext, slots
<1>4. ASSUME NEW c \in Core, Expire(c) PROVE NoSwitch(c)
  BY <1>4 DEF Expire, slots
<1>5. ASSUME NEW c \in Core, KeepRunning(c) PROVE NoSwitch(c)
  BY <1>5 DEF KeepRunning, slots
<1>6. ASSUME NEW c \in Core, CheckNext(c) PROVE NoSwitch(c)
  BY <1>6 DEF CheckNext, PopRunning
<1>7. ASSUME NEW c \in Core, RTLock(c) PROVE NoSwitch(c)
  BY <1>7 DEF RTLock, Acquire, try_lock, slots
<1>8. ASSUME NEW c \in Core, TakeRT(c) PROVE NoSwitch(c)
  BY <1>8 DEF TakeRT, PopRunning, SetNext
<1>9. ASSUME NEW c \in Core, NPLock(c) PROVE NoSwitch(c)
  BY <1>9 DEF NPLock, Acquire, try_lock, slots
<1>10. ASSUME NEW c \in Core, TakeNP(c) PROVE NoSwitch(c)
  BY <1>10 DEF TakeNP, PopRunning, SetNext
<1>11. ASSUME NEW c \in Core, SwitchLock(c) PROVE NoSwitch(c)
  BY <1>11 DEF SwitchLock, Acquire, try_lock, slots
<1>12. ASSUME NEW c \in Core, Return(c) PROVE NoSwitch(c)
  BY <1>12 DEF Return, slots
<1>13. ASSUME NEW c \in Core, Yield(c) PROVE NoSwitch(c)
  BY <1>13 DEF Yield, slots
<1>14. ASSUME NEW c \in Core, YieldLock(c) PROVE NoSwitch(c)
  BY <1>14 DEF YieldLock, Acquire, try_lock, slots
<1>15. ASSUME NEW c \in Core, YieldSelect(c) PROVE NoSwitch(c)
  BY <1>15 DEF YieldSelect, SetNext
<1>16. ASSUME NEW c \in Core, YieldPush(c) PROVE NoSwitch(c)
  BY <1>16 DEF YieldPush, PopRunning
<1>17. ASSUME NEW c \in Core, Enable(c) PROVE NoSwitch(c)
  BY <1>17 DEF Enable, slots
<1>18. ASSUME NEW c \in Core, WakeScan(c) PROVE NoSwitch(c)
  BY <1>18 DEF WakeScan, slots
<1>19. ASSUME NEW c \in Core, WakeStale(c) PROVE NoSwitch(c)
  BY <1>19 DEF WakeStale, slots
<1>20. ASSUME NEW c \in Core, WakeOutrank(c) PROVE NoSwitch(c)
  BY <1>20 DEF WakeOutrank, slots
<1>21. ASSUME NEW c \in Core, WakeTryLock(c) PROVE NoSwitch(c)
  BY <1>21 DEF WakeTryLock, try_lock, slots
<1>22. ASSUME NEW c \in Core, WakePop(c) PROVE NoSwitch(c)
  <2>1. pc[c] = "pick" /\ UNCHANGED slots
    BY <1>22 DEF WakePop
  <2>2. \/ pc' = [pc EXCEPT ![c] = "llock"]
        \/ pc' = pc
        \/ pc' = [pc EXCEPT ![c] = "dead"]
    BY <1>22 DEF WakePop
  <2> QED
    BY <2>1, <2>2 DEF slots
<1>23. ASSUME NEW c \in Core, LocalLock(c) PROVE NoSwitch(c)
  BY <1>23 DEF LocalLock, Acquire, try_lock, slots
<1>24. ASSUME NEW c \in Core, WakeLocal(c) PROVE NoSwitch(c)
  BY <1>24 DEF WakeLocal, slots
<1>25. ASSUME NEW c \in Core, WakeContinue(c) PROVE UNCHANGED vars
  BY <1>25 DEF WakeContinue
<1>26. UNCHANGED vars => UNCHANGED <<pc, running_task, next, active>>
  BY DEF vars
<1> QED
  BY <1>1, <1>2, <1>3, <1>4, <1>5, <1>6, <1>7, <1>8, <1>9, <1>10, <1>11, <1>12,
     <1>13, <1>14, <1>15, <1>16, <1>17, <1>18, <1>19, <1>20, <1>21, <1>22,
     <1>23, <1>24, <1>25, <1>26, NobodyBarges DEF Next, Step, Enter, Halted, Barge

\* Between activate() and the move nobody can write next[c]: c has its lock.
LEMMA ActiveStep ==
    ASSUME TypeOK, Filled, NoBarge, Aimed, LockInv, ActiveInv, AddressSpaceMatches,
           [Next]_vars
    PROVE  ActiveInv' /\ AddressSpaceMatches'
<1> DEFINE Goal == ActiveInv' /\ AddressSpaceMatches'
<1> USE DEF TypeOK, ActiveInv, AddressSpaceMatches
<1>1. CASE UNCHANGED <<pc, running_task, next, active>>
  BY <1>1
<1>2. ASSUME NEW c \in Core, NoSwitch(c) PROVE Goal
  BY <1>2 DEF NoSwitch
<1>3. ASSUME NEW c \in Core, InitializeTask(c) PROVE Goal
  BY <1>3 DEF InitializeTask, At, Goto, slots
<1>4. ASSUME NEW c \in Core, StartMain(c) PROVE Goal
  BY <1>4 DEF StartMain, At, Goto
<1>5. ASSUME NEW c \in Core, Activate(c) PROVE Goal
  <2>1. \A d \in Core \ {c} : pc'[d] = pc[d] /\ active'[d] = active[d]
    BY <1>5 DEF Activate, Goto, Fault
  <2>2. pc[c] = "switch" /\ running_task' = running_task /\ next' = next
    BY <1>5 DEF Activate, At
  <2>3. \/ pc'[c] = "ret" /\ active'[c] = active[c]
        \/ pc'[c] = "dead"
        \/ pc'[c] = "move" /\ active'[c] = next[c].task
    BY <1>5 DEF Activate, Goto, Fault
  <2> QED
    BY <2>1, <2>2, <2>3
<1>6. ASSUME NEW c \in Core, MoveNext(c) PROVE Goal
  BY <1>6 DEF MoveNext, At, Goto
<1>7. ASSUME NEW c \in Core, WakeStore(c) PROVE Goal
  <2>1. pc[c] = "store" /\ target[c] \in Core
    BY <1>7 DEF WakeStore, WakeReturn, At, Aimed
  <2>2. pc[target[c]] # "move"
    <3>1. Holding(c, target[c])
      BY <2>1 DEF Holding
    <3>2. pc[target[c]] = "move" => Holding(target[c], target[c])
      BY DEF Holding, LockPC
    <3>3. pc[target[c]] = "move" => c = target[c]
      BY <2>1, <3>1, <3>2 DEF LockInv, LockExclusion
    <3> QED
      BY <2>1, <3>3
  <2>3. \A d \in Core \ {target[c]} : next'[d] = next[d]
    BY <1>7 DEF WakeStore, WakeReturn, SetNext
  <2>4. /\ UNCHANGED <<running_task, active>>
        /\ \A d \in Core : pc'[d] = IF d = c THEN "user" ELSE pc[d]
    BY <1>7 DEF WakeStore, WakeReturn, Goto
  <2> QED
    BY <2>1, <2>2, <2>3, <2>4
<1> QED
  BY <1>1, <1>2, <1>3, <1>4, <1>5, <1>6, <1>7, SwitchOrNot

-----------------------------------------------------------------------------
(* The theorems *)

NInv == IInv /\ LockInv /\ ActiveInv /\ AddressSpaceMatches

\* The invariant for one priority holds at power-on,
LEMMA InitLocks == Init => NInv
<1> SUFFICES ASSUME Init PROVE NInv
  OBVIOUS
<1>1. LockInv
  BY MuqssAssumption DEF Init, LockInv, LockExclusion, FaultContained,
                         Holding, LockPC
<1>2. ActiveInv /\ AddressSpaceMatches
  BY DEF Init, ActiveInv, AddressSpaceMatches
<1> QED
  BY <1>1, <1>2, InitInv DEF NInv

\* and every step keeps it.
LEMMA StepLocks ==
    ASSUME OnePriority
    PROVE  NInv /\ [Next]_vars => NInv'
<1> SUFFICES ASSUME NInv, [Next]_vars PROVE NInv'
  OBVIOUS
<1>1. IInv /\ IInv'
  BY StepInv DEF NInv
<1>2. /\ TypeOK /\ TypeOK' /\ Filled /\ NoBarge /\ Aimed
      /\ CpuNamesHolder /\ LockInv
  BY <1>1 DEF IInv, AnyInv, NInv
<1>3. LockInv'
  BY <1>2, LockStep
<1>4. ActiveInv' /\ AddressSpaceMatches'
  BY <1>2, ActiveStep DEF NInv
<1> QED
  BY <1>1, <1>3, <1>4 DEF NInv

\* The invariant of the runs of one priority, for any number of cores.
THEOREM OnePriorityInvariance ==
    ASSUME OnePriority
    PROVE  Spec => []NInv
BY InitLocks, StepLocks, PTL DEF Spec

\* When all tasks have one priority, a core's critical sections exclude each
\* other and are covered by its lock, wake_up's try_lock from other cores
\* included.
THEOREM MutualExclusion ==
    ASSUME OnePriority
    PROVE  Spec => []LockExclusion
<1>1. NInv => LockExclusion
  BY DEF NInv, LockInv
<1> QED
  BY <1>1, OnePriorityInvariance, PTL

\* ... and a lock that stays taken is that of a core that faulted.
THEOREM FaultsContained ==
    ASSUME OnePriority
    PROVE  Spec => []FaultContained
<1>1. NInv => FaultContained
  BY DEF NInv, LockInv
<1> QED
  BY <1>1, OnePriorityInvariance, PTL

\* ... and a task runs in its own address space, on its own kernel stack.
THEOREM OwnAddressSpace ==
    ASSUME OnePriority
    PROVE  Spec => []AddressSpaceMatches
<1>1. NInv => AddressSpaceMatches
  BY DEF NInv
<1> QED
  BY <1>1, OnePriorityInvariance, PTL
=============================================================================
