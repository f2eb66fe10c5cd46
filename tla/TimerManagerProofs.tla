------------------------- MODULE TimerManagerProofs -------------------------
(***************************************************************************)
(* Proofs about TimerManager for any set of timers, delays and intervals:  *)
(* the inductive invariant behind ActiveMeansQueued, the absence of lost   *)
(* wakeups when no callback leaves by longjmp, the silence of cancelled    *)
(* timers, and the phase and the single firing of cyclic ones.             *)
(***************************************************************************)
EXTENDS TimerManager, TLAPS

\* What the two threads know of the timer they hold. The audio thread found
\* its timer inactive; the CPU thread found its timer at the head of the
\* queue; they never hold the same timer while it is out of the queue.
Holding ==
    /\ pc \in {"test", "rearm", "callback"} => cur \in Timer
    /\ pc = "test" => queue[cur] = 1
    /\ apc \in {"write", "push", "notify"} => atimer \in AudioTimer
    /\ apc = "write" => ~active[atimer]
    /\ pc = "rearm" /\ apc = "push" => cur # atimer

\* The inductive invariant of the queue.
QueueInv == TypeOK /\ ActiveMeansQueued /\ Holding

\* A re-armed cyclic timer is due after the current time, and by no more than
\* one interval: process_timers() neither repeats a timer in a pass nor skips
\* a period that has not been missed.
THEOREM RearmInFuture ==
    ASSUME NEW deadline \in Nat, NEW iv \in Nat \ {0}, NEW tn \in Nat,
           deadline <= tn
    PROVE  /\ NextDeadline(deadline, iv, tn) \in Nat
           /\ NextDeadline(deadline, iv, tn) > tn
           /\ NextDeadline(deadline, iv, tn) <= tn + iv
<1> DEFINE n == deadline + iv
           q == (tn - n) \div iv
<1>1. CASE n > tn
  BY <1>1 DEF NextDeadline
<1>2. CASE n <= tn
  <2>1. tn - n \in Nat
    BY <1>2
  <2>2. q \in Nat /\ q * iv <= tn - n /\ tn - n < (q + 1) * iv
    BY <2>1, Z3
  <2>3. NextDeadline(deadline, iv, tn) = n + (q + 1) * iv
    BY <1>2 DEF NextDeadline
  <2>4. (q + 1) * iv = q * iv + iv /\ q * iv \in Nat
    BY <2>2, Z3
  <2> HIDE DEF q
  <2>5. QED
    BY <2>2, <2>3, <2>4, <1>2
<1>3. QED
  BY <1>1, <1>2

\* The deadline NextDeadline computes is a time, on whatever time it is called.
LEMMA NextDeadlineNat ==
    ASSUME NEW deadline \in Nat, NEW iv \in Nat \ {0}, NEW tn \in Nat
    PROVE  NextDeadline(deadline, iv, tn) \in Nat
<1> DEFINE n == deadline + iv
           q == (tn - n) \div iv
<1>1. CASE n > tn
  BY <1>1 DEF NextDeadline
<1>2. CASE n <= tn
  <2>1. q \in Nat
    BY <1>2, Z3
  <2>2. (q + 1) * iv \in Nat
    BY <2>1, Z3
  <2>3. NextDeadline(deadline, iv, tn) = n + (q + 1) * iv
    BY <1>2 DEF NextDeadline
  <2> HIDE DEF q
  <2>4. QED
    BY <2>2, <2>3
<1>3. QED
  BY <1>1, <1>2

\* The queue is empty and no thread holds a timer at first.
LEMMA QueueInvInit == Init => QueueInv
<1> SUFFICES ASSUME Init PROVE QueueInv
  OBVIOUS
<1>1. TypeOK
  BY DEF Init, TypeOK
<1>2. ActiveMeansQueued
  BY DEF Init, ActiveMeansQueued, InTransit
<1>3. Holding
  BY DEF Init, Holding
<1>4. QED
  BY <1>1, <1>2, <1>3 DEF QueueInv

\* After cancel_all_timers() no timer is flagged active.
LEMMA RestartClears ==
    QueueInv /\ Restart => \A t \in Timer : ~active'[t] /\ queue'[t] = 0
<1> SUFFICES ASSUME QueueInv, Restart, NEW t \in Timer
             PROVE  ~active'[t] /\ queue'[t] = 0
  OBVIOUS
<1>1. ~InTransit(t)
  BY DEF InTransit, Restart
<1>2. ~(active[t] /\ queue[t] = 0)
  BY <1>1 DEF QueueInv, ActiveMeansQueued
<1>3. /\ active'[t] = (active[t] /\ queue[t] = 0)
      /\ queue'[t] = 0
  BY DEF Restart
<1>4. QED
  BY <1>2, <1>3

\* Every step of either thread preserves the invariant of the queue.
LEMMA QueueInvNext == QueueInv /\ [Next]_vars => QueueInv'
<1> SUFFICES ASSUME QueueInv, [Next]_vars
             PROVE  QueueInv'
  OBVIOUS
<1> USE TimerAssumption, NoneAssumption
<1>1. ASSUME NEW t \in CpuTimer, NEW d \in Delay \cup CallbackDelay,
             NEW iv \in Interval, Schedule(t, d, iv)
      PROVE  QueueInv'
  <2>1. TypeOK'
    BY <1>1
       DEF QueueInv, TypeOK, Schedule, ClientDelay, SetTimer, Notify, Push,
           RemoveById, Timer, cpuVars, audioVars
  <2>2. ActiveMeansQueued'
    BY <1>1
       DEF QueueInv, TypeOK, ActiveMeansQueued, InTransit, Holding, Schedule,
           ClientDelay, SetTimer, Notify, Push, RemoveById, Timer, cpuVars,
           audioVars
  <2>3. Holding'
    BY <1>1
       DEF QueueInv, TypeOK, ActiveMeansQueued, InTransit, Holding, Schedule,
           ClientDelay, SetTimer, Notify, Push, RemoveById, Timer, cpuVars,
           audioVars
  <2>4. QED
    BY <2>1, <2>2, <2>3 DEF QueueInv
<1>2. ASSUME NEW t \in CpuTimer, ScheduleImmediate(t)
      PROVE  QueueInv'
  <2>1. TypeOK'
    BY <1>2
       DEF QueueInv, TypeOK, ScheduleImmediate, SetTimer, Notify, Push,
           RemoveById, Timer, cpuVars, audioVars
  <2>2. ActiveMeansQueued'
    BY <1>2
       DEF QueueInv, TypeOK, ActiveMeansQueued, InTransit, Holding,
           ScheduleImmediate, SetTimer, Notify, Push, RemoveById, Timer,
           cpuVars, audioVars
  <2>3. Holding'
    BY <1>2
       DEF QueueInv, TypeOK, ActiveMeansQueued, InTransit, Holding,
           ScheduleImmediate, SetTimer, Notify, Push, RemoveById, Timer,
           cpuVars, audioVars
  <2>4. QED
    BY <2>1, <2>2, <2>3 DEF QueueInv
<1>3. ASSUME NEW t \in CpuTimer, Cancel(t)
      PROVE  QueueInv'
  <2>1. TypeOK'
    BY <1>3
       DEF QueueInv, TypeOK, Cancel, Notify, RemoveById, Timer, cpuVars,
           audioVars
  <2>2. ActiveMeansQueued'
    BY <1>3
       DEF QueueInv, TypeOK, ActiveMeansQueued, InTransit, Holding, Cancel,
           Notify, RemoveById, Timer, cpuVars, audioVars
  <2>3. Holding'
    BY <1>3
       DEF QueueInv, TypeOK, ActiveMeansQueued, InTransit, Holding, Cancel,
           Notify, RemoveById, Timer, cpuVars, audioVars
  <2>4. QED
    BY <2>1, <2>2, <2>3 DEF QueueInv
<1>4. CASE Instr
  <2>1. TypeOK'
    BY <1>4 DEF QueueInv, TypeOK, Instr, timerVars, audioVars, histVars
  <2>2. ActiveMeansQueued'
    BY <1>4
       DEF QueueInv, TypeOK, ActiveMeansQueued, InTransit, Holding, Instr,
           timerVars, audioVars, histVars
  <2>3. Holding'
    BY <1>4
       DEF QueueInv, TypeOK, ActiveMeansQueued, InTransit, Holding, Instr,
           timerVars, audioVars, histVars
  <2>4. QED
    BY <2>1, <2>2, <2>3 DEF QueueInv
<1>5. CASE InstrFaults
  <2>1. TypeOK'
    BY <1>5 DEF QueueInv, TypeOK, InstrFaults, timerVars, audioVars, histVars
  <2>2. ActiveMeansQueued'
    BY <1>5
       DEF QueueInv, TypeOK, ActiveMeansQueued, InTransit, Holding,
           InstrFaults, timerVars, audioVars, histVars
  <2>3. Holding'
    BY <1>5
       DEF QueueInv, TypeOK, ActiveMeansQueued, InTransit, Holding,
           InstrFaults, timerVars, audioVars, histVars
  <2>4. QED
    BY <2>1, <2>2, <2>3 DEF QueueInv
<1>6. CASE Poll
  <2>1. TypeOK'
    BY <1>6 DEF QueueInv, TypeOK, Poll, timerVars, audioVars
  <2>2. ActiveMeansQueued'
    BY <1>6
       DEF QueueInv, TypeOK, ActiveMeansQueued, InTransit, Holding, Poll,
           timerVars, audioVars
  <2>3. Holding'
    BY <1>6
       DEF QueueInv, TypeOK, ActiveMeansQueued, InTransit, Holding, Poll,
           timerVars, audioVars
  <2>4. QED
    BY <2>1, <2>2, <2>3 DEF QueueInv
<1>7. CASE ScanTop
  <2>1. TypeOK'
    BY <1>7
       DEF QueueInv, TypeOK, ScanTop, IsTop, Queued, timerVars, audioVars,
           histVars
  <2>2. ActiveMeansQueued'
    BY <1>7
       DEF QueueInv, TypeOK, ActiveMeansQueued, InTransit, Holding, ScanTop,
           IsTop, Queued, timerVars, audioVars, histVars
  <2>3. Holding'
    BY <1>7
       DEF QueueInv, TypeOK, ActiveMeansQueued, InTransit, Holding, ScanTop,
           IsTop, Queued, timerVars, audioVars, histVars
  <2>4. QED
    BY <2>1, <2>2, <2>3 DEF QueueInv
<1>8. CASE TestDue
  <2>1. TypeOK'
    BY <1>8
       DEF QueueInv, TypeOK, Holding, TestDue, RemoveById, audioVars,
           histVars
  <2>2. ActiveMeansQueued'
    BY <1>8
       DEF QueueInv, TypeOK, ActiveMeansQueued, InTransit, Holding, TestDue,
           RemoveById, audioVars, histVars
  <2>3. Holding'
    BY <1>8
       DEF QueueInv, TypeOK, ActiveMeansQueued, InTransit, Holding, TestDue,
           RemoveById, audioVars, histVars
  <2>4. QED
    BY <2>1, <2>2, <2>3 DEF QueueInv
<1>9. CASE TestNotDue
  <2>1. TypeOK'
    BY <1>9
       DEF QueueInv, TypeOK, Holding, TestNotDue, timerVars, audioVars,
           histVars
  <2>2. ActiveMeansQueued'
    BY <1>9
       DEF QueueInv, TypeOK, ActiveMeansQueued, InTransit, Holding,
           TestNotDue, timerVars, audioVars, histVars
  <2>3. Holding'
    BY <1>9
       DEF QueueInv, TypeOK, ActiveMeansQueued, InTransit, Holding,
           TestNotDue, timerVars, audioVars, histVars
  <2>4. QED
    BY <2>1, <2>2, <2>3 DEF QueueInv
<1>10. CASE Rearm
  <2>1. TypeOK'
    <3>1. CASE interval[cur] > 0
      <4>1. NextDeadline(timeout[cur], interval[cur], time_now) \in Nat
        BY <1>10, <3>1, NextDeadlineNat DEF QueueInv, TypeOK, Holding, Rearm
      <4>2. /\ timeout' \in [Timer -> Nat]
            /\ queue' \in [Timer -> Nat]
        BY <1>10, <3>1, <4>1 DEF QueueInv, TypeOK, Rearm, Push
      <4>3. /\ UNCHANGED <<active, armed>>
            /\ fired' \subseteq Timer
            /\ requested' \subseteq AudioTimer
        BY <1>10, <3>1 DEF QueueInv, TypeOK, Holding, Rearm
      <4>4. QED
        BY <1>10, <4>2, <4>3 DEF QueueInv, TypeOK, Rearm, audioVars
    <3>2. CASE ~(interval[cur] > 0)
      BY <1>10, <3>2 DEF QueueInv, TypeOK, Holding, Rearm, audioVars
    <3>3. QED
      BY <3>1, <3>2
  <2>2. ActiveMeansQueued'
    BY <1>10
       DEF QueueInv, TypeOK, ActiveMeansQueued, InTransit, Holding, Rearm,
           Push, audioVars
  <2>3. Holding'
    <3>1. CASE interval[cur] > 0
      BY <1>10, <3>1 DEF QueueInv, TypeOK, Holding, Rearm, audioVars
    <3>2. CASE ~(interval[cur] > 0)
      <4>1. apc = "write" => ~active'[atimer]
        BY <1>10, <3>2, Zenon DEF QueueInv, TypeOK, Holding, Rearm, Timer
      <4>2. QED
        BY <1>10, <3>2, <4>1 DEF QueueInv, TypeOK, Holding, Rearm, audioVars
    <3>3. QED
      BY <3>1, <3>2
  <2>4. QED
    BY <2>1, <2>2, <2>3 DEF QueueInv
<1>11. CASE CallbackReturn
  <2>1. TypeOK'
    BY <1>11
       DEF QueueInv, TypeOK, CallbackReturn, timerVars, audioVars, histVars
  <2>2. ActiveMeansQueued'
    BY <1>11
       DEF QueueInv, TypeOK, ActiveMeansQueued, InTransit, Holding,
           CallbackReturn, timerVars, audioVars, histVars
  <2>3. Holding'
    BY <1>11
       DEF QueueInv, TypeOK, ActiveMeansQueued, InTransit, Holding,
           CallbackReturn, timerVars, audioVars, histVars
  <2>4. QED
    BY <2>1, <2>2, <2>3 DEF QueueInv
<1>12. CASE CallbackUnwinds
  <2>1. TypeOK'
    BY <1>12
       DEF QueueInv, TypeOK, CallbackUnwinds, timerVars, audioVars, histVars
  <2>2. ActiveMeansQueued'
    BY <1>12
       DEF QueueInv, TypeOK, ActiveMeansQueued, InTransit, Holding,
           CallbackUnwinds, timerVars, audioVars, histVars
  <2>3. Holding'
    BY <1>12
       DEF QueueInv, TypeOK, ActiveMeansQueued, InTransit, Holding,
           CallbackUnwinds, timerVars, audioVars, histVars
  <2>4. QED
    BY <2>1, <2>2, <2>3 DEF QueueInv
<1>13. CASE Restart
  <2>1. TypeOK'
    BY <1>13 DEF QueueInv, TypeOK, Restart, audioVars
  <2>2. ActiveMeansQueued'
    <3>1. \A t \in Timer : ~active'[t] /\ queue'[t] = 0
      BY <1>13, RestartClears
    <3>2. ASSUME NEW t \in Timer
          PROVE  ~InTransit(t)'
      BY <1>13 DEF QueueInv, TypeOK, InTransit, Restart, audioVars
    <3>3. QED
      BY <3>1, <3>2 DEF ActiveMeansQueued
  <2>3. Holding'
    BY <1>13
       DEF QueueInv, TypeOK, ActiveMeansQueued, InTransit, Holding, Restart,
           audioVars
  <2>4. QED
    BY <2>1, <2>2, <2>3 DEF QueueInv
<1>14. ASSUME NEW t \in AudioTimer, AudioCheck(t)
      PROVE  QueueInv'
  <2>1. TypeOK'
    BY <1>14
       DEF QueueInv, TypeOK, AudioCheck, timerVars, cpuVars, audioVars, Timer
  <2>2. ActiveMeansQueued'
    BY <1>14
       DEF QueueInv, TypeOK, ActiveMeansQueued, InTransit, Holding,
           AudioCheck, timerVars, cpuVars, audioVars, Timer
  <2>3. Holding'
    BY <1>14
       DEF QueueInv, TypeOK, ActiveMeansQueued, InTransit, Holding,
           AudioCheck, timerVars, cpuVars, audioVars, Timer
  <2>4. QED
    BY <2>1, <2>2, <2>3 DEF QueueInv
<1>15. CASE AudioWrite
  <2>1. TypeOK'
    BY <1>15
       DEF QueueInv, TypeOK, Holding, AudioWrite, SetTimer, cpuVars, Timer
  <2>2. ActiveMeansQueued'
    BY <1>15
       DEF QueueInv, TypeOK, ActiveMeansQueued, InTransit, Holding,
           AudioWrite, SetTimer, cpuVars, Timer
  <2>3. Holding'
    BY <1>15
       DEF QueueInv, TypeOK, ActiveMeansQueued, InTransit, Holding,
           AudioWrite, SetTimer, cpuVars, Timer
  <2>4. QED
    BY <2>1, <2>2, <2>3 DEF QueueInv
<1>16. CASE AudioPush
  <2>1. TypeOK'
    BY <1>16
       DEF QueueInv, TypeOK, Holding, AudioPush, Push, cpuVars, histVars,
           Timer
  <2>2. ActiveMeansQueued'
    BY <1>16
       DEF QueueInv, TypeOK, ActiveMeansQueued, InTransit, Holding,
           AudioPush, Push, cpuVars, histVars, Timer
  <2>3. Holding'
    BY <1>16
       DEF QueueInv, TypeOK, ActiveMeansQueued, InTransit, Holding,
           AudioPush, Push, cpuVars, histVars, Timer
  <2>4. QED
    BY <2>1, <2>2, <2>3 DEF QueueInv
<1>17. CASE AudioNotify
  <2>1. TypeOK'
    BY <1>17
       DEF QueueInv, TypeOK, AudioNotify, Notify, timerVars, cpuVars,
           histVars
  <2>2. ActiveMeansQueued'
    BY <1>17
       DEF QueueInv, TypeOK, ActiveMeansQueued, InTransit, Holding,
           AudioNotify, Notify, timerVars, cpuVars, histVars
  <2>3. Holding'
    BY <1>17
       DEF QueueInv, TypeOK, ActiveMeansQueued, InTransit, Holding,
           AudioNotify, Notify, timerVars, cpuVars, histVars
  <2>4. QED
    BY <2>1, <2>2, <2>3 DEF QueueInv
<1>18. CASE UNCHANGED vars
  <2>1. TypeOK'
    BY <1>18
       DEF QueueInv, TypeOK, vars, timerVars, cpuVars, audioVars, histVars
  <2>2. ActiveMeansQueued'
    BY <1>18
       DEF QueueInv, TypeOK, ActiveMeansQueued, InTransit, Holding, vars,
           timerVars, cpuVars, audioVars, histVars
  <2>3. Holding'
    BY <1>18
       DEF QueueInv, TypeOK, ActiveMeansQueued, InTransit, Holding, vars,
           timerVars, cpuVars, audioVars, histVars
  <2>4. QED
    BY <2>1, <2>2, <2>3 DEF QueueInv
<1>19. QED
  BY <1>1, <1>2, <1>3, <1>4, <1>5, <1>6, <1>7, <1>8, <1>9, <1>10, <1>11, <1>12, <1>13, <1>14, <1>15, <1>16, <1>17, <1>18
     DEF Next, Client, Cpu, AudioStep

\* The variables keep their types: above all, no occurrence of a timer is ever
\* taken out of the heap that is not in it, and every deadline that is computed
\* is a time.
THEOREM TypesKept == Spec => []TypeOK
<1>1. QueueInv => TypeOK
  BY DEF QueueInv
<1>2. QED
  BY <1>1, QueueInvInit, QueueInvNext, PTL DEF Spec

\* The queue and its flags agree in every reachable state, however the two
\* threads interleave: TypeOK and ActiveMeansQueued for any set of timers.
THEOREM QueueCorrect == Spec => [](TypeOK /\ ActiveMeansQueued)
<1>1. QueueInv => TypeOK /\ ActiveMeansQueued
  BY DEF QueueInv
<1>2. QED
  BY <1>1, QueueInvInit, QueueInvNext, PTL DEF Spec

-----------------------------------------------------------------------------
(* No lost wakeup, if no callback leaves process_timers() by longjmp.      *)

\* t needs no look at the queue of its own: the flag is up or will be.
Notified(t) == exec_timer \/ (apc = "notify" /\ atimer = t)

\* The strengthening of NoLostWakeup. Outside of callbacks a notification is
\* not suppressed; and while the CPU thread compares the head it has read with
\* the current time, whatever was pushed before that head has been notified.
WakeInv ==
    /\ CbActiveTruthful
    /\ NoLostWakeup
    /\ pc = "test" =>
          \A t \in Queued : t = cur \/ Before(cur, t) \/ Notified(t)

\* Nothing is queued at first.
LEMMA WakeInvInit == Init => WakeInv
BY DEF Init, WakeInv, CbActiveTruthful, NoLostWakeup, Queued

\* Every step preserves WakeInv where callbacks return.
LEMMA WakeInvNext ==
    ASSUME ThermalTimer = {}
    PROVE  QueueInv /\ WakeInv /\ [Next]_vars => WakeInv'
<1> SUFFICES ASSUME QueueInv, WakeInv, [Next]_vars
             PROVE  WakeInv'
  OBVIOUS
<1> USE TimerAssumption, NoneAssumption
<1>1. ASSUME NEW t \in CpuTimer, NEW d \in Delay \cup CallbackDelay,
             NEW iv \in Interval, Schedule(t, d, iv)
      PROVE  WakeInv'
  BY <1>1
     DEF QueueInv, TypeOK, ActiveMeansQueued, InTransit, Holding, WakeInv,
         CbActiveTruthful, NoLostWakeup, Notified, Queued, Before, Schedule,
         Notify, cpuVars, audioVars
<1>2. ASSUME NEW t \in CpuTimer, ScheduleImmediate(t)
      PROVE  WakeInv'
  BY <1>2
     DEF QueueInv, TypeOK, ActiveMeansQueued, InTransit, Holding, WakeInv,
         CbActiveTruthful, NoLostWakeup, Notified, Queued, Before,
         ScheduleImmediate, Notify, cpuVars, audioVars
<1>3. ASSUME NEW t \in CpuTimer, Cancel(t)
      PROVE  WakeInv'
  BY <1>3
     DEF QueueInv, TypeOK, ActiveMeansQueued, InTransit, Holding, WakeInv,
         CbActiveTruthful, NoLostWakeup, Notified, Queued, Before, Cancel,
         Notify, cpuVars, audioVars
<1>4. CASE Instr
  BY <1>4
     DEF QueueInv, TypeOK, ActiveMeansQueued, InTransit, Holding, WakeInv,
         CbActiveTruthful, NoLostWakeup, Notified, Queued, Before, Instr,
         timerVars, audioVars
<1>5. CASE InstrFaults
  BY <1>5
     DEF QueueInv, TypeOK, ActiveMeansQueued, InTransit, Holding, WakeInv,
         CbActiveTruthful, NoLostWakeup, Notified, Queued, Before,
         InstrFaults, timerVars, audioVars
<1>6. CASE Poll
  BY <1>6
     DEF QueueInv, TypeOK, ActiveMeansQueued, InTransit, Holding, WakeInv,
         CbActiveTruthful, NoLostWakeup, Notified, Queued, Before, Poll,
         timerVars, audioVars
<1>7. CASE ScanTop
  BY <1>7
     DEF QueueInv, TypeOK, ActiveMeansQueued, InTransit, Holding, WakeInv,
         CbActiveTruthful, NoLostWakeup, Notified, Queued, Before, ScanTop,
         IsTop, timerVars, audioVars
<1>8. CASE TestDue
  BY <1>8
     DEF QueueInv, TypeOK, ActiveMeansQueued, InTransit, Holding, WakeInv,
         CbActiveTruthful, NoLostWakeup, Notified, Queued, Before, TestDue
<1>9. CASE TestNotDue
  BY <1>9
     DEF QueueInv, TypeOK, ActiveMeansQueued, InTransit, Holding, WakeInv,
         CbActiveTruthful, NoLostWakeup, Notified, Queued, Before,
         TestNotDue, timerVars, audioVars
<1>10. CASE Rearm
  BY <1>10
     DEF QueueInv, TypeOK, ActiveMeansQueued, InTransit, Holding, WakeInv,
         CbActiveTruthful, NoLostWakeup, Notified, Queued, Before, Rearm
<1>11. CASE CallbackReturn
  BY <1>11
     DEF QueueInv, TypeOK, ActiveMeansQueued, InTransit, Holding, WakeInv,
         CbActiveTruthful, NoLostWakeup, Notified, Queued, Before,
         CallbackReturn
<1>12. CASE CallbackUnwinds
  BY <1>12
     DEF QueueInv, TypeOK, ActiveMeansQueued, InTransit, Holding, WakeInv,
         CbActiveTruthful, NoLostWakeup, Notified, Queued, Before,
         CallbackUnwinds
<1>13. CASE Restart
  BY <1>13
     DEF QueueInv, TypeOK, ActiveMeansQueued, InTransit, Holding, WakeInv,
         CbActiveTruthful, NoLostWakeup, Notified, Queued, Before, Restart,
         audioVars
<1>14. ASSUME NEW t \in AudioTimer, AudioCheck(t)
      PROVE  WakeInv'
  BY <1>14
     DEF QueueInv, TypeOK, ActiveMeansQueued, InTransit, Holding, WakeInv,
         CbActiveTruthful, NoLostWakeup, Notified, Queued, Before,
         AudioCheck, timerVars, cpuVars, audioVars
<1>15. CASE AudioWrite
  BY <1>15
     DEF QueueInv, TypeOK, ActiveMeansQueued, InTransit, Holding, WakeInv,
         CbActiveTruthful, NoLostWakeup, Notified, Queued, Before,
         AudioWrite, SetTimer, cpuVars, Timer
<1>16. CASE AudioPush
  BY <1>16
     DEF QueueInv, TypeOK, ActiveMeansQueued, InTransit, Holding, WakeInv,
         CbActiveTruthful, NoLostWakeup, Notified, Queued, Before,
         AudioPush, Push, cpuVars, Timer
<1>17. CASE AudioNotify
  BY <1>17
     DEF QueueInv, TypeOK, ActiveMeansQueued, InTransit, Holding, WakeInv,
         CbActiveTruthful, NoLostWakeup, Notified, Queued, Before,
         AudioNotify, Notify, timerVars, cpuVars
<1>18. CASE UNCHANGED vars
  BY <1>18
     DEF QueueInv, TypeOK, ActiveMeansQueued, InTransit, Holding, WakeInv,
         CbActiveTruthful, NoLostWakeup, Notified, Queued, Before, vars,
         timerVars, cpuVars, audioVars
<1>19. QED
  BY <1>1, <1>2, <1>3, <1>4, <1>5, <1>6, <1>7, <1>8, <1>9, <1>10,
     <1>11, <1>12, <1>13, <1>14, <1>15, <1>16, <1>17, <1>18
     DEF Next, Client, Cpu, AudioStep

\* Neither thread can lose the other's notification: with callbacks that
\* return, a timer due before the interpreter's next planned look at the queue
\* has raised exec_timer, for any timers, delays and intervals.
THEOREM NoWakeupLost ==
    ASSUME ThermalTimer = {}
    PROVE  Spec => []NoLostWakeup
<1>1. QueueInv /\ WakeInv /\ [Next]_vars => WakeInv'
  BY WakeInvNext
<1>2. WakeInv => NoLostWakeup
  BY DEF WakeInv
<1>3. QED
  BY <1>1, <1>2, QueueInvInit, QueueInvNext, WakeInvInit, PTL DEF Spec

-----------------------------------------------------------------------------
(* A cancelled timer stays silent.                                         *)

\* A timer flagged active has been added and not cancelled since.
ArmedInv == \A t \in Timer : active[t] => armed[t]

\* Every step preserves ArmedInv.
LEMMA ArmedInvNext == QueueInv /\ ArmedInv /\ [Next]_vars => ArmedInv'
<1> SUFFICES ASSUME QueueInv, ArmedInv, [Next]_vars, NEW u \in Timer, active'[u]
             PROVE  armed'[u]
  BY DEF ArmedInv
<1> USE DEF QueueInv, TypeOK, ArmedInv
<1>1. ASSUME NEW t \in CpuTimer, NEW d \in Delay \cup CallbackDelay,
             NEW iv \in Interval, Schedule(t, d, iv)
      PROVE  armed'[u]
  BY <1>1 DEF Schedule, SetTimer, Timer
<1>2. ASSUME NEW t \in CpuTimer, ScheduleImmediate(t)
      PROVE  armed'[u]
  BY <1>2 DEF ScheduleImmediate, SetTimer, Timer
<1>3. ASSUME NEW t \in CpuTimer, Cancel(t)
      PROVE  armed'[u]
  BY <1>3 DEF Cancel, Timer
<1>4. CASE Instr \/ InstrFaults \/ ScanTop \/ TestNotDue \/ CallbackReturn \/ CallbackUnwinds
  BY <1>4
     DEF Instr, InstrFaults, ScanTop, TestNotDue, CallbackReturn,
         CallbackUnwinds,
         timerVars, histVars
<1>5. CASE Poll \/ TestDue
  BY <1>5 DEF Poll, TestDue, timerVars, histVars
<1>6. CASE Rearm
  BY <1>6 DEF Rearm
<1>7. CASE Restart
  BY <1>7, RestartClears
<1>8. ASSUME NEW t \in AudioTimer, AudioCheck(t)
      PROVE  armed'[u]
  BY <1>8 DEF AudioCheck, timerVars
<1>9. CASE AudioWrite
  BY <1>9 DEF AudioWrite, SetTimer
<1>10. CASE AudioPush \/ AudioNotify
  BY <1>10 DEF AudioPush, AudioNotify, timerVars, histVars
<1>11. CASE UNCHANGED vars
  BY <1>11 DEF vars, timerVars, histVars
<1>12. QED
  BY <1>1, <1>2, <1>3, <1>4, <1>5, <1>6, <1>7, <1>8, <1>9, <1>10, <1>11
     DEF Next, Client, Cpu, AudioStep

\* process_timers() runs a callback only for a timer that was added and not
\* cancelled since, wherever cancel_timer() found it in the heap.
THEOREM CancelIsFinal == Spec => CancelledNeverFires
<1>1. Init => ArmedInv
  BY DEF Init, ArmedInv
<1>2. QueueInv /\ ArmedInv /\ [Next]_vars => [Fires => armed[cur]]_vars
  <2> SUFFICES ASSUME QueueInv, ArmedInv, Fires
               PROVE  armed[cur]
    OBVIOUS
  <2>1. cur \in Timer /\ InTransit(cur)
    BY DEF QueueInv, Holding, InTransit, Fires
  <2>2. active[cur]
    BY <2>1 DEF QueueInv, ActiveMeansQueued
  <2>3. QED
    BY <2>1, <2>2 DEF ArmedInv
<1>3. QED
  BY <1>1, <1>2, QueueInvInit, QueueInvNext, ArmedInvNext, PTL
     DEF Spec, CancelledNeverFires

-----------------------------------------------------------------------------
(* Cyclic timers keep their phase and fire once in a pass.                 *)

\* A whole number of intervals has passed since the timer was added, wherever
\* the timer is, and also while it is out of the queue to be re-armed.
InPhase(t) == \E m \in Nat : timeout[t] = phase[t] + m * interval[t]

PhaseInv == \A t \in Timer : InPhase(t)

\* Skipping missed periods adds a whole number of intervals.
LEMMA NextDeadlinePhase ==
    ASSUME NEW deadline \in Nat, NEW iv \in Nat \ {0}, NEW tn \in Nat
    PROVE  \E k \in Nat : NextDeadline(deadline, iv, tn) = deadline + k * iv
<1> DEFINE n == deadline + iv
           q == (tn - n) \div iv
<1>1. CASE n > tn
  <2>1. NextDeadline(deadline, iv, tn) = deadline + 1 * iv
    BY <1>1 DEF NextDeadline
  <2> QED
    BY <2>1
<1>2. CASE n <= tn
  <2>1. q \in Nat
    BY <1>2, Z3
  <2>2. NextDeadline(deadline, iv, tn) = n + (q + 1) * iv
    BY <1>2 DEF NextDeadline
  <2> HIDE DEF q
  <2>3. n + (q + 1) * iv = deadline + (q + 2) * iv
    BY <2>1, Z3
  <2> QED
    BY <2>1, <2>2, <2>3
<1> QED
  BY <1>1, <1>2

\* A multiple leaves no remainder.
LEMMA MultipleMod ==
    ASSUME NEW m \in Nat, NEW iv \in Nat \ {0}
    PROVE  (m * iv) % iv = 0 /\ m * iv \in Nat
BY Z3

\* Every step of either thread keeps the phase of every timer.
LEMMA PhaseInvNext == QueueInv /\ PhaseInv /\ [Next]_vars => PhaseInv'
<1> SUFFICES ASSUME QueueInv, PhaseInv, [Next]_vars, NEW u \in Timer
             PROVE  InPhase(u)'
  BY DEF PhaseInv
<1>1. InPhase(u) /\ timeout[u] \in Nat /\ phase[u] \in Nat /\ interval[u] \in Nat
  BY DEF PhaseInv, QueueInv, TypeOK
<1>2. ASSUME timeout'[u] = timeout[u], phase'[u] = phase[u], interval'[u] = interval[u]
      PROVE  InPhase(u)'
  BY <1>1, <1>2 DEF InPhase
\* a timer that is added starts a phase of its own
<1>3. ASSUME NEW t \in Timer, NEW d \in Nat, NEW iv \in Nat, SetTimer(t, d, iv)
      PROVE  InPhase(u)'
  <2>1. CASE u = t
    <3>1. timeout'[u] = d /\ phase'[u] = d /\ interval'[u] = iv
      BY <1>3, <2>1 DEF SetTimer, QueueInv, TypeOK
    <3>2. d = d + 0 * iv
      BY Z3
    <3> QED
      BY <3>1, <3>2 DEF InPhase
  <2>2. CASE u # t
    <3>1. timeout'[u] = timeout[u] /\ phase'[u] = phase[u] /\ interval'[u] = interval[u]
      BY <1>3, <2>2 DEF SetTimer, QueueInv, TypeOK
    <3> QED
      BY <1>2, <3>1
  <2> QED
    BY <2>1, <2>2
<1>4. ASSUME NEW t \in CpuTimer, NEW d \in Delay \cup CallbackDelay,
             NEW iv \in Interval, Schedule(t, d, iv)
      PROVE  InPhase(u)'
  <2>1. SetTimer(t, now + d, iv) /\ now + d \in Nat /\ iv \in Nat /\ t \in Timer
    BY <1>4, TimerAssumption DEF Schedule, QueueInv, TypeOK, Timer
  <2> QED
    BY <1>3, <2>1
<1>5. ASSUME NEW t \in CpuTimer, ScheduleImmediate(t)
      PROVE  InPhase(u)'
  BY <1>3, <1>5 DEF ScheduleImmediate, Timer
<1>6. ASSUME NEW t \in CpuTimer, Cancel(t)
      PROVE  InPhase(u)'
  BY <1>2, <1>6 DEF Cancel
<1>7. CASE Instr \/ InstrFaults \/ ScanTop \/ TestNotDue \/ CallbackReturn \/ CallbackUnwinds
  BY <1>2, <1>7
     DEF Instr, InstrFaults, ScanTop, TestNotDue, CallbackReturn,
         CallbackUnwinds, timerVars, histVars
<1>8. CASE Poll \/ TestDue \/ Restart
  BY <1>2, <1>8 DEF Poll, TestDue, Restart, timerVars, histVars
<1>9. CASE Rearm
  <2>1. phase' = phase /\ interval' = interval /\ cur \in Timer
    BY <1>9 DEF Rearm, QueueInv, Holding
  <2>2. CASE interval[cur] > 0 /\ u = cur
    <3>1. timeout'[u] = NextDeadline(timeout[u], interval[u], time_now)
      BY <1>9, <2>2 DEF Rearm, QueueInv, TypeOK
    <3>2. PICK k \in Nat : timeout'[u] = timeout[u] + k * interval[u]
      <4>1. interval[u] \in Nat \ {0} /\ time_now \in Nat
        BY <1>1, <2>2 DEF QueueInv, TypeOK
      <4>2. \E k \in Nat : NextDeadline(timeout[u], interval[u], time_now)
                             = timeout[u] + k * interval[u]
        BY <1>1, <4>1, NextDeadlinePhase
      <4> QED
        BY <3>1, <4>2
    <3>3. PICK m \in Nat : timeout[u] = phase[u] + m * interval[u]
      BY <1>1 DEF InPhase
    <3>4. (phase[u] + m * interval[u]) + k * interval[u] = phase[u] + (m + k) * interval[u]
      BY <1>1, Z3
    <3>5. timeout'[u] = phase'[u] + (m + k) * interval'[u] /\ m + k \in Nat
      BY <2>1, <3>2, <3>3, <3>4
    <3> QED
      BY <3>5 DEF InPhase
  <2>3. CASE ~(interval[cur] > 0 /\ u = cur)
    <3>1. timeout'[u] = timeout[u]
      BY <1>9, <2>3 DEF Rearm, QueueInv, TypeOK
    <3> QED
      BY <1>2, <2>1, <3>1
  <2> QED
    BY <2>2, <2>3
<1>10. ASSUME NEW t \in AudioTimer, AudioCheck(t)
       PROVE  InPhase(u)'
  BY <1>2, <1>10 DEF AudioCheck, timerVars
<1>11. CASE AudioWrite
  <2>1. SetTimer(atimer, 0, 0) /\ atimer \in Timer
    BY <1>11 DEF AudioWrite, QueueInv, Holding, Timer
  <2> QED
    BY <1>3, <2>1
<1>12. CASE AudioPush \/ AudioNotify
  BY <1>2, <1>12 DEF AudioPush, AudioNotify, timerVars, histVars
<1>13. CASE UNCHANGED vars
  BY <1>2, <1>13 DEF vars, timerVars, histVars
<1> QED
  BY <1>4, <1>5, <1>6, <1>7, <1>8, <1>9, <1>10, <1>11, <1>12, <1>13
     DEF Next, Client, Cpu, AudioStep

\* Skipping missed periods never shifts a cyclic timer, for any interval and
\* however late process_timers() is called.
THEOREM PhaseIsKept == Spec => []PhaseKept
<1>1. Init => PhaseInv
  <2> SUFFICES ASSUME Init, NEW t \in Timer
               PROVE  InPhase(t)
    BY DEF PhaseInv
  <2>1. timeout[t] = 0 /\ phase[t] = 0 /\ interval[t] = 0
    BY DEF Init
  <2>2. 0 = 0 + 0 * 0
    OBVIOUS
  <2> QED
    BY <2>1, <2>2 DEF InPhase
<1>2. QueueInv /\ PhaseInv => PhaseKept
  <2> SUFFICES ASSUME QueueInv, PhaseInv, NEW t \in Timer, interval[t] > 0
               PROVE  /\ timeout[t] >= phase[t]
                      /\ (timeout[t] - phase[t]) % interval[t] = 0
    BY DEF PhaseKept, Queued
  <2>1. timeout[t] \in Nat /\ phase[t] \in Nat /\ interval[t] \in Nat \ {0}
    BY DEF QueueInv, TypeOK
  <2>2. PICK m \in Nat : timeout[t] = phase[t] + m * interval[t]
    BY DEF PhaseInv, InPhase
  <2> DEFINE k == m * interval[t]
  <2>3. k % interval[t] = 0 /\ k \in Nat
    BY <2>1, MultipleMod
  <2>4. timeout[t] = phase[t] + k
    BY <2>2
  <2> HIDE DEF k
  <2>5. timeout[t] - phase[t] = k
    BY <2>1, <2>3, <2>4
  <2> QED
    BY <2>1, <2>3, <2>5
<1> QED
  BY <1>1, <1>2, QueueInvInit, QueueInvNext, PhaseInvNext, PTL DEF Spec

\* In a pass, a timer that has fired is due after the time the pass works on,
\* and the timer that is about to fire is not.
InPass == pc \in {"top", "test", "rearm", "callback"}

PassInv ==
    /\ InPass => \A t \in fired : timeout[t] > time_now
    /\ pc = "rearm" => timeout[cur] <= time_now

\* Every step preserves PassInv: a timer that is added anew leaves the set, and
\* the audio thread never touches the timer that is about to fire.
LEMMA PassInvNext == QueueInv /\ PassInv /\ [Next]_vars => PassInv'
<1> SUFFICES ASSUME QueueInv, PassInv, [Next]_vars
             PROVE  PassInv'
  OBVIOUS
<1> USE DEF InPass
\* a timer that is added anew
<1>1. ASSUME NEW t \in Timer, NEW d \in Nat, NEW iv \in Nat, SetTimer(t, d, iv),
             UNCHANGED <<pc, cur, time_now>>, pc = "rearm" => t # cur
      PROVE  PassInv'
  <2>1. /\ fired' = fired \ {t}
        /\ \A u \in Timer : u # t => timeout'[u] = timeout[u]
    BY <1>1 DEF SetTimer, QueueInv, TypeOK
  <2>2. fired \subseteq Timer /\ (pc = "rearm" => cur \in Timer)
    BY DEF QueueInv, TypeOK, Holding
  <2> QED
    BY <1>1, <2>1, <2>2 DEF PassInv
<1>2. ASSUME NEW t \in CpuTimer, NEW d \in Delay \cup CallbackDelay,
             NEW iv \in Interval, Schedule(t, d, iv)
      PROVE  PassInv'
  <2>1. /\ SetTimer(t, now + d, iv) /\ now + d \in Nat /\ iv \in Nat /\ t \in Timer
        /\ pc # "rearm" /\ UNCHANGED <<pc, cur, time_now>>
    BY <1>2, TimerAssumption DEF Schedule, QueueInv, TypeOK, Timer, cpuVars
  <2> QED
    BY <1>1, <2>1
<1>3. ASSUME NEW t \in CpuTimer, ScheduleImmediate(t)
      PROVE  PassInv'
  <2>1. /\ SetTimer(t, 0, 0) /\ t \in Timer
        /\ pc # "rearm" /\ UNCHANGED <<pc, cur, time_now>>
    BY <1>3 DEF ScheduleImmediate, Timer, cpuVars
  <2> QED
    BY <1>1, <2>1
<1>4. ASSUME NEW t \in CpuTimer, Cancel(t)
      PROVE  PassInv'
  BY <1>4 DEF PassInv, Cancel, cpuVars
<1>5. CASE Instr \/ InstrFaults \/ ScanTop \/ TestNotDue \/ CallbackReturn \/ CallbackUnwinds
  BY <1>5
     DEF PassInv, Instr, InstrFaults, ScanTop, TestNotDue, CallbackReturn,
         CallbackUnwinds, timerVars, histVars
<1>6. CASE Poll \/ TestDue \/ Restart
  BY <1>6 DEF PassInv, Poll, TestDue, Restart, timerVars, histVars
<1>7. CASE Rearm
  <2>1. pc = "rearm" /\ pc' = "callback" /\ time_now' = time_now /\ cur \in Timer
    BY <1>7 DEF Rearm, QueueInv, Holding
  <2>2. CASE interval[cur] > 0
    <3>1. NextDeadline(timeout[cur], interval[cur], time_now) > time_now
      BY <2>1, <2>2, RearmInFuture DEF QueueInv, TypeOK, PassInv
    <3>2. /\ fired' = fired \cup {cur}
          /\ \A u \in Timer : timeout'[u] = IF u = cur
                THEN NextDeadline(timeout[cur], interval[cur], time_now)
                ELSE timeout[u]
      BY <1>7, <2>2 DEF Rearm, QueueInv, TypeOK
    <3>3. fired \subseteq Timer
      BY DEF QueueInv, TypeOK
    <3> QED
      BY <2>1, <3>1, <3>2, <3>3 DEF PassInv
  <2>3. CASE ~(interval[cur] > 0)
    BY <1>7, <2>1, <2>3 DEF Rearm, PassInv
  <2> QED
    BY <2>2, <2>3
<1>8. ASSUME NEW t \in AudioTimer, AudioCheck(t)
      PROVE  PassInv'
  BY <1>8 DEF PassInv, AudioCheck, timerVars, cpuVars
<1>9. CASE AudioWrite
  <2>1. /\ SetTimer(atimer, 0, 0) /\ atimer \in Timer /\ ~active[atimer]
        /\ UNCHANGED <<pc, cur, time_now>>
    BY <1>9 DEF AudioWrite, QueueInv, Holding, Timer, cpuVars
  <2>2. pc = "rearm" => active[cur]
    BY DEF QueueInv, Holding, ActiveMeansQueued, InTransit
  <2> QED
    BY <1>1, <2>1, <2>2
<1>10. CASE AudioPush \/ AudioNotify
  BY <1>10 DEF PassInv, AudioPush, AudioNotify, timerVars, cpuVars, histVars
<1>11. CASE UNCHANGED vars
  BY <1>11 DEF PassInv, vars, timerVars, cpuVars, histVars
<1> QED
  BY <1>2, <1>3, <1>4, <1>5, <1>6, <1>7, <1>8, <1>9, <1>10, <1>11
     DEF Next, Client, Cpu, AudioStep

\* However many periods a cyclic timer has missed, process_timers() runs its
\* callback once in a pass.
THEOREM NoTimerBursts == Spec => NoBurst
<1>1. Init => PassInv
  BY DEF Init, PassInv, InPass
<1>2. QueueInv /\ PassInv /\ [Next]_vars => [Fires => cur \notin fired]_vars
  <2> SUFFICES ASSUME QueueInv, PassInv, Fires
               PROVE  cur \notin fired
    OBVIOUS
  <2>1. cur \in Timer /\ timeout[cur] \in Nat /\ time_now \in Nat
    BY DEF QueueInv, TypeOK, Holding, Fires
  <2> QED
    BY <2>1 DEF PassInv, InPass, Fires
<1> QED
  BY <1>1, <1>2, QueueInvInit, QueueInvNext, PassInvNext, PTL DEF Spec, NoBurst
=============================================================================
