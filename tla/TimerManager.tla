---------------------------- MODULE TimerManager ----------------------------
(***************************************************************************)
(* The emulator's timer queue (core/timermanager.{h,cpp}) together with    *)
(* the two threads that use it:                                            *)
(*                                                                         *)
(*   - the CPU thread executes guest instructions and, between two of      *)
(*     them, runs process_events(), which pops expired timers and calls    *)
(*     their callbacks (cpu/ppc/ppcexec.cpp);                              *)
(*   - the host audio thread pulls sound data through a DMA channel, whose *)
(*     update_irq() adds an immediate timer (devices/common/dbdma.cpp).    *)
(*                                                                         *)
(* The queue is guarded by a mutex; the flags active, cb_active and        *)
(* exec_timer are plain variables shared by both threads, so every access  *)
(* to one of them is a step of its own here.                               *)
(***************************************************************************)
EXTENDS Integers

CONSTANTS
    CpuTimer,       \* TimerInfo objects only the CPU thread adds or cancels
    AudioTimer,     \* interrupt_timer of the channels the audio thread drives
    ThermalTimer,   \* those whose callback may leave through longjmp
    Interval,       \* intervals a client asks for (0: one-shot)
    Delay,          \* delays a guest instruction asks for
    CallbackDelay,  \* delays a callback asks for
    PollInterval,   \* TIMER_POLL_INTERVAL_NS
    MaxTime         \* bound of the virtual clock

Timer == CpuTimer \cup AudioTimer

\* A timer is named by its address, which the queue uses to break ties.
ASSUME TimerAssumption ==
    /\ CpuTimer \subseteq Nat
    /\ AudioTimer \subseteq Nat
    /\ CpuTimer \cap AudioTimer = {}
    /\ ThermalTimer \subseteq CpuTimer
    /\ Interval \subseteq Nat
    /\ Delay \subseteq Nat
    /\ CallbackDelay \subseteq Nat
    /\ PollInterval \in Nat
    /\ MaxTime \in Nat

None == -1
ASSUME NoneAssumption == None \notin Timer

VARIABLES
    now,        \* get_time_now(): virtual time
    timeout,    \* TimerInfo::timeout_ns
    interval,   \* TimerInfo::interval_ns
    active,     \* TimerInfo::active
    queue,      \* timer_queue: how often each TimerInfo pointer is in the heap
    cb_active,  \* TimerManager::cb_active
    exec_timer, \* the flag that makes the interpreter loop reload its budget
    next,       \* time at which the interpreter loop looks at timers unasked
    pc,         \* where the CPU thread is
    cur,        \* process_timers(): cur_timer
    time_now,   \* process_timers(): time_now
    apc,        \* where the audio thread is
    atimer,     \* the timer the audio thread is adding
    \* history, read by the properties only
    phase,      \* deadline the timer was added with
    armed,      \* added, and neither cancelled nor expired since
    fired,      \* cyclic timers that fired in this pass and were not re-added
    requested   \* audio interrupts asked for and not yet delivered

timerVars == <<timeout, interval, active, queue>>
cpuVars   == <<cb_active, next, pc, cur, time_now>>
audioVars == <<apc, atimer>>
histVars  == <<phase, armed, fired, requested>>
vars == <<now, timerVars, exec_timer, cpuVars, audioVars, histVars>>

Queued == {t \in Timer : queue[t] > 0}

\* MyGtComparator: earliest deadline first, then lowest address.
Before(t, u) ==
    \/ timeout[t] < timeout[u]
    \/ timeout[t] = timeout[u] /\ t < u

IsTop(t) == t \in Queued /\ \A u \in Queued \ {t} : Before(t, u)

Init ==
    /\ now = 0
    /\ timeout  = [t \in Timer |-> 0]
    /\ interval = [t \in Timer |-> 0]
    /\ active   = [t \in Timer |-> FALSE]
    /\ queue    = [t \in Timer |-> 0]
    /\ cb_active = FALSE
    /\ exec_timer = FALSE
    /\ next = 0
    /\ pc = "exec"
    /\ cur = None
    /\ time_now = 0
    /\ apc = "idle"
    /\ atimer = None
    /\ phase = [t \in Timer |-> 0]
    /\ armed = [t \in Timer |-> FALSE]
    /\ fired = {}
    /\ requested = {}

-----------------------------------------------------------------------------
(* Operations of the queue.                                                *)

\* my_priority_queue::push
Push(q, t) == [q EXCEPT ![t] = @ + 1]

\* mutant: the head is the only element looked at
RemoveTopOnly(q, t) == IF IsTop(t) THEN [q EXCEPT ![t] = @ - 1] ELSE q

\* mutant: an element is taken for granted
RemoveBlindly(q, t) == [q EXCEPT ![t] = @ - 1]

\* my_priority_queue::remove_by_id erases one occurrence, if there is one
RemoveById(q, t) == [q EXCEPT ![t] = IF @ > 0 THEN @ - 1 ELSE 0]

\* TimerInfo fields set by add_absolute_timer before the push
SetTimer(t, deadline, iv) ==
    /\ timeout'  = [timeout  EXCEPT ![t] = deadline]
    /\ interval' = [interval EXCEPT ![t] = iv]
    /\ active'   = [active   EXCEPT ![t] = TRUE]
    /\ phase'    = [phase    EXCEPT ![t] = deadline]
    /\ armed'    = [armed    EXCEPT ![t] = TRUE]
    /\ fired'    = fired \ {t}

\* notify_timer_changes(), which only callers outside of a callback reach
Notify == exec_timer' = (exec_timer \/ ~cb_active)

\* mutant: the next deadline is rebased on the current time
NextDeadlineRebased(deadline, iv, tn) ==
    IF deadline + iv <= tn THEN tn + iv ELSE deadline + iv

\* mutant: one period too few is skipped
NextDeadlineShort(deadline, iv, tn) ==
    LET n == deadline + iv
    IN  IF n <= tn THEN n + ((tn - n) \div iv) * iv ELSE n

\* process_timers(): the deadline a cyclic timer gets when it is re-armed at
\* time tn. Missed periods are skipped, the phase is kept.
NextDeadline(deadline, iv, tn) ==
    LET n == deadline + iv
    IN  IF n <= tn THEN n + (((tn - n) \div iv) + 1) * iv ELSE n

-----------------------------------------------------------------------------
(* Clients on the CPU thread: device code that a guest instruction or a    *)
(* callback runs. No step of the audio thread can tell the parts of these  *)
(* apart, so each is one step.                                             *)

ClientDelay == IF pc = "exec" THEN Delay ELSE CallbackDelay

\* The clients' idiom: if (ti.active) cancel_timer(ti); add_..._timer(ti, ...)
Schedule(t, d, iv) ==
    /\ pc \in {"exec", "callback"}
    /\ d \in ClientDelay
    /\ now + d <= MaxTime
    /\ queue' = Push(IF active[t] THEN RemoveById(queue, t) ELSE queue, t)
    /\ SetTimer(t, now + d, iv)
    /\ Notify
    /\ UNCHANGED <<now, cpuVars, audioVars, requested>>

\* add_immediate_timer: deadline 0, on a timer found inactive or cancelled first
ScheduleImmediate(t) ==
    /\ pc = "exec" \/ 0 \in CallbackDelay
    /\ pc \in {"exec", "callback"}
    /\ queue' = Push(IF active[t] THEN RemoveById(queue, t) ELSE queue, t)
    /\ SetTimer(t, 0, 0)
    /\ Notify
    /\ UNCHANGED <<now, cpuVars, audioVars, requested>>

\* cancel_timer
Cancel(t) ==
    /\ pc \in {"exec", "callback"}
    /\ queue'  = RemoveById(queue, t)
    /\ active' = [active EXCEPT ![t] = FALSE]
    /\ armed'  = [armed EXCEPT ![t] = FALSE]
    /\ Notify
    /\ UNCHANGED <<now, timeout, interval, cpuVars, audioVars, phase, fired,
                   requested>>

-----------------------------------------------------------------------------
(* The interpreter loop and process_timers().                              *)

\* ppc_exec_inner: one guest instruction. In instruction-count mode it takes
\* one period; in realtime mode the host clock need not have moved.
Instr ==
    /\ pc = "exec"
    /\ pc' = "poll"
    /\ now' \in {now, now + 1} \cap 0..MaxTime
    /\ UNCHANGED <<timerVars, exec_timer, cb_active, next, cur, time_now,
                   audioVars, histVars>>

\* An instruction that raises a synchronous exception leaves by longjmp: it is
\* not counted, no timer is looked at, and ppc_exec() enters the inner loop
\* afresh with an instruction budget of 0.
InstrFaults ==
    /\ pc = "exec"
    /\ next' = 0
    /\ UNCHANGED <<now, timerVars, exec_timer, cb_active, pc, cur, time_now,
                   audioVars, histVars>>

\* the loop's test, and the start of process_events() and process_timers()
Poll ==
    /\ pc = "poll"
    /\ IF now >= next \/ exec_timer
       THEN /\ exec_timer' = FALSE
            /\ time_now' = now
            /\ fired' = {}
            /\ pc' = "top"
       ELSE /\ pc' = "exec"
            /\ UNCHANGED <<exec_timer, time_now, fired>>
    /\ UNCHANGED <<now, timerVars, cb_active, next, cur, audioVars, phase,
                   armed, requested>>

\* read the head of the queue under its mutex, or return 0 if it is empty
ScanTop ==
    /\ pc = "top"
    /\ \/ /\ Queued = {}
          /\ next' = now + PollInterval
          /\ pc' = "exec"
          /\ cur' = None
       \/ /\ \E t \in Timer : IsTop(t) /\ cur' = t
          /\ pc' = "test"
          /\ UNCHANGED next
    /\ UNCHANGED <<now, timerVars, exec_timer, cb_active, time_now, audioVars,
                   histVars>>

\* while (cur_timer->timeout_ns <= time_now): take an expired timer out ...
TestDue ==
    /\ pc = "test"
    /\ timeout[cur] <= time_now
    /\ queue' = RemoveById(queue, cur)
    /\ pc' = "rearm"
    /\ UNCHANGED <<now, timeout, interval, active, exec_timer, cb_active, next,
                   cur, time_now, audioVars, histVars>>

\* mutant: exec_timer is cleared after the queue was read, not before
TestNotDueClearsLate ==
    /\ pc = "test"
    /\ timeout[cur] > time_now
    /\ next' = timeout[cur]
    /\ pc' = "exec"
    /\ cur' = None
    /\ exec_timer' = FALSE
    /\ UNCHANGED <<now, timerVars, cb_active, time_now, audioVars, histVars>>

\* ... or return the deadline of the head
TestNotDue ==
    /\ pc = "test"
    /\ timeout[cur] > time_now
    /\ next' = timeout[cur]
    /\ pc' = "exec"
    /\ cur' = None
    /\ UNCHANGED <<now, timerVars, exec_timer, cb_active, time_now, audioVars,
                   histVars>>

\* mutant: a one-shot timer that fires keeps its active flag
RearmKeepsActive ==
    /\ pc = "rearm"
    /\ IF interval[cur] > 0
       THEN /\ timeout' = [timeout EXCEPT ![cur] =
                              NextDeadline(@, interval[cur], time_now)]
            /\ queue' = Push(queue, cur)
            /\ fired' = fired \cup {cur}
            /\ UNCHANGED armed
       ELSE /\ armed' = [armed EXCEPT ![cur] = FALSE]
            /\ UNCHANGED <<timeout, queue, fired>>
    /\ cb_active' = TRUE
    /\ requested' = requested \ {cur}
    /\ pc' = "callback"
    /\ UNCHANGED <<now, interval, active, exec_timer, next, cur, time_now,
                   audioVars, phase>>

\* push a cyclic timer again, or retire a one-shot timer; then the callback
\* starts
Rearm ==
    /\ pc = "rearm"
    /\ IF interval[cur] > 0
       THEN /\ timeout' = [timeout EXCEPT ![cur] =
                              NextDeadline(@, interval[cur], time_now)]
            /\ queue' = Push(queue, cur)
            /\ fired' = fired \cup {cur}
            /\ UNCHANGED <<active, armed>>
       ELSE /\ active' = [active EXCEPT ![cur] = FALSE]
            /\ armed' = [armed EXCEPT ![cur] = FALSE]
            /\ UNCHANGED <<timeout, queue, fired>>
    /\ cb_active' = TRUE
    /\ requested' = requested \ {cur}
    /\ pc' = "callback"
    /\ UNCHANGED <<now, interval, exec_timer, next, cur, time_now, audioVars,
                   phase>>

\* the callback returns
CallbackReturn ==
    /\ pc = "callback"
    /\ cb_active' = FALSE
    /\ pc' = "top"
    /\ UNCHANGED <<now, timerVars, exec_timer, next, cur, time_now, audioVars,
                   histVars>>

\* update_thermal() raises EXC_THRM_MGMT_INT, and ppc_exception_handler()
\* leaves by longjmp: process_timers() is abandoned and the interpreter loop
\* starts afresh with an instruction budget of 0
CallbackUnwinds ==
    /\ pc = "callback"
    /\ cur \in ThermalTimer
    /\ pc' = "exec"
    /\ next' = 0
    /\ cur' = None
    /\ UNCHANGED <<now, timerVars, exec_timer, cb_active, time_now, audioVars,
                   histVars>>

\* run_machine(): once the machine stops, the host stream is shut down, all
\* timers are cancelled and a new machine starts from time 0
Restart ==
    /\ pc = "exec"
    /\ apc = "idle"
    /\ now' = 0
    /\ queue' = [t \in Timer |-> 0]
    /\ active' = [t \in Timer |-> active[t] /\ queue[t] = 0]
    /\ exec_timer' = FALSE
    /\ next' = 0
    /\ armed' = [t \in Timer |-> FALSE]
    /\ fired' = {}
    /\ requested' = {}
    /\ UNCHANGED <<timeout, interval, cb_active, pc, cur, time_now, audioVars,
                   phase>>

-----------------------------------------------------------------------------
(* The audio thread: DMAChannel::update_irq().                             *)

\* mutant: the timer is added without looking at its active flag
AudioCheckUnguarded(t) ==
    /\ apc = "idle"
    /\ requested' = requested \cup {t}
    /\ apc' = "write"
    /\ atimer' = t
    /\ UNCHANGED <<now, timerVars, exec_timer, cpuVars, phase, armed, fired>>

\* if (!interrupt_timer.active): an interrupt that is already queued is
\* coalesced with the new one
AudioCheck(t) ==
    /\ apc = "idle"
    /\ requested' = requested \cup {t}
    /\ IF active[t]
       THEN UNCHANGED audioVars
       ELSE /\ apc' = "write"
            /\ atimer' = t
    /\ UNCHANGED <<now, timerVars, exec_timer, cpuVars, phase, armed, fired>>

AudioWrite ==
    /\ apc = "write"
    /\ SetTimer(atimer, 0, 0)
    /\ apc' = "push"
    /\ UNCHANGED <<now, queue, exec_timer, cpuVars, atimer, requested>>

AudioPush ==
    /\ apc = "push"
    /\ queue' = Push(queue, atimer)
    /\ apc' = "notify"
    /\ UNCHANGED <<now, timeout, interval, active, exec_timer, cpuVars, atimer,
                   histVars>>

AudioNotify ==
    /\ apc = "notify"
    /\ Notify
    /\ apc' = "idle"
    /\ atimer' = None
    /\ UNCHANGED <<now, timerVars, cpuVars, histVars>>

-----------------------------------------------------------------------------
Client ==
    \E t \in CpuTimer :
        \/ \E d \in Delay \cup CallbackDelay, iv \in Interval : Schedule(t, d, iv)
        \/ ScheduleImmediate(t)
        \/ Cancel(t)

Cpu == Instr \/ Poll \/ ScanTop \/ TestDue \/ TestNotDue \/ Rearm
       \/ CallbackReturn \/ CallbackUnwinds

AudioStep == AudioWrite \/ AudioPush \/ AudioNotify

Next ==
    \/ Client
    \/ Cpu
    \/ InstrFaults
    \/ Restart
    \/ \E t \in AudioTimer : AudioCheck(t)
    \/ AudioStep

Spec == Init /\ [][Next]_vars

\* The interpreter loop never stops while the machine is on, a callback
\* returns, and the host runs its audio thread.
FairSpec ==
    /\ Spec
    /\ WF_vars(Cpu)
    /\ WF_vars(AudioStep)

-----------------------------------------------------------------------------
(* Properties.                                                             *)

\* Types of the variables.
TypeOK ==
    /\ now \in Nat
    /\ timeout  \in [Timer -> Nat]
    /\ interval \in [Timer -> Nat]
    /\ active   \in [Timer -> BOOLEAN]
    /\ queue    \in [Timer -> Nat]
    /\ cb_active \in BOOLEAN
    /\ exec_timer \in BOOLEAN
    /\ next \in Nat
    /\ pc \in {"exec", "poll", "top", "test", "rearm", "callback"}
    /\ cur \in Timer \cup {None}
    /\ time_now \in Nat
    /\ apc \in {"idle", "write", "push", "notify"}
    /\ atimer \in AudioTimer \cup {None}
    /\ phase \in [Timer -> Nat]
    /\ armed \in [Timer -> BOOLEAN]
    /\ fired \subseteq Timer
    /\ requested \subseteq AudioTimer

\* t is flagged active although it is out of the queue for a moment: the CPU
\* thread has taken it out to fire it, or the audio thread has not pushed it yet
InTransit(t) ==
    \/ pc = "rearm" /\ cur = t
    \/ apc = "push" /\ atimer = t

\* A timer is in the heap at most once, and the flag TimerInfo::active, which
\* clients use to decide whether they must cancel (timermanager.h: "maintained
\* by TimerManager while queued"), says exactly whether it is there. Both
\* threads change queue and flag in separate steps, in different orders.
ActiveMeansQueued ==
    \A t \in Timer :
        /\ queue[t] <= 1
        /\ active[t] <=> (queue[t] = 1 \/ InTransit(t))
        /\ InTransit(t) => queue[t] = 0

\* No lost wakeup: while the interpreter executes guest code, a queued timer
\* that is due before the loop's next planned look at the queue has raised
\* exec_timer, or the audio thread is about to. It fails if the flag is
\* cleared too late or if a notification is suppressed when nobody rescans.
NoLostWakeup ==
    pc \in {"exec", "poll"} =>
        \A t \in Queued :
            \/ timeout[t] >= next
            \/ exec_timer
            \/ apc = "notify" /\ atimer = t

\* Skipping missed periods never shifts a cyclic timer: its deadline stays a
\* whole number of intervals after the one it was added with (the two timers
\* of a video blanking pulse must not drift together).
PhaseKept ==
    \A t \in Queued :
        interval[t] > 0 =>
            /\ timeout[t] >= phase[t]
            /\ (timeout[t] - phase[t]) % interval[t] = 0

\* The step in which process_timers() decides to run the callback of cur
Fires == pc = "rearm" /\ pc' = "callback"

\* A callback only runs for a timer that was added and not cancelled since,
\* wherever in the heap it was when cancel_timer() was called.
CancelledNeverFires == [][Fires => armed[cur]]_vars

\* However late process_timers() is called, a cyclic timer fires once in a
\* pass: missed periods do not cause a burst of callbacks.
NoBurst == [][Fires => cur \notin fired]_vars

\* An interrupt the audio thread asked for is eventually delivered by a
\* callback on the CPU thread (unless the machine is restarted), whether it
\* was queued, coalesced with a queued one, or added during a callback.
InterruptDelivered ==
    \A t \in AudioTimer : t \in requested ~> t \notin requested

\* timermanager.h says of cb_active "true if a timer callback is executing".
CbActiveTruthful == cb_active => pc = "callback"

=============================================================================
