------------------------------ MODULE PpcClock ------------------------------
(***************************************************************************)
(* Virtual time of the emulated CPU (cpu/ppc/ppcexec.cpp): nanoseconds     *)
(* counted by instructions, or taken from the host's clock; the budget of  *)
(* instructions until the timers are looked at again; the hot keys that    *)
(* change speed and clock source; and the decrementer, whose timer and     *)
(* whose readings are both derived from that time (ppcopcodes.cpp).        *)
(*                                                                         *)
(* The hot keys are handled in a timer callback, thus inside               *)
(* process_events(). The timer modelled is the decrementer's: TimerManager *)
(* has the queue. The decrementer is that of the processors other than the *)
(* 601, whose count moves by 128 (is_601).                                 *)
(***************************************************************************)
EXTENDS Integers

CONSTANTS
    DefaultPeriod,  \* icnt_default_period_ns
    MaxFactor,      \* 31 in the code
    TIMER_POLL_INTERVAL_NS,
    SLACK,          \* 5000 ns in set_virt_time_ns()
    HostSteps,      \* host time that passes between two readings of its clock
    Realtime,       \* the clock source may be changed
    DecWidth,       \* 32 in the code
    Frac,           \* 2^32 in the code: the scale of fixed point numbers
    TickNum, TickDen, \* the time base counts TickNum ticks in TickDen ns: 50
                      \* MHz at most on a processor that is not a 601
    DecValues,      \* counts that the guest writes
    MaxTime         \* bound on virtual time, the host's clock and instructions

ASSUME PpcClockAssumption ==
    /\ {DefaultPeriod, DecWidth, Frac, TickNum, TickDen} \subseteq Nat \ {0}
    /\ {MaxFactor, TIMER_POLL_INTERVAL_NS, SLACK, MaxTime} \subseteq Nat
    /\ HostSteps \subseteq Nat
    /\ Realtime \in BOOLEAN
    /\ DecValues \subseteq 0 .. 2^DecWidth - 1
    /\ MaxFactor >= 4 /\ 2^DecWidth <= Frac /\ 4 * TickNum <= TickDen

\* Arithmetic that the provers do not know.
ASSUME PowersPositive == \A n \in 0..MaxFactor \cup {DecWidth} : 2^n \in Nat \ {0}

VARIABLES
    g_icycles, icnt_factor, icnt_time_offset_ns,
    g_realtime, host, g_nanoseconds_base,
    max_cycles, exec_timer,
    dec_wr_value, dec_wr_timestamp, dec_s,
    timer,          \* [deadline, immediate] of decrementer_timer
    in_events,      \* process_events() runs
    on_time         \* history: the count had run out when the timer last fired

icntVars == <<g_icycles, icnt_factor, icnt_time_offset_ns>>
hostVars == <<g_realtime, host, g_nanoseconds_base>>
decVars == <<dec_wr_value, dec_wr_timestamp, dec_s, timer>>
vars == <<icntVars, hostVars, max_cycles, exec_timer, decVars, in_events, on_time>>

Least(a, b) == IF a < b THEN a ELSE b

None == [deadline |-> -1, immediate |-> FALSE]

-----------------------------------------------------------------------------
(* update_icnt_period()                                                    *)
Period(factor) ==
    LET p == (DefaultPeriod * 2^factor) \div 16
    IN  IF p = 0 THEN 1 ELSE p

\* get_virt_time_ns()
VirtTime ==
    IF g_realtime THEN host - g_nanoseconds_base
    ELSE icnt_time_offset_ns + g_icycles * Period(icnt_factor)

\* calc_dec_value(): ticks since the last write, in fixed point
Ticks(now) == (((TickNum * Frac) \div TickDen) * (now - dec_wr_timestamp)) \div Frac

DecValue(now) == (dec_wr_value - Ticks(now)) % 2^DecWidth

Negative(v) == v >= 2^(DecWidth - 1)

\* Ticks by which calc_dec_value() may lag behind the timer, as both factors
\* are rounded down: none in the first Frac / 2 ns (2.1 s in the code).
Slip(elapsed) == (2 * elapsed) \div Frac

Init ==
    /\ g_icycles = 0
    /\ icnt_factor = 4
    /\ icnt_time_offset_ns = 0
    /\ g_realtime \in IF Realtime THEN BOOLEAN ELSE {FALSE}
    /\ host = 0
    /\ g_nanoseconds_base = 0
    /\ max_cycles = 0
    /\ exec_timer = FALSE
    /\ dec_wr_value = 0
    /\ dec_wr_timestamp = 0
    /\ dec_s = 2^DecWidth - 1
    /\ timer = None
    /\ in_events = FALSE
    /\ on_time = TRUE

\* update_decrementer(): the timer for a count newval
TimerFor(oldval, newval, now) ==
    IF ~Negative(oldval) /\ Negative(newval)
    THEN [deadline |-> 0, immediate |-> TRUE]
    ELSE LET count == IF newval < 2^DecWidth - 1 THEN newval + 1 ELSE newval
         IN  [deadline |-> now + (count * ((TickDen * Frac) \div TickNum)) \div Frac,
              immediate |-> FALSE]

-----------------------------------------------------------------------------
(* An instruction of ppc_exec_inner(): the host's clock moves on (only its *)
(* progress while it is in use can be told), and the events are processed  *)
(* when the budget is used up or a timer was added.                        *)
Instr(d) ==
    /\ ~in_events
    /\ VirtTime < MaxTime /\ host < MaxTime /\ g_icycles < MaxTime
    /\ g_icycles' = g_icycles + 1
    /\ host' = IF g_realtime THEN host + d ELSE host
    /\ in_events' = (g_icycles >= max_cycles \/ exec_timer)
    /\ exec_timer' = (exec_timer /\ ~in_events')
    /\ UNCHANGED <<icnt_factor, icnt_time_offset_ns, g_realtime,
                   g_nanoseconds_base, max_cycles, decVars, on_time>>

\* ppc_mtspr() of DEC, in the course of such an instruction
MtDec(v) ==
    /\ ~in_events
    /\ dec_wr_value' = v
    /\ dec_wr_timestamp' = VirtTime
    /\ dec_s' = v
    /\ timer' = TimerFor(DecValue(VirtTime), v, VirtTime)
    /\ exec_timer' = TRUE
    /\ UNCHANGED <<icntVars, hostVars, max_cycles, in_events, on_time>>

\* ppc_mfspr() of DEC keeps what it read
MfDec ==
    /\ ~in_events
    /\ dec_s' = DecValue(VirtTime)
    /\ UNCHANGED <<icntVars, hostVars, max_cycles, exec_timer, dec_wr_value,
                   dec_wr_timestamp, timer, in_events, on_time>>

Due == timer # None /\ timer.deadline <= VirtTime

\* trigger_timed_decrementer_exception(): the count is taken to be -1
TimedFires ==
    /\ in_events
    /\ Due /\ ~timer.immediate
    /\ LET now == VirtTime
           minus1 == 2^DecWidth - 1
       IN  /\ on_time' = (Ticks(now) + Slip(now - dec_wr_timestamp)
                            >= Least(dec_wr_value, minus1 - 1))
           /\ dec_wr_value' = minus1
           /\ dec_wr_timestamp' = now
           /\ timer' = TimerFor(minus1, minus1, now)
    /\ UNCHANGED <<icntVars, hostVars, max_cycles, exec_timer, dec_s, in_events>>

\* trigger_immediate_decrementer_exception()
ImmediateFires ==
    /\ in_events
    /\ Due /\ timer.immediate
    /\ timer' = TimerFor(dec_s, dec_s, VirtTime)
    /\ UNCHANGED <<icntVars, hostVars, max_cycles, exec_timer, dec_wr_value,
                   dec_wr_timestamp, dec_s, in_events, on_time>>

\* mutant: the offset into the current period is dropped
SetVirtTimeRounded(t, factor, realtime, d) ==
    /\ icnt_factor' = factor
    /\ g_realtime' = realtime
    /\ g_icycles' = t \div Period(factor)
    /\ icnt_time_offset_ns' = 0
    /\ UNCHANGED <<host, g_nanoseconds_base>>

\* set_virt_time_ns(): the host's clock is read again to correct the base
SetVirtTime(t, factor, realtime, d) ==
    /\ icnt_factor' = factor
    /\ g_realtime' = realtime
    /\ IF realtime
       THEN /\ host' = host + d
            /\ g_nanoseconds_base' = host - t - SLACK + 2 * (SLACK + d)
            /\ UNCHANGED <<g_icycles, icnt_time_offset_ns>>
       ELSE /\ g_icycles' = t \div Period(factor)
            /\ icnt_time_offset_ns' = t % Period(factor)
            /\ UNCHANGED <<host, g_nanoseconds_base>>

\* increment_icnt_factor(), decrement_icnt_factor(), toggle_g_realtime(). The
\* event timer first fires after 11 ms, long after the slack.
HotKey(factor, realtime, d) ==
    /\ in_events
    /\ ~Due
    /\ SLACK + d <= VirtTime /\ host + d <= MaxTime
    /\ \/ factor = icnt_factor + 1 /\ realtime = g_realtime
       \/ factor = icnt_factor - 1 /\ realtime = g_realtime
       \/ factor = icnt_factor /\ (realtime # g_realtime \/ factor = MaxFactor)
    /\ factor \in 0..MaxFactor
    /\ SetVirtTime(VirtTime, factor, realtime, d)
    /\ exec_timer' = TRUE
    /\ UNCHANGED <<max_cycles, decVars, in_events, on_time>>

\* mutant: one instruction more
BudgetLong(next, now) ==
    IF g_realtime
    THEN LET delay == IF next = -1 THEN 2 * TIMER_POLL_INTERVAL_NS
                      ELSE IF next > now THEN next - now ELSE 0
         IN  g_icycles + delay \div Period(icnt_factor) + 1
    ELSE LET n == IF next = -1 THEN now + TIMER_POLL_INTERVAL_NS ELSE next
         IN  (n - Least(n, icnt_time_offset_ns)) \div Period(icnt_factor) + 2

\* what process_events() returns
Budget(next, now) ==
    IF g_realtime
    THEN LET delay == IF next = -1 THEN TIMER_POLL_INTERVAL_NS
                      ELSE IF next > now THEN next - now ELSE 0
         IN  g_icycles + Least(delay, TIMER_POLL_INTERVAL_NS) \div Period(icnt_factor) + 1
    ELSE LET n == IF next = -1 THEN now + TIMER_POLL_INTERVAL_NS ELSE next
         IN  (n - Least(n, icnt_time_offset_ns)) \div Period(icnt_factor) + 1

\* process_timers() has found nothing that is due, and process_events() returns
EventsDone ==
    /\ in_events
    /\ ~Due
    /\ max_cycles' = Budget(timer.deadline, VirtTime)
    /\ in_events' = FALSE
    /\ UNCHANGED <<icntVars, hostVars, exec_timer, decVars, on_time>>

-----------------------------------------------------------------------------
Next ==
    \/ \E d \in HostSteps : Instr(d)
    \/ \E v \in DecValues : MtDec(v)
    \/ MfDec \/ TimedFires \/ ImmediateFires \/ EventsDone
    \/ \E f \in 0..MaxFactor, r \in BOOLEAN, d \in HostSteps :
          (r # g_realtime => Realtime) /\ HotKey(f, r, d)

Spec == Init /\ [][Next]_vars

-----------------------------------------------------------------------------
(* Properties.                                                             *)

\* Types of the variables: virtual time and the instruction budget are
\* unsigned in the code and must not fall below zero.
TypeOK ==
    /\ {g_icycles, icnt_time_offset_ns, host, max_cycles} \subseteq Nat
    /\ icnt_factor \in 0..MaxFactor
    /\ {g_realtime, exec_timer, in_events, on_time} \subseteq BOOLEAN
    /\ VirtTime \in Nat
    /\ dec_wr_timestamp \in Nat
    /\ {dec_wr_value, dec_s} \subseteq 0 .. 2^DecWidth - 1

\* Counting by instructions, the interpreter looks at a timer within two
\* instructions of its deadline (tests/cputiming.cpp), whatever the speed is
\* and however often it is changed while the timer runs.
ServedInTime ==
    ~g_realtime /\ ~in_events /\ timer # None =>
        \/ exec_timer
        \/ VirtTime <= timer.deadline + Period(icnt_factor)

\* With the host's clock the timers are looked at again at least as often as
\* the poll interval allows, however far away the next deadline is.
PolledInTime ==
    g_realtime /\ ~in_events /\ ~exec_timer =>
        max_cycles <= g_icycles + TIMER_POLL_INTERVAL_NS \div Period(icnt_factor) + 1

\* The decrementer's timer, whose delay is rounded in fixed point, does not
\* fire before the count that the guest reads has run down to zero (to one, for
\* the largest count, which is not incremented lest it overflow), but for the
\* ticks that rounding loses when the count runs for seconds.
DecNotEarly == on_time

\* All of them, and no count has wrapped: whichever clock runs, timers are
\* served in time and the decrementer's not early.
TimersServed == TypeOK /\ ServedInTime /\ PolledInTime /\ DecNotEarly

\* A change of speed does not change the time, not even by a fraction of an
\* instruction; a change to the host's clock never moves it forward by more
\* than the host's clock has moved.
SpeedKeepsTime ==
    [][icnt_factor' # icnt_factor \/ g_realtime' # g_realtime =>
          IF g_realtime' THEN VirtTime' <= VirtTime + (host' - host)
          ELSE VirtTime' = VirtTime]_vars
=============================================================================
