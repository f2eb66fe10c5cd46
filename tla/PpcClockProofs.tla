--------------------------- MODULE PpcClockProofs ---------------------------
(***************************************************************************)
(* PpcClock keeps its promises for every period, speed, host clock and     *)
(* frequency of the time base: a change of speed or of clock source keeps  *)
(* the time (ClockKeepsTime), and timers are served in time and the        *)
(* decrementer's not early (TimersAreServed).                              *)
(*                                                                         *)
(* The latter rests on what the two clock sources have in common. While    *)
(* instructions run, the budget that process_events() computed reaches at  *)
(* most one period beyond the deadline (BudgetHolds), and the deadline of  *)
(* the decrementer's timer lies where its count will have run out (Armed). *)
(* That the count can be written while its sign changes, and read before   *)
(* the immediate timer is served, needs Crossing.                          *)
(***************************************************************************)
EXTENDS PpcClock, TLAPS

-----------------------------------------------------------------------------
(* Division                                                                *)

\* A quotient brackets its dividend.
LEMMA DivBounds ==
    ASSUME NEW x \in Int, NEW p \in Nat \ {0}
    PROVE  /\ x \div p \in Int
           /\ p * (x \div p) <= x
           /\ x < p * (x \div p) + p
BY Z3

\* Quotient and remainder give the dividend back: what set_virt_time_ns()
\* relies on.
LEMMA DivMod ==
    ASSUME NEW x \in Int, NEW p \in Nat \ {0}
    PROVE  /\ x % p \in 0 .. p - 1
           /\ x = p * (x \div p) + (x % p)
BY Z3

\* The laws of multiplication that the lemmas below need.
LEMMA Times ==
    ASSUME NEW a \in Int, NEW b \in Int, NEW c \in Int
    PROVE  /\ a * b \in Int
           /\ a * b = b * a
           /\ a * (b + c) = a * b + a * c
           /\ a * (b - c) = a * b - a * c
           /\ a * (b * c) = (a * b) * c
           /\ a * 1 = a /\ a * 0 = 0
BY Z3

\* Multiplication keeps the order ...
LEMMA TimesOrder ==
    ASSUME NEW k \in Nat, NEW a \in Int, NEW b \in Int, a <= b
    PROVE  k * a <= k * b
BY Z3

\* ... and a common factor can be cancelled from a comparison.
LEMMA CancelStrict ==
    ASSUME NEW k \in Nat \ {0}, NEW a \in Int, NEW b \in Int, k * a < k * b
    PROVE  a < b
BY Z3

\* The same where the sides may be equal.
LEMMA CancelOrder ==
    ASSUME NEW k \in Nat \ {0}, NEW a \in Int, NEW b \in Int, k * a <= k * b
    PROVE  a <= b
BY Z3

\* A quotient grows with its dividend.
LEMMA DivGrows ==
    ASSUME NEW p \in Nat \ {0}, NEW x \in Int, NEW y \in Int, x <= y
    PROVE  x \div p <= y \div p
<1> DEFINE q == x \div p
           r == y \div p
<1>1. q \in Int /\ r \in Int /\ p * q <= x /\ y < p * r + p
  BY DivBounds
<1> HIDE DEF q, r
<1>2. p * (r + 1) = p * r + p
  BY <1>1, Times
<1>3. p * q < p * (r + 1)
  BY <1>1, <1>2, Times
<1>4. q < r + 1
  BY <1>1, <1>3, CancelStrict
<1>5. q <= r
  BY <1>1, <1>4
<1> QED
  BY <1>5 DEF q, r

\* The parts of a sum, rounded down, do not exceed the sum rounded down.
LEMMA DivAdds ==
    ASSUME NEW p \in Nat \ {0}, NEW x \in Int, NEW y \in Int
    PROVE  (x \div p) + (y \div p) <= (x + y) \div p
<1> DEFINE q == x \div p
           r == y \div p
           s == (x + y) \div p
<1>1. /\ q \in Int /\ r \in Int /\ s \in Int
      /\ p * q <= x /\ p * r <= y /\ x + y < p * s + p
  BY DivBounds
<1> HIDE DEF q, r, s
<1>2. p * (q + r) = p * q + p * r /\ p * (s + 1) = p * s + p
  BY <1>1, Times
<1>3. p * (q + r) < p * (s + 1)
  BY <1>1, <1>2, Times
<1>4. q + r < s + 1
  BY <1>1, <1>3, CancelStrict
<1>5. q + r <= s
  BY <1>1, <1>4
<1> QED
  BY <1>5 DEF q, r, s

\* What is not negative has a quotient that is not negative.
LEMMA DivNat ==
    ASSUME NEW p \in Nat \ {0}, NEW x \in Nat
    PROVE  x \div p \in Nat
<1>1. 0 \div p = 0
  BY Z3
<1> QED
  BY <1>1, DivGrows, DivBounds

-----------------------------------------------------------------------------
(* The fixed point numbers of the time base                                *)

\* tbr_freq_ghz and tbr_period_ns
Rate == (TickNum * Frac) \div TickDen
Span == (TickDen * Frac) \div TickNum

\* Ticks that calc_dec_value() counts, and the time that update_decrementer()
\* waits for.
Counted(elapsed) == (Rate * elapsed) \div Frac
Delay(count) == (count * Span) \div Frac

\* Both numbers are rounded down by less than one unit.
LEMMA FixedPoint ==
    /\ Rate \in Nat /\ Span \in Nat
    /\ TickNum * Frac < TickDen * Rate + TickDen
    /\ TickDen * Frac < TickNum * Span + TickNum
<1>1. TickNum \in Nat \ {0} /\ TickDen \in Nat \ {0} /\ Frac \in Nat \ {0}
  BY PpcClockAssumption
<1>2. TickNum * Frac \in Nat /\ TickDen * Frac \in Nat
  BY <1>1
<1> QED
  BY <1>1, <1>2, DivBounds, DivNat DEF Rate, Span

\* The products behind DelaySuffices: N * F < D * a + D, D * F < N * b + N,
\* c * b < F * e + F and a * e < F * t + F give
\* 2 * c < 2 * t + 3 + 2 * e / F, rounding errors of all four included.
LEMMA Products ==
    ASSUME NEW N \in Nat \ {0}, NEW D \in Nat \ {0}, NEW F \in Nat \ {0},
           NEW a \in Nat, NEW b \in Nat, NEW c \in Nat, NEW e \in Nat, NEW t \in Int,
           4 * N <= D, c <= F,
           N * F < D * a + D, D * F < N * b + N,
           c * b < F * e + F, a * e < F * t + F
    PROVE  2 * (c * F) <= 2 * (t * F) + 3 * F + 2 * e
<1>1. N * (c * b) <= N * (F * e + F)
  BY TimesOrder
<1>2. c * (D * F) <= c * (N * b + N)
  BY TimesOrder
<1>3. e * (N * F) <= e * (D * a + D)
  BY TimesOrder
<1>4. D * (a * e) <= D * (F * t + F)
  BY TimesOrder
<1> DEFINE cb == N * (c * b)
           fe == N * (F * e)
           nf == N * F
           nc == N * c
           cdf == D * (c * F)
           ae == D * (a * e)
           de == D * e
           ft == D * (F * t)
           df == D * F
<1>5. /\ cb <= fe + nf
      /\ cdf <= cb + nc
      /\ fe <= ae + de
      /\ ae <= ft + df
  <2>1. N * (F * e + F) = fe + nf
    BY Times
  <2>2. c * (D * F) = cdf /\ c * (N * b + N) = cb + nc
    BY Times
  <2>3. e * (N * F) = fe /\ e * (D * a + D) = ae + de
    BY Times
  <2>4. D * (F * t + F) = ft + df
    BY Times
  <2> QED
    BY <1>1, <1>2, <1>3, <1>4, <2>1, <2>2, <2>3, <2>4
<1>6. nc <= nf /\ 4 * nf <= df
  <2>1. N * c <= N * F
    BY TimesOrder
  <2>2. F * (4 * N) <= F * D
    BY TimesOrder
  <2>3. F * (4 * N) = 4 * (N * F) /\ F * D = D * F
    BY Times
  <2> QED
    BY <2>1, <2>2, <2>3
<1>7. cb \in Int /\ fe \in Int /\ nf \in Int /\ nc \in Int /\ cdf \in Int
      /\ ae \in Int /\ de \in Int /\ ft \in Int /\ df \in Int
  BY Times
<1>8. 2 * cdf <= 2 * ft + 3 * df + 2 * de
  <2> HIDE DEF cb, fe, nf, nc, cdf, ae, de, ft, df
  <2> QED
    BY <1>5, <1>6, <1>7
<1>9. /\ D * (2 * (c * F)) = 2 * cdf
      /\ D * (2 * (t * F) + 3 * F + 2 * e) = 2 * ft + 3 * df + 2 * de
  <2>1. D * (2 * (t * F) + 3 * F + 2 * e) =
          D * (2 * (t * F)) + D * (3 * F) + D * (2 * e)
    BY Times
  <2>2. /\ D * (2 * (t * F)) = 2 * ft
        /\ D * (3 * F) = 3 * df
        /\ D * (2 * e) = 2 * de
        /\ D * (2 * (c * F)) = 2 * cdf
    BY Times
  <2> QED
    BY <2>1, <2>2
<1>10. 2 * (c * F) \in Int /\ 2 * (t * F) + 3 * F + 2 * e \in Int
  BY Times
<1> QED
  BY <1>8, <1>9, <1>10, CancelOrder

\* When the delay for a count has passed, calc_dec_value() has counted one tick
\* less at most, but for Slip.
LEMMA DelaySuffices ==
    ASSUME NEW c \in Nat, c <= Frac, NEW e \in Nat, e >= Delay(c)
    PROVE  Counted(e) + Slip(e) >= c - 1
<1> DEFINE F == Frac
           t == Counted(e)
           q == Slip(e)
<1>1. /\ TickNum \in Nat \ {0} /\ TickDen \in Nat \ {0} /\ F \in Nat \ {0}
      /\ 4 * TickNum <= TickDen
  BY PpcClockAssumption
<1>2. Rate \in Nat /\ Span \in Nat
  BY FixedPoint
<1>3. Rate * e < F * t + F /\ t \in Int
  BY <1>1, <1>2, DivBounds, Times DEF Counted
<1>4. c * Span < F * e + F
  <2>1. c * Span < F * Delay(c) + F /\ Delay(c) \in Int
    BY <1>1, <1>2, DivBounds, Times DEF Delay
  <2>2. F * Delay(c) <= F * e
    BY <1>1, <2>1, TimesOrder
  <2>3. F * Delay(c) \in Int /\ F * e \in Int /\ c * Span \in Int
    BY <1>1, <1>2, <2>1, Times
  <2> QED
    BY <1>1, <2>1, <2>2, <2>3
<1>5. 2 * e < F * q + F /\ F * q <= 2 * e /\ q \in Nat
  BY <1>1, DivBounds, DivNat DEF Slip
<1>6. 2 * (c * F) <= 2 * (t * F) + 3 * F + 2 * e
  BY <1>1, <1>2, <1>3, <1>4, FixedPoint, Products
<1> HIDE DEF t, q
<1> DEFINE cf == F * c
           tf == F * t
           qf == F * q
<1>7. c * F = cf /\ t * F = tf /\ cf \in Int /\ tf \in Int /\ qf \in Int
  BY <1>1, <1>3, <1>5, Times
<1>8. 2 * cf < 2 * tf + 4 * F + qf
  <2> HIDE DEF cf, tf, qf, F
  <2>1. 2 * cf <= 2 * tf + 3 * F + 2 * e
    BY <1>6, <1>7
  <2>2. 2 * e < qf + F
    BY <1>5 DEF qf
  <2> QED
    BY <1>1, <1>7, <2>1, <2>2
<1>9. F * (2 * c) < F * (2 * t + 4 + q)
  <2>1. F * (2 * c) = 2 * cf
    BY <1>1, Times
  <2>2. F * (2 * t + 4 + q) = F * (2 * t + 4) + F * q
    BY <1>1, <1>3, <1>5, Times
  <2>3. F * (2 * t + 4) = 2 * tf + 4 * F
    BY <1>1, <1>3, Times
  <2> QED
    BY <1>8, <2>1, <2>2, <2>3
<1>10. 2 * c < 2 * t + 4 + q
  BY <1>1, <1>3, <1>5, <1>9, CancelStrict
<1>11. t + q >= c - 1
  BY <1>3, <1>5, <1>10
<1> QED
  BY <1>11 DEF t, q

\* Ticks are lost between two readings, never gained: calc_dec_value() after
\* the sum of two times has counted no less than after each of them.
LEMMA CountedAdds ==
    ASSUME NEW x \in Nat, NEW y \in Nat
    PROVE  /\ Counted(x) \in Nat /\ Counted(y) \in Nat /\ Counted(x + y) \in Nat
           /\ Counted(x) + Counted(y) <= Counted(x + y)
           /\ Slip(y) \in Nat /\ Slip(y) <= Slip(x + y)
<1>1. Frac \in Nat \ {0} /\ Rate \in Nat
  BY PpcClockAssumption, FixedPoint
<1>2. Rate * x \in Nat /\ Rate * y \in Nat /\ Rate * (x + y) = Rate * x + Rate * y
  BY <1>1
<1>3. Counted(x) \in Nat /\ Counted(y) \in Nat /\ Counted(x + y) \in Nat
  BY <1>1, <1>2, DivNat DEF Counted
<1>4. Counted(x) + Counted(y) <= Counted(x + y)
  BY <1>1, <1>2, DivAdds DEF Counted
<1>5. Slip(y) \in Nat /\ Slip(y) <= Slip(x + y)
  BY <1>1, DivNat, DivGrows DEF Slip
<1> QED
  BY <1>3, <1>4, <1>5

\* Taking ticks off a count, modulo its width, cannot lose more than them.
LEMMA ModCount ==
    ASSUME NEW m \in Nat \ {0}, NEW v \in 0 .. m - 1, NEW t \in Nat
    PROVE  (v - t) % m \in 0 .. m - 1 /\ v - ((v - t) % m) <= t
<1> DEFINE r == (v - t) % m
           q == (v - t) \div m
<1>1. r \in 0 .. m - 1 /\ v - t = m * q + r /\ q \in Int
  BY DivMod, DivBounds
<1> HIDE DEF r, q
<1>2. q <= 0
  <2>1. SUFFICES ASSUME q >= 1 PROVE FALSE
    BY <1>1
  <2>2. m * 1 <= m * q
    BY <1>1, <2>1, TimesOrder
  <2>3. m * 1 = m /\ m * q \in Int
    BY <1>1, Times
  <2> QED
    BY <1>1, <2>2, <2>3
<1>3. m * q <= m * 0
  BY <1>1, <1>2, TimesOrder
<1>4. m * 0 = 0 /\ m * q \in Int
  BY <1>1, Times
<1>5. v - r <= t
  BY <1>1, <1>3, <1>4
<1> QED
  BY <1>1, <1>5 DEF r

-----------------------------------------------------------------------------
(* The inductive invariant                                                 *)

Word == 2^DecWidth

\* The types, as single facts.
ClockType ==
    /\ g_icycles \in Nat /\ icnt_time_offset_ns \in Nat
    /\ host \in Nat /\ max_cycles \in Nat /\ g_nanoseconds_base \in Int
    /\ icnt_factor \in 0..MaxFactor
    /\ g_realtime \in BOOLEAN /\ exec_timer \in BOOLEAN
    /\ in_events \in BOOLEAN /\ on_time \in BOOLEAN
    /\ VirtTime \in Nat
    /\ dec_wr_timestamp \in Nat
    /\ dec_wr_value \in 0 .. Word - 1 /\ dec_s \in 0 .. Word - 1
    /\ timer \in [deadline : Nat, immediate : BOOLEAN] \cup {None}

\* Counting by instructions, the budget ends within a period of the deadline
\* and is not yet exceeded.
BudgetHolds ==
    ~g_realtime /\ ~in_events /\ ~exec_timer /\ timer # None =>
        /\ g_icycles <= max_cycles
        /\ Period(icnt_factor) * max_cycles
             <= timer.deadline - icnt_time_offset_ns + Period(icnt_factor)

\* Whenever the timer fires from its deadline on, the count has run out.
Armed ==
    timer # None /\ ~timer.immediate =>
        /\ dec_wr_timestamp <= timer.deadline
        /\ \A e \in Nat : dec_wr_timestamp + e >= timer.deadline =>
              Counted(e) + Slip(e) >= Least(dec_wr_value, Word - 2)

\* Until the timer of a count written with its sign changed is served, the
\* count that was read last (DEC_S) is what remains of the one written.
Crossing ==
    timer # None /\ timer.immediate =>
        /\ timer.deadline = 0
        /\ dec_wr_timestamp <= VirtTime
        /\ dec_wr_value - dec_s <= Ticks(VirtTime)

ClockInv ==
    /\ ClockType /\ BudgetHolds /\ PolledInTime
    /\ Armed /\ Crossing /\ DecNotEarly

\* What the assumptions say of the constants, as single facts.
LEMMA Constants ==
    /\ Word \in Nat \ {0} /\ Word <= Frac /\ Frac \in Nat \ {0}
    /\ MaxFactor \in Nat /\ 4 <= MaxFactor
    /\ TIMER_POLL_INTERVAL_NS \in Nat /\ SLACK \in Nat
    /\ HostSteps \subseteq Nat /\ Realtime \in BOOLEAN
    /\ DecValues \subseteq 0 .. Word - 1
BY PpcClockAssumption, PowersPositive DEF Word

\* An instruction takes some time at every speed.
LEMMA PeriodPositive ==
    ASSUME NEW f \in 0..MaxFactor
    PROVE  Period(f) \in Nat \ {0}
<1>1. 2^f \in Nat \ {0} /\ DefaultPeriod \in Nat \ {0}
  BY PpcClockAssumption, PowersPositive
<1> DEFINE x == DefaultPeriod * 2^f
<1>2. x \in Nat
  BY <1>1
<1> HIDE DEF x
<1>3. x \div 16 \in Nat
  BY <1>2, DivNat
<1> QED
  BY <1>3 DEF Period, x

\* update_decrementer() adds an immediate timer, or one that fires when the
\* count has run out.
LEMMA TimerForCount ==
    ASSUME NEW o \in Int, NEW v \in 0 .. Word - 1, NEW now \in Nat
    PROVE  LET tm == TimerFor(o, v, now)
           IN  /\ tm \in [deadline : Nat, immediate : BOOLEAN]
               /\ tm.immediate => tm.deadline = 0
               /\ ~tm.immediate =>
                    /\ now <= tm.deadline
                    /\ \A e \in Nat : now + e >= tm.deadline =>
                          Counted(e) + Slip(e) >= Least(v, Word - 2)
<1> DEFINE c == IF v < Word - 1 THEN v + 1 ELSE v
           tm == TimerFor(o, v, now)
<1>1. /\ c \in Nat /\ c <= Frac
      /\ Least(v, Word - 2) \in Int /\ Least(v, Word - 2) <= c - 1
  BY Constants DEF Least
<1>2. Delay(c) \in Nat
  <2>1. c * Span \in Nat /\ Frac \in Nat \ {0}
    BY <1>1, FixedPoint, Constants
  <2> QED
    BY <2>1, DivNat DEF Delay
<1>3. CASE tm = [deadline |-> 0, immediate |-> TRUE]
  BY <1>3
<1>4. CASE tm = [deadline |-> now + Delay(c), immediate |-> FALSE]
  <2>1. ASSUME NEW e \in Nat, now + e >= now + Delay(c)
        PROVE  Counted(e) + Slip(e) >= Least(v, Word - 2)
    <3>1. e >= Delay(c)
      BY <2>1, <1>2
    <3>2. Counted(e) + Slip(e) >= c - 1
      BY <1>1, <3>1, DelaySuffices
    <3>3. Counted(e) \in Nat /\ Slip(e) \in Nat
      BY CountedAdds
    <3> HIDE DEF c
    <3> QED
      BY <1>1, <3>2, <3>3
  <2> QED
    BY <1>2, <1>4, <2>1
<1>5. tm = IF ~Negative(o) /\ Negative(v)
           THEN [deadline |-> 0, immediate |-> TRUE]
           ELSE [deadline |-> now + Delay(c), immediate |-> FALSE]
  BY DEF TimerFor, Delay, Span, Word
<1> QED
  BY <1>3, <1>4, <1>5

\* calc_dec_value() counts the ticks since the last write.
LEMMA TicksCounted ==
    ASSUME NEW now
    PROVE  Ticks(now) = Counted(now - dec_wr_timestamp)
BY DEF Ticks, Counted, Rate

\* Initially no time has passed and no timer runs.
LEMMA InitClock == Init => ClockInv
<1> SUFFICES ASSUME Init PROVE ClockInv
  OBVIOUS
<1>1. icnt_factor \in 0..MaxFactor
  BY Constants DEF Init
<1>2. Period(icnt_factor) \in Nat \ {0}
  BY <1>1, PeriodPositive
<1>3. VirtTime = 0
  BY <1>2 DEF Init, VirtTime
<1>4. g_realtime \in BOOLEAN
  BY Constants DEF Init
<1>5. ClockType
  <2>1. dec_wr_value \in 0 .. Word - 1 /\ dec_s \in 0 .. Word - 1
    BY Constants DEF Init, Word
  <2>2. /\ g_icycles \in Nat /\ icnt_time_offset_ns \in Nat /\ host \in Nat
        /\ max_cycles \in Nat /\ g_nanoseconds_base \in Int
        /\ dec_wr_timestamp \in Nat /\ VirtTime \in Nat
    BY <1>3 DEF Init
  <2>3. /\ exec_timer \in BOOLEAN /\ in_events \in BOOLEAN /\ on_time \in BOOLEAN
        /\ timer \in [deadline : Nat, immediate : BOOLEAN] \cup {None}
    BY DEF Init
  <2> QED
    BY <1>1, <1>4, <2>1, <2>2, <2>3 DEF ClockType
<1>6. PolledInTime
  <2>1. TIMER_POLL_INTERVAL_NS \div Period(icnt_factor) \in Nat
    BY <1>2, Constants, DivNat
  <2> QED
    BY <2>1 DEF Init, PolledInTime
<1>7. BudgetHolds /\ Armed /\ Crossing
  BY DEF Init, BudgetHolds, Armed, Crossing
<1> QED
  BY <1>5, <1>6, <1>7 DEF ClockInv, DecNotEarly, Init

\* Time moves on with every instruction.
LEMMA InstrTime ==
    ASSUME ClockType, NEW d \in HostSteps, Instr(d)
    PROVE  VirtTime' \in Nat /\ VirtTime <= VirtTime'
<1> DEFINE P == Period(icnt_factor)
<1>1. P \in Nat \ {0} /\ d \in Nat
  BY PeriodPositive, Constants DEF ClockType
<1>2. CASE g_realtime
  BY <1>1, <1>2 DEF ClockType, Instr, VirtTime
<1>3. CASE ~g_realtime
  <2>1. (g_icycles + 1) * P = g_icycles * P + P /\ g_icycles * P \in Int
    BY <1>1, Times DEF ClockType
  <2>2. /\ VirtTime = icnt_time_offset_ns + g_icycles * P
        /\ VirtTime' = icnt_time_offset_ns + (g_icycles + 1) * P
    BY <1>3 DEF Instr, VirtTime
  <2> HIDE DEF P
  <2> QED
    BY <1>1, <2>1, <2>2 DEF ClockType
<1> QED
  BY <1>2, <1>3

\* An instruction keeps the invariant.
LEMMA InstrKeeps ==
    ASSUME ClockInv, NEW d \in HostSteps, Instr(d)
    PROVE  ClockInv'
<1> USE DEF ClockInv
<1>1. d \in Nat
  BY Constants
<1>2. VirtTime' \in Nat /\ VirtTime <= VirtTime'
  BY InstrTime
<1>3. UNCHANGED <<icnt_factor, icnt_time_offset_ns, g_realtime, g_nanoseconds_base,
                  max_cycles, dec_wr_value, dec_wr_timestamp, dec_s, timer, on_time>>
  BY DEF Instr, decVars
<1>4. g_icycles' = g_icycles + 1 /\ g_icycles' \in Nat
  BY DEF Instr, ClockType
<1>5. ClockType'
  <2>1. host' \in Nat
    BY <1>1 DEF Instr, ClockType
  <2>2. in_events' \in BOOLEAN /\ exec_timer' \in BOOLEAN
    BY DEF Instr, ClockType
  <2> QED
    BY <1>2, <1>3, <1>4, <2>1, <2>2 DEF ClockType
<1>6. ~in_events' => ~in_events /\ ~exec_timer /\ g_icycles + 1 <= max_cycles
  <2>1. ~in_events /\ (~in_events' => ~(g_icycles >= max_cycles) /\ ~exec_timer)
    BY DEF Instr
  <2>2. ~(g_icycles >= max_cycles) => g_icycles + 1 <= max_cycles
    BY DEF ClockType
  <2> QED
    BY <2>1, <2>2
<1>7. BudgetHolds'
  BY <1>3, <1>4, <1>6 DEF BudgetHolds, Period
<1>8. PolledInTime'
  <2>1. TIMER_POLL_INTERVAL_NS \div Period(icnt_factor) \in Nat
    BY PeriodPositive, Constants, DivNat DEF ClockType
  <2>2. Period(icnt_factor)' = Period(icnt_factor)
    BY <1>3 DEF Period
  <2> QED
    BY <1>3, <1>4, <1>6, <2>1, <2>2 DEF PolledInTime, ClockType
<1>9. Armed'
  BY <1>3 DEF Armed
<1>10. Crossing'
  <2> SUFFICES ASSUME timer # None, timer.immediate
               PROVE  /\ timer.deadline = 0
                      /\ dec_wr_timestamp <= VirtTime'
                      /\ dec_wr_value - dec_s <= Ticks(VirtTime)'
    BY <1>3 DEF Crossing
  <2>1. /\ timer.deadline = 0 /\ dec_wr_timestamp <= VirtTime
        /\ dec_wr_value - dec_s <= Ticks(VirtTime)
    BY DEF Crossing
  <2> DEFINE x == VirtTime - dec_wr_timestamp
             y == VirtTime' - VirtTime
  <2>2. x \in Nat /\ y \in Nat /\ x + y = VirtTime' - dec_wr_timestamp
    <3>1. VirtTime \in Nat /\ dec_wr_timestamp \in Nat
      BY DEF ClockType
    <3>2. \A a \in Nat, b \in Nat, c \in Nat : a <= b /\ b <= c =>
             b - a \in Nat /\ c - b \in Nat /\ (b - a) + (c - b) = c - a
      OBVIOUS
    <3>3. dec_wr_timestamp <= VirtTime
      BY <2>1
    <3> QED
      BY <1>2, <3>1, <3>2, <3>3, Zenon
  <2>3. Ticks(VirtTime) = Counted(x)
    BY TicksCounted
  <2>4. Ticks(VirtTime)' = Counted(x + y)
    BY <1>3, <2>2 DEF Ticks, Counted, Rate
  <2>5. Counted(x) <= Counted(x + y) /\ Counted(x) \in Nat /\ Counted(x + y) \in Nat
    BY <2>2, CountedAdds
  <2>6. dec_wr_value - dec_s \in Int
    BY Constants DEF ClockType
  <2> QED
    BY <1>2, <2>1, <2>2, <2>3, <2>4, <2>5, <2>6 DEF ClockType
<1>11. DecNotEarly'
  BY <1>3 DEF DecNotEarly
<1> QED
  BY <1>5, <1>7, <1>8, <1>9, <1>10, <1>11

\* So do the guest's accesses to DEC: time stands still.
LEMMA MtDecKeeps ==
    ASSUME ClockInv, NEW v \in DecValues, MtDec(v)
    PROVE  ClockInv'
<1> USE DEF ClockInv
<1>1. v \in 0 .. Word - 1
  BY Constants
<1>2. UNCHANGED <<g_icycles, icnt_factor, icnt_time_offset_ns, g_realtime, host,
                  g_nanoseconds_base, max_cycles, in_events, on_time>>
  BY DEF MtDec, icntVars, hostVars
<1>3. VirtTime' = VirtTime
  BY <1>2 DEF VirtTime, Period
<1>4. exec_timer' /\ exec_timer' \in BOOLEAN
  BY DEF MtDec
<1>5. DecValue(VirtTime) \in Int
  <2>1. Ticks(VirtTime) \in Int
    <3>1. Rate * (VirtTime - dec_wr_timestamp) \in Int
      BY FixedPoint DEF ClockType
    <3> QED
      BY <3>1, Constants, DivBounds DEF Ticks, Rate
  <2>2. dec_wr_value - Ticks(VirtTime) \in Int
    BY <2>1, Constants DEF ClockType
  <2>3. (dec_wr_value - Ticks(VirtTime)) % Word \in 0 .. Word - 1
    BY <2>2, Constants, DivMod
  <2>4. DecValue(VirtTime) \in 0 .. Word - 1
    BY <2>3 DEF DecValue, Word
  <2> QED
    BY <2>4, Constants
<1> DEFINE tm == TimerFor(DecValue(VirtTime), v, VirtTime)
<1>6. /\ timer' = tm /\ dec_wr_value' = v /\ dec_wr_timestamp' = VirtTime
      /\ dec_s' = v
  BY DEF MtDec
<1>7. /\ tm \in [deadline : Nat, immediate : BOOLEAN]
      /\ tm.immediate => tm.deadline = 0
      /\ ~tm.immediate =>
           /\ VirtTime <= tm.deadline
           /\ \A e \in Nat : VirtTime + e >= tm.deadline =>
                 Counted(e) + Slip(e) >= Least(v, Word - 2)
  BY <1>1, <1>5, TimerForCount DEF ClockType
<1> HIDE DEF tm
<1>8. ClockType'
  BY <1>1, <1>2, <1>3, <1>4, <1>6, <1>7 DEF ClockType
<1>9. BudgetHolds' /\ PolledInTime' /\ DecNotEarly'
  BY <1>2, <1>4 DEF BudgetHolds, PolledInTime, DecNotEarly
<1>10. Armed'
  BY <1>6, <1>7 DEF Armed
<1>11. Crossing'
  <2>1. Ticks(VirtTime)' = Counted(0)
    <3>1. VirtTime' - dec_wr_timestamp' = 0
      BY <1>3, <1>6 DEF ClockType
    <3> QED
      BY <3>1 DEF Ticks, Counted, Rate
  <2>2. Counted(0) \in Nat
    BY CountedAdds
  <2>3. dec_wr_value' - dec_s' = 0
    BY <1>1, <1>6, Constants
  <2> QED
    BY <1>3, <1>6, <1>7, <2>1, <2>2, <2>3 DEF Crossing, ClockType
<1> QED
  BY <1>8, <1>9, <1>10, <1>11

\* What a reading leaves in DEC_S is what remains of the count.
LEMMA MfDecKeeps ==
    ASSUME ClockInv, MfDec
    PROVE  ClockInv'
<1> USE DEF ClockInv
<1>1. UNCHANGED <<g_icycles, icnt_factor, icnt_time_offset_ns, g_realtime, host,
                  g_nanoseconds_base, max_cycles, in_events, on_time, exec_timer,
                  dec_wr_value, dec_wr_timestamp, timer>>
  BY DEF MfDec, icntVars, hostVars
<1>2. VirtTime' = VirtTime
  BY <1>1 DEF VirtTime, Period
<1>3. Ticks(VirtTime) \in Int
  <2>1. Rate * (VirtTime - dec_wr_timestamp) \in Int
    BY FixedPoint DEF ClockType
  <2> QED
    BY <2>1, Constants, DivBounds DEF Ticks, Rate
<1>4. dec_s' = (dec_wr_value - Ticks(VirtTime)) % Word
  BY DEF MfDec, DecValue, Word
<1>5. dec_s' \in 0 .. Word - 1
  <2>1. dec_wr_value - Ticks(VirtTime) \in Int
    BY <1>3, Constants DEF ClockType
  <2> QED
    BY <1>4, <2>1, Constants, DivMod
<1>6. ClockType'
  BY <1>1, <1>2, <1>5 DEF ClockType
<1>7. BudgetHolds' /\ PolledInTime' /\ DecNotEarly' /\ Armed'
  BY <1>1 DEF BudgetHolds, PolledInTime, DecNotEarly, Armed, Period
<1>8. Crossing'
  <2> SUFFICES ASSUME timer # None, timer.immediate
               PROVE  /\ timer.deadline = 0
                      /\ dec_wr_timestamp <= VirtTime
                      /\ dec_wr_value - dec_s' <= Ticks(VirtTime)
    BY <1>1, <1>2 DEF Crossing, Ticks
  <2>1. timer.deadline = 0 /\ dec_wr_timestamp <= VirtTime
    BY DEF Crossing
  <2>2. Ticks(VirtTime) \in Nat
    <3>1. VirtTime - dec_wr_timestamp \in Nat
      BY <2>1 DEF ClockType
    <3> QED
      BY <3>1, CountedAdds, TicksCounted
  <2>3. dec_wr_value - dec_s' <= Ticks(VirtTime)
    BY <1>4, <2>2, Constants, ModCount DEF ClockType
  <2> QED
    BY <2>1, <2>3
<1> QED
  BY <1>6, <1>7, <1>8

\* When the timer fires the count has run out, and it is armed for the next
\* time that a count of -1 runs out.
LEMMA TimedKeeps ==
    ASSUME ClockInv, TimedFires
    PROVE  ClockInv'
<1> USE DEF ClockInv
<1> DEFINE m == Word - 1
           tm == TimerFor(m, m, VirtTime)
           e == VirtTime - dec_wr_timestamp
<1>1. /\ UNCHANGED <<g_icycles, icnt_factor, icnt_time_offset_ns, g_realtime, host,
                     g_nanoseconds_base, max_cycles, in_events, exec_timer, dec_s>>
      /\ dec_wr_value' = m /\ dec_wr_timestamp' = VirtTime /\ timer' = tm
      /\ in_events
  BY DEF TimedFires, icntVars, hostVars, Word
<1>2. VirtTime' = VirtTime
  BY <1>1 DEF VirtTime, Period
<1>3. timer # None /\ ~timer.immediate /\ timer.deadline <= VirtTime
  BY DEF TimedFires, Due
<1>4. m \in 0 .. Word - 1 /\ m \in Int
  BY Constants
<1>5. /\ tm \in [deadline : Nat, immediate : BOOLEAN]
      /\ ~tm.immediate
      /\ VirtTime <= tm.deadline
      /\ \A x \in Nat : VirtTime + x >= tm.deadline =>
            Counted(x) + Slip(x) >= Least(m, Word - 2)
  <2>1. ~tm.immediate
    BY DEF TimerFor
  <2> QED
    BY <1>4, <2>1, TimerForCount DEF ClockType
<1>6. on_time'
  <2>1. /\ VirtTime \in Nat /\ dec_wr_timestamp \in Nat
        /\ timer.deadline \in Nat
    BY <1>3 DEF ClockType
  <2>2. dec_wr_timestamp <= timer.deadline
    BY <1>3 DEF Armed
  <2>3. e \in Nat /\ dec_wr_timestamp + e = VirtTime
    BY <1>3, <2>1, <2>2
  <2>4. Counted(e) + Slip(e) >= Least(dec_wr_value, Word - 2)
    BY <1>3, <2>3 DEF Armed
  <2>5. on_time' = (Ticks(VirtTime) + Slip(e) >= Least(dec_wr_value, (Word - 1) - 1))
    BY DEF TimedFires, Word
  <2>6. (Word - 1) - 1 = Word - 2
    BY Constants
  <2>7. Ticks(VirtTime) = Counted(e)
    BY TicksCounted
  <2> QED
    BY <2>4, <2>5, <2>6, <2>7
<1> HIDE DEF tm
<1>7. on_time' \in BOOLEAN
  BY DEF TimedFires
<1>8. ClockType'
  BY <1>1, <1>2, <1>4, <1>5, <1>7 DEF ClockType
<1>9. BudgetHolds' /\ PolledInTime' /\ DecNotEarly'
  BY <1>1, <1>6 DEF BudgetHolds, PolledInTime, DecNotEarly
<1>10. Armed' /\ Crossing'
  BY <1>1, <1>5 DEF Armed, Crossing
<1> QED
  BY <1>8, <1>9, <1>10

\* The immediate timer goes on with what remains of the count, from a later
\* time on.
LEMMA ImmediateKeeps ==
    ASSUME ClockInv, ImmediateFires
    PROVE  ClockInv'
<1> USE DEF ClockInv
<1> DEFINE tm == TimerFor(dec_s, dec_s, VirtTime)
<1>1. /\ UNCHANGED <<g_icycles, icnt_factor, icnt_time_offset_ns, g_realtime, host,
                     g_nanoseconds_base, max_cycles, in_events, exec_timer, dec_s,
                     dec_wr_value, dec_wr_timestamp, on_time>>
      /\ timer' = tm
      /\ in_events
  BY DEF ImmediateFires, icntVars, hostVars
<1>2. VirtTime' = VirtTime
  BY <1>1 DEF VirtTime, Period
<1>3. /\ dec_wr_timestamp <= VirtTime
      /\ dec_wr_value - dec_s <= Ticks(VirtTime)
  BY DEF ImmediateFires, Due, Crossing
<1>4. /\ dec_s \in 0 .. Word - 1 /\ dec_s \in Int /\ VirtTime \in Nat
      /\ dec_wr_timestamp \in Nat /\ dec_wr_value \in 0 .. Word - 1
  BY Constants DEF ClockType
<1>5. /\ tm \in [deadline : Nat, immediate : BOOLEAN]
      /\ ~tm.immediate
      /\ VirtTime <= tm.deadline
      /\ \A x \in Nat : VirtTime + x >= tm.deadline =>
            Counted(x) + Slip(x) >= Least(dec_s, Word - 2)
  <2>1. ~tm.immediate
    BY DEF TimerFor
  <2> QED
    BY <1>4, <2>1, TimerForCount
<1> HIDE DEF tm
<1>6. ClockType'
  BY <1>1, <1>2, <1>5 DEF ClockType
<1>7. BudgetHolds' /\ PolledInTime' /\ DecNotEarly'
  BY <1>1 DEF BudgetHolds, PolledInTime, DecNotEarly
<1>8. ASSUME NEW e \in Nat, dec_wr_timestamp + e >= tm.deadline
      PROVE  Counted(e) + Slip(e) >= Least(dec_wr_value, Word - 2)
  <2> DEFINE x == VirtTime - dec_wr_timestamp
             y == e - x
  <2>1. /\ x \in Nat /\ y \in Nat /\ x + y = e
        /\ VirtTime + y >= tm.deadline
    BY <1>3, <1>4, <1>5, <1>8
  <2>2. Counted(x) = Ticks(VirtTime)
    BY TicksCounted
  <2> HIDE DEF x, y
  <2>3. Counted(y) + Slip(y) >= Least(dec_s, Word - 2)
    BY <1>5, <2>1
  <2>4. /\ Counted(x) \in Nat /\ Counted(y) \in Nat /\ Counted(e) \in Nat
        /\ Counted(x) + Counted(y) <= Counted(e)
        /\ Slip(y) \in Nat /\ Slip(y) <= Slip(e)
    BY <2>1, CountedAdds
  <2>5. Slip(e) \in Nat
    BY CountedAdds
  <2>6. Least(dec_wr_value, Word - 2) <= Counted(x) + Least(dec_s, Word - 2)
    BY <1>3, <1>4, <2>2, <2>4, Constants DEF Least
  <2>7. Least(dec_wr_value, Word - 2) \in Int /\ Least(dec_s, Word - 2) \in Int
    BY <1>4, Constants DEF Least
  <2> QED
    BY <2>3, <2>4, <2>5, <2>6, <2>7
<1>9. Armed'
  <2>1. dec_wr_timestamp <= tm.deadline
    BY <1>3, <1>4, <1>5
  <2> QED
    BY <1>1, <1>5, <1>8, <2>1 DEF Armed
<1>10. Crossing'
  BY <1>1, <1>5 DEF Crossing
<1> QED
  BY <1>6, <1>7, <1>9, <1>10

\* set_virt_time_ns(): quotient and remainder give the same time at the new
\* speed, and the base of the host's clock is corrected by the slack.
LEMMA HotKeyTime ==
    ASSUME ClockType, NEW f \in 0..MaxFactor, NEW r \in BOOLEAN,
           NEW d \in HostSteps, HotKey(f, r, d)
    PROVE  /\ g_realtime' = r /\ icnt_factor' = f
           /\ host' \in Nat /\ g_icycles' \in Nat /\ icnt_time_offset_ns' \in Nat
           /\ g_nanoseconds_base' \in Int
           /\ VirtTime' \in Nat
           /\ IF r THEN VirtTime' <= VirtTime /\ host <= host'
              ELSE VirtTime' = VirtTime
<1> DEFINE P == Period(f)
           t == VirtTime
<1>1. P \in Nat \ {0} /\ d \in Nat /\ SLACK \in Nat /\ t \in Nat /\ SLACK + d <= t
  BY PeriodPositive, Constants DEF ClockType, HotKey
<1>2. g_realtime' = r /\ icnt_factor' = f
  BY DEF HotKey, SetVirtTime
<1>3. CASE r
  <2>1. /\ host' = host + d
        /\ g_nanoseconds_base' = host - t - SLACK + 2 * (SLACK + d)
        /\ UNCHANGED <<g_icycles, icnt_time_offset_ns>>
    BY <1>3 DEF HotKey, SetVirtTime
  <2>2. VirtTime' = host' - g_nanoseconds_base'
    BY <1>2, <1>3 DEF VirtTime
  <2> HIDE DEF t, P
  <2>3. host' - g_nanoseconds_base' = t - (SLACK + d)
    BY <1>1, <2>1 DEF ClockType
  <2>4. t - (SLACK + d) \in Nat /\ t - (SLACK + d) <= t
    BY <1>1
  <2>5. host \in Nat /\ g_icycles \in Nat /\ icnt_time_offset_ns \in Nat
    BY DEF ClockType
  <2>6. host' \in Nat /\ host <= host' /\ g_nanoseconds_base' \in Int
    BY <1>1, <2>1, <2>5
  <2> QED
    BY <1>2, <1>3, <2>1, <2>2, <2>3, <2>4, <2>5, <2>6 DEF t
<1>4. CASE ~r
  <2>1. /\ g_icycles' = t \div P /\ icnt_time_offset_ns' = t % P
        /\ UNCHANGED <<host, g_nanoseconds_base>>
    BY <1>4 DEF HotKey, SetVirtTime
  <2>2. VirtTime' = icnt_time_offset_ns' + g_icycles' * P
    BY <1>2, <1>4 DEF VirtTime, Period
  <2> HIDE DEF t, P
  <2>3. t \div P \in Nat /\ t % P \in 0 .. P - 1 /\ t = P * (t \div P) + (t % P)
    <3>1. t \div P \in Nat
      BY <1>1, DivNat
    <3>2. t \in Int
      BY <1>1
    <3>3. t % P \in 0 .. P - 1 /\ t = P * (t \div P) + (t % P)
      BY <1>1, <3>2, DivMod
    <3> QED
      BY <3>1, <3>3
  <2>4. P * (t \div P) = (t \div P) * P /\ (t \div P) * P \in Int /\ t % P \in Int
    BY <1>1, <2>3, Times
  <2>5. (t % P) + (t \div P) * P = t /\ t % P \in Nat
    BY <1>1, <2>3, <2>4
  <2>6. VirtTime' = t
    BY <2>1, <2>2, <2>5
  <2> QED
    BY <1>1, <1>2, <1>4, <2>1, <2>3, <2>5, <2>6 DEF t, ClockType
<1> QED
  BY <1>3, <1>4

\* The hot keys act while events are processed, when no timer is due.
LEMMA HotKeyKeeps ==
    ASSUME ClockInv, NEW f \in 0..MaxFactor, NEW r \in BOOLEAN,
           NEW d \in HostSteps, HotKey(f, r, d)
    PROVE  ClockInv'
<1> USE DEF ClockInv
<1>1. /\ UNCHANGED <<max_cycles, dec_wr_value, dec_wr_timestamp, dec_s, timer,
                     in_events, on_time>>
      /\ in_events /\ exec_timer'
      /\ exec_timer' \in BOOLEAN
  BY DEF HotKey, decVars
<1>2. ClockType'
  BY <1>1, HotKeyTime DEF ClockType
<1>3. BudgetHolds' /\ PolledInTime' /\ DecNotEarly' /\ Armed'
  BY <1>1 DEF BudgetHolds, PolledInTime, DecNotEarly, Armed
<1>4. Crossing'
  <2>1. ~(timer # None /\ timer.immediate)
    <3> SUFFICES ASSUME timer # None, timer.immediate PROVE FALSE
      OBVIOUS
    <3>1. timer.deadline = 0 /\ VirtTime \in Nat
      BY DEF Crossing, ClockType
    <3>2. timer.deadline <= VirtTime
      BY <3>1
    <3> QED
      BY <3>2 DEF HotKey, Due
  <2> QED
    BY <1>1, <2>1 DEF Crossing
<1> QED
  BY <1>2, <1>3, <1>4

\* The budget that process_events() returns.
LEMMA EventsDoneKeeps ==
    ASSUME ClockInv, EventsDone
    PROVE  ClockInv'
<1> USE DEF ClockInv
<1> DEFINE P == Period(icnt_factor)
           off == icnt_time_offset_ns
           poll == TIMER_POLL_INTERVAL_NS
<1>1. /\ UNCHANGED <<g_icycles, icnt_factor, icnt_time_offset_ns, g_realtime, host,
                     g_nanoseconds_base, exec_timer, dec_s, dec_wr_value,
                     dec_wr_timestamp, timer, on_time>>
      /\ max_cycles' = Budget(timer.deadline, VirtTime)
      /\ ~in_events' /\ in_events' \in BOOLEAN
      /\ ~(timer # None /\ timer.deadline <= VirtTime)
  BY DEF EventsDone, icntVars, hostVars, decVars, Due
<1>2. VirtTime' = VirtTime /\ Ticks(VirtTime)' = Ticks(VirtTime)
      /\ Period(icnt_factor)' = P
  BY <1>1 DEF VirtTime, Period, Ticks
<1>3. /\ P \in Nat \ {0} /\ off \in Nat /\ g_icycles \in Nat /\ poll \in Nat
      /\ VirtTime \in Nat
  BY PeriodPositive, Constants DEF ClockType
<1>4. /\ timer = None => timer.deadline = -1
      /\ timer # None => timer.deadline \in Nat
  BY DEF ClockType, None
<1> HIDE DEF P
<1>5. CASE g_realtime
  <2> DEFINE delay == IF timer.deadline = -1 THEN poll
                      ELSE IF timer.deadline > VirtTime
                           THEN timer.deadline - VirtTime ELSE 0
             n == Least(delay, poll)
  <2>1. max_cycles' = g_icycles + n \div P + 1
    BY <1>1, <1>5 DEF Budget, P
  <2>2. n \in Nat /\ n <= poll
    <3>1. delay \in Nat
      BY <1>3, <1>4
    <3> HIDE DEF delay
    <3> QED
      BY <1>3, <3>1 DEF Least
  <2> HIDE DEF n
  <2>3. n \div P \in Nat /\ n \div P <= poll \div P /\ poll \div P \in Nat
    BY <1>3, <2>2, DivNat, DivGrows
  <2>4. max_cycles' \in Nat /\ max_cycles' <= g_icycles + poll \div P + 1
    BY <1>3, <2>1, <2>3
  <2>5. PolledInTime'
    BY <1>1, <1>2, <2>4 DEF PolledInTime
  <2> QED
    BY <1>1, <1>2, <1>5, <2>4, <2>5 DEF ClockType, BudgetHolds, Armed, Crossing, DecNotEarly
<1>6. CASE ~g_realtime
  <2> DEFINE n == IF timer.deadline = -1 THEN VirtTime + poll ELSE timer.deadline
             x == n - Least(n, off)
             q == x \div P
  <2>1. max_cycles' = q + 1
    BY <1>1, <1>6 DEF Budget, P
  <2>2. x \in Nat
    <3>1. n \in Nat
      BY <1>3, <1>4
    <3> HIDE DEF n
    <3> QED
      BY <1>3, <3>1 DEF Least
  <2>3. q \in Nat /\ P * q <= x /\ x < P * q + P
    <3> HIDE DEF x
    <3>1. x \in Int
      BY <2>2
    <3> QED
      BY <1>3, <2>2, <3>1, DivNat, DivBounds
  <2>4. max_cycles' \in Nat
    BY <2>1, <2>3
  <2>5. BudgetHolds'
    <3> SUFFICES ASSUME timer # None
                 PROVE  /\ g_icycles <= max_cycles'
                        /\ P * max_cycles' <= timer.deadline - off + P
      BY <1>1, <1>2 DEF BudgetHolds
    <3>1. timer.deadline \in Nat /\ VirtTime < timer.deadline
      BY <1>1, <1>3, <1>4
    <3>2. VirtTime = off + P * g_icycles /\ P * g_icycles \in Nat
      <4>1. VirtTime = off + g_icycles * P
        BY <1>6 DEF VirtTime, P
      <4>2. g_icycles * P = P * g_icycles
        BY <1>3, Times
      <4>3. P * g_icycles \in Nat
        BY <1>3
      <4> QED
        BY <4>1, <4>2, <4>3
    <3>3. x = timer.deadline - off
      BY <1>3, <3>1, <3>2 DEF Least
    <3> HIDE DEF q, x
    <3>4. P * (q + 1) = P * q + P /\ P * q \in Int
      BY <1>3, <2>3, Times
    <3>5. P * g_icycles < P * (q + 1)
      BY <1>3, <2>3, <3>1, <3>2, <3>3, <3>4
    <3>6. g_icycles < q + 1
      BY <1>3, <2>3, <3>5, CancelStrict
    <3>7. P * (q + 1) <= timer.deadline - off + P
      BY <1>3, <2>3, <3>1, <3>3, <3>4
    <3> QED
      BY <1>3, <2>1, <2>3, <3>6, <3>7
  <2> QED
    BY <1>1, <1>2, <1>6, <2>4, <2>5 DEF ClockType, PolledInTime, Armed, Crossing, DecNotEarly
<1> QED
  BY <1>5, <1>6 DEF ClockType

-----------------------------------------------------------------------------
(* The theorems                                                            *)

\* Every step keeps the invariant.
LEMMA NextClock == ClockInv /\ [Next]_vars => ClockInv'
<1> SUFFICES ASSUME ClockInv, [Next]_vars PROVE ClockInv'
  OBVIOUS
<1>1. ASSUME NEW d \in HostSteps, Instr(d) PROVE ClockInv'
  BY <1>1, InstrKeeps
<1>2. ASSUME NEW v \in DecValues, MtDec(v) PROVE ClockInv'
  BY <1>2, MtDecKeeps
<1>3. CASE MfDec
  BY <1>3, MfDecKeeps
<1>4. CASE TimedFires
  BY <1>4, TimedKeeps
<1>5. CASE ImmediateFires
  BY <1>5, ImmediateKeeps
<1>6. CASE EventsDone
  BY <1>6, EventsDoneKeeps
<1>7. ASSUME NEW f \in 0..MaxFactor, NEW r \in BOOLEAN, NEW d \in HostSteps,
             HotKey(f, r, d)
      PROVE  ClockInv'
  BY <1>7, HotKeyKeeps
<1>8. CASE UNCHANGED vars
  BY <1>8 DEF vars, icntVars, hostVars, decVars, ClockInv, ClockType, BudgetHolds,
              PolledInTime, Armed, Crossing, DecNotEarly, VirtTime, Ticks, Period
<1> QED
  BY <1>1, <1>2, <1>3, <1>4, <1>5, <1>6, <1>7, <1>8 DEF Next

\* ClockInv holds in every reachable state.
THEOREM ClockInvariant == Spec => []ClockInv
<1> QED
  BY InitClock, NextClock, PTL DEF Spec

\* The budget brings the interpreter back within two instructions.
LEMMA BudgetServes == ClockInv => ServedInTime
<1> SUFFICES ASSUME ClockInv, ~g_realtime, ~in_events, timer # None, ~exec_timer
             PROVE  VirtTime <= timer.deadline + Period(icnt_factor)
  BY DEF ServedInTime
<1> DEFINE P == Period(icnt_factor)
<1>1. /\ P \in Nat \ {0} /\ icnt_time_offset_ns \in Nat /\ g_icycles \in Nat
      /\ max_cycles \in Nat /\ timer.deadline \in Nat
  BY PeriodPositive DEF ClockInv, ClockType
<1>2. /\ g_icycles <= max_cycles
      /\ P * max_cycles <= timer.deadline - icnt_time_offset_ns + P
  BY DEF ClockInv, BudgetHolds
<1>3. VirtTime = icnt_time_offset_ns + g_icycles * P
  BY DEF VirtTime
<1> HIDE DEF P
<1>4. P * g_icycles <= P * max_cycles /\ g_icycles * P = P * g_icycles
      /\ P * g_icycles \in Int /\ P * max_cycles \in Int
  BY <1>1, <1>2, TimesOrder, Times
<1>5. icnt_time_offset_ns + g_icycles * P <= timer.deadline + P
  BY <1>1, <1>2, <1>4
<1> QED
  BY <1>3, <1>5 DEF P

\* The invariant implies the types as TypeOK states them.
LEMMA ClockTypes == ClockInv => TypeOK
BY DEF ClockInv, ClockType, TypeOK, Word

\* Timers are served in time, whichever clock runs and however often it is
\* changed, and the decrementer's timer does not fire before its count has run
\* out (process_events() and update_decrementer()).
THEOREM TimersAreServed == Spec => []TimersServed
<1>1. ClockInv => TimersServed
  BY BudgetServes, ClockTypes DEF TimersServed, ClockInv
<1> QED
  BY <1>1, ClockInvariant, PTL

\* A change of speed or of the clock source keeps the time
\* (set_virt_time_ns()).
THEOREM ClockKeepsTime == Spec => SpeedKeepsTime
<1> DEFINE Kept ==
      icnt_factor' # icnt_factor \/ g_realtime' # g_realtime =>
          IF g_realtime' THEN VirtTime' <= VirtTime + (host' - host)
          ELSE VirtTime' = VirtTime
<1>1. ASSUME ClockInv, [Next]_vars PROVE [Kept]_vars
  <2> SUFFICES ASSUME Next, icnt_factor' # icnt_factor \/ g_realtime' # g_realtime
               PROVE  IF g_realtime' THEN VirtTime' <= VirtTime + (host' - host)
                      ELSE VirtTime' = VirtTime
    BY <1>1
  <2>1. PICK f \in 0..MaxFactor, r \in BOOLEAN, d \in HostSteps : HotKey(f, r, d)
    BY DEF Next, Instr, MtDec, MfDec, TimedFires, ImmediateFires, EventsDone,
           icntVars, hostVars
  <2>2. /\ g_realtime' = r /\ host' \in Nat /\ VirtTime' \in Nat
        /\ IF r THEN VirtTime' <= VirtTime /\ host <= host' ELSE VirtTime' = VirtTime
    BY <1>1, <2>1, HotKeyTime DEF ClockInv
  <2>3. VirtTime \in Nat /\ host \in Nat
    BY <1>1 DEF ClockInv, ClockType
  <2>4. \A a \in Nat, b \in Nat, c \in Nat, h \in Nat :
           a <= b /\ c <= h => a <= b + (h - c)
    OBVIOUS
  <2> QED
    BY <2>2, <2>3, <2>4, Zenon
<1>2. Spec => [][Kept]_vars
  BY <1>1, ClockInvariant, PTL DEF Spec
<1> QED
  BY <1>2 DEF SpeedKeepsTime
=============================================================================
