------------------------ MODULE IoControllersProofs -------------------------
(***************************************************************************)
(* The Mac I/O interrupt controller implements the abstract interrupt line *)
(* (IntLine) and loses no request, for any sources and banks. With what is *)
(* proved of AMIC in its module and of PrimeTime here, so does each.       *)
(* The display controllers keep their promises (DisplayServed).           *)
(***************************************************************************)
EXTENDS MCIoControllers, TLAPS

Controller == [levels : SUBSET Source, events : SUBSET Source,
               mask : SUBSET Source, mode : {"native", "emulated"},
               latch : BOOLEAN]

\* The pin shows an enabled event: cpu_int_latch is only ever changed by
\* signal_cpu_int() and clear_cpu_int(), each of which looks one way.
PinShown(s) == s.latch = (s.events \cap s.mask # {})

\* One call of ack_int_common() adds at most the event of its source, sets the
\* level of that source alone and keeps the pin in step.
LEMMA AckIntCommonStep ==
    ASSUME NEW s \in Controller, PinShown(s), NEW irq \in Source,
           NEW state \in BOOLEAN
    PROVE  LET t == AckIntCommon(s, irq, state)
           IN  /\ t \in Controller
               /\ PinShown(t)
               /\ t.mask = s.mask
               /\ t.events \in {s.events, s.events \cup {irq}}
               /\ t.levels = IF state THEN s.levels \cup {irq} ELSE s.levels \ {irq}
               /\ state /\ irq \notin s.levels => irq \in t.events
  BY DEF AckIntCommon, SignalCpuInt, Latched, Events, Levels, Controller, PinShown

\* clear_cpu_int() followed by signal_cpu_int() puts the pin right whatever it
\* was before.
LEMMA PinCorrected ==
    ASSUME NEW s \in Controller
    PROVE  LET t == SignalCpuInt(ClearCpuInt(s))
           IN  /\ t \in Controller
               /\ PinShown(t)
               /\ t.events = s.events
               /\ t.mask = s.mask
               /\ t.levels = s.levels
  BY DEF SignalCpuInt, ClearCpuInt, Latched, Controller, PinShown

\* signal_cpu_int() puts the pin right where it was not asserted in vain.
LEMMA SignalStep ==
    ASSUME NEW s \in Controller, s.latch => s.events \cap s.mask # {}
    PROVE  LET t == SignalCpuInt(s)
           IN  /\ t \in Controller
               /\ PinShown(t)
               /\ t.events = s.events
               /\ t.mask = s.mask
               /\ t.levels = s.levels
  BY DEF SignalCpuInt, Latched, Controller, PinShown

\* clear_cpu_int() alone is enough where events only went away, and
\* clear_dma_int() after it brings back events of the channels it serves only.
LEMMA ClearStep ==
    ASSUME NEW s \in Controller, PinShown(s), NEW c \in SUBSET Source
    PROVE  LET t == ClearCpuInt(Events(s, s.events \ c))
               u == ClearDmaInt(t, c)
           IN  /\ t \in Controller /\ PinShown(t) /\ t.mask = s.mask
               /\ t.events = s.events \ c /\ t.levels = s.levels
               /\ u \in Controller /\ PinShown(u) /\ u.mask = s.mask
               /\ u.levels = s.levels \ (c \cap Dma)
               /\ \E again \in SUBSET c : u.events = (s.events \ c) \cup again
  <1> DEFINE t == ClearCpuInt(Events(s, s.events \ c))
             u == ClearDmaInt(t, c)
  <1> SUFFICES /\ t \in Controller /\ PinShown(t) /\ t.mask = s.mask
               /\ t.events = s.events \ c /\ t.levels = s.levels
               /\ u \in Controller /\ PinShown(u) /\ u.mask = s.mask
               /\ u.levels = s.levels \ (c \cap Dma)
               /\ \E again \in SUBSET c : u.events = (s.events \ c) \cup again
    OBVIOUS
  <1>1. /\ t \in Controller /\ PinShown(t) /\ t.mask = s.mask
        /\ t.events = s.events \ c /\ t.levels = s.levels
    BY DEF ClearCpuInt, Latched, Events, Controller, PinShown
  <1> HIDE DEF t, u
  <1>2. CASE c \cap Dma # {} /\ t.mode = "emulated"
    <2> DEFINE E == t.events \cup (t.levels \cap (c \cap Dma))
               w == Events(Levels(t, t.levels \ (c \cap Dma)), E)
    <2>1. u = SignalCpuInt(w)
      BY <1>2 DEF ClearDmaInt, Levels, u
    <2>2. /\ w \in Controller /\ w.events = E /\ w.mask = t.mask
          /\ w.latch = t.latch /\ w.levels = t.levels \ (c \cap Dma)
      BY <1>1 DEF Events, Levels, Controller
    <2>3. w.latch => w.events \cap w.mask # {}
      BY <1>1, <2>2 DEF PinShown
    <2> HIDE DEF w
    <2>4. u \in Controller /\ PinShown(u) /\ u.mask = s.mask /\ u.events = E
          /\ u.levels = s.levels \ (c \cap Dma)
      BY <1>1, <2>1, <2>2, <2>3, SignalStep
    <2>5. t.levels \cap (c \cap Dma) \in SUBSET c
      OBVIOUS
    <2> QED
      BY <1>1, <2>4, <2>5
  <1>3. CASE ~ (c \cap Dma # {} /\ t.mode = "emulated")
    <2>1. u = Levels(t, t.levels \ (c \cap Dma))
      BY <1>3 DEF ClearDmaInt, u
    <2>2. u \in Controller /\ PinShown(u) /\ u.mask = s.mask /\ u.events = t.events
          /\ u.levels = s.levels \ (c \cap Dma)
      BY <1>1, <2>1 DEF Levels, Controller, PinShown
    <2>3. {} \in SUBSET c /\ u.events = (s.events \ c) \cup {}
      BY <1>1, <2>2
    <2> QED
      BY <1>1, <2>2, <2>3
  <1> QED
    BY <1>2, <1>3

\* The invariant the refinement rests on: registers hold sources, and the pin
\* agrees with them between two register accesses.
LineInv == TypeOK /\ PinShown(io)

\* Every register store and every call of a device or channel keeps the pin in
\* step, and is a request, an enable or a service of the abstract line.
LEMMA LineStep ==
    ASSUME LineInv, [Next]_macioVars
    PROVE  LineInv' /\ [Line!Next]_(Line!lineVars)
  <1> USE DEF LineInv
  <1>0. io \in Controller
    BY DEF TypeOK, Controller
  <1>1. ASSUME NEW d \in Source, AckInt(d)
        PROVE  LineInv' /\ Line!Next
    <2>0. \/ io' = AckIntCommon(io, d, TRUE)
          \/ io' = AckIntCommon(io, d, FALSE)
      <3>1. io' = AckIntCommon(io, d, d \in line')
        BY <1>1 DEF AckInt
      <3>2. (d \in line') = TRUE \/ (d \in line') = FALSE
        OBVIOUS
      <3> QED
        BY <3>1, <3>2, Zenon
    <2>1. /\ io' \in Controller /\ PinShown(io') /\ io'.mask = io.mask
          /\ io'.events \in {io.events, io.events \cup {d}}
      <3>1. CASE io' = AckIntCommon(io, d, TRUE)
        BY <1>0, <3>1, AckIntCommonStep
      <3>2. CASE io' = AckIntCommon(io, d, FALSE)
        BY <1>0, <3>2, AckIntCommonStep
      <3> QED
        BY <2>0, <3>1, <3>2
    <2>2. TypeOK'
      BY <1>1, <2>1 DEF AckInt, TypeOK, Controller
    <2>3. Line!Request({d}) \/ Line!Request({})
      BY <2>1 DEF Line!Request
    <2> QED
      BY <2>1, <2>2, <2>3 DEF Line!Next, Line!Shown, PinShown
  <1>2. ASSUME NEW d \in Source, AckDmaInt(d)
        PROVE  LineInv' /\ Line!Next
    <2>1. /\ io' \in Controller /\ PinShown(io') /\ io'.mask = io.mask
          /\ io'.events \in {io.events, io.events \cup {d}}
      BY <1>0, <1>2, AckIntCommonStep DEF AckDmaInt, PinShown
    <2>2. TypeOK'
      BY <1>2, <2>1 DEF AckDmaInt, TypeOK, Controller
    <2>3. Line!Request({d}) \/ Line!Request({})
      BY <2>1 DEF Line!Request
    <2> QED
      BY <2>1, <2>2, <2>3 DEF Line!Next, Line!Shown, PinShown
  <1>3. ASSUME NEW m \in SUBSET (Dev \cup Dma), NEW mode \in {"native", "emulated"},
               WriteMask1(m, mode)
        PROVE  LineInv' /\ Line!Next
    <2> DEFINE k == (io.mask \cap Bank2) \cup m
    <2>1. Masked(io, k, mode) \in Controller
      BY <1>0 DEF Masked, Controller, Source
    <2>2. io' \in Controller /\ PinShown(io') /\ io'.events = io.events /\ io'.mask = k
      BY <1>3, <2>1, PinCorrected DEF WriteMask1, Masked, PinShown
    <2>3. TypeOK'
      BY <1>3, <2>2 DEF WriteMask1, TypeOK, Controller
    <2>4. k \in SUBSET Source /\ Line!Enable(k)
      BY <2>2 DEF Line!Enable, Source
    <2> QED
      BY <2>2, <2>3, <2>4 DEF Line!Next, Line!Shown, PinShown
  <1>4. ASSUME NEW m \in SUBSET Bank2, WriteMask2(m)
        PROVE  LineInv' /\ Line!Next
    <2> DEFINE k == (io.mask \ Bank2) \cup m
    <2>1. Masked(io, k, io.mode) \in Controller
      BY <1>0 DEF Masked, Controller, Source
    <2>2. io' \in Controller /\ PinShown(io') /\ io'.events = io.events /\ io'.mask = k
      BY <1>4, <2>1, PinCorrected DEF WriteMask2, Masked, PinShown
    <2>3. TypeOK'
      BY <1>4, <2>2 DEF WriteMask2, TypeOK, Controller
    <2>4. k \in SUBSET Source /\ Line!Enable(k)
      BY <1>0, <2>2 DEF Line!Enable, Source, Controller
    <2> QED
      BY <2>2, <2>3, <2>4 DEF Line!Next, Line!Shown, PinShown
  <1>5. ASSUME NEW m \in SUBSET Bank2, WriteClear2(m)
        PROVE  LineInv' /\ Line!Next
    <2>1. m \in SUBSET Source
      BY DEF Source
    <2>2. /\ io' \in Controller /\ PinShown(io') /\ io'.mask = io.mask
          /\ io'.events = io.events \ m
      BY <1>0, <1>5, <2>1, ClearStep, ZenonT(60) DEF WriteClear2, PinShown
    <2>3. TypeOK'
      BY <1>0, <1>5, <2>2 DEF WriteClear2, TypeOK, Controller
    <2>4. {} \in SUBSET m /\ io'.events = (io.events \ m) \cup {}
      BY <2>2
    <2>5. Line!Serve(m)
      BY <2>2, <2>4 DEF Line!Serve
    <2> QED
      BY <2>1, <2>2, <2>3, <2>5 DEF Line!Next, Line!Shown, PinShown
  <1>6. ASSUME NEW c \in SUBSET (Dev \cup Dma), WriteClear1(c)
        PROVE  LineInv' /\ Line!Next
    <2>1. c \in SUBSET Source
      BY DEF Source
    <2>2. /\ io' \in Controller /\ PinShown(io') /\ io'.mask = io.mask
          /\ \E again \in SUBSET c : io'.events = (io.events \ c) \cup again
      BY <1>0, <1>6, <2>1, ClearStep, ZenonT(60) DEF WriteClear1, PinShown
    <2>3. TypeOK'
      BY <1>6, <2>2 DEF WriteClear1, TypeOK, Controller
    <2>4. Line!Serve(c)
      BY <2>2 DEF Line!Serve
    <2> QED
      BY <2>1, <2>2, <2>3, <2>4 DEF Line!Next, Line!Shown, PinShown
  <1>7. CASE ClearAllEvents
    <2>1. /\ io' \in Controller /\ PinShown(io') /\ io'.mask = io.mask /\ io'.events = {}
      BY <1>0, <1>7 DEF ClearAllEvents, ClearCpuInt, Latched, Events, Controller, PinShown
    <2>2. TypeOK'
      BY <1>0, <1>7, <2>1 DEF ClearAllEvents, TypeOK, Controller
    <2>3. Source \in SUBSET Source /\ Line!Serve(Source)
      BY <1>0, <2>1 DEF Line!Serve, Controller
    <2> QED
      BY <2>1, <2>2, <2>3 DEF Line!Next, Line!Shown, PinShown
  <1>8. CASE UNCHANGED macioVars
    BY <1>8 DEF macioVars, TypeOK, PinShown, Line!lineVars
  <1> QED
    BY <1>1, <1>2, <1>3, <1>4, <1>5, <1>6, <1>7, <1>8 DEF Next

\* The pin of the processor implements the abstract interrupt line, whatever
\* sources there are and however edges, masks and clears are interleaved.
THEOREM LineImplemented == Spec => LineSpec
  <1>1. Init => LineInv /\ Line!Init
    <2> SUFFICES ASSUME Init PROVE LineInv /\ Line!Init
      OBVIOUS
    <2>1. io.events = {} /\ io.mask = {} /\ io.latch = FALSE
      BY DEF Init
    <2>2. PinShown(io)
      BY <2>1 DEF PinShown
    <2>3. TypeOK
      BY DEF Init, TypeOK
    <2> QED
      BY <2>1, <2>2, <2>3 DEF LineInv, Line!Init
  <1>2. LineInv /\ [Next]_macioVars => LineInv' /\ [Line!Next]_(Line!lineVars)
    BY LineStep
  <1> QED
    BY <1>1, <1>2, PTL DEF Spec, LineSpec, Line!Spec

-----------------------------------------------------------------------------
(* A channel asks for the processor through its level, which only a clear  *)
(* takes back: a level that is up is pending, or its channel is known to   *)
(* be deaf. The banks of a chip share no bits.                             *)
KeptInv ==
    /\ LineInv /\ NoneLost /\ LevelsFollow
    /\ io.levels \cap (Dma \cup Dma2) \subseteq io.events \cup blind

\* Every handler keeps what is owed pending and the levels with their lines.
LEMMA KeptStep ==
    ASSUME Dma2 \cap (Dev \cup Dma) = {}, Dma \cap Bank2 = {},
           KeptInv, [Next]_macioVars
    PROVE  KeptInv'
  <1>0. io \in Controller /\ PinShown(io)
    BY DEF KeptInv, LineInv, TypeOK, Controller
  <1>L. LineInv'
    BY LineStep DEF KeptInv
  <1> DEFINE Rest == /\ NoneLost /\ LevelsFollow
                     /\ io.levels \cap (Dma \cup Dma2) \subseteq io.events \cup blind
  <1>R. Rest
    BY DEF KeptInv
  <1>B. blind \subseteq Dma \cup Dma2
    BY DEF KeptInv, LineInv, TypeOK
  <1> USE DEF NoneLost, LevelsFollow
  <1>1. ASSUME NEW d \in Source, AckInt(d)
        PROVE  Rest'
    <2>1. d \notin Dma \cup Dma2
      BY <1>1 DEF AckInt
    <2>2. CASE d \in line
      <3>1. line' = line \ {d} /\ owed' = owed /\ blind' = blind
        BY <1>1, <2>2 DEF AckInt
      <3>2. io' = AckIntCommon(io, d, FALSE)
        <4>1. io' = AckIntCommon(io, d, d \in line')
          BY <1>1 DEF AckInt
        <4>2. (d \in line') = FALSE
          BY <3>1
        <4> QED
          BY <4>1, <4>2, Zenon
      <3>3. io'.events \in {io.events, io.events \cup {d}} /\ io'.levels = io.levels \ {d}
        BY <1>0, <3>2, AckIntCommonStep
      <3> QED
        BY <1>R, <1>B, <2>1, <3>1, <3>3
    <2>3. CASE d \notin line
      <3>1. line' = line \cup {d} /\ owed' = owed \cup {d} /\ blind' = blind
        BY <1>1, <2>3 DEF AckInt
      <3>2. io' = AckIntCommon(io, d, TRUE)
        <4>1. io' = AckIntCommon(io, d, d \in line')
          BY <1>1 DEF AckInt
        <4>2. (d \in line') = TRUE
          BY <3>1
        <4> QED
          BY <4>1, <4>2, Zenon
      <3>3. d \notin io.levels
        BY <1>R, <2>1, <2>3
      <3>4. io'.events = io.events \cup {d} /\ io'.levels = io.levels \cup {d}
        <4>1. /\ io'.events \in {io.events, io.events \cup {d}}
              /\ io'.levels = io.levels \cup {d}
              /\ d \in io'.events
          BY <1>0, <3>2, <3>3, AckIntCommonStep
        <4>2. CASE io'.events = io.events
          BY <4>1, <4>2
        <4> QED
          BY <4>1, <4>2
      <3> QED
        BY <1>R, <2>1, <3>1, <3>4
    <2> QED
      BY <2>2, <2>3
  <1>2. ASSUME NEW d \in Source, AckDmaInt(d)
        PROVE  Rest'
    <2>1. /\ io'.events \in {io.events, io.events \cup {d}}
          /\ io'.levels = io.levels \cup {d}
          /\ d \notin io.levels => d \in io'.events
      BY <1>0, <1>2, AckIntCommonStep DEF AckDmaInt
    <2>2. /\ d \in Dma \cup Dma2 /\ line' = line /\ blind' = blind
          /\ owed' = IF d \in blind THEN owed ELSE owed \cup {d}
      BY <1>2 DEF AckDmaInt
    <2>3. d \in io'.events \cup blind
      BY <1>R, <2>1, <2>2
    <2> QED
      BY <1>R, <2>1, <2>2, <2>3
  <1>3. ASSUME NEW m \in SUBSET (Dev \cup Dma), NEW mode \in {"native", "emulated"},
               WriteMask1(m, mode)
        PROVE  Rest'
    <2> DEFINE k == (io.mask \cap Bank2) \cup m
    <2>1. Masked(io, k, mode) \in Controller
      BY <1>0 DEF Masked, Controller, Source
    <2>2. io'.events = io.events /\ io'.levels = io.levels
      BY <1>3, <2>1, PinCorrected DEF WriteMask1, Masked
    <2> QED
      BY <1>3, <1>R, <2>2 DEF WriteMask1
  <1>4. ASSUME NEW m \in SUBSET Bank2, WriteMask2(m)
        PROVE  Rest'
    <2> DEFINE k == (io.mask \ Bank2) \cup m
    <2>1. Masked(io, k, io.mode) \in Controller
      BY <1>0 DEF Masked, Controller, Source
    <2>2. io'.events = io.events /\ io'.levels = io.levels
      BY <1>4, <2>1, PinCorrected DEF WriteMask2, Masked
    <2> QED
      BY <1>4, <1>R, <2>2 DEF WriteMask2
  <1>5. ASSUME NEW m \in SUBSET Bank2, WriteClear2(m)
        PROVE  Rest'
    <2>1. m \in SUBSET Source
      BY DEF Source
    <2>2. io'.events = io.events \ m /\ io'.levels = io.levels
      BY <1>0, <1>5, <2>1, ClearStep, ZenonT(60) DEF WriteClear2
    <2>3. /\ line' = line /\ owed' = owed \ m
          /\ blind' = blind \cup (io.levels \cap Dma2 \cap m)
      BY <1>5 DEF WriteClear2
    <2> QED
      BY <1>R, <2>2, <2>3
  <1>6. ASSUME NEW c \in SUBSET (Dev \cup Dma), WriteClear1(c)
        PROVE  Rest'
    <2>1. c \in SUBSET Source
      BY DEF Source
    <2>2. /\ \E again \in SUBSET c : io'.events = (io.events \ c) \cup again
          /\ io'.levels = io.levels \ (c \cap Dma)
      BY <1>0, <1>6, <2>1, ClearStep DEF WriteClear1
    <2>3. line' = line /\ owed' = owed \ c /\ blind' = blind \ c
      BY <1>6 DEF WriteClear1
    <2> QED
      BY <1>R, <2>2, <2>3
  <1>7. ASSUME ClearAllEvents
        PROVE  Rest'
    <2>1. io'.events = {} /\ io'.levels = io.levels
      BY <1>0, <1>7 DEF ClearAllEvents, ClearCpuInt, Latched, Events, Controller
    <2>2. /\ line' = line /\ owed' = {}
          /\ blind' = blind \cup (io.levels \cap (Dma \cup Dma2))
      BY <1>7 DEF ClearAllEvents
    <2>3. NoneLost'
      BY <2>1, <2>2
    <2>4. LevelsFollow'
      BY <1>R, <2>1, <2>2
    <2>5. (io.levels \cap (Dma \cup Dma2) \subseteq io.events \cup blind)'
      BY <2>1, <2>2
    <2> QED
      BY <2>3, <2>4, <2>5
  <1>8. ASSUME UNCHANGED macioVars
        PROVE  Rest'
    <2>1. io' = io /\ line' = line /\ owed' = owed /\ blind' = blind
      BY <1>8 DEF macioVars
    <2> QED
      BY <1>R, <2>1
  <1> HIDE DEF Rest
  <1>9. Rest'
    BY <1>1, <1>2, <1>3, <1>4, <1>5, <1>6, <1>7, <1>8 DEF Next
  <1> QED
    BY <1>L, <1>9 DEF KeptInv, Rest

\* No reset value owes anything.
LEMMA KeptStarts == Init => KeptInv
  <1> SUFFICES ASSUME Init PROVE KeptInv
    OBVIOUS
  <1>1. /\ io.events = {} /\ io.mask = {} /\ io.latch = FALSE /\ io.levels = {}
        /\ line = {} /\ owed = {} /\ blind = {}
    BY DEF Init
  <1>2. PinShown(io)
    BY <1>1 DEF PinShown
  <1>3. TypeOK
    BY DEF Init, TypeOK
  <1> QED
    BY <1>1, <1>2, <1>3 DEF KeptInv, LineInv, NoneLost, LevelsFollow

\* No request is lost between a device's edge and the guest's clear, and
\* int_levels stays the state of the lines, for any sources whose banks are
\* disjoint; only a channel whose level a clear left up may go unheard.
THEOREM RequestsNeverLost ==
    ASSUME Dma2 \cap (Dev \cup Dma) = {}, Dma \cap Bank2 = {}
    PROVE  Spec => [](NoneLost /\ LevelsFollow)
  <1>2. KeptInv /\ [Next]_macioVars => KeptInv'
    BY KeptStep
  <1>3. KeptInv => NoneLost /\ LevelsFollow
    BY DEF KeptInv
  <1> QED
    BY KeptStarts, <1>2, <1>3, PTL DEF Spec

-----------------------------------------------------------------------------
(***************************************************************************)
(* PrimeTime II: every stage of the cascade agrees with the one below it   *)
(* after every call, whichever sources there are.                          *)
(***************************************************************************)

\* get_int_level() is one of the asserted levels, or none.
LEMMA IntLevelIsPending ==
    ASSUME NEW s \in PrimeTime!Registers
    PROVE  PrimeTime!IntLevel(s) \in s.lines \cup {0}
<1>1. s.lines \subseteq {1, 2, 4, 7}
  BY DEF PrimeTime!Registers, PrimeTime!Levels
<1>2. \E l \in s.lines \cup {0} : \A k \in s.lines : k <= l
  <2>1. CASE 7 \in s.lines
    BY <1>1, <2>1
  <2>2. CASE 7 \notin s.lines /\ 4 \in s.lines
    BY <1>1, <2>2
  <2>3. CASE 7 \notin s.lines /\ 4 \notin s.lines /\ 2 \in s.lines
    BY <1>1, <2>3
  <2>4. CASE s.lines \subseteq {1}
    BY <2>4
  <2> QED
    BY <1>1, <2>1, <2>2, <2>3, <2>4
<1> QED
  BY <1>2 DEF PrimeTime!IntLevel

\* ack_cpu_int() drives its level and asks for the processor whenever the
\* level that results is not the acknowledged one.
LEMMA AckCpuIntStep ==
    ASSUME NEW s \in PrimeTime!Registers, NEW level \in PrimeTime!Levels,
           NEW state \in BOOLEAN
    PROVE  LET t == PrimeTime!AckCpuInt(s, level, state)
           IN  /\ t \in PrimeTime!Registers /\ PrimeTime!Reported(t)
               /\ t.lines = IF state THEN s.lines \cup {level}
                                     ELSE s.lines \ {level}
               /\ t.flags = s.flags /\ t.gates = s.gates
               /\ t.f108Irq = s.f108Irq /\ t.escc = s.escc
               /\ t.slot = s.slot /\ t.via2 = s.via2 /\ t.ier = s.ier
               /\ t.via2Irq = s.via2Irq
<1> DEFINE u == [s EXCEPT !.lines = IF state THEN @ \cup {level} ELSE @ \ {level},
                          !.since = @ \/ state]
           t == [u EXCEPT !.cpuIrq = @ \/ PrimeTime!IntLevel(u) # u.acked]
<1>1. t = PrimeTime!AckCpuInt(s, level, state)
  BY DEF PrimeTime!AckCpuInt
<1>2. u \in PrimeTime!Registers
  BY DEF PrimeTime!Registers
<1>3. t.lines = u.lines /\ t.acked = u.acked
      /\ t.cpuIrq = (u.cpuIrq \/ PrimeTime!IntLevel(u) # u.acked)
  BY <1>2 DEF PrimeTime!Registers
<1>4. PrimeTime!IntLevel(t) = PrimeTime!IntLevel(u)
  BY <1>3 DEF PrimeTime!IntLevel
<1>5. PrimeTime!Reported(t)
  BY <1>3, <1>4 DEF PrimeTime!Reported
<1>6. t \in PrimeTime!Registers
  <2> HIDE DEF u
  <2> QED
    BY <1>2 DEF PrimeTime!Registers
<1>7. t.lines = IF state THEN s.lines \cup {level} ELSE s.lines \ {level}
  BY <1>3 DEF PrimeTime!Registers
<1>8. /\ t.flags = s.flags /\ t.gates = s.gates
      /\ t.f108Irq = s.f108Irq /\ t.escc = s.escc
      /\ t.slot = s.slot /\ t.via2 = s.via2 /\ t.ier = s.ier
      /\ t.via2Irq = s.via2Irq
  BY DEF PrimeTime!Registers
<1> HIDE DEF t
<1> QED
  BY <1>1, <1>5, <1>6, <1>7, <1>8

\* update_via2_irq() brings the summary of VIA2 up to date, and its level with
\* it, from any state where the two agree with each other.
LEMMA UpdateVia2IrqStep ==
    ASSUME NEW s \in PrimeTime!Registers, PrimeTime!Reported(s), PrimeTime!Forwarded(s)
    PROVE  LET t == PrimeTime!UpdateVia2Irq(s)
           IN  /\ t \in PrimeTime!Registers /\ PrimeTime!Reported(t)
                  /\ PrimeTime!Forwarded(t) /\ PrimeTime!Summed(t)
               /\ PrimeTime!SameAbove(s, t)
               /\ t.slot = s.slot /\ t.via2 = s.via2 /\ t.ier = s.ier
<1> DEFINE irq == s.via2 \cap s.ier # {}
           u == [s EXCEPT !.via2Irq = irq]
<1>1. CASE irq # s.via2Irq
  <2>1. PrimeTime!UpdateVia2Irq(s) = PrimeTime!AckCpuInt(u, 2, irq)
    BY <1>1 DEF PrimeTime!UpdateVia2Irq
  <2>2. /\ u \in PrimeTime!Registers /\ u.via2Irq = irq /\ u.lines = s.lines
        /\ u.via2 = s.via2 /\ u.ier = s.ier /\ u.slot = s.slot
        /\ u.flags = s.flags /\ u.gates = s.gates
        /\ u.f108Irq = s.f108Irq /\ u.escc = s.escc
    BY DEF PrimeTime!Registers
  <2>3. 2 \in PrimeTime!Levels /\ irq \in BOOLEAN
    BY DEF PrimeTime!Levels
  <2> DEFINE t == PrimeTime!AckCpuInt(u, 2, irq)
  <2> HIDE DEF u
  <2>4. /\ t \in PrimeTime!Registers /\ PrimeTime!Reported(t)
        /\ t.lines = IF irq THEN u.lines \cup {2} ELSE u.lines \ {2}
        /\ t.flags = u.flags /\ t.gates = u.gates
        /\ t.f108Irq = u.f108Irq /\ t.escc = u.escc
        /\ t.slot = u.slot /\ t.via2 = u.via2 /\ t.ier = u.ier
        /\ t.via2Irq = u.via2Irq
    BY <2>2, <2>3, AckCpuIntStep, ZenonT(60)
  <2> HIDE DEF t
  <2>5. PrimeTime!Forwarded(t)
    <3>1. CASE irq
      BY <2>2, <2>4, <3>1 DEF PrimeTime!Forwarded
    <3>2. CASE ~irq
      BY <2>2, <2>4, <3>2 DEF PrimeTime!Forwarded
    <3> QED
      BY <3>1, <3>2
  <2>6. PrimeTime!Summed(t)
    BY <2>2, <2>4 DEF PrimeTime!Summed
  <2>7. PrimeTime!SameAbove(s, t)
    BY <2>2, <2>4 DEF PrimeTime!SameAbove
  <2> QED
    BY <2>1, <2>2, <2>4, <2>5, <2>6, <2>7 DEF t
<1>2. CASE irq = s.via2Irq
  BY <1>2 DEF PrimeTime!UpdateVia2Irq, PrimeTime!Forwarded, PrimeTime!Summed,
     PrimeTime!SameAbove
<1> QED
  BY <1>1, <1>2

\* ack_via2_int() sets or clears one flag of VIA2.
LEMMA AckVia2IntStep ==
    ASSUME NEW s \in PrimeTime!Registers, PrimeTime!Reported(s), PrimeTime!Forwarded(s),
           NEW f \in PrimeTime!Via2Flags, NEW state \in BOOLEAN
    PROVE  LET t == PrimeTime!AckVia2Int(s, f, state)
           IN  /\ t \in PrimeTime!Registers /\ PrimeTime!Reported(t)
                  /\ PrimeTime!Forwarded(t) /\ PrimeTime!Summed(t)
               /\ PrimeTime!SameAbove(s, t) /\ t.slot = s.slot
               /\ t.via2 = IF state THEN s.via2 \cup {f} ELSE s.via2 \ {f}
<1> DEFINE u == IF state THEN [s EXCEPT !.via2 = @ \cup {f},
                                        !.since = @ \/ f \in s.ier]
                         ELSE [s EXCEPT !.via2 = @ \ {f}]
<1>1. /\ u \in PrimeTime!Registers /\ u.slot = s.slot /\ PrimeTime!SameAbove(s, u)
      /\ u.via2 = IF state THEN s.via2 \cup {f} ELSE s.via2 \ {f}
      /\ u.lines = s.lines /\ u.acked = s.acked /\ u.cpuIrq = s.cpuIrq
      /\ u.via2Irq = s.via2Irq
  BY DEF PrimeTime!Registers, PrimeTime!SameAbove
<1>2. PrimeTime!AckVia2Int(s, f, state) = PrimeTime!UpdateVia2Irq(u)
  BY DEF PrimeTime!AckVia2Int
<1> HIDE DEF u
<1>3. PrimeTime!Reported(u) /\ PrimeTime!Forwarded(u)
  BY <1>1 DEF PrimeTime!Reported, PrimeTime!Forwarded, PrimeTime!IntLevel
<1> QED
  BY <1>1, <1>2, <1>3, UpdateVia2IrqStep DEF PrimeTime!SameAbove

\* ack_slot_int() latches ALL_SLOT when a line rises and drops it only with the
\* last line.
LEMMA AckSlotIntStep ==
    ASSUME NEW s \in PrimeTime!Registers, PrimeTime!Reported(s), PrimeTime!Forwarded(s),
           PrimeTime!Summed(s),
           NEW S \in PrimeTime!SlotSets, NEW state \in BOOLEAN
    PROVE  LET t == PrimeTime!AckSlotInt(s, S, state)
           IN  /\ t \in PrimeTime!Registers /\ PrimeTime!Reported(t)
                  /\ PrimeTime!Forwarded(t) /\ PrimeTime!Summed(t)
               /\ PrimeTime!SameAbove(s, t)
               /\ t.slot = IF state THEN s.slot \cup S ELSE s.slot \ S
               /\ state => "ALL_SLOT" \in t.via2
               /\ t.slot # {} /\ "ALL_SLOT" \in s.via2 => "ALL_SLOT" \in t.via2
<1> DEFINE u == [s EXCEPT !.slot = IF state THEN @ \cup S ELSE @ \ S]
<1>1. /\ u \in PrimeTime!Registers /\ PrimeTime!SameAbove(s, u) /\ u.via2 = s.via2
      /\ u.slot = IF state THEN s.slot \cup S ELSE s.slot \ S
      /\ u.lines = s.lines /\ u.acked = s.acked /\ u.cpuIrq = s.cpuIrq
      /\ u.via2Irq = s.via2Irq /\ u.ier = s.ier
  BY DEF PrimeTime!Registers, PrimeTime!SlotSets, PrimeTime!SameAbove
<1>2. PrimeTime!AckSlotInt(s, S, state) =
          IF state THEN PrimeTime!AckVia2Int(u, "ALL_SLOT", TRUE)
          ELSE IF u.slot = {} THEN PrimeTime!AckVia2Int(u, "ALL_SLOT", FALSE) ELSE u
  BY DEF PrimeTime!AckSlotInt
<1> HIDE DEF u
<1>3. PrimeTime!Reported(u) /\ PrimeTime!Forwarded(u) /\ PrimeTime!Summed(u)
  BY <1>1 DEF PrimeTime!Reported, PrimeTime!Forwarded, PrimeTime!Summed, PrimeTime!IntLevel
<1>4. "ALL_SLOT" \in PrimeTime!Via2Flags
  BY DEF PrimeTime!Via2Flags
<1>5. ASSUME NEW b \in BOOLEAN
      PROVE  LET t == PrimeTime!AckVia2Int(u, "ALL_SLOT", b)
             IN  /\ t \in PrimeTime!Registers /\ PrimeTime!Reported(t)
                    /\ PrimeTime!Forwarded(t) /\ PrimeTime!Summed(t)
                 /\ PrimeTime!SameAbove(s, t) /\ t.slot = u.slot
                 /\ b => "ALL_SLOT" \in t.via2
  <2> DEFINE t == PrimeTime!AckVia2Int(u, "ALL_SLOT", b)
  <2>1. /\ t \in PrimeTime!Registers /\ PrimeTime!Reported(t) /\ PrimeTime!Forwarded(t)
           /\ PrimeTime!Summed(t)
        /\ PrimeTime!SameAbove(u, t) /\ t.slot = u.slot
        /\ t.via2 = IF b THEN u.via2 \cup {"ALL_SLOT"} ELSE u.via2 \ {"ALL_SLOT"}
    <3>1. u \in PrimeTime!Registers /\ PrimeTime!Reported(u) /\ PrimeTime!Forwarded(u)
      BY <1>1, <1>3
    <3> QED
      BY <3>1, <1>4, AckVia2IntStep, ZenonT(60)
  <2> HIDE DEF t
  <2>2. PrimeTime!SameAbove(s, t)
    BY <1>1, <2>1 DEF PrimeTime!SameAbove
  <2>3. b => "ALL_SLOT" \in t.via2
    BY <2>1
  <2> QED
    BY <2>1, <2>2, <2>3 DEF t
<1>6. CASE state
  BY <1>1, <1>2, <1>5, <1>6
<1>8. CASE ~state /\ u.slot = {}
  BY <1>1, <1>2, <1>5, <1>8
<1>7. CASE ~state /\ u.slot # {}
  BY <1>1, <1>2, <1>3, <1>7
<1> QED
  BY <1>6, <1>7, <1>8

\* update_f108_irq() brings the summary of the F108 up to date, and its slot
\* line with it; a line that rises shows in ALL_SLOT.
LEMMA UpdateF108IrqStep ==
    ASSUME NEW s \in PrimeTime!Registers, PrimeTime!Reported(s), PrimeTime!Forwarded(s),
           PrimeTime!Summed(s),
           s.f108Irq = ("F108" \in s.slot)
    PROVE  LET t == PrimeTime!UpdateF108Irq(s)
           IN  /\ t \in PrimeTime!Registers /\ PrimeTime!Reported(t)
                  /\ PrimeTime!Forwarded(t) /\ PrimeTime!Summed(t)
               /\ t.f108Irq = (PrimeTime!Live(t) # {})
               /\ t.f108Irq = ("F108" \in t.slot)
               /\ t.escc = s.escc /\ (4 \in t.lines) = (4 \in s.lines)
               /\ t.slot \ s.slot # {} => "ALL_SLOT" \in t.via2
               /\ t.slot # {} /\ "ALL_SLOT" \in s.via2 => "ALL_SLOT" \in t.via2
               /\ t.slot # {} => s.slot # {} \/ t.slot \ s.slot # {}
<1> DEFINE irq == (s.flags \cap F108Src) \cup (s.flags \cap s.gates) # {}
           u == [s EXCEPT !.f108Irq = irq]
<1>1. irq = (PrimeTime!Live(s) # {})
  BY DEF PrimeTime!Live
<1>2. CASE irq # s.f108Irq
  <2> DEFINE t == PrimeTime!AckSlotInt(u, {"F108"}, irq)
  <2>1. PrimeTime!UpdateF108Irq(s) = t
    BY <1>2 DEF PrimeTime!UpdateF108Irq
  <2>2. /\ u \in PrimeTime!Registers /\ u.slot = s.slot /\ u.via2 = s.via2
        /\ u.f108Irq = irq /\ u.flags = s.flags /\ u.gates = s.gates
        /\ u.escc = s.escc /\ u.lines = s.lines /\ u.acked = s.acked
        /\ u.cpuIrq = s.cpuIrq /\ u.via2Irq = s.via2Irq /\ u.ier = s.ier
    BY DEF PrimeTime!Registers
  <2>3. {"F108"} \in PrimeTime!SlotSets /\ irq \in BOOLEAN
    BY DEF PrimeTime!Slots, PrimeTime!SlotSets
  <2> HIDE DEF u, irq
  <2>4. PrimeTime!Reported(u) /\ PrimeTime!Forwarded(u) /\ PrimeTime!Summed(u)
    BY <2>2 DEF PrimeTime!Reported, PrimeTime!Forwarded, PrimeTime!Summed,
       PrimeTime!IntLevel
  <2>5. /\ t \in PrimeTime!Registers /\ PrimeTime!Reported(t) /\ PrimeTime!Forwarded(t)
           /\ PrimeTime!Summed(t)
        /\ PrimeTime!SameAbove(u, t)
        /\ t.slot = IF irq THEN u.slot \cup {"F108"} ELSE u.slot \ {"F108"}
        /\ irq => "ALL_SLOT" \in t.via2
        /\ t.slot # {} /\ "ALL_SLOT" \in u.via2 => "ALL_SLOT" \in t.via2
    <3>1. u \in PrimeTime!Registers
      BY <2>2
    <3> QED
      BY <3>1, <2>3, <2>4, AckSlotIntStep
  <2> HIDE DEF t
  <2>6. /\ t.f108Irq = irq /\ t.escc = s.escc
        /\ (4 \in t.lines) = (4 \in s.lines)
        /\ PrimeTime!Live(t) = PrimeTime!Live(s)
    BY <2>2, <2>5 DEF PrimeTime!SameAbove, PrimeTime!Live
  <2>7. irq = ("F108" \in t.slot)
    <3>1. irq => "F108" \in t.slot
      BY <2>5
    <3>2. ~irq => "F108" \notin t.slot
      BY <2>5
    <3> QED
      BY <2>3, <3>1, <3>2
  <2>8. t.slot \ s.slot # {} => "ALL_SLOT" \in t.via2
    BY <2>2, <2>5
  <2>9. t.slot # {} => s.slot # {} \/ t.slot \ s.slot # {}
    BY <2>2, <2>5
  <2> QED
    BY <1>1, <2>1, <2>2, <2>5, <2>6, <2>7, <2>8, <2>9
<1>3. CASE irq = s.f108Irq
  <2>1. PrimeTime!UpdateF108Irq(s) = s
    BY <1>3 DEF PrimeTime!UpdateF108Irq
  <2> QED
    BY <1>1, <1>3, <2>1
<1> QED
  BY <1>2, <1>3

\* A call that only moves the levels or the flags of VIA2 keeps the invariant,
\* as long as it does not dismiss a summary that a slot line still needs.
LEMMA PtLowerStep ==
    ASSUME PrimeTime!CascadeInv, pt' \in PrimeTime!Registers, edge' \in BOOLEAN,
           PrimeTime!Reported(pt'), PrimeTime!Forwarded(pt'), PrimeTime!Summed(pt'),
           pt'.flags = pt.flags, pt'.gates = pt.gates,
           pt'.f108Irq = pt.f108Irq, pt'.slot = pt.slot,
           (4 \in pt'.lines) = (pt'.escc # {}),
           edge' /\ pt'.slot # {} => "ALL_SLOT" \in pt'.via2
    PROVE  PrimeTime!CascadeInv'
<1>1. PrimeTime!Live(pt') = PrimeTime!Live(pt)
  BY DEF PrimeTime!Live
<1> QED
  BY <1>1 DEF PrimeTime!CascadeInv, PrimeTime!TypeOK, PrimeTime!SlotEdgeKept,
     PrimeTime!Live, PrimeTime!Reported, PrimeTime!Forwarded,
              PrimeTime!Summed, PrimeTime!IntLevel

\* A call of update_f108_irq() after the flags or the enables changed.
LEMMA PtUpperStep ==
    ASSUME PrimeTime!CascadeInv, NEW s \in PrimeTime!Registers, s.slot = pt.slot,
           s.via2 = pt.via2,
           s.escc = pt.escc, s.lines = pt.lines, s.acked = pt.acked,
           s.cpuIrq = pt.cpuIrq, s.via2Irq = pt.via2Irq, s.ier = pt.ier,
           s.f108Irq = pt.f108Irq,
           pt' = PrimeTime!UpdateF108Irq(s), edge' = (edge \/ PrimeTime!Rose(pt'))
    PROVE  PrimeTime!CascadeInv'
<1>1. PrimeTime!Reported(s) /\ PrimeTime!Forwarded(s) /\ PrimeTime!Summed(s)
  BY DEF PrimeTime!CascadeInv, PrimeTime!Reported, PrimeTime!Forwarded, PrimeTime!Summed,
     PrimeTime!IntLevel
<1>2. s.f108Irq = ("F108" \in s.slot)
  BY DEF PrimeTime!CascadeInv
<1>3. /\ pt' \in PrimeTime!Registers /\ PrimeTime!Reported(pt')
         /\ PrimeTime!Forwarded(pt') /\ PrimeTime!Summed(pt')
      /\ pt'.f108Irq = (PrimeTime!Live(pt') # {})
      /\ pt'.f108Irq = ("F108" \in pt'.slot)
      /\ pt'.escc = s.escc /\ (4 \in pt'.lines) = (4 \in s.lines)
      /\ pt'.slot \ s.slot # {} => "ALL_SLOT" \in pt'.via2
      /\ pt'.slot # {} /\ "ALL_SLOT" \in s.via2 => "ALL_SLOT" \in pt'.via2
      /\ pt'.slot # {} => s.slot # {} \/ pt'.slot \ s.slot # {}
  BY <1>1, <1>2, UpdateF108IrqStep
<1>4. (4 \in pt'.lines) = (pt'.escc # {})
  BY <1>3 DEF PrimeTime!CascadeInv
<1>5. edge' \in BOOLEAN
  BY DEF PrimeTime!CascadeInv, PrimeTime!TypeOK, PrimeTime!Rose
<1>6. edge' /\ pt'.slot # {} => "ALL_SLOT" \in pt'.via2
  BY <1>3 DEF PrimeTime!CascadeInv, PrimeTime!SlotEdgeKept, PrimeTime!Rose
<1> QED
  BY <1>3, <1>4, <1>5, <1>6 DEF PrimeTime!CascadeInv, PrimeTime!TypeOK,
     PrimeTime!SlotEdgeKept, PrimeTime!Live,
     PrimeTime!Reported, PrimeTime!Forwarded, PrimeTime!Summed, PrimeTime!IntLevel

\* A call of ack_slot_int() for lines other than the one of the F108.
LEMMA PtSlotStep ==
    ASSUME PrimeTime!CascadeInv, NEW S \in PrimeTime!SlotSets, "F108" \notin S,
           NEW b \in BOOLEAN, pt' = PrimeTime!AckSlotInt(pt, S, b),
           \/ edge' = (edge \/ PrimeTime!Rose(pt'))
           \/ edge' = edge /\ ~b
    PROVE  PrimeTime!CascadeInv'
<1>1. pt \in PrimeTime!Registers /\ PrimeTime!Reported(pt) /\ PrimeTime!Forwarded(pt)
      /\ PrimeTime!Summed(pt)
  BY DEF PrimeTime!CascadeInv, PrimeTime!TypeOK
<1>2. /\ pt' \in PrimeTime!Registers /\ PrimeTime!Reported(pt')
         /\ PrimeTime!Forwarded(pt') /\ PrimeTime!Summed(pt')
      /\ PrimeTime!SameAbove(pt, pt')
      /\ pt'.slot = IF b THEN pt.slot \cup S ELSE pt.slot \ S
      /\ b => "ALL_SLOT" \in pt'.via2
      /\ pt'.slot # {} /\ "ALL_SLOT" \in pt.via2 => "ALL_SLOT" \in pt'.via2
  <2> DEFINE t == PrimeTime!AckSlotInt(pt, S, b)
  <2>1. /\ t \in PrimeTime!Registers /\ PrimeTime!Reported(t) /\ PrimeTime!Forwarded(t)
           /\ PrimeTime!Summed(t)
        /\ PrimeTime!SameAbove(pt, t)
        /\ t.slot = IF b THEN pt.slot \cup S ELSE pt.slot \ S
        /\ b => "ALL_SLOT" \in t.via2
        /\ t.slot # {} /\ "ALL_SLOT" \in pt.via2 => "ALL_SLOT" \in t.via2
    BY <1>1, AckSlotIntStep
  <2>2. pt' = t
    OBVIOUS
  <2> HIDE DEF t
  <2> QED
    BY <2>1, <2>2
<1>3. ("F108" \in pt'.slot) = ("F108" \in pt.slot)
  BY <1>2
<1>4. edge' \in BOOLEAN
  BY DEF PrimeTime!CascadeInv, PrimeTime!TypeOK, PrimeTime!Rose
<1>5. edge' /\ pt'.slot # {} => "ALL_SLOT" \in pt'.via2
  BY <1>2 DEF PrimeTime!CascadeInv, PrimeTime!SlotEdgeKept, PrimeTime!Rose
<1>6. /\ (4 \in pt'.lines) = (pt'.escc # {})
      /\ PrimeTime!Live(pt') = PrimeTime!Live(pt) /\ pt'.f108Irq = pt.f108Irq
  BY <1>2 DEF PrimeTime!CascadeInv, PrimeTime!SameAbove, PrimeTime!Live
<1> QED
  BY <1>2, <1>3, <1>4, <1>5, <1>6 DEF PrimeTime!CascadeInv, PrimeTime!TypeOK,
     PrimeTime!SlotEdgeKept, PrimeTime!Live,
     PrimeTime!Reported, PrimeTime!Forwarded, PrimeTime!Summed, PrimeTime!IntLevel

\* A call of update_via2_irq() after the flags or the enables of VIA2 changed.
LEMMA Via2Step ==
    ASSUME PrimeTime!CascadeInv, NEW s \in PrimeTime!Registers, s.flags = pt.flags,
           s.gates = pt.gates, s.f108Irq = pt.f108Irq, s.slot = pt.slot,
           s.escc = pt.escc, s.via2Irq = pt.via2Irq, s.lines = pt.lines,
           s.acked = pt.acked, s.cpuIrq = pt.cpuIrq,
           pt' = PrimeTime!UpdateVia2Irq(s), edge' \in BOOLEAN,
           edge' /\ s.slot # {} => "ALL_SLOT" \in s.via2
    PROVE  PrimeTime!CascadeInv'
<1>1. PrimeTime!Reported(s) /\ PrimeTime!Forwarded(s)
  BY DEF PrimeTime!CascadeInv, PrimeTime!Reported, PrimeTime!Forwarded, PrimeTime!IntLevel
<1> DEFINE t == PrimeTime!UpdateVia2Irq(s)
<1>2. /\ t \in PrimeTime!Registers /\ PrimeTime!Reported(t) /\ PrimeTime!Forwarded(t)
         /\ PrimeTime!Summed(t)
      /\ PrimeTime!SameAbove(s, t)
      /\ t.slot = s.slot /\ t.via2 = s.via2 /\ t.ier = s.ier
  BY <1>1, UpdateVia2IrqStep
<1>3. pt' = t
  OBVIOUS
<1> HIDE DEF t
<1>4. (4 \in t.lines) = (t.escc # {})
  BY <1>2 DEF PrimeTime!CascadeInv, PrimeTime!SameAbove
<1> QED
  BY <1>2, <1>3, <1>4, PtLowerStep DEF PrimeTime!SameAbove

\* The registers start right.
LEMMA PtCascadeStarts == PrimeTime!Init => PrimeTime!CascadeInv
<1> USE DEF PrimeTime!CascadeInv
<1>1. PrimeTime!Init => PrimeTime!CascadeInv
  <2> SUFFICES ASSUME PrimeTime!Init PROVE PrimeTime!CascadeInv
    OBVIOUS
  <2>1. pt \in PrimeTime!Registers /\ edge \in BOOLEAN /\ PrimeTime!SlotEdgeKept
    BY DEF PrimeTime!Init, PrimeTime!Registers, PrimeTime!SlotEdgeKept
  <2>2. /\ pt.lines = {} /\ pt.acked = 0 /\ pt.via2Irq = FALSE
        /\ pt.via2 = {} /\ pt.flags = {} /\ pt.f108Irq = FALSE
        /\ pt.slot = {} /\ pt.escc = {}
    BY DEF PrimeTime!Init
  <2>3. PrimeTime!Reported(pt)
    BY <2>2 DEF PrimeTime!Reported, PrimeTime!IntLevel
  <2>4. /\ 2 \notin pt.lines /\ 4 \notin pt.lines /\ "F108" \notin pt.slot
        /\ pt.via2 \cap pt.ier = {} /\ PrimeTime!Live(pt) = {}
    BY <2>2 DEF PrimeTime!Live
  <2>5. PrimeTime!Forwarded(pt) /\ PrimeTime!Summed(pt)
    <3>1. (2 \in pt.lines) = FALSE /\ (pt.via2 \cap pt.ier # {}) = FALSE
      BY <2>4
    <3> QED
      BY <2>2, <3>1 DEF PrimeTime!Forwarded, PrimeTime!Summed
  <2>6. /\ pt.f108Irq = (PrimeTime!Live(pt) # {})
        /\ pt.f108Irq = ("F108" \in pt.slot)
        /\ (4 \in pt.lines) = (pt.escc # {})
    <3>1. /\ (PrimeTime!Live(pt) # {}) = FALSE /\ ("F108" \in pt.slot) = FALSE
          /\ (4 \in pt.lines) = FALSE /\ (pt.escc # {}) = FALSE
      BY <2>2, <2>4
    <3> QED
      BY <2>2, <3>1, Zenon
  <2> QED
    BY <2>1, <2>3, <2>5, <2>6 DEF PrimeTime!TypeOK
<1> QED
  BY <1>1

\* Every call keeps every stage right, whichever sources there are.
LEMMA PtCascadeKept ==
    ASSUME PrimeTime!OwnLines, PrimeTime!CascadeInv, [PrimeTime!Next]_(PrimeTime!ptVars)
    PROVE  PrimeTime!CascadeInv'
<1> USE DEF PrimeTime!CascadeInv
<1>2. PrimeTime!CascadeInv /\ UNCHANGED PrimeTime!ptVars => PrimeTime!CascadeInv'
  BY DEF PrimeTime!ptVars, PrimeTime!TypeOK, PrimeTime!SlotEdgeKept, PrimeTime!Reported,
     PrimeTime!Forwarded, PrimeTime!Summed, PrimeTime!Live, PrimeTime!IntLevel
<1>3. ASSUME PrimeTime!CascadeInv, PrimeTime!Next PROVE PrimeTime!CascadeInv'
  <2>1. pt \in PrimeTime!Registers /\ edge \in BOOLEAN
    BY <1>3 DEF PrimeTime!TypeOK
  <2>2. ASSUME NEW f \in F108Src \cup F108Gated, NEW b \in BOOLEAN, PrimeTime!F108Line(f, b)
        PROVE  PrimeTime!CascadeInv'
    <3> DEFINE s == [pt EXCEPT !.flags = IF b THEN @ \cup {f} ELSE @ \ {f}]
    <3>1. /\ s \in PrimeTime!Registers /\ s.slot = pt.slot /\ s.via2 = pt.via2
          /\ s.escc = pt.escc /\ s.lines = pt.lines /\ s.acked = pt.acked
          /\ s.cpuIrq = pt.cpuIrq /\ s.via2Irq = pt.via2Irq
          /\ s.ier = pt.ier /\ s.f108Irq = pt.f108Irq
      BY <2>1 DEF PrimeTime!Registers
    <3>2. pt' = PrimeTime!UpdateF108Irq(s) /\ edge' = (edge \/ PrimeTime!Rose(pt'))
      BY <2>2 DEF PrimeTime!F108Line
    <3> QED
      BY <1>3, <3>1, <3>2, PtUpperStep
  <2>3. ASSUME NEW off \in 0..1, NEW S \in SUBSET (F108Src \cup F108Gated),
               NEW G \in SUBSET F108Gated, PrimeTime!WriteF108(off, S, G)
        PROVE  PrimeTime!CascadeInv'
    <3> DEFINE s == [pt EXCEPT !.flags = @ \ S,
                               !.gates = IF off = 0 THEN @ \ G ELSE G]
    <3>1. /\ s \in PrimeTime!Registers /\ s.slot = pt.slot /\ s.via2 = pt.via2
          /\ s.escc = pt.escc /\ s.lines = pt.lines /\ s.acked = pt.acked
          /\ s.cpuIrq = pt.cpuIrq /\ s.via2Irq = pt.via2Irq
          /\ s.ier = pt.ier /\ s.f108Irq = pt.f108Irq
      BY <2>1 DEF PrimeTime!Registers
    <3>2. pt' = PrimeTime!UpdateF108Irq(s) /\ edge' = (edge \/ PrimeTime!Rose(pt'))
      BY <2>3 DEF PrimeTime!WriteF108
    <3> QED
      BY <1>3, <3>1, <3>2, PtUpperStep
  <2>4. ASSUME NEW s \in PtSlotSrc, NEW b \in BOOLEAN, PrimeTime!SlotLine(s, b)
        PROVE  PrimeTime!CascadeInv'
    <3>1. pt' = PrimeTime!AckSlotInt(pt, {s}, b) /\ edge' = (edge \/ PrimeTime!Rose(pt'))
          /\ b = (s \notin pt.slot)
      BY <2>4 DEF PrimeTime!SlotLine
    <3>2. {s} \in PrimeTime!SlotSets /\ s # "F108"
      BY DEF PrimeTime!Slots, PrimeTime!SlotSets, PrimeTime!OwnLines
    <3> QED
      BY <1>3, <3>1, <3>2, PtSlotStep
  <2>5. ASSUME PrimeTime!WriteSlotIer PROVE PrimeTime!CascadeInv'
    <3>1. pt' = PrimeTime!AckSlotInt(pt, {}, FALSE) /\ edge' = edge
      BY <2>5 DEF PrimeTime!WriteSlotIer
    <3>2. {} \in PrimeTime!SlotSets
      BY DEF PrimeTime!SlotSets
    <3> QED
      BY <1>3, <3>1, <3>2, PtSlotStep
  <2>6. ASSUME NEW f \in PtVia2Src, NEW b \in BOOLEAN, PrimeTime!Via2Line(f, b)
        PROVE  PrimeTime!CascadeInv'
    <3> DEFINE t == PrimeTime!AckVia2Int(pt, f, b)
    <3>1. pt' = t /\ edge' = edge
      BY <2>6 DEF PrimeTime!Via2Line
    <3>2. f \in PrimeTime!Via2Flags /\ f # "ALL_SLOT"
      BY DEF PrimeTime!Via2Flags, PrimeTime!OwnLines
    <3>3. PrimeTime!Reported(pt) /\ PrimeTime!Forwarded(pt)
      BY <1>3
    <3>4. /\ t \in PrimeTime!Registers /\ PrimeTime!Reported(t)
             /\ PrimeTime!Forwarded(t) /\ PrimeTime!Summed(t)
          /\ PrimeTime!SameAbove(pt, t) /\ t.slot = pt.slot
          /\ t.via2 = IF b THEN pt.via2 \cup {f} ELSE pt.via2 \ {f}
      BY <2>1, <3>2, <3>3, AckVia2IntStep
    <3> HIDE DEF t
    <3>5. "ALL_SLOT" \in pt.via2 => "ALL_SLOT" \in t.via2
      BY <3>2, <3>4
    <3>6. (4 \in t.lines) = (t.escc # {})
      BY <1>3, <3>4 DEF PrimeTime!SameAbove
    <3>7. edge' /\ pt'.slot # {} => "ALL_SLOT" \in pt'.via2
      BY <1>3, <3>1, <3>4, <3>5 DEF PrimeTime!SlotEdgeKept
    <3> QED
      BY <1>3, <2>1, <3>1, <3>4, <3>6, <3>7, PtLowerStep DEF PrimeTime!SameAbove
  <2>7. ASSUME NEW c \in {"A", "B"}, NEW b \in BOOLEAN, PrimeTime!EsccLine(c, b)
        PROVE  PrimeTime!CascadeInv'
    <3> DEFINE s == [pt EXCEPT !.escc = IF b THEN @ \cup {c} ELSE @ \ {c}]
               on == s.escc # {}
               t == PrimeTime!AckCpuInt(s, 4, on)
    <3>1. pt' = t /\ edge' = edge
      BY <2>7 DEF PrimeTime!EsccLine
    <3>2. /\ s \in PrimeTime!Registers /\ s.flags = pt.flags /\ s.gates = pt.gates
          /\ s.f108Irq = pt.f108Irq /\ s.slot = pt.slot /\ s.via2 = pt.via2
          /\ s.ier = pt.ier /\ s.via2Irq = pt.via2Irq /\ s.lines = pt.lines
      BY <2>1 DEF PrimeTime!Registers
    <3>3. 4 \in PrimeTime!Levels /\ on \in BOOLEAN
      BY DEF PrimeTime!Levels
    <3> HIDE DEF s
    <3>4. /\ t \in PrimeTime!Registers /\ PrimeTime!Reported(t)
          /\ t.lines = IF on THEN s.lines \cup {4} ELSE s.lines \ {4}
          /\ t.flags = s.flags /\ t.gates = s.gates
          /\ t.f108Irq = s.f108Irq /\ t.escc = s.escc
          /\ t.slot = s.slot /\ t.via2 = s.via2 /\ t.ier = s.ier
          /\ t.via2Irq = s.via2Irq
      BY <3>2, <3>3, AckCpuIntStep, ZenonT(60)
    <3> HIDE DEF t
    <3>5. (4 \in t.lines) = (t.escc # {})
      BY <3>4
    <3>6. (2 \in t.lines) = (2 \in pt.lines)
      BY <3>2, <3>4
    <3>7. PrimeTime!Forwarded(t) /\ PrimeTime!Summed(t)
      BY <1>3, <3>2, <3>4, <3>6 DEF PrimeTime!Forwarded, PrimeTime!Summed
    <3>8. edge' /\ pt'.slot # {} => "ALL_SLOT" \in pt'.via2
      BY <1>3, <3>1, <3>2, <3>4 DEF PrimeTime!SlotEdgeKept
    <3> QED
      BY <1>3, <2>1, <3>1, <3>2, <3>4, <3>5, <3>7, <3>8, PtLowerStep
  <2>8. ASSUME NEW l \in {1, 7}, NEW b \in BOOLEAN, PrimeTime!CpuLine(l, b)
        PROVE  PrimeTime!CascadeInv'
    <3> DEFINE t == PrimeTime!AckCpuInt(pt, l, b)
    <3>1. pt' = t /\ edge' = edge
      BY <2>8 DEF PrimeTime!CpuLine
    <3>2. l \in PrimeTime!Levels /\ l # 2 /\ l # 4
      BY DEF PrimeTime!Levels
    <3>3. /\ t \in PrimeTime!Registers /\ PrimeTime!Reported(t)
          /\ t.lines = IF b THEN pt.lines \cup {l} ELSE pt.lines \ {l}
          /\ t.flags = pt.flags /\ t.gates = pt.gates
          /\ t.f108Irq = pt.f108Irq /\ t.escc = pt.escc
          /\ t.slot = pt.slot /\ t.via2 = pt.via2 /\ t.ier = pt.ier
          /\ t.via2Irq = pt.via2Irq
      <4>1. pt \in PrimeTime!Registers /\ l \in PrimeTime!Levels /\ b \in BOOLEAN
        BY <2>1, <3>2
      <4> QED
        BY ONLY <4>1, AckCpuIntStep, ZenonT(60)
    <3> HIDE DEF t
    <3>4. (2 \in t.lines) = (2 \in pt.lines) /\ (4 \in t.lines) = (4 \in pt.lines)
      BY <3>2, <3>3
    <3>5. PrimeTime!Forwarded(t) /\ PrimeTime!Summed(t)
      BY <1>3, <3>3, <3>4 DEF PrimeTime!Forwarded, PrimeTime!Summed
    <3>6. (4 \in t.lines) = (t.escc # {})
      BY <1>3, <3>3, <3>4
    <3>7. edge' /\ pt'.slot # {} => "ALL_SLOT" \in pt'.via2
      BY <1>3, <3>1, <3>3 DEF PrimeTime!SlotEdgeKept
    <3> QED
      BY <1>3, <2>1, <3>1, <3>3, <3>5, <3>6, <3>7, PtLowerStep
  <2>9. ASSUME NEW b \in BOOLEAN, NEW S \in SUBSET PrimeTime!Via2Flags,
               PrimeTime!WriteVia2Ier(b, S)
        PROVE  PrimeTime!CascadeInv'
    <3> DEFINE s == [pt EXCEPT !.ier = IF b THEN @ \cup S ELSE @ \ S]
    <3>1. /\ s \in PrimeTime!Registers /\ s.flags = pt.flags /\ s.gates = pt.gates
          /\ s.f108Irq = pt.f108Irq /\ s.slot = pt.slot /\ s.escc = pt.escc
          /\ s.via2Irq = pt.via2Irq /\ s.lines = pt.lines
          /\ s.acked = pt.acked /\ s.cpuIrq = pt.cpuIrq
      BY <2>1 DEF PrimeTime!Registers
    <3>2. pt' = PrimeTime!UpdateVia2Irq(s) /\ edge' = edge /\ s.via2 = pt.via2
      BY <2>1, <2>9 DEF PrimeTime!WriteVia2Ier, PrimeTime!Registers
    <3> HIDE DEF s
    <3>3. edge' \in BOOLEAN /\ (edge' /\ s.slot # {} => "ALL_SLOT" \in s.via2)
      BY <1>3, <2>1, <3>1, <3>2 DEF PrimeTime!SlotEdgeKept
    <3> QED
      BY <1>3, <3>1, <3>2, <3>3, Via2Step
  <2>10. ASSUME NEW S \in SUBSET PrimeTime!Via2Flags, PrimeTime!WriteVia2Ifr(S)
         PROVE  PrimeTime!CascadeInv'
    <3> DEFINE s == [pt EXCEPT !.via2 = @ \ S]
    <3>1. /\ s \in PrimeTime!Registers /\ s.flags = pt.flags /\ s.gates = pt.gates
          /\ s.f108Irq = pt.f108Irq /\ s.slot = pt.slot /\ s.escc = pt.escc
          /\ s.via2Irq = pt.via2Irq /\ s.lines = pt.lines
          /\ s.acked = pt.acked /\ s.cpuIrq = pt.cpuIrq
      BY <2>1 DEF PrimeTime!Registers
    <3>2. /\ pt' = PrimeTime!UpdateVia2Irq(s) /\ edge' = (edge /\ "ALL_SLOT" \notin S)
          /\ s.via2 = pt.via2 \ S
      BY <2>1, <2>10 DEF PrimeTime!WriteVia2Ifr, PrimeTime!Registers
    <3> HIDE DEF s
    <3>3. edge' \in BOOLEAN /\ (edge' /\ s.slot # {} => "ALL_SLOT" \in s.via2)
      BY <1>3, <2>1, <3>1, <3>2 DEF PrimeTime!SlotEdgeKept
    <3> QED
      BY <1>3, <3>1, <3>2, <3>3, Via2Step
  <2>11. ASSUME PrimeTime!ReadLevel \/ PrimeTime!ClearCpuInt PROVE PrimeTime!CascadeInv'
    <3>1. /\ pt' \in PrimeTime!Registers /\ edge' = edge /\ pt'.lines = pt.lines
          /\ pt'.flags = pt.flags /\ pt'.gates = pt.gates
          /\ pt'.f108Irq = pt.f108Irq /\ pt'.escc = pt.escc
          /\ pt'.slot = pt.slot /\ pt'.via2 = pt.via2 /\ pt'.ier = pt.ier
          /\ pt'.via2Irq = pt.via2Irq
      <4>1. PrimeTime!IntLevel(pt) \in PrimeTime!Levels \cup {0}
        BY <2>1, IntLevelIsPending DEF PrimeTime!Registers
      <4>2. CASE PrimeTime!ReadLevel
        BY <2>1, <4>2 DEF PrimeTime!ReadLevel, PrimeTime!Registers
      <4>3. CASE PrimeTime!ClearCpuInt
        BY <2>1, <4>1, <4>3 DEF PrimeTime!ClearCpuInt, PrimeTime!Registers
      <4> QED
        BY <2>11, <4>2, <4>3
    <3>2. PrimeTime!IntLevel(pt') = PrimeTime!IntLevel(pt)
      BY <3>1 DEF PrimeTime!IntLevel
    <3>3. PrimeTime!Reported(pt')
      <4>1. CASE PrimeTime!ReadLevel
        <5>1. pt'.acked = pt.acked /\ pt'.cpuIrq = pt.cpuIrq
          BY <2>1, <4>1 DEF PrimeTime!ReadLevel, PrimeTime!Registers
        <5> QED
          BY <1>3, <3>2, <5>1 DEF PrimeTime!Reported
      <4>2. CASE PrimeTime!ClearCpuInt
        <5>1. pt'.acked = PrimeTime!IntLevel(pt)
          BY <2>1, <4>2 DEF PrimeTime!ClearCpuInt, PrimeTime!Registers
        <5> QED
          BY <3>2, <5>1 DEF PrimeTime!Reported
      <4> QED
        BY <2>11, <4>1, <4>2
    <3>4. PrimeTime!Forwarded(pt') /\ PrimeTime!Summed(pt')
          /\ (4 \in pt'.lines) = (pt'.escc # {})
      BY <1>3, <3>1 DEF PrimeTime!Forwarded, PrimeTime!Summed
    <3>5. edge' /\ pt'.slot # {} => "ALL_SLOT" \in pt'.via2
      BY <1>3, <3>1 DEF PrimeTime!SlotEdgeKept
    <3> QED
      BY <1>3, <2>1, <3>1, <3>3, <3>4, <3>5, PtLowerStep
  <2> QED
    BY <1>3, <2>2, <2>3, <2>4, <2>5, <2>6, <2>7, <2>8, <2>9, <2>10, <2>11 DEF PrimeTime!Next
<1> QED
  BY <1>2, <1>3

\* Whatever the devices and the guest do, the processor is asked for as long
\* as the pending level is not the acknowledged one (ack_cpu_int(),
\* clear_cpu_int()), every stage agrees with the one it summarises, and the
\* summary flag of the slots shows every line that rose since it was dismissed.
THEOREM PrimeTimeLosesNoInterrupt ==
    PrimeTime!Spec =>
        [](PrimeTime!LevelReported /\ PrimeTime!CascadeAgrees /\ PrimeTime!SlotEdgeKept)
<1>1. PrimeTime!CascadeInv =>
          PrimeTime!LevelReported /\ PrimeTime!CascadeAgrees /\ PrimeTime!SlotEdgeKept
  BY DEF PrimeTime!CascadeInv, PrimeTime!LevelReported, PrimeTime!Reported,
         PrimeTime!CascadeAgrees, PrimeTime!Forwarded, PrimeTime!Summed, PrimeTime!Live
<1>2. PrimeTime!CascadeInv /\ [PrimeTime!Next]_(PrimeTime!ptVars) => PrimeTime!CascadeInv'
  BY SourcesApart, PtCascadeKept
<1> QED
  BY <1>1, <1>2, PtCascadeStarts, PTL DEF PrimeTime!Spec

-----------------------------------------------------------------------------
(***************************************************************************)
(* The controllers side by side, as the model checker runs them: the one   *)
(* in focus moves and the others stand still, so each keeps the invariant  *)
(* of its own proof.                                                       *)
(***************************************************************************)

ControllersInv ==
    KeptInv /\ PrimeTime!CascadeInv /\ Amic!CascadeInv /\ Amic!DmaInv

\* A step of one controller is a step or a stutter of each.
LEMMA ControllersKept ==
    ASSUME ControllersInv, [MCNext]_vars
    PROVE  ControllersInv'
  <1>1. /\ [Next]_macioVars
        /\ [PrimeTime!Next]_(PrimeTime!ptVars)
        /\ [Amic!Next]_(Amic!amicVars)
        /\ [Amic!DmaNext]_(Amic!dmaVars)
    <2>1. CASE UNCHANGED vars
      BY <2>1 DEF vars, iovarsAll, ptvars, amicvars, dmavars, PrimeTime!ptVars,
                  Amic!amicVars, Amic!dmaVars
    <2>2. CASE MCNext
      BY <2>2 DEF MCNext, iovarsAll, ptvars, amicvars, dmavars, PrimeTime!ptVars,
                  Amic!amicVars, Amic!dmaVars
    <2> QED
      BY <2>1, <2>2
  <1>2. KeptInv'
    BY <1>1, SourcesApart, KeptStep DEF ControllersInv
  <1>3. PrimeTime!CascadeInv'
    BY <1>1, SourcesApart, PtCascadeKept DEF ControllersInv
  <1>4. Amic!CascadeInv'
    BY <1>1, SourcesApart, Amic!CascadeKept DEF ControllersInv
  <1>5. Amic!DmaInv'
    BY <1>1, SourcesApart, Amic!DmaKept DEF ControllersInv
  <1> QED
    BY <1>2, <1>3, <1>4, <1>5 DEF ControllersInv

\* The controllers start with the invariants of their own proofs.
LEMMA ControllersStart == MCInit => ControllersInv
  <1> SUFFICES ASSUME MCInit PROVE ControllersInv
    OBVIOUS
  <1>1. Init /\ PrimeTime!Init /\ Amic!Init /\ Amic!DmaInit
    BY DEF MCInit
  <1> QED
    BY <1>1, SourcesApart, KeptStarts, PtCascadeStarts, Amic!CascadeStarts,
       Amic!DmaStarts DEF ControllersInv

\* No request is lost in any of the interrupt controllers: in the Mac I/O chips
\* (ack_int_common(), clear_cpu_int()) it stays pending until the guest clears
\* it, and every stage of the cascades of PrimeTime and AMIC shows the one below.
THEOREM ControllersKeepRequests == MCSpec => []RequestsKept
  <1>1. ControllersInv /\ [MCNext]_vars => ControllersInv'
    BY ControllersKept
  <1>2. ControllersInv => RequestsKept
    <2> SUFFICES ASSUME ControllersInv PROVE RequestsKept
      OBVIOUS
    <2>1. TypeOK /\ NoneLost /\ LevelsFollow
      BY DEF ControllersInv, KeptInv, LineInv
    <2>2. /\ PrimeTime!TypeOK /\ PrimeTime!LevelReported
          /\ PrimeTime!CascadeAgrees /\ PrimeTime!SlotEdgeKept
      BY DEF ControllersInv, PrimeTime!CascadeInv, PrimeTime!LevelReported,
             PrimeTime!Reported, PrimeTime!CascadeAgrees, PrimeTime!Forwarded,
             PrimeTime!Summed, PrimeTime!Live
    <2>3. /\ Amic!TypeOK /\ Amic!CascadeAgrees
          /\ Amic!NativePinFollows /\ Amic!ChangeSignalled
      BY DEF ControllersInv, Amic!CascadeInv, Amic!NativePinFollows, Amic!PinShown,
             Amic!CascadeAgrees, Amic!Via2Forwarded, Amic!Via2Summed,
             Amic!DmaForwarded, Amic!DmaSummed
    <2> QED
      BY <2>1, <2>2, <2>3 DEF RequestsKept
  <1> QED
    BY ControllersStart, <1>1, <1>2, PTL DEF MCSpec

\* The DMA channels of AMIC (push_data(), xfer_retry(), enet_receive(),
\* enet_transmit(), the sound channel's update_irq()) move what the guest asked
\* for, once, into room that is free, and show the interrupts that are enabled.
THEOREM ControllersMoveData == MCSpec => []DmaExact
  <1>1. ControllersInv /\ [MCNext]_vars => ControllersInv'
    BY ControllersKept
  <1>2. ControllersInv => DmaExact
    BY SourcesApart, Amic!DmaPromises DEF ControllersInv, DmaExact
  <1> QED
    BY ControllersStart, <1>1, <1>2, PTL DEF MCSpec

-----------------------------------------------------------------------------
(* The display controllers. A controller is a record of some twenty fields,  *)
(* so each function is described by the fields that it changes; all that is  *)
(* known of a record is that it has its fields.                              *)

BaseFields == {"kind", "dynamic", "refresh", "vblEnd", "blank", "crtc", "drawFb",
               "shown", "cursorOn", "dirty", "line", "twice", "orphan"}

ChangesOnly(s, t, fields) ==
    /\ DOMAIN t = DOMAIN s
    /\ \A f \in DOMAIN s : f \notin fields => t[f] = s[f]

LEMMA FieldsAre ==
    /\ Video!VideoFields = BaseFields
    /\ DOMAIN Video!NewControl =
          BaseFields \cup {"status", "enable", "clr", "dis", "reset", "strobe",
                           "enabled", "unblank", "params", "applied"}
    /\ DOMAIN Video!NewPlatinum =
          BaseFields \cup {"stat", "mask", "cursor", "vidEnable", "fbReset",
                           "step", "params", "applied"}
    /\ DOMAIN Video!NewValkyrie =
          BaseFields \cup {"latch", "enable", "off", "mode", "depth", "timer",
                           "late", "applied"}
    /\ DOMAIN Video!NewPdm =
          BaseFields \cup {"blanking", "mode", "deep", "vbase", "loc"}
    /\ DOMAIN Video!NewTaos = BaseFields \cup {"vsync", "out", "color"}
    /\ DOMAIN Video!NewSixty6 =
          BaseFields \cup {"enable", "changed", "format", "params", "vbl", "applied"}
    /\ DOMAIN Video!NewMach64("gx") =
          BaseFields \cup {"en", "int", "vblank", "enable", "dis", "place", "fmt",
                           "applied", "curEnable"}
  <1> USE DEF Video!NewVideo, Video!Derived, BaseFields
  <1>1. Video!VideoFields = BaseFields
    BY DEF Video!VideoFields
  <1>2. DOMAIN Video!NewControl =
          BaseFields \cup {"status", "enable", "clr", "dis", "reset", "strobe",
                           "enabled", "unblank", "params", "applied"}
    BY DEF Video!NewControl
  <1>3. DOMAIN Video!NewPlatinum =
          BaseFields \cup {"stat", "mask", "cursor", "vidEnable", "fbReset",
                           "step", "params", "applied"}
    BY DEF Video!NewPlatinum
  <1>4. DOMAIN Video!NewValkyrie =
          BaseFields \cup {"latch", "enable", "off", "mode", "depth", "timer",
                           "late", "applied"}
    BY DEF Video!NewValkyrie
  <1>5. DOMAIN Video!NewPdm =
          BaseFields \cup {"blanking", "mode", "deep", "vbase", "loc"}
    BY DEF Video!NewPdm
  <1>6. DOMAIN Video!NewTaos = BaseFields \cup {"vsync", "out", "color"}
    BY DEF Video!NewTaos
  <1>7. DOMAIN Video!NewSixty6 =
          BaseFields \cup {"enable", "changed", "format", "params", "vbl", "applied"}
    BY DEF Video!NewSixty6
  <1>8. DOMAIN Video!NewMach64("gx") =
          BaseFields \cup {"en", "int", "vblank", "enable", "dis", "place", "fmt",
                           "applied", "curEnable"}
    BY DEF Video!NewMach64
  <1> QED
    BY <1>1, <1>2, <1>3, <1>4, <1>5, <1>6, <1>7, <1>8

LEMMA OnboardStarts == Video!Init => Video!OnboardInv
  <1> SUFFICES ASSUME Video!Init
               PROVE  Video!OnboardInv
    OBVIOUS
  <1> USE DEF Video!NewVideo, Video!Derived, Video!OnboardInv, Video!VideoInv,
              Video!VideoFields, Video!OneRefreshTimer, Video!NothingUndrawn,
              Video!LineFalls
  <1>1. CASE video = Video!NewControl
    BY <1>1 DEF Video!NewControl, Video!ControlInv
  <1>2. CASE video = Video!NewPlatinum
    BY <1>2 DEF Video!NewPlatinum, Video!PlatinumInv
  <1>3. CASE video = Video!NewValkyrie
    BY <1>3 DEF Video!NewValkyrie, Video!ValkyrieInv
  <1>4. CASE video = Video!NewPdm
    BY <1>4 DEF Video!NewPdm, Video!PdmInv
  <1>5. CASE video = Video!NewTaos
    BY <1>5 DEF Video!NewTaos, Video!TaosInv
  <1>6. CASE video = Video!NewSixty6
    BY <1>6 DEF Video!NewSixty6, Video!Sixty6Inv
  <1> QED
    BY <1>1, <1>2, <1>3, <1>4, <1>5, <1>6 DEF Video!Init

LEMMA Mach64Starts == Video!MachInit => Video!Mach64Inv
  <1> SUFFICES ASSUME NEW kind, video = Video!NewMach64(kind)
               PROVE  Video!Mach64Inv
    BY DEF Video!MachInit
  <1>1. BaseFields \cup {"en", "int", "vblank", "enable", "dis", "place", "fmt",
                         "applied", "curEnable"} \subseteq DOMAIN video
    BY DEF Video!NewVideo, Video!Derived, Video!NewMach64, BaseFields
  <1>2. /\ ~video.twice /\ video.shown = "blank" /\ ~video.crtc /\ video.drawFb
        /\ video.en = {} /\ ~video.line /\ ~video.vblEnd /\ video.blank = TRUE
    BY DEF Video!NewVideo, Video!Derived, Video!NewMach64
  <1>3. /\ video.dis = TRUE /\ video.enable = FALSE /\ video.curEnable = FALSE
    BY DEF Video!NewVideo, Video!Derived, Video!NewMach64
  <1> QED
    BY <1>1, <1>2, <1>3, FieldsAre
       DEF Video!Mach64Inv, Video!VideoInv, Video!OneRefreshTimer, Video!NothingUndrawn,
           Video!LineIsPending, Video!BlankingShown

(* What every controller inherits.                                           *)

LEMMA AckIs ==
    ASSUME NEW s, BaseFields \subseteq DOMAIN s, NEW level
    PROVE  LET t == Video!AckInt(s, level)
           IN  ChangesOnly(s, t, {"line", "orphan"}) /\ t.line = level /\ ~t.orphan
  BY DEF Video!AckInt, ChangesOnly, BaseFields

LEMMA RaisedIs ==
    ASSUME NEW s, BaseFields \subseteq DOMAIN s
    PROVE  LET t == Video!AckInt(s, TRUE)
           IN  ChangesOnly(s, t, {"line", "orphan"}) /\ t.line /\ ~t.orphan
  BY DEF Video!AckInt, ChangesOnly, BaseFields

LEMMA LoweredIs ==
    ASSUME NEW s, BaseFields \subseteq DOMAIN s
    PROVE  LET t == Video!AckInt(s, FALSE)
           IN  ChangesOnly(s, t, {"line", "orphan"}) /\ ~t.line
  BY DEF Video!AckInt, ChangesOnly, BaseFields

LEMMA BlankIs ==
    ASSUME NEW s, BaseFields \subseteq DOMAIN s
    PROVE  LET t == Video!BlankDisplay(s)
           IN  ChangesOnly(s, t, {"shown"}) /\ t.shown = "blank"
  BY DEF Video!BlankDisplay, ChangesOnly, BaseFields

LEMMA OutdatedIs ==
    ASSUME NEW s, BaseFields \subseteq DOMAIN s
    PROVE  ChangesOnly(s, Video!Outdated(s), {"shown"})
  BY DEF Video!Outdated, ChangesOnly, BaseFields

LEMMA DrawIs ==
    ASSUME NEW s, BaseFields \subseteq DOMAIN s
    PROVE  LET t == Video!SetDrawFb(s)
           IN  ChangesOnly(s, t, {"shown", "drawFb"}) /\ t.drawFb
  <1> DEFINE o == Video!Outdated(s)
  <1>1. ChangesOnly(s, o, {"shown"})
    BY OutdatedIs
  <1>2. Video!SetDrawFb(s) = [o EXCEPT !.drawFb = TRUE]
    BY DEF Video!SetDrawFb
  <1> HIDE DEF o
  <1> QED
    BY <1>1, <1>2 DEF ChangesOnly, BaseFields

LEMMA StopIs ==
    ASSUME NEW s, BaseFields \subseteq DOMAIN s
    PROVE  LET t == Video!StopRefreshTask(s)
           IN  /\ ChangesOnly(s, t, {"refresh", "vblEnd", "orphan"})
               /\ ~t.refresh /\ ~t.vblEnd
               /\ t.orphan <=> s.orphan \/ (s.vblEnd /\ s.line)
  BY DEF Video!StopRefreshTask, ChangesOnly, BaseFields

\* A timer that is added right after it was cancelled is never added twice.
LEMMA RestartIs ==
    ASSUME NEW s, BaseFields \subseteq DOMAIN s
    PROVE  LET t == Video!StartRefreshTask(Video!StopRefreshTask(s))
           IN  /\ ChangesOnly(s, t, {"refresh", "vblEnd", "orphan", "shown", "twice"})
               /\ t.refresh /\ ~t.vblEnd
               /\ t.twice <=> s.twice
               /\ t.orphan <=> s.orphan \/ (s.vblEnd /\ s.line)
  <1> DEFINE a == Video!StopRefreshTask(s)
             o == Video!Outdated(a)
  <1>1. /\ ChangesOnly(s, a, {"refresh", "vblEnd", "orphan"})
        /\ ~a.refresh /\ ~a.vblEnd
        /\ a.orphan <=> s.orphan \/ (s.vblEnd /\ s.line)
    BY StopIs
  <1> HIDE DEF a
  <1>2. ChangesOnly(a, o, {"shown"})
    BY <1>1, OutdatedIs DEF ChangesOnly
  <1>3. Video!StartRefreshTask(a) = [o EXCEPT !.refresh = TRUE, !.twice = @ \/ a.refresh]
    BY DEF Video!StartRefreshTask
  <1> HIDE DEF o
  <1> QED
    BY <1>1, <1>2, <1>3 DEF ChangesOnly, BaseFields, a

LEMMA OffIs ==
    ASSUME NEW s, BaseFields \subseteq DOMAIN s
    PROVE  LET t == Video!DisableVideoInternal(s)
           IN  /\ ChangesOnly(s, t, {"refresh", "vblEnd", "orphan", "shown", "blank", "crtc"})
               /\ ~t.vblEnd /\ ~t.crtc /\ t.shown = "blank"
               /\ t.orphan <=> s.orphan \/ (s.vblEnd /\ s.line)
  <1> DEFINE a == Video!StopRefreshTask(s)
             b == [a EXCEPT !.blank = TRUE, !.crtc = FALSE]
  <1>1. /\ ChangesOnly(s, a, {"refresh", "vblEnd", "orphan"})
        /\ ~a.refresh /\ ~a.vblEnd
        /\ a.orphan <=> s.orphan \/ (s.vblEnd /\ s.line)
    BY StopIs
  <1> HIDE DEF a
  <1>2. ChangesOnly(a, b, {"blank", "crtc"}) /\ ~b.crtc
    BY <1>1 DEF ChangesOnly, BaseFields
  <1> HIDE DEF b
  <1>3. LET t == Video!BlankDisplay(b)
        IN  ChangesOnly(b, t, {"shown"}) /\ t.shown = "blank"
    BY <1>1, <1>2, BlankIs DEF ChangesOnly
  <1>4. Video!DisableVideoInternal(s) = Video!BlankDisplay(b)
    BY DEF Video!DisableVideoInternal, a, b
  <1> QED
    BY <1>1, <1>2, <1>3, <1>4 DEF ChangesOnly, BaseFields

\* refresh_task() leaves nothing undrawn.
LEMMA RefreshIs ==
    ASSUME NEW s, Video!VideoInv(s)
    PROVE  LET t == Video!RefreshTimeout(s)
           IN  /\ ChangesOnly(s, t, {"vblEnd", "shown", "cursorOn", "dirty", "drawFb"})
               /\ t.vblEnd /\ Video!VideoInv(t)
               /\ s.cursorOn => t.cursorOn
  <1> USE FieldsAre DEF Video!VideoInv, Video!OneRefreshTimer, Video!NothingUndrawn
  <1> DEFINE a == [s EXCEPT !.vblEnd = TRUE]
             c == IF a.dirty THEN Video!SetupHwCursor(a) ELSE a
             d == [c EXCEPT !.shown = "current", !.drawFb = ~a.dynamic]
  <1>1. ChangesOnly(s, a, {"vblEnd"}) /\ a.vblEnd
    BY DEF ChangesOnly, BaseFields
  <1>2. ChangesOnly(a, c, {"cursorOn", "dirty"}) /\ (a.cursorOn => c.cursorOn)
    BY DEF Video!SetupHwCursor, ChangesOnly, BaseFields
  <1> HIDE DEF c
  <1>3. /\ ChangesOnly(c, d, {"shown", "drawFb"}) /\ d.shown = "current"
        /\ ~c.dynamic => d.drawFb
    BY <1>1, <1>2 DEF ChangesOnly, BaseFields
  <1>4. Video!RefreshTimeout(s) = IF a.blank THEN Video!BlankDisplay(a)
                                  ELSE IF ~a.drawFb THEN a ELSE d
    BY DEF Video!RefreshTimeout, Video!UpdateScreen, c
  <1> HIDE DEF a, d
  <1>5. ChangesOnly(a, Video!BlankDisplay(a), {"shown"}) /\ Video!BlankDisplay(a).shown = "blank"
    BY <1>1, BlankIs DEF ChangesOnly
  <1> QED
    BY <1>1, <1>2, <1>3, <1>4, <1>5 DEF ChangesOnly, BaseFields

LEMMA VblEndIs ==
    ASSUME NEW s, BaseFields \subseteq DOMAIN s
    PROVE  LET t == Video!VblEndTimeout(s)
           IN  ChangesOnly(s, t, {"vblEnd"}) /\ ~t.vblEnd
  BY DEF Video!VblEndTimeout, ChangesOnly, BaseFields

\* What a vbl_cb changes is of no concern to the drawing.
LEMMA CallbackIs ==
    ASSUME NEW s, Video!VideoInv(s), NEW t, NEW fields, ChangesOnly(s, t, fields),
           fields \cap {"twice", "shown", "drawFb", "crtc", "refresh", "dynamic"} = {}
    PROVE  Video!VideoInv(t)
  BY FieldsAre DEF Video!VideoInv, Video!OneRefreshTimer, Video!NothingUndrawn,
                   ChangesOnly, BaseFields

(* Taos.                                                                     *)

LEMMA TaosStep ==
    ASSUME Video!VideoInv(video), video.kind = "taos", Video!TaosInv, Video!TaosNext
    PROVE  Video!OnboardInv'
  <1> USE FieldsAre DEF Video!TaosInv
  <1>0. BaseFields \cup {"vsync", "out", "color"} \subseteq DOMAIN video
    OBVIOUS
  <1> SUFFICES Video!VideoInv(video') /\ video'.kind = "taos" /\ Video!TaosInv'
    BY DEF Video!OnboardInv
  <1>1. CASE video.refresh /\ video' = Video!RefreshTimeout(Video!TaosVblCb(video, TRUE))
    <2> DEFINE a == Video!TaosVblCb(video, TRUE)
    <2>1. ChangesOnly(video, a, {"vsync"})
      BY <1>0 DEF Video!TaosVblCb, ChangesOnly
    <2> HIDE DEF a
    <2>2. Video!VideoInv(a)
      BY <2>1, CallbackIs
    <2>3. /\ ChangesOnly(a, video', {"vblEnd", "shown", "cursorOn", "dirty", "drawFb"})
          /\ video'.vblEnd /\ Video!VideoInv(video')
      BY <1>1, <2>2, RefreshIs DEF a
    <2> QED
      BY <1>0, <2>1, <2>3 DEF ChangesOnly, BaseFields
  <1>2. CASE video.vblEnd /\ video' = Video!TaosVblCb(Video!VblEndTimeout(video), FALSE)
    <2> DEFINE a == Video!VblEndTimeout(video)
    <2>1. ChangesOnly(video, a, {"vblEnd"}) /\ ~a.vblEnd
      BY <1>0, VblEndIs
    <2> HIDE DEF a
    <2>2. ChangesOnly(a, video', {"vsync"})
      BY <1>0, <1>2, <2>1 DEF Video!TaosVblCb, ChangesOnly, a
    <2>3. ChangesOnly(video, video', {"vblEnd", "vsync"})
      BY <2>1, <2>2 DEF ChangesOnly
    <2>4. Video!VideoInv(video')
      BY <2>3, CallbackIs
    <2> QED
      BY <1>0, <2>3, <2>4 DEF ChangesOnly, BaseFields
  <1> USE DEF Video!VideoInv, Video!OneRefreshTimer, Video!NothingUndrawn
  <1>E. ASSUME NEW s, BaseFields \subseteq DOMAIN s
        PROVE  LET t == Video!TaosEnableDisplay(s)
               IN  /\ ChangesOnly(s, t, {"refresh", "vblEnd", "orphan", "shown", "twice",
                                         "blank", "crtc"})
                   /\ t.refresh /\ (t.twice <=> s.twice)
    <2> DEFINE a == Video!StartRefreshTask(Video!StopRefreshTask(s))
    <2>1. /\ ChangesOnly(s, a, {"refresh", "vblEnd", "orphan", "shown", "twice"})
          /\ a.refresh /\ (a.twice <=> s.twice)
      BY <1>E, RestartIs
    <2>2. Video!TaosEnableDisplay(s) = [a EXCEPT !.blank = FALSE, !.crtc = TRUE]
      BY DEF Video!TaosEnableDisplay
    <2> HIDE DEF a
    <2> QED
      BY <1>E, <2>1, <2>2 DEF ChangesOnly, BaseFields
  <1>3. ASSUME NEW c \in 0 .. 1, Video!ColorMode(c)
        PROVE  Video!VideoInv(video') /\ video'.kind = "taos" /\ Video!TaosInv'
    <2> DEFINE a == [video EXCEPT !.color = c]
    <2>1. ChangesOnly(video, a, {"color"})
      BY <1>0 DEF ChangesOnly
    <2>2. video' = video \/ video' = Video!TaosEnableDisplay(a)
      BY <1>3 DEF Video!ColorMode
    <2> HIDE DEF a
    <2>3. LET t == Video!TaosEnableDisplay(a)
          IN  /\ ChangesOnly(a, t, {"refresh", "vblEnd", "orphan", "shown", "twice",
                                    "blank", "crtc"})
              /\ t.refresh /\ (t.twice <=> a.twice)
      BY <1>0, <1>E, <2>1 DEF ChangesOnly
    <2>4. CASE video' = Video!TaosEnableDisplay(a)
      BY <1>0, <2>1, <2>3, <2>4 DEF ChangesOnly, BaseFields
    <2> QED
      BY <2>2, <2>4
  <1>4. ASSUME NEW out \in BOOLEAN, Video!CrtCtrl(out)
        PROVE  Video!VideoInv(video') /\ video'.kind = "taos" /\ Video!TaosInv'
    <2> DEFINE a == IF out = video.out THEN video
                    ELSE IF out THEN Video!TaosEnableDisplay(video)
                    ELSE Video!DisableVideoInternal(video)
    <2>1. LET t == Video!TaosEnableDisplay(video)
          IN  /\ ChangesOnly(video, t, {"refresh", "vblEnd", "orphan", "shown", "twice",
                                        "blank", "crtc"})
              /\ t.refresh /\ (t.twice <=> video.twice)
      BY <1>0, <1>E
    <2>2. LET t == Video!DisableVideoInternal(video)
          IN  /\ ChangesOnly(video, t, {"refresh", "vblEnd", "orphan", "shown", "blank", "crtc"})
              /\ ~t.crtc
      BY <1>0, OffIs
    <2>3. /\ ChangesOnly(video, a, {"refresh", "vblEnd", "orphan", "shown", "twice",
                                    "blank", "crtc"})
          /\ (a.crtc => a.refresh) /\ ~a.twice
      BY <1>0, <2>1, <2>2 DEF ChangesOnly, BaseFields
    <2>4. video' = [a EXCEPT !.out = out]
      BY <1>4 DEF Video!CrtCtrl
    <2> HIDE DEF a
    <2> QED
      BY <1>0, <2>3, <2>4 DEF ChangesOnly, BaseFields
  <1> QED
    BY <1>1, <1>2, <1>3, <1>4 DEF Video!TaosNext

(* Control.                                                                  *)

LEMMA ControlStep ==
    ASSUME Video!VideoInv(video), video.kind = "control", Video!ControlInv,
           Video!ControlNext
    PROVE  Video!OnboardInv'
  <1> USE FieldsAre DEF Video!ControlInv
  <1> DEFINE Fields == BaseFields \cup {"status", "enable", "clr", "dis", "reset", "strobe",
                                        "enabled", "unblank", "params", "applied"}
             Kept == Video!VideoInv(video') /\ video'.kind = "control" /\ Video!ControlInv'
  <1>0. Fields \subseteq DOMAIN video
    OBVIOUS
  <1> SUFFICES Kept
    BY DEF Video!OnboardInv
  \* the line moves with the status bit while the interrupt is enabled
  <1>V. ASSUME NEW s, Fields \subseteq DOMAIN s, s.status \in BOOLEAN, NEW level \in BOOLEAN
        PROVE  LET t == Video!ControlVblCb(s, level)
               IN  /\ ChangesOnly(s, t, {"status", "line", "orphan"})
                   /\ t.status \in BOOLEAN /\ (t.status <=> level)
                   /\ t.line /\ ~t.orphan =>
                         \/ s.line /\ ~s.orphan /\ ~(s.status /\ s.enable /\ ~level)
                         \/ level /\ s.enable
    <2> DEFINE a == [s EXCEPT !.status = level]
    <2>1. ChangesOnly(s, a, {"status"}) /\ a.status = level
      BY <1>V DEF ChangesOnly
    <2>2. Video!ControlVblCb(s, level) = IF level = s.status THEN s
                                         ELSE IF s.enable THEN Video!AckInt(a, level) ELSE a
      BY DEF Video!ControlVblCb
    <2> HIDE DEF a
    <2>3. LET t == Video!AckInt(a, level)
          IN  ChangesOnly(a, t, {"line", "orphan"}) /\ t.line = level /\ ~t.orphan
      BY <1>V, <2>1, AckIs DEF ChangesOnly
    <2> QED
      BY <1>V, <2>1, <2>2, <2>3 DEF ChangesOnly, BaseFields
  <1>1. CASE video.refresh /\ video' = Video!RefreshTimeout(Video!ControlVblCb(video, TRUE))
    <2> DEFINE a == Video!ControlVblCb(video, TRUE)
    <2>1. /\ ChangesOnly(video, a, {"status", "line", "orphan"})
          /\ a.status \in BOOLEAN /\ a.status
          /\ a.line /\ ~a.orphan => (video.line /\ ~video.orphan) \/ video.enable
      BY <1>0, <1>V
    <2> HIDE DEF a
    <2>2. Video!VideoInv(a)
      BY <2>1, CallbackIs
    <2>3. /\ ChangesOnly(a, video', {"vblEnd", "shown", "cursorOn", "dirty", "drawFb"})
          /\ video'.vblEnd /\ Video!VideoInv(video')
      BY <1>1, <2>2, RefreshIs DEF a
    <2>4. ChangesOnly(video, video', {"status", "line", "orphan", "vblEnd", "shown",
                                      "cursorOn", "dirty", "drawFb"})
      BY <2>1, <2>3 DEF ChangesOnly
    <2>5. /\ video'.status = a.status /\ video'.line = a.line /\ video'.orphan = a.orphan
          /\ video'.vblEnd
      BY <1>0, <2>1, <2>3 DEF ChangesOnly, BaseFields
    <2> QED
      BY <1>0, <2>1, <2>3, <2>4, <2>5 DEF ChangesOnly, BaseFields
  <1>2. CASE video.vblEnd /\ video' = Video!ControlVblCb(Video!VblEndTimeout(video), FALSE)
    <2> DEFINE a == Video!VblEndTimeout(video)
    <2>1. ChangesOnly(video, a, {"vblEnd"}) /\ ~a.vblEnd
      BY <1>0, VblEndIs
    <2> HIDE DEF a
    <2>2. Fields \subseteq DOMAIN a /\ a.status \in BOOLEAN
      BY <1>0, <2>1 DEF ChangesOnly
    <2>3. /\ ChangesOnly(a, video', {"status", "line", "orphan"}) /\ video'.status \in BOOLEAN
          /\ video'.line /\ ~video'.orphan =>
                a.line /\ ~a.orphan /\ ~(a.status /\ a.enable)
      BY <1>V, <1>2, <2>2 DEF a
    <2>4. ChangesOnly(video, video', {"vblEnd", "status", "line", "orphan"})
      BY <2>1, <2>3 DEF ChangesOnly
    <2>5. Video!VideoInv(video')
      BY <2>4, CallbackIs
    <2> QED
      BY <1>0, <2>1, <2>3, <2>4, <2>5 DEF ChangesOnly, BaseFields
  <1>3. ASSUME NEW en \in BOOLEAN, NEW clr \in BOOLEAN, Video!ControlIntEnable(en, clr)
        PROVE  Kept
    <2> DEFINE a == IF video.clr /\ ~clr THEN Video!ControlVblCb(video, FALSE) ELSE video
    <2>1. /\ ChangesOnly(video, a, {"status", "line", "orphan"})
          /\ a.status \in BOOLEAN
          /\ a.line /\ ~a.orphan => a.status /\ a.enable /\ a.vblEnd
      <3>1. LET t == Video!ControlVblCb(video, FALSE)
            IN  /\ ChangesOnly(video, t, {"status", "line", "orphan"}) /\ t.status \in BOOLEAN
                /\ t.line /\ ~t.orphan =>
                      video.line /\ ~video.orphan /\ ~(video.status /\ video.enable)
        BY <1>0, <1>V
      <3> QED
        BY <1>0, <3>1 DEF ChangesOnly, BaseFields
    <2>2. video' = [a EXCEPT !.enable = en, !.clr = clr, !.orphan = @ \/ (a.line /\ ~en)]
      BY <1>3 DEF Video!ControlIntEnable
    <2> HIDE DEF a
    <2>3. /\ ChangesOnly(a, video', {"enable", "clr", "orphan"})
          /\ video'.enable = en
          /\ video'.orphan <=> a.orphan \/ (a.line /\ ~en)
      BY <1>0, <2>1, <2>2 DEF ChangesOnly, BaseFields
    <2>4. ChangesOnly(video, video', {"status", "line", "orphan", "enable", "clr"})
      BY <2>1, <2>3 DEF ChangesOnly
    <2>5. Video!VideoInv(video')
      BY <2>4, CallbackIs
    <2> QED
      BY <1>0, <2>1, <2>3, <2>4, <2>5 DEF ChangesOnly, BaseFields
  <1> USE DEF Video!VideoInv, Video!OneRefreshTimer, Video!NothingUndrawn
  <1>E. ASSUME NEW s, Fields \subseteq DOMAIN s, ~s.twice
        PROVE  LET t == Video!ControlEnableDisplay(s)
               IN  /\ ChangesOnly(s, t, {"applied", "refresh", "vblEnd", "orphan", "shown",
                                         "twice", "blank", "crtc", "drawFb"})
                   /\ t.applied = s.params /\ t.drawFb /\ ~t.twice
                   /\ t.crtc => t.refresh
                   /\ t.orphan <=> s.orphan \/ (s.vblEnd /\ s.line)
    <2> DEFINE a == [s EXCEPT !.applied = s.params]
               b == Video!StopRefreshTask(a)
               on == s.params # "bad"
               c == IF on THEN Video!StartRefreshTask(b) ELSE b
               d == [c EXCEPT !.blank = ~on, !.crtc = on]
    <2>1. ChangesOnly(s, a, {"applied"}) /\ a.applied = s.params
      BY <1>E DEF ChangesOnly, BaseFields
    <2>2. Video!ControlEnableDisplay(s) = Video!SetDrawFb(d)
      BY DEF Video!ControlEnableDisplay
    <2> HIDE DEF a
    <2>3. /\ ChangesOnly(a, c, {"refresh", "vblEnd", "orphan", "shown", "twice"})
          /\ (on => c.refresh) /\ ~c.twice
          /\ c.orphan <=> a.orphan \/ (a.vblEnd /\ a.line)
      <3>1. BaseFields \subseteq DOMAIN a /\ ~a.twice
        BY <1>E, <2>1 DEF ChangesOnly, BaseFields
      <3>2. LET t == Video!StartRefreshTask(b)
            IN  /\ ChangesOnly(a, t, {"refresh", "vblEnd", "orphan", "shown", "twice"})
                /\ t.refresh /\ ~t.twice
                /\ t.orphan <=> a.orphan \/ (a.vblEnd /\ a.line)
        BY <3>1, RestartIs
      <3>3. /\ ChangesOnly(a, b, {"refresh", "vblEnd", "orphan"})
            /\ b.orphan <=> a.orphan \/ (a.vblEnd /\ a.line)
        BY <3>1, StopIs
      <3> HIDE DEF b, on
      <3>4. CASE on
        BY <3>2, <3>4
      <3>5. CASE ~on
        BY <3>1, <3>3, <3>5 DEF ChangesOnly, BaseFields
      <3> QED
        BY <3>4, <3>5
    <2> HIDE DEF c, on
    <2>4. ChangesOnly(c, d, {"blank", "crtc"}) /\ (d.crtc <=> on)
      BY <1>E, <2>1, <2>3 DEF ChangesOnly, BaseFields
    <2> HIDE DEF d
    <2>5. LET t == Video!SetDrawFb(d)
          IN  ChangesOnly(d, t, {"shown", "drawFb"}) /\ t.drawFb
      BY <1>E, <2>1, <2>3, <2>4, DrawIs DEF ChangesOnly
    <2> QED
      BY <1>E, <2>1, <2>2, <2>3, <2>4, <2>5 DEF ChangesOnly, BaseFields
  <1>4. ASSUME NEW dis \in BOOLEAN, NEW reset \in BOOLEAN, Video!ControlSwatchCtrl(dis, reset)
        PROVE  Kept
    <2>1. PICK n : LET a == [video EXCEPT !.dis = dis, !.reset = reset, !.strobe = n]
                   IN  \/ video' = a
                       \/ video' = [Video!ControlDisableDisplay(a) EXCEPT !.enabled = FALSE]
                       \/ video' = [Video!ControlEnableDisplay(a) EXCEPT !.enabled = TRUE]
      BY <1>4 DEF Video!ControlSwatchCtrl
    <2> DEFINE a == [video EXCEPT !.dis = dis, !.reset = reset, !.strobe = n]
               b == Video!ControlEnableDisplay(a)
               c == Video!ControlDisableDisplay(a)
    <2>2. /\ ChangesOnly(video, a, {"dis", "reset", "strobe"})
          /\ a.dis \in BOOLEAN /\ a.reset \in BOOLEAN
      BY <1>0 DEF ChangesOnly
    <2>3. \/ video' = a \/ video' = [b EXCEPT !.enabled = TRUE]
          \/ video' = [c EXCEPT !.enabled = FALSE]
      BY <2>1
    <2> HIDE DEF a
    <2>4. CASE video' = a
      BY <1>0, <2>2, <2>4 DEF ChangesOnly, BaseFields
    <2>5. CASE video' = [b EXCEPT !.enabled = TRUE]
      <3>1. /\ ChangesOnly(a, b, {"applied", "refresh", "vblEnd", "orphan", "shown",
                                  "twice", "blank", "crtc", "drawFb"})
            /\ b.applied = a.params /\ b.drawFb /\ ~b.twice
            /\ b.crtc => b.refresh
            /\ b.orphan <=> a.orphan \/ (a.vblEnd /\ a.line)
        BY <1>0, <1>E, <2>2 DEF ChangesOnly, BaseFields
      <3> HIDE DEF b
      <3>2. ChangesOnly(b, video', {"enabled"}) /\ video'.enabled
        BY <1>0, <2>2, <2>5, <3>1 DEF ChangesOnly
      <3> QED
        BY <1>0, <2>2, <3>1, <3>2 DEF ChangesOnly, BaseFields
    <2>6. CASE video' = [c EXCEPT !.enabled = FALSE]
      <3>1. ChangesOnly(a, c, {"crtc"}) /\ ~c.crtc
        BY <1>0, <2>2 DEF Video!ControlDisableDisplay, ChangesOnly, BaseFields
      <3> HIDE DEF c
      <3>2. ChangesOnly(c, video', {"enabled"}) /\ ~video'.enabled
        BY <1>0, <2>2, <2>6, <3>1 DEF ChangesOnly
      <3> QED
        BY <1>0, <2>2, <3>1, <3>2 DEF ChangesOnly, BaseFields
    <2> QED
      BY <2>3, <2>4, <2>5, <2>6
  <1>5. ASSUME NEW p, Video!ControlTiming(p)
        PROVE  Kept
    <2> DEFINE a == [video EXCEPT !.params = p]
    <2>1. ChangesOnly(video, a, {"params"})
      BY <1>0 DEF ChangesOnly
    <2>2. video' = IF video.enabled THEN Video!ControlEnableDisplay(a) ELSE a
      BY <1>5 DEF Video!ControlTiming
    <2> HIDE DEF a
    <2>3. CASE video.enabled
      <3>1. /\ ChangesOnly(a, video', {"applied", "refresh", "vblEnd", "orphan", "shown",
                                       "twice", "blank", "crtc", "drawFb"})
            /\ video'.applied = a.params /\ video'.drawFb /\ ~video'.twice
            /\ video'.crtc => video'.refresh
            /\ video'.orphan <=> a.orphan \/ (a.vblEnd /\ a.line)
        BY <1>0, <1>E, <2>1, <2>2, <2>3 DEF ChangesOnly, BaseFields
      <3> QED
        BY <1>0, <2>1, <2>3, <3>1 DEF ChangesOnly, BaseFields
    <2>4. CASE ~video.enabled
      BY <1>0, <2>1, <2>2, <2>4 DEF ChangesOnly, BaseFields
    <2> QED
      BY <2>3, <2>4
  <1>6. ASSUME NEW u \in BOOLEAN, Video!ControlMiscEnables(u)
        PROVE  Kept
    <2> DEFINE a == [video EXCEPT !.unblank = u, !.blank = ~u]
               b == Video!SetDrawFb(a)
    <2>1. ChangesOnly(video, a, {"unblank", "blank"}) /\ a.unblank = u
      BY <1>0 DEF ChangesOnly, BaseFields
    <2>2. video' \in {video, b, Video!BlankDisplay(b)}
      BY <1>6 DEF Video!ControlMiscEnables
    <2> HIDE DEF a
    <2>3. ChangesOnly(a, b, {"shown", "drawFb"}) /\ b.drawFb
      BY <1>0, <2>1, DrawIs DEF ChangesOnly
    <2> HIDE DEF b
    <2>4. ChangesOnly(b, Video!BlankDisplay(b), {"shown"})
      BY <1>0, <2>1, <2>3, BlankIs DEF ChangesOnly
    <2>5. CASE ChangesOnly(b, video', {"shown"})
      BY <1>0, <2>1, <2>3, <2>5 DEF ChangesOnly, BaseFields
    <2>6. CASE video' = b
      BY <2>5, <2>6 DEF ChangesOnly
    <2> QED
      BY <2>2, <2>4, <2>5, <2>6
  <1>7. CASE Video!Draw
    <2>1. ChangesOnly(video, video', {"shown", "drawFb"}) /\ video'.drawFb
      BY <1>0, <1>7, DrawIs DEF Video!Draw
    <2> QED
      BY <1>0, <2>1 DEF ChangesOnly, BaseFields
  <1> QED
    BY <1>1, <1>2, <1>3, <1>4, <1>5, <1>6, <1>7 DEF Video!ControlNext

(* Platinum.                                                                 *)

LEMMA PlatinumStep ==
    ASSUME Video!VideoInv(video), video.kind = "platinum", Video!PlatinumInv,
           Video!PlatinumNext
    PROVE  Video!OnboardInv'
  <1> USE FieldsAre
  <1> DEFINE Fields == BaseFields \cup {"stat", "mask", "cursor", "vidEnable", "fbReset",
                                        "step", "params", "applied"}
             Held(s) == s.line /\ ~s.orphan => \/ "VBL" \in s.stat \cap s.mask /\ s.vblEnd
                                               \/ "CURSOR" \in s.stat \cap s.mask
             Good(s) == /\ Video!VideoInv(s) /\ Fields \subseteq DOMAIN s
                        /\ s.kind = "platinum" /\ Held(s)
             Applied(s) == (s.fbReset = 0 => s.applied = s.params) /\ (s.crtc => s.fbReset # 7)
  <1>0. Good(video) /\ Applied(video)
    BY DEF Video!PlatinumInv
  <1> SUFFICES Good(video') /\ Applied(video')
    BY DEF Video!OnboardInv, Video!PlatinumInv
  \* only an enabled interrupt that is raised raises the line, and the one that
  \* holds it lowers it
  <1>U. ASSUME NEW s, Fields \subseteq DOMAIN s, NEW level \in BOOLEAN,
               NEW irq \in {"VBL", "CURSOR"}
        PROVE  LET t == Video!UpdateIrq(s, level, irq)
               IN  /\ ChangesOnly(s, t, {"stat", "line", "orphan"})
                   /\ level => irq \in t.stat
                   /\ \A i \in {"VBL", "CURSOR"} : i # irq => (i \in t.stat <=> i \in s.stat)
                   /\ t.line /\ ~t.orphan =>
                         \/ level /\ irq \in s.mask
                         \/ s.line /\ ~s.orphan /\ ~(irq \in s.stat \cap s.mask /\ ~level)
    <2> DEFINE a == [s EXCEPT !.stat = IF level THEN @ \union {irq} ELSE @ \ {irq}]
    <2>1. /\ ChangesOnly(s, a, {"stat"})
          /\ a.stat = IF level THEN s.stat \union {irq} ELSE s.stat \ {irq}
      BY <1>U DEF ChangesOnly
    <2>2. Video!UpdateIrq(s, level, irq) = IF level = (irq \in s.stat) THEN s
                                           ELSE IF irq \in s.mask THEN Video!AckInt(a, level)
                                           ELSE a
      BY DEF Video!UpdateIrq
    <2> HIDE DEF a
    <2>3. LET t == Video!AckInt(a, level)
          IN  ChangesOnly(a, t, {"line", "orphan"}) /\ t.line = level /\ ~t.orphan
      BY <1>U, <2>1, AckIs DEF ChangesOnly
    <2>4. CASE level = (irq \in s.stat)
      BY <2>2, <2>4 DEF ChangesOnly
    <2>5. CASE level # (irq \in s.stat) /\ irq \in s.mask
      <3> DEFINE t == Video!AckInt(a, level)
      <3>1. Video!UpdateIrq(s, level, irq) = t
        BY <2>2, <2>5
      <3>2. ChangesOnly(a, t, {"line", "orphan"}) /\ t.line = level /\ ~t.orphan
        BY <2>3
      <3> HIDE DEF t
      <3> QED
        BY <1>U, <2>1, <2>5, <3>1, <3>2 DEF ChangesOnly, BaseFields
    <2>6. CASE level # (irq \in s.stat) /\ irq \notin s.mask
      BY <1>U, <2>1, <2>2, <2>6 DEF ChangesOnly, BaseFields
    <2> QED
      BY <2>4, <2>5, <2>6
  <1>1. CASE video.refresh /\ video' = Video!RefreshTimeout(Video!PlatinumVblCb(video, TRUE))
    <2> DEFINE a == Video!PlatinumVblCb(video, TRUE)
    <2>1. /\ ChangesOnly(video, a, {"stat", "line", "orphan"})
          /\ "VBL" \in a.stat
          /\ "CURSOR" \in a.stat <=> "CURSOR" \in video.stat
          /\ a.line /\ ~a.orphan => "VBL" \in video.mask \/ (video.line /\ ~video.orphan)
      BY <1>0, <1>U DEF Video!PlatinumVblCb
    <2> HIDE DEF a
    <2>2. Video!VideoInv(a)
      BY <1>0, <2>1, CallbackIs
    <2>3. /\ ChangesOnly(a, video', {"vblEnd", "shown", "cursorOn", "dirty", "drawFb"})
          /\ video'.vblEnd /\ Video!VideoInv(video')
      BY <1>1, <2>2, RefreshIs DEF a
    <2>4. ChangesOnly(video, video', {"stat", "line", "orphan", "vblEnd", "shown",
                                      "cursorOn", "dirty", "drawFb"})
      BY <2>1, <2>3 DEF ChangesOnly
    <2>5. video'.stat = a.stat /\ video'.line = a.line /\ video'.orphan = a.orphan
      BY <1>0, <2>1, <2>3 DEF ChangesOnly, BaseFields
    <2> QED
      BY <1>0, <2>1, <2>3, <2>4, <2>5 DEF ChangesOnly, BaseFields
  <1>2. CASE video.vblEnd /\ video' = Video!PlatinumVblCb(Video!VblEndTimeout(video), FALSE)
    <2> DEFINE a == Video!VblEndTimeout(video)
    <2>1. ChangesOnly(video, a, {"vblEnd"}) /\ ~a.vblEnd
      BY <1>0, VblEndIs
    <2> HIDE DEF a
    <2>2. Fields \subseteq DOMAIN a
      BY <1>0, <2>1 DEF ChangesOnly
    <2>3. /\ ChangesOnly(a, video', {"stat", "line", "orphan"})
          /\ "CURSOR" \in video'.stat <=> "CURSOR" \in a.stat
          /\ video'.line /\ ~video'.orphan =>
                a.line /\ ~a.orphan /\ ~("VBL" \in a.stat \cap a.mask)
      BY <1>U, <1>2, <2>2 DEF Video!PlatinumVblCb, a
    <2>4. ChangesOnly(video, video', {"vblEnd", "stat", "line", "orphan"})
      BY <2>1, <2>3 DEF ChangesOnly
    <2>5. Video!VideoInv(video')
      BY <1>0, <2>4, CallbackIs
    <2> QED
      BY <1>0, <2>1, <2>3, <2>4, <2>5 DEF ChangesOnly, BaseFields
  <1>E. ASSUME NEW s, Good(s)
        PROVE  LET t == Video!PlatinumEnableDisplay(s)
               IN  Good(t) /\ t.fbReset = s.fbReset /\ t.applied = t.params
    <2> USE DEF Video!VideoInv, Video!OneRefreshTimer, Video!NothingUndrawn
    <2> DEFINE a == [s EXCEPT !.applied = s.params]
               b == Video!StopRefreshTask(a)
               c == [b EXCEPT !.blank = TRUE, !.crtc = FALSE]
               d == Video!StartRefreshTask(b)
               e == [d EXCEPT !.blank = FALSE, !.crtc = TRUE]
    <2>1. ChangesOnly(s, a, {"applied"}) /\ a.applied = s.params
      BY <1>E DEF ChangesOnly, BaseFields
    <2>2. Video!PlatinumEnableDisplay(s) = IF s.params = "bad" THEN Video!BlankDisplay(c)
                                           ELSE Video!SetDrawFb(e)
      BY DEF Video!PlatinumEnableDisplay
    <2> HIDE DEF a
    <2>3. /\ ChangesOnly(a, b, {"refresh", "vblEnd", "orphan"})
          /\ b.orphan <=> a.orphan \/ (a.vblEnd /\ a.line)
      BY <1>E, <2>1, StopIs DEF ChangesOnly
    <2>4. /\ ChangesOnly(a, d, {"refresh", "vblEnd", "orphan", "shown", "twice"})
          /\ d.refresh /\ (d.twice <=> a.twice)
          /\ d.orphan <=> a.orphan \/ (a.vblEnd /\ a.line)
      BY <1>E, <2>1, RestartIs DEF ChangesOnly
    <2> HIDE DEF b, d
    <2>5. ChangesOnly(b, c, {"blank", "crtc"}) /\ ~c.crtc
      BY <1>E, <2>1, <2>3 DEF ChangesOnly, BaseFields
    <2>6. ChangesOnly(d, e, {"blank", "crtc"})
      BY <1>E, <2>1, <2>4 DEF ChangesOnly, BaseFields
    <2> HIDE DEF c, e
    <2>7. CASE s.params = "bad"
      <3> DEFINE t == Video!BlankDisplay(c)
      <3>1. ChangesOnly(c, t, {"shown"}) /\ t.shown = "blank"
        BY <1>E, <2>1, <2>3, <2>5, BlankIs DEF ChangesOnly
      <3> HIDE DEF t
      <3>2. Good(t) /\ t.fbReset = s.fbReset /\ t.applied = t.params
        BY <1>E, <2>1, <2>3, <2>5, <3>1 DEF ChangesOnly, BaseFields
      <3> QED
        BY <2>2, <2>7, <3>2 DEF t
    <2>8. CASE s.params # "bad"
      <3> DEFINE t == Video!SetDrawFb(e)
      <3>1. ChangesOnly(e, t, {"shown", "drawFb"}) /\ t.drawFb
        BY <1>E, <2>1, <2>4, <2>6, DrawIs DEF ChangesOnly
      <3> HIDE DEF t
      <3>2. Good(t) /\ t.fbReset = s.fbReset /\ t.applied = t.params
        BY <1>E, <2>1, <2>4, <2>6, <3>1 DEF ChangesOnly, BaseFields
      <3> QED
        BY <2>2, <2>8, <3>2 DEF t
    <2> QED
      BY <2>7, <2>8
  <1>D. ASSUME NEW s, Good(s)
        PROVE  LET t == Video!PlatinumDisableDisplay(s)
               IN  Good(t) /\ t.fbReset = s.fbReset /\ ~t.crtc
    <2> USE DEF Video!VideoInv, Video!OneRefreshTimer, Video!NothingUndrawn
    <2> DEFINE a == [s EXCEPT !.crtc = FALSE]
               t == Video!BlankDisplay(a)
    <2>1. ChangesOnly(s, a, {"crtc"}) /\ ~a.crtc
      BY <1>D DEF ChangesOnly, BaseFields
    <2> HIDE DEF a
    <2>2. ChangesOnly(a, t, {"shown"}) /\ t.shown = "blank"
      BY <1>D, <2>1, BlankIs DEF ChangesOnly
    <2> HIDE DEF t
    <2>3. Good(t) /\ t.fbReset = s.fbReset /\ ~t.crtc
      BY <1>D, <2>1, <2>2 DEF ChangesOnly, BaseFields
    <2> QED
      BY <2>3 DEF Video!PlatinumDisableDisplay, a, t
  \* every other register write leaves what Good speaks of alone
  <1>G. ASSUME NEW s, Good(s), NEW t, NEW fields, ChangesOnly(s, t, fields),
               fields \cap (BaseFields \cup {"stat", "mask"}) = {}
        PROVE  Good(t)
    <2>1. Video!VideoInv(t)
      BY <1>G, CallbackIs DEF BaseFields
    <2> QED
      BY <1>G, <2>1 DEF ChangesOnly, BaseFields
  <1>3. ASSUME NEW value \in {0, 2, 3, 7}, Video!FbReset(value)
        PROVE  Good(video') /\ Applied(video')
    <2> DEFINE hit == /\ value = Video!VidEnableSeq[video.step + 1]
                      /\ ~(value = 7 /\ video.crtc)
               done == hit /\ video.step = 2
               n == IF hit /\ ~done THEN video.step + 1 ELSE 0
               t == IF done THEN IF video.vidEnable THEN Video!PlatinumEnableDisplay(video)
                                 ELSE Video!PlatinumDisableDisplay(video)
                    ELSE video
               u == [t EXCEPT !.step = n, !.fbReset = value]
    <2>1. video' = IF value = 7 THEN Video!PlatinumDisableDisplay(u) ELSE Video!ChangeDisplay(u)
      BY <1>3 DEF Video!FbReset
    <2>2. Good(t)
      BY <1>0, <1>E, <1>D
    <2> HIDE DEF hit, done, n, t
    <2>3. ChangesOnly(t, u, {"step", "fbReset"}) /\ u.fbReset = value
      BY <2>2 DEF ChangesOnly
    <2> HIDE DEF u
    <2>5. Good(u)
      BY <1>G, <2>2, <2>3 DEF BaseFields
    <2> HIDE DEF Good
    <2>6. CASE value = 7
      BY <1>D, <2>1, <2>3, <2>5, <2>6
    <2>7. CASE value = 0
      BY <1>E, <2>1, <2>3, <2>5, <2>7 DEF Video!ChangeDisplay
    <2>8. CASE value \in {2, 3}
      BY <2>1, <2>3, <2>5, <2>8 DEF Video!ChangeDisplay
    <2> QED
      BY <2>6, <2>7, <2>8
  <1>4. ASSUME NEW p, Video!PlatinumTiming(p)
        PROVE  Good(video') /\ Applied(video')
    <2> DEFINE a == [video EXCEPT !.params = p]
    <2>1. ChangesOnly(video, a, {"params"})
      BY <1>0 DEF ChangesOnly
    <2>2. video' = IF a.fbReset = 0 THEN Video!PlatinumEnableDisplay(a) ELSE a
      BY <1>4 DEF Video!PlatinumTiming, Video!ChangeDisplay
    <2> HIDE DEF a
    <2>3. Good(a)
      BY <1>0, <1>G, <2>1 DEF BaseFields
    <2>4. a.crtc => a.fbReset # 7
      BY <1>0, <2>1 DEF ChangesOnly, BaseFields
    <2> HIDE DEF Good
    <2> QED
      BY <1>E, <2>2, <2>3, <2>4
  <1>5. ASSUME NEW m, Video!SwatchIntMask(m)
        PROVE  Good(video') /\ Applied(video')
    <2>1. /\ ChangesOnly(video, video', {"mask", "orphan"}) /\ video'.mask = m
          /\ video'.orphan <=> video.orphan \/ (video.line /\ ~(video.stat \subseteq m))
      BY <1>0, <1>5 DEF Video!SwatchIntMask, ChangesOnly, BaseFields
    <2>2. Video!VideoInv(video')
      BY <1>0, <2>1, CallbackIs
    <2> QED
      BY <1>0, <2>1, <2>2 DEF ChangesOnly, BaseFields
  <1>6. CASE Video!CursorLine \/ \E on \in BOOLEAN : Video!FbConfig1(on)
    <2>1. ChangesOnly(video, video', {"cursor", "vidEnable"})
      BY <1>0, <1>6 DEF Video!CursorLine, Video!FbConfig1, ChangesOnly, BaseFields
    <2>2. Good(video')
      BY <1>0, <1>G, <2>1 DEF BaseFields
    <2> QED
      BY <1>0, <2>1, <2>2 DEF ChangesOnly, BaseFields
  <1>7. CASE Video!CursorTimeout \/ Video!ClrCursorInt
    <2>1. /\ ChangesOnly(video, video', {"stat", "line", "orphan"})
          /\ "VBL" \in video'.stat <=> "VBL" \in video.stat
          /\ video'.line /\ ~video'.orphan =>
                \/ "CURSOR" \in video.mask \cap video'.stat
                \/ /\ video.line /\ ~video.orphan
                   /\ "CURSOR" \notin video.stat \cap video.mask
      <3>1. CASE Video!CursorTimeout
        BY <1>0, <1>U, <3>1 DEF Video!CursorTimeout
      <3>2. CASE Video!ClrCursorInt
        BY <1>0, <1>U, <3>2 DEF Video!ClrCursorInt
      <3> QED
        BY <1>7, <3>1, <3>2
    <2>2. Video!VideoInv(video')
      BY <1>0, <2>1, CallbackIs
    <2> QED
      BY <1>0, <2>1, <2>2 DEF ChangesOnly, BaseFields
  <1>8. CASE Video!Draw
    <2>1. ChangesOnly(video, video', {"shown", "drawFb"}) /\ video'.drawFb
      BY <1>0, <1>8, DrawIs DEF Video!Draw
    <2> QED
      BY <1>0, <2>1 DEF ChangesOnly, BaseFields, Video!VideoInv, Video!OneRefreshTimer,
                        Video!NothingUndrawn
  <1> QED
    BY <1>1, <1>2, <1>3, <1>4, <1>5, <1>6, <1>7, <1>8 DEF Video!PlatinumNext

(* Valkyrie.                                                                 *)

LEMMA ValkyrieStep ==
    ASSUME Video!VideoInv(video), video.kind = "valkyrie", Video!ValkyrieInv,
           Video!ValkyrieNext
    PROVE  Video!OnboardInv'
  <1> USE FieldsAre DEF Video!ValkyrieInv, Video!LineFalls
  <1> DEFINE Fields == BaseFields \cup {"latch", "enable", "off", "mode", "depth", "timer",
                                        "late", "applied"}
             Kept == Video!VideoInv(video') /\ video'.kind = "valkyrie" /\ Video!ValkyrieInv'
  <1>0. Fields \subseteq DOMAIN video
    OBVIOUS
  <1> SUFFICES Kept
    BY DEF Video!OnboardInv
  <1>1. CASE video.refresh /\ video' = Video!RefreshTimeout(Video!ValkyrieVblCb(video, TRUE))
    <2> DEFINE b == [video EXCEPT !.latch = TRUE]
               a == Video!ValkyrieVblCb(video, TRUE)
    <2>1. ChangesOnly(video, b, {"latch"}) /\ b.latch
      BY <1>0 DEF ChangesOnly
    <2>2. a = IF video.enable THEN Video!AckInt(b, TRUE) ELSE b
      BY DEF Video!ValkyrieVblCb
    <2> HIDE DEF a, b
    <2>3. ChangesOnly(b, Video!AckInt(b, TRUE), {"line", "orphan"})
      BY <1>0, <2>1, RaisedIs DEF ChangesOnly
    <2>4. ChangesOnly(video, a, {"latch", "line", "orphan"}) /\ a.latch
      BY <1>0, <2>1, <2>2, <2>3 DEF ChangesOnly
    <2>5. Video!VideoInv(a)
      BY <2>4, CallbackIs
    <2>6. /\ ChangesOnly(a, video', {"vblEnd", "shown", "cursorOn", "dirty", "drawFb"})
          /\ video'.vblEnd /\ Video!VideoInv(video')
      BY <1>1, <2>5, RefreshIs DEF a
    <2>7. ChangesOnly(video, video', {"latch", "line", "orphan", "vblEnd", "shown",
                                      "cursorOn", "dirty", "drawFb"})
      BY <2>4, <2>6 DEF ChangesOnly
    <2>8. video'.latch
      BY <1>0, <2>4, <2>6 DEF ChangesOnly
    <2> QED
      BY <1>0, <2>6, <2>7, <2>8 DEF ChangesOnly, BaseFields
  <1>2. CASE video.vblEnd /\ video' = Video!ValkyrieVblCb(Video!VblEndTimeout(video), FALSE)
    <2> DEFINE a == Video!VblEndTimeout(video)
    <2>1. ChangesOnly(video, a, {"vblEnd"}) /\ ~a.vblEnd
      BY <1>0, VblEndIs
    <2> HIDE DEF a
    <2>2. video' = Video!AckInt(a, FALSE)
      BY <1>2 DEF Video!ValkyrieVblCb, a
    <2>3. ChangesOnly(a, video', {"line", "orphan"}) /\ ~video'.line
      BY <1>0, <2>1, <2>2, LoweredIs, ZenonT(60) DEF ChangesOnly
    <2>4. ChangesOnly(video, video', {"vblEnd", "line", "orphan"})
      BY <2>1, <2>3 DEF ChangesOnly
    <2>5. Video!VideoInv(video')
      BY <2>4, CallbackIs
    <2> QED
      BY <1>0, <2>3, <2>4, <2>5 DEF ChangesOnly, BaseFields
  <1>3. CASE Video!CsrIntStat
    <2> DEFINE a == [video EXCEPT !.latch = FALSE]
    <2>1. ChangesOnly(video, a, {"latch"})
      BY <1>0 DEF ChangesOnly
    <2>2. video' = video \/ video' = Video!AckInt(a, FALSE)
      BY <1>3 DEF Video!CsrIntStat
    <2> HIDE DEF a
    <2>3. LET t == Video!AckInt(a, FALSE)
          IN  ChangesOnly(a, t, {"line", "orphan"}) /\ ~t.line
      BY <1>0, <2>1, LoweredIs DEF ChangesOnly
    <2>4. CASE video' = Video!AckInt(a, FALSE)
      <3>1. ChangesOnly(video, video', {"latch", "line", "orphan"}) /\ ~video'.line
        BY <2>1, <2>3, <2>4 DEF ChangesOnly
      <3>2. Video!VideoInv(video')
        BY <3>1, CallbackIs
      <3> QED
        BY <1>0, <3>1, <3>2 DEF ChangesOnly, BaseFields
    <2> QED
      BY <2>2, <2>4
  <1>4. ASSUME NEW on, Video!CsrIntEn(on)
        PROVE  Kept
    <2>1. ChangesOnly(video, video', {"enable"})
      BY <1>0, <1>4 DEF Video!CsrIntEn, ChangesOnly
    <2>2. Video!VideoInv(video')
      BY <2>1, CallbackIs
    <2> QED
      BY <1>0, <2>1, <2>2 DEF ChangesOnly, BaseFields
  <1>5. ASSUME NEW depth, Video!CsrDepth(depth)
        PROVE  Kept
    <2> DEFINE a == IF depth # video.depth THEN Video!ScheduleModeSwitch(video) ELSE video
    <2>1. /\ ChangesOnly(video, a, {"timer", "late"})
          /\ depth # video.depth => a.timer /\ (a.late <=> video.off)
          /\ depth = video.depth => a = video
      BY <1>0 DEF Video!ScheduleModeSwitch, ChangesOnly
    <2>2. video' = [a EXCEPT !.depth = depth]
      BY <1>5 DEF Video!CsrDepth
    <2> HIDE DEF a
    <2>3. ChangesOnly(a, video', {"depth"}) /\ video'.depth = depth
      BY <1>0, <2>1, <2>2 DEF ChangesOnly
    <2>4. ChangesOnly(video, video', {"timer", "late", "depth"})
      BY <2>1, <2>3 DEF ChangesOnly
    <2>5. Video!VideoInv(video')
      BY <2>4, CallbackIs
    <2> QED
      BY <1>0, <2>1, <2>3, <2>4, <2>5 DEF ChangesOnly, BaseFields
  <1> USE DEF Video!VideoInv, Video!OneRefreshTimer, Video!NothingUndrawn
  <1>6. ASSUME NEW off \in BOOLEAN, NEW mode, Video!CsrMode(off, mode)
        PROVE  Kept
    <2> DEFINE a == [video EXCEPT !.off = off, !.mode = mode]
               b == Video!ScheduleModeSwitch(a)
               c == Video!DisableVideoInternal(a)
    <2>1. ChangesOnly(video, a, {"off", "mode"}) /\ a.off = off /\ a.mode = mode
      BY <1>0 DEF ChangesOnly
    <2>2. \/ video' = video
          \/ ~off /\ video' = b
          \/ off /\ video.off /\ video' = a
          \/ off /\ ~video.off /\ video' = [c EXCEPT !.late = video.timer]
      BY <1>6 DEF Video!CsrMode
    <2> HIDE DEF a
    <2>3. CASE ~off /\ video' = b
      <3>1. ChangesOnly(a, b, {"timer", "late"}) /\ b.timer
        BY <1>0, <2>1 DEF Video!ScheduleModeSwitch, ChangesOnly
      <3> HIDE DEF b
      <3> QED
        BY <1>0, <2>1, <2>3, <3>1 DEF ChangesOnly, BaseFields
    <2>4. CASE off /\ video.off /\ video' = a
      BY <1>0, <2>1, <2>4 DEF ChangesOnly, BaseFields
    <2>5. CASE off /\ ~video.off /\ video' = [c EXCEPT !.late = video.timer]
      <3>1. /\ ChangesOnly(a, c, {"refresh", "vblEnd", "orphan", "shown", "blank", "crtc"})
            /\ ~c.vblEnd /\ ~c.crtc /\ c.shown = "blank"
            /\ c.orphan <=> a.orphan \/ (a.vblEnd /\ a.line)
        BY <1>0, <2>1, OffIs DEF ChangesOnly
      <3> HIDE DEF c
      <3>2. ChangesOnly(c, video', {"late"}) /\ (video'.late <=> video.timer)
        BY <1>0, <2>1, <2>5, <3>1 DEF ChangesOnly
      <3>3. ChangesOnly(video, video', {"off", "mode", "refresh", "vblEnd", "orphan",
                                        "shown", "blank", "crtc", "late"})
        BY <2>1, <3>1, <3>2 DEF ChangesOnly
      <3>4. /\ video'.off = off /\ ~video'.crtc /\ ~video'.vblEnd /\ video'.shown = "blank"
            /\ video'.orphan <=> video.orphan \/ (video.vblEnd /\ video.line)
        BY <1>0, <2>1, <3>1, <3>2 DEF ChangesOnly, BaseFields
      <3>5. Video!VideoInv(video') /\ video'.kind = "valkyrie"
        BY <1>0, <3>3, <3>4 DEF ChangesOnly, BaseFields
      <3> QED
        BY <1>0, <2>5, <3>2, <3>3, <3>4, <3>5, ZenonT(60) DEF ChangesOnly, BaseFields
    <2> QED
      BY <2>2, <2>3, <2>4, <2>5
  <1>7. CASE Video!ModeTimeout
    <2> DEFINE a == [video EXCEPT !.timer = FALSE]
               b == Video!StartRefreshTask(Video!StopRefreshTask(a))
               bad == "bad" \in {video.mode, video.depth}
    <2>1. ChangesOnly(video, a, {"timer"}) /\ ~a.timer
      BY <1>0 DEF ChangesOnly
    <2>2. /\ video.timer
          /\ video' = IF bad THEN a ELSE [b EXCEPT !.blank = FALSE, !.crtc = TRUE,
                                                   !.applied = <<video.mode, video.depth>>]
      BY <1>7 DEF Video!ModeTimeout
    <2> HIDE DEF a
    <2>3. /\ ChangesOnly(a, b, {"refresh", "vblEnd", "orphan", "shown", "twice"})
          /\ b.refresh /\ (b.twice <=> a.twice)
          /\ b.orphan <=> a.orphan \/ (a.vblEnd /\ a.line)
      BY <1>0, <2>1, RestartIs DEF ChangesOnly
    <2> HIDE DEF b
    <2>4. CASE bad
      BY <1>0, <2>1, <2>2, <2>4 DEF ChangesOnly, BaseFields
    <2>5. CASE ~bad
      <3>1. /\ ChangesOnly(b, video', {"blank", "crtc", "applied"})
            /\ video'.applied = <<video.mode, video.depth>>
        BY <1>0, <2>1, <2>2, <2>3, <2>5 DEF ChangesOnly, BaseFields
      <3> HIDE DEF bad
      <3> QED
        BY <1>0, <2>1, <2>2, <2>3, <3>1 DEF ChangesOnly, BaseFields
    <2> QED
      BY <2>4, <2>5
  <1> QED
    BY <1>1, <1>2, <1>3, <1>4, <1>5, <1>6, <1>7 DEF Video!ValkyrieNext

(* The frame buffer of the PDM machines.                                     *)

LEMMA PdmStep ==
    ASSUME Video!VideoInv(video), video.kind = "pdm", Video!PdmInv, Video!PdmNext
    PROVE  Video!OnboardInv'
  <1> USE FieldsAre DEF Video!LineFalls
  <1> DEFINE Fields == BaseFields \cup {"blanking", "mode", "deep", "vbase", "loc"}
             Good(s) == /\ Video!VideoInv(s) /\ Fields \subseteq DOMAIN s
                        /\ s.kind = "pdm" /\ s.blanking \in BOOLEAN /\ ~s.dynamic
                        /\ Video!LineFalls(s)
             Off(s) == s.crtc => s.mode # "off"
  <1>0. Good(video) /\ Off(video)
    BY DEF Video!PdmInv
  <1> SUFFICES Good(video') /\ Off(video')
    BY DEF Video!OnboardInv, Video!PdmInv
  <1>1. CASE video.refresh /\ video' = Video!RefreshTimeout(Video!PdmVblCb(video, TRUE))
    <2> DEFINE b == Video!SetFbBase(video)
               a == Video!PdmVblCb(video, TRUE)
    <2>1. ChangesOnly(video, b, {"loc"})
      BY <1>0 DEF Video!SetFbBase, ChangesOnly
    <2> HIDE DEF b
    <2>2. ChangesOnly(b, a, {"line", "orphan"})
      BY <1>0, <2>1, RaisedIs DEF Video!PdmVblCb, ChangesOnly, b
    <2> HIDE DEF a
    <2>3. ChangesOnly(video, a, {"loc", "line", "orphan"})
      BY <2>1, <2>2 DEF ChangesOnly
    <2>4. Video!VideoInv(a)
      BY <1>0, <2>3, CallbackIs
    <2>5. /\ ChangesOnly(a, video', {"vblEnd", "shown", "cursorOn", "dirty", "drawFb"})
          /\ video'.vblEnd /\ Video!VideoInv(video')
      BY <1>1, <2>4, RefreshIs DEF a
    <2>6. ChangesOnly(video, video', {"loc", "line", "orphan", "vblEnd", "shown",
                                      "cursorOn", "dirty", "drawFb"})
      BY <2>3, <2>5 DEF ChangesOnly
    <2> QED
      BY <1>0, <2>5, <2>6 DEF ChangesOnly, BaseFields
  <1>2. CASE video.vblEnd /\ video' = Video!PdmVblCb(Video!VblEndTimeout(video), FALSE)
    <2> DEFINE a == Video!VblEndTimeout(video)
               b == Video!SetFbBase(a)
    <2>1. ChangesOnly(video, a, {"vblEnd"})
      BY <1>0, VblEndIs
    <2> HIDE DEF a
    <2>2. ChangesOnly(a, b, {"loc"})
      BY <1>0, <2>1 DEF Video!SetFbBase, ChangesOnly
    <2>3. video' = Video!AckInt(b, FALSE)
      BY <1>2 DEF Video!PdmVblCb, a
    <2> HIDE DEF b
    <2>4. ChangesOnly(b, video', {"line", "orphan"}) /\ ~video'.line
      BY <1>0, <2>1, <2>2, <2>3, LoweredIs DEF ChangesOnly
    <2>5. ChangesOnly(video, video', {"loc", "vblEnd", "line", "orphan"})
      BY <2>1, <2>2, <2>4 DEF ChangesOnly
    <2>6. Video!VideoInv(video')
      BY <1>0, <2>5, CallbackIs
    <2> QED
      BY <1>0, <2>4, <2>5, <2>6 DEF ChangesOnly, BaseFields
  <1> USE DEF Video!VideoInv, Video!OneRefreshTimer, Video!NothingUndrawn
  <1>D. ASSUME NEW s, Good(s)
        PROVE  LET t == Video!PdmDisable(s)
               IN  Good(t) /\ ~t.crtc
    <2> DEFINE a == Video!DisableVideoInternal(s)
    <2>1. /\ ChangesOnly(s, a, {"refresh", "vblEnd", "orphan", "shown", "blank", "crtc"})
          /\ ~a.vblEnd /\ ~a.crtc /\ a.shown = "blank"
          /\ a.orphan <=> s.orphan \/ (s.vblEnd /\ s.line)
      BY <1>D, OffIs
    <2>2. Video!PdmDisable(s) = [a EXCEPT !.blanking = TRUE]
      BY DEF Video!PdmDisable
    <2> HIDE DEF a
    <2> QED
      BY <1>D, <2>1, <2>2 DEF ChangesOnly, BaseFields
  <1>E. ASSUME NEW s, Good(s)
        PROVE  LET t == Video!PdmEnable(s)
               IN  Good(t) /\ t.mode = s.mode
    <2> DEFINE a == [Video!SetFbBase(s) EXCEPT !.deep = @ /\ s.mode # "wide"]
               b == Video!StartRefreshTask(Video!StopRefreshTask(a))
    <2>1. ChangesOnly(s, a, {"loc", "deep"})
      BY <1>E DEF Video!SetFbBase, ChangesOnly
    <2>2. Video!PdmEnable(s) = [b EXCEPT !.crtc = TRUE]
      BY DEF Video!PdmEnable
    <2> HIDE DEF a
    <2>3. /\ ChangesOnly(a, b, {"refresh", "vblEnd", "orphan", "shown", "twice"})
          /\ b.refresh /\ (b.twice <=> a.twice)
          /\ b.orphan <=> a.orphan \/ (a.vblEnd /\ a.line)
      BY <1>E, <2>1, RestartIs DEF ChangesOnly
    <2> HIDE DEF b
    <2> QED
      BY <1>E, <2>1, <2>2, <2>3 DEF ChangesOnly, BaseFields
  <1>3. ASSUME NEW blank \in BOOLEAN, NEW mode, Video!SetVideoMode(blank, mode)
        PROVE  Good(video') /\ Off(video')
    <2> DEFINE b == IF blank = video.blanking THEN video
                    ELSE IF blank THEN Video!PdmDisable(video)
                    ELSE [video EXCEPT !.blank = FALSE, !.blanking = FALSE]
               t == [b EXCEPT !.mode = mode]
    <2>1. Good([video EXCEPT !.blank = FALSE, !.blanking = FALSE])
      BY <1>0 DEF BaseFields
    <2>2. Good(b)
      BY <1>0, <1>D, <2>1
    <2>3. video' = IF mode = "off" THEN Video!PdmDisable(t) ELSE Video!PdmEnable(t)
      BY <1>3 DEF Video!SetVideoMode
    <2> HIDE DEF b
    <2>4. Good(t) /\ t.mode = mode
      BY <2>2 DEF BaseFields
    <2> HIDE DEF t, Good
    <2> QED
      BY <1>D, <1>E, <2>3, <2>4
  <1>4. ASSUME NEW deep, Video!SetPixelDepth(deep)
        PROVE  Good(video') /\ Off(video')
    <2> DEFINE a == Video!Outdated(video)
    <2>1. ChangesOnly(video, a, {"shown"})
      BY <1>0, OutdatedIs
    <2>2. video' = [a EXCEPT !.deep = deep]
      BY <1>4 DEF Video!SetPixelDepth
    <2> HIDE DEF a
    <2>3. ChangesOnly(video, video', {"shown", "deep"})
      BY <2>1, <2>2 DEF ChangesOnly
    <2> QED
      BY <1>0, <2>3 DEF ChangesOnly, BaseFields
  <1>5. ASSUME NEW bit, video' = [video EXCEPT !.vbase = bit]
        PROVE  Good(video') /\ Off(video')
    <2>1. ChangesOnly(video, video', {"vbase"})
      BY <1>0, <1>5 DEF ChangesOnly
    <2> QED
      BY <1>0, <2>1 DEF ChangesOnly, BaseFields
  <1> QED
    BY <1>1, <1>2, <1>3, <1>4, <1>5 DEF Video!PdmNext

(* Sixty6.                                                                   *)

LEMMA Sixty6Step ==
    ASSUME Video!VideoInv(video), video.kind = "sixty6", Video!Sixty6Inv, Video!Sixty6Next
    PROVE  Video!OnboardInv'
  <1> USE FieldsAre DEF Video!Sixty6Inv
  <1> DEFINE Fields == BaseFields \cup {"enable", "changed", "format", "params", "vbl", "applied"}
             Kept == Video!VideoInv(video') /\ video'.kind = "sixty6" /\ Video!Sixty6Inv'
  <1>0. Fields \subseteq DOMAIN video
    OBVIOUS
  <1> SUFFICES Kept
    BY DEF Video!OnboardInv
  <1>1. CASE video.refresh /\ video' = Video!RefreshTimeout(Video!Sixty6VblCb(video, TRUE))
    <2> DEFINE b == [video EXCEPT !.vbl = TRUE]
               a == Video!Sixty6VblCb(video, TRUE)
    <2>1. ChangesOnly(video, b, {"vbl"})
      BY <1>0 DEF ChangesOnly
    <2>2. a = IF video.enable /\ video.crtc THEN Video!AckInt(b, TRUE) ELSE b
      BY DEF Video!Sixty6VblCb
    <2> HIDE DEF a, b
    <2>3. ChangesOnly(b, Video!AckInt(b, TRUE), {"line", "orphan"})
      BY <1>0, <2>1, RaisedIs DEF ChangesOnly
    <2>4. /\ ChangesOnly(video, a, {"vbl", "line", "orphan"})
          /\ a.line /\ ~a.orphan => (video.enable /\ video.crtc) \/ (video.line /\ ~video.orphan)
      BY <1>0, <2>1, <2>2, <2>3 DEF ChangesOnly, BaseFields
    <2>5. Video!VideoInv(a)
      BY <2>4, CallbackIs
    <2>6. /\ ChangesOnly(a, video', {"vblEnd", "shown", "cursorOn", "dirty", "drawFb"})
          /\ video'.vblEnd /\ Video!VideoInv(video')
      BY <1>1, <2>5, RefreshIs DEF a
    <2>7. ChangesOnly(video, video', {"vbl", "line", "orphan", "vblEnd", "shown",
                                      "cursorOn", "dirty", "drawFb"})
      BY <2>4, <2>6 DEF ChangesOnly
    <2>8. video'.line = a.line /\ video'.orphan = a.orphan
      BY <1>0, <2>4, <2>6 DEF ChangesOnly, BaseFields
    <2> QED
      BY <1>0, <2>4, <2>6, <2>7, <2>8 DEF ChangesOnly, BaseFields
  <1>2. CASE video.vblEnd /\ video' = Video!Sixty6VblCb(Video!VblEndTimeout(video), FALSE)
    <2> DEFINE a == Video!VblEndTimeout(video)
               b == [a EXCEPT !.vbl = FALSE]
    <2>1. ChangesOnly(video, a, {"vblEnd"})
      BY <1>0, VblEndIs
    <2>2. video' = IF a.enable /\ a.crtc THEN Video!AckInt(b, FALSE) ELSE b
      BY <1>2 DEF Video!Sixty6VblCb
    <2> HIDE DEF a
    <2>3. ChangesOnly(a, b, {"vbl"})
      BY <1>0, <2>1 DEF ChangesOnly
    <2> HIDE DEF b
    <2>4. ChangesOnly(b, Video!AckInt(b, FALSE), {"line", "orphan"}) /\ ~Video!AckInt(b, FALSE).line
      BY <1>0, <2>1, <2>3, LoweredIs DEF ChangesOnly
    <2>5. ChangesOnly(video, video', {"vblEnd", "vbl", "line", "orphan"})
      BY <1>0, <2>1, <2>2, <2>3, <2>4 DEF ChangesOnly
    <2>6. video'.line /\ ~video'.orphan =>
             video.line /\ ~video.orphan /\ ~(video.enable /\ video.crtc)
      BY <1>0, <2>1, <2>2, <2>3, <2>4 DEF ChangesOnly, BaseFields
    <2>7. Video!VideoInv(video')
      BY <2>5, CallbackIs
    <2> QED
      BY <1>0, <2>5, <2>6, <2>7 DEF ChangesOnly, BaseFields
  <1>3. ASSUME NEW p, Video!Sixty6Param(p)
        PROVE  Kept
    <2>1. ChangesOnly(video, video', {"params", "changed"}) /\ video'.changed
      BY <1>0, <1>3 DEF Video!Sixty6Param, ChangesOnly
    <2>2. Video!VideoInv(video')
      BY <2>1, CallbackIs
    <2> QED
      BY <1>0, <2>1, <2>2 DEF ChangesOnly, BaseFields
  <1>4. ASSUME NEW en, NEW format, Video!Control1(en, format)
        PROVE  Kept
    <2> DEFINE t == [video EXCEPT !.enable = @ \/ en, !.format = format, !.vbl = FALSE]
               apply == video.changed \/ format # video.applied[2]
    <2>1. /\ ChangesOnly(video, t, {"enable", "format", "vbl"})
          /\ (video.enable => t.enable) /\ t.format = format
      BY <1>0 DEF ChangesOnly
    <2>2. video' = IF apply THEN [Video!Sixty6EnableDisplay(t) EXCEPT !.changed = FALSE] ELSE t
      BY <1>4 DEF Video!Control1
    <2> HIDE DEF t
    <2>3. CASE ~apply
      <3>1. ~video.changed /\ format = video.format
        BY <2>3
      <3>2. Video!VideoInv(video')
        BY <2>1, <2>2, <2>3, CallbackIs
      <3> QED
        BY <1>0, <2>1, <2>2, <2>3, <3>1, <3>2 DEF ChangesOnly, BaseFields
    <2>4. CASE apply
      <3> USE DEF Video!VideoInv, Video!OneRefreshTimer, Video!NothingUndrawn
      <3> DEFINE a == [t EXCEPT !.applied = <<t.params, t.format>>]
                 b == Video!StopRefreshTask(a)
                 on == t.params # "bad"
                 d == Video!StartRefreshTask(b)
                 c == IF on THEN d ELSE b
                 e == [c EXCEPT !.blank = ~on, !.crtc = on]
      <3>1. ChangesOnly(t, a, {"applied"}) /\ a.applied = <<t.params, t.format>>
        BY <1>0, <2>1 DEF ChangesOnly
      <3>2. video' = [e EXCEPT !.changed = FALSE]
        BY <2>2, <2>4 DEF Video!Sixty6EnableDisplay
      <3> HIDE DEF a
      <3>3. BaseFields \subseteq DOMAIN a
        BY <1>0, <2>1, <3>1 DEF ChangesOnly
      <3>4. /\ ChangesOnly(a, b, {"refresh", "vblEnd", "orphan"})
            /\ b.orphan <=> a.orphan \/ (a.vblEnd /\ a.line)
        BY <3>3, StopIs
      <3>5. /\ ChangesOnly(a, d, {"refresh", "vblEnd", "orphan", "shown", "twice"})
            /\ d.refresh /\ (d.twice <=> a.twice)
            /\ d.orphan <=> a.orphan \/ (a.vblEnd /\ a.line)
        BY <3>3, RestartIs
      <3> HIDE DEF b, d, on
      <3>6. /\ ChangesOnly(a, c, {"refresh", "vblEnd", "orphan", "shown", "twice"})
            /\ (on => c.refresh) /\ (c.twice <=> a.twice)
            /\ c.orphan <=> a.orphan \/ (a.vblEnd /\ a.line)
        BY <3>3, <3>4, <3>5 DEF ChangesOnly, BaseFields
      <3> HIDE DEF c
      <3>7. ChangesOnly(c, e, {"blank", "crtc"}) /\ (e.crtc <=> on)
        BY <3>3, <3>6 DEF ChangesOnly, BaseFields
      <3> HIDE DEF e
      <3>8. ChangesOnly(e, video', {"changed"})
        BY <3>2 DEF ChangesOnly
      <3>9. ChangesOnly(video, video', {"enable", "format", "vbl", "applied", "refresh", "vblEnd",
                                        "orphan", "shown", "twice", "blank", "crtc", "changed"})
        BY <2>1, <3>1, <3>6, <3>7, <3>8 DEF ChangesOnly
      <3>10. /\ video'.crtc => video'.refresh
             /\ ~video'.twice
             /\ video'.line => video'.orphan \/ (~video.vblEnd /\ ~video.orphan)
             /\ video'.applied = <<video'.params, video'.format>>
        BY <1>0, <2>1, <3>1, <3>6, <3>7, <3>8 DEF ChangesOnly, BaseFields
      <3> QED
        BY <1>0, <3>9, <3>10 DEF ChangesOnly, BaseFields
    <2> QED
      BY <2>3, <2>4
  <1> QED
    BY <1>1, <1>2, <1>3, <1>4 DEF Video!Sixty6Next

\* A step of an on-board controller keeps the invariant of its kind.
LEMMA OnboardKept ==
    ASSUME Video!OnboardInv, Video!Next
    PROVE  Video!OnboardInv'
  <1> HIDE DEF Video!OnboardInv
  <1>0. /\ Video!VideoInv(video)
        /\ \/ video.kind = "control" /\ Video!ControlInv
           \/ video.kind = "platinum" /\ Video!PlatinumInv
           \/ video.kind = "valkyrie" /\ Video!ValkyrieInv
           \/ video.kind = "pdm" /\ Video!PdmInv
           \/ video.kind = "taos" /\ Video!TaosInv
           \/ video.kind = "sixty6" /\ Video!Sixty6Inv
    BY DEF Video!OnboardInv
  <1>1. CASE Video!ControlNext
    BY <1>0, <1>1, ControlStep DEF Video!ControlNext
  <1>2. CASE Video!PlatinumNext
    BY <1>0, <1>2, PlatinumStep DEF Video!PlatinumNext
  <1>3. CASE Video!ValkyrieNext
    BY <1>0, <1>3, ValkyrieStep DEF Video!ValkyrieNext
  <1>4. CASE Video!PdmNext
    BY <1>0, <1>4, PdmStep DEF Video!PdmNext
  <1>5. CASE Video!TaosNext
    BY <1>0, <1>5, TaosStep DEF Video!TaosNext
  <1>6. CASE Video!Sixty6Next
    BY <1>0, <1>6, Sixty6Step DEF Video!Sixty6Next
  <1> QED
    BY <1>1, <1>2, <1>3, <1>4, <1>5, <1>6 DEF Video!Next

LEMMA OnboardPromises ==
    ASSUME Video!OnboardInv
    PROVE  /\ Video!LinesFall /\ Video!RegistersApplied
           /\ Video!OffStaysOff /\ Video!Refreshed
  BY DEF Video!OnboardInv, Video!VideoInv, Video!LinesFall, Video!RegistersApplied,
         Video!OffStaysOff, Video!Refreshed, Video!LineFalls, Video!ControlInv,
         Video!PlatinumInv, Video!ValkyrieInv, Video!PdmInv, Video!TaosInv, Video!Sixty6Inv

(* The ATI controllers.                                                      *)

LEMMA Mach64Kept ==
    ASSUME Video!Mach64Inv, Video!MachNext
    PROVE  Video!Mach64Inv'
  <1> USE FieldsAre
  <1> DEFINE Fields == BaseFields \cup {"en", "int", "vblank", "enable", "dis", "place", "fmt",
                                        "applied", "curEnable"}
             Pending(s) == s.line <=> s.en \intersect s.int # {}
             Good(s) == /\ Video!VideoInv(s) /\ Fields \subseteq DOMAIN s
                        /\ s.dis \in BOOLEAN /\ s.blank \in BOOLEAN
                        /\ s.enable \in BOOLEAN /\ s.curEnable \in BOOLEAN
                        /\ Pending(s) /\ (s.vblEnd => s.vblank)
                        /\ s.curEnable => s.cursorOn
             Blanked(s) == s.blank = s.dis
  <1>0. Good(video) /\ Blanked(video)
    BY DEF Video!Mach64Inv, Video!LineIsPending, Video!BlankingShown
  <1> SUFFICES Good(video') /\ Blanked(video')
    BY DEF Video!Mach64Inv, Video!LineIsPending, Video!BlankingShown
  <1>I. ASSUME NEW s, Fields \subseteq DOMAIN s
        PROVE  LET t == Video!UpdateInterrupt(s)
               IN  ChangesOnly(s, t, {"line"}) /\ Pending(t)
    BY <1>I DEF Video!UpdateInterrupt, ChangesOnly, BaseFields
  \* whoever changes the interrupt registers ends with update_interrupt()
  <1>W. ASSUME NEW s, NEW r, Good(s), ChangesOnly(s, r, {"en", "int", "vblank", "vblEnd"})
        PROVE  LET t == Video!UpdateInterrupt(r)
               IN  /\ ChangesOnly(s, t, {"en", "int", "vblank", "vblEnd", "line"})
                   /\ t.vblank = r.vblank /\ t.vblEnd = r.vblEnd
                   /\ Pending(t) /\ Video!VideoInv(t)
    <2> DEFINE t == Video!UpdateInterrupt(r)
    <2>1. ChangesOnly(r, t, {"line"}) /\ Pending(t)
      BY <1>I, <1>W DEF ChangesOnly
    <2> HIDE DEF t
    <2>2. ChangesOnly(s, t, {"en", "int", "vblank", "vblEnd", "line"})
      BY <1>W, <2>1 DEF ChangesOnly
    <2>3. Video!VideoInv(t)
      BY <1>W, <2>2, CallbackIs
    <2>4. t.vblank = r.vblank /\ t.vblEnd = r.vblEnd
      BY <1>W, <2>1 DEF ChangesOnly, BaseFields
    <2> QED
      BY <2>1, <2>2, <2>3, <2>4 DEF t
  <1>1. CASE video.refresh /\ video' = Video!RefreshTimeout(Video!VblCb(video, TRUE))
    <2> DEFINE r == [video EXCEPT !.vblank = TRUE, !.int = Video!Ints]
               a == Video!UpdateInterrupt(r)
    <2>1. ChangesOnly(video, r, {"en", "int", "vblank", "vblEnd"}) /\ r.vblank
      BY <1>0 DEF ChangesOnly
    <2>2. Video!VblCb(video, TRUE) = a
      BY DEF Video!VblCb
    <2> HIDE DEF r
    <2>3. /\ ChangesOnly(video, a, {"en", "int", "vblank", "vblEnd", "line"})
          /\ a.vblank = r.vblank /\ Pending(a) /\ Video!VideoInv(a)
      BY <1>0, <1>W, <2>1
    <2> HIDE DEF a
    <2>4. /\ ChangesOnly(a, video', {"vblEnd", "shown", "cursorOn", "dirty", "drawFb"})
          /\ video'.vblEnd /\ Video!VideoInv(video')
          /\ a.cursorOn => video'.cursorOn
      BY <1>1, <2>2, <2>3, RefreshIs
    <2>5. ChangesOnly(video, video', {"en", "int", "vblank", "vblEnd", "line", "shown",
                                      "cursorOn", "dirty", "drawFb"})
      BY <2>3, <2>4 DEF ChangesOnly
    <2>6. /\ video'.vblank /\ Pending(video')
          /\ video.cursorOn => video'.cursorOn
      BY <1>0, <2>1, <2>3, <2>4, ZenonT(60) DEF ChangesOnly, BaseFields
    <2> QED
      BY <1>0, <2>4, <2>5, <2>6 DEF ChangesOnly, BaseFields
  <1>2. CASE video.vblEnd /\ video' = Video!VblCb(Video!VblEndTimeout(video), FALSE)
    <2> DEFINE a == Video!VblEndTimeout(video)
               r == [a EXCEPT !.vblank = FALSE, !.int = a.int]
    <2>1. ChangesOnly(video, a, {"vblEnd"}) /\ ~a.vblEnd
      BY <1>0, VblEndIs
    <2>2. video' = Video!UpdateInterrupt(r)
      BY <1>2 DEF Video!VblCb
    <2> HIDE DEF a
    <2>3. ChangesOnly(video, r, {"en", "int", "vblank", "vblEnd"}) /\ ~r.vblEnd
      BY <1>0, <2>1 DEF ChangesOnly, BaseFields
    <2> HIDE DEF r
    <2>4. /\ ChangesOnly(video, video', {"en", "int", "vblank", "vblEnd", "line"})
          /\ video'.vblEnd = r.vblEnd /\ Pending(video') /\ Video!VideoInv(video')
      BY <1>0, <1>W, <2>2, <2>3
    <2> QED
      BY <1>0, <2>3, <2>4 DEF ChangesOnly, BaseFields
  <1>3. CASE \/ \E en, ack \in SUBSET Video!Ints : Video!CrtcIntCntl(en, ack)
             \/ Video!CrtcIntCntlOtherLane
    <2>1. PICK e, i : video' = Video!UpdateInterrupt([video EXCEPT !.en = e, !.int = i])
      <3>1. CASE Video!CrtcIntCntlOtherLane
        <4>1. [video EXCEPT !.int = {}] = [video EXCEPT !.en = video.en, !.int = {}]
          BY <1>0
        <4> QED
          BY <3>1, <4>1 DEF Video!CrtcIntCntlOtherLane
      <3> QED
        BY <1>3, <3>1 DEF Video!CrtcIntCntl
    <2> DEFINE r == [video EXCEPT !.en = e, !.int = i]
    <2>2. /\ ChangesOnly(video, r, {"en", "int", "vblank", "vblEnd"})
          /\ r.vblank = video.vblank /\ r.vblEnd = video.vblEnd
      BY <1>0 DEF ChangesOnly, BaseFields
    <2>3. video' = Video!UpdateInterrupt(r)
      BY <2>1
    <2> HIDE DEF r
    <2>4. /\ ChangesOnly(video, video', {"en", "int", "vblank", "vblEnd", "line"})
          /\ video'.vblank = r.vblank /\ video'.vblEnd = r.vblEnd
          /\ Pending(video') /\ Video!VideoInv(video')
      BY <1>0, <1>W, <2>2, <2>3
    <2> QED
      BY <1>0, <2>2, <2>4 DEF ChangesOnly, BaseFields
  \* registers that are only stored
  <1>P. ASSUME NEW s, Good(s), NEW t, ChangesOnly(s, t, {"place", "fmt", "applied", "dirty"})
        PROVE  Good(t) /\ t.blank = s.blank /\ t.dis = s.dis
    <2>1. Video!VideoInv(t)
      BY <1>P, CallbackIs
    <2> QED
      BY <1>P, <2>1 DEF ChangesOnly, BaseFields
  <1> USE DEF Video!VideoInv, Video!OneRefreshTimer, Video!NothingUndrawn
  <1>S. ASSUME NEW s, Good(s)
        PROVE  LET t == Video!SetDrawFb(s)
               IN  Good(t) /\ t.drawFb /\ t.blank = s.blank /\ t.dis = s.dis
    <2> DEFINE t == Video!SetDrawFb(s)
    <2>1. ChangesOnly(s, t, {"shown", "drawFb"}) /\ t.drawFb
      BY <1>S, DrawIs
    <2> HIDE DEF t
    <2>2. Good(t) /\ t.blank = s.blank /\ t.dis = s.dis
      BY <1>S, <2>1 DEF ChangesOnly, BaseFields
    <2> QED
      BY <2>1, <2>2 DEF t
  <1>R. ASSUME NEW s, Good(s)
        PROVE  LET t == Video!CrtcUpdate(s)
               IN  Good(t) /\ t.blank = s.blank /\ t.dis = s.dis
    <2> DEFINE a == [s EXCEPT !.applied = <<s.place, s.fmt>>]
               b == Video!SetDrawFb(a)
               c == Video!StartRefreshTask(Video!StopRefreshTask(b))
               d == [c EXCEPT !.crtc = TRUE]
    <2>1. ChangesOnly(s, a, {"place", "fmt", "applied", "dirty"})
      BY <1>R DEF ChangesOnly
    <2>2. Video!CrtcUpdate(s) \in {s, d}
      BY DEF Video!CrtcUpdate, Video!Restarted
    <2> HIDE DEF a
    <2>3. Good(a) /\ a.blank = s.blank /\ a.dis = s.dis
      BY <1>R, <1>P, <2>1
    <2>4. Good(b) /\ b.drawFb /\ b.blank = s.blank /\ b.dis = s.dis
      BY <1>S, <2>3
    <2> HIDE DEF b
    <2>5. /\ ChangesOnly(b, c, {"refresh", "vblEnd", "orphan", "shown", "twice"})
          /\ c.refresh /\ ~c.vblEnd /\ (c.twice <=> b.twice)
      BY <2>4, RestartIs
    <2> HIDE DEF c
    <2>6. ChangesOnly(c, d, {"crtc"})
      BY <2>5 DEF ChangesOnly
    <2> HIDE DEF d
    <2>7. Good(d) /\ d.blank = s.blank /\ d.dis = s.dis
      BY <2>4, <2>5, <2>6 DEF ChangesOnly, BaseFields
    <2> QED
      BY <1>R, <2>2, <2>7
  <1>B. ASSUME NEW dis \in BOOLEAN
        PROVE  LET t == Video!DisplayDis(video, dis)
               IN  Good(t) /\ t.blank = dis
    <2> DEFINE a == [video EXCEPT !.blank = TRUE]
               b == [video EXCEPT !.blank = FALSE]
               c == Video!BlankDisplay(a)
    <2>1. ChangesOnly(video, a, {"blank"}) /\ a.blank = TRUE
      BY <1>0 DEF ChangesOnly, BaseFields
    <2>2. ChangesOnly(video, b, {"blank"}) /\ b.blank = FALSE
      BY <1>0 DEF ChangesOnly, BaseFields
    <2>3. Video!DisplayDis(video, dis) = IF dis = video.dis THEN video ELSE IF dis THEN c ELSE b
      BY DEF Video!DisplayDis
    <2> HIDE DEF a, b
    <2>4. ChangesOnly(a, c, {"shown"}) /\ c.shown = "blank"
      BY <1>0, <2>1, BlankIs DEF ChangesOnly
    <2> HIDE DEF c
    <2>5. Good(c) /\ c.blank = TRUE
      <3>1. ChangesOnly(video, c, {"blank", "shown"})
        BY <2>1, <2>4 DEF ChangesOnly
      <3>2. c.blank = TRUE
        BY <1>0, <2>1, <2>4 DEF ChangesOnly, BaseFields
      <3>3. c.blank \in BOOLEAN
        BY <3>2
      <3> QED
        BY <1>0, <2>4, <3>1, <3>2, <3>3 DEF ChangesOnly, BaseFields
    <2>6. Good(b)
      BY <1>0, <2>2 DEF ChangesOnly, BaseFields
    <2> HIDE DEF Good
    <2> QED
      BY <1>0, <2>2, <2>3, <2>5, <2>6
  <1>4. ASSUME NEW dis \in BOOLEAN, NEW enable \in BOOLEAN, NEW f,
               Video!RageGenCntl(dis, enable, f)
        PROVE  Good(video') /\ Blanked(video')
    <2> DEFINE t == Video!DisplayDis(video, dis)
               u == IF enable = video.enable /\ f = video.fmt THEN t
                    ELSE IF enable /\ ~dis THEN Video!CrtcUpdate(Video!SetDrawFb(t))
                    ELSE Video!SetDrawFb(t)
    <2>1. Good(t) /\ t.blank = dis
      BY <1>B
    <2>2. video' = [u EXCEPT !.dis = dis, !.enable = enable, !.fmt = f]
      BY <1>4 DEF Video!RageGenCntl
    <2> HIDE DEF t
    <2>3. Good(u) /\ u.blank = dis
      <3> HIDE DEF Good
      <3> QED
        BY <1>R, <1>S, <2>1
    <2> HIDE DEF u
    <2>4. /\ ChangesOnly(u, video', {"dis", "enable", "fmt"})
          /\ video'.dis = dis /\ video'.enable = enable
      BY <2>2, <2>3 DEF ChangesOnly
    <2> QED
      BY <2>3, <2>4 DEF ChangesOnly, BaseFields
  <1>5. ASSUME NEW dis \in BOOLEAN, NEW enable \in BOOLEAN, Video!GxGenCntl(dis, enable)
        PROVE  Good(video') /\ Blanked(video')
    <2> DEFINE u == Video!DisplayDis(video, dis)
               t == [u EXCEPT !.dis = dis, !.enable = enable]
    <2>1. Good(u) /\ u.blank = dis
      BY <1>B
    <2>2. video' \in {t, Video!CrtcUpdate(Video!SetDrawFb(t))}
      BY <1>5 DEF Video!GxGenCntl
    <2> HIDE DEF u
    <2>3. /\ ChangesOnly(u, t, {"dis", "enable"})
          /\ t.dis = dis /\ t.enable = enable
      BY <2>1 DEF ChangesOnly
    <2> HIDE DEF t
    <2>4. Good(t) /\ t.blank = t.dis
      BY <2>1, <2>3 DEF ChangesOnly, BaseFields
    <2> HIDE DEF Good
    <2> QED
      BY <1>R, <1>S, <2>2, <2>4
  <1>6. ASSUME NEW f, Video!Rgb514Format(f) \/ Video!CrtcOffPitch(f) \/ Video!CrtcTiming(f)
        PROVE  Good(video') /\ Blanked(video')
    <2>1. /\ ChangesOnly(video, [video EXCEPT !.fmt = f], {"place", "fmt", "applied", "dirty"})
          /\ ChangesOnly(video, [video EXCEPT !.place = f], {"place", "fmt", "applied", "dirty"})
      BY <1>0 DEF ChangesOnly
    <2>2. PICK a \in {[video EXCEPT !.fmt = f], [video EXCEPT !.place = f]} :
             video' \in {a, Video!CrtcUpdate(a)}
      BY <1>6 DEF Video!Rgb514Format, Video!CrtcOffPitch, Video!CrtcTiming
    <2>3. ChangesOnly(video, a, {"place", "fmt", "applied", "dirty"})
      BY <2>1, <2>2
    <2>4. Good(a) /\ a.blank = video.blank /\ a.dis = video.dis
      BY <1>0, <1>P, <2>3
    <2> HIDE DEF Good
    <2> QED
      BY <1>0, <1>R, <2>2, <2>4
  <1>7. CASE Video!CurClr \/ \E new \in BOOLEAN : Video!CurOffset(new)
    <2>1. PICK w : video' = Video!SetDrawFb([video EXCEPT !.dirty = w])
      BY <1>7 DEF Video!CurClr, Video!CurOffset
    <2> DEFINE a == [video EXCEPT !.dirty = w]
    <2>2. ChangesOnly(video, a, {"place", "fmt", "applied", "dirty"})
      BY <1>0 DEF ChangesOnly
    <2>3. video' = Video!SetDrawFb(a)
      BY <2>1
    <2> HIDE DEF a
    <2>4. Good(a) /\ a.blank = video.blank /\ a.dis = video.dis
      BY <1>0, <1>P, <2>2
    <2> HIDE DEF Good
    <2> QED
      BY <1>0, <1>S, <2>3, <2>4
  <1>8. ASSUME NEW on \in BOOLEAN, Video!GenTestCntl(on)
        PROVE  Good(video') /\ Blanked(video')
    <2> DEFINE a == [video EXCEPT !.curEnable = on, !.cursorOn = on]
    <2>1. ChangesOnly(video, a, {"curEnable", "cursorOn"}) /\ a.curEnable = on /\ a.cursorOn = on
      BY <1>0 DEF ChangesOnly, BaseFields
    <2>2. video' = video \/ video' = Video!SetDrawFb(a)
      BY <1>8 DEF Video!GenTestCntl
    <2> HIDE DEF a
    <2>3. Good(a) /\ a.blank = video.blank /\ a.dis = video.dis
      BY <1>0, <2>1 DEF ChangesOnly, BaseFields
    <2> HIDE DEF Good
    <2> QED
      BY <1>0, <1>S, <2>2, <2>3
  <1>9. CASE Video!Drawn
    BY <1>0, <1>S, <1>9 DEF Video!Drawn
  <1> QED
    BY <1>1, <1>2, <1>3, <1>4, <1>5, <1>6, <1>7, <1>8, <1>9 DEF Video!MachNext

\* The display controllers of all boards, whatever modes the guest selects: a
\* line that is raised is lowered by vbl_cb or its owner unless a register write
\* or stop_refresh_task() cut it off, the running display uses the registers
\* written last, what was switched off stays off, and one refresh timer draws
\* every change.
THEOREM DisplaysServed == MCSpec => []DisplayServed
  <1> DEFINE Inv == /\ focus = "onboard" => Video!OnboardInv
                    /\ focus = "mach64" => Video!Mach64Inv
  <1>1. MCInit => Inv
    BY OnboardStarts, Mach64Starts DEF MCInit
  <1>2. Inv /\ [MCNext]_vars => Inv'
    <2> SUFFICES ASSUME Inv, [MCNext]_vars
                 PROVE  Inv'
      OBVIOUS
    <2>1. CASE focus = "onboard" /\ Video!Next /\ UNCHANGED focus
      BY <2>1, OnboardKept
    <2>2. CASE focus = "mach64" /\ Video!MachNext /\ UNCHANGED focus
      BY <2>2, Mach64Kept
    <2>3. CASE UNCHANGED <<focus, video>>
      <3>1. Video!OnboardInv => Video!OnboardInv'
        BY <2>3 DEF Video!OnboardInv, Video!VideoInv, Video!ControlInv, Video!PlatinumInv,
                    Video!ValkyrieInv, Video!PdmInv, Video!TaosInv, Video!Sixty6Inv
      <3>2. Video!Mach64Inv => Video!Mach64Inv'
        BY <2>3 DEF Video!Mach64Inv, Video!LineIsPending, Video!BlankingShown
      <3> QED
        BY <2>3, <3>1, <3>2
    <2> QED
      BY <2>1, <2>2, <2>3 DEF MCNext, vars, dispvars
  <1>3. Inv => DisplayServed
    <2>1. Video!Mach64Inv => Video!LineIsPending /\ Video!BlankingShown /\ Video!Served
      BY DEF Video!Mach64Inv, Video!VideoInv, Video!Served
    <2> QED
      BY <2>1, OnboardPromises DEF DisplayServed
  <1> QED
    BY <1>1, <1>2, <1>3, PTL DEF MCSpec
=============================================================================
