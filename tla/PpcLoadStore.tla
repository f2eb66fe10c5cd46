---------------------------- MODULE PpcLoadStore ----------------------------
(* The load and store instructions (ppcopcodes.cpp, poweropcodes.cpp) over   *)
(* the data accesses of the MMU (ppcmmu.cpp), big endian, in a guest that    *)
(* pages on demand: an access to a page that is not mapped leaves the        *)
(* instruction by an exception with whatever it has done so far, the handler *)
(* maps the page and the instruction starts again. A register is a tuple of  *)
(* four bytes; as an address it is its last byte. Bytes of memory are marked *)
(* with their address; the copies of a sign bit are the negated byte.        *)
EXTENDS Integers, Sequences, SequencesExt

CONSTANTS NReg,         \* number of registers, 32 in the code
          Page,         \* size of a page
          Pages         \* number of pages

VARIABLE ls

Gpr == 0..(NReg - 1)
Address == 0..(Page * Pages - 1)
PageOf(ea) == ea \div Page
Zero == <<0, 0, 0, 0>>
AsAddr(v) == IF v[4] \in Address THEN v[4] ELSE 0
Base(reg, a) == IF a = 0 THEN 0 ELSE AsAddr(reg[a])

Loads == {"lbz", "lhz", "lwz", "lha", "lhbrx", "lwbrx", "lwarx", "eciwx"}
Stores == {"stb", "sth", "stw", "sthbrx", "stwbrx", "stwcx", "ecowx", "dcbz"}
Updates == {"lzu", "lhau", "stu"}
Strings == {"lswi", "lswx", "stswi", "stswx", "lscbx"}
Multiples == {"lmw", "stmw"}
Size(op) ==
    CASE op \in {"lbz", "stb"} -> 1 [] op \in {"lhz", "lha", "lhau", "lhbrx", "sth", "sthbrx"} -> 2 [] OTHER -> 4

-----------------------------------------------------------------------------
(* Accesses. s is the state of the machine while an instruction runs:        *)
(* registers, memory, the address that faulted or -1.                        *)

Bytes(m, ea, n) == [k \in 1..n |-> m[ea + k - 1]]

\* how the bytes of a load come to lie in the register: "left" and "third" are
\* the pieces of a string
LeftJustified(b) == [k \in 1..4 |-> IF k <= Len(b) THEN b[k] ELSE 0]
Placed(how, b, old) ==
    CASE how = "lha" -> <<-b[1], -b[1], b[1], b[2]>>
      [] how = "lhbrx" -> <<0, 0, b[2], b[1]>>
      [] how = "lwbrx" -> Reverse(b)
      [] how = "left" -> LeftJustified(b)
      [] how = "third" -> [old EXCEPT ![3] = b[1]]
      [] OTHER -> [k \in 1..4 |-> IF k <= 4 - Len(b) THEN 0 ELSE b[k - 4 + Len(b)]]

\* mmu_read_vmem<T>(), read_unaligned(): a page that is missing is noticed
\* before anything is returned
Missing(ea, n, mapped) == {k \in ea..(ea + n - 1) : PageOf(k) \notin mapped}
Fault(s, ea, n, mapped) == [s EXCEPT !.fault = CHOOSE k \in Missing(ea, n, mapped) :
                                                  \A j \in Missing(ea, n, mapped) : k <= j]
mmu_read_vmem(s, ea, n, mapped, r, how) ==
    IF s.fault >= 0 THEN s
    ELSE IF Missing(ea, n, mapped) # {} THEN Fault(s, ea, n, mapped)
    ELSE IF r \notin Gpr THEN s ELSE [s EXCEPT !.reg[r] = Placed(how, Bytes(s.mem, ea, n), @)]

\* mmu_write_vmem<T>(), write_unaligned(): a write that crosses a page is one
\* of bytes, and those on the first page are stored when the second faults
mmu_write_vmem(s, ea, data, mapped) ==
    IF s.fault >= 0 THEN s
    ELSE LET n == Len(data)
             x == IF Missing(ea, n, mapped) = {} THEN s ELSE Fault(s, ea, n, mapped)
             done == IF x.fault >= 0 THEN x.fault - ea ELSE n
         IN [x EXCEPT !.mem = [k \in DOMAIN @ |-> IF k \in ea..(ea + done - 1) THEN data[k - ea + 1] ELSE @[k]]]

\* what a store takes from the register
Taken(op, v) ==
    CASE op = "sthbrx" -> <<v[4], v[3]>>
      [] op = "stwbrx" -> Reverse(v)
      [] op = "dcbz" -> Zero
      [] OTHER -> SubSeq(v, 5 - Size(op), 4)

-----------------------------------------------------------------------------
(* Instructions: i.op, registers i.d, i.a, i.b, displacement or length i.x.  *)

Indexed(i) == i.op \in {"lhbrx", "lwbrx", "lwarx", "eciwx", "sthbrx", "stwbrx", "stwcx", "ecowx", "dcbz", "lswx",
                        "stswx", "lscbx"}
Ea(i, reg) ==
    Base(reg, i.a) + (IF Indexed(i) THEN AsAddr(reg[i.b]) ELSE IF i.op \in {"lswi", "stswi"} THEN 0 ELSE i.x)

ppc_lz(i, s, mapped) == mmu_read_vmem(s, Ea(i, s.reg), Size(i.op), mapped, i.d, i.op)
ppc_st(i, s, mapped) ==
    LET ea == IF i.op = "dcbz" THEN (Ea(i, s.reg) \div 4) * 4 ELSE Ea(i, s.reg)
    IN mmu_write_vmem(s, ea, Taken(i.op, s.reg[i.d]), mapped)

\* forms with update: rA changes last
Updated(i, s, old) == IF s.fault >= 0 THEN s ELSE [s EXCEPT !.reg[i.a] = <<0, 0, 0, Ea(i, old.reg)>>]
Illegal(i) ==
    \/ i.op \in {"lzu", "lhau"} /\ i.a \in {0, i.d}
    \/ i.op = "stu" /\ i.a = 0 /\ ~i.is601
ppc_lzu(i, s, mapped) == Updated(i, ppc_lz([i EXCEPT !.op = IF @ = "lzu" THEN "lwz" ELSE "lha"], s, mapped), s)

\* mutant: rA changes first
ppc_stuFirst(i, s, mapped) == ppc_st([i EXCEPT !.op = "stw", !.x = 0], Updated(i, s, s), mapped)

ppc_stu(i, s, mapped) ==
    LET x == ppc_st([i EXCEPT !.op = "stw"], s, mapped) IN IF i.a = 0 THEN x ELSE Updated(i, x, s)

\* The reservation has no address. stwcx. clears CR0 before the store.
ppc_lwarx(i, s, mapped) == ppc_lz(i, [s EXCEPT !.reserve = TRUE], mapped)
ppc_stwcx(i, s, mapped) ==
    LET c == [s EXCEPT !.eq = FALSE]
        x == ppc_st(i, c, mapped)
    IN IF ~s.reserve THEN c ELSE IF x.fault >= 0 THEN x ELSE [x EXCEPT !.reserve = FALSE, !.eq = TRUE]

ppc_lmw(i, s, mapped) ==
    LET step(x, k) == mmu_read_vmem(x, Ea(i, s.reg) + 4 * k, 4, mapped, i.d + k, "lwz")
    IN FoldLeft(step, s, [k \in 1..(NReg - i.d) |-> k - 1])
ppc_stmw(i, s, mapped) ==
    LET ea == Ea(i, s.reg)
        step(x, k) == mmu_write_vmem(x, ea + 4 * k, x.reg[i.d + k], mapped)
    IN IF ea % 4 # 0 THEN [s EXCEPT !.exc = "alignment"] ELSE FoldLeft(step, s, [k \in 1..(NReg - i.d) |-> k - 1])

\* Strings: word k of a string of n bytes, in register d + k around through 0.
Length(i, s) == IF i.op \in {"lswi", "stswi"} THEN i.x ELSE s.count
WordsOf(n) == [k \in 1..((n + 3) \div 4) |-> k - 1]
Piece(n, k) == IF n - 4 * k >= 4 THEN 4 ELSE n - 4 * k
Wrap(r) == r % NReg

\* the last three bytes are a halfword, put into the register, and a byte
ppc_lswi(i, s, mapped) ==
    LET ea == Ea(i, s.reg)
        step(x, k) ==
            LET r == Wrap(i.d + k)  e == ea + 4 * k  n == Piece(i.x, k)
            IN IF n # 3 THEN mmu_read_vmem(x, e, n, mapped, r, "left")
               ELSE LET y == mmu_read_vmem(x, e, 2, mapped, r, "left")
                    IN mmu_read_vmem(y, e + 2, 1, mapped, r, "third")
    IN FoldLeft(step, s, WordsOf(i.x))
\* the 601 skips the registers that hold the address
ppc_lswx(i, s, mapped) ==
    LET ea == Ea(i, s.reg)
        step(x, k) ==
            LET r == Wrap(i.d + k)
            IN IF i.is601 /\ (r = i.b \/ (i.a # 0 /\ r = i.a)) THEN x
               ELSE mmu_read_vmem(x, ea + 4 * k, Piece(s.count, k), mapped, r, "left")
    IN FoldLeft(step, s, WordsOf(s.count))
\* stswi and stswx
ppc_stsw(i, s, mapped) ==
    LET ea == Ea(i, s.reg)  n == Length(i, s)
        step(x, k) ==
            LET e == ea + 4 * k  v == SubSeq(x.reg[Wrap(i.d + k)], 1, Piece(n, k))
            IN IF Len(v) # 3 THEN mmu_write_vmem(x, e, v, mapped)
               ELSE mmu_write_vmem(mmu_write_vmem(x, e, SubSeq(v, 1, 2), mapped), e + 2, <<v[3]>>, mapped)
    IN FoldLeft(step, s, WordsOf(n))
\* up to and with the byte that matches; XER and CR0 change last
power_lscbx(i, s, mapped) ==
    LET ea == Ea(i, s.reg)
        hits == {k \in 1..s.count : s.mem[ea + k - 1] = i.x}
        n == IF hits = {} THEN s.count ELSE CHOOSE k \in hits : \A j \in hits : k <= j
        step(x, k) ==
            LET r == Wrap(i.d + k)
            IN mmu_read_vmem(x, ea + 4 * k, Piece(n, k), mapped, IF r \in {i.a, i.b} THEN -1 ELSE r, "left")
        y == FoldLeft(step, s, WordsOf(n))
    IN IF y.fault >= 0 THEN y ELSE [y EXCEPT !.count = n, !.eq = hits # {}]

Execute(i, s, mapped) ==
    CASE Illegal(i) -> [s EXCEPT !.exc = "illegal"]
      [] i.op \in {"eciwx", "ecowx"} /\ ~i.is601 -> [s EXCEPT !.exc = "dsi"]       \* EAR[E] is clear
      [] i.op \in {"eciwx", "ecowx"} /\ i.is601 /\ Ea(i, s.reg) % 4 # 0 -> [s EXCEPT !.exc = "alignment"]
      [] i.op \in {"lzu", "lhau"} /\ ~Illegal(i) -> ppc_lzu(i, s, mapped)
      [] i.op = "stu" /\ ~Illegal(i) -> ppc_stu(i, s, mapped)
      [] i.op = "lwarx" -> ppc_lwarx(i, s, mapped)    [] i.op = "stwcx" -> ppc_stwcx(i, s, mapped)
      [] i.op = "lmw" -> ppc_lmw(i, s, mapped)        [] i.op = "stmw" -> ppc_stmw(i, s, mapped)
      [] i.op = "lswi" -> ppc_lswi(i, s, mapped)      [] i.op = "lswx" -> ppc_lswx(i, s, mapped)
      [] i.op \in {"stswi", "stswx"} -> ppc_stsw(i, s, mapped)
      [] i.op = "lscbx" -> power_lscbx(i, s, mapped)
      [] i.op \in Loads \ {"lwarx", "eciwx"} \/ (i.op = "eciwx" /\ i.is601) -> ppc_lz(i, s, mapped)
      [] i.op \in Stores \ {"stwcx", "ecowx"} \/ (i.op = "ecowx" /\ i.is601) -> ppc_st(i, s, mapped)

-----------------------------------------------------------------------------
(* The guest.                                                              *)

LsInit == ls = [step |-> "idle"]

\* r1 holds an address, r2 an index, the others data
Machine(base, count, reserve) ==
    [reg |-> [r \in Gpr |-> IF r = 1 THEN <<0, 0, 0, base>> ELSE IF r = 2 THEN <<0, 0, 0, 1>>
                            ELSE <<100 + r, 200 + r, 300 + r, 400 + r>>],
     mem |-> [k \in Address |-> 20 + k], fault |-> -1, exc |-> "none", reserve |-> reserve, eq |-> TRUE,
     count |-> count]

Fetch(op, d, a, x, base, mapped, is601) ==
    /\ ls.step = "idle"
    /\ LET i == [op |-> op, d |-> d, a |-> a, b |-> 2, x |-> x, is601 |-> is601]
           s == Machine(base, IF op = "lscbx" THEN 7 ELSE x, is601)
       IN ls' = [step |-> "run", insn |-> i, old |-> s, now |-> s, mapped |-> mapped, faults |-> 0]

Run ==
    /\ ls.step = "run"
    /\ LET y == Execute(ls.insn, ls.now, ls.mapped)
       IN ls' = [ls EXCEPT !.now = y, !.step = IF y.fault >= 0 THEN "fault" ELSE "done"]

\* the handler maps the page and returns to the instruction
MapPage ==
    /\ ls.step = "fault"
    /\ ls' = [ls EXCEPT !.step = "run", !.mapped = @ \cup {PageOf(ls.now.fault)}, !.now.fault = -1, !.faults = @ + 1]

Done == ls.step = "done" /\ ls' = [step |-> "idle"]

LsNext ==
    \/ \E is601 \in BOOLEAN, base \in {4, 5, 6, 7}, mapped \in {{}, {0}, {1}} :
        \/ \E op \in Loads \cup Stores \cup Updates : \E d \in {1, 3}, a \in {0, 1} :
              Fetch(op, d, a, 1, base, mapped, is601)
        \/ \E op \in Multiples, d \in {1, 2, 3} : Fetch(op, d, 1, 0, base, mapped, is601)
        \/ \E op \in Strings \ {"lscbx"}, d \in {1, 3}, x \in 0..7 : Fetch(op, d, 1, x, base, mapped, is601)
        \/ \E x \in {24, 25, 29, 31, 99} : Fetch("lscbx", 3, 1, x, base, mapped, is601)
    \/ Run \/ MapPage \/ Done

-----------------------------------------------------------------------------
(* Properties.                                                             *)

\* forms the architecture allows: a multiple or string load does not overwrite
\* its address registers, except where the 601 leaves them out
Targets(i, s) ==
    IF i.op = "lmw" THEN i.d..(NReg - 1)
    ELSE {Wrap(i.d + k - 1) : k \in 1..((Length(i, s) + 3) \div 4)}
Valid(i, s) ==
    i.op \in {"lmw", "lswi", "lswx"} =>
        \/ i.op = "lswx" /\ i.is601
        \/ Targets(i, s) \cap ({i.a} \cup (IF Indexed(i) THEN {i.b} ELSE {})) = {}

\* An instruction that is interrupted by page faults, in the middle of a
\* multiple, of a string or of a word that crosses pages, and then restarted
\* leaves registers, memory, reservation, XER and CR0 as if every page had
\* been mapped, and faults at most once for each page.
Restartable ==
    ls.step = "done" /\ Valid(ls.insn, ls.old) =>
        /\ ls.now = Execute(ls.insn, ls.old, 0..(Pages - 1))
        /\ ls.faults <= Pages

\* A string is moved byte by byte: byte k lies in register d + k/4, around
\* through register 0, and the rest of the last register of a load is zero.
StringExact ==
    ls.step = "done" /\ ls.insn.op \in {"lswi", "lswx", "stswi", "stswx"} /\ ls.now.exc = "none"
        /\ Valid(ls.insn, ls.old) =>
        LET i == ls.insn  n == Length(i, ls.old)  ea == Ea(i, ls.old.reg)
            byte(s, k) == s.reg[Wrap(i.d + k \div 4)][(k % 4) + 1]
        IN IF i.op \in {"stswi", "stswx"}
           THEN /\ \A k \in 0..(n - 1) : ls.now.mem[ea + k] = byte(ls.old, k)
                /\ \A m \in Address \ (ea..(ea + n - 1)) : ls.now.mem[m] = ls.old.mem[m]
           ELSE \A k \in 0..(((n + 3) \div 4) * 4 - 1) :
                    Wrap(i.d + k \div 4) \in ({i.a} \cup IF Indexed(i) THEN {i.b} ELSE {})
                    \/ byte(ls.now, k) = IF k < n THEN ls.old.mem[ea + k] ELSE 0

\* Loads and stores survive page faults, and strings are moved exactly.
LoadStoreOK == Restartable /\ StringExact
=============================================================================
