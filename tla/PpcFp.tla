------------------------------- MODULE PpcFp --------------------------------
(* Floating point instructions (ppcfpopcodes.cpp): what they leave in FPSCR  *)
(* and which class of value they store. A value is <<kind, negative>>;       *)
(* arithmetic on finite values has every outcome rounding can give. FPSCR is *)
(* the set of its bits that are set, without FPCC and the rounding mode. The *)
(* host's own exception flags are state: they stay until an instruction that *)
(* ends in fpresult_update() reads and clears them.                          *)
EXTENDS Integers, FiniteSets

CONSTANT Length             \* instructions of a program

VARIABLE fp                 \* pc, fpscr, host, raised, last

Kinds == {"snan", "qnan", "inf", "zero", "fin", "max"}
Values == (Kinds \X BOOLEAN) \ {<<"snan", TRUE>>, <<"qnan", TRUE>>}
QNan == <<"qnan", FALSE>>
Inf(v) == v[1] = "inf"
Zero(v) == v[1] = "zero"
check_snan(v) == v[1] = "snan"
check_qnan(v) == v[1] = "qnan"
Nan(v) == check_snan(v) \/ check_qnan(v)
Neg(v) == IF Nan(v) THEN v ELSE <<v[1], ~v[2]>>

VXxx == {"VXSNAN", "VXISI", "VXIDI", "VXZDZ", "VXIMZ", "VXVC", "VXSOFT", "VXSQRT", "VXCVI"}
Exceptions == VXxx \cup {"FX", "OX", "UX", "ZX", "XX"}        \* the sticky bits
Fields == << {"FX", "FEX", "VX", "OX"}, {"UX", "ZX", "XX", "VXSNAN"}, {"VXISI", "VXIDI", "VXZDZ", "VXIMZ"},
             {"VXVC", "FR", "FI"}, {"VXSOFT", "VXSQRT", "VXCVI"}, {"VE"} >>
Bits == UNION {Fields[k] : k \in 1..6}

-----------------------------------------------------------------------------
(* The host's arithmetic: a set of <<value, host exceptions>>.              *)

Finite(neg) == {<<<<"fin", neg>>, {}>>, <<<<"max", neg>>, {}>>, <<<<"inf", neg>>, {"OX"}>>, <<<<"fin", neg>>, {"UX"}>>,
                <<<<"zero", neg>>, {"UX"}>>}
Sum(a, b) ==
    IF Nan(a) \/ Nan(b) \/ (Inf(a) /\ Inf(b) /\ a # b) THEN {<<QNan, {}>>}
    ELSE IF Inf(a) \/ Zero(b) THEN {<<a, {}>>}
    ELSE IF Inf(b) \/ Zero(a) THEN {<<b, {}>>}
    ELSE IF a[2] = b[2] THEN Finite(a[2]) ELSE Finite(TRUE) \cup Finite(FALSE) \cup {<<<<"zero", FALSE>>, {}>>}
Product(a, b) ==                                                \* exact: not yet rounded
    LET neg == a[2] # b[2]
    IN IF Nan(a) \/ Nan(b) \/ (Inf(a) /\ Zero(b)) \/ (Zero(a) /\ Inf(b)) THEN QNan
       ELSE IF Inf(a) \/ Inf(b) THEN <<"inf", neg>>
       ELSE IF Zero(a) \/ Zero(b) THEN <<"zero", neg>> ELSE <<"fin", neg>>
Rounded(v) == IF v[1] \in {"fin", "max"} THEN Finite(v[2]) ELSE {<<IF Nan(v) THEN QNan ELSE v, {}>>}
Quotient(a, b) ==
    LET neg == a[2] # b[2]
    IN IF Nan(a) \/ Nan(b) \/ (Inf(a) /\ Inf(b)) \/ (Zero(a) /\ Zero(b)) THEN {<<QNan, {}>>}
       ELSE IF Inf(a) THEN {<<<<"inf", neg>>, {}>>} ELSE IF Zero(b) THEN {<<<<"inf", neg>>, {"ZX"}>>}
       ELSE IF Zero(a) \/ Inf(b) THEN {<<<<"zero", neg>>, {}>>} ELSE Finite(neg)
Root(v) == IF Nan(v) \/ (v[2] /\ ~Zero(v)) THEN QNan ELSE IF v[1] = "max" THEN <<"fin", FALSE>> ELSE v

-----------------------------------------------------------------------------
(* Instructions: from FPSCR f, host flags h and operands to the set of       *)
(* [r, f, h, ...] they can leave.                                            *)

snan_check(f, ops) == IF \E v \in ops : check_snan(v) THEN f \cup {"FX", "VX", "VXSNAN"} ELSE f
max_double_check(f, a, b) == IF a = b /\ a[1] = "max" THEN f \cup {"FX", "OX", "XX", "FI"} ELSE f
set_endresult_nan(f) == f \cup {"FX", "VX"}
\* the host's flags reach FPSCR only here, and not when the result is a NaN
fpresult_update(f, h, v) ==
    IF Nan(v) THEN [r |-> v, f |-> f, h |-> h]
    ELSE [r |-> v, f |-> f \cup h \cup (IF h # {} THEN {"FX"} ELSE {}), h |-> {}]
ppc_update_vx(f) == IF f \cap VXxx # {} THEN f \cup {"VX"} ELSE f \ {"VX"}
ppc_update_fex(f) == IF f \cap {"VX", "OX", "UX", "ZX", "XX"} # {} THEN f \cup {"FEX"} ELSE f \ {"FEX"}

\* the common end: y the host's outcomes, bad the VX bit an invalid operation
\* sets, ends whether it goes through set_endresult_nan()
Arith(f, h, ops, y, bad, ends) ==
    {LET g == IF bad = {} THEN f ELSE IF ends /\ Nan(o[1]) THEN set_endresult_nan(f \cup bad) ELSE f \cup bad
     IN fpresult_update(snan_check(g, ops), h \cup o[2], o[1]) : o \in y}

Isi(a, b) == IF Inf(a) /\ Inf(b) /\ a # b THEN {"VXISI"} ELSE {}
Imz(a, c) == IF (Inf(a) /\ Zero(c)) \/ (Inf(c) /\ Zero(a)) THEN {"VXIMZ"} ELSE {}
BothPos(a, b) == IF Inf(a) /\ a = b /\ ~a[2] THEN {"VXISI"} ELSE {}

ppc_fadd(f, h, a, b) == Arith(max_double_check(f, a, b), h, {a, b}, Sum(a, b), Isi(a, b), TRUE)
ppc_fadds(f, h, a, b) == ppc_fadd(f, h, a, b)
ppc_fsub(f, h, a, b) == Arith(f, h, {a, b}, Sum(a, Neg(b)), BothPos(a, b), TRUE)
ppc_fsubs(f, h, a, b) == Arith(f, h, {a, b}, Sum(a, Neg(b)), Isi(a, Neg(b)), TRUE)
DivFlags(f, a, b) == (IF Zero(b) THEN f \cup {"FX", "VX"} ELSE f) \cup (IF Inf(a) /\ Inf(b) THEN {"VXIDI"} ELSE {})
ZeroByZero(a, b) == IF Zero(a) /\ Zero(b) THEN {"VXZDZ"} ELSE {}
\* a 601 that divides by -0 sets FPSCR from the divisor and stores nothing
ppc_fdiv(f, h, a, b, is_601) ==
    IF is_601 /\ b = <<"zero", TRUE>> /\ ~Nan(a) /\ ~Zero(a) /\ ~a[2] THEN {fpresult_update(f, h, b)}
    ELSE Arith(DivFlags(f, a, b), h, {a, b}, Quotient(a, b), ZeroByZero(a, b), TRUE)
ppc_fdivs(f, h, a, b) == Arith(DivFlags(f, a, b), h, {a, b}, Quotient(a, b), ZeroByZero(a, b), TRUE)
ppc_fmul(f, h, a, c) == Arith(f, h, {a, c}, Rounded(Product(a, c)), Imz(a, c), TRUE)
ppc_fmuls(f, h, a, c) == ppc_fmul(f, h, a, c)
\* the invalid sum is looked for in rA and rB, not in the product
Fma(f, h, a, c, b, sub, isi, isiEnds) ==
    LET y == Sum(Product(a, c), IF sub THEN Neg(b) ELSE b)
        g == IF isi # {} /\ isiEnds /\ QNan \in {o[1] : o \in y} THEN set_endresult_nan(f) ELSE f
    IN Arith(g \cup isi, h, {a, b, c}, y, Imz(a, c), TRUE)
ppc_fmadd(f, h, a, c, b) == Fma(f, h, a, c, b, FALSE, Isi(a, b), TRUE)
ppc_fmsub(f, h, a, c, b) == Fma(f, h, a, c, b, TRUE, Isi(a, b), TRUE)
ppc_fmadds(f, h, a, c, b) == Fma(f, h, a, c, b, FALSE, Isi(a, b), FALSE)
ppc_fmsubs(f, h, a, c, b) == Fma(f, h, a, c, b, TRUE, BothPos(a, b), FALSE)
Negated(out) == {[o EXCEPT !.r = IF Nan(@) THEN @ ELSE Neg(@)] : o \in out}
ppc_fnmadd(f, h, a, c, b) == Negated(ppc_fmadd(f, h, a, c, b))
ppc_fnmsub(f, h, a, c, b) == Negated(ppc_fmsub(f, h, a, c, b))
ppc_fnmadds(f, h, a, c, b) == Negated(ppc_fmadds(f, h, a, c, b))
ppc_fnmsubs(f, h, a, c, b) == Negated(ppc_fmsubs(f, h, a, c, b))

\* bits only, no status
Plain(f, h, v) == {[r |-> v, f |-> f, h |-> h]}
ppc_fabs(f, h, b) == Plain(f, h, <<b[1], FALSE>>)
ppc_fnabs(f, h, b) == Plain(f, h, <<b[1], TRUE>>)
ppc_fneg(f, h, b) == Plain(f, h, Neg(b))
ppc_fmr(f, h, b) == Plain(f, h, b)
ppc_fsel(f, h, a, b, c) == Plain(f, h, IF Nan(a) \/ (a[2] /\ ~Zero(a)) THEN b ELSE c)

\* these end without fpresult_update(): what the host raised stays pending
Unary(f, h, b, y) ==
    {[r |-> IF check_snan(b) THEN QNan ELSE o[1], f |-> snan_check(f, {b}), h |-> h \cup o[2]] : o \in y}
ppc_fsqrt(f, h, b) == Unary(f, h, b, {<<Root(b), {}>>})
ppc_fsqrts(f, h, b) == Unary(f, h, b, Rounded(Root(b)))
ppc_frsqrte(f, h, b) == Unary(f, h, b, Quotient(<<"fin", FALSE>>, Root(b)))
ppc_frsp(f, h, b) == Unary(f, h, b, Rounded(b))
ppc_fres(f, h, b) ==
    Unary(IF Zero(b) THEN f \cup {"ZX"} ELSE IF Nan(b) THEN f \cup {"VXSNAN"}
          ELSE IF Inf(b) THEN (f \ {"FR", "FI"}) \cup {"VXSNAN"} ELSE f,
          h, b, Quotient(<<"fin", FALSE>>, b))
\* NaN or out of range: saturated, or with VE the program exception
round_to_int(f, h, b, big) ==
    LET g == ((f \ {"FR", "FI"}) \cup {"VXCVI", "VX"}) \cup (IF check_snan(b) THEN {"VXSNAN"} ELSE {})
    IN IF Nan(b) \/ Inf(b) \/ b[1] = "max" \/ big
       THEN {[r |-> QNan, f |-> IF "VE" \in f THEN g \cup {"FEX"} ELSE g, h |-> h, trap |-> "VE" \in f]}
       ELSE {[r |-> QNan, f |-> f, h |-> h, trap |-> FALSE]}

\* moves to and from FPSCR
Fex(f) == ppc_update_fex(ppc_update_vx(f))
ppc_mtfsf(f, v, fm) ==
    LET mask == (UNION {Fields[k] : k \in fm}) \ {"FEX", "VX"} IN Fex((f \ mask) \cup (v \cap mask))
ppc_mtfsfi(f, v, k) == LET mask == Fields[k] \ {"FEX", "VX"} IN Fex((f \ mask) \cup (v \cap mask))
ppc_mtfsb0(f, b) == Fex(IF b \in {"FEX", "VX"} THEN f ELSE f \ {b})
ppc_mtfsb1(f, b) == Fex(IF b \in {"FEX", "VX"} THEN f ELSE f \cup {b})
ppc_mcrfs(f, k) == Fex(f \ (Fields[k] \cap Exceptions))
ppc_mffs(f) == f

Less(a, b) == \/ a[2] /\ ~b[2] /\ ~(Zero(a) /\ Zero(b))
              \/ a[2] = b[2] /\ LET rank(v) == CASE v[1] = "zero" -> 0 [] v[1] = "fin" -> 1 [] v[1] = "max" -> 2 [] OTHER -> 3
                                IN IF a[2] THEN rank(a) > rank(b) ELSE rank(a) < rank(b)
Order(a, b) == IF Nan(a) \/ Nan(b) THEN "SO" ELSE IF Less(a, b) THEN "LT" ELSE IF Less(b, a) THEN "GT" ELSE "EQ"
ppc_fcmpo(f, a, b) ==
    LET s == IF check_snan(a) \/ check_snan(b) THEN {"VXSNAN"} ELSE {}
        q == IF "FEX" \notin f \/ check_qnan(a) \/ check_qnan(b) THEN {"VXVC"} ELSE {}
    IN (IF Nan(a) \/ Nan(b) THEN f \cup {"FX", "VX"} \cup s \cup q ELSE f) \ {"VE"}
ppc_fcmpu(f, a, b) == snan_check(f, {a, b}) \ {"VE"}

\* memory: single precision converts, which quiets a signalling NaN and can
\* raise host exceptions; a fault leaves by longjmp before anything is stored
ToSingle(v) == Rounded(v)
Faulted(f, h) == {[r |-> QNan, f |-> f, h |-> h, ra |-> FALSE, wrote |-> FALSE]}
ppc_lfs(f, h, v, u, fault) ==
    IF fault THEN Faulted(f, h)
    ELSE {[r |-> IF Nan(v) THEN QNan ELSE v, f |-> f, h |-> h, ra |-> u, wrote |-> TRUE]}
ppc_lfd(f, h, v, u, fault) == IF fault THEN Faulted(f, h) ELSE {[r |-> v, f |-> f, h |-> h, ra |-> u, wrote |-> TRUE]}
\* the conversion comes before the store that can fault
ppc_stfs(f, h, v, u, fault) ==
    {[r |-> o[1], f |-> f, h |-> h \cup o[2], ra |-> u /\ ~fault, wrote |-> ~fault] : o \in ToSingle(v)}
ppc_stfd(f, h, v, u, fault) == ppc_lfd(f, h, v, u, fault)
ppc_stfiwx(f, h, v, fault) == ppc_lfd(f, h, v, FALSE, fault)

-----------------------------------------------------------------------------
(* The guest: a program of Length instructions on any operands.              *)

NoOp == [kind |-> "none", snan |-> FALSE, r |-> QNan, fault |-> FALSE, moved |-> FALSE]
FpInit == \E f \in {{}, {"VE"}, {"FR", "FI"}} : fp = [pc |-> 0, fpscr |-> f, host |-> {}, raised |-> {}, last |-> NoOp]

\* raised: sticky bits set since an instruction that may clear them did so
Done(kind, ops, f, h, r) ==
    fp' = [pc |-> fp.pc + 1, fpscr |-> f, host |-> h,
           raised |-> (IF kind = "move" THEN {} ELSE fp.raised) \cup (f \cap Exceptions),
           last |-> [kind |-> kind, snan |-> \E v \in ops : check_snan(v), r |-> r, fault |-> FALSE, moved |-> FALSE]]
Leave(kind, ops, out) == \E o \in out : Done(kind, ops, o.f, o.h, o.r)

Running == fp.pc < Length
Two(f, h, a, b) == ppc_fadd(f, h, a, b) \cup ppc_fadds(f, h, a, b) \cup ppc_fsub(f, h, a, b) \cup ppc_fsubs(f, h, a, b)
    \cup ppc_fdiv(f, h, a, b, FALSE) \cup ppc_fdivs(f, h, a, b) \cup ppc_fmul(f, h, a, b) \cup ppc_fmuls(f, h, a, b)
Three(f, h, a, c, b) == ppc_fmadd(f, h, a, c, b) \cup ppc_fmsub(f, h, a, c, b) \cup ppc_fnmadd(f, h, a, c, b)
    \cup ppc_fnmsub(f, h, a, c, b) \cup ppc_fmadds(f, h, a, c, b) \cup ppc_fmsubs(f, h, a, c, b)
    \cup ppc_fnmadds(f, h, a, c, b) \cup ppc_fnmsubs(f, h, a, c, b)
One(f, h, b) == ppc_fsqrt(f, h, b) \cup ppc_fsqrts(f, h, b) \cup ppc_frsqrte(f, h, b) \cup ppc_frsp(f, h, b) \cup ppc_fres(f, h, b)
Moved(f, h, a, b) == ppc_fabs(f, h, b) \cup ppc_fnabs(f, h, b) \cup ppc_fneg(f, h, b) \cup ppc_fmr(f, h, b)
    \cup ppc_fsel(f, h, a, b, b)

DoTwo == Running /\ \E a, b \in Values : Leave("arith", {a, b}, Two(fp.fpscr, fp.host, a, b))
DoThree == Running /\ \E a, b \in Values, c \in Kinds \X {FALSE} : Leave("arith", {a, b, c}, Three(fp.fpscr, fp.host, a, c, b))
DoOne == Running /\ \E b \in Values : Leave("arith", {b}, One(fp.fpscr, fp.host, b))
Do601 == Running /\ \E a \in Values : LET z == <<"zero", TRUE>>
         IN Leave("arith", {a}, ppc_fdiv(fp.fpscr, fp.host, a, z, TRUE))
DoPlain == Running /\ \E a, b \in Values : Leave("plain", {}, Moved(fp.fpscr, fp.host, a, b))
DoRound == Running /\ \E b \in Values, big \in BOOLEAN : Leave("round", {b}, round_to_int(fp.fpscr, fp.host, b, big))
DoMove == Running /\ \E f \in {ppc_mtfsb0(fp.fpscr, b) : b \in Bits} \cup {ppc_mtfsb1(fp.fpscr, b) : b \in Bits}
        \cup {ppc_mcrfs(fp.fpscr, k) : k \in 1..6} \cup {ppc_mtfsfi(fp.fpscr, {"VXISI", "VE"}, k) : k \in 1..6}
        \cup {ppc_mtfsf(fp.fpscr, v, fm) : v \in {{}, {"OX", "VX"}, {"VXISI", "FX"}}, fm \in {1..6, {1}, {3, 5}}} :
    Done("move", {}, f, fp.host, QNan)
DoMffs == Running /\ Done("plain", {}, ppc_mffs(fp.fpscr), fp.host, QNan)
DoCompare == Running /\ \E a, b \in Values :
    \E f \in {ppc_fcmpo(fp.fpscr, a, b), ppc_fcmpu(fp.fpscr, a, b)} : Done("arith", {a, b}, f, fp.host, QNan)
DoMemory == Running /\ \E v \in Values, u, fault \in BOOLEAN :
    \E o \in ppc_lfs(fp.fpscr, fp.host, v, u, fault) \cup ppc_lfd(fp.fpscr, fp.host, v, u, fault)
             \cup ppc_stfs(fp.fpscr, fp.host, v, u, fault) \cup ppc_stfd(fp.fpscr, fp.host, v, u, fault)
             \cup ppc_stfiwx(fp.fpscr, fp.host, v, fault) :
        fp' = [fp EXCEPT !.pc = @ + 1, !.host = o.h,
                         !.last = [NoOp EXCEPT !.kind = "memory", !.fault = fault, !.moved = o.ra \/ o.wrote]]
Stop == fp.pc = Length /\ UNCHANGED fp

FpNext == DoTwo \/ DoThree \/ DoOne \/ Do601 \/ DoPlain \/ DoRound \/ DoMove \/ DoMffs \/ DoCompare \/ DoMemory \/ Stop

\* An exception bit that an instruction raised stays in FPSCR until a move to
\* FPSCR or mcrfs, whatever arithmetic, conversions, compares and memory
\* accesses follow.
Sticky == fp.raised \subseteq fp.fpscr
\* A signalling operand of arithmetic, of a compare or of a conversion is
\* recorded in VXSNAN and VX.
Signalled == fp.last.kind \in {"arith", "round"} /\ fp.last.snan => {"VXSNAN", "VX"} \subseteq fp.fpscr
\* and the value stored is not signalling
Quiet == fp.last.kind \in {"arith", "round"} => ~check_snan(fp.last.r)
\* After a move the summary bits tell what is left.
Summary ==
    fp.last.kind = "move" => /\ ("VX" \in fp.fpscr) = (fp.fpscr \cap VXxx # {})
                             /\ ("FEX" \in fp.fpscr) = (fp.fpscr \cap {"VX", "OX", "UX", "ZX", "XX"} # {})
\* A load or store that faults has written neither memory, register nor rA.
FaultClean == fp.last.fault => ~fp.last.moved
FpExact == Sticky /\ Signalled /\ Quiet /\ Summary /\ FaultClean
=============================================================================
