----------------------------- MODULE PpcInteger -----------------------------
(* The integer instructions of the interpreter (ppcopcodes.cpp) and the      *)
(* POWER instructions of the 601 (poweropcodes.cpp), at word width W instead *)
(* of 32, a power of two: bytes have W/4 bits, halfwords and immediates W/2. *)
(* Each operator computes with shifts and masks as its C++ function does; the *)
(* results are compared with what the architecture says about the integers   *)
(* and bit positions that the words stand for.                               *)
(* Compares, branches and traps follow, at a width of their own.             *)
EXTENDS Integers, FiniteSets, FiniteSetsExt

LOCAL INSTANCE Bitwise

CONSTANT W

VARIABLE alu        \* the instruction executed last, or none

M == 2 ^ W
Word == 0..(M - 1)
Min32 == 2 ^ (W - 1)                    \* 0x80000000
Ones == M - 1
Int32(x) == IF x < Min32 THEN x ELSE x - M
UInt(n) == n % M                        \* conversion to uint32_t
Inv(x) == Ones - x
Shl(x, n) == (x * 2 ^ n) % M
Shr(x, n) == x \div 2 ^ n
Sar(x, n) == UInt(Int32(x) \div 2 ^ n)
Rotl(x, n) == Shl(x, n % W) | Shr(x, W - (n % W))
Rotr(x, n) == Shr(x, n % W) | Shl(x, W - (n % W))
Abs(n) == IF n < 0 THEN -n ELSE n
TDiv(x, y) == LET q == Abs(x) \div Abs(y) IN IF (x < 0) = (y < 0) THEN q ELSE -q
TMod(x, y) == x - y * TDiv(x, y)

-----------------------------------------------------------------------------
(* Operands: i.a, i.b (the immediate too), i.s = rS or old rD, i.mq, the XER *)
(* flags, i.sh/mb/me, i.alt = 601 or rA = 0. A result: the register, the     *)
(* value CR0 is taken from, CA, OV (kept by the forms with OE) and MQ.       *)

Out(i, d) == [d |-> d, test |-> d, ca |-> i.ca, ov |-> FALSE, mq |-> i.mq]
Carried(i, l) == [Out(i, l % M) EXCEPT !.ca = l >= M]
\* ppc_setsoov()
SoOv(a, b, d) == (a ^^ b) & (a ^^ d) >= Min32
Ca(i) == IF i.ca THEN 1 ELSE 0

ppc_addi(i, shift) ==
    LET x == IF shift THEN Shl(i.b, W \div 2) ELSE i.b
    IN Out(i, IF i.alt THEN x ELSE (i.a + x) % M)
ppc_addic(i) == Carried(i, i.a + i.b)
ppc_add(i, carry) ==
    LET x == Carried(i, i.a + i.b)
    IN [x EXCEPT !.ca = IF carry THEN @ ELSE i.ca, !.ov = SoOv(i.a, Inv(i.b), x.d)]
ppc_adde(i) == LET x == Carried(i, i.a + i.b + Ca(i)) IN [x EXCEPT !.ov = SoOv(i.a, Inv(i.b), x.d)]
ppc_addme(i) == LET x == Carried(i, i.a + Ca(i) + Ones) IN [x EXCEPT !.ov = SoOv(i.a, 0, x.d)]
\* mutant: the sign of addme
ppc_addzeOv(i) == LET x == Carried(i, i.a + Ca(i)) IN [x EXCEPT !.ov = SoOv(i.a, 0, x.d)]
ppc_addze(i) == LET x == Carried(i, i.a + Ca(i)) IN [x EXCEPT !.ov = SoOv(i.a, Ones, x.d)]
ppc_subfic(i) == Carried(i, Inv(i.a) + i.b + 1)
ppc_subf(i, carry) ==
    LET x == Carried(i, Inv(i.a) + i.b + 1)
    IN [x EXCEPT !.ca = IF carry THEN @ ELSE i.ca, !.ov = SoOv(i.b, i.a, x.d)]
ppc_subfe(i) == LET x == Carried(i, Inv(i.a) + i.b + Ca(i)) IN [x EXCEPT !.ov = SoOv(i.b, i.a, x.d)]
ppc_subfme(i) ==
    LET x == Carried(i, Inv(i.a) + Ca(i) + Ones) IN [x EXCEPT !.ov = x.d = i.a /\ Int32(x.d) > 0]
ppc_subfze(i) == LET x == Carried(i, Inv(i.a) + Ca(i)) IN [x EXCEPT !.ov = x.d # 0 /\ x.d = i.a]
ppc_neg(i) == [Out(i, UInt(Inv(i.a) + 1)) EXCEPT !.ov = i.a = Min32]

ppc_logical(i, op) ==
    Out(i, CASE op = "and" -> i.s & i.b          [] op = "andc" -> i.s & Inv(i.b)
             [] op = "eqv" -> Inv(i.s ^^ i.b)    [] op = "nand" -> Inv(i.s & i.b)
             [] op = "nor" -> Inv(i.s | i.b)     [] op = "or" -> i.s | i.b
             [] op = "orc" -> i.s | Inv(i.b)     [] op = "xor" -> i.s ^^ i.b)
ppc_andirc(i, shift) == ppc_logical([i EXCEPT !.b = IF shift THEN Shl(@, W \div 2) ELSE @], "and")
ppc_ori(i, shift) == ppc_logical([i EXCEPT !.b = IF shift THEN Shl(@, W \div 2) ELSE @], "or")
ppc_xori(i, shift) == ppc_logical([i EXCEPT !.b = IF shift THEN Shl(@, W \div 2) ELSE @], "xor")

\* the loop: the first mask bit that meets the word
ppc_cntlzw(i) == Out(i, Min({n \in 0..(W - 1) : i.s & Shr(Min32, n) # 0} \cup {W}))
ppc_exts(i, n) == LET x == i.s % 2 ^ n IN Out(i, IF x < 2 ^ (n - 1) THEN x ELSE M - 2 ^ n + x)

ppc_mulhwu(i) == Out(i, (i.a * i.b) \div M)
ppc_mulhw(i) == Out(i, UInt((Int32(i.a) * Int32(i.b)) \div M))
ppc_mullw(i) ==
    LET p == Int32(i.a) * Int32(i.b) IN [Out(i, UInt(p)) EXCEPT !.ov = p # Int32(UInt(p))]
ppc_mulli(i) == Out(i, UInt(Int32(i.a) * Int32(i.b)))
ppc_divw(i) ==
    IF i.b = 0 THEN [Out(i, IF ~i.alt THEN 0 ELSE IF Int32(i.a) < 0 THEN 1 ELSE Ones) EXCEPT !.ov = TRUE]
    ELSE IF i.a = Min32 /\ i.b = Ones THEN [Out(i, IF i.alt THEN Min32 ELSE 0) EXCEPT !.ov = TRUE]
    ELSE Out(i, UInt(TDiv(Int32(i.a), Int32(i.b))))
ppc_divwu(i) ==
    IF i.b = 0 THEN [Out(i, IF i.alt THEN Ones ELSE 0) EXCEPT !.ov = TRUE] ELSE Out(i, i.a \div i.b)

Amount(b) == b % W
Wide(b) == (b \div W) % 2 = 1           \* b & 0x20
ppc_shift(i, left) ==
    Out(i, IF Wide(i.b) THEN 0 ELSE IF left THEN Shl(i.s, Amount(i.b)) ELSE Shr(i.s, Amount(i.b)))
ppc_srawi(i) ==
    [Out(i, Sar(i.s, i.sh)) EXCEPT !.ca = Int32(i.s) < 0 /\ i.s & (2 ^ i.sh - 1) # 0]
ppc_sraw(i) ==
    IF Wide(i.b) THEN [Out(i, Sar(i.s, W - 1)) EXCEPT !.ca = Sar(i.s, W - 1) # 0]
    ELSE ppc_srawi([i EXCEPT !.sh = Amount(i.b)])

rot_mask(mb, me) ==
    LET m1 == Shr(Ones, mb)  m2 == Shl(Ones, W - 1 - me) IN IF mb <= me THEN m2 & m1 ELSE m1 | m2
Insert(r, x, mask) == (x & Inv(mask)) | (r & mask)
ppc_rlwimi(i) == Out(i, Insert(Rotl(i.s, i.sh), i.a, rot_mask(i.mb, i.me)))
ppc_rlwinm(i) == Out(i, Rotl(i.s, i.sh) & rot_mask(i.mb, i.me))
ppc_rlwnm(i) == Out(i, Rotl(i.s, i.b) & rot_mask(i.mb, i.me))

-----------------------------------------------------------------------------
(* POWER instructions of the 601.                                          *)

power_abs(i) == [Out(i, IF Int32(i.a) < 0 THEN UInt(-i.a) ELSE i.a) EXCEPT !.ov = i.a = Min32]
power_nabs(i) == Out(i, IF Int32(i.a) < 0 THEN i.a ELSE UInt(-i.a))
power_doz(i) ==
    LET d == IF Int32(i.a) < Int32(i.b) THEN UInt(i.b - i.a) ELSE 0
    IN [Out(i, d) EXCEPT !.ov = Int32(d) < 0]
power_dozi(i) == Out(i, IF Int32(i.a) > Int32(i.b) THEN 0 ELSE UInt(i.b - i.a))
power_mul(i) ==
    LET p == Int32(i.a) * Int32(i.b)
    IN [Out(i, UInt(p \div M)) EXCEPT !.test = UInt(p), !.mq = UInt(p), !.ov = p \div Min32 \notin {0, -1}]
power_divs(i) ==
    IF i.b = 0 THEN [Out(i, Ones) EXCEPT !.test = i.a, !.mq = i.a, !.ov = TRUE]
    ELSE IF i.a = Min32 /\ i.b = Ones THEN [Out(i, Min32) EXCEPT !.test = 0, !.mq = 0, !.ov = TRUE]
    ELSE LET r == UInt(TMod(Int32(i.a), Int32(i.b)))
         IN [Out(i, UInt(TDiv(Int32(i.a), Int32(i.b)))) EXCEPT !.test = r, !.mq = r]
\* The constant -0x80000000 is unsigned: +2^31. The quotient of the most
\* negative dividend by -1 is undefined in C++; the builds trap or wrap.
Dividend(i) == LET x == i.a * M + i.mq IN IF i.a < Min32 THEN x ELSE x - M * M
power_div(i) ==
    LET n == Dividend(i)  m == Int32(i.b)
    IN IF (n = Min32 /\ m = -1) \/ m = 0
       THEN [Out(i, Min32) EXCEPT !.test = 0, !.mq = 0, !.ov = TRUE]
       ELSE [Out(i, UInt(TDiv(n, m))) EXCEPT !.test = UInt(TMod(n, m)), !.mq = UInt(TMod(n, m)),
                                             !.ov = TDiv(n, m) \div Min32 \notin {0, -1}]

power_maskg(i) ==
    LET first == Amount(i.s)  last == Amount(i.b)
    IN Out(i, IF first < last + 1 THEN rot_mask(first, last)
              ELSE IF first = last + 1 THEN Ones ELSE Inv(rot_mask(last + 1, first - 1)))
power_maskir(i) == Out(i, Insert(i.s, i.a, i.b))
power_rlmi(i) == Out(i, Insert(Rotl(i.s, i.b), i.a, rot_mask(i.mb, i.me)))
power_rrib(i) ==
    LET bit == Shr(Min32, Amount(i.b)) IN Out(i, IF Int32(i.s) < 0 THEN i.a | bit ELSE i.a & Inv(bit))

\* the shifts by i.sh; their twins take the amount from rB
By(i) == [i EXCEPT !.sh = Amount(i.b)]
WithMq(x, mq) == [x EXCEPT !.mq = mq]
power_sliq(i) == WithMq(Out(i, Shl(i.s, i.sh)), Rotl(i.s, i.sh))
power_sle(i) == power_sliq(By(i))
power_slliq(i) ==
    WithMq(Out(i, Insert(Rotl(i.s, i.sh), i.mq, rot_mask(0, W - 1 - i.sh))), Rotl(i.s, i.sh))
power_sleq(i) == power_slliq(By(i))
power_sllq(i) ==
    LET n == Amount(i.b)
    IN Out(i, IF Wide(i.b) THEN i.mq & Shl(Ones, n) ELSE Shl(i.s, n) | (i.mq & (2 ^ n - 1)))
power_slq(i) ==
    LET n == Amount(i.b) IN WithMq(Out(i, IF Wide(i.b) THEN 0 ELSE Shl(i.s, n)), Rotl(i.s, n))
power_sraiq(i) == WithMq(ppc_srawi(i), Rotr(i.s, i.sh))
power_sraq(i) ==
    LET n == Amount(i.b)  mask == IF Wide(i.b) THEN Ones ELSE 2 ^ n - 1
    IN [Out(i, Sar(i.s, IF Wide(i.b) THEN W - 1 ELSE n)) EXCEPT
           !.ca = Int32(i.s) < 0 /\ i.s & mask # 0, !.mq = Rotr(i.s, n)]
power_sriq(i) == WithMq(Out(i, Shr(i.s, i.sh)), Rotr(i.s, i.sh))
power_sre(i) == power_sriq(By(i))
power_srea(i) ==
    LET n == Amount(i.b)  r == Rotr(i.s, n)
    IN [Out(i, Sar(i.s, n)) EXCEPT !.ca = Int32(i.s) < 0 /\ r & Inv(Shr(Ones, n)) # 0, !.mq = r]
power_srliq(i) ==
    WithMq(Out(i, Insert(Rotr(i.s, i.sh), i.mq, rot_mask(i.sh, W - 1))), Rotr(i.s, i.sh))
power_sreq(i) ==
    LET n == Amount(i.b)
    IN WithMq(Out(i, Shr(i.s, n) | (i.mq & Inv(Shr(Ones, n)))), Rotr(i.s, n))
power_srlq(i) ==
    LET n == Amount(i.b)  mask == rot_mask(n, W - 1)
    IN Out(i, IF Wide(i.b) THEN i.mq & mask ELSE Insert(Rotr(i.s, n), i.mq, mask))
power_srq(i) ==
    LET n == Amount(i.b) IN WithMq(Out(i, IF Wide(i.b) THEN 0 ELSE Shr(i.s, n)), Rotr(i.s, n))

-----------------------------------------------------------------------------
(* Dispatch, XER and CR0.                                                  *)

Sums == {"add", "addc", "adde", "addme", "addze", "addic", "subf", "subfc", "subfe", "subfme", "subfze",
         "subfic", "neg"}
Logicals == {"and", "andc", "eqv", "nand", "nor", "or", "orc", "xor"}
Immediates == {"addi", "addis", "addic", "subfic", "mulli", "dozi", "andi", "andis", "oris", "xoris"}
Products == {"mulhwu", "mulhw", "mullw", "mulli", "mul"}
Quotients == {"divw", "divwu", "divs", "div"}
Shifts == {"slw", "srw", "sraw", "srawi", "sliq", "sle", "slq", "sraiq", "sraq", "sriq", "sre", "srea", "srq"}
Merges == {"slliq", "sleq", "sllq", "srliq", "sreq", "srlq"}
Rotates == {"rlwimi", "rlwinm", "rlwnm", "rlmi"}
Others == {"addi", "addis", "andi", "andis", "oris", "xoris", "cntlzw", "extsb", "extsh", "abs", "nabs", "doz",
           "dozi", "maskg", "maskir", "rrib"}
Ops == Sums \cup Logicals \cup Products \cup Quotients \cup Shifts \cup Merges \cup Rotates \cup Others
WithOe == (Sums \ {"addic", "subfic"}) \cup {"mullw", "mul", "abs", "nabs", "doz"} \cup Quotients

Compute(op, i) ==
    CASE op \in {"add", "addc"} -> ppc_add(i, op = "addc")    [] op = "adde" -> ppc_adde(i)
      [] op = "addme" -> ppc_addme(i)    [] op = "addze" -> ppc_addze(i)    [] op = "addic" -> ppc_addic(i)
      [] op \in {"subf", "subfc"} -> ppc_subf(i, op = "subfc")  [] op = "subfe" -> ppc_subfe(i)
      [] op = "subfme" -> ppc_subfme(i)  [] op = "subfze" -> ppc_subfze(i)  [] op = "subfic" -> ppc_subfic(i)
      [] op = "neg" -> ppc_neg(i)        [] op \in Logicals -> ppc_logical(i, op)
      [] op \in {"addi", "addis"} -> ppc_addi(i, op = "addis")
      [] op \in {"andi", "andis"} -> ppc_andirc(i, op = "andis")
      [] op = "oris" -> ppc_ori(i, TRUE) [] op = "xoris" -> ppc_xori(i, TRUE)
      [] op = "cntlzw" -> ppc_cntlzw(i)  [] op = "extsb" -> ppc_exts(i, W \div 4)
      [] op = "extsh" -> ppc_exts(i, W \div 2)
      [] op = "mulhwu" -> ppc_mulhwu(i)  [] op = "mulhw" -> ppc_mulhw(i)    [] op = "mullw" -> ppc_mullw(i)
      [] op = "mulli" -> ppc_mulli(i)    [] op = "divw" -> ppc_divw(i)      [] op = "divwu" -> ppc_divwu(i)
      [] op \in {"slw", "srw"} -> ppc_shift(i, op = "slw")
      [] op = "sraw" -> ppc_sraw(i)      [] op = "srawi" -> ppc_srawi(i)
      [] op = "rlwimi" -> ppc_rlwimi(i)  [] op = "rlwinm" -> ppc_rlwinm(i)  [] op = "rlwnm" -> ppc_rlwnm(i)
      [] op = "abs" -> power_abs(i)      [] op = "nabs" -> power_nabs(i)    [] op = "doz" -> power_doz(i)
      [] op = "dozi" -> power_dozi(i)    [] op = "mul" -> power_mul(i)      [] op = "divs" -> power_divs(i)
      [] op = "div" -> power_div(i)      [] op = "maskg" -> power_maskg(i)  [] op = "maskir" -> power_maskir(i)
      [] op = "rlmi" -> power_rlmi(i)    [] op = "rrib" -> power_rrib(i)    [] op = "sliq" -> power_sliq(i)
      [] op = "sle" -> power_sle(i)      [] op = "slliq" -> power_slliq(i)  [] op = "sleq" -> power_sleq(i)
      [] op = "sllq" -> power_sllq(i)    [] op = "slq" -> power_slq(i)      [] op = "sraiq" -> power_sraiq(i)
      [] op = "sraq" -> power_sraq(i)    [] op = "sriq" -> power_sriq(i)    [] op = "sre" -> power_sre(i)
      [] op = "srea" -> power_srea(i)    [] op = "srliq" -> power_srliq(i)  [] op = "sreq" -> power_sreq(i)
      [] op = "srlq" -> power_srlq(i)    [] op = "srq" -> power_srq(i)

\* ppc_changecrf0()
CrField0(v, so) == {IF v = 0 THEN "EQ" ELSE IF Int32(v) < 0 THEN "LT" ELSE "GT"} \cup (IF so THEN {"SO"} ELSE {})

\* The 601's own instructions and its results of divisions without a quotient.
Choice(op) ==
    LET simm == 0..(2 ^ (W \div 2 - 1) - 1) \cup (M - 2 ^ (W \div 2 - 1))..(M - 1)
        uimm == 0..(2 ^ (W \div 2) - 1)
        n == 0..(W - 1)
        zero == {0}
        if(c, S) == IF c THEN S ELSE zero
    IN [a : if(op \in (Sums \cup Products \cup Quotients \cup {"addi", "addis", "rlwimi", "abs", "nabs", "doz",
                        "dozi", "maskir", "rrib"}), Word) \cup (IF op = "rlmi" THEN {0, 5} ELSE {}),
        b : IF op \in {"andi", "andis", "oris", "xoris"} THEN uimm ELSE IF op \in Immediates THEN simm
            ELSE if(op \notin {"addme", "addze", "subfme", "subfze", "neg", "cntlzw", "extsb", "extsh", "abs", "nabs",
                     "srawi", "sliq", "sraiq", "sriq", "slliq", "srliq", "rlwimi", "rlwinm"}, Word),
        s : if(op \in Logicals \cup Shifts \cup Merges \cup Rotates \cup {"andi", "andis", "oris", "xoris",
                  "cntlzw", "extsb", "extsh", "maskg", "maskir", "rrib"}, Word),
        mq : if(op \in Merges \cup {"div"}, Word),
        ca : IF op \in {"adde", "addme", "addze", "subfe", "subfme", "subfze", "add", "srawi"} THEN BOOLEAN ELSE {FALSE},
        sh : if(op \in {"srawi", "sliq", "sraiq", "sriq", "slliq", "srliq", "rlwimi", "rlwinm"}, n),
        mb : if(op \in Rotates, n), me : if(op \in Rotates, n),
        alt : IF op \in {"addi", "addis", "divw", "divwu"} THEN BOOLEAN ELSE {op \notin Sums},
        so : IF op \in WithOe THEN BOOLEAN ELSE {FALSE}]

AluInit == alu = [op |-> "none"]

AluExecute ==
    /\ alu.op = "none"
    /\ \E op \in Ops : \E i \in Choice(op) :
        LET x == Compute(op, i)  so == i.so \/ (op \in WithOe /\ x.ov)
        IN alu' = [op |-> op, in |-> i, d |-> x.d, ca |-> x.ca, ov |-> op \in WithOe /\ x.ov, so |-> so,
                   mq |-> x.mq, cr |-> CrField0(x.test, so)]

AluNext == AluExecute \/ (alu.op # "none" /\ alu' = [op |-> "none"])

-----------------------------------------------------------------------------
(* What the architecture says.                                             *)

Bit(x, k) == (x \div 2 ^ (W - 1 - k)) % 2 = 1                \* bit 0 is the highest
Fits(n) == n \in -Min32..(Min32 - 1)
InMask(k, mb, me) == (k - mb) % W <= (me - mb) % W           \* from mb on, around, to me
BitsAre(x, P(_)) == \A k \in 0..(W - 1) : Bit(x, k) = P(k)

\* op adds three terms
Terms(op, i) ==
    <<IF op \in {"add", "addc", "adde", "addme", "addze", "addic"} THEN i.a ELSE Ones - i.a,
      IF op \in {"addme", "subfme"} THEN Ones ELSE IF op \in {"addze", "subfze", "neg"} THEN 0 ELSE i.b,
      IF op \in {"add", "addc", "addic"} THEN 0 ELSE IF op \in {"subf", "subfc", "subfic", "neg"} THEN 1 ELSE Ca(i)>>

SumExact(op, i, x) ==
    LET t == Terms(op, i)  n == Int32(t[1]) + Int32(t[2]) + t[3]
    IN /\ (x.d - n) % M = 0
       /\ x.ca = IF op \in {"add", "subf", "neg"} THEN i.ca ELSE t[1] + t[2] + t[3] > Ones
       /\ op \in WithOe => x.ov = ~Fits(n)

ProductExact(op, i, x) ==
    LET p == Int32(i.a) * Int32(i.b)
    IN CASE op = "mulhwu" -> i.a * i.b - M * x.d \in Word
         [] op = "mulhw" -> p - M * Int32(x.d) \in Word
         [] op = "mulli" -> (p - x.d) % M = 0
         [] op = "mullw" -> (p - x.d) % M = 0 /\ x.ov = ~Fits(p)
         [] op = "mul" -> p = M * Int32(x.d) + x.mq /\ x.ov = ~Fits(p)

\* quotient and remainder where there is one, overflow where there is none
QuotientExact(op, i, x) ==
    LET n == IF op = "div" THEN Dividend(i) ELSE IF op = "divwu" THEN i.a ELSE Int32(i.a)
        m == IF op = "divwu" THEN i.b ELSE Int32(i.b)
        q == IF op = "divwu" THEN x.d ELSE Int32(x.d)
        r == n - q * m
        some == m # 0 /\ (op = "divwu" \/ Fits(TDiv(n, m)))
    IN /\ x.ov = ~some \/ (op = "div" /\ n = Min32 /\ m = -1)
       /\ some => /\ Abs(r) < Abs(m) /\ (r = 0 \/ (r < 0) = (n < 0))
                  /\ op \in {"div", "divs"} => Int32(x.mq) = r

Left == {"slw", "sliq", "sle", "slq"}
ShiftExact(op, i, x) ==
    LET n == IF op \in {"srawi", "sliq", "sraiq", "sriq"} THEN i.sh
             ELSE IF op \in {"sle", "sre", "srea"} THEN i.b % W ELSE i.b % (2 * W)
        arithmetic == op \in {"sraw", "srawi", "sraiq", "sraq", "srea"}
    IN /\ x.d = IF op \in Left THEN (i.s * 2 ^ n) % M
                ELSE IF arithmetic THEN (Int32(i.s) \div 2 ^ n) % M ELSE i.s \div 2 ^ n
       /\ x.ca = IF arithmetic THEN Int32(i.s) < 0 /\ i.s % 2 ^ n # 0 ELSE i.ca
       /\ op \notin {"slw", "srw", "sraw", "srawi"} =>
             BitsAre(x.mq, LAMBDA k : Bit(i.s, IF op \in Left THEN (k + n) % W ELSE (k - n) % W))

MergeExact(op, i, x) ==
    LET n == IF op \in {"slliq", "srliq"} THEN i.sh ELSE i.b % W
        left == op \in {"slliq", "sleq", "sllq"}
        from(k) == IF left THEN (k + n) % W ELSE (k - n) % W
        mask(k) == IF left THEN k < W - n ELSE k >= n
    IN /\ BitsAre(x.d, LAMBDA k : IF op \in {"sllq", "srlq"} /\ i.b % (2 * W) >= W THEN mask(k) /\ Bit(i.mq, k)
                                  ELSE IF mask(k) THEN Bit(i.s, from(k)) ELSE Bit(i.mq, k))
       /\ op \notin {"sllq", "srlq"} => BitsAre(x.mq, LAMBDA k : Bit(i.s, from(k)))

RotateExact(op, i, x) ==
    LET n == IF op \in {"rlwimi", "rlwinm"} THEN i.sh ELSE i.b
    IN BitsAre(x.d, LAMBDA k : IF InMask(k, i.mb, i.me) THEN Bit(i.s, (k + n) % W)
                               ELSE op \in {"rlwimi", "rlmi"} /\ Bit(i.a, k))

LogicalExact(op, i, x) ==
    LET x0(p, q) == CASE op \in {"and", "nand"} -> p /\ q     [] op \in {"or", "nor"} -> p \/ q
                      [] op \in {"xor", "eqv"} -> p # q        [] op = "andc" -> p /\ ~q  [] op = "orc" -> p \/ ~q
    IN BitsAre(x.d, LAMBDA k : x0(Bit(i.s, k), Bit(i.b, k)) # (op \in {"nand", "nor", "eqv"}))

OtherExact(op, i, x) ==
    LET a == Int32(i.a)  b == Int32(i.b)  half == 2 ^ (W \div 2)
        imm == IF op \in {"addis", "andis", "oris", "xoris"} THEN i.b * half ELSE i.b
    IN CASE op \in {"addi", "addis"} -> (x.d - imm - (IF i.alt THEN 0 ELSE a)) % M = 0
         [] op \in {"andi", "andis"} -> BitsAre(x.d, LAMBDA k : Bit(i.s, k) /\ Bit(imm, k))
         [] op = "oris" -> BitsAre(x.d, LAMBDA k : Bit(i.s, k) \/ Bit(imm, k))
         [] op = "xoris" -> BitsAre(x.d, LAMBDA k : Bit(i.s, k) # Bit(imm, k))
         [] op = "cntlzw" -> i.s < 2 ^ (W - x.d) /\ (i.s = 0 \/ i.s >= 2 ^ (W - 1 - x.d))
         [] op = "extsb" -> BitsAre(x.d, LAMBDA k : Bit(i.s, Max({k, W - W \div 4})))
         [] op = "extsh" -> BitsAre(x.d, LAMBDA k : Bit(i.s, Max({k, W \div 2})))
         [] op = "abs" -> x.d = Abs(a) /\ x.ov = ~Fits(Abs(a))
         [] op = "nabs" -> Int32(x.d) = -Abs(a) /\ ~x.ov
         [] op = "doz" -> (x.d - Max({b - a, 0})) % M = 0 /\ x.ov = ~Fits(Max({b - a, 0}))
         [] op = "dozi" -> (x.d - Max({b - a, 0})) % M = 0
         [] op = "maskg" -> BitsAre(x.d, LAMBDA k : InMask(k, i.s % W, i.b % W))
         [] op = "maskir" -> BitsAre(x.d, LAMBDA k : Bit(IF Bit(i.b, k) THEN i.s ELSE i.a, k))
         [] op = "rrib" -> BitsAre(x.d, LAMBDA k : IF k = i.b % W THEN Bit(i.s, 0) ELSE Bit(i.a, k))

\* Every instruction leaves in its register, in CA, OV, SO, CR0 and MQ what the
\* architecture defines for the integers or the bits that its operands stand
\* for, in the carries, borrows, wide shifts, wrapped masks and divisions
\* without a quotient too. The one exception is the OV of div for the dividend
\* 2^31 and the divisor -1, which power_div() takes for an overflow.
AluExact ==
    alu.op # "none" =>
        LET i == alu.in  x == alu
        IN /\ alu.op \in Sums => SumExact(alu.op, i, x)
           /\ alu.op \in Products => ProductExact(alu.op, i, x)
           /\ alu.op \in Quotients => QuotientExact(alu.op, i, x)
           /\ alu.op \in Shifts => ShiftExact(alu.op, i, x)
           /\ alu.op \in Merges => MergeExact(alu.op, i, x)
           /\ alu.op \in Rotates => RotateExact(alu.op, i, x)
           /\ alu.op \in Logicals => LogicalExact(alu.op, i, x)
           /\ alu.op \in Others => OtherExact(alu.op, i, x)
           /\ x.so = (i.so \/ x.ov) /\ ("SO" \in x.cr) = x.so
           /\ alu.op \notin {"mul", "div", "divs"} =>
                 /\ ("LT" \in x.cr) = (Int32(x.d) < 0) /\ ("EQ" \in x.cr) = (x.d = 0)
                 /\ ("GT" \in x.cr) = (Int32(x.d) > 0)

-----------------------------------------------------------------------------
(* Compare, condition register, branch and trap instructions                 *)
(* (ppcopcodes.cpp): a guest that compares, moves and combines the result in *)
(* the condition register, then branches on it or traps, and loops on CTR.   *)
(* CR is the set of its bits that are set, of two fields of four; words have *)
(* Width bits.                                                               *)

CONSTANT Width

VARIABLE br         \* cr, xer, ctr, lr, next address, and what is expected

Words == 0..(2 ^ Width - 1)
Signed(x) == IF x < 2 ^ (Width - 1) THEN x ELSE x - 2 ^ Width
Bits(f) == (4 * f)..(4 * f + 3)         \* LT GT EQ SO of field f
On(bo, mask) == (bo \div mask) % 2 = 1

Start(ctr, so, for601) ==
    [step |-> "compare", cr |-> {}, so |-> so, ctr |-> ctr, lr |-> "old", nia |-> "next", rel |-> <<>>, bit |-> 0,
     sense |-> "same", for601 |-> for601, was |-> ctr, expect |-> 0, trap |-> FALSE]

BrInit == \E ctr \in Words, b \in BOOLEAN : br = Start(ctr, b, b)

-----------------------------------------------------------------------------
(* Instructions as functions of CR.                                        *)

SetField(cr, f, set) == (cr \ Bits(f)) \cup {4 * f + k : k \in set}
Relation(x, y) == IF x = y THEN 2 ELSE IF x > y THEN 1 ELSE 0
\* cmp, cmpi: signed; cmpl, cmpli: unsigned
ppc_cmp(cr, f, a, b, so) == SetField(cr, f, {Relation(Signed(a), Signed(b))} \cup (IF so THEN {3} ELSE {}))
ppc_cmpl(cr, f, a, b, so) == SetField(cr, f, {Relation(a, b)} \cup (IF so THEN {3} ELSE {}))

ppc_mcrf(cr, d, s) == SetField(cr, d, {k \in 0..3 : 4 * s + k \in cr})
ppc_mtcrf(cr, crm, reg) == {k \in 0..7 : k \in IF k \div 4 \in crm THEN reg ELSE cr}
ppc_mcrxr(cr, f, so) == SetField(cr, f, IF so THEN {0} ELSE {})
CrOp(cr, op, d, a, b) ==
    LET x == a \in cr  y == b \in cr
        on == CASE op = "crand" -> x /\ y [] op = "crandc" -> x /\ ~y [] op = "creqv" -> x = y
                [] op = "crnand" -> ~(x /\ y) [] op = "crnor" -> ~(x \/ y) [] op = "cror" -> x \/ y
                [] op = "crorc" -> x \/ ~y [] op = "crxor" -> x # y
    IN IF on THEN cr \cup {d} ELSE cr \ {d}

\* the conditions of bc, bclr and bcctr; n is the counter after the decrement
CtrOk(bo, n) == On(bo, 4) \/ (n # 0) = ~On(bo, 2)
CndOk(bo, bi, cr) == On(bo, 16) \/ (bi \in cr) = On(bo, 8)
Dec(n) == (n - 1) % 2 ^ Width

ppc_bc(s, bo, bi, lk) ==
    LET n == IF On(bo, 4) THEN s.ctr ELSE Dec(s.ctr)
        taken == CtrOk(bo, n) /\ CndOk(bo, bi, s.cr)
    IN [s EXCEPT !.ctr = n, !.nia = IF taken THEN "target" ELSE @, !.lr = IF lk THEN "next" ELSE @]
\* the link register is the target, and is written after it was read
ppc_bclr(s, bo, bi, lk) ==
    LET n == IF On(bo, 4) THEN s.ctr ELSE Dec(s.ctr)
        taken == CtrOk(bo, n) /\ CndOk(bo, bi, s.cr)
    IN [s EXCEPT !.ctr = n, !.nia = IF taken THEN s.lr ELSE @, !.lr = IF lk THEN "next" ELSE @]
\* only the 601 decrements; the target is the counter before that
ppc_bcctr(s, bo, bi, lk) ==
    LET n == IF s.for601 THEN Dec(s.ctr) ELSE s.ctr
        taken == CtrOk(bo, n) /\ CndOk(bo, bi, s.cr)
    IN [s EXCEPT !.ctr = IF s.for601 /\ ~On(bo, 4) THEN n ELSE @, !.nia = IF taken THEN "ctr" ELSE @,
                 !.lr = IF lk THEN "next" ELSE @]
ppc_b(s, lk) == [s EXCEPT !.nia = "target", !.lr = IF lk THEN "next" ELSE @]
ppc_tw(a, b, to) ==
    LET n == IF a = b THEN 4 ELSE IF Signed(a) < Signed(b) THEN 16 ELSE 8
        m == IF a = b THEN 4 ELSE IF a < b THEN 2 ELSE 1
    IN On(to, n) \/ On(to, m)

-----------------------------------------------------------------------------
(* The guest. s.rel and s.bit say which bit of CR stands for which relation, *)
(* s.sense whether it is set when the relation holds.                        *)

Names == <<"LT", "GT", "EQ">>
Compare(f, a, b, unsigned) ==
    /\ br.step = "compare"
    /\ \E rel \in 1..3 :
        br' = [br EXCEPT !.step = "move", !.bit = 4 * f + rel - 1,
                         !.rel = [want |-> Names[rel], a |-> a, b |-> b, unsigned |-> unsigned],
                         !.cr = IF unsigned THEN ppc_cmpl(@, f, a, b, br.so) ELSE ppc_cmp(@, f, a, b, br.so)]

\* a copy to the other field, a combination of the bit with itself, a copy of
\* CR through a register, or an overflow flag into the field not in use
Move ==
    /\ br.step = "move"
    /\ LET f == br.bit \div 4  g == 1 - f
       IN \/ br' = [br EXCEPT !.step = "branch"]
          \/ br' = [br EXCEPT !.step = "branch", !.cr = ppc_mcrf(@, g, f), !.bit = 4 * g + (@ % 4)]
          \/ br' = [br EXCEPT !.step = "branch", !.cr = ppc_mcrxr(@, g, br.so), !.so = FALSE]
          \/ \E crm \in SUBSET {0, 1} : br' = [br EXCEPT !.step = "branch", !.cr = ppc_mtcrf(@, crm, br.cr)]
          \/ \E op \in {"crand", "crandc", "creqv", "crnand", "crnor", "cror", "crorc", "crxor"} :
                br' = [br EXCEPT !.step = "branch", !.cr = CrOp(@, op, 4 * g, br.bit, br.bit), !.bit = 4 * g,
                                 !.sense = CASE op \in {"crand", "cror"} -> "same"
                                             [] op \in {"crnand", "crnor"} -> "inverse"
                                             [] op \in {"creqv", "crorc"} -> "set"
                                             [] op \in {"crandc", "crxor"} -> "clear"]

Branch(bo, lk) ==
    /\ br.step = "branch"
    /\ \/ br' = [ppc_bc(br, bo, br.bit, lk) EXCEPT !.step = "bc", !.expect = bo]
       \/ br' = [ppc_bclr(br, bo, br.bit, lk) EXCEPT !.step = "bclr", !.expect = bo]
       \/ br' = [ppc_bcctr(br, bo, br.bit, lk) EXCEPT !.step = "bcctr", !.expect = bo]
       \/ bo = 20 /\ br' = [ppc_b(br, lk) EXCEPT !.step = "b", !.expect = bo]
       \/ lk /\ br' = [br EXCEPT !.step = "tw", !.expect = bo, !.trap = ppc_tw(br.rel.a, br.rel.b, bo)]

Again == br.step \in {"bc", "bclr", "bcctr", "b", "tw", "out"} /\ br' = Start(0, FALSE, FALSE)

\* bc at the end of a loop, to its beginning, as long as it is taken
Loop ==
    \/ /\ br.step = "compare" /\ br' = [br EXCEPT !.step = "loop", !.bit = 1]
    \/ /\ br.step = "loop"
       /\ LET s == ppc_bc(br, 16, 0, FALSE)
          IN br' = [s EXCEPT !.step = IF s.nia = "target" THEN "loop" ELSE "out", !.nia = "next",
                             !.bit = IF s.nia = "target" THEN @ + 1 ELSE @]

BrNext ==
    \/ \E f \in 0..1, a, b \in Words, unsigned \in BOOLEAN : br.ctr < 2 /\ Compare(f, a, b, unsigned)
    \/ Move \/ Loop
    \/ \E bo \in {0, 2, 4, 8, 10, 12, 16, 18, 20}, lk \in BOOLEAN : (lk \/ bo = 20) /\ Branch(bo, lk)
    \/ Again

-----------------------------------------------------------------------------
(* Properties.                                                             *)

Holds(r) ==
    LET x == IF r.unsigned THEN r.a ELSE Signed(r.a)  y == IF r.unsigned THEN r.b ELSE Signed(r.b)
    IN CASE r.want = "LT" -> x < y [] r.want = "GT" -> x > y [] r.want = "EQ" -> x = y
BitOf(s) ==
    CASE s.sense = "same" -> Holds(s.rel) [] s.sense = "inverse" -> ~Holds(s.rel)
      [] s.sense = "set" -> TRUE [] s.sense = "clear" -> FALSE

\* A branch on a compared relation, after any move or combination of its
\* condition bit, is taken if and only if the relation and the counter say so;
\* it leads to the old link register or counter even when it writes them; CTR
\* counts down by one in the forms that use it; a loop closed by bdnz runs
\* CTR times, and 2^32 times when CTR is 0.
BranchExact ==
    /\ br.step \in {"bc", "bclr", "bcctr"} =>
        LET bo == br.expect
            counts == ~On(bo, 4) /\ (br.step # "bcctr" \/ br.for601)
            n == (br.was - 1) % 2 ^ Width
            tested == IF br.step = "bcctr" /\ ~br.for601 THEN br.was ELSE n
            go == /\ On(bo, 16) \/ BitOf(br) = On(bo, 8)
                  /\ On(bo, 4) \/ (IF On(bo, 2) THEN tested = 0 ELSE tested # 0)
        IN /\ br.nia = IF ~go THEN "next" ELSE IF br.step = "bc" THEN "target"
                       ELSE IF br.step = "bclr" THEN "old" ELSE "ctr"
           /\ br.ctr = IF counts THEN n ELSE br.was
    /\ br.step = "out" => br.bit = IF br.was = 0 THEN 2 ^ Width ELSE br.was
=============================================================================
