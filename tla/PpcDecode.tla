----------------------------- MODULE PpcDecode ------------------------------
(* Two decoders of the same instruction words: the interpreter's opcode      *)
(* table (ppcexec.cpp) and the debugger's disassembler (ppcdisasm.cpp). An   *)
(* instruction is [m, o, d]: its mnemonic, whether OE and whether Rc is on;  *)
(* Bad stands for an illegal instruction, Stale for a disassembler path that *)
(* leaves the text of the instruction before.                                *)
EXTENDS Integers, Sequences

VARIABLE dec        \* kind, the word's fields, both readings of it

Bad == [m |-> "illegal", o |-> FALSE, d |-> FALSE]
Stale == [m |-> "stale", o |-> FALSE, d |-> FALSE]
Ins(m, o, d) == [m |-> m, o |-> o, d |-> d]
Cpus == {"601", "603", "970"}

-----------------------------------------------------------------------------
(* The interpreter: initialize_ppc_opcode_table().                           *)

\* OP, OP_fp: one handler for all 2048 slots of a primary opcode
OP(op, is601) ==
    CASE op = 3 -> "twi" [] op = 7 -> "mulli" [] op = 8 -> "subfic" [] op = 9 /\ is601 -> "dozi" [] op = 10 -> "cmpli"
      [] op = 11 -> "cmpi" [] op = 12 -> "addic" [] op = 13 -> "addic." [] op = 14 -> "addi" [] op = 15 -> "addis"
      [] op = 17 -> "sc" [] op = 20 -> "rlwimi" [] op = 21 -> "rlwinm" [] op = 22 /\ is601 -> "rlmi" [] op = 23 -> "rlwnm"
      [] op = 24 -> "ori" [] op = 25 -> "oris" [] op = 26 -> "xori" [] op = 27 -> "xoris" [] op = 28 -> "andi."
      [] op = 29 -> "andis." [] op = 32 -> "lwz" [] op = 33 -> "lwzu" [] op = 34 -> "lbz" [] op = 35 -> "lbzu"
      [] op = 36 -> "stw" [] op = 37 -> "stwu" [] op = 38 -> "stb" [] op = 39 -> "stbu" [] op = 40 -> "lhz"
      [] op = 41 -> "lhzu" [] op = 42 -> "lha" [] op = 43 -> "lhau" [] op = 44 -> "sth" [] op = 45 -> "sthu"
      [] op = 46 -> "lmw" [] op = 47 -> "stmw" [] OTHER -> "illegal"
OP_fp(op) == IF op \in 48..55 THEN <<"lfs", "lfsu", "lfd", "lfdu", "stfs", "stfsu", "stfd", "stfdu">>[op - 47] ELSE "illegal"
\* group 19: the slot includes the Rc (LK) bit
OP19 == { <<0, "mcrf">>, <<32, "bclr">>, <<33, "bclr">>, <<66, "crnor">>, <<100, "rfi">>, <<258, "crandc">>, <<300, "isync">>,
          <<386, "crxor">>, <<450, "crnand">>, <<514, "crand">>, <<578, "creqv">>, <<834, "crorc">>, <<898, "cror">>,
          <<1056, "bcctr">>, <<1057, "bcctr">> }
OP31 == { <<0, "cmp">>, <<4, "tw">>, <<32, "cmpl">>, <<20, "lwarx">>, <<23, "lwzx">>, <<55, "lwzux">>, <<87, "lbzx">>,
          <<119, "lbzux">>, <<279, "lhzx">>, <<311, "lhzux">>, <<343, "lhax">>, <<375, "lhaux">>, <<533, "lswx">>,
          <<534, "lwbrx">>, <<597, "lswi">>, <<790, "lhbrx">>, <<151, "stwx">>, <<183, "stwux">>, <<215, "stbx">>,
          <<247, "stbux">>, <<407, "sthx">>, <<439, "sthux">>, <<661, "stswx">>, <<662, "stwbrx">>, <<725, "stswi">>,
          <<918, "sthbrx">>, <<310, "eciwx">>, <<438, "ecowx">>, <<19, "mfcr">>, <<83, "mfmsr">>, <<144, "mtcrf">>,
          <<146, "mtmsr">>, <<210, "mtsr">>, <<242, "mtsrin">>, <<339, "mfspr">>, <<467, "mtspr">>, <<512, "mcrxr">>,
          <<595, "mfsr">>, <<659, "mfsrin">>, <<54, "dcbst">>, <<86, "dcbf">>, <<246, "dcbtst">>, <<278, "dcbt">>,
          <<598, "sync">>, <<470, "dcbi">>, <<1014, "dcbz">>, <<306, "tlbie">>, <<854, "eieio">>, <<982, "icbi">> }
OP31_fp == { <<535, "lfsx">>, <<567, "lfsux">>, <<599, "lfdx">>, <<631, "lfdux">>, <<663, "stfsx">>, <<695, "stfsux">>,
             <<727, "stfdx">>, <<759, "stfdux">> }
OP31d == { <<11, "mulhwu">>, <<75, "mulhw">>, <<24, "slw">>, <<28, "and">>, <<60, "andc">>, <<124, "nor">>, <<284, "eqv">>,
           <<316, "xor">>, <<412, "orc">>, <<444, "or">>, <<476, "nand">>, <<536, "srw">>, <<792, "sraw">>, <<824, "srawi">>,
           <<922, "extsh">>, <<954, "extsb">>, <<26, "cntlzw">> }
OP31od == { <<8, "subfc">>, <<40, "subf">>, <<104, "neg">>, <<136, "subfe">>, <<200, "subfze">>, <<232, "subfme">>,
            <<10, "addc">>, <<138, "adde">>, <<202, "addze">>, <<234, "addme">>, <<266, "add">>, <<235, "mullw">>,
            <<459, "divwu">>, <<491, "divw">> }
Power31d == { <<29, "maskg">>, <<152, "slq">>, <<153, "sle">>, <<184, "sliq">>, <<216, "sllq">>, <<217, "sleq">>,
              <<248, "slliq">>, <<277, "lscbx">>, <<537, "rrib">>, <<541, "maskir">>, <<664, "srq">>, <<665, "sre">>,
              <<696, "sriq">>, <<728, "srlq">>, <<729, "sreq">>, <<760, "srliq">>, <<920, "sraq">>, <<921, "srea">>, <<952, "sraiq">> }
Power31od == { <<107, "mul">>, <<264, "doz">>, <<331, "div">>, <<360, "abs">>, <<363, "divs">>, <<488, "nabs">> }
Not601 == { <<983, "stfiwx">>, <<371, "mftb">>, <<370, "tlbia">>, <<566, "tlbsync">>, <<978, "tlbld">>, <<1010, "tlbli">> }
\* rows with a C operand take every value of the upper five bits
OP59d == { <<18, "fdivs">>, <<20, "fsubs">>, <<21, "fadds">> }
OP59cd == { <<25, "fmuls">>, <<28, "fmsubs">>, <<29, "fmadds">>, <<30, "fnmsubs">>, <<31, "fnmadds">> }
OP63 == { <<0, "fcmpu">>, <<32, "fcmpo">>, <<64, "mcrfs">> }
OP63d == { <<12, "frsp">>, <<14, "fctiw">>, <<15, "fctiwz">>, <<18, "fdiv">>, <<20, "fsub">>, <<21, "fadd">>, <<38, "mtfsb1">>,
           <<40, "fneg">>, <<70, "mtfsb0">>, <<72, "fmr">>, <<134, "mtfsfi">>, <<136, "fnabs">>, <<264, "fabs">>,
           <<583, "mffs">>, <<711, "mtfsf">> }
OP63cd == { <<25, "fmul">>, <<28, "fmsub">>, <<29, "fmadd">>, <<30, "fnmsub">>, <<31, "fnmadd">> }

At(table, ext) == {p[2] : p \in {q \in table : q[1] = ext}}
\* every handler stored in the slot of ext and rc: a second store to a slot
\* would silently replace the first
Stored(op, ext, rc, cpu) ==
    LET is601 == cpu = "601"  not601 == ~is601
        named(t, o, d) == {Ins(m, o, d) : m \in t}
        if(c, t) == IF c THEN t ELSE {}
    IN CASE op = 19 -> named(At(OP19, 2 * ext + (IF rc THEN 1 ELSE 0)), FALSE, FALSE)
         [] op = 31 -> named(if(~rc, At(OP31 \cup OP31_fp \cup (IF is601 THEN {<<531, "clcs">>} ELSE Not601), ext)), FALSE, FALSE)
                       \cup named(if(rc, At({<<150, "stwcx.">>}, ext)), FALSE, FALSE)
                       \cup named(At(OP31d \cup if(is601, Power31d), ext), FALSE, rc)
                       \cup named(At(OP31od \cup if(is601, Power31od), ext % 512), ext >= 512, rc)
         [] op = 59 -> named(At(OP59d \cup if(not601, {<<24, "fres">>}) \cup if(cpu = "970", {<<22, "fsqrts">>}), ext), FALSE, rc)
                       \cup named(At(OP59cd, ext % 32), FALSE, rc)
         [] op = 63 -> named(if(~rc, At(OP63, ext)), FALSE, FALSE)
                       \cup named(At(OP63d \cup if(not601, {<<26, "frsqrte">>}) \cup if(cpu = "970", {<<22, "fsqrt">>}), ext), FALSE, rc)
                       \cup named(At(OP63cd \cup if(not601, {<<23, "fsel">>}), ext % 32), FALSE, rc)
         [] OTHER -> LET m == IF op \in 48..55 THEN OP_fp(op) ELSE IF op = 16 THEN "bc" ELSE IF op = 18 THEN "b" ELSE OP(op, is601)
                     IN {Ins(m, FALSE, FALSE)} \ {Bad}

-----------------------------------------------------------------------------
(* The disassembler without simplified mnemonics. w: op, ext, rc, and        *)
(* whether the fields rs, ra, rb are zero.                                   *)

opc_subs == <<"subfc", "subf", "", "neg", "subfe", "", "subfze", "subfme", "doz", "", "", "abs", "", "", "", "nabs">>
opc_adds == <<"addc", "", "", "", "adde", "", "addze", "addme", "add", "", "", "", "", "", "", "">>
opc_muldivs == <<"mulhwu", "", "mulhw", "mul", "", "", "", "mullw", "", "", "div", "divs", "", "", "divwu", "divw">>
opc_logic == <<"and", "andc", "", "nor", "", "", "", "", "eqv", "xor", "", "", "orc", "or", "nand", "">>
opc_shft_reg == <<"slw", "", "", "", "slq", "sliq", "sllq", "slliq", "", "", "", "", "", "", "", "", "srw", "", "", "", "srq",
                  "sriq", "srlq", "srliq", "sraw", "srawi", "", "", "sraq", "sraiq", "", "">>
opc_shft_ext == <<"", "", "", "", "sle", "", "sleq", "", "", "", "", "", "", "", "", "", "rrib", "", "", "", "sre", "", "sreq",
                  "", "", "", "", "", "srea", "", "", "">>
opc_idx_ldst == <<"lwzx", "lwzux", "lbzx", "lbzux", "stwx", "stwux", "stbx", "stbux", "lhzx", "lhzux", "lhax", "lhaux", "sthx",
                  "sthux", "", "", "lfsx", "lfsux", "lfdx", "lfdux", "stfsx", "stfsux", "stfdx", "stfdux", "", "", "", "", "", "",
                  "stfiwx", "">>
proc_mgmt_str == <<"", "dcbst", "dcbf", "", "stwcx.", "", "", "dcbtst", "dcbt", "eciwx", "", "", "", "ecowx", "dcbi", "",
                   "lwbrx", "tlbsync", "sync", "", "stwbrx", "", "", "dcba", "lhbrx", "", "eieio", "", "sthbrx", "", "icbi", "dcbz">>
Row(table, k, o, d) == IF table[k + 1] = "" THEN Bad ELSE Ins(table[k + 1], o, d)

opc_group19(w) ==
    LET t == { <<0, "mcrf">>, <<16, "bclr">>, <<33, "crnor">>, <<50, "rfi">>, <<129, "crandc">>, <<150, "isync">>, <<193, "crxor">>,
               <<225, "crnand">>, <<257, "crand">>, <<289, "creqv">>, <<417, "crorc">>, <<449, "cror">>, <<528, "bcctr">> }
    IN IF At(t, w.ext) = {} THEN Stale ELSE Ins(CHOOSE m \in At(t, w.ext) : TRUE, FALSE, FALSE)

\* the rows of group 31 that are switched on by the low five bits
TwoOp(w, x) == IF w.rb THEN x ELSE Bad              \* rb must be zero
Subs(w, k) == LET x == Row(opc_subs, k % 16, k >= 16, w.rc) IN IF k % 16 \in {3, 6, 7, 11, 15} THEN TwoOp(w, x) ELSE x
\* mutant: the OE bit is not stripped from the index of additions
AddsKeepOe(w, k) == IF k > 8 THEN Bad ELSE Row(opc_adds, k, FALSE, w.rc)
Adds(w, k) == LET x == Row(opc_adds, k % 16, k >= 16, w.rc) IN IF k % 16 \in {6, 7} THEN TwoOp(w, x) ELSE x
MulDivs(w, k) == IF k \in {16, 18} THEN Bad ELSE Row(opc_muldivs, k % 16, k >= 16, w.rc)
TlbSeg(w, k) ==
    CASE k = 4 -> IF w.ra /\ w.rb /\ ~w.rc THEN Ins("mtmsr", FALSE, FALSE) ELSE Bad
      [] k = 6 -> Ins("mtsr", FALSE, FALSE) [] k = 7 -> Ins("mtsrin", FALSE, FALSE) [] k = 9 -> Ins("tlbie", FALSE, FALSE)
      [] k = 11 -> Ins("tlbia", FALSE, FALSE)
      [] k = 30 -> IF w.rs /\ w.ra THEN Bad ELSE Ins("tlbld", FALSE, FALSE)      \* the test is upside down
      [] k = 31 -> IF w.rs /\ w.ra THEN Bad ELSE Ins("tlbli", FALSE, FALSE)
      [] OTHER -> Stale
SignExt(w, k) == Ins(CASE k = 0 -> "cntlzw" [] k = 28 -> "extsh" [] k = 29 -> "extsb" [] OTHER -> "", FALSE, w.rc)
IdxLdSt(w, k) == IF w.rc THEN Bad ELSE Row(opc_idx_ldst, k, FALSE, FALSE)
ProcMgmt(w, k) ==
    LET x == Row(proc_mgmt_str, k, FALSE, FALSE)
    IN IF k = 4 THEN IF w.rc THEN x ELSE Bad
       ELSE IF k \in {9, 16, 24, 13, 20, 28} THEN IF w.rc THEN Bad ELSE x
       ELSE IF k \in {1, 2, 7, 8, 14, 23, 30, 31} THEN IF w.rc \/ ~w.rs THEN Bad ELSE x ELSE x
\* and the ones that are listed by the whole extended opcode
Rest31(w) ==
    LET noRc == { <<0, "cmp">>, <<4, "tw">>, <<20, "lwarx">>, <<32, "cmpl">>, <<144, "mtcrf">>, <<533, "lswx">>, <<597, "lswi">>,
                  <<661, "stswx">>, <<725, "stswi">> }
        anyRc == { <<19, "mfcr">>, <<83, "mfmsr">>, <<339, "mfspr">>, <<371, "mftb">>, <<467, "mtspr">>, <<512, "mcrxr">>,
                   <<595, "mfsr">>, <<659, "mfsrin">> }
        dot == { <<29, "maskg">>, <<277, "lscbx">>, <<531, "clcs">>, <<541, "maskir">> }
    IN IF At(noRc, w.ext) # {} THEN IF w.rc THEN Bad ELSE Ins(CHOOSE m \in At(noRc, w.ext) : TRUE, FALSE, FALSE)
       ELSE IF At(anyRc, w.ext) # {} THEN Ins(CHOOSE m \in At(anyRc, w.ext) : TRUE, FALSE, FALSE)
       ELSE IF At(dot, w.ext) # {} THEN Ins(CHOOSE m \in At(dot, w.ext) : TRUE, FALSE, w.rc) ELSE Bad
opc_group31(w) ==
    LET k == w.ext \div 32  low == w.ext % 32
    IN CASE low = 8 -> Subs(w, k) [] low = 10 -> Adds(w, k) [] low = 11 -> MulDivs(w, k) [] low = 18 -> TlbSeg(w, k)
         [] low = 24 -> Row(opc_shft_reg, k, FALSE, w.rc) [] low = 25 -> Row(opc_shft_ext, k, FALSE, w.rc)
         [] low = 26 -> SignExt(w, k) [] low = 28 -> IF k >= 16 THEN Bad ELSE Row(opc_logic, k, FALSE, w.rc)
         [] low = 23 -> IdxLdSt(w, k) [] low = 22 -> ProcMgmt(w, k) [] OTHER -> Rest31(w)

\* the C field (the upper five bits) must be zero for 18, 20, 21, 22, 24, 26
opc_group59(w) ==
    LET low == w.ext % 32  c == w.ext >= 32
    IN CASE low \in {18, 20, 21} -> IF c THEN Bad ELSE Ins(<<"fdivs", "", "fsubs", "fadds">>[low - 17], FALSE, w.rc)
         [] low = 22 -> IF c \/ ~w.ra THEN Bad ELSE Ins("fsqrts", FALSE, FALSE)       \* printed without the dot
         [] low = 24 -> IF c \/ ~w.ra THEN Bad ELSE Ins("fres", FALSE, w.rc)
         [] low = 25 -> IF w.rb THEN Ins("fmuls", FALSE, w.rc) ELSE Bad
         [] low \in 28..31 -> Ins(<<"fmsubs", "fmadds", "fnmsubs", "fnmadds">>[low - 27], FALSE, w.rc) [] OTHER -> Stale
\* opc_group63: the low five bits choose the arithmetic, the whole extended
\* opcode the rest; a one-operand row wants rA (and mffs rB) zero
Multiply63(w) == Ins(<<"fmsub", "fmadd", "fnmsub", "fnmadd">>[(w.ext % 32) - 27], FALSE, w.rc)
Arith63(w) ==
    LET low == w.ext % 32  c == w.ext >= 32
    IN CASE low \in {18, 20, 21} -> IF c THEN Bad ELSE Ins(<<"fdiv", "", "fsub", "fadd">>[low - 17], FALSE, w.rc)
         [] low \in {22, 26} -> IF c \/ ~w.ra THEN Bad ELSE Ins(IF low = 22 THEN "fsqrt" ELSE "frsqrte", FALSE, w.rc)
         [] low = 23 -> Ins("fsel", FALSE, w.rc)
         [] low = 25 -> IF w.rb THEN Ins("fmul", FALSE, w.rc) ELSE Bad
Status63(w) ==
    LET m == At({ <<134, "mtfsfi">>, <<136, "fnabs">>, <<264, "fabs">>, <<583, "mffs">> }, w.ext)
    IN IF m # {} THEN IF w.ra /\ (w.ext = 583 => w.rb) THEN Ins(CHOOSE x \in m : TRUE, FALSE, w.rc) ELSE Bad
       ELSE IF w.ext = 711 THEN Ins("mtfsf", FALSE, w.rc) ELSE Bad
Move63(w) ==
    CASE w.ext \in {0, 32} -> IF w.rs THEN Ins(IF w.ext = 0 THEN "fcmpu" ELSE "fcmpo", FALSE, FALSE) ELSE Bad
      [] w.ext \in {38, 70} -> Ins(IF w.ext = 38 THEN "mtfsb1" ELSE "mtfsb0", FALSE, w.rc)
      [] w.ext = 64 -> Ins("mcrfs", FALSE, FALSE)
      [] OTHER -> LET m == At({ <<12, "frsp">>, <<14, "fctiw">>, <<15, "fctiwz">>, <<40, "fneg">>, <<72, "fmr">> }, w.ext)
                  IN IF m = {} THEN Status63(w) ELSE IF w.ra THEN Ins(CHOOSE x \in m : TRUE, FALSE, w.rc) ELSE Bad
opc_group63(w) ==
    LET low == w.ext % 32
    IN IF low \in 28..31 THEN Multiply63(w) ELSE IF low \in {18} \cup 20..23 \cup {25, 26} THEN Arith63(w) ELSE Move63(w)
\* loads and stores with update: rA must not be zero nor, for a load, rD
opc_intldst(w) ==
    LET k == w.op - 32
    IN IF (k < 14 /\ k % 2 = 1 /\ (k \div 4) % 2 = 0 /\ w.ra = w.rs) \/ (k % 2 = 1 /\ w.ra) THEN Bad
       ELSE Ins(<<"lwz", "lwzu", "lbz", "lbzu", "stw", "stwu", "stb", "stbu", "lhz", "lhzu", "lha", "lhau", "sth", "sthu", "lmw",
                  "stmw">>[k + 1], FALSE, FALSE)
opc_fltldst(w) ==
    LET k == w.op - 48
    IN IF (k \in {1, 3} /\ w.ra = w.rs) \/ (k % 2 = 1 /\ w.ra) THEN Bad
       ELSE Ins(<<"lfs", "lfsu", "lfd", "lfdu", "stfs", "stfsu", "stfd", "stfdu">>[k + 1], FALSE, FALSE)
opc_ar_im(w) == Ins(<<"mulli", "subfic", "", "", "", "addic", "addic.", "addi", "addis">>[w.op - 6], FALSE, FALSE)
opc_bool_im(w) == Ins(<<"ori", "oris", "xori", "xoris", "andi.", "andis.">>[w.op - 23], FALSE, FALSE)
opc_cmp_i_li(w) == Ins(IF w.op % 2 = 1 THEN "cmpi" ELSE "cmpli", FALSE, FALSE)
opc_rot(w) == Ins(<<"rlwimi", "rlwinm", "rlmi", "rlwnm">>[w.op - 19], FALSE, FALSE)
OpcodeDispatchTable(w) ==
    CASE w.op = 3 -> Ins("twi", FALSE, FALSE) [] w.op = 4 -> Stale [] w.op \in {7, 8} \cup 12..15 -> opc_ar_im(w)
      [] w.op = 9 -> Ins("dozi", FALSE, FALSE) [] w.op \in {10, 11} -> opc_cmp_i_li(w) [] w.op = 16 -> Ins("bc", FALSE, FALSE)
      [] w.op = 17 -> Ins("sc", FALSE, FALSE) [] w.op = 18 -> Ins("b", FALSE, FALSE) [] w.op = 19 -> opc_group19(w)
      [] w.op \in 20..23 -> opc_rot(w) [] w.op \in 24..29 -> opc_bool_im(w) [] w.op = 31 -> opc_group31(w)
      [] w.op \in 32..47 -> opc_intldst(w) [] w.op \in 48..55 -> opc_fltldst(w) [] w.op = 59 -> opc_group59(w)
      [] w.op = 63 -> opc_group63(w) [] OTHER -> Bad

-----------------------------------------------------------------------------
(* Simplified mnemonics: what the text says, as operands of the full form.   *)

\* the printed arguments of rlwinm, as <<name, first, second>>
opc_rlwinm(sh, mb, me) ==
    IF mb = 0 /\ me = 31 THEN IF sh < 16 THEN <<"rotlwi", sh, 0>> ELSE <<"rotrwi", 32 - sh, 0>>
    ELSE IF me = 31 THEN IF 32 - sh = mb THEN <<"srwi", mb, 0>> ELSE IF sh = 0 THEN <<"clrlwi", mb, 0>>
                         ELSE <<"extrwi", 32 - mb, sh - (32 - mb)>>
    ELSE IF mb = 0 THEN IF 31 - me = sh THEN <<"slwi", sh, 0>> ELSE IF sh = 0 THEN <<"clrrwi", 31 - me, 0>>
                        ELSE <<"extlwi", me + 1, sh>>
    ELSE IF 31 - me = sh THEN <<"clrlslwi", mb + sh, sh>> ELSE <<"rlwinm", 0, 0>>
opc_rlwimi(sh, mb, me) ==
    IF 32 - sh = mb THEN <<"inslwi", me + 1 - mb, mb>> ELSE IF sh = 32 - (me + 1) THEN <<"insrwi", me - mb + 1, mb>>
    ELSE <<"rlwimi", 0, 0>>
\* what an assembler makes of them: <<sh, mb, me>>
Expand(a) ==
    LET n == a[2]  b == a[3]
    IN CASE a[1] = "rotlwi" -> <<n, 0, 31>> [] a[1] = "rotrwi" -> <<32 - n, 0, 31>> [] a[1] = "srwi" -> <<32 - n, n, 31>>
         [] a[1] = "clrlwi" -> <<0, n, 31>> [] a[1] = "extrwi" -> <<b + n, 32 - n, 31>> [] a[1] = "slwi" -> <<n, 0, 31 - n>>
         [] a[1] = "clrrwi" -> <<0, 0, 31 - n>> [] a[1] = "extlwi" -> <<b, 0, n - 1>> [] a[1] = "clrlslwi" -> <<b, n - b, 31 - b>>
         [] a[1] = "inslwi" -> <<32 - b, b, b + n - 1>> [] a[1] = "insrwi" -> <<32 - (b + n), b, b + n - 1>>
\* conditional branches: <<decrements CTR, branches on zero, CR sense or none, links>>
On(x, bit) == (x \div bit) % 2 = 1
opc_bcx(bo, bi, lk) ==
    IF On(bo, 16) /\ bi # 0 THEN "generic" ELSE IF On(bo, 16) /\ On(bo, 4) THEN <<FALSE, FALSE, "none", FALSE>>
    ELSE IF ~On(bo, 4) THEN <<TRUE, On(bo, 2), IF On(bo, 16) THEN "none" ELSE IF On(bo, 8) THEN "t" ELSE "f", lk>>
    ELSE <<FALSE, FALSE, IF On(bo, 8) THEN "t" ELSE "f", lk>>
opc_bclrx(bo, bi, lk) ==
    LET x == opc_bcx(bo, bi, lk) IN IF x # "generic" /\ On(bo, 16) /\ On(bo, 4) THEN [x EXCEPT ![4] = lk] ELSE x
Executed(bo, lk) == <<~On(bo, 4), ~On(bo, 4) /\ On(bo, 2), IF On(bo, 16) THEN "none" ELSE IF On(bo, 8) THEN "t" ELSE "f", lk>>
trap_cond == <<"", "lgt", "llt", "", "eq", "lge", "lle", "", "gt", "", "", "", "ge", "", "", "", "lt", "", "", "", "le", "", "", "",
               "ne", "", "", "", "", "", "", "">>
TrapBits(c) == CASE c = "lgt" -> 1 [] c = "llt" -> 2 [] c = "eq" -> 4 [] c = "lge" -> 4 + 1 [] c = "lle" -> 4 + 2 [] c = "gt" -> 8
                 [] c = "ge" -> 8 + 4 [] c = "lt" -> 16 [] c = "le" -> 16 + 4 [] c = "ne" -> 16 + 8
\* the names of special purpose registers, by position, against enum SPR
spr_index0 == { <<0, "mq">>, <<1, "xer">>, <<4, "rtcu">>, <<5, "rtcl">>, <<6, "dec">>, <<8, "lr">>, <<9, "ctr">>, <<18, "dsisr">>,
                <<19, "dar">>, <<20, "rtcu">>, <<21, "rtcl">>, <<22, "dec">>, <<25, "sdr1">>, <<26, "srr0">>, <<27, "srr1">> }
spr_index8 == { <<12, "tbl_u">>, <<13, "tbu_u">>, <<16, "sprg0">>, <<17, "sprg1">>, <<18, "sprg2">>, <<19, "sprg3">>, <<26, "ear">>,
                <<28, "tbl">>, <<29, "tbu">>, <<31, "pvr">> }
spr_index29 == { <<24, "mmcr0">>, <<25, "pmc1">>, <<26, "pmc2">>, <<27, "sia">>, <<28, "mmcr1">>, <<29, "pmc3">>, <<30, "pmc4">>,
                 <<31, "sda">> }
spr_index30 == { <<16, "dmiss">>, <<17, "dcmp">>, <<18, "hash1">>, <<19, "hash2">>, <<20, "imiss">>, <<21, "icmp">>, <<22, "rpa">> }
spr_index31 == { <<16, "hid0">>, <<17, "hid1">>, <<18, "iabr">>, <<21, "dabr">>, <<25, "l2cr">>, <<27, "ictc">>, <<28, "thrm1">>,
                 <<29, "thrm2">>, <<30, "thrm3">>, <<31, "pir">> }
SprName(n) ==
    LET t == CASE n \div 32 = 0 -> spr_index0 [] n \div 32 = 8 -> spr_index8 [] n \div 32 = 29 -> spr_index29
               [] n \div 32 = 30 -> spr_index30 [] n \div 32 = 31 -> spr_index31
    IN At(t, n % 32)
SPR == { <<0, "mq">>, <<1, "xer">>, <<4, "rtcu">>, <<5, "rtcl">>, <<6, "dec">>, <<8, "lr">>, <<9, "ctr">>, <<18, "dsisr">>,
         <<19, "dar">>, <<20, "rtcu">>, <<21, "rtcl">>, <<22, "dec">>, <<25, "sdr1">>, <<26, "srr0">>, <<27, "srr1">>,
         <<268, "tbl_u">>, <<269, "tbu_u">>, <<272, "sprg0">>, <<273, "sprg1">>, <<274, "sprg2">>, <<275, "sprg3">>, <<282, "ear">>,
         <<284, "tbl">>, <<285, "tbu">>, <<287, "pvr">>, <<976, "dmiss">>, <<977, "dcmp">>, <<978, "hash1">>, <<979, "hash2">>,
         <<980, "imiss">>, <<981, "icmp">>, <<982, "rpa">>, <<952, "mmcr0">>, <<953, "pmc1">>, <<954, "pmc2">>, <<955, "sia">>,
         <<956, "mmcr1">>, <<957, "pmc3">>, <<958, "pmc4">>, <<959, "sda">>, <<1008, "hid0">>, <<1009, "hid1">>, <<1020, "thrm1">>,
         <<1021, "thrm2">>, <<1022, "thrm3">> }

-----------------------------------------------------------------------------
(* One step reads one word with both decoders.                              *)

DecInit == dec = [kind |-> "none"]
\* words whose operand fields are 0, and words where they are not
DecWord == dec.kind = "none" /\ \E op \in 0..63, rc, zero \in BOOLEAN, cpu \in Cpus :
    \E ext \in IF op \in {19, 31, 59, 63} THEN 0..1023 ELSE {0} :
        LET w == [op |-> op, ext |-> ext, rc |-> rc, rs |-> zero, ra |-> zero, rb |-> zero]
            stored == Stored(op, ext, rc, cpu)
        IN /\ stored # {}
           /\ dec' = [kind |-> "word", zero |-> zero, rc |-> rc, runs |-> stored, shows |-> OpcodeDispatchTable(w)]
DecAlias == dec.kind = "none" /\ \E sh, mb \in 0..31 : dec' = [kind |-> "rotate", sh |-> sh, mb |-> mb]
DecBranch == dec.kind = "none" /\ \E bo, bi \in 0..31, lk \in BOOLEAN : dec' = [kind |-> "branch", bo |-> bo, bi |-> bi, lk |-> lk]
DecSpr == dec.kind = "none" /\ \E s \in SPR : dec' = [kind |-> "spr", n |-> s[1], name |-> s[2]]
DecDone == dec.kind # "none" /\ UNCHANGED dec
DecNext == DecWord \/ DecAlias \/ DecBranch \/ DecSpr \/ DecDone

\* No two registrations of initialize_ppc_opcode_table() share a slot, and
\* what the interpreter runs is what the disassembler shows, suffixes
\* included. tlbld, tlbli and the dotted fsqrts are shown wrong; operand
\* fields that must be zero, or must not, make a word illegal to the
\* disassembler alone.
Reserved == {"tlbld", "tlbli", "fsqrts"}
NeedsZero == {"mtmsr", "dcbst", "dcbf", "dcbtst", "dcbt", "dcbi", "icbi", "dcbz", "fcmpu", "fcmpo", "frsp", "fctiw", "fctiwz",
              "fneg", "fmr", "mtfsfi", "fnabs", "fabs", "mffs", "fmul", "fmuls", "fres", "frsqrte", "fsqrt", "neg", "subfze",
              "subfme", "abs", "nabs", "addze", "addme"}
NotZero == {"lwzu", "lbzu", "lhzu", "lhau", "stwu", "stbu", "sthu", "stmw", "lfsu", "lfdu", "stfsu", "stfdu"}
Loads == {"lwzu", "lbzu", "lhzu", "lhau", "lfsu", "lfdu"}   \* rD = rA in the words that are tried
WordAgrees ==
    dec.kind = "word" =>
        \E x \in dec.runs : /\ dec.runs = {x}
                            /\ \/ x.m \in Reserved \cup Loads \/ dec.shows = x
                               \/ x.m \in NeedsZero /\ ~dec.zero /\ dec.shows = Bad
                               \/ x.m \in NotZero /\ dec.zero /\ dec.shows = Bad
\* A simplified rotate assembles back to the same shift and mask.
RotateAgrees == dec.kind = "rotate" => \A me \in 0..31 : LET a == opc_rlwinm(dec.sh, dec.mb, me)
                                                             i == opc_rlwimi(dec.sh, dec.mb, me)
    IN /\ a[1] # "rlwinm" => Expand(a) = <<dec.sh, dec.mb, me>>
       /\ i[1] # "rlwimi" => Expand(i) = <<dec.sh, dec.mb, me>>
\* A simplified branch means what the interpreter does with BO and LK (an
\* unconditional bcl is shown as b).
BranchAgrees == dec.kind = "branch" =>
    LET b == opc_bcx(dec.bo, dec.bi, dec.lk)  r == opc_bclrx(dec.bo, dec.bi, dec.lk)
    IN /\ b = "generic" \/ b = Executed(dec.bo, dec.lk) \/ (On(dec.bo, 16) /\ On(dec.bo, 4))
       /\ r = "generic" \/ r = Executed(dec.bo, dec.lk)
       /\ trap_cond[dec.bo + 1] # "" => TrapBits(trap_cond[dec.bo + 1]) = dec.bo
SprAgrees == dec.kind = "spr" => SprName(dec.n) = {dec.name}
DecodersMatch == WordAgrees /\ RotateAgrees /\ BranchAgrees /\ SprAgrees
=============================================================================
