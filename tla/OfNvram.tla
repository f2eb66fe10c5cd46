------------------------------- MODULE OfNvram ------------------------------
(* Non-volatile RAM (nvram.cpp) and the debugger's view of the Open Firmware *)
(* variables in it (ofnvram.cpp): setenv on Apple's partition, whose strings *)
(* lie in a heap that grows down, and on a CHRP partition of name=value      *)
(* pairs.  A character and a half word of the header are one cell each, and  *)
(* the half word checksum is taken over cells modulo WMod.                   *)
EXTENDS Integers, Sequences, FiniteSetsExt, SequencesExt, Functions

CONSTANTS
    Strs,       \* the string variables of Apple's partition
    Texts,      \* the values given to string variables, tuples of characters
    End,        \* the end of the heap; it starts at cell 1 (here)
    WMod,       \* one more than the largest checksum
    DataMax,    \* the data cells of a full CHRP partition (4096)
    NameMax,    \* a CHRP name this long is not read back (32)
    MaxSets     \* bound on the commands given

VARIABLES nv,   \* the bytes of the NVRAM
          file, \* its backing file
          tool, \* the debugger's container and the variables it has read
          want  \* history: what every variable was last set to

Here == 1
Nl == 2
Cr == 3
Zero == [kind |-> "none"]
Names == {<<4>>, <<4, 4>>, [i \in 1..NameMax |-> 4]}

-----------------------------------------------------------------------------
(* OfConfigAppl *)

Words(n) == n.flags + n.num + n.top + SumFunction(n.off) + SumFunction(n.len) + SumFunction(n.heap)
\* checksum_partition(): the carries are added back once, and what that carries is cut off
Fold16(acc) == (acc + (acc \div WMod)) % WMod
ChecksumPartition(n) == Fold16(Words(n) + n.sum)
ValidAppl(n) == n.kind = "appl" /\ ChecksumPartition(n) = WMod - 1
UpdatePartition(n) == [n EXCEPT !.sum = WMod - 1 - Fold16(Words(n))]

GetString(n, s) == [i \in 1..n.len[s] |-> n.heap[n.off[s] + i - 1]]
NewTop(n, s, v) == n.top + n.len[s] - Len(v)
MovedUp(n, s) ==
    [t \in Strs |-> IF n.off[t] < n.off[s] THEN n.off[t] + n.len[s] ELSE n.off[t]]
MovedHeap(n, s) ==
    [i \in DOMAIN n.heap |->
        IF i \in (n.top + n.len[s])..(n.off[s] + n.len[s] - 1)
        THEN n.heap[i - n.len[s]] ELSE n.heap[i]]
Stored(v) == [i \in DOMAIN v |-> IF v[i] = Nl THEN Cr ELSE v[i]]
SetString(n, s, v) ==
    LET top == NewTop(n, s, v)
        heap == MovedHeap(n, s)
    IN  UpdatePartition([n EXCEPT
            !.heap = [i \in DOMAIN heap |->
                         IF i \in top..(top + Len(v) - 1) THEN Stored(v)[i - top + 1] ELSE heap[i]],
            !.off = [MovedUp(n, s) EXCEPT ![s] = top],
            !.len[s] = Len(v),
            !.top = top])
\* str2env(): a number, or else a hexadecimal number without its prefix
Stoul(t) == CASE t = "1" -> 1 [] t = "0xf" -> 15 [] OTHER -> -1
Str2Env(t) == IF Stoul(t) # -1 THEN Stoul(t) ELSE IF t = "f" THEN Stoul("0xf") ELSE -1

-----------------------------------------------------------------------------
(* OfConfigChrp *)

\* validate()'s walk over the partitions: where it stops, by the signature there
Stops(p) == p.sig \in {"env", "free", "unknown"} \/ p.len = 0
Walk(n) == SelectInSeq(n.parts, Stops)
Hangs(n) == n.kind = "chrp" /\ Walk(n) # 0 /\ n.parts[Walk(n)].sig = "skip"
ValidChrp(n) == n.kind = "chrp" /\ Walk(n) # 0 /\ n.parts[Walk(n)].sig = "env" /\ n.hdr
\* get_config_vars(): the pairs up to the first that has no name of fewer than NameMax
Readable(p) == Len(p[1]) \in 1..(NameMax - 1)
ConfigVars(n) ==
    LET bad == SelectInSeq(n.data, LAMBDA p : ~Readable(p))
    IN  IF bad = 0 THEN n.data ELSE SubSeq(n.data, 1, bad - 1)
\* the cells of a short partition; more than that is not put into one here
ShortMax == DataMax \div 2
PairLen(p) == Len(p[1]) + Len(p[2]) + 2
DataLength(d) == FoldLeft(LAMBDA n, p : n + PairLen(p), 0, d)
RoomForUpdate(d, i, v) == Len(v) - Len(d[i][2]) <= DataMax - DataLength(d)
RoomForNew(d, x, v) == Len(x) + Len(v) + 2 <= DataMax - DataLength(d)
\* update_partition() writes as many cells as a full partition has
WritePairs(n, d) == [n EXCEPT !.data = d, !.next = @ /\ n.full]

-----------------------------------------------------------------------------
(* NVram and OfConfigUtils *)

Factory ==
    [kind |-> "appl", sum |-> 0, flags |-> 0, num |-> 0, top |-> End,
     off |-> [s \in Strs |-> End], len |-> [s \in Strs |-> 0], heap |-> [i \in Here..(End - 1) |-> 0]]
Formats ==
    {UpdatePartition(Factory)}
    \cup [kind : {"chrp"}, hdr : BOOLEAN, full : BOOLEAN, data : {<<>>}, next : {TRUE},
          parts : {<<[sig |-> "skip", len |-> 1], [sig |-> "env", len |-> 1]>>,
                   <<[sig |-> "skip", len |-> 0], [sig |-> "env", len |-> 1]>>,
                   <<[sig |-> "free", len |-> 1]>>}]
WantOf(n) ==
    IF n.kind = "appl" THEN [s \in Strs \cup {"flag", "num"} |-> IF s \in Strs THEN <<>> ELSE 0]
    ELSE <<>>
NoTool == [impl |-> "none", st |-> "idle", sets |-> 0]

Init ==
    /\ \E n \in Formats \cup {Zero} : nv = n /\ file = n /\ want = [now |-> WantOf(n), saved |-> WantOf(n)]
    /\ tool = NoTool

Idle == tool.st = "idle" /\ tool.sets < MaxSets
\* open_container(): the first kind that validates is kept for good
Opened ==
    IF tool.impl # "none" THEN tool.impl
    ELSE IF ValidAppl(nv) THEN "appl" ELSE IF ValidChrp(nv) THEN "chrp" ELSE "none"
Valid(impl) == (impl = "appl" /\ ValidAppl(nv)) \/ (impl = "chrp" /\ ValidChrp(nv))
Looks == Hangs(nv) /\ Opened # "appl"
Done(n, w) ==
    /\ nv' = n
    /\ want' = [want EXCEPT !.now = w]
    /\ tool' = [tool EXCEPT !.impl = Opened, !.sets = @ + 1]
    /\ UNCHANGED file
Refused == Done(nv, want.now)

SetAppl(impl) == Idle /\ ~Looks /\ Opened = impl /\ Valid(impl)
SetFlag(v) ==
    /\ SetAppl("appl")
    /\ IF v \in {0, 1} THEN Done(UpdatePartition([nv EXCEPT !.flags = v]), [want.now EXCEPT !["flag"] = v])
       ELSE Refused
SetNum(t) ==
    /\ SetAppl("appl")
    /\ IF Str2Env(t) = -1 THEN Refused
       ELSE Done(UpdatePartition([nv EXCEPT !.num = Str2Env(t)]), [want.now EXCEPT !["num"] = Str2Env(t)])
SetVarAppl(s, v) ==
    /\ SetAppl("appl")
    /\ IF NewTop(nv, s, v) < Here THEN Refused
       ELSE IF nv.off[s] < nv.top    \* memmove() of a negative length
       THEN tool' = [tool EXCEPT !.st = "crashed", !.impl = Opened] /\ UNCHANGED <<nv, file, want>>
       ELSE Done(SetString(nv, s, v), [want.now EXCEPT ![s] = Stored(v)])
SetVarChrp(x, v) ==
    /\ SetAppl("chrp")
    /\ LET d == ConfigVars(nv)
           at == SelectInSeq(d, LAMBDA p : p[1] = x)
           new == IF at # 0 THEN [d EXCEPT ![at] = <<x, v>>] ELSE Append(d, <<x, v>>)
       IN  /\ nv.full \/ DataLength(new) <= ShortMax
           /\ IF (at # 0 /\ ~RoomForUpdate(d, at, v)) \/ (at = 0 /\ ~RoomForNew(d, x, v)) THEN Refused
              ELSE Done(WritePairs(nv, new), IF Readable(<<x, v>>) THEN new ELSE d)
SetInvalid == Idle /\ ~Looks /\ ~Valid(Opened) /\ Refused
Hang == Idle /\ Looks /\ tool' = [tool EXCEPT !.st = "hung"] /\ UNCHANGED <<nv, file, want>>

\* the guest formats its NVRAM
GuestFormat(n) ==
    /\ Idle
    /\ Done(n, WantOf(n))
\* the destructor saves, and the next process reads the file back
Restart(det) ==
    /\ tool.st = "idle"
    /\ file' = IF det THEN file ELSE nv
    /\ nv' = file'
    /\ want' = IF det THEN [want EXCEPT !.now = want.saved] ELSE [want EXCEPT !.saved = want.now]
    /\ tool' = [NoTool EXCEPT !.sets = tool.sets]
Killed ==
    /\ tool.st \in {"crashed", "hung"}
    /\ nv' = file /\ want' = [want EXCEPT !.now = want.saved]
    /\ tool' = [NoTool EXCEPT !.sets = tool.sets]
    /\ UNCHANGED file

Next ==
    \/ \E v \in 0..2 : SetFlag(v)
    \/ \E t \in {"1", "f", "zz"} : SetNum(t)
    \/ \E s \in Strs, v \in Texts : SetVarAppl(s, v)
    \/ \E x \in Names, v \in Texts : SetVarChrp(x, v)
    \/ SetInvalid \/ Hang \/ Killed
    \/ \E n \in Formats : GuestFormat(n)
    \/ \E det \in BOOLEAN : Restart(det)

vars == <<nv, file, tool, want>>
Spec == Init /\ [][Next]_vars
-----------------------------------------------------------------------------
(* Properties *)

\* Every variable of either partition reads back as it was last set, whatever
\* was set, moved, refused or saved in between (set_var, get_config_vars).
VariablesKept ==
    /\ nv.kind = "appl" =>
           /\ nv.flags = want.now["flag"] /\ nv.num = want.now["num"]
           /\ \A s \in Strs : GetString(nv, s) = want.now[s]
    /\ nv.kind = "chrp" => ConfigVars(nv) = want.now
\* The strings that are not empty share no cell and lie between top and the end
\* of the heap, and top stays above the variables' own records.
HeapTidy ==
    nv.kind = "appl" =>
        LET cells(s) == nv.off[s]..(nv.off[s] + nv.len[s] - 1)
        IN  /\ nv.top >= Here
            /\ \A s \in Strs : cells(s) \subseteq nv.top..(End - 1)
            /\ \A s, t \in Strs : s # t => cells(s) \cap cells(t) = {}
\* What update_partition() writes is what validate() accepts, unless adding the
\* carries back carries once more: then the partition is lost.
ChecksumAccepted ==
    nv.kind = "appl" => (ValidAppl(nv) <=> (Words(nv) % WMod) + (Words(nv) \div WMod) < WMod)
\* A CHRP partition never outgrows its data cells, and update_partition() does
\* not reach the partition behind one of full length.
DataFits == nv.kind = "chrp" => DataLength(nv.data) <= DataMax /\ (nv.full => nv.next)
\* Only a variable that is empty can lie below top, where setting it fails.
CrashOnlyEmpty == nv.kind = "appl" => \A s \in Strs : nv.off[s] < nv.top => nv.len[s] = 0
VariablesOK == VariablesKept /\ HeapTidy /\ ChecksumAccepted /\ DataFits /\ CrashOnlyEmpty
=============================================================================
