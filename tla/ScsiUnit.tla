------------------------------ MODULE ScsiUnit ------------------------------
(* A SCSI logical unit, hard disk or CD-ROM (scsicommoncmds.cpp,             *)
(* scsiblockcmds.cpp, scsicdromcmds.cpp, scsihd.cpp, scsicdrom.cpp), with    *)
(* the drive behind it (cdromdrive.cpp) and its block cache                  *)
(* (blockstoragedevice.cpp). The initiator moves one block at a time, asks   *)
(* for the sense data after every CHECK CONDITION and may reset the bus.     *)
EXTENDS Integers, Sequences, FiniteSets

CONSTANTS Blocks,       \* size of a medium in blocks
          CacheBlocks,  \* blocks the cache holds
          MaxMedia      \* media that are ever inserted

VARIABLES unit,         \* the logical unit
          disk,         \* contents of a hard disk, block by block
          init          \* history: what the initiator asked for and got

vars == <<unit, disk, init>>

Kind == {"HD", "CD"}
Flag == {"ok", "lun", "link", "bad"}  \* LUN other than 0, link bit, a bad field
Block == 0..(Blocks - 1)

Common == {"TEST_UNIT_READY", "REQ_SENSE", "INQUIRY", "MODE_SENSE"}
BlockOp == {"READ", "VERIFY", "START", "EJECT", "PREVENT", "ALLOW", "READ_CAPACITY"}
Op(k) == Common \cup BlockOp \cup {"MODE_SELECT", "UNKNOWN"}
           \cup (IF k = "HD" THEN {"WRITE", "FORMAT_UNIT", "READ_BUFFER"}
                 ELSE {"READ_TOC", "SET_CD_SPEED"})
HasLength == {"READ", "WRITE", "MODE_SELECT"}

\* read_begin() and write_begin(): what the first fill of the cache leaves
Min(a, b) == IF a < b THEN a ELSE b
Remaining(n) == n - Min(n, CacheBlocks)

Idle == [phase |-> "COMMAND", status |-> "GOOD", reply |-> 0, cache |-> <<>>,
         room |-> 0]
Init ==
    \E k \in Kind, m \in 0..1 :
        /\ unit = [kind |-> k, image |-> IF k = "HD" THEN 1 ELSE m, locked |-> FALSE,
                   change |-> FALSE, sense |-> "NONE", fpos |-> 0, remain |-> 0,
                   xfer |-> Idle]
        /\ disk = [b \in Block |-> 0]
        /\ init = [op |-> "none", n |-> 0, lba |-> 0, got |-> <<>>, sent |-> 0,
                   torn |-> FALSE, sense |-> "NONE", check |-> FALSE,
                   known |-> unit.image, media |-> unit.image]

-----------------------------------------------------------------------------
(* Results of a command: the phase it goes to, the status, the transfer.   *)

Status(u) == [u EXCEPT !.xfer = [Idle EXCEPT !.phase = "STATUS"]]
Check(u, key) == [u EXCEPT !.sense = key,
                           !.xfer = [Idle EXCEPT !.phase = "STATUS", !.status = "CHECK"]]
Reply(u) == [u EXCEPT !.xfer = [Idle EXCEPT !.phase = "DATA_IN", !.reply = 1]]

\* fill_cache(): the next k blocks of the image
Fill(u, k) ==
    [u EXCEPT !.fpos = @ + k, !.xfer.cache = [i \in 1..k |-> u.fpos + i - 1]]

ReadBegin(u, lba, n) ==
    Fill([u EXCEPT !.fpos = lba, !.remain = Remaining(n),
                   !.xfer = [Idle EXCEPT !.phase = "DATA_IN"]], Min(n, CacheBlocks))

ReadMore(u) ==
    Fill([u EXCEPT !.remain = Remaining(@)], Min(u.remain, CacheBlocks))

WriteBegin(u, lba, n) ==
    [u EXCEPT !.fpos = lba, !.remain = Remaining(n),
              !.xfer = [Idle EXCEPT !.phase = "DATA_OUT", !.room = Min(n, CacheBlocks)]]

\* write_cache()
Written(u) == [b \in Block |-> IF b >= u.fpos /\ b < u.fpos + Len(u.xfer.cache)
                               THEN u.xfer.cache[b - u.fpos + 1] ELSE disk[b]]
WriteMore(u) ==
    [u EXCEPT !.fpos = @ + Len(u.xfer.cache), !.remain = Remaining(@),
              !.xfer.cache = <<>>, !.xfer.room = Min(u.remain, CacheBlocks)]

-----------------------------------------------------------------------------
(* Commands.                                                               *)

TestUnitReady(u) ==
    IF u.change THEN Check([u EXCEPT !.change = FALSE], "UNIT_ATTENTION")
    ELSE IF u.image = 0 THEN Check(u, "NOT_READY") ELSE Status(u)

RequestSense(u, flag) == Reply([u EXCEPT !.sense = "NONE"])

EjectMedium(u) ==
    IF u.kind = "HD" THEN Status(u)
    ELSE IF u.locked THEN Check(u, "ILLEGAL_REQ")
    ELSE Status([u EXCEPT !.image = 0, !.change = FALSE, !.fpos = 0, !.remain = 0])

\* verify_cdb()
Verified(op, flag) ==
    ~(flag = "lun" /\ op \notin {"INQUIRY", "REQ_SENSE"}) /\ flag # "link"

ReadyForCommand(u, op) == op \in Common \/ u.image # 0

HardDiskCommand(u, op, n) ==
    CASE op = "FORMAT_UNIT" -> [u EXCEPT !.xfer = [Idle EXCEPT !.phase = "FORMAT"]]
      [] op = "READ_BUFFER" -> Reply(u)
      [] op = "MODE_SELECT" ->
            IF n = 0 THEN Status(u)
            ELSE [u EXCEPT !.xfer = [Idle EXCEPT !.phase = "DATA_OUT", !.room = 1]]

\* a CD-ROM that gets an empty list of parameters stays in the COMMAND phase
CdromCommand(u, op, n, flag) ==
    CASE op = "READ_TOC" -> IF flag = "bad" THEN Check(u, "ILLEGAL_REQ")
                            ELSE IF n = 0 THEN Status(u) ELSE Reply(u)
      [] op = "SET_CD_SPEED" -> Status(u)
      [] op = "MODE_SELECT" ->
            IF n = 0 THEN u
            ELSE [u EXCEPT !.xfer = [Idle EXCEPT !.phase = "DATA_OUT", !.room = 1]]

BlockCommand(u, op, lba, n, flag) ==
    CASE op \in {"READ", "WRITE", "VERIFY", "READ_CAPACITY"} /\ flag = "bad" ->
            Check(u, "ILLEGAL_REQ")
      [] op \in {"READ", "WRITE"} /\ flag # "bad" /\ n = 0 -> Status(u)
      [] op = "READ" /\ flag # "bad" /\ n > 0 -> ReadBegin(u, lba, n)
      [] op = "WRITE" /\ flag # "bad" /\ n > 0 -> WriteBegin(u, lba, n)
      [] op = "START" \/ (op = "VERIFY" /\ flag # "bad") -> Status(u)
      [] op = "READ_CAPACITY" /\ flag # "bad" -> Reply(u)
      [] op \in {"PREVENT", "ALLOW"} -> Status([u EXCEPT !.locked = op = "PREVENT"])
      [] op = "EJECT" -> EjectMedium(u)

CommonCommand(u, op, n, flag) ==
    CASE op = "TEST_UNIT_READY" -> TestUnitReady(u)
      [] op = "REQ_SENSE" -> IF n = 0 THEN Status(u) ELSE RequestSense(u, flag)
      [] op \in {"INQUIRY", "MODE_SENSE"} /\ flag = "bad" -> Check(u, "ILLEGAL_REQ")
      [] op \in {"INQUIRY", "MODE_SENSE"} /\ flag # "bad" ->
            IF n = 0 THEN Status(u) ELSE Reply(u)
      [] op = "UNKNOWN" -> Check(u, "ILLEGAL_REQ")

ProcessCommand(u, op, lba, n, flag) ==
    IF ~Verified(op, flag) THEN Check(u, "ILLEGAL_REQ")
    ELSE IF op \in {"FORMAT_UNIT", "READ_BUFFER", "MODE_SELECT"} /\ u.kind = "HD"
    THEN HardDiskCommand(u, op, n)
    ELSE IF op = "MODE_SELECT" THEN CdromCommand(u, op, n, flag)
    ELSE IF ~ReadyForCommand(u, op) THEN Check(u, "NOT_READY")
    ELSE IF op \in {"READ_TOC", "SET_CD_SPEED"} THEN CdromCommand(u, op, n, flag)
    ELSE IF op \in BlockOp \cup {"WRITE"} THEN BlockCommand(u, op, lba, n, flag)
    ELSE CommonCommand(u, op, n, flag)

Command(op, lba, n, flag) ==
    /\ unit.xfer.phase = "COMMAND" /\ op \in Op(unit.kind)
    /\ lba + n <= Blocks
    /\ init.check => op = "REQ_SENSE" /\ flag = "ok" /\ n > 0
    \* parameters sent after a write that was cut short are left out: they
    \* would be followed by the rest of that write
    /\ op = "MODE_SELECT" => ~init.torn
    /\ unit' = ProcessCommand([unit EXCEPT !.xfer = Idle], op, lba, n, flag)
    /\ init' = [init EXCEPT !.op = op, !.n = n, !.lba = lba, !.got = <<>>, !.sent = 0,
                            !.torn = @ /\ ~(op \in {"READ", "WRITE"} /\ unit'.xfer.phase # "STATUS"),
                            !.sense = IF op = "REQ_SENSE" THEN unit.sense ELSE @,
                            !.check = IF op = "REQ_SENSE" THEN @ ELSE FALSE]
    /\ UNCHANGED disk

-----------------------------------------------------------------------------
(* Data, status, events.                                                   *)

\* send_data() of one block: the cache is filled again when it runs empty
Send ==
    /\ unit.xfer.phase = "DATA_IN"
    /\ LET block == unit.xfer.cache # <<>>
           u == IF block THEN [unit EXCEPT !.xfer.cache = Tail(@)]
                ELSE [unit EXCEPT !.xfer.reply = 0]
           empty == u.xfer.cache = <<>> /\ u.xfer.reply = 0
       IN /\ unit' = IF ~empty THEN u
                     ELSE IF u.remain > 0 THEN ReadMore(u)
                     ELSE [u EXCEPT !.xfer.phase = "STATUS"]
          /\ init' = [init EXCEPT !.got = Append(@, IF block THEN unit.xfer.cache[1] ELSE -1)]
    /\ UNCHANGED disk

\* rcv_data() of one block: a full cache is written, then more is accepted;
\* post_xfer_action() writes the last one
Receive ==
    /\ unit.xfer.phase = "DATA_OUT"
    /\ LET u == [unit EXCEPT !.xfer.cache = Append(@, init.sent + 1)]
           full == Len(u.xfer.cache) = u.xfer.room
           save == full /\ init.op = "WRITE"
       IN /\ disk' = IF save THEN Written(u) ELSE disk
          /\ unit' = IF ~full THEN u
                     ELSE IF u.remain > 0 THEN WriteMore(u)
                     ELSE [u EXCEPT !.fpos = IF save THEN @ + Len(u.xfer.cache) ELSE @,
                                    !.xfer.cache = <<>>, !.xfer.phase = "STATUS"]
    /\ init' = [init EXCEPT !.sent = @ + 1]

\* phase_switch_timer of FORMAT UNIT
Formatted ==
    /\ unit.xfer.phase = "FORMAT"
    /\ unit' = [unit EXCEPT !.xfer.phase = "STATUS"]
    /\ UNCHANGED <<disk, init>>

\* the initiator takes status and message
Complete ==
    /\ unit.xfer.phase = "STATUS"
    /\ unit' = [unit EXCEPT !.xfer = Idle]
    /\ init' = [init EXCEPT !.op = "none",
                            !.check = unit.xfer.status = "CHECK",
                            !.known = IF init.op = "TEST_UNIT_READY" THEN init.media ELSE @]
    /\ UNCHANGED disk

\* a bus reset: the unit forgets nothing but the phase; the initiator takes
\* what it knew of the medium for void
BusReset ==
    /\ unit.xfer.phase # "FORMAT"
    /\ unit' = [unit EXCEPT !.xfer = Idle]
    /\ init' = [init EXCEPT !.op = "none", !.torn = TRUE, !.check = unit.sense # "NONE",
                            !.known = IF unit.change THEN @ ELSE init.media]
    /\ UNCHANGED disk

\* insert_image_event_handler(): the user inserts a medium into an empty drive
InsertImage ==
    /\ unit.kind = "CD" /\ unit.image = 0 /\ init.media < MaxMedia
    /\ unit' = [unit EXCEPT !.image = init.media + 1, !.change = TRUE, !.fpos = 0,
                            !.remain = 0]
    /\ init' = [init EXCEPT !.media = @ + 1]
    /\ UNCHANGED disk

Next ==
    \/ \E k \in Kind, lba \in {0, 1}, n \in 0..Blocks, flag \in Flag :
         \E op \in Op(k) : (op \notin HasLength => lba = 0 /\ n < 2) /\ Command(op, lba, n, flag)
    \/ Send \/ Receive \/ Formatted \/ Complete \/ BusReset \/ InsertImage

Spec == Init /\ [][Next]_vars

-----------------------------------------------------------------------------
(* Properties.                                                             *)

\* A read returns the blocks asked for, once each and in order, however the
\* cache cuts it up; a write changes those blocks, all of them, and no other;
\* a bus reset in between spoils nothing a later read or write does.
TransfersExact ==
    init.op \in {"READ", "WRITE"} /\ unit.xfer.phase = "STATUS" /\ unit.xfer.status = "GOOD" =>
        IF init.op = "READ" THEN init.got = [i \in 1..init.n |-> init.lba + i - 1]
        ELSE /\ init.sent = init.n
             /\ \A i \in 1..init.n : disk[init.lba + i - 1] = i

\* A reply is not followed by blocks of an earlier read, unless a bus reset
\* cut that read short.
ReplyEnds ==
    init.op \notin {"READ", "none"} /\ ~init.torn => Len(init.got) <= 1

\* REQUEST SENSE after CHECK CONDITION tells a reason, and it tells none after
\* a command that ended well: the sense data is consumed by being read.
SenseFresh ==
    init.op = "REQ_SENSE" /\ init.n > 0 => (init.check <=> init.sense # "NONE")

\* TEST UNIT READY does not end well on a medium whose arrival was not
\* reported to the initiator before.
MediumReported ==
    init.op = "TEST_UNIT_READY" /\ unit.xfer.phase = "STATUS" /\ unit.xfer.status = "GOOD"
        => init.known = init.media

UnitOK == TransfersExact /\ ReplyEnds /\ SenseFresh /\ MediumReported
=============================================================================
