---------------------------- MODULE MCPeripherals ---------------------------
(* The peripherals side by side, one at a time: focus says which one moves,  *)
(* so that the state spaces add up instead of multiplying; what it does not  *)
(* move keeps its initial state.                                             *)
EXTENDS Integers, Sequences

VARIABLES focus, via, cuda, keys, adb, kbd, mouse, quiet, scc, sock, rx,
          sw, drv, fd, chs, mace, net, eth, mii, srom, bits, codec, server, cb, heard

Cuda == INSTANCE Cuda WITH InMax <- 3, MaxKeys <- 2
Adb == INSTANCE Adb WITH Addr <- {2, 3, 8}, MaxPending <- 3
Escc == INSTANCE Escc WITH FifoSize <- 1, MaxSent <- 2, MaxOut <- 1
Swim3 == INSTANCE Swim3 WITH NumTracks <- 2, Heads <- {0}, Spt <- 2, Steps <- {0, 2},
                             Counts <- {0, 1}, CntMod <- 3
Ether == INSTANCE Ethernet WITH MaxFrame <- 3, MaxQueue <- 1, MissedMax <- 1, Lens <- {1, 2},
                           Rooms <- {2, 4}, PhysLen <- 2, LogLen <- 3, MaxAccepted <- 2, Pre <- 3, ABits <- 2, DBits <- 2
Sound == INSTANCE Sound WITH FrameBytes <- 4, ReqFrames <- 2, Chunks <- {1, 3, 6}, Rates <- {1, 2}

input == <<via, cuda, keys, adb, kbd, mouse, quiet>>
serial == <<scc, sock, rx>>
floppy == <<sw, drv, fd, chs>>
ether == <<mace, net, eth, mii, srom, bits>>
sound == <<codec, server, cb, heard>>
vars == <<focus, input, serial, floppy, ether, sound>>

Init ==
    /\ focus \in {"via", "cuda", "adb", "escc", "swim3", "image", "mace", "bigmac", "sound"}
    /\ Cuda!ViaInit /\ Cuda!Init /\ Adb!Init /\ Escc!Init /\ Swim3!Init /\ Swim3!ImgInit
    /\ Ether!Init /\ Ether!BmInit /\ Sound!Init
    /\ focus = "escc" \/ scc.shared
    /\ focus = "image" \/ chs.f.hd
    /\ focus = "mace" \/ net.kind = "slirp"
    /\ focus = "sound" \/ (server.det /\ codec.rate = 1)

Via1 == focus = "via" /\ Cuda!ViaNext
        /\ UNCHANGED <<focus, cuda, keys, adb, kbd, mouse, quiet, serial, floppy, ether, sound>>
Cuda1 == focus = "cuda" /\ Cuda!Next
         /\ UNCHANGED <<focus, via, adb, kbd, mouse, quiet, serial, floppy, ether, sound>>
Adb1 == focus = "adb" /\ Adb!Next
        /\ UNCHANGED <<focus, via, cuda, keys, serial, floppy, ether, sound>>
Escc1 == focus = "escc" /\ Escc!Next /\ UNCHANGED <<focus, input, floppy, ether, sound>>
Swim31 == focus = "swim3" /\ Swim3!Next /\ UNCHANGED <<focus, input, serial, chs, ether, sound>>
Image1 == focus = "image" /\ Swim3!ImgNext
          /\ UNCHANGED <<focus, input, serial, sw, drv, fd, ether, sound>>
Mace1 == focus = "mace" /\ Ether!Next
         /\ UNCHANGED <<focus, input, serial, floppy, mii, srom, bits, sound>>
BigMac1 == focus = "bigmac" /\ Ether!BmNext
           /\ UNCHANGED <<focus, input, serial, floppy, mace, net, eth, sound>>
Sound1 == focus = "sound" /\ Sound!Next /\ UNCHANGED <<focus, input, serial, floppy, ether>>

Next == Via1 \/ Cuda1 \/ Adb1 \/ Escc1 \/ Swim31 \/ Image1 \/ Mace1 \/ BigMac1 \/ Sound1

Spec == Init /\ [][Next]_vars

\* No answer of Cuda is replaced by a packet it sends of its own accord, no
\* key event is dropped between keyboard and host, the keyboard asks for
\* service while it has any, and the line of the VIA follows its flags.
InputKept ==
    /\ focus = "via" => Cuda!LineFollows /\ Cuda!WrapFlagged
    /\ focus = "cuda" => Cuda!TypeOK /\ Cuda!AnswerKept /\ Cuda!NoKeyLost
    /\ focus = "adb" => Adb!KeysReported /\ Adb!AddressesApart
\* No received character disappears without a report, a pending interrupt of
\* either serial channel is on its line, and the character timers run.
SerialKept == focus = "escc" => Escc!EsccOK
\* A floppy access moves the sectors it announces, in order and as many as
\* asked for; its timers and interrupt follow the mode register, and the
\* sectors of every image format lie one behind the other in the image.
FloppyExact == /\ focus = "swim3" => Swim3!FloppyOK
               /\ focus = "image" => Swim3!GeometryExact
\* Ethernet frames reach the guest and the wire whole, once, in order and with
\* an interrupt; PHY and EEPROM answer every frame of their serial protocols.
FramesKept == /\ focus = "mace" => Ether!MaceOK
              /\ focus = "bigmac" => Ether!BigMacOK
\* A started sound channel is drained at the rate asked for, into an output
\* object that exists, in frames that stay aligned.
SoundServed == focus = "sound" => Sound!SoundOK
=============================================================================
