-------------------------------- MODULE Adb ---------------------------------
(* The ADB bus and its devices (devices/common/adb): SendReset, Listen,      *)
(* Talk and Poll, address changes by Listen R3, the keyboard's event queue, *)
(* the mouse and the AppleJack controller. Motion is a Boolean; key codes,  *)
(* the modifiers of register 2 and the lamps are left out.                  *)
EXTENDS Integers, Sequences

CONSTANTS Addr,       \* bus addresses, the default ones included
          MaxPending  \* bound: key events queued at once

VARIABLES adb,        \* per device: address, service request enable, handler
          kbd,        \* the keyboard's queue of events
          mouse,      \* motion and button changes not reported yet
          quiet       \* history: devices whose requests the host turned off

vars == <<adb, kbd, mouse, quiet>>

Device == {"kbd", "mouse", "jack"}
Key == {"a"}
Default(d) == IF d = "kbd" THEN 2 ELSE 3

DeviceReset(d) ==
    [addr |-> Default(d), srq |-> d # "kbd", handler |-> IF d = "kbd" THEN 2 ELSE 1]
Still == [moved |-> FALSE, trigger |-> FALSE, buttons |-> FALSE]

Init ==
    /\ adb = [d \in Device |-> DeviceReset(d)]
    /\ kbd = <<>>
    /\ mouse = [d \in {"mouse", "jack"} |-> Still]
    /\ quiet = {}

-----------------------------------------------------------------------------
(* Events of the host.                                                     *)

KeyEvent(k, up) ==
    /\ Len(kbd) < MaxPending
    /\ kbd' = Append(kbd, [key |-> k, up |-> up])
    /\ adb' = [adb EXCEPT !["kbd"].srq = @ \/ Len(kbd') = 1]
    /\ quiet' = IF Len(kbd') = 1 THEN quiet \ {"kbd"} ELSE quiet
    /\ UNCHANGED mouse

MouseEvent(d) ==
    /\ mouse' = [mouse EXCEPT ![d].moved = TRUE]
    /\ UNCHANGED <<adb, kbd, quiet>>

GamepadEvent(b) ==
    /\ mouse' = [mouse EXCEPT !["jack"][b] = TRUE]
    /\ UNCHANGED <<adb, kbd, quiet>>

-----------------------------------------------------------------------------
(* Registers.                                                              *)

\* two events at a time leave the keyboard
KbdLeft == SubSeq(kbd, 3, Len(kbd))

HasData(d) ==
    CASE d = "kbd"   -> kbd # <<>>
      [] d = "mouse" -> mouse[d].moved
      [] d = "jack"  -> \E f \in DOMAIN Still : mouse[d][f]

\* AdbKeyboard::get_register_0(), AdbMouse::get_register_0() and the
\* AppleJack's: its button changes wait for its own protocol
GetRegister0(d) ==
    /\ IF d = "kbd"
       THEN /\ kbd' = KbdLeft
            /\ adb' = [adb EXCEPT !["kbd"].srq = @ /\ KbdLeft # <<>>]
            /\ UNCHANGED mouse
       ELSE /\ mouse' = [mouse EXCEPT ![d] =
                   [Still EXCEPT !.buttons =
                       mouse[d].buttons /\ ~(d = "jack" /\ adb[d].handler = 70)]]
            /\ UNCHANGED <<adb, kbd>>
    /\ UNCHANGED quiet

\* AdbBus::poll(): the first device with a service request and data; devices
\* are registered in the order of adb_devices
Order == <<"mouse", "kbd", "jack">>
First(P(_)) ==
    LET is == {i \in 1..3 : P(Order[i])}
    IN IF is = {} THEN "none" ELSE Order[CHOOSE i \in is : \A j \in is : i <= j]

Requests(d) == adb[d].srq /\ HasData(d)
Poll ==
    /\ First(Requests) # "none"
    /\ GetRegister0(First(Requests))

\* AdbBus::process_command(), Talk: the first device at the address that has
\* an answer gives it; nobody else looks at the bus afterwards
Answers(a, r) ==
    LET P(d) == adb[d].addr = a /\ (r = 0 => HasData(d))
                /\ (r = 1 => d # "kbd") /\ (r = 2 => d = "kbd")
    IN First(P)
Talk(a, r) ==
    LET d == Answers(a, r)
    IN IF r = 0 /\ d # "none" THEN GetRegister0(d)
       ELSE UNCHANGED vars

SendReset ==
    /\ adb' = [d \in Device |-> DeviceReset(d)]
    /\ kbd' = <<>>
    /\ mouse' = [d \in DOMAIN mouse |-> Still]
    /\ quiet' = {}

\* handlers a device accepts in Listen R3 without moving
Handlers(d) == CASE d = "kbd" -> {1, 2} [] d = "mouse" -> {1, 2, 4}
                 [] d = "jack" -> {1, 2, 4, 70}

\* set_register_3(): 0 sets address and service request, 254 moves, others
\* choose the protocol
SetRegister3(d, h, new, srq) ==
    IF h \in Handlers(d) THEN [adb[d] EXCEPT !.handler = h]
    ELSE IF h = 0 THEN [adb[d] EXCEPT !.addr = new, !.srq = srq]
    ELSE IF h = 254 THEN [adb[d] EXCEPT !.addr = new]
    ELSE adb[d]

Listens(d, a) == adb[d].addr = a

Listen3(a, h, new, srq) ==
    /\ adb' = [d \in Device |-> IF Listens(d, a) THEN SetRegister3(d, h, new, srq)
                                ELSE adb[d]]
    /\ quiet' = {d \in Device : IF h = 0 /\ Listens(d, a) THEN ~srq ELSE d \in quiet}
    /\ UNCHANGED <<kbd, mouse>>

Next ==
    \/ \E k \in Key, up \in BOOLEAN : KeyEvent(k, up)
    \/ \E d \in DOMAIN mouse : MouseEvent(d)
    \/ \E b \in {"trigger", "buttons"} : GamepadEvent(b)
    \/ Poll
    \/ \E a \in Addr, r \in 0..3 : Talk(a, r)
    \/ SendReset
    \/ \E a, new \in Addr, h \in {0, 2, 70, 254}, srq \in BOOLEAN :
          \* the host moves devices to free addresses only
          /\ h \in {0, 254} => new = a \/ \A d \in Device : adb[d].addr # new
          /\ Listen3(a, h, new, srq)

Spec == Init /\ [][Next]_vars

-----------------------------------------------------------------------------
(* Properties.                                                             *)

\* A keyboard with events asks for service unless the host turned its
\* requests off: event_handler() only sets the flag for the first event of
\* the queue, and get_register_0() only clears it with the last.
KeysReported == kbd # <<>> /\ "kbd" \notin quiet => adb["kbd"].srq

\* The keyboard and the pointing devices never share an address as long as
\* the host moves devices to free addresses.
AddressesApart == \A d \in {"mouse", "jack"} : adb[d].addr # adb["kbd"].addr
=============================================================================
