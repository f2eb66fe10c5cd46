------------------------------- MODULE Sound --------------------------------
(* Sound output: the codec's DMA callbacks (awacs.cpp), the sound server     *)
(* (soundserver_cubeb.cpp) and the host's audio thread that renders frames   *)
(* from the DMA channel (soundbuffer.h). The host's audio library may refuse *)
(* to open or start a stream; stopping one waits for its callback.           *)
EXTENDS Integers

CONSTANTS FrameBytes,   \* bytes of a stereo frame, 4 in the code
          ReqFrames,    \* frames the host asks for at a time
          Chunks,       \* bytes a pull returns at most: what its descriptor has left
          Rates         \* sample rates

VARIABLES codec,  \* AwacsBase: out_stream_ready, out_stream_running, the rates
          server, \* SoundServer: stream of the host, drain timer, output object
          cb,     \* the host's callback: frames left to render; 0 if not running
          heard   \* history: bytes and frames of the stream, rate at the last start

vars == <<codec, server, cb, heard>>

Init ==
    /\ \E r \in Rates : codec = [ready |-> FALSE, running |-> FALSE, rate |-> r, outRate |-> r,
                                 active |-> FALSE]
    /\ \E det \in BOOLEAN : server = [det |-> det, stream |-> "none", timer |-> FALSE,
                                      output |-> 0, user |-> 0, pending |-> 0]
    /\ cb = 0
    /\ heard = [taken |-> 0, frames |-> 0, asked |-> {}]

\* close_out_stream()
Close(s) == [s EXCEPT !.timer = FALSE, !.stream = "none", !.user = 0]

\* open_out_stream(): a new output object, given to the stream; ok is the
\* host's answer, which a deterministic run does not ask for
Opens(s, ok) == s.det \/ ok
Open(s, ok) ==
    LET new == [s EXCEPT !.output = 1 - @, !.pending = 0]
    IN IF s.det \/ ~ok THEN new ELSE [new EXCEPT !.stream = "open", !.user = new.output]

\* mutant: nothing drains a channel whose stream the host does not start
StartSilent(s, ok) == IF ~s.det /\ ok THEN [s EXCEPT !.stream = "started"]
                      ELSE IF s.det THEN [s EXCEPT !.timer = TRUE] ELSE s
\* start_out_stream(): where the host does not play, a cyclic timer drains
Starts(s, ok) == s.det \/ ok
Start(s, ok) == IF ~s.det /\ ok THEN [s EXCEPT !.stream = "started"] ELSE [s EXCEPT !.timer = TRUE]

\* dma_out_start(): the guest starts its channel
DmaOutStart ==
    \E opened, started \in BOOLEAN :
        LET reopen == codec.ready /\ codec.outRate # codec.rate
            s == IF reopen THEN Close(server) ELSE server
            fresh == reopen \/ ~codec.ready
            t == IF fresh THEN Open(s, opened) ELSE s
            fail == fresh /\ ~Opens(s, opened)
            run == ~fresh /\ codec.running
        IN /\ reopen => cb = 0
           /\ server' = IF fail \/ run THEN t ELSE Start(t, started)
           /\ codec' = [codec EXCEPT !.ready = ~fail, !.active = TRUE,
                                     !.running = run \/ (~fail /\ Starts(t, started)),
                                     !.outRate = IF fresh /\ ~fail THEN codec.rate ELSE @]
           /\ heard' = [asked |-> IF fail THEN {} ELSE {codec.rate},
                        taken |-> IF fresh THEN 0 ELSE heard.taken,
                        frames |-> IF fresh THEN 0 ELSE heard.frames]
           /\ UNCHANGED cb

\* dma_out_stop()
DmaOutStop ==
    /\ codec.active /\ (codec.ready => cb = 0)
    /\ server' = IF codec.ready THEN Close(server) ELSE server
    /\ codec' = [codec EXCEPT !.ready = FALSE, !.running = FALSE, !.active = FALSE]
    /\ heard' = [heard EXCEPT !.asked = {}]
    /\ UNCHANGED cb

\* the channel runs dry or is woken again without a callback to the codec
ChannelStops == codec.active /\ codec' = [codec EXCEPT !.active = FALSE] /\ UNCHANGED <<server, cb, heard>>
ChannelWakes == ~codec.active /\ codec.ready /\ codec' = [codec EXCEPT !.active = TRUE]
                /\ UNCHANGED <<server, cb, heard>>

SetSampleRate == \E r \in Rates : codec' = [codec EXCEPT !.rate = r] /\ UNCHANGED <<server, cb, heard>>

\* render(): the host's thread asks for frames and pulls until it has them
CallbackBegin == server.stream = "started" /\ cb = 0 /\ cb' = ReqFrames
                 /\ UNCHANGED <<codec, server, heard>>
CallbackPull ==
    /\ cb > 0 /\ codec.active
    /\ \E n \in Chunks :
        LET want == cb * FrameBytes - server.pending
            count == IF n < want THEN n ELSE want
            all == server.pending + count
        IN /\ cb' = cb - all \div FrameBytes
           /\ server' = [server EXCEPT !.pending = all % FrameBytes]
           /\ heard' = [heard EXCEPT !.taken = (@ + count) % (FrameBytes * 2),
                                     !.frames = (@ + all \div FrameBytes) % 2]
    /\ UNCHANGED codec
CallbackEnd == cb > 0 /\ cb' = 0 /\ UNCHANGED <<codec, server, heard>>

\* the timer's callback throws away what the channel has
DrainTimer == /\ server.timer /\ codec.active
              /\ codec' = [codec EXCEPT !.active = FALSE]
              /\ UNCHANGED <<server, cb, heard>>

Next == \/ DmaOutStart \/ DmaOutStop \/ ChannelStops \/ ChannelWakes \/ SetSampleRate
        \/ CallbackBegin \/ CallbackPull \/ CallbackEnd \/ DrainTimer

Spec == Init /\ [][Next]_vars

-----------------------------------------------------------------------------
\* A channel that the guest has started is drained, by the host or by the
\* timer, unless the host refused to open a stream; a codec that is not ready
\* has left neither behind.
Drained == IF codec.ready THEN server.timer \/ server.stream = "started"
           ELSE ~server.timer /\ server.stream = "none"
\* The audio thread renders into the output object that exists, never into
\* one that a later open has replaced.
OutputAlive == server.stream # "none" => server.user = server.output
\* After a start the host plays at the rate the guest had set by then.
RateTaken == codec.ready => heard.asked = {codec.outRate}
\* Wherever descriptors end, frames are cut from the byte stream one behind
\* the other: every byte taken is in a frame or waits for the rest of one.
FramesAligned ==
    /\ (heard.frames * FrameBytes + server.pending) % (2 * FrameBytes) = heard.taken
    /\ server.pending < FrameBytes /\ cb >= 0

SoundOK == Drained /\ OutputAlive /\ RateTaken /\ FramesAligned
=============================================================================
