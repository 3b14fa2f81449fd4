--------------------------- MODULE MCChannelLocks ---------------------------
(* Values of the constants of ChannelLocks for TLC. *)
EXTENDS ChannelLocks, TLC

CONSTANTS t1, t2, t3, c1, c2

Instr(k, n, chs) == [kind |-> k, send_count |-> n, channels |-> chs]

(* Every kind of instruction on both channels, by three threads. *)
MCProgram == (t1 :> {Instr("nbalt", 1, <<c2, c1>>), Instr("recv", 0, <<c2>>)})
             @@ (t2 :> {Instr("alt", 0, <<c1, c2>>), Instr("send", 1, <<c2>>)})
             @@ (t3 :> {Instr("send", 1, <<c1>>), Instr("recv", 0, <<c2>>)})

(* A non-blocking alt and a sender. *)
MCPolling == (t1 :> {Instr("nbalt", 0, <<c1>>)}) @@ (t2 :> {Instr("send", 1, <<c1>>)})
=============================================================================
