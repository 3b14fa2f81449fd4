----------------------------- MODULE MCChannel -----------------------------
(* Values of the constants of Channel for TLC. *)
EXTENDS Channel, TLC

CONSTANTS t1, t2, t3, c1, c2

(* c1 is unbuffered, c2 has a buffer of two messages.*)
MCBufferLen == c1 :> 0 @@ c2 :> 2

Instr(k, n, chs) == [kind |-> k, send_count |-> n, channels |-> chs]

(* Plain sends against alts that send to one channel and receive from the  *)
(* other, or poll both; and nil channels.                                  *)
MCInstructions == {Instr("send", 1, <<c1>>), Instr("alt", 1, <<c2, c1>>), Instr("nbalt", 0, <<c1, c2>>),
                   Instr("send", 1, <<Nil>>), Instr("recv", 0, <<Nil>>)}

ThreadSymmetry == Permutations(Threads)
=============================================================================
