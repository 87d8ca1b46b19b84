----------------------------- MODULE MCStartup ------------------------------
(* Instances for TLC: base 4 addresses of 4 digits (256 of them, 16 IPv4), *)
(* a 64-bit word of 2 digits; ranges that carry, end at the last IPv4 and  *)
(* the last IPv6 address, are empty, mix families or have a gap at the end.*)
EXTENDS Startup

MCStage == <<"rx", "tx", "parser", "retransmit", "retransmit", "counter">>

Ends == {<<0, 3, 0, 2>>, <<0, 3, 1, 1>>, <<0, 3, 3, 2>>, <<0, 3, 3, 3>>,
         <<0, 1, 3, 2>>, <<0, 2, 0, 1>>, <<3, 3, 3, 2>>, <<3, 3, 3, 3>>}

\* At most MaxClients clients.
Fits(f, t, s) == Number(t, Digits) - Number(f, Digits) < MaxClients * s

Started(tos, rates) ==
  [from : {<<0, 3, 0, 2>>}, to : tos, step : {1}, rate : rates, valid : {TRUE}]

MCConfig ==
  Started({<<0, 3, 1, 1>>}, {0, 2, 3, 15}) \cup Started({<<0, 2, 0, 1>>}, {2})
    \cup {c \in [from : Ends, to : Ends, step : {1, 2, 3}, rate : {2}, valid : {FALSE}] :
            Fits(c.from, c.to, c.step)}
=============================================================================
