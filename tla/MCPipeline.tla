----------------------------- MODULE MCPipeline -----------------------------
(* Instances for TLC: two clients; packets of every kind the handlers tell *)
(* apart, in pairs and triples; channels of one buffer or operation;       *)
(* counters that wrap on the first packet.                                 *)
EXTENDS Pipeline

\* A server's Signaling message with several TLVs.
FromServer(tlvs) ==
  [kind |-> "signaling", seq |-> 0, tlvs |-> tlvs,
   messageLength |-> TlvOffset(tlvs, Len(tlvs) + 1)]
Fixed(k) == [kind |-> k, seq |-> 0, messageLength |-> HeaderSize + FixedBody[k]]

Udp(dst, port, m) == [kind |-> "udp", dst |-> dst, port |-> port, message |-> m,
                       payload |-> Bytes(m)]
Grant(for) == Tlv("grant", for, 1)
Arp(op, a) == [kind |-> "arp", arp |-> [op |-> op, target |-> a]]
Icmp(dst, type, a) == [kind |-> "icmp", dst |-> dst, icmp |-> [type |-> type, target |-> a]]

Menu == <<
  Arp("request", "other"), Arp("reply", "c1"),
  Icmp("multicast", "solicitation", "c2"), Icmp("multicast", "solicitation", "other"),
  Icmp("c1", "solicitation", "c1"), Icmp("multicast", "echo", "c1"),
  Udp("c1", "general", FromServer(<<Grant("announce")>>)),
  Udp("c1", "general", FromServer(<<Grant("sync"), Grant("delayResp")>>)),
  Udp("c2", "general", FromServer(<<Grant("announce"), Tlv("grant", "sync", 0), Grant("sync")>>)),
  Udp("c2", "general", FromServer(<<Tlv("cancel", "sync", 0), Grant("delayResp")>>)),
  Udp("c2", "general", FromServer(<<Tlv("request", "sync", 1), Grant("sync")>>)),
  Udp("c1", "event", Fixed("sync")), Udp("c1", "general", Fixed("followUp")),
  Udp("c2", "general", Fixed("delayResp")), Udp("c2", "general", Fixed("announce")),
  Udp("c1", "event", Fixed("delayReq")),
  Udp("other", "general", Fixed("announce")), Udp("c1", "dns", Fixed("sync"))>>

\* Each packet with one that uses other fields of the decoder; RX takes them
\* in any order.
Pairs == {[arrivals |-> <<Menu[i], Menu[j]>>, due |-> <<>>] :
            i \in DOMAIN Menu, j \in {1, 3, 14}}

\* Three grants at once, three packets, and replies and grants while requests
\* are due; with requests due the retransmit processor may fill its own channel.
Crowds == {[arrivals |-> <<Menu[7], Menu[8]>>, due |-> <<>>],
           [arrivals |-> <<Menu[1], Menu[14], Menu[3]>>, due |-> <<>>],
           [arrivals |-> <<Menu[7], Menu[3]>>, due |-> <<"c1">>],
           [arrivals |-> <<Menu[8]>>, due |-> <<"c1", "c2">>]}
MCLoad == Pairs \cup Crowds

\* One client, its first request and the answer to it.
LatencyLoad == {[arrivals |-> <<Menu[7]>>, due |-> <<"c1">>]}
=============================================================================
