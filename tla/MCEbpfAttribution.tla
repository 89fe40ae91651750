------------------------- MODULE MCEbpfAttribution -------------------------
(* EbpfAttribution for TLC: three calls.  The mixes are chosen so that three   *)
(* flows meet a map of two, that three names meet a table of two, and that one *)
(* call both counts bytes and brings an answer.                                *)
EXTENDS EbpfAttribution

Context(prog, addr, bytes, domain) ==
  [prog |-> prog, pid |-> 1, family |-> "inet", addr |-> addr, port |-> 53,
   bytes |-> bytes, domain |-> domain]

TCP == Context("tcp_sendmsg", "a", TRUE, "short")
UDP == Context("udp_sendmsg", "a", TRUE, "short")
Other == Context("tcp_cleanup_rbuf", "b", TRUE, "short")
Empty == Context("udp_sendmsg", "b", FALSE, "short")
Answer(d) == Context("skb_consume_udp", "loopback", TRUE, d)
Both == Context("skb_consume_udp", "a", TRUE, "d1")

MCContexts == {TCP, UDP, Other, Empty, Answer("d1"), Answer("d2"), Answer("d3"), Both}

MCMixes == {
  <<{TCP}, {TCP, UDP}, {TCP, UDP, Other}>>,
  <<{Answer("d1")}, {Answer("d1"), Answer("d2")}, {Answer("d1"), Answer("d2"), Answer("d3")}>>,
  <<{TCP, Both}, {Both, Empty}, {}>> }
=============================================================================
