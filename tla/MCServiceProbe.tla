--------------------------- MODULE MCServiceProbe ---------------------------
(* Instances of ServiceProbe for TLC: up to four hosts, of which some have *)
(* no web port, one has two, and one has its ports in another order.  All  *)
(* are alive: upsert_host (lan_scanner.c) puts no other host in the table. *)
EXTENDS ServiceProbe, TLC

CONSTANTS h1, h2, h3, h4, http, alt, ssh

Host(ip, ports) == [ip |-> ip, alive |-> TRUE, ports |-> ports]

MCWebPorts == {http, alt}
MCHostLists == {<<Host(h1, <<ssh, http>>), Host(h2, <<ssh>>), Host(h3, <<alt, http>>)>>,
                <<Host(h4, <<http, alt>>), Host(h1, <<alt>>)>>,
                <<Host(h2, <<http>>), Host(h1, <<>>)>>,
                <<Host(h4, <<http>>), Host(h3, <<http>>), Host(h2, <<alt>>), Host(h1, <<alt>>)>>}
=============================================================================
