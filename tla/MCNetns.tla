------------------------------- MODULE MCNetns ------------------------------
(* One runner and three networks: an open one, and two namespaces that     *)
(* differ in their subnet, their resolver and what they let through.       *)
EXTENDS Netns

Rule(a, ports, proto) == [addr |-> a, ports |-> ports, proto |-> proto]
Forwarding == [mode |-> "netns", subnet |-> 1, dns |-> None, egress |-> {Rule(100, {443}, "tcp")}]
Static == [mode |-> "netns", subnet |-> 2, dns |-> {8}, egress |-> {Rule(200, {80, 443}, "both")}]
Open == [mode |-> "open", subnet |-> 0, dns |-> None, egress |-> {}]
MCNetworks == {Forwarding, Static, Open}
=============================================================================
