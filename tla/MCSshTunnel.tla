---------------------------- MODULE MCSshTunnel ----------------------------
(* Instances of SshTunnel for TLC; the request r3 is a download.          *)
EXTENDS SshTunnel
CONSTANTS k1, e1, e2, r1, r3

OneKey == [e \in Entries |-> k1]
=============================================================================
