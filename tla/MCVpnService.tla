---------------------------- MODULE MCVpnService ----------------------------
(***************************************************************************)
(* Small instances of VpnService.                                          *)
(***************************************************************************)
EXTENDS VpnService

\* openvpn comes up, or fails to reach a host in both ways.
MCChunks == {{"InitCompleted"}, {"TlsFailed", "RestartPause"}, {"NoRoute"}}

\* openvpn only fails to reach its hosts.
MCFailing == {{"TlsFailed", "RestartPause"}, {"Unresolved"}}

\* openvpn comes up, or fails to reach a host.
MCFewChunks == {{"InitCompleted"}, {"TlsFailed"}}

\* Fairness of an openvpn that starts, and keeps trying its hosts.
FailingSpec ==
    /\ FairSpec
    /\ \A o \in Objs : WF_vars(ReadsConfig(o) \/ ConfigMissing(o))
    /\ \A o \in Objs : WF_vars(\E chunk \in Chunks, ok \in EventResults : Output(o, chunk, ok))
=============================================================================
