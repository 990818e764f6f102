----------------------------- MODULE MCSession -----------------------------
(***************************************************************************)
(* Small instances of Session: one entry, one client, the command line.    *)
(***************************************************************************)
EXTENDS Session

\* A password prompt, a refusal, a lost host and success.
MCChunks == {{"AuthPassword"}, {"AuthFailed"}, {"TlsFailed", "RestartPause"}, {"InitCompleted"}}
=============================================================================
