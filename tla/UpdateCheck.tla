---------------------------- MODULE UpdateCheck ----------------------------
(***************************************************************************)
(* UpdateCheck::run and finished.  The check runs inside initDaemon, in    *)
(* the GUI thread, before the client starts to talk to the service: until  *)
(* it has ended, with up to three dialogs for the proxy's name and         *)
(* password, the client is not up.                                         *)
(*                                                                         *)
(* The server is external: any status, with any text.  If a request fails  *)
(* for another reason than a certificate, dwStatus was never written; its  *)
(* value is any value as well.                                             *)
(***************************************************************************)
EXTENDS Integers, Sequences

CONSTANT Versions   \* the versions a server may answer with

ASSUME UpdateAssumption == Versions \subseteq Nat \X Nat \X Nat

\* FrmMain::version, and what the check compares with
version == <<2, 0, 50>>
current == <<2, 0, 49>>

OKAY == 200
BAD_REQUEST == 400
DENIED == 401
PROXY_AUTH_REQ == 407
Statuses == {OKAY, BAD_REQUEST, DENIED, PROXY_AUTH_REQ}

NoText == << >>
Junk == <<"junk">>

VARIABLES
    step,      \* where run() is: idle, request, secure, auth, ask, read, done
    dwStatus,
    retry,     \* how often the user may still be asked
    text,      \* the last piece that was read
    offered    \* updateVersion: what the button says

updateVars == <<step, dwStatus, retry, text, offered>>

UpdateInit == step = "idle" /\ dwStatus = OKAY /\ retry = 3 /\ text = NoText /\ offered = NoText

StartsCheck == step' = "request" /\ retry' = 3 /\ text' = NoText /\ UNCHANGED <<dwStatus, offered>>

CertificateError == step' = "done" /\ offered' = <<"error">> /\ UNCHANGED <<dwStatus, retry, text>>

\* The first request: over HTTP, through the proxy of the settings.
Request ==
    /\ step = "request"
    /\ \/ CertificateError
       \/ /\ dwStatus' \in Statuses
          /\ step' = IF dwStatus' = BAD_REQUEST THEN "secure" ELSE "auth"
          /\ UNCHANGED <<retry, text, offered>>

\* A server that wants TLS is asked again.  dwStatus is 0 if that fails.
Secure ==
    /\ step = "secure"
    /\ \/ CertificateError
       \/ /\ dwStatus' \in Statuses \cup {0}
          /\ step' = "auth"
          /\ UNCHANGED <<retry, text, offered>>

NeedsLogin == dwStatus \in {PROXY_AUTH_REQ, DENIED}

\* The head of the loop.
Auth ==
    /\ step = "auth"
    /\ step' = IF NeedsLogin THEN "ask" ELSE "read"
    /\ UNCHANGED <<dwStatus, retry, text, offered>>

\* Fault: the tries are not counted.
asksForEver ==
    /\ step = "ask"
    /\ dwStatus' \in Statuses
    /\ step' = "auth"
    /\ UNCHANGED <<retry, text, offered>>

\* proxyAuthenticationRequired: the dialog is closed, with OK or without, and
\* the request is sent again.  A failed request leaves dwStatus as it was.
proxyAuthenticationRequired ==
    /\ step = "ask"
    /\ dwStatus' \in Statuses
    /\ retry' = retry - 1
    /\ step' = IF retry' # 0 THEN "auth" ELSE "read"
    /\ UNCHANGED <<text, offered>>

\* The loop over InternetReadFile writes each piece over the last one.
ReadsPiece ==
    /\ step = "read"
    /\ text' \in {Junk} \cup (IF dwStatus = OKAY THEN Versions ELSE {})
    /\ text' # text
    /\ UNCHANGED <<step, dwStatus, retry, offered>>

\* Fault: only the last number is looked at.
comparesPatch(v) == v[3] > current[3]

\* One number that is greater is enough.
isNewer(v) == \E n \in 1 .. 3 : v[n] > current[n]

\* finished: anything but three numbers is ignored.
finished ==
    /\ step = "read"
    /\ step' = "done"
    /\ offered' = IF text \in Versions /\ isNewer(text) THEN text ELSE offered
    /\ UNCHANGED <<dwStatus, retry, text>>

UpdateStep ==
    \/ Request
    \/ Secure
    \/ Auth
    \/ ReadsPiece
    \/ finished

-----------------------------------------------------------------------------
\* Properties

\* A version later than the one that runs, number by number from the left, is
\* offered in the end, whatever the server and the proxy asked for before.
Later(v, w) == \E n \in 1 .. 3 : v[n] > w[n] /\ \A m \in 1 .. n - 1 : v[m] = w[m]
NewerIsOffered == step = "done" /\ text \in Versions /\ Later(text, version) => offered = text
=============================================================================
