--------------------------- MODULE MCConfigFiles ---------------------------
(* Names that can and cannot be had; a plain config with paths of each     *)
(* kind, one whose key lies in a folder below it, and one whose key and    *)
(* certificate lie in files of one name.  At the first start there is      *)
(* nothing, or a folder with two configs.                                  *)
EXTENDS ConfigFiles, TLC

At(d, f) == [dir |-> d, name |-> f, spaced |-> FALSE]
Line(k, p, e) == [key |-> k, path |-> p, extra |-> e]

MCSources ==
    {<<Line("ca", At("here", "ca.pem"), FALSE), Line("cert", At("c:/a", "me.pem"), FALSE),
       Line("key", At("c:/a", "me.key"), FALSE), Line("tls-auth", At("here", "ta.key"), TRUE)>>,
     <<Line("ca", At("c:/a", "ca.pem"), FALSE), Line("key", At("keys", "me.key"), FALSE)>>,
     <<Line("ca", [dir |-> "c:/my a", name |-> "ca.pem", spaced |-> TRUE], FALSE),
       Line("cert", At("c:/a", "me.pem"), FALSE), Line("key", At("c:/b", "me.pem"), FALSE),
       Line("key-direction", NoFile, TRUE)>>}

\* What is left of a path with a blank names no file.
MCMissing == {At("c:/my a", "cut")}

MCPicks == {<<At("c:/a", "ca.pem"), At("c:/a", "me.pem"), At("c:/a", "me.key")>>}

Unknown == [lines |-> << >>, want |-> << >>, plain |-> FALSE]
MCGiven == {<< >>, 1 :> [ovpn |-> (1 :> Unknown) @@ (2 :> Unknown), files |-> << >>]}
=============================================================================
