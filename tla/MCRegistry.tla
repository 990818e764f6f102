---------------------------- MODULE MCRegistry ----------------------------
(* Both ends of the connection in the table; one answer that lets a client *)
(* in, and for each test of the check one that does not.                   *)
EXTENDS Registry

Ends == {[established |-> TRUE, local |-> "client", remote |-> "service", pid |-> "client"],
         [established |-> TRUE, local |-> "service", remote |-> "client", pid |-> "service"]}
Good == [table |-> Ends, readable |-> Programs, trusted |-> Programs,
         signer |-> [p \in Programs |-> "own"]]

MCChecks ==
    {Good,
     [Good EXCEPT !.table = {}],
     [Good EXCEPT !.readable = {"service"}],
     [Good EXCEPT !.trusted = {"service"}],
     [Good EXCEPT !.trusted = {"client"}],
     [Good EXCEPT !.signer["client"] = "foreign"],
     [Good EXCEPT !.signer["client"] = None],
     [Good EXCEPT !.signer["service"] = None]}
=============================================================================
