-------------------------------- MODULE MCServe --------------------------------
(* Instances of Serve for TLC. *)
EXTENDS Serve

CONSTANTS root, narrow1, narrow2, p1, p2

\* A fixed port, an ephemeral one and one out of range; a rule that admits the
\* first, and one that does not parse and admits nothing.
MCRequest   == {"a:80", "a:0", "a:70000"}
MCInvalid   == {"a:70000"}
MCEndpoints == [r \in MCRequest |-> CASE r = "a:80" -> {"a:80"} [] OTHER -> {"a:50001"}]
MCRule      == {"a:80-90", "a80"}
MCAdmits    == [r \in MCRule |-> CASE r = "a:80-90" -> {"a:80"}
                                   [] OTHER -> {}]

\* Three objects, narrowed one from the other, and two clients.
MCPeer   == {p1, p2}
MCObject == {root, narrow1, narrow2}
================================================================================
