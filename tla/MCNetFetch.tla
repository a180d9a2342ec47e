------------------------------ MODULE MCNetFetch ------------------------------
(* Instances of NetFetch for TLC. *)
EXTENDS NetFetch

\* Two hosts, and a scheme that no Net speaks.
MCHost    == {"a", "b"}
MCSchemes == {"https"}
MCUrl     == {[scheme |-> s, host |-> h] : s \in {"https", "ftp"}, h \in MCHost}
===============================================================================
