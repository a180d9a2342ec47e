-------------------------------- MODULE MCRepl --------------------------------
(* Instances of Repl for TLC. *)
EXTENDS Repl

\* Items: an ordinary function, one named like a local, one like a capability.
MCItem == {[binds |-> n] : n \in {"f", "x", "stdio"}}

S(b, r, e) == [binds |-> b, reads |-> r, ends |-> e]

\* let x = 1; let x = f()?; let y = x; fs.read(...) ; stdio.println(...); return
MCStmt == {S("x", None, "plain"), S("x", "f", "try"), S("y", "x", "plain"),
           S(None, None, "op"), S(None, "stdio", "plain"), S(None, None, "jump")}
===============================================================================
