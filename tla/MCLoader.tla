------------------------------ MODULE MCLoader ------------------------------
(* Instances of Loader for TLC: a root file and two others.                *)
EXTENDS Loader

Whole(f)     == [file |-> f, alias |-> f, named |-> FALSE, sel |-> None]
As(f, m)     == [file |-> f, alias |-> m, named |-> TRUE, sel |-> None]
Only(f, sel) == [file |-> f, alias |-> f, named |-> FALSE, sel |-> sel]

Fun(n, pub)  == [name |-> n, pub |-> pub, const |-> FALSE, local |-> None, via |-> None, use |-> n]

File(imports, items) == [imports |-> imports, items |-> items, parses |-> TRUE]

UpTo(n, S) == UNION {[1..k -> S] : k \in 0..n}

\* Every shape of imports between the files, with a name of its own in each.
Shapes(n) == {File(i, <<Fun(n, TRUE)>>) :
                i \in UpTo(2, {Whole(f) : f \in Files} \cup {[Whole("a") EXCEPT !.file = Missing]})}
Imported == {("main" :> m) @@ ("a" :> x) @@ ("b" :> y) :
             m \in Shapes("f"), x \in Shapes("g"),
             y \in Shapes("h") \cup {[File(<<>>, <<>>) EXCEPT !.parses = FALSE]}}

\* Imports of the same files in different ways.
Views(f) == {Whole(f), As(f, "q"), Only(f, {<<"f", None>>}), Only(f, {<<"f", "g">>})}
Exported == {<<>>, <<Fun("f", TRUE)>>, <<Fun("f", TRUE), Fun("g", FALSE)>>,
             <<Fun("f", TRUE), Fun("g", TRUE)>>}
ViewsOf ==
  {("main" :> File(i, m)) @@ ("a" :> File(j, x)) @@ ("b" :> File(<<>>, y)) :
     i \in UpTo(2, Views("a") \cup Views("b")), m \in {<<>>, <<Fun("g", TRUE)>>},
     j \in UpTo(1, Views("b")), x \in Exported, y \in Exported}

\* What the items of the first import use and bind; it may have an item named like
\* the module it imports.
Using(n, pub) ==
  {[name |-> n, pub |-> pub, const |-> cv[1], local |-> l, via |-> cv[2], use |-> u] :
     cv \in {<<FALSE, None>>, <<FALSE, "b">>, <<TRUE, "b">>},
     l \in {None, "f", "g", "h", "b"}, u \in {"f", "g", "h"}}
Uses ==
  {("main" :> File(<<i>>, <<m>>)) @@ ("a" :> File(<<j>>, <<x, Fun("g", p)>> \o z))
      @@ ("b" :> File(<<>>, <<Fun("h", TRUE)>> \o y)) :
     i \in {Whole("a"), Only("a", {<<"f", "h">>}), Only("a", {<<"f", "k">>, <<"g", None>>})},
     j \in {Whole("b"), Only("b", {<<"h", None>>})},
     m \in {Fun("m", FALSE), [Fun("m", FALSE) EXCEPT !.use = "g"],
            [Fun("m", FALSE) EXCEPT !.local = "a", !.via = "a", !.use = "f"]},
     p \in BOOLEAN, x \in Using("f", TRUE),
     z \in {<<>>, <<Fun("b", FALSE)>>, <<Fun("b", TRUE)>>},
     y \in {<<>>, <<Fun("g", FALSE)>>}}

AllProjects == {Imported, ViewsOf, Uses}
=============================================================================
