----------------------------- MODULE MCExclusion -----------------------------
(* Instances of Exclusion for TLC: two structs, a sum, a trait and a user-  *)
(* defined capability.                                                      *)
EXTENDS Exclusion, FiniteSetsExt, TLC

Method(of, on, args, takes, gives) ==
  [of |-> of, on |-> on, args |-> args, takes |-> takes, gives |-> gives]

\* Impls of each kind, with what makes a difference in their signatures.
Impls ==
  {Method(of, on, {}, {}, {}) : of \in {"T", "C"}, on \in Data}
    \cup {Method("T", "S", a, {}, {}) : a \in {{"K"}, {FreeParam}}}
    \cup {Method("T", "E", {}, {"Net"}, {}), Method("T", "S", {}, {}, {"K"}),
          Method("C", "S", {}, {FunType}, {})}
    \cup {Method(None, on, {}, {}, {"K"}) : on \in {"S", "E"}}

Holding(s, k, e) == ("S" :> s) @@ ("K" :> k) @@ ("E" :> e)

\* Private, open and bounded.
Kinds == {<<{}, {}, {}>>, <<Traits, {}, {}>>, <<Traits, Traits, {}>>,
          <<Traits, Traits, {"C"}>>, <<Traits, Traits, {"Net"}>>}

Fields == {Holding(s, k, e) :
             s \in {{}, {"K"}, {"E"}, {"T"}, {"C"}}, k \in {{}, {"Net"}, {"T"}, {FunType}},
             e \in {{}, {"K"}, {"T"}}}

\* At most two impls, and with the types that hold something at most four.
SomePrograms ==
  UNION {{[holds |-> h, impls |-> is, pub |-> kind[1], bounded |-> kind[2],
           uses |-> [t \in Traits |-> kind[3]]] :
            kind \in Kinds,
            is \in UNION {kSubset(j, Impls) :
                     j \in 0..Min({2, 4 - Cardinality({n \in Data : h[n] # {}})})}} :
         h \in Fields}

Records ==
  {[names |-> {n}, on |-> None, of |-> None] : n \in Names}
    \cup {[names |-> {}, on |-> n, of |-> c] : n \in Data, c \in {None, "C"}}
=============================================================================
