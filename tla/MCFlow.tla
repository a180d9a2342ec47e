------------------------------- MODULE MCFlow -------------------------------
(* Instances of Flow for TLC: what bodies may be written of.               *)
EXTENDS Flow

Lit(n)      == [k |-> "lit", n |-> n]
Read(p)     == [k |-> "read", at |-> p]
Size(p)     == [k |-> "size", at |-> p]
Elem(p)     == [k |-> "elem", at |-> p]
Pick(p)     == [k |-> "pick", at |-> p]
Release(p)  == [k |-> "release", at |-> p]

Set(p, e)   == [op |-> "set", to |-> p, e |-> e]
Let(p, q)   == [op |-> "let", to |-> p, of |-> q]
ListOf(p)   == [op |-> "list", to |-> p]
Push(p, e)  == [op |-> "push", on |-> p, e |-> e]
Pop(p)      == [op |-> "pop", on |-> p]
Sink(e)     == [op |-> "sink", e |-> e]
If(e)       == [op |-> "if", cond |-> e]
Elif(e)     == [op |-> "elif", cond |-> e]
ElseOf      == [op |-> "else"]
WhileOf(e)  == [op |-> "while", cond |-> e]
ForOf(p)    == [op |-> "for", on |-> p]
Jump(kind)  == [op |-> kind]

s == Read(<<"s">>)
x == Read(<<"x">>)
y == Read(<<"y">>)

Control == {
  Set(<<"x">>, Lit(1)), Set(<<"y">>, x), Set(<<"x">>, s),
  Sink(y), Sink(x), If(s), Elif(y), ElseOf, WhileOf(x),
  Jump("break"), Jump("continue"), Jump("return")}

\* A box with a second name, in loops and branches.
Structs == {
  Set(<<"b", "f">>, s), Set(<<"b", "g">>, x), Set(<<"x">>, Read(<<"b", "g">>)),
  Let(<<"c">>, <<"b">>), Set(<<"c", "g">>, s), Sink(Read(<<"b", "g">>)),
  Sink(x), Sink(Read(<<"c", "f">>)), If(s), WhileOf(x), Jump("break")}

\* A parameter with a secret field, values chosen and values released.
Params == {
  Let(<<"c">>, <<"p">>), Set(<<"c", "g">>, x), Set(<<"x">>, Pick(<<"p", "k">>)),
  Set(<<"x">>, Release(<<"p", "k">>)), Set(<<"b", "k">>, Lit(1)),
  Set(<<"x">>, Read(<<"b", "k">>)), Sink(Read(<<"p", "g">>)),
  Sink(Release(<<"p", "k">>)), Sink(x), If(Read(<<"p", "k">>))}

\* A list, iterated and left early.
Containers == {
  Push(<<"l">>, s), Push(<<"l">>, Lit(1)), Pop(<<"l">>), If(s), ElseOf,
  Sink(Size(<<"l">>)), Sink(Elem(<<"l">>)), ForOf(<<"l">>), Sink(Read(<<"v">>)),
  Jump("break")}

\* A list declared in the body.
OwnLists == {
  ListOf(<<"m">>), Push(<<"m">>, s), Push(<<"m">>, Lit(1)), Sink(Size(<<"m">>)),
  WhileOf(y), If(s), Set(<<"y">>, Lit(0)), Sink(y)}

\* A list inside a box.
Inner == {
  Push(<<"b", "i">>, s), Push(<<"b", "i">>, Lit(1)), Pop(<<"b", "i">>),
  Set(<<"x">>, Size(<<"b", "i">>)), ForOf(<<"b", "i">>), If(s), Sink(x),
  Sink(Elem(<<"b", "i">>)), Sink(Read(<<"b", "f">>)), Sink(Read(<<"v">>))}

\* A list inside a box that has two names.
TwoNames == {
  Let(<<"c">>, <<"b">>), Push(<<"b", "i">>, s), Push(<<"c", "i">>, Lit(1)),
  Pop(<<"b", "i">>), Set(<<"x">>, Size(<<"c", "i">>)), If(s), Sink(x),
  Sink(Size(<<"b", "i">>)), Sink(Elem(<<"c", "i">>)), Sink(Read(<<"c", "f">>))}

MCFamilies == {Control, Structs, Params, Containers, OwnLists, Inner, TwoNames}

=============================================================================
