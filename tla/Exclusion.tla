------------------------------ MODULE Exclusion ------------------------------
(***************************************************************************)
(* The capabilities a function provably excludes (capa/manifest:           *)
(* compute_reachability and trait_bound_violations of _reachability.py,    *)
(* and the sets of _fun_record in _funrec.py).                             *)
(*                                                                         *)
(* A fixpoint charges every declared type with the capabilities a holder   *)
(* of one of its values may come to exercise, and marks the types whose    *)
(* values may carry a closure.  The record of a function takes the charges *)
(* of what its signature and its body name; what is left is excluded.      *)
(*                                                                         *)
(* The module then follows what a program can do, one value at a time:     *)
(* a built-in capability that is put into values, seen through interfaces, *)
(* captured by closures and at last handed to a function ("carry"), and    *)
(* the values the body of a function obtains from one it has ("use").      *)
(*                                                                         *)
(* A type expression is the set of the names it mentions.  An impl is for  *)
(* a trait, a capability or, inherent, for none, and has one method.       *)
(***************************************************************************)
EXTENDS FiniteSets

CONSTANTS
  Structs, Sums,  \* the declared data types
  Traits,         \* the interfaces that are not capabilities
  Caps,           \* the user-defined capabilities
  Builtins,       \* the built-in capabilities
  Unsafe,         \* the one that gives up the discipline
  FunType,        \* a function type, whatever it takes and returns
  FreeParam,      \* a name that is no type: a free type parameter
  None,
  Programs,       \* the declarations of a module
  Functions       \* its functions: what their records are made from

Data    == Structs \cup Sums
Ifaces  == Traits \cup Caps
Keyed   == Data \cup Ifaces                \* the keys of `reachable'
Names   == Keyed \cup Builtins \cup {FunType, FreeParam}
AllCaps == Caps \cup Builtins

Impl == [of : Ifaces \cup {None}, on : Data,
         args : SUBSET Names,              \* the type arguments of the receiver
         takes : SUBSET Names, gives : SUBSET Names]
Program == [holds : [Data -> SUBSET Names],  \* fields, payloads of variants
            impls : SUBSET Impl,
            pub : SUBSET Traits, bounded : SUBSET Traits,
            uses : [Traits -> SUBSET AllCaps]]

\* What the parameters, the result, the structs constructed in the body and
\* the results of the functions called there mention; for a method, the type
\* and the interface of its impl.
Function == [names : SUBSET Names, on : Data \cup {None}, of : Ifaces \cup {None}]

ASSUME ProgramsAssumption == Programs \subseteq Program /\ Functions \subseteq Function

ASSUME NamesAssumption ==
  /\ Structs \cap Sums = {} /\ Data \cap Ifaces = {} /\ Traits \cap Caps = {}
  /\ Builtins \cap Keyed = {} /\ Unsafe \in Builtins
  /\ FunType \notin Keyed \cup Builtins
  /\ FreeParam \notin Keyed \cup Builtins \cup {FunType}
  /\ None \notin Names

VARIABLES
  prog,     \* the module
  reach,    \* reachable: per type, the capabilities charged to it
  unprov,   \* unprovable: the types whose charge is no bound
  changed,  \* of the pass in progress
  todo,     \* the types this pass has not visited
  phase,    \* "loop", "settled", "refused", "accepted", "carry", "use"
  origin,   \* the capability that is carried; the name the body starts from
  seen,     \* the type through which the value at hand is seen
  strayed   \* the body took a way the charges do not follow

vars == <<prog, reach, unprov, changed, todo, phase, origin, seen, strayed>>

-----------------------------------------------------------------------------
(* What is declared.                                                       *)

\* A struct or sum that reaches a function type through what it holds.
FunBearing ==
  LET Closed(X) == \A n \in Data :
        prog.holds[n] \cap (X \cup {FunType}) # {} => n \in X
  IN {n \in Data : \A X \in SUBSET Data : Closed(X) => n \in X}

\* pub traits that do not bound every method: anyone may implement them.
Open == prog.pub \ prog.bounded

Bounded == prog.pub \cap prog.bounded

-----------------------------------------------------------------------------
(* The charge of one type.                                                 *)

\* Mutation: every name that is not a key is a capability.
MentionOrName(M) == (M \ Keyed) \cup UNION {reach[n] : n \in M \cap Keyed}

\* _caps_via_type: the capabilities mentioned names stand for ...
Mention(M) == (M \cap Builtins) \cup UNION {reach[n] : n \in M \cap Keyed}
\* ... and whether one of them is a closure, or may hold one.
Suspect(M) == M \cap (unprov \cup {FunType}) # {}

Inherent(n) == {i \in prog.impls : i.on = n /\ i.of = None}
ImplsOf(t) == {i \in prog.impls : i.of = t}
Signature(i) == i.takes \cup i.gives
Implemented(n) == {c \in Caps : \E i \in prog.impls : i.on = n /\ i.of = c}

\* _closure_of_atoms
Closure(atoms) == atoms \cup UNION {reach[c] : c \in atoms \cap Keyed}

\* Mutation: the type arguments are forgotten.
FootprintOfReceiver(i) == reach[i.on] \cup Mention(Signature(i))

\* _impl_reachable_caps: the receiver, its type arguments, the signatures
Footprint(i) == reach[i.on] \cup Mention(i.args \cup Signature(i))
Unprovable(i) ==
  i.on \in unprov \/ FreeParam \in i.args \/ Suspect(i.args \cup Signature(i))

\* Mutation: the inherent methods are forgotten.
StructChargeOfFields(s) == Implemented(s) \cup Mention(prog.holds[s])

StructCharge(s) ==
  Implemented(s) \cup Mention(prog.holds[s])
    \cup UNION {Mention(Signature(i)) : i \in Inherent(s)}
StructSuspect(s) ==
  Suspect(prog.holds[s]) \/ \E i \in Inherent(s) : Suspect(Signature(i))

DispatchCharge(t) ==
  IF t \in Bounded THEN Closure(prog.uses[t])
  ELSE UNION {Footprint(i) : i \in ImplsOf(t)}
DispatchSuspect(t) == t \notin Bounded /\ \E i \in ImplsOf(t) : Unprovable(i)

-----------------------------------------------------------------------------
(* The fixpoint of compute_reachability: passes over the structs, then the *)
(* sums, then the interfaces, in any order, until one changes nothing.     *)

Init ==
  /\ prog \in Programs
  /\ reach = [n \in Keyed |-> {}]
  /\ unprov = FunBearing \cup Open
  /\ changed = FALSE /\ todo = Keyed
  /\ phase = "loop" /\ origin = None /\ seen = None /\ strayed = FALSE

\* Mutation: a visit that adds what is there counts as a change.
VisitAlwaysChanges(n, charge, suspect) ==
  /\ reach' = [reach EXCEPT ![n] = @ \cup charge]
  /\ unprov' = IF suspect THEN unprov \cup {n} ELSE unprov
  /\ changed' = (changed \/ charge # {})
  /\ todo' = todo \ {n}
  /\ UNCHANGED <<prog, phase, origin, seen, strayed>>

Visit(n, charge, suspect) ==
  /\ reach' = [reach EXCEPT ![n] = @ \cup charge]
  /\ unprov' = IF suspect THEN unprov \cup {n} ELSE unprov
  /\ changed' = (changed \/ reach' # reach \/ unprov' # unprov)
  /\ todo' = todo \ {n}
  /\ UNCHANGED <<prog, phase, origin, seen, strayed>>

VisitStruct(s) ==
  /\ phase = "loop" /\ s \in todo
  /\ Visit(s, StructCharge(s), StructSuspect(s))

VisitSum(e) ==
  /\ phase = "loop" /\ e \in todo /\ todo \cap Structs = {}
  /\ Visit(e, Mention(prog.holds[e]), Suspect(prog.holds[e]))

VisitIface(t) ==
  /\ phase = "loop" /\ t \in todo /\ todo \cap Data = {}
  /\ Visit(t, DispatchCharge(t), DispatchSuspect(t))

NextPass ==
  /\ phase = "loop" /\ todo = {} /\ changed
  /\ todo' = Keyed /\ changed' = FALSE
  /\ UNCHANGED <<prog, reach, unprov, phase, origin, seen, strayed>>

Settle ==
  /\ phase = "loop" /\ todo = {} /\ ~changed
  /\ phase' = "settled"
  /\ UNCHANGED <<prog, reach, unprov, changed, todo, origin, seen, strayed>>

-----------------------------------------------------------------------------
(* trait_bound_violations: the impls of a bounded trait stay in its bound. *)

WithinBound(i) ==
  ~Unprovable(i) /\ Footprint(i) \subseteq Closure(prog.uses[i.of])

Conforms == \A i \in prog.impls : i.of \in Bounded => WithinBound(i)

CheckBounds ==
  /\ phase = "settled"
  /\ phase' = IF Conforms THEN "accepted" ELSE "refused"
  /\ UNCHANGED <<prog, reach, unprov, changed, todo, origin, seen, strayed>>

-----------------------------------------------------------------------------
(* The record of a function.                                               *)

Accounted(f) ==
  (f.names \cap AllCaps) \cup ({f.of} \cap Caps) \cup Mention(f.names)
    \cup (IF f.on = None THEN {} ELSE reach[f.on])

Provable(f) ==
  /\ Unsafe \notin Accounted(f)
  /\ ~Suspect(f.names) /\ f.on \notin unprov

Excluded(f) == IF Provable(f) THEN AllCaps \ Accounted(f) ELSE {}

-----------------------------------------------------------------------------
(* A built-in capability on its way to a function.  The value it is in is  *)
(* seen as a declared type, as an interface or as a function.              *)

Follow(n) ==
  /\ seen' = n
  /\ UNCHANGED <<prog, reach, unprov, changed, todo, phase, origin, strayed>>

Create(b) ==
  /\ phase \in {"accepted", "carry", "use"}
  /\ phase' = "carry" /\ origin' = b /\ seen' = b /\ strayed' = FALSE
  /\ UNCHANGED <<prog, reach, unprov, changed, todo>>

\* A field or a payload of type `seen'.
Wrap(n) == phase = "carry" /\ seen \in prog.holds[n] /\ Follow(n)

\* The value as one of the interfaces its type implements, or a value of a
\* generic type that holds it.
Upcast(i) ==
  /\ phase = "carry" /\ i.of # None
  /\ \/ i.on = seen
     \/ i.args \cap {seen, FreeParam} # {}
  /\ Follow(i.of)

Capture == phase = "carry" /\ Follow(FunType)

\* A package this module does not see implements one of its pub traits; if
\* the trait is bounded, the implementation was checked as those here are.
ImplementOutside(t) ==
  /\ phase = "carry" /\ t \in prog.pub
  /\ t \in Bounded =>
       ~Suspect({seen}) /\ Mention({seen}) \subseteq Closure(prog.uses[t])
  /\ Follow(t)

-----------------------------------------------------------------------------
(* The body of a function, from one name its record takes the charge of:   *)
(* what it obtains, and the user-defined capabilities that exercises.      *)

Begin(n) ==
  /\ phase \in {"accepted", "carry", "use"}
  /\ phase' = "use" /\ origin' = n /\ seen' = n /\ strayed' = FALSE
  /\ UNCHANGED <<prog, reach, unprov, changed, todo>>

\* A field is read, a variant is matched.
Read(n) ==
  /\ phase = "use" /\ ~strayed
  /\ seen \in Data /\ n \in prog.holds[seen]
  /\ Follow(n)

\* An inherent method is called.
Call(i) ==
  /\ phase = "use" /\ ~strayed
  /\ i.of = None /\ i.on = seen /\ seen \in Structs
  /\ \E n \in i.gives : Follow(n)

\* A method is called through an interface: it runs on a value of the impl.
Dispatch(i) ==
  /\ phase = "use" /\ ~strayed /\ i.of = seen
  /\ \E n \in {i.on} \cup i.args \cup i.gives : Follow(n)

\* The ways the charges do not follow: what a sum implements, a method called
\* on the type that implements an interface or on a sum, and the value of a
\* constant or one made by a function that is called.  It is one step.
Stray(n) ==
  /\ phase = "use" /\ ~strayed
  /\ \/ n = seen /\ seen \in Sums
     \/ \E i \in prog.impls : i.on = seen /\ n \in i.gives
     \/ n \in Structs
  /\ seen' = n /\ strayed' = TRUE
  /\ UNCHANGED <<prog, reach, unprov, changed, todo, phase, origin>>

\* What a value seen as n lets the body exercise.
Exercises(n) ==
  {c \in Caps :
     \/ n \in (IF strayed THEN Data ELSE Structs) /\ c \in Implemented(n)
     \/ n = FunType \/ n \in Open
     \/ n \in Bounded /\ c \in Closure(prog.uses[n])}

\* The analyzer reports the violations: there is no manifest.
Refused == phase = "refused" /\ UNCHANGED vars

-----------------------------------------------------------------------------
Visits ==
  \/ \E s \in Structs : VisitStruct(s)
  \/ \E e \in Sums : VisitSum(e)
  \/ \E t \in Ifaces : VisitIface(t)

Compute == Visits \/ NextPass \/ Settle \/ CheckBounds

Carry ==
  \/ \E b \in Builtins : Create(b)
  \/ \E n \in Data : Wrap(n)
  \/ \E i \in prog.impls : Upcast(i)
  \/ Capture
  \/ \E t \in Traits : ImplementOutside(t)

Use ==
  \/ \E n \in Keyed \cup {FunType} : Begin(n)
  \/ \E n \in Names : Read(n) \/ Stray(n)
  \/ \E i \in prog.impls : Call(i) \/ Dispatch(i)

Next == Compute \/ Refused \/ Carry \/ Use

Spec == Init /\ [][Next]_vars /\ WF_vars(Compute)

-----------------------------------------------------------------------------
\* The charges name capabilities, the marks and the visits declared types.
TypeOK ==
  /\ prog \in Program
  /\ reach \in [Keyed -> SUBSET AllCaps]
  /\ unprov \subseteq Keyed
  /\ changed \in BOOLEAN /\ strayed \in BOOLEAN
  /\ todo \subseteq Keyed
  /\ phase \in {"loop", "settled", "refused", "accepted", "carry", "use"}
  /\ origin \in Names \cup {None} /\ seen \in Names \cup {None}

\* No function excludes a built-in capability it can be handed: whatever the
\* capability was put into, captured by or implemented with, here or in
\* another package, the value fits none of the function's types.
BuiltinsAccounted ==
  phase = "carry" =>
    \A f \in Functions :
      seen \in f.names \cup {f.on} => origin \notin Excluded(f)

\* No function excludes a user-defined capability that its body can exercise
\* on what it is given, constructs or is returned, unless the body strays.
UserCapsAccounted ==
  phase = "use" /\ ~strayed =>
    \A f \in Functions :
      origin \in f.names \cup {f.on} => Exercises(seen) \cap Excluded(f) = {}

\* The fixpoint is reached: the loop of passes ends.
LoopEnds == <>(phase \notin {"loop", "settled"})
=============================================================================
