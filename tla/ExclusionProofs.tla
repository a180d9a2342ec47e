---------------------------- MODULE ExclusionProofs ----------------------------
(***************************************************************************)
(* Proofs about Exclusion, for every module and every order of visits.     *)
(*                                                                         *)
(* The heart is that a pass that changed nothing left every type settled:  *)
(* what its declaration asks for is charged, and it is marked if a mark    *)
(* reaches it.  A step of a value then never leaves the charges.           *)
(***************************************************************************)
EXTENDS Exclusion, TLAPS

USE ProgramsAssumption, NamesAssumption
    DEF Data, Ifaces, Keyed, Names, AllCaps

\* What one visit of a type charges it with, and whether it marks it.
ChargeOf(n) ==
  IF n \in Structs THEN StructCharge(n)
  ELSE IF n \in Sums THEN Mention(prog.holds[n]) ELSE DispatchCharge(n)
SuspectOf(n) ==
  IF n \in Structs THEN StructSuspect(n)
  ELSE IF n \in Sums THEN Suspect(prog.holds[n]) ELSE DispatchSuspect(n)

Settled(n) == ChargeOf(n) \subseteq reach[n] /\ (SuspectOf(n) => n \in unprov)

Walking == phase \in {"accepted", "carry", "use"}

\* The inductive invariant: the fixpoint, and below the two walks.
FixInv ==
  /\ Open \subseteq unprov
  /\ ~changed => \A n \in Keyed \ todo : Settled(n)
  /\ phase # "loop" => ~changed /\ todo = {}
  /\ Walking => Conforms

\* The capability carried is charged to n, or n is suspect; what n is charged
\* with is charged to the name the body started from, or that name is suspect.
Carries(n) == origin \in Mention({n}) \/ Suspect({n})
Covered(n) ==
  Suspect({origin}) \/ (~Suspect({n}) /\ Mention({n}) \subseteq Mention({origin}))

CarryInv ==
  phase = "carry" => origin \in Builtins /\ seen \in Names /\ Carries(seen)
UseInv ==
  phase = "use" /\ ~strayed => origin \in Names /\ seen \in Names /\ Covered(seen)

Inv == TypeOK /\ FixInv /\ CarryInv /\ UseInv

-----------------------------------------------------------------------------
(* Types.                                                                  *)

LEMMA MentionType == ASSUME TypeOK, NEW M  PROVE Mention(M) \subseteq AllCaps
BY DEF TypeOK, Mention

LEMMA ChargeType ==
  ASSUME TypeOK, NEW n \in Keyed
  PROVE  ChargeOf(n) \subseteq AllCaps
<1>1. CASE n \in Structs
  BY <1>1, MentionType DEF ChargeOf, StructCharge, Implemented
<1>2. CASE n \in Sums
  BY <1>2, MentionType DEF ChargeOf
<1>3. CASE n \in Ifaces
  <2>1. ASSUME n \in Bounded  PROVE DispatchCharge(n) \subseteq AllCaps
    <3>1. n \in Traits /\ prog.uses[n] \subseteq AllCaps
      BY <2>1 DEF Bounded, TypeOK, Program
    <3>2. QED
      BY <2>1, <3>1 DEF DispatchCharge, Closure, TypeOK
  <2>2. ASSUME NEW i \in prog.impls  PROVE Footprint(i) \subseteq AllCaps
    <3>1. i.on \in Keyed
      BY DEF TypeOK, Program, Impl
    <3>2. QED
      BY <3>1, MentionType DEF Footprint, TypeOK
  <2>3. DispatchCharge(n) \subseteq AllCaps
    BY <2>1, <2>2 DEF DispatchCharge, ImplsOf
  <2>4. QED
    BY <1>3, <2>3 DEF ChargeOf
<1>4. QED
  BY <1>1, <1>2, <1>3

LEMMA VisitCases ==
  ASSUME TypeOK, Visits
  PROVE  \E n \in todo : Visit(n, ChargeOf(n), SuspectOf(n)) /\ phase = "loop"
<1>1. ASSUME NEW s \in Structs, VisitStruct(s)
      PROVE  s \in todo /\ Visit(s, ChargeOf(s), SuspectOf(s)) /\ phase = "loop"
  BY <1>1 DEF VisitStruct, ChargeOf, SuspectOf
<1>2. ASSUME NEW e \in Sums, VisitSum(e)
      PROVE  e \in todo /\ Visit(e, ChargeOf(e), SuspectOf(e)) /\ phase = "loop"
  BY <1>2 DEF VisitSum, ChargeOf, SuspectOf
<1>3. ASSUME NEW t \in Ifaces, VisitIface(t)
      PROVE  t \in todo /\ Visit(t, ChargeOf(t), SuspectOf(t)) /\ phase = "loop"
  BY <1>3 DEF VisitIface, ChargeOf, SuspectOf
<1>4. QED
  BY <1>1, <1>2, <1>3 DEF Visits

\* What an impl is made of.
LEMMA ImplType ==
  ASSUME TypeOK, NEW i \in prog.impls
  PROVE  /\ i.on \in Data /\ i.of \in Ifaces \cup {None}
         /\ i.args \subseteq Names /\ i.takes \subseteq Names /\ i.gives \subseteq Names
BY DEF TypeOK, Program, Impl

LEMMA HoldsType ==
  ASSUME TypeOK, NEW n \in Data  PROVE prog.holds[n] \subseteq Names
BY DEF TypeOK, Program

-----------------------------------------------------------------------------
LEMMA TypeInit == Init => TypeOK
<1>1. Init => FunBearing \cup Open \subseteq Keyed
  BY DEF Init, FunBearing, Open, Program
<1>2. QED
  BY <1>1 DEF Init, TypeOK

LEMMA TypeStep == ASSUME TypeOK, [Next]_vars  PROVE TypeOK'
<1>1. CASE Visits
  <2>1. PICK n \in todo : Visit(n, ChargeOf(n), SuspectOf(n))
    BY <1>1, VisitCases
  <2>2. ChargeOf(n) \subseteq AllCaps
    BY ChargeType DEF TypeOK
  <2>3. QED
    BY <2>1, <2>2 DEF Visit, TypeOK
<1>2. CASE NextPass \/ Settle \/ CheckBounds \/ Refused
  BY <1>2 DEF NextPass, Settle, CheckBounds, Refused, TypeOK, vars
<1>3. ASSUME NEW b \in Builtins, Create(b)  PROVE TypeOK'
  BY <1>3 DEF Create, TypeOK
<1>4. ASSUME NEW n \in Data, Wrap(n)  PROVE TypeOK'
  BY <1>4 DEF Wrap, Follow, TypeOK
<1>5. ASSUME NEW i \in prog.impls, Upcast(i)  PROVE TypeOK'
  <2>1. i.of \in Names
    BY <1>5, ImplType DEF Upcast
  <2>2. QED
    BY <1>5, <2>1 DEF Upcast, Follow, TypeOK
<1>6. CASE Capture
  BY <1>6 DEF Capture, Follow, TypeOK
<1>7. ASSUME NEW t \in Traits, ImplementOutside(t)  PROVE TypeOK'
  BY <1>7 DEF ImplementOutside, Follow, TypeOK
<1>8. ASSUME NEW n \in Names, Begin(n) \/ Read(n) \/ Stray(n)  PROVE TypeOK'
  BY <1>8 DEF Begin, Read, Stray, Follow, TypeOK
<1>9. ASSUME NEW i \in prog.impls, Call(i) \/ Dispatch(i)  PROVE TypeOK'
  <2>1. \E n \in {i.on} \cup i.args \cup i.gives : Follow(n)
    BY <1>9 DEF Call, Dispatch
  <2>2. QED
    BY <2>1, ImplType DEF Follow, TypeOK
<1>10. CASE UNCHANGED vars
  BY <1>10 DEF vars, TypeOK
<1>11. QED
  BY <1>1, <1>2, <1>3, <1>4, <1>5, <1>6, <1>7, <1>8, <1>9, <1>10
     DEF Next, Compute, Carry, Use

\* The charges name capabilities, the marks and the visits declared types.
THEOREM TypeCorrect == Spec => []TypeOK
BY TypeInit, TypeStep, PTL DEF Spec

-----------------------------------------------------------------------------
(* The fixpoint.                                                           *)

LEMMA FixInit == Init => FixInv
BY DEF Init, FixInv, Open, Walking

\* A visit that changes nothing leaves the type it visits settled.
LEMMA QuietVisit ==
  ASSUME TypeOK, NEW n \in Keyed, Visit(n, ChargeOf(n), SuspectOf(n)), ~changed'
  PROVE  Settled(n) /\ ~changed /\ UNCHANGED <<prog, reach, unprov>>
<1>1. ~changed /\ reach' = reach /\ unprov' = unprov /\ prog' = prog
  BY DEF Visit
<1>2. reach'[n] = reach[n] \cup ChargeOf(n)
  BY DEF Visit, TypeOK
<1>3. QED
  BY <1>1, <1>2 DEF Visit, Settled

\* What is settled stays so while the charges and the marks do not change.
LEMMA SettledStays ==
  ASSUME UNCHANGED <<prog, reach, unprov>>, NEW n, Settled(n)
  PROVE  Settled(n)'
BY DEF Settled, ChargeOf, SuspectOf, StructCharge, StructSuspect, DispatchCharge,
       DispatchSuspect, Mention, Suspect, Implemented, Inherent, ImplsOf, Signature,
       Closure, Footprint, Unprovable, Bounded

LEMMA WalkFix ==
  ASSUME FixInv, UNCHANGED <<prog, reach, unprov, changed, todo>>,
         Walking, Walking'
  PROVE  FixInv'
<1>1. ASSUME NEW n, Settled(n)  PROVE Settled(n)'
  BY <1>1, SettledStays
<1>2. Conforms' = Conforms
  BY DEF Conforms, WithinBound, Unprovable, Footprint, Closure, Mention, Suspect,
         Signature, Bounded
<1>3. phase # "loop"
  BY DEF Walking
<1>4. Open' = Open
  BY DEF Open
<1>5. QED
  BY <1>1, <1>2, <1>3, <1>4 DEF FixInv

LEMMA FixStep == ASSUME TypeOK, FixInv, [Next]_vars  PROVE FixInv'
<1>1. CASE Visits
  <2>1. PICK n \in todo : Visit(n, ChargeOf(n), SuspectOf(n)) /\ phase = "loop"
    BY <1>1, VisitCases
  <2>2. n \in Keyed
    BY DEF TypeOK
  <2>3. Open' \subseteq unprov'
    BY <2>1 DEF Visit, Open, FixInv
  <2>4. ASSUME ~changed', NEW m \in Keyed \ todo'  PROVE Settled(m)'
    <3>1. Settled(n) /\ ~changed /\ UNCHANGED <<prog, reach, unprov>>
      BY <2>1, <2>2, <2>4, QuietVisit
    <3>2. Settled(m)
      BY <2>1, <3>1 DEF Visit, FixInv
    <3>3. QED
      BY <3>1, <3>2, SettledStays
  <2>5. phase' = "loop"
    BY <2>1 DEF Visit
  <2>6. QED
    BY <2>3, <2>4, <2>5 DEF FixInv, Walking
<1>2. CASE NextPass
  BY <1>2 DEF NextPass, FixInv, Open, Walking
<1>3. CASE Settle
  <2>1. \A n \in Keyed \ todo : Settled(n)'
    BY <1>3, SettledStays DEF Settle, FixInv
  <2>2. QED
    BY <1>3, <2>1 DEF Settle, FixInv, Open, Walking
<1>4. CASE CheckBounds
  <2>1. \A n \in Keyed \ todo : Settled(n)'
    BY <1>4, SettledStays DEF CheckBounds, FixInv
  <2>2. Walking' => Conforms
    BY <1>4 DEF CheckBounds, Walking
  <2>3. Conforms' = Conforms
    BY <1>4 DEF CheckBounds, Conforms, WithinBound, Unprovable, Footprint, Closure,
                Mention, Suspect, Signature, Bounded
  <2>4. QED
    BY <1>4, <2>1, <2>2, <2>3 DEF CheckBounds, FixInv, Open
<1>5. CASE Carry \/ Use
  <2>1. UNCHANGED <<prog, reach, unprov, changed, todo>> /\ Walking /\ Walking'
    BY <1>5 DEF Carry, Use, Create, Wrap, Upcast, Capture, ImplementOutside, Begin,
                Read, Stray, Call, Dispatch, Follow, Walking
  <2>2. QED
    BY <2>1, WalkFix
<1>6. CASE Refused \/ UNCHANGED vars
  <2>1. UNCHANGED vars
    BY <1>6 DEF Refused
  <2>2. \A n : Settled(n) => Settled(n)'
    BY <2>1, SettledStays DEF vars
  <2>3. Conforms' = Conforms
    BY <2>1 DEF vars, Conforms, WithinBound, Unprovable, Footprint, Closure,
                Mention, Suspect, Signature, Bounded
  <2>4. QED
    BY <2>1, <2>2, <2>3 DEF vars, FixInv, Open, Walking
<1>7. QED
  BY <1>1, <1>2, <1>3, <1>4, <1>5, <1>6 DEF Next, Compute

-----------------------------------------------------------------------------
(* Where a value leads, in a settled module.                               *)

\* One name: its charge, and whether it is suspect.
LEMMA OneName ==
  ASSUME TypeOK, NEW m \in Names, NEW M, m \in M
  PROVE  /\ Mention({m}) \subseteq Mention(M)
         /\ Suspect({m}) => Suspect(M)
         /\ m \in Keyed => Mention({m}) = reach[m] /\ (Suspect({m}) <=> m \in unprov)
<1>1. Mention({m}) \subseteq Mention(M)
  BY DEF Mention
<1>2. Suspect({m}) => Suspect(M)
  BY DEF Suspect
<1>3. ASSUME m \in Keyed  PROVE Mention({m}) = reach[m] /\ (Suspect({m}) <=> m \in unprov)
  BY <1>3 DEF Mention, Suspect
<1>4. QED
  BY <1>1, <1>2, <1>3

LEMMA AllSettled ==
  ASSUME FixInv, Walking  PROVE Conforms /\ \A n \in Keyed : Settled(n)
BY DEF FixInv, Walking

\* What a field or a payload carries, its holder is charged with.
LEMMA HoldsFlow ==
  ASSUME TypeOK, FixInv, Walking, NEW n \in Data, NEW m \in prog.holds[n]
  PROVE  /\ m \in Names
         /\ Mention({m}) \subseteq reach[n]
         /\ Suspect({m}) => n \in unprov
<1>1. m \in Names
  BY HoldsType
<1>2. Mention({m}) \subseteq Mention(prog.holds[n]) /\ (Suspect({m}) => Suspect(prog.holds[n]))
  BY <1>1, OneName
<1>3. Settled(n)
  BY AllSettled
<1>4. CASE n \in Structs
  BY <1>1, <1>2, <1>3, <1>4 DEF Settled, ChargeOf, SuspectOf, StructCharge, StructSuspect
<1>5. CASE n \in Sums
  BY <1>1, <1>2, <1>3, <1>5 DEF Settled, ChargeOf, SuspectOf
<1>6. QED
  BY <1>4, <1>5

\* What the result of an inherent method carries, the struct is charged with.
LEMMA InherentFlow ==
  ASSUME TypeOK, FixInv, Walking, NEW i \in prog.impls, i.of = None, i.on \in Structs,
         NEW m \in i.gives
  PROVE  Mention({m}) \subseteq reach[i.on] /\ (Suspect({m}) => i.on \in unprov)
<1>1. m \in Names /\ m \in Signature(i) /\ i \in Inherent(i.on)
  BY ImplType DEF Signature, Inherent
<1>2. Mention({m}) \subseteq Mention(Signature(i)) /\ (Suspect({m}) => Suspect(Signature(i)))
  BY <1>1, OneName
<1>3. Settled(i.on)
  BY AllSettled
<1>4. Mention(Signature(i)) \subseteq StructCharge(i.on)
  BY <1>1 DEF StructCharge
<1>5. Suspect(Signature(i)) => StructSuspect(i.on)
  BY <1>1 DEF StructSuspect
<1>6. QED
  BY <1>2, <1>3, <1>4, <1>5 DEF Settled, ChargeOf, SuspectOf

\* What an implementation carries, takes or gives, its interface is charged with.
LEMMA ImplFlow ==
  ASSUME TypeOK, FixInv, Walking, NEW i \in prog.impls, i.of # None,
         NEW m \in {i.on} \cup i.args \cup i.gives
  PROVE  /\ m \in Names /\ i.of \in Ifaces
         /\ Mention({m}) \subseteq reach[i.of]
         /\ Suspect({m}) => i.of \in unprov
<1>1. m \in Names /\ i.of \in Ifaces /\ i.on \in Data
  BY ImplType
<1>2. Mention({m}) \subseteq Footprint(i) /\ (Suspect({m}) => Unprovable(i))
  <2>1. CASE m = i.on
    BY <1>1, <2>1, OneName DEF Footprint, Unprovable
  <2>2. CASE m \in i.args \cup Signature(i)
    BY <1>1, <2>2, OneName DEF Footprint, Unprovable
  <2>3. QED
    BY <2>1, <2>2 DEF Signature
<1>3. Settled(i.of) /\ Conforms
  BY <1>1, AllSettled
<1>4. ChargeOf(i.of) = DispatchCharge(i.of) /\ SuspectOf(i.of) = DispatchSuspect(i.of)
  BY <1>1 DEF ChargeOf, SuspectOf
<1>5. CASE i.of \in Bounded
  <2>1. WithinBound(i)
    BY <1>3, <1>5 DEF Conforms
  <2>2. DispatchCharge(i.of) = Closure(prog.uses[i.of])
    BY <1>5 DEF DispatchCharge
  <2>3. QED
    BY <1>1, <1>2, <1>3, <1>4, <2>1, <2>2 DEF WithinBound, Settled
<1>6. CASE i.of \notin Bounded
  <2>1. Footprint(i) \subseteq DispatchCharge(i.of) /\ (Unprovable(i) => DispatchSuspect(i.of))
    BY <1>6 DEF DispatchCharge, DispatchSuspect, ImplsOf
  <2>2. QED
    BY <1>1, <1>2, <1>3, <1>4, <2>1 DEF Settled
<1>7. QED
  BY <1>5, <1>6

\* An implementation for a free parameter may hold anything: its interface is
\* marked, and if it is bounded there is no manifest.
LEMMA FreeFlow ==
  ASSUME TypeOK, FixInv, Walking, NEW i \in prog.impls, i.of # None, FreeParam \in i.args
  PROVE  i.of \in Ifaces /\ i.of \in unprov
<1>1. i.of \in Ifaces /\ Unprovable(i)
  BY ImplType DEF Unprovable
<1>2. Settled(i.of) /\ i.of \notin Bounded
  BY <1>1, AllSettled DEF Conforms, WithinBound
<1>3. QED
  BY <1>1, <1>2 DEF Settled, SuspectOf, DispatchSuspect, ImplsOf

-----------------------------------------------------------------------------
(* The capability that is carried.                                         *)

LEMMA CarryOne ==
  ASSUME TypeOK, seen \in Names, Carries(seen), NEW n \in Keyed,
         Mention({seen}) \subseteq reach[n], Suspect({seen}) => n \in unprov
  PROVE  Carries(n)
<1>1. Mention({n}) = reach[n] /\ (Suspect({n}) <=> n \in unprov)
  BY OneName
<1>2. QED
  BY <1>1 DEF Carries

LEMMA CarryStep == ASSUME Inv, [Next]_vars  PROVE CarryInv'
<1> USE DEF Inv
<1>1. ASSUME NEW n \in Names, Carries(n), phase = "carry", Follow(n), CarryInv
      PROVE  CarryInv'
  BY <1>1 DEF Follow, CarryInv, Carries, Mention, Suspect
<1>2. phase = "carry" => Walking /\ seen \in Names /\ Carries(seen)
  BY DEF CarryInv, Walking
<1>3. ASSUME NEW b \in Builtins, Create(b)  PROVE CarryInv'
  BY <1>3 DEF Create, CarryInv, Carries, Mention
<1>4. ASSUME NEW n \in Data, Wrap(n)  PROVE CarryInv'
  <2>1. Carries(n)
    BY <1>2, <1>4, HoldsFlow, CarryOne DEF Wrap
  <2>2. QED
    BY <1>1, <1>4, <2>1 DEF Wrap
<1>5. ASSUME NEW i \in prog.impls, Upcast(i)  PROVE CarryInv'
  <2>1. i.of \in Ifaces
    BY <1>5, ImplType DEF Upcast
  <2>2. CASE FreeParam \in i.args
    <3>1. i.of \in unprov
      BY <1>2, <1>5, <2>2, FreeFlow DEF Upcast
    <3>2. QED
      BY <1>1, <1>5, <2>1, <3>1 DEF Upcast, Carries, Suspect
  <2>3. CASE seen \in {i.on} \cup i.args
    <3>1. Carries(i.of)
      BY <1>2, <1>5, <2>1, <2>3, ImplFlow, CarryOne DEF Upcast
    <3>2. QED
      BY <1>1, <1>5, <2>1, <3>1 DEF Upcast
  <2>4. QED
    BY <1>5, <2>2, <2>3 DEF Upcast
<1>6. CASE Capture
  <2>1. Carries(FunType)
    BY DEF Carries, Suspect
  <2>2. QED
    BY <1>1, <1>6, <2>1 DEF Capture
<1>7. ASSUME NEW t \in Traits, ImplementOutside(t)  PROVE CarryInv'
  <2>1. phase = "carry" /\ Follow(t) /\ t \in prog.pub
    BY <1>7 DEF ImplementOutside
  <2>2. CASE t \in Bounded
    <3>1. ~Suspect({seen}) /\ Mention({seen}) \subseteq Closure(prog.uses[t])
      BY <1>7, <2>2 DEF ImplementOutside
    <3>2. Settled(t)
      BY <1>2, <2>1, AllSettled
    <3>3. Closure(prog.uses[t]) \subseteq reach[t]
      BY <2>2, <3>2 DEF Settled, ChargeOf, DispatchCharge
    <3>4. Carries(t)
      BY <1>2, <2>1, <3>1, <3>3, CarryOne
    <3>5. QED
      BY <1>1, <2>1, <3>4
  <2>3. CASE t \notin Bounded
    <3>1. t \in unprov
      BY <2>1, <2>3 DEF Bounded, Open, FixInv
    <3>2. QED
      BY <1>1, <2>1, <3>1 DEF Carries, Suspect
  <2>4. QED
    BY <2>2, <2>3
<1>8. CASE Use
  <2>1. phase' = "use"
    BY <1>8 DEF Use, Begin, Read, Stray, Call, Dispatch, Follow
  <2>2. QED
    BY <2>1 DEF CarryInv
<1>9. CASE Compute
  <2>1. phase' # "carry"
    BY <1>9, VisitCases DEF Compute, Visit, NextPass, Settle, CheckBounds
  <2>2. QED
    BY <2>1 DEF CarryInv
<1>10. CASE Refused \/ UNCHANGED vars
  BY <1>10 DEF Refused, vars, CarryInv, Carries, Mention, Suspect
<1>11. QED
  BY <1>3, <1>4, <1>5, <1>6, <1>7, <1>8, <1>9, <1>10 DEF Next, Carry

-----------------------------------------------------------------------------
(* The values of the body.                                                 *)

LEMMA CoverOne ==
  ASSUME TypeOK, seen \in Keyed, Covered(seen), NEW m \in Names,
         Mention({m}) \subseteq reach[seen], Suspect({m}) => seen \in unprov
  PROVE  Covered(m)
<1>1. Mention({seen}) = reach[seen] /\ (Suspect({seen}) <=> seen \in unprov)
  BY OneName
<1>2. QED
  BY <1>1 DEF Covered

LEMMA UseStep == ASSUME Inv, [Next]_vars  PROVE UseInv'
<1> USE DEF Inv
<1>1. ASSUME NEW n \in Names, Covered(n), phase = "use", ~strayed, Follow(n), UseInv
      PROVE  UseInv'
  BY <1>1 DEF Follow, UseInv, Covered, Mention, Suspect
<1>2. phase = "use" /\ ~strayed => Walking /\ seen \in Names /\ Covered(seen)
  BY DEF UseInv, Walking
<1>3. ASSUME NEW n \in Names, Begin(n)  PROVE UseInv'
  BY <1>3 DEF Begin, UseInv, Covered
<1>4. ASSUME NEW n \in Names, Read(n)  PROVE UseInv'
  <2>1. Covered(n)
    BY <1>2, <1>4, HoldsFlow, CoverOne DEF Read
  <2>2. QED
    BY <1>1, <1>4, <2>1 DEF Read
<1>5. ASSUME NEW n \in Names, Stray(n)  PROVE UseInv'
  BY <1>5 DEF Stray, UseInv
<1>6. ASSUME NEW i \in prog.impls, Call(i)  PROVE UseInv'
  <2>1. PICK n \in i.gives : Follow(n)
    BY <1>6 DEF Call
  <2>2. n \in Names
    BY ImplType
  <2>3. Covered(n)
    BY <1>2, <1>6, <2>2, InherentFlow, CoverOne DEF Call
  <2>4. QED
    BY <1>1, <1>6, <2>1, <2>2, <2>3 DEF Call
<1>7. ASSUME NEW i \in prog.impls, Dispatch(i)  PROVE UseInv'
  <2>1. PICK n \in {i.on} \cup i.args \cup i.gives : Follow(n)
    BY <1>7 DEF Dispatch
  <2>2. i.of = seen /\ i.of # None /\ Walking /\ Covered(seen)
    BY <1>2, <1>7 DEF Dispatch
  <2>3. /\ n \in Names /\ seen \in Ifaces
        /\ Mention({n}) \subseteq reach[seen]
        /\ Suspect({n}) => seen \in unprov
    BY <2>2, ImplFlow
  <2>4. Covered(n)
    BY <2>2, <2>3, CoverOne
  <2>5. QED
    BY <1>1, <1>7, <2>1, <2>3, <2>4 DEF Dispatch
<1>8. CASE Carry
  <2>1. phase' = "carry"
    BY <1>8 DEF Carry, Create, Wrap, Upcast, Capture, ImplementOutside, Follow
  <2>2. QED
    BY <2>1 DEF UseInv
<1>9. CASE Compute
  <2>1. phase' # "use"
    BY <1>9, VisitCases DEF Compute, Visit, NextPass, Settle, CheckBounds
  <2>2. QED
    BY <2>1 DEF UseInv
<1>10. CASE Refused \/ UNCHANGED vars
  BY <1>10 DEF Refused, vars, UseInv, Covered, Mention, Suspect
<1>11. QED
  BY <1>3, <1>4, <1>5, <1>6, <1>7, <1>8, <1>9, <1>10 DEF Next, Use

-----------------------------------------------------------------------------
LEMMA Invariance == Spec => []Inv
<1>1. Init => Inv
  BY TypeInit, FixInit DEF Init, Inv, CarryInv, UseInv
<1>2. Inv /\ [Next]_vars => Inv'
  BY TypeStep, FixStep, CarryStep, UseStep DEF Inv
<1>3. QED
  BY <1>1, <1>2, PTL DEF Spec

\* A record takes the charge and the mark of each name it is made from.
LEMMA Recorded ==
  ASSUME TypeOK, NEW f \in Function, NEW n \in Names, n \in f.names \cup {f.on}
  PROVE  Mention({n}) \subseteq Accounted(f) /\ (Suspect({n}) => ~Provable(f))
<1>1. CASE n \in f.names
  BY <1>1, OneName DEF Accounted, Provable
<1>2. CASE n = f.on
  <2>1. n \in Keyed /\ f.on # None
    BY <1>2 DEF Function
  <2>2. QED
    BY <1>2, <2>1, OneName DEF Accounted, Provable
<1>3. QED
  BY <1>1, <1>2

\* No function excludes a built-in capability that some value which fits its
\* types carries, for every module and every function.
THEOREM BuiltinsNeverExcluded == Spec => []BuiltinsAccounted
<1>1. Inv => BuiltinsAccounted
  <2>1. SUFFICES ASSUME Inv, phase = "carry", NEW f \in Functions,
                        seen \in f.names \cup {f.on}
                 PROVE  origin \notin Excluded(f)
    BY DEF BuiltinsAccounted
  <2>2. f \in Function /\ seen \in Names /\ Carries(seen)
    BY <2>1 DEF Inv, CarryInv
  <2>3. Mention({seen}) \subseteq Accounted(f) /\ (Suspect({seen}) => ~Provable(f))
    BY <2>1, <2>2, Recorded DEF Inv
  <2>4. QED
    BY <2>2, <2>3 DEF Carries, Excluded
<1>2. QED
  BY <1>1, Invariance, PTL

\* What a value lets the body exercise is charged to its type.
LEMMA ExercisesCharged ==
  ASSUME TypeOK, FixInv, Walking, ~strayed, seen \in Names
  PROVE  Suspect({seen}) \/ Exercises(seen) \subseteq Mention({seen})
<1>1. CASE seen \in Structs
  <2>1. Settled(seen) /\ seen \notin Bounded
    BY <1>1, AllSettled DEF Bounded, TypeOK, Program
  <2>2. Implemented(seen) \subseteq reach[seen]
    BY <1>1, <2>1 DEF Settled, ChargeOf, StructCharge
  <2>3. CASE Suspect({seen})
    BY <2>3
  <2>4. CASE ~Suspect({seen})
    <3>1. seen # FunType /\ seen \notin Open
      BY <2>4 DEF Suspect, FixInv
    <3>2. Mention({seen}) = reach[seen]
      BY <1>1, OneName
    <3>3. QED
      BY <2>1, <2>2, <3>1, <3>2 DEF Exercises
  <2>5. QED
    BY <2>3, <2>4
<1>2. CASE seen = FunType \/ seen \in Open
  BY <1>2 DEF FixInv, Suspect
<1>3. CASE seen \notin Structs /\ seen \in Bounded /\ seen # FunType /\ seen \notin Open
  <2>1. seen \in Traits
    BY <1>3 DEF Bounded, TypeOK, Program
  <2>2. Settled(seen)
    BY <2>1, AllSettled
  <2>3. Closure(prog.uses[seen]) \subseteq reach[seen]
    BY <1>3, <2>1, <2>2 DEF Settled, ChargeOf, DispatchCharge
  <2>4. Mention({seen}) = reach[seen]
    BY <2>1, OneName
  <2>5. QED
    BY <1>3, <2>3, <2>4 DEF Exercises
<1>4. CASE seen \notin Structs \cup Bounded \cup Open /\ seen # FunType
  BY <1>4 DEF Exercises
<1>5. QED
  BY <1>1, <1>2, <1>3, <1>4

\* No function excludes a user-defined capability its body can exercise on
\* what it has, unless it strays.
THEOREM UserCapsNeverExcluded == Spec => []UserCapsAccounted
<1>1. Inv => UserCapsAccounted
  <2>1. SUFFICES ASSUME Inv, phase = "use", ~strayed, NEW f \in Functions,
                        origin \in f.names \cup {f.on}
                 PROVE  Exercises(seen) \cap Excluded(f) = {}
    BY DEF UserCapsAccounted
  <2>2. f \in Function /\ origin \in Names /\ seen \in Names /\ Covered(seen)
    BY <2>1 DEF Inv, UseInv
  <2>3. Mention({origin}) \subseteq Accounted(f) /\ (Suspect({origin}) => ~Provable(f))
    BY <2>1, <2>2, Recorded DEF Inv
  <2>4. Suspect({seen}) \/ Exercises(seen) \subseteq Mention({seen})
    BY <2>1, <2>2, ExercisesCharged DEF Inv, Walking
  <2>5. QED
    BY <2>2, <2>3, <2>4 DEF Covered, Excluded
<1>2. QED
  BY <1>1, Invariance, PTL

-----------------------------------------------------------------------------
(* How long the loop goes on.                                              *)

\* What is still to be charged, and which types are still to be marked.
Uncharged == {p \in Keyed \X AllCaps : p[2] \notin reach[p[1]]}
Unmarked  == Keyed \ unprov

Shrinks(X, Y) == Y \subseteq X /\ Y # X

\* The order in which each step of compute_reachability goes down: first what
\* is left to charge and mark, then whether the pass changed anything, then
\* what it has to visit, then the phase.
LoopRunsDown ==
  \/ /\ Uncharged' \subseteq Uncharged /\ Unmarked' \subseteq Unmarked
     /\ Shrinks(Uncharged, Uncharged') \/ Shrinks(Unmarked, Unmarked')
  \/ /\ UNCHANGED <<reach, unprov>>
     /\ \/ changed /\ ~changed'
        \/ changed' = changed /\ Shrinks(todo, todo')
        \/ changed' = changed /\ todo' = todo
             /\ \/ phase = "loop" /\ phase' = "settled"
                \/ phase = "settled" /\ phase' \in {"accepted", "refused"}

LEMMA RunsDownStep == ASSUME TypeOK, Compute  PROVE LoopRunsDown
<1>1. CASE Visits
  <2>1. PICK n \in todo : Visit(n, ChargeOf(n), SuspectOf(n))
    BY <1>1, VisitCases
  <2>2. n \in Keyed /\ ChargeOf(n) \subseteq AllCaps
    BY ChargeType DEF TypeOK
  <2> HIDE DEF Data, Ifaces, Keyed, AllCaps
  <2>3. /\ reach' = [reach EXCEPT ![n] = @ \cup ChargeOf(n)]
        /\ reach'[n] = reach[n] \cup ChargeOf(n)
        /\ \A m \in Keyed : reach[m] \subseteq reach'[m] /\ (m # n => reach'[m] = reach[m])
        /\ reach' \in [Keyed -> SUBSET AllCaps] /\ reach \in [Keyed -> SUBSET AllCaps]
    BY <2>1, <2>2 DEF Visit, TypeOK
  <2>4. unprov \subseteq unprov' /\ unprov' \subseteq Keyed
    BY <2>1, <2>2 DEF Visit, TypeOK
  <2>5. Uncharged' \subseteq Uncharged /\ Unmarked' \subseteq Unmarked
    BY <2>3, <2>4 DEF Uncharged, Unmarked
  <2>6. CASE reach' # reach
    <3>1. PICK c \in reach'[n] : c \notin reach[n]
      BY <2>3, <2>6
    <3>2. <<n, c>> \in Uncharged /\ <<n, c>> \notin Uncharged'
      BY <2>2, <2>3, <3>1 DEF Uncharged
    <3>3. QED
      BY <2>5, <3>2 DEF LoopRunsDown, Shrinks
  <2>7. CASE unprov' # unprov
    <3>1. PICK m \in unprov' : m \notin unprov
      BY <2>4, <2>7
    <3>2. m \in Unmarked /\ m \notin Unmarked'
      BY <2>4, <3>1 DEF Unmarked
    <3>3. QED
      BY <2>5, <3>2 DEF LoopRunsDown, Shrinks
  <2>8. CASE UNCHANGED <<reach, unprov>>
    <3>1. changed' = changed
      BY <2>1, <2>8 DEF Visit, TypeOK
    <3>2. Shrinks(todo, todo')
      BY <2>1 DEF Visit, Shrinks
    <3>3. QED
      BY <2>8, <3>1, <3>2 DEF LoopRunsDown
  <2>9. QED
    BY <2>6, <2>7, <2>8
<1>2. CASE NextPass
  BY <1>2 DEF NextPass, LoopRunsDown
<1>3. CASE Settle
  BY <1>3 DEF Settle, LoopRunsDown
<1>4. CASE CheckBounds
  BY <1>4 DEF CheckBounds, LoopRunsDown
<1>5. QED
  BY <1>1, <1>2, <1>3, <1>4 DEF Compute

\* Every step of the loop goes down in an order that is well founded as long
\* as a module has finitely many types and capabilities, whatever the types
\* and the order of visits (compute_reachability: `while changed').
THEOREM PassesRunDown == Spec => [][Compute => LoopRunsDown]_vars
<1>1. TypeOK /\ [Next]_vars => [Compute => LoopRunsDown]_vars
  BY RunsDownStep
<1>2. QED
  BY TypeCorrect, <1>1, PTL DEF Spec

=============================================================================
