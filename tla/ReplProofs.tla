------------------------------ MODULE ReplProofs ------------------------------
(***************************************************************************)
(* Proofs about Repl, for every set of items, statements and capabilities  *)
(* and every bound on the program.                                         *)
(*                                                                         *)
(* Between turns the counts are the lengths of the program, so the slice   *)
(* of a turn is exactly the places the candidate adds to it.  During the   *)
(* turn those places are run in order, and a place has run if it is no     *)
(* longer to do; when the turn ends well, what is left was cut short.      *)
(***************************************************************************)
EXTENDS Repl, SequenceTheorems, TLAPS

USE ReplAssumption

InTurn == phase \in {"sliced", "running", "ran", "returned"}
Done   == phase \in {"ran", "returned"} /\ ok

New  == Places(candidate) \ Places(program)
Todo == {todo[i] : i \in DOMAIN todo}

\* The candidate extends the program, and the history follows both.
ExtendInv ==
  /\ phase = "prompt" =>
       candidate = Empty /\ \A b \in Buckets : Len(fired[b]) = Len(program[b])
  /\ InTurn => \A b \in Buckets :
       /\ Len(program[b]) <= Len(candidate[b]) /\ Len(candidate[b]) <= MaxLen
       /\ Len(fired[b]) = Len(candidate[b])

\* A turn has the new places to do, each once.
TodoInv ==
  InTurn =>
    /\ Todo \subseteq New
    /\ \A i, j \in DOMAIN todo : todo[i] = todo[j] => i = j

\* How often each place has run, during a turn too.
OnceInv ==
  /\ phase = "prompt" \/ InTurn =>
       /\ cut \subseteq Places(program) \cup (IF Done THEN New ELSE {})
       /\ \A d \in Places(program) : fired[d[1]][d[2]] = IF d \in cut THEN 0 ELSE 1
  /\ InTurn => \A d \in New :
       fired[d[1]][d[2]] = IF d \in (IF Done THEN cut ELSE Todo) THEN 0 ELSE 1

Inv == TypeOK /\ ExtendInv /\ TodoInv /\ OnceInv

-----------------------------------------------------------------------------
(* Places and slices                                                       *)

Place == Buckets \X Nat

LEMMA PlaceIs ==
  ASSUME NEW prog \in Program, NEW d
  PROVE  d \in Places(prog) <=> d \in Place /\ d[2] \in 1..Len(prog[d[1]])
<1>1. \A b \in Buckets : DOMAIN prog[b] = 1..Len(prog[b]) /\ Len(prog[b]) \in Nat
  BY LenProperties DEF Program
<1>2. ASSUME d \in Places(prog)  PROVE d \in Place /\ d[2] \in 1..Len(prog[d[1]])
  <2>1. PICK b \in Buckets : \E p \in DOMAIN prog[b] : d = <<b, p>>
    BY <1>2 DEF Places
  <2>2. QED
    BY <1>1, <2>1 DEF Place
<1>3. ASSUME d \in Place, d[2] \in 1..Len(prog[d[1]])  PROVE d \in Places(prog)
  <2>1. d[1] \in Buckets /\ d[2] \in DOMAIN prog[d[1]] /\ d = <<d[1], d[2]>>
    BY <1>1, <1>3 DEF Place
  <2>2. QED
    BY <2>1 DEF Places
<1>4. QED
  BY <1>2, <1>3

LEMMA EmptyIs == Empty \in Program /\ Places(Empty) = {} /\ \A b \in Buckets : Len(Empty[b]) = 0
BY EmptySeq DEF Empty, Program, Places

\* The slice of a program: what it has past the counts, each place once.
LEMMA SliceIs ==
  ASSUME NEW prog \in Program, executed \in [Buckets -> Nat],
         \A b \in Buckets : executed[b] <= Len(prog[b]),
         NEW new, new = NewPieces(prog)
  PROVE  /\ new \in Seq(Place)
         /\ {new[i] : i \in DOMAIN new} = {d \in Places(prog) : d[2] > executed[d[1]]}
         /\ \A i, j \in DOMAIN new : new[i] = new[j] => i = j
<1> DEFINE k  == Len(prog["top"]) - executed["top"]
           m  == Len(prog["main"]) - executed["main"]
           s1 == [i \in 1..k |-> <<"top", executed["top"] + i>>]
           s2 == [i \in 1..m |-> <<"main", executed["main"] + i>>]
<1>1. /\ Len(prog["top"]) \in Nat /\ Len(prog["main"]) \in Nat
      /\ executed["top"] \in Nat /\ executed["main"] \in Nat
      /\ executed["top"] <= Len(prog["top"]) /\ executed["main"] <= Len(prog["main"])
  BY LenProperties DEF Program, Buckets
<1>2. k \in Nat /\ m \in Nat
  BY <1>1
<1>3. new = s1 \o s2
  <2>1. BodyLen(prog["main"]) - 1 - (Silencers + executed["main"]) = m
    BY <1>1 DEF BodyLen, Silencers
  <2>2. QED
    BY <2>1 DEF NewPieces
<1>4. s1 \in Seq(Place) /\ Len(s1) = k
  <2>1. \A i \in 1..k : <<"top", executed["top"] + i>> \in Place
    BY <1>1 DEF Place, Buckets
  <2>2. s1 \in Seq(Place)
    BY <1>2, <2>1, IsASeq, SMTT(30)
  <2>3. QED
    BY <1>2, <2>2, LenProperties
<1>5. s2 \in Seq(Place) /\ Len(s2) = m
  <2>1. \A i \in 1..m : <<"main", executed["main"] + i>> \in Place
    BY <1>1 DEF Place, Buckets
  <2>2. s2 \in Seq(Place)
    BY <1>2, <2>1, IsASeq
  <2>3. QED
    BY <1>2, <2>2, LenProperties
<1>e. /\ \A i \in 1..k : s1[i] = <<"top", executed["top"] + i>>
      /\ \A i \in 1..m : s2[i] = <<"main", executed["main"] + i>>
  OBVIOUS
<1>s. k + executed["top"] = Len(prog["top"]) /\ m + executed["main"] = Len(prog["main"])
  BY <1>1
<1> HIDE DEF s1, s2, k, m
<1>6. new \in Seq(Place) /\ Len(new) = k + m /\ DOMAIN new = 1..(k + m)
  <2>1. new \in Seq(Place) /\ Len(new) = Len(s1) + Len(s2)
    BY <1>3, <1>4, <1>5, ConcatProperties
  <2>2. Len(new) = k + m
    BY <1>4, <1>5, <2>1
  <2>3. QED
    BY <2>1, <2>2, LenProperties
<1>7. ASSUME NEW i \in 1..k
      PROVE  k + m \in Nat /\ i \in DOMAIN new /\ new[i] = <<"top", executed["top"] + i>>
  <2>1. i \in 1..(k + m) /\ i <= k
    BY <1>2
  <2>2. new[i] = s1[i]
    BY <1>3, <1>4, <1>5, <2>1, ConcatProperties
  <2>3. QED
    BY <1>2, <1>6, <1>e, <2>1, <2>2
<1>8. ASSUME NEW i \in 1..m
      PROVE  k + i \in DOMAIN new /\ new[k + i] = <<"main", executed["main"] + i>>
  <2>1. k + i \in 1..(k + m) /\ ~(k + i <= k) /\ (k + i) - k = i
    BY <1>2
  <2>2. new[k + i] = s2[(k + i) - k]
    BY <1>3, <1>4, <1>5, <2>1, ConcatProperties
  <2>3. QED
    BY <1>6, <1>e, <2>1, <2>2
<1>9. ASSUME NEW i \in DOMAIN new  PROVE i \in 1..k \/ \E j \in 1..m : i = k + j
  <2>1. i \in 1..k \/ (i - k \in 1..m /\ i = k + (i - k))
    BY <1>2, <1>6
  <2>2. QED
    BY <2>1
<1>10. ASSUME NEW i \in DOMAIN new, NEW j \in DOMAIN new, new[i] = new[j]  PROVE i = j
  <2>1. CASE i \in 1..k
    <3>1. j \in 1..k
      BY <1>7, <1>8, <1>9, <1>10, <2>1
    <3>2. executed["top"] + i = executed["top"] + j
      BY <1>7, <1>10, <2>1, <3>1
    <3>3. QED
      BY <1>1, <3>1, <3>2, <2>1
  <2>2. CASE \E h \in 1..m : i = k + h
    <3>1. \E h \in 1..m : j = k + h
      BY <1>7, <1>8, <1>9, <1>10, <2>2
    <3>2. PICK h \in 1..m, g \in 1..m : i = k + h /\ j = k + g
      BY <2>2, <3>1
    <3>3. executed["main"] + h = executed["main"] + g
      BY <1>8, <1>10, <3>2
    <3>4. QED
      BY <1>1, <3>2, <3>3
  <2>3. QED
    BY <1>9, <2>1, <2>2
<1>11. ASSUME NEW i \in DOMAIN new
       PROVE  new[i] \in Places(prog) /\ new[i][2] > executed[new[i][1]]
  <2>1. CASE i \in 1..k
    <3>1. executed["top"] + i \in 1..Len(prog["top"]) /\ executed["top"] + i > executed["top"]
      BY <1>1, <1>2, <1>s, <2>1
    <3>2. new[i][1] = "top" /\ new[i][2] = executed["top"] + i /\ new[i] \in Place
      <4>1. new[i] = <<"top", executed["top"] + i>>
        BY <1>7, <2>1
      <4>2. new[i] \in Place
        BY <1>6, <1>11, ElementOfSeq
      <4>3. QED
        BY <4>1, <4>2
    <3>3. QED
      BY <3>1, <3>2, PlaceIs
  <2>2. CASE \E h \in 1..m : i = k + h
    <3>1. PICK h \in 1..m : i = k + h
      BY <2>2
    <3>2. executed["main"] + h \in 1..Len(prog["main"]) /\ executed["main"] + h > executed["main"]
      BY <1>1, <1>2, <1>s, <3>1
    <3>3. new[i][1] = "main" /\ new[i][2] = executed["main"] + h /\ new[i] \in Place
      <4>1. new[i] = <<"main", executed["main"] + h>>
        BY <1>8, <3>1
      <4>2. new[i] \in Place
        BY <1>6, <1>11, ElementOfSeq
      <4>3. QED
        BY <4>1, <4>2
    <3>4. QED
      BY <3>2, <3>3, PlaceIs
  <2>3. QED
    BY <1>9, <2>1, <2>2
<1>12. ASSUME NEW d \in Places(prog), d[2] > executed[d[1]]
       PROVE  \E i \in DOMAIN new : new[i] = d
  <2>1. d \in Place /\ d[2] \in 1..Len(prog[d[1]]) /\ d = <<d[1], d[2]>>
    BY PlaceIs DEF Place
  <2>2. CASE d[1] = "top"
    <3>1. PICK i \in 1..k : executed["top"] + i = d[2]
      <4>1. d[2] - executed["top"] \in 1..k /\ executed["top"] + (d[2] - executed["top"]) = d[2]
        BY <1>1, <1>2, <1>s, <1>12, <2>1, <2>2, SMTT(30)
      <4>2. QED
        BY <4>1
    <3>2. QED
      BY <1>7, <2>1, <2>2, <3>1
  <2>3. CASE d[1] = "main"
    <3>1. PICK i \in 1..m : executed["main"] + i = d[2]
      <4>1. d[2] - executed["main"] \in 1..m /\ executed["main"] + (d[2] - executed["main"]) = d[2]
        BY <1>1, <1>2, <1>s, <1>12, <2>1, <2>3, SMTT(30)
      <4>2. QED
        BY <4>1
    <3>2. QED
      BY <1>8, <2>1, <2>3, <3>1
  <2>4. QED
    BY <2>1, <2>2, <2>3 DEF Place, Buckets
<1>13. QED
  BY <1>6, <1>10, <1>11, <1>12

-----------------------------------------------------------------------------
(* The steps                                                               *)

LEMMA InitInv == ASSUME Init  PROVE Inv
<1> USE DEF Init, Inv
<1>1. /\ Empty \in Program /\ Places(Empty) = {} /\ \A b \in Buckets : Len(Empty[b]) = 0
      /\ Empty \in [Buckets -> Seq(Nat)] /\ <<>> \in Seq(Buckets \X Nat)
  BY EmptyIs, EmptySeq DEF Empty
<1>2. TypeOK
  <2>1. namespace \in [Name -> Values]
    BY DEF Values
  <2>2. MaxLen >= 0
    BY DEF ReplAssumption
  <2>3. QED
    BY <1>1, <2>1, <2>2 DEF TypeOK
<1>3. ExtendInv /\ TodoInv /\ OnceInv
  BY <1>1 DEF ExtendInv, TodoInv, OnceInv, InTurn, Done
<1>4. QED
  BY <1>2, <1>3

\* A step that leaves the program, what is to do and the history alone.
LEMMA FrameStep ==
  ASSUME Inv, UNCHANGED <<program, executed, candidate, todo, fired, cut>>,
         phase' \in {"prompt", "sliced", "running", "ran", "returned", "left", "dead"},
         alarm' \in {"off", "armed", "gone off"}, ok' \in BOOLEAN, initialized' \in BOOLEAN,
         namespace' \in [Name -> Values],
         phase' = "prompt" => phase = "prompt",
         InTurn' => InTurn /\ (Done' <=> Done)
  PROVE  Inv'
<1>1. New' = New /\ Todo' = Todo /\ Values' = Values
  BY DEF New, Todo, Values
<1>2. TypeOK'
  BY <1>1 DEF Inv, TypeOK
<1>3. ExtendInv' /\ TodoInv'
  BY <1>1 DEF Inv, ExtendInv, TodoInv, InTurn
<1>4. OnceInv'
  <2>1. CASE phase' = "prompt"
    BY <1>1, <2>1 DEF Inv, OnceInv, InTurn, Done
  <2>2. CASE InTurn'
    BY <1>1, <2>2 DEF Inv, OnceInv
  <2>3. QED
    BY <2>1, <2>2 DEF OnceInv
<1>5. QED
  BY <1>2, <1>3, <1>4 DEF Inv

LEMMA BeginStep == ASSUME Inv, Begin  PROVE Inv'
<1> USE DEF Begin, Inv
<1>1. namespace' \in [Name -> Values]
  BY DEF TypeOK, Values
<1>2. QED
  BY <1>1, FrameStep DEF TypeOK, InTurn, Done

LEMMA BreakStep ==
  ASSUME Inv, Raises \/ AlarmGoesOff \/ Interrupt \/ Disarm \/ Exit
  PROVE  Inv'
<1>1. namespace \in [Name -> Values] /\ ok \in BOOLEAN /\ initialized \in BOOLEAN
  BY DEF Inv, TypeOK
<1>2. CASE Raises
  BY <1>1, <1>2, FrameStep DEF Raises, Stops, Inv, TypeOK, InTurn, Done
<1>3. CASE AlarmGoesOff
  BY <1>1, <1>3, FrameStep DEF AlarmGoesOff, Stops, Inv, TypeOK, InTurn, Done
<1>4. CASE Interrupt
  BY <1>1, <1>4, FrameStep DEF Interrupt, Stops, Inv, TypeOK, InTurn, Done
<1>5. CASE Disarm
  BY <1>1, <1>5, FrameStep DEF Disarm, Inv, TypeOK, InTurn, Done
<1>6. CASE Exit
  BY <1>1, <1>6, FrameStep DEF Exit, Inv, TypeOK, InTurn, Done
<1>7. QED
  BY <1>2, <1>3, <1>4, <1>5, <1>6

\* A turn that ends well, at its end or early: what was to do is cut.
LEMMA EndsWellStep ==
  ASSUME Inv, phase = "running", Stops(TRUE), cut' = cut \cup Todo,
         UNCHANGED <<namespace, alarm, fired>>
  PROVE  Inv'
<1> USE DEF Stops, Inv
<1>1. /\ New' = New /\ Todo' = Todo /\ Values' = Values
      /\ InTurn /\ InTurn' /\ ~Done /\ Done' /\ phase' # "prompt"
      /\ Todo \subseteq New /\ New \cap Places(program) = {}
  BY DEF New, Todo, Values, InTurn, Done, TodoInv
<1>2. TypeOK'
  <2>1. cut' \subseteq Buckets \X Nat
    BY <1>1, PlaceIs DEF TypeOK, New, Place
  <2>2. QED
    BY <1>1, <2>1 DEF TypeOK
<1>3. ExtendInv' /\ TodoInv'
  BY <1>1 DEF ExtendInv, TodoInv
<1>4. OnceInv'
  <2>1. cut \subseteq Places(program)
    BY <1>1 DEF OnceInv
  <2>2. cut' \subseteq Places(program) \cup New
    BY <1>1, <2>1
  <2>3. \A d \in Places(program) : fired[d[1]][d[2]] = IF d \in cut' THEN 0 ELSE 1
    BY <1>1 DEF OnceInv
  <2>4. \A d \in New : fired[d[1]][d[2]] = IF d \in cut' THEN 0 ELSE 1
    BY <1>1, <2>1 DEF OnceInv
  <2>5. QED
    BY <1>1, <2>2, <2>3, <2>4 DEF OnceInv
<1>5. QED
  BY <1>2, <1>3, <1>4

LEMMA EndsStep == ASSUME Inv, Finishes \/ LeavesEarly  PROVE Inv'
<1>1. CASE Finishes
  <2>1. Todo = {}
    BY <1>1 DEF Finishes, Todo
  <2>2. QED
    BY <1>1, <2>1, EndsWellStep DEF Finishes
<1>2. CASE LeavesEarly
  BY <1>2, EndsWellStep DEF LeavesEarly, Todo
<1>3. QED
  BY <1>1, <1>2

\* What the program has, the candidate of a turn has too.
LEMMA Extends == ASSUME Inv, InTurn  PROVE Places(program) \subseteq Places(candidate)
<1> USE DEF Inv
<1>1. ASSUME NEW d \in Places(program)  PROVE d \in Places(candidate)
  <2>1. d \in Place /\ d[2] \in 1..Len(program[d[1]])
    BY PlaceIs DEF TypeOK
  <2>2. Len(program[d[1]]) \in Nat /\ Len(candidate[d[1]]) \in Nat
        /\ Len(program[d[1]]) <= Len(candidate[d[1]])
    BY <2>1, LenProperties DEF ExtendInv, TypeOK, Program, Place
  <2>3. d[2] \in 1..Len(candidate[d[1]])
    BY <2>1, <2>2
  <2>4. QED
    BY <2>1, <2>3, PlaceIs DEF TypeOK
<1>2. QED
  BY <1>1

\* The piece at the head runs: its place is no longer to do, and has run.
LEMMA CompletesStep == ASSUME Inv, Completes  PROVE Inv'
<1> USE DEF Completes, Inv
<1> DEFINE d0 == Head(todo)
<1>1. /\ New' = New /\ Values' = Values /\ Place = Buckets \X Nat
      /\ InTurn /\ InTurn' /\ ~Done /\ ~Done' /\ phase' # "prompt"
  BY DEF New, Values, InTurn, Done, Place
<1>2. /\ todo \in Seq(Place) /\ d0 = todo[1] /\ Tail(todo) \in Seq(Place)
      /\ Len(todo) \in Nat /\ Len(Tail(todo)) = Len(todo) - 1
      /\ DOMAIN todo = 1..Len(todo) /\ DOMAIN Tail(todo) = 1..Len(Tail(todo))
      /\ \A i \in 1..Len(Tail(todo)) : Tail(todo)[i] = todo[i + 1]
      /\ Len(todo) >= 1
  <2>1. todo \in Seq(Place) /\ todo # <<>>
    BY <1>1 DEF TypeOK
  <2>2. Len(todo) \in Nat /\ DOMAIN todo = 1..Len(todo) /\ Len(todo) >= 1
    BY <2>1, LenProperties, EmptySeq
  <2>3. /\ Tail(todo) \in Seq(Place) /\ Len(Tail(todo)) = Len(todo) - 1
        /\ \A i \in 1..Len(Tail(todo)) : Tail(todo)[i] = todo[i + 1]
    BY <2>1, HeadTailProperties
  <2>4. QED
    BY <2>1, <2>2, <2>3, LenProperties
<1>3. Todo' = Todo \ {d0} /\ d0 \in Todo
  <2>1. ASSUME NEW i \in DOMAIN todo'  PROVE todo'[i] \in Todo /\ todo'[i] # d0
    <3>1. i + 1 \in DOMAIN todo /\ todo'[i] = todo[i + 1] /\ 1 \in DOMAIN todo /\ i + 1 # 1
      BY <1>2
    <3>2. QED
      BY <1>1, <1>2, <3>1 DEF Todo, TodoInv
  <2>2. ASSUME NEW i \in DOMAIN todo, todo[i] # d0  PROVE todo[i] \in Todo'
    <3>1. i - 1 \in DOMAIN todo' /\ todo'[i - 1] = todo[i]
      BY <1>2, <2>2
    <3>2. QED
      BY <3>1 DEF Todo
  <2>3. d0 \in Todo
    BY <1>2 DEF Todo
  <2>4. Todo' \subseteq Todo \ {d0}
    BY <2>1 DEF Todo
  <2>5. Todo \ {d0} \subseteq Todo'
    BY <2>2 DEF Todo
  <2>6. QED
    BY <2>3, <2>4, <2>5
<1>4. /\ d0 \in New /\ d0[1] \in Buckets /\ d0[2] \in 1..Len(fired[d0[1]])
      /\ d0 = <<d0[1], d0[2]>> /\ fired[d0[1]][d0[2]] = 0
  <2>1. d0 \in New /\ d0 \in Places(candidate) /\ fired[d0[1]][d0[2]] = 0
    BY <1>1, <1>3 DEF TodoInv, OnceInv, New
  <2>2. d0 \in Place /\ d0[2] \in 1..Len(candidate[d0[1]])
    BY <2>1, PlaceIs DEF TypeOK
  <2>3. QED
    BY <1>1, <2>1, <2>2 DEF ExtendInv
<1> HIDE DEF d0
<1>5. /\ fired' \in [Buckets -> Seq(Nat)]
      /\ \A c \in Buckets : Len(fired'[c]) = Len(fired[c])
      /\ \A c \in Buckets, p \in Nat : p \in 1..Len(fired[c]) =>
           fired'[c][p] = IF <<c, p>> = d0 THEN 1 ELSE fired[c][p]
  <2> DEFINE q == [fired[d0[1]] EXCEPT ![d0[2]] = 1]
  <2>1. fired[d0[1]] \in Seq(Nat)
    BY <1>4 DEF TypeOK
  <2>2. q \in Seq(Nat) /\ Len(q) = Len(fired[d0[1]])
        /\ \A j \in 1..Len(fired[d0[1]]) : q[j] = IF j = d0[2] THEN 1 ELSE fired[d0[1]][j]
    BY <1>4, <2>1, ExceptSeq
  <2>3. fired' = [fired EXCEPT ![d0[1]] = q]
    <3>1. fired' = [fired EXCEPT ![d0[1]] =
                      [fired[d0[1]] EXCEPT ![d0[2]] = fired[d0[1]][d0[2]] + 1]]
      BY <1>4 DEF d0, TypeOK
    <3>2. fired[d0[1]][d0[2]] + 1 = 1
      BY <1>4
    <3>3. QED
      BY <3>1, <3>2
  <2> HIDE DEF q
  <2>4. \A c \in Buckets : fired'[c] = IF c = d0[1] THEN q ELSE fired[c]
    BY <2>3 DEF TypeOK
  <2>5. ASSUME NEW c \in Buckets, NEW p \in Nat, p \in 1..Len(fired[c])
        PROVE  fired'[c][p] = IF <<c, p>> = d0 THEN 1 ELSE fired[c][p]
    <3>1. <<c, p>> = d0 <=> c = d0[1] /\ p = d0[2]
      BY <1>4
    <3>2. QED
      BY <2>2, <2>4, <2>5, <3>1
  <2>6. QED
    BY <2>2, <2>3, <2>4, <2>5 DEF TypeOK
<1>6. ASSUME NEW d \in Places(candidate)
      PROVE  fired'[d[1]][d[2]] = IF d = d0 THEN 1 ELSE fired[d[1]][d[2]]
  <2>1. d \in Place /\ d[2] \in 1..Len(candidate[d[1]])
    BY PlaceIs DEF TypeOK
  <2>2. d[1] \in Buckets /\ d[2] \in Nat /\ d = <<d[1], d[2]>> /\ d[2] \in 1..Len(fired[d[1]])
    BY <1>1, <2>1 DEF ExtendInv
  <2>3. fired'[d[1]][d[2]] = IF <<d[1], d[2]>> = d0 THEN 1 ELSE fired[d[1]][d[2]]
    <3> HIDE DEF Completes
    <3>1. QED
      BY <1>5, <2>2
  <2>4. QED
    BY <2>2, <2>3
<1>7. Places(program) \subseteq Places(candidate)
  BY <1>1, Extends
<1>8. TypeOK'
  <2>1. namespace' \in [Name -> Values]
    <3>1. d0 \in Values
      BY <1>4 DEF New, Values
    <3>2. QED
      BY <3>1 DEF TypeOK, d0
  <2>2. todo' \in Seq(Buckets \X Nat)
    BY <1>1, <1>2
  <2>3. QED
    BY <1>1, <1>5, <2>1, <2>2 DEF TypeOK
<1>9. ExtendInv'
  BY <1>1, <1>5 DEF ExtendInv
<1>10. TodoInv'
  <2>1. ASSUME NEW i \in DOMAIN todo', NEW j \in DOMAIN todo', todo'[i] = todo'[j]  PROVE i = j
    <3>1. /\ i + 1 \in DOMAIN todo /\ todo'[i] = todo[i + 1]
          /\ j + 1 \in DOMAIN todo /\ todo'[j] = todo[j + 1] /\ i \in Nat /\ j \in Nat
      BY <1>2
    <3>2. i + 1 = j + 1
      BY <1>1, <2>1, <3>1 DEF TodoInv
    <3>3. QED
      BY <3>1, <3>2
  <2>2. QED
    BY <1>1, <1>3, <2>1 DEF TodoInv
<1>11. OnceInv'
  <2>1. d0 \notin Places(program) /\ cut' = cut
    BY <1>4 DEF New
  <2>2. \A d \in Places(program) : fired'[d[1]][d[2]] = IF d \in cut THEN 0 ELSE 1
    BY <1>1, <1>6, <1>7, <2>1 DEF OnceInv
  <2>3. \A d \in New : fired'[d[1]][d[2]] = IF d \in Todo' THEN 0 ELSE 1
    BY <1>1, <1>3, <1>6 DEF OnceInv, New
  <2>4. QED
    BY <1>1, <2>1, <2>2, <2>3 DEF OnceInv
<1>12. QED
  BY <1>8, <1>9, <1>10, <1>11

LEMMA CommitStep == ASSUME Inv, Commit  PROVE Inv'
<1> USE DEF Commit, Inv
<1>1. InTurn /\ Done /\ ~InTurn' /\ ~Done' /\ phase' = "prompt" /\ program' = candidate
      /\ candidate' = Empty
  BY DEF InTurn, Done
<1>2. \A b \in Buckets : Len(candidate[b]) \in Nat
  BY LenProperties DEF TypeOK, Program
<1>3. executed' = [b \in Buckets |-> Len(candidate[b])]
  <2>1. BodyLen(candidate["main"]) - Silencers - 1 = Len(candidate["main"])
    BY <1>2 DEF BodyLen, Silencers, Buckets
  <2>2. executed' = [top |-> Len(candidate["top"]), main |-> Len(candidate["main"])]
    BY <2>1 DEF Recount
  <2>3. QED
    BY <2>2 DEF Buckets
<1>4. Places(candidate) = Places(program) \cup New
  BY <1>1, Extends DEF New
<1>5. TypeOK'
  <2>1. Values \subseteq Values'
    BY <1>1, <1>4 DEF Values
  <2>2. namespace' \in [Name -> Values']
    BY <2>1 DEF TypeOK
  <2>3. candidate' \in Program /\ todo' \in Seq(Buckets \X Nat)
    BY EmptyIs, EmptySeq
  <2>4. executed' \in [Buckets -> Nat] /\ \A b \in Buckets : executed'[b] = Len(program'[b])
    BY <1>1, <1>2, <1>3
  <2>5. \A b \in Buckets : Len(program'[b]) <= MaxLen
    BY <1>1 DEF ExtendInv
  <2>6. QED
    BY <1>1, <2>2, <2>3, <2>4, <2>5 DEF TypeOK
<1>6. ExtendInv' /\ TodoInv'
  BY <1>1 DEF ExtendInv, TodoInv
<1>7. OnceInv'
  <2>1. cut \subseteq Places(candidate)
    BY <1>1, <1>4 DEF OnceInv
  <2>2. \A d \in Places(candidate) : fired[d[1]][d[2]] = IF d \in cut THEN 0 ELSE 1
    BY <1>1, <1>4 DEF OnceInv
  <2>3. QED
    BY <1>1, <2>1, <2>2 DEF OnceInv
<1>8. QED
  BY <1>5, <1>6, <1>7

LEMMA ForgetStep == ASSUME Inv, Forget  PROVE Inv'
<1> USE DEF Forget, Inv
<1>1. /\ InTurn /\ ~Done /\ ~InTurn' /\ ~Done' /\ phase' = "prompt" /\ program' = program
      /\ candidate' = Empty /\ Places(Empty) = {}
  BY EmptyIs DEF InTurn, Done
<1>2. /\ fired' \in [Buckets -> Seq(Nat)]
      /\ \A b \in Buckets : Len(fired'[b]) = Len(program[b])
      /\ \A b \in Buckets : \A p \in 1..Len(program[b]) : fired'[b][p] = fired[b][p]
  <2>1. ASSUME NEW b \in Buckets
        PROVE  LET q == SubSeq(fired[b], 1, Len(program[b])) IN
               /\ q \in Seq(Nat) /\ Len(q) = Len(program[b])
               /\ \A p \in 1..Len(program[b]) : q[p] = fired[b][p]
    <3>1. /\ fired[b] \in Seq(Nat) /\ Len(program[b]) \in Nat
          /\ Len(program[b]) <= Len(fired[b]) /\ Len(fired[b]) \in Nat
      BY <1>1, LenProperties DEF TypeOK, ExtendInv, Program
    <3>2. \A p \in 1..Len(program[b]) : fired[b][p] \in Nat
      BY <3>1, ElementOfSeq
    <3> DEFINE n == Len(program[b])
               q == SubSeq(fired[b], 1, n)
    <3> HIDE DEF n
    <3>3. n \in Nat /\ \A i \in 1..n : fired[b][i] \in Nat
      BY <3>1, <3>2 DEF n
    <3>4. q \in Seq(Nat) /\ Len(q) = (IF 1 <= n THEN n - 1 + 1 ELSE 0)
          /\ \A i \in 1..(n - 1 + 1) : q[i] = fired[b][1 + i - 1]
      BY <3>3, SubSeqProperties
    <3>5. n - 1 + 1 = n /\ (\A i \in 1..n : 1 + i - 1 = i) /\ (IF 1 <= n THEN n - 1 + 1 ELSE 0) = n
      BY <3>3
    <3>6. QED
      BY <3>4, <3>5 DEF n
  <2>2. QED
    BY <2>1
<1>3. TypeOK'
  <2>1. namespace' \in [Name -> Values']
    <3>1. \A n \in Name : namespace[n] \in Places(candidate) \cup Places(program) \cup {Cap, Stale, None}
      BY DEF TypeOK, Values
    <3>2. Values' = Places(program) \cup {Cap, Stale, None}
      BY <1>1 DEF Values
    <3>3. QED
      BY <3>1, <3>2
  <2>2. candidate' \in Program /\ todo' \in Seq(Buckets \X Nat)
    BY EmptyIs, EmptySeq
  <2>3. QED
    BY <1>1, <1>2, <2>1, <2>2 DEF TypeOK
<1>4. ExtendInv' /\ TodoInv'
  BY <1>1, <1>2 DEF ExtendInv, TodoInv
<1>5. OnceInv'
  <2>1. cut \subseteq Places(program)
    BY <1>1 DEF OnceInv
  <2>2. ASSUME NEW d \in Places(program)  PROVE fired'[d[1]][d[2]] = fired[d[1]][d[2]]
    <3>1. d \in Place /\ d[2] \in 1..Len(program[d[1]])
      BY PlaceIs DEF TypeOK
    <3>2. QED
      BY <1>2, <3>1 DEF Place
  <2>3. QED
    BY <1>1, <2>1, <2>2 DEF OnceInv
<1>6. QED
  BY <1>3, <1>4, <1>5

LEMMA ResetStep == ASSUME Inv, Reset  PROVE Inv'
<1> USE DEF Reset, Inv
<1>1. /\ ~InTurn' /\ ~Done' /\ phase' = "prompt" /\ candidate' = Empty /\ program' = Empty
      /\ Places(Empty) = {} /\ Empty \in Program /\ \A b \in Buckets : Len(Empty[b]) = 0
      /\ Empty \in [Buckets -> Seq(Nat)]
  BY EmptyIs, EmptySeq DEF InTurn, Done, ExtendInv, Empty
<1>2. TypeOK'
  <2>1. namespace' \in [Name -> Values']
    BY DEF Values
  <2>2. executed' \in [Buckets -> Nat] /\ \A b \in Buckets : executed'[b] = Len(program'[b])
    BY <1>1
  <2>3. MaxLen >= 0
    BY DEF ReplAssumption
  <2>4. QED
    BY <1>1, <2>1, <2>2, <2>3 DEF TypeOK
<1>3. ExtendInv' /\ TodoInv' /\ OnceInv'
  BY <1>1 DEF ExtendInv, TodoInv, OnceInv
<1>4. QED
  BY <1>2, <1>3

\* A sequence of counts extended by zeros.
LEMMA PaddedIs ==
  ASSUME NEW s \in Seq(Nat), NEW n \in Nat, NEW q, q = s \o [i \in 1..n |-> 0]
  PROVE  /\ q \in Seq(Nat) /\ Len(q) = Len(s) + n
         /\ \A p \in 1..(Len(s) + n) : q[p] = IF p <= Len(s) THEN s[p] ELSE 0
<1> DEFINE z == [i \in 1..n |-> 0]
<1>1. z \in Seq(Nat)
  BY IsASeq
<1>2. Len(z) = n /\ \A i \in 1..n : z[i] = 0
  BY <1>1, LenProperties
<1>3. q = s \o z
  OBVIOUS
<1> HIDE DEF z
<1>4. /\ q \in Seq(Nat) /\ Len(q) = Len(s) + Len(z)
      /\ \A p \in 1..(Len(s) + Len(z)) : q[p] = IF p <= Len(s) THEN s[p] ELSE z[p - Len(s)]
  BY <1>1, <1>3, ConcatProperties, ZenonT(30)
<1>5. ASSUME NEW p \in 1..(Len(s) + n), ~(p <= Len(s))  PROVE z[p - Len(s)] = 0
  <2>1. Len(s) \in Nat
    BY LenProperties
  <2>2. p - Len(s) \in 1..n
    BY <1>5, <2>1
  <2>3. QED
    BY <1>2, <2>2
<1>6. QED
  BY <1>2, <1>4, <1>5

\* What is entered makes the slice: the places it adds, none of which has run.
LEMMA EnterStep ==
  ASSUME Inv, NEW b \in Buckets, NEW pieces \in Seq(Item \cup Stmt), Enter(b, pieces)
  PROVE  Inv'
<1> DEFINE prog == [program EXCEPT ![b] = @ \o pieces]
<1>1. /\ phase = "prompt" /\ phase' = "sliced" /\ Len(prog[b]) <= MaxLen
      /\ candidate' = prog /\ todo' = NewPieces(prog)
      /\ fired' = [c \in Buckets |-> fired[c] \o [i \in 1..(Len(prog[c]) - Len(fired[c])) |-> 0]]
      /\ UNCHANGED <<program, executed, initialized, namespace, ok, alarm, cut>>
  BY DEF Enter
<1>2. /\ prog \in Program
      /\ \A c \in Buckets : /\ Len(program[c]) \in Nat /\ Len(prog[c]) \in Nat
                            /\ Len(program[c]) <= Len(prog[c])
                            /\ Len(prog[c]) <= MaxLen
                            /\ executed[c] = Len(program[c]) /\ Len(fired[c]) = Len(program[c])
  <2>1. program[b] \in Seq(Item \cup Stmt) /\ Len(program[b]) \in Nat /\ Len(pieces) \in Nat
    BY LenProperties DEF Inv, TypeOK, Program
  <2>2. /\ program[b] \o pieces \in Seq(Item \cup Stmt)
        /\ Len(program[b] \o pieces) = Len(program[b]) + Len(pieces)
    BY <2>1, ConcatProperties
  <2>3. prog \in Program
    BY <2>2 DEF Inv, TypeOK, Program
  <2>4. prog[b] = program[b] \o pieces /\ \A c \in Buckets : c # b => prog[c] = program[c]
    BY DEF Inv, TypeOK, Program
  <2> HIDE DEF prog
  <2>5. \A c \in Buckets : Len(program[c]) \in Nat /\ Len(prog[c]) \in Nat
    BY <2>3, LenProperties DEF Inv, TypeOK, Program
  <2>6. \A c \in Buckets : Len(program[c]) <= Len(prog[c]) /\ Len(prog[c]) <= MaxLen
    <3>1. Len(program[b]) <= Len(prog[b])
      BY <2>1, <2>2, <2>4
    <3>2. ASSUME NEW c \in Buckets, c # b
          PROVE  Len(program[c]) <= Len(prog[c]) /\ Len(prog[c]) <= MaxLen
      <4>1. prog[c] = program[c] /\ Len(program[c]) <= MaxLen
        BY <2>4, <3>2 DEF Inv, TypeOK
      <4>2. Len(program[c]) \in Nat /\ MaxLen \in Nat
        BY <2>5 DEF ReplAssumption
      <4>3. QED
        BY <4>1, <4>2
    <3>3. QED
      BY <1>1, <3>1, <3>2
  <2>7. QED
    BY <1>1, <2>3, <2>5, <2>6 DEF Inv, TypeOK, ExtendInv
<1> HIDE DEF prog
<1>3. InTurn' /\ ~InTurn /\ ~Done' /\ ~Done /\ phase' # "prompt"
  BY <1>1 DEF InTurn, Done
<1>4. /\ todo' \in Seq(Place) /\ Todo' = {d \in Places(prog) : d[2] > executed[d[1]]}
      /\ \A i, j \in DOMAIN todo' : todo'[i] = todo'[j] => i = j
  <2>1. executed \in [Buckets -> Nat] /\ \A c \in Buckets : executed[c] <= Len(prog[c])
    BY <1>2 DEF Inv, TypeOK
  <2>2. LET new == NewPieces(prog) IN
        /\ new \in Seq(Place)
        /\ {new[i] : i \in DOMAIN new} = {d \in Places(prog) : d[2] > executed[d[1]]}
        /\ \A i, j \in DOMAIN new : new[i] = new[j] => i = j
    BY <1>2, <2>1, SliceIs
  <2>3. QED
    BY <1>1, <2>2 DEF Todo
<1>5. New' = Todo' /\ Places(program) \subseteq Places(prog)
  <2>1. \A d \in Place : d[1] \in Buckets /\ d[2] \in Nat
    BY DEF Place
  <2>2. \A d \in Place : d \in Places(program) <=> d[2] \in 1..Len(program[d[1]])
    BY PlaceIs DEF Inv, TypeOK
  <2>3. \A d \in Place : d \in Places(prog) <=> d[2] \in 1..Len(prog[d[1]])
    BY <1>2, PlaceIs
  <2>4. Places(prog) \subseteq Place /\ Places(program) \subseteq Place
    BY <1>2, PlaceIs DEF Inv, TypeOK
  <2>5. ASSUME NEW d \in Place
        PROVE  /\ d \in Places(program) => d \in Places(prog)
               /\ d \in Places(prog) => (d \in Places(program) <=> ~(d[2] > executed[d[1]]))
    BY <1>2, <2>1, <2>2, <2>3
  <2>6. New' = Places(prog) \ Places(program)
    BY <1>1 DEF New
  <2>7. QED
    BY <1>4, <2>4, <2>5, <2>6
<1>6. /\ fired' \in [Buckets -> Seq(Nat)]
      /\ \A c \in Buckets : Len(fired'[c]) = Len(prog[c])
      /\ \A c \in Buckets : \A p \in 1..Len(prog[c]) :
           fired'[c][p] = IF p <= Len(program[c]) THEN fired[c][p] ELSE 0
  <2>1. ASSUME NEW c \in Buckets
        PROVE  /\ fired'[c] \in Seq(Nat) /\ Len(fired'[c]) = Len(prog[c])
               /\ \A p \in 1..Len(prog[c]) :
                    fired'[c][p] = IF p <= Len(program[c]) THEN fired[c][p] ELSE 0
    <3>1. Len(prog[c]) \in Nat /\ Len(fired[c]) = Len(program[c])
          /\ Len(program[c]) \in Nat /\ Len(program[c]) <= Len(prog[c])
      BY <1>2
    <3> DEFINE m == Len(prog[c]) - Len(fired[c])
    <3>2. m \in Nat /\ Len(fired[c]) + m = Len(prog[c])
      BY <3>1
    <3>3. fired[c] \in Seq(Nat)
      BY DEF Inv, TypeOK
    <3>4. fired'[c] = fired[c] \o [i \in 1..m |-> 0]
      BY <1>1
    <3> HIDE DEF m
    <3>5. /\ fired'[c] \in Seq(Nat) /\ Len(fired'[c]) = Len(fired[c]) + m
          /\ \A p \in 1..(Len(fired[c]) + m) :
               fired'[c][p] = IF p <= Len(fired[c]) THEN fired[c][p] ELSE 0
      BY <3>2, <3>3, <3>4, PaddedIs
    <3>6. QED
      BY <3>1, <3>2, <3>5
  <2>2. fired' = [c \in Buckets |-> fired'[c]]
    BY <1>1
  <2>3. QED
    BY <2>1, <2>2
<1>7. TypeOK'
  <2>1. Values \subseteq Values'
    BY <1>1, <1>5, EmptyIs DEF Values, Inv, ExtendInv
  <2>2. namespace' \in [Name -> Values']
    BY <1>1, <2>1 DEF Inv, TypeOK
  <2>3. QED
    BY <1>1, <1>2, <1>4, <1>6, <2>2 DEF Inv, TypeOK, Place
<1>8. ExtendInv' /\ TodoInv'
  BY <1>1, <1>2, <1>3, <1>4, <1>5, <1>6 DEF ExtendInv, TodoInv
<1>9. OnceInv'
  <2>1. cut' \subseteq Places(program)
    BY <1>1, <1>3 DEF Inv, OnceInv
  <2>2. ASSUME NEW d \in Places(program)
        PROVE  fired'[d[1]][d[2]] = IF d \in cut THEN 0 ELSE 1
    <3>1. d \in Place /\ d[2] \in 1..Len(program[d[1]])
      BY PlaceIs DEF Inv, TypeOK
    <3>2. d[1] \in Buckets /\ d[2] \in 1..Len(prog[d[1]]) /\ d[2] <= Len(program[d[1]])
      BY <1>2, <3>1 DEF Place
    <3>3. fired'[d[1]][d[2]] = fired[d[1]][d[2]]
      BY <1>6, <3>2
    <3>4. QED
      BY <1>1, <3>3 DEF Inv, OnceInv
  <2>3. ASSUME NEW d \in New'  PROVE d \in Todo' /\ fired'[d[1]][d[2]] = 0
    <3>1. d \in Places(prog) /\ d[2] > executed[d[1]]
      BY <1>4, <1>5
    <3>2. d \in Place /\ d[2] \in 1..Len(prog[d[1]])
      BY <1>2, <3>1, PlaceIs
    <3>3. d[1] \in Buckets /\ ~(d[2] <= Len(program[d[1]]))
      BY <1>2, <3>1, <3>2 DEF Place
    <3>4. QED
      BY <1>5, <1>6, <3>2, <3>3
  <2>4. QED
    BY <1>1, <1>3, <2>1, <2>2, <2>3 DEF OnceInv
<1>10. QED
  BY <1>7, <1>8, <1>9 DEF Inv

-----------------------------------------------------------------------------
(* The theorems                                                            *)

LEMMA InputIs ==
  ASSUME NEW in \in Input
  PROVE  in[1] \in Buckets /\ in[2] \in Seq(Item \cup Stmt)
<1>1. \A S : S \subseteq Item \cup Stmt =>
        \A s \in UNION {[1..n -> S] : n \in 1..MaxTurn} : s \in Seq(Item \cup Stmt)
  <2>1. ASSUME NEW S, S \subseteq Item \cup Stmt, NEW n \in 1..MaxTurn, NEW s \in [1..n -> S]
        PROVE  s \in Seq(Item \cup Stmt)
    <3>1. n \in Nat /\ (\A i \in 1..n : s[i] \in Item \cup Stmt) /\ s = [i \in 1..n |-> s[i]]
      BY <2>1 DEF ReplAssumption
    <3>2. [i \in 1..n |-> s[i]] \in Seq(Item \cup Stmt)
      BY <3>1, IsASeq
    <3>3. QED
      BY <3>1, <3>2
  <2>2. QED
    BY <2>1
<1>2. CASE in \in {<<"top", s>> : s \in UNION {[1 .. n -> Item] : n \in 1 .. MaxTurn}}
  BY <1>1, <1>2 DEF Buckets
<1>3. CASE in \in {<<"main", s>> : s \in UNION {[1 .. n -> Stmt] : n \in 1 .. MaxTurn}}
  BY <1>1, <1>3 DEF Buckets
<1>4. QED
  BY <1>2, <1>3 DEF Input

LEMMA StepInv == ASSUME Inv, [Next]_vars  PROVE Inv'
<1>1. CASE UNCHANGED vars
  <2>1. /\ phase \in {"prompt", "sliced", "running", "ran", "returned", "left", "dead"}
        /\ alarm \in {"off", "armed", "gone off"} /\ ok \in BOOLEAN /\ initialized \in BOOLEAN
        /\ namespace \in [Name -> Values]
    BY DEF Inv, TypeOK
  <2>2. (InTurn' <=> InTurn) /\ (Done' <=> Done) /\ Values' = Values
    BY <1>1 DEF vars, InTurn, Done, Values
  <2>3. QED
    BY <1>1, <2>1, <2>2, FrameStep DEF vars
<1>2. ASSUME NEW in \in Input, Enter(in[1], in[2])  PROVE Inv'
  BY <1>2, InputIs, EnterStep
<1>3. CASE Begin
  BY <1>3, BeginStep
<1>4. CASE Completes
  BY <1>4, CompletesStep
<1>5. CASE Finishes \/ LeavesEarly
  BY <1>5, EndsStep
<1>6. CASE Raises \/ AlarmGoesOff \/ Interrupt \/ Disarm \/ Exit
  BY <1>6, BreakStep
<1>7. CASE Commit
  BY <1>7, CommitStep
<1>8. CASE Forget
  BY <1>8, ForgetStep
<1>9. CASE Reset
  BY <1>9, ResetStep
<1>10. QED
  BY <1>1, <1>2, <1>3, <1>4, <1>5, <1>6, <1>7, <1>8, <1>9 DEF Next

\* The invariant holds at every step of every session.
THEOREM Invariance == Spec => []Inv
<1>1. Init => Inv
  BY InitInv
<1>2. Inv /\ [Next]_vars => Inv'
  BY StepInv
<1>3. QED
  BY <1>1, <1>2, PTL DEF Spec

\* Types, the namespace among them, and the counts of executed pieces, which
\* agree with the program in every state (serve, _run_turn).
THEOREM TypeCorrect == Spec => []TypeOK
<1>1. Inv => TypeOK
  BY DEF Inv
<1>2. QED
  BY <1>1, Invariance, PTL

\* Between turns every piece of the program has run exactly once, except what
\* an early end of its own turn cut, whatever was broken off, failed, was
\* refused or entered again (serve, _run_turn).
THEOREM EveryPieceOnce == Spec => []RunOnce
<1>1. Inv => RunOnce
  BY DEF Inv, OnceInv, RunOnce
<1>2. QED
  BY <1>1, Invariance, PTL

===============================================================================
