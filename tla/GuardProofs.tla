------------------------------ MODULE GuardProofs ------------------------------
(***************************************************************************)
(* Proofs about the guards of privileged operations: of FsGuard, for every *)
(* set of places and prefixes and every sequence of swaps, and of NetFetch,*)
(* for every set of hosts, every capability, budget, ceiling and number of *)
(* redirects, and every behaviour of the servers.  The two have no state   *)
(* in common.                                                              *)
(***************************************************************************)
EXTENDS FsGuard, NetFetch, TLAPS

USE PlaceAssumption DEF FileOps, DbOps, Queries, Operation, Creates

\* What an open leaves: an error, or a handle where the path leads.
LEMMA BindCases ==
  ASSUME Bind
  PROVE  \/ Fail
         \/ /\ fd' = place /\ pc' = "verify"
            /\ moved' = IF platform.reports THEN FALSE ELSE moved
            /\ UNCHANGED <<place, linked, op, restricted, platform, result, reached>>
            /\ \/ UNCHANGED content
               \/ content' = [content EXCEPT ![place] = "empty"]
BY DEF Bind, world, call

LEMMA TypeStep == ASSUME TypeOK, [Next]_vars  PROVE TypeOK'
<1> USE DEF TypeOK, world, call
<1>1. ASSUME NEW o \in Operation, NEW r \in BOOLEAN, Begin(o, r)  PROVE TypeOK'
  BY <1>1 DEF Begin
<1>2. CASE Allows
  <2>1. AfterAllows \in {"act", "open", "plain", "connect"}
    BY <1>2 DEF AfterAllows
  <2>2. moved' \in BOOLEAN
    BY <1>2 DEF Allows
  <2>3. QED
    BY <1>2, <2>1, <2>2 DEF Allows, Answer
<1>3. ASSUME Bind, pc \in {"open", "reopen"}  PROVE TypeOK'
  <2>1. CASE Fail
    BY <2>1 DEF Fail, Answer
  <2>2. CASE ~Fail
    <3>1. content' \in [Place -> {"absent", "old", "empty", "new"}]
      BY <1>3, <2>2, BindCases
    <3>2. /\ fd' = place /\ pc' = "verify"
          /\ moved' = IF platform.reports THEN FALSE ELSE moved
          /\ UNCHANGED <<place, linked, op, restricted, platform, result, reached>>
      BY <2>2, <1>3, BindCases
    <3>3. moved' \in BOOLEAN
      BY <3>2
    <3>4. QED
      BY <1>3, <3>1, <3>2, <3>3
  <2>3. QED
    BY <2>1, <2>2
<1>4. CASE OpenStrict
  BY <1>3, <1>4 DEF OpenStrict
<1>5. CASE Reopen
  BY <1>3, <1>5 DEF Reopen
<1>6. CASE Verify
  BY <1>6 DEF Verify, Passed, Answer
<1>7. CASE Truncate
  BY <1>7 DEF Truncate, Fail, Answer
<1>8. CASE Plain
  BY <1>8 DEF Plain, Fail, Answer
<1>9. CASE Connect
  BY <1>9 DEF Connect, Fail, Answer
<1>10. CASE Use
  BY <1>10 DEF Use, Fail, Answer
<1>11. CASE Act
  BY <1>11 DEF Act, Fail, Answer
<1>12. ASSUME NEW p \in Place, NEW l \in BOOLEAN, Swap(p, l)  PROVE TypeOK'
  BY <1>12 DEF Swap
<1>13. CASE UNCHANGED vars
  BY <1>13 DEF vars
<1>14. QED
  BY <1>1, <1>2, <1>4, <1>5, <1>6, <1>7, <1>8, <1>9, <1>10, <1>11, <1>12, <1>13
     DEF Next, Step

\* Every way out of an operation closes the file it opened.
THEOREM TypeCorrect == Spec => []TypeOK
<1>1. Init => TypeOK
  BY DEF Init, TypeOK
<1>2. QED
  BY <1>1, TypeStep, PTL DEF Spec

-----------------------------------------------------------------------------
(* read and write *)

\* Past the verification the handle itself is inside, so it no longer matters
\* where the path leads.
HandleIsInside ==
  platform.reports /\ restricted /\ op \in FileOps =>
    /\ pc \in {"idle", "allows", "open", "reopen", "verify", "truncate", "use"}
    /\ pc \in {"truncate", "use"} => fd \in Inside

LEMMA ConfinedStep ==
  ASSUME TypeOK, HandleIsInside, FileOpsConfined, [Next]_vars
  PROVE  HandleIsInside' /\ FileOpsConfined'
<1> USE DEF HandleIsInside, FileOpsConfined, world, call
<1> DEFINE Goal == HandleIsInside' /\ FileOpsConfined'
<1>1. ASSUME NEW o \in Operation, NEW r \in BOOLEAN, Begin(o, r)  PROVE Goal
  BY <1>1 DEF Begin
<1>2. CASE Allows
  BY <1>2 DEF Allows, AfterAllows, Answer
<1>3. ASSUME Bind  PROVE Goal
  <2>1. CASE Fail
    BY <2>1 DEF Fail, Answer
  <2>2. CASE ~Fail
    <3>1. pc' = "verify" /\ UNCHANGED <<op, restricted, platform, reached>>
      BY <1>3, <2>2, BindCases
    <3>2. QED
      BY <3>1
  <2>3. QED
    BY <2>1, <2>2
<1>4. CASE OpenStrict
  BY <1>3, <1>4 DEF OpenStrict
<1>5. CASE Reopen
  BY <1>3, <1>5 DEF Reopen
<1>6. CASE Verify
  BY <1>6 DEF Verify, HandleAdmitted, Passed, Answer
<1>7. CASE Truncate
  BY <1>7 DEF Truncate, Fail, Answer
<1>8. CASE Plain
  BY <1>8 DEF Plain, Fail, Answer
<1>9. CASE Connect
  BY <1>9 DEF Connect, Fail, Answer
<1>10. CASE Use
  BY <1>10 DEF Use, Fail, Answer
<1>11. CASE Act
  BY <1>11 DEF Act, Fail, Answer
<1>12. ASSUME NEW p \in Place, NEW l \in BOOLEAN, Swap(p, l)  PROVE Goal
  BY <1>12 DEF Swap
<1>13. CASE UNCHANGED vars
  BY <1>13 DEF vars
<1>14. QED
  BY <1>1, <1>2, <1>4, <1>5, <1>6, <1>7, <1>8, <1>9, <1>10, <1>11, <1>12, <1>13
     DEF Next, Step

\* Where the system reports the path of a handle, read and write of a
\* restricted Fs stay inside the prefixes under every sequence of swaps.
THEOREM FileOpsStayInside == Spec => []FileOpsConfined
<1>1. Init => HandleIsInside /\ FileOpsConfined
  BY DEF Init, HandleIsInside, FileOpsConfined
<1>2. TypeOK /\ (HandleIsInside /\ FileOpsConfined) /\ [Next]_vars
        => (HandleIsInside /\ FileOpsConfined)'
  BY ConfinedStep
<1>3. QED
  BY TypeCorrect, <1>1, <1>2, PTL DEF Spec

-----------------------------------------------------------------------------
(* The window *)

\* Without a swap since the check, the path still leads to the place that was
\* found inside, and a handle is bound to it.
CheckedPlace ==
  /\ pc \in {"allows", "open", "reopen", "verify", "plain", "connect", "act"} => reached = {}
  /\ restricted /\ ~moved =>
    /\ pc \in {"open", "reopen", "plain", "connect", "act"} => place \in Inside
    /\ pc = "verify" => fd = place /\ (platform.reports \/ fd \in Inside)
    /\ pc \in {"truncate", "use"} => fd \in Inside

LEMMA WindowStep ==
  ASSUME TypeOK, CheckedPlace, NoEscapeWithoutSwap, [Next]_vars
  PROVE  CheckedPlace' /\ NoEscapeWithoutSwap'
<1> USE DEF CheckedPlace, NoEscapeWithoutSwap, world, call
<1> DEFINE Goal == CheckedPlace' /\ NoEscapeWithoutSwap'
<1>1. ASSUME NEW o \in Operation, NEW r \in BOOLEAN, Begin(o, r)  PROVE Goal
  BY <1>1 DEF Begin
<1>2. CASE Allows
  BY <1>2 DEF Allows, AfterAllows, Answer, TypeOK
<1>3. ASSUME Bind, pc \in {"open", "reopen"}  PROVE Goal
  <2>1. CASE Fail
    BY <2>1 DEF Fail, Answer
  <2>2. CASE ~Fail
    <3>1. /\ fd' = place /\ pc' = "verify"
          /\ moved' = IF platform.reports THEN FALSE ELSE moved
          /\ UNCHANGED <<place, restricted, platform, reached>>
      BY <1>3, <2>2, BindCases
    <3>2. CASE platform.reports
      BY <1>3, <3>1, <3>2
    <3>3. CASE ~platform.reports
      BY <1>3, <3>1, <3>3
    <3>4. QED
      BY <3>2, <3>3
  <2>3. QED
    BY <2>1, <2>2
<1>4. CASE OpenStrict
  BY <1>3, <1>4 DEF OpenStrict
<1>5. CASE Reopen
  BY <1>3, <1>5 DEF Reopen
<1>6. CASE Verify
  BY <1>6 DEF Verify, HandleAdmitted, Passed, Answer, TypeOK
<1>7. CASE Truncate
  BY <1>7 DEF Truncate, Fail, Answer
<1>8. CASE Plain
  BY <1>8 DEF Plain, Fail, Answer
<1>9. CASE Connect
  BY <1>9 DEF Connect, Fail, Answer
<1>10. CASE Use
  BY <1>10 DEF Use, Fail, Answer
<1>11. CASE Act
  BY <1>11 DEF Act, Fail, Answer
<1>12. ASSUME NEW p \in Place, NEW l \in BOOLEAN, Swap(p, l)  PROVE Goal
  BY <1>12 DEF Swap, TypeOK
<1>13. CASE UNCHANGED vars
  BY <1>13 DEF vars
<1>14. QED
  BY <1>1, <1>2, <1>4, <1>5, <1>6, <1>7, <1>8, <1>9, <1>10, <1>11, <1>12, <1>13
     DEF Next, Step

\* No operation on any platform escapes the prefixes unless the path is
\* swapped after the resolution that was checked.
THEOREM WindowIsBounded == Spec => []NoEscapeWithoutSwap
<1>1. Init => CheckedPlace /\ NoEscapeWithoutSwap
  BY DEF Init, CheckedPlace, NoEscapeWithoutSwap
<1>2. TypeOK /\ (CheckedPlace /\ NoEscapeWithoutSwap) /\ [Next]_vars
        => (CheckedPlace /\ NoEscapeWithoutSwap)'
  BY WindowStep
<1>3. QED
  BY TypeCorrect, <1>1, <1>2, PTL DEF Spec

-----------------------------------------------------------------------------
(* How long an operation goes on                                           *)

\* The most steps an operation has left; the retry without O_NOFOLLOW is one.
StepsLeft ==
  CASE pc = "idle" -> 0
    [] pc \in {"use", "act"} -> 1
    [] pc \in {"truncate", "plain", "connect"} -> 2
    [] pc = "verify" -> 3
    [] pc = "reopen" -> 4
    [] pc = "open" -> 5
    [] pc = "allows" -> 6

RunsDown ==
  /\ pc # "idle" => StepsLeft' <= StepsLeft
  /\ Step => StepsLeft' < StepsLeft

LEMMA RunsDownStep == ASSUME TypeOK, [Next]_vars  PROVE RunsDown
<1>0. pc \in {"idle", "allows", "open", "reopen", "verify", "truncate", "plain",
              "connect", "use", "act"} /\ op \in Operation
  BY DEF TypeOK
<1>1. ASSUME Step
      PROVE  pc # "idle" /\ StepsLeft \in Nat /\ StepsLeft' \in Nat /\ StepsLeft' < StepsLeft
  <2> USE DEF StepsLeft
  <2> DEFINE Goal ==
        pc # "idle" /\ StepsLeft \in Nat /\ StepsLeft' \in Nat /\ StepsLeft' < StepsLeft
  <2> SUFFICES Goal
    OBVIOUS
  <2>1. ASSUME Bind, pc \in {"open", "reopen"}  PROVE Goal
    <3>1. pc' \in {"idle", "verify"}
      BY <2>1 DEF Bind, Fail, Answer
    <3>2. QED
      BY <2>1, <3>1
  <2>2. CASE Allows
    BY <2>2, <1>0 DEF Allows, AfterAllows, Answer
  <2>3. CASE OpenStrict
    <3>1. pc = "open" /\ (pc' = "reopen" \/ Bind)
      BY <2>3 DEF OpenStrict
    <3>2. CASE pc' = "reopen"
      BY <3>1, <3>2
    <3>3. CASE Bind
      <4> HIDE DEF Goal
      <4>1. QED
        BY <2>1, <3>1, <3>3
    <3>4. QED
      BY <3>1, <3>2, <3>3
  <2>4. CASE Reopen
    <3> HIDE DEF Goal
    <3>1. QED
      BY <2>1, <2>4 DEF Reopen
  <2>5. CASE Verify
    BY <2>5 DEF Verify, Passed, Answer
  <2>6. CASE Truncate \/ Plain \/ Connect
    BY <2>6 DEF Truncate, Plain, Connect, Fail, Answer
  <2>7. CASE Use \/ Act
    BY <2>7 DEF Use, Act, Fail, Answer
  <2> HIDE DEF Goal
  <2>8. QED
    BY <1>1, <2>2, <2>3, <2>4, <2>5, <2>6, <2>7 DEF Step
<1>2. ASSUME pc # "idle", ~Step  PROVE StepsLeft \in Nat /\ StepsLeft' = StepsLeft
  <2>1. pc' = pc
    BY <1>2 DEF Next, Begin, Swap, vars
  <2>2. QED
    BY <1>0, <2>1 DEF StepsLeft
<1>3. QED
  BY <1>1, <1>2 DEF RunsDown

\* Every step of an operation leaves it fewer steps, and nothing another
\* process does to the path gives it more (_open_fd retries once).  With the
\* fairness of FairSpec this is what makes operations end.
THEOREM OperationsRunDown == Spec => [][RunsDown]_vars
<1>1. TypeOK /\ [Next]_vars => [RunsDown]_vars
  BY RunsDownStep
<1>2. QED
  BY TypeCorrect, <1>1, PTL DEF Spec

-----------------------------------------------------------------------------
(* The fetch.                                                              *)

HIDE PlaceAssumption DEF FileOps, DbOps, Queries, Operation, Creates

USE NetAssumption DEF Active, Expired, Remaining, Greater

\* Permitted before it is contacted: the capability is asked about the target
\* of a redirect while the present hop is still the one in contacted, and
\* cannot be narrowed before the target joins it.
GateInv == HopsArePermitted /\ (phase = "drain" => Permits(target))

\* The timeout armed for a read of a body never reaches beyond the budget, as
\* long as the read is one operation of the socket.
TimeInv == phase \in {"drain", "body"} /\ ~chunked => clock + armed <= Budget + spent

FetchInv == FetchTypeOK /\ GateInv /\ TimeInv

LEMMA RemainingBounds ==
  ASSUME FetchTypeOK
  PROVE  /\ Remaining \in 1..Budget
         /\ ~Expired => clock + Remaining <= Budget
BY DEF FetchTypeOK

LEMMA FreshRead ==
  ASSUME NEW c \in Nat, NEW a \in Nat, NEW s, s = 0, c + a <= Budget
  PROVE  c + a <= Budget + s
OBVIOUS

-----------------------------------------------------------------------------
(* The two ways a step leaves the invariant: the call ends, or a body is   *)
(* read on with what is left of the budget.                                *)

LEMMA EndStep ==
  ASSUME FetchInv, NEW r \in Results, NEW left \in BOOLEAN, End(r, left)
  PROVE  FetchInv'
<1>1. /\ explicit' \in BOOLEAN /\ open' \in BOOLEAN /\ chunked' = FALSE
      /\ ~(phase' = "drain") /\ target' = None /\ phase' = "idle" /\ at' = None
  BY DEF End, FetchInv, FetchTypeOK
<1>2. FetchTypeOK'
  <2>1. /\ armed' = 0 /\ spent' = 0 /\ next' = 0 /\ got' = 0 /\ ret' = r
        /\ UNCHANGED <<allowed, hops, clock, contacted>>
    BY DEF End
  <2>2. (phase' = "drain") = (target' # None) /\ (phase' # "idle") = (at' # None)
    BY <1>1
  <2>3. /\ explicit' \in BOOLEAN /\ open' \in BOOLEAN /\ chunked' \in BOOLEAN
        /\ chunked' => phase' \in {"drain", "body"}
    BY <1>1
  <2>4. /\ allowed' \subseteq Host /\ contacted' \subseteq Url
        /\ hops' \in 0..MaxHops /\ clock' \in 0..MaxClock
    BY <2>1 DEF FetchInv, FetchTypeOK
  <2>5. /\ armed' \in 0..Budget /\ next' \in 0..Budget /\ spent' \in 0..armed'
        /\ got' \in 0..Ceiling /\ ret' \in Results \cup {None}
    BY <2>1
  <2>6. QED
    BY <1>1, <2>2, <2>3, <2>4, <2>5 DEF FetchTypeOK
<1>3. GateInv' /\ TimeInv'
  BY <1>1 DEF GateInv, HopsArePermitted, TimeInv
<1>4. QED
  BY <1>2, <1>3 DEF FetchInv

LEMMA TroubleStep == ASSUME FetchInv, Trouble  PROVE FetchInv'
BY EndStep DEF Trouble, Results

LEMMA ReadStep ==
  ASSUME FetchInv, phase # "idle", ~Expired, Arm, phase' \in {"drain", "body"},
         target' \in Url \cup {None}, (phase' = "drain") = (target' # None),
         phase' = "drain" => Permits(target'),
         got' \in 0..Ceiling, next' \in 0..Budget,
         open' \in BOOLEAN, chunked' \in BOOLEAN,
         UNCHANGED <<allowed, explicit, at, hops, clock, contacted, ret>>
  PROVE  FetchInv'
<1>1. armed' \in 1..Budget /\ spent' = 0 /\ clock + armed' <= Budget
  BY RemainingBounds DEF FetchInv, Arm
<1>2. FetchTypeOK'
  BY <1>1 DEF FetchInv, FetchTypeOK
<1> HIDE DEF Expired, Remaining, Greater
<1>3. GateInv'
  BY DEF FetchInv, GateInv, HopsArePermitted, Permits
<1>4. TimeInv'
  <2>1. clock' = clock /\ hops' = hops /\ clock \in Nat
    BY DEF FetchInv, FetchTypeOK
  <2>2. armed' \in Nat
    BY <1>1
  <2>3. QED
    BY <1>1, <2>1, <2>2, FreshRead DEF TimeInv
<1>5. QED
  BY <1>2, <1>3, <1>4 DEF FetchInv

-----------------------------------------------------------------------------
(* Every step.                                                             *)

LEMMA FetchInitInv == ASSUME FetchInit  PROVE FetchInv
<1>1. /\ explicit \in BOOLEAN /\ open \in BOOLEAN /\ chunked \in BOOLEAN
      /\ chunked => phase \in {"drain", "body"}
  BY DEF FetchInit
<1>2. (phase = "drain") = (target # None) /\ (phase # "idle") = (at # None)
  BY DEF FetchInit
<1>3. FetchTypeOK
  BY <1>1, <1>2 DEF FetchInit, FetchTypeOK
<1>4. GateInv /\ TimeInv
  BY DEF FetchInit, GateInv, HopsArePermitted, TimeInv
<1>5. QED
  BY <1>3, <1>4 DEF FetchInv

LEMMA FetchInvStep == ASSUME FetchInv, [FetchNext]_fetch  PROVE FetchInv'
<1> USE DEF FetchInv
<1>1. ASSUME NEW h \in Host, RestrictTo(h)  PROVE FetchInv'
  BY <1>1 DEF RestrictTo, FetchTypeOK, GateInv, HopsArePermitted, TimeInv
<1>2. ASSUME NEW u \in Url, NEW x \in BOOLEAN, Call(u, x)  PROVE FetchInv'
  <2>1. FetchTypeOK'
    <3>1. explicit' \in BOOLEAN /\ open' \in BOOLEAN
      BY <1>2 DEF Call
    <3>2. /\ at' \in Url \cup {None} /\ target' = None /\ contacted' \subseteq Url
          /\ phase' \in {"idle", "headers"} /\ (phase' # "idle") = (at' # None)
      BY <1>2 DEF Call
    <3>3. ret' \in Results \cup {None}
      BY <1>2 DEF Call, Results
    <3>4. armed' \in 0..Budget /\ next' \in 0..Budget /\ spent' \in 0..armed'
      BY <1>2 DEF Call
    <3>5. QED
      BY <1>2, <3>1, <3>2, <3>3, <3>4 DEF Call, FetchTypeOK
  <2>2. GateInv'
    BY <1>2 DEF Call, FetchTypeOK, GateInv, HopsArePermitted, Permits
  <2>3. TimeInv'
    BY <1>2 DEF Call, FetchTypeOK, TimeInv
  <2>4. QED
    BY <2>1, <2>2, <2>3
<1>3. ASSUME NEW u \in Url, Redirect(u)  PROVE FetchInv'
  <2>1. CASE \E r \in Results, left \in BOOLEAN : End(r, left)
    BY <2>1, EndStep
  <2>2. CASE Permits(u) /\ ~Expired
    <3>1. /\ phase = "headers" /\ phase' = "drain" /\ target' = u /\ next' = Remaining
          /\ Begins /\ UNCHANGED <<allowed, explicit, at, hops, clock, contacted, ret>>
      BY <1>3, <2>2 DEF Redirect
    <3>2. /\ got' \in 0..Ceiling /\ next' \in 0..Budget
          /\ open' \in BOOLEAN /\ chunked' \in BOOLEAN
      BY <3>1, RemainingBounds DEF Begins
    <3>3. Permits(target') /\ target' # None
      BY <2>2, <3>1
    <3>4. QED
      BY <2>2, <3>1, <3>2, <3>3, ReadStep DEF Begins
  <2>3. QED
    BY <1>3, <2>1, <2>2 DEF Redirect, Results
<1>4. CASE Tick
  BY <1>4 DEF Tick, FetchTypeOK, GateInv, HopsArePermitted, Permits, TimeInv
<1>5. CASE Dribble
  BY <1>5 DEF Dribble, FetchTypeOK, GateInv, HopsArePermitted, Permits, TimeInv
<1>6. CASE Fails
  BY <1>6, TroubleStep, EndStep DEF Fails, Results
<1>7. CASE Final
  <2>1. CASE Expired
    BY <1>7, <2>1, EndStep DEF Final, Results
  <2>2. CASE ~Expired
    <3>1. /\ phase = "headers" /\ phase' = "body" /\ Begins
          /\ UNCHANGED <<allowed, explicit, at, target, hops, clock, next, contacted, ret>>
      BY <1>7, <2>2 DEF Final
    <3>2. /\ target = None /\ got' \in 0..Ceiling /\ next' \in 0..Budget
          /\ open' \in BOOLEAN /\ chunked' \in BOOLEAN
      BY <3>1 DEF FetchTypeOK, Begins
    <3>3. QED
      BY <2>2, <3>1, <3>2, ReadStep DEF Begins
  <2>3. QED
    BY <2>1, <2>2
<1>8. CASE NextHop
  <2>1. CASE Trouble
    BY <2>1, TroubleStep
  <2>2. CASE ~Trouble
    <3>1. /\ phase = "drain" /\ hops < MaxHops /\ phase' = "headers"
          /\ at' = target /\ contacted' = contacted \cup {target} /\ target' = None
          /\ hops' = hops + 1 /\ armed' = next /\ spent' = 0 /\ got' = 0
          /\ chunked' = FALSE /\ open' = FALSE
          /\ UNCHANGED <<allowed, explicit, clock, next, ret>>
      BY <1>8, <2>2 DEF NextHop
    <3>2. target \in Url
      BY <3>1 DEF FetchTypeOK
    <3>3. FetchTypeOK'
      <4>1. /\ explicit' \in BOOLEAN /\ open' \in BOOLEAN /\ chunked' \in BOOLEAN
            /\ chunked' => phase' \in {"drain", "body"}
        BY <3>1 DEF FetchTypeOK
      <4>2. (phase' = "drain") = (target' # None) /\ (phase' # "idle") = (at' # None)
        BY <3>1, <3>2
      <4>3. QED
        BY <3>1, <3>2, <4>1, <4>2 DEF FetchTypeOK
    <3>4. GateInv'
      BY <3>1, <3>2 DEF GateInv, HopsArePermitted, Permits
    <3>5. TimeInv'
      BY <3>1 DEF TimeInv
    <3>6. QED
      BY <3>3, <3>4, <3>5
  <2>3. QED
    BY <2>1, <2>2
<1>9. CASE Done
  BY <1>9, EndStep DEF Done, Results
<1>10. ASSUME NEW k \in 1..(Ceiling + 1), Chunk(k)  PROVE FetchInv'
  <2>1. CASE \E r \in Results, left \in BOOLEAN : End(r, left)
    BY <2>1, EndStep
  <2>2. CASE got + k <= Ceiling /\ ~Expired
    <3>1. got \in Nat /\ Ceiling \in Nat /\ ~(got + k > Ceiling)
      BY <2>2 DEF FetchTypeOK
    <3>2. /\ phase \in {"drain", "body"} /\ got' = got + k /\ Arm
          /\ UNCHANGED <<allowed, explicit, phase, at, target, hops, clock, next, chunked,
                         open, contacted, ret>>
      BY <1>10, <2>2, <3>1 DEF Chunk
    <3>3. /\ got' \in 0..Ceiling /\ next' \in 0..Budget
          /\ open' \in BOOLEAN /\ chunked' \in BOOLEAN
      BY <2>2, <3>1, <3>2 DEF FetchTypeOK
    <3>4. /\ target' \in Url \cup {None} /\ (phase' = "drain") = (target' # None)
          /\ phase' = "drain" => Permits(target')
      BY <3>2 DEF FetchTypeOK, GateInv, Permits
    <3>5. QED
      BY <2>2, <3>2, <3>3, <3>4, ReadStep
  <2>3. QED
    BY <1>10, <2>1, <2>2 DEF Chunk, OverCap, Results
<1>11. CASE UNCHANGED fetch
  BY <1>11 DEF fetch, FetchTypeOK, GateInv, HopsArePermitted, Permits, TimeInv
<1>12. QED
  BY <1>1, <1>2, <1>3, <1>4, <1>5, <1>6, <1>7, <1>8, <1>9, <1>10, <1>11 DEF FetchNext

\* Only time moves the clock, and only a read before the deadline adds to the
\* body.
LEMMA BoundedStep ==
  ASSUME FetchInv, [FetchNext]_fetch, phase \in {"drain", "body"}
  PROVE  /\ ~chunked /\ clock' > clock => clock' <= Budget
         /\ got' > got => ~Expired
         /\ ret' = "ok" => got <= Ceiling
<1>1. got <= Ceiling
  BY DEF FetchInv, FetchTypeOK
<1>2. CASE Tick
  <2>1. clock' = clock + 1 /\ spent + 1 <= armed /\ got' = got
    BY <1>2 DEF Tick, FetchInv, FetchTypeOK
  <2>2. QED
    BY <1>1, <2>1 DEF FetchInv, FetchTypeOK, TimeInv
<1>3. CASE ~Tick
  <2>1. clock' = clock
    BY <1>3 DEF FetchNext, fetch, RestrictTo, Call, Redirect, Dribble, Fails, Final, NextHop,
                Done, Chunk, OverCap, Trouble, End
  <2>2. ASSUME NEW k \in 1..(Ceiling + 1), Chunk(k)  PROVE ~Expired \/ got' = 0
    BY <2>2 DEF Chunk, OverCap, End
  <2>3. ASSUME \A k \in 1..(Ceiling + 1) : ~Chunk(k)  PROVE got' = got \/ got' = 0
    <3> HIDE DEF Expired, Remaining, Greater
    <3>1. QED
      BY <1>3, <2>3 DEF FetchNext, fetch, RestrictTo, Call, Redirect, Dribble, Fails, Final,
                        Begins, NextHop, Done, Trouble, End
  <2>4. got \in Nat /\ clock \in Nat
    BY DEF FetchInv, FetchTypeOK
  <2>5. got' > got => ~Expired
    BY <2>2, <2>3, <2>4
  <2>6. ~(clock' > clock)
    BY <2>1, <2>4
  <2>7. QED
    BY <1>1, <2>5, <2>6
<1>4. QED
  BY <1>2, <1>3

-----------------------------------------------------------------------------
(* The theorems about the fetch.                                           *)

\* What a hop, a body and a deadline are in the middle of a call.
THEOREM FetchInvariance == FetchSpec => []FetchInv
<1>1. FetchInit => FetchInv
  BY FetchInitInv
<1>2. FetchInv /\ [FetchNext]_fetch => FetchInv'
  BY FetchInvStep
<1>3. QED
  BY <1>1, <1>2, PTL DEF FetchSpec

\* A timeout is never longer than the budget, a body never over the ceiling,
\* and a call contacts a URL as long as it lasts.
THEOREM FetchTypeCorrect == FetchSpec => []FetchTypeOK
BY FetchInvariance, PTL DEF FetchInv

\* However a call of Net.get is redirected, it contacts only what its
\* capability permits: _redirect_handler asks before the next hop is opened.
THEOREM HopsPermitted == FetchSpec => []HopsArePermitted
BY FetchInvariance, PTL DEF FetchInv, GateInv

\* _read_body_capped reads no more than the ceiling and keeps no byte that
\* comes past the deadline; and in a body that one recv of the socket reads,
\* one that is not chunked, no time passes beyond the deadline at all.
THEOREM BodiesBounded == FetchSpec => BodiesAreBounded
<1>1. FetchInv /\ [FetchNext]_fetch =>
        [(phase \in {"drain", "body"}) =>
           /\ ~chunked /\ clock' > clock => clock' <= Budget
           /\ got' > got => ~Expired
           /\ ret' = "ok" => got <= Ceiling]_fetch
  BY BoundedStep
<1>2. QED
  BY <1>1, FetchInvariance, PTL DEF FetchSpec, BodiesAreBounded

=============================================================================
