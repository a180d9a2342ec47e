--------------------------- MODULE CapHandlesProofs ---------------------------
(***************************************************************************)
(* Proofs about CapHandles: the invariants its runs check, for every set   *)
(* of targets, rules, artifacts and bounds.                                *)
(***************************************************************************)
EXTENDS CapHandles, FiniteSetTheorems, TLAPS

USE BoundAssumption DEF HostCaps, HandleBearing, AllowListed

-----------------------------------------------------------------------------
(* restrict_to *)

LEMMA RulesAreStored ==
  ASSUME NEW k \in AllowListed \cup {"fs"}  PROVE  Rule[k] \subseteq StoredRules
BY DEF StoredRules

\* Every restrict_to returns a capability of the same kind that permits
\* nothing its receiver refuses.
LEMMA NarrowNarrows ==
  ASSUME NEW c \in Cap, c.kind \in HandleBearing, NEW A \in RuleArgs(c.kind)
  PROVE  /\ Narrow(c, A) \in Cap
         /\ Narrow(c, A).kind = c.kind
         /\ Authority(Narrow(c, A)) \subseteq Authority(c)
<1>1. CASE c.kind = "fs"
  <2>1. Narrow(c, A) = Limited(c, c.rules \cup A, c.after)
    BY <1>1 DEF Narrow, NarrowFs
  <2>2. A \subseteq StoredRules
    BY <1>1, RulesAreStored DEF RuleArgs
  <2>3. Narrow(c, A) \in Cap /\ Narrow(c, A).kind = "fs" /\ c.rules \subseteq Narrow(c, A).rules
        /\ Narrow(c, A).limited
    BY <1>1, <2>1, <2>2 DEF Cap, Limited
  <2>4. QED
    BY <1>1, <2>3 DEF Authority
<1>2. CASE c.kind = "clock"
  <2>1. PICK r \in Rule["clock"] : A = {r}
    BY <1>2 DEF RuleArgs
  <2>2. r \in Int /\ (CHOOSE t \in A : TRUE) = r
    BY <2>1, RuleAssumption
  <2>3. Narrow(c, A) = NarrowClock(c, r)
    BY <1>2, <2>2 DEF Narrow
  <2>4. /\ Narrow(c, A) \in Cap
        /\ Narrow(c, A).kind = "clock"
        /\ Narrow(c, A).limited
        /\ c.limited => Narrow(c, A).after >= c.after
    BY <1>2, <2>2, <2>3 DEF NarrowClock, Limited, LaterOf, Cap
  <2>5. c.after \in Int /\ Narrow(c, A).after \in Int
    BY <2>4 DEF Cap
  <2>6. Target["clock"] \subseteq Int
    BY TargetAssumption
  <2>7. QED
    BY <1>2, <2>4, <2>5, <2>6 DEF Authority
<1>3. CASE c.kind \in AllowListed
  <2>1. Narrow(c, A) = NarrowAllowList(c, A)
    BY <1>3 DEF Narrow
  <2>2. A \subseteq StoredRules
    BY <1>3, RulesAreStored DEF RuleArgs
  <2>3. /\ Narrow(c, A) \in Cap
        /\ Narrow(c, A).kind = c.kind
        /\ Narrow(c, A).limited
        /\ c.limited => Narrow(c, A).rules \subseteq c.rules
    BY <1>3, <2>1, <2>2 DEF NarrowAllowList, Limited, Cap
  <2>4. ASSUME NEW t \in Authority(Narrow(c, A))  PROVE t \in Authority(c)
    <3>1. /\ t \in Target[c.kind]
          /\ \E r \in Narrow(c, A).rules : t \in Reach[c.kind][r]
      BY <1>3, <2>3 DEF Authority
    <3>2. CASE c.limited
      BY <1>3, <2>3, <3>1, <3>2 DEF Authority
    <3>3. CASE ~c.limited
      BY <3>1, <3>3 DEF Authority
    <3>4. QED
      BY <3>2, <3>3
  <2>5. QED
    BY <2>3, <2>4
<1>4. QED
  BY <1>1, <1>2, <1>3

-----------------------------------------------------------------------------
(* bootstrap_root_handles *)

LEMMA HostCapsFinite == IsFiniteSet(HostCaps)
<1>1. IsFiniteSet({"fs"}) /\ IsFiniteSet({"net"}) /\ IsFiniteSet({"env"})
      /\ IsFiniteSet({"clock"}) /\ IsFiniteSet({"db"}) /\ IsFiniteSet({"proc"})
      /\ IsFiniteSet({"stdio"})
  BY FS_Singleton
<1>2. IsFiniteSet({"fs"} \cup {"net"})
  BY <1>1, FS_Union
<1>3. IsFiniteSet(({"fs"} \cup {"net"}) \cup {"env"})
  BY <1>1, <1>2, FS_Union
<1>4. IsFiniteSet({"clock"} \cup {"db"})
  BY <1>1, FS_Union
<1>5. IsFiniteSet({"proc"} \cup {"stdio"})
  BY <1>1, FS_Union
<1>6. IsFiniteSet(({"clock"} \cup {"db"}) \cup ({"proc"} \cup {"stdio"}))
  BY <1>4, <1>5, FS_Union
<1>7. HostCaps = (({"fs"} \cup {"net"}) \cup {"env"})
                 \cup (({"clock"} \cup {"db"}) \cup ({"proc"} \cup {"stdio"}))
  OBVIOUS
<1>8. QED
  BY <1>3, <1>6, <1>7, FS_Union

\* The numbers the bootstrap hands out are fresh and below the new counter.
LEMMA RootHandleFresh ==
  ASSUME NEW a, next \in Nat, NEW k \in Served(a)
  PROVE  /\ Cardinality(Served(a)) \in Nat
         /\ RootHandle(a, k) \in next..(next + Cardinality(Served(a)) - 1)
<1> DEFINE S == Served(a)
           L == {j \in S : RootRank[j] < RootRank[k]}
<1>1. S \subseteq HostCaps
  BY DEF Served
<1>2. IsFiniteSet(S) /\ Cardinality(S) \in Nat
  BY <1>1, HostCapsFinite, FS_Subset, FS_CardinalityType
<1>3. IsFiniteSet(S \ {k}) /\ Cardinality(S \ {k}) = Cardinality(S) - 1
  BY <1>2, FS_RemoveElement
<1>4. RootRank[k] \in Nat
  BY <1>1 DEF RootRank
<1>5. L \subseteq S \ {k}
  BY <1>4
<1>6. Cardinality(L) \in Nat /\ Cardinality(L) <= Cardinality(S) - 1
  BY <1>2, <1>3, <1>5, FS_Subset, FS_CardinalityType
<1>7. QED
  BY <1>2, <1>6 DEF RootHandle

\* What a bootstrap leaves in the table.
LEMMA BootstrapTable ==
  ASSUME TypeOK, NEW a, Usable(a), Bootstrap(a)
  PROVE  /\ next' \in next..(MaxHandles + 1)
         /\ DOMAIN entries' = DOMAIN entries \cup RootHandles(a)
         /\ DOMAIN origin' = DOMAIN entries'
         /\ \A h \in RootHandles(a) : h \in next..(next' - 1)
         /\ \A h \in DOMAIN entries : entries'[h] = entries[h] /\ origin'[h] = origin[h]
         /\ \A h \in RootHandles(a) : /\ entries'[h] = RootCap(ServedAt(a, h))
                                      /\ origin'[h] = [from |-> 0, by |-> {}]
                                      /\ ServedAt(a, h) \in Served(a)
<1>1. next \in Nat /\ DOMAIN entries \subseteq 1..(next - 1) /\ DOMAIN origin = DOMAIN entries
  BY DEF TypeOK
<1>2. \A k \in Served(a) : RootHandle(a, k) \in next..(next + Cardinality(Served(a)) - 1)
  BY <1>1, RootHandleFresh
<1>3. "stdio" \in Served(a)
  BY DEF Served
<1>4. Cardinality(Served(a)) \in Nat
  BY <1>1, <1>3, RootHandleFresh
<1>5. next' = next + Cardinality(Served(a)) /\ next' <= MaxHandles + 1
  BY DEF Bootstrap
<1>6. ASSUME NEW h \in RootHandles(a)  PROVE h \in next..(next' - 1)
  <2>1. PICK k \in Served(a) : h = RootHandle(a, k)
    BY DEF RootHandles
  <2>2. QED
    BY <1>1, <1>2, <1>4, <1>5, <2>1
<1>7. \A h \in RootHandles(a) : ServedAt(a, h) \in Served(a)
  BY DEF RootHandles, ServedAt
<1>8. \A h \in RootHandles(a) : h \notin DOMAIN entries
  BY <1>1, <1>6
<1>9. QED
  BY <1>1, <1>4, <1>5, <1>6, <1>7, <1>8 DEF Bootstrap

\* What an allocation leaves in the table.
LEMMA AllocTable ==
  ASSUME TypeOK, NEW c \in Cap, NEW h, NEW A, Alloc(c, h, A)
  PROVE  /\ next' \in 1..(MaxHandles + 1) /\ next' = next + 1 /\ next \in 1..MaxHandles
         /\ DOMAIN entries' = DOMAIN entries \cup {next}
         /\ DOMAIN origin' = DOMAIN entries'
         /\ next \notin DOMAIN entries
         /\ entries'[next] = c /\ origin'[next] = [from |-> h, by |-> A]
         /\ \A g \in DOMAIN entries : entries'[g] = entries[g] /\ origin'[g] = origin[g]
BY DEF TypeOK, Alloc, Put

-----------------------------------------------------------------------------
(* Types *)

LEMMA RootCapType == ASSUME NEW k \in HostCaps  PROVE RootCap(k) \in Cap
BY DEF RootCap, Cap

LEMMA NoFrameType == NoFrame \in Frame
BY DEF NoFrame, Frame

\* The conjuncts of TypeOK that only the table decides, and the others.
TableType ==
  /\ next \in 1..(MaxHandles + 1)
  /\ DOMAIN entries \subseteq 1..(next - 1)
  /\ entries \in [DOMAIN entries -> Cap]
  /\ DOMAIN origin = DOMAIN entries

GuestType ==
  /\ phase \in {"idle", "main", "child"}
  /\ runs \in 0..MaxRuns
  /\ declared \subseteq HandleBearing
  /\ depth \in 0..MaxDepth
  /\ frames \in [1..MaxDepth -> Frame]
  /\ DOMAIN child \subseteq HandleBearing
  /\ \A k \in DOMAIN child : child[k] \in Cap
  /\ DOMAIN childArgs = DOMAIN child
  /\ \A k \in DOMAIN childArgs : childArgs[k] \in 1..MaxHandles

EffectType ==
  effect # NoEffect => effect.kind \in HandleBearing /\ effect.target \in Target[effect.kind]

LEMMA TypeSplit == TypeOK <=> TableType /\ GuestType /\ EffectType
BY DEF TypeOK, TableType, GuestType, EffectType

LEMMA TableTypeStep ==
  ASSUME TypeOK, [Next]_vars  PROVE TableType'
<1> USE DEF TypeOK
<1>1. ASSUME NEW a \in Artifacts, RunMain(a)  PROVE TableType'
  <2>1. Usable(a) /\ Bootstrap(a)
    BY <1>1 DEF RunMain
  <2>2. /\ next' \in next..(MaxHandles + 1)
        /\ DOMAIN entries' = DOMAIN entries \cup RootHandles(a)
        /\ DOMAIN origin' = DOMAIN entries'
        /\ \A h \in RootHandles(a) : h \in next..(next' - 1)
        /\ \A h \in DOMAIN entries : entries'[h] = entries[h]
        /\ \A h \in RootHandles(a) : /\ entries'[h] = RootCap(ServedAt(a, h))
                                     /\ ServedAt(a, h) \in Served(a)
    BY <2>1, BootstrapTable
  <2>3. ASSUME NEW h \in RootHandles(a)  PROVE entries'[h] \in Cap
    <3>1. ServedAt(a, h) \in HostCaps
      BY <2>2 DEF Served
    <3>2. RootCap(ServedAt(a, h)) \in Cap
      BY <3>1, RootCapType
    <3>3. QED
      BY <2>2, <3>2
  <2>4. \A h \in DOMAIN entries' : entries'[h] \in Cap
    BY <2>2, <2>3
  <2>5. entries' = [h \in DOMAIN entries' |-> entries'[h]]
    BY <2>1 DEF Bootstrap
  <2>6. entries' \in [DOMAIN entries' -> Cap]
    BY <2>4, <2>5
  <2>7. DOMAIN entries' \subseteq 1..(next' - 1)
    BY <2>2
  <2>8. QED
    BY <2>2, <2>6, <2>7 DEF TableType
<1>2. ASSUME NEW k \in HandleBearing, NEW h, NEW A \in RuleArgs(k), RestrictTo(k, h, A)
      PROVE  TableType'
  <2>1. CASE Resolves(h, k) /\ Alloc(Narrow(entries[h], A), h, A)
    <3>1. Narrow(entries[h], A) \in Cap
      BY <2>1, NarrowNarrows DEF Resolves
    <3>2. /\ next' = next + 1 /\ next \in 1..MaxHandles
          /\ DOMAIN entries' = DOMAIN entries \cup {next}
          /\ DOMAIN origin' = DOMAIN entries'
          /\ entries'[next] = Narrow(entries[h], A)
          /\ \A g \in DOMAIN entries : entries'[g] = entries[g]
      BY <2>1, <3>1, AllocTable
    <3>3. \A g \in DOMAIN entries' : entries'[g] \in Cap
      BY <3>1, <3>2
    <3>4. entries' = [g \in DOMAIN entries' |-> entries'[g]]
      BY <2>1 DEF Alloc, Put
    <3>5. entries' \in [DOMAIN entries' -> Cap]
      BY <3>3, <3>4
    <3>6. QED
      BY <3>2, <3>5 DEF TableType
  <2>2. CASE UNCHANGED table
    BY <2>2 DEF table, TableType
  <2>3. QED
    BY <1>2, <2>1, <2>2 DEF RestrictTo
<1>3. CASE UNCHANGED table
  BY <1>3 DEF table, TableType
<1>4. QED
  BY <1>1, <1>2, <1>3 DEF Next, vars, table, Refuse, Finish, EndRun, Op, RequireReceiver,
       Call, Return, ForeignCall, ChildOp, ChildReturn

LEMMA MainArgsType ==
  ASSUME TypeOK, NEW a, Usable(a), Bootstrap(a)
  PROVE  /\ Kinds(a.binding) \subseteq Served(a)
         /\ MainArgs(a) \subseteq RootHandles(a)
         /\ MainArgs(a) \subseteq 0..MaxHandles
<1>1. Kinds(a.binding) \subseteq Served(a)
  BY DEF Usable, Served
<1>2. MainArgs(a) \subseteq RootHandles(a)
  BY <1>1 DEF MainArgs, RootHandles
<1>3. \A h \in RootHandles(a) : h \in next..(next' - 1)
      /\ next' \in next..(MaxHandles + 1)
  BY BootstrapTable
<1>4. next \in 1..(MaxHandles + 1)
  BY DEF TypeOK
<1>5. \A h \in RootHandles(a) : h \in 0..MaxHandles
  BY <1>3, <1>4
<1>6. QED
  BY <1>1, <1>2, <1>5

\* What the guest holds, and so what it can pass, is within the table's bound
\* or, when it forges, one past it.
LEMMA HeldType ==
  ASSUME TypeOK  PROVE Held \subseteq 0..MaxHandles
BY DEF TypeOK, Held, Frame

LEMMA NewFrame ==
  ASSUME TypeOK, NEW H \in SUBSET (0..MaxHandles)
  PROVE  [args |-> H, held |-> H] \in Frame
BY DEF Frame

LEMMA HoldType ==
  ASSUME TypeOK, NEW H \in SUBSET (0..MaxHandles), Hold(H)
  PROVE  frames' \in [1..MaxDepth -> Frame]
BY DEF TypeOK, Hold, Gaining, Frame

LEMMA EndRunType ==
  ASSUME TypeOK, EndRun  PROVE GuestType' /\ EffectType'
<1>1. NoChild \in [{} -> Cap]
  BY DEF NoChild
<1>2. QED
  BY <1>1, NoFrameType DEF TypeOK, EndRun, GuestType, EffectType, NoChild, NoArgs, Frame, table

LEMMA GuestTypeStep ==
  ASSUME TypeOK, [Next]_vars  PROVE GuestType'
<1> USE DEF TypeOK, GuestType
<1>1. ASSUME NEW a \in Artifacts, Refuse(a)  PROVE GuestType'
  BY <1>1 DEF Refuse, guest, nested
<1>2. ASSUME NEW a \in Artifacts, RunMain(a)  PROVE GuestType'
  <2>1. Usable(a) /\ Bootstrap(a)
    BY <1>2 DEF RunMain
  <2>2. MainArgs(a) \subseteq 0..MaxHandles
    BY <2>1, MainArgsType
  <2>3. [args |-> MainArgs(a), held |-> MainArgs(a)] \in Frame
    BY <2>2, NewFrame
  <2>4. frames' \in [1..MaxDepth -> Frame] /\ depth' \in 0..MaxDepth
    BY <1>2, <2>3 DEF RunMain
  <2>5. QED
    BY <1>2, <2>1, <2>4 DEF RunMain, Usable, nested
<1>3. CASE EndRun
  BY <1>3, EndRunType
<1>4. ASSUME NEW k \in HandleBearing, NEW h \in Names, NEW A \in RuleArgs(k), RestrictTo(k, h, A)
      PROVE  GuestType'
  <2>1. CASE Alloc(Narrow(entries[h], A), h, A) /\ Hold({next})
    <3>1. {next} \in SUBSET (0..MaxHandles)
      BY <2>1 DEF Alloc
    <3>2. frames' \in [1..MaxDepth -> Frame]
      BY <2>1, <3>1, HoldType
    <3>3. QED
      BY <1>4, <3>2 DEF RestrictTo, nested
  <2>2. CASE Hold({0})
    <3>1. {0} \in SUBSET (0..MaxHandles)
      OBVIOUS
    <3>2. frames' \in [1..MaxDepth -> Frame]
      BY <2>2, <3>1, HoldType
    <3>3. QED
      BY <1>4, <3>2 DEF RestrictTo, nested
  <2>3. QED
    BY <1>4, <2>1, <2>2 DEF RestrictTo
<1>5. ASSUME NEW k \in HandleBearing, NEW h \in Names, NEW t \in Target[k], Op(k, h, t)
      PROVE  GuestType'
  BY <1>5 DEF Op, guest, nested
<1>6. ASSUME NEW k \in HandleBearing, NEW h \in Names, RequireReceiver(k, h)
      PROVE  GuestType'
  BY <1>6, <1>3 DEF RequireReceiver, guest, nested
<1>7. ASSUME NEW H \in SUBSET Held, Call(H)  PROVE GuestType'
  <2>1. [args |-> H, held |-> H] \in Frame
    BY HeldType, NewFrame
  <2>2. QED
    BY <1>7, <2>1 DEF Call, nested
<1>8. ASSUME NEW H \in SUBSET Held, Return(H)  PROVE GuestType'
  <2>1. \A f \in Frame : Gaining(f, H) \in Frame
    BY HeldType DEF Gaining, Frame
  <2>2. depth \in 2..MaxDepth /\ depth' = depth - 1
    BY <1>8 DEF Return
  <2>3. Gaining(frames[depth - 1], H) \in Frame
    BY <2>1, <2>2
  <2>4. [frames EXCEPT ![depth] = NoFrame] \in [1..MaxDepth -> Frame]
    BY NoFrameType
  <2>5. frames' = [[frames EXCEPT ![depth] = NoFrame]
                     EXCEPT ![depth - 1] = Gaining(frames[depth - 1], H)]
    BY <1>8, <2>2 DEF Return
  <2>6. frames' \in [1..MaxDepth -> Frame]
    BY <2>3, <2>4, <2>5
  <2>7. UNCHANGED <<phase, runs, declared, child, childArgs>>
    BY <1>8 DEF Return, nested
  <2>8. QED
    BY <2>2, <2>6, <2>7
<1>9. ASSUME NEW K \in Signatures, NEW args \in [K -> Names], ForeignCall(K, args)
      PROVE  GuestType'
  <2>1. CASE EndRun
    BY <2>1, <1>3
  <2>2. CASE ~EndRun
    <3>1. \A k \in K : Resolves(args[k], k)
      BY <1>9, <2>2 DEF ForeignCall
    <3>2. \A k \in K : args[k] \in 1..MaxHandles /\ entries[args[k]] \in Cap
      BY <3>1 DEF Resolves
    <3>3. K \subseteq HandleBearing
      OBVIOUS
    <3>4. DOMAIN child' = K /\ \A k \in K : child'[k] = entries[args[k]]
      BY <1>9, <2>2 DEF ForeignCall
    <3>5. DOMAIN childArgs' = K /\ \A k \in K : childArgs'[k] \in 1..MaxHandles
      BY <1>9, <2>2, <3>2 DEF ForeignCall
    <3>6. QED
      BY <1>9, <2>2, <3>2, <3>3, <3>4, <3>5 DEF ForeignCall, guest
  <2>3. QED
    BY <2>1, <2>2
<1>10. ASSUME NEW k \in HandleBearing, NEW t \in Target[k], ChildOp(k, t)  PROVE GuestType'
  BY <1>10 DEF ChildOp, guest, nested
<1>11. CASE ChildReturn
  BY <1>11 DEF ChildReturn, guest, NoChild, NoArgs
<1>12. CASE UNCHANGED vars
  BY <1>12 DEF vars
<1>13. QED
  BY <1>1, <1>2, <1>3, <1>4, <1>5, <1>6, <1>7, <1>8, <1>9, <1>10, <1>11, <1>12
     DEF Next, Finish

LEMMA EffectTypeStep ==
  ASSUME TypeOK, [Next]_vars  PROVE EffectType'
<1> USE DEF EffectType
<1>1. ASSUME NEW k \in HandleBearing, NEW h, NEW t \in Target[k], Op(k, h, t)
      PROVE  EffectType'
  BY <1>1 DEF Op, Effect
<1>2. ASSUME NEW k \in HandleBearing, NEW t \in Target[k], ChildOp(k, t)
      PROVE  EffectType'
  BY <1>2 DEF ChildOp, Effect
<1>3. CASE effect' = NoEffect
  BY <1>3
<1>4. CASE UNCHANGED vars
  BY <1>4 DEF vars, TypeOK
<1>5. QED
  BY <1>1, <1>2, <1>3, <1>4 DEF Next, Refuse, RunMain, Finish, EndRun, RestrictTo,
     RequireReceiver, Call, Return, ForeignCall, ChildReturn

LEMMA InitTypeOK == Init => TypeOK
BY NoFrameType DEF Init, TypeOK, NoChild, NoArgs

\* Every reachable state has the types TypeOK states: the table only holds
\* capabilities, and only under numbers that were handed out.
THEOREM TypeCorrect == Spec => []TypeOK
<1>1. TypeOK /\ [Next]_vars => TypeOK'
  <2>1. TypeOK' <=> TableType' /\ GuestType' /\ EffectType'
    BY DEF TypeOK, TableType, GuestType, EffectType
  <2>2. QED
    BY <2>1, TableTypeStep, GuestTypeStep, EffectTypeStep
<1>2. QED
  BY InitTypeOK, <1>1, PTL DEF Spec

-----------------------------------------------------------------------------
(* The table only grows, and every new entry is a root or a narrowing *)

NewEntry(h) ==
  /\ h \in Nat /\ h >= next
  /\ \/ origin'[h].from = 0
     \/ /\ origin'[h].from \in DOMAIN entries
        /\ entries[origin'[h].from].kind \in HandleBearing
        /\ \E A \in RuleArgs(entries[origin'[h].from].kind) :
             entries'[h] = Narrow(entries[origin'[h].from], A)

TableGrows ==
  /\ next' >= next
  /\ \A h \in DOMAIN entries :
       h \in DOMAIN entries' /\ entries'[h] = entries[h] /\ origin'[h] = origin[h]
  /\ \A h \in DOMAIN entries' \ DOMAIN entries : NewEntry(h)

LEMMA TableStep ==
  ASSUME TypeOK, [Next]_vars  PROVE TableGrows
<1>1. ASSUME NEW a \in Artifacts, RunMain(a)  PROVE TableGrows
  <2>1. Usable(a) /\ Bootstrap(a)
    BY <1>1 DEF RunMain
  <2>2. /\ next' \in next..(MaxHandles + 1)
        /\ DOMAIN entries' = DOMAIN entries \cup RootHandles(a)
        /\ \A h \in RootHandles(a) : h \in next..(next' - 1)
        /\ \A h \in DOMAIN entries : entries'[h] = entries[h] /\ origin'[h] = origin[h]
        /\ \A h \in RootHandles(a) : origin'[h] = [from |-> 0, by |-> {}]
    BY <2>1, BootstrapTable
  <2>3. next \in Nat
    BY DEF TypeOK
  <2>4. QED
    BY <2>2, <2>3 DEF TableGrows, NewEntry
<1>2. ASSUME NEW k \in HandleBearing, NEW h, NEW A \in RuleArgs(k), RestrictTo(k, h, A)
      PROVE  TableGrows
  <2>1. CASE Resolves(h, k) /\ Alloc(Narrow(entries[h], A), h, A)
    <3>1. Narrow(entries[h], A) \in Cap
      BY <2>1, NarrowNarrows DEF Resolves, TypeOK
    <3>2. /\ next' = next + 1 /\ next \in 1..MaxHandles
          /\ DOMAIN entries' = DOMAIN entries \cup {next}
          /\ entries'[next] = Narrow(entries[h], A)
          /\ origin'[next] = [from |-> h, by |-> A]
          /\ \A g \in DOMAIN entries : entries'[g] = entries[g] /\ origin'[g] = origin[g]
      BY <2>1, <3>1, AllocTable
    <3>3. h \in DOMAIN entries /\ entries[h].kind = k
      BY <2>1 DEF Resolves
    <3>4. NewEntry(next)
      BY <3>2, <3>3 DEF NewEntry
    <3>5. QED
      BY <3>2, <3>4 DEF TableGrows
  <2>2. CASE UNCHANGED table
    BY <2>2 DEF table, TableGrows, TypeOK
  <2>3. QED
    BY <1>2, <2>1, <2>2 DEF RestrictTo
<1>3. CASE UNCHANGED table
  BY <1>3 DEF table, TableGrows, TypeOK
<1>4. QED
  BY <1>1, <1>2, <1>3 DEF Next, vars, table, Refuse, Finish, EndRun, Op, RequireReceiver,
       Call, Return, ForeignCall, ChildOp, ChildReturn

\* No handle is ever rebound, by narrowing, by a foreign call or by another
\* program on the same host: alloc reuses no number.
THEOREM HandlesStable == Spec => HandlesAreStable
<1>1. TypeOK /\ [Next]_vars =>
        [ /\ next' >= next
          /\ \A h \in DOMAIN entries : h \in DOMAIN entries' /\ entries'[h] = entries[h] ]_vars
  BY TableStep DEF TableGrows
<1>2. QED
  BY TypeCorrect, <1>1, PTL DEF Spec, HandlesAreStable

\* Attenuation is inductive once every origin is known to be an entry.
OriginsExist ==
  \A h \in DOMAIN entries : origin[h].from # 0 => origin[h].from \in DOMAIN entries

LEMMA AttenuationStep ==
  ASSUME TypeOK, OriginsExist, Attenuation, [Next]_vars
  PROVE  OriginsExist' /\ Attenuation'
<1>1. TableGrows
  BY TableStep
<1>2. SUFFICES ASSUME NEW h \in DOMAIN entries', origin'[h].from # 0
               PROVE  LET p == origin'[h].from IN
                        /\ p \in DOMAIN entries' /\ p < h
                        /\ entries'[h].kind = entries'[p].kind
                        /\ Authority(entries'[h]) \subseteq Authority(entries'[p])
  BY DEF OriginsExist, Attenuation, Authority
<1> DEFINE p == origin'[h].from
<1>3. CASE h \in DOMAIN entries
  <2>1. entries'[h] = entries[h] /\ p = origin[h].from
    BY <1>1, <1>3 DEF TableGrows
  <2>2. p \in DOMAIN entries /\ p < h
        /\ entries[h].kind = entries[p].kind
        /\ Authority(entries[h]) \subseteq Authority(entries[p])
    BY <1>2, <1>3, <2>1 DEF OriginsExist, Attenuation
  <2>3. p \in DOMAIN entries' /\ entries'[p] = entries[p]
    BY <1>1, <2>2 DEF TableGrows
  <2>4. QED
    BY <2>1, <2>2, <2>3
<1>4. CASE h \notin DOMAIN entries
  <2>1. NewEntry(h)
    BY <1>1, <1>4 DEF TableGrows
  <2>2. /\ p \in DOMAIN entries /\ entries[p].kind \in HandleBearing
        /\ h \in Nat /\ h >= next
    BY <1>2, <2>1 DEF NewEntry
  <2>3. PICK A \in RuleArgs(entries[p].kind) : entries'[h] = Narrow(entries[p], A)
    BY <1>2, <2>1 DEF NewEntry
  <2>4. entries[p] \in Cap /\ p \in 1..(next - 1) /\ next \in Nat
    BY <2>2 DEF TypeOK
  <2>5. /\ entries'[h].kind = entries[p].kind
        /\ Authority(entries'[h]) \subseteq Authority(entries[p])
    BY <2>2, <2>3, <2>4, NarrowNarrows
  <2>6. p \in DOMAIN entries' /\ entries'[p] = entries[p]
    BY <1>1, <2>2 DEF TableGrows
  <2>7. p < h
    BY <2>2, <2>4
  <2>8. QED
    BY <2>5, <2>6, <2>7
<1>5. QED
  BY <1>3, <1>4

\* Whatever chain of restrict_to calls led to a handle, it permits nothing the
\* handle it came from refuses.
THEOREM AttenuationHolds == Spec => []Attenuation
<1>1. Init => OriginsExist /\ Attenuation
  BY DEF Init, OriginsExist, Attenuation
<1>2. TypeOK /\ (OriginsExist /\ Attenuation) /\ [Next]_vars
        => (OriginsExist /\ Attenuation)'
  BY AttenuationStep
<1>3. QED
  BY TypeCorrect, <1>1, <1>2, PTL DEF Spec

-----------------------------------------------------------------------------
(* Foreign components *)

\* A granted object is one the table holds under a handle of the call.
ChildIsGranted ==
  \A k \in DOMAIN child : Resolves(childArgs[k], k) /\ entries[childArgs[k]] = child[k]

LEMMA ChildStep ==
  ASSUME TypeOK, ChildIsGranted, ForeignIsConfined, [Next]_vars
  PROVE  ChildIsGranted' /\ ForeignIsConfined'
<1>1. \A h \in DOMAIN entries : h \in DOMAIN entries' /\ entries'[h] = entries[h]
  BY TableStep DEF TableGrows
<1>2. ASSUME UNCHANGED nested  PROVE ChildIsGranted'
  BY <1>1, <1>2 DEF nested, ChildIsGranted, Resolves
<1>3. ASSUME child' = NoChild  PROVE ChildIsGranted'
  BY <1>3 DEF ChildIsGranted, NoChild
<1>4. ASSUME effect' = NoEffect \/ phase' # "child"  PROVE ForeignIsConfined'
  BY <1>4 DEF ForeignIsConfined
<1>5. ASSUME NEW K \in Signatures, NEW args \in [K -> Names], ForeignCall(K, args)
      PROVE  ChildIsGranted' /\ ForeignIsConfined'
  <2>1. CASE EndRun
    BY <1>3, <1>4, <2>1 DEF EndRun
  <2>2. CASE ~EndRun
    <3>1. \A k \in K : Resolves(args[k], k)
      BY <1>5, <2>2 DEF ForeignCall
    <3>2. /\ child' = [k \in K |-> entries[args[k]]]
          /\ childArgs' = args
          /\ effect' = NoEffect
      BY <1>5, <2>2 DEF ForeignCall
    <3>3. ASSUME NEW k \in K
          PROVE  Resolves(args[k], k)' /\ entries'[args[k]] = child'[k]
      BY <1>1, <3>1, <3>2 DEF Resolves
    <3>4. QED
      BY <1>4, <3>2, <3>3 DEF ChildIsGranted
  <2>3. QED
    BY <2>1, <2>2
<1>6. ASSUME NEW k \in HandleBearing, NEW t \in Target[k], ChildOp(k, t)
      PROVE  ChildIsGranted' /\ ForeignIsConfined'
  <2>1. UNCHANGED nested /\ UNCHANGED table
    BY <1>6 DEF ChildOp
  <2>2. CASE t \in Authority(child[k])
    <3>1. k \in DOMAIN childArgs /\ Resolves(childArgs[k], k) /\ entries[childArgs[k]] = child[k]
      BY <1>6 DEF ChildOp, ChildIsGranted, TypeOK
    <3>2. effect'.kind = k /\ effect'.target = t
      BY <1>6, <2>2 DEF ChildOp, Effect
    <3>3. /\ k \in DOMAIN childArgs' /\ childArgs'[k] = childArgs[k]
          /\ Resolves(childArgs[k], k)' /\ entries'[childArgs[k]] = child[k]
      BY <2>1, <3>1 DEF nested, table, Resolves
    <3>4. Permits(childArgs[k], effect.kind, effect.target)'
      BY <2>2, <3>2, <3>3 DEF Permits, Authority
    <3>5. QED
      BY <1>2, <2>1, <3>3, <3>4 DEF ForeignIsConfined
  <2>3. CASE t \notin Authority(child[k])
    BY <1>2, <1>4, <1>6, <2>1, <2>3 DEF ChildOp
  <2>4. QED
    BY <2>2, <2>3
<1>7. ASSUME NEW k \in HandleBearing, NEW h, NEW t \in Target[k], Op(k, h, t)
      PROVE  ChildIsGranted' /\ ForeignIsConfined'
  BY <1>2, <1>4, <1>7 DEF Op
<1>8. CASE UNCHANGED vars
  <2>1. UNCHANGED nested /\ UNCHANGED <<entries, childArgs, effect, phase>>
    BY <1>8 DEF vars, nested
  <2>2. ForeignIsConfined'
    BY <2>1 DEF ForeignIsConfined, Permits, Resolves, Authority
  <2>3. QED
    BY <1>2, <2>1, <2>2
<1>9. CASE /\ UNCHANGED nested \/ child' = NoChild
           /\ effect' = NoEffect
  BY <1>2, <1>3, <1>4, <1>9
<1>10. QED
  BY <1>5, <1>6, <1>7, <1>8, <1>9 DEF Next, Refuse, RunMain, Finish, EndRun, RestrictTo,
     RequireReceiver, Call, Return, ChildReturn

\* A foreign component does only what a handle passed to that call permits,
\* whatever integers the guest passes as handles.
THEOREM ForeignConfined == Spec => []ForeignIsConfined
<1>1. Init => ChildIsGranted /\ ForeignIsConfined
  BY DEF Init, ChildIsGranted, ForeignIsConfined, NoChild
<1>2. TypeOK /\ (ChildIsGranted /\ ForeignIsConfined) /\ [Next]_vars
        => (ChildIsGranted /\ ForeignIsConfined)'
  BY ChildStep
<1>3. QED
  BY TypeCorrect, <1>1, <1>2, PTL DEF Spec

-----------------------------------------------------------------------------
(* The declared set on the first run *)

\* On the host's first program every privileged entry has a declared kind.
EntriesAreDeclared ==
  /\ runs = 0 => DOMAIN entries = {} /\ phase = "idle"
  /\ phase # "idle" =>
       \A h \in DOMAIN entries : entries[h].kind \in HandleBearing => entries[h].kind \in declared
  /\ phase = "idle" => effect = NoEffect

LEMMA DeclaredStep ==
  ASSUME MaxRuns <= 1, TypeOK, ChildIsGranted, EntriesAreDeclared, DeclaredIsUpperBound,
         [Next]_vars
  PROVE  EntriesAreDeclared' /\ DeclaredIsUpperBound'
<1> USE DEF EntriesAreDeclared, DeclaredIsUpperBound
<1>1. ASSUME NEW a \in Artifacts, RunMain(a)
      PROVE  EntriesAreDeclared' /\ DeclaredIsUpperBound'
  <2>1. Usable(a) /\ Bootstrap(a) /\ runs = 0 /\ DOMAIN entries = {}
    BY <1>1 DEF RunMain, TypeOK
  <2>2. /\ DOMAIN entries' = RootHandles(a)
        /\ \A h \in RootHandles(a) : /\ entries'[h] = RootCap(ServedAt(a, h))
                                     /\ ServedAt(a, h) \in Served(a)
    BY <2>1, BootstrapTable
  <2>3. declared' = Kinds(a.binding) /\ phase' = "main" /\ runs' = runs + 1
        /\ effect' = NoEffect
    BY <1>1 DEF RunMain
  <2>4. \A k \in Served(a) : k \in HandleBearing => k \in declared'
    BY <2>3 DEF Served
  <2>5. \A h \in DOMAIN entries' :
          entries'[h].kind \in HandleBearing => entries'[h].kind \in declared'
    BY <2>2, <2>4 DEF RootCap
  <2>6. QED
    BY <2>1, <2>3, <2>5
<1>2. ASSUME NEW a \in Artifacts, Refuse(a)
      PROVE  EntriesAreDeclared' /\ DeclaredIsUpperBound'
  <2>1. runs' = runs + 1 /\ runs \in Nat /\ phase' = "idle" /\ effect' = NoEffect
    BY <1>2 DEF Refuse, TypeOK
  <2>2. QED
    BY <2>1
<1>3. ASSUME EndRun, phase # "idle"  PROVE EntriesAreDeclared' /\ DeclaredIsUpperBound'
  BY <1>3 DEF EndRun
<1>4. ASSUME NEW k \in HandleBearing, NEW h, NEW A \in RuleArgs(k), RestrictTo(k, h, A)
      PROVE  EntriesAreDeclared' /\ DeclaredIsUpperBound'
  <2>1. UNCHANGED <<runs, phase, declared>> /\ phase = "main" /\ effect' = NoEffect
    BY <1>4 DEF RestrictTo
  <2>2. CASE Resolves(h, k) /\ Alloc(Narrow(entries[h], A), h, A)
    <3>1. Narrow(entries[h], A) \in Cap /\ Narrow(entries[h], A).kind = k
      BY <2>2, NarrowNarrows DEF Resolves, TypeOK
    <3>2. /\ DOMAIN entries' = DOMAIN entries \cup {next}
          /\ entries'[next] = Narrow(entries[h], A)
          /\ \A g \in DOMAIN entries : entries'[g] = entries[g]
      BY <2>2, <3>1, AllocTable
    <3>3. k \in declared
      BY <2>1, <2>2 DEF Resolves
    <3>4. QED
      BY <2>1, <3>1, <3>2, <3>3
  <2>3. CASE UNCHANGED table
    BY <2>1, <2>3 DEF table
  <2>4. QED
    BY <1>4, <2>2, <2>3 DEF RestrictTo
<1>5. ASSUME NEW k \in HandleBearing, NEW h, NEW t \in Target[k], Op(k, h, t)
      PROVE  EntriesAreDeclared' /\ DeclaredIsUpperBound'
  <2>1. /\ phase = "main" /\ UNCHANGED <<entries, phase, runs, declared>>
        /\ \/ effect' = NoEffect
           \/ Resolves(h, k) /\ effect'.kind = k
    BY <1>5 DEF Op, table, Effect
  <2>2. Resolves(h, k) => k \in declared
    BY <2>1 DEF Resolves
  <2>3. QED
    BY <2>1, <2>2
<1>6. ASSUME NEW k \in HandleBearing, NEW t \in Target[k], ChildOp(k, t)
      PROVE  EntriesAreDeclared' /\ DeclaredIsUpperBound'
  <2>1. /\ phase = "child" /\ k \in DOMAIN child
        /\ UNCHANGED <<entries, phase, runs, declared>>
        /\ effect' = NoEffect \/ effect'.kind = k
    BY <1>6 DEF ChildOp, table, Effect
  <2>2. k \in declared
    BY <2>1 DEF ChildIsGranted, Resolves
  <2>3. QED
    BY <2>1, <2>2
<1>7. CASE /\ UNCHANGED <<table, declared, runs>> /\ effect' = NoEffect
           /\ phase # "idle" /\ phase' # "idle"
  BY <1>7 DEF table
<1>8. CASE UNCHANGED vars
  BY <1>8 DEF vars
<1>9. QED
  BY <1>1, <1>2, <1>3, <1>4, <1>5, <1>6, <1>7, <1>8 DEF Next, Finish, RequireReceiver,
     Call, Return, ForeignCall, ChildReturn, table, vars

\* On the first program of a host the declared set bounds every effect, the
\* guest's and its foreign components', whatever integers are passed.
THEOREM FirstRunIsDeclared == MaxRuns <= 1 => (Spec => []DeclaredIsUpperBound)
<1>1. SUFFICES ASSUME MaxRuns <= 1  PROVE Spec => []DeclaredIsUpperBound
  OBVIOUS
<1>2. Init => /\ ChildIsGranted /\ ForeignIsConfined
              /\ EntriesAreDeclared /\ DeclaredIsUpperBound
  BY DEF Init, ChildIsGranted, ForeignIsConfined, EntriesAreDeclared, DeclaredIsUpperBound,
         NoChild
<1>3. /\ TypeOK /\ [Next]_vars
      /\ ChildIsGranted /\ ForeignIsConfined /\ EntriesAreDeclared /\ DeclaredIsUpperBound
      => (ChildIsGranted /\ ForeignIsConfined /\ EntriesAreDeclared /\ DeclaredIsUpperBound)'
  BY <1>1, ChildStep, DeclaredStep
<1>4. QED
  BY TypeCorrect, <1>2, <1>3, PTL DEF Spec

-----------------------------------------------------------------------------
(* Nested calls of a guest that forges no handle *)

\* In the table E, handle h is no wider than handle g.
Within(E, h, g) ==
  /\ h \in DOMAIN E /\ g \in DOMAIN E
  /\ E[h].kind = E[g].kind
  /\ Authority(E[h]) \subseteq Authority(E[g])

\* What a call holds is the null handle or no wider than one of its arguments.
Confined(E, f) ==
  \A h \in f.held : h # 0 => \E g \in f.args : Within(E, h, g)

FramesAreConfined ==
  /\ phase # "idle" => depth \in 1..MaxDepth
  /\ \A d \in 1..depth : Confined(entries, frames[d])
  /\ \A d \in 1..(depth - 1) : frames[d + 1].args \subseteq frames[d].held

LEMMA WithinTransitive ==
  ASSUME NEW E, NEW h, NEW g, NEW f, Within(E, h, g), Within(E, g, f)
  PROVE  Within(E, h, f)
BY DEF Within

LEMMA ConfinedGrows ==
  ASSUME NEW E, NEW F, NEW f, Confined(E, f),
         \A h \in DOMAIN E : h \in DOMAIN F /\ F[h] = E[h]
  PROVE  Confined(F, f)
BY DEF Confined, Within

\* A frame whose arguments are all entries starts confined.
LEMMA ConfinedFresh ==
  ASSUME NEW E, NEW H, H \subseteq {0} \cup DOMAIN E
  PROVE  Confined(E, [args |-> H, held |-> H])
BY DEF Confined, Within

LEMMA ConfinedGains ==
  ASSUME NEW E, NEW f, NEW H, Confined(E, f),
         \A h \in H : h # 0 => \E g \in f.args : Within(E, h, g)
  PROVE  Confined(E, Gaining(f, H))
BY DEF Confined, Gaining

\* The guest's current frame, when it runs.
LEMMA CurrentFrame ==
  ASSUME TypeOK, FramesAreConfined, phase = "main"
  PROVE  /\ depth \in 1..MaxDepth
         /\ Held = frames[depth].held
         /\ Confined(entries, frames[depth])
         /\ frames[depth].args \subseteq 0..MaxHandles
<1>1. depth \in 1..MaxDepth /\ Confined(entries, frames[depth])
  BY DEF FramesAreConfined
<1>2. frames[depth] \in Frame
  BY <1>1 DEF TypeOK
<1>3. QED
  BY <1>1, <1>2 DEF Held, Frame

LEMMA FramesStep ==
  ASSUME ~Forges, TypeOK, FramesAreConfined, [Next]_vars
  PROVE  FramesAreConfined'
<1>1. \A h \in DOMAIN entries : h \in DOMAIN entries' /\ entries'[h] = entries[h]
  BY TableStep DEF TableGrows
<1>2. \A d \in 1..depth : Confined(entries', frames[d])
  BY <1>1, ConfinedGrows DEF FramesAreConfined
<1>3. depth \in 0..MaxDepth /\ frames \in [1..MaxDepth -> Frame]
      /\ DOMAIN entries \subseteq 1..MaxHandles
  BY DEF TypeOK
<1>4. ASSUME UNCHANGED guest, phase' # "idle" => phase # "idle"
      PROVE  FramesAreConfined'
  BY <1>2, <1>4 DEF guest, FramesAreConfined
<1>5. ASSUME EndRun  PROVE FramesAreConfined'
  BY <1>5 DEF EndRun, FramesAreConfined
<1>6. ASSUME NEW a \in Artifacts, RunMain(a)  PROVE FramesAreConfined'
  <2>1. Usable(a) /\ Bootstrap(a)
    BY <1>6 DEF RunMain
  <2>2. MainArgs(a) \subseteq DOMAIN entries'
    BY <2>1, BootstrapTable, MainArgsType
  <2>3. Confined(entries', [args |-> MainArgs(a), held |-> MainArgs(a)])
    BY <2>2, ConfinedFresh
  <2>4. depth' = 1 /\ frames'[1] = [args |-> MainArgs(a), held |-> MainArgs(a)]
    BY <1>3, <1>6 DEF RunMain
  <2>5. QED
    BY <2>3, <2>4 DEF FramesAreConfined
<1>7. ASSUME NEW k \in HandleBearing, NEW h \in Names, NEW A \in RuleArgs(k), RestrictTo(k, h, A)
      PROVE  FramesAreConfined'
  <2>1. phase = "main" /\ phase' = "main" /\ depth' = depth
    BY <1>7 DEF RestrictTo
  <2>2. /\ depth \in 1..MaxDepth /\ h \in frames[depth].held
        /\ Confined(entries, frames[depth]) /\ Confined(entries', frames[depth])
    BY <1>2, <2>1, CurrentFrame DEF Names
  <2>3. ASSUME NEW H, Hold(H), Confined(entries', Gaining(frames[depth], H))
        PROVE  FramesAreConfined'
    <3>1. /\ frames'[depth] = Gaining(frames[depth], H)
          /\ \A d \in 1..MaxDepth : d # depth => frames'[d] = frames[d]
      BY <1>3, <2>2, <2>3 DEF Hold
    <3>2. /\ Gaining(frames[depth], H).args = frames[depth].args
          /\ frames[depth].held \subseteq Gaining(frames[depth], H).held
      BY DEF Gaining
    <3>3. \A d \in 1..depth' : Confined(entries', frames'[d])
      BY <1>2, <1>3, <2>1, <2>3, <3>1
    <3>4. \A d \in 1..depth :
            frames'[d].args = frames[d].args /\ frames[d].held \subseteq frames'[d].held
      BY <1>3, <3>1, <3>2
    <3>5. \A d \in 1..(depth' - 1) : frames'[d + 1].args \subseteq frames'[d].held
      BY <1>3, <2>1, <2>2, <3>4 DEF FramesAreConfined
    <3>6. QED
      BY <2>1, <2>2, <3>3, <3>5 DEF FramesAreConfined
  <2>4. CASE Resolves(h, k) /\ Alloc(Narrow(entries[h], A), h, A) /\ Hold({next})
    <3>1. /\ entries[h] \in Cap /\ entries[h].kind = k /\ h \in DOMAIN entries
      BY <2>4 DEF Resolves, TypeOK
    <3>2. /\ Narrow(entries[h], A) \in Cap /\ Narrow(entries[h], A).kind = k
          /\ Authority(Narrow(entries[h], A)) \subseteq Authority(entries[h])
      BY <3>1, NarrowNarrows
    <3>3. next \in DOMAIN entries' /\ entries'[next] = Narrow(entries[h], A)
      BY <2>4, <3>2, AllocTable
    <3>4. Within(entries', next, h)
      BY <1>1, <3>1, <3>2, <3>3 DEF Within
    <3>5. PICK g \in frames[depth].args : Within(entries', h, g)
      BY <1>3, <2>2, <3>1 DEF Confined
    <3>6. Within(entries', next, g)
      BY <3>4, <3>5, WithinTransitive
    <3>7. Confined(entries', Gaining(frames[depth], {next}))
      BY <2>2, <3>6, ConfinedGains
    <3>8. QED
      BY <2>3, <2>4, <3>7
  <2>5. CASE Hold({0})
    <3>1. Confined(entries', Gaining(frames[depth], {0}))
      BY <2>2, ConfinedGains
    <3>2. QED
      BY <2>3, <2>5, <3>1
  <2>6. QED
    BY <1>7, <2>4, <2>5 DEF RestrictTo
<1>8. ASSUME NEW H \in SUBSET Held, Call(H)  PROVE FramesAreConfined'
  <2>1. /\ phase = "main" /\ depth' = depth + 1 /\ depth < MaxDepth
        /\ frames' = [frames EXCEPT ![depth + 1] = [args |-> H, held |-> H]]
    BY <1>8 DEF Call
  <2>2. depth \in 1..MaxDepth /\ Held = frames[depth].held /\ Confined(entries', frames[depth])
    BY <1>2, <2>1, CurrentFrame
  <2>3. H \subseteq {0} \cup DOMAIN entries'
    BY <2>2 DEF Confined, Within
  <2>4. /\ frames'[depth + 1] = [args |-> H, held |-> H]
        /\ \A d \in 1..depth : frames'[d] = frames[d]
    BY <1>3, <2>1, <2>2
  <2>5. \A d \in 1..depth' : Confined(entries', frames'[d])
    <3>1. TAKE d \in 1..depth'
    <3>2. d \in 1..depth \/ d = depth + 1
      BY <2>1, <2>2
    <3>3. Confined(entries', [args |-> H, held |-> H])
      BY <2>3, ConfinedFresh
    <3>4. QED
      BY <1>2, <2>4, <3>2, <3>3
  <2>6. frames'[depth + 1].args \subseteq frames'[depth].held
    BY <2>2, <2>4
  <2>7. \A d \in 1..(depth' - 1) : frames'[d + 1].args \subseteq frames'[d].held
    <3>1. TAKE d \in 1..(depth' - 1)
    <3>2. CASE d = depth
      BY <2>6, <3>2
    <3>3. CASE d # depth
      <4>1. d \in 1..(depth - 1) /\ d \in 1..depth /\ d + 1 \in 1..depth
        BY <2>1, <2>2, <3>3
      <4>2. QED
        BY <2>4, <4>1 DEF FramesAreConfined
    <3>4. QED
      BY <3>2, <3>3
  <2>8. depth' \in 1..MaxDepth
    BY <2>1, <2>2
  <2>9. QED
    BY <2>5, <2>7, <2>8 DEF FramesAreConfined
<1>9. ASSUME NEW H \in SUBSET Held, Return(H)  PROVE FramesAreConfined'
  <2>1. phase = "main" /\ depth > 1 /\ depth' = depth - 1
    BY <1>9 DEF Return
  <2>2. /\ depth \in 2..MaxDepth /\ Held = frames[depth].held
        /\ Confined(entries', frames[depth]) /\ Confined(entries', frames[depth - 1])
        /\ frames[depth].args \subseteq frames[depth - 1].held
    <3>1. depth \in 2..MaxDepth /\ Held = frames[depth].held
      BY <2>1, CurrentFrame
    <3>2. depth \in 1..depth /\ depth - 1 \in 1..depth /\ depth - 1 \in 1..(depth - 1)
          /\ (depth - 1) + 1 = depth
      BY <3>1
    <3>3. frames[(depth - 1) + 1].args \subseteq frames[depth - 1].held
      BY <3>2 DEF FramesAreConfined
    <3>4. QED
      BY <1>2, <3>1, <3>2, <3>3
  <2>3. /\ frames'[depth - 1] = Gaining(frames[depth - 1], H)
        /\ \A d \in 1..(depth - 2) : frames'[d] = frames[d]
    BY <1>3, <1>9, <2>2 DEF Return
  <2>4. ASSUME NEW h \in H, h # 0
        PROVE  \E f \in frames[depth - 1].args : Within(entries', h, f)
    <3>1. PICK g \in frames[depth].args : Within(entries', h, g)
      BY <2>2, <2>4 DEF Confined
    <3>2. UNCHANGED table
      BY <1>9 DEF Return
    <3>3. g # 0
      BY <1>3, <3>1, <3>2 DEF Within, table
    <3>4. PICK f \in frames[depth - 1].args : Within(entries', g, f)
      BY <2>2, <3>3 DEF Confined
    <3>5. QED
      BY <3>1, <3>4, WithinTransitive
  <2>5. Confined(entries', Gaining(frames[depth - 1], H))
    BY <2>2, <2>4, ConfinedGains
  <2>6. \A d \in 1..depth' : Confined(entries', frames'[d])
    <3>1. TAKE d \in 1..depth'
    <3>2. d \in 1..depth /\ (d = depth - 1 \/ d \in 1..(depth - 2))
      BY <2>1, <2>2
    <3>3. CASE d = depth - 1
      BY <2>3, <2>5, <3>3
    <3>4. CASE d \in 1..(depth - 2)
      BY <1>2, <2>3, <3>2, <3>4
    <3>5. QED
      BY <3>2, <3>3, <3>4
  <2>7. /\ Gaining(frames[depth - 1], H).args = frames[depth - 1].args
    BY DEF Gaining
  <2>8. \A d \in 1..(depth' - 1) : frames'[d + 1].args \subseteq frames'[d].held
    <3>1. TAKE d \in 1..(depth' - 1)
    <3>2. /\ d \in 1..(depth - 2) /\ d \in 1..(depth - 1)
          /\ d + 1 = depth - 1 \/ d + 1 \in 1..(depth - 2)
      BY <2>1, <2>2
    <3>3. frames'[d] = frames[d] /\ frames'[d + 1].args = frames[d + 1].args
      BY <2>3, <2>7, <3>2
    <3>4. QED
      BY <3>2, <3>3 DEF FramesAreConfined
  <2>9. depth' \in 1..MaxDepth
    BY <2>1, <2>2
  <2>10. QED
    BY <2>6, <2>8, <2>9 DEF FramesAreConfined
<1>10. CASE UNCHANGED vars
  BY <1>4, <1>10 DEF vars, guest
<1>11. QED
  BY <1>4, <1>5, <1>6, <1>7, <1>8, <1>9, <1>10 DEF Next, Refuse, Finish, Op, RequireReceiver,
     ForeignCall, ChildOp, ChildReturn

\* What an operation does, a handle the running call was given permits.
LEMMA CallsStep ==
  ASSUME ~Forges, TypeOK, FramesAreConfined, CallsAreConfined, [Next]_vars
  PROVE  CallsAreConfined'
<1>1. ASSUME NEW k \in HandleBearing, NEW h \in Names, NEW t \in Target[k], Op(k, h, t)
      PROVE  CallsAreConfined'
  <2>1. phase = "main" /\ UNCHANGED <<entries, frames, depth>>
    BY <1>1 DEF Op, table, guest
  <2>2. CASE Resolves(h, k) /\ t \in Authority(entries[h])
    <3>1. effect'.kind = k /\ effect'.target = t
      BY <1>1, <2>2 DEF Op, Effect
    <3>2. h \in frames[depth].held /\ Confined(entries, frames[depth]) /\ h # 0
      BY <2>1, <2>2, CurrentFrame DEF Names, Resolves, TypeOK
    <3>3. PICK g \in frames[depth].args : Within(entries, h, g)
      BY <3>2 DEF Confined
    <3>4. g \in DOMAIN entries /\ entries[g].kind = k /\ t \in Authority(entries[g])
      BY <2>2, <3>3 DEF Within, Resolves
    <3>5. QED
      BY <2>1, <3>1, <3>3, <3>4 DEF CallsAreConfined, Permits, Resolves, Authority
  <2>3. CASE ~(Resolves(h, k) /\ t \in Authority(entries[h]))
    BY <1>1, <2>3 DEF Op, CallsAreConfined
  <2>4. QED
    BY <2>2, <2>3
<1>2. CASE effect' = NoEffect \/ phase' # "main"
  BY <1>2 DEF CallsAreConfined
<1>3. CASE UNCHANGED vars
  BY <1>3 DEF vars, CallsAreConfined, Permits, Resolves, Authority
<1>4. QED
  BY <1>1, <1>2, <1>3 DEF Next, Refuse, RunMain, Finish, EndRun, RestrictTo, RequireReceiver,
     Call, Return, ForeignCall, ChildOp, ChildReturn

\* A restricted capability that crosses function boundaries keeps its
\* restriction, at every depth, as long as the guest forges no handle.
THEOREM CallsConfined == ~Forges => (Spec => []CallsAreConfined)
<1>1. SUFFICES ASSUME ~Forges  PROVE Spec => []CallsAreConfined
  OBVIOUS
<1>2. Init => FramesAreConfined /\ CallsAreConfined
  BY DEF Init, FramesAreConfined, CallsAreConfined
<1>3. TypeOK /\ (FramesAreConfined /\ CallsAreConfined) /\ [Next]_vars
        => (FramesAreConfined /\ CallsAreConfined)'
  BY <1>1, FramesStep, CallsStep
<1>4. QED
  BY TypeCorrect, <1>2, <1>3, PTL DEF Spec

-----------------------------------------------------------------------------
(* The table implements CapAuthority *)

Available ==
  [h \in DOMAIN entries |->
     [kind |-> entries[h].kind, targets |-> Authority(entries[h]), from |-> origin[h].from]]

LEMMA RootAuthority ==
  ASSUME NEW k \in HostCaps
  PROVE  RootCap(k).kind = k /\ Authority(RootCap(k)) = Target[k]
BY DEF RootCap, Authority

\* A growing table keeps every authority it holds.
LEMMA AvailableKept ==
  ASSUME TypeOK, [Next]_vars
  PROVE  \A h \in DOMAIN Available : h \in DOMAIN Available' /\ Available'[h] = Available[h]
<1>1. \A h \in DOMAIN entries :
        h \in DOMAIN entries' /\ entries'[h] = entries[h] /\ origin'[h] = origin[h]
  BY TableStep DEF TableGrows
<1>2. DOMAIN Available = DOMAIN entries /\ DOMAIN Available' = DOMAIN entries'
  BY DEF Available
<1>3. ASSUME NEW h \in DOMAIN entries  PROVE Available'[h] = Available[h]
  <2>1. Available[h] = [kind |-> entries[h].kind, targets |-> Authority(entries[h]),
                        from |-> origin[h].from]
    BY DEF Available
  <2>2. Available'[h] = [kind |-> entries'[h].kind, targets |-> Authority(entries'[h]),
                         from |-> origin'[h].from]
    BY <1>1 DEF Available, Authority
  <2>3. QED
    BY <1>1, <2>1, <2>2
<1>4. QED
  BY <1>1, <1>2, <1>3

LEMMA ImplementsStep ==
  ASSUME TypeOK, ChildIsGranted, [Next]_vars
  PROVE  [Abstract!Next]_<<Available, effect>>
<1>1. Abstract!Keeps
  BY AvailableKept DEF Abstract!Keeps, Available
<1>2. ASSUME effect' = NoEffect, UNCHANGED table  PROVE Abstract!Next
  BY <1>1, <1>2 DEF table, Abstract!Next, Abstract!Grant, Abstract!New
<1>3. ASSUME NEW a \in Artifacts, RunMain(a)  PROVE Abstract!Next
  <2>1. Usable(a) /\ Bootstrap(a) /\ effect' = NoEffect
    BY <1>3 DEF RunMain
  <2>2. /\ DOMAIN entries' = DOMAIN entries \cup RootHandles(a)
        /\ \A h \in RootHandles(a) : /\ entries'[h] = RootCap(ServedAt(a, h))
                                     /\ origin'[h] = [from |-> 0, by |-> {}]
                                     /\ ServedAt(a, h) \in Served(a)
    BY <2>1, BootstrapTable
  <2>3. ASSUME NEW h \in RootHandles(a)
        PROVE  \E k \in HostCaps : Available'[h] = Abstract!Whole(k)
    <3> DEFINE k == ServedAt(a, h)
    <3>1. k \in HostCaps /\ h \in DOMAIN entries' /\ entries'[h] = RootCap(k)
          /\ origin'[h].from = 0
      BY <2>2 DEF Served
    <3>2. Available'[h] = [kind |-> entries'[h].kind, targets |-> Authority(entries'[h]),
                           from |-> origin'[h].from]
      BY <3>1 DEF Available, Authority
    <3> HIDE DEF k
    <3>3. Available'[h] = Abstract!Whole(k)
      BY <3>1, <3>2, RootAuthority DEF Abstract!Whole
    <3>4. QED
      BY <3>1, <3>3
  <2>4. Abstract!New \subseteq RootHandles(a)
    BY <2>2 DEF Abstract!New
  <2>5. Abstract!Grant
    BY <1>1, <2>1, <2>3, <2>4 DEF Abstract!Grant, Available
  <2>6. QED
    BY <2>5 DEF Abstract!Next
<1>4. ASSUME NEW k \in HandleBearing, NEW h, NEW A \in RuleArgs(k), RestrictTo(k, h, A)
      PROVE  Abstract!Next
  <2>1. effect' = NoEffect
    BY <1>4 DEF RestrictTo
  <2>2. CASE Resolves(h, k) /\ Alloc(Narrow(entries[h], A), h, A)
    <3>1. h \in DOMAIN entries /\ entries[h].kind = k /\ entries[h] \in Cap
      BY <2>2 DEF Resolves, TypeOK
    <3>2. /\ Narrow(entries[h], A) \in Cap
          /\ Narrow(entries[h], A).kind = k
          /\ Authority(Narrow(entries[h], A)) \subseteq Authority(entries[h])
      BY <3>1, NarrowNarrows
    <3>3. /\ DOMAIN entries' = DOMAIN entries \cup {next}
          /\ entries'[next] = Narrow(entries[h], A)
          /\ origin'[next] = [from |-> h, by |-> A]
      BY <2>2, <3>2, AllocTable
    <3>4. Abstract!New \subseteq {next}
      BY <3>3 DEF Abstract!New
    <3>5. /\ Available'[next].from = h /\ Available'[next].kind = Available[h].kind
          /\ Available'[next].targets \subseteq Available[h].targets
      BY <3>1, <3>2, <3>3 DEF Available, Authority
    <3>6. Abstract!Narrow(h)
      BY <1>1, <2>1, <3>4, <3>5 DEF Abstract!Narrow, Available
    <3>7. h \in DOMAIN Available
      BY <3>1 DEF Available
    <3>8. QED
      BY <3>6, <3>7 DEF Abstract!Next, Available
  <2>3. CASE UNCHANGED table
    BY <1>2, <2>1, <2>3
  <2>4. QED
    BY <1>4, <2>2, <2>3 DEF RestrictTo
<1>5. ASSUME NEW k \in HandleBearing, NEW h, NEW t \in Target[k],
             h \in DOMAIN entries, entries[h].kind = k, t \in Authority(entries[h]),
             effect' = Effect(h, k, t), UNCHANGED table
      PROVE  Abstract!Next
  <2>1. h \in DOMAIN Available /\ t \in Available[h].targets /\ Available[h].kind = k
    BY <1>5 DEF Available
  <2>2. Available' = Available
    BY <1>5 DEF table, Available, Authority
  <2>3. Abstract!Act(h, t)
    BY <1>5, <2>1, <2>2 DEF Abstract!Act, Effect, Available
  <2>4. QED
    BY <2>1, <2>3 DEF Abstract!Next, Available
<1>6. ASSUME NEW k \in HandleBearing, NEW h, NEW t \in Target[k], Op(k, h, t)
      PROVE  Abstract!Next
  BY <1>2, <1>5, <1>6 DEF Op, Resolves
<1>7. ASSUME NEW k \in HandleBearing, NEW t \in Target[k], ChildOp(k, t)
      PROVE  Abstract!Next
  BY <1>2, <1>5, <1>7 DEF ChildOp, ChildIsGranted, Resolves
<1>8. CASE UNCHANGED vars
  BY <1>8 DEF vars, Available, Authority
<1>9. QED
  BY <1>2, <1>3, <1>4, <1>6, <1>7, <1>8 DEF Next, Refuse, Finish, EndRun, RequireReceiver,
     Call, Return, ForeignCall, ChildReturn, table

\* The table implements the machine that only grants whole kinds and narrows:
\* no step of the hosts makes an authority from anything else, and every
\* effect is permitted by the very handle that was passed for it.
THEOREM Implements == Spec => ImplementsAuthority
<1>1. Init => Abstract!Init
  BY DEF Init, Abstract!Init
<1>2. TypeOK /\ ChildIsGranted /\ [Next]_vars => [Abstract!Next]_<<Available, effect>>
  BY ImplementsStep
<1>3. Init => ChildIsGranted /\ ForeignIsConfined
  BY DEF Init, ChildIsGranted, ForeignIsConfined, NoChild
<1>4. TypeOK /\ (ChildIsGranted /\ ForeignIsConfined) /\ [Next]_vars
        => (ChildIsGranted /\ ForeignIsConfined)'
  BY ChildStep
<1>5. Spec => Abstract!Spec
  BY TypeCorrect, <1>1, <1>2, <1>3, <1>4, PTL DEF Spec, Abstract!Spec, Available
<1>6. QED
  BY <1>5 DEF ImplementsAuthority

===============================================================================
