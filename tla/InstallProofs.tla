----------------------------- MODULE InstallProofs -----------------------------
(***************************************************************************)
(* Proofs about Install, for every manifest, every set of commits, keys    *)
(* and disturbances, and every interleaving of an install, a build and     *)
(* what happens around them.                                               *)
(***************************************************************************)
EXTENDS Install, SequenceTheorems, TLAPS

USE InstallAssumption DEF install, history

IsAFunction(f) == f = [d \in DOMAIN f |-> f[d]]

\* The walk over the dependencies: each is visited once, and the checkout that
\* is verified is there.
WalkInv ==
  /\ left \in Seq(Dep)
  /\ \A i, j \in DOMAIN left : left[i] = left[j] => i = j
  /\ \A i \in DOMAIN left : left[i] \notin DOMAIN fresh
  /\ pc \in {"idle", "precheck"} => fresh = <<>>
  /\ pc \in {"clone", "verify"} => left # <<>> /\ plan[Head(left)].kind # "path"
  /\ pc = "verify" => vendor[Head(left)].at \in Commit

Held(e) ==
  /\ e.key # None => Signer[e.commit] = e.key
  /\ e.level = "required" => e.proven

\* What was resolved so far: each entry passed its checks, is for the pin the
\* manifest declares, and moved away from the old lock only if that shows.
FreshInv ==
  /\ IsAFunction(fresh)
  /\ \A d \in DOMAIN fresh : Held(fresh[d])
  /\ \A d \in DOMAIN fresh : pc # "idle" =>
       /\ fresh[d].pin = plan[d].pin
       /\ ~bad /\ ~allow /\ Pinned(d) => fresh[d].commit = old[d].commit

\* While capa.lock is being written, it is the lock of the present install;
\* and the lock an install has read is of the last one, but for a lost key.
OldStands ==
  \A d \in DOMAIN old : /\ d \in DOMAIN agreed /\ old[d].pin = agreed[d].pin
                        /\ old[d].commit = agreed[d].commit
LockInv ==
  /\ LockIsOneInstall
  /\ pc = "write" => agreed = fresh
  /\ pc \notin {"idle", "write"} => OldStands

\* A build: what it has checked stands as it was checked, or was touched.
Kept(d) == d \in touched \/ vendor[d] = [at |-> build.lock[d].commit, clean |-> TRUE]
Heads(d) == d \in touched \/ vendor[d].at = build.lock[d].commit
BuildInv ==
  /\ build = [step |-> build.step, deps |-> build.deps, left |-> build.left, lock |-> build.lock]
  /\ build.deps \subseteq DOMAIN Order /\ build.left \subseteq DOMAIN Order
  /\ \A i \in build.deps \ build.left : Kept(Order[i])
  /\ build.step = "status" => \A i \in DOMAIN Order : Turn(i) => Heads(Order[i])
  /\ build.step = "idle" => build.deps = {}

Inv == TypeOK /\ WalkInv /\ FreshInv /\ LockInv /\ LockedIsVerified /\ BuildInv

-----------------------------------------------------------------------------
(* Sequences and files.                                                    *)

LEMMA OrderFacts ==
  /\ Order \in Seq(Dep) /\ DOMAIN Order \subseteq Nat
  /\ \A i \in DOMAIN Order : Order[i] \in Dep
BY DEF Dep

LEMMA EmptyFacts == <<>> \in Seq(Dep) /\ DOMAIN <<>> = {} /\ IsAFunction(<<>>)
BY DEF IsAFunction

\* What a lock that was cut short says: entries of f as they were, or without
\* the key.
LEMMA CutEntry ==
  ASSUME NEW e \in Entries
  PROVE  LET c == [e EXCEPT !.key = None] IN
         c \in Entries /\ c.pin = e.pin /\ c.commit = e.commit
BY DEF Entries

LEMMA BeginningFacts ==
  ASSUME NEW f, IsLock(f), NEW n \in 0..Len(Order), NEW cut \in BOOLEAN
  PROVE  /\ IsLock(Beginning(f, n, cut)) /\ DOMAIN Beginning(f, n, cut) \subseteq DOMAIN f
         /\ \A d \in DOMAIN Beginning(f, n, cut) :
              /\ Beginning(f, n, cut)[d].pin = f[d].pin
              /\ Beginning(f, n, cut)[d].commit = f[d].commit
<1> DEFINE b == Beginning(f, n, cut)
<1>1. /\ DOMAIN b = DOMAIN f \cap {Order[i] : i \in 1..n}
      /\ \A d \in DOMAIN b : b[d] = IF cut /\ d = Order[n] THEN [f[d] EXCEPT !.key = None] ELSE f[d]
  BY DEF Beginning
<1> HIDE DEF b
<1>2. DOMAIN b \subseteq DOMAIN f /\ DOMAIN f \subseteq Dep /\ \A d \in DOMAIN f : f[d] \in Entries
  BY <1>1 DEF IsLock
<1>3. ASSUME NEW d \in DOMAIN b
      PROVE  b[d] \in Entries /\ b[d].pin = f[d].pin /\ b[d].commit = f[d].commit
  <2>1. f[d] \in Entries
    BY <1>2
  <2>2. CASE cut /\ d = Order[n]
    BY <1>1, <2>1, <2>2, CutEntry
  <2>3. CASE ~(cut /\ d = Order[n])
    <3>1. b[d] = f[d]
      BY <1>1, <2>3
    <3>2. QED
      BY <2>1, <3>1
  <2>4. QED
    BY <2>2, <2>3
<1>4. IsLock(b) /\ DOMAIN b \subseteq DOMAIN f
      /\ \A d \in DOMAIN b : b[d].pin = f[d].pin /\ b[d].commit = f[d].commit
  BY <1>2, <1>3 DEF IsLock
<1>5. QED
  BY <1>4 DEF b

\* Nothing, and everything, is a beginning.
LEMMA NoBeginning ==
  ASSUME NEW f
  PROVE  \E n \in 0..Len(Order), cut \in BOOLEAN : <<>> = Beginning(f, n, cut)
<1>1. DOMAIN f \cap {Order[i] : i \in 1..0} = {} /\ 0 \in 0..Len(Order)
  <2>1. 1..0 = {} /\ Len(Order) \in Nat
    BY OrderFacts
  <2>2. QED
    BY <2>1
<1>2. <<>> = Beginning(f, 0, FALSE)
  BY <1>1, EmptyFacts DEF Beginning, IsAFunction
<1>3. QED
  BY <1>1, <1>2

LEMMA WholeBeginning ==
  ASSUME NEW f, IsAFunction(f), DOMAIN f \subseteq Dep
  PROVE  \E n \in 0..Len(Order), cut \in BOOLEAN : f = Beginning(f, n, cut)
<1>1. DOMAIN Order = 1..Len(Order) /\ Len(Order) \in 0..Len(Order)
  BY OrderFacts
<1>2. DOMAIN f \cap {Order[i] : i \in 1..Len(Order)} = DOMAIN f
  BY <1>1 DEF Dep
<1>3. f = Beginning(f, Len(Order), FALSE)
  BY <1>2 DEF Beginning, IsAFunction
<1>4. QED
  BY <1>1, <1>3

LEMMA HeadFacts ==
  ASSUME WalkInv, left # <<>>
  PROVE  /\ Head(left) \in Dep /\ Head(left) \notin DOMAIN fresh /\ Tail(left) \in Seq(Dep)
         /\ \A i \in DOMAIN Tail(left) :
              i + 1 \in DOMAIN left /\ Tail(left)[i] = left[i + 1] /\ left[i + 1] # Head(left)
         /\ \A i, j \in DOMAIN Tail(left) : i + 1 = j + 1 => i = j
<1>1. /\ left \in Seq(Dep) /\ Len(left) \in Nat \ {0} /\ DOMAIN left = 1..Len(left)
      /\ Head(left) = left[1] /\ Tail(left) \in Seq(Dep)
      /\ \A i \in DOMAIN Tail(left) : i \in 1..(Len(left) - 1) /\ Tail(left)[i] = left[i + 1]
  BY DEF WalkInv
<1>2. 1 \in DOMAIN left /\ \A i \in 1..(Len(left) - 1) : i + 1 \in DOMAIN left /\ i + 1 # 1
  BY <1>1
<1>3. Head(left) \in Dep /\ Head(left) \notin DOMAIN fresh
  BY <1>1, <1>2 DEF WalkInv
<1>4. \A i \in 1..(Len(left) - 1) : left[i + 1] # Head(left)
  BY <1>1, <1>2 DEF WalkInv
<1>5. \A i, j \in 1..(Len(left) - 1) : i + 1 = j + 1 => i = j
  BY <1>1
<1>6. QED
  BY <1>1, <1>2, <1>3, <1>4, <1>5

LEMMA DeclaredFacts ==
  ASSUME IsManifest(plan), NEW d \in Dep
  PROVE  /\ plan[d] \in UNION {Declarations[x] : x \in Dep}
         /\ plan[d].kind \in {"tag", "rev", "path"} /\ plan[d].level \in {"off", "warn", "required"}
         /\ plan[d].kind = "tag" => plan[d].pin \in Tags
         /\ plan[d].kind = "rev" => RevCommit[plan[d].pin] \in Commit
<1>1. plan[d] \in Declarations[d] /\ plan[d] \in UNION {Declarations[x] : x \in Dep}
  BY DEF IsManifest
<1>2. plan[d].kind = "tag" => plan[d].pin \in Tags
  BY <1>1 DEF Tags
<1>3. QED
  BY <1>1, <1>2

\* What an install that is over, or was never begun, has in hand.
LEMMA StopStep == ASSUME Stop  PROVE WalkInv' /\ FreshInv'
<1>1. pc' = "idle" /\ left' = <<>> /\ fresh' = <<>>
  BY DEF Stop
<1>2. WalkInv'
  BY <1>1, EmptyFacts DEF WalkInv
<1>3. FreshInv'
  BY <1>1, EmptyFacts DEF FreshInv, IsAFunction
<1>4. QED
  BY <1>2, <1>3

\* A build that is under way has every change of a tree in touched.
LEMMA BecomesStep ==
  ASSUME Inv, NEW d \in Dep, NEW t \in Tree, Becomes(d, t), build' = build
  PROVE  /\ vendor' \in [Dep -> Tree] /\ vendor'[d] = t
         /\ touched' \subseteq Dep /\ BuildInv'
<1> USE DEF Inv
<1>1. vendor' \in [Dep -> Tree] /\ vendor'[d] = t /\ touched' \subseteq Dep
  BY DEF Becomes, TypeOK
<1>2. BuildInv'
  <2>1. CASE build.step = "idle"
    BY <2>1 DEF BuildInv
  <2>2. CASE build.step # "idle"
    <3>1. /\ touched \subseteq touched' /\ d \in touched'
          /\ \A x \in Dep \ {d} : vendor'[x] = vendor[x]
      BY <2>2 DEF Becomes, TypeOK
    <3>2. \A x \in Dep : (Kept(x) => Kept(x)') /\ (Heads(x) => Heads(x)')
      BY <3>1 DEF Kept, Heads
    <3>3. QED
      BY <3>2, OrderFacts DEF BuildInv, Turn
  <2>3. QED
    BY <2>1, <2>2
<1>3. QED
  BY <1>1, <1>2

-----------------------------------------------------------------------------
(* The steps of an install.                                                *)

\* What an install that leaves the files alone keeps of the other actors.
LEMMA FilesKept ==
  ASSUME Inv, UNCHANGED <<manifest, remote, vendor, lock, build, touched, history>>
  PROVE  /\ BuildInv' /\ LockedIsVerified' /\ IsManifest(manifest)'
         /\ remote' \in [Tags -> [tag : Commit, branch : Branched \cup {None}]] /\ vendor' \in [Dep -> Tree]
         /\ lock' = Unreadable \/ IsLock(lock')
         /\ IsLock(agreed') /\ touched' \subseteq Dep
BY DEF Inv, TypeOK, BuildInv, Turn, Kept, Heads, LockedIsVerified, IsManifest

\* An install that ends with an error.
LEMMA RaiseStep ==
  ASSUME Inv, Stop, pc # "write",
         UNCHANGED <<manifest, remote, vendor, lock, build, touched, history>>
  PROVE  Inv'
<1> USE DEF Inv
<1>1. WalkInv' /\ FreshInv'
  BY StopStep
<1>2. TypeOK'
  <2>1. pc' = "idle" /\ tagged' \in BOOLEAN /\ IsLock(fresh')
    BY EmptyFacts DEF Stop, IsLock
  <2>2. QED
    BY <2>1, FilesKept DEF TypeOK
<1>3. LockInv'
  BY DEF LockInv, LockIsOneInstall, OldStands, Stop
<1>4. QED
  BY <1>1, <1>2, <1>3, FilesKept

\* A dependency is passed over.
LEMMA PassStep ==
  ASSUME Inv, Pass, left # <<>>, pc \in {"precheck", "fetch"},
         UNCHANGED <<manifest, remote, vendor, lock, build, touched, history>>
  PROVE  Inv'
<1> USE DEF Inv
<1>1. left' = Tail(left) /\ UNCHANGED <<pc, plan, old, allow, tagged, fresh, bad>>
  BY DEF Pass
<1>2. WalkInv'
  BY <1>1, HeadFacts DEF WalkInv
<1>3. FreshInv' /\ LockInv'
  BY <1>1 DEF FreshInv, Pinned, LockInv, LockIsOneInstall, OldStands
<1>4. TypeOK'
  BY <1>1, FilesKept DEF TypeOK, IsManifest
<1>5. QED
  BY <1>2, <1>3, <1>4, FilesKept

LEMMA StartStep == ASSUME Inv, NEW update \in BOOLEAN, Start(update)  PROVE Inv'
<1> USE DEF Inv, Start
<1>1. WalkInv'
  BY EmptyFacts DEF WalkInv
<1>2. FreshInv'
  BY EmptyFacts DEF FreshInv, IsAFunction
<1>3. LockInv'
  <2>1. PICK n \in 0..Len(Order), cut \in BOOLEAN : lock = Beginning(agreed, n, cut)
    BY DEF LockInv, LockIsOneInstall
  <2>2. /\ DOMAIN lock \subseteq DOMAIN agreed
        /\ \A d \in DOMAIN lock : lock[d].pin = agreed[d].pin /\ lock[d].commit = agreed[d].commit
    BY <2>1, BeginningFacts DEF TypeOK
  <2>3. OldStands'
    BY <2>2 DEF OldStands
  <2>4. QED
    BY <2>3 DEF LockInv, LockIsOneInstall
<1>4. TypeOK'
  BY EmptyFacts, FilesKept DEF TypeOK, IsManifest, IsLock
<1>5. QED
  BY <1>1, <1>2, <1>3, <1>4, FilesKept

LEMMA PreCheckStep == ASSUME Inv, PreCheck \/ PreChecked \/ CheckPathDep  PROVE Inv'
<1>1. CASE PreCheck
  BY <1>1, PassStep, RaiseStep DEF PreCheck
<1>2. CASE CheckPathDep
  BY <1>2, PassStep, RaiseStep DEF CheckPathDep
<1>3. CASE PreChecked
  <2> USE <1>3 DEF Inv, PreChecked
  <2>1. WalkInv'
    BY EmptyFacts, OrderFacts DEF WalkInv
  <2>2. FreshInv' /\ LockInv'
    BY DEF FreshInv, Pinned, LockInv, LockIsOneInstall, OldStands
  <2>3. TypeOK'
    BY FilesKept DEF TypeOK, IsManifest
  <2>4. QED
    BY <2>1, <2>2, <2>3, FilesKept
<1>4. QED
  BY <1>1, <1>2, <1>3

LEMMA RemoveStep == ASSUME Inv, Remove  PROVE Inv'
<1> USE DEF Inv
<1>1. /\ pc = "fetch" /\ left # <<>> /\ plan[Head(left)].kind # "path"
      /\ Becomes(Head(left), Missing) /\ pc' = "clone"
      /\ UNCHANGED <<manifest, remote, lock, plan, old, allow, left, tagged, fresh, bad,
                     build, history, disturbances>>
  BY DEF Remove
<1>2. Head(left) \in Dep /\ Head(left) \notin DOMAIN fresh /\ Missing \in Tree
  BY <1>1, HeadFacts DEF Tree
<1>3. vendor' \in [Dep -> Tree] /\ touched' \subseteq Dep /\ BuildInv'
  BY <1>1, <1>2, BecomesStep
<1>4. WalkInv'
  BY <1>1 DEF WalkInv
<1>5. FreshInv' /\ LockInv' /\ LockedIsVerified'
  BY <1>1 DEF FreshInv, Pinned, LockInv, LockIsOneInstall, OldStands, LockedIsVerified
<1>6. TypeOK'
  BY <1>1, <1>2, <1>3 DEF TypeOK, IsManifest
<1>7. QED
  BY <1>3, <1>4, <1>5, <1>6

\* A clone that ended the install, or left another commit behind doing so.
LEMMA StopWithTree ==
  ASSUME Inv, Stop, pc # "write", NEW d \in Dep, NEW t \in Tree, Becomes(d, t),
         UNCHANGED <<manifest, remote, lock, build, history>>
  PROVE  Inv'
<1> USE DEF Inv
<1>1. vendor' \in [Dep -> Tree] /\ touched' \subseteq Dep /\ BuildInv'
  BY BecomesStep
<1>2. WalkInv' /\ FreshInv'
  BY StopStep
<1>3. TypeOK'
  <2>1. pc' = "idle" /\ tagged' \in BOOLEAN /\ IsLock(fresh')
    BY EmptyFacts DEF Stop, IsLock
  <2>2. QED
    BY <1>1, <2>1 DEF TypeOK, IsManifest
<1>4. LockInv' /\ LockedIsVerified'
  BY DEF LockInv, LockIsOneInstall, OldStands, LockedIsVerified, Stop
<1>5. QED
  BY <1>1, <1>2, <1>3, <1>4

LEMMA CloneStep == ASSUME Inv, Clone  PROVE Inv'
<1> USE DEF Inv
<1> DEFINE d == Head(left)
           t == [at |-> Upstream(plan[d]), clean |-> TRUE]
<1>1. /\ pc = "clone" /\ left # <<>> /\ d \in Dep /\ d \notin DOMAIN fresh
      /\ plan[d].kind # "path" /\ IsManifest(plan)
  BY HeadFacts DEF Clone, WalkInv, TypeOK
<1>2. UNCHANGED <<manifest, remote, lock, build, history, disturbances>>
  BY DEF Clone
<1>3. CASE Stop /\ UNCHANGED <<vendor, touched>>
  BY <1>1, <1>2, <1>3, RaiseStep
<1>4. CASE Stop /\ \E c \in Commit : Becomes(d, [at |-> c, clean |-> TRUE])
  <2>1. PICK c \in Commit : Becomes(d, [at |-> c, clean |-> TRUE])
    BY <1>4
  <2>2. [at |-> c, clean |-> TRUE] \in Tree
    BY DEF Tree
  <2>3. QED
    BY <1>1, <1>2, <1>4, <2>1, <2>2, StopWithTree
<1>5. CASE /\ Becomes(d, t) /\ tagged' \in BOOLEAN /\ pc' = "verify"
           /\ UNCHANGED <<plan, old, allow, left, fresh, bad>>
  <2>1. Upstream(plan[d]) \in Commit
    BY <1>1, DeclaredFacts DEF Upstream, TypeOK
  <2>2. t \in Tree /\ t.at \in Commit
    BY <2>1 DEF Tree
  <2> HIDE DEF t
  <2>3. vendor' \in [Dep -> Tree] /\ vendor'[d] = t /\ touched' \subseteq Dep /\ BuildInv'
    BY <1>1, <1>2, <1>5, <2>2, BecomesStep
  <2>4. WalkInv'
    BY <1>1, <1>5, <2>2, <2>3 DEF WalkInv
  <2>5. FreshInv' /\ LockInv' /\ LockedIsVerified'
    BY <1>1, <1>2, <1>5 DEF FreshInv, Pinned, LockInv, LockIsOneInstall, OldStands, LockedIsVerified
  <2>6. TypeOK'
    BY <1>1, <1>2, <1>5, <2>3 DEF TypeOK, IsManifest
  <2>7. QED
    BY <2>3, <2>4, <2>5, <2>6
<1>6. QED
  BY <1>3, <1>4, <1>5 DEF Clone

\* What passed the checks is an entry of its kind, and holds.
LEMMA EntryFacts ==
  ASSUME Inv, pc = "verify", NEW found, SignatureHolds(Head(left)),
         ProvenanceHolds(Head(left), found)
  PROVE  LET e == Entry(Head(left), found) IN
         e \in Entries /\ Held(e) /\ e.pin = plan[Head(left)].pin
         /\ e.commit = vendor[Head(left)].at
<1> USE DEF Inv
<1> DEFINE d == Head(left)
<1>1. /\ d \in Dep /\ vendor[d].at \in Commit /\ IsManifest(plan)
  BY HeadFacts DEF WalkInv, TypeOK
<1>2. plan[d] \in UNION {Declarations[x] : x \in Dep} /\ plan[d].level \in {"off", "warn", "required"}
  BY <1>1, DeclaredFacts
<1>3. Level(d) \in {"off", "warn", "required"}
  BY <1>2 DEF Level
<1>4. Level(d) = "required" => found = "valid"
  BY DEF ProvenanceHolds
<1>5. (found = "valid") \in BOOLEAN
  OBVIOUS
<1>6. Entry(d, found) \in Entries
  <2>1. plan[d].pin \in {x.pin : x \in UNION {Declarations[y] : y \in Dep}}
    BY <1>2
  <2>2. plan[d].key \in {None} \cup {x.key : x \in UNION {Declarations[y] : y \in Dep}}
    BY <1>2
  <2>3. QED
    BY <1>1, <1>3, <1>5, <2>1, <2>2 DEF Entry, Entries
<1>7. Held(Entry(d, found))
  BY <1>4 DEF Held, Entry, SignatureHolds
<1>8. QED
  BY <1>6, <1>7 DEF Entry

LEMMA VerifyStep == ASSUME Inv, Verify  PROVE Inv'
<1> USE DEF Inv
<1> DEFINE d == Head(left)
<1>1. /\ pc = "verify" /\ left # <<>> /\ d \in Dep /\ d \notin DOMAIN fresh
      /\ UNCHANGED <<manifest, remote, vendor, lock, build, touched, history, disturbances>>
  BY HeadFacts DEF Verify, WalkInv
<1>2. CASE Stop
  BY <1>1, <1>2, RaiseStep
<1>3. CASE ~Stop
  <2>1. PICK found \in Found(d) :
          /\ SignatureHolds(d) /\ ProvenanceHolds(d, found)
          /\ fresh' = [x \in DOMAIN fresh \cup {d} |->
                         IF x = d THEN Entry(d, found) ELSE fresh[x]]
          /\ bad' = (bad \/ Moved(d))
          /\ left' = Tail(left) /\ tagged' = FALSE /\ pc' = "fetch"
          /\ UNCHANGED <<plan, old, allow>>
    BY <1>3 DEF Verify
  <2> DEFINE e == Entry(d, found)
  <2>2. e \in Entries /\ Held(e) /\ e.pin = plan[d].pin /\ e.commit = vendor[d].at
    BY <1>1, <2>1, EntryFacts
  <2> HIDE DEF e
  <2>3. /\ DOMAIN fresh' = DOMAIN fresh \cup {d} /\ fresh'[d] = e
        /\ \A x \in DOMAIN fresh : x # d /\ fresh'[x] = fresh[x]
    BY <1>1, <2>1 DEF e
  <2>4. WalkInv'
    BY <1>1, <2>1, <2>3, HeadFacts DEF WalkInv
  <2>5. FreshInv'
    <3>1. IsAFunction(fresh')
      BY <2>1 DEF IsAFunction
    <3>2. \A x \in DOMAIN fresh' : Held(fresh'[x])
      BY <2>2, <2>3 DEF FreshInv
    <3>3. (~bad' => ~bad) /\ (~bad' => ~Moved(d))
      BY <2>1
    <3>4. ASSUME NEW x \in DOMAIN fresh'
          PROVE  /\ fresh'[x].pin = plan'[x].pin
                 /\ ~bad' /\ ~allow' /\ Pinned(x)' => fresh'[x].commit = old'[x].commit
      <4>1. CASE x = d
        BY <2>1, <2>2, <2>3, <3>3, <4>1 DEF Moved, Pinned
      <4>2. CASE x # d
        BY <1>1, <2>1, <2>3, <3>3, <4>2 DEF FreshInv, Pinned
      <4>3. QED
        BY <4>1, <4>2
    <3>5. QED
      BY <3>1, <3>2, <3>4 DEF FreshInv, Held
  <2>6. LockInv'
    BY <1>1, <2>1 DEF LockInv, LockIsOneInstall, OldStands
  <2>7. TypeOK'
    <3>1. IsLock(fresh')
      BY <1>1, <2>2, <2>3 DEF TypeOK, IsLock
    <3>2. tagged' \in BOOLEAN /\ pc' = "fetch" /\ UNCHANGED <<plan, old>>
      BY <2>1
    <3>3. QED
      BY <1>1, <3>1, <3>2, FilesKept DEF TypeOK, IsManifest
  <2>8. QED
    BY <1>1, <2>4, <2>5, <2>6, <2>7, FilesKept
<1>4. QED
  BY <1>2, <1>3

LEMMA LockStep == ASSUME Inv, RaiseMismatch \/ OpenLock \/ WriteLock  PROVE Inv'
<1> USE DEF Inv
<1>1. CASE RaiseMismatch
  BY <1>1, RaiseStep DEF RaiseMismatch, Raise
<1>2. CASE OpenLock
  <2> USE <1>2 DEF OpenLock
  <2>1. WalkInv' /\ FreshInv'
    BY DEF WalkInv, FreshInv, Pinned
  <2>2. LockInv'
    <3>1. lock' = <<>> /\ agreed' = fresh /\ pc' = "write" /\ fresh' = fresh
      OBVIOUS
    <3>2. \E n \in 0..Len(Order), cut \in BOOLEAN : lock' = Beginning(agreed', n, cut)
      BY <3>1, NoBeginning
    <3>3. QED
      BY <3>1, <3>2 DEF LockInv, LockIsOneInstall, OldStands
  <2>3. LockedIsVerified'
    BY DEF LockedIsVerified, FreshInv, Held
  <2>4. BuildInv'
    BY DEF BuildInv, Turn, Kept, Heads
  <2>5. TypeOK'
    BY EmptyFacts DEF TypeOK, IsManifest, IsLock
  <2>6. QED
    BY <2>1, <2>2, <2>3, <2>4, <2>5
<1>3. CASE WriteLock
  <2> USE <1>3 DEF WriteLock
  <2>1. WalkInv' /\ FreshInv'
    BY StopStep
  <2>2. LockInv'
    <3>1. lock' = agreed' /\ pc' = "idle" /\ IsAFunction(fresh) /\ lock' = fresh
      BY DEF LockInv, FreshInv, Stop
    <3>2. \E n \in 0..Len(Order), cut \in BOOLEAN : lock' = Beginning(agreed', n, cut)
      BY <3>1, WholeBeginning DEF TypeOK, IsLock
    <3>3. QED
      BY <3>1, <3>2 DEF LockInv, LockIsOneInstall, OldStands
  <2>3. LockedIsVerified' /\ BuildInv'
    BY DEF LockedIsVerified, BuildInv, Turn, Kept, Heads
  <2>4. TypeOK'
    <3>1. pc' = "idle" /\ tagged' \in BOOLEAN /\ IsLock(fresh')
      BY EmptyFacts DEF Stop, IsLock
    <3>2. QED
      BY <3>1 DEF TypeOK, IsManifest
  <2>5. QED
    BY <2>1, <2>2, <2>3, <2>4
<1>4. QED
  BY <1>1, <1>2, <1>3

-----------------------------------------------------------------------------
(* The steps of a build.                                                   *)

\* A build touches no file, no install and no lock.
LEMMA BuildStep ==
  ASSUME Inv, BuildInv', touched' \subseteq Dep,
         UNCHANGED <<manifest, remote, vendor, lock, install, history>>
  PROVE  Inv'
<1> USE DEF Inv
<1>1. WalkInv' /\ FreshInv'
  BY DEF WalkInv, FreshInv, Pinned
<1>2. LockInv' /\ LockedIsVerified'
  BY DEF LockInv, LockIsOneInstall, OldStands, LockedIsVerified
<1>3. TypeOK'
  BY DEF TypeOK, IsManifest
<1>4. QED
  BY <1>1, <1>2, <1>3

LEMMA NoBuildStep ==
  ASSUME Inv, build' = NoBuild, touched' = {},
         UNCHANGED <<manifest, remote, vendor, lock, install, history>>
  PROVE  Inv'
<1>1. BuildInv'
  BY DEF BuildInv, NoBuild
<1>2. QED
  BY <1>1, BuildStep

LEMMA CheckStep ==
  ASSUME Inv, BuildStart \/ CheckHead \/ CheckTree \/ Load
  PROVE  Inv'
<1> USE DEF Inv
<1>1. CASE BuildStart
  <2>1. BuildInv'
    BY <1>1 DEF BuildStart, BuildInv, GitDeps
  <2>2. QED
    BY <1>1, <2>1, BuildStep DEF BuildStart
<1>2. CASE CheckHead
  <2>1. PICK i \in DOMAIN Order :
          /\ Turn(i)
          /\ \/ /\ vendor[Order[i]].at = build.lock[Order[i]].commit
                /\ build' = [build EXCEPT !.step = "status"]
                /\ UNCHANGED <<manifest, remote, vendor, lock, install, touched, history, disturbances>>
             \/ BuildRefused
    BY <1>2 DEF CheckHead
  <2>2. CASE BuildRefused
    BY <2>2, NoBuildStep DEF BuildRefused
  <2>3. CASE ~BuildRefused
    <3>1. /\ build' = [step |-> "status", deps |-> build.deps, left |-> build.left, lock |-> build.lock]
          /\ vendor[Order[i]].at = build.lock[Order[i]].commit
          /\ UNCHANGED <<manifest, remote, vendor, lock, install, touched, history>>
      BY <2>1, <2>3 DEF BuildInv
    <3>2. \A j \in DOMAIN Order : Turn(j) => j = i
      BY <2>1, OrderFacts DEF Turn
    <3>3. BuildInv'
      BY <3>1, <3>2 DEF BuildInv, Turn, Kept, Heads
    <3>4. QED
      BY <3>1, <3>3, BuildStep DEF TypeOK
  <2>4. QED
    BY <2>2, <2>3
<1>3. CASE CheckTree
  <2>1. PICK i \in DOMAIN Order :
          Turn(i) /\ ((vendor[Order[i]].clean /\ Accepted(i)) \/ BuildRefused)
    BY <1>3 DEF CheckTree
  <2>2. CASE BuildRefused
    BY <2>2, NoBuildStep DEF BuildRefused
  <2>3. CASE vendor[Order[i]].clean /\ Accepted(i)
    <3> DEFINE d == Order[i]
    <3>1. /\ build' = [step |-> "head", deps |-> build.deps, left |-> build.left \ {i},
                       lock |-> build.lock]
          /\ UNCHANGED <<manifest, remote, vendor, lock, install, touched, history>>
      BY <2>3 DEF BuildInv, Accepted
    <3>2. d \in Dep /\ vendor[d] \in Tree
      BY OrderFacts DEF TypeOK
    <3>3. Kept(d)
      <4>1. Heads(d)
        BY <1>3, <2>1 DEF BuildInv, CheckTree
      <4>2. vendor[d] = [at |-> vendor[d].at, clean |-> TRUE]
        <5>1. CASE vendor[d] = Missing
          BY <2>3, <5>1 DEF Missing
        <5>2. CASE vendor[d] \in [at : Commit, clean : BOOLEAN]
          BY <2>3, <5>2
        <5>3. QED
          BY <3>2, <5>1, <5>2 DEF Tree
      <4>3. QED
        BY <4>1, <4>2 DEF Heads, Kept
    <3>4. BuildInv'
      BY <3>1, <3>3 DEF BuildInv, Kept
    <3>5. QED
      BY <3>1, <3>4, BuildStep DEF TypeOK
  <2>4. QED
    BY <2>1, <2>2, <2>3
<1>4. CASE Load
  BY <1>4, NoBuildStep DEF Load
<1>5. QED
  BY <1>1, <1>2, <1>3, <1>4

-----------------------------------------------------------------------------
(* What happens around them.                                               *)

LEMMA EditManifestStep ==
  ASSUME Inv, NEW d \in Dep, NEW x \in Declarations[d], EditManifest(d, x)
  PROVE  Inv'
<1> USE DEF Inv, EditManifest
<1>1. BuildInv' /\ LockedIsVerified'
  BY DEF BuildInv, Turn, Kept, Heads, LockedIsVerified
<1>2. WalkInv' /\ FreshInv' /\ LockInv'
  BY DEF WalkInv, FreshInv, Pinned, LockInv, LockIsOneInstall, OldStands
<1>3. TypeOK'
  <2>1. IsManifest(manifest')
    BY DEF TypeOK, IsManifest
  <2>2. QED
    BY <2>1 DEF TypeOK, IsManifest
<1>4. QED
  BY <1>1, <1>2, <1>3

LEMMA MoveTagStep ==
  ASSUME Inv, NEW p \in Tags, NEW c \in Commit, MoveTag(p, c)
  PROVE  Inv'
<1> USE DEF Inv, MoveTag
<1>1. BuildInv' /\ LockedIsVerified'
  BY DEF BuildInv, Turn, Kept, Heads, LockedIsVerified
<1>2. WalkInv' /\ FreshInv' /\ LockInv'
  BY DEF WalkInv, FreshInv, Pinned, LockInv, LockIsOneInstall, OldStands
<1>3. TypeOK'
  BY DEF TypeOK, IsManifest
<1>4. QED
  BY <1>1, <1>2, <1>3

LEMMA MoveBranchStep ==
  ASSUME Inv, NEW p \in Tags, NEW b \in Branched \cup {None}, MoveBranch(p, b)
  PROVE  Inv'
<1> USE DEF Inv, MoveBranch
<1>1. BuildInv' /\ LockedIsVerified'
  BY DEF BuildInv, Turn, Kept, Heads, LockedIsVerified
<1>2. WalkInv' /\ FreshInv' /\ LockInv'
  BY DEF WalkInv, FreshInv, Pinned, LockInv, LockIsOneInstall, OldStands
<1>3. TypeOK'
  BY DEF TypeOK, IsManifest
<1>4. QED
  BY <1>1, <1>2, <1>3

LEMMA DeleteLockStep == ASSUME Inv, DeleteLock  PROVE Inv'
<1> USE DEF Inv, DeleteLock
<1>1. BuildInv' /\ LockedIsVerified'
  BY DEF BuildInv, Turn, Kept, Heads, LockedIsVerified
<1>2. WalkInv' /\ FreshInv'
  BY DEF WalkInv, FreshInv, Pinned
<1>3. LockInv'
  <2>1. \E n \in 0..Len(Order), cut \in BOOLEAN : lock' = Beginning(agreed', n, cut)
    BY NoBeginning
  <2>2. pc' = "idle" /\ damaged' = TRUE
    OBVIOUS
  <2>3. QED
    BY <2>1, <2>2 DEF LockInv, LockIsOneInstall, OldStands
<1>4. TypeOK'
  BY EmptyFacts DEF TypeOK, IsManifest, IsLock
<1>5. QED
  BY <1>1, <1>2, <1>3, <1>4

LEMMA EditVendorStep ==
  ASSUME Inv, NEW d \in Dep, NEW c \in Commit, EditVendor(d, c)
  PROVE  Inv'
<1> USE DEF Inv
<1>1. PICK t \in Tree : Becomes(d, t)
  BY DEF EditVendor, Tree
<1>2. UNCHANGED <<manifest, remote, lock, install, build, history>>
  BY DEF EditVendor
<1>3. vendor' \in [Dep -> Tree] /\ touched' \subseteq Dep /\ BuildInv'
  BY <1>1, <1>2, BecomesStep
<1>4. WalkInv'
  <2>1. pc = "verify" => vendor'[Head(left)] = vendor[Head(left)]
    BY <1>1, HeadFacts DEF EditVendor, Becomes, TypeOK, WalkInv
  <2>2. QED
    BY <1>2, <2>1 DEF WalkInv
<1>5. FreshInv' /\ LockInv' /\ LockedIsVerified'
  BY <1>2 DEF FreshInv, Pinned, LockInv, LockIsOneInstall, OldStands, LockedIsVerified
<1>6. TypeOK'
  BY <1>2, <1>3 DEF TypeOK, IsManifest
<1>7. QED
  BY <1>3, <1>4, <1>5, <1>6

LEMMA CrashStep == ASSUME Inv, Crash  PROVE Inv'
<1> USE DEF Inv
<1>1. Stop /\ pc # "idle" /\ UNCHANGED <<manifest, remote, build, agreed>>
  BY DEF Crash
<1>2. CASE pc \notin {"clone", "write"}
  BY <1>1, <1>2, RaiseStep DEF Crash
<1>3. CASE pc = "clone"
  <2>1. PICK t \in {Missing} \cup {[at |-> c, clean |-> FALSE] : c \in Commit} :
          Becomes(Head(left), t)
    BY <1>3 DEF Crash
  <2>2. t \in Tree
    <3>1. \A c \in Commit : [at |-> c, clean |-> FALSE] \in Tree
      BY DEF Tree
    <3>2. Missing \in Tree
      BY DEF Tree
    <3>3. QED
      BY <2>1, <3>1, <3>2
  <2>3. Head(left) \in Dep
    BY <1>3, HeadFacts DEF WalkInv
  <2>4. UNCHANGED <<lock, damaged>>
    BY <1>3 DEF Crash
  <2>5. QED
    BY <1>1, <1>3, <2>1, <2>2, <2>3, <2>4, StopWithTree
<1>4. CASE pc = "write"
  <2>1. /\ damaged' = TRUE /\ UNCHANGED <<vendor, touched>> /\ agreed = fresh
        /\ (\E n \in 0..Len(Order), cut \in BOOLEAN : lock' = Beginning(fresh, n, cut))
             \/ lock' = Unreadable
    BY <1>4 DEF Crash, LockInv
  <2>3. WalkInv' /\ FreshInv'
    BY <1>1, StopStep
  <2>4. LockInv'
    BY <1>1, <2>1 DEF LockInv, LockIsOneInstall, Stop
  <2>5. lock' = Unreadable \/ IsLock(lock')
    BY <2>1, BeginningFacts DEF TypeOK
  <2>6. TypeOK'
    <3>1. pc' = "idle" /\ tagged' \in BOOLEAN /\ IsLock(fresh')
      BY <1>1, EmptyFacts DEF Stop, IsLock
    <3>2. QED
      BY <1>1, <2>1, <2>5, <3>1 DEF TypeOK, IsManifest
  <2>7. LockedIsVerified' /\ BuildInv'
    BY <1>1, <2>1 DEF LockedIsVerified, BuildInv, Turn, Kept, Heads
  <2>8. QED
    BY <2>3, <2>4, <2>6, <2>7
<1>5. QED
  BY <1>2, <1>3, <1>4

-----------------------------------------------------------------------------
(* Every step.                                                             *)

LEMMA InitInv == ASSUME Init  PROVE Inv
<1> USE DEF Init
<1>1. WalkInv /\ FreshInv
  BY EmptyFacts DEF WalkInv, FreshInv
<1>2. LockInv /\ LockedIsVerified
  <2>1. QED
    BY NoBeginning, EmptyFacts DEF LockInv, LockIsOneInstall, OldStands, LockedIsVerified
<1>3. BuildInv
  BY DEF BuildInv, NoBuild
<1>4. TypeOK
  <2>1. vendor \in [Dep -> Tree] /\ IsLock(<<>>)
    BY EmptyFacts DEF Tree, IsLock
  <2>2. QED
    BY <2>1 DEF TypeOK, IsManifest
<1>5. QED
  BY <1>1, <1>2, <1>3, <1>4 DEF Inv

LEMMA StutterStep == ASSUME Inv, UNCHANGED vars  PROVE Inv'
<1>1. BuildInv'
  BY DEF Inv, vars, BuildInv, Turn, Kept, Heads
<1>2. QED
  BY <1>1, BuildStep DEF vars, Inv, TypeOK

LEMMA InvStep == ASSUME Inv, [Next]_vars  PROVE Inv'
BY StartStep, PreCheckStep, RemoveStep, CloneStep, VerifyStep, LockStep, CheckStep,
   EditManifestStep, EditVendorStep, MoveTagStep, MoveBranchStep, DeleteLockStep, CrashStep, StutterStep
   DEF Next

-----------------------------------------------------------------------------
(* What a step may never do.                                               *)

\* The entries of the last install are replaced by those of the next alone.
CommitsKept ==
  \A d \in DOMAIN agreed \cap DOMAIN agreed' :
    agreed'[d].pin = agreed[d].pin /\ agreed'[d].commit # agreed[d].commit
      => allow \/ d \notin DOMAIN old

LEMMA CommitsStep == ASSUME Inv, [Next]_vars  PROVE CommitsKept
<1>1. CASE agreed' = agreed
  BY <1>1 DEF CommitsKept
<1>2. CASE OpenLock
  <2>1. SUFFICES ASSUME NEW d \in DOMAIN agreed \cap DOMAIN fresh,
                        fresh[d].pin = agreed[d].pin, ~allow, d \in DOMAIN old
                 PROVE  fresh[d].commit = agreed[d].commit
    BY <1>2 DEF CommitsKept, OpenLock
  <2>2. pc = "fetch" /\ ~bad
    BY <1>2 DEF OpenLock
  <2>3. old[d].pin = agreed[d].pin /\ old[d].commit = agreed[d].commit
    BY <2>1, <2>2 DEF Inv, LockInv, OldStands
  <2>4. fresh[d].pin = plan[d].pin /\ (Pinned(d) => fresh[d].commit = old[d].commit)
    BY <2>1, <2>2 DEF Inv, FreshInv
  <2>5. QED
    BY <2>1, <2>3, <2>4 DEF Pinned
<1>3. QED
  BY <1>1, <1>2 DEF Next, vars, Start, PreCheck, PreChecked, CheckPathDep, Remove, Clone, Verify,
     RaiseMismatch, Raise, WriteLock, BuildStart, CheckHead, CheckTree, Accepted, Load, BuildRefused,
     EditManifest, EditVendor, MoveTag, MoveBranch, DeleteLock, Crash

LEMMA LoadStep ==
  ASSUME Inv, Load, NEW i \in build.deps, Order[i] \notin touched
  PROVE  vendor[Order[i]] = [at |-> build.lock[Order[i]].commit, clean |-> TRUE]
BY DEF Inv, BuildInv, Load, Kept

-----------------------------------------------------------------------------
(* The theorems.                                                           *)

THEOREM Invariance == Spec => []Inv
<1>1. Init => Inv
  BY InitInv
<1>2. Inv /\ [Next]_vars => Inv'
  BY InvStep
<1>3. QED
  BY <1>1, <1>2, PTL DEF Spec

\* What install resolves and write_lock writes are entries with a commit, and
\* no dependency is resolved twice.
THEOREM TypeCorrect == Spec => []TypeOK
BY Invariance, PTL DEF Inv

\* A capa.lock that can be read is what one install resolved, or its beginning,
\* the last entry perhaps without the key.
THEOREM LockOfOneInstall == Spec => []LockIsOneInstall
BY Invariance, PTL DEF Inv, LockInv

\* _verify_signed_pin and _verify_slsa_provenance come before the entry, and no
\* failure of another dependency, move of a tag or crash brings one past them.
THEOREM LockVerified == Spec => []LockedIsVerified
BY Invariance, PTL DEF Inv

\* install never replaces the commit of a pin that is locked without --update.
THEOREM CommitsStand == Spec => LockedCommitsStand
<1>1. Inv /\ [Next]_vars => [CommitsKept]_vars
  BY CommitsStep
<1>2. QED
  BY <1>1, Invariance, PTL DEF Spec, LockedCommitsStand, CommitsKept

\* verify_vendored_deps: what a build goes on to load is what was locked, but
\* for the trees that changed while it looked.
THEOREM BuildsReadLocked == Spec => BuildReadsLocked
<1>1. Inv /\ [Next]_vars =>
        [Load => \A i \in build.deps : LET d == Order[i] IN
           d \notin touched => vendor[d] = [at |-> build.lock[d].commit, clean |-> TRUE]]_vars
  BY LoadStep
<1>2. QED
  BY <1>1, Invariance, PTL DEF Spec, BuildReadsLocked
================================================================================
