----------------------------- MODULE ServeProofs -----------------------------
(***************************************************************************)
(* Proofs about Serve, for every number of objects, clients, endpoints and *)
(* rules.                                                                  *)
(*                                                                         *)
(* The argument about sockets follows a client: it waits in at most one    *)
(* place of one backlog, and not while it has an accepted socket, so that  *)
(* accepting it cannot link it twice.                                      *)
(***************************************************************************)
EXTENDS Serve, FiniteSetTheorems, SequenceTheorems, TLAPS

USE ServeAssumption DEF object, sockets, streams

\* A client is linked by the one connection that holds it, an endpoint bound
\* by the one object that listens on it.
LinkInv ==
  /\ \A s \in Object : \A g, h \in DOMAIN conns[s] : g = h
  /\ \A s, t \in Object : \A g \in DOMAIN conns[s] : \A h \in DOMAIN conns[t] :
       conns[s][g] = conns[t][h] => s = t
  /\ \A p \in Peer : p \in linked <=> \E s \in Object : p \in Open(s)
BoundInv ==
  /\ \A s, t \in Object : listener[s] # None /\ listener[s] = listener[t] => s = t
  /\ \A e \in Endpoint : e \in bound <=> \E s \in Object : listener[s] = e

\* A waiting client has no socket here, and waits once.
QueueInv ==
  \A e, f \in Endpoint : \A i \in DOMAIN waiting[e] :
    /\ waiting[e][i] \notin linked
    /\ \A j \in DOMAIN waiting[f] : waiting[e][i] = waiting[f][j] => e = f /\ i = j

\* An object keeps every rule of those it was narrowed from, which all exist.
NarrowInv ==
  /\ \A s \in Object \ made : listener[s] = None
  /\ \A s \in made : above[s] \subseteq made /\ \A t \in above[s] : rules[t] \subseteq rules[s]
  /\ \A s \in made : listener[s] # None => Allows(rules[s], asked[s])

Inv == TypeOK /\ LinkInv /\ BoundInv /\ QueueInv /\ NarrowInv

-----------------------------------------------------------------------------
(* Steps that move no socket.                                              *)

core == <<made, rules, above, listener, asked, conns, nextConn, bound, waiting, linked>>

LEMMA QuietStep ==
  ASSUME Inv, UNCHANGED core, left' \subseteq Peer, unread' \in [Peer -> 0..MaxUnread]
  PROVE  Inv'
<1>1. TypeOK'
  BY DEF Inv, TypeOK, core
<1>2. LinkInv' /\ BoundInv'
  BY DEF Inv, LinkInv, BoundInv, core, Open
<1>3. QueueInv' /\ NarrowInv'
  BY DEF Inv, QueueInv, NarrowInv, core, Allows
<1>4. QED
  BY <1>1, <1>2, <1>3 DEF Inv

LEMMA RefuseStep == ASSUME Inv, Refuse  PROVE Inv'
BY QuietStep DEF Refuse, core, Inv, TypeOK

LEMMA ConnType ==
  ASSUME TypeOK, NEW s \in Object, NEW h \in DOMAIN conns[s]
  PROVE  h \in 1..(nextConn[s] - 1) /\ conns[s][h] \in Peer
BY DEF TypeOK

-----------------------------------------------------------------------------
(* The calls of a program.                                                 *)

LEMMA RestrictStep ==
  ASSUME Inv, NEW s \in Object, NEW n \in Object, NEW rule \in Rule, RestrictTo(s, n, rule)
  PROVE  Inv'
<1> USE DEF RestrictTo, Inv
<1>1. TypeOK'
  BY DEF TypeOK
<1>2. LinkInv' /\ BoundInv' /\ QueueInv'
  BY DEF LinkInv, BoundInv, QueueInv, Open
<1>3. NarrowInv'
  <2>1. \A t \in Object \ {n} : rules'[t] = rules[t] /\ above'[t] = above[t]
    BY DEF TypeOK
  <2>2. rules'[n] = rules[s] \cup {rule} /\ above'[n] = above[s] \cup {s}
    BY DEF TypeOK
  <2>3. n \notin made /\ s \in made /\ n # s /\ made \subseteq Object /\ made' = made \cup {n}
    BY DEF TypeOK
  <2>4. ASSUME NEW t \in made', NEW u \in above'[t]
        PROVE  u \in made' /\ rules'[u] \subseteq rules'[t]
    <3>1. CASE t = n
      BY <2>1, <2>2, <2>3, <2>4, <3>1 DEF NarrowInv
    <3>2. CASE t # n
      BY <2>1, <2>3, <2>4, <3>2 DEF NarrowInv
    <3>3. QED
      BY <3>1, <3>2
  <2>5. \A t \in made' : listener'[t] # None => Allows(rules'[t], asked'[t])
    BY <2>1, <2>3 DEF NarrowInv, Allows
  <2>6. QED
    BY <2>3, <2>4, <2>5 DEF NarrowInv
<1>4. QED
  BY <1>1, <1>2, <1>3

LEMMA ListenStep ==
  ASSUME Inv, NEW s \in Object, NEW r \in Request, Listen(s, r)
  PROVE  Inv'
<1>1. CASE Refuse
  BY <1>1, RefuseStep
<1>2. CASE ~Refuse
  <2> USE DEF Inv
  <2>1. /\ s \in made /\ listener[s] = None /\ Allows(rules[s], r)
        /\ asked' = [asked EXCEPT ![s] = r]
        /\ UNCHANGED <<object, conns, nextConn, waiting, linked, streams>>
    BY <1>2 DEF Listen
  <2>2. PICK e \in Endpoints[r] \ bound :
          listener' = [listener EXCEPT ![s] = e] /\ bound' = bound \cup {e}
    BY <1>2 DEF Listen
  <2>3. e \in Endpoint /\ e # None
    BY <2>2 DEF Endpoint
  <2>4. TypeOK'
    BY <2>1, <2>2, <2>3 DEF TypeOK
  <2>5. LinkInv' /\ QueueInv'
    BY <2>1 DEF LinkInv, QueueInv, Open
  <2>6. \A t \in Object : listener'[t] = IF t = s THEN e ELSE listener[t]
    BY <2>2 DEF TypeOK
  <2>7. BoundInv'
    <3>1. \A t \in Object : listener[t] # e
      BY <2>2, <2>3 DEF BoundInv
    <3>2. \A t, u \in Object : listener'[t] # None /\ listener'[t] = listener'[u] => t = u
      BY <2>6, <3>1 DEF BoundInv
    <3>3. \A f \in Endpoint : f \in bound' <=> \E t \in Object : listener'[t] = f
      BY <2>1, <2>2, <2>3, <2>6 DEF BoundInv
    <3>4. QED
      BY <3>2, <3>3 DEF BoundInv
  <2>8. NarrowInv'
    <3>1. \A t \in Object : asked'[t] = IF t = s THEN r ELSE asked[t]
      BY <2>1 DEF TypeOK
    <3>2. made \subseteq Object
      BY DEF TypeOK
    <3>3. QED
      BY <2>1, <2>6, <3>1, <3>2 DEF NarrowInv, Allows
  <2>9. QED
    BY <2>4, <2>5, <2>7, <2>8
<1>3. QED
  BY <1>1, <1>2

\* A step that only takes sockets away: the connections of s that are not in
\* kept are closed, and every other connection stays.
LEMMA UnlinkStep ==
  ASSUME Inv, NEW s \in Object, NEW kept \in SUBSET DOMAIN conns[s],
         NEW f, f = [h \in kept |-> conns[s][h]], conns' = [conns EXCEPT ![s] = f],
         linked' = linked \ {conns[s][h] : h \in DOMAIN conns[s] \ kept}
  PROVE  LinkInv' /\ \A t \in Object : DOMAIN conns'[t] \subseteq DOMAIN conns[t]
<1> USE DEF Inv
<1>1. /\ DOMAIN conns'[s] = kept /\ \A h \in kept : conns'[s][h] = conns[s][h]
      /\ \A t \in Object \ {s} : conns'[t] = conns[t]
  BY DEF TypeOK
<1>2. \A t \in Object : \A h \in DOMAIN conns'[t] :
        h \in DOMAIN conns[t] /\ conns'[t][h] = conns[t][h]
  BY <1>1
<1>3. /\ \A t \in Object : \A g, h \in DOMAIN conns'[t] : g = h
      /\ \A t, u \in Object : \A g \in DOMAIN conns'[t] : \A h \in DOMAIN conns'[u] :
           conns'[t][g] = conns'[u][h] => t = u
  BY <1>2 DEF LinkInv
<1>4. ASSUME NEW p \in Peer
      PROVE  p \in linked' <=> \E t \in Object : p \in Open(t)'
  <2>1. ASSUME p \in linked'  PROVE \E t \in Object : p \in Open(t)'
    <3>1. PICK t \in Object : p \in Open(t)
      BY <2>1 DEF LinkInv
    <3>2. PICK h \in DOMAIN conns[t] : p = conns[t][h]
      BY <3>1 DEF Open
    <3>3. h \in DOMAIN conns'[t] /\ conns'[t][h] = p
      BY <1>1, <2>1, <3>2
    <3>4. QED
      BY <3>3 DEF Open
  <2>2. ASSUME NEW t \in Object, p \in Open(t)'  PROVE p \in linked'
    <3>1. PICK h \in DOMAIN conns'[t] : p = conns'[t][h]
      BY <2>2 DEF Open
    <3>2. h \in DOMAIN conns[t] /\ conns[t][h] = p
      BY <1>2, <3>1
    <3>3. p \in linked
      BY <3>2 DEF LinkInv, Open
    <3>4. ASSUME NEW g \in DOMAIN conns[s] \ kept  PROVE conns[s][g] # p
      <4>1. SUFFICES ASSUME conns[s][g] = p  PROVE FALSE
        OBVIOUS
      <4>2. t = s
        BY <3>2, <4>1 DEF LinkInv
      <4>3. g = h
        BY <3>2, <4>2 DEF LinkInv
      <4>4. QED
        BY <1>1, <3>1, <4>2, <4>3
    <3>5. QED
      BY <3>3, <3>4
  <2>3. QED
    BY <2>1, <2>2
<1>5. QED
  BY <1>2, <1>3, <1>4 DEF LinkInv

LEMMA StopStep == ASSUME Inv, NEW s \in Object, Stop(s)  PROVE Inv'
<1>1. CASE Refuse
  BY <1>1, RefuseStep
<1>2. CASE ~Refuse
  <2> USE DEF Inv
  <2>1. /\ s \in made /\ listener[s] # None
        /\ linked' = linked \ Open(s)
        /\ conns' = [conns EXCEPT ![s] = <<>>]
        /\ bound' = bound \ {listener[s]}
        /\ waiting' = [waiting EXCEPT ![listener[s]] = <<>>]
        /\ listener' = [listener EXCEPT ![s] = None]
        /\ asked' = [asked EXCEPT ![s] = None]
        /\ UNCHANGED <<object, nextConn, streams>>
    BY <1>2 DEF Stop
  <2>2. listener[s] \in Endpoint
    BY <2>1 DEF TypeOK
  <2>3. <<>> = [h \in {} |-> conns[s][h]] /\ DOMAIN <<>> = {}
    OBVIOUS
  <2>4. TypeOK'
    <3>1. <<>> \in [{} -> Peer]
      BY <2>3
    <3>2. conns' \in [Object -> UNION {[D -> Peer] : D \in SUBSET (1..MaxConn)}]
      BY <2>1, <3>1, ZenonT(30) DEF TypeOK
    <3>3. \A t \in Object : DOMAIN conns'[t] \subseteq 1..(nextConn'[t] - 1)
      BY <2>1, <2>3 DEF TypeOK
    <3>4. waiting' \in [Endpoint -> Seq(Peer)]
      BY <2>1 DEF TypeOK
    <3>5. listener' \in [Object -> Endpoint \cup {None}] /\ asked' \in [Object -> Request \cup {None}]
      BY <2>1 DEF TypeOK
    <3>6. QED
      BY <2>1, <3>2, <3>3, <3>4, <3>5 DEF TypeOK
  <2>5. LinkInv'
    <3>1. Open(s) = {conns[s][h] : h \in DOMAIN conns[s] \ {}}
      BY DEF Open
    <3>2. QED
      BY <2>1, <2>3, <3>1, UnlinkStep
  <2>6. \A t \in Object : listener'[t] = IF t = s THEN None ELSE listener[t]
    BY <2>1 DEF TypeOK
  <2>7. BoundInv'
    BY <2>1, <2>2, <2>6 DEF BoundInv
  <2>8. QueueInv'
    <3>1. \A e \in Endpoint : \A i \in DOMAIN waiting'[e] :
            i \in DOMAIN waiting[e] /\ waiting'[e][i] = waiting[e][i]
      BY <2>1, <2>3 DEF TypeOK
    <3>2. linked' \subseteq linked
      BY <2>1
    <3>3. QED
      BY <3>1, <3>2 DEF QueueInv
  <2>9. NarrowInv'
    <3>1. \A t \in Object \ {s} : asked'[t] = asked[t]
      BY <2>1 DEF TypeOK
    <3>2. made \subseteq Object
      BY DEF TypeOK
    <3>3. QED
      BY <2>1, <2>6, <3>1, <3>2 DEF NarrowInv, Allows
  <2>10. QED
    BY <2>4, <2>5, <2>7, <2>8, <2>9
<1>3. QED
  BY <1>1, <1>2

LEMMA CloseStep == ASSUME Inv, NEW s \in Object, NEW h, Close(s, h)  PROVE Inv'
<1>1. CASE Refuse
  BY <1>1, RefuseStep
<1>2. CASE ~Refuse
  <2> USE DEF Inv
  <2> DEFINE f == [x \in DOMAIN conns[s] \ {h} |-> conns[s][x]]
  <2>1. /\ h \in DOMAIN conns[s]
        /\ conns' = [conns EXCEPT ![s] = f]
        /\ linked' = linked \ {conns[s][h]}
        /\ UNCHANGED <<object, sockets, nextConn, waiting, streams>>
    BY <1>2 DEF Close
  <2>2. f \in UNION {[D -> Peer] : D \in SUBSET (1..MaxConn)}
    <3>1. PICK D \in SUBSET (1..MaxConn) : conns[s] \in [D -> Peer]
      BY DEF TypeOK
    <3>2. f \in [D \ {h} -> Peer] /\ D \ {h} \in SUBSET (1..MaxConn)
      BY <3>1
    <3>3. QED
      BY <3>2
  <2>3. LinkInv' /\ \A t \in Object : DOMAIN conns'[t] \subseteq DOMAIN conns[t]
    <3>1. DOMAIN conns[s] \ {h} \in SUBSET DOMAIN conns[s]
      OBVIOUS
    <3>2. {conns[s][h]} = {conns[s][x] : x \in DOMAIN conns[s] \ (DOMAIN conns[s] \ {h})}
      BY <2>1
    <3>3. QED
      BY <2>1, <3>1, <3>2, UnlinkStep
  <2> HIDE DEF f
  <2>4. TypeOK'
    BY <2>1, <2>2, <2>3 DEF TypeOK
  <2>5. BoundInv' /\ NarrowInv'
    BY <2>1 DEF BoundInv, NarrowInv, Allows
  <2>6. QueueInv'
    BY <2>1 DEF QueueInv
  <2>7. QED
    BY <2>3, <2>4, <2>5, <2>6
<1>3. QED
  BY <1>1, <1>2

LEMMA QueueTypes ==
  ASSUME TypeOK, NEW e \in Endpoint
  PROVE  /\ waiting[e] \in Seq(Peer) /\ Len(waiting[e]) \in Nat
         /\ DOMAIN waiting[e] = 1..Len(waiting[e])
         /\ \A i \in DOMAIN waiting[e] : waiting[e][i] \in Peer
BY DEF TypeOK

LEMMA AcceptStep == ASSUME Inv, NEW s \in Object, Accept(s)  PROVE Inv'
<1>1. CASE Refuse
  BY <1>1, RefuseStep
<1>2. CASE ~Refuse
  <2> USE DEF Inv
  <2> DEFINE e == listener[s]
             w == waiting[e]
             n == nextConn[s]
             p == Head(w)
  <2>1. /\ s \in made /\ e # None /\ DOMAIN conns[s] = {} /\ w # <<>> /\ n <= MaxConn
        /\ conns' = [conns EXCEPT ![s] = Add(conns[s], n, p)]
        /\ linked' = linked \cup {p}
        /\ nextConn' = [nextConn EXCEPT ![s] = n + 1]
        /\ waiting' = [waiting EXCEPT ![e] = Tail(w)]
        /\ UNCHANGED <<object, sockets, streams>>
    BY <1>2 DEF Accept
  <2>2. e \in Endpoint
    BY <2>1 DEF TypeOK
  <2>3. /\ w \in Seq(Peer) /\ Len(w) \in Nat \ {0} /\ p = w[1] /\ p \in Peer
        /\ 1 \in DOMAIN w /\ Tail(w) \in Seq(Peer)
        /\ \A i \in DOMAIN Tail(w) : i + 1 \in DOMAIN w /\ Tail(w)[i] = w[i + 1]
                                  /\ i \in Nat /\ i + 1 # 1
    BY <2>1, <2>2, QueueTypes
  <2>4. n \in 1..MaxConn
    BY <2>1 DEF TypeOK
  <2> HIDE DEF p, w, n, e
  <2>5. Add(conns[s], n, p) \in [{n} -> Peer] /\ Add(conns[s], n, p)[n] = p
    BY <2>1, <2>3 DEF Add
  <2>6. /\ DOMAIN conns'[s] = {n} /\ conns'[s][n] = p
        /\ \A t \in Object \ {s} : conns'[t] = conns[t]
    BY <2>1, <2>5 DEF TypeOK
  <2>7. TypeOK'
    <3>1. Add(conns[s], n, p) \in UNION {[D -> Peer] : D \in SUBSET (1..MaxConn)}
      BY <2>4, <2>5
    <3>2. conns' \in [Object -> UNION {[D -> Peer] : D \in SUBSET (1..MaxConn)}]
      BY <2>1, <3>1 DEF TypeOK
    <3>3. nextConn' \in [Object -> 1..(MaxConn + 1)]
      BY <2>1, <2>4 DEF TypeOK
    <3>4. ASSUME NEW t \in Object  PROVE DOMAIN conns'[t] \subseteq 1..(nextConn'[t] - 1)
      BY <2>1, <2>4, <2>6 DEF TypeOK
    <3>5. waiting' \in [Endpoint -> Seq(Peer)] /\ linked' \subseteq Peer
      BY <2>1, <2>3 DEF TypeOK
    <3>6. QED
      BY <2>1, <3>2, <3>3, <3>4, <3>5 DEF TypeOK
  <2>8. p \notin linked
    BY <2>2, <2>3 DEF QueueInv, w
  <2>9. LinkInv'
    <3>1. \A t \in Object : \A g, h \in DOMAIN conns'[t] : g = h
      BY <2>6 DEF LinkInv
    <3>2. \A t \in Object \ {s} : \A h \in DOMAIN conns[t] : conns[t][h] # p
      BY <2>3, <2>8 DEF LinkInv, Open
    <3>3. ASSUME NEW t \in Object, NEW u \in Object, NEW g \in DOMAIN conns'[t],
                 NEW h \in DOMAIN conns'[u], conns'[t][g] = conns'[u][h]
          PROVE  t = u
      BY <2>6, <3>2, <3>3 DEF LinkInv
    <3>4. Open(s)' = {p} /\ Open(s) = {} /\ \A t \in Object \ {s} : Open(t)' = Open(t)
      BY <2>1, <2>6 DEF Open
    <3>5. \A q \in Peer : q \in linked' <=> \E t \in Object : q \in Open(t)'
      BY <2>1, <3>4 DEF LinkInv
    <3>6. QED
      BY <3>1, <3>3, <3>5 DEF LinkInv
  <2>10. BoundInv' /\ NarrowInv'
    BY <2>1 DEF BoundInv, NarrowInv, Allows
  <2>11. QueueInv'
    <3>1. waiting'[e] = Tail(w) /\ \A f \in Endpoint \ {e} : waiting'[f] = waiting[f]
      BY <2>1, <2>2 DEF TypeOK
    <3> DEFINE was(f, i) == IF f = e THEN i + 1 ELSE i
    <3>2. ASSUME NEW f \in Endpoint, NEW i \in DOMAIN waiting'[f]
          PROVE  /\ was(f, i) \in DOMAIN waiting[f] /\ waiting'[f][i] = waiting[f][was(f, i)]
                 /\ i \in Nat /\ (f = e => was(f, i) # 1)
      <4>1. CASE f = e
        BY <2>3, <3>1, <3>2, <4>1 DEF w
      <4>2. CASE f # e
        <5>1. waiting'[f] = waiting[f]
          BY <3>1, <4>2
        <5>2. QED
          BY <3>2, <4>2, <5>1, QueueTypes
      <4>3. QED
        BY <4>1, <4>2
    <3>3. ASSUME NEW f \in Endpoint, NEW i \in DOMAIN waiting'[f]
          PROVE  waiting'[f][i] \notin linked'
      <4>1. waiting[f][was(f, i)] \notin linked
        BY <3>2 DEF QueueInv
      <4>2. waiting[f][was(f, i)] # p
        BY <2>2, <2>3, <3>2 DEF QueueInv, w
      <4>3. QED
        BY <2>1, <3>2, <4>1, <4>2
    <3>4. ASSUME NEW f \in Endpoint, NEW g \in Endpoint, NEW i \in DOMAIN waiting'[f],
                 NEW j \in DOMAIN waiting'[g], waiting'[f][i] = waiting'[g][j]
          PROVE  f = g /\ i = j
      <4>1. f = g /\ was(f, i) = was(g, j)
        <5> HIDE DEF was
        <5>1. QED
          BY <3>2, <3>4 DEF QueueInv
      <4>2. QED
        BY <3>2, <4>1
    <3>5. QED
      BY <3>3, <3>4 DEF QueueInv
  <2>12. QED
    BY <2>7, <2>9, <2>10, <2>11
<1>3. QED
  BY <1>1, <1>2

-----------------------------------------------------------------------------
(* Clients.                                                                *)

LEMMA ConnectStep ==
  ASSUME Inv, NEW p \in Peer, NEW e \in Endpoint, PeerConnects(p, e)
  PROVE  Inv'
<1> USE DEF Inv
<1> DEFINE w == waiting[e]
<1>1. /\ Away(p) /\ waiting' = [waiting EXCEPT ![e] = Append(w, p)]
      /\ unread' = [unread EXCEPT ![p] = 0]
      /\ UNCHANGED <<object, sockets, conns, nextConn, linked, left>>
  BY DEF PeerConnects
<1>2. /\ Append(w, p) \in Seq(Peer) /\ Append(w, p)[Len(w) + 1] = p
      /\ \A i \in DOMAIN Append(w, p) :
           i = Len(w) + 1 \/ (i \in DOMAIN w /\ Append(w, p)[i] = w[i])
  BY QueueTypes, AppendProperties
<1> HIDE DEF w
<1>3. TypeOK'
  BY <1>1, <1>2 DEF TypeOK
<1>4. LinkInv' /\ BoundInv' /\ NarrowInv'
  BY <1>1 DEF LinkInv, BoundInv, NarrowInv, Allows, Open
<1>5. QueueInv'
  <2>1. waiting'[e] = Append(w, p) /\ \A f \in Endpoint \ {e} : waiting'[f] = waiting[f]
    BY <1>1 DEF TypeOK
  <2>2. ASSUME NEW f \in Endpoint, NEW i \in DOMAIN waiting'[f]
        PROVE  \/ f = e /\ i = Len(w) + 1 /\ waiting'[f][i] = p
               \/ /\ i \in DOMAIN waiting[f] /\ waiting'[f][i] = waiting[f][i]
                  /\ waiting[f][i] # p
    BY <1>1, <1>2, <2>1 DEF Away, w
  <2>3. QED
    BY <1>1, <2>2 DEF QueueInv, Away
<1>6. QED
  BY <1>3, <1>4, <1>5

-----------------------------------------------------------------------------
(* Every step.                                                             *)

LEMMA InitInv == ASSUME Init  PROVE Inv
<1>1. <<>> \in [{} -> Peer] /\ DOMAIN <<>> = {} /\ <<>> \in Seq(Peer)
  OBVIOUS
<1>2. TypeOK
  <2>1. <<>> \in UNION {[D -> Peer] : D \in SUBSET (1..MaxConn)}
    BY <1>1
  <2>2. conns \in [Object -> UNION {[D -> Peer] : D \in SUBSET (1..MaxConn)}]
    BY <2>1 DEF Init
  <2>3. nextConn \in [Object -> 1..(MaxConn + 1)] /\ unread \in [Peer -> 0..MaxUnread]
    BY DEF Init
  <2>4. \A s \in Object : DOMAIN conns[s] \subseteq 1..(nextConn[s] - 1)
    BY <1>1 DEF Init
  <2>5. waiting \in [Endpoint -> Seq(Peer)]
    BY <1>1 DEF Init
  <2>6. /\ rules \in [Object -> SUBSET Rule] /\ above \in [Object -> SUBSET Object]
        /\ listener \in [Object -> Endpoint \cup {None}]
        /\ asked \in [Object -> Request \cup {None}]
    BY DEF Init
  <2>7. QED
    BY <2>2, <2>3, <2>4, <2>5, <2>6 DEF Init, TypeOK
<1>3. LinkInv /\ BoundInv
  BY <1>1 DEF Init, LinkInv, BoundInv, Open
<1>4. QueueInv /\ NarrowInv
  BY <1>1 DEF Init, QueueInv, NarrowInv
<1>5. QED
  BY <1>2, <1>3, <1>4 DEF Inv

LEMMA StreamStep ==
  ASSUME Inv, NEW s \in Object, NEW h, NEW n \in Nat, Recv(s, h, n)
  PROVE  Inv'
<1>1. CASE Refuse
  BY <1>1, RefuseStep
<1>2. CASE ~Refuse
  <2>1. PICK k \in 0..Lesser(n, unread[conns[s][h]]) :
          unread' = [unread EXCEPT ![conns[s][h]] = @ - k]
    BY <1>2 DEF Recv
  <2>2. h \in DOMAIN conns[s] /\ left' = left /\ UNCHANGED core
    BY <1>2 DEF Recv, core
  <2>3. conns[s][h] \in Peer /\ unread[conns[s][h]] \in 0..MaxUnread
    BY <2>2, ConnType DEF Inv, TypeOK
  <2>4. unread[conns[s][h]] - k \in 0..MaxUnread
    BY <2>1, <2>3 DEF Lesser
  <2>5. unread' \in [Peer -> 0..MaxUnread]
    BY <2>1, <2>3, <2>4 DEF Inv, TypeOK
  <2>6. QED
    BY <2>2, <2>5, QuietStep DEF Inv, TypeOK
<1>3. QED
  BY <1>1, <1>2

LEMMA InvStep == ASSUME Inv, [Next]_vars  PROVE Inv'
<1>1. ASSUME NEW s \in Object, NEW h \in 1..MaxConn, Send(s, h)  PROVE Inv'
  <2>1. UNCHANGED core /\ left' = left /\ unread' = unread
    BY <1>1 DEF Send, Refuse, core
  <2>2. QED
    BY <2>1, QuietStep DEF Inv, TypeOK
<1>2. ASSUME NEW p \in Peer, PeerWrites(p) \/ PeerLeaves(p)  PROVE Inv'
  <2>1. UNCHANGED core /\ left' \subseteq Peer
    BY <1>2 DEF PeerWrites, PeerLeaves, core, Inv, TypeOK
  <2>2. unread' \in [Peer -> 0..MaxUnread]
    <3>1. unread \in [Peer -> 0..MaxUnread]
      BY DEF Inv, TypeOK
    <3>2. CASE PeerWrites(p)
      <4>1. unread[p] + 1 \in 0..MaxUnread
        BY <3>1, <3>2 DEF PeerWrites
      <4>2. QED
        BY <3>1, <3>2, <4>1 DEF PeerWrites
    <3>3. CASE PeerLeaves(p)
      BY <3>1, <3>3 DEF PeerLeaves
    <3>4. QED
      BY <1>2, <3>2, <3>3
  <2>3. QED
    BY <2>1, <2>2, QuietStep
<1>3. CASE UNCHANGED vars
  <2>1. UNCHANGED core /\ left' = left /\ unread' = unread
    BY <1>3 DEF vars, core
  <2>2. QED
    BY <2>1, QuietStep DEF Inv, TypeOK
<1>4. ASSUME NEW s \in Object, NEW h \in 1..MaxConn, NEW n \in 0..MaxUnread, Recv(s, h, n)
      PROVE  Inv'
  BY <1>4, StreamStep
<1>5. QED
  BY <1>1, <1>2, <1>3, <1>4, RestrictStep, ListenStep, StopStep, AcceptStep, CloseStep,
     ConnectStep DEF Next

-----------------------------------------------------------------------------
(* What the invariant gives.                                               *)

LEMMA InvAccounts == ASSUME Inv  PROVE SocketsAccounted
<1> USE DEF Inv
<1>1. ASSUME NEW s \in Object  PROVE Cardinality(DOMAIN conns[s]) <= 1
  <2>1. CASE DOMAIN conns[s] = {}
    BY <2>1, FS_EmptySet
  <2>2. ASSUME NEW h \in DOMAIN conns[s]  PROVE Cardinality(DOMAIN conns[s]) <= 1
    <3>1. DOMAIN conns[s] = {h}
      BY DEF LinkInv
    <3>2. QED
      BY <3>1, FS_Singleton
  <2>3. QED
    BY <2>1, <2>2
<1>2. bound = {listener[s] : s \in Object} \ {None}
  BY DEF BoundInv, TypeOK
<1>3. linked = UNION {Open(s) : s \in Object}
  <2>1. \A s \in Object : Open(s) \subseteq Peer
    BY ConnType DEF Open
  <2>2. QED
    BY <2>1 DEF LinkInv, TypeOK
<1>4. \A s, t \in Object : s # t =>
        /\ Open(s) \cap Open(t) = {}
        /\ listener[s] # None => listener[s] # listener[t]
  BY DEF LinkInv, BoundInv, Open
<1>5. QED
  BY <1>1, <1>2, <1>3, <1>4 DEF SocketsAccounted

LEMMA InvListens == ASSUME Inv  PROVE ListensInsideAncestors
BY DEF Inv, TypeOK, NarrowInv, ListensInsideAncestors, Allows

\* Only accept adds a connection, and under an id never given before.
IdsKept ==
  \A s \in Object : \A h \in 1..(nextConn[s] - 1) :
    h \in DOMAIN conns'[s] => h \in DOMAIN conns[s] /\ conns'[s][h] = conns[s][h]

LEMMA IdsStep == ASSUME Inv, [Next]_vars  PROVE IdsKept
<1> USE DEF Inv
<1>1. ASSUME conns' = conns  PROVE IdsKept
  BY <1>1 DEF IdsKept
<1>2. ASSUME NEW s \in Object, Stop(s)  PROVE IdsKept
  <2>1. CASE conns' = [conns EXCEPT ![s] = <<>>]
    <3>1. DOMAIN conns'[s] = {} /\ \A t \in Object \ {s} : conns'[t] = conns[t]
      BY <2>1 DEF TypeOK
    <3>2. QED
      BY <3>1 DEF IdsKept
  <2>2. QED
    BY <1>1, <1>2, <2>1 DEF Stop, Refuse
<1>3. ASSUME NEW s \in Object, Accept(s)  PROVE IdsKept
  <2> DEFINE p == Head(waiting[listener[s]])
  <2>1. CASE conns' = [conns EXCEPT ![s] = Add(@, nextConn[s], p)]
    <3> HIDE DEF p
    <3>1. conns'[s] = Add(conns[s], nextConn[s], p) /\ \A t \in Object \ {s} : conns'[t] = conns[t]
      BY <2>1 DEF TypeOK
    <3>2. \A h \in 1..(nextConn[s] - 1) : h # nextConn[s]
      BY DEF TypeOK
    <3>3. QED
      BY <3>1, <3>2 DEF IdsKept, Add
  <2>2. QED
    BY <1>1, <1>3, <2>1 DEF Accept, Refuse
<1>4. ASSUME NEW s \in Object, NEW g \in 1..MaxConn, Close(s, g)  PROVE IdsKept
  <2> DEFINE f == [x \in DOMAIN conns[s] \ {g} |-> conns[s][x]]
  <2>1. CASE conns' = [conns EXCEPT ![s] = f]
    <3>1. conns'[s] = f /\ \A t \in Object \ {s} : conns'[t] = conns[t]
      BY <2>1 DEF TypeOK
    <3>2. QED
      BY <3>1 DEF IdsKept
  <2>2. QED
    BY <1>1, <1>4, <2>1 DEF Close, Refuse
<1>5. QED
  BY <1>1, <1>2, <1>3, <1>4 DEF Next, vars, RestrictTo, Listen, Refuse, Recv, Send,
     PeerWrites, PeerLeaves, PeerConnects

-----------------------------------------------------------------------------
(* The theorems.                                                           *)

THEOREM Invariance == Spec => []Inv
<1>1. Init => Inv
  BY InitInv
<1>2. Inv /\ [Next]_vars => Inv'
  BY InvStep
<1>3. QED
  BY <1>1, <1>2, PTL DEF Spec

\* Connection ids in use are below _next_conn, and name clients.
THEOREM TypeCorrect == Spec => []TypeOK
BY Invariance, PTL DEF Inv

\* listen, accept, close and stop leave no socket behind, share none and keep
\* one connection open at a time.
THEOREM EverySocketAccounted == Spec => []SocketsAccounted
BY Invariance, InvAccounts, PTL

\* restrict_to only ever takes requests away, from the object it returns and
\* from those that are narrowed from that one.
THEOREM ListensInside == Spec => []ListensInsideAncestors
BY Invariance, InvListens, PTL

\* _next_conn only grows: an id kept after close or stop is an error for ever.
THEOREM IdsStayDead == Spec => IdsNeverRevive
<1>1. Inv /\ [Next]_vars => [IdsKept]_vars
  BY IdsStep
<1>2. QED
  BY <1>1, Invariance, PTL DEF Spec, IdsNeverRevive, IdsKept
==============================================================================
