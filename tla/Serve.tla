-------------------------------- MODULE Serve --------------------------------
(***************************************************************************)
(* The Serve capability (capa/runtime/_capabilities.py): listening sockets,*)
(* one connection at a time, connection ids that a program may keep too    *)
(* long, and the sockets that have to be closed on every way out, against  *)
(* clients that connect, write and leave when they like.                   *)
(*                                                                         *)
(* A request is the address and port a program asks for; an endpoint is    *)
(* what the system binds for it (port 0 leaves the choice to the system).  *)
(***************************************************************************)
EXTENDS Integers, Sequences, FiniteSets

CONSTANTS
  Object,     \* Serve objects: the one main receives and narrowed ones
  Root,       \* the one main receives
  Peer,       \* clients
  Request,    \* the arguments of listen
  Invalid,    \* the requests whose port is out of range
  Endpoints,  \* Endpoints[r]: what the system may bind for request r
  Rule,       \* the arguments of restrict_to
  Admits,     \* Admits[rule]: the requests it admits; a spec that does not parse admits none
  None,
  Backlog,    \* connections the system keeps waiting
  MaxUnread,  \* bound: bytes of a client not yet read
  MaxConn     \* bound: connections accepted by one object

Endpoint == UNION {Endpoints[r] : r \in Request}

ASSUME ServeAssumption ==
  /\ Root \in Object
  /\ Invalid \subseteq Request
  /\ None \notin Endpoint
  /\ Backlog \in Nat /\ MaxUnread \in Nat /\ MaxConn \in Nat

VARIABLES
  made,      \* the objects that exist
  rules,     \* _rules; the None of the class is the empty set
  listener,  \* _listener: the endpoint, or None
  asked,     \* history: the request the listener was opened for
  conns,     \* _conns: connection id -> client
  nextConn,  \* _next_conn
  above,     \* history: the objects it was narrowed from
  bound,     \* system: the endpoints this process holds
  waiting,   \* system: endpoint -> clients in its backlog
  linked,    \* system: the clients with an accepted socket in this process
  unread,    \* system: client -> bytes it sent and nobody read
  left,      \* clients that closed their side
  ret        \* what the last call returned, or None

object  == <<made, rules, above>>
sockets == <<listener, asked, bound>>
streams == <<unread, left>>
vars == <<made, rules, listener, asked, conns, nextConn, above, bound, waiting,
          linked, unread, left, ret>>

-----------------------------------------------------------------------------
(* Attenuation *)

\* allows(): every rule, and a valid port before any rule.
Allows(R, r) == r \notin Invalid /\ \A rule \in R : r \in Admits[rule]

\* Mutation: the new rule replaces the old ones.
RestrictReplacing(s, n, rule) ==
  /\ s \in made /\ n \in Object \ made
  /\ made' = made \cup {n}
  /\ rules' = [rules EXCEPT ![n] = {rule}]
  /\ above' = [above EXCEPT ![n] = above[s] \cup {s}]
  /\ ret' = None
  /\ UNCHANGED <<sockets, conns, nextConn, waiting, linked, streams>>

\* restrict_to: a new object with one more rule, and no socket of the old one.
RestrictTo(s, n, rule) ==
  /\ s \in made /\ n \in Object \ made
  /\ made' = made \cup {n}
  /\ rules' = [rules EXCEPT ![n] = rules[s] \cup {rule}]
  /\ above' = [above EXCEPT ![n] = above[s] \cup {s}]
  /\ ret' = None
  /\ UNCHANGED <<sockets, conns, nextConn, waiting, linked, streams>>

-----------------------------------------------------------------------------
(* The listener *)

Refuse ==
  /\ ret' = [kind |-> "err"]
  /\ UNCHANGED <<object, sockets, conns, nextConn, waiting, linked, streams>>

\* listen: port, rules and state are checked before any socket exists.
Listen(s, r) ==
  /\ s \in made
  /\ \/ /\ Allows(rules[s], r) /\ listener[s] = None
        /\ \E e \in Endpoints[r] \ bound :
             /\ listener' = [listener EXCEPT ![s] = e]
             /\ bound' = bound \cup {e}
        /\ asked' = [asked EXCEPT ![s] = r]
        /\ ret' = None
        /\ UNCHANGED <<object, conns, nextConn, waiting, linked, streams>>
     \/ Refuse

\* Mutation: the loop over the connections is missing.
StopListenerOnly(s) ==
  /\ s \in made
  /\ \/ /\ listener[s] # None
        /\ conns' = [conns EXCEPT ![s] = <<>>]
        /\ bound' = bound \ {listener[s]}
        /\ waiting' = [waiting EXCEPT ![listener[s]] = <<>>]
        /\ listener' = [listener EXCEPT ![s] = None]
        /\ asked' = [asked EXCEPT ![s] = None]
        /\ ret' = None
        /\ UNCHANGED <<object, nextConn, linked, streams>>
     \/ listener[s] = None /\ Refuse

Open(s) == {conns[s][h] : h \in DOMAIN conns[s]}

\* stop: the open connection, then the listener; the system drops its backlog.
Stop(s) ==
  /\ s \in made
  /\ \/ /\ listener[s] # None
        /\ linked' = linked \ Open(s)
        /\ conns' = [conns EXCEPT ![s] = <<>>]
        /\ bound' = bound \ {listener[s]}
        /\ waiting' = [waiting EXCEPT ![listener[s]] = <<>>]
        /\ listener' = [listener EXCEPT ![s] = None]
        /\ asked' = [asked EXCEPT ![s] = None]
        /\ ret' = None
        /\ UNCHANGED <<object, nextConn, streams>>
     \/ listener[s] = None /\ Refuse

Add(f, h, p) == [x \in DOMAIN f \cup {h} |-> IF x = h THEN p ELSE f[x]]

\* Mutation: the id is the lowest free one, as a file descriptor is.
AcceptReusing(s) ==
  /\ s \in made
  /\ \/ /\ listener[s] # None /\ DOMAIN conns[s] = {}
        /\ waiting[listener[s]] # <<>> /\ nextConn[s] <= MaxConn
        /\ conns' = [conns EXCEPT ![s] = Add(@, 1, Head(waiting[listener[s]]))]
        /\ linked' = linked \cup {Head(waiting[listener[s]])}
        /\ nextConn' = [nextConn EXCEPT ![s] = @ + 1]
        /\ waiting' = [waiting EXCEPT ![listener[s]] = Tail(@)]
        /\ ret' = None
        /\ UNCHANGED <<object, sockets, streams>>
     \/ Refuse

\* accept: refused while a connection is open; otherwise the first waiting
\* client under the next id, or a timeout or an error of the system.
Accept(s) ==
  /\ s \in made
  /\ \/ /\ listener[s] # None /\ DOMAIN conns[s] = {}
        /\ waiting[listener[s]] # <<>> /\ nextConn[s] <= MaxConn
        /\ conns' = [conns EXCEPT ![s] = Add(@, nextConn[s], Head(waiting[listener[s]]))]
        /\ linked' = linked \cup {Head(waiting[listener[s]])}
        /\ nextConn' = [nextConn EXCEPT ![s] = @ + 1]
        /\ waiting' = [waiting EXCEPT ![listener[s]] = Tail(@)]
        /\ ret' = None
        /\ UNCHANGED <<object, sockets, streams>>
     \/ Refuse

-----------------------------------------------------------------------------
(* A connection *)

Lesser(a, b) == IF a < b THEN a ELSE b

\* recv: at most n bytes; an empty list says the client closed.  An unknown
\* id, a size below one, a timeout or an error answers Err.
Recv(s, h, n) ==
  /\ s \in made
  /\ \/ /\ h \in DOMAIN conns[s] /\ n > 0
        /\ \E k \in 0..Lesser(n, unread[conns[s][h]]) :
             /\ k = 0 => unread[conns[s][h]] = 0 /\ conns[s][h] \in left
             /\ unread' = [unread EXCEPT ![conns[s][h]] = @ - k]
             /\ ret' = [kind |-> IF k = 0 THEN "eof" ELSE "data", peer |-> conns[s][h]]
        /\ UNCHANGED <<object, sockets, conns, nextConn, waiting, linked, left>>
     \/ Refuse

\* send: all of the payload, or Err after an unspecified part of it.
Send(s, h) ==
  /\ s \in made
  /\ \/ /\ h \in DOMAIN conns[s]
        /\ ret' = [kind |-> "sent", peer |-> conns[s][h]]
        /\ UNCHANGED <<object, sockets, conns, nextConn, waiting, linked, streams>>
     \/ Refuse

\* close: the id is forgotten, the socket closed.
Close(s, h) ==
  /\ s \in made
  /\ \/ /\ h \in DOMAIN conns[s]
        /\ conns' = [conns EXCEPT ![s] = [x \in DOMAIN @ \ {h} |-> @[x]]]
        /\ linked' = linked \ {conns[s][h]}
        /\ ret' = None
        /\ UNCHANGED <<object, sockets, nextConn, waiting, streams>>
     \/ h \notin DOMAIN conns[s] /\ Refuse

-----------------------------------------------------------------------------
(* Clients *)

Away(p) ==
  /\ p \notin linked /\ p \notin left
  /\ \A e \in Endpoint : \A i \in DOMAIN waiting[e] : waiting[e][i] # p

\* The system completes a connection to a bound endpoint by itself; what an
\* earlier connection of the client had not delivered is lost.
PeerConnects(p, e) ==
  /\ Away(p) /\ e \in bound /\ Len(waiting[e]) < Backlog
  /\ waiting' = [waiting EXCEPT ![e] = Append(@, p)]
  /\ unread' = [unread EXCEPT ![p] = 0]
  /\ UNCHANGED <<object, sockets, conns, nextConn, linked, left, ret>>

PeerWrites(p) ==
  /\ ~Away(p) /\ p \notin left /\ unread[p] < MaxUnread
  /\ unread' = [unread EXCEPT ![p] = @ + 1]
  /\ UNCHANGED <<object, sockets, conns, nextConn, waiting, linked, left, ret>>

PeerLeaves(p) ==
  /\ ~Away(p) /\ p \notin left
  /\ left' = left \cup {p}
  /\ UNCHANGED <<object, sockets, conns, nextConn, waiting, linked, unread, ret>>

Init ==
  /\ made = {Root}
  /\ rules = [s \in Object |-> {}]
  /\ above = [s \in Object |-> {}]
  /\ listener = [s \in Object |-> None]
  /\ asked = [s \in Object |-> None]
  /\ conns = [s \in Object |-> <<>>]
  /\ nextConn = [s \in Object |-> 1]
  /\ bound = {}
  /\ waiting = [e \in Endpoint |-> <<>>]
  /\ linked = {}
  /\ unread = [p \in Peer |-> 0]
  /\ left = {}
  /\ ret = None

Next ==
  \/ \E s \in Object :
       \/ \E n \in Object : \E rule \in Rule : RestrictTo(s, n, rule)
       \/ \E r \in Request : Listen(s, r)
       \/ Stop(s) \/ Accept(s)
       \/ \E h \in 1..MaxConn :
            \/ \E n \in 0..MaxUnread : Recv(s, h, n)
            \/ Send(s, h) \/ Close(s, h)
  \/ \E p \in Peer : PeerWrites(p) \/ PeerLeaves(p) \/ \E e \in Endpoint : PeerConnects(p, e)

Spec == Init /\ [][Next]_vars

-----------------------------------------------------------------------------
(* Properties *)

TypeOK ==
  /\ Root \in made /\ made \subseteq Object
  /\ rules \in [Object -> SUBSET Rule] /\ above \in [Object -> SUBSET Object]
  /\ listener \in [Object -> Endpoint \cup {None}]
  /\ asked \in [Object -> Request \cup {None}]
  /\ conns \in [Object -> UNION {[D -> Peer] : D \in SUBSET (1..MaxConn)}]
  /\ nextConn \in [Object -> 1..(MaxConn + 1)]
  /\ \A s \in Object : DOMAIN conns[s] \subseteq 1..(nextConn[s] - 1)
  /\ bound \subseteq Endpoint /\ linked \subseteq Peer /\ left \subseteq Peer
  /\ waiting \in [Endpoint -> Seq(Peer)]
  /\ unread \in [Peer -> 0..MaxUnread]

\* A socket the process holds is one the program can still close: no path of
\* listen, accept, close or stop leaves one behind, shares one, or opens a
\* second connection of an object ("one connection is open at a time").
SocketsAccounted ==
  /\ \A s \in Object : Cardinality(DOMAIN conns[s]) <= 1
  /\ bound = {listener[s] : s \in Object} \ {None}
  /\ linked = UNION {Open(s) : s \in Object}
  /\ \A s, t \in Object : s # t =>
       /\ Open(s) \cap Open(t) = {}
       /\ listener[s] # None => listener[s] # listener[t]

\* A connection id that was closed, by close or by stop, never names another
\* client, also after the object listens again.
IdsNeverRevive ==
  [][\A s \in Object : \A h \in 1..(nextConn[s] - 1) :
       h \in DOMAIN conns'[s] => h \in DOMAIN conns[s] /\ conns'[s][h] = conns[s][h]]_vars

\* An object listens only on a request that it and every object it was
\* narrowed from permit, and never on an invalid port.
ListensInsideAncestors ==
  \A s \in made : listener[s] # None =>
    \A t \in above[s] \cup {s} : Allows(rules[t], asked[s])

===============================================================================
