------------------------------- MODULE NetFetch -------------------------------
(***************************************************************************)
(* Net.get and Net.post (capa/runtime/_capabilities.py): one request that  *)
(* follows redirects through urllib, with the capability asked again at    *)
(* every hop, a ceiling on the bytes of every body and a wall clock over   *)
(* the whole call, against servers that redirect, dribble and stop.        *)
(*                                                                         *)
(* The clock counts ticks since the call began.  A socket operation may    *)
(* last as long as the timeout armed on the socket, and no longer; where   *)
(* http.client makes several of them for one call, each has that time.     *)
(***************************************************************************)
EXTENDS Integers

CONSTANTS
  Host,
  Url,      \* records: scheme, host
  Schemes,  \* _NET_ALLOWED_SCHEMES
  Budget,   \* _NET_TIMEOUT_SECS, in ticks
  Ceiling,  \* bytes; the default _NET_DEFAULT_MAX_BYTES or the explicit max_bytes
  MaxHops,  \* redirects urllib follows
  MaxClock, \* bound: ticks of a call
  None

ASSUME NetAssumption ==
  /\ None \notin Url /\ \A u \in Url : u.host \in Host
  /\ Budget \in Nat \ {0} /\ Ceiling \in Nat /\ MaxHops \in Nat
  /\ MaxClock \in Nat /\ MaxClock >= Budget

VARIABLES
  allowed,   \* _allowed; the None of the class is the set of all hosts
  explicit,  \* the caller passed max_bytes
  phase,     \* "idle", "headers", "drain", "body"
  at,        \* the URL being contacted
  target,    \* the Location of the redirect that is drained
  hops,
  clock,
  armed,     \* the timeout on the socket
  spent,     \* ticks the present socket operation has lasted
  next,      \* req.timeout, the timeout of the next hop
  got,       \* bytes read of the present body
  chunked,   \* that body comes in chunks, each behind a line with its length
  open,      \* the response is open
  contacted, \* history: the URLs contacted by this call
  ret        \* the result of the last call

fetch == <<allowed, explicit, phase, at, target, hops, clock, armed, spent, next,
           got, chunked, open, contacted, ret>>

Results == {"ok", "denied", "timed out", "failed", "over the default cap", "raised"}

Greater(a, b) == IF a > b THEN a ELSE b

\* _Deadline.remaining is never zero: the smallest timeout is one tick.
Remaining == Greater(1, Budget - clock)
Expired   == clock >= Budget

Permits(u) == u.scheme \in Schemes /\ u.host \in allowed

-----------------------------------------------------------------------------
(* The program: restrict_to and a call *)

RestrictTo(h) ==
  /\ phase = "idle"
  /\ allowed' = allowed \cap {h}
  /\ UNCHANGED <<explicit, phase, at, target, hops, clock, armed, spent, next, got,
                 chunked, open, contacted, ret>>

Call(u, x) ==
  /\ phase = "idle"
  /\ explicit' = x /\ hops' = 0 /\ clock' = 0 /\ spent' = 0 /\ got' = 0
  /\ target' = None /\ open' = FALSE
  /\ \/ /\ Permits(u)  \* _gate, and the opener connects
        /\ phase' = "headers" /\ at' = u /\ contacted' = {u}
        /\ armed' = Budget /\ next' = Budget /\ ret' = None
     \/ /\ ~Permits(u)
        /\ phase' = "idle" /\ at' = None /\ contacted' = {}
        /\ armed' = 0 /\ next' = 0 /\ ret' = "denied"
  /\ UNCHANGED <<allowed, chunked>>

\* The call ends; left says whether its response stays open.
End(r, left) ==
  /\ phase' = "idle" /\ ret' = r /\ open' = left
  /\ at' = None /\ target' = None /\ armed' = 0 /\ spent' = 0 /\ next' = 0 /\ got' = 0
  /\ chunked' = FALSE
  /\ UNCHANGED <<allowed, explicit, hops, clock, contacted>>

\* An OSError or a ValueError: HTTPError closes its response.
Trouble == End(IF Expired THEN "timed out" ELSE "failed", FALSE)

Active == phase # "idle"

-----------------------------------------------------------------------------
(* Time and the transport *)

Tick ==
  /\ Active /\ spent < armed /\ clock < MaxClock
  /\ clock' = clock + 1 /\ spent' = spent + 1
  /\ UNCHANGED <<allowed, explicit, phase, at, target, hops, armed, next, got, chunked,
                 open, contacted, ret>>

\* A part of the headers arrives; or a part of the line before a chunk or of
\* the lines after the last one, all of which one read1 waits for before it
\* returns.  The timeout counts from there again.
Dribble ==
  /\ phase = "headers" \/ chunked
  /\ spent > 0 /\ spent' = 0
  /\ UNCHANGED <<allowed, explicit, phase, at, target, hops, clock, armed, next, got,
                 chunked, open, contacted, ret>>

\* The connection breaks, the status is an error, or the timeout is over; or
\* what arrives is no HTTP, and the exception of http.client is not caught.
Fails == Active /\ (Trouble \/ End("raised", FALSE))

-----------------------------------------------------------------------------
(* Responses *)

\* _read_body_capped begins, or goes on to the next chunk: the deadline is
\* checked and what is left of it armed on the socket.
Arm == armed' = Remaining /\ spent' = 0

Begins == got' = 0 /\ chunked' \in BOOLEAN /\ open' = TRUE /\ Arm

\* The headers of the last response.
Final ==
  /\ phase = "headers"
  /\ \/ /\ ~Expired
        /\ phase' = "body" /\ Begins
        /\ UNCHANGED <<allowed, explicit, at, target, hops, clock, next, contacted, ret>>
     \/ Expired /\ End("timed out", FALSE)

\* Mutation: the capability is asked about the first URL only.
RedirectUngated(u) ==
  /\ phase = "headers"
  /\ \/ Expired /\ End("timed out", TRUE)
     \/ /\ ~Expired
        /\ phase' = "drain" /\ target' = u /\ next' = Remaining /\ Begins
        /\ UNCHANGED <<allowed, explicit, at, hops, clock, contacted, ret>>

\* redirect_request: the capability, the deadline and the timeout of the next
\* hop, then the body of the redirect is drained.
Redirect(u) ==
  /\ phase = "headers"
  /\ \/ ~Permits(u) /\ End("denied", FALSE)
     \/ Permits(u) /\ Expired /\ End("timed out", TRUE)  \* deadline.check: fp stays open
     \/ /\ Permits(u) /\ ~Expired
        /\ phase' = "drain" /\ target' = u /\ next' = Remaining /\ Begins
        /\ UNCHANGED <<allowed, explicit, at, hops, clock, contacted, ret>>

OverCap == End(IF explicit THEN "raised" ELSE "over the default cap", FALSE)

\* Mutation: the timeout stays as it was when the connection was opened.
ChunkKeepingTimeout(k) ==
  /\ phase \in {"drain", "body"} /\ got + k <= Ceiling + 1
  /\ \/ got + k > Ceiling /\ OverCap
     \/ got + k <= Ceiling /\ Expired /\ End("timed out", FALSE)
     \/ /\ got + k <= Ceiling /\ ~Expired
        /\ got' = got + k /\ armed' = armed /\ spent' = 0
        /\ UNCHANGED <<allowed, explicit, phase, at, target, hops, clock, next, chunked,
                       open, contacted, ret>>

\* A chunk of k bytes; no read asks for more than one byte over the ceiling.
Chunk(k) ==
  /\ phase \in {"drain", "body"} /\ got + k <= Ceiling + 1
  /\ \/ got + k > Ceiling /\ OverCap
     \/ got + k <= Ceiling /\ Expired /\ End("timed out", FALSE)
     \/ /\ got + k <= Ceiling /\ ~Expired
        /\ got' = got + k /\ Arm
        /\ UNCHANGED <<allowed, explicit, phase, at, target, hops, clock, next, chunked,
                       open, contacted, ret>>

\* The end of a drained body: urllib refuses a hop too many, or closes the
\* body and opens the next hop with the timeout the request carries.
NextHop ==
  /\ phase = "drain"
  /\ \/ hops = MaxHops /\ Trouble
     \/ /\ hops < MaxHops
        /\ phase' = "headers" /\ at' = target /\ contacted' = contacted \cup {target}
        /\ target' = None /\ hops' = hops + 1
        /\ armed' = next /\ spent' = 0 /\ got' = 0 /\ chunked' = FALSE /\ open' = FALSE
        /\ UNCHANGED <<allowed, explicit, clock, next, ret>>

\* The end of the last body.
Done == phase = "body" /\ End("ok", FALSE)

FetchInit ==
  /\ allowed = Host /\ explicit = FALSE /\ phase = "idle" /\ at = None /\ target = None
  /\ hops = 0 /\ clock = 0 /\ armed = 0 /\ spent = 0 /\ next = 0 /\ got = 0
  /\ chunked = FALSE /\ open = FALSE /\ contacted = {} /\ ret = None

FetchNext ==
  \/ \E h \in Host : RestrictTo(h)
  \/ \E u \in Url : Redirect(u) \/ \E x \in BOOLEAN : Call(u, x)
  \/ Tick \/ Dribble \/ Fails
  \/ Final \/ NextHop \/ Done
  \/ \E k \in 1..(Ceiling + 1) : Chunk(k)

FetchSpec == FetchInit /\ [][FetchNext]_fetch

-----------------------------------------------------------------------------
(* Properties *)

FetchTypeOK ==
  /\ allowed \subseteq Host /\ contacted \subseteq Url
  /\ explicit \in BOOLEAN /\ open \in BOOLEAN /\ chunked \in BOOLEAN
  /\ phase \in {"idle", "headers", "drain", "body"}
  /\ at \in Url \cup {None} /\ target \in Url \cup {None}
  /\ (phase = "drain") = (target # None) /\ (phase # "idle") = (at # None)
  /\ chunked => phase \in {"drain", "body"}
  /\ hops \in 0..MaxHops /\ clock \in 0..MaxClock
  /\ armed \in 0..Budget /\ next \in 0..Budget /\ spent \in 0..armed
  /\ got \in 0..Ceiling
  /\ ret \in Results \cup {None}

\* Every host a call contacts, however it was led there, is one that its
\* capability permits, in a scheme that it speaks.
HopsArePermitted == Active => \A u \in contacted : Permits(u)

\* _read_body_capped: no byte of a body is kept once the deadline is over, no
\* body is longer than the ceiling, and no time passes beyond the deadline in
\* a body whose length is known or that ends with its connection.
BodiesAreBounded ==
  [][(phase \in {"drain", "body"}) =>
       /\ ~chunked /\ clock' > clock => clock' <= Budget
       /\ got' > got => ~Expired
       /\ ret' = "ok" => got <= Ceiling]_fetch

\* _capabilities.py:851: the wall clock is enforced precisely on every body
\* read, and a server that dribbles a body is abandoned at the deadline.
BodyReadsHeldToDeadline ==
  [][(phase \in {"drain", "body"}) /\ clock' > clock => clock' <= Budget]_fetch

\* _capabilities.py:66: what a server answers does not raise in a program that
\* asked for no cap of its own.
FailuresLower == ret = "raised" => explicit

\* _capabilities.py:855: the operations of a hop get a timeout equal to the
\* budget then remaining.
HopTimeoutIsRemaining == [][NextHop /\ Active' => armed' <= Remaining]_fetch

\* _capabilities.py:792: no exception raised while a redirect is followed
\* leaks the socket of the response.
NoResponseLeaks == phase = "idle" => ~open
===============================================================================
