------------------------------ MODULE CapHandles ------------------------------
(***************************************************************************)
(* The capability handle table of the Wasm hosts                           *)
(* (capa/runtime/_cap_handles.py), the attenuation of the capability       *)
(* objects it holds (capa/runtime/_capabilities.py) and the host bridges   *)
(* that consult it on every privileged call (capa/runtime/_wasm_host.py).  *)
(*                                                                         *)
(* A guest names a capability by a small integer.  The host allocates a    *)
(* root for each kind the artifact's `main' declares, derives narrower     *)
(* capabilities on request, and looks the receiver up, by number and by    *)
(* kind, before every privileged operation.  A call into a foreign         *)
(* component hands over capability OBJECTS, resolved once, and the child   *)
(* reaches nothing else.                                                   *)
(***************************************************************************)
EXTENDS Integers, Sequences, FiniteSets

CONSTANTS
  Target,      \* Target[k]: what a capability of kind k can be used on
  Rule,        \* Rule[k]: the arguments restrict_to takes (prefix, host, key)
  Reach,       \* Reach[k][r]: the targets that match rule r
  Artifacts,   \* [binding, slots]: what the modules given to run_main carry
  NoBinding,   \* the binding of a module without the export
  Signatures,  \* the capability kinds the program's foreign methods take
  Forges,      \* TRUE: the guest may pass any integer as a handle
  NoEffect,
  MaxHandles,  \* bound: table entries
  MaxDepth,    \* bound: nested calls of the guest
  MaxRuns      \* bound: run_main calls on one host

HandleBearing == {"fs", "net", "env", "clock", "db", "proc"}

\* The capabilities _invoke_main passes to bootstrap_root_handles; Random and
\* Unsafe are parameters of the bootstrap that neither host supplies.
HostCaps == HandleBearing \cup {"stdio"}

\* The order in which bootstrap_root_handles walks its parameters.
RootRank == [stdio |-> 1, fs |-> 2, net |-> 3, env |-> 4, clock |-> 5,
             db |-> 6, proc |-> 7]

\* Net, Env, Db and Proc keep a set of admitted rules that restrict_to
\* intersects; Fs keeps a set of prefixes a path must lie under all at once.
AllowListed == {"net", "env", "db", "proc"}

ASSUME TargetAssumption ==
  /\ DOMAIN Target = HostCaps
  /\ Target["clock"] \subseteq Int
  /\ \A k \in HostCaps : NoEffect \notin Target[k]
ASSUME RuleAssumption ==
  /\ DOMAIN Rule = HostCaps
  /\ Rule["clock"] \subseteq Int
ASSUME BoundAssumption ==
  /\ MaxHandles \in Nat
  /\ MaxDepth \in Nat \ {0}
  /\ MaxRuns \in Nat
  /\ Forges \in BOOLEAN
  /\ Signatures \subseteq SUBSET HandleBearing

VARIABLES
  entries,    \* CapHandleTable._entries: handle -> capability object
  next,       \* CapHandleTable._next
  origin,     \* history: handle -> the handle and rules it was derived from
  phase,      \* who runs: "idle" (no program), "main", "child"
  runs,       \* run_main calls so far
  declared,   \* the kinds the running artifact's main declares
  depth,      \* nesting of the guest's own function calls
  frames,     \* frames[d]: handles a call was given and handles it holds
  child,      \* capability objects granted to the running foreign component
  childArgs,  \* history: the handle each of those was resolved from
  effect      \* the privileged effect of the last step and the handle it was
              \* done under, or NoEffect

table  == <<entries, next, origin>>
guest  == <<depth, frames>>
nested == <<child, childArgs>>
vars == <<entries, next, origin, phase, runs, declared, depth, frames, child,
          childArgs, effect>>

-----------------------------------------------------------------------------
(* Capability objects *)

StoredRules == UNION {Rule[k] : k \in AllowListed \cup {"fs"}}

\* limited = FALSE is the None of the Python classes: no restriction.
\* after is Clock._not_before, meaningful when a clock is limited.
Cap == [kind : HostCaps, limited : BOOLEAN, rules : SUBSET StoredRules, after : Int]

RootCap(k) == [kind |-> k, limited |-> FALSE, rules |-> {}, after |-> 0]

\* allows(): the targets the capability permits.
Authority(c) ==
  { t \in Target[c.kind] :
      \/ ~c.limited
      \/ c.kind = "fs" /\ \A r \in c.rules : t \in Reach["fs"][r]
      \/ c.kind \in AllowListed /\ \E r \in c.rules : t \in Reach[c.kind][r]
      \/ c.kind = "clock" /\ t >= c.after }

\* Only restrict_to_keys takes a list; the others take one rule.
RuleArgs(k) == IF k = "env" THEN SUBSET Rule[k] ELSE {{r} : r \in Rule[k]}

\* What an unrestricted capability narrowed to A alone would permit.
AuthorityOfRules(k, A) ==
  { t \in Target[k] : \/ k = "clock" /\ \A r \in A : t >= r
                      \/ k # "clock" /\ \E r \in A : t \in Reach[k][r] }

LaterOf(s, t) == IF s > t THEN s ELSE t

\* The narrowed copy of c that restrict_to builds.
Limited(c, R, t) == [kind |-> c.kind, limited |-> TRUE, rules |-> R, after |-> t]

NarrowFs(c, A) == Limited(c, c.rules \cup A, c.after)

\* Mutation: the new rules are added to the old ones.
WidenAllowList(c, A) == Limited(c, IF c.limited THEN A \cup c.rules ELSE A, c.after)

NarrowAllowList(c, A) == Limited(c, IF c.limited THEN A \cap c.rules ELSE A, c.after)

NarrowClock(c, t) == Limited(c, c.rules, IF c.limited THEN LaterOf(c.after, t) ELSE t)

\* restrict_to, restrict_to_keys, restrict_to_after
Narrow(c, A) ==
  CASE c.kind = "fs" -> NarrowFs(c, A)
    [] c.kind = "clock" -> NarrowClock(c, CHOOSE t \in A : TRUE)
    [] OTHER -> NarrowAllowList(c, A)

-----------------------------------------------------------------------------
(* The table *)

\* lookup(handle, expected): unknown handles and other kinds raise.
Resolves(h, k) == h \in DOMAIN entries /\ entries[h].kind = k

Put(f, h, v) == [x \in DOMAIN f \cup {h} |-> IF x = h THEN v ELSE f[x]]

\* Mutation: alloc forgets to advance the counter.
AllocWithoutAdvance(c, parent, A) ==
  /\ next <= MaxHandles
  /\ entries' = Put(entries, next, c)
  /\ origin' = Put(origin, next, [from |-> parent, by |-> A])
  /\ next' = next

\* alloc(): the next number, never one that was used before.
Alloc(c, parent, A) ==
  /\ next <= MaxHandles
  /\ entries' = Put(entries, next, c)
  /\ origin' = Put(origin, next, [from |-> parent, by |-> A])
  /\ next' = next + 1

-----------------------------------------------------------------------------
(* Starting a program *)

Kinds(binding) == {binding[i] : i \in DOMAIN binding}

\* resolve_cap_types: a missing binding, a wrong arity or an unknown kind
\* refuses the artifact before it is instantiated.
Usable(a) ==
  /\ a.binding # NoBinding
  /\ Len(a.binding) = a.slots
  /\ Kinds(a.binding) \subseteq HandleBearing

\* Mutation: the clock is ambient, as stdio is.
ServedClock(a) == {k \in HostCaps : k \in HandleBearing \ {"clock"} => k \in Kinds(a.binding)}

\* A handle-bearing capability gets a root only when the artifact declares it.
Served(a) == {k \in HostCaps : k \in HandleBearing => k \in Kinds(a.binding)}

RootHandle(a, k) ==
  next + Cardinality({j \in Served(a) : RootRank[j] < RootRank[k]})

RootHandles(a) == {RootHandle(a, k) : k \in Served(a)}

ServedAt(a, h) == CHOOSE k \in Served(a) : RootHandle(a, k) = h

\* Mutation: a new run starts a table of its own under the same numbers.
BootstrapAnew(a) ==
  /\ entries' = [h \in 1..Cardinality(Served(a)) |->
                   RootCap(CHOOSE k \in Served(a) : RootHandle(a, k) = next + h - 1)]
  /\ origin' = [h \in 1..Cardinality(Served(a)) |-> [from |-> 0, by |-> {}]]
  /\ next' = Cardinality(Served(a)) + 1

\* bootstrap_root_handles: one alloc per served kind.
Bootstrap(a) ==
  /\ next + Cardinality(Served(a)) <= MaxHandles + 1
  /\ entries' = [h \in DOMAIN entries \cup RootHandles(a) |->
                   IF h \in DOMAIN entries THEN entries[h]
                                           ELSE RootCap(ServedAt(a, h))]
  /\ origin' = [h \in DOMAIN origin \cup RootHandles(a) |->
                   IF h \in DOMAIN origin THEN origin[h]
                                          ELSE [from |-> 0, by |-> {}]]
  /\ next' = next + Cardinality(Served(a))

\* root_handle_map: what main's slots receive.
MainArgs(a) == {RootHandle(a, k) : k \in Kinds(a.binding)}

NoFrame == [args |-> {}, held |-> {}]
NoChild == [k \in {} |-> RootCap("stdio")]
NoArgs == [k \in {} |-> 0]

Refuse(a) ==
  /\ phase = "idle" /\ runs < MaxRuns /\ ~Usable(a)
  /\ runs' = runs + 1
  /\ effect' = NoEffect
  /\ UNCHANGED <<table, phase, declared, guest, nested>>

RunMain(a) ==
  /\ phase = "idle" /\ runs < MaxRuns /\ Usable(a)
  /\ Bootstrap(a)
  /\ runs' = runs + 1
  /\ phase' = "main"
  /\ declared' = Kinds(a.binding)
  /\ depth' = 1
  /\ frames' = [frames EXCEPT ![1] = [args |-> MainArgs(a), held |-> MainArgs(a)]]
  /\ effect' = NoEffect
  /\ UNCHANGED nested

\* main returns, traps, or a bridge raises: the program is over, and the
\* table of the host object stays as it is.
EndRun ==
  /\ phase' = "idle"
  /\ declared' = {}
  /\ depth' = 0
  /\ frames' = [d \in 1..MaxDepth |-> NoFrame]
  /\ child' = NoChild
  /\ childArgs' = NoArgs
  /\ effect' = NoEffect
  /\ UNCHANGED <<table, runs>>

Finish == phase # "idle" /\ EndRun

-----------------------------------------------------------------------------
(* The guest *)

Held == IF depth = 0 THEN {} ELSE frames[depth].held

\* The integers the guest can pass: any, or only those it was handed.
Names == IF Forges THEN 0..(MaxHandles + 1) ELSE Held

Gaining(frame, H) == [args |-> frame.args, held |-> frame.held \cup H]

Hold(H) == frames' = [frames EXCEPT ![depth] = Gaining(@, H)]

\* capa:host/<cap>.restrict-*: a handle that does not resolve yields the
\* sentinel 0 and allocates nothing.
RestrictTo(k, h, A) ==
  /\ phase = "main" /\ h \in Names
  /\ \/ Resolves(h, k) /\ Alloc(Narrow(entries[h], A), h, A) /\ Hold({next})
     \/ ~Resolves(h, k) /\ Hold({0}) /\ UNCHANGED table
  /\ effect' = NoEffect
  /\ UNCHANGED <<phase, runs, declared, depth, nested>>

Effect(h, k, t) == [by |-> h, kind |-> k, target |-> t]

\* Mutation: the bridge trusts a check inlined by the emitter.
OpUnchecked(k, h, t) ==
  /\ phase = "main" /\ h \in Names
  /\ effect' = IF Resolves(h, k) THEN Effect(h, k, t) ELSE NoEffect
  /\ UNCHANGED <<table, phase, runs, declared, guest, nested>>

\* A privileged operation: lookup, then allows, then the system call; a
\* failed lookup or a refusal answers Err and does nothing.
Op(k, h, t) ==
  /\ phase = "main" /\ h \in Names
  /\ effect' = IF Resolves(h, k) /\ t \in Authority(entries[h])
                 THEN Effect(h, k, t) ELSE NoEffect
  /\ UNCHANGED <<table, phase, runs, declared, guest, nested>>

\* now_secs, now_monotonic, env.args: nothing to refuse, so the receiver is
\* required, and a handle that does not resolve ends the program.
RequireReceiver(k, h) ==
  /\ phase = "main" /\ k \in {"clock", "env"} /\ h \in Names
  /\ \/ Resolves(h, k)
        /\ effect' = NoEffect
        /\ UNCHANGED <<table, phase, runs, declared, guest, nested>>
     \/ ~Resolves(h, k) /\ EndRun

\* The guest calls a function of its own with some of the handles it holds.
Call(H) ==
  /\ phase = "main" /\ depth < MaxDepth /\ H \subseteq Held
  /\ depth' = depth + 1
  /\ frames' = [frames EXCEPT ![depth + 1] = [args |-> H, held |-> H]]
  /\ effect' = NoEffect
  /\ UNCHANGED <<table, phase, runs, declared, nested>>

\* ... and gets back some of the handles the callee holds.
Return(H) ==
  /\ phase = "main" /\ depth > 1 /\ H \subseteq Held
  /\ depth' = depth - 1
  /\ frames' = [frames EXCEPT ![depth] = NoFrame,
                              ![depth - 1] = Gaining(@, H)]
  /\ effect' = NoEffect
  /\ UNCHANGED <<table, phase, runs, declared, nested>>

-----------------------------------------------------------------------------
(* Foreign components *)

\* The import closure resolves each capability argument on this table; one
\* that does not resolve raises ForeignDenied, which ends the program.
ForeignCall(K, args) ==
  /\ phase = "main" /\ K \in Signatures
  /\ args \in [K -> Names]
  /\ \/ /\ \A k \in K : Resolves(args[k], k)
        /\ phase' = "child"
        /\ child' = [k \in K |-> entries[args[k]]]
        /\ childArgs' = args
        /\ effect' = NoEffect
        /\ UNCHANGED <<table, runs, declared, guest>>
     \/ (\E k \in K : ~Resolves(args[k], k)) /\ EndRun

\* Mutation: the child's closures look the child's own handle up.
ChildOpByHandle(k, t) ==
  /\ phase = "child" /\ k \in DOMAIN child
  /\ \E h \in DOMAIN entries :
       effect' = IF Resolves(h, k) /\ t \in Authority(entries[h])
                   THEN Effect(childArgs[k], k, t) ELSE NoEffect
  /\ UNCHANGED <<table, phase, runs, declared, guest, nested>>

\* The child's closures capture the granted object and ignore the handle the
\* child passes; its restrict-* imports return 0 and allocate nothing.
ChildOp(k, t) ==
  /\ phase = "child" /\ k \in DOMAIN child
  /\ effect' = IF t \in Authority(child[k]) THEN Effect(childArgs[k], k, t)
                                            ELSE NoEffect
  /\ UNCHANGED <<table, phase, runs, declared, guest, nested>>

ChildReturn ==
  /\ phase = "child"
  /\ phase' = "main"
  /\ child' = NoChild
  /\ childArgs' = NoArgs
  /\ effect' = NoEffect
  /\ UNCHANGED <<table, runs, declared, guest>>

-----------------------------------------------------------------------------
Init ==
  /\ entries = [h \in {} |-> RootCap("stdio")]
  /\ origin = [h \in {} |-> [from |-> 0, by |-> {}]]
  /\ next = 1
  /\ phase = "idle"
  /\ runs = 0
  /\ declared = {}
  /\ depth = 0
  /\ frames = [d \in 1..MaxDepth |-> NoFrame]
  /\ child = NoChild
  /\ childArgs = NoArgs
  /\ effect = NoEffect

Next ==
  \/ \E a \in Artifacts : Refuse(a) \/ RunMain(a)
  \/ Finish
  \/ \E k \in HandleBearing : \E h \in Names :
       \/ \E A \in RuleArgs(k) : RestrictTo(k, h, A)
       \/ \E t \in Target[k] : Op(k, h, t)
       \/ RequireReceiver(k, h)
  \/ \E H \in SUBSET Held : Call(H) \/ Return(H)
  \/ \E K \in Signatures : \E args \in [K -> Names] : ForeignCall(K, args)
  \/ \E k \in HandleBearing : \E t \in Target[k] : ChildOp(k, t)
  \/ ChildReturn

Spec == Init /\ [][Next]_vars

-----------------------------------------------------------------------------
(* Properties *)

Frame == [args : SUBSET (0..MaxHandles), held : SUBSET (0..MaxHandles)]

\* Every variable has its type: the table (CapHandleTable) maps numbers below
\* `next' to capabilities.
TypeOK ==
  /\ next \in 1..(MaxHandles + 1)
  /\ DOMAIN entries \subseteq 1..(next - 1)
  /\ entries \in [DOMAIN entries -> Cap]
  /\ DOMAIN origin = DOMAIN entries
  /\ phase \in {"idle", "main", "child"}
  /\ runs \in 0..MaxRuns
  /\ declared \subseteq HandleBearing
  /\ depth \in 0..MaxDepth
  /\ frames \in [1..MaxDepth -> Frame]
  /\ DOMAIN child \subseteq HandleBearing
  /\ \A k \in DOMAIN child : child[k] \in Cap
  /\ DOMAIN childArgs = DOMAIN child
  /\ \A k \in DOMAIN childArgs : childArgs[k] \in 1..MaxHandles
  /\ effect # NoEffect => /\ effect.kind \in HandleBearing
                          /\ effect.target \in Target[effect.kind]

\* Attenuation only narrows: whatever chain of restrict_to calls led to a
\* handle, it has the kind of the handle it came from and permits nothing
\* that one refuses (restrict_to of Fs, Net, Env, Db, Proc and Clock).
Attenuation ==
  \A h \in DOMAIN entries : origin[h].from # 0 =>
    LET p == origin[h].from IN
      /\ p < h
      /\ entries[h].kind = entries[p].kind
      /\ Authority(entries[h]) \subseteq Authority(entries[p])

\* restrict_to loses nothing either: the new handle permits exactly what the
\* old one and the new rule both permit.
NarrowsExactly(kinds) ==
  \A h \in DOMAIN entries : origin[h].from # 0 /\ entries[h].kind \in kinds =>
    Authority(entries[h]) = Authority(entries[origin[h].from])
                            \cap AuthorityOfRules(entries[h].kind, origin[h].by)

\* The Db docstring (_capabilities.py:1702) promises that of Db: "a new
\* Db whose authority is the intersection of the current restrictions with
\* the newly requested one".
DbNarrowingIsIntersection == NarrowsExactly({"db"})

\* The declared capability set is an upper bound enforced at run time: no
\* effect of a kind the running artifact's binding does not declare, whatever
\* integers the guest passes (_cap_binding.py:82).
DeclaredIsUpperBound == effect # NoEffect => effect.kind \in declared

Permits(h, k, t) == Resolves(h, k) /\ t \in Authority(entries[h])

\* A restricted capability that crosses a function boundary keeps its
\* restriction: a guest that forges no handle does, in a call, only what some
\* handle the call was given permits, whatever it derives or is handed back.
CallsAreConfined ==
  effect # NoEffect /\ phase = "main" =>
    \E h \in frames[depth].args : Permits(h, effect.kind, effect.target)

\* A foreign component does only what a handle passed to that call permits.
ForeignIsConfined ==
  effect # NoEffect /\ phase = "child" =>
    \E k \in DOMAIN childArgs : Permits(childArgs[k], effect.kind, effect.target)

\* A handle denotes one capability for ever, across narrowing, foreign calls
\* and further runs on the same host: alloc reuses no number.
HandlesAreStable ==
  [][ /\ next' >= next
      /\ \A h \in DOMAIN entries : h \in DOMAIN entries' /\ entries'[h] = entries[h]
    ]_vars

-----------------------------------------------------------------------------
(* The abstract specification *)

Abstract == INSTANCE CapAuthority WITH
  Kind <- HostCaps,
  Root <- 0,
  avail <- [h \in DOMAIN entries |->
              [kind |-> entries[h].kind, targets |-> Authority(entries[h]),
               from |-> origin[h].from]]

\* The table implements the machine that only grants whole kinds and narrows:
\* roots map to Grant, restrict_to to Narrow, and a privileged operation, the
\* child's too, to Act under the very handle that was passed for it.
ImplementsAuthority == Abstract!Spec
===============================================================================
