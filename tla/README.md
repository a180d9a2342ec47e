# Capa: a TLA+ model of the toolchain and its runtime

Capa is a capability-typed language. A program receives authority (the file
system, the network, the clock, ...) only through capability values handed to
`main`, narrows them with `restrict_to`, and is compiled to Python or to
WebAssembly. This directory holds TLA+ modules that model the parts of the
implementation where order, failure and repeated use decide correctness, the
TLC configurations that check them, and TLAPS proofs about them.

## 1. Inventory

Paths are relative to `src/`.

### The runtime (`capa/runtime`)

| component | state | operations | what is hard | what makes it correct |
|---|---|---|---|---|
| Capability objects (`_capabilities.py`) | per object: the admitted prefixes, hosts, keys, deadline, ports or commands | `allows`, `restrict_to`, the privileged calls | chains of narrowing; each class narrows with its own algebra | narrowing never widens; a privileged call is made only after `allows` |
| Handle table (`_cap_handles.py`) | `_entries`, `_next` | `alloc`, `lookup`, `bootstrap_root_handles`, `root_handle_map` | forged integers, one table serving several programs | a handle denotes one capability for ever, undeclared kinds have no root |
| Wasm hosts (`_wasm_host.py`, `_wasm_component_host.py`) | the table, the last trap, deferred panics | one bridge per privileged call, `run_main`, `run_main_aot` | calls that nest, calls into foreign components | every bridge consults the table and the object |
| Foreign components (`_foreign.py`) | granted objects, fuel, memory limit of one call | `dispatch_foreign_call` | running out of fuel or memory in each phase | a child does only what it was granted, and every failure is classified |
| Verified opening (`_fs_guard.py`) | one file descriptor | `open_verified_read`, `open_verified_write`, `verify_path_open` | the path is swapped between check and use | nothing is read, truncated or written outside the prefixes |
| Network client (`Net`) | one deadline, one redirect chain | `get`, `post` | redirects, dribbling servers, size ceilings | every hop is admitted and the exchange ends |
| Network server (`Serve`) | listener, connections, handle counter | `listen`, `accept`, `recv`, `send`, `close`, `stop` | every call order, stale connection handles | at most one connection, no handle reused |
| AOT cache and engine (`_aot.py`, `_engine.py`) | an artifact with a header | `compile_aot`, `load_aot` | artifacts of another engine | a stale artifact is refused before it is instantiated |
| Values (`_list.py`, `_set.py`, `_result.py`, `_json.py`, `_convert.py`, `_safety.py`) | plain data | pure functions | numeric edges | agreement of the two back ends |

### Packages (`capa/pkg`)

| component | state | operations | what is hard | what makes it correct |
|---|---|---|---|---|
| Installer (`_install.py`) | `vendor/`, `capa.lock` | `install` | tags that move, failures and crashes between two dependencies | what is built is what the lock pins |
| Build check (`_verify.py`) | none | `verify_vendored_deps` | vendor and lock out of step | nothing unverified is built |
| Registry (`_registry.py`) | cached index and signature | `_load_index`, `_write_cache` | a cache written in two steps, a publisher updating between two fetches | only a signed index is used, and a torn cache heals |
| Manifest (`_manifest.py`, `_add.py`, `_floor.py`, `_capnames.py`) | `capa.toml` | parsing, editing | precedence of sources of the floor | - |

### The compiler

| component | state | operations | what is hard | what makes it correct |
|---|---|---|---|---|
| Lexer (`lexer/`) | indentation stack, bracket depth, pending tokens | one step per character | blank lines, comments, dedents to no level | INDENT and DEDENT balance |
| Parser, AST, formatter | token position | recursive descent | - | round trip |
| Loader (`loader.py`) | files linked and being linked, how each was imported, what each module name exports | import resolution, renaming, rewriting of calls | cycles, diamonds, one file imported in several ways, one flat namespace at the end | each file once, dependencies first; a name means what it meant in its file |
| Linear discipline (`analyzer/_linear.py`, `_discipline.py`, `_statements.py`) | values live, consumed, moved, borrowed | one visitor per statement | joins of branches, loops, early exits, aliases | a linear value is consumed exactly once on every path |
| Information flow (`analyzer/_ifc.py`, `_exit_syntax.py`, `_statements.py`) | labels of names and fields, aliases, what was pushed into lists, the label of the program counter | one visitor per statement, two tiers | loop fixpoints over five channels, exits under a secret | explicit flows are reported, and `@strict_ifc` admits no implicit one |
| Types and names (the rest of `analyzer/`) | scopes | one visitor per node | - | programs do not go wrong |
| IR, back ends (`ir/`, `transpiler/`) | worklists of instances | lowering, monomorphisation, emission | fixpoints | the two back ends agree |
| Manifest (`manifest/`) | per type, the capabilities charged to it and whether that is a bound | `compute_reachability`, function records, composition | types that use each other in cycles, traits others implement, closures | no record excludes a capability its function can come to exercise |
| Ceilings (`ir/_*_ceiling.py`) | call graphs, sets of paths and hosts | fixpoints | recursion, higher-order calls | what is declared bounds what is reached |

### Tools

The REPL (`repl.py`) keeps buckets of committed source and one Python namespace;
every turn analyses the whole session again and executes only what is new, with
SIGALRM and Ctrl-C free to break in. The language server (`lsp/`), the test
runner, the documentation generator, the migration tool and the command line are
mostly input and output around the compiler.

### How the parts meet

- The analyzer decides what a program may do with its capabilities and linear
  values; the back ends and the runtime rely on it and check nothing again, but
  for the handle table, which does not trust the guest.
- An artifact carries the kinds its `main` declares (`ir/_cap_binding.py`); the
  host bootstraps handles for those (`runtime/_cap_handles.py`), each bridge of
  the host looks a handle up and calls the capability object behind it
  (`runtime/_capabilities.py`), which asks its own rules and, for files, the
  guard (`runtime/_fs_guard.py`).
- `capa install` and every build share `capa.toml`, `capa.lock` and `vendor/`;
  the installer asks the registry, which shares its cache with every other
  `capa` process of the user.
- The REPL drives parser, analyzer and transpiler over text that grows.

## 2. Modules

| module | models | status |
|---|---|---|
| `CapHandles`, `CapAuthority` | the handle table, narrowing, host bridges, foreign calls; and what they promise | checked and proved |
| `FsGuard` | one file or database operation against a process that swaps its path | checked and proved |
| `Serve` | listening sockets, connections, ids | checked and proved |
| `NetFetch` | one HTTP call over redirects | checked and proved |
| `Install` | `capa install` and the build's check, over the files they share | checked and proved |
| `Registry` | the index, its signature and the two cache files, for several processes | checked and proved |
| `Repl` | the turns of a session | checked and proved |
| `Linear` | the must-consume discipline of the analyzer, beside the run of what it accepts | checked |
| `Flow` | the information flow of the analyzer at both tiers, beside two runs of the body | checked |
| `Loader` | the linker: imports, renaming, the one namespace | checked and proved |
| `Exclusion` | the capabilities a function record excludes, beside what values can carry and bodies exercise | checked and proved |

`MC<module>` gives each its instance for TLC; `<module>Proofs` holds the proofs of a
component, and `GuardProofs` those of `FsGuard` and of `NetFetch`, which have no state
in common (so that one module can extend both, the specification of `NetFetch` is
`FetchSpec`). Definitions keep the names of the code in capitals (`RestrictTo` is
`restrict_to`). Operators marked "Mutation" are the program with a plausible bug; no
specification uses them.

### CapHandles and CapAuthority

The state is the table (`entries`, `next`), where each entry came from
(`origin`), the run in progress (`phase`, `declared`, `runs`), the frames of the
guest's calls with the handles each was given and holds, the objects a foreign
component was granted (`child`), and the last effect. A capability is its kind,
its rules, a time and whether it is limited at all. `RunMain` checks the binding
(`Usable`, `Refuse`) and bootstraps the roots; `RestrictTo`, `Op` and
`RequireReceiver` are the bridges, each with the lookup by number and kind;
`Call` and `Return` stand for the guest's own calls, which pass integers, and
`ForeignCall`, `ChildOp` and `ChildReturn` for `dispatch_foreign_call`. With
`Forges` the guest may use any integer as a handle, without it only those it was
given. What a rule covers is a constant (`Reach`), because string prefixes, host
names and times are compared nowhere else.

`CapAuthority` is the machine without table or objects: authorities are granted
whole for a kind or narrowed from existing ones, never change, and effects
happen only under one that permits them. `ImplementsAuthority` says that the
table implements it.

### FsGuard

One operation at a time goes through the steps of `Fs.read`, `Fs.write`, the
`Db` operations and of exists, list_dir and mkdir: `Allows`, the strict open, the open without
`O_NOFOLLOW`, the verification of the open handle, the truncation, and the use.
Between any two, `Swap` makes the path lead elsewhere. `platform` says whether
the system can report the path of a handle and whether it has `O_NOFOLLOW`. A
place is a location under its resolved name; renaming an open file and hard
links are left out, as the guard compares names.

### Serve

Three objects, of which each may be narrowed from another, share the ports of
one process. `Listen`, `Accept`, `Recv`, `Send`, `Close` and `Stop` are the
methods with their early returns and failures; `PeerConnects`, `PeerWrites` and
`PeerLeaves` are the clients. `unread` counts the bytes a client sent that were
not read.

### NetFetch

The capability is narrowed between calls; a call goes through hops of headers,
drained bodies and a last body (`Redirect`, `NextHop`, `Chunk`, `Final`, `Done`).
`Tick` and `Dribble` let time pass: the timeout armed on the socket counts from the
last bytes that came, so headers can be stretched, and so can a body that comes in
chunks (`chunked`), as one `read1` of it waits several times. `Fails` takes any call
from any point to its end, also to an exception that the program sees (`raised`), as
`http.client.HTTPException` is not caught. A redirect past the limit is drained first.
It is assumed that `_read_body_capped` finds the socket of a response, as it does
for those of `urllib`; bytes are counted and not looked at.

### Install

`install` is modelled one dependency at a time: the first pass over locked tags,
the fetch (removal of the old tree, clone), the verification of signature and
provenance, and the write of `capa.lock`. Tags move, a branch takes the name of a tag
(`git clone --branch` prefers it, `ls-remote` and `verify-tag` ask for the tag), the
remote is out of reach, the process dies in any step, also at any line of the lock
(`Beginning`: an entry that is cut behind its commit is read back as a whole one
without its key or its mark, one that is cut earlier makes the lock unreadable), the
manifest and the vendored trees are edited,
and a build verifies dependency after dependency and then loads them, also
beside an install. What a build has to verify is a set of places in the order of
the manifest, of which it takes the first (`Turn`). A name is declared once: keys
of a TOML table are unique, and `_manifest.py:322-332` refuses one that is in both
tables. One install runs at a time, and the tree that is being
verified is not edited meanwhile.

### Registry

Every client reads the cached signature and index, looks at the age, fetches
index and signature one after the other, verifies, and writes the two files one
after the other, each write in two steps. The publisher replaces its two files in
two steps. A version stands for the bytes of an index. Fetches and writes may
fail and writers may die, `MaxFaults` times.

### Repl

A piece is an item or a statement, reduced to the name it binds, the name it
reads and how it can end. `Enter` adds the pieces of a turn to their bucket and
analyses the whole; `Begin` slices what is new by the counts; `Completes`,
`Stops`, `Raises`, `LeavesEarly` are the ends of a piece, `AlarmGoesOff` and
`Interrupt` break in; `Commit`, `Forget` and `Reset` are what `serve` does after.
Parsing the accumulated source is its concatenation. The platform is one with
SIGALRM.

### Linear

A function body is written one token at a time, over a linear type, a carrier of
it (a struct whose fields are all of that type) and a parameter that is lent or
given. Each token is checked as `_statements.py` and `_linear.py` do (`Check`),
and at the same time one path of the program is run (`Exec`), with conditions
that go either way. `walk` is the analyzer's state (consumed places, live names,
moved fields, borrowed names, the snapshots of open branches and the sets parked
by jumps), `rt` the run's: boxes are references, so that aliases share them. A
loop body is recorded during the speculative pass (`WriteBody`), walked again for
good at its end (`EndLoop`) and run any number of turns (`Turn`).

A `let` may not have the name of an outer block's local, a `var` may, and the analyzer,
whose state is keyed by names, takes the two for one. So a run has a frame of names a
block. There the back ends differ: in Python, which has no blocks, the outer variable
is overwritten; Wasm keeps it. Both are explored (`BackEnds`). The inner variable is
bounded to the type of the outer one.

Only what the analyzer accepts is written on. Programs are classed by the forms
they use beside plain ones (`AllForms`); each property names the forms under
which it does not hold. So a property says two things: that plain programs are
safe, and that the forms listed are the only ones that are not, up to the bound.

A call may consume one place or two; it reads both before it consumes either, as
`_mark_consumed_args` does.

Beyond the checks below, the acceptance of the model was compared with that of
`capa --check` on some nine thousand bodies of up to nine tokens, and on nine
thousand more with two-argument calls and on 7,900 with a `var` that shadows, accepted and
rejected ones, with no difference.

### Flow

A body is written one token at a time from one of seven families of tokens
(`MCFlow`): control flow over integers; a box with a second name; a parameter with
a `@secret` field; a list that is pushed to and iterated; lists declared in the
body; a list inside a box; a list inside a box with a second name. It is then checked
whole (`CheckFun`) and run (`Run`). `Check` is the statement walker: a state `w` holds the label of every
name (`label`), of the fields of a box that is still tracked field by field
(`fields`, `tracked`), the aliases, what was pushed into containers (`pushed`), the
labels of conditions (`seen`) and the pc. `Paths` computes by which kinds of jump a
statement may be left, by which under a secret, and whether what follows it tells
of one (`_exit_syntax.py`). `Settle` is `_loop_label_fixpoint`: speculative walks of
the body until the channels agree or the cap is reached.

The container channel is keyed by the address of a symbol. An address may be given
to another symbol once a speculative walk drops the first, or may not; `reuse`
takes both extremes. A mutation is recorded under the name it is made through alone:
`shared_list` marks the bodies where another name leads to the same list.

The reference is the run: each value is marked when it was computed from the
secret by data alone, and the outputs for two secrets are compared. Nothing of the
analyzer is used to judge it. The model was compared with `analyze()` on 20,500
pairs of a body and a tier, and its runs with the transpiled program on 501, with
no difference.

### Loader

`frames` is the chain of files being linked, `parsed` the files read with the
renaming each was given. Each import of the top file is answered by exactly one of
`Again`, `Diverges`, `IsCyclic`, `CannotResolve`, `CannotParse`, `CannotSelect` and
`Enter`; the file's items follow (`Emit`, `Conflicts`), then `Leave` with the check
of the module's name, or `Clashes`. What a name means (`Means`) is written from
what the imports of its file show, without renaming; `Refer` is what it refers to
in the merged module. An item may have the name of a module, and calls through a
module's name are rewritten (`Qualified`) by the name the receiver has after the
renamings; an item may be a constant, of which the rewriter collects no locals.
`WellFormed` says of imports and names alone which projects
should link: what becomes of a name (`Final`) is there told apart by file and not by
the order of reading. All 31,102 projects of the run were also written to disk and
given to the loader itself: verdict, kind of refusal, merged items and what each use
refers to agree.

### Exclusion

`reach` and `unprov` are `reachable` and `unprovable` of `compute_reachability`. The
passes visit structs, then sums, then interfaces, each group in any order, since the
code iterates over sets. `CheckBounds` is `trait_bound_violations`; `Excluded` is what
`_fun_record` writes. Then two walks are followed, one value at a time. `Create`,
`Wrap`, `Upcast`, `Capture` and `ImplementOutside` carry a built-in capability into
values, closures and other packages; `Begin`, `Read`, `Call` and `Dispatch` are
what a body does with what it has, and `Stray` the ways the charges do not follow.
A type expression stands for the set of names it mentions, which is all
`_caps_via_type` looks at; an impl has one method; the programs are a superset of
those the type checker admits. The records were compared with `build_manifest` on
7,970 modules, with no difference.

## 3. Runs

| run | states | question |
|---|---|---|
| `handles_forged` | 22 thousand | A guest that invents handles, on a fresh host. All artifacts, honest and rewritten, and foreign calls; five handles, so that a chain of three narrowings of one kind beside a second root occurs. |
| `handles_confined` | 9 thousand | Two programs on one host that pass handles honestly, to depth 2: what a call may do, the stability of handles, and the refinement of `CapAuthority`. |
| `fs_swaps` | 250 thousand | Two places inside the prefixes and one outside; any number of swaps. |
| `serve_streams` | 0.4 million | Two clients and two connections an object, so that an id can go stale and another client take its place. |
| `install_disturbed` | 1.9 million | Two dependencies, one that may become a path or gain a key, a branch of a tag's name, and two disturbances between any steps. |
| `registry_shared` | 185 thousand | Two processes, two versions, two faults; also liveness. |
| `net_hops` | 20 thousand | Two hosts, three hops, a budget of three ticks and a ceiling of two chunks: each bound is passed on either side. |
| `repl_turns` | 0.5 million | Three pieces in a bucket, two a turn: a turn that fails after its first piece, followed by another. |
| `linear_forms` | 2.5 million | Five tokens over three local names, two fields, two turns and two back ends; a call of two arguments counts for two. |
| `flow_bodies` | 1.7 million | Five tokens of each family, two tiers, two secrets. |
| `loader_links` | 178 thousand | 31,102 projects of three files, with items named like modules. |
| `exclusion_sets` | 0.8 million | 18 thousand modules, every order of visits; also liveness. |

Deadlock is checked except where the system stops by itself: the guest's runs are
bounded (`CapHandles`), the session ends (`Repl`), the function ends (`Linear`,
`Flow`). In `Loader` and `Exclusion` a project that is linked or refused stays as it
is, by an action of its own, so that a linker that is stuck would be found.

What the properties say, and why they are worth asking:

- *Handles.* `DeclaredIsUpperBound`: no effect of a kind the running artifact does
  not declare, whatever integers the guest uses. `CallsAreConfined`: a call does
  only what one of its arguments permits, through narrowing, nested calls and
  handles handed back. `ForeignIsConfined`: the same of a foreign component, when
  the caller forges. `Attenuation`: chains of narrowing over six algebras.
  `HandlesAreStable`: across runs, too.
- *Files.* `FileOpsConfined`: where handles report their path, no sequence of
  swaps makes a restricted read or write touch a place outside.
  `NoEscapeWithoutSwap`: elsewhere the exposure is the documented window and no
  more. `OperationsEnd`.
- *Serve.* `SocketsAccounted`: nothing stays open that the program cannot close,
  nothing is shared, one connection an object. `IdsNeverRevive`;
  `ListensInsideAncestors`.
- *Net.* `HopsArePermitted` over every hop. `BodiesAreBounded`: in size, and in time
  unless the body is chunked; of a chunked one no byte that comes late is kept.
- *Install.* `LockedCommitsStand`: no moved tag and no branch of its name is accepted
  by itself, whenever it moves. `LockIsOneInstall`: also after a crash, when the last
  entry may lack its key. `LockedIsVerified` and
  `BuildReadsLocked`: what a build loads, whatever failed before or runs beside.
- *Registry.* `OnlySigned`, and `AnswersAgain`: a torn pair
  is refused for the time of the TTL and not for ever.
- *Repl.* `RunOnce`: every committed piece ran exactly once, but for what came
  after an early end.
- *Linear.* `SafeConsumedOnce`, `SafeNothingLeaks`, `SafeBorrowKept`: of the run.
- *Flow.* `Noninterference`: two runs of a body that `@strict_ifc` accepts print the
  same, as long as they released the same by `declassify`. `ExplicitFlowsReported`,
  at both tiers and whatever the path. Both but for the form `shared_list`.
  `LoopsSettle`: the fixpoint takes no more
  walks than the body has statements, so the cap is not what ends it.
- *Loader.* `AcceptsWellFormed`: whether a project links does not depend on the order
  of its imports, though each check of the code is made at one moment of the depth-first
  walk. `LinkedInOrder`. `SafeNamesKeepMeaning`: a use refers to what it meant in its
  file unless a local has a name the linker changes or introduces, a constant's local
  the name of the module it calls, or that module the name of an item that is renamed;
  and never to what another imported file keeps private. All of them are proved for every project.
- *Exclusion.* `BuiltinsAccounted`, `UserCapsAccounted` over the two walks, and
  `LoopEnds`.

The modules' type invariants are checked where they say more than types: that a file
is open only inside an operation (`FsGuard`), that the chain of imports never meets
itself (`Loader`), that a body ends with the pc and scope it began with (`Flow`).
`Serve`, `NetFetch`, `Registry` and `Repl` state theirs, which no run checks but the
proofs of section 4 do.

Bounds. Each is a constant: handles, depth, runs (`CapHandles`), connections,
unread bytes and backlog (`Serve`), clock and hops (`NetFetch`), disturbances
(`Install`), versions and faults (`Registry`), pieces (`Repl`), tokens and turns
(`Linear`, `Flow`), the commits a branch may be on (`Branched`), the projects
(`Loader`) and modules (`Exclusion`) themselves. They cap what is counted and not what
happens between: every
interleaving within them is explored. `Linear` was also run at random with ten
tokens (29 million states, before it had calls of two arguments and shadowing) without
another form appearing. Five tokens of
`Flow` are a loop with a condition, an exit or alias in it and a sink behind; its
`FixpointCap` is 6 where the code has 64, and `LoopsSettle` says that five suffice.

Fairness. `FsGuard` assumes that the operation itself is scheduled (the swapping
process may do anything, for ever); the code is a sequence of system calls with
one retry. `Registry` assumes that each client goes on, that time passes and that
a publisher that has replaced its index replaces its signature; faults are not
fair and are bounded in number. `Exclusion` assumes that the loop of
`compute_reachability` is executed: it is a plain loop of one thread. No other run
assumes fairness.

## 4. Proofs

`CapHandlesProofs`, for every set of targets, rules, artifacts, signatures and
every bound:

- `TypeCorrect`. The invariant is inductive, split into table, guest and effect;
  the lemmas `BootstrapTable` and `AllocTable` say what the two ways of adding an
  entry leave, and each part has one step per action.
- `HandlesStable`, from the same lemmas: both add entries at `next` and above only.
- `AttenuationHolds`. `NarrowNarrows` is the algebraic part, one case per kind;
  the inductive invariant adds `OriginsExist`, that a handle comes from an
  earlier entry.
- `ForeignConfined` needs `ChildIsGranted`: the object a child holds for a kind is
  the one under the handle that was passed.
- `FirstRunIsDeclared`, with `MaxRuns <= 1`, needs `EntriesAreDeclared`: the table
  holds no kind beside the declared ones. On a second run that fails (section 5).
- `CallsConfined`, with `~Forges`, is the deepest. `FramesAreConfined` says of every
  frame on the stack that each handle it holds lies within one of its arguments,
  along the narrowing order, and that the arguments of a callee are among what its
  caller holds; `ConfinedGrows` carries it over new entries.
- `Implements`: the mapping takes the table to the authorities in existence, a
  bootstrap to `Grant`, an allocation to `Narrow`, an operation to `Act`, every
  other step to a stutter or an empty grant.

`GuardProofs`, on `FsGuard`, for every set of places and prefixes and any number of
swaps:
`TypeCorrect`; `FileOpsStayInside`, whose invariant `HandleIsInside` says that a
handle that passed verification is inside; `WindowIsBounded`, whose invariant
`CheckedPlace` says that without a swap the path still leads to what was checked;
`OperationsRunDown`, that each step of an operation leaves it fewer steps and no swap
gives it more.

`ServeProofs`, for every number of objects, endpoints, clients and ids:
`EverySocketAccounted`, `ListensInside`, `IdsStayDead`. Not inductive by themselves:
that an accepted client is linked only once needs `QueueInv`, that a client waits in
one place of one backlog and not while it has a socket here; `LinkInv` and `BoundInv`
say who holds each socket, without cardinalities; `NarrowInv` that every object a
capability was narrowed from exists and has fewer rules.

`GuardProofs`, on `NetFetch`, for every set of hosts and capability, any budget,
ceiling and number of redirects: `HopsPermitted` needs `GateInv`, since the target of a redirect
is admitted while its own response is drained and contacted a step later;
`BodiesBounded` needs `TimeInv`, that the timeout armed for a read of a body that is not
chunked never reaches beyond the budget.

`InstallProofs`, for every manifest, order of dependencies, history of tags and number
of disturbances: `LockOfOneInstall`, `LockVerified`, `CommitsStand`, `BuildsReadLocked`.
The invariant has a part for each stage. `WalkInv`: each dependency is visited once, and
what is verified is there. `FreshInv`: what was resolved passed its checks, is for the
pin declared, and leaves the locked commit only if the install will refuse or was told
to. `LockInv`: while the lock is written it is that of the present install, and what an
install has read of the lock agrees with the last one (`OldStands`) but for a key that
a crash cut off. `BuildInv`:
what a build has checked is still as it was checked, or was touched meanwhile, also if
an install replaces the tree beside it.

`RegistryProofs`, for every number of clients, versions and faults: `AnswersAreSigned`.
A signature is only ever copied (`SigsInv`): what a client holds or finds as one is
nothing, a torn file, or one the publisher made. `PairsInv` says that the pair that is
written and answered with was accepted. Nothing is said of how index and signature in
the cache belong together, and nothing needs to be: any pair is verified again.

`ReplProofs`, for every set of items and statements and programs of any length:
`TypeCorrect`, which includes that between turns the counts are the lengths of the
program, and `EveryPieceOnce`. `SliceIs` is the lemma about the code's arithmetic: what
is past the counts, over silencers and the trailing return, is exactly the places the
candidate adds, each once. `TodoInv` says that those are what a turn has to do, and
`OnceInv` that a place has run if it is no longer to do, or, once the turn has ended
well, if it was not cut.

`ExclusionProofs`, for every module and every order of visits: `TypeCorrect`,
`BuiltinsNeverExcluded`, `UserCapsNeverExcluded`. Neither property is inductive, and
neither follows from where a pass stands; the invariant `Inv` has three parts beside
the types:

- `FixInv`: while the current pass has changed nothing, each type it has visited is
  settled, its charge and mark hold what its declaration asks for. `QuietVisit` says
  that a visit that changes nothing settles its type, `SettledStays` that it remains
  so while nothing changes. At the end of a quiet pass every type is settled.
- `CarryInv`: the capability that is carried is charged to the type it is seen as, or
  that type is marked.
- `UseInv`: what the value at hand is charged with is charged to the name the body
  started from, or that name is marked.

One lemma per kind of step (`HoldsFlow`, `InherentFlow`, `ImplFlow`, `FreeFlow`)
takes a settled type to the charges on either side of the step; `Recorded` takes
them to the record of a function, and `ExercisesCharged` says that what a value lets a
body exercise is among its charges. `PassesRunDown` gives the loop its measure: what is
left to charge and mark, then whether the pass changed anything, then what it has to
visit.

`LoaderProofs`, for every project, any number of files, imports and items and any
names: `TypeCorrect`, `MergedInOrder`, `Acceptance`, `NamesKept`, `LinkingEnds`. One
inductive invariant carries all five, in nine parts:

- `Stack` and `Chain`: a frame was entered for the import at which the one below it
  stopped, so each file being linked is among the `Descendants` of every file under
  it; none is done and none is there twice.
- `Copies`: every file but the root is read once, for an import whose signature is the
  one that is kept; an import is `Done` if its file is linked, its signature is that
  one and the name of its module exports what it brings. `Progress`: the imports a
  frame has passed are done, a file that is linked is not among its own descendants,
  and what a module name exports is what some import brings.
- `RootOnce`: the root is not among the files being linked, so it may be met again
  under itself; that copy stops no later than the root did, hence before its items.
- `Merged` and `Ordered`: what is merged is what the frames have passed, one entry per
  name, each behind all that its file imports. A file's items follow when its imports
  are done, so its descendants are all linked and it is not.
- `Outcome`: what was refused is not well formed.

`Descendants` is the least set closed under imports, so no induction along a chain is
needed: what is linked is closed (`DescendantsSeen`). Each refusal gives the part of
`WellFormed` that fails, the conflict of two names through `RenamedAsFinal`, that names
agree after the renamings by order of reading if and only if they agree by file. For
the meaning of names, `ShownIs` says that what an import shows has, after linking, the
name under which it is shown, and `RefersShown` that this one entry is what a use finds.
`LinkingEnds` gives linking its measure, also where imports go in a circle: the files
not read, then the chain of those being linked, then what is left of the last of them.
That a file is entered only if it was not read before is `Copies`.

Each of these modules proves its type invariant too (`TypeCorrect`).

The assumptions are those named in the modules (`TargetAssumption`, `RuleAssumption`,
`BoundAssumption`, `PlaceAssumption`, `ServeAssumption`, `NetAssumption`,
`InstallAssumption`, `RegistryAssumption`, `ReplAssumption`, `ProgramsAssumption`,
`NamesAssumption`, `ProjectsAssumption`, `StemAssumption`): times are integers, bounds
are naturals, the prefixes are places, programs and records name what is declared, names
of different sorts differ, a manifest names a dependency once, a file declares a name
once and is imported without `as` under one name (the last part of its path, unless that
is a symbolic link), and the values that stand for nothing (`None`, `Refused`,
`Partial`) are none of the things they stand in for. None of them bounds a run.

Only model-checked:

- Liveness (`OperationsEnd`, `AnswersAgain`, `LoopEnds`), as the prover has no rule for
  fairness and ENABLED. Of the first and the last the measure is proved
  (`OperationsRunDown`, `PassesRunDown`).
- `Flow`, whose walks are recursive operators, and `Linear`, which walks a loop body
  again by folds: what they compute for every body is an induction over data, for which
  the prover has no rule.

## 5. Where code and documentation part

The properties named here are stated in the modules, fail on small instances, and
have no run of their own.

- `DeclaredIsUpperBound` with two programs on one host (`MaxRuns = 2`, forged
  handles). A host object that runs a second program keeps the roots of the first,
  so the declared kinds are an upper bound on its first run only
  (`_wasm_host.py:3258`, against `_cap_binding.py:82`).
- `NothingLeaks`. A value live in a branch that returns, breaks or continues is
  looked at nowhere: `let h = open(); if c { return }; close(h)` passes
  (`_statements.py:864`, against the comment at 826-828).
- `ConsumedOnce`. The target of an assignment is cleared before the right-hand side
  is evaluated: `close(x); x = x; close(x)` passes (`_statements.py:379`).
- `LoopsAlwaysSettle`. A list declared in a loop body leaves what was pushed into it
  under an address no later walk looks at, so the channel grows with every walk and
  the cap ends the fixpoint (`_ifc.py:2234`, against the comment at
  `_statements.py:699-702`). The cap fails
  closed: the body is reported on as if any exit of it told a secret.
- `NamesKeepMeaning`. The linker renames locals, or takes a local for the item, where
  a local has the name of something private, hidden or selected
  (`loader.py:1314`, against the docstring at 1199-1203). With `import b`, a private
  `fun b()` and a call `b.h()`, the receiver is renamed before the rewriter looks at it
  (1315-1327, 879), which then leaves the call as a method call on the function. And a
  call through the parameter of a lambda in a constant is rewritten where the parameter
  has the name of a module (820-821).
- Three forms of `Flow` are left out by name, as `@strict_ifc` accepts bodies of
  theirs that tell the secret: `growing`, a `for` over a list that its body pushes to
  (`_statements.py:1068`); `alias_in_loop`, a second name given to a box inside a
  loop, which the earlier part of the next turn does not see; and `shared_list`, a push
  of a secret, or under one, to the list inside a box that has two names, which a read
  through the other name does not see (`_ifc.py:174-176` says so). Smallest bodies, of
  which the second is unreported at the default tier too:
  `var c = b; if s > 0 { c.i.push(1) }; println(b.i.length())` and
  `var c = b; c.i.push(s); println(b.i.get(0))`. Bodies of the first two forms are not
  written; those of the third are, and the properties name it.
- `UserCapsAccounted` without its condition. In the cases of `Stray` a record excludes
  a user-defined capability the body exercises: one that is made by a callee, a
  constant, a sum, or a trait method called on the type itself
  (`_funrec.py:838-845`).

The other forms of `Linear` that pass `capa --check` and go wrong when run, each
with a smallest program:

| form | program | effect |
|---|---|---|
| `name_again` | `if c { let x = open() }; let x = open(); close(x)` | the first is dropped (`_linear_bind` overwrites) |
| `alias_of_part` | `close(b.a); let d = b; close(d.b); close(b.b)` | consumed twice |
| `store_on_some_path` | `if c { close(b.a) }; b.a = open(); sink(b)` | the old field is dropped |
| `borrow_in_block` | `var x = h.a; if c { x = open() }; close(x)` | the caller's is consumed |
| `assign_in_loop` | `var x = open(); while c { x = open(); close(x) }` | the first is dropped |
| `store_in_loop` | `close(h.a); while c { h.a = open() }; sink(h)` | consumed twice with no turn |
| `given_twice` | `two(b, b)` | consumed twice |
| `shadow` | `var x = open(); if c { close(x); var x = open() }; close(x)` | the first is consumed twice, the second dropped (Wasm) |
| | `var x = open(); if c { var x = open() }; close(x)` | one of the two is dropped |
| | `if c { var h = mkbox() }; sink(h)`, `h` lent | the caller's is consumed |

And of the other modules:

| property | statement | code |
|---|---|---|
| `DbNarrowingIsIntersection` | the docstring of `Db` (`_capabilities.py:1697-1705`) | 1774: the sets of prefixes are intersected, so a nested prefix permits nothing |
| `MovedTagKeepsVendor` | `docs/trust-model.md:62-67`, `_install.py:24-27` | `_install.py:201`: when ls-remote does not answer, or the clone takes a branch of the tag's name, `vendor/` is replaced first. The lock stands and the build is refused |
| `EntriesAreWhole` | `_manifest.py:248` | `_manifest.py:832-836`, 790-795: an entry that is cut behind its commit is read back as a whole one without its key or mark |
| `BuildUsesDeclaredKey` | `_verify.py:33-38` | `_verify.py:231`: a key added after locking is not looked at (instance: `Declarations <- MCDeclareKey`) |
| `NoStaleSignature` | `_registry.py:459-462` | 466: two writes, of which one may be lost; refused until the TTL has passed |
| `HopTimeoutIsRemaining` | `_capabilities.py:855-857` | 782: taken before the drain, used after it |
| `BodyReadsHeldToDeadline` | `_capabilities.py:851-855` | 116: one `read1` of a chunked body waits several times, each with the whole timeout |
| `FailuresLower` | `_capabilities.py:66` | 996: `http.client.HTTPException` is not among what is caught |
| `NoResponseLeaks` | `_capabilities.py:771-774` | 777: an expired deadline raises before the response is closed |
| `CapabilitiesKeepTheirNames` | `repl.py:144-148` | 580: an item `stdio` replaces the capability |
| `LetsAreGlobals` | `repl.py:14-16` | 612: a `let` that `?` left is committed and never bound |
| `AlarmEndsTurn` | `repl.py:46-47` | a capability that waits takes the alarm for an error of its own |
| `OnlyExitLeaves` | `repl.py:774` | 879: Ctrl-C while a turn is analysed ends the session |

## 6. Not modelled

`PROJECT.json` lists every component with the reason. Beside those that are text
in and text out: in `CapHandles`, marshalling through linear memory and the
wording of traps; in `FsGuard`, what files contain beside old, empty and new; in
`Linear`, match arms and their views, typestates, lambdas, containers,
destructuring, selections, values returned, nested loops and the second
speculative pass of the strict tier; in `Flow`, calls and their summaries, match,
lambdas, maps and declassification policies; in `Loader`, symbolic links, two
declarations of a name in one file, types with their variants, the order of the
candidate paths and the notes it keeps for diagnostics; in `Exclusion`, undoing the
linker's renaming, parameters of function type that are borrowed, several methods
in one impl and typestates.

The back ends (`ir/_emit_*`, `transpiler/`) are the greater part of the source. They
translate trees into text, keep no state between two functions but tables of what
was emitted, and what is to be said of them is that two programs agree for every
input. That is a statement about data, which the tests make by running both.

## 7. Plan

1. `Linear`: match arms, values returned, typestates. Split the analyzer's half from
   the run's, so that the merge lemmas (consumed grows with the union, moved shrinks
   with the intersection) can be proved by themselves.
2. `Flow`: calls, and the fixpoint of the call summaries (`_ifc_summary.py`) against
   inlining.
3. `Foreign`: `dispatch_foreign_call` with fuel and memory in each phase, and the
   classification of failures; composed with `CapHandles`.
4. Composition of manifests (`manifest/_compose.py`) over `Exclusion`, and the
   call-graph fixpoints of `ir/_*_ceiling.py` against reachability.
5. `Indent`: the lexer's indentation stack as a recursive function, against a
   reference.
6. Proofs: `Install` as a refinement of a machine that knows only pins and verified
   commits.
