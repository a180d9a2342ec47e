-------------------------------- MODULE Install --------------------------------
(***************************************************************************)
(* `capa install` (capa/pkg/_install.py) and the check every build makes   *)
(* of ./vendor (capa/pkg/_verify.py), over the files they share: capa.toml,*)
(* capa.lock and vendor/<name>.  Upstream tags move, the remote is out of  *)
(* reach, a process dies, the developer edits the manifest or the vendored *)
(* sources, and a build may run beside an install.                         *)
(*                                                                         *)
(* A pin stands for a git URL with the tag or revision asked of it.        *)
(***************************************************************************)
EXTENDS Naturals, Sequences, FiniteSets

CONSTANTS
  Order,         \* the dependencies, in the order of the manifest
  Declarations,  \* Declarations[d]: what the manifest may say of d
  Commit,
  RevCommit,     \* the commit a rev pin names
  Signer,        \* Signer[c]: the primary key whose signature commit c, or at a tag
                 \* pin the tag on it, carries, or None
  None,
  Unreadable,    \* a capa.lock that read_lock refuses: not TOML, or an entry that ends
                 \* before its commit
  Branched,      \* bound: the commits a branch with the name of a tag may be on
  RequireProvenance,  \* CAPA_REQUIRE_PROVENANCE is 1
  AllowMissingGh,     \* CAPA_ALLOW_MISSING_GH is 1
  MaxDisturbances     \* bound: moves of tags and branches, edits, crashes

Dep == {Order[i] : i \in DOMAIN Order}
Tags == {x.pin : x \in {y \in UNION {Declarations[d] : d \in Dep} : y.kind = "tag"}}

ASSUME InstallAssumption ==
  /\ Order \in Seq(Dep)
  /\ \A i, j \in DOMAIN Order : Order[i] = Order[j] => i = j  \* a name is declared once
  /\ MaxDisturbances \in Nat /\ Branched \subseteq Commit
  /\ RequireProvenance \in BOOLEAN /\ AllowMissingGh \in BOOLEAN
  /\ \A d \in Dep : \A x \in Declarations[d] :
       /\ x.kind \in {"tag", "rev", "path"}
       /\ x.level \in {"off", "warn", "required"}
       /\ x.kind = "rev" => RevCommit[x.pin] \in Commit

Missing    == [at |-> None, clean |-> FALSE]  \* no checkout whose HEAD can be read
Tree       == [at : Commit, clean : BOOLEAN] \cup {Missing}

VARIABLES
  manifest,  \* capa.toml: dependency -> declaration
  remote,    \* upstream: the commit of each tag, and of a branch of that name if any
  vendor,    \* vendor/<name>
  lock,      \* capa.lock: its entries by name; an absent file has none
  pc,        \* the install: "idle", "precheck", "fetch", "clone", "verify", "write"
  plan,      \* the manifest the install read
  old,       \* existing_by_name
  allow,     \* allow_lock_update
  left,      \* the dependencies still to visit in this pass
  tagged,    \* the checkout that is verified has the tag it was cloned for
  fresh,     \* locked: the entries resolved so far
  bad,       \* mismatches is not empty
  build,     \* a build: positions in Order of its dependencies, those to check, its lock
  touched,   \* history: the trees that changed since the build began
  agreed,    \* history: the entries of the last install that reached write_lock
  damaged,   \* history: capa.lock was torn by a crash or deleted since it was last written
  disturbances

install == <<pc, plan, old, allow, left, tagged, fresh, bad>>
history == <<agreed, damaged>>
vars == <<manifest, remote, vendor, lock, pc, plan, old, allow, left, tagged, fresh, bad,
          build, touched, agreed, damaged, disturbances>>

NoBuild == [step |-> "idle", deps |-> {}, left |-> {}, lock |-> <<>>]

\* What read_lock makes of the text of the entries f, in the order they are
\* written, if it ends after the n-th: with its signing_key, which is the last
\* line of an entry and may be absent, or without.
Beginning(f, n, cut) ==
  [d \in DOMAIN f \cap {Order[i] : i \in 1..n} |->
     IF cut /\ d = Order[n] THEN [f[d] EXCEPT !.key = None] ELSE f[d]]

\* vendor/<name> of d becomes t.
Becomes(d, t) ==
  /\ vendor' = [vendor EXCEPT ![d] = t]
  /\ touched' = IF build.step = "idle" THEN touched ELSE touched \cup {d}

-----------------------------------------------------------------------------
(* install: the manifest and the lock are read, then the first pass *)

Start(update) ==
  /\ pc = "idle" /\ lock # Unreadable
  /\ pc' = "precheck" /\ plan' = manifest /\ old' = lock /\ allow' = update
  /\ left' = Order /\ tagged' = FALSE /\ fresh' = <<>> /\ bad' = FALSE
  /\ UNCHANGED <<manifest, remote, vendor, lock, build, touched, history, disturbances>>

Stop ==
  /\ pc' = "idle" /\ plan' = <<>> /\ old' = <<>> /\ allow' = FALSE
  /\ left' = <<>> /\ tagged' = FALSE /\ fresh' = <<>> /\ bad' = FALSE

\* Every way out of install but the last: an error is raised.
Raise == Stop /\ UNCHANGED <<manifest, remote, vendor, lock, build, touched, history, disturbances>>

Pass == left' = Tail(left) /\ UNCHANGED <<pc, plan, old, allow, tagged, fresh, bad>>

\* The lock has an entry for the very pin the manifest declares.
Pinned(d) == d \in DOMAIN old /\ old[d].pin = plan[d].pin

\* git ls-remote, of refs/tags alone, for a tag that is locked; no answer is
\* not an error yet.
PreCheck ==
  /\ pc = "precheck" /\ left # <<>>
  /\ LET d == Head(left) IN
     \/ /\ plan[d].kind # "tag" \/ ~Pinned(d) \/ allow
        /\ Pass
     \/ /\ plan[d].kind = "tag" /\ Pinned(d) /\ ~allow
        /\ Pass  \* it names the locked commit, or the remote does not answer
     \/ /\ plan[d].kind = "tag" /\ Pinned(d) /\ ~allow
        /\ remote[plan[d].pin].tag # old[d].commit
        /\ Stop
  /\ UNCHANGED <<manifest, remote, vendor, lock, build, touched, history, disturbances>>

PreChecked ==
  /\ pc = "precheck" /\ left = <<>>
  /\ pc' = "fetch" /\ left' = Order
  /\ UNCHANGED <<manifest, remote, vendor, lock, plan, old, allow, tagged, fresh, bad,
                 build, touched, history, disturbances>>

-----------------------------------------------------------------------------
(* The second pass: _check_path_dep and _fetch_git_dep *)

CheckPathDep ==
  /\ pc = "fetch" /\ left # <<>> /\ plan[Head(left)].kind = "path"
  /\ Pass \/ Stop  \* the directory is there, or not
  /\ UNCHANGED <<manifest, remote, vendor, lock, build, touched, history, disturbances>>

\* _rmtree_force
Remove ==
  /\ pc = "fetch" /\ left # <<>> /\ plan[Head(left)].kind # "path"
  /\ Becomes(Head(left), Missing)
  /\ pc' = "clone"
  /\ UNCHANGED <<manifest, remote, lock, plan, old, allow, left, tagged, fresh, bad,
                 build, history, disturbances>>

\* `git clone --branch` takes a branch of the name before a tag of it.
Upstream(x) ==
  IF x.kind = "rev" THEN RevCommit[x.pin]
  ELSE IF remote[x.pin].branch # None THEN remote[x.pin].branch ELSE remote[x.pin].tag

\* git clone of the name, of depth 1, which brings the tag along if it is on
\* the commit; or a clone and a checkout of the revision.
Clone ==
  /\ pc = "clone"
  /\ LET d == Head(left) IN
     \/ /\ Becomes(d, [at |-> Upstream(plan[d]), clean |-> TRUE])
        /\ tagged' = (plan[d].kind = "tag" /\ Upstream(plan[d]) = remote[plan[d].pin].tag)
        /\ pc' = "verify"
        /\ UNCHANGED <<plan, old, allow, left, fresh, bad>>
     \/ /\ Stop  \* the clone failed
        /\ UNCHANGED <<vendor, touched>>
     \/ /\ plan[d].kind = "rev" /\ Stop  \* the checkout failed; the default branch stays
        /\ \E c \in Commit : Becomes(d, [at |-> c, clean |-> TRUE])
  /\ UNCHANGED <<manifest, remote, lock, build, history, disturbances>>

\* _verify_signed_pin: verify-tag of the name, which a branch of it is not, or
\* verify-commit.
SignatureHolds(d) ==
  plan[d].key # None => /\ plan[d].kind = "tag" => tagged
                        /\ Signer[vendor[d].at] = plan[d].key

Level(d) == IF RequireProvenance THEN "required" ELSE plan[d].level

\* What the check of the provenance can meet: a valid attestation, an invalid
\* one, none to look at, or no gh to look with.  A revision has none.
Found(d) == IF plan[d].kind = "rev" THEN {"none"} ELSE {"valid", "invalid", "none", "no gh"}

\* Mutation: provenance is only looked at for a dependency with a key.
ProvenanceUnderKey(d, found) ==
  \/ plan[d].key = None
  \/ Level(d) = "off"
  \/ found = "valid"
  \/ found = "none" /\ Level(d) = "warn"
  \/ found = "no gh" /\ Level(d) = "warn" /\ AllowMissingGh

\* _verify_slsa_provenance
ProvenanceHolds(d, found) ==
  \/ Level(d) = "off"
  \/ found = "valid"
  \/ found = "none" /\ Level(d) = "warn"
  \/ found = "no gh" /\ Level(d) = "warn" /\ (plan[d].key = None \/ AllowMissingGh)

\* Mutation: the entry has the commit of a checkout that is gone.
EntryBeforeClone(d, found) ==
  [pin |-> plan[d].pin, commit |-> Missing.at, key |-> plan[d].key,
   level |-> Level(d), proven |-> found = "valid"]

Entry(d, found) ==
  [pin |-> plan[d].pin, commit |-> vendor[d].at, key |-> plan[d].key,
   level |-> Level(d), proven |-> found = "valid"]

\* Mutation: the mismatch is only looked for where the first pass did not.
MovedRev(d) == plan[d].kind = "rev" /\ Pinned(d) /\ ~allow /\ old[d].commit # vendor[d].at

Moved(d) == Pinned(d) /\ ~allow /\ old[d].commit # vendor[d].at

\* The signature, the provenance, and the comparison with the old lock.
Verify ==
  /\ pc = "verify"
  /\ LET d == Head(left) IN \E found \in Found(d) :
     \/ /\ SignatureHolds(d) /\ ProvenanceHolds(d, found)
        /\ fresh' = [x \in DOMAIN fresh \cup {d} |-> IF x = d THEN Entry(d, found) ELSE fresh[x]]
        /\ bad' = (bad \/ Moved(d))
        /\ left' = Tail(left) /\ tagged' = FALSE /\ pc' = "fetch"
        /\ UNCHANGED <<plan, old, allow>>
     \/ ~(SignatureHolds(d) /\ ProvenanceHolds(d, found)) /\ Stop
  /\ UNCHANGED <<manifest, remote, vendor, lock, build, touched, history, disturbances>>

\* LockMismatchError once every dependency was fetched.
RaiseMismatch == pc = "fetch" /\ left = <<>> /\ bad /\ Raise

\* write_lock truncates the file ...
OpenLock ==
  /\ pc = "fetch" /\ left = <<>> /\ ~bad
  /\ pc' = "write" /\ lock' = <<>> /\ agreed' = fresh
  /\ UNCHANGED <<manifest, remote, vendor, plan, old, allow, left, tagged, fresh, bad,
                 build, touched, damaged, disturbances>>

\* Mutation: entries of dependencies that are gone are kept.
WriteMerged ==
  /\ pc = "write" /\ damaged' = FALSE /\ Stop
  /\ lock' = [d \in DOMAIN fresh \cup DOMAIN old |-> IF d \in DOMAIN fresh THEN fresh[d] ELSE old[d]]
  /\ UNCHANGED <<manifest, remote, vendor, build, touched, agreed, disturbances>>

\* ... and writes its text.
WriteLock ==
  /\ pc = "write" /\ lock' = fresh /\ damaged' = FALSE /\ Stop
  /\ UNCHANGED <<manifest, remote, vendor, build, touched, agreed, disturbances>>

-----------------------------------------------------------------------------
(* A build: _capa_search_paths calls verify_vendored_deps, the loader reads *)

GitDeps(m) == {i \in DOMAIN Order : m[Order[i]].kind # "path"}

\* They are checked in the order of the manifest.
Turn(i) == i \in build.left /\ \A j \in build.left : i <= j

BuildStart ==
  /\ build.step = "idle" /\ lock # Unreadable /\ GitDeps(manifest) # {}
  /\ build' = [step |-> "head", deps |-> GitDeps(manifest), left |-> GitDeps(manifest), lock |-> lock]
  /\ touched' = {}
  /\ UNCHANGED <<manifest, remote, vendor, lock, install, history, disturbances>>

BuildRefused ==
  /\ build' = NoBuild /\ touched' = {}
  /\ UNCHANGED <<manifest, remote, vendor, lock, install, history, disturbances>>

\* rev-parse HEAD against the entry of the lock.
CheckHead ==
  /\ build.step = "head"
  /\ \E i \in DOMAIN Order : LET d == Order[i] IN
     /\ Turn(i)
     /\ \/ /\ d \in DOMAIN build.lock /\ vendor[d].at = build.lock[d].commit
           /\ build' = [build EXCEPT !.step = "status"]
           /\ UNCHANGED <<manifest, remote, vendor, lock, install, touched, history, disturbances>>
        \/ ~(d \in DOMAIN build.lock /\ vendor[d].at = build.lock[d].commit) /\ BuildRefused

Accepted(i) ==
  /\ build' = [build EXCEPT !.step = "head", !.left = @ \ {i}]
  /\ UNCHANGED <<manifest, remote, vendor, lock, install, touched, history, disturbances>>

\* Mutation: only HEAD is compared.
CheckNoTree == build.step = "status" /\ \E i \in DOMAIN Order : Turn(i) /\ Accepted(i)

\* git status --porcelain.
CheckTree ==
  /\ build.step = "status"
  /\ \E i \in DOMAIN Order :
       /\ Turn(i)
       /\ \/ vendor[Order[i]].clean /\ Accepted(i)
          \/ ~vendor[Order[i]].clean /\ BuildRefused

\* The loader reads the sources that were verified.
Load ==
  /\ build.step = "head" /\ build.left = {}
  /\ build' = NoBuild /\ touched' = {}
  /\ UNCHANGED <<manifest, remote, vendor, lock, install, history, disturbances>>

-----------------------------------------------------------------------------
(* What happens around them *)

Disturb == disturbances < MaxDisturbances /\ disturbances' = disturbances + 1

MoveTag(p, c) ==
  /\ Disturb /\ remote[p].tag # c
  /\ remote' = [remote EXCEPT ![p].tag = c]
  /\ UNCHANGED <<manifest, vendor, lock, install, build, touched, history>>

\* A branch of the name of a tag is pushed, or deleted.
MoveBranch(p, b) ==
  /\ Disturb /\ remote[p].branch # b
  /\ remote' = [remote EXCEPT ![p].branch = b]
  /\ UNCHANGED <<manifest, vendor, lock, install, build, touched, history>>

EditManifest(d, x) ==
  /\ Disturb /\ manifest[d] # x
  /\ manifest' = [manifest EXCEPT ![d] = x]
  /\ UNCHANGED <<remote, vendor, lock, install, build, touched, history>>

\* Files of a checkout are edited, or another commit is checked out; not
\* those of the checkout that is being verified.
EditVendor(d, c) ==
  /\ Disturb /\ vendor[d] # Missing
  /\ pc = "verify" => d # Head(left)
  /\ \/ c = vendor[d].at /\ Becomes(d, [at |-> c, clean |-> FALSE])
     \/ c # vendor[d].at /\ Becomes(d, [at |-> c, clean |-> TRUE])
  /\ UNCHANGED <<manifest, remote, lock, install, build, history>>

\* The developer gives the pins up, as LockMismatchError suggests.
DeleteLock ==
  /\ pc = "idle" /\ lock # <<>>
  /\ lock' = <<>> /\ damaged' = TRUE
  /\ UNCHANGED <<manifest, remote, vendor, install, build, touched, agreed, disturbances>>

\* The install dies: a clone or a removal is left half done, or the text of
\* capa.lock ends after some entry, after its commit or somewhere in between.
Crash ==
  /\ Disturb /\ pc # "idle" /\ Stop
  /\ \/ pc \notin {"clone", "write"} /\ UNCHANGED <<vendor, lock, touched, damaged>>
     \/ /\ pc = "clone"
        /\ \E t \in {Missing} \cup {[at |-> c, clean |-> FALSE] : c \in Commit} :
             Becomes(Head(left), t)
        /\ UNCHANGED <<lock, damaged>>
     \/ /\ pc = "write"
        /\ \/ \E n \in 0..Len(Order), cut \in BOOLEAN : lock' = Beginning(fresh, n, cut)
           \/ lock' = Unreadable
        /\ damaged' = TRUE
        /\ UNCHANGED <<vendor, touched>>
  /\ UNCHANGED <<manifest, remote, build, agreed>>

Init ==
  /\ manifest \in [Dep -> UNION {Declarations[d] : d \in Dep}]
  /\ \A d \in Dep : manifest[d] \in Declarations[d]
  /\ remote \in [Tags -> [tag : Commit, branch : Branched \cup {None}]]
  /\ vendor = [d \in Dep |-> Missing]
  /\ lock = <<>>
  /\ pc = "idle" /\ plan = <<>> /\ old = <<>> /\ allow = FALSE
  /\ left = <<>> /\ tagged = FALSE /\ fresh = <<>> /\ bad = FALSE
  /\ build = NoBuild /\ touched = {}
  /\ agreed = <<>> /\ damaged = FALSE
  /\ disturbances = 0

Next ==
  \/ \E update \in BOOLEAN : Start(update)
  \/ PreCheck \/ PreChecked
  \/ CheckPathDep \/ Remove \/ Clone \/ Verify \/ RaiseMismatch \/ OpenLock \/ WriteLock
  \/ BuildStart \/ CheckHead \/ CheckTree \/ Load
  \/ \E d \in Dep :
       \/ \E x \in Declarations[d] : EditManifest(d, x)
       \/ \E c \in Commit : EditVendor(d, c)
  \/ \E p \in Tags :
       \/ \E c \in Commit : MoveTag(p, c)
       \/ \E b \in Branched \cup {None} : MoveBranch(p, b)
  \/ DeleteLock \/ Crash

Spec == Init /\ [][Next]_vars

-----------------------------------------------------------------------------
(* Properties *)

Entries == [pin : {x.pin : x \in UNION {Declarations[d] : d \in Dep}}, commit : Commit,
            key : {None} \cup {x.key : x \in UNION {Declarations[d] : d \in Dep}},
            level : {"off", "warn", "required"}, proven : BOOLEAN]
IsManifest(m) ==
  /\ m \in [Dep -> UNION {Declarations[d] : d \in Dep}]
  /\ \A d \in Dep : m[d] \in Declarations[d]
IsLock(f) == DOMAIN f \subseteq Dep /\ \A d \in DOMAIN f : f[d] \in Entries

TypeOK ==
  /\ IsManifest(manifest) /\ (pc # "idle" => IsManifest(plan) /\ IsLock(old))
  /\ remote \in [Tags -> [tag : Commit, branch : Branched \cup {None}]]
  /\ tagged \in BOOLEAN /\ vendor \in [Dep -> Tree]
  /\ lock = Unreadable \/ IsLock(lock)
  /\ IsLock(fresh) /\ IsLock(agreed)
  /\ pc \in {"idle", "precheck", "fetch", "clone", "verify", "write"}
  /\ pc \in {"clone", "verify"} => left # <<>> /\ Head(left) \notin DOMAIN fresh
  /\ touched \subseteq Dep

\* The commit locked for a pin changes only in an install with --update, or
\* after its entry was lost: no move of a tag and no branch of its name,
\* whenever it comes and whether or not the remote answered the first pass, is
\* accepted by itself, and none after an install died while it wrote the lock
\* either.
LockedCommitsStand ==
  [][\A d \in DOMAIN agreed \cap DOMAIN agreed' :
       agreed'[d].pin = agreed[d].pin /\ agreed'[d].commit # agreed[d].commit
         => allow \/ d \notin DOMAIN old]_vars

\* A lock that can be read is what one install resolved, or its beginning
\* when that install died while writing it, the last entry perhaps without its
\* key: entries of two installs are never mixed, and none comes without its
\* commit.
LockIsOneInstall ==
  lock # Unreadable =>
    /\ \E n \in 0..Len(Order), cut \in BOOLEAN : lock = Beginning(agreed, n, cut)
    /\ pc # "write" /\ ~damaged => lock = agreed

\* Whatever was locked had the signature and the provenance its declaration
\* asked for when it was installed, also when installs failed in between.
LockedIsVerified ==
  \A d \in DOMAIN agreed :
    /\ agreed[d].key # None => Signer[agreed[d].commit] = agreed[d].key
    /\ agreed[d].level = "required" => agreed[d].proven

\* The sources a build loads are those of the locked commits, unmodified,
\* whatever installs failed, died or ran beside it, except the ones that
\* changed after the build had begun.
BuildReadsLocked ==
  [][Load => \A i \in build.deps : LET d == Order[i] IN
       d \notin touched => vendor[d] = [at |-> build.lock[d].commit, clean |-> TRUE]]_vars

\* _manifest.py:248: an entry of the lock has the key that was verified when
\* it was locked.
EntriesAreWhole == lock # Unreadable => \A d \in DOMAIN lock : lock[d] = agreed[d]

\* _install.py:24 and docs/trust-model.md:62: a moved upstream tag does not
\* overwrite vendor/<name> of a locked tag dependency.
MovedTagKeepsVendor ==
  [][pc = "clone" /\ vendor' # vendor /\ ~allow =>
       LET d == Head(left) IN
       plan[d].kind = "tag" /\ Pinned(d) => vendor'[d].at \in {None, old[d].commit}]_vars

\* _verify.py:35: the commit a build accepts was verified at install time; a
\* dependency that declares a key is built from a commit signed by it.
BuildUsesDeclaredKey ==
  [][Load => \A i \in build.deps :
       LET d == Order[i] IN
       d \notin touched /\ manifest[d].key # None => Signer[vendor[d].at] = manifest[d].key]_vars
===============================================================================
