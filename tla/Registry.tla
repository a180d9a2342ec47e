------------------------------- MODULE Registry -------------------------------
(***************************************************************************)
(* The registry index (capa/pkg/_registry.py): an index and its detached   *)
(* signature, fetched one after the other from a publisher that replaces   *)
(* them one after the other, verified, and cached in two files of ~/.capa  *)
(* that every capa process of the user reads and writes without a lock.    *)
(*                                                                         *)
(* A version stands for the bytes of an index; the signature of a version  *)
(* verifies for that version alone.                                        *)
(***************************************************************************)
EXTENDS Naturals

CONSTANTS
  Client,         \* capa processes that resolve a name, again and again
  MaxVersion,     \* bound: versions published
  MaxFaults,      \* bound: writes of the cache that fail or die, and fetches that fail
  Signs,          \* the publisher signs the index
  AllowUnsigned,  \* CAPA_REGISTRY_ALLOW_UNSIGNED is 1
  HasGpg,         \* gpg is on the PATH
  None,
  Refused,        \* the answer when a RegistryError was raised
  Partial         \* a file of which not all bytes were written

ASSUME RegistryAssumption ==
  /\ {None, Refused, Partial} \cap Nat = {}
  /\ MaxVersion \in Nat \ {0} /\ MaxFaults \in Nat
  /\ Signs \in BOOLEAN /\ AllowUnsigned \in BOOLEAN /\ HasGpg \in BOOLEAN

Version == 1..MaxVersion
Bytes   == Version \cup {None, Partial}

VARIABLES
  published,  \* index.json upstream
  signature,  \* index.json.asc upstream
  signed,     \* history: the versions the publisher signed
  cacheIndex, cacheSig,  \* registry-index.json and its .asc
  young,      \* the index was written less than _CACHE_TTL ago
  pc,         \* where each client is in _load_index
  index, sig, \* what it read or fetched: raw, sig
  stale,      \* cached: the pair it read before it turned to the network
  answer,     \* what its last resolution returned: a version, Refused or None
  faults

upstream == <<published, signature, signed>>
cache    == <<cacheIndex, cacheSig, young>>
vars == <<published, signature, signed, cacheIndex, cacheSig, young, pc, index, sig,
          stale, answer, faults>>

NoPair == [index |-> None, sig |-> None]

\* Mutation: no signature is no reason to refuse.
AcceptsUnsigned(i, s) ==
  /\ i # Partial
  /\ \/ s = None
     \/ s # None /\ HasGpg /\ s = i
     \/ s # None /\ ~HasGpg /\ AllowUnsigned

\* _verify_index_signature and _parse_index_bytes.
Accepts(i, s) ==
  /\ i # Partial
  /\ \/ s = None /\ AllowUnsigned
     \/ s # None /\ HasGpg /\ s = i
     \/ s # None /\ ~HasGpg /\ AllowUnsigned

Fault == faults < MaxFaults /\ faults' = faults + 1

\* The client moves on with a pair in hand.
To(c, step, i, s) ==
  /\ pc' = [pc EXCEPT ![c] = step]
  /\ index' = [index EXCEPT ![c] = i] /\ sig' = [sig EXCEPT ![c] = s]

Finish(c, a) ==
  /\ To(c, "idle", None, None)
  /\ stale' = [stale EXCEPT ![c] = NoPair]
  /\ answer' = [answer EXCEPT ![c] = a]

-----------------------------------------------------------------------------
(* The cache is read *)

\* A cached pair, young or as a fallback, is verified like a fetched one.
Conclude(c, i, s) == Finish(c, IF Accepts(i, s) THEN i ELSE Refused)

ReadCacheIndex(c) ==
  /\ pc[c] = "idle"
  /\ To(c, IF cacheIndex = None THEN "fetch" ELSE "readsig", cacheIndex, None)
  /\ answer' = [answer EXCEPT ![c] = None]
  /\ UNCHANGED <<upstream, cache, stale, faults>>

ReadCacheSig(c) ==
  /\ pc[c] = "readsig"
  /\ To(c, "age", index[c], cacheSig)
  /\ UNCHANGED <<upstream, cache, stale, answer, faults>>

\* Mutation: an old copy is as good as a young one.
CheckAnyAge(c) ==
  /\ pc[c] = "age"
  /\ Conclude(c, index[c], sig[c])
  /\ UNCHANGED <<upstream, cache, faults>>

\* Within the TTL the network is not asked, whatever the verification says.
CheckAge(c) ==
  /\ pc[c] = "age"
  /\ \/ young /\ Conclude(c, index[c], sig[c])
     \/ /\ ~young
        /\ stale' = [stale EXCEPT ![c] = [index |-> index[c], sig |-> sig[c]]]
        /\ To(c, "fetch", None, None)
        /\ UNCHANGED answer
  /\ UNCHANGED <<upstream, cache, faults>>

-----------------------------------------------------------------------------
(* The network is asked *)

FetchIndex(c) ==
  /\ pc[c] = "fetch"
  /\ To(c, "fetchsig", published, None)
  /\ UNCHANGED <<upstream, cache, stale, answer, faults>>

\* A failed fetch falls back to the pair that was read, if there was one.
FetchFails(c) ==
  /\ pc[c] = "fetch" /\ Fault
  /\ IF stale[c] = NoPair THEN Finish(c, Refused) ELSE Conclude(c, stale[c].index, stale[c].sig)
  /\ UNCHANGED <<upstream, cache>>

\* No signature upstream and a failed fetch of it are the same.
FetchSig(c) ==
  /\ pc[c] = "fetchsig"
  /\ \/ To(c, "verify", index[c], signature) /\ UNCHANGED faults
     \/ To(c, "verify", index[c], None) /\ Fault
  /\ UNCHANGED <<upstream, cache, stale, answer>>

\* Verified before it is cached.
Verify(c) ==
  /\ pc[c] = "verify"
  /\ \/ /\ Accepts(index[c], sig[c])
        /\ To(c, "write", index[c], sig[c])
        /\ UNCHANGED <<stale, answer>>
     \/ ~Accepts(index[c], sig[c]) /\ Finish(c, Refused)
  /\ UNCHANGED <<upstream, cache, faults>>

-----------------------------------------------------------------------------
(* The cache is written: _write_cache *)

OpenCacheIndex(c) ==
  /\ pc[c] = "write"
  /\ cacheIndex' = Partial /\ young' = TRUE
  /\ To(c, "writing", index[c], sig[c])
  /\ UNCHANGED <<upstream, cacheSig, stale, answer, faults>>

WriteCacheIndex(c) ==
  /\ pc[c] = "writing"
  /\ cacheIndex' = index[c] /\ young' = TRUE
  /\ To(c, "writesig", index[c], sig[c])
  /\ UNCHANGED <<upstream, cacheSig, stale, answer, faults>>

\* The signature replaces the old one, or the old one is removed.
WriteCacheSig(c) ==
  /\ pc[c] = "writesig"
  /\ cacheSig' = sig[c]
  /\ Finish(c, index[c])
  /\ UNCHANGED <<upstream, cacheIndex, young, faults>>

\* What a write that is cut short leaves of the two files.
CutShort(c) ==
  /\ pc[c] \in {"write", "writing", "writesig"} /\ Fault
  /\ cacheSig' \in {cacheSig} \cup {x \in {Partial} : pc[c] = "writesig"}
  /\ UNCHANGED <<upstream, cacheIndex, young>>

\* An error of the file system ends the writing and not the resolution ...
WriteFails(c) == CutShort(c) /\ Finish(c, index[c])

\* ... and the process may die there.
Crash(c) == CutShort(c) /\ Finish(c, None)

Expire ==
  /\ young /\ young' = FALSE
  /\ UNCHANGED <<upstream, cacheIndex, cacheSig, pc, index, sig, stale, answer, faults>>

-----------------------------------------------------------------------------
(* The publisher *)

PublishIndex ==
  /\ published < MaxVersion /\ signature = (IF Signs THEN published ELSE None)
  /\ published' = published + 1
  /\ UNCHANGED <<signature, signed, cache, pc, index, sig, stale, answer, faults>>

PublishSig ==
  /\ Signs /\ signature # published
  /\ signature' = published /\ signed' = signed \cup {published}
  /\ UNCHANGED <<published, cache, pc, index, sig, stale, answer, faults>>

Init ==
  /\ published = 1
  /\ signature = (IF Signs THEN 1 ELSE None) /\ signed = (IF Signs THEN {1} ELSE {})
  /\ cacheIndex = None /\ cacheSig = None /\ young = FALSE
  /\ pc = [c \in Client |-> "idle"]
  /\ index = [c \in Client |-> None] /\ sig = [c \in Client |-> None]
  /\ stale = [c \in Client |-> NoPair]
  /\ answer = [c \in Client |-> None]
  /\ faults = 0

Resolve(c) ==
  \/ ReadCacheIndex(c) \/ ReadCacheSig(c) \/ CheckAge(c)
  \/ FetchIndex(c) \/ FetchSig(c) \/ Verify(c)
  \/ OpenCacheIndex(c) \/ WriteCacheIndex(c) \/ WriteCacheSig(c)

Next ==
  \/ \E c \in Client : Resolve(c) \/ FetchFails(c) \/ WriteFails(c) \/ Crash(c)
  \/ Expire \/ PublishIndex \/ PublishSig

Spec == Init /\ [][Next]_vars

\* Clients that are run again and again proceed, time passes, and the
\* publisher does not stop between an index and its signature.
FairSpec ==
  /\ Spec
  /\ \A c \in Client : WF_vars(Resolve(c))
  /\ WF_vars(Expire) /\ WF_vars(PublishSig)

-----------------------------------------------------------------------------
(* Properties *)

Writing(c) == pc[c] \in {"writing", "writesig"}

TypeOK ==
  /\ published \in Version /\ signature \in Version \cup {None} /\ signed \subseteq Version
  /\ cacheIndex \in Bytes /\ cacheSig \in Bytes /\ young \in BOOLEAN
  /\ pc \in [Client -> {"idle", "readsig", "age", "fetch", "fetchsig", "verify",
                        "write", "writing", "writesig"}]
  /\ index \in [Client -> Bytes] /\ sig \in [Client -> Bytes]
  /\ \A c \in Client : pc[c] \in {"readsig", "age"} => index[c] # None
  /\ \A c \in Client : Writing(c) => index[c] \in Version
  /\ stale \in [Client -> [index : Bytes, sig : Bytes]]
  /\ answer \in [Client -> Version \cup {None, Refused}]

\* Unless the user opted out, a name is resolved only in an index that the
\* publisher had signed: no pair torn by a crash, by a second process or by
\* the publisher's own two steps is ever believed.
OnlySigned ==
  ~AllowUnsigned => \A c \in Client : answer[c] \in Version => answer[c] \in signed

\* Whatever happened to the cache, resolutions succeed again: a torn pair is
\* refused for the time of the TTL, not for ever.  (One client may always read
\* while another writes, so this is said of the clients together.)
AnswersAgain == []<>(\E c \in Client : answer[c] \in Version)

\* _registry.py:459: no refresh leaves a signature behind that would falsely
\* fail verification of the cached index.
NoStaleSignature ==
  (\A c \in Client : pc[c] = "idle") /\ cacheIndex \in Version /\ cacheSig # None
    => Accepts(cacheIndex, cacheSig)
===============================================================================
