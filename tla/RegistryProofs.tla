---------------------------- MODULE RegistryProofs ----------------------------
(***************************************************************************)
(* Proofs about Registry, for every number of clients, versions and        *)
(* faults.                                                                 *)
(*                                                                         *)
(* A signature is only ever copied: whatever a client holds or finds in    *)
(* the cache as a signature is nothing, a torn file, or one the publisher  *)
(* made.  What the verification accepts is therefore a signed index, and   *)
(* the pair a client writes and answers with was accepted.                 *)
(***************************************************************************)
EXTENDS Registry, TLAPS

USE RegistryAssumption DEF Version

Sigs == signed \cup {None, Partial}

\* Where signatures come from.
SigsInv ==
  /\ signature \in signed \cup {None}
  /\ cacheSig \in Sigs
  /\ \A c \in Client : sig[c] \in Sigs /\ stale[c].sig \in Sigs

\* Fetched and past the verification.
Fetched(c)  == pc[c] \in {"fetchsig", "verify", "write", "writing", "writesig"}
Verified(c) == pc[c] \in {"write", "writing", "writesig"}

PairsInv ==
  \A c \in Client :
    /\ Fetched(c) => index[c] \in Version
    /\ Verified(c) => Accepts(index[c], sig[c])

Inv == TypeOK /\ SigsInv /\ PairsInv /\ OnlySigned

\* What is accepted is intact, and signed unless the user opted out.
LEMMA AcceptedIsSigned ==
  ASSUME NEW i, NEW s \in Sigs, Accepts(i, s)
  PROVE  i # Partial /\ (~AllowUnsigned => i \in signed)
BY DEF Accepts, Sigs

-----------------------------------------------------------------------------
(* The steps of a client, seen through Inv.                                *)

\* What a client that moves on or finishes must bring.
LEMMA MoveStep ==
  ASSUME Inv, NEW c \in Client, NEW step, NEW i \in Bytes, NEW s \in Sigs,
         step \in {"readsig", "age", "fetch", "fetchsig", "verify",
                   "write", "writing", "writesig"},
         step \in {"readsig", "age"} => i # None,
         step \in {"fetchsig", "verify", "write", "writing", "writesig"} => i \in Version,
         step \in {"write", "writing", "writesig"} => Accepts(i, s),
         To(c, step, i, s), UNCHANGED upstream,
         cacheIndex' \in Bytes, cacheSig' = cacheSig, young' \in BOOLEAN,
         \/ stale' = stale
         \/ stale' = [stale EXCEPT ![c] = [index |-> index[c], sig |-> sig[c]]],
         \/ answer' = answer \/ answer' = [answer EXCEPT ![c] = None]
  PROVE  Inv'
<1> USE DEF Inv, To, upstream
<1>0. s \in Bytes
  BY DEF TypeOK, Sigs, Bytes
<1>1. TypeOK'
  <2>1. \A d \in Client : stale'[d] \in [index : Bytes, sig : Bytes]
    BY DEF TypeOK
  <2>2. answer' \in [Client -> Version \cup {None, Refused}]
    BY DEF TypeOK
  <2>3. QED
    BY <1>0, <2>1, <2>2 DEF TypeOK, Writing
<1>2. SigsInv'
  BY DEF SigsInv, Sigs, TypeOK
<1>3. PairsInv'
  BY DEF PairsInv, TypeOK, Fetched, Verified, Accepts
<1>4. OnlySigned'
  BY DEF OnlySigned, TypeOK
<1>5. QED
  BY <1>1, <1>2, <1>3, <1>4

\* What a client that finishes must bring.
LEMMA FinishStep ==
  ASSUME Inv, NEW c \in Client, NEW a \in Version \cup {None, Refused},
         a \in Version /\ ~AllowUnsigned => a \in signed,
         Finish(c, a), UNCHANGED upstream,
         cacheIndex' \in Bytes, cacheSig' \in Sigs, young' \in BOOLEAN
  PROVE  Inv'
<1> USE DEF Inv, Finish, To, upstream
<1>1. TypeOK'
  <2>1. stale' \in [Client -> [index : Bytes, sig : Bytes]]
    BY DEF TypeOK, NoPair, Bytes
  <2>2. cacheSig' \in Bytes
    BY DEF TypeOK, Sigs, Bytes
  <2>3. QED
    BY <2>1, <2>2 DEF TypeOK, Writing, Bytes
<1>2. SigsInv'
  BY DEF SigsInv, Sigs, TypeOK, NoPair
<1>3. PairsInv'
  BY DEF PairsInv, TypeOK, Fetched, Verified, Accepts
<1>4. OnlySigned'
  BY DEF OnlySigned, TypeOK
<1>5. QED
  BY <1>1, <1>2, <1>3, <1>4

\* A refusal leaves the files and the publisher alone.
LEMMA RefuseStep ==
  ASSUME Inv, NEW c \in Client, Finish(c, Refused), UNCHANGED <<upstream, cache>>
  PROVE  Inv'
<1>1. Refused \notin Version
  OBVIOUS
<1>2. cacheIndex' \in Bytes /\ cacheSig' \in Sigs /\ young' \in BOOLEAN
  BY DEF Inv, TypeOK, SigsInv, cache
<1>3. QED
  BY <1>1, <1>2, FinishStep

\* A pair read from the cache, verified and returned or refused.
LEMMA ConcludeStep ==
  ASSUME Inv, NEW c \in Client, NEW i \in Bytes, NEW s \in Sigs, Conclude(c, i, s),
         UNCHANGED <<upstream, cache>>
  PROVE  Inv'
<1> DEFINE a == IF Accepts(i, s) THEN i ELSE Refused
<1>1. Finish(c, a)
  BY DEF Conclude
<1>2. a \in Version \cup {None, Refused}
  BY AcceptedIsSigned DEF Bytes
<1>3. a \in Version /\ ~AllowUnsigned => a \in signed
  BY AcceptedIsSigned
<1>4. cacheIndex' \in Bytes /\ cacheSig' \in Sigs /\ young' \in BOOLEAN
  BY DEF Inv, TypeOK, SigsInv, cache
<1> HIDE DEF a
<1>5. QED
  BY <1>1, <1>2, <1>3, <1>4, FinishStep DEF cache

\* A write cut short leaves a cache of intact, torn or missing files.
LEMMA CutShortStep ==
  ASSUME Inv, NEW c \in Client, CutShort(c),
         NEW a \in {index[c], None}, Finish(c, a)
  PROVE  Inv'
<1>1. index[c] \in Version /\ Accepts(index[c], sig[c]) /\ sig[c] \in Sigs
  BY DEF CutShort, Inv, PairsInv, SigsInv, Fetched, Verified
<1>2. a \in Version \cup {None, Refused} /\ (a \in Version /\ ~AllowUnsigned => a \in signed)
  BY <1>1, AcceptedIsSigned
<1>3. cacheIndex' \in Bytes /\ cacheSig' \in Sigs /\ young' \in BOOLEAN
  BY DEF CutShort, Inv, TypeOK, SigsInv, Sigs
<1>4. QED
  BY <1>2, <1>3, FinishStep DEF CutShort

-----------------------------------------------------------------------------
(* Every step.                                                             *)

LEMMA InitInv == ASSUME Init  PROVE Inv
<1>1. TypeOK
  <2>1. published \in Version /\ signature \in Version \cup {None} /\ signed \subseteq Version
    BY DEF Init
  <2>2. stale \in [Client -> [index : Bytes, sig : Bytes]]
    BY DEF Init, NoPair, Bytes
  <2>3. answer \in [Client -> Version \cup {None, Refused}]
    BY DEF Init
  <2>4. index \in [Client -> Bytes] /\ sig \in [Client -> Bytes]
    BY DEF Init, Bytes
  <2>5. QED
    BY <2>1, <2>2, <2>3, <2>4 DEF Init, TypeOK, Bytes, Writing
<1>2. SigsInv
  BY DEF Init, SigsInv, Sigs, NoPair
<1>3. PairsInv /\ OnlySigned
  BY DEF Init, PairsInv, Fetched, Verified, OnlySigned
<1>4. QED
  BY <1>1, <1>2, <1>3 DEF Inv

LEMMA ClientStep ==
  ASSUME Inv, NEW c \in Client, Resolve(c) \/ FetchFails(c) \/ WriteFails(c) \/ Crash(c)
  PROVE  Inv'
<1> USE DEF Inv, cache
<1>1. CASE ReadCacheIndex(c)
  <2>1. cacheIndex \in Bytes /\ None \in Sigs /\ cacheSig' = cacheSig
    BY <1>1 DEF ReadCacheIndex, TypeOK, Sigs
  <2>2. QED
    BY <1>1, <2>1, MoveStep DEF ReadCacheIndex, TypeOK
<1>2. CASE ReadCacheSig(c)
  <2>1. index[c] \in Bytes /\ index[c] # None /\ cacheSig \in Sigs
    BY <1>2 DEF ReadCacheSig, TypeOK, SigsInv
  <2>2. QED
    BY <1>2, <2>1, MoveStep DEF ReadCacheSig, TypeOK
<1>3. CASE CheckAge(c)
  <2>1. index[c] \in Bytes /\ sig[c] \in Sigs /\ None \in Sigs /\ None \in Bytes
    BY DEF TypeOK, SigsInv, Sigs, Bytes
  <2>2. CASE Conclude(c, index[c], sig[c])
    BY <1>3, <2>1, <2>2, ConcludeStep DEF CheckAge
  <2>3. CASE ~young /\ ~Conclude(c, index[c], sig[c])
    BY <1>3, <2>1, <2>3, MoveStep DEF CheckAge, TypeOK
  <2>4. QED
    BY <1>3, <2>2, <2>3 DEF CheckAge
<1>4. CASE FetchIndex(c)
  <2>1. published \in Version /\ published \in Bytes /\ None \in Sigs
    BY DEF TypeOK, Sigs, Bytes
  <2>2. QED
    BY <1>4, <2>1, MoveStep DEF FetchIndex, TypeOK
<1>5. CASE FetchSig(c)
  <2>1. index[c] \in Version /\ index[c] \in Bytes /\ signature \in Sigs /\ None \in Sigs
    BY <1>5 DEF FetchSig, TypeOK, SigsInv, PairsInv, Fetched, Sigs
  <2>2. QED
    BY <1>5, <2>1, MoveStep DEF FetchSig, TypeOK
<1>6. CASE Verify(c)
  <2>1. index[c] \in Version /\ index[c] \in Bytes /\ sig[c] \in Sigs
    BY <1>6 DEF Verify, TypeOK, SigsInv, PairsInv, Fetched
  <2>2. CASE Finish(c, Refused)
    BY <1>6, <2>2, RefuseStep DEF Verify
  <2>3. CASE Accepts(index[c], sig[c]) /\ ~Finish(c, Refused)
    BY <1>6, <2>1, <2>3, MoveStep DEF Verify, TypeOK
  <2>4. QED
    BY <1>6, <2>2, <2>3 DEF Verify
<1>7. ASSUME Verified(c)
      PROVE  /\ index[c] \in Version /\ index[c] \in Bytes /\ sig[c] \in Sigs
             /\ Accepts(index[c], sig[c])
  BY <1>7 DEF TypeOK, SigsInv, PairsInv, Fetched, Verified
<1>8. CASE OpenCacheIndex(c) \/ WriteCacheIndex(c)
  <2>1. Verified(c)
    BY <1>8 DEF OpenCacheIndex, WriteCacheIndex, Verified
  <2>2. cacheIndex' \in Bytes /\ young' \in BOOLEAN
    BY <1>7, <1>8, <2>1 DEF OpenCacheIndex, WriteCacheIndex, Bytes
  <2>3. QED
    BY <1>7, <1>8, <2>1, <2>2, MoveStep DEF OpenCacheIndex, WriteCacheIndex
<1>9. CASE WriteCacheSig(c)
  <2>1. Verified(c)
    BY <1>9 DEF WriteCacheSig, Verified
  <2>2. cacheIndex' \in Bytes /\ cacheSig' \in Sigs /\ young' \in BOOLEAN
    BY <1>7, <1>9, <2>1 DEF WriteCacheSig, TypeOK
  <2>3. ~AllowUnsigned => index[c] \in signed
    BY <1>7, <2>1, AcceptedIsSigned
  <2>4. QED
    BY <1>7, <1>9, <2>1, <2>2, <2>3, FinishStep DEF WriteCacheSig
<1>10. CASE FetchFails(c)
  <2>1. stale[c].index \in Bytes /\ stale[c].sig \in Sigs
    BY DEF TypeOK, SigsInv
  <2>2. CASE Finish(c, Refused)
    BY <1>10, <2>2, RefuseStep DEF FetchFails
  <2>3. CASE Conclude(c, stale[c].index, stale[c].sig)
    BY <1>10, <2>1, <2>3, ConcludeStep DEF FetchFails
  <2>4. QED
    BY <1>10, <2>2, <2>3 DEF FetchFails
<1>11. CASE WriteFails(c) \/ Crash(c)
  BY <1>11, CutShortStep DEF WriteFails, Crash
<1>12. QED
  BY <1>1, <1>2, <1>3, <1>4, <1>5, <1>6, <1>8, <1>9, <1>10, <1>11 DEF Resolve

LEMMA InvStep == ASSUME Inv, [Next]_vars  PROVE Inv'
<1> USE DEF Inv, TypeOK, SigsInv, PairsInv, OnlySigned, Sigs, Fetched, Verified,
            Accepts, Writing, Bytes
<1>1. CASE \E c \in Client : Resolve(c) \/ FetchFails(c) \/ WriteFails(c) \/ Crash(c)
  BY <1>1, ClientStep
<1>2. CASE Expire
  BY <1>2 DEF Expire, upstream
<1>3. CASE PublishIndex
  BY <1>3 DEF PublishIndex, cache
<1>4. CASE PublishSig
  BY <1>4 DEF PublishSig, cache
<1>5. CASE UNCHANGED vars
  BY <1>5 DEF vars
<1>6. QED
  BY <1>1, <1>2, <1>3, <1>4, <1>5 DEF Next

-----------------------------------------------------------------------------
(* The theorems.                                                           *)

THEOREM Invariance == Spec => []Inv
<1>1. Init => Inv
  BY InitInv
<1>2. Inv /\ [Next]_vars => Inv'
  BY InvStep
<1>3. QED
  BY <1>1, <1>2, PTL DEF Spec

\* What a client writes to the cache is a version, never a torn or missing
\* index, and every file and answer is of its kind.
THEOREM TypeCorrect == Spec => []TypeOK
BY Invariance, PTL DEF Inv

\* Unless the user opted out, whatever is answered out of the index was signed
\* by the publisher, through every interleaving of clients and publisher and
\* every crash: _verify_index_signature and _write_cache of _registry.py.
THEOREM AnswersAreSigned == Spec => []OnlySigned
BY Invariance, PTL DEF Inv
===============================================================================
