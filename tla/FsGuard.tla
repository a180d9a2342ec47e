------------------------------- MODULE FsGuard -------------------------------
(***************************************************************************)
(* The Fs and Db operations on one path (capa/runtime/_capabilities.py)    *)
(* and the guard that checks a file after opening it                       *)
(* (capa/runtime/_fs_guard.py), interleaved with another process that      *)
(* swaps the directories and symbolic links the path goes through.         *)
(*                                                                         *)
(* A place is a file system location under its resolved name.  The path    *)
(* the program passes leads to some place at each moment; an open file     *)
(* stays at its place whatever happens to the path.  Renaming an open file *)
(* and hard links are left out: the guard compares names, and the Fs       *)
(* docstring lists hard links among what it does not see.                  *)
(***************************************************************************)
EXTENDS FiniteSets

CONSTANTS
  Place,    \* where the path may lead
  Inside,   \* the places under the prefixes of the restricted capability
  NoPlace

ASSUME PlaceAssumption == Inside \subseteq Place /\ NoPlace \notin Place

FileOps == {"read", "write"}
DbOps   == {"query", "exec"}
Queries == {"exists", "list_dir", "mkdir"}
Operation == FileOps \cup DbOps \cup Queries

VARIABLES
  place,       \* where the path leads now
  linked,      \* its last component is a symbolic link
  content,     \* what each place holds
  platform,    \* what the system offers: true paths of handles, O_NOFOLLOW
  pc,          \* the next step of the operation
  op,
  restricted,  \* the capability has prefixes
  fd,          \* the place of the open file
  result,
  reached,     \* history: places whose content the operation gave out or changed
  moved        \* history: the path led elsewhere since the resolution last checked

world == <<place, linked>>
call  == <<op, restricted, platform>>
vars == <<place, linked, content, platform, pc, op, restricted, fd, result,
          reached, moved>>

-----------------------------------------------------------------------------
\* The operation returns; whatever file it had open is closed.
Answer(r) == pc' = "idle" /\ result' = r /\ fd' = NoPlace

\* The program calls an operation of Fs or of Db.
Begin(o, r) ==
  /\ pc = "idle"
  /\ pc' = "allows"
  /\ op' = o
  /\ restricted' = r
  /\ result' = "none"
  /\ reached' = {}
  /\ moved' = FALSE
  /\ UNCHANGED <<world, content, platform, fd>>

\* Where allows() hands on to.
AfterAllows ==
  CASE op \in Queries -> "act"
    [] op \in FileOps -> IF restricted THEN "open" ELSE "plain"
    [] op \in DbOps   -> IF restricted THEN "open" ELSE "connect"

\* Mutation: the prefixes are compared with the path as it was given.
AllowsUnresolved ==
  /\ pc = "allows"
  /\ pc' = AfterAllows
  /\ moved' = FALSE
  /\ UNCHANGED <<world, content, call, fd, result, reached>>

\* allows(): realpath follows the path and the prefixes are compared.
Allows ==
  /\ pc = "allows"
  /\ moved' = FALSE
  /\ \/ /\ restricted => place \in Inside
        /\ pc' = AfterAllows
        /\ UNCHANGED <<fd, result>>
     \/ restricted /\ place \notin Inside /\ Answer("denied")
  /\ UNCHANGED <<world, content, call, reached>>

-----------------------------------------------------------------------------
(* Opening with verification *)

Creates == op \in {"write"} \cup DbOps

Fail == Answer("failed") /\ UNCHANGED <<world, content, call, reached, moved>>

\* os.open: the handle binds to where the path leads at this moment.
Bind ==
  \/ /\ content[place] # "absent" \/ Creates
     /\ fd' = place
     /\ pc' = "verify"
     /\ content' = IF content[place] = "absent" THEN [content EXCEPT ![place] = "empty"]
                                               ELSE content
     /\ moved' = IF platform.reports THEN FALSE ELSE moved
     /\ UNCHANGED <<world, call, result, reached>>
  \/ Fail

\* _open_fd: O_NOFOLLOW first; a symbolic link makes that fail ...
OpenStrict ==
  /\ pc = "open"
  /\ \/ platform.nofollow /\ linked /\ pc' = "reopen"
        /\ UNCHANGED <<world, content, call, fd, result, reached, moved>>
     \/ ~(platform.nofollow /\ linked) /\ Bind

\* Mutation: the second attempt is strict as well.
ReopenStrict ==
  /\ pc = "reopen"
  /\ \/ linked /\ pc' = "open" /\ UNCHANGED <<world, content, call, fd, result, reached, moved>>
     \/ ~linked /\ Bind

\* ... and the file is opened again without it.
Reopen == pc = "reopen" /\ Bind

\* The name the system reports for the handle lies under the prefixes; where
\* it reports none, the check before the open stands.
HandleAdmitted == platform.reports => fd \in Inside

\* Where a handle that passed goes on: Db closes it and lets SQLite open the
\* path again.
Passed ==
  \/ op = "read" /\ pc' = "use" /\ UNCHANGED fd
  \/ op = "write" /\ pc' = "truncate" /\ UNCHANGED fd
  \/ op \in DbOps /\ pc' = "connect" /\ fd' = NoPlace

\* Mutation: the pre-open check is trusted.
VerifyNothing ==
  /\ pc = "verify"
  /\ Passed
  /\ UNCHANGED <<world, content, call, result, reached, moved>>

\* Mutation: a refusal returns without closing the file.
VerifyLeaking ==
  /\ pc = "verify"
  /\ \/ HandleAdmitted /\ Passed /\ UNCHANGED result
     \/ /\ ~HandleAdmitted
        /\ pc' = "idle" /\ result' = "denied" /\ UNCHANGED fd
  /\ UNCHANGED <<world, content, call, reached, moved>>

\* _verify_fd refuses the handle, or lets it pass.
Verify ==
  /\ pc = "verify"
  /\ \/ HandleAdmitted /\ Passed /\ UNCHANGED result
     \/ ~HandleAdmitted /\ Answer("denied")
  /\ UNCHANGED <<world, content, call, reached, moved>>

\* open_verified_write: only a verified handle is truncated.
Truncate ==
  /\ pc = "truncate"
  /\ \/ /\ content' = [content EXCEPT ![fd] = "empty"]
        /\ reached' = reached \cup {fd}
        /\ pc' = "use"
        /\ UNCHANGED <<world, call, fd, result, moved>>
     \/ Fail

-----------------------------------------------------------------------------
(* Acting *)

\* _open_read and _open_write of an unrestricted Fs: open(path), open(path, "w").
Plain ==
  /\ pc = "plain"
  /\ \/ /\ content[place] # "absent" \/ Creates
        /\ fd' = place
        /\ pc' = "use"
        /\ content' = IF Creates THEN [content EXCEPT ![place] = "empty"] ELSE content
        /\ reached' = IF Creates THEN reached \cup {place} ELSE reached
        /\ UNCHANGED <<world, call, result, moved>>
     \/ Fail

\* sqlite3.connect opens the path by itself.
Connect ==
  /\ pc = "connect"
  /\ \/ /\ fd' = place
        /\ pc' = "use"
        /\ content' = IF content[place] = "absent" THEN [content EXCEPT ![place] = "empty"]
                                                  ELSE content
        /\ UNCHANGED <<world, call, result, reached, moved>>
     \/ Fail

\* Reading or writing the open file.  f.read() raises when the bytes are not
\* UTF-8, which no handler catches.
Use ==
  /\ pc = "use"
  /\ \/ /\ Answer("ok")
        /\ content' = IF op \in {"write", "exec"} THEN [content EXCEPT ![fd] = "new"]
                                                   ELSE content
        /\ reached' = reached \cup {fd}
        /\ UNCHANGED <<world, call, moved>>
     \/ Fail
     \/ /\ op = "read" /\ Answer("raised")
        /\ UNCHANGED <<world, content, call, reached, moved>>

\* exists, is_dir, list_dir and mkdir resolve the path a second time.
Act ==
  /\ pc = "act"
  /\ \/ /\ op = "list_dir" => content[place] # "absent"
        /\ Answer("ok")
        /\ reached' = reached \cup {place}
        /\ content' = IF op = "mkdir" /\ content[place] = "absent"
                        THEN [content EXCEPT ![place] = "empty"] ELSE content
        /\ UNCHANGED <<world, call, moved>>
     \/ op # "exists" /\ Fail

-----------------------------------------------------------------------------
\* Another process redirects the path, at any moment.
Swap(p, l) ==
  /\ <<p, l>> # <<place, linked>>
  /\ place' = p
  /\ linked' = l
  /\ moved' = (moved \/ p # place)
  /\ UNCHANGED <<content, call, pc, fd, result, reached>>

Step ==
  \/ Allows \/ OpenStrict \/ Reopen \/ Verify \/ Truncate
  \/ Plain \/ Connect \/ Use \/ Act

Init ==
  /\ place \in Place
  /\ linked \in BOOLEAN
  /\ content \in [Place -> {"absent", "old"}]
  /\ platform \in [reports : BOOLEAN, nofollow : BOOLEAN]
  /\ pc = "idle"
  /\ op = "read"
  /\ restricted = TRUE
  /\ fd = NoPlace
  /\ result = "none"
  /\ reached = {}
  /\ moved = FALSE

Next ==
  \/ \E o \in Operation : \E r \in BOOLEAN : Begin(o, r)
  \/ Step
  \/ \E p \in Place : \E l \in BOOLEAN : Swap(p, l)

Spec == Init /\ [][Next]_vars

\* An operation that has begun is run to its end; the other process may keep
\* swapping and the program need not call again.
FairSpec == Spec /\ WF_vars(Step)

-----------------------------------------------------------------------------
(* Properties *)

\* Every variable has its type, and a file is open exactly between its open
\* and the end of the step that uses it: every way out closes it.
TypeOK ==
  /\ place \in Place /\ linked \in BOOLEAN
  /\ content \in [Place -> {"absent", "old", "empty", "new"}]
  /\ platform \in [reports : BOOLEAN, nofollow : BOOLEAN]
  /\ pc \in {"idle", "allows", "open", "reopen", "verify", "truncate", "plain",
             "connect", "use", "act"}
  /\ op \in Operation /\ restricted \in BOOLEAN
  /\ result \in {"none", "ok", "denied", "failed", "raised"}
  /\ reached \subseteq Place /\ moved \in BOOLEAN
  /\ IF pc \in {"verify", "truncate", "use"} THEN fd \in Place ELSE fd = NoPlace

\* Where the system reports the path of a handle, read and write of a
\* restricted Fs give out and change nothing outside the prefixes, however
\* the path is swapped between their steps (open_verified_read and _write).
FileOpsConfined ==
  platform.reports /\ restricted /\ op \in FileOps => reached \subseteq Inside

\* Everywhere else the exposure is the documented window and no more: an
\* operation of a restricted capability reaches a place outside only if the
\* path was swapped after the resolution that was checked.
NoEscapeWithoutSwap == restricted /\ ~moved => reached \subseteq Inside

\* No sequence of swaps keeps an operation from ending: the retry without
\* O_NOFOLLOW is the last one (_open_fd).
OperationsEnd == pc # "idle" ~> pc = "idle"
===============================================================================
