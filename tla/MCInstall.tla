------------------------------- MODULE MCInstall -------------------------------
(* Instances of Install for TLC. *)
EXTENDS Install

D(kind, pin, key, level) == [kind |-> kind, pin |-> pin, key |-> key, level |-> level]
MCOrder == <<"a", "b">>

\* A dependency that is a path or a tag, with or without a key, and a revision or a path.
MCAny ==
  [d \in {"a", "b"} |->
     IF d = "a" THEN {D("path", "lib", None, "off"), D("tag", "v1", None, "required"),
                      D("tag", "v1", "K", "warn")}
     ELSE {D("rev", "r1", None, "warn")}]

\* A tag that may come to be declared with a key.
MCDeclareKey ==
  [d \in {"a", "b"} |->
     IF d = "a" THEN {D("tag", "v1", None, "warn"), D("tag", "v1", "K", "warn")}
     ELSE {D("path", "lib", None, "off")}]

MCCommit    == {"c1", "c2"}
MCBranched  == {"c2"}
MCRevCommit == [p \in {"r1"} |-> "c1"]
MCSigner    == [c \in MCCommit |-> IF c = "c1" THEN "K" ELSE None]
================================================================================
