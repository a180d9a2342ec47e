----------------------------- MODULE MCCapHandles -----------------------------
(* Instances of CapHandles for TLC. *)
EXTENDS CapHandles

\* Two nested directories and one beside them, each with a file; two hosts,
\* two variables, three seconds; a command, its plugin and another command.
MCTarget ==
  [k \in HostCaps |->
     CASE k = "fs" -> {"/data/f", "/data/sub/f", "/etc/f"}
       [] k = "db" -> {"/data/d", "/data/sub/d", "/etc/d"}
       [] k = "net" -> {"a.org", "b.org"}
       [] k = "env" -> {"HOME", "TOKEN"}
       [] k = "clock" -> 0..2
       [] k = "proc" -> {"git", "git-lfs", "ls"}
       [] OTHER -> {}]

MCRule ==
  [k \in HostCaps |->
     CASE k \in {"fs", "db"} -> {"/data", "/data/sub", "/etc"}
       [] k = "proc" -> {"git", "git-lfs"}
       [] k = "clock" -> 1..2
       [] OTHER -> MCTarget[k]]

Under(prefix, file) ==
  CASE prefix = "/data" -> {"/data/" \o file, "/data/sub/" \o file}
    [] prefix = "/data/sub" -> {"/data/sub/" \o file}
    [] OTHER -> {"/etc/" \o file}

MCReach ==
  [k \in HostCaps |-> [r \in MCRule[k] |->
     CASE k = "fs" -> Under(r, "f")
       [] k = "db" -> Under(r, "d")
       [] k = "proc" -> IF r = "git" THEN {"git", "git-lfs"} ELSE {"git-lfs"}
       [] OTHER -> {r}]]

CONSTANT MCNoBinding

Declaring(kinds) == [binding |-> kinds, slots |-> Len(kinds)]

NetOnly   == {Declaring(<<"net">>)}
FsAndClock == {Declaring(<<"clock", "fs">>)}
Rewritten == {[binding |-> MCNoBinding, slots |-> 1],
              [binding |-> <<"net", "fs">>, slots |-> 1],
              [binding |-> <<"gpu">>, slots |-> 1]}

ForgedArtifacts   == NetOnly \cup FsAndClock \cup Rewritten
ConfinedArtifacts == {Declaring(<<"fs", "clock">>)}
NarrowArtifacts   == {Declaring(<<"fs", "fs">>), Declaring(<<"net">>),
                      Declaring(<<"env">>), Declaring(<<"clock">>),
                      Declaring(<<"proc">>), Declaring(<<"db">>)}
SharedArtifacts   == ConfinedArtifacts \cup {Declaring(<<"net">>), Declaring(<<>>)}
DbArtifacts       == {Declaring(<<"db">>)}

NoForeign  == {}
SomeForeign == {{"net"}, {"fs", "clock"}}
FsForeign   == {{}, {"fs"}, {"fs", "clock"}}

\* Honest and rewritten artifacts of every kind, with and without foreign calls.
AnyArtifacts  == ForgedArtifacts \cup NarrowArtifacts \cup ConfinedArtifacts
AnySignatures == SomeForeign \cup FsForeign
===============================================================================
