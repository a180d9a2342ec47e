-------------------------------- MODULE Repl --------------------------------
(***************************************************************************)
(* The interactive prompt (capa/repl.py).  Every turn analyses the whole   *)
(* program entered so far as a module whose statements are the body of     *)
(* main, and executes only the pieces that are new, at Python module       *)
(* scope, in one namespace that lives as long as the session.  The clock   *)
(* (SIGALRM) and the user (Ctrl-C) may break in at any point of a turn.    *)
(*                                                                         *)
(* A piece is an item or a statement.  What a piece computes is abstracted *)
(* to the name it binds, the name it reads and how it can end.             *)
(***************************************************************************)
EXTENDS Integers, Sequences

CONSTANTS
  Prebound, \* the capabilities, parameters of the synthesised main
  Item,     \* records: binds
  Stmt,     \* records: binds, reads (both may be None), ends (see below)
  MaxTurn,  \* bound: pieces entered in a turn
  MaxLen,   \* bound: pieces of the program in each bucket
  None

\* How a statement can end, besides normally or with an exception: "try" is
\* one whose `?` (or sys.exit) leaves the turn, "op" one that waits in a
\* capability operation, which turns any OSError into an Err, "jump" a
\* `return`, `break` or `continue` outside a function or loop.
Ends == {"plain", "try", "op", "jump"}

ASSUME ReplAssumption ==
  /\ None \notin Prebound
  /\ \A i \in Item : i.binds # None
  /\ \A s \in Stmt : s.ends \in Ends
  /\ MaxTurn \in Nat /\ MaxLen \in Nat

VARIABLES
  program,     \* top_lines and main_lines, as the pieces they parse to
  executed,    \* executed_item_count and executed_stmt_count
  initialized,
  namespace,   \* the declaration each name was last bound by, None if unbound
  candidate,   \* candidate_top and candidate_main of the turn
  todo,        \* the new pieces that are still to run
  phase,       \* "prompt", "sliced", "running", "ran", "returned", "left", "dead"
  ok,          \* the first component _run_turn returns
  alarm,       \* "off", "armed", "gone off"
  fired,       \* history: how often each piece of the program was run
  cut          \* history: the places of the program an early end skipped

vars == <<program, executed, initialized, namespace, candidate, todo, phase, ok,
          alarm, fired, cut>>

Buckets == {"top", "main"}
Empty   == [b \in Buckets |-> <<>>]
Program == [Buckets -> Seq(Item \cup Stmt)]
Name    == Prebound \cup {i.binds : i \in Item} \cup ({s.binds : s \in Stmt} \ {None})

Places(prog)     == UNION {{<<b, p>> : p \in DOMAIN prog[b]} : b \in Buckets}
PieceAt(prog, d) == prog[d[1]][d[2]]

\* The value the prelude binds, and one left behind by a turn that failed.
Cap   == <<"cap", 0>>
Stale == <<"stale", 0>>

Values == Places(candidate) \cup Places(program) \cup {Cap, Stale, None}

-----------------------------------------------------------------------------
(* The analysed program *)

\* assemble(for_exec=True): probes of the capabilities, the statements, `return Ok(())`.
Silencers  == 6
BodyLen(m) == Silencers + Len(m) + 1

ItemNames(prog) == {prog["top"][i].binds : i \in DOMAIN prog["top"]}
Locals(prog, p) == {prog["main"][j].binds : j \in 1 .. p} \ {None}

\* analyze(): no two items of a name; no binding of main that repeats a local or
\* a parameter; no statement that reads a name before it is declared, or that
\* reads an item main also binds as a local.
Accepts(prog) ==
  LET top == prog["top"]  main == prog["main"] IN
  /\ \A i, j \in DOMAIN top : i # j => top[i].binds # top[j].binds
  /\ \A p \in DOMAIN main :
       /\ main[p].binds \notin Prebound \cup Locals(prog, p - 1)
       /\ main[p].reads \in {None} \cup Prebound \cup Locals(prog, p - 1)
                            \cup (ItemNames(prog) \ Locals(prog, Len(main)))

\* The items past executed_item_count, then the tail of main's body past the
\* silencers and executed_stmt_count, without the trailing return.
NewPieces(prog) ==
  [i \in 1 .. (Len(prog["top"]) - executed["top"]) |-> <<"top", executed["top"] + i>>]
  \o [i \in 1 .. (BodyLen(prog["main"]) - 1 - (Silencers + executed["main"])) |->
        <<"main", executed["main"] + i>>]

\* _reject_loose_control_flow
LooseControlFlow(new, prog) ==
  \E i \in DOMAIN new : new[i][1] = "main" /\ PieceAt(prog, new[i]).ends = "jump"

-----------------------------------------------------------------------------
(* A turn *)

\* The user enters a declaration, or a statement or block; serve routes it to
\* its bucket and _run_turn analyses and slices.  An input that is refused
\* leaves everything as it was.
Enter(b, pieces) ==
  LET prog == [program EXCEPT ![b] = @ \o pieces]
      new  == NewPieces(prog)
  IN
  /\ phase = "prompt"
  /\ Len(prog[b]) <= MaxLen
  /\ Accepts(prog) /\ ~LooseControlFlow(new, prog)
  /\ candidate' = prog /\ todo' = new
  /\ phase' = "sliced"
  /\ fired' = [c \in Buckets |-> fired[c] \o [i \in 1 .. (Len(prog[c]) - Len(fired[c])) |-> 0]]
  /\ UNCHANGED <<program, executed, initialized, namespace, ok, alarm, cut>>

\* The prelude binds the capabilities once, and the alarm is set.
Begin ==
  /\ phase = "sliced"
  /\ initialized' = TRUE
  /\ namespace' = IF initialized THEN namespace
                  ELSE [n \in Name |-> IF n \in Prebound THEN Cap ELSE None]
  /\ alarm' = "armed"
  /\ phase' = "running"
  /\ UNCHANGED <<program, executed, candidate, todo, ok, fired, cut>>

Piece == PieceAt(candidate, Head(todo))
Reads == IF Head(todo)[1] = "top" THEN None ELSE Piece.reads

Stops(result) ==
  /\ phase' = "ran" /\ ok' = result
  /\ UNCHANGED <<program, executed, initialized, candidate, todo>>

\* The next piece runs to its end; reading an unbound name is a NameError.
Completes ==
  /\ phase = "running" /\ todo # <<>>
  /\ Reads # None => namespace[Reads] # None
  /\ namespace' = IF Piece.binds = None THEN namespace
                  ELSE [namespace EXCEPT ![Piece.binds] = Head(todo)]
  /\ fired' = [fired EXCEPT ![Head(todo)[1]][Head(todo)[2]] = @ + 1]
  /\ todo' = Tail(todo)
  /\ UNCHANGED <<program, executed, initialized, candidate, phase, ok, alarm, cut>>

Finishes ==
  /\ phase = "running" /\ todo = <<>>
  /\ Stops(TRUE) /\ UNCHANGED <<namespace, alarm, fired, cut>>

\* An exception of the program, a NameError among them: the turn has failed.
Raises ==
  /\ phase = "running" /\ todo # <<>>
  /\ Stops(FALSE) /\ UNCHANGED <<namespace, alarm, fired, cut>>

\* _CapaTryEarlyReturn or SystemExit: a turn that ends well, without its rest.
LeavesEarly ==
  /\ phase = "running" /\ todo # <<>>
  /\ Head(todo)[1] = "main" /\ Piece.ends = "try"
  /\ cut' = cut \cup {todo[i] : i \in DOMAIN todo}
  /\ Stops(TRUE) /\ UNCHANGED <<namespace, alarm, fired>>

\* A statement is waiting in an operation of a capability.
Waiting == todo # <<>> /\ Head(todo)[1] = "main" /\ Piece.ends = "op"

\* TimeoutError is an OSError: an operation that is waiting returns it as an
\* Err, and the program goes on.  After exec nobody catches it.
AlarmGoesOff ==
  /\ alarm = "armed" /\ alarm' = "gone off"
  /\ \/ /\ phase = "running" /\ todo # <<>>
        /\ Head(todo)[1] = "main" /\ Piece.ends = "op"
        /\ UNCHANGED <<program, executed, initialized, candidate, todo, phase, ok>>
     \/ /\ phase = "running" /\ ~Waiting
        /\ Stops(FALSE)
     \/ /\ phase = "ran" /\ phase' = "dead"
        /\ UNCHANGED <<program, executed, initialized, candidate, todo, ok>>
  /\ UNCHANGED <<namespace, fired, cut>>

\* Ctrl-C: exec and the prompt catch it, the rest of the turn does not.
Interrupt ==
  \/ /\ phase = "running" /\ Stops(FALSE)
     /\ UNCHANGED <<namespace, alarm, fired, cut>>
  \/ /\ phase \in {"sliced", "ran", "returned"} /\ phase' = "dead"
     /\ UNCHANGED <<program, executed, initialized, namespace, candidate, todo, ok,
                    alarm, fired, cut>>

\* The finally of _run_turn.
Disarm ==
  /\ phase = "ran" /\ phase' = "returned" /\ alarm' = "off"
  /\ UNCHANGED <<program, executed, initialized, namespace, candidate, todo, ok, fired, cut>>

\* Mutations: the trailing return counts as a statement; the counts stay as they were.
RecountReturn(prog)  == [top |-> Len(prog["top"]), main |-> BodyLen(prog["main"]) - Silencers]

\* executed_item_count and executed_stmt_count, derived from the analysed program again.
Recount(prog) == [top |-> Len(prog["top"]), main |-> BodyLen(prog["main"]) - Silencers - 1]

Commit ==
  /\ phase = "returned" /\ ok
  /\ program' = candidate /\ executed' = Recount(candidate)
  /\ candidate' = Empty /\ todo' = <<>> /\ phase' = "prompt" /\ ok' = FALSE
  /\ UNCHANGED <<initialized, namespace, alarm, fired, cut>>

\* serve reports the error.  What the failed pieces bound stays in the namespace.
Forget ==
  /\ phase = "returned" /\ ~ok
  /\ namespace' = [n \in Name |-> IF namespace[n] \in Places(candidate) \ Places(program)
                                  THEN Stale ELSE namespace[n]]
  /\ fired' = [b \in Buckets |-> SubSeq(fired[b], 1, Len(program[b]))]
  /\ candidate' = Empty /\ todo' = <<>> /\ phase' = "prompt"
  /\ UNCHANGED <<program, executed, initialized, ok, alarm, cut>>

-----------------------------------------------------------------------------
(* Meta commands; the others change nothing *)

Reset ==
  /\ phase = "prompt"
  /\ program' = Empty /\ executed' = [b \in Buckets |-> 0]
  /\ initialized' = FALSE /\ namespace' = [n \in Name |-> None]
  /\ fired' = Empty /\ cut' = {}
  /\ UNCHANGED <<candidate, todo, phase, ok, alarm>>

Exit == phase = "prompt" /\ phase' = "left"
        /\ UNCHANGED <<program, executed, initialized, namespace, candidate, todo, ok,
                       alarm, fired, cut>>

-----------------------------------------------------------------------------

Init ==
  /\ program = Empty /\ candidate = Empty /\ todo = <<>>
  /\ executed = [b \in Buckets |-> 0]
  /\ initialized = FALSE /\ namespace = [n \in Name |-> None]
  /\ phase = "prompt" /\ ok = FALSE /\ alarm = "off"
  /\ fired = Empty /\ cut = {}

Input == {<<"top", s>> : s \in UNION {[1 .. n -> Item] : n \in 1 .. MaxTurn}} \cup
         {<<"main", s>> : s \in UNION {[1 .. n -> Stmt] : n \in 1 .. MaxTurn}}

Next ==
  \/ \E in \in Input : Enter(in[1], in[2])
  \/ Begin \/ Completes \/ Finishes \/ Raises \/ LeavesEarly
  \/ AlarmGoesOff \/ Interrupt \/ Disarm \/ Commit \/ Forget
  \/ Reset \/ Exit

Spec == Init /\ [][Next]_vars

-----------------------------------------------------------------------------
(* Properties *)

\* Types, and the counts agree with the program between turns.
TypeOK ==
  /\ phase \in {"prompt", "sliced", "running", "ran", "returned", "left", "dead"}
  /\ alarm \in {"off", "armed", "gone off"} /\ ok \in BOOLEAN /\ initialized \in BOOLEAN
  /\ program \in Program /\ candidate \in Program
  /\ executed \in [Buckets -> Nat]
  /\ namespace \in [Name -> Values]
  /\ todo \in Seq(Buckets \X Nat) /\ cut \subseteq Buckets \X Nat
  /\ fired \in [Buckets -> Seq(Nat)]
  /\ \A b \in Buckets : Len(program[b]) <= MaxLen /\ executed[b] = Len(program[b])

\* Between turns, every piece of the program has run exactly once, whatever
\* turns failed, were broken off or entered again; only what came after an
\* early end of its own turn has not run at all.  (serve, _run_turn: slices
\* and counts.)
RunOnce ==
  phase = "prompt" =>
    \A d \in Places(program) : fired[d[1]][d[2]] = IF d \in cut THEN 0 ELSE 1

\* "A `let x = ...` therefore becomes a real module global that persists"
\* (repl.py, the module's documentation): every name the analyzer knows is bound.
LetsAreGlobals ==
  phase = "prompt" =>
    \A p \in DOMAIN program["main"] :
      program["main"][p].binds # None => namespace[program["main"][p].binds] # None

\* "the analysed (function-wrapped) program and the executed (module-scope)
\* program agree on which name refers to which capability" (repl.py, at
\* _REPL_CAPABILITY_INIT).
CapabilitiesKeepTheirNames ==
  initialized => \A n \in Prebound : namespace[n] = Cap

\* "The 10 s hard timeout survives on POSIX" (repl.py, the module's
\* documentation): once the alarm has gone off the turn runs no further.
AlarmEndsTurn == alarm = "gone off" => phase # "running"

\* "Run the REPL until EOF or .exit" (serve): nothing else ends the session.
OnlyExitLeaves == phase # "dead"

=============================================================================
