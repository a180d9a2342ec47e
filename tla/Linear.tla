------------------------------- MODULE Linear -------------------------------
(***************************************************************************)
(* The must-consume discipline of linear types (capa/analyzer/_linear.py   *)
(* and the statement walker of _statements.py): what the analyzer accepts, *)
(* against what the accepted program does when it runs.                    *)
(*                                                                         *)
(* A function body over variables of a linear type Conn and of a carrier   *)
(* Box, a struct whose fields are all Conns, is written one token at a     *)
(* time.  Each token is checked by the analyzer (`walk') and, unless the   *)
(* path being run does not reach it, executed (`rt').  Conditions are not  *)
(* modelled: every `if' may go either way and every loop may run any       *)
(* number of turns up to MaxTurns.  A loop body is first recorded during   *)
(* the analyzer's speculative pass, then replayed for the real pass and    *)
(* for each turn.  Loops are not nested in loops, and no statement follows *)
(* a jump in its block.                                                    *)
(***************************************************************************)
EXTENDS Naturals, Sequences, FiniteSets, SequencesExt

CONSTANTS
  Conns,      \* the names of the variables of type Conn
  Boxes,      \* the names of the variables of type Box
  Param,      \* the name of the parameter, of type Box
  Fields,     \* the fields of Box, each of type Conn
  Modes,      \* how the parameter may be declared: "borrow", "consume"
  BackEnds,   \* what may run the program: "python", "wasm"
  Forms,      \* the forms programs may use, of those AllForms lists
  MaxTokens,  \* bounds the length of a program
  MaxTurns    \* bounds the turns of a loop

VARIABLES
  phase,      \* "write", "loop" (in a body), "turn" or "done"
  walk,       \* the analyzer's state at this point of the text
  body,       \* the tokens of the loop body being recorded or run
  rt,         \* the state of the run
  tokens,     \* how many tokens the program has
  turns       \* how many turns the current loop has made

vars == <<phase, walk, body, rt, tokens, turns>>

\* The forms a program may use beside the plain ones.
AllForms == {
  "jump",               \* return, break or continue out of a block
  "name_again",         \* a let of a name that a closed block declared too
  "shadow",             \* a var of a name that an open outer block declares
  "alias_of_part",      \* an alias of a live box some of whose fields moved
  "self_assignment",    \* an assignment of a consumed place to itself
  "store_on_some_path", \* a store to a field moved on some paths only
  "borrow_in_block",    \* an assignment in a block, to or from a borrowed name
  "assign_in_loop",     \* an assignment to a name in a loop
  "store_in_loop",      \* a store to a field in a loop
  "given_twice"}        \* a call that is given a place and the same or a part of it

Names == Conns \cup Boxes \cup {Param}

\* A place is a name or a field of a box; Fresh stands for a call of open()
\* or mkbox(), which denotes no place.
Fresh == <<>>
Parts(n) == IF n \in Conns THEN {} ELSE {<<n, f>> : f \in Fields}
Places == {<<n>> : n \in Names} \cup UNION {Parts(n) : n \in Names}

-----------------------------------------------------------------------------
(* The operations of _linear.py on the analyzer's state.                   *)

RejectIf(wrong, w) == [w EXCEPT !.wrong = @ \/ wrong]

\* Reading a place: neither it nor a prefix of it may have been consumed.
Use(w, pl) == RejectIf(Prefixes(pl) \cap w.consumed # {}, w)

\* _linear_move_field
MoveField(w, pl) ==
  LET root == pl[1]
      moved == w.moved \cup {pl}
  IN  IF root \in w.borrowed THEN RejectIf(TRUE, w)
      ELSE IF Prefixes(pl) \cap w.consumed # {} THEN w
      ELSE [w EXCEPT !.consumed = @ \cup {pl},
                     !.moved = moved,
                     !.live = IF Parts(root) \subseteq moved
                              THEN @ \ {root} ELSE @]

\* _linear_discharge; `reported' is whether it was given a position
Discharge(w, n, reported) ==
  IF n \in w.borrowed THEN RejectIf(reported, w)
  ELSE IF Parts(n) \cap w.consumed # {}
       THEN [RejectIf(reported, w) EXCEPT !.live = @ \ {n}]
       ELSE [w EXCEPT !.live = @ \ {n},
                      !.consumed = @ \cup {<<m>> : m \in w.live \cap {n}}]

\* _move_linear_place: a whole value, or a spent husk, or a field
Move(w, pl) ==
  CASE pl = Fresh -> w
    [] Len(pl) = 2 -> MoveField(w, pl)
    [] OTHER -> IF pl[1] \in w.live THEN Discharge(w, pl[1], TRUE)
                ELSE RejectIf(Parts(pl[1]) \cap w.consumed # {}, w)

\* _move_transfer_operand, after every argument has been evaluated
Give(w, pl) == RejectIf(Len(pl) = 1 /\ pl[1] \in w.borrowed, Move(w, pl))

\* _mark_consumed_args: a call that consumes its argument, or both of two
Consume(w, pl) == Give(Use(w, pl), pl)
ConsumeBoth(w, p, q) == Give(Give(Use(Use(w, p), q), p), q)

\* _carry_moved_subpaths and _clear_moved_subpaths
Carried(set, src, dst) ==
  set \cup {<<dst, pl[2]>> : pl \in Parts(src) \cap set}
Carry(w, src, dst) == [w EXCEPT !.consumed = Carried(@, src, dst),
                                !.moved = Carried(@, src, dst)]
Clear(w, n) == [w EXCEPT !.consumed = @ \ Parts(n), !.moved = @ \ Parts(n)]

\* Mutation: an alias of a borrowed value becomes an owner.
TransferUnmarked(w, src, dst) ==
  LET u == [w EXCEPT !.borrowed = @ \ {dst}]
  IN  IF src = Fresh \/ src[1] \in u.borrowed THEN u
      ELSE IF Len(src) = 2 THEN MoveField(u, src)
      ELSE Discharge(Carry(u, src[1], dst), src[1], FALSE)

\* _linear_transfer_if_alias
TransferIfAlias(w, src, dst) ==
  LET u == [w EXCEPT !.borrowed = @ \ {dst}]
  IN  CASE src = Fresh -> u
        [] src # Fresh /\ src[1] \in u.borrowed ->
             [u EXCEPT !.borrowed = @ \cup {dst}]
        [] Len(src) = 2 /\ src[1] \notin u.borrowed -> MoveField(u, src)
        [] Len(src) = 1 /\ src[1] \notin u.borrowed ->
             IF src[1] \in u.live
             THEN Discharge(Carry(u, src[1], dst), src[1], FALSE)
             ELSE Carry([u EXCEPT !.consumed = @ \cup {src}], src[1], dst)

\* _linear_bind and _linear_reassign: what a consume parameter held may be dropped,
\* what it is given in its place may not
Bind(w, n) ==
  IF n \in w.borrowed THEN w
  ELSE [w EXCEPT !.live = @ \cup {n}, !.consumed = @ \ {<<n>>}]

Reassign(w, n) ==
  Bind([RejectIf(n \in w.live \ w.exempt, w)
          EXCEPT !.live = @ \ {n}, !.exempt = @ \ {n}], n)

\* _linear_rearm_field
Rearm(w, pl) ==
  [w EXCEPT !.consumed = @ \ {pl}, !.moved = @ \ {pl},
            !.live = @ \cup {pl[1]}]

\* The form of a token beyond the plain ones, where it has one.
Takes(w, form, when) == [w EXCEPT !.forms = IF when THEN @ \cup {form} ELSE @]
AliasForm(w, src) ==
  Takes(w, "alias_of_part",
        Len(src) = 1 /\ src[1] \in w.live /\ Parts(src[1]) \cap w.consumed # {})

SelfForm(w, to, from) ==
  Takes(w, "self_assignment", to = from /\ to \in w.consumed)

GivenForm(w, p, q) ==
  Takes(w, "given_twice", p \in Prefixes(q) \/ q \in Prefixes(p))

InLoop(w) == \E i \in DOMAIN w.blocks : w.blocks[i].part = "loop"
BlockForm(w, to, from) ==
  Takes(Takes(w, "assign_in_loop", InLoop(w)), "borrow_in_block",
        /\ w.blocks # <<>>
        /\ ({to} \cup {pl[1] : pl \in {from} \ {Fresh}}) \cap w.borrowed # {})

-----------------------------------------------------------------------------
(* The statement walker.                                                   *)

\* let and var; the analyzer's state is keyed by the name, whatever its block
CheckLet(w, t) ==
  Bind(TransferIfAlias(Use(AliasForm(w, t.from), t.from), t.from, t.to), t.to)

\* an assignment to a name; its own place on the right is a self-assignment
CheckAssign(w, t) ==
  LET formed == AliasForm(BlockForm(SelfForm(w, <<t.to>>, t.from),
                                    t.to, t.from), t.from)
      u == Use([formed EXCEPT !.consumed = @ \ {<<t.to>>}], t.from)
  IN  IF t.from = <<t.to>> THEN Reassign(u, t.to)
      ELSE Reassign(TransferIfAlias(Clear(u, t.to), t.from, t.to), t.to)

\* an assignment to a field
CheckStore(w, t) ==
  LET formed == SelfForm(Takes(w, "store_in_loop", InLoop(w)), t.to, t.from)
      lifted == [formed EXCEPT !.consumed = @ \ {t.to}]
      v == Use(Use(lifted, t.to), t.from)
      borrowed == Len(t.from) = 1 /\ t.from[1] \in v.borrowed
      m == Move(RejectIf(borrowed, v), t.from)
      again == t.to \in w.consumed \/ t.to \in m.consumed
  IN  Takes(IF again THEN Rearm(m, t.to)
            ELSE RejectIf(Prefixes(t.to) \cap m.consumed = {}, m),
            "store_on_some_path", again /\ t.to \notin w.moved)

\* What a branch may change, saved before it and merged after it.
Flow(w) == [consumed |-> w.consumed, live |-> w.live, moved |-> w.moved]
WithFlow(w, f) == [w EXCEPT !.consumed = f.consumed, !.live = f.live,
                            !.moved = f.moved]

\* A branch that leaves does not reach the merge; what it consumed is kept for
\* the loop it jumps in (_suspend_linear_exit).
CloseBranch(w) ==
  IF w.left = "no"
  THEN [w EXCEPT !.blocks = [@ EXCEPT ![Len(@)].ends = @ \cup {Flow(w)}]]
  ELSE IF w.left = "return" THEN w
  ELSE [w EXCEPT !.exits[w.left] = @ \cup w.consumed]

CheckIf(w) ==
  [w EXCEPT !.blocks = Append(@, [part |-> "then", before |-> Flow(w),
                                  ends |-> {}]),
            !.scopes = Append(@, {})]

CheckElse(w) ==
  LET u == CloseBranch(w)
  IN  [WithFlow(u, Last(u.blocks).before)
         EXCEPT !.blocks = [@ EXCEPT ![Len(@)].part = "else"],
                !.scopes = Append(Front(@), {}),
                !.left = "no"]

\* Mutations: a merge that forgets what one branch consumed, and one that
\* forgets what one branch left live.
MergeConsumedOnAll(ends) ==
  [consumed |-> {pl \in UNION {f.consumed : f \in ends} :
                   \A f \in ends : pl \in f.consumed},
   live |-> UNION {f.live : f \in ends},
   moved |-> UNION {f.moved : f \in ends}]
MergeLiveOnAll(ends) ==
  [consumed |-> UNION {f.consumed : f \in ends},
   live |-> {n \in Names : \A f \in ends : n \in f.live},
   moved |-> UNION {f.moved : f \in ends}]

\* consumed on some path, live on some path, moved on every path
Merge(ends) == [consumed |-> UNION {f.consumed : f \in ends},
                live |-> UNION {f.live : f \in ends},
                moved |-> {pl \in UNION {f.moved : f \in ends} :
                             \A f \in ends : pl \in f.moved}]

\* Mutation: the names of a block outlive it.
CheckEndKeepsScope(w) ==
  LET u == CloseBranch(w)
  IN  [u EXCEPT !.blocks = Front(@), !.left = "no"]

CheckEnd(w) ==
  LET u == CloseBranch(w)
      top == Last(u.blocks)
      ends == top.ends \cup (IF top.part = "then" THEN {top.before} ELSE {})
  IN  [WithFlow(u, IF ends = {} THEN top.before ELSE Merge(ends))
         EXCEPT !.blocks = Front(@), !.scopes = Front(@), !.left = "no"]

Check(w, t) ==
  CASE t.op = "let" -> CheckLet([w EXCEPT !.scopes =
                         Append(Front(@), Last(@) \cup {t.to})], t)
    [] t.op = "assign" -> CheckAssign(w, t)
    [] t.op = "store" -> CheckStore(w, t)
    [] t.op = "consume" -> Consume(w, t.from)
    [] t.op = "both" -> ConsumeBoth(GivenForm(w, t.from, t.also), t.from, t.also)
    [] t.op = "read" -> Use(w, t.from)
    [] t.op = "if" -> CheckIf(w)
    [] t.op = "else" -> CheckElse(w)
    [] t.op = "end" -> CheckEnd(w)
    [] t.op \in {"return", "break", "continue"} ->
         [Takes(w, "jump", TRUE) EXCEPT !.left = t.op]

\* _linear_check_dropped at the end of the function: a live name that is not a
\* consume parameter, unless each of its fields was moved.
CheckDropped(w) ==
  RejectIf(\E n \in w.live \ w.exempt :
             Parts(n) = {} \/ ~(Parts(n) \subseteq w.moved), w)

-----------------------------------------------------------------------------
(* The run.  A connection is named by the call that opened it, and by the  *)
(* field it was put in where that call made a box; `made' holds the fields *)
(* of each box made, and no field for a call that opened one connection.   *)
(* A block has a frame of names, and a name means its innermost binding.   *)
(* The back ends differ only in where a `var' goes that shadows a name: in *)
(* Wasm in the block's frame, in Python, which has no blocks, where the    *)
(* name already is. Which one runs the program is `any' up to the first.   *)

NoFields == [f \in {} |-> Fresh]

Serial(r) == Len(r.made) + 1
NoNames == [n \in Names |-> Fresh]
Frames(r, n) == {i \in DOMAIN r.env : r.env[i][n] # Fresh}
Bound(r, n) == r.env[Max(Frames(r, n))][n]
At(r, pl) == IF Len(pl) = 1 THEN Bound(r, pl[1]) ELSE r.made[Bound(r, pl[1])[1]][pl[2]]
Held(r, pl) == IF Len(pl) = 2 \/ pl[1] \in Conns THEN {At(r, pl)}
               ELSE {r.made[At(r, pl)[1]][f] : f \in Fields}
NewBox(r) == [f \in Fields |-> <<Serial(r), f>>]
Opened(r) ==
  {<<k>> : k \in {i \in DOMAIN r.made : r.made[i] = NoFields}}
    \cup {<<k, f>> : k \in {i \in DOMAIN r.made : r.made[i] # NoFields},
                     f \in Fields}

\* The value of a right-hand side, and what making it adds.
Value(r, src) == IF src = Fresh THEN <<Serial(r)>> ELSE At(r, src)
Make(r, src, isBox) ==
  IF src # Fresh THEN r
  ELSE [r EXCEPT !.made = Append(@, IF isBox THEN NewBox(r) ELSE NoFields)]

Put(r, t) ==
  LET inner == \/ t.op = "let" /\ r.backend # "python"
               \/ Frames(r, t.to) = {}
      frame == IF inner THEN Len(r.env) ELSE Max(Frames(r, t.to))
  IN  [Make(r, t.from, t.to \notin Conns)
         EXCEPT !.env[frame][t.to] = Value(r, t.from)]
Store(r, t) ==
  [Make(r, t.from, FALSE)
     EXCEPT !.made[Bound(r, t.to[1])[1]][t.to[2]] = Value(r, t.from)]
Close(r, pl) ==
  LET ids == Held(r, pl)
      n == IF Len(pl) = 1 /\ pl[1] \notin Conns THEN Cardinality(Fields) ELSE 1
  IN  [r EXCEPT !.closed = @ \cup ids,
                !.twice = @ \/ ids \cap r.closed # {} \/ Cardinality(ids) < n]
Read(r, pl) == [r EXCEPT !.stale = @ \/ Held(r, pl) \cap r.closed # {}]

Running(r) == r.jump = "no" /\ \A i \in DOMAIN r.takes : r.takes[i]

\* `choice' is which way an `if' goes.
Exec(r, t, choice) ==
  CASE t.op = "if" -> [r EXCEPT !.takes = Append(@, choice), !.env = Append(@, NoNames)]
    [] t.op = "else" -> [r EXCEPT !.takes = [@ EXCEPT ![Len(@)] = ~@],
                                  !.env = Append(Front(@), NoNames)]
    [] t.op = "end" -> [r EXCEPT !.takes = Front(@), !.env = Front(@)]
    [] ~Running(r) -> r
    [] Running(r) /\ t.op \in {"let", "assign"} -> Put(r, t)
    [] Running(r) /\ t.op = "store" -> Store(r, t)
    [] Running(r) /\ t.op = "consume" -> Close(r, t.from)
    [] Running(r) /\ t.op = "both" -> Close(Close(r, t.from), t.also)
    [] Running(r) /\ t.op = "read" -> Read(r, t.from)
    [] Running(r) /\ t.op \in {"return", "break", "continue"} ->
         [r EXCEPT !.jump = t.op]

-----------------------------------------------------------------------------
ConnPlaces == {<<n>> : n \in Conns} \cup UNION {Parts(n) : n \in Names}
BoxPlaces == {<<n>> : n \in Names \ Conns}

Tokens ==
  [op : {"let", "assign"}, to : Conns, from : {Fresh} \cup ConnPlaces]
    \cup [op : {"let", "assign"}, to : Names \ Conns, from : {Fresh} \cup BoxPlaces]
    \cup [op : {"store"}, to : ConnPlaces \ {<<n>> : n \in Conns},
          from : {Fresh} \cup ConnPlaces]
    \cup [op : {"consume"}, from : ConnPlaces \cup BoxPlaces]
    \cup [op : {"both"}, from : ConnPlaces \cup BoxPlaces, also : ConnPlaces \cup BoxPlaces]
    \cup [op : {"read"}, from : ConnPlaces]
    \cup [op : {"if", "else", "end", "return", "break", "continue"}]

Visible(w) == UNION {w.scopes[i] : i \in DOMAIN w.scopes}

\* What the parser and the scopes ask of a token: names are declared before
\* they are used and not twice in one block, parameters are not assigned, a
\* jump ends its block, break and continue are in a loop.  A `let' may not
\* shadow the name of an outer block, but a `var' may.
Legal(w, t) ==
  /\ t.op \in {"else", "end"} =>
       w.blocks # <<>> /\ Last(w.blocks).part \in
         (IF t.op = "else" THEN {"then"} ELSE {"then", "else"})
  /\ t.op \notin {"else", "end"} => w.left = "no"
  /\ t.op \in {"break", "continue"} => phase = "loop"
  /\ t.op = "let" => t.to \notin Last(w.scopes)
  /\ t.op = "assign" =>
       \E i \in DOMAIN w.scopes :
         t.to \in IF i = 1 THEN w.scopes[i] \ {Param} ELSE w.scopes[i]
  /\ t.op = "store" => t.to[1] \in Visible(w)
  /\ t.op \in {"let", "assign", "store", "consume", "both", "read"} /\ t.from # Fresh
       => t.from[1] \in Visible(w)
  /\ t.op = "both" => t.also[1] \in Visible(w)

\* A binding of a name that another block declares takes the form of it.
Shadows(w, t) == t.op = "let" /\ t.to \in Visible(w)
Declare(w, t) ==
  IF t.op # "let" THEN w
  ELSE [Takes(Takes(w, "shadow", Shadows(w, t)),
              "name_again", t.to \in w.ever \ Visible(w))
          EXCEPT !.ever = @ \cup {t.to}]

\* The first token that shadows settles which back end runs the program.
Runners(t) == IF Shadows(walk, t) /\ rt.backend = "any"
              THEN BackEnds ELSE {rt.backend}

\* A call with two arguments counts for two tokens.
Size(t) == IF t.op = "both" THEN 2 ELSE 1
Fits(t) == tokens + Size(t) <= MaxTokens

\* Only programs that the analyzer accepts are written on, and of those only
\* the ones of the allowed forms.
Accepted(w) == ~w.wrong /\ w.forms \subseteq Forms

-----------------------------------------------------------------------------
NoExits == [break |-> {}, continue |-> {}]

Init ==
  /\ phase = "write"
  /\ body = <<>>
  /\ tokens = 0
  /\ turns = 0
  /\ \E mode \in Modes :
       walk = [consumed |-> {}, moved |-> {},
               live |-> IF mode = "consume" THEN {Param} ELSE {},
               exempt |-> IF mode = "consume" THEN {Param} ELSE {},
               borrowed |-> IF mode = "borrow" THEN {Param} ELSE {},
               wrong |-> FALSE, forms |-> {}, ever |-> {}, left |-> "no",
               scopes |-> <<{Param}>>, blocks |-> <<>>, exits |-> NoExits]
  /\ rt = [env |-> <<[NoNames EXCEPT ![Param] = <<1>>]>>,
           made |-> <<[f \in Fields |-> <<1, f>>]>>,
           closed |-> {}, twice |-> FALSE, stale |-> FALSE,
           takes |-> <<>>, jump |-> "no", backend |-> "any",
           lent |-> Param \in walk.borrowed]

\* The next token of the text, outside of loops.
Write ==
  /\ phase = "write"
  /\ tokens < MaxTokens
  /\ \E t \in Tokens :
       /\ Fits(t) /\ Legal(walk, t)
       /\ walk' = Check(Declare(walk, t), t)
       /\ Accepted(walk')
       /\ \E choice \in BOOLEAN, backend \in Runners(t) :
            /\ choice \/ (t.op = "if" /\ Running(rt))
            /\ rt' = Exec([rt EXCEPT !.backend = backend], t, choice)
       /\ tokens' = tokens + Size(t)
  /\ UNCHANGED <<phase, body, turns>>

BeginLoop ==
  /\ phase = "write"
  /\ tokens < MaxTokens
  /\ walk.left = "no"
  /\ walk' = [walk EXCEPT
                !.blocks = Append(@, [part |-> "loop", before |-> Flow(walk),
                                      ends |-> {}]),
                !.scopes = Append(@, {}),
                !.exits = NoExits]
  /\ phase' = "loop"
  /\ tokens' = tokens + 1
  /\ UNCHANGED <<body, rt, turns>>

\* A token of the body: the speculative pass drops its errors.
WriteBody ==
  /\ phase = "loop"
  /\ tokens < MaxTokens
  /\ \E t \in Tokens :
       /\ Fits(t) /\ Legal(walk, t)
       /\ walk' = [Check(Declare(walk, t), t) EXCEPT !.wrong = FALSE]
       /\ Accepted(walk')
       /\ body' = Append(body, t)
       /\ \E backend \in Runners(t) : rt' = [rt EXCEPT !.backend = backend]
       /\ tokens' = tokens + Size(t)
  /\ UNCHANGED <<phase, turns>>

\* The end of the body: only the consumed set goes back to what it was, plus
\* what the pass consumed; the real pass follows (_check_loop).
EndLoop ==
  /\ phase = "loop"
  /\ Last(walk.blocks).part = "loop"
  /\ LET before == Last(walk.blocks).before.consumed
         head == [walk EXCEPT
                    !.consumed = before \cup @ \cup (walk.exits.continue \ before),
                    !.scopes = Append(Front(@), {}),
                    !.left = "no"]
         real == FoldLeft(Check, head, body)
     IN  walk' = [real EXCEPT
                    !.consumed = @ \cup (real.exits.break \ before),
                    !.blocks = Front(@), !.scopes = Front(@),
                    !.left = "no", !.exits = NoExits]
  /\ Accepted(walk')
  /\ phase' = IF Running(rt) THEN "turn" ELSE "write"
  /\ body' = IF Running(rt) THEN body ELSE <<>>
  /\ UNCHANGED <<rt, tokens, turns>>

Left == phase' = "write" /\ body' = <<>> /\ turns' = 0

\* One turn of the loop, if its condition holds.
Turn ==
  /\ phase = "turn"
  /\ turns < MaxTurns
  /\ \E choices \in [{i \in DOMAIN body : body[i].op = "if"} -> BOOLEAN] :
       LET Step(r, i) == Exec(r, body[i], i \in DOMAIN choices /\ choices[i])
           after == FoldLeft(Step, [rt EXCEPT !.env = Append(@, NoNames)],
                             [i \in DOMAIN body |-> i])
       IN  /\ rt' = [after EXCEPT !.jump = IF @ = "return" THEN @ ELSE "no",
                                  !.env = Front(@)]
           /\ IF after.jump \in {"break", "return"} THEN Left
              ELSE turns' = turns + 1 /\ UNCHANGED <<phase, body>>
  /\ UNCHANGED <<walk, tokens>>

\* The condition does not hold.
LeaveLoop ==
  /\ phase = "turn"
  /\ Left
  /\ UNCHANGED <<walk, rt, tokens>>

\* The end of the function.
Finish ==
  /\ phase = "write"
  /\ walk.blocks = <<>>
  /\ walk' = CheckDropped(walk)
  /\ Accepted(walk')
  /\ phase' = "done"
  /\ UNCHANGED <<body, rt, tokens, turns>>

Next ==
  \/ Write \/ BeginLoop \/ WriteBody \/ EndLoop \/ Turn \/ LeaveLoop \/ Finish

Spec == Init /\ [][Next]_vars

-----------------------------------------------------------------------------
\* The domains of the variables, the nesting of blocks, scopes and branches,
\* and the connections that can be closed.
TypeOK ==
  /\ phase \in {"write", "loop", "turn", "done"}
  /\ walk.consumed \subseteq Places
  /\ walk.moved \subseteq UNION {Parts(n) : n \in Names}
  /\ walk.live \cup walk.borrowed \cup walk.exempt \subseteq Names
  /\ walk.forms \subseteq Forms
  /\ walk.left \in {"no", "return", "break", "continue"}
  /\ Len(walk.scopes) = Len(walk.blocks) + 1
  /\ Visible(walk) \subseteq Names
  /\ \A i \in DOMAIN body : body[i] \in Tokens
  /\ phase = "write" => Len(rt.takes) = Len(walk.blocks) /\ body = <<>>
  /\ Len(rt.env) = Len(rt.takes) + 1
  /\ rt.backend \in BackEnds \cup {"any"}
  /\ rt.closed \subseteq Opened(rt)
  /\ rt.jump \in {"no", "return"}
  /\ tokens \in 0..MaxTokens
  /\ turns \in 0..MaxTurns

\* What went wrong in the run of an accepted program: a connection that the
\* function owns and that is still open, or a change to what the caller lent.
Given == {<<1, f>> : f \in Fields}
Adopted == IF rt.lent THEN {} ELSE {rt.made[1][f] : f \in Fields}
Leaked == Opened(rt) \ (rt.closed \cup Given \cup Adopted)
BorrowLost == /\ rt.lent
              /\ \/ Given \cap rt.closed # {}
                 \/ rt.made[1] # [f \in Fields |-> <<1, f>>]

Uses(forms) == walk.forms \cap forms # {}

\* No accepted program closes a connection twice or reads one it has closed,
\* on any path and after any number of turns, unless it uses one of the forms
\* named (_linear.py:324-333: consumed exactly once).
SafeConsumedOnce ==
  phase = "done" /\ (rt.twice \/ rt.stale) =>
    Uses({"alias_of_part", "self_assignment", "borrow_in_block",
          "store_in_loop", "given_twice", "shadow"})

\* No accepted program ends with a connection that it owns still open, unless
\* it uses one of the forms named (_linear.py:3-9: letting one drop is an
\* error).
SafeNothingLeaks ==
  phase = "done" /\ Leaked # {} => Uses(AllForms \ {"self_assignment", "given_twice"})

\* No accepted program closes, takes out or replaces what its caller lent it,
\* unless it assigns a borrowed value in a block or shadows a name
\* (_items.py:404-412).
SafeBorrowKept ==
  phase = "done" /\ BorrowLost => Uses({"borrow_in_block", "shadow"})

\* Whatever its form, no accepted program consumes a connection twice or uses
\* one after (_linear.py:324-333). The code does not keep this.
ConsumedOnce == phase = "done" => ~rt.twice /\ ~rt.stale

\* Whatever its form, no accepted program drops a connection, also where a
\* branch leaves early (_statements.py:826-828). The code does not keep this.
NothingLeaks == phase = "done" => Leaked = {}
=============================================================================
