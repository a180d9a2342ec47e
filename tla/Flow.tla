-------------------------------- MODULE Flow --------------------------------
(***************************************************************************)
(* The information flow of the analyzer (capa/analyzer/_ifc.py, the loop   *)
(* rule of _statements.py and the path labels of _exit_syntax.py): what    *)
(* the analyzer reports of a function body, against what the body does     *)
(* when it runs.                                                           *)
(*                                                                         *)
(* A body is written one token at a time.  It is then checked at both      *)
(* tiers, the default one, which warns of explicit flows, and @strict_ifc, *)
(* which refuses implicit ones too; and it is run once for each of two     *)
(* values of the secret.  Every value of a run carries a mark that says    *)
(* whether it was computed from the secret by data alone, which is the     *)
(* reference the explicit flows are judged by; the implicit ones are       *)
(* judged by comparing what the two runs print.                            *)
(*                                                                         *)
(* A label is TRUE for @secret.  The type of the boxes is                  *)
(*   type Box { f: Int, g: Int, k: @secret Int, i: List<Int> }             *)
(* and the body that of fun go(stdio: Stdio, s: @secret Int, p: Box), with *)
(* two variables, a box and a list of its own.                             *)
(***************************************************************************)
EXTENDS Naturals, Sequences, FiniteSets, SequencesExt

CONSTANTS
  Families,    \* the sets of tokens of which a body may be written
  Forms,       \* the forms bodies may use, of those AllForms lists
  MaxTokens,   \* bounds the length of a body
  MaxTurns,    \* bounds the turns a run makes in its loops
  FixpointCap  \* _FIXPOINT_CAP, 64 in the code

VARIABLES
  phase,   \* "write", "check", "run" or "done"
  family,  \* the tokens this body is written of
  open,    \* the blocks that are open while it is written
  count,   \* how many tokens it has
  found,   \* per tier, the state the analyzer ends with
  runs     \* per value of the secret, how the body ran

vars == <<phase, family, open, count, found, runs>>

\* Forms whose flows the analyzer does not follow.  Of the first two a body is
\* written only where Forms has them; the walker tells that a body takes the
\* third, and the properties name it.
AllForms == {
  "growing",        \* a push to the list that is being iterated
  "alias_in_loop",  \* a second name for a box, given inside a loop
  "shared_list"}    \* a push under a secret, or of one, to the list inside a
                    \* box that has two names

Ints == {"x", "y", "s", "v"}      \* v is the variable of a `for'
Boxes == {"b", "c", "p"}          \* c is a second name for b or for p
Fields == {"f", "g", "k", "i"}
Declared == {"k"}                 \* the fields declared @secret
Lists == {"l", "m"}               \* m is declared in the body
Names == Ints \cup Boxes \cup Lists

Tiers == {"default", "strict"}
Kinds == {"return", "break", "continue"}
Compatible(p, q) == IsPrefix(p, q) \/ IsPrefix(q, p)

-----------------------------------------------------------------------------
(* Labels of expressions, in a state w of the analyzer.                    *)

\* The label of a place without what was pushed into it: that of its symbol,
\* or of the field where the symbol's map is still to be trusted.
BaseLabel(w, place) ==
  IF Len(place) = 1 THEN w.label[place[1]]
  ELSE \/ place[2] \in Declared
       \/ IF place[1] \in w.tracked THEN w.fields[place[1]][place[2]]
          ELSE w.label[place[1]]

LabelOfPlace(w, place) ==
  BaseLabel(w, place) \/ \E q \in w.pushed : Compatible(q, place)

\* The label of an if expression over two literals: that of its condition.
PickLabel(w, cond) == w.strict /\ LabelOfPlace(w, cond)

Label(w, e) ==
  CASE e.k \in {"read", "size", "elem"} -> LabelOfPlace(w, e.at)
    [] e.k = "pick" -> PickLabel(w, e.at)
    [] e.k \in {"lit", "release"} -> FALSE

\* _join_pc_if_strict, around the label of what is assigned
Incoming(w, label) == label \/ (w.strict /\ w.pc)

-----------------------------------------------------------------------------
(* Statements without a body.                                              *)

\* What is raised for the whole of a value, and what for a part of it.
Raise(w, names, secret) ==
  [w EXCEPT !.label = [n \in Names |-> w.label[n] \/ (n \in names /\ secret)]]

Seed(w, place, secret) == IF secret THEN [w EXCEPT !.pushed = @ \cup {place}] ELSE w

Escape(w, names) == [w EXCEPT !.tracked = @ \ names]

CheckAssign(w, s) == Raise(w, {s.to[1]}, Incoming(w, Label(w, s.e)))

\* Mutation: what is stored through the second name raises that name alone.
AliasUnlinked(w, s) ==
  [Escape(w, {s.of[1]}) EXCEPT !.label[s.to[1]] = Incoming(w, LabelOfPlace(w, s.of)),
                               !.scope = @ \cup {s.to[1]}]

\* A second name for a box: the map of the first is no longer trusted, and
\* the two are linked.  The name is a new symbol whenever the let is checked.
CheckAlias(w, s) ==
  LET src == s.of[1]
      new == s.to[1]
      group == w.alias[src] \cup {src, new}
  IN  [Escape(w, {src}) EXCEPT
                !.label[new] = Incoming(w, LabelOfPlace(w, s.of)),
                !.scope = @ \cup {new},
                !.alias = [n \in Boxes |->
                             CASE n \in group -> group
                               [] n \notin group -> w.alias[n] \ {new}]]

\* A list of its own.  Mutations are recorded under the address of the symbol,
\* and the symbols of a speculative walk are dropped: a new one may be given the
\* address of an earlier one, and what was recorded of it, or leave that behind.
CheckList(w, s) ==
  LET old == w.pushed \cap {s.to}
      new == [w EXCEPT !.scope = @ \cup {s.to[1]}, !.label[s.to[1]] = Incoming(w, FALSE)]
  IN  IF w.reuse \/ old = {} THEN new
      ELSE [new EXCEPT !.pushed = (@ \ old) \cup {<<"dead", w.dead>>}, !.dead = @ + 1]

\* _ifc_field_store: through an alias, into a box that has no map any more, or
\* into one field of a box that is tracked field by field
CheckStore(w, s) ==
  LET root == s.to[1]
      secret == Incoming(w, Label(w, s.e))
  IN  IF w.alias[root] # {}
      THEN Escape(Raise(w, w.alias[root], secret), w.alias[root])
      ELSE IF root \notin w.tracked THEN Raise(w, {root}, secret)
      ELSE Seed(Raise([w EXCEPT !.fields[root][s.to[2]] = @ \/ secret], {root}, secret),
                s.to, secret)

\* _check_ifc_container_mutation: push has its argument, pop only the pc.  The
\* mutation is recorded under the name it is made through, not under the other
\* names of the box.
Shared(w, place) == place[1] \in Boxes /\ w.alias[place[1]] # {}
CheckMutation(w, s) ==
  LET secret == Incoming(w, s.op = "push" /\ Label(w, s.e))
      formed == IF secret /\ Shared(w, s.on)
                THEN [w EXCEPT !.forms = @ \cup {"shared_list"}] ELSE w
  IN  Seed(formed, s.on, secret)

\* _check_ifc_sink
Flag(w, s, why, when) ==
  IF when THEN [w EXCEPT !.flags = @ \cup {<<s.id, why>>}] ELSE w

CheckSink(w, s) ==
  Flag(Flag(w, s, "data", Label(w, s.e)), s, "control", w.strict /\ w.pc)

-----------------------------------------------------------------------------
(* Path labels: by which kinds a statement may leave its block (`on'), by  *)
(* which under a secret (`hi'), whether reaching its successor tells of a  *)
(* secret (`norm'), and whether it may be reached at all (`goes').         *)

NoPaths == [on |-> {}, hi |-> {}, norm |-> FALSE, goes |-> TRUE]

\* Mutation: what an early exit tells is forgotten after the next statement.
ThenOnly(a, b) ==
  [on |-> a.on \cup b.on, hi |-> a.hi \cup b.hi,
   norm |-> b.norm, goes |-> a.goes /\ b.goes]

Then(a, b) ==
  [on |-> a.on \cup b.on,
   hi |-> a.hi \cup b.hi \cup (IF a.norm THEN b.on ELSE {}),
   norm |-> a.norm \/ b.norm,
   goes |-> a.goes /\ b.goes]

Under(guard, exits) == IF guard THEN exits.on ELSE exits.hi

RECURSIVE Paths(_, _, _)

PathsOf(w, body, kinds) ==
  FoldLeft(LAMBDA a, s : Then(a, Paths(w, s, kinds)), NoPaths, body)

\* The arms of an if, the missing else among them.
JoinArms(guard, arms) ==
  LET exits == UNION {a.on : a \in arms}
      norm == \E a \in arms : a.goes /\ a.norm
  IN  [on |-> exits,
       hi |-> UNION {Under(guard, a) : a \in arms},
       norm |-> norm \/ (exits # {} /\ guard),
       goes |-> \E a \in arms : a.goes]

PathsOfArms(w, s, kinds) ==
  JoinArms(\E i \in DOMAIN s.arms : w.seen[s.arms[i].id],
           {PathsOf(w, s.arms[i].body, kinds) : i \in DOMAIN s.arms}
             \cup {PathsOf(w, s.last, kinds)})

\* A loop may be left from within, by return; otherwise it is passed.
PassLoop(guard, body) ==
  [on |-> body.on, hi |-> Under(guard, body),
   norm |-> body.on # {} /\ (guard \/ body.norm), goes |-> TRUE]

PathsOfLoop(w, s, kinds) ==
  PassLoop(w.seen[s.id], PathsOf(w, s.body, kinds \cap {"return"}))

Paths(w, s, kinds) ==
  CASE s.op \in Kinds -> [NoPaths EXCEPT !.on = {s.op} \cap kinds, !.goes = FALSE]
    [] s.op = "if" -> PathsOfArms(w, s, kinds)
    [] s.op \in {"while", "for"} -> PathsOfLoop(w, s, kinds)
    [] OTHER -> NoPaths

\* _block_leaves
Leaves(body) == body # <<>> /\ Last(body).op \in Kinds

-----------------------------------------------------------------------------
(* The statement walker.                                                   *)

RECURSIVE Check(_, _)

\* After a statement: its paths are joined to those of the ones before it, and
\* the pc of what follows is that of the block and their normal label.
Joined(w, u, paths) == [w |-> [u EXCEPT !.pc = w.pc \/ paths.norm], paths |-> paths]
Follow(w, a, s, u) ==
  Joined(w, u, IF w.strict THEN Then(a.paths, Paths(u, s, Kinds)) ELSE NoPaths)

Statements(w, body) ==
  FoldLeft(LAMBDA a, s : Follow(w, a, s, Check(a.w, s)), [w |-> w, paths |-> NoPaths], body)

\* Mutation: a block leaves its pc behind.
CloseKeepingPc(w, end) ==
  [w |-> [end.w EXCEPT !.scope = w.scope],
   exits |-> [on |-> end.paths.on, hi |-> end.paths.hi]]

CloseSeq(w, end) ==
  [w |-> [end.w EXCEPT !.pc = w.pc, !.scope = w.scope],
   exits |-> [on |-> end.paths.on, hi |-> end.paths.hi]]

\* _check_stmt_seq
CheckSeq(w, body) == CloseSeq(w, Statements(w, body))

Record(w, id, label) == [w EXCEPT !.seen[id] = label]

\* _container_merge
Merge(before, posts) == before \cup UNION posts

\* A branch starts from what was pushed before the if, under the labels of all
\* the conditions evaluated to reach it.
LeaveBranch(w, a, pc, body, u) ==
  [w |-> [u EXCEPT !.pc = w.pc], pc |-> pc,
   posts |-> a.posts \cup (IF Leaves(body) THEN {} ELSE {u.pushed})]
CheckBranch(w, a, pc, body) ==
  LeaveBranch(w, a, pc, body,
              CheckSeq([a.w EXCEPT !.pc = pc, !.pushed = w.pushed], body).w)

CheckArm(w, a, c, guard) ==
  CheckBranch(w, [a EXCEPT !.w = Record(a.w, c.id, guard)], a.pc \/ guard, c.body)
CheckLast(w, a, body) == IF body = <<>> THEN a ELSE CheckBranch(w, a, a.pc, body)
CloseIf(w, end) == [end.w EXCEPT !.pushed = Merge(w.pushed, end.posts)]

\* _check_if
CheckIf(w, s) ==
  CloseIf(w, CheckLast(w,
    FoldLeft(LAMBDA a, c : CheckArm(w, a, c, Label(a.w, c.cond)),
             [w |-> w, pc |-> w.pc, posts |-> {}], s.arms), s.last))

\* _loop_head_pc
HeadPc(pc, exits) == pc \/ exits.hi \cap {"break", "return"} # {}

\* One walk of the body: speculative, or the real one.
Turn(w, s, real) ==
  LET bound == [w EXCEPT !.label["v"] = w.seen[s.id]]
      guard == Label(w, s.cond)
      inside == [Record(w, s.id, guard) EXCEPT !.pc = @ \/ (real /\ guard)]
  IN  CheckSeq(IF s.op = "for" THEN bound ELSE inside, s.body)

\* Mutation: the labels of expressions count, which every walk writes anew.
ChannelsOfExprs(w) == <<w.label, w.fields, w.pushed, w.seen>>

\* _label_channels: what is declared inside the body is not in scope
Channels(w) == <<[n \in w.scope |-> w.label[n]], w.fields, w.pushed>>

RECURSIVE Settle(_, _, _, _, _)

\* After a speculative walk of the body: what it reported is taken back, and
\* unless nothing its next turn can read has changed, it is walked again.
WalkAgain(w, s, pc, exits, passes, turn) ==
  LET after == [turn.w EXCEPT !.flags = w.flags,
                              !.passes = IF passes > @ THEN passes ELSE @]
      seen == [on |-> exits.on \cup turn.exits.on, hi |-> exits.hi \cup turn.exits.hi]
      stable == Channels(after) = Channels(w) /\ seen = exits
  IN  CASE stable -> [w |-> after, exits |-> seen]
        [] ~stable /\ passes >= FixpointCap ->
             [w |-> after, exits |-> [on |-> Kinds, hi |-> Kinds]]
        [] OTHER -> Settle(after, s, pc, seen, passes + 1)

\* _loop_label_fixpoint
Settle(w, s, pc, exits, passes) ==
  WalkAgain(w, s, pc, exits, passes, Turn([w EXCEPT !.pc = HeadPc(pc, exits)], s, FALSE))

\* The real walk, from what the speculative ones settled on.
WalkOnce(w, s, entry, settled) ==
  [Turn([settled.w EXCEPT !.pc = HeadPc(entry.pc, settled.exits)], s, TRUE).w
     EXCEPT !.pc = w.pc]
Enter(w, s, entry) ==
  WalkOnce(w, s, entry, Settle(entry, s, entry.pc, [on |-> {}, hi |-> {}], 1))

\* _check_loop, with the label of the list of a `for', which is read once
CheckLoop(w, s) ==
  LET list == s.op = "for" /\ LabelOfPlace(w, s.on)
  IN  Enter(w, s, [Record(w, s.id, list) EXCEPT !.pc = @ \/ list])

Check(w, s) ==
  CASE s.op = "set" /\ Len(s.to) = 1 -> CheckAssign(w, s)
    [] s.op = "set" /\ Len(s.to) = 2 -> CheckStore(w, s)
    [] s.op = "list" -> CheckList(w, s)
    [] s.op = "let" -> CheckAlias(w, s)
    [] s.op \in {"push", "pop"} -> CheckMutation(w, s)
    [] s.op = "sink" -> CheckSink(w, s)
    [] s.op = "if" -> CheckIf(w, s)
    [] s.op \in {"while", "for"} -> CheckLoop(w, s)
    [] s.op \in Kinds -> w

Entry(tier) ==
  [strict |-> tier = "strict", pc |-> FALSE,
   scope |-> Names \ {"c", "m", "v"},
   label |-> [n \in Names |-> n = "s"],
   fields |-> [n \in Boxes |-> [f \in Fields |-> FALSE]],
   tracked |-> {"b"},
   alias |-> [n \in Boxes |-> {}],
   pushed |-> {}, flags |-> {}, forms |-> {}, passes |-> 0, reuse |-> FALSE, dead |-> 0,
   seen |-> [id \in 0..MaxTokens |-> FALSE]]

-----------------------------------------------------------------------------
(* A run.                                                                  *)

Val(n) == [n |-> n, secret |-> FALSE]

At(m, place) ==
  CASE Len(place) = 2 -> m.box[m.ref[place[1]]][place[2]]
    [] place[1] \in Lists -> m.list[place[1]]
    [] OTHER -> m.val[place[1]]

Eval(m, e) ==
  CASE e.k = "lit" -> Val(e.n)
    [] e.k = "read" -> At(m, e.at)
    [] e.k = "size" -> Val(Len(At(m, e.at)))
    [] e.k = "elem" -> IF At(m, e.at) = <<>> THEN Val(0) ELSE At(m, e.at)[1]
    [] e.k = "pick" -> Val(IF At(m, e.at).n > 0 THEN 1 ELSE 0)
    [] e.k = "release" -> Val(At(m, e.at).n)

Holds(m, cond) == Eval(m, cond).n > 0

Put(m, place, value) ==
  CASE Len(place) = 2 -> [m EXCEPT !.box[m.ref[place[1]]][place[2]] = value]
    [] place[1] \in Lists -> [m EXCEPT !.list[place[1]] = value]
    [] OTHER -> [m EXCEPT !.val[place[1]] = value]

Log(m, e) == IF e.k = "release" THEN [m EXCEPT !.released = Append(@, Eval(m, e).n)] ELSE m

Show(m, s) ==
  [Log(m, s.e) EXCEPT !.out = Append(@, Eval(m, s.e).n),
                      !.leaked = IF Eval(m, s.e).secret THEN @ \cup {s.id} ELSE @]

RECURSIVE Exec(_, _)
ExecSeq(m, body) ==
  FoldLeft(LAMBDA a, s : IF a.left = "" THEN Exec(a, s) ELSE a, m, body)

\* The end of a turn, and of a loop.
Ended(m) == IF m.left = "continue" THEN [m EXCEPT !.left = ""] ELSE m
Resume(m) == IF m.left = "break" THEN [m EXCEPT !.left = ""] ELSE m
OneTurn(m, body) ==
  IF m.turns = MaxTurns THEN [m EXCEPT !.left = "cut"]
  ELSE Ended(ExecSeq([m EXCEPT !.turns = @ + 1], body))

RECURSIVE While(_, _), For(_, _, _)
While(m, s) ==
  IF m.left = "" /\ Holds(m, s.cond) THEN While(OneTurn(m, s.body), s) ELSE Resume(m)

\* A list is iterated as it stands at each turn.
For(m, s, i) ==
  IF m.left = "" /\ i <= Len(At(m, s.on))
  THEN For(OneTurn(Put(m, <<"v">>, At(m, s.on)[i]), s.body), s, i + 1)
  ELSE Resume(m)

ExecIf(m, s) ==
  LET taken == {i \in DOMAIN s.arms : /\ Holds(m, s.arms[i].cond)
                                      /\ \A j \in 1..(i - 1) : ~Holds(m, s.arms[j].cond)}
  IN  ExecSeq(m, IF taken = {} THEN s.last
                 ELSE s.arms[CHOOSE i \in taken : TRUE].body)

Exec(m, s) ==
  CASE s.op = "set" -> Put(Log(m, s.e), s.to, Eval(m, s.e))
    [] s.op = "list" -> Put(m, s.to, <<>>)
    [] s.op = "let" -> [m EXCEPT !.ref[s.to[1]] = m.ref[s.of[1]]]
    [] s.op = "push" -> Put(m, s.on, Append(At(m, s.on), Eval(m, s.e)))
    [] s.op = "pop" -> Put(m, s.on, IF At(m, s.on) = <<>> THEN <<>> ELSE Front(At(m, s.on)))
    [] s.op = "sink" -> Show(m, s)
    [] s.op = "if" -> ExecIf(m, s)
    [] s.op = "while" -> While(m, s)
    [] s.op = "for" -> For(m, s, 1)
    [] s.op \in Kinds -> [m EXCEPT !.left = s.op]

\* The parameters s and p.k hold the secret.
Start(secret) ==
  LET hidden == [n |-> secret, secret |-> TRUE]
      fresh(k) == [f \in Fields |-> CASE f = "k" -> k
                                      [] f = "i" -> <<>>
                                      [] OTHER -> Val(0)]
  IN  [val |-> [n \in Ints |-> CASE n = "s" -> hidden
                                   [] n = "y" -> Val(1)
                                   [] OTHER -> Val(0)],
       ref |-> [n \in Boxes |-> IF n = "p" THEN "param" ELSE "local"],
       box |-> [o \in {"param", "local"} |->
                  fresh(IF o = "param" THEN hidden ELSE Val(0))],
       list |-> [n \in Lists |-> <<>>], out |-> <<>>, released |-> <<>>, leaked |-> {},
       left |-> "", turns |-> 0]

-----------------------------------------------------------------------------
(* Writing a body.                                                         *)

Block == [op |-> "body", stmts |-> <<>>, lets |-> {}]

Top == Last(open)
SetTop(block) == [open EXCEPT ![Len(open)] = block]
InLoop == \E i \in DOMAIN open : open[i].op \in {"while", "for"}
InFor == \E i \in DOMAIN open : open[i].op = "for"
Iterated == {open[i].head.on : i \in {j \in DOMAIN open : open[j].op = "for"}}
Bound == UNION {open[i].lets : i \in DOMAIN open}

\* The places a token names.
Mentions(t) ==
  (IF "to" \in DOMAIN t THEN {t.to} ELSE {})
    \cup (IF "of" \in DOMAIN t THEN {t.of} ELSE {})
    \cup (IF "on" \in DOMAIN t THEN {t.on} ELSE {})
    \cup (IF "e" \in DOMAIN t /\ t.e.k # "lit" THEN {t.e.at} ELSE {})
    \cup (IF "cond" \in DOMAIN t THEN {t.cond.at} ELSE {})

Roots(t) == {place[1] : place \in Mentions(t)}

\* A name is used where it is bound; only c and v are bound by statements.
Scoped(t) ==
  /\ ("v" \in Roots(t)) => InFor
  /\ t.op = "for" => ~InFor
  /\ \A n \in Roots(t) \cap {"c", "m"} : (n \in Bound) = (t.op \notin {"let", "list"})

FormOf(t) ==
  (IF t.op = "push" /\ t.on \in Iterated THEN {"growing"} ELSE {})
    \cup (IF t.op = "let" /\ InLoop THEN {"alias_in_loop"} ELSE {})

May(t) ==
  /\ phase = "write" /\ count < MaxTokens
  /\ t \in family /\ Scoped(t) /\ FormOf(t) \subseteq Forms

Init ==
  /\ phase = "write" /\ family \in Families /\ count = 0
  /\ open = <<Block>>
  /\ found = [t \in Tiers |-> Entry(t)]
  /\ runs = [n \in 0..1 |-> Start(n)]

Simple == {"set", "let", "list", "push", "pop", "sink"}

\* A statement without a body, which is not dead code.
Write(t) ==
  /\ May(t) /\ t.op \in Simple \cup Kinds
  /\ t.op \in {"break", "continue"} => InLoop
  /\ ~Leaves(Top.stmts)
  /\ open' = SetTop([Top EXCEPT !.stmts = Append(@, t @@ [id |-> count]),
                                !.lets = IF t.op \in {"let", "list"} THEN @ \cup {t.to[1]} ELSE @])
  /\ count' = count + 1
  /\ UNCHANGED <<phase, family, found, runs>>

Open(t) ==
  /\ May(t) /\ t.op \in {"if", "while", "for"}
  /\ ~Leaves(Top.stmts)
  /\ open' = Append(open, [Block EXCEPT !.op = t.op] @@
                          [head |-> t @@ [id |-> count], arms |-> <<>>])
  /\ count' = count + 1
  /\ UNCHANGED <<phase, family, found, runs>>

Arm(block) == [cond |-> block.head.cond, id |-> block.head.id, body |-> block.stmts]

\* The next arm of an if, with a condition of its own or without one.
Else(t) ==
  /\ May(t) /\ t.op \in {"elif", "else"}
  /\ Top.op = "if" /\ Top.stmts # <<>>
  /\ open' = SetTop([Top EXCEPT !.op = IF t.op = "elif" THEN "if" ELSE "else",
                                !.arms = Append(@, Arm(Top)),
                                !.head = t @@ [id |-> count],
                                !.stmts = <<>>, !.lets = {}])
  /\ count' = count + 1
  /\ UNCHANGED <<phase, family, found, runs>>

Statement(block) ==
  CASE block.op = "if" -> [op |-> "if", arms |-> Append(block.arms, Arm(block)),
                           last |-> <<>>]
    [] block.op = "else" -> [op |-> "if", arms |-> block.arms, last |-> block.stmts]
    [] OTHER -> block.head @@ [body |-> block.stmts]

End ==
  /\ phase = "write" /\ Len(open) > 1 /\ Top.stmts # <<>>
  /\ LET outer == Front(open)
     IN  open' = [outer EXCEPT ![Len(outer)].stmts = Append(@, Statement(Top))]
  /\ UNCHANGED <<phase, family, count, found, runs>>

Body == open[1].stmts

Finish ==
  /\ phase = "write" /\ Len(open) = 1 /\ Body # <<>>
  /\ phase' = "check"
  /\ UNCHANGED <<family, open, count, found, runs>>

\* _check_fun at either tier
CheckFun ==
  /\ phase = "check"
  /\ \E reuse \in {FALSE, \E t \in family : t.op = "list"} :
       found' = [t \in Tiers |->
                   [CheckSeq([found[t] EXCEPT !.reuse = reuse], Body).w EXCEPT !.reuse = FALSE]]
  /\ phase' = "run"
  /\ UNCHANGED <<family, open, count, runs>>

Run ==
  /\ phase = "run"
  /\ runs' = [n \in 0..1 |-> ExecSeq(runs[n], Body)]
  /\ phase' = "done"
  /\ UNCHANGED <<family, open, count, found>>

Next ==
  \/ \E t \in family : Write(t) \/ Open(t) \/ Else(t)
  \/ End \/ Finish \/ CheckFun \/ Run

Spec == Init /\ [][Next]_vars

-----------------------------------------------------------------------------
Flagged(tier, why) == {f[1] : f \in {g \in found[tier].flags : g[2] = why}}

\* What the analyzer ends with: labels for every name and field, aliases that hold
\* their own name, and, at the end of the body, the pc and the scope it began with.
TypeOK ==
  /\ phase \in {"write", "check", "run", "done"}
  /\ family \in Families
  /\ count \in 0..MaxTokens
  /\ \A t \in Tiers :
       /\ found[t].label \in [Names -> BOOLEAN]
       /\ found[t].fields \in [Boxes -> [Fields -> BOOLEAN]]
       /\ found[t].tracked \subseteq {"b"}
       /\ \A n \in Boxes : found[t].alias[n] = {} \/ n \in found[t].alias[n]
       /\ ~found[t].pc /\ found[t].scope = Entry(t).scope
       /\ found[t].forms \subseteq AllForms

\* @strict_ifc: of a body that is accepted, two runs that differ in the secret
\* alone print the same, as far as what they released by declassify is the same
\* and neither was cut off, unless the body takes the form "shared_list"
\* (_ifc.py:174-176 names it as a residual).
Same(p, q) == IF runs[0].left = "cut" \/ runs[1].left = "cut" THEN Compatible(p, q) ELSE p = q

Noninterference ==
  phase = "done" /\ found["strict"].flags = {}
    /\ "shared_list" \notin found["strict"].forms
    /\ Same(runs[0].released, runs[1].released)
    => Same(runs[0].out, runs[1].out)

\* Both tiers: a sink that prints a value computed from the secret by data alone
\* is reported, unless the body takes the form "shared_list".
ExplicitFlowsReported ==
  phase = "done" =>
    \A t \in Tiers, n \in 0..1 :
      "shared_list" \in found[t].forms \/ runs[n].leaked \subseteq Flagged(t, "data")

\* The fixpoint of a loop settles in as many walks as a body has statements, unless
\* a walk left a list of its own behind.
LoopsSettle == \A t \in Tiers : found[t].dead = 0 => found[t].passes <= count

\* ... always.
LoopsAlwaysSettle == \A t \in Tiers : found[t].passes < FixpointCap
=============================================================================
