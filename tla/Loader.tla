------------------------------- MODULE Loader -------------------------------
(***************************************************************************)
(* The linker of the module loader (capa/loader.py: load_root, _link,      *)
(* _handle_import, _apply_selective_import, _mangle_private_items and      *)
(* _rewrite_qualified_calls): the files a root file imports, directly or   *)
(* through others, are read depth first and merged into one flat module.   *)
(*                                                                         *)
(* There is one namespace after linking, so everything the language says   *)
(* of modules is done by renaming: what is private to a file is given a    *)
(* name of its own, what an import does not select is hidden in the same   *)
(* way, what it selects under an alias takes that alias, and a call        *)
(* through the name of a module loses its receiver.                        *)
(*                                                                         *)
(* A name after linking is <<"plain", n>>, or <<"private", k, n>> or       *)
(* <<"hidden", k, n>> for the k-th file read.  An item is a function or a  *)
(* constant; it may bind a local name (a constant, in a lambda), and it    *)
(* uses one name, bare or through the name of a module.  A module and an   *)
(* item may have the same name.                                            *)
(***************************************************************************)
EXTENDS Naturals, Sequences, FiniteSets, SequencesExt, Functions

CONSTANTS
  Files,    \* the source files, each at the path that resolve() gives it
  Root,     \* the file the linker is given
  Names,    \* the names files declare, bind and use
  Modules,  \* the names imports give to modules
  Missing,  \* the target of an import that no candidate path resolves
  None,     \* no alias, no local, no receiver, no selection
  Projects  \* sets of projects, each the contents of the files, by file

Import ==
  [file : Files \cup {Missing}, alias : Modules,
   named : BOOLEAN,                           \* by `as', or by its path
   sel : {None} \cup SUBSET (Names \X (Names \cup {None}))]
Item ==
  [name : Names, pub : BOOLEAN, const : BOOLEAN, local : Names \cup Modules \cup {None},
   via : Modules \cup {None}, use : Names]

DeclaredBy(items) == {i.name : i \in Range(items)}

ASSUME ProjectsAssumption ==
  /\ Root \in Files /\ Missing \notin Files
  /\ None \notin Names \cup Modules \cup Import
  /\ \A P \in Projects : \A p \in P :
       /\ p \in [Files -> [imports : Seq(Import), items : Seq(Item), parses : BOOLEAN]]
       /\ \A f \in Files : \A i, j \in DOMAIN p[f].items :
            p[f].items[i].name = p[f].items[j].name => i = j

\* The last part of a path names the file it leads to, unless that is a symbolic link.
ASSUME StemAssumption ==
  \A P \in Projects : \A p \in P, f, g \in Files :
    \A i \in Range(p[f].imports), j \in Range(p[g].imports) :
      i.file \in Files /\ i.file = j.file /\ ~i.named /\ ~j.named => i.alias = j.alias

VARIABLES
  disk,     \* the contents of the files
  parsed,   \* per file read: which it is, and what its names were changed to
  frames,   \* the files being linked, and how far: _loading, under the root
  seen,     \* the files that have been linked
  sigs,     \* _import_sig: how each file was imported first
  out,      \* the merged items
  exports,  \* _module_exports: per name of a module, what it declares
  status    \* "linking", "linked" or why it was refused

vars == <<disk, parsed, frames, seen, sigs, out, exports, status>>

-----------------------------------------------------------------------------
(* Files and imports.                                                      *)

Publics(f) == {i.name : i \in {j \in Range(disk[f].items) : j.pub}}
Privates(f) == {i.name : i \in {j \in Range(disk[f].items) : ~j.pub}}

\* Mutation: a selection counts, an alias of the module does not.
SigOfSelection(imp) == imp.sel

\* _import_signature
Sig(imp) == <<IF imp.named THEN imp.alias ELSE None, imp.sel>>

Selected(imp) == {pair[1] : pair \in imp.sel}
Shown(pair) == IF pair[2] = None THEN pair[1] ELSE pair[2]

\* What an import brings, by the name it has where it is brought.
DirectNames(imp) ==
  IF imp.sel = None THEN Publics(imp.file) ELSE {Shown(pair) : pair \in imp.sel}

\* _apply_selective_import: each selected once, and public
Selectable(imp) ==
  imp.sel # None => /\ Selected(imp) \subseteq Publics(imp.file)
                    /\ \A p, q \in imp.sel : p[1] = q[1] => p = q

\* _mangle_private_items
Mangled(f, k) == [n \in Privates(f) |-> <<"private", k, n>>]

\* _apply_selective_import: an alias for what is selected under one, a name of its
\* own for what is not selected
Restricted(imp, k) ==
  IF imp.sel = None THEN [n \in {} |-> <<>>]
  ELSE LET given == {pair \in imp.sel : pair[2] # None}
       IN  [n \in {pair[1] : pair \in given} \cup (Publics(imp.file) \ Selected(imp)) |->
              IF n \in Selected(imp)
              THEN <<"plain", (CHOOSE pair \in given : pair[1] = n)[2]>>
              ELSE <<"hidden", k, n>>]

\* Mutation: what is not selected stays where it is.
RestrictedToAliases(imp, k) ==
  IF imp.sel = None THEN [n \in {} |-> <<>>]
  ELSE LET given == {pair \in imp.sel : pair[2] # None}
       IN  [n \in {pair[1] : pair \in given} |->
              <<"plain", (CHOOSE pair \in given : pair[1] = n)[2]>>]

\* The function f, and g where f has no value.
Over(f, g) == [x \in DOMAIN f \cup DOMAIN g |-> IF x \in DOMAIN f THEN f[x] ELSE g[x]]

Renaming(imp, k) == Over(Mangled(imp.file, k), Restricted(imp, k))

\* What a name becomes in the k-th file read.
Renamed(k, n) ==
  IF n \in DOMAIN parsed[k].names THEN parsed[k].names[n] ELSE <<"plain", n>>

-----------------------------------------------------------------------------
(* The linker.                                                             *)

Init ==
  /\ \E P \in Projects : disk \in P
  /\ parsed = <<[file |-> Root, names |-> [n \in {} |-> <<>>]]>>
  /\ frames = <<[copy |-> 1, at |-> 1, imp |-> None]>>
  /\ seen = {} /\ sigs = [f \in {} |-> <<>>]
  /\ out = <<>> /\ exports = [m \in {} |-> {}]
  /\ status = "linking"

Top == Last(frames)
FileOf(frame) == parsed[frame.copy].file
Contents == disk[FileOf(Top)]
Imports == Contents.imports
Items == Contents.items

Advance == [frames EXCEPT ![Len(frames)].at = @ + 1]

\* Mutation: a file may import itself.
LoadingBelow == {FileOf(frames[i]) : i \in 2..(Len(frames) - 1)}

\* The files being linked, but for the root.
Loading == {FileOf(frames[i]) : i \in 2..Len(frames)}

AtImport(imp) == status = "linking" /\ Top.at \in DOMAIN Imports /\ imp = Imports[Top.at]

Refuse(why) == status' = why /\ UNCHANGED <<disk, parsed, frames, seen, sigs, out, exports>>

CannotResolve(imp) == AtImport(imp) /\ imp.file = Missing /\ Refuse("unresolved")

\* Mutation: an import of what is being linked is passed over.
AgainOrCyclic(imp) ==
  /\ AtImport(imp) /\ imp.file \in seen \cup Loading /\ sigs[imp.file] = Sig(imp)
  /\ frames' = Advance
  /\ UNCHANGED <<disk, parsed, seen, sigs, out, exports, status>>

\* Imported before, in the same way or in another.
Again(imp) ==
  /\ AtImport(imp) /\ imp.file \in seen /\ sigs[imp.file] = Sig(imp)
  /\ frames' = Advance
  /\ UNCHANGED <<disk, parsed, seen, sigs, out, exports, status>>

Diverges(imp) ==
  AtImport(imp) /\ imp.file \in seen /\ sigs[imp.file] # Sig(imp) /\ Refuse("divergent")

IsCyclic(imp) ==
  AtImport(imp) /\ imp.file \in Loading \ seen /\ Refuse("cyclic")

First(imp) == AtImport(imp) /\ imp.file \in Files \ (seen \cup Loading)

CannotParse(imp) == First(imp) /\ ~disk[imp.file].parses /\ Refuse("unparsed")

CannotSelect(imp) ==
  First(imp) /\ disk[imp.file].parses /\ ~Selectable(imp) /\ Refuse("unselectable")

Enter(imp) ==
  /\ First(imp) /\ disk[imp.file].parses /\ Selectable(imp)
  /\ sigs' = Over([f \in {imp.file} |-> Sig(imp)], sigs)
  /\ parsed' = Append(parsed, [file |-> imp.file, names |-> Renaming(imp, Len(parsed) + 1)])
  /\ frames' = Append(frames, [copy |-> Len(parsed) + 1, at |-> 1, imp |-> imp])
  /\ UNCHANGED <<disk, seen, out, exports, status>>

\* The items come after those of all the file imports.
AtItem(item) ==
  /\ status = "linking"
  /\ Top.at - Len(Imports) \in DOMAIN Items /\ item = Items[Top.at - Len(Imports)]

NameOf(entry) == Renamed(entry.copy, entry.item.name)
Taken == {NameOf(out[i]) : i \in DOMAIN out}

Conflicts(item) ==
  AtItem(item) /\ Renamed(Top.copy, item.name) \in Taken /\ Refuse("conflict")

Emit(item) ==
  /\ AtItem(item) /\ Renamed(Top.copy, item.name) \notin Taken
  /\ out' = Append(out, [copy |-> Top.copy, item |-> item])
  /\ frames' = Advance
  /\ UNCHANGED <<disk, parsed, seen, sigs, exports, status>>

AtEnd == status = "linking" /\ Top.at > Len(Imports) + Len(Items)

\* An alias names one module, in all the files together.
Ambiguous(imp) == imp.alias \in DOMAIN exports /\ exports[imp.alias] # DirectNames(imp)

Clashes == AtEnd /\ Len(frames) > 1 /\ Ambiguous(Top.imp) /\ Refuse("alias")

Leave ==
  /\ AtEnd /\ Len(frames) > 1 /\ ~Ambiguous(Top.imp)
  /\ seen' = seen \cup {FileOf(Top)}
  /\ exports' = Over([m \in {Top.imp.alias} |-> DirectNames(Top.imp)], exports)
  /\ frames' = LET outer == Front(frames)
               IN  [outer EXCEPT ![Len(outer)].at = @ + 1]
  /\ UNCHANGED <<disk, parsed, sigs, out, status>>

Finish ==
  /\ AtEnd /\ Len(frames) = 1 /\ status' = "linked"
  /\ UNCHANGED <<disk, parsed, frames, seen, sigs, out, exports>>

\* What stops while it links is stuck.
Ended == status # "linking" /\ UNCHANGED vars

LinkImport(imp) ==
  \/ CannotResolve(imp) \/ Again(imp) \/ Diverges(imp) \/ IsCyclic(imp)
  \/ CannotParse(imp) \/ CannotSelect(imp) \/ Enter(imp)

Next ==
  \/ \E i \in DOMAIN Imports : LinkImport(Imports[i])
  \/ \E i \in DOMAIN Items : Emit(Items[i]) \/ Conflicts(Items[i])
  \/ Leave \/ Clashes \/ Finish \/ Ended

Spec == Init /\ [][Next]_vars

-----------------------------------------------------------------------------
(* What a project may be, without regard to the order of its imports.      *)

Targets(f) == {i.file : i \in Range(disk[f].imports)} \cap Files

\* The files f imports, directly or through others.
Descendants(f) ==
  LET Closed(X) == Targets(f) \subseteq X /\ \A g \in X : Targets(g) \subseteq X
  IN  {g \in Files : \A X \in SUBSET Files : Closed(X) => g \in X}

Reached == {Root} \cup Descendants(Root)
AllImports == UNION {Range(disk[f].imports) : f \in Reached}

\* What becomes of a name that a file declares, once it is linked.
Final(f, n) ==
  LET imp == CHOOSE i \in AllImports : i.file = f
      names == Renaming(imp, f)
  IN  IF f = Root \/ n \notin DOMAIN names THEN <<"plain", n>> ELSE names[n]

WellFormed ==
  /\ \A i \in AllImports :
       i.file # Missing /\ disk[i.file].parses /\ Selectable(i)
  /\ \A f \in Reached : f \notin Descendants(f)
  /\ \A i, j \in AllImports :
       /\ i.file = j.file => i = j
       /\ i.alias = j.alias => DirectNames(i) = DirectNames(j)
  /\ \A f, g \in Reached :
       \A m \in DeclaredBy(disk[f].items), n \in DeclaredBy(disk[g].items) :
         Final(f, m) = Final(g, n) => f = g /\ m = n

-----------------------------------------------------------------------------
(* What the use of a name means: in its file, and once it is linked.       *)

Shows(imp, n, decl) ==
  /\ imp.file = decl[2]
  /\ IF imp.sel = None THEN n = decl[3] /\ n \in Publics(imp.file)
     ELSE \E pair \in imp.sel : pair[1] = decl[3] /\ Shown(pair) = n

Declarations ==
  UNION {{<<"item", f, n>> : n \in DeclaredBy(disk[f].items)} : f \in Files}

BareMeans(f, item, n) ==
  IF n = item.local THEN {<<"local">>}
  ELSE IF n \in DeclaredBy(disk[f].items) THEN {<<"item", f, n>>}
  ELSE {d \in Declarations : \E i \in Range(disk[f].imports) : Shows(i, n, d)}

Means(f, item) ==
  IF item.via = None THEN BareMeans(f, item, item.use)
  ELSE IF item.via = item.local THEN {<<"method", <<"local">> >>}
  ELSE {d \in Declarations : \E i \in Range(disk[f].imports) :
          i.alias = item.via /\ Shows(i, item.use, d)}

\* What a name of the merged module refers to, where `local' is bound.
Refers(name, local) ==
  IF name = <<"plain", local>> THEN {<<"local">>}
  ELSE {<<"item", parsed[out[i].copy].file, out[i].item.name>> :
          i \in {j \in DOMAIN out : NameOf(out[j]) = name}}

\* Mutation: the receiver of a call is not looked for among the locals.
ExportedAnyway(entry) ==
  \E m \in DOMAIN exports :
    Renamed(entry.copy, entry.item.via) = <<"plain", m>> /\ entry.item.use \in exports[m]

\* _collect_bound_names, which is asked of functions only
LocalsOf(item) == IF item.const THEN {} ELSE {item.local}

\* _Rewriter: the receiver, under the name it has by then, is that of a module
\* and of no local.
Qualified(entry) ==
  \E m \in DOMAIN exports \ LocalsOf(entry.item) :
    Renamed(entry.copy, entry.item.via) = <<"plain", m>> /\ entry.item.use \in exports[m]

Refer(entry) ==
  LET item == entry.item
  IN  IF item.via = None THEN Refers(Renamed(entry.copy, item.use), item.local)
      ELSE IF Qualified(entry) THEN Refers(<<"plain", item.use>>, item.local)
      ELSE {<<"method", r>> : r \in Refers(Renamed(entry.copy, item.via), item.local)}

KeepsMeaning(entry) ==
  LET means == Means(parsed[entry.copy].file, entry.item)
  IN  means # {} => Refer(entry) = means

\* A local that has a name the linker changes, or changes another into, or that
\* a constant calls a method of; or a module that has the name of an item that the
\* linker renames, in a file that calls through it.
Captures(entry) ==
  LET item == entry.item
      names == parsed[entry.copy].names
  IN  \/ item.local \in DOMAIN names
      \/ <<"plain", item.local>> \in Range(names)
      \/ item.via \in DOMAIN names
      \/ /\ item.via # None
         /\ item.local = item.use \/ (item.const /\ item.local = item.via)

-----------------------------------------------------------------------------
\* Each file being linked is there once, and none of them is already done: the chain
\* of imports never meets itself, and every frame has the copy it links.
TypeOK ==
  /\ DOMAIN disk = Files
  /\ \A k \in DOMAIN parsed : parsed[k].file \in Files
  /\ \A i \in DOMAIN frames :
       frames[i].copy \in DOMAIN parsed /\ (frames[i].imp = None) = (i = 1)
  /\ seen \subseteq DOMAIN sigs /\ seen \cap Loading = {}
  /\ \A i, j \in 2..Len(frames) : FileOf(frames[i]) = FileOf(frames[j]) => i = j
  /\ DOMAIN exports \subseteq Modules
  /\ status \in {"linking", "linked", "unresolved", "divergent", "cyclic", "unparsed",
                 "unselectable", "conflict", "alias"}

\* What is accepted does not depend on the order of the imports: a project links if
\* and only if each import resolves and selects what there is, no file imports
\* itself, all imports of a file agree, and no name is declared twice.
AcceptsWellFormed ==
  status # "linking" => (status = "linked") = WellFormed

\* Each item of each file reached is merged once, and after all its file imports.
Order(f) == {i \in DOMAIN out : parsed[out[i].copy].file = f}
LinkedInOrder ==
  status = "linked" =>
    /\ \A i \in DOMAIN out : \E f \in Reached :
         i \in Order(f) /\ out[i].item \in Range(disk[f].items)
    /\ \A f \in Reached : \A item \in Range(disk[f].items) :
         Cardinality({i \in Order(f) : out[i].item = item}) = 1
    /\ \A f, g \in Reached :
         g \in Descendants(f) => \A i \in Order(f), j \in Order(g) : j < i

\* A use refers to what it means in its file, unless Captures names what is in its
\* way; and wherever it is, it never refers to what is private to another file, but
\* for the root's (loader.py:28-36: the private items of an imported file are
\* renamed apart).
SafeNamesKeepMeaning ==
  status = "linked" =>
    \A i \in DOMAIN out :
      /\ ~Captures(out[i]) => KeepsMeaning(out[i])
      /\ \A f \in Files \ {Root} : \A n \in Privates(f) :
           <<"item", f, n>> \in Refer(out[i]) => parsed[out[i].copy].file = f

\* The same of every use, whatever is in its way (loader.py:1199-1203). The code
\* does not keep this.
NamesKeepMeaning ==
  status = "linked" => \A i \in DOMAIN out : KeepsMeaning(out[i])

=============================================================================
