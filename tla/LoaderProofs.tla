----------------------------- MODULE LoaderProofs -----------------------------
(***************************************************************************)
(* Proofs about Loader, for every project: any number of files, imports    *)
(* and items, and any names.                                               *)
(***************************************************************************)
EXTENDS Loader, FiniteSetTheorems, SequenceTheorems, TLAPS

Imps(f) == disk[f].imports
Its(f)  == disk[f].items

\* The files being linked, and what is merged.
Frame == [copy : Nat, at : Nat \ {0}, imp : Import \cup {None}]
Entry == [copy : Nat, item : Item]

Types ==
  /\ disk \in UNION Projects
  /\ parsed \in Seq(Range(parsed)) /\ parsed # <<>>
  /\ \A k \in DOMAIN parsed : parsed[k].file \in Files
  /\ frames \in Seq(Frame) /\ frames # <<>>
  /\ seen \subseteq Files /\ DOMAIN sigs \subseteq Files
  /\ out \in Seq(Entry)
  /\ DOMAIN exports \subseteq Modules
  /\ status \in {"linking", "linked", "unresolved", "divergent", "cyclic", "unparsed",
                 "unselectable", "conflict", "alias"}

\* The copy k was made for the import: the first of its file.
Enters(imp, k) ==
  /\ imp \in AllImports /\ imp \in Import
  /\ imp.file = parsed[k].file /\ disk[imp.file].parses /\ Selectable(imp)
  /\ parsed[k].names = Renaming(imp, k)
  /\ imp.file \in DOMAIN sigs /\ sigs[imp.file] = Sig(imp)

-----------------------------------------------------------------------------
(* What the files of a project are.                                        *)

LEMMA FileType ==
  ASSUME disk \in UNION Projects, NEW f \in Files
  PROVE  Imps(f) \in Seq(Import) /\ Its(f) \in Seq(Item) /\ disk[f].parses \in BOOLEAN
BY ProjectsAssumption DEF Imps, Its

LEMMA ImportType ==
  ASSUME disk \in UNION Projects, NEW f \in Files
  PROVE  /\ Range(Imps(f)) \subseteq Import /\ Range(Its(f)) \subseteq Item
         /\ \A p \in DOMAIN Imps(f) : Imps(f)[p] \in Range(Imps(f))
         /\ \A p \in DOMAIN Its(f) : Its(f)[p] \in Range(Its(f))
         /\ Publics(f) \subseteq Names /\ Privates(f) \subseteq Names
         /\ Publics(f) \cap Privates(f) = {}
<1>1. Imps(f) \in Seq(Import) /\ Its(f) \in Seq(Item)
  BY FileType
<1>2. Range(Imps(f)) \subseteq Import /\ Range(Its(f)) \subseteq Item
  BY <1>1 DEF Range
<1>3. \A i, j \in Range(Its(f)) : i.name = j.name => i = j
  BY <1>1, ProjectsAssumption DEF Range, Its
<1>4. \A i \in Range(Its(f)) : i.name \in Names /\ i.pub \in BOOLEAN
  BY <1>2 DEF Item
<1>5. Publics(f) \cap Privates(f) = {}
  BY <1>3 DEF Publics, Privates, Its
<1>6. QED
  BY <1>2, <1>4, <1>5 DEF Range, Publics, Privates, Its

\* The names that are changed, and what each becomes.
Changed(imp) ==
  Privates(imp.file)
    \cup (IF imp.sel = None THEN {}
          ELSE {pair[1] : pair \in {q \in imp.sel : q[2] # None}}
                 \cup (Publics(imp.file) \ Selected(imp)))

Alias(imp, n) == (CHOOSE pair \in {q \in imp.sel : q[2] # None} : pair[1] = n)[2]

LEMMA RenamingIs ==
  ASSUME NEW imp, NEW k
  PROVE  /\ DOMAIN Renaming(imp, k) = Changed(imp)
         /\ \A n \in Changed(imp) :
              /\ n \in Privates(imp.file) => Renaming(imp, k)[n] = <<"private", k, n>>
              /\ n \notin Privates(imp.file) =>
                   Renaming(imp, k)[n] =
                     IF n \in Selected(imp) THEN <<"plain", Alias(imp, n)>>
                     ELSE <<"hidden", k, n>>
<1>1. DOMAIN Mangled(imp.file, k) = Privates(imp.file)
      /\ \A n \in Privates(imp.file) : Mangled(imp.file, k)[n] = <<"private", k, n>>
  BY DEF Mangled
<1>2. \A n \in DOMAIN Restricted(imp, k) :
        Restricted(imp, k)[n] =
          IF n \in Selected(imp) THEN <<"plain", Alias(imp, n)>> ELSE <<"hidden", k, n>>
  BY DEF Restricted, Changed, Alias
<1>3. Changed(imp) = DOMAIN Mangled(imp.file, k) \cup DOMAIN Restricted(imp, k)
  BY <1>1 DEF Changed, Restricted
<1>4. QED
  BY <1>1, <1>2, <1>3 DEF Renaming, Over

\* Under a selection that is accepted, the alias of a name is the one it selects.
LEMMA AliasIs ==
  ASSUME disk \in UNION Projects, NEW imp \in Import, imp.file \in Files, Selectable(imp),
         imp.sel # None, NEW pair \in imp.sel, pair[2] # None
  PROVE  Alias(imp, pair[1]) = pair[2] /\ pair[2] \in Names
<1>1. imp.sel \in SUBSET (Names \X (Names \cup {None}))
  BY DEF Import
<1>2. \A q \in imp.sel : q[1] = pair[1] => q = pair
  BY DEF Selectable
<1>3. QED
  BY <1>1, <1>2 DEF Alias

-----------------------------------------------------------------------------
(* The files that a file imports, directly or through others.              *)

LEMMA DescendantsIn == ASSUME NEW f  PROVE Descendants(f) \subseteq Files
BY DEF Descendants

LEMMA DescendantsLeast ==
  ASSUME NEW f, NEW X \in SUBSET Files, Targets(f) \subseteq X,
         \A g \in X : Targets(g) \subseteq X
  PROVE  Descendants(f) \subseteq X
BY DEF Descendants

LEMMA DescendantsTarget ==
  ASSUME NEW f, NEW g \in Targets(f)
  PROVE  g \in Descendants(f)
BY DEF Descendants, Targets

LEMMA DescendantsStep ==
  ASSUME NEW f, NEW g \in Descendants(f), NEW h \in Targets(g)
  PROVE  h \in Descendants(f)
BY DEF Descendants, Targets

LEMMA ImportTarget ==
  ASSUME NEW f, NEW imp \in Range(Imps(f)), imp.file \in Files
  PROVE  imp.file \in Targets(f)
BY DEF Targets, Imps

LEMMA ReachedImport ==
  ASSUME NEW f \in Reached, NEW imp \in Range(Imps(f))
  PROVE  imp \in AllImports /\ (imp.file \in Files => imp.file \in Reached)
<1>1. imp \in AllImports
  BY DEF AllImports, Imps
<1>2. ASSUME imp.file \in Files  PROVE imp.file \in Reached
  BY <1>2, ImportTarget, DescendantsTarget, DescendantsStep DEF Reached
<1>3. QED
  BY <1>1, <1>2

LEMMA AllImportsReach ==
  ASSUME NEW imp \in AllImports, imp.file \in Files
  PROVE  imp.file \in Reached
<1>1. PICK f \in Reached : imp \in Range(Imps(f))
  BY DEF AllImports, Imps
<1>2. QED
  BY <1>1, ReachedImport

LEMMA AllImportsIn ==
  ASSUME disk \in UNION Projects
  PROVE  Reached \subseteq Files /\ AllImports \subseteq Import
<1>1. Reached \subseteq Files
  BY DescendantsIn, ProjectsAssumption DEF Reached
<1>2. QED
  BY <1>1, ImportType DEF AllImports, Imps

\* Two imports of a file that agree are one: what the path ends in names the file.
LEMMA SameImport ==
  ASSUME disk \in UNION Projects, NEW i \in AllImports, NEW j \in AllImports,
         i.file \in Files, i.file = j.file, Sig(i) = Sig(j)
  PROVE  i = j
<1>1. i \in Import /\ j \in Import
  BY AllImportsIn
<1>2. /\ i.named \in BOOLEAN /\ j.named \in BOOLEAN /\ i.alias \in Modules /\ j.alias \in Modules
      /\ i = [file |-> i.file, alias |-> i.alias, named |-> i.named, sel |-> i.sel]
      /\ j = [file |-> j.file, alias |-> j.alias, named |-> j.named, sel |-> j.sel]
  BY <1>1 DEF Import
<1>3. i.sel = j.sel
      /\ (IF i.named THEN i.alias ELSE None) = (IF j.named THEN j.alias ELSE None)
  BY DEF Sig
<1>4. i.named = j.named
  BY <1>2, <1>3, ProjectsAssumption
<1>5. i.alias = j.alias
  <2>1. CASE i.named
    BY <1>3, <1>4, <2>1
  <2>2. CASE ~i.named
    <3>1. PICK f \in Reached, g \in Reached :
            i \in Range(disk[f].imports) /\ j \in Range(disk[g].imports)
      BY DEF AllImports
    <3>2. f \in Files /\ g \in Files
      BY AllImportsIn
    <3>3. QED
      BY <1>4, <2>2, <3>1, <3>2, StemAssumption
  <2>3. QED
    BY <2>1, <2>2
<1>6. QED
  BY <1>2, <1>3, <1>4, <1>5

-----------------------------------------------------------------------------
(* The invariant.                                                          *)

\* An import that has been dealt with.
Done(imp) ==
  /\ imp.file \in seen /\ sigs[imp.file] = Sig(imp)
  /\ imp.alias \in DOMAIN exports /\ exports[imp.alias] = DirectNames(imp)

\* The files being linked: each was entered for the import at which the one below
\* it stopped, none is there twice, and none is done.
Stack ==
  /\ parsed[1].file = Root /\ DOMAIN parsed[1].names = {}
  /\ frames[1].copy = 1 /\ frames[1].imp = None
  /\ \A i \in DOMAIN frames : frames[i].copy \in DOMAIN parsed
  /\ \A i \in 2..Len(frames) :
       /\ frames[i].copy # 1 /\ FileOf(frames[i]) \notin seen
       /\ Enters(frames[i].imp, frames[i].copy)
  /\ \A i, j \in 2..Len(frames) : FileOf(frames[i]) = FileOf(frames[j]) => i = j

Chain ==
  /\ \A i \in 1..(Len(frames) - 1) :
       /\ frames[i].at \in DOMAIN Imps(FileOf(frames[i]))
       /\ Imps(FileOf(frames[i]))[frames[i].at] = frames[i + 1].imp
  /\ \A i, j \in DOMAIN frames :
       i < j => FileOf(frames[j]) \in Descendants(FileOf(frames[i]))

\* The root may be met again, under itself, and gets no further than the first time.
RootOnce ==
  /\ Root \notin seen
  /\ \A j \in 2..Len(frames) : FileOf(frames[j]) = Root => frames[j].at <= frames[1].at

\* Every other file is read once, and is done or being linked.
Copies ==
  /\ \A k \in 2..Len(parsed) :
       /\ \E imp \in AllImports :
            Enters(imp, k) /\ (parsed[k].file \in seen => Done(imp))
       /\ parsed[k].file \in seen \/ \E i \in 2..Len(frames) : frames[i].copy = k
  /\ \A k, l \in 2..Len(parsed) : parsed[k].file = parsed[l].file => k = l
  /\ \A f \in seen : \E k \in 2..Len(parsed) : parsed[k].file = f

\* How far the imports are: those of a file that is done, or of whose items some
\* are merged, all are.
Progress ==
  /\ \A i \in DOMAIN frames : \A p \in DOMAIN Imps(FileOf(frames[i])) :
       p < frames[i].at => Done(Imps(FileOf(frames[i]))[p])
  /\ \A f \in seen : f \notin Descendants(f) /\ \A imp \in Range(Imps(f)) : Done(imp)
  /\ \A m \in DOMAIN exports :
       \E imp \in AllImports : imp.alias = m /\ exports[m] = DirectNames(imp)

Source(o) == parsed[out[o].copy].file

\* What is merged: the items of the files that are done, and those that the files
\* being linked have got past.
Merged ==
  /\ \A o \in DOMAIN out :
       /\ out[o].copy \in DOMAIN parsed /\ out[o].item \in Range(Its(Source(o)))
       /\ \A imp \in Range(Imps(Source(o))) : Done(imp)
       /\ \A i \in DOMAIN frames : out[o].copy = frames[i].copy =>
            \E p \in DOMAIN Its(Source(o)) :
              p + Len(Imps(Source(o))) < frames[i].at /\ out[o].item = Its(Source(o))[p]
  /\ \A i \in DOMAIN frames : \A p \in DOMAIN Its(FileOf(frames[i])) :
       p + Len(Imps(FileOf(frames[i]))) < frames[i].at =>
         [copy |-> frames[i].copy, item |-> Its(FileOf(frames[i]))[p]] \in Range(out)
  /\ \A k \in 2..Len(parsed) : parsed[k].file \in seen =>
       \A item \in Range(Its(parsed[k].file)) : [copy |-> k, item |-> item] \in Range(out)

Ordered ==
  /\ \A o, q \in DOMAIN out : NameOf(out[o]) = NameOf(out[q]) => o = q
  /\ \A o, q \in DOMAIN out : Source(q) \in Descendants(Source(o)) => q < o

\* Why it ended.
Outcome ==
  /\ status = "linked" =>
       Len(frames) = 1 /\ frames[1].at > Len(Imps(Root)) + Len(Its(Root))
  /\ status \notin {"linking", "linked"} => ~WellFormed

Inv == /\ Types /\ Stack /\ Chain /\ RootOnce /\ Copies /\ Progress /\ Merged
       /\ Ordered /\ Outcome

-----------------------------------------------------------------------------
(* Nothing changes the disk, so nothing changes what is said of it.        *)

LEMMA SameDisk ==
  ASSUME disk' = disk
  PROVE  /\ \A f : Imps(f)' = Imps(f) /\ Its(f)' = Its(f)
         /\ \A f : Targets(f)' = Targets(f) /\ Descendants(f)' = Descendants(f)
         /\ Reached' = Reached /\ AllImports' = AllImports
         /\ \A imp : DirectNames(imp)' = DirectNames(imp)
         /\ \A imp : Selectable(imp)' = Selectable(imp)
         /\ \A imp, k : Renaming(imp, k)' = Renaming(imp, k)
         /\ WellFormed' = WellFormed
<1>1. \A f : Imps(f)' = Imps(f) /\ Its(f)' = Its(f)
  BY DEF Imps, Its
<1>2. \A f : Targets(f)' = Targets(f)
  BY DEF Targets
<1>3. \A f : Descendants(f)' = Descendants(f)
  BY DEF Descendants, Targets
<1>4. Reached' = Reached
  BY <1>3 DEF Reached
<1>5. AllImports' = AllImports
  BY <1>4 DEF AllImports
<1>6. \A f : Publics(f)' = Publics(f) /\ Privates(f)' = Privates(f)
  BY DEF Publics, Privates
<1>7. \A imp : DirectNames(imp)' = DirectNames(imp)
  BY DEF DirectNames, Publics
<1>8. \A imp : Selectable(imp)' = Selectable(imp)
  BY DEF Selectable, Publics
<1>9. \A imp, k : Renaming(imp, k)' = Renaming(imp, k)
  BY DEF Renaming, Mangled, Restricted, Publics, Privates
<1>10. WellFormed' = WellFormed
  BY DEF WellFormed, AllImports, Reached, Descendants, Targets, Selectable, DirectNames,
         Final, Renaming, Mangled, Restricted, Publics, Privates
<1>11. QED
  BY <1>1, <1>2, <1>3, <1>4, <1>5, <1>7, <1>8, <1>9, <1>10

-----------------------------------------------------------------------------
(* What each step does to the files being linked.                          *)

OneOn(frame) == [frame EXCEPT !.at = @ + 1]

LEMMA OneOnIs ==
  ASSUME NEW r \in Frame
  PROVE  /\ OneOn(r) \in Frame /\ OneOn(r).at = r.at + 1
         /\ OneOn(r).copy = r.copy /\ OneOn(r).imp = r.imp
<1>1. r.at + 1 \in Nat \ {0}
  BY DEF Frame
<1>2. QED
  BY <1>1 DEF Frame, OneOn

LEMMA AdvanceIs ==
  ASSUME Types
  PROVE  /\ Len(frames) \in Nat \ {0} /\ DOMAIN frames = 1..Len(frames)
         /\ Top = frames[Len(frames)] /\ Top \in Frame
         /\ Advance \in Seq(Frame) /\ Len(Advance) = Len(frames)
         /\ \A i \in DOMAIN frames :
              /\ Advance[i].copy = frames[i].copy /\ Advance[i].imp = frames[i].imp
              /\ Advance[i].at = IF i = Len(frames) THEN frames[i].at + 1 ELSE frames[i].at
<1>1. /\ Len(frames) \in Nat \ {0} /\ DOMAIN frames = 1..Len(frames)
      /\ \A i \in 1..Len(frames) : frames[i] \in Frame
  BY DEF Types
<1>2. Top = frames[Len(frames)] /\ Top \in Frame
  BY <1>1 DEF Top, Last
<1>3. Advance = [frames EXCEPT ![Len(frames)] = OneOn(frames[Len(frames)])]
  BY DEF Advance, OneOn
<1>4. \A i \in 1..Len(frames) :
        Advance[i] = IF i = Len(frames) THEN OneOn(frames[i]) ELSE frames[i]
  BY <1>1, <1>3
<1>5. \A i \in 1..Len(frames) : Advance[i] \in Frame
  BY <1>1, <1>4, OneOnIs
<1>6. Advance \in Seq(Frame) /\ Len(Advance) = Len(frames)
  BY <1>1, <1>3, OneOnIs DEF Types
<1>7. QED
  BY <1>1, <1>2, <1>4, <1>6, OneOnIs


LEMMA LeaveIs ==
  ASSUME Types, Len(frames) > 1, Leave
  PROVE  /\ frames' \in Seq(Frame) /\ Len(frames') = Len(frames) - 1
         /\ \A i \in 1..(Len(frames) - 1) :
              /\ frames'[i].copy = frames[i].copy /\ frames'[i].imp = frames[i].imp
              /\ frames'[i].at =
                   IF i = Len(frames) - 1 THEN frames[i].at + 1 ELSE frames[i].at
<1> DEFINE n == Len(frames) - 1
           outer == Front(frames)
<1>1. /\ Len(frames) \in Nat /\ n \in Nat \ {0} /\ frames \in Seq(Frame)
      /\ \A i \in 1..n : frames[i] \in Frame
  <2>1. frames \in Seq(Frame)
    BY DEF Types
  <2>2. Len(frames) \in Nat /\ \A i \in 1..Len(frames) : frames[i] \in Frame
    BY <2>1
  <2>3. n \in Nat \ {0} /\ \A i \in 1..n : i \in 1..Len(frames)
    BY <2>2
  <2>4. QED
    BY <2>1, <2>2, <2>3
<1>2. outer \in Seq(Frame) /\ Len(outer) = n /\ \A i \in 1..n : outer[i] = frames[i]
  BY <1>1 DEF Front
<1>3. frames' = [outer EXCEPT ![n] = OneOn(outer[n])]
  BY <1>2 DEF Leave, OneOn
<1> HIDE DEF outer
<1>4. \A i \in 1..n : frames'[i] = IF i = n THEN OneOn(frames[i]) ELSE frames[i]
  BY <1>1, <1>2, <1>3
<1>5. frames' \in Seq(Frame) /\ Len(frames') = n
  BY <1>1, <1>2, <1>3, OneOnIs
<1>6. QED
  BY <1>1, <1>4, <1>5, OneOnIs

LEMMA AppendIs ==
  ASSUME NEW s, s \in Seq(Range(s)), NEW x
  PROVE  /\ Append(s, x) \in Seq(Range(Append(s, x)))
         /\ Len(s) \in Nat /\ DOMAIN s = 1..Len(s)
         /\ Len(Append(s, x)) = Len(s) + 1 /\ DOMAIN Append(s, x) = 1..(Len(s) + 1)
         /\ \A k \in 1..Len(s) : Append(s, x)[k] = s[k]
         /\ Append(s, x)[Len(s) + 1] = x
<1>1. /\ Len(s) \in Nat /\ DOMAIN s = 1..Len(s)
      /\ Append(s, x) \in Seq(Range(s) \cup {x})
      /\ Len(Append(s, x)) = Len(s) + 1 /\ DOMAIN Append(s, x) = 1..(Len(s) + 1)
      /\ \A k \in 1..Len(s) : Append(s, x)[k] = s[k]
      /\ Append(s, x)[Len(s) + 1] = x
  BY AppendProperties, SeqMonotonic
<1>2. \A k \in 1..Len(Append(s, x)) : Append(s, x)[k] \in Range(Append(s, x))
  BY <1>1 DEF Range
<1>3. QED
  BY <1>1, <1>2

\* The copy and the frame that an import adds.
LEMMA EnterIs ==
  ASSUME Types, NEW imp, Enter(imp)
  PROVE  /\ parsed' \in Seq(Range(parsed')) /\ Len(parsed) \in Nat \ {0}
         /\ DOMAIN parsed = 1..Len(parsed)
         /\ Len(parsed') = Len(parsed) + 1 /\ DOMAIN parsed' = 1..(Len(parsed) + 1)
         /\ \A k \in 1..Len(parsed) : parsed'[k] = parsed[k]
         /\ parsed'[Len(parsed) + 1].file = imp.file
         /\ parsed'[Len(parsed) + 1].names = Renaming(imp, Len(parsed) + 1)
         /\ Len(frames') = Len(frames) + 1 /\ DOMAIN frames' = 1..(Len(frames) + 1)
         /\ \A i \in 1..Len(frames) : frames'[i] = frames[i]
         /\ frames'[Len(frames) + 1] = [copy |-> Len(parsed) + 1, at |-> 1, imp |-> imp]
<1>1. parsed' = Append(parsed, [file |-> imp.file, names |-> Renaming(imp, Len(parsed) + 1)])
      /\ frames' = Append(frames, [copy |-> Len(parsed) + 1, at |-> 1, imp |-> imp])
  BY DEF Enter
<1>2. parsed # <<>> /\ parsed \in Seq(Range(parsed)) /\ frames \in Seq(Frame)
  BY DEF Types
<1>3. Len(parsed) \in Nat \ {0}
  BY <1>2, AppendIs, EmptySeq, LenProperties
<1>4. /\ Len(frames') = Len(frames) + 1 /\ DOMAIN frames' = 1..(Len(frames) + 1)
      /\ \A i \in 1..Len(frames) : frames'[i] = frames[i]
      /\ frames'[Len(frames) + 1] = [copy |-> Len(parsed) + 1, at |-> 1, imp |-> imp]
  BY <1>1, <1>2
<1>5. QED
  BY <1>1, <1>2, <1>3, <1>4, AppendIs

\* The file being linked, and where it has got to.
LEMMA Here ==
  ASSUME Types, Stack
  PROVE  /\ Top = frames[Len(frames)] /\ Len(frames) \in DOMAIN frames
         /\ \A i \in DOMAIN frames : FileOf(frames[i]) \in Files
         /\ FileOf(Top) \in Files /\ Imports = Imps(FileOf(Top)) /\ Items = Its(FileOf(Top))
         /\ Imports \in Seq(Import) /\ Items \in Seq(Item)
<1>1. Top = frames[Len(frames)] /\ Len(frames) \in DOMAIN frames
  BY AdvanceIs
<1>2. \A i \in DOMAIN frames : FileOf(frames[i]) \in Files
  BY DEF Stack, Types, FileOf
<1>3. Imports = Imps(FileOf(Top)) /\ Items = Its(FileOf(Top))
  BY DEF Imports, Items, Contents, Imps, Its
<1>4. QED
  BY <1>1, <1>2, <1>3, FileType DEF Types

LEMMA ImportHere ==
  ASSUME Types, Stack, Chain, NEW imp, AtImport(imp)
  PROVE  /\ imp \in Import /\ imp \in AllImports /\ imp \in Range(Imps(FileOf(Top)))
         /\ FileOf(Top) \in Reached
         /\ imp.file \in Files => imp.file \in Reached /\ imp.file \in Targets(FileOf(Top))
<1>1. imp \in Range(Imps(FileOf(Top))) /\ imp \in Import
  BY Here DEF AtImport, Range
<1>2. FileOf(Top) \in Reached
  <2>1. FileOf(frames[1]) = Root /\ 1 \in DOMAIN frames
    BY AdvanceIs DEF Stack, FileOf
  <2>2. CASE Len(frames) = 1
    BY <2>1, <2>2, Here DEF Reached
  <2>3. CASE Len(frames) # 1
    <3>1. 1 < Len(frames)
      BY <2>3, AdvanceIs
    <3>2. FileOf(Top) \in Descendants(Root)
      BY <2>1, <3>1, Here DEF Chain
    <3>3. QED
      BY <3>2 DEF Reached
  <2>4. QED
    BY <2>2, <2>3
<1>3. QED
  BY <1>1, <1>2, ReachedImport, ImportTarget

-----------------------------------------------------------------------------
(* What was said of an import and of a copy stays said.                    *)

LEMMA DoneKeep ==
  ASSUME disk' = disk, NEW imp, Done(imp), seen \subseteq seen',
         sigs'[imp.file] = sigs[imp.file],
         imp.alias \in DOMAIN exports', exports'[imp.alias] = exports[imp.alias]
  PROVE  Done(imp)'
<1>1. DirectNames(imp)' = DirectNames(imp) /\ Sig(imp)' = Sig(imp)
  BY SameDisk DEF Sig
<1>2. QED
  BY <1>1 DEF Done

LEMMA EntersKeep ==
  ASSUME disk' = disk, NEW imp, NEW k, Enters(imp, k), parsed'[k] = parsed[k],
         imp.file \in DOMAIN sigs', sigs'[imp.file] = sigs[imp.file]
  PROVE  Enters(imp, k)'
<1>1. /\ AllImports' = AllImports /\ Selectable(imp)' = Selectable(imp)
      /\ Renaming(imp, k)' = Renaming(imp, k)
  BY SameDisk
<1>2. QED
  BY <1>1 DEF Enters, Sig

\* What a step that goes on to the next import or item leaves as it was.
LEMMA AdvanceKeeps ==
  ASSUME Types, Stack, Chain, Copies, frames' = Advance,
         UNCHANGED <<disk, parsed, seen, sigs, exports>>
  PROVE  /\ Stack' /\ Chain' /\ Copies'
         /\ Len(frames') = Len(frames) /\ DOMAIN frames' = DOMAIN frames
         /\ \A i \in DOMAIN frames : FileOf(frames[i])' = FileOf(frames[i])
         /\ FileOf(Top)' = FileOf(Top)
         /\ \A imp : Done(imp)' = Done(imp)
<1>1. /\ Len(frames') = Len(frames) /\ DOMAIN frames' = DOMAIN frames
      /\ \A i \in DOMAIN frames :
           /\ frames'[i].copy = frames[i].copy /\ frames'[i].imp = frames[i].imp
           /\ frames'[i].at = IF i = Len(frames) THEN frames[i].at + 1 ELSE frames[i].at
  BY AdvanceIs
<1>2. \A i \in DOMAIN frames : FileOf(frames[i])' = FileOf(frames[i])
  BY <1>1 DEF FileOf
<1>3. \A imp : Done(imp)' = Done(imp)
  BY SameDisk DEF Done, Sig
<1>4. \A imp, k : Enters(imp, k)' = Enters(imp, k)
  BY SameDisk DEF Enters, Sig
<1>5. 1 \in DOMAIN frames /\ 2..Len(frames) \subseteq DOMAIN frames
  BY AdvanceIs
<1>6. Stack'
  <2>1. \A i \in 2..Len(frames) :
          /\ frames[i].copy # 1 /\ FileOf(frames[i]) \notin seen
          /\ Enters(frames[i].imp, frames[i].copy)
    BY DEF Stack
  <2>2. \A i \in 2..Len(frames') :
          /\ frames'[i].copy # 1 /\ FileOf(frames[i])' \notin seen'
          /\ Enters(frames[i].imp, frames[i].copy)'
    BY <1>1, <1>2, <1>4, <1>5, <2>1
  <2>3. \A i, j \in 2..Len(frames') : FileOf(frames[i])' = FileOf(frames[j])' => i = j
    BY <1>1, <1>2, <1>5 DEF Stack
  <2>4. frames'[1].copy = 1 /\ frames'[1].imp = None
    BY <1>1, <1>5 DEF Stack
  <2>5. \A i \in DOMAIN frames' : frames'[i].copy \in DOMAIN parsed'
    BY <1>1 DEF Stack
  <2>6. parsed'[1].file = Root /\ DOMAIN parsed'[1].names = {}
    BY DEF Stack
  <2>7. QED
    BY <2>2, <2>3, <2>4, <2>5, <2>6 DEF Stack
<1>7. Chain'
  <2>1. \A i \in 1..(Len(frames) - 1) :
          i \in DOMAIN frames /\ i + 1 \in DOMAIN frames /\ i # Len(frames)
    BY AdvanceIs
  <2>2. \A i \in 1..(Len(frames') - 1) :
          /\ frames'[i].at \in DOMAIN Imps(FileOf(frames[i]))'
          /\ Imps(FileOf(frames[i]))'[frames'[i].at] = frames'[i + 1].imp
    BY <1>1, <1>2, <2>1, SameDisk DEF Chain
  <2>3. \A i, j \in DOMAIN frames' :
          i < j => FileOf(frames[j])' \in Descendants(FileOf(frames[i]))'
    BY <1>1, <1>2, SameDisk DEF Chain
  <2>4. QED
    BY <2>2, <2>3 DEF Chain
<1>8. Copies'
  <2>1. \A k \in 2..Len(parsed) :
          \E imp \in AllImports : Enters(imp, k) /\ (parsed[k].file \in seen => Done(imp))
    BY DEF Copies
  <2>2. \A k \in 2..Len(parsed) :
          \E imp \in AllImports : Enters(imp, k)' /\ (parsed[k].file \in seen => Done(imp)')
    BY <1>3, <1>4, <2>1
  <2>3. AllImports' = AllImports
    BY SameDisk
  <2>4. \A k \in 2..Len(parsed) :
          parsed[k].file \in seen \/ \E i \in 2..Len(frames') : frames'[i].copy = k
    BY <1>1, <1>5 DEF Copies
  <2>5. QED
    BY <2>2, <2>3, <2>4 DEF Copies
<1>9. FileOf(Top)' = FileOf(Top)
  BY <1>1, <1>2, AdvanceIs DEF Top, Last, FileOf
<1>10. QED
  BY <1>1, <1>2, <1>3, <1>6, <1>7, <1>8, <1>9

-----------------------------------------------------------------------------
(* An import of what has been linked before.                               *)

\* Of two imports of a file that agree, both are dealt with or none.
LEMMA SeenIsDone ==
  ASSUME Types, Copies, NEW imp \in AllImports, imp.file \in seen,
         sigs[imp.file] = Sig(imp)
  PROVE  Done(imp)
<1>1. PICK k \in 2..Len(parsed) : parsed[k].file = imp.file
  BY DEF Copies
<1>2. PICK i \in AllImports : Enters(i, k) /\ Done(i)
  BY <1>1 DEF Copies
<1>3. i.file = imp.file /\ Sig(i) = Sig(imp) /\ i.file \in Files
  BY <1>1, <1>2 DEF Enters, Types
<1>4. QED
  BY <1>2, <1>3, SameImport DEF Types

LEMMA AgainKeeps ==
  ASSUME Inv, NEW imp, Again(imp)
  PROVE  Inv'
<1>1. Types /\ Stack /\ Chain /\ RootOnce /\ Copies /\ Progress /\ Merged /\ Ordered
  BY DEF Inv
<1>2. /\ frames' = Advance /\ UNCHANGED <<disk, parsed, seen, sigs, out, exports, status>>
      /\ AtImport(imp) /\ imp.file \in seen /\ sigs[imp.file] = Sig(imp)
  BY DEF Again
<1>3. /\ Stack' /\ Chain' /\ Copies'
      /\ Len(frames') = Len(frames) /\ DOMAIN frames' = DOMAIN frames
      /\ \A i \in DOMAIN frames : FileOf(frames[i])' = FileOf(frames[i])
      /\ \A i : Done(i)' = Done(i)
  BY <1>1, <1>2, AdvanceKeeps
<1>4. /\ Len(frames) \in Nat \ {0} /\ DOMAIN frames = 1..Len(frames)
      /\ frames' \in Seq(Frame) /\ Top = frames[Len(frames)]
      /\ \A i \in DOMAIN frames :
           /\ frames[i].at \in Nat /\ frames'[i].copy = frames[i].copy
           /\ frames'[i].at = IF i = Len(frames) THEN frames[i].at + 1 ELSE frames[i].at
  <2>1. \A i \in 1..Len(frames) : frames[i] \in Frame
    BY <1>1 DEF Types
  <2>2. \A i \in DOMAIN frames : frames[i].at \in Nat
    BY <1>1, <2>1, AdvanceIs DEF Frame
  <2>3. QED
    BY <1>1, <1>2, <2>2, AdvanceIs
<1>5. /\ Top.at \in DOMAIN Imps(FileOf(Top)) /\ imp = Imps(FileOf(Top))[Top.at]
      /\ Imps(FileOf(Top)) \in Seq(Import) /\ imp \in AllImports
  BY <1>1, <1>2, Here, ImportHere DEF AtImport
<1>6. Types'
  <2>1. Len(frames') # 0
    BY <1>3, <1>4
  <2>2. frames' # <<>>
    BY <2>1
  <2>3. QED
    BY <1>1, <1>2, <1>4, <2>2 DEF Types
<1>7. RootOnce'
  <2>1. ASSUME NEW j \in 2..Len(frames), FileOf(frames[j]) = Root
        PROVE  frames'[j].at <= frames'[1].at
    <3>1. /\ frames[j].at <= frames[1].at /\ 1 \in DOMAIN frames /\ j \in DOMAIN frames
          /\ 1 # Len(frames)
      BY <1>1, <1>4, <2>1 DEF RootOnce
    <3>2. CASE j # Len(frames)
      BY <1>4, <3>1, <3>2
    <3>3. CASE j = Len(frames)
      <4>1. FileOf(frames[1]) = Root
        BY <1>1 DEF Stack, FileOf
      <4>2. 1 \in 1..(Len(frames) - 1) /\ 2 \in 2..Len(frames)
        BY <1>4
      <4>3. Imps(Root)[frames[1].at] = frames[2].imp
        BY <1>1, <4>1, <4>2 DEF Chain
      <4>4. frames[2].imp.file \notin seen
        BY <1>1, <4>2 DEF Stack, Enters, FileOf
      <4>5. imp = Imps(Root)[frames[j].at]
        BY <1>4, <1>5, <2>1, <3>3
      <4>6. frames[j].at # frames[1].at
        BY <1>2, <4>3, <4>4, <4>5
      <4>7. frames'[j].at = frames[j].at + 1 /\ frames'[1].at = frames[1].at
        BY <1>4, <3>1, <3>3
      <4>8. frames[j].at \in Nat /\ frames[1].at \in Nat
        BY <1>4, <3>1
      <4>9. QED
        BY <3>1, <4>6, <4>7, <4>8
    <3>4. QED
      BY <3>2, <3>3
  <2>2. QED
    BY <1>1, <1>2, <1>3, <1>4, <2>1 DEF RootOnce
<1>8. Progress'
  <2>1. ASSUME NEW i \in DOMAIN frames, NEW p \in DOMAIN Imps(FileOf(frames[i])),
               p < frames'[i].at
        PROVE  Done(Imps(FileOf(frames[i]))[p])
    <3>1. CASE p < frames[i].at
      BY <1>1, <3>1 DEF Progress
    <3>2. CASE ~(p < frames[i].at)
      <4>1. Imps(FileOf(frames[i])) \in Seq(Import)
        BY <1>1, Here, FileType DEF Types
      <4>2. p \in Nat
        BY <4>1
      <4>3. i = Len(frames) /\ p = frames[i].at
        BY <1>4, <2>1, <3>2, <4>2
      <4>4. Imps(FileOf(frames[i]))[p] = imp
        BY <1>4, <1>5, <4>3
      <4>5. QED
        BY <1>1, <1>2, <1>5, <4>4, SeenIsDone
    <3>3. QED
      BY <3>1, <3>2
  <2>2. \A i \in DOMAIN frames' : \A p \in DOMAIN Imps(FileOf(frames[i]))' :
          p < frames'[i].at => Done(Imps(FileOf(frames[i]))[p])'
    BY <1>2, <1>3, <2>1, SameDisk
  <2>3. \A f \in seen' :
          f \notin Descendants(f)' /\ \A i \in Range(Imps(f))' : Done(i)'
    BY <1>1, <1>2, <1>3, SameDisk DEF Progress
  <2>4. \A m \in DOMAIN exports' :
          \E i \in AllImports' : i.alias = m /\ exports'[m] = DirectNames(i)'
    BY <1>1, <1>2, SameDisk DEF Progress
  <2>5. QED
    BY <2>2, <2>3, <2>4 DEF Progress
<1>9. Merged'
  <2>1. \A o \in DOMAIN out : Source(o)' = Source(o)
    BY <1>2 DEF Source
  <2>2. ASSUME NEW o \in DOMAIN out, NEW i \in DOMAIN frames, out[o].copy = frames[i].copy
        PROVE  \E p \in DOMAIN Its(Source(o)) :
                 p + Len(Imps(Source(o))) < frames'[i].at /\ out[o].item = Its(Source(o))[p]
    <3>1. PICK p \in DOMAIN Its(Source(o)) :
            p + Len(Imps(Source(o))) < frames[i].at /\ out[o].item = Its(Source(o))[p]
      BY <1>1, <2>2 DEF Merged
    <3>2. Source(o) \in Files
      BY <1>1 DEF Merged, Types, Source
    <3>3. p \in Nat /\ Len(Imps(Source(o))) \in Nat
      BY <1>1, <3>2, FileType DEF Types
    <3>4. QED
      BY <1>4, <3>1, <3>3
  <2>3. ASSUME NEW i \in DOMAIN frames, NEW p \in DOMAIN Its(FileOf(frames[i])),
               p + Len(Imps(FileOf(frames[i]))) < frames'[i].at
        PROVE  [copy |-> frames[i].copy, item |-> Its(FileOf(frames[i]))[p]] \in Range(out)
    <3>1. /\ Imps(FileOf(frames[i])) \in Seq(Import) /\ Its(FileOf(frames[i])) \in Seq(Item)
      BY <1>1, Here, FileType DEF Types
    <3>2. p \in Nat \ {0} /\ Len(Imps(FileOf(frames[i]))) \in Nat
      BY <3>1
    <3>3. i = Len(frames) => frames[i].at <= Len(Imps(FileOf(frames[i])))
      BY <1>4, <1>5
    <3>4. p + Len(Imps(FileOf(frames[i]))) < frames[i].at
      BY <1>4, <2>3, <3>2, <3>3
    <3>5. QED
      BY <1>1, <3>4 DEF Merged
  <2>4. \A o \in DOMAIN out' :
          /\ out'[o].copy \in DOMAIN parsed' /\ out'[o].item \in Range(Its(Source(o)))'
          /\ \A i \in Range(Imps(Source(o)))' : Done(i)'
          /\ \A i \in DOMAIN frames' : out'[o].copy = frames'[i].copy =>
               \E p \in DOMAIN Its(Source(o))' :
                 /\ p + Len(Imps(Source(o)))' < frames'[i].at
                 /\ out'[o].item = Its(Source(o))'[p]
    BY <1>1, <1>2, <1>3, <1>4, <2>1, <2>2, SameDisk DEF Merged
  <2>5. \A i \in DOMAIN frames' : \A p \in DOMAIN Its(FileOf(frames[i]))' :
          p + Len(Imps(FileOf(frames[i])))' < frames'[i].at =>
            [copy |-> frames'[i].copy, item |-> Its(FileOf(frames[i]))'[p]] \in Range(out')
    <3>1. Range(out') = Range(out)
      BY <1>2
    <3>2. \A i \in DOMAIN frames : /\ Its(FileOf(frames[i]))' = Its(FileOf(frames[i]))
                                   /\ Imps(FileOf(frames[i]))' = Imps(FileOf(frames[i]))
      BY <1>2, <1>3, SameDisk
    <3>3. QED
      BY <1>3, <1>4, <2>3, <3>1, <3>2
  <2>6. \A k \in 2..Len(parsed') : parsed'[k].file \in seen' =>
          \A item \in Range(Its(parsed[k].file))' :
            [copy |-> k, item |-> item] \in Range(out')
    BY <1>1, <1>2, SameDisk DEF Merged
  <2>7. QED
    BY <2>4, <2>5, <2>6 DEF Merged
<1>10. Ordered'
  BY <1>1, <1>2, SameDisk DEF Ordered, Source, NameOf, Renamed
<1>11. Outcome'
  BY <1>2 DEF Outcome, AtImport
<1>12. QED
  BY <1>3, <1>6, <1>7, <1>8, <1>9, <1>10, <1>11 DEF Inv

-----------------------------------------------------------------------------
(* The merge of an item.                                                   *)

\* What a file imports is done once its imports are.
LEMMA DescendantsSeen ==
  ASSUME Types, Progress, NEW f \in Files, \A imp \in Range(Imps(f)) : Done(imp)
  PROVE  Descendants(f) \subseteq seen
<1>1. \A g \in Files : (\A imp \in Range(Imps(g)) : Done(imp)) => Targets(g) \subseteq seen
  BY DEF Targets, Imps, Done
<1>2. seen \subseteq Files /\ \A g \in seen : Targets(g) \subseteq seen
  BY <1>1 DEF Progress, Types
<1>3. QED
  BY <1>1, <1>2, DescendantsLeast

LEMMA TopNotSeen ==
  ASSUME Types, Stack, RootOnce
  PROVE  FileOf(Top) \notin seen
<1>1. /\ Len(frames) \in Nat \ {0} /\ Top = frames[Len(frames)]
      /\ DOMAIN frames = 1..Len(frames)
  BY AdvanceIs
<1>2. CASE Len(frames) = 1
  BY <1>1, <1>2 DEF Stack, RootOnce, FileOf
<1>3. CASE Len(frames) # 1
  <2>1. Len(frames) \in 2..Len(frames)
    BY <1>1, <1>3
  <2>2. QED
    BY <1>1, <2>1 DEF Stack
<1>4. QED
  BY <1>2, <1>3

LEMMA CopiesApart ==
  ASSUME Types, Stack
  PROVE  \A i, j \in DOMAIN frames : frames[i].copy = frames[j].copy => i = j
<1>1. Len(frames) \in Nat \ {0} /\ DOMAIN frames = 1..Len(frames)
  BY AdvanceIs
<1>2. \A i \in DOMAIN frames : i = 1 \/ i \in 2..Len(frames)
  BY <1>1
<1>3. QED
  BY <1>2 DEF Stack, FileOf

\* The item, and the imports before it.
LEMMA ItemHere ==
  ASSUME Types, Stack, Progress, NEW item, AtItem(item)
  PROVE  LET p == Top.at - Len(Imps(FileOf(Top)))
         IN  /\ p \in Nat \ {0} /\ Top.at = p + Len(Imps(FileOf(Top)))
             /\ p \in DOMAIN Its(FileOf(Top)) /\ item = Its(FileOf(Top))[p] /\ item \in Item
             /\ Top.at > Len(Imps(FileOf(Top)))
             /\ \A imp \in Range(Imps(FileOf(Top))) : Done(imp)
<1> DEFINE p == Top.at - Len(Imps(FileOf(Top)))
<1>1. /\ Imps(FileOf(Top)) \in Seq(Import) /\ Its(FileOf(Top)) \in Seq(Item)
      /\ Imports = Imps(FileOf(Top)) /\ Items = Its(FileOf(Top))
      /\ Top = frames[Len(frames)] /\ Len(frames) \in DOMAIN frames
  BY Here
<1>2. p \in DOMAIN Its(FileOf(Top)) /\ item = Its(FileOf(Top))[p]
  BY <1>1 DEF AtItem
<1>3. p \in Nat \ {0} /\ item \in Item
  BY <1>1, <1>2
<1>4. Top.at \in Nat
  BY <1>1, AdvanceIs DEF Frame
<1>5. Len(Imps(FileOf(Top))) \in Nat
  BY <1>1
<1>6. Top.at = p + Len(Imps(FileOf(Top))) /\ Top.at > Len(Imps(FileOf(Top)))
  BY <1>3, <1>4, <1>5
<1>7. \A q \in DOMAIN Imps(FileOf(Top)) : q < Top.at
  BY <1>1, <1>4, <1>6
<1>8. \A q \in DOMAIN Imps(FileOf(Top)) : Done(Imps(FileOf(Top))[q])
  BY <1>1, <1>7 DEF Progress
<1>9. \A imp \in Range(Imps(FileOf(Top))) : Done(imp)
  BY <1>8 DEF Range
<1>10. QED
  BY <1>2, <1>3, <1>6, <1>9

LEMMA EmitKeeps ==
  ASSUME Inv, NEW item, Emit(item)
  PROVE  Inv'
<1> DEFINE f == FileOf(Top)
           p == Top.at - Len(Imps(f))
           new == [copy |-> Top.copy, item |-> item]
<1>1. Types /\ Stack /\ Chain /\ RootOnce /\ Copies /\ Progress /\ Merged /\ Ordered
  BY DEF Inv
<1>2. /\ frames' = Advance /\ out' = Append(out, new)
      /\ UNCHANGED <<disk, parsed, seen, sigs, exports, status>>
      /\ AtItem(item) /\ Renamed(Top.copy, item.name) \notin Taken
  BY DEF Emit
<1>3. /\ Stack' /\ Chain' /\ Copies'
      /\ Len(frames') = Len(frames) /\ DOMAIN frames' = DOMAIN frames
      /\ \A i \in DOMAIN frames : FileOf(frames[i])' = FileOf(frames[i])
      /\ \A i : Done(i)' = Done(i)
  BY <1>1, <1>2, AdvanceKeeps
<1>4. /\ Len(frames) \in Nat \ {0} /\ DOMAIN frames = 1..Len(frames)
      /\ frames' \in Seq(Frame) /\ Top = frames[Len(frames)]
      /\ \A i \in DOMAIN frames :
           /\ frames[i].at \in Nat /\ frames[i].copy \in Nat
           /\ frames'[i].copy = frames[i].copy
           /\ frames'[i].at = IF i = Len(frames) THEN frames[i].at + 1 ELSE frames[i].at
  <2>1. \A i \in 1..Len(frames) : frames[i] \in Frame
    BY <1>1 DEF Types
  <2>2. \A i \in DOMAIN frames : frames[i].at \in Nat /\ frames[i].copy \in Nat
    BY <1>1, <2>1, AdvanceIs DEF Frame
  <2>3. QED
    BY <1>1, <1>2, <2>2, AdvanceIs
<1>5. /\ p \in Nat \ {0} /\ Top.at = p + Len(Imps(f)) /\ Len(Imps(f)) \in Nat
      /\ p \in DOMAIN Its(f) /\ item = Its(f)[p] /\ item \in Item /\ f \in Files
      /\ Top.at > Len(Imps(f)) /\ \A imp \in Range(Imps(f)) : Done(imp)
      /\ item \in Range(Its(f))
  <2>1. f \in Files /\ Len(Imps(f)) \in Nat
    BY <1>1, Here
  <2>2. /\ p \in Nat \ {0} /\ Top.at = p + Len(Imps(f))
        /\ p \in DOMAIN Its(f) /\ item = Its(f)[p] /\ item \in Item
        /\ Top.at > Len(Imps(f)) /\ \A imp \in Range(Imps(f)) : Done(imp)
    BY <1>1, <1>2, ItemHere
  <2>3. item \in Range(Its(f))
    BY <1>1, <2>1, <2>2, ImportType DEF Types
  <2>4. QED
    BY <2>1, <2>2, <2>3
<1>6. f \notin seen /\ Top.copy \in DOMAIN parsed /\ parsed[Top.copy].file = f
  BY <1>1, <1>4, TopNotSeen DEF Stack, FileOf
<1>7. new \in Entry
  BY <1>4, <1>5 DEF Entry
<1>8. /\ Len(out) \in Nat /\ DOMAIN out = 1..Len(out) /\ out' \in Seq(Entry)
      /\ DOMAIN out' = 1..(Len(out) + 1)
      /\ \A o \in DOMAIN out : out'[o] = out[o] /\ o <= Len(out)
      /\ out'[Len(out) + 1] = new
  BY <1>1, <1>2, <1>7 DEF Types
<1> HIDE DEF f, p, new
<1>9. Range(out) \subseteq Range(out') /\ new \in Range(out')
  BY <1>8 DEF Range
<1> PICK n \in Nat : n = Len(out)
  BY <1>8
<1>10. /\ \A o \in DOMAIN out : Source(o)' = Source(o) /\ NameOf(out[o])' = NameOf(out[o])
       /\ Source(n + 1)' = f
       /\ NameOf(out[n + 1])' = Renamed(Top.copy, item.name)
  <2>1. \A o \in DOMAIN out : Source(o)' = Source(o)
    BY <1>2, <1>8 DEF Source
  <2>2. \A o \in DOMAIN out : NameOf(out[o])' = NameOf(out[o])
    BY <1>2, <1>8 DEF NameOf, Renamed
  <2>3. Source(n + 1)' = f
    BY <1>2, <1>6, <1>8 DEF Source, new
  <2>4. NameOf(out[n + 1])' = Renamed(Top.copy, item.name)
    <3>1. out'[n + 1].copy = Top.copy /\ out'[n + 1].item.name = item.name
      BY <1>8 DEF new
    <3>2. \A k, m : Renamed(k, m)' = Renamed(k, m)
      BY <1>2 DEF Renamed
    <3>3. NameOf(out[n + 1])' = Renamed(out'[n + 1].copy, out'[n + 1].item.name)
      BY <3>2 DEF NameOf
    <3>4. QED
      BY <3>1, <3>3
  <2>5. QED
    BY <2>1, <2>2, <2>3, <2>4
<1>11. Types'
  <2>1. Len(frames') # 0
    BY <1>3, <1>4
  <2>2. frames' # <<>>
    BY <2>1
  <2>3. QED
    BY <1>1, <1>2, <1>4, <1>8, <2>2 DEF Types
<1>12. RootOnce'
  <2>1. ASSUME NEW j \in 2..Len(frames), FileOf(frames[j]) = Root
        PROVE  frames'[j].at <= frames'[1].at
    <3>1. /\ frames[j].at <= frames[1].at /\ 1 \in DOMAIN frames /\ j \in DOMAIN frames
          /\ 1 # Len(frames)
      BY <1>1, <1>4, <2>1 DEF RootOnce
    <3>2. CASE j # Len(frames)
      BY <1>4, <3>1, <3>2
    <3>3. CASE j = Len(frames)
      <4>1. FileOf(frames[1]) = Root
        BY <1>1 DEF Stack, FileOf
      <4>2. 1 \in 1..(Len(frames) - 1)
        BY <1>4, <3>1
      <4>3. frames[1].at \in DOMAIN Imps(Root)
        BY <1>1, <4>1, <4>2 DEF Chain
      <4>4. f = Root
        BY <1>4, <2>1, <3>3 DEF f
      <4>5. Imps(Root) \in Seq(Import)
        BY <1>1, <1>5, <4>4, FileType DEF Types
      <4>6. frames[1].at <= Len(Imps(f))
        BY <4>3, <4>4, <4>5
      <4>7. /\ frames[j].at = Top.at /\ Top.at > Len(Imps(f)) /\ Len(Imps(f)) \in Nat
            /\ frames[j].at \in Nat /\ frames[1].at \in Nat
        BY <1>4, <1>5, <3>1, <3>3
      <4>8. QED
        BY <3>1, <4>6, <4>7
    <3>4. QED
      BY <3>2, <3>3
  <2>2. 2..Len(frames') \subseteq DOMAIN frames /\ 2..Len(frames') = 2..Len(frames)
    BY <1>3, <1>4
  <2>3. \A j \in 2..Len(frames') : FileOf(frames[j])' = Root => frames'[j].at <= frames'[1].at
    BY <1>3, <2>1, <2>2
  <2>4. QED
    BY <1>1, <1>2, <2>3 DEF RootOnce
<1>13. Progress'
  <2>1. ASSUME NEW i \in DOMAIN frames, NEW q \in DOMAIN Imps(FileOf(frames[i])),
               q < frames'[i].at
        PROVE  Done(Imps(FileOf(frames[i]))[q])
    <3>1. CASE i = Len(frames)
      BY <1>4, <1>5, <3>1 DEF Range, f
    <3>2. CASE i # Len(frames)
      BY <1>1, <1>4, <2>1, <3>2 DEF Progress
    <3>3. QED
      BY <3>1, <3>2
  <2>2. \A i \in DOMAIN frames' : \A q \in DOMAIN Imps(FileOf(frames[i]))' :
          q < frames'[i].at => Done(Imps(FileOf(frames[i]))[q])'
    BY <1>2, <1>3, <2>1, SameDisk
  <2>3. \A g \in seen' :
          g \notin Descendants(g)' /\ \A i \in Range(Imps(g))' : Done(i)'
    BY <1>1, <1>2, <1>3, SameDisk DEF Progress
  <2>4. \A m \in DOMAIN exports' :
          \E i \in AllImports' : i.alias = m /\ exports'[m] = DirectNames(i)'
    BY <1>1, <1>2, SameDisk DEF Progress
  <2>5. QED
    BY <2>2, <2>3, <2>4 DEF Progress
<1>14. Merged'
  <2>1. ASSUME NEW o \in DOMAIN out, NEW i \in DOMAIN frames, out[o].copy = frames[i].copy
        PROVE  \E q \in DOMAIN Its(Source(o)) :
                 q + Len(Imps(Source(o))) < frames'[i].at /\ out[o].item = Its(Source(o))[q]
    <3>1. PICK q \in DOMAIN Its(Source(o)) :
            q + Len(Imps(Source(o))) < frames[i].at /\ out[o].item = Its(Source(o))[q]
      BY <1>1, <2>1 DEF Merged
    <3>2. Source(o) \in Files
      BY <1>1 DEF Merged, Types, Source
    <3>3. q \in Nat /\ Len(Imps(Source(o))) \in Nat
      BY <1>1, <3>2, FileType DEF Types
    <3>4. QED
      BY <1>4, <3>1, <3>3
  <2>2. ASSUME NEW i \in DOMAIN frames, new.copy = frames[i].copy
        PROVE  \E q \in DOMAIN Its(f) :
                 q + Len(Imps(f)) < frames'[i].at /\ new.item = Its(f)[q]
    <3>1. Len(frames) \in DOMAIN frames /\ new.copy = frames[Len(frames)].copy
      BY <1>4 DEF new
    <3>2. i = Len(frames)
      BY <1>1, <2>2, <3>1, CopiesApart
    <3>3. p + Len(Imps(f)) < frames'[i].at
      BY <1>4, <1>5, <3>2
    <3>4. QED
      BY <1>5, <3>3 DEF new
  <2>3. ASSUME NEW i \in DOMAIN frames, NEW q \in DOMAIN Its(FileOf(frames[i])),
               q + Len(Imps(FileOf(frames[i]))) < frames'[i].at
        PROVE  [copy |-> frames[i].copy, item |-> Its(FileOf(frames[i]))[q]] \in Range(out')
    <3>1. /\ Imps(FileOf(frames[i])) \in Seq(Import) /\ Its(FileOf(frames[i])) \in Seq(Item)
      BY <1>1, Here, FileType DEF Types
    <3>2. q \in Nat \ {0} /\ Len(Imps(FileOf(frames[i]))) \in Nat
      BY <3>1
    <3>3. CASE q + Len(Imps(FileOf(frames[i]))) < frames[i].at
      BY <1>1, <1>9, <3>3 DEF Merged
    <3>4. CASE ~(q + Len(Imps(FileOf(frames[i]))) < frames[i].at)
      <4>1. i = Len(frames)
        BY <1>4, <2>3, <3>4
      <4>2. q = p
        BY <1>4, <1>5, <2>3, <3>2, <3>4, <4>1 DEF f
      <4>3. [copy |-> frames[i].copy, item |-> Its(FileOf(frames[i]))[q]] = new
        BY <1>4, <1>5, <4>1, <4>2 DEF new, f
      <4>4. QED
        BY <1>9, <4>3
    <3>5. QED
      BY <3>3, <3>4
  <2>4. \A g : Its(g)' = Its(g) /\ Imps(g)' = Imps(g)
    BY <1>2, SameDisk
  <2>5. ASSUME NEW o \in DOMAIN out'
        PROVE  /\ out'[o].copy \in DOMAIN parsed'
               /\ out'[o].item \in Range(Its(Source(o)))'
               /\ \A i \in Range(Imps(Source(o)))' : Done(i)'
               /\ \A i \in DOMAIN frames' : out'[o].copy = frames'[i].copy =>
                    \E q \in DOMAIN Its(Source(o))' :
                      /\ q + Len(Imps(Source(o)))' < frames'[i].at
                      /\ out'[o].item = Its(Source(o))'[q]
    <3>1. CASE o \in DOMAIN out
      <4>1. /\ out'[o] = out[o]
            /\ Its(Source(o))' = Its(Source(o)) /\ Imps(Source(o))' = Imps(Source(o))
        BY <1>8, <1>10, <2>4, <3>1
      <4>2. /\ out[o].copy \in DOMAIN parsed /\ out[o].item \in Range(Its(Source(o)))
            /\ \A i \in Range(Imps(Source(o))) : Done(i)
        BY <1>1, <3>1 DEF Merged
      <4>3. QED
        BY <1>2, <1>3, <1>4, <2>1, <3>1, <4>1, <4>2
    <3>2. CASE o \notin DOMAIN out
      <4>1. o = n + 1
        BY <1>8, <3>2
      <4>2. Its(Source(o))' = Its(f) /\ Imps(Source(o))' = Imps(f) /\ out'[o] = new
        BY <1>8, <1>10, <2>4, <4>1
      <4>3. new.copy \in DOMAIN parsed /\ new.item \in Range(Its(f))
        BY <1>5, <1>6 DEF new
      <4>4. QED
        BY <1>2, <1>3, <1>4, <1>5, <2>2, <4>2, <4>3
    <3>3. QED
      BY <3>1, <3>2
  <2>6. \A i \in DOMAIN frames' : \A q \in DOMAIN Its(FileOf(frames[i]))' :
          q + Len(Imps(FileOf(frames[i])))' < frames'[i].at =>
            [copy |-> frames'[i].copy, item |-> Its(FileOf(frames[i]))'[q]] \in Range(out')
    <3>1. \A i \in DOMAIN frames : /\ Its(FileOf(frames[i]))' = Its(FileOf(frames[i]))
                                   /\ Imps(FileOf(frames[i]))' = Imps(FileOf(frames[i]))
      BY <1>3, <2>4
    <3>2. QED
      BY <1>3, <1>4, <2>3, <3>1
  <2>7. \A k \in 2..Len(parsed') : parsed'[k].file \in seen' =>
          \A i \in Range(Its(parsed[k].file))' : [copy |-> k, item |-> i] \in Range(out')
    BY <1>1, <1>2, <1>9, SameDisk DEF Merged
  <2>8. QED
    BY <2>5, <2>6, <2>7 DEF Merged
<1>15. Ordered'
  <2>1. \A o \in DOMAIN out : NameOf(out[o]) # Renamed(Top.copy, item.name)
    BY <1>2 DEF Taken
  <2>2. \A o \in DOMAIN out' : o \in DOMAIN out \/ o = n + 1
    BY <1>8
  <2>3. \A o, q \in DOMAIN out' : NameOf(out[o])' = NameOf(out[q])' => o = q
    <3>1. \A o, q \in DOMAIN out : NameOf(out[o]) = NameOf(out[q]) => o = q
      BY <1>1 DEF Ordered
    <3>2. QED
      BY <1>10, <2>1, <2>2, <3>1
  <2>4. f \notin Descendants(f) /\ \A o \in DOMAIN out : f \notin Descendants(Source(o))
    <3>1. \A o \in DOMAIN out : Source(o) \in Files
      BY <1>1 DEF Merged, Types, Source
    <3>2. \A o \in DOMAIN out : Descendants(Source(o)) \subseteq seen
      BY <1>1, <3>1, DescendantsSeen DEF Merged
    <3>3. Descendants(f) \subseteq seen
      BY <1>1, <1>5, DescendantsSeen
    <3>4. QED
      BY <1>6, <3>2, <3>3
  <2>5. \A g : Descendants(g)' = Descendants(g)
    BY <1>2, SameDisk
  <2>6. \A o, q \in DOMAIN out' : Source(q)' \in Descendants(Source(o))' => q < o
    <3>1. SUFFICES ASSUME NEW o \in DOMAIN out', NEW q \in DOMAIN out',
                          Source(q)' \in Descendants(Source(o))'
                   PROVE  q < o
      OBVIOUS
    <3>2. Source(q)' \in Descendants(Source(o)')
      BY <2>5, <3>1
    <3>3. CASE q = n + 1
      BY <1>10, <2>2, <2>4, <3>2, <3>3
    <3>4. CASE q \in DOMAIN out /\ o = n + 1
      <4>1. q \in Nat /\ q <= n
        BY <1>8, <3>4
      <4>2. QED
        BY <3>4, <4>1
    <3>5. CASE q \in DOMAIN out /\ o \in DOMAIN out
      BY <1>1, <1>10, <3>2, <3>5 DEF Ordered
    <3>6. QED
      BY <2>2, <3>3, <3>4, <3>5
  <2>7. QED
    BY <2>3, <2>6 DEF Ordered
<1>16. Outcome'
  BY <1>2 DEF Outcome, AtItem
<1>17. QED
  BY <1>3, <1>11, <1>12, <1>13, <1>14, <1>15, <1>16 DEF Inv

-----------------------------------------------------------------------------
(* The reading of a file.                                                  *)

\* What has been read is done or being linked.
LEMMA ReadBefore ==
  ASSUME Types, Stack, Copies
  PROVE  /\ \A k \in 2..Len(parsed) : parsed[k].file \in seen \cup Loading
         /\ \A i \in 2..Len(frames) : FileOf(frames[i]) \in Loading
         /\ \A f \in seen : f \in DOMAIN sigs
<1>1. \A i \in 2..Len(frames) : FileOf(frames[i]) \in Loading
  BY DEF Loading
<1>2. \A k \in 2..Len(parsed) : parsed[k].file \in seen \cup Loading
  BY <1>1 DEF Copies, FileOf
<1>3. \A f \in seen : f \in DOMAIN sigs
  BY DEF Copies, Enters
<1>4. QED
  BY <1>1, <1>2, <1>3

LEMMA EnterKeeps ==
  ASSUME Inv, NEW imp, Enter(imp)
  PROVE  Inv'
<1>1. Types /\ Stack /\ Chain /\ RootOnce /\ Copies /\ Progress /\ Merged /\ Ordered
  BY DEF Inv
<1>2. /\ UNCHANGED <<disk, seen, out, exports, status>>
      /\ sigs' = Over([f \in {imp.file} |-> Sig(imp)], sigs)
      /\ AtImport(imp) /\ imp.file \in Files /\ imp.file \notin seen /\ imp.file \notin Loading
      /\ disk[imp.file].parses /\ Selectable(imp)
  BY DEF Enter, First
<1> PICK n, K : n = Len(frames) /\ K = Len(parsed) + 1
  OBVIOUS
<1>3. /\ n \in Nat \ {0} /\ DOMAIN frames = 1..n /\ Top = frames[n]
      /\ \A i \in 1..n : frames[i] \in Frame /\ frames[i].copy \in DOMAIN parsed
      /\ Len(frames') = n + 1 /\ DOMAIN frames' = 1..(n + 1)
      /\ \A i \in 1..n : frames'[i] = frames[i]
      /\ frames'[n + 1] = [copy |-> K, at |-> 1, imp |-> imp]
  <2>1. \A i \in 1..n : frames[i] \in Frame /\ frames[i].copy \in DOMAIN parsed
    BY <1>1, AdvanceIs DEF Types, Stack
  <2>2. QED
    BY <1>1, <2>1, AdvanceIs, EnterIs
<1>4. /\ K \in Nat \ {0, 1} /\ parsed' \in Seq(Range(parsed'))
      /\ DOMAIN parsed = 1..(K - 1) /\ DOMAIN parsed' = 1..K /\ Len(parsed') = K
      /\ \A k \in 1..(K - 1) : parsed'[k] = parsed[k]
      /\ parsed'[K].file = imp.file /\ parsed'[K].names = Renaming(imp, K)
  <2>1. /\ parsed' \in Seq(Range(parsed')) /\ Len(parsed) \in Nat \ {0}
        /\ DOMAIN parsed = 1..Len(parsed)
        /\ Len(parsed') = Len(parsed) + 1 /\ DOMAIN parsed' = 1..(Len(parsed) + 1)
        /\ \A k \in 1..Len(parsed) : parsed'[k] = parsed[k]
        /\ parsed'[Len(parsed) + 1].file = imp.file
        /\ parsed'[Len(parsed) + 1].names = Renaming(imp, Len(parsed) + 1)
    BY <1>1, EnterIs
  <2>2. Len(parsed) = K - 1 /\ K \in Nat \ {0, 1}
    BY <2>1
  <2>3. QED
    BY <2>1, <2>2
<1>5. /\ imp \in Import /\ imp \in AllImports /\ imp.file \in Targets(FileOf(Top))
      /\ Top.at \in DOMAIN Imps(FileOf(Top)) /\ imp = Imps(FileOf(Top))[Top.at]
  BY <1>1, <1>2, Here, ImportHere DEF AtImport
<1>6. /\ \A i \in 1..n : FileOf(frames[i])' = FileOf(frames[i])
      /\ FileOf(frames[n + 1])' = imp.file
  <2>1. \A i \in 1..n : frames[i].copy \in 1..(K - 1)
    BY <1>3, <1>4
  <2>2. \A i \in 1..n : FileOf(frames[i])' = FileOf(frames[i])
    BY <1>3, <1>4, <2>1 DEF FileOf
  <2>3. FileOf(frames[n + 1])' = parsed'[K].file
    BY <1>3 DEF FileOf
  <2>4. QED
    BY <1>4, <2>2, <2>3
<1>7. /\ DOMAIN sigs' = DOMAIN sigs \cup {imp.file} /\ sigs'[imp.file] = Sig(imp)
      /\ \A f \in DOMAIN sigs : f # imp.file => sigs'[f] = sigs[f]
  BY <1>2 DEF Over
<1>8. \A i : Done(i) => Done(i)'
  <2>1. ASSUME NEW i, Done(i)  PROVE Done(i)'
    <3>1. i.file \in seen /\ i.alias \in DOMAIN exports
      BY <2>1 DEF Done
    <3>2. sigs'[i.file] = sigs[i.file]
      BY <1>1, <1>2, <1>7, <3>1, ReadBefore
    <3>3. QED
      BY <1>2, <2>1, <3>1, <3>2, DoneKeep
  <2>2. QED
    BY <2>1
<1>9. /\ \A i, k : k \in 2..(K - 1) /\ Enters(i, k) => Enters(i, k)'
      /\ Enters(imp, K)'
  <2>1. ASSUME NEW i, NEW k \in 2..(K - 1), Enters(i, k)  PROVE Enters(i, k)'
    <3>1. i.file = parsed[k].file /\ i.file \in DOMAIN sigs
      BY <2>1 DEF Enters
    <3>2. k \in 2..Len(parsed) /\ k \in 1..(K - 1)
      BY <1>4, <2>1
    <3>3. parsed[k].file \in seen \cup Loading
      BY <1>1, <3>2, ReadBefore
    <3>4. i.file # imp.file
      BY <1>2, <3>1, <3>3
    <3>5. QED
      BY <1>2, <1>4, <1>7, <2>1, <3>1, <3>2, <3>4, EntersKeep
  <2>2. Enters(imp, K)'
    <3>1. /\ AllImports' = AllImports /\ Selectable(imp)' = Selectable(imp)
          /\ Renaming(imp, K)' = Renaming(imp, K) /\ Sig(imp)' = Sig(imp)
      BY <1>2, SameDisk DEF Sig
    <3>2. QED
      BY <1>2, <1>4, <1>5, <1>7, <3>1 DEF Enters
  <2>3. QED
    BY <2>1, <2>2
<1>10. \A g : Its(g)' = Its(g) /\ Imps(g)' = Imps(g) /\ Descendants(g)' = Descendants(g)
  BY <1>2, SameDisk
<1>11. 1 \in 1..n /\ 2..n \subseteq 1..n /\ 2..(n + 1) = (2..n) \cup {n + 1}
       /\ 1..(n + 1) = (1..n) \cup {n + 1} /\ n + 1 \notin 1..n
       /\ 2..K = (2..(K - 1)) \cup {K} /\ K \notin 1..(K - 1) /\ 2..(K - 1) \subseteq 1..(K - 1)
       /\ K \in Nat
  BY <1>3, <1>4
<1>12. Types'
  <2>1. [copy |-> K, at |-> 1, imp |-> imp] \in Frame
    BY <1>4, <1>5 DEF Frame
  <2>2. frames' \in Seq(Frame)
    BY <1>1, <2>1 DEF Enter, Types
  <2>3. Len(frames') # 0 /\ Len(parsed') # 0
    BY <1>3, <1>4
  <2>4. frames' # <<>> /\ parsed' # <<>>
    BY <2>3
  <2>5. \A k \in 1..K : parsed'[k].file \in Files
    <3>1. \A k \in 1..K : k = K \/ k \in 1..(K - 1)
      BY <1>4
    <3>2. QED
      BY <1>1, <1>2, <1>4, <3>1 DEF Types
  <2>6. DOMAIN sigs' \subseteq Files
    BY <1>1, <1>2, <1>7 DEF Types
  <2>7. QED
    BY <1>1, <1>2, <1>4, <2>2, <2>4, <2>5, <2>6 DEF Types
<1>13. Stack'
  <2>1. \A i \in 2..n : frames[i].copy \in 2..(K - 1)
    BY <1>1, <1>3, <1>4, <1>11 DEF Stack
  <2>2. \A i \in 2..n : /\ frames'[i].copy # 1 /\ FileOf(frames[i])' \notin seen'
                        /\ Enters(frames'[i].imp, frames'[i].copy)
    BY <1>1, <1>2, <1>3, <1>6, <1>11 DEF Stack
  <2>3. \A i \in 2..n : Enters(frames[i].imp, frames[i].copy)'
    BY <1>3, <1>9, <1>11, <2>1, <2>2
  <2>4. frames'[n + 1].copy # 1 /\ FileOf(frames[n + 1])' \notin seen'
    BY <1>2, <1>3, <1>4, <1>6
  <2>5. Enters(frames[n + 1].imp, frames[n + 1].copy)'
    BY <1>3, <1>9
  <2>6. \A i \in 2..(n + 1) : /\ frames'[i].copy # 1 /\ FileOf(frames[i])' \notin seen'
                              /\ Enters(frames[i].imp, frames[i].copy)'
    BY <1>11, <2>2, <2>3, <2>4, <2>5
  <2>7. \A i \in 2..n : FileOf(frames[i])' # FileOf(frames[n + 1])'
    BY <1>1, <1>2, <1>6, <1>11, ReadBefore
  <2>8. \A i, j \in 2..n : FileOf(frames[i])' = FileOf(frames[j])' => i = j
    BY <1>1, <1>6, <1>11 DEF Stack
  <2>9. \A i, j \in 2..(n + 1) : FileOf(frames[i])' = FileOf(frames[j])' => i = j
    BY <1>11, <2>7, <2>8
  <2>10. frames'[1].copy = 1 /\ frames'[1].imp = None
    BY <1>1, <1>3, <1>11 DEF Stack
  <2>11. \A i \in 1..(n + 1) : frames'[i].copy \in DOMAIN parsed'
    <3>1. 1..(K - 1) \subseteq 1..K /\ K \in 1..K
      BY <1>4
    <3>2. frames'[n + 1].copy = K
      BY <1>3
    <3>3. QED
      BY <1>3, <1>4, <1>11, <3>1, <3>2
  <2>12. parsed'[1].file = Root /\ DOMAIN parsed'[1].names = {}
    BY <1>1, <1>4 DEF Stack
  <2>13. QED
    BY <1>3, <2>6, <2>9, <2>10, <2>11, <2>12 DEF Stack
<1>14. Chain'
  <2>1. \A i \in 1..n : i = n \/ i \in 1..(n - 1)
    BY <1>3
  <2>2. \A i \in 1..n : /\ frames'[i].at \in DOMAIN Imps(FileOf(frames[i]))
                        /\ Imps(FileOf(frames[i]))[frames'[i].at] = frames'[i + 1].imp
    <3>1. \A i \in 1..(n - 1) : i \in 1..n /\ i + 1 \in 1..n
      BY <1>3
    <3>2. \A i \in 1..(n - 1) : /\ frames[i].at \in DOMAIN Imps(FileOf(frames[i]))
                                /\ Imps(FileOf(frames[i]))[frames[i].at] = frames[i + 1].imp
      BY <1>1 DEF Chain
    <3>3. frames'[n + 1].imp = imp /\ n \in 1..n
      BY <1>3
    <3>4. QED
      BY <1>3, <1>5, <2>1, <3>1, <3>2, <3>3
  <2>3. \A i \in 1..n : /\ frames'[i].at \in DOMAIN Imps(FileOf(frames[i]))'
                        /\ Imps(FileOf(frames[i]))'[frames'[i].at] = frames'[i + 1].imp
    BY <1>6, <1>10, <2>2
  <2>4. \A i \in 1..n : imp.file \in Descendants(FileOf(frames[i]))
    <3>1. imp.file \in Descendants(FileOf(frames[n]))
      BY <1>3, <1>5, DescendantsTarget
    <3>2. \A i \in 1..(n - 1) : i \in DOMAIN frames /\ n \in DOMAIN frames /\ i < n
      BY <1>3
    <3>3. \A i \in 1..(n - 1) : FileOf(Top) \in Descendants(FileOf(frames[i]))
      BY <1>1, <1>3, <3>2 DEF Chain
    <3>4. \A i \in 1..(n - 1) : imp.file \in Descendants(FileOf(frames[i]))
      BY <1>5, <3>3, DescendantsStep
    <3>5. QED
      BY <2>1, <3>1, <3>4
  <2>5. ASSUME NEW i \in 1..(n + 1), NEW j \in 1..(n + 1), i < j
        PROVE  FileOf(frames[j])' \in Descendants(FileOf(frames[i]))'
    <3>1. i \in 1..n
      BY <1>3, <2>5
    <3>2. CASE j = n + 1
      BY <1>6, <1>10, <2>4, <3>1, <3>2
    <3>3. CASE j \in 1..n
      BY <1>1, <1>3, <1>6, <1>10, <2>5, <3>1, <3>3, SMTT(30) DEF Chain
    <3>4. QED
      BY <1>11, <3>2, <3>3
  <2>6. (n + 1) - 1 = n
    BY <1>3
  <2>7. QED
    BY <1>3, <2>3, <2>5, <2>6 DEF Chain
<1>15. RootOnce'
  <2>1. 1 <= frames[1].at
    BY <1>3, <1>11 DEF Frame
  <2>2. \A j \in 2..n : FileOf(frames[j])' = Root => frames'[j].at <= frames'[1].at
    BY <1>1, <1>3, <1>6, <1>11 DEF RootOnce
  <2>3. frames'[n + 1].at <= frames'[1].at
    BY <1>3, <1>11, <2>1
  <2>4. \A j \in 2..(n + 1) : FileOf(frames[j])' = Root => frames'[j].at <= frames'[1].at
    BY <1>11, <2>2, <2>3
  <2>5. QED
    BY <1>1, <1>2, <1>3, <2>4 DEF RootOnce
<1>16. Copies'
  <2>1. \A k \in 2..(K - 1) :
          /\ \E i \in AllImports : Enters(i, k) /\ (parsed[k].file \in seen => Done(i))
          /\ parsed[k].file \in seen \/ \E i \in 2..n : frames[i].copy = k
          /\ parsed[k].file # imp.file
    BY <1>1, <1>2, <1>4, ReadBefore DEF Copies
  <2>2. AllImports' = AllImports
    BY <1>2, SameDisk
  <2>3. \A k \in 2..(K - 1) :
          \E i \in AllImports' : Enters(i, k)' /\ (parsed'[k].file \in seen' => Done(i)')
    BY <1>2, <1>4, <1>8, <1>9, <1>11, <2>1, <2>2
  <2>4. \E i \in AllImports' : Enters(i, K)' /\ (parsed'[K].file \in seen' => Done(i)')
    BY <1>2, <1>4, <1>5, <1>9, <2>2
  <2>5. \A k \in 2..(K - 1) :
          parsed'[k].file \in seen' \/ \E i \in 2..(n + 1) : frames'[i].copy = k
    BY <1>2, <1>3, <1>4, <1>11, <2>1
  <2>6. \E i \in 2..(n + 1) : frames'[i].copy = K
    BY <1>3, <1>11
  <2>7. \A k, l \in 2..(K - 1) : parsed'[k].file = parsed'[l].file => k = l
    BY <1>1, <1>4, <1>11 DEF Copies
  <2>8. \A k \in 2..(K - 1) : parsed'[k].file # parsed'[K].file
    BY <1>4, <1>11, <2>1
  <2>9. \A f \in seen' : \E k \in 2..K : parsed'[k].file = f
    <3>1. \A f \in seen : \E k \in 2..(K - 1) : parsed[k].file = f
      BY <1>1, <1>4 DEF Copies
    <3>2. QED
      BY <1>2, <1>4, <1>11, <3>1
  <2>10. \A k, l \in 2..K : parsed'[k].file = parsed'[l].file => k = l
    BY <1>11, <2>7, <2>8
  <2>11. \A k \in 2..K :
           /\ \E i \in AllImports' : Enters(i, k)' /\ (parsed'[k].file \in seen' => Done(i)')
           /\ parsed'[k].file \in seen' \/ \E i \in 2..(n + 1) : frames'[i].copy = k
    BY <1>11, <2>3, <2>4, <2>5, <2>6
  <2>12. QED
    BY <1>3, <1>4, <2>9, <2>10, <2>11 DEF Copies
<1>17. Progress'
  <2>1. \A i \in 1..n : \A q \in DOMAIN Imps(FileOf(frames[i]))' :
          q < frames'[i].at => Done(Imps(FileOf(frames[i]))[q])'
    <3>1. \A i \in 1..n : \A q \in DOMAIN Imps(FileOf(frames[i])) :
            q < frames'[i].at => Done(Imps(FileOf(frames[i]))[q])
      BY <1>1, <1>3 DEF Progress
    <3>2. QED
      BY <1>6, <1>8, <1>10, <3>1
  <2>2. \A q \in DOMAIN Imps(FileOf(frames[n + 1]))' : ~(q < frames'[n + 1].at)
    <3>1. Imps(imp.file) \in Seq(Import)
      BY <1>1, <1>2, FileType DEF Types
    <3>2. \A q \in DOMAIN Imps(imp.file) : ~(q < 1)
      BY <3>1
    <3>3. frames'[n + 1].at = 1
      BY <1>3
    <3>4. QED
      BY <1>6, <1>10, <3>2, <3>3
  <2>3. \A g \in seen' :
          g \notin Descendants(g)' /\ \A i \in Range(Imps(g))' : Done(i)'
    BY <1>1, <1>2, <1>8, <1>10 DEF Progress
  <2>4. \A m \in DOMAIN exports' :
          \E i \in AllImports' : i.alias = m /\ exports'[m] = DirectNames(i)'
    BY <1>1, <1>2, SameDisk DEF Progress
  <2>5. \A i \in DOMAIN frames' : \A q \in DOMAIN Imps(FileOf(frames[i]))' :
          q < frames'[i].at => Done(Imps(FileOf(frames[i]))[q])'
    BY <1>3, <1>11, <2>1, <2>2
  <2>6. QED
    BY <2>3, <2>4, <2>5 DEF Progress
<1>18. /\ \A o \in DOMAIN out : /\ Source(o)' = Source(o) /\ NameOf(out[o])' = NameOf(out[o])
                                /\ out[o].copy # K
  <2>1. \A o \in DOMAIN out : out[o].copy \in 1..(K - 1)
    BY <1>1, <1>4 DEF Merged
  <2>2. \A o \in DOMAIN out : Source(o)' = Source(o)
    BY <1>2, <1>4, <2>1 DEF Source
  <2>3. \A o \in DOMAIN out : NameOf(out[o])' = NameOf(out[o])
    BY <1>2, <1>4, <2>1 DEF NameOf, Renamed
  <2>4. \A o \in DOMAIN out : out[o].copy # K
    BY <1>11, <2>1
  <2>5. QED
    BY <2>2, <2>3, <2>4
<1>19. Merged'
  <2>1. ASSUME NEW o \in DOMAIN out
        PROVE  /\ out'[o].copy \in DOMAIN parsed'
               /\ out'[o].item \in Range(Its(Source(o)))'
               /\ \A i \in Range(Imps(Source(o)))' : Done(i)'
               /\ \A i \in DOMAIN frames' : out'[o].copy = frames'[i].copy =>
                    \E q \in DOMAIN Its(Source(o))' :
                      /\ q + Len(Imps(Source(o)))' < frames'[i].at
                      /\ out'[o].item = Its(Source(o))'[q]
    <3>1. /\ Its(Source(o))' = Its(Source(o)) /\ Imps(Source(o))' = Imps(Source(o))
      BY <1>10, <1>18
    <3>2. /\ out[o].copy \in DOMAIN parsed /\ out[o].item \in Range(Its(Source(o)))
          /\ \A i \in Range(Imps(Source(o))) : Done(i)
          /\ \A i \in DOMAIN frames : out[o].copy = frames[i].copy =>
               \E q \in DOMAIN Its(Source(o)) :
                 /\ q + Len(Imps(Source(o))) < frames[i].at
                 /\ out[o].item = Its(Source(o))[q]
      BY <1>1 DEF Merged
    <3>3. out[o].copy \in DOMAIN parsed'
      BY <1>4, <3>2
    <3>4. frames'[n + 1].copy = K
      BY <1>3
    <3>5. \A i \in 1..(n + 1) : out[o].copy = frames'[i].copy =>
            i \in DOMAIN frames /\ frames'[i] = frames[i]
      BY <1>3, <1>11, <1>18, <3>4
    <3>6. QED
      BY <1>2, <1>3, <1>8, <3>1, <3>2, <3>3, <3>5, SMTT(30)
  <2>2. \A i \in 1..n : \A q \in DOMAIN Its(FileOf(frames[i]))' :
          q + Len(Imps(FileOf(frames[i])))' < frames'[i].at =>
            [copy |-> frames'[i].copy, item |-> Its(FileOf(frames[i]))'[q]] \in Range(out')
    <3>1. \A i \in 1..n : \A q \in DOMAIN Its(FileOf(frames[i])) :
            q + Len(Imps(FileOf(frames[i]))) < frames[i].at =>
              [copy |-> frames[i].copy, item |-> Its(FileOf(frames[i]))[q]] \in Range(out)
      BY <1>1, <1>3 DEF Merged
    <3>2. QED
      BY <1>2, <1>3, <1>6, <1>10, <3>1
  <2>3. \A q \in DOMAIN Its(FileOf(frames[n + 1]))' :
          ~(q + Len(Imps(FileOf(frames[n + 1])))' < frames'[n + 1].at)
    <3>1. Its(imp.file) \in Seq(Item) /\ Imps(imp.file) \in Seq(Import)
      BY <1>1, <1>2, FileType DEF Types
    <3>2. \A q \in DOMAIN Its(imp.file) : ~(q + Len(Imps(imp.file)) < 1)
      BY <3>1
    <3>3. frames'[n + 1].at = 1
      BY <1>3
    <3>4. QED
      BY <1>6, <1>10, <3>2, <3>3
  <2>4. \A k \in 2..(K - 1) : parsed'[k].file \in seen' =>
          \A i \in Range(Its(parsed[k].file))' : [copy |-> k, item |-> i] \in Range(out')
    BY <1>1, <1>2, <1>4, <1>10, <1>11 DEF Merged
  <2>5. \A k \in 2..K : parsed'[k].file \in seen' =>
          \A i \in Range(Its(parsed[k].file))' : [copy |-> k, item |-> i] \in Range(out')
    BY <1>2, <1>4, <1>11, <2>4
  <2>6. \A i \in DOMAIN frames' : \A q \in DOMAIN Its(FileOf(frames[i]))' :
          q + Len(Imps(FileOf(frames[i])))' < frames'[i].at =>
            [copy |-> frames'[i].copy, item |-> Its(FileOf(frames[i]))'[q]] \in Range(out')
    BY <1>3, <1>11, <2>2, <2>3
  <2>7. QED
    BY <1>2, <1>4, <2>1, <2>5, <2>6 DEF Merged
<1>20. Ordered'
  BY <1>1, <1>2, <1>10, <1>18 DEF Ordered
<1>21. Outcome'
  BY <1>2 DEF Outcome, AtImport
<1>22. QED
  BY <1>12, <1>13, <1>14, <1>15, <1>16, <1>17, <1>19, <1>20, <1>21 DEF Inv

-----------------------------------------------------------------------------
(* The end of a file.                                                      *)

LEMMA AtEndIs ==
  ASSUME Types, Stack, Progress, Merged, AtEnd
  PROVE  LET f == FileOf(Top)
         IN  /\ \A imp \in Range(Imps(f)) : Done(imp)
             /\ \A item \in Range(Its(f)) : [copy |-> Top.copy, item |-> item] \in Range(out)
             /\ Descendants(f) \subseteq seen
<1> DEFINE f == FileOf(Top)
<1>1. /\ Imps(f) \in Seq(Import) /\ Its(f) \in Seq(Item) /\ f \in Files
      /\ Imports = Imps(f) /\ Items = Its(f)
      /\ Top = frames[Len(frames)] /\ Len(frames) \in DOMAIN frames
  BY Here
<1>2. Top.at \in Nat /\ Top.at > Len(Imps(f)) + Len(Its(f))
  BY <1>1, AdvanceIs DEF AtEnd, Frame
<1>3. /\ \A q \in DOMAIN Imps(f) : q < Top.at
      /\ \A q \in DOMAIN Its(f) : q + Len(Imps(f)) < Top.at
  <2>1. Len(Imps(f)) \in Nat /\ Len(Its(f)) \in Nat
        /\ DOMAIN Imps(f) = 1..Len(Imps(f)) /\ DOMAIN Its(f) = 1..Len(Its(f))
    BY <1>1
  <2>2. QED
    BY <1>2, <2>1
<1>4. \A imp \in Range(Imps(f)) : Done(imp)
  <2>1. \A q \in DOMAIN Imps(f) : Done(Imps(f)[q])
    BY <1>1, <1>3 DEF Progress
  <2>2. QED
    BY <2>1 DEF Range
<1>5. \A item \in Range(Its(f)) : [copy |-> Top.copy, item |-> item] \in Range(out)
  <2>1. \A q \in DOMAIN Its(f) : [copy |-> Top.copy, item |-> Its(f)[q]] \in Range(out)
    BY <1>1, <1>3 DEF Merged
  <2>2. \A item \in Range(Its(f)) : \E q \in DOMAIN Its(f) : item = Its(f)[q]
    BY DEF Range
  <2>3. QED
    BY <2>1, <2>2
<1>6. QED
  BY <1>1, <1>4, <1>5, DescendantsSeen

LEMMA LeaveKeeps ==
  ASSUME Inv, Leave
  PROVE  Inv'
<1>1. Types /\ Stack /\ Chain /\ RootOnce /\ Copies /\ Progress /\ Merged /\ Ordered
  BY DEF Inv
<1> PICK n, imp, f, k :
      n = Len(frames) /\ imp = Top.imp /\ f = FileOf(Top) /\ k = Top.copy
  OBVIOUS
<1>2. /\ UNCHANGED <<disk, parsed, sigs, out, status>>
      /\ seen' = seen \cup {f}
      /\ exports' = Over([m \in {imp.alias} |-> DirectNames(imp)], exports)
      /\ AtEnd /\ n > 1 /\ ~Ambiguous(imp)
  BY DEF Leave
<1>3. /\ n \in Nat \ {0, 1} /\ DOMAIN frames = 1..n /\ Top = frames[n]
      /\ frames' \in Seq(Frame) /\ Len(frames') = n - 1 /\ DOMAIN frames' = 1..(n - 1)
      /\ \A i \in 1..(n - 1) :
           /\ frames'[i].copy = frames[i].copy /\ frames'[i].imp = frames[i].imp
           /\ frames'[i].at = IF i = n - 1 THEN frames[i].at + 1 ELSE frames[i].at
      /\ \A i \in 1..n : frames[i].at \in Nat
  <2>1. \A i \in 1..n : frames[i] \in Frame
    BY <1>1 DEF Types
  <2>2. \A i \in 1..n : frames[i].at \in Nat
    BY <2>1 DEF Frame
  <2>3. /\ frames' \in Seq(Frame) /\ Len(frames') = n - 1
        /\ \A i \in 1..(n - 1) :
             /\ frames'[i].copy = frames[i].copy /\ frames'[i].imp = frames[i].imp
             /\ frames'[i].at = IF i = n - 1 THEN frames[i].at + 1 ELSE frames[i].at
    BY <1>1, <1>2, LeaveIs
  <2>4. DOMAIN frames' = 1..(n - 1)
    BY <2>3
  <2>5. n \in Nat \ {0, 1} /\ DOMAIN frames = 1..n /\ Top = frames[n]
    BY <1>1, <1>2, AdvanceIs
  <2>6. QED
    BY <2>2, <2>3, <2>4, <2>5
<1>4. /\ n \in 2..n /\ n \in 1..n /\ n - 1 \in 1..(n - 1) /\ 1..(n - 1) \subseteq 1..n
      /\ 2..(n - 1) \subseteq 2..n /\ 2..(n - 1) \subseteq 1..(n - 1) /\ 2..n \subseteq 1..n
      /\ n \notin 1..(n - 1) /\ 1 \in 1..(n - 1) /\ (n - 1) + 1 = n
      /\ \A i \in 1..n : i = n \/ i \in 1..(n - 1)
      /\ \A i \in 2..n : i = n \/ i \in 2..(n - 1)
  BY <1>3
<1>5. /\ Enters(imp, k) /\ imp.file = f /\ parsed[k].file = f /\ f \in Files
      /\ k \in DOMAIN parsed /\ k # 1 /\ imp \in Import /\ imp \in AllImports
  <2>1. Enters(imp, k) /\ k \in DOMAIN parsed /\ k # 1
    BY <1>1, <1>3, <1>4 DEF Stack
  <2>2. parsed[k].file = f /\ f \in Files
    BY <1>1, <2>1 DEF FileOf, Types
  <2>3. QED
    BY <2>1, <2>2 DEF Enters
<1>6. /\ \A i \in Range(Imps(f)) : Done(i)
      /\ \A item \in Range(Its(f)) : [copy |-> k, item |-> item] \in Range(out)
      /\ f \notin seen /\ f \notin Descendants(f)
  <2>1. f \notin seen
    BY <1>1, TopNotSeen
  <2>2. QED
    BY <1>1, <1>2, <2>1, AtEndIs
<1>7. /\ DOMAIN exports' = DOMAIN exports \cup {imp.alias}
      /\ exports'[imp.alias] = DirectNames(imp)
      /\ \A m \in DOMAIN exports : exports'[m] = exports[m]
  <2>1. imp.alias \in DOMAIN exports => exports[imp.alias] = DirectNames(imp)
    BY <1>2 DEF Ambiguous
  <2>2. /\ DOMAIN exports' = DOMAIN exports \cup {imp.alias}
        /\ exports'[imp.alias] = DirectNames(imp)
        /\ \A m \in DOMAIN exports : m # imp.alias => exports'[m] = exports[m]
    BY <1>2 DEF Over
  <2>3. QED
    BY <2>1, <2>2
<1>8. (\A i : Done(i) => Done(i)') /\ Done(imp)'
  <2>1. ASSUME NEW i, Done(i)  PROVE Done(i)'
    <3>1. i.alias \in DOMAIN exports
      BY <2>1 DEF Done
    <3>2. QED
      BY <1>2, <1>7, <2>1, <3>1, DoneKeep
  <2>2. DirectNames(imp)' = DirectNames(imp) /\ Sig(imp)' = Sig(imp)
    BY <1>2, SameDisk DEF Sig
  <2>3. sigs[imp.file] = Sig(imp)
    BY <1>5 DEF Enters
  <2>4. Done(imp)'
    BY <1>2, <1>5, <1>7, <2>2, <2>3 DEF Done
  <2>5. QED
    BY <2>1, <2>4
<1>9. \A i, l : Enters(i, l)' = Enters(i, l)
  BY <1>2, SameDisk DEF Enters, Sig
<1>10. \A g : Its(g)' = Its(g) /\ Imps(g)' = Imps(g) /\ Descendants(g)' = Descendants(g)
  BY <1>2, SameDisk
<1>11. \A i \in 1..(n - 1) : FileOf(frames[i])' = FileOf(frames[i])
  BY <1>2, <1>3 DEF FileOf
<1>12. \A i \in 1..(n - 1) :
         /\ frames[i].at \in DOMAIN Imps(FileOf(frames[i]))
         /\ Imps(FileOf(frames[i]))[frames[i].at] = frames[i + 1].imp
  BY <1>1, <1>3 DEF Chain
<1>13. Types'
  <2>1. Len(frames') # 0
    BY <1>3
  <2>2. frames' # <<>>
    BY <2>1
  <2>3. imp.alias \in Modules
    BY <1>5 DEF Import
  <2>4. seen' \subseteq Files /\ DOMAIN exports' \subseteq Modules
    BY <1>1, <1>2, <1>5, <1>7, <2>3 DEF Types
  <2>5. QED
    BY <1>1, <1>2, <1>3, <2>2, <2>4 DEF Types
<1>14. Stack'
  <2>1. \A i \in 2..(n - 1) : FileOf(frames[i]) # f
    BY <1>1, <1>3, <1>4 DEF Stack
  <2>2. \A i \in 2..(n - 1) : /\ frames'[i].copy # 1 /\ FileOf(frames[i])' \notin seen'
                              /\ Enters(frames'[i].imp, frames'[i].copy)
    <3>1. \A i \in 2..n : /\ frames[i].copy # 1 /\ FileOf(frames[i]) \notin seen
                          /\ Enters(frames[i].imp, frames[i].copy)
      BY <1>1 DEF Stack
    <3>2. \A i \in 2..(n - 1) : i \in 2..n /\ i \in 1..(n - 1)
      BY <1>4
    <3>3. QED
      BY <1>2, <1>3, <1>11, <2>1, <3>1, <3>2, ZenonT(30)
  <2>3. \A i \in 2..(n - 1) : Enters(frames[i].imp, frames[i].copy)'
    BY <1>9, <2>2
  <2>4. \A i, j \in 2..(n - 1) : FileOf(frames[i])' = FileOf(frames[j])' => i = j
    BY <1>1, <1>4, <1>11 DEF Stack
  <2>5. frames'[1].copy = 1 /\ frames'[1].imp = None
    BY <1>1, <1>3, <1>4 DEF Stack
  <2>6. \A i \in 1..(n - 1) : frames'[i].copy \in DOMAIN parsed'
    BY <1>1, <1>2, <1>3, <1>4 DEF Stack
  <2>7. parsed'[1].file = Root /\ DOMAIN parsed'[1].names = {}
    BY <1>1, <1>2 DEF Stack
  <2>8. QED
    BY <1>3, <2>2, <2>3, <2>4, <2>5, <2>6, <2>7 DEF Stack
<1>15. Chain'
  <2>1. \A i \in 1..((n - 1) - 1) : i \in 1..(n - 1) /\ i + 1 \in 1..(n - 1) /\ i # n - 1
    BY <1>3
  <2>2. \A i \in 1..((n - 1) - 1) :
          /\ frames'[i].at \in DOMAIN Imps(FileOf(frames[i]))'
          /\ Imps(FileOf(frames[i]))'[frames'[i].at] = frames'[i + 1].imp
    BY <1>3, <1>10, <1>11, <1>12, <2>1, ZenonT(30)
  <2>3. \A i, j \in 1..(n - 1) : i < j => FileOf(frames[j])' \in Descendants(FileOf(frames[i]))'
    <3>1. \A i, j \in 1..n : i < j => FileOf(frames[j]) \in Descendants(FileOf(frames[i]))
      BY <1>1, <1>3 DEF Chain
    <3>2. \A i, j \in 1..(n - 1) :
            i < j => FileOf(frames[j]) \in Descendants(FileOf(frames[i]))
      BY <1>4, <3>1
    <3>3. \A i \in 1..(n - 1) : Descendants(FileOf(frames[i]))' = Descendants(FileOf(frames[i]))
      BY <1>10, <1>11
    <3>4. QED
      BY <1>11, <3>2, <3>3
  <2>4. QED
    BY <1>3, <2>2, <2>3 DEF Chain
<1>16. RootOnce'
  <2>1. FileOf(frames[1]) = Root
    BY <1>1 DEF Stack, FileOf
  <2>2. f # Root
    <3>1. f \in Descendants(Root)
      <4>1. 1 \in 1..n /\ n \in 1..n /\ 1 < n /\ f = FileOf(frames[n])
        BY <1>3
      <4>2. QED
        BY <1>1, <1>3, <2>1, <4>1 DEF Chain
    <3>2. QED
      BY <1>6, <3>1
  <2>3. ASSUME NEW j \in 2..(n - 1), FileOf(frames[j]) = Root
        PROVE  frames'[j].at <= frames'[1].at
    <3>1. /\ frames[j].at <= frames[1].at /\ 1 # n - 1
          /\ frames[j].at \in Nat /\ frames[1].at \in Nat
      BY <1>1, <1>3, <1>4, <2>3, SMTT(30) DEF RootOnce
    <3>2. frames'[1].at = frames[1].at
      BY <1>3, <1>4, <3>1
    <3>3. CASE j # n - 1
      BY <1>3, <1>4, <3>1, <3>2, <3>3
    <3>4. CASE j = n - 1
      <4>1. Imps(Root)[frames[j].at] = imp
        <5>1. Imps(FileOf(frames[j]))[frames[j].at] = frames[j + 1].imp
          BY <1>4, <1>12, <2>3
        <5>2. j + 1 = n
          BY <1>4, <3>4
        <5>3. QED
          BY <1>3, <2>3, <5>1, <5>2
      <4>2. Imps(Root)[frames[1].at] = frames[2].imp
        <5>1. Imps(FileOf(frames[1]))[frames[1].at] = frames[1 + 1].imp
          BY <1>4, <1>12
        <5>2. QED
          BY <2>1, <5>1
      <4>3. 2 \in 2..n /\ 2 # n
        BY <1>3, <3>1
      <4>4. frames[2].imp.file = FileOf(frames[2])
        BY <1>1, <1>3, <4>3 DEF Stack, Enters, FileOf
      <4>5. FileOf(frames[2]) # f
        BY <1>1, <1>3, <1>4, <4>3 DEF Stack
      <4>6. frames[j].at # frames[1].at
        BY <1>5, <4>1, <4>2, <4>4, <4>5
      <4>7. frames'[j].at = frames[j].at + 1
        BY <1>3, <1>4, <3>4
      <4>8. QED
        BY <3>1, <3>2, <4>6, <4>7
    <3>5. QED
      BY <3>3, <3>4
  <2>4. \A j \in 2..(n - 1) : FileOf(frames[j])' = Root => frames'[j].at <= frames'[1].at
    BY <1>4, <1>11, <2>3
  <2>5. Root \notin seen'
    BY <1>1, <1>2, <2>2 DEF RootOnce
  <2>6. QED
    BY <1>3, <2>4, <2>5 DEF RootOnce
<1>17. \A l \in 2..Len(parsed) : parsed[l].file = f => l = k
  <2>1. k \in 2..Len(parsed)
    <3>1. DOMAIN parsed = 1..Len(parsed) /\ Len(parsed) \in Nat
      BY <1>1 DEF Types
    <3>2. QED
      BY <1>5, <3>1
  <2>2. QED
    BY <1>1, <1>5, <2>1 DEF Copies
<1>18. Copies'
  <2>1. ASSUME NEW l \in 2..Len(parsed)
        PROVE  /\ \E i \in AllImports : Enters(i, l)' /\ (parsed[l].file \in seen' => Done(i)')
               /\ parsed[l].file \in seen' \/ \E i \in 2..(n - 1) : frames'[i].copy = l
    <3>1. PICK i \in AllImports : Enters(i, l) /\ (parsed[l].file \in seen => Done(i))
      BY <1>1 DEF Copies
    <3>2. CASE parsed[l].file = f
      <4>1. l = k
        BY <1>17, <3>2
      <4>2. QED
        BY <1>2, <1>5, <1>8, <1>9, <3>2, <4>1
    <3>3. CASE parsed[l].file # f
      <4>1. \E j \in AllImports : Enters(j, l)' /\ (parsed[l].file \in seen' => Done(j)')
        BY <1>2, <1>8, <1>9, <3>1, <3>3
      <4>2. CASE parsed[l].file \in seen
        BY <1>2, <4>1, <4>2
      <4>3. CASE parsed[l].file \notin seen
        <5>1. PICK j \in 2..n : frames[j].copy = l
          BY <1>1, <4>3 DEF Copies
        <5>2. j # n
          BY <1>3, <1>5, <3>3, <5>1
        <5>3. j \in 2..(n - 1) /\ frames'[j].copy = l
          BY <1>3, <1>4, <5>1, <5>2
        <5>4. QED
          BY <4>1, <5>3
      <4>4. QED
        BY <4>2, <4>3
    <3>4. QED
      BY <3>2, <3>3
  <2>2. \A g \in seen' : \E l \in 2..Len(parsed) : parsed[l].file = g
    <3>1. k \in 2..Len(parsed)
      <4>1. DOMAIN parsed = 1..Len(parsed) /\ Len(parsed) \in Nat
        BY <1>1 DEF Types
      <4>2. QED
        BY <1>5, <4>1
    <3>2. QED
      BY <1>1, <1>2, <1>5, <3>1 DEF Copies
  <2>3. AllImports' = AllImports
    BY <1>2, SameDisk
  <2>4. \A l, m \in 2..Len(parsed) : parsed[l].file = parsed[m].file => l = m
    BY <1>1 DEF Copies
  <2>5. QED
    BY <1>2, <1>3, <2>1, <2>2, <2>3, <2>4 DEF Copies
<1>19. Progress'
  <2>1. ASSUME NEW i \in 1..(n - 1), NEW q \in DOMAIN Imps(FileOf(frames[i])),
               q < frames'[i].at
        PROVE  Done(Imps(FileOf(frames[i]))[q])'
    <3>1. CASE q < frames[i].at
      <4>1. Done(Imps(FileOf(frames[i]))[q])
        BY <1>1, <1>3, <1>4, <3>1 DEF Progress
      <4>2. QED
        BY <1>8, <1>10, <1>11, <4>1
    <3>2. CASE ~(q < frames[i].at)
      <4>1. Imps(FileOf(frames[i])) \in Seq(Import)
        BY <1>1, <1>3, <1>4, Here, FileType DEF Types
      <4>2. q \in Nat
        BY <4>1
      <4>3. i = n - 1 /\ q = frames[i].at
        BY <1>3, <1>4, <2>1, <3>2, <4>2
      <4>4. Imps(FileOf(frames[i]))[q] = imp
        BY <1>3, <1>4, <1>12, <4>3
      <4>5. QED
        BY <1>8, <1>10, <1>11, <4>4
    <3>3. QED
      BY <3>1, <3>2
  <2>2. \A i \in 1..(n - 1) : \A q \in DOMAIN Imps(FileOf(frames[i]))' :
          q < frames'[i].at => Done(Imps(FileOf(frames[i]))[q])'
    BY <1>10, <1>11, <2>1
  <2>3. \A g \in seen' :
          g \notin Descendants(g)' /\ \A i \in Range(Imps(g))' : Done(i)'
    BY <1>1, <1>2, <1>6, <1>8, <1>10 DEF Progress
  <2>4. \A m \in DOMAIN exports' :
          \E i \in AllImports : i.alias = m /\ exports'[m] = DirectNames(i)
    BY <1>1, <1>5, <1>7 DEF Progress
  <2>5. \A m \in DOMAIN exports' :
          \E i \in AllImports' : i.alias = m /\ exports'[m] = DirectNames(i)'
    BY <1>2, <2>4, SameDisk
  <2>6. QED
    BY <1>3, <2>2, <2>3, <2>5 DEF Progress
<1>20. \A o \in DOMAIN out : Source(o)' = Source(o) /\ NameOf(out[o])' = NameOf(out[o])
  BY <1>2 DEF Source, NameOf, Renamed
<1>21. Merged'
  <2>1. ASSUME NEW o \in DOMAIN out
        PROVE  /\ out'[o].copy \in DOMAIN parsed'
               /\ out'[o].item \in Range(Its(Source(o)))'
               /\ \A i \in Range(Imps(Source(o)))' : Done(i)'
               /\ \A i \in DOMAIN frames' : out'[o].copy = frames'[i].copy =>
                    \E q \in DOMAIN Its(Source(o))' :
                      /\ q + Len(Imps(Source(o)))' < frames'[i].at
                      /\ out'[o].item = Its(Source(o))'[q]
    <3>1. /\ Its(Source(o))' = Its(Source(o)) /\ Imps(Source(o))' = Imps(Source(o))
      BY <1>10, <1>20
    <3>2. /\ out[o].copy \in DOMAIN parsed /\ out[o].item \in Range(Its(Source(o)))
          /\ \A i \in Range(Imps(Source(o))) : Done(i)
      BY <1>1 DEF Merged
    <3>3. ASSUME NEW i \in 1..(n - 1), out[o].copy = frames[i].copy
          PROVE  \E q \in DOMAIN Its(Source(o)) :
                   /\ q + Len(Imps(Source(o))) < frames'[i].at
                   /\ out[o].item = Its(Source(o))[q]
      <4>1. PICK q \in DOMAIN Its(Source(o)) :
              q + Len(Imps(Source(o))) < frames[i].at /\ out[o].item = Its(Source(o))[q]
        BY <1>1, <1>3, <1>4, <3>3 DEF Merged
      <4>2. Source(o) \in Files
        BY <1>1, <3>2 DEF Types, Source
      <4>3. q \in Nat /\ Len(Imps(Source(o))) \in Nat
        BY <1>1, <4>2, FileType DEF Types
      <4>4. QED
        BY <1>3, <1>4, <4>1, <4>3
    <3>4. \A i \in Range(Imps(Source(o)))' : Done(i)'
      BY <1>8, <3>1, <3>2
    <3>5. \A i \in DOMAIN frames' : out'[o].copy = frames'[i].copy =>
            \E q \in DOMAIN Its(Source(o))' :
              q + Len(Imps(Source(o)))' < frames'[i].at /\ out'[o].item = Its(Source(o))'[q]
      BY <1>2, <1>3, <3>1, <3>3
    <3>6. QED
      BY <1>2, <3>1, <3>2, <3>4, <3>5
  <2>2. ASSUME NEW i \in 1..(n - 1), NEW q \in DOMAIN Its(FileOf(frames[i])),
               q + Len(Imps(FileOf(frames[i]))) < frames'[i].at
        PROVE  [copy |-> frames[i].copy, item |-> Its(FileOf(frames[i]))[q]] \in Range(out)
    <3>1. /\ Imps(FileOf(frames[i])) \in Seq(Import) /\ Its(FileOf(frames[i])) \in Seq(Item)
      BY <1>1, <1>3, <1>4, Here, FileType DEF Types
    <3>2. q \in Nat \ {0} /\ Len(Imps(FileOf(frames[i]))) \in Nat
      BY <3>1
    <3>3. frames[i].at <= Len(Imps(FileOf(frames[i])))
      BY <1>12, <3>1
    <3>4. q + Len(Imps(FileOf(frames[i]))) < frames[i].at
      BY <1>3, <1>4, <2>2, <3>2, <3>3
    <3>5. QED
      BY <1>1, <1>3, <1>4, <3>4 DEF Merged
  <2>3. \A i \in 1..(n - 1) : \A q \in DOMAIN Its(FileOf(frames[i]))' :
          q + Len(Imps(FileOf(frames[i])))' < frames'[i].at =>
            [copy |-> frames'[i].copy, item |-> Its(FileOf(frames[i]))'[q]] \in Range(out')
    <3>1. \A i \in 1..(n - 1) : /\ Its(FileOf(frames[i]))' = Its(FileOf(frames[i]))
                                /\ Imps(FileOf(frames[i]))' = Imps(FileOf(frames[i]))
      BY <1>10, <1>11
    <3>2. QED
      BY <1>2, <1>3, <2>2, <3>1
  <2>4. \A l \in 2..Len(parsed) : parsed[l].file \in seen' =>
          \A i \in Range(Its(parsed[l].file)) : [copy |-> l, item |-> i] \in Range(out)
    BY <1>1, <1>2, <1>6, <1>17 DEF Merged
  <2>5. \A l \in 2..Len(parsed') : parsed'[l].file \in seen' =>
          \A i \in Range(Its(parsed[l].file))' : [copy |-> l, item |-> i] \in Range(out')
    BY <1>2, <1>10, <2>4
  <2>6. QED
    BY <1>2, <1>3, <2>1, <2>3, <2>5 DEF Merged
<1>22. Ordered'
  BY <1>1, <1>2, <1>10, <1>20 DEF Ordered
<1>23. Outcome'
  BY <1>2 DEF Outcome, AtEnd
<1>24. QED
  BY <1>13, <1>14, <1>15, <1>16, <1>18, <1>19, <1>21, <1>22, <1>23 DEF Inv

-----------------------------------------------------------------------------
(* What is refused is not well formed.                                     *)

LEMMA SameKeeps ==
  ASSUME Inv, UNCHANGED <<disk, parsed, frames, seen, sigs, out, exports>>
  PROVE  /\ Stack' /\ Chain' /\ RootOnce' /\ Copies' /\ Progress' /\ Merged' /\ Ordered'
         /\ (status' \in {"linking", "linked", "unresolved", "divergent", "cyclic",
                          "unparsed", "unselectable", "conflict", "alias"} => Types')
<1>1. Types /\ Stack /\ Chain /\ RootOnce /\ Copies /\ Progress /\ Merged /\ Ordered
  BY DEF Inv
<1>2. /\ \A g : Its(g)' = Its(g) /\ Imps(g)' = Imps(g) /\ Descendants(g)' = Descendants(g)
      /\ \A i : DirectNames(i)' = DirectNames(i)
      /\ AllImports' = AllImports
  BY SameDisk
<1>3. /\ \A i : Done(i)' = Done(i)
      /\ \A i, k : Enters(i, k)' = Enters(i, k)
  BY SameDisk DEF Done, Enters, Sig
<1>4. /\ \A i : FileOf(frames[i])' = FileOf(frames[i])
      /\ \A o : Source(o)' = Source(o) /\ NameOf(out[o])' = NameOf(out[o])
  BY DEF FileOf, Source, NameOf, Renamed
<1>5. Stack'
  BY <1>1, <1>3, <1>4 DEF Stack
<1>6. Chain' /\ RootOnce'
  BY <1>1, <1>2, <1>4 DEF Chain, RootOnce
<1>7. Copies'
  BY <1>1, <1>2, <1>3 DEF Copies
<1>8. Progress'
  BY <1>1, <1>2, <1>3, <1>4 DEF Progress
<1>9. Merged'
  BY <1>1, <1>2, <1>3, <1>4 DEF Merged
<1>10. Ordered'
  BY <1>1, <1>2, <1>4 DEF Ordered
<1>11. status' \in {"linking", "linked", "unresolved", "divergent", "cyclic",
                    "unparsed", "unselectable", "conflict", "alias"} => Types'
  BY <1>1 DEF Types
<1>12. QED
  BY <1>5, <1>6, <1>7, <1>8, <1>9, <1>10, <1>11

LEMMA RefuseKeeps ==
  ASSUME Inv, ~WellFormed, NEW why, Refuse(why),
         why \in {"unresolved", "divergent", "cyclic", "unparsed", "unselectable",
                  "conflict", "alias"}
  PROVE  Inv'
<1>1. UNCHANGED <<disk, parsed, frames, seen, sigs, out, exports>> /\ status' = why
  BY DEF Refuse
<1>2. ~WellFormed'
  BY <1>1, SameDisk
<1>3. status' # "linked"
  BY <1>1
<1>4. Outcome'
  BY <1>2, <1>3 DEF Outcome
<1>5. QED
  BY <1>1, <1>4, SameKeeps DEF Inv

LEMMA DivergesWrong ==
  ASSUME Inv, NEW imp, Diverges(imp)
  PROVE  ~WellFormed
<1>1. /\ imp \in AllImports /\ imp.file \in seen /\ sigs[imp.file] # Sig(imp) /\ Types /\ Copies
  BY ImportHere DEF Inv, Diverges
<1>2. PICK k \in 2..Len(parsed) : parsed[k].file = imp.file
  BY <1>1 DEF Copies
<1>3. PICK i \in AllImports : Enters(i, k)
  BY <1>1 DEF Copies
<1>4. i.file = imp.file /\ i # imp
  BY <1>1, <1>2, <1>3 DEF Enters
<1>5. QED
  BY <1>1, <1>4 DEF WellFormed

LEMMA IsCyclicWrong ==
  ASSUME Inv, NEW imp, IsCyclic(imp)
  PROVE  ~WellFormed
<1>1. /\ Types /\ Stack /\ Chain /\ AtImport(imp) /\ imp.file \in Loading
  BY DEF Inv, IsCyclic
<1>2. PICK j \in 2..Len(frames) : imp.file = FileOf(frames[j])
  BY <1>1 DEF Loading
<1>3. /\ Len(frames) \in Nat /\ DOMAIN frames = 1..Len(frames) /\ Top = frames[Len(frames)]
  BY <1>1, AdvanceIs
<1>4. /\ j \in DOMAIN frames /\ Len(frames) \in DOMAIN frames
      /\ (j = Len(frames) \/ j < Len(frames))
  <2>1. \A n \in Nat : \A i \in 2..n : i \in 1..n /\ n \in 1..n /\ (i = n \/ i < n)
    OBVIOUS
  <2>2. QED
    BY <1>3, <2>1
<1>5. imp.file \in Files
  BY <1>1, <1>2, <1>4, Here
<1>6. imp.file \in Reached /\ imp.file \in Targets(FileOf(Top))
  BY <1>1, <1>5, ImportHere
<1>7. imp.file \in Descendants(imp.file)
  <2>1. CASE j = Len(frames)
    BY <1>2, <1>3, <1>6, <2>1, DescendantsTarget
  <2>2. CASE j < Len(frames)
    <3>1. FileOf(Top) \in Descendants(imp.file)
      BY <1>1, <1>2, <1>3, <1>4, <2>2 DEF Chain
    <3>2. QED
      BY <1>6, <3>1, DescendantsStep
  <2>3. QED
    BY <1>4, <2>1, <2>2
<1>8. QED
  BY <1>6, <1>7 DEF WellFormed

LEMMA ClashesWrong ==
  ASSUME Inv, Clashes
  PROVE  ~WellFormed
<1>1. /\ Types /\ Stack /\ Progress /\ Len(frames) > 1 /\ Ambiguous(Top.imp)
  BY DEF Inv, Clashes
<1>2. Len(frames) \in 2..Len(frames) /\ Top = frames[Len(frames)]
  BY <1>1, AdvanceIs
<1>3. Top.imp \in AllImports
  BY <1>1, <1>2 DEF Stack, Enters
<1>4. PICK i \in AllImports : i.alias = Top.imp.alias /\ exports[Top.imp.alias] = DirectNames(i)
  BY <1>1 DEF Progress, Ambiguous
<1>5. DirectNames(i) # DirectNames(Top.imp)
  BY <1>1, <1>4 DEF Ambiguous
<1>6. QED
  BY <1>3, <1>4, <1>5 DEF WellFormed

\* The copies of a project of which the imports of each file agree.
OneEach == \A i, j \in AllImports : i.file = j.file => i = j
RootOut == \A k \in 2..Len(parsed) : parsed[k].file # Root

\* A name after linking, and what becomes of it without regard to the order, differ
\* in what tells the files apart.
LEMMA RenamedIs ==
  ASSUME Types, Stack, Copies, OneEach, RootOut, NEW k \in DOMAIN parsed, NEW n
  PROVE  LET f == parsed[k].file
         IN  \/ Renamed(k, n) = Final(f, n) /\ \E x : Final(f, n) = <<"plain", x>>
             \/ Renamed(k, n) = <<"private", k, n>> /\ Final(f, n) = <<"private", f, n>>
             \/ Renamed(k, n) = <<"hidden", k, n>> /\ Final(f, n) = <<"hidden", f, n>>
<1> DEFINE f == parsed[k].file
<1>1. CASE k = 1
  <2>1. f = Root /\ DOMAIN parsed[k].names = {}
    BY <1>1 DEF Stack
  <2>2. Renamed(k, n) = <<"plain", n>> /\ Final(f, n) = <<"plain", n>>
    BY <2>1 DEF Renamed, Final
  <2>3. QED
    BY <2>2
<1>2. CASE k # 1
  <2>1. k \in 2..Len(parsed)
    <3>1. DOMAIN parsed = 1..Len(parsed) /\ Len(parsed) \in Nat
      BY DEF Types
    <3>2. QED
      BY <1>2, <3>1
  <2>2. PICK imp \in AllImports : Enters(imp, k)
    BY <2>1 DEF Copies
  <2>3. imp.file = f /\ f # Root /\ parsed[k].names = Renaming(imp, k)
    BY <2>1, <2>2 DEF Enters, RootOut
  <2>4. (CHOOSE i \in AllImports : i.file = f) = imp
    BY <2>3 DEF OneEach
  <2>5. Final(f, n) = IF n \notin DOMAIN Renaming(imp, f) THEN <<"plain", n>>
                      ELSE Renaming(imp, f)[n]
    BY <2>3, <2>4 DEF Final
  <2>6. Renamed(k, n) = IF n \notin DOMAIN Renaming(imp, k) THEN <<"plain", n>>
                        ELSE Renaming(imp, k)[n]
    BY <2>3 DEF Renamed
  <2> HIDE DEF f
  <2>7. DOMAIN Renaming(imp, f) = Changed(imp) /\ DOMAIN Renaming(imp, k) = Changed(imp)
    BY RenamingIs
  <2>8. CASE n \notin Changed(imp)
    BY <2>5, <2>6, <2>7, <2>8 DEF f
  <2>9. CASE n \in Changed(imp) /\ n \in Privates(imp.file)
    <3>1. /\ Renaming(imp, f)[n] = <<"private", f, n>>
          /\ Renaming(imp, k)[n] = <<"private", k, n>>
      BY <2>9, RenamingIs
    <3>2. QED
      BY <2>5, <2>6, <2>7, <2>9, <3>1 DEF f
  <2>10. CASE n \in Changed(imp) /\ n \notin Privates(imp.file) /\ n \in Selected(imp)
    <3>1. /\ Renaming(imp, f)[n] = <<"plain", Alias(imp, n)>>
          /\ Renaming(imp, k)[n] = <<"plain", Alias(imp, n)>>
      BY <2>10, RenamingIs
    <3>2. QED
      BY <2>5, <2>6, <2>7, <2>10, <3>1 DEF f
  <2>11. CASE n \in Changed(imp) /\ n \notin Privates(imp.file) /\ n \notin Selected(imp)
    <3>1. /\ Renaming(imp, f)[n] = <<"hidden", f, n>>
          /\ Renaming(imp, k)[n] = <<"hidden", k, n>>
      BY <2>11, RenamingIs, ZenonT(30)
    <3>2. QED
      BY <2>5, <2>6, <2>7, <2>11, <3>1 DEF f
  <2>12. QED
    BY <2>8, <2>9, <2>10, <2>11
<1>3. QED
  BY <1>1, <1>2

\* So two names are one after linking if and only if they are one without regard to
\* the order.
LEMMA RenamedAsFinal ==
  ASSUME Types, Stack, Copies, OneEach, RootOut, NEW k \in DOMAIN parsed,
         NEW l \in DOMAIN parsed, NEW m, NEW n
  PROVE  /\ Renamed(k, m) = Renamed(l, n) <=>
              Final(parsed[k].file, m) = Final(parsed[l].file, n)
         /\ parsed[k].file = parsed[l].file => k = l
<1>1. parsed[k].file = parsed[l].file => k = l
  <2>1. \A j \in DOMAIN parsed : j = 1 \/ j \in 2..Len(parsed)
    BY DEF Types
  <2>2. parsed[1].file = Root
    BY DEF Stack
  <2>3. QED
    BY <2>1, <2>2 DEF Copies, RootOut
<1> DEFINE f == parsed[k].file
           g == parsed[l].file
<1> HIDE DEF f, g
<1>2. \/ Renamed(k, m) = Final(f, m) /\ \E x : Final(f, m) = <<"plain", x>>
      \/ Renamed(k, m) = <<"private", k, m>> /\ Final(f, m) = <<"private", f, m>>
      \/ Renamed(k, m) = <<"hidden", k, m>> /\ Final(f, m) = <<"hidden", f, m>>
  BY RenamedIs DEF f
<1>3. \/ Renamed(l, n) = Final(g, n) /\ \E x : Final(g, n) = <<"plain", x>>
      \/ Renamed(l, n) = <<"private", l, n>> /\ Final(g, n) = <<"private", g, n>>
      \/ Renamed(l, n) = <<"hidden", l, n>> /\ Final(g, n) = <<"hidden", g, n>>
  BY RenamedIs DEF g
<1>4. f = g <=> k = l
  BY <1>1 DEF f, g
<1>5. /\ \A x, y, z : <<"plain", x>> # <<"private", y, z>> /\ <<"plain", x>> # <<"hidden", y, z>>
      /\ \A w, x, y, z : <<"private", w, x>> # <<"hidden", y, z>>
      /\ \A w, x, y, z : <<"private", w, x>> = <<"private", y, z>> <=> w = y /\ x = z
      /\ \A w, x, y, z : <<"hidden", w, x>> = <<"hidden", y, z>> <=> w = y /\ x = z
  OBVIOUS
<1>6. Renamed(k, m) = Renamed(l, n) <=> Final(f, m) = Final(g, n)
  BY <1>2, <1>3, <1>4, <1>5
<1>7. QED
  BY <1>1, <1>6 DEF f, g

LEMMA ConflictsWrong ==
  ASSUME Inv, NEW item, Conflicts(item)
  PROVE  ~WellFormed
<1> SUFFICES ASSUME WellFormed PROVE FALSE
  OBVIOUS
<1> DEFINE f == FileOf(Top)
           p == Top.at - Len(Imps(f))
<1>1. Types /\ Stack /\ Chain /\ Copies /\ Progress /\ Merged /\ AtItem(item)
  BY DEF Inv, Conflicts
<1>2. PICK o \in DOMAIN out : NameOf(out[o]) = Renamed(Top.copy, item.name)
  BY DEF Conflicts, Taken
<1>3. /\ f \in Files /\ Top.copy \in DOMAIN parsed /\ f = parsed[Top.copy].file
      /\ Len(Imps(f)) \in Nat /\ Its(f) \in Seq(Item)
      /\ Top = frames[Len(frames)] /\ Len(frames) \in DOMAIN frames
  BY <1>1, Here DEF Stack, FileOf
<1>4. /\ p \in Nat \ {0} /\ Top.at = p + Len(Imps(f)) /\ p \in DOMAIN Its(f)
      /\ item = Its(f)[p]
  BY <1>1, ItemHere
<1> HIDE DEF p
<1>5. OneEach
  BY DEF OneEach, WellFormed
<1>6. RootOut
  <2>1. SUFFICES ASSUME NEW k \in 2..Len(parsed), parsed[k].file = Root PROVE FALSE
    BY DEF RootOut
  <2>2. PICK imp \in AllImports : Enters(imp, k)
    BY <1>1 DEF Copies
  <2>3. imp.file = Root /\ imp.file \in Files
    BY <2>1, <2>2, ProjectsAssumption DEF Enters
  <2>4. PICK g \in Reached : imp \in Range(Imps(g))
    BY <2>2 DEF AllImports, Imps
  <2>5. Root \in Targets(g)
    BY <2>3, <2>4, ImportTarget
  <2>6. Root \in Descendants(Root)
    BY <2>4, <2>5, DescendantsTarget, DescendantsStep DEF Reached
  <2>7. QED
    BY <2>6 DEF WellFormed, Reached
<1>7. out[o].copy \in DOMAIN parsed /\ out[o].item \in Range(Its(Source(o)))
  BY <1>1 DEF Merged
<1>8. \A k \in DOMAIN parsed : parsed[k].file \in Reached
  <2>1. \A k \in DOMAIN parsed : k = 1 \/ k \in 2..Len(parsed)
    BY <1>1 DEF Types
  <2>2. parsed[1].file = Root
    BY <1>1 DEF Stack
  <2>3. \A k \in 2..Len(parsed) : parsed[k].file \in Reached
    <3>1. SUFFICES ASSUME NEW k \in 2..Len(parsed) PROVE parsed[k].file \in Reached
      OBVIOUS
    <3>2. PICK imp \in AllImports : Enters(imp, k)
      BY <1>1 DEF Copies
    <3>3. imp.file = parsed[k].file /\ k \in DOMAIN parsed
      BY <1>1, <3>2 DEF Enters, Types
    <3>4. parsed[k].file \in Files
      BY <1>1, <3>3 DEF Types
    <3>5. QED
      BY <3>3, <3>4, AllImportsReach
  <2>4. QED
    BY <2>1, <2>2, <2>3 DEF Reached
<1>9. /\ item \in Range(Its(f)) /\ item.name \in DeclaredBy(disk[f].items)
      /\ out[o].item.name \in DeclaredBy(disk[Source(o)].items)
  BY <1>3, <1>4, <1>7 DEF DeclaredBy, Range, Its
<1>10. Source(o) = parsed[out[o].copy].file
  BY DEF Source
<1>11. Final(f, item.name) = Final(Source(o), out[o].item.name)
  BY <1>1, <1>2, <1>3, <1>5, <1>6, <1>7, <1>10, RenamedAsFinal DEF NameOf
<1>12. f = Source(o) /\ item.name = out[o].item.name
  <2>1. f \in Reached /\ Source(o) \in Reached
    BY <1>3, <1>7, <1>8, <1>10
  <2>2. QED
    BY <1>9, <1>11, <2>1 DEF WellFormed
<1>13. out[o].copy = Top.copy
  BY <1>1, <1>3, <1>5, <1>6, <1>7, <1>10, <1>12, RenamedAsFinal
<1>14. PICK q \in DOMAIN Its(f) : q + Len(Imps(f)) < Top.at /\ out[o].item = Its(f)[q]
  BY <1>1, <1>3, <1>12, <1>13, ZenonT(30) DEF Merged
<1>15. q = p
  <2>1. disk \in UNION Projects
    BY <1>1 DEF Types
  <2>2. \A i, j \in DOMAIN disk[f].items :
          disk[f].items[i].name = disk[f].items[j].name => i = j
    BY <1>3, <2>1, ProjectsAssumption
  <2>3. p \in DOMAIN disk[f].items /\ q \in DOMAIN disk[f].items
    BY <1>4, <1>14 DEF Its
  <2>4. disk[f].items[p].name = disk[f].items[q].name
    BY <1>4, <1>12, <1>14 DEF Its
  <2>5. QED
    BY <2>2, <2>3, <2>4
<1>16. QED
  BY <1>3, <1>4, <1>14, <1>15

-----------------------------------------------------------------------------
(* The invariant holds.                                                    *)

LEMMA InitInv == ASSUME Init PROVE Inv
<1>1. /\ disk \in UNION Projects /\ parsed = <<[file |-> Root, names |-> [n \in {} |-> <<>>]]>>
      /\ frames = <<[copy |-> 1, at |-> 1, imp |-> None]>>
      /\ seen = {} /\ DOMAIN sigs = {} /\ out = <<>> /\ DOMAIN exports = {}
      /\ status = "linking"
  BY DEF Init
<1>2. /\ Len(parsed) = 1 /\ DOMAIN parsed = {1} /\ parsed[1].file = Root
      /\ DOMAIN parsed[1].names = {}
      /\ Len(frames) = 1 /\ DOMAIN frames = {1} /\ 2..1 = {} /\ 1..(1 - 1) = {}
      /\ frames[1].copy = 1 /\ frames[1].at = 1 /\ frames[1].imp = None
      /\ DOMAIN out = {} /\ FileOf(frames[1]) = Root
  BY <1>1 DEF FileOf
<1>3. Types
  <2>1. parsed # <<>> /\ frames # <<>>
    BY <1>2
  <2>2. [copy |-> 1, at |-> 1, imp |-> None] \in Frame
    BY DEF Frame
  <2>3. frames \in Seq(Frame)
    BY <1>1, <2>2
  <2>4. parsed \in Seq(Range(parsed))
    BY <1>1 DEF Range
  <2>5. out \in Seq(Entry) /\ DOMAIN sigs \subseteq Files /\ DOMAIN exports \subseteq Modules
    BY <1>1
  <2>6. QED
    BY <1>1, <1>2, <2>1, <2>3, <2>4, <2>5, ProjectsAssumption DEF Types
<1>4. Stack
  BY <1>2 DEF Stack
<1>5. Chain /\ RootOnce /\ Copies
  BY <1>1, <1>2 DEF Chain, RootOnce, Copies
<1>6. Imps(Root) \in Seq(Import) /\ Its(Root) \in Seq(Item)
  BY <1>1, FileType, ProjectsAssumption
<1>7. Progress
  <2>1. \A q \in DOMAIN Imps(Root) : ~(q < 1)
    BY <1>6
  <2>2. QED
    BY <1>1, <1>2, <2>1 DEF Progress
<1>8. Merged
  <2>1. \A q \in DOMAIN Its(Root) : ~(q + Len(Imps(Root)) < 1)
    BY <1>6
  <2>2. QED
    BY <1>1, <1>2, <2>1 DEF Merged
<1>9. Ordered /\ Outcome
  BY <1>1, <1>2 DEF Ordered, Outcome
<1>10. QED
  BY <1>3, <1>4, <1>5, <1>7, <1>8, <1>9 DEF Inv

LEMMA FinishKeeps == ASSUME Inv, Finish PROVE Inv'
<1>1. /\ UNCHANGED <<disk, parsed, frames, seen, sigs, out, exports>> /\ status' = "linked"
      /\ AtEnd /\ Len(frames) = 1 /\ Types /\ Stack
  BY DEF Finish, Inv
<1>2. Top = frames[1] /\ FileOf(Top) = Root
  BY <1>1, AdvanceIs DEF Stack, FileOf
<1>3. frames[1].at > Len(Imps(Root)) + Len(Its(Root))
  BY <1>1, <1>2, Here DEF AtEnd
<1>4. Outcome'
  BY <1>1, <1>3, SameDisk DEF Outcome
<1>5. QED
  BY <1>1, <1>4, SameKeeps DEF Inv

\* Whatever the project, what is linked so far is what the order asks.
THEOREM Invariance == Spec => []Inv
<1>1. Init => Inv
  BY InitInv
<1>2. Inv /\ [Next]_vars => Inv'
  <2> SUFFICES ASSUME Inv, [Next]_vars PROVE Inv'
    OBVIOUS
  <2>1. ASSUME NEW imp, LinkImport(imp)  PROVE Inv'
    <3>1. CASE CannotResolve(imp)
      <4>1. imp \in AllImports /\ imp.file = Missing /\ Refuse("unresolved")
        BY <3>1, ImportHere DEF CannotResolve, Inv
      <4>2. QED
        BY <4>1, RefuseKeeps DEF WellFormed
    <3>2. CASE Again(imp)
      BY <3>2, AgainKeeps
    <3>3. CASE Diverges(imp)
      BY <3>3, DivergesWrong, RefuseKeeps DEF Diverges
    <3>4. CASE IsCyclic(imp)
      BY <3>4, IsCyclicWrong, RefuseKeeps DEF IsCyclic
    <3>5. CASE CannotParse(imp)
      <4>1. imp \in AllImports /\ ~disk[imp.file].parses /\ Refuse("unparsed")
        BY <3>5, ImportHere DEF CannotParse, First, Inv
      <4>2. QED
        BY <4>1, RefuseKeeps DEF WellFormed
    <3>6. CASE CannotSelect(imp)
      <4>1. imp \in AllImports /\ ~Selectable(imp) /\ Refuse("unselectable")
        BY <3>6, ImportHere DEF CannotSelect, First, Inv
      <4>2. QED
        BY <4>1, RefuseKeeps DEF WellFormed
    <3>7. CASE Enter(imp)
      BY <3>7, EnterKeeps
    <3>8. QED
      BY <2>1, <3>1, <3>2, <3>3, <3>4, <3>5, <3>6, <3>7 DEF LinkImport
  <2>2. ASSUME NEW item, Emit(item) \/ Conflicts(item)  PROVE Inv'
    <3>1. CASE Emit(item)
      BY <3>1, EmitKeeps
    <3>2. CASE Conflicts(item)
      BY <3>2, ConflictsWrong, RefuseKeeps DEF Conflicts
    <3>3. QED
      BY <2>2, <3>1, <3>2
  <2>3. CASE Leave
    BY <2>3, LeaveKeeps
  <2>4. CASE Clashes
    BY <2>4, ClashesWrong, RefuseKeeps DEF Clashes
  <2>5. CASE Finish
    BY <2>5, FinishKeeps
  <2>6. CASE UNCHANGED vars
    <3>1. Outcome'
      BY <2>6, SameDisk DEF vars, Inv, Outcome
    <3>2. status' \in {"linking", "linked", "unresolved", "divergent", "cyclic", "unparsed",
                       "unselectable", "conflict", "alias"}
      BY <2>6 DEF vars, Inv, Types
    <3>3. QED
      BY <2>6, <3>1, <3>2, SameKeeps DEF vars, Inv
  <2>7. QED
    BY <2>1, <2>2, <2>3, <2>4, <2>5, <2>6 DEF Next, Ended
<1>3. QED
  BY <1>1, <1>2, PTL DEF Spec

\* Each file being linked is there once, under a chain of imports that leads to it.
THEOREM TypeCorrect == Spec => []TypeOK
<1>1. Inv => TypeOK
  <2> SUFFICES ASSUME Inv PROVE TypeOK
    OBVIOUS
  <2>1. Types /\ Stack /\ Copies
    BY DEF Inv
  <2>2. DOMAIN frames = 1..Len(frames) /\ Len(frames) \in Nat
    BY <2>1, AdvanceIs
  <2>3. DOMAIN disk = Files
    BY <2>1, ProjectsAssumption DEF Types
  <2>4. \A i \in DOMAIN frames :
          frames[i].copy \in DOMAIN parsed /\ (frames[i].imp = None) = (i = 1)
    <3>1. \A i \in 2..Len(frames) : frames[i].imp # None
      BY <2>1, ProjectsAssumption DEF Stack, Enters
    <3>2. \A i \in DOMAIN frames : i = 1 \/ i \in 2..Len(frames)
      BY <2>2
    <3>3. 1 \notin 2..Len(frames)
      OBVIOUS
    <3>4. QED
      BY <2>1, <3>1, <3>2, <3>3 DEF Stack
  <2>5. seen \subseteq DOMAIN sigs /\ seen \cap Loading = {}
    BY <2>1, ReadBefore DEF Loading, Stack
  <2>6. QED
    BY <2>1, <2>3, <2>4, <2>5 DEF TypeOK, Types, Stack
<1>2. QED
  BY <1>1, Invariance, PTL

-----------------------------------------------------------------------------
(* What is linked.                                                         *)

\* Everything reached is read, done and merged, each file once.
LEMMA LinkedIs ==
  ASSUME Inv, status = "linked"
  PROVE  /\ OneEach /\ RootOut /\ Root \notin Descendants(Root)
         /\ Reached = seen \cup {Root} /\ Reached \subseteq Files
         /\ \A imp \in AllImports : Done(imp)
         /\ \A f \in Reached : \E k \in DOMAIN parsed : parsed[k].file = f
         /\ \A k \in DOMAIN parsed : parsed[k].file \in Reached
         /\ \A k \in DOMAIN parsed : \A item \in Range(Its(parsed[k].file)) :
              [copy |-> k, item |-> item] \in Range(out)
<1>1. Types /\ Stack /\ Chain /\ RootOnce /\ Copies /\ Progress /\ Merged
  BY DEF Inv
<1>2. /\ Len(frames) = 1 /\ frames[1].at > Len(Imps(Root)) + Len(Its(Root))
      /\ DOMAIN frames = {1} /\ FileOf(frames[1]) = Root /\ frames[1].copy = 1
      /\ frames[1].at \in Nat
  <2>1. Len(frames) = 1 /\ frames[1].at > Len(Imps(Root)) + Len(Its(Root))
    BY DEF Inv, Outcome
  <2>2. DOMAIN frames = {1} /\ Top = frames[1] /\ Top \in Frame
    BY <1>1, <2>1, AdvanceIs
  <2>3. QED
    BY <1>1, <2>1, <2>2 DEF Stack, FileOf, Frame
<1>3. Imps(Root) \in Seq(Import) /\ Its(Root) \in Seq(Item) /\ Root \in Files
  BY <1>1, FileType, ProjectsAssumption DEF Types
<1>4. \A imp \in Range(Imps(Root)) : Done(imp)
  <2>1. \A q \in DOMAIN Imps(Root) : q < frames[1].at
    BY <1>2, <1>3
  <2>2. \A q \in DOMAIN Imps(Root) : Done(Imps(Root)[q])
    BY <1>1, <1>2, <2>1 DEF Progress
  <2>3. QED
    BY <2>2 DEF Range
<1>5. \A item \in Range(Its(Root)) : [copy |-> 1, item |-> item] \in Range(out)
  <2>1. \A q \in DOMAIN Its(Root) : q + Len(Imps(Root)) < frames[1].at
    BY <1>2, <1>3
  <2>2. \A q \in DOMAIN Its(Root) : [copy |-> 1, item |-> Its(Root)[q]] \in Range(out)
    BY <1>1, <1>2, <2>1 DEF Merged
  <2>3. \A item \in Range(Its(Root)) : \E q \in DOMAIN Its(Root) : item = Its(Root)[q]
    BY DEF Range
  <2>4. QED
    BY <2>2, <2>3
<1>6. Descendants(Root) \subseteq seen
  BY <1>1, <1>3, <1>4, DescendantsSeen
<1>7. Root \notin seen /\ \A k \in 2..Len(parsed) : parsed[k].file \in seen
  BY <1>1, <1>2 DEF RootOnce, Copies
<1>8. RootOut /\ Root \notin Descendants(Root)
  BY <1>6, <1>7 DEF RootOut
<1>9. \A imp \in AllImports : Done(imp)
  BY <1>1, <1>4, <1>6 DEF AllImports, Reached, Progress, Imps
<1>10. OneEach
  <2>1. SUFFICES ASSUME NEW i \in AllImports, NEW j \in AllImports, i.file = j.file
                 PROVE  i = j
    BY DEF OneEach
  <2>2. Sig(i) = Sig(j) /\ i.file \in Files
    BY <1>1, <1>9, <2>1 DEF Done, Types
  <2>3. QED
    BY <1>1, <2>1, <2>2, SameImport DEF Types
<1>11. \A k \in DOMAIN parsed : k = 1 \/ k \in 2..Len(parsed)
  BY <1>1 DEF Types
<1>12. parsed[1].file = Root /\ 1 \in DOMAIN parsed
  BY <1>1, <1>2 DEF Stack
<1>13. \A k \in DOMAIN parsed : parsed[k].file \in Reached
  <2>1. SUFFICES ASSUME NEW k \in 2..Len(parsed) PROVE parsed[k].file \in Reached
    BY <1>11, <1>12 DEF Reached
  <2>2. PICK imp \in AllImports : Enters(imp, k)
    BY <1>1 DEF Copies
  <2>3. imp.file = parsed[k].file /\ imp.file \in Files
    BY <1>1, <1>7, <2>2 DEF Enters, Types
  <2>4. QED
    BY <2>3, AllImportsReach
<1>14. \A f \in seen : \E k \in 2..Len(parsed) : parsed[k].file = f
  BY <1>1 DEF Copies
<1>15. \A k \in 2..Len(parsed) : k \in DOMAIN parsed
  BY <1>1 DEF Types
<1>16. Reached = seen \cup {Root} /\ Reached \subseteq Files
  BY <1>1, <1>6, <1>13, <1>14, <1>15, AllImportsIn DEF Reached, Types
<1>17. \A f \in Reached : \E k \in DOMAIN parsed : parsed[k].file = f
  BY <1>12, <1>14, <1>15, <1>16
<1>18. \A k \in DOMAIN parsed : \A item \in Range(Its(parsed[k].file)) :
         [copy |-> k, item |-> item] \in Range(out)
  BY <1>1, <1>5, <1>7, <1>11, <1>12 DEF Merged
<1>19. QED
  BY <1>8, <1>9, <1>10, <1>13, <1>16, <1>17, <1>18

\* Of the same file, one copy; of the same name, one entry.
LEMMA LinkedOnce ==
  ASSUME Inv, status = "linked"
  PROVE  /\ \A k, l \in DOMAIN parsed : parsed[k].file = parsed[l].file => k = l
         /\ \A o, q \in DOMAIN out :
              Source(o) = Source(q) /\ out[o].item.name = out[q].item.name => o = q
<1>1. Types /\ Stack /\ Copies /\ Merged /\ Ordered /\ OneEach /\ RootOut
  BY LinkedIs DEF Inv
<1>2. \A k, l \in DOMAIN parsed : parsed[k].file = parsed[l].file => k = l
  BY <1>1, RenamedAsFinal
<1>3. \A o \in DOMAIN out : out[o].copy \in DOMAIN parsed
  BY <1>1 DEF Merged
<1>4. \A o, q \in DOMAIN out : Source(o) = Source(q) => out[o].copy = out[q].copy
  BY <1>2, <1>3 DEF Source
<1>5. QED
  BY <1>1, <1>2, <1>4 DEF Ordered, NameOf

\* Each item of each file reached is merged once, after all that its file imports.
THEOREM MergedInOrder == Spec => []LinkedInOrder
<1>1. Inv => LinkedInOrder
  <2> SUFFICES ASSUME Inv, status = "linked"
               PROVE  /\ \A i \in DOMAIN out : \E f \in Reached :
                           i \in Order(f) /\ out[i].item \in Range(disk[f].items)
                      /\ \A f \in Reached : \A item \in Range(disk[f].items) :
                           Cardinality({i \in Order(f) : out[i].item = item}) = 1
                      /\ \A f, g \in Reached :
                           g \in Descendants(f) => \A i \in Order(f), j \in Order(g) : j < i
    BY DEF LinkedInOrder
  <2>1. Merged /\ Ordered
    BY DEF Inv
  <2>2. \A f : \A i : i \in Order(f) <=> i \in DOMAIN out /\ Source(i) = f
    BY DEF Order, Source
  <2>3. \A i \in DOMAIN out : \E f \in Reached :
          i \in Order(f) /\ out[i].item \in Range(disk[f].items)
    BY <2>1, <2>2, LinkedIs DEF Merged, Source, Its
  <2>4. ASSUME NEW f \in Reached, NEW item \in Range(disk[f].items)
        PROVE  Cardinality({i \in Order(f) : out[i].item = item}) = 1
    <3>1. PICK k \in DOMAIN parsed : parsed[k].file = f
      BY LinkedIs
    <3>2. [copy |-> k, item |-> item] \in Range(out)
      BY <2>4, <3>1, LinkedIs DEF Its
    <3>3. PICK o \in DOMAIN out : out[o] = [copy |-> k, item |-> item]
      BY <3>2 DEF Range
    <3>4. o \in Order(f) /\ out[o].item = item
      BY <2>2, <3>1, <3>3 DEF Source
    <3>5. \A q \in Order(f) : out[q].item = item => q = o
      BY <2>2, <3>4, LinkedOnce
    <3>6. {i \in Order(f) : out[i].item = item} = {o}
      BY <3>4, <3>5
    <3>7. QED
      BY <3>6, FS_Singleton
  <2>5. \A f, g \in Reached :
          g \in Descendants(f) => \A i \in Order(f), j \in Order(g) : j < i
    BY <2>1, <2>2 DEF Ordered
  <2>6. QED
    BY <2>3, <2>4, <2>5
<1>2. QED
  BY <1>1, Invariance, PTL

LEMMA LinkedWell ==
  ASSUME Inv, status = "linked"
  PROVE  WellFormed
<1>1. Types /\ Stack /\ Copies /\ Progress /\ Ordered
  BY DEF Inv
<1>2. \A i \in AllImports : i.file # Missing /\ disk[i.file].parses /\ Selectable(i)
  <2>1. SUFFICES ASSUME NEW i \in AllImports
                 PROVE  i.file # Missing /\ disk[i.file].parses /\ Selectable(i)
    OBVIOUS
  <2>2. i.file \in seen /\ i.file \in Files
    BY <1>1, LinkedIs DEF Done, Types
  <2>3. PICK k \in 2..Len(parsed) : parsed[k].file = i.file
    BY <1>1, <2>2 DEF Copies
  <2>4. PICK j \in AllImports : Enters(j, k)
    BY <1>1 DEF Copies
  <2>5. i = j
    BY <2>3, <2>4, LinkedIs DEF Enters, OneEach
  <2>6. QED
    BY <2>2, <2>4, <2>5, ProjectsAssumption DEF Enters
<1>3. \A f \in Reached : f \notin Descendants(f)
  BY <1>1, LinkedIs DEF Progress
<1>4. \A i, j \in AllImports : /\ i.file = j.file => i = j
                               /\ i.alias = j.alias => DirectNames(i) = DirectNames(j)
  BY LinkedIs DEF OneEach, Done
<1>5. ASSUME NEW f \in Reached, NEW g \in Reached,
             NEW m \in DeclaredBy(disk[f].items), NEW n \in DeclaredBy(disk[g].items),
             Final(f, m) = Final(g, n)
      PROVE  f = g /\ m = n
  <2>1. PICK k \in DOMAIN parsed, l \in DOMAIN parsed : parsed[k].file = f /\ parsed[l].file = g
    BY LinkedIs
  <2>2. Renamed(k, m) = Renamed(l, n)
    BY <1>1, <1>5, <2>1, LinkedIs, RenamedAsFinal
  <2>3. PICK x \in Range(Its(f)), y \in Range(Its(g)) : x.name = m /\ y.name = n
    BY DEF DeclaredBy, Its
  <2>4. [copy |-> k, item |-> x] \in Range(out) /\ [copy |-> l, item |-> y] \in Range(out)
    BY <2>1, LinkedIs
  <2>5. PICK o \in DOMAIN out, q \in DOMAIN out :
          out[o] = [copy |-> k, item |-> x] /\ out[q] = [copy |-> l, item |-> y]
    BY <2>4 DEF Range
  <2>6. NameOf(out[o]) = Renamed(k, m) /\ NameOf(out[q]) = Renamed(l, n)
    BY <2>3, <2>5 DEF NameOf
  <2>7. o = q
    BY <1>1, <2>2, <2>6 DEF Ordered
  <2>8. k = l /\ x = y
    BY <2>5, <2>7
  <2>9. QED
    BY <2>1, <2>3, <2>8
<1>6. QED
  BY <1>2, <1>3, <1>4, <1>5 DEF WellFormed

\* A project links if and only if it is well formed, which no order of imports or of
\* files is part of.
THEOREM Acceptance == Spec => []AcceptsWellFormed
<1>1. Inv => AcceptsWellFormed
  <2>1. ASSUME Inv, status = "linked"  PROVE WellFormed
    BY <2>1, LinkedWell
  <2>2. ASSUME Inv, status \notin {"linking", "linked"}  PROVE ~WellFormed
    BY <2>2 DEF Inv, Outcome
  <2>3. SUFFICES ASSUME Inv, status # "linking"
                 PROVE  (status = "linked") = WellFormed
    BY DEF AcceptsWellFormed
  <2>4. WellFormed \in BOOLEAN
    BY DEF WellFormed
  <2>5. CASE status = "linked"
    BY <2>1, <2>3, <2>4, <2>5
  <2>6. CASE status # "linked"
    BY <2>2, <2>3, <2>4, <2>6
  <2>7. QED
    BY <2>5, <2>6
<1>2. QED
  BY <1>1, Invariance, PTL

-----------------------------------------------------------------------------
(* What the names of what is linked refer to.                              *)

LEMMA CopyIs ==
  ASSUME Inv, status = "linked", NEW imp \in AllImports, NEW k \in DOMAIN parsed,
         parsed[k].file = imp.file
  PROVE  /\ imp \in Import /\ imp.file \in Files /\ Selectable(imp)
         /\ parsed[k].names = Renaming(imp, k)
<1>1. Types /\ Stack /\ RootOnce /\ Copies
  BY DEF Inv
<1>2. imp.file \in seen /\ imp.file \in Files
  BY <1>1, LinkedIs DEF Done, Types
<1>3. k # 1
  BY <1>1, <1>2 DEF Stack, RootOnce
<1>4. k \in 2..Len(parsed)
  <2>1. \A j \in DOMAIN parsed : j = 1 \/ j \in 2..Len(parsed)
    BY <1>1 DEF Types
  <2>2. QED
    BY <1>3, <2>1
<1>5. PICK i \in AllImports : Enters(i, k)
  BY <1>1, <1>4 DEF Copies
<1>6. i = imp
  BY <1>5, LinkedIs DEF Enters, OneEach
<1>7. QED
  BY <1>2, <1>5, <1>6 DEF Enters

\* Only the names that a file declares are changed in it.
LEMMA ChangedDeclared ==
  ASSUME Inv, status = "linked", NEW k \in DOMAIN parsed
  PROVE  DOMAIN parsed[k].names \subseteq DeclaredBy(disk[parsed[k].file].items)
<1>1. Types /\ Stack /\ Copies
  BY DEF Inv
<1>2. k = 1 \/ k \in 2..Len(parsed)
  BY <1>1 DEF Types
<1>3. CASE k = 1
  BY <1>1, <1>3 DEF Stack
<1>4. CASE k \in 2..Len(parsed)
  <2>1. PICK imp \in AllImports : Enters(imp, k)
    BY <1>1, <1>4 DEF Copies
  <2>2. DOMAIN parsed[k].names = Changed(imp) /\ imp.file = parsed[k].file /\ Selectable(imp)
    BY <2>1, RenamingIs DEF Enters
  <2>3. Changed(imp) \subseteq Privates(imp.file) \cup Publics(imp.file)
    BY <2>2 DEF Changed, Selectable, Selected
  <2>4. QED
    BY <2>2, <2>3 DEF DeclaredBy, Privates, Publics
<1>5. QED
  BY <1>2, <1>3, <1>4

LEMMA EntryOf ==
  ASSUME Inv, status = "linked", NEW k \in DOMAIN parsed,
         NEW n \in DeclaredBy(disk[parsed[k].file].items)
  PROVE  \E o \in DOMAIN out : out[o].copy = k /\ out[o].item.name = n
<1>1. PICK item \in Range(Its(parsed[k].file)) : item.name = n
  BY DEF DeclaredBy, Its
<1>2. [copy |-> k, item |-> item] \in Range(out)
  BY LinkedIs
<1>3. PICK o \in DOMAIN out : out[o] = [copy |-> k, item |-> item]
  BY <1>2 DEF Range
<1>4. QED
  BY <1>1, <1>3

\* What an import shows has the name after linking under which it shows it.
LEMMA ShownIs ==
  ASSUME Inv, status = "linked", NEW imp \in AllImports, NEW d \in Declarations, NEW x,
         Shows(imp, x, d)
  PROVE  /\ x \in DirectNames(imp)
         /\ \E o \in DOMAIN out :
              NameOf(out[o]) = <<"plain", x>> /\ d = <<"item", Source(o), out[o].item.name>>
<1>1. PICK g \in Files : \E n \in DeclaredBy(disk[g].items) : d = <<"item", g, n>>
  BY DEF Declarations
<1>2. PICK n \in DeclaredBy(disk[g].items) : d = <<"item", g, n>>
  BY <1>1
<1>3. imp.file = g /\ d[2] = g /\ d[3] = n
  BY <1>2 DEF Shows
<1>4. g \in Reached
  BY <1>3, AllImportsReach
<1>5. PICK k \in DOMAIN parsed : parsed[k].file = g
  BY <1>4, LinkedIs
<1>6. PICK o \in DOMAIN out : out[o].copy = k /\ out[o].item.name = n
  BY <1>5, EntryOf
<1>7. d = <<"item", Source(o), out[o].item.name>>
  BY <1>2, <1>5, <1>6 DEF Source
<1>8. /\ imp \in Import /\ Selectable(imp) /\ parsed[k].names = Renaming(imp, k)
      /\ disk \in UNION Projects
  BY <1>3, <1>5, CopyIs DEF Inv, Types
<1>9. Renamed(k, n) = IF n \in Changed(imp) THEN Renaming(imp, k)[n] ELSE <<"plain", n>>
  BY <1>8, RenamingIs DEF Renamed
<1>10. Publics(g) \cap Privates(g) = {}
  BY <1>8, ImportType
<1>11. x \in DirectNames(imp) /\ Renamed(k, n) = <<"plain", x>>
  <2>1. CASE imp.sel = None
    <3>1. x = n /\ n \in Publics(g)
      BY <1>3, <2>1 DEF Shows
    <3>2. n \notin Changed(imp)
      BY <1>3, <1>10, <2>1, <3>1 DEF Changed
    <3>3. QED
      BY <1>3, <1>9, <2>1, <3>1, <3>2 DEF DirectNames
  <2>2. CASE imp.sel # None
    <3>1. PICK pair \in imp.sel : pair[1] = n /\ Shown(pair) = x
      BY <1>3, <2>2 DEF Shows
    <3>2. n \in Selected(imp) /\ n \in Publics(g) /\ n \notin Privates(g)
      BY <1>3, <1>8, <1>10, <2>2, <3>1 DEF Selected, Selectable
    <3>3. x \in DirectNames(imp)
      BY <2>2, <3>1 DEF DirectNames
    <3>4. CASE pair[2] = None
      <4>1. n \notin Changed(imp)
        BY <1>3, <1>8, <2>2, <3>1, <3>2, <3>4 DEF Changed, Selectable
      <4>2. QED
        BY <1>9, <3>1, <3>3, <3>4, <4>1 DEF Shown
    <3>5. CASE pair[2] # None
      <4>1. n \in Changed(imp)
        BY <2>2, <3>1, <3>5 DEF Changed
      <4>2. Renaming(imp, k)[n] = <<"plain", Alias(imp, n)>>
        BY <1>3, <3>2, <4>1, RenamingIs
      <4>3. Alias(imp, n) = x
        BY <1>3, <1>8, <2>2, <3>1, <3>5, AliasIs DEF Shown
      <4>4. QED
        BY <1>9, <3>3, <4>1, <4>2, <4>3
    <3>6. QED
      BY <3>4, <3>5
  <2>3. QED
    BY <2>1, <2>2
<1>12. NameOf(out[o]) = <<"plain", x>>
  BY <1>6, <1>11 DEF NameOf
<1>13. QED
  BY <1>7, <1>11, <1>12

\* A name that one entry has refers to it.
LEMMA RefersOne ==
  ASSUME Inv, status = "linked", NEW o \in DOMAIN out, NEW local,
         NameOf(out[o]) # <<"plain", local>>
  PROVE  Refers(NameOf(out[o]), local) = {<<"item", Source(o), out[o].item.name>>}
<1>1. \A q \in DOMAIN out : NameOf(out[q]) = NameOf(out[o]) => q = o
  BY DEF Inv, Ordered
<1>2. {q \in DOMAIN out : NameOf(out[q]) = NameOf(out[o])} = {o}
  BY <1>1
<1>3. QED
  BY <1>2 DEF Refers, Source

\* Of imports that show something under a name, one thing is shown, and the name
\* refers to it wherever it is no local.
LEMMA RefersShown ==
  ASSUME Inv, status = "linked", NEW imps \in SUBSET AllImports, NEW x, NEW local,
         x # local,
         {d \in Declarations : \E imp \in imps : Shows(imp, x, d)} # {}
  PROVE  Refers(<<"plain", x>>, local)
           = {d \in Declarations : \E imp \in imps : Shows(imp, x, d)}
<1> DEFINE D == {d \in Declarations : \E imp \in imps : Shows(imp, x, d)}
<1>1. \A d \in D : \E o \in DOMAIN out :
        NameOf(out[o]) = <<"plain", x>> /\ d = <<"item", Source(o), out[o].item.name>>
  BY ShownIs
<1>2. PICK c : c \in D
  OBVIOUS
<1> HIDE DEF D
<1>3. PICK o \in DOMAIN out :
        NameOf(out[o]) = <<"plain", x>> /\ c = <<"item", Source(o), out[o].item.name>>
  BY <1>1, <1>2
<1>4. \A d \in D : d = c
  BY <1>1, <1>3 DEF Inv, Ordered
<1>5. <<"plain", x>> # <<"plain", local>>
  OBVIOUS
<1>6. Refers(<<"plain", x>>, local) = {c}
  BY <1>3, <1>5, RefersOne
<1>7. D = {c}
  BY <1>2, <1>4
<1>8. QED
  BY <1>6, <1>7 DEF D

LEMMA KeepsItsMeaning ==
  ASSUME Inv, status = "linked", NEW i \in DOMAIN out, ~Captures(out[i])
  PROVE  KeepsMeaning(out[i])
<1> DEFINE k == out[i].copy
           f == Source(i)
           item == out[i].item
           mine == Range(Imps(f))
<1>1. k \in DOMAIN parsed /\ f = parsed[k].file /\ f \in Files /\ f \in Reached
  <2>1. k \in DOMAIN parsed /\ f = parsed[k].file
    BY DEF Inv, Merged, Source
  <2>2. QED
    BY <2>1, LinkedIs
<1>2. item \in Range(Its(f)) /\ item.name \in DeclaredBy(disk[f].items)
  BY DEF Inv, Merged, DeclaredBy, Its
<1>3. /\ item.local \notin DOMAIN parsed[k].names
      /\ <<"plain", item.local>> \notin Range(parsed[k].names)
      /\ item.via \notin DOMAIN parsed[k].names
      /\ item.via # None => item.local # item.use
      /\ item.via # None /\ item.const => item.local # item.via
  BY DEF Captures
<1>4. mine \subseteq AllImports
  BY <1>1, ReachedImport
<1> HIDE DEF k, f, item, mine
<1>5. Renamed(k, item.local) = <<"plain", item.local>>
      /\ Refers(<<"plain", item.local>>, item.local) = {<<"local">>}
  BY <1>3 DEF Renamed, Refers
<1>6. SUFFICES ASSUME Means(f, item) # {}
               PROVE  Refer([copy |-> k, item |-> item]) = Means(f, item)
  <2>1. Refer(out[i]) = Refer([copy |-> k, item |-> item])
    <3>1. Qualified(out[i]) = Qualified([copy |-> k, item |-> item])
      BY DEF Qualified, k, item
    <3>2. QED
      BY <3>1 DEF Refer, k, item
  <2>2. Means(parsed[out[i].copy].file, out[i].item) = Means(f, item)
    BY <1>1 DEF k, item
  <2>3. QED
    BY <2>1, <2>2 DEF KeepsMeaning
<1> DEFINE Ref == Refer([copy |-> k, item |-> item])
<1>7. CASE item.via = None
  <2>1. /\ Ref = Refers(Renamed(k, item.use), item.local)
        /\ Means(f, item) = BareMeans(f, item, item.use)
    BY <1>7 DEF Refer, Means
  <2>2. CASE item.use = item.local
    BY <1>5, <2>1, <2>2 DEF BareMeans
  <2>3. CASE item.use # item.local /\ item.use \in DeclaredBy(disk[f].items)
    <3>1. PICK o \in DOMAIN out : out[o].copy = k /\ out[o].item.name = item.use
      BY <1>1, <2>3, EntryOf
    <3>2. NameOf(out[o]) = Renamed(k, item.use) /\ Source(o) = f
      BY <1>1, <3>1 DEF NameOf, Source
    <3>3. Renamed(k, item.use) # <<"plain", item.local>>
      <4>1. CASE item.use \in DOMAIN parsed[k].names
        BY <1>3, <4>1 DEF Renamed, Range
      <4>2. CASE item.use \notin DOMAIN parsed[k].names
        BY <2>3, <4>2 DEF Renamed
      <4>3. QED
        BY <4>1, <4>2
    <3>4. Ref = {<<"item", f, item.use>>}
      BY <2>1, <3>1, <3>2, <3>3, RefersOne
    <3>5. QED
      BY <2>1, <2>3, <3>4 DEF BareMeans
  <2>4. CASE item.use # item.local /\ item.use \notin DeclaredBy(disk[f].items)
    <3>1. Renamed(k, item.use) = <<"plain", item.use>>
      BY <1>1, <2>4, ChangedDeclared DEF Renamed
    <3>2. Means(f, item) = {d \in Declarations : \E imp \in mine : Shows(imp, item.use, d)}
      BY <2>1, <2>4 DEF BareMeans, mine, Imps
    <3>3. QED
      BY <1>4, <1>6, <2>1, <2>4, <3>1, <3>2, RefersShown
  <2>5. QED
    BY <2>2, <2>3, <2>4
<1>8. CASE item.via # None /\ item.via = item.local
  <2>1. ~Qualified([copy |-> k, item |-> item])
    <3>1. LocalsOf(item) = {item.via}
      BY <1>3, <1>8 DEF LocalsOf
    <3>2. Renamed(k, item.via) = <<"plain", item.via>>
      BY <1>5, <1>8
    <3>3. \A m : <<"plain", item.via>> = <<"plain", m>> => m = item.via
      OBVIOUS
    <3>4. QED
      BY <3>1, <3>2, <3>3 DEF Qualified
  <2>2. Ref = {<<"method", r>> : r \in Refers(Renamed(k, item.via), item.local)}
    BY <1>8, <2>1 DEF Refer
  <2>3. Ref = {<<"method", r>> : r \in {<<"local">>}}
    BY <1>5, <1>8, <2>2
  <2>4. Means(f, item) = {<<"method", <<"local">> >>}
    BY <1>8 DEF Means
  <2>5. QED
    BY <2>3, <2>4
<1>9. CASE item.via # None /\ item.via # item.local
  <2> DEFINE named == {imp \in mine : imp.alias = item.via}
  <2>1. Means(f, item) = {d \in Declarations : \E imp \in named : Shows(imp, item.use, d)}
    BY <1>9 DEF Means, mine, Imps
  <2>2. PICK d \in Declarations : \E imp \in named : Shows(imp, item.use, d)
    BY <1>6, <2>1
  <2>3. PICK imp \in named : Shows(imp, item.use, d)
    BY <2>2
  <2>4. imp \in AllImports /\ imp.alias = item.via
    BY <1>4, <2>3
  <2>5. item.use \in DirectNames(imp)
    BY <2>3, <2>4, ShownIs
  <2>6. item.via \in DOMAIN exports /\ exports[item.via] = DirectNames(imp)
    BY <2>4, LinkedIs DEF Done
  <2>7. Qualified([copy |-> k, item |-> item])
    <3>1. item.via \notin LocalsOf(item)
      BY <1>9 DEF LocalsOf
    <3>2. Renamed(k, item.via) = <<"plain", item.via>>
      BY <1>3 DEF Renamed
    <3>3. QED
      BY <2>5, <2>6, <3>1, <3>2 DEF Qualified
  <2>8. Ref = Refers(<<"plain", item.use>>, item.local)
    BY <1>9, <2>7 DEF Refer
  <2>9. named \in SUBSET AllImports
    BY <1>4
  <2>10. QED
    BY <1>3, <1>6, <1>9, <2>1, <2>8, <2>9, RefersShown
<1>10. QED
  BY <1>7, <1>8, <1>9

LEMMA PrivateStays ==
  ASSUME Inv, status = "linked", NEW i \in DOMAIN out, NEW f \in Files \ {Root},
         NEW n \in Privates(f), <<"item", f, n>> \in Refer(out[i])
  PROVE  Source(i) = f
<1> DEFINE k == out[i].copy
           item == out[i].item
<1>1. Types /\ Stack /\ Copies /\ Merged
  BY DEF Inv
<1>2. PICK name : /\ name = Renamed(k, item.use) \/ name = <<"plain", item.use>>
                  /\ <<"item", f, n>> \in Refers(name, item.local)
  <2>1. \A r : <<"item", f, n>> # <<"method", r>>
    OBVIOUS
  <2>2. QED
    BY <2>1 DEF Refer
<1>3. PICK o \in DOMAIN out :
        NameOf(out[o]) = name /\ Source(o) = f /\ out[o].item.name = n
  <2>1. <<"item", f, n>> # <<"local">>
    OBVIOUS
  <2>2. PICK o \in DOMAIN out :
          NameOf(out[o]) = name /\ <<"item", f, n>> = <<"item", Source(o), out[o].item.name>>
    BY <1>2, <2>1 DEF Refers, Source
  <2>3. QED
    BY <2>2
<1> DEFINE l == out[o].copy
<1>4. l \in DOMAIN parsed /\ parsed[l].file = f /\ l # 1
  BY <1>1, <1>3 DEF Merged, Source, Stack
<1>5. name = <<"private", l, n>>
  <2>1. l \in 2..Len(parsed)
    <3>1. \A j \in DOMAIN parsed : j = 1 \/ j \in 2..Len(parsed)
      BY <1>1 DEF Types
    <3>2. QED
      BY <1>4, <3>1
  <2>2. PICK imp \in AllImports : Enters(imp, l)
    BY <1>1, <2>1 DEF Copies
  <2>3. parsed[l].names = Renaming(imp, l) /\ imp.file = f
    BY <1>4, <2>2 DEF Enters
  <2>4. n \in Changed(imp)
    BY <2>3 DEF Changed
  <2>5. Renamed(l, n) = <<"private", l, n>>
    <3>1. DOMAIN Renaming(imp, l) = Changed(imp) /\ Renaming(imp, l)[n] = <<"private", l, n>>
      <4> HIDE DEF l
      <4>1. n \in Privates(imp.file)
        BY <2>3
      <4>2. QED
        BY <2>4, <4>1, RenamingIs
    <3>2. QED
      BY <2>3, <2>4, <3>1 DEF Renamed
  <2>6. QED
    BY <1>3, <2>5 DEF NameOf
<1>6. name = Renamed(k, item.use)
  BY <1>2, <1>5
<1>7. k \in DOMAIN parsed /\ OneEach /\ RootOut
  BY <1>1, LinkedIs DEF Merged
<1>8. k = l
  <2> DEFINE g == parsed[k].file
  <2>1. \/ \E x : Renamed(k, item.use) = <<"plain", x>>
        \/ Renamed(k, item.use) = <<"private", k, item.use>>
        \/ Renamed(k, item.use) = <<"hidden", k, item.use>>
    BY <1>1, <1>7, RenamedIs
  <2> HIDE DEF k, l, item
  <2>2. QED
    BY <1>5, <1>6, <2>1
<1>9. QED
  BY <1>4, <1>8 DEF Source

\* A use refers to what it means in its file, unless Captures names what is in its
\* way, and never to what is private to another file.
THEOREM NamesKept == Spec => []SafeNamesKeepMeaning
<1>1. Inv => SafeNamesKeepMeaning
  BY KeepsItsMeaning, PrivateStays DEF SafeNamesKeepMeaning, Source
<1>2. QED
  BY <1>1, Invariance, PTL

-----------------------------------------------------------------------------
(* Linking ends.                                                           *)

\* What is still to do: the files not read, and what is left of the file being linked.
Unread == Files \ {parsed[k].file : k \in 2..Len(parsed)}
Ahead  == Len(Imports) + Len(Items) + 1 - Top.at

\* The order in which each step of the linker goes down: first the files it has not
\* read, then the chain of those it is linking, then what is left of the last of them.
LinkingRunsDown ==
  \/ status' # "linking"
  \/ Unread' \subseteq Unread /\ Unread' # Unread
  \/ Unread' = Unread /\ Len(frames') \in Nat /\ Len(frames') < Len(frames)
  \/ Unread' = Unread /\ Len(frames') = Len(frames) /\ Ahead' \in Nat /\ Ahead' < Ahead

LEMMA AdvanceRunsDown ==
  ASSUME Types, Stack, frames' = Advance, Top.at <= Len(Imports) + Len(Items),
         UNCHANGED <<disk, parsed>>
  PROVE  LinkingRunsDown
<1> PICK n : n = Len(frames)
  OBVIOUS
<1>1. /\ n \in Nat \ {0} /\ n \in DOMAIN frames /\ Top = frames[n] /\ Top.at \in Nat
      /\ Len(frames') = n /\ frames'[n].copy = frames[n].copy
      /\ frames'[n].at = frames[n].at + 1
  <2>1. n \in Nat \ {0} /\ n \in DOMAIN frames /\ Top = frames[n] /\ Top \in Frame
    BY AdvanceIs
  <2>2. Len(frames') = n /\ frames'[n].copy = frames[n].copy
        /\ frames'[n].at = frames[n].at + 1
    BY <2>1, AdvanceIs
  <2>3. QED
    BY <2>1, <2>2 DEF Frame
<1>2. Top' = frames'[n]
  BY <1>1 DEF Top, Last
<1>3. Imports' = Imports /\ Items' = Items
  <2>1. FileOf(Top)' = FileOf(Top)
    BY <1>1, <1>2 DEF FileOf
  <2>2. QED
    BY <2>1 DEF Imports, Items, Contents
<1>4. Top'.at = Top.at + 1
  BY <1>1, <1>2
<1>5. Len(Imports) \in Nat /\ Len(Items) \in Nat
  BY Here
<1>6. Ahead' = Len(Imports) + Len(Items) + 1 - (Top.at + 1)
  BY <1>3, <1>4 DEF Ahead
<1>7. Ahead' \in Nat /\ Ahead' < Ahead
  BY <1>1, <1>5, <1>6 DEF Ahead
<1>8. Unread' = Unread
  BY DEF Unread
<1>9. QED
  BY <1>1, <1>7, <1>8 DEF LinkingRunsDown

\* A file is entered only if it has not been read.
LEMMA EnterRunsDown ==
  ASSUME Inv, NEW imp, Enter(imp)
  PROVE  LinkingRunsDown
<1>1. Types /\ Copies
  BY DEF Inv
<1>2. imp.file \in Files /\ imp.file \notin seen /\ imp.file \notin Loading
  BY DEF Enter, First
<1> PICK n : n = Len(parsed)
  OBVIOUS
<1>3. /\ n \in Nat \ {0} /\ Len(parsed') = n + 1 /\ parsed'[n + 1].file = imp.file
      /\ \A k \in 1..n : parsed'[k] = parsed[k]
  BY <1>1, EnterIs
<1>4. imp.file \in Unread
  <2>1. SUFFICES ASSUME NEW k \in 2..n, parsed[k].file = imp.file PROVE FALSE
    BY <1>2 DEF Unread
  <2>2. PICK i \in 2..Len(frames) : frames[i].copy = k
    BY <1>1, <1>2, <2>1 DEF Copies
  <2>3. FileOf(frames[i]) = imp.file
    BY <2>1, <2>2 DEF FileOf
  <2>4. QED
    BY <1>2, <2>3 DEF Loading
<1>5. imp.file \notin Unread'
  BY <1>3 DEF Unread
<1>6. Unread' \subseteq Unread
  <2>1. \A k \in 2..n : k \in 1..n /\ k \in 2..(n + 1)
    BY <1>3
  <2>2. QED
    BY <1>3, <2>1 DEF Unread
<1>7. QED
  BY <1>4, <1>5, <1>6 DEF LinkingRunsDown

\* Whatever the project, also one whose imports go in a circle, the linker comes to an
\* end if its files are finitely many (_resolve_module: a file is read once).
THEOREM LinkingEnds == Spec => [][status = "linking" => LinkingRunsDown]_vars
<1>1. Inv /\ [Next]_vars => [status = "linking" => LinkingRunsDown]_vars
  <2> SUFFICES ASSUME Inv, Next, status = "linking" PROVE LinkingRunsDown
    OBVIOUS
  <2>1. Types /\ Stack /\ Chain /\ Progress
    BY DEF Inv
  <2>2. Len(Imports) \in Nat /\ Len(Items) \in Nat /\ Top.at \in Nat
    BY <2>1, Here, AdvanceIs DEF Frame
  <2>3. ASSUME NEW why, why # "linking", Refuse(why)  PROVE LinkingRunsDown
    BY <2>3 DEF Refuse, LinkingRunsDown
  <2>4. ASSUME NEW imp, LinkImport(imp)  PROVE LinkingRunsDown
    <3>1. CASE Again(imp)
      <4>1. Top.at \in DOMAIN Imports
        BY <3>1 DEF Again, AtImport
      <4>2. Top.at <= Len(Imports)
        BY <2>1, <4>1, Here
      <4>3. Top.at <= Len(Imports) + Len(Items)
        BY <2>2, <4>2
      <4>4. QED
        BY <2>1, <3>1, <4>3, AdvanceRunsDown DEF Again
    <3>2. CASE Enter(imp)
      BY <3>2, EnterRunsDown
    <3>3. CASE ~Again(imp) /\ ~Enter(imp)
      BY <2>3, <2>4, <3>3
      DEF LinkImport, CannotResolve, Diverges, IsCyclic, CannotParse, CannotSelect
    <3>4. QED
      BY <3>1, <3>2, <3>3
  <2>5. ASSUME NEW item, Emit(item)  PROVE LinkingRunsDown
    <3>1. AtItem(item) /\ frames' = Advance /\ UNCHANGED <<disk, parsed>>
      BY <2>5 DEF Emit
    <3>2. Top.at - Len(Imports) \in DOMAIN Items
      BY <3>1 DEF AtItem
    <3>3. Top.at - Len(Imports) <= Len(Items)
      BY <2>1, <3>2, Here
    <3>4. Top.at <= Len(Imports) + Len(Items)
      BY <2>2, <3>3
    <3>5. QED
      BY <2>1, <3>1, <3>4, AdvanceRunsDown
  <2>6. CASE Leave
    <3>1. Len(frames) > 1 /\ UNCHANGED <<disk, parsed>>
      BY <2>6 DEF Leave
    <3>2. Len(frames') = Len(frames) - 1 /\ Len(frames) \in Nat
      BY <2>1, <2>6, <3>1, LeaveIs, AdvanceIs
    <3>3. Unread' = Unread
      BY <3>1 DEF Unread
    <3>4. Len(frames') \in Nat /\ Len(frames') < Len(frames)
      BY <3>1, <3>2
    <3>5. QED
      BY <3>3, <3>4 DEF LinkingRunsDown
  <2>7. CASE Finish
    BY <2>7 DEF Finish, LinkingRunsDown
  <2>8. CASE Clashes \/ \E item : Conflicts(item)
    BY <2>3, <2>8 DEF Clashes, Conflicts
  <2>9. QED
    BY <2>4, <2>5, <2>6, <2>7, <2>8 DEF Next, Ended
<1>2. QED
  BY Invariance, <1>1, PTL DEF Spec

=============================================================================
