----------------------------- MODULE VendorImport -----------------------------
(***************************************************************************)
(* Filling the target directory from a clone (Desc.import_from_upstream):  *)
(* the entries of the mapping are copied in their order, each followed by  *)
(* its patches; the first error ends the run.                              *)
(*                                                                         *)
(* A path is a sequence of names.  A tree maps the paths that exist to Dir *)
(* or to the contents of a file: the upstream path it came from and the    *)
(* patches it has had.  An entry has the fields from, to and patches, the  *)
(* latter the files changed by the *.patch files of its patch_dir in order *)
(* of their names.  An operation on a tree is the set of the trees it can  *)
(* leave: one, or none when it is an error.                                *)
(***************************************************************************)
EXTENDS Naturals, Sequences, SequencesExt

CONSTANTS
  Upstream,     \* the clone: the set of its files' paths
  Excluded,     \* upstream paths that match exclude_from_upstream, or .git
  Mappings,     \* the mappings tried
  Dir

Path     == Seq(STRING)
FileCopy == [origin : Upstream, patched : Seq(Path)]
Entries  == [from : Path, to : Path, patches : Seq(Path)]

\* There is nothing below a file, and the clone itself is a directory.
ASSUME ImportAssumption ==
  /\ Upstream \subseteq Path \ {<<>>}
  /\ \A f, g \in Upstream : f \in Prefixes(g) => f = g
  /\ Mappings \subseteq Seq(Entries)
  /\ Dir \notin FileCopy

VARIABLES mapping, idx, tree, failed

importVars == <<mapping, idx, tree, failed>>

Parents(p)  == Prefixes(p) \ {p}
Exists(p)   == \E f \in Upstream : p \in Prefixes(f)
Relative(f, p) == SubSeq(f, Len(p) + 1, Len(f))
Overlay(new, t) == [p \in DOMAIN new \cup DOMAIN t |->
                      IF p \in DOMAIN new THEN new[p] ELSE t[p]]
Fresh(f) == [origin |-> f, patched |-> <<>>]

\* ignore_patterns: an excluded name is skipped with everything below it.
\* Mutant: the patterns are matched from the copied directory.
IgnoredRelative(f, from) ==
  \E p \in Prefixes(Relative(f, from)) \ {<<>>} : p \in Excluded
Ignored(f, from) == \E p \in Prefixes(f) \ Prefixes(from) : p \in Excluded

\* What shutil.copytree copies, the directory itself and those that become
\* empty included; dirs_exist_ok is left at False.
Kept(from) == {p \in UNION {Prefixes(f) : f \in Upstream} :
                 from \in Prefixes(p) /\ ~Ignored(p, from)}
CopiedTree(from, to) ==
  [p \in {to \o Relative(k, from) : k \in Kept(from)} |->
     LET k == from \o Relative(p, to) IN IF k \in Upstream THEN Fresh(k) ELSE Dir]

copytree(from, to, t) ==
  IF Exists(from) /\ to \notin DOMAIN t THEN {Overlay(CopiedTree(from, to), t)} ELSE {}

\* shutil.copy: into the destination when it is a directory.
Landing(from, to, t) == IF to \in DOMAIN t /\ t[to] = Dir THEN Append(to, Last(from)) ELSE to
copy(from, to, t) ==
  LET dst == Landing(from, to, t)
  IN  IF dst \in DOMAIN t /\ t[dst] = Dir THEN {}
      ELSE {Overlay([p \in {dst} |-> Fresh(from)], t)}

\* Path.mkdir(exist_ok=True, parents=True) of the destination's parent.
mkdir(to, t) ==
  IF \E p \in Parents(to) \cap DOMAIN t : t[p] # Dir THEN {}
  ELSE {Overlay([p \in Parents(to) |-> Dir], t)}

\* git apply --directory to_path.
apply_patch(to, file, t) ==
  LET p == to \o file
  IN  IF p \in DOMAIN t /\ t[p] # Dir
        THEN {[t EXCEPT ![p].patched = Append(@, file)]} ELSE {}

\* Mapping1.import_from_upstream
Placed(item, t) ==
  UNION {IF item.from \in Upstream THEN copy(item.from, item.to, u)
                                   ELSE copytree(item.from, item.to, u) : u \in mkdir(item.to, t)}
ImportItem(item, t) ==
  LET after[n \in 0..Len(item.patches)] ==
        IF n = 0 THEN Placed(item, t)
        ELSE UNION {apply_patch(item.to, item.patches[n], u) : u \in after[n-1]}
  IN  after[Len(item.patches)]

NoTree == [p \in {} |-> Dir]

ImportInit == mapping \in Mappings /\ idx = 0 /\ tree = NoTree /\ failed = FALSE

\* What a failed entry leaves behind is of no use, and not modelled.
Import ==
  /\ ~failed /\ idx < Len(mapping)
  /\ LET trees == ImportItem(mapping[idx + 1], tree)
     IN  IF trees = {} THEN failed' = TRUE /\ UNCHANGED <<idx, tree>>
         ELSE tree' \in trees /\ idx' = idx + 1 /\ UNCHANGED failed
  /\ UNCHANGED mapping

ImportSpec == ImportInit /\ [][Import]_importVars

-----------------------------------------------------------------------------
Done  == ~failed /\ idx = Len(mapping)
Files == {p \in DOMAIN tree : tree[p] # Dir}

ImportTypeOK ==
  /\ mapping \in Seq(Entries) /\ idx \in 0..Len(mapping) /\ failed \in BOOLEAN
  /\ \A p \in DOMAIN tree :
       p \in Path /\ tree[p] \in FileCopy \cup {Dir} /\ \A q \in Parents(p) : q \in DOMAIN tree \ Files

\* A complete import has everything the mapping asks for: each file of a copied
\* directory that is not excluded is at its place, from that entry or from a
\* later single-file entry that replaced it.
Wanted(from) ==
  {f \in Upstream : from \in Parents(f) /\ (Prefixes(f) \ Prefixes(from)) \cap Excluded = {}}
NothingLost ==
  Done =>
    \A i \in 1..Len(mapping) : \A f \in Wanted(mapping[i].from) :
      LET p == mapping[i].to \o Relative(f, mapping[i].from)
      IN  /\ p \in Files
          /\ \/ tree[p].origin = f
             \/ \E j \in i+1..Len(mapping) : tree[p].origin = mapping[j].from

\* An excluded file arrives only when an entry names it, or a directory inside
\* what is excluded, itself; .git among them.
NothingExcluded ==
  \A p \in Files : \A q \in Prefixes(tree[p].origin) \cap Excluded :
    \E i \in 1..idx : q \in Prefixes(mapping[i].from)

\* The order of the entries decides whether an import succeeds, never what it
\* produces, as long as no two single-file entries may write or patch the same
\* file.
Single(item)  == item.from \in Upstream
Touched(item) == {item.to, Append(item.to, Last(item.from))}
                   \cup {item.to \o item.patches[n] : n \in 1..Len(item.patches)}
Independent(m) ==
  \A i, j \in 1..Len(m) :
    i # j /\ Single(m[i]) /\ Single(m[j]) => Touched(m[i]) \cap Touched(m[j]) = {}

ImportAll(m) ==
  LET after[k \in 0..Len(m)] ==
        IF k = 0 THEN {NoTree} ELSE UNION {ImportItem(m[k], t) : t \in after[k-1]}
  IN  after[Len(m)]
Reordered(m, p) == [i \in 1..Len(m) |-> m[p[i]]]
OrderIrrelevant ==
  Done /\ Independent(mapping) =>
    \A p \in Bijection(1..Len(mapping), 1..Len(mapping)) :
      ImportAll(Reordered(mapping, p)) \subseteq {tree}

\* An import that succeeds is a tree with what the mapping asks for, and no
\* more (vendor.py:303-327, 517-532).
ImportCorrect == ImportTypeOK /\ NothingLost /\ NothingExcluded /\ OrderIrrelevant
=============================================================================
