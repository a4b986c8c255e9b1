------------------------------ MODULE VendorDesc ------------------------------
(***************************************************************************)
(* Reading the vendoring description: command-line overrides are applied   *)
(* to the parsed file (Desc.apply_overrides), then the fields are checked  *)
(* one class after the other, then the rules that relate them.             *)
(*                                                                         *)
(* A parsed object is a function from the names present to values; a       *)
(* string is "str" or, where two must differ, another name; a value of a   *)
(* wrong type is Bad.  A path is a sequence of names, with an empty first  *)
(* name when it is absolute.  An argument of --desc-override is a key, a   *)
(* value and the number of equals signs it is written with.                *)
(***************************************************************************)
EXTENDS Naturals, Sequences, FiniteSets, SequencesExt

CONSTANTS
  Data,        \* the parsed files tried
  Bad,         \* a value of a wrong type
  Overrides    \* the lists of overrides tried

\* The fields of an entry of the mapping that are paths; "str" is the only one
\* of an entry that is a string.
PathFields == {"str", "from", "to", "patch_dir"}
Entry(e) ==
  /\ \A n \in DOMAIN e \cap PathFields : e[n] \in Seq(STRING) \cup {Bad}
  /\ "str" \in DOMAIN e => DOMAIN e = {"str"} /\ e["str"] # Bad

ASSUME DescAssumption ==
  /\ \A d \in Data :
       "mapping" \in DOMAIN d /\ d["mapping"] # Bad =>
         \A i \in 1..Len(d["mapping"]) : d["mapping"][i] # Bad => Entry(d["mapping"][i])
  /\ Overrides \subseteq Seq([key : Seq(STRING), value : STRING, equals : Nat])

VARIABLES
  data,        \* the parsed file
  todo,        \* overrides not yet applied
  status       \* "arguments", "overriding", or the outcome

descVars == <<data, todo, status>>

Has(d, name) == name \in DOMAIN d
With(d, name, v) == [n \in DOMAIN d \cup {name} |-> IF n = name THEN v ELSE d[n]]
Object(d) == d # Bad
NoFields == [n \in {} |-> n]

-----------------------------------------------------------------------------
(* Paths. *)

IsAbsolute(p) == p # <<>> /\ Head(p) = ""

\* os.path.normpath
Normal(out, name) ==
  IF name = "." \/ (name = ".." /\ out = << "" >>) THEN out
  ELSE IF name = ".." /\ out # <<>> /\ Last(out) # ".." THEN Front(out)
  ELSE Append(out, name)

normpath(p) ==
  LET out[n \in 0..Len(p)] == IF n = 0 THEN <<>> ELSE Normal(out[n-1], p[n])
  IN  out[Len(p)]

\* Names that begin with two dots.
Dotted == {"..", "..f"}

\* Mapping1.check_path
\* Mutant: the path is looked at before it is normalised.
check_pathRaw(p) == ~IsAbsolute(p) /\ (p = <<>> \/ Head(p) \notin Dotted)
check_path(p) ==
  LET val == normpath(p)
  IN  ~IsAbsolute(val) /\ (val = <<>> \/ Head(val) \notin Dotted)

-----------------------------------------------------------------------------
(* define_arg_type and Desc.apply_overrides. *)

OVERRIDABLE_DESC_KEYS ==
  {<<"patch_repo", "url">>, <<"patch_repo", "rev_base">>, <<"patch_repo", "rev_patched">>,
   <<"upstream", "url">>, <<"upstream", "rev">>}

\* arg.split('=', 2) splits at the first two equals signs.
Parts(arg) == IF arg.equals < 2 THEN arg.equals + 1 ELSE 3
define_arg_type(arg) == Parts(arg) = 2 /\ arg.key \in OVERRIDABLE_DESC_KEYS

ParseArguments ==
  /\ status = "arguments"
  /\ status' = IF \A i \in 1..Len(todo) : define_arg_type(todo[i])
                 THEN "overriding" ELSE "usage"
  /\ UNCHANGED <<data, todo>>

Overridden(d, key, value) ==
  With(d, key[1], With(IF Has(d, key[1]) THEN d[key[1]] ELSE NoFields, key[2], value))

apply_overrides ==
  /\ status = "overriding" /\ todo # <<>>
  /\ LET key == Head(todo).key
     IN  IF Has(data, key[1]) /\ ~Object(data[key[1]])
           THEN status' = "crashed" /\ UNCHANGED data
           ELSE data' = Overridden(data, key, Head(todo).value) /\ UNCHANGED status
  /\ todo' = Tail(todo)

-----------------------------------------------------------------------------
(* The checks of the constructors. *)

\* get_field
Field(d, name, ok(_))    == Has(d, name) /\ d[name] # Bad /\ ok(d[name])
Optional(d, name, ok(_)) == Has(d, name) => d[name] # Bad /\ ok(d[name])
Str(v) == TRUE

UpstreamOK(d)  == Field(d, "url", Str) /\ Field(d, "rev", Str) /\ Optional(d, "only_subdir", Str)
PatchRepoOK(d) == Field(d, "url", Str) /\ Field(d, "rev_base", Str) /\ Field(d, "rev_patched", Str)

\* Mapping1.make: a string stands for an entry from itself to itself.
EntryOK(e) ==
  /\ Object(e)
  /\ Has(e, "str") => check_path(e["str"])
  /\ ~Has(e, "str") => /\ Field(e, "from", check_path) /\ Field(e, "to", check_path)
                       /\ Optional(e, "patch_dir", check_path)
StringsOK(l) == \A i \in 1..Len(l) : l[i] # Bad
MappingOK(m) == \A i \in 1..Len(m) : EntryOK(m[i])

FieldsOK(d) ==
  /\ Field(d, "name", Str) /\ Field(d, "target_dir", Str)
  /\ Field(d, "upstream", UpstreamOK)
  /\ Optional(d, "patch_dir", Str)
  /\ Optional(d, "patch_repo", PatchRepoOK)
  /\ Optional(d, "exclude_from_upstream", StringsOK)
  /\ Optional(d, "mapping", MappingOK)

\* Mapping.has_patch_dir
has_patch_dir(d) == \E i \in 1..Len(d["mapping"]) : Has(d["mapping"][i], "patch_dir")

Related(d) ==
  /\ Has(d, "patch_repo") => Has(d, "patch_dir") /\ ~Has(d, "mapping")
  /\ Has(d, "mapping") => (Has(d, "patch_dir") <=> has_patch_dir(d))

Construct ==
  /\ status = "overriding" /\ todo = <<>>
  /\ status' = IF FieldsOK(data) /\ Related(data) THEN "accepted" ELSE "rejected"
  /\ UNCHANGED <<data, todo>>

DescInit ==
  /\ data \in Data
  /\ todo \in Overrides
  /\ status = "arguments"

DescNext == ParseArguments \/ apply_overrides \/ Construct
DescSpec == DescInit /\ [][DescNext]_descVars

-----------------------------------------------------------------------------
DescTypeOK ==
  /\ status \in {"arguments", "usage", "overriding", "accepted", "rejected", "crashed"}
  /\ status = "overriding" => \A i \in 1..Len(todo) : todo[i].key \in OVERRIDABLE_DESC_KEYS
  /\ status = "accepted" =>
       \A name \in {"url", "rev"} : Has(data["upstream"], name) /\ data["upstream"][name] # Bad

\* Following a path from a directory never leads out of it.
Inside(p) ==
  /\ ~IsAbsolute(p)
  /\ \A n \in 0..Len(p) :
       Cardinality({k \in 1..n : p[k] = ".."}) <= Cardinality({k \in 1..n : p[k] \notin {".", ".."}})

\* No path of an accepted mapping leads out of the directory it is relative to.
PathsInside ==
  status = "accepted" /\ Has(data, "mapping") =>
    \A i \in 1..Len(data["mapping"]) :
      \A n \in DOMAIN data["mapping"][i] \cap PathFields : Inside(data["mapping"][i][n])

\* What the import dereferences is there: the patch directory of every entry
\* that names one below it, and of refresh_patches.
PatchDirsExist ==
  status = "accepted" =>
    LET entries == IF Has(data, "mapping") THEN data["mapping"] ELSE <<>>
    IN  \/ Has(data, "patch_dir")
        \/ /\ \A i \in 1..Len(entries) : ~Has(entries[i], "patch_dir")
           /\ ~Has(data, "patch_repo")

\* What is accepted can be imported: it has what the import dereferences, after
\* any overrides, and leads nowhere else (vendor.py:247-260, 408-435).
DescCorrect == DescTypeOK /\ PathsInside /\ PatchDirsExist
=============================================================================
