---------------------------- MODULE MCVendorParts ----------------------------
(***************************************************************************)
(* The parts of vendor.py that keep no state between runs, in one TLC run: *)
(* reading the description, filling the target directory, qualifying the   *)
(* change list.  A behaviour is one of one part; the others stay where     *)
(* they start.                                                             *)
(***************************************************************************)
EXTENDS VendorDesc, VendorImport, VendorLog

VARIABLE part

-----------------------------------------------------------------------------
(* VendorDesc on a good description of which some fields are missing, of a *)
(* wrong type or incomplete, with mappings over short paths.               *)

RepoField == [url |-> "str", rev_base |-> "str", rev_patched |-> "str"]
SourceField == [url |-> "str", rev |-> "str"]

Paths == {<<>>, <<"a">>} \cup ({"", ".", "..", "a"} \X {"..", "a"}) \cup
         {<<"a", "..", "..">>, <<"..f", "..">>, <<"a", "..f">>}
MCEntries == {[str |-> p] : p \in Paths} \cup {Bad}
           \cup {[from |-> <<"a">>, to |-> p] : p \in Paths}
           \cup {[from |-> p, to |-> <<"a">>, patch_dir |-> q] :
                   p \in {<<"a">>, <<"..">>}, q \in Paths}
           \cup {[from |-> <<"a">>]}

Absent == [n \in {} |-> n]
Choice(name, values) == {Absent} \cup {[n \in {name} |-> v] : v \in values}
Merge(d, e) == [n \in DOMAIN d \cup DOMAIN e |-> IF n \in DOMAIN e THEN e[n] ELSE d[n]]

Partial == {SourceField, [url |-> "str"], Bad}
Base == {Merge([name |-> "str", target_dir |-> "str"], u) : u \in Choice("upstream", Partial)}

MCData ==
  {Merge(Merge(Merge(b, p), r), m) :
     b \in Base, p \in Choice("patch_dir", {"str", Bad}),
     r \in Choice("patch_repo", {RepoField, [rev_base |-> "str"], Bad}),
     m \in Choice("mapping", {Bad, <<>>} \cup {<<e>> : e \in MCEntries}
                    \cup {<<e, [str |-> <<"a">>]>> : e \in MCEntries}
                    \cup {<<[str |-> <<"a">>], e>> : e \in MCEntries})}
  \cup {Merge(Merge(b, x), [name |-> n]) : b \in Base, n \in {"str", Bad},
          x \in Choice("exclude_from_upstream", {Bad, <<>>, <<"str", Bad>>})}

Argument(key, equals) == [key |-> key, value |-> "str", equals |-> equals]
MCArguments == {Argument(k, 1) : k \in {<<"patch_repo", "url">>, <<"patch_repo", "rev_patched">>,
                                     <<"upstream", "rev">>}}
             \cup {Argument(<<"target_dir">>, 1), Argument(<<"upstream", "url">>, 0),
                   Argument(<<"upstream", "url">>, 2)}
MCOverrides == UNION {[1..n -> MCArguments] : n \in 0..2}

-----------------------------------------------------------------------------
(* VendorImport on every mapping of up to three entries over an upstream   *)
(* with nested directories, a hidden .git and an excluded subdirectory.    *)

MCUpstream == {<<"a", "f">>, <<"a", "b", "g">>, <<"a", "b", "h">>, <<"a", "c">>, <<"c">>, <<".git", "k">>}
MCExcluded == {<<".git">>, <<"a", "b", "h">>, <<"c">>}

Item(from, to, patches) == [from |-> from, to |-> to, patches |-> patches]

Items ==
  {Item(from, to, <<>>) : from \in {<<>>, <<"a">>, <<"a", "b">>, <<"c">>, <<".git">>, <<"d">>},
                          to \in {<<>>, <<"x">>, <<"x", "f">>, <<"x", "b">>}}
  \cup {Item(<<"a">>, to, << <<"f">>, <<"b", "g">>, <<"f">> >>) : to \in {<<>>, <<"x">>}}
  \cup {Item(<<"c">>, to, << <<"f">> >>) : to \in {<<>>, <<"x">>}} \cup {Item(<<"a", "c">>, <<"x", "c">>, <<>>)}

MCMappings == UNION {[1..n -> Items] : n \in 0..3}

-----------------------------------------------------------------------------
\* Lines of up to five tokens; names of letters, with an underscore, and a
\* user's that begins with a digit.
MCLines == UNION {[1..n -> {"letter", "digit", " ", "#", "gh-", Repo}] : n \in 0..5}
Url(github, user, name) == [github |-> github, user |-> user, name |-> name]
MCUrls == {Url(TRUE, <<"letter", "digit">>, <<"letter", "-", "digit">>),
           Url(TRUE, <<"digit", "letter">>, <<"letter">>),
           Url(TRUE, <<"letter">>, <<"letter", "_", "letter">>),
           Url(FALSE, <<"letter">>, <<"letter">>)}

-----------------------------------------------------------------------------
Some(set) == CHOOSE x \in set : TRUE

MCInit ==
  /\ part \in {"description", "import", "log"}
  /\ IF part = "description" THEN DescInit
     ELSE data = Some(Data) /\ todo = <<>> /\ status = "arguments"
  /\ IF part = "import" THEN ImportInit
     ELSE mapping = <<>> /\ idx = 0 /\ tree = NoTree /\ failed = FALSE
  /\ IF part = "log" THEN LogInit
     ELSE url = Some(Urls) /\ line = <<>> /\ changes = None

MCNext ==
  /\ UNCHANGED part
  /\ \/ part = "description" /\ DescNext /\ UNCHANGED <<importVars, logVars>>
     \/ part = "import"      /\ Import   /\ UNCHANGED <<descVars, logVars>>
     \/ part = "log"         /\ Report   /\ UNCHANGED <<descVars, importVars>>

MCSpec == MCInit /\ [][MCNext]_<<part, descVars, importVars, logVars>>
=============================================================================
