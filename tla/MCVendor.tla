------------------------------- MODULE MCVendor -------------------------------
(***************************************************************************)
(* Vendor with two revisions, the second with one more file, and two       *)
(* patches; the second patch applies to the second revision only.          *)
(***************************************************************************)
EXTENDS Vendor

MCTree == <<{"f"}, {"f", "g"}>>
MCPatchFile == <<"f", "g">>

Option(update, refresh, commit, url, rev) ==
  [update |-> update, refresh |-> refresh, commit |-> commit, url |-> url, rev |-> rev]

MCArgs == {Option(u, r, c, "home", Branch) : u \in BOOLEAN, r \in BOOLEAN, c \in BOOLEAN}
          \cup {Option(TRUE, FALSE, FALSE, "fork", Branch)}

\* For liveness: nothing is committed, both patches apply.
MCLiveTree == <<{"f", "g"}, {"f", "g"}>>
MCLiveArgs == {Option(u, r, FALSE, "home", Branch) : u \in BOOLEAN, r \in BOOLEAN}
=============================================================================
