------------------------------- MODULE VendorLog -------------------------------
(***************************************************************************)
(* The list of upstream changes of an update: references to issues are     *)
(* qualified with the GitHub repository they belong to.  A line is a       *)
(* sequence of tokens: a letter, a digit, a blank, "#", "gh-", or Repo,    *)
(* which stands for a user, a slash and the name of a repository.  They    *)
(* begin and end with a letter or a digit, and neither is a "gh-" with a   *)
(* number, which the pattern would take for a reference of its own.        *)
(***************************************************************************)
EXTENDS Naturals, Sequences, SequencesExt

CONSTANTS
  Lines,     \* the lines tried
  Urls,      \* repository URLs: whether on github.com, and the characters of
             \* the user's and the repository's name
  Repo, None,
  Broken     \* stands for whatever comes of a replacement that is not the one
             \* meant: an exception, or lines with a wrong text

Token == {"letter", "digit", " ", "#", "gh-", Repo}

ASSUME LogAssumption ==
  /\ Lines \subseteq Seq(Token)
  /\ Repo \notin {"letter", "digit", " ", "#", "gh-"} /\ None # Repo
  /\ Broken \notin Seq(Token) \cup {None}

VARIABLES url, line, changes

logVars == <<url, line, changes>>

\* github_parse_url takes names of letters, digits and hyphens.
NameCharacter == {"letter", "digit", "-"}
Name(n) == n # <<>> /\ \A i \in 1..Len(n) : n[i] \in NameCharacter
github_parse_url(u) == IF u.github /\ Name(u.user) /\ Name(u.name) THEN Repo ELSE None

\* Tokens that end, and that begin, with a character of a word.
Word(token) == token \in {"letter", "digit", Repo}
StartsWord(token) == Word(token) \/ token = "gh-"
Marker(token) == token \in {"#", "gh-"}

\* Where the digits that begin at i end: i - 1 when there are none.
DigitsEnd(s, i) ==
  CHOOSE j \in i-1..Len(s) :
    /\ \A k \in i..j : s[k] = "digit"
    /\ j < Len(s) => s[j+1] # "digit"

\* The pattern's part after its prefix matches at i.
Reference(s, i) ==
  /\ i <= Len(s) /\ Marker(s[i])
  /\ LET j == DigitsEnd(s, i+1) IN j > i /\ (j < Len(s) => ~StartsWord(s[j+1]))

\* Mutant: only a blank may precede a reference.
PrefixBlank(token) == token = " "
Prefix(token) == ~Word(token)
repl_str(prefix, digits) == prefix \o <<Repo, "#">> \o digits

\* github_qualify_references: re.sub from left to right.  At each position the
\* pattern is tried with an empty prefix, at the start only, then with the
\* token there as its prefix.
Qualified(s) ==
  LET sub[i \in 1..Len(s)+1] ==
        IF i > Len(s) THEN <<>>
        ELSE IF i = 1 /\ Reference(s, 1)
          THEN LET j == DigitsEnd(s, 2) IN repl_str(<<>>, SubSeq(s, 2, j)) \o sub[j+1]
        ELSE IF Prefix(s[i]) /\ Reference(s, i+1)
          THEN LET j == DigitsEnd(s, i+2)
               IN  repl_str(<<s[i]>>, SubSeq(s, i+2, j)) \o sub[j+1]
        ELSE <<s[i]>> \o sub[i+1]
  IN  sub[1]

\* The user's name follows the group reference \1 in the replacement: a digit
\* makes it one of another group, which re refuses, or a character by its code.
WrongTemplate(u) == github_parse_url(u) # None /\ u.user[1] = "digit"

\* The end of main's shortlog branch.
Report ==
  /\ changes = None
  /\ changes' = IF WrongTemplate(url) THEN Broken
                ELSE IF github_parse_url(url) = None THEN line
                ELSE Qualified(line)
  /\ UNCHANGED <<url, line>>

LogInit == url \in Urls /\ line \in Lines /\ changes = None
LogSpec == LogInit /\ [][Report]_logVars

-----------------------------------------------------------------------------
\* A reference stands alone: before it the line begins, or no word ends.
Unqualified(s, i) == Reference(s, i) /\ (i = 1 \/ ~Word(s[i-1]))

Reported == changes \notin {None, Broken}

\* "Ensure fully-qualified issue/PR references for GitHub repos": where the
\* repository's URL is parsed no reference is left that GitHub would link to
\* the repository vendored into, none skipped because the match before it
\* consumed the token in front of it; and qualifying a qualified list again
\* changes nothing.
ParsedQualified ==
  Reported /\ github_parse_url(url) # None =>
    /\ \A i \in 1..Len(changes) : ~Unqualified(changes, i)
    /\ Qualified(changes) = changes

\* Nothing is added but names of the repository, nothing lost; of a marker only
\* the spelling changes.
Plain(s) ==
  LET kept[n \in 0..Len(s)] ==
        IF n = 0 THEN <<>>
        ELSE IF s[n] = Repo THEN kept[n-1]
        ELSE Append(kept[n-1], IF Marker(s[n]) THEN "#" ELSE s[n])
  IN  kept[Len(s)]
TextKept == Reported => Plain(changes) = Plain(line)

\* Only a user's name that begins with a digit spoils a report.
BrokenByDigit == changes = Broken => url.user[1] = "digit"

\* All references are qualified, once, and nothing else changes, whatever the
\* line, unless the user's name begins with a digit (vendor.py:78-80).
LogCorrect == ParsedQualified /\ TextKept /\ BrokenByDigit
=============================================================================
