---------------------------- MODULE Vendor_proofs ----------------------------
(***************************************************************************)
(* What the vendoring script keeps, for any inputs: what it accepts of a   *)
(* description, what it copies from the clone and what it reports of the   *)
(* changes; then what holds through any number of its runs, failures and   *)
(* moves of upstream, for any trees, patches and command lines.            *)
(***************************************************************************)
EXTENDS Vendor, VendorDesc, VendorImport, VendorLog, FiniteSetTheorems, SequenceTheorems,
        WellFoundedInduction, TLAPS

-----------------------------------------------------------------------------
(* Induction and iteration.                                                *)

\* Induction on a set of natural numbers, from the least number outside it.
LEMMA SetInduction ==
  ASSUME NEW T, 0 \in T, \A k \in Nat : k \in T => k + 1 \in T
  PROVE  Nat \subseteq T
  <1> SUFFICES ASSUME Nat \ T # {} PROVE FALSE
    OBVIOUS
  <1> DEFINE B == Nat \ T
             less == OpToRel(<, Nat)
  <1>1. IsWellFoundedOn(less, Nat)
    BY NatLessThanWellFounded
  <1>2. \E x \in B : \A y \in B : ~(<<y, x>> \in less)
    <2>1. B \subseteq Nat /\ B # {}
      OBVIOUS
    <2> HIDE DEF B, less
    <2>. QED  BY <1>1, <2>1, WFMin
  <1>3. PICK x \in B : \A y \in B : ~(<<y, x>> \in less)
    BY <1>2
  <1>4. x \in Nat /\ x \notin T /\ x # 0
    BY <1>3
  <1>5. x - 1 \in Nat /\ (x - 1) + 1 = x
    BY <1>4
  <1>6. x - 1 \in T
    <2>1. <<x - 1, x>> \in less
      BY <1>4, <1>5 DEF OpToRel
    <2>. QED  BY <1>3, <1>5, <2>1
  <1>. QED
    BY <1>4, <1>5, <1>6

\* A value that is computed in N steps exists.
ComputedBy(S, b, N, step, g) ==
  g \in [0..N -> S] /\ g[0] = b /\ \A n \in 1..N : g[n] = step[<<n, g[n-1]>>]

LEMMA ComputedExists ==
  ASSUME NEW S, NEW b \in S, NEW N \in Nat, NEW step \in [(1..N) \X S -> S]
  PROVE  \E g : ComputedBy(S, b, N, step, g)
  <1> DEFINE Good(g, k) == g[0] = b /\ \A n \in 1..k : g[n] = step[<<n, g[n-1]>>]
             T == {k \in Nat : k <= N => \E g \in [0..k -> S] : Good(g, k)}
  <1>1. 0 \in T
    <2> DEFINE g == [n \in 0..0 |-> b]
    <2>1. g \in [0..0 -> S] /\ Good(g, 0)
      OBVIOUS
    <2>. QED  BY <2>1
  <1>2. ASSUME NEW k \in Nat, k \in T PROVE k + 1 \in T
    <2> SUFFICES ASSUME k + 1 <= N PROVE \E g \in [0..k+1 -> S] : Good(g, k + 1)
      OBVIOUS
    <2>1. PICK g \in [0..k -> S] : Good(g, k)
      BY <1>2
    <2> DEFINE h == [n \in 0..k+1 |-> IF n = k + 1 THEN step[<<k + 1, g[k]>>] ELSE g[n]]
    <2>2. k + 1 \in 1..N /\ g[k] \in S /\ step[<<k + 1, g[k]>>] \in S
      OBVIOUS
    <2>3. h \in [0..k+1 -> S]
      BY <2>2
    <2>4. h[0] = b
      BY <2>1
    <2>5. ASSUME NEW n \in 1..k+1 PROVE h[n] = step[<<n, h[n-1]>>]
      <3>1. n - 1 \in 0..k /\ h[n-1] = g[n-1]
        BY <2>5
      <3>2. CASE n = k + 1
        BY <3>1, <3>2
      <3>3. CASE n # k + 1
        <4>1. n \in 1..k /\ h[n] = g[n]
          BY <3>3
        <4>. QED  BY <4>1, <3>1, <2>1
      <3>. QED  BY <3>2, <3>3
    <2>. QED  BY <2>3, <2>4, <2>5
  <1>3. N \in T
    <2> HIDE DEF T
    <2>. QED  BY <1>1, <1>2, SetInduction
  <1>. QED  BY <1>3 DEF ComputedBy

LEMMA Iterated ==
  ASSUME NEW S, NEW b \in S, NEW N \in Nat, NEW step \in [(1..N) \X S -> S]
  PROVE  \E g \in [0..N -> S] : g[0] = b /\ \A n \in 1..N : g[n] = step[<<n, g[n-1]>>]
  <1>1. PICK g : ComputedBy(S, b, N, step, g)
    BY ComputedExists
  <1>. QED  BY <1>1 DEF ComputedBy

-----------------------------------------------------------------------------
(* The description (VendorDesc).                                           *)

Names == Seq(STRING)

LEMMA NormalType ==
  ASSUME NEW out \in Names, NEW name \in STRING
  PROVE  Normal(out, name) \in Names
  <1>3. Append(out, name) \in Names
    BY AppendProperties DEF Names
  <1>1. CASE out # <<>>
    <2>1. Front(out) \in Names
      BY <1>1 DEF Front, Names
    <2>. QED  BY <2>1, <1>3 DEF Normal
  <1>2. CASE out = <<>>
    BY <1>2, <1>3 DEF Normal
  <1>. QED  BY <1>1, <1>2

\* normpath is the last of its steps.
LEMMA NormpathUnfolds ==
  ASSUME NEW p \in Names
  PROVE  \E h \in [0..Len(p) -> Names] :
           /\ h[0] = <<>>
           /\ \A n \in 1..Len(p) : h[n] = Normal(h[n-1], p[n])
           /\ normpath(p) = h[Len(p)]
  <1> DEFINE N == Len(p)
             step == [x \in (1..N) \X Names |-> Normal(x[2], p[x[1]])]
             F(g) == [n \in 0..N |-> IF n = 0 THEN <<>> ELSE Normal(g[n-1], p[n])]
             h == CHOOSE g : g = F(g)
  <1>1. N \in Nat /\ \A n \in 1..N : p[n] \in STRING
    BY DEF Names
  <1>2. step \in [(1..N) \X Names -> Names]
    BY <1>1, NormalType
  <1>3. PICK g \in [0..N -> Names] :
          g[0] = <<>> /\ \A n \in 1..N : g[n] = step[<<n, g[n-1]>>]
    <2>1. <<>> \in Names
      BY DEF Names
    <2> HIDE DEF step, N
    <2>. QED  BY <1>1, <1>2, <2>1, Iterated
  <1>4. \A n \in 1..N : n - 1 \in 0..N /\ g[n] = Normal(g[n-1], p[n])
    <2> TAKE n \in 1..N
    <2>1. n - 1 \in 0..N /\ g[n-1] \in Names
      BY <1>1
    <2>. QED  BY <2>1, <1>3
  <1>5. g = F(g)
    BY <1>3, <1>4
  <1>6. h = F(h)
    <2> HIDE DEF F
    <2>. QED  BY <1>5
  <1>7. h[0] = <<>> /\ \A n \in 1..N : h[n] = Normal(h[n-1], p[n])
    <2> HIDE DEF h
    <2>. QED  BY <1>1, <1>6
  <1>8. \A n \in 0..N : h[n] \in Names
    <2> DEFINE T == {n \in Nat : n <= N => h[n] \in Names}
    <2> HIDE DEF h
    <2>1. 0 \in T
      <3>1. h[0] \in Names
        BY <1>7, EmptySeq DEF Names
      <3>. QED  BY <3>1
    <2>2. \A n \in Nat : n \in T => n + 1 \in T
      <3> SUFFICES ASSUME NEW n \in Nat, n \in T, n + 1 <= N PROVE h[n+1] \in Names
        OBVIOUS
      <3>1. h[n] \in Names /\ n + 1 \in 1..N /\ (n + 1) - 1 = n
        BY <1>1
      <3>. QED  BY <3>1, <1>1, <1>7, NormalType
    <2>3. Nat \subseteq T
      <3> HIDE DEF T
      <3>. QED  BY <2>1, <2>2, SetInduction
    <2>. QED  BY <2>3, <1>1
  <1>9. normpath(p) = h[N]
    BY DEF normpath
  <1>10. h \in [0..N -> Names]
    <2>1. \E D : h = [n \in 0..N |-> D[n]]
      <3> HIDE DEF h
      <3>. QED  BY <1>6
    <2> HIDE DEF h
    <2>. QED  BY <1>6, <1>8
  <1>. QED  BY <1>7, <1>9, <1>10

\* How many of the first n names of a path are in W, go up, and go down.
Count(p, W, n) == Cardinality({k \in 1..n : p[k] \in W})
Ups(p, n)      == Count(p, {".."}, n)
Downs(p, n)    == Count(p, STRING \ {".", ".."}, n)

LEMMA CountStep ==
  ASSUME NEW p, NEW n \in Nat, NEW W
  PROVE  /\ Count(p, W, n) \in Nat /\ Count(p, W, 0) = 0
         /\ p[n+1] \in W => Count(p, W, n + 1) = Count(p, W, n) + 1
         /\ p[n+1] \notin W => Count(p, W, n + 1) = Count(p, W, n)
  <1> DEFINE C(j) == {k \in 1..j : p[k] \in W}
  <1>1. C(n) \subseteq 1..n /\ C(0) = {} /\ n + 1 \notin C(n)
    OBVIOUS
  <1>2. IsFiniteSet(C(n)) /\ Cardinality(C(n)) \in Nat /\ Cardinality(C(0)) = 0
    <2>1. IsFiniteSet(1..n)
      BY FS_Interval
    <2>. QED  BY <1>1, <2>1, FS_Subset, FS_CardinalityType, FS_EmptySet
  <1>3. C(n + 1) = IF p[n+1] \in W THEN C(n) \cup {n + 1} ELSE C(n)
    OBVIOUS
  <1>4. \A j \in {0, n, n + 1} : Count(p, W, j) = Cardinality(C(j))
    BY DEF Count
  <1> HIDE DEF C
  <1>. QED  BY <1>1, <1>2, <1>3, <1>4, FS_AddElement

\* Inside a path as many names go down as up, at every one of its names.
LEMMA InsideCounts ==
  ASSUME NEW p \in Names, ~IsAbsolute(p), \A n \in 0..Len(p) : Ups(p, n) <= Downs(p, n)
  PROVE  Inside(p)
  <1> SUFFICES ASSUME NEW n \in 0..Len(p)
               PROVE  /\ Ups(p, n) = Cardinality({k \in 1..n : p[k] = ".."})
                      /\ Downs(p, n) = Cardinality({k \in 1..n : p[k] \notin {".", ".."}})
    BY DEF Inside
  <1>1. \A k \in 1..n : p[k] \in STRING
    BY DEF Names
  <1>2. {k \in 1..n : p[k] \in {".."}} = {k \in 1..n : p[k] = ".."}
    OBVIOUS
  <1>3. {k \in 1..n : p[k] \in STRING \ {".", ".."}} = {k \in 1..n : p[k] \notin {".", ".."}}
    BY <1>1
  <1>. QED  BY <1>2, <1>3 DEF Ups, Downs, Count

LEMMA NonEmpty ==
  ASSUME NEW s \in Names, s # <<>>
  PROVE  Len(s) \in Nat \ {0} /\ Head(s) = s[1]
  <1>1. Len(s) \in Nat \ {0}
    BY EmptySeq DEF Names
  <1>2. Head(s) = s[1]
    BY DEF Names
  <1>. QED  BY <1>1, <1>2

LEMMA Appended ==
  ASSUME NEW s \in Names, NEW n \in STRING
  PROVE  /\ Append(s, n) \in Names /\ Append(s, n) # <<>>
         /\ Len(Append(s, n)) = Len(s) + 1
         /\ \A i \in 1..Len(s) : Append(s, n)[i] = s[i]
         /\ Append(s, n)[Len(s) + 1] = n
  <1>1. Append(s, n) # <<>>
    BY AppendProperties DEF Names
  <1>2. Len(Append(s, n)) = Len(s) + 1
    BY AppendProperties DEF Names
  <1>3. \A i \in 1..Len(s) : Append(s, n)[i] = s[i]
    BY AppendProperties DEF Names
  <1>4. Append(s, n)[Len(s) + 1] = n /\ Append(s, n) \in Names
    BY AppendProperties DEF Names
  <1>. QED  BY <1>1, <1>2, <1>3, <1>4

LEMMA FrontFacts ==
  ASSUME NEW s \in Names, s # <<>>
  PROVE  /\ Last(s) = s[Len(s)]
         /\ Front(s) \in Names /\ Len(Front(s)) = Len(s) - 1
         /\ \A i \in 1..Len(s) - 1 : Front(s)[i] = s[i]
  <1>1. Len(s) \in Nat \ {0}
    BY NonEmpty
  <1>2. \A i \in 1..Len(s) : s[i] \in STRING
    BY <1>1, ElementOfSeq DEF Names
  <1>3. /\ SubSeq(s, 1, Len(s) - 1) \in Seq(STRING)
        /\ Len(SubSeq(s, 1, Len(s) - 1)) = IF 1 <= Len(s) - 1 THEN Len(s) - 1 - 1 + 1 ELSE 0
        /\ \A i \in 1..Len(s) - 1 - 1 + 1 : SubSeq(s, 1, Len(s) - 1)[i] = s[1 + i - 1]
    <2>1. \A i \in 1..Len(s) - 1 : s[i] \in STRING
      BY <1>1, <1>2
    <2>2. 1 \in Int /\ Len(s) - 1 \in Int
      BY <1>1
    <2>. QED  BY <2>1, <2>2, SubSeqProperties
  <1>4. Len(s) - 1 - 1 + 1 = Len(s) - 1 /\ \A i \in 1..Len(s) - 1 : 1 + i - 1 = i
    BY <1>1
  <1>5. Len(Front(s)) = Len(s) - 1 /\ \A i \in 1..Len(s) - 1 : Front(s)[i] = s[i]
    BY <1>1, <1>3, <1>4 DEF Front
  <1>6. Front(s) \in Names
    BY <1>3 DEF Front, Names
  <1>7. Last(s) = s[Len(s)]
    BY DEF Last
  <1>. QED  BY <1>5, <1>6, <1>7

\* A normalised path that begins with ".." or at the root stays so.
Escaped(out) == out # <<>> /\ out[1] \in {"..", ""}

LEMMA RootEscaped ==
  ASSUME NEW out, out = << "" >>
  PROVE  Escaped(out)
  BY DEF Escaped

LEMMA RootFirst ==
  \A out, name : out = <<>> /\ name = "" => Escaped(Normal(out, name))
  <1>1. Normal(<<>>, "") = << "" >>
    BY DEF Normal
  <1>. QED  BY <1>1, RootEscaped

LEMMA AbsoluteFirst ==
  ASSUME NEW p \in Names, IsAbsolute(p)
  PROVE  Len(p) \in Nat \ {0} /\ p[1] = ""
  BY NonEmpty DEF IsAbsolute

LEMMA EscapedStays ==
  ASSUME NEW out \in Names, NEW name \in STRING, Escaped(out)
  PROVE  Escaped(Normal(out, name))
  <1>1. Len(out) \in Nat \ {0}
    BY NonEmpty DEF Escaped
  <1>2. Append(out, name)[1] = out[1] /\ Append(out, name) # <<>>
    <2>1. 1 \in 1..Len(out)
      BY <1>1
    <2>. QED  BY <2>1, Appended
  <1>4. Len(out) = 1 \/ Len(out) > 1
    <2>1. \A m \in Nat \ {0} : m = 1 \/ m > 1
      OBVIOUS
    <2>. QED  BY <1>1, <2>1
  <1>3. CASE Normal(out, name) = Front(out) /\ name = ".." /\ Last(out) # ".." /\ out # << "" >>
    <2>1. Len(Front(out)) = Len(out) - 1 /\ \A i \in 1..Len(out) - 1 : Front(out)[i] = out[i]
      BY FrontFacts DEF Escaped
    <2>2. CASE Len(out) = 1
      <3>1. Last(out) = out[1]
        BY <2>2 DEF Last
      <3>2. out = << out[1] >>
        BY <2>2 DEF Names
      <3>. QED  BY <1>3, <3>1, <3>2 DEF Escaped
    <2>3. CASE Len(out) > 1
      <3>1. Front(out)[1] = out[1] /\ Len(Front(out)) # 0
        BY <1>1, <2>1, <2>3
      <3>. QED  BY <1>3, <3>1, EmptySeq DEF Escaped
    <2>. QED  BY <1>4, <2>2, <2>3
  <1>. QED  BY <1>2, <1>3 DEF Normal, Escaped

\* As long as a normalised path has not escaped it holds the names that go down
\* and have not been gone up again.
Within(p, n, out) ==
  /\ \A i \in 1..Len(out) : out[i] \notin {".", ".."}
  /\ Downs(p, n) = Ups(p, n) + Len(out)

LEMMA WithinStep ==
  ASSUME NEW p \in Names, NEW n \in Nat, n < Len(p), NEW out \in Names, Within(p, n, out)
  PROVE  Within(p, n + 1, Normal(out, p[n+1])) \/ Escaped(Normal(out, p[n+1]))
  <1> DEFINE name == p[n+1]
  <1>1. name \in STRING /\ Len(out) \in Nat
    BY ElementOfSeq, LenProperties DEF Names
  <1>2. /\ Append(out, name) # <<>> /\ Len(Append(out, name)) = Len(out) + 1
        /\ \A i \in 1..Len(out) : Append(out, name)[i] = out[i]
        /\ Append(out, name)[Len(out) + 1] = name
    BY <1>1, Appended
  <1>3. /\ Ups(p, n) \in Nat /\ Downs(p, n) \in Nat
        /\ name = ".." => Ups(p, n + 1) = Ups(p, n) + 1 /\ Downs(p, n + 1) = Downs(p, n)
        /\ name = "." => Ups(p, n + 1) = Ups(p, n) /\ Downs(p, n + 1) = Downs(p, n)
        /\ name \notin {".", ".."} =>
             Ups(p, n + 1) = Ups(p, n) /\ Downs(p, n + 1) = Downs(p, n) + 1
    <2>1. name \in {".."} <=> name = ".."
      OBVIOUS
    <2>2. name \in STRING \ {".", ".."} <=> name \notin {".", ".."}
      BY <1>1
    <2> HIDE DEF name
    <2>3. /\ name \in {".."} => Ups(p, n + 1) = Ups(p, n) + 1
          /\ name \notin {".."} => Ups(p, n + 1) = Ups(p, n)
          /\ Ups(p, n) \in Nat
      BY CountStep DEF Ups, name
    <2>4. /\ name \in STRING \ {".", ".."} => Downs(p, n + 1) = Downs(p, n) + 1
          /\ name \notin STRING \ {".", ".."} => Downs(p, n + 1) = Downs(p, n)
          /\ Downs(p, n) \in Nat
      BY CountStep DEF Downs, name
    <2>. QED  BY <2>1, <2>2, <2>3, <2>4
  <1> HIDE DEF name
  <1>4. CASE name = "." \/ (name = ".." /\ out = << "" >>)
    <2>1. CASE name = "."
      BY <1>3, <2>1 DEF Normal, Within, name
    <2>2. CASE name = ".." /\ out = << "" >>
      <3>1. Normal(out, name) = << "" >>
        BY <2>2 DEF Normal
      <3>. QED  BY <3>1, RootEscaped DEF name
    <2>. QED  BY <1>4, <2>1, <2>2
  <1>5. CASE name = ".." /\ out # <<>> /\ out # << "" >>
    <2>1. /\ Len(Front(out)) = Len(out) - 1 /\ Len(out) \in Nat \ {0}
          /\ \A i \in 1..Len(out) - 1 : Front(out)[i] = out[i]
          /\ Last(out) = out[Len(out)]
      BY <1>5, FrontFacts, NonEmpty
    <2>2. Last(out) # ".."
      BY <1>1, <2>1 DEF Within
    <2>3. Normal(out, name) = Front(out)
      BY <1>5, <2>2 DEF Normal
    <2>4. Within(p, n + 1, Front(out))
      <3>1. \A i \in 1..Len(Front(out)) : Front(out)[i] \notin {".", ".."}
        BY <2>1 DEF Within
      <3>2. Downs(p, n) = Ups(p, n) + Len(out)
        BY DEF Within
      <3>3. Ups(p, n + 1) = Ups(p, n) + 1 /\ Downs(p, n + 1) = Downs(p, n) /\ Ups(p, n) \in Nat
        BY <1>3, <1>5
      <3>4. Downs(p, n + 1) = Ups(p, n + 1) + Len(Front(out))
        BY <2>1, <3>2, <3>3
      <3>. QED  BY <3>1, <3>4 DEF Within
    <2>. QED  BY <2>3, <2>4 DEF name
  <1>6. CASE name = ".." /\ out = <<>>
    <2>1. Normal(out, name) = Append(out, name) /\ Len(out) = 0
      BY <1>6 DEF Normal
    <2>2. Append(out, name)[1] = ".."
      BY <1>2, <1>6, <2>1
    <2>. QED  BY <1>2, <2>1, <2>2 DEF Escaped, name
  <1>7. CASE name \notin {".", ".."}
    <2>1. Normal(out, name) = Append(out, name)
      BY <1>7 DEF Normal
    <2>2. Within(p, n + 1, Append(out, name))
      BY <1>1, <1>2, <1>3, <1>7 DEF Within
    <2>. QED  BY <2>1, <2>2 DEF name
  <1>. QED  BY <1>4, <1>5, <1>6, <1>7

\* A path that check_path accepts leads nowhere out of its directory.
LEMMA CheckedInside ==
  ASSUME NEW p \in Names, check_path(p)
  PROVE  Inside(p)
  <1>1. PICK h \in [0..Len(p) -> Names] :
          /\ h[0] = <<>>
          /\ \A n \in 1..Len(p) : h[n] = Normal(h[n-1], p[n])
          /\ normpath(p) = h[Len(p)]
    BY NormpathUnfolds
  <1>2. Len(p) \in Nat /\ \A n \in 1..Len(p) : p[n] \in STRING
    BY ElementOfSeq, LenProperties DEF Names
  <1>3. ASSUME NEW n \in 0..Len(p) - 1 PROVE h[n+1] = Normal(h[n], p[n+1]) /\ h[n] \in Names
    <2>1. n + 1 \in 1..Len(p) /\ (n + 1) - 1 = n
      BY <1>2
    <2>. QED  BY <1>1, <1>2, <2>1
  <1>4. ~Escaped(h[Len(p)])
    <2>1. h[Len(p)] \in Names
      BY <1>1, <1>2
    <2>2. h[Len(p)] # <<>> => Head(h[Len(p)]) = h[Len(p)][1]
      BY <2>1 DEF Names
    <2>. QED  BY <1>1, <2>2 DEF Escaped, check_path, IsAbsolute, Dotted
  <1>5. ASSUME NEW n \in 0..Len(p) PROVE ~Escaped(h[n])
    <2> DEFINE T == {m \in Nat : n + m <= Len(p) => Escaped(h[n+m])}
    <2>1. SUFFICES ASSUME Escaped(h[n]) PROVE FALSE
      OBVIOUS
    <2>2. 0 \in T
      BY <2>1
    <2>3. ASSUME NEW m \in Nat, m \in T PROVE m + 1 \in T
      <3> SUFFICES ASSUME n + m + 1 <= Len(p) PROVE Escaped(h[n+m+1])
        OBVIOUS
      <3>1. n + m \in 0..Len(p) - 1 /\ Escaped(h[n+m]) /\ p[n+m+1] \in STRING
        BY <1>2, <2>3
      <3>. QED  BY <1>3, <3>1, EscapedStays
    <2>4. Nat \subseteq T
      <3> HIDE DEF T
      <3>. QED  BY <2>2, <2>3, SetInduction
    <2>5. Len(p) - n \in Nat /\ n + (Len(p) - n) = Len(p)
      BY <1>2
    <2>6. Len(p) - n \in T
      <3> HIDE DEF T
      <3>. QED  BY <2>4, <2>5
    <2>. QED  BY <1>2, <1>4, <2>5, <2>6
  <1>6. ASSUME NEW n \in 0..Len(p) PROVE Within(p, n, h[n])
    <2> DEFINE T == {m \in Nat : m <= Len(p) => Within(p, m, h[m])}
    <2>1. 0 \in T
      <3>1. Ups(p, 0) = 0 /\ Downs(p, 0) = 0
        BY CountStep DEF Ups, Downs
      <3>. QED  BY <1>1, <3>1 DEF Within
    <2>2. ASSUME NEW m \in Nat, m \in T PROVE m + 1 \in T
      <3> SUFFICES ASSUME m + 1 <= Len(p) PROVE Within(p, m + 1, h[m+1])
        OBVIOUS
      <3>1. m \in 0..Len(p) - 1 /\ m < Len(p) /\ m + 1 \in 0..Len(p) /\ Within(p, m, h[m])
        BY <1>2, <2>2
      <3>. QED  BY <1>3, <1>5, <3>1, WithinStep
    <2>3. Nat \subseteq T
      <3> HIDE DEF T
      <3>. QED  BY <2>1, <2>2, SetInduction
    <2>. QED  BY <2>3
  <1>7. ~IsAbsolute(p)
    <2> SUFFICES ASSUME IsAbsolute(p) PROVE FALSE
      OBVIOUS
    <2>1. p[1] = ""
      BY AbsoluteFirst
    <2>2. 0 \in 0..Len(p) - 1 /\ 1 \in 0..Len(p)
      <3>1. Len(p) \in Nat \ {0}
        BY AbsoluteFirst
      <3>. QED  BY <3>1
    <2>3. h[1] = Normal(h[0], p[1])
      <3>1. h[0+1] = Normal(h[0], p[0+1])
        BY <1>3, <2>2
      <3>. QED  BY <3>1
    <2>4. Escaped(h[1])
      BY <1>1, <2>1, <2>3, RootFirst
    <2>. QED  BY <1>5, <2>2, <2>4
  <1>8. \A n \in 0..Len(p) : Ups(p, n) <= Downs(p, n)
    <2> TAKE n \in 0..Len(p)
    <2>1. Ups(p, n) \in Nat
      BY <1>2, CountStep DEF Ups
    <2>2. Len(h[n]) \in Nat
      BY <1>1, LenProperties DEF Names
    <2>. QED  BY <1>6, <2>1, <2>2 DEF Within
  <1>. QED  BY <1>7, <1>8, InsideCounts

Arguments == Seq([key : Seq(STRING), value : STRING, equals : Nat])
Described(d) ==
  "mapping" \in DOMAIN d /\ d["mapping"] # Bad =>
    \A i \in 1..Len(d["mapping"]) : d["mapping"][i] # Bad => Entry(d["mapping"][i])

\* What the invariant says of the description.
DescInv ==
  /\ todo \in Arguments
  /\ Described(data)
  /\ status \in {"arguments", "usage", "overriding", "accepted", "rejected", "crashed"}
  /\ status = "overriding" => \A i \in 1..Len(todo) : todo[i].key \in OVERRIDABLE_DESC_KEYS
  /\ status = "accepted" => FieldsOK(data) /\ Related(data)

LEMMA DescInitOK == DescInit => DescInv
  BY DescAssumption DEF DescInit, DescInv, Described, Arguments

LEMMA DescStep == DescInv /\ [DescNext]_descVars => DescInv'
  <1> SUFFICES ASSUME DescInv, [DescNext]_descVars PROVE DescInv'
    OBVIOUS
  <1>1. CASE ParseArguments
    BY <1>1 DEF DescInv, Described, ParseArguments, define_arg_type, Arguments
  <1>2. CASE apply_overrides
    <2> DEFINE key == Head(todo).key
    <2>1. todo \in Arguments /\ todo # <<>> /\ Len(todo) \in Nat \ {0}
      BY <1>2, EmptySeq DEF apply_overrides, DescInv, Arguments
    <2>2. Head(todo) = todo[1]
      BY <2>1 DEF Arguments
    <2>3. key \in OVERRIDABLE_DESC_KEYS
      BY <1>2, <2>1, <2>2 DEF apply_overrides, DescInv
    <2>4. key[1] # "mapping"
      BY <2>3 DEF OVERRIDABLE_DESC_KEYS
    <2>5. /\ todo' \in Arguments
          /\ \A i \in 1..Len(todo') : todo'[i].key \in OVERRIDABLE_DESC_KEYS
      <3>1. todo' = Tail(todo) /\ status = "overriding"
        BY <1>2 DEF apply_overrides
      <3>2. /\ Tail(todo) \in Arguments /\ Len(Tail(todo)) = Len(todo) - 1
            /\ \A i \in 1..Len(Tail(todo)) : Tail(todo)[i] = todo[i+1]
        BY <2>1, HeadTailProperties DEF Arguments
      <3>3. \A i \in 1..Len(Tail(todo)) : i + 1 \in 1..Len(todo)
        BY <2>1, <3>2
      <3>4. \A i \in 1..Len(todo) : todo[i].key \in OVERRIDABLE_DESC_KEYS
        BY <3>1 DEF DescInv
      <3>. QED  BY <3>1, <3>2, <3>3, <3>4
    <2>6. Described(data')
      <3>1. CASE UNCHANGED data
        BY <3>1 DEF DescInv, Described
      <3>2. CASE data' = Overridden(data, key, Head(todo).value)
        <4>1. /\ "mapping" \in DOMAIN data' => "mapping" \in DOMAIN data
              /\ "mapping" \in DOMAIN data => data'["mapping"] = data["mapping"]
          BY <2>4, <3>2 DEF Overridden, With
        <4>. QED  BY <4>1 DEF DescInv, Described
      <3>. QED  BY <1>2, <3>1, <3>2 DEF apply_overrides
    <2>7. status' \in {"overriding", "crashed"}
      BY <1>2 DEF apply_overrides
    <2>. QED  BY <2>5, <2>6, <2>7 DEF DescInv
  <1>3. CASE Construct
    BY <1>3 DEF DescInv, Described, Construct, Arguments
  <1>4. CASE UNCHANGED descVars
    BY <1>4 DEF DescInv, descVars, Described, FieldsOK, Related, Field, Optional, Has, Str,
                UpstreamOK, PatchRepoOK, StringsOK, MappingOK, EntryOK, Object, has_patch_dir
  <1>. QED  BY <1>1, <1>2, <1>3, <1>4 DEF DescNext

LEMMA DescInvCorrect == DescInv => DescCorrect
  <1> SUFFICES ASSUME DescInv PROVE DescCorrect
    OBVIOUS
  <1>1. DescTypeOK
    <2>1. status = "accepted" => Field(data, "upstream", UpstreamOK)
      BY DEF DescInv, FieldsOK
    <2>. QED  BY <2>1 DEF DescInv, DescTypeOK, Field, UpstreamOK, Has
  <1>2. PathsInside
    <2> SUFFICES ASSUME status = "accepted", Has(data, "mapping"),
                        NEW i \in 1..Len(data["mapping"]),
                        NEW n \in DOMAIN data["mapping"][i] \cap PathFields
                 PROVE  Inside(data["mapping"][i][n])
      BY DEF PathsInside
    <2> DEFINE e == data["mapping"][i]
    <2>1. data["mapping"] # Bad /\ MappingOK(data["mapping"])
      BY DEF DescInv, FieldsOK, Optional
    <2>2. EntryOK(e) /\ e # Bad
      BY <2>1 DEF MappingOK, EntryOK, Object
    <2>3. Entry(e)
      BY <2>1, <2>2 DEF DescInv, Described, Has
    <2> HIDE DEF e
    <2>4. n \in DOMAIN e /\ n \in PathFields /\ e[n] \in Seq(STRING) \cup {Bad}
      BY <2>3 DEF Entry, e
    <2>5. e[n] # Bad /\ check_path(e[n])
      <3>1. CASE Has(e, "str")
        <4>1. n = "str" /\ e["str"] # Bad /\ check_path(e["str"])
          BY <2>2, <2>3, <2>4, <3>1 DEF Entry, Has, EntryOK
        <4>. QED  BY <4>1
      <3>2. CASE ~Has(e, "str")
        <4>1. /\ e["from"] # Bad /\ check_path(e["from"])
              /\ e["to"] # Bad /\ check_path(e["to"])
              /\ Has(e, "patch_dir") => e["patch_dir"] # Bad /\ check_path(e["patch_dir"])
          BY <2>2, <3>2 DEF EntryOK, Field, Optional
        <4>. QED  BY <2>4, <3>2, <4>1 DEF Has, PathFields
      <3>. QED  BY <3>1, <3>2
    <2>6. e[n] \in Names
      BY <2>4, <2>5 DEF Names
    <2>7. Inside(e[n])
      BY <2>5, <2>6, CheckedInside
    <2>. QED  BY <2>7 DEF e
  <1>3. PatchDirsExist
    BY DEF DescInv, Related, PatchDirsExist, has_patch_dir, Has
  <1>. QED  BY <1>1, <1>2, <1>3 DEF DescCorrect

THEOREM AcceptedImportable == DescSpec => []DescCorrect
  <1>. QED  BY DescInitOK, DescStep, DescInvCorrect, PTL DEF DescSpec

-----------------------------------------------------------------------------
(* Filling the target directory (VendorImport).                            *)

LEMMA PathFacts ==
  ASSUME NEW p \in Path
  PROVE  Len(p) \in Nat /\ \A i \in 1..Len(p) : p[i] \in STRING
  BY LenProperties, ElementOfSeq DEF Path

LEMMA PathEqual ==
  ASSUME NEW p \in Path, NEW q \in Path, Len(p) = Len(q), \A i \in 1..Len(p) : p[i] = q[i]
  PROVE  p = q
  BY SeqEqual DEF Path

LEMMA PathConcat ==
  ASSUME NEW p \in Path, NEW q \in Path
  PROVE  /\ p \o q \in Path /\ Len(p \o q) = Len(p) + Len(q)
         /\ \A i \in 1..Len(p) : (p \o q)[i] = p[i]
         /\ \A i \in 1..Len(q) : (p \o q)[Len(p) + i] = q[i]
  <1>1. Len(p) \in Nat /\ Len(q) \in Nat
    BY PathFacts
  <1>2. /\ p \o q \in Path /\ Len(p \o q) = Len(p) + Len(q)
        /\ \A i \in 1 .. Len(p) + Len(q) : (p \o q)[i] = IF i <= Len(p) THEN p[i] ELSE q[i - Len(p)]
    BY ConcatProperties DEF Path
  <1>3. ASSUME NEW i \in 1..Len(q) PROVE (p \o q)[Len(p) + i] = q[i]
    <2>1. Len(p) + i \in 1..Len(p) + Len(q) /\ ~(Len(p) + i <= Len(p)) /\ (Len(p) + i) - Len(p) = i
      BY <1>1
    <2>. QED  BY <1>2, <2>1
  <1>4. ASSUME NEW i \in 1..Len(p) PROVE (p \o q)[i] = p[i]
    <2>1. i \in 1..Len(p) + Len(q) /\ i <= Len(p)
      BY <1>1
    <2>. QED  BY <1>2, <2>1
  <1>. QED  BY <1>2, <1>3, <1>4

\* Beginnings of paths.
Begins(q, p) == Len(q) <= Len(p) /\ \A i \in 1..Len(q) : q[i] = p[i]

LEMMA PrefixChar ==
  ASSUME NEW p \in Path, NEW q
  PROVE  q \in Prefixes(p) <=> q \in Path /\ Begins(q, p)
  <1>1. Len(p) \in Nat /\ \A i \in 1..Len(p) : p[i] \in STRING
    BY PathFacts
  <1>2. ASSUME NEW l \in 0..Len(p)
        PROVE  /\ SubSeq(p, 1, l) \in Path /\ Len(SubSeq(p, 1, l)) = l
               /\ \A i \in 1..l : SubSeq(p, 1, l)[i] = p[i]
    <2>1. \A i \in 1..l : p[i] \in STRING
      BY <1>1
    <2>2. 1 \in Int /\ l \in Int /\ l - 1 + 1 = l /\ (~(1 <= l) => l = 0)
      BY <1>1
    <2>3. /\ SubSeq(p, 1, l) \in Seq(STRING)
          /\ Len(SubSeq(p, 1, l)) = IF 1 <= l THEN l - 1 + 1 ELSE 0
          /\ \A i \in 1 .. l-1+1 : SubSeq(p, 1, l)[i] = p[1+i-1]
      BY <2>1, <2>2, SubSeqProperties
    <2>4. \A i \in 1..l : i \in 1..l-1+1 /\ 1+i-1 = i
      BY <2>2
    <2>5. \A i \in 1..l : SubSeq(p, 1, l)[i] = p[i]
      BY <2>3, <2>4
    <2>6. Len(SubSeq(p, 1, l)) = l
      BY <2>2, <2>3
    <2>. QED  BY <2>3, <2>5, <2>6 DEF Path
  <1>3. ASSUME q \in Prefixes(p) PROVE q \in Path /\ Begins(q, p)
    <2>1. PICK l \in 0..Len(p) : q = SubSeq(p, 1, l)
      BY <1>3 DEF Prefixes
    <2>2. q \in Path /\ Len(q) = l /\ \A i \in 1..l : q[i] = p[i]
      BY <1>2, <2>1
    <2>. QED  BY <1>1, <2>2 DEF Begins
  <1>4. ASSUME q \in Path, Begins(q, p) PROVE q \in Prefixes(p)
    <2>1. Len(q) \in 0..Len(p)
      BY <1>1, <1>4, PathFacts DEF Begins
    <2>2. q = SubSeq(p, 1, Len(q))
      <3> DEFINE r == SubSeq(p, 1, Len(q))
      <3>1. r \in Path /\ Len(r) = Len(q) /\ \A i \in 1..Len(q) : r[i] = p[i]
        BY <1>2, <2>1
      <3> HIDE DEF r
      <3>2. \A i \in 1..Len(q) : q[i] = r[i]
        BY <1>4, <3>1 DEF Begins
      <3>3. q = r
        BY <1>4, <3>1, <3>2, PathEqual
      <3>. QED  BY <3>3 DEF r
    <2>. QED  BY <2>1, <2>2 DEF Prefixes
  <1>. QED  BY <1>3, <1>4

LEMMA PrefixSelf ==
  ASSUME NEW p \in Path
  PROVE  p \in Prefixes(p)
  BY PrefixChar, PathFacts DEF Begins

LEMMA PrefixPath ==
  ASSUME NEW p \in Path, NEW q \in Prefixes(p)
  PROVE  q \in Path /\ Len(q) \in Nat /\ Len(q) <= Len(p)
  BY PrefixChar, PathFacts DEF Begins

LEMMA PrefixTransitive ==
  ASSUME NEW p \in Path, NEW q \in Prefixes(p), NEW r \in Prefixes(q)
  PROVE  r \in Prefixes(p)
  <1>1. q \in Path /\ Begins(q, p) /\ r \in Path /\ Begins(r, q)
    BY PrefixChar
  <1>2. Len(r) \in Nat /\ Len(q) \in Nat /\ Len(p) \in Nat
    BY <1>1, PathFacts
  <1>3. Begins(r, p)
    <2>1. \A i \in 1..Len(r) : i \in 1..Len(q)
      BY <1>1, <1>2 DEF Begins
    <2>. QED  BY <1>1, <1>2, <2>1 DEF Begins
  <1>. QED  BY <1>1, <1>3, PrefixChar

LEMMA PrefixLonger ==
  ASSUME NEW p \in Path, NEW q \in Prefixes(p), Len(q) >= Len(p)
  PROVE  q = p
  <1>1. q \in Path /\ Begins(q, p) /\ Len(q) = Len(p)
    BY PrefixChar, PathFacts DEF Begins
  <1>2. \A i \in 1..Len(q) : q[i] = p[i]
    BY <1>1 DEF Begins
  <1>. QED  BY <1>1, <1>2, PathEqual

LEMMA PrefixConcat ==
  ASSUME NEW a \in Path, NEW b \in Path
  PROVE  /\ a \in Prefixes(a \o b)
         /\ \A c \in Prefixes(b) : a \o c \in Prefixes(a \o b)
         /\ \A q \in Prefixes(a \o b) : q \in Prefixes(a) \/ \E c \in Prefixes(b) : q = a \o c
  <1> DEFINE w == a \o b
  <1>1. /\ w \in Path /\ Len(a) \in Nat /\ Len(b) \in Nat /\ Len(w) = Len(a) + Len(b)
    BY PathFacts, PathConcat
  <1>2. (\A i \in 1..Len(a) : w[i] = a[i]) /\ \A i \in 1..Len(b) : w[Len(a) + i] = b[i]
    BY PathConcat
  <1> HIDE DEF w
  <1>3. a \in Prefixes(w)
    BY <1>1, <1>2, PrefixChar DEF Begins
  <1>4. ASSUME NEW c \in Prefixes(b) PROVE a \o c \in Prefixes(w)
    <2>1. c \in Path /\ Len(c) \in Nat /\ Begins(c, b)
      BY PrefixChar, PathFacts
    <2> DEFINE v == a \o c
    <2>2. v \in Path /\ Len(v) = Len(a) + Len(c)
      BY <2>1, PathConcat
    <2>3. (\A i \in 1..Len(a) : v[i] = a[i]) /\ \A i \in 1..Len(c) : v[Len(a) + i] = c[i]
      BY <2>1, PathConcat
    <2> HIDE DEF v
    <2>4. ASSUME NEW i \in 1..Len(v) PROVE v[i] = w[i]
      <3>1. CASE i <= Len(a)
        BY <1>1, <1>2, <2>3, <3>1
      <3>2. CASE i > Len(a)
        <4>1. i - Len(a) \in 1..Len(c) /\ Len(a) + (i - Len(a)) = i /\ i - Len(a) \in 1..Len(b)
          BY <1>1, <2>1, <2>2, <3>2 DEF Begins
        <4>2. v[i] = c[i - Len(a)] /\ w[i] = b[i - Len(a)]
          BY <1>2, <2>3, <4>1
        <4>. QED  BY <2>1, <4>1, <4>2 DEF Begins
      <3>. QED  BY <1>1, <3>1, <3>2
    <2>5. Len(v) <= Len(w)
      BY <1>1, <2>1, <2>2 DEF Begins
    <2>6. v \in Prefixes(w)
      BY <1>1, <2>2, <2>4, <2>5, PrefixChar DEF Begins
    <2>. QED  BY <2>6 DEF v
  <1>5. ASSUME NEW q \in Prefixes(w), q \notin Prefixes(a) PROVE \E c \in Prefixes(b) : q = a \o c
    <2>1. q \in Path /\ Len(q) \in Nat /\ Begins(q, w)
      BY <1>1, PrefixChar, PathFacts
    <2>2. Len(q) > Len(a)
      <3> SUFFICES ASSUME Len(q) <= Len(a) PROVE FALSE
        BY <1>1, <2>1
      <3>1. Begins(q, a)
        <4>1. \A i \in 1..Len(q) : i \in 1..Len(a)
          BY <1>1
        <4>. QED  BY <1>2, <2>1, <4>1 DEF Begins
      <3>. QED  BY <1>5, <2>1, <3>1, PrefixChar
    <2> DEFINE n == Len(q) - Len(a)
               c == SubSeq(b, 1, n)
    <2>3. n \in 0..Len(b) /\ n \in Nat /\ Len(q) = Len(a) + n
      BY <1>1, <2>1, <2>2 DEF Begins
    <2>4. c \in Prefixes(b)
      <3> HIDE DEF n
      <3>. QED  BY <2>3 DEF Prefixes
    <2> HIDE DEF n
    <2>5. c \in Path /\ Len(c) = n /\ \A i \in 1..n : c[i] = b[i]
      <3>1. c \in Path /\ Begins(c, b)
        <4> HIDE DEF c
        <4>. QED  BY <2>4, PrefixChar
      <3>2. Len(c) = n
        <4>1. \A i \in 1..n : b[i] \in STRING
          BY <2>3, PathFacts
        <4>2. 1 \in Int /\ n \in Int /\ n - 1 + 1 = n /\ (~(1 <= n) => n = 0)
          BY <2>3
        <4>3. Len(c) = IF 1 <= n THEN n - 1 + 1 ELSE 0
          BY <4>1, <4>2, SubSeqProperties
        <4> HIDE DEF c
        <4>. QED  BY <4>2, <4>3
      <3> HIDE DEF c
      <3>. QED  BY <3>1, <3>2 DEF Begins
    <2> HIDE DEF c
    <2> DEFINE v == a \o c
    <2>6. v \in Path /\ Len(v) = Len(a) + n
      BY <2>5, PathConcat
    <2>7. (\A i \in 1..Len(a) : v[i] = a[i]) /\ \A i \in 1..n : v[Len(a) + i] = c[i]
      BY <2>5, PathConcat
    <2> HIDE DEF v
    <2>8. ASSUME NEW i \in 1..Len(q) PROVE q[i] = v[i]
      <3>1. q[i] = w[i]
        BY <2>1 DEF Begins
      <3>2. CASE i <= Len(a)
        BY <1>1, <1>2, <2>7, <3>1, <3>2
      <3>3. CASE i > Len(a)
        <4>1. i - Len(a) \in 1..n /\ Len(a) + (i - Len(a)) = i /\ i - Len(a) \in 1..Len(b)
          BY <1>1, <2>3, <3>3
        <4>2. v[i] = c[i - Len(a)] /\ w[i] = b[i - Len(a)]
          BY <1>2, <2>7, <4>1
        <4>. QED  BY <2>5, <3>1, <4>1, <4>2
      <3>. QED  BY <1>1, <3>2, <3>3
    <2>9. q = v
      BY <2>1, <2>3, <2>6, <2>8, PathEqual
    <2>. QED  BY <2>4, <2>9 DEF v
  <1>. QED  BY <1>3, <1>4, <1>5 DEF w

LEMMA RelativeConcat ==
  ASSUME NEW a \in Path, NEW b \in Path
  PROVE  Relative(a \o b, a) = b
  <1> DEFINE w == a \o b
             r == Relative(w, a)
  <1>1. w \in Path /\ Len(a) \in Nat /\ Len(b) \in Nat /\ Len(w) = Len(a) + Len(b)
    BY PathFacts, PathConcat
  <1>2. \A i \in 1..Len(b) : w[Len(a) + i] = b[i]
    BY PathConcat
  <1> HIDE DEF w
  <1>3. \A i \in Len(a) + 1..Len(w) : w[i] \in STRING
    BY <1>1, PathFacts
  <1>4. /\ r \in Seq(STRING)
        /\ Len(r) = IF Len(a) + 1 <= Len(w) THEN Len(w) - (Len(a) + 1) + 1 ELSE 0
        /\ \A i \in 1..Len(w) - (Len(a) + 1) + 1 : r[i] = w[(Len(a) + 1) + i - 1]
    <2>1. Len(a) + 1 \in Int /\ Len(w) \in Int
      BY <1>1
    <2>. QED  BY <1>3, <2>1, SubSeqProperties DEF Relative
  <1> HIDE DEF r
  <1>5. Len(w) - (Len(a) + 1) + 1 = Len(b) /\ (~(Len(a) + 1 <= Len(w)) => Len(b) = 0)
    BY <1>1
  <1>6. \A i \in 1..Len(b) : (Len(a) + 1) + i - 1 = Len(a) + i
    BY <1>1
  <1>7. Len(r) = Len(b) /\ \A i \in 1..Len(b) : r[i] = b[i]
    <2>1. Len(r) = Len(b)
      BY <1>4, <1>5
    <2>2. \A i \in 1..Len(b) : r[i] = w[Len(a) + i]
      BY <1>4, <1>5, <1>6
    <2>. QED  BY <1>2, <2>1, <2>2
  <1>8. r \in Path
    BY <1>4 DEF Path
  <1>9. r = b
    BY <1>7, <1>8, PathEqual
  <1>. QED  BY <1>9 DEF r, w

LEMMA RelativeOf ==
  ASSUME NEW k \in Path, NEW a \in Prefixes(k)
  PROVE  Relative(k, a) \in Path /\ a \in Path /\ k = a \o Relative(k, a)
  <1>1. a \in Path /\ Begins(a, k) /\ Len(a) \in Nat /\ Len(k) \in Nat
    BY PrefixChar, PathFacts
  <1> DEFINE r == Relative(k, a)
  <1>2. \A i \in Len(a) + 1..Len(k) : k[i] \in STRING
    BY <1>1, PathFacts
  <1>3. /\ r \in Seq(STRING)
        /\ Len(r) = IF Len(a) + 1 <= Len(k) THEN Len(k) - (Len(a) + 1) + 1 ELSE 0
        /\ \A i \in 1..Len(k) - (Len(a) + 1) + 1 : r[i] = k[(Len(a) + 1) + i - 1]
    <2>1. Len(a) + 1 \in Int /\ Len(k) \in Int
      BY <1>1
    <2>. QED  BY <1>2, <2>1, SubSeqProperties DEF Relative
  <1> HIDE DEF r
  <1>4. r \in Path
    BY <1>3 DEF Path
  <1>5. Len(a) <= Len(k) /\ Len(k) - (Len(a) + 1) + 1 = Len(k) - Len(a)
        /\ (~(Len(a) + 1 <= Len(k)) => Len(k) - Len(a) = 0)
    BY <1>1 DEF Begins
  <1>6. Len(r) = Len(k) - Len(a)
    BY <1>3, <1>5
  <1> DEFINE v == a \o r
  <1>7. v \in Path /\ Len(v) = Len(k)
    BY <1>1, <1>4, <1>6, PathConcat
  <1>8. (\A i \in 1..Len(a) : v[i] = a[i]) /\ \A i \in 1..Len(r) : v[Len(a) + i] = r[i]
    BY <1>1, <1>4, PathConcat
  <1> HIDE DEF v
  <1>9. ASSUME NEW i \in 1..Len(k) PROVE k[i] = v[i]
    <2>1. CASE i <= Len(a)
      <3>1. i \in 1..Len(a)
        BY <2>1, <1>1
      <3>. QED  BY <1>1, <1>8, <3>1 DEF Begins
    <2>2. CASE i > Len(a)
      <3>1. /\ i - Len(a) \in 1..Len(r) /\ Len(a) + (i - Len(a)) = i
            /\ i - Len(a) \in 1..Len(k) - (Len(a) + 1) + 1 /\ (Len(a) + 1) + (i - Len(a)) - 1 = i
        BY <1>1, <1>6, <2>2
      <3>. QED  BY <1>3, <1>8, <3>1
    <2>. QED  BY <1>1, <2>1, <2>2
  <1>10. k = v
    BY <1>7, <1>9, PathEqual
  <1>. QED  BY <1>1, <1>4, <1>10 DEF r, v

\* The trees whose directories are those above what they hold.
Trees     == UNION {[D -> FileCopy \cup {Dir}] : D \in SUBSET Path}
Closed(t) == \A p \in DOMAIN t : \A q \in Parents(p) : q \in DOMAIN t /\ t[q] = Dir
Goods     == {t \in Trees : Closed(t)}
Dirs(t)   == {p \in DOMAIN t : t[p] = Dir}
Held(t)   == {p \in DOMAIN t : t[p] # Dir}

LEMMA TreeFacts ==
  ASSUME NEW t \in Trees
  PROVE  /\ DOMAIN t \subseteq Path /\ t \in [DOMAIN t -> FileCopy \cup {Dir}]
         /\ \A p \in DOMAIN t : t[p] \in FileCopy \cup {Dir}
         /\ \A p \in Held(t) : t[p] \in FileCopy
  <1>1. PICK D \in SUBSET Path : t \in [D -> FileCopy \cup {Dir}]
    BY DEF Trees
  <1>. QED  BY <1>1 DEF Held

LEMMA TreeMade ==
  ASSUME NEW D \in SUBSET Path, NEW t \in [D -> FileCopy \cup {Dir}]
  PROVE  t \in Trees
  BY DEF Trees

LEMMA CopyParts ==
  ASSUME NEW c \in FileCopy
  PROVE  /\ c.origin \in Upstream /\ c.patched \in Seq(Path) /\ c # Dir
         /\ c = [origin |-> c.origin, patched |-> c.patched]
  BY ImportAssumption DEF FileCopy

LEMMA FreshCopy ==
  ASSUME NEW f \in Upstream
  PROVE  Fresh(f) \in FileCopy /\ Fresh(f) # Dir /\ Fresh(f).origin = f /\ Fresh(f).patched = <<>>
  <1>1. <<>> \in Seq(Path)
    BY EmptySeq
  <1>2. Fresh(f).origin = f /\ Fresh(f).patched = <<>>
    BY DEF Fresh
  <1>3. Fresh(f) \in FileCopy
    BY <1>1 DEF Fresh, FileCopy
  <1>. QED  BY <1>2, <1>3, ImportAssumption

LEMMA OverlayFacts ==
  ASSUME NEW new \in Trees, NEW t \in Trees
  PROVE  /\ Overlay(new, t) \in Trees /\ DOMAIN Overlay(new, t) = DOMAIN new \cup DOMAIN t
         /\ \A p \in DOMAIN new : Overlay(new, t)[p] = new[p]
         /\ \A p \in DOMAIN t : p \notin DOMAIN new => Overlay(new, t)[p] = t[p]
  <1>1. /\ DOMAIN new \subseteq Path /\ \A p \in DOMAIN new : new[p] \in FileCopy \cup {Dir}
        /\ DOMAIN t \subseteq Path /\ \A p \in DOMAIN t : t[p] \in FileCopy \cup {Dir}
    BY TreeFacts
  <1> DEFINE D == DOMAIN new \cup DOMAIN t
             u == [p \in D |-> IF p \in DOMAIN new THEN new[p] ELSE t[p]]
  <1>2. D \in SUBSET Path /\ u \in [D -> FileCopy \cup {Dir}]
    BY <1>1
  <1>3. u \in Trees
    <2> HIDE DEF u, D
    <2>. QED  BY <1>2, TreeMade
  <1>. QED  BY <1>3 DEF Overlay

\* What is below a path that does not exist does not exist either.
LEMMA NothingBelow ==
  ASSUME NEW t \in Goods, NEW to \in Path, to \notin DOMAIN t, NEW p \in DOMAIN t
  PROVE  to \notin Prefixes(p)
  BY DEF Goods, Closed, Parents

LEMMA EmptyPath ==
  ASSUME NEW p \in Path
  PROVE  <<>> \in Path /\ <<>> \in Prefixes(p) /\ p \o <<>> = p
  <1>1. <<>> \in Path /\ Len(<<>>) = 0
    BY EmptySeq DEF Path
  <1>2. p \o <<>> = p
    BY ConcatEmptySeq DEF Path
  <1>3. Begins(<<>>, p)
    BY <1>1, PathFacts DEF Begins
  <1>. QED  BY <1>1, <1>2, <1>3, PrefixChar

LEMMA OneName ==
  ASSUME NEW S, NEW x \in S
  PROVE  <<x>> \in Seq(S)
  OBVIOUS

LEMMA ParentsOfChild ==
  ASSUME NEW a \in Path, NEW x \in STRING
  PROVE  Append(a, x) \in Path /\ Parents(Append(a, x)) = Prefixes(a)
  <1> DEFINE b == Append(a, x)
  <1>1. b \in Path /\ Len(b) = Len(a) + 1 /\ \A i \in 1..Len(a) : b[i] = a[i]
    <2>1. a \in Seq(STRING)
      BY DEF Path
    <2>2. b = a \o <<x>>
      BY <2>1, AppendIsConcat
    <2> HIDE DEF b
    <2>3. <<x>> \in Path /\ Len(<<x>>) = 1
      <3>1. <<x>> \in Seq(STRING)
        BY OneName
      <3>2. Len(<<x>>) = 1
        OBVIOUS
      <3>. QED  BY <3>1, <3>2 DEF Path
    <2>. QED  BY <2>2, <2>3, PathConcat
  <1> HIDE DEF b
  <1>2. Len(a) \in Nat
    BY PathFacts
  <1>3. a \in Prefixes(b) /\ a # b
    BY <1>1, <1>2, PrefixChar DEF Begins
  <1>4. ASSUME NEW q \in Prefixes(a) PROVE q \in Parents(b)
    <2>1. q \in Prefixes(b)
      BY <1>1, <1>3, PrefixTransitive
    <2>2. Len(q) \in Nat /\ Len(q) <= Len(a)
      BY PrefixPath
    <2>3. q # b
      BY <1>1, <1>2, <2>2
    <2>. QED  BY <2>1, <2>3 DEF Parents
  <1>5. ASSUME NEW q \in Parents(b) PROVE q \in Prefixes(a)
    <2>1. q \in Prefixes(b) /\ q # b
      BY DEF Parents
    <2>2. q \in Path /\ Len(q) \in Nat /\ Begins(q, b)
      BY <1>1, <2>1, PrefixChar, PathFacts
    <2>3. Len(q) < Len(b)
      BY <1>1, <1>2, <2>1, <2>2, PrefixLonger
    <2>4. Len(q) <= Len(a) /\ \A i \in 1..Len(q) : i \in 1..Len(a)
      BY <1>1, <1>2, <2>2, <2>3
    <2>5. Begins(q, a)
      BY <1>1, <2>2, <2>4 DEF Begins
    <2>. QED  BY <2>2, <2>5, PrefixChar
  <1>. QED  BY <1>1, <1>4, <1>5 DEF b

LEMMA MkdirFacts ==
  ASSUME NEW t \in Goods, NEW to \in Path, NEW w \in mkdir(to, t)
  PROVE  /\ w \in Goods /\ Dirs(w) = Dirs(t) \cup Parents(to) /\ Held(w) = Held(t)
         /\ \A p \in Held(t) : w[p] = t[p]
  <1> DEFINE new == [p \in Parents(to) |-> Dir]
  <1>1. t \in Trees /\ Closed(t)
    BY DEF Goods
  <1>2. Parents(to) \in SUBSET Path /\ new \in [Parents(to) -> FileCopy \cup {Dir}]
    BY PrefixPath DEF Parents
  <1>3. new \in Trees /\ DOMAIN new = Parents(to) /\ \A p \in Parents(to) : new[p] = Dir
    BY <1>2, TreeMade
  <1> HIDE DEF new
  <1>4. w = Overlay(new, t) /\ \A p \in Parents(to) \cap DOMAIN t : t[p] = Dir
    BY DEF mkdir, new
  <1>5. /\ w \in Trees /\ DOMAIN w = Parents(to) \cup DOMAIN t
        /\ \A p \in Parents(to) : w[p] = Dir
        /\ \A p \in DOMAIN t : w[p] = t[p]
    BY <1>1, <1>3, <1>4, OverlayFacts
  <1>6. ASSUME NEW p \in DOMAIN w, NEW q \in Parents(p) PROVE q \in DOMAIN w /\ w[q] = Dir
    <2>1. CASE p \in DOMAIN t
      BY <1>1, <1>5, <2>1 DEF Closed
    <2>2. CASE p \in Parents(to)
      <3>1. p \in Prefixes(to) /\ q \in Prefixes(p) /\ q # p
        BY <2>2 DEF Parents
      <3>2. q \in Prefixes(to)
        BY <3>1, PrefixTransitive
      <3>3. q # to
        <4> SUFFICES ASSUME q = to PROVE FALSE
          OBVIOUS
        <4>1. p \in Path /\ Len(p) \in Nat /\ Len(p) <= Len(to)
          BY <3>1, PrefixPath
        <4>. QED  BY <3>1, <4>1, PrefixLonger
      <3>. QED  BY <1>5, <3>2, <3>3 DEF Parents
    <2>. QED  BY <1>5, <2>1, <2>2
  <1>7. w \in Goods
    BY <1>5, <1>6 DEF Goods, Closed
  <1>. QED  BY <1>4, <1>5, <1>7 DEF Dirs, Held

LEMMA CopyFacts ==
  ASSUME NEW t \in Goods, NEW to \in Path, Parents(to) \subseteq Dirs(t),
         NEW from \in Upstream, NEW w \in copy(from, to, t)
  PROVE  /\ w \in Goods /\ Dirs(w) = Dirs(t) /\ Landing(from, to, t) \notin Dirs(t)
         /\ Held(w) = Held(t) \cup {Landing(from, to, t)}
         /\ w[Landing(from, to, t)] = Fresh(from)
         /\ \A p \in Held(t) : p # Landing(from, to, t) => w[p] = t[p]
  <1> DEFINE d == Landing(from, to, t)
             new == [p \in {d} |-> Fresh(from)]
  <1>1. t \in Trees /\ Closed(t)
    BY DEF Goods
  <1>2. Last(from) \in STRING
    <2>1. from \in Path /\ from # <<>>
      BY ImportAssumption
    <2>2. Len(from) \in Nat \ {0}
      BY <2>1, EmptySeq DEF Path
    <2>3. Len(from) \in 1..Len(from)
      BY <2>2
    <2>. QED  BY <2>1, <2>3, PathFacts DEF Last
  <1>3. d \in Path /\ Parents(d) \subseteq Dirs(t)
    <2>1. CASE to \in DOMAIN t /\ t[to] = Dir
      <3>1. d = Append(to, Last(from))
        BY <2>1 DEF Landing
      <3> HIDE DEF d
      <3>2. d \in Path /\ Parents(d) = Prefixes(to)
        BY <1>2, <3>1, ParentsOfChild
      <3>. QED  BY <2>1, <3>2 DEF Parents, Dirs
    <2>2. CASE ~(to \in DOMAIN t /\ t[to] = Dir)
      <3>1. d = to
        BY <2>2 DEF Landing
      <3> HIDE DEF d
      <3>. QED  BY <3>1
    <2>. QED  BY <2>1, <2>2
  <1>4. w = Overlay(new, t) /\ ~(d \in DOMAIN t /\ t[d] = Dir)
    BY DEF copy
  <1> HIDE DEF d
  <1>5. {d} \in SUBSET Path /\ new \in [{d} -> FileCopy \cup {Dir}]
    BY <1>3, FreshCopy
  <1>6. new \in Trees /\ DOMAIN new = {d} /\ new[d] = Fresh(from)
    <2>1. DOMAIN new = {d} /\ new[d] = Fresh(from)
      OBVIOUS
    <2> HIDE DEF new
    <2>. QED  BY <2>1, <1>5, TreeMade
  <1> HIDE DEF new
  <1>7. /\ w \in Trees /\ DOMAIN w = {d} \cup DOMAIN t /\ w[d] = Fresh(from)
        /\ \A p \in DOMAIN t : p # d => w[p] = t[p]
    BY <1>1, <1>4, <1>6, OverlayFacts
  <1>8. ASSUME NEW p \in DOMAIN w, NEW q \in Parents(p) PROVE q \in DOMAIN w /\ w[q] = Dir
    <2>1. q \in Dirs(t)
      BY <1>1, <1>3, <1>7 DEF Closed, Dirs
    <2>. QED  BY <1>4, <1>7, <2>1 DEF Dirs
  <1>9. w \in Goods
    BY <1>7, <1>8 DEF Goods, Closed
  <1>10. Fresh(from) # Dir
    BY FreshCopy
  <1>. QED  BY <1>4, <1>7, <1>9, <1>10 DEF d, Dirs, Held

\* Where a kept path of the clone arrives, and which one arrives there.
Arrives(k, from, to) == to \o Relative(k, from)
Source(p, from, to)  == from \o Relative(p, to)

LEMMA KeptArrives ==
  ASSUME NEW from \in Path, NEW to \in Path, NEW k \in Kept(from)
  PROVE  /\ k \in Path /\ from \in Prefixes(k) /\ Relative(k, from) \in Path
         /\ k = from \o Relative(k, from)
         /\ Arrives(k, from, to) \in Path /\ to \in Prefixes(Arrives(k, from, to))
         /\ Source(Arrives(k, from, to), from, to) = k
  <1>1. PICK f \in Upstream : k \in Prefixes(f) /\ from \in Prefixes(k)
    BY DEF Kept
  <1>2. f \in Path
    BY ImportAssumption
  <1>3. k \in Path
    BY <1>1, <1>2, PrefixPath
  <1>4. Relative(k, from) \in Path /\ k = from \o Relative(k, from)
    BY <1>1, <1>3, RelativeOf
  <1>5. Arrives(k, from, to) \in Path /\ to \in Prefixes(Arrives(k, from, to))
    BY <1>4, PathConcat, PrefixConcat DEF Arrives
  <1>6. Source(Arrives(k, from, to), from, to) = k
    BY <1>4, RelativeConcat DEF Arrives, Source
  <1>. QED  BY <1>1, <1>3, <1>4, <1>5, <1>6

\* Above a kept path, down to the directory copied, all is kept and none a file.
LEMMA KeptAbove ==
  ASSUME NEW from \in Path, NEW to \in Path, NEW k \in Kept(from),
         NEW q \in Parents(Arrives(k, from, to)), q \notin Parents(to)
  PROVE  \E j \in Kept(from) \ Upstream : q = Arrives(j, from, to)
  <1> DEFINE r == Relative(k, from)
  <1>1. /\ k \in Path /\ from \in Prefixes(k) /\ r \in Path /\ k = from \o r
        /\ Arrives(k, from, to) = to \o r
    BY KeptArrives DEF Arrives
  <1> HIDE DEF r
  <1>2. q \in Prefixes(to \o r) /\ q # to \o r
    BY <1>1 DEF Parents
  <1>3. \E c \in Prefixes(r) : q = to \o c
    <2>1. CASE q \in Prefixes(to)
      <3>1. q = to
        BY <2>1 DEF Parents
      <3>2. <<>> \in Prefixes(r) /\ to \o <<>> = to
        BY <1>1, EmptyPath
      <3>. QED  BY <3>1, <3>2
    <2>. QED  BY <1>1, <1>2, <2>1, PrefixConcat
  <1>4. PICK c \in Prefixes(r) : q = to \o c
    BY <1>3
  <1>5. c \in Path /\ c # r
    BY <1>1, <1>2, <1>4, PrefixPath
  <1> DEFINE j == from \o c
  <1>6. j \in Path /\ from \in Prefixes(j) /\ Relative(j, from) = c /\ j \in Prefixes(k)
    BY <1>1, <1>4, <1>5, PathConcat, PrefixConcat, RelativeConcat
  <1>7. j # k
    <2> SUFFICES ASSUME j = k PROVE FALSE
      OBVIOUS
    <2>1. Relative(k, from) = r
      BY <1>1, RelativeConcat
    <2>. QED  BY <1>5, <1>6, <2>1
  <1> HIDE DEF j
  <1>8. PICK f \in Upstream : k \in Prefixes(f)
    BY DEF Kept
  <1>9. f \in Path /\ j \in Prefixes(f)
    <2>1. f \in Path
      BY ImportAssumption
    <2>. QED  BY <1>6, <1>8, <2>1, PrefixTransitive
  <1>10. ~Ignored(j, from)
    <2>1. ~Ignored(k, from)
      BY DEF Kept
    <2>2. ASSUME NEW p \in Prefixes(j) PROVE p \in Prefixes(k)
      BY <1>1, <1>6, <2>2, PrefixTransitive
    <2>. QED  BY <2>1, <2>2 DEF Ignored
  <1>11. j \in Kept(from)
    BY <1>6, <1>8, <1>9, <1>10 DEF Kept
  <1>12. j \notin Upstream
    <2> SUFFICES ASSUME j \in Upstream PROVE FALSE
      OBVIOUS
    <2>1. j = f
      BY <1>8, <1>9, ImportAssumption
    <2>2. Len(j) \in Nat /\ Len(k) \in Nat /\ Len(f) \in Nat /\ Len(k) <= Len(f)
      BY <1>1, <1>6, <1>8, <1>9, PathFacts, PrefixPath
    <2>3. k = j
      BY <1>1, <1>6, <1>8, <2>1, <2>2, PrefixLonger
    <2>. QED  BY <1>7, <2>3
  <1>13. q = Arrives(j, from, to)
    BY <1>4, <1>6 DEF Arrives
  <1>. QED  BY <1>11, <1>12, <1>13

LEMMA CopiedFacts ==
  ASSUME NEW from \in Path, NEW to \in Path
  PROVE  /\ CopiedTree(from, to) \in Trees
         /\ DOMAIN CopiedTree(from, to) = {Arrives(k, from, to) : k \in Kept(from)}
         /\ \A k \in Kept(from) : CopiedTree(from, to)[Arrives(k, from, to)]
                                    = IF k \in Upstream THEN Fresh(k) ELSE Dir
  <1> DEFINE D == {Arrives(k, from, to) : k \in Kept(from)}
             c == [p \in D |-> IF Source(p, from, to) \in Upstream
                                 THEN Fresh(Source(p, from, to)) ELSE Dir]
  <1>1. CopiedTree(from, to) = c
    BY DEF CopiedTree, Arrives, Source
  <1>2. ASSUME NEW k \in Kept(from)
        PROVE  c[Arrives(k, from, to)] = IF k \in Upstream THEN Fresh(k) ELSE Dir
    BY KeptArrives
  <1>3. D \in SUBSET Path
    BY KeptArrives
  <1>4. ASSUME NEW p \in D PROVE c[p] \in FileCopy \cup {Dir}
    BY FreshCopy
  <1>5. c \in [D -> FileCopy \cup {Dir}] /\ DOMAIN c = D
    BY <1>4
  <1> HIDE DEF c
  <1>. QED  BY <1>1, <1>2, <1>3, <1>5, TreeMade

LEMMA CopytreeFacts ==
  ASSUME NEW t \in Goods, NEW to \in Path, Parents(to) \subseteq Dirs(t),
         NEW from \in Path, NEW w \in copytree(from, to, t)
  PROVE  /\ w \in Goods /\ to \notin DOMAIN t
         /\ Dirs(w) = Dirs(t) \cup {Arrives(k, from, to) : k \in Kept(from) \ Upstream}
         /\ Held(w) = Held(t) \cup {Arrives(k, from, to) : k \in Kept(from) \cap Upstream}
         /\ \A k \in Kept(from) \cap Upstream : w[Arrives(k, from, to)] = Fresh(k)
         /\ \A p \in Held(t) : w[p] = t[p]
  <1> DEFINE new == CopiedTree(from, to)
             D == {Arrives(k, from, to) : k \in Kept(from)}
  <1>1. t \in Trees /\ Closed(t)
    BY DEF Goods
  <1>2. w = Overlay(new, t) /\ to \notin DOMAIN t
    BY DEF copytree
  <1>3. /\ new \in Trees /\ DOMAIN new = D
        /\ \A k \in Kept(from) : new[Arrives(k, from, to)] = IF k \in Upstream THEN Fresh(k) ELSE Dir
    BY CopiedFacts
  <1> HIDE DEF new
  <1>4. /\ w \in Trees /\ DOMAIN w = D \cup DOMAIN t
        /\ \A p \in D : w[p] = new[p]
        /\ \A p \in DOMAIN t : p \notin D => w[p] = t[p]
    BY <1>1, <1>2, <1>3, OverlayFacts
  <1>5. ASSUME NEW p \in D PROVE p \notin DOMAIN t
    <2>1. to \in Prefixes(p)
      BY KeptArrives
    <2>. QED  BY <1>2, <2>1, NothingBelow
  <1>6. \A p \in DOMAIN t : w[p] = t[p]
    BY <1>4, <1>5
  <1>7. \A k \in Kept(from) : /\ Arrives(k, from, to) \in D
                              /\ w[Arrives(k, from, to)] = IF k \in Upstream THEN Fresh(k) ELSE Dir
    BY <1>3, <1>4
  <1>8. ASSUME NEW p \in DOMAIN w, NEW q \in Parents(p) PROVE q \in DOMAIN w /\ w[q] = Dir
    <2>1. CASE p \in DOMAIN t
      BY <1>1, <1>4, <1>6, <2>1 DEF Closed
    <2>2. CASE p \in D
      <3>1. PICK k \in Kept(from) : p = Arrives(k, from, to)
        BY <2>2
      <3>2. CASE q \in Parents(to)
        BY <1>4, <1>6, <3>2 DEF Dirs
      <3>3. CASE q \notin Parents(to)
        <4>1. PICK j \in Kept(from) \ Upstream : q = Arrives(j, from, to)
          BY <3>1, <3>3, KeptAbove
        <4>. QED  BY <1>4, <1>7, <4>1
      <3>. QED  BY <3>2, <3>3
    <2>. QED  BY <1>4, <2>1, <2>2
  <1>9. w \in Goods
    BY <1>4, <1>8 DEF Goods, Closed
  <1>10. \A k \in Upstream : Fresh(k) # Dir
    BY FreshCopy
  <1>11. ASSUME NEW k \in Kept(from), k \notin Upstream PROVE Arrives(k, from, to) \in Dirs(w)
    BY <1>4, <1>7, <1>11 DEF Dirs
  <1>12. ASSUME NEW k \in Kept(from), k \in Upstream PROVE Arrives(k, from, to) \in Held(w)
    BY <1>4, <1>7, <1>10, <1>12 DEF Held
  <1>13. Dirs(w) = Dirs(t) \cup {Arrives(k, from, to) : k \in Kept(from) \ Upstream}
    <2>1. ASSUME NEW p \in Dirs(w) PROVE p \in Dirs(t) \cup {Arrives(k, from, to) : k \in Kept(from) \ Upstream}
      BY <1>4, <1>6, <1>12 DEF Dirs, Held
    <2>2. Dirs(t) \subseteq Dirs(w)
      BY <1>4, <1>6 DEF Dirs
    <2>. QED  BY <1>11, <2>1, <2>2
  <1>14. Held(w) = Held(t) \cup {Arrives(k, from, to) : k \in Kept(from) \cap Upstream}
    <2>1. ASSUME NEW p \in Held(w) PROVE p \in Held(t) \cup {Arrives(k, from, to) : k \in Kept(from) \cap Upstream}
      BY <1>4, <1>6, <1>11 DEF Dirs, Held
    <2>2. Held(t) \subseteq Held(w)
      BY <1>4, <1>6 DEF Held
    <2>. QED  BY <1>12, <2>1, <2>2
  <1>15. \A k \in Kept(from) \cap Upstream : w[Arrives(k, from, to)] = Fresh(k)
    BY <1>7
  <1>16. \A p \in Held(t) : w[p] = t[p]
    BY <1>6 DEF Held
  <1>. QED  BY <1>2, <1>9, <1>13, <1>14, <1>15, <1>16

\* What an entry makes of a tree, before its patches.
DirsOf(e) ==
  Parents(e.to) \cup (IF Single(e) THEN {} ELSE {Arrives(k, e.from, e.to) : k \in Kept(e.from) \ Upstream})
FilesOf(e, t) ==
  IF Single(e) THEN {Landing(e.from, e.to, t)}
  ELSE {Arrives(k, e.from, e.to) : k \in Kept(e.from) \cap Upstream}
OriginOf(e, p) == IF Single(e) THEN e.from ELSE Source(p, e.from, e.to)

Put(e, t, w) ==
  /\ w \in Goods /\ Dirs(w) = Dirs(t) \cup DirsOf(e) /\ Held(w) = Held(t) \cup FilesOf(e, t)
  /\ \A p \in FilesOf(e, t) : w[p] = Fresh(OriginOf(e, p)) /\ OriginOf(e, p) \in Upstream
  /\ \A p \in Held(t) \ FilesOf(e, t) : w[p] = t[p]
  /\ ~Single(e) => \A p \in DOMAIN t : e.to \notin Prefixes(p)

LEMMA EntryFacts ==
  ASSUME NEW e \in Entries
  PROVE  /\ e.from \in Path /\ e.to \in Path /\ e.patches \in Seq(Path) /\ Len(e.patches) \in Nat
         /\ \A n \in 1..Len(e.patches) : e.patches[n] \in Path /\ e.to \o e.patches[n] \in Path
  <1>1. e.from \in Path /\ e.to \in Path /\ e.patches \in Seq(Path)
    BY DEF Entries
  <1>2. Len(e.patches) \in Nat /\ \A n \in 1..Len(e.patches) : e.patches[n] \in Path
    BY <1>1, LenProperties, ElementOfSeq
  <1>. QED  BY <1>1, <1>2, PathConcat

LEMMA LandingFacts ==
  ASSUME NEW from, NEW to, NEW t
  PROVE  Landing(from, to, t) = IF to \in Dirs(t) THEN Append(to, Last(from)) ELSE to
  BY DEF Landing, Dirs

LEMMA PlacedFacts ==
  ASSUME NEW e \in Entries, NEW t \in Goods, NEW w \in Placed(e, t)
  PROVE  Put(e, t, w)
  <1>1. e.from \in Path /\ e.to \in Path
    BY EntryFacts
  <1>2. PICK u \in mkdir(e.to, t) :
          w \in IF e.from \in Upstream THEN copy(e.from, e.to, u) ELSE copytree(e.from, e.to, u)
    BY DEF Placed
  <1>3. /\ u \in Goods /\ Dirs(u) = Dirs(t) \cup Parents(e.to) /\ Held(u) = Held(t)
        /\ \A p \in Held(t) : u[p] = t[p]
    BY <1>1, MkdirFacts
  <1>4. Parents(e.to) \subseteq Dirs(u)
    BY <1>3
  <1>5. CASE Single(e)
    <2>1. e.from \in Upstream /\ w \in copy(e.from, e.to, u)
      BY <1>2, <1>5 DEF Single
    <2>2. Landing(e.from, e.to, u) = Landing(e.from, e.to, t)
      BY <1>3, LandingFacts DEF Parents
    <2> DEFINE d == Landing(e.from, e.to, t)
    <2>3. /\ w \in Goods /\ Dirs(w) = Dirs(u) /\ Held(w) = Held(u) \cup {d} /\ w[d] = Fresh(e.from)
          /\ \A p \in Held(u) : p # d => w[p] = u[p]
      BY <1>1, <1>3, <1>4, <2>1, <2>2, CopyFacts
    <2>4. DirsOf(e) = Parents(e.to) /\ FilesOf(e, t) = {d} /\ OriginOf(e, d) = e.from
      BY <1>5 DEF DirsOf, FilesOf, OriginOf
    <2> HIDE DEF d
    <2>. QED  BY <1>3, <1>5, <2>1, <2>3, <2>4 DEF Put
  <1>6. CASE ~Single(e)
    <2>1. w \in copytree(e.from, e.to, u)
      BY <1>2, <1>6 DEF Single
    <2> DEFINE A == {Arrives(k, e.from, e.to) : k \in Kept(e.from) \ Upstream}
               B == {Arrives(k, e.from, e.to) : k \in Kept(e.from) \cap Upstream}
    <2>2. /\ w \in Goods /\ e.to \notin DOMAIN u /\ Dirs(w) = Dirs(u) \cup A /\ Held(w) = Held(u) \cup B
          /\ \A k \in Kept(e.from) \cap Upstream : w[Arrives(k, e.from, e.to)] = Fresh(k)
          /\ \A p \in Held(u) : w[p] = u[p]
      BY <1>1, <1>3, <1>4, <2>1, CopytreeFacts
    <2>3. DirsOf(e) = Parents(e.to) \cup A /\ FilesOf(e, t) = B
      BY <1>6 DEF DirsOf, FilesOf
    <2>4. ASSUME NEW p \in B PROVE w[p] = Fresh(OriginOf(e, p)) /\ OriginOf(e, p) \in Upstream
      <3>1. PICK k \in Kept(e.from) \cap Upstream : p = Arrives(k, e.from, e.to)
        OBVIOUS
      <3>2. OriginOf(e, p) = k
        BY <1>1, <1>6, <3>1, KeptArrives DEF OriginOf
      <3>. QED  BY <2>2, <3>1, <3>2
    <2>5. e.to \notin DOMAIN t
      BY <1>3, <2>2 DEF Dirs, Held
    <2>6. \A p \in DOMAIN t : e.to \notin Prefixes(p)
      BY <1>1, <2>5, NothingBelow
    <2> HIDE DEF A, B
    <2>7. Dirs(w) = Dirs(t) \cup DirsOf(e) /\ Held(w) = Held(t) \cup FilesOf(e, t)
      BY <1>3, <2>2, <2>3
    <2>8. \A p \in Held(t) \ FilesOf(e, t) : w[p] = t[p]
      BY <1>3, <2>2
    <2>. QED  BY <2>2, <2>3, <2>4, <2>6, <2>7, <2>8 DEF Put
  <1>. QED  BY <1>5, <1>6

\* The patches of an entry's first n that change the file p.
PatchSteps(e, p, g) ==
  /\ g \in [0..Len(e.patches) -> Seq(Path)] /\ g[0] = <<>>
  /\ \A n \in 1..Len(e.patches) :
       g[n] = IF e.to \o e.patches[n] = p THEN Append(g[n-1], e.patches[n]) ELSE g[n-1]
PatchesTo(e, p)    == CHOOSE g : PatchSteps(e, p, g)
PatchesOn(e, p)    == PatchesTo(e, p)[Len(e.patches)]

LEMMA PatchesExist ==
  ASSUME NEW e \in Entries, NEW p
  PROVE  PatchSteps(e, p, PatchesTo(e, p))
  <1> DEFINE N == Len(e.patches)
             S == Seq(Path)
             step == [x \in (1..N) \X S |->
                        IF e.to \o e.patches[x[1]] = p THEN Append(x[2], e.patches[x[1]]) ELSE x[2]]
  <1>1. N \in Nat /\ <<>> \in S /\ \A n \in 1..N : e.patches[n] \in Path
    BY EntryFacts, EmptySeq
  <1>2. ASSUME NEW n \in 1..N, NEW s \in S
        PROVE  /\ step[<<n, s>>] = IF e.to \o e.patches[n] = p THEN Append(s, e.patches[n]) ELSE s
               /\ step[<<n, s>>] \in S
    <2>1. Append(s, e.patches[n]) \in S
      BY <1>1, AppendProperties
    <2>2. <<n, s>> \in (1..N) \X S /\ <<n, s>>[1] = n /\ <<n, s>>[2] = s
      OBVIOUS
    <2>3. step[<<n, s>>] = IF e.to \o e.patches[n] = p THEN Append(s, e.patches[n]) ELSE s
      BY <2>2
    <2>. QED  BY <2>1, <2>3
  <1>3. step \in [(1..N) \X S -> S]
    <2>1. ASSUME NEW x \in (1..N) \X S PROVE step[x] \in S
      <3>1. PICK n \in 1..N, s \in S : x = <<n, s>>
        OBVIOUS
      <3>. QED  BY <1>2, <3>1
    <2>. QED  BY <2>1
  <1>4. PICK g \in [0..N -> S] : g[0] = <<>> /\ \A n \in 1..N : g[n] = step[<<n, g[n-1]>>]
    <2> HIDE DEF step, S, N
    <2>. QED  BY <1>1, <1>3, Iterated
  <1>5. \A n \in 1..N : g[n-1] \in S
    BY <1>1, <1>4
  <1>6. \A n \in 1..N : g[n] = IF e.to \o e.patches[n] = p THEN Append(g[n-1], e.patches[n]) ELSE g[n-1]
    <2> HIDE DEF step, S
    <2>. QED  BY <1>2, <1>4, <1>5
  <1>7. PatchSteps(e, p, g)
    BY <1>4, <1>6 DEF PatchSteps
  <1>. QED  BY <1>7 DEF PatchesTo

Changed(to, file, t, u) ==
  LET q == to \o file
  IN  /\ u \in Goods /\ Dirs(u) = Dirs(t) /\ Held(u) = Held(t) /\ q \in Held(t)
      /\ u[q] = [origin |-> t[q].origin, patched |-> Append(t[q].patched, file)]
      /\ \A p \in Held(t) : p # q => u[p] = t[p]

LEMMA ApplyFacts ==
  ASSUME NEW t \in Goods, NEW to \in Path, NEW file \in Path, NEW u \in apply_patch(to, file, t)
  PROVE  Changed(to, file, t, u)
  <1> DEFINE p == to \o file
             c == [t[p] EXCEPT !.patched = Append(@, file)]
  <1>1. t \in Trees /\ Closed(t)
    BY DEF Goods
  <1>2. DOMAIN t \subseteq Path /\ t \in [DOMAIN t -> FileCopy \cup {Dir}]
    BY <1>1, TreeFacts
  <1>3. p \in DOMAIN t /\ t[p] # Dir /\ u = [t EXCEPT ![p] = c]
    <2>1. u = [t EXCEPT ![p].patched = Append(@, file)] /\ p \in DOMAIN t /\ t[p] # Dir
      BY DEF apply_patch
    <2>2. [t EXCEPT ![p].patched = Append(@, file)] = [t EXCEPT ![p] = c]
      OBVIOUS
    <2>. QED  BY <2>1, <2>2
  <1>4. t[p] \in FileCopy
    BY <1>2, <1>3
  <1>5. c \in FileCopy /\ c = [origin |-> t[p].origin, patched |-> Append(t[p].patched, file)]
    <2>1. /\ t[p].origin \in Upstream /\ t[p].patched \in Seq(Path)
          /\ t[p] = [origin |-> t[p].origin, patched |-> t[p].patched]
      BY <1>4, CopyParts
    <2>2. Append(t[p].patched, file) \in Seq(Path)
      BY <2>1, AppendProperties
    <2>3. c = [origin |-> t[p].origin, patched |-> Append(t[p].patched, file)]
      BY <1>4 DEF FileCopy
    <2>. QED  BY <2>1, <2>2, <2>3 DEF FileCopy
  <1> HIDE DEF c, p
  <1>6. /\ u \in [DOMAIN t -> FileCopy \cup {Dir}] /\ DOMAIN u = DOMAIN t /\ u[p] = c
        /\ \A q \in DOMAIN t : q # p => u[q] = t[q]
    BY <1>2, <1>3, <1>5
  <1>7. u \in Trees
    BY <1>2, <1>6, TreeMade
  <1>8. c # Dir
    BY <1>5, CopyParts
  <1>9. Dirs(u) = Dirs(t) /\ Held(u) = Held(t)
    BY <1>3, <1>6, <1>8 DEF Dirs, Held
  <1>10. Closed(u)
    BY <1>1, <1>3, <1>6 DEF Closed
  <1>. QED  BY <1>3, <1>5, <1>6, <1>7, <1>9, <1>10 DEF p, Goods, Held, Changed

Patched(e, n, w, u) ==
  /\ u \in Goods /\ Dirs(u) = Dirs(w) /\ Held(u) = Held(w)
  /\ \A p \in Held(w) :
       u[p] = [origin |-> w[p].origin, patched |-> w[p].patched \o PatchesTo(e, p)[n]]
  /\ \A p \in Path : PatchesTo(e, p)[n] # <<>> => p \in Held(w)

LEMMA PatchedNone ==
  ASSUME NEW e \in Entries, NEW w \in Goods
  PROVE  Patched(e, 0, w, w)
  <1>1. \A p \in Path : PatchesTo(e, p)[0] = <<>>
    BY PatchesExist DEF PatchSteps
  <1>2. ASSUME NEW p \in Held(w)
        PROVE  w[p] = [origin |-> w[p].origin, patched |-> w[p].patched \o PatchesTo(e, p)[0]]
    <2>1. w[p] \in FileCopy /\ p \in Path
      BY TreeFacts DEF Goods, Held
    <2>2. w[p].patched \in Seq(Path) /\ w[p] = [origin |-> w[p].origin, patched |-> w[p].patched]
      BY <2>1, CopyParts
    <2>3. w[p].patched \o <<>> = w[p].patched
      BY <2>2, ConcatEmptySeq
    <2>. QED  BY <1>1, <2>1, <2>2, <2>3
  <1>. QED  BY <1>1, <1>2 DEF Patched

LEMMA PatchedOne ==
  ASSUME NEW e \in Entries, NEW n \in 1..Len(e.patches), NEW w \in Goods, NEW v,
         Patched(e, n - 1, w, v), NEW u \in apply_patch(e.to, e.patches[n], v)
  PROVE  Patched(e, n, w, u)
  <1> DEFINE file == e.patches[n]
             q == e.to \o file
  <1>1. e.to \in Path /\ file \in Path /\ q \in Path /\ Len(e.patches) \in Nat
    BY EntryFacts
  <1>2. /\ v \in Goods /\ Dirs(v) = Dirs(w) /\ Held(v) = Held(w)
        /\ \A p \in Held(w) :
             v[p] = [origin |-> w[p].origin, patched |-> w[p].patched \o PatchesTo(e, p)[n-1]]
        /\ \A p \in Path : PatchesTo(e, p)[n-1] # <<>> => p \in Held(w)
    BY DEF Patched
  <1>3. /\ u \in Goods /\ Dirs(u) = Dirs(v) /\ Held(u) = Held(v) /\ q \in Held(v)
        /\ u[q] = [origin |-> v[q].origin, patched |-> Append(v[q].patched, file)]
        /\ \A p \in Held(v) : p # q => u[p] = v[p]
    <2> HIDE DEF file, q
    <2>1. u \in apply_patch(e.to, file, v)
      BY DEF file
    <2>2. Changed(e.to, file, v, u)
      BY <1>1, <1>2, <2>1, ApplyFacts
    <2>. QED  BY <2>2 DEF q, Changed
  <1>4. ASSUME NEW p \in Path
        PROVE  /\ PatchesTo(e, p)[n-1] \in Seq(Path)
               /\ PatchesTo(e, p)[n] = IF q = p THEN Append(PatchesTo(e, p)[n-1], file) ELSE PatchesTo(e, p)[n-1]
    <2>1. PatchSteps(e, p, PatchesTo(e, p))
      BY PatchesExist
    <2> DEFINE g == PatchesTo(e, p)
    <2> HIDE DEF g
    <2>2. n - 1 \in 0..Len(e.patches)
      BY <1>1
    <2>. QED  BY <2>1, <2>2 DEF PatchSteps, g
  <1>5. \A p \in Held(w) : p \in Path /\ w[p].patched \in Seq(Path)
    <2>1. \A p \in Held(w) : p \in Path /\ w[p] \in FileCopy
      BY TreeFacts DEF Goods, Held
    <2>. QED  BY <2>1, CopyParts
  <1> HIDE DEF q
  <1>6. ASSUME NEW p \in Held(w), p # q
        PROVE  u[p] = [origin |-> w[p].origin, patched |-> w[p].patched \o PatchesTo(e, p)[n]]
    <2>1. u[p] = v[p] /\ PatchesTo(e, p)[n] = PatchesTo(e, p)[n-1]
      BY <1>2, <1>3, <1>4, <1>5, <1>6
    <2>2. v[p] = [origin |-> w[p].origin, patched |-> w[p].patched \o PatchesTo(e, p)[n-1]]
      BY <1>2
    <2>. QED  BY <2>1, <2>2
  <1>7. u[q] = [origin |-> w[q].origin, patched |-> w[q].patched \o PatchesTo(e, q)[n]]
    <2> DEFINE a == w[q].patched
               b == PatchesTo(e, q)[n-1]
    <2>1. q \in Held(w) /\ a \in Seq(Path) /\ b \in Seq(Path) /\ file \in Path
      BY <1>1, <1>2, <1>3, <1>4, <1>5
    <2>2. v[q].origin = w[q].origin /\ v[q].patched = a \o b
      <3>1. v[q] = [origin |-> w[q].origin, patched |-> a \o b]
        BY <1>2, <2>1
      <3> DEFINE c == a \o b
                 o == w[q].origin
      <3>2. v[q] = [origin |-> o, patched |-> c]
        BY <3>1
      <3> HIDE DEF a, b, c, o
      <3>3. v[q].origin = o /\ v[q].patched = c
        BY <3>2
      <3>. QED  BY <3>3 DEF c, o
    <2>3. PatchesTo(e, q)[n] = Append(b, file)
      BY <1>1, <1>4
    <2>4. Append(a \o b, file) = a \o Append(b, file)
      <3> HIDE DEF a, b, file
      <3>1. a \o b \in Seq(Path) /\ <<file>> \in Seq(Path)
        BY <2>1, ConcatProperties, OneName
      <3>2. Append(a \o b, file) = (a \o b) \o <<file>> /\ Append(b, file) = b \o <<file>>
        BY <2>1, <3>1, AppendIsConcat
      <3>3. (a \o b) \o <<file>> = a \o (b \o <<file>>)
        BY <2>1, <3>1, ConcatAssociative
      <3>. QED  BY <3>2, <3>3
    <2> HIDE DEF a, b, file
    <2>5. u[q] = [origin |-> v[q].origin, patched |-> Append(v[q].patched, file)]
      BY <1>3
    <2>6. u[q] = [origin |-> w[q].origin, patched |-> a \o PatchesTo(e, q)[n]]
      BY <2>2, <2>3, <2>4, <2>5
    <2>. QED  BY <2>6 DEF a
  <1>8. ASSUME NEW p \in Path, PatchesTo(e, p)[n] # <<>> PROVE p \in Held(w)
    <2>1. CASE p = q
      BY <1>2, <1>3, <2>1
    <2>2. CASE p # q
      BY <1>2, <1>4, <1>8, <2>2
    <2>. QED  BY <2>1, <2>2
  <1>. QED  BY <1>2, <1>3, <1>6, <1>7, <1>8 DEF Patched

\* ImportItem and ImportAll, without their local functions.
PatchAll(e, n, X) == UNION {apply_patch(e.to, e.patches[n], u) : u \in X}
ItemComputed(e, t, h) ==
  /\ h[0] = Placed(e, t) /\ ImportItem(e, t) = h[Len(e.patches)]
  /\ \A n \in 1..Len(e.patches) : h[n] = PatchAll(e, n, h[n-1])

NextTrees(m, k, X) == UNION {ImportItem(m[k], t) : t \in X}
AllComputed(m, h) ==
  /\ h[0] = {NoTree} /\ ImportAll(m) = h[Len(m)]
  /\ \A k \in 1..Len(m) : h[k] = NextTrees(m, k, h[k-1])

LEMMA ItemUnfolds ==
  ASSUME NEW e \in Entries, NEW t \in Goods
  PROVE  \E h : ItemComputed(e, t, h)
  <1> DEFINE N == Len(e.patches)
             S == SUBSET Goods
             step == [x \in (1..N) \X S |-> PatchAll(e, x[1], x[2])]
             F(g) == [n \in 0..N |->
                        IF n = 0 THEN Placed(e, t)
                        ELSE UNION {apply_patch(e.to, e.patches[n], u) : u \in g[n-1]}]
             h == CHOOSE g : g = F(g)
  <1>1. N \in Nat /\ e.to \in Path /\ \A n \in 1..N : e.patches[n] \in Path
    BY EntryFacts
  <1>2. Placed(e, t) \in S
    BY PlacedFacts DEF Put
  <1>3. step \in [(1..N) \X S -> S]
    <2>1. ASSUME NEW n \in 1..N, NEW X \in S PROVE PatchAll(e, n, X) \in S
      <3>1. ASSUME NEW u \in X, NEW v \in apply_patch(e.to, e.patches[n], u) PROVE v \in Goods
        BY <1>1, ApplyFacts DEF Changed
      <3>. QED  BY <3>1 DEF PatchAll
    <2>. QED  BY <2>1
  <1>4. PICK g \in [0..N -> S] : g[0] = Placed(e, t) /\ \A n \in 1..N : g[n] = step[<<n, g[n-1]>>]
    <2> HIDE DEF step, N, S
    <2>. QED  BY <1>1, <1>2, <1>3, Iterated
  <1>5. \A n \in 1..N : g[n] = PatchAll(e, n, g[n-1])
    <2> TAKE n \in 1..N
    <2>1. n - 1 \in 0..N /\ g[n-1] \in S
      BY <1>1
    <2>. QED  BY <2>1, <1>4
  <1>6. g = F(g)
    <2>1. \A n \in 0..N : n = 0 \/ n \in 1..N
      BY <1>1
    <2>. QED  BY <1>4, <1>5, <2>1 DEF PatchAll
  <1>7. h = F(h)
    <2> HIDE DEF F
    <2>. QED  BY <1>6
  <1>8. h[0] = Placed(e, t) /\ \A n \in 1..N : h[n] = PatchAll(e, n, h[n-1])
    <2>1. ASSUME NEW q, NEW n \in 0..N
          PROVE  F(q)[n] = IF n = 0 THEN Placed(e, t) ELSE PatchAll(e, n, q[n-1])
      BY <2>1 DEF PatchAll
    <2>2. 0 \in 0..N /\ \A n \in 1..N : n \in 0..N /\ n # 0
      BY <1>1
    <2> HIDE DEF h, F, N
    <2>. QED  BY <1>7, <2>1, <2>2
  <1>9. ImportItem(e, t) = h[N]
    BY DEF ImportItem
  <1> HIDE DEF h
  <1>10. ItemComputed(e, t, h)
    BY <1>8, <1>9 DEF ItemComputed
  <1>. QED  BY <1>10

\* What an entry makes of a tree.
Made(e, t, u) ==
  /\ u \in Goods /\ Dirs(u) = Dirs(t) \cup DirsOf(e) /\ Held(u) = Held(t) \cup FilesOf(e, t)
  /\ \A p \in FilesOf(e, t) :
       u[p] = [origin |-> OriginOf(e, p), patched |-> PatchesOn(e, p)] /\ OriginOf(e, p) \in Upstream
  /\ \A p \in Held(t) \ FilesOf(e, t) :
       u[p] = [origin |-> t[p].origin, patched |-> t[p].patched \o PatchesOn(e, p)]
  /\ \A p \in Path : PatchesOn(e, p) # <<>> => p \in Held(u)
  /\ ~Single(e) => \A p \in DOMAIN t : e.to \notin Prefixes(p)

LEMMA PatchesFacts ==
  ASSUME NEW e \in Entries, NEW p
  PROVE  PatchesOn(e, p) \in Seq(Path)
  <1>1. Len(e.patches) \in 0..Len(e.patches)
    BY EntryFacts
  <1>. QED  BY <1>1, PatchesExist DEF PatchSteps, PatchesOn

LEMMA PatchedAll ==
  ASSUME NEW e \in Entries, NEW t \in Goods, NEW u \in ImportItem(e, t)
  PROVE  \E w \in Placed(e, t) : Patched(e, Len(e.patches), w, u)
  <1> DEFINE N == Len(e.patches)
  <1>1. N \in Nat /\ Placed(e, t) \subseteq Goods
    BY EntryFacts, PlacedFacts DEF Put
  <1>2. PICK h : ItemComputed(e, t, h)
    BY ItemUnfolds
  <1>3. /\ h[0] = Placed(e, t) /\ ImportItem(e, t) = h[N]
        /\ \A n \in 1..N : h[n] = PatchAll(e, n, h[n-1])
    BY <1>2 DEF ItemComputed
  <1> DEFINE Reached(n) == \A v \in h[n] : \E w \in Placed(e, t) : Patched(e, n, w, v)
             T == {n \in Nat : n <= N => Reached(n)}
  <1>4. 0 \in T
    BY <1>1, <1>3, PatchedNone
  <1>5. ASSUME NEW n \in Nat, n \in T PROVE n + 1 \in T
    <2> SUFFICES ASSUME n + 1 <= N, NEW v \in h[n+1]
                 PROVE  \E w \in Placed(e, t) : Patched(e, n + 1, w, v)
      OBVIOUS
    <2>1. n + 1 \in 1..N /\ (n + 1) - 1 = n /\ n <= N
      BY <1>1
    <2>2. v \in PatchAll(e, n + 1, h[n])
      BY <1>3, <2>1
    <2>3. PICK x \in h[n] : v \in apply_patch(e.to, e.patches[n+1], x)
      BY <2>2 DEF PatchAll
    <2>4. PICK w \in Placed(e, t) : Patched(e, n, w, x)
      BY <1>5, <2>1
    <2>5. Patched(e, (n + 1) - 1, w, x)
      BY <2>1, <2>4
    <2>6. Patched(e, n + 1, w, v)
      BY <1>1, <2>1, <2>3, <2>5, PatchedOne
    <2>. QED  BY <2>6
  <1>6. Nat \subseteq T
    <2> HIDE DEF T
    <2>. QED  BY <1>4, <1>5, SetInduction
  <1>7. Reached(N)
    BY <1>1, <1>6
  <1>. QED  BY <1>3, <1>7

LEMMA ItemMade ==
  ASSUME NEW e \in Entries, NEW t \in Goods, NEW u \in ImportItem(e, t)
  PROVE  Made(e, t, u)
  <1>1. PICK w \in Placed(e, t) : Patched(e, Len(e.patches), w, u)
    BY PatchedAll
  <1>2. /\ w \in Goods /\ Dirs(w) = Dirs(t) \cup DirsOf(e) /\ Held(w) = Held(t) \cup FilesOf(e, t)
        /\ \A p \in FilesOf(e, t) : w[p] = Fresh(OriginOf(e, p)) /\ OriginOf(e, p) \in Upstream
        /\ \A p \in Held(t) \ FilesOf(e, t) : w[p] = t[p]
        /\ ~Single(e) => \A p \in DOMAIN t : e.to \notin Prefixes(p)
    BY PlacedFacts DEF Put
  <1>3. /\ u \in Goods /\ Dirs(u) = Dirs(w) /\ Held(u) = Held(w)
        /\ \A p \in Held(w) : u[p] = [origin |-> w[p].origin, patched |-> w[p].patched \o PatchesOn(e, p)]
        /\ \A p \in Path : PatchesOn(e, p) # <<>> => p \in Held(w)
    BY <1>1 DEF Patched, PatchesOn
  <1>4. ASSUME NEW p \in FilesOf(e, t)
        PROVE  u[p] = [origin |-> OriginOf(e, p), patched |-> PatchesOn(e, p)]
    <2>1. w[p].origin = OriginOf(e, p) /\ w[p].patched = <<>>
      BY <1>2, FreshCopy
    <2>2. <<>> \o PatchesOn(e, p) = PatchesOn(e, p)
      BY PatchesFacts, ConcatEmptySeq
    <2>3. p \in Held(w)
      BY <1>2
    <2>4. u[p] = [origin |-> w[p].origin, patched |-> w[p].patched \o PatchesOn(e, p)]
      BY <1>3, <2>3
    <2>. QED  BY <2>1, <2>2, <2>4
  <1>5. ASSUME NEW p \in Held(t) \ FilesOf(e, t)
        PROVE  u[p] = [origin |-> t[p].origin, patched |-> t[p].patched \o PatchesOn(e, p)]
    <2>1. w[p] = t[p] /\ p \in Held(w)
      BY <1>2
    <2>2. u[p] = [origin |-> w[p].origin, patched |-> w[p].patched \o PatchesOn(e, p)]
      BY <1>3, <2>1
    <2>. QED  BY <2>1, <2>2
  <1>. QED  BY <1>2, <1>3, <1>4, <1>5 DEF Made

LEMMA NoTreeGood ==
  NoTree \in Goods /\ Dirs(NoTree) = {} /\ Held(NoTree) = {}
  <1>1. {} \in SUBSET Path /\ NoTree \in [{} -> FileCopy \cup {Dir}] /\ DOMAIN NoTree = {}
    BY DEF NoTree
  <1>2. NoTree \in Trees
    BY <1>1, TreeMade
  <1>. QED  BY <1>1, <1>2 DEF Goods, Closed, Dirs, Held

LEMMA MappingFacts ==
  ASSUME NEW m \in Seq(Entries)
  PROVE  Len(m) \in Nat /\ \A k \in 1..Len(m) : m[k] \in Entries
  BY LenProperties, ElementOfSeq

LEMMA AllUnfolds ==
  ASSUME NEW m \in Seq(Entries)
  PROVE  \E h : AllComputed(m, h)
  <1> DEFINE N == Len(m)
             S == SUBSET Goods
             step == [x \in (1..N) \X S |-> NextTrees(m, x[1], x[2])]
             F(g) == [k \in 0..N |->
                        IF k = 0 THEN {NoTree} ELSE UNION {ImportItem(m[k], t) : t \in g[k-1]}]
             h == CHOOSE g : g = F(g)
  <1>1. N \in Nat /\ \A k \in 1..N : m[k] \in Entries
    BY MappingFacts
  <1>2. {NoTree} \in S
    BY NoTreeGood
  <1>3. step \in [(1..N) \X S -> S]
    <2>1. ASSUME NEW k \in 1..N, NEW X \in S PROVE NextTrees(m, k, X) \in S
      <3>1. ASSUME NEW t \in X, NEW u \in ImportItem(m[k], t) PROVE u \in Goods
        BY <1>1, ItemMade DEF Made
      <3>. QED  BY <3>1 DEF NextTrees
    <2>. QED  BY <2>1
  <1>4. PICK g \in [0..N -> S] : g[0] = {NoTree} /\ \A k \in 1..N : g[k] = step[<<k, g[k-1]>>]
    <2> DEFINE none == {NoTree}
    <2>1. none \in S
      BY <1>2
    <2>3. N \in Nat
      BY <1>1
    <2> HIDE DEF step, N, S, none
    <2>2. PICK g : ComputedBy(S, none, N, step, g)
      BY <1>3, <2>1, <2>3, ComputedExists
    <2>. QED  BY <2>2 DEF none, ComputedBy
  <1>5. \A k \in 1..N : g[k] = NextTrees(m, k, g[k-1])
    <2> TAKE k \in 1..N
    <2>1. k - 1 \in 0..N /\ g[k-1] \in S
      BY <1>1
    <2>. QED  BY <2>1, <1>4
  <1>6. g = F(g)
    <2>1. \A k \in 0..N : k = 0 \/ k \in 1..N
      BY <1>1
    <2>. QED  BY <1>4, <1>5, <2>1 DEF NextTrees
  <1>7. h = F(h)
    <2> HIDE DEF F
    <2>. QED  BY <1>6
  <1>8. h[0] = {NoTree} /\ \A k \in 1..N : h[k] = NextTrees(m, k, h[k-1])
    <2>1. ASSUME NEW q, NEW k \in 0..N
          PROVE  F(q)[k] = IF k = 0 THEN {NoTree} ELSE NextTrees(m, k, q[k-1])
      BY <2>1 DEF NextTrees
    <2>2. 0 \in 0..N /\ \A k \in 1..N : k \in 0..N /\ k # 0
      BY <1>1
    <2> HIDE DEF h, F, N
    <2>. QED  BY <1>7, <2>1, <2>2
  <1>9. ImportAll(m) = h[N]
    BY DEF ImportAll
  <1> HIDE DEF h
  <1>10. AllComputed(m, h)
    BY <1>8, <1>9 DEF AllComputed
  <1>. QED  BY <1>10

\* Two entries that do not meet.
LEMMA PatchedTouched ==
  ASSUME NEW e \in Entries, NEW p, PatchesOn(e, p) # <<>>
  PROVE  \E n \in 1..Len(e.patches) : p = e.to \o e.patches[n]
  <1> SUFFICES ASSUME \A n \in 1..Len(e.patches) : e.to \o e.patches[n] # p PROVE FALSE
    OBVIOUS
  <1> DEFINE N == Len(e.patches)
             g == PatchesTo(e, p)
             T == {n \in Nat : n <= N => g[n] = <<>>}
  <1>1. N \in Nat
    BY EntryFacts
  <1>2. PatchSteps(e, p, g)
    BY PatchesExist
  <1> HIDE DEF g
  <1>3. g[0] = <<>> /\ \A n \in 1..N : g[n] = g[n-1]
    BY <1>2 DEF PatchSteps
  <1>4. 0 \in T
    BY <1>3
  <1>5. ASSUME NEW n \in Nat, n \in T PROVE n + 1 \in T
    <2> SUFFICES ASSUME n + 1 <= N PROVE g[n+1] = <<>>
      OBVIOUS
    <2>1. n + 1 \in 1..N /\ (n + 1) - 1 = n /\ n <= N
      BY <1>1
    <2>. QED  BY <1>3, <1>5, <2>1
  <1>6. Nat \subseteq T
    <2> HIDE DEF T
    <2>. QED  BY <1>4, <1>5, SetInduction
  <1>7. g[N] = <<>>
    BY <1>1, <1>6
  <1>. QED  BY <1>7 DEF g, PatchesOn

LEMMA FilesTouched ==
  ASSUME NEW e \in Entries, Single(e), NEW t, NEW p
  PROVE  /\ p \in FilesOf(e, t) => p \in Touched(e)
         /\ PatchesOn(e, p) # <<>> => p \in Touched(e)
  <1>1. FilesOf(e, t) = {Landing(e.from, e.to, t)}
    BY DEF FilesOf
  <1>2. Landing(e.from, e.to, t) \in Touched(e)
    BY LandingFacts DEF Touched
  <1>3. ASSUME PatchesOn(e, p) # <<>> PROVE p \in Touched(e)
    <2>1. PICK n \in 1..Len(e.patches) : p = e.to \o e.patches[n]
      BY <1>3, PatchedTouched
    <2>. QED  BY <2>1 DEF Touched
  <1>. QED  BY <1>1, <1>2, <1>3

LEMMA FilesBelow ==
  ASSUME NEW e \in Entries, ~Single(e), NEW t, NEW p
  PROVE  /\ p \in FilesOf(e, t) => e.to \in Prefixes(p)
         /\ PatchesOn(e, p) # <<>> => e.to \in Prefixes(p)
  <1>1. e.from \in Path /\ e.to \in Path
    BY EntryFacts
  <1>2. ASSUME p \in FilesOf(e, t) PROVE e.to \in Prefixes(p)
    <2>1. PICK k \in Kept(e.from) \cap Upstream : p = Arrives(k, e.from, e.to)
      BY <1>2 DEF FilesOf
    <2>. QED  BY <1>1, <2>1, KeptArrives
  <1>3. ASSUME PatchesOn(e, p) # <<>> PROVE e.to \in Prefixes(p)
    <2>1. PICK n \in 1..Len(e.patches) : p = e.to \o e.patches[n]
      BY <1>3, PatchedTouched
    <2>. QED  BY <1>1, <2>1, EntryFacts, PrefixConcat
  <1>. QED  BY <1>2, <1>3

\* A copied directory leaves what there was alone.
LEMMA Untouched ==
  ASSUME NEW e \in Entries, ~Single(e), NEW t \in Goods, NEW u, Made(e, t, u), NEW p \in DOMAIN t
  PROVE  p \notin FilesOf(e, t) /\ PatchesOn(e, p) = <<>>
  BY FilesBelow DEF Made

LEMMA Apart ==
  ASSUME NEW m \in Seq(Entries), Independent(m), NEW i \in 1..Len(m), NEW j \in 1..Len(m), i # j,
         Single(m[i]), Single(m[j]), NEW t, NEW p \in Touched(m[j])
  PROVE  p \notin FilesOf(m[i], t) /\ PatchesOn(m[i], p) = <<>>
  <1>1. m[i] \in Entries /\ Touched(m[i]) \cap Touched(m[j]) = {}
    BY MappingFacts DEF Independent
  <1>. QED  BY <1>1, FilesTouched

\* A landing stays where it was.
LEMMA LandingStays ==
  ASSUME NEW e \in Entries, NEW t \in Goods, NEW u \in Goods,
         Dirs(t) \subseteq Dirs(u), FilesOf(e, t) \subseteq Held(u)
  PROVE  FilesOf(e, u) = FilesOf(e, t)
  <1>1. CASE ~Single(e)
    BY <1>1 DEF FilesOf
  <1>2. CASE Single(e)
    <2>1. FilesOf(e, t) = {Landing(e.from, e.to, t)} /\ FilesOf(e, u) = {Landing(e.from, e.to, u)}
      BY <1>2 DEF FilesOf
    <2>2. CASE e.to \in Dirs(t)
      BY <2>1, <2>2, LandingFacts
    <2>3. CASE e.to \notin Dirs(t)
      <3>1. Landing(e.from, e.to, t) = e.to
        BY <2>3, LandingFacts
      <3>2. e.to \in Held(u)
        BY <2>1, <3>1
      <3>3. e.to \notin Dirs(u)
        BY <3>2 DEF Dirs, Held
      <3>. QED  BY <2>1, <3>1, <3>3, LandingFacts
    <2>. QED  BY <2>2, <2>3
  <1>. QED  BY <1>1, <1>2

\* A tree that holds what the entries J of a mapping ask for, in whatever order
\* they were imported: a single file as its entry left it; a file of a copied
\* directory with the patches of that entry, then those of a single-file entry.
HasDirs(m, J, t)  == Dirs(t) = UNION {DirsOf(m[j]) : j \in J}
HasFiles(m, J, t) == Held(t) = UNION {FilesOf(m[j], t) : j \in J}
HasSingles(m, J, t) ==
  \A j \in J : Single(m[j]) =>
    \A p \in FilesOf(m[j], t) :
      t[p] = [origin |-> OriginOf(m[j], p), patched |-> PatchesOn(m[j], p)]
CopyOf(m, J, d, p, t) ==
  /\ t[p].origin = OriginOf(m[d], p)
  /\ (\A j \in J : Single(m[j]) => PatchesOn(m[j], p) = <<>>) => t[p].patched = PatchesOn(m[d], p)
  /\ \A j \in J : Single(m[j]) /\ PatchesOn(m[j], p) # <<>> =>
       t[p].patched = PatchesOn(m[d], p) \o PatchesOn(m[j], p)
HasCopies(m, J, t) ==
  \A d \in J : ~Single(m[d]) =>
    \A p \in FilesOf(m[d], t) :
      (\A j \in J : Single(m[j]) => p \notin FilesOf(m[j], t)) => CopyOf(m, J, d, p, t)
HasPatches(m, J, t) == \A j \in J : \A p \in Path : PatchesOn(m[j], p) # <<>> => p \in Held(t)
HasAll(m, J, t) ==
  t \in Goods /\ HasDirs(m, J, t) /\ HasFiles(m, J, t) /\ HasSingles(m, J, t) /\ HasCopies(m, J, t)
  /\ HasPatches(m, J, t)

LEMMA HeldFacts ==
  ASSUME NEW t \in Goods
  PROVE  /\ \A p \in Held(t) : p \in Path /\ p \in DOMAIN t /\ t[p] \in FileCopy
         /\ DOMAIN t = Dirs(t) \cup Held(t) /\ \A p \in Held(t) : p \notin Dirs(t)
         /\ \A p \in Dirs(t) : t[p] = Dir
         /\ t = [p \in DOMAIN t |-> t[p]]
  BY TreeFacts DEF Goods, Held, Dirs

\* The description leaves no choice.
LEMMA Determined ==
  ASSUME NEW m \in Seq(Entries), NEW J \in SUBSET (1..Len(m)), NEW t, NEW u,
         HasAll(m, J, t), HasAll(m, J, u)
  PROVE  t = u
  <1>1. t \in Goods /\ u \in Goods
    BY DEF HasAll
  <1>2. Dirs(t) = Dirs(u)
    BY DEF HasAll, HasDirs
  <1>3. ASSUME NEW j \in J PROVE FilesOf(m[j], t) = FilesOf(m[j], u)
    BY <1>2, LandingFacts DEF FilesOf
  <1>4. Held(t) = Held(u)
    BY <1>3 DEF HasAll, HasFiles
  <1>5. ASSUME NEW p \in Held(t) PROVE t[p] = u[p]
    <2>1. CASE \E j \in J : Single(m[j]) /\ p \in FilesOf(m[j], t)
      BY <1>3, <2>1 DEF HasAll, HasSingles
    <2>2. CASE \A j \in J : Single(m[j]) => p \notin FilesOf(m[j], t)
      <3>1. PICK d \in J : p \in FilesOf(m[d], t)
        BY <1>5 DEF HasAll, HasFiles
      <3>2. ~Single(m[d])
        BY <2>2, <3>1
      <3>3. CopyOf(m, J, d, p, t)
        BY <2>2, <3>1, <3>2 DEF HasAll, HasCopies
      <3>4. CopyOf(m, J, d, p, u)
        BY <1>3, <2>2, <3>1, <3>2 DEF HasAll, HasCopies
      <3>5. t[p].origin = u[p].origin
        BY <3>3, <3>4 DEF CopyOf
      <3>6. t[p].patched = u[p].patched
        <4>1. CASE \A j \in J : Single(m[j]) => PatchesOn(m[j], p) = <<>>
          BY <3>3, <3>4, <4>1 DEF CopyOf
        <4>2. CASE \E j \in J : Single(m[j]) /\ PatchesOn(m[j], p) # <<>>
          BY <3>3, <3>4, <4>2 DEF CopyOf
        <4>. QED  BY <4>1, <4>2
      <3>7. t[p] \in FileCopy /\ u[p] \in FileCopy
        BY <1>1, <1>4, HeldFacts
      <3>. QED  BY <3>5, <3>6, <3>7, CopyParts
    <2>. QED  BY <2>1, <2>2
  <1>6. DOMAIN t = DOMAIN u
    BY <1>1, <1>2, <1>4, HeldFacts
  <1>7. \A p \in DOMAIN t : t[p] = u[p]
    BY <1>1, <1>2, <1>4, <1>5, HeldFacts
  <1>8. t = [p \in DOMAIN t |-> t[p]] /\ u = [p \in DOMAIN u |-> u[p]]
    BY <1>1, HeldFacts
  <1>. QED  BY <1>6, <1>7, <1>8

LEMMA DescribedNone ==
  ASSUME NEW m
  PROVE  HasAll(m, {}, NoTree)
  BY NoTreeGood DEF HasAll, HasDirs, HasFiles, HasSingles, HasCopies, HasPatches

\* The next entry, whichever it is, makes what it asks for.
LEMMA DescribedNext ==
  ASSUME NEW m \in Seq(Entries), Independent(m), NEW J \in SUBSET (1..Len(m)),
         NEW i \in (1..Len(m)) \ J, NEW t, HasAll(m, J, t), NEW u \in ImportItem(m[i], t)
  PROVE  HasAll(m, J \cup {i}, u)
  <1> DEFINE K == J \cup {i}
             e == m[i]
  <1>1. e \in Entries /\ \A j \in J : m[j] \in Entries
    BY MappingFacts
  <1>2. t \in Goods /\ Made(e, t, u)
    BY <1>1, ItemMade DEF HasAll
  <1>3. /\ u \in Goods /\ Dirs(u) = Dirs(t) \cup DirsOf(e) /\ Held(u) = Held(t) \cup FilesOf(e, t)
        /\ \A p \in FilesOf(e, t) : u[p] = [origin |-> OriginOf(e, p), patched |-> PatchesOn(e, p)]
        /\ \A p \in Held(t) \ FilesOf(e, t) :
             u[p] = [origin |-> t[p].origin, patched |-> t[p].patched \o PatchesOn(e, p)]
        /\ \A p \in Path : PatchesOn(e, p) # <<>> => p \in Held(u)
    BY <1>2 DEF Made
  <1>4. /\ HasDirs(m, J, t) /\ HasFiles(m, J, t) /\ HasSingles(m, J, t) /\ HasCopies(m, J, t)
        /\ HasPatches(m, J, t)
    BY DEF HasAll
  <1>5. ASSUME NEW p \in Held(t), p \notin FilesOf(e, t), PatchesOn(e, p) = <<>>
        PROVE  u[p] = t[p]
    <2>1. t[p] \in FileCopy
      BY <1>2, HeldFacts
    <2>2. t[p].patched \in Seq(Path) /\ t[p] = [origin |-> t[p].origin, patched |-> t[p].patched]
      BY <2>1, CopyParts
    <2>3. t[p].patched \o <<>> = t[p].patched
      BY <2>2, ConcatEmptySeq
    <2>4. u[p] = [origin |-> t[p].origin, patched |-> t[p].patched \o PatchesOn(e, p)]
      BY <1>3, <1>5
    <2>. QED  BY <1>5, <2>2, <2>3, <2>4
  <1>6. ASSUME ~Single(e), NEW p \in Held(t) PROVE p \notin FilesOf(e, t) /\ PatchesOn(e, p) = <<>>
    <2>1. p \in DOMAIN t
      BY DEF Held
    <2>. QED  BY <1>1, <1>2, <1>6, <2>1, Untouched
  <1>7. ASSUME Single(e), NEW j \in J, Single(m[j]), NEW p \in Touched(m[j])
        PROVE  p \notin FilesOf(e, t) /\ PatchesOn(e, p) = <<>>
    BY <1>7, Apart
  <1>8. ASSUME NEW j \in K PROVE FilesOf(m[j], u) = FilesOf(m[j], t)
    <2>1. FilesOf(m[j], t) \subseteq Held(u)
      BY <1>3, <1>4 DEF HasFiles
    <2>. QED  BY <1>1, <1>2, <1>3, <2>1, LandingStays
  <1> HIDE DEF e
  <1>9. HasDirs(m, K, u)
    BY <1>3, <1>4 DEF HasDirs, e
  <1>10. HasFiles(m, K, u)
    <2>1. UNION {FilesOf(m[j], u) : j \in K} = UNION {FilesOf(m[j], t) : j \in K}
      BY <1>8
    <2>2. UNION {FilesOf(m[j], t) : j \in K} = (UNION {FilesOf(m[j], t) : j \in J}) \cup FilesOf(e, t)
      BY DEF e
    <2>. QED  BY <1>3, <1>4, <2>1, <2>2 DEF HasFiles
  <1>11. HasSingles(m, K, u)
    <2> SUFFICES ASSUME NEW j \in K, Single(m[j]), NEW p \in FilesOf(m[j], u)
                 PROVE  u[p] = [origin |-> OriginOf(m[j], p), patched |-> PatchesOn(m[j], p)]
      BY DEF HasSingles
    <2>1. p \in FilesOf(m[j], t)
      BY <1>8
    <2>2. CASE j = i
      BY <1>3, <2>1, <2>2 DEF e
    <2>3. CASE j \in J
      <3>1. p \in Held(t) /\ t[p] = [origin |-> OriginOf(m[j], p), patched |-> PatchesOn(m[j], p)]
        BY <1>4, <2>1, <2>3 DEF HasFiles, HasSingles
      <3>2. p \in Touched(m[j])
        BY <1>1, <2>1, <2>3, FilesTouched
      <3>3. p \notin FilesOf(e, t) /\ PatchesOn(e, p) = <<>>
        BY <1>6, <1>7, <2>3, <3>1, <3>2
      <3>. QED  BY <1>5, <3>1, <3>3
    <2>. QED  BY <2>2, <2>3
  <1>12. HasPatches(m, K, u)
    BY <1>3, <1>4 DEF HasPatches, e
  <1>13. HasCopies(m, K, u)
    <2> SUFFICES ASSUME NEW d \in K, ~Single(m[d]), NEW p \in FilesOf(m[d], u),
                        \A j \in K : Single(m[j]) => p \notin FilesOf(m[j], u)
                 PROVE  CopyOf(m, K, d, p, u)
      BY DEF HasCopies
    <2>1. p \in FilesOf(m[d], t) /\ \A j \in K : Single(m[j]) => p \notin FilesOf(m[j], t)
      BY <1>8
    <2>2. p \in Path
      <3>1. p \in Held(u)
        BY <1>10 DEF HasFiles
      <3>. QED  BY <1>3, <3>1, HeldFacts
    <2>3. CASE d = i
      <3>1. ~Single(e) /\ p \in FilesOf(e, t)
        BY <2>1, <2>3 DEF e
      <3>2. p \notin Held(t)
        BY <1>6, <3>1
      <3>3. \A j \in J : PatchesOn(m[j], p) = <<>>
        BY <1>4, <2>2, <3>2 DEF HasPatches
      <3>4. u[p].origin = OriginOf(e, p) /\ u[p].patched = PatchesOn(e, p)
        <4>1. u[p] = [origin |-> OriginOf(e, p), patched |-> PatchesOn(e, p)]
          BY <1>3, <3>1
        <4>. QED  BY <4>1
      <3>5. \A j \in K : Single(m[j]) => PatchesOn(m[j], p) = <<>>
        BY <3>1, <3>3 DEF e
      <3>. QED  BY <2>3, <3>4, <3>5 DEF CopyOf, e
    <2>4. CASE d \in J
      <3>1. CopyOf(m, J, d, p, t) /\ p \in Held(t)
        BY <1>4, <2>1, <2>4 DEF HasCopies, HasFiles
      <3>2. p \notin FilesOf(e, t)
        BY <1>6, <2>1, <3>1 DEF e
      <3>3. CASE PatchesOn(e, p) = <<>>
        <4>1. u[p] = t[p]
          BY <1>5, <3>1, <3>2, <3>3
        <4>2. \A j \in K : PatchesOn(m[j], p) # <<>> => j \in J
          BY <3>3 DEF e
        <4>. QED  BY <3>1, <4>1, <4>2 DEF CopyOf
      <3>4. CASE PatchesOn(e, p) # <<>>
        <4>1. Single(e)
          BY <1>6, <3>1, <3>4
        <4>2. \A j \in J : Single(m[j]) => PatchesOn(m[j], p) = <<>>
          <5> SUFFICES ASSUME NEW j \in J, Single(m[j]), PatchesOn(m[j], p) # <<>> PROVE FALSE
            OBVIOUS
          <5>1. p \in Touched(m[j])
            BY <1>1, FilesTouched
          <5>. QED  BY <1>7, <3>4, <4>1, <5>1
        <4>3. t[p].origin = OriginOf(m[d], p) /\ t[p].patched = PatchesOn(m[d], p)
          BY <3>1, <4>2 DEF CopyOf
        <4>4. u[p] = [origin |-> t[p].origin, patched |-> t[p].patched \o PatchesOn(e, p)]
          BY <1>3, <3>1, <3>2
        <4>5. u[p].origin = OriginOf(m[d], p) /\ u[p].patched = PatchesOn(m[d], p) \o PatchesOn(e, p)
          BY <4>3, <4>4
        <4>6. \A j \in K : Single(m[j]) /\ PatchesOn(m[j], p) # <<>> => m[j] = e
          BY <4>2 DEF e
        <4>7. Single(m[i]) /\ PatchesOn(m[i], p) # <<>> /\ i \in K
          BY <3>4, <4>1 DEF e
        <4>. QED  BY <4>5, <4>6, <4>7 DEF CopyOf
      <3>. QED  BY <3>3, <3>4
    <2>. QED  BY <2>3, <2>4
  <1>. QED  BY <1>3, <1>9, <1>10, <1>11, <1>12, <1>13 DEF HasAll

LEMMA MadeSequence ==
  ASSUME NEW S, NEW n \in Nat, NEW r \in [1..n -> S]
  PROVE  r \in Seq(S) /\ Len(r) = n
  <1>1. r \in Seq(S)
    BY SeqDef
  <1>2. Len(r) \in Nat /\ DOMAIN r = 1..Len(r)
    BY <1>1, LenProperties
  <1>. QED  BY <1>1, <1>2

LEMMA ReorderedFacts ==
  ASSUME NEW m \in Seq(Entries), NEW p \in Bijection(1..Len(m), 1..Len(m))
  PROVE  /\ Reordered(m, p) \in Seq(Entries) /\ Len(Reordered(m, p)) = Len(m)
         /\ \A i \in 1..Len(m) : Reordered(m, p)[i] = m[p[i]] /\ p[i] \in 1..Len(m)
         /\ \A i, j \in 1..Len(m) : p[i] = p[j] => i = j
         /\ \A j \in 1..Len(m) : \E i \in 1..Len(m) : p[i] = j
  <1> DEFINE n == Len(m)
             r == Reordered(m, p)
  <1>1. n \in Nat /\ \A k \in 1..n : m[k] \in Entries
    BY MappingFacts
  <1> HIDE DEF n
  <1>2. p \in [1..n -> 1..n] /\ IsInjective(p) /\ \A j \in 1..n : \E i \in 1..n : p[i] = j
    BY DEF Bijection, Injection, Surjection, n
  <1>3. \A i, j \in 1..n : p[i] = p[j] => i = j
    BY <1>2 DEF IsInjective
  <1>4. r = [i \in 1..n |-> m[p[i]]]
    BY DEF Reordered, n
  <1>5. r \in [1..n -> Entries] /\ \A i \in 1..n : r[i] = m[p[i]]
    BY <1>1, <1>2, <1>4
  <1>6. r \in Seq(Entries) /\ Len(r) = n
    <2> HIDE DEF r
    <2>. QED  BY <1>1, <1>5, MadeSequence
  <1>. QED  BY <1>2, <1>3, <1>5, <1>6 DEF n

LEMMA AllDescribed ==
  ASSUME NEW m \in Seq(Entries), Independent(m), NEW p \in Bijection(1..Len(m), 1..Len(m)),
         NEW v \in ImportAll(Reordered(m, p))
  PROVE  HasAll(m, 1..Len(m), v)
  <1> DEFINE n == Len(m)
             r == Reordered(m, p)
             Taken(k) == {p[i] : i \in 1..k}
  <1>1. n \in Nat
    BY MappingFacts
  <1>2. /\ r \in Seq(Entries) /\ Len(r) = n
        /\ \A i \in 1..n : r[i] = m[p[i]] /\ p[i] \in 1..n
        /\ \A i, j \in 1..n : p[i] = p[j] => i = j
        /\ \A j \in 1..n : \E i \in 1..n : p[i] = j
    BY ReorderedFacts
  <1> HIDE DEF r
  <1>3. PICK h : AllComputed(r, h)
    BY <1>2, AllUnfolds
  <1>4. h[0] = {NoTree} /\ ImportAll(r) = h[n] /\ \A k \in 1..n : h[k] = NextTrees(r, k, h[k-1])
    BY <1>2, <1>3 DEF AllComputed
  <1> DEFINE T == {k \in Nat : k <= n => \A x \in h[k] : HasAll(m, Taken(k), x)}
  <1>5. 0 \in T
    <2>1. Taken(0) = {}
      OBVIOUS
    <2>. QED  BY <1>4, <2>1, DescribedNone
  <1>6. ASSUME NEW k \in Nat, k \in T PROVE k + 1 \in T
    <2> SUFFICES ASSUME k + 1 <= n, NEW x \in h[k+1] PROVE HasAll(m, Taken(k + 1), x)
      OBVIOUS
    <2>1. k + 1 \in 1..n /\ (k + 1) - 1 = k /\ k <= n
      BY <1>1
    <2>2. x \in NextTrees(r, k + 1, h[k])
      BY <1>4, <2>1
    <2>3. PICK t \in h[k] : x \in ImportItem(r[k+1], t)
      BY <2>2 DEF NextTrees
    <2>4. HasAll(m, Taken(k), t)
      BY <1>6, <2>1
    <2>5. x \in ImportItem(m[p[k+1]], t) /\ p[k+1] \in 1..n
      BY <1>2, <2>1, <2>3
    <2>6. \A i \in 1..k : i \in 1..n /\ i # k + 1
      BY <1>1, <2>1
    <2>7. p[k+1] \notin Taken(k) /\ Taken(k) \in SUBSET (1..n)
      <3>1. ASSUME NEW i \in 1..k PROVE p[i] # p[k+1] /\ p[i] \in 1..n
        <4>1. i \in 1..n /\ i # k + 1
          BY <2>6
        <4> HIDE DEF n
        <4>. QED  BY <1>2, <2>1, <4>1
      <3>. QED  BY <3>1
    <2>8. Taken(k + 1) = Taken(k) \cup {p[k+1]}
      <3>1. 1..k+1 = (1..k) \cup {k+1}
        OBVIOUS
      <3>. QED  BY <3>1
    <2> HIDE DEF Taken
    <2>9. HasAll(m, Taken(k) \cup {p[k+1]}, x)
      BY <2>4, <2>5, <2>7, DescribedNext
    <2>. QED  BY <2>8, <2>9
  <1>7. Nat \subseteq T
    <2> HIDE DEF T
    <2>. QED  BY <1>5, <1>6, SetInduction
  <1>8. Taken(n) = 1..n
    BY <1>2
  <1>9. v \in h[n]
    BY <1>4 DEF r
  <1>10. HasAll(m, Taken(n), v)
    BY <1>1, <1>7, <1>9
  <1>. QED  BY <1>8, <1>10

\* The inductive invariant.
Arrived ==
  \A i \in 1..idx : \A f \in Wanted(mapping[i].from) :
    LET p == mapping[i].to \o Relative(f, mapping[i].from)
    IN  /\ p \in Held(tree)
        /\ \/ tree[p].origin = f
           \/ \E j \in i+1..idx : tree[p].origin = mapping[j].from
ImportInv ==
  /\ mapping \in Mappings /\ idx \in 0..Len(mapping) /\ failed \in BOOLEAN /\ tree \in Goods
  /\ Arrived /\ NothingExcluded
  /\ Independent(mapping) => HasAll(mapping, 1..idx, tree)

LEMMA ImportStart == ImportInit => ImportInv
  <1> SUFFICES ASSUME ImportInit PROVE ImportInv
    OBVIOUS
  <1>1. mapping \in Mappings /\ idx = 0 /\ tree = NoTree /\ failed = FALSE
    BY DEF ImportInit
  <1>2. Len(mapping) \in Nat
    BY <1>1, ImportAssumption, MappingFacts
  <1>3. tree \in Goods /\ Held(tree) = {}
    BY <1>1, NoTreeGood
  <1>4. 1..idx = {}
    BY <1>1
  <1>5. Arrived
    BY <1>4 DEF Arrived
  <1>6. NothingExcluded
    BY <1>3 DEF NothingExcluded, Files, Held
  <1>7. HasAll(mapping, 1..idx, tree)
    BY <1>1, <1>4, DescribedNone
  <1>8. idx \in 0..Len(mapping) /\ failed \in BOOLEAN
    <2>1. idx \in 0..Len(mapping)
      BY <1>1, <1>2
    <2>2. failed \in BOOLEAN
      BY <1>1, Zenon
    <2>. QED  BY <2>1, <2>2
  <1>. QED  BY <1>1, <1>3, <1>5, <1>6, <1>7, <1>8 DEF ImportInv

\* What an entry copies is nothing excluded, and all that is wanted.
LEMMA WantedArrives ==
  ASSUME NEW e \in Entries, NEW t \in Goods, NEW u, Made(e, t, u), NEW f \in Wanted(e.from)
  PROVE  /\ e.to \o Relative(f, e.from) \in Held(u)
         /\ u[e.to \o Relative(f, e.from)].origin = f
  <1> DEFINE p == e.to \o Relative(f, e.from)
  <1>1. e.from \in Path /\ e.to \in Path
    BY EntryFacts
  <1>2. /\ f \in Upstream /\ e.from \in Prefixes(f) /\ e.from # f
        /\ (Prefixes(f) \ Prefixes(e.from)) \cap Excluded = {}
    BY DEF Wanted, Parents
  <1>3. ~Single(e)
    BY <1>2, ImportAssumption DEF Single
  <1>4. f \in Kept(e.from)
    <2>1. f \in Path
      BY <1>2, ImportAssumption
    <2>2. ~Ignored(f, e.from)
      BY <1>2 DEF Ignored
    <2>3. f \in Prefixes(f)
      BY <2>1, PrefixSelf
    <2>. QED  BY <1>2, <2>2, <2>3 DEF Kept
  <1>5. p = Arrives(f, e.from, e.to)
    BY DEF Arrives
  <1>6. p \in FilesOf(e, t)
    BY <1>2, <1>3, <1>4, <1>5 DEF FilesOf
  <1>7. OriginOf(e, p) = f
    BY <1>1, <1>3, <1>4, <1>5, KeptArrives DEF OriginOf
  <1> HIDE DEF p
  <1>8. p \in Held(u)
    BY <1>6 DEF Made
  <1>9. u[p] = [origin |-> OriginOf(e, p), patched |-> PatchesOn(e, p)]
    BY <1>6 DEF Made
  <1>. QED  BY <1>7, <1>8, <1>9 DEF p

LEMMA NewAllowed ==
  ASSUME NEW e \in Entries, NEW t, NEW p \in FilesOf(e, t), NEW q \in Prefixes(OriginOf(e, p)) \cap Excluded
  PROVE  q \in Prefixes(e.from)
  <1>1. CASE Single(e)
    BY <1>1 DEF OriginOf
  <1>2. CASE ~Single(e)
    <2>1. e.from \in Path /\ e.to \in Path
      BY EntryFacts
    <2>2. PICK k \in Kept(e.from) \cap Upstream : p = Arrives(k, e.from, e.to)
      BY <1>2 DEF FilesOf
    <2>3. OriginOf(e, p) = k
      BY <1>2, <2>1, <2>2, KeptArrives DEF OriginOf
    <2>4. ~Ignored(k, e.from)
      BY DEF Kept
    <2>. QED  BY <2>3, <2>4 DEF Ignored
  <1>. QED  BY <1>1, <1>2

LEMMA ImportKeeps == ImportInv /\ [Import]_importVars => ImportInv'
  <1> SUFFICES ASSUME ImportInv, [Import]_importVars PROVE ImportInv'
    OBVIOUS
  <1>1. CASE UNCHANGED importVars
    BY <1>1 DEF ImportInv, importVars, Arrived, NothingExcluded, Files, Held
  <1>2. CASE Import
    <2>1. /\ mapping \in Seq(Entries) /\ Len(mapping) \in Nat
          /\ \A k \in 1..Len(mapping) : mapping[k] \in Entries
      BY ImportAssumption, MappingFacts DEF ImportInv
    <2>2. CASE ImportItem(mapping[idx + 1], tree) = {}
      <3>1. failed' = TRUE /\ UNCHANGED <<idx, tree, mapping>>
        BY <1>2, <2>2 DEF Import
      <3>. QED  BY <3>1 DEF ImportInv, Arrived, NothingExcluded, Files, Held
    <2>3. CASE ImportItem(mapping[idx + 1], tree) # {}
      <3> DEFINE e == mapping[idx + 1]
                 t == tree
                 u == tree'
      <3>1. /\ u \in ImportItem(e, t) /\ idx' = idx + 1 /\ failed' = failed /\ mapping' = mapping
            /\ idx \in Nat /\ idx + 1 \in 1..Len(mapping)
        <4>1. /\ u \in ImportItem(e, t) /\ idx' = idx + 1 /\ failed' = failed /\ mapping' = mapping
              /\ idx < Len(mapping)
          BY <1>2, <2>3 DEF Import
        <4>2. idx \in 0..Len(mapping)
          BY DEF ImportInv
        <4>. QED  BY <2>1, <4>1, <4>2
      <3>2. e \in Entries /\ t \in Goods /\ Made(e, t, u)
        <4>1. e \in Entries /\ t \in Goods
          BY <2>1, <3>1 DEF ImportInv
        <4> HIDE DEF e, t, u
        <4>. QED  BY <3>1, <4>1, ItemMade
      <3> HIDE DEF e, t, u
      <3>3. /\ u \in Goods /\ Held(u) = Held(t) \cup FilesOf(e, t)
            /\ \A p \in FilesOf(e, t) :
                 u[p] = [origin |-> OriginOf(e, p), patched |-> PatchesOn(e, p)]
            /\ \A p \in Held(t) \ FilesOf(e, t) :
                 u[p] = [origin |-> t[p].origin, patched |-> t[p].patched \o PatchesOn(e, p)]
        BY <3>2 DEF Made
      <3>4. ASSUME NEW p \in FilesOf(e, t) PROVE u[p].origin = OriginOf(e, p)
        <4>1. u[p] = [origin |-> OriginOf(e, p), patched |-> PatchesOn(e, p)]
          BY <3>3
        <4>. QED  BY <4>1
      <3>5. ASSUME NEW p \in Held(t) \ FilesOf(e, t) PROVE u[p].origin = t[p].origin
        <4>1. u[p] = [origin |-> t[p].origin, patched |-> t[p].patched \o PatchesOn(e, p)]
          BY <3>3
        <4>. QED  BY <4>1
      <3>6. Arrived'
        <4> SUFFICES ASSUME NEW i \in 1..idx+1, NEW f \in Wanted(mapping[i].from)
                     PROVE  LET p == mapping[i].to \o Relative(f, mapping[i].from)
                            IN  /\ p \in Held(u)
                                /\ \/ u[p].origin = f
                                   \/ \E j \in i+1..idx+1 : u[p].origin = mapping[j].from
          BY <3>1 DEF Arrived, u, Held
        <4> DEFINE p == mapping[i].to \o Relative(f, mapping[i].from)
        <4>1. CASE i = idx + 1
          <5>1. mapping[i] = e
            BY <4>1 DEF e
          <5>2. p \in Held(u) /\ u[p].origin = f
            BY <3>2, <5>1, WantedArrives
          <5>. QED  BY <5>2
        <4>2. CASE i # idx + 1
          <5>1. i \in 1..idx
            BY <3>1, <4>2
          <5>2. p \in Held(t) /\ (t[p].origin = f \/ \E j \in i+1..idx : t[p].origin = mapping[j].from)
            BY <5>1 DEF ImportInv, Arrived, t
          <5> HIDE DEF p
          <5>3. p \in Held(u)
            BY <3>3, <5>2
          <5>4. \A j \in i+1..idx : j \in i+1..idx+1
            BY <3>1, <5>1
          <5>5. CASE p \notin FilesOf(e, t)
            BY <3>5, <5>2, <5>3, <5>4, <5>5 DEF p
          <5>6. CASE p \in FilesOf(e, t)
            <6>1. Single(e)
              <7> SUFFICES ASSUME ~Single(e) PROVE FALSE
                OBVIOUS
              <7>1. p \in DOMAIN t
                BY <5>2 DEF Held
              <7>. QED  BY <3>2, <5>6, <7>1, Untouched
            <6>2. u[p].origin = mapping[idx + 1].from
              BY <3>4, <5>6, <6>1 DEF OriginOf, e
            <6>3. idx + 1 \in i+1..idx+1
              BY <3>1, <5>1
            <6>. QED  BY <5>3, <6>2, <6>3 DEF p
          <5>. QED  BY <5>5, <5>6
        <4>. QED  BY <4>1, <4>2
      <3>7. NothingExcluded'
        <4> SUFFICES ASSUME NEW p \in Held(u), NEW q \in Prefixes(u[p].origin) \cap Excluded
                     PROVE  \E i \in 1..idx+1 : q \in Prefixes(mapping[i].from)
          BY <3>1 DEF NothingExcluded, Files, u, Held
        <4>1. CASE p \in FilesOf(e, t)
          <5>1. q \in Prefixes(OriginOf(e, p)) \cap Excluded
            BY <3>4, <4>1
          <5>2. q \in Prefixes(e.from)
            BY <3>2, <4>1, <5>1, NewAllowed
          <5>. QED  BY <3>1, <5>2 DEF e
        <4>2. CASE p \notin FilesOf(e, t)
          <5>1. p \in Held(t) /\ q \in Prefixes(t[p].origin) \cap Excluded
            BY <3>3, <3>5, <4>2
          <5>2. PICK i \in 1..idx : q \in Prefixes(mapping[i].from)
            BY <5>1 DEF ImportInv, NothingExcluded, Files, Held, t
          <5>3. i \in 1..idx+1
            BY <3>1
          <5>. QED  BY <5>2, <5>3
        <4>. QED  BY <4>1, <4>2
      <3>8. ASSUME Independent(mapping) PROVE HasAll(mapping, 1..idx+1, u)
        <4>1. HasAll(mapping, 1..idx, t)
          BY <3>8 DEF ImportInv, t
        <4>2. idx + 1 \in (1..Len(mapping)) \ (1..idx) /\ 1..idx \in SUBSET (1..Len(mapping))
              /\ 1..idx+1 = (1..idx) \cup {idx+1}
          BY <2>1, <3>1
        <4>3. u \in ImportItem(mapping[idx + 1], t)
          BY <3>1 DEF e
        <4>4. HasAll(mapping, (1..idx) \cup {idx+1}, u)
          BY <2>1, <3>8, <4>1, <4>2, <4>3, DescribedNext
        <4>. QED  BY <4>2, <4>4
      <3>9. Independent(mapping') => HasAll(mapping', 1..idx', tree')
        BY <3>1, <3>8 DEF u
      <3>10. /\ mapping' \in Mappings /\ idx' \in 0..Len(mapping') /\ failed' \in BOOLEAN
             /\ tree' \in Goods
        BY <2>1, <3>1, <3>3 DEF ImportInv, u
      <3>. QED  BY <3>6, <3>7, <3>9, <3>10 DEF ImportInv
    <2>. QED  BY <2>2, <2>3
  <1>. QED  BY <1>1, <1>2

LEMMA ImportImplies == ImportInv => ImportCorrect
  <1> SUFFICES ASSUME ImportInv PROVE ImportCorrect
    OBVIOUS
  <1>1. mapping \in Seq(Entries) /\ Len(mapping) \in Nat /\ tree \in Goods
    BY ImportAssumption, MappingFacts DEF ImportInv
  <1>2. ImportTypeOK
    <2>1. ASSUME NEW p \in DOMAIN tree
          PROVE  p \in Path /\ tree[p] \in FileCopy \cup {Dir} /\ \A q \in Parents(p) : q \in DOMAIN tree \ Files
      BY <1>1, TreeFacts DEF Goods, Closed, Files
    <2>. QED  BY <1>1, <2>1 DEF ImportTypeOK, ImportInv
  <1>3. Held(tree) = Files
    BY DEF Held, Files
  <1>4. NothingLost
    <2> SUFFICES ASSUME Done PROVE NothingLost
      BY DEF NothingLost
    <2>1. idx = Len(mapping)
      BY DEF Done
    <2>. QED  BY <1>3, <2>1 DEF ImportInv, Arrived, NothingLost
  <1>5. OrderIrrelevant
    <2> SUFFICES ASSUME Done, Independent(mapping),
                        NEW p \in Bijection(1..Len(mapping), 1..Len(mapping)),
                        NEW v \in ImportAll(Reordered(mapping, p))
                 PROVE  v = tree
      BY DEF OrderIrrelevant
    <2>1. HasAll(mapping, 1..Len(mapping), v)
      BY <1>1, AllDescribed
    <2>2. HasAll(mapping, 1..Len(mapping), tree)
      BY DEF ImportInv, Done
    <2>. QED  BY <1>1, <2>1, <2>2, Determined
  <1>. QED  BY <1>2, <1>4, <1>5 DEF ImportCorrect, ImportInv

THEOREM ImportFaithful == ImportSpec => []ImportCorrect
  BY ImportStart, ImportKeeps, ImportImplies, PTL DEF ImportSpec

-----------------------------------------------------------------------------
(* The change list (VendorLog).                                            *)

Text == Seq(Token)

LEMMA TextFacts ==
  ASSUME NEW s \in Text
  PROVE  Len(s) \in Nat /\ \A i \in 1..Len(s) : s[i] \in Token
  BY LenProperties, ElementOfSeq DEF Text

LEMMA TextConcat ==
  ASSUME NEW s \in Text, NEW t \in Text
  PROVE  /\ s \o t \in Text /\ Len(s \o t) = Len(s) + Len(t)
         /\ \A i \in 1..Len(s) : (s \o t)[i] = s[i]
         /\ \A i \in 1..Len(t) : (s \o t)[Len(s) + i] = t[i]
  <1>1. Len(s) \in Nat /\ Len(t) \in Nat
    BY TextFacts
  <1>2. /\ s \o t \in Text /\ Len(s \o t) = Len(s) + Len(t)
        /\ \A i \in 1 .. Len(s) + Len(t) : (s \o t)[i] = IF i <= Len(s) THEN s[i] ELSE t[i - Len(s)]
    BY ConcatProperties DEF Text
  <1>3. ASSUME NEW i \in 1..Len(t) PROVE (s \o t)[Len(s) + i] = t[i]
    <2>1. Len(s) + i \in 1..Len(s) + Len(t) /\ ~(Len(s) + i <= Len(s)) /\ (Len(s) + i) - Len(s) = i
      BY <1>1
    <2>. QED  BY <1>2, <2>1
  <1>4. ASSUME NEW i \in 1..Len(s) PROVE (s \o t)[i] = s[i]
    <2>1. i \in 1..Len(s) + Len(t) /\ i <= Len(s)
      BY <1>1
    <2>. QED  BY <1>2, <2>1
  <1>. QED  BY <1>2, <1>3, <1>4

\* The run of digits that begins at i ends at j.
DigitsTo(s, i, j) ==
  /\ j \in i-1..Len(s)
  /\ \A k \in i..j : s[k] = "digit"
  /\ j < Len(s) => s[j+1] # "digit"

LEMMA DigitsEndUnique ==
  ASSUME NEW s \in Text, NEW i \in 1..Len(s)+1
  PROVE  /\ DigitsTo(s, i, DigitsEnd(s, i))
         /\ \A j : DigitsTo(s, i, j) => j = DigitsEnd(s, i)
  <1>1. Len(s) \in Nat
    BY TextFacts
  <1>2. \E j : DigitsTo(s, i, j)
    <2> SUFFICES ASSUME \A j : ~DigitsTo(s, i, j) PROVE FALSE
      OBVIOUS
    <2> DEFINE T == {m \in Nat : i + m <= Len(s) + 1 => \A k \in i..i+m-1 : s[k] = "digit"}
    <2>1. 0 \in T
      OBVIOUS
    <2>2. ASSUME NEW m \in Nat, m \in T PROVE m + 1 \in T
      <3> SUFFICES ASSUME i + m + 1 <= Len(s) + 1 PROVE \A k \in i..i+m : s[k] = "digit"
        OBVIOUS
      <3>1. \A k \in i..i+m-1 : s[k] = "digit"
        BY <1>1, <2>2
      <3>2. s[(i+m-1)+1] = "digit"
        <4>1. i+m-1 \in i-1..Len(s) /\ i+m-1 < Len(s)
          BY <1>1
        <4>. QED  BY <3>1, <4>1 DEF DigitsTo
      <3>3. (i+m-1)+1 = i+m /\ \A k \in i..i+m : k = i+m \/ k \in i..i+m-1
        OBVIOUS
      <3>. QED  BY <3>1, <3>2, <3>3
    <2>3. Nat \subseteq T
      <3> HIDE DEF T
      <3>. QED  BY <2>1, <2>2, SetInduction
    <2> DEFINE M == Len(s) + 1 - i
    <2>4. M \in Nat /\ i + M <= Len(s) + 1 /\ i + M - 1 = Len(s)
      BY <1>1
    <2>5. \A k \in i..Len(s) : s[k] = "digit"
      <3> HIDE DEF M
      <3>. QED  BY <2>3, <2>4
    <2>6. DigitsTo(s, i, Len(s))
      BY <1>1, <2>5 DEF DigitsTo
    <2>. QED  BY <2>6
  <1>3. DigitsTo(s, i, DigitsEnd(s, i))
    BY <1>2 DEF DigitsTo, DigitsEnd
  <1>4. ASSUME NEW j, NEW l, DigitsTo(s, i, j), DigitsTo(s, i, l), j < l PROVE FALSE
    <2>1. j \in i-1..Len(s) /\ l \in i-1..Len(s) /\ j + 1 \in i..l /\ j < Len(s)
      BY <1>1, <1>4 DEF DigitsTo
    <2>. QED  BY <1>4, <2>1 DEF DigitsTo
  <1>5. ASSUME NEW j, DigitsTo(s, i, j) PROVE j = DigitsEnd(s, i)
    <2>1. j \in Int /\ DigitsEnd(s, i) \in Int
      BY <1>1, <1>3, <1>5 DEF DigitsTo
    <2>2. ~(j < DigitsEnd(s, i)) /\ ~(DigitsEnd(s, i) < j)
      BY <1>3, <1>4, <1>5
    <2>. QED  BY <2>1, <2>2
  <1>. QED  BY <1>3, <1>5

\* A reference is one wherever it is looked for.
LEMMA ReferenceSuffix ==
  ASSUME NEW x \in Text, NEW y \in Text, NEW p \in 1..Len(y)
  PROVE  Reference(x \o y, Len(x) + p) <=> Reference(y, p)
  <1> DEFINE s == x \o y
             n == Len(x)
             l == DigitsEnd(y, p + 1)
  <1>1. s \in Text /\ n \in Nat /\ Len(y) \in Nat /\ Len(s) = n + Len(y)
    BY TextFacts, TextConcat
  <1>2. \A i \in 1..Len(y) : s[n + i] = y[i]
    BY TextConcat
  <1>3. DigitsTo(y, p + 1, l)
    BY <1>1, DigitsEndUnique
  <1>4. l \in p..Len(y)
    BY <1>1, <1>3 DEF DigitsTo
  <1>5. DigitsTo(s, n + p + 1, n + l)
    <2> HIDE DEF l, s, n
    <2>1. n + l \in (n + p + 1) - 1..Len(s)
      BY <1>1, <1>4
    <2>2. ASSUME NEW k \in n + p + 1..n + l PROVE s[k] = "digit"
      <3>1. k - n \in p + 1..l /\ k - n \in 1..Len(y) /\ n + (k - n) = k
        BY <1>1, <1>4
      <3>. QED  BY <1>2, <1>3, <3>1 DEF DigitsTo
    <2>3. ASSUME n + l < Len(s) PROVE s[(n + l) + 1] # "digit"
      <3>1. l < Len(y) /\ l + 1 \in 1..Len(y) /\ n + (l + 1) = (n + l) + 1
        BY <1>1, <1>4, <2>3
      <3>. QED  BY <1>2, <1>3, <3>1 DEF DigitsTo
    <2>. QED  BY <2>1, <2>2, <2>3 DEF DigitsTo
  <1>6. DigitsEnd(s, n + p + 1) = n + l
    <2>1. n + p + 1 \in 1..Len(s)+1
      BY <1>1
    <2>. QED  BY <1>1, <1>5, <2>1, DigitsEndUnique
  <1>7. n + p <= Len(s) /\ s[n + p] = y[p] /\ p <= Len(y)
    BY <1>1, <1>2
  <1>8. n + l > n + p <=> l > p
    BY <1>1, <1>4
  <1>9. n + l < Len(s) <=> l < Len(y)
    BY <1>1, <1>4
  <1>10. l < Len(y) => s[(n + l) + 1] = y[l + 1]
    <2>1. l < Len(y) => l + 1 \in 1..Len(y) /\ n + (l + 1) = (n + l) + 1
      BY <1>1, <1>4
    <2>. QED  BY <1>2, <2>1
  <1> HIDE DEF s, l, n
  <1>11. Reference(s, n + p) <=>
           /\ Marker(y[p])
           /\ n + l > n + p /\ (n + l < Len(s) => ~StartsWord(s[(n + l)+1]))
    BY <1>6, <1>7 DEF Reference
  <1>12. Reference(y, p) <=> Marker(y[p]) /\ l > p /\ (l < Len(y) => ~StartsWord(y[l+1]))
    BY <1>7 DEF Reference, l
  <1>13. Reference(s, n + p) <=> Reference(y, p)
    BY <1>8, <1>9, <1>10, <1>11, <1>12
  <1>. QED  BY <1>13 DEF s, n

\* What is written for the tokens from i, and where reading goes on.
Jump(s, i) ==
  IF i = 1 /\ Reference(s, 1) THEN DigitsEnd(s, 2) + 1
  ELSE IF Prefix(s[i]) /\ Reference(s, i+1) THEN DigitsEnd(s, i+2) + 1
  ELSE i + 1
Piece(s, i) ==
  IF i = 1 /\ Reference(s, 1) THEN repl_str(<<>>, SubSeq(s, 2, DigitsEnd(s, 2)))
  ELSE IF Prefix(s[i]) /\ Reference(s, i+1)
    THEN repl_str(<<s[i]>>, SubSeq(s, i+2, DigitsEnd(s, i+2)))
  ELSE <<s[i]>>

LEMMA TokenFacts ==
  /\ Repo \in Token /\ "#" \in Token /\ ~Marker(Repo) /\ Word(Repo) /\ Word("digit")
  /\ Marker("#") /\ ~Marker("digit") /\ Repo # "digit" /\ Repo # "#"
  BY LogAssumption DEF Token, Marker, Word

LEMMA SubText ==
  ASSUME NEW s \in Text, NEW a \in 1..Len(s) + 1, NEW b \in a-1..Len(s)
  PROVE  /\ SubSeq(s, a, b) \in Text /\ Len(SubSeq(s, a, b)) = b - a + 1
         /\ \A i \in 1..b-a+1 : SubSeq(s, a, b)[i] = s[a + i - 1]
  <1>1. Len(s) \in Nat /\ a \in Int /\ b \in Int
    BY TextFacts
  <1>2. \A i \in a..b : s[i] \in Token
    BY <1>1, TextFacts
  <1>3. /\ SubSeq(s, a, b) \in Text
        /\ Len(SubSeq(s, a, b)) = IF a <= b THEN b - a + 1 ELSE 0
        /\ \A i \in 1..b-a+1 : SubSeq(s, a, b)[i] = s[a + i - 1]
    <2> HIDE DEF Token
    <2>. QED  BY <1>1, <1>2, SubSeqProperties DEF Text
  <1>4. ~(a <= b) => b - a + 1 = 0
    BY <1>1
  <1>. QED  BY <1>3, <1>4

\* A match: a marker and one digit at least.
LEMMA ReferenceShape ==
  ASSUME NEW s \in Text, NEW i \in Nat \ {0}, Reference(s, i)
  PROVE  /\ i \in 1..Len(s) /\ Marker(s[i]) /\ DigitsEnd(s, i+1) \in i+1..Len(s)
         /\ DigitsTo(s, i+1, DigitsEnd(s, i+1))
         /\ i+1 \in 1..Len(s)+1
  <1>1. Len(s) \in Nat /\ i <= Len(s) /\ Marker(s[i]) /\ DigitsEnd(s, i+1) > i
    BY TextFacts DEF Reference
  <1>2. i + 1 \in 1..Len(s) + 1
    BY <1>1
  <1>3. DigitsTo(s, i+1, DigitsEnd(s, i+1))
    BY <1>2, DigitsEndUnique
  <1>. QED  BY <1>1, <1>2, <1>3 DEF DigitsTo

LEMMA Replaced ==
  ASSUME NEW x \in Text, NEW d \in Text
  PROVE  repl_str(x, d) = (x \o <<Repo, "#">>) \o d /\ repl_str(x, d) \in Text /\ <<Repo, "#">> \in Text
  <1>1. Repo \in Token /\ "#" \in Token
    BY TokenFacts
  <1>2. <<Repo, "#">> \in Text
    <2> HIDE DEF Token
    <2>. QED  BY <1>1 DEF Text
  <1>3. x \o <<Repo, "#">> \in Text
    BY <1>2, TextConcat
  <1>4. (x \o <<Repo, "#">>) \o d \in Text
    BY <1>3, TextConcat
  <1>. QED  BY <1>2, <1>4 DEF repl_str

LEMMA One ==
  ASSUME NEW t \in Token
  PROVE  <<t>> \in Text /\ Len(<<t>>) = 1 /\ <<t>>[1] = t
  BY DEF Text

\* The digits of a match at i, and what it is replaced by.
Digits(s, i)   == SubSeq(s, i+1, DigitsEnd(s, i+1))
Match(s, x, i) == repl_str(x, Digits(s, i))

LEMMA MatchPiece ==
  ASSUME NEW s \in Text, NEW x \in Text, NEW i \in Nat \ {0}, Reference(s, i)
  PROVE  /\ Digits(s, i) \in Text /\ Match(s, x, i) \in Text
         /\ Len(Digits(s, i)) = DigitsEnd(s, i+1) - i /\ Len(Digits(s, i)) \in Nat \ {0}
         /\ Len(Match(s, x, i)) = Len(x) + 2 + Len(Digits(s, i))
         /\ \A k \in 1..Len(x) : Match(s, x, i)[k] = x[k]
         /\ Match(s, x, i)[Len(x) + 1] = Repo /\ Match(s, x, i)[Len(x) + 2] = "#"
         /\ \A k \in 1..Len(Digits(s, i)) :
              Digits(s, i)[k] = "digit" /\ Match(s, x, i)[Len(x) + 2 + k] = "digit"
  <1> DEFINE j == DigitsEnd(s, i+1)
             d == Digits(s, i)
             w == Match(s, x, i)
             r == <<Repo, "#">>
  <1>1. /\ i+1 \in 1..Len(s)+1 /\ j \in i+1..Len(s) /\ DigitsTo(s, i+1, j)
        /\ Len(s) \in Nat /\ Len(x) \in Nat
    BY ReferenceShape, TextFacts
  <1> HIDE DEF j
  <1>2. j \in (i+1)-1..Len(s) /\ j - (i+1) + 1 = j - i /\ j - i \in Nat \ {0}
    BY <1>1
  <1>3. d \in Text /\ Len(d) = j - (i+1) + 1 /\ \A k \in 1..j-(i+1)+1 : d[k] = s[(i+1) + k - 1]
    BY <1>1, <1>2, SubText DEF Digits, j
  <1>4. Len(d) = j - i /\ Len(d) \in Nat \ {0}
    BY <1>2, <1>3
  <1>5. \A k \in 1..Len(d) : d[k] = "digit"
    <2> TAKE k \in 1..Len(d)
    <2>1. k \in 1..j-(i+1)+1 /\ (i+1) + k - 1 \in i+1..j
      BY <1>1, <1>2, <1>4
    <2> HIDE DEF d
    <2>. QED  BY <1>1, <1>3, <2>1 DEF DigitsTo
  <1> HIDE DEF d
  <1>6. w = (x \o r) \o d /\ w \in Text /\ r \in Text
    BY <1>3, Replaced DEF Match, d, w
  <1>7. Len(r) = 2 /\ r[1] = Repo /\ r[2] = "#"
    OBVIOUS
  <1> HIDE DEF w, r
  <1>8. /\ x \o r \in Text /\ Len(x \o r) = Len(x) + 2
        /\ \A k \in 1..Len(x) : (x \o r)[k] = x[k]
        /\ (x \o r)[Len(x) + 1] = Repo /\ (x \o r)[Len(x) + 2] = "#"
    <2>1. /\ x \o r \in Text /\ Len(x \o r) = Len(x) + Len(r)
          /\ \A k \in 1..Len(x) : (x \o r)[k] = x[k]
          /\ \A k \in 1..Len(r) : (x \o r)[Len(x) + k] = r[k]
      BY <1>6, TextConcat
    <2>2. 1 \in 1..Len(r) /\ 2 \in 1..Len(r)
      BY <1>7
    <2>. QED  BY <1>7, <2>1, <2>2
  <1>9. /\ Len(w) = Len(x) + 2 + Len(d)
        /\ \A k \in 1..Len(x) + 2 : w[k] = (x \o r)[k]
        /\ \A k \in 1..Len(d) : w[Len(x) + 2 + k] = d[k]
    <2> DEFINE y == x \o r
    <2>1. y \in Text /\ Len(y) = Len(x) + 2 /\ w = y \o d
      BY <1>6, <1>8
    <2> HIDE DEF y
    <2>2. /\ Len(y \o d) = Len(y) + Len(d)
          /\ \A k \in 1..Len(y) : (y \o d)[k] = y[k]
          /\ \A k \in 1..Len(d) : (y \o d)[Len(y) + k] = d[k]
      BY <1>3, <2>1, TextConcat
    <2>3. /\ \A k \in 1..Len(x) + 2 : w[k] = y[k]
          /\ \A k \in 1..Len(d) : w[Len(x) + 2 + k] = d[k]
      BY <2>1, <2>2
    <2>. QED  BY <2>1, <2>2, <2>3 DEF y
  <1>10. /\ \A k \in 1..Len(x) : k \in 1..Len(x) + 2
         /\ Len(x) + 1 \in 1..Len(x) + 2 /\ Len(x) + 2 \in 1..Len(x) + 2
    BY <1>1
  <1>11. \A k \in 1..Len(x) : w[k] = x[k]
    BY <1>8, <1>9, <1>10
  <1>12. w[Len(x) + 1] = Repo /\ w[Len(x) + 2] = "#"
    BY <1>8, <1>9, <1>10
  <1>13. \A k \in 1..Len(d) : d[k] = "digit" /\ w[Len(x) + 2 + k] = "digit"
    BY <1>5, <1>9
  <1>. QED  BY <1>3, <1>4, <1>6, <1>9, <1>11, <1>12, <1>13 DEF j, d, w

IsMatch(w, s, x, i) ==
  s \in Text /\ x \in Text /\ i \in Nat \ {0} /\ Reference(s, i) /\ w = Match(s, x, i)

Shape(w, x) ==
  \E n \in Nat \ {0} :
    /\ Len(w) = Len(x) + 2 + n
    /\ \A k \in 1..Len(x) : w[k] = x[k]
    /\ w[Len(x) + 1] = Repo /\ w[Len(x) + 2] = "#"
    /\ \A k \in 1..n : w[Len(x) + 2 + k] = "digit"

LEMMA MatchShape ==
  ASSUME NEW w, NEW s, NEW x, NEW i, IsMatch(w, s, x, i)
  PROVE  Shape(w, x)
  <1> DEFINE n == Len(Digits(s, i))
             y == Match(s, x, i)
  <1>1. s \in Text /\ x \in Text /\ i \in Nat \ {0} /\ Reference(s, i)
    BY DEF IsMatch
  <1>2. n \in Nat \ {0} /\ Len(y) = Len(x) + 2 + n
    BY <1>1, MatchPiece
  <1>3. \A k \in 1..Len(x) : y[k] = x[k]
    BY <1>1, MatchPiece
  <1>4. y[Len(x) + 1] = Repo /\ y[Len(x) + 2] = "#"
    BY <1>1, MatchPiece
  <1>5. \A k \in 1..n : y[Len(x) + 2 + k] = "digit"
    BY <1>1, MatchPiece
  <1>6. w = y
    BY DEF IsMatch
  <1> HIDE DEF n, y
  <1>. QED  BY <1>2, <1>3, <1>4, <1>5, <1>6 DEF Shape

LEMMA PieceType ==
  ASSUME NEW s \in Text, NEW i \in 1..Len(s)
  PROVE  Piece(s, i) \in Text /\ Jump(s, i) \in i+1..Len(s)+1
  <1>1. Len(s) \in Nat /\ s[i] \in Token
    BY TextFacts
  <1>2. CASE i = 1 /\ Reference(s, 1)
    <2>1. DigitsEnd(s, 2) \in 2..Len(s) /\ 2 \in 1..Len(s)+1
      <3>1. DigitsEnd(s, 1+1) \in 1+1..Len(s) /\ 1+1 \in 1..Len(s)+1
        BY <1>2, ReferenceShape
      <3>. QED  BY <3>1
    <2>2. SubSeq(s, 2, DigitsEnd(s, 2)) \in Text
      <3>1. DigitsEnd(s, 2) \in 2-1..Len(s)
        BY <1>1, <2>1
      <3>. QED  BY <2>1, <3>1, SubText
    <2>3. <<>> \in Text
      BY EmptySeq DEF Text
    <2>4. Piece(s, i) = repl_str(<<>>, SubSeq(s, 2, DigitsEnd(s, 2))) /\ Jump(s, i) = DigitsEnd(s, 2) + 1
      BY <1>2 DEF Piece, Jump
    <2>5. DigitsEnd(s, 2) + 1 \in i+1..Len(s)+1
      BY <1>1, <1>2, <2>1
    <2>. QED  BY <2>2, <2>3, <2>4, <2>5, Replaced
  <1>3. CASE ~(i = 1 /\ Reference(s, 1)) /\ Prefix(s[i]) /\ Reference(s, i+1)
    <2>1. DigitsEnd(s, i+2) \in i+2..Len(s) /\ i+2 \in 1..Len(s)+1
      <3>1. i+1 \in Nat \ {0} /\ (i+1)+1 = i+2
        OBVIOUS
      <3>2. DigitsEnd(s, (i+1)+1) \in (i+1)+1..Len(s) /\ (i+1)+1 \in 1..Len(s)+1
        BY <1>3, <3>1, ReferenceShape
      <3>. QED  BY <3>1, <3>2
    <2>2. SubSeq(s, i+2, DigitsEnd(s, i+2)) \in Text
      BY <1>1, <2>1, SubText
    <2>3. <<s[i]>> \in Text
      BY <1>1, One
    <2>4. /\ Piece(s, i) = repl_str(<<s[i]>>, SubSeq(s, i+2, DigitsEnd(s, i+2)))
          /\ Jump(s, i) = DigitsEnd(s, i+2) + 1
      BY <1>3 DEF Piece, Jump
    <2>5. DigitsEnd(s, i+2) + 1 \in i+1..Len(s)+1
      BY <1>1, <2>1
    <2>. QED  BY <2>2, <2>3, <2>4, <2>5, Replaced
  <1>4. CASE ~(i = 1 /\ Reference(s, 1)) /\ ~(Prefix(s[i]) /\ Reference(s, i+1))
    <2>1. Piece(s, i) = <<s[i]>> /\ Jump(s, i) = i + 1
      BY <1>4 DEF Piece, Jump
    <2>2. i + 1 \in i+1..Len(s)+1
      BY <1>1
    <2>. QED  BY <1>1, <2>1, <2>2, One
  <1>. QED  BY <1>2, <1>3, <1>4

\* What is computed from the end of a line exists.
Steps(S, N, b, jump, step) ==
  /\ N \in Nat \ {0} /\ b \in S /\ jump \in [1..N-1 -> 1..N]
  /\ step \in [(1..N-1) \X S -> S]
  /\ \A i \in 1..N-1 : jump[i] \in i+1..N

LEMMA Backward ==
  ASSUME NEW S, NEW N, NEW b, NEW jump, NEW step, Steps(S, N, b, jump, step)
  PROVE  \E g \in [1..N -> S] : g[N] = b /\ \A i \in 1..N-1 : g[i] = step[<<i, g[jump[i]]>>]
  <1> DEFINE Good(g, k) == g[N] = b /\ \A i \in N-k..N-1 : g[i] = step[<<i, g[jump[i]]>>]
             T == {k \in Nat : k < N => \E g \in [N-k..N -> S] : Good(g, k)}
  <1> USE DEF Steps
  <1>1. 0 \in T
    <2> DEFINE g == [i \in N..N |-> b]
    <2>1. g \in [N-0..N -> S] /\ Good(g, 0)
      OBVIOUS
    <2>. QED  BY <2>1
  <1>2. ASSUME NEW k \in Nat, k \in T PROVE k + 1 \in T
    <2> SUFFICES ASSUME k + 1 < N PROVE \E g \in [N-(k+1)..N -> S] : Good(g, k + 1)
      OBVIOUS
    <2>1. PICK g \in [N-k..N -> S] : Good(g, k)
      BY <1>2
    <2> DEFINE j == N - (k + 1)
               h == [i \in j..N |-> IF i = j THEN step[<<j, g[jump[j]]>>] ELSE g[i]]
    <2>2. j \in 1..N-1 /\ j \in Nat /\ N - k = j + 1 /\ jump[j] \in j+1..N
      <3>1. j \in 1..N-1 /\ j \in Nat /\ N - k = j + 1
        OBVIOUS
      <3> HIDE DEF j
      <3>. QED  BY <3>1
    <2>3. g[jump[j]] \in S /\ step[<<j, g[jump[j]]>>] \in S
      BY <2>1, <2>2
    <2>4. \A i \in j+1..N : i \in j..N /\ i # j /\ i \in N-k..N /\ h[i] = g[i] /\ g[i] \in S
      BY <2>1, <2>2
    <2>5. h[j] = step[<<j, g[jump[j]]>>] /\ j \in j..N
      BY <2>2
    <2>6. h \in [j..N -> S]
      <3>1. \A i \in j..N : i = j \/ i \in j+1..N
        BY <2>2
      <3>. QED  BY <2>3, <2>4, <3>1
    <2> HIDE DEF h, j
    <2>7. h[N] = b
      <3>1. N \in j+1..N
        BY <2>2
      <3>. QED  BY <2>1, <2>4, <3>1
    <2>8. ASSUME NEW i \in j..N-1 PROVE h[i] = step[<<i, h[jump[i]]>>]
      <3>1. CASE i = j
        BY <2>2, <2>4, <2>5, <3>1
      <3>2. CASE i # j
        <4>1. i \in j+1..N /\ i \in N-k..N-1 /\ jump[i] \in j+1..N
          BY <2>2, <3>2
        <4>. QED  BY <2>1, <2>4, <4>1
      <3>. QED  BY <3>1, <3>2
    <2>. QED  BY <2>6, <2>7, <2>8 DEF j
  <1>3. Nat \subseteq T
    <2> HIDE DEF T
    <2>. QED  BY <1>1, <1>2, SetInduction
  <1>4. N - 1 \in Nat /\ N - 1 < N /\ N - (N - 1) = 1
    OBVIOUS
  <1>. QED  BY <1>3, <1>4

LEMMA QualifiedUnfolds ==
  ASSUME NEW s \in Text
  PROVE  \E g \in [1..Len(s)+1 -> Text] :
           /\ g[Len(s)+1] = <<>>
           /\ \A i \in 1..Len(s) : g[i] = Piece(s, i) \o g[Jump(s, i)]
           /\ Qualified(s) = g[1]
  <1> DEFINE N == Len(s) + 1
             F(g) == [i \in 1..N |->
                        IF i > Len(s) THEN <<>>
                        ELSE IF i = 1 /\ Reference(s, 1)
                          THEN LET j == DigitsEnd(s, 2) IN repl_str(<<>>, SubSeq(s, 2, j)) \o g[j+1]
                        ELSE IF Prefix(s[i]) /\ Reference(s, i+1)
                          THEN LET j == DigitsEnd(s, i+2)
                               IN  repl_str(<<s[i]>>, SubSeq(s, i+2, j)) \o g[j+1]
                        ELSE <<s[i]>> \o g[i+1]]
             h == CHOOSE g : g = F(g)
             jump == [i \in 1..N-1 |-> Jump(s, i)]
             step == [x \in (1..N-1) \X Text |-> Piece(s, x[1]) \o x[2]]
  <1>1. Len(s) \in Nat /\ N \in Nat \ {0} /\ N - 1 = Len(s) /\ <<>> \in Text
    BY TextFacts, EmptySeq DEF Text
  <1>2. \A i \in 1..Len(s) : i \in 1..N-1 /\ jump[i] = Jump(s, i) /\ jump[i] \in i+1..N
    BY <1>1, PieceType
  <1>3. ASSUME NEW i \in 1..Len(s), NEW v \in Text
        PROVE  step[<<i, v>>] = Piece(s, i) \o v /\ step[<<i, v>>] \in Text
    <2>1. i \in 1..N-1 /\ Piece(s, i) \in Text
      BY <1>1, PieceType
    <2>2. step[<<i, v>>] = Piece(s, i) \o v
      <3> HIDE DEF N
      <3>. QED  BY <2>1
    <2>3. Piece(s, i) \o v \in Text
      BY <2>1, TextConcat
    <2> HIDE DEF step
    <2>. QED  BY <2>2, <2>3
  <1>4. PICK g \in [1..N -> Text] : g[N] = <<>> /\ \A i \in 1..N-1 : g[i] = step[<<i, g[jump[i]]>>]
    <2> HIDE DEF jump, step, N
    <2>1. \A i \in 1..N-1 : jump[i] \in i+1..N
      BY <1>1, <1>2
    <2>2. jump \in [1..N-1 -> 1..N]
      <3>1. \A i \in 1..N-1 : Jump(s, i) \in 1..N
        BY <1>1, PieceType
      <3>. QED  BY <3>1 DEF jump
    <2>3. step \in [(1..N-1) \X Text -> Text]
      <3>1. \A x \in (1..N-1) \X Text : Piece(s, x[1]) \o x[2] \in Text
        BY <1>1, PieceType, TextConcat
      <3>. QED  BY <3>1 DEF step
    <2>4. N \in Nat \ {0} /\ <<>> \in Text
      BY <1>1
    <2> DEFINE empty == <<>>
    <2>5. empty \in Text
      BY <2>4
    <2> HIDE DEF empty
    <2>6. \E g \in [1..N -> Text] : g[N] = empty /\ \A i \in 1..N-1 : g[i] = step[<<i, g[jump[i]]>>]
      <3>1. Steps(Text, N, empty, jump, step)
        BY <2>1, <2>2, <2>3, <2>4, <2>5 DEF Steps
      <3>. QED  BY <3>1, Backward
    <2>. QED  BY <2>6 DEF empty
  <1>5. \A i \in 1..Len(s) : g[i] = Piece(s, i) \o g[Jump(s, i)]
    <2> TAKE i \in 1..Len(s)
    <2> HIDE DEF jump, step, N
    <2>1. g[jump[i]] \in Text
      <3>1. jump[i] \in 1..N
        BY <1>1, <1>2
      <3>. QED  BY <3>1
    <2>. QED  BY <1>1, <1>2, <1>3, <1>4, <2>1
  <1>6. ASSUME NEW q, NEW i \in 1..N
        PROVE  F(q)[i] = IF i > Len(s) THEN <<>> ELSE Piece(s, i) \o q[Jump(s, i)]
    BY <1>6 DEF Piece, Jump
  <1>7. g = F(g)
    <2>1. ASSUME NEW i \in 1..N PROVE F(g)[i] = g[i]
      <3>1. \/ i \in 1..Len(s) /\ ~(i > Len(s))
            \/ i = N /\ i > Len(s)
        BY <1>1
      <3>2. F(g)[i] = IF i > Len(s) THEN <<>> ELSE Piece(s, i) \o g[Jump(s, i)]
        BY <1>6
      <3> HIDE DEF F, N
      <3>. QED  BY <1>4, <1>5, <3>1, <3>2
    <2>2. F(g) = [i \in 1..N |-> F(g)[i]]
      OBVIOUS
    <2> HIDE DEF F
    <2>. QED  BY <1>4, <2>1, <2>2
  <1>8. h = F(h)
    <2> HIDE DEF F
    <2>. QED  BY <1>7
  <1>9. Qualified(s) = h[1]
    BY DEF Qualified
  <1>10. h[N] = <<>> /\ \A i \in 1..Len(s) : h[i] = Piece(s, i) \o h[Jump(s, i)]
    <2>1. \A i \in 1..N : h[i] = IF i > Len(s) THEN <<>> ELSE Piece(s, i) \o h[Jump(s, i)]
      <3> HIDE DEF h, F, N
      <3>. QED  BY <1>6, <1>8
    <2>2. N \in 1..N /\ N > Len(s) /\ \A i \in 1..Len(s) : i \in 1..N /\ ~(i > Len(s))
      BY <1>1
    <2> HIDE DEF h, N
    <2>. QED  BY <2>1, <2>2
  <1>11. \A i \in 1..N : h[i] = g[i]
    <2> DEFINE T == {k \in Nat : \A i \in 1..N : i >= N - k => h[i] = g[i]}
    <2> HIDE DEF h
    <2>1. 0 \in T
      <3>1. \A i \in 1..N : i >= N - 0 => i = N
        OBVIOUS
      <3>. QED  BY <1>4, <1>10, <3>1
    <2>2. ASSUME NEW k \in Nat, k \in T PROVE k + 1 \in T
      <3> SUFFICES ASSUME NEW i \in 1..N, i >= N - (k + 1) PROVE h[i] = g[i]
        OBVIOUS
      <3>1. CASE i = N
        BY <1>4, <1>10, <3>1
      <3>2. CASE i # N
        <4>1. i \in 1..Len(s)
          BY <1>1, <3>2
        <4>2. Jump(s, i) \in 1..N /\ Jump(s, i) >= N - k
          <5>1. Jump(s, i) \in i+1..Len(s)+1
            BY <4>1, PieceType
          <5>. QED  BY <1>1, <5>1
        <4>3. h[Jump(s, i)] = g[Jump(s, i)]
          BY <2>2, <4>2
        <4>. QED  BY <1>5, <1>10, <4>1, <4>3
      <3>. QED  BY <3>1, <3>2
    <2>3. Nat \subseteq T
      <3> HIDE DEF T
      <3>. QED  BY <2>1, <2>2, SetInduction
    <2>4. N \in T
      BY <1>1, <2>3
    <2>. QED  BY <1>1, <2>4
  <1>12. Qualified(s) = g[1]
    <2> HIDE DEF h
    <2>. QED  BY <1>1, <1>9, <1>11
  <1>. QED  BY <1>4, <1>5, <1>12


Start(s, i)  == i = 1 /\ Reference(s, 1)
Inner(s, i)  == Prefix(s[i]) /\ Reference(s, i+1)

LEMMA Pieces ==
  ASSUME NEW s \in Text, NEW i \in 1..Len(s)
  PROVE  /\ Start(s, i) =>
              Piece(s, i) = Match(s, <<>>, i) /\ Jump(s, i) = DigitsEnd(s, i+1) + 1
         /\ ~Start(s, i) /\ Inner(s, i) =>
              Piece(s, i) = Match(s, <<s[i]>>, i+1) /\ Jump(s, i) = DigitsEnd(s, (i+1)+1) + 1
         /\ ~Start(s, i) /\ ~Inner(s, i) => Piece(s, i) = <<s[i]>> /\ Jump(s, i) = i + 1
  <1>1. (i+1)+1 = i+2 /\ (i = 1 => i + 1 = 2)
    OBVIOUS
  <1>. QED  BY <1>1 DEF Start, Inner, Match, Digits, Piece, Jump

Computed(s, g) ==
  /\ s \in Text /\ g \in [1..Len(s)+1 -> Text] /\ g[Len(s)+1] = <<>>
  /\ \A i \in 1..Len(s) : g[i] = Piece(s, i) \o g[Jump(s, i)]

LEMMA ComputedFacts ==
  ASSUME NEW s, NEW g, Computed(s, g), NEW i \in 1..Len(s)
  PROVE  /\ s \in Text /\ Len(s) \in Nat
         /\ g[i] \in Text /\ Piece(s, i) \in Text /\ Jump(s, i) \in i+1..Len(s)+1
         /\ g[Jump(s, i)] \in Text /\ g[i] = Piece(s, i) \o g[Jump(s, i)]
         /\ g[i+1] \in Text
         /\ ~Start(s, i) /\ ~Inner(s, i) => g[i] = <<s[i]>> \o g[i+1]
  <1>1. s \in Text /\ Len(s) \in Nat
    BY TextFacts DEF Computed
  <1>2. Piece(s, i) \in Text /\ Jump(s, i) \in i+1..Len(s)+1
    BY <1>1, PieceType
  <1>3. Jump(s, i) \in 1..Len(s)+1 /\ i \in 1..Len(s)+1 /\ i+1 \in 1..Len(s)+1
    BY <1>1, <1>2
  <1>4. g[i] \in Text /\ g[Jump(s, i)] \in Text /\ g[i+1] \in Text
    BY <1>3 DEF Computed
  <1>5. g[i] = Piece(s, i) \o g[Jump(s, i)]
    BY DEF Computed
  <1>6. ~Start(s, i) /\ ~Inner(s, i) => g[i] = <<s[i]>> \o g[i+1]
    BY <1>1, <1>5, Pieces
  <1>. QED  BY <1>1, <1>2, <1>4, <1>5, <1>6

\* What a token in front changes.
LEMMA ConsFacts ==
  ASSUME NEW t \in Token, NEW y \in Text
  PROVE  /\ <<t>> \o y \in Text /\ Len(<<t>> \o y) = 1 + Len(y) /\ (<<t>> \o y)[1] = t
         /\ \A k \in 1..Len(y) : (<<t>> \o y)[1 + k] = y[k]
  <1>1. <<t>> \o y \in Text
    BY One, TextConcat
  <1>2. Len(<<t>> \o y) = 1 + Len(y)
    BY One, TextConcat
  <1>3. (<<t>> \o y)[1] = t
    BY One, TextConcat
  <1>4. \A k \in 1..Len(y) : (<<t>> \o y)[1 + k] = y[k]
    BY One, TextConcat
  <1>. QED  BY <1>1, <1>2, <1>3, <1>4

\* A prefix, then a match.
InnerShape(p, t) ==
  \E n \in Nat \ {0} :
    /\ Len(p) = 3 + n /\ p[1] = t /\ p[2] = Repo /\ p[3] = "#"
    /\ \A k \in 1..n : p[3 + k] = "digit"

LEMMA InnerFacts ==
  ASSUME NEW s, NEW g, Computed(s, g), NEW i \in 1..Len(s), ~Start(s, i), Inner(s, i)
  PROVE  /\ ~Word(s[i]) /\ s[i] # "digit" /\ s[i] \in Token
         /\ InnerShape(Piece(s, i), s[i])
  <1> DEFINE x == <<s[i]>>
  <1>1. s \in Text /\ s[i] \in Token
    BY ComputedFacts, TextFacts
  <1>2. x \in Text /\ Len(x) = 1 /\ x[1] = s[i]
    BY <1>1, One
  <1>3. Piece(s, i) = Match(s, x, i+1)
    BY <1>1, Pieces
  <1>4. Reference(s, i+1) /\ ~Word(s[i]) /\ s[i] # "digit" /\ i+1 \in Nat \ {0}
    BY TokenFacts DEF Inner, Prefix
  <1> HIDE DEF x
  <1> DEFINE p == Piece(s, i)
  <1>5. IsMatch(p, s, x, i+1)
    BY <1>1, <1>2, <1>3, <1>4 DEF IsMatch
  <1> HIDE DEF p
  <1>6. PICK n \in Nat \ {0} :
           /\ Len(p) = Len(x) + 2 + n
           /\ \A k \in 1..Len(x) : p[k] = x[k]
           /\ p[Len(x) + 1] = Repo /\ p[Len(x) + 2] = "#"
           /\ \A k \in 1..n : p[Len(x) + 2 + k] = "digit"
    <2>1. Shape(p, x)
      BY <1>5, MatchShape
    <2>. QED  BY <2>1 DEF Shape
  <1>7. 1 \in 1..Len(x) /\ Len(x) + 1 = 2 /\ Len(x) + 2 = 3
    BY <1>2
  <1>8. Len(p) = 3 + n /\ p[1] = s[i] /\ p[2] = Repo /\ p[3] = "#" /\ \A k \in 1..n : p[3 + k] = "digit"
    BY <1>2, <1>6, <1>7
  <1>9. InnerShape(p, s[i])
    BY <1>8 DEF InnerShape
  <1>. QED  BY <1>1, <1>4, <1>9 DEF p

\* A match at the start of the line.
LEMMA StartFacts ==
  ASSUME NEW s, NEW g, Computed(s, g), NEW i \in 1..Len(s), Start(s, i)
  PROVE  \E n \in Nat \ {0} :
           /\ Len(Piece(s, i)) = 2 + n
           /\ Piece(s, i)[1] = Repo /\ Piece(s, i)[2] = "#"
           /\ \A k \in 1..n : Piece(s, i)[2 + k] = "digit"
  <1> DEFINE x == <<>>
             p == Piece(s, i)
  <1>1. s \in Text /\ i \in Nat \ {0}
    <2>1. s \in Text
      BY DEF Computed
    <2>. QED  BY <2>1, TextFacts
  <1>2. x \in Text
    BY EmptySeq DEF Text
  <1>3. Len(x) = 0
    OBVIOUS
  <1>4. p = Match(s, x, i) /\ Reference(s, i)
    BY <1>1, Pieces DEF Start
  <1> HIDE DEF x
  <1>5. IsMatch(p, s, x, i)
    BY <1>1, <1>2, <1>4 DEF IsMatch
  <1> HIDE DEF p
  <1>6. PICK n \in Nat \ {0} :
           /\ Len(p) = Len(x) + 2 + n
           /\ \A k \in 1..Len(x) : p[k] = x[k]
           /\ p[Len(x) + 1] = Repo /\ p[Len(x) + 2] = "#"
           /\ \A k \in 1..n : p[Len(x) + 2 + k] = "digit"
    <2>1. Shape(p, x)
      BY <1>5, MatchShape
    <2>. QED  BY <2>1 DEF Shape
  <1>7. Len(x) + 1 = 1 /\ Len(x) + 2 = 2
    BY <1>3
  <1>8. Len(p) = 2 + n /\ p[1] = Repo /\ p[2] = "#" /\ \A k \in 1..n : p[2 + k] = "digit"
    BY <1>6, <1>7
  <1>. QED  BY <1>8 DEF p

\* Up to the first token that is not a digit, what is written from i on, past
\* the start of the line, is what is read there.
AgreeAt(s, g, i) ==
  /\ \A k \in i..Len(s) : (\A l \in i..k-1 : s[l] = "digit") =>
       k - i + 1 <= Len(g[i]) /\ g[i][k - i + 1] = s[k]
  /\ (\A l \in i..Len(s) : s[l] = "digit") => Len(g[i]) = Len(s) - i + 1

LEMMA AgreeStep ==
  ASSUME NEW s, NEW g, Computed(s, g), NEW i \in 2..Len(s), AgreeAt(s, g, i+1)
  PROVE  AgreeAt(s, g, i)
  <1>1. i \in 1..Len(s) /\ i # 1 /\ ~Start(s, i)
    BY DEF Start
  <1>2. s \in Text /\ Len(s) \in Nat /\ s[i] \in Token /\ g[i] \in Text /\ g[i+1] \in Text
    BY <1>1, ComputedFacts, TextFacts
  <1>3. CASE Inner(s, i)
    <2>1. s[i] # "digit"
      BY <1>1, <1>3, InnerFacts
    <2>2. Len(g[i]) >= 1 /\ g[i][1] = s[i]
      <3> DEFINE p == Piece(s, i)
                 y == g[Jump(s, i)]
      <3>1. p \in Text /\ y \in Text /\ g[i] = p \o y
        BY <1>1, ComputedFacts
      <3>2. PICK n \in Nat \ {0} : Len(p) = 3 + n /\ p[1] = s[i]
        BY <1>1, <1>3, InnerFacts DEF InnerShape
      <3> HIDE DEF p, y
      <3>3. Len(p \o y) = Len(p) + Len(y) /\ \A k \in 1..Len(p) : (p \o y)[k] = p[k]
        BY <3>1, TextConcat
      <3>4. 1 \in 1..Len(p) /\ Len(y) \in Nat
        BY <3>1, <3>2, TextFacts
      <3>. QED  BY <3>1, <3>2, <3>3, <3>4
    <2>3. ASSUME NEW k \in i..Len(s), \A l \in i..k-1 : s[l] = "digit"
          PROVE  k - i + 1 <= Len(g[i]) /\ g[i][k - i + 1] = s[k]
      <3>1. k = i
        BY <2>1, <2>3
      <3>. QED  BY <2>2, <3>1
    <2>4. ~(\A l \in i..Len(s) : s[l] = "digit")
      BY <1>1, <2>1
    <2>. QED  BY <2>3, <2>4 DEF AgreeAt
  <1>4. CASE ~Inner(s, i)
    <2> DEFINE y == g[i+1]
    <2>1. g[i] = <<s[i]>> \o y
      BY <1>1, <1>4, ComputedFacts
    <2>2. y \in Text /\ Len(y) \in Nat
      BY <1>2, TextFacts
    <2> HIDE DEF y
    <2>3. Len(g[i]) = 1 + Len(y) /\ g[i][1] = s[i] /\ \A k \in 1..Len(y) : g[i][1 + k] = y[k]
      BY <1>2, <2>1, <2>2, ConsFacts
    <2>4. ASSUME NEW k \in i..Len(s), \A l \in i..k-1 : s[l] = "digit"
          PROVE  k - i + 1 <= Len(g[i]) /\ g[i][k - i + 1] = s[k]
      <3>1. CASE k = i
        BY <2>2, <2>3, <3>1
      <3>2. CASE k # i
        <4>1. k \in i+1..Len(s) /\ \A l \in i+1..k-1 : l \in i..k-1
          BY <3>2
        <4>2. k - (i+1) + 1 <= Len(y) /\ y[k - (i+1) + 1] = s[k]
          BY <2>4, <4>1 DEF AgreeAt, y
        <4>3. k - (i+1) + 1 \in 1..Len(y) /\ 1 + (k - (i+1) + 1) = k - i + 1
          BY <2>2, <4>1, <4>2
        <4>. QED  BY <2>2, <2>3, <4>2, <4>3
      <3>. QED  BY <3>1, <3>2
    <2>5. ASSUME \A l \in i..Len(s) : s[l] = "digit" PROVE Len(g[i]) = Len(s) - i + 1
      <3>1. \A l \in i+1..Len(s) : l \in i..Len(s)
        OBVIOUS
      <3>2. Len(y) = Len(s) - (i+1) + 1
        BY <2>5, <3>1 DEF AgreeAt, y
      <3>. QED  BY <1>2, <2>3, <3>2
    <2>. QED  BY <2>4, <2>5 DEF AgreeAt
  <1>. QED  BY <1>3, <1>4

LEMMA Agree ==
  ASSUME NEW s, NEW g, Computed(s, g)
  PROVE  \A i \in 2..Len(s)+1 : AgreeAt(s, g, i)
  <1> DEFINE N == Len(s) + 1
             T == {k \in Nat : N - k >= 2 => AgreeAt(s, g, N - k)}
  <1>1. s \in Text /\ Len(s) \in Nat /\ g[N] = <<>> /\ N \in Nat
    BY TextFacts DEF Computed
  <1>2. 0 \in T
    <2>1. N..Len(s) = {} /\ N - 0 = N /\ Len(s) - N + 1 = 0
      BY <1>1
    <2>2. Len(g[N]) = 0
      BY <1>1
    <2> HIDE DEF N
    <2>3. AgreeAt(s, g, N)
      BY <2>1, <2>2 DEF AgreeAt
    <2>. QED  BY <2>1, <2>3
  <1>3. ASSUME NEW k \in Nat, k \in T PROVE k + 1 \in T
    <2> SUFFICES ASSUME N - (k + 1) >= 2 PROVE AgreeAt(s, g, N - (k + 1))
      OBVIOUS
    <2>1. N - (k + 1) \in 2..Len(s) /\ (N - (k + 1)) + 1 = N - k /\ N - k >= 2
      BY <1>1
    <2>2. AgreeAt(s, g, (N - (k + 1)) + 1)
      BY <1>3, <2>1
    <2> HIDE DEF N
    <2>. QED  BY <2>1, <2>2, AgreeStep
  <1>4. Nat \subseteq T
    <2> HIDE DEF T
    <2>. QED  BY <1>2, <1>3, SetInduction
  <1>5. ASSUME NEW i \in 2..Len(s)+1 PROVE AgreeAt(s, g, i)
    <2>1. N - i \in Nat /\ N - (N - i) = i /\ i >= 2
      BY <1>1
    <2>2. N - i \in T
      BY <1>4, <2>1
    <2>. QED  BY <2>1, <2>2
  <1>. QED  BY <1>5

\* A reference at the head of what is written from i on is one at i.
LEMMA FirstReference ==
  ASSUME NEW s, NEW g, Computed(s, g), NEW i \in 1..Len(s), ~Start(s, i), Reference(g[i], 1)
  PROVE  Reference(s, i)
  <1>1. s \in Text /\ Len(s) \in Nat /\ s[i] \in Token /\ g[i] \in Text /\ g[i+1] \in Text
    BY ComputedFacts, TextFacts
  <1> DEFINE o == g[i]
             y == g[i+1]
  <1>2. Len(o) \in Nat /\ Len(o) >= 1 /\ Marker(o[1]) /\ DigitsEnd(o, 2) > 1
        /\ (DigitsEnd(o, 2) < Len(o) => ~StartsWord(o[DigitsEnd(o, 2)+1]))
    <2>1. 1+1 = 2
      OBVIOUS
    <2>. QED  BY <1>1, <2>1, TextFacts DEF Reference
  <1>3. ~Inner(s, i)
    <2> SUFFICES ASSUME Inner(s, i) PROVE FALSE
      OBVIOUS
    <2> DEFINE p == Piece(s, i)
               z == g[Jump(s, i)]
    <2>1. p \in Text /\ z \in Text /\ o = p \o z
      BY ComputedFacts
    <2>2. PICK n \in Nat \ {0} : Len(p) = 3 + n /\ p[2] = Repo
      BY InnerFacts DEF InnerShape
    <2> HIDE DEF p, z, o
    <2>3. \A k \in 1..Len(p) : (p \o z)[k] = p[k]
      BY <2>1, TextConcat
    <2>4. 2 \in 1..Len(p)
      BY <2>2
    <2>5. o[2] = Repo
      BY <2>1, <2>2, <2>3, <2>4
    <2>6. DigitsTo(o, 2, DigitsEnd(o, 2)) /\ 2 \in 2..DigitsEnd(o, 2)
      <3>1. 2 \in 1..Len(o) + 1 /\ o \in Text
        BY <1>1, <1>2 DEF o
      <3>2. DigitsTo(o, 2, DigitsEnd(o, 2))
        BY <3>1, DigitsEndUnique
      <3>3. DigitsEnd(o, 2) \in 1..Len(o)
        BY <3>2 DEF DigitsTo
      <3>. QED  BY <1>2, <3>2, <3>3
    <2>. QED  BY <2>5, <2>6, TokenFacts DEF DigitsTo
  <1>4. o = <<s[i]>> \o y /\ Len(y) \in Nat
    BY <1>1, <1>3, ComputedFacts, TextFacts
  <1> HIDE DEF o
  <1>5. AgreeAt(s, g, i+1)
    <2>1. i+1 \in 2..Len(s)+1
      BY <1>1
    <2>. QED  BY <2>1, Agree
  <1> HIDE DEF y
  <1>6. Len(o) = 1 + Len(y) /\ o[1] = s[i] /\ \A k \in 1..Len(y) : o[1 + k] = y[k]
    BY <1>1, <1>4, ConsFacts DEF y
  <1> DEFINE J == DigitsEnd(s, i+1)
  <1>7. DigitsTo(s, i+1, J) /\ J \in i..Len(s)
    <2>1. i+1 \in 1..Len(s)+1 /\ (i+1) - 1 = i
      BY <1>1
    <2>2. DigitsTo(s, i+1, J)
      BY <1>1, <2>1, DigitsEndUnique
    <2>. QED  BY <2>1, <2>2 DEF DigitsTo
  <1>8. \A k \in i+1..J : s[k] = "digit"
    BY <1>7 DEF DigitsTo
  <1> HIDE DEF J
  <1>9. ASSUME NEW k \in i+1..Len(s), k <= J + 1
        PROVE  k - i \in 1..Len(y) /\ y[k - i] = s[k]
    <2>1. \A l \in i+1..k-1 : l \in i+1..J
      BY <1>7, <1>9
    <2>2. k - (i+1) + 1 <= Len(y) /\ y[k - (i+1) + 1] = s[k]
      BY <1>5, <1>8, <2>1 DEF AgreeAt, y
    <2>3. k - (i+1) + 1 = k - i
      OBVIOUS
    <2>. QED  BY <1>4, <2>2, <2>3
  <1>10. J = Len(s) => Len(y) = Len(s) - i
    <2>1. ASSUME J = Len(s) PROVE Len(y) = Len(s) - (i+1) + 1
      BY <1>5, <1>8, <2>1 DEF AgreeAt, y
    <2>. QED  BY <1>1, <2>1
  <1>11. J - i <= Len(y) /\ (J < Len(s) <=> J - i < Len(y))
    <2>1. CASE J = Len(s)
      BY <1>1, <1>4, <1>10, <2>1
    <2>2. CASE J < Len(s)
      <3>1. (J+1) - i \in 1..Len(y)
        <4>1. J + 1 \in i+1..Len(s) /\ J + 1 <= J + 1
          BY <1>1, <1>7, <2>2
        <4>. QED  BY <1>9, <4>1
      <3>. QED  BY <1>1, <1>4, <1>7, <2>2, <3>1
    <2>. QED  BY <1>1, <1>7, <2>1, <2>2
  <1>12. DigitsTo(o, 2, J - i + 1)
    <2>1. J - i + 1 \in 2-1..Len(o)
      BY <1>1, <1>4, <1>6, <1>7, <1>11
    <2>2. ASSUME NEW k \in 2..J - i + 1 PROVE o[k] = "digit"
      <3>1. /\ k - 1 + i \in i+1..Len(s) /\ k - 1 + i <= J + 1 /\ (k - 1 + i) - i = k - 1
            /\ 1 + (k - 1) = k /\ k - 1 + i \in i+1..J
        BY <1>1, <1>7
      <3>2. k - 1 \in 1..Len(y) /\ y[k - 1] = s[k - 1 + i]
        BY <1>9, <3>1
      <3>. QED  BY <1>6, <1>8, <3>1, <3>2
    <2>3. ASSUME J - i + 1 < Len(o) PROVE o[(J - i + 1) + 1] # "digit"
      <3>1. J < Len(s)
        BY <1>1, <1>4, <1>6, <1>7, <1>11, <2>3
      <3>2. J + 1 \in i+1..Len(s) /\ J + 1 <= J + 1 /\ (J + 1) - i = J - i + 1 /\ 1 + (J - i + 1) = (J - i + 1) + 1
        BY <1>1, <1>7, <3>1
      <3>3. J - i + 1 \in 1..Len(y) /\ y[J - i + 1] = s[J + 1]
        BY <1>9, <3>2
      <3>4. s[J+1] # "digit"
        BY <1>7, <3>1 DEF DigitsTo
      <3>. QED  BY <1>6, <3>2, <3>3, <3>4
    <2>. QED  BY <2>1, <2>2, <2>3 DEF DigitsTo
  <1>13. DigitsEnd(o, 2) = J - i + 1
    <2>1. 2 \in 1..Len(o) + 1 /\ o \in Text
      BY <1>1, <1>2 DEF o
    <2>. QED  BY <1>12, <2>1, DigitsEndUnique
  <1>14. J > i
    BY <1>2, <1>7, <1>13
  <1>15. ASSUME J < Len(s) PROVE ~StartsWord(s[J+1])
    <2>1. J + 1 \in i+1..Len(s) /\ J + 1 <= J + 1 /\ (J + 1) - i = J - i + 1 /\ 1 + (J - i + 1) = (J - i + 1) + 1
      BY <1>1, <1>7, <1>15
    <2>2. J - i + 1 \in 1..Len(y) /\ y[J - i + 1] = s[J + 1]
      BY <1>9, <2>1
    <2>3. o[(J - i + 1) + 1] = s[J + 1]
      BY <1>6, <2>1, <2>2
    <2>4. J - i + 1 < Len(o)
      BY <1>1, <1>4, <1>6, <1>7, <1>11, <1>15
    <2>. QED  BY <1>2, <1>13, <2>3, <2>4
  <1>. QED  BY <1>1, <1>2, <1>6, <1>14, <1>15 DEF Reference, J

\* An unqualified reference past the seam of two texts, and at it.
LEMMA UnqualifiedShift ==
  ASSUME NEW x \in Text, NEW y \in Text, NEW p \in 2..Len(y), Unqualified(x \o y, Len(x) + p)
  PROVE  Unqualified(y, p)
  <1>1. Len(x) \in Nat /\ Len(y) \in Nat /\ p \in 1..Len(y) /\ p - 1 \in 1..Len(y)
    BY TextFacts
  <1>2. Reference(y, p)
    BY <1>1, ReferenceSuffix DEF Unqualified
  <1>3. ~Word((x \o y)[(Len(x) + p) - 1]) /\ (Len(x) + p) - 1 = Len(x) + (p - 1)
    BY <1>1 DEF Unqualified
  <1>4. (x \o y)[Len(x) + (p - 1)] = y[p - 1]
    BY <1>1, TextConcat
  <1>. QED  BY <1>2, <1>3, <1>4 DEF Unqualified

LEMMA UnqualifiedSeam ==
  ASSUME NEW x \in Text, NEW y \in Text, Len(x) >= 1, Len(y) >= 1, Unqualified(x \o y, Len(x) + 1)
  PROVE  Reference(y, 1) /\ ~Word(x[Len(x)])
  <1>1. Len(x) \in Nat /\ Len(y) \in Nat
    BY TextFacts
  <1>2. 1 \in 1..Len(y) /\ Len(x) \in 1..Len(x)
    BY <1>1
  <1>3. Reference(y, 1)
    BY <1>2, ReferenceSuffix DEF Unqualified
  <1>4. ~Word((x \o y)[(Len(x) + 1) - 1]) /\ (Len(x) + 1) - 1 = Len(x)
    BY <1>1 DEF Unqualified
  <1>5. (x \o y)[Len(x)] = x[Len(x)]
    BY <1>2, TextConcat
  <1>. QED  BY <1>3, <1>4, <1>5

\* No unqualified reference in what is written from i on, past its first token.
NoneLeft(g, i) == \A p \in 2..Len(g[i]) : ~Unqualified(g[i], p)

LEMMA NoneLeftStep ==
  ASSUME NEW s, NEW g, Computed(s, g), NEW i \in 1..Len(s), NoneLeft(g, Jump(s, i))
  PROVE  NoneLeft(g, i)
  <1> DEFINE x == Piece(s, i)
             y == g[Jump(s, i)]
  <1>1. /\ s \in Text /\ Len(s) \in Nat /\ s[i] \in Token
        /\ x \in Text /\ y \in Text /\ g[i] = x \o y /\ Len(y) \in Nat
    BY ComputedFacts, TextFacts
  <1>2. /\ Len(x) \in Nat /\ Len(x) >= 1
        /\ \A p \in 2..Len(x) : ~Marker(x[p]) \/ Word(x[p-1])
        /\ (~Start(s, i) /\ ~Inner(s, i)) \/ Word(x[Len(x)])
    <2>1. CASE Start(s, i)
      <3>1. PICK n \in Nat \ {0} :
              /\ Len(x) = 2 + n /\ x[1] = Repo /\ x[2] = "#"
              /\ \A k \in 1..n : x[2 + k] = "digit"
        BY <2>1, StartFacts
      <3> HIDE DEF x
      <3>2. \A p \in 3..Len(x) : x[p] = "digit"
        <4> TAKE p \in 3..Len(x)
        <4>1. p - 2 \in 1..n /\ 2 + (p - 2) = p
          BY <3>1
        <4>. QED  BY <3>1, <4>1
      <3>3. Len(x) \in 3..Len(x) /\ Len(x) \in Nat /\ Len(x) >= 1
        BY <3>1
      <3>4. \A p \in 2..Len(x) : (p = 2 /\ p - 1 = 1) \/ p \in 3..Len(x)
        OBVIOUS
      <3>. QED  BY <3>1, <3>2, <3>3, <3>4, TokenFacts
    <2>2. CASE ~Start(s, i) /\ Inner(s, i)
      <3>1. PICK n \in Nat \ {0} :
              /\ Len(x) = 3 + n /\ x[1] = s[i] /\ x[2] = Repo /\ x[3] = "#"
              /\ \A k \in 1..n : x[3 + k] = "digit"
        <4>1. InnerShape(x, s[i])
          BY <2>2, InnerFacts
        <4> HIDE DEF x
        <4>. QED  BY <4>1 DEF InnerShape
      <3> HIDE DEF x
      <3>2. \A p \in 4..Len(x) : x[p] = "digit"
        <4> TAKE p \in 4..Len(x)
        <4>1. p - 3 \in 1..n /\ 3 + (p - 3) = p
          BY <3>1
        <4>. QED  BY <3>1, <4>1
      <3>3. Len(x) \in 4..Len(x) /\ Len(x) \in Nat /\ Len(x) >= 1
        BY <3>1
      <3>4. \A p \in 2..Len(x) : p = 2 \/ (p = 3 /\ p - 1 = 2) \/ p \in 4..Len(x)
        OBVIOUS
      <3>. QED  BY <3>1, <3>2, <3>3, <3>4, TokenFacts
    <2>3. CASE ~Start(s, i) /\ ~Inner(s, i)
      <3>1. x = <<s[i]>>
        BY <1>1, <2>3, Pieces
      <3>2. Len(x) = 1
        BY <1>1, <3>1, One
      <3> HIDE DEF x
      <3>. QED  BY <2>3, <3>2
    <2>. QED  BY <2>1, <2>2, <2>3
  <1>3. Len(y) >= 1 /\ Reference(y, 1) => Word(x[Len(x)])
    <2> SUFFICES ASSUME Len(y) >= 1, Reference(y, 1), ~Word(x[Len(x)]) PROVE FALSE
      OBVIOUS
    <2>1. ~Start(s, i) /\ ~Inner(s, i)
      BY <1>2
    <2>2. x = <<s[i]>> /\ Jump(s, i) = i + 1 /\ y = g[i+1]
      BY <1>1, <2>1, Pieces
    <2>3. Len(x) = 1 /\ x[1] = s[i]
      BY <1>1, <2>2, One
    <2>4. ~Word(s[i])
      BY <2>3
    <2>5. i + 1 # Len(s) + 1
      <3>1. g[Len(s)+1] = <<>> /\ Len(<<>>) = 0
        BY DEF Computed
      <3> HIDE DEF x, y
      <3>. QED  BY <2>2, <3>1
    <2>6. i + 1 \in 1..Len(s) /\ ~Start(s, i+1)
      BY <1>1, <2>5 DEF Start
    <2>7. Reference(g[i+1], 1)
      BY <2>2
    <2>8. Reference(s, i+1)
      BY <2>6, <2>7, FirstReference
    <2>. QED  BY <2>1, <2>4, <2>8 DEF Inner, Prefix
  <1> HIDE DEF x, y
  <1>4. Len(x \o y) = Len(x) + Len(y) /\ \A k \in 1..Len(x) : (x \o y)[k] = x[k]
    BY <1>1, TextConcat
  <1>5. ASSUME NEW p \in 2..Len(x) + Len(y), Unqualified(x \o y, p) PROVE FALSE
    <2>1. CASE p <= Len(x)
      <3>1. p \in 2..Len(x) /\ p \in 1..Len(x) /\ p - 1 \in 1..Len(x) /\ p # 1
        BY <1>2, <2>1
      <3>2. (x \o y)[p] = x[p] /\ (x \o y)[p-1] = x[p-1]
        BY <1>4, <3>1
      <3>3. Marker((x \o y)[p]) /\ ~Word((x \o y)[p-1])
        BY <1>5, <3>1 DEF Unqualified, Reference
      <3>. QED  BY <1>2, <3>1, <3>2, <3>3
    <2>2. CASE p = Len(x) + 1
      <3>1. Len(y) >= 1
        BY <1>1, <1>2, <2>2
      <3>. QED  BY <1>1, <1>2, <1>3, <1>5, <2>2, <3>1, UnqualifiedSeam
    <2>3. CASE p > Len(x) + 1
      <3>1. p - Len(x) \in 2..Len(y) /\ Len(x) + (p - Len(x)) = p
        BY <1>1, <1>2, <2>3
      <3>2. Unqualified(y, p - Len(x))
        BY <1>1, <1>5, <3>1, UnqualifiedShift
      <3>. QED  BY <3>1, <3>2 DEF NoneLeft, y
    <2>. QED  BY <1>2, <2>1, <2>2, <2>3
  <1>. QED  BY <1>1, <1>4, <1>5 DEF NoneLeft

LEMMA NoneLeftAll ==
  ASSUME NEW s, NEW g, Computed(s, g)
  PROVE  \A i \in 1..Len(s)+1 : NoneLeft(g, i)
  <1> DEFINE N == Len(s) + 1
             T == {k \in Nat : \A i \in 1..N : i >= N - k => NoneLeft(g, i)}
  <1>1. s \in Text /\ Len(s) \in Nat /\ g[N] = <<>> /\ N \in Nat
    BY TextFacts DEF Computed
  <1>2. 0 \in T
    <2>1. Len(g[N]) = 0
      BY <1>1
    <2>2. NoneLeft(g, N)
      BY <2>1 DEF NoneLeft
    <2>3. \A i \in 1..N : i >= N - 0 => i = N
      OBVIOUS
    <2> HIDE DEF N
    <2>. QED  BY <2>2, <2>3
  <1>3. ASSUME NEW k \in Nat, k \in T PROVE k + 1 \in T
    <2> SUFFICES ASSUME NEW i \in 1..N, i >= N - (k + 1) PROVE NoneLeft(g, i)
      OBVIOUS
    <2>1. CASE i >= N - k
      BY <1>3, <2>1
    <2>2. CASE ~(i >= N - k)
      <3>1. i \in 1..Len(s)
        BY <1>1, <2>2
      <3>2. Jump(s, i) \in i+1..N
        BY <3>1, ComputedFacts
      <3>3. Jump(s, i) \in 1..N /\ Jump(s, i) >= N - k
        BY <1>1, <2>2, <3>2
      <3>4. NoneLeft(g, Jump(s, i))
        BY <1>3, <3>3
      <3>. QED  BY <3>1, <3>4, NoneLeftStep
    <2>. QED  BY <2>1, <2>2
  <1>4. Nat \subseteq T
    <2> HIDE DEF T
    <2>. QED  BY <1>2, <1>3, SetInduction
  <1>5. N \in T
    <2> HIDE DEF T
    <2>. QED  BY <1>1, <1>4
  <1>6. \A i \in 1..N : i >= N - N
    BY <1>1
  <1>. QED  BY <1>5, <1>6

\* A line with no unqualified reference is its own qualification.
LEMMA AlreadyQualified ==
  ASSUME NEW s \in Text, \A i \in 1..Len(s) : ~Unqualified(s, i)
  PROVE  Qualified(s) = s
  <1>1. PICK g \in [1..Len(s)+1 -> Text] :
          /\ g[Len(s)+1] = <<>>
          /\ \A i \in 1..Len(s) : g[i] = Piece(s, i) \o g[Jump(s, i)]
          /\ Qualified(s) = g[1]
    BY QualifiedUnfolds
  <1>2. Computed(s, g) /\ Len(s) \in Nat
    BY <1>1, TextFacts DEF Computed
  <1>3. ASSUME NEW i \in 1..Len(s) PROVE g[i] = <<s[i]>> \o g[i+1]
    <2>1. ~Start(s, i)
      BY DEF Start, Unqualified
    <2>2. ~Inner(s, i)
      <3> SUFFICES ASSUME Inner(s, i) PROVE FALSE
        OBVIOUS
      <3>1. Reference(s, i+1) /\ ~Word(s[i]) /\ (i+1) - 1 = i
        BY DEF Inner, Prefix
      <3>2. i+1 \in 1..Len(s)
        BY <1>2, <3>1, ReferenceShape
      <3>. QED  BY <3>1, <3>2 DEF Unqualified
    <2>. QED  BY <1>2, <2>1, <2>2, ComputedFacts
  <1> DEFINE N == Len(s) + 1
             Same(i) == Len(g[i]) = N - i /\ \A k \in 1..N - i : g[i][k] = s[i + k - 1]
             T == {k \in Nat : k < N => Same(N - k)}
  <1>4. 0 \in T
    <2>1. Len(g[N]) = 0
      BY <1>1
    <2>2. N - N = 0 /\ N - 0 = N
      BY <1>2
    <2> HIDE DEF N
    <2>3. Same(N)
      BY <2>1, <2>2
    <2> HIDE DEF Same
    <2>. QED  BY <2>2, <2>3
  <1>5. ASSUME NEW m \in Nat, m \in T PROVE m + 1 \in T
    <2> SUFFICES ASSUME m + 1 < N PROVE Same(N - (m + 1))
      OBVIOUS
    <2> DEFINE i == N - (m + 1)
               y == g[i+1]
    <2>1. i \in 1..Len(s) /\ i + 1 = N - m /\ m < N /\ i+1 \in 1..Len(s)+1 /\ N - i = 1 + (N - (i+1))
      BY <1>2
    <2>2. Same(i + 1)
      <3> HIDE DEF Same, N, i
      <3>. QED  BY <1>5, <2>1
    <2> HIDE DEF i, N
    <2>3. g[i] = <<s[i]>> \o y /\ s[i] \in Token /\ y \in Text /\ Len(y) \in Nat
      <3>1. y \in Text
        BY <1>1, <2>1
      <3>. QED  BY <1>3, <2>1, <3>1, TextFacts
    <2> HIDE DEF y
    <2>4. Len(g[i]) = 1 + Len(y) /\ g[i][1] = s[i] /\ \A k \in 1..Len(y) : g[i][1 + k] = y[k]
      BY <2>3, ConsFacts
    <2>5. Len(y) = N - (i+1) /\ \A k \in 1..N - (i+1) : y[k] = s[(i+1) + k - 1]
      BY <2>2 DEF y
    <2>6. ASSUME NEW k \in 1..N - i PROVE g[i][k] = s[i + k - 1]
      <3>1. CASE k = 1
        <4>1. i + k - 1 = i
          BY <2>1, <3>1
        <4>. QED  BY <2>4, <3>1, <4>1
      <3>2. CASE k # 1
        <4>1. k - 1 \in 1..N - (i+1) /\ 1 + (k - 1) = k /\ (i+1) + (k - 1) - 1 = i + k - 1
          BY <1>2, <2>1, <3>2 DEF N
        <4>. QED  BY <2>4, <2>5, <4>1
      <3>. QED  BY <3>1, <3>2
    <2>. QED  BY <2>1, <2>4, <2>5, <2>6 DEF i
  <1>6. Nat \subseteq T
    <2> HIDE DEF T
    <2>. QED  BY <1>4, <1>5, SetInduction
  <1>7. Same(1)
    <2>1. Len(s) \in Nat /\ Len(s) < N /\ N - Len(s) = 1
      BY <1>2
    <2>2. Len(s) \in T
      BY <1>6, <2>1
    <2> HIDE DEF N, Same
    <2>. QED  BY <2>1, <2>2
  <1>8. Len(g[1]) = Len(s) /\ \A k \in 1..Len(s) : g[1][k] = s[k]
    <2>1. N - 1 = Len(s) /\ \A k \in 1..Len(s) : 1 + k - 1 = k
      BY <1>2
    <2>. QED  BY <1>7, <2>1
  <1>9. g[1] \in Text
    BY <1>1, <1>2
  <1>10. g[1] = s
    BY <1>8, <1>9, SeqEqual DEF Text
  <1>. QED  BY <1>1, <1>10

\* All references are qualified, once.
LEMMA QualifiedLeavesNone ==
  ASSUME NEW s \in Text
  PROVE  /\ Qualified(s) \in Text
         /\ \A i \in 1..Len(Qualified(s)) : ~Unqualified(Qualified(s), i)
  <1>1. PICK g \in [1..Len(s)+1 -> Text] :
          /\ g[Len(s)+1] = <<>>
          /\ \A i \in 1..Len(s) : g[i] = Piece(s, i) \o g[Jump(s, i)]
          /\ Qualified(s) = g[1]
    BY QualifiedUnfolds
  <1>2. Computed(s, g) /\ Len(s) \in Nat /\ 1 \in 1..Len(s)+1
    BY <1>1, TextFacts DEF Computed
  <1>3. g[1] \in Text /\ NoneLeft(g, 1)
    BY <1>1, <1>2, NoneLeftAll
  <1>4. ASSUME 1 <= Len(g[1]) PROVE ~Unqualified(g[1], 1)
    <2> SUFFICES ASSUME Reference(g[1], 1) PROVE FALSE
      BY DEF Unqualified
    <2>1. Len(s) # 0
      <3>1. Len(<<>>) = 0
        OBVIOUS
      <3>. QED  BY <1>1, <1>4, <3>1
    <2>2. 1 \in 1..Len(s)
      BY <1>2, <2>1
    <2>3. Start(s, 1)
      <3> SUFFICES ASSUME ~Start(s, 1) PROVE FALSE
        OBVIOUS
      <3>1. Reference(s, 1)
        BY <1>2, <2>2, FirstReference
      <3>. QED  BY <3>1 DEF Start
    <2> DEFINE p == Piece(s, 1)
               y == g[Jump(s, 1)]
    <2>4. PICK n \in Nat \ {0} : Len(p) = 2 + n /\ p[1] = Repo
      BY <1>2, <2>2, <2>3, StartFacts
    <2>5. p \in Text /\ y \in Text /\ g[1] = p \o y
      BY <1>2, <2>2, ComputedFacts
    <2> HIDE DEF p, y
    <2>6. 1 \in 1..Len(p)
      BY <2>4
    <2>7. (p \o y)[1] = p[1]
      BY <2>5, <2>6, TextConcat
    <2>. QED  BY <2>4, <2>5, <2>7, TokenFacts DEF Reference
  <1>5. ASSUME NEW i \in 1..Len(g[1]) PROVE ~Unqualified(g[1], i)
    <2>1. i = 1 \/ i \in 2..Len(g[1])
      OBVIOUS
    <2>. QED  BY <1>3, <1>4, <2>1 DEF NoneLeft
  <1>. QED  BY <1>1, <1>3, <1>5

\* What one token adds to the plain text.
Spelled(t)      == IF Marker(t) THEN "#" ELSE t
PlainStep(v, t) == IF t = Repo THEN v ELSE Append(v, Spelled(t))

LEMMA PlainStepType ==
  ASSUME NEW v \in Text, NEW t \in Token
  PROVE  PlainStep(v, t) \in Text
  <1>1. Spelled(t) \in Token
    BY TokenFacts DEF Spelled
  <1>2. Append(v, Spelled(t)) \in Text
    <2> HIDE DEF Token
    <2>. QED  BY <1>1, AppendProperties DEF Text
  <1>. QED  BY <1>2 DEF PlainStep

PlainComputed(s, h) ==
  /\ h \in [0..Len(s) -> Text] /\ h[0] = <<>>
  /\ \A n \in 1..Len(s) : h[n] = PlainStep(h[n-1], s[n])
  /\ Plain(s) = h[Len(s)]

LEMMA PlainUnfolds ==
  ASSUME NEW s \in Text
  PROVE  \E h : PlainComputed(s, h)
  <1> DEFINE N == Len(s)
             step == [x \in (1..N) \X Text |-> PlainStep(x[2], s[x[1]])]
             F(g) == [n \in 0..N |->
                        IF n = 0 THEN <<>>
                        ELSE IF s[n] = Repo THEN g[n-1]
                        ELSE Append(g[n-1], IF Marker(s[n]) THEN "#" ELSE s[n])]
             h == CHOOSE g : g = F(g)
  <1>1. N \in Nat /\ \A n \in 1..N : s[n] \in Token
    BY TextFacts
  <1>2. step \in [(1..N) \X Text -> Text]
    BY <1>1, PlainStepType
  <1>3. PICK g \in [0..N -> Text] : g[0] = <<>> /\ \A n \in 1..N : g[n] = step[<<n, g[n-1]>>]
    <2>1. <<>> \in Text
      BY EmptySeq DEF Text
    <2> HIDE DEF step, N
    <2>. QED  BY <1>1, <1>2, <2>1, Iterated
  <1>4. \A n \in 1..N : g[n] = PlainStep(g[n-1], s[n])
    <2> TAKE n \in 1..N
    <2>1. n - 1 \in 0..N /\ g[n-1] \in Text
      BY <1>1
    <2>. QED  BY <2>1, <1>3
  <1>5. g = F(g)
    <2>1. \A n \in 0..N : n = 0 \/ n \in 1..N
      BY <1>1
    <2>. QED  BY <1>3, <1>4, <2>1 DEF PlainStep, Spelled
  <1>6. h = F(h)
    <2> HIDE DEF F
    <2>. QED  BY <1>5
  <1>7. h[0] = <<>> /\ \A n \in 1..N : h[n] = PlainStep(h[n-1], s[n])
    <2>1. ASSUME NEW q, NEW n \in 0..N
          PROVE  F(q)[n] = IF n = 0 THEN <<>> ELSE PlainStep(q[n-1], s[n])
      BY <2>1 DEF PlainStep, Spelled
    <2>2. 0 \in 0..N /\ \A n \in 1..N : n \in 0..N /\ n # 0
      BY <1>1
    <2> HIDE DEF h, F, N
    <2>. QED  BY <1>6, <2>1, <2>2
  <1>8. \A n \in 0..N : h[n] \in Text
    <2> DEFINE T == {n \in Nat : n <= N => h[n] \in Text}
    <2> HIDE DEF h
    <2>1. 0 \in T
      <3>1. h[0] \in Text
        BY <1>7, EmptySeq DEF Text
      <3>. QED  BY <3>1
    <2>2. \A n \in Nat : n \in T => n + 1 \in T
      <3> SUFFICES ASSUME NEW n \in Nat, n \in T, n + 1 <= N PROVE h[n+1] \in Text
        OBVIOUS
      <3>1. h[n] \in Text /\ n + 1 \in 1..N /\ (n + 1) - 1 = n
        BY <1>1
      <3>. QED  BY <3>1, <1>1, <1>7, PlainStepType
    <2>3. Nat \subseteq T
      <3> HIDE DEF T
      <3>. QED  BY <2>1, <2>2, SetInduction
    <2>. QED  BY <2>3, <1>1
  <1>9. Plain(s) = h[N]
    BY DEF Plain
  <1>10. h \in [0..N -> Text]
    <2>1. \E D : h = [n \in 0..N |-> D[n]]
      <3> HIDE DEF h
      <3>. QED  BY <1>6
    <2> HIDE DEF h
    <2>. QED  BY <1>6, <1>8
  <1>11. PlainComputed(s, h)
    <2> HIDE DEF h
    <2>. QED  BY <1>7, <1>9, <1>10 DEF PlainComputed
  <1>. QED  BY <1>11

LEMMA PlainType ==
  ASSUME NEW s \in Text
  PROVE  Plain(s) \in Text
  <1>1. PICK h : PlainComputed(s, h)
    BY PlainUnfolds
  <1>2. Len(s) \in 0..Len(s)
    BY TextFacts
  <1>. QED  BY <1>1, <1>2 DEF PlainComputed

\* The plain text of a text is that of its parts.
LEMMA TextAssociative ==
  ASSUME NEW s \in Text, NEW t \in Text, NEW u \in Text
  PROVE  (s \o t) \o u = s \o (t \o u)
  BY ConcatAssociative DEF Text

LEMMA PlainConcat ==
  ASSUME NEW s \in Text, NEW t \in Text
  PROVE  Plain(s \o t) = Plain(s) \o Plain(t)
  <1> DEFINE w == s \o t
  <1>1. PICK a : PlainComputed(s, a)
    BY PlainUnfolds
  <1>2. PICK b : PlainComputed(t, b)
    BY PlainUnfolds
  <1>3. w \in Text /\ Len(s) \in Nat /\ Len(t) \in Nat /\ Len(w) = Len(s) + Len(t)
    BY TextFacts, TextConcat
  <1>4. /\ \A n \in 1..Len(s) : w[n] = s[n]
        /\ \A n \in 1..Len(t) : w[Len(s) + n] = t[n]
    BY TextConcat
  <1>5. PICK c : PlainComputed(w, c)
    BY <1>3, PlainUnfolds
  <1> HIDE DEF w
  <1>6. \A n \in 0..Len(s) : c[n] = a[n]
    <2> DEFINE T == {n \in Nat : n <= Len(s) => c[n] = a[n]}
    <2>1. 0 \in T
      BY <1>1, <1>5 DEF PlainComputed
    <2>2. ASSUME NEW n \in Nat, n \in T PROVE n + 1 \in T
      <3> SUFFICES ASSUME n + 1 <= Len(s) PROVE c[n+1] = a[n+1]
        OBVIOUS
      <3>1. n + 1 \in 1..Len(s) /\ n + 1 \in 1..Len(w) /\ (n + 1) - 1 = n /\ n <= Len(s)
        BY <1>3
      <3>2. c[n+1] = PlainStep(c[n], w[n+1]) /\ a[n+1] = PlainStep(a[n], s[n+1])
        BY <1>1, <1>5, <3>1 DEF PlainComputed
      <3>. QED  BY <1>4, <2>2, <3>1, <3>2
    <2>3. Nat \subseteq T
      <3> HIDE DEF T
      <3>. QED  BY <2>1, <2>2, SetInduction
    <2>. QED  BY <2>3
  <1>7. \A n \in 0..Len(t) : b[n] \in Text
    BY <1>2 DEF PlainComputed
  <1>8. Plain(s) \in Text /\ c[Len(s)] = Plain(s)
    <2>1. Len(s) \in 0..Len(s)
      BY <1>3
    <2>. QED  BY <1>1, <1>6, <2>1, PlainType DEF PlainComputed
  <1>9. \A n \in 0..Len(t) : c[Len(s) + n] = Plain(s) \o b[n]
    <2> DEFINE T == {n \in Nat : n <= Len(t) => c[Len(s) + n] = Plain(s) \o b[n]}
    <2>1. 0 \in T
      <3>1. b[0] = <<>> /\ Len(s) + 0 = Len(s)
        BY <1>2, <1>3 DEF PlainComputed
      <3>2. Plain(s) \o <<>> = Plain(s)
        BY <1>8, ConcatEmptySeq DEF Text
      <3>. QED  BY <1>8, <3>1, <3>2
    <2>2. ASSUME NEW n \in Nat, n \in T PROVE n + 1 \in T
      <3> SUFFICES ASSUME n + 1 <= Len(t) PROVE c[Len(s) + (n+1)] = Plain(s) \o b[n+1]
        OBVIOUS
      <3>1. /\ Len(s) + (n+1) \in 1..Len(w) /\ (Len(s) + (n+1)) - 1 = Len(s) + n
            /\ n + 1 \in 1..Len(t) /\ (n + 1) - 1 = n /\ n \in 0..Len(t)
        BY <1>3
      <3>2. c[Len(s) + (n+1)] = PlainStep(c[Len(s) + n], t[n+1])
        BY <1>4, <1>5, <3>1 DEF PlainComputed
      <3>3. b[n+1] = PlainStep(b[n], t[n+1])
        BY <1>2, <3>1 DEF PlainComputed
      <3>4. c[Len(s) + n] = Plain(s) \o b[n]
        BY <2>2, <3>1
      <3>5. ASSUME NEW x \in Token PROVE Append(Plain(s) \o b[n], x) = Plain(s) \o Append(b[n], x)
        <4>1. b[n] \in Text /\ <<x>> \in Text /\ Plain(s) \o b[n] \in Text
          BY <1>7, <1>8, <3>1, One, TextConcat
        <4>2. Append(Plain(s) \o b[n], x) = (Plain(s) \o b[n]) \o <<x>>
          BY <4>1, AppendIsConcat DEF Text
        <4>3. Append(b[n], x) = b[n] \o <<x>>
          BY <4>1, AppendIsConcat DEF Text
        <4>4. (Plain(s) \o b[n]) \o <<x>> = Plain(s) \o (b[n] \o <<x>>)
          BY <1>8, <4>1, TextAssociative
        <4>. QED  BY <4>2, <4>3, <4>4
      <3>6. Spelled(t[n+1]) \in Token
        <4>1. t[n+1] \in Token
          BY <3>1, TextFacts
        <4>. QED  BY <4>1, TokenFacts DEF Spelled
      <3>. QED  BY <3>2, <3>3, <3>4, <3>5, <3>6 DEF PlainStep
    <2>3. Nat \subseteq T
      <3> HIDE DEF T
      <3>. QED  BY <2>1, <2>2, SetInduction
    <2>. QED  BY <2>3
  <1>10. c[Len(s) + Len(t)] = Plain(s) \o b[Len(t)]
    BY <1>3, <1>9
  <1>11. Plain(w) = c[Len(s) + Len(t)] /\ Plain(t) = b[Len(t)]
    BY <1>2, <1>3, <1>5 DEF PlainComputed
  <1>. QED  BY <1>10, <1>11 DEF w

LEMMA PlainOne ==
  ASSUME NEW t \in Token
  PROVE  Plain(<<t>>) = IF t = Repo THEN <<>> ELSE <<Spelled(t)>>
  <1> DEFINE s == <<t>>
  <1>1. s \in Text /\ Len(s) = 1 /\ s[1] = t
    BY One
  <1> HIDE DEF s
  <1>2. PICK h : PlainComputed(s, h)
    BY <1>1, PlainUnfolds
  <1>3. Plain(s) = h[1] /\ h[0] = <<>> /\ h[1] = PlainStep(h[0], t)
    <2>1. 1 \in 1..Len(s) /\ 1 - 1 = 0
      BY <1>1
    <2>. QED  BY <1>1, <1>2, <2>1 DEF PlainComputed
  <1>4. Append(<<>>, Spelled(t)) = <<Spelled(t)>>
    OBVIOUS
  <1>. QED  BY <1>3, <1>4 DEF PlainStep, s

\* A match has the text it replaces.
LEMMA PlainMatch ==
  ASSUME NEW s \in Text, NEW i \in Nat \ {0}, Reference(s, i), NEW x \in Text
  PROVE  Plain(Match(s, x, i)) = Plain(x) \o Plain(SubSeq(s, i, DigitsEnd(s, i+1)))
  <1> DEFINE j == DigitsEnd(s, i+1)
             d == Digits(s, i)
             r == <<Repo>>
             m == <<"#">>
             q == <<s[i]>>
  <1>1. /\ i \in 1..Len(s) /\ Marker(s[i]) /\ j \in i+1..Len(s) /\ Len(s) \in Nat
        /\ s[i] \in Token
    BY ReferenceShape, TextFacts
  <1>2. d \in Text
    BY MatchPiece
  <1>3. r \in Text /\ m \in Text /\ q \in Text
    BY <1>1, One, TokenFacts
  <1>4. Plain(r) = <<>> /\ Plain(m) = m /\ Plain(q) = m
    <2>1. Spelled("#") = "#" /\ Spelled(s[i]) = "#" /\ s[i] # Repo
      BY <1>1, TokenFacts DEF Spelled
    <2>. QED  BY <1>1, <2>1, PlainOne, TokenFacts
  <1>5. SubSeq(s, i, j) = q \o d
    <2>1. j \in i..Len(s)
      BY <1>1
    <2>. QED  BY <1>1, <2>1, SubSeqRecursiveFirst DEF Text, Digits
  <1>6. Match(s, x, i) = (x \o (r \o m)) \o d
    <2>1. <<Repo, "#">> = <<Repo>> \o <<"#">>
      OBVIOUS
    <2>2. Match(s, x, i) = (x \o <<Repo, "#">>) \o d
      BY <1>2, Replaced DEF Match
    <2>. QED  BY <2>1, <2>2
  <1> HIDE DEF r, m, q, d, j
  <1>7. r \o m \in Text /\ x \o (r \o m) \in Text
    BY <1>3, TextConcat
  <1>8. Plain(r \o m) = m
    <2>1. Plain(r \o m) = <<>> \o m
      BY <1>3, <1>4, PlainConcat
    <2>2. <<>> \o m = m
      BY <1>3, ConcatEmptySeq DEF Text
    <2>. QED  BY <2>1, <2>2
  <1>9. Plain(Match(s, x, i)) = (Plain(x) \o m) \o Plain(d)
    <2>1. Plain((x \o (r \o m)) \o d) = Plain(x \o (r \o m)) \o Plain(d)
      BY <1>2, <1>7, PlainConcat
    <2>2. Plain(x \o (r \o m)) = Plain(x) \o Plain(r \o m)
      BY <1>7, PlainConcat
    <2>. QED  BY <1>6, <1>8, <2>1, <2>2
  <1>10. Plain(SubSeq(s, i, j)) = m \o Plain(d)
    BY <1>2, <1>3, <1>4, <1>5, PlainConcat
  <1>11. (Plain(x) \o m) \o Plain(d) = Plain(x) \o (m \o Plain(d))
    BY <1>2, <1>3, PlainType, TextAssociative
  <1>. QED  BY <1>9, <1>10, <1>11 DEF j

\* Every piece has the text it is written for.
LEMMA PlainPiece ==
  ASSUME NEW s \in Text, NEW i \in 1..Len(s)
  PROVE  Plain(Piece(s, i)) = Plain(SubSeq(s, i, Jump(s, i) - 1))
  <1>1. s[i] \in Token /\ Len(s) \in Nat
    BY TextFacts
  <1>2. CASE Start(s, i)
    <2>1. Reference(s, i) /\ i \in Nat \ {0}
      BY <1>2 DEF Start
    <2>2. <<>> \in Text
      BY EmptySeq DEF Text
    <2>3. Plain(<<>>) = <<>>
      <3> DEFINE e == <<>>
      <3>1. e \in Text /\ Len(e) = 0
        BY <2>2
      <3> HIDE DEF e
      <3>2. PICK h : PlainComputed(e, h)
        BY <3>1, PlainUnfolds
      <3>3. Plain(e) = h[0] /\ h[0] = <<>>
        BY <3>1, <3>2 DEF PlainComputed
      <3>. QED  BY <3>3 DEF e
    <2> DEFINE u == SubSeq(s, i, DigitsEnd(s, i+1))
    <2>4. Plain(Match(s, <<>>, i)) = <<>> \o Plain(u)
      BY <2>1, <2>2, <2>3, PlainMatch
    <2>5. DigitsEnd(s, i+1) \in i+1..Len(s)
      BY <2>1, ReferenceShape
    <2>6. u \in Text
      <3>1. DigitsEnd(s, i+1) \in i-1..Len(s) /\ i \in 1..Len(s)+1
        BY <1>1, <2>5
      <3>. QED  BY <3>1, SubText
    <2>7. Jump(s, i) - 1 = DigitsEnd(s, i+1) /\ Piece(s, i) = Match(s, <<>>, i)
      <3>1. Jump(s, i) = DigitsEnd(s, i+1) + 1 /\ Piece(s, i) = Match(s, <<>>, i)
        BY <1>2, Pieces
      <3>2. (DigitsEnd(s, i+1) + 1) - 1 = DigitsEnd(s, i+1)
        BY <2>5
      <3>. QED  BY <3>1, <3>2
    <2> HIDE DEF u
    <2>8. <<>> \o Plain(u) = Plain(u)
      BY <2>6, PlainType, ConcatEmptySeq DEF Text
    <2>. QED  BY <2>4, <2>7, <2>8 DEF u
  <1>3. CASE ~Start(s, i) /\ Inner(s, i)
    <2> DEFINE q == <<s[i]>>
               l == DigitsEnd(s, (i+1)+1)
               u == SubSeq(s, i+1, l)
    <2>1. Reference(s, i+1) /\ i+1 \in Nat \ {0}
      BY <1>3 DEF Inner
    <2>2. q \in Text
      BY <1>1, One
    <2>3. Piece(s, i) = Match(s, q, i+1) /\ Jump(s, i) = l + 1
      BY <1>3, Pieces
    <2>4. l \in (i+1)+1..Len(s)
      BY <2>1, ReferenceShape
    <2> HIDE DEF q
    <2>5. Plain(Match(s, q, i+1)) = Plain(q) \o Plain(u)
      BY <2>1, <2>2, PlainMatch
    <2> HIDE DEF l
    <2>6. u \in Text /\ l \in i..Len(s) /\ (l + 1) - 1 = l
      <3>1. l \in (i+1)-1..Len(s) /\ i+1 \in 1..Len(s)+1 /\ l \in i..Len(s) /\ (l + 1) - 1 = l
        BY <1>1, <2>4
      <3>. QED  BY <3>1, SubText
    <2>7. SubSeq(s, i, l) = q \o u
      BY <2>6, SubSeqRecursiveFirst DEF Text, q
    <2> HIDE DEF u
    <2>8. Plain(q \o u) = Plain(q) \o Plain(u)
      BY <2>2, <2>6, PlainConcat
    <2>. QED  BY <2>3, <2>5, <2>6, <2>7, <2>8
  <1>4. CASE ~Start(s, i) /\ ~Inner(s, i)
    <2>1. Piece(s, i) = <<s[i]>> /\ Jump(s, i) - 1 = i
      <3>1. Piece(s, i) = <<s[i]>> /\ Jump(s, i) = i + 1
        BY <1>4, Pieces
      <3>2. (i + 1) - 1 = i
        OBVIOUS
      <3>. QED  BY <3>1, <3>2
    <2>2. SubSeq(s, i, i) = <<s[i]>>
      <3>1. i \in i..Len(s) /\ i+1 > i
        BY <1>1
      <3>2. SubSeq(s, i, i) = <<s[i]>> \o SubSeq(s, i+1, i)
        BY <3>1, SubSeqRecursiveFirst DEF Text
      <3>3. SubSeq(s, i+1, i) = <<>>
        BY <3>1, SubSeqEmpty
      <3>4. <<s[i]>> \in Text
        BY <1>1, One
      <3>5. <<s[i]>> \o <<>> = <<s[i]>>
        BY <3>4, ConcatEmptySeq DEF Text
      <3>. QED  BY <3>2, <3>3, <3>5
    <2>. QED  BY <2>1, <2>2
  <1>. QED  BY <1>2, <1>3, <1>4

\* Nothing is lost or added but names of the repository.
LEMMA QualifiedKeepsText ==
  ASSUME NEW s \in Text
  PROVE  Plain(Qualified(s)) = Plain(s)
  <1>1. PICK g \in [1..Len(s)+1 -> Text] :
          /\ g[Len(s)+1] = <<>>
          /\ \A i \in 1..Len(s) : g[i] = Piece(s, i) \o g[Jump(s, i)]
          /\ Qualified(s) = g[1]
    BY QualifiedUnfolds
  <1>2. Computed(s, g) /\ Len(s) \in Nat
    BY <1>1, TextFacts DEF Computed
  <1> DEFINE N == Len(s) + 1
             Same(i) == Plain(g[i]) = Plain(SubSeq(s, i, Len(s)))
             T == {k \in Nat : \A i \in 1..N : i >= N - k => Same(i)}
  <1>3. 0 \in T
    <2>1. SubSeq(s, N, Len(s)) = <<>>
      <3>1. N \in Int /\ Len(s) \in Int /\ Len(s) < N
        BY <1>2
      <3> HIDE DEF N
      <3>. QED  BY <3>1, SubSeqEmpty
    <2>2. Same(N)
      BY <1>1, <2>1
    <2>3. \A i \in 1..N : i >= N - 0 => i = N
      BY <1>2
    <2> HIDE DEF N, Same
    <2>. QED  BY <2>2, <2>3
  <1>4. ASSUME NEW k \in Nat, k \in T PROVE k + 1 \in T
    <2> SUFFICES ASSUME NEW i \in 1..N, i >= N - (k + 1), ~(i >= N - k) PROVE Same(i)
      BY <1>4
    <2> DEFINE j == Jump(s, i)
    <2>1. i \in 1..Len(s)
      BY <1>2
    <2>2. /\ j \in i+1..N /\ g[i] = Piece(s, i) \o g[j]
          /\ Piece(s, i) \in Text /\ g[j] \in Text
      BY <2>1, ComputedFacts, <1>2
    <2>3. Plain(Piece(s, i)) = Plain(SubSeq(s, i, j - 1))
      BY <2>1, PlainPiece
    <2> HIDE DEF j
    <2>4. j \in 1..N /\ j >= N - k /\ j - 1 \in i..Len(s) /\ (j - 1) + 1 = j
      BY <1>2, <2>2
    <2>5. Same(j)
      <3> HIDE DEF Same, N
      <3>. QED  BY <1>4, <2>4
    <2>6. SubSeq(s, i, Len(s)) = SubSeq(s, i, j - 1) \o SubSeq(s, j, Len(s))
      <3>1. i \in 1..Len(s)+1 /\ j - 1 \in i-1..Len(s) /\ Len(s) \in j-1..Len(s)
        BY <1>2, <2>1, <2>4
      <3>2. SubSeq(s, i, j - 1) \o SubSeq(s, (j - 1) + 1, Len(s)) = SubSeq(s, i, Len(s))
        BY <3>1, ConcatAdjacentSubSeq DEF Text
      <3>. QED  BY <2>4, <3>2
    <2>7. SubSeq(s, i, j - 1) \in Text /\ SubSeq(s, j, Len(s)) \in Text
      <3>1. i \in 1..Len(s)+1 /\ j - 1 \in i-1..Len(s) /\ j \in 1..Len(s)+1 /\ Len(s) \in j-1..Len(s)
        BY <1>2, <2>1, <2>4
      <3>. QED  BY <3>1, SubText
    <2>8. Plain(g[i]) = Plain(Piece(s, i)) \o Plain(g[j])
      BY <2>2, PlainConcat
    <2>9. Plain(SubSeq(s, i, Len(s))) = Plain(SubSeq(s, i, j - 1)) \o Plain(SubSeq(s, j, Len(s)))
      BY <2>6, <2>7, PlainConcat
    <2>. QED  BY <2>3, <2>5, <2>8, <2>9
  <1>5. Nat \subseteq T
    <2> HIDE DEF T
    <2>. QED  BY <1>3, <1>4, SetInduction
  <1>6. Same(1)
    <2>1. N \in Nat /\ 1 \in 1..N /\ 1 >= N - N
      BY <1>2
    <2>2. N \in T
      <3> HIDE DEF T
      <3>. QED  BY <1>5, <2>1
    <2> HIDE DEF N, Same
    <2>. QED  BY <2>1, <2>2
  <1>7. SubSeq(s, 1, Len(s)) = s
    BY SubSeqFull DEF Text
  <1>. QED  BY <1>1, <1>6, <1>7

\* The report is the line, qualified when the repository's URL is parsed.
Expected(u, l) == IF WrongTemplate(u) THEN Broken
                  ELSE IF github_parse_url(u) = None THEN l ELSE Qualified(l)
LogInv == line \in Lines /\ (changes = None \/ changes = Expected(url, line))

LEMMA LogInvInvariant == LogSpec => []LogInv
  <1>1. LogInit => LogInv
    BY DEF LogInit, LogInv
  <1>2. LogInv /\ [Report]_logVars => LogInv'
    BY DEF LogInv, Report, logVars, Expected
  <1>. QED  BY <1>1, <1>2, PTL DEF LogSpec

LEMMA LogInvCorrect == LogInv => LogCorrect
  <1> SUFFICES ASSUME LogInv PROVE LogCorrect
    OBVIOUS
  <1>1. line \in Text /\ Broken \notin Text /\ Broken # None
    BY LogAssumption DEF LogInv, Text
  <1>2. BrokenByDigit
    <2> SUFFICES ASSUME changes = Broken PROVE url.user[1] = "digit"
      BY DEF BrokenByDigit
    <2>1. Qualified(line) \in Text
      BY <1>1, QualifiedLeavesNone
    <2>2. changes = Expected(url, line)
      BY <1>1 DEF LogInv
    <2>. QED  BY <1>1, <2>1, <2>2 DEF Expected, WrongTemplate
  <1>3. ASSUME Reported
        PROVE  /\ github_parse_url(url) # None =>
                    /\ \A i \in 1..Len(changes) : ~Unqualified(changes, i)
                    /\ Qualified(changes) = changes
               /\ Plain(changes) = Plain(line)
    <2>1. changes = IF github_parse_url(url) = None THEN line ELSE Qualified(line)
      BY <1>3 DEF Reported, LogInv, Expected
    <2>2. CASE github_parse_url(url) = None
      BY <2>1, <2>2
    <2>3. CASE github_parse_url(url) # None
      <3>1. changes = Qualified(line)
        BY <2>1, <2>3
      <3>2. changes \in Text /\ \A i \in 1..Len(changes) : ~Unqualified(changes, i)
        BY <1>1, <3>1, QualifiedLeavesNone
      <3>3. Qualified(changes) = changes
        BY <3>2, AlreadyQualified
      <3>. QED  BY <1>1, <3>1, <3>2, <3>3, QualifiedKeepsText
    <2>. QED  BY <2>2, <2>3
  <1>. QED  BY <1>2, <1>3 DEF LogCorrect, ParsedQualified, TextKept

\* For every repository and line: a report that is not spoilt by the user's
\* name has all its references qualified, and nothing else is changed
\* (vendor.py:65-80,730-736).
THEOREM ReferencesQualified == LogSpec => []LogCorrect
  BY LogInvInvariant, LogInvCorrect, PTL

-----------------------------------------------------------------------------
(* The runs of the script (Vendor).                                        *)

Reading  == {"prepare", "unlink", "export", "clone", "remove", "copy", "patch", "open"}
Prepared == {"unlink", "export", "clone", "remove", "copy", "patch", "open", "dump",
             "add", "commit", "end"}
Cloned   == {"remove", "copy", "patch", "open", "dump", "add", "commit", "end"}
Refreshed == Cloned \cup {"clone"}
Complete == {"open", "dump", "add", "commit", "end"}
Written  == {"add", "commit", "end"}
Unstaged == {"unlink", "export", "clone", "remove", "copy", "patch", "open", "dump", "add"}
Committing == {"unlink", "export", "clone", "remove", "copy", "patch", "open", "dump",
               "add", "commit"}
Summarized == {"open", "dump", "add", "commit"}

\* A run has no outcome yet; the lock file stays as it was read until it is rewritten; then it names
\* the revision of the clone.
LockInv ==
  /\ pc # "idle" => outcome = "running"
  /\ pc \in Reading => lock = loaded /\ loaded # Truncated
  /\ pc \in Prepared \ Reading => loaded # Truncated
  /\ pc \in Prepared => args.update \/ (loaded \in Lock /\ upstream = loaded)
  /\ pc \in Cloned => args.update \/ clone.rev = loaded.rev
  /\ pc \in Written => lock \in Lock /\ lock.rev = clone.rev

\* The target directory is filled with the clone, then with the patches.
TargetInv ==
  /\ pc \in {"load", "prepare", "unlink", "export", "clone", "remove", "copy"} => applied = {}
  /\ pc = "copy" => /\ DOMAIN target \subseteq Tree[clone.rev]
                    /\ \A f \in DOMAIN target : target[f] = [rev |-> clone.rev, patches |-> {}]
  /\ pc = "patch" => target = Imported(clone.rev, applied) /\ applied \subseteq patches
  /\ pc \in Complete => target = Imported(clone.rev, patches)

\* A run that commits began with nothing staged and the committed lock file.
StageInv ==
  /\ pc \in {"add", "commit"} => args.commit
  /\ pc \in Unstaged /\ args.commit => index = head
  /\ pc \in Committing /\ args.commit /\ head.lock # NoLock => loaded = head.lock
  /\ pc \in Refreshed /\ args.refresh => patches = Exported
  /\ pc \in Summarized =>
       shortlog = NoLog \/ (loaded \in Lock /\ shortlog = <<loaded.rev, clone.rev>>)
  /\ pc = "commit" => /\ index.lock = lock /\ index.target = target
                      /\ index.patches = head.patches \/ index.patches = Exported

IInv == TypeOK /\ LockInv /\ TargetInv /\ StageInv /\ FinishedAgrees /\ HeadReproducible

USE DataAssumption

LEMMA ImportedType ==
  ASSUME NEW r \in Rev, NEW ps \in SUBSET Patch
  PROVE  Imported(r, ps) \in UNION {[D -> Content] : D \in SUBSET File}
<1>1. Tree[r] \in SUBSET File  OBVIOUS
<1>2. Imported(r, ps) \in [Tree[r] -> Content]  BY DEF Imported, Content
<1> QED  BY <1>1, <1>2

LEMMA OptionsUpdate ==
  ASSUME NEW a \in Options, NEW b \in BOOLEAN
  PROVE  [a EXCEPT !.update = b] \in Options
BY DEF Options

LEMMA OptionsUpdated ==
  ASSUME TypeOK, Prepare
  PROVE  args'.update = (args.update \/ loaded = NoLock)
<1> DEFINE b == args.update \/ loaded = NoLock
<1>1. args' = [args EXCEPT !.update = b]  BY DEF Prepare
<1>2. args \in Options  BY DEF TypeOK
<1> SUFFICES args'.update = b  OBVIOUS
<1> HIDE DEF b
<1> QED  BY <1>1, <1>2 DEF Options

\* The variables keep their types.
LEMMA TypeInit == Init => TypeOK
<1> SUFFICES ASSUME Init PROVE TypeOK  OBVIOUS
<1>1. NoFiles \in UNION {[D -> Content] : D \in SUBSET File}
  <2>1. NoFiles \in [{} -> Content]  BY DEF NoFiles
  <2> QED  BY <2>1
<1>2. head \in Snapshot /\ index \in Snapshot  BY <1>1 DEF Init, Snapshot
<1>3. args \in Options /\ known \in [Url -> SUBSET Rev] /\ branch \in [Url -> Rev]
      /\ args.url \in Url
  BY DEF Init, Options
<1>4. clone \in [rev : Rev, known : SUBSET Rev]  BY <1>3 DEF Init
<1>5. upstream \in [url : Url, rev : Rev \cup {Branch}]  BY <1>3 DEF Init, Options
<1>6. MaxMoves \in Nat /\ MaxFailures \in Nat => moves \in 0..MaxMoves /\ failures \in 0..MaxFailures
  BY DEF Init
<1> QED  BY <1>1, <1>2, <1>3, <1>4, <1>5, <1>6 DEF Init, TypeOK

\* Every action keeps them.
LEMMA TypeStep == TypeOK /\ LockInv /\ [Next]_vars => TypeOK'
<1> SUFFICES ASSUME TypeOK, LockInv, [Next]_vars PROVE TypeOK'  OBVIOUS
<1> USE DEF TypeOK, work, git, world, local, Goto, Exit
<1>1. ASSUME NEW a \in Args, Run(a) PROVE TypeOK'
  BY <1>1 DEF Run, Options
<1>2. CASE Load
  BY <1>2 DEF Load
<1>3. CASE Prepare
  <2>1. args' \in Options
    <3> DEFINE b == args.update \/ loaded = NoLock
    <3>1. b \in BOOLEAN  OBVIOUS
    <3>2. args' = [args EXCEPT !.update = b]  BY <1>3 DEF Prepare
    <3>3. args \in Options  OBVIOUS
    <3> HIDE DEF b
    <3> QED  BY <3>1, <3>2, <3>3, OptionsUpdate
  <2>2. upstream' \in [url : Url, rev : Rev \cup {Branch}]
    <3>0. loaded # Truncated  BY <1>3, Zenon DEF Prepare, LockInv, Reading
    <3>1. upstream' = desc_upstream  BY <1>3, Zenon DEF Prepare
    <3>2. desc_upstream \in [url : Url, rev : Rev \cup {Branch}]
      BY <3>0 DEF desc_upstream, Options, Lock
    <3> QED  BY <3>1, <3>2
  <2>3. pc' \in {"idle", "unlink", "clone"} /\ outcome' \in {outcome, "failed"}
    BY <1>3 DEF Prepare
  <2> QED  BY <1>3, <2>1, <2>2, <2>3 DEF Prepare
<1>4. CASE Unlink
  BY <1>4 DEF Unlink
<1>5. CASE Export
  BY <1>5 DEF Export
<1>6. CASE Clone
  BY <1>6 DEF Clone, Revision, Mismatch, Options
<1>7. CASE RemoveTarget
  <2>1. target' \in [{} -> Content]  BY <1>7 DEF RemoveTarget, RemoveFiles, NoFiles
  <2>2. target' \in UNION {[D -> Content] : D \in SUBSET File}  BY <2>1
  <2> QED  BY <1>7, <2>2 DEF RemoveTarget
<1>8. CASE Copy
  <2> PICK f \in Tree[clone.rev] \ DOMAIN target :
          target' = [g \in DOMAIN target \cup {f} |->
                       IF g = f THEN [rev |-> clone.rev, patches |-> {}] ELSE target[g]]
    BY <1>8 DEF Copy
  <2>1. DOMAIN target \cup {f} \in SUBSET File /\ target \in [DOMAIN target -> Content]  OBVIOUS
  <2>2. [rev |-> clone.rev, patches |-> {}] \in Content  BY DEF Content
  <2>3. target' \in [DOMAIN target \cup {f} -> Content]  BY <2>1, <2>2
  <2>4. target' \in UNION {[D -> Content] : D \in SUBSET File}  BY <2>1, <2>3
  <2> QED  BY <1>8, <2>4 DEF Copy
<1>9. CASE Copied
  BY <1>9 DEF Copied
<1>10. CASE ApplyPatch
  <2> PICK p \in patches \ applied :
          /\ applied' = applied \cup {p}
          /\ IF PatchFile[p] \in DOMAIN target
               THEN /\ target' = [target EXCEPT ![PatchFile[p]] =
                             [rev |-> @.rev, patches |-> @.patches \cup {p}]]
                    /\ Goto("patch")
               ELSE UNCHANGED target /\ Exit("failed")
    BY <1>10 DEF ApplyPatch
  <2>1. target \in [DOMAIN target -> Content] /\ DOMAIN target \in SUBSET File  OBVIOUS
  <2>2. target' \in [DOMAIN target -> Content]  BY <2>1 DEF Content
  <2>3. target' \in UNION {[D -> Content] : D \in SUBSET File}  BY <2>1, <2>2
  <2> QED  BY <1>10, <2>3 DEF ApplyPatch
<1>11. CASE Summarize
  BY <1>11 DEF Summarize, Lock
<1>12. CASE OpenLock
  BY <1>12 DEF OpenLock
<1>13. CASE DumpLock
  BY <1>13 DEF DumpLock, lock_data, Lock
<1>14. CASE Add
  <2>1. index' \in Snapshot  BY <1>14 DEF Add, commit_paths, Snapshot, LockInv, Written
  <2> QED  BY <1>14, <2>1 DEF Add
<1>15. CASE Commit
  BY <1>15 DEF Commit
<1>16. CASE ImportFinished
  BY <1>16 DEF ImportFinished
<1>17. CASE CommitFails
  BY <1>17 DEF CommitFails
<1>18. CASE Fail
  <2>1. target' \in UNION {[D -> Content] : D \in SUBSET File}
    <3>1. CASE pc = "remove"
      <4> PICK D \in SUBSET DOMAIN target : target' = [f \in D |-> target[f]]
        BY <1>18, <3>1 DEF Fail
      <4>1. target \in [DOMAIN target -> Content] /\ DOMAIN target \in SUBSET File  OBVIOUS
      <4>2. target' \in [D -> Content] /\ D \in SUBSET File  BY <4>1
      <4> QED  BY <4>2
    <3>2. CASE pc # "remove"  BY <1>18, <3>2 DEF Fail
    <3> QED  BY <3>1, <3>2
  <2>2. patches' \subseteq Patch /\ failures' \in 0..MaxFailures  BY <1>18 DEF Fail
  <2> QED  BY <1>18, <2>1, <2>2 DEF Fail
<1>19. CASE UpstreamMoves
  BY <1>19 DEF UpstreamMoves
<1>20. CASE Stash
  <2>1. target' \in UNION {[D -> Content] : D \in SUBSET File}
    <3> DEFINE D == (DOMAIN target \ DOMAIN index.target) \cup DOMAIN head.target
    <3>1. target \in UNION {[E -> Content] : E \in SUBSET File}
          /\ head.target \in UNION {[E -> Content] : E \in SUBSET File}  BY DEF Snapshot
    <3>2. D \in SUBSET File  BY <3>1
    <3>3. \A f \in D : IF f \in DOMAIN head.target THEN head.target[f] \in Content
                                                 ELSE target[f] \in Content  BY <3>1
    <3>4. target' = [f \in D |-> IF f \in DOMAIN head.target THEN head.target[f] ELSE target[f]]
      BY <1>20 DEF Stash
    <3>5. target' \in [D -> Content]  BY <3>3, <3>4
    <3> QED  BY <3>2, <3>5
  <2>2. lock' \in Lock \cup {NoLock, Truncated} /\ patches' \subseteq Patch /\ index' \in Snapshot
    BY <1>20 DEF Stash, Snapshot
  <2> QED  BY <1>20, <2>1, <2>2 DEF Stash
<1>21. CASE RemoveLock
  BY <1>21 DEF RemoveLock
<1>22. CASE AddPatch
  BY <1>22 DEF AddPatch
<1>23. CASE UNCHANGED vars  BY <1>23 DEF vars
<1> QED  BY <1>1, <1>2, <1>3, <1>4, <1>5, <1>6, <1>7, <1>8, <1>9, <1>10, <1>11, <1>12, <1>13, <1>14, <1>15, <1>16, <1>17, <1>18, <1>19, <1>20, <1>21, <1>22, <1>23 DEF Next, Step

\* The lock file and the revision of the clone agree.
LEMMA LockStep == TypeOK /\ LockInv /\ [Next]_vars => LockInv'
<1> SUFFICES ASSUME TypeOK, LockInv, [Next]_vars PROVE LockInv'  OBVIOUS
<1> USE DEF LockInv, Reading, Prepared, Cloned, Written, work, git, world, local, Goto, Exit
<1>1. ASSUME NEW a \in Args, Run(a) PROVE LockInv'
  BY <1>1 DEF Run
<1>2. CASE Load
  BY <1>2 DEF Load
<1>3. CASE Prepare
  <2>1. args'.update = (args.update \/ loaded = NoLock)  BY <1>3, OptionsUpdated
  <2>2. upstream' = desc_upstream /\ pc' \in {"idle", "unlink", "clone"}
        /\ (pc' = "idle" \/ outcome' = outcome)
    BY <1>3, Zenon DEF Prepare
  <2>3. UNCHANGED <<lock, loaded>> /\ pc = "prepare"  BY <1>3 DEF Prepare
  <2>4. loaded \in Lock \cup {NoLock, Truncated}  BY DEF TypeOK
  <2> QED  BY <2>1, <2>2, <2>3, <2>4 DEF desc_upstream
<1>4. CASE Unlink
  BY <1>4 DEF Unlink
<1>5. CASE Export
  BY <1>5 DEF Export
<1>6. CASE Clone
  BY <1>6 DEF Clone, Revision, Mismatch, TypeOK, Lock
<1>7. CASE RemoveTarget
  BY <1>7 DEF RemoveTarget, RemoveFiles, NoFiles
<1>8. CASE Copy
  BY <1>8 DEF Copy
<1>9. CASE Copied
  BY <1>9 DEF Copied
<1>10. CASE ApplyPatch
  BY <1>10 DEF ApplyPatch
<1>11. CASE Summarize
  BY <1>11 DEF Summarize, TypeOK, Lock
<1>12. CASE OpenLock
  BY <1>12 DEF OpenLock
<1>13. CASE DumpLock
  BY <1>13 DEF DumpLock, lock_data, TypeOK, Lock
<1>14. CASE Add
  BY <1>14 DEF Add, commit_paths
<1>15. CASE Commit
  BY <1>15 DEF Commit
<1>16. CASE ImportFinished
  BY <1>16 DEF ImportFinished
<1>17. CASE CommitFails
  BY <1>17 DEF CommitFails
<1>18. CASE Fail
  BY <1>18 DEF Fail
<1>19. CASE UpstreamMoves
  BY <1>19 DEF UpstreamMoves
<1>20. CASE Stash
  BY <1>20 DEF Stash, git_is_clean_workdir
<1>21. CASE RemoveLock
  BY <1>21 DEF RemoveLock
<1>22. CASE AddPatch
  BY <1>22 DEF AddPatch
<1>23. CASE UNCHANGED vars  BY <1>23 DEF vars
<1> QED  BY <1>1, <1>2, <1>3, <1>4, <1>5, <1>6, <1>7, <1>8, <1>9, <1>10, <1>11, <1>12, <1>13, <1>14, <1>15, <1>16, <1>17, <1>18, <1>19, <1>20, <1>21, <1>22, <1>23 DEF Next, Step

\* The target directory fills up with the clone and its patches.
LEMMA TargetStep == TypeOK /\ LockInv /\ TargetInv /\ [Next]_vars => TargetInv'
<1> SUFFICES ASSUME TypeOK, LockInv, TargetInv, [Next]_vars PROVE TargetInv'  OBVIOUS
<1> USE DEF TargetInv, Complete, work, git, world, local, Goto, Exit
<1>1. ASSUME NEW a \in Args, Run(a) PROVE TargetInv'
  BY <1>1 DEF Run
<1>2. CASE Load
  BY <1>2 DEF Load
<1>3. CASE Prepare
  BY <1>3 DEF Prepare, desc_upstream
<1>4. CASE Unlink
  BY <1>4 DEF Unlink
<1>5. CASE Export
  BY <1>5 DEF Export
<1>6. CASE Clone
  BY <1>6 DEF Clone, Revision, Mismatch
<1>7. CASE RemoveTarget
  BY <1>7 DEF RemoveTarget, RemoveFiles, NoFiles
<1>8. CASE Copy
  BY <1>8 DEF Copy
<1>9. CASE Copied
  <2>1. DOMAIN target = Tree[clone.rev]  BY <1>9 DEF Copied
  <2>2. target = [f \in Tree[clone.rev] |-> [rev |-> clone.rev, patches |-> {}]]
    BY <1>9, <2>1 DEF Copied, TypeOK
  <2>3. \A f \in Tree[clone.rev] : {p \in {} : PatchFile[p] = f} = {}  OBVIOUS
  <2>4. target = Imported(clone.rev, {})  BY <2>2, <2>3 DEF Imported
  <2> QED  BY <1>9, <2>4 DEF Copied
<1>10. CASE ApplyPatch
  <2>1. CASE pc' = "patch"
    <3> PICK p \in patches \ applied :
            /\ applied' = applied \cup {p}
            /\ PatchFile[p] \in DOMAIN target
            /\ target' = [target EXCEPT ![PatchFile[p]] =
                             [rev |-> @.rev, patches |-> @.patches \cup {p}]]
      BY <1>10, <2>1 DEF ApplyPatch
    <3>1. clone' = clone /\ patches' = patches /\ pc = "patch"  BY <1>10 DEF ApplyPatch
    <3>2. target = Imported(clone.rev, applied)  BY <3>1
    <3>3. \A f \in Tree[clone.rev] : {q \in applied \cup {p} : PatchFile[q] = f} =
             IF f = PatchFile[p] THEN {q \in applied : PatchFile[q] = f} \cup {p}
                                 ELSE {q \in applied : PatchFile[q] = f}
      OBVIOUS
    <3>4. PatchFile[p] \in Tree[clone.rev]  BY <3>2 DEF Imported
    <3> DEFINE S(f) == {q \in applied : PatchFile[q] = f}
    <3>5. target = [f \in Tree[clone.rev] |-> [rev |-> clone.rev, patches |-> S(f)]]
      BY <3>2 DEF Imported
    <3>6. target' = [f \in Tree[clone.rev] |->
             [rev |-> clone.rev, patches |-> IF f = PatchFile[p] THEN S(f) \cup {p} ELSE S(f)]]
      <4> DEFINE pf == PatchFile[p]
                 new == [rev |-> clone.rev, patches |-> S(pf) \cup {p}]
      <4>1. target[pf] = [rev |-> clone.rev, patches |-> S(pf)]  BY <3>4, <3>5
      <4>2. [rev |-> target[pf].rev, patches |-> target[pf].patches \cup {p}] = new  BY <4>1
      <4>3. target' = [target EXCEPT ![pf] = new]  BY <4>2
      <4> HIDE DEF S
      <4> QED  BY <3>4, <3>5, <4>3
    <3>7. target' = Imported(clone.rev, applied \cup {p})  BY <3>3, <3>6 DEF Imported
    <3> QED  BY <3>1, <3>7, <2>1
  <2>2. CASE pc' = "idle"  BY <2>2
  <2> QED  BY <1>10, <2>1, <2>2 DEF ApplyPatch
<1>11. CASE Summarize
  <2>1. applied = patches  BY <1>11 DEF Summarize
  <2>2. target = Imported(clone.rev, patches)  BY <1>11, <2>1 DEF Summarize
  <2>3. target' = Imported(clone'.rev, patches')  BY <1>11, <2>2, Zenon DEF Summarize
  <2>4. pc' \in {"open", "add", "end"}  BY <1>11 DEF Summarize
  <2> QED  BY <2>3, <2>4
<1>12. CASE OpenLock
  BY <1>12 DEF OpenLock
<1>13. CASE DumpLock
  BY <1>13 DEF DumpLock, lock_data
<1>14. CASE Add
  BY <1>14 DEF Add, commit_paths
<1>15. CASE Commit
  BY <1>15 DEF Commit
<1>16. CASE ImportFinished
  BY <1>16 DEF ImportFinished
<1>17. CASE CommitFails
  BY <1>17 DEF CommitFails
<1>18. CASE Fail
  BY <1>18 DEF Fail
<1>19. CASE UpstreamMoves
  BY <1>19 DEF UpstreamMoves
<1>20. CASE Stash
  BY <1>20 DEF Stash, git_is_clean_workdir
<1>21. CASE RemoveLock
  BY <1>21 DEF RemoveLock
<1>22. CASE AddPatch
  BY <1>22 DEF AddPatch
<1>23. CASE UNCHANGED vars  BY <1>23 DEF vars
<1> QED  BY <1>1, <1>2, <1>3, <1>4, <1>5, <1>6, <1>7, <1>8, <1>9, <1>10, <1>11, <1>12, <1>13, <1>14, <1>15, <1>16, <1>17, <1>18, <1>19, <1>20, <1>21, <1>22, <1>23 DEF Next, Step

\* What a commit stages.
LEMMA StageStep == IInv /\ [Next]_vars => StageInv'
<1> SUFFICES ASSUME IInv, [Next]_vars PROVE StageInv'  OBVIOUS
<1> USE DEF IInv, StageInv, Unstaged, Committing, Refreshed, Cloned, Summarized, work, git, world, local, Goto, Exit
<1>1. ASSUME NEW a \in Args, Run(a) PROVE StageInv'
  BY <1>1 DEF Run
<1>2. CASE Load
  BY <1>2 DEF Load
<1>3. CASE Prepare
  <2>1. args'.commit = args.commit /\ args'.refresh = args.refresh
    <3> DEFINE b == args.update \/ loaded = NoLock
    <3>1. args' = [args EXCEPT !.update = b]  BY <1>3 DEF Prepare
    <3>2. args \in Options  BY DEF TypeOK
    <3> HIDE DEF b
    <3> QED  BY <3>1, <3>2 DEF Options
  <2>2. /\ pc = "prepare" /\ UNCHANGED <<index, head, lock, loaded, patches>>
        /\ pc' = "idle" \/ (pc' \in {"unlink", "clone"} /\ (args.commit => git_is_clean_workdir))
        /\ pc' = "clone" => ~args.refresh
    BY <1>3, Zenon DEF Prepare
  <2>3. lock = loaded  BY <2>2 DEF LockInv, Reading
  <2>4. args.commit /\ pc' # "idle" => index = head /\ (head.lock # NoLock => loaded = head.lock)
    BY <2>2, <2>3 DEF git_is_clean_workdir
  <2> QED  BY <2>1, <2>2, <2>4
<1>4. CASE Unlink
  BY <1>4 DEF Unlink
<1>5. CASE Export
  BY <1>5 DEF Export
<1>6. CASE Clone
  BY <1>6 DEF Clone, Revision, Mismatch
<1>7. CASE RemoveTarget
  BY <1>7 DEF RemoveTarget, RemoveFiles, NoFiles
<1>8. CASE Copy
  BY <1>8 DEF Copy
<1>9. CASE Copied
  BY <1>9 DEF Copied
<1>10. CASE ApplyPatch
  BY <1>10 DEF ApplyPatch
<1>11. CASE Summarize
  <2>1. shortlog' = NoLog \/ (loaded \in Lock /\ shortlog' = <<loaded.rev, clone.rev>>)
    BY <1>11 DEF Summarize, TypeOK, LockInv, Reading
  <2>2. /\ pc = "patch" /\ UNCHANGED <<index, head, loaded, patches, args, clone>>
        /\ pc' \in {"open", "add", "end"} /\ (pc' = "add" => args.commit)
    BY <1>11 DEF Summarize
  <2> QED  BY <2>1, <2>2
<1>12. CASE OpenLock
  BY <1>12 DEF OpenLock
<1>13. CASE DumpLock
  BY <1>13 DEF DumpLock, lock_data
<1>14. CASE Add
  BY <1>14 DEF Add, commit_paths
<1>15. CASE Commit
  BY <1>15 DEF Commit
<1>16. CASE ImportFinished
  BY <1>16 DEF ImportFinished
<1>17. CASE CommitFails
  BY <1>17 DEF CommitFails
<1>18. CASE Fail
  BY <1>18 DEF Fail
<1>19. CASE UpstreamMoves
  BY <1>19 DEF UpstreamMoves
<1>20. CASE Stash
  BY <1>20 DEF Stash, git_is_clean_workdir
<1>21. CASE RemoveLock
  BY <1>21 DEF RemoveLock
<1>22. CASE AddPatch
  BY <1>22 DEF AddPatch
<1>23. CASE UNCHANGED vars  BY <1>23 DEF vars
<1> QED  BY <1>1, <1>2, <1>3, <1>4, <1>5, <1>6, <1>7, <1>8, <1>9, <1>10, <1>11, <1>12, <1>13, <1>14, <1>15, <1>16, <1>17, <1>18, <1>19, <1>20, <1>21, <1>22, <1>23 DEF Next, Step

\* The target and the commit that come out of it.
LEMMA ResultStep == IInv /\ [Next]_vars => (FinishedAgrees /\ HeadReproducible)'
<1> SUFFICES ASSUME IInv, [Next]_vars PROVE (FinishedAgrees /\ HeadReproducible)'  OBVIOUS
<1> USE DEF work, git, world, local, Goto, Exit
<1>1. ASSUME NEW a \in Args, Run(a) PROVE (FinishedAgrees /\ HeadReproducible)'
  BY <1>1 DEF Run, IInv, LockInv, FinishedAgrees, HeadReproducible
<1>2. CASE Load
  BY <1>2 DEF Load, IInv, LockInv, FinishedAgrees, HeadReproducible
<1>3. CASE Prepare
  BY <1>3 DEF Prepare, desc_upstream, IInv, LockInv, FinishedAgrees, HeadReproducible
<1>4. CASE Unlink
  BY <1>4 DEF Unlink, IInv, LockInv, FinishedAgrees, HeadReproducible
<1>5. CASE Export
  BY <1>5 DEF Export, IInv, LockInv, FinishedAgrees, HeadReproducible
<1>6. CASE Clone
  BY <1>6 DEF Clone, Revision, Mismatch, IInv, LockInv, FinishedAgrees, HeadReproducible
<1>7. CASE RemoveTarget
  BY <1>7 DEF RemoveTarget, RemoveFiles, NoFiles, IInv, LockInv, FinishedAgrees, HeadReproducible
<1>8. CASE Copy
  BY <1>8 DEF Copy, IInv, LockInv, FinishedAgrees, HeadReproducible
<1>9. CASE Copied
  BY <1>9 DEF Copied, IInv, LockInv, FinishedAgrees, HeadReproducible
<1>10. CASE ApplyPatch
  BY <1>10 DEF ApplyPatch, IInv, LockInv, FinishedAgrees, HeadReproducible
<1>11. CASE Summarize
  BY <1>11 DEF Summarize, IInv, LockInv, FinishedAgrees, HeadReproducible
<1>12. CASE OpenLock
  BY <1>12 DEF OpenLock, IInv, LockInv, FinishedAgrees, HeadReproducible
<1>13. CASE DumpLock
  BY <1>13 DEF DumpLock, lock_data, IInv, LockInv, FinishedAgrees, HeadReproducible
<1>14. CASE Add
  BY <1>14 DEF Add, commit_paths, IInv, LockInv, FinishedAgrees, HeadReproducible
<1>15. CASE Commit
  <2>1. index.lock = lock /\ index.target = target /\ lock \in Lock /\ lock.rev = clone.rev
        /\ target = Imported(clone.rev, patches) /\ patches \in SUBSET Patch
    BY <1>15 DEF Commit, IInv, TypeOK, LockInv, TargetInv, StageInv, Written, Complete
  <2>2. HeadReproducible'
    <3>1. CASE index = head  BY <1>15, <3>1 DEF Commit, IInv, HeadReproducible
    <3>2. CASE index # head
      <4>1. head' = index /\ stray' = (patches # index.patches)  BY <1>15, <3>2 DEF Commit
      <4>2. head'.target = Imported(head'.lock.rev, patches)  BY <2>1, <4>1
      <4>3. stray' \/ patches = head'.patches  BY <4>1
      <4>4. head'.lock # NoLock  BY <2>1, <4>1 DEF DataAssumption
      <4> QED  BY <2>1, <4>2, <4>3, <4>4 DEF HeadReproducible
    <3> QED  BY <3>1, <3>2
  <2>3. FinishedAgrees'  BY <1>15 DEF Commit, IInv, LockInv, FinishedAgrees
  <2> QED  BY <2>2, <2>3
<1>16. CASE ImportFinished
  <2>1. lock \in Lock /\ target = Imported(lock.rev, patches)
    BY <1>16 DEF ImportFinished, IInv, LockInv, TargetInv, Written, Complete
  <2> QED  BY <1>16, <2>1 DEF ImportFinished, IInv, FinishedAgrees, HeadReproducible
<1>17. CASE CommitFails
  BY <1>17 DEF CommitFails, IInv, LockInv, FinishedAgrees, HeadReproducible
<1>18. CASE Fail
  BY <1>18 DEF Fail, IInv, LockInv, FinishedAgrees, HeadReproducible
<1>19. CASE UpstreamMoves
  BY <1>19 DEF UpstreamMoves, IInv, LockInv, FinishedAgrees, HeadReproducible
<1>20. CASE Stash
  BY <1>20 DEF Stash, git_is_clean_workdir, IInv, LockInv, FinishedAgrees, HeadReproducible
<1>21. CASE RemoveLock
  BY <1>21 DEF RemoveLock, IInv, LockInv, FinishedAgrees, HeadReproducible
<1>22. CASE AddPatch
  BY <1>22 DEF AddPatch, IInv, LockInv, FinishedAgrees, HeadReproducible
<1>23. CASE UNCHANGED vars  BY <1>23 DEF vars, IInv, LockInv, FinishedAgrees, HeadReproducible
<1> QED  BY <1>1, <1>2, <1>3, <1>4, <1>5, <1>6, <1>7, <1>8, <1>9, <1>10, <1>11, <1>12, <1>13, <1>14, <1>15, <1>16, <1>17, <1>18, <1>19, <1>20, <1>21, <1>22, <1>23 DEF Next, Step

LEMMA InvInit == Init => IInv
<1> SUFFICES ASSUME Init PROVE IInv  OBVIOUS
<1>1. TypeOK  BY TypeInit
<1>2. LockInv  BY DEF Init, LockInv, Reading, Prepared, Cloned, Written
<1>3. TargetInv  BY DEF Init, TargetInv, Complete
<1>4. StageInv  BY DEF Init, StageInv, Unstaged, Committing, Refreshed, Cloned, Summarized
<1>5. FinishedAgrees /\ HeadReproducible  BY DEF Init, FinishedAgrees, HeadReproducible
<1> QED  BY <1>1, <1>2, <1>3, <1>4, <1>5 DEF IInv

LEMMA InvStep == IInv /\ [Next]_vars => IInv'
BY TypeStep, LockStep, TargetStep, StageStep, ResultStep DEF IInv

\* The inductive invariant of any number of runs.
THEOREM RunInvariant == Spec => []IInv
BY InvInit, InvStep, PTL DEF Spec

\* The variables keep their types.
THEOREM TypeCorrect == Spec => []TypeOK
BY RunInvariant, PTL DEF IInv

\* A run that ends with "Import finished" leaves exactly the locked revision
\* with the patches of the patch directory, whatever happened before.
THEOREM FinishedCorrect == Spec => []FinishedAgrees
BY RunInvariant, PTL DEF IInv

\* What is committed can be reproduced from the lock file and the patches
\* committed with it, unless untracked patches were used.
THEOREM CommitsReproducible == Spec => []HeadReproducible
BY RunInvariant, PTL DEF IInv

LEMMA CommitStep ==
  ASSUME IInv, Next, head' # head
  PROVE  Commit /\ index # head
BY DEF Next, Step, Run, Load, Prepare, Unlink, Export, Clone, RemoveTarget, Copy, Copied, ApplyPatch,
       Summarize, OpenLock, DumpLock, Add, Commit, ImportFinished, CommitFails, Fail,
       UpstreamMoves, Stash, RemoveLock, AddPatch, git

\* The patches of a commit are those of the commit before, or all those of the
\* patch repository.
THEOREM RefreshesCommittedWhole == Spec => PatchesCommittedWhole
<1>1. IInv /\ [Next]_vars => [head'.patches # head.patches => head'.patches = Exported]_vars
  <2> SUFFICES ASSUME IInv, Next, head'.patches # head.patches PROVE head'.patches = Exported
    OBVIOUS
  <2>1. Commit /\ index # head  BY CommitStep
  <2> QED  BY <2>1 DEF Commit, IInv, StageInv
<1> QED  BY <1>1, RunInvariant, PTL DEF Spec, PatchesCommittedWhole

\* The list of changes in a commit message begins at the commit before.
THEOREM LogsComplete == Spec => CommitLogComplete
<1>1. IInv /\ [Next]_vars => [head' # head /\ head.lock # NoLock /\ log' # NoLog
                                => log' = <<head.lock.rev, head'.lock.rev>>]_vars
  <2> SUFFICES ASSUME IInv, Next, head' # head, head.lock # NoLock, log' # NoLog
               PROVE  log' = <<head.lock.rev, head'.lock.rev>>
    OBVIOUS
  <2>1. Commit /\ index # head  BY CommitStep
  <2>2. pc = "commit" /\ head' = index /\ log' = shortlog  BY <2>1 DEF Commit
  <2>3. shortlog = <<loaded.rev, clone.rev>> /\ args.commit
    BY <2>2 DEF IInv, StageInv, Summarized
  <2>4. loaded = head.lock  BY <2>2, <2>3 DEF IInv, StageInv, Committing
  <2>5. index.lock.rev = clone.rev  BY <2>2 DEF IInv, StageInv, LockInv, Written
  <2> QED  BY <2>2, <2>3, <2>4, <2>5
<1> QED  BY <1>1, RunInvariant, PTL DEF Spec, CommitLogComplete

\* A lock file was written after its revision was cloned, so that revision
\* has the vendored subdirectory, in the work tree as well as in git.
VendoredInv ==
  /\ \A l \in {lock, loaded, index.lock, head.lock} : l \in Lock => Tree[l.rev] # {}
  /\ pc \in Cloned => Tree[clone.rev] # {}

\* Every action keeps that.
LEMMA VendoredStep == IInv /\ VendoredInv /\ [Next]_vars => VendoredInv'
<1> SUFFICES ASSUME IInv, VendoredInv, [Next]_vars PROVE VendoredInv'  OBVIOUS
<1> USE DEF VendoredInv, Cloned, work, git, world, local, Goto, Exit
<1>1. ASSUME NEW a \in Args, Run(a) PROVE VendoredInv'
  BY <1>1 DEF Run
<1>2. CASE Load
  BY <1>2 DEF Load
<1>3. CASE Prepare
  BY <1>3 DEF Prepare
<1>4. CASE Unlink \/ Export
  BY <1>4 DEF Unlink, Export
<1>5. CASE Clone
  <2>1. CASE pc' = "idle"
    BY <1>5, <2>1 DEF Clone
  <2>2. CASE pc' # "idle"
    <3>1. clone'.rev = Revision /\ Tree[Revision] # {}
      BY <1>5, <2>2 DEF Clone
    <3>2. UNCHANGED <<lock, loaded, index, head>>
      BY <1>5 DEF Clone
    <3> QED  BY <3>1, <3>2
  <2> QED  BY <2>1, <2>2
<1>6. CASE RemoveTarget \/ Copy \/ Copied \/ ApplyPatch
  BY <1>6 DEF RemoveTarget, RemoveFiles, Copy, Copied, ApplyPatch
<1>7. CASE Summarize
  BY <1>7 DEF Summarize
<1>8. CASE OpenLock
  BY <1>8 DEF OpenLock
<1>9. CASE DumpLock
  <2>1. lock' = [url |-> upstream.url, rev |-> clone.rev] /\ Tree[clone.rev] # {}
    BY <1>9 DEF DumpLock, lock_data
  <2>2. UNCHANGED <<loaded, index, head, clone>>  BY <1>9 DEF DumpLock
  <2>3. lock'.rev = clone.rev  BY <2>1
  <2> QED  BY <2>1, <2>2, <2>3
<1>10. CASE Add
  <2>1. index'.lock = lock /\ UNCHANGED <<lock, loaded, head, clone>> /\ pc = "add"
    BY <1>10 DEF Add, commit_paths
  <2> QED  BY <2>1
<1>11. CASE Commit \/ CommitFails \/ ImportFinished
  BY <1>11 DEF Commit, CommitFails, ImportFinished
<1>12. CASE Fail
  BY <1>12 DEF Fail
<1>13. CASE UpstreamMoves
  BY <1>13 DEF UpstreamMoves
<1>14. CASE Stash
  <2>1. /\ index' = head /\ UNCHANGED <<head, loaded, pc, clone>>
        /\ lock' \in {head.lock, NoLock, lock}
    BY <1>14 DEF Stash
  <2>2. NoLock \notin Lock  BY DEF DataAssumption
  <2> QED  BY <2>1, <2>2
<1>15. CASE RemoveLock \/ AddPatch
  BY <1>15 DEF RemoveLock, AddPatch, DataAssumption
<1>16. CASE UNCHANGED vars  BY <1>16 DEF vars
<1> QED  BY <1>1, <1>2, <1>3, <1>4, <1>5, <1>6, <1>7, <1>8, <1>9, <1>10, <1>11, <1>12,
            <1>13, <1>14, <1>15, <1>16 DEF Next, Step

\* The revision of a lock file has the vendored subdirectory.
THEOREM LockedRevisionVendored == Spec => []VendoredInv
<1>1. Init => VendoredInv  BY DEF Init, VendoredInv, DataAssumption, Cloned
<1>2. IInv /\ VendoredInv /\ [Next]_vars => VendoredInv'  BY VendoredStep
<1> QED  BY <1>1, <1>2, RunInvariant, PTL DEF Spec

\* Without --update, a run that asks upstream for the locked revision gets it
\* if upstream still has it, wherever the branch has moved.
THEOREM LockedFetched == Spec => LockedRevisionFetched
<1>1. IInv /\ VendoredInv /\ [Next]_vars =>
        [pc = "clone" /\ ~args.update /\ loaded.rev \in known[loaded.url]
           /\ failures' = failures /\ pc' # pc => pc' = "remove"]_vars
  <2> SUFFICES ASSUME IInv, VendoredInv, Next, pc = "clone", ~args.update,
                      loaded.rev \in known[loaded.url], failures' = failures, pc' # pc
               PROVE  pc' = "remove"
    OBVIOUS
  <2>1. Clone
    <3>1. failures \in Nat  BY DEF IInv, TypeOK, DataAssumption
    <3>2. ~CommitFails /\ ~Fail  BY <3>1 DEF CommitFails, Fail
    <3> QED
      BY <3>2 DEF Next, Step, Run, Load, Prepare, Unlink, Export, RemoveTarget, Copy, Copied,
           ApplyPatch, Summarize, OpenLock, DumpLock, Add, Commit, ImportFinished,
           UpstreamMoves, Stash, RemoveLock, AddPatch
  <2>2. loaded \in Lock /\ upstream = loaded  BY DEF IInv, LockInv, Prepared
  <2>3. Revision = loaded.rev /\ Tree[loaded.rev] # {}
    BY <2>2 DEF Revision, VendoredInv, Lock, DataAssumption
  <2> QED  BY <2>1, <2>2, <2>3 DEF Clone, Mismatch, Goto
<1> QED  BY <1>1, RunInvariant, LockedRevisionVendored, PTL DEF Spec, LockedRevisionFetched
=============================================================================
