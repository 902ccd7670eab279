------------------------- MODULE CommandLine_proofs -------------------------
(***************************************************************************)
(* What uvctl makes of a command line and of a name, for lines and names   *)
(* of any length.                                                          *)
(*                                                                         *)
(* The functions of Arguments and Names are recursive, from a place of the *)
(* sequence to the places behind it.  Induction goes over sets of places   *)
(* (Backwards), and a function is what its equation says by the theorem on *)
(* recursion that follows from it (Recursion).                             *)
(***************************************************************************)
EXTENDS MCForward, SequenceTheorems, FiniteSetTheorems, TLAPS

----------------------------------------------------------------------------
(* Induction and recursion                                                 *)

LEMMA LeastNumber ==
    ASSUME NEW T, T \subseteq Nat, T # {}
    PROVE  \E m \in T : \A k \in T : ~ (k < m)
<1> DEFINE R == { ss \in Nat \X Nat : ss[1] < ss[2] }
<1>1. IsWellFoundedOn(R, Nat)
  BY NatLessThanWellFounded DEF OpToRel
<1>2. PICK x \in T : \A y \in T : <<y, x>> \notin R
  <2> HIDE DEF R
  <2> QED
    BY <1>1, WFMin
<1> QED
  BY <1>2

\* What holds of a place if it holds of all places behind it holds everywhere.
LEMMA Backwards ==
    ASSUME NEW n \in Nat, NEW T,
           \A i \in 1..n : (\A j \in (i + 1)..n : j \in T) => i \in T
    PROVE  \A i \in 1..n : i \in T
<1> SUFFICES ASSUME NEW i \in 1..n, i \notin T  PROVE FALSE
  OBVIOUS
<1> DEFINE D == { d \in 0..n : n - d \in 1..n /\ n - d \notin T }
<1>1. D \subseteq Nat /\ n - i \in D
  OBVIOUS
<1>2. PICK d \in D : \A e \in D : ~ (e < d)
  BY <1>1, LeastNumber
<1>3. \A j \in (n - d + 1)..n : j \in T
  <2> SUFFICES ASSUME NEW j \in (n - d + 1)..n, j \notin T  PROVE FALSE
    OBVIOUS
  <2>1. n - j \in D /\ n - j < d
    OBVIOUS
  <2> QED
    BY <1>2, <2>1
<1> QED
  BY <1>2, <1>3

\* G takes what is known of a function to what follows, at every place from the
\* places behind it.
FromBehind(n, V, G) ==
    /\ G \in [[1..n -> V] -> [1..n -> V]]
    /\ \A f, g \in [1..n -> V] : \A i \in 1..n :
           (\A j \in (i + 1)..n : f[j] = g[j]) => G[f][i] = G[g][i]

\* A function that is given by what it is behind each place exists.
LEMMA Recursion ==
    ASSUME NEW n \in Nat, NEW V, NEW v \in V, NEW G, FromBehind(n, V, G)
    PROVE  \E f \in [1..n -> V] : f = G[f]
<1> USE DEF FromBehind
<1> DEFINE T == { k \in 1..n : \E f \in [1..n -> V] : \A j \in k..n : f[j] = G[f][j] }
<1>1. [i \in 1..n |-> v] \in [1..n -> V]
  OBVIOUS
<1>2. ASSUME NEW k \in 1..n, \A j \in (k + 1)..n : j \in T  PROVE k \in T
  <2>1. PICK f \in [1..n -> V] : \A j \in (k + 1)..n : f[j] = G[f][j]
    <3>1. CASE k = n
      <4>1. \A j \in (k + 1)..n : FALSE
        BY <3>1
      <4> QED
        BY <1>1, <4>1
    <3>2. CASE k # n
      <4>1. k + 1 \in (k + 1)..n
        BY <3>2
      <4> QED
        BY <1>2, <4>1
    <3> QED
      BY <3>1, <3>2
  <2> DEFINE g == [f EXCEPT ![k] = G[f][k]]
  <2>2. g \in [1..n -> V] /\ G[f] \in [1..n -> V]
    OBVIOUS
  <2>3. \A j \in (k + 1)..n : g[j] = f[j]
    OBVIOUS
  <2>5. g[k] = G[f][k]
    OBVIOUS
  <2> HIDE DEF g
  <2>4. ASSUME NEW j \in k..n  PROVE g[j] = G[g][j]
    <3>1. j \in 1..n /\ \A i \in (j + 1)..n : f[i] = g[i]
      BY <2>3
    <3>2. G[f][j] = G[g][j]
      BY <2>2, <3>1
    <3>3. CASE j = k
      BY <2>5, <3>2, <3>3
    <3>4. CASE j # k
      BY <2>1, <2>3, <3>2, <3>4
    <3> QED
      BY <3>3, <3>4
  <2> QED
    BY <2>2, <2>4
<1>3. \A i \in 1..n : i \in T
  <2> HIDE DEF T
  <2> QED
    BY <1>2, Backwards
<1>4. PICK f \in [1..n -> V] : \A j \in 1..n : f[j] = G[f][j]
  <2>1. CASE n = 0
    <3>1. \A j \in 1..n : FALSE
      BY <2>1
    <3> QED
      BY <1>1, <3>1
  <2>2. CASE n # 0
    <3>1. 1 \in 1..n
      BY <2>2
    <3>2. 1 \in T
      <4> HIDE DEF T
      <4> QED
        BY <1>3, <3>1
    <3> QED
      BY <3>2
  <2> QED
    BY <2>1, <2>2
<1>5. G[f] \in [1..n -> V]
  OBVIOUS
<1> QED
  BY <1>4, <1>5

----------------------------------------------------------------------------
(* Names                                                                   *)

Plain      == Validate!Alnum \cup Validate!Separators
Normalized == {"lower", "dash"}

\* What Collapse computes of a place, from what it computes of the next.
CollapseAt(nm, f, i) ==
    IF i > Len(nm) THEN <<>>
    ELSE IF /\ i < Len(nm)
            /\ nm[i] \in Validate!Separators /\ nm[i + 1] \in Validate!Separators
         THEN f[i + 1]
         ELSE <<Validate!Dash(nm)[i]>> \o f[i + 1]

Collapses(nm, f) == f = [i \in 1..(Len(nm) + 1) |-> CollapseAt(nm, f, i)]
CollapseFcn(nm)  == CHOOSE f : Collapses(nm, f)

LEMMA CollapseIs ==
    ASSUME NEW nm  PROVE Validate!Collapse(nm) = CollapseFcn(nm)[1]
BY DEF Validate!Collapse, CollapseFcn, Collapses, CollapseAt

LEMMA DashType ==
    ASSUME NEW nm \in Seq(Plain), NEW i \in 1..Len(nm)
    PROVE  Validate!Dash(nm)[i] \in Normalized
BY DEF Validate!Dash, Plain, Normalized, Validate!Alnum

LEMMA CollapseExists ==
    ASSUME NEW nm \in Seq(Plain)
    PROVE  Collapses(nm, CollapseFcn(nm))
<1> DEFINE n == Len(nm) + 1
           V == Seq(Normalized)
           G == [f \in [1..n -> V] |-> [i \in 1..n |-> CollapseAt(nm, f, i)]]
<1>1. n \in Nat /\ <<>> \in V
  OBVIOUS
<1>2. ASSUME NEW f \in [1..n -> V], NEW i \in 1..n  PROVE CollapseAt(nm, f, i) \in V
  <2>1. CASE i > Len(nm)
    BY <1>1, <2>1 DEF CollapseAt
  <2>2. CASE i <= Len(nm)
    <3>1. i \in 1..Len(nm) /\ i + 1 \in 1..n
      BY <2>2
    <3>2. f[i + 1] \in V /\ Validate!Dash(nm)[i] \in Normalized
      BY <3>1, DashType
    <3>3. <<Validate!Dash(nm)[i]>> \o f[i + 1] \in V
      BY <3>2
    <3> QED
      BY <2>2, <3>2, <3>3 DEF CollapseAt
  <2> QED
    BY <2>1, <2>2
<1>3. G \in [[1..n -> V] -> [1..n -> V]]
  BY <1>2
<1>4. ASSUME NEW f \in [1..n -> V], NEW g \in [1..n -> V], NEW i \in 1..n,
             \A j \in (i + 1)..n : f[j] = g[j]
      PROVE  G[f][i] = G[g][i]
  <2>1. i <= Len(nm) => f[i + 1] = g[i + 1]
    BY <1>4
  <2>2. CollapseAt(nm, f, i) = CollapseAt(nm, g, i)
    BY <2>1 DEF CollapseAt
  <2> QED
    BY <2>2
<1>5. PICK f \in [1..n -> V] : f = G[f]
  <2> HIDE DEF G, V, n
  <2>1. FromBehind(n, V, G)
    BY <1>3, <1>4 DEF FromBehind
  <2> QED
    BY <1>1, <2>1, Recursion
<1>6. Collapses(nm, f)
  BY <1>5 DEF Collapses
<1> QED
  BY <1>6 DEF CollapseFcn

LEMMA CollapseHere ==
    ASSUME NEW nm \in Seq(Plain), NEW i \in 1..(Len(nm) + 1)
    PROVE  CollapseFcn(nm)[i] = CollapseAt(nm, CollapseFcn(nm), i)
BY CollapseExists DEF Collapses

\* The equation determines the function.
LEMMA CollapseUnique ==
    ASSUME NEW nm \in Seq(Plain), NEW f, Collapses(nm, f)
    PROVE  Validate!Collapse(nm) = f[1]
<1> DEFINE n == Len(nm) + 1
           F == CollapseFcn(nm)
           T == { i \in 1..n : F[i] = f[i] }
<1>1. ASSUME NEW i \in 1..n, \A j \in (i + 1)..n : j \in T  PROVE i \in T
  <2>1. i <= Len(nm) => F[i + 1] = f[i + 1]
    BY <1>1
  <2>2. CollapseAt(nm, F, i) = CollapseAt(nm, f, i)
    BY <2>1 DEF CollapseAt
  <2>3. f[i] = CollapseAt(nm, f, i)
    BY DEF Collapses
  <2> QED
    BY <2>2, <2>3, CollapseHere
<1>2. n \in Nat /\ 1 \in 1..n
  OBVIOUS
<1>3. 1 \in T
  <2> HIDE DEF T, n
  <2> QED
    BY <1>1, <1>2, Backwards
<1> QED
  BY <1>3, CollapseIs

\* Small letters and dashes, no two dashes in a row.
NoRuns(s) == \A k \in 1..(Len(s) - 1) : ~ (s[k] = "dash" /\ s[k + 1] = "dash")

LEMMA DashIs ==
    ASSUME NEW nm \in Seq(Plain), NEW i \in 1..Len(nm)
    PROVE  /\ nm[i] \in Validate!Separators => Validate!Dash(nm)[i] = "dash"
           /\ nm[i] \notin Validate!Separators => Validate!Dash(nm)[i] = "lower"
BY DEF Validate!Dash, Plain, Validate!Alnum, Validate!Separators

LEMMA CollapseShape ==
    ASSUME NEW nm \in Seq(Plain)
    PROVE  LET s == Validate!Collapse(nm) IN
           /\ s \in Seq(Normalized) /\ NoRuns(s)
           /\ nm = <<>> => s = <<>>
           /\ nm # <<>> => s # <<>> /\ s[1] = Validate!Dash(nm)[1]
<1> DEFINE n == Len(nm) + 1
           F == CollapseFcn(nm)
           Shape(s, i) ==
              /\ s \in Seq(Normalized) /\ NoRuns(s)
              /\ i > Len(nm) => s = <<>>
              /\ i <= Len(nm) => s # <<>> /\ s[1] = Validate!Dash(nm)[i]
           T == { i \in 1..n : Shape(F[i], i) }
<1>1. ASSUME NEW i \in 1..n, \A j \in (i + 1)..n : j \in T  PROVE i \in T
  <2>1. CASE i > Len(nm)
    <3>1. F[i] = <<>>
      BY <2>1, CollapseHere DEF CollapseAt
    <3>2. <<>> \in Seq(Normalized) /\ NoRuns(<<>>)
      BY DEF NoRuns
    <3>3. Shape(F[i], i)
      <4>1. ~ (i <= Len(nm))
        BY <2>1
      <4> QED
        BY <3>1, <3>2, <4>1
    <3> QED
      BY <3>3
  <2>2. CASE i <= Len(nm)
    <3> DEFINE s == F[i + 1]
               d == Validate!Dash(nm)[i]
    <3>1. /\ i \in 1..Len(nm) /\ i + 1 \in 1..n /\ Shape(s, i + 1)
          /\ d \in Normalized
      BY <1>1, <2>2, DashType
    <3>2. ASSUME nm[i] \in Validate!Separators, i < Len(nm),
                 nm[i + 1] \in Validate!Separators
          PROVE  i \in T
      <4>1. F[i] = s
        <5>1. F[i] = CollapseAt(nm, F, i)
          BY CollapseHere
        <5>2. ~ (i > Len(nm))
          BY <2>2
        <5> QED
          BY <5>1, <5>2, <3>2 DEF CollapseAt
      <4>2. Validate!Dash(nm)[i + 1] = d
        BY <2>2, <3>2, DashIs
      <4> QED
        BY <2>2, <3>1, <3>2, <4>1, <4>2
    <3>3. ASSUME ~ (/\ nm[i] \in Validate!Separators /\ i < Len(nm)
                    /\ nm[i + 1] \in Validate!Separators)
          PROVE  i \in T
      <4>1. F[i] = <<d>> \o s
        <5>1. F[i] = CollapseAt(nm, F, i)
          BY CollapseHere
        <5>2. ~ (i > Len(nm))
          BY <2>2
        <5> QED
          BY <5>1, <5>2, <3>3 DEF CollapseAt
      <4>2. d = "dash" => s = <<>> \/ s[1] # "dash"
        <5>1. d = "dash" => nm[i] \in Validate!Separators
          BY <3>1, DashIs
        <5>2. CASE i = Len(nm)
          BY <3>1, <5>2
        <5>3. CASE i < Len(nm)
          BY <3>1, <3>3, <5>1, <5>3, DashIs
        <5> QED
          BY <2>2, <5>2, <5>3
      <4>3. F[i] \in Seq(Normalized) /\ F[i] # <<>> /\ F[i][1] = d
        BY <3>1, <4>1
      <4>4. NoRuns(F[i])
        <5> SUFFICES ASSUME NEW k \in 1..(Len(F[i]) - 1),
                            F[i][k] = "dash", F[i][k + 1] = "dash"
                     PROVE  FALSE
          BY DEF NoRuns
        <5>1. CASE k = 1
          BY <3>1, <4>1, <4>2, <5>1
        <5>2. CASE k > 1
          <6>1. Len(F[i]) = Len(s) + 1 /\ \A m \in 2..Len(F[i]) : F[i][m] = s[m - 1]
            BY <3>1, <4>1
          <6>2. Len(s) \in Nat /\ k \in 2..Len(F[i]) /\ k + 1 \in 2..Len(F[i])
            BY <3>1, <5>2, <6>1
          <6>3. s[k - 1] = "dash" /\ s[(k + 1) - 1] = "dash"
            BY <6>1, <6>2
          <6>4. k - 1 \in 1..(Len(s) - 1) /\ (k + 1) - 1 = (k - 1) + 1
            BY <5>2, <6>1, <6>2
          <6> QED
            BY <3>1, <6>3, <6>4 DEF NoRuns
        <5> QED
          BY <5>1, <5>2
      <4> QED
        BY <2>2, <4>3, <4>4
    <3> QED
      BY <3>2, <3>3
  <2> QED
    BY <2>1, <2>2
<1>2. n \in Nat /\ 1 \in 1..n
  OBVIOUS
<1>3. 1 \in T
  <2> HIDE DEF T, n
  <2> QED
    BY <1>1, <1>2, Backwards
<1>4. Shape(F[1], 1)
  BY <1>3
<1> QED
  BY <1>4, CollapseIs

\* From place a on, the places of Q end somewhere, and in one place only.
Span(n, a, Q, k) ==
    /\ k \in a..n /\ \A i \in (a + 1)..k : i \in Q
    /\ k < n => k + 1 \notin Q

LEMMA SpanExists ==
    ASSUME NEW n \in Nat, NEW a \in 0..n, NEW Q
    PROVE  \E k \in a..n : Span(n, a, Q, k)
<1> DEFINE D == { k \in a..n : k < n => k + 1 \notin Q }
<1>1. D \subseteq Nat /\ n \in D
  OBVIOUS
<1>2. PICK k \in D : \A e \in D : ~ (e < k)
  BY <1>1, LeastNumber
<1>3. ASSUME NEW i \in (a + 1)..k  PROVE i \in Q
  <2>1. i - 1 \in a..n /\ i - 1 < k /\ (i - 1) + 1 = i
    OBVIOUS
  <2>2. i - 1 \notin D
    BY <1>2, <2>1
  <2> QED
    BY <2>1, <2>2
<1> QED
  BY <1>3 DEF Span

LEMMA SpanIsOne ==
    ASSUME NEW n \in Nat, NEW a \in 0..n, NEW Q, NEW k \in Int, NEW m \in Int,
           Span(n, a, Q, k), Span(n, a, Q, m)
    PROVE  k = m
<1>1. ~ (k < m)
  <2> SUFFICES ASSUME k < m  PROVE FALSE
    OBVIOUS
  <2>1. k + 1 \in (a + 1)..m /\ k < n
    BY DEF Span
  <2> QED
    BY <2>1 DEF Span
<1>2. ~ (m < k)
  <2> SUFFICES ASSUME m < k  PROVE FALSE
    OBVIOUS
  <2>1. m + 1 \in (a + 1)..k /\ m < n
    BY DEF Span
  <2> QED
    BY <2>1 DEF Span
<1> QED
  BY <1>1, <1>2

Places(spec, chars) == { i \in 1..Len(spec) : spec[i] \in chars }

\* A leading name: behind white space, from a letter or a digit to where the
\* characters of a name end.
Leads(spec, a, e) ==
    /\ Span(Len(spec), 0, Places(spec, {"space"}), a - 1)
    /\ Span(Len(spec), a - 1, Places(spec, Plain), e)
    /\ a \in 1..Len(spec) /\ spec[a] \in Validate!Alnum /\ e \in Int

LEMMA BlanksSpan ==
    ASSUME NEW S, NEW spec \in Seq(S)
    PROVE  /\ Validate!Blanks(spec) \in 0..Len(spec)
           /\ Span(Len(spec), 0, Places(spec, {"space"}), Validate!Blanks(spec))
<1> DEFINE Ok(k) == /\ \A i \in 1..k : spec[i] = "space"
                    /\ k < Len(spec) => spec[k + 1] # "space"
<1>1. \A k \in 0..Len(spec) : Ok(k) <=> Span(Len(spec), 0, Places(spec, {"space"}), k)
  BY DEF Span, Places
<1>2. \E k \in 0..Len(spec) : Ok(k)
  <2>1. Len(spec) \in Nat /\ 0 \in 0..Len(spec)
    OBVIOUS
  <2>2. \E k \in 0..Len(spec) : Span(Len(spec), 0, Places(spec, {"space"}), k)
    BY <2>1, SpanExists
  <2> QED
    BY <1>1, <2>2
<1>3. Validate!Blanks(spec) \in 0..Len(spec) /\ Ok(Validate!Blanks(spec))
  BY <1>2 DEF Validate!Blanks
<1> QED
  BY <1>1, <1>3

LEMMA LeadingNameIs ==
    ASSUME NEW S, NEW spec \in Seq(S)
    PROVE  \/ /\ Validate!LeadingName(spec) = <<>>
              /\ ~ \E a, e : Leads(spec, a, e)
           \/ \E a, e : Leads(spec, a, e) /\ Validate!LeadingName(spec) = SubSeq(spec, a, e)
<1> DEFINE n     == Len(spec)
           start == Validate!Blanks(spec) + 1
           Ok(k) == /\ \A i \in start..k : spec[i] \in Validate!Alnum \cup Validate!Separators
                    /\ k < n => spec[k + 1] \notin Validate!Alnum \cup Validate!Separators
           end   == CHOOSE k \in (start - 1)..n : Ok(k)
<1>1. /\ n \in Nat /\ start \in Int /\ start - 1 \in 0..n /\ (start - 1) + 1 = start
      /\ Span(n, 0, Places(spec, {"space"}), start - 1)
  BY BlanksSpan
<1>2. \A k \in (start - 1)..n : Ok(k) <=> Span(n, start - 1, Places(spec, Plain), k)
  <2> HIDE DEF start
  <2> SUFFICES ASSUME NEW k \in (start - 1)..n
               PROVE  Ok(k) <=> Span(n, start - 1, Places(spec, Plain), k)
    OBVIOUS
  <2>1. /\ \A i \in start..k : i \in 1..n
        /\ k < n => k + 1 \in 1..n
    BY <1>1
  <2> QED
    BY <1>1, <2>1 DEF Span, Places, Plain
<1>3. \E k \in (start - 1)..n : Ok(k)
  <2>1. \E k \in (start - 1)..n : Span(n, start - 1, Places(spec, Plain), k)
    <3> HIDE DEF start
    <3> QED
      BY <1>1, SpanExists
  <2> QED
    BY <1>2, <2>1
<1>4. end \in (start - 1)..n /\ Ok(end)
  BY <1>3
<1>5. Validate!LeadingName(spec) =
        IF start > n \/ (start <= n /\ spec[start] \notin Validate!Alnum)
        THEN <<>> ELSE SubSeq(spec, start, end)
  BY DEF Validate!LeadingName
<1> HIDE DEF end, start
<1>6. ASSUME start <= n, spec[start] \in Validate!Alnum
      PROVE  Leads(spec, start, end) /\ Validate!LeadingName(spec) = SubSeq(spec, start, end)
  BY <1>1, <1>2, <1>4, <1>5, <1>6 DEF Leads
<1>7. ASSUME start > n \/ spec[start] \notin Validate!Alnum
      PROVE  Validate!LeadingName(spec) = <<>> /\ ~ \E a, e : Leads(spec, a, e)
  <2>1. ASSUME NEW a, NEW e, Leads(spec, a, e)  PROVE FALSE
    <3>1. a - 1 = start - 1
      BY <1>1, <2>1, SpanIsOne DEF Leads
    <3> QED
      BY <1>1, <1>7, <2>1, <3>1 DEF Leads
  <2> QED
    BY <1>1, <1>5, <1>7, <2>1
<1> QED
  BY <1>1, <1>6, <1>7

\* Where a name leads, it is the leading name.
LEMMA LeadingNameAt ==
    ASSUME NEW S, NEW spec \in Seq(S), NEW a, NEW e, Leads(spec, a, e)
    PROVE  Validate!LeadingName(spec) = SubSeq(spec, a, e)
<1>1. PICK b, d : Leads(spec, b, d) /\ Validate!LeadingName(spec) = SubSeq(spec, b, d)
  BY LeadingNameIs
<1>2. a \in Int /\ b \in Int /\ d \in Int /\ e \in Int /\ Len(spec) \in Nat
  BY <1>1 DEF Leads
<1>3. a - 1 = b - 1
  BY <1>1, <1>2, SpanIsOne DEF Leads
<1>4. a = b
  BY <1>2, <1>3
<1>5. d = e
  BY <1>1, <1>2, <1>4, SpanIsOne DEF Leads
<1> QED
  BY <1>1, <1>4, <1>5

LEMMA LeadingNameType ==
    ASSUME NEW S, NEW spec \in Seq(S)
    PROVE  LET lead == Validate!LeadingName(spec) IN
           /\ lead \in Seq(Plain)
           /\ lead # <<>> => lead[1] \in Validate!Alnum
<1>1. CASE Validate!LeadingName(spec) = <<>>
  BY <1>1
<1>2. ASSUME NEW a, NEW e, Leads(spec, a, e),
             Validate!LeadingName(spec) = SubSeq(spec, a, e)
      PROVE  SubSeq(spec, a, e) \in Seq(Plain) /\ SubSeq(spec, a, e)[1] \in Validate!Alnum
  <2>1. a \in 1..Len(spec) /\ e \in a..Len(spec) /\ \A i \in a..e : spec[i] \in Plain
    <3>1. a \in 1..Len(spec) /\ e \in (a - 1)..Len(spec) /\ spec[a] \in Plain
      BY <1>2 DEF Leads, Span, Plain
    <3>2. (a - 1) + 1 = a
      BY <3>1
    <3>3. \A i \in a..e : spec[i] \in Plain
      BY <1>2, <3>2 DEF Leads, Span, Places
    <3>4. e # a - 1
      <4>1. a \in Places(spec, Plain)
        BY <3>1 DEF Places
      <4> QED
        BY <1>2, <3>1, <3>2, <4>1 DEF Leads, Span
    <3> QED
      BY <3>1, <3>3, <3>4
  <2> QED
    BY <1>2, <2>1, SubSeqProperties DEF Leads
<1> QED
  BY <1>1, <1>2, LeadingNameIs

\* A key: small letters and dashes, a letter first.
LEMMA KeyShape ==
    ASSUME NEW S, NEW spec \in Seq(S), Validate!NormalizeRequirementName(spec) # <<>>
    PROVE  LET key == Validate!NormalizeRequirementName(spec) IN
           key \in Seq(Normalized) /\ NoRuns(key) /\ key[1] = "lower"
<1> DEFINE lead == Validate!LeadingName(spec)
           key  == Validate!NormalizeRequirementName(spec)
<1>1. lead \in Seq(Plain) /\ (lead # <<>> => lead[1] \in Validate!Alnum)
  BY LeadingNameType
<1>2. key = Validate!Collapse(lead)
  BY DEF Validate!NormalizeRequirementName
<1> HIDE DEF lead, key
<1>3. /\ key \in Seq(Normalized) /\ NoRuns(key)
      /\ lead # <<>> /\ key[1] = Validate!Dash(lead)[1]
  BY <1>1, <1>2, CollapseShape DEF key
<1>4. Validate!Dash(lead)[1] = "lower"
  <2>1. 1 \in 1..Len(lead) /\ lead[1] \in Validate!Alnum
    BY <1>1, <1>3
  <2>2. lead[1] \notin Validate!Separators
    BY <2>1 DEF Validate!Alnum, Validate!Separators
  <2> QED
    BY <1>1, <2>1, <2>2, DashIs
<1> QED
  BY <1>3, <1>4 DEF key

\* What begins well and goes on well is an entry of its directory.
LEMMA BeginsWell ==
    ASSUME NEW S, NEW s \in Seq(S), s # <<>>, s[1] # "dash",
           s # <<"dot">>, s # <<"dot", "dot">>,
           \A i \in 1..Len(s) : s[i] \notin {"slash", "other"}
    PROVE  Validate!StaysInside(s)
BY DEF Validate!StaysInside

\* For names of any length, what validated parts are joined to stays inside its
\* directory.
LEMMA JoinedInside ==
    ASSUME NEW joined \in Seq(Validate!Chars)
    PROVE  Validate!JoinedStaysInside(joined)
<1> SUFFICES ASSUME NEW i \in 0..Len(joined),
                    Validate!ValidSuffix(SubSeq(joined, i + 1, Len(joined)))
             PROVE  LET nm == SubSeq(joined, 1, i)
                        sfx == SubSeq(joined, i + 1, Len(joined))
                        key == Validate!NormalizeRequirementName(nm)
                    IN  /\ Validate!ValidExecutable(nm) => Validate!StaysInside(joined)
                        /\ key # <<>> => Validate!StaysInside(key \o sfx)
  BY DEF Validate!JoinedStaysInside
<1> DEFINE C   == Validate!Chars
           nm  == SubSeq(joined, 1, i)
           sfx == SubSeq(joined, i + 1, Len(joined))
           key == Validate!NormalizeRequirementName(nm)
           good == {"lower", "upper", "dot", "dash", "sep", "plus"}
<1>1. /\ nm \in Seq(C) /\ Len(nm) = i /\ \A k \in 1..i : nm[k] = joined[k]
      /\ sfx \in Seq(C) /\ Len(sfx) = Len(joined) - i
      /\ \A k \in 1..Len(sfx) : sfx[k] = joined[i + k]
  OBVIOUS
<1>2. sfx # <<>> /\ \A k \in 1..Len(sfx) : sfx[k] \in good
  BY DEF Validate!ValidSuffix, Validate!InCharset
<1> HIDE DEF nm, sfx
<1>3. ASSUME Validate!ValidExecutable(nm)  PROVE Validate!StaysInside(joined)
  <2>1. /\ nm # <<>> /\ nm # <<"dot">> /\ nm[1] # "dash"
        /\ \A k \in 1..i : nm[k] \in good
    BY <1>1, <1>3 DEF Validate!ValidExecutable, Validate!InCharset, Validate!Reserved
  <2>2. i >= 1 /\ Len(joined) >= i + 1 /\ i \in Nat
    BY <1>1, <1>2, <2>1
  <2>3. \A k \in 1..Len(joined) : joined[k] \in good
    <3> SUFFICES ASSUME NEW k \in 1..Len(joined)  PROVE joined[k] \in good
      OBVIOUS
    <3>1. CASE k <= i
      BY <1>1, <2>1, <3>1
    <3>2. CASE k > i
      <4>1. k - i \in 1..Len(sfx) /\ i + (k - i) = k
        BY <1>1, <3>2
      <4> QED
        BY <1>1, <1>2, <4>1
    <3> QED
      BY <3>1, <3>2
  <2>4. joined # <<"dot">>
    <3> SUFFICES ASSUME joined = <<"dot">>  PROVE FALSE
      OBVIOUS
    <3>1. Len(joined) = 1
      OBVIOUS
    <3> QED
      BY <2>2, <3>1
  <2>5. joined # <<"dot", "dot">>
    <3> SUFFICES ASSUME joined = <<"dot", "dot">>  PROVE FALSE
      OBVIOUS
    <3>1. i = 1 /\ nm[1] = "dot"
      BY <1>1, <2>2
    <3>2. nm = <<"dot">>
      BY <1>1, <3>1
    <3> QED
      BY <2>1, <3>2
  <2>6. joined # <<>> /\ joined[1] # "dash"
    BY <1>1, <2>1, <2>2
  <2>7. \A k \in 1..Len(joined) : joined[k] \notin {"slash", "other"}
    BY <2>3
  <2> QED
    BY <2>4, <2>5, <2>6, <2>7, BeginsWell
<1>4. ASSUME key # <<>>  PROVE Validate!StaysInside(key \o sfx)
  <2>1. key \in Seq(Normalized) /\ key[1] = "lower"
    BY <1>1, <1>4, KeyShape
  <2> HIDE DEF key
  <2> DEFINE all == key \o sfx
  <2>2. key \in Seq(C) /\ Len(key) >= 1
    BY <1>4, <2>1 DEF Normalized, Validate!Chars
  <2>3. /\ all \in Seq(C) /\ Len(all) = Len(key) + Len(sfx)
        /\ \A k \in 1..(Len(key) + Len(sfx)) :
              all[k] = IF k <= Len(key) THEN key[k] ELSE sfx[k - Len(key)]
    <3>1. sfx \in Seq(C)
      BY <1>1
    <3> HIDE DEF C
    <3> QED
      BY <2>2, <3>1, ConcatProperties
  <2>4. all # <<>> /\ all[1] = "lower"
    BY <1>1, <2>1, <2>2, <2>3
  <2>5. \A k \in 1..Len(all) : all[k] \notin {"slash", "other"}
    <3> SUFFICES ASSUME NEW k \in 1..Len(all)  PROVE all[k] \notin {"slash", "other"}
      OBVIOUS
    <3>1. CASE k <= Len(key)
      BY <2>1, <2>3, <3>1 DEF Normalized
    <3>2. CASE k > Len(key)
      <4>1. k - Len(key) \in 1..Len(sfx)
        BY <1>1, <2>2, <2>3, <3>2
      <4>2. all[k] = sfx[k - Len(key)]
        BY <1>1, <2>2, <2>3, <3>2
      <4> QED
        BY <1>2, <4>1, <4>2
    <3> QED
      BY <2>2, <3>1, <3>2
  <2>6. all # <<"dot">> /\ all # <<"dot", "dot">> /\ all[1] # "dash"
    <3>1. <<"dot">>[1] = "dot" /\ <<"dot", "dot">>[1] = "dot"
      OBVIOUS
    <3> QED
      BY <2>4, <3>1
  <2> HIDE DEF all
  <2>7. Validate!StaysInside(all)
    BY <2>3, <2>4, <2>5, <2>6, BeginsWell
  <2> QED
    BY <2>7 DEF all
<1> QED
  BY <1>3, <1>4 DEF nm, sfx

\* Two small facts of sequences.
LEMMA TailFrom ==
    ASSUME NEW S, NEW s \in Seq(S)
    PROVE  /\ SubSeq(s, 1, Len(s)) = s
           /\ SubSeq(s, Len(s) + 1, Len(s)) = <<>>
           /\ \A i \in 1..Len(s) :
                 /\ SubSeq(s, i, Len(s)) = <<s[i]>> \o SubSeq(s, i + 1, Len(s))
                 /\ SubSeq(s, i, Len(s)) \in Seq(S)
<1>1. ASSUME NEW i \in 1..Len(s)
      PROVE  /\ SubSeq(s, i, Len(s)) = <<s[i]>> \o SubSeq(s, i + 1, Len(s))
             /\ SubSeq(s, i, Len(s)) \in Seq(S)
  BY SubSeqRecursiveFirst, SubSeqProperties
<1>2. SubSeq(s, 1, Len(s)) = s
  OBVIOUS
<1> QED
  BY <1>1, <1>2, SubSeqEmpty

LEMMA DashNormal ==
    ASSUME NEW s \in Seq(Normalized), NEW i \in 1..Len(s)
    PROVE  Validate!Dash(s)[i] = s[i]
BY DEF Validate!Dash, Normalized, Validate!Separators

\* A key is not collapsed further.
LEMMA CollapseSettled ==
    ASSUME NEW s \in Seq(Normalized), NoRuns(s)
    PROVE  Validate!Collapse(s) = s
<1> DEFINE n == Len(s)
           f == [i \in 1..(n + 1) |-> SubSeq(s, i, n)]
<1>1. s \in Seq(Plain)
  BY DEF Normalized, Plain, Validate!Alnum, Validate!Separators
<1>2. ASSUME NEW i \in 1..(n + 1)  PROVE CollapseAt(s, f, i) = SubSeq(s, i, n)
  <2>1. CASE i = n + 1
    BY <2>1, TailFrom DEF CollapseAt
  <2>2. CASE i # n + 1
    <3>1. i \in 1..n /\ i + 1 \in 1..(n + 1) /\ ~ (i > Len(s))
      BY <2>2
    <3>2. ~ (i < n /\ s[i] \in Validate!Separators /\ s[i + 1] \in Validate!Separators)
      <4> SUFFICES ASSUME i < n, s[i] \in Validate!Separators, s[i + 1] \in Validate!Separators
                   PROVE  FALSE
        OBVIOUS
      <4>1. s[i] = "dash" /\ s[i + 1] = "dash"
        BY <3>1 DEF Normalized, Validate!Separators
      <4>2. i \in 1..(Len(s) - 1)
        BY <3>1
      <4> QED
        BY <4>1, <4>2 DEF NoRuns
    <3>3. f[i + 1] = SubSeq(s, i + 1, n)
      BY <3>1
    <3>4. CollapseAt(s, f, i) = <<s[i]>> \o SubSeq(s, i + 1, n)
      <4> HIDE DEF f
      <4> QED
        BY <3>1, <3>2, <3>3, DashNormal DEF CollapseAt
    <3> QED
      BY <3>1, <3>4, TailFrom
  <2> QED
    BY <2>1, <2>2
<1>3. Collapses(s, f)
  BY <1>2 DEF Collapses
<1>4. Validate!Collapse(s) = f[1]
  <2> HIDE DEF f
  <2> QED
    BY <1>1, <1>3, CollapseUnique
<1>5. f[1] = SubSeq(s, 1, n)
  OBVIOUS
<1> QED
  BY <1>4, <1>5, TailFrom

\* A name is its own leading name, and so it is with an end behind it.
LEMMA LeadingNameOfName ==
    ASSUME NEW s \in Seq(Plain), s # <<>>, s[1] \in Validate!Alnum
    PROVE  /\ Validate!LeadingName(s) = s
           /\ \A c \in {"other", "plus", "space"} : Validate!LeadingName(s \o <<c>>) = s
<1> DEFINE n == Len(s)
<1>0. Plain \subseteq Validate!Chars /\ Validate!Alnum \subseteq Plain
  BY DEF Plain, Validate!Alnum, Validate!Separators, Validate!Chars
<1>1. n \in Nat /\ n >= 1 /\ \A i \in 1..n : s[i] \in Plain
  OBVIOUS
<1>2. \A i \in 1..n : s[i] \in Validate!Chars
  BY <1>0, <1>1
<1>3. s[1] # "space"
  BY DEF Validate!Alnum
<1>4. Leads(s, 1, n)
  <2>1. Span(n, 0, Places(s, {"space"}), 1 - 1)
    BY <1>1, <1>3 DEF Span, Places
  <2>2. Span(n, 1 - 1, Places(s, Plain), n)
    BY <1>1 DEF Span, Places
  <2> QED
    BY <1>1, <2>1, <2>2 DEF Leads
<1>5. ASSUME NEW c \in {"other", "plus", "space"}
      PROVE  Validate!LeadingName(s \o <<c>>) = s
  <2> DEFINE t == s \o <<c>>
  <2>1. c \in Validate!Chars /\ c \notin Plain
    BY DEF Validate!Chars, Plain, Validate!Alnum, Validate!Separators
  <2>2. s \in Seq(Validate!Chars)
    BY <1>0
  <2>3. /\ t \in Seq(Validate!Chars) /\ Len(t) = n + 1
        /\ t[n + 1] = c /\ \A i \in 1..n : t[i] = s[i]
    <3> HIDE DEF n
    <3>1. <<c>> \in Seq(Validate!Chars)
      BY <2>1
    <3> QED
      BY <2>2, <3>1, ConcatProperties DEF n
  <2> HIDE DEF t
  <2>4. Leads(t, 1, n)
    <3>1. Span(Len(t), 0, Places(t, {"space"}), 1 - 1)
      BY <1>1, <1>3, <2>3 DEF Span, Places
    <3>2. Span(Len(t), 1 - 1, Places(t, Plain), n)
      BY <1>1, <2>1, <2>3 DEF Span, Places
    <3> QED
      BY <1>1, <2>3, <3>1, <3>2 DEF Leads
  <2>5. Validate!LeadingName(t) = SubSeq(t, 1, n)
    BY <2>3, <2>4, LeadingNameAt
  <2>6. SubSeq(t, 1, n) = s
    BY <1>1, <2>3
  <2> QED
    BY <2>5, <2>6 DEF t
<1>6. Validate!LeadingName(s) = SubSeq(s, 1, n)
  BY <1>4, LeadingNameAt
<1> QED
  BY <1>5, <1>6, TailFrom

\* A separator next to a dash of a name changes nothing.
LEMMA CollapseLongerRun ==
    ASSUME NEW s \in Seq(Normalized), NoRuns(s), NEW i \in 1..Len(s), s[i] = "dash",
           NEW c \in Validate!Separators
    PROVE  LET w == SubSeq(s, 1, i) \o <<c>> \o SubSeq(s, i + 1, Len(s)) IN
           /\ w \in Seq(Plain) /\ w # <<>> /\ w[1] = s[1]
           /\ Validate!Collapse(w) = s
<1> DEFINE n == Len(s)
           w == SubSeq(s, 1, i) \o <<c>> \o SubSeq(s, i + 1, n)
<1>0. Normalized \subseteq Plain /\ c \in Plain /\ s \in Seq(Plain)
  BY DEF Normalized, Plain, Validate!Alnum, Validate!Separators
<1>1. /\ w \in Seq(Plain) /\ Len(w) = n + 1 /\ w[i + 1] = c
      /\ \A k \in 1..i : w[k] = s[k]
      /\ \A k \in (i + 2)..(n + 1) : w[k] = s[k - 1]
  <2> DEFINE h == SubSeq(s, 1, i)
             t == SubSeq(s, i + 1, n)
             m == h \o <<c>>
  <2>1. /\ h \in Seq(Plain) /\ Len(h) = i /\ \A k \in 1..i : h[k] = s[k]
        /\ t \in Seq(Plain) /\ Len(t) = n - i /\ \A k \in 1..(n - i) : t[k] = s[i + k]
    BY <1>0
  <2> HIDE DEF h, t
  <2>2. /\ m \in Seq(Plain) /\ Len(m) = i + 1 /\ m[i + 1] = c
        /\ \A k \in 1..i : m[k] = s[k]
    BY <1>0, <2>1
  <2> HIDE DEF m
  <2>3. w = m \o t
    BY DEF m, h, t
  <2>4. /\ m \o t \in Seq(Plain) /\ Len(m \o t) = n + 1
        /\ \A k \in 1..(i + 1) : (m \o t)[k] = m[k]
        /\ \A k \in (i + 2)..(n + 1) : (m \o t)[k] = t[k - (i + 1)]
    <3>1. /\ m \o t \in Seq(Plain) /\ Len(m \o t) = Len(m) + Len(t)
          /\ \A k \in 1..(Len(m) + Len(t)) :
                (m \o t)[k] = IF k <= Len(m) THEN m[k] ELSE t[k - Len(m)]
      <4> HIDE DEF n
      <4> QED
        BY <2>1, <2>2, ConcatProperties
    <3> QED
      BY <2>1, <2>2, <3>1
  <2>5. \A k \in (i + 2)..(n + 1) : t[k - (i + 1)] = s[k - 1]
    <3> SUFFICES ASSUME NEW k \in (i + 2)..(n + 1)  PROVE t[k - (i + 1)] = s[k - 1]
      OBVIOUS
    <3>1. k - (i + 1) \in 1..(n - i) /\ i + (k - (i + 1)) = k - 1
      OBVIOUS
    <3> QED
      BY <2>1, <3>1
  <2>6. /\ i + 1 \in 1..(i + 1) /\ \A k \in 1..i : k \in 1..(i + 1)
    OBVIOUS
  <2> QED
    BY <2>2, <2>3, <2>4, <2>5, <2>6
<1> HIDE DEF w
<1> DEFINE f == [j \in 1..(Len(w) + 1) |->
                   IF j <= i THEN SubSeq(s, j, n)
                   ELSE IF j = i + 1 THEN <<"dash">> \o SubSeq(s, i + 1, n)
                   ELSE SubSeq(s, j - 1, n)]
<1>2. ASSUME NEW k \in 1..n, k < n, s[k] \in Validate!Separators,
             s[k + 1] \in Validate!Separators
      PROVE  FALSE
  <2>1. s[k] = "dash" /\ s[k + 1] = "dash" /\ k \in 1..(Len(s) - 1)
    BY <1>2 DEF Normalized, Validate!Separators
  <2> QED
    BY <2>1 DEF NoRuns
<1>3. ASSUME NEW j \in 1..(Len(w) + 1)  PROVE CollapseAt(w, f, j) = f[j]
  <2>1. CASE j > n + 1
    <3>1. f[j] = SubSeq(s, n + 1, n) /\ j > Len(w)
      BY <1>1, <2>1
    <3> QED
      BY <3>1, TailFrom DEF CollapseAt
  <2>2. CASE j <= n + 1
    <3>1. /\ j \in 1..Len(w) /\ j + 1 \in 1..(Len(w) + 1) /\ ~ (j > Len(w))
          /\ 1..i \subseteq 1..n
      BY <1>1, <2>2
    <3>2. CASE j < i
      <4>1. w[j] = s[j] /\ w[j + 1] = s[j + 1] /\ j \in 1..n /\ j < n
        BY <1>1, <3>2
      <4>2. Validate!Dash(w)[j] = s[j]
        BY <1>1, <3>1, <4>1, DashIs DEF Normalized, Validate!Separators
      <4>3. f[j + 1] = SubSeq(s, j + 1, n) /\ f[j] = SubSeq(s, j, n)
        BY <3>1, <3>2
      <4>4. CollapseAt(w, f, j) = <<s[j]>> \o SubSeq(s, j + 1, n)
        <5> HIDE DEF f
        <5> QED
          BY <1>2, <3>1, <4>1, <4>2, <4>3 DEF CollapseAt
      <4> QED
        BY <4>1, <4>3, <4>4, TailFrom
    <3>3. CASE j = i
      <4>1. w[j] \in Validate!Separators /\ w[j + 1] \in Validate!Separators /\ j < Len(w)
        BY <1>1, <3>3 DEF Validate!Separators
      <4>2. f[j + 1] = <<"dash">> \o SubSeq(s, i + 1, n) /\ f[j] = SubSeq(s, i, n)
        BY <3>1, <3>3
      <4>3. CollapseAt(w, f, j) = f[j + 1]
        <5> HIDE DEF f
        <5> QED
          BY <3>1, <4>1 DEF CollapseAt
      <4>4. SubSeq(s, i, n) = <<s[i]>> \o SubSeq(s, i + 1, n)
        BY TailFrom
      <4> HIDE DEF f
      <4> QED
        BY <3>3, <4>2, <4>3, <4>4
    <3>4. CASE j = i + 1
      <4>1. Validate!Dash(w)[j] = "dash"
        BY <1>1, <3>1, <3>4, DashIs
      <4>2. ~ (j < Len(w) /\ w[j + 1] \in Validate!Separators)
        <5> SUFFICES ASSUME j < Len(w), w[j + 1] \in Validate!Separators  PROVE FALSE
          OBVIOUS
        <5>1. i + 2 \in (i + 2)..(n + 1) /\ i < n /\ (i + 2) - 1 = i + 1 /\ j + 1 = i + 2
          BY <1>1, <3>4
        <5>2. s[i + 1] \in Validate!Separators /\ s[i] \in Validate!Separators
          BY <1>1, <5>1 DEF Validate!Separators
        <5> QED
          BY <1>2, <5>1, <5>2
      <4>3. f[j + 1] = SubSeq(s, i + 1, n) /\ f[j] = <<"dash">> \o SubSeq(s, i + 1, n)
        BY <3>1, <3>4
      <4> HIDE DEF f
      <4> QED
        BY <3>1, <4>1, <4>2, <4>3 DEF CollapseAt
    <3>5. CASE j > i + 1
      <4>1. /\ w[j] = s[j - 1] /\ j - 1 \in 1..n /\ (j - 1) + 1 = j
            /\ j < Len(w) => w[j + 1] = s[j] /\ j - 1 < n
        BY <1>1, <2>2, <3>5
      <4>2. Validate!Dash(w)[j] = s[j - 1]
        <5>1. s[j - 1] \in Normalized
          BY <4>1
        <5>2. /\ w[j] \in Validate!Separators => Validate!Dash(w)[j] = "dash"
              /\ w[j] \notin Validate!Separators => Validate!Dash(w)[j] = "lower"
          BY <1>1, <3>1, DashIs
        <5> HIDE DEF f
        <5> QED
          BY <4>1, <5>1, <5>2 DEF Normalized, Validate!Separators
      <4>3. f[j + 1] = SubSeq(s, j, n) /\ f[j] = SubSeq(s, j - 1, n)
        BY <3>1, <3>5
      <4>4. CollapseAt(w, f, j) = <<s[j - 1]>> \o SubSeq(s, j, n)
        <5>1. ~ (j < Len(w) /\ w[j] \in Validate!Separators /\ w[j + 1] \in Validate!Separators)
          BY <1>2, <4>1
        <5> HIDE DEF f
        <5> QED
          BY <3>1, <4>2, <4>3, <5>1 DEF CollapseAt
      <4> QED
        BY <4>1, <4>3, <4>4, TailFrom
    <3>6. j < i \/ j = i \/ j = i + 1 \/ j > i + 1
      BY <1>1, <3>1
    <3> HIDE DEF f
    <3> QED
      BY <3>2, <3>3, <3>4, <3>5, <3>6
  <2> HIDE DEF f, n
  <2>3. j <= n + 1 \/ j > n + 1
    BY DEF n
  <2> QED
    BY <2>1, <2>2, <2>3
<1>4. Collapses(w, f)
  BY <1>3 DEF Collapses
<1>5. f[1] = SubSeq(s, 1, n)
  BY <1>1
<1>6. Validate!Collapse(w) = s
  <2>1. Validate!Collapse(w) = f[1]
    <3> HIDE DEF f
    <3> QED
      BY <1>1, <1>4, CollapseUnique
  <2> QED
    BY <1>5, <2>1, TailFrom
<1>7. w # <<>> /\ w[1] = s[1]
  <2>1. 1 \in 1..i /\ Len(w) # 0
    BY <1>1
  <2> QED
    BY <1>1, <2>1
<1> QED
  BY <1>1, <1>6, <1>7 DEF w

\* For specifications of any length, one project has one key.
LEMMA Stable ==
    ASSUME NEW spec \in Seq(Validate!Chars)
    PROVE  Validate!IsStable(spec)
<1> DEFINE lead == Validate!LeadingName(spec)
           key  == Validate!NormalizeRequirementName(spec)
<1> SUFFICES ASSUME key # <<>>
             PROVE  /\ Validate!NormalizeRequirementName(key) = key
                    /\ \A c \in {"other", "plus", "space"} :
                          Validate!NormalizeRequirementName(lead \o <<c>>) = key
                    /\ \A c \in Validate!Separators, i \in 1..Len(key) : key[i] = "dash" =>
                          Validate!NormalizeRequirementName(
                              SubSeq(key, 1, i) \o <<c>> \o SubSeq(key, i + 1, Len(key))) = key
  BY DEF Validate!IsStable
<1>1. lead \in Seq(Plain) /\ (lead # <<>> => lead[1] \in Validate!Alnum)
  BY LeadingNameType
<1>2. key = Validate!Collapse(lead)
  BY DEF Validate!NormalizeRequirementName
<1>3. key \in Seq(Normalized) /\ NoRuns(key) /\ key[1] = "lower"
  BY KeyShape
<1>4. lead # <<>>
  BY <1>1, <1>2, CollapseShape
<1> HIDE DEF lead, key
<1>5. key \in Seq(Plain) /\ "lower" \in Validate!Alnum
  BY <1>3 DEF Normalized, Plain, Validate!Alnum, Validate!Separators
<1>6. Validate!NormalizeRequirementName(key) = key
  <2>1. Validate!LeadingName(key) = key
    BY <1>3, <1>5, LeadingNameOfName
  <2> QED
    BY <1>3, <2>1, CollapseSettled DEF Validate!NormalizeRequirementName
<1>7. ASSUME NEW c \in {"other", "plus", "space"}
      PROVE  Validate!NormalizeRequirementName(lead \o <<c>>) = key
  BY <1>1, <1>2, <1>4, LeadingNameOfName DEF Validate!NormalizeRequirementName
<1>8. ASSUME NEW c \in Validate!Separators, NEW i \in 1..Len(key), key[i] = "dash"
      PROVE  Validate!NormalizeRequirementName(
                 SubSeq(key, 1, i) \o <<c>> \o SubSeq(key, i + 1, Len(key))) = key
  <2> DEFINE w == SubSeq(key, 1, i) \o <<c>> \o SubSeq(key, i + 1, Len(key))
  <2>1. w \in Seq(Plain) /\ w # <<>> /\ w[1] = key[1] /\ Validate!Collapse(w) = key
    BY <1>3, <1>8, CollapseLongerRun
  <2> HIDE DEF w
  <2>2. Validate!LeadingName(w) = w
    BY <1>3, <1>5, <2>1, LeadingNameOfName
  <2>3. Validate!NormalizeRequirementName(w) = key
    BY <2>1, <2>2 DEF Validate!NormalizeRequirementName
  <2> QED
    BY <2>3 DEF w
<1> QED
  BY <1>6, <1>7, <1>8

----------------------------------------------------------------------------
(* What is typed                                                           *)

\* A line is of tokens, a name of characters.
LEMMA TypedAlways == TypedSpec => [](line \in Seq(Tokens) /\ name \in Seq(Validate!Chars))
<1> DEFINE Typed == line \in Seq(Tokens) /\ name \in Seq(Validate!Chars)
<1>1. TypedInit => Typed
  BY DEF TypedInit
<1>2. ASSUME Typed, [TypedNext]_<<vars, typed>>  PROVE Typed'
  <2>1. CASE TypeToken
    <3>1. PICK token \in Tokens : line' = Append(line, token)
      BY <2>1 DEF TypeToken
    <3>2. name' = name
      BY <2>1 DEF TypeToken
    <3> HIDE DEF TypeToken
    <3> QED
      BY <1>2, <3>1, <3>2
  <2>2. CASE TypeCharacter
    <3>1. PICK char \in Validate!Chars : name' = Append(name, char)
      BY <2>2 DEF TypeCharacter
    <3>2. line' = line
      BY <2>2 DEF TypeCharacter
    <3> QED
      BY <1>2, <3>1, <3>2
  <2>3. CASE Forward
    BY <1>2, <2>3 DEF Forward, typed
  <2>4. CASE UNCHANGED <<vars, typed>>
    BY <1>2, <2>4 DEF typed
  <2> QED
    BY <1>2, <2>1, <2>2, <2>3, <2>4 DEF TypedNext
<1> QED
  BY <1>1, <1>2, PTL DEF TypedSpec

\* Whatever is typed for a name, validated parts make validated names: what
\* install() joins stays inside bin_dir and inside .suffixed.
THEOREM LinksAlwaysInside == TypedSpec => []LinksStayInside
<1>1. line \in Seq(Tokens) /\ name \in Seq(Validate!Chars) => LinksStayInside
  BY JoinedInside DEF LinksStayInside
<1> QED
  BY <1>1, TypedAlways, PTL

\* Whatever is typed for a package, one project has one key:
\* normalize_requirement_name() finds again what it made.
THEOREM KeysAlwaysStable == TypedSpec => []KeysAreStable
<1>1. line \in Seq(Tokens) /\ name \in Seq(Validate!Chars) => KeysAreStable
  BY Stable DEF KeysAreStable
<1> QED
  BY <1>1, TypedAlways, PTL

----------------------------------------------------------------------------
(* Packages                                                                *)

LEMMA TokenKinds ==
    /\ Words \cap Options = {}
    /\ \A t \in OwnTokens : t \in Tokens /\ t \notin Words /\ t \notin Options
    /\ "--from" \in OwnTokens /\ "--" \in OwnTokens
BY ArgumentsAssumption DEF OwnTokens, Tokens

\* What Positionals computes of a place, from what it computes behind it.
PositionalsAt(args, f, i) ==
    IF i > Len(args) THEN <<>>
    ELSE CASE args[i] = "--from" -> f[i + 2]
           [] args[i] # "--from" /\ Dashed(args[i]) -> f[i + 1]
           [] OTHER -> <<args[i]>> \o f[i + 1]

PositionalsEquation(args, f) == f = [i \in 1..(Len(args) + 2) |-> PositionalsAt(args, f, i)]
PositionalsFcn(args)         == CHOOSE f : PositionalsEquation(args, f)

LEMMA PositionalsIs ==
    ASSUME NEW args  PROVE Positionals(args) = PositionalsFcn(args)[1]
BY DEF Positionals, PositionalsFcn, PositionalsEquation, PositionalsAt

LEMMA PositionalsType ==
    ASSUME NEW args \in Seq(Tokens), NEW f, NEW i \in 1..(Len(args) + 2),
           \A j \in (i + 1)..(Len(args) + 2) : f[j] \in Seq(Tokens)
    PROVE  PositionalsAt(args, f, i) \in Seq(Tokens)
<1>1. CASE i > Len(args)
  BY <1>1 DEF PositionalsAt
<1>2. CASE i <= Len(args)
  <2>1. f[i + 1] \in Seq(Tokens) /\ f[i + 2] \in Seq(Tokens)
    BY <1>2
  <2>2. args[i] \in Tokens /\ ~ (i > Len(args))
    BY <1>2
  <2>3. <<args[i]>> \o f[i + 1] \in Seq(Tokens)
    BY <2>1, <2>2
  <2> QED
    BY <2>1, <2>2, <2>3 DEF PositionalsAt
<1> QED
  BY <1>1, <1>2

LEMMA PositionalsExists ==
    ASSUME NEW args \in Seq(Tokens)
    PROVE  /\ PositionalsEquation(args, PositionalsFcn(args))
           /\ \A i \in 1..(Len(args) + 2) : PositionalsFcn(args)[i] \in Seq(Tokens)
<1> DEFINE n == Len(args) + 2
           V == Seq(Tokens)
           F == PositionalsFcn(args)
           G == [f \in [1..n -> V] |-> [i \in 1..n |-> PositionalsAt(args, f, i)]]
<1>1. n \in Nat /\ <<>> \in V
  OBVIOUS
<1>2. G \in [[1..n -> V] -> [1..n -> V]]
  <2>1. ASSUME NEW f \in [1..n -> V], NEW i \in 1..n  PROVE PositionalsAt(args, f, i) \in V
    <3>1. \A j \in (i + 1)..n : f[j] \in V
      OBVIOUS
    <3> QED
      BY <3>1, PositionalsType
  <2> QED
    BY <2>1
<1>3. ASSUME NEW f \in [1..n -> V], NEW g \in [1..n -> V], NEW i \in 1..n,
             \A j \in (i + 1)..n : f[j] = g[j]
      PROVE  G[f][i] = G[g][i]
  <2>1. i <= Len(args) => f[i + 1] = g[i + 1] /\ f[i + 2] = g[i + 2]
    BY <1>3
  <2>2. PositionalsAt(args, f, i) = PositionalsAt(args, g, i)
    <3>1. CASE i > Len(args)
      BY <3>1 DEF PositionalsAt
    <3>2. CASE i <= Len(args)
      BY <2>1, <3>2 DEF PositionalsAt
    <3> QED
      BY <3>1, <3>2
  <2> QED
    BY <2>2
<1>4. PICK f \in [1..n -> V] : f = G[f]
  <2> HIDE DEF F, G, V, n
  <2>1. FromBehind(n, V, G)
    BY <1>2, <1>3 DEF FromBehind
  <2> QED
    BY <1>1, <2>1, Recursion, Z3
<1>5. PositionalsEquation(args, f)
  BY <1>4 DEF PositionalsEquation
<1>6. PositionalsEquation(args, F)
  BY <1>5 DEF PositionalsFcn
<1>7. \A i \in 1..n : F[i] \in V
  <2> DEFINE T == { i \in 1..n : F[i] \in V }
  <2>1. ASSUME NEW i \in 1..n, \A j \in (i + 1)..n : j \in T  PROVE i \in T
    <3>1. PositionalsAt(args, F, i) \in V
      BY <2>1, PositionalsType
    <3> QED
      BY <1>6, <3>1 DEF PositionalsEquation
  <2>2. \A i \in 1..n : i \in T
    <3> HIDE DEF T, n
    <3> QED
      BY <1>1, <2>1, Backwards
  <2> QED
    BY <2>2
<1> QED
  BY <1>6, <1>7

LEMMA PositionalsHere ==
    ASSUME NEW args \in Seq(Tokens), NEW i \in 1..Len(args)
    PROVE  LET P == PositionalsFcn(args) IN
           /\ args[i] = "--from" => P[i] = P[i + 2]
           /\ args[i] # "--from" /\ args[i] \notin Words => P[i] = P[i + 1]
           /\ args[i] \in Words => P[i] = <<args[i]>> \o P[i + 1]
<1> DEFINE P == PositionalsFcn(args)
<1>1. P[i] = PositionalsAt(args, P, i)
  BY PositionalsExists DEF PositionalsEquation
<1>2. ~ (i > Len(args)) /\ "--from" \notin Words
  BY TokenKinds
<1> HIDE DEF P
<1>3. args[i] = "--from" => P[i] = P[i + 2]
  BY <1>1, <1>2 DEF PositionalsAt
<1>4. args[i] # "--from" /\ args[i] \notin Words => P[i] = P[i + 1]
  BY <1>1, <1>2 DEF PositionalsAt, Dashed
<1>5. args[i] \in Words => P[i] = <<args[i]>> \o P[i + 1]
  BY <1>1, <1>2 DEF PositionalsAt, Dashed
<1> QED
  BY <1>3, <1>4, <1>5 DEF P

LEMMA PositionalsEnd ==
    ASSUME NEW args \in Seq(Tokens), NEW i \in (Len(args) + 1)..(Len(args) + 2)
    PROVE  PositionalsFcn(args)[i] = <<>>
<1>1. i \in 1..(Len(args) + 2) /\ i > Len(args)
  OBVIOUS
<1>2. PositionalsFcn(args)[i] = PositionalsAt(args, PositionalsFcn(args), i)
  BY <1>1, PositionalsExists DEF PositionalsEquation
<1> QED
  BY <1>1, <1>2 DEF PositionalsAt

\* Where only words are left, they are the candidates.
LEMMA PositionalsOfWords ==
    ASSUME NEW args \in Seq(Tokens), NEW a \in 1..(Len(args) + 1),
           \A i \in a..Len(args) : args[i] \in Words
    PROVE  PositionalsFcn(args)[a] = SubSeq(args, a, Len(args))
<1> DEFINE n == Len(args) + 1
           P == PositionalsFcn(args)
           T == { i \in 1..n : i >= a => P[i] = SubSeq(args, i, Len(args)) }
<1>1. ASSUME NEW i \in 1..n, \A j \in (i + 1)..n : j \in T  PROVE i \in T
  <2> SUFFICES ASSUME i >= a  PROVE P[i] = SubSeq(args, i, Len(args))
    OBVIOUS
  <2>1. CASE i = Len(args) + 1
    <3>1. P[i] = <<>>
      BY <2>1, PositionalsEnd
    <3> QED
      BY <2>1, <3>1, TailFrom
  <2>2. CASE i # Len(args) + 1
    <3>1. i \in 1..Len(args) /\ i \in a..Len(args) /\ i + 1 \in (i + 1)..n /\ i + 1 >= a
      BY <2>2
    <3>2. P[i + 1] = SubSeq(args, i + 1, Len(args))
      BY <1>1, <3>1
    <3>3. P[i] = <<args[i]>> \o P[i + 1]
      BY <3>1, PositionalsHere
    <3> HIDE DEF P
    <3> QED
      BY <3>1, <3>2, <3>3, TailFrom
  <2> QED
    BY <2>1, <2>2
<1>2. n \in Nat /\ a \in 1..n
  OBVIOUS
<1>3. a \in T
  <2> HIDE DEF T, n
  <2> QED
    BY <1>1, <1>2, Backwards
<1> QED
  BY <1>3

UvAnswers == [ok : BOOLEAN, packages : Seq(Tokens)]

UvReadsBy(args, takes, i, next, after) ==
    IF i > Len(args) THEN [ok |-> TRUE, packages |-> <<>>]
    ELSE CASE args[i] \in takes \cup {"--from"} ->
                  IF i < Len(args) /\ args[i + 1] \in Words
                  THEN after ELSE [ok |-> FALSE, packages |-> <<>>]
           [] args[i] = "--" ->
                  IF \E k \in 1..Len(SubSeq(args, i + 1, Len(args))) :
                        Dashed(SubSeq(args, i + 1, Len(args))[k])
                  THEN [ok |-> FALSE, packages |-> <<>>]
                  ELSE [ok |-> TRUE, packages |-> SubSeq(args, i + 1, Len(args))]
           [] Dashed(args[i]) /\ args[i] \notin takes \cup {"--from", "--"} -> next
           [] OTHER -> [next EXCEPT !.packages = <<args[i]>> \o @]

\* What UvReads computes of a place, from what it computes behind it.
UvReadsAt(args, takes, f, i) ==
    UvReadsBy(args, takes, i, f[i + 1], f[i + 2])

UvReadsEquation(args, takes, f) ==
    f = [i \in 1..(Len(args) + 2) |-> UvReadsAt(args, takes, f, i)]
UvReadsFcn(args, takes) == CHOOSE f : UvReadsEquation(args, takes, f)

LEMMA UvReadsIs ==
    ASSUME NEW args, NEW takes  PROVE UvReads(args, takes) = UvReadsFcn(args, takes)[1]
BY DEF UvReads, UvReadsFcn, UvReadsEquation, UvReadsAt, UvReadsBy

LEMMA UvReadsType ==
    ASSUME NEW args \in Seq(Tokens), NEW takes \in SUBSET Options, NEW f,
           NEW i \in 1..(Len(args) + 2),
           \A j \in (i + 1)..(Len(args) + 2) : f[j] \in UvAnswers
    PROVE  UvReadsAt(args, takes, f, i) \in UvAnswers
<1>1. CASE i > Len(args)
  BY <1>1 DEF UvReadsAt, UvReadsBy, UvAnswers
<1>2. CASE i <= Len(args)
  <2>1. f[i + 1] \in UvAnswers /\ f[i + 2] \in UvAnswers
    BY <1>2
  <2>2. args[i] \in Tokens /\ ~ (i > Len(args)) /\ SubSeq(args, i + 1, Len(args)) \in Seq(Tokens)
    BY <1>2
  <2>3. <<args[i]>> \o f[i + 1].packages \in Seq(Tokens)
    BY <2>1, <2>2 DEF UvAnswers
  <2>4. [f[i + 1] EXCEPT !.packages = <<args[i]>> \o @] \in UvAnswers
    BY <2>1, <2>3 DEF UvAnswers
  <2>5. /\ [ok |-> FALSE, packages |-> <<>>] \in UvAnswers
        /\ [ok |-> TRUE, packages |-> SubSeq(args, i + 1, Len(args))] \in UvAnswers
    BY <2>2 DEF UvAnswers
  <2> QED
    BY <2>1, <2>2, <2>4, <2>5 DEF UvReadsAt, UvReadsBy
<1> QED
  BY <1>1, <1>2

LEMMA UvReadsExists ==
    ASSUME NEW args \in Seq(Tokens), NEW takes \in SUBSET Options
    PROVE  /\ UvReadsEquation(args, takes, UvReadsFcn(args, takes))
           /\ \A i \in 1..(Len(args) + 2) : UvReadsFcn(args, takes)[i] \in UvAnswers
<1> DEFINE n == Len(args) + 2
           V == UvAnswers
           F == UvReadsFcn(args, takes)
           G == [f \in [1..n -> V] |-> [i \in 1..n |-> UvReadsAt(args, takes, f, i)]]
<1>1. n \in Nat /\ [ok |-> FALSE, packages |-> <<>>] \in V
  BY DEF UvAnswers
<1>2. G \in [[1..n -> V] -> [1..n -> V]]
  <2>1. ASSUME NEW f \in [1..n -> V], NEW i \in 1..n  PROVE UvReadsAt(args, takes, f, i) \in V
    <3>1. \A j \in (i + 1)..n : f[j] \in V
      OBVIOUS
    <3> QED
      BY <3>1, UvReadsType
  <2> QED
    BY <2>1
<1>3. ASSUME NEW f \in [1..n -> V], NEW g \in [1..n -> V], NEW i \in 1..n,
             \A j \in (i + 1)..n : f[j] = g[j]
      PROVE  G[f][i] = G[g][i]
  <2>1. i <= Len(args) => f[i + 1] = g[i + 1] /\ f[i + 2] = g[i + 2]
    BY <1>3
  <2>2. UvReadsAt(args, takes, f, i) = UvReadsAt(args, takes, g, i)
    <3>1. CASE i > Len(args)
      BY <3>1 DEF UvReadsAt, UvReadsBy
    <3>2. CASE i <= Len(args)
      BY <2>1, <3>2 DEF UvReadsAt
    <3> QED
      BY <3>1, <3>2
  <2> QED
    BY <2>2
<1>4. PICK f \in [1..n -> V] : f = G[f]
  <2> HIDE DEF F, G, V, n
  <2>1. FromBehind(n, V, G)
    BY <1>2, <1>3 DEF FromBehind
  <2> QED
    BY <1>1, <2>1, Recursion, Z3
<1>5. UvReadsEquation(args, takes, f)
  BY <1>4 DEF UvReadsEquation
<1>6. UvReadsEquation(args, takes, F)
  BY <1>5 DEF UvReadsFcn
<1>7. \A i \in 1..n : F[i] \in V
  <2> DEFINE T == { i \in 1..n : F[i] \in V }
  <2>1. ASSUME NEW i \in 1..n, \A j \in (i + 1)..n : j \in T  PROVE i \in T
    <3>1. UvReadsAt(args, takes, F, i) \in V
      BY <2>1, UvReadsType
    <3> QED
      BY <1>6, <3>1 DEF UvReadsEquation
  <2>2. \A i \in 1..n : i \in T
    <3> HIDE DEF T, n
    <3> QED
      BY <1>1, <2>1, Backwards
  <2> QED
    BY <2>2
<1> QED
  BY <1>6, <1>7

LEMMA UvReadsHere ==
    ASSUME NEW args \in Seq(Tokens), NEW takes \in SUBSET Options, NEW i \in 1..Len(args)
    PROVE  LET U == UvReadsFcn(args, takes)
               n == Len(args)
           IN  /\ args[i] \in takes \cup {"--from"} /\ U[i].ok =>
                      i < n /\ args[i + 1] \in Words /\ U[i] = U[i + 2]
               /\ args[i] = "--" /\ U[i].ok =>
                      /\ \A k \in (i + 1)..n : args[k] \in Words
                      /\ U[i].packages = SubSeq(args, i + 1, n)
               /\ args[i] \notin Words \cup takes \cup {"--from", "--"} => U[i] = U[i + 1]
               /\ args[i] \in Words =>
                      /\ U[i].ok = U[i + 1].ok
                      /\ U[i].packages = <<args[i]>> \o U[i + 1].packages
<1> DEFINE U   == UvReadsFcn(args, takes)
           n   == Len(args)
           end == SubSeq(args, i + 1, n)
<1>1. /\ U[i] = UvReadsBy(args, takes, i, U[i + 1], U[i + 2])
      /\ U[i + 1] \in UvAnswers
  BY UvReadsExists DEF UvReadsEquation, UvReadsAt
<1>2. /\ ~ (i > Len(args)) /\ Words \cap takes = {}
      /\ "--from" \notin Words \cup takes /\ "--" \notin Words \cup takes
  BY TokenKinds
<1>3. /\ Len(end) = n - i
      /\ \A k \in 1..(n - i) : end[k] = args[i + k]
  OBVIOUS
<1> HIDE DEF U, end
<1>4. ASSUME args[i] \in takes \cup {"--from"}, U[i].ok
      PROVE  i < n /\ args[i + 1] \in Words /\ U[i] = U[i + 2]
  BY <1>1, <1>2, <1>4 DEF UvReadsBy
<1>5. ASSUME args[i] = "--", U[i].ok
      PROVE  /\ \A k \in (i + 1)..n : args[k] \in Words
             /\ U[i].packages = end
  <2>1. args[i] \notin takes \cup {"--from"}
    BY <1>2, <1>5
  <2>2. U[i] = IF \E k \in 1..Len(end) : Dashed(end[k])
               THEN [ok |-> FALSE, packages |-> <<>>] ELSE [ok |-> TRUE, packages |-> end]
    BY <1>1, <1>2, <1>5, <2>1 DEF UvReadsBy, end
  <2>3. U[i].packages = end /\ \A k \in 1..Len(end) : end[k] \in Words
    BY <1>5, <2>2 DEF Dashed
  <2>4. ASSUME NEW k \in (i + 1)..n  PROVE args[k] \in Words
    <3>1. k - i \in 1..(n - i) /\ i + (k - i) = k
      OBVIOUS
    <3> QED
      BY <1>3, <2>3, <3>1
  <2> QED
    BY <2>3, <2>4
<1>6. ASSUME args[i] \notin Words \cup takes \cup {"--from", "--"}
      PROVE  U[i] = U[i + 1]
  BY <1>1, <1>2, <1>6 DEF UvReadsBy, Dashed
<1>7. ASSUME args[i] \in Words
      PROVE  /\ U[i].ok = U[i + 1].ok
             /\ U[i].packages = <<args[i]>> \o U[i + 1].packages
  <2>1. U[i] = [U[i + 1] EXCEPT !.packages = <<args[i]>> \o @]
    BY <1>1, <1>2, <1>7 DEF UvReadsBy, Dashed
  <2> QED
    BY <1>1, <2>1 DEF UvAnswers
<1> QED
  BY <1>4, <1>5, <1>6, <1>7 DEF U, end

LEMMA UvReadsEnd ==
    ASSUME NEW args \in Seq(Tokens), NEW takes \in SUBSET Options,
           NEW i \in (Len(args) + 1)..(Len(args) + 2)
    PROVE  UvReadsFcn(args, takes)[i] = [ok |-> TRUE, packages |-> <<>>]
<1>1. i \in 1..(Len(args) + 2) /\ i > Len(args)
  OBVIOUS
<1>2. UvReadsFcn(args, takes)[i] = UvReadsAt(args, takes, UvReadsFcn(args, takes), i)
  BY <1>1, UvReadsExists DEF UvReadsEquation
<1> QED
  BY <1>1, <1>2 DEF UvReadsAt, UvReadsBy

\* For lines of any length: with every value joined, uvctl's candidates are the
\* packages uv finds.
LEMMA JoinedRead ==
    ASSUME NEW args \in Seq(Tokens)  PROVE ReadsJoined(args)
<1> DEFINE n == Len(args) + 2
           P == PositionalsFcn(args)
           U == UvReadsFcn(args, {})
           T == { i \in 1..n : U[i].ok => U[i].packages = P[i] }
<1>1. ASSUME NEW i \in 1..n, \A j \in (i + 1)..n : j \in T  PROVE i \in T
  <2> SUFFICES ASSUME U[i].ok  PROVE U[i].packages = P[i]
    OBVIOUS
  <2>1. CASE i > Len(args)
    <3>1. i \in (Len(args) + 1)..(Len(args) + 2)
      BY <2>1
    <3> QED
      BY <3>1, PositionalsEnd, UvReadsEnd
  <2>2. CASE i <= Len(args)
    <3>1. /\ i \in 1..Len(args) /\ i + 1 \in (i + 1)..n /\ i + 2 \in (i + 1)..n
          /\ i + 1 \in 1..(Len(args) + 1) /\ {} \in SUBSET Options
      BY <2>2
    <3>2. i + 1 \in T /\ i + 2 \in T
      BY <1>1, <3>1
    <3>3. "--" # "--from" /\ "--" \notin Words /\ "--from" \notin Words
      BY TokenKinds
    <3> HIDE DEF P, U
    <3>4. CASE args[i] = "--from"
      <4>1. U[i] = U[i + 2] /\ P[i] = P[i + 2]
        BY <3>1, <3>4, UvReadsHere, PositionalsHere DEF P, U
      <4> QED
        BY <3>2, <4>1
    <3>5. CASE args[i] = "--"
      <4>1. /\ \A k \in (i + 1)..Len(args) : args[k] \in Words
            /\ U[i].packages = SubSeq(args, i + 1, Len(args))
        BY <3>1, <3>5, UvReadsHere DEF U
      <4>2. P[i] = P[i + 1]
        BY <3>1, <3>3, <3>5, PositionalsHere DEF P
      <4>3. P[i + 1] = SubSeq(args, i + 1, Len(args))
        BY <3>1, <4>1, PositionalsOfWords DEF P
      <4> QED
        BY <4>1, <4>2, <4>3
    <3>6. CASE args[i] \notin Words \cup {"--from", "--"}
      <4>1. U[i] = U[i + 1] /\ P[i] = P[i + 1]
        BY <3>1, <3>6, UvReadsHere, PositionalsHere DEF P, U
      <4> QED
        BY <3>2, <4>1
    <3>7. CASE args[i] \in Words
      <4>1. /\ U[i].ok = U[i + 1].ok
            /\ U[i].packages = <<args[i]>> \o U[i + 1].packages
            /\ P[i] = <<args[i]>> \o P[i + 1]
        BY <3>1, <3>7, UvReadsHere, PositionalsHere DEF P, U
      <4> QED
        BY <3>2, <4>1
    <3> QED
      BY <3>4, <3>5, <3>6, <3>7
  <2> QED
    BY <2>1, <2>2
<1>2. n \in Nat /\ 1 \in 1..n
  OBVIOUS
<1>3. 1 \in T
  <2> HIDE DEF T, n
  <2> QED
    BY <1>1, <1>2, Backwards
<1>4. U[1].ok => U[1].packages = P[1]
  BY <1>3
<1> QED
  BY <1>4, PositionalsIs, UvReadsIs DEF ReadsJoined, ExtractPackageSpec

\* For lines of any length and whichever options take a value: where one candidate
\* is left, uv finds it or none.
LEMMA NoOtherRead ==
    ASSUME NEW args \in Seq(Tokens)  PROVE ReadsNoOther(args)
<1> SUFFICES ASSUME NEW takes \in SUBSET Options,
                    UvReads(args, takes).ok, UvReads(args, takes).packages # <<>>,
                    ExtractPackageSpec(args) # Ambiguous
             PROVE  UvReads(args, takes).packages = <<ExtractPackageSpec(args)>>
  BY DEF ReadsNoOther
<1> DEFINE n == Len(args) + 2
           P == PositionalsFcn(args)
           U == UvReadsFcn(args, takes)
           T == { i \in 1..n : U[i].ok /\ Len(P[i]) <= 1 =>
                                  U[i].packages = <<>> \/ U[i].packages = P[i] }
<1>1. ASSUME NEW i \in 1..n, \A j \in (i + 1)..n : j \in T  PROVE i \in T
  <2> SUFFICES ASSUME U[i].ok, Len(P[i]) <= 1
               PROVE  U[i].packages = <<>> \/ U[i].packages = P[i]
    OBVIOUS
  <2>1. CASE i > Len(args)
    <3>1. i \in (Len(args) + 1)..(Len(args) + 2)
      BY <2>1
    <3> QED
      BY <3>1, UvReadsEnd
  <2>2. CASE i <= Len(args)
    <3>1. /\ i \in 1..Len(args) /\ i + 1 \in (i + 1)..n /\ i + 2 \in (i + 1)..n
          /\ i + 1 \in 1..(Len(args) + 1)
      BY <2>2
    <3>2. i + 1 \in T /\ i + 2 \in T
      BY <1>1, <3>1
    <3>3. /\ "--" # "--from" /\ "--" \notin Words \cup takes
          /\ "--from" \notin Words \cup takes /\ Words \cap takes = {}
      BY TokenKinds
    <3>4. P[i + 1] \in Seq(Tokens) /\ P[i + 2] \in Seq(Tokens)
      BY <3>1, PositionalsExists
    <3> HIDE DEF P, U
    <3>5. ASSUME NEW j \in 1..Len(args), P[j] = <<args[j]>> \o P[j + 1],
                 P[j + 1] \in Seq(Tokens), Len(P[j]) <= 1
          PROVE  P[j + 1] = <<>> /\ P[j] = <<args[j]>>
      <4>1. args[j] \in Tokens
        OBVIOUS
      <4>2. Len(P[j]) = 1 + Len(P[j + 1])
        BY <3>5, <4>1
      <4>3. P[j + 1] = <<>>
        BY <3>5, <4>2, EmptySeq
      <4>4. <<args[j]>> \o <<>> = <<args[j]>>
        OBVIOUS
      <4> QED
        BY <3>5, <4>3, <4>4
    <3>6. CASE args[i] = "--from"
      <4>1. U[i] = U[i + 2] /\ P[i] = P[i + 2]
        BY <3>1, <3>6, UvReadsHere, PositionalsHere DEF P, U
      <4> QED
        BY <3>2, <4>1
    <3>7. CASE args[i] \in takes
      <4>1. U[i] = U[i + 2] /\ i < Len(args) /\ args[i + 1] \in Words
        BY <3>1, <3>7, UvReadsHere DEF U
      <4>2. P[i] = P[i + 1]
        BY <3>1, <3>3, <3>7, PositionalsHere DEF P
      <4>3. P[i + 1] = <<args[i + 1]>> \o P[i + 2]
        <5>1. i + 1 \in 1..Len(args) /\ (i + 1) + 1 = i + 2
          BY <3>1, <4>1
        <5> QED
          BY <4>1, <5>1, PositionalsHere DEF P
      <4>4. P[i + 2] = <<>>
        <5>1. i + 1 \in 1..Len(args) /\ (i + 1) + 1 = i + 2
          BY <3>1, <4>1
        <5> QED
          BY <3>4, <3>5, <4>2, <4>3, <5>1
      <4>5. Len(P[i + 2]) <= 1
        BY <4>4
      <4> QED
        BY <3>2, <4>1, <4>4, <4>5
    <3>8. CASE args[i] = "--"
      <4>1. /\ \A k \in (i + 1)..Len(args) : args[k] \in Words
            /\ U[i].packages = SubSeq(args, i + 1, Len(args))
        BY <3>1, <3>8, UvReadsHere DEF U
      <4>2. P[i] = P[i + 1]
        BY <3>1, <3>3, <3>8, PositionalsHere DEF P
      <4>3. P[i + 1] = SubSeq(args, i + 1, Len(args))
        BY <3>1, <4>1, PositionalsOfWords DEF P
      <4> QED
        BY <4>1, <4>2, <4>3
    <3>9. CASE args[i] \notin Words \cup takes \cup {"--from", "--"}
      <4>1. U[i] = U[i + 1] /\ P[i] = P[i + 1]
        BY <3>1, <3>9, UvReadsHere, PositionalsHere DEF P, U
      <4> QED
        BY <3>2, <4>1
    <3>10. CASE args[i] \in Words
      <4>1. /\ U[i].ok = U[i + 1].ok
            /\ U[i].packages = <<args[i]>> \o U[i + 1].packages
            /\ P[i] = <<args[i]>> \o P[i + 1]
        BY <3>1, <3>10, UvReadsHere, PositionalsHere DEF P, U
      <4>2. P[i + 1] = <<>> /\ P[i] = <<args[i]>>
        BY <3>1, <3>4, <3>5, <4>1
      <4>3. U[i + 1].ok /\ Len(P[i + 1]) <= 1
        BY <4>1, <4>2
      <4>4. U[i + 1].packages = <<>>
        BY <3>2, <4>2, <4>3
      <4> QED
        BY <4>1, <4>2, <4>4
    <3> QED
      BY <3>6, <3>7, <3>8, <3>9, <3>10
  <2> QED
    BY <2>1, <2>2
<1>2. n \in Nat /\ 1 \in 1..n
  OBVIOUS
<1>3. 1 \in T
  <2> HIDE DEF T, n
  <2> QED
    BY <1>1, <1>2, Backwards
<1>4. U[1].ok /\ Len(P[1]) <= 1 => U[1].packages = <<>> \/ U[1].packages = P[1]
  BY <1>3
<1>5. P[1] \in Seq(Tokens)
  BY <1>2, PositionalsExists
<1> HIDE DEF P, U
<1>6. Len(P[1]) = 1 /\ ExtractPackageSpec(args) = P[1][1]
  BY PositionalsIs DEF ExtractPackageSpec, P
<1>7. P[1] = <<P[1][1]>>
  BY <1>5, <1>6
<1> QED
  BY <1>4, <1>6, <1>7, UvReadsIs DEF U

\* Whatever command line is typed, where uvctl names a package and uv accepts the
\* line, uv installs that one: extract_package_spec() fails closed.
THEOREM NothingMisread == TypedSpec => []NeverMisreads
<1>1. line \in Seq(Tokens) /\ name \in Seq(Validate!Chars) => NeverMisreads
  BY NoOtherRead DEF NeverMisreads
<1> QED
  BY <1>1, TypedAlways, PTL

\* Whatever command line is typed, extract_package_spec() finds the package of an
\* install whose options have their values joined.
THEOREM JoinedAlwaysRead == TypedSpec => []AlwaysReads
<1>1. line \in Seq(Tokens) /\ name \in Seq(Validate!Chars) => AlwaysReads
  BY JoinedRead DEF AlwaysReads
<1> QED
  BY <1>1, TypedAlways, PTL

----------------------------------------------------------------------------
(* What is forwarded                                                       *)

\* What Without computes of a place, from what it computes behind it.
WithoutAt(flags, argv, f, i) ==
    IF i > Len(argv) THEN <<>>
    ELSE IF argv[i] \in flags THEN f[i + 1] ELSE <<argv[i]>> \o f[i + 1]

WithoutEquation(flags, argv, f) == f = [i \in 1..(Len(argv) + 1) |-> WithoutAt(flags, argv, f, i)]
WithoutFcn(flags, argv)         == CHOOSE f : WithoutEquation(flags, argv, f)

LEMMA WithoutIs ==
    ASSUME NEW flags, NEW argv  PROVE Without(flags, argv) = WithoutFcn(flags, argv)[1]
BY DEF Without, WithoutFcn, WithoutEquation, WithoutAt

LEMMA WithoutType ==
    ASSUME NEW flags, NEW argv \in Seq(Tokens), NEW f, NEW i \in 1..(Len(argv) + 1),
           \A j \in (i + 1)..(Len(argv) + 1) : f[j] \in Seq(Tokens)
    PROVE  WithoutAt(flags, argv, f, i) \in Seq(Tokens)
<1>1. CASE i > Len(argv)
  BY <1>1 DEF WithoutAt
<1>2. CASE i <= Len(argv)
  <2>1. f[i + 1] \in Seq(Tokens)
    BY <1>2
  <2>2. argv[i] \in Tokens /\ ~ (i > Len(argv))
    BY <1>2
  <2>3. <<argv[i]>> \o f[i + 1] \in Seq(Tokens)
    BY <2>1, <2>2
  <2> QED
    BY <2>1, <2>2, <2>3 DEF WithoutAt
<1> QED
  BY <1>1, <1>2

LEMMA WithoutExists ==
    ASSUME NEW flags, NEW argv \in Seq(Tokens)
    PROVE  /\ WithoutEquation(flags, argv, WithoutFcn(flags, argv))
           /\ \A i \in 1..(Len(argv) + 1) : WithoutFcn(flags, argv)[i] \in Seq(Tokens)
<1> DEFINE n == Len(argv) + 1
           V == Seq(Tokens)
           F == WithoutFcn(flags, argv)
           G == [f \in [1..n -> V] |-> [i \in 1..n |-> WithoutAt(flags, argv, f, i)]]
<1>1. n \in Nat /\ <<>> \in V
  OBVIOUS
<1>2. G \in [[1..n -> V] -> [1..n -> V]]
  <2>1. ASSUME NEW f \in [1..n -> V], NEW i \in 1..n  PROVE WithoutAt(flags, argv, f, i) \in V
    <3>1. \A j \in (i + 1)..n : f[j] \in V
      OBVIOUS
    <3> QED
      BY <3>1, WithoutType
  <2> QED
    BY <2>1
<1>3. ASSUME NEW f \in [1..n -> V], NEW g \in [1..n -> V], NEW i \in 1..n,
             \A j \in (i + 1)..n : f[j] = g[j]
      PROVE  G[f][i] = G[g][i]
  <2>1. i <= Len(argv) => f[i + 1] = g[i + 1]
    BY <1>3
  <2>2. WithoutAt(flags, argv, f, i) = WithoutAt(flags, argv, g, i)
    <3>1. CASE i > Len(argv)
      BY <3>1 DEF WithoutAt
    <3>2. CASE i <= Len(argv)
      BY <2>1, <3>2 DEF WithoutAt
    <3> QED
      BY <3>1, <3>2
  <2> QED
    BY <2>2
<1>4. PICK f \in [1..n -> V] : f = G[f]
  <2> HIDE DEF F, G, V, n
  <2>1. FromBehind(n, V, G)
    BY <1>2, <1>3 DEF FromBehind
  <2> QED
    BY <1>1, <2>1, Recursion, Z3
<1>5. WithoutEquation(flags, argv, f)
  BY <1>4 DEF WithoutEquation
<1>6. WithoutEquation(flags, argv, F)
  BY <1>5 DEF WithoutFcn
<1>7. \A i \in 1..n : F[i] \in V
  <2> DEFINE T == { i \in 1..n : F[i] \in V }
  <2>1. ASSUME NEW i \in 1..n, \A j \in (i + 1)..n : j \in T  PROVE i \in T
    <3>1. WithoutAt(flags, argv, F, i) \in V
      BY <2>1, WithoutType
    <3> QED
      BY <1>6, <3>1 DEF WithoutEquation
  <2>2. \A i \in 1..n : i \in T
    <3> HIDE DEF T, n
    <3> QED
      BY <1>1, <2>1, Backwards
  <2> QED
    BY <2>2
<1> QED
  BY <1>6, <1>7

Splits == [suffix : Tokens \cup {Joined, NoSuffix}, rest : Seq(Tokens), bad : BOOLEAN]

SplitSuffixBy(args, i, later) ==
    IF i > Len(args)
    THEN [suffix |-> NoSuffix, rest |-> <<>>, bad |-> FALSE]
    ELSE LET isPair == args[i] = "--suffix"
             own(value) == [later EXCEPT !.suffix = IF @ = NoSuffix THEN value ELSE @]
         IN  CASE isPair /\ i = Len(args) -> [later EXCEPT !.bad = TRUE]
               [] isPair /\ i < Len(args) -> own(args[i + 1])
               [] args[i] = "--suffix="   -> own(Joined)
               [] OTHER -> [later EXCEPT !.rest = <<args[i]>> \o @]

\* What SplitSuffix computes of a place, from what it computes behind it.
SplitSuffixAt(args, f, i) ==
    SplitSuffixBy(args, i, f[IF args[i] = "--suffix" THEN i + 2 ELSE i + 1])

SplitSuffixEquation(args, f) == f = [i \in 1..(Len(args) + 2) |-> SplitSuffixAt(args, f, i)]
SplitSuffixFcn(args)         == CHOOSE f : SplitSuffixEquation(args, f)

LEMMA SplitSuffixIs ==
    ASSUME NEW args  PROVE SplitSuffix(args) = SplitSuffixFcn(args)[1]
BY DEF SplitSuffix, SplitSuffixFcn, SplitSuffixEquation, SplitSuffixAt, SplitSuffixBy

LEMMA SplitSuffixType ==
    ASSUME NEW args \in Seq(Tokens), NEW f, NEW i \in 1..(Len(args) + 2),
           \A j \in (i + 1)..(Len(args) + 2) : f[j] \in Splits
    PROVE  SplitSuffixAt(args, f, i) \in Splits
<1>1. CASE i > Len(args)
  BY <1>1 DEF SplitSuffixAt, SplitSuffixBy, Splits
<1>2. CASE i <= Len(args)
  <2> DEFINE later == f[IF args[i] = "--suffix" THEN i + 2 ELSE i + 1]
  <2>1. later \in Splits /\ ~ (i > Len(args)) /\ args[i] \in Tokens
    BY <1>2
  <2>2. i < Len(args) => args[i + 1] \in Tokens
    BY <1>2
  <2> HIDE DEF later
  <2>3. <<args[i]>> \o later.rest \in Seq(Tokens)
    BY <2>1 DEF Splits
  <2>4. [later EXCEPT !.bad = TRUE] \in Splits
    BY <2>1 DEF Splits
  <2>5. [later EXCEPT !.rest = <<args[i]>> \o @] \in Splits
    BY <2>1, <2>3 DEF Splits
  <2>6. ASSUME NEW value \in Tokens \cup {Joined}
        PROVE  [later EXCEPT !.suffix = IF @ = NoSuffix THEN value ELSE @] \in Splits
    BY <2>1 DEF Splits
  <2>7. SplitSuffixBy(args, i, later) \in Splits
    BY <1>2, <2>1, <2>2, <2>4, <2>5, <2>6 DEF SplitSuffixBy
  <2> QED
    BY <2>7 DEF SplitSuffixAt, later
<1> QED
  BY <1>1, <1>2

LEMMA SplitSuffixExists ==
    ASSUME NEW args \in Seq(Tokens)
    PROVE  /\ SplitSuffixEquation(args, SplitSuffixFcn(args))
           /\ \A i \in 1..(Len(args) + 2) : SplitSuffixFcn(args)[i] \in Splits
<1> DEFINE n == Len(args) + 2
           V == Splits
           F == SplitSuffixFcn(args)
           G == [f \in [1..n -> V] |-> [i \in 1..n |-> SplitSuffixAt(args, f, i)]]
<1>1. n \in Nat /\ [suffix |-> NoSuffix, rest |-> <<>>, bad |-> FALSE] \in V
  BY DEF Splits
<1>2. G \in [[1..n -> V] -> [1..n -> V]]
  <2>1. ASSUME NEW f \in [1..n -> V], NEW i \in 1..n  PROVE SplitSuffixAt(args, f, i) \in V
    <3>1. \A j \in (i + 1)..n : f[j] \in V
      OBVIOUS
    <3> QED
      BY <3>1, SplitSuffixType
  <2> QED
    BY <2>1
<1>3. ASSUME NEW f \in [1..n -> V], NEW g \in [1..n -> V], NEW i \in 1..n,
             \A j \in (i + 1)..n : f[j] = g[j]
      PROVE  G[f][i] = G[g][i]
  <2>1. i <= Len(args) => f[i + 1] = g[i + 1] /\ f[i + 2] = g[i + 2]
    BY <1>3
  <2>2. SplitSuffixAt(args, f, i) = SplitSuffixAt(args, g, i)
    <3>1. CASE i > Len(args)
      BY <3>1 DEF SplitSuffixAt, SplitSuffixBy
    <3>2. CASE i <= Len(args)
      BY <2>1, <3>2 DEF SplitSuffixAt
    <3> QED
      BY <3>1, <3>2
  <2> QED
    BY <2>2
<1>4. PICK f \in [1..n -> V] : f = G[f]
  <2> HIDE DEF F, G, V, n
  <2>1. FromBehind(n, V, G)
    BY <1>2, <1>3 DEF FromBehind
  <2> QED
    BY <1>1, <2>1, Recursion, Z3
<1>5. SplitSuffixEquation(args, f)
  BY <1>4 DEF SplitSuffixEquation
<1>6. SplitSuffixEquation(args, F)
  BY <1>5 DEF SplitSuffixFcn
<1>7. \A i \in 1..n : F[i] \in V
  <2> DEFINE T == { i \in 1..n : F[i] \in V }
  <2>1. ASSUME NEW i \in 1..n, \A j \in (i + 1)..n : j \in T  PROVE i \in T
    <3>1. SplitSuffixAt(args, F, i) \in V
      BY <2>1, SplitSuffixType
    <3> QED
      BY <1>6, <3>1 DEF SplitSuffixEquation
  <2>2. \A i \in 1..n : i \in T
    <3> HIDE DEF T, n
    <3> QED
      BY <1>1, <2>1, Backwards
  <2> QED
    BY <2>2
<1> QED
  BY <1>6, <1>7

LEMMA SplitSuffixHere ==
    ASSUME NEW args \in Seq(Tokens), NEW i \in 1..Len(args)
    PROVE  LET F == SplitSuffixFcn(args) IN
           /\ args[i] = "--suffix" /\ i = Len(args) => F[i].bad
           /\ args[i] = "--suffix" /\ i < Len(args) =>
                  F[i].bad = F[i + 2].bad /\ F[i].rest = F[i + 2].rest
           /\ args[i] = "--suffix=" => F[i].bad = F[i + 1].bad /\ F[i].rest = F[i + 1].rest
           /\ args[i] \notin {"--suffix", "--suffix="} =>
                  F[i].bad = F[i + 1].bad /\ F[i].rest = <<args[i]>> \o F[i + 1].rest
<1> DEFINE F     == SplitSuffixFcn(args)
           later == F[IF args[i] = "--suffix" THEN i + 2 ELSE i + 1]
<1>1. /\ F[i] = SplitSuffixBy(args, i, later)
      /\ F[i + 1] \in Splits /\ F[i + 2] \in Splits
  BY SplitSuffixExists DEF SplitSuffixEquation, SplitSuffixAt
<1>2. /\ later \in Splits /\ ~ (i > Len(args))
      /\ later = IF args[i] = "--suffix" THEN F[i + 2] ELSE F[i + 1]
  BY <1>1
<1> HIDE DEF F, later
<1>3. ASSUME args[i] = "--suffix", i = Len(args)  PROVE F[i].bad
  BY <1>1, <1>2, <1>3 DEF SplitSuffixBy, Splits
<1>4. ASSUME args[i] = "--suffix", i < Len(args)
      PROVE  F[i].bad = F[i + 2].bad /\ F[i].rest = F[i + 2].rest
  BY <1>1, <1>2, <1>4 DEF SplitSuffixBy, Splits
<1>5. ASSUME args[i] = "--suffix="
      PROVE  F[i].bad = F[i + 1].bad /\ F[i].rest = F[i + 1].rest
  BY <1>1, <1>2, <1>5 DEF SplitSuffixBy, Splits
<1>6. ASSUME args[i] \notin {"--suffix", "--suffix="}
      PROVE  F[i].bad = F[i + 1].bad /\ F[i].rest = <<args[i]>> \o F[i + 1].rest
  BY <1>1, <1>2, <1>6 DEF SplitSuffixBy, Splits
<1> QED
  BY <1>3, <1>4, <1>5, <1>6 DEF F

LEMMA SplitSuffixEnd ==
    ASSUME NEW args \in Seq(Tokens), NEW i \in (Len(args) + 1)..(Len(args) + 2)
    PROVE  SplitSuffixFcn(args)[i] = [suffix |-> NoSuffix, rest |-> <<>>, bad |-> FALSE]
<1>1. i \in 1..(Len(args) + 2) /\ i > Len(args)
  OBVIOUS
<1>2. SplitSuffixFcn(args)[i] = SplitSuffixAt(args, SplitSuffixFcn(args), i)
  BY <1>1, SplitSuffixExists DEF SplitSuffixEquation
<1> QED
  BY <1>1, <1>2 DEF SplitSuffixAt, SplitSuffixBy

\* How many "--suffix" stand right before place i.
RunTo(kept, i, k) ==
    /\ \A j \in (i - k)..(i - 1) : kept[j] = "--suffix"
    /\ i - k > 1 => kept[i - k - 1] # "--suffix"
Run(kept, i) == CHOOSE k \in 0..(i - 1) : RunTo(kept, i, k)

LEMMA RunExists ==
    ASSUME NEW kept, NEW i \in Nat, i >= 1
    PROVE  Run(kept, i) \in 0..(i - 1) /\ RunTo(kept, i, Run(kept, i))
<1> DEFINE D == { k \in 0..(i - 1) : i - k > 1 => kept[i - k - 1] # "--suffix" }
<1>1. D \subseteq Nat /\ i - 1 \in D
  OBVIOUS
<1>2. PICK k \in D : \A e \in D : ~ (e < k)
  BY <1>1, LeastNumber
<1>3. ASSUME NEW j \in (i - k)..(i - 1)  PROVE kept[j] = "--suffix"
  <2>1. (i - 1) - j \in 0..(i - 1) /\ (i - 1) - j < k /\ i - ((i - 1) - j) - 1 = j
    OBVIOUS
  <2>2. (i - 1) - j \notin D
    BY <1>2, <2>1
  <2> QED
    BY <2>1, <2>2
<1>4. k \in 0..(i - 1) /\ RunTo(kept, i, k)
  BY <1>3 DEF RunTo
<1> QED
  BY <1>4 DEF Run

LEMMA RunIsOne ==
    ASSUME NEW kept, NEW i \in Nat, NEW k \in 0..(i - 1), RunTo(kept, i, k)
    PROVE  Run(kept, i) = k
<1> DEFINE m == Run(kept, i)
<1>1. m \in 0..(i - 1) /\ RunTo(kept, i, m)
  BY RunExists
<1> HIDE DEF m
<1>2. ASSUME NEW a \in 0..(i - 1), NEW b \in 0..(i - 1),
             RunTo(kept, i, a), RunTo(kept, i, b), a < b
      PROVE  FALSE
  <2>1. i - a > 1 /\ i - a - 1 \in (i - b)..(i - 1)
    BY <1>2
  <2> QED
    BY <1>2, <2>1 DEF RunTo
<1>3. ~ (m < k) /\ ~ (k < m)
  BY <1>1, <1>2
<1> QED
  BY <1>1, <1>3 DEF m

LEMMA RunStep ==
    ASSUME NEW kept, NEW i \in Nat, i >= 1
    PROVE  /\ Run(kept, 1) = 0
           /\ kept[i] # "--suffix" => Run(kept, i + 1) = 0
           /\ kept[i] = "--suffix" => Run(kept, i + 1) = Run(kept, i) + 1
<1>1. Run(kept, 1) = 0
  BY RunExists
<1>2. ASSUME kept[i] # "--suffix"  PROVE Run(kept, i + 1) = 0
  <2>1. 0 \in 0..((i + 1) - 1) /\ RunTo(kept, i + 1, 0) /\ i + 1 \in Nat
    BY <1>2 DEF RunTo
  <2> QED
    BY <2>1, RunIsOne
<1>3. ASSUME kept[i] = "--suffix"  PROVE Run(kept, i + 1) = Run(kept, i) + 1
  <2> DEFINE k == Run(kept, i)
  <2>1. k \in 0..(i - 1) /\ RunTo(kept, i, k)
    BY RunExists
  <2> HIDE DEF k
  <2>2. k + 1 \in 0..((i + 1) - 1) /\ i + 1 \in Nat
    BY <2>1
  <2>3. RunTo(kept, i + 1, k + 1)
    <3>1. /\ (i + 1) - (k + 1) = i - k /\ (i + 1) - 1 = i
      BY <2>1
    <3>2. \A j \in (i - k)..i : j = i \/ j \in (i - k)..(i - 1)
      BY <2>1
    <3> QED
      BY <1>3, <2>1, <3>1, <3>2 DEF RunTo
  <2> QED
    BY <2>2, <2>3, RunIsOne DEF k
<1> QED
  BY <1>1, <1>2, <1>3

\* The places whose tokens uv gets: those at which split_suffix() looks for an
\* option, "--suffix" excepted.
Looked(kept, i) == Run(kept, i) % 2 = 0
RestPlaces(kept) ==
    { i \in 1..Len(kept) : Looked(kept, i) /\ kept[i] \notin {"--suffix", "--suffix="} }

LEMMA LookedNext ==
    ASSUME NEW kept, NEW i \in Nat, i >= 1
    PROVE  /\ Looked(kept, 1)
           /\ kept[i] # "--suffix" => Looked(kept, i + 1)
           /\ kept[i] = "--suffix" /\ Looked(kept, i) =>
                  ~ Looked(kept, i + 1) /\ Looked(kept, i + 2)
<1>0. 0 % 2 = 0
  OBVIOUS
<1>1. Looked(kept, 1) /\ (kept[i] # "--suffix" => Looked(kept, i + 1))
  BY <1>0, RunStep DEF Looked
<1>2. ASSUME kept[i] = "--suffix", Looked(kept, i)
      PROVE  ~ Looked(kept, i + 1) /\ Looked(kept, i + 2)
  <2> DEFINE k == Run(kept, i)
  <2>1. k \in Nat /\ k % 2 = 0
    BY <1>2, RunExists DEF Looked
  <2>2. Run(kept, i + 1) = k + 1
    BY <1>2, RunStep
  <2> HIDE DEF k
  <2>3. (k + 1) % 2 # 0 /\ (k + 2) % 2 = 0
    BY <2>1
  <2>4. Run(kept, i + 2) = 0 \/ Run(kept, i + 2) = (k + 1) + 1
    <3>1. i + 1 \in Nat /\ i + 1 >= 1 /\ (i + 1) + 1 = i + 2
      OBVIOUS
    <3> QED
      BY <2>2, <3>1, RunStep
  <2>5. (k + 1) + 1 = k + 2
    BY <2>1
  <2> QED
    BY <1>0, <2>2, <2>3, <2>4, <2>5 DEF Looked
<1> QED
  BY <1>1, <1>2

Between(Q, i, j) == { k \in Q : i <= k /\ k <= j }

LEMMA BetweenFinite ==
    ASSUME NEW n \in Nat, NEW Q \in SUBSET (1..n), NEW i \in Nat, NEW j \in Nat
    PROVE  IsFiniteSet(Between(Q, i, j)) /\ Cardinality(Between(Q, i, j)) \in Nat
<1>1. IsFiniteSet(1..n)
  BY FS_Interval
<1>2. Between(Q, i, j) \subseteq 1..n
  BY DEF Between
<1> QED
  BY <1>1, <1>2, FS_Subset, FS_CardinalityType

LEMMA BetweenFirst ==
    ASSUME NEW n \in Nat, NEW Q \in SUBSET (1..n), NEW i \in Nat, NEW j \in Nat, i <= j
    PROVE  /\ i \notin Q => Between(Q, i, j) = Between(Q, i + 1, j)
           /\ i \in Q => Cardinality(Between(Q, i, j)) = 1 + Cardinality(Between(Q, i + 1, j))
<1>0. \A k \in Q : k \in Int
  OBVIOUS
<1>1. ASSUME i \notin Q  PROVE Between(Q, i, j) = Between(Q, i + 1, j)
  <2>1. ASSUME NEW k \in Q  PROVE i <= k <=> i + 1 <= k
    <3>1. k \in Int /\ k # i
      BY <1>0, <1>1
    <3> QED
      BY <3>1
  <2> QED
    BY <2>1 DEF Between
<1>2. ASSUME i \in Q
      PROVE  Cardinality(Between(Q, i, j)) = 1 + Cardinality(Between(Q, i + 1, j))
  <2>1. Between(Q, i, j) = Between(Q, i + 1, j) \cup {i} /\ i \notin Between(Q, i + 1, j)
    <3>1. ASSUME NEW k \in Q  PROVE i <= k <=> k = i \/ i + 1 <= k
      <4>1. k \in Int
        BY <1>0
      <4> QED
        BY <4>1
    <3>2. i <= i /\ ~ (i + 1 <= i)
      OBVIOUS
    <3> QED
      BY <1>2, <3>1, <3>2 DEF Between
  <2>2. i + 1 \in Nat
    OBVIOUS
  <2>3. IsFiniteSet(Between(Q, i + 1, j)) /\ Cardinality(Between(Q, i + 1, j)) \in Nat
    BY <2>2, BetweenFinite
  <2>4. Cardinality(Between(Q, i + 1, j) \cup {i}) = Cardinality(Between(Q, i + 1, j)) + 1
    BY <2>1, <2>3, FS_AddElement
  <2> QED
    BY <2>1, <2>3, <2>4
<1> QED
  BY <1>1, <1>2

LEMMA BetweenCounts ==
    ASSUME NEW n \in Nat, NEW Q \in SUBSET (1..n), NEW i \in Nat, NEW j \in Q, i <= j
    PROVE  Cardinality(Between(Q, i, j)) \in 1..Cardinality(Between(Q, i, n))
<1>1. j \in Nat /\ j <= n
  OBVIOUS
<1>2. Between(Q, i, j) \subseteq Between(Q, i, n) /\ j \in Between(Q, i, j)
  <2>1. (\A k \in Q : k <= n) /\ j <= j
    BY <1>1
  <2> QED
    BY <2>1 DEF Between
<1>3. /\ IsFiniteSet(Between(Q, i, n)) /\ Cardinality(Between(Q, i, n)) \in Nat
      /\ IsFiniteSet(Between(Q, i, j)) /\ Cardinality(Between(Q, i, j)) \in Nat
  BY <1>1, BetweenFinite
<1>4. Cardinality(Between(Q, i, j)) <= Cardinality(Between(Q, i, n))
  BY <1>2, <1>3, FS_Subset
<1>5. Cardinality(Between(Q, i, j)) # 0
  BY <1>2, <1>3, FS_EmptySet
<1> QED
  BY <1>3, <1>4, <1>5

\* For lines of any length: uv gets the tokens of RestPlaces, in their order.
LEMMA RestForwarded ==
    ASSUME NEW argv \in Seq(Tokens)  PROVE ForwardsTheRest(argv)
<1> DEFINE kept == Without(OwnFlags, argv)
           n == Len(kept)
           Q == RestPlaces(kept)
           F == SplitSuffixFcn(kept)
           Count(i, j) == Cardinality(Between(Q, i, j))
           Claim(i) == /\ Len(F[i].rest) = Count(i, n)
                       /\ \A j \in Q : i <= j => F[i].rest[Count(i, j)] = kept[j]
           m == n + 2
           T == { i \in 1..m : i <= n + 1 /\ Looked(kept, i) /\ ~ F[i].bad => Claim(i) }
<1>1. kept \in Seq(Tokens) /\ n \in Nat
  <2>1. 1 \in 1..(Len(argv) + 1)
    OBVIOUS
  <2> QED
    BY <2>1, WithoutIs, WithoutExists
<1> HIDE DEF kept
<1>2. Q \in SUBSET (1..n)
  BY DEF RestPlaces
<1>3. \A i \in 1..m : F[i] \in Splits
  BY <1>1, SplitSuffixExists
<1>4. ASSUME NEW i \in 1..m, \A j \in (i + 1)..m : j \in T  PROVE i \in T
  <2> SUFFICES ASSUME i <= n + 1, Looked(kept, i), ~ F[i].bad  PROVE Claim(i)
    OBVIOUS
  <2>1. i \in Nat /\ i >= 1 /\ i + 1 \in Nat /\ i + 2 \in Nat
    OBVIOUS
  <2>2. CASE i = n + 1
    <3>1. F[i].rest = <<>>
      BY <1>1, <2>2, SplitSuffixEnd
    <3>2. \A j \in Q : ~ (i <= j)
      BY <1>1, <1>2, <2>2
    <3>3. Between(Q, i, n) = {}
      BY <3>2 DEF Between
    <3>4. Count(i, n) = 0
      BY <3>3, FS_EmptySet
    <3> HIDE DEF F, Q
    <3> QED
      BY <3>1, <3>2, <3>4
  <2>3. CASE i <= n
    <3>1. /\ i \in 1..Len(kept) /\ i + 1 \in (i + 1)..m /\ i + 2 \in (i + 1)..m
          /\ i + 1 <= n + 1
      BY <1>1, <2>3
    <3>2. i + 1 \in T /\ i + 2 \in T
      BY <1>4, <3>1
    <3>3. CASE kept[i] = "--suffix"
      <4>1. i < n /\ ~ F[i + 2].bad /\ F[i].rest = F[i + 2].rest
        <5>1. i # n
          BY <1>1, <3>1, <3>3, SplitSuffixHere
        <5>2. i < n
          BY <1>1, <2>3, <5>1
        <5> QED
          BY <1>1, <3>1, <3>3, <5>2, SplitSuffixHere
      <4>2. ~ Looked(kept, i + 1) /\ Looked(kept, i + 2)
        BY <2>1, <3>3, LookedNext
      <4>3. i + 2 <= n + 1
        BY <1>1, <4>1
      <4>4. Claim(i + 2)
        BY <3>2, <4>1, <4>2, <4>3
      <4>5. i \notin Q /\ i + 1 \notin Q
        BY <3>3, <4>2 DEF RestPlaces
      <4>6. \A j \in Nat : Between(Q, i, j) = Between(Q, i + 2, j)
        <5>1. \A k \in Q : k \in Int /\ k # i /\ k # i + 1
          BY <1>2, <4>5
        <5> HIDE DEF Q
        <5> QED
          BY <2>1, <5>1 DEF Between
      <4>7. \A j \in Q : j \in Nat /\ (i <= j => i + 2 <= j)
        <5>1. \A k \in Q : k \in Nat /\ k # i /\ k # i + 1
          BY <1>2, <4>5
        <5> QED
          BY <2>1, <5>1
      <4> HIDE DEF F, Q
      <4> QED
        BY <1>1, <4>1, <4>4, <4>6, <4>7
    <3>4. CASE kept[i] = "--suffix="
      <4>1. ~ F[i + 1].bad /\ F[i].rest = F[i + 1].rest
        BY <1>1, <3>1, <3>4, SplitSuffixHere
      <4>2. Looked(kept, i + 1)
        BY <2>1, <3>4, LookedNext
      <4>3. Claim(i + 1)
        BY <3>1, <3>2, <4>1, <4>2
      <4>4. i \notin Q
        BY <3>4 DEF RestPlaces
      <4>5. \A j \in Nat : i <= j => Between(Q, i, j) = Between(Q, i + 1, j)
        BY <1>1, <1>2, <2>1, <4>4, BetweenFirst
      <4>6. \A j \in Q : j \in Nat /\ (i <= j => i + 1 <= j)
        <5>1. \A k \in Q : k \in Nat /\ k # i
          BY <1>2, <4>4
        <5> QED
          BY <2>1, <5>1
      <4> HIDE DEF F, Q
      <4> QED
        BY <1>1, <2>3, <4>1, <4>3, <4>5, <4>6
    <3>5. CASE kept[i] \notin {"--suffix", "--suffix="}
      <4>1. ~ F[i + 1].bad /\ F[i].rest = <<kept[i]>> \o F[i + 1].rest
        BY <1>1, <3>1, <3>5, SplitSuffixHere
      <4>2. Looked(kept, i + 1)
        BY <2>1, <3>5, LookedNext
      <4>3. Claim(i + 1)
        BY <3>1, <3>2, <4>1, <4>2
      <4>4. i \in Q
        BY <3>1, <3>5 DEF RestPlaces
      <4>5. \A j \in Nat : i <= j => Count(i, j) = 1 + Count(i + 1, j)
        BY <1>1, <1>2, <2>1, <4>4, BetweenFirst
      <4>6. F[i + 1].rest \in Seq(Tokens) /\ kept[i] \in Tokens
        BY <1>1, <1>3, <3>1 DEF Splits
      <4> DEFINE r == F[i + 1].rest
      <4>7. /\ Len(<<kept[i]>> \o r) = 1 + Len(r)
            /\ (<<kept[i]>> \o r)[1] = kept[i]
            /\ \A c \in 1..Len(r) : (<<kept[i]>> \o r)[1 + c] = r[c]
        <5> HIDE DEF r
        <5>1. r \in Seq(Tokens) /\ <<kept[i]>> \in Seq(Tokens) /\ Len(<<kept[i]>>) = 1
          BY <4>6 DEF r
        <5>2. /\ Len(<<kept[i]>> \o r) = 1 + Len(r)
              /\ \A k \in 1..(1 + Len(r)) : (<<kept[i]>> \o r)[k] =
                    IF k <= 1 THEN <<kept[i]>>[k] ELSE r[k - 1]
          BY <5>1, ConcatProperties
        <5>3. Len(r) \in Nat
          BY <5>1
        <5>4. ASSUME NEW c \in 1..Len(r)  PROVE (<<kept[i]>> \o r)[1 + c] = r[c]
          <6>1. 1 + c \in 1..(1 + Len(r)) /\ ~ (1 + c <= 1) /\ (1 + c) - 1 = c
            BY <5>3
          <6> QED
            BY <5>2, <6>1
        <5>5. (<<kept[i]>> \o r)[1] = kept[i]
          BY <5>2, <5>3
        <5> QED
          BY <5>2, <5>4, <5>5
      <4>8. ASSUME NEW j \in Q, i <= j  PROVE F[i].rest[Count(i, j)] = kept[j]
        <5>1. j \in Nat
          BY <1>2
        <5>2. CASE j = i
          <6>1. Between(Q, i + 1, i) = {}
            <7>1. \A k \in Q : k \in Int
              BY <1>2
            <7> HIDE DEF Q
            <7> QED
              BY <2>1, <7>1 DEF Between
          <6>2. Count(i, i) = 1
            <7>1. Count(i, i) = 1 + Cardinality(Between(Q, i + 1, i))
              BY <2>1, <4>5
            <7>2. Cardinality(Between(Q, i + 1, i)) = 0
              BY <6>1, FS_EmptySet
            <7> HIDE DEF Q
            <7> QED
              BY <7>1, <7>2
          <6> HIDE DEF F, Q
          <6> QED
            BY <4>1, <4>7, <5>2, <6>2
        <5>3. CASE j # i
          <6>1. i + 1 <= j
            BY <2>1, <4>8, <5>1, <5>3
          <6>2. Count(i + 1, j) \in 1..Len(r)
            <7>1. Count(i + 1, j) \in 1..Count(i + 1, n)
              BY <1>1, <1>2, <2>1, <6>1, BetweenCounts
            <7> QED
              BY <4>3, <7>1
          <6>3. r[Count(i + 1, j)] = kept[j]
            BY <4>3, <6>1
          <6>4. Count(i, j) = 1 + Count(i + 1, j)
            BY <4>5, <4>8, <5>1
          <6> HIDE DEF F, Q, Count
          <6> QED
            BY <4>1, <4>7, <6>2, <6>3, <6>4
        <5> QED
          BY <5>2, <5>3
      <4>9. Len(F[i].rest) = Count(i, n)
        <5>1. Count(i, n) = 1 + Count(i + 1, n)
          BY <1>1, <2>3, <4>5
        <5>2. Len(r) = Count(i + 1, n)
          BY <4>3
        <5> HIDE DEF F, Q, Count
        <5> QED
          BY <4>1, <4>7, <5>1, <5>2
      <4> QED
        BY <4>8, <4>9
    <3> QED
      BY <3>3, <3>4, <3>5
  <2> QED
    BY <1>1, <2>2, <2>3
<1>5. m \in Nat /\ 1 \in 1..m /\ 1 \in Nat /\ 1 <= n + 1
  BY <1>1
<1>6. 1 \in T
  <2> HIDE DEF T, m
  <2> QED
    BY <1>4, <1>5, Backwards
<1>7. ~ F[1].bad => Claim(1)
  <2>1. Looked(kept, 1)
    BY <1>5, LookedNext
  <2> QED
    BY <1>5, <1>6, <2>1
<1>8. Forwarded(argv) = F[1]
  BY SplitSuffixIs DEF Forwarded, kept
<1>9. /\ Between(Q, 1, n) = Q
      /\ \A j \in Q : 1 <= j /\ Between(Q, 1, j) = { k \in Q : k <= j }
  <2>1. \A k \in Q : k \in Int /\ 1 <= k /\ k <= n
    BY <1>1, <1>2
  <2> HIDE DEF Q
  <2> QED
    BY <2>1 DEF Between
<1>10. ~ F[1].bad =>
           /\ Len(F[1].rest) = Cardinality(Q)
           /\ \A j \in Q : F[1].rest[Cardinality({ k \in Q : k <= j })] = kept[j]
  <2> HIDE DEF F, Q
  <2> QED
    BY <1>7, <1>9
<1>11. Q = { i \in 1..Len(kept) :
               Run(kept, i) % 2 = 0 /\ kept[i] \notin {"--suffix", "--suffix="} }
  BY DEF RestPlaces, Looked
<1> QED
  <2> HIDE DEF F, Q
  <2> QED
    BY <1>8, <1>10, <1>11 DEF ForwardsTheRest, kept, Run, RunTo

\* Whatever command line is typed, cmd_forward() gives uv every token but
\* uvctl's own, in their order, and nothing else.
THEOREM RestAlwaysForwarded == TypedSpec => []ForwardedVerbatim
<1>1. line \in Seq(Tokens) /\ name \in Seq(Validate!Chars) => ForwardedVerbatim
  BY RestForwarded DEF ForwardedVerbatim
<1> QED
  BY <1>1, TypedAlways, PTL
=============================================================================
