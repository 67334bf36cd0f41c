---------------------------- MODULE AgentsProofs ----------------------------
(***************************************************************************)
(* AGENTS.md keeps its types, its markers once each and in their order,    *)
(* for any texts, releases and interleavings of those who write it; and    *)
(* the two rewrites keep the text that is not theirs to replace.           *)
(***************************************************************************)
EXTENDS AgentsFile, SequenceTheorems, FiniteSetTheorems, TLAPS

USE AgentsAssumption

\* A set of numbers has a least one: the intervals 0 .. n are ordered by inclusion.
LEMMA MinIsLeast ==
  ASSUME NEW S \in SUBSET Nat, S # {}
  PROVE  Min(S) \in S /\ \A y \in S : Min(S) <= y
<1> DEFINE T == {0 .. n : n \in S}
<1>1. T \subseteq FiniteSubsetsOf(Nat) /\ T # {}
  <2>1. \A n \in S : IsFiniteSet(0 .. n) /\ 0 .. n \in SUBSET Nat
    BY FS_Interval
  <2> QED
    BY <2>1 DEF FiniteSubsetsOf
<1>2. PICK t \in T : \A u \in T : ~(<<u, t>> \in StrictSubsetOrdering(Nat))
  <2> HIDE DEF T
  <2> QED
    BY <1>1, FS_StrictSubsetOrderingWellFounded, WFMin
<1>3. PICK x \in S : t = 0 .. x
  OBVIOUS
<1>4. ASSUME NEW y \in S, y < x PROVE FALSE
  <2>1. 0 .. y \in T /\ 0 .. y \subseteq Nat /\ 0 .. x \subseteq Nat
    OBVIOUS
  <2>2. 0 .. y \subseteq 0 .. x /\ 0 .. y # 0 .. x
    BY <1>4
  <2> QED
    BY <1>2, <1>3, <2>1, <2>2 DEF StrictSubsetOrdering
<1>5. \A y \in S : x <= y
  BY <1>4
<1> QED
  BY <1>5 DEF Min

-----------------------------------------------------------------------------
(* Files whose markers are once each and in order *)

Ordered(f) ==
  /\ \A i, j \in DOMAIN f : f[i].kind = f[j].kind /\ f[i].kind \in {"start", "company"} => i = j
  /\ \A i, j \in DOMAIN f : f[i].kind = "start" /\ f[j].kind = "company" => i < j

\* No marker that begins a part.
Plain(f) == \A i \in DOMAIN f : f[i].kind \notin {"start", "company"}

LEMMA TokenKinds ==
  /\ Start \in Tokens /\ End \in Tokens /\ Start.kind = "start" /\ End.kind = "end"
  /\ \A r \in Releases : Company(r) \in Tokens /\ Company(r).kind = "company"
  /\ \A t \in Texts : Text(t) \in Tokens /\ Text(t).kind = "text"
  BY DEF Tokens, Start, End, Company, Text

LEMMA Parts ==
  ASSUME NEW f \in Seq(Tokens), NEW i \in 1 .. Len(f) + 1
  PROVE  /\ Len(Before(f, i)) = i - 1 /\ Len(From(f, i)) = Len(f) - i + 1
         /\ Before(f, i) \in Seq(Tokens) /\ DOMAIN Before(f, i) = 1 .. i - 1
         /\ \A j \in 1 .. i - 1 : Before(f, i)[j] = f[j]
         /\ From(f, i) \in Seq(Tokens) /\ DOMAIN From(f, i) = 1 .. Len(f) - i + 1
         /\ \A j \in 1 .. Len(f) - i + 1 : From(f, i)[j] = f[i + j - 1]
<1>1. Len(f) \in Nat /\ \A j \in 1 .. Len(f) : f[j] \in Tokens
  BY ElementOfSeq, LenProperties
<1>2. \A j \in 1 .. i - 1 : f[j] \in Tokens
  BY <1>1
<1>3. \A j \in i .. Len(f) : f[j] \in Tokens
  BY <1>1
<1>4. /\ Before(f, i) \in Seq(Tokens) /\ Len(Before(f, i)) = i - 1
      /\ \A j \in 1 .. i - 1 : Before(f, i)[j] = f[j]
  <2>1. i - 1 \in Int /\ 1 \in Int
    BY <1>1
  <2>2. /\ SubSeq(f, 1, i - 1) \in Seq(Tokens)
        /\ Len(SubSeq(f, 1, i - 1)) = IF 1 <= i - 1 THEN (i - 1) - 1 + 1 ELSE 0
        /\ \A j \in 1 .. (i - 1) - 1 + 1 : SubSeq(f, 1, i - 1)[j] = f[1 + j - 1]
    BY <1>2, <2>1, SubSeqProperties
  <2> QED
    BY <1>1, <2>2 DEF Before
<1>5. /\ From(f, i) \in Seq(Tokens) /\ Len(From(f, i)) = Len(f) - i + 1
      /\ \A j \in 1 .. Len(f) - i + 1 : From(f, i)[j] = f[i + j - 1]
  <2>1. i \in Int /\ Len(f) \in Int
    BY <1>1
  <2>2. /\ SubSeq(f, i, Len(f)) \in Seq(Tokens)
        /\ Len(SubSeq(f, i, Len(f))) = IF i <= Len(f) THEN Len(f) - i + 1 ELSE 0
        /\ \A j \in 1 .. Len(f) - i + 1 : SubSeq(f, i, Len(f))[j] = f[i + j - 1]
    BY <1>3, <2>1, SubSeqProperties
  <2> QED
    BY <1>1, <2>2 DEF From
<1>6. DOMAIN Before(f, i) = 1 .. i - 1
  BY <1>4, LenProperties
<1>7. DOMAIN From(f, i) = 1 .. Len(f) - i + 1
  BY <1>5, LenProperties
<1> QED
  BY <1>4, <1>5, <1>6, <1>7

\* The place that Find gives.
LEMMA Found ==
  ASSUME NEW f \in Seq(Tokens), NEW kind, Has(f, kind)
  PROVE  Find(f, kind) \in 1 .. Len(f) /\ f[Find(f, kind)].kind = kind
<1>1. DOMAIN f = 1 .. Len(f) /\ Len(f) \in Nat
  BY LenProperties
<1>2. Places(f, kind) \in SUBSET Nat /\ Places(f, kind) # {}
  BY <1>1 DEF Places, Has
<1>3. Min(Places(f, kind)) \in Places(f, kind)
  BY <1>2, MinIsLeast
<1> QED
  BY <1>1, <1>3 DEF Find, Places

LEMMA BlockIs ==
  /\ Block \in Seq(Tokens) /\ Len(Block) = 2
  /\ Block[1].kind = "start" /\ Block[2].kind = "end"
  BY TokenKinds DEF Block

\* The block between a file's plain beginning and what has no other block.
LEMMA BlockOrdered ==
  ASSUME NEW a \in Seq(Tokens), NEW b \in Seq(Tokens), Plain(a), Ordered(b),
         \A i \in DOMAIN b : b[i].kind # "start"
  PROVE  a \o Block \o b \in Seq(Tokens) /\ Ordered(a \o Block \o b)
<1> DEFINE c == a \o Block
           d == c \o b
           n == Len(a)
<1>1. Block \in Seq(Tokens) /\ Len(Block) = 2 /\ Block[1].kind = "start" /\ Block[2].kind = "end"
  BY BlockIs
<1>2. n \in Nat /\ DOMAIN a = 1 .. n /\ Len(b) \in Nat /\ DOMAIN b = 1 .. Len(b)
  BY LenProperties
<1>3. /\ c \in Seq(Tokens) /\ Len(c) = n + Len(Block)
      /\ \A i \in 1 .. n + Len(Block) : c[i] = IF i <= n THEN a[i] ELSE Block[i - n]
  BY <1>1, ConcatProperties
<1>4. /\ d \in Seq(Tokens) /\ Len(d) = Len(c) + Len(b)
      /\ \A i \in 1 .. Len(c) + Len(b) : d[i] = IF i <= Len(c) THEN c[i] ELSE b[i - Len(c)]
  BY <1>3, ConcatProperties
<1> HIDE DEF c, d, n
<1>5. /\ DOMAIN d = 1 .. n + 2 + Len(b)
      /\ \A i \in 1 .. n : d[i].kind \notin {"start", "company"}
      /\ d[n + 1].kind = "start" /\ d[n + 2].kind = "end"
      /\ \A i \in 1 .. Len(b) : d[n + 2 + i] = b[i]
  <2>1. DOMAIN d = 1 .. n + 2 + Len(b)
    BY <1>1, <1>2, <1>3, <1>4, LenProperties
  <2>2. \A i \in 1 .. n : d[i].kind \notin {"start", "company"}
    <3>1. \A i \in 1 .. n : d[i] = a[i]
      BY <1>1, <1>2, <1>3, <1>4
    <3>2. \A i \in 1 .. n : a[i].kind \notin {"start", "company"}
      BY <1>2 DEF Plain
    <3> QED
      BY <3>1, <3>2
  <2>3. d[n + 1] = Block[1] /\ d[n + 2] = Block[2]
    BY <1>1, <1>2, <1>3, <1>4
  <2>4. \A i \in 1 .. Len(b) : d[n + 2 + i] = b[i]
    <3>1. Len(c) = n + 2 /\ n \in Nat /\ Len(b) \in Nat
      BY <1>1, <1>2, <1>3
    <3>2. \A j \in 1 .. Len(c) + Len(b) : ~(j <= Len(c)) => d[j] = b[j - Len(c)]
      BY <1>4
    <3>3. ASSUME NEW i \in 1 .. Len(b), NEW j \in Int, j = n + 2 + i PROVE d[j] = b[i]
      <4>1. j \in 1 .. Len(c) + Len(b) /\ ~(j <= Len(c)) /\ j - Len(c) = i
        BY <3>1, <3>3
      <4> QED
        BY <3>2, <4>1
    <3>4. \A i \in 1 .. Len(b) : n + 2 + i \in Int
      BY <3>1
    <3> QED
      BY <3>3, <3>4
  <2> QED
    BY <1>1, <2>1, <2>2, <2>3, <2>4
<1>6. ASSUME NEW i \in DOMAIN d, d[i].kind \in {"start", "company"}
      PROVE  \/ i = n + 1 /\ d[i].kind = "start"
             \/ i - n - 2 \in DOMAIN b /\ d[i] = b[i - n - 2] /\ d[i].kind = "company"
  <2>1. CASE i <= n + 2
    <3>1. i \in 1 .. n \/ i = n + 1 \/ i = n + 2
      BY <1>2, <1>5, <2>1
    <3>2. i \notin 1 .. n /\ i # n + 2
      BY <1>5, <1>6
    <3> QED
      BY <1>5, <3>1, <3>2
  <2>2. CASE i > n + 2
    <3>1. i - n - 2 \in 1 .. Len(b)
      BY <1>2, <1>5, <2>2
    <3>2. i \in Int /\ n \in Int
      BY <1>2, <1>5
    <3>3. i = n + 2 + (i - n - 2)
      BY <3>2
    <3>4. d[i] = b[i - n - 2]
      BY <1>5, <3>1, <3>3
    <3> QED
      BY <1>2, <1>6, <3>1, <3>4
  <2> QED
    BY <1>2, <1>5, <2>1, <2>2
<1>7. Ordered(d)
  <2>1. ASSUME NEW i \in DOMAIN d, NEW j \in DOMAIN d, d[i].kind = d[j].kind,
               d[i].kind \in {"start", "company"}
        PROVE  i = j
    <3>1. CASE d[i].kind = "start"
      BY <1>6, <2>1, <3>1
    <3>2. CASE d[i].kind = "company"
      <4>1. i - n - 2 = j - n - 2
        BY <1>6, <2>1, <3>2 DEF Ordered
      <4> QED
        BY <4>1, <1>2, <1>5
    <3> QED
      BY <2>1, <3>1, <3>2
  <2>2. ASSUME NEW i \in DOMAIN d, NEW j \in DOMAIN d, d[i].kind = "start", d[j].kind = "company"
        PROVE  i < j
    <3>1. i = n + 1 /\ j - n - 2 \in 1 .. Len(b)
      BY <1>2, <1>6, <2>2
    <3> QED
      BY <1>2, <1>5, <3>1
  <2> QED
    BY <2>1, <2>2 DEF Ordered
<1> QED
  BY <1>4, <1>7 DEF c, d

\* What keeps the markers of an ordered file in their order is ordered.
LEMMA PickOrdered ==
  ASSUME NEW f \in Seq(Tokens), Ordered(f), NEW g \in Seq(Tokens), NEW m,
         \A i \in DOMAIN g : g[i].kind \in {"start", "company"} =>
           m[i] \in DOMAIN f /\ g[i] = f[m[i]],
         \A i, j \in DOMAIN g :
           {g[i].kind, g[j].kind} \subseteq {"start", "company"} /\ i < j => m[i] < m[j]
  PROVE  Ordered(g)
<1>1. DOMAIN f \subseteq Int /\ DOMAIN g \subseteq Int
  BY LenProperties
<1>2. ASSUME NEW i \in DOMAIN g, NEW j \in DOMAIN g, g[i].kind = g[j].kind,
             g[i].kind \in {"start", "company"}
      PROVE  i = j
  <2>1. m[i] = m[j] /\ m[i] \in Int
    BY <1>1, <1>2 DEF Ordered
  <2>2. ~(m[i] < m[j]) /\ ~(m[j] < m[i])
    BY <2>1
  <2> QED
    BY <1>1, <1>2, <2>2
<1>3. ASSUME NEW i \in DOMAIN g, NEW j \in DOMAIN g, g[i].kind = "start", g[j].kind = "company"
      PROVE  i < j
  <2>1. m[i] \in Int /\ m[j] \in Int /\ m[i] < m[j]
    BY <1>1, <1>3 DEF Ordered
  <2>2. ~(j < i)
    BY <1>3, <2>1
  <2>3. i # j
    BY <1>3
  <2> QED
    BY <1>1, <2>2, <2>3
<1> QED
  BY <1>2, <1>3 DEF Ordered

LEMMA PartsOrdered ==
  ASSUME NEW f \in Seq(Tokens), Ordered(f), NEW i \in 1 .. Len(f) + 1
  PROVE  Ordered(Before(f, i)) /\ Ordered(From(f, i))
<1>1. /\ Before(f, i) \in Seq(Tokens) /\ DOMAIN Before(f, i) = 1 .. i - 1
      /\ \A j \in 1 .. i - 1 : Before(f, i)[j] = f[j]
      /\ From(f, i) \in Seq(Tokens) /\ DOMAIN From(f, i) = 1 .. Len(f) - i + 1
      /\ \A j \in 1 .. Len(f) - i + 1 : From(f, i)[j] = f[i + j - 1]
  BY Parts
<1>2. DOMAIN f = 1 .. Len(f) /\ Len(f) \in Nat
  BY LenProperties
<1>3. Ordered(Before(f, i))
  <2> DEFINE m == [j \in 1 .. i - 1 |-> j]
  <2>1. \A j \in 1 .. i - 1 : m[j] \in DOMAIN f /\ Before(f, i)[j] = f[m[j]]
    BY <1>1, <1>2
  <2>2. \A j, k \in 1 .. i - 1 : j < k => m[j] < m[k]
    OBVIOUS
  <2> HIDE DEF m
  <2> QED
    BY <1>1, <2>1, <2>2, PickOrdered
<1>4. Ordered(From(f, i))
  <2> DEFINE m == [j \in 1 .. Len(f) - i + 1 |-> i + j - 1]
  <2>1. \A j \in 1 .. Len(f) - i + 1 : m[j] \in DOMAIN f /\ From(f, i)[j] = f[m[j]]
    BY <1>1, <1>2
  <2>2. \A j, k \in 1 .. Len(f) - i + 1 : j < k => m[j] < m[k]
    BY <1>2
  <2> HIDE DEF m
  <2> QED
    BY <1>1, <2>1, <2>2, PickOrdered
<1> QED
  BY <1>3, <1>4

-----------------------------------------------------------------------------
(* The two rewrites *)

LEMMA AddendumOrdered ==
  ASSUME NEW f \in Seq(Tokens), Ordered(f), NEW r \in Releases
  PROVE  Addendum(f, r) \in Seq(Tokens) /\ Ordered(Addendum(f, r))
<1> DEFINE c == Find(f, "company")
           a == IF Has(f, "company") THEN Before(f, c) ELSE f
           g == Append(a, Company(r))
<1>1. DOMAIN f = 1 .. Len(f) /\ Len(f) \in Nat
  BY LenProperties
<1>2. a \in Seq(Tokens) /\ Ordered(a) /\ \A i \in DOMAIN a : a[i].kind # "company"
  <2>1. CASE Has(f, "company")
    <3>1. c \in 1 .. Len(f) /\ f[c].kind = "company"
      BY <2>1, Found
    <3> HIDE DEF c
    <3>2. /\ Before(f, c) \in Seq(Tokens) /\ Ordered(Before(f, c))
          /\ DOMAIN Before(f, c) = 1 .. c - 1
          /\ \A j \in 1 .. c - 1 : Before(f, c)[j] = f[j]
      <4>1. c \in 1 .. Len(f) + 1
        BY <1>1, <3>1
      <4> QED
        BY <4>1, Parts, PartsOrdered
    <3>3. \A j \in 1 .. c - 1 : f[j].kind # "company"
      BY <1>1, <3>1 DEF Ordered
    <3> QED
      BY <2>1, <3>2, <3>3
  <2>2. CASE ~Has(f, "company")
    BY <2>2 DEF Has, Places
  <2> QED
    BY <2>1, <2>2
<1>3. Company(r) \in Tokens /\ Company(r).kind = "company"
  BY TokenKinds
<1> HIDE DEF a
<1>4. /\ g \in Seq(Tokens) /\ DOMAIN g = 1 .. Len(a) + 1 /\ DOMAIN a = 1 .. Len(a) /\ Len(a) \in Nat
      /\ \A i \in 1 .. Len(a) : g[i] = a[i]
      /\ g[Len(a) + 1] = Company(r)
  BY <1>2, <1>3, AppendProperties, LenProperties
<1> HIDE DEF g
<1>5. Ordered(g)
  <2>1. ASSUME NEW i \in DOMAIN g PROVE i = Len(a) + 1 \/ (i \in DOMAIN a /\ g[i] = a[i] /\ i < Len(a) + 1)
    BY <1>4
  <2> QED
    BY <1>2, <1>3, <1>4, <2>1 DEF Ordered
<1> QED
  BY <1>4, <1>5 DEF Addendum, g, a, c

\* Before the start marker is no other, and after it no other start.
LEMMA AroundStart ==
  ASSUME NEW f \in Seq(Tokens), Ordered(f), NEW s \in 1 .. Len(f), f[s].kind = "start",
         NEW i \in s + 1 .. Len(f) + 1
  PROVE  /\ Before(f, s) \in Seq(Tokens) /\ Plain(Before(f, s))
         /\ From(f, i) \in Seq(Tokens) /\ Ordered(From(f, i))
         /\ \A j \in DOMAIN From(f, i) : From(f, i)[j].kind # "start"
<1>1. DOMAIN f = 1 .. Len(f) /\ Len(f) \in Nat
  BY LenProperties
<1>2. s \in 1 .. Len(f) + 1 /\ i \in 1 .. Len(f) + 1
  BY <1>1
<1>3. /\ Before(f, s) \in Seq(Tokens) /\ DOMAIN Before(f, s) = 1 .. s - 1
      /\ \A j \in 1 .. s - 1 : Before(f, s)[j] = f[j]
  BY <1>2, Parts
<1>4. /\ From(f, i) \in Seq(Tokens) /\ DOMAIN From(f, i) = 1 .. Len(f) - i + 1
      /\ \A j \in 1 .. Len(f) - i + 1 : From(f, i)[j] = f[i + j - 1]
  BY <1>2, Parts
<1>5. \A j \in 1 .. s - 1 : f[j].kind \notin {"start", "company"}
  BY <1>1 DEF Ordered
<1>6. ASSUME NEW j \in 1 .. Len(f) - i + 1 PROVE f[i + j - 1].kind # "start"
  <2>1. i + j - 1 \in DOMAIN f /\ i + j - 1 # s
    BY <1>1
  <2> QED
    BY <1>1, <2>1 DEF Ordered
<1> QED
  BY <1>2, <1>3, <1>4, <1>5, <1>6, PartsOrdered DEF Plain

LEMMA NoRest == << >> \in Seq(Tokens) /\ Ordered(<< >>) /\ \A i \in DOMAIN << >> : << >>[i].kind # "start"
  BY EmptySeq DEF Ordered

LEMMA UpsertOrdered ==
  ASSUME NEW f \in Seq(Tokens), Ordered(f)
  PROVE  Upsert(f) \in Seq(Tokens) /\ Ordered(Upsert(f))
<1> DEFINE s == Find(f, "start")
           e == Find(f, "end")
           after == {i \in Places(f, "company") : Has(f, "start") => i > s}
           c == Min(after)
           rest == IF after = {} THEN << >> ELSE From(f, c)
<1>1. DOMAIN f = 1 .. Len(f) /\ Len(f) \in Nat
  BY LenProperties
<1>2. after # {} => c \in after /\ c \in 1 .. Len(f) /\ f[c].kind = "company"
  <2>1. after \in SUBSET Nat
    BY <1>1 DEF Places
  <2>2. after # {} => c \in after
    <3> HIDE DEF after
    <3> QED
      BY <2>1, MinIsLeast
  <2> QED
    BY <1>1, <2>2 DEF Places
<1>3. CASE Has(f, "start") /\ Has(f, "end") /\ e > s
  <2>1. s \in 1 .. Len(f) /\ f[s].kind = "start" /\ e \in 1 .. Len(f)
    BY <1>3, Found
  <2>2. Upsert(f) = Before(f, s) \o Block \o From(f, e + 1)
    BY <1>3 DEF Upsert
  <2> HIDE DEF s, e
  <2>3. e + 1 \in s + 1 .. Len(f) + 1
    BY <1>1, <1>3, <2>1
  <2> QED
    BY <2>1, <2>2, <2>3, AroundStart, BlockOrdered
<1>4. CASE Has(f, "start") /\ ~(Has(f, "end") /\ e > s)
  <2>1. s \in 1 .. Len(f) /\ f[s].kind = "start"
    BY <1>4, Found
  <2>2. Upsert(f) = Before(f, s) \o Block \o rest
    BY <1>4 DEF Upsert
  <2>3. after # {} => c \in s + 1 .. Len(f) + 1
    BY <1>1, <1>2, <1>4, <2>1
  <2>4. s + 1 \in s + 1 .. Len(f) + 1
    BY <1>1, <2>1
  <2>5. rest = << >> \/ (after # {} /\ rest = From(f, c))
    OBVIOUS
  <2> HIDE DEF s, rest, after, c
  <2>6. Before(f, s) \in Seq(Tokens) /\ Plain(Before(f, s))
    BY <2>1, <2>4, AroundStart
  <2>7. rest \in Seq(Tokens) /\ Ordered(rest) /\ \A j \in DOMAIN rest : rest[j].kind # "start"
    BY <2>1, <2>3, <2>5, AroundStart, NoRest
  <2> QED
    BY <2>2, <2>6, <2>7, BlockOrdered
<1>5. CASE ~Has(f, "start") /\ after # {}
  <2>1. Upsert(f) = Before(f, c) \o Block \o From(f, c)
    BY <1>5 DEF Upsert
  <2>2. c \in 1 .. Len(f) + 1 /\ c \in 1 .. Len(f) /\ f[c].kind = "company"
    BY <1>1, <1>2, <1>5
  <2>3. \A i \in DOMAIN f : f[i].kind # "start"
    BY <1>5 DEF Has, Places
  <2> HIDE DEF c
  <2>4. /\ Before(f, c) \in Seq(Tokens) /\ DOMAIN Before(f, c) = 1 .. c - 1
        /\ \A j \in 1 .. c - 1 : Before(f, c)[j] = f[j]
        /\ From(f, c) \in Seq(Tokens) /\ DOMAIN From(f, c) = 1 .. Len(f) - c + 1
        /\ \A j \in 1 .. Len(f) - c + 1 : From(f, c)[j] = f[c + j - 1]
    BY <2>2, Parts
  <2>5. Plain(Before(f, c))
    <3>1. \A j \in 1 .. c - 1 : f[j].kind \notin {"start", "company"}
      BY <1>1, <2>2, <2>3 DEF Ordered
    <3> QED
      BY <2>4, <3>1 DEF Plain
  <2>6. \A j \in DOMAIN From(f, c) : From(f, c)[j].kind # "start"
    <3>1. \A j \in 1 .. Len(f) - c + 1 : c + j - 1 \in DOMAIN f
      BY <1>1, <2>2
    <3> QED
      BY <2>3, <2>4, <3>1
  <2> QED
    BY <2>1, <2>2, <2>4, <2>5, <2>6, PartsOrdered, BlockOrdered
<1>6. CASE ~Has(f, "start") /\ after = {}
  <2>1. Upsert(f) = f \o Block
    BY <1>6 DEF Upsert
  <2>2. Plain(f)
    BY <1>6 DEF Has, Places, Plain
  <2>3. f \o Block \o << >> = f \o Block
    BY BlockIs, ConcatProperties, ConcatEmptySeq
  <2>4. f \o Block \o << >> \in Seq(Tokens) /\ Ordered(f \o Block \o << >>)
    BY <2>2, NoRest, BlockOrdered
  <2> QED
    BY <2>1, <2>3, <2>4
<1> QED
  BY <1>3, <1>4, <1>5, <1>6

-----------------------------------------------------------------------------
(* The agent's edits *)

LEMMA CutOrdered ==
  ASSUME NEW f \in Seq(Tokens), Ordered(f), NEW i \in 1 .. Len(f)
  PROVE  Before(f, i) \o From(f, i + 1) \in Seq(Tokens) /\ Ordered(Before(f, i) \o From(f, i + 1))
<1> DEFINE a == Before(f, i)
           b == From(f, i + 1)
           g == a \o b
           m == [j \in DOMAIN g |-> IF j < i THEN j ELSE j + 1]
<1>1. DOMAIN f = 1 .. Len(f) /\ Len(f) \in Nat
  BY LenProperties
<1>2. i \in 1 .. Len(f) + 1 /\ i + 1 \in 1 .. Len(f) + 1
  BY <1>1
<1>3. /\ a \in Seq(Tokens) /\ Len(a) = i - 1 /\ \A j \in 1 .. i - 1 : a[j] = f[j]
      /\ b \in Seq(Tokens) /\ Len(b) = Len(f) - (i + 1) + 1
      /\ \A j \in 1 .. Len(f) - (i + 1) + 1 : b[j] = f[(i + 1) + j - 1]
  BY <1>2, Parts
<1> HIDE DEF a, b
<1>4. Len(f) - (i + 1) + 1 = Len(f) - i
  BY <1>1
<1>5. Len(a) = i - 1 /\ Len(b) = Len(f) - i
  BY <1>3, <1>4
<1>6. /\ g \in Seq(Tokens) /\ Len(g) = Len(a) + Len(b)
      /\ \A j \in 1 .. Len(a) + Len(b) : g[j] = IF j <= Len(a) THEN a[j] ELSE b[j - Len(a)]
  BY <1>3, ConcatProperties
<1> HIDE DEF g
<1>7. DOMAIN g = 1 .. Len(f) - 1
  BY <1>1, <1>5, <1>6, LenProperties
<1>8. ASSUME NEW j \in DOMAIN g PROVE m[j] \in DOMAIN f /\ g[j] = f[m[j]]
  <2>1. CASE j < i
    <3>1. j \in 1 .. i - 1 /\ j <= Len(a) /\ j \in 1 .. Len(a) + Len(b) /\ j \in DOMAIN f
      BY <1>1, <1>5, <1>7, <2>1
    <3>2. g[j] = a[j] /\ a[j] = f[j]
      BY <1>3, <1>6, <3>1
    <3> QED
      BY <2>1, <3>1, <3>2
  <2>2. CASE ~(j < i)
    <3>1. j - (i - 1) \in 1 .. Len(f) - i /\ ~(j <= Len(a)) /\ j \in 1 .. Len(a) + Len(b)
      BY <1>1, <1>5, <1>7, <2>2
    <3>2. g[j] = b[j - (i - 1)]
      BY <1>5, <1>6, <3>1
    <3>3. b[j - (i - 1)] = f[(i + 1) + (j - (i - 1)) - 1]
      <4> DEFINE k == j - (i - 1)
      <4>1. k \in 1 .. Len(f) - (i + 1) + 1
        BY <1>4, <3>1
      <4> HIDE DEF k
      <4>2. b[k] = f[(i + 1) + k - 1]
        BY <1>3, <4>1
      <4> QED
        BY <4>2 DEF k
    <3>4. (i + 1) + (j - (i - 1)) - 1 = j + 1 /\ j + 1 \in 1 .. Len(f)
      BY <1>1, <1>7
    <3> QED
      BY <1>1, <2>2, <3>2, <3>3, <3>4
  <2> QED
    BY <2>1, <2>2
<1>9. \A j, k \in DOMAIN g : j < k => m[j] < m[k]
  BY <1>1, <1>7
<1> HIDE DEF m
<1>10. Ordered(g)
  BY <1>6, <1>8, <1>9, PickOrdered
<1> QED
  BY <1>6, <1>10 DEF g, a, b

LEMMA TextIs ==
  ASSUME NEW t \in Texts
  PROVE  <<Text(t)>> \in Seq(Tokens) /\ Len(<<Text(t)>>) = 1 /\ <<Text(t)>>[1].kind = "text"
<1>1. Text(t) \in Tokens /\ Text(t).kind = "text"
  BY TokenKinds
<1> QED
  BY <1>1

LEMMA TextOrdered ==
  ASSUME NEW f \in Seq(Tokens), Ordered(f), NEW i \in 1 .. Len(f) + 1, NEW t \in Texts
  PROVE  /\ Before(f, i) \o <<Text(t)>> \o From(f, i) \in Seq(Tokens)
         /\ Ordered(Before(f, i) \o <<Text(t)>> \o From(f, i))
<1> DEFINE a == Before(f, i)
           x == <<Text(t)>>
           c == a \o x
           b == From(f, i)
           g == c \o b
           m == [j \in DOMAIN g |-> IF j < i THEN j ELSE j - 1]
<1>1. DOMAIN f = 1 .. Len(f) /\ Len(f) \in Nat
  BY LenProperties
<1>2. /\ a \in Seq(Tokens) /\ Len(a) = i - 1 /\ \A j \in 1 .. i - 1 : a[j] = f[j]
      /\ b \in Seq(Tokens) /\ Len(b) = Len(f) - i + 1
      /\ \A j \in 1 .. Len(f) - i + 1 : b[j] = f[i + j - 1]
  BY Parts
<1>3. x \in Seq(Tokens) /\ Len(x) = 1 /\ x[1].kind = "text"
  BY TextIs
<1> HIDE DEF a, b, x
<1>4. a \in Seq(Tokens) /\ b \in Seq(Tokens) /\ x \in Seq(Tokens)
  BY <1>2, <1>3
<1>5. Len(a) = i - 1 /\ Len(b) = Len(f) - i + 1
  BY <1>2
<1>6. /\ c \in Seq(Tokens) /\ Len(c) = Len(a) + Len(x)
      /\ \A j \in 1 .. Len(a) + Len(x) : c[j] = IF j <= Len(a) THEN a[j] ELSE x[j - Len(a)]
  BY <1>4, ConcatProperties
<1> HIDE DEF c
<1>7. /\ g \in Seq(Tokens) /\ Len(g) = Len(c) + Len(b)
      /\ \A j \in 1 .. Len(c) + Len(b) : g[j] = IF j <= Len(c) THEN c[j] ELSE b[j - Len(c)]
  <2>1. c \in Seq(Tokens)
    BY <1>6
  <2> QED
    BY <1>4, <2>1, ConcatProperties
<1> HIDE DEF g
<1>8. Len(c) = i /\ DOMAIN g = 1 .. Len(f) + 1
  BY <1>1, <1>3, <1>5, <1>6, <1>7, LenProperties
<1>9. ASSUME NEW j \in DOMAIN g, g[j].kind \in {"start", "company"}
      PROVE  j # i /\ m[j] \in DOMAIN f /\ g[j] = f[m[j]]
  <2>1. j \in 1 .. Len(c) + Len(b) /\ j \in 1 .. Len(f) + 1
    BY <1>1, <1>5, <1>8
  <2>2. CASE j < i
    <3>0. j \in 1 .. i - 1 /\ j <= Len(c) /\ j <= Len(a) /\ j \in 1 .. Len(a) + Len(x)
      BY <1>1, <1>3, <1>5, <1>8, <2>1, <2>2
    <3>1. g[j] = c[j] /\ c[j] = a[j] /\ a[j] = f[j]
      BY <1>2, <1>6, <1>7, <2>1, <3>0
    <3> QED
      BY <1>1, <2>1, <2>2, <3>1
  <2>3. j # i
    <3>1. i \in 1 .. Len(c) + Len(b) /\ i \in 1 .. Len(a) + Len(x) /\ ~(i <= Len(a)) /\ i - Len(a) = 1
      BY <1>1, <1>3, <1>5, <1>8
    <3>2. g[i] = x[1]
      BY <1>6, <1>7, <1>8, <3>1
    <3> QED
      BY <1>3, <1>9, <3>2
  <2>4. CASE j > i
    <3>1. j - i \in 1 .. Len(f) - i + 1 /\ ~(j <= Len(c))
      BY <1>1, <1>8, <2>1, <2>4
    <3>2. g[j] = b[j - i]
      BY <1>7, <1>8, <2>1, <3>1
    <3>3. b[j - i] = f[i + (j - i) - 1]
      BY <1>2, <3>1
    <3>4. i + (j - i) - 1 = j - 1 /\ j - 1 \in 1 .. Len(f) /\ m[j] = j - 1
      BY <1>1, <2>1, <2>4
    <3> QED
      BY <1>1, <2>3, <3>2, <3>3, <3>4
  <2> QED
    BY <2>1, <2>2, <2>3, <2>4
<1>10. \A j, k \in DOMAIN g : j # i /\ k # i /\ j < k => m[j] < m[k]
  BY <1>1, <1>8
<1> HIDE DEF m
<1>11. Ordered(g)
  BY <1>7, <1>9, <1>10, PickOrdered
<1> QED
  BY <1>7, <1>11 DEF g, c, x, a, b

-----------------------------------------------------------------------------
(* The invariant: the file, and what each program has read of it *)

Good(f) == f = Absent \/ (f \in Seq(Tokens) /\ Ordered(f))

Typed ==
  /\ Good(file) /\ read \in [Programs -> {Absent} \cup Seq(Tokens)]
  /\ \A x \in Programs : Good(read[x])
  /\ awake \in BOOLEAN /\ release \in Releases /\ starts \in 0 .. StartLimit
  /\ edits \in 0 .. MaxEdits /\ boots \in 0 .. MaxBoots /\ scripts \in 0 .. MaxScripts

LEMMA InitTyped == Init => Typed
<1>1. 1 \in Releases /\ \A n \in {StartLimit, MaxEdits, MaxBoots, MaxScripts} : 0 \in 0 .. n
  BY DEF Releases
<1> QED
  BY <1>1 DEF Init, Typed, Good

LEMMA NothingRead == << >> \in Seq(Tokens) /\ Good(<< >>)
  BY EmptySeq DEF Good, Ordered

\* A program reads or has written, and the file is good.
LEMMA ReadGood ==
  ASSUME Typed, NEW x \in Programs, NEW f \in {Absent} \cup Seq(Tokens), Good(f),
         read' = [read EXCEPT ![x] = f]
  PROVE  read' \in [Programs -> {Absent} \cup Seq(Tokens)] /\ \A y \in Programs : Good(read'[y])
  BY DEF Typed

LEMMA HostTyped ==
  ASSUME Typed, Activate \/ Boot \/ Shutdown
  PROVE  Typed'
<1>1. CASE Activate
  <2>1. PICK r \in Releases :
          release' = r /\ file' = IF file = Absent THEN Absent ELSE Addendum(file, r)
    BY <1>1 DEF Activate
  <2>2. Good(file')
    BY <2>1, AddendumOrdered DEF Typed, Good
  <2> QED
    BY <1>1, <2>1, <2>2 DEF Activate, Typed
<1>2. CASE Boot
  BY <1>2 DEF Boot, Typed
<1>3. CASE Shutdown
  BY <1>3 DEF Shutdown, Typed, Good
<1> QED
  BY <1>1, <1>2, <1>3

LEMMA RefreshTyped ==
  ASSUME Typed, RefreshReads \/ RefreshWrites
  PROVE  Typed'
<1>1. "refresh" \in Programs /\ Good(Absent)
  BY DEF Programs, Good
<1>2. CASE RefreshReads
  <2>1. read' = [read EXCEPT !["refresh"] = file] /\ file \in {Absent} \cup Seq(Tokens) /\ Good(file)
    BY <1>2 DEF RefreshReads, Typed, Good
  <2>2. starts' \in 0 .. StartLimit
    BY <1>2 DEF RefreshReads, Triggered, Typed
  <2> QED
    BY <1>1, <1>2, <2>1, <2>2, ReadGood DEF RefreshReads, Typed
<1>3. CASE RefreshWrites
  <2>1. read["refresh"] \in Seq(Tokens) /\ Ordered(read["refresh"]) /\ release \in Releases
    BY <1>1, <1>3 DEF RefreshWrites, Typed, Good
  <2>2. Good(file')
    BY <1>3, <2>1, AddendumOrdered DEF RefreshWrites, Typed, Good
  <2> QED
    BY <1>1, <1>3, <2>2, ReadGood DEF RefreshWrites, Typed
<1> QED
  BY <1>2, <1>3

LEMMA ScriptTyped ==
  ASSUME Typed, ScriptReads \/ ScriptWrites
  PROVE  Typed'
<1>1. "script" \in Programs /\ Good(Absent)
  BY DEF Programs, Good
<1>2. CASE ScriptReads
  <2> DEFINE f == IF file = Absent THEN << >> ELSE file
  <2>1. read' = [read EXCEPT !["script"] = f]
    BY <1>2 DEF ScriptReads
  <2>2. f \in {Absent} \cup Seq(Tokens) /\ Good(f)
    BY NothingRead DEF Typed, Good
  <2>3. scripts' \in 0 .. MaxScripts
    BY <1>2 DEF ScriptReads, Typed
  <2> HIDE DEF f
  <2> QED
    BY <1>1, <1>2, <2>1, <2>2, <2>3, ReadGood DEF ScriptReads, Typed
<1>3. CASE ScriptWrites
  <2>1. read["script"] \in Seq(Tokens) /\ Ordered(read["script"])
    BY <1>1, <1>3 DEF ScriptWrites, Typed, Good
  <2>2. Good(file')
    BY <1>3, <2>1, UpsertOrdered DEF ScriptWrites, Typed, Good
  <2> QED
    BY <1>1, <1>3, <2>2, ReadGood DEF ScriptWrites, Typed
<1> QED
  BY <1>2, <1>3

LEMMA AgentTyped ==
  ASSUME Typed, AgentReads \/ AgentWrites
  PROVE  Typed'
<1>1. "agent" \in Programs /\ Good(Absent)
  BY DEF Programs, Good
<1>2. CASE AgentReads
  <2> DEFINE f == IF file = Absent THEN << >> ELSE file
  <2>1. read' = [read EXCEPT !["agent"] = f]
    BY <1>2 DEF AgentReads
  <2>2. f \in {Absent} \cup Seq(Tokens) /\ Good(f)
    BY NothingRead DEF Typed, Good
  <2>3. edits' \in 0 .. MaxEdits
    BY <1>2 DEF AgentReads, Typed
  <2> HIDE DEF f
  <2> QED
    BY <1>1, <1>2, <2>1, <2>2, <2>3, ReadGood DEF AgentReads, Typed
<1>3. CASE AgentWrites
  <2> DEFINE f == read["agent"]
  <2>1. f \in Seq(Tokens) /\ Ordered(f)
    BY <1>1, <1>3 DEF AgentWrites, Typed, Good
  <2>2. DOMAIN f = 1 .. Len(f)
    BY <2>1, LenProperties
  <2>3. \/ \E t \in Texts, i \in 1 .. Len(f) + 1 : file' = Before(f, i) \o <<Text(t)>> \o From(f, i)
        \/ \E i \in DOMAIN f : file' = Before(f, i) \o From(f, i + 1)
    BY <1>3 DEF AgentWrites
  <2> HIDE DEF f
  <2>4. Good(file')
    BY <2>1, <2>2, <2>3, TextOrdered, CutOrdered DEF Good
  <2> QED
    BY <1>1, <1>3, <2>4, ReadGood DEF AgentWrites, Typed
<1> QED
  BY <1>2, <1>3

LEMMA NextTyped == Typed /\ [Next]_vars => Typed'
<1> SUFFICES ASSUME Typed, [Next]_vars PROVE Typed'
  OBVIOUS
<1>1. CASE UNCHANGED vars
  BY <1>1 DEF vars, Typed
<1> QED
  BY <1>1, HostTyped, RefreshTyped, ScriptTyped, AgentTyped DEF Next

LEMMA AlwaysTyped == Spec => []Typed
  BY InitTyped, NextTyped, PTL DEF Spec

\* Every variable keeps its type, for any texts, releases and bounds.
THEOREM TypeCorrect == Spec => []TypeOK
<1>1. Typed => TypeOK
  BY DEF Typed, TypeOK, Good
<1> QED
  BY <1>1, AlwaysTyped, PTL

\* Whoever writes over whom, AGENTS.md has the start marker and the addendum at
\* most once each, and in this order: the two rewrites and the agent's edits keep
\* the order of what they read, however old it is by the time they write it.
THEOREM PartsAreSafe == Spec => []PartsInOrder
<1>1. Typed => PartsInOrder
  BY DEF Typed, PartsInOrder, Good, Ordered, Places
<1> QED
  BY <1>1, AlwaysTyped, PTL

-----------------------------------------------------------------------------
HIDE AgentsAssumption

(***************************************************************************)
(* What the rewrites take out.  No text is there twice, as the agent adds  *)
(* only new ones, and no end marker comes after the addendum; so what a    *)
(* rewrite leaves of a file can be told from its texts.                    *)
(***************************************************************************)
Tidy(f) ==
  /\ \A i, j \in DOMAIN f : f[i] = f[j] /\ f[i].kind = "text" => i = j
  /\ \A i, j \in DOMAIN f : f[i].kind = "end" /\ f[j].kind = "company" => i < j

AllTidy ==
  /\ file # Absent => Tidy(file)
  /\ \A x \in Programs : read[x] # Absent => Tidy(read[x])

\* g is f with x in the place of what it has from a to before b: m says which part
\* of f each part of g is, and is 0 for those of x.
Spliced(f, g, a, b, x, m) ==
  /\ \A k \in DOMAIN g : m[k] = 0 => \E l \in DOMAIN x : g[k] = x[l]
  /\ Len(x) = 1 => \A k, l \in DOMAIN g : m[k] = 0 /\ m[l] = 0 => k = l
  /\ \A k \in DOMAIN g : m[k] # 0 =>
       m[k] \in DOMAIN f /\ g[k] = f[m[k]] /\ (m[k] < a \/ m[k] >= b)
  /\ \A k, l \in DOMAIN g : m[k] # 0 /\ m[l] # 0 /\ k < l => m[k] < m[l]
  /\ \A k, l \in DOMAIN g : m[k] = 0 /\ m[l] # 0 =>
       (m[l] < a => l < k) /\ (m[l] >= b => k < l)
  /\ \A i \in DOMAIN f : i < a \/ i >= b => \E k \in DOMAIN g : m[k] = i

LEMMA SpliceIs ==
  ASSUME NEW f \in Seq(Tokens), NEW x \in Seq(Tokens),
         NEW a \in 1 .. Len(f) + 1, NEW b \in a .. Len(f) + 1
  PROVE  LET g == Before(f, a) \o x \o From(f, b) IN
         g \in Seq(Tokens) /\ \E m : Spliced(f, g, a, b, x, m)
<1> DEFINE u == Before(f, a)
           c == u \o x
           v == From(f, b)
           g == c \o v
           n == Len(x)
           m == [k \in DOMAIN g |->
                   IF k < a THEN k ELSE IF k < a + n THEN 0 ELSE k - (a + n) + b]
<1>1. /\ DOMAIN f = 1 .. Len(f) /\ Len(f) \in Nat /\ DOMAIN x = 1 .. n /\ n \in Nat
      /\ a \in Nat /\ b \in Nat /\ 1 <= a /\ a <= b /\ b <= Len(f) + 1
  BY LenProperties
<1>2. /\ u \in Seq(Tokens) /\ Len(u) = a - 1 /\ \A j \in 1 .. a - 1 : u[j] = f[j]
      /\ v \in Seq(Tokens) /\ Len(v) = Len(f) - b + 1
      /\ \A j \in 1 .. Len(f) - b + 1 : v[j] = f[b + j - 1]
  <2>1. b \in 1 .. Len(f) + 1
    BY <1>1
  <2> QED
    BY <2>1, Parts
<1> HIDE DEF u, v
<1>3. /\ c \in Seq(Tokens) /\ Len(c) = Len(u) + Len(x)
      /\ \A j \in 1 .. Len(u) + Len(x) : c[j] = IF j <= Len(u) THEN u[j] ELSE x[j - Len(u)]
  BY <1>2, ConcatProperties
<1> HIDE DEF c
<1>4. /\ g \in Seq(Tokens) /\ Len(g) = Len(c) + Len(v)
      /\ \A j \in 1 .. Len(c) + Len(v) : g[j] = IF j <= Len(c) THEN c[j] ELSE v[j - Len(c)]
  <2>1. c \in Seq(Tokens) /\ v \in Seq(Tokens)
    BY <1>2, <1>3
  <2> QED
    BY <2>1, ConcatProperties
<1> HIDE DEF g, n
<1>5. /\ Len(u) = a - 1 /\ Len(c) = a - 1 + n /\ Len(v) = Len(f) - b + 1
      /\ Len(g) = a - 1 + n + (Len(f) - b + 1)
  BY <1>2, <1>3, <1>4 DEF n
<1>6. DOMAIN g = 1 .. Len(g)
  BY <1>4, LenProperties
<1>7. ASSUME NEW k \in DOMAIN g, k < a PROVE k \in DOMAIN f /\ g[k] = f[k]
  <2>1. k \in 1 .. a - 1 /\ k <= Len(u) /\ k <= Len(c) /\ k \in DOMAIN f
    BY <1>1, <1>5, <1>6, <1>7
  <2>2. k \in 1 .. Len(u) + Len(x) /\ k \in 1 .. Len(c) + Len(v)
    BY <1>1, <1>3, <1>4, <1>5, <1>6, <2>1 DEF n
  <2> QED
    BY <1>2, <1>3, <1>4, <2>1, <2>2
<1>8. ASSUME NEW k \in DOMAIN g, ~(k < a), k < a + n PROVE \E l \in DOMAIN x : g[k] = x[l]
  <2>1. ~(k <= Len(u)) /\ k <= Len(c) /\ k - Len(u) \in DOMAIN x
    BY <1>1, <1>5, <1>6, <1>8
  <2>2. k \in 1 .. Len(u) + Len(x) /\ k \in 1 .. Len(c) + Len(v)
    BY <1>1, <1>3, <1>4, <1>5, <1>6, <2>1 DEF n
  <2> QED
    BY <1>3, <1>4, <2>1, <2>2
<1>9. ASSUME NEW k \in DOMAIN g, ~(k < a), ~(k < a + n)
      PROVE  k - (a + n) + b \in b .. Len(f) /\ g[k] = f[k - (a + n) + b]
  <2>0. k \in Nat /\ k >= 1 /\ k <= a - 1 + n + (Len(f) - b + 1) /\ k >= a + n
    BY <1>1, <1>5, <1>6, <1>9
  <2>1. ~(k <= Len(c)) /\ k <= Len(c) + Len(v) /\ Len(c) \in Nat /\ Len(v) \in Nat
    BY <1>1, <1>5, <2>0
  <2>2. k \in 1 .. Len(c) + Len(v)
    BY <2>0, <2>1
  <2>3. k - Len(c) >= 1 /\ k - Len(c) <= Len(f) - b + 1 /\ k - Len(c) \in Int
    BY <1>1, <1>5, <2>0, <2>1
  <2>4. k - Len(c) \in 1 .. Len(f) - b + 1
    BY <1>1, <2>3
  <2>5. k - (a + n) + b >= b /\ k - (a + n) + b <= Len(f) /\ k - (a + n) + b \in Int
    BY <1>1, <2>0
  <2>6. k - (a + n) + b = b + (k - Len(c)) - 1
    BY <1>1, <1>5, <2>0
  <2>7. /\ ~(k <= Len(c)) /\ k \in 1 .. Len(c) + Len(v) /\ k - Len(c) \in 1 .. Len(f) - b + 1
        /\ k - (a + n) + b \in b .. Len(f) /\ k - (a + n) + b = b + (k - Len(c)) - 1
    BY <1>1, <2>1, <2>2, <2>4, <2>5, <2>6
  <2>8. g[k] = v[k - Len(c)]
    BY <1>4, <2>7
  <2>9. v[k - Len(c)] = f[b + (k - Len(c)) - 1]
    BY <1>2, <2>7
  <2> QED
    BY <2>7, <2>8, <2>9
<1>10. \A k \in DOMAIN g : m[k] = 0 <=> ~(k < a) /\ k < a + n
  BY <1>1, <1>6
<1>11. ASSUME NEW k \in DOMAIN g, m[k] # 0
       PROVE  /\ m[k] \in DOMAIN f /\ g[k] = f[m[k]]
              /\ \/ k < a /\ m[k] = k
                 \/ k >= a + n /\ m[k] = k - (a + n) + b /\ m[k] >= b
  <2>1. CASE k < a
    BY <1>7, <2>1
  <2>2. CASE ~(k < a)
    <3>1. ~(k < a + n) /\ m[k] = k - (a + n) + b
      BY <1>10, <1>11, <2>2
    <3>2. k - (a + n) + b \in b .. Len(f) /\ g[k] = f[k - (a + n) + b]
      BY <1>9, <2>2, <3>1
    <3> QED
      BY <1>1, <1>6, <3>1, <3>2
  <2> QED
    BY <2>1, <2>2
<1>12. ASSUME NEW i \in DOMAIN f, i < a \/ i >= b PROVE \E k \in DOMAIN g : m[k] = i
  <2>1. CASE i < a
    BY <1>1, <1>5, <1>6, <2>1
  <2>2. CASE ~(i < a)
    <3> DEFINE k == a + n + (i - b)
    <3>1. i \in Nat /\ b <= i /\ i <= Len(f)
      BY <1>1, <1>12, <2>2
    <3>2. k \in 1 .. (a - 1 + n + (Len(f) - b + 1)) /\ ~(k < a + n) /\ ~(k < a)
          /\ k - (a + n) + b = i
      BY <1>1, <3>1
    <3> HIDE DEF k
    <3>3. k \in DOMAIN g
      BY <1>5, <1>6, <3>2
    <3> QED
      BY <3>2, <3>3
  <2> QED
    BY <2>1, <2>2
<1> HIDE DEF m
<1>13. Spliced(f, g, a, b, x, m)
  <2>1. \A k \in DOMAIN g : m[k] = 0 => \E l \in DOMAIN x : g[k] = x[l]
    BY <1>8, <1>10
  <2>2. Len(x) = 1 => \A k, l \in DOMAIN g : m[k] = 0 /\ m[l] = 0 => k = l
    BY <1>1, <1>6, <1>10 DEF n
  <2>3. \A k \in DOMAIN g : m[k] # 0 =>
          m[k] \in DOMAIN f /\ g[k] = f[m[k]] /\ (m[k] < a \/ m[k] >= b)
    BY <1>11
  <2>4. ASSUME NEW k \in DOMAIN g, NEW l \in DOMAIN g, m[k] # 0, m[l] # 0, k < l
        PROVE  m[k] < m[l]
    <3>1. /\ \/ k < a /\ m[k] = k
             \/ k >= a + n /\ m[k] = k - (a + n) + b /\ m[k] >= b
          /\ \/ l < a /\ m[l] = l
             \/ l >= a + n /\ m[l] = l - (a + n) + b /\ m[l] >= b
      BY <1>11, <2>4
    <3>2. k \in Int /\ l \in Int /\ n \in Nat /\ a \in Nat /\ b \in Nat /\ a <= b
      BY <1>1, <1>6
    <3> QED
      BY <2>4, <3>1, <3>2
  <2>5. ASSUME NEW k \in DOMAIN g, NEW l \in DOMAIN g, m[k] = 0, m[l] # 0
        PROVE  (m[l] < a => l < k) /\ (m[l] >= b => k < l)
    <3>1. /\ ~(k < a) /\ k < a + n
          /\ \/ l < a /\ m[l] = l
             \/ l >= a + n /\ m[l] = l - (a + n) + b /\ m[l] >= b
      BY <1>10, <1>11, <2>5
    <3>2. k \in Int /\ l \in Int /\ n \in Nat /\ a \in Nat /\ b \in Nat /\ a <= b
      BY <1>1, <1>6
    <3> QED
      BY <3>1, <3>2
  <2> QED
    BY <2>1, <2>2, <2>3, <2>4, <2>5, <1>12 DEF Spliced
<1> QED
  BY <1>4, <1>13 DEF g, c, u, v

\* Before the end of a file is all of it, and from there nothing.
LEMMA NothingAfter ==
  ASSUME NEW f \in Seq(Tokens)
  PROVE  /\ Len(f) + 1 \in 1 .. Len(f) + 1
         /\ Before(f, Len(f) + 1) = f /\ From(f, Len(f) + 1) = << >>
<1>1. Len(f) \in Nat /\ DOMAIN f = 1 .. Len(f)
  BY LenProperties
<1>2. PICK n \in 1 .. Len(f) + 1 : n = Len(f) + 1
  BY <1>1
<1>3. n - 1 = Len(f) /\ Len(f) - n + 1 = 0
  BY <1>1, <1>2
<1>4. /\ Len(Before(f, n)) = n - 1 /\ Before(f, n) \in Seq(Tokens)
      /\ \A j \in 1 .. n - 1 : Before(f, n)[j] = f[j]
      /\ Len(From(f, n)) = Len(f) - n + 1 /\ From(f, n) \in Seq(Tokens)
  BY Parts
<1>5. /\ Len(Before(f, n)) = Len(f) /\ \A j \in 1 .. Len(f) : Before(f, n)[j] = f[j]
      /\ Len(From(f, n)) = 0
  BY <1>3, <1>4
<1>6. Before(f, n) = f
  BY <1>4, <1>5, SeqEqual
<1>7. From(f, n) = << >>
  BY <1>4, <1>5, EmptySeq
<1> QED
  BY <1>2, <1>6, <1>7

\* The addendum takes the place of the old one and of all that follows it.
LEMMA AddendumSplices ==
  ASSUME NEW f \in Seq(Tokens), Ordered(f), NEW r \in Releases
  PROVE  \E a \in 1 .. Len(f) + 1 :
           /\ Addendum(f, r) = Before(f, a) \o <<Company(r)>> \o From(f, Len(f) + 1)
           /\ \A i \in DOMAIN f : i >= a => \E c \in Places(f, "company") : c <= i
<1>1. DOMAIN f = 1 .. Len(f) /\ Len(f) \in Nat
  BY LenProperties
<1>2. Company(r) \in Tokens
  BY TokenKinds
<1>3. ASSUME NEW u \in Seq(Tokens)
      PROVE  Append(u, Company(r)) = u \o <<Company(r)>> \o From(f, Len(f) + 1)
  <2>1. <<Company(r)>> \in Seq(Tokens)
    BY <1>2
  <2>2. u \o <<Company(r)>> \in Seq(Tokens) /\ Append(u, Company(r)) = u \o <<Company(r)>>
    BY <1>2, <2>1, AppendIsConcat, ConcatProperties
  <2>3. u \o <<Company(r)>> \o << >> = u \o <<Company(r)>>
    BY <2>2, ConcatEmptySeq
  <2> QED
    BY <2>2, <2>3, NothingAfter
<1>4. CASE Has(f, "company")
  <2> DEFINE c == Find(f, "company")
  <2>1. c \in 1 .. Len(f) /\ f[c].kind = "company"
    BY <1>4, Found
  <2>2. Addendum(f, r) = Append(Before(f, c), Company(r))
    BY <1>4 DEF Addendum
  <2> HIDE DEF c
  <2>3. c \in 1 .. Len(f) + 1 /\ c \in Places(f, "company")
    BY <1>1, <2>1 DEF Places
  <2>4. Before(f, c) \in Seq(Tokens)
    BY <2>3, Parts
  <2>5. Addendum(f, r) = Before(f, c) \o <<Company(r)>> \o From(f, Len(f) + 1)
    BY <1>3, <2>2, <2>4
  <2>6. \A i \in DOMAIN f : i >= c => c <= i
    BY <1>1, <2>1
  <2> QED
    BY <2>3, <2>5, <2>6
<1>5. CASE ~Has(f, "company")
  <2>1. Addendum(f, r) = Append(f, Company(r))
    BY <1>5 DEF Addendum
  <2>2. Addendum(f, r) = Before(f, Len(f) + 1) \o <<Company(r)>> \o From(f, Len(f) + 1)
    BY <1>3, <2>1, NothingAfter
  <2>3. \A i \in DOMAIN f : ~(i >= Len(f) + 1)
    BY <1>1
  <2> QED
    BY <2>2, <2>3, NothingAfter
<1> QED
  BY <1>4, <1>5

\* The block takes the place of what a script may take out, before the addendum.
LEMMA UpsertSplices ==
  ASSUME NEW f \in Seq(Tokens), Ordered(f), Tidy(f)
  PROVE  \E a \in 1 .. Len(f) + 1 : \E b \in a .. Len(f) + 1 :
           /\ Upsert(f) = Before(f, a) \o Block \o From(f, b)
           /\ \A i \in Places(f, "company") : i >= b
           /\ \A i \in DOMAIN f :
                f[i].kind = "text" /\ ~(i < a) /\ ~(i >= b) => MayGo(f, "script", i)
<1> DEFINE s == Find(f, "start")
           e == Find(f, "end")
           after == {i \in Places(f, "company") : Has(f, "start") => i > s}
           c == Min(after)
           rest == IF after = {} THEN << >> ELSE From(f, c)
           b2 == IF after = {} THEN Len(f) + 1 ELSE c
<1>1. DOMAIN f = 1 .. Len(f) /\ Len(f) \in Nat
  BY LenProperties
<1>2. after = Places(f, "company")
  <2>1. ASSUME Has(f, "start"), NEW i \in Places(f, "company") PROVE i > s
    <3>1. s \in DOMAIN f /\ f[s].kind = "start" /\ i \in DOMAIN f /\ f[i].kind = "company"
      BY <1>1, <2>1, Found DEF Places
    <3>2. s < i
      BY <3>1 DEF Ordered
    <3> QED
      BY <1>1, <3>1, <3>2
  <2> QED
    BY <2>1
<1>3. /\ after # {} => c \in 1 .. Len(f) /\ c \in Places(f, "company")
      /\ \A i \in Places(f, "company") : i >= b2
  <2>1. after \in SUBSET Nat
    BY <1>1 DEF Places
  <2>2. after # {} => c \in after /\ \A i \in after : c <= i
    <3> HIDE DEF after
    <3> QED
      BY <2>1, MinIsLeast
  <2>3. after # {} => c \in 1 .. Len(f) /\ c \in Places(f, "company")
    BY <1>1, <2>2 DEF Places
  <2>4. ASSUME NEW i \in Places(f, "company") PROVE i >= b2
    <3>1. i \in after /\ i \in Nat
      BY <1>2, <2>1, <2>4
    <3>2. c <= i /\ b2 = c /\ c \in Nat
      <4> HIDE DEF c, after
      <4> QED
        BY <2>2, <2>1, <3>1
    <3> QED
      BY <3>1, <3>2
  <2> QED
    BY <2>3, <2>4
<1>4. b2 \in 1 .. Len(f) + 1 /\ rest = From(f, b2)
  <2> HIDE DEF c, after
  <2> QED
    BY <1>1, <1>3, NothingAfter
<1> HIDE DEF b2, rest
<1>5. CASE Has(f, "start") /\ Has(f, "end") /\ e > s
  <2>1. s \in 1 .. Len(f) /\ f[s].kind = "start" /\ e \in 1 .. Len(f) /\ f[e].kind = "end"
    BY <1>5, Found
  <2>2. Upsert(f) = Before(f, s) \o Block \o From(f, e + 1)
    BY <1>5 DEF Upsert
  <2>3. \A y \in Places(f, "end") : e <= y
    <3>1. Places(f, "end") \in SUBSET Nat /\ Places(f, "end") # {}
      BY <1>1, <1>5 DEF Places, Has
    <3> QED
      BY <3>1, MinIsLeast DEF Find
  <2> HIDE DEF s, e
  <2>4. s \in 1 .. Len(f) + 1 /\ e + 1 \in s .. Len(f) + 1
    BY <1>1, <1>5, <2>1
  <2>5. ASSUME NEW i \in Places(f, "company") PROVE i > e
    <3>1. i \in DOMAIN f /\ f[i].kind = "company" /\ e \in DOMAIN f
      BY <1>1, <2>1 DEF Places
    <3> QED
      BY <1>1, <2>1, <3>1 DEF Tidy
  <2>6. \A i \in Places(f, "company") : i >= e + 1
    BY <1>1, <2>1, <2>5 DEF Places
  <2>7. ASSUME NEW i \in DOMAIN f, f[i].kind = "text", ~(i < s), ~(i >= e + 1)
        PROVE  MayGo(f, "script", i)
    <3>1. i # s /\ i # e
      BY <2>1, <2>7
    <3>2. s < i /\ i < e
      BY <1>1, <2>1, <2>7, <3>1
    <3>3. s \in Places(f, "start")
      BY <1>1, <2>1 DEF Places
    <3>4. \A y \in Places(f, "end") : i < y
      BY <1>1, <2>1, <2>3, <3>2 DEF Places
    <3>5. \A y \in Places(f, "company") : i < y
      BY <1>1, <2>1, <2>5, <3>2 DEF Places
    <3> QED
      BY <3>2, <3>3, <3>4, <3>5 DEF MayGo
  <2> QED
    BY <2>2, <2>4, <2>6, <2>7
<1>6. CASE Has(f, "start") /\ ~(Has(f, "end") /\ e > s)
  <2>1. s \in 1 .. Len(f) /\ f[s].kind = "start"
    BY <1>6, Found
  <2>2. Upsert(f) = Before(f, s) \o Block \o From(f, b2)
    <3>1. Upsert(f) = Before(f, s) \o Block \o rest
      BY <1>6 DEF Upsert, rest
    <3> QED
      BY <1>4, <3>1
  <2>3. (\A y \in Places(f, "end") : s < y => FALSE) \/ \E y \in Places(f, "end") : y < s
    <3>1. CASE Has(f, "end")
      <4>1. e \in 1 .. Len(f) /\ f[e].kind = "end"
        BY <3>1, Found
      <4>2. e < s
        BY <1>6, <2>1, <3>1, <4>1
      <4> QED
        BY <1>1, <4>1, <4>2 DEF Places
    <3>2. CASE ~Has(f, "end")
      BY <3>2 DEF Has
    <3> QED
      BY <3>1, <3>2
  <2> HIDE DEF s, e
  <2>4. \A y \in Places(f, "company") : s < y
    BY <1>1, <2>1 DEF Places, Ordered
  <2>5. s \in 1 .. Len(f) + 1 /\ b2 \in s .. Len(f) + 1
    <3>1. b2 >= s
      <4>1. CASE after = {}
        BY <1>1, <2>1, <4>1 DEF b2
      <4>2. CASE after # {}
        <5>1. b2 = c /\ s < c
          BY <1>3, <2>4, <4>2 DEF b2
        <5> QED
          BY <1>1, <1>4, <2>1, <5>1
      <4> QED
        BY <4>1, <4>2
    <3> QED
      BY <1>1, <1>4, <2>1, <3>1
  <2>6. ASSUME NEW i \in DOMAIN f, f[i].kind = "text", ~(i < s), ~(i >= b2)
        PROVE  MayGo(f, "script", i)
    <3>1. s < i /\ s \in Places(f, "start")
      <4>1. i # s
        BY <2>1, <2>6
      <4> QED
        BY <1>1, <2>1, <2>6, <4>1 DEF Places
    <3>2. \A y \in Places(f, "company") : i < y
      BY <1>1, <1>3, <1>4, <2>6 DEF Places
    <3> QED
      BY <2>3, <3>1, <3>2 DEF MayGo
  <2> QED
    BY <1>3, <2>2, <2>5, <2>6
<1>7. CASE ~Has(f, "start")
  <2>1. Upsert(f) = Before(f, b2) \o Block \o From(f, b2)
    <3>1. CASE after # {}
      <4>1. Upsert(f) = Before(f, c) \o Block \o rest
        BY <1>7, <3>1 DEF Upsert, rest
      <4>2. b2 = c
        BY <3>1 DEF b2
      <4> QED
        BY <1>4, <4>1, <4>2
    <3>2. CASE after = {}
      <4>1. Upsert(f) = f \o Block
        BY <1>7, <3>2 DEF Upsert
      <4>2. f \o Block \in Seq(Tokens) /\ f \o Block \o << >> = f \o Block
        BY BlockIs, ConcatProperties, ConcatEmptySeq
      <4>3. b2 = Len(f) + 1
        BY <3>2 DEF b2
      <4> QED
        BY <4>1, <4>2, <4>3, NothingAfter
    <3> QED
      BY <3>1, <3>2
  <2>2. b2 \in b2 .. Len(f) + 1
    BY <1>1, <1>4
  <2>3. \A i \in DOMAIN f : i < b2 \/ i >= b2
    BY <1>1, <1>4
  <2> QED
    BY <1>3, <1>4, <2>1, <2>2, <2>3
<1> QED
  BY <1>5, <1>6, <1>7

\* What is put in may have its text only there, its end marker before every
\* addendum that stays, and its addendum only at the end.
LEMMA SpliceTidy ==
  ASSUME NEW f \in Seq(Tokens), Tidy(f), NEW x \in Seq(Tokens),
         NEW a \in 1 .. Len(f) + 1, NEW b \in a .. Len(f) + 1,
         \A l \in DOMAIN x : x[l].kind = "text" => Len(x) = 1 /\ \A i \in DOMAIN f : f[i] # x[l],
         (\E l \in DOMAIN x : x[l].kind = "end") =>
           /\ \A i \in Places(f, "company") : i >= b
           /\ \A l \in DOMAIN x : x[l].kind # "company",
         (\E l \in DOMAIN x : x[l].kind = "company") => b = Len(f) + 1
  PROVE  Tidy(Before(f, a) \o x \o From(f, b))
<1> DEFINE g == Before(f, a) \o x \o From(f, b)
<1>1. g \in Seq(Tokens) /\ \E m : Spliced(f, g, a, b, x, m)
  BY SpliceIs
<1> HIDE DEF g
<1>2. PICK m : Spliced(f, g, a, b, x, m)
  BY <1>1
<1>3. DOMAIN f = 1 .. Len(f) /\ Len(f) \in Nat /\ DOMAIN g \subseteq Nat /\ a \in Nat /\ b \in Nat
      /\ a <= b
  BY <1>1, LenProperties
<1>4. ASSUME NEW i \in DOMAIN g, NEW j \in DOMAIN g, g[i] = g[j], g[i].kind = "text"
      PROVE  i = j
  <2>1. CASE m[i] = 0
    <3>1. PICK l \in DOMAIN x : g[i] = x[l]
      BY <1>2, <2>1 DEF Spliced
    <3>2. Len(x) = 1 /\ \A k \in DOMAIN f : f[k] # g[j]
      BY <1>4, <3>1
    <3>3. m[j] = 0
      BY <1>2, <3>2 DEF Spliced
    <3> QED
      BY <1>2, <2>1, <3>2, <3>3 DEF Spliced
  <2>2. CASE m[j] = 0
    <3>1. PICK l \in DOMAIN x : g[j] = x[l]
      BY <1>2, <2>2 DEF Spliced
    <3>2. Len(x) = 1 /\ \A k \in DOMAIN f : f[k] # g[i]
      BY <1>4, <3>1
    <3>3. m[i] = 0
      BY <1>2, <3>2 DEF Spliced
    <3> QED
      BY <1>2, <2>2, <3>2, <3>3 DEF Spliced
  <2>3. CASE m[i] # 0 /\ m[j] # 0
    <3>1. m[i] \in DOMAIN f /\ g[i] = f[m[i]] /\ m[j] \in DOMAIN f /\ g[j] = f[m[j]]
      BY <1>2, <2>3 DEF Spliced
    <3>2. m[i] = m[j]
      BY <1>4, <3>1 DEF Tidy
    <3>3. ~(i < j) /\ ~(j < i)
      <4>1. ~(m[i] < m[j]) /\ ~(m[j] < m[i])
        BY <1>3, <3>1, <3>2
      <4> QED
        BY <1>2, <2>3, <4>1 DEF Spliced
    <3> QED
      BY <1>3, <3>3
  <2> QED
    BY <2>1, <2>2, <2>3
<1>5. ASSUME NEW i \in DOMAIN g, NEW j \in DOMAIN g, g[i].kind = "end", g[j].kind = "company"
      PROVE  i < j
  <2>1. CASE m[i] = 0
    <3>1. PICK l \in DOMAIN x : g[i] = x[l]
      BY <1>2, <2>1 DEF Spliced
    <3>2. (\A k \in Places(f, "company") : k >= b) /\ \A k \in DOMAIN x : x[k].kind # "company"
      BY <1>5, <3>1
    <3>3. m[j] # 0
      BY <1>2, <1>5, <3>2 DEF Spliced
    <3>4. m[j] \in Places(f, "company")
      BY <1>2, <1>5, <3>3 DEF Spliced, Places
    <3> QED
      BY <1>2, <2>1, <3>2, <3>3, <3>4 DEF Spliced
  <2>2. CASE m[i] # 0 /\ m[j] = 0
    <3>1. PICK l \in DOMAIN x : g[j] = x[l]
      BY <1>2, <2>2 DEF Spliced
    <3>2. b = Len(f) + 1
      BY <1>5, <3>1
    <3>3. m[i] \in DOMAIN f /\ (m[i] < a \/ m[i] >= b)
      BY <1>2, <2>2 DEF Spliced
    <3>4. m[i] < a
      BY <1>3, <3>2, <3>3
    <3> QED
      BY <1>2, <2>2, <3>4 DEF Spliced
  <2>3. CASE m[i] # 0 /\ m[j] # 0
    <3>1. m[i] \in DOMAIN f /\ g[i] = f[m[i]] /\ m[j] \in DOMAIN f /\ g[j] = f[m[j]]
      BY <1>2, <2>3 DEF Spliced
    <3>2. m[i] < m[j]
      BY <1>5, <3>1 DEF Tidy
    <3>3. ~(m[j] < m[i]) /\ m[i] # m[j]
      BY <1>3, <3>1, <3>2
    <3>4. ~(j < i) /\ i # j
      BY <1>2, <2>3, <3>3 DEF Spliced
    <3> QED
      BY <1>3, <3>4
  <2> QED
    BY <2>1, <2>2, <2>3
<1>6. Tidy(g)
  BY <1>4, <1>5 DEF Tidy
<1> QED
  BY <1>6 DEF g

LEMMA CompanyIs ==
  ASSUME NEW r \in Releases
  PROVE  /\ <<Company(r)>> \in Seq(Tokens) /\ DOMAIN <<Company(r)>> = {1}
         /\ <<Company(r)>>[1].kind = "company"
<1>1. Company(r) \in Tokens /\ Company(r).kind = "company"
  BY TokenKinds
<1> QED
  BY <1>1

LEMMA BlockKinds == DOMAIN Block = {1, 2} /\ \A l \in DOMAIN Block : Block[l].kind \in {"start", "end"}
<1>1. DOMAIN Block = 1 .. 2
  BY BlockIs, LenProperties
<1> QED
  BY <1>1, BlockIs

LEMMA AddendumTidy ==
  ASSUME NEW f \in Seq(Tokens), Ordered(f), Tidy(f), NEW r \in Releases
  PROVE  Tidy(Addendum(f, r))
<1>1. PICK a \in 1 .. Len(f) + 1 :
        Addendum(f, r) = Before(f, a) \o <<Company(r)>> \o From(f, Len(f) + 1)
  BY AddendumSplices
<1> DEFINE x == <<Company(r)>>
<1>2. x \in Seq(Tokens) /\ DOMAIN x = {1} /\ x[1].kind = "company"
  BY CompanyIs
<1>3. Len(f) + 1 \in a .. Len(f) + 1
  BY LenProperties
<1> HIDE DEF x
<1>4. \A l \in DOMAIN x : x[l].kind = "company"
  BY <1>2
<1>5. Tidy(Before(f, a) \o x \o From(f, Len(f) + 1))
  BY <1>2, <1>3, <1>4, SpliceTidy
<1> QED
  BY <1>1, <1>5 DEF x

LEMMA UpsertTidy ==
  ASSUME NEW f \in Seq(Tokens), Ordered(f), Tidy(f)
  PROVE  Tidy(Upsert(f))
<1>1. PICK a \in 1 .. Len(f) + 1 : \E b \in a .. Len(f) + 1 :
        /\ Upsert(f) = Before(f, a) \o Block \o From(f, b)
        /\ \A i \in Places(f, "company") : i >= b
  BY UpsertSplices
<1>2. PICK b \in a .. Len(f) + 1 :
        /\ Upsert(f) = Before(f, a) \o Block \o From(f, b)
        /\ \A i \in Places(f, "company") : i >= b
  BY <1>1
<1>3. Block \in Seq(Tokens) /\ \A l \in DOMAIN Block : Block[l].kind \notin {"text", "company"}
  BY BlockIs, BlockKinds
<1> QED
  BY <1>2, <1>3, SpliceTidy

LEMMA TextTidy ==
  ASSUME NEW f \in Seq(Tokens), Tidy(f), NEW i \in 1 .. Len(f) + 1, NEW t \in Texts,
         \A j \in DOMAIN f : f[j] # Text(t)
  PROVE  Tidy(Before(f, i) \o <<Text(t)>> \o From(f, i))
<1> DEFINE x == <<Text(t)>>
<1>1. x \in Seq(Tokens) /\ Len(x) = 1 /\ DOMAIN x = {1} /\ x[1].kind = "text" /\ x[1] = Text(t)
  BY TextIs
<1>2. i \in i .. Len(f) + 1
  BY LenProperties
<1> HIDE DEF x
<1>3. Tidy(Before(f, i) \o x \o From(f, i))
  BY <1>1, <1>2, SpliceTidy
<1> QED
  BY <1>3 DEF x

LEMMA CutTidy ==
  ASSUME NEW f \in Seq(Tokens), Tidy(f), NEW i \in 1 .. Len(f)
  PROVE  Tidy(Before(f, i) \o From(f, i + 1))
<1>1. i \in 1 .. Len(f) + 1 /\ i + 1 \in i .. Len(f) + 1
  BY LenProperties
<1>2. << >> \in Seq(Tokens) /\ DOMAIN << >> = {}
  BY EmptySeq
<1>3. Tidy(Before(f, i) \o << >> \o From(f, i + 1))
  BY <1>1, <1>2, SpliceTidy
<1>4. Before(f, i) \o << >> = Before(f, i)
  BY <1>1, Parts, ConcatEmptySeq
<1> QED
  BY <1>3, <1>4

LEMMA InitTidy == Init => AllTidy
  BY DEF Init, AllTidy

\* A program reads the file, or nothing.
LEMMA ReadTidy ==
  ASSUME Typed, AllTidy, NEW x \in Programs, NEW f, f # Absent => Tidy(f),
         read' = [read EXCEPT ![x] = f]
  PROVE  \A y \in Programs : read'[y] # Absent => Tidy(read'[y])
  BY DEF Typed, AllTidy

LEMMA NoneTidy == Tidy(<< >>)
  BY DEF Tidy

LEMMA NextTidy == Typed /\ AllTidy /\ [Next]_vars => AllTidy'
<1> SUFFICES ASSUME Typed, AllTidy, [Next]_vars PROVE AllTidy'
  OBVIOUS
<1>1. /\ {"refresh", "script", "agent"} = Programs /\ release \in Releases
      /\ file # Absent => file \in Seq(Tokens) /\ Ordered(file) /\ Tidy(file)
      /\ \A x \in Programs : read[x] # Absent =>
           read[x] \in Seq(Tokens) /\ Ordered(read[x]) /\ Tidy(read[x])
  BY DEF Programs, Typed, Good, AllTidy
<1>2. CASE Activate
  <2>1. PICK r \in Releases : file' = IF file = Absent THEN Absent ELSE Addendum(file, r)
    BY <1>2 DEF Activate
  <2>2. file' # Absent => Tidy(file')
    BY <1>1, <2>1, AddendumTidy
  <2> QED
    BY <1>2, <2>2 DEF Activate, AllTidy
<1>3. CASE Boot
  BY <1>3 DEF Boot, AllTidy
<1>4. CASE Shutdown
  BY <1>4 DEF Shutdown, AllTidy
<1>5. CASE RefreshReads \/ ScriptReads \/ AgentReads
  <2>1. PICK x \in Programs, f \in {file, << >>} : read' = [read EXCEPT ![x] = f] /\ file' = file
    <3>1. CASE RefreshReads
      BY <1>1, <3>1 DEF RefreshReads
    <3>2. CASE ScriptReads
      BY <1>1, <3>2 DEF ScriptReads
    <3>3. CASE AgentReads
      BY <1>1, <3>3 DEF AgentReads
    <3> QED
      BY <1>5, <3>1, <3>2, <3>3
  <2>2. f # Absent => Tidy(f)
    BY <1>1, <2>1, NoneTidy
  <2>3. \A y \in Programs : read'[y] # Absent => Tidy(read'[y])
    BY <2>1, <2>2, ReadTidy
  <2> QED
    BY <1>1, <2>1, <2>3 DEF AllTidy
<1>6. CASE RefreshWrites \/ ScriptWrites \/ AgentWrites
  <2>1. PICK x \in Programs : read' = [read EXCEPT ![x] = Absent]
    BY <1>1, <1>6 DEF RefreshWrites, ScriptWrites, AgentWrites
  <2>2. \A y \in Programs : read'[y] # Absent => Tidy(read'[y])
    BY <2>1, ReadTidy
  <2>3. file' # Absent => Tidy(file')
    <3>1. CASE RefreshWrites
      BY <1>1, <3>1, AddendumTidy DEF RefreshWrites
    <3>2. CASE ScriptWrites
      BY <1>1, <3>2, UpsertTidy DEF ScriptWrites
    <3>3. CASE AgentWrites
      <4> DEFINE f == read["agent"]
      <4>1. f \in Seq(Tokens) /\ Tidy(f) /\ DOMAIN f = 1 .. Len(f)
        BY <1>1, <3>3, LenProperties DEF AgentWrites
      <4>2. \/ \E t \in Texts, i \in 1 .. Len(f) + 1 :
                 /\ \A j \in DOMAIN f : f[j] # Text(t)
                 /\ file' = Before(f, i) \o <<Text(t)>> \o From(f, i)
            \/ \E i \in DOMAIN f : file' = Before(f, i) \o From(f, i + 1)
        BY <3>3 DEF AgentWrites
      <4> HIDE DEF f
      <4> QED
        BY <4>1, <4>2, TextTidy, CutTidy
    <3> QED
      BY <1>6, <3>1, <3>2, <3>3
  <2> QED
    BY <2>2, <2>3 DEF AllTidy
<1>7. CASE UNCHANGED vars
  BY <1>7 DEF vars, AllTidy
<1> QED
  BY <1>2, <1>3, <1>4, <1>5, <1>6, <1>7 DEF Next

-----------------------------------------------------------------------------
(* What a rewrite keeps *)

\* What RewritesKeepText says of a program that made g of f.
Keeps(f, g, x) ==
  /\ \A i \in DOMAIN f :
       f[i].kind = "text" /\ ~MayGo(f, x, i) => \E j \in DOMAIN g : g[j] = f[i]
  /\ \A i, j \in DOMAIN f, k, l \in DOMAIN g :
       i < j /\ g[k] = f[i] /\ g[l] = f[j] /\ f[i].kind = "text" /\ f[j].kind = "text" => k < l
  /\ x = "script" => (Has(f, "company") => Has(g, "company"))

LEMMA SpliceKeeps ==
  ASSUME NEW f \in Seq(Tokens), Tidy(f), NEW x \in Seq(Tokens), NEW p,
         NEW a \in 1 .. Len(f) + 1, NEW b \in a .. Len(f) + 1,
         \A l \in DOMAIN x : x[l].kind # "text",
         \A i \in DOMAIN f : f[i].kind = "text" /\ ~(i < a) /\ ~(i >= b) => MayGo(f, p, i),
         p = "script" => \A i \in Places(f, "company") : i >= b
  PROVE  Keeps(f, Before(f, a) \o x \o From(f, b), p)
<1> DEFINE g == Before(f, a) \o x \o From(f, b)
<1>1. g \in Seq(Tokens) /\ \E m : Spliced(f, g, a, b, x, m)
  BY SpliceIs
<1> HIDE DEF g
<1>2. PICK m : Spliced(f, g, a, b, x, m)
  BY <1>1
<1>3. DOMAIN f \subseteq Nat \ {0} /\ DOMAIN g \subseteq Nat
  BY <1>1, LenProperties
<1>4. ASSUME NEW i \in DOMAIN f, i < a \/ i >= b PROVE \E j \in DOMAIN g : g[j] = f[i]
  <2>1. PICK j \in DOMAIN g : m[j] = i
    BY <1>2, <1>4 DEF Spliced
  <2>2. m[j] # 0
    BY <1>3, <2>1
  <2> QED
    BY <1>2, <2>1, <2>2 DEF Spliced
<1>5. ASSUME NEW i \in DOMAIN f, NEW j \in DOMAIN g, g[j] = f[i], f[i].kind = "text"
      PROVE  m[j] = i /\ m[j] # 0
  <2>1. m[j] # 0
    BY <1>2, <1>5 DEF Spliced
  <2>2. m[j] \in DOMAIN f /\ g[j] = f[m[j]]
    BY <1>2, <2>1 DEF Spliced
  <2> QED
    BY <1>5, <2>1, <2>2 DEF Tidy
<1>6. ASSUME NEW i \in DOMAIN f, NEW j \in DOMAIN f, NEW k \in DOMAIN g, NEW l \in DOMAIN g,
             i < j, g[k] = f[i], g[l] = f[j], f[i].kind = "text", f[j].kind = "text"
      PROVE  k < l
  <2>1. m[k] = i /\ m[k] # 0 /\ m[l] = j /\ m[l] # 0
    BY <1>5, <1>6
  <2>2. ~(m[l] < m[k]) /\ m[k] # m[l]
    BY <1>3, <1>6, <2>1
  <2>3. ~(l < k) /\ k # l
    BY <1>2, <2>1, <2>2 DEF Spliced
  <2> QED
    BY <1>3, <2>3
<1>7. ASSUME p = "script", Has(f, "company") PROVE Has(g, "company")
  <2>1. PICK i \in DOMAIN f : f[i].kind = "company" /\ i >= b
    BY <1>7 DEF Has, Places
  <2>2. PICK j \in DOMAIN g : g[j] = f[i]
    BY <1>4, <2>1
  <2> QED
    BY <2>1, <2>2 DEF Has, Places
<1>8. Keeps(f, g, p)
  <2>1. \A i \in DOMAIN f :
          f[i].kind = "text" /\ ~MayGo(f, p, i) => \E j \in DOMAIN g : g[j] = f[i]
    BY <1>4
  <2> QED
    BY <1>6, <1>7, <2>1 DEF Keeps
<1> QED
  BY <1>8 DEF g

LEMMA AddendumKeeps ==
  ASSUME NEW f \in Seq(Tokens), Ordered(f), Tidy(f), NEW r \in Releases
  PROVE  Keeps(f, Addendum(f, r), "refresh")
<1>1. PICK a \in 1 .. Len(f) + 1 :
        /\ Addendum(f, r) = Before(f, a) \o <<Company(r)>> \o From(f, Len(f) + 1)
        /\ \A i \in DOMAIN f : i >= a => \E c \in Places(f, "company") : c <= i
  BY AddendumSplices
<1> DEFINE x == <<Company(r)>>
<1>2. x \in Seq(Tokens) /\ DOMAIN x = {1} /\ x[1].kind = "company"
  BY CompanyIs
<1> HIDE DEF x
<1>3. Len(f) + 1 \in a .. Len(f) + 1
  BY LenProperties
<1>4. \A i \in DOMAIN f : ~(i < a) => MayGo(f, "refresh", i)
  <2>1. \A i \in DOMAIN f : ~(i < a) => i >= a
    BY LenProperties
  <2> QED
    BY <1>1, <2>1 DEF MayGo
<1>5. Keeps(f, Before(f, a) \o x \o From(f, Len(f) + 1), "refresh")
  <2>1. \A l \in DOMAIN x : x[l].kind # "text"
    BY <1>2
  <2> QED
    BY <1>2, <1>3, <1>4, <2>1, SpliceKeeps
<1> QED
  BY <1>1, <1>5 DEF x

LEMMA UpsertKeeps ==
  ASSUME NEW f \in Seq(Tokens), Ordered(f), Tidy(f)
  PROVE  Keeps(f, Upsert(f), "script")
<1>1. PICK a \in 1 .. Len(f) + 1 : \E b \in a .. Len(f) + 1 :
        /\ Upsert(f) = Before(f, a) \o Block \o From(f, b)
        /\ \A i \in Places(f, "company") : i >= b
        /\ \A i \in DOMAIN f :
             f[i].kind = "text" /\ ~(i < a) /\ ~(i >= b) => MayGo(f, "script", i)
  BY UpsertSplices
<1>2. PICK b \in a .. Len(f) + 1 :
        /\ Upsert(f) = Before(f, a) \o Block \o From(f, b)
        /\ \A i \in Places(f, "company") : i >= b
        /\ \A i \in DOMAIN f :
             f[i].kind = "text" /\ ~(i < a) /\ ~(i >= b) => MayGo(f, "script", i)
  BY <1>1
<1>3. Block \in Seq(Tokens) /\ \A l \in DOMAIN Block : Block[l].kind # "text"
  BY BlockIs, BlockKinds
<1> QED
  BY <1>2, <1>3, SpliceKeeps

\* Only its own write ends what a program does while the guest stays awake.
LEMMA WriteKeeps ==
  ASSUME Typed, AllTidy, [Next]_vars, NEW x \in {"refresh", "script"},
         read[x] # Absent, read[x] = file, read'[x] = Absent, awake'
  PROVE  Keeps(file, file', x)
<1>1. x \in Programs /\ file \in Seq(Tokens) /\ Ordered(file) /\ Tidy(file) /\ release \in Releases
  BY DEF Programs, Typed, Good, AllTidy
<1>2. \/ x = "refresh" /\ RefreshWrites
      \/ x = "script" /\ ScriptWrites
  <2>1. ~(UNCHANGED read)
    OBVIOUS
  <2>2. ~(Activate \/ Boot \/ UNCHANGED vars)
    BY <2>1 DEF Activate, Boot, vars
  <2>3. ~Shutdown
    BY DEF Shutdown
  <2>4. ~(RefreshReads \/ ScriptReads \/ AgentReads \/ AgentWrites)
    BY <1>1 DEF Typed, RefreshReads, ScriptReads, AgentReads, AgentWrites
  <2>5. RefreshWrites \/ ScriptWrites
    BY <2>2, <2>3, <2>4 DEF Next
  <2> QED
    BY <1>1, <2>5 DEF Typed, RefreshWrites, ScriptWrites
<1>3. CASE x = "refresh" /\ RefreshWrites
  <2>1. file' = Addendum(file, release)
    BY <1>3 DEF RefreshWrites
  <2> QED
    BY <1>1, <1>3, <2>1, AddendumKeeps
<1>4. CASE x = "script" /\ ScriptWrites
  <2>1. file' = Upsert(file)
    BY <1>4 DEF ScriptWrites
  <2> QED
    BY <1>1, <1>4, <2>1, UpsertKeeps
<1> QED
  BY <1>2, <1>3, <1>4

\* A rewrite of a file nobody touched since it was read loses only what is its
\* own to replace: what _upsert_markdown_block and the refresh take out is one
\* stretch of the file, which ends before the addendum or begins with it.
THEOREM TextsAreSafe == Spec => RewritesKeepText
<1>1. Spec => []AllTidy
  BY InitTidy, NextTidy, AlwaysTyped, PTL DEF Spec
<1>2. ASSUME Typed, AllTidy, [Next]_vars
      PROVE  [\A x \in {"refresh", "script"} :
                read[x] # Absent /\ read[x] = file /\ read'[x] = Absent /\ awake' =>
                  Keeps(file, file', x)]_vars
  BY <1>2, WriteKeeps
<1>3. Spec => [][\A x \in {"refresh", "script"} :
                   read[x] # Absent /\ read[x] = file /\ read'[x] = Absent /\ awake' =>
                     Keeps(file, file', x)]_vars
  BY <1>1, <1>2, AlwaysTyped, PTL DEF Spec
<1> QED
  BY <1>3 DEF RewritesKeepText, Keeps

=============================================================================
