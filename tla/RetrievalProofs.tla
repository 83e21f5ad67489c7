-------------------------- MODULE RetrievalProofs --------------------------
(***************************************************************************)
(* Theorems about the structural index and the retrieval sessions, for any *)
(* number of sessions and any tree, parse, edits, commits and queries that *)
(* the assumptions of Retrieval admit.                                     *)
(***************************************************************************)
EXTENDS Retrieval, FoldTheorems, SequenceTheorems

-----------------------------------------------------------------------------
(* Indexes                                                                 *)

\* An index in memory or on disk: its partitions were made by index_file, each
\* from a file there may be and against some set of known paths.
Good(i) ==
    /\ i.state \in {"absent", "torn", "whole"}
    /\ DOMAIN i.files \subseteq Range(PathOrder)
    /\ \A p \in DOMAIN i.files :
         /\ Indexable(p)
         /\ \E c, K : File(p, c) /\ i.files[p] = FileIndex(p, c, K)

\* An index whose imports were all resolved against its own paths.
Clean(i) ==
    \A p \in DOMAIN i.files : i.files[p] = FileIndex(p, i.files[p].hash, DOMAIN i.files)

RepoInv ==
    /\ \A p \in DOMAIN repo : File(p, repo[p])
    /\ DOMAIN head \subseteq DOMAIN repo

\* What index_file records of a file; only its imports depend on the known paths.
LEMMA FileIndexFields ==
    ASSUME NEW p, NEW c, NEW K
    PROVE  /\ FileIndex(p, c, K).path = p
           /\ FileIndex(p, c, K).hash = c
           /\ FileIndex(p, c, K).symbols = Extract(p, c, DetectLanguage(p).variant).symbols
           /\ FileIndex(p, c, K).references = Extract(p, c, DetectLanguage(p).variant).references
BY DEF FileIndex

\* No index file, and half an index file, hold no partition.
LEMMA EmptyIndexes ==
    /\ Good(NoIndex) /\ Clean(NoIndex) /\ NoIndex.state = "absent"
    /\ Good(Torn) /\ Clean(Torn) /\ Torn.state = "torn"
BY DEF Good, Clean, NoIndex, Torn, NoFiles

\* build() makes a good index whose imports are resolved against its own paths.
LEMMA BuildIsClean ==
    ASSUME RepoInv
    PROVE  /\ Good(Whole(Build(repo))) /\ Clean(Whole(Build(repo)))
           /\ Whole(Build(repo)).state = "whole"
<1> DEFINE i == Whole(Build(repo))
<1>1. i.state = "whole" /\ i.files = Build(repo)
  BY DEF Whole
<1>2. DOMAIN i.files = Discover(repo)
  BY <1>1 DEF Build
<1>3. ASSUME NEW p \in Discover(repo)
      PROVE  /\ Indexable(p) /\ File(p, repo[p]) /\ p \in Range(PathOrder)
             /\ i.files[p] = FileIndex(p, repo[p], Discover(repo))
             /\ i.files[p].hash = repo[p]
  <2>1. Indexable(p) /\ File(p, repo[p])
    BY <1>3 DEF Discover, RepoInv
  <2>2. i.files[p] = FileIndex(p, repo[p], Discover(repo))
    BY <1>1 DEF Build, IndexFile
  <2> QED BY <2>1, <2>2, FileIndexFields DEF File
<1> HIDE DEF i
<1>4. Good(i)
  BY <1>1, <1>2, <1>3 DEF Good
<1>5. Clean(i)
  BY <1>2, <1>3, Zenon DEF Clean
<1> QED BY <1>1, <1>4, <1>5 DEF i

\* reindex_file keeps an index good, and clean too if it knew the path already.
LEMMA ReindexKeeps ==
    ASSUME RepoInv, NEW i, Good(i), NEW p \in DOMAIN repo, Indexable(p)
    PROVE  /\ Good(Whole(ReindexFile(i.files, repo, p)))
           /\ Whole(ReindexFile(i.files, repo, p)).state = "whole"
           /\ Clean(i) /\ p \in DOMAIN i.files =>
                Clean(Whole(ReindexFile(i.files, repo, p)))
<1> DEFINE fi == FileIndex(p, repo[p], DOMAIN i.files \cup {p})
           j == Whole(ReindexFile(i.files, repo, p))
<1>1. fi.path = p /\ fi.hash = repo[p]
  BY FileIndexFields
<1>2. /\ j.state = "whole"
      /\ j.files = [q \in DOMAIN i.files \cup {p} |-> IF q = p THEN fi ELSE i.files[q]]
  BY <1>1 DEF Whole, ReindexFile, PutFile, IndexFile
<1>3. File(p, repo[p]) /\ p \in Range(PathOrder)
  BY DEF RepoInv, File
<1>4. Good(j)
  <2>1. DOMAIN j.files = DOMAIN i.files \cup {p}
    BY <1>2
  <2>2. ASSUME NEW q \in DOMAIN j.files
        PROVE  Indexable(q) /\ \E c, K : File(q, c) /\ j.files[q] = FileIndex(q, c, K)
    <3>1. CASE q = p
      <4>1. j.files[q] = fi
        BY <1>2, <2>1, <3>1
      <4> QED BY <1>3, <3>1, <4>1
    <3>2. CASE q # p
      <4>1. j.files[q] = i.files[q] /\ q \in DOMAIN i.files
        BY <1>2, <2>1, <3>2
      <4> HIDE DEF j
      <4> QED BY <4>1 DEF Good
    <3> QED BY <3>1, <3>2
  <2>3. DOMAIN i.files \subseteq Range(PathOrder)
    BY DEF Good
  <2> HIDE DEF j
  <2> QED BY <1>2, <1>3, <2>1, <2>2, <2>3 DEF Good
<1>5. ASSUME Clean(i), p \in DOMAIN i.files PROVE Clean(j)
  <2>1. DOMAIN j.files = DOMAIN i.files /\ DOMAIN i.files \cup {p} = DOMAIN i.files
    BY <1>2, <1>5
  <2>2. ASSUME NEW q \in DOMAIN i.files
        PROVE  j.files[q] = FileIndex(q, j.files[q].hash, DOMAIN i.files)
    <3>1. CASE q = p
      <4>1. j.files[q] = fi
        BY <1>2, <2>1, <3>1
      <4>2. fi = FileIndex(p, repo[p], DOMAIN i.files)
        BY <2>1
      <4>3. j.files[q].hash = repo[p]
        BY <1>1, <4>1
      <4> HIDE DEF j, fi
      <4> QED BY <3>1, <4>1, <4>2, <4>3
    <3>2. CASE q # p
      <4>1. j.files[q] = i.files[q]
        BY <1>2, <3>2
      <4> HIDE DEF j
      <4> QED BY <1>5, <4>1 DEF Clean
    <3> QED BY <3>1, <3>2
  <2> HIDE DEF j
  <2> QED BY <2>1, <2>2, Zenon DEF Clean
<1> QED BY <1>2, <1>4, <1>5

-----------------------------------------------------------------------------
(* The price of a text                                                     *)

LineSet == [bytes : Nat, secret : Nat, word : Nat, opens : BOOLEAN]

\* redact's size is the sum of the redacted sizes of the lines.
LEMMA RedactIsSum ==
    ASSUME NEW ls, IsFiniteSet(DOMAIN ls), NEW f \in [DOMAIN ls -> Int],
           \A j \in DOMAIN ls : f[j] = RedactedLine(ls, j)
    PROVE  redact(ls) = SumOf(f, DOMAIN ls)
<1> DEFINE S == DOMAIN ls
           Rec(h) == h = [s \in SUBSET S |->
                            IF s = {} THEN 0
                            ELSE LET x == CHOOSE x \in s : TRUE
                                 IN  RedactedLine(ls, x) + h[s \ {x}]]
<1>1. redact(ls) = (CHOOSE h : Rec(h))[S]
  BY DEF redact, MapThenSumSet, MapThenFoldSet
<1>2. ASSUME NEW h PROVE Rec(h) <=> Sums(h, f, S)
  <2>1. ASSUME NEW s \in SUBSET S, s # {}
        PROVE  RedactedLine(ls, CHOOSE x \in s : TRUE) = f[CHOOSE x \in s : TRUE]
    <3>1. (CHOOSE x \in s : TRUE) \in s
      BY <2>1
    <3> QED BY <3>1
  <2>2. [s \in SUBSET S |-> IF s = {} THEN 0
                            ELSE LET x == CHOOSE x \in s : TRUE
                                 IN  RedactedLine(ls, x) + h[s \ {x}]]
        = [s \in SUBSET S |-> IF s = {} THEN 0
                              ELSE LET x == CHOOSE x \in s : TRUE IN f[x] + h[s \ {x}]]
    BY <2>1
  <2> QED BY <2>2 DEF Sums
<1> DEFINE e == CHOOSE h : Rec(h)
<1>3. PICK h : Sums(h, f, S)
  BY SumIs
<1>4. Rec(h)
  BY <1>2, <1>3
<1>5. Rec(e)
  <2> HIDE DEF Rec
  <2> QED BY <1>4
<1>6. Sums(e, f, S)
  BY <1>2, <1>5
<1>7. e[S] = SumOf(f, S)
  <2> HIDE DEF e, S
  <2> QED BY <1>6, SumIs DEF S
<1> QED BY <1>1, <1>7

\* A word that continues a secret within a window of a text does so in the text.
LEMMA WindowLines ==
    ASSUME NEW ls \in Seq(LineSet), NEW m \in Int, 1 <= m, NEW n \in Int, n <= Len(ls)
    PROVE  /\ SubSeq(ls, m, n) \in Seq(LineSet)
           /\ DOMAIN SubSeq(ls, m, n) = 1 .. (n - m + 1)
           /\ \A j \in 1 .. (n - m + 1) :
                /\ j + (m - 1) \in DOMAIN ls
                /\ SubSeq(ls, m, n)[j] = ls[j + (m - 1)]
                /\ Continues(SubSeq(ls, m, n), j) => Continues(ls, j + (m - 1))
<1> DEFINE sub == SubSeq(ls, m, n)
<1>0. DOMAIN ls = 1 .. Len(ls) /\ Len(ls) \in Nat
  OBVIOUS
<1>1. \A i \in m .. n : ls[i] \in LineSet
  BY <1>0
<1>2. /\ sub \in Seq(LineSet) /\ Len(sub) = IF m <= n THEN n - m + 1 ELSE 0
      /\ \A i \in 1 .. (n - m + 1) : sub[i] = ls[m + i - 1]
  BY <1>1, SubSeqProperties
<1> HIDE DEF sub
<1>3. DOMAIN sub = 1 .. (n - m + 1)
  BY <1>2
<1>4. ASSUME NEW j \in 1 .. (n - m + 1)
      PROVE  j + (m - 1) \in DOMAIN ls /\ sub[j] = ls[j + (m - 1)]
  <2>1. m + j - 1 = j + (m - 1)
    OBVIOUS
  <2> QED BY <1>0, <1>2, <2>1
<1>5. ASSUME NEW j \in 1 .. (n - m + 1), Continues(sub, j)
      PROVE  Continues(ls, j + (m - 1))
  <2>1. PICK i \in 1 .. (j - 1) :
          sub[i].opens /\ \A k \in (i + 1) .. (j - 1) : sub[k].word = 0
    BY <1>5 DEF Continues
  <2>2. ls[j + (m - 1)].word > 0
    BY <1>4, <1>5 DEF Continues
  <2>3. i \in 1 .. (n - m + 1) /\ i + (m - 1) \in 1 .. (j + (m - 1) - 1)
    OBVIOUS
  <2>4. ls[i + (m - 1)].opens
    BY <1>4, <2>1, <2>3
  <2>5. ASSUME NEW k \in (i + (m - 1) + 1) .. (j + (m - 1) - 1) PROVE ls[k].word = 0
    <3>1. k - (m - 1) \in (i + 1) .. (j - 1) /\ k - (m - 1) \in 1 .. (n - m + 1)
      OBVIOUS
    <3>2. sub[k - (m - 1)].word = 0
      BY <2>1, <3>1
    <3>3. sub[k - (m - 1)] = ls[k - (m - 1) + (m - 1)]
      BY <1>4, <3>1
    <3>4. k - (m - 1) + (m - 1) = k
      OBVIOUS
    <3> QED BY <3>2, <3>3, <3>4
  <2> QED BY <2>2, <2>3, <2>4, <2>5 DEF Continues
<1> QED BY <1>2, <1>3, <1>4, <1>5 DEF sub

\* Redaction never makes a line, or a window of a file, shorter than nothing.
LEMMA WindowPrice ==
    ASSUME NEW c \in DOMAIN Lines, NEW m \in Int, 1 <= m, NEW n \in Int, n <= Len(Lines[c])
    PROVE  /\ \A j \in DOMAIN SubSeq(Lines[c], m, n) : RedactedLine(SubSeq(Lines[c], m, n), j) \in Nat
           /\ redact(SubSeq(Lines[c], m, n)) \in Nat
<1> DEFINE ls == Lines[c]
           sub == SubSeq(ls, m, n)
           f == [j \in DOMAIN sub |-> RedactedLine(sub, j)]
<1>0. ls \in Seq(LineSet)
  BY LineAssumption DEF LineSet
<1>1. /\ sub \in Seq(LineSet) /\ DOMAIN sub = 1 .. (n - m + 1)
      /\ \A j \in 1 .. (n - m + 1) :
           /\ j + (m - 1) \in DOMAIN ls
           /\ sub[j] = ls[j + (m - 1)]
           /\ Continues(sub, j) => Continues(ls, j + (m - 1))
  <2> HIDE DEF ls
  <2> QED BY <1>0, WindowLines DEF ls
<1>2. ASSUME NEW j \in DOMAIN sub PROVE RedactedLine(sub, j) \in Nat
  <2> DEFINE l == ls[j + (m - 1)]
  <2>1. j + (m - 1) \in DOMAIN ls /\ sub[j] = l /\ l \in LineSet
    BY <1>0, <1>1
  <2>2. l.secret <= l.bytes /\ (Continues(sub, j) => l.secret + l.word <= l.bytes)
    BY <1>1, <2>1, LineAssumption
  <2>3. l.bytes \in Nat /\ l.secret \in Nat /\ l.word \in Nat
    BY <2>1 DEF LineSet
  <2>4. RedactedLine(sub, j)
          = l.bytes + (IF l.secret > 0 THEN MarkerBytes - l.secret ELSE 0)
                    + (IF Continues(sub, j) THEN MarkerBytes - l.word ELSE 0)
    BY <2>1 DEF RedactedLine
  <2>5. MarkerBytes \in Nat
    BY RetrievalAssumption
  <2> HIDE DEF l, sub
  <2>6. CASE Continues(sub, j)
    <3>1. CASE l.secret > 0
      BY <2>2, <2>3, <2>4, <2>5, <2>6, <3>1
    <3>2. CASE ~(l.secret > 0)
      BY <2>2, <2>3, <2>4, <2>5, <2>6, <3>2
    <3> QED BY <3>1, <3>2
  <2>7. CASE ~Continues(sub, j)
    <3>1. CASE l.secret > 0
      BY <2>2, <2>3, <2>4, <2>5, <2>7, <3>1
    <3>2. CASE ~(l.secret > 0)
      BY <2>2, <2>3, <2>4, <2>5, <2>7, <3>2
    <3> QED BY <3>1, <3>2
  <2> QED BY <2>6, <2>7
<1>3. f \in [DOMAIN sub -> Nat] /\ f \in [DOMAIN sub -> Int]
  BY <1>2
<1>4. IsFiniteSet(DOMAIN sub)
  BY <1>1, FS_Interval, 1 \in Int, n - m + 1 \in Int
<1>5. redact(sub) = SumOf(f, DOMAIN sub)
  <2>1. \A j \in DOMAIN sub : f[j] = RedactedLine(sub, j)
    OBVIOUS
  <2> HIDE DEF f, sub
  <2> QED BY <1>3, <1>4, <2>1, RedactIsSum
<1>6. SumOf(f, DOMAIN sub) \in Nat
  <2>1. DOMAIN sub \in SUBSET (DOMAIN sub)
    OBVIOUS
  <2> HIDE DEF f, sub
  <2> QED BY <1>3, <1>4, <2>1, SumMonotone
<1> QED BY <1>2, <1>5, <1>6

\* Where no line opens a secret, a window of the text is never dearer than the text:
\* every line of it costs the same in both.
LEMMA WindowNeverDearer ==
    ASSUME NEW c \in DOMAIN Lines, \A i \in DOMAIN Lines[c] : ~Lines[c][i].opens,
           NEW m \in Int, 1 <= m, NEW n \in Int, n <= Len(Lines[c])
    PROVE  redact(SubSeq(Lines[c], m, n)) <= redact(SubSeq(Lines[c], 1, Len(Lines[c])))
<1> DEFINE ls == Lines[c]
           sub == SubSeq(ls, m, n)
           f == [j \in DOMAIN ls |-> RedactedLine(ls, j)]
           g == [j \in DOMAIN sub |-> RedactedLine(sub, j)]
<1>0. /\ ls \in Seq(LineSet) /\ Len(ls) \in Nat /\ DOMAIN ls = 1 .. Len(ls)
      /\ SubSeq(ls, 1, Len(ls)) = ls
  BY LineAssumption, SubSeqFull DEF LineSet
<1>1. /\ DOMAIN sub = 1 .. (n - m + 1)
      /\ \A j \in DOMAIN sub : j + (m - 1) \in DOMAIN ls /\ sub[j] = ls[j + (m - 1)]
  <2>1. /\ DOMAIN sub = 1 .. (n - m + 1)
        /\ \A j \in 1 .. (n - m + 1) : j + (m - 1) \in DOMAIN ls /\ sub[j] = ls[j + (m - 1)]
    <3> HIDE DEF ls
    <3> QED BY <1>0, WindowLines DEF ls
  <2> HIDE DEF ls, sub
  <2> QED BY <2>1
<1>2. /\ \A j \in DOMAIN ls : RedactedLine(ls, j) \in Nat
      /\ \A j \in DOMAIN sub : RedactedLine(sub, j) \in Nat
  <2>1. \A j \in DOMAIN SubSeq(Lines[c], 1, Len(Lines[c])) :
          RedactedLine(SubSeq(Lines[c], 1, Len(Lines[c])), j) \in Nat
    BY <1>0, WindowPrice, 1 \in Int, 1 <= 1, Len(ls) \in Int, Len(ls) <= Len(ls)
  <2> QED BY <1>0, <2>1, WindowPrice
<1>3. ASSUME NEW j \in DOMAIN sub
      PROVE  RedactedLine(sub, j) = RedactedLine(ls, j + (m - 1))
  <2>1. ~Continues(ls, j + (m - 1))
    <3>1. \A i \in 1 .. (j + (m - 1) - 1) : i \in DOMAIN ls
      BY <1>0, <1>1
    <3> QED BY <3>1 DEF Continues
  <2>2. ~Continues(sub, j)
    <3> HIDE DEF ls
    <3> QED BY <1>0, <1>1, <2>1, WindowLines DEF ls
  <2>3. sub[j] = ls[j + (m - 1)]
    BY <1>1
  <2> HIDE DEF sub, ls
  <2> QED BY <2>1, <2>2, <2>3 DEF RedactedLine
<1>4. /\ f \in [DOMAIN ls -> Nat] /\ f \in [DOMAIN ls -> Int] /\ g \in [DOMAIN sub -> Int]
      /\ \A j \in DOMAIN ls : f[j] = RedactedLine(ls, j)
      /\ \A j \in DOMAIN sub : g[j] = RedactedLine(sub, j)
  BY <1>2
<1>5. IsFiniteSet(DOMAIN ls) /\ IsFiniteSet(DOMAIN sub)
  BY <1>0, <1>1, FS_Interval, 1 \in Int, n - m + 1 \in Int, Len(ls) \in Int
<1>6. Shifted(g, DOMAIN sub, f, DOMAIN ls, m - 1)
  BY <1>0, <1>1, <1>3, <1>4 DEF Shifted
<1> DEFINE V == DOMAIN sub
           T == DOMAIN ls
           W == {i + (m - 1) : i \in V}
<1>7. W \in SUBSET T /\ T \in SUBSET T
  BY <1>1
<1>8. redact(ls) = SumOf(f, T) /\ redact(sub) = SumOf(g, V)
  <2> HIDE DEF f, g, ls, sub
  <2> QED BY <1>4, <1>5, RedactIsSum
<1> HIDE DEF f, g, ls, sub
<1>9. SumOf(g, V) = SumOf(f, W)
  BY <1>4, <1>5, <1>6, SumShift
<1>10. SumOf(f, W) <= SumOf(f, T)
  <2> HIDE DEF W
  <2> QED BY <1>4, <1>5, <1>7, SumMonotone
<1> QED BY <1>0, <1>8, <1>9, <1>10 DEF ls, sub

-----------------------------------------------------------------------------
(* The price of an answer                                                  *)

\* The values a function takes on a finite set are finitely many.
LEMMA ImageFinite ==
    ASSUME NEW S, IsFiniteSet(S), NEW f
    PROVE  IsFiniteSet({f[x] : x \in S})
<1> DEFINE T == {f[x] : x \in S}
           g == [x \in S |-> f[x]]
<1>1. g \in Surjection(S, T)
  BY DEF Surjection
<1> HIDE DEF g, T
<1>2. IsFiniteSet(T)
  BY <1>1, FS_Surjection
<1> QED BY <1>2 DEF T

\* A finite parse yields finitely many symbols and references.
LEMMA ExtractFinite ==
    ASSUME NEW p, NEW c, File(p, c), Indexable(p)
    PROVE  /\ IsFiniteSet(Extract(p, c, DetectLanguage(p).variant).symbols)
           /\ IsFiniteSet(Extract(p, c, DetectLanguage(p).variant).references)
<1> DEFINE v == DetectLanguage(p).variant
           nodes == Ast[v][c]
<1>0. IsFiniteSet(nodes)
  BY DEF File
<1> HIDE DEF nodes, v
<1>1. IsFiniteSet(PyExtract(p, nodes).symbols) /\ IsFiniteSet(PyExtract(p, nodes).references)
  <2> DEFINE defs == PyDefs(nodes) \union PyVariables(nodes)
             names == {n.nameAt : n \in defs}
             uses == {i \in nodes : i.type = "identifier" /\ i.at \notin names}
             f == [n \in defs |-> Symbol(n, PyKind(n), "python", p)]
             g == [n \in uses |-> Reference(n, "python", p, RefKind(Within(n, PyImports)))]
  <2>1. defs \in SUBSET nodes /\ uses \in SUBSET nodes
    BY DEF PyDefs, PyVariables
  <2>2. IsFiniteSet(defs) /\ IsFiniteSet(uses)
    <3> HIDE DEF defs, uses
    <3> QED BY <1>0, <2>1, FS_Subset
  <2>3. /\ PyExtract(p, nodes).symbols = {f[n] : n \in defs}
        /\ PyExtract(p, nodes).references = {g[n] : n \in uses}
    BY DEF PyExtract
  <2>4. IsFiniteSet({f[n] : n \in defs}) /\ IsFiniteSet({g[n] : n \in uses})
    <3> HIDE DEF defs, uses, f, g
    <3> QED BY <2>2, ImageFinite
  <2> QED BY <2>3, <2>4
<1>2. IsFiniteSet(TsExtract(p, nodes).symbols) /\ IsFiniteSet(TsExtract(p, nodes).references)
  <2> DEFINE defs == {n \in nodes : n.type \in TsDefs /\ n.named}
             names == {n.nameAt : n \in defs}
             uses == {i \in nodes : /\ i.type \in {"identifier", "type_identifier"}
                                    /\ i.at \notin names}
             f == [n \in defs |-> Symbol(n, TsKind(n), "typescript", p)]
             g == [n \in uses |-> Reference(n, "typescript", p,
                                            RefKind(Within(n, {"import_statement"})))]
  <2>1. defs \in SUBSET nodes /\ uses \in SUBSET nodes
    OBVIOUS
  <2>2. IsFiniteSet(defs) /\ IsFiniteSet(uses)
    <3> HIDE DEF defs, uses
    <3> QED BY <1>0, <2>1, FS_Subset
  <2>3. /\ TsExtract(p, nodes).symbols = {f[n] : n \in defs}
        /\ TsExtract(p, nodes).references = {g[n] : n \in uses}
    BY DEF TsExtract
  <2>4. IsFiniteSet({f[n] : n \in defs}) /\ IsFiniteSet({g[n] : n \in uses})
    <3> HIDE DEF defs, uses, f, g
    <3> QED BY <2>2, ImageFinite
  <2> QED BY <2>3, <2>4
<1> QED BY <1>1, <1>2 DEF Extract, nodes, v

\* A good index has finitely many symbols and references.
LEMMA IndexFinite ==
    ASSUME NEW i, Good(i)
    PROVE  /\ IsFiniteSet(AllSymbols(i.files))
           /\ IsFiniteSet(UNION {i.files[p].references : p \in DOMAIN i.files})
<1> DEFINE D == DOMAIN i.files
           f == [p \in D |-> i.files[p].symbols]
           g == [p \in D |-> i.files[p].references]
           Syms == {f[p] : p \in D}
           Refs == {g[p] : p \in D}
<1>1. IsFiniteSet(D)
  BY FileAssumption, FS_Subset DEF Good
<1>2. ASSUME NEW p \in D PROVE IsFiniteSet(f[p]) /\ IsFiniteSet(g[p])
  <2>1. PICK c, K : File(p, c) /\ i.files[p] = FileIndex(p, c, K)
    BY DEF Good
  <2>2. Indexable(p)
    BY DEF Good
  <2>3. /\ i.files[p].symbols = Extract(p, c, DetectLanguage(p).variant).symbols
        /\ i.files[p].references = Extract(p, c, DetectLanguage(p).variant).references
    BY <2>1, FileIndexFields
  <2>4. f[p] = i.files[p].symbols /\ g[p] = i.files[p].references
    OBVIOUS
  <2> HIDE DEF f, g
  <2> QED BY <2>1, <2>2, <2>3, <2>4, ExtractFinite
<1>3. AllSymbols(i.files) = UNION Syms
  BY DEF AllSymbols
<1>4. UNION {i.files[p].references : p \in D} = UNION Refs
  OBVIOUS
<1>5. IsFiniteSet(Syms) /\ IsFiniteSet(Refs)
  <2> HIDE DEF f, g, D
  <2> QED BY <1>1, ImageFinite
<1>6. \A T \in Syms \cup Refs : IsFiniteSet(T)
  <2> HIDE DEF f, g, D
  <2> QED BY <1>2
<1>7. IsFiniteSet(UNION Syms) /\ IsFiniteSet(UNION Refs)
  <2> HIDE DEF Syms, Refs
  <2> QED BY <1>5, <1>6, FS_UNION
<1> QED BY <1>3, <1>4, <1>7

\* A list of n entries has a size.
LEMMA TextNat ==
    ASSUME NEW n \in Nat, NEW size \in Nat
    PROVE  Text(n, size) \in Nat
<1>1. n * size \in Nat
  OBVIOUS
<1> QED BY <1>1 DEF Text

\* Every answer a session computes has a size, so its bill is at least the call's
\* overhead of one: nothing is served for free.
LEMMA ContentNat ==
    ASSUME RepoInv, NEW i, Good(i), NEW q \in Queries, q.prim \in FromIndex \/ Found(q)
    PROVE  Content(i.files, q) \in Nat
<1> USE RetrievalAssumption
<1>0. IsFiniteSet(AllSymbols(i.files))
  BY IndexFinite
<1>1. ASSUME NEW name PROVE NameHits(i.files, name) \in Nat
  <2> DEFINE H == {s \in AllSymbols(i.files) : s.name \in Matches[name]}
  <2>1. H \in SUBSET AllSymbols(i.files)
    OBVIOUS
  <2>2. Cardinality(H) \in Nat
    <3> HIDE DEF H
    <3> QED BY <1>0, <2>1, FS_Subset, FS_CardinalityType
  <2> QED BY <2>2 DEF NameHits, Truncated
<1>2. ASSUME NEW name PROVE Cardinality(ReferencesOf(i.files, name)) \in Nat
  <2> DEFINE All == UNION {i.files[p].references : p \in DOMAIN i.files}
             R == ReferencesOf(i.files, name)
  <2>1. R \in SUBSET All
    BY DEF ReferencesOf
  <2>2. IsFiniteSet(All)
    BY IndexFinite
  <2> HIDE DEF All, R
  <2>3. IsFiniteSet(R)
    BY <2>1, <2>2, FS_Subset
  <2>4. Cardinality(R) \in Nat
    BY <2>3, FS_CardinalityType
  <2> QED BY <2>4 DEF R
<1>3. ASSUME NEW p \in DOMAIN repo, NEW lo \in Int, NEW hi \in Nat
      PROVE  redact(ReadLines(Lines[repo[p]], lo, hi)) \in Nat
  <2> DEFINE c == repo[p]
             m == IF lo < 1 THEN 1 ELSE lo
             n == IF hi = 0 \/ hi > Len(Lines[c]) THEN Len(Lines[c]) ELSE hi
  <2>1. c \in DOMAIN Lines
    BY DEF RepoInv, File
  <2>2. Len(Lines[c]) \in Nat
    BY <2>1, LineAssumption
  <2>3. m \in Int /\ 1 <= m /\ n \in Int /\ n <= Len(Lines[c])
    BY <2>2
  <2>4. ReadLines(Lines[c], lo, hi) = SubSeq(Lines[c], m, n)
    BY DEF ReadLines
  <2>5. redact(SubSeq(Lines[c], m, n)) \in Nat
    <3> HIDE DEF c, m, n
    <3> QED BY <2>1, <2>3, WindowPrice
  <2> QED BY <2>4, <2>5
<1>4. Cardinality(Entries(q.path.parts)) \in Nat
  <2> DEFINE dir == q.path.parts
             D == {r \in DOMAIN repo : IsStrictPrefix(dir, r.parts)}
             f == [r \in D |-> r.parts[Len(dir) + 1]]
  <2>1. D \in SUBSET Range(PathOrder)
    BY DEF RepoInv, File
  <2>2. IsFiniteSet(D)
    <3> HIDE DEF D
    <3> QED BY <2>1, FileAssumption, FS_Subset
  <2>3. Entries(dir) = {f[r] : r \in D}
    BY DEF Entries
  <2>4. IsFiniteSet({f[r] : r \in D})
    <3> HIDE DEF f, D
    <3> QED BY <2>2, ImageFinite
  <2> QED BY <2>3, <2>4, FS_CardinalityType
<1>5. /\ q.prim \in FromIndex \union {"read_span", "read_file", "list_dir"}
      /\ q.lo \in Int /\ q.hi \in Nat
  BY QueryAssumption
<1>6. CASE q.prim \in {"search_symbols", "structural_grep"}
  <2>1. /\ Text(NameHits(i.files, q.name), SymbolBytes) \in Nat
        /\ Text(NameHits(i.files, q.name), SpanBytes) \in Nat
    BY <1>1, TextNat
  <2> QED BY <1>6, <2>1 DEF Content
<1>7. CASE q.prim = "definition"
  BY <1>7 DEF Content
<1>8. CASE q.prim = "references"
  <2>1. Text(Cardinality(ReferencesOf(i.files, q.name)), SpanBytes) \in Nat
    BY <1>2, TextNat
  <2> QED BY <1>8, <2>1 DEF Content
<1>9. CASE q.prim \in {"read_span", "read_file"}
  <2>1. q.path \in DOMAIN repo
    BY <1>9 DEF Found, FromIndex
  <2>2. /\ redact(ReadLines(Lines[repo[q.path]], q.lo, q.hi)) \in Nat
        /\ redact(ReadLines(Lines[repo[q.path]], 1, 0)) \in Nat
    BY <1>3, <1>5, <2>1, 1 \in Int, 0 \in Nat
  <2> QED BY <1>9, <2>2 DEF Content
<1>10. CASE q.prim = "list_dir"
  <2>1. Text(Cardinality(Entries(q.path.parts)), NameBytes) \in Nat
    BY <1>4, TextNat
  <2> QED BY <1>10, <2>1 DEF Content
<1> QED BY <1>5, <1>6, <1>7, <1>8, <1>9, <1>10 DEF FromIndex

-----------------------------------------------------------------------------
(* The invariant                                                           *)

States ==
    {"closed", "idle", "head", "load", "loaded", "building", "charge", "paid", "lost", "dead",
     "reindexed", "save", "saving"}

RTypes ==
    /\ pc \in [Procs -> States]
    /\ op = [p \in Procs |-> op[p]] /\ got = [p \in Procs |-> got[p]]
    /\ bill \in [Sessions -> Nat] /\ spent \in 0 .. Budget /\ served \in Nat
    /\ edits \in 0 .. MaxEdits /\ grown \in BOOLEAN

\* What a process is doing: a session one of the queries, the writer an update of
\* a file that is there, or a build.
CallInv ==
    /\ \A s \in Sessions : pc[s] \in {"head", "load", "building", "loaded"} => op[s] \in Queries
    /\ pc[Writer] \in {"load", "loaded"} => op[Writer].prim = "update_file"
    /\ pc[Writer] = "building" => op[Writer].prim \in {"update_file", "build_index"}
    /\ op[Writer].prim = "update_file" => op[Writer].path \in DOMAIN repo

\* Where the writer has an index in hand.
Holding == {"loaded", "reindexed", "save", "saving"}

\* Every index is good.  Nobody holds one before the index file first exists; one
\* that a build made is clean; and what the writer may put on disk, as what is
\* there, is clean unless a file was added since the last build.
IndexInv ==
    /\ Good(idx) /\ \A p \in Procs : Good(got[p])
    /\ idx.state = "absent" => \A p \in Procs : got[p] = NoIndex
    /\ \A p \in Procs : pc[p] = "building" => got[p].state = "whole" /\ Clean(got[p])
    /\ pc[Writer] \in Holding => got[Writer].state = "whole"
    /\ grown \/ (Clean(idx) /\ Clean(got[Writer]))

BillInv == \A s \in Sessions : bill[s] > 0 <=> pc[s] \in {"charge", "paid", "lost"}

RInv == RTypes /\ RepoInv /\ CallInv /\ IndexInv /\ BillInv

\* The ingested tree, with or without an index of it.
LEMMA RInvInit == Init => RInv /\ ReturnedIsPaid
<1> SUFFICES ASSUME Init PROVE RInv /\ ReturnedIsPaid
  OBVIOUS
<1> USE RetrievalAssumption
<1>1. RTypes
  <2>1. pc \in [Procs -> States]
    BY DEF Init, States
  <2>2. op = [p \in Procs |-> op[p]] /\ got = [p \in Procs |-> got[p]]
    BY DEF Init
  <2>3. /\ bill \in [Sessions -> Nat] /\ spent \in 0 .. Budget /\ served \in Nat
        /\ edits \in 0 .. MaxEdits
    <3>1. bill = [s \in Sessions |-> 0] /\ spent = 0 /\ served = 0 /\ edits = 0
      BY DEF Init, ALInit
    <3> QED BY <3>1
  <2>4. grown \in BOOLEAN
    BY Zenon DEF Init
  <2> QED BY <2>1, <2>2, <2>3, <2>4 DEF RTypes
<1>2. RepoInv
  BY FileAssumption DEF Init, RepoInv
<1>3. CallInv
  BY DEF Init, CallInv, Procs, Idle, Call
<1>4. IndexInv
  <2>1. \A p \in Procs : got[p] = NoIndex /\ pc[p] \in {"idle", "closed"}
    BY DEF Init
  <2>2. Writer \in Procs
    BY DEF Procs
  <2>3. idx = NoIndex \/ idx = Whole(Build(repo))
    BY DEF Init
  <2>4. Good(idx) /\ Clean(idx)
    BY <1>2, <2>3, EmptyIndexes, BuildIsClean
  <2> QED BY <2>1, <2>2, <2>4, EmptyIndexes DEF IndexInv, Holding
<1>5. BillInv
  BY DEF Init, BillInv, Procs
<1>6. ReturnedIsPaid
  <2> DEFINE S == {s \in Sessions : pc[s] \in {"paid", "lost"}}
  <2>1. S = {}
    BY DEF Init, Procs
  <2>2. bill \in [Sessions -> Int]
    BY <1>1 DEF RTypes
  <2>3. SumOf(bill, {}) = 0
    BY <2>2, SumType
  <2>4. SumOf(bill, S) = SumOf(bill, {})
    BY <2>1, Zenon
  <2>5. spent = 0 /\ served = 0
    BY DEF Init, ALInit
  <2> QED BY <2>3, <2>4, <2>5 DEF ReturnedIsPaid, SumOf
<1> QED BY <1>1, <1>2, <1>3, <1>4, <1>5, <1>6 DEF RInv

\* Files are added and replaced, never removed.
LEMMA RepoKeeps ==
    ASSUME RInv, Next \/ UNCHANGED rvars
    PROVE  RepoInv' /\ DOMAIN repo \subseteq DOMAIN repo'
<1>1. ASSUME NEW path, NEW content, File(path, content), Put(path, content)
      PROVE  /\ \A p \in DOMAIN repo' : File(p, repo'[p])
             /\ DOMAIN repo \subseteq DOMAIN repo'
  BY <1>1 DEF Put, RInv, RepoInv
<1>2. ASSUME UNCHANGED repo, UNCHANGED head \/ head' = repo
      PROVE  RepoInv' /\ DOMAIN repo \subseteq DOMAIN repo'
  BY <1>2 DEF RInv, RepoInv, File
<1>3. ASSUME NEW e \in Edits, UpdateFile(e.path, e.content)
      PROVE  RepoInv' /\ DOMAIN repo \subseteq DOMAIN repo'
  <2>1. File(e.path, e.content)
    BY FileAssumption
  <2> QED BY <1>1, <1>3, <2>1 DEF UpdateFile, RInv, RepoInv, File
<1>4. ASSUME NEW e \in Commits, PeerCommits(e.path, e.content)
      PROVE  RepoInv' /\ DOMAIN repo \subseteq DOMAIN repo'
  <2>1. File(e.path, e.content)
    BY FileAssumption
  <2> QED BY <1>1, <1>4, <2>1 DEF PeerCommits, RInv, RepoInv, File
<1>5. ASSUME NEW p, LoadStep(p) PROVE UNCHANGED repo /\ UNCHANGED head
  BY <1>5 DEF LoadStep, LoadWhole, LoadTorn, LoadAbsent, StartBuild, FinishBuild
<1>6. ASSUME BuildIndex \/ Reindex \/ SetHead \/ OpenForWrite \/ WriteIndex \/ WriterDies
      PROVE  UNCHANGED repo /\ (UNCHANGED head \/ head' = repo)
  BY <1>6 DEF BuildIndex, StartBuild, Reindex, SetHead, OpenForWrite, WriteIndex, WriterDies
<1>7. ASSUME NEW s, Open(s) \/ (\E q \in Queries : Ask(s, q)) \/ CheckHead(s) \/ Compute(s)
                    \/ Charge(s) \/ Refuse(s) \/ Serve(s) \/ SessionDies(s)
      PROVE  UNCHANGED repo /\ UNCHANGED head
  BY <1>7 DEF Open, Ask, CheckHead, Compute, Charge, Refuse, Serve, SessionDies
<1>8. UNCHANGED rvars => UNCHANGED repo /\ UNCHANGED head
  BY DEF rvars
<1> QED BY <1>2, <1>3, <1>4, <1>5, <1>6, <1>7, <1>8 DEF Next, SessionStep

\* Every step keeps the types, and a bill is open exactly while a call is priced and
\* not yet served, refused or forgotten.
LEMMA TypesKeep ==
    ASSUME RInv, Next \/ UNCHANGED rvars
    PROVE  RTypes' /\ BillInv'
<1> USE RetrievalAssumption DEF Goto, Done, history, ledger
<1>0. RTypes /\ BillInv /\ Writer \in Procs /\ Writer \notin Sessions /\ Sessions \subseteq Procs
  BY DEF RInv, Procs
<1>1. ASSUME NEW p \in Procs, LoadStep(p) PROVE RTypes' /\ BillInv'
  <2>1. /\ UNCHANGED <<bill, spent, served, edits>> /\ grown' \in BOOLEAN
        /\ op' = [q \in Procs |-> op'[q]] /\ got' = [q \in Procs |-> got'[q]]
    BY <1>0, <1>1 DEF LoadStep, LoadWhole, LoadTorn, LoadAbsent, StartBuild, FinishBuild, RTypes
  <2>2. /\ pc[p] \in {"load", "building"}
        /\ \E st \in {"idle", "loaded", "building"} : pc' = [pc EXCEPT ![p] = st]
    BY <1>1 DEF LoadStep, LoadWhole, LoadTorn, LoadAbsent, StartBuild, FinishBuild
  <2>3. pc' \in [Procs -> States]
    BY <1>0, <2>2 DEF RTypes, States
  <2>4. RTypes'
    BY <1>0, <2>1, <2>3 DEF RTypes
  <2>5. BillInv'
    BY <1>0, <2>1, <2>2 DEF RTypes, BillInv
  <2> QED BY <2>4, <2>5
<1>2. ASSUME BuildIndex \/ Reindex \/ SetHead \/ OpenForWrite \/ WriteIndex \/ WriterDies
             \/ (\E e \in Edits : UpdateFile(e.path, e.content))
      PROVE  RTypes' /\ BillInv'
  <2>1. /\ UNCHANGED <<bill, spent, served>> /\ grown' \in BOOLEAN /\ edits' \in 0 .. MaxEdits
        /\ op' = [q \in Procs |-> op'[q]] /\ got' = [q \in Procs |-> got'[q]]
    <3>1. CASE \E e \in Edits : UpdateFile(e.path, e.content)
      BY <1>0, <3>1 DEF UpdateFile, Adds, RTypes
    <3>2. CASE BuildIndex \/ SetHead \/ OpenForWrite \/ WriteIndex \/ WriterDies
      BY <1>0, <3>2 DEF BuildIndex, StartBuild, SetHead, OpenForWrite, WriteIndex, WriterDies, RTypes
    <3>3. CASE Reindex
      BY <1>0, <3>3 DEF Reindex, RTypes
    <3> QED BY <1>2, <3>1, <3>2, <3>3
  <2>2. \E st \in States : pc' = [pc EXCEPT ![Writer] = st]
    BY <1>2 DEF BuildIndex, StartBuild, Reindex, SetHead, OpenForWrite, WriteIndex, WriterDies,
                UpdateFile, States
  <2>3. pc' \in [Procs -> States] /\ \A s \in Sessions : pc'[s] = pc[s]
    BY <1>0, <2>2 DEF RTypes
  <2> QED BY <1>0, <2>1, <2>3 DEF RTypes, BillInv
<1>3. ASSUME NEW path, NEW content, PeerCommits(path, content) PROVE RTypes' /\ BillInv'
  <2>1. UNCHANGED <<pc, op, got, bill, spent, served>> /\ grown' \in BOOLEAN
    BY <1>0, <1>3 DEF PeerCommits, Adds
  <2>2. edits' \in 0 .. MaxEdits
    BY <1>0, <1>3 DEF PeerCommits, RTypes
  <2> QED BY <1>0, <2>1, <2>2 DEF RTypes, BillInv
<1>4. ASSUME NEW s \in Sessions, Open(s) \/ (\E q \in Queries : Ask(s, q)) \/ CheckHead(s)
      PROVE  RTypes' /\ BillInv'
  <2>1. /\ UNCHANGED <<bill, spent, served, edits, grown, got>>
        /\ op' = [q \in Procs |-> op'[q]]
    BY <1>0, <1>4 DEF Open, Ask, CheckHead, RTypes
  <2>2. /\ pc[s] \in {"closed", "idle", "head"}
        /\ \E st \in {"idle", "loaded", "head", "load"} : pc' = [pc EXCEPT ![s] = st]
    BY <1>4 DEF Open, Ask, CheckHead
  <2>3. pc' \in [Procs -> States]
    BY <1>0, <2>2 DEF RTypes, States
  <2>4. RTypes'
    BY <1>0, <2>1, <2>3 DEF RTypes
  <2>5. BillInv'
    BY <1>0, <2>1, <2>2 DEF RTypes, BillInv
  <2> QED BY <2>4, <2>5
<1>5. ASSUME NEW s \in Sessions, Compute(s) PROVE RTypes' /\ BillInv'
  <2>1. /\ UNCHANGED <<spent, served, edits, grown, got>> /\ pc[s] = "loaded"
        /\ op' = [q \in Procs |-> op'[q]]
    BY <1>0, <1>5 DEF Compute, RTypes
  <2>2. CASE op[s].prim \in FromIndex \/ Found(op[s])
    <3> DEFINE n == token_cost(Content(got[s].files, op[s]))
    <3>1. Content(got[s].files, op[s]) \in Nat
      <4>1. op[s] \in Queries /\ Good(got[s])
        BY <1>0, <2>1 DEF RInv, CallInv, IndexInv
      <4> QED BY <2>2, <4>1, ContentNat DEF RInv
    <3>2. n \in Nat /\ n > 0
      BY <3>1 DEF token_cost
    <3>3. pc' = [pc EXCEPT ![s] = "charge"] /\ bill' = [bill EXCEPT ![s] = n]
      BY <1>5, <2>2 DEF Compute
    <3> HIDE DEF n
    <3>4. pc' \in [Procs -> States] /\ bill' \in [Sessions -> Nat]
      BY <1>0, <3>2, <3>3 DEF RTypes, States
    <3>5. RTypes'
      BY <1>0, <2>1, <3>4 DEF RTypes
    <3>6. BillInv'
      BY <1>0, <3>2, <3>3 DEF RTypes, BillInv
    <3> QED BY <3>5, <3>6
  <2>3. CASE op[s].prim \notin FromIndex /\ ~Found(op[s])
    <3>1. pc' = [pc EXCEPT ![s] = "idle"] /\ bill' = bill
      BY <1>5, <2>3 DEF Compute
    <3>2. pc' \in [Procs -> States]
      BY <1>0, <3>1 DEF RTypes, States
    <3> QED BY <1>0, <2>1, <3>1, <3>2 DEF RTypes, BillInv
  <2> QED BY <2>2, <2>3
<1>6. ASSUME NEW s \in Sessions, Charge(s) PROVE RTypes' /\ BillInv'
  <2>1. /\ UNCHANGED <<op, got, bill, served, edits, grown>> /\ pc[s] = "charge"
        /\ pc' = [pc EXCEPT ![s] = "paid"] /\ spent' = spent + bill[s] /\ spent' <= Budget
    BY <1>6 DEF Charge, ALCharge
  <2>2. spent' \in 0 .. Budget /\ pc' \in [Procs -> States]
    BY <1>0, <2>1 DEF RTypes, States
  <2>3. RTypes'
    BY <1>0, <2>1, <2>2 DEF RTypes
  <2>4. BillInv'
    BY <1>0, <2>1 DEF RTypes, BillInv
  <2> QED BY <2>3, <2>4
<1>7. ASSUME NEW s \in Sessions, Refuse(s) \/ Serve(s) PROVE RTypes' /\ BillInv'
  <2>1. /\ UNCHANGED <<got, spent, edits, grown>> /\ served' \in Nat
        /\ op' = [q \in Procs |-> op'[q]]
        /\ pc' = [pc EXCEPT ![s] = "idle"] /\ bill' = [bill EXCEPT ![s] = 0]
    BY <1>0, <1>7 DEF Refuse, Serve, RTypes
  <2>2. pc' \in [Procs -> States] /\ bill' \in [Sessions -> Nat]
    BY <1>0, <2>1 DEF RTypes, States
  <2>3. RTypes'
    BY <1>0, <2>1, <2>2 DEF RTypes
  <2>4. BillInv'
    BY <1>0, <2>1 DEF RTypes, BillInv
  <2> QED BY <2>3, <2>4
<1>8. ASSUME NEW s \in Sessions, SessionDies(s) PROVE RTypes' /\ BillInv'
  <2>1. /\ UNCHANGED <<spent, served, edits, grown>>
        /\ op' = [q \in Procs |-> op'[q]] /\ got' = [q \in Procs |-> got'[q]]
    BY <1>0, <1>8 DEF SessionDies, RTypes
  <2>2. \/ pc[s] = "paid" /\ pc' = [pc EXCEPT ![s] = "lost"] /\ bill' = bill
        \/ pc' = [pc EXCEPT ![s] = "dead"] /\ bill' = [bill EXCEPT ![s] = 0]
    BY <1>8 DEF SessionDies
  <2>3. pc' \in [Procs -> States] /\ bill' \in [Sessions -> Nat]
    BY <1>0, <2>2 DEF RTypes, States
  <2>4. RTypes'
    BY <1>0, <2>1, <2>3 DEF RTypes
  <2>5. BillInv'
    BY <1>0, <2>2 DEF RTypes, BillInv
  <2> QED BY <2>4, <2>5
<1>9. ASSUME UNCHANGED rvars PROVE RTypes' /\ BillInv'
  BY <1>0, <1>9 DEF rvars, RTypes, BillInv
<1> QED BY <1>0, <1>1, <1>2, <1>3, <1>4, <1>5, <1>6, <1>7, <1>8, <1>9 DEF Next, SessionStep

\* Every step keeps what the processes are doing consistent with where they are.
LEMMA CallsKeep ==
    ASSUME RInv, Next \/ UNCHANGED rvars
    PROVE  CallInv'
<1> USE DEF Goto, Done, history, ledger
<1>0. /\ RTypes /\ CallInv /\ Writer \in Procs /\ Writer \notin Sessions
      /\ Sessions \subseteq Procs /\ DOMAIN repo \subseteq DOMAIN repo'
  BY RepoKeeps, RetrievalAssumption DEF RInv, Procs
<1>1. ASSUME NEW p \in Procs, LoadStep(p) PROVE CallInv'
  <2>1. CASE LoadTorn(p) \/ (FinishBuild(p) /\ op[p].prim = "build_index")
    <3>1. pc' = [pc EXCEPT ![p] = "idle"] /\ op' = [op EXCEPT ![p] = Idle]
      BY <2>1 DEF LoadTorn, FinishBuild
    <3>2. Idle.prim = "none"
      BY DEF Idle, Call
    <3> QED BY <1>0, <3>1, <3>2 DEF RTypes, CallInv
  <2>2. CASE LoadWhole(p) \/ LoadAbsent(p) \/ (FinishBuild(p) /\ op[p].prim # "build_index")
    <3>1. /\ op' = op
          /\ \/ pc[p] = "load" /\ pc' = [pc EXCEPT ![p] = "loaded"]
             \/ pc[p] = "load" /\ pc' = [pc EXCEPT ![p] = "building"]
             \/ /\ pc[p] = "building" /\ op[p].prim # "build_index"
                /\ pc' = [pc EXCEPT ![p] = "loaded"]
      BY <2>2 DEF LoadWhole, LoadAbsent, StartBuild, FinishBuild
    <3> QED BY <1>0, <3>1 DEF RTypes, CallInv
  <2> QED BY <1>1, <2>1, <2>2 DEF LoadStep
<1>2. ASSUME BuildIndex PROVE CallInv'
  <2>1. /\ pc' = [pc EXCEPT ![Writer] = "building"]
        /\ op' = [op EXCEPT ![Writer] = Call("build_index", "none", NoPath, 0, 0)]
    BY <1>2 DEF BuildIndex, StartBuild
  <2>2. Call("build_index", "none", NoPath, 0, 0).prim = "build_index"
    BY DEF Call
  <2> QED BY <1>0, <2>1, <2>2 DEF RTypes, CallInv
<1>3. ASSUME Reindex \/ SetHead \/ OpenForWrite \/ WriteIndex \/ WriterDies PROVE CallInv'
  <2>1. /\ \E st \in {"idle", "reindexed", "save", "saving"} : pc' = [pc EXCEPT ![Writer] = st]
        /\ op' = op \/ op' = [op EXCEPT ![Writer] = Idle]
    BY <1>3 DEF Reindex, SetHead, OpenForWrite, WriteIndex, WriterDies
  <2>2. Idle.prim = "none"
    BY DEF Idle, Call
  <2> QED BY <1>0, <2>1, <2>2 DEF RTypes, CallInv
<1>4. ASSUME NEW e \in Edits, UpdateFile(e.path, e.content) PROVE CallInv'
  <2> DEFINE u == Call("update_file", "none", e.path, 0, 0)
  <2>1. pc' = [pc EXCEPT ![Writer] = "load"] /\ op' = [op EXCEPT ![Writer] = u]
    BY <1>4 DEF UpdateFile
  <2>2. u.prim = "update_file" /\ u.path = e.path
    BY DEF Call
  <2>3. e.path \in DOMAIN repo'
    BY <1>4 DEF UpdateFile, Put
  <2> HIDE DEF u
  <2> QED BY <1>0, <2>1, <2>2, <2>3 DEF RTypes, CallInv
<1>5. ASSUME NEW path, NEW content, PeerCommits(path, content) PROVE CallInv'
  BY <1>0, <1>5 DEF PeerCommits, CallInv
<1>6. ASSUME NEW s \in Sessions, NEW q \in Queries, Ask(s, q) PROVE CallInv'
  <2>1. /\ \E st \in {"loaded", "head"} : pc' = [pc EXCEPT ![s] = st]
        /\ op' = [op EXCEPT ![s] = q]
    BY <1>6 DEF Ask
  <2> QED BY <1>0, <2>1 DEF RTypes, CallInv
<1>7. ASSUME NEW s \in Sessions, CheckHead(s) PROVE CallInv'
  <2>1. \/ pc[s] = "head" /\ pc' = [pc EXCEPT ![s] = "load"] /\ op' = op
        \/ pc' = [pc EXCEPT ![s] = "idle"] /\ op' = [op EXCEPT ![s] = Idle]
    BY <1>7 DEF CheckHead
  <2> QED BY <1>0, <2>1 DEF RTypes, CallInv
<1>8. ASSUME NEW s \in Sessions,
             Open(s) \/ Compute(s) \/ Charge(s) \/ Refuse(s) \/ Serve(s) \/ SessionDies(s)
      PROVE  CallInv'
  <2>1. /\ \E st \in {"idle", "charge", "paid", "lost", "dead"} : pc' = [pc EXCEPT ![s] = st]
        /\ op' = op \/ op' = [op EXCEPT ![s] = Idle]
    BY <1>8 DEF Open, Compute, Charge, Refuse, Serve, SessionDies
  <2> QED BY <1>0, <2>1 DEF RTypes, CallInv
<1>9. ASSUME UNCHANGED rvars PROVE CallInv'
  BY <1>0, <1>9 DEF rvars, CallInv
<1> QED BY <1>0, <1>1, <1>2, <1>3, <1>4, <1>5, <1>6, <1>7, <1>8, <1>9 DEF Next, SessionStep

\* Starting a build, by the writer or by whoever finds no index file, forgets added
\* files only when nobody can still write an index that misses them.
LEMMA BuildKeeps ==
    ASSUME RInv, NEW p \in Procs, NEW from, StartBuild(p, from),
           p = Writer \/ idx.state = "absent"
    PROVE  IndexInv'
<1> DEFINE i == Whole(Build(repo))
<1>0. /\ RTypes /\ IndexInv /\ Writer \in Procs
      /\ i.state = "whole" /\ Good(i) /\ Clean(i)
  BY BuildIsClean DEF RInv, Procs
<1>1. /\ pc' = [pc EXCEPT ![p] = "building"] /\ got' = [got EXCEPT ![p] = i]
      /\ idx' = Torn
  BY DEF StartBuild, Goto
<1> HIDE DEF i
<1>2. \A q \in Procs : /\ got'[q] = IF q = p THEN i ELSE got[q]
                       /\ pc'[q] = IF q = p THEN "building" ELSE pc[q]
  BY <1>0, <1>1 DEF RTypes
<1>3. Good(idx') /\ Clean(idx') /\ idx'.state # "absent"
  BY <1>1, EmptyIndexes
<1>4. \A q \in Procs : Good(got'[q])
  BY <1>0, <1>2 DEF IndexInv
<1>5. \A q \in Procs : pc'[q] = "building" => got'[q].state = "whole" /\ Clean(got'[q])
  BY <1>0, <1>2 DEF IndexInv
<1>6. Clean(got'[Writer])
  BY <1>0, <1>2, EmptyIndexes DEF IndexInv
<1>7. pc'[Writer] \in Holding => got'[Writer].state = "whole"
  BY <1>0, <1>2 DEF IndexInv, Holding
<1> QED BY <1>3, <1>4, <1>5, <1>6, <1>7 DEF IndexInv

\* A step that leaves the index file alone and keeps, or forgets, what is in memory.
LEMMA IndexQuiet ==
    ASSUME RInv, UNCHANGED idx, grown => grown', NEW p \in Procs,
           got' = got \/ got' = [got EXCEPT ![p] = NoIndex],
           \A q \in Procs : pc'[q] = "building" =>
              pc[q] = "building" /\ (q # p \/ got' = got),
           \/ pc'[Writer] \notin Holding
           \/ got'[Writer] = got[Writer] /\ pc[Writer] \in Holding
    PROVE  IndexInv'
<1>0. RTypes /\ IndexInv /\ Writer \in Procs
  BY DEF RInv, Procs
<1>1. \A q \in Procs : got'[q] = got[q] \/ (q = p /\ got'[q] = NoIndex)
  BY <1>0 DEF RTypes
<1>2. \A q \in Procs : q # p => got'[q] = got[q]
  BY <1>1
<1>3. Good(idx') /\ \A q \in Procs : Good(got'[q])
  BY <1>0, <1>1, EmptyIndexes DEF IndexInv
<1>4. idx'.state = "absent" => \A q \in Procs : got'[q] = NoIndex
  BY <1>0, <1>1 DEF IndexInv
<1>5. \A q \in Procs : pc'[q] = "building" => got'[q].state = "whole" /\ Clean(got'[q])
  BY <1>0, <1>2 DEF IndexInv
<1>6. pc'[Writer] \in Holding => got'[Writer].state = "whole"
  BY <1>0 DEF IndexInv
<1>7. grown' \/ (Clean(idx') /\ Clean(got'[Writer]))
  BY <1>0, <1>1, EmptyIndexes DEF IndexInv
<1> QED BY <1>3, <1>4, <1>5, <1>6, <1>7 DEF IndexInv

\* Every step keeps the indexes good, and clean unless a file was added.
LEMMA IndexesKeep ==
    ASSUME RInv, Next \/ UNCHANGED rvars
    PROVE  IndexInv'
<1> USE DEF Goto, Done, Holding
<1>0. /\ RTypes /\ IndexInv /\ CallInv /\ RepoInv /\ Writer \in Procs /\ Writer \notin Sessions
      /\ Sessions \subseteq Procs
  BY RetrievalAssumption DEF RInv, Procs
<1>1. ASSUME NEW p \in Procs, LoadWhole(p) PROVE IndexInv'
  <2>1. /\ idx.state = "whole" /\ pc' = [pc EXCEPT ![p] = "loaded"]
        /\ got' = [got EXCEPT ![p] = idx] /\ idx' = idx /\ grown' = grown
    BY <1>1 DEF LoadWhole, history
  <2>2. \A q \in Procs : /\ got'[q] = IF q = p THEN idx ELSE got[q]
                         /\ pc'[q] = IF q = p THEN "loaded" ELSE pc[q]
    BY <1>0, <2>1 DEF RTypes
  <2> QED BY <1>0, <2>1, <2>2 DEF IndexInv
<1>2. ASSUME NEW p \in Procs, LoadTorn(p) PROVE IndexInv'
  <2>1. idx' = idx /\ grown' = grown /\ got' = got /\ pc' = [pc EXCEPT ![p] = "idle"]
    BY <1>2 DEF LoadTorn, history
  <2>2. \A q \in Procs : pc'[q] = IF q = p THEN "idle" ELSE pc[q]
    BY <1>0, <2>1 DEF RTypes
  <2> QED BY <1>0, <2>1, <2>2, IndexQuiet
<1>3. ASSUME NEW p \in Procs, LoadAbsent(p) PROVE IndexInv'
  BY <1>3, BuildKeeps DEF LoadAbsent
<1>4. ASSUME NEW p \in Procs, FinishBuild(p) PROVE IndexInv'
  <2>1. /\ pc[p] = "building"
        /\ \/ got' = [got EXCEPT ![p] = NoIndex] /\ pc' = [pc EXCEPT ![p] = "idle"]
           \/ got' = got /\ pc' = [pc EXCEPT ![p] = "loaded"]
    BY <1>4 DEF FinishBuild
  <2>2. Good(idx') /\ Clean(idx') /\ idx'.state # "absent"
    <3>1. idx' = got[p] \/ idx' = Torn
      BY <1>4 DEF FinishBuild, Saved
    <3> QED BY <1>0, <2>1, <3>1, EmptyIndexes DEF IndexInv
  <2>3. grown' = grown
    BY <1>4 DEF FinishBuild, history
  <2>4. \A q \in Procs : q # p => got'[q] = got[q] /\ pc'[q] = pc[q]
    BY <1>0, <2>1 DEF RTypes
  <2>5. \/ got'[p] = NoIndex /\ pc'[p] = "idle"
        \/ got'[p] = got[p] /\ pc'[p] = "loaded"
    BY <1>0, <2>1 DEF RTypes
  <2> QED BY <1>0, <2>1, <2>2, <2>3, <2>4, <2>5, EmptyIndexes DEF IndexInv
<1>5. ASSUME BuildIndex PROVE IndexInv'
  BY <1>0, <1>5, BuildKeeps DEF BuildIndex
<1>6. ASSUME Reindex PROVE IndexInv'
  <2>1. CASE ~Indexable(op[Writer].path)
    <3>1. /\ idx' = idx /\ grown' = grown /\ got' = [got EXCEPT ![Writer] = NoIndex]
          /\ pc' = [pc EXCEPT ![Writer] = "idle"]
      BY <1>6, <2>1 DEF Reindex
    <3>2. \A q \in Procs : q # Writer => pc'[q] = pc[q]
      BY <1>0, <3>1 DEF RTypes
    <3>3. pc'[Writer] = "idle"
      BY <1>0, <3>1 DEF RTypes
    <3>4. grown => grown'
      BY <3>1
    <3> QED BY <1>0, <3>1, <3>2, <3>3, <3>4, IndexQuiet
  <2>2. CASE Indexable(op[Writer].path)
    <3> DEFINE path == op[Writer].path
               j == Whole(ReindexFile(got[Writer].files, repo, path))
    <3>1. /\ idx' = idx /\ got' = [got EXCEPT ![Writer] = j]
          /\ pc' = [pc EXCEPT ![Writer] = "reindexed"]
      BY <1>6, <2>2 DEF Reindex
    <3>2. grown' = (grown \/ path \notin DOMAIN got[Writer].files)
      BY <1>6, <2>2 DEF Reindex
    <3>3. path \in DOMAIN repo /\ idx.state # "absent"
      <4>1. pc[Writer] = "loaded"
        BY <1>6 DEF Reindex
      <4>2. path \in DOMAIN repo
        BY <1>0, <4>1 DEF CallInv
      <4>3. got[Writer] # NoIndex
        BY <1>0, <4>1, EmptyIndexes DEF IndexInv
      <4> QED BY <1>0, <4>2, <4>3 DEF IndexInv
    <3>4. /\ Good(j) /\ j.state = "whole"
          /\ Clean(got[Writer]) /\ path \in DOMAIN got[Writer].files => Clean(j)
      <4>1. Good(got[Writer])
        BY <1>0 DEF IndexInv
      <4> HIDE DEF path
      <4> QED BY <1>0, <2>2, <3>3, <4>1, ReindexKeeps DEF path
    <3> HIDE DEF j, path
    <3>5. \A q \in Procs : /\ got'[q] = IF q = Writer THEN j ELSE got[q]
                           /\ pc'[q] = IF q = Writer THEN "reindexed" ELSE pc[q]
      BY <1>0, <3>1 DEF RTypes
    <3>6. grown' \/ (Clean(idx') /\ Clean(got'[Writer]))
      <4>1. (grown \/ path \notin DOMAIN got[Writer].files) => grown'
        BY <3>2, Zenon
      <4>2. grown \/ (Clean(idx) /\ Clean(got[Writer]))
        BY <1>0 DEF IndexInv
      <4> QED BY <1>0, <3>1, <3>4, <3>5, <4>1, <4>2
    <3> QED BY <1>0, <3>1, <3>3, <3>4, <3>5, <3>6 DEF IndexInv
  <2> QED BY <2>1, <2>2
<1>7. ASSUME OpenForWrite PROVE IndexInv'
  <2>1. /\ pc[Writer] = "save" /\ pc' = [pc EXCEPT ![Writer] = "saving"] /\ idx' = Torn
        /\ got' = got /\ grown' = grown
    BY <1>7 DEF OpenForWrite, history
  <2>2. \A q \in Procs : pc'[q] = IF q = Writer THEN "saving" ELSE pc[q]
    BY <1>0, <2>1 DEF RTypes
  <2> QED BY <1>0, <2>1, <2>2, EmptyIndexes DEF IndexInv
<1>8. ASSUME WriteIndex PROVE IndexInv'
  <2>1. /\ pc[Writer] = "saving" /\ pc' = [pc EXCEPT ![Writer] = "idle"]
        /\ got' = [got EXCEPT ![Writer] = NoIndex] /\ grown' = grown
    BY <1>8 DEF WriteIndex, history
  <2>2. idx' = got[Writer] \/ idx' = Torn
    BY <1>8 DEF WriteIndex, Saved
  <2>3. \A q \in Procs : /\ got'[q] = IF q = Writer THEN NoIndex ELSE got[q]
                         /\ pc'[q] = IF q = Writer THEN "idle" ELSE pc[q]
    BY <1>0, <2>1 DEF RTypes
  <2>4. Good(idx') /\ idx'.state # "absent" /\ (grown \/ Clean(idx'))
    BY <1>0, <2>1, <2>2, EmptyIndexes DEF IndexInv
  <2> QED BY <1>0, <2>1, <2>3, <2>4, EmptyIndexes DEF IndexInv
<1>9. ASSUME SetHead \/ WriterDies \/ \E e \in Edits : UpdateFile(e.path, e.content)
      PROVE  IndexInv'
  <2>0. grown => grown'
    <3>1. CASE SetHead \/ WriterDies
      BY <3>1 DEF SetHead, WriterDies, history
    <3>2. CASE \E e \in Edits : UpdateFile(e.path, e.content)
      BY <3>2, Zenon DEF UpdateFile, Adds
    <3> QED BY <1>9, <3>1, <3>2
  <2>1. /\ idx' = idx
        /\ \/ got' = got /\ pc[Writer] = "reindexed" /\ pc' = [pc EXCEPT ![Writer] = "save"]
           \/ /\ got' = got \/ got' = [got EXCEPT ![Writer] = NoIndex]
              /\ \E st \in {"idle", "load"} : pc' = [pc EXCEPT ![Writer] = st]
    BY <1>9 DEF SetHead, WriterDies, UpdateFile
  <2>2. \A q \in Procs : q # Writer => pc'[q] = pc[q]
    BY <1>0, <2>1 DEF RTypes
  <2>3. \/ got' = got /\ pc[Writer] = "reindexed" /\ pc'[Writer] = "save"
        \/ pc'[Writer] \in {"idle", "load"}
    BY <1>0, <2>1 DEF RTypes
  <2>4. got' = got \/ got' = [got EXCEPT ![Writer] = NoIndex]
    BY <2>1
  <2> QED BY <1>0, <2>0, <2>1, <2>2, <2>3, <2>4, IndexQuiet
<1>10. ASSUME NEW path, NEW content, PeerCommits(path, content) PROVE IndexInv'
  <2>1. idx' = idx /\ (grown => grown') /\ got' = got /\ pc' = pc
    BY <1>10 DEF PeerCommits, Adds
  <2> QED BY <1>0, <2>1, IndexQuiet
<1>11. ASSUME NEW s \in Sessions,
              \/ Open(s) \/ (\E q \in Queries : Ask(s, q)) \/ CheckHead(s) \/ Compute(s)
              \/ Charge(s) \/ Refuse(s) \/ Serve(s) \/ SessionDies(s)
       PROVE  IndexInv'
  <2>1. /\ idx' = idx /\ grown' = grown
        /\ got' = got \/ got' = [got EXCEPT ![s] = NoIndex]
        /\ \E st \in States \ {"building"} : pc' = [pc EXCEPT ![s] = st]
    BY <1>11 DEF Open, Ask, CheckHead, Compute, Charge, Refuse, Serve, SessionDies, history, States
  <2>2. s \in Procs /\ s # Writer
    BY <1>0
  <2>3. /\ \A q \in Procs : q # s => pc'[q] = pc[q]
        /\ pc'[s] # "building" /\ got'[Writer] = got[Writer]
    BY <1>0, <2>1, <2>2 DEF RTypes
  <2> QED BY <1>0, <2>1, <2>2, <2>3, IndexQuiet
<1>12. ASSUME UNCHANGED rvars PROVE IndexInv'
  BY <1>0, <1>12 DEF rvars, IndexInv
<1> QED BY <1>0, <1>1, <1>2, <1>3, <1>4, <1>5, <1>6, <1>7, <1>8, <1>9, <1>10, <1>11, <1>12
        DEF Next, LoadStep, SessionStep

\* The sessions whose answers are paid for and not returned.
Unserved == {s \in Sessions : pc[s] \in {"paid", "lost"}}

\* ReturnedIsPaid as a sum over them.
LEMMA Balance == ReturnedIsPaid <=> spent = served + SumOf(bill, Unserved)
BY DEF ReturnedIsPaid, SumOf, Unserved

\* A charge is made for one answer, and that answer is returned once or lost: every
\* step keeps the ledger equal to what was returned and what is paid and not returned.
LEMMA PaidKeeps ==
    ASSUME RInv, RTypes', ReturnedIsPaid, Next \/ UNCHANGED rvars
    PROVE  ReturnedIsPaid'
<1> USE DEF Goto, Done, history, ledger
<1>0. /\ RTypes /\ BillInv /\ Writer \notin Sessions /\ Sessions \subseteq Procs
      /\ IsFiniteSet(Sessions) /\ Writer \in Procs
      /\ bill \in [Sessions -> Int] /\ bill' \in [Sessions -> Int]
      /\ spent \in Int /\ served \in Int
  BY RetrievalAssumption DEF RInv, Procs, RTypes
<1>1. ReturnedIsPaid <=> spent = served + SumOf(bill, Unserved)
  BY Balance
<1>2. ReturnedIsPaid' <=> spent' = served' + SumOf(bill', Unserved')
  <2>1. (ReturnedIsPaid <=> spent = served + SumOf(bill, Unserved))'
    BY Balance, PTL
  <2> QED BY <2>1
<1>3. Unserved \in SUBSET Sessions /\ Unserved' \in SUBSET Sessions
  BY DEF Unserved
\* A step that changes no bill of theirs and not who they are.
<1>4. ASSUME Unserved' = Unserved, \A s \in Unserved : bill'[s] = bill[s], UNCHANGED <<spent, served>>
      PROVE  ReturnedIsPaid'
  <2>1. SumOf(bill, Unserved) = SumOf(bill', Unserved)
    BY <1>0, <1>3, <1>4, SumAgree
  <2>2. SumOf(bill', Unserved') = SumOf(bill', Unserved)
    BY <1>4, Zenon
  <2> QED BY <1>1, <1>2, <1>4, <2>1, <2>2
<1>5. ASSUME NEW s \in Sessions, Charge(s) PROVE ReturnedIsPaid'
  <2>1. /\ pc[s] = "charge" /\ pc' = [pc EXCEPT ![s] = "paid"] /\ bill' = bill
        /\ spent' = spent + bill[s] /\ served' = served
    BY <1>5 DEF Charge, ALCharge
  <2>2. s \notin Unserved /\ Unserved' = Unserved \cup {s}
    BY <1>0, <2>1 DEF Unserved, RTypes
  <2>3. SumOf(bill, Unserved \cup {s}) = SumOf(bill, Unserved) + bill[s]
    BY <1>0, <1>3, <2>2, SumAdd
  <2>4. SumOf(bill', Unserved') = SumOf(bill, Unserved \cup {s})
    BY <2>1, <2>2, Zenon
  <2>5. SumOf(bill, Unserved) \in Int /\ bill[s] \in Int
    BY <1>0, <1>3, SumType
  <2> QED BY <1>0, <1>1, <1>2, <2>1, <2>3, <2>4, <2>5
<1>6. ASSUME NEW s \in Sessions, Serve(s) PROVE ReturnedIsPaid'
  <2>1. /\ pc[s] = "paid" /\ pc' = [pc EXCEPT ![s] = "idle"] /\ bill' = [bill EXCEPT ![s] = 0]
        /\ served' = served + bill[s] /\ spent' = spent
    BY <1>6 DEF Serve
  <2>2. s \in Unserved /\ Unserved' = Unserved \ {s}
    BY <1>0, <2>1 DEF Unserved, RTypes
  <2>3. SumOf(bill, Unserved) = SumOf(bill, Unserved \ {s}) + bill[s]
    BY <1>0, <1>3, <2>2, SumRemove
  <2> DEFINE R == Unserved \ {s}
  <2>4. R \in SUBSET Sessions /\ \A t \in R : bill[t] = bill'[t]
    BY <1>0, <1>3, <2>1
  <2>5. SumOf(bill, R) = SumOf(bill', R)
    <3> HIDE DEF R
    <3> QED BY <1>0, <2>4, SumAgree
  <2>6. SumOf(bill', Unserved') = SumOf(bill', R)
    BY <2>2, Zenon
  <2>7. SumOf(bill, R) \in Int /\ bill[s] \in Int
    <3> HIDE DEF R
    <3> QED BY <1>0, <2>4, SumType
  <2> QED BY <1>0, <1>1, <1>2, <2>1, <2>3, <2>5, <2>6, <2>7
<1>7. ASSUME NEW s \in Sessions, Compute(s) \/ Refuse(s) \/ SessionDies(s) PROVE ReturnedIsPaid'
  <2>1. /\ UNCHANGED <<spent, served>>
        /\ \/ pc[s] = "paid" /\ pc' = [pc EXCEPT ![s] = "lost"] /\ bill' = bill
           \/ /\ pc[s] \notin {"paid", "lost"}
              /\ \E st \in {"charge", "idle", "dead"} : pc' = [pc EXCEPT ![s] = st]
              /\ bill' = bill \/ \E n : bill' = [bill EXCEPT ![s] = n]
    BY <1>7 DEF Compute, Refuse, SessionDies
  <2>2. Unserved' = Unserved
    BY <1>0, <2>1 DEF Unserved, RTypes
  <2>3. \A t \in Unserved : bill'[t] = bill[t]
    BY <1>0, <2>1 DEF Unserved, RTypes
  <2> QED BY <1>4, <2>1, <2>2, <2>3
<1>8. ASSUME NEW p \in Procs, LoadStep(p) PROVE ReturnedIsPaid'
  <2>1. /\ UNCHANGED <<spent, served, bill>> /\ pc[p] \in {"load", "building"}
        /\ \E st \in {"idle", "loaded", "building"} : pc' = [pc EXCEPT ![p] = st]
    BY <1>8 DEF LoadStep, LoadWhole, LoadTorn, LoadAbsent, StartBuild, FinishBuild
  <2>2. Unserved' = Unserved
    BY <1>0, <2>1 DEF Unserved, RTypes
  <2> QED BY <1>4, <2>1, <2>2
<1>9. ASSUME NEW s \in Sessions, Open(s) \/ (\E q \in Queries : Ask(s, q)) \/ CheckHead(s)
      PROVE  ReturnedIsPaid'
  <2>1. /\ UNCHANGED <<spent, served, bill>> /\ pc[s] \in {"closed", "idle", "head"}
        /\ \E st \in {"idle", "loaded", "head", "load"} : pc' = [pc EXCEPT ![s] = st]
    BY <1>9 DEF Open, Ask, CheckHead
  <2>2. Unserved' = Unserved
    BY <1>0, <2>1 DEF Unserved, RTypes
  <2> QED BY <1>4, <2>1, <2>2
<1>10. ASSUME \/ BuildIndex \/ Reindex \/ SetHead \/ OpenForWrite \/ WriteIndex \/ WriterDies
              \/ \E e \in Edits : UpdateFile(e.path, e.content)
              \/ \E e \in Commits : PeerCommits(e.path, e.content)
              \/ UNCHANGED rvars
       PROVE  ReturnedIsPaid'
  <2>1. /\ UNCHANGED <<spent, served, bill>>
        /\ pc' = pc \/ \E st \in States : pc' = [pc EXCEPT ![Writer] = st]
    BY <1>10 DEF BuildIndex, StartBuild, Reindex, SetHead, OpenForWrite, WriteIndex, WriterDies,
                 UpdateFile, PeerCommits, rvars, States
  <2>2. Unserved' = Unserved
    BY <1>0, <2>1 DEF Unserved, RTypes
  <2> QED BY <1>4, <2>1, <2>2
<1> QED BY <1>0, <1>5, <1>6, <1>7, <1>8, <1>9, <1>10 DEF Next, SessionStep

\* The invariant holds throughout, and with it the balance.
LEMMA RInvariant == Spec => [](RInv /\ ReturnedIsPaid)
<1>1. RInv /\ ReturnedIsPaid /\ [Next]_rvars => (RInv /\ ReturnedIsPaid)'
  <2> SUFFICES ASSUME RInv, ReturnedIsPaid, [Next]_rvars PROVE (RInv /\ ReturnedIsPaid)'
    OBVIOUS
  <2>1. Next \/ UNCHANGED rvars
    OBVIOUS
  <2>2. RTypes' /\ BillInv' /\ RepoInv' /\ CallInv' /\ IndexInv'
    BY <2>1, TypesKeep, RepoKeeps, CallsKeep, IndexesKeep
  <2>3. ReturnedIsPaid'
    BY <2>1, <2>2, PaidKeeps
  <2> QED BY <2>2, <2>3 DEF RInv
<1> QED BY <1>1, RInvInit, PTL DEF Spec

-----------------------------------------------------------------------------
(* The theorems                                                            *)

\* RetrievalServiceImpl._charge before every return: the ledger holds exactly the price
\* of what the sessions returned, are about to return, and lost in a death.
THEOREM MeteredBeforeServed == Spec => []ReturnedIsPaid
BY RInvariant, PTL

\* The types, and with them: head is never ahead of the tree, an index is keyed by its
\* partitions' paths, a bill is open exactly while its call is priced and unserved, and
\* what is served is never more than what was charged.
THEOREM RetrievalTypes == Spec => []TypeOK
<1>1. RInv /\ ReturnedIsPaid => TypeOK
  <2> SUFFICES ASSUME RInv, ReturnedIsPaid PROVE TypeOK
    OBVIOUS
  <2>0. RTypes /\ RepoInv /\ IndexInv /\ BillInv
    BY DEF RInv
  <2>1. DOMAIN repo \subseteq Range(PathOrder) /\ DOMAIN head \subseteq DOMAIN repo
    BY <2>0 DEF RepoInv, File
  <2>2. ASSUME NEW i \in {idx} \union {got[p] : p \in Procs}
        PROVE  /\ i.state \in {"absent", "torn", "whole"}
               /\ \A p \in DOMAIN i.files : Indexable(p) /\ i.files[p].path = p
    <3>1. Good(i)
      BY <2>0 DEF IndexInv
    <3>2. ASSUME NEW p \in DOMAIN i.files PROVE Indexable(p) /\ i.files[p].path = p
      <4>1. PICK c, K : i.files[p] = FileIndex(p, c, K)
        BY <3>1 DEF Good
      <4> QED BY <3>1, <4>1, FileIndexFields DEF Good
    <3> QED BY <3>1, <3>2 DEF Good
  <2>3. served \in 0 .. spent
    <3> DEFINE T == {s \in Sessions : pc[s] \in {"paid", "lost"}}
    <3>1. T \in SUBSET Sessions /\ {} \in SUBSET T /\ bill \in [Sessions -> Nat]
      BY <2>0 DEF RTypes
    <3>2. spent = served + SumOf(bill, T)
      BY DEF ReturnedIsPaid, SumOf
    <3>3. SumOf(bill, T) \in Nat
      <4> HIDE DEF T
      <4> QED BY <3>1, RetrievalAssumption, SumMonotone
    <3> HIDE DEF T
    <3> QED BY <2>0, <3>2, <3>3 DEF RTypes
  <2>4. spent \in 0 .. Budget /\ edits \in 0 .. MaxEdits
    BY <2>0 DEF RTypes
  <2>5. \A s \in Sessions : bill[s] > 0 <=> pc[s] \in {"charge", "paid", "lost"}
    BY <2>0 DEF BillInv
  <2> QED BY <2>1, <2>2, <2>3, <2>4, <2>5 DEF TypeOK
<1> QED BY <1>1, RInvariant, PTL

\* reindex_file's equivalence with a full build, under any interleaving of updates,
\* commits, builds, saves and deaths.
THEOREM ReindexEqualsBuild == Spec => []IncrementalEqualsFull
<1>1. RInv => IncrementalEqualsFull
  <2> SUFFICES ASSUME RInv, NEW p \in DOMAIN idx.files \intersect Discover(repo),
                      idx.files[p].hash = repo[p]
               PROVE  LET full == IndexFile(repo, p, Discover(repo))
                      IN  /\ idx.files[p].symbols = full.symbols
                          /\ idx.files[p].references = full.references
                          /\ ~grown /\ DOMAIN idx.files = Discover(repo) => idx.files[p] = full
    BY DEF IncrementalEqualsFull
  <2> DEFINE full == FileIndex(p, repo[p], Discover(repo))
  <2>1. IndexFile(repo, p, Discover(repo)) = full
    BY DEF IndexFile
  <2>2. Good(idx) /\ (grown \/ Clean(idx))
    BY DEF RInv, IndexInv
  <2>3. PICK c, K : idx.files[p] = FileIndex(p, c, K)
    BY <2>2 DEF Good
  <2>4. c = repo[p]
    BY <2>3, FileIndexFields
  <2>5. idx.files[p].symbols = full.symbols /\ idx.files[p].references = full.references
    BY <2>3, <2>4, FileIndexFields
  <2>6. ASSUME ~grown, DOMAIN idx.files = Discover(repo) PROVE idx.files[p] = full
    <3>1. idx.files[p] = FileIndex(p, idx.files[p].hash, DOMAIN idx.files)
      BY <2>2, <2>6 DEF Clean
    <3> QED BY <2>6, <3>1
  <2> HIDE DEF full
  <2> QED BY <2>1, <2>5, <2>6
<1> QED BY <1>1, RInvariant, PTL

\* read_span is never charged more than read_file of the same file, whatever the bounds
\* and whatever the edits, where no secret's name and value are on different lines.
THEOREM SpanIsCheaper == Spec => []SpanNeverDearer
<1>1. RInv => SpanNeverDearer
  <2> SUFFICES ASSUME RInv, NEW p \in DOMAIN repo,
                      \A i \in DOMAIN Lines[repo[p]] : ~Lines[repo[p]][i].opens,
                      NEW lo \in 0 .. (Len(Lines[repo[p]]) + 1),
                      NEW hi \in 1 .. (Len(Lines[repo[p]]) + 1)
               PROVE  token_cost(redact(ReadLines(Lines[repo[p]], lo, hi)))
                        <= token_cost(redact(ReadLines(Lines[repo[p]], 1, 0)))
    BY DEF SpanNeverDearer
  <2> DEFINE c == repo[p]
             len == Len(Lines[c])
             m == IF lo < 1 THEN 1 ELSE lo
             n == IF hi = 0 \/ hi > len THEN len ELSE hi
             part == redact(SubSeq(Lines[c], m, n))
             all == redact(SubSeq(Lines[c], 1, len))
  <2>1. c \in DOMAIN Lines
    BY DEF RInv, RepoInv, File
  <2>2. len \in Nat
    BY <2>1, LineAssumption
  <2>3. m \in Int /\ 1 <= m /\ n \in Int /\ n <= len
    BY <2>2
  <2>4. /\ ReadLines(Lines[c], lo, hi) = SubSeq(Lines[c], m, n)
        /\ ReadLines(Lines[c], 1, 0) = SubSeq(Lines[c], 1, len)
    <3>1. ReadLines(Lines[c], lo, hi) = SubSeq(Lines[c], m, n)
      BY DEF ReadLines
    <3>2. ReadLines(Lines[c], 1, 0)
            = SubSeq(Lines[c], IF 1 < 1 THEN 1 ELSE 1, IF 0 = 0 \/ 0 > len THEN len ELSE 0)
      BY DEF ReadLines
    <3>3. (IF 1 < 1 THEN 1 ELSE 1) = 1 /\ (IF 0 = 0 \/ 0 > len THEN len ELSE 0) = len
      OBVIOUS
    <3> QED BY <3>1, <3>2, <3>3
  <2>5. part \in Nat /\ all \in Nat /\ part <= all
    <3>1. len \in Int /\ 1 \in Int /\ 1 <= 1 /\ len <= len
      BY <2>2
    <3>2. \A i \in DOMAIN Lines[c] : ~Lines[c][i].opens
      OBVIOUS
    <3> HIDE DEF c, m, n
    <3>3. part \in Nat /\ all \in Nat
      BY <2>1, <2>3, <3>1, WindowPrice
    <3>4. part <= all
      BY <2>1, <2>3, <3>2, WindowNeverDearer
    <3> QED BY <3>3, <3>4
  <2>6. token_cost(part) <= token_cost(all)
    <3> HIDE DEF part, all
    <3> QED BY <2>5 DEF token_cost
  <2> QED BY <2>4, <2>6
<1> QED BY <1>1, RInvariant, PTL

=============================================================================
