-------------------------- MODULE EntrypointProofs --------------------------
(***************************************************************************)
(* What the four entrypoints make of a well-formed envelope: the tree its  *)
(* operations mean, whatever their number, as far as the Rust one reads    *)
(* the envelope as it is; and what they print of it.                       *)
(***************************************************************************)
EXTENDS Entrypoint, FoldTheorems, SequenceTheorems

-----------------------------------------------------------------------------
(* Folds over a sequence.  FoldLeft is a recursive function over the sets  *)
(* of indices, which takes the greatest index last.                        *)

\* The operators that are folded, under one name.
Op(k, a, o) ==
    CASE k = "python" -> PyOp(a, o)
      [] k = "go"     -> GoOp(a, o)
      [] k = "rust"   -> RustOp(a, o)
      [] k = "ts"     -> TsOp(a, o)
      [] k = "meant"  -> MeantOp(a, o)
      [] k = "scan"   -> RustScan(a, o)

\* h is the recursive function of the fold of k over seq.
Left(k, h, base, seq) ==
    h = [s \in SUBSET DOMAIN seq |->
           IF s = {} THEN base ELSE LET x == Max(s) IN Op(k, h[s \ {x}], seq[x])]

Indexed(seq) == IsFiniteSet(DOMAIN seq) /\ DOMAIN seq \subseteq Int

\* A fold has one value.
LEMMA LeftUnique ==
    ASSUME NEW k, NEW base, NEW seq, Indexed(seq), NEW e, NEW h,
           Left(k, e, base, seq), Left(k, h, base, seq)
    PROVE  e = h
<1> DEFINE D == DOMAIN seq
           V == {e[s] : s \in SUBSET D} \cup {h[s] : s \in SUBSET D}
           c == [s \in SUBSET D |-> Max(s)]
           g == [xv \in D \X V |-> Op(k, xv[2], seq[xv[1]])]
<1>0. IsFiniteSet(D) /\ D \subseteq Int
  BY DEF Indexed
<1>1. ASSUME NEW s \in SUBSET D, s # {} PROVE Max(s) \in s
  <2>1. IsFiniteSet(s) /\ \A x \in s : x \in Int
    BY <1>0, FS_Subset
  <2> QED BY <1>1, <2>1, MaxIsGreatest
<1>2. \A s \in SUBSET D : s # {} => c[s] \in s
  BY <1>1
<1>3. ASSUME NEW f, Left(k, f, base, seq), \A s \in SUBSET D : f[s] \in V
      PROVE  Computes(f, D, base, c, g)
  <2>1. ASSUME NEW s \in SUBSET D
        PROVE  (IF s = {} THEN base ELSE LET x == Max(s) IN Op(k, f[s \ {x}], seq[x]))
                 = (IF s = {} THEN base ELSE g[<<c[s], f[s \ {c[s]}]>>])
    <3>1. CASE s # {}
      <4> DEFINE x == Max(s)
                 v == f[s \ {x}]
      <4>1. c[s] = x /\ x \in D /\ s \ {x} \in SUBSET D
        BY <1>1, <3>1
      <4>2. v \in V
        BY <1>3, <4>1
      <4>3. <<x, v>> \in D \X V /\ <<x, v>>[1] = x /\ <<x, v>>[2] = v
        BY <4>1, <4>2
      <4>4. g[<<x, v>>] = Op(k, v, seq[x])
        <5> HIDE DEF x, v, V
        <5> QED BY <4>3
      <4> HIDE DEF g, c, V
      <4> QED BY <3>1, <4>1, <4>4
    <3> QED BY <3>1
  <2> HIDE DEF g, c, V
  <2> QED BY <1>3, <2>1 DEF Left, Computes
<1>4. Computes(e, D, base, c, g) /\ Computes(h, D, base, c, g)
  BY <1>3
<1> HIDE DEF c, g, D
<1> QED BY <1>0, <1>2, <1>4, FoldUnique

\* A fold whose steps stay in a set has a value for every set of indices.
LEMMA LeftExists ==
    ASSUME NEW k, NEW A, NEW base \in A, NEW seq, Indexed(seq),
           \A a \in A, x \in DOMAIN seq : Op(k, a, seq[x]) \in A
    PROVE  \E h \in [SUBSET DOMAIN seq -> A] : Left(k, h, base, seq)
<1> DEFINE D == DOMAIN seq
           c == [s \in SUBSET D |-> Max(s)]
           g == [xv \in D \X A |-> Op(k, xv[2], seq[xv[1]])]
<1>0. IsFiniteSet(D) /\ D \subseteq Int
  BY DEF Indexed
<1>1. ASSUME NEW s \in SUBSET D, s # {} PROVE Max(s) \in s
  <2>1. IsFiniteSet(s) /\ \A x \in s : x \in Int
    BY <1>0, FS_Subset
  <2> QED BY <1>1, <2>1, MaxIsGreatest
<1>2. Recursion(D, A, base, c, g)
  <2>1. \A s \in SUBSET D : s # {} => c[s] \in s
    BY <1>1
  <2>2. g \in [D \X A -> A]
    OBVIOUS
  <2> HIDE DEF c, g
  <2> QED BY <2>1, <2>2 DEF Recursion
<1>3. PICK h \in [SUBSET D -> A] : Computes(h, D, base, c, g)
  <2> HIDE DEF c, g, D
  <2> QED BY <1>0, <1>2, FoldExists
<1>4. ASSUME NEW s \in SUBSET D
      PROVE  h[s] = IF s = {} THEN base ELSE LET x == Max(s) IN Op(k, h[s \ {x}], seq[x])
  <2>0. h[s] = IF s = {} THEN base ELSE g[<<c[s], h[s \ {c[s]}]>>]
    <3> HIDE DEF g, c
    <3> QED BY <1>3 DEF Computes
  <2>1. CASE s # {}
    <3> DEFINE x == Max(s)
               v == h[s \ {x}]
    <3>1. c[s] = x /\ x \in D /\ s \ {x} \in SUBSET D
      BY <1>1, <2>1
    <3>2. v \in A
      BY <1>3, <3>1
    <3>3. g[<<x, v>>] = Op(k, v, seq[x])
      <4> HIDE DEF x, v
      <4> QED BY <3>1, <3>2
    <3> HIDE DEF g, c
    <3> QED BY <2>0, <2>1, <3>1, <3>3
  <2> QED BY <2>0, <2>1
<1>5. h = [s \in SUBSET D |-> h[s]]
  BY <1>3
<1>6. Left(k, h, base, seq)
  BY <1>4, <1>5 DEF Left
<1> QED BY <1>3, <1>6

\* FoldLeft of each operator is the value its recursive function has for all indices.
LEMMA FoldLeftIs ==
    ASSUME NEW base, NEW seq, Indexed(seq), NEW h
    PROVE  /\ Left("python", h, base, seq) => FoldLeft(PyOp, base, seq) = h[DOMAIN seq]
           /\ Left("go", h, base, seq) => FoldLeft(GoOp, base, seq) = h[DOMAIN seq]
           /\ Left("rust", h, base, seq) => FoldLeft(RustOp, base, seq) = h[DOMAIN seq]
           /\ Left("ts", h, base, seq) => FoldLeft(TsOp, base, seq) = h[DOMAIN seq]
           /\ Left("meant", h, base, seq) => FoldLeft(MeantOp, base, seq) = h[DOMAIN seq]
           /\ Left("scan", h, base, seq) => FoldLeft(RustScan, base, seq) = h[DOMAIN seq]
<1> DEFINE D == DOMAIN seq
<1>1. ASSUME Left("python", h, base, seq) PROVE FoldLeft(PyOp, base, seq) = h[D]
  <2> DEFINE R(f) == f = [s \in SUBSET D |->
                            IF s = {} THEN base ELSE LET x == Max(s) IN PyOp(f[s \ {x}], seq[x])]
             e == CHOOSE f : R(f)
  <2>1. \A a, o : Op("python", a, o) = PyOp(a, o)
    BY DEF Op
  <2>2. \A f : R(f) <=> Left("python", f, base, seq)
    BY <2>1 DEF Left
  <2>3. FoldLeft(PyOp, base, seq) = e[D]
    BY DEF FoldLeft, MapThenFoldSet
  <2> HIDE DEF R
  <2>4. R(e)
    BY <1>1, <2>2
  <2> HIDE DEF e
  <2>5. e = h
    BY <1>1, <2>2, <2>4, LeftUnique
  <2> QED BY <2>3, <2>5
<1>2. ASSUME Left("go", h, base, seq) PROVE FoldLeft(GoOp, base, seq) = h[D]
  <2> DEFINE R(f) == f = [s \in SUBSET D |->
                            IF s = {} THEN base ELSE LET x == Max(s) IN GoOp(f[s \ {x}], seq[x])]
             e == CHOOSE f : R(f)
  <2>1. \A a, o : Op("go", a, o) = GoOp(a, o)
    BY DEF Op
  <2>2. \A f : R(f) <=> Left("go", f, base, seq)
    BY <2>1 DEF Left
  <2>3. FoldLeft(GoOp, base, seq) = e[D]
    BY DEF FoldLeft, MapThenFoldSet
  <2> HIDE DEF R
  <2>4. R(e)
    BY <1>2, <2>2
  <2> HIDE DEF e
  <2>5. e = h
    BY <1>2, <2>2, <2>4, LeftUnique
  <2> QED BY <2>3, <2>5
<1>3. ASSUME Left("rust", h, base, seq) PROVE FoldLeft(RustOp, base, seq) = h[D]
  <2> DEFINE R(f) == f = [s \in SUBSET D |->
                            IF s = {} THEN base ELSE LET x == Max(s) IN RustOp(f[s \ {x}], seq[x])]
             e == CHOOSE f : R(f)
  <2>1. \A a, o : Op("rust", a, o) = RustOp(a, o)
    BY DEF Op
  <2>2. \A f : R(f) <=> Left("rust", f, base, seq)
    BY <2>1 DEF Left
  <2>3. FoldLeft(RustOp, base, seq) = e[D]
    BY DEF FoldLeft, MapThenFoldSet
  <2> HIDE DEF R
  <2>4. R(e)
    BY <1>3, <2>2
  <2> HIDE DEF e
  <2>5. e = h
    BY <1>3, <2>2, <2>4, LeftUnique
  <2> QED BY <2>3, <2>5
<1>4. ASSUME Left("ts", h, base, seq) PROVE FoldLeft(TsOp, base, seq) = h[D]
  <2> DEFINE R(f) == f = [s \in SUBSET D |->
                            IF s = {} THEN base ELSE LET x == Max(s) IN TsOp(f[s \ {x}], seq[x])]
             e == CHOOSE f : R(f)
  <2>1. \A a, o : Op("ts", a, o) = TsOp(a, o)
    BY DEF Op
  <2>2. \A f : R(f) <=> Left("ts", f, base, seq)
    BY <2>1 DEF Left
  <2>3. FoldLeft(TsOp, base, seq) = e[D]
    BY DEF FoldLeft, MapThenFoldSet
  <2> HIDE DEF R
  <2>4. R(e)
    BY <1>4, <2>2
  <2> HIDE DEF e
  <2>5. e = h
    BY <1>4, <2>2, <2>4, LeftUnique
  <2> QED BY <2>3, <2>5
<1>5. ASSUME Left("meant", h, base, seq) PROVE FoldLeft(MeantOp, base, seq) = h[D]
  <2> DEFINE R(f) == f = [s \in SUBSET D |->
                            IF s = {} THEN base ELSE LET x == Max(s) IN MeantOp(f[s \ {x}], seq[x])]
             e == CHOOSE f : R(f)
  <2>1. \A a, o : Op("meant", a, o) = MeantOp(a, o)
    BY DEF Op
  <2>2. \A f : R(f) <=> Left("meant", f, base, seq)
    BY <2>1 DEF Left
  <2>3. FoldLeft(MeantOp, base, seq) = e[D]
    BY DEF FoldLeft, MapThenFoldSet
  <2> HIDE DEF R
  <2>4. R(e)
    BY <1>5, <2>2
  <2> HIDE DEF e
  <2>5. e = h
    BY <1>5, <2>2, <2>4, LeftUnique
  <2> QED BY <2>3, <2>5
<1>6. ASSUME Left("scan", h, base, seq) PROVE FoldLeft(RustScan, base, seq) = h[D]
  <2> DEFINE R(f) == f = [s \in SUBSET D |->
                            IF s = {} THEN base ELSE LET x == Max(s) IN RustScan(f[s \ {x}], seq[x])]
             e == CHOOSE f : R(f)
  <2>1. \A a, o : Op("scan", a, o) = RustScan(a, o)
    BY DEF Op
  <2>2. \A f : R(f) <=> Left("scan", f, base, seq)
    BY <2>1 DEF Left
  <2>3. FoldLeft(RustScan, base, seq) = e[D]
    BY DEF FoldLeft, MapThenFoldSet
  <2> HIDE DEF R
  <2>4. R(e)
    BY <1>6, <2>2
  <2> HIDE DEF e
  <2>5. e = h
    BY <1>6, <2>2, <2>4, LeftUnique
  <2> QED BY <2>3, <2>5
<1> QED BY <1>1, <1>2, <1>3, <1>4, <1>5, <1>6

-----------------------------------------------------------------------------
(* Applying a well-formed envelope                                         *)

\* The operations of a well-formed envelope, as a sequence.
WellOps(ops) ==
    /\ ops \in Seq(Range(ops))
    /\ \A o \in Range(ops) : /\ o.op \in {"write", "delete"}
                             /\ o.path \in {"f", "n", "u"}
                             /\ o.content \notin {"number", "large"}

\* The trees such operations can make.
Trees(ops) == [Files -> {o.content : o \in Range(ops)} \cup {"base", "absent"}]

\* A sequence's indices.
LEMMA OpsIndexed ==
    ASSUME NEW ops, WellOps(ops)
    PROVE  /\ Indexed(ops) /\ DOMAIN ops = 1 .. Len(ops) /\ Len(ops) \in Nat
           /\ \A x \in DOMAIN ops : ops[x] \in Range(ops)
           /\ \A s \in SUBSET DOMAIN ops : s # {} => Max(s) \in s
<1>1. DOMAIN ops = 1 .. Len(ops) /\ Len(ops) \in Nat
  BY DEF WellOps
<1>2. Indexed(ops)
  BY <1>1, FS_Interval, 1 \in Int, Len(ops) \in Int DEF Indexed
<1>3. \A x \in DOMAIN ops : ops[x] \in Range(ops)
  BY DEF Range
<1>4. ASSUME NEW s \in SUBSET DOMAIN ops, s # {} PROVE Max(s) \in s
  <2>1. IsFiniteSet(s) /\ \A x \in s : x \in Int
    BY <1>2, FS_Subset DEF Indexed
  <2> QED BY <1>4, <2>1, MaxIsGreatest
<1> QED BY <1>1, <1>2, <1>3, <1>4

\* The recursive function of Meant, and that it makes trees.
LEMMA MeantTable ==
    ASSUME NEW ops, WellOps(ops)
    PROVE  \E m \in [SUBSET DOMAIN ops -> Trees(ops)] :
             Left("meant", m, Snapshot, ops) /\ Meant(ops) = m[DOMAIN ops]
<1> DEFINE T == Trees(ops)
<1>1. Snapshot \in T
  BY DEF Snapshot, Trees
<1>2. ASSUME NEW t \in T, NEW x \in DOMAIN ops PROVE Op("meant", t, ops[x]) \in T
  <2>1. ops[x] \in Range(ops)
    BY OpsIndexed
  <2>2. Op("meant", t, ops[x]) = MeantOp(t, ops[x])
    BY DEF Op
  <2> DEFINE o == ops[x]
             W == {p.content : p \in Range(ops)} \cup {"base", "absent"}
             c == IF o.op = "write" THEN o.content ELSE "absent"
  <2>3. t \in [Files -> W] /\ T = [Files -> W]
    BY DEF Trees
  <2>4. c \in W
    BY <2>1
  <2>5. MeantOp(t, o) = [t EXCEPT ![o.path] = c]
    BY DEF MeantOp
  <2> HIDE DEF c, W, o
  <2>6. [t EXCEPT ![o.path] = c] \in [Files -> W]
    BY <2>3, <2>4
  <2> QED BY <2>2, <2>3, <2>5, <2>6 DEF o
<1> HIDE DEF T
<1>3. PICK m \in [SUBSET DOMAIN ops -> T] : Left("meant", m, Snapshot, ops)
  <2>1. Indexed(ops)
    BY OpsIndexed
  <2>2. \A t \in T, x \in DOMAIN ops : Op("meant", t, ops[x]) \in T
    BY <1>2
  <2> QED BY <1>1, <2>1, <2>2, LeftExists
<1>4. Meant(ops) = m[DOMAIN ops]
  BY <1>3, FoldLeftIs, OpsIndexed DEF Meant
<1> QED BY <1>3, <1>4 DEF T

\* One well-formed operation, applied by each entrypoint.
LEMMA OpsAgree ==
    ASSUME NEW ops, WellOps(ops), NEW o \in Range(ops), NEW t, NEW k \in Langs,
           k = "rust" => RustPath(o) = o.path /\ RustContent(o) = o.content
    PROVE  Op(k, Applied(t), o) = Applied(MeantOp(t, o))
<1>1. /\ o.op \in {"write", "delete"} /\ o.path \in {"f", "n", "u"}
      /\ o.content \notin {"number", "large"}
  BY DEF WellOps
<1>2. Applied(t).st = "applied" /\ Applied(t).tree = t
  BY DEF Applied
<1>3. PyOp(Applied(t), o) = Applied(MeantOp(t, o))
  BY <1>1, <1>2 DEF PyOp, Put, MeantOp
<1>4. GoOp(Applied(t), o) = Applied(MeantOp(t, o))
  BY <1>1, <1>2 DEF GoOp, Put, MeantOp
<1>5. TsOp(Applied(t), o) = Applied(MeantOp(t, o))
  BY <1>1, <1>2 DEF TsOp, Put, MeantOp
<1>6. ASSUME k = "rust" PROVE RustOp(Applied(t), o) = Applied(MeantOp(t, o))
  BY <1>1, <1>2, <1>6 DEF RustOp, Put, MeantOp
<1> QED BY <1>3, <1>4, <1>5, <1>6 DEF Op, Langs

\* Where no content has an unmatched brace, the scan cuts out exactly the operations.
LEMMA ScanIsExact ==
    ASSUME NEW ops, WellOps(ops), \A o \in Range(ops) : o.brace = 0
    PROVE  RustOps(ops) = ops
<1> DEFINE D == DOMAIN ops
           N == Len(ops)
           O == Range(ops)
           State(q) == [depth |-> 0, begun |-> <<>>, ops |-> q]
           A == {State(q) : q \in Seq(O)}
<1>0. Indexed(ops) /\ D = 1 .. N /\ N \in Nat /\ ops \in Seq(O)
  BY OpsIndexed DEF WellOps
<1>1. ASSUME NEW q \in Seq(O), NEW o \in O
      PROVE  Op("scan", State(q), o) = State(Append(q, o)) /\ Append(q, o) \in Seq(O)
  <2>1. Append(q, o) \in Seq(O)
    <3> HIDE DEF O
    <3> QED OBVIOUS
  <2>2. State(q).depth = 0 /\ State(q).ops = q /\ o.brace = 0
    OBVIOUS
  <2>3. [State(q) EXCEPT !.ops = Append(q, o)] = State(Append(q, o))
    OBVIOUS
  <2>4. RustScan(State(q), o) = [State(q) EXCEPT !.ops = Append(State(q).ops, o)]
    <3> HIDE DEF State
    <3> QED BY <2>2 DEF RustScan
  <2> HIDE DEF State
  <2>5. RustScan(State(q), o) = State(Append(q, o))
    BY <2>2, <2>3, <2>4
  <2> QED BY <2>1, <2>5 DEF Op
<1>2. State(<<>>) \in A
  <2>1. <<>> \in Seq(O)
    <3> HIDE DEF O
    <3> QED OBVIOUS
  <2> HIDE DEF State, O
  <2> QED BY <2>1
<1>3. ASSUME NEW a \in A, NEW x \in D PROVE Op("scan", a, ops[x]) \in A
  <2>1. PICK q \in Seq(O) : a = State(q)
    <3> HIDE DEF State, O
    <3> QED OBVIOUS
  <2>2. ops[x] \in O
    BY OpsIndexed
  <2> HIDE DEF State, O
  <2> QED BY <1>1, <2>1, <2>2
<1>4. PICK h \in [SUBSET D -> A] : Left("scan", h, State(<<>>), ops)
  <2> HIDE DEF A
  <2> QED BY <1>0, <1>2, <1>3, LeftExists
<1>5. ASSUME NEW n \in 1 .. N
      PROVE  h[1 .. n] = Op("scan", h[1 .. (n - 1)], ops[n])
  <2> DEFINE s == 1 .. n
  <2>1. s \in SUBSET D /\ s # {} /\ n \in s /\ \A y \in s : y <= n
    BY <1>0
  <2>2. h[s] = Op("scan", h[s \ {Max(s)}], ops[Max(s)])
    <3> HIDE DEF s
    <3> QED BY <1>4, <2>1 DEF Left
  <2>3. Max(s) = n
    <3>1. IsFiniteSet(s) /\ \A y \in s : y \in Int
      BY FS_Interval, 1 \in Int, n \in Int
    <3>2. Max(s) \in s /\ \A y \in s : y <= Max(s)
      <4> HIDE DEF s
      <4> QED BY <2>1, <3>1, MaxIsGreatest
    <3> QED BY <2>1, <3>2
  <2>4. s \ {n} = 1 .. (n - 1)
    OBVIOUS
  <2> HIDE DEF s
  <2>5. h[s] = Op("scan", h[1 .. (n - 1)], ops[n])
    BY <2>2, <2>3, <2>4
  <2> QED BY <2>5 DEF s
<1>6. h[{}] = State(<<>>)
  <2>1. {} \in SUBSET D
    OBVIOUS
  <2> QED BY <1>4, <2>1 DEF Left
<1> DEFINE B == {s \in SUBSET D : \E n \in 0 .. N : s = 1 .. n /\ h[s] # State(SubSeq(ops, 1, n))}
<1>7. B = {}
  <2> SUFFICES ASSUME B # {} PROVE FALSE
    OBVIOUS
  <2>1. B \in SUBSET (SUBSET D) /\ IsFiniteSet(D)
    BY <1>0 DEF Indexed
  <2>2. PICK X \in B : \A Y \in B : Y \subseteq X => Y = X
    <3> HIDE DEF B
    <3> QED BY <2>1, MinimalSubset
  <2>3. PICK n \in 0 .. N : X = 1 .. n /\ h[1 .. n] # State(SubSeq(ops, 1, n))
    BY <2>2
  <2>4. CASE n = 0
    <3>1. 1 .. n = {} /\ SubSeq(ops, 1, n) = <<>>
      BY <2>4, SubSeqEmpty, 1 \in Int, 0 \in Int, 0 < 1
    <3> QED BY <1>6, <2>3, <3>1
  <2>5. CASE n # 0
    <3>1. n \in 1 .. N /\ n - 1 \in 0 .. N
      BY <1>0, <2>5
    <3>2. 1 .. (n - 1) \in SUBSET D /\ 1 .. (n - 1) \subseteq X /\ n \in X /\ n \notin 1 .. (n - 1)
      BY <1>0, <2>3, <3>1
    <3>3. 1 .. (n - 1) \notin B
      <4> HIDE DEF B
      <4> QED BY <2>2, <3>2
    <3>4. h[1 .. (n - 1)] = State(SubSeq(ops, 1, n - 1))
      BY <3>1, <3>2, <3>3
    <3> DEFINE q == SubSeq(ops, 1, n - 1)
    <3>5. q \in Seq(O)
      <4>1. \A i \in 1 .. (n - 1) : ops[i] \in O
        BY <1>0, <3>1
      <4> QED BY <4>1, SubSeqProperties, 1 \in Int, n - 1 \in Int
    <3>6. ops[n] \in O
      BY <1>0, <3>1
    <3>7. Append(q, ops[n]) = SubSeq(ops, 1, n)
      <4>1. SubSeq(ops, 1, n) = q \o <<ops[n]>>
        <5>1. 1 \in 1 .. Len(ops) /\ n \in 1 .. Len(ops)
          BY <1>0, <3>1
        <5> QED BY <1>0, <5>1, SubSeqRecursiveSecond
      <4> HIDE DEF q
      <4> QED BY <3>5, <3>6, <4>1
    <3>8. Op("scan", State(q), ops[n]) = State(Append(q, ops[n]))
      <4> HIDE DEF q, State
      <4> QED BY <1>1, <3>5, <3>6
    <3>9. h[1 .. n] = State(SubSeq(ops, 1, n))
      <4> HIDE DEF State
      <4> QED BY <1>5, <3>1, <3>4, <3>7, <3>8
    <3> QED BY <2>3, <3>9
  <2> QED BY <2>4, <2>5
<1>8. h[D] = State(ops)
  <2>1. D \in SUBSET D /\ N \in 0 .. N /\ D = 1 .. N
    BY <1>0
  <2>2. h[D] = State(SubSeq(ops, 1, N))
    BY <1>7, <2>1
  <2>3. SubSeq(ops, 1, N) = ops
    BY <1>0, SubSeqFull
  <2> QED BY <2>2, <2>3
<1>9. FoldLeft(RustScan, State(<<>>), ops) = State(ops)
  <2> HIDE DEF State
  <2> QED BY <1>0, <1>4, <1>8, FoldLeftIs
<1>10. State(ops).depth = 0 /\ State(ops).ops = ops
  OBVIOUS
<1>11. RustOps(ops) = IF FoldLeft(RustScan, State(<<>>), ops).depth = 1
                      THEN FoldLeft(RustScan, State(<<>>), ops).ops
                             \o FoldLeft(RustScan, State(<<>>), ops).begun
                      ELSE FoldLeft(RustScan, State(<<>>), ops).ops
  BY DEF RustOps
<1> HIDE DEF State
<1>12. RustOps(ops) = IF State(ops).depth = 1 THEN State(ops).ops \o State(ops).begun
                                              ELSE State(ops).ops
  BY <1>9, <1>11
<1> QED BY <1>10, <1>12

Patched(lang, env) ==
    CASE lang = "python" -> PyApplyPatch(env)
      [] lang = "go"     -> GoApplyPatch(env)
      [] lang = "rust"   -> RustApplyPatch(env)
      [] lang = "ts"     -> TsApplyPatch(env)

\* Every entrypoint makes the tree a well-formed envelope means, the Rust one of an
\* envelope it reads as it is.
LEMMA AllApply ==
    ASSUME NEW env, WellFormed(env), WellOps(env.ops), NEW lang \in Langs,
           lang = "rust" => Balanced(env) /\ Literal(env)
    PROVE  Patched(lang, env) = Applied(Meant(env.ops))
<1> DEFINE ops == env.ops
           D == DOMAIN ops
<1>1. PICK m \in [SUBSET D -> Trees(ops)] : Left("meant", m, Snapshot, ops) /\ Meant(ops) = m[D]
  BY MeantTable
<1> DEFINE h == [s \in SUBSET D |-> Applied(m[s])]
<1>2. Left(lang, h, Applied(Snapshot), ops)
  <2>1. ASSUME NEW s \in SUBSET D
        PROVE  h[s] = IF s = {} THEN Applied(Snapshot)
                      ELSE LET x == Max(s) IN Op(lang, h[s \ {x}], ops[x])
    <3>0. m[s] = IF s = {} THEN Snapshot ELSE LET x == Max(s) IN Op("meant", m[s \ {x}], ops[x])
      BY <1>1 DEF Left
    <3>1. CASE s = {}
      BY <3>0, <3>1
    <3>2. CASE s # {}
      <4> DEFINE x == Max(s)
                 t == m[s \ {x}]
      <4>1. x \in D /\ s \ {x} \in SUBSET D /\ ops[x] \in Range(ops)
        BY <3>2, OpsIndexed
      <4>2. h[s \ {x}] = Applied(t)
        BY <4>1
      <4>3. Op(lang, Applied(t), ops[x]) = Applied(MeantOp(t, ops[x]))
        <5> HIDE DEF t, x, ops
        <5>1. lang = "rust" => RustPath(ops[x]) = ops[x].path /\ RustContent(ops[x]) = ops[x].content
          BY <4>1 DEF ops, Literal
        <5> QED BY <4>1, <5>1, OpsAgree DEF ops
      <4>4. m[s] = MeantOp(t, ops[x])
        BY <3>0, <3>2 DEF Op
      <4>5. h[s] = Applied(m[s])
        OBVIOUS
      <4>6. h[s] = Op(lang, h[s \ {x}], ops[x])
        <5> HIDE DEF t, x, ops, h
        <5> QED BY <4>2, <4>3, <4>4, <4>5
      <4> HIDE DEF h
      <4> QED BY <3>2, <4>6
    <3> QED BY <3>1, <3>2
  <2>2. h = [s \in SUBSET D |-> h[s]]
    OBVIOUS
  <2> HIDE DEF h
  <2> QED BY <2>1, <2>2 DEF Left
<1>3. h[D] = Applied(Meant(ops))
  BY <1>1
<1> HIDE DEF h
<1>4. env.form = "list" /\ ~\E i \in DOMAIN env.ops : env.ops[i].content = "number"
  BY OpsIndexed DEF WellFormed, IsList, WellOps
<1>5. CASE lang = "python"
  BY <1>2, <1>3, <1>4, <1>5, FoldLeftIs, OpsIndexed DEF Patched, PyApplyPatch, IsList
<1>6. CASE lang = "go"
  BY <1>2, <1>3, <1>4, <1>6, FoldLeftIs, OpsIndexed DEF Patched, GoApplyPatch, IsList
<1>7. CASE lang = "rust"
  <2>1. RustOps(ops) = ops
    BY <1>7, ScanIsExact DEF Balanced
  <2> QED BY <1>2, <1>3, <1>4, <1>7, <2>1, FoldLeftIs, OpsIndexed DEF Patched, RustApplyPatch, IsList
<1>8. CASE lang = "ts"
  BY <1>2, <1>3, <1>4, <1>8, FoldLeftIs, OpsIndexed DEF Patched, TsApplyPatch, IsList
<1> QED BY <1>5, <1>6, <1>7, <1>8 DEF Langs

-----------------------------------------------------------------------------
(* What is printed                                                         *)

Reports(p) == {PyReport(p), GoReport(p), RustReport(p), TsReport(p)}

\* A report is the payload it was made from, its text cut, or nothing at all.
LEMMA Reported ==
    ASSUME NEW applied, NEW built, NEW exit, NEW out, NEW stage, NEW R,
           R \in Reports(Payload(applied, built, exit, out, stage))
    PROVE  \/ R = Nothing
           \/ \E kept, reads : /\ R = Printed(Payload(applied, built, exit, kept, stage), reads)
                               /\ reads = "empty" => out = "embedded"
<1> DEFINE p == Payload(applied, built, exit, out, stage)
           With(kept) == Payload(applied, built, exit, kept, stage)
<1>1. \A kept : [p EXCEPT !.out = kept] = With(kept) /\ With(kept).out = kept /\ p.out = out
  BY DEF Payload
<1>2. \A kept : Reads(kept) = "empty" => kept = "embedded"
  BY DEF Reads
<1>3. Kept(out) = "embedded" => out = "embedded"
  BY DEF Kept
<1> HIDE DEF p, With
<1>4. ASSUME NEW kept, NEW reads, R = Printed(With(kept), reads),
             reads = "empty" => Reads(kept) = "empty", kept = Kept(out)
      PROVE  \E k, e : R = Printed(With(k), e) /\ (e = "empty" => out = "embedded")
  BY <1>2, <1>3, <1>4
<1>5. CASE R = PyReport(p)
  <2>1. R = Printed(With(Kept(out)), Reads(Kept(out)))
    BY <1>1, <1>5 DEF PyReport, PyTruncate, PyEmit
  <2> QED BY <1>4, <2>1 DEF With
<1>6. CASE R = GoReport(p)
  <2>1. R = Printed(With(Kept(out)), "whole")
    BY <1>1, <1>6 DEF GoReport, GoTruncate, GoEmit
  <2> QED BY <1>4, <2>1 DEF With
<1>7. CASE R = TsReport(p)
  <2>1. R = Printed(With(Kept(out)), Reads(Kept(out)))
    BY <1>1, <1>7 DEF TsReport, TsTruncate, TsEmit
  <2> QED BY <1>4, <2>1 DEF With
<1>8. CASE R = RustReport(p)
  <2>1. CASE out = "wide"
    BY <1>1, <1>8, <2>1 DEF RustReport, RustTruncate
  <2>2. CASE out # "wide"
    <3> DEFINE reads == IF Kept(out) = "control" THEN "broken" ELSE Reads(Kept(out))
    <3>1. RustTruncate(out) = Kept(out)
      BY <2>2 DEF RustTruncate
    <3>2. R = Nothing \/ R = Printed(With(Kept(out)), reads)
      BY <1>1, <1>8, <3>1 DEF RustReport, RustEmit
    <3>3. reads = "empty" => Reads(Kept(out)) = "empty"
      OBVIOUS
    <3> HIDE DEF reads
    <3> QED BY <1>4, <3>2, <3>3 DEF With
  <2> QED BY <2>1, <2>2
<1> QED BY <1>5, <1>6, <1>7, <1>8 DEF p, Reports

\* Text of an ordinary request is printed so that the whole payload is read again.
LEMMA ReportedWhole ==
    ASSUME NEW applied, NEW built, NEW exit, NEW out \in {"none", "text", "network", "lost"},
           NEW stage, NEW R,
           R \in Reports(Payload(applied, built, exit, out, stage))
    PROVE  R = Printed(Payload(applied, built, exit, Kept(out), stage), "whole")
<1> DEFINE p == Payload(applied, built, exit, out, stage)
           With(kept) == Payload(applied, built, exit, kept, stage)
<1>1. \A kept : [p EXCEPT !.out = kept] = With(kept) /\ With(kept).out = kept /\ p.out = out
  BY DEF Payload
<1>2. Kept(out) \in {"none", "text", "network"} /\ RustTruncate(out) = Kept(out)
  BY DEF Kept, RustTruncate
<1>3. Reads(Kept(out)) = "whole" /\ Kept(out) \notin {"control", "raised"}
  BY <1>2 DEF Reads
<1> HIDE DEF p, With
<1>4. PyReport(p) = Printed(With(Kept(out)), "whole")
  BY <1>1, <1>3 DEF PyReport, PyTruncate, PyEmit
<1>5. GoReport(p) = Printed(With(Kept(out)), "whole")
  BY <1>1 DEF GoReport, GoTruncate, GoEmit
<1>6. RustReport(p) = Printed(With(Kept(out)), "whole")
  BY <1>1, <1>2, <1>3 DEF RustReport, RustEmit
<1>7. TsReport(p) = Printed(With(Kept(out)), "whole")
  BY <1>1, <1>3 DEF TsReport, TsTruncate, TsEmit
<1> QED BY <1>4, <1>5, <1>6, <1>7 DEF p, With, Reports

-----------------------------------------------------------------------------
(* main(), of any of the four                                              *)

Build(lang, tree, r) ==
    CASE lang = "python" -> PyBuild(tree, r.disk)
      [] lang = "go"     -> GoBuild(tree, r.disk)
      [] lang = "rust"   -> RustBuild(tree, r.disk)
      [] lang = "ts"     -> TsBuild(tree, r.disk, r.diag)

Test(lang, tree, r) ==
    CASE lang = "python" -> PyTest(tree, r.suite, r.backend)
      [] lang = "go"     -> GoTest(tree, r.suite, r.backend)
      [] lang = "rust"   -> RustTest(tree, r.suite, r.backend)
      [] lang = "ts"     -> TsTest(tree, r.suite, r.backend)

\* main() prints nothing, or a report of the stage it stops at.
LEMMA MainStages ==
    ASSUME NEW r, NEW lang \in Langs
    PROVE  LET tree == Patched(lang, r.env).tree
           IN  \/ Main(lang, r) = Nothing
               \/ Main(lang, r) \in Reports(AtApply("text")) \cup Reports(AtApply(r.diag))
                                      \cup Reports(AtBuild(r.diag))
               \/ /\ Build(lang, tree, r) \notin {"failed", "raised"}
                  /\ Main(lang, r) \in Reports(AtTest(Test(lang, tree, r)))
<1> DEFINE a == Patched(lang, r.env)
           b == Build(lang, a.tree, r)
           t == Test(lang, a.tree, r)
<1>1. CASE lang = "python"
  <2>1. /\ a = PyApplyPatch(r.env) /\ b = PyBuild(a.tree, r.disk)
        /\ t = PyTest(a.tree, r.suite, r.backend)
    BY <1>1 DEF Patched, Build, Test
  <2>2. \/ Main(lang, r) = Nothing
        \/ Main(lang, r) \in {PyReport(AtApply(r.diag)), PyReport(AtBuild(r.diag))}
        \/ b \notin {"failed", "raised"} /\ Main(lang, r) = PyReport(AtTest(t))
    <3> HIDE DEF a, b, t
    <3> QED BY <1>1, <2>1 DEF Main, PyMain
  <2> QED BY <2>2 DEF Reports
<1>2. CASE lang = "go"
  <2>1. /\ a = GoApplyPatch(r.env) /\ b = GoBuild(a.tree, r.disk)
        /\ t = GoTest(a.tree, r.suite, r.backend)
    BY <1>2 DEF Patched, Build, Test
  <2>0. b # "raised"
    BY <1>2, <2>1 DEF GoBuild, Built
  <2>2. \/ Main(lang, r) \in {GoReport(AtApply("text")), GoReport(AtApply(r.diag)),
                              GoReport(AtBuild(r.diag))}
        \/ b \notin {"failed", "raised"} /\ Main(lang, r) = GoReport(AtTest(t))
    <3> HIDE DEF a, b, t
    <3> QED BY <1>2, <2>0, <2>1 DEF Main, GoMain
  <2> QED BY <2>2 DEF Reports
<1>3. CASE lang = "rust"
  <2>1. /\ a = RustApplyPatch(r.env) /\ b = RustBuild(a.tree, r.disk)
        /\ t = RustTest(a.tree, r.suite, r.backend)
    BY <1>3 DEF Patched, Build, Test
  <2>0. b # "raised"
    BY <1>3, <2>1 DEF RustBuild, Built
  <2>2. \/ Main(lang, r) \in {RustReport(AtApply("text")), RustReport(AtApply(r.diag)),
                              RustReport(AtBuild(r.diag))}
        \/ b \notin {"failed", "raised"} /\ Main(lang, r) = RustReport(AtTest(t))
    <3> HIDE DEF a, b, t
    <3> QED BY <1>3, <2>0, <2>1 DEF Main, RustMain
  <2> QED BY <2>2 DEF Reports
<1>4. CASE lang = "ts"
  <2>1. /\ a = TsApplyPatch(r.env) /\ b = TsBuild(a.tree, r.disk, r.diag)
        /\ t = TsTest(a.tree, r.suite, r.backend)
    BY <1>4 DEF Patched, Build, Test
  <2>0. b # "raised"
    BY <1>4, <2>1 DEF TsBuild, Built
  <2>2. \/ Main(lang, r) = Nothing
        \/ Main(lang, r) \in {TsReport(AtApply("text")), TsReport(AtApply(r.diag)),
                              TsReport(AtBuild(r.diag))}
        \/ b \notin {"failed", "raised"} /\ Main(lang, r) = TsReport(AtTest(t))
    <3> HIDE DEF a, b, t
    <3> QED BY <1>4, <2>0, <2>1 DEF Main, TsMain
  <2> QED BY <2>2 DEF Reports
<1> QED BY <1>1, <1>2, <1>3, <1>4 DEF Langs

\* The fields of what is printed.
LEMMA PrintedFields ==
    ASSUME NEW p, NEW reads
    PROVE  Printed(p, reads).judged = p /\ Printed(p, reads).reads = reads
BY DEF Printed

\* A payload says that the tests passed where their exit code is 0.
LEMMA PayloadJudges ==
    ASSUME NEW applied, NEW built, NEW exit, NEW out, NEW stage
    PROVE  Payload(applied, built, exit, out, stage).tests_passed <=> exit = 0
BY DEF Payload

\* The host reads an empty object only where the run may print one.
LEMMA EmptyIsEmbedded ==
    ASSUME NEW r, NEW lang \in Langs, Main(lang, r).reads = "empty"
    PROVE  Embeds(r)
<1> DEFINE R == Main(lang, r)
           t == Test(lang, Patched(lang, r.env).tree, r)
<1>1. R # Nothing
  BY DEF Nothing
<1>2. ASSUME NEW applied, NEW built, NEW exit, NEW text, NEW stage,
             R \in Reports(Payload(applied, built, exit, text, stage))
      PROVE  text = "embedded"
  <2> HIDE DEF R
  <2>1. PICK kept, reads : /\ R = Printed(Payload(applied, built, exit, kept, stage), reads)
                           /\ reads = "empty" => text = "embedded"
    BY <1>1, <1>2, Reported
  <2>2. R.reads = reads
    BY <2>1, PrintedFields
  <2> QED BY <2>1, <2>2 DEF R
<1>3. t.out \in {r.suite.out, "none", "raised"}
  BY DEF Test, PyTest, GoTest, RustTest, TsTest, Langs
<1>4. \/ R \in Reports(AtApply("text")) \/ R \in Reports(AtApply(r.diag))
      \/ R \in Reports(AtBuild(r.diag)) \/ R \in Reports(AtTest(t))
  BY <1>1, MainStages
<1> HIDE DEF R, t
<1> QED BY <1>2, <1>3, <1>4 DEF AtApply, AtBuild, AtTest, Embeds

\* A payload that says the tests passed is true, whichever entrypoint printed it and
\* however many operations the envelope has: the tree that the envelope's operations mean
\* compiles and passes, as far as the entrypoint reads the envelope as it is.
THEOREM SuccessIsReal ==
    ASSUME NEW r, WellFormed(r.env), WellOps(r.env.ops), r.suite.sig \in Nat,
           NEW lang \in Langs, lang = "rust" => Balanced(r.env) /\ Literal(r.env),
           Main(lang, r) # Nothing, Main(lang, r).judged.tests_passed
    PROVE  Compiles(Meant(r.env.ops)) /\ Passes(Meant(r.env.ops))
<1> DEFINE R == Main(lang, r)
           M == Meant(r.env.ops)
           b == Build(lang, M, r)
           t == Test(lang, M, r)
<1>0. R # Nothing /\ R.judged.tests_passed
  OBVIOUS
<1>1. Patched(lang, r.env).tree = M
  BY AllApply DEF Applied
<1>2. ASSUME NEW applied, NEW built, NEW exit, NEW text, NEW stage,
             R \in Reports(Payload(applied, built, exit, text, stage))
      PROVE  exit = 0
  <2> HIDE DEF R
  <2>1. PICK kept, reads : R = Printed(Payload(applied, built, exit, kept, stage), reads)
    BY <1>2, <1>0, Reported
  <2>2. R.judged = Payload(applied, built, exit, kept, stage) /\ R.judged.tests_passed
    BY <1>0, <2>1, PrintedFields
  <2>3. Payload(applied, built, exit, kept, stage).tests_passed
    BY <2>2, Zenon
  <2> QED BY <2>3, PayloadJudges
<1>3. \/ R \in Reports(AtApply("text")) \/ R \in Reports(AtApply(r.diag))
      \/ R \in Reports(AtBuild(r.diag)) \/ (b \notin {"failed", "raised"} /\ R \in Reports(AtTest(t)))
  BY <1>1, MainStages
<1> HIDE DEF R
<1>4. b \notin {"failed", "raised"} /\ t.exit = 0
  <2> HIDE DEF b, t
  <2>1. -1 # 0
    OBVIOUS
  <2> QED BY <1>2, <1>3, <2>1 DEF AtApply, AtBuild, AtTest
<1>5. Compiles(M)
  <2> HIDE DEF M
  <2>1. CASE lang = "python"
    BY <1>4, <2>1 DEF Build, PyBuild, Built
  <2>2. CASE lang = "go"
    BY <1>4, <2>2 DEF Build, GoBuild, Built
  <2>3. CASE lang = "rust"
    BY <1>4, <2>3 DEF Build, RustBuild, Built
  <2>4. CASE lang = "ts"
    BY <1>4, <2>4 DEF Build, TsBuild, Built
  <2> QED BY <2>1, <2>2, <2>3, <2>4 DEF Langs
<1>6. Pytest(M) = 0
  <2>1. CASE lang = "python"
    BY <1>4, <2>1 DEF Test, PyTest
  <2>2. CASE lang = "go"
    BY <1>4, <2>2 DEF Test, GoTest
  <2>3. CASE lang = "rust"
    BY <1>4, <2>3 DEF Test, RustTest
  <2>4. CASE lang = "ts"
    BY <1>4, <2>4 DEF Test, TsTest
  <2> QED BY <2>1, <2>2, <2>3, <2>4 DEF Langs
<1> QED BY <1>5, <1>6 DEF Pytest

\* What every entrypoint prints on an ordinary request, from the tree the operations mean.
Usual(r) ==
    LET M == Meant(r.env.ops)
    IN  IF Compiles(M)
        THEN Printed(Payload(TRUE, TRUE,
                             IF r.suite.sig # 0 THEN -r.suite.sig ELSE Pytest(M),
                             Kept(r.suite.out), "test"), "whole")
        ELSE Printed(AtBuild(r.diag), "whole")

\* On an ordinary request every entrypoint prints that, and the host reads all of it.
THEOREM OneJudgement ==
    ASSUME NEW r, Ordinary(r), WellOps(r.env.ops), NEW lang \in Langs
    PROVE  Main(lang, r) = Usual(r)
<1> DEFINE R == Main(lang, r)
           M == Meant(r.env.ops)
           a == Patched(lang, r.env)
           b == Build(lang, M, r)
           t == Test(lang, M, r)
           exit == IF r.suite.sig # 0 THEN -r.suite.sig ELSE Pytest(M)
           p == IF Compiles(M) THEN AtTest(t) ELSE AtBuild(r.diag)
<1>1. /\ WellFormed(r.env) /\ Balanced(r.env) /\ Literal(r.env)
      /\ r.diag \in {"text", "network"}
      /\ r.disk = "ok" /\ r.backend # "file"
      /\ r.suite.sig \in {0, 6, 9, 11, 15}
      /\ r.suite.out \in {"none", "text", "network", "lost"}
  BY DEF Ordinary
<1>2. a.st = "applied" /\ a.tree = M
  BY <1>1, AllApply DEF Applied
<1>3. r.disk # "build" /\ r.diag # "huge"
  BY <1>1
<1>4. b = IF Compiles(M) THEN "built" ELSE "failed"
  <2> HIDE DEF M
  <2>1. CASE lang = "python"
    BY <1>3, <2>1 DEF Build, PyBuild, Built
  <2>2. CASE lang = "go"
    BY <1>3, <2>2 DEF Build, GoBuild, Built
  <2>3. CASE lang = "rust"
    BY <1>3, <2>3 DEF Build, RustBuild, Built
  <2>4. CASE lang = "ts"
    BY <1>3, <2>4 DEF Build, TsBuild, Built
  <2> QED BY <2>1, <2>2, <2>3, <2>4 DEF Langs
<1>5. t = [exit |-> exit, out |-> r.suite.out]
  <2>1. CASE lang = "python"
    BY <1>1, <2>1 DEF Test, PyTest
  <2>2. CASE lang = "go"
    BY <1>1, <2>2 DEF Test, GoTest
  <2>3. CASE lang = "rust"
    BY <1>1, <2>3 DEF Test, RustTest
  <2>4. CASE lang = "ts"
    BY <1>1, <2>4 DEF Test, TsTest
  <2> QED BY <2>1, <2>2, <2>3, <2>4 DEF Langs
<1>6. t.exit = exit /\ t.out = r.suite.out /\ t.out # "raised"
  BY <1>1, <1>5
<1>7. R \in Reports(p)
  <2>1. CASE lang = "python"
    <3>1. a = PyApplyPatch(r.env) /\ b = PyBuild(M, r.disk) /\ t = PyTest(M, r.suite, r.backend)
      BY <2>1 DEF Patched, Build, Test
    <3> HIDE DEF a, b, t, M
    <3>2. R = PyReport(p)
      BY <1>1, <1>2, <1>4, <1>6, <2>1, <3>1 DEF Main, PyMain
    <3> QED BY <3>2 DEF Reports
  <2>2. CASE lang = "go"
    <3>1. a = GoApplyPatch(r.env) /\ b = GoBuild(M, r.disk) /\ t = GoTest(M, r.suite, r.backend)
      BY <2>2 DEF Patched, Build, Test
    <3> HIDE DEF a, b, t, M
    <3>2. R = GoReport(p)
      BY <1>1, <1>2, <1>4, <2>2, <3>1 DEF Main, GoMain
    <3> QED BY <3>2 DEF Reports
  <2>3. CASE lang = "rust"
    <3>1. a = RustApplyPatch(r.env) /\ b = RustBuild(M, r.disk) /\ t = RustTest(M, r.suite, r.backend)
      BY <2>3 DEF Patched, Build, Test
    <3> HIDE DEF a, b, t, M
    <3>2. R = RustReport(p)
      BY <1>1, <1>2, <1>4, <2>3, <3>1 DEF Main, RustMain
    <3> QED BY <3>2 DEF Reports
  <2>4. CASE lang = "ts"
    <3>1. a = TsApplyPatch(r.env) /\ b = TsBuild(M, r.disk, r.diag) /\ t = TsTest(M, r.suite, r.backend)
      BY <2>4 DEF Patched, Build, Test
    <3> HIDE DEF a, b, t, M
    <3>2. R = TsReport(p)
      BY <1>1, <1>2, <1>4, <2>4, <3>1 DEF Main, TsMain
    <3> QED BY <3>2 DEF Reports
  <2> QED BY <2>1, <2>2, <2>3, <2>4 DEF Langs
<1> HIDE DEF R, M, a, b, t, exit, p
<1>8. CASE Compiles(M)
  <2>1. p = Payload(TRUE, TRUE, exit, r.suite.out, "test")
    BY <1>6, <1>8 DEF p, AtTest
  <2>2. R \in Reports(Payload(TRUE, TRUE, exit, r.suite.out, "test"))
    BY <1>7, <2>1
  <2>3. R = Printed(Payload(TRUE, TRUE, exit, Kept(r.suite.out), "test"), "whole")
    BY <1>1, <2>2, ReportedWhole
  <2> QED BY <1>8, <2>3 DEF Usual, R, M, exit
<1>9. CASE ~Compiles(M)
  <2>1. p = Payload(TRUE, FALSE, -1, r.diag, "build") /\ AtBuild(r.diag) = p
    BY <1>9 DEF p, AtBuild
  <2>2. Kept(r.diag) = r.diag
    BY <1>1 DEF Kept
  <2>3. R \in Reports(Payload(TRUE, FALSE, -1, r.diag, "build"))
    BY <1>7, <2>1
  <2>4. R = Printed(Payload(TRUE, FALSE, -1, Kept(r.diag), "build"), "whole")
    BY <1>1, <2>3, ReportedWhole
  <2> QED BY <1>9, <2>1, <2>2, <2>4 DEF Usual, R, M
<1> QED BY <1>8, <1>9

=============================================================================
