------------------------------ MODULE RpcProofs ------------------------------
(***************************************************************************)
(* What a message is written as reads as that message or not at all, for   *)
(* every message of the proto files; so what the two ends of a call have   *)
(* in their hands is the same.                                             *)
(***************************************************************************)
EXTENDS Rpc, SequenceTheorems, WellFoundedInduction, NaturalsInduction, TLAPS

(***************************************************************************)
(* Folds                                                                   *)
(***************************************************************************)
\* Induction over the numbers, for a set of them.
LEMMA AllNumbers ==
  ASSUME NEW S, 0 \in S, \A n \in Nat : n \in S => n + 1 \in S
  PROVE  Nat \subseteq S
PROOF
  <1> DEFINE R == OpToRel(<, Nat)
             T == Nat \ S
  <1> SUFFICES ASSUME T # {} PROVE FALSE
    OBVIOUS
  <1>1. IsWellFoundedOn(R, Nat)
    BY NatLessThanWellFounded
  <1>2. PICK x \in T : \A y \in T : ~(<<y, x>> \in R)
    <2> HIDE DEF R, T
    <2>1. T \subseteq Nat
      BY DEF T
    <2> QED BY <1>1, <2>1, WFMin
  <1>3. x \in Nat /\ x # 0 /\ x - 1 \in Nat /\ x - 1 < x
    <2>1. x \in Nat /\ x \notin S
      BY <1>2, Zenon
    <2>2. x # 0
      BY <2>1, Zenon
    <2> QED BY <2>1, <2>2
  <1>4. x - 1 \in T
    <2>1. (x - 1) + 1 = x
      BY <1>3
    <2>2. x \notin S
      BY <1>2, Zenon
    <2>3. x - 1 \notin S
      BY <1>3, <2>1, <2>2
    <2> QED BY <1>3, <2>3, Zenon
  <1>5. <<x - 1, x>> \in R
    BY <1>3 DEF OpToRel
  <1> HIDE DEF R, T
  <1> QED
    BY <1>2, <1>4, <1>5

\* One turn of either loop, and f as the fold of its turns over b[1]..b[n].
Turn(e, schema, m, t) ==
  IF e = 1 THEN ParseField(schema, m, t) ELSE ParseScalar(schema, m, t)

IsFold(e, schema, b, f, n) ==
  f = [s \in SUBSET (1..n) |->
         IF s = {} THEN Cleared(schema)
         ELSE Turn(e, schema, f[s \ {Max(s)}], b[Max(s)])]

LEMMA MaxOfPrefix ==
  ASSUME NEW n \in Nat, NEW s \in SUBSET (1 .. n + 1), n + 1 \in s
  PROVE  Max(s) = n + 1
PROOF
  <1>1. \A y \in s : n + 1 >= y
    OBVIOUS
  <1>2. \A x \in s : (\A y \in s : x >= y) => x = n + 1
    OBVIOUS
  <1>3. Max(s) \in s /\ \A y \in s : Max(s) >= y
    BY <1>1, Zenon DEF Max
  <1> QED BY <1>2, <1>3

LEMMA FoldExists ==
  ASSUME NEW e, NEW schema, NEW b, NEW n \in Nat
  PROVE  \E f : IsFold(e, schema, b, f, n)
PROOF
  <1> DEFINE S == {k \in Nat : \E f : IsFold(e, schema, b, f, k)}
  <1>1. 0 \in S
    <2> DEFINE g == [s \in SUBSET (1..0) |-> Cleared(schema)]
    <2>1. \A s \in SUBSET (1..0) : s = {}
      OBVIOUS
    <2>2. IsFold(e, schema, b, g, 0)
      BY <2>1 DEF IsFold
    <2> QED BY <2>2
  <1>2. ASSUME NEW k \in Nat, k \in S
        PROVE  k + 1 \in S
    <2>1. PICK f : IsFold(e, schema, b, f, k)
      BY <1>2
    <2> DEFINE g == [s \in SUBSET (1 .. k + 1) |->
                       IF k + 1 \in s THEN Turn(e, schema, f[s \ {k + 1}], b[k + 1])
                       ELSE f[s]]
    <2>2. ASSUME NEW s \in SUBSET (1 .. k + 1)
          PROVE  g[s] = IF s = {} THEN Cleared(schema)
                        ELSE Turn(e, schema, g[s \ {Max(s)}], b[Max(s)])
      <3>1. CASE k + 1 \in s
        <4>1. Max(s) = k + 1 /\ s # {}
          BY <3>1, MaxOfPrefix
        <4>2. s \ {k + 1} \in SUBSET (1 .. k + 1) /\ k + 1 \notin s \ {k + 1}
          OBVIOUS
        <4>3. g[s \ {k + 1}] = f[s \ {k + 1}]
          BY <4>2
        <4> QED BY <3>1, <4>1, <4>3
      <3>2. CASE k + 1 \notin s
        <4>1. s \in SUBSET (1..k)
          BY <3>2
        <4>2. f[s] = IF s = {} THEN Cleared(schema)
                     ELSE Turn(e, schema, f[s \ {Max(s)}], b[Max(s)])
          BY <2>1, <4>1 DEF IsFold
        <4>3. s \ {Max(s)} \in SUBSET (1 .. k + 1) /\ k + 1 \notin s \ {Max(s)}
          BY <3>2
        <4>4. g[s \ {Max(s)}] = f[s \ {Max(s)}]
          BY <4>3
        <4> QED BY <3>2, <4>2, <4>4
      <3> QED BY <3>1, <3>2
    <2> HIDE DEF g
    <2>3. g = [s \in SUBSET (1 .. k + 1) |-> g[s]]
      BY DEF g
    <2>4. IsFold(e, schema, b, g, k + 1)
      BY <2>2, <2>3 DEF IsFold
    <2> QED BY <2>4
  <1>3. Nat \subseteq S
    <2> HIDE DEF S
    <2> QED BY <1>1, <1>2, AllNumbers
  <1> QED BY <1>3

Agree(b, c, n) == \A i \in 1..n : b[i] = c[i]

LEMMA FoldUnique ==
  ASSUME NEW e, NEW schema, NEW b, NEW c, NEW f, NEW g, NEW n \in Nat, NEW m \in Nat, n <= m,
         IsFold(e, schema, b, f, n), IsFold(e, schema, c, g, m), Agree(b, c, n)
  PROVE  \A s \in SUBSET (1..n) : f[s] = g[s]
PROOF
  <1> DEFINE S == {k \in Nat : k <= n => \A s \in SUBSET (1..k) : f[s] = g[s]}
  <1>1. ASSUME NEW s \in SUBSET (1..n)
        PROVE  /\ f[s] = IF s = {} THEN Cleared(schema)
                         ELSE Turn(e, schema, f[s \ {Max(s)}], b[Max(s)])
               /\ g[s] = IF s = {} THEN Cleared(schema)
                         ELSE Turn(e, schema, g[s \ {Max(s)}], c[Max(s)])
    <2>1. s \in SUBSET (1..m)
      OBVIOUS
    <2> QED BY <2>1 DEF IsFold
  <1>2. 0 \in S
    <2>1. \A s \in SUBSET (1..0) : s = {} /\ s \in SUBSET (1..n)
      OBVIOUS
    <2> QED BY <1>1, <2>1
  <1>3. ASSUME NEW k \in Nat, k \in S
        PROVE  k + 1 \in S
    <2> SUFFICES ASSUME k + 1 <= n, NEW s \in SUBSET (1 .. k + 1)
                 PROVE  f[s] = g[s]
      OBVIOUS
    <2>1. CASE k + 1 \in s
      <3>1. Max(s) = k + 1 /\ s # {}
        BY <2>1, MaxOfPrefix
      <3>2. s \ {k + 1} \in SUBSET (1..k) /\ s \in SUBSET (1..n) /\ k + 1 \in 1..n
        OBVIOUS
      <3>3. f[s \ {k + 1}] = g[s \ {k + 1}]
        BY <1>3, <3>2
      <3>4. b[k + 1] = c[k + 1]
        BY <3>2 DEF Agree
      <3>5. /\ f[s] = Turn(e, schema, f[s \ {k + 1}], b[k + 1])
            /\ g[s] = Turn(e, schema, g[s \ {k + 1}], c[k + 1])
        BY <1>1, <3>1, <3>2
      <3> QED BY <3>3, <3>4, <3>5
    <2>2. CASE k + 1 \notin s
      <3>1. s \in SUBSET (1..k)
        BY <2>2
      <3> QED BY <1>3, <3>1
    <2> QED BY <2>1, <2>2
  <1>4. Nat \subseteq S
    <2> HIDE DEF S
    <2> QED BY <1>2, <1>3, AllNumbers
  <1> QED BY <1>4

\* The two loops are such folds.
LEMMA ParseIsFold ==
  ASSUME NEW schema, NEW b, NEW n \in Nat, DOMAIN b = 1..n
  PROVE  /\ \E f : IsFold(0, schema, b, f, n) /\ ParseScalars(schema, b) = f[1..n]
         /\ \E f : IsFold(1, schema, b, f, n) /\ ParseFromArray(schema, b) = f[1..n]
PROOF
  <1> DEFINE EqS(f) == f = [s \in SUBSET DOMAIN b |->
                              IF s = {} THEN Cleared(schema)
                              ELSE ParseScalar(schema, f[s \ {Max(s)}], b[Max(s)])]
             EqF(f) == f = [s \in SUBSET DOMAIN b |->
                              IF s = {} THEN Cleared(schema)
                              ELSE ParseField(schema, f[s \ {Max(s)}], b[Max(s)])]
  <1>1. ParseScalars(schema, b) = (CHOOSE f : EqS(f))[DOMAIN b]
    BY DEF ParseScalars, FoldLeft, MapThenFoldSet
  <1>2. ParseFromArray(schema, b) = (CHOOSE f : EqF(f))[DOMAIN b]
    BY DEF ParseFromArray, FoldLeft, MapThenFoldSet
  <1>3. \A f : EqS(f) <=> IsFold(0, schema, b, f, n)
    BY DEF IsFold, Turn
  <1>4. \A f : EqF(f) <=> IsFold(1, schema, b, f, n)
    BY DEF IsFold, Turn
  <1> HIDE DEF EqS, EqF
  <1>5. EqS(CHOOSE f : EqS(f))
    <2>1. \E f : EqS(f)
      BY <1>3, FoldExists
    <2> QED BY <2>1, Zenon
  <1>6. EqF(CHOOSE f : EqF(f))
    <2>1. \E f : EqF(f)
      BY <1>4, FoldExists
    <2> QED BY <2>1, Zenon
  <1> QED BY <1>1, <1>2, <1>3, <1>4, <1>5, <1>6

\* Nothing read leaves the cleared message.
LEMMA ParseNothing ==
  ASSUME NEW schema
  PROVE  /\ ParseScalars(schema, <<>>) = Cleared(schema)
         /\ ParseFromArray(schema, <<>>) = Cleared(schema)
PROOF
  <1>1. DOMAIN <<>> = 1..0 /\ 0 \in Nat /\ 1..0 = {} /\ {} \in SUBSET (1..0)
    OBVIOUS
  <1>2. \A e, f : IsFold(e, schema, <<>>, f, 0) => f[1..0] = Cleared(schema)
    BY <1>1 DEF IsFold
  <1>3. /\ \E f : IsFold(0, schema, <<>>, f, 0) /\ ParseScalars(schema, <<>>) = f[1..0]
        /\ \E f : IsFold(1, schema, <<>>, f, 0) /\ ParseFromArray(schema, <<>>) = f[1..0]
    BY <1>1, ParseIsFold
  <1> QED BY <1>2, <1>3

\* One more tag is one more turn.
LEMMA ParseMore ==
  ASSUME NEW schema, NEW X, NEW w \in Seq(X), NEW t \in X
  PROVE  /\ ParseScalars(schema, Append(w, t)) = ParseScalar(schema, ParseScalars(schema, w), t)
         /\ ParseFromArray(schema, Append(w, t))
              = ParseField(schema, ParseFromArray(schema, w), t)
PROOF
  <1> DEFINE n == Len(w)
             u == Append(w, t)
  <1>1. n \in Nat /\ DOMAIN w = 1..n /\ DOMAIN u = 1 .. n + 1
    BY LenProperties, AppendProperties
  <1>2. u[n + 1] = t /\ \A i \in 1..n : w[i] = u[i]
    BY AppendProperties
  <1> HIDE DEF n, u
  <1>3. ASSUME NEW e, NEW f, NEW g,
               IsFold(e, schema, w, f, n), IsFold(e, schema, u, g, n + 1)
        PROVE  g[1 .. n + 1] = Turn(e, schema, f[1..n], t)
    <2> DEFINE s == 1 .. n + 1
    <2>1. s \in SUBSET (1 .. n + 1) /\ n + 1 \in s /\ s \ {n + 1} = 1..n /\ s # {}
      <3>1. s \ {n + 1} = 1..n
        BY <1>1
      <3>2. n + 1 \in s
        BY <1>1
      <3> QED BY <3>1, <3>2
    <2>2. Max(s) = n + 1
      BY <1>1, <2>1, MaxOfPrefix
    <2>3. g[s] = Turn(e, schema, g[1..n], t)
      <3> HIDE DEF s
      <3>1. g[s] = Turn(e, schema, g[s \ {Max(s)}], u[Max(s)])
        BY <1>3, <2>1 DEF IsFold
      <3> QED BY <1>2, <2>1, <2>2, <3>1
    <2>4. f[1..n] = g[1..n]
      <3>1. n + 1 \in Nat /\ n <= n + 1 /\ 1..n \in SUBSET (1..n)
        BY <1>1
      <3>2. \A r \in SUBSET (1..n) : f[r] = g[r]
        <4> HIDE DEF s
        <4>1. IsFold(e, schema, w, f, n) /\ IsFold(e, schema, u, g, n + 1)
          BY <1>3
        <4>2. Agree(w, u, n)
          BY <1>2 DEF Agree
        <4> QED BY <1>1, <3>1, <4>1, <4>2, FoldUnique
      <3> QED BY <3>1, <3>2
    <2> QED BY <2>3, <2>4
  <1>4. /\ \E f : IsFold(0, schema, w, f, n) /\ ParseScalars(schema, w) = f[1..n]
        /\ \E f : IsFold(1, schema, w, f, n) /\ ParseFromArray(schema, w) = f[1..n]
    BY <1>1, ParseIsFold
  <1>5. /\ \E f : IsFold(0, schema, u, f, n + 1) /\ ParseScalars(schema, u) = f[1 .. n + 1]
        /\ \E f : IsFold(1, schema, u, f, n + 1) /\ ParseFromArray(schema, u) = f[1 .. n + 1]
    <2>1. n + 1 \in Nat
      BY <1>1
    <2> QED BY <1>1, <2>1, ParseIsFold
  <1>6. \A m : Turn(0, schema, m, t) = ParseScalar(schema, m, t)
               /\ Turn(1, schema, m, t) = ParseField(schema, m, t)
    BY DEF Turn
  <1> QED BY <1>3, <1>4, <1>5, <1>6 DEF u

\* A flattened sequence grows by one of its sequences at a time.
GrowsTo(X, seqs, pre) ==
  /\ pre[0] = <<>>
  /\ \A i \in 0..Len(seqs) : pre[i] \in Seq(X)
  /\ \A i \in 1..Len(seqs) : pre[i] = pre[i - 1] \o seqs[i]
  /\ FlattenSeq(seqs) = pre[Len(seqs)]

LEMMA Flattened ==
  ASSUME NEW X, NEW seqs \in Seq(Seq(X))
  PROVE  \E pre : GrowsTo(X, seqs, pre)
PROOF
  <1> DEFINE L == Len(seqs)
             Eq(f, n) == f = [i \in 1..n |-> IF i = 1 THEN seqs[i] ELSE f[i - 1] \o seqs[i]]
             Has(n) == \E f : Eq(f, n) /\ \A i \in 1..n : f[i] \in Seq(X)
             S == {n \in Nat : n <= L => Has(n)}
  <1>0. L \in Nat /\ \A i \in 1..L : seqs[i] \in Seq(X)
    OBVIOUS
  <1>1. 0 \in S
    <2>1. Eq([i \in 1..0 |-> <<>>], 0)
      OBVIOUS
    <2>2. \A i \in 1..0 : FALSE
      OBVIOUS
    <2>3. Has(0)
      <3> HIDE DEF Eq
      <3> QED BY <2>1, <2>2
    <2> HIDE DEF Has, L
    <2> QED BY <2>3
  <1>2. ASSUME NEW n \in Nat, n \in S
        PROVE  n + 1 \in S
    <2> SUFFICES ASSUME n + 1 <= L
                 PROVE  Has(n + 1)
      <3> HIDE DEF Has
      <3> QED OBVIOUS
    <2>0. Has(n)
      <3> HIDE DEF Has
      <3> QED BY <1>0, <1>2
    <2>1. PICK f : Eq(f, n) /\ \A i \in 1..n : f[i] \in Seq(X)
      <3> HIDE DEF Eq
      <3> QED BY <2>0
    <2> DEFINE new == IF n = 0 THEN seqs[1] ELSE f[n] \o seqs[n + 1]
               g == [i \in 1 .. n + 1 |-> IF i = n + 1 THEN new ELSE f[i]]
    <2>2. new \in Seq(X)
      <3>1. CASE n = 0
        BY <1>0, <3>1
      <3>2. CASE n # 0
        <4>1. f[n] \in Seq(X) /\ seqs[n + 1] \in Seq(X)
          BY <1>0, <2>1, <3>2
        <4> QED BY <3>2, <4>1, ConcatProperties
      <3> QED BY <3>1, <3>2
    <2>3. ASSUME NEW i \in 1 .. n + 1
          PROVE  g[i] = IF i = 1 THEN seqs[i] ELSE g[i - 1] \o seqs[i]
      <3>1. CASE i = n + 1
        BY <3>1
      <3>2. CASE i # n + 1
        <4>1. i \in 1..n /\ (i # 1 => i - 1 \in 1..n)
          BY <3>2
        <4>2. f[i] = IF i = 1 THEN seqs[i] ELSE f[i - 1] \o seqs[i]
          BY <2>1, <4>1
        <4>3. g[i] = f[i] /\ (i # 1 => g[i - 1] = f[i - 1])
          BY <3>2, <4>1
        <4> QED BY <4>2, <4>3
      <3> QED BY <3>1, <3>2
    <2>4. Eq(g, n + 1)
      <3>1. g = [i \in 1 .. n + 1 |-> g[i]]
        OBVIOUS
      <3> HIDE DEF g
      <3> QED BY <2>3, <3>1
    <2>5. \A i \in 1 .. n + 1 : g[i] \in Seq(X)
      <3> HIDE DEF new
      <3> QED BY <2>1, <2>2
    <2> HIDE DEF Eq, g
    <2> QED BY <2>4, <2>5
  <1>3. Nat \subseteq S
    <2> HIDE DEF S
    <2> QED BY <1>1, <1>2, AllNumbers
  <1>4. \E f : Eq(f, L)
    <2>1. Has(L)
      <3> HIDE DEF Has
      <3> QED BY <1>0, <1>3
    <2> HIDE DEF Eq
    <2> QED BY <2>1
  <1>5. CASE L = 0
    <2>1. seqs = <<>> /\ FlattenSeq(seqs) = seqs
      BY <1>5 DEF FlattenSeq
    <2> DEFINE pre == [i \in {0} |-> <<>>]
    <2>2. GrowsTo(X, seqs, pre)
      BY <1>5, <2>1 DEF GrowsTo
    <2> QED BY <2>2
  <1>6. CASE L # 0
    <2> DEFINE f == CHOOSE h : Eq(h, L)
               pre == [i \in 0..L |-> IF i = 0 THEN <<>> ELSE f[i]]
    <2>1. FlattenSeq(seqs) = f[L]
      BY <1>6 DEF FlattenSeq
    <2>2. Eq(f, L)
      <3> HIDE DEF Eq
      <3> QED BY <1>4, Zenon
    <2> HIDE DEF f
    <2>3. \A i \in 1..L : f[i] = IF i = 1 THEN seqs[i] ELSE f[i - 1] \o seqs[i]
      BY <2>2
    <2>4. ASSUME NEW i \in 1..L
          PROVE  pre[i] = pre[i - 1] \o seqs[i]
      <3>1. CASE i = 1
        <4>1. pre[i] = seqs[i] /\ pre[i - 1] = <<>>
          BY <2>3, <3>1, <1>0
        <4> QED BY <1>0, <4>1, ConcatEmptySeq
      <3>2. CASE i # 1
        <4>1. i - 1 \in 0..L /\ i - 1 # 0 /\ i \in 0..L /\ i # 0
          BY <1>0, <3>2
        <4>2. pre[i] = f[i] /\ pre[i - 1] = f[i - 1]
          BY <4>1
        <4> QED BY <2>3, <3>2, <4>2
      <3> QED BY <3>1, <3>2
    <2>5. pre[0] = <<>> /\ pre[L] = f[L]
      BY <1>0, <1>6
    <2> DEFINE U == {n \in Nat : n <= L => pre[n] \in Seq(X)}
    <2>6. Nat \subseteq U
      <3>1. 0 \in U
        BY <2>5, EmptySeq
      <3>2. ASSUME NEW n \in Nat, n \in U PROVE n + 1 \in U
        <4> HIDE DEF pre
        <4> SUFFICES ASSUME n + 1 <= L PROVE pre[n + 1] \in Seq(X)
          OBVIOUS
        <4>1. n + 1 \in 1..L /\ (n + 1) - 1 = n /\ n <= L
          BY <1>0
        <4>2. pre[n + 1] = pre[n] \o seqs[n + 1]
          BY <2>4, <4>1
        <4> QED BY <1>0, <3>2, <4>1, <4>2, ConcatProperties
      <3> HIDE DEF U
      <3> QED BY <3>1, <3>2, AllNumbers
    <2>7. \A i \in 0..L : pre[i] \in Seq(X)
      <3> HIDE DEF pre
      <3> QED BY <1>0, <2>6
    <2> HIDE DEF pre
    <2>8. GrowsTo(X, seqs, pre)
      BY <2>1, <2>4, <2>5, <2>7 DEF GrowsTo
    <2> QED BY <2>8
  <1> QED BY <1>5, <1>6
-----------------------------------------------------------------------------
(* Schemas and turns of the loops *)

\* The fields are numbered from 1 and no two have the same name.
IsSchema(s) ==
  /\ s \in Seq(ToSet(s)) /\ Len(s) < 16
  /\ \A i \in 1..Len(s) : s[i].num = i
  /\ \A i, j \in 1..Len(s) : s[i].name = s[j].name => i = j

\* Assignments to the parts of a message.
WithVal(m, n, x) == [m EXCEPT !.val[n] = x]
WithValOk(m, n, x, o) == [m EXCEPT !.val[n] = x, !.ok = o]
WithUnknown(m, u) == [m EXCEPT !.unknown = u]

LEMMA Named ==
  ASSUME NEW s, IsSchema(s), NEW i \in 1..Len(s)
  PROVE  FieldNamed(s, s[i].name) = s[i] /\ s[i].name \in FieldNames(s)
PROOF
  <1>1. ToSet(s) = {s[j] : j \in 1..Len(s)} /\ DOMAIN s = 1..Len(s)
    BY DEF ToSet, IsSchema
  <1>2. \A f \in ToSet(s) : f.name = s[i].name => f = s[i]
    BY <1>1 DEF IsSchema
  <1>3. s[i] \in ToSet(s)
    BY <1>1
  <1>4. FieldNamed(s, s[i].name) = s[i]
    BY <1>2, <1>3 DEF FieldNamed
  <1> QED BY <1>1, <1>4 DEF FieldNames

\* A tag with the number and the wire type of a field is for that field.
LEMMA Expected ==
  ASSUME NEW s, IsSchema(s), NEW i \in 1..Len(s), NEW t, Num(t) = i, t[2] = WireType(s[i])
  PROVE  {f \in ToSet(s) : Expects(f, t)} = {s[i]}
PROOF
  <1>1. ToSet(s) = {s[j] : j \in 1..Len(s)}
    BY DEF ToSet, IsSchema
  <1>2. \A j \in 1..Len(s) : Expects(s[j], t) => j = i
    BY DEF Expects, IsSchema
  <1>3. Expects(s[i], t)
    BY DEF Expects, IsSchema
  <1> QED BY <1>1, <1>2, <1>3

LEMMA TurnOfScalar ==
  ASSUME NEW s, IsSchema(s), NEW i \in 1..Len(s), NEW t, Num(t) = i, t[2] = WireType(s[i]),
         ~IsEmbedded(s[i]), NEW m, m.ok
  PROVE  /\ ParseField(s, m, t) = ParseScalar(s, m, t)
         /\ s[i].kind = "packed" =>
              ParseScalar(s, m, t) = WithVal(m, s[i].name, m.val[s[i].name] \o Val(t))
         /\ s[i].kind # "packed" =>
              ParseScalar(s, m, t) =
                WithValOk(m, s[i].name, Converted(s[i], Val(t)),
                     ~(s[i].kind = "string" /\ Val(t) = NotUtf8))
PROOF
  <1> DEFINE fs == {f \in ToSet(s) : Expects(f, t)}
  <1>1. fs = {s[i]}
    BY Expected
  <1>2. {f \in ToSet(s) : IsEmbedded(f) /\ Expects(f, t)} = {}
    BY <1>1
  <1>3. ParseField(s, m, t) = ParseScalar(s, m, t)
    BY <1>2 DEF ParseField
  <1>4. (CHOOSE g \in fs : TRUE) = s[i] /\ fs # {}
    BY <1>1
  <1>5. s[i].kind = "packed" => t[2] # "varint"
    BY DEF WireType
  <1> HIDE DEF fs
  <1>6. s[i].kind = "packed" =>
          ParseScalar(s, m, t) = WithVal(m, s[i].name, m.val[s[i].name] \o Val(t))
    BY <1>4, <1>5 DEF ParseScalar, fs, WithVal
  <1>7. s[i].kind # "packed" =>
          ParseScalar(s, m, t) =
            WithValOk(m, s[i].name, Converted(s[i], Val(t)),
                 ~(s[i].kind = "string" /\ Val(t) = NotUtf8))
    BY <1>4 DEF ParseScalar, fs, WithValOk
  <1> QED BY <1>3, <1>6, <1>7

LEMMA TurnOfElement ==
  ASSUME NEW s, IsSchema(s), NEW i \in 1..Len(s), NEW t, Num(t) = i, t[2] = WireType(s[i]),
         IsEmbedded(s[i]), NEW m, m.ok
  PROVE  LET element == ParseScalars(Embedded[s[i].kind], Val(t)) IN
         ParseField(s, m, t) =
           WithValOk(m, s[i].name, Append(m.val[s[i].name], element), element.ok)
PROOF
  <1> DEFINE fs == {f \in ToSet(s) : IsEmbedded(f) /\ Expects(f, t)}
  <1>1. fs = {s[i]}
    BY Expected
  <1>2. (CHOOSE g \in fs : TRUE) = s[i] /\ fs # {}
    BY <1>1
  <1> HIDE DEF fs
  <1> QED BY <1>2 DEF ParseField, fs, WithValOk

LEMMA TurnOfUnknown ==
  ASSUME NEW s, IsSchema(s), NEW t, Num(t) = 16, NEW m, m.ok
  PROVE  ParseField(s, m, t) = WithUnknown(m, Append(m.unknown, t))
PROOF
  <1>1. ToSet(s) = {s[j] : j \in 1..Len(s)}
    BY DEF ToSet, IsSchema
  <1>2. {f \in ToSet(s) : Expects(f, t)} = {}
    BY <1>1 DEF Expects, IsSchema
  <1>3. {f \in ToSet(s) : IsEmbedded(f) /\ Expects(f, t)} = {}
    BY <1>2
  <1> QED BY <1>2, <1>3 DEF ParseField, ParseScalar, WithUnknown

\* Once it has failed, the loop changes nothing.
LEMMA TurnAfterFailure ==
  ASSUME NEW s, NEW t, NEW m, ~m.ok
  PROVE  ParseField(s, m, t) = m /\ ParseScalar(s, m, t) = m
  BY DEF ParseField, ParseScalar
-----------------------------------------------------------------------------
(* Messages *)

IsMsg(s, m) ==
  /\ m = [ok |-> m.ok, unknown |-> m.unknown, val |-> m.val]
  /\ m.ok \in BOOLEAN
  /\ m.val = [n \in FieldNames(s) |-> m.val[n]]

Default(f) == IF IsRepeated(f) THEN <<>> ELSE 0

\* The values that a field has in the objects of a call.
Fits(f, v) ==
  /\ IsEmbedded(f) => v \in Seq(Elements(Embedded[f.kind]))
  /\ f.kind = "packed" => v \in Seq(ScalarValues)
  /\ ~IsRepeated(f) => v \in Int /\ Converted(f, v) = v

\* An object of a call, with all its fields.
Proper(s, m) ==
  /\ IsMsg(s, m) /\ m.ok /\ m.unknown = <<>>
  /\ \A i \in 1..Len(s) : Fits(s[i], m.val[s[i].name])

\* What p is to be when the fields of m up to number i have been read.
ReadUpTo(s, m, i, p) ==
  /\ IsMsg(s, p)
  /\ p.ok => /\ p.unknown = <<>>
             /\ \A j \in 1..Len(s) : p.val[s[j].name] =
                  IF j <= i THEN m.val[s[j].name] ELSE Default(s[j])

LEMMA SameMsg ==
  ASSUME NEW s, NEW a, NEW b, IsMsg(s, a), IsMsg(s, b),
         a.ok = b.ok, a.unknown = b.unknown, \A n \in FieldNames(s) : a.val[n] = b.val[n]
  PROVE  a = b
PROOF
  <1>1. a.val = b.val
    BY DEF IsMsg
  <1> QED BY <1>1 DEF IsMsg

\* What assignments to its parts make of a message.
LEMMA WithValIs ==
  ASSUME NEW s, NEW p, IsMsg(s, p), NEW n \in FieldNames(s), NEW x
  PROVE  LET q == WithVal(p, n, x) IN
         /\ IsMsg(s, q) /\ q.ok = p.ok /\ q.unknown = p.unknown
         /\ \A k \in FieldNames(s) : q.val[k] = IF k = n THEN x ELSE p.val[k]
  BY DEF IsMsg, WithVal

LEMMA WithValOkIs ==
  ASSUME NEW s, NEW p, IsMsg(s, p), NEW n \in FieldNames(s), NEW x, NEW y \in BOOLEAN
  PROVE  LET q == WithValOk(p, n, x, y) IN
         /\ IsMsg(s, q) /\ q.ok = y /\ q.unknown = p.unknown
         /\ \A k \in FieldNames(s) : q.val[k] = IF k = n THEN x ELSE p.val[k]
PROOF
  <1> DEFINE r == WithVal(p, n, x)
             q == [r EXCEPT !.ok = y]
  <1>1. WithValOk(p, n, x, y) = q
    <2>1. \A o : [p EXCEPT !.val[n] = x, !.ok = o] = [r EXCEPT !.ok = o]
      BY DEF WithVal
    <2> QED BY <2>1 DEF WithValOk
  <1>2. IsMsg(s, r) /\ r.unknown = p.unknown
        /\ \A k \in FieldNames(s) : r.val[k] = IF k = n THEN x ELSE p.val[k]
    BY WithValIs
  <1> HIDE DEF r
  <1>3. \A o : LET h == [r EXCEPT !.ok = o] IN
             /\ h = [ok |-> h.ok, unknown |-> h.unknown, val |-> h.val]
             /\ h.ok = o /\ h.unknown = r.unknown /\ h.val = r.val
    BY <1>2 DEF IsMsg
  <1>4. /\ q = [ok |-> q.ok, unknown |-> q.unknown, val |-> q.val]
        /\ q.ok = y /\ q.unknown = r.unknown /\ q.val = r.val
    BY <1>3
  <1> HIDE DEF q
  <1>5. IsMsg(s, q)
    BY <1>2, <1>4 DEF IsMsg
  <1> QED BY <1>1, <1>2, <1>4, <1>5

LEMMA WithUnknownIs ==
  ASSUME NEW s, NEW p, IsMsg(s, p), NEW z
  PROVE  LET q == WithUnknown(p, z) IN
         IsMsg(s, q) /\ q.ok = p.ok /\ q.unknown = z /\ q.val = p.val
  BY DEF IsMsg, WithUnknown

LEMMA ClearedIsMsg ==
  ASSUME NEW s, IsSchema(s)
  PROVE  /\ IsMsg(s, Cleared(s)) /\ Cleared(s).ok /\ Cleared(s).unknown = <<>>
         /\ \A i \in 1..Len(s) : Cleared(s).val[s[i].name] = Default(s[i])
PROOF
  <1>1. IsMsg(s, Cleared(s)) /\ Cleared(s).ok /\ Cleared(s).unknown = <<>>
    BY DEF Cleared, IsMsg
  <1>2. \A n \in FieldNames(s) : Cleared(s).val[n] = Default(FieldNamed(s, n))
    BY DEF Cleared, Default
  <1> QED BY <1>1, <1>2, Named

\* A field that has its default is read by leaving it alone.
LEMMA ReadDefault ==
  ASSUME NEW s, IsSchema(s), NEW m, NEW i \in 1..Len(s), NEW p,
         ReadUpTo(s, m, i - 1, p), m.val[s[i].name] = Default(s[i])
  PROVE  ReadUpTo(s, m, i, p)
PROOF
  <1>0. Len(s) \in Nat
    BY DEF IsSchema
  <1>1. \A j \in 1..Len(s) : j <= i - 1 <=> j <= i /\ j # i
    BY <1>0
  <1> QED BY <1>1 DEF ReadUpTo

\* To store the value of field i is to have read it.
Stores(s, m, i, p, q) ==
  q.ok => \A k \in FieldNames(s) : q.val[k] = IF k = s[i].name THEN m.val[k] ELSE p.val[k]

LEMMA Stored ==
  ASSUME NEW s, IsSchema(s), NEW m, NEW i \in 1..Len(s), NEW p, p.ok,
         ReadUpTo(s, m, i - 1, p), NEW q, IsMsg(s, q), q.unknown = p.unknown,
         Stores(s, m, i, p, q)
  PROVE  ReadUpTo(s, m, i, q)
PROOF
  <1>0. Len(s) \in Nat
    BY DEF IsSchema
  <1> SUFFICES ASSUME q.ok, NEW j \in 1..Len(s)
               PROVE  q.val[s[j].name] = IF j <= i THEN m.val[s[j].name] ELSE Default(s[j])
    BY DEF ReadUpTo
  <1>1. s[j].name \in FieldNames(s) /\ (s[j].name = s[i].name => j = i)
    BY Named DEF IsSchema
  <1>2. p.val[s[j].name] = IF j <= i - 1 THEN m.val[s[j].name] ELSE Default(s[j])
    BY DEF ReadUpTo
  <1>3. CASE j = i
    BY <1>0, <1>1, <1>3 DEF Stores
  <1>4. CASE j # i
    <2>1. j <= i - 1 <=> j <= i
      BY <1>0, <1>4
    <2> QED BY <1>1, <1>2, <1>4, <2>1 DEF Stores
  <1> QED BY <1>3, <1>4

LEMMA ReadScalar ==
  ASSUME NEW s, IsSchema(s), NEW m, NEW i \in 1..Len(s), NEW p,
         ReadUpTo(s, m, i - 1, p), ~IsEmbedded(s[i]), Fits(s[i], m.val[s[i].name]),
         NEW t, Num(t) = i, t[2] = WireType(s[i]), Val(t) = m.val[s[i].name]
  PROVE  ReadUpTo(s, m, i, ParseScalar(s, p, t)) /\ ReadUpTo(s, m, i, ParseField(s, p, t))
PROOF
  <1> DEFINE v == m.val[s[i].name]
             n == s[i].name
  <1>0. Len(s) \in Nat /\ IsMsg(s, p) /\ n \in FieldNames(s)
    <2>1. Len(s) \in Nat /\ IsMsg(s, p)
      BY DEF IsSchema, ReadUpTo
    <2> QED BY <2>1, Named
  <1>1. CASE ~p.ok
    <2>1. ParseScalar(s, p, t) = p /\ ParseField(s, p, t) = p
      BY <1>1, TurnAfterFailure
    <2> QED BY <1>1, <2>1 DEF ReadUpTo
  <1>2. CASE p.ok /\ s[i].kind = "packed"
    <2>1. v \in Seq(ScalarValues) /\ IsRepeated(s[i])
      BY <1>2 DEF Fits, IsRepeated
    <2>2. p.val[n] = <<>>
      <3>1. ~(i <= i - 1)
        BY <1>0
      <3> QED BY <1>2, <2>1, <3>1 DEF ReadUpTo, Default
    <2>3. p.val[n] \o v = v
      BY <2>1, <2>2, ConcatEmptySeq
    <2> DEFINE q == WithVal(p, n, p.val[n] \o v)
    <2>4. ParseScalar(s, p, t) = q /\ ParseField(s, p, t) = q
      BY <1>2, TurnOfScalar
    <2>5. /\ IsMsg(s, q) /\ q.unknown = p.unknown
          /\ \A k \in FieldNames(s) : q.val[k] = IF k = n THEN p.val[n] \o v ELSE p.val[k]
      BY <1>0, WithValIs
    <2> HIDE DEF q
    <2>6. Stores(s, m, i, p, q)
      BY <2>3, <2>5 DEF Stores
    <2>7. ReadUpTo(s, m, i, q)
      <3> HIDE DEF n, v
      <3> QED BY <1>2, <2>5, <2>6, Stored
    <2> QED BY <2>4, <2>7
  <1>3. CASE p.ok /\ s[i].kind # "packed"
    <2>1. Converted(s[i], v) = v
      BY <1>3 DEF Fits, IsRepeated
    <2> DEFINE o == ~(s[i].kind = "string" /\ v = NotUtf8)
               q == WithValOk(p, n, Converted(s[i], v), o)
    <2>2. ParseScalar(s, p, t) = q /\ ParseField(s, p, t) = q
      BY <1>3, TurnOfScalar
    <2>3. o \in BOOLEAN
      OBVIOUS
    <2> HIDE DEF o
    <2>4. /\ IsMsg(s, q) /\ q.unknown = p.unknown
          /\ \A k \in FieldNames(s) : q.val[k] = IF k = n THEN Converted(s[i], v) ELSE p.val[k]
      BY <1>0, <2>3, WithValOkIs
    <2> HIDE DEF q
    <2>5. Stores(s, m, i, p, q)
      BY <2>1, <2>4 DEF Stores
    <2>6. ReadUpTo(s, m, i, q)
      <3> HIDE DEF n, v
      <3> QED BY <1>3, <2>4, <2>5, Stored
    <2> QED BY <2>2, <2>6
  <1> QED BY <1>1, <1>2, <1>3

LEMMA TokenParts ==
  ASSUME NEW a, NEW b, NEW c
  PROVE  Num(<<a, b, c>>) = a /\ <<a, b, c>>[2] = b /\ Val(<<a, b, c>>) = c
  BY DEF Num, Val

\* When all fields have been read, the message is there.
LEMMA AllRead ==
  ASSUME NEW s, IsSchema(s), NEW m, Proper(s, m), NEW p, ReadUpTo(s, m, Len(s), p), p.ok
  PROVE  p = m
PROOF
  <1>1. DOMAIN s = 1..Len(s) /\ Len(s) \in Nat
    BY DEF IsSchema
  <1>2. \A j \in 1..Len(s) : p.val[s[j].name] = m.val[s[j].name]
    BY <1>1 DEF ReadUpTo
  <1>3. \A n \in FieldNames(s) : p.val[n] = m.val[n]
    BY <1>1, <1>2 DEF FieldNames
  <1>4. p.unknown = m.unknown /\ p.ok = m.ok /\ IsMsg(s, p) /\ IsMsg(s, m)
    <2>1. p.unknown = m.unknown /\ IsMsg(s, p) /\ IsMsg(s, m)
      BY DEF Proper, ReadUpTo
    <2>2. p.ok \in BOOLEAN /\ m.ok \in BOOLEAN
      BY <2>1 DEF IsMsg
    <2> QED BY <2>1, <2>2 DEF Proper
  <1> QED BY <1>3, <1>4, SameMsg

\* A message without embedded ones reads as it was written, or not at all.
LEMMA ElementsReadBack ==
  ASSUME NEW s, IsSchema(s), \A i \in 1..Len(s) : ~IsRepeated(s[i]), NEW e, Proper(s, e)
  PROVE  LET p == ParseScalars(s, SerializeScalars(s, e)) IN
         p.ok \in BOOLEAN /\ (p.ok => p = e)
PROOF
  <1> DEFINE L == Len(s)
             v(i) == e.val[s[i].name]
             Tok(i) == <<s[i].num, WireType(s[i]), v(i)>>
             X == {Tok(i) : i \in 1..L}
             blocks == [i \in DOMAIN s |->
                          LET f == s[i]
                              w == e.val[f.name]
                          IN IF w = (IF f.kind = "packed" THEN <<>> ELSE 0) THEN <<>>
                             ELSE << <<f.num, WireType(f), w>> >>]
  <1>0. L \in Nat /\ DOMAIN s = 1..L /\ \A i \in 1..L : s[i].num = i
    BY DEF IsSchema
  <1>1. \A i \in 1..L : blocks[i] = IF v(i) = 0 THEN <<>> ELSE <<Tok(i)>>
    BY <1>0 DEF IsRepeated
  <1>2. blocks \in Seq(Seq(X)) /\ Len(blocks) = L
    <2>1. \A i \in 1..L : Tok(i) \in X
      OBVIOUS
    <2>2. blocks = [i \in 1..L |-> blocks[i]]
      BY <1>0
    <2> HIDE DEF X, Tok, blocks, v, L
    <2>3. <<>> \in Seq(X) /\ \A i \in 1..L : <<Tok(i)>> \in Seq(X)
      BY <2>1
    <2>4. \A i \in 1..L : blocks[i] \in Seq(X)
      BY <1>1, <2>3, Zenon
    <2> QED BY <1>0, <2>2, <2>4
  <1>3. SerializeScalars(s, e) = FlattenSeq(blocks) \o e.unknown /\ e.unknown = <<>>
    BY DEF SerializeScalars, Proper
  <1> HIDE DEF blocks, X
  <1>4. PICK pre : GrowsTo(X, blocks, pre)
    BY <1>2, Flattened
  <1>5. /\ pre[0] = <<>>
        /\ \A i \in 0..L : pre[i] \in Seq(X)
        /\ \A i \in 1..L : pre[i] = pre[i - 1] \o blocks[i]
        /\ FlattenSeq(blocks) = pre[L]
    BY <1>2, <1>4 DEF GrowsTo
  <1>6. SerializeScalars(s, e) = pre[L]
    <2>1. pre[L] \in Seq(X)
      BY <1>0, <1>5
    <2> QED BY <1>3, <1>5, <2>1, ConcatEmptySeq
  <1> DEFINE S == {i \in Nat : i <= L => ReadUpTo(s, e, i, ParseScalars(s, pre[i]))}
  <1>7. 0 \in S
    <2>1. ParseScalars(s, pre[0]) = Cleared(s)
      BY <1>5, ParseNothing
    <2>2. ReadUpTo(s, e, 0, Cleared(s))
      BY <1>0, ClearedIsMsg DEF ReadUpTo
    <2> QED BY <2>1, <2>2
  <1>8. ASSUME NEW i \in Nat, i \in S
        PROVE  i + 1 \in S
    <2> SUFFICES ASSUME i + 1 <= L PROVE ReadUpTo(s, e, i + 1, ParseScalars(s, pre[i + 1]))
      OBVIOUS
    <2> DEFINE j == i + 1
    <2>1. j \in 1..L /\ j - 1 = i /\ i \in 0..L /\ i <= L
      BY <1>0
    <2>2. ReadUpTo(s, e, j - 1, ParseScalars(s, pre[i]))
      BY <1>8, <2>1
    <2>3. pre[j] = pre[i] \o blocks[j] /\ pre[i] \in Seq(X)
      BY <1>5, <2>1
    <2>4. ~IsRepeated(s[j]) /\ ~IsEmbedded(s[j]) /\ Fits(s[j], v(j)) /\ Default(s[j]) = 0
      BY <2>1 DEF Proper, IsRepeated, Default
    <2> HIDE DEF j
    <2>5. CASE v(j) = 0
      <3>1. pre[j] = pre[i]
        BY <1>1, <2>1, <2>3, <2>5, ConcatEmptySeq
      <3>2. ReadUpTo(s, e, j, ParseScalars(s, pre[i]))
        BY <2>1, <2>2, <2>4, <2>5, ReadDefault
      <3> QED BY <3>1, <3>2 DEF j
    <2>6. CASE v(j) # 0
      <3>1. Tok(j) \in X
        BY <2>1 DEF X
      <3>2. Num(Tok(j)) = j /\ Tok(j)[2] = WireType(s[j]) /\ Val(Tok(j)) = v(j)
        BY <1>0, <2>1, TokenParts
      <3> HIDE DEF Tok, v
      <3>3. pre[j] = Append(pre[i], Tok(j))
        <4>1. pre[j] = pre[i] \o <<Tok(j)>>
          BY <1>1, <2>1, <2>3, <2>6
        <4> QED BY <2>3, <3>1, <4>1, AppendIsConcat
      <3>4. ParseScalars(s, pre[j]) = ParseScalar(s, ParseScalars(s, pre[i]), Tok(j))
        BY <2>3, <3>1, <3>3, ParseMore
      <3>5. ReadUpTo(s, e, j, ParseScalar(s, ParseScalars(s, pre[i]), Tok(j)))
        BY <2>1, <2>2, <2>4, <3>2, ReadScalar DEF v
      <3> QED BY <3>4, <3>5 DEF j
    <2> QED BY <2>5, <2>6
  <1>9. Nat \subseteq S
    <2> HIDE DEF S
    <2> QED BY <1>7, <1>8, AllNumbers
  <1>10. ReadUpTo(s, e, L, ParseScalars(s, pre[L]))
    BY <1>0, <1>9
  <1>11. ParseScalars(s, pre[L]).ok \in BOOLEAN
    BY <1>10 DEF ReadUpTo, IsMsg
  <1>12. ParseScalars(s, pre[L]).ok => ParseScalars(s, pre[L]) = e
    BY <1>10, AllRead
  <1> QED BY <1>6, <1>11, <1>12
-----------------------------------------------------------------------------
(* Embedded messages *)

LEMMA EmbeddedSchemas ==
  ASSUME NEW k \in DOMAIN Embedded
  PROVE  IsSchema(Embedded[k]) /\ \A i \in 1..Len(Embedded[k]) : ~IsRepeated(Embedded[k][i])
PROOF
  <1>1. DOMAIN Embedded = {"Entry", "GCEntry", "SavedRequest", "SavedOp"}
    BY DEF Embedded
  <1>2. CASE k = "Entry"
    <2>1. Embedded[k] = Entry
      BY <1>2 DEF Embedded
    <2>2. IsSchema(Entry)
      BY DEF IsSchema, ToSet, Entry, F
    <2>3. \A i \in 1..Len(Entry) : ~IsRepeated(Entry[i])
      BY <1>1 DEF Entry, F, IsRepeated, IsEmbedded
    <2> QED BY <2>1, <2>2, <2>3
  <1>3. CASE k = "GCEntry"
    <2>1. Embedded[k] = GCEntry
      BY <1>3 DEF Embedded
    <2>2. IsSchema(GCEntry)
      BY DEF IsSchema, ToSet, GCEntry, F
    <2>3. \A i \in 1..Len(GCEntry) : ~IsRepeated(GCEntry[i])
      BY <1>1 DEF GCEntry, F, IsRepeated, IsEmbedded
    <2> QED BY <2>1, <2>2, <2>3
  <1>4. CASE k = "SavedRequest"
    <2>1. Embedded[k] = SavedRequest
      BY <1>4 DEF Embedded
    <2>2. IsSchema(SavedRequest)
      BY DEF IsSchema, ToSet, SavedRequest, F
    <2>3. \A i \in 1..Len(SavedRequest) : ~IsRepeated(SavedRequest[i])
      BY <1>1 DEF SavedRequest, F, IsRepeated, IsEmbedded
    <2> QED BY <2>1, <2>2, <2>3
  <1>5. CASE k = "SavedOp"
    <2>1. Embedded[k] = SavedOp
      BY <1>5 DEF Embedded
    <2>2. IsSchema(SavedOp)
      BY DEF IsSchema, ToSet, SavedOp, F
    <2>3. \A i \in 1..Len(SavedOp) : ~IsRepeated(SavedOp[i])
      BY <1>1 DEF SavedOp, F, IsRepeated, IsEmbedded
    <2> QED BY <2>1, <2>2, <2>3
  <1> QED BY <1>1, <1>2, <1>3, <1>4, <1>5

LEMMA ElementsAreProper ==
  ASSUME NEW s, IsSchema(s), \A i \in 1..Len(s) : ~IsRepeated(s[i]), NEW e \in Elements(s)
  PROVE  Proper(s, e)
PROOF
  <1>1. PICK x \in {0, 1, NotUtf8}, v \in {0, 1} :
          e = [Cleared(s) EXCEPT !.val = [n \in FieldNames(s) |->
                 IF FieldNamed(s, n).kind = "string" THEN x ELSE v]]
    BY DEF Elements
  <1> DEFINE c == Cleared(s)
             w == [n \in FieldNames(s) |-> IF FieldNamed(s, n).kind = "string" THEN x ELSE v]
  <1>2. IsMsg(s, c) /\ c.ok /\ c.unknown = <<>>
    BY ClearedIsMsg
  <1>3. w = [n \in FieldNames(s) |-> w[n]]
    OBVIOUS
  <1>4. e = [c EXCEPT !.val = w]
    BY <1>1
  <1>5. \A i \in 1..Len(s) : w[s[i].name] = IF s[i].kind = "string" THEN x ELSE v
    BY Named
  <1> HIDE DEF c, w
  <1>6. IsMsg(s, e) /\ e.ok = c.ok /\ e.unknown = c.unknown /\ e.val = w
    BY <1>2, <1>3, <1>4 DEF IsMsg
  <1>7. ASSUME NEW i \in 1..Len(s)
        PROVE  Fits(s[i], e.val[s[i].name])
    <2> DEFINE y == e.val[s[i].name]
    <2>1. y = IF s[i].kind = "string" THEN x ELSE v
      BY <1>5, <1>6
    <2>2. y \in Int /\ (s[i].kind # "string" => y \in {0, 1})
      BY <2>1 DEF NotUtf8
    <2>3. 0 % Two32 = 0 /\ 1 % Two32 = 1
      BY WireAssumption
    <2> HIDE DEF y
    <2>4. Converted(s[i], y) = y
      BY <2>2, <2>3 DEF Converted
    <2> QED BY <2>2, <2>4 DEF Fits, y, IsRepeated
  <1> QED BY <1>2, <1>6, <1>7 DEF Proper

\* p has read the fields of m before number i, and x of field i.
ReadWith(s, m, i, x, p) ==
  /\ IsMsg(s, p)
  /\ p.ok => /\ p.unknown = <<>>
             /\ \A j \in 1..Len(s) : p.val[s[j].name] =
                  IF j < i THEN m.val[s[j].name] ELSE IF j = i THEN x ELSE Default(s[j])

LEMMA ReadMore ==
  ASSUME NEW s, IsSchema(s), NEW m, NEW i \in 1..Len(s), NEW p, p.ok, NEW x, NEW y,
         ReadWith(s, m, i, x, p), NEW q, IsMsg(s, q), q.unknown = p.unknown,
         q.ok => \A k \in FieldNames(s) : q.val[k] = IF k = s[i].name THEN y ELSE p.val[k]
  PROVE  ReadWith(s, m, i, y, q)
PROOF
  <1> SUFFICES ASSUME q.ok, NEW j \in 1..Len(s)
               PROVE  q.val[s[j].name] = IF j < i THEN m.val[s[j].name]
                                         ELSE IF j = i THEN y ELSE Default(s[j])
    BY DEF ReadWith
  <1>0. Len(s) \in Nat
    BY DEF IsSchema
  <1>1. s[j].name \in FieldNames(s) /\ (s[j].name = s[i].name => j = i)
    BY Named DEF IsSchema
  <1>2. CASE j = i
    BY <1>0, <1>1, <1>2
  <1>3. CASE j # i
    BY <1>1, <1>3 DEF ReadWith
  <1> QED BY <1>2, <1>3

LEMMA ReadBounds ==
  ASSUME NEW s, IsSchema(s), NEW m, NEW i \in 1..Len(s), NEW p
  PROVE  /\ ReadUpTo(s, m, i - 1, p) => ReadWith(s, m, i, Default(s[i]), p)
         /\ ReadWith(s, m, i, m.val[s[i].name], p) => ReadUpTo(s, m, i, p)
PROOF
  <1>0. Len(s) \in Nat
    BY DEF IsSchema
  <1>1. \A j \in 1..Len(s) : (j <= i - 1 <=> j < i) /\ (j <= i <=> j < i \/ j = i)
    BY <1>0
  <1>2. ReadUpTo(s, m, i - 1, p) => ReadWith(s, m, i, Default(s[i]), p)
    BY <1>0, <1>1 DEF ReadUpTo, ReadWith
  <1>3. ReadWith(s, m, i, m.val[s[i].name], p) => ReadUpTo(s, m, i, p)
    BY <1>0, <1>1 DEF ReadUpTo, ReadWith
  <1> QED BY <1>2, <1>3

LEMMA Grown ==
  ASSUME NEW X, NEW a \in Seq(X), NEW b \in Seq(X), NEW j \in 0 .. Len(b) - 1
  PROVE  /\ a \o SubSeq(b, 1, j) \in Seq(X) /\ b[j + 1] \in X
         /\ a \o SubSeq(b, 1, j + 1) = Append(a \o SubSeq(b, 1, j), b[j + 1])
         /\ SubSeq(b, 1, j + 1) = Append(SubSeq(b, 1, j), b[j + 1])
PROOF
  <1>1. Len(b) \in Nat /\ j + 1 \in 1..Len(b) /\ b[j + 1] \in X /\ (j + 1) - 1 = j /\ 1 \in 1..Len(b)
        /\ j + 1 \in 1..Len(b)
    OBVIOUS
  <1>2. SubSeq(b, 1, j) \in Seq(X) /\ <<b[j + 1]>> \in Seq(X)
    BY <1>1
  <1>3. SubSeq(b, 1, j + 1) = SubSeq(b, 1, j) \o <<b[j + 1]>>
    BY <1>1, SubSeqRecursiveSecond
  <1>4. a \o SubSeq(b, 1, j) \in Seq(X)
    BY <1>2, ConcatProperties
  <1>5. a \o SubSeq(b, 1, j + 1) = (a \o SubSeq(b, 1, j)) \o <<b[j + 1]>>
    BY <1>2, <1>3, ConcatAssociative
  <1>6. a \o SubSeq(b, 1, j + 1) = Append(a \o SubSeq(b, 1, j), b[j + 1])
    BY <1>1, <1>4, <1>5, AppendIsConcat
  <1>7. SubSeq(b, 1, j + 1) = Append(SubSeq(b, 1, j), b[j + 1])
    BY <1>1, <1>2, <1>3, AppendIsConcat
  <1> QED BY <1>1, <1>4, <1>6, <1>7

\* The elements of a repeated field are read one after the other.
LEMMA ReadElements ==
  ASSUME NEW s, IsSchema(s), NEW m, Proper(s, m), NEW i \in 1..Len(s), IsEmbedded(s[i]),
         NEW X, NEW a \in Seq(X), NEW b \in Seq(X), Len(b) = Len(m.val[s[i].name]),
         \A j \in 1..Len(b) :
           b[j] = <<i, "len", SerializeScalars(Embedded[s[i].kind], m.val[s[i].name][j])>>,
         ReadUpTo(s, m, i - 1, ParseFromArray(s, a))
  PROVE  ReadUpTo(s, m, i, ParseFromArray(s, a \o b))
PROOF
  <1> DEFINE v == m.val[s[i].name]
             schema == Embedded[s[i].kind]
             P(j) == ParseFromArray(s, a \o SubSeq(b, 1, j))
             S == {j \in Nat : j <= Len(b) => ReadWith(s, m, i, SubSeq(v, 1, j), P(j))}
  <1>0. Len(b) \in Nat /\ Len(v) = Len(b)
    OBVIOUS
  <1>1. v \in Seq(Elements(schema)) /\ IsRepeated(s[i])
    BY DEF Proper, Fits, IsRepeated
  <1>2. IsSchema(schema) /\ \A k \in 1..Len(schema) : ~IsRepeated(schema[k])
    BY EmbeddedSchemas DEF IsEmbedded
  <1>3. WireType(s[i]) = "len"
    <2>1. DOMAIN Embedded = {"Entry", "GCEntry", "SavedRequest", "SavedOp"}
      BY DEF Embedded
    <2> QED BY <2>1 DEF WireType, IsEmbedded
  <1>4. 0 \in S
    <2>1. SubSeq(b, 1, 0) = <<>> /\ SubSeq(v, 1, 0) = <<>>
      BY SubSeqEmpty
    <2>2. a \o SubSeq(b, 1, 0) = a
      BY <2>1, ConcatEmptySeq
    <2>3. ReadWith(s, m, i, Default(s[i]), ParseFromArray(s, a))
      BY ReadBounds
    <2>4. Default(s[i]) = SubSeq(v, 1, 0)
      BY <1>1, <2>1 DEF Default
    <2>5. ReadWith(s, m, i, SubSeq(v, 1, 0), P(0))
      BY <2>2, <2>3, <2>4
    <2> QED BY <2>5
  <1>5. ASSUME NEW j \in Nat, j \in S
        PROVE  j + 1 \in S
    <2> SUFFICES ASSUME j + 1 <= Len(b)
                 PROVE  ReadWith(s, m, i, SubSeq(v, 1, j + 1), P(j + 1))
      OBVIOUS
    <2> DEFINE t == b[j + 1]
               w == a \o SubSeq(b, 1, j)
               element == ParseScalars(schema, Val(t))
    <2>1. j \in 0 .. Len(b) - 1 /\ j + 1 \in 1..Len(b) /\ j <= Len(b) /\ j + 1 \in 1..Len(v)
          /\ j \in 0 .. Len(v) - 1
      BY <1>0
    <2>2. ReadWith(s, m, i, SubSeq(v, 1, j), P(j))
      BY <1>5, <2>1
    <2>3. w \in Seq(X) /\ t \in X /\ a \o SubSeq(b, 1, j + 1) = Append(w, t)
      BY <2>1, Grown
    <2>4. P(j + 1) = ParseField(s, P(j), t)
      <3> HIDE DEF w, t
      <3>1. ParseFromArray(s, Append(w, t)) = ParseField(s, ParseFromArray(s, w), t)
        BY <2>3, ParseMore
      <3> QED BY <2>3, <3>1 DEF w
    <2>5. Num(t) = i /\ t[2] = WireType(s[i]) /\ Val(t) = SerializeScalars(schema, v[j + 1])
      <3> DEFINE c == SerializeScalars(schema, v[j + 1])
      <3>1. t = <<i, "len", c>>
        BY <2>1
      <3> HIDE DEF t, c
      <3>2. Num(t) = i /\ t[2] = "len" /\ Val(t) = c
        BY <3>1, TokenParts
      <3> QED BY <1>3, <3>2 DEF c
    <2>6. element.ok \in BOOLEAN /\ (element.ok => element = v[j + 1])
      <3>1. v[j + 1] \in Elements(schema)
        BY <1>1, <2>1
      <3> HIDE DEF schema, v
      <3>2. Proper(schema, v[j + 1])
        BY <1>2, <3>1, ElementsAreProper
      <3> QED BY <1>2, <2>5, <3>2, ElementsReadBack
    <2>7. SubSeq(v, 1, j + 1) = Append(SubSeq(v, 1, j), v[j + 1])
      <3> HIDE DEF v, schema
      <3> QED BY <1>1, <2>1, Grown
    <2>8. CASE ~P(j).ok
      <3>1. P(j + 1) = P(j)
        BY <2>4, <2>8, TurnAfterFailure
      <3> HIDE DEF P
      <3> QED BY <2>2, <2>8, <3>1 DEF ReadWith
    <2>9. CASE P(j).ok
      <3> DEFINE p == P(j)
                 n == s[i].name
                 q == WithValOk(p, n, Append(p.val[n], element), element.ok)
      <3> HIDE DEF P, v, element, t
      <3>1. P(j + 1) = q
        BY <2>4, <2>5, <2>9, TurnOfElement DEF element
      <3>2. IsMsg(s, p) /\ n \in FieldNames(s)
        <4>1. IsMsg(s, p)
          BY <2>2 DEF ReadWith
        <4> QED BY <4>1, Named
      <3>3. p.val[n] = SubSeq(v, 1, j)
        <4>1. Len(s) \in Nat
          BY DEF IsSchema
        <4>2. p.val[s[i].name] = IF i < i THEN m.val[s[i].name]
                                 ELSE IF i = i THEN SubSeq(v, 1, j) ELSE Default(s[i])
          BY <2>2, <2>9 DEF ReadWith
        <4> QED BY <4>1, <4>2
      <3>4. /\ IsMsg(s, q) /\ q.ok = element.ok /\ q.unknown = p.unknown
            /\ \A k \in FieldNames(s) :
                 q.val[k] = IF k = n THEN Append(p.val[n], element) ELSE p.val[k]
        BY <2>6, <3>2, WithValOkIs
      <3> HIDE DEF q, p
      <3>5. q.ok => \A k \in FieldNames(s) :
                      q.val[k] = IF k = n THEN SubSeq(v, 1, j + 1) ELSE p.val[k]
        BY <2>6, <2>7, <3>3, <3>4
      <3>6. ReadWith(s, m, i, SubSeq(v, 1, j + 1), q)
        BY <2>2, <2>9, <3>4, <3>5, ReadMore DEF p
      <3> QED BY <3>1, <3>6
    <2> QED BY <2>8, <2>9
  <1>6. Nat \subseteq S
    <2> HIDE DEF S
    <2> QED BY <1>4, <1>5, AllNumbers
  <1>7. ReadWith(s, m, i, SubSeq(v, 1, Len(b)), P(Len(b)))
    <2> HIDE DEF P, v
    <2> QED BY <1>0, <1>6
  <1>8. SubSeq(v, 1, Len(b)) = v /\ SubSeq(b, 1, Len(b)) = b
    BY <1>0, <1>1, SubSeqFull
  <1> QED BY <1>7, <1>8, ReadBounds

\* A field on its own.
LEMMA OneField ==
  ASSUME NEW s, NEW m, IsMsg(s, m), NEW f
  PROVE  SerializeScalars(<<f>>, [m EXCEPT !.unknown = <<>>]) =
           IF m.val[f.name] = (IF f.kind = "packed" THEN <<>> ELSE 0) THEN <<>>
           ELSE << <<f.num, WireType(f), m.val[f.name]>> >>
PROOF
  <1> DEFINE c == [m EXCEPT !.unknown = <<>>]
             B == IF m.val[f.name] = (IF f.kind = "packed" THEN <<>> ELSE 0) THEN <<>>
                  ELSE << <<f.num, WireType(f), m.val[f.name]>> >>
             X == { <<f.num, WireType(f), m.val[f.name]>> }
             blocks == [i \in DOMAIN <<f>> |->
                          LET g == <<f>>[i]
                              w == c.val[g.name]
                          IN IF w = (IF g.kind = "packed" THEN <<>> ELSE 0) THEN <<>>
                             ELSE << <<g.num, WireType(g), w>> >>]
  <1>1. c.val = m.val /\ c.unknown = <<>>
    BY DEF IsMsg
  <1>2. SerializeScalars(<<f>>, c) = FlattenSeq(blocks) \o c.unknown
    BY DEF SerializeScalars
  <1> HIDE DEF c
  <1>3. B \in Seq(X)
    <2> DEFINE t == <<f.num, WireType(f), m.val[f.name]>>
    <2>1. t \in X
      OBVIOUS
    <2> HIDE DEF t, X
    <2>2. <<>> \in Seq(X) /\ <<t>> \in Seq(X)
      BY <2>1
    <2>3. B = <<>> \/ B = <<t>>
      BY DEF t
    <2> HIDE DEF B
    <2> QED BY <2>2, <2>3
  <1>4. blocks = <<B>>
    BY <1>1
  <1> HIDE DEF blocks, X, B
  <1>5. blocks \in Seq(Seq(X)) /\ Len(blocks) = 1 /\ blocks[1] = B
    BY <1>3, <1>4
  <1>6. PICK pre : GrowsTo(X, blocks, pre)
    BY <1>5, Flattened
  <1>7. pre[0] = <<>> /\ pre[1] = pre[0] \o B /\ FlattenSeq(blocks) = pre[1]
    <2>1. pre[0] = <<>> /\ FlattenSeq(blocks) = pre[1]
      BY <1>5, <1>6 DEF GrowsTo
    <2>2. 1 \in 1..Len(blocks) /\ 1 - 1 = 0
      BY <1>5
    <2>3. pre[1] = pre[1 - 1] \o blocks[1]
      BY <1>6, <2>2, Zenon DEF GrowsTo
    <2>4. pre[1] = pre[0] \o B
      BY <1>5, <2>2, <2>3, Zenon
    <2> QED BY <2>1, <2>4
  <1>8. FlattenSeq(blocks) = B
    BY <1>3, <1>7, ConcatEmptySeq
  <1> QED BY <1>1, <1>2, <1>3, <1>8, ConcatEmptySeq DEF B, c

\* What the fields of a message are written as.
Blocks(s, m) ==
  [i \in DOMAIN s |->
     LET f == s[i] IN
     IF IsEmbedded(f)
     THEN [j \in DOMAIN m.val[f.name] |->
             <<f.num, "len", SerializeScalars(Embedded[f.kind], m.val[f.name][j])>>]
     ELSE SerializeScalars(<<f>>, [m EXCEPT !.unknown = <<>>])]

\* What a caller built from a later proto file may add.
Later == {<<>>, << <<16, "varint", 1>> >>}

\* Every message reads as it was written, or not at all, with what a later
\* proto file adds to it behind it.
LEMMA ReadsBack ==
  ASSUME NEW s, IsSchema(s), NEW m, Proper(s, m), NEW extra \in Later
  PROVE  LET p == ParseFromArray(s, SerializeToString(s, m) \o extra) IN
         /\ IsMsg(s, p)
         /\ SerializeToString(s, m) = FlattenSeq(Blocks(s, m))
         /\ SerializeToString(s, m) \o <<>> = SerializeToString(s, m)
         /\ p.ok => p.val = m.val /\ p.unknown = extra
PROOF
  <1> DEFINE L == Len(s)
             v(i) == m.val[s[i].name]
             Tok(i) == <<s[i].num, WireType(s[i]), v(i)>>
             El(i, j) == <<s[i].num, "len", SerializeScalars(Embedded[s[i].kind], v(i)[j])>>
             More == <<16, "varint", 1>>
             X == {Tok(i) : i \in 1..L} \cup {El(i, j) : i \in 1..L, j \in Nat} \cup {More}
             blocks == Blocks(s, m)
             IsDefault(i) == v(i) = Default(s[i])
  <1>0. L \in Nat /\ DOMAIN s = 1..L /\ \A i \in 1..L : s[i].num = i
    BY DEF IsSchema
  <1>1. ASSUME NEW i \in 1..L, ~IsEmbedded(s[i])
        PROVE  blocks[i] = IF IsDefault(i) THEN <<>> ELSE <<Tok(i)>>
    <2>1. blocks[i] = SerializeScalars(<<s[i]>>, [m EXCEPT !.unknown = <<>>])
      BY <1>0, <1>1 DEF Blocks
    <2>2. IsMsg(s, m)
      BY DEF Proper
    <2>3. (IF s[i].kind = "packed" THEN <<>> ELSE 0) = Default(s[i])
      BY <1>1 DEF Default, IsRepeated
    <2>4. blocks[i] = IF v(i) = (IF s[i].kind = "packed" THEN <<>> ELSE 0) THEN <<>>
                      ELSE <<Tok(i)>>
      BY <2>1, <2>2, OneField
    <2> QED BY <2>3, <2>4, Zenon
  <1>2. ASSUME NEW i \in 1..L, IsEmbedded(s[i])
        PROVE  /\ v(i) \in Seq(Elements(Embedded[s[i].kind])) /\ Len(v(i)) \in Nat
               /\ DOMAIN v(i) = 1..Len(v(i))
               /\ blocks[i] = [j \in 1..Len(v(i)) |-> El(i, j)]
    <2>1. v(i) \in Seq(Elements(Embedded[s[i].kind]))
      BY <1>2 DEF Proper, Fits
    <2>2. Len(v(i)) \in Nat /\ DOMAIN v(i) = 1..Len(v(i))
      <3> HIDE DEF v
      <3> QED BY <2>1
    <2>3. blocks[i] = [j \in DOMAIN v(i) |-> El(i, j)]
      BY <1>0, <1>2 DEF Blocks
    <2> QED BY <2>1, <2>2, <2>3
  <1>3. SerializeToString(s, m) = FlattenSeq(blocks) \o m.unknown /\ m.unknown = <<>>
    BY DEF SerializeToString, Proper, Blocks
  <1>4. blocks = [i \in 1..L |-> blocks[i]]
    BY <1>0 DEF Blocks
  <1> HIDE DEF blocks
  <1>5. /\ \A i \in 1..L : Tok(i) \in X /\ \A j \in Nat : El(i, j) \in X
        /\ More \in X
    OBVIOUS
  <1>6. \A i \in 1..L, j \in Nat : El(i, j)
          = <<i, "len", SerializeScalars(Embedded[s[i].kind], v(i)[j])>>
    BY <1>0
  <1>7. \A i \in 1..L : Num(Tok(i)) = i /\ Tok(i)[2] = WireType(s[i]) /\ Val(Tok(i)) = v(i)
    BY <1>0, TokenParts
  <1>8. Num(More) = 16
    BY TokenParts
  <1> HIDE DEF X, L, Tok, El, More
  <1>9. \A i \in 1..L : blocks[i] \in Seq(X)
    <2> SUFFICES ASSUME NEW i \in 1..L PROVE blocks[i] \in Seq(X)
      OBVIOUS
    <2>1. CASE IsEmbedded(s[i])
      <3> DEFINE n == Len(v(i))
      <3>1. n \in Nat /\ blocks[i] = [j \in 1..n |-> El(i, j)]
        BY <1>2, <2>1
      <3> HIDE DEF n, v
      <3>2. \A j \in 1..n : El(i, j) \in X
        BY <1>5, <3>1
      <3> QED BY <3>1, <3>2
    <2>2. CASE ~IsEmbedded(s[i])
      <3>1. <<>> \in Seq(X) /\ <<Tok(i)>> \in Seq(X)
        BY <1>5
      <3> QED BY <1>1, <2>2, <3>1, Zenon
    <2> QED BY <2>1, <2>2
  <1>10. blocks \in Seq(Seq(X)) /\ Len(blocks) = L
    BY <1>0, <1>4, <1>9
  <1>11. PICK pre : GrowsTo(X, blocks, pre)
    BY <1>10, Flattened
  <1>12. /\ pre[0] = <<>>
         /\ \A i \in 0..L : pre[i] \in Seq(X)
         /\ \A i \in 1..L : pre[i] = pre[i - 1] \o blocks[i]
         /\ FlattenSeq(blocks) = pre[L]
    BY <1>10, <1>11 DEF GrowsTo
  <1>13. SerializeToString(s, m) = pre[L] /\ pre[L] \in Seq(X) /\ pre[L] \o <<>> = pre[L]
    <2>1. pre[L] \in Seq(X)
      BY <1>0, <1>12
    <2> QED BY <1>3, <1>12, <2>1, ConcatEmptySeq
  <1> DEFINE S == {i \in Nat : i <= L => ReadUpTo(s, m, i, ParseFromArray(s, pre[i]))}
  <1>14. 0 \in S
    <2>1. ParseFromArray(s, pre[0]) = Cleared(s)
      BY <1>12, ParseNothing
    <2>2. ReadUpTo(s, m, 0, Cleared(s))
      BY <1>0, ClearedIsMsg DEF ReadUpTo
    <2> QED BY <2>1, <2>2
  <1>15. ASSUME NEW i \in Nat, i \in S
         PROVE  i + 1 \in S
    <2> SUFFICES ASSUME i + 1 <= L PROVE ReadUpTo(s, m, i + 1, ParseFromArray(s, pre[i + 1]))
      OBVIOUS
    <2> DEFINE j == i + 1
    <2>1. j \in 1..L /\ j - 1 = i /\ i \in 0..L /\ i <= L /\ j \in 1..Len(s)
      BY <1>0 DEF L
    <2>2. ReadUpTo(s, m, j - 1, ParseFromArray(s, pre[i]))
      BY <1>15, <2>1
    <2>3. pre[j] = pre[i] \o blocks[j] /\ pre[i] \in Seq(X) /\ blocks[j] \in Seq(X)
      BY <1>9, <1>12, <2>1
    <2>4. Fits(s[j], v(j))
      BY <2>1 DEF Proper
    <2> HIDE DEF j
    <2>5. CASE IsEmbedded(s[j])
      <3> DEFINE n == Len(v(j))
      <3>1. n \in Nat /\ blocks[j] = [k \in 1..n |-> El(j, k)]
        BY <1>2, <2>1, <2>5
      <3>2. Len(blocks[j]) = n /\ \A k \in 1..n : blocks[j][k] = El(j, k)
        <4> HIDE DEF n
        <4> QED BY <3>1
      <3>3. \A k \in 1..n : blocks[j][k]
              = <<j, "len", SerializeScalars(Embedded[s[j].kind], v(j)[k])>>
        <4> HIDE DEF n, v
        <4>1. \A k \in 1..n : k \in Nat
          BY <3>1
        <4> QED BY <1>6, <2>1, <3>2, <4>1
      <3>4. ReadUpTo(s, m, j, ParseFromArray(s, pre[i] \o blocks[j]))
        BY <2>1, <2>2, <2>3, <2>5, <3>2, <3>3, ReadElements
      <3> QED BY <2>3, <3>4 DEF j
    <2>6. CASE ~IsEmbedded(s[j]) /\ IsDefault(j)
      <3>1. pre[j] = pre[i]
        BY <1>1, <2>1, <2>3, <2>6, ConcatEmptySeq
      <3>2. ReadUpTo(s, m, j, ParseFromArray(s, pre[i]))
        BY <2>1, <2>2, <2>6, ReadDefault
      <3> QED BY <3>1, <3>2 DEF j
    <2>7. CASE ~IsEmbedded(s[j]) /\ ~IsDefault(j)
      <3> HIDE DEF IsDefault
      <3>1. Tok(j) \in X
        BY <1>5, <2>1
      <3>2. Num(Tok(j)) = j /\ Tok(j)[2] = WireType(s[j]) /\ Val(Tok(j)) = v(j)
        BY <1>7, <2>1
      <3>3. pre[j] = Append(pre[i], Tok(j))
        <4>1. pre[j] = pre[i] \o <<Tok(j)>>
          BY <1>1, <2>1, <2>3, <2>7
        <4> QED BY <2>3, <3>1, <4>1, AppendIsConcat
      <3>4. ParseFromArray(s, pre[j]) = ParseField(s, ParseFromArray(s, pre[i]), Tok(j))
        <4>1. pre[i] \in Seq(X)
          BY <2>3
        <4>2. ParseFromArray(s, Append(pre[i], Tok(j)))
                = ParseField(s, ParseFromArray(s, pre[i]), Tok(j))
          BY <3>1, <4>1, ParseMore
        <4> QED BY <3>3, <4>2
      <3>5. ReadUpTo(s, m, j, ParseField(s, ParseFromArray(s, pre[i]), Tok(j)))
        BY <2>1, <2>2, <2>4, <2>7, <3>2, ReadScalar
      <3> QED BY <3>4, <3>5 DEF j
    <2> QED BY <2>5, <2>6, <2>7
  <1>16. Nat \subseteq S
    <2> HIDE DEF S
    <2> QED BY <1>14, <1>15, AllNumbers
  <1>17. ReadUpTo(s, m, Len(s), ParseFromArray(s, pre[L]))
    BY <1>0, <1>16 DEF L
  <1> DEFINE p == ParseFromArray(s, pre[L])
  <1>18. IsMsg(s, p) /\ (p.ok => p.val = m.val /\ p.unknown = <<>>)
    <2>1. p.ok => p = m
      BY <1>17, AllRead
    <2> QED BY <1>3, <1>17, <2>1 DEF ReadUpTo
  <1>19. CASE extra = <<>>
    BY <1>12, <1>13, <1>18, <1>19 DEF blocks
  <1>20. CASE extra = <<More>>
    <2> DEFINE q == ParseFromArray(s, pre[L] \o extra)
    <2>1. pre[L] \o extra = Append(pre[L], More)
      BY <1>5, <1>13, <1>20, AppendIsConcat
    <2>2. q = ParseField(s, p, More)
      <3>1. pre[L] \in Seq(X) /\ More \in X
        BY <1>5, <1>13
      <3>2. ParseFromArray(s, Append(pre[L], More)) = ParseField(s, p, More)
        BY <3>1, ParseMore
      <3> QED BY <2>1, <3>2
    <2>3. CASE ~p.ok
      <3>1. q = p
        BY <2>2, <2>3, TurnAfterFailure
      <3> QED BY <1>12, <1>13, <1>18, <1>20, <2>3, <3>1 DEF blocks
    <2>4. CASE p.ok
      <3> HIDE DEF p, q
      <3>1. q = WithUnknown(p, Append(p.unknown, More))
        BY <1>8, <2>2, <2>4, TurnOfUnknown
      <3>2. Append(p.unknown, More) = extra
        <4>1. p.unknown = <<>>
          BY <1>18, <2>4
        <4>2. Append(<<>>, More) = <<More>>
          OBVIOUS
        <4> QED BY <1>20, <4>1, <4>2
      <3>3. IsMsg(s, q) /\ q.unknown = extra /\ q.val = p.val
        BY <1>18, <3>1, <3>2, WithUnknownIs
      <3> QED BY <1>12, <1>13, <1>18, <2>4, <3>3 DEF q, blocks
    <2> QED BY <2>3, <2>4
  <1> QED BY <1>19, <1>20 DEF More, Later
-----------------------------------------------------------------------------
(* Messages one behind the other, as LogVec may find them in its file *)

Tags(s) == {<<s[i].num, WireType(s[i]), v>> : i \in 1..Len(s), v \in Int}

\* A message that parsing does not give up at.
Readable(s, e) ==
  /\ Proper(s, e)
  /\ \A i \in 1..Len(s) : s[i].kind = "string" => e.val[s[i].name] # NotUtf8

\* The strings of tags that are read to their end.
Readings(s) ==
  {b \in Seq(Tags(s)) :
     LET d == ParseFromArray(s, b) IN IsMsg(s, d) /\ d.ok /\ d.unknown = <<>>}

\* What p is to be when the fields of e up to number i were read behind d.
MergedUpTo(s, d, e, i, p) ==
  /\ IsMsg(s, p) /\ p.ok /\ p.unknown = <<>>
  /\ \A j \in 1..Len(s) : p.val[s[j].name] =
       IF j <= i /\ e.val[s[j].name] # 0 THEN e.val[s[j].name] ELSE d.val[s[j].name]

LEMMA MergeOneMore ==
  ASSUME NEW s, IsSchema(s), NEW d, NEW e, NEW i \in 1..Len(s), NEW p,
         MergedUpTo(s, d, e, i - 1, p), ~IsRepeated(s[i]), Readable(s, e),
         NEW t, Num(t) = i, t[2] = WireType(s[i]), Val(t) = e.val[s[i].name],
         e.val[s[i].name] # 0
  PROVE  MergedUpTo(s, d, e, i, ParseField(s, p, t))
PROOF
  <1> DEFINE n == s[i].name
             v == e.val[n]
             o == ~(s[i].kind = "string" /\ v = NotUtf8)
             q == WithValOk(p, n, v, o)
  <1>1. Len(s) \in Nat /\ n \in FieldNames(s) /\ IsMsg(s, p) /\ p.ok /\ p.unknown = <<>>
    <2>1. Len(s) \in Nat
      BY DEF IsSchema
    <2> QED BY <2>1, Named DEF MergedUpTo
  <1>2. ~IsEmbedded(s[i]) /\ s[i].kind # "packed"
    BY DEF IsRepeated
  <1>3. Converted(s[i], v) = v
    BY DEF Readable, Proper, Fits
  <1>4. o \in BOOLEAN /\ o
    BY DEF Readable
  <1>5. ParseField(s, p, t) = q
    <2>1. ParseField(s, p, t) = WithValOk(p, n, Converted(s[i], Val(t)),
                                          ~(s[i].kind = "string" /\ Val(t) = NotUtf8))
      BY <1>1, <1>2, TurnOfScalar
    <2> QED BY <1>3, <2>1
  <1> HIDE DEF o
  <1>6. /\ IsMsg(s, q) /\ q.ok = o /\ q.unknown = p.unknown
        /\ \A k \in FieldNames(s) : q.val[k] = IF k = n THEN v ELSE p.val[k]
    <2> HIDE DEF n, v
    <2>1. IsMsg(s, p) /\ n \in FieldNames(s) /\ o \in BOOLEAN
      BY <1>1, <1>4
    <2> QED BY <2>1, WithValOkIs
  <1> HIDE DEF q
  <1>7. ASSUME NEW j \in 1..Len(s)
        PROVE  q.val[s[j].name] =
                 IF j <= i /\ e.val[s[j].name] # 0 THEN e.val[s[j].name] ELSE d.val[s[j].name]
    <2>1. s[j].name \in FieldNames(s) /\ (s[j].name = n => j = i)
      BY Named DEF IsSchema
    <2>2. CASE j = i
      BY <1>1, <1>6, <2>1, <2>2
    <2>3. CASE j # i
      <3>1. j <= i - 1 <=> j <= i
        BY <1>1, <2>3
      <3>2. q.val[s[j].name] = p.val[s[j].name]
        BY <1>6, <2>1, <2>3
      <3> QED BY <3>1, <3>2 DEF MergedUpTo
    <2> QED BY <2>2, <2>3
  <1> QED BY <1>1, <1>4, <1>5, <1>6, <1>7 DEF MergedUpTo

LEMMA AllMerged ==
  ASSUME NEW s, IsSchema(s), \A i \in 1..Len(s) : ~IsRepeated(s[i]), NEW d, IsMsg(s, d), d.ok,
         d.unknown = <<>>, NEW e, Readable(s, e), NEW p, MergedUpTo(s, d, e, Len(s), p)
  PROVE  p = MergeFrom(s, d, e)
PROOF
  <1> DEFINE both == MergeFrom(s, d, e)
  <1>1. Len(s) \in Nat /\ DOMAIN s = 1..Len(s) /\ e.ok /\ e.unknown = <<>>
    BY DEF IsSchema, Readable, Proper
  <1>2. IsMsg(s, both) /\ both.ok = (d.ok /\ e.ok) /\ both.unknown = d.unknown \o e.unknown
    BY DEF MergeFrom, IsMsg
  <1>3. both.unknown = <<>>
    <2>1. <<>> \o <<>> = <<>>
      OBVIOUS
    <2> QED BY <1>1, <1>2, <2>1
  <1>4. \A n \in FieldNames(s) : both.val[n] =
          IF IsRepeated(FieldNamed(s, n)) THEN d.val[n] \o e.val[n]
          ELSE IF e.val[n] # 0 THEN e.val[n] ELSE d.val[n]
    BY DEF MergeFrom
  <1> HIDE DEF both
  <1>5. \A j \in 1..Len(s) : both.val[s[j].name] =
          IF e.val[s[j].name] # 0 THEN e.val[s[j].name] ELSE d.val[s[j].name]
    BY <1>4, Named
  <1>6. \A j \in 1..Len(s) : p.val[s[j].name] = both.val[s[j].name]
    BY <1>1, <1>5 DEF MergedUpTo
  <1>7. \A n \in FieldNames(s) : p.val[n] = both.val[n]
    BY <1>1, <1>6 DEF FieldNames
  <1>8. p.ok = both.ok
    <2>1. p.ok \in BOOLEAN /\ both.ok \in BOOLEAN /\ p.ok /\ both.ok
      BY <1>1, <1>2 DEF MergedUpTo, IsMsg
    <2> QED BY <2>1
  <1>9. IsMsg(s, p) /\ p.unknown = both.unknown
    BY <1>3 DEF MergedUpTo
  <1>10. p = both
    BY <1>2, <1>7, <1>8, <1>9, SameMsg
  <1> QED BY <1>10 DEF both

LEMMA AppendBehind ==
  ASSUME NEW X, NEW a \in Seq(X), NEW c \in Seq(X), NEW t \in X
  PROVE  a \o (c \o <<t>>) = Append(a \o c, t)
PROOF
  <1>1. <<t>> \in Seq(X) /\ a \o c \in Seq(X)
    BY ConcatProperties
  <1>2. a \o (c \o <<t>>) = (a \o c) \o <<t>>
    BY <1>1, ConcatAssociative
  <1> QED BY <1>1, <1>2, AppendIsConcat

\* The bytes of a message behind others are read as its fields, one by one.
LEMMA MergesBehind ==
  ASSUME NEW s, IsSchema(s), \A i \in 1..Len(s) : ~IsRepeated(s[i]),
         NEW b \in Readings(s), NEW e, Readable(s, e)
  PROVE  LET w == SerializeToString(s, e) IN
         /\ w \in Seq(Tags(s)) /\ b \o w \in Readings(s)
         /\ ParseFromArray(s, b \o w) = MergeFrom(s, ParseFromArray(s, b), e)
PROOF
  <1> DEFINE L == Len(s)
             X == Tags(s)
             v(i) == e.val[s[i].name]
             Tok(i) == <<s[i].num, WireType(s[i]), v(i)>>
             blocks == Blocks(s, e)
             d == ParseFromArray(s, b)
  <1>0. L \in Nat /\ DOMAIN s = 1..L /\ \A i \in 1..L : s[i].num = i
    BY DEF IsSchema
  <1>1. b \in Seq(X) /\ IsMsg(s, d) /\ d.ok /\ d.unknown = <<>>
    BY DEF Readings
  <1>2. ASSUME NEW i \in 1..L
        PROVE  /\ blocks[i] = IF v(i) = 0 THEN <<>> ELSE <<Tok(i)>>
               /\ Tok(i) \in X
    <2>1. ~IsEmbedded(s[i]) /\ s[i].kind # "packed"
      BY DEF IsRepeated
    <2>2. blocks[i] = SerializeScalars(<<s[i]>>, [e EXCEPT !.unknown = <<>>])
      BY <1>0, <2>1 DEF Blocks
    <2>3. IsMsg(s, e) /\ v(i) \in Int
      BY DEF Readable, Proper, Fits
    <2>4. blocks[i] = IF v(i) = (IF s[i].kind = "packed" THEN <<>> ELSE 0) THEN <<>>
                      ELSE <<Tok(i)>>
      BY <2>2, <2>3, OneField
    <2>5. Tok(i) \in X
      BY <2>3 DEF Tags
    <2> QED BY <2>1, <2>4, <2>5
  <1>3. SerializeToString(s, e) = FlattenSeq(blocks) \o e.unknown /\ e.unknown = <<>>
    BY DEF SerializeToString, Readable, Proper, Blocks
  <1>4. blocks = [i \in 1..L |-> blocks[i]]
    BY <1>0 DEF Blocks
  <1>5. \A i \in 1..L : Num(Tok(i)) = i /\ Tok(i)[2] = WireType(s[i]) /\ Val(Tok(i)) = v(i)
    BY <1>0, TokenParts
  <1> HIDE DEF blocks, X, Tok, L, d
  <1>6. \A i \in 1..L : blocks[i] \in Seq(X)
    <2> SUFFICES ASSUME NEW i \in 1..L PROVE blocks[i] \in Seq(X)
      OBVIOUS
    <2>1. Tok(i) \in X
      BY <1>2
    <2>2. <<>> \in Seq(X) /\ <<Tok(i)>> \in Seq(X)
      <3> HIDE DEF v
      <3> QED BY <2>1
    <2> QED BY <1>2, <2>2, Zenon
  <1>7. blocks \in Seq(Seq(X)) /\ Len(blocks) = L
    BY <1>0, <1>4, <1>6
  <1>8. PICK pre : GrowsTo(X, blocks, pre)
    BY <1>7, Flattened
  <1>9. /\ pre[0] = <<>>
        /\ \A i \in 0..L : pre[i] \in Seq(X)
        /\ \A i \in 1..L : pre[i] = pre[i - 1] \o blocks[i]
        /\ FlattenSeq(blocks) = pre[L]
    BY <1>7, <1>8 DEF GrowsTo
  <1>10. SerializeToString(s, e) = pre[L] /\ pre[L] \in Seq(X)
    <2>1. pre[L] \in Seq(X)
      BY <1>0, <1>9
    <2> QED BY <1>3, <1>9, <2>1, ConcatEmptySeq
  <1> DEFINE Read(i) == ParseFromArray(s, b \o pre[i])
             S == {i \in Nat : i <= L => MergedUpTo(s, d, e, i, Read(i))}
  <1>11. 0 \in S
    <2>1. b \o pre[0] = b
      BY <1>1, <1>9, ConcatEmptySeq
    <2>2. MergedUpTo(s, d, e, 0, d)
      BY <1>0, <1>1 DEF MergedUpTo, L
    <2> QED BY <2>1, <2>2 DEF d
  <1>12. ASSUME NEW i \in Nat, i \in S
         PROVE  i + 1 \in S
    <2> SUFFICES ASSUME i + 1 <= L PROVE MergedUpTo(s, d, e, i + 1, Read(i + 1))
      OBVIOUS
    <2> DEFINE j == i + 1
    <2>1. j \in 1..L /\ j - 1 = i /\ i \in 0..L /\ i <= L /\ j \in 1..Len(s)
      BY <1>0 DEF L
    <2>2. MergedUpTo(s, d, e, j - 1, Read(i))
      BY <1>12, <2>1
    <2>3. pre[j] = pre[i] \o blocks[j] /\ pre[i] \in Seq(X) /\ b \o pre[i] \in Seq(X)
      BY <1>1, <1>9, <2>1, ConcatProperties
    <2> HIDE DEF j
    <2>4. CASE v(j) = 0
      <3>1. pre[j] = pre[i]
        BY <1>2, <2>1, <2>3, <2>4, ConcatEmptySeq
      <3>2. \A k \in 1..Len(s) : k <= j - 1 <=> k <= j /\ k # j
        BY <1>0, <2>1 DEF L
      <3>3. MergedUpTo(s, d, e, j, Read(i))
        BY <2>2, <2>4, <3>2 DEF MergedUpTo
      <3> QED BY <3>1, <3>3 DEF j
    <2>5. CASE v(j) # 0
      <3>1. Tok(j) \in X
        BY <1>2, <2>1
      <3>2. Num(Tok(j)) = j /\ Tok(j)[2] = WireType(s[j]) /\ Val(Tok(j)) = v(j)
        BY <1>5, <2>1
      <3>3. pre[j] = pre[i] \o <<Tok(j)>> /\ <<Tok(j)>> \in Seq(X)
        <4>1. blocks[j] = <<Tok(j)>>
          BY <1>2, <2>1, <2>5
        <4>2. <<Tok(j)>> \in Seq(X)
          <5> HIDE DEF v
          <5> QED BY <3>1
        <4> QED BY <2>3, <4>1, <4>2, Zenon
      <3>4. b \o pre[j] = Append(b \o pre[i], Tok(j))
        <4>1. b \o (pre[i] \o <<Tok(j)>>) = Append(b \o pre[i], Tok(j))
          BY <1>1, <2>3, <3>1, AppendBehind
        <4> QED BY <3>3, <4>1
      <3>5. Read(j) = ParseField(s, Read(i), Tok(j))
        <4>1. ParseFromArray(s, Append(b \o pre[i], Tok(j)))
                = ParseField(s, ParseFromArray(s, b \o pre[i]), Tok(j))
          BY <2>3, <3>1, ParseMore
        <4> QED BY <3>4, <4>1
      <3>6. MergedUpTo(s, d, e, j, ParseField(s, Read(i), Tok(j)))
        BY <2>1, <2>2, <2>5, <3>2, MergeOneMore
      <3> QED BY <3>5, <3>6 DEF j
    <2> QED BY <2>4, <2>5
  <1>13. Nat \subseteq S
    <2> HIDE DEF S
    <2> QED BY <1>11, <1>12, AllNumbers
  <1>14. MergedUpTo(s, d, e, Len(s), Read(L))
    BY <1>0, <1>13 DEF L
  <1>15. Read(L) = MergeFrom(s, d, e)
    BY <1>1, <1>14, AllMerged
  <1>16. b \o pre[L] \in Seq(X)
    BY <1>1, <1>10, ConcatProperties
  <1>17. b \o pre[L] \in Readings(s)
    BY <1>14, <1>16 DEF MergedUpTo, Readings, X
  <1> QED BY <1>10, <1>15, <1>17 DEF X, d

(***************************************************************************)
(* An entry of a log reads as it was written, and entries that are written *)
(* one behind the other, any number of them, are read as the merge of all  *)
(* (log_vec.cpp:147-171, 213-225, and Entry in raft.pb.cc).  This is what  *)
(* LogVec and LogVecImplementsLog ask of an encoding, with Readings(Entry) *)
(* for the strings that are made of entries.                               *)
(***************************************************************************)
THEOREM EntriesMergeInReading ==
  ASSUME NEW e, Readable(Entry, e)
  PROVE  /\ SerializeToString(Entry, e) \in Readings(Entry)
         /\ ParseFromArray(Entry, SerializeToString(Entry, e)) = e
         /\ \A b \in Readings(Entry) :
              LET c == b \o SerializeToString(Entry, e) IN
              /\ c \in Readings(Entry)
              /\ ParseFromArray(Entry, c) = MergeFrom(Entry, ParseFromArray(Entry, b), e)
PROOF
  <1>1. IsSchema(Entry) /\ \A i \in 1..Len(Entry) : ~IsRepeated(Entry[i])
    <2>1. "Entry" \in DOMAIN Embedded /\ Embedded["Entry"] = Entry
      BY DEF Embedded
    <2> QED BY <2>1, EmbeddedSchemas
  <1>2. \A b \in Readings(Entry) :
          LET w == SerializeToString(Entry, e) IN
          /\ w \in Seq(Tags(Entry)) /\ b \o w \in Readings(Entry)
          /\ ParseFromArray(Entry, b \o w) = MergeFrom(Entry, ParseFromArray(Entry, b), e)
    BY <1>1, MergesBehind
  <1>3. <<>> \in Readings(Entry)
    <2>1. ParseFromArray(Entry, <<>>) = Cleared(Entry)
      BY ParseNothing
    <2>2. <<>> \in Seq(Tags(Entry))
      OBVIOUS
    <2> QED BY <1>1, <2>1, <2>2, ClearedIsMsg DEF Readings
  <1>4. SerializeToString(Entry, e) \in Readings(Entry)
    <2> DEFINE w == SerializeToString(Entry, e)
    <2>1. w \in Seq(Tags(Entry)) /\ <<>> \o w \in Readings(Entry)
      BY <1>2, <1>3
    <2> HIDE DEF w
    <2>2. <<>> \o w = w
      BY <2>1, ConcatEmptySeq
    <2>3. w \in Readings(Entry)
      BY <2>1, <2>2
    <2> QED BY <2>3 DEF w
  <1>5. ParseFromArray(Entry, SerializeToString(Entry, e)) = e
    <2> DEFINE p == ParseFromArray(Entry, SerializeToString(Entry, e))
    <2>1. IsMsg(Entry, p) /\ p.ok /\ p.unknown = <<>>
      BY <1>4 DEF Readings
    <2>2. IsMsg(Entry, e) /\ e.ok /\ e.unknown = <<>> /\ Proper(Entry, e)
      BY DEF Readable, Proper
    <2>3. p.ok => p.val = e.val
      BY <1>1, <2>2, ReadsBack DEF Later
    <2> HIDE DEF p
    <2>4. p.ok = e.ok
      BY <2>1, <2>2 DEF IsMsg
    <2>5. p = e
      BY <2>1, <2>2, <2>3, <2>4, SameMsg
    <2> QED BY <2>5 DEF p
  <1> QED BY <1>2, <1>4, <1>5
-----------------------------------------------------------------------------
(* Calls *)

LEMMA Schemas ==
  /\ IsSchema(RequestVoteArgs) /\ IsSchema(RequestVoteReply)
  /\ IsSchema(AppendEntriesArgs) /\ IsSchema(AppendEntriesReply)
  /\ IsSchema(RecordRequest) /\ IsSchema(RecordReply)
  /\ IsSchema(GCRequest) /\ IsSchema(GCReply)
  /\ IsSchema(RecoveryRequest) /\ IsSchema(RecoveryData)
  /\ IsSchema(StopRequest) /\ IsSchema(StopReply)
  /\ IsSchema(ResetRequest) /\ IsSchema(ResetReply)
  /\ IsSchema(StatusRequest) /\ IsSchema(StatusReply)
  /\ IsSchema(ProposeRequest) /\ IsSchema(ProposeReply)
  /\ IsSchema(ReadRequest) /\ IsSchema(ReadReply)
  /\ IsSchema(SyncRequest) /\ IsSchema(SyncReply)
  /\ IsSchema(RecoverRequest) /\ IsSchema(RecoverReply)
  /\ IsSchema(Empty) /\ IsSchema(Pong)
  /\ IsSchema(Message) /\ IsSchema(Ack)
PROOF
  <1>1. IsSchema(RequestVoteArgs)
    BY DEF IsSchema, ToSet, RequestVoteArgs, F
  <1>2. IsSchema(RequestVoteReply)
    BY DEF IsSchema, ToSet, RequestVoteReply, F
  <1>3. IsSchema(AppendEntriesArgs)
    BY DEF IsSchema, ToSet, AppendEntriesArgs, F
  <1>4. IsSchema(AppendEntriesReply)
    BY DEF IsSchema, ToSet, AppendEntriesReply, F
  <1>5. IsSchema(RecordRequest)
    BY DEF IsSchema, ToSet, RecordRequest, F
  <1>6. IsSchema(RecordReply)
    BY DEF IsSchema, ToSet, RecordReply, F
  <1>7. IsSchema(GCRequest)
    BY DEF IsSchema, ToSet, GCRequest, F
  <1>8. IsSchema(GCReply)
    BY DEF IsSchema, ToSet, GCReply, F
  <1>9. IsSchema(RecoveryRequest)
    BY DEF IsSchema, ToSet, RecoveryRequest, F
  <1>10. IsSchema(RecoveryData)
    BY DEF IsSchema, ToSet, RecoveryData, F
  <1>11. IsSchema(StopRequest)
    BY DEF IsSchema, ToSet, StopRequest, F
  <1>12. IsSchema(StopReply)
    BY DEF IsSchema, ToSet, StopReply, F
  <1>13. IsSchema(ResetRequest)
    BY DEF IsSchema, ToSet, ResetRequest, F
  <1>14. IsSchema(ResetReply)
    BY DEF IsSchema, ToSet, ResetReply, F
  <1>15. IsSchema(StatusRequest)
    BY DEF IsSchema, ToSet, StatusRequest, F
  <1>16. IsSchema(StatusReply)
    BY DEF IsSchema, ToSet, StatusReply, F
  <1>17. IsSchema(ProposeRequest)
    BY DEF IsSchema, ToSet, ProposeRequest, F
  <1>18. IsSchema(ProposeReply)
    BY DEF IsSchema, ToSet, ProposeReply, F
  <1>19. IsSchema(ReadRequest)
    BY DEF IsSchema, ToSet, ReadRequest, F
  <1>20. IsSchema(ReadReply)
    BY DEF IsSchema, ToSet, ReadReply, F
  <1>21. IsSchema(SyncRequest)
    BY DEF IsSchema, ToSet, SyncRequest, F
  <1>22. IsSchema(SyncReply)
    BY DEF IsSchema, ToSet, SyncReply, F
  <1>23. IsSchema(RecoverRequest)
    BY DEF IsSchema, ToSet, RecoverRequest, F
  <1>24. IsSchema(RecoverReply)
    BY DEF IsSchema, ToSet, RecoverReply, F
  <1>25. IsSchema(Empty)
    BY DEF IsSchema, ToSet, Empty, F
  <1>26. IsSchema(Pong)
    BY DEF IsSchema, ToSet, Pong, F
  <1>27. IsSchema(Message)
    BY DEF IsSchema, ToSet, Message, F
  <1>28. IsSchema(Ack)
    BY DEF IsSchema, ToSet, Ack, F
  <1> QED
    BY <1>1, <1>2, <1>3, <1>4, <1>5, <1>6, <1>7, <1>8, <1>9, <1>10, <1>11, <1>12, <1>13, <1>14,
       <1>15, <1>16, <1>17, <1>18, <1>19, <1>20, <1>21, <1>22, <1>23, <1>24, <1>25, <1>26, <1>27, <1>28

LEMMA MethodSchemas ==
  ASSUME NEW k \in DOMAIN Methods
  PROVE  IsSchema(Methods[k].req) /\ IsSchema(Methods[k].rep)
PROOF
  <1>1. /\ DOMAIN RaftMethods = {"RequestVote", "AppendEntries"}
        /\ DOMAIN WitnessMethods = {"Record", "GarbageCollect", "GetRecoveryData", "Stop",
                                    "Reset", "GetStatus"}
        /\ DOMAIN CurpMethods = {"Propose", "Read", "Sync", "Recover"}
        /\ DOMAIN NodeMethods = {"Ping", "SendMessage"}
    BY DEF RaftMethods, WitnessMethods, CurpMethods, NodeMethods
  <1>2. CASE k \in DOMAIN RaftMethods
    <2>1. Methods[k] = RaftMethods[k]
      BY <1>1, <1>2 DEF Methods
    <2> QED BY <1>1, <1>2, <2>1, Schemas DEF RaftMethods, M
  <1>3. CASE k \in DOMAIN WitnessMethods
    <2>1. Methods[k] = WitnessMethods[k]
      BY <1>1, <1>3 DEF Methods
    <2> QED BY <1>1, <1>3, <2>1, Schemas DEF WitnessMethods, M
  <1>4. CASE k \in DOMAIN CurpMethods
    <2>1. Methods[k] = CurpMethods[k]
      BY <1>1, <1>4 DEF Methods
    <2> QED BY <1>1, <1>4, <2>1, Schemas DEF CurpMethods, M
  <1>5. CASE k \in DOMAIN NodeMethods
    <2>1. Methods[k] = NodeMethods[k]
      BY <1>1, <1>5 DEF Methods
    <2> QED BY <1>1, <1>5, <2>1, Schemas DEF NodeMethods, M
  <1> QED BY <1>2, <1>3, <1>4, <1>5 DEF Methods

\* Setters leave proper messages.
LEMMA AssignedIsProper ==
  ASSUME NEW s, IsSchema(s), NEW m, Proper(s, m), NEW f \in ToSet(s), NEW v \in Inputs(f)
  PROVE  Proper(s, Assigned(m, f, v))
PROOF
  <1>1. PICK i \in 1..Len(s) : f = s[i]
    BY DEF IsSchema, ToSet
  <1>2. DOMAIN Embedded = {"Entry", "GCEntry", "SavedRequest", "SavedOp"}
    BY DEF Embedded
  <1> DEFINE n == f.name
  <1>3. n \in FieldNames(s) /\ IsMsg(s, m) /\ Fits(f, m.val[n])
    <2>1. n \in FieldNames(s)
      BY <1>1, Named
    <2> QED BY <1>1, <2>1 DEF Proper
  <1>4. \E x : Assigned(m, f, v) = WithVal(m, n, x) /\ Fits(f, x)
    <2>1. CASE IsEmbedded(f)
      <3> DEFINE E == Elements(Embedded[f.kind])
                 x == Append(m.val[n], v)
      <3>1. v \in E
        BY <1>2, <2>1 DEF Inputs, IsEmbedded
      <3>2. m.val[n] \in Seq(E)
        BY <1>3, <2>1 DEF Fits
      <3>3. Assigned(m, f, v) = WithVal(m, n, x)
        <4>1. f.kind \notin {"packed", "string", "bytes"}
          BY <1>2, <2>1 DEF IsEmbedded
        <4> QED BY <2>1, <4>1 DEF Assigned, AddElement, WithVal
      <3> HIDE DEF E
      <3>4. x \in Seq(E)
        BY <3>1, <3>2, AppendProperties
      <3>5. f.kind # "packed" /\ IsRepeated(f)
        BY <1>2, <2>1 DEF IsEmbedded, IsRepeated
      <3>6. Fits(f, x)
        BY <3>4, <3>5 DEF Fits, E
      <3> QED BY <3>3, <3>6
    <2>2. CASE f.kind = "packed"
      <3> DEFINE x == Append(m.val[n], v)
      <3>1. ~IsEmbedded(f) /\ IsRepeated(f)
        BY <1>2, <2>2 DEF IsEmbedded, IsRepeated
      <3>2. v \in ScalarValues
        BY <2>2, <3>1 DEF Inputs
      <3>3. m.val[n] \in Seq(ScalarValues)
        BY <1>3, <2>2 DEF Fits
      <3>4. Assigned(m, f, v) = WithVal(m, n, x)
        BY <2>2, <3>1 DEF Assigned, AddScalar, WithVal
      <3>5. x \in Seq(ScalarValues)
        BY <3>2, <3>3, AppendProperties
      <3>6. Fits(f, x)
        BY <3>1, <3>5 DEF Fits
      <3> QED BY <3>4, <3>6
    <2>3. CASE ~IsEmbedded(f) /\ f.kind \in {"string", "bytes"}
      <3>1. v \in Int
        BY <2>3, RpcAssumption DEF Inputs, NotUtf8
      <3>2. Assigned(m, f, v) = WithVal(m, n, v)
        BY <2>3 DEF Assigned, AssignString, WithVal
      <3>3. Converted(f, v) = v
        BY <2>3 DEF Converted
      <3>4. Fits(f, v)
        BY <2>3, <3>1, <3>3 DEF Fits
      <3> QED BY <3>2, <3>4
    <2>4. CASE ~IsEmbedded(f) /\ f.kind \notin {"packed", "string", "bytes"}
      <3> DEFINE x == Converted(f, v)
      <3>1. v \in Nat
        BY <2>4, RpcAssumption DEF Inputs
      <3>2. Assigned(m, f, v) = WithVal(m, n, x)
        BY <2>4 DEF Assigned, AssignScalar, WithVal
      <3>3. v % Two32 \in 0 .. Two32 - 1
        BY <3>1, WireAssumption
      <3>4. \A y \in 0 .. Two32 - 1 : y % Two32 = y
        BY WireAssumption
      <3>5. x \in Int /\ Converted(f, x) = x
        BY <3>1, <3>3, <3>4 DEF Converted
      <3>6. Fits(f, x)
        BY <2>4, <3>5 DEF Fits
      <3> QED BY <3>2, <3>6
    <2> QED BY <2>1, <2>2, <2>3, <2>4
  <1>5. PICK x : Assigned(m, f, v) = WithVal(m, n, x) /\ Fits(f, x)
    BY <1>4
  <1> DEFINE q == WithVal(m, n, x)
  <1>6. /\ IsMsg(s, q) /\ q.ok = m.ok /\ q.unknown = m.unknown
        /\ \A k \in FieldNames(s) : q.val[k] = IF k = n THEN x ELSE m.val[k]
    BY <1>3, WithValIs
  <1> HIDE DEF q
  <1>7. \A j \in 1..Len(s) : Fits(s[j], q.val[s[j].name])
    <2> SUFFICES ASSUME NEW j \in 1..Len(s) PROVE Fits(s[j], q.val[s[j].name])
      OBVIOUS
    <2>1. s[j].name \in FieldNames(s) /\ (s[j].name = n => j = i)
      BY <1>1, Named DEF IsSchema
    <2>2. CASE j = i
      BY <1>1, <1>5, <1>6, <2>1, <2>2
    <2>3. CASE j # i
      BY <1>6, <2>1, <2>3 DEF Proper
    <2> QED BY <2>2, <2>3
  <1>8. Proper(s, q)
    BY <1>6, <1>7 DEF Proper
  <1> QED BY <1>5, <1>8 DEF q

LEMMA ClearedIsProper ==
  ASSUME NEW s, IsSchema(s)
  PROVE  Proper(s, Cleared(s))
PROOF
  <1>1. ASSUME NEW i \in 1..Len(s)
        PROVE  Fits(s[i], Default(s[i]))
    <2>1. 0 % Two32 = 0
      BY WireAssumption
    <2>2. \A S : <<>> \in Seq(S)
      OBVIOUS
    <2>3. CASE IsRepeated(s[i])
      BY <2>2, <2>3 DEF Fits, Default
    <2>4. CASE ~IsRepeated(s[i])
      <3>1. Default(s[i]) = 0 /\ Converted(s[i], 0) = 0
        BY <2>1, <2>4 DEF Default, Converted
      <3> QED BY <2>4, <3>1 DEF Fits, IsRepeated
    <2> QED BY <2>3, <2>4
  <1> QED BY <1>1, ClearedIsMsg DEF Proper

\* What has been read is written as it was.
LEMMA WritesAgain ==
  ASSUME NEW s, IsSchema(s), NEW m, Proper(s, m), NEW extra \in Later,
         ParseFromArray(s, SerializeToString(s, m) \o extra).ok
  PROVE  SerializeToString(s, ParseFromArray(s, SerializeToString(s, m) \o extra))
           = SerializeToString(s, m) \o extra
PROOF
  <1> DEFINE p == ParseFromArray(s, SerializeToString(s, m) \o extra)
  <1>0. /\ IsMsg(s, p) /\ p.val = m.val /\ p.unknown = extra
        /\ SerializeToString(s, m) = FlattenSeq(Blocks(s, m))
    BY ReadsBack
  <1>1. IsMsg(s, p) /\ IsMsg(s, m) /\ p.val = m.val /\ p.unknown = extra
        /\ SerializeToString(s, m) = FlattenSeq(Blocks(s, m))
    BY <1>0 DEF Proper
  <1> HIDE DEF p
  <1>2. Blocks(s, p) = Blocks(s, m)
    <2>1. \A f : SerializeScalars(<<f>>, [p EXCEPT !.unknown = <<>>])
                 = SerializeScalars(<<f>>, [m EXCEPT !.unknown = <<>>])
      <3> TAKE f
      <3> DEFINE B(v) == IF v[f.name] = (IF f.kind = "packed" THEN <<>> ELSE 0) THEN <<>>
                         ELSE << <<f.num, WireType(f), v[f.name]>> >>
      <3>1. SerializeScalars(<<f>>, [p EXCEPT !.unknown = <<>>]) = B(p.val)
        BY <1>1, OneField
      <3>2. SerializeScalars(<<f>>, [m EXCEPT !.unknown = <<>>]) = B(m.val)
        BY <1>1, OneField
      <3> HIDE DEF B
      <3> QED BY <1>1, <3>1, <3>2
    <2> QED BY <1>1, <2>1 DEF Blocks
  <1>3. SerializeToString(s, p) = FlattenSeq(Blocks(s, p)) \o p.unknown
    BY DEF SerializeToString, Blocks
  <1> QED BY <1>1, <1>2, <1>3 DEF p
-----------------------------------------------------------------------------
(***************************************************************************)
(* The invariant: the objects of the caller and of the handler are proper, *)
(* the bytes under way are what one of them is written as, and what has    *)
(* been read from such bytes is that object.                               *)
(***************************************************************************)
ObjectsInv ==
  /\ method \in DOMAIN Methods
  /\ Proper(Req, request)
  /\ phase = "answered" => Proper(Rep, reply)

WireInv ==
  /\ phase = "sent" => \E extra \in Later : wire = SerializeToString(Req, request) \o extra
  /\ phase = "answered" => wire = SerializeToString(Rep, reply)

RunsInv ==
  /\ phase \in {"set", "sent"} => runs = 0
  /\ phase = "answered" => runs = 1
  /\ runs # 0 => runs = 1 /\ seen.val = request.val
  /\ phase \in {"set", "sent", "answered"} => status = "none"
  /\ status = "OK" => runs = 1 /\ response.val = reply.val

RpcInv == ObjectsInv /\ WireInv /\ RunsInv

LEMMA RpcInit == Init => RpcInv
PROOF
  <1> SUFFICES ASSUME Init PROVE RpcInv
    OBVIOUS
  <1>1. IsSchema(Req)
    BY MethodSchemas DEF Init, Req
  <1>2. ObjectsInv
    BY <1>1, ClearedIsProper DEF ObjectsInv, Init
  <1>3. WireInv /\ RunsInv
    BY DEF WireInv, RunsInv, Init
  <1> QED BY <1>2, <1>3 DEF RpcInv

\* What is sent is read as the request, what is answered as the reply.
LEMMA ReadAtEitherEnd ==
  ASSUME RpcInv
  PROVE  /\ phase = "sent" =>
              LET m == ParseFromArray(Req, wire) IN
              m.ok => m.val = request.val /\ SerializeToString(Req, m) = wire
         /\ phase = "answered" =>
              LET m == ParseFromArray(Rep, wire) IN
              m.ok => m.val = reply.val /\ SerializeToString(Rep, m) = wire
PROOF
  <1>1. IsSchema(Req) /\ IsSchema(Rep)
    BY MethodSchemas DEF RpcInv, ObjectsInv, Req, Rep
  <1>2. ASSUME phase = "sent", ParseFromArray(Req, wire).ok
        PROVE  /\ ParseFromArray(Req, wire).val = request.val
               /\ SerializeToString(Req, ParseFromArray(Req, wire)) = wire
    <2>1. PICK extra \in Later : wire = SerializeToString(Req, request) \o extra
      BY <1>2 DEF RpcInv, WireInv
    <2>2. Proper(Req, request)
      BY DEF RpcInv, ObjectsInv
    <2>3. ParseFromArray(Req, wire).val = request.val
      BY <1>1, <1>2, <2>1, <2>2, ReadsBack
    <2>4. SerializeToString(Req, ParseFromArray(Req, wire)) = wire
      BY <1>1, <1>2, <2>1, <2>2, WritesAgain
    <2> QED BY <2>3, <2>4
  <1>3. ASSUME phase = "answered", ParseFromArray(Rep, wire).ok
        PROVE  /\ ParseFromArray(Rep, wire).val = reply.val
               /\ SerializeToString(Rep, ParseFromArray(Rep, wire)) = wire
    <2>1. Proper(Rep, reply) /\ wire = SerializeToString(Rep, reply)
      BY <1>3 DEF RpcInv, ObjectsInv, WireInv
    <2> DEFINE none == <<>>
    <2>2. none \in Later
      BY DEF Later
    <2>3. wire = SerializeToString(Rep, reply) \o none
      BY <1>1, <2>1, <2>2, ReadsBack
    <2> HIDE DEF none
    <2>4. ParseFromArray(Rep, wire).val = reply.val
      BY <1>1, <1>3, <2>1, <2>2, <2>3, ReadsBack
    <2>5. SerializeToString(Rep, ParseFromArray(Rep, wire)) = wire
      BY <1>1, <1>3, <2>1, <2>2, <2>3, WritesAgain
    <2> QED BY <2>4, <2>5
  <1> QED BY <1>2, <1>3

LEMMA RpcStep ==
  ASSUME RpcInv, [Next]_vars
  PROVE  RpcInv'
PROOF
  <1>1. /\ method' = method
        /\ Req' = Req /\ Rep' = Rep
    <2>1. method' = method
      BY DEF Next, vars, Set, Send, Unimplemented, Handle, Receive, Fail, Return
    <2> QED BY <2>1 DEF Req, Rep
  <1>2. IsSchema(Req) /\ IsSchema(Rep)
    BY MethodSchemas DEF RpcInv, ObjectsInv, Req, Rep
  <1> USE DEF RpcInv, ObjectsInv, WireInv, RunsInv
  <1>3. ASSUME NEW f \in ToSet(Req), NEW v \in Inputs(f), Set(f, v)
        PROVE  RpcInv'
    <2>1. Proper(Req, request')
      BY <1>2, <1>3, AssignedIsProper DEF Set
    <2> QED BY <1>1, <1>3, <2>1 DEF Set
  <1>4. ASSUME NEW extra \in Later, Send(extra)
        PROVE  RpcInv'
    BY <1>1, <1>4 DEF Send
  <1>5. ASSUME Unimplemented \/ Fail
        PROVE  RpcInv'
    BY <1>1, <1>5 DEF Unimplemented, Fail, Finish
  <1>6. ASSUME NEW r \in Replies(Rep), Handle(r)
        PROVE  RpcInv'
    <2>1. Proper(Rep, r)
      <3>1. Proper(Rep, Cleared(Rep))
        BY <1>2, ClearedIsProper
      <3>2. \A f \in ToSet(Rep) : \A v \in Inputs(f) : Proper(Rep, Assigned(Cleared(Rep), f, v))
        BY <1>2, <3>1, AssignedIsProper
      <3> QED BY <3>1, <3>2 DEF Replies
    <2> DEFINE m == ParseFromArray(Req, wire)
    <2>2. m.ok => m.val = request.val
      BY <1>6, ReadAtEitherEnd DEF Handle
    <2> HIDE DEF m
    <2>3. CASE m.ok
      BY <1>1, <1>6, <2>1, <2>2, <2>3 DEF Handle, m
    <2>4. CASE ~m.ok
      BY <1>1, <1>6, <2>4 DEF Handle, Finish, m
    <2> QED BY <2>3, <2>4
  <1>7. ASSUME Receive
        PROVE  RpcInv'
    <2> DEFINE m == ParseFromArray(Rep, wire)
    <2>1. m.ok => m.val = reply.val
      BY <1>7, ReadAtEitherEnd DEF Receive
    <2> HIDE DEF m
    <2> QED BY <1>1, <1>7, <2>1 DEF Receive, Finish, m
  <1>8. ASSUME Return
        PROVE  RpcInv'
    <2>1. Proper(Req, Cleared(Req))
      BY <1>2, ClearedIsProper
    <2> QED BY <1>1, <1>8, <2>1 DEF Return
  <1>9. CASE UNCHANGED vars
    BY <1>1, <1>9 DEF vars
  <1> QED
    BY <1>3, <1>4, <1>5, <1>6, <1>7, <1>8, <1>9 DEF Next, Later

LEMMA RpcCorrect == Spec => []RpcInv
  BY RpcInit, RpcStep, PTL DEF Spec

(***************************************************************************)
(* Whatever the setters were given and however many there were, a handler  *)
(* that runs has the request the caller has set: a string that is no UTF-8 *)
(* keeps it from running, and nothing else changes on the way.             *)
(***************************************************************************)
THEOREM HandlersSeeRequests == Spec => []HandlerSeesRequest
PROOF
  <1>1. RpcInv => HandlerSeesRequest
    BY DEF RpcInv, RunsInv, HandlerSeesRequest
  <1> QED BY <1>1, RpcCorrect, PTL

(***************************************************************************)
(* What a caller reports, of any method and with any deployment, is what   *)
(* the one handler that ran has answered.                                  *)
(***************************************************************************)
THEOREM OnlyAnswersAreReported == Spec => []ReportsOnlyAnswers
PROOF
  <1>1. RpcInv => ReportsOnlyAnswers
    <2> SUFFICES ASSUME RpcInv, phase = "done", Reported # 0
                 PROVE  runs = 1 /\ response.val = reply.val
      BY DEF ReportsOnlyAnswers
    <2>1. status = "OK"
      BY DEF Reported
    <2> QED BY <2>1 DEF RpcInv, RunsInv
  <1> QED BY <1>1, RpcCorrect, PTL

(***************************************************************************)
(* What either end has read it can write again, byte for byte, a field of  *)
(* a later proto file included.                                            *)
(***************************************************************************)
THEOREM RelaysKeepBytes == Spec => []RelayKeepsBytes
PROOF
  <1>1. RpcInv => RelayKeepsBytes
    <2> SUFFICES ASSUME RpcInv PROVE RelayKeepsBytes
      OBVIOUS
    <2> QED BY ReadAtEitherEnd DEF RelayKeepsBytes
  <1> QED BY <1>1, RpcCorrect, PTL
==============================================================================
