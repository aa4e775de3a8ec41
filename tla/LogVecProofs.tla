---------------------------- MODULE LogVecProofs ----------------------------
(***************************************************************************)
(* LogVec implements EntryLog: the two files, torn by crashes or not, hold *)
(* the entries that the log promises.                                      *)
(***************************************************************************)
EXTENDS LogVec, SequenceTheorems, WellFoundedInduction, NaturalsInduction, TLAPS

(***************************************************************************)
(* What is asked of an encoding, with the strings P of bytes from B that   *)
(* are made of one or more encoded entries: to read one entry behind       *)
(* another is to merge the two, as the wire format of protobuf has it.     *)
(***************************************************************************)
MergesInReading(B, P) ==
  /\ P \subseteq Seq(B)
  /\ \A e \in Entries : encode_entry(e) \in P
  /\ \A b \in P : decode_entry(b) # Unreadable
  /\ \A b \in P, e \in Entries :
       /\ b \o encode_entry(e) \in P
       /\ decode_entry(b \o encode_entry(e)) = Merge(decode_entry(b), e)

\* How many entries there are, when the operation under way has cut its own.
Live == IF call.name = "truncate" THEN call.idx ELSE entry_count
Kept == {i \in 0 .. Live - 1 : i \notin spoilt}

\* Where the bytes of entry i end, and these bytes.
OffsetAfter(i) == IF i + 1 < entry_count THEN meta[i + 2] ELSE DataSize
Slice(i) == SubSeq(data, meta[i + 1] + 1, OffsetAfter(i))

\* The offset of a spoilt entry may lie anywhere but in an entry that is kept.
Sound(i) ==
  /\ meta[i + 1] <= OffsetAfter(i) /\ OffsetAfter(i) <= DataSize
  /\ \A j \in i + 1 .. entry_count - 1 : OffsetAfter(i) <= meta[j + 1]

CallInv ==
  /\ call.name = "push" =>
       SubSeq(data, call.offset + 1, Len(data)) = encode_entry(call.entry)
  /\ call.name = "truncate" =>
       /\ call.idx < entry_count
       /\ call.idx > 0 => meta[call.idx + 1] = Len(data)

\* The inductive invariant.
FilesInv(B, P) ==
  /\ TypeOK /\ CallInv
  /\ data \in Seq(B)
  /\ \A i \in Kept : Sound(i) /\ Slice(i) \in P
-----------------------------------------------------------------------------
(* Sequences *)

\* A function on 1..n is a sequence.
LEMMA Tabulated ==
  ASSUME NEW V, NEW n \in Nat, NEW f \in [1..n -> V]
  PROVE  f \in Seq(V) /\ Len(f) = n
PROOF
  OBVIOUS

\* Bytes that are in both sequences are the same slice of both.
LEMMA SameSlice ==
  ASSUME NEW B, NEW d \in Seq(B), NEW c \in Seq(B), NEW a \in Nat, NEW b \in Nat,
         a <= b, b <= Len(d), b <= Len(c), \A i \in 1..b : d[i] = c[i]
  PROVE  SubSeq(d, a + 1, b) = SubSeq(c, a + 1, b)
PROOF
  <1> DEFINE s == SubSeq(d, a + 1, b)
             t == SubSeq(c, a + 1, b)
  <1>1. /\ s \in Seq(B) /\ Len(s) = b - a /\ \A i \in 1 .. b - a : s[i] = d[a + i]
    <2>1. \A i \in a + 1 .. b : d[i] \in B
      OBVIOUS
    <2> QED BY <2>1, SubSeqProperties
  <1>2. /\ t \in Seq(B) /\ Len(t) = b - a /\ \A i \in 1 .. b - a : t[i] = c[a + i]
    <2>1. \A i \in a + 1 .. b : c[i] \in B
      OBVIOUS
    <2> QED BY <2>1, SubSeqProperties
  <1> HIDE DEF s, t
  <1>3. \A i \in 1 .. b - a : s[i] = t[i]
    BY <1>1, <1>2
  <1>4. s = t
    BY <1>1, <1>2, <1>3, SeqEqual
  <1> QED BY <1>4 DEF s, t

\* A slice up to the end grows by what is written behind it.
LEMMA SliceGrows ==
  ASSUME NEW B, NEW d \in Seq(B), NEW a \in Nat, NEW b \in Nat, a <= b, b <= Len(d)
  PROVE  SubSeq(d, a + 1, Len(d)) = SubSeq(d, a + 1, b) \o SubSeq(d, b + 1, Len(d))
PROOF
  <1>1. PICK n \in Nat : n = Len(d)
    OBVIOUS
  <1> DEFINE s == SubSeq(d, a + 1, n)
             u == SubSeq(d, a + 1, b)
             v == SubSeq(d, b + 1, n)
  <1>2. \A i \in 1..n : d[i] \in B
    BY <1>1
  <1>3. /\ s \in Seq(B) /\ Len(s) = n - a /\ \A i \in 1 .. n - a : s[i] = d[a + i]
    <2>1. \A i \in a + 1 .. n : d[i] \in B
      BY <1>2
    <2> QED BY <1>1, <2>1, SubSeqProperties
  <1>4. /\ u \in Seq(B) /\ Len(u) = b - a /\ \A i \in 1 .. b - a : u[i] = d[a + i]
    <2>1. \A i \in a + 1 .. b : d[i] \in B
      BY <1>1, <1>2
    <2> QED BY <1>1, <2>1, SubSeqProperties
  <1>5. /\ v \in Seq(B) /\ Len(v) = n - b /\ \A i \in 1 .. n - b : v[i] = d[b + i]
    <2>1. \A i \in b + 1 .. n : d[i] \in B
      BY <1>2
    <2> QED BY <1>1, <2>1, SubSeqProperties
  <1> HIDE DEF s, u, v
  <1>6. /\ u \o v \in Seq(B) /\ Len(u \o v) = n - a
        /\ \A i \in 1 .. n - a : (u \o v)[i] = IF i <= b - a THEN u[i] ELSE v[i - (b - a)]
    <2>1. Len(u) + Len(v) = n - a /\ Len(u) = b - a
      BY <1>1, <1>4, <1>5
    <2>2. /\ u \o v \in Seq(B) /\ Len(u \o v) = Len(u) + Len(v)
          /\ \A i \in 1 .. Len(u) + Len(v) :
               (u \o v)[i] = IF i <= Len(u) THEN u[i] ELSE v[i - Len(u)]
      BY <1>4, <1>5, ConcatProperties
    <2> QED BY <2>1, <2>2
  <1>7. ASSUME NEW i \in 1 .. n - a PROVE s[i] = (u \o v)[i]
    <2>1. s[i] = d[a + i] /\ (u \o v)[i] = IF i <= b - a THEN u[i] ELSE v[i - (b - a)]
      BY <1>3, <1>6
    <2>2. CASE i <= b - a
      <3>1. i \in 1 .. b - a
        BY <1>1, <2>2
      <3> QED BY <1>4, <2>1, <2>2, <3>1
    <2>3. CASE ~(i <= b - a)
      <3>1. i - (b - a) \in 1 .. n - b /\ b + (i - (b - a)) = a + i
        BY <1>1, <2>3
      <3> QED BY <1>5, <2>1, <2>3, <3>1
    <2> QED BY <2>2, <2>3
  <1>8. s = u \o v
    BY <1>3, <1>6, <1>7, SeqEqual
  <1> QED BY <1>1, <1>8 DEF s, u, v
-----------------------------------------------------------------------------
(* The files *)

\* What the invariant says of the sizes.
LEMMA Sizes ==
  ASSUME NEW B, NEW P, FilesInv(B, P)
  PROVE  /\ meta \in Seq(Nat) /\ entry_count \in Nat /\ entry_count = Len(meta)
         /\ \A i \in 0 .. entry_count - 1 : meta[i + 1] \in Nat
         /\ data \in Seq(B) /\ Len(data) \in Nat
         /\ DataSize \in Nat /\ DataSize <= Len(data)
         /\ Live \in Nat /\ Live <= entry_count
         /\ call.name \in {"none", "push", "truncate"}
         /\ call.name = "none" => call = NoCall
         /\ call.name = "push" => call.entry \in Entries /\ call.offset = DataSize
         /\ call.name = "truncate" => call.idx \in Nat
PROOF
  <1>1. meta \in Seq(Nat) /\ entry_count = Len(meta) /\ data \in Seq(B)
    BY DEF FilesInv, TypeOK
  <1>2. \/ call = NoCall
        \/ call \in [name : {"push"}, entry : Entries, offset : 0..Len(data)]
        \/ call \in [name : {"truncate"}, idx : 0..entry_count]
    BY DEF FilesInv, TypeOK
  <1>3. entry_count \in Nat /\ Len(data) \in Nat
    BY <1>1
  <1>4. CASE call = NoCall
    BY <1>1, <1>3, <1>4 DEF NoCall, Live, DataSize
  <1>5. CASE call \in [name : {"push"}, entry : Entries, offset : 0..Len(data)]
    BY <1>1, <1>3, <1>5 DEF Live, DataSize
  <1>6. CASE call \in [name : {"truncate"}, idx : 0..entry_count]
    BY <1>1, <1>3, <1>6 DEF Live, DataSize
  <1> QED BY <1>2, <1>4, <1>5, <1>6

\* Where the bytes of an entry that is kept lie.
LEMMA KeptBounds ==
  ASSUME NEW B, NEW P, FilesInv(B, P), NEW i \in Kept
  PROVE  /\ i \in Nat /\ i < Live /\ i < entry_count /\ i \notin spoilt
         /\ meta[i + 1] \in Nat /\ OffsetAfter(i) \in Nat
         /\ meta[i + 1] <= OffsetAfter(i) /\ OffsetAfter(i) <= DataSize
         /\ Slice(i) \in P
PROOF
  <1>1. i \in Nat /\ i < Live /\ i < entry_count /\ i \notin spoilt
    BY Sizes DEF Kept
  <1>2. meta[i + 1] \in Nat /\ OffsetAfter(i) \in Nat
    <2>1. i + 1 < entry_count => meta[i + 2] \in Nat
      <3>1. i + 1 < entry_count => (i + 1) \in 0 .. entry_count - 1 /\ (i + 1) + 1 = i + 2
        BY <1>1, Sizes
      <3> QED BY <3>1, Sizes
    <2>2. i \in 0 .. entry_count - 1
      BY <1>1, Sizes
    <2>3. meta[i + 1] \in Nat
      BY <2>2, Sizes
    <2> QED BY <2>1, <2>3, Sizes DEF OffsetAfter
  <1>3. Sound(i) /\ Slice(i) \in P
    BY DEF FilesInv
  <1> QED BY <1>1, <1>2, <1>3 DEF Sound

\* A kept entry is read from its bytes.
LEMMA ReadKept ==
  ASSUME NEW B, NEW P, FilesInv(B, P), NEW i \in Kept
  PROVE  Read(i) = decode_entry(Slice(i))
PROOF
  <1>1. OffsetAfter(i) = IF i + 1 < entry_count THEN get_offset(i + 1) ELSE DataSize
    <2>1. (i + 1) + 1 = i + 2
      BY KeptBounds
    <2> QED BY <2>1 DEF OffsetAfter, get_offset
  <1>2. meta[i + 1] <= OffsetAfter(i) /\ OffsetAfter(i) <= DataSize
    BY KeptBounds
  <1> QED BY <1>1, <1>2 DEF Read, get_offset, Slice

\* A kept entry stays what it was if its bytes and the offsets do.
LEMMA FrameKept ==
  ASSUME NEW B, NEW P, FilesInv(B, P), data' \in Seq(B), NEW i \in Kept,
         meta'[i + 1] = meta[i + 1], OffsetAfter(i)' = OffsetAfter(i),
         OffsetAfter(i) <= Len(data'), OffsetAfter(i) <= DataSize',
         \A k \in 1 .. OffsetAfter(i) : data'[k] = data[k],
         \A j \in i + 1 .. entry_count' - 1 : OffsetAfter(i) <= meta'[j + 1]
  PROVE  Sound(i)' /\ Slice(i)' = Slice(i)
PROOF
  <1>1. PICK a, b, d, c : a = meta[i + 1] /\ b = OffsetAfter(i) /\ d = data /\ c = data'
    OBVIOUS
  <1>2. /\ a \in Nat /\ b \in Nat /\ a <= b /\ b <= DataSize
        /\ d \in Seq(B) /\ c \in Seq(B) /\ b <= Len(c)
    BY <1>1, KeptBounds, Sizes
  <1>3. b <= Len(d)
    <2>1. DataSize \in Nat /\ Len(d) \in Nat /\ DataSize <= Len(d)
      BY <1>1, Sizes
    <2> QED BY <1>2, <2>1
  <1>4. \A k \in 1..b : d[k] = c[k]
    BY <1>1
  <1>5. SubSeq(d, a + 1, b) = SubSeq(c, a + 1, b)
    BY <1>2, <1>3, <1>4, SameSlice
  <1>6. Slice(i)' = Slice(i)
    BY <1>1, <1>5 DEF Slice
  <1>7. Sound(i)'
    BY <1>1, <1>2 DEF Sound
  <1> QED BY <1>6, <1>7

LEMMA PushDataStep ==
  ASSUME NEW B, NEW P, MergesInReading(B, P), FilesInv(B, P),
         NEW e \in Entries, PushData(e)
  PROVE  /\ FilesInv(B, P)' /\ Live' = Live
         /\ \A i \in Kept : Slice(i)' = Slice(i)
PROOF
  <1>1. /\ call = NoCall /\ up /\ meta' = meta /\ entry_count' = entry_count /\ up' = up
        /\ crashes' = crashes /\ spoilt' = spoilt
        /\ call' = [name |-> "push", entry |-> e, offset |-> Len(data)]
        /\ data' = data \o encode_entry(e)
    BY DEF PushData, Idle
  <1>2. data \in Seq(B) /\ encode_entry(e) \in Seq(B) /\ Len(data) \in Nat
    BY Sizes DEF MergesInReading
  <1>3. PICK d, x, n, c : d = data /\ x = encode_entry(e) /\ n = Len(data) /\ c = data'
    OBVIOUS
  <1>4. /\ c \in Seq(B) /\ n <= Len(c) /\ Len(c) \in Nat /\ \A k \in 1..n : c[k] = d[k]
        /\ SubSeq(c, n + 1, Len(c)) = x
    <2>1. d \in Seq(B) /\ x \in Seq(B) /\ c = d \o x /\ n = Len(d)
      BY <1>1, <1>2, <1>3
    <2>2. /\ c \in Seq(B) /\ Len(c) = n + Len(x)
          /\ \A k \in 1 .. n + Len(x) : c[k] = IF k <= n THEN d[k] ELSE x[k - n]
      BY <2>1, ConcatProperties
    <2>3. Len(x) \in Nat /\ n \in Nat
      BY <2>1
    <2>4. \A k \in 1..n : c[k] = d[k]
      BY <2>2, <2>3
    <2>5. /\ SubSeq(c, n + 1, Len(c)) \in Seq(B) /\ Len(SubSeq(c, n + 1, Len(c))) = Len(x)
          /\ \A k \in 1 .. Len(x) : SubSeq(c, n + 1, Len(c))[k] = c[n + k]
      <3>1. \A k \in n + 1 .. Len(c) : c[k] \in B
        BY <2>2, <2>3
      <3> QED BY <2>2, <2>3, <3>1, SubSeqProperties
    <2>6. \A k \in 1 .. Len(x) : c[n + k] = x[k]
      BY <2>2, <2>3
    <2>7. SubSeq(c, n + 1, Len(c)) = x
      BY <2>1, <2>5, <2>6, SeqEqual
    <2> QED BY <2>2, <2>3, <2>4, <2>7
  <1>5. DataSize = n /\ DataSize' = n /\ Live = entry_count /\ Live' = entry_count
    BY <1>1, <1>3 DEF DataSize, Live, NoCall
  <1>6. Kept' = Kept
    BY <1>1, <1>5 DEF Kept
  <1>7. ASSUME NEW i \in Kept PROVE Sound(i)' /\ Slice(i)' = Slice(i)
    <2>1. OffsetAfter(i)' = OffsetAfter(i)
      BY <1>1, <1>5 DEF OffsetAfter
    <2>2. OffsetAfter(i) \in Nat /\ OffsetAfter(i) <= n
      BY <1>5, KeptBounds
    <2>3. /\ OffsetAfter(i) <= Len(data') /\ OffsetAfter(i) <= DataSize'
          /\ \A k \in 1 .. OffsetAfter(i) : data'[k] = data[k]
      <3>1. n \in Nat
        BY <1>2, <1>3
      <3> QED BY <1>3, <1>4, <1>5, <2>2, <3>1
    <2>4. \A j \in i + 1 .. entry_count' - 1 : OffsetAfter(i) <= meta'[j + 1]
      BY <1>1 DEF FilesInv, Sound
    <2>5. meta'[i + 1] = meta[i + 1] /\ data' \in Seq(B)
      BY <1>1, <1>3, <1>4
    <2> QED BY <2>1, <2>3, <2>4, <2>5, FrameKept
  <1>8. TypeOK'
    <2>1. TypeOK
      BY DEF FilesInv
    <2>2. Len(data) \in 0..Len(data')
      BY <1>2, <1>3, <1>4
    <2>3. call' \in [name : {"push"}, entry : Entries, offset : 0..Len(data')]
      BY <1>1, <2>2
    <2> QED BY <1>1, <2>1, <2>3 DEF TypeOK
  <1>9. CallInv'
    <2>1. call'.name = "push" /\ call'.offset = n /\ call'.entry = e
      BY <1>1, <1>3
    <2> QED BY <1>3, <1>4, <2>1 DEF CallInv
  <1>10. FilesInv(B, P)'
    <2>1. \A i \in Kept : Slice(i) \in P
      BY DEF FilesInv
    <2>2. \A i \in Kept' : Sound(i)' /\ Slice(i)' \in P
      BY <1>6, <1>7, <2>1
    <2>3. data' \in Seq(B)
      BY <1>3, <1>4
    <2> QED BY <1>8, <1>9, <2>2, <2>3 DEF FilesInv
  <1> QED BY <1>5, <1>7, <1>10

LEMMA PushMetaStep ==
  ASSUME NEW B, NEW P, MergesInReading(B, P), FilesInv(B, P), PushMeta
  PROVE  /\ FilesInv(B, P)' /\ Live' = Live + 1
         /\ \A i \in Kept : Slice(i)' = Slice(i)
         /\ \A n : n = Live => n \notin spoilt /\ Slice(n)' = encode_entry(call.entry)
PROOF
  <1>1. /\ call.name = "push" /\ call' = NoCall /\ data' = data /\ up' = up
        /\ crashes' = crashes /\ spoilt' = spoilt
        /\ meta' = Append(meta, call.offset) /\ entry_count' = entry_count + 1
    BY DEF PushMeta
  <1>2. PICK n, o : n = entry_count /\ o = call.offset
    OBVIOUS
  <1>3. /\ n \in Nat /\ n = Len(meta) /\ o \in Nat /\ o = DataSize /\ o <= Len(data)
        /\ meta \in Seq(Nat) /\ data \in Seq(B) /\ Len(data) \in Nat /\ call.entry \in Entries
    BY <1>1, <1>2, Sizes
  <1>4. /\ meta' \in Seq(Nat) /\ Len(meta') = n + 1 /\ meta'[n + 1] = o
        /\ \A k \in 1..n : meta'[k] = meta[k]
    BY <1>1, <1>2, <1>3, AppendProperties
  <1>5. DataSize' = Len(data) /\ Live = n /\ Live' = n + 1
    BY <1>1, <1>2 DEF DataSize, Live, NoCall
  <1>6. TypeOK
    BY DEF FilesInv
  <1>7. n \notin spoilt
    <2>1. spoilt \subseteq 0 .. n - 1
      BY <1>2, <1>6 DEF TypeOK
    <2> QED BY <1>3, <2>1
  <1>8. \A i \in Kept' : i = n \/ i \in Kept
    BY <1>1, <1>3, <1>5 DEF Kept
  <1>9. ASSUME NEW i \in Kept PROVE Sound(i)' /\ Slice(i)' = Slice(i)
    <2>1. i \in Nat /\ i < n /\ OffsetAfter(i) \in Nat /\ OffsetAfter(i) <= o
      BY <1>2, <1>3, KeptBounds
    <2>2. OffsetAfter(i)' = OffsetAfter(i)
      <3>1. OffsetAfter(i)' = meta'[i + 2]
        <4>1. i + 1 < n + 1
          BY <1>3, <2>1
        <4> QED BY <1>1, <1>2, <4>1 DEF OffsetAfter
      <3>2. CASE i + 1 < n
        <4>1. i + 2 \in 1..n
          BY <1>3, <2>1, <3>2
        <4> QED BY <1>2, <1>4, <3>1, <3>2, <4>1 DEF OffsetAfter
      <3>3. CASE ~(i + 1 < n)
        <4>1. i + 2 = n + 1
          BY <1>3, <2>1, <3>3
        <4> QED BY <1>2, <1>3, <1>4, <3>1, <3>3, <4>1 DEF OffsetAfter
      <3> QED BY <3>2, <3>3
    <2>3. OffsetAfter(i) <= Len(data') /\ OffsetAfter(i) <= DataSize'
      BY <1>1, <1>3, <1>5, <2>1
    <2>4. ASSUME NEW j \in i + 1 .. entry_count' - 1 PROVE OffsetAfter(i) <= meta'[j + 1]
      <3>1. j \in Nat /\ j <= n
        BY <1>1, <1>2, <1>3, <2>1
      <3>2. CASE j = n
        BY <1>4, <2>1, <3>2
      <3>3. CASE j # n
        <4>1. j \in i + 1 .. n - 1 /\ j + 1 \in 1..n
          BY <1>3, <2>1, <3>1, <3>3
        <4>2. OffsetAfter(i) <= meta[j + 1]
          BY <1>2, <4>1 DEF FilesInv, Sound
        <4> QED BY <1>4, <4>1, <4>2
      <3> QED BY <3>2, <3>3
    <2>5. meta'[i + 1] = meta[i + 1]
      <3>1. i + 1 \in 1..n
        BY <1>3, <2>1
      <3> QED BY <1>4, <3>1
    <2>6. data' \in Seq(B) /\ \A k \in 1 .. OffsetAfter(i) : data'[k] = data[k]
      BY <1>1, <1>3
    <2> QED BY <2>2, <2>3, <2>4, <2>5, <2>6, FrameKept
  <1>10. Sound(n)' /\ Slice(n)' = encode_entry(call.entry)
    <2>1. OffsetAfter(n)' = Len(data)
      BY <1>1, <1>2, <1>3, <1>5 DEF OffsetAfter
    <2>2. Slice(n)' = SubSeq(data, o + 1, Len(data))
      BY <1>1, <1>4, <2>1 DEF Slice
    <2>3. SubSeq(data, o + 1, Len(data)) = encode_entry(call.entry)
      BY <1>1, <1>2 DEF FilesInv, CallInv
    <2>4. n + 1 .. entry_count' - 1 = {}
      BY <1>1, <1>2, <1>3
    <2>5. Sound(n)'
      BY <1>3, <1>4, <1>5, <2>1, <2>4 DEF Sound
    <2> QED BY <2>2, <2>3, <2>5
  <1>11. TypeOK'
    <2>1. spoilt' \subseteq 0 .. entry_count' - 1
      BY <1>1, <1>2, <1>3, <1>6 DEF TypeOK
    <2> QED BY <1>1, <1>2, <1>4, <1>6, <2>1 DEF TypeOK
  <1>12. CallInv'
    BY <1>1 DEF CallInv, NoCall
  <1>13. FilesInv(B, P)'
    <2>1. encode_entry(call.entry) \in P
      BY <1>3 DEF MergesInReading
    <2>2. \A i \in Kept : Slice(i) \in P
      BY DEF FilesInv
    <2>3. \A i \in Kept' : Sound(i)' /\ Slice(i)' \in P
      BY <1>8, <1>9, <1>10, <2>1, <2>2
    <2> QED BY <1>1, <1>3, <1>11, <1>12, <2>3 DEF FilesInv
  <1> QED BY <1>5, <1>7, <1>9, <1>10, <1>13

LEMMA TruncateDataStep ==
  ASSUME NEW B, NEW P, MergesInReading(B, P), FilesInv(B, P),
         NEW idx \in Nat, TruncateData(idx)
  PROVE  /\ FilesInv(B, P)' /\ Live = entry_count /\ Live' = idx /\ idx < Live
         /\ \A i \in Kept' : i \in Kept /\ Slice(i)' = Slice(i)
PROOF
  <1>1. /\ call = NoCall /\ up /\ meta' = meta /\ entry_count' = entry_count /\ up' = up
        /\ crashes' = crashes /\ spoilt' = spoilt /\ idx < entry_count
        /\ call' = [name |-> "truncate", idx |-> idx]
        /\ data' = SubSeq(data, 1, IF idx > 0 THEN get_offset(idx) ELSE 0)
        /\ Read(idx) # Unreadable
    BY DEF TruncateData, Idle
  <1>2. PICK n, o : n = entry_count /\ o = IF idx > 0 THEN meta[idx + 1] ELSE 0
    OBVIOUS
  <1>3. /\ n \in Nat /\ idx < n /\ Live = n /\ Live' = idx /\ DataSize = Len(data)
        /\ data \in Seq(B) /\ Len(data) \in Nat /\ DataSize' = Len(data')
    BY <1>1, <1>2, Sizes DEF Live, DataSize, NoCall
  <1>4. meta[idx + 1] \in Nat /\ meta[idx + 1] <= Len(data)
    <2>1. idx \in 0 .. entry_count - 1
      BY <1>2, <1>3
    <2>2. meta[idx + 1] \in Nat
      BY <2>1, Sizes
    <2>3. PICK z : /\ z = IF idx + 1 < entry_count THEN get_offset(idx + 1) ELSE DataSize
                   /\ get_offset(idx) <= z /\ z <= DataSize
      BY <1>1 DEF Read
    <2>4. z \in Nat
      <3>1. idx + 1 < entry_count => idx + 1 \in 0 .. entry_count - 1
        BY <1>2, <1>3
      <3> QED BY <2>3, <3>1, Sizes DEF get_offset
    <2>5. get_offset(idx) = meta[idx + 1]
      BY DEF get_offset
    <2> QED BY <1>3, <2>2, <2>3, <2>4, <2>5
  <1>5. o \in Nat /\ o <= Len(data)
    BY <1>2, <1>3, <1>4
  <1>6. data' \in Seq(B) /\ Len(data') = o /\ \A k \in 1..o : data'[k] = data[k]
    <2>1. data' = SubSeq(data, 1, o)
      BY <1>1, <1>2 DEF get_offset
    <2>2. PICK d, c : d = data /\ c = data'
      OBVIOUS
    <2>3. d \in Seq(B) /\ c = SubSeq(d, 1, o) /\ o <= Len(d) /\ \A k \in 1..o : d[k] \in B
      BY <1>3, <1>5, <2>1, <2>2
    <2>4. /\ c \in Seq(B) /\ Len(c) = IF 1 <= o THEN o - 1 + 1 ELSE 0
          /\ \A k \in 1 .. o - 1 + 1 : c[k] = d[1 + k - 1]
      BY <1>5, <2>3, SubSeqProperties
    <2>5. c \in Seq(B) /\ Len(c) = o /\ \A k \in 1..o : c[k] = d[k]
      BY <1>5, <2>4
    <2> QED BY <2>2, <2>5
  <1>7. ASSUME NEW i \in Kept' PROVE i \in Kept /\ Sound(i)' /\ Slice(i)' = Slice(i)
    <2>1. i \in Nat /\ i < idx /\ i \in Kept
      BY <1>1, <1>3 DEF Kept
    <2>2. OffsetAfter(i) = meta[i + 2] /\ OffsetAfter(i)' = OffsetAfter(i)
      BY <1>1, <1>2, <1>3, <2>1 DEF OffsetAfter
    <2>3. OffsetAfter(i) \in Nat /\ OffsetAfter(i) <= o
      <3>1. idx \in i + 1 .. entry_count - 1 /\ idx > 0
        BY <1>2, <1>3, <2>1
      <3>2. OffsetAfter(i) <= meta[idx + 1]
        BY <2>1, <3>1 DEF FilesInv, Sound
      <3>3. OffsetAfter(i) \in Nat
        BY <2>1, KeptBounds
      <3> QED BY <1>2, <3>1, <3>2, <3>3
    <2>4. /\ OffsetAfter(i) <= Len(data') /\ OffsetAfter(i) <= DataSize'
          /\ \A k \in 1 .. OffsetAfter(i) : data'[k] = data[k]
      BY <1>3, <1>5, <1>6, <2>3
    <2>5. \A j \in i + 1 .. entry_count' - 1 : OffsetAfter(i) <= meta'[j + 1]
      BY <1>1, <2>1 DEF FilesInv, Sound
    <2>6. meta'[i + 1] = meta[i + 1]
      BY <1>1
    <2>7. Sound(i)' /\ Slice(i)' = Slice(i)
      BY <1>6, <2>1, <2>2, <2>4, <2>5, <2>6, FrameKept
    <2> QED BY <2>1, <2>7
  <1>8. TypeOK'
    <2>1. TypeOK
      BY DEF FilesInv
    <2>2. idx \in 0..entry_count'
      BY <1>1, <1>2, <1>3
    <2> QED BY <1>1, <2>1, <2>2 DEF TypeOK
  <1>9. CallInv'
    <2>1. call'.name = "truncate" /\ call'.idx = idx
      BY <1>1
    <2>2. idx > 0 => meta'[idx + 1] = Len(data')
      BY <1>1, <1>2, <1>6
    <2> QED BY <1>1, <2>1, <2>2 DEF CallInv
  <1>10. FilesInv(B, P)'
    <2>1. \A i \in Kept : Slice(i) \in P
      BY DEF FilesInv
    <2>2. \A i \in Kept' : Sound(i)' /\ Slice(i)' \in P
      BY <1>7, <2>1
    <2> QED BY <1>6, <1>8, <1>9, <2>2 DEF FilesInv
  <1> QED BY <1>2, <1>3, <1>7, <1>10

LEMMA TruncateMetaStep ==
  ASSUME NEW B, NEW P, FilesInv(B, P), TruncateMeta
  PROVE  /\ FilesInv(B, P)' /\ Live' = Live
         /\ \A i \in 0 .. Live - 1 : i \in spoilt' <=> i \in spoilt
         /\ \A i \in Kept' : i \in Kept /\ Slice(i)' = Slice(i)
PROOF
  <1>1. PICK idx : idx = call.idx
    OBVIOUS
  <1>2. /\ call.name = "truncate" /\ call' = NoCall /\ data' = data /\ up' = up
        /\ crashes' = crashes /\ spoilt' = {i \in spoilt : i < idx}
        /\ meta' = SubSeq(meta, 1, idx) /\ entry_count' = idx
    BY <1>1 DEF TruncateMeta
  <1>3. PICK n : n = entry_count
    OBVIOUS
  <1>4. /\ n \in Nat /\ n = Len(meta) /\ idx \in Nat /\ idx < n /\ meta \in Seq(Nat)
        /\ data \in Seq(B) /\ Len(data) \in Nat
        /\ idx > 0 => meta[idx + 1] = Len(data)
    BY <1>1, <1>2, <1>3, Sizes DEF FilesInv, CallInv
  <1>5. DataSize = Len(data) /\ DataSize' = Len(data) /\ Live = idx /\ Live' = idx
    BY <1>1, <1>2 DEF DataSize, Live, NoCall
  <1>6. meta' \in Seq(Nat) /\ Len(meta') = idx /\ \A k \in 1..idx : meta'[k] = meta[k]
    <2>1. PICK m, c : m = meta /\ c = meta'
      OBVIOUS
    <2>2. c = SubSeq(m, 1, idx) /\ \A k \in 1..idx : m[k] \in Nat
      BY <1>2, <1>4, <2>1
    <2>3. /\ c \in Seq(Nat) /\ Len(c) = IF 1 <= idx THEN idx - 1 + 1 ELSE 0
          /\ \A k \in 1 .. idx - 1 + 1 : c[k] = m[1 + k - 1]
      BY <1>4, <2>2, SubSeqProperties
    <2>4. c \in Seq(Nat) /\ Len(c) = idx /\ \A k \in 1..idx : c[k] = m[k]
      BY <1>4, <2>3
    <2> QED BY <2>1, <2>4
  <1>7. ASSUME NEW i \in Kept' PROVE i \in Kept /\ Sound(i)' /\ Slice(i)' = Slice(i)
    <2>1. i \in Nat /\ i < idx /\ i \in Kept
      BY <1>2, <1>4, <1>5 DEF Kept
    <2>2. OffsetAfter(i) = meta[i + 2]
      BY <1>3, <1>4, <2>1 DEF OffsetAfter
    <2>3. OffsetAfter(i)' = OffsetAfter(i)
      <3>1. CASE i + 1 < idx
        <4>1. i + 2 \in 1..idx
          BY <1>4, <2>1, <3>1
        <4> QED BY <1>2, <1>6, <2>2, <3>1, <4>1 DEF OffsetAfter
      <3>2. CASE ~(i + 1 < idx)
        <4>1. i + 2 = idx + 1 /\ idx > 0
          BY <1>4, <2>1, <3>2
        <4> QED BY <1>2, <1>4, <1>5, <2>2, <3>2, <4>1 DEF OffsetAfter
      <3> QED BY <3>1, <3>2
    <2>4. /\ OffsetAfter(i) <= Len(data') /\ OffsetAfter(i) <= DataSize'
          /\ \A k \in 1 .. OffsetAfter(i) : data'[k] = data[k]
      BY <1>2, <1>5, <2>1, KeptBounds
    <2>5. ASSUME NEW j \in i + 1 .. entry_count' - 1 PROVE OffsetAfter(i) <= meta'[j + 1]
      <3>1. j \in i + 1 .. entry_count - 1 /\ j + 1 \in 1..idx
        BY <1>2, <1>3, <1>4, <2>1
      <3>2. OffsetAfter(i) <= meta[j + 1]
        BY <2>1, <3>1 DEF FilesInv, Sound
      <3> QED BY <1>6, <3>1, <3>2
    <2>6. meta'[i + 1] = meta[i + 1] /\ data' \in Seq(B)
      <3>1. i + 1 \in 1..idx
        BY <1>4, <2>1
      <3> QED BY <1>2, <1>4, <1>6, <3>1
    <2>7. Sound(i)' /\ Slice(i)' = Slice(i)
      BY <2>1, <2>3, <2>4, <2>5, <2>6, FrameKept
    <2> QED BY <2>1, <2>7
  <1>8. TypeOK'
    <2>1. TypeOK
      BY DEF FilesInv
    <2>2. spoilt \subseteq 0 .. n - 1
      BY <1>3, <2>1 DEF TypeOK
    <2>3. ASSUME NEW i \in spoilt' PROVE i \in 0 .. idx - 1
      <3>1. i < idx /\ i \in 0 .. n - 1
        BY <1>2, <2>2
      <3> QED BY <1>4, <3>1
    <2> QED BY <1>2, <1>6, <2>1, <2>3 DEF TypeOK
  <1>9. CallInv'
    BY <1>2 DEF CallInv, NoCall
  <1>10. FilesInv(B, P)'
    <2>1. \A i \in Kept : Slice(i) \in P
      BY DEF FilesInv
    <2>2. \A i \in Kept' : Sound(i)' /\ Slice(i)' \in P
      BY <1>7, <2>1
    <2> QED BY <1>2, <1>4, <1>8, <1>9, <2>2 DEF FilesInv
  <1>11. \A i \in 0 .. Live - 1 : i \in spoilt' <=> i \in spoilt
    BY <1>2, <1>4, <1>5
  <1> QED BY <1>5, <1>7, <1>10, <1>11

\* The process ends, between two operations or in the midst of a truncation,
\* or begins.
LEMMA QuietStep ==
  ASSUME NEW B, NEW P, FilesInv(B, P), data' = data, meta' = meta, entry_count' = entry_count,
         call' = NoCall, call.name # "push", up' \in BOOLEAN, crashes' \in 0..MaxCrashes,
         spoilt' = IF call.name = "truncate" THEN spoilt \cup (call.idx .. Len(meta) - 1)
                   ELSE spoilt
  PROVE  /\ FilesInv(B, P)' /\ Live' = entry_count
         /\ \A i \in 0 .. Live - 1 : i \in spoilt' <=> i \in spoilt
         /\ \A i \in Live .. entry_count - 1 : i \in spoilt'
         /\ \A i \in Kept' : i \in Kept /\ Slice(i)' = Slice(i)
PROOF
  <1>1. PICK n, l : n = entry_count /\ l = Live
    OBVIOUS
  <1>2. n \in Nat /\ l \in Nat /\ l <= n /\ n = Len(meta)
    BY <1>1, Sizes
  <1>3. spoilt' = spoilt \cup (l .. n - 1)
    <2>1. CASE call.name = "truncate"
      BY <1>1, <1>2, <2>1 DEF Live
    <2>2. CASE call.name # "truncate"
      <3>1. l = n
        BY <1>1, <2>2 DEF Live
      <3>2. l .. n - 1 = {}
        BY <1>2, <3>1
      <3> QED BY <2>2, <3>2
    <2> QED BY <2>1, <2>2
  <1>4. DataSize = Len(data) /\ DataSize' = Len(data) /\ Live' = n
    BY <1>1 DEF DataSize, Live, NoCall
  <1>5. ASSUME NEW i \in Kept' PROVE i \in Kept /\ Sound(i)' /\ Slice(i)' = Slice(i)
    <2>1. i \in 0 .. n - 1 /\ i \notin spoilt'
      BY <1>4 DEF Kept
    <2>2. i \in Kept
      BY <1>1, <1>2, <1>3, <2>1 DEF Kept
    <2>3. OffsetAfter(i)' = OffsetAfter(i)
      BY <1>4 DEF OffsetAfter
    <2>4. Slice(i)' = Slice(i)
      BY <2>3 DEF Slice
    <2>5. Sound(i)'
      BY <1>4, <2>2, <2>3 DEF Sound, FilesInv
    <2> QED BY <2>2, <2>4, <2>5
  <1>6. TypeOK'
    <2>1. TypeOK
      BY DEF FilesInv
    <2>2. spoilt' \subseteq 0 .. n - 1
      BY <1>1, <1>2, <1>3, <2>1 DEF TypeOK
    <2> QED BY <1>1, <2>1, <2>2 DEF TypeOK
  <1>7. CallInv'
    BY DEF CallInv, NoCall
  <1>8. FilesInv(B, P)'
    <2>1. \A i \in Kept : Slice(i) \in P
      BY DEF FilesInv
    <2>2. \A i \in Kept' : Sound(i)' /\ Slice(i)' \in P
      BY <1>5, <2>1
    <2>3. data' \in Seq(B)
      BY Sizes
    <2> QED BY <1>6, <1>7, <2>2, <2>3 DEF FilesInv
  <1>9. /\ \A i \in 0 .. Live - 1 : i \in spoilt' <=> i \in spoilt
        /\ \A i \in Live .. entry_count - 1 : i \in spoilt'
    BY <1>1, <1>2, <1>3
  <1> QED BY <1>1, <1>4, <1>5, <1>8, <1>9

\* The process dies in a push_back: the bytes stay, without an offset.
LEMMA CrashInPushStep ==
  ASSUME NEW B, NEW P, MergesInReading(B, P), FilesInv(B, P), data' = data, meta' = meta,
         entry_count' = entry_count, call.name = "push", call' = NoCall, spoilt' = spoilt,
         up' \in BOOLEAN, crashes' \in 0..MaxCrashes
  PROVE  /\ FilesInv(B, P)' /\ Live' = Live
         /\ \A i \in Kept : Slice(i)' = IF i + 1 = Live THEN Slice(i) \o encode_entry(call.entry)
                                         ELSE Slice(i)
PROOF
  <1>1. PICK n, o, d, x : n = entry_count /\ o = call.offset /\ d = data
                          /\ x = encode_entry(call.entry)
    OBVIOUS
  <1>2. /\ n \in Nat /\ o \in Nat /\ o = DataSize /\ o <= Len(d) /\ d \in Seq(B)
        /\ Len(d) \in Nat /\ call.entry \in Entries
    BY <1>1, Sizes
  <1>3. SubSeq(d, o + 1, Len(d)) = x
    BY <1>1 DEF FilesInv, CallInv
  <1>4. Live = n /\ Live' = n /\ DataSize' = Len(d)
    BY <1>1 DEF Live, DataSize, NoCall
  <1>5. Kept' = Kept
    BY <1>4 DEF Kept
  <1>6. ASSUME NEW i \in Kept, i + 1 # n PROVE Sound(i)' /\ Slice(i)' = Slice(i)
    <2>1. i \in Nat /\ i < n /\ OffsetAfter(i) \in Nat /\ OffsetAfter(i) <= o
      BY <1>1, <1>2, KeptBounds
    <2>2. i + 1 < n
      BY <1>2, <1>6, <2>1
    <2>3. OffsetAfter(i)' = OffsetAfter(i)
      BY <1>1, <2>2 DEF OffsetAfter
    <2>4. OffsetAfter(i) <= Len(data') /\ OffsetAfter(i) <= DataSize'
      BY <1>1, <1>2, <1>4, <2>1
    <2>5. \A j \in i + 1 .. entry_count' - 1 : OffsetAfter(i) <= meta'[j + 1]
      BY DEF FilesInv, Sound
    <2>6. data' \in Seq(B)
      BY <1>1, <1>2
    <2> QED BY <2>3, <2>4, <2>5, <2>6, FrameKept
  <1>7. ASSUME NEW i \in Kept, i + 1 = n PROVE Sound(i)' /\ Slice(i)' = Slice(i) \o x
    <2>1. PICK a : a = meta[i + 1]
      OBVIOUS
    <2>2. OffsetAfter(i) = o /\ OffsetAfter(i)' = Len(d) /\ ~(n < n)
      BY <1>1, <1>2, <1>4, <1>7 DEF OffsetAfter
    <2>3. a \in Nat /\ a <= o
      BY <2>1, <2>2, KeptBounds
    <2>4. SubSeq(d, a + 1, Len(d)) = SubSeq(d, a + 1, o) \o SubSeq(d, o + 1, Len(d))
      BY <1>2, <2>3, SliceGrows
    <2>5. Slice(i)' = SubSeq(d, a + 1, Len(d)) /\ Slice(i) = SubSeq(d, a + 1, o)
      BY <1>1, <2>1, <2>2 DEF Slice
    <2>6. i + 1 .. entry_count' - 1 = {}
      BY <1>1, <1>2, <1>7
    <2>7. Sound(i)'
      BY <1>2, <1>4, <2>1, <2>2, <2>3, <2>6 DEF Sound
    <2> QED BY <1>3, <2>4, <2>5, <2>7
  <1>8. TypeOK' /\ CallInv'
    BY DEF FilesInv, TypeOK, CallInv, NoCall
  <1>9. FilesInv(B, P)'
    <2>1. \A i \in Kept : Slice(i) \in P /\ Slice(i) \o x \in P
      BY <1>1, <1>2 DEF FilesInv, MergesInReading
    <2>2. \A i \in Kept' : Sound(i)' /\ Slice(i)' \in P
      BY <1>5, <1>6, <1>7, <2>1
    <2> QED BY <1>1, <1>2, <1>8, <2>2 DEF FilesInv
  <1> QED BY <1>1, <1>4, <1>6, <1>7, <1>9
-----------------------------------------------------------------------------
(* The log *)

\* Entry i as the log has it.
Column(i) == IF i \in spoilt THEN Unreadable ELSE decode_entry(Slice(i))

LEMMA ContentsNow ==
  ASSUME NEW B, NEW P, FilesInv(B, P)
  PROVE  Contents = [i \in 1..Live |-> Column(i - 1)]
PROOF
  <1>1. ASSUME NEW i \in 1..Live, i - 1 \notin spoilt PROVE Read(i - 1) = decode_entry(Slice(i - 1))
    <2>1. i - 1 \in Kept
      BY <1>1, Sizes DEF Kept
    <2> QED BY <2>1, ReadKept
  <1> QED BY <1>1 DEF Contents, Column, Live

LEMMA LiveThen ==
  ASSUME NEW B, NEW P, FilesInv(B, P)'
  PROVE  Live' \in Nat
PROOF
  <1>1. (call \in {NoCall} \cup [name : {"push"}, entry : Entries, offset : 0..Len(data)]
               \cup [name : {"truncate"}, idx : 0..entry_count])'
        /\ entry_count' = Len(meta') /\ meta' \in Seq(Nat)
    BY DEF FilesInv, TypeOK
  <1> QED BY <1>1 DEF Live, NoCall

LEMMA ContentsThen ==
  ASSUME NEW B, NEW P, FilesInv(B, P)'
  PROVE  Contents' = [i \in 1..Live' |-> Column(i - 1)']
PROOF
  <1>1. ASSUME NEW i \in 1..Live', i - 1 \notin spoilt'
        PROVE  Read(i - 1)' = decode_entry(Slice(i - 1)')
    <2>1. PICK k : k = i - 1
      OBVIOUS
    <2>3. Live' \in Nat
      BY LiveThen
    <2>4. k \in Nat /\ k \in Kept'
      <3>1. PICK l : l = Live'
        OBVIOUS
      <3>2. i \in 1..l
        BY <1>1, <3>1
      <3>3. k \in 0 .. l - 1
        <4>1. l \in Nat
          BY <2>3, <3>1
        <4> HIDE <2>3
        <4> QED BY <2>1, <3>2, <4>1
      <3>4. k \notin spoilt'
        BY <1>1, <2>1
      <3> QED BY <3>1, <3>3, <3>4 DEF Kept
    <2>5. Sound(k)'
      BY <2>4 DEF FilesInv
    <2>6. OffsetAfter(k)' = IF k + 1 < entry_count' THEN get_offset(k + 1)' ELSE DataSize'
      <3>1. (k + 1) + 1 = k + 2
        BY <2>4
      <3> QED BY <3>1 DEF OffsetAfter, get_offset
    <2>7. Read(k)' = decode_entry(Slice(k)')
      BY <2>5, <2>6 DEF Sound, Read, get_offset, Slice
    <2> QED BY <2>1, <2>7
  <1> QED BY <1>1 DEF Contents, Column, Live

\* Two tables of the same values.
LEMMA SameTable ==
  ASSUME NEW V, NEW n \in Nat, NEW f \in [1..n -> V], NEW g \in [1..n -> V],
         \A i \in 1..n : f[i] = g[i]
  PROVE  f = g
PROOF
  OBVIOUS

\* What the operations of EntryLog do to a table.
LEMMA TableOperations ==
  ASSUME NEW V, NEW n \in Nat, NEW f \in [1..n -> V], NEW v \in V, NEW k \in Nat
  PROVE  /\ f \in Seq(V) /\ Len(f) = n
         /\ Append(f, v) = [i \in 1 .. n + 1 |-> IF i = n + 1 THEN v ELSE f[i]]
         /\ k <= n => SubSeq(f, 1, k) = [i \in 1..k |-> f[i]]
PROOF
  <1>1. f \in Seq(V) /\ Len(f) = n
    BY Tabulated
  <1>2. Append(f, v) = [i \in 1 .. n + 1 |-> IF i = n + 1 THEN v ELSE f[i]]
    <2> DEFINE g == [i \in 1 .. n + 1 |-> IF i = n + 1 THEN v ELSE f[i]]
    <2>1. g \in [1 .. n + 1 -> V] /\ n + 1 \in Nat
      OBVIOUS
    <2>2. g \in Seq(V) /\ Len(g) = n + 1
      BY <2>1, Tabulated
    <2>3. /\ Append(f, v) \in Seq(V) /\ Len(Append(f, v)) = n + 1
          /\ \A i \in 1..n : Append(f, v)[i] = f[i]
          /\ Append(f, v)[n + 1] = v
      BY <1>1, AppendProperties
    <2>4. \A i \in 1 .. n + 1 : Append(f, v)[i] = g[i]
      BY <2>3
    <2> HIDE DEF g
    <2>5. Append(f, v) = g
      BY <2>2, <2>3, <2>4, SeqEqual
    <2> QED BY <2>5 DEF g
  <1>3. ASSUME k <= n PROVE SubSeq(f, 1, k) = [i \in 1..k |-> f[i]]
    <2> DEFINE g == [i \in 1..k |-> f[i]]
               h == SubSeq(f, 1, k)
    <2>1. g \in [1..k -> V] /\ \A i \in 1..k : f[i] \in V /\ g[i] = f[i]
      BY <1>3
    <2>2. g \in Seq(V) /\ Len(g) = k
      BY <2>1, Tabulated
    <2>3. /\ h \in Seq(V) /\ Len(h) = IF 1 <= k THEN k - 1 + 1 ELSE 0
          /\ \A i \in 1 .. k - 1 + 1 : h[i] = f[1 + i - 1]
      BY <2>1, SubSeqProperties
    <2> HIDE DEF g, h
    <2>4. Len(h) = k /\ \A i \in 1..k : h[i] = g[i]
      BY <2>1, <2>3
    <2>5. h = g
      BY <2>2, <2>3, <2>4, SeqEqual
    <2> QED BY <2>5 DEF g, h
  <1> QED BY <1>1, <1>2, <1>3

\* The log before and after a step, as tables over one set.
LEMMA ContentsStep ==
  ASSUME NEW B, NEW P, FilesInv(B, P), FilesInv(B, P)',
         NEW n, n = Live, NEW m, m = Live', NEW f, f = Contents, NEW g, g = Contents'
  PROVE  /\ n \in Nat /\ m \in Nat
         /\ \E V : /\ f \in [1..n -> V] /\ g \in [1..m -> V]
                   /\ Unreadable \in V /\ Entries \subseteq V
         /\ \A i \in 1..n : f[i] = Column(i - 1)
         /\ \A i \in 1..m : g[i] = Column(i - 1)'
PROOF
  <1>1. n \in Nat /\ m \in Nat
    BY Sizes, LiveThen
  <1>2. f = [i \in 1..n |-> Column(i - 1)]
    BY ContentsNow
  <1>3. g = [i \in 1..m |-> Column(i - 1)']
    BY ContentsThen
  <1> DEFINE V == {f[i] : i \in 1..n} \cup {g[i] : i \in 1..m} \cup {Unreadable} \cup Entries
  <1>4. f = [i \in 1..n |-> f[i]] /\ \A i \in 1..n : f[i] \in V
    BY <1>2
  <1>5. g = [i \in 1..m |-> g[i]] /\ \A i \in 1..m : g[i] \in V
    BY <1>3
  <1>6. Unreadable \in V /\ Entries \subseteq V
    OBVIOUS
  <1> HIDE DEF V
  <1>7. f \in [1..n -> V] /\ g \in [1..m -> V]
    BY <1>4, <1>5
  <1>8. \A i \in 1..n : f[i] = Column(i - 1)
    BY <1>2
  <1>9. \A i \in 1..m : g[i] = Column(i - 1)'
    BY <1>3
  <1> QED BY <1>1, <1>6, <1>7, <1>8, <1>9

LEMMA OperationNow ==
  /\ call.name = "push" => Operation = [name |-> "push", entry |-> call.entry]
  /\ call.name = "truncate" => Operation = [name |-> "truncate", cut |-> entry_count - call.idx]
  /\ call.name \notin {"push", "truncate"} => Operation = Log!None
PROOF
  BY DEF Operation, Log!None

LEMMA OperationThen ==
  /\ call'.name = "push" => Operation' = [name |-> "push", entry |-> call'.entry]
  /\ call'.name = "truncate" =>
       Operation' = [name |-> "truncate", cut |-> entry_count' - call'.idx]
  /\ call'.name \notin {"push", "truncate"} => Operation' = Log!None
PROOF
  BY DEF Operation, Log!None

(***************************************************************************)
(* Every step on the files keeps the invariant and is a step of the log.   *)
(***************************************************************************)
LEMMA PushSteps ==
  ASSUME NEW B, NEW P, MergesInReading(B, P), FilesInv(B, P),
         (\E e \in Entries : PushData(e)) \/ PushMeta
  PROVE  FilesInv(B, P)' /\ Log!Next
PROOF
  <1>1. PICK n, m, f, g : n = Live /\ m = Live' /\ f = Contents /\ g = Contents'
    OBVIOUS
  <1>2. ASSUME NEW e \in Entries, PushData(e) PROVE FilesInv(B, P)' /\ Log!PushBegin(e)
    <2>1. FilesInv(B, P)' /\ m = n /\ \A i \in Kept : Slice(i)' = Slice(i)
      BY <1>1, <1>2, PushDataStep
    <2>2. call = NoCall /\ spoilt' = spoilt
          /\ call' = [name |-> "push", entry |-> e, offset |-> Len(data)]
      BY <1>2 DEF PushData, Idle
    <2>3. /\ n \in Nat /\ \A i \in 1..n : f[i] = Column(i - 1) /\ g[i] = Column(i - 1)'
      BY <1>1, <2>1, ContentsStep
    <2>4. PICK V : f \in [1..n -> V] /\ g \in [1..n -> V]
      BY <1>1, <2>1, ContentsStep
    <2>5. ASSUME NEW i \in 1..n PROVE f[i] = g[i]
      <3>1. PICK k : k = i - 1
        OBVIOUS
      <3>2. k \notin spoilt => Slice(k)' = Slice(k)
        BY <1>1, <2>1, <2>3, <3>1 DEF Kept
      <3>3. Column(k)' = Column(k)
        BY <2>2, <3>2 DEF Column
      <3> QED BY <2>3, <3>1, <3>3
    <2>6. f = g
      BY <2>3, <2>4, <2>5, SameTable
    <2>7. Operation = Log!None /\ Operation' = [name |-> "push", entry |-> e]
      BY <2>2, OperationNow, OperationThen DEF NoCall
    <2> QED BY <1>1, <2>1, <2>6, <2>7 DEF Log!PushBegin
  <1>3. ASSUME PushMeta PROVE FilesInv(B, P)' /\ Log!PushEnd
    <2>1. /\ FilesInv(B, P)' /\ m = n + 1 /\ \A i \in Kept : Slice(i)' = Slice(i)
          /\ n \notin spoilt /\ Slice(n)' = encode_entry(call.entry)
      BY <1>1, <1>3, PushMetaStep
    <2>2. call.name = "push" /\ spoilt' = spoilt /\ call' = NoCall
      BY <1>3 DEF PushMeta
    <2>3. /\ n \in Nat /\ \A i \in 1..n : f[i] = Column(i - 1)
          /\ \A i \in 1 .. n + 1 : g[i] = Column(i - 1)'
      BY <1>1, <2>1, ContentsStep
    <2>4. PICK V : f \in [1..n -> V] /\ g \in [1 .. n + 1 -> V] /\ Entries \subseteq V
      BY <1>1, <2>1, ContentsStep
    <2>5. PICK e \in Entries : e = call.entry
      BY <2>2, Sizes
    <2>6. ASSUME NEW i \in 1 .. n + 1 PROVE g[i] = IF i = n + 1 THEN e ELSE f[i]
      <3>1. PICK k : k = i - 1
        OBVIOUS
      <3>2. CASE i = n + 1
        <4>1. k = n
          BY <2>3, <3>1, <3>2
        <4>2. Column(k)' = decode_entry(encode_entry(e))
          BY <2>1, <2>2, <2>5, <4>1 DEF Column
        <4> QED BY <2>3, <3>1, <3>2, <4>2, LogVecAssumption
      <3>3. CASE i # n + 1
        <4>1. i \in 1..n /\ k \in 0 .. n - 1
          BY <2>3, <3>1, <3>3
        <4>2. k \notin spoilt => Slice(k)' = Slice(k)
          BY <1>1, <2>1, <4>1 DEF Kept
        <4>3. Column(k)' = Column(k)
          BY <2>2, <4>2 DEF Column
        <4> QED BY <2>3, <3>1, <3>3, <4>1, <4>3
      <3> QED BY <3>2, <3>3
    <2>7. g = Append(f, e)
      <3>1. Append(f, e) = [i \in 1 .. n + 1 |-> IF i = n + 1 THEN e ELSE f[i]]
        BY <2>3, <2>4, <2>5, TableOperations
      <3>2. g = [i \in 1 .. n + 1 |-> IF i = n + 1 THEN e ELSE f[i]]
        BY <2>4, <2>6
      <3> QED BY <3>1, <3>2
    <2>8. Operation = [name |-> "push", entry |-> e] /\ Operation' = Log!None
      BY <2>2, <2>5, OperationNow, OperationThen DEF NoCall
    <2> QED BY <1>1, <2>1, <2>7, <2>8 DEF Log!PushEnd
  <1> QED BY <1>2, <1>3 DEF Log!Next

LEMMA TruncateSteps ==
  ASSUME NEW B, NEW P, MergesInReading(B, P), FilesInv(B, P),
         (\E idx \in 0..MaxSize : TruncateData(idx)) \/ TruncateMeta
  PROVE  FilesInv(B, P)' /\ Log!Next
PROOF
  <1>1. PICK n, m, f, g : n = Live /\ m = Live' /\ f = Contents /\ g = Contents'
    OBVIOUS
  <1>2. ASSUME NEW idx \in 0..MaxSize, TruncateData(idx)
        PROVE  FilesInv(B, P)' /\ Log!TruncateBegin(idx) /\ idx \in 0..Len(Contents)
    <2>0. idx \in Nat
      BY LogVecAssumption
    <2>1. /\ FilesInv(B, P)' /\ n = entry_count /\ m = idx /\ idx < n
          /\ \A i \in Kept' : i \in Kept /\ Slice(i)' = Slice(i)
      BY <1>1, <1>2, <2>0, TruncateDataStep
    <2>2. /\ call = NoCall /\ spoilt' = spoilt /\ entry_count' = entry_count
          /\ call' = [name |-> "truncate", idx |-> idx]
      BY <1>2 DEF TruncateData, Idle
    <2>3. /\ n \in Nat /\ \A i \in 1..n : f[i] = Column(i - 1)
          /\ \A i \in 1..idx : g[i] = Column(i - 1)'
      BY <1>1, <2>1, ContentsStep
    <2>4. PICK V : f \in [1..n -> V] /\ g \in [1..idx -> V] /\ Unreadable \in V
      BY <1>1, <2>1, ContentsStep
    <2>5. ASSUME NEW i \in 1..idx PROVE g[i] = f[i]
      <3>1. PICK k : k = i - 1
        OBVIOUS
      <3>2. i \in 1..n /\ k \in 0 .. idx - 1
        BY <2>0, <2>1, <2>3, <3>1
      <3>3. k \notin spoilt => Slice(k)' = Slice(k)
        BY <1>1, <2>1, <2>2, <3>2 DEF Kept
      <3>4. Column(k)' = Column(k)
        BY <2>2, <3>3 DEF Column
      <3> QED BY <2>3, <3>1, <3>2, <3>4
    <2>6. Len(f) = n /\ idx <= n
      BY <2>0, <2>1, <2>3, <2>4, Tabulated
    <2>7. g = SubSeq(f, 1, idx)
      <3>1. SubSeq(f, 1, idx) = [i \in 1..idx |-> f[i]]
        BY <2>0, <2>3, <2>4, <2>6, TableOperations
      <3>2. g = [i \in 1..idx |-> f[i]]
        BY <2>4, <2>5
      <3> QED BY <3>1, <3>2
    <2>8. Operation = Log!None /\ Operation' = [name |-> "truncate", cut |-> Len(f) - idx]
      BY <2>1, <2>2, <2>6, OperationNow, OperationThen DEF NoCall
    <2>9. Log!TruncateBegin(idx)
      BY <1>1, <2>1, <2>6, <2>7, <2>8 DEF Log!TruncateBegin
    <2> QED BY <1>1, <2>0, <2>1, <2>3, <2>6, <2>9
  <1>3. ASSUME TruncateMeta PROVE FilesInv(B, P)' /\ Log!TruncateEnd
    <2>1. /\ FilesInv(B, P)' /\ m = n /\ \A i \in Kept' : i \in Kept /\ Slice(i)' = Slice(i)
          /\ \A i \in 0 .. n - 1 : i \in spoilt' <=> i \in spoilt
      BY <1>1, <1>3, TruncateMetaStep
    <2>2. call.name = "truncate" /\ call' = NoCall
      BY <1>3 DEF TruncateMeta
    <2>3. /\ n \in Nat /\ \A i \in 1..n : f[i] = Column(i - 1) /\ g[i] = Column(i - 1)'
      BY <1>1, <2>1, ContentsStep
    <2>4. PICK V : f \in [1..n -> V] /\ g \in [1..n -> V]
      BY <1>1, <2>1, ContentsStep
    <2>5. ASSUME NEW i \in 1..n PROVE f[i] = g[i]
      <3>1. PICK k : k = i - 1
        OBVIOUS
      <3>2. k \in 0 .. n - 1
        BY <2>3, <3>1
      <3>3. k \notin spoilt' => Slice(k)' = Slice(k)
        BY <1>1, <2>1, <3>2 DEF Kept
      <3>4. Column(k)' = Column(k)
        BY <2>1, <3>2, <3>3 DEF Column
      <3> QED BY <2>3, <3>1, <3>4
    <2>6. f = g
      BY <2>3, <2>4, <2>5, SameTable
    <2>7. Operation.name = "truncate" /\ Operation' = Log!None
      BY <2>2, OperationNow, OperationThen DEF NoCall
    <2> QED BY <1>1, <2>1, <2>6, <2>7 DEF Log!TruncateEnd
  <1>4. Log!Next
    <2>1. ASSUME NEW idx \in 0..MaxSize, TruncateData(idx) PROVE Log!Next
      <3>1. Log!TruncateBegin(idx) /\ idx \in 0..Len(Contents)
        BY <1>2, <2>1
      <3> QED BY <3>1 DEF Log!Next
    <2>2. ASSUME TruncateMeta PROVE Log!Next
      BY <1>3, <2>2 DEF Log!Next
    <2> QED BY <2>1, <2>2
  <1> QED BY <1>2, <1>3, <1>4

\* A step that leaves the files alone: stopping, starting, and a crash that
\* interrupts no push_back.
LEMMA QuietLogStep ==
  ASSUME NEW B, NEW P, FilesInv(B, P), data' = data, meta' = meta, entry_count' = entry_count,
         call' = NoCall, call.name # "push", up' \in BOOLEAN, crashes' \in 0..MaxCrashes,
         spoilt' = IF call.name = "truncate" THEN spoilt \cup (call.idx .. Len(meta) - 1)
                   ELSE spoilt
  PROVE  FilesInv(B, P)' /\ (Log!CrashInTruncate \/ UNCHANGED <<Contents, Operation>>)
PROOF
  <1>1. PICK n, m, f, g : n = Live /\ m = Live' /\ f = Contents /\ g = Contents'
    OBVIOUS
  <1>2. /\ FilesInv(B, P)' /\ m = entry_count /\ \A i \in 0 .. n - 1 : i \in spoilt' <=> i \in spoilt
        /\ \A i \in n .. m - 1 : i \in spoilt'
        /\ \A i \in Kept' : i \in Kept /\ Slice(i)' = Slice(i)
    BY <1>1, QuietStep
  <1>3. n \in Nat /\ m \in Nat /\ n <= m
    BY <1>1, <1>2, Sizes
  <1>4. /\ \A i \in 1..n : f[i] = Column(i - 1) 
        /\ \A i \in 1..m : g[i] = Column(i - 1)'
    BY <1>1, <1>2, ContentsStep
  <1>5. PICK V : f \in [1..n -> V] /\ g \in [1..m -> V] /\ Unreadable \in V
    BY <1>1, <1>2, ContentsStep
  <1>6. ASSUME NEW i \in 1..m PROVE g[i] = IF i <= n THEN f[i] ELSE Unreadable
    <2>1. PICK k : k = i - 1
      OBVIOUS
    <2>2. CASE i <= n
      <3>1. i \in 1..n /\ k \in 0 .. n - 1 /\ k \in 0 .. m - 1
        BY <1>3, <2>1, <2>2
      <3>2. k \notin spoilt' => Slice(k)' = Slice(k)
        BY <1>1, <1>2, <3>1 DEF Kept
      <3>3. Column(k)' = Column(k)
        BY <1>2, <3>1, <3>2 DEF Column
      <3> QED BY <1>4, <2>1, <2>2, <3>1, <3>3
    <2>3. CASE ~(i <= n)
      <3>1. k \in n .. m - 1
        BY <1>3, <2>1, <2>3
      <3>2. Column(k)' = Unreadable
        BY <1>2, <3>1 DEF Column
      <3> QED BY <1>4, <2>1, <2>3, <3>2
    <2> QED BY <2>2, <2>3
  <1>7. Operation' = Log!None
    BY OperationThen DEF NoCall
  <1>8. CASE call.name = "truncate"
    <2>1. PICK c : c = m - n
      OBVIOUS
    <2>2. Operation = [name |-> "truncate", cut |-> c]
      <3>1. n = call.idx
        BY <1>1, <1>8 DEF Live
      <3> QED BY <1>2, <1>8, <2>1, <3>1, OperationNow
    <2>3. c \in Nat /\ m = n + c
      BY <1>3, <2>1
    <2>4. PICK t : t = [i \in 1..c |-> Unreadable]
      OBVIOUS
    <2>5. t \in [1..c -> V] /\ \A i \in 1..c : t[i] = Unreadable
      BY <1>5, <2>4
    <2>6. \A i \in 1..m : g[i] = IF i <= n THEN f[i] ELSE t[i - n]
      <3>1. \A i \in 1..m : ~(i <= n) => i - n \in 1..c
        BY <1>3, <2>3
      <3> QED BY <1>6, <2>5, <3>1
    <2>7. f \o t = g
      <3>1. /\ f \in Seq(V) /\ Len(f) = n /\ g \in Seq(V) /\ Len(g) = m
            /\ t \in Seq(V) /\ Len(t) = c
        BY <1>3, <1>5, <2>3, <2>5, Tabulated
      <3>2. /\ f \o t \in Seq(V) /\ Len(f \o t) = Len(f) + Len(t)
            /\ \A i \in 1 .. Len(f) + Len(t) :
                 (f \o t)[i] = IF i <= Len(f) THEN f[i] ELSE t[i - Len(f)]
        BY <3>1, ConcatProperties
      <3>3. Len(f \o t) = m /\ \A i \in 1..m : (f \o t)[i] = g[i]
        BY <2>3, <2>6, <3>1, <3>2
      <3> QED BY <3>1, <3>2, <3>3, SeqEqual
    <2>8. Log!CrashInTruncate
      BY <1>1, <1>7, <2>2, <2>4, <2>7 DEF Log!CrashInTruncate
    <2> QED BY <1>2, <2>8
  <1>9. CASE call.name # "truncate"
    <2>1. n = m
      BY <1>1, <1>2, <1>9 DEF Live
    <2>2. \A i \in 1..n : f[i] = g[i]
      BY <1>3, <1>6, <2>1
    <2>3. f = g
      BY <1>3, <1>5, <2>1, <2>2, SameTable
    <2>4. Operation = Log!None
      BY <1>9, OperationNow
    <2> QED BY <1>1, <1>2, <1>7, <2>3, <2>4
  <1> QED BY <1>8, <1>9

LEMMA CrashFacts ==
  ASSUME TypeOK, Crash
  PROVE  /\ data' = data /\ meta' = meta /\ entry_count' = entry_count /\ call' = NoCall
         /\ up' \in BOOLEAN /\ crashes' \in 0..MaxCrashes
         /\ spoilt' = IF call.name = "truncate" THEN spoilt \cup (call.idx .. Len(meta) - 1)
                      ELSE spoilt
PROOF
  <1>1. crashes \in 0..MaxCrashes /\ crashes < MaxCrashes /\ crashes' = crashes + 1
    BY DEF TypeOK, Crash
  <1>2. crashes' \in 0..MaxCrashes
    BY <1>1, LogVecAssumption
  <1>3. up' \in BOOLEAN
    BY Zenon DEF Crash
  <1> QED BY <1>2, <1>3 DEF Crash

LEMMA CrashInPushLogStep ==
  ASSUME NEW B, NEW P, MergesInReading(B, P), FilesInv(B, P), Crash, call.name = "push"
  PROVE  FilesInv(B, P)' /\ Log!CrashInPush
PROOF
  <1>1. PICK n, m, f, g : n = Live /\ m = Live' /\ f = Contents /\ g = Contents'
    OBVIOUS
  <1>2. /\ data' = data /\ meta' = meta /\ entry_count' = entry_count /\ call' = NoCall
        /\ spoilt' = spoilt /\ up' \in BOOLEAN /\ crashes' \in 0..MaxCrashes
    <2>1. TypeOK
      BY DEF FilesInv
    <2> QED BY <2>1, CrashFacts
  <1>3. PICK e \in Entries : e = call.entry
    BY Sizes
  <1>4. /\ FilesInv(B, P)' /\ m = n
        /\ \A i \in Kept : Slice(i)' = IF i + 1 = n THEN Slice(i) \o encode_entry(e) ELSE Slice(i)
    BY <1>1, <1>2, <1>3, CrashInPushStep
  <1>5. /\ n \in Nat /\ \A i \in 1..n : f[i] = Column(i - 1) /\ g[i] = Column(i - 1)'
    BY <1>1, <1>4, ContentsStep
  <1>6. PICK V : f \in [1..n -> V] /\ g \in [1..n -> V]
    BY <1>1, <1>4, ContentsStep
  <1>7. f \in Seq(V) /\ Len(f) = n
    BY <1>5, <1>6, Tabulated
  <1>8. ASSUME NEW i \in 1..n
        PROVE  /\ i # n \/ f[i] = Unreadable => g[i] = f[i]
               /\ i = n /\ f[i] # Unreadable => g[i] = Merge(f[i], e)
    <2>1. PICK k : k = i - 1
      OBVIOUS
    <2>2. k \in 0 .. n - 1 /\ (k + 1 = n <=> i = n)
      BY <1>5, <2>1
    <2>3. f[i] = Column(k) /\ g[i] = Column(k)'
      BY <1>5, <2>1
    <2>4. CASE k \in spoilt
      BY <1>2, <2>3, <2>4 DEF Column
    <2>5. CASE k \notin spoilt
      <3>1. k \in Kept
        BY <1>1, <2>2, <2>5 DEF Kept
      <3>2. Slice(k) \in P
        BY <3>1, KeptBounds
      <3>3. f[i] = decode_entry(Slice(k)) /\ g[i] = decode_entry(Slice(k)')
        BY <1>2, <2>3, <2>5 DEF Column
      <3>4. f[i] # Unreadable
        BY <3>2, <3>3 DEF MergesInReading
      <3>5. CASE i # n
        BY <1>4, <2>2, <3>1, <3>3, <3>4, <3>5
      <3>6. CASE i = n
        <4>1. Slice(k)' = Slice(k) \o encode_entry(e)
          BY <1>4, <2>2, <3>1, <3>6
        <4>2. decode_entry(Slice(k) \o encode_entry(e)) = Merge(decode_entry(Slice(k)), e)
          BY <3>2 DEF MergesInReading
        <4> QED BY <3>3, <3>4, <3>6, <4>1, <4>2
      <3> QED BY <3>5, <3>6
    <2> QED BY <2>4, <2>5
  <1>9. g = IF f = <<>> \/ f[Len(f)] = Unreadable THEN f ELSE [f EXCEPT ![Len(f)] = Merge(@, e)]
    <2>1. CASE f = <<>>
      <3>1. n = 0
        BY <1>7, <2>1
      <3>2. \A i \in 1..n : f[i] = g[i]
        BY <3>1
      <3>3. f = g
        BY <1>5, <1>6, <3>2, SameTable
      <3> QED BY <2>1, <3>3
    <2>2. CASE f # <<>> /\ f[Len(f)] = Unreadable
      <3>1. \A i \in 1..n : f[i] = g[i]
        BY <1>7, <1>8, <2>2
      <3>2. f = g
        BY <1>5, <1>6, <3>1, SameTable
      <3> QED BY <2>2, <3>2
    <2>3. CASE f # <<>> /\ f[Len(f)] # Unreadable
      <3>1. n \in 1..n
        BY <1>5, <1>7, <2>3
      <3>2. g[n] = Merge(f[n], e) /\ \A i \in 1..n : i # n => g[i] = f[i]
        BY <1>7, <1>8, <2>3, <3>1
      <3>3. g = [f EXCEPT ![n] = Merge(@, e)]
        BY <1>6, <3>1, <3>2
      <3> QED BY <1>7, <2>3, <3>3
    <2> QED BY <2>1, <2>2, <2>3
  <1>10. Operation = [name |-> "push", entry |-> e] /\ Operation' = Log!None
    BY <1>2, <1>3, OperationNow, OperationThen DEF NoCall
  <1> QED BY <1>1, <1>4, <1>9, <1>10 DEF Log!CrashInPush

LEMMA LogStep ==
  ASSUME NEW B, NEW P, MergesInReading(B, P), FilesInv(B, P), [Next]_vars
  PROVE  FilesInv(B, P)' /\ [Log!Next]_<<Contents, Operation>>
PROOF
  <1>1. CASE (\E e \in Entries : PushData(e)) \/ PushMeta
    BY <1>1, PushSteps
  <1>2. CASE (\E idx \in 0..MaxSize : TruncateData(idx)) \/ TruncateMeta
    BY <1>2, TruncateSteps
  <1>3. TypeOK
    BY DEF FilesInv
  <1>4. CASE Close
    <2>1. /\ data' = data /\ meta' = meta /\ entry_count' = entry_count /\ call = NoCall
          /\ call' = NoCall /\ spoilt' = spoilt /\ up' \in BOOLEAN /\ crashes' \in 0..MaxCrashes
      BY <1>3, <1>4 DEF Close, Idle, TypeOK
    <2>2. call.name = "none"
      BY <2>1 DEF NoCall
    <2> QED BY <2>1, <2>2, QuietLogStep DEF Log!Next
  <1>5. CASE Crash
    <2>1. CASE call.name = "push"
      BY <1>5, <2>1, CrashInPushLogStep DEF Log!Next
    <2>2. CASE call.name # "push"
      <3>1. /\ data' = data /\ meta' = meta /\ entry_count' = entry_count /\ call' = NoCall
            /\ up' \in BOOLEAN /\ crashes' \in 0..MaxCrashes
            /\ spoilt' = IF call.name = "truncate" THEN spoilt \cup (call.idx .. Len(meta) - 1)
                         ELSE spoilt
        BY <1>3, <1>5, CrashFacts
      <3> QED BY <2>2, <3>1, QuietLogStep DEF Log!Next
    <2> QED BY <2>1, <2>2
  <1>6. CASE Open
    <2>1. /\ data' = data /\ meta' = meta /\ entry_count' = entry_count /\ call = NoCall
          /\ call' = NoCall /\ spoilt' = spoilt /\ up' \in BOOLEAN /\ crashes' \in 0..MaxCrashes
      BY <1>3, <1>6 DEF Open, TypeOK
    <2>2. call.name = "none"
      BY <2>1 DEF NoCall
    <2> QED BY <2>1, <2>2, QuietLogStep DEF Log!Next
  <1>7. CASE UNCHANGED vars
    <2>1. /\ data' = data /\ meta' = meta /\ entry_count' = entry_count /\ call' = call
          /\ spoilt' = spoilt /\ up' = up /\ crashes' = crashes
      BY <1>7 DEF vars
    <2>2. FilesInv(B, P)'
      BY <2>1 DEF FilesInv, TypeOK, CallInv, Kept, Live, Sound, Slice, OffsetAfter, DataSize
    <2>3. UNCHANGED <<Contents, Operation>>
      BY <2>1 DEF Contents, Operation, Read, get_offset, DataSize
    <2> QED BY <2>2, <2>3
  <1> QED BY <1>1, <1>2, <1>4, <1>5, <1>6, <1>7 DEF Next

(***************************************************************************)
(* For every encoding that reads an entry written behind another as the    *)
(* merge of the two, LogVec implements the sequence of entries of EntryLog *)
(* across appends, truncations, restarts and crashes between the two files *)
(* (log_vec.cpp:147-171, 199-211).                                         *)
(***************************************************************************)
THEOREM LogVecImplementsLog ==
  ASSUME NEW B, NEW P, MergesInReading(B, P)
  PROVE  Spec => ImplementsLog
PROOF
  <1>1. Init => FilesInv(B, P) /\ Log!Init
    <2> SUFFICES ASSUME Init PROVE FilesInv(B, P) /\ Log!Init
      OBVIOUS
    <2>1. /\ data = <<>> /\ meta = <<>> /\ entry_count = 0 /\ call = NoCall /\ up = TRUE
          /\ crashes = 0 /\ spoilt = {}
      BY DEF Init
    <2>2. Live = 0 /\ Kept = {}
      BY <2>1 DEF Live, Kept, NoCall
    <2>3. TypeOK /\ CallInv
      BY <2>1, LogVecAssumption DEF TypeOK, CallInv, NoCall
    <2>4. FilesInv(B, P)
      BY <2>1, <2>2, <2>3 DEF FilesInv
    <2>5. Contents = <<>>
      BY <2>1 DEF Contents, NoCall
    <2>6. Operation = Log!None
      BY <2>1, OperationNow DEF NoCall
    <2> QED BY <2>4, <2>5, <2>6 DEF Log!Init
  <1>2. FilesInv(B, P) /\ [Next]_vars => FilesInv(B, P)' /\ [Log!Next]_<<Contents, Operation>>
    BY LogStep
  <1> QED
    BY <1>1, <1>2, PTL DEF Spec, ImplementsLog, Log!Spec
-----------------------------------------------------------------------------
(* Iterators *)

\* Induction over the numbers, for a set of them.
LEMMA AllNumbers ==
  ASSUME NEW S, 0 \in S, \A n \in Nat : n \in S => n + 1 \in S
  PROVE  Nat \subseteq S
PROOF
  <1> DEFINE R == OpToRel(<, Nat)
             T == Nat \ S
  <1> SUFFICES ASSUME T # {} PROVE FALSE
    OBVIOUS
  <1>1. IsWellFoundedOn(R, Nat)
    BY NatLessThanWellFounded
  <1>2. PICK x \in T : \A y \in T : ~(<<y, x>> \in R)
    <2> HIDE DEF R, T
    <2>1. T \subseteq Nat
      BY DEF T
    <2> QED BY <1>1, <2>1, WFMin
  <1>3. x \in Nat /\ x # 0 /\ x - 1 \in Nat /\ x - 1 < x
    <2>1. x \in Nat /\ x \notin S
      BY <1>2, Zenon
    <2>2. x # 0
      BY <2>1, Zenon
    <2> QED BY <2>1, <2>2
  <1>4. x - 1 \in T
    <2>1. (x - 1) + 1 = x
      BY <1>3
    <2>2. x \notin S
      BY <1>2, Zenon
    <2>3. x - 1 \notin S
      BY <1>3, <2>1, <2>2
    <2> QED BY <1>3, <2>3, Zenon
  <1>5. <<x - 1, x>> \in R
    BY <1>3 DEF OpToRel
  <1> HIDE DEF R, T
  <1> QED
    BY <1>2, <1>4, <1>5

\* An iterator of either direction, and one that is put elsewhere.
Fwd(x) == [idx |-> x, reverse |-> FALSE]
Bwd(x) == [idx |-> x, reverse |-> TRUE]
Put(it, y) == [it EXCEPT !.idx = y]

LEMMA Moved ==
  ASSUME NEW x, NEW y
  PROVE  /\ Put(Fwd(x), y) = Fwd(y) /\ Fwd(x).idx = x /\ Fwd(x).reverse = FALSE
         /\ Put(Bwd(x), y) = Bwd(y) /\ Bwd(x).idx = x /\ Bwd(x).reverse = TRUE
PROOF
  <1>1. \A r : /\ Put([idx |-> x, reverse |-> r], y) = [idx |-> y, reverse |-> r]
              /\ [idx |-> x, reverse |-> r].idx = x
              /\ [idx |-> x, reverse |-> r].reverse = r
    BY SMT DEF Put
  <1>2. PICK f, t : f = FALSE /\ t = TRUE
    BY Zenon
  <1>3. /\ Put([idx |-> x, reverse |-> f], y) = [idx |-> y, reverse |-> f]
        /\ Put([idx |-> x, reverse |-> t], y) = [idx |-> y, reverse |-> t]
    BY <1>1
  <1>4. /\ Fwd(x) = [idx |-> x, reverse |-> f] /\ Fwd(y) = [idx |-> y, reverse |-> f]
        /\ Bwd(x) = [idx |-> x, reverse |-> t] /\ Bwd(y) = [idx |-> y, reverse |-> t]
    BY <1>2, Zenon DEF Fwd, Bwd
  <1>5. Put(Fwd(x), y) = Fwd(y) /\ Put(Bwd(x), y) = Bwd(y)
    BY <1>3, <1>4, Zenon
  <1>6. Fwd(x).idx = x /\ Fwd(x).reverse = FALSE /\ Bwd(x).idx = x /\ Bwd(x).reverse = TRUE
    BY Zenon DEF Fwd, Bwd
  <1> QED BY <1>5, <1>6

LEMMA Steps ==
  ASSUME NEW x \in Int
  PROVE  /\ Inc(Fwd(x)) = Fwd(x + 1)
         /\ Dec(Fwd(x)) = Fwd(x - 1)
         /\ Inc(Bwd(x)) = Bwd(x - 1)
         /\ Plus(begin, x) = Fwd(x)
         /\ [rbegin EXCEPT !.idx = x] = Bwd(x)
PROOF
  <1>1. Inc(Fwd(x)) = Put(Fwd(x), x + 1)
    BY Moved, Zenon DEF Inc, Put
  <1>2. Inc(Bwd(x)) = Put(Bwd(x), x - 1)
    BY Moved, Zenon DEF Inc, Put
  <1>3. begin = Fwd(0) /\ rbegin = Bwd(entry_count - 1)
    BY Zenon DEF Fwd, Bwd, begin, rbegin
  <1>4. Plus(begin, x) = Put(Fwd(0), 0 + x)
    BY <1>3, Moved, Zenon DEF Plus, Put
  <1>5. 0 + x = x
    OBVIOUS
  <1>6. Dec(Fwd(x)) = Put(Fwd(x), x - 1)
    BY Moved, Zenon DEF Dec, Put
  <1>7. [rbegin EXCEPT !.idx = x] = Put(Bwd(entry_count - 1), x)
    BY <1>3, Zenon DEF Put
  <1>8. Plus(begin, x) = Fwd(x)
    BY <1>4, <1>5, Moved
  <1>9. [rbegin EXCEPT !.idx = x] = Bwd(x)
    BY <1>7, Moved
  <1> QED
    BY <1>1, <1>2, <1>6, <1>8, <1>9, Moved

\* What the entry behind an iterator is.
LEMMA Derefs ==
  ASSUME entry_count \in 0..MaxSize, NEW k \in -1..MaxSize
  PROVE  /\ Inc(Plus(begin, k)).idx = k + 1
         /\ Deref(Plus(begin, k)) = IF k \in 0 .. entry_count - 1 THEN Read(k) ELSE Unreadable
         /\ [rbegin EXCEPT !.idx = k] = rend <=> k = -1
         /\ Inc([rbegin EXCEPT !.idx = k]).idx = k - 1
         /\ Deref([rbegin EXCEPT !.idx = k])
              = IF k \in 0 .. entry_count - 1 THEN Read(k) ELSE Unreadable
PROOF
  <1>0. k \in Int
    BY LogVecAssumption
  <1>1. /\ Plus(begin, k) = Fwd(k)
        /\ Inc(Plus(begin, k)) = Fwd(k + 1)
        /\ [rbegin EXCEPT !.idx = k] = Bwd(k)
        /\ Inc([rbegin EXCEPT !.idx = k]) = Bwd(k - 1)
    BY <1>0, Steps
  <1>2. \A y : Fwd(y).idx = y /\ Bwd(y).idx = y
    BY Moved
  <1>3. Bwd(k) = rend <=> k = -1
    BY DEF rend, Fwd, Bwd
  <1>4. Deref(Plus(begin, k)) = IF k \in 0 .. entry_count - 1 THEN Read(k) ELSE Unreadable
    BY <1>1, <1>2, Zenon DEF Deref
  <1>5. Deref([rbegin EXCEPT !.idx = k])
          = IF k \in 0 .. entry_count - 1 THEN Read(k) ELSE Unreadable
    <2>1. Deref(Bwd(k)) = IF k \in 0 .. entry_count - 1 THEN Read(k) ELSE Unreadable
      BY <1>2, Zenon DEF Deref
    <2> QED BY <1>1, <2>1
  <1> QED
    BY <1>1, <1>2, <1>3, <1>4, <1>5

\* The sweep from begin() + k meets the entries from k on.
LEMMA ForthMeetsAll ==
  ASSUME entry_count \in 0..MaxSize
  PROVE  LET all == [i \in 1..entry_count |-> Read(i - 1)] IN
         \A k \in 0..entry_count : Forth[k] = SubSeq(all, k + 1, entry_count)
PROOF
  <1> DEFINE all == [i \in 1..entry_count |-> Read(i - 1)]
             From(k) == SubSeq(all, k + 1, entry_count)
             Eq(f) == f = [k \in 0..MaxSize |->
                             LET it == Plus(begin, k) IN
                             IF k >= entry_count THEN <<>>
                             ELSE <<Deref(it)>> \o f[Inc(it).idx]]
             g == [k \in 0..MaxSize |-> From(k)]
             V == {Read(i) : i \in 0 .. entry_count - 1}
  <1>0. entry_count \in Nat /\ MaxSize \in Nat
    BY LogVecAssumption
  <1>1. all \in Seq(V) /\ Len(all) = entry_count /\ \A i \in 1..entry_count : all[i] = Read(i - 1)
    <2>1. all \in [1..entry_count -> V]
      BY <1>0
    <2> HIDE DEF V
    <2> QED BY <1>0, <2>1, Tabulated
  <1> HIDE DEF all
  <1>2. \A k \in entry_count..MaxSize : From(k) = <<>>
    BY <1>0, <1>1
  <1>3. ASSUME NEW k \in 0 .. entry_count - 1
        PROVE  From(k) = <<Read(k)>> \o From(k + 1)
    <2>1. /\ From(k) \in Seq(V) /\ Len(From(k)) = entry_count - k
          /\ \A i \in 1 .. entry_count - k : From(k)[i] = all[k + i]
      BY <1>0, <1>1
    <2>2. /\ From(k + 1) \in Seq(V) /\ Len(From(k + 1)) = entry_count - k - 1
          /\ \A i \in 1 .. entry_count - k - 1 : From(k + 1)[i] = all[k + 1 + i]
      BY <1>0, <1>1
    <2>3. all[k + 1] = Read(k) /\ Read(k) \in V
      BY <1>0, <1>1
    <2> HIDE DEF From, V
    <2> DEFINE r == <<Read(k)>> \o From(k + 1)
    <2>4. /\ r \in Seq(V) /\ Len(r) = entry_count - k /\ r[1] = Read(k)
          /\ \A i \in 2 .. entry_count - k : r[i] = From(k + 1)[i - 1]
      BY <1>0, <2>2, <2>3
    <2>5. \A i \in 1 .. entry_count - k : r[i] = From(k)[i]
      <3> HIDE DEF r
      <3> SUFFICES ASSUME NEW i \in 1 .. entry_count - k PROVE r[i] = From(k)[i]
        OBVIOUS
      <3>1. CASE i = 1
        BY <1>0, <2>1, <2>3, <2>4, <3>1
      <3>2. CASE i # 1
        <4>1. /\ i \in 2 .. entry_count - k /\ i - 1 \in 1 .. entry_count - k - 1
              /\ k + 1 + (i - 1) = k + i
          BY <1>0, <3>2
        <4> QED BY <2>1, <2>2, <2>4, <4>1
      <3> QED BY <3>1, <3>2
    <2> HIDE DEF r
    <2> QED BY <2>1, <2>4, <2>5, SeqEqual DEF r
  <1> HIDE DEF From
  <1>4. Eq(g)
    <2>1. ASSUME NEW k \in 0..MaxSize
          PROVE  g[k] = LET it == Plus(begin, k) IN
                        IF k >= entry_count THEN <<>> ELSE <<Deref(it)>> \o g[Inc(it).idx]
      <3>1. CASE k >= entry_count
        BY <1>0, <1>2, <3>1
      <3>2. CASE k < entry_count
        <4>1. /\ Deref(Plus(begin, k)) = Read(k) /\ Inc(Plus(begin, k)).idx = k + 1
              /\ k + 1 \in 0..MaxSize
          <5>1. k \in -1..MaxSize /\ k \in 0 .. entry_count - 1 /\ k + 1 \in 0..MaxSize
            BY <1>0, <3>2
          <5> QED BY <5>1, Derefs
        <4> QED BY <1>0, <1>3, <3>2, <4>1
      <3> QED BY <1>0, <3>1, <3>2
    <2> QED BY <2>1
  <1>5. Eq(Forth)
    <2>1. Forth = CHOOSE f : Eq(f)
      BY DEF Forth
    <2> HIDE DEF Eq, g
    <2>2. Eq(CHOOSE f : Eq(f))
      BY <1>4, Zenon
    <2> QED BY <2>1, <2>2
  <1>6. \A k \in 0..MaxSize : Forth[k] = IF k >= entry_count THEN <<>>
                                         ELSE <<Read(k)>> \o Forth[k + 1]
    <2>1. ASSUME NEW k \in 0..MaxSize
          PROVE  Forth[k] = IF k >= entry_count THEN <<>> ELSE <<Read(k)>> \o Forth[k + 1]
      <3>1. Forth[k] = LET it == Plus(begin, k) IN
                       IF k >= entry_count THEN <<>> ELSE <<Deref(it)>> \o Forth[Inc(it).idx]
        BY <1>5
      <3>2. /\ k < entry_count => Deref(Plus(begin, k)) = Read(k)
            /\ Inc(Plus(begin, k)).idx = k + 1
        <4>1. k \in -1..MaxSize /\ (k < entry_count => k \in 0 .. entry_count - 1)
          BY <1>0
        <4> QED BY <4>1, Derefs
      <3> QED BY <1>0, <3>1, <3>2
    <2> QED BY <2>1
  <1> HIDE DEF Eq, g
  <1> DEFINE S == {n \in Nat : n <= entry_count
                                  => Forth[entry_count - n] = From(entry_count - n)}
  <1>7. 0 \in S
    <2>1. entry_count - 0 = entry_count /\ entry_count \in entry_count..MaxSize
          /\ entry_count \in 0..MaxSize /\ entry_count >= entry_count
      BY <1>0
    <2>2. Forth[entry_count] = From(entry_count)
      BY <1>2, <1>6, <2>1
    <2> QED BY <2>1, <2>2
  <1>8. ASSUME NEW n \in S
        PROVE  n + 1 \in S
    <2> SUFFICES ASSUME n + 1 <= entry_count
                 PROVE  Forth[entry_count - (n + 1)] = From(entry_count - (n + 1))
      OBVIOUS
    <2> DEFINE k == entry_count - (n + 1)
    <2>1. k \in 0 .. entry_count - 1 /\ k \in 0..MaxSize /\ k + 1 = entry_count - n
      BY <1>0
    <2>2. Forth[k + 1] = From(k + 1)
      BY <1>0, <2>1
    <2>3. Forth[k] = From(k)
      <3> HIDE DEF k
      <3>1. Forth[k] = <<Read(k)>> \o Forth[k + 1]
        <4>1. k \in 0..MaxSize /\ ~(k >= entry_count)
          BY <1>0, <2>1
        <4> QED BY <1>6, <4>1
      <3> QED BY <1>3, <2>1, <2>2, <3>1
    <2> QED BY <2>3
  <1>9. Nat \subseteq S
    <2> HIDE DEF S
    <2> QED BY <1>7, <1>8, AllNumbers
  <1>10. ASSUME NEW k \in 0..entry_count
         PROVE  Forth[k] = From(k)
    <2>1. entry_count - k \in S /\ entry_count - (entry_count - k) = k
          /\ entry_count - k <= entry_count
      BY <1>0, <1>9
    <2> QED BY <2>1
  <1> QED BY <1>10 DEF From, all

\* The sweep from rbegin() meets all.
LEMMA BackMeetsAll ==
  ASSUME entry_count \in 0..MaxSize
  PROVE  Back[rbegin.idx] = [i \in 1..entry_count |-> Read(i - 1)]
PROOF
  <1> DEFINE At(k) == IF k \in 0 .. entry_count - 1 THEN Read(k) ELSE Unreadable
             UpTo(k) == [i \in 1 .. k + 1 |-> At(i - 1)]
             Eq(f) == f = [k \in -1..MaxSize |->
                             LET it == [rbegin EXCEPT !.idx = k] IN
                             IF it = rend THEN <<>> ELSE Append(f[Inc(it).idx], Deref(it))]
             g == [k \in -1..MaxSize |-> UpTo(k)]
             V == {At(i) : i \in 0..MaxSize}
  <1>0. entry_count \in Nat /\ MaxSize \in Nat
    BY LogVecAssumption
  <1>1. UpTo(-1) = <<>>
    OBVIOUS
  <1>2. ASSUME NEW k \in 0..MaxSize
        PROVE  UpTo(k) = Append(UpTo(k - 1), At(k))
    <2>1. At(k) \in V /\ \A i \in 1..k : At(i - 1) \in V
      BY <1>0
    <2> HIDE DEF V, At
    <2>2. UpTo(k - 1) \in Seq(V) /\ Len(UpTo(k - 1)) = k
      <3>1. UpTo(k - 1) \in [1..k -> V]
        BY <1>0, <2>1
      <3> QED BY <1>0, <3>1, Tabulated
    <2>3. UpTo(k) \in Seq(V) /\ Len(UpTo(k)) = k + 1
      <3>1. UpTo(k) \in [1 .. k + 1 -> V]
        BY <1>0, <2>1
      <3> QED BY <1>0, <3>1, Tabulated
    <2> DEFINE r == Append(UpTo(k - 1), At(k))
    <2>4. r \in Seq(V) /\ Len(r) = k + 1 /\ r[k + 1] = At(k)
          /\ \A i \in 1..k : r[i] = UpTo(k - 1)[i]
      <3> HIDE DEF UpTo
      <3> QED BY <1>0, <2>1, <2>2
    <2>5. \A i \in 1 .. k + 1 : r[i] = UpTo(k)[i]
      <3> HIDE DEF r
      <3> QED BY <1>0, <2>4
    <2> HIDE DEF r, UpTo
    <2> QED BY <2>3, <2>4, <2>5, SeqEqual DEF r
  <1> HIDE DEF UpTo, At, V
  <1>4. Eq(g)
    <2>1. ASSUME NEW k \in -1..MaxSize
          PROVE  g[k] = LET it == [rbegin EXCEPT !.idx = k] IN
                        IF it = rend THEN <<>> ELSE Append(g[Inc(it).idx], Deref(it))
      <3>1. /\ [rbegin EXCEPT !.idx = k] = rend <=> k = -1
            /\ Inc([rbegin EXCEPT !.idx = k]).idx = k - 1
            /\ Deref([rbegin EXCEPT !.idx = k]) = At(k)
        BY Derefs DEF At
      <3>2. CASE k = -1
        BY <1>0, <1>1, <3>1, <3>2
      <3>3. CASE k # -1
        <4>1. k \in 0..MaxSize /\ k - 1 \in -1..MaxSize
          BY <1>0, <3>3
        <4> QED BY <1>2, <3>1, <3>3, <4>1
      <3> QED BY <3>2, <3>3
    <2> QED BY <2>1
  <1>5. Eq(Back)
    <2>1. Back = CHOOSE f : Eq(f)
      BY DEF Back
    <2> HIDE DEF Eq, g
    <2>2. Eq(CHOOSE f : Eq(f))
      BY <1>4, Zenon
    <2> QED BY <2>1, <2>2
  <1>6. \A k \in -1..MaxSize : Back[k] = IF k = -1 THEN <<>> ELSE Append(Back[k - 1], At(k))
    <2>1. ASSUME NEW k \in -1..MaxSize
          PROVE  Back[k] = IF k = -1 THEN <<>> ELSE Append(Back[k - 1], At(k))
      <3>1. Back[k] = LET it == [rbegin EXCEPT !.idx = k] IN
                      IF it = rend THEN <<>> ELSE Append(Back[Inc(it).idx], Deref(it))
        BY <1>5
      <3>2. /\ [rbegin EXCEPT !.idx = k] = rend <=> k = -1
            /\ Inc([rbegin EXCEPT !.idx = k]).idx = k - 1
            /\ Deref([rbegin EXCEPT !.idx = k]) = At(k)
        BY Derefs DEF At
      <3> QED BY <3>1, <3>2
    <2> QED BY <2>1
  <1> HIDE DEF Eq, g
  <1> DEFINE S == {n \in Nat : n <= MaxSize + 1 => Back[n - 1] = UpTo(n - 1)}
  <1>7. 0 \in S
    BY <1>0, <1>1, <1>6
  <1>8. ASSUME NEW n \in S
        PROVE  n + 1 \in S
    <2> SUFFICES ASSUME n + 1 <= MaxSize + 1
                 PROVE  Back[n] = UpTo(n)
      OBVIOUS
    <2>1. n \in 0..MaxSize /\ n \in -1..MaxSize /\ n # -1 /\ n <= MaxSize + 1
      BY <1>0
    <2>2. Back[n - 1] = UpTo(n - 1)
      BY <2>1
    <2> QED BY <1>2, <1>6, <2>1, <2>2
  <1>9. Nat \subseteq S
    <2> HIDE DEF S
    <2> QED BY <1>7, <1>8, AllNumbers
  <1>10. Back[entry_count - 1] = UpTo(entry_count - 1)
    BY <1>0, <1>9
  <1>11. UpTo(entry_count - 1) = [i \in 1..entry_count |-> Read(i - 1)]
    BY <1>0 DEF UpTo, At
  <1> QED
    BY <1>10, <1>11 DEF rbegin

\* The log does not outgrow its bound.
SizeInv ==
  /\ \E V : meta \in Seq(V)
  /\ entry_count = Len(meta) /\ entry_count <= MaxSize
  /\ call.name = "push" => entry_count < MaxSize
  /\ call.name = "truncate" => call.idx \in 0..entry_count

LEMMA SizeStep == SizeInv /\ [Next]_vars => SizeInv'
PROOF
  <1> SUFFICES ASSUME SizeInv, [Next]_vars PROVE SizeInv'
    OBVIOUS
  <1>0. PICK V : meta \in Seq(V)
    BY DEF SizeInv
  <1>1. entry_count \in Nat /\ MaxSize \in Nat
    BY <1>0, LogVecAssumption DEF SizeInv
  <1>2. ASSUME NEW e \in Entries, PushData(e)
        PROVE  SizeInv'
    BY <1>2 DEF PushData, SizeInv
  <1>3. CASE PushMeta
    <2>1. meta \in Seq(V \cup {call.offset})
      BY <1>0
    <2>2. meta' \in Seq(V \cup {call.offset}) /\ Len(meta') = Len(meta) + 1
      BY <1>3, <2>1 DEF PushMeta
    <2>3. entry_count' = entry_count + 1 /\ call' = NoCall /\ call.name = "push"
      BY <1>3 DEF PushMeta
    <2> QED BY <1>1, <2>2, <2>3 DEF SizeInv, NoCall
  <1>4. ASSUME NEW idx \in 0..MaxSize, TruncateData(idx)
        PROVE  SizeInv'
    BY <1>1, <1>4 DEF TruncateData, SizeInv
  <1>5. CASE TruncateMeta
    <2>1. call.idx \in 0..Len(meta)
      BY <1>5 DEF TruncateMeta, SizeInv
    <2>2. meta' \in Seq(V) /\ Len(meta') = call.idx
      BY <1>0, <1>1, <1>5, <2>1 DEF TruncateMeta
    <2>3. entry_count' = call.idx /\ call' = NoCall
      BY <1>5 DEF TruncateMeta
    <2> QED BY <1>1, <2>1, <2>2, <2>3 DEF SizeInv, NoCall
  <1>6. CASE Close \/ Crash
    BY <1>6 DEF Close, Crash, SizeInv, NoCall
  <1>7. CASE Open
    BY <1>7 DEF Open, SizeInv
  <1>8. CASE UNCHANGED vars
    BY <1>8 DEF vars, SizeInv
  <1> QED
    BY <1>2, <1>3, <1>4, <1>5, <1>6, <1>7, <1>8 DEF Next

(***************************************************************************)
(* For logs of any length, in whatever state crashes left them, iterators  *)
(* meet every entry once and in order, forwards from any begin() + k and   *)
(* backwards from rbegin() (log_vec.cpp:189-197).                          *)
(***************************************************************************)
THEOREM IteratorsMeetAll == Spec => []SweepsMeetAll
PROOF
  <1>1. Init => SizeInv
    BY LogVecAssumption DEF Init, SizeInv, NoCall
  <1>2. SizeInv => SweepsMeetAll
    <2> SUFFICES ASSUME SizeInv PROVE SweepsMeetAll
      OBVIOUS
    <2> DEFINE all == [i \in 1..entry_count |-> Read(i - 1)]
    <2>1. entry_count \in 0..MaxSize /\ entry_count \in Nat
      BY LogVecAssumption DEF SizeInv
    <2>2. Back[rbegin.idx] = all
      BY <2>1, BackMeetsAll
    <2>3. ASSUME NEW k \in 0..entry_count
          PROVE  /\ Forth[k] = SubSeq(all, k + 1, entry_count)
                 /\ Dec(Inc(Plus(begin, k))) = Plus(begin, k)
                 /\ Plus(begin, k) = end <=> Forth[k] = <<>>
      <3>1. Forth[k] = SubSeq(all, k + 1, entry_count)
        BY <2>1, ForthMeetsAll
      <3>2. /\ Dec(Inc(Plus(begin, k))) = Plus(begin, k)
            /\ Plus(begin, k) = end <=> k = entry_count
        <4>1. k \in Int /\ k + 1 \in Int /\ (k + 1) - 1 = k
          BY <2>1
        <4>2. /\ Plus(begin, k) = Fwd(k)
              /\ Inc(Fwd(k)) = Fwd(k + 1)
              /\ Dec(Fwd(k + 1)) = Fwd((k + 1) - 1)
          BY <4>1, Steps, Zenon
        <4>3. Fwd(k) = end <=> k = entry_count
          BY DEF end, Fwd, Bwd
        <4>4. Dec(Inc(Plus(begin, k))) = Plus(begin, k)
          BY <4>1, <4>2, Zenon
        <4> QED BY <4>2, <4>3, <4>4, Zenon
      <3>3. SubSeq(all, k + 1, entry_count) = <<>> <=> k = entry_count
        <4> DEFINE V == {Read(i) : i \in 0 .. entry_count - 1}
        <4>1. all \in [1..entry_count -> V]
          BY <2>1
        <4> HIDE DEF V, all
        <4>2. all \in Seq(V) /\ Len(all) = entry_count
          BY <2>1, <4>1, Tabulated
        <4> QED BY <2>1, <4>2
      <3> QED BY <3>1, <3>2, <3>3
    <2> QED BY <2>2, <2>3 DEF SweepsMeetAll
  <1> QED
    BY <1>1, <1>2, SizeStep, PTL DEF Spec

=============================================================================
