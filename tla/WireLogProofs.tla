--------------------------- MODULE WireLogProofs ---------------------------
(***************************************************************************)
(* Proofs about the session journal, for records of any length and any     *)
(* number of processes, turns, crashes and faults.  First what the format  *)
(* gives to both specifications; then SessionFollow, several processes     *)
(* that follow one file: what a process has in memory is what a replay of  *)
(* the file up to its anchor gives; then Journal, the file's life on disk: *)
(* what was acknowledged is read back, in order, and readers see a log     *)
(* that only grows (DurableLog).                                           *)
(*                                                                         *)
(* The two specifications share the format and no variable.                *)
(***************************************************************************)
EXTENDS Journal, SessionFollow, QueueLemmas, FiniteSetTheorems, TLAPS

\* The file ends at the end of a line.
Whole(f) == f = <<>> \/ IsNewline(f[Len(f)])

\* The memory m is a replay of the first a bytes of f, and the anchor a is at
\* the end of a line, or in the last one.
Folding(f, a, m) ==
    /\ a <= Len(f) /\ m = ReadAll(SubSeq(f, 1, a))
    /\ a = 0 \/ IsNewline(f[a]) \/ \A i \in Newlines(f) : i <= a

-----------------------------------------------------------------------------
(* Bytes and lines. *)

LEMMA OpConstants ==
    /\ MaxOps \in Nat /\ IsFiniteSet(Op)
    /\ \A o \in Op : RecordLen[o] \in Nat /\ 2 <= RecordLen[o]
<1>1. MaxOps \in Nat
  BY MaxOpsAssumption
<1>2. IsFiniteSet(1..MaxOps)
  <2>1. 1 \in Int /\ MaxOps \in Int
    BY <1>1
  <2> QED
    BY <2>1, FS_Interval
<1>3. IsFiniteSet(Kinds)
  <2>1. IsFiniteSet({}) /\ Kinds = (({} \cup {"prompt"}) \cup {"event"}) \cup {"ended"}
    BY FS_EmptySet DEF Kinds
  <2> QED
    BY <2>1, FS_AddElement
<1>4. IsFiniteSet(Op)
  <2> DEFINE f == [x \in (1..MaxOps) \X Kinds |-> [n |-> x[1], kind |-> x[2]]]
  <2>1. f \in Surjection((1..MaxOps) \X Kinds, Op)
    <3>1. f \in [(1..MaxOps) \X Kinds -> Op]
      BY DEF Op
    <3>2. ASSUME NEW o \in Op PROVE \E x \in (1..MaxOps) \X Kinds : f[x] = o
      <4>1. <<o.n, o.kind>> \in (1..MaxOps) \X Kinds /\ o = [n |-> o.n, kind |-> o.kind]
        BY DEF Op
      <4> QED
        BY <4>1
    <3> QED
      BY <3>1, <3>2 DEF Surjection
  <2>2. IsFiniteSet((1..MaxOps) \X Kinds)
    BY <1>2, <1>3, FS_Product
  <2> QED
    BY <2>1, <2>2, FS_Surjection
<1>5. \A o \in Op : RecordLen[o] \in Nat /\ 2 <= RecordLen[o]
  BY RecordLenAssumption
<1> QED
  BY <1>1, <1>4, <1>5

(* The line of an op is made of bytes, the last of which is its only newline. *)
LEMMA RecordLine ==
    ASSUME NEW o \in Op
    PROVE  /\ Record(o) \in Seq(Byte) /\ Len(Record(o)) = RecordLen[o]
           /\ \A i \in 1..RecordLen[o] : Record(o)[i] = <<o, i>>
<1> DEFINE T == {RecordLen[p] : p \in Op}
           M == Max(T)
<1>1. IsFiniteSet(T) /\ T \subseteq Nat /\ RecordLen[o] \in T
  <2>1. RecordLen \in Surjection(Op, T)
    BY RecordLenAssumption DEF Surjection
  <2>2. IsFiniteSet(T)
    BY <2>1, OpConstants, FS_Surjection
  <2> QED
    BY <2>2, OpConstants
<1>2. M \in Nat /\ RecordLen[o] <= M
  BY <1>1, NatMax
<1>3. \A i \in 1..M : <<o, i>> \in Byte
  <2>1. Byte = {<<p, i>> : p \in Op, i \in 1..M}
    BY DEF Byte
  <2> HIDE DEF T, M
  <2> QED
    BY <2>1
<1> HIDE DEF T, M
<1>4. RecordLen[o] \in Nat
  BY OpConstants
<1>5. \A i \in 1..RecordLen[o] : <<o, i>> \in Byte
  BY <1>2, <1>3, <1>4
<1>6. Record(o) \in [1..RecordLen[o] -> Byte]
  BY <1>5 DEF Record
<1>7. Record(o) \in Seq(Byte) /\ Len(Record(o)) = RecordLen[o]
  BY <1>4, <1>6
<1> QED
  BY <1>7 DEF Record

LEMMA ByteParts ==
    ASSUME NEW b \in Byte
    PROVE  /\ b[1] \in Op /\ b[2] \in Int /\ b = <<b[1], b[2]>>
           /\ IsNewline(b) <=> b \in NewlineBytes
<1> DEFINE M == Max({RecordLen[p] : p \in Op})
<1>0. Byte = {<<o, i>> : o \in Op, i \in 1..M}
  BY DEF Byte
<1> HIDE DEF M
<1>1. PICK o \in Op, i \in 1..M : b = <<o, i>>
  BY <1>0
<1>2. b[1] = o /\ b[2] = i /\ i \in Int
  BY <1>1
<1>3. IsNewline(b) => b \in NewlineBytes
  BY <1>1, <1>2 DEF IsNewline, NewlineBytes
<1>4. b \in NewlineBytes => IsNewline(b)
  BY DEF IsNewline, NewlineBytes
<1> QED
  BY <1>1, <1>2, <1>3, <1>4

(* The newlines of a file are the places of its newline bytes. *)
LEMMA NewlinesPicked ==
    ASSUME NEW f \in Seq(Byte)
    PROVE  /\ Newlines(f) = PickedAt(f, NewlineBytes)
           /\ Newlines(f) \subseteq 1..Len(f) /\ Newlines(f) \subseteq Nat
           /\ IsFiniteSet(Newlines(f))
<1>1. Len(f) \in Nat /\ DOMAIN f = 1..Len(f) /\ \A i \in 1..Len(f) : f[i] \in Byte
  BY LenProperties, ElementOfSeq
<1>2. Newlines(f) = PickedAt(f, NewlineBytes) /\ Newlines(f) \subseteq 1..Len(f)
  BY <1>1, ByteParts DEF Newlines, PickedAt
<1>3. IsFiniteSet(1..Len(f))
  <2>1. PICK b \in Nat : b = Len(f)
    BY <1>1, Zenon
  <2>2. b \in Int /\ 1 \in Int
    OBVIOUS
  <2> QED
    BY <2>1, <2>2, FS_Interval
<1> QED
  BY <1>1, <1>2, <1>3, FS_Subset

-----------------------------------------------------------------------------
(* The ops of a file. *)

LEMMA OpsType ==
    ASSUME NEW f \in Seq(Byte)
    PROVE  /\ Ops(f) \in Seq(Op) /\ Len(Ops(f)) = Len(Pick(f, NewlineBytes))
           /\ \A i \in 1..Len(Ops(f)) : Ops(f)[i] = Pick(f, NewlineBytes)[i][1]
<1>1. Pick(f, NewlineBytes) \in Seq(Byte \cap NewlineBytes)
  BY PickType
<1>2. PICK e \in Seq(Byte \cap NewlineBytes) : e = Pick(f, NewlineBytes)
  BY <1>1, Zenon
<1>3. Len(e) \in Nat /\ \A i \in 1..Len(e) : e[i] \in Byte
  BY LenProperties, ElementOfSeq
<1>4. \A i \in 1..Len(e) : e[i][1] \in Op
  BY <1>3, ByteParts
<1>5. Ops(f) = [i \in 1..Len(e) |-> e[i][1]]
  BY <1>2 DEF Ops
<1>6. Ops(f) \in [1..Len(e) -> Op]
  BY <1>4, <1>5
<1>7. Ops(f) \in Seq(Op) /\ Len(Ops(f)) = Len(e)
  BY <1>3, <1>6
<1> QED
  BY <1>2, <1>5, <1>7

(* A stretch without a newline has no op. *)
LEMMA OpsNone ==
    ASSUME NEW f \in Seq(Byte), Newlines(f) = {}
    PROVE  Ops(f) = <<>>
<1>1. PickedAt(f, NewlineBytes) = {}
  BY NewlinesPicked
<1>2. Cardinality(PickedAt(f, NewlineBytes)) = 0
  BY <1>1, FS_EmptySet
<1>3. Pick(f, NewlineBytes) = <<>>
  BY <1>2 DEF Pick
<1>4. Len(Ops(f)) = 0 /\ Ops(f) \in Seq(Op)
  BY <1>3, OpsType
<1> QED
  BY <1>4, EmptySeq

(* The ops of two stretches are those of the first, then those of the second. *)
LEMMA OpsConcat ==
    ASSUME NEW f \in Seq(Byte), NEW g \in Seq(Byte)
    PROVE  Ops(f \o g) = Ops(f) \o Ops(g)
<1>1. f \o g \in Seq(Byte)
  BY ConcatProperties
<1>2. PICK h \in Seq(Byte) : h = f \o g
  BY <1>1, Zenon
<1>3. PICK p \in Seq(Byte \cap NewlineBytes) : p = Pick(f, NewlineBytes)
  BY PickType
<1>4. PICK q \in Seq(Byte \cap NewlineBytes) : q = Pick(g, NewlineBytes)
  BY PickType
<1>5. Pick(h, NewlineBytes) = p \o q
  BY <1>2, <1>3, <1>4, PickConcat
<1>6. PICK u \in Seq(Op) : u = Ops(f)
  BY OpsType
<1>7. PICK v \in Seq(Op) : v = Ops(g)
  BY OpsType
<1>8. PICK w \in Seq(Op) : w = Ops(h)
  BY OpsType
<1>9. /\ Len(u) = Len(p) /\ \A i \in 1..Len(u) : u[i] = p[i][1]
      /\ Len(v) = Len(q) /\ \A i \in 1..Len(v) : v[i] = q[i][1]
      /\ Len(w) = Len(p \o q) /\ \A i \in 1..Len(w) : w[i] = (p \o q)[i][1]
  BY <1>3, <1>4, <1>5, <1>6, <1>7, <1>8, OpsType
<1>10. Len(p) \in Nat /\ Len(q) \in Nat
  BY LenProperties
<1>11. /\ Len(p \o q) = Len(p) + Len(q)
       /\ \A i \in 1..Len(p) + Len(q) : (p \o q)[i] = IF i <= Len(p) THEN p[i] ELSE q[i - Len(p)]
  BY ConcatProperties
<1>12. /\ u \o v \in Seq(Op) /\ Len(u \o v) = Len(p) + Len(q)
       /\ \A i \in 1..Len(p) + Len(q) : (u \o v)[i] = IF i <= Len(p) THEN u[i] ELSE v[i - Len(p)]
  <2>1. /\ u \o v \in Seq(Op) /\ Len(u \o v) = Len(u) + Len(v)
        /\ \A i \in 1..Len(u) + Len(v) : (u \o v)[i] = IF i <= Len(u) THEN u[i] ELSE v[i - Len(u)]
    BY ConcatProperties
  <2>2. Len(u) = Len(p) /\ Len(v) = Len(q)
    BY <1>9
  <2> QED
    BY <2>1, <2>2
<1>13. ASSUME NEW i \in 1..Len(w) PROVE w[i] = (u \o v)[i]
  <2>1. i \in 1..Len(p) + Len(q) /\ w[i] = (p \o q)[i][1]
    BY <1>9, <1>11
  <2>2. CASE i <= Len(p)
    BY <1>9, <1>10, <1>11, <1>12, <2>1, <2>2
  <2>3. CASE ~(i <= Len(p))
    <3>1. PICK j \in 1..Len(q) : j = i - Len(p)
      BY <1>10, <2>1, <2>3
    <3> QED
      BY <1>9, <1>10, <1>11, <1>12, <2>1, <2>3, <3>1
  <2> QED
    BY <2>2, <2>3
<1>14. w = u \o v
  BY <1>9, <1>11, <1>12, <1>13, SeqEqual
<1> QED
  BY <1>2, <1>6, <1>7, <1>8, <1>14


(* The line of an op has that op and no other. *)
LEMMA OpsRecord ==
    ASSUME NEW o \in Op
    PROVE  /\ Ops(Record(o)) = <<o>> /\ Whole(Record(o)) /\ Record(o) # <<>>
           /\ \A k \in 1..RecordLen[o] - 1 :
                /\ SubSeq(Record(o), 1, k) \in Seq(Byte)
                /\ Newlines(SubSeq(Record(o), 1, k)) = {}
<1>1. /\ Record(o) \in Seq(Byte) /\ Len(Record(o)) = RecordLen[o]
      /\ \A i \in 1..RecordLen[o] : Record(o)[i] = <<o, i>>
  BY RecordLine
<1>2. PICK z \in Nat : z = RecordLen[o]
  BY OpConstants
<1>3. 2 <= z
  BY <1>2, OpConstants
<1>4. PICK r \in Seq(Byte) : r = Record(o)
  BY <1>1, Zenon
<1>5. Len(r) = z /\ \A i \in 1..z : r[i] = <<o, i>>
  BY <1>1, <1>2, <1>4
<1>6. \A i \in 1..z : IsNewline(r[i]) <=> i = z
  BY <1>2, <1>5 DEF IsNewline
<1>7. Newlines(r) = {z}
  <2>1. DOMAIN r = 1..z
    BY <1>5, LenProperties
  <2>2. z \in 1..z
    BY <1>3
  <2> QED
    BY <1>6, <2>1, <2>2 DEF Newlines
<1>8. Pick(r, NewlineBytes) = <<r[z]>>
  <2>1. PickedAt(r, NewlineBytes) = {z}
    BY <1>7, NewlinesPicked
  <2>2. Cardinality({z}) = 1 /\ IsFiniteSet({z}) /\ {z} \subseteq Nat
    BY FS_Singleton
  <2>3. 1 \in 1..1
    OBVIOUS
  <2>4. Nth({z}, 1) \in {z}
    BY <2>2, <2>3, NthExists
  <2>5. Pick(r, NewlineBytes) = [k \in 1..1 |-> r[Nth({z}, k)]]
    BY <2>1, <2>2 DEF Pick
  <2>6. Pick(r, NewlineBytes) = [k \in 1..1 |-> r[z]]
    BY <2>4, <2>5
  <2> QED
    BY <2>6
<1>9. Ops(r) = <<o>>
  <2>1. Len(Ops(r)) = 1 /\ Ops(r) \in Seq(Op)
    BY <1>8, OpsType
  <2>2. r[z] = <<o, z>>
    BY <1>3, <1>5
  <2>3. Ops(r)[1] = o
    BY <1>8, <2>1, <2>2, OpsType
  <2> QED
    BY <2>1, <2>3
<1>10. Whole(r) /\ r # <<>>
  <2>1. z \in 1..z
    BY <1>3
  <2>2. IsNewline(r[Len(r)])
    BY <1>5, <1>6, <2>1
  <2>3. r # <<>>
    BY <1>3, <1>5
  <2> QED
    BY <2>2, <2>3 DEF Whole
<1>11. ASSUME NEW k \in 1..z - 1
       PROVE  SubSeq(r, 1, k) \in Seq(Byte) /\ Newlines(SubSeq(r, 1, k)) = {}
  <2>1. \A i \in 1..k : i \in 1..z /\ i # z
    BY <1>3
  <2>2. k \in Nat /\ 1 <= k /\ \A i \in 1..k : r[i] \in Byte
    BY <1>5, <2>1, ElementOfSeq
  <2>3. /\ SubSeq(r, 1, k) \in Seq(Byte) /\ Len(SubSeq(r, 1, k)) = k
        /\ \A i \in 1..k : SubSeq(r, 1, k)[i] = r[i]
    BY <2>2
  <2>4. PICK g \in Seq(Byte) : g = SubSeq(r, 1, k)
    BY <2>3, Zenon
  <2>5. DOMAIN g = 1..k /\ \A i \in 1..k : g[i] = r[i]
    BY <2>3, <2>4, LenProperties
  <2>6. Newlines(g) = {}
    BY <1>6, <2>1, <2>5 DEF Newlines
  <2> QED
    BY <2>3, <2>4, <2>6
<1> QED
  BY <1>2, <1>4, <1>9, <1>10, <1>11

-----------------------------------------------------------------------------
(* The end of a file. *)

LEMMA LastLine ==
    ASSUME NEW f \in Seq(Byte)
    PROVE  /\ LastNewline(f) \in Nat /\ LastNewline(f) <= Len(f)
           /\ LastNewline(f) = 0 \/ LastNewline(f) \in Newlines(f)
           /\ \A i \in Newlines(f) : i <= LastNewline(f)
<1>1. /\ Newlines(f) \subseteq 1..Len(f) /\ Newlines(f) \subseteq Nat
      /\ IsFiniteSet(Newlines(f))
  BY NewlinesPicked
<1>2. IsFiniteSet(Newlines(f) \cup {0})
  BY <1>1, FS_AddElement
<1>3. Newlines(f) \cup {0} \subseteq Nat /\ Newlines(f) \cup {0} # {}
  BY <1>1
<1>4. /\ LastNewline(f) \in Newlines(f) \cup {0}
      /\ \A y \in Newlines(f) \cup {0} : y <= LastNewline(f)
  BY <1>2, <1>3, NatMax DEF LastNewline
<1>5. PICK z \in Nat : z = Len(f)
  BY LenProperties
<1>6. LastNewline(f) <= z
  BY <1>1, <1>4, <1>5
<1> QED
  BY <1>1, <1>4, <1>5, <1>6

(* There is no torn last line iff the file ends at the end of a line. *)
LEMMA TornIff ==
    ASSUME NEW f \in Seq(Byte)
    PROVE  TornTail(f) = <<>> <=> Whole(f)
<1>1. PICK z \in Nat : z = Len(f)
  BY LenProperties
<1>2. PICK l \in Nat : l = LastNewline(f)
  BY LastLine
<1>3. l <= z /\ (l = 0 \/ l \in Newlines(f)) /\ \A i \in Newlines(f) : i <= l
  BY <1>1, <1>2, LastLine
<1>4. DOMAIN f = 1..z /\ \A i \in 1..z : f[i] \in Byte
  BY <1>1, LenProperties, ElementOfSeq
<1>5. Len(SubSeq(f, l + 1, z)) = IF l + 1 <= z THEN z - l ELSE 0
  <2>1. PICK m \in Nat : m = l + 1
    OBVIOUS
  <2>2. \A i \in m..z : f[i] \in Byte
    BY <1>4, <2>1
  <2>3. Len(SubSeq(f, m, z)) = IF m <= z THEN z - m + 1 ELSE 0
    <3>1. m \in Int /\ z \in Int
      OBVIOUS
    <3> QED
      BY <2>2, <3>1, SubSeqProperties
  <2> QED
    BY <2>1, <2>3
<1>6. TornTail(f) = SubSeq(f, l + 1, z)
  BY <1>1, <1>2 DEF TornTail
<1>7. TornTail(f) = <<>> => l = z
  <2> SUFFICES ASSUME TornTail(f) = <<>> PROVE l = z
    OBVIOUS
  <2>1. (IF l + 1 <= z THEN z - l ELSE 0) = 0
    BY <1>5, <1>6
  <2> QED
    BY <1>3, <2>1
<1>8. l = z => TornTail(f) = <<>>
  BY <1>6, SubSeqEmpty
<1>9. l = z => Whole(f)
  <2>1. z = 0 => f = <<>>
    BY <1>1, EmptySeq
  <2>2. l = z /\ l \in Newlines(f) => IsNewline(f[Len(f)])
    BY <1>1 DEF Newlines
  <2> QED
    BY <1>3, <2>1, <2>2 DEF Whole
<1>10. Whole(f) => l = z
  <2>1. f = <<>> => z = 0
    BY <1>1
  <2>2. z > 0 /\ IsNewline(f[z]) => z \in Newlines(f)
    BY <1>4 DEF Newlines
  <2>3. CASE z = 0
    BY <1>3, <2>3
  <2>4. CASE z > 0
    BY <1>1, <1>3, <2>1, <2>2, <2>4 DEF Whole
  <2> QED
    BY <2>3, <2>4
<1> QED
  BY <1>7, <1>8, <1>9, <1>10


(* A replay of whole lines is their ops. *)
LEMMA ReadWhole ==
    ASSUME NEW f \in Seq(Byte), Whole(f)
    PROVE  ReadAll(f) = Ops(f)
<1>1. TornTail(f) = <<>>
  BY TornIff
<1>2. ~Parses(TornTail(f))
  BY <1>1 DEF Parses
<1>3. ReadAll(f) = Ops(f) \o <<>>
  BY <1>2 DEF ReadAll
<1>4. Ops(f) \in Seq(Op)
  BY OpsType
<1> QED
  BY <1>3, <1>4, ConcatEmptySeq

(* A replay gives ops. *)
LEMMA ReadType ==
    ASSUME NEW f \in Seq(Byte)
    PROVE  ReadAll(f) \in Seq(Op)
<1>1. Ops(f) \in Seq(Op) /\ <<>> \in Seq(Op)
  BY OpsType
<1>2. TornTail(f) \in Seq(Byte)
  <2>1. PICK z \in Nat : z = Len(f)
    BY LenProperties
  <2>2. PICK m \in Nat : m = LastNewline(f) + 1
    BY LastLine
  <2>3. \A i \in m..z : f[i] \in Byte
    <3>1. 1 <= m
      BY <2>2, LastLine
    <3> QED
      BY <2>1, <3>1, ElementOfSeq
  <2>4. m \in Int /\ z \in Int
    OBVIOUS
  <2>5. SubSeq(f, m, z) \in Seq(Byte)
    BY <2>3, <2>4, SubSeqProperties
  <2> QED
    BY <2>1, <2>2, <2>5 DEF TornTail
<1>3. Parses(TornTail(f)) => <<TornTail(f)[1][1]>> \in Seq(Op)
  <2> SUFFICES ASSUME Parses(TornTail(f)) PROVE <<TornTail(f)[1][1]>> \in Seq(Op)
    OBVIOUS
  <2>1. PICK g \in Seq(Byte) : g = TornTail(f)
    BY <1>2, Zenon
  <2>2. g # <<>>
    BY <2>1 DEF Parses
  <2>3. g[1] \in Byte
    BY <2>2, EmptySeq, ElementOfSeq
  <2>4. g[1][1] \in Op
    BY <2>3, ByteParts
  <2> QED
    BY <2>1, <2>4
<1> QED
  BY <1>1, <1>3, ConcatProperties DEF ReadAll

LEMMA Prefix ==
    ASSUME NEW f \in Seq(Byte), NEW a \in Nat, a <= Len(f)
    PROVE  /\ SubSeq(f, 1, a) \in Seq(Byte) /\ Len(SubSeq(f, 1, a)) = a
           /\ \A i \in 1..a : SubSeq(f, 1, a)[i] = f[i]
           /\ SubSeq(f, a + 1, Len(f)) \in Seq(Byte) /\ Len(SubSeq(f, a + 1, Len(f))) = Len(f) - a
           /\ \A i \in 1..Len(f) - a : SubSeq(f, a + 1, Len(f))[i] = f[a + i]
<1>1. PICK z \in Nat : z = Len(f)
  BY LenProperties
<1>2. \A i \in 1..z : f[i] \in Byte
  BY <1>1, ElementOfSeq
<1>3. a \in Int /\ z \in Int /\ 1 \in Int /\ a <= z
  BY <1>1
<1>4. \A i \in 1..a : f[i] \in Byte
  BY <1>2, <1>3
<1>5. /\ SubSeq(f, 1, a) \in Seq(Byte) /\ Len(SubSeq(f, 1, a)) = IF 1 <= a THEN a - 1 + 1 ELSE 0
      /\ \A i \in 1..a - 1 + 1 : SubSeq(f, 1, a)[i] = f[1 + i - 1]
  BY <1>3, <1>4, SubSeqProperties
<1>6. PICK m \in Nat : m = a + 1
  OBVIOUS
<1>7. \A i \in m..z : f[i] \in Byte
  BY <1>2, <1>6
<1>8. m \in Int
  OBVIOUS
<1>9. /\ SubSeq(f, m, z) \in Seq(Byte) /\ Len(SubSeq(f, m, z)) = IF m <= z THEN z - m + 1 ELSE 0
      /\ \A i \in 1..z - m + 1 : SubSeq(f, m, z)[i] = f[m + i - 1]
  BY <1>3, <1>7, <1>8, SubSeqProperties
<1>10. PICK p \in Seq(Byte) : p = SubSeq(f, 1, a)
  BY <1>5, Zenon
<1>11. PICK q \in Seq(Byte) : q = SubSeq(f, m, z)
  BY <1>9, Zenon
<1>12. Len(p) = a /\ \A i \in 1..a : p[i] = f[i]
  BY <1>3, <1>5, <1>10
<1>13. Len(q) = z - a
  BY <1>3, <1>6, <1>9, <1>11
<1>14. ASSUME NEW i \in 1..z - a PROVE q[i] = f[a + i]
  <2>1. i \in 1..z - m + 1 /\ m + i - 1 = a + i
    BY <1>6
  <2> QED
    BY <1>9, <1>11, <2>1
<1> QED
  BY <1>1, <1>6, <1>10, <1>11, <1>12, <1>13, <1>14

-----------------------------------------------------------------------------
(* How anchor, memory and file move together. *)

(* resume_session and install: the whole file is folded. *)
LEMMA FoldAll ==
    ASSUME NEW f \in Seq(Byte)
    PROVE  Folding(f, Len(f), ReadAll(f))
<1>1. PICK z \in Nat : z = Len(f)
  BY LenProperties
<1>2. SubSeq(f, 1, z) = f
  BY <1>1, SubSeqFull
<1>3. \A i \in Newlines(f) : i <= z
  BY <1>1, NewlinesPicked
<1>4. Folding(f, z, ReadAll(f))
  <2>1. z <= Len(f)
    BY <1>1
  <2>2. ReadAll(f) = ReadAll(SubSeq(f, 1, z))
    BY <1>2, Zenon
  <2> QED
    BY <1>3, <2>1, <2>2, Zenon DEF Folding
<1> QED
  BY <1>1, <1>4

(* Bytes of someone else arrive: after whole lines, or without a newline. *)
LEMMA FoldForeign ==
    ASSUME NEW f \in Seq(Byte), NEW g \in Seq(Byte), NEW a \in Nat, NEW m, Folding(f, a, m),
           Whole(f) \/ Newlines(g) = {}
    PROVE  Folding(f \o g, a, m)
<1>1. PICK z \in Nat : z = Len(f)
  BY LenProperties
<1>2. PICK y \in Nat : y = Len(g)
  BY LenProperties
<1>3. /\ f \o g \in Seq(Byte) /\ Len(f \o g) = z + y
      /\ \A i \in 1..z + y : (f \o g)[i] = IF i <= z THEN f[i] ELSE g[i - z]
  BY <1>1, <1>2, ConcatProperties
<1>4. PICK h \in Seq(Byte) : h = f \o g
  BY <1>3, Zenon
<1>5. Len(h) = z + y /\ \A i \in 1..z : h[i] = f[i]
  <2>1. \A i \in 1..z : i \in 1..z + y /\ i <= z
    OBVIOUS
  <2> QED
    BY <1>3, <1>4, <2>1
<1>6. a <= z /\ m = ReadAll(SubSeq(f, 1, a))
  BY <1>1 DEF Folding
<1>7. SubSeq(h, 1, a) = SubSeq(f, 1, a)
  <2>1. /\ SubSeq(f, 1, a) \in Seq(Byte) /\ Len(SubSeq(f, 1, a)) = a
        /\ \A i \in 1..a : SubSeq(f, 1, a)[i] = f[i]
    BY <1>1, <1>6, Prefix
  <2>2. a <= Len(h)
    BY <1>5, <1>6
  <2>3. /\ SubSeq(h, 1, a) \in Seq(Byte) /\ Len(SubSeq(h, 1, a)) = a
        /\ \A i \in 1..a : SubSeq(h, 1, a)[i] = h[i]
    BY <2>2, Prefix
  <2>4. \A i \in 1..a : SubSeq(h, 1, a)[i] = SubSeq(f, 1, a)[i]
    BY <1>5, <1>6, <2>1, <2>3
  <2> QED
    BY <2>1, <2>3, <2>4, SeqEqual
<1>8. a = 0 \/ IsNewline(h[a]) \/ \A i \in Newlines(h) : i <= a
  <2>1. CASE a = 0
    BY <2>1
  <2>2. CASE a # 0 /\ IsNewline(f[a])
    BY <1>5, <1>6, <2>2
  <2>3. CASE a # 0 /\ (\A i \in Newlines(f) : i <= a) /\ Whole(f)
    <3>1. f # <<>>
      BY <1>1, <1>6, <2>3
    <3>2. IsNewline(f[z])
      BY <1>1, <2>3, <3>1 DEF Whole
    <3>3. z \in 1..z
      BY <1>6, <2>3
    <3>4. z \in Newlines(f)
      BY <1>1, <3>2, <3>3, LenProperties DEF Newlines
    <3>5. a = z
      BY <1>6, <2>3, <3>4
    <3> QED
      BY <1>5, <3>2, <3>3, <3>5
  <2>4. CASE (\A i \in Newlines(f) : i <= a) /\ Newlines(g) = {}
    <3> SUFFICES ASSUME NEW i \in Newlines(h) PROVE i <= a
      OBVIOUS
    <3>1. i \in 1..z + y /\ IsNewline(h[i])
      BY <1>5, LenProperties DEF Newlines
    <3>2. CASE i <= z
      <4>1. i \in Newlines(f)
        BY <1>1, <1>5, <3>1, <3>2, LenProperties DEF Newlines
      <4> QED
        BY <2>4, <4>1
    <3>3. CASE ~(i <= z)
      <4>1. h[i] = g[i - z]
        BY <1>3, <1>4, <3>1, <3>3
      <4>2. i - z \in 1..y
        BY <3>1, <3>3
      <4>3. i - z \in Newlines(g)
        BY <1>2, <3>1, <4>1, <4>2, LenProperties DEF Newlines
      <4> QED
        BY <2>4, <4>3
    <3> QED
      BY <3>2, <3>3
  <2> QED
    BY <2>1, <2>2, <2>3, <2>4 DEF Folding
<1>9. a <= Len(h)
  BY <1>5, <1>6
<1>10. Folding(h, a, m)
  BY <1>6, <1>7, <1>8, <1>9 DEF Folding
<1> QED
  BY <1>4, <1>10


(* record_op at the end of whole lines: the op is folded before it lands. *)
LEMMA FoldOwn ==
    ASSUME NEW f \in Seq(Byte), NEW o \in Op, NEW m, Whole(f), Folding(f, Len(f), m)
    PROVE  Folding(f \o Record(o), Len(f) + RecordLen[o], Append(m, o))
<1>1. PICK r \in Seq(Byte) : r = Record(o)
  BY RecordLine
<1>2. PICK k \in Nat : k = RecordLen[o]
  BY OpConstants
<1>3. 2 <= k /\ Len(r) = k /\ Ops(r) = <<o>>
  BY <1>1, <1>2, OpConstants, RecordLine, OpsRecord
<1>4. IsNewline(r[k])
  <2>1. Whole(r) /\ r # <<>>
    BY <1>1, OpsRecord
  <2> QED
    BY <1>3, <2>1 DEF Whole
<1>5. PICK z \in Nat : z = Len(f)
  BY LenProperties
<1>6. /\ f \o r \in Seq(Byte) /\ Len(f \o r) = z + k
      /\ \A i \in 1..z + k : (f \o r)[i] = IF i <= z THEN f[i] ELSE r[i - z]
  BY <1>3, <1>5, ConcatProperties
<1>7. PICK h \in Seq(Byte) : h = f \o r
  BY <1>6, Zenon
<1>8. Whole(h)
  <2>1. z + k \in 1..z + k /\ ~(z + k <= z) /\ (z + k) - z = k
    BY <1>3
  <2>2. h[z + k] = r[k]
    BY <1>6, <1>7, <2>1
  <2> QED
    BY <1>4, <1>6, <1>7, <2>2 DEF Whole
<1>9. m = Ops(f)
  <2>1. m = ReadAll(SubSeq(f, 1, Len(f)))
    BY DEF Folding
  <2> QED
    BY <2>1, SubSeqFull, ReadWhole
<1>10. ReadAll(h) = Append(m, o)
  <2>1. Ops(h) = Ops(f) \o <<o>>
    BY <1>3, <1>7, OpsConcat
  <2>2. m \in Seq(Op)
    BY <1>9, OpsType
  <2>3. Append(m, o) = m \o <<o>>
    BY <2>2, AppendIsConcat
  <2> QED
    BY <1>8, <1>9, <2>1, <2>3, ReadWhole
<1>11. Folding(h, Len(h), Append(m, o))
  BY <1>10, FoldAll
<1> QED
  BY <1>1, <1>2, <1>5, <1>6, <1>7, <1>11

(* drain_foreign_ops consumes bytes there are, and gives ops. *)
LEMMA DrainType ==
    ASSUME NEW f \in Seq(Byte), NEW a \in Nat, a <= Len(f)
    PROVE  /\ Drain(f, a).consumed \in Nat /\ a + Drain(f, a).consumed <= Len(f)
           /\ Drain(f, a).ops = Ops(SubSeq(SubSeq(f, a + 1, Len(f)), 1, Drain(f, a).consumed))
           /\ Drain(f, a).ops \in Seq(Op)
           /\ \/ Drain(f, a).consumed = 0
              \/ Drain(f, a).consumed \in Newlines(SubSeq(f, a + 1, Len(f)))
<1>1. PICK raw \in Seq(Byte) : raw = SubSeq(f, a + 1, Len(f))
  BY Prefix
<1>2. Len(raw) = Len(f) - a
  BY <1>1, Prefix
<1> DEFINE good == {e \in Newlines(raw) : \A n \in Newlines(raw) : n <= e => Parses(Body(raw, n))}
           c == Max(good \cup {0})
<1>3. Drain(f, a) = [ops |-> Ops(SubSeq(raw, 1, c)), consumed |-> c]
  BY <1>1 DEF Drain
<1>4. good \subseteq Newlines(raw)
  OBVIOUS
<1> HIDE DEF good
<1>5. /\ Newlines(raw) \subseteq 1..Len(raw) /\ Newlines(raw) \subseteq Nat
      /\ IsFiniteSet(Newlines(raw))
  BY NewlinesPicked
<1>6. IsFiniteSet(good)
  BY <1>4, <1>5, FS_Subset
<1>7. IsFiniteSet(good \cup {0})
  BY <1>6, FS_AddElement
<1>8. good \cup {0} \subseteq Nat /\ good \cup {0} # {}
  BY <1>4, <1>5
<1>9. c \in good \cup {0}
  BY <1>7, <1>8, NatMax
<1> HIDE DEF c
<1>10. PICK z \in Nat : z = Len(f)
  BY LenProperties
<1>11. PICK y \in Nat : y = Len(raw)
  BY LenProperties
<1>12. y = z - a /\ (c = 0 \/ c \in 1..y)
  BY <1>2, <1>4, <1>5, <1>9, <1>10, <1>11
<1>13. c \in Nat /\ a + c <= z /\ c <= y
  BY <1>8, <1>9, <1>10, <1>12
<1>14. Ops(SubSeq(raw, 1, c)) \in Seq(Op)
  <2>1. c <= Len(raw)
    BY <1>11, <1>13
  <2>2. SubSeq(raw, 1, c) \in Seq(Byte)
    BY <1>13, <2>1, Prefix
  <2> QED
    BY <2>2, OpsType
<1>15. c = 0 \/ c \in Newlines(raw)
  BY <1>4, <1>9
<1>16. Drain(f, a).consumed = c /\ Drain(f, a).ops = Ops(SubSeq(raw, 1, c))
  BY <1>3
<1> QED
  BY <1>1, <1>10, <1>13, <1>14, <1>15, <1>16

(* drain_foreign_ops: what it folds is what lies between the two anchors. *)
LEMMA FoldDrain ==
    ASSUME NEW f \in Seq(Byte), NEW a \in Nat, NEW m, Folding(f, a, m)
    PROVE  Folding(f, a + Drain(f, a).consumed, m \o Drain(f, a).ops)
<1>1. a <= Len(f)
  BY DEF Folding
<1>2. PICK c \in Nat : c = Drain(f, a).consumed
  BY <1>1, DrainType
<1>3. PICK raw \in Seq(Byte) : raw = SubSeq(f, a + 1, Len(f))
  BY <1>1, Prefix
<1>4. PICK z \in Nat : z = Len(f)
  BY LenProperties
<1>5. /\ a + c <= z /\ Drain(f, a).ops = Ops(SubSeq(raw, 1, c))
      /\ c = 0 \/ c \in Newlines(raw)
  BY <1>1, <1>2, <1>3, <1>4, DrainType
<1>6. Len(raw) = z - a /\ \A i \in 1..z - a : raw[i] = f[a + i]
  BY <1>1, <1>3, <1>4, Prefix
<1>7. PICK p \in Seq(Byte) : p = SubSeq(f, 1, a)
  BY <1>1, Prefix
<1>8. Len(p) = a /\ (\A i \in 1..a : p[i] = f[i]) /\ m = ReadAll(p)
  BY <1>1, <1>7, Prefix DEF Folding
<1>9. c <= Len(raw)
  BY <1>4, <1>5, <1>6
<1>10. PICK q \in Seq(Byte) : q = SubSeq(raw, 1, c)
  BY <1>9, Prefix
<1>11. Len(q) = c /\ \A i \in 1..c : q[i] = raw[i]
  BY <1>9, <1>10, Prefix
<1>12. CASE c = 0
  <2>1. q = <<>>
    BY <1>11, <1>12, EmptySeq
  <2>2. Newlines(q) = {}
    BY <2>1 DEF Newlines
  <2>3. Ops(q) = <<>>
    BY <2>2, OpsNone
  <2>4. m \in Seq(Op)
    BY <1>8, ReadType
  <2>5. m \o Drain(f, a).ops = m
    BY <1>5, <1>10, <2>3, <2>4, ConcatEmptySeq
  <2>6. a + c = a
    BY <1>12
  <2> QED
    BY <1>2, <2>5, <2>6
<1>13. CASE c # 0
  <2>1. c \in 1..c /\ c \in 1..z - a /\ c > 0
    BY <1>5, <1>13
  <2>2. IsNewline(f[a + c])
    <3>1. IsNewline(raw[c])
      BY <1>5, <1>13 DEF Newlines
    <3> QED
      BY <1>6, <2>1, <3>1
  <2>3. a + c \in Newlines(f)
    <3>1. a + c \in 1..z
      BY <1>5, <2>1
    <3> QED
      BY <1>4, <2>2, <3>1, LenProperties DEF Newlines
  <2>4. a = 0 \/ IsNewline(f[a])
    <3>1. ~(a + c <= a)
      BY <2>1
    <3> QED
      BY <2>3, <3>1 DEF Folding
  <2>5. Whole(p)
    <3>1. CASE a = 0
      BY <1>8, <3>1, EmptySeq DEF Whole
    <3>2. CASE a # 0 /\ IsNewline(f[a])
      <4>1. a \in 1..a
        BY <3>2
      <4> QED
        BY <1>8, <3>2, <4>1 DEF Whole
    <3> QED
      BY <2>4, <3>1, <3>2
  <2>6. /\ p \o q \in Seq(Byte) /\ Len(p \o q) = a + c
        /\ \A i \in 1..a + c : (p \o q)[i] = IF i <= a THEN p[i] ELSE q[i - a]
    BY <1>8, <1>11, ConcatProperties
  <2>7. PICK h \in Seq(Byte) : h = p \o q
    BY <2>6, Zenon
  <2>8. PICK b \in Nat : b = a + c
    OBVIOUS
  <2>9. Len(h) = b /\ \A i \in 1..b : h[i] = f[i]
    <3> SUFFICES ASSUME NEW i \in 1..b PROVE h[i] = f[i]
      BY <2>6, <2>7, <2>8
    <3>1. CASE i <= a
      BY <1>8, <2>6, <2>7, <2>8, <3>1
    <3>2. CASE ~(i <= a)
      <4>1. PICK j \in 1..c : j = i - a
        BY <2>8, <3>2
      <4>2. j \in 1..z - a /\ a + j = i
        BY <1>5, <2>8, <4>1
      <4>3. h[i] = q[j]
        BY <2>6, <2>7, <2>8, <3>2, <4>1
      <4> QED
        BY <1>6, <1>11, <4>2, <4>3
    <3> QED
      BY <3>1, <3>2
  <2>10. SubSeq(f, 1, b) = h
    <3>1. b <= Len(f)
      BY <1>4, <1>5, <2>8
    <3>2. /\ SubSeq(f, 1, b) \in Seq(Byte) /\ Len(SubSeq(f, 1, b)) = b
          /\ \A i \in 1..b : SubSeq(f, 1, b)[i] = f[i]
      BY <3>1, Prefix
    <3> QED
      BY <2>9, <3>2, SeqEqual
  <2>11. Whole(h)
    <3>1. b \in 1..b
      BY <2>1, <2>8
    <3> QED
      BY <2>2, <2>8, <2>9, <3>1 DEF Whole
  <2>12. ReadAll(h) = m \o Ops(q)
    BY <1>8, <2>5, <2>7, <2>11, OpsConcat, ReadWhole, ZenonT(40)
  <2>13. Folding(f, b, m \o Ops(q))
    BY <1>4, <1>5, <2>2, <2>8, <2>10, <2>12 DEF Folding
  <2> QED
    BY <1>2, <1>5, <1>10, <2>8, <2>13
<1> QED
  BY <1>12, <1>13


-----------------------------------------------------------------------------
(***************************************************************************)
(* The inductive invariant.  MemoryIsPrefix alone is not inductive: a      *)
(* memory that replays the file up to an anchor in the middle of a line    *)
(* would be wrong once the rest of that line is drained.  Folding adds     *)
(* that the anchor is at the end of a line, or nothing it could drain      *)
(* follows.                                                                *)
(***************************************************************************)
FoldsHeld ==
    \A n \in Node : phase[n] \in Resident /\ skew[n] = {} => Folding(file, anchor[n], mem[n])

\* A pass that is under way belongs to a session that was not told to stop.
StopsHeld == \A n \in Node : truncated[n] => driver[n] # "checked"

FollowInv == FollowTypeOK /\ FoldsHeld /\ StopsHeld

LEMMA FollowConstants ==
    /\ MaxTurns \in Nat /\ MaxSteps \in Nat /\ MaxResumes \in Nat /\ MaxNodeCrashes \in Nat
    /\ MaxAppendErrors \in Nat /\ MaxRebuilds \in Nat /\ MaxFaults \in Nat /\ MaxOps \in Nat
  BY FollowAssumption, MaxOpsAssumption

LEMMA NodeOpType ==
    ASSUME nextOp \in 1..MaxOps + 1, nextOp <= MaxOps, NEW kind \in Kinds
    PROVE  NodeOp(kind) \in Op
<1>1. nextOp \in 1..MaxOps
  BY MaxOpsAssumption
<1> QED
  BY <1>1 DEF NodeOp, Op

LEMMA FollowInvInit == FollowInit => FollowInv
<1> SUFFICES ASSUME FollowInit PROVE FollowInv
  OBVIOUS
<1>1. FollowTypeOK
  <2>1. file \in Seq(Byte)
    BY EmptySeq DEF FollowInit
  <2>2. /\ nextOp \in 1..MaxOps + 1 /\ turns \in 0..MaxTurns /\ steps \in 0..MaxSteps
        /\ resumes \in 0..MaxResumes /\ nodeCrashes \in 0..MaxNodeCrashes
        /\ appendErrors \in 0..MaxAppendErrors /\ rebuilds \in 0..MaxRebuilds
    BY FollowConstants DEF FollowInit
  <2>3. /\ phase \in [Node -> Phases] /\ truncated \in [Node -> BOOLEAN]
        /\ driver \in [Node -> {"off", "waiting", "checked"}] /\ skew \in [Node -> SUBSET Skews]
    BY DEF FollowInit, Phases
  <2>4. anchor \in [Node -> Nat]
    BY DEF FollowInit
  <2>5. mem \in [Node -> Seq(Op)]
    <3>1. <<>> \in Seq(Op)
      BY EmptySeq
    <3> QED
      BY <3>1 DEF FollowInit
  <2> QED
    BY <2>1, <2>2, <2>3, <2>4, <2>5 DEF FollowTypeOK
<1>2. FoldsHeld
  <2> SUFFICES ASSUME NEW n \in Node PROVE Folding(file, anchor[n], mem[n])
    BY DEF FoldsHeld
  <2>1. file = <<>> /\ anchor[n] = 0 /\ mem[n] = <<>>
    BY DEF FollowInit
  <2>2. PICK f \in Seq(Byte) : f = <<>>
    BY EmptySeq
  <2>3. Len(f) = 0 /\ Newlines(f) = {} /\ Whole(f)
    BY <2>2 DEF Newlines, Whole
  <2>4. ReadAll(f) = <<>>
    BY <2>3, ReadWhole, OpsNone
  <2>5. Folding(f, 0, <<>>)
    BY <2>3, <2>4, FoldAll
  <2> QED
    BY <2>1, <2>2, <2>5
<1>3. StopsHeld
  BY DEF FollowInit, StopsHeld
<1> QED
  BY <1>1, <1>2, <1>3 DEF FollowInv

(* record_op keeps the invariant, whatever the rest of the action does. *)
LEMMA RecordKeeps ==
    ASSUME FollowInv, NEW n \in Node, NEW o \in Op, record_op(n, o), phase' \in [Node -> Phases],
           \A m \in Node : phase'[m] \in Resident => phase[m] \in Resident,
           turns' \in 0..MaxTurns, steps' \in 0..MaxSteps
    PROVE  FollowInv'
<1>1. FollowTypeOK
  BY DEF FollowInv
<1>2. PICK f \in Seq(Byte) : f = file
  BY <1>1, Zenon DEF FollowTypeOK
<1>4. nextOp' \in 1..MaxOps + 1
  BY <1>1, FollowConstants DEF FollowTypeOK, record_op
<1>5. PICK r \in Seq(Byte) : r = Record(o)
  BY RecordLine
<1>6. PICK k \in Nat : k = RecordLen[o]
  BY OpConstants
<1>7. f \o r \in Seq(Byte) /\ f \o r # f
  <2>1. r # <<>>
    BY <1>5, OpsRecord
  <2> QED
    BY <2>1, ConcatProperties, ConcatEqualIffEmpty
<1>8. mem' \in [Node -> Seq(Op)] /\ mem'[n] = Append(mem[n], o)
      /\ \A m \in Node \ {n} : mem'[m] = mem[m]
  <2>1. mem \in [Node -> Seq(Op)] /\ mem' = [mem EXCEPT ![n] = Append(@, o)]
    BY <1>1 DEF FollowTypeOK, record_op
  <2>2. Append(mem[n], o) \in Seq(Op)
    BY <2>1, AppendProperties
  <2> QED
    BY <2>1, <2>2
<1>9. PICK why \in SUBSET {"raced", "failed"} :
        /\ \/ /\ file' = file \o Record(o) /\ anchor' = OwnAdvance(n, o)
              /\ why = IF anchor[n] = Len(file) THEN {} ELSE {"raced"}
              /\ UNCHANGED appendErrors
           \/ /\ MoreFaults /\ appendErrors < MaxAppendErrors /\ appendErrors' = appendErrors + 1 /\ why = {"failed"}
              /\ file' \in {file, file \o Record(o)}
              /\ UNCHANGED anchor
        /\ skew' = [m \in Node |-> skew[m]
                        \cup (IF m = n THEN why ELSE {})
                        \cup (IF file' # file /\ TornTail(file) # <<>>
                              THEN {"spliced"} ELSE {})]
  BY Zenon DEF record_op
<1>10. UNCHANGED <<truncated, driver, resumes, nodeCrashes, rebuilds>>
  BY DEF record_op
<1>11. file' = f \/ file' = f \o r
  BY <1>2, <1>5, <1>9
<1>12. file' \in Seq(Byte)
  BY <1>7, <1>11
<1>13. \/ anchor' = anchor /\ why = {"failed"}
       \/ /\ anchor' = [anchor EXCEPT ![n] = @ + k] /\ file' = f \o r
          /\ why = {} => anchor[n] = Len(f)
  BY <1>2, <1>5, <1>6, <1>9 DEF OwnAdvance
<1>14. anchor' \in [Node -> Nat] /\ \A m \in Node \ {n} : anchor'[m] = anchor[m]
  <2>1. anchor \in [Node -> Nat]
    BY <1>1 DEF FollowTypeOK
  <2>2. PICK a \in Nat : a = anchor[n] + k
    BY <2>1
  <2>3. anchor' = anchor \/ anchor' = [anchor EXCEPT ![n] = a]
    BY <1>13, <2>2
  <2>4. CASE anchor' = anchor
    BY <2>1, <2>4
  <2>5. CASE anchor' = [anchor EXCEPT ![n] = a]
    BY <2>1, <2>5
  <2> QED
    BY <2>3, <2>4, <2>5
<1>15. appendErrors' \in 0..MaxAppendErrors
  BY <1>1, <1>9, FollowConstants DEF FollowTypeOK
<1>16. skew' \in [Node -> SUBSET Skews]
  BY <1>1, <1>9 DEF FollowTypeOK, Skews
<1>17. FollowTypeOK'
  BY <1>1, <1>4, <1>8, <1>10, <1>12, <1>14, <1>15, <1>16 DEF FollowTypeOK
<1>18. StopsHeld'
  BY <1>10 DEF FollowInv, StopsHeld
<1>19. ASSUME NEW m \in Node, phase'[m] \in Resident, skew'[m] = {}
       PROVE  Folding(file', anchor'[m], mem'[m])
  <2>1. /\ skew[m] = {} /\ (m = n => why = {})
        /\ file' = f \/ TornTail(f) = <<>>
    BY <1>2, <1>9, <1>19
  <2>2. Folding(f, anchor[m], mem[m]) /\ anchor[m] \in Nat
    <3>1. phase[m] \in Resident
      BY <1>19
    <3> QED
      BY <1>1, <1>2, <2>1, <3>1 DEF FollowInv, FoldsHeld, FollowTypeOK
  <2>3. CASE m # n
    <3>1. anchor'[m] = anchor[m] /\ mem'[m] = mem[m]
      BY <1>8, <1>14, <2>3
    <3>2. CASE file' = f
      BY <2>2, <3>1, <3>2
    <3>3. CASE file' = f \o r /\ TornTail(f) = <<>>
      <4>1. Whole(f)
        BY <3>3, TornIff
      <4>2. Folding(f \o r, anchor[m], mem[m])
        BY <2>2, <4>1, FoldForeign
      <4> QED
        BY <3>1, <3>3, <4>2
    <3> QED
      BY <1>11, <2>1, <3>2, <3>3
  <2>4. CASE m = n
    <3>1. /\ anchor' = [anchor EXCEPT ![n] = @ + k] /\ file' = f \o r
          /\ anchor[n] = Len(f)
      BY <1>13, <2>1, <2>4
    <3>2. Whole(f)
      BY <1>7, <2>1, <3>1, TornIff
    <3>3. Folding(f \o r, Len(f) + k, Append(mem[n], o))
      BY <1>5, <1>6, <2>2, <2>4, <3>1, <3>2, FoldOwn
    <3>4. anchor'[n] = Len(f) + k
      BY <1>1, <3>1 DEF FollowTypeOK
    <3> QED
      BY <1>8, <2>4, <3>1, <3>3, <3>4
  <2> QED
    BY <2>3, <2>4
<1>20. FoldsHeld'
  BY <1>19 DEF FoldsHeld
<1> QED
  BY <1>17, <1>18, <1>20 DEF FollowInv

LEMMA GotoStep ==
    ASSUME FollowTypeOK, NEW n \in Node, NEW from, NEW to \in Phases, Goto(n, from, to)
    PROVE  /\ phase' \in [Node -> Phases] /\ phase[n] = from /\ phase'[n] = to
           /\ \A m \in Node \ {n} : phase'[m] = phase[m]
           /\ from \in Resident => \A m \in Node : phase'[m] \in Resident => phase[m] \in Resident
  BY DEF FollowTypeOK, Goto


LEMMA FollowStep == FollowInv /\ [FollowNext]_followVars => FollowInv'
<1> SUFFICES ASSUME FollowInv, [FollowNext]_followVars PROVE FollowInv'
  OBVIOUS
<1>1. FollowTypeOK /\ FoldsHeld /\ StopsHeld
  BY DEF FollowInv
<1>2. ASSUME NEW n \in Node, Fence(n) PROVE FollowInv'
  <2>1. phase' \in [Node -> Phases] /\ \A m \in Node : phase'[m] \in Resident => phase[m] \in Resident
    BY <1>1, <1>2, GotoStep DEF Fence, Phases, Resident
  <2>2. FollowTypeOK'
    BY <1>1, <1>2, <2>1, FollowConstants DEF FollowTypeOK, Fence
  <2> QED
    BY <1>1, <1>2, <2>1, <2>2 DEF FollowInv, FoldsHeld, StopsHeld, Fence
<1>3. ASSUME NEW n \in Node, Turn(n) PROVE FollowInv'
  <2>1. turns \in 0..MaxTurns /\ steps \in 0..MaxSteps
    BY <1>1 DEF FollowTypeOK
  <2>2. CASE RecordPrompt(n) \/ RecordMessage(n) \/ RecordEnd(n)
    <3>1. /\ phase' \in [Node -> Phases]
          /\ \A m \in Node : phase'[m] \in Resident => phase[m] \in Resident
      BY <1>1, <2>2, GotoStep DEF RecordPrompt, RecordMessage, RecordEnd, Phases, Resident
    <3>2. PICK kind \in Kinds : record_op(n, NodeOp(kind)) /\ UNCHANGED <<turns, steps>>
      BY <2>2 DEF RecordPrompt, RecordMessage, RecordEnd, Kinds
    <3>3. NodeOp(kind) \in Op
      BY <1>1, <3>2, NodeOpType DEF FollowTypeOK, record_op
    <3> QED
      BY <2>1, <3>1, <3>2, <3>3, RecordKeeps
  <2>3. CASE RecordStep(n)
    <3>1. /\ phase' \in [Node -> Phases]
          /\ \A m \in Node : phase'[m] \in Resident => phase[m] \in Resident
      BY <1>1, <2>3, GotoStep DEF RecordStep, Phases, Resident
    <3>2. /\ record_op(n, NodeOp("event")) /\ "event" \in Kinds
          /\ turns' \in 0..MaxTurns /\ steps' \in 0..MaxSteps
      BY <2>1, <2>3, FollowConstants DEF RecordStep, Kinds
    <3>3. NodeOp("event") \in Op
      BY <1>1, <3>2, NodeOpType DEF FollowTypeOK, record_op
    <3> QED
      BY <3>1, <3>2, <3>3, RecordKeeps
  <2>4. CASE Guard(n) \/ LastStep(n)
    <3>1. /\ phase' \in [Node -> Phases]
          /\ \A m \in Node : phase'[m] \in Resident => phase[m] \in Resident
      BY <1>1, <2>4, GotoStep DEF Guard, LastStep, Phases, Resident
    <3>2. UNCHANGED <<file, anchor, mem, truncated, driver, nextOp, turns, steps, resumes,
                      nodeCrashes, appendErrors, rebuilds, skew>>
      BY <2>4 DEF Guard, LastStep, followBounds
    <3>3. FollowTypeOK'
      BY <1>1, <3>1, <3>2 DEF FollowTypeOK
    <3> QED
      BY <1>1, <3>1, <3>2, <3>3 DEF FollowInv, FoldsHeld, StopsHeld
  <2> QED
    BY <1>3, <2>2, <2>3, <2>4 DEF Turn
<1>4. ASSUME NEW n \in Node, PassBegin(n) PROVE FollowInv'
  <2>1. UNCHANGED <<file, phase, anchor, mem, truncated, nextOp, turns, steps, resumes,
                    nodeCrashes, appendErrors, rebuilds, skew>>
    BY <1>4 DEF PassBegin, followBounds
  <2>2. driver' = [driver EXCEPT ![n] = IF FollowGoesOn(n) THEN "checked" ELSE "off"]
    BY <1>4 DEF PassBegin
  <2>3. FollowTypeOK'
    BY <1>1, <2>1, <2>2 DEF FollowTypeOK
  <2>4. StopsHeld'
    BY <1>1, <2>1, <2>2 DEF FollowTypeOK, StopsHeld, FollowGoesOn
  <2> QED
    BY <1>1, <2>1, <2>3, <2>4 DEF FollowInv, FoldsHeld
<1>5. ASSUME NEW n \in Node, Absorb(n) PROVE FollowInv'
  <2>1. UNCHANGED <<file, phase, nextOp, turns, steps, resumes, nodeCrashes, appendErrors, rebuilds, skew>>
    BY <1>5 DEF Absorb, followBounds
  <2>2. driver' = [driver EXCEPT ![n] = "waiting"]
    BY <1>5 DEF Absorb
  <2>3. PICK f \in Seq(Byte) : f = file
    BY <1>1, Zenon DEF FollowTypeOK
  <2>4. PICK z \in Nat : z = Len(f)
    BY LenProperties
  <2>5. anchor \in [Node -> Nat] /\ mem \in [Node -> Seq(Op)] /\ truncated \in [Node -> BOOLEAN]
        /\ driver \in [Node -> {"off", "waiting", "checked"}]
    BY <1>1 DEF FollowTypeOK
  <2>6. CASE check_version(n) = "Truncated"
    <3>1. /\ anchor' = [anchor EXCEPT ![n] = 0] /\ mem' = mem
          /\ truncated' = [truncated EXCEPT ![n] = TRUE]
      BY <1>5, <2>6 DEF Absorb
    <3>2. anchor[n] > Len(f)
      BY <2>3, <2>4, <2>5, <2>6 DEF check_version
    <3>3. FollowTypeOK'
      BY <1>1, <2>1, <2>2, <3>1 DEF FollowTypeOK
    <3>4. StopsHeld'
      BY <1>1, <2>2, <2>5, <3>1 DEF StopsHeld
    <3>5. FoldsHeld'
      <4> SUFFICES ASSUME NEW m \in Node, phase[m] \in Resident, skew[m] = {}
                   PROVE  Folding(file, anchor'[m], mem[m])
        BY <2>1, <3>1 DEF FoldsHeld
      <4>1. Folding(f, anchor[m], mem[m])
        BY <1>1, <2>3 DEF FoldsHeld
      <4>2. m # n
        BY <2>4, <2>5, <3>2, <4>1 DEF Folding
      <4> QED
        BY <2>3, <2>5, <3>1, <4>1, <4>2
    <3> QED
      BY <3>3, <3>4, <3>5 DEF FollowInv
  <2>7. CASE check_version(n) # "Truncated"
    <3>1. PICK a \in Nat : a = anchor[n]
      BY <2>5
    <3>2. a <= Len(f)
      BY <2>3, <2>4, <2>7, <3>1 DEF check_version
    <3>3. PICK c \in Nat : c = Drain(f, a).consumed
      BY <3>2, DrainType
    <3>4. PICK s \in Seq(Op) : s = Drain(f, a).ops
      BY <3>2, DrainType
    <3>5. PICK b \in Nat : b = a + c
      OBVIOUS
    <3>6. PICK g \in Seq(Op) : g = mem[n] \o s
      BY <2>5, ConcatProperties
    <3>7. /\ mem' = [mem EXCEPT ![n] = g] /\ anchor' = [anchor EXCEPT ![n] = b]
          /\ truncated' = truncated
      BY <1>5, <2>3, <2>7, <3>1, <3>3, <3>4, <3>5, <3>6 DEF Absorb, Absorbed
    <3>8. FollowTypeOK'
      BY <1>1, <2>1, <2>2, <3>7 DEF FollowTypeOK
    <3>9. StopsHeld'
      BY <1>1, <2>2, <2>5, <3>7 DEF StopsHeld
    <3>10. FoldsHeld'
      <4> SUFFICES ASSUME NEW m \in Node, phase[m] \in Resident, skew[m] = {}
                   PROVE  Folding(file, anchor'[m], mem'[m])
        BY <2>1 DEF FoldsHeld
      <4>1. Folding(f, anchor[m], mem[m])
        BY <1>1, <2>3 DEF FoldsHeld
      <4>2. CASE m # n
        BY <2>3, <2>5, <3>7, <4>1, <4>2
      <4>3. CASE m = n
        <5>1. Folding(f, b, g)
          BY <3>1, <3>3, <3>4, <3>5, <3>6, <4>1, <4>3, FoldDrain
        <5> QED
          BY <2>3, <2>5, <3>7, <4>3, <5>1
      <4> QED
        BY <4>2, <4>3
    <3> QED
      BY <3>8, <3>9, <3>10 DEF FollowInv
  <2> QED
    BY <2>6, <2>7
<1>6. ASSUME NEW n \in Node, CloseAt(n) PROVE FollowInv'
  <2>1. /\ phase' \in [Node -> Phases]
        /\ \A m \in Node : phase'[m] \in Resident => phase[m] \in Resident
    BY <1>1, <1>6, GotoStep DEF CloseAt, Phases, Resident
  <2>2. UNCHANGED <<file, anchor, mem, truncated, nextOp, turns, steps, resumes,
                    nodeCrashes, appendErrors, rebuilds, skew>>
    BY <1>6 DEF CloseAt, followBounds
  <2>3. driver' = [driver EXCEPT ![n] = IF @ = "checked" THEN "waiting" ELSE @]
    BY <1>6 DEF CloseAt
  <2>4. FollowTypeOK'
    BY <1>1, <2>1, <2>2, <2>3 DEF FollowTypeOK
  <2>5. StopsHeld'
    BY <1>1, <2>2, <2>3 DEF FollowTypeOK, StopsHeld
  <2> QED
    BY <1>1, <2>1, <2>2, <2>4, <2>5 DEF FollowInv, FoldsHeld
<1>7. ASSUME NEW n \in Node, CrashAt(n) PROVE FollowInv'
  <2>1. /\ phase' = [phase EXCEPT ![n] = "closed"] /\ driver' = [driver EXCEPT ![n] = "off"]
        /\ nodeCrashes' \in 0..MaxNodeCrashes
        /\ UNCHANGED <<anchor, mem, truncated, turns, steps, resumes, appendErrors, rebuilds, skew>>
    BY <1>1, <1>7, FollowConstants DEF CrashAt, FollowTypeOK
  <2>2. PICK f \in Seq(Byte) : f = file
    BY <1>1, Zenon DEF FollowTypeOK
  <2>3. \/ file' = f /\ nextOp' = nextOp
        \/ /\ nextOp' \in 1..MaxOps + 1
           /\ \E g \in Seq(Byte) : Newlines(g) = {} /\ file' = f \o g
    <3>1. CASE UNCHANGED <<file, nextOp>>
      BY <2>2, <3>1
    <3>2. CASE /\ nextOp <= MaxOps /\ nextOp' = nextOp + 1
               /\ \E o \in {NodeOp("prompt"), NodeOp("event")} :
                    \E k \in 1..RecordLen[o] - 1 : file' = file \o SubSeq(Record(o), 1, k)
      <4>1. nextOp' \in 1..MaxOps + 1 /\ nextOp \in 1..MaxOps + 1
        BY <1>1, <3>2, FollowConstants DEF FollowTypeOK
      <4>2. PICK o \in {NodeOp("prompt"), NodeOp("event")} :
                    \E k \in 1..RecordLen[o] - 1 : file' = file \o SubSeq(Record(o), 1, k)
        BY <3>2
      <4>3. o \in Op
        BY <3>2, <4>1, <4>2, NodeOpType DEF Kinds
      <4>4. PICK k \in 1..RecordLen[o] - 1 : file' = file \o SubSeq(Record(o), 1, k)
        BY <4>2
      <4>5. SubSeq(Record(o), 1, k) \in Seq(Byte) /\ Newlines(SubSeq(Record(o), 1, k)) = {}
        BY <4>3, OpsRecord
      <4> QED
        BY <2>2, <4>1, <4>4, <4>5
    <3> QED
      BY <1>7, <3>1, <3>2 DEF CrashAt
  <2>4. file' \in Seq(Byte) /\ nextOp' \in 1..MaxOps + 1
    <3>1. nextOp \in 1..MaxOps + 1
      BY <1>1 DEF FollowTypeOK
    <3> QED
      BY <2>3, <3>1, ConcatProperties
  <2>5. FollowTypeOK'
    BY <1>1, <2>1, <2>4 DEF FollowTypeOK, Phases
  <2>6. StopsHeld'
    BY <1>1, <2>1 DEF FollowTypeOK, StopsHeld
  <2>7. FoldsHeld'
    <3> SUFFICES ASSUME NEW m \in Node, phase'[m] \in Resident, skew[m] = {}
                 PROVE  Folding(file', anchor[m], mem[m])
      BY <2>1 DEF FoldsHeld
    <3>1. phase[m] \in Resident
      BY <1>1, <2>1 DEF FollowTypeOK, Resident, Phases
    <3>2. Folding(f, anchor[m], mem[m]) /\ anchor[m] \in Nat
      BY <1>1, <2>2, <3>1 DEF FoldsHeld, FollowTypeOK
    <3> QED
      BY <2>3, <3>2, FoldForeign
  <2> QED
    BY <2>5, <2>6, <2>7 DEF FollowInv
<1>8. ASSUME NEW n \in Node, Replay(n) PROVE FollowInv'
  <2>1. /\ phase' \in [Node -> Phases] /\ phase'[n] = "replayed"
        /\ \A m \in Node \ {n} : phase'[m] = phase[m]
    BY <1>1, <1>8, GotoStep DEF Replay, Phases
  <2>2. UNCHANGED <<file, anchor, truncated, driver, nextOp, turns, steps, nodeCrashes,
                    appendErrors, rebuilds, skew>> /\ resumes' \in 0..MaxResumes
    BY <1>1, <1>8, FollowConstants DEF Replay, FollowTypeOK
  <2>3. PICK f \in Seq(Byte) : f = file
    BY <1>1, Zenon DEF FollowTypeOK
  <2>4. PICK g \in Seq(Op) : g = ReadAll(f)
    BY ReadType
  <2>5. mem' = [mem EXCEPT ![n] = g] /\ mem \in [Node -> Seq(Op)]
    BY <1>1, <1>8, <2>3, <2>4 DEF Replay, FollowTypeOK
  <2>6. FollowTypeOK'
    BY <1>1, <2>1, <2>2, <2>5 DEF FollowTypeOK
  <2>7. FoldsHeld'
    <3> SUFFICES ASSUME NEW m \in Node, phase'[m] \in Resident, skew[m] = {}
                 PROVE  Folding(file, anchor[m], mem'[m])
      BY <2>2 DEF FoldsHeld
    <3>1. m # n
      BY <2>1 DEF Resident
    <3>2. phase[m] \in Resident /\ mem'[m] = mem[m]
      BY <2>1, <2>5, <3>1
    <3> QED
      BY <1>1, <3>2 DEF FoldsHeld
  <2> QED
    BY <1>1, <2>2, <2>6, <2>7 DEF FollowInv, StopsHeld
<1>9. ASSUME NEW n \in Node, Install(n) PROVE FollowInv'
  <2>1. /\ phase' \in [Node -> Phases] /\ \A m \in Node \ {n} : phase'[m] = phase[m]
    BY <1>1, <1>9, GotoStep DEF Install, Phases
  <2>2. PICK f \in Seq(Byte) : f = file
    BY <1>1, Zenon DEF FollowTypeOK
  <2>3. PICK z \in Nat : z = Len(f)
    BY LenProperties
  <2>4. /\ anchor' = [anchor EXCEPT ![n] = z] /\ truncated' = [truncated EXCEPT ![n] = FALSE]
        /\ driver' = [driver EXCEPT ![n] = "waiting"]
        /\ skew' = [skew EXCEPT ![n] = IF mem[n] = ReadAll(f) THEN {} ELSE {"resumed"}]
        /\ UNCHANGED <<file, mem, nextOp, turns, steps, resumes, nodeCrashes, appendErrors, rebuilds>>
    BY <1>9, <2>2, <2>3 DEF Install, InstalledAnchor, followBounds
  <2>5. skew' \in [Node -> SUBSET Skews] /\ anchor' \in [Node -> Nat]
    BY <1>1, <2>4 DEF FollowTypeOK, Skews
  <2>6. FollowTypeOK'
    BY <1>1, <2>1, <2>4, <2>5 DEF FollowTypeOK
  <2>7. StopsHeld'
    BY <1>1, <2>4 DEF FollowTypeOK, StopsHeld
  <2>8. FoldsHeld'
    <3> SUFFICES ASSUME NEW m \in Node, phase'[m] \in Resident, skew'[m] = {}
                 PROVE  Folding(f, anchor'[m], mem[m])
      BY <2>2, <2>4 DEF FoldsHeld
    <3>1. anchor \in [Node -> Nat] /\ skew \in [Node -> SUBSET Skews]
      BY <1>1 DEF FollowTypeOK
    <3>2. CASE m # n
      <4>1. phase[m] \in Resident /\ skew[m] = {} /\ anchor'[m] = anchor[m]
        BY <2>1, <2>4, <3>1, <3>2
      <4> QED
        BY <1>1, <2>2, <4>1 DEF FoldsHeld
    <3>3. CASE m = n
      <4>1. mem[n] = ReadAll(f) /\ anchor'[n] = z
        BY <2>4, <3>1, <3>3
      <4> QED
        BY <2>3, <3>3, <4>1, FoldAll
    <3> QED
      BY <3>2, <3>3
  <2> QED
    BY <2>6, <2>7, <2>8 DEF FollowInv
<1>10. CASE Rebuild
  <2>1. /\ file' = <<>> /\ rebuilds' \in 0..MaxRebuilds
        /\ skew' = [n \in Node |-> skew[n] \cup {"rebuilt"}]
        /\ UNCHANGED <<phase, anchor, mem, truncated, driver, nextOp, turns, steps,
                       resumes, nodeCrashes, appendErrors>>
    BY <1>1, <1>10, FollowConstants DEF Rebuild, FollowTypeOK
  <2>2. skew' \in [Node -> SUBSET Skews] /\ \A n \in Node : skew'[n] # {}
    BY <1>1, <2>1 DEF FollowTypeOK, Skews
  <2>3. file' \in Seq(Byte)
    BY <2>1, EmptySeq
  <2>4. FollowTypeOK'
    BY <1>1, <2>1, <2>2, <2>3 DEF FollowTypeOK
  <2> QED
    BY <1>1, <2>1, <2>2, <2>4 DEF FollowInv, FoldsHeld, StopsHeld
<1>11. CASE UNCHANGED followVars
  <2>1. UNCHANGED <<file, phase, anchor, mem, truncated, driver, nextOp, turns, steps, resumes,
                    nodeCrashes, appendErrors, rebuilds, skew>>
    BY <1>11 DEF followVars, followBounds
  <2>2. FollowTypeOK'
    BY <1>1, <2>1 DEF FollowTypeOK
  <2> QED
    BY <1>1, <2>1, <2>2 DEF FollowInv, FoldsHeld, StopsHeld
<1> QED
  BY <1>2, <1>3, <1>4, <1>5, <1>6, <1>7, <1>8, <1>9, <1>10, <1>11 DEF FollowNext


-----------------------------------------------------------------------------
(***************************************************************************)
(* Every step keeps the shape of the state, whatever the faults.           *)
(***************************************************************************)
THEOREM FollowTypeCorrect == FollowSpec => []FollowTypeOK
<1>1. FollowInv => FollowTypeOK
  BY DEF FollowInv
<1> QED
  BY FollowInvInit, FollowStep, <1>1, PTL DEF FollowSpec

(***************************************************************************)
(* While nothing came between its anchor and the file, a process has in    *)
(* memory exactly what a replay of the journal up to its anchor gives: the *)
(* records it appended (record_op) and those it drained                    *)
(* (drain_foreign_ops), each once and in file order.                       *)
(***************************************************************************)
THEOREM MemoryReplays == FollowSpec => []MemoryIsPrefix
<1>1. FollowInv => MemoryIsPrefix
  BY DEF FollowInv, FoldsHeld, Folding, MemoryIsPrefix
<1> QED
  BY FollowInvInit, FollowStep, <1>1, PTL DEF FollowSpec

(* The moves of a session's phase, and the memory that goes with them. *)
LEMMA PhaseMoves ==
    ASSUME FollowInv, FollowNext, NEW n \in Node
    PROVE  /\ phase[n] = "idle" /\ phase'[n] = "fenced" => FencePasses(n)
           /\ truncated[n] /\ phase'[n] = phase[n] => mem'[n] = mem[n]
<1>1. FollowTypeOK /\ StopsHeld
  BY DEF FollowInv
<1>2. phase \in [Node -> Phases] /\ mem \in [Node -> Seq(Op)]
  BY <1>1 DEF FollowTypeOK
<1> DEFINE Good == /\ phase[n] = "idle" /\ phase'[n] = "fenced" => FencePasses(n)
                   /\ truncated[n] /\ phase'[n] = phase[n] => mem'[n] = mem[n]
<1>3. ASSUME NEW m \in Node, Fence(m) PROVE Good
  BY <1>2, <1>3 DEF Fence, Goto
<1>4. ASSUME NEW m \in Node, RecordPrompt(m) \/ RecordMessage(m) \/ RecordStep(m) \/ RecordEnd(m)
      PROVE  Good
  <2>1. /\ \E o : mem' = [mem EXCEPT ![m] = Append(@, o)]
        /\ \E p \in {"prompted", "turn", "idle"} :
                phase[m] # p /\ phase' = [phase EXCEPT ![m] = p]
    BY <1>4 DEF RecordPrompt, RecordMessage, RecordStep, RecordEnd, record_op, Goto
  <2> QED
    BY <1>2, <2>1
<1>5. ASSUME NEW m \in Node, Guard(m) \/ LastStep(m) PROVE Good
  BY <1>2, <1>5 DEF Guard, LastStep, Goto
<1>6. ASSUME NEW m \in Node, PassBegin(m) \/ CloseAt(m) \/ CrashAt(m) \/ Install(m) PROVE Good
  BY <1>2, <1>6 DEF PassBegin, CloseAt, CrashAt, Install, Goto
<1>7. ASSUME NEW m \in Node, Absorb(m) PROVE Good
  <2>1. phase' = phase /\ ~truncated[m]
    BY <1>1, <1>7 DEF Absorb, StopsHeld
  <2>2. m # n => mem'[n] = mem[n]
    <3>1. mem' = mem \/ \E g : mem' = [mem EXCEPT ![m] = g]
      BY <1>7 DEF Absorb
    <3> QED
      BY <1>2, <3>1
  <2> QED
    BY <2>1, <2>2
<1>8. ASSUME NEW m \in Node, Replay(m) PROVE Good
  <2>1. /\ phase[m] = "closed" /\ phase' = [phase EXCEPT ![m] = "replayed"]
        /\ \E g : mem' = [mem EXCEPT ![m] = g]
    BY <1>8 DEF Replay, Goto
  <2> QED
    BY <1>2, <2>1
<1>9. CASE Rebuild
  BY <1>9 DEF Rebuild
<1> QED
  BY <1>3, <1>4, <1>5, <1>6, <1>7, <1>8, <1>9 DEF FollowNext, Turn

(***************************************************************************)
(* The commit fence of a send (journal_tail_verdict_fresh) lets a turn     *)
(* begin only on a memory that holds every record of the journal.          *)
(***************************************************************************)
THEOREM TurnsStartCurrent == FollowSpec => TurnStartsCurrent
<1> DEFINE A == \A n \in Node :
                   phase[n] = "idle" /\ phase'[n] = "fenced" /\ skew[n] = {} =>
                       mem[n] = ReadAll(file)
<1>1. FollowInv /\ [FollowNext]_followVars => [A]_followVars
  <2> SUFFICES ASSUME FollowInv, FollowNext, NEW n \in Node,
                      phase[n] = "idle", phase'[n] = "fenced", skew[n] = {}
               PROVE  mem[n] = ReadAll(file)
    OBVIOUS
  <2>1. FencePasses(n)
    BY PhaseMoves
  <2>2. PICK f \in Seq(Byte) : f = file
    BY Zenon DEF FollowInv, FollowTypeOK
  <2>3. anchor[n] = Len(f)
    <3>1. Len(f) \in Nat /\ anchor[n] \in Nat
      BY LenProperties DEF FollowInv, FollowTypeOK
    <3> QED
      BY <2>1, <2>2, <3>1 DEF FencePasses, check_version
  <2>4. mem[n] = ReadAll(SubSeq(f, 1, anchor[n]))
    BY <2>2 DEF FollowInv, FoldsHeld, Folding, Resident, Phases
  <2> QED
    BY <2>2, <2>3, <2>4, SubSeqFull
<1> QED
  BY FollowInvInit, FollowStep, <1>1, PTL DEF FollowSpec, TurnStartsCurrent

(***************************************************************************)
(* Once the follow driver saw the journal shorter than its anchor          *)
(* (reset_anchor), nothing is folded into that session without leaving its *)
(* phase: no absorption of a rebuilt file from its first byte on.          *)
(***************************************************************************)
THEOREM TruncationStopsFolding == FollowSpec => NoFoldAfterTruncation
<1> DEFINE A == \A n \in Node : truncated[n] /\ phase'[n] = phase[n] => mem'[n] = mem[n]
<1>1. FollowInv /\ [FollowNext]_followVars => [A]_followVars
  BY PhaseMoves
<1> QED
  BY FollowInvInit, FollowStep, <1>1, PTL DEF FollowSpec, NoFoldAfterTruncation

-----------------------------------------------------------------------------
(* Appending a record, whole or cut. *)

LEMMA SameStretch ==
    ASSUME NEW f \in Seq(Byte), NEW h \in Seq(Byte), NEW a \in Nat, NEW b \in Int, 1 <= a,
           b <= Len(f), b <= Len(h), \A i \in 1..b : h[i] = f[i]
    PROVE  SubSeq(h, a, b) = SubSeq(f, a, b)
<1>1. PICK y \in Nat : y = Len(f)
  BY LenProperties
<1>2. PICK z \in Nat : z = Len(h)
  BY LenProperties
<1>3. \A i \in a..b : f[i] \in Byte /\ h[i] \in Byte /\ h[i] = f[i]
  <2> SUFFICES ASSUME NEW i \in a..b PROVE f[i] \in Byte /\ h[i] \in Byte /\ h[i] = f[i]
    OBVIOUS
  <2>1. i \in 1..y /\ i \in 1..z /\ i \in 1..b
    BY <1>1, <1>2
  <2> QED
    BY <1>1, <1>2, <2>1, ElementOfSeq
<1>4. a \in Int
  OBVIOUS
<1>5. /\ SubSeq(f, a, b) \in Seq(Byte) /\ Len(SubSeq(f, a, b)) = IF a <= b THEN b - a + 1 ELSE 0
      /\ \A i \in 1..b - a + 1 : SubSeq(f, a, b)[i] = f[a + i - 1]
  BY <1>3, <1>4, SubSeqProperties
<1>6. /\ SubSeq(h, a, b) \in Seq(Byte) /\ Len(SubSeq(h, a, b)) = IF a <= b THEN b - a + 1 ELSE 0
      /\ \A i \in 1..b - a + 1 : SubSeq(h, a, b)[i] = h[a + i - 1]
  BY <1>3, <1>4, SubSeqProperties
<1>7. PICK u \in Seq(Byte) : u = SubSeq(f, a, b)
  BY <1>5, Zenon
<1>8. PICK v \in Seq(Byte) : v = SubSeq(h, a, b)
  BY <1>6, Zenon
<1>9. Len(u) = Len(v)
  BY <1>5, <1>6, <1>7, <1>8
<1>10. ASSUME NEW i \in 1..Len(v) PROVE v[i] = u[i]
  <2>1. a <= b /\ i \in 1..b - a + 1
    <3>1. Len(v) = IF a <= b THEN b - a + 1 ELSE 0
      BY <1>6, <1>8
    <3>2. CASE a <= b
      BY <3>1, <3>2
    <3>3. CASE ~(a <= b)
      BY <3>1, <3>3
    <3> QED
      BY <3>2, <3>3
  <2>2. a + i - 1 \in a..b
    BY <2>1
  <2>3. v[i] = h[a + i - 1] /\ u[i] = f[a + i - 1]
    BY <1>5, <1>6, <1>7, <1>8, <2>1
  <2> QED
    BY <1>3, <2>2, <2>3
<1> QED
  BY <1>7, <1>8, <1>9, <1>10, SeqEqual

(* What comes after the first file's bytes are the first of the second's. *)
LEMMA SecondStretch ==
    ASSUME NEW f \in Seq(Byte), NEW g \in Seq(Byte), NEW j \in 0..Len(g)
    PROVE  SubSeq(f \o g, Len(f) + 1, Len(f) + j) = SubSeq(g, 1, j)
<1>1. PICK y \in Nat : y = Len(f)
  BY LenProperties
<1>2. PICK z \in Nat : z = Len(g)
  BY LenProperties
<1>3. PICK h \in Seq(Byte) : h = f \o g
  BY ConcatProperties
<1>4. Len(h) = y + z /\ \A i \in 1..y + z : h[i] = IF i <= y THEN f[i] ELSE g[i - y]
  BY <1>1, <1>2, <1>3, ConcatProperties
<1>5. j \in 0..z /\ j \in Nat
  BY <1>2
<1>6. PICK a \in Int : a = y + 1
  OBVIOUS
<1>7. PICK b \in Int : b = y + j
  BY <1>5
<1>8. \A i \in a..b : h[i] \in Byte
  <2> SUFFICES ASSUME NEW i \in a..b PROVE h[i] \in Byte
    OBVIOUS
  <2>1. i \in 1..y + z
    BY <1>5, <1>6, <1>7
  <2> QED
    BY <1>4, <2>1, ElementOfSeq
<1>9. /\ SubSeq(h, a, b) \in Seq(Byte) /\ Len(SubSeq(h, a, b)) = IF a <= b THEN b - a + 1 ELSE 0
      /\ \A i \in 1..b - a + 1 : SubSeq(h, a, b)[i] = h[a + i - 1]
  BY <1>8, SubSeqProperties
<1>10. PICK v \in Seq(Byte) : v = SubSeq(h, a, b)
  BY <1>9, Zenon
<1>11. Len(v) = j
  BY <1>5, <1>6, <1>7, <1>9, <1>10
<1>12. ASSUME NEW i \in 1..j PROVE v[i] = g[i]
  <2>1. i \in 1..b - a + 1 /\ a + i - 1 = y + i
    BY <1>5, <1>6, <1>7
  <2>2. v[i] = h[y + i]
    BY <1>9, <1>10, <2>1
  <2>3. y + i \in 1..y + z /\ ~(y + i <= y) /\ (y + i) - y = i
    BY <1>5
  <2> QED
    BY <1>4, <2>2, <2>3
<1>13. j <= Len(g)
  BY <1>2, <1>5
<1>14. /\ SubSeq(g, 1, j) \in Seq(Byte) /\ Len(SubSeq(g, 1, j)) = j
       /\ \A i \in 1..j : SubSeq(g, 1, j)[i] = g[i]
  BY <1>5, <1>13, Prefix
<1>15. v = SubSeq(g, 1, j)
  BY <1>11, <1>12, <1>14, SeqEqual
<1> QED
  BY <1>1, <1>3, <1>6, <1>7, <1>10, <1>15

(* The lines of a file stay what they are when bytes follow. *)
LEMMA LinesKept ==
    ASSUME NEW f \in Seq(Byte), NEW g \in Seq(Byte)
    PROVE  /\ f \o g \in Seq(Byte) /\ Len(f \o g) = Len(f) + Len(g)
           /\ \A i \in 1..Len(f) : i \in Newlines(f \o g) <=> i \in Newlines(f)
           /\ \A i \in Newlines(f \o g) : i > Len(f) => i - Len(f) \in Newlines(g)
           /\ \A e \in Newlines(f) : Body(f \o g, e) = Body(f, e)
<1>1. PICK y \in Nat : y = Len(f)
  BY LenProperties
<1>2. PICK z \in Nat : z = Len(g)
  BY LenProperties
<1>3. PICK h \in Seq(Byte) : h = f \o g
  BY ConcatProperties
<1>4. Len(h) = y + z /\ \A i \in 1..y + z : h[i] = IF i <= y THEN f[i] ELSE g[i - y]
  BY <1>1, <1>2, <1>3, ConcatProperties
<1>5. DOMAIN f = 1..y /\ DOMAIN g = 1..z /\ DOMAIN h = 1..y + z
  BY <1>1, <1>2, <1>4, LenProperties
<1>6. \A i \in 1..y : h[i] = f[i]
  <2>1. \A i \in 1..y : i \in 1..y + z /\ i <= y
    OBVIOUS
  <2> QED
    BY <1>4, <2>1
<1>7. \A i \in 1..y : i \in Newlines(h) <=> i \in Newlines(f)
  <2>1. \A i \in 1..y : i \in 1..y + z
    OBVIOUS
  <2> QED
    BY <1>5, <1>6, <2>1 DEF Newlines
<1>8. ASSUME NEW i \in Newlines(h), i > y PROVE i - y \in Newlines(g)
  <2>1. i \in 1..y + z /\ IsNewline(h[i])
    BY <1>5 DEF Newlines
  <2>2. i - y \in 1..z /\ h[i] = g[i - y]
    BY <1>4, <1>8, <2>1
  <2> QED
    BY <1>5, <2>1, <2>2 DEF Newlines
<1>9. ASSUME NEW e \in Newlines(f) PROVE Body(h, e) = Body(f, e)
  <2>1. e \in 1..y
    BY <1>5 DEF Newlines
  <2>2. /\ Newlines(h) \subseteq 1..y + z
        /\ Newlines(f) \subseteq 1..y /\ IsFiniteSet(Newlines(f))
    BY <1>1, <1>4, NewlinesPicked
  <2> DEFINE S == {n \in Newlines(f) : n < e}
  <2>3. {n \in Newlines(h) : n < e} = S
    <3>1. ASSUME NEW n \in Newlines(h), n < e PROVE n \in Newlines(f)
      <4>1. n \in 1..y
        BY <2>1, <2>2, <3>1
      <4> QED
        BY <1>7, <4>1
    <3>2. Newlines(f) \subseteq Newlines(h)
      BY <1>7, <2>2
    <3> QED
      BY <3>1, <3>2
  <2>4. Max(S \cup {0}) \in Nat
    <3>1. IsFiniteSet(S \cup {0})
      BY <2>2, FS_Subset, FS_AddElement
    <3>2. S \cup {0} \subseteq Nat /\ S \cup {0} # {}
      BY <2>2
    <3> QED
      BY <3>1, <3>2, NatMax
  <2>5. PICK m \in Nat : m = Max(S \cup {0}) + 1 /\ 1 <= m
    <3>1. PICK l \in Nat : l = Max(S \cup {0})
      BY <2>4, Zenon
    <3>2. l + 1 \in Nat /\ 1 <= l + 1
      OBVIOUS
    <3> HIDE DEF S
    <3> QED
      BY <3>1, <3>2
  <2>6. PICK b \in Int : b = e - 1
    BY <2>1
  <2>7. b <= Len(f) /\ b <= Len(h) /\ \A i \in 1..b : h[i] = f[i]
    <3>1. b <= y /\ b <= y + z /\ \A i \in 1..b : i \in 1..y
      BY <2>1, <2>6
    <3> QED
      BY <1>1, <1>4, <1>6, <3>1
  <2>8. SubSeq(h, m, b) = SubSeq(f, m, b)
    BY <2>5, <2>7, SameStretch
  <2> HIDE DEF S
  <2>9. Body(h, e) = SubSeq(h, m, b)
    BY <2>3, <2>5, <2>6 DEF Body
  <2>10. Body(f, e) = SubSeq(f, m, b)
    BY <2>5, <2>6 DEF Body, S
  <2> QED
    BY <2>8, <2>9, <2>10
<1> QED
  BY <1>1, <1>2, <1>3, <1>4, <1>7, <1>8, <1>9

(* A line parses iff it is all of a record but the newline. *)
LEMMA CutParses ==
    ASSUME NEW o \in Op, NEW k \in 1..RecordLen[o] - 1
    PROVE  Parses(SubSeq(Record(o), 1, k)) <=> k = RecordLen[o] - 1
<1>1. PICK z \in Nat : z = RecordLen[o] /\ 2 <= z
  BY OpConstants
<1>2. PICK r \in Seq(Byte) : r = Record(o)
  BY RecordLine
<1>3. Len(r) = z /\ \A i \in 1..z : r[i] = <<o, i>>
  BY <1>1, <1>2, RecordLine
<1>4. k \in Nat /\ 1 <= k /\ k <= z - 1
  BY <1>1
<1>5. k <= Len(r)
  BY <1>3, <1>4
<1>6. PICK p \in Seq(Byte) : p = SubSeq(r, 1, k)
  BY <1>4, <1>5, Prefix
<1>7. Len(p) = k /\ p[1] = r[1]
  <2>1. Len(p) = k /\ \A i \in 1..k : p[i] = r[i]
    BY <1>4, <1>5, <1>6, Prefix
  <2>2. 1 \in 1..k
    BY <1>4
  <2> QED
    BY <2>1, <2>2
<1>8. p # <<>> /\ p[1][1] = o
  <2>1. 1 \in 1..z
    BY <1>1
  <2>2. r[1] = <<o, 1>>
    BY <1>3, <2>1
  <2>3. p # <<>>
    BY <1>4, <1>7
  <2> QED
    BY <1>7, <2>2, <2>3
<1>9. Parses(p) <=> p = SubSeq(r, 1, z - 1)
  BY <1>1, <1>2, <1>8 DEF Parses
<1>10. PICK y \in Nat : y = z - 1
  BY <1>1
<1>11. y <= Len(r)
  BY <1>3, <1>10
<1>12. Len(SubSeq(r, 1, y)) = y
  BY <1>11, Prefix
<1>13. p = SubSeq(r, 1, z - 1) <=> k = y
  BY <1>6, <1>7, <1>10, <1>12
<1> QED
  BY <1>1, <1>2, <1>6, <1>9, <1>10, <1>13

(* A record cut before its newline, at the end of whole lines: the reader  *)
(* drops it, or accepts it when nothing but the newline is missing.        *)
LEMMA CutLanded ==
    ASSUME NEW f \in Seq(Byte), NEW o \in Op, NEW k \in 1..RecordLen[o] - 1,
           Whole(f), ~Corrupted(f)
    PROVE  /\ f \o SubSeq(Record(o), 1, k) \in Seq(Byte)
           /\ ~Corrupted(f \o SubSeq(Record(o), 1, k))
           /\ ReadAll(f \o SubSeq(Record(o), 1, k)) =
                IF k = RecordLen[o] - 1 THEN Append(ReadAll(f), o) ELSE ReadAll(f)
<1>1. PICK z \in Nat : z = RecordLen[o] /\ 2 <= z
  BY OpConstants
<1>2. PICK p \in Seq(Byte) : p = SubSeq(Record(o), 1, k)
  BY OpsRecord
<1>3. Newlines(p) = {} /\ Len(p) = k /\ p[1][1] = o
  <2>1. Newlines(p) = {}
    BY <1>2, OpsRecord
  <2>2. Record(o) \in Seq(Byte) /\ Len(Record(o)) = z /\ \A i \in 1..z : Record(o)[i] = <<o, i>>
    BY <1>1, RecordLine
  <2>3. k \in Nat /\ k <= Len(Record(o)) /\ 1 \in 1..k /\ 1 \in 1..z
    BY <1>1, <2>2
  <2>4. Len(p) = k /\ p[1] = Record(o)[1]
    BY <1>2, <2>2, <2>3, Prefix
  <2> QED
    BY <2>1, <2>2, <2>3, <2>4
<1>4. PICK h \in Seq(Byte) : h = f \o p
  BY ConcatProperties
<1>5. PICK y \in Nat : y = Len(f)
  BY LenProperties
<1>6. PICK x \in Nat : x = y + k /\ Len(h) = x
  <2>1. y + k \in Nat
    BY <1>1
  <2>2. Len(h) = y + k
    BY <1>3, <1>4, <1>5, LinesKept
  <2> QED
    BY <2>1, <2>2
<1>7. Newlines(h) = Newlines(f)
  <2>1. Newlines(f) \subseteq 1..y /\ Newlines(h) \subseteq 1..x
    BY <1>5, <1>6, NewlinesPicked
  <2>2. \A i \in 1..y : i \in Newlines(h) <=> i \in Newlines(f)
    BY <1>4, <1>5, LinesKept
  <2>3. \A i \in Newlines(h) : ~(i > y)
    BY <1>3, <1>4, <1>5, LinesKept
  <2>4. \A i \in Newlines(h) : i \in 1..y
    BY <2>1, <2>3
  <2> QED
    BY <2>1, <2>2, <2>4
<1>8. ~Corrupted(h)
  <2>1. \A e \in Newlines(f) : Body(h, e) = Body(f, e)
    BY <1>4, LinesKept
  <2> QED
    BY <1>7, <2>1 DEF Corrupted
<1>9. LastNewline(h) = y
  <2>1. LastNewline(h) = LastNewline(f)
    BY <1>7 DEF LastNewline
  <2>2. LastNewline(f) \in Nat /\ LastNewline(f) <= y /\ \A i \in Newlines(f) : i <= LastNewline(f)
    BY <1>5, LastLine
  <2>3. y = 0 \/ y \in Newlines(f)
    <3>1. f = <<>> => y = 0
      BY <1>5
    <3>2. y # 0 /\ IsNewline(f[y]) => y \in Newlines(f)
      BY <1>5, LenProperties DEF Newlines
    <3> QED
      BY <1>5, <3>1, <3>2 DEF Whole
  <2> QED
    BY <2>1, <2>2, <2>3
<1>10. TornTail(h) = p
  <2>1. k \in 0..Len(p)
    BY <1>1, <1>3
  <2>2. SubSeq(h, y + 1, y + k) = SubSeq(p, 1, k)
    BY <1>4, <1>5, <2>1, SecondStretch
  <2>3. SubSeq(p, 1, k) = p
    BY <1>3, SubSeqFull
  <2> QED
    BY <1>6, <1>9, <2>2, <2>3 DEF TornTail
<1>11. Ops(h) = ReadAll(f) /\ ReadAll(f) \in Seq(Op)
  <2>1. Ops(h) = Ops(f) \o Ops(p) /\ Ops(p) = <<>>
    BY <1>3, <1>4, OpsConcat, OpsNone
  <2>2. Ops(f) \in Seq(Op)
    BY OpsType
  <2>3. Ops(h) = Ops(f)
    BY <2>1, <2>2, ConcatEmptySeq
  <2> QED
    BY <2>2, <2>3, ReadWhole
<1>12. Parses(p) <=> k = RecordLen[o] - 1
  BY <1>2, CutParses
<1>13. ReadAll(h) = ReadAll(f) \o (IF Parses(p) THEN <<o>> ELSE <<>>)
  BY <1>3, <1>10, <1>11 DEF ReadAll
<1>14. Append(ReadAll(f), o) = ReadAll(f) \o <<o>> /\ ReadAll(f) \o <<>> = ReadAll(f)
  BY <1>11, AppendIsConcat, ConcatEmptySeq
<1>15. ReadAll(h) = IF k = RecordLen[o] - 1 THEN Append(ReadAll(f), o) ELSE ReadAll(f)
  BY <1>12, <1>13, <1>14
<1> QED
  BY <1>2, <1>4, <1>8, <1>15

(* A whole record, at the end of whole lines, is read. *)
LEMMA LineLanded ==
    ASSUME NEW f \in Seq(Byte), NEW o \in Op, Whole(f), ~Corrupted(f)
    PROVE  /\ f \o Record(o) \in Seq(Byte) /\ ~Corrupted(f \o Record(o))
           /\ ReadAll(f \o Record(o)) = Append(ReadAll(f), o)
<1>1. PICK z \in Nat : z = RecordLen[o] /\ 2 <= z
  BY OpConstants
<1>2. PICK r \in Seq(Byte) : r = Record(o)
  BY RecordLine
<1>3. Len(r) = z /\ \A i \in 1..z : r[i] = <<o, i>>
  BY <1>1, <1>2, RecordLine
<1>4. PICK h \in Seq(Byte) : h = f \o r
  BY ConcatProperties
<1>5. PICK y \in Nat : y = Len(f)
  BY LenProperties
<1>6. Len(h) = y + z
  BY <1>3, <1>4, <1>5, LinesKept
<1>7. ReadAll(h) = Append(ReadAll(f), o)
  <2>1. Folding(f, Len(f), ReadAll(f))
    BY FoldAll
  <2>2. Folding(h, Len(f) + RecordLen[o], Append(ReadAll(f), o))
    BY <1>2, <1>4, <2>1, FoldOwn
  <2>3. Len(f) + RecordLen[o] = Len(h)
    BY <1>1, <1>5, <1>6
  <2>4. Append(ReadAll(f), o) = ReadAll(SubSeq(h, 1, Len(h)))
    BY <2>2, <2>3 DEF Folding
  <2> QED
    BY <2>4, SubSeqFull
<1>8. /\ Newlines(f) \subseteq 1..y /\ Newlines(h) \subseteq 1..y + z
      /\ IsFiniteSet(Newlines(h))
  BY <1>5, <1>6, NewlinesPicked
<1>9. \A i \in 1..y : i \in Newlines(h) <=> i \in Newlines(f)
  BY <1>4, <1>5, LinesKept
<1>10. ASSUME NEW e \in Newlines(h), e > y PROVE e = y + z
  <2>1. e - y \in Newlines(r)
    BY <1>4, <1>5, <1>10, LinesKept
  <2>2. e - y \in 1..z /\ r[e - y][2] = z
    BY <1>1, <1>3, <2>1, LenProperties DEF Newlines, IsNewline
  <2>3. r[e - y] = <<o, e - y>>
    BY <1>3, <2>2
  <2>4. e - y = z
    BY <2>2, <2>3
  <2> QED
    BY <1>8, <2>4
<1>11. ASSUME NEW e \in Newlines(h) PROVE Parses(Body(h, e))
  <2>1. CASE e <= y
    <3>1. e \in Newlines(f)
      BY <1>8, <1>9, <2>1
    <3>2. Body(h, e) = Body(f, e)
      BY <1>4, <3>1, LinesKept
    <3> QED
      BY <3>1, <3>2 DEF Corrupted
  <2>2. CASE ~(e <= y)
    <3>1. e = y + z
      BY <1>8, <1>10, <2>2
    <3> DEFINE S == {n \in Newlines(h) : n < e} \cup {0}
    <3>2. Max(S) = y
      <4>1. IsFiniteSet(S)
        BY <1>8, FS_Subset, FS_AddElement
      <4>2. S \subseteq Nat /\ S # {}
        BY <1>8
      <4>3. Max(S) \in S /\ \A n \in S : n <= Max(S)
        BY <4>1, <4>2, NatMax
      <4>4. \A n \in S : n <= y
        <5> SUFFICES ASSUME NEW n \in Newlines(h), n < e PROVE n <= y
          OBVIOUS
        <5>1. n \in Nat /\ n # y + z
          BY <1>8, <3>1
        <5> QED
          BY <1>10, <5>1
      <4>5. y \in S
        <5>1. y = 0 \/ y \in Newlines(f)
          <6>1. f = <<>> => y = 0
            BY <1>5
          <6>2. y # 0 /\ IsNewline(f[y]) => y \in Newlines(f)
            BY <1>5, LenProperties DEF Newlines
          <6> QED
            BY <1>5, <6>1, <6>2 DEF Whole
        <5>2. y \in Newlines(f) => y \in Newlines(h) /\ y < e
          BY <1>1, <1>8, <1>9, <3>1
        <5> QED
          BY <5>1, <5>2
      <4> HIDE DEF S
      <4>6. Max(S) \in Nat
        BY <4>2, <4>3
      <4> QED
        BY <4>3, <4>4, <4>5, <4>6
    <3>3. Body(h, e) = SubSeq(h, y + 1, e - 1)
      BY <3>2 DEF Body
    <3>4. PICK j \in Nat : j = z - 1
      BY <1>1
    <3>5. j \in 0..Len(r) /\ e - 1 = y + j
      <4>1. 2 <= z /\ Len(r) = z
        BY <1>1, <1>3, Zenon
      <4>2. j \in 0..z /\ (y + z) - 1 = y + j
        BY <3>4, <4>1
      <4> QED
        BY <3>1, <4>1, <4>2, Zenon
    <3>6. SubSeq(h, y + 1, y + j) = SubSeq(r, 1, j)
      BY <1>4, <1>5, <3>5, SecondStretch
    <3>7. j \in 1..RecordLen[o] - 1 /\ j = RecordLen[o] - 1
      BY <1>1, <3>4
    <3>8. Parses(SubSeq(r, 1, j))
      BY <1>2, <3>7, CutParses
    <3> QED
      BY <3>3, <3>5, <3>6, <3>8
  <2> QED
    BY <2>1, <2>2
<1> QED
  BY <1>2, <1>4, <1>7, <1>11 DEF Corrupted

(* Any part of a record lands after whole lines, or none of it anywhere. *)
LEMMA PartLanded ==
    ASSUME NEW f \in Seq(Byte), NEW o \in Op, NEW k \in 0..RecordLen[o],
           k = 0 \/ TornTail(f) = <<>>, ~Corrupted(f)
    PROVE  /\ f \o SubSeq(Record(o), 1, k) \in Seq(Byte)
           /\ ~Corrupted(f \o SubSeq(Record(o), 1, k))
           /\ \/ ReadAll(f \o SubSeq(Record(o), 1, k)) = ReadAll(f)
              \/ ReadAll(f \o SubSeq(Record(o), 1, k)) = Append(ReadAll(f), o)
           /\ k = RecordLen[o] =>
                ReadAll(f \o SubSeq(Record(o), 1, k)) = Append(ReadAll(f), o)
<1>1. PICK z \in Nat : z = RecordLen[o] /\ 2 <= z
  BY OpConstants
<1>2. CASE k = 0
  <2>1. SubSeq(Record(o), 1, 0) = <<>>
    BY SubSeqEmpty
  <2>2. f \o <<>> = f
    BY ConcatEmptySeq
  <2>3. f \o SubSeq(Record(o), 1, k) = f
    BY <1>2, <2>1, <2>2, Zenon
  <2>4. k # RecordLen[o]
    BY <1>1, <1>2
  <2> QED
    BY <2>3, <2>4, Zenon
<1>3. CASE k # 0 /\ k # z
  <2>1. k \in 1..RecordLen[o] - 1 /\ Whole(f)
    BY <1>1, <1>3, TornIff
  <2> QED
    BY <1>1, <1>3, <2>1, CutLanded
<1>4. CASE k # 0 /\ k = z
  <2>1. Record(o) \in Seq(Byte) /\ Len(Record(o)) = k /\ Whole(f)
    BY <1>1, <1>4, TornIff, RecordLine
  <2>2. SubSeq(Record(o), 1, k) = Record(o)
    BY <2>1, SubSeqFull
  <2> QED
    BY <2>1, <2>2, LineLanded
<1> QED
  BY <1>2, <1>3, <1>4

-----------------------------------------------------------------------------
(***************************************************************************)
(* The journal's inductive invariant.  What AckedSurvive, RecordedOrder    *)
(* and SnapshotIsPrefix say of the log holds because every harmless step   *)
(* leaves the log as it is or puts a part of one new record behind whole   *)
(* lines; that in turn takes SlotHeld (nobody writes beside the flush of   *)
(* the deferred buffer, and creating the file destroys none) and SwapHeld  *)
(* (compression and restore take the log from where it is).                *)
(***************************************************************************)
\* Ops in the order of their recording.
Ascending(s) == \A i, j \in DOMAIN s : i < j => s[i].n < s[j].n

\* What was acknowledged can be read.
LogHeld == Readable /\ acked \subseteq Range(Records)

\* What is in the log is older than what waits in the deferred buffer, and
\* that is older than what will be recorded.
OrderHeld ==
    /\ Ascending(Records) /\ Ascending(buffer)
    /\ \A i \in DOMAIN Records : Records[i].n < next
    /\ \A j \in DOMAIN buffer : buffer[j].n < next
    /\ \A i \in DOMAIN Records, j \in DOMAIN buffer : Records[i].n < buffer[j].n

\* The snapshot holds the first records.
SnapHeld == Len(snap) <= Len(Records) /\ snap = SubSeq(Records, 1, Len(snap))

\* While the first scope's log is not created, or its buffer is flushed, there
\* is no other scope and nobody else to write.
SlotHeld ==
    /\ slot # "writer" => /\ made = 1 /\ busy = {} /\ resume = "idle" /\ recovery = "done"
    /\ slot = "deferred" => /\ ~plain.exists /\ ~gz.exists
                            /\ \A s \in Scopes : fd[s] = "none"
    /\ slot = "flushing" => live = 1
    /\ slot = "writer" => buffer = <<>>
    /\ \A s \in Scopes : s > made => fd[s] = "none"

\* The directory lock keeps a compression and a restore apart, and the log
\* they move is where the next step takes it from.
SwapHeld ==
    /\ comp \in {"locked", "copied", "renamed", "removed"} => lock = "compress"
    /\ rest \in {"probe", "decode", "renamed", "clear"} => lock = "restore"
    /\ comp \in {"locked", "copied", "renamed"} => plain.exists
    /\ rest = "renamed" => plain.exists
    /\ rest = "decode" => ~plain.exists /\ gz.exists

JournalInv ==
    /\ TypeOK
    /\ harm = {} => LogHeld /\ OrderHeld /\ SnapHeld /\ SlotHeld /\ SwapHeld

\* What a harmless step does to the log: nothing, or one more record.
LogMoves ==
    \/ Records' = Records /\ acked' = acked
    \/ \E o \in Op : /\ Records' = Append(Records, o)
                     /\ acked' = acked \/ acked' = acked \cup {o}

LEMMA LogType ==
    ASSUME TypeOK
    PROVE  LogBytes \in Seq(Byte) /\ Records \in Seq(Op)
<1>1. plain.bytes \in Seq(Byte) /\ gz.bytes \in Seq(Byte)
  BY DEF TypeOK
<1>2. LogBytes \in Seq(Byte)
  BY <1>1 DEF LogBytes
<1> QED
  BY <1>2, ReadType DEF Records

(* A replay from the snapshot of the first records is a replay. *)
LEMMA ReplayedIsRecords ==
    ASSUME TypeOK, SnapHeld
    PROVE  Replayed = Records
<1>1. PICK r \in Seq(Op) : r = Records
  BY LogType
<1>2. PICK z \in Nat : z = Len(r)
  BY LenProperties
<1>3. PICK k \in Nat : k = Len(snap)
  BY LenProperties DEF TypeOK
<1>4. k <= z /\ snap = SubSeq(r, 1, k)
  BY <1>1, <1>2, <1>3 DEF SnapHeld
<1>5. Replayed = SubSeq(r, 1, k) \o SubSeq(r, k + 1, z)
  BY <1>1, <1>2, <1>3, <1>4 DEF Replayed
<1>6. SubSeq(r, 1, k) \o SubSeq(r, k + 1, z) = r
  <2>1. \A i \in 1..z : r[i] \in Op
    BY <1>2, ElementOfSeq
  <2>2. /\ SubSeq(r, 1, k) \in Seq(Op) /\ Len(SubSeq(r, 1, k)) = k
        /\ \A i \in 1..k : SubSeq(r, 1, k)[i] = r[i]
    <3>1. k \in Int /\ 1 \in Int /\ \A i \in 1..k : r[i] \in Op
      BY <1>4, <2>1
    <3>2. /\ SubSeq(r, 1, k) \in Seq(Op) /\ Len(SubSeq(r, 1, k)) = IF 1 <= k THEN k - 1 + 1 ELSE 0
          /\ \A i \in 1..k - 1 + 1 : SubSeq(r, 1, k)[i] = r[1 + i - 1]
      BY <3>1, SubSeqProperties
    <3>3. PICK p \in Seq(Op) : p = SubSeq(r, 1, k)
      BY <3>2, Zenon
    <3>4. Len(p) = k /\ \A i \in 1..k : p[i] = r[i]
      BY <3>2, <3>3
    <3> QED
      BY <3>3, <3>4
  <2>3. PICK m \in Int : m = k + 1
    OBVIOUS
  <2>4. /\ SubSeq(r, m, z) \in Seq(Op) /\ Len(SubSeq(r, m, z)) = IF m <= z THEN z - m + 1 ELSE 0
        /\ \A i \in 1..z - m + 1 : SubSeq(r, m, z)[i] = r[m + i - 1]
    <3>1. z \in Int /\ \A i \in m..z : r[i] \in Op
      BY <2>1, <2>3
    <3> QED
      BY <3>1, SubSeqProperties
  <2>5. PICK p \in Seq(Op) : p = SubSeq(r, 1, k)
    BY <2>2, Zenon
  <2>6. PICK q \in Seq(Op) : q = SubSeq(r, m, z)
    BY <2>4, Zenon
  <2>7. Len(p) = k /\ Len(q) = z - k
    BY <1>4, <2>2, <2>3, <2>4, <2>5, <2>6
  <2>8. /\ p \o q \in Seq(Op) /\ Len(p \o q) = z
        /\ \A i \in 1..z : (p \o q)[i] = IF i <= k THEN p[i] ELSE q[i - k]
    <3>1. /\ p \o q \in Seq(Op) /\ Len(p \o q) = Len(p) + Len(q)
          /\ \A i \in 1..Len(p) + Len(q) : (p \o q)[i] = IF i <= Len(p) THEN p[i] ELSE q[i - Len(p)]
      BY ConcatProperties
    <3>2. Len(p) + Len(q) = z
      BY <2>7
    <3> QED
      BY <2>7, <3>1, <3>2
  <2>9. ASSUME NEW i \in 1..z PROVE (p \o q)[i] = r[i]
    <3>1. CASE i <= k
      BY <2>2, <2>5, <2>8, <3>1
    <3>2. CASE ~(i <= k)
      <4>1. i - k \in 1..z - m + 1 /\ m + (i - k) - 1 = i
        BY <2>3, <3>2
      <4>2. q[i - k] = r[m + (i - k) - 1]
        BY <2>4, <2>6, <4>1
      <4> QED
        BY <2>8, <3>2, <4>1, <4>2
    <3> QED
      BY <3>1, <3>2
  <2>10. p \o q = r
    BY <1>2, <2>8, <2>9, SeqEqual
  <2> QED
    BY <2>3, <2>5, <2>6, <2>10
<1> QED
  BY <1>1, <1>5, <1>6

(* A step that leaves the log alone keeps what is said of it. *)
LEMMA LogStays ==
    ASSUME TypeOK, LogHeld, OrderHeld, SnapHeld,
           LogBytes' = LogBytes, acked' = acked, next' = next,
           buffer' = buffer \/ buffer' = <<>>,
           snap' = snap \/ snap' = Replayed
    PROVE  LogHeld' /\ OrderHeld' /\ SnapHeld' /\ LogMoves
<1>1. Records' = Records /\ Readable' = Readable
  BY DEF Records, Readable
<1>2. LogHeld' /\ LogMoves
  BY <1>1 DEF LogHeld, LogMoves
<1>3. OrderHeld'
  <2>1. DOMAIN <<>> = {}
    OBVIOUS
  <2>2. CASE buffer' = buffer
    BY <1>1, <2>2 DEF OrderHeld, Ascending
  <2>3. CASE buffer' = <<>>
    BY <1>1, <2>1, <2>3 DEF OrderHeld, Ascending
  <2> QED
    BY <2>2, <2>3
<1>4. SnapHeld'
  <2>1. CASE snap' = snap
    BY <1>1, <2>1 DEF SnapHeld
  <2>2. CASE snap' = Replayed
    <3>1. snap' = Records /\ Records \in Seq(Op)
      BY <2>2, ReplayedIsRecords, LogType
    <3>2. Len(Records) \in Nat /\ SubSeq(Records, 1, Len(Records)) = Records
      BY <3>1, LenProperties, SubSeqFull
    <3> QED
      BY <1>1, <3>1, <3>2 DEF SnapHeld
  <2> QED
    BY <2>1, <2>2
<1> QED
  BY <1>2, <1>3, <1>4

(* So does one that adds a record, newer than the others and older than    *)
(* those that wait.                                                        *)
LEMMA LogGrows ==
    ASSUME TypeOK, LogHeld, OrderHeld, SnapHeld, Readable', snap' = snap, NEW o \in Op,
           Records' = Records \/ Records' = Append(Records, o),
           acked' = acked \/ (acked' = acked \cup {o} /\ Records' = Append(Records, o)),
           \A i \in DOMAIN Records : Records[i].n < o.n,
           next' \in Nat, next <= next', o.n < next',
           Ascending(buffer'),
           \A j \in DOMAIN buffer' : buffer'[j].n < next' /\ o.n < buffer'[j].n,
           \A i \in DOMAIN Records, j \in DOMAIN buffer' : Records[i].n < buffer'[j].n
    PROVE  LogHeld' /\ OrderHeld' /\ SnapHeld' /\ LogMoves
<1>1. PICK r \in Seq(Op) : r = Records
  BY LogType
<1>2. PICK z \in Nat : z = Len(r)
  BY LenProperties
<1>3. DOMAIN r = 1..z /\ \A i \in 1..z : r[i] \in Op /\ r[i].n \in Nat /\ r[i].n < next
  <2>1. DOMAIN r = 1..z /\ \A i \in 1..z : r[i] \in Op
    BY <1>2, LenProperties, ElementOfSeq
  <2>2. \A p \in Op : p.n \in Nat
    BY DEF Op
  <2> QED
    BY <1>1, <2>1, <2>2 DEF OrderHeld
<1>4. LogMoves
  BY DEF LogMoves
<1>5. CASE Records' = r
  <2>1. acked' = acked
    <3>1. Append(r, o) # r
      BY <1>2, AppendProperties
    <3> QED
      BY <1>1, <1>5, <3>1
  <2>2. LogHeld'
    BY <1>1, <1>5, <2>1 DEF LogHeld
  <2>3. SnapHeld'
    BY <1>1, <1>5 DEF SnapHeld
  <2>4. next \in Nat /\ next' \in Nat
    BY MaxOpsAssumption DEF TypeOK
  <2>5. \A i \in DOMAIN Records' : Records'[i].n < next'
    BY <1>1, <1>3, <1>5, <2>4
  <2>6. OrderHeld'
    BY <1>1, <1>5, <2>5 DEF OrderHeld, Ascending
  <2> QED
    BY <1>4, <2>2, <2>3, <2>6
<1>6. CASE Records' = Append(r, o)
  <2>1. PICK q \in Seq(Op) : q = Append(r, o)
    BY AppendProperties
  <2>2. /\ Len(q) = z + 1 /\ DOMAIN q = 1..z + 1 /\ q[z + 1] = o
        /\ \A i \in 1..z : q[i] = r[i]
    <3>1. Len(q) = z + 1 /\ q[z + 1] = o /\ \A i \in 1..z : q[i] = r[i]
      BY <1>2, <2>1, AppendProperties
    <3> QED
      BY <3>1, LenProperties
  <2>3. LogHeld'
    <3>1. Range(q) = Range(r) \cup {o}
      BY <2>1, AppendRange
    <3> QED
      BY <1>1, <1>6, <2>1, <3>1 DEF LogHeld
  <2>4. SnapHeld'
    <3>1. PICK k \in Nat : k = Len(snap)
      BY LenProperties DEF TypeOK
    <3>2. k <= z /\ snap = SubSeq(r, 1, k)
      BY <1>1, <1>2, <3>1 DEF SnapHeld
    <3>3. SubSeq(q, 1, k) = SubSeq(r, 1, k)
      <4>1. \A i \in 1..k : r[i] \in Op /\ q[i] = r[i]
        BY <1>3, <2>2, <3>2
      <4>2. \A i \in 1..k : q[i] \in Op
        BY <4>1
      <4>3. k \in Int /\ 1 \in Int
        OBVIOUS
      <4>4. /\ SubSeq(r, 1, k) \in Seq(Op)
            /\ Len(SubSeq(r, 1, k)) = IF 1 <= k THEN k - 1 + 1 ELSE 0
            /\ \A i \in 1..k - 1 + 1 : SubSeq(r, 1, k)[i] = r[1 + i - 1]
        BY <4>1, <4>3, SubSeqProperties
      <4>5. /\ SubSeq(q, 1, k) \in Seq(Op)
            /\ Len(SubSeq(q, 1, k)) = IF 1 <= k THEN k - 1 + 1 ELSE 0
            /\ \A i \in 1..k - 1 + 1 : SubSeq(q, 1, k)[i] = q[1 + i - 1]
        BY <4>2, <4>3, SubSeqProperties
      <4>6. PICK u \in Seq(Op) : u = SubSeq(r, 1, k)
        BY <4>4, Zenon
      <4>7. PICK v \in Seq(Op) : v = SubSeq(q, 1, k)
        BY <4>5, Zenon
      <4>8. Len(v) = k /\ Len(u) = k
        BY <4>4, <4>5, <4>6, <4>7
      <4>9. \A i \in 1..k : v[i] = q[i] /\ u[i] = r[i]
        BY <4>4, <4>5, <4>6, <4>7
      <4>10. v = u
        BY <4>1, <4>8, <4>9, SeqEqual
      <4> QED
        BY <4>6, <4>7, <4>10
    <3>4. Len(snap) <= Len(q) /\ snap = SubSeq(q, 1, Len(snap))
      BY <2>2, <3>1, <3>2, <3>3
    <3> QED
      BY <1>6, <2>1, <3>4 DEF SnapHeld
  <2>5. next \in Nat /\ next' \in Nat /\ o.n \in Nat
    BY MaxOpsAssumption DEF TypeOK, Op
  <2>6. ASSUME NEW i \in 1..z + 1
        PROVE  /\ q[i].n < next'
               /\ \A j \in DOMAIN buffer' : q[i].n < buffer'[j].n
               /\ \A j \in 1..z + 1 : j < i => q[j].n < q[i].n
    <3>1. CASE i = z + 1
      <4>1. \A j \in 1..z + 1 : j < i => j \in 1..z
        BY <3>1
      <4> QED
        BY <1>1, <1>3, <2>2, <3>1, <4>1
    <3>2. CASE i # z + 1
      <4>1. i \in 1..z /\ \A j \in 1..z + 1 : j < i => j \in 1..z
        BY <3>2
      <4>2. q[i] = r[i] /\ r[i].n \in Nat /\ r[i].n < next
        BY <1>3, <2>2, <4>1
      <4>3. \A j \in 1..z : j < i => r[j].n < r[i].n
        BY <1>1, <1>3, <4>1 DEF OrderHeld, Ascending
      <4>4. \A j \in DOMAIN buffer' : r[i].n < buffer'[j].n
        BY <1>1, <1>3, <4>1
      <4> QED
        BY <2>2, <2>5, <4>1, <4>2, <4>3, <4>4
    <3> QED
      BY <3>1, <3>2
  <2>7. Ascending(q)
    BY <2>2, <2>6 DEF Ascending
  <2>8. OrderHeld'
    <3>1. Records' = q
      BY <1>6, <2>1
    <3>2. Ascending(Records)'
      BY <2>7, <3>1 DEF Ascending
    <3>3. Ascending(buffer)'
      BY DEF Ascending
    <3> QED
      BY <2>2, <2>6, <3>1, <3>2, <3>3 DEF OrderHeld
  <2> QED
    BY <1>4, <2>3, <2>4, <2>8
<1> QED
  BY <1>1, <1>5, <1>6

Harms == {"splice", "unlinked", "shadow", "overwrite"}

(* A part of a record is written: where it does no harm, the log has at    *)
(* most that record more, and has it if all of it was written.             *)
LEMMA Written ==
    ASSUME TypeOK, NEW s, NEW o \in Op, NEW k \in 0..RecordLen[o], gz' = gz,
           \/ Land(SubSeq(Record(o), 1, k))
           \/ WriteVia(s, SubSeq(Record(o), 1, k))
    PROVE  /\ plain'.exists \in BOOLEAN /\ plain'.bytes \in Seq(Byte)
           /\ ~plain'.exists => plain'.bytes = <<>>
           /\ harm \subseteq harm' /\ harm' \subseteq Harms
           /\ harm' = {} /\ Readable =>
                /\ Readable' /\ plain'.exists /\ (plain.exists \/ ~gz.exists)
                /\ Records' = Records \/ Records' = Append(Records, o)
                /\ k = RecordLen[o] => Records' = Append(Records, o)
<1> DEFINE p == SubSeq(Record(o), 1, k)
<1>1. plain.bytes \in Seq(Byte) /\ gz.bytes \in Seq(Byte) /\ harm \subseteq Harms
      /\ plain.exists \in BOOLEAN /\ gz.exists \in BOOLEAN
      /\ (~plain.exists => plain.bytes = <<>>)
  BY DEF TypeOK, Harms
<1>2. p \in Seq(Byte)
  <2>1. Record(o) \in Seq(Byte) /\ Len(Record(o)) = RecordLen[o] /\ RecordLen[o] \in Nat
    BY RecordLine, OpConstants
  <2>2. k \in Nat /\ k <= Len(Record(o))
    BY <2>1
  <2> QED
    BY <2>1, <2>2, Prefix
<1>3. Len(p) = k
  <2>1. Record(o) \in Seq(Byte) /\ Len(Record(o)) = RecordLen[o] /\ RecordLen[o] \in Nat
    BY RecordLine, OpConstants
  <2>2. k \in Nat /\ k <= Len(Record(o))
    BY <2>1
  <2> QED
    BY <2>1, <2>2, Prefix
<1> HIDE DEF p
<1>4. CASE fd[s] = "orphan" /\ harm' = harm \cup {"unlinked"} /\ UNCHANGED plain
  <2>1. harm' # {} /\ harm \subseteq harm' /\ harm' \subseteq Harms /\ plain' = plain
    BY <1>1, <1>4 DEF Harms
  <2> QED
    BY <1>1, <2>1
<1>5. CASE Land(p)
  <2>1. plain' = [exists |-> TRUE, bytes |-> plain.bytes \o p]
    BY <1>5 DEF Land, File
  <2>2. plain.bytes \o p \in Seq(Byte)
    BY <1>1, <1>2, ConcatProperties
  <2>3. plain'.exists = TRUE /\ plain'.bytes = plain.bytes \o p
    BY <2>1
  <2>4. harm \subseteq harm' /\ harm' \subseteq Harms
    BY <1>1, <1>5 DEF Land, Harms
  <2>5. ASSUME harm' = {}, Readable
        PROVE  /\ Readable' /\ (plain.exists \/ ~gz.exists)
               /\ Records' = Records \/ Records' = Append(Records, o)
               /\ k = RecordLen[o] => Records' = Append(Records, o)
    <3>1. p = <<>> \/ TornTail(plain.bytes) = <<>>
      BY <1>5, <2>5 DEF Land
    <3>2. plain.exists \/ ~gz.exists
      BY <1>5, <2>5 DEF Land
    <3>3. LogBytes = plain.bytes
      BY <3>2 DEF LogBytes, probe_compressed
    <3>4. LogBytes' = plain.bytes \o p
      BY <2>3 DEF LogBytes, probe_compressed
    <3>5. k = 0 \/ TornTail(plain.bytes) = <<>>
      BY <1>3, <3>1
    <3>6. ~Corrupted(plain.bytes)
      BY <2>5, <3>3 DEF Readable
    <3>7. /\ ~Corrupted(plain.bytes \o p)
          /\ \/ ReadAll(plain.bytes \o p) = ReadAll(plain.bytes)
             \/ ReadAll(plain.bytes \o p) = Append(ReadAll(plain.bytes), o)
          /\ k = RecordLen[o] => ReadAll(plain.bytes \o p) = Append(ReadAll(plain.bytes), o)
      BY <1>1, <3>5, <3>6, PartLanded DEF p
    <3>8. Readable' /\ Records = ReadAll(plain.bytes) /\ Records' = ReadAll(plain.bytes \o p)
      BY <3>3, <3>4, <3>7 DEF Readable, Records
    <3> QED
      BY <3>2, <3>7, <3>8
  <2> QED
    BY <2>2, <2>3, <2>4, <2>5
<1> QED
  BY <1>4, <1>5 DEF WriteVia, p

LEMMA JournalConstants ==
    /\ MaxOps \in Nat /\ MaxScopes \in Nat /\ 1 \in Scopes /\ MaxCrashes \in Nat
    /\ MaxFails \in Nat /\ MaxArchives \in Nat /\ MaxPasses \in Nat /\ MaxRestores \in Nat
  BY JournalAssumption, MaxOpsAssumption DEF Scopes

LEMMA NewOpType ==
    ASSUME TypeOK, next <= MaxOps, NEW kind \in Kinds
    PROVE  /\ NewOp(kind) \in Op /\ NewOp(kind).n = next
           /\ next + 1 \in 1..MaxOps + 1 /\ next \in Nat
<1>1. next \in 1..MaxOps /\ next \in Nat /\ next + 1 \in 1..MaxOps + 1
  BY JournalConstants DEF TypeOK
<1> QED
  BY <1>1 DEF NewOp, Op

(* A whole record is the part of it that has its length. *)
LEMMA WholePart ==
    ASSUME NEW o \in Op
    PROVE  Record(o) = SubSeq(Record(o), 1, RecordLen[o]) /\ RecordLen[o] \in 0..RecordLen[o]
<1>1. Record(o) \in Seq(Byte) /\ Len(Record(o)) = RecordLen[o]
  BY RecordLine
<1>2. RecordLen[o] \in Nat
  BY OpConstants
<1> QED
  BY <1>1, <1>2, SubSeqFull

(* Nobody writes while the first scope's log is not created or flushed. *)
LEMMA NoWriters ==
    ASSUME TypeOK, SlotHeld, slot # "writer"
    PROVE  Writers = {} /\ busy = {}
<1>1. made = 1 /\ busy = {} /\ slot \in {"deferred", "flushing"}
  BY DEF SlotHeld, TypeOK
<1>2. ASSUME NEW s \in Writers PROVE FALSE
  <2>1. s \in Scopes /\ fd[s] # "none" /\ (slot = "flushing" => s # 1)
    BY <1>2 DEF Writers
  <2>2. s \in Nat /\ 1 <= s
    BY <2>1, JournalConstants DEF Scopes
  <2>3. s <= made
    BY <1>1, <2>1, <2>2 DEF SlotHeld
  <2>4. s = 1
    BY <1>1, <2>2, <2>3
  <2> QED
    BY <1>1, <2>1, <2>4 DEF SlotHeld
<1> QED
  BY <1>1, <1>2

(* record_op through an installed writer (RecordVia), as one step. *)
LEMMA Recorded ==
    ASSUME JournalInv, NEW s \in Scopes, NEW kind \in Kinds, RecordVia(s, kind), buffer' = buffer
    PROVE  /\ gz' = gz /\ snap' = snap
           /\ UNCHANGED <<crashes, archives, passes, restores>>
           /\ plain'.exists \in BOOLEAN /\ plain'.bytes \in Seq(Byte)
           /\ ~plain'.exists => plain'.bytes = <<>>
           /\ harm \subseteq harm' /\ harm' \subseteq Harms
           /\ next' \in 1..MaxOps + 1 /\ fails' \in 0..MaxFails
           /\ acked' \subseteq Op /\ failed' \subseteq Scopes
           /\ harm' = {} /\ buffer = <<>> =>
                /\ LogHeld' /\ OrderHeld' /\ SnapHeld' /\ LogMoves
                /\ plain'.exists /\ (plain.exists \/ ~gz.exists)
<1> DEFINE o == NewOp(kind)
<1>1. TypeOK
  BY DEF JournalInv
<1>2. /\ next <= MaxOps /\ next' = next + 1 /\ gz' = gz /\ snap' = snap
      /\ UNCHANGED <<crashes, archives, passes, restores>>
  BY DEF RecordVia
<1>3. o \in Op /\ o.n = next /\ next' \in 1..MaxOps + 1 /\ next \in Nat
  BY <1>1, <1>2, NewOpType
<1>4. \/ /\ RecordOk(s, o) /\ UNCHANGED <<fails, failed>>
      \/ /\ RecordFailed(s, o) /\ UNCHANGED acked
  BY DEF RecordVia
<1> HIDE DEF o
<1>5. PICK k \in 0..RecordLen[o] :
        /\ WriteVia(s, SubSeq(Record(o), 1, k))
        /\ acked' = acked \/ (acked' = acked \cup {o} /\ k = RecordLen[o])
  <2>1. CASE RecordOk(s, o)
    BY <1>3, <2>1, WholePart DEF RecordOk
  <2>2. CASE RecordFailed(s, o) /\ UNCHANGED acked
    BY <2>2 DEF RecordFailed
  <2> QED
    BY <1>4, <2>1, <2>2
<1>6. fails' \in 0..MaxFails /\ failed' \subseteq Scopes
  BY <1>1, <1>4, JournalConstants DEF RecordFailed, TypeOK
<1>7. acked' \subseteq Op
  BY <1>1, <1>3, <1>5 DEF TypeOK
<1>8. /\ plain'.exists \in BOOLEAN /\ plain'.bytes \in Seq(Byte)
      /\ ~plain'.exists => plain'.bytes = <<>>
      /\ harm \subseteq harm' /\ harm' \subseteq Harms
      /\ harm' = {} /\ Readable =>
            /\ Readable' /\ plain'.exists /\ (plain.exists \/ ~gz.exists)
            /\ Records' = Records \/ Records' = Append(Records, o)
            /\ k = RecordLen[o] => Records' = Append(Records, o)
  BY <1>1, <1>2, <1>3, <1>5, Written
<1>9. ASSUME harm' = {}, buffer = <<>>
      PROVE  /\ LogHeld' /\ OrderHeld' /\ SnapHeld' /\ LogMoves
             /\ plain'.exists /\ (plain.exists \/ ~gz.exists)
  <2>1. harm = {}
    BY <1>8, <1>9
  <2>2. LogHeld /\ OrderHeld /\ SnapHeld
    BY <2>1 DEF JournalInv
  <2>3. Readable
    BY <2>2 DEF LogHeld
  <2>4. Ascending(buffer') /\ DOMAIN buffer' = {}
    BY <1>9 DEF Ascending
  <2>5. \A i \in DOMAIN Records : Records[i].n < o.n
    BY <1>3, <2>2 DEF OrderHeld
  <2>6. next' \in Nat /\ next <= next' /\ o.n < next'
    BY <1>2, <1>3
  <2>7. /\ Readable' /\ plain'.exists /\ (plain.exists \/ ~gz.exists)
        /\ Records' = Records \/ Records' = Append(Records, o)
        /\ acked' = acked \/ (acked' = acked \cup {o} /\ Records' = Append(Records, o))
    BY <1>5, <1>8, <1>9, <2>3
  <2> QED
    BY <1>1, <1>2, <1>3, <2>2, <2>4, <2>5, <2>6, <2>7, LogGrows
<1> QED
  BY <1>2, <1>3, <1>6, <1>7, <1>8, <1>9

\* What every step has to keep, and what it does to the log.
JournalKept == JournalInv' /\ harm \subseteq harm' /\ (harm' = {} => LogMoves)

LEMMA ReplayedType ==
    ASSUME TypeOK
    PROVE  Replayed \in Seq(Op)
<1>1. PICK r \in Seq(Op) : r = Records
  BY LogType
<1>2. PICK z \in Nat : z = Len(r)
  BY LenProperties
<1>3. PICK k \in Nat : k = Len(snap)
  BY LenProperties DEF TypeOK
<1>4. PICK m \in Int : m = k + 1 /\ 1 <= m
  OBVIOUS
<1>5. SubSeq(r, m, z) \in Seq(Op)
  <2>1. \A i \in m..z : r[i] \in Op
    BY <1>2, <1>4, ElementOfSeq
  <2>2. z \in Int
    OBVIOUS
  <2> QED
    BY <2>1, <2>2, SubSeqProperties
<1>6. snap \o SubSeq(r, m, z) \in Seq(Op)
  BY <1>5, ConcatProperties DEF TypeOK
<1> QED
  BY <1>1, <1>2, <1>3, <1>4, <1>6 DEF Replayed

(* A step that leaves the log where a reader finds it. *)
LEMMA QuietStep ==
    ASSUME JournalInv, TypeOK', harm \subseteq harm', acked' = acked, next' = next,
           buffer' = buffer \/ buffer' = <<>>, snap' = snap \/ snap' = Replayed,
           harm' = {} => LogBytes' = LogBytes /\ SlotHeld' /\ SwapHeld'
    PROVE  JournalKept
<1>1. ASSUME harm' = {} PROVE LogHeld' /\ OrderHeld' /\ SnapHeld' /\ LogMoves
  <2>1. harm = {}
    BY <1>1
  <2>2. LogHeld /\ OrderHeld /\ SnapHeld /\ TypeOK
    BY <2>1 DEF JournalInv
  <2> QED
    BY <1>1, <2>2, LogStays
<1> QED
  BY <1>1 DEF JournalKept, JournalInv

LEMMA SameLog == UNCHANGED <<plain, gz>> => LogBytes' = LogBytes
  BY DEF LogBytes, probe_compressed

LEMMA InstalledKeeps == JournalInv /\ Installed => JournalKept
<1> SUFFICES ASSUME JournalInv, Installed PROVE JournalKept
  OBVIOUS
<1>1. TypeOK
  BY DEF JournalInv
<1>2. UNCHANGED <<plain, gz, snap, acked, harm, next, buffer>>
  BY DEF Installed, disk, row, scope, tasks, bounds, past
<1>3. TypeOK'
  BY <1>1, JournalConstants, SMTT(30) DEF TypeOK, Handles, Scopes, Installed, disk, row, scope, tasks, bounds, past
<1>4. ASSUME harm = {} PROVE SlotHeld' /\ SwapHeld'
  <2>1. SlotHeld /\ SwapHeld
    BY <1>4 DEF JournalInv
  <2>2. SlotHeld'
    BY <1>1, <2>1 DEF SlotHeld, TypeOK, Scopes, Installed, disk, row, scope, tasks, bounds, past
  <2>3. SwapHeld'
    BY <1>1, <2>1 DEF SwapHeld, TypeOK, Installed, disk, row, scope, tasks, bounds, past
  <2> QED
    BY <2>2, <2>3
<1> QED
  BY <1>2, <1>3, <1>4, SameLog, QuietStep

LEMMA ArchiveRowKeeps == JournalInv /\ ArchiveRow => JournalKept
<1> SUFFICES ASSUME JournalInv, ArchiveRow PROVE JournalKept
  OBVIOUS
<1>1. TypeOK
  BY DEF JournalInv
<1>2. UNCHANGED <<plain, gz, snap, acked, harm, next, buffer>>
  BY DEF ArchiveRow, disk, row, scope, tasks, bounds, past
<1>3. TypeOK'
  <2>1. UNCHANGED <<plain, gz, marker, snap, live, made, fd, busy, memArchived, slot,
                     buffer, resume, lock, comp, copy, heal, rest, recovery, next, crashes,
                     fails, archives, passes, restores, acked, failed, harm>>
    BY DEF ArchiveRow, disk, row, scope, tasks, bounds, past
  <2>2. archived' \in BOOLEAN /\ archiving' \in BOOLEAN
    BY Zenon DEF ArchiveRow
  <2> QED
    BY <1>1, <2>1, <2>2 DEF TypeOK
<1>4. ASSUME harm = {} PROVE SlotHeld' /\ SwapHeld'
  <2>1. SlotHeld /\ SwapHeld
    BY <1>4 DEF JournalInv
  <2>2. SlotHeld'
    BY <1>1, <2>1 DEF SlotHeld, TypeOK, Scopes, ArchiveRow, disk, row, scope, tasks, bounds, past
  <2>3. SwapHeld'
    BY <1>1, <2>1 DEF SwapHeld, TypeOK, ArchiveRow, disk, row, scope, tasks, bounds, past
  <2> QED
    BY <2>2, <2>3
<1> QED
  BY <1>2, <1>3, <1>4, SameLog, QuietStep

LEMMA ResumeKeeps == JournalInv /\ Resume => JournalKept
<1> SUFFICES ASSUME JournalInv, Resume PROVE JournalKept
  OBVIOUS
<1>1. TypeOK
  BY DEF JournalInv
<1>2. UNCHANGED <<plain, gz, snap, acked, harm, next, buffer>>
  BY DEF Resume, disk, row, scope, tasks, bounds, past, BeginResume, probe_compressed
<1>3. TypeOK'
  BY <1>1, JournalConstants, SMTT(30) DEF TypeOK, Handles, Scopes, Resume, disk, row, scope, tasks, bounds, past, BeginResume, probe_compressed
<1>4. ASSUME harm = {} PROVE SlotHeld' /\ SwapHeld'
  <2>1. SlotHeld /\ SwapHeld
    BY <1>4 DEF JournalInv
  <2>2. SlotHeld'
    BY <1>1, <2>1 DEF SlotHeld, TypeOK, Scopes, Resume, disk, row, scope, tasks, bounds, past, BeginResume, probe_compressed
  <2>3. SwapHeld'
    BY <1>1, <2>1 DEF SwapHeld, TypeOK, Resume, disk, row, scope, tasks, bounds, past, BeginResume, probe_compressed
  <2> QED
    BY <2>2, <2>3
<1> QED
  BY <1>2, <1>3, <1>4, SameLog, QuietStep

LEMMA ResumeReplayKeeps == JournalInv /\ ResumeReplay => JournalKept
<1> SUFFICES ASSUME JournalInv, ResumeReplay PROVE JournalKept
  OBVIOUS
<1>1. TypeOK
  BY DEF JournalInv
<1>2. UNCHANGED <<plain, gz, snap, acked, harm, next, buffer>>
  BY DEF ResumeReplay, disk, row, scope, tasks, bounds, past
<1>3. TypeOK'
  BY <1>1, JournalConstants, SMTT(30) DEF TypeOK, Handles, Scopes, ResumeReplay, disk, row, scope, tasks, bounds, past
<1>4. ASSUME harm = {} PROVE SlotHeld' /\ SwapHeld'
  <2>1. SlotHeld /\ SwapHeld
    BY <1>4 DEF JournalInv
  <2>2. SlotHeld'
    BY <1>1, <2>1 DEF SlotHeld, TypeOK, Scopes, ResumeReplay, disk, row, scope, tasks, bounds, past
  <2>3. SwapHeld'
    BY <1>1, <2>1 DEF SwapHeld, TypeOK, ResumeReplay, disk, row, scope, tasks, bounds, past
  <2> QED
    BY <2>2, <2>3
<1> QED
  BY <1>2, <1>3, <1>4, SameLog, QuietStep

LEMMA ScanKeeps == JournalInv /\ Scan => JournalKept
<1> SUFFICES ASSUME JournalInv, Scan PROVE JournalKept
  OBVIOUS
<1>1. TypeOK
  BY DEF JournalInv
<1>2. UNCHANGED <<plain, gz, snap, acked, harm, next, buffer>>
  BY DEF Scan, disk, row, scope, tasks, bounds, past, HealVerdict
<1>3. TypeOK'
  <2>1. UNCHANGED <<plain, gz, archived, marker, snap, live, made, fd, busy, memArchived,
                     slot, buffer, resume, archiving, lock, copy, rest, recovery, next,
                     crashes, fails, archives, passes, restores, acked, failed, harm>>
    BY DEF Scan, disk, row, scope, tasks, bounds, past
  <2>2. comp' = "candidate"
    BY DEF Scan
  <2>3. heal' \in {"none", "set", "clear"}
    BY Zenon DEF Scan, HealVerdict
  <2> QED
    BY <1>1, <2>1, <2>2, <2>3 DEF TypeOK
<1>4. ASSUME harm = {} PROVE SlotHeld' /\ SwapHeld'
  <2>1. SlotHeld /\ SwapHeld
    BY <1>4 DEF JournalInv
  <2>2. SlotHeld'
    BY <1>1, <2>1 DEF SlotHeld, TypeOK, Scopes, Scan, disk, row, scope, tasks, bounds, past, HealVerdict
  <2>3. SwapHeld'
    BY <1>1, <2>1 DEF SwapHeld, TypeOK, Scan, disk, row, scope, tasks, bounds, past, HealVerdict
  <2> QED
    BY <2>2, <2>3
<1> QED
  BY <1>2, <1>3, <1>4, SameLog, QuietStep

LEMMA HealKeeps == JournalInv /\ Heal => JournalKept
<1> SUFFICES ASSUME JournalInv, Heal PROVE JournalKept
  OBVIOUS
<1>1. TypeOK
  BY DEF JournalInv
<1>2. UNCHANGED <<plain, gz, snap, acked, harm, next, buffer>>
  BY DEF Heal, disk, row, scope, tasks, bounds, past
<1>3. TypeOK'
  <2>1. UNCHANGED <<plain, gz, archived, snap, live, made, fd, busy, memArchived, slot,
                     buffer, resume, archiving, lock, copy, rest, recovery, next, crashes,
                     fails, archives, passes, restores, acked, failed, harm>>
    BY DEF Heal, disk, row, scope, tasks, bounds, past
  <2>2. comp' = "due" /\ heal' = "none"
    BY DEF Heal
  <2>3. marker' \in BOOLEAN
    <3>1. marker' = IF heal = "none" THEN marker ELSE heal = "set"
      BY Zenon DEF Heal
    <3>2. marker \in BOOLEAN
      BY <1>1 DEF TypeOK
    <3> QED
      BY <3>1, <3>2, Zenon
  <2> QED
    BY <1>1, <2>1, <2>2, <2>3 DEF TypeOK
<1>4. ASSUME harm = {} PROVE SlotHeld' /\ SwapHeld'
  <2>1. SlotHeld /\ SwapHeld
    BY <1>4 DEF JournalInv
  <2>2. SlotHeld'
    BY <1>1, <2>1 DEF SlotHeld, TypeOK, Scopes, Heal, disk, row, scope, tasks, bounds, past
  <2>3. SwapHeld'
    BY <1>1, <2>1 DEF SwapHeld, TypeOK, Heal, disk, row, scope, tasks, bounds, past
  <2> QED
    BY <2>2, <2>3
<1> QED
  BY <1>2, <1>3, <1>4, SameLog, QuietStep

LEMMA CompressNowKeeps == JournalInv /\ CompressNow => JournalKept
<1> SUFFICES ASSUME JournalInv, CompressNow PROVE JournalKept
  OBVIOUS
<1>1. TypeOK
  BY DEF JournalInv
<1>2. UNCHANGED <<plain, gz, snap, acked, harm, next, buffer>>
  BY DEF CompressNow, disk, row, scope, tasks, bounds, past, Handle
<1>3. TypeOK'
  BY <1>1, JournalConstants, SMTT(30) DEF TypeOK, Handles, Scopes, CompressNow, disk, row, scope, tasks, bounds, past, Handle
<1>4. ASSUME harm = {} PROVE SlotHeld' /\ SwapHeld'
  <2>1. SlotHeld /\ SwapHeld
    BY <1>4 DEF JournalInv
  <2>2. SlotHeld'
    BY <1>1, <2>1 DEF SlotHeld, TypeOK, Scopes, CompressNow, disk, row, scope, tasks, bounds, past, Handle
  <2>3. SwapHeld'
    BY <1>1, <2>1 DEF SwapHeld, TypeOK, CompressNow, disk, row, scope, tasks, bounds, past, Handle
  <2> QED
    BY <2>2, <2>3
<1> QED
  BY <1>2, <1>3, <1>4, SameLog, QuietStep

LEMMA NotDueKeeps == JournalInv /\ NotDue => JournalKept
<1> SUFFICES ASSUME JournalInv, NotDue PROVE JournalKept
  OBVIOUS
<1>1. TypeOK
  BY DEF JournalInv
<1>2. UNCHANGED <<plain, gz, snap, acked, harm, next, buffer>>
  BY DEF NotDue, disk, row, scope, tasks, bounds, past
<1>3. TypeOK'
  BY <1>1, JournalConstants, SMTT(30) DEF TypeOK, Handles, Scopes, NotDue, disk, row, scope, tasks, bounds, past
<1>4. ASSUME harm = {} PROVE SlotHeld' /\ SwapHeld'
  <2>1. SlotHeld /\ SwapHeld
    BY <1>4 DEF JournalInv
  <2>2. SlotHeld'
    BY <1>1, <2>1 DEF SlotHeld, TypeOK, Scopes, NotDue, disk, row, scope, tasks, bounds, past
  <2>3. SwapHeld'
    BY <1>1, <2>1 DEF SwapHeld, TypeOK, NotDue, disk, row, scope, tasks, bounds, past
  <2> QED
    BY <2>2, <2>3
<1> QED
  BY <1>2, <1>3, <1>4, SameLog, QuietStep

LEMMA LockKeeps == JournalInv /\ Lock => JournalKept
<1> SUFFICES ASSUME JournalInv, Lock PROVE JournalKept
  OBVIOUS
<1>1. TypeOK
  BY DEF JournalInv
<1>2. UNCHANGED <<plain, gz, snap, acked, harm, next, buffer>>
  BY DEF Lock, disk, row, scope, tasks, bounds, past, probe_compressed
<1>3. TypeOK'
  BY <1>1, JournalConstants, SMTT(30) DEF TypeOK, Handles, Scopes, Lock, disk, row, scope, tasks, bounds, past, probe_compressed
<1>4. ASSUME harm = {} PROVE SlotHeld' /\ SwapHeld'
  <2>1. SlotHeld /\ SwapHeld
    BY <1>4 DEF JournalInv
  <2>2. SlotHeld'
    BY <1>1, <2>1 DEF SlotHeld, TypeOK, Scopes, Lock, disk, row, scope, tasks, bounds, past, probe_compressed
  <2>3. SwapHeld'
    BY <1>1, <2>1 DEF SwapHeld, TypeOK, Lock, disk, row, scope, tasks, bounds, past, probe_compressed
  <2> QED
    BY <2>2, <2>3
<1> QED
  BY <1>2, <1>3, <1>4, SameLog, QuietStep

LEMMA CopyKeeps == JournalInv /\ Copy => JournalKept
<1> SUFFICES ASSUME JournalInv, Copy PROVE JournalKept
  OBVIOUS
<1>1. TypeOK
  BY DEF JournalInv
<1>2. UNCHANGED <<plain, gz, snap, acked, harm, next, buffer>>
  BY DEF Copy, disk, row, scope, tasks, bounds, past
<1>3. TypeOK'
  BY <1>1, JournalConstants, SMTT(30) DEF TypeOK, Handles, Scopes, Copy, disk, row, scope, tasks, bounds, past
<1>4. ASSUME harm = {} PROVE SlotHeld' /\ SwapHeld'
  <2>1. SlotHeld /\ SwapHeld
    BY <1>4 DEF JournalInv
  <2>2. SlotHeld'
    BY <1>1, <2>1 DEF SlotHeld, TypeOK, Scopes, Copy, disk, row, scope, tasks, bounds, past
  <2>3. SwapHeld'
    BY <1>1, <2>1 DEF SwapHeld, TypeOK, Copy, disk, row, scope, tasks, bounds, past
  <2> QED
    BY <2>2, <2>3
<1> QED
  BY <1>2, <1>3, <1>4, SameLog, QuietStep

LEMMA StampKeeps == JournalInv /\ Stamp => JournalKept
<1> SUFFICES ASSUME JournalInv, Stamp PROVE JournalKept
  OBVIOUS
<1>1. TypeOK
  BY DEF JournalInv
<1>2. UNCHANGED <<plain, gz, snap, acked, harm, next, buffer>>
  BY DEF Stamp, disk, row, scope, tasks, bounds, past
<1>3. TypeOK'
  <2>1. UNCHANGED <<plain, gz, archived, snap, live, made, fd, busy, memArchived, slot,
                     buffer, resume, archiving, copy, heal, rest, recovery, next, crashes,
                     archives, passes, restores, acked, failed, harm>>
    BY DEF Stamp, disk, row, scope, tasks, bounds, past
  <2>2. comp' = "idle" /\ lock' = "free" /\ fails' \in 0..MaxFails
    <3>1. comp' = "idle" /\ lock' = "free"
      BY DEF Stamp
    <3>2. fails' = fails \/ (fails < MaxFails /\ fails' = fails + 1)
      BY Zenon DEF Stamp
    <3>3. fails \in 0..MaxFails
      BY <1>1 DEF TypeOK
    <3> QED
      BY <3>1, <3>2, <3>3, JournalConstants
  <2>3. marker' \in BOOLEAN
    <3>1. marker \in BOOLEAN
      BY <1>1 DEF TypeOK
    <3> QED
      BY <3>1, Zenon DEF Stamp
  <2> QED
    BY <1>1, <2>1, <2>2, <2>3 DEF TypeOK
<1>4. ASSUME harm = {} PROVE SlotHeld' /\ SwapHeld'
  <2>1. SlotHeld /\ SwapHeld
    BY <1>4 DEF JournalInv
  <2>2. SlotHeld'
    BY <1>1, <2>1 DEF SlotHeld, TypeOK, Scopes, Stamp, disk, row, scope, tasks, bounds, past
  <2>3. SwapHeld'
    BY <1>1, <2>1 DEF SwapHeld, TypeOK, Stamp, disk, row, scope, tasks, bounds, past
  <2> QED
    BY <2>2, <2>3
<1> QED
  BY <1>2, <1>3, <1>4, SameLog, QuietStep

LEMMA RestoreKeeps == JournalInv /\ Restore => JournalKept
<1> SUFFICES ASSUME JournalInv, Restore PROVE JournalKept
  OBVIOUS
<1>1. TypeOK
  BY DEF JournalInv
<1>2. UNCHANGED <<plain, gz, snap, acked, harm, next, buffer>>
  BY DEF Restore, disk, row, scope, tasks, bounds, past
<1>3. TypeOK'
  BY <1>1, JournalConstants, SMTT(30) DEF TypeOK, Handles, Scopes, Restore, disk, row, scope, tasks, bounds, past
<1>4. ASSUME harm = {} PROVE SlotHeld' /\ SwapHeld'
  <2>1. SlotHeld /\ SwapHeld
    BY <1>4 DEF JournalInv
  <2>2. SlotHeld'
    BY <1>1, <2>1 DEF SlotHeld, TypeOK, Scopes, Restore, disk, row, scope, tasks, bounds, past
  <2>3. SwapHeld'
    BY <1>1, <2>1 DEF SwapHeld, TypeOK, Restore, disk, row, scope, tasks, bounds, past
  <2> QED
    BY <2>2, <2>3
<1> QED
  BY <1>2, <1>3, <1>4, SameLog, QuietStep

LEMMA RestoreProbeKeeps == JournalInv /\ RestoreProbe => JournalKept
<1> SUFFICES ASSUME JournalInv, RestoreProbe PROVE JournalKept
  OBVIOUS
<1>1. TypeOK
  BY DEF JournalInv
<1>2. UNCHANGED <<plain, gz, snap, acked, harm, next, buffer>>
  BY DEF RestoreProbe, disk, row, scope, tasks, bounds, past, probe_compressed
<1>3. TypeOK'
  BY <1>1, JournalConstants, SMTT(30) DEF TypeOK, Handles, Scopes, RestoreProbe, disk, row, scope, tasks, bounds, past, probe_compressed
<1>4. ASSUME harm = {} PROVE SlotHeld' /\ SwapHeld'
  <2>1. SlotHeld /\ SwapHeld
    BY <1>4 DEF JournalInv
  <2>2. SlotHeld'
    BY <1>1, <2>1 DEF SlotHeld, TypeOK, Scopes, RestoreProbe, disk, row, scope, tasks, bounds, past, probe_compressed
  <2>3. SwapHeld'
    BY <1>1, <2>1 DEF SwapHeld, TypeOK, RestoreProbe, disk, row, scope, tasks, bounds, past, probe_compressed
  <2> QED
    BY <2>2, <2>3
<1> QED
  BY <1>2, <1>3, <1>4, SameLog, QuietStep

LEMMA ClearFlagsKeeps == JournalInv /\ ClearFlags => JournalKept
<1> SUFFICES ASSUME JournalInv, ClearFlags PROVE JournalKept
  OBVIOUS
<1>1. TypeOK
  BY DEF JournalInv
<1>2. UNCHANGED <<plain, gz, snap, acked, harm, next, buffer>>
  BY DEF ClearFlags, disk, row, scope, tasks, bounds, past
<1>3. TypeOK'
  <2>1. UNCHANGED <<plain, gz, snap, live, made, fd, busy, memArchived, slot, buffer,
                     resume, archiving, comp, copy, heal, recovery, next, crashes, fails,
                     archives, passes, restores, acked, failed, harm>>
    BY DEF ClearFlags, disk, row, scope, tasks, bounds, past
  <2>2. rest' = "resume" /\ lock' = "free"
    BY DEF ClearFlags
  <2>3. archived' \in BOOLEAN /\ marker' \in BOOLEAN
    BY Zenon DEF ClearFlags
  <2> QED
    BY <1>1, <2>1, <2>2, <2>3 DEF TypeOK
<1>4. ASSUME harm = {} PROVE SlotHeld' /\ SwapHeld'
  <2>1. SlotHeld /\ SwapHeld
    BY <1>4 DEF JournalInv
  <2>2. SlotHeld'
    BY <1>1, <2>1 DEF SlotHeld, TypeOK, Scopes, ClearFlags, disk, row, scope, tasks, bounds, past
  <2>3. SwapHeld'
    BY <1>1, <2>1 DEF SwapHeld, TypeOK, ClearFlags, disk, row, scope, tasks, bounds, past
  <2> QED
    BY <2>2, <2>3
<1> QED
  BY <1>2, <1>3, <1>4, SameLog, QuietStep

LEMMA RestoreResumeKeeps == JournalInv /\ RestoreResume => JournalKept
<1> SUFFICES ASSUME JournalInv, RestoreResume PROVE JournalKept
  OBVIOUS
<1>1. TypeOK
  BY DEF JournalInv
<1>2. UNCHANGED <<plain, gz, snap, acked, harm, next, buffer>>
  BY DEF RestoreResume, disk, row, scope, tasks, bounds, past, BeginResume, probe_compressed
<1>3. TypeOK'
  BY <1>1, JournalConstants, SMTT(30) DEF TypeOK, Handles, Scopes, RestoreResume, disk, row, scope, tasks, bounds, past, BeginResume, probe_compressed
<1>4. ASSUME harm = {} PROVE SlotHeld' /\ SwapHeld'
  <2>1. SlotHeld /\ SwapHeld
    BY <1>4 DEF JournalInv
  <2>2. SlotHeld'
    BY <1>1, <2>1 DEF SlotHeld, TypeOK, Scopes, RestoreResume, disk, row, scope, tasks, bounds, past, BeginResume, probe_compressed
  <2>3. SwapHeld'
    BY <1>1, <2>1 DEF SwapHeld, TypeOK, RestoreResume, disk, row, scope, tasks, bounds, past, BeginResume, probe_compressed
  <2> QED
    BY <2>2, <2>3
<1> QED
  BY <1>2, <1>3, <1>4, SameLog, QuietStep

LEMMA RestoreDoneKeeps == JournalInv /\ RestoreDone => JournalKept
<1> SUFFICES ASSUME JournalInv, RestoreDone PROVE JournalKept
  OBVIOUS
<1>1. TypeOK
  BY DEF JournalInv
<1>2. UNCHANGED <<plain, gz, snap, acked, harm, next, buffer>>
  BY DEF RestoreDone, disk, row, scope, tasks, bounds, past
<1>3. TypeOK'
  <2>1. UNCHANGED <<plain, gz, snap, live, made, fd, busy, slot, buffer, resume,
                     archiving, lock, comp, copy, heal, recovery, next, crashes, fails,
                     archives, passes, restores, acked, failed, harm>>
    BY DEF RestoreDone, disk, row, scope, tasks, bounds, past
  <2>2. rest' = "idle"
    BY DEF RestoreDone
  <2>3. archived' \in BOOLEAN /\ marker' \in BOOLEAN /\ memArchived' \in BOOLEAN
    BY Zenon DEF RestoreDone
  <2> QED
    BY <1>1, <2>1, <2>2, <2>3 DEF TypeOK
<1>4. ASSUME harm = {} PROVE SlotHeld' /\ SwapHeld'
  <2>1. SlotHeld /\ SwapHeld
    BY <1>4 DEF JournalInv
  <2>2. SlotHeld'
    BY <1>1, <2>1 DEF SlotHeld, TypeOK, Scopes, RestoreDone, disk, row, scope, tasks, bounds, past
  <2>3. SwapHeld'
    BY <1>1, <2>1 DEF SwapHeld, TypeOK, RestoreDone, disk, row, scope, tasks, bounds, past
  <2> QED
    BY <2>2, <2>3
<1> QED
  BY <1>2, <1>3, <1>4, SameLog, QuietStep

LEMMA RecoveryScanKeeps == JournalInv /\ RecoveryScan => JournalKept
<1> SUFFICES ASSUME JournalInv, RecoveryScan PROVE JournalKept
  OBVIOUS
<1>1. TypeOK
  BY DEF JournalInv
<1>2. UNCHANGED <<plain, gz, snap, acked, harm, next, buffer>>
  BY DEF RecoveryScan, disk, row, scope, tasks, bounds, past
<1>3. TypeOK'
  BY <1>1, JournalConstants, SMTT(30) DEF TypeOK, Handles, Scopes, RecoveryScan, disk, row, scope, tasks, bounds, past
<1>4. ASSUME harm = {} PROVE SlotHeld' /\ SwapHeld'
  <2>1. SlotHeld /\ SwapHeld
    BY <1>4 DEF JournalInv
  <2>2. SlotHeld'
    BY <1>1, <2>1 DEF SlotHeld, TypeOK, Scopes, RecoveryScan, disk, row, scope, tasks, bounds, past
  <2>3. SwapHeld'
    BY <1>1, <2>1 DEF SwapHeld, TypeOK, RecoveryScan, disk, row, scope, tasks, bounds, past
  <2> QED
    BY <2>2, <2>3
<1> QED
  BY <1>2, <1>3, <1>4, SameLog, QuietStep

LEMMA FileType ==
    ASSUME TypeOK
    PROVE  /\ plain.exists \in BOOLEAN /\ plain.bytes \in Seq(Byte)
           /\ ~plain.exists => plain.bytes = <<>>
           /\ gz.exists \in BOOLEAN /\ gz.bytes \in Seq(Byte)
           /\ ~gz.exists => gz.bytes = <<>>
  BY DEF TypeOK

LEMMA MaterializeKeeps == JournalInv /\ Materialize => JournalKept
<1> SUFFICES ASSUME JournalInv, Materialize PROVE JournalKept
  OBVIOUS
<1>1. TypeOK
  BY DEF JournalInv
<1>2. UNCHANGED <<gz, archived, marker, snap, live, made, busy, memArchived, buffer,
               resume, archiving, lock, comp, copy, heal, rest, recovery, next,
               crashes, fails, archives, passes, restores, acked, failed, harm>>
  BY DEF Materialize, disk, row, scope, tasks, bounds, past
<1>3. /\ live = 1 /\ slot = "deferred" /\ slot' = "flushing"
      /\ plain' = [exists |-> TRUE, bytes |-> <<>>] /\ fd' = [fd EXCEPT ![1] = "linked"]
  BY DEF Materialize, File
<1>4. plain'.exists = TRUE /\ plain'.bytes = <<>> /\ <<>> \in Seq(Byte)
  BY <1>3
<1>5. fd \in [Scopes -> Handles] /\ 1 \in Scopes
  BY <1>1, JournalConstants DEF TypeOK
<1>6. fd' \in [Scopes -> Handles] /\ \A s \in Scopes : s # 1 => fd'[s] = fd[s]
  BY <1>3, <1>5 DEF Handles
<1>7. TypeOK'
  BY <1>1, <1>2, <1>3, <1>4, <1>6, SMTT(30) DEF TypeOK
<1>8. ASSUME harm = {} PROVE LogBytes' = LogBytes /\ SlotHeld' /\ SwapHeld'
  <2>1. SlotHeld /\ SwapHeld
    BY <1>8 DEF JournalInv
  <2>2. ~plain.exists /\ ~gz.exists /\ made = 1
    BY <1>3, <2>1 DEF SlotHeld
  <2>3. plain.bytes = <<>>
    BY <1>1, <2>2, FileType
  <2>4. LogBytes' = LogBytes
    BY <1>2, <1>4, <2>2, <2>3 DEF LogBytes, probe_compressed
  <2>5. SlotHeld'
    <3>1. \A s \in Scopes : s > made => s # 1
      BY <2>2
    <3> QED
      BY <1>2, <1>3, <1>6, <2>1, <2>2, <3>1 DEF SlotHeld
  <2>6. SwapHeld'
    BY <1>2, <1>4, <2>1, <2>2 DEF SwapHeld
  <2> QED
    BY <2>4, <2>5, <2>6
<1> QED
  BY <1>2, <1>7, <1>8, QuietStep

(* close_session's part that leaves the workspace map. *)
LEMMA ClosedLive ==
    ASSUME TypeOK, live # 0, CloseLive
    PROVE  /\ live' = 0 /\ fd' \in [Scopes -> Handles]
           /\ \A s \in Scopes : fd'[s] = fd[s] \/ fd'[s] = "none"
           /\ snap' = snap \/ snap' = Replayed
           /\ snap' \in Seq(Op) /\ archived' \in BOOLEAN
<1>1. live \in Scopes /\ fd \in [Scopes -> Handles]
  BY JournalConstants DEF TypeOK, Scopes
<1>2. live' = 0 /\ fd' = [fd EXCEPT ![live] = Handle(live)]
  BY DEF CloseLive
<1>3. Handle(live) = fd[live] \/ Handle(live) = "none"
  BY DEF Handle
<1>4. fd' \in [Scopes -> Handles] /\ \A s \in Scopes : fd'[s] = fd[s] \/ fd'[s] = "none"
  BY <1>1, <1>2, <1>3 DEF Handles
<1>5. snap' = snap \/ snap' = Replayed
  BY DEF CloseLive
<1>6. snap' \in Seq(Op)
  BY <1>5, ReplayedType DEF TypeOK
<1>7. archived' \in BOOLEAN
  <2>1. archived \in BOOLEAN /\ memArchived \in BOOLEAN
    BY DEF TypeOK
  <2>2. archived' = IF fd[live] # "none" THEN memArchived ELSE archived
    BY Zenon DEF CloseLive
  <2> QED
    BY <2>1, <2>2, Zenon
<1> QED
  BY <1>2, <1>4, <1>5, <1>6, <1>7

(* A scope that leaves the map takes its handle with it, or nothing. *)
LEMMA SlotLeft ==
    ASSUME SlotHeld, slot # "flushing",
           UNCHANGED <<plain, gz, made, busy, slot, buffer, resume, recovery>>,
           \A s \in Scopes : fd'[s] = fd[s] \/ fd'[s] = "none"
    PROVE  SlotHeld'
  BY DEF SlotHeld

LEMMA CloseKeeps == JournalInv /\ Close => JournalKept
<1> SUFFICES ASSUME JournalInv, Close PROVE JournalKept
  OBVIOUS
<1>1. TypeOK
  BY DEF JournalInv
<1>2. UNCHANGED <<plain, gz, marker, made, busy, memArchived, slot, buffer, resume,
               archiving, lock, comp, copy, heal, rest, recovery, next, crashes,
               fails, archives, passes, restores, acked, failed, harm>>
  BY DEF Close, disk, row, scope, tasks, bounds, past
<1>3. live # 0 /\ slot # "flushing" /\ CloseLive
  BY DEF Close
<1>4. /\ live' = 0 /\ fd' \in [Scopes -> Handles]
      /\ \A s \in Scopes : fd'[s] = fd[s] \/ fd'[s] = "none"
      /\ snap' = snap \/ snap' = Replayed
      /\ snap' \in Seq(Op) /\ archived' \in BOOLEAN
  BY <1>1, <1>3, ClosedLive
<1>5. TypeOK'
  <2>1. live' \in 0..made'
    BY <1>1, <1>2, <1>4, JournalConstants DEF TypeOK, Scopes
  <2> QED
    BY <1>1, <1>2, <1>4, <2>1 DEF TypeOK
<1>6. ASSUME harm = {} PROVE SlotHeld' /\ SwapHeld'
  <2>1. SlotHeld /\ SwapHeld
    BY <1>6 DEF JournalInv
  <2>2. SlotHeld'
    BY <1>2, <1>3, <1>4, <2>1, SlotLeft
  <2>3. SwapHeld'
    BY <1>2, <2>1 DEF SwapHeld
  <2> QED
    BY <2>2, <2>3
<1> QED
  BY <1>2, <1>4, <1>5, <1>6, SameLog, QuietStep

LEMMA ArchiveKeeps == JournalInv /\ Archive => JournalKept
<1> SUFFICES ASSUME JournalInv, Archive PROVE JournalKept
  OBVIOUS
<1>1. TypeOK
  BY DEF JournalInv
<1>2. UNCHANGED <<plain, gz, marker, made, busy, memArchived, slot, buffer, resume,
               lock, comp, copy, heal, rest, recovery, next, crashes, fails,
               passes, restores, acked, failed, harm>>
  BY DEF Archive, disk, row, scope, tasks, bounds, past
<1>3. slot # "flushing" /\ archives < MaxArchives /\ archives' = archives + 1
  BY DEF Archive
<1>4. archiving' \in BOOLEAN
  BY Zenon DEF Archive
<1>5. /\ live' \in {0, live} /\ fd' \in [Scopes -> Handles]
      /\ \A s \in Scopes : fd'[s] = fd[s] \/ fd'[s] = "none"
      /\ snap' = snap \/ snap' = Replayed
      /\ snap' \in Seq(Op) /\ archived' \in BOOLEAN
  <2>1. CASE live # 0
    <3>1. CloseLive
      BY <2>1 DEF Archive
    <3> QED
      BY <1>1, <2>1, <3>1, ClosedLive
  <2>2. CASE live = 0
    <3>1. UNCHANGED <<live, fd, snap, archived>>
      BY <2>2 DEF Archive
    <3> QED
      BY <1>1, <3>1 DEF TypeOK
  <2> QED
    BY <2>1, <2>2
<1>6. TypeOK'
  <2>1. live' \in 0..made' /\ archives' \in 0..MaxArchives
    BY <1>1, <1>2, <1>3, <1>5, JournalConstants DEF TypeOK, Scopes
  <2> QED
    BY <1>1, <1>2, <1>4, <1>5, <2>1 DEF TypeOK
<1>7. ASSUME harm = {} PROVE SlotHeld' /\ SwapHeld'
  <2>1. SlotHeld /\ SwapHeld
    BY <1>7 DEF JournalInv
  <2>2. SlotHeld'
    BY <1>2, <1>3, <1>5, <2>1, SlotLeft
  <2>3. SwapHeld'
    BY <1>2, <2>1 DEF SwapHeld
  <2> QED
    BY <2>2, <2>3
<1> QED
  BY <1>2, <1>5, <1>6, <1>7, SameLog, QuietStep

(* compress_session: the temp file takes the compressed log's place while  *)
(* readers still find the plain one.                                       *)
LEMMA RenameGzKeeps == JournalInv /\ RenameGz => JournalKept
<1> SUFFICES ASSUME JournalInv, RenameGz PROVE JournalKept
  OBVIOUS
<1>1. TypeOK
  BY DEF JournalInv
<1>2. UNCHANGED <<plain, archived, marker, snap, live, made, fd, busy, memArchived,
               slot, buffer, resume, archiving, lock, heal, rest, recovery, next,
               crashes, fails, archives, passes, restores, acked, failed, harm>>
  BY DEF RenameGz, disk, row, scope, tasks, bounds, past
<1>3. comp = "copied" /\ comp' = "renamed" /\ gz' = [exists |-> TRUE, bytes |-> copy] /\ copy' = <<>>
  BY DEF RenameGz, File
<1>4. gz'.exists = TRUE /\ gz'.bytes = copy /\ copy \in Seq(Byte) /\ copy' \in Seq(Byte)
  BY <1>1, <1>3 DEF TypeOK
<1>5. TypeOK'
  BY <1>1, <1>2, <1>3, <1>4, SMTT(30) DEF TypeOK
<1>6. ASSUME harm = {} PROVE LogBytes' = LogBytes /\ SlotHeld' /\ SwapHeld'
  <2>1. SlotHeld /\ SwapHeld
    BY <1>6 DEF JournalInv
  <2>2. plain.exists /\ lock = "compress"
    BY <1>3, <2>1 DEF SwapHeld
  <2>3. LogBytes' = LogBytes
    BY <1>2, <2>2 DEF LogBytes, probe_compressed
  <2>4. SlotHeld'
    BY <1>2, <2>1, <2>2 DEF SlotHeld
  <2>5. SwapHeld'
    BY <1>2, <1>3, <2>1, <2>2 DEF SwapHeld
  <2> QED
    BY <2>3, <2>4, <2>5
<1> QED
  BY <1>2, <1>5, <1>6, QuietStep

(* The handles on a file that is unlinked. *)
LEMMA Unlinked ==
    ASSUME TypeOK, fd' = [s \in Scopes |-> IF fd[s] = "linked" THEN "orphan" ELSE fd[s]]
    PROVE  /\ fd' \in [Scopes -> Handles]
           /\ \A s \in Scopes : fd[s] = "none" => fd'[s] = "none"
<1>1. fd \in [Scopes -> Handles]
  BY DEF TypeOK
<1> QED
  BY <1>1 DEF Handles

(* The plain log goes: harmless if the compressed one holds the same bytes. *)
LEMMA RemovePlainKeeps == JournalInv /\ RemovePlain => JournalKept
<1> SUFFICES ASSUME JournalInv, RemovePlain PROVE JournalKept
  OBVIOUS
<1>1. TypeOK
  BY DEF JournalInv
<1>2. UNCHANGED <<gz, archived, marker, snap, live, made, busy, memArchived, slot,
               buffer, resume, archiving, lock, copy, heal, rest, recovery, next,
               crashes, archives, passes, restores, acked, failed>>
  BY DEF RemovePlain, disk, row, scope, tasks, bounds, past
<1>3. comp = "renamed" /\ comp' = "removed"
  BY DEF RemovePlain
<1>4. CASE /\ plain' = NoFile
           /\ fd' = [s \in Scopes |-> IF fd[s] = "linked" THEN "orphan" ELSE fd[s]]
           /\ harm' = IF plain.bytes # gz.bytes THEN harm \cup {"unlinked"} ELSE harm
           /\ UNCHANGED fails
  <2>1. plain' = [exists |-> FALSE, bytes |-> <<>>] /\ fails' = fails
    BY <1>4 DEF NoFile
  <2>2. plain'.exists = FALSE /\ plain'.bytes = <<>> /\ <<>> \in Seq(Byte)
    BY <2>1
  <2>3. fd' \in [Scopes -> Handles] /\ \A s \in Scopes : fd[s] = "none" => fd'[s] = "none"
    BY <1>1, <1>4, Unlinked
  <2>4. harm \subseteq harm' /\ harm' \subseteq {"splice", "unlinked", "shadow", "overwrite"}
    BY <1>1, <1>4 DEF TypeOK
  <2>5. TypeOK'
    BY <1>1, <1>2, <1>3, <2>1, <2>2, <2>3, <2>4, SMTT(30) DEF TypeOK
  <2>6. ASSUME harm' = {} PROVE LogBytes' = LogBytes /\ SlotHeld' /\ SwapHeld'
    <3>1. SlotHeld /\ SwapHeld /\ plain.bytes = gz.bytes
      BY <1>4, <2>4, <2>6 DEF JournalInv
    <3>2. plain.exists /\ lock = "compress"
      BY <1>3, <3>1 DEF SwapHeld
    <3>3. LogBytes = gz.bytes
      BY <3>1, <3>2 DEF LogBytes, probe_compressed
    <3>4. ~gz.exists => gz.bytes = <<>>
      BY <1>1, FileType
    <3>5. LogBytes' = gz.bytes
      BY <1>2, <2>2, <3>4 DEF LogBytes, probe_compressed
    <3>6. SlotHeld'
      BY <1>2, <2>3, <3>1, <3>2 DEF SlotHeld
    <3>7. SwapHeld'
      BY <1>2, <1>3, <3>1, <3>2 DEF SwapHeld
    <3> QED
      BY <3>3, <3>5, <3>6, <3>7
  <2> QED
    BY <1>2, <2>4, <2>5, <2>6, QuietStep
<1>5. CASE fails < MaxFails /\ fails' = fails + 1 /\ UNCHANGED <<plain, fd, harm>>
  <2>1. fails' \in 0..MaxFails
    BY <1>1, <1>5, JournalConstants DEF TypeOK
  <2>2. UNCHANGED <<plain, fd, harm>>
    BY <1>5
  <2>3. TypeOK'
    BY <1>1, <1>2, <1>3, <2>1, <2>2, SMTT(30) DEF TypeOK
  <2>4. ASSUME harm = {} PROVE SlotHeld' /\ SwapHeld'
    <3>1. SlotHeld /\ SwapHeld
      BY <2>4 DEF JournalInv
    <3>2. SlotHeld'
      BY <1>2, <2>2, <3>1 DEF SlotHeld
    <3>3. SwapHeld'
      BY <1>2, <1>3, <2>2, <3>1 DEF SwapHeld
    <3> QED
      BY <3>2, <3>3
  <2> QED
    BY <1>2, <2>2, <2>3, <2>4, SameLog, QuietStep
<1> QED
  BY <1>4, <1>5 DEF RemovePlain

(* decompress_wire_log: harmless if there is no plain log to replace. *)
LEMMA RenamePlainKeeps == JournalInv /\ RenamePlain => JournalKept
<1> SUFFICES ASSUME JournalInv, RenamePlain PROVE JournalKept
  OBVIOUS
<1>1. TypeOK
  BY DEF JournalInv
<1>2. UNCHANGED <<gz, archived, marker, snap, live, made, busy, memArchived, slot,
               buffer, resume, archiving, comp, copy, heal, recovery, next,
               crashes, archives, passes, restores, acked, failed>>
  BY DEF RenamePlain, disk, row, scope, tasks, bounds, past
<1>3. rest = "decode"
  BY DEF RenamePlain
<1>4. CASE /\ rest' = "renamed"
           /\ plain' = File(gz.bytes)
           /\ fd' = [s \in Scopes |-> IF fd[s] = "linked" THEN "orphan" ELSE fd[s]]
           /\ harm' = IF plain.bytes # <<>> THEN harm \cup {"overwrite"} ELSE harm
           /\ UNCHANGED <<lock, fails>>
  <2>1. plain' = [exists |-> TRUE, bytes |-> gz.bytes] /\ fails' = fails /\ lock' = lock
        /\ rest' = "renamed"
    BY <1>4 DEF File
  <2>2. plain'.exists = TRUE /\ plain'.bytes = gz.bytes /\ gz.bytes \in Seq(Byte)
    BY <1>1, <2>1, FileType
  <2>3. fd' \in [Scopes -> Handles] /\ \A s \in Scopes : fd[s] = "none" => fd'[s] = "none"
    BY <1>1, <1>4, Unlinked
  <2>4. harm \subseteq harm' /\ harm' \subseteq {"splice", "unlinked", "shadow", "overwrite"}
    BY <1>1, <1>4 DEF TypeOK
  <2>5. TypeOK'
    BY <1>1, <1>2, <2>1, <2>2, <2>3, <2>4, SMTT(30) DEF TypeOK
  <2>6. ASSUME harm' = {} PROVE LogBytes' = LogBytes /\ SlotHeld' /\ SwapHeld'
    <3>1. SlotHeld /\ SwapHeld
      BY <2>4, <2>6 DEF JournalInv
    <3>2. ~plain.exists /\ gz.exists /\ lock = "restore"
      BY <1>3, <3>1 DEF SwapHeld
    <3>3. LogBytes = gz.bytes
      BY <3>2 DEF LogBytes, probe_compressed
    <3>4. LogBytes' = gz.bytes
      BY <2>2 DEF LogBytes, probe_compressed
    <3>5. SlotHeld'
      BY <1>2, <2>3, <3>1, <3>2 DEF SlotHeld
    <3>6. SwapHeld'
      BY <1>2, <2>1, <2>2, <3>1, <3>2 DEF SwapHeld
    <3> QED
      BY <3>3, <3>4, <3>5, <3>6
  <2> QED
    BY <1>2, <2>4, <2>5, <2>6, QuietStep
<1>5. CASE /\ fails < MaxFails /\ fails' = fails + 1
           /\ rest' = "idle" /\ lock' = "free" /\ UNCHANGED <<plain, fd, harm>>
  <2>1. fails' \in 0..MaxFails
    BY <1>1, <1>5, JournalConstants DEF TypeOK
  <2>2. UNCHANGED <<plain, fd, harm>> /\ rest' = "idle" /\ lock' = "free"
    BY <1>5
  <2>3. TypeOK'
    BY <1>1, <1>2, <2>1, <2>2, SMTT(30) DEF TypeOK
  <2>4. ASSUME harm = {} PROVE SlotHeld' /\ SwapHeld'
    <3>1. SlotHeld /\ SwapHeld
      BY <2>4 DEF JournalInv
    <3>2. SlotHeld'
      BY <1>2, <2>2, <3>1 DEF SlotHeld
    <3>3. SwapHeld'
      BY <1>2, <1>3, <2>2, <3>1 DEF SwapHeld
    <3> QED
      BY <3>2, <3>3
  <2> QED
    BY <1>2, <2>2, <2>3, <2>4, SameLog, QuietStep
<1> QED
  BY <1>4, <1>5 DEF RenamePlain

LEMMA RemoveGzKeeps == JournalInv /\ RemoveGz => JournalKept
<1> SUFFICES ASSUME JournalInv, RemoveGz PROVE JournalKept
  OBVIOUS
<1>1. TypeOK
  BY DEF JournalInv
<1>2. UNCHANGED <<plain, archived, marker, snap, live, made, fd, busy, memArchived,
               slot, buffer, resume, archiving, lock, comp, copy, heal, recovery,
               next, crashes, fails, archives, passes, restores, acked, failed,
               harm>>
  BY DEF RemoveGz, disk, row, scope, tasks, bounds, past
<1>3. rest = "renamed" /\ rest' = "clear" /\ gz' = [exists |-> FALSE, bytes |-> <<>>]
  BY DEF RemoveGz, NoFile
<1>4. gz'.exists = FALSE /\ gz'.bytes = <<>> /\ <<>> \in Seq(Byte)
  BY <1>3
<1>5. TypeOK'
  BY <1>1, <1>2, <1>3, <1>4, SMTT(30) DEF TypeOK
<1>6. ASSUME harm = {} PROVE LogBytes' = LogBytes /\ SlotHeld' /\ SwapHeld'
  <2>1. SlotHeld /\ SwapHeld
    BY <1>6 DEF JournalInv
  <2>2. plain.exists /\ lock = "restore"
    BY <1>3, <2>1 DEF SwapHeld
  <2>3. LogBytes' = LogBytes
    BY <1>2, <2>2 DEF LogBytes, probe_compressed
  <2>4. SlotHeld'
    BY <1>2, <2>1, <2>2 DEF SlotHeld
  <2>5. SwapHeld'
    BY <1>2, <1>3, <2>1, <2>2 DEF SwapHeld
  <2> QED
    BY <2>3, <2>4, <2>5
<1> QED
  BY <1>2, <1>5, <1>6, QuietStep

(* open_for_append writes nothing: harmless unless it creates a plain log  *)
(* beside a compressed one.                                                *)
LEMMA ResumeOpenKeeps == JournalInv /\ ResumeOpen => JournalKept
<1> SUFFICES ASSUME JournalInv, ResumeOpen PROVE JournalKept
  OBVIOUS
<1>1. TypeOK
  BY DEF JournalInv
<1>2. UNCHANGED <<gz, archived, marker, snap, live, made, busy, memArchived, slot,
               buffer, archiving, lock, comp, copy, heal, rest, recovery, next,
               crashes, fails, archives, passes, restores, acked, failed>>
  BY DEF ResumeOpen, disk, row, scope, tasks, bounds, past
<1>3. resume = "open" /\ resume' = "idle"
  BY DEF ResumeOpen
<1>4. plain' = [exists |-> TRUE, bytes |-> plain.bytes \o <<>>]
  BY DEF ResumeOpen, open_for_append, Land, File
<1>5. plain.bytes \in Seq(Byte) /\ plain.bytes \o <<>> = plain.bytes
  BY <1>1, FileType, ConcatEmptySeq
<1>6. plain'.exists = TRUE /\ plain'.bytes = plain.bytes /\ plain'.bytes \in Seq(Byte)
  BY <1>4, <1>5
<1>7. harm' = harm \cup (IF ~plain.exists /\ gz.exists THEN {"shadow"} ELSE {})
  BY DEF ResumeOpen, open_for_append, Land
<1>8. harm \subseteq harm' /\ harm' \subseteq {"splice", "unlinked", "shadow", "overwrite"}
  BY <1>1, <1>7 DEF TypeOK
<1>9. /\ fd' \in [Scopes -> Handles]
      /\ \A s \in Scopes : s > made => fd'[s] = fd[s]
  <2>1. fd \in [Scopes -> Handles] /\ made \in Scopes /\ made \in Nat
    BY <1>1 DEF TypeOK, Scopes
  <2>2. fd' = fd \/ fd' = [fd EXCEPT ![made] = "linked"]
    BY DEF ResumeOpen
  <2>3. "linked" \in Handles
    BY DEF Handles
  <2> QED
    BY <2>1, <2>2, <2>3
<1>10. TypeOK'
  <2>1. plain'.exists = TRUE /\ plain'.bytes \in Seq(Byte)
    BY <1>6
  <2>2. fd' \in [Scopes -> Handles]
    BY <1>9
  <2>3. harm' \subseteq {"splice", "unlinked", "shadow", "overwrite"}
    BY <1>8
  <2>4. \A f \in {plain', gz'} :
            /\ f.exists \in BOOLEAN /\ f.bytes \in Seq(Byte)
            /\ ~f.exists => f.bytes = <<>>
    BY <1>1, <1>2, <2>1, FileType
  <2>5. resume' \in {"idle", "replay", "open"}
    BY <1>3
  <2> QED
    BY <1>1, <1>2, <2>2, <2>3, <2>4, <2>5 DEF TypeOK
<1>11. ASSUME harm' = {} PROVE LogBytes' = LogBytes /\ SlotHeld' /\ SwapHeld'
  <2>1. SlotHeld /\ SwapHeld
    BY <1>8, <1>11 DEF JournalInv
  <2>2. plain.exists \/ ~gz.exists
    BY <1>7, <1>11
  <2>3. LogBytes = plain.bytes
    BY <2>2 DEF LogBytes, probe_compressed
  <2>4. LogBytes' = plain.bytes
    BY <1>6 DEF LogBytes, probe_compressed
  <2>5. slot = "writer"
    BY <1>3, <2>1 DEF SlotHeld
  <2>6. SlotHeld'
    BY <1>2, <1>3, <1>9, <2>1, <2>5 DEF SlotHeld
  <2>7. SwapHeld'
    BY <1>2, <1>6, <2>1, <2>2 DEF SwapHeld
  <2> QED
    BY <2>3, <2>4, <2>6, <2>7
<1> QED
  BY <1>2, <1>8, <1>10, <1>11, QuietStep

(* What a write leaves where the compression and the restore look for it. *)
LEMMA SwapLanded ==
    ASSUME SwapHeld, UNCHANGED <<gz, lock, comp, rest>>,
           plain'.exists, plain.exists \/ ~gz.exists
    PROVE  SwapHeld'
  BY DEF SwapHeld

(* A step of an installed writer. *)
LEMMA WriterStep ==
    ASSUME JournalInv, TypeOK', harm \subseteq harm',
           UNCHANGED <<gz, made, slot, buffer, lock, comp, rest>>,
           \A s \in Scopes : fd[s] = "none" => fd'[s] = "none",
           harm' = {} => /\ slot = "writer"
                         /\ plain'.exists /\ (plain.exists \/ ~gz.exists)
                         /\ LogHeld' /\ OrderHeld' /\ SnapHeld' /\ LogMoves
    PROVE  JournalKept
<1>1. ASSUME harm' = {} PROVE SlotHeld' /\ SwapHeld'
  <2>1. harm = {}
    BY <1>1
  <2>2. SlotHeld /\ SwapHeld
    BY <2>1 DEF JournalInv
  <2>3. SwapHeld'
    BY <1>1, <2>2, SwapLanded
  <2>4. SlotHeld'
    BY <1>1, <2>2 DEF SlotHeld
  <2> QED
    BY <2>3, <2>4
<1> QED
  BY <1>1 DEF JournalKept, JournalInv

(* A scope can write only once its writer is installed. *)
LEMMA WriterInstalled ==
    ASSUME JournalInv, harm = {}, Writers \cup busy # {}
    PROVE  slot = "writer" /\ buffer = <<>>
<1>1. TypeOK /\ SlotHeld
  BY DEF JournalInv
<1>2. slot = "writer"
  BY <1>1, NoWriters
<1> QED
  BY <1>1, <1>2 DEF SlotHeld

LEMMA RecordEventKeeps ==
    ASSUME JournalInv, NEW s \in Scopes, RecordEvent(s)
    PROVE  JournalKept
<1>1. TypeOK
  BY DEF JournalInv
<1>2. UNCHANGED <<archived, marker, live, made, fd, busy, memArchived, slot, buffer,
               resume, archiving, lock, comp, copy, heal, rest, recovery>>
  BY DEF RecordEvent, disk, row, scope, tasks, bounds, past
<1>3. s \in Writers /\ RecordVia(s, "event") /\ s \in Scopes /\ "event" \in Kinds
  BY <1>1 DEF RecordEvent, Writers, Kinds, TypeOK
<1>4. /\ gz' = gz /\ snap' = snap
      /\ UNCHANGED <<crashes, archives, passes, restores>>
      /\ plain'.exists \in BOOLEAN /\ plain'.bytes \in Seq(Byte)
      /\ ~plain'.exists => plain'.bytes = <<>>
      /\ harm \subseteq harm' /\ harm' \subseteq Harms
      /\ next' \in 1..MaxOps + 1 /\ fails' \in 0..MaxFails
      /\ acked' \subseteq Op /\ failed' \subseteq Scopes
      /\ harm' = {} /\ buffer = <<>> =>
           /\ LogHeld' /\ OrderHeld' /\ SnapHeld' /\ LogMoves
           /\ plain'.exists /\ (plain.exists \/ ~gz.exists)
  BY <1>2, <1>3, Recorded
<1>5. fd' = fd /\ busy' = busy
  BY <1>2
<1>6. TypeOK'
  <2>1. /\ gz' = gz /\ snap' = snap
        /\ UNCHANGED <<crashes, archives, passes, restores>>
        /\ plain'.exists \in BOOLEAN /\ plain'.bytes \in Seq(Byte)
        /\ ~plain'.exists => plain'.bytes = <<>>
        /\ harm' \subseteq {"splice", "unlinked", "shadow", "overwrite"}
        /\ next' \in 1..MaxOps + 1 /\ fails' \in 0..MaxFails
        /\ acked' \subseteq Op /\ failed' \subseteq Scopes
    BY <1>4 DEF Harms
  <2> QED
    BY <1>1, <1>2, <1>5, <2>1, SMTT(30) DEF TypeOK
<1>7. ASSUME harm' = {} PROVE slot = "writer" /\ buffer = <<>>
  <2>1. harm = {}
    BY <1>4, <1>7
  <2>2. Writers \cup busy # {}
    BY <1>3
  <2> QED
    BY <2>1, <2>2, WriterInstalled
<1> QED
  BY <1>2, <1>4, <1>5, <1>6, <1>7, WriterStep

LEMMA StartTurnKeeps ==
    ASSUME JournalInv, StartTurn
    PROVE  JournalKept
<1>1. TypeOK
  BY DEF JournalInv
<1>2. UNCHANGED <<archived, marker, live, made, fd, memArchived, slot, buffer,
               resume, archiving, lock, comp, copy, heal, rest, recovery>>
  BY DEF StartTurn, disk, row, scope, tasks, bounds, past
<1>3. live \in Writers /\ RecordVia(live, "prompt") /\ live \in Scopes /\ "prompt" \in Kinds
  BY <1>1 DEF StartTurn, Writers, Kinds, TypeOK
<1>4. /\ gz' = gz /\ snap' = snap
      /\ UNCHANGED <<crashes, archives, passes, restores>>
      /\ plain'.exists \in BOOLEAN /\ plain'.bytes \in Seq(Byte)
      /\ ~plain'.exists => plain'.bytes = <<>>
      /\ harm \subseteq harm' /\ harm' \subseteq Harms
      /\ next' \in 1..MaxOps + 1 /\ fails' \in 0..MaxFails
      /\ acked' \subseteq Op /\ failed' \subseteq Scopes
      /\ harm' = {} /\ buffer = <<>> =>
           /\ LogHeld' /\ OrderHeld' /\ SnapHeld' /\ LogMoves
           /\ plain'.exists /\ (plain.exists \/ ~gz.exists)
  BY <1>2, <1>3, Recorded
<1>5. fd' = fd /\ busy' \subseteq Scopes
  BY <1>1, <1>2, <1>3 DEF StartTurn, TypeOK
<1>6. TypeOK'
  <2>1. /\ gz' = gz /\ snap' = snap
        /\ UNCHANGED <<crashes, archives, passes, restores>>
        /\ plain'.exists \in BOOLEAN /\ plain'.bytes \in Seq(Byte)
        /\ ~plain'.exists => plain'.bytes = <<>>
        /\ harm' \subseteq {"splice", "unlinked", "shadow", "overwrite"}
        /\ next' \in 1..MaxOps + 1 /\ fails' \in 0..MaxFails
        /\ acked' \subseteq Op /\ failed' \subseteq Scopes
    BY <1>4 DEF Harms
  <2> QED
    BY <1>1, <1>2, <1>5, <2>1, SMTT(30) DEF TypeOK
<1>7. ASSUME harm' = {} PROVE slot = "writer" /\ buffer = <<>>
  <2>1. harm = {}
    BY <1>4, <1>7
  <2>2. Writers \cup busy # {}
    BY <1>3
  <2> QED
    BY <2>1, <2>2, WriterInstalled
<1> QED
  BY <1>2, <1>4, <1>5, <1>6, <1>7, WriterStep

LEMMA EndTurnKeeps ==
    ASSUME JournalInv, NEW s \in Scopes, EndTurn(s)
    PROVE  JournalKept
<1>1. TypeOK
  BY DEF JournalInv
<1>2. UNCHANGED <<archived, marker, live, made, memArchived, slot, buffer, resume,
               archiving, lock, comp, copy, heal, rest, recovery>>
  BY DEF EndTurn, disk, row, scope, tasks, bounds, past
<1>3. s \in busy /\ RecordVia(s, "ended") /\ s \in Scopes /\ "ended" \in Kinds
  BY <1>1 DEF EndTurn, Writers, Kinds, TypeOK
<1>4. /\ gz' = gz /\ snap' = snap
      /\ UNCHANGED <<crashes, archives, passes, restores>>
      /\ plain'.exists \in BOOLEAN /\ plain'.bytes \in Seq(Byte)
      /\ ~plain'.exists => plain'.bytes = <<>>
      /\ harm \subseteq harm' /\ harm' \subseteq Harms
      /\ next' \in 1..MaxOps + 1 /\ fails' \in 0..MaxFails
      /\ acked' \subseteq Op /\ failed' \subseteq Scopes
      /\ harm' = {} /\ buffer = <<>> =>
           /\ LogHeld' /\ OrderHeld' /\ SnapHeld' /\ LogMoves
           /\ plain'.exists /\ (plain.exists \/ ~gz.exists)
  BY <1>2, <1>3, Recorded
<1>5. /\ busy' \subseteq Scopes /\ fd' \in [Scopes -> Handles]
      /\ \A r \in Scopes : fd[r] = "none" => fd'[r] = "none"

  <2>1. fd \in [Scopes -> Handles] /\ busy \subseteq Scopes /\ "none" \in Handles
    BY <1>1 DEF TypeOK, Handles
  <2>2. busy' = busy \ {s} /\ (fd' = fd \/ fd' = [fd EXCEPT ![s] = "none"])
    BY DEF EndTurn
  <2> QED
    BY <2>1, <2>2
<1>6. TypeOK'
  <2>1. fd' \in [Scopes -> Handles] /\ busy' \subseteq Scopes
    BY <1>5
  <2>2. /\ gz' = gz /\ snap' = snap
        /\ UNCHANGED <<crashes, archives, passes, restores>>
        /\ plain'.exists \in BOOLEAN /\ plain'.bytes \in Seq(Byte)
        /\ ~plain'.exists => plain'.bytes = <<>>
        /\ harm' \subseteq {"splice", "unlinked", "shadow", "overwrite"}
        /\ next' \in 1..MaxOps + 1 /\ fails' \in 0..MaxFails
        /\ acked' \subseteq Op /\ failed' \subseteq Scopes
    BY <1>4 DEF Harms
  <2> QED
    BY <1>1, <1>2, <2>1, <2>2, SMTT(30) DEF TypeOK
<1>7. ASSUME harm' = {} PROVE slot = "writer" /\ buffer = <<>>
  <2>1. harm = {}
    BY <1>4, <1>7
  <2>2. Writers \cup busy # {}
    BY <1>3
  <2> QED
    BY <2>1, <2>2, WriterInstalled
<1> QED
  BY <1>2, <1>4, <1>5, <1>6, <1>7, WriterStep

(* An op recorded before the log exists waits behind the others. *)
LEMMA RecordDeferredKeeps == JournalInv /\ RecordDeferred => JournalKept
<1> SUFFICES ASSUME JournalInv, RecordDeferred PROVE JournalKept
  OBVIOUS
<1>1. TypeOK
  BY DEF JournalInv
<1>2. UNCHANGED <<plain, gz, archived, marker, snap, live, made, fd, busy,
               memArchived, slot, resume, archiving, lock, comp, copy, heal,
               rest, recovery, crashes, fails, archives, passes, restores, acked,
               failed, harm>>
  BY DEF RecordDeferred, disk, row, scope, tasks, bounds, past
<1>3. /\ slot = "deferred" /\ next <= MaxOps /\ next' = next + 1
      /\ buffer' = Append(buffer, NewOp("event"))
  BY DEF RecordDeferred
<1>4. PICK o \in Op : o = NewOp("event") /\ o.n = next /\ next' \in 1..MaxOps + 1 /\ next \in Nat
  BY <1>1, <1>3, NewOpType DEF Kinds
<1>5. PICK b \in Seq(Op) : b = buffer
  BY <1>1 DEF TypeOK
<1>6. PICK c \in Seq(Op) : c = Append(b, o) /\ buffer' = c
  BY <1>3, <1>4, <1>5, AppendProperties
<1>7. TypeOK'
  <2>1. buffer' \in Seq(Op) /\ next' \in 1..MaxOps + 1
    BY <1>4, <1>6
  <2> QED
    BY <1>1, <1>2, <2>1, SMTT(30) DEF TypeOK
<1>8. ASSUME harm = {} PROVE LogHeld' /\ OrderHeld' /\ SnapHeld' /\ SlotHeld' /\ SwapHeld' /\ LogMoves
  <2>1. LogHeld /\ OrderHeld /\ SnapHeld /\ SlotHeld /\ SwapHeld
    BY <1>8 DEF JournalInv
  <2>2. LogBytes' = LogBytes
    BY <1>2, SameLog
  <2>3. Records' = Records /\ Readable' = Readable
    BY <2>2 DEF Records, Readable
  <2>4. LogHeld' /\ SnapHeld' /\ LogMoves
    BY <1>2, <2>1, <2>3 DEF LogHeld, SnapHeld, LogMoves
  <2>5. SlotHeld'
    BY <1>2, <1>3, <2>1 DEF SlotHeld
  <2>6. SwapHeld'
    BY <1>2, <2>1 DEF SwapHeld
  <2>7. PICK r \in Seq(Op) : r = Records
    BY <1>1, LogType
  <2>8. PICK z \in Nat : z = Len(b)
    BY LenProperties
  <2>9. /\ DOMAIN b = 1..z /\ DOMAIN c = 1..z + 1 /\ c[z + 1] = o
        /\ \A i \in 1..z : c[i] = b[i]
    <3>1. Len(c) = z + 1 /\ c[z + 1] = o /\ \A i \in 1..z : c[i] = b[i]
      BY <1>6, <2>8, AppendProperties
    <3> QED
      BY <2>8, <3>1, LenProperties
  <2>10. \A j \in 1..z : b[j].n < next /\ b[j].n \in Nat
    <3>1. \A j \in 1..z : b[j] \in Op
      BY <2>8, ElementOfSeq
    <3>2. \A p \in Op : p.n \in Nat
      BY DEF Op
    <3> QED
      BY <1>5, <2>1, <2>9, <3>1, <3>2 DEF OrderHeld
  <2>11. \A i \in DOMAIN r : r[i].n < next /\ r[i].n \in Nat
    <3>1. \A j \in DOMAIN r : r[j] \in Op
      BY LenProperties, ElementOfSeq
    <3>2. \A p \in Op : p.n \in Nat
      BY DEF Op
    <3> QED
      BY <2>1, <2>7, <3>1, <3>2 DEF OrderHeld
  <2>12. ASSUME NEW j \in 1..z + 1
         PROVE  /\ c[j].n < next'
                /\ \A i \in DOMAIN r : r[i].n < c[j].n
                /\ \A i \in 1..z + 1 : i < j => c[i].n < c[j].n
    <3>1. CASE j = z + 1
      <4>1. c[j].n = next /\ \A i \in 1..z + 1 : i < j => i \in 1..z
        BY <1>4, <2>9, <3>1
      <4> QED
        BY <1>3, <1>4, <2>9, <2>10, <2>11, <4>1
    <3>2. CASE j # z + 1
      <4>1. j \in 1..z /\ \A i \in 1..z + 1 : i < j => i \in 1..z
        BY <3>2
      <4>2. c[j] = b[j] /\ b[j].n < next /\ b[j].n \in Nat
        BY <2>9, <2>10, <4>1
      <4>3. \A i \in 1..z : i < j => b[i].n < b[j].n
        BY <1>5, <2>1, <2>9, <4>1 DEF OrderHeld, Ascending
      <4>4. \A i \in DOMAIN r : r[i].n < b[j].n
        BY <1>5, <2>1, <2>7, <2>9, <4>1 DEF OrderHeld
      <4>5. \A i \in 1..z + 1 : i < j => c[i].n < c[j].n
        BY <2>9, <4>1, <4>2, <4>3
      <4>6. \A i \in DOMAIN r : r[i].n < c[j].n
        BY <4>2, <4>4
      <4>7. c[j].n < next'
        BY <1>3, <1>4, <4>2
      <4> QED
        BY <4>5, <4>6, <4>7
    <3> QED
      BY <3>1, <3>2
  <2>13. Ascending(c)
    BY <2>9, <2>12 DEF Ascending
  <2>14. OrderHeld'
    <3>1. Records' = r /\ buffer' = c
      BY <1>6, <2>3, <2>7
    <3>2. Ascending(buffer)'
      BY <2>13, <3>1 DEF Ascending
    <3>3. Ascending(Records)'
      BY <2>1, <2>3 DEF OrderHeld, Ascending
    <3>4. \A i \in DOMAIN r : r[i].n < next'
      BY <1>3, <1>4, <2>11
    <3> QED
      BY <2>9, <2>12, <3>1, <3>2, <3>3, <3>4 DEF OrderHeld
  <2> QED
    BY <2>4, <2>5, <2>6, <2>14
<1> QED
  BY <1>2, <1>7, <1>8 DEF JournalKept, JournalInv

(* flush_deferred: the oldest op that waits is the next in the log. *)
LEMMA FlushOneKeeps ==
    ASSUME JournalInv, FlushOne
    PROVE  JournalKept
<1>1. TypeOK
  BY DEF JournalInv
<1>2. UNCHANGED <<gz, archived, marker, snap, live, made, fd, busy, memArchived,
               slot, resume, archiving, lock, comp, copy, heal, rest, recovery,
               next, crashes, archives, passes, restores>>
  BY DEF FlushOne, disk, row, scope, tasks, bounds, past
<1>3. slot = "flushing" /\ buffer # <<>> /\ buffer' = Tail(buffer)
  BY DEF FlushOne
<1>4. PICK b \in Seq(Op) : b = buffer /\ b # <<>>
  BY <1>1, <1>3 DEF TypeOK
<1>5. PICK z \in Nat : z = Len(b) /\ 1 <= z
  BY <1>4, LenProperties, EmptySeq
<1>6. /\ DOMAIN b = 1..z
      /\ \A i \in 1..z : b[i] \in Op /\ b[i].n \in Nat
  <2>1. DOMAIN b = 1..z /\ \A i \in 1..z : b[i] \in Op
    BY <1>5, LenProperties, ElementOfSeq
  <2>2. \A p \in Op : p.n \in Nat
    BY DEF Op
  <2> QED
    BY <2>1, <2>2
<1>7. PICK o \in Op : o = NextFlushed /\ o = b[1]
  <2>1. Head(b) = b[1] /\ b[1] \in Op
    BY <1>4, <1>5, <1>6, HeadTailProperties
  <2> QED
    BY <1>4, <2>1 DEF NextFlushed
<1>8. PICK c \in Seq(Op) :
         /\ c = buffer' /\ DOMAIN c = 1..z - 1
         /\ \A i \in 1..z - 1 : c[i] = b[i + 1]
  <2>1. PICK c \in Seq(Op) : c = Tail(b)
    BY <1>4, HeadTailProperties
  <2>2. Len(c) = z - 1 /\ \A i \in 1..z - 1 : c[i] = b[i + 1]
    BY <1>4, <1>5, <2>1, HeadTailProperties
  <2>3. DOMAIN c = 1..z - 1
    BY <2>2, LenProperties
  <2> QED
    BY <1>3, <1>4, <2>1, <2>2, <2>3
<1>9. PICK k \in 0..RecordLen[o] :
        /\ WriteVia(1, SubSeq(Record(o), 1, k))
        /\ acked' = acked \/ (acked' = acked \cup {o} /\ k = RecordLen[o])
  <2>1. CASE RecordOk(1, NextFlushed)
    BY <1>7, <2>1, WholePart DEF RecordOk
  <2>2. CASE RecordFailed(1, NextFlushed) /\ UNCHANGED acked
    BY <1>7, <2>2 DEF RecordFailed
  <2> QED
    BY <2>1, <2>2 DEF FlushOne
<1>10. fails' \in 0..MaxFails /\ failed' \subseteq Scopes
  <2>1. \/ UNCHANGED <<fails, failed>>
        \/ fails < MaxFails /\ fails' = fails + 1 /\ failed' = failed \cup {1}
    BY DEF FlushOne, RecordFailed
  <2> QED
    BY <1>1, <2>1, JournalConstants DEF TypeOK
<1>11. acked' \subseteq Op
  BY <1>1, <1>9 DEF TypeOK
<1>12. /\ plain'.exists \in BOOLEAN /\ plain'.bytes \in Seq(Byte)
       /\ ~plain'.exists => plain'.bytes = <<>>
       /\ harm \subseteq harm' /\ harm' \subseteq Harms
       /\ harm' = {} /\ Readable =>
             /\ Readable' /\ plain'.exists /\ (plain.exists \/ ~gz.exists)
             /\ Records' = Records \/ Records' = Append(Records, o)
             /\ k = RecordLen[o] => Records' = Append(Records, o)
  BY <1>1, <1>2, <1>9, Written
<1>13. TypeOK'
  <2>1. \A f \in {plain', gz'} :
            /\ f.exists \in BOOLEAN /\ f.bytes \in Seq(Byte)
            /\ ~f.exists => f.bytes = <<>>
    BY <1>1, <1>2, <1>12, FileType
  <2>2. /\ harm' \subseteq {"splice", "unlinked", "shadow", "overwrite"}
        /\ buffer' \in Seq(Op)
    BY <1>8, <1>12 DEF Harms
  <2>3. /\ (archived \in BOOLEAN /\ marker \in BOOLEAN /\ memArchived \in BOOLEAN)'
        /\ (snap \in Seq(Op) /\ live \in 0..made /\ made \in Scopes)'
        /\ (fd \in [Scopes -> Handles] /\ busy \subseteq Scopes)'
        /\ (slot \in {"deferred", "flushing", "writer"})'
        /\ (resume \in {"idle", "replay", "open"} /\ archiving \in BOOLEAN)'
        /\ (lock \in {"free", "compress", "restore"})'
    BY <1>1, <1>2 DEF TypeOK
  <2>4. /\ (comp \in {"idle", "candidate", "due", "locked", "copied", "renamed", "removed"})'
        /\ (copy \in Seq(Byte) /\ heal \in {"none", "set", "clear"})'
        /\ (rest \in {"idle", "probe", "decode", "renamed", "clear", "resume", "resuming"})'
        /\ (recovery \in {"done", "due", "write"})'
        /\ (next \in 1..MaxOps + 1 /\ crashes \in 0..MaxCrashes /\ archives \in 0..MaxArchives)'
        /\ (passes \in 0..MaxPasses /\ restores \in 0..MaxRestores)'
    BY <1>1, <1>2 DEF TypeOK
  <2> QED
    BY <1>10, <1>11, <2>1, <2>2, <2>3, <2>4 DEF TypeOK
<1>14. ASSUME harm' = {}
       PROVE  LogHeld' /\ OrderHeld' /\ SnapHeld' /\ SlotHeld' /\ SwapHeld' /\ LogMoves
  <2>1. LogHeld /\ OrderHeld /\ SnapHeld /\ SlotHeld /\ SwapHeld
    BY <1>12, <1>14 DEF JournalInv
  <2>2. Readable
    BY <2>1 DEF LogHeld
  <2>3. /\ Readable' /\ plain'.exists /\ (plain.exists \/ ~gz.exists)
        /\ Records' = Records \/ Records' = Append(Records, o)
        /\ acked' = acked \/ (acked' = acked \cup {o} /\ Records' = Append(Records, o))
    BY <1>9, <1>12, <1>14, <2>2
  <2>4. \A i \in DOMAIN Records : Records[i].n < o.n
    BY <1>4, <1>5, <1>6, <1>7, <2>1 DEF OrderHeld
  <2>5. next' \in Nat /\ next <= next' /\ o.n < next' /\ next' = next
    <3>1. next \in Nat
      BY <1>1, JournalConstants DEF TypeOK
    <3>2. o.n < next
      BY <1>4, <1>5, <1>6, <1>7, <2>1 DEF OrderHeld
    <3> QED
      BY <1>2, <3>1, <3>2
  <2>6. \A i, j \in 1..z : i < j => b[i].n < b[j].n
    BY <1>4, <1>6, <2>1 DEF OrderHeld, Ascending
  <2>7. \A j \in 1..z : b[j].n < next
    BY <1>4, <1>6, <2>1 DEF OrderHeld
  <2>8. ASSUME NEW j \in 1..z - 1
        PROVE  /\ c[j] = b[j + 1] /\ c[j].n < next' /\ o.n < c[j].n
               /\ \A i \in 1..z - 1 : i < j => c[i].n < c[j].n
    <3>1. j + 1 \in 1..z /\ 1 \in 1..z /\ 1 < j + 1
      BY <1>5
    <3>2. c[j] = b[j + 1] /\ o.n < c[j].n /\ c[j].n < next'
      BY <1>7, <1>8, <2>5, <2>6, <2>7, <3>1
    <3>3. ASSUME NEW i \in 1..z - 1, i < j PROVE c[i].n < c[j].n
      <4>1. i + 1 \in 1..z /\ i + 1 < j + 1
        BY <1>5, <3>3
      <4>2. c[i] = b[i + 1]
        BY <1>8
      <4> QED
        BY <2>6, <3>1, <3>2, <4>1, <4>2
    <3> QED
      BY <3>2, <3>3
  <2>9. Ascending(c)
    BY <1>8, <2>8 DEF Ascending
  <2>10. \A j \in DOMAIN c : c[j].n < next' /\ o.n < c[j].n
    BY <1>8, <2>8
  <2>11. \A i \in DOMAIN Records, j \in DOMAIN c : Records[i].n < c[j].n
    <3>1. \A j \in DOMAIN c : j + 1 \in DOMAIN b /\ c[j] = b[j + 1]
      BY <1>5, <1>6, <1>8
    <3> QED
      BY <1>4, <2>1, <3>1 DEF OrderHeld
  <2>12. LogHeld' /\ OrderHeld' /\ SnapHeld' /\ LogMoves
    <3>1. Ascending(buffer')
      BY <1>8, <2>9
    <3>2. \A j \in DOMAIN buffer' : buffer'[j].n < next' /\ o.n < buffer'[j].n
      BY <1>8, <2>10
    <3>3. \A i \in DOMAIN Records, j \in DOMAIN buffer' : Records[i].n < buffer'[j].n
      BY <1>8, <2>11
    <3> QED
      BY <1>1, <1>2, <2>1, <2>3, <2>4, <2>5, <3>1, <3>2, <3>3, LogGrows
  <2>13. SwapHeld'
    BY <1>2, <2>1, <2>3, SwapLanded
  <2>14. SlotHeld'
    BY <1>2, <1>3, <2>1 DEF SlotHeld
  <2> QED
    BY <2>12, <2>13, <2>14
<1> QED
  BY <1>12, <1>13, <1>14 DEF JournalKept, JournalInv

(* The startup recovery's synthetic turn.ended. *)
LEMMA RecoveryWriteKeeps ==
    ASSUME JournalInv, RecoveryWrite
    PROVE  JournalKept
<1>1. TypeOK
  BY DEF JournalInv
<1>2. UNCHANGED <<gz, archived, marker, snap, live, made, fd, busy, memArchived,
               slot, buffer, resume, archiving, lock, comp, copy, heal, rest,
               crashes, fails, archives, passes, restores, failed>>
  BY DEF RecoveryWrite, disk, row, scope, tasks, bounds, past
<1>3. recovery = "write" /\ recovery' = "done" /\ next <= MaxOps
  BY DEF RecoveryWrite
<1>4. ASSUME harm = {} PROVE slot = "writer" /\ buffer = <<>>
  BY <1>3, <1>4 DEF JournalInv, SlotHeld
<1>5. PICK o \in Op : o = NewOp("ended") /\ o.n = next /\ next + 1 \in 1..MaxOps + 1 /\ next \in Nat
  BY <1>1, <1>3, NewOpType DEF Kinds
<1>6. CASE UNCHANGED <<plain, harm, acked, next>>
  <2>1. TypeOK'
    BY <1>1, <1>2, <1>3, <1>6, SMTT(30) DEF TypeOK
  <2>2. ASSUME harm = {} PROVE SlotHeld' /\ SwapHeld'
    <3>1. SlotHeld /\ SwapHeld
      BY <2>2 DEF JournalInv
    <3>2. SlotHeld'
      BY <1>2, <1>3, <1>6, <3>1 DEF SlotHeld
    <3>3. SwapHeld'
      BY <1>2, <1>6, <3>1 DEF SwapHeld
    <3> QED
      BY <3>2, <3>3
  <2> QED
    BY <1>2, <1>6, <2>1, <2>2, SameLog, QuietStep
<1>7. CASE /\ Land(Record(o)) \/ WriteVia(live, Record(o))
           /\ next' = next + 1 /\ acked' = acked \cup {o}
  <2>1. PICK k \in 0..RecordLen[o] : k = RecordLen[o] /\ Record(o) = SubSeq(Record(o), 1, k)
    BY WholePart
  <2>2. \/ Land(SubSeq(Record(o), 1, k))
        \/ WriteVia(live, SubSeq(Record(o), 1, k))
    BY <1>7, <2>1
  <2>3. /\ plain'.exists \in BOOLEAN /\ plain'.bytes \in Seq(Byte)
        /\ ~plain'.exists => plain'.bytes = <<>>
        /\ harm \subseteq harm' /\ harm' \subseteq Harms
        /\ harm' = {} /\ Readable =>
              /\ Readable' /\ plain'.exists /\ (plain.exists \/ ~gz.exists)
              /\ k = RecordLen[o] => Records' = Append(Records, o)
    BY <1>1, <1>2, <2>2, Written
  <2>4. TypeOK'
    <3>1. \A f \in {plain', gz'} :
              /\ f.exists \in BOOLEAN /\ f.bytes \in Seq(Byte)
              /\ ~f.exists => f.bytes = <<>>
      BY <1>1, <1>2, <2>3, FileType
    <3>2. harm' \subseteq {"splice", "unlinked", "shadow", "overwrite"}
      BY <2>3 DEF Harms
    <3>3. next' \in 1..MaxOps + 1 /\ acked' \subseteq Op
      BY <1>1, <1>5, <1>7 DEF TypeOK
    <3> QED
      BY <1>1, <1>2, <1>3, <3>1, <3>2, <3>3 DEF TypeOK
  <2>5. ASSUME harm' = {}
        PROVE  /\ slot = "writer" /\ plain'.exists /\ (plain.exists \/ ~gz.exists)
               /\ LogHeld' /\ OrderHeld' /\ SnapHeld' /\ LogMoves
    <3>1. harm = {}
      BY <2>3, <2>5
    <3>2. LogHeld /\ OrderHeld /\ SnapHeld
      BY <3>1 DEF JournalInv
    <3>3. Readable' /\ plain'.exists /\ (plain.exists \/ ~gz.exists) /\ Records' = Append(Records, o)
      BY <2>1, <2>3, <2>5, <3>2 DEF LogHeld
    <3>4. slot = "writer" /\ Ascending(buffer') /\ DOMAIN buffer' = {}
      BY <1>2, <1>4, <3>1 DEF Ascending
    <3>5. \A i \in DOMAIN Records : Records[i].n < o.n
      BY <1>5, <3>2 DEF OrderHeld
    <3>6. next' \in Nat /\ next <= next' /\ o.n < next'
      BY <1>5, <1>7
    <3> QED
      BY <1>1, <1>2, <1>7, <3>2, <3>3, <3>4, <3>5, <3>6, LogGrows
  <2> QED
    BY <1>2, <2>3, <2>4, <2>5, WriterStep
<1> QED
  BY <1>5, <1>6, <1>7 DEF RecoveryWrite, RecordOk

(* A crash leaves the files, with at most a part of one more record, and   *)
(* nothing of the tasks.                                                   *)
LEMMA CrashKeeps ==
    ASSUME JournalInv, Crash
    PROVE  JournalKept
<1>1. TypeOK
  BY DEF JournalInv
<1>2. UNCHANGED <<gz, snap, archived, marker, made, fails, archives, passes, restores,
                  acked, failed>>
  BY DEF Crash, row
<1>3. /\ live' = 0 /\ fd' = [s \in Scopes |-> "none"] /\ busy' = {}
      /\ slot' = "writer" /\ buffer' = <<>>
      /\ resume' = "idle" /\ lock' = "free"
      /\ comp' = "idle" /\ copy' = <<>> /\ heal' = "none" /\ rest' = "idle"
      /\ recovery' = "due"
  BY DEF Crash
<1>4. memArchived' \in BOOLEAN /\ archiving' \in BOOLEAN
  BY Zenon DEF Crash
<1>5. crashes' \in 0..MaxCrashes
  <2>1. crashes < MaxCrashes /\ crashes' = crashes + 1
    BY DEF Crash
  <2> QED
    BY <1>1, <2>1, JournalConstants DEF TypeOK
<1>6. ASSUME \A f \in {plain', gz'} :
                /\ f.exists \in BOOLEAN /\ f.bytes \in Seq(Byte)
                /\ ~f.exists => f.bytes = <<>>,
             harm' \subseteq {"splice", "unlinked", "shadow", "overwrite"},
             next' \in 1..MaxOps + 1
      PROVE  TypeOK'
  <2>1. fd' \in [Scopes -> Handles] /\ buffer' \in Seq(Op) /\ copy' \in Seq(Byte) /\ busy' \subseteq Scopes
    BY <1>3 DEF Handles
  <2>2. live' \in 0..made'
    BY <1>1, <1>2, <1>3, JournalConstants DEF TypeOK, Scopes
  <2> QED
    BY <1>1, <1>2, <1>3, <1>4, <1>5, <1>6, <2>1, <2>2 DEF TypeOK
<1>7. SlotHeld'
  <2>1. \A s \in Scopes : fd'[s] = "none"
    BY <1>3
  <2> QED
    BY <1>3, <2>1 DEF SlotHeld
<1>8. SwapHeld'
  BY <1>3 DEF SwapHeld
<1>9. CASE UNCHANGED <<plain, harm, next>>
  <2>1. TypeOK'
    <3>1. \A f \in {plain', gz'} :
              /\ f.exists \in BOOLEAN /\ f.bytes \in Seq(Byte)
              /\ ~f.exists => f.bytes = <<>>
      BY <1>1, <1>2, <1>9, FileType
    <3> QED
      BY <1>1, <1>6, <1>9, <3>1 DEF TypeOK
  <2> QED
    BY <1>2, <1>3, <1>7, <1>8, <1>9, <2>1, SameLog, QuietStep
<1>10. CASE \E s \in Writers, kind \in {"event", "ended"} :
              /\ next <= MaxOps /\ next' = next + 1
              /\ \E k \in 1..RecordLen[NewOp(kind)] :
                   WriteVia(s, SubSeq(Record(NewOp(kind)), 1, k))
  <2>1. PICK s \in Writers, kind \in {"event", "ended"} :
            /\ next <= MaxOps /\ next' = next + 1
            /\ \E k \in 1..RecordLen[NewOp(kind)] :
                 WriteVia(s, SubSeq(Record(NewOp(kind)), 1, k))
    BY <1>10
  <2>2. PICK o \in Op : o = NewOp(kind) /\ o.n = next /\ next + 1 \in 1..MaxOps + 1 /\ next \in Nat
    BY <1>1, <2>1, NewOpType DEF Kinds
  <2>3. PICK k \in 0..RecordLen[o] : WriteVia(s, SubSeq(Record(o), 1, k))
    <3>1. PICK k \in 1..RecordLen[o] : WriteVia(s, SubSeq(Record(o), 1, k))
      BY <2>1, <2>2
    <3>2. k \in 0..RecordLen[o]
      BY OpConstants
    <3> QED
      BY <3>1, <3>2
  <2>4. /\ plain'.exists \in BOOLEAN /\ plain'.bytes \in Seq(Byte)
        /\ ~plain'.exists => plain'.bytes = <<>>
        /\ harm \subseteq harm' /\ harm' \subseteq Harms
        /\ harm' = {} /\ Readable =>
              /\ Readable' /\ plain'.exists /\ (plain.exists \/ ~gz.exists)
              /\ Records' = Records \/ Records' = Append(Records, o)
    BY <1>1, <1>2, <2>3, Written
  <2>5. TypeOK'
    <3>1. \A f \in {plain', gz'} :
              /\ f.exists \in BOOLEAN /\ f.bytes \in Seq(Byte)
              /\ ~f.exists => f.bytes = <<>>
      BY <1>1, <1>2, <2>4, FileType
    <3>2. harm' \subseteq {"splice", "unlinked", "shadow", "overwrite"}
      BY <2>4 DEF Harms
    <3>3. next' \in 1..MaxOps + 1
      BY <2>1, <2>2
    <3> QED
      BY <1>6, <3>1, <3>2, <3>3
  <2>6. ASSUME harm' = {} PROVE LogHeld' /\ OrderHeld' /\ SnapHeld' /\ LogMoves
    <3>1. LogHeld /\ OrderHeld /\ SnapHeld
      BY <2>4, <2>6 DEF JournalInv
    <3>2. Readable' /\ (Records' = Records \/ Records' = Append(Records, o))
      BY <2>4, <2>6, <3>1 DEF LogHeld
    <3>3. Ascending(buffer') /\ DOMAIN buffer' = {}
      BY <1>3 DEF Ascending
    <3>4. \A i \in DOMAIN Records : Records[i].n < o.n
      BY <2>2, <3>1 DEF OrderHeld
    <3>5. next' \in Nat /\ next <= next' /\ o.n < next'
      BY <2>1, <2>2
    <3> QED
      BY <1>1, <1>2, <3>1, <3>2, <3>3, <3>4, <3>5, LogGrows
  <2> QED
    BY <1>7, <1>8, <2>4, <2>5, <2>6 DEF JournalKept, JournalInv
<1> QED
  BY <1>9, <1>10 DEF Crash

LEMMA EmptyLog == ~Corrupted(<<>>) /\ ReadAll(<<>>) = <<>>
<1>1. <<>> \in Seq(Byte) /\ Newlines(<<>>) = {}
  BY DEF Newlines
<1>2. ~Corrupted(<<>>)
  BY <1>1 DEF Corrupted
<1>3. Whole(<<>>)
  BY DEF Whole
<1>4. ReadAll(<<>>) = Ops(<<>>)
  BY <1>1, <1>3, ReadWhole
<1>5. Ops(<<>>) = <<>>
  BY <1>1, OpsNone
<1> QED
  BY <1>2, <1>4, <1>5

LEMMA JournalInit == Init => JournalInv
<1> SUFFICES ASSUME Init PROVE JournalInv
  OBVIOUS
<1>1. /\ plain = [exists |-> FALSE, bytes |-> <<>>] /\ gz = [exists |-> FALSE, bytes |-> <<>>]
      /\ snap = <<>> /\ live = 1 /\ made = 1 /\ fd = [s \in Scopes |-> "none"] /\ busy = {}
      /\ slot = "deferred" /\ buffer = <<>> /\ resume = "idle" /\ lock = "free"
      /\ comp = "idle" /\ copy = <<>> /\ heal = "none" /\ rest = "idle" /\ recovery = "done"
      /\ next = 1 /\ crashes = 0 /\ fails = 0 /\ archives = 0 /\ passes = 0 /\ restores = 0
      /\ acked = {} /\ failed = {} /\ harm = {}
  BY DEF Init, NoFile
<1>2. archived \in BOOLEAN /\ marker \in BOOLEAN /\ memArchived \in BOOLEAN /\ archiving \in BOOLEAN
  BY Zenon DEF Init
<1>3. /\ plain.exists = FALSE /\ plain.bytes = <<>> /\ gz.exists = FALSE /\ gz.bytes = <<>>
      /\ <<>> \in Seq(Byte) /\ <<>> \in Seq(Op)
  BY <1>1
<1>4. TypeOK
  <2>1. \A f \in {plain, gz} :
            /\ f.exists \in BOOLEAN /\ f.bytes \in Seq(Byte)
            /\ ~f.exists => f.bytes = <<>>
    BY <1>3
  <2>2. live \in 0..made /\ made \in Scopes /\ next \in 1..MaxOps + 1 /\ crashes \in 0..MaxCrashes
    BY <1>1, JournalConstants
  <2>3. /\ fails \in 0..MaxFails /\ archives \in 0..MaxArchives
        /\ passes \in 0..MaxPasses /\ restores \in 0..MaxRestores
    BY <1>1, JournalConstants
  <2>4. fd \in [Scopes -> Handles] /\ busy \subseteq Scopes /\ acked \subseteq Op /\ failed \subseteq Scopes
    BY <1>1 DEF Handles
  <2>5. /\ snap \in Seq(Op) /\ buffer \in Seq(Op) /\ copy \in Seq(Byte)
        /\ harm \subseteq {"splice", "unlinked", "shadow", "overwrite"}
    BY <1>1, <1>3
  <2>6. /\ slot \in {"deferred", "flushing", "writer"} /\ resume \in {"idle", "replay", "open"}
        /\ lock \in {"free", "compress", "restore"} /\ heal \in {"none", "set", "clear"}
        /\ comp \in {"idle", "candidate", "due", "locked", "copied", "renamed", "removed"}
        /\ rest \in {"idle", "probe", "decode", "renamed", "clear", "resume", "resuming"}
        /\ recovery \in {"done", "due", "write"}
    BY <1>1
  <2> QED
    BY <1>2, <2>1, <2>2, <2>3, <2>4, <2>5, <2>6 DEF TypeOK
<1>5. LogBytes = <<>>
  BY <1>3 DEF LogBytes, probe_compressed
<1>6. Readable /\ Records = <<>>
  BY <1>5, EmptyLog DEF Readable, Records
<1>7. LogHeld
  BY <1>1, <1>6 DEF LogHeld
<1>8. DOMAIN <<>> = {} /\ Len(<<>>) = 0
  OBVIOUS
<1>9. OrderHeld
  BY <1>1, <1>6, <1>8 DEF OrderHeld, Ascending
<1>10. SnapHeld
  <2>1. SubSeq(<<>>, 1, 0) = <<>>
    BY SubSeqEmpty
  <2> QED
    BY <1>1, <1>6, <1>8, <2>1 DEF SnapHeld
<1>11. SlotHeld
  BY <1>1, <1>3 DEF SlotHeld
<1>12. SwapHeld
  BY <1>1 DEF SwapHeld
<1> QED
  BY <1>4, <1>7, <1>9, <1>10, <1>11, <1>12 DEF JournalInv

LEMMA JournalStep == JournalInv /\ [Next]_vars => JournalKept
<1> SUFFICES ASSUME JournalInv, [Next]_vars PROVE JournalKept
  OBVIOUS
<1>1. CASE Session
  <2>1. CASE \E s \in Scopes : RecordEvent(s) \/ EndTurn(s)
    BY <2>1, RecordEventKeeps, EndTurnKeeps
  <2>2. CASE StartTurn \/ RecordDeferred \/ Materialize \/ FlushOne \/ Installed
    BY <2>2, StartTurnKeeps, RecordDeferredKeeps, MaterializeKeeps, FlushOneKeeps, InstalledKeeps
  <2>3. CASE Close \/ Archive \/ ArchiveRow \/ Resume \/ ResumeReplay \/ ResumeOpen
    BY <2>3, CloseKeeps, ArchiveKeeps, ArchiveRowKeeps, ResumeKeeps, ResumeReplayKeeps, ResumeOpenKeeps
  <2> QED
    BY <1>1, <2>1, <2>2, <2>3 DEF Session
<1>2. CASE Compressor
  BY <1>2, ScanKeeps, HealKeeps, CompressNowKeeps, NotDueKeeps, LockKeeps, CopyKeeps,
     RenameGzKeeps, RemovePlainKeeps, StampKeeps DEF Compressor
<1>3. CASE Restorer
  BY <1>3, RestoreKeeps, RestoreProbeKeeps, RenamePlainKeeps, RemoveGzKeeps, ClearFlagsKeeps,
     RestoreResumeKeeps, RestoreDoneKeeps DEF Restorer
<1>4. CASE RecoveryScan \/ RecoveryWrite \/ Crash
  BY <1>4, RecoveryScanKeeps, RecoveryWriteKeeps, CrashKeeps
<1>5. CASE UNCHANGED vars
  <2>1. UNCHANGED <<plain, gz, snap, archived, marker, live, made, fd, busy, memArchived, slot,
                    buffer, resume, archiving, lock, comp, copy, heal, rest, recovery, next,
                    crashes, fails, archives, passes, restores, acked, failed, harm>>
    BY <1>5 DEF vars, disk, row, scope, tasks, bounds, past
  <2>2. TypeOK
    BY DEF JournalInv
  <2>3. TypeOK'
    BY <2>1, <2>2, SMTT(30) DEF TypeOK
  <2>4. ASSUME harm = {} PROVE SlotHeld' /\ SwapHeld'
    <3>1. SlotHeld /\ SwapHeld
      BY <2>4 DEF JournalInv
    <3>2. SlotHeld'
      BY <2>1, <3>1 DEF SlotHeld
    <3>3. SwapHeld'
      BY <2>1, <3>1 DEF SwapHeld
    <3> QED
      BY <3>2, <3>3
  <2> QED
    BY <2>1, <2>3, <2>4, SameLog, QuietStep
<1> QED
  BY <1>1, <1>2, <1>3, <1>4, <1>5 DEF Next

LEMMA JournalHolds == Spec => []JournalInv
<1>1. JournalInv /\ [Next]_vars => JournalInv'
  BY JournalStep DEF JournalKept
<1> QED
  BY <1>1, JournalInit, PTL DEF Spec

(* Every variable of the journal keeps its type: the writer's slot, the    *)
(* files, the tasks' phases and the counters of SessionScope, session_log  *)
(* and retention, through every append, swap, resume and crash.            *)
THEOREM JournalTypeCorrect == Spec => []TypeOK
<1>1. JournalInv => TypeOK
  BY DEF JournalInv
<1> QED
  BY <1>1, JournalHolds, PTL

(* An op whose append returned Ok is read back, whatever crashes, failed   *)
(* appends, resumes, compressions and restores come after it, as long as   *)
(* none of the four ways of losing bytes that harm names has happened      *)
(* (append_log.rs, SessionWireLog, retention_task.rs).                     *)
THEOREM AckedAppendsSurvive == Spec => []AckedSurvive
<1>1. JournalInv => AckedSurvive
  BY DEF JournalInv, LogHeld, AckedSurvive
<1> QED
  BY <1>1, JournalHolds, PTL

(* Readers find the records in the order record_op took them, none twice,  *)
(* also those that flush_deferred moved from the buffer of a lazily        *)
(* created session into the file.                                          *)
THEOREM RecordsKeepOrder == Spec => []RecordedOrder
<1>1. JournalInv => RecordedOrder
  BY DEF JournalInv, OrderHeld, Ascending, RecordedOrder
<1> QED
  BY <1>1, JournalHolds, PTL

(* replay_records_blocking, which starts from the snapshot close_session   *)
(* left, folds what a replay of the whole log folds: the snapshot is never *)
(* ahead of the log, nor of another history.                               *)
THEOREM SnapshotsArePrefixes == Spec => []SnapshotIsPrefix
<1>1. JournalInv => SnapshotIsPrefix
  BY ReplayedIsRecords DEF JournalInv, SnapshotIsPrefix
<1> QED
  BY <1>1, JournalHolds, PTL

(* The journal implements the abstract log: to a reader, every step of the *)
(* writer, of resume and close, of the compressor, the restorer and the    *)
(* recovery, and every crash, either changes nothing, or adds one record   *)
(* at the end, or does one of the damages harm names.                      *)
THEOREM JournalImplementsDurableLog == Spec => ImplementsDurableLog
<1>1. Init => Durable!Init
  <2> SUFFICES ASSUME Init PROVE Durable!Init
    OBVIOUS
  <2>1. harm = {} /\ acked = {} /\ snap = <<>>
    BY DEF Init
  <2>2. LogBytes = <<>>
    BY DEF Init, NoFile, LogBytes, probe_compressed
  <2>3. Records = <<>>
    BY <2>2, EmptyLog DEF Records
  <2> QED
    BY <2>1, <2>3 DEF Durable!Init
<1>2. JournalInv /\ [Next]_vars => [Durable!Next]_(Durable!vars)
  <2> SUFFICES ASSUME JournalInv, [Next]_vars PROVE [Durable!Next]_(Durable!vars)
    OBVIOUS
  <2>1. JournalKept /\ TypeOK
    BY JournalStep DEF JournalInv
  <2>2. CASE harm' # {}
    BY <2>2 DEF Durable!Next, Durable!Damage
  <2>3. CASE harm' = {}
    <3>1. LogMoves
      BY <2>1, <2>3 DEF JournalKept
    <3>2. harm = {}
      BY <2>1, <2>3 DEF JournalKept
    <3>3. CASE Records' = Records /\ acked' = acked
      BY <2>3, <3>2, <3>3 DEF Durable!vars
    <3>4. CASE \E o \in Op : /\ Records' = Append(Records, o)
                             /\ acked' = acked \/ acked' = acked \cup {o}
      <4>1. PICK o \in Op : /\ Records' = Append(Records, o)
                            /\ acked' = acked \/ acked' = acked \cup {o}
        BY <3>4
      <4>2. PICK r \in Seq(Op) : r = Records
        BY <2>1, LogType
      <4>3. PICK z \in Nat : z = Len(r)
        BY LenProperties
      <4>4. PICK q \in Seq(Op) : q = Records' /\ q = Append(r, o)
        BY <4>1, <4>2, AppendProperties
      <4>5. Len(q) = z + 1 /\ q[z + 1] = o /\ \A i \in 1..z : q[i] = r[i]
        BY <4>3, <4>4, AppendProperties
      <4>6. q # <<>> /\ Durable!Last(q) = o
        BY <4>3, <4>5 DEF Durable!Last
      <4>7. SubSeq(q, 1, z) = r
        <5>1. \A i \in 1..z : q[i] \in Op
          BY <4>3, <4>5, ElementOfSeq
        <5>2. z \in Int /\ 1 \in Int
          OBVIOUS
        <5>3. /\ SubSeq(q, 1, z) \in Seq(Op)
              /\ Len(SubSeq(q, 1, z)) = IF 1 <= z THEN z - 1 + 1 ELSE 0
              /\ \A i \in 1..z - 1 + 1 : SubSeq(q, 1, z)[i] = q[1 + i - 1]
          BY <5>1, <5>2, SubSeqProperties
        <5>4. PICK v \in Seq(Op) : v = SubSeq(q, 1, z)
          BY <5>3, Zenon
        <5>5. Len(v) = z /\ \A i \in 1..z : v[i] = q[i]
          BY <5>3, <5>4
        <5>6. v = r
          BY <4>3, <4>5, <5>5, SeqEqual
        <5> QED
          BY <5>4, <5>6
      <4>8. r = Durable!Front(q)
        BY <4>3, <4>5, <4>7 DEF Durable!Front
      <4>9. (IF harm = {} THEN Records ELSE <<>>) = r
            /\ (IF harm = {} THEN Records ELSE <<>>)' = q
        BY <2>3, <3>2, <4>2, <4>4
      <4>10. Durable!Write
        BY <2>3, <3>2, <4>1, <4>6, <4>8, <4>9 DEF Durable!Write
      <4> QED
        BY <4>10 DEF Durable!Next
    <3> QED
      BY <3>1, <3>3, <3>4 DEF LogMoves
  <2> QED
    BY <2>2, <2>3
<1> QED
  BY <1>1, <1>2, JournalHolds, PTL DEF Spec, ImplementsDurableLog, Durable!Spec

=============================================================================
