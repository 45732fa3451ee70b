---------------------------- MODULE QueueLemmas ----------------------------
(***************************************************************************)
(* Lemmas about sequences.  Queues without duplicates: what removing,      *)
(* pushing and popping (VecDeque::remove, push_front, push_back,           *)
(* pop_front) do to the set of elements.  Lists of steps: what replacing   *)
(* the head and calling one after the other give.  And induction.          *)
(***************************************************************************)
EXTENDS Integers, Sequences, SequencesExt, SeqPick, SequenceTheorems,
        WellFoundedInduction, FiniteSetTheorems, TLAPS

(* Removing position i (`pending.remove(pick)`) takes out exactly that     *)
(* element and creates no duplicate.                                       *)
LEMMA RemoveAtQueue ==
    ASSUME NEW S, NEW s \in Seq(S), NEW i \in 1..Len(s), IsInjective(s)
    PROVE  /\ RemoveAt(s, i) \in Seq(S)
           /\ IsInjective(RemoveAt(s, i))
           /\ Range(RemoveAt(s, i)) = Range(s) \ {s[i]}
<1> DEFINE r == RemoveAt(s, i)
           p == SubSeq(s, 1, i - 1)
           q == SubSeq(s, i + 1, Len(s))
<1>1. Len(s) \in Nat /\ DOMAIN s = 1..Len(s) /\ \A k \in 1..Len(s) : s[k] \in S
  BY LenProperties, ElementOfSeq
<1>2. p \in Seq(S) /\ Len(p) = i - 1 /\ \A k \in 1..(i - 1) : p[k] = s[k]
  BY <1>1, SubSeqProperties
<1>3. q \in Seq(S) /\ Len(q) = Len(s) - i /\ \A k \in 1..(Len(s) - i) : q[k] = s[i + k]
  <2>1. i + 1 \in Int /\ Len(s) \in Int /\ \A k \in (i + 1)..Len(s) : s[k] \in S
    BY <1>1
  <2>2. /\ q \in Seq(S) /\ Len(q) = IF i + 1 <= Len(s) THEN Len(s) - (i + 1) + 1 ELSE 0
        /\ \A k \in 1..(Len(s) - (i + 1) + 1) : q[k] = s[(i + 1) + k - 1]
    BY <2>1, SubSeqProperties
  <2> HIDE DEF q
  <2>3. Len(s) - (i + 1) + 1 = Len(s) - i /\ \A k \in Int : (i + 1) + k - 1 = i + k
    BY <1>1
  <2>4. Len(q) = Len(s) - i
    <3>1. CASE i + 1 <= Len(s)
      BY <2>2, <2>3, <3>1
    <3>2. CASE ~ (i + 1 <= Len(s))
      <4>1. Len(s) \in Int /\ i \in Int /\ i <= Len(s)
        BY <1>1
      <4>2. Len(s) = i
        BY <3>2, <4>1
      <4> QED
        BY <2>2, <3>2, <4>1, <4>2
    <3> QED
      BY <3>1, <3>2
  <2>5. ASSUME NEW k \in 1..(Len(s) - i) PROVE q[k] = s[i + k]
    <3>1. k \in 1..(Len(s) - (i + 1) + 1) /\ (i + 1) + k - 1 = i + k
      BY <1>1, <2>3
    <3> QED
      BY <2>2, <3>1
  <2> QED
    BY <2>2, <2>4, <2>5
<1>4. /\ r \in Seq(S) /\ Len(r) = Len(s) - 1
      /\ \A k \in 1..(Len(s) - 1) : r[k] = IF k < i THEN s[k] ELSE s[k + 1]
  <2>1. r = p \o q
    BY DEF RemoveAt
  <2>2. r \in Seq(S) /\ Len(r) = Len(s) - 1
    <3>1. r \in Seq(S) /\ Len(r) = Len(p) + Len(q)
      BY <1>2, <1>3, <2>1, ConcatProperties
    <3>2. (i - 1) + (Len(s) - i) = Len(s) - 1
      BY <1>1
    <3> QED
      BY <1>2, <1>3, <3>1, <3>2
  <2>3. ASSUME NEW k \in 1..(Len(s) - 1)
        PROVE  r[k] = IF k < i THEN s[k] ELSE s[k + 1]
    <3>1. r[k] = IF k <= Len(p) THEN p[k] ELSE q[k - Len(p)]
      <4>1. \A x \in 1..(Len(p) + Len(q)) :
              (p \o q)[x] = IF x <= Len(p) THEN p[x] ELSE q[x - Len(p)]
        BY <1>2, <1>3, ConcatProperties
      <4>2. Len(p) + Len(q) = Len(s) - 1
        <5>1. Len(p) = i - 1 /\ Len(q) = Len(s) - i
          BY <1>2, <1>3, Zenon
        <5>2. (i - 1) + (Len(s) - i) = Len(s) - 1
          BY <1>1
        <5> QED
          BY <5>1, <5>2, Zenon
      <4> QED
        BY <2>1, <4>1, <4>2
    <3>2. CASE k < i
      BY <1>1, <1>2, <3>1, <3>2
    <3>3. CASE ~ (k < i)
      <4>1. k - Len(p) \in 1..(Len(s) - i) /\ i + (k - Len(p)) = k + 1
        BY <1>1, <1>2, <3>3
      <4>2. q[k - Len(p)] = s[k + 1]
        BY <1>3, <4>1
      <4> QED
        BY <1>1, <1>2, <3>1, <3>3, <4>2
    <3> QED
      BY <3>2, <3>3
  <2> QED
    BY <2>2, <2>3
<1>5. DOMAIN r = 1..(Len(s) - 1)
  BY <1>4, LenProperties
<1>6. IsInjective(r)
  BY <1>1, <1>4, <1>5, SMTT(30) DEF IsInjective
<1>7. Range(r) \subseteq Range(s) \ {s[i]}
  <2> SUFFICES ASSUME NEW k \in 1..(Len(s) - 1)
               PROVE  r[k] \in Range(s) \ {s[i]}
    BY <1>5 DEF Range
  <2> DEFINE j == IF k < i THEN k ELSE k + 1
  <2>1. j \in 1..Len(s) /\ j # i /\ r[k] = s[j]
    BY <1>1, <1>4
  <2> QED
    BY <1>1, <2>1 DEF IsInjective, Range
<1>8. Range(s) \ {s[i]} \subseteq Range(r)
  <2> SUFFICES ASSUME NEW j \in 1..Len(s), s[j] # s[i]
               PROVE  s[j] \in Range(r)
    BY <1>1 DEF Range
  <2> DEFINE k == IF j < i THEN j ELSE j - 1
  <2>1. k \in 1..(Len(s) - 1) /\ r[k] = s[j]
    BY <1>1, <1>4
  <2> QED
    BY <1>5, <2>1 DEF Range
<1> QED
  BY <1>4, <1>6, <1>7, <1>8

(* Pushing a new element to the front (`pending.push_front`). *)
LEMMA PushFrontQueue ==
    ASSUME NEW S, NEW s \in Seq(S), NEW x \in S, x \notin Range(s), IsInjective(s)
    PROVE  /\ <<x>> \o s \in Seq(S)
           /\ IsInjective(<<x>> \o s)
           /\ Range(<<x>> \o s) = {x} \cup Range(s)
<1> DEFINE r == <<x>> \o s
<1>1. Len(s) \in Nat /\ DOMAIN s = 1..Len(s)
  BY LenProperties
<1>2. <<x>> \in Seq(S) /\ Len(<<x>>) = 1 /\ <<x>>[1] = x
  OBVIOUS
<1>3. /\ r \in Seq(S) /\ Len(r) = Len(s) + 1
      /\ r[1] = x /\ \A k \in 1..Len(s) : r[k + 1] = s[k]
  BY <1>1, <1>2, ConcatProperties
<1>4. DOMAIN r = 1..(Len(s) + 1)
  BY <1>3, LenProperties
<1>5. \A k \in 2..(Len(s) + 1) : r[k] = s[k - 1] /\ k - 1 \in 1..Len(s)
  <2> TAKE k \in 2..(Len(s) + 1)
  <2>1. k - 1 \in 1..Len(s) /\ (k - 1) + 1 = k
    BY <1>1
  <2> QED
    BY <1>3, <2>1
<1> HIDE DEF r
<1>6. IsInjective(r)
  <2>1. \A k \in 1..Len(s) : s[k] # x
    BY <1>1 DEF Range
  <2>2. ASSUME NEW a \in 1..(Len(s) + 1), NEW b \in 1..(Len(s) + 1), r[a] = r[b]
        PROVE  a = b
    <3>1. CASE a = 1
      BY <1>1, <1>3, <1>5, <2>1, <2>2, <3>1
    <3>2. CASE b = 1
      BY <1>1, <1>3, <1>5, <2>1, <2>2, <3>2
    <3>3. CASE a # 1 /\ b # 1
      <4>1. a \in 2..(Len(s) + 1) /\ b \in 2..(Len(s) + 1)
        BY <1>1, <3>3
      <4>2. s[a - 1] = s[b - 1] /\ a - 1 \in 1..Len(s) /\ b - 1 \in 1..Len(s)
        BY <1>5, <2>2, <4>1
      <4>3. a - 1 = b - 1
        BY <1>1, <4>2 DEF IsInjective
      <4> QED
        BY <4>1, <4>3
    <3> QED
      BY <3>1, <3>2, <3>3
  <2> QED
    BY <1>4, <2>2 DEF IsInjective
<1>7. Range(r) \subseteq {x} \cup Range(s)
  <2> SUFFICES ASSUME NEW k \in 1..(Len(s) + 1) PROVE r[k] \in {x} \cup Range(s)
    BY <1>4 DEF Range
  <2>1. CASE k = 1
    BY <1>3, <2>1
  <2>2. CASE k # 1
    <3>1. r[k] = s[k - 1] /\ k - 1 \in 1..Len(s)
      BY <1>1, <1>5, <2>2
    <3> QED
      BY <1>1, <3>1 DEF Range
  <2> QED
    BY <2>1, <2>2
<1>8. {x} \cup Range(s) \subseteq Range(r)
  <2>1. x \in Range(r)
    BY <1>1, <1>3, <1>4 DEF Range
  <2>2. ASSUME NEW k \in 1..Len(s) PROVE s[k] \in Range(r)
    BY <1>1, <1>3, <1>4 DEF Range
  <2> QED
    BY <1>1, <2>1, <2>2 DEF Range
<1> QED
  BY <1>3, <1>6, <1>7, <1>8 DEF r

(* Appending a new element (`ready_queue.push_back`). *)
LEMMA AppendQueue ==
    ASSUME NEW S, NEW s \in Seq(S), NEW x \in S, x \notin Range(s), IsInjective(s)
    PROVE  /\ Append(s, x) \in Seq(S)
           /\ IsInjective(Append(s, x))
           /\ Range(Append(s, x)) = Range(s) \cup {x}
<1> DEFINE r == Append(s, x)
<1>1. Len(s) \in Nat /\ DOMAIN s = 1..Len(s)
  BY LenProperties
<1>2. /\ r \in Seq(S) /\ Len(r) = Len(s) + 1
      /\ r[Len(s) + 1] = x /\ \A k \in 1..Len(s) : r[k] = s[k]
  BY AppendProperties
<1>3. DOMAIN r = 1..(Len(s) + 1)
  BY <1>2, LenProperties
<1>4. \A k \in 1..Len(s) : s[k] # x
  BY <1>1 DEF Range
<1>5. IsInjective(r)
  BY <1>1, <1>2, <1>3, <1>4 DEF IsInjective
<1>6. Range(r) \subseteq Range(s) \cup {x}
  BY <1>1, <1>2, <1>3 DEF Range
<1>7. Range(s) \cup {x} \subseteq Range(r)
  <2>1. x \in Range(r)
    BY <1>1, <1>2, <1>3 DEF Range
  <2>2. ASSUME NEW k \in 1..Len(s) PROVE s[k] \in Range(r)
    BY <1>1, <1>2, <1>3 DEF Range
  <2> QED
    BY <1>1, <2>1, <2>2 DEF Range
<1> QED
  BY <1>2, <1>5, <1>6, <1>7

(* Taking the head (`ready_queue.pop_front`). *)
LEMMA PopFrontQueue ==
    ASSUME NEW S, NEW s \in Seq(S), s # <<>>, IsInjective(s)
    PROVE  /\ Head(s) \in Range(s) /\ Head(s) \in S
           /\ Tail(s) \in Seq(S)
           /\ IsInjective(Tail(s))
           /\ Range(Tail(s)) = Range(s) \ {Head(s)}
<1> DEFINE r == Tail(s)
<1>1. Len(s) \in Nat /\ DOMAIN s = 1..Len(s) /\ \A k \in 1..Len(s) : s[k] \in S
  BY LenProperties, ElementOfSeq
<1>2. Len(s) > 0
  BY <1>1, EmptySeq
<1>3. /\ Head(s) = s[1] /\ r \in Seq(S) /\ Len(r) = Len(s) - 1
      /\ \A k \in 1..(Len(s) - 1) : r[k] = s[k + 1]
  <2>1. /\ r \in Seq(S) /\ Len(r) = Len(s) - 1
        /\ \A k \in 1..Len(r) : r[k] = s[k + 1]
    BY HeadTailProperties
  <2>2. Head(s) = s[1]
    OBVIOUS
  <2> QED
    BY <2>1, <2>2
<1>4. DOMAIN r = 1..(Len(s) - 1)
  BY <1>3, LenProperties
<1>5. Head(s) \in Range(s) /\ Head(s) \in S
  BY <1>1, <1>2, <1>3 DEF Range
<1>6. IsInjective(r)
  BY <1>1, <1>2, <1>3, <1>4 DEF IsInjective
<1>7. Range(r) \subseteq Range(s) \ {Head(s)}
  BY <1>1, <1>2, <1>3, <1>4 DEF Range, IsInjective
<1>8. Range(s) \ {Head(s)} \subseteq Range(r)
  <2> SUFFICES ASSUME NEW j \in 1..Len(s), s[j] # s[1]
               PROVE  s[j] \in Range(r)
    BY <1>1, <1>3 DEF Range
  <2>1. j - 1 \in 1..(Len(s) - 1) /\ r[j - 1] = s[j]
    BY <1>1, <1>2, <1>3
  <2> QED
    BY <1>4, <2>1 DEF Range
<1> QED
  BY <1>3, <1>5, <1>6, <1>7, <1>8

(* A queue has no element exactly when it is empty. *)
LEMMA RangeEmpty ==
    ASSUME NEW S, NEW s \in Seq(S)
    PROVE  Range(s) \subseteq S /\ (Range(s) = {} <=> s = <<>>)
<1>1. Len(s) \in Nat /\ DOMAIN s = 1..Len(s) /\ \A k \in 1..Len(s) : s[k] \in S
  BY LenProperties, ElementOfSeq
<1>2. s = <<>> <=> Len(s) = 0
  BY <1>1, EmptySeq
<1>3. Range(s) \subseteq S
  BY <1>1 DEF Range
<1>4. ASSUME s = <<>> PROVE Range(s) = {}
  BY <1>1, <1>2, <1>4 DEF Range
<1>5. ASSUME s # <<>> PROVE s[1] \in Range(s)
  BY <1>1, <1>2, <1>5 DEF Range
<1> QED
  BY <1>3, <1>4, <1>5

(* Going on with `n` in place of the head: where the steps end up. *)
LEMMA ReplaceHead ==
    ASSUME NEW S, NEW s \in Seq(S), s # <<>>, NEW n \in Seq(S)
    PROVE  /\ n \o Tail(s) \in Seq(S)
           /\ DOMAIN (n \o Tail(s)) = 1..(Len(n) + Len(s) - 1)
           /\ \A i \in 1..Len(n) : (n \o Tail(s))[i] = n[i]
           /\ \A j \in 2..Len(s) :
                /\ Len(n) + j - 1 \in 1..(Len(n) + Len(s) - 1)
                /\ (n \o Tail(s))[Len(n) + j - 1] = s[j]
           /\ \A i \in 1..(Len(n) + Len(s) - 1) : i > Len(n) =>
                /\ i - Len(n) + 1 \in 2..Len(s)
                /\ (n \o Tail(s))[i] = s[i - Len(n) + 1]
<1> DEFINE u == Tail(s)
           r == n \o u
<1>1. Len(s) \in Nat \ {0} /\ Len(n) \in Nat
  BY EmptySeq, LenProperties
<1>2. /\ u \in Seq(S) /\ Len(u) = Len(s) - 1
      /\ \A i \in 1..Len(u) : u[i] = s[i + 1]
  BY HeadTailProperties
<1> HIDE DEF u
<1>3. /\ r \in Seq(S) /\ Len(r) = Len(n) + Len(u)
      /\ \A i \in 1..(Len(n) + Len(u)) :
            r[i] = IF i <= Len(n) THEN n[i] ELSE u[i - Len(n)]
  BY <1>2, ConcatProperties
<1> HIDE DEF r
<1>4. Len(n) + Len(u) = Len(n) + Len(s) - 1
  BY <1>1, <1>2
<1>5. DOMAIN r = 1..(Len(n) + Len(s) - 1)
  BY <1>3, <1>4, LenProperties
<1>6. ASSUME NEW i \in 1..Len(n) PROVE r[i] = n[i]
  <2>1. Len(u) \in Nat
    BY <1>1, <1>2
  <2>2. i \in 1..(Len(n) + Len(u)) /\ i <= Len(n)
    BY <1>1, <2>1
  <2> QED
    BY <1>3, <2>2
<1>7. ASSUME NEW j \in 2..Len(s)
      PROVE  Len(n) + j - 1 \in 1..(Len(n) + Len(s) - 1) /\ r[Len(n) + j - 1] = s[j]
  <2>1. /\ Len(n) + j - 1 \in 1..(Len(n) + Len(s) - 1)
        /\ ~ (Len(n) + j - 1 <= Len(n))
        /\ (Len(n) + j - 1) - Len(n) = j - 1
        /\ j - 1 \in 1..Len(u) /\ (j - 1) + 1 = j
    BY <1>1, <1>2
  <2>2. r[Len(n) + j - 1] = u[j - 1]
    BY <1>3, <1>4, <2>1
  <2>3. u[j - 1] = s[j]
    BY <1>2, <2>1
  <2> QED
    BY <2>1, <2>2, <2>3
<1>8. ASSUME NEW i \in 1..(Len(n) + Len(s) - 1), i > Len(n)
      PROVE  i - Len(n) + 1 \in 2..Len(s) /\ r[i] = s[i - Len(n) + 1]
  <2>1. i - Len(n) + 1 \in 2..Len(s) /\ ~ (i <= Len(n)) /\ i - Len(n) \in 1..Len(u)
    BY <1>1, <1>2, <1>8
  <2>2. r[i] = u[i - Len(n)]
    BY <1>3, <1>4, <2>1
  <2> QED
    BY <1>2, <2>1, <2>2
<1>9. n \o Tail(s) = r
  BY DEF r, u
<1> QED
  BY <1>3, <1>5, <1>6, <1>7, <1>8, <1>9

(* The head and the tail of a concatenation. *)
LEMMA HeadOfConcat ==
    ASSUME NEW S, NEW p \in Seq(S), p # <<>>, NEW q \in Seq(S)
    PROVE  /\ p \o q # <<>> /\ Head(p \o q) = Head(p)
           /\ Tail(p \o q) = Tail(p) \o q
<1> DEFINE r == p \o q
           u == Tail(p)
           v == u \o q
<1>1. Len(p) \in Nat \ {0} /\ Len(q) \in Nat
  BY EmptySeq, LenProperties
<1>2. /\ r \in Seq(S) /\ Len(r) = Len(p) + Len(q)
      /\ \A i \in 1..(Len(p) + Len(q)) : r[i] = IF i <= Len(p) THEN p[i] ELSE q[i - Len(p)]
  BY ConcatProperties
<1>3. /\ u \in Seq(S) /\ Len(u) = Len(p) - 1
      /\ \A i \in 1..Len(u) : u[i] = p[i + 1]
  BY HeadTailProperties
<1> HIDE DEF u
<1>4. /\ v \in Seq(S) /\ Len(v) = Len(u) + Len(q)
      /\ \A i \in 1..(Len(u) + Len(q)) : v[i] = IF i <= Len(u) THEN u[i] ELSE q[i - Len(u)]
  BY <1>3, ConcatProperties
<1> HIDE DEF r, v
<1>5. r # <<>>
  BY <1>1, <1>2, EmptySeq
<1>6. Head(r) = r[1] /\ Head(p) = p[1] /\ r[1] = p[1]
  <2>1. Head(r) = r[1] /\ Head(p) = p[1]
    BY <1>2, <1>5
  <2> QED
    BY <1>1, <1>2, <2>1
<1>7. /\ Tail(r) \in Seq(S) /\ Len(Tail(r)) = Len(r) - 1
      /\ \A i \in 1..Len(Tail(r)) : Tail(r)[i] = r[i + 1]
  BY <1>2, <1>5, HeadTailProperties
<1>8. Len(Tail(r)) = Len(v)
  BY <1>1, <1>2, <1>3, <1>4, <1>7
<1>9. ASSUME NEW i \in 1..Len(v) PROVE Tail(r)[i] = v[i]
  <2>1. i + 1 \in 1..(Len(p) + Len(q)) /\ i \in 1..(Len(u) + Len(q)) /\ i \in 1..Len(Tail(r))
    BY <1>1, <1>2, <1>3, <1>4, <1>7
  <2>2. Tail(r)[i] = r[i + 1]
    BY <1>7, <2>1
  <2>3. CASE i <= Len(u)
    <3>1. i \in 1..Len(u) /\ i + 1 <= Len(p)
      BY <1>1, <1>3, <2>1, <2>3
    <3> QED
      BY <1>2, <1>3, <1>4, <2>1, <2>2, <2>3, <3>1
  <2>4. CASE ~ (i <= Len(u))
    <3>1. ~ (i + 1 <= Len(p)) /\ (i + 1) - Len(p) = i - Len(u)
      BY <1>1, <1>3, <2>1, <2>4
    <3> QED
      BY <1>2, <1>4, <2>1, <2>2, <2>4, <3>1
  <2> QED
    BY <2>3, <2>4
<1>10. Tail(r) = v
  BY <1>4, <1>7, <1>8, <1>9, SeqEqual
<1> QED
  BY <1>5, <1>6, <1>10 DEF r, v, u

(* A set of naturals has a least element.  The induction principles of the *)
(* library take an operator; this one takes a set, which every prover can  *)
(* instantiate.                                                            *)
LEMMA NatLeast ==
    ASSUME NEW T, T \subseteq Nat, T # {}
    PROVE  \E x \in T : \A y \in T : x <= y
<1> DEFINE R == {ss \in Nat \X Nat : ss[1] < ss[2]}
<1>1. IsWellFoundedOn(R, Nat)
  BY NatLessThanWellFounded DEF OpToRel
<1>2. \A x, y \in Nat : y < x => <<y, x>> \in R
  OBVIOUS
<1> HIDE DEF R
<1>3. PICK x \in T : \A y \in T : ~ (<<y, x>> \in R)
  BY <1>1, WFMin
<1>4. ASSUME NEW y \in T PROVE x <= y
  <2>1. x \in Nat /\ y \in Nat /\ ~ (y < x)
     BY <1>2, <1>3
  <2> QED BY <2>1
<1> QED
  BY <1>4

(* Induction over the naturals, in the same form. *)
LEMMA NatInductive ==
    ASSUME NEW T, 0 \in T, \A n \in Nat : n \in T => n + 1 \in T
    PROVE  Nat \subseteq T
<1> SUFFICES ASSUME Nat \ T # {} PROVE FALSE
  OBVIOUS
<1>1. PICK x \in Nat \ T : \A y \in Nat \ T : x <= y
  BY NatLeast
<1>2. x # 0 /\ x - 1 \in Nat /\ x - 1 \in T
  BY <1>1
<1> QED BY <1>2

(* One call after the other, for each of a list: what the calls consist of *)
(* is what the whole consists of.                                          *)
LEMMA FlattenSeqType ==
    ASSUME NEW S, NEW seqs \in Seq(Seq(S))
    PROVE  FlattenSeq(seqs) \in Seq(S)
<1> DEFINE N == Len(seqs)
           Rec(f, m) == f = [i \in 1..m |-> IF i = 1 THEN seqs[i] ELSE f[i-1] \o seqs[i]]
           T == {m \in Nat : m <= N => \E f \in [1..m -> Seq(S)] : Rec(f, m)}
<1>0. N \in Nat /\ \A i \in 1..N : seqs[i] \in Seq(S)
  BY LenProperties, ElementOfSeq
<1>1. 0 \in T
  <2>1. [i \in 1..0 |-> <<>>] \in [1..0 -> Seq(S)] /\ Rec([i \in 1..0 |-> <<>>], 0)
    BY EmptySeq
  <2> QED BY <2>1
<1>2. ASSUME NEW m \in Nat, m \in T PROVE m + 1 \in T
  <2> SUFFICES ASSUME m + 1 <= N PROVE \E f \in [1..(m+1) -> Seq(S)] : Rec(f, m+1)
    <3> HIDE DEF Rec, N
    <3> QED OBVIOUS
  <2>1. PICK f \in [1..m -> Seq(S)] : Rec(f, m)
    <3> HIDE DEF Rec, N
    <3> QED BY <1>0, <1>2
  <2>a. \A i \in 1..m : f[i] = IF i = 1 THEN seqs[i] ELSE f[i-1] \o seqs[i]
    BY <2>1
  <2> DEFINE g == [i \in 1..(m+1) |-> IF i \in 1..m THEN f[i]
                      ELSE IF i = 1 THEN seqs[i] ELSE f[i-1] \o seqs[i]]
  <2>2. g \in [1..(m+1) -> Seq(S)]
    <3> SUFFICES ASSUME NEW i \in 1..(m+1) PROVE g[i] \in Seq(S)
      OBVIOUS
    <3>1. CASE i \in 1..m
      BY <3>1
    <3>2. CASE i \notin 1..m /\ i = 1
      BY <1>0, <3>2
    <3>3. CASE i \notin 1..m /\ i # 1
      <4>1. i - 1 \in 1..m /\ i \in 1..N
        BY <1>0, <3>3
      <4>2. f[i-1] \in Seq(S) /\ seqs[i] \in Seq(S)
        BY <1>0, <4>1
      <4> QED BY <3>3, <4>2, ConcatProperties
    <3> QED BY <3>1, <3>2, <3>3
  <2>3. ASSUME NEW i \in 1..(m+1) PROVE g[i] = IF i = 1 THEN seqs[i] ELSE g[i-1] \o seqs[i]
    <3>1. CASE i = 1
      BY <2>1, <3>1
    <3>2. CASE i # 1
      <4>1. i - 1 \in 1..m /\ g[i-1] = f[i-1]
        BY <3>2
      <4>2. g[i] = f[i-1] \o seqs[i]
        <5>1. CASE i \in 1..m
          <6>1. g[i] = f[i]
            BY <5>1
          <6> HIDE DEF g
          <6> QED BY <2>a, <3>2, <5>1, <6>1
        <5>2. CASE i \notin 1..m
          BY <3>2, <5>2
        <5> QED BY <5>1, <5>2
      <4> HIDE DEF g
      <4> QED BY <3>2, <4>1, <4>2
    <3> QED BY <3>1, <3>2
  <2>4. Rec(g, m+1)
    <3>1. g = [i \in 1..(m+1) |-> g[i]]
      OBVIOUS
    <3> HIDE DEF g
    <3> QED BY <2>3, <3>1
  <2> HIDE DEF g
  <2> QED BY <2>2, <2>4
<1>3. \E f : Rec(f, N)
  <2> HIDE DEF T, Rec, N
  <2>1. Nat \subseteq T BY <1>1, <1>2, NatInductive
  <2>2. N \in T BY <1>0, <2>1
  <2> QED BY <1>0, <2>2 DEF T
<1> DEFINE h == CHOOSE f : Rec(f, N)
<1>4. Rec(h, N)
  BY <1>3
<1>5. \A i \in 1..N : h[i] = IF i = 1 THEN seqs[i] ELSE h[i-1] \o seqs[i]
  <2> HIDE DEF h, N
  <2> QED BY <1>4
<1>6. N # 0 => FlattenSeq(seqs) = h[N]
  BY DEF FlattenSeq
<1> HIDE DEF h, N, Rec, T
<1> DEFINE D == {i \in 1..N : h[i] \notin Seq(S)}
<1>7. ASSUME D # {} PROVE FALSE
  <2>1. D \subseteq Nat
    BY <1>0
  <2>2. PICK i \in D : \A j \in D : i <= j
    <3> HIDE DEF D
    <3> QED BY <1>7, <2>1, NatLeast
  <2>3. i \in 1..N /\ h[i] \notin Seq(S)
    OBVIOUS
  <2>4. i # 1
    BY <1>0, <1>5, <2>3
  <2>5. i - 1 \in 1..N /\ i - 1 \notin D
    <3> HIDE DEF D
    <3>1. i \in Nat /\ i - 1 \in Nat /\ ~ (i <= i - 1) /\ i - 1 \in 1..N
      BY <1>0, <2>3, <2>4
    <3> QED BY <2>2, <3>1
  <2>6. h[i-1] \in Seq(S)
    BY <2>5
  <2>7. h[i] = h[i-1] \o seqs[i] /\ seqs[i] \in Seq(S)
    BY <1>0, <1>5, <2>3, <2>4
  <2>8. h[i] \in Seq(S)
    BY <2>6, <2>7, ConcatProperties
  <2> QED BY <2>3, <2>8
<1> QED
  <2>1. CASE N = 0
    <3>1. seqs = <<>> BY <2>1, EmptySeq DEF N
    <3> QED BY <2>1, <3>1, EmptySeq DEF FlattenSeq, N
  <2>2. CASE N # 0
    BY <1>0, <1>6, <1>7, <2>2
  <2> QED BY <2>1, <2>2


(* Short lists of steps, one after the other. *)
LEMMA ShortConcat ==
    ASSUME NEW e, NEW f, NEW g
    PROVE  /\ <<e>> \o <<f>> = <<e, f>>
           /\ Tail(<<e, f>>) = <<f>> /\ Tail(<<e, f, g>>) = <<f, g>> /\ Tail(<<e>>) = <<>>
           /\ Head(<<e, f>>) = e /\ Head(<<e, f, g>>) = e /\ Head(<<e>>) = e
<1> DEFINE S == {e, f, g}
<1>1. <<e>> \in Seq(S) /\ <<f>> \in Seq(S) /\ <<g>> \in Seq(S) /\ <<e, f>> \in Seq(S)
      /\ <<e, f, g>> \in Seq(S) /\ Len(<<e, f>>) = 2 /\ Len(<<e, f, g>>) = 3
  OBVIOUS
<1>2. /\ <<e>> \o <<f>> \in Seq(S) /\ Len(<<e>> \o <<f>>) = 2
      /\ \A i \in 1..2 : (<<e>> \o <<f>>)[i] = <<e, f>>[i]
  BY <1>1, ConcatProperties
<1>3. <<e>> \o <<f>> = <<e, f>>
  BY <1>1, <1>2, SeqEqual
<1>4. /\ Tail(<<e, f>>) = <<f>> /\ Tail(<<e, f, g>>) = <<f, g>> /\ Tail(<<e>>) = <<>>
      /\ Head(<<e, f>>) = e /\ Head(<<e, f, g>>) = e /\ Head(<<e>>) = e
  OBVIOUS
<1> QED
  BY <1>3, <1>4

LEMMA TwoAndOne ==
    ASSUME NEW e, NEW f, NEW g
    PROVE  <<e, f>> \o <<g>> = <<e, f, g>>
<1> DEFINE S == {e, f, g}
<1>1. <<g>> \in Seq(S) /\ <<e, f>> \in Seq(S) /\ <<e, f, g>> \in Seq(S) /\ Len(<<e, f, g>>) = 3
  OBVIOUS
<1>2. /\ <<e, f>> \o <<g>> \in Seq(S) /\ Len(<<e, f>> \o <<g>>) = 3
      /\ \A i \in 1..3 : (<<e, f>> \o <<g>>)[i] = <<e, f, g>>[i]
  BY <1>1, ConcatProperties
<1> QED
  BY <1>1, <1>2, SeqEqual


(* Numbers of a finite set by rank: every rank from 1 on is taken by       *)
(* exactly one member.                                                     *)
LEMMA NthExists ==
    ASSUME NEW I, I \subseteq Nat, IsFiniteSet(I)
    PROVE  /\ Cardinality(I) \in Nat
           /\ \A k \in 1..Cardinality(I) : Nth(I, k) \in I /\ Rank(I, Nth(I, k)) = k
           /\ \A i \in I : Rank(I, i) \in 1..Cardinality(I) /\ Nth(I, Rank(I, i)) = i
<1> DEFINE below(i) == {j \in I : j <= i}
           n == Cardinality(I)
           f == [i \in I |-> Rank(I, i)]
<1>1. n \in Nat
  BY FS_CardinalityType
<1>2. ASSUME NEW i \in I PROVE IsFiniteSet(below(i)) /\ Cardinality(below(i)) \in 1..n
  <2>1. below(i) \subseteq I
    OBVIOUS
  <2>2. IsFiniteSet(below(i)) /\ Cardinality(below(i)) <= n /\ Cardinality(below(i)) \in Nat
    BY <2>1, FS_Subset, FS_CardinalityType
  <2>3. below(i) # {}
    BY <1>2
  <2>4. Cardinality(below(i)) # 0
    BY <2>2, <2>3, FS_EmptySet
  <2> HIDE DEF below, n
  <2> QED
    BY <1>1, <2>2, <2>4
<1>3. ASSUME NEW i \in I, NEW j \in I, i < j PROVE Rank(I, i) # Rank(I, j)
  <2>0. i \in Nat /\ j \in Nat /\ \A k \in I : k \in Nat
    BY <1>3
  <2>a. \A k \in I : k <= i => k <= j
    BY <1>3, <2>0
  <2>b. j <= j /\ ~(j <= i)
    BY <1>3, <2>0
  <2>1. below(i) \subseteq below(j) /\ j \in below(j) /\ j \notin below(i)
    BY <1>3, <2>a, <2>b
  <2>2. IsFiniteSet(below(i)) /\ IsFiniteSet(below(j))
    BY <1>2
  <2>3. below(i) # below(j)
    BY <2>1
  <2> HIDE DEF below
  <2>4. Cardinality(below(i)) # Cardinality(below(j))
    BY <2>1, <2>2, <2>3, FS_Subset
  <2> QED
    BY <2>4 DEF Rank, below
<1>4. f \in Injection(I, 1..n)
  <2>1. f \in [I -> 1..n]
    BY <1>2 DEF Rank
  <2>2. ASSUME NEW i \in I, NEW j \in I, f[i] = f[j] PROVE i = j
    <3>1. ~(i < j) /\ ~(j < i)
      BY <1>3, <2>2
    <3> QED
      BY <3>1
  <2> HIDE DEF f, n
  <2> QED
    BY <2>1, <2>2 DEF Injection, IsInjective
<1>5. IsFiniteSet(1..n) /\ Cardinality(1..n) = n
  <2>1. 1 \in Int /\ n \in Int
    BY <1>1
  <2> HIDE DEF n
  <2> QED
    BY <1>1, <2>1, FS_Interval
<1>6. f \in Surjection(I, 1..n)
  BY <1>4, <1>5, FS_Injection
<1>7. ASSUME NEW k \in 1..n PROVE Nth(I, k) \in I /\ Rank(I, Nth(I, k)) = k
  <2>1. \E i \in I : Rank(I, i) = k
    BY <1>6 DEF Surjection
  <2> QED
    BY <2>1 DEF Nth
<1>8. ASSUME NEW i \in I PROVE Rank(I, i) \in 1..n /\ Nth(I, Rank(I, i)) = i
  <2>1. Rank(I, i) \in 1..n
    BY <1>2 DEF Rank
  <2>2. Nth(I, Rank(I, i)) \in I /\ Rank(I, Nth(I, Rank(I, i))) = Rank(I, i)
    BY <1>7, <2>1
  <2>3. \A j \in I : Rank(I, j) = Rank(I, i) => j = i
    <3> SUFFICES ASSUME NEW j \in I, Rank(I, j) = Rank(I, i) PROVE j = i
      OBVIOUS
    <3>1. ~(i < j) /\ ~(j < i)
      BY <1>3
    <3> QED
      BY <3>1
  <2> QED
    BY <2>1, <2>2, <2>3
<1> QED
  BY <1>1, <1>7, <1>8

(* What a filter leaves: a list of the elements that belong to the set,    *)
(* all of them, and no longer than the list it was taken from.             *)
LEMMA PickType ==
    ASSUME NEW S, NEW P, NEW s \in Seq(S)
    PROVE  /\ Pick(s, P) \in Seq(S \cap P)
           /\ Len(Pick(s, P)) \in 0..Len(s)
           /\ Range(Pick(s, P)) = Range(s) \cap P
           /\ Len(Pick(s, P)) = 0 <=> Range(s) \cap P = {}
<1> DEFINE I == PickedAt(s, P)
           n == Cardinality(I)
           p == Pick(s, P)
<1>1. Len(s) \in Nat /\ DOMAIN s = 1..Len(s) /\ \A i \in 1..Len(s) : s[i] \in S
  BY LenProperties, ElementOfSeq
<1>2. I \subseteq 1..Len(s) /\ I \subseteq Nat /\ \A i \in I : s[i] \in S \cap P
  BY <1>1 DEF PickedAt
<1>3. IsFiniteSet(1..Len(s)) /\ Cardinality(1..Len(s)) = Len(s)
  <2> DEFINE m == Len(s)
  <2>1. m \in Nat /\ 1 \in Int /\ m \in Int
    BY <1>1
  <2> HIDE DEF m
  <2>2. IsFiniteSet(1..m) /\ Cardinality(1..m) = m
    BY <2>1, FS_Interval
  <2> QED
    BY <2>2 DEF m
<1>4. IsFiniteSet(I) /\ n <= Len(s)
  BY <1>2, <1>3, FS_Subset
<1> HIDE DEF I
<1>5. /\ n \in Nat /\ \A k \in 1..n : Nth(I, k) \in I
      /\ \A i \in I : Rank(I, i) \in 1..n /\ Nth(I, Rank(I, i)) = i
  BY <1>2, <1>4, NthExists
<1>6. p = [k \in 1..n |-> s[Nth(I, k)]]
  BY DEF Pick, I
<1> HIDE DEF n, p
<1>7. p \in Seq(S \cap P) /\ Len(p) = n /\ DOMAIN p = 1..n
  <2>1. \A k \in 1..n : s[Nth(I, k)] \in S \cap P
    BY <1>2, <1>5
  <2> QED
    BY <1>5, <1>6, <2>1
<1>8. Range(p) \subseteq Range(s) \cap P
  BY <1>1, <1>2, <1>5, <1>6, <1>7 DEF Range
<1>9. Range(s) \cap P \subseteq Range(p)
  <2> SUFFICES ASSUME NEW i \in 1..Len(s), s[i] \in P PROVE s[i] \in Range(p)
    BY <1>1 DEF Range
  <2>1. i \in I
    BY <1>1 DEF I, PickedAt
  <2>2. p[Rank(I, i)] = s[i] /\ Rank(I, i) \in DOMAIN p
    BY <1>5, <1>6, <1>7, <2>1
  <2> QED
    BY <2>2 DEF Range
<1>10. Len(p) = 0 <=> Range(p) = {}
  <2>1. Len(p) = 0 => DOMAIN p = {}
    BY <1>7
  <2>2. Len(p) # 0 => 1 \in DOMAIN p
    BY <1>5, <1>7
  <2> QED
    BY <2>1, <2>2 DEF Range
<1>11. Len(p) \in 0..Len(s)
  BY <1>1, <1>4, <1>5, <1>7 DEF n
<1> QED
  BY <1>7, <1>8, <1>9, <1>10, <1>11 DEF p


(* What a list holds after an element or another list is put at its end. *)
LEMMA ConcatRange ==
    ASSUME NEW S, NEW s \in Seq(S), NEW u \in Seq(S)
    PROVE  Range(s \o u) = Range(s) \cup Range(u)
<1> DEFINE r == s \o u
<1>1. Len(s) \in Nat /\ Len(u) \in Nat /\ DOMAIN s = 1..Len(s) /\ DOMAIN u = 1..Len(u)
  BY LenProperties
<1>2. /\ r \in Seq(S) /\ Len(r) = Len(s) + Len(u)
      /\ \A i \in 1..(Len(s) + Len(u)) : r[i] = IF i <= Len(s) THEN s[i] ELSE u[i - Len(s)]
  BY ConcatProperties
<1>3. DOMAIN r = 1..(Len(s) + Len(u))
  BY <1>2, LenProperties
<1> HIDE DEF r
<1>4. Range(r) \subseteq Range(s) \cup Range(u)
  <2> SUFFICES ASSUME NEW i \in 1..(Len(s) + Len(u)) PROVE r[i] \in Range(s) \cup Range(u)
    BY <1>3 DEF Range
  <2>1. CASE i <= Len(s)
    BY <1>1, <1>2, <2>1 DEF Range
  <2>2. CASE ~(i <= Len(s))
    <3>1. i - Len(s) \in DOMAIN u /\ r[i] = u[i - Len(s)]
      BY <1>1, <1>2, <2>2
    <3> QED
      BY <3>1 DEF Range
  <2> QED
    BY <2>1, <2>2
<1>5. Range(s) \subseteq Range(r)
  <2> SUFFICES ASSUME NEW i \in 1..Len(s) PROVE s[i] \in Range(r)
    BY <1>1 DEF Range
  <2>1. i \in DOMAIN r /\ r[i] = s[i]
    BY <1>1, <1>2, <1>3
  <2> QED
    BY <2>1 DEF Range
<1>6. Range(u) \subseteq Range(r)
  <2> SUFFICES ASSUME NEW i \in 1..Len(u) PROVE u[i] \in Range(r)
    BY <1>1 DEF Range
  <2>1. Len(s) + i \in DOMAIN r /\ ~(Len(s) + i <= Len(s)) /\ (Len(s) + i) - Len(s) = i
    BY <1>1, <1>3
  <2>2. r[Len(s) + i] = u[i]
    BY <1>2, <1>3, <2>1
  <2> QED
    BY <2>1, <2>2 DEF Range
<1> QED
  BY <1>4, <1>5, <1>6 DEF r

(* Appending adds exactly the appended element to a sequence's elements. *)
LEMMA AppendRange ==
    ASSUME NEW S, NEW s \in Seq(S), NEW e \in S
    PROVE  Append(s, e) \in Seq(S) /\ Range(Append(s, e)) = Range(s) \cup {e}
<1> DEFINE r == Append(s, e)
<1>1. Len(s) \in Nat /\ DOMAIN s = 1..Len(s)
  BY LenProperties
<1>2. /\ r \in Seq(S) /\ Len(r) = Len(s) + 1
      /\ \A i \in 1..Len(s) : r[i] = s[i]
      /\ r[Len(s) + 1] = e
  BY AppendProperties
<1>3. DOMAIN r = 1..(Len(s) + 1)
  BY <1>2, LenProperties
<1> HIDE DEF r
<1>4. Range(r) \subseteq Range(s) \cup {e}
  <2> SUFFICES ASSUME NEW i \in 1..(Len(s) + 1) PROVE r[i] \in Range(s) \cup {e}
    BY <1>3 DEF Range
  <2>1. i \in 1..Len(s) \/ i = Len(s) + 1
    BY <1>1
  <2> QED
    BY <1>1, <1>2, <2>1 DEF Range
<1>5. Range(s) \subseteq Range(r)
  <2> SUFFICES ASSUME NEW i \in 1..Len(s) PROVE s[i] \in Range(r)
    BY <1>1 DEF Range
  <2>1. i \in DOMAIN r /\ r[i] = s[i]
    BY <1>1, <1>2, <1>3
  <2> QED
    BY <2>1 DEF Range
<1>6. e \in Range(r)
  <2>1. Len(s) + 1 \in DOMAIN r
    BY <1>1, <1>3
  <2> QED
    BY <1>2, <2>1 DEF Range
<1> QED
  BY <1>2, <1>4, <1>5, <1>6 DEF r


(* A finite set of numbers has a greatest. *)
LEMMA NatMax ==
    ASSUME NEW T, T \subseteq Nat, IsFiniteSet(T), T # {}
    PROVE  Max(T) \in T /\ \A y \in T : y <= Max(T)
<1> DEFINE n == Cardinality(T)
           x == Nth(T, n)
<1>1. n \in Nat /\ n # 0
  BY FS_CardinalityType, FS_EmptySet
<1>2. n \in 1..n
  <2> HIDE DEF n
  <2> QED
    BY <1>1
<1>3. x \in T /\ Rank(T, x) = n
  BY <1>2, NthExists
<1>4. {j \in T : j <= x} = T
  <2> DEFINE U == {j \in T : j <= x}
  <2>1. U \in SUBSET T /\ Cardinality(U) = Cardinality(T)
    BY <1>3 DEF Rank
  <2> HIDE DEF U, x
  <2>2. U = T
    BY <2>1, FS_Subset
  <2> QED
    BY <2>2 DEF U
<1> HIDE DEF x
<1>5. \A y \in T : y <= x
  BY <1>4
<1>6. \E z \in T : \A y \in T : z >= y
  <2>1. \A y \in T : x >= y
    BY <1>3, <1>5
  <2> QED
    BY <1>3, <2>1
<1>7. Max(T) \in T /\ \A y \in T : Max(T) >= y
  BY <1>6 DEF Max
<1> QED
  BY <1>7

(* Moving a set of numbers up does not change its size. *)
LEMMA ShiftCard ==
    ASSUME NEW T, T \subseteq Nat, IsFiniteSet(T), NEW a \in Nat
    PROVE  IsFiniteSet({a + x : x \in T}) /\ Cardinality({a + x : x \in T}) = Cardinality(T)
<1> DEFINE U == {a + x : x \in T}
           f == [x \in T |-> a + x]
<1>1. f \in [T -> U]
  OBVIOUS
<1>2. \A x, y \in T : f[x] = f[y] => x = y
  <2> SUFFICES ASSUME NEW x \in T, NEW y \in T, a + x = a + y PROVE x = y
    OBVIOUS
  <2>1. x \in Nat /\ y \in Nat
    OBVIOUS
  <2> QED
    BY <2>1
<1>3. \A u \in U : \E x \in T : f[x] = u
  OBVIOUS
<1>4. DOMAIN f = T
  OBVIOUS
<1> HIDE DEF f, U
<1>5. f \in Bijection(T, U)
  BY <1>1, <1>2, <1>3, <1>4 DEF Bijection, Injection, Surjection, IsInjective
<1>6. ExistsBijection(T, U)
  BY <1>5 DEF ExistsBijection
<1>7. IsFiniteSet(U) /\ Cardinality(U) = Cardinality(T)
  BY <1>6, FS_Bijection
<1> QED
  BY <1>7 DEF U

(* Two sets of numbers, one below the other. *)
LEMMA StackCard ==
    ASSUME NEW A, NEW B, IsFiniteSet(A), IsFiniteSet(B), A \cap B = {}
    PROVE  /\ IsFiniteSet(A \cup B) /\ Cardinality(A \cup B) = Cardinality(A) + Cardinality(B)
           /\ Cardinality(A) \in Nat /\ Cardinality(B) \in Nat
<1>1. IsFiniteSet(A \cup B)
      /\ Cardinality(A \cup B) = Cardinality(A) + Cardinality(B) - Cardinality(A \cap B)
  BY FS_Union
<1>2. Cardinality(A \cap B) = 0 /\ Cardinality(A) \in Nat /\ Cardinality(B) \in Nat
  BY FS_EmptySet, FS_CardinalityType
<1> QED
  BY <1>1, <1>2

(* The filter of a list is the filters of its parts, one after the other. *)
LEMMA PickConcat ==
    ASSUME NEW S, NEW P, NEW s \in Seq(S), NEW u \in Seq(S)
    PROVE  Pick(s \o u, P) = Pick(s, P) \o Pick(u, P)
<1> DEFINE r == s \o u
           a == Len(s)
           I == PickedAt(s, P)
           J == PickedAt(u, P)
           K == PickedAt(r, P)
           up(T) == {a + x : x \in T}
           ni == Cardinality(I)
           nj == Cardinality(J)
           ps == Pick(s, P)
           pu == Pick(u, P)
           pr == Pick(r, P)
<1>1. /\ a \in Nat /\ Len(u) \in Nat /\ DOMAIN s = 1..a /\ DOMAIN u = 1..Len(u)
      /\ r \in Seq(S) /\ Len(r) = a + Len(u) /\ DOMAIN r = 1..(a + Len(u))
      /\ \A i \in 1..a : r[i] = s[i]
      /\ \A j \in 1..Len(u) : a + j \in 1..(a + Len(u)) /\ r[a + j] = u[j]
  <2>1. a \in Nat /\ Len(u) \in Nat /\ DOMAIN s = 1..a /\ DOMAIN u = 1..Len(u)
    BY LenProperties
  <2>2. /\ r \in Seq(S) /\ Len(r) = a + Len(u)
        /\ \A i \in 1..(a + Len(u)) : r[i] = IF i <= a THEN s[i] ELSE u[i - a]
    BY ConcatProperties
  <2>3. DOMAIN r = 1..(a + Len(u))
    BY <2>2, LenProperties
  <2> HIDE DEF r, a
  <2>4. \A i \in 1..a : r[i] = s[i]
    BY <2>1, <2>2
  <2>5. ASSUME NEW j \in 1..Len(u) PROVE a + j \in 1..(a + Len(u)) /\ r[a + j] = u[j]
    <3>1. a + j \in 1..(a + Len(u)) /\ ~(a + j <= a) /\ (a + j) - a = j
      BY <2>1
    <3> QED
      BY <2>2, <3>1
  <2> QED
    BY <2>1, <2>2, <2>3, <2>4, <2>5
<1> HIDE DEF r, a
<1>2. /\ I \subseteq 1..a /\ J \subseteq 1..Len(u) /\ I \subseteq Nat /\ J \subseteq Nat
      /\ K \subseteq Nat
  BY <1>1 DEF PickedAt
<1>3. IsFiniteSet(I) /\ IsFiniteSet(J) /\ IsFiniteSet(K)
  <2>1. IsFiniteSet(1..a) /\ IsFiniteSet(1..Len(u)) /\ IsFiniteSet(1..(a + Len(u)))
    <3>0. Len(u) \in Int
      BY <1>1
    <3>1. PICK b \in Int : b = Len(u)
      BY <3>0, Zenon
    <3>2. PICK c \in Int : c = a + Len(u)
      BY <1>1
    <3>3. a \in Int /\ 1 \in Int
      BY <1>1
    <3>4. IsFiniteSet(1..a) /\ IsFiniteSet(1..b) /\ IsFiniteSet(1..c)
      BY <3>3, FS_Interval
    <3> QED
      BY <3>1, <3>2, <3>4
  <2>2. K \subseteq 1..(a + Len(u))
    BY <1>1 DEF PickedAt
  <2> QED
    BY <1>2, <2>1, <2>2, FS_Subset
<1>4. K = I \cup up(J)
  <2>1. I \subseteq K
    BY <1>1 DEF PickedAt
  <2>2. up(J) \subseteq K
    BY <1>1 DEF PickedAt
  <2>3. ASSUME NEW k \in K PROVE k \in I \cup up(J)
    <3>1. k \in 1..(a + Len(u)) /\ r[k] \in P
      BY <1>1, <2>3 DEF PickedAt
    <3>2. CASE k <= a
      <4>1. k \in 1..a
        BY <1>1, <3>1, <3>2
      <4> QED
        BY <1>1, <3>1, <4>1 DEF PickedAt
    <3>3. CASE ~(k <= a)
      <4>1. PICK j \in 1..Len(u) : k = a + j
        <5>1. k - a \in 1..Len(u) /\ k = a + (k - a)
          BY <1>1, <3>1, <3>3
        <5> QED
          BY <5>1
      <4>2. j \in J
        BY <1>1, <3>1, <4>1 DEF PickedAt
      <4> QED
        BY <4>1, <4>2
    <3> QED
      BY <3>2, <3>3
  <2> QED
    BY <2>1, <2>2, <2>3
<1> HIDE DEF I, J, K
<1>5. ASSUME NEW T, T \subseteq J
      PROVE  /\ IsFiniteSet(up(T)) /\ Cardinality(up(T)) = Cardinality(T) /\ I \cap up(T) = {}
             /\ IsFiniteSet(T) /\ Cardinality(I \cup up(T)) = ni + Cardinality(T)
             /\ ni \in Nat /\ Cardinality(T) \in Nat
  <2>1. IsFiniteSet(T) /\ T \subseteq Nat
    BY <1>2, <1>3, <1>5, FS_Subset
  <2>2. IsFiniteSet(up(T)) /\ Cardinality(up(T)) = Cardinality(T)
    BY <1>1, <2>1, ShiftCard
  <2>3. I \cap up(T) = {}
    <3> SUFFICES ASSUME NEW x \in T, a + x \in I PROVE FALSE
      OBVIOUS
    <3>1. x \in 1..Len(u) /\ a + x \in 1..a
      BY <1>2, <1>5
    <3> QED
      BY <1>1, <3>1
  <2> HIDE DEF up
  <2>4. Cardinality(I \cup up(T)) = ni + Cardinality(up(T))
        /\ ni \in Nat /\ Cardinality(up(T)) \in Nat
    BY <1>3, <2>2, <2>3, StackCard
  <2> QED
    BY <2>1, <2>2, <2>3, <2>4
<1>6. Cardinality(K) = ni + nj /\ ni \in Nat /\ nj \in Nat
  BY <1>4, <1>5
<1>7. ASSUME NEW i \in I PROVE Rank(K, i) = Rank(I, i)
  <2>1. {k \in K : k <= i} = {k \in I : k <= i}
    <3>0. i \in 1..a
      BY <1>2, <1>7
    <3>1. ASSUME NEW x \in J PROVE ~(a + x <= i)
      <4>1. x \in 1..Len(u)
        BY <1>2, <3>1
      <4> QED
        BY <1>1, <3>0, <4>1
    <3> QED
      BY <1>4, <3>1
  <2> QED
    BY <2>1 DEF Rank
<1>8. ASSUME NEW j \in J PROVE Rank(K, a + j) = ni + Rank(J, j)
  <2> DEFINE T == {y \in J : y <= j}
  <2>1. {k \in K : k <= a + j} = I \cup up(T)
    <3>0. j \in 1..Len(u) /\ j \in Nat
      BY <1>2, <1>8
    <3>1. \A k \in I : k <= a + j
      BY <1>1, <1>2, <3>0
    <3>2. \A x \in J : a + x <= a + j <=> x <= j
      BY <1>1, <1>2, <3>0
    <3> QED
      BY <1>4, <3>1, <3>2
  <2>2. Cardinality(I \cup up(T)) = ni + Cardinality(T)
    BY <1>5
  <2> QED
    BY <2>1, <2>2 DEF Rank
<1>9. /\ \A k \in 1..ni : Nth(I, k) \in I /\ Rank(I, Nth(I, k)) = k
      /\ \A k \in 1..nj : Nth(J, k) \in J /\ Rank(J, Nth(J, k)) = k
      /\ \A k \in K : Nth(K, Rank(K, k)) = k
  BY <1>2, <1>3, NthExists
<1> HIDE DEF ni, nj
<1>10. ASSUME NEW k \in 1..ni PROVE Nth(K, k) = Nth(I, k)
  <2>1. Nth(I, k) \in K /\ Rank(K, Nth(I, k)) = k
    BY <1>4, <1>7, <1>9, <1>10
  <2> QED
    BY <1>9, <2>1
<1>11. ASSUME NEW k \in 1..nj PROVE Nth(K, ni + k) = a + Nth(J, k)
  <2>1. PICK j \in J : j = Nth(J, k) /\ Rank(J, j) = k
    BY <1>9, <1>11
  <2>2. a + j \in K /\ Rank(K, a + j) = ni + k
    BY <1>4, <1>8, <2>1
  <2> QED
    BY <1>9, <2>1, <2>2
<1>12. /\ ps = [k \in 1..ni |-> s[Nth(I, k)]]
       /\ pu = [k \in 1..nj |-> u[Nth(J, k)]]
       /\ pr = [k \in 1..(ni + nj) |-> r[Nth(K, k)]]
  BY <1>6 DEF Pick, I, J, K, ni, nj
<1>13. ps \in Seq(S) /\ pu \in Seq(S) /\ pr \in Seq(S)
  <2>1. \A q \in Seq(S) : Pick(q, P) \in Seq(S)
    <3> SUFFICES ASSUME NEW q \in Seq(S) PROVE Pick(q, P) \in Seq(S)
      OBVIOUS
    <3>1. Pick(q, P) \in Seq(S \cap P) /\ S \cap P \subseteq S
      BY PickType
    <3> QED
      BY <3>1, SeqMonotonic
  <2> QED
    BY <1>1, <2>1
<1> HIDE DEF ps, pu, pr
<1>14. Len(ps) = ni /\ Len(pu) = nj /\ Len(pr) = ni + nj
  BY <1>6, <1>12
<1>15. /\ ps \o pu \in Seq(S) /\ Len(ps \o pu) = ni + nj
       /\ \A k \in 1..(ni + nj) : (ps \o pu)[k] = IF k <= ni THEN ps[k] ELSE pu[k - ni]
  BY <1>13, <1>14, ConcatProperties
<1>16. ASSUME NEW k \in 1..(ni + nj) PROVE pr[k] = (ps \o pu)[k]
  <2>1. CASE k <= ni
    <3>1. k \in 1..ni
      BY <1>6, <2>1
    <3>2. pr[k] = r[Nth(I, k)] /\ Nth(I, k) \in 1..a
      BY <1>2, <1>9, <1>10, <1>12, <3>1
    <3>3. pr[k] = s[Nth(I, k)]
      BY <1>1, <3>2
    <3> QED
      BY <1>12, <1>15, <2>1, <3>1, <3>3
  <2>2. CASE ~(k <= ni)
    <3>1. PICK m \in 1..nj : k = ni + m /\ m = k - ni
      <4>1. k - ni \in 1..nj /\ k = ni + (k - ni)
        BY <1>6, <2>2
      <4> QED
        BY <4>1
    <3>2. pr[k] = r[a + Nth(J, m)] /\ Nth(J, m) \in 1..Len(u)
      BY <1>2, <1>9, <1>11, <1>12, <3>1
    <3>3. pr[k] = u[Nth(J, m)]
      BY <1>1, <3>2
    <3>4. pu[m] = u[Nth(J, m)] /\ (ps \o pu)[k] = pu[m]
      BY <1>12, <1>15, <2>2, <3>1
    <3> QED
      BY <3>3, <3>4
  <2> QED
    BY <2>1, <2>2
<1>17. pr = ps \o pu
  <2>1. Len(pr) = Len(ps \o pu) /\ \A k \in 1..Len(pr) : pr[k] = (ps \o pu)[k]
    BY <1>14, <1>15, <1>16
  <2> QED
    BY <1>13, <1>15, <2>1, SeqEqual
<1> QED
  BY <1>17 DEF pr, ps, pu, r

(* A filter keeps the order: f says where each element was. *)
LEMMA PickOrder ==
    ASSUME NEW S, NEW P, NEW s \in Seq(S)
    PROVE  \E f \in [1..Len(Pick(s, P)) -> 1..Len(s)] :
             /\ \A i \in 1..Len(Pick(s, P)) : Pick(s, P)[i] = s[f[i]] /\ s[f[i]] \in P
             /\ \A i, j \in 1..Len(Pick(s, P)) : i < j => f[i] < f[j]
<1> DEFINE I == PickedAt(s, P)
           n == Cardinality(I)
           p == Pick(s, P)
           f == [k \in 1..n |-> Nth(I, k)]
<1>1. Len(s) \in Nat /\ DOMAIN s = 1..Len(s)
  BY LenProperties
<1>2. I \subseteq 1..Len(s) /\ I \subseteq Nat /\ \A i \in I : s[i] \in P
  BY <1>1 DEF PickedAt
<1>3. IsFiniteSet(I)
  <2>0. Len(s) \in Int
    BY <1>1
  <2>1. PICK m \in Int : m = Len(s)
    BY <2>0, Zenon
  <2>2. 1 \in Int
    OBVIOUS
  <2>3. IsFiniteSet(1..m)
    BY <2>2, FS_Interval
  <2> HIDE DEF I
  <2>4. IsFiniteSet(1..Len(s))
    BY <2>1, <2>3
  <2> QED
    BY <1>2, <2>4, FS_Subset
<1> HIDE DEF I
<1>4. n \in Nat /\ \A k \in 1..n : Nth(I, k) \in I /\ Rank(I, Nth(I, k)) = k
  BY <1>2, <1>3, NthExists
<1>5. p = [k \in 1..n |-> s[Nth(I, k)]]
  BY DEF Pick, I
<1>6. p \in Seq(S \cap P)
  BY PickType
<1> HIDE DEF n, p
<1>7. Len(p) = n
  BY <1>4, <1>5, <1>6, LenProperties
<1>8. f \in [1..n -> 1..Len(s)] /\ \A k \in 1..n : f[k] = Nth(I, k)
  BY <1>2, <1>4
<1> HIDE DEF f
<1>9. \A k \in 1..n : p[k] = s[f[k]] /\ s[f[k]] \in P
  BY <1>2, <1>4, <1>5, <1>8
<1>10. ASSUME NEW i \in 1..n, NEW j \in 1..n, i < j PROVE f[i] < f[j]
  <2> DEFINE A == {x \in I : x <= f[i]}
             B == {x \in I : x <= f[j]}
  <2>1. Rank(I, f[i]) = i /\ Rank(I, f[j]) = j /\ f[i] \in Nat /\ f[j] \in Nat
    BY <1>2, <1>4, <1>8
  <2>2. Cardinality(A) = i /\ Cardinality(B) = j
    BY <2>1 DEF Rank
  <2>3. IsFiniteSet(A)
    <3>1. A \subseteq I
      OBVIOUS
    <3> HIDE DEF A
    <3> QED
      BY <1>3, <3>1, FS_Subset
  <2>4. ASSUME f[j] <= f[i] PROVE B \subseteq A
    <3>1. PICK u \in Nat, v \in Nat : u = f[i] /\ v = f[j] /\ v <= u
      BY <2>1, <2>4
    <3>2. \A x \in I : x <= v => x <= u
      BY <1>2, <3>1
    <3> QED
      BY <3>1, <3>2
  <2>5. B \subseteq A => Cardinality(B) <= Cardinality(A)
    <3> HIDE DEF A, B
    <3> QED
      BY <2>3, FS_Subset
  <2>6. ~ (f[j] <= f[i])
    <3> HIDE DEF A, B
    <3>1. i \in Nat /\ j \in Nat
      BY <1>4
    <3> QED
      BY <1>10, <2>2, <2>4, <2>5, <3>1
  <2> QED
    BY <2>1, <2>6
<1> QED
  BY <1>7, <1>8, <1>9, <1>10 DEF p
=============================================================================
