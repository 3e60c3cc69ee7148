----------------------------- MODULE WireProofs -----------------------------
(***************************************************************************)
(* Proofs about Packets and Wire: for packets of any values their fields   *)
(* are for, matches of any number of slots, bundles of any number of       *)
(* frames, and requests and answers of any number of packets. What is      *)
(* written is read back: numbers, lengths, strings and lists first, then   *)
(* fields one after the other, then matches and bundles part by part, then *)
(* packets; and at the end the requests of a client, with the invariant    *)
(* that says which packet the loop of bancho_handler stands at.            *)
(***************************************************************************)
EXTENDS Wire, SequenceTheorems, FiniteSetTheorems, TLAPS

\* Induction over the natural numbers, about a set of numbers rather than a predicate
LEMMA Induction ==
    ASSUME NEW S, 0 \in S, \A n \in Nat : n \in S => n + 1 \in S
    PROVE  Nat \subseteq S
<1> SUFFICES ASSUME NEW n \in Nat, n \notin S PROVE FALSE
  OBVIOUS
<1> DEFINE A == {m \in 0..n : m \in S}
           f == [m \in A |-> m + 1]
<1>1. IsFiniteSet(A) /\ 0 \in A
  <2>1. IsFiniteSet(0..n) /\ A \subseteq 0..n
    BY FS_Interval
  <2> QED
    BY <2>1, FS_Subset
<1>2. \A m \in A : m + 1 \in A \ {0}
  OBVIOUS
<1>3. f \in Injection(A, A \ {0})
  <2>1. f \in [A -> A \ {0}] /\ \A a, b \in A : f[a] = f[b] => a = b
    BY <1>2
  <2> QED
    BY <2>1, Zenon DEF Injection, IsInjective
<1>4. IsFiniteSet(A \ {0}) /\ Cardinality(A \ {0}) = Cardinality(A) - 1 /\ Cardinality(A) \in Nat
  BY <1>1, FS_RemoveElement, FS_CardinalityType
<1>5. Cardinality(A) <= Cardinality(A \ {0})
  BY <1>3, <1>4, <1>1, FS_Injection
<1> QED
  BY <1>4, <1>5

\* Where a number follows from all that are less
LEMMA StrongInduction ==
    ASSUME NEW S, \A n \in Nat : (\A m \in 0 .. n - 1 : m \in S) => n \in S
    PROVE  Nat \subseteq S
<1> DEFINE Below == {n \in Nat : \A m \in 0..n : m \in S}
<1>1. 0 \in Below
  OBVIOUS
<1>2. \A n \in Nat : n \in Below => n + 1 \in Below
  OBVIOUS
<1>3. Nat \subseteq Below
  <2> HIDE DEF Below
  <2> QED
    BY <1>1, <1>2, Induction
<1> QED
  BY <1>3

-----------------------------------------------------------------------------
(* Pieces of sequences *)

\* A function on the first numbers is a sequence.
LEMMA SequenceOf ==
    ASSUME NEW S, NEW n \in Nat, NEW x \in [1..n -> S]
    PROVE  x \in Seq(S) /\ Len(x) = n
  OBVIOUS

\* Four elements are a sequence.
LEMMA FourOf ==
    ASSUME NEW S, NEW x \in [1..4 -> S]
    PROVE  x \in Seq(S) /\ Len(x) = 4
  OBVIOUS

\* The bounds of a byte
LEMMA ByteIs ==
    ASSUME NEW x \in Byte
    PROVE  x \in Nat /\ x <= 255
  BY DEF Byte

Joins(s, t, u) == (s \o t) \o u = s \o (t \o u)
LEMMA Associative ==
    ASSUME NEW S, NEW s \in Seq(S), NEW t \in Seq(S), NEW u \in Seq(S)
    PROVE  Joins(s, t, u)
  BY DEF Joins

Extends(s, t, x) == Append(s \o t, x) = s \o Append(t, x)
LEMMA AppendAfter ==
    ASSUME NEW S, NEW s \in Seq(S), NEW t \in Seq(S), NEW x \in S
    PROVE  Extends(s, t, x)
  BY DEF Extends

\* A piece that lies in the first of two sequences
LEMMA PieceLeft ==
    ASSUME NEW S, NEW s \in Seq(S), NEW t \in Seq(S), NEW k \in Nat, NEW m \in Nat,
           1 <= k, m <= Len(s)
    PROVE  SubSeq(s \o t, k, m) = SubSeq(s, k, m)
  OBVIOUS

\* A piece that lies in the second of two sequences
LEMMA PieceRight ==
    ASSUME NEW S, NEW s \in Seq(S), NEW t \in Seq(S), NEW k \in Nat, NEW m \in Nat,
           Len(s) < k, m <= Len(s) + Len(t)
    PROVE  SubSeq(s \o t, k, m) = SubSeq(t, k - Len(s), m - Len(s))
  OBVIOUS

\* What was put before something else is taken, and what is dropped leaves the rest.
LEMMA TakeAndDrop ==
    ASSUME NEW S, NEW s \in Seq(S), NEW t \in Seq(S)
    PROVE  Take(s \o t, Len(s)) = s /\ Drop(s \o t, Len(s)) = t
  BY DEF Take, Drop

-----------------------------------------------------------------------------
(* What FlattenSeq returns *)

\* Its recursive function
FlatOf(seqs, n, flat) ==
    flat = [i \in 1..n |-> IF i = 1 THEN seqs[i] ELSE flat[i - 1] \o seqs[i]]

LEMMA FlatExists ==
    ASSUME NEW seqs, NEW n \in Nat
    PROVE  \E flat : FlatOf(seqs, n, flat)
<1> DEFINE Good == {m \in Nat : \E flat : FlatOf(seqs, m, flat)}
<1>1. 0 \in Good
  <2>1. FlatOf(seqs, 0, [i \in 1..0 |-> <<>>])
    BY DEF FlatOf
  <2> QED
    BY <2>1
<1>2. \A m \in Nat : m \in Good => m + 1 \in Good
  <2> SUFFICES ASSUME NEW m \in Nat, NEW f, FlatOf(seqs, m, f)
               PROVE  \E flat : FlatOf(seqs, m + 1, flat)
    OBVIOUS
  <2> DEFINE last == IF m = 0 THEN seqs[1] ELSE f[m] \o seqs[m + 1]
             g == [i \in 1 .. m + 1 |-> IF i = m + 1 THEN last ELSE f[i]]
  <2>1. \A i \in 1..m : g[i] = f[i]
    OBVIOUS
  <2>2. \A i \in 1..m : f[i] = IF i = 1 THEN seqs[i] ELSE f[i - 1] \o seqs[i]
    BY DEF FlatOf
  <2>3. \A i \in 1 .. m + 1 : g[i] = IF i = 1 THEN seqs[i] ELSE g[i - 1] \o seqs[i]
    <3> TAKE i \in 1 .. m + 1
    <3>1. CASE i = m + 1
      <4>1. g[i] = last /\ (i = 1 <=> m = 0) /\ i - 1 = m /\ (m # 0 => g[m] = f[m])
        BY <3>1
      <4> HIDE DEF g
      <4> QED
        BY <4>1, <3>1
    <3>2. CASE i \in 1..m
      <4>1. g[i] = f[i] /\ (i # 1 => i - 1 \in 1..m /\ g[i - 1] = f[i - 1])
        BY <3>2, <2>1
      <4> HIDE DEF g
      <4> QED
        BY <4>1, <2>2, <3>2
    <3> QED
      BY <3>1, <3>2
  <2>4. FlatOf(seqs, m + 1, g)
    <3>1. g = [i \in 1 .. m + 1 |-> g[i]]
      OBVIOUS
    <3> HIDE DEF g
    <3> QED
      BY <2>3, <3>1 DEF FlatOf
  <2> QED
    BY <2>4
<1> QED
  BY <1>1, <1>2, Induction

\* Two sequences that agree up to some place are flattened alike up to it.
LEMMA FlatAgree ==
    ASSUME NEW s, NEW t, NEW n \in Nat, NEW m \in Nat, n <= m,
           \A i \in 1..n : s[i] = t[i],
           NEW f, NEW g, FlatOf(s, n, f), FlatOf(t, m, g)
    PROVE  \A i \in 1..n : f[i] = g[i]
<1>1. \A i \in 1..n : f[i] = IF i = 1 THEN s[i] ELSE f[i - 1] \o s[i]
  BY DEF FlatOf
<1>2. \A i \in 1..n : g[i] = IF i = 1 THEN t[i] ELSE g[i - 1] \o t[i]
  <2>1. \A i \in 1..m : g[i] = IF i = 1 THEN t[i] ELSE g[i - 1] \o t[i]
    BY DEF FlatOf
  <2> QED
    BY <2>1
<1> DEFINE Good == {i \in Nat : i + 1 <= n => f[i + 1] = g[i + 1]}
<1>3. 0 \in Good
  BY <1>1, <1>2
<1>4. \A i \in Nat : i \in Good => i + 1 \in Good
  <2> SUFFICES ASSUME NEW i \in Nat, i \in Good, i + 2 <= n PROVE f[i + 2] = g[i + 2]
    OBVIOUS
  <2>1. i + 2 \in 1..n /\ i + 2 # 1 /\ i + 2 - 1 = i + 1 /\ f[i + 1] = g[i + 1]
    OBVIOUS
  <2> QED
    BY <2>1, <1>1, <1>2
<1>5. Nat \subseteq Good
  <2> HIDE DEF Good
  <2> QED
    BY <1>3, <1>4, Induction
<1> SUFFICES ASSUME NEW i \in 1..n PROVE f[i] = g[i]
  OBVIOUS
<1>6. i - 1 \in Good
  BY <1>5
<1> QED
  BY <1>6

\* A piece that is appended comes last.
LEMMA FlattenAppend ==
    ASSUME NEW S, NEW s \in Seq(Seq(S)), NEW x \in Seq(S)
    PROVE  FlattenSeq(Append(s, x)) = FlattenSeq(s) \o x
<1> DEFINE n == Len(s)
           t == Append(s, x)
           f == CHOOSE flat : FlatOf(s, n, flat)
           g == CHOOSE flat : FlatOf(t, n + 1, flat)
<1>1. /\ n \in Nat /\ Len(t) = n + 1 /\ t[n + 1] = x
      /\ \A i \in 1..n : s[i] = t[i]
  BY AppendProperties
<1>2. FlatOf(s, n, f) /\ FlatOf(t, n + 1, g)
  <2>1. n \in Nat /\ n + 1 \in Nat
    BY <1>1
  <2> HIDE DEF n, t
  <2> QED
    BY <2>1, FlatExists
<1>3. \A i \in 1..n : f[i] = g[i]
  <2> HIDE DEF f, g, t, n
  <2>1. n + 1 \in Nat /\ n <= n + 1
    BY <1>1
  <2> QED
    BY <1>1, <1>2, <2>1, FlatAgree
<1>4. FlattenSeq(t) = g[n + 1]
  <2>1. FlattenSeq(t) = IF Len(t) = 0 THEN t ELSE (CHOOSE flat : FlatOf(t, Len(t), flat))[Len(t)]
    BY DEF FlattenSeq, FlatOf
  <2> HIDE DEF t, n
  <2> QED
    BY <1>1, <2>1
<1>5. g[n + 1] = IF n = 0 THEN x ELSE g[n] \o x
  <2> HIDE DEF f, g, t, n
  <2>1. \A i \in 1 .. n + 1 : g[i] = IF i = 1 THEN t[i] ELSE g[i - 1] \o t[i]
    BY <1>2 DEF FlatOf
  <2>2. n + 1 \in 1 .. n + 1 /\ n + 1 - 1 = n
    BY <1>1
  <2> QED
    BY <2>1, <2>2, <1>1
<1>6. FlattenSeq(s) = IF n = 0 THEN <<>> ELSE f[n]
  <2>1. FlattenSeq(s) = IF n = 0 THEN s ELSE f[n]
    BY DEF FlattenSeq, FlatOf
  <2>2. n = 0 => s = <<>>
    BY EmptySeq
  <2> HIDE DEF f, n
  <2> QED
    BY <2>1, <2>2
<1>7. <<>> \o x = x
  BY ConcatEmptySeq
<1> HIDE DEF f, g, n
<1>8. CASE n = 0
  BY <1>4, <1>5, <1>6, <1>7, <1>8
<1>9. CASE n # 0
  <2>1. f[n] = g[n]
    BY <1>1, <1>3, <1>9
  <2> QED
    BY <2>1, <1>4, <1>5, <1>6, <1>9
<1> QED
  BY <1>8, <1>9

\* Nothing is flattened to nothing.
LEMMA FlattenEmpty == FlattenSeq(<<>>) = <<>>
  BY DEF FlattenSeq

\* What is flattened has the elements of its pieces.
LEMMA FlattenType ==
    ASSUME NEW S, NEW s \in Seq(Seq(S))
    PROVE  FlattenSeq(s) \in Seq(S)
<1> DEFINE Good == {n \in Nat : \A t \in Seq(Seq(S)) : Len(t) = n => FlattenSeq(t) \in Seq(S)}
<1>1. 0 \in Good
  <2> SUFFICES ASSUME NEW t \in Seq(Seq(S)), Len(t) = 0 PROVE FlattenSeq(t) \in Seq(S)
    OBVIOUS
  <2>1. t = <<>>
    BY EmptySeq
  <2> QED
    BY <2>1, FlattenEmpty, EmptySeq
<1>2. \A n \in Nat : n \in Good => n + 1 \in Good
  <2> SUFFICES ASSUME NEW n \in Nat, n \in Good, NEW t \in Seq(Seq(S)), Len(t) = n + 1
               PROVE  FlattenSeq(t) \in Seq(S)
    OBVIOUS
  <2>1. t # <<>>
    BY EmptySeq
  <2>2. PICK r \in Seq(Seq(S)), x \in Seq(S) : t = Append(r, x)
    BY <2>1, SequenceEmptyOrAppend
  <2>3. Len(r) = n
    <3>1. Len(t) = Len(r) + 1 /\ Len(r) \in Nat
      BY <2>2, AppendProperties, LenProperties
    <3> QED
      BY <3>1
  <2>4. FlattenSeq(r) \in Seq(S) /\ FlattenSeq(t) = FlattenSeq(r) \o x
    BY <2>2, <2>3, FlattenAppend
  <2> QED
    BY <2>4, ConcatProperties
<1>3. Nat \subseteq Good /\ Len(s) \in Nat
  <2> HIDE DEF Good
  <2> QED
    BY <1>1, <1>2, Induction, LenProperties
<1> QED
  BY <1>3

\* Two sequences of pieces are flattened one after the other.
LEMMA FlattenConcat ==
    ASSUME NEW S, NEW a \in Seq(Seq(S)), NEW b \in Seq(Seq(S))
    PROVE  FlattenSeq(a \o b) = FlattenSeq(a) \o FlattenSeq(b)
<1> DEFINE Good == {n \in Nat : \A t \in Seq(Seq(S)) :
                      Len(t) = n => FlattenSeq(a \o t) = FlattenSeq(a) \o FlattenSeq(t)}
<1>0. FlattenSeq(a) \in Seq(S)
  BY FlattenType
<1>1. 0 \in Good
  <2> SUFFICES ASSUME NEW t \in Seq(Seq(S)), Len(t) = 0
               PROVE  FlattenSeq(a \o t) = FlattenSeq(a) \o FlattenSeq(t)
    OBVIOUS
  <2>1. t = <<>>
    BY EmptySeq
  <2>2. a \o <<>> = a /\ FlattenSeq(a) \o <<>> = FlattenSeq(a)
    BY <1>0, ConcatEmptySeq
  <2> QED
    BY <2>1, <2>2, FlattenEmpty
<1>2. \A n \in Nat : n \in Good => n + 1 \in Good
  <2> SUFFICES ASSUME NEW n \in Nat, n \in Good PROVE n + 1 \in Good
    OBVIOUS
  <2> SUFFICES ASSUME NEW t \in Seq(Seq(S)), Len(t) = n + 1
               PROVE  FlattenSeq(a \o t) = FlattenSeq(a) \o FlattenSeq(t)
    OBVIOUS
  <2>1. t # <<>>
    BY EmptySeq
  <2>2. PICK r \in Seq(Seq(S)), x \in Seq(S) : t = Append(r, x)
    BY <2>1, SequenceEmptyOrAppend
  <2>3. Len(r) = n
    <3>1. Len(t) = Len(r) + 1 /\ Len(r) \in Nat
      BY <2>2, AppendProperties, LenProperties
    <3> QED
      BY <3>1
  <2>4. FlattenSeq(a \o r) = FlattenSeq(a) \o FlattenSeq(r) /\ a \o r \in Seq(Seq(S))
    BY <2>3, ConcatProperties
  <2>5. a \o t = Append(a \o r, x)
    BY <2>2
  <2>6. FlattenSeq(t) = FlattenSeq(r) \o x /\ FlattenSeq(r) \in Seq(S)
    BY <2>2, FlattenAppend, FlattenType
  <2>7. FlattenSeq(Append(a \o r, x)) = FlattenSeq(a \o r) \o x
    BY <2>4, FlattenAppend
  <2>8. (FlattenSeq(a) \o FlattenSeq(r)) \o x = FlattenSeq(a) \o (FlattenSeq(r) \o x)
    <3> DEFINE p == FlattenSeq(a)
               q == FlattenSeq(r)
    <3>1. p \in Seq(S) /\ q \in Seq(S)
      BY <1>0, <2>6
    <3>2. (p \o q) \o x = p \o (q \o x)
      <4> HIDE DEF p, q, Good
      <4> QED
        BY <3>1
    <3> QED
      BY <3>2
  <2> QED
    BY <2>4, <2>5, <2>6, <2>7, <2>8
<1>3. Nat \subseteq Good /\ Len(b) \in Nat
  <2> HIDE DEF Good
  <2> QED
    BY <1>1, <1>2, Induction, LenProperties
<1> QED
  BY <1>3

\* One piece is flattened to itself.
LEMMA FlattenOne ==
    ASSUME NEW S, NEW x \in Seq(S)
    PROVE  FlattenSeq(<<x>>) = x
<1>1. <<>> \in Seq(Seq(S)) /\ Append(<<>>, x) = <<x>> /\ <<>> \o x = x
  BY EmptySeq, ConcatEmptySeq
<1> QED
  BY <1>1, FlattenAppend, FlattenEmpty

-----------------------------------------------------------------------------
(* Numbers *)

Small == -MaxI32 - 1 .. MaxI32

\* What is used of the bounds of numbers
LEMMA MaxIs ==
    /\ MaxI16 \in Nat /\ MaxI16 <= 32767 /\ MaxU16 \in Nat /\ MaxU16 <= 65535 /\ MaxU16 >= 255
    /\ MaxI32 \in Nat /\ MaxI32 <= 2147483647 /\ MaxI16 < MaxU16 /\ MaxU16 < MaxI32
  BY SMT DEF MaxI16, MaxU16, MaxI32

\* A number of 31 bits by its bytes
LEMMA Digits ==
    ASSUME NEW n \in 0..MaxI32
    PROVE  /\ (n \div 16777216) % 256 = n \div 16777216 /\ n \div 16777216 \in 0..127
           /\ n = (n % 256) + 256 * ((n \div 256) % 256) + 65536 * ((n \div 65536) % 256)
                    + 16777216 * (n \div 16777216)
<1>1. n \div 16777216 \in 0..127
  BY MaxIs, SMT
<1>2. /\ n \div 256 \in Nat /\ n = 256 * (n \div 256) + (n % 256)
      /\ n \div 65536 \in Nat /\ n \div 16777216 \in Nat
  BY SMT
<1>3. n \div 256 = 256 * (n \div 65536) + ((n \div 256) % 256)
  BY SMT
<1>4. n \div 65536 = 256 * (n \div 16777216) + ((n \div 65536) % 256)
  BY SMT
<1> QED
  BY <1>1, <1>2, <1>3, <1>4, SMT

\* The bytes of a number, of its magnitude
Magnitude(n) == IF n >= 0 THEN n ELSE -(n + 1)
Digit(n, k) == IF k > 4 THEN 0 ELSE (Magnitude(n) \div Place[k]) % 256

\* The digits of a number of 31 bits
LEMMA DigitTypes ==
    ASSUME NEW n \in Small, NEW k \in 1..8
    PROVE  /\ Magnitude(n) \in 0..MaxI32 /\ Digit(n, k) \in Byte
           /\ Digit(n, 1) = Magnitude(n) % 256
           /\ Digit(n, 2) = (Magnitude(n) \div 256) % 256
           /\ Digit(n, 3) = (Magnitude(n) \div 65536) % 256
           /\ Digit(n, 4) = (Magnitude(n) \div 16777216) % 256
<1>1. Magnitude(n) \in 0..MaxI32
  BY MaxIs, SMT DEF Magnitude, Small
<1>2. Place[1] = 1 /\ Place[2] = 256 /\ Place[3] = 65536 /\ Place[4] = 16777216
  BY SMT DEF Place
<1>3. /\ Digit(n, 1) = Magnitude(n) % 256
      /\ Digit(n, 2) = (Magnitude(n) \div 256) % 256
      /\ Digit(n, 3) = (Magnitude(n) \div 65536) % 256
      /\ Digit(n, 4) = (Magnitude(n) \div 16777216) % 256
  BY <1>1, <1>2, MaxIs, SMT DEF Digit
<1>4. k \in 1..4 => Place[k] \in Nat \ {0}
  BY <1>2, SMT
<1>5. Digit(n, k) \in Byte
  <2>1. CASE k > 4
    BY <2>1, SMT DEF Digit, Byte
  <2>2. CASE k = 1
    BY <2>2, <1>1, <1>3, MaxIs, SMT DEF Byte
  <2>3. CASE k = 2
    BY <2>3, <1>1, <1>3, MaxIs, SMT DEF Byte
  <2>4. CASE k = 3
    BY <2>4, <1>1, <1>3, MaxIs, SMT DEF Byte
  <2>5. CASE k = 4
    BY <2>5, <1>1, <1>3, MaxIs, SMT DEF Byte
  <2> QED
    BY <2>1, <2>2, <2>3, <2>4, <2>5, SMT
<1> QED
  BY <1>1, <1>3, <1>5, SMT

\* The bytes that are written of a number
LEMMA LittleEndianBytes ==
    ASSUME NEW n \in Small, NEW w, w \in {1, 2, 4, 8}
    PROVE  /\ LittleEndian(n, w) \in [1..w -> Byte]
           /\ LittleEndian(n, w) \in Seq(Byte) /\ Len(LittleEndian(n, w)) = w
           /\ \A k \in 1..w : LittleEndian(n, w)[k] =
                IF n >= 0 THEN Digit(n, k) ELSE 255 - Digit(n, k)
<1>1. LittleEndian(n, w) = [k \in 1..w |-> IF n >= 0 THEN Digit(n, k) ELSE 255 - Digit(n, k)]
  BY SMT DEF LittleEndian, Digit, Magnitude
<1>2. \A k \in 1..w : Digit(n, k) \in Byte
  <2> TAKE k \in 1..w
  <2>1. k \in 1..8
    BY SMT
  <2> QED
    BY <2>1, DigitTypes, SMT
<1>3. \A k \in 1..w : (IF n >= 0 THEN Digit(n, k) ELSE 255 - Digit(n, k)) \in Byte
  BY <1>2, SMT DEF Byte
<1>4. LittleEndian(n, w) \in [1..w -> Byte]
  BY <1>1, <1>3, SMT
<1>5. w \in Nat
  BY SMT
<1> QED
  BY <1>1, <1>4, <1>5, SMT

\* The values a field of numbers is for, type by type
LEMMA NumbersOf ==
    ASSUME NEW type \in Signed \cup Unsigned, NEW n \in Numbers(type)
    PROVE  \/ type = "u8" /\ Width(type) = 1 /\ n \in Nat /\ n <= 255
           \/ type = "i8" /\ Width(type) = 1 /\ n \in Int /\ -128 <= n /\ n <= 127
           \/ type = "u16" /\ Width(type) = 2 /\ n \in Nat /\ n <= MaxU16
           \/ type = "i16" /\ Width(type) = 2 /\ n \in Int /\ -MaxI16 - 1 <= n /\ n <= MaxI16
           \/ type = "u32" /\ Width(type) = 4 /\ n \in Nat /\ n <= MaxI32
           \/ type = "i32" /\ Width(type) = 4 /\ n \in Int /\ -MaxI32 - 1 <= n /\ n <= MaxI32
           \/ type = "i64" /\ Width(type) = 8 /\ n \in Int /\ -MaxI32 - 1 <= n /\ n <= MaxI32
<1>1. CASE type = "u8"
  BY <1>1, SMT DEF Numbers, Width
<1>2. CASE type = "i8"
  BY <1>2, SMT DEF Numbers, Width
<1>3. CASE type = "u16"
  BY <1>3, MaxIs, SMT DEF Numbers, Width
<1>4. CASE type = "i16"
  BY <1>4, MaxIs, SMT DEF Numbers, Width
<1>5. CASE type = "u32"
  BY <1>5, MaxIs, SMT DEF Numbers, Width
<1>6. CASE type = "i32"
  BY <1>6, MaxIs, SMT DEF Numbers, Width
<1>7. CASE type = "i64"
  BY <1>7, MaxIs, SMT DEF Numbers, Width
<1> QED
  BY <1>1, <1>2, <1>3, <1>4, <1>5, <1>6, <1>7, SMT DEF Signed, Unsigned

\* The most significant byte is over 127 where there is a sign.
LEMMA SignRead ==
    ASSUME NEW type \in Signed \cup Unsigned, NEW n \in Numbers(type), NEW top,
           top = LET digit == Digit(n, Width(type)) IN IF n >= 0 THEN digit ELSE 255 - digit
    PROVE  (type \in Signed /\ top > 127) <=> n < 0
<1> DEFINE m == Magnitude(n)
<1>1. n \in Small
  BY NumbersOf, MaxIs, SMT DEF Small
<1>2. /\ m \in 0..MaxI32
      /\ Digit(n, 1) = m % 256 /\ Digit(n, 2) = (m \div 256) % 256
      /\ Digit(n, 4) = (m \div 16777216) % 256
  <2>1. 1 \in 1..8
    BY SMT
  <2> QED
    BY <1>1, <2>1, DigitTypes, SMT
<1>3. Digit(n, 8) = 0
  BY SMT DEF Digit
<1>4. type \in Signed <=> type \in {"i8", "i16", "i32", "i64"}
  BY SMT DEF Signed
<1>5. CASE type = "u8" /\ Width(type) = 1 /\ n \in Nat /\ n <= 255
  BY <1>4, <1>5, SMT
<1>6. CASE type = "i8" /\ Width(type) = 1 /\ n \in Int /\ -128 <= n /\ n <= 127
  <2>1. m \in Nat /\ m <= 127
    BY <1>6, SMT DEF Magnitude
  <2>2. m % 256 = m
    BY <2>1, SMT
  <2> HIDE DEF m
  <2> QED
    BY <1>2, <1>4, <1>6, <2>1, <2>2, SMT
<1>7. CASE type = "u16" /\ Width(type) = 2 /\ n \in Nat /\ n <= MaxU16
  BY <1>4, <1>7, SMT
<1>8. CASE type = "i16" /\ Width(type) = 2 /\ n \in Int /\ -MaxI16 - 1 <= n /\ n <= MaxI16
  <2>1. m \in Nat /\ m <= 32767
    BY <1>8, MaxIs, SMT DEF Magnitude
  <2>2. (m \div 256) % 256 <= 127 /\ (m \div 256) % 256 \in Nat
    <3> HIDE DEF m
    <3> QED
      BY <2>1, SMT
  <2> HIDE DEF m
  <2> QED
    BY <1>2, <1>4, <1>8, <2>2, SMT
<1>9. CASE type = "u32" /\ Width(type) = 4 /\ n \in Nat /\ n <= MaxI32
  BY <1>4, <1>9, SMT
<1>10. CASE type = "i32" /\ Width(type) = 4 /\ n \in Int /\ -MaxI32 - 1 <= n /\ n <= MaxI32
  <2>1. (m \div 16777216) % 256 \in 0..127
    <3> HIDE DEF m
    <3> QED
      BY <1>2, Digits, SMT
  <2> HIDE DEF m
  <2> QED
    BY <1>2, <1>4, <1>10, <2>1, SMT
<1>11. CASE type = "i64" /\ Width(type) = 8 /\ n \in Int /\ -MaxI32 - 1 <= n /\ n <= MaxI32
  BY <1>3, <1>4, <1>11, SMT
<1> QED
  BY <1>5, <1>6, <1>7, <1>8, <1>9, <1>10, <1>11, NumbersOf, SMT

\* The digits a type has no place for are zero.
LEMMA DigitsFit ==
    ASSUME NEW type \in Signed \cup Unsigned, NEW n \in Numbers(type)
    PROVE  \A k \in 1..4 : k > Width(type) => Digit(n, k) = 0
<1> DEFINE m == Magnitude(n)
<1>1. n \in Small
  BY NumbersOf, MaxIs, SMT DEF Small
<1>2. /\ m \in Nat /\ Digit(n, 2) = (m \div 256) % 256
      /\ Digit(n, 3) = (m \div 65536) % 256 /\ Digit(n, 4) = (m \div 16777216) % 256
  <2>1. 1 \in 1..8
    BY SMT
  <2> QED
    BY <1>1, <2>1, DigitTypes, SMT
<1>3. CASE Width(type) = 1
  <2>1. m <= 255
    BY <1>3, NumbersOf, SMT DEF Magnitude
  <2>2. m \div 256 = 0 /\ m \div 65536 = 0 /\ m \div 16777216 = 0
    <3> HIDE DEF m
    <3> QED
      BY <1>2, <2>1, SMT
  <2> HIDE DEF m
  <2> QED
    BY <1>2, <1>3, <2>2, SMT
<1>4. CASE Width(type) = 2
  <2>1. m <= 65535
    BY <1>4, NumbersOf, MaxIs, SMT DEF Magnitude
  <2>2. m \div 65536 = 0 /\ m \div 16777216 = 0
    <3> HIDE DEF m
    <3> QED
      BY <1>2, <2>1, SMT
  <2> HIDE DEF m
  <2> QED
    BY <1>2, <1>4, <2>2, SMT
<1>5. CASE Width(type) \in {4, 8}
  BY <1>5, SMT
<1> QED
  BY <1>3, <1>4, <1>5, NumbersOf, SMT

\* A number is read as it was written, with its sign.
LEMMA NumberRead ==
    ASSUME NEW type \in Signed \cup Unsigned, NEW n \in Numbers(type)
    PROVE  /\ n \in Small /\ Width(type) \in {1, 2, 4, 8}
           /\ Number(LittleEndian(n, Width(type)), type \in Signed) = n
<1> DEFINE w == Width(type)
           m == Magnitude(n)
           s == LittleEndian(n, w)
           negative == type \in Signed /\ s[w] > 127
           digit(k) == IF k > w THEN 0 ELSE IF negative THEN 255 - s[k] ELSE s[k]
           magnitude == digit(1) + 256 * digit(2) + 65536 * digit(3) + 16777216 * digit(4)
<1>1. n \in Small /\ w \in {1, 2, 4, 8}
  BY NumbersOf, MaxIs, SMT DEF Small
<1>2. /\ Len(s) = w
      /\ \A k \in 1..w : s[k] = IF n >= 0 THEN Digit(n, k) ELSE 255 - Digit(n, k)
  <2> HIDE DEF w
  <2> QED
    BY <1>1, LittleEndianBytes, SMT
<1>3. Number(s, type \in Signed) = IF negative THEN -magnitude - 1 ELSE magnitude
  <2> HIDE DEF w, s
  <2> QED
    BY <1>2, SMT DEF Number
<1>4. negative <=> n < 0
  <2>1. s[w] = IF n >= 0 THEN Digit(n, w) ELSE 255 - Digit(n, w)
    <3>1. w \in 1..w
      BY <1>1, SMT
    <3> HIDE DEF s, w
    <3> QED
      BY <1>2, <3>1, SMT
  <2> HIDE DEF s
  <2> QED
    BY <2>1, SignRead, SMT
<1>5. \A k \in 1..4 : digit(k) = Digit(n, k) /\ Digit(n, k) \in Byte
  <2> TAKE k \in 1..4
  <2>1. Digit(n, k) \in Byte /\ (k > w => Digit(n, k) = 0)
    <3>1. k \in 1..8
      BY SMT
    <3> QED
      BY <1>1, <3>1, DigitTypes, DigitsFit, SMT
  <2>2. k <= w => s[k] = IF n >= 0 THEN Digit(n, k) ELSE 255 - Digit(n, k)
    BY <1>1, <1>2, SMT
  <2>3. Digit(n, k) \in Int /\ n \in Int /\ w \in Int
    BY <1>1, <2>1, MaxIs, SMT DEF Byte, Small
  <2> HIDE DEF s, w, negative
  <2> QED
    BY <1>4, <2>1, <2>2, <2>3, SMT
<1>6. magnitude = m /\ m \in Nat
  <2>1. /\ m \in 0..MaxI32
        /\ Digit(n, 1) = m % 256 /\ Digit(n, 2) = (m \div 256) % 256
        /\ Digit(n, 3) = (m \div 65536) % 256 /\ Digit(n, 4) = (m \div 16777216) % 256
    <3>1. 1 \in 1..8
      BY SMT
    <3> QED
      BY <1>1, <3>1, DigitTypes, SMT
  <2>2. /\ (m \div 16777216) % 256 = m \div 16777216
        /\ m = (m % 256) + 256 * ((m \div 256) % 256) + 65536 * ((m \div 65536) % 256)
                 + 16777216 * (m \div 16777216)
    <3> HIDE DEF m
    <3> QED
      BY <2>1, Digits, SMT
  <2>3. digit(1) = Digit(n, 1) /\ digit(2) = Digit(n, 2)
          /\ digit(3) = Digit(n, 3) /\ digit(4) = Digit(n, 4)
    <3> HIDE DEF digit
    <3> QED
      BY <1>5, SMT
  <2>4. m \in Nat
    BY <2>1, MaxIs, SMT
  <2>5. m = Digit(n, 1) + 256 * Digit(n, 2) + 65536 * Digit(n, 3) + 16777216 * Digit(n, 4)
    <3> HIDE DEF m
    <3> QED
      BY <2>1, <2>2, <2>4, SMT
  <2> HIDE DEF digit, m
  <2> QED
    BY <2>3, <2>4, <2>5, SMT
<1>7. n = IF n >= 0 THEN m ELSE -m - 1
  BY <1>1, MaxIs, SMT DEF Magnitude, Small
<1>8. n \in Int
  BY <1>1, MaxIs, SMT DEF Small
<1> HIDE DEF magnitude, m, negative, s
<1>9. Number(s, type \in Signed) = n
  BY <1>3, <1>4, <1>6, <1>7, <1>8, SMT
<1> QED
  BY <1>1, <1>9, SMT DEF s

-----------------------------------------------------------------------------
(* Lengths *)

\* The recursive function of Uleb128
UlebOf(n, f) ==
    f = [m \in 0..n |-> IF m < 128 THEN <<m>> ELSE <<128 + (m % 128)>> \o f[m \div 128]]

LEMMA UlebExists ==
    ASSUME NEW n \in Nat
    PROVE  \E f : UlebOf(n, f)
<1> DEFINE Good == {m \in Nat : \E f : UlebOf(m, f)}
<1>1. 0 \in Good
  <2>1. UlebOf(0, [m \in 0..0 |-> <<m>>])
    BY DEF UlebOf
  <2> QED
    BY <2>1
<1>2. \A m \in Nat : m \in Good => m + 1 \in Good
  <2> SUFFICES ASSUME NEW m \in Nat, NEW f, UlebOf(m, f)
               PROVE  \E g : UlebOf(m + 1, g)
    OBVIOUS
  <2> DEFINE last == IF m + 1 < 128 THEN <<m + 1>>
                     ELSE <<128 + ((m + 1) % 128)>> \o f[(m + 1) \div 128]
             g == [i \in 0 .. m + 1 |-> IF i = m + 1 THEN last ELSE f[i]]
  <2>1. \A i \in 0..m : g[i] = f[i]
    OBVIOUS
  <2>2. \A i \in 0..m : f[i] = IF i < 128 THEN <<i>> ELSE <<128 + (i % 128)>> \o f[i \div 128]
    BY DEF UlebOf
  <2>3. \A i \in 0 .. m + 1 : i >= 128 => i \div 128 \in 0..m
    OBVIOUS
  <2>4. \A i \in 0 .. m + 1 : g[i] = IF i < 128 THEN <<i>> ELSE <<128 + (i % 128)>> \o g[i \div 128]
    <3> TAKE i \in 0 .. m + 1
    <3>1. i >= 128 => g[i \div 128] = f[i \div 128]
      BY <2>1, <2>3
    <3>2. CASE i = m + 1
      <4>1. g[i] = last
        BY <3>2
      <4> HIDE DEF g
      <4> QED
        BY <4>1, <3>1, <3>2
    <3>3. CASE i \in 0..m
      <4>1. g[i] = f[i]
        BY <3>3, <2>1
      <4> HIDE DEF g
      <4> QED
        BY <4>1, <3>1, <2>2, <3>3
    <3> QED
      BY <3>2, <3>3
  <2>5. UlebOf(m + 1, g)
    <3>1. g = [i \in 0 .. m + 1 |-> g[i]]
      OBVIOUS
    <3> HIDE DEF g
    <3> QED
      BY <2>4, <3>1 DEF UlebOf
  <2> QED
    BY <2>5
<1> QED
  BY <1>1, <1>2, Induction

LEMMA UlebAgree ==
    ASSUME NEW n \in Nat, NEW m \in Nat, NEW f, NEW g, UlebOf(n, f), UlebOf(m, g)
    PROVE  \A i \in Nat : i <= n /\ i <= m => f[i] = g[i]
<1> DEFINE Good == {i \in Nat : i <= n /\ i <= m => f[i] = g[i]}
<1>1. \A i \in 0..n : f[i] = IF i < 128 THEN <<i>> ELSE <<128 + (i % 128)>> \o f[i \div 128]
  BY DEF UlebOf
<1>2. \A i \in 0..m : g[i] = IF i < 128 THEN <<i>> ELSE <<128 + (i % 128)>> \o g[i \div 128]
  BY DEF UlebOf
<1>3. \A i \in Nat : (\A j \in 0 .. i - 1 : j \in Good) => i \in Good
  <2> SUFFICES ASSUME NEW i \in Nat, \A j \in 0 .. i - 1 : j \in Good, i <= n, i <= m
               PROVE  f[i] = g[i]
    OBVIOUS
  <2>1. i >= 128 => i \div 128 \in 0 .. i - 1
    OBVIOUS
  <2>2. i >= 128 => f[i \div 128] = g[i \div 128]
    BY <2>1
  <2>3. i \in 0..n /\ i \in 0..m
    OBVIOUS
  <2>4. /\ f[i] = IF i < 128 THEN <<i>> ELSE <<128 + (i % 128)>> \o f[i \div 128]
        /\ g[i] = IF i < 128 THEN <<i>> ELSE <<128 + (i % 128)>> \o g[i \div 128]
    BY <1>1, <1>2, <2>3
  <2>5. CASE i < 128
    BY <2>4, <2>5
  <2>6. CASE i >= 128
    <3>1. ~(i < 128)
      BY <2>6
    <3> QED
      BY <2>2, <2>4, <2>6, <3>1
  <2> QED
    BY <2>5, <2>6
<1> HIDE DEF Good
<1>4. Nat \subseteq Good
  BY <1>3, StrongInduction
<1> QED
  BY <1>4 DEF Good

\* A length is written seven bits at a time.
LEMMA UlebStep ==
    ASSUME NEW n \in Nat
    PROVE  Uleb128(n) = IF n < 128 THEN <<n>> ELSE <<128 + (n % 128)>> \o Uleb128(n \div 128)
<1> DEFINE f == CHOOSE h : UlebOf(n, h)
           m == n \div 128
           g == CHOOSE h : UlebOf(m, h)
<1>1. m \in Nat /\ m <= n
  OBVIOUS
<1>2. UlebOf(n, f) /\ UlebOf(m, g)
  <2> HIDE DEF m
  <2> QED
    BY <1>1, UlebExists
<1>3. Uleb128(n) = f[n] /\ Uleb128(m) = g[m]
  BY DEF Uleb128, UlebOf
<1>4. f[m] = g[m]
  <2> HIDE DEF f, g, m
  <2> QED
    BY <1>1, <1>2, UlebAgree
<1>5. f[n] = IF n < 128 THEN <<n>> ELSE <<128 + (n % 128)>> \o f[m]
  <2> HIDE DEF f
  <2>1. n \in 0..n
    OBVIOUS
  <2> QED
    BY <1>2, <2>1 DEF UlebOf
<1> HIDE DEF f, g
<1> QED
  BY <1>3, <1>4, <1>5

\* The recursive function of ReadLength
LengthOf(b, size, f) ==
    f = [k \in 1..size |-> IF k = size THEN b[k] ELSE (b[k] % 128) + 128 * f[k + 1]]

LEMMA LengthAgree ==
    ASSUME NEW b, NEW size \in Nat, NEW f, NEW g, LengthOf(b, size, f), LengthOf(b, size, g)
    PROVE  \A k \in 1..size : f[k] = g[k]
<1> DEFINE Good == {i \in Nat : i < size => f[size - i] = g[size - i]}
<1>1. \A k \in 1..size : f[k] = IF k = size THEN b[k] ELSE (b[k] % 128) + 128 * f[k + 1]
  BY DEF LengthOf
<1>2. \A k \in 1..size : g[k] = IF k = size THEN b[k] ELSE (b[k] % 128) + 128 * g[k + 1]
  BY DEF LengthOf
<1>3. 0 \in Good
  BY <1>1, <1>2
<1>4. \A i \in Nat : i \in Good => i + 1 \in Good
  <2> SUFFICES ASSUME NEW i \in Nat, i \in Good, i + 1 < size
               PROVE  f[size - (i + 1)] = g[size - (i + 1)]
    OBVIOUS
  <2>1. /\ size - (i + 1) \in 1..size /\ size - (i + 1) # size
        /\ (size - (i + 1)) + 1 = size - i
    OBVIOUS
  <2>2. f[size - i] = g[size - i]
    OBVIOUS
  <2> QED
    BY <1>1, <1>2, <2>1, <2>2
<1> HIDE DEF Good
<1>5. Nat \subseteq Good
  BY <1>3, <1>4, Induction
<1> SUFFICES ASSUME NEW k \in 1..size PROVE f[k] = g[k]
  OBVIOUS
<1>6. size - k \in Nat /\ size - k < size /\ size - (size - k) = k
  OBVIOUS
<1> QED
  BY <1>5, <1>6 DEF Good

\* The last byte of a length, and no other, is below 128.
EndsOnce(u) ==
    /\ u \in Seq(Byte) /\ Len(u) >= 1
    /\ u[Len(u)] < 128 /\ \A j \in 1 .. Len(u) - 1 : u[j] >= 128

LengthIs(u, n) == \E f : LengthOf(u, Len(u), f) /\ f[1] = n

LEMMA UlebSound ==
    ASSUME NEW n \in Nat
    PROVE  EndsOnce(Uleb128(n)) /\ LengthIs(Uleb128(n), n)
<1> DEFINE Good == {i \in Nat : EndsOnce(Uleb128(i)) /\ LengthIs(Uleb128(i), i)}
<1>1. \A i \in Nat : (\A j \in 0 .. i - 1 : j \in Good) => i \in Good
  <2> SUFFICES ASSUME NEW i \in Nat, \A j \in 0 .. i - 1 : j \in Good
               PROVE  EndsOnce(Uleb128(i)) /\ LengthIs(Uleb128(i), i)
    OBVIOUS
  <2> DEFINE u == Uleb128(i)
  <2>1. CASE i < 128
    <3>1. u = <<i>>
      BY <2>1, UlebStep
    <3>2. EndsOnce(<<i>>)
      BY <2>1 DEF EndsOnce, Byte
    <3>3. LengthOf(<<i>>, 1, [k \in 1..1 |-> i])
      BY DEF LengthOf
    <3>4. LengthIs(<<i>>, i)
      <4>1. Len(<<i>>) = 1 /\ [k \in 1..1 |-> i][1] = i
        OBVIOUS
      <4> QED
        BY <3>3, <4>1 DEF LengthIs
    <3> QED
      BY <3>1, <3>2, <3>4
  <2>2. CASE i >= 128
    <3> DEFINE q == i \div 128
               d == 128 + (i % 128)
               v == Uleb128(q)
    <3>1. q \in 0 .. i - 1 /\ d \in Byte /\ d >= 128 /\ i = (d % 128) + 128 * q
      BY <2>2 DEF Byte
    <3>2. u = <<d>> \o v
      <4>1. ~(i < 128)
        BY <2>2
      <4> QED
        BY <4>1, UlebStep
    <3>3. EndsOnce(v) /\ LengthIs(v, q)
      <4> HIDE DEF q
      <4> QED
        BY <3>1
    <3> HIDE DEF u, v, q, d
    <3>4. /\ v \in Seq(Byte) /\ Len(v) \in Nat /\ Len(v) >= 1
          /\ u \in Seq(Byte) /\ Len(u) = Len(v) + 1 /\ u[1] = d
          /\ \A k \in 2 .. Len(u) : u[k] = v[k - 1]
      BY <3>1, <3>2, <3>3 DEF EndsOnce
    <3>5. EndsOnce(u)
      <4>1. u[Len(u)] < 128
        BY <3>3, <3>4 DEF EndsOnce
      <4>2. ASSUME NEW j \in 1 .. Len(u) - 1 PROVE u[j] >= 128
        <5>1. CASE j = 1
          BY <5>1, <3>1, <3>4
        <5>2. CASE j \in 2 .. Len(u) - 1
          <6>1. u[j] = v[j - 1] /\ j - 1 \in 1 .. Len(v) - 1
            BY <5>2, <3>4
          <6> QED
            BY <6>1, <3>3 DEF EndsOnce
        <5> QED
          BY <5>1, <5>2, <3>4
      <4> QED
        BY <3>4, <4>1, <4>2 DEF EndsOnce
    <3>6. PICK f : LengthOf(v, Len(v), f) /\ f[1] = q
      BY <3>3 DEF LengthIs
    <3> DEFINE g == [k \in 1 .. Len(u) |-> IF k = 1 THEN i ELSE f[k - 1]]
    <3>7. \A k \in 1..Len(v) : f[k] = IF k = Len(v) THEN v[k] ELSE (v[k] % 128) + 128 * f[k + 1]
      BY <3>6 DEF LengthOf
    <3>8. \A k \in 1..Len(u) : g[k] = IF k = Len(u) THEN u[k] ELSE (u[k] % 128) + 128 * g[k + 1]
      <4> TAKE k \in 1..Len(u)
      <4>1. CASE k = 1
        <5>1. k # Len(u) /\ g[k] = i /\ g[k + 1] = f[1] /\ u[k] = d
          BY <4>1, <3>4
        <5> HIDE DEF g
        <5> QED
          BY <5>1, <3>1, <3>6
      <4>2. CASE k # 1
        <5>1. /\ k - 1 \in 1..Len(v) /\ u[k] = v[k - 1] /\ g[k] = f[k - 1]
              /\ (k = Len(u) <=> k - 1 = Len(v))
              /\ k # Len(u) => g[k + 1] = f[(k - 1) + 1]
          BY <4>2, <3>4
        <5>2. f[k - 1] = IF k - 1 = Len(v) THEN v[k - 1] ELSE (v[k - 1] % 128) + 128 * f[(k - 1) + 1]
          BY <5>1, <3>7
        <5> HIDE DEF g
        <5>3. CASE k = Len(u)
          BY <5>1, <5>2, <5>3
        <5>4. CASE k # Len(u)
          BY <5>1, <5>2, <5>4
        <5> QED
          BY <5>3, <5>4
      <4> QED
        BY <4>1, <4>2
    <3>9. LengthOf(u, Len(u), g) /\ g[1] = i
      <4>1. g = [k \in 1..Len(u) |-> g[k]] /\ g[1] = i
        BY <3>4
      <4> HIDE DEF g
      <4> QED
        BY <4>1, <3>8 DEF LengthOf
    <3> QED
      BY <3>5, <3>9 DEF LengthIs, u
  <2> QED
    BY <2>1, <2>2
<1> HIDE DEF Good
<1>2. n \in Good
  BY <1>1, StrongInduction
<1> QED
  BY <1>2 DEF Good

\* A length is read as it was written.
LEMMA LengthRead ==
    ASSUME NEW n \in Nat, NEW rest \in Seq(Byte)
    PROVE  /\ Uleb128(n) \in Seq(Byte)
           /\ ReadLength(Uleb128(n) \o rest) = Got(n, rest)
<1> DEFINE u == Uleb128(n)
           b == u \o rest
           size == LastDigit(b)
           length == CHOOSE f : LengthOf(b, size, f)
<1>1. EndsOnce(u) /\ LengthIs(u, n)
  BY UlebSound
<1>2. /\ u \in Seq(Byte) /\ Len(u) \in Nat /\ Len(u) >= 1 /\ Len(b) = Len(u) + Len(rest)
      /\ Len(rest) \in Nat /\ b \in Seq(Byte)
      /\ \A k \in 1..Len(u) : b[k] = u[k]
  <2> HIDE DEF u
  <2> QED
    BY <1>1 DEF EndsOnce
<1>3. LastDigit(b) = Len(u)
  <2> HIDE DEF b, u
  <2>1. Len(u) \in 1..Len(b) /\ b[Len(u)] < 128 /\ \A j \in 1 .. Len(u) - 1 : b[j] >= 128
    BY <1>1, <1>2 DEF EndsOnce
  <2>2. ASSUME NEW k \in 1..Len(b), b[k] < 128, \A j \in 1 .. k - 1 : b[j] >= 128
        PROVE  k = Len(u)
    <3>1. b[k] \in Int /\ b[Len(u)] \in Int
      <4>1. b[k] \in Byte /\ b[Len(u)] \in Byte
        BY <1>2, <2>1, ElementOfSeq
      <4> QED
        BY <4>1, ByteIs
    <3>2. ~(k < Len(u))
      BY <2>1, <2>2, <3>1, <1>2
    <3>3. ~(k > Len(u))
      BY <2>1, <2>2, <3>1, <1>2
    <3> QED
      BY <1>2, <3>2, <3>3
  <2> QED
    BY <2>1, <2>2 DEF LastDigit
<1>4. PICK f : LengthOf(u, Len(u), f) /\ f[1] = n
  BY <1>1 DEF LengthIs
<1>5. LengthOf(b, Len(u), f)
  <2> HIDE DEF u, b
  <2> QED
    BY <1>2, <1>4 DEF LengthOf
<1>6. ReadLength(b) = Got(length[1], Drop(b, size))
  BY DEF ReadLength, LengthOf
<1>7. size = Len(u)
  BY <1>3
<1>8. length[1] = n
  <2> HIDE DEF b, u, size
  <2>1. LengthOf(b, Len(u), length)
    BY <1>5, <1>7
  <2> HIDE DEF length
  <2>2. 1 \in 1..Len(u)
    BY <1>2
  <2>3. length[1] = f[1]
    BY <1>2, <1>5, <2>1, <2>2, LengthAgree
  <2> QED
    BY <1>4, <2>3
<1>9. Drop(b, Len(u)) = rest
  <2> HIDE DEF u
  <2> QED
    BY <1>2 DEF Drop
<1> HIDE DEF length, size, b
<1>10. ReadLength(b) = Got(n, rest)
  BY <1>6, <1>7, <1>8, <1>9
<1> QED
  BY <1>2, <1>10 DEF b

-----------------------------------------------------------------------------
(* Fields *)

\* Strings, whatever their length, are read as they were written.
LEMMA StringRead ==
    ASSUME NEW s \in Seq(Byte), NEW rest \in Seq(Byte)
    PROVE  /\ WriteString(s) \in Seq(Byte)
           /\ ReadString(WriteString(s) \o rest) = Got(s, rest)
<1>1. CASE s = <<>>
  <2>1. <<0>> \in Seq(Byte)
    BY DEF Byte
  <2>2. (<<0>> \o rest)[1] = 0 /\ Drop(<<0>> \o rest, 1) = rest
    BY DEF Drop
  <2> QED
    BY <1>1, <2>1, <2>2 DEF WriteString, ReadString
<1>2. CASE s # <<>>
  <2> DEFINE u == Uleb128(Len(s))
             b == (<<11>> \o u \o s) \o rest
  <2>1. Len(s) \in Nat /\ s \o rest \in Seq(Byte)
    BY ConcatProperties, LenProperties
  <2>2. u \in Seq(Byte) /\ ReadLength(u \o (s \o rest)) = Got(Len(s), s \o rest)
    BY <2>1, LengthRead
  <2>3. WriteString(s) = <<11>> \o u \o s
    BY <1>2 DEF WriteString
  <2> HIDE DEF u
  <2>4. <<11>> \in Seq(Byte)
    BY DEF Byte
  <2>5. <<11>> \o u \o s \in Seq(Byte)
    BY <2>2, <2>4, ConcatProperties
  <2>6. b[1] = 11 /\ Drop(b, 1) = u \o (s \o rest)
    BY <2>1, <2>2 DEF Drop
  <2>7. Take(s \o rest, Len(s)) = s /\ Drop(s \o rest, Len(s)) = rest
    BY DEF Take, Drop
  <2> DEFINE l == ReadLength(Drop(b, 1))
  <2>8. ReadString(b) = IF b[1] # 11 THEN Got(<<>>, Drop(b, 1))
                        ELSE Got(Take(l.rest, l.value), Drop(l.rest, l.value))
    BY DEF ReadString
  <2>9. l.rest = s \o rest /\ l.value = Len(s)
    <3>1. l = Got(Len(s), s \o rest)
      BY <2>2, <2>6
    <3> HIDE DEF l
    <3> QED
      BY <3>1 DEF Got
  <2> HIDE DEF b, l
  <2>10. ReadString(b) = Got(s, rest)
    BY <2>6, <2>7, <2>8, <2>9
  <2> QED
    BY <2>3, <2>5, <2>10 DEF b
<1> QED
  BY <1>1, <1>2

\* Pieces of four bytes are found where they were put.
LEMMA FoursFound ==
    ASSUME NEW s \in Seq([1..4 -> Byte])
    PROVE  /\ FlattenSeq(s) \in Seq(Byte) /\ Len(FlattenSeq(s)) = 4 * Len(s)
           /\ \A k \in 1..Len(s) : SubSeq(FlattenSeq(s), 4 * k - 3, 4 * k) = s[k]
<1> DEFINE Fine(t) == /\ t \in Seq(Seq(Byte)) /\ FlattenSeq(t) \in Seq(Byte)
                      /\ Len(FlattenSeq(t)) = 4 * Len(t)
                      /\ \A k \in 1..Len(t) : SubSeq(FlattenSeq(t), 4 * k - 3, 4 * k) = t[k]
           Good == {n \in Nat : \A t \in Seq([1..4 -> Byte]) : Len(t) = n => Fine(t)}
<1>1. 0 \in Good
  <2> SUFFICES ASSUME NEW t \in Seq([1..4 -> Byte]), Len(t) = 0 PROVE Fine(t)
    OBVIOUS
  <2>1. t = <<>>
    BY EmptySeq
  <2>2. <<>> \in Seq(Seq(Byte)) /\ <<>> \in Seq(Byte) /\ Len(<<>>) = 0
    BY EmptySeq
  <2>3. Len(FlattenSeq(<<>>)) = 4 * Len(<<>>) /\ 1..Len(<<>>) = {}
    BY <2>2, FlattenEmpty
  <2> QED
    BY <2>1, <2>2, <2>3, FlattenEmpty
<1>2. \A n \in Nat : n \in Good => n + 1 \in Good
  <2> SUFFICES ASSUME NEW n \in Nat, n \in Good PROVE n + 1 \in Good
    OBVIOUS
  <2> SUFFICES ASSUME NEW t \in Seq([1..4 -> Byte]), Len(t) = n + 1 PROVE Fine(t)
    OBVIOUS
  <2>1. t # <<>>
    BY EmptySeq
  <2>2. PICK r \in Seq([1..4 -> Byte]), x \in [1..4 -> Byte] : t = Append(r, x)
    BY <2>1, SequenceEmptyOrAppend
  <2>3. Len(r) = n /\ Len(t) = Len(r) + 1 /\ t[n + 1] = x /\ \A k \in 1..n : t[k] = r[k]
    <3>1. Len(t) = Len(r) + 1 /\ Len(r) \in Nat
      BY <2>2, AppendProperties, LenProperties
    <3> QED
      BY <2>2, <3>1, AppendProperties
  <2>4. Fine(r)
    BY <2>3
  <2>5. x \in Seq(Byte) /\ Len(x) = 4
    BY FourOf, Zenon
  <2> DEFINE fr == FlattenSeq(r)
  <2>6. FlattenSeq(t) = fr \o x /\ t \in Seq(Seq(Byte))
    BY <2>2, <2>4, <2>5, FlattenAppend, AppendProperties
  <2>7. fr \in Seq(Byte) /\ Len(fr) = 4 * n /\ \A k \in 1..n : SubSeq(fr, 4 * k - 3, 4 * k) = r[k]
    BY <2>3, <2>4
  <2> HIDE DEF fr, Good
  <2>8. fr \o x \in Seq(Byte) /\ Len(fr \o x) = 4 * (n + 1)
    <3>1. fr \o x \in Seq(Byte) /\ Len(fr \o x) = Len(fr) + Len(x)
      BY <2>5, <2>7, ConcatProperties
    <3> QED
      BY <2>5, <2>7, <3>1
  <2>9. ASSUME NEW k \in 1 .. n + 1 PROVE SubSeq(fr \o x, 4 * k - 3, 4 * k) = t[k]
    <3>1. CASE k \in 1..n
      <4>1. SubSeq(fr \o x, 4 * k - 3, 4 * k) = SubSeq(fr, 4 * k - 3, 4 * k)
        <5>1. 4 * k - 3 \in Nat /\ 4 * k \in Nat /\ 1 <= 4 * k - 3 /\ 4 * k <= Len(fr)
          BY <2>7, <3>1
        <5> QED
          BY <2>5, <2>7, <5>1, PieceLeft
      <4> QED
        BY <4>1, <3>1, <2>3, <2>7
    <3>2. CASE k = n + 1
      <4>1. SubSeq(fr \o x, 4 * n + 1, 4 * n + 4) = x
        <5>1. Drop(fr \o x, Len(fr)) = x
          BY <2>5, <2>7, TakeAndDrop
        <5>2. Drop(fr \o x, Len(fr)) = SubSeq(fr \o x, 4 * n + 1, 4 * n + 4)
          <6>1. Len(fr) + 1 = 4 * n + 1 /\ Len(fr \o x) = 4 * n + 4
            BY <2>7, <2>8
          <6> QED
            BY <6>1, Zenon DEF Drop
        <5> QED
          BY <5>1, <5>2
      <4>2. 4 * k - 3 = 4 * n + 1 /\ 4 * k = 4 * n + 4
        BY <3>2
      <4> QED
        BY <4>1, <4>2, <3>2, <2>3
    <3>3. k \in 1..n \/ k = n + 1
      OBVIOUS
    <3> QED
      BY <3>1, <3>2, <3>3, Zenon
  <2> QED
    BY <2>3, <2>6, <2>8, <2>9
<1> HIDE DEF Good
<1>3. Len(s) \in Good
  BY <1>1, <1>2, Induction, LenProperties
<1> QED
  BY <1>3 DEF Good

\* Ids and lengths are read as they were written.
LEMMA TwoBytesRead ==
    ASSUME NEW n \in 0..MaxU16
    PROVE  /\ LittleEndian(n, 2) \in Seq(Byte) /\ Len(LittleEndian(n, 2)) = 2
           /\ Number(LittleEndian(n, 2), FALSE) = n
<1>1. "u16" \in Signed \cup Unsigned /\ "u16" \notin Signed /\ Width("u16") = 2
  BY DEF Signed, Unsigned, Width
<1>2. n \in Numbers("u16")
  <2>1. Numbers("u16") = 0..MaxU16
    BY SMT DEF Numbers
  <2> QED
    BY <2>1
<1>3. n \in Small /\ 2 \in {1, 2, 4, 8}
  BY MaxIs, SMT DEF Small
<1>4. Number(LittleEndian(n, 2), "u16" \in Signed) = n
  BY <1>1, <1>2, NumberRead, SMT
<1>5. ("u16" \in Signed) = FALSE
  BY <1>1
<1>6. \A w : w \in {1, 2, 4, 8} => /\ LittleEndian(n, w) \in [1..w -> Byte]
                                     /\ LittleEndian(n, w) \in Seq(Byte) /\ Len(LittleEndian(n, w)) = w
  BY <1>3, LittleEndianBytes, SMT
<1> QED
  BY <1>3, <1>4, <1>5, <1>6, Zenon

\* An id is read from its four bytes.
LEMMA FourBytesRead ==
    ASSUME NEW n \in 0..MaxI32
    PROVE  /\ LittleEndian(n, 4) \in [1..4 -> Byte]
           /\ LittleEndian(n, 4) \in Seq(Byte) /\ Len(LittleEndian(n, 4)) = 4
           /\ Number(LittleEndian(n, 4), FALSE) = n
<1>1. "u32" \in Signed \cup Unsigned /\ "u32" \notin Signed /\ Width("u32") = 4
  BY DEF Signed, Unsigned, Width
<1>2. n \in Numbers("u32")
  <2>1. Numbers("u32") = 0..MaxI32
    BY SMT DEF Numbers
  <2> QED
    BY <2>1
<1>3. n \in Small /\ 4 \in {1, 2, 4, 8}
  BY MaxIs, SMT DEF Small
<1>4. Number(LittleEndian(n, 4), "u32" \in Signed) = n
  BY <1>1, <1>2, NumberRead, SMT
<1>5. ("u32" \in Signed) = FALSE
  BY <1>1
<1>6. \A w : w \in {1, 2, 4, 8} => /\ LittleEndian(n, w) \in [1..w -> Byte]
                                     /\ LittleEndian(n, w) \in Seq(Byte) /\ Len(LittleEndian(n, w)) = w
  BY <1>3, LittleEndianBytes, SMT
<1> QED
  BY <1>3, <1>4, <1>5, <1>6, Zenon

\* Lists of ids are read as they were written.
LEMMA ListRead ==
    ASSUME NEW l \in Seq(0..MaxI32), Len(l) <= MaxU16, NEW rest \in Seq(Byte)
    PROVE  /\ WriteI32List(l) \in Seq(Byte)
           /\ ReadI32List(WriteI32List(l) \o rest) = Got(l, rest)
<1> DEFINE n == Len(l)
           size == LittleEndian(n, 2)
           pieces == [k \in DOMAIN l |-> LittleEndian(l[k], 4)]
           flat == FlattenSeq(pieces)
           b == (size \o flat) \o rest
<1>1. n \in 0..MaxU16 /\ n \in Nat /\ DOMAIN l = 1..n /\ \A k \in 1..n : l[k] \in 0..MaxI32
  BY ElementOfSeq, LenProperties, MaxIs
<1>2. size \in Seq(Byte) /\ Len(size) = 2 /\ Number(size, FALSE) = n
  <2> HIDE DEF n
  <2> QED
    BY <1>1, TwoBytesRead
<1>3. /\ pieces \in Seq([1..4 -> Byte]) /\ Len(pieces) = n
      /\ \A k \in 1..n : pieces[k] = LittleEndian(l[k], 4) /\ Number(pieces[k], FALSE) = l[k]
  <2>1. \A k \in 1..n : LittleEndian(l[k], 4) \in [1..4 -> Byte]
                        /\ Number(LittleEndian(l[k], 4), FALSE) = l[k]
    BY <1>1, FourBytesRead
  <2>2. pieces \in [1..n -> [1..4 -> Byte]]
    BY <1>1, <2>1
  <2>3. pieces \in Seq([1..4 -> Byte]) /\ Len(pieces) = n
    <3> HIDE DEF pieces, n
    <3> QED
      BY <1>1, <2>2, SequenceOf
  <2> QED
    BY <1>1, <2>1, <2>3
<1>4. /\ flat \in Seq(Byte) /\ Len(flat) = 4 * n
      /\ \A k \in 1..n : SubSeq(flat, 4 * k - 3, 4 * k) = pieces[k]
  <2> HIDE DEF pieces, n
  <2> QED
    BY <1>3, FoursFound
<1>13. flat \in Seq(Byte) /\ Len(flat) = 4 * n
  BY <1>4
<1>5. WriteI32List(l) = size \o flat
  BY DEF WriteI32List
<1> HIDE DEF size, flat, pieces, n
<1>6. b = size \o (flat \o rest) /\ flat \o rest \in Seq(Byte) /\ size \o flat \in Seq(Byte)
  <2>1. flat \o rest \in Seq(Byte) /\ size \o flat \in Seq(Byte)
    BY <1>2, <1>4, ConcatProperties
  <2>2. (size \o flat) \o rest = size \o (flat \o rest)
    BY <1>2, <1>13
  <2> QED
    BY <2>1, <2>2
<1>7. Take(b, 2) = size
  BY <1>2, <1>6, TakeAndDrop
<1>8. Drop(b, 2 + 4 * n) = rest
  <2>1. Len(size \o flat) = 2 + 4 * n /\ size \o flat \in Seq(Byte)
    <3>1. Len(size \o flat) = Len(size) + Len(flat) /\ size \o flat \in Seq(Byte)
      BY <1>2, <1>13, ConcatProperties
    <3> QED
      BY <1>1, <1>2, <1>13, <3>1
  <2> QED
    BY <2>1, TakeAndDrop
<1>9. \A k \in 1..n : Number(SubSeq(b, 4 * k - 1, 4 * k + 2), FALSE) = l[k]
  <2> TAKE k \in 1..n
  <2>1. /\ 4 * k - 1 \in Nat /\ 4 * k + 2 \in Nat /\ 4 * k - 3 \in Nat /\ 4 * k \in Nat
        /\ Len(size) < 4 * k - 1 /\ 4 * k + 2 <= Len(size) + Len(flat \o rest)
        /\ 4 * k - 1 - Len(size) = 4 * k - 3 /\ 4 * k + 2 - Len(size) = 4 * k
        /\ 1 <= 4 * k - 3 /\ 4 * k <= Len(flat)
    <3>1. Len(flat \o rest) = Len(flat) + Len(rest) /\ Len(rest) \in Nat
      BY <1>13
    <3> QED
      BY <1>1, <1>2, <1>13, <3>1
  <2>2. SubSeq(size \o (flat \o rest), 4 * k - 1, 4 * k + 2) = SubSeq(flat \o rest, 4 * k - 3, 4 * k)
    <3> DEFINE from == 4 * k - 1
               to == 4 * k + 2
               tail == flat \o rest
    <3>1. /\ from \in Nat /\ to \in Nat /\ tail \in Seq(Byte)
          /\ Len(size) < from /\ to <= Len(size) + Len(tail)
      BY <1>6, <2>1
    <3> HIDE DEF from, to, tail
    <3>2. SubSeq(size \o tail, from, to) = SubSeq(tail, from - Len(size), to - Len(size))
      BY <1>2, <3>1, PieceRight
    <3>3. from - Len(size) = 4 * k - 3 /\ to - Len(size) = 4 * k
      BY <2>1 DEF from, to
    <3>4. SubSeq(size \o tail, from, to) = SubSeq(tail, 4 * k - 3, 4 * k)
      BY <3>2, <3>3
    <3> QED
      BY <3>4 DEF from, to, tail
  <2>3. SubSeq(flat \o rest, 4 * k - 3, 4 * k) = SubSeq(flat, 4 * k - 3, 4 * k)
    BY <1>4, <2>1, PieceLeft
  <2> HIDE DEF b
  <2> QED
    BY <1>3, <1>4, <1>6, <2>2, <2>3
<1> HIDE DEF b
<1>10. l = [k \in 1..n |-> l[k]]
  BY <1>1
<1>11. [k \in 1..n |-> Number(SubSeq(b, 4 * k - 1, 4 * k + 2), FALSE)] = l
  BY <1>9, <1>10
<1>12. ReadI32List(b) = Got(l, rest)
  BY <1>2, <1>7, <1>8, <1>11 DEF ReadI32List
<1> QED
  BY <1>5, <1>6, <1>12 DEF b

\* The bytes of a field give its value back, whatever follows them.
Reads(type, bytes, v) ==
    /\ bytes \in Seq(Byte)
    /\ \A rest \in Seq(Byte) : ReadField(type, bytes \o rest) = Got(v, rest)

LEMMA FieldRead ==
    ASSUME NEW type \in FieldTypes, NEW v, Holds(type, v)
    PROVE  Reads(type, WriteField(type, v), v)
<1>1. CASE type = "string"
  <2>1. v \in Seq(Byte) /\ WriteField(type, v) = WriteString(v)
    BY <1>1 DEF Holds, WriteField, Floats, Signed, Unsigned
  <2>2. \A b : ReadField(type, b) = ReadString(b)
    BY <1>1 DEF ReadField, Floats, Signed, Unsigned
  <2>3. WriteString(v) \in Seq(Byte)
    <3>1. <<>> \in Seq(Byte)
      BY EmptySeq
    <3> QED
      BY <2>1, <3>1, StringRead
  <2> QED
    BY <2>1, <2>2, <2>3, StringRead DEF Reads
<1>2. CASE type = "i32 list"
  <2>1. v \in Seq(0..MaxI32) /\ Len(v) <= MaxU16 /\ WriteField(type, v) = WriteI32List(v)
    BY <1>2 DEF Holds, WriteField, Floats, Signed, Unsigned
  <2>2. \A b : ReadField(type, b) = ReadI32List(b)
    BY <1>2 DEF ReadField, Floats, Signed, Unsigned
  <2>3. WriteI32List(v) \in Seq(Byte)
    <3>1. <<>> \in Seq(Byte)
      BY EmptySeq
    <3> QED
      BY <2>1, <3>1, ListRead
  <2> QED
    BY <2>1, <2>2, <2>3, ListRead DEF Reads
<1>3. CASE type \in Floats
  <2>1. Width(type) \in Nat /\ v \in [1..Width(type) -> Byte] /\ WriteField(type, v) = v
    BY <1>3 DEF Holds, WriteField, Width, Floats, Signed, Unsigned
  <2>2. \A b : ReadField(type, b) = Got(Take(b, Width(type)), Drop(b, Width(type)))
    BY <1>3 DEF ReadField, Floats, Signed, Unsigned
  <2>3. v \in Seq(Byte) /\ Len(v) = Width(type)
    BY <2>1, SequenceOf
  <2>4. \A rest \in Seq(Byte) : Take(v \o rest, Width(type)) = v /\ Drop(v \o rest, Width(type)) = rest
    BY <2>3, TakeAndDrop
  <2> QED
    BY <2>1, <2>2, <2>3, <2>4 DEF Reads
<1>4. CASE type \in Signed \cup Unsigned
  <2> DEFINE w == Width(type)
             s == LittleEndian(v, w)
  <2>1. type \notin Floats /\ type # "string" /\ type # "i32 list" /\ type # "raw"
    BY <1>4 DEF Signed, Unsigned, Floats
  <2>2. v \in Numbers(type) /\ WriteField(type, v) = s
    BY <1>4, <2>1 DEF Holds, WriteField, Floats, Signed, Unsigned
  <2>3. \A b : ReadField(type, b) = Got(Number(Take(b, w), type \in Signed), Drop(b, w))
    BY <1>4, <2>1 DEF ReadField, Floats, Signed, Unsigned
  <2>4. v \in Small /\ w \in {1, 2, 4, 8} /\ Number(s, type \in Signed) = v
    BY <1>4, <2>2, NumberRead, SMT
  <2>5. s \in Seq(Byte) /\ Len(s) = w
    <3> HIDE DEF w
    <3> QED
      BY <2>4, LittleEndianBytes, SMT
  <2> HIDE DEF s, w
  <2>6. \A rest \in Seq(Byte) : Take(s \o rest, w) = s /\ Drop(s \o rest, w) = rest
    BY <2>5, TakeAndDrop
  <2> QED
    BY <2>2, <2>3, <2>4, <2>5, <2>6 DEF Reads
<1> QED
  BY <1>1, <1>2, <1>3, <1>4 DEF FieldTypes

-----------------------------------------------------------------------------
(* Fields, one after the other *)

\* The recursive function of ReadOn
OnOf(done, types, n, f) ==
    f = [k \in 0..n |-> IF k = 0 THEN done ELSE ReadNext(f[k - 1], types[k])]

LEMMA OnExists ==
    ASSUME NEW done, NEW types, NEW n \in Nat
    PROVE  \E f : OnOf(done, types, n, f)
<1> DEFINE Good == {m \in Nat : \E f : OnOf(done, types, m, f)}
<1>1. 0 \in Good
  <2>1. OnOf(done, types, 0, [k \in 0..0 |-> done])
    BY DEF OnOf
  <2> QED
    BY <2>1
<1>2. \A m \in Nat : m \in Good => m + 1 \in Good
  <2> SUFFICES ASSUME NEW m \in Nat, NEW f, OnOf(done, types, m, f)
               PROVE  \E g : OnOf(done, types, m + 1, g)
    OBVIOUS
  <2> DEFINE g == [k \in 0 .. m + 1 |-> IF k = m + 1 THEN ReadNext(f[m], types[m + 1]) ELSE f[k]]
  <2>1. \A k \in 0..m : g[k] = f[k]
    OBVIOUS
  <2>2. \A k \in 0..m : f[k] = IF k = 0 THEN done ELSE ReadNext(f[k - 1], types[k])
    BY DEF OnOf
  <2>3. \A k \in 0 .. m + 1 : g[k] = IF k = 0 THEN done ELSE ReadNext(g[k - 1], types[k])
    <3> TAKE k \in 0 .. m + 1
    <3>1. CASE k = m + 1
      <4>1. k # 0 /\ k - 1 = m /\ g[k] = ReadNext(f[m], types[m + 1]) /\ g[m] = f[m]
        BY <3>1
      <4> HIDE DEF g
      <4> QED
        BY <4>1, <3>1
    <3>2. CASE k \in 0..m
      <4>1. g[k] = f[k] /\ (k # 0 => k - 1 \in 0..m /\ g[k - 1] = f[k - 1])
        BY <3>2, <2>1
      <4> HIDE DEF g
      <4> QED
        BY <4>1, <2>2, <3>2
    <3> QED
      BY <3>1, <3>2
  <2>4. OnOf(done, types, m + 1, g)
    <3>1. g = [k \in 0 .. m + 1 |-> g[k]]
      OBVIOUS
    <3> HIDE DEF g
    <3> QED
      BY <2>3, <3>1 DEF OnOf
  <2> QED
    BY <2>4
<1> QED
  BY <1>1, <1>2, Induction

LEMMA OnAgree ==
    ASSUME NEW done, NEW s, NEW t, NEW n \in Nat, NEW m \in Nat, n <= m,
           \A k \in 1..n : s[k] = t[k],
           NEW f, NEW g, OnOf(done, s, n, f), OnOf(done, t, m, g)
    PROVE  f[n] = g[n]
<1>1. \A k \in 0..n : f[k] = IF k = 0 THEN done ELSE ReadNext(f[k - 1], s[k])
  BY DEF OnOf
<1>2. \A k \in 0..m : g[k] = IF k = 0 THEN done ELSE ReadNext(g[k - 1], t[k])
  BY DEF OnOf
<1> DEFINE Good == {k \in Nat : k <= n => f[k] = g[k]}
<1>3. 0 \in Good
  BY <1>1, <1>2
<1>4. \A k \in Nat : k \in Good => k + 1 \in Good
  <2> SUFFICES ASSUME NEW k \in Nat, k \in Good, k + 1 <= n PROVE f[k + 1] = g[k + 1]
    OBVIOUS
  <2>1. /\ k + 1 \in 0..n /\ k + 1 \in 0..m /\ k + 1 \in 1..n
        /\ k + 1 # 0 /\ k + 1 - 1 = k /\ f[k] = g[k]
    OBVIOUS
  <2> QED
    BY <2>1, <1>1, <1>2
<1> HIDE DEF Good
<1>5. n \in Good
  BY <1>3, <1>4, Induction
<1> QED
  BY <1>5 DEF Good

\* Nothing more is read when there are no more fields.
LEMMA ReadOnNothing ==
    ASSUME NEW done
    PROVE  ReadOn(done, <<>>) = done
<1> DEFINE f == CHOOSE h : OnOf(done, <<>>, 0, h)
<1>1. OnOf(done, <<>>, 0, f)
  BY OnExists
<1>2. Len(<<>>) = 0
  OBVIOUS
<1>3. ReadOn(done, <<>>) = f[0]
  <2>1. ReadOn(done, <<>>) = (CHOOSE h : OnOf(done, <<>>, Len(<<>>), h))[Len(<<>>)]
    BY DEF ReadOn, OnOf
  <2> QED
    BY <1>2, <2>1
<1> HIDE DEF f
<1>4. f[0] = done
  BY <1>1 DEF OnOf
<1> QED
  BY <1>3, <1>4

\* The last field is read after the others.
LEMMA ReadOnAppend ==
    ASSUME NEW done, NEW T, NEW types \in Seq(T), NEW type \in T
    PROVE  ReadOn(done, Append(types, type)) = ReadNext(ReadOn(done, types), type)
<1> DEFINE n == Len(types)
           more == Append(types, type)
           f == CHOOSE h : OnOf(done, types, n, h)
           g == CHOOSE h : OnOf(done, more, n + 1, h)
<1>1. /\ n \in Nat /\ n + 1 \in Nat /\ Len(more) = n + 1 /\ more[n + 1] = type
      /\ \A k \in 1..n : types[k] = more[k]
  BY AppendProperties
<1>2. OnOf(done, types, n, f) /\ OnOf(done, more, n + 1, g)
  <2> HIDE DEF n, more
  <2> QED
    BY <1>1, OnExists
<1>3. ReadOn(done, types) = f[n]
  BY DEF ReadOn, OnOf
<1>4. ReadOn(done, more) = g[n + 1]
  <2>1. ReadOn(done, more) = (CHOOSE h : OnOf(done, more, Len(more), h))[Len(more)]
    BY DEF ReadOn, OnOf
  <2> HIDE DEF more, n
  <2> QED
    BY <1>1, <2>1
<1> HIDE DEF f, g, n, more
<1>5. f[n] = g[n]
  <2>1. n <= n + 1
    BY <1>1
  <2> QED
    BY <1>1, <1>2, <2>1, OnAgree
<1>6. g[n + 1] = ReadNext(g[n], more[n + 1])
  <2>1. \A k \in 0 .. n + 1 : g[k] = IF k = 0 THEN done ELSE ReadNext(g[k - 1], more[k])
    BY <1>2 DEF OnOf
  <2>2. n + 1 \in 0 .. n + 1 /\ n + 1 # 0 /\ n + 1 - 1 = n
    BY <1>1
  <2>3. n \in Nat
    BY <1>1
  <2> QED
    BY <2>1, <2>2, <2>3
<1> QED
  BY <1>1, <1>3, <1>4, <1>5, <1>6 DEF more

\* Pieces that give their values back
Pieces(types, pieces, values) ==
    /\ Len(pieces) = Len(types) /\ Len(values) = Len(types)
    /\ \A k \in 1..Len(types) : Reads(types[k], pieces[k], values[k])

\* Fields that are written one after the other are read one after the other.
LEMMA PiecesRead ==
    ASSUME NEW T, NEW types \in Seq(T), NEW pieces \in Seq(Seq(Byte)), NEW V,
           NEW values \in Seq(V), Pieces(types, pieces, values),
           NEW start \in Seq(V), NEW rest \in Seq(Byte)
    PROVE  ReadOn(Got(start, FlattenSeq(pieces) \o rest), types) = Got(start \o values, rest)
<1> DEFINE Fine(ts, ps, vs) == Pieces(ts, ps, vs) => \A r \in Seq(Byte) :
                 ReadOn(Got(start, FlattenSeq(ps) \o r), ts) = Got(start \o vs, r)
           Good == {n \in Nat : \A ts \in Seq(T) : \A ps \in Seq(Seq(Byte)) : \A vs \in Seq(V) :
                                  Len(ts) = n => Fine(ts, ps, vs)}
<1>1. 0 \in Good
  <2> SUFFICES ASSUME NEW ts \in Seq(T), NEW ps \in Seq(Seq(Byte)), NEW vs \in Seq(V),
                      Len(ts) = 0, Pieces(ts, ps, vs), NEW r \in Seq(Byte)
               PROVE  ReadOn(Got(start, FlattenSeq(ps) \o r), ts) = Got(start \o vs, r)
    OBVIOUS
  <2>1. ts = <<>> /\ ps = <<>> /\ vs = <<>>
    BY EmptySeq DEF Pieces
  <2>2. FlattenSeq(<<>>) \o r = r /\ start \o <<>> = start
    BY FlattenEmpty, ConcatEmptySeq
  <2> QED
    BY <2>1, <2>2, ReadOnNothing
<1>2. \A n \in Nat : n \in Good => n + 1 \in Good
  <2> SUFFICES ASSUME NEW n \in Nat, n \in Good PROVE n + 1 \in Good
    OBVIOUS
  <2> SUFFICES ASSUME NEW ts \in Seq(T), NEW ps \in Seq(Seq(Byte)), NEW vs \in Seq(V),
                      Len(ts) = n + 1, Pieces(ts, ps, vs), NEW r \in Seq(Byte)
               PROVE  ReadOn(Got(start, FlattenSeq(ps) \o r), ts) = Got(start \o vs, r)
    OBVIOUS
  <2>1. Len(ps) = n + 1 /\ Len(vs) = n + 1 /\ ts # <<>> /\ ps # <<>> /\ vs # <<>>
    BY EmptySeq DEF Pieces
  <2>2. PICK ts1 \in Seq(T), t \in T : ts = Append(ts1, t)
    BY <2>1, SequenceEmptyOrAppend
  <2>3. PICK ps1 \in Seq(Seq(Byte)), p \in Seq(Byte) : ps = Append(ps1, p)
    BY <2>1, SequenceEmptyOrAppend
  <2>4. PICK vs1 \in Seq(V), v \in V : vs = Append(vs1, v)
    BY <2>1, SequenceEmptyOrAppend
  <2>5. Len(ts1) = n /\ Len(ps1) = n /\ Len(vs1) = n
    <3>1. Len(ts) = Len(ts1) + 1 /\ Len(ps) = Len(ps1) + 1 /\ Len(vs) = Len(vs1) + 1
      BY <2>2, <2>3, <2>4, AppendProperties
    <3>2. Len(ts1) \in Nat /\ Len(ps1) \in Nat /\ Len(vs1) \in Nat
      BY LenProperties
    <3> QED
      BY <2>1, <3>1, <3>2
  <2>6. Pieces(ts1, ps1, vs1)
    <3>1. ASSUME NEW k \in 1..n PROVE Reads(ts1[k], ps1[k], vs1[k])
      <4>1. ts[k] = ts1[k] /\ ps[k] = ps1[k] /\ vs[k] = vs1[k]
        BY <2>2, <2>3, <2>4, <2>5, AppendProperties
      <4>2. k \in 1..Len(ts)
        OBVIOUS
      <4>3. Reads(ts[k], ps[k], vs[k])
        BY <4>2 DEF Pieces
      <4> QED
        BY <4>1, <4>3
    <3> QED
      BY <2>5, <3>1 DEF Pieces
  <2>7. Reads(t, p, v)
    <3>1. ts[n + 1] = t /\ ps[n + 1] = p /\ vs[n + 1] = v
      BY <2>2, <2>3, <2>4, <2>5, AppendProperties
    <3>2. n + 1 \in 1..Len(ts)
      OBVIOUS
    <3>3. Reads(ts[n + 1], ps[n + 1], vs[n + 1])
      BY <3>2 DEF Pieces
    <3> QED
      BY <3>1, <3>3
  <2>8. p \o r \in Seq(Byte) /\ ReadField(t, p \o r) = Got(v, r)
    BY <2>7, ConcatProperties DEF Reads
  <2>9. ReadOn(Got(start, FlattenSeq(ps1) \o (p \o r)), ts1) = Got(start \o vs1, p \o r)
    <3>1. Fine(ts1, ps1, vs1)
      BY <2>5
    <3> QED
      BY <2>6, <2>8, <3>1
  <2>10. FlattenSeq(ps) \o r = FlattenSeq(ps1) \o (p \o r)
    <3> DEFINE flat == FlattenSeq(ps1)
    <3>1. FlattenSeq(ps) = flat \o p /\ flat \in Seq(Byte)
      BY <2>3, FlattenAppend, FlattenType
    <3>2. (flat \o p) \o r = flat \o (p \o r)
      <4>1. Joins(flat, p, r)
        BY <3>1, Associative, Zenon
      <4> QED
        BY <4>1, Zenon DEF Joins
    <3> QED
      BY <3>1, <3>2
  <2>11. Append(start \o vs1, v) = start \o vs
    <3>1. Extends(start, vs1, v)
      BY AppendAfter, Zenon
    <3> QED
      BY <2>4, <3>1, Zenon DEF Extends
  <2> DEFINE done == Got(start \o vs1, p \o r)
  <2>12. ReadNext(done, t) = Got(Append(start \o vs1, v), r)
    <3>1. done.value = start \o vs1 /\ done.rest = p \o r
      BY DEF Got
    <3>2. ReadField(t, done.rest).value = v /\ ReadField(t, done.rest).rest = r
      <4>1. ReadField(t, done.rest) = Got(v, r)
        BY <2>8, <3>1
      <4> QED
        BY <4>1 DEF Got
    <3> HIDE DEF done
    <3> QED
      BY <3>1, <3>2 DEF ReadNext, Then
  <2> HIDE DEF done
  <2>13. ReadOn(Got(start, FlattenSeq(ps) \o r), ts) = ReadNext(done, t)
    <3>1. ReadOn(Got(start, FlattenSeq(ps) \o r), ts1) = done
      BY <2>9, <2>10 DEF done
    <3> QED
      BY <2>2, <3>1, ReadOnAppend
  <2> QED
    BY <2>11, <2>12, <2>13
<1> HIDE DEF Good
<1>3. Len(types) \in Good
  BY <1>1, <1>2, Induction, LenProperties
<1> QED
  BY <1>3 DEF Good

\* What fields have for values
Value == Seq(Byte) \cup Seq(0..MaxI32) \cup Int

LEMMA HoldsValue ==
    ASSUME NEW type \in FieldTypes, NEW v, Holds(type, v)
    PROVE  v \in Value
<1>1. CASE type = "string"
  BY <1>1 DEF Holds, Value, Floats, Signed, Unsigned
<1>2. CASE type = "i32 list"
  BY <1>2 DEF Holds, Value, Floats, Signed, Unsigned
<1>3. CASE type \in Floats
  <2>1. Width(type) \in Nat /\ v \in [1..Width(type) -> Byte]
    BY <1>3 DEF Holds, Width, Floats, Signed, Unsigned
  <2>2. v \in Seq(Byte)
    BY <2>1, SequenceOf
  <2> QED
    BY <2>2 DEF Value
<1>4. CASE type \in Signed \cup Unsigned
  <2>1. type \notin Floats /\ type # "string" /\ type # "i32 list" /\ type # "raw"
    BY <1>4 DEF Signed, Unsigned, Floats
  <2>2. v \in Numbers(type)
    BY <1>4, <2>1 DEF Holds, Floats, Signed, Unsigned
  <2>3. v \in Int
    BY <1>4, <2>2, NumbersOf, SMT
  <2> QED
    BY <2>3 DEF Value
<1> QED
  BY <1>1, <1>2, <1>3, <1>4 DEF FieldTypes

PiecesOf(types, values) == [k \in DOMAIN types |-> WriteField(types[k], values[k])]

LEMMA FittingShape ==
    ASSUME NEW types, NEW values, Fitting(types, values)
    PROVE  /\ types \in Seq(FieldTypes) /\ Len(types) \in Nat /\ DOMAIN types = 1..Len(types)
           /\ values \in Seq(Value) /\ Len(values) = Len(types)
           /\ PiecesOf(types, values) \in Seq(Seq(Byte))
           /\ Pieces(types, PiecesOf(types, values), values)
           /\ WriteFields(types, values) = FlattenSeq(PiecesOf(types, values))
           /\ WriteFields(types, values) \in Seq(Byte)
<1> DEFINE n == Len(types)
           pieces == PiecesOf(types, values)
<1>1. types \in Seq(FieldTypes) /\ n \in Nat /\ DOMAIN types = 1..n /\ \A k \in 1..n : types[k] \in FieldTypes
  BY ElementOfSeq, LenProperties DEF Fitting
<1>2. values = [k \in 1..n |-> values[k]] /\ \A k \in 1..n : Holds(types[k], values[k])
  BY <1>1 DEF Fitting
<1>3. \A k \in 1..n : values[k] \in Value /\ Reads(types[k], WriteField(types[k], values[k]), values[k])
  BY <1>1, <1>2, HoldsValue, FieldRead
<1>4. values \in Seq(Value) /\ Len(values) = n
  <2>1. values \in [1..n -> Value]
    BY <1>2, <1>3
  <2> HIDE DEF n
  <2> QED
    BY <1>1, <2>1, SequenceOf
<1>5. /\ pieces \in Seq(Seq(Byte)) /\ Len(pieces) = n
      /\ \A k \in 1..n : pieces[k] = WriteField(types[k], values[k])
  <2>1. pieces = [k \in 1..n |-> WriteField(types[k], values[k])]
    BY <1>1 DEF PiecesOf
  <2>2. pieces \in [1..n -> Seq(Byte)]
    BY <1>3, <2>1 DEF Reads
  <2>3. pieces \in Seq(Seq(Byte)) /\ Len(pieces) = n
    <3> HIDE DEF n, pieces
    <3> QED
      BY <1>1, <2>2, SequenceOf
  <2> QED
    BY <2>1, <2>3
<1>6. Pieces(types, pieces, values)
  <2> HIDE DEF pieces
  <2> QED
    BY <1>3, <1>4, <1>5 DEF Pieces
<1>7. WriteFields(types, values) = FlattenSeq(pieces)
  BY DEF WriteFields, PiecesOf
<1>8. FlattenSeq(pieces) \in Seq(Byte)
  <2> HIDE DEF pieces
  <2> QED
    BY <1>5, FlattenType
<1> HIDE DEF pieces
<1> QED
  BY <1>1, <1>4, <1>5, <1>6, <1>7, <1>8 DEF pieces

\* Fields that are written are read back, after whatever was read before.
LEMMA FieldsRead ==
    ASSUME NEW types, NEW values, Fitting(types, values), NEW rest \in Seq(Byte),
           NEW start \in Seq(Value)
    PROVE  ReadOn(Got(start, WriteFields(types, values) \o rest), types) = Got(start \o values, rest)
<1> DEFINE pieces == PiecesOf(types, values)
<1>1. /\ types \in Seq(FieldTypes) /\ values \in Seq(Value) /\ pieces \in Seq(Seq(Byte))
      /\ Pieces(types, pieces, values) /\ WriteFields(types, values) = FlattenSeq(pieces)
  BY FittingShape
<1> HIDE DEF pieces
<1> QED
  BY <1>1, PiecesRead

\* Fields after fields are fields.
Joined(s, u, t, v) ==
    /\ Fitting(s \o t, u \o v)
    /\ WriteFields(s \o t, u \o v) = WriteFields(s, u) \o WriteFields(t, v)

LEMMA FieldsJoin ==
    ASSUME NEW s, NEW u, Fitting(s, u), NEW t, NEW v, Fitting(t, v)
    PROVE  Joined(s, u, t, v)
<1> DEFINE n == Len(s)
           m == Len(t)
<1>1. /\ s \in Seq(FieldTypes) /\ n \in Nat /\ DOMAIN s = 1..n /\ u \in Seq(Value) /\ Len(u) = n
      /\ t \in Seq(FieldTypes) /\ m \in Nat /\ DOMAIN t = 1..m /\ v \in Seq(Value) /\ Len(v) = m
  BY FittingShape
<1>2. /\ s \o t \in Seq(FieldTypes) /\ Len(s \o t) = n + m /\ DOMAIN (s \o t) = 1 .. n + m
      /\ u \o v \in Seq(Value) /\ Len(u \o v) = n + m
      /\ \A k \in 1..n : (s \o t)[k] = s[k] /\ (u \o v)[k] = u[k]
      /\ \A k \in n + 1 .. n + m : (s \o t)[k] = t[k - n] /\ (u \o v)[k] = v[k - n]
  BY <1>1
<1> DEFINE p == PiecesOf(s, u)
           q == PiecesOf(t, v)
           all == PiecesOf(s \o t, u \o v)
<1>3. /\ p \in Seq(Seq(Byte)) /\ Len(p) = n /\ \A k \in 1..n : p[k] = WriteField(s[k], u[k])
      /\ q \in Seq(Seq(Byte)) /\ Len(q) = m /\ \A k \in 1..m : q[k] = WriteField(t[k], v[k])
      /\ WriteFields(s, u) = FlattenSeq(p) /\ WriteFields(t, v) = FlattenSeq(q)
  <2>1. p \in Seq(Seq(Byte)) /\ WriteFields(s, u) = FlattenSeq(p)
        /\ q \in Seq(Seq(Byte)) /\ WriteFields(t, v) = FlattenSeq(q)
        /\ Pieces(s, p, u) /\ Pieces(t, q, v)
    BY FittingShape
  <2>2. \A k \in 1..n : p[k] = WriteField(s[k], u[k])
    BY <1>1 DEF PiecesOf
  <2>3. \A k \in 1..m : q[k] = WriteField(t[k], v[k])
    BY <1>1 DEF PiecesOf
  <2>4. Len(p) = n /\ Len(q) = m
    BY <2>1 DEF Pieces
  <2> QED
    BY <2>1, <2>2, <2>3, <2>4
<1>4. Fitting(s \o t, u \o v)
  <2>1. ASSUME NEW k \in 1 .. n + m PROVE Holds((s \o t)[k], (u \o v)[k])
    <3>1. CASE k \in 1..n
      <4>1. Holds(s[k], u[k])
        BY <1>1, <3>1 DEF Fitting
      <4> QED
        BY <4>1, <3>1, <1>2
    <3>2. CASE k \in n + 1 .. n + m
      <4>1. k - n \in 1..m
        BY <1>1, <3>2
      <4>2. Holds(t[k - n], v[k - n])
        BY <1>1, <4>1 DEF Fitting
      <4> QED
        BY <4>2, <3>2, <1>2
    <3>3. k \in 1..n \/ k \in n + 1 .. n + m
      BY <1>1
    <3> QED
      BY <3>1, <3>2, <3>3
  <2>2. u \o v = [k \in 1 .. n + m |-> (u \o v)[k]]
    BY <1>2, LenProperties
  <2> QED
    BY <1>2, <2>1, <2>2 DEF Fitting
<1>5. all = p \o q
  <2>1. all = [k \in 1 .. n + m |-> WriteField((s \o t)[k], (u \o v)[k])]
    BY <1>2 DEF PiecesOf
  <2>2. /\ p \o q \in Seq(Seq(Byte)) /\ Len(p \o q) = n + m
        /\ \A k \in 1..n : (p \o q)[k] = p[k]
        /\ \A k \in n + 1 .. n + m : (p \o q)[k] = q[k - n]
    <3>1. p \in Seq(Seq(Byte)) /\ q \in Seq(Seq(Byte)) /\ Len(p) = n /\ Len(q) = m
      BY <1>3
    <3>2. n \in Nat /\ m \in Nat
      BY <1>1
    <3> HIDE DEF p, q, n, m
    <3>3. /\ p \o q \in Seq(Seq(Byte)) /\ Len(p \o q) = Len(p) + Len(q)
          /\ \A i \in 1 .. Len(p) + Len(q) : (p \o q)[i] = IF i <= Len(p) THEN p[i] ELSE q[i - Len(p)]
      BY <3>1, ConcatProperties
    <3> QED
      BY <3>1, <3>2, <3>3
  <2> HIDE DEF p, q
  <2>3. p \o q = [k \in 1 .. n + m |-> (p \o q)[k]]
    BY <2>2, LenProperties
  <2>4. ASSUME NEW k \in 1 .. n + m PROVE WriteField((s \o t)[k], (u \o v)[k]) = (p \o q)[k]
    <3>1. CASE k \in 1..n
      BY <3>1, <1>2, <1>3, <2>2
    <3>2. CASE k \in n + 1 .. n + m
      <4>1. k - n \in 1..m
        BY <1>1, <3>2
      <4> QED
        BY <4>1, <3>2, <1>2, <1>3, <2>2
    <3>3. k \in 1..n \/ k \in n + 1 .. n + m
      BY <1>1
    <3> QED
      BY <3>1, <3>2, <3>3
  <2> QED
    BY <2>1, <2>3, <2>4
<1>6. WriteFields(s \o t, u \o v) = FlattenSeq(all)
  BY DEF WriteFields, PiecesOf
<1> HIDE DEF all, p, q
<1>7. FlattenSeq(p \o q) = FlattenSeq(p) \o FlattenSeq(q)
  BY <1>3, FlattenConcat
<1> QED
  BY <1>3, <1>4, <1>5, <1>6, <1>7 DEF Joined

-----------------------------------------------------------------------------
(* What Only returns, and lists of fields of one type *)

KeepsLast(s, x, which, before) ==
    Only(Append(s, x), which) =
      IF Len(s) + 1 \in which THEN Append(Only(s, before), x) ELSE Only(s, before)

\* The last element is kept or not, after what is kept of the others.
LEMMA OnlyAppend ==
    ASSUME NEW S, NEW s \in Seq(S), NEW x \in S, NEW which, NEW before,
           \A k \in 1..Len(s) : k \in which <=> k \in before
    PROVE  Only(s, before) \in Seq(S) /\ KeepsLast(s, x, which, before)
<1> DEFINE n == Len(s)
           t == Append(s, x)
           p == [k \in DOMAIN s |-> IF k \in before THEN <<s[k]>> ELSE <<>>]
           q == [k \in DOMAIN t |-> IF k \in which THEN <<t[k]>> ELSE <<>>]
           last == IF n + 1 \in which THEN <<x>> ELSE <<>>
<1>1. /\ n \in Nat /\ DOMAIN s = 1..n /\ t \in Seq(S) /\ Len(t) = n + 1 /\ DOMAIN t = 1 .. n + 1
      /\ t[n + 1] = x /\ \A k \in 1..n : t[k] = s[k] /\ s[k] \in S
  BY AppendProperties, LenProperties, ElementOfSeq
<1>2. p \in Seq(Seq(S)) /\ Len(p) = n /\ \A k \in 1..n : p[k] = IF k \in before THEN <<s[k]>> ELSE <<>>
  <2>1. p \in [1..n -> Seq(S)]
    BY <1>1
  <2>2. \A k \in 1..n : p[k] = IF k \in before THEN <<s[k]>> ELSE <<>>
    BY <1>1
  <2> HIDE DEF p, n
  <2> QED
    BY <1>1, <2>1, <2>2, SequenceOf
<1>3. last \in Seq(S)
  OBVIOUS
<1>4. q = Append(p, last)
  <2>1. q = [k \in 1 .. n + 1 |-> IF k \in which THEN <<t[k]>> ELSE <<>>]
    BY <1>1
  <2>2. /\ Append(p, last) \in Seq(Seq(S)) /\ Len(Append(p, last)) = n + 1
        /\ \A k \in 1..n : Append(p, last)[k] = p[k]
        /\ Append(p, last)[n + 1] = last
    <3> HIDE DEF p, n, last
    <3> QED
      BY <1>2, <1>3, AppendProperties
  <2>3. Append(p, last) = [k \in 1 .. n + 1 |-> Append(p, last)[k]]
    BY <2>2, LenProperties
  <2>4. ASSUME NEW k \in 1 .. n + 1
        PROVE  Append(p, last)[k] = IF k \in which THEN <<t[k]>> ELSE <<>>
    <3>1. CASE k \in 1..n
      <4>1. k \in which <=> k \in before
        BY <3>1
      <4> HIDE DEF p, n, last
      <4> QED
        BY <1>1, <1>2, <2>2, <3>1, <4>1
    <3>2. CASE k = n + 1
      <4>1. last = IF k \in which THEN <<t[k]>> ELSE <<>>
        BY <1>1, <3>2
      <4> HIDE DEF p, n, last
      <4> QED
        BY <2>2, <3>2, <4>1
    <3>3. k \in 1..n \/ k = n + 1
      BY <1>1
    <3> QED
      BY <3>1, <3>2, <3>3
  <2> HIDE DEF p, last
  <2> QED
    BY <2>1, <2>3, <2>4
<1>5. Only(s, before) = FlattenSeq(p) /\ Only(t, which) = FlattenSeq(q)
  BY DEF Only
<1> DEFINE kept == FlattenSeq(p)
<1>6. kept \in Seq(S) /\ FlattenSeq(q) = kept \o last
  <2> HIDE DEF p, q, last
  <2> QED
    BY <1>2, <1>3, <1>4, FlattenType, FlattenAppend
<1> HIDE DEF kept, p, q
<1>7. kept \o last = IF n + 1 \in which THEN Append(kept, x) ELSE kept
  BY <1>6
<1> QED
  BY <1>5, <1>6, <1>7 DEF kept, KeepsLast

\* Nothing is kept of nothing.
LEMMA OnlyNothing ==
    ASSUME NEW which
    PROVE  Only(<<>>, which) = <<>>
<1>1. [k \in DOMAIN <<>> |-> IF k \in which THEN <<<<>>[k]>> ELSE <<>>] = <<>>
  OBVIOUS
<1> QED
  BY <1>1, FlattenEmpty DEF Only

\* What is kept are elements of the sequence.
LEMMA OnlyType ==
    ASSUME NEW S, NEW s \in Seq(S), NEW which
    PROVE  Only(s, which) \in Seq(S)
<1>1. CASE s = <<>>
  BY <1>1, OnlyNothing
<1>2. CASE s # <<>>
  <2>1. s[Len(s)] \in S
    BY <1>2, EmptySeq, ElementOfSeq
  <2> QED
    BY <2>1, OnlyAppend
<1> QED
  BY <1>1, <1>2

\* Fields of one type that is not a list
LEMMA TimesFitting ==
    ASSUME NEW type \in FieldTypes, NEW S, NEW v \in Seq(S), \A x \in S : Holds(type, x)
    PROVE  Fitting(Times(Len(v), type), v)
<1> DEFINE n == Len(v)
           types == Times(n, type)
<1>1. n \in Nat /\ DOMAIN v = 1..n /\ v = [k \in 1..n |-> v[k]] /\ \A k \in 1..n : v[k] \in S
  BY LenProperties, ElementOfSeq
<1>2. types \in [1..n -> FieldTypes] /\ DOMAIN types = 1..n /\ \A k \in 1..n : types[k] = type
  BY DEF Times
<1>3. types \in Seq(FieldTypes)
  <2> HIDE DEF n, types
  <2> QED
    BY <1>1, <1>2, SequenceOf
<1> HIDE DEF n, types
<1>4. Fitting(types, v)
  BY <1>1, <1>2, <1>3 DEF Fitting
<1> QED
  BY <1>4 DEF types, n

\* One field
LEMMA OneFitting ==
    ASSUME NEW type \in FieldTypes, NEW v, Holds(type, v)
    PROVE  Fitting(<<type>>, <<v>>) /\ WriteFields(<<type>>, <<v>>) = WriteField(type, v)
<1>1. Fitting(<<type>>, <<v>>)
  <2>1. <<type>> \in Seq(FieldTypes) /\ DOMAIN <<type>> = {1} /\ <<type>>[1] = type /\ <<v>>[1] = v
    OBVIOUS
  <2>2. <<v>> = [k \in {1} |-> <<v>>[k]]
    OBVIOUS
  <2> QED
    BY <2>1, <2>2 DEF Fitting
<1>2. PiecesOf(<<type>>, <<v>>) = <<WriteField(type, v)>>
  BY DEF PiecesOf
<1>3. WriteFields(<<type>>, <<v>>) = FlattenSeq(<<WriteField(type, v)>>)
  BY <1>1, <1>2, FittingShape
<1>4. WriteField(type, v) \in Seq(Byte)
  BY FieldRead DEF Reads
<1> QED
  BY <1>1, <1>3, <1>4, FlattenOne

\* A list of fields of one type, and one more of them
LEMMA TimesAppend ==
    ASSUME NEW type \in FieldTypes, NEW S, NEW v \in Seq(S), NEW x \in S,
           \A y \in S : Holds(type, y)
    PROVE  WriteFields(Times(Len(v) + 1, type), Append(v, x)) =
             WriteFields(Times(Len(v), type), v) \o WriteField(type, x)
<1> DEFINE n == Len(v)
<1>1. n \in Nat
  BY LenProperties
<1>2. Fitting(Times(n, type), v) /\ Fitting(<<type>>, <<x>>)
      /\ WriteFields(<<type>>, <<x>>) = WriteField(type, x)
  BY TimesFitting, OneFitting
<1>3. Times(n + 1, type) = Times(n, type) \o <<type>>
  <2>1. Times(n, type) \in Seq({type}) /\ Len(Times(n, type)) = n
    <3>1. Times(n, type) \in [1..n -> {type}]
      BY DEF Times
    <3> HIDE DEF n
    <3> QED
      BY <1>1, <3>1, SequenceOf
  <2>2. Times(n + 1, type) \in Seq({type}) /\ Len(Times(n + 1, type)) = n + 1
    <3>1. Times(n + 1, type) \in [1 .. n + 1 -> {type}]
      BY DEF Times
    <3>2. n + 1 \in Nat
      BY <1>1
    <3> HIDE DEF n
    <3> QED
      BY <3>2, <3>1, SequenceOf
  <2>3. Times(n, type) \o <<type>> \in Seq({type}) /\ Len(Times(n, type) \o <<type>>) = n + 1
    <3> HIDE DEF n
    <3> QED
      BY <1>1, <2>1
  <2>4. \A k \in 1 .. n + 1 : Times(n + 1, type)[k] = (Times(n, type) \o <<type>>)[k]
    <3> HIDE DEF n
    <3> TAKE k \in 1 .. n + 1
    <3>1. Times(n + 1, type)[k] \in {type} /\ (Times(n, type) \o <<type>>)[k] \in {type}
      BY <1>1, <2>2, <2>3, ElementOfSeq
    <3> QED
      BY <3>1
  <2> HIDE DEF n
  <2> QED
    BY <2>2, <2>3, <2>4, SeqEqual
<1>4. Append(v, x) = v \o <<x>>
  BY AppendIsConcat
<1> HIDE DEF n
<1>5. WriteFields(Times(n, type) \o <<type>>, v \o <<x>>) =
        WriteFields(Times(n, type), v) \o WriteFields(<<type>>, <<x>>)
  <2>1. Joined(Times(n, type), v, <<type>>, <<x>>)
    BY <1>2, FieldsJoin, Zenon
  <2> QED
    BY <2>1, Zenon DEF Joined
<1> QED
  BY <1>2, <1>3, <1>4, <1>5 DEF n

\* No fields are written as no bytes.
LEMMA TimesNone ==
    ASSUME NEW type
    PROVE  WriteFields(Times(Len(<<>>), type), <<>>) = <<>>
<1>1. Times(Len(<<>>), type) = <<>>
  BY DEF Times
<1>2. PiecesOf(<<>>, <<>>) = <<>>
  BY DEF PiecesOf
<1> QED
  BY <1>1, <1>2, FlattenEmpty DEF WriteFields, PiecesOf

\* Numbers below 128 are their own bytes.
Plain == 0..127

\* A number below 128 is written as itself.
LEMMA PlainByte ==
    ASSUME NEW x \in Plain
    PROVE  Holds("i8", x) /\ WriteField("i8", x) = <<x>>
<1>1. /\ "i8" \in Signed /\ "i8" \in FieldTypes /\ Width("i8") = 1
      /\ "i8" \notin Floats /\ "i8" \notin Unsigned
  BY DEF Signed, FieldTypes, Width, Floats, Unsigned
<1>2. x \in Nat /\ x <= 127
  BY DEF Plain
<1>3. Holds("i8", x)
  <2>1. Numbers("i8") = -128..127
    BY SMT DEF Numbers
  <2>2. x \in -128..127
    BY <1>2
  <2>3. x \in Numbers("i8")
    BY <2>1, <2>2, Zenon
  <2> QED
    BY <1>1, <2>3 DEF Holds, Floats, Signed, Unsigned
<1>4. WriteField("i8", x) = LittleEndian(x, 1)
  BY <1>1 DEF WriteField, Floats, Signed, Unsigned
<1>5. LittleEndian(x, 1) = <<x>>
  <2>1. x \in Small
    BY <1>2, MaxIs, SMT DEF Small
  <2>2. \A w : w \in {1, 2, 4, 8} =>
          /\ LittleEndian(x, w) \in Seq(Byte) /\ Len(LittleEndian(x, w)) = w
          /\ \A k \in 1..w : LittleEndian(x, w)[k] = IF x >= 0 THEN Digit(x, k) ELSE 255 - Digit(x, k)
    BY <2>1, LittleEndianBytes, SMT
  <2>3. Digit(x, 1) = x
    <3>1. 1 \in 1..8
      BY SMT
    <3>2. Digit(x, 1) = Magnitude(x) % 256
      BY <2>1, <3>1, DigitTypes, SMT
    <3>3. Magnitude(x) = x
      BY <1>2, SMT DEF Magnitude
    <3> QED
      BY <1>2, <3>2, <3>3, SMT
  <2>4. 1 \in {1, 2, 4, 8} /\ 1 \in 1..1
    OBVIOUS
  <2>5. LittleEndian(x, 1) \in Seq(Byte) /\ Len(LittleEndian(x, 1)) = 1
    BY <2>2, <2>4, Zenon
  <2>6. LittleEndian(x, 1)[1] = IF x >= 0 THEN Digit(x, 1) ELSE 255 - Digit(x, 1)
    BY <2>2, <2>4, Zenon
  <2>7. LittleEndian(x, 1)[1] = x
    BY <2>3, <2>6, <1>2, SMT
  <2> QED
    BY <2>5, <2>7
<1> QED
  BY <1>3, <1>4, <1>5

\* So is a list of them: the statuses and teams of a match.
LEMMA PlainWritten ==
    ASSUME NEW v \in Seq(Plain)
    PROVE  Fitting(Times(Len(v), "i8"), v) /\ WriteFields(Times(Len(v), "i8"), v) = v
<1>0. "i8" \in FieldTypes /\ \A x \in Plain : Holds("i8", x) /\ WriteField("i8", x) = <<x>>
  BY PlainByte DEF FieldTypes, Signed
<1> DEFINE Fine(u) == WriteFields(Times(Len(u), "i8"), u) = u
           Good == {n \in Nat : \A u \in Seq(Plain) : Len(u) = n => Fine(u)}
<1>1. 0 \in Good
  <2> SUFFICES ASSUME NEW u \in Seq(Plain), Len(u) = 0 PROVE Fine(u)
    OBVIOUS
  <2>1. u = <<>>
    BY EmptySeq
  <2> QED
    BY <2>1, TimesNone
<1>2. \A n \in Nat : n \in Good => n + 1 \in Good
  <2> SUFFICES ASSUME NEW n \in Nat, n \in Good PROVE n + 1 \in Good
    OBVIOUS
  <2> SUFFICES ASSUME NEW u \in Seq(Plain), Len(u) = n + 1 PROVE Fine(u)
    OBVIOUS
  <2>1. u # <<>>
    BY EmptySeq
  <2>2. PICK r \in Seq(Plain), x \in Plain : u = Append(r, x)
    BY <2>1, SequenceEmptyOrAppend
  <2>3. Len(r) = n /\ Len(u) = Len(r) + 1 /\ u = r \o <<x>>
    <3>1. Len(u) = Len(r) + 1 /\ Len(r) \in Nat /\ u = r \o <<x>>
      BY <2>2, AppendProperties, LenProperties, AppendIsConcat
    <3> QED
      BY <3>1
  <2>4. Fine(r)
    BY <2>3
  <2>5. WriteFields(Times(Len(r) + 1, "i8"), Append(r, x)) =
          WriteFields(Times(Len(r), "i8"), r) \o WriteField("i8", x)
    <3> HIDE DEF Fine, Good
    <3> QED
      BY <1>0, TimesAppend
  <2> QED
    BY <1>0, <2>2, <2>3, <2>4, <2>5
<1> HIDE DEF Good
<1>3. Len(v) \in Good
  BY <1>1, <1>2, Induction, LenProperties
<1> QED
  BY <1>0, <1>3, TimesFitting DEF Good

-----------------------------------------------------------------------------
(* Matches *)

Id31 == 0..MaxI32
SlotSet == [status : Plain, team : Plain, player : Id31, mods : Id31]

\* An id is written in four bytes.
LEMMA IdWritten ==
    ASSUME NEW x \in Id31
    PROVE  Holds("i32", x) /\ WriteField("i32", x) = LittleEndian(x, 4)
             /\ LittleEndian(x, 4) \in Seq(Byte)
<1>1. /\ "i32" \in Signed /\ Width("i32") = 4
      /\ "i32" \notin Floats /\ "i32" \notin Unsigned
  BY DEF Signed, Width, Floats, Unsigned
<1>2. x \in Numbers("i32")
  <2>1. Numbers("i32") = -MaxI32 - 1 .. MaxI32
    BY SMT DEF Numbers
  <2>2. x \in -MaxI32 - 1 .. MaxI32
    BY MaxIs, SMT DEF Id31
  <2> QED
    BY <2>1, <2>2, Zenon
<1>3. Holds("i32", x)
  BY <1>1, <1>2 DEF Holds, Floats, Signed, Unsigned
<1>4. WriteField("i32", x) = LittleEndian(x, 4)
  BY <1>1 DEF WriteField, Floats, Signed, Unsigned
<1> QED
  BY <1>3, <1>4, FourBytesRead DEF Id31

\* The slots' values of one kind, one after the other
LEMMA OfSlots ==
    ASSUME NEW slots \in Seq(SlotSet)
    PROVE  /\ Len(slots) \in Nat
           /\ Of(slots, "status") \in Seq(Plain) /\ Len(Of(slots, "status")) = Len(slots)
           /\ Of(slots, "team") \in Seq(Plain) /\ Len(Of(slots, "team")) = Len(slots)
           /\ Of(slots, "player") \in Seq(Id31) /\ Len(Of(slots, "player")) = Len(slots)
           /\ Of(slots, "mods") \in Seq(Id31) /\ Len(Of(slots, "mods")) = Len(slots)
           /\ \A k \in 1..Len(slots) :
                /\ Of(slots, "status")[k] = slots[k].status /\ Of(slots, "team")[k] = slots[k].team
                /\ Of(slots, "player")[k] = slots[k].player /\ Of(slots, "mods")[k] = slots[k].mods
<1> DEFINE n == Len(slots)
<1>1. n \in Nat /\ DOMAIN slots = 1..n /\ \A k \in 1..n : slots[k] \in SlotSet
  BY LenProperties, ElementOfSeq
<1>2. \A k \in 1..n : slots[k].status \in Plain /\ slots[k].team \in Plain
                      /\ slots[k].player \in Id31 /\ slots[k].mods \in Id31
  BY <1>1 DEF SlotSet
<1>3. /\ Of(slots, "status") = [k \in 1..n |-> slots[k].status]
      /\ Of(slots, "team") = [k \in 1..n |-> slots[k].team]
      /\ Of(slots, "player") = [k \in 1..n |-> slots[k].player]
      /\ Of(slots, "mods") = [k \in 1..n |-> slots[k].mods]
  BY <1>1 DEF Of
<1>4. /\ Of(slots, "status") \in [1..n -> Plain] /\ Of(slots, "team") \in [1..n -> Plain]
      /\ Of(slots, "player") \in [1..n -> Id31] /\ Of(slots, "mods") \in [1..n -> Id31]
  BY <1>2, <1>3
<1> HIDE DEF n
<1>5. /\ Of(slots, "status") \in Seq(Plain) /\ Len(Of(slots, "status")) = n
      /\ Of(slots, "team") \in Seq(Plain) /\ Len(Of(slots, "team")) = n
      /\ Of(slots, "player") \in Seq(Id31) /\ Len(Of(slots, "player")) = n
      /\ Of(slots, "mods") \in Seq(Id31) /\ Len(Of(slots, "mods")) = n
  BY <1>1, <1>4, SequenceOf
<1> QED
  BY <1>1, <1>3, <1>5 DEF n

\* The values of slots, of one slot more
LEMMA OfAppend ==
    ASSUME NEW r \in Seq(SlotSet), NEW x \in SlotSet
    PROVE  /\ Of(Append(r, x), "status") = Append(Of(r, "status"), x.status)
           /\ Of(Append(r, x), "player") = Append(Of(r, "player"), x.player)
           /\ x.status \in Plain /\ x.player \in Id31
<1> DEFINE s == Append(r, x)
           n == Len(r)
<1>1. /\ s \in Seq(SlotSet) /\ Len(s) = n + 1 /\ n \in Nat
      /\ \A k \in 1..n : s[k] = r[k]
      /\ s[n + 1] = x
  BY AppendProperties, LenProperties
<1>2. x.status \in Plain /\ x.player \in Id31
  BY DEF SlotSet
<1> HIDE DEF s
<1>3. /\ Of(r, "status") \in Seq(Plain) /\ Len(Of(r, "status")) = n
      /\ Of(s, "status") \in Seq(Plain) /\ Len(Of(s, "status")) = n + 1
      /\ \A k \in 1..n : Of(r, "status")[k] = r[k].status
      /\ \A k \in 1 .. n + 1 : Of(s, "status")[k] = s[k].status
  BY <1>1, OfSlots
<1>4. /\ Of(r, "player") \in Seq(Id31) /\ Len(Of(r, "player")) = n
      /\ Of(s, "player") \in Seq(Id31) /\ Len(Of(s, "player")) = n + 1
      /\ \A k \in 1..n : Of(r, "player")[k] = r[k].player
      /\ \A k \in 1 .. n + 1 : Of(s, "player")[k] = s[k].player
  BY <1>1, OfSlots
<1> HIDE DEF n
<1>5. Of(s, "status") = Append(Of(r, "status"), x.status)
  <2> DEFINE a == Of(r, "status")
             b == Of(s, "status")
             y == x.status
  <2>1. /\ a \in Seq(Plain) /\ Len(a) = n /\ b \in Seq(Plain) /\ Len(b) = n + 1 /\ y \in Plain
        /\ b[n + 1] = y /\ \A k \in 1..n : b[k] = a[k]
    BY <1>1, <1>2, <1>3
  <2> HIDE DEF a, b, y
  <2>2. /\ Append(a, y) \in Seq(Plain) /\ Len(Append(a, y)) = n + 1
        /\ Append(a, y)[n + 1] = y /\ \A k \in 1..n : Append(a, y)[k] = a[k]
    BY <2>1, AppendProperties
  <2>3. \A k \in 1 .. n + 1 : b[k] = Append(a, y)[k]
    BY <1>1, <2>1, <2>2
  <2>4. b = Append(a, y)
    BY <2>1, <2>2, <2>3, SeqEqual
  <2> QED
    BY <2>4 DEF a, b, y
<1>6. Of(s, "player") = Append(Of(r, "player"), x.player)
  <2> DEFINE a == Of(r, "player")
             b == Of(s, "player")
             y == x.player
  <2>1. /\ a \in Seq(Id31) /\ Len(a) = n /\ b \in Seq(Id31) /\ Len(b) = n + 1 /\ y \in Id31
        /\ b[n + 1] = y /\ \A k \in 1..n : b[k] = a[k]
    BY <1>1, <1>2, <1>4
  <2> HIDE DEF a, b, y
  <2>2. /\ Append(a, y) \in Seq(Id31) /\ Len(Append(a, y)) = n + 1
        /\ Append(a, y)[n + 1] = y /\ \A k \in 1..n : Append(a, y)[k] = a[k]
    BY <2>1, AppendProperties
  <2>3. \A k \in 1 .. n + 1 : b[k] = Append(a, y)[k]
    BY <1>1, <2>1, <2>2
  <2>4. b = Append(a, y)
    BY <2>1, <2>2, <2>3, SeqEqual
  <2> QED
    BY <2>4 DEF a, b, y
<1> QED
  BY <1>2, <1>5, <1>6 DEF s

\* The ids of those who sit in slots, and how many of them read_match looks for
SeatsOf(slots) == Only(Of(slots, "player"), Occupied(Of(slots, "status")))
SeatCount(slots) == Len(Only(Of(slots, "status"), Occupied(Of(slots, "status"))))

\* One slot more seats a player more, or none.
LEMMA SeatsAppend ==
    ASSUME NEW r \in Seq(SlotSet), NEW x \in SlotSet
    PROVE  /\ SeatsOf(r) \in Seq(Id31) /\ SeatCount(r) \in Nat
           /\ SeatsOf(Append(r, x)) =
                IF HasPlayer(x.status) THEN Append(SeatsOf(r), x.player) ELSE SeatsOf(r)
           /\ SeatCount(Append(r, x)) = IF HasPlayer(x.status) THEN SeatCount(r) + 1 ELSE SeatCount(r)
<1> DEFINE n == Len(r)
           st == Of(r, "status")
           pl == Of(r, "player")
           s == Append(r, x)
           before == Occupied(st)
           which == Occupied(Append(st, x.status))
<1>1. /\ n \in Nat /\ st \in Seq(Plain) /\ Len(st) = n /\ pl \in Seq(Id31) /\ Len(pl) = n
  BY OfSlots
<1>2. /\ Of(s, "status") = Append(st, x.status) /\ Of(s, "player") = Append(pl, x.player)
      /\ x.status \in Plain /\ x.player \in Id31
  BY OfAppend
<1>3. /\ \A k \in 1..n : k \in which <=> k \in before
      /\ n + 1 \in which <=> HasPlayer(x.status)
  <2> DEFINE y == x.status
  <2>1. y \in Plain
    BY <1>2
  <2> HIDE DEF st, y, n
  <2>2. /\ DOMAIN st = 1..n /\ DOMAIN Append(st, y) = 1 .. n + 1
        /\ Append(st, y)[n + 1] = y /\ \A k \in 1..n : Append(st, y)[k] = st[k]
    BY <1>1, <2>1, AppendProperties, LenProperties
  <2>3. n + 1 \in 1 .. n + 1 /\ \A k \in 1..n : k \in 1 .. n + 1
    BY <1>1
  <2>4. /\ \A k : k \in Occupied(st) <=> k \in 1..n /\ HasPlayer(st[k])
        /\ \A k : k \in Occupied(Append(st, y)) <=> k \in 1 .. n + 1 /\ HasPlayer(Append(st, y)[k])
    BY <2>2, Zenon DEF Occupied
  <2>5. \A k \in 1..n : k \in Occupied(Append(st, y)) <=> k \in Occupied(st)
    BY <2>2, <2>3, <2>4, Zenon
  <2>6. n + 1 \in Occupied(Append(st, y)) <=> HasPlayer(y)
    BY <2>2, <2>3, <2>4, Zenon
  <2> QED
    BY <2>5, <2>6 DEF y
<1> HIDE DEF n, st, pl, which, before
<1>4. /\ Only(pl, before) \in Seq(Id31)
      /\ Only(Append(pl, x.player), which) =
           IF Len(pl) + 1 \in which THEN Append(Only(pl, before), x.player) ELSE Only(pl, before)
  <2>1. \A k \in 1..Len(pl) : k \in which <=> k \in before
    BY <1>1, <1>3
  <2> DEFINE y == x.player
  <2>2. y \in Id31
    BY <1>2
  <2> HIDE DEF y
  <2>3. Only(pl, before) \in Seq(Id31) /\ KeepsLast(pl, y, which, before)
    BY <1>1, <2>1, <2>2, OnlyAppend, Zenon
  <2> QED
    BY <2>3, Zenon DEF KeepsLast, y
<1>5. /\ Only(st, before) \in Seq(Plain)
      /\ Only(Append(st, x.status), which) =
           IF Len(st) + 1 \in which THEN Append(Only(st, before), x.status) ELSE Only(st, before)
  <2>1. \A k \in 1..Len(st) : k \in which <=> k \in before
    BY <1>1, <1>3
  <2> DEFINE y == x.status
  <2>2. y \in Plain
    BY <1>2
  <2> HIDE DEF y
  <2>3. Only(st, before) \in Seq(Plain) /\ KeepsLast(st, y, which, before)
    BY <1>1, <2>1, <2>2, OnlyAppend, Zenon
  <2> QED
    BY <2>3, Zenon DEF KeepsLast, y
<1>6. SeatsOf(r) = Only(pl, before) /\ SeatCount(r) = Len(Only(st, before))
  BY DEF SeatsOf, SeatCount, pl, st, before
<1>7. /\ SeatsOf(s) = Only(Append(pl, x.player), which)
      /\ SeatCount(s) = Len(Only(Append(st, x.status), which))
  BY <1>2 DEF SeatsOf, SeatCount, which
<1>8. /\ Len(Only(st, before)) \in Nat
      /\ Len(Append(Only(st, before), x.status)) = Len(Only(st, before)) + 1
  BY <1>2, <1>5, AppendProperties, LenProperties
<1>9. CASE HasPlayer(x.status)
  BY <1>1, <1>3, <1>4, <1>5, <1>6, <1>7, <1>8, <1>9
<1>10. CASE ~HasPlayer(x.status)
  BY <1>1, <1>3, <1>4, <1>5, <1>6, <1>7, <1>8, <1>10
<1> QED
  BY <1>9, <1>10

\* What write_match writes of one slot more
LEMMA SeatsWrittenAppend ==
    ASSUME NEW r \in Seq(SlotSet), NEW x \in SlotSet
    PROVE  WriteSeats(Append(r, x)) =
             WriteSeats(r) \o (IF HasPlayer(x.status) THEN LittleEndian(x.player, 4) ELSE <<>>)
<1> DEFINE n == Len(r)
           s == Append(r, x)
           Seat(slot) == IF HasPlayer(slot.status) THEN LittleEndian(slot.player, 4) ELSE <<>>
           p == [k \in DOMAIN r |-> Seat(r[k])]
           q == [k \in DOMAIN s |-> Seat(s[k])]
           last == Seat(x)
<1>1. /\ n \in Nat /\ DOMAIN r = 1..n /\ DOMAIN s = 1 .. n + 1 /\ s[n + 1] = x
      /\ \A k \in 1..n : s[k] = r[k] /\ r[k] \in SlotSet
  BY AppendProperties, LenProperties, ElementOfSeq
<1>2. \A y \in SlotSet : Seat(y) \in Seq(Byte)
  <2> TAKE y \in SlotSet
  <2>1. y.player \in Id31
    BY DEF SlotSet
  <2> QED
    BY <2>1, IdWritten, EmptySeq
<1> HIDE DEF Seat
<1>3. p \in Seq(Seq(Byte)) /\ Len(p) = n /\ \A k \in 1..n : p[k] = Seat(r[k])
  <2>1. p \in [1..n -> Seq(Byte)]
    BY <1>1, <1>2
  <2>2. \A k \in 1..n : p[k] = Seat(r[k])
    BY <1>1
  <2> HIDE DEF p, n
  <2> QED
    BY <1>1, <2>1, <2>2, SequenceOf
<1>4. last \in Seq(Byte)
  BY <1>2
<1>5. q = Append(p, last)
  <2>1. q = [k \in 1 .. n + 1 |-> Seat(s[k])]
    BY <1>1
  <2>2. /\ Append(p, last) \in Seq(Seq(Byte)) /\ Len(Append(p, last)) = n + 1
        /\ \A k \in 1..n : Append(p, last)[k] = p[k]
        /\ Append(p, last)[n + 1] = last
    <3> HIDE DEF p, n, last
    <3> QED
      BY <1>3, <1>4, AppendProperties
  <2>3. Append(p, last) = [k \in 1 .. n + 1 |-> Append(p, last)[k]]
    BY <2>2, LenProperties
  <2>4. \A k \in 1 .. n + 1 : Append(p, last)[k] = Seat(s[k])
    <3> HIDE DEF p, n, s
    <3> TAKE k \in 1 .. n + 1
    <3>1. k \in 1..n \/ k = n + 1
      BY <1>1
    <3>2. CASE k \in 1..n
      BY <3>2, <1>1, <1>3, <2>2
    <3>3. CASE k = n + 1
      BY <3>3, <1>1, <2>2
    <3> QED
      BY <3>1, <3>2, <3>3
  <2> HIDE DEF p, q, last
  <2> QED
    BY <2>1, <2>3, <2>4
<1>6. WriteSeats(r) = FlattenSeq(p) /\ WriteSeats(s) = FlattenSeq(q)
  BY DEF WriteSeats, Seat
<1>7. FlattenSeq(q) = FlattenSeq(p) \o last
  <2> HIDE DEF p, q, last
  <2> QED
    BY <1>3, <1>4, <1>5, FlattenAppend
<1> HIDE DEF p, q
<1> QED
  BY <1>6, <1>7 DEF Seat

\* Who sits in a slot is read where it was written: write_match and read_match look for
\* the same statuses.
LEMMA SeatsWritten ==
    ASSUME NEW slots \in Seq(SlotSet)
    PROVE  /\ SeatsOf(slots) \in Seq(Id31) /\ Len(SeatsOf(slots)) = SeatCount(slots)
           /\ WriteFields(Times(SeatCount(slots), "i32"), SeatsOf(slots)) = WriteSeats(slots)
<1>0. "i32" \in FieldTypes /\ \A x \in Id31 : Holds("i32", x) /\ WriteField("i32", x) = LittleEndian(x, 4)
  BY IdWritten DEF FieldTypes, Signed
<1> DEFINE Fine(s) == /\ SeatsOf(s) \in Seq(Id31) /\ Len(SeatsOf(s)) = SeatCount(s)
                      /\ WriteFields(Times(SeatCount(s), "i32"), SeatsOf(s)) = WriteSeats(s)
                      /\ WriteSeats(s) \in Seq(Byte)
           Good == {n \in Nat : \A s \in Seq(SlotSet) : Len(s) = n => Fine(s)}
<1>1. 0 \in Good
  <2> SUFFICES ASSUME NEW s \in Seq(SlotSet), Len(s) = 0 PROVE Fine(s)
    OBVIOUS
  <2>1. s = <<>>
    BY EmptySeq
  <2>2. Of(<<>>, "player") = <<>> /\ Of(<<>>, "status") = <<>>
    BY DEF Of
  <2>3. SeatsOf(<<>>) = <<>> /\ SeatCount(<<>>) = Len(<<>>)
    BY <2>2, OnlyNothing DEF SeatsOf, SeatCount
  <2>4. WriteSeats(<<>>) = <<>>
    <3>1. DOMAIN <<>> = {}
      OBVIOUS
    <3>2. [k \in DOMAIN <<>> |-> IF HasPlayer(<<>>[k].status) THEN LittleEndian(<<>>[k].player, 4) ELSE <<>>]
            = <<>>
      BY <3>1
    <3> QED
      BY <3>2, FlattenEmpty DEF WriteSeats
  <2>5. <<>> \in Seq(Id31) /\ <<>> \in Seq(Byte)
    BY EmptySeq
  <2> QED
    BY <2>1, <2>3, <2>4, <2>5, TimesNone
<1>2. \A n \in Nat : n \in Good => n + 1 \in Good
  <2> SUFFICES ASSUME NEW n \in Nat, n \in Good PROVE n + 1 \in Good
    OBVIOUS
  <2> SUFFICES ASSUME NEW s \in Seq(SlotSet), Len(s) = n + 1 PROVE Fine(s)
    OBVIOUS
  <2>1. s # <<>>
    BY EmptySeq
  <2>2. PICK r \in Seq(SlotSet), x \in SlotSet : s = Append(r, x)
    BY <2>1, SequenceEmptyOrAppend
  <2>3. Len(r) = n
    <3>1. Len(s) = Len(r) + 1 /\ Len(r) \in Nat
      BY <2>2, AppendProperties, LenProperties
    <3> QED
      BY <3>1
  <2>4. Fine(r)
    BY <2>3
  <2>5. x.player \in Id31
    BY DEF SlotSet
  <2> DEFINE o == SeatsOf(r)
             c == SeatCount(r)
             w == WriteSeats(r)
             id == LittleEndian(x.player, 4)
  <2>6. o \in Seq(Id31) /\ Len(o) = c /\ WriteFields(Times(c, "i32"), o) = w /\ w \in Seq(Byte)
    BY <2>4
  <2>7. id \in Seq(Byte)
    BY <2>5, IdWritten
  <2>8. CASE HasPlayer(x.status)
    <3>1. SeatsOf(s) = Append(o, x.player) /\ SeatCount(s) = c + 1
      BY <2>2, <2>8, SeatsAppend
    <3>2. WriteSeats(s) = w \o id
      BY <2>2, <2>8, SeatsWrittenAppend
    <3> HIDE DEF Fine, Good, o, c, w
    <3>3. WriteFields(Times(Len(o) + 1, "i32"), Append(o, x.player)) =
            WriteFields(Times(Len(o), "i32"), o) \o WriteField("i32", x.player)
      BY <1>0, <2>5, <2>6, TimesAppend
    <3>4. WriteField("i32", x.player) = id
      BY <1>0, <2>5
    <3> HIDE DEF id
    <3>5. WriteFields(Times(c + 1, "i32"), Append(o, x.player)) = w \o id
      BY <2>6, <3>3, <3>4
    <3>6. Append(o, x.player) \in Seq(Id31) /\ Len(Append(o, x.player)) = c + 1 /\ w \o id \in Seq(Byte)
      BY <2>5, <2>6, <2>7, AppendProperties, ConcatProperties
    <3> QED
      BY <3>1, <3>2, <3>5, <3>6 DEF Fine
  <2>9. CASE ~HasPlayer(x.status)
    <3>1. SeatsOf(s) = o /\ SeatCount(s) = c
      BY <2>2, <2>9, SeatsAppend
    <3>2. WriteSeats(s) = w \o <<>>
      BY <2>2, <2>9, SeatsWrittenAppend
    <3> HIDE DEF Fine, Good, o, c, w
    <3>3. w \o <<>> = w
      BY <2>6, ConcatEmptySeq
    <3> QED
      BY <3>1, <3>2, <3>3, <2>6 DEF Fine
  <2> QED
    BY <2>8, <2>9
<1> HIDE DEF Good
<1>3. Len(slots) \in Good
  BY <1>1, <1>2, Induction, LenProperties
<1> QED
  BY <1>3 DEF Good


-----------------------------------------------------------------------------
(* What was written as fields is taken as fields, whatever was read before. *)

Takes(types, bytes, values) ==
    \A start \in Seq(Value), rest \in Seq(Byte) :
      ReadOn(Got(start, bytes \o rest), types) = Got(start \o values, rest)

\* One kind of reading: its types, its bytes and its values
Part(types, bytes, values) ==
    bytes \in Seq(Byte) /\ values \in Seq(Value) /\ Takes(types, bytes, values)

\* Fields are a part.
LEMMA FieldsPart ==
    ASSUME NEW types, NEW values, Fitting(types, values)
    PROVE  Part(types, WriteFields(types, values), values) /\ Len(values) = Len(types)
<1>1. /\ WriteFields(types, values) \in Seq(Byte) /\ values \in Seq(Value)
      /\ Len(values) = Len(types)
  BY FittingShape
<1>2. Takes(types, WriteFields(types, values), values)
  BY FieldsRead, Zenon DEF Takes
<1> QED
  BY <1>1, <1>2 DEF Part

\* A field that another function writes
LEMMA OnePart ==
    ASSUME NEW type, NEW bytes \in Seq(Byte), NEW v \in Value, Reads(type, bytes, v)
    PROVE  Part(<<type>>, bytes, <<v>>)
<1>1. <<v>> \in Seq(Value)
  OBVIOUS
<1>2. ASSUME NEW start \in Seq(Value), NEW rest \in Seq(Byte)
      PROVE  ReadOn(Got(start, bytes \o rest), <<type>>) = Got(start \o <<v>>, rest)
  <2>1. ReadField(type, bytes \o rest) = Got(v, rest)
    BY Zenon DEF Reads
  <2> DEFINE done == Got(start, bytes \o rest)
  <2>2. done.value = start /\ done.rest = bytes \o rest /\ Got(v, rest).value = v /\ Got(v, rest).rest = rest
    BY DEF Got
  <2> HIDE DEF done
  <2>3. ReadNext(done, type) = Got(Append(start, v), rest)
    BY <2>1, <2>2, Zenon DEF ReadNext, Then
  <2>4. <<>> \in Seq({type}) /\ Append(<<>>, type) = <<type>>
    OBVIOUS
  <2>5. ReadOn(done, Append(<<>>, type)) = ReadNext(ReadOn(done, <<>>), type)
    <3>1. type \in {type}
      OBVIOUS
    <3> QED
      BY <2>4, <3>1, ReadOnAppend, Zenon
  <2>6. Append(start, v) = start \o <<v>>
    BY AppendIsConcat
  <2> QED
    BY <2>3, <2>4, <2>5, <2>6, ReadOnNothing, Zenon DEF done
<1> QED
  BY <1>1, <1>2, Zenon DEF Part, Takes

\* From where the reading stands to where it goes on
GoesOn(start, types, bytes, values, rest) ==
    /\ ReadOn(Got(start, bytes \o rest), types) = Got(start \o values, rest)
    /\ start \o values \in Seq(Value)

LEMMA PartRead ==
    ASSUME NEW types, NEW bytes, NEW values, Part(types, bytes, values),
           NEW start \in Seq(Value), NEW rest \in Seq(Byte)
    PROVE  GoesOn(start, types, bytes, values, rest)
<1>1. start \o values \in Seq(Value)
  BY ConcatProperties DEF Part
<1> QED
  BY <1>1, Zenon DEF Part, Takes, GoesOn

-----------------------------------------------------------------------------
(* The parts of a match *)

\* A password that is not sent is read as an empty one.
LEMMA PasswordPart ==
    ASSUME NEW passwd \in Seq(Byte), NEW shown \in BOOLEAN
    PROVE  Part(<<"string">>, WritePassword(passwd, shown), <<IF shown THEN passwd ELSE <<>>>>)
<1>0. <<>> \in Seq(Byte) /\ <<>> \in Value /\ passwd \in Value
  BY EmptySeq DEF Value
<1>1. \A s \in Seq(Byte) : Reads("string", WriteString(s), s)
  <2> TAKE s \in Seq(Byte)
  <2>1. "string" \in FieldTypes /\ Holds("string", s) /\ WriteField("string", s) = WriteString(s)
    BY DEF FieldTypes, Holds, WriteField, Floats, Signed, Unsigned
  <2> QED
    BY <2>1, FieldRead
<1>2. CASE passwd # <<>> /\ ~shown
  <2>1. WritePassword(passwd, shown) = <<11, 0>> /\ (IF shown THEN passwd ELSE <<>>) = <<>>
    BY <1>2 DEF WritePassword
  <2>2. <<11, 0>> \in Seq(Byte)
    BY DEF Byte
  <2>3. ASSUME NEW rest \in Seq(Byte)
        PROVE  ReadField("string", <<11, 0>> \o rest) = Got(<<>>, rest)
    <3> DEFINE b == <<11, 0>> \o rest
               l == ReadLength(Drop(b, 1))
    <3>1. b[1] = 11 /\ Drop(b, 1) = <<0>> \o rest
      BY DEF Drop
    <3>2. Uleb128(0) = <<0>>
      <4>1. 0 \in Nat /\ 0 < 128
        OBVIOUS
      <4>2. Uleb128(0) = IF 0 < 128 THEN <<0>> ELSE <<128 + (0 % 128)>> \o Uleb128(0 \div 128)
        BY <4>1, UlebStep, Zenon
      <4> QED
        BY <4>1, <4>2, Zenon
    <3>3. ReadLength(Uleb128(0) \o rest) = Got(0, rest)
      BY LengthRead
    <3>4. l = Got(0, rest)
      BY <3>1, <3>2, <3>3
    <3> HIDE DEF l
    <3>5. l.rest = rest /\ l.value = 0
      BY <3>4 DEF Got
    <3>6. Take(rest, 0) = <<>> /\ Drop(rest, 0) = rest
      BY DEF Take, Drop
    <3>7. ReadString(b) = IF b[1] # 11 THEN Got(<<>>, Drop(b, 1))
                          ELSE Got(Take(l.rest, l.value), Drop(l.rest, l.value))
      BY DEF ReadString, l
    <3>8. ReadField("string", b) = ReadString(b)
      BY DEF ReadField, Floats, Signed, Unsigned
    <3> HIDE DEF b
    <3> QED
      BY <3>1, <3>5, <3>6, <3>7, <3>8 DEF b
  <2>4. Reads("string", <<11, 0>>, <<>>)
    BY <2>2, <2>3, Zenon DEF Reads
  <2> QED
    BY <1>0, <2>1, <2>2, <2>4, OnePart
<1>3. CASE ~(passwd # <<>> /\ ~shown)
  <2>1. /\ WritePassword(passwd, shown) = WriteString(passwd)
        /\ (IF shown THEN passwd ELSE <<>>) = passwd
    BY <1>3 DEF WritePassword
  <2>2. WriteString(passwd) \in Seq(Byte) /\ Reads("string", WriteString(passwd), passwd)
    BY <1>1, StringRead, EmptySeq
  <2> QED
    BY <1>0, <2>1, <2>2, OnePart
<1> QED
  BY <1>2, <1>3

\* The fields that have one type each
HeadOf(m) == <<m.id, m.inProgress, 0, m.mods, m.name>>
MapOf(m) == <<m.mapName, m.mapId, m.mapMd5>>
TailOf(m) == <<m.mode, m.winCondition, m.teamType, m.freemods>>

\* The head of a match are values of its fields.
LEMMA HeadFits ==
    ASSUME NEW m, NEW n, IsMatch(m, n)
    PROVE  Fitting(MatchHead, HeadOf(m))
<1>1. /\ m.id \in 0..MaxI16 /\ m.inProgress \in Plain /\ 0 \in Plain /\ m.mods \in Id31
      /\ m.name \in Seq(Byte)
  BY DEF IsMatch, Plain, Id31
<1>2. Holds("i16", m.id)
  <2>1. Numbers("i16") = -MaxI16 - 1 .. MaxI16
    BY SMT DEF Numbers
  <2>2. m.id \in -MaxI16 - 1 .. MaxI16
    BY <1>1, MaxIs
  <2> QED
    BY <2>1, <2>2, Zenon DEF Holds, Signed, Unsigned, Floats
<1>3. Holds("i8", m.inProgress) /\ Holds("i8", 0) /\ Holds("i32", m.mods)
  BY <1>1, PlainByte, IdWritten
<1>4. Holds("string", m.name)
  BY <1>1 DEF Holds, Floats, Signed, Unsigned
<1>5. /\ MatchHead \in Seq(FieldTypes) /\ DOMAIN MatchHead = 1..5
      /\ MatchHead[1] = "i16" /\ MatchHead[2] = "i8" /\ MatchHead[3] = "i8"
      /\ MatchHead[4] = "i32" /\ MatchHead[5] = "string"
  BY DEF MatchHead, FieldTypes, Signed
<1> DEFINE v == HeadOf(m)
<1>6. /\ v = [k \in 1..5 |-> v[k]] /\ v[1] = m.id /\ v[2] = m.inProgress /\ v[3] = 0
      /\ v[4] = m.mods /\ v[5] = m.name
  BY DEF HeadOf
<1>7. \A k \in 1..5 : k = 1 \/ k = 2 \/ k = 3 \/ k = 4 \/ k = 5
  OBVIOUS
<1> HIDE DEF v
<1>8. \A k \in 1..5 : Holds(MatchHead[k], v[k])
  BY <1>2, <1>3, <1>4, <1>5, <1>6, <1>7, Zenon
<1> QED
  BY <1>5, <1>6, <1>8, Zenon DEF Fitting, v

\* So is its tail.
LEMMA TailFits ==
    ASSUME NEW m, NEW n, IsMatch(m, n)
    PROVE  Fitting(MatchTail, TailOf(m))
<1>1. /\ m.mode \in Plain /\ m.winCondition \in Plain /\ m.teamType \in Plain
      /\ m.freemods \in Plain
  BY DEF IsMatch, Plain
<1>2. /\ MatchTail \in Seq(FieldTypes) /\ DOMAIN MatchTail = 1..4
      /\ \A k \in 1..4 : MatchTail[k] = "i8"
  BY DEF MatchTail, FieldTypes, Signed
<1> DEFINE v == TailOf(m)
<1>3. v = [k \in 1..4 |-> v[k]] /\ \A k \in 1..4 : v[k] \in Plain
  BY <1>1 DEF TailOf
<1> HIDE DEF v
<1>4. \A k \in 1..4 : Holds(MatchTail[k], v[k])
  BY <1>2, <1>3, PlainByte
<1> QED
  BY <1>2, <1>3, <1>4, Zenon DEF Fitting, v

\* Numbers of four bytes, and one after them
LEMMA IdsPart ==
    ASSUME NEW v \in Seq(Id31), NEW x \in Id31
    PROVE  Part(Times(Len(v) + 1, "i32"),
                WriteFields(Times(Len(v), "i32"), v) \o LittleEndian(x, 4), Append(v, x))
<1>0. "i32" \in FieldTypes /\ \A y \in Id31 : Holds("i32", y) /\ WriteField("i32", y) = LittleEndian(y, 4)
  BY IdWritten DEF FieldTypes, Signed
<1>1. WriteFields(Times(Len(v) + 1, "i32"), Append(v, x)) =
        WriteFields(Times(Len(v), "i32"), v) \o WriteField("i32", x)
  BY <1>0, TimesAppend
<1> DEFINE w == Append(v, x)
<1>2. w \in Seq(Id31) /\ Len(w) = Len(v) + 1
  BY AppendProperties
<1> HIDE DEF w
<1>3. Fitting(Times(Len(w), "i32"), w)
  BY <1>0, <1>2, TimesFitting
<1>4. Part(Times(Len(w), "i32"), WriteFields(Times(Len(w), "i32"), w), w)
  BY <1>3, FieldsPart
<1> QED
  BY <1>0, <1>1, <1>2, <1>4, Zenon DEF w

\* Status and team of every slot
LEMMA PlainsPart ==
    ASSUME NEW s \in Seq(Plain), NEW t \in Seq(Plain), NEW n \in Nat, Len(s) = n, Len(t) = n
    PROVE  Part(Times(2 * n, "i8"), s \o t, s \o t)
<1> DEFINE v == s \o t
<1>1. v \in Seq(Plain) /\ Len(v) = 2 * n
  BY ConcatProperties
<1> HIDE DEF v
<1>2. Fitting(Times(Len(v), "i8"), v) /\ WriteFields(Times(Len(v), "i8"), v) = v
  BY <1>1, PlainWritten
<1>3. Part(Times(Len(v), "i8"), v, v)
  BY <1>2, FieldsPart
<1> QED
  BY <1>1, <1>3 DEF v

\* The mods of the slots are written one after the other.
LEMMA ModsWritten ==
    ASSUME NEW slots \in Seq(SlotSet)
    PROVE  WriteFields(Times(Len(slots), "i32"), Of(slots, "mods")) =
             FlattenSeq([k \in DOMAIN slots |-> LittleEndian(slots[k].mods, 4)])
<1>0. \A y \in Id31 : WriteField("i32", y) = LittleEndian(y, 4)
  BY IdWritten
<1> DEFINE n == Len(slots)
           types == Times(n, "i32")
           v == Of(slots, "mods")
<1>1. /\ n \in Nat /\ DOMAIN slots = 1..n /\ DOMAIN types = 1..n
      /\ \A k \in 1..n : types[k] = "i32"
  BY LenProperties DEF Times
<1>2. \A k \in 1..n : v[k] = slots[k].mods /\ v[k] \in Id31
  BY OfSlots, ElementOfSeq
<1>3. \A k \in 1..n : WriteField(types[k], v[k]) = LittleEndian(slots[k].mods, 4)
  <2> HIDE DEF v, types, n
  <2> QED
    BY <1>0, <1>1, <1>2
<1>4. [k \in 1..n |-> WriteField(types[k], v[k])] = [k \in 1..n |-> LittleEndian(slots[k].mods, 4)]
  <2> HIDE DEF v, types, n
  <2> QED
    BY <1>3
<1> HIDE DEF v, types, n
<1>5. WriteFields(types, v) = FlattenSeq([k \in 1..n |-> LittleEndian(slots[k].mods, 4)])
  BY <1>1, <1>4 DEF WriteFields
<1> QED
  BY <1>1, <1>5 DEF v, types, n

\* What IsMatch says of the slots
LEMMA MatchSlots ==
    ASSUME NEW m, NEW n, IsMatch(m, n)
    PROVE  /\ m.slots \in Seq(SlotSet) /\ Len(m.slots) = n /\ n \in Nat
           /\ m.host \in Id31 /\ m.seed \in Id31 /\ m.passwd \in Seq(Byte)
           /\ m.freemods \in Int /\ Fitting(MatchMap, MapOf(m))
<1>1. m.slots \in Seq(SlotSet) /\ Len(m.slots) = n
  BY Zenon DEF IsMatch, SlotSet, Plain, Id31
<1>2. m.host \in Id31 /\ m.seed \in Id31 /\ m.passwd \in Seq(Byte)
  BY Zenon DEF IsMatch, Id31
<1>3. m.freemods \in Int /\ Fitting(MatchMap, MapOf(m))
  BY DEF IsMatch, MapOf
<1> QED
  BY <1>1, <1>2, <1>3, LenProperties

-----------------------------------------------------------------------------
(* The parts of a match one after the other *)

\* Concatenation, of which only the following is needed
Cat(s, t) == s \o t

ClosedIn(Q) == \A s, t \in Q : Cat(s, t) \in Q
JoinsIn(Q) == \A s, t, u \in Q : Cat(Cat(s, t), u) = Cat(s, Cat(t, u))

LEMMA CatFacts ==
    ASSUME NEW S
    PROVE  ClosedIn(Seq(S)) /\ JoinsIn(Seq(S))
<1>1. ASSUME NEW s \in Seq(S), NEW t \in Seq(S) PROVE Cat(s, t) \in Seq(S)
  BY ConcatProperties DEF Cat
<1>2. ASSUME NEW s \in Seq(S), NEW t \in Seq(S), NEW u \in Seq(S)
      PROVE  Cat(Cat(s, t), u) = Cat(s, Cat(t, u))
  <2>1. Joins(s, t, u)
    BY Associative
  <2> QED
    BY <2>1, Zenon DEF Joins, Cat
<1> QED
  BY <1>1, <1>2, Zenon DEF ClosedIn, JoinsIn

\* The bytes of a match, as they are taken part by part
Groups(a, p, b, c, d, e, f, g, h, j, rest, Q) ==
    /\ (a \o p \o b \o c \o d \o e \o f \o g \o h \o j) \o rest =
         a \o (p \o (b \o ((c \o d) \o ((e \o f) \o (g \o ((h \o j) \o rest))))))
    /\ a \o p \o b \o c \o d \o e \o f \o g \o h \o j \in Q

\* The bytes of a match are the same however its parts are grouped.
LEMMA Regroup ==
    ASSUME NEW S, NEW a \in Seq(S), NEW p \in Seq(S), NEW b \in Seq(S), NEW c \in Seq(S),
           NEW d \in Seq(S), NEW e \in Seq(S), NEW f \in Seq(S), NEW g \in Seq(S),
           NEW h \in Seq(S), NEW j \in Seq(S), NEW rest \in Seq(S)
    PROVE  Groups(a, p, b, c, d, e, f, g, h, j, rest, Seq(S))
<1> DEFINE Q == Seq(S)
<1>1. ClosedIn(Q) /\ JoinsIn(Q)
  BY CatFacts, Zenon
<1>2. /\ a \in Q /\ p \in Q /\ b \in Q /\ c \in Q /\ d \in Q /\ e \in Q /\ f \in Q /\ g \in Q
      /\ h \in Q /\ j \in Q /\ rest \in Q
  BY Zenon
<1> HIDE DEF Q
<1> DEFINE s2 == Cat(a, p)
           s3 == Cat(s2, b)
           s4 == Cat(s3, c)
           s5 == Cat(s4, d)
           s6 == Cat(s5, e)
           s7 == Cat(s6, f)
           s8 == Cat(s7, g)
           s9 == Cat(s8, h)
           r7 == Cat(Cat(h, j), rest)
           r6 == Cat(g, r7)
           r5 == Cat(Cat(e, f), r6)
           r4 == Cat(Cat(c, d), r5)
           r3 == Cat(b, r4)
<1>3. /\ s2 \in Q /\ s3 \in Q /\ s4 \in Q /\ s5 \in Q /\ s6 \in Q
      /\ s7 \in Q /\ s8 \in Q /\ s9 \in Q /\ Cat(s9, j) \in Q
  BY <1>1, <1>2, SMT DEF ClosedIn
<1>4. /\ Cat(h, j) \in Q /\ r7 \in Q /\ r6 \in Q /\ Cat(e, f) \in Q
      /\ r5 \in Q /\ Cat(c, d) \in Q /\ r4 \in Q /\ r3 \in Q
  BY <1>1, <1>2, SMT DEF ClosedIn
<1> HIDE DEF s2, s3, s4, s5, s6, s7, s8, s9, r3, r4, r5, r6, r7
<1>5. Cat(Cat(s9, j), rest) = Cat(s8, r7)
  BY <1>1, <1>2, <1>3, <1>4, SMT DEF JoinsIn, ClosedIn, s9, r7
<1>6. Cat(s8, r7) = Cat(s7, r6)
  BY <1>1, <1>2, <1>3, <1>4, SMT DEF JoinsIn, ClosedIn, s8, r6
<1>7. Cat(s7, r6) = Cat(s5, r5)
  BY <1>1, <1>2, <1>3, <1>4, SMT DEF JoinsIn, ClosedIn, s7, s6, r5
<1>8. Cat(s5, r5) = Cat(s3, r4)
  BY <1>1, <1>2, <1>3, <1>4, SMT DEF JoinsIn, ClosedIn, s5, s4, r4
<1>9. Cat(s3, r4) = Cat(s2, r3)
  BY <1>1, <1>2, <1>3, <1>4, SMT DEF JoinsIn, ClosedIn, s3, r3
<1>10. Cat(s2, r3) = Cat(a, Cat(p, r3))
  BY <1>1, <1>2, <1>3, <1>4, SMT DEF JoinsIn, ClosedIn, s2
<1>11. Cat(Cat(s9, j), rest) = Cat(a, Cat(p, r3)) /\ Cat(s9, j) \in Q
  BY <1>3, <1>5, <1>6, <1>7, <1>8, <1>9, <1>10, Zenon
<1> QED
  BY <1>11, Zenon DEF Groups, Q, Cat, s2, s3, s4, s5, s6, s7, s8, s9, r3, r4, r5, r6, r7

\* The values of a match, as they are appended part by part
Gathers(nine, c, d, e, x, g, h, y) ==
    (((nine \o (c \o d)) \o Append(e, x)) \o g) \o Append(h, y) =
      nine \o c \o d \o e \o (<<x>> \o g) \o h \o <<y>>

LEMMA Regrouped ==
    ASSUME NEW S, NEW nine \in Seq(S), NEW c \in Seq(S), NEW d \in Seq(S), NEW e \in Seq(S),
           NEW x \in S, NEW g \in Seq(S), NEW h \in Seq(S), NEW y \in S
    PROVE  Gathers(nine, c, d, e, x, g, h, y)
<1> DEFINE Q == Seq(S)
<1>1. ClosedIn(Q) /\ JoinsIn(Q)
  BY CatFacts, Zenon
<1>0. /\ nine \in Q /\ c \in Q /\ d \in Q /\ e \in Q /\ g \in Q /\ h \in Q
  BY Zenon
<1> DEFINE ex == <<x>>
           ey == <<y>>
<1>2. ex \in Q /\ ey \in Q
  OBVIOUS
<1>3. Append(e, x) = Cat(e, ex) /\ Append(h, y) = Cat(h, ey)
  BY AppendIsConcat DEF Cat
<1> HIDE DEF ex, ey, Q
<1> DEFINE s2 == Cat(nine, c)
           s3 == Cat(s2, d)
           s4 == Cat(s3, e)
           s5 == Cat(s4, Cat(ex, g))
           s6 == Cat(s5, h)
<1>4. s2 \in Q /\ s3 \in Q /\ s4 \in Q /\ s5 \in Q /\ s6 \in Q
  BY <1>0, <1>1, <1>2, SMT DEF ClosedIn
<1> HIDE DEF s2, s3, s4, s5, s6
<1>5. Cat(nine, Cat(c, d)) = s3
  BY <1>0, <1>1, SMT DEF JoinsIn, ClosedIn, s3, s2
<1>6. Cat(s3, Cat(e, ex)) = Cat(s4, ex)
  BY <1>0, <1>1, <1>2, <1>4, SMT DEF JoinsIn, ClosedIn, s4
<1>7. Cat(Cat(s4, ex), g) = s5
  BY <1>0, <1>1, <1>2, <1>4, SMT DEF JoinsIn, ClosedIn, s5
<1>8. Cat(s5, Cat(h, ey)) = Cat(s6, ey)
  BY <1>0, <1>1, <1>2, <1>4, SMT DEF JoinsIn, ClosedIn, s6
<1>9. Cat(Cat(Cat(Cat(nine, Cat(c, d)), Cat(e, ex)), g), Cat(h, ey)) = Cat(s6, ey)
  BY <1>5, <1>6, <1>7, <1>8, Zenon
<1>10. Cat(Cat(Cat(Cat(nine, Cat(c, d)), Append(e, x)), g), Append(h, y)) = Cat(s6, ey)
  BY <1>3, <1>9, Zenon
<1> QED
  BY <1>10, Zenon DEF Gathers, Cat, s2, s3, s4, s5, s6, ex, ey

\* A sequence by its first and its last elements
IsConcat(s, t, u) == s \o t = u

LEMMA ConcatIs ==
    ASSUME NEW S, NEW s \in Seq(S), NEW t \in Seq(S), NEW u \in Seq(S), Len(u) = Len(s) + Len(t),
           \A k \in 1..Len(s) : u[k] = s[k], \A i \in 1..Len(t) : u[i + Len(s)] = t[i]
    PROVE  IsConcat(s, t, u)
<1>1. /\ s \o t \in Seq(S) /\ Len(s \o t) = Len(u) /\ Len(s) \in Nat /\ Len(t) \in Nat
      /\ \A k \in 1 .. Len(s) + Len(t) : (s \o t)[k] = IF k <= Len(s) THEN s[k] ELSE t[k - Len(s)]
  BY ConcatProperties, LenProperties
<1>2. ASSUME NEW k \in 1..Len(u) PROVE (s \o t)[k] = u[k]
  <2>1. CASE k <= Len(s)
    BY <1>1, <2>1
  <2>2. CASE ~(k <= Len(s))
    <3> DEFINE i == k - Len(s)
    <3>1. i \in 1..Len(t) /\ k = i + Len(s)
      BY <1>1, <2>2
    <3> QED
      BY <1>1, <2>2, <3>1
  <2> QED
    BY <2>1, <2>2
<1> QED
  BY <1>1, <1>2, SeqEqual DEF IsConcat

\* The values of the first three parts of a match
LEMMA NineValues ==
    ASSUME NEW S, NEW a1 \in S, NEW a2 \in S, NEW a3 \in S, NEW a4 \in S, NEW a5 \in S,
           NEW p \in S, NEW b1 \in S, NEW b2 \in S, NEW b3 \in S
    PROVE  /\ (<<a1, a2, a3, a4, a5>> \o <<p>>) \o <<b1, b2, b3>> =
                <<a1, a2, a3, a4, a5, p, b1, b2, b3>>
           /\ <<a1, a2, a3, a4, a5, p, b1, b2, b3>> \in Seq(S)
           /\ Len(<<a1, a2, a3, a4, a5, p, b1, b2, b3>>) = 9
<1> DEFINE five == <<a1, a2, a3, a4, a5>>
           six == <<a1, a2, a3, a4, a5, p>>
           three == <<b1, b2, b3>>
           nine == <<a1, a2, a3, a4, a5, p, b1, b2, b3>>
           one == <<p>>
<1>1. /\ five \in Seq(S) /\ Len(five) = 5 /\ one \in Seq(S) /\ Len(one) = 1
      /\ three \in Seq(S) /\ Len(three) = 3
  OBVIOUS
<1>2. six \in Seq(S) /\ Len(six) = 6 /\ nine \in Seq(S) /\ Len(nine) = 9
  OBVIOUS
<1>3. /\ \A k \in 1..5 : six[k] = five[k] /\ \A i \in 1..1 : six[i + 5] = one[i]
      /\ \A k \in 1..6 : nine[k] = six[k] /\ \A i \in 1..3 : nine[i + 6] = three[i]
  OBVIOUS
<1> HIDE DEF five, six, three, nine, one
<1>5. five \o one = six
  <2>1. /\ Len(six) = Len(five) + Len(one) /\ \A k \in 1..Len(five) : six[k] = five[k]
        /\ \A i \in 1..Len(one) : six[i + Len(five)] = one[i]
    BY <1>1, <1>2, <1>3
  <2>2. IsConcat(five, one, six)
    BY <1>1, <1>2, <2>1, ConcatIs, Zenon
  <2> QED
    BY <2>2 DEF IsConcat
<1>6. six \o three = nine
  <2>1. /\ Len(nine) = Len(six) + Len(three) /\ \A k \in 1..Len(six) : nine[k] = six[k]
        /\ \A i \in 1..Len(three) : nine[i + Len(six)] = three[i]
    BY <1>1, <1>2, <1>3
  <2>2. IsConcat(six, three, nine)
    BY <1>1, <1>2, <2>1, ConcatIs, Zenon
  <2> QED
    BY <2>2 DEF IsConcat
<1> QED
  BY <1>2, <1>5, <1>6 DEF five, six, three, nine, one

\* The statuses of the slots are found after them.
FoundAfter(nine, s, t, n) == SubSeq(nine \o (s \o t), 10, 9 + n) = s

LEMMA StatusesFound ==
    ASSUME NEW nine \in Seq(Value), Len(nine) = 9, NEW s \in Seq(Value), NEW t \in Seq(Value),
           NEW n \in Nat, Len(s) = n
    PROVE  FoundAfter(nine, s, t, n)
<1>1. s \o t \in Seq(Value) /\ Len(s \o t) = n + Len(t) /\ Len(t) \in Nat
  BY ConcatProperties, LenProperties
<1> DEFINE v == s \o t
<1>2. v \in Seq(Value) /\ n <= Len(v)
  BY <1>1
<1>3. SubSeq(v, 1, n) = s
  BY TakeAndDrop DEF Take
<1> HIDE DEF v
<1>4. SubSeq(nine \o v, 10, 9 + n) = SubSeq(v, 1, n)
  <2>1. 10 \in Nat /\ 9 + n \in Nat /\ Len(nine) < 10 /\ 9 + n <= Len(nine) + Len(v)
        /\ 10 - Len(nine) = 1 /\ 9 + n - Len(nine) = n
    BY <1>2
  <2> DEFINE last == 9 + n
  <2> HIDE DEF last
  <2>2. SubSeq(nine \o v, 10, last) = SubSeq(v, 10 - Len(nine), last - Len(nine))
    <3>1. last \in Nat /\ 10 \in Nat /\ Len(nine) < 10 /\ last <= Len(nine) + Len(v)
      BY <2>1 DEF last
    <3> QED
      BY <1>2, <3>1, PieceRight
  <2>3. last - Len(nine) = n /\ 10 - Len(nine) = 1
    BY <2>1 DEF last
  <2>4. SubSeq(nine \o v, 10, last) = SubSeq(v, 1, n)
    BY <2>2, <2>3, Zenon
  <2> QED
    BY <2>4, Zenon DEF last
<1> QED
  BY <1>3, <1>4 DEF v, FoundAfter

\* A match is read as it was written, whatever is written after it.
THEOREM MatchRead ==
    ASSUME NEW m, NEW n, IsMatch(m, n), NEW send \in BOOLEAN, NEW rest \in Seq(Byte)
    PROVE  /\ ReadMatch(WriteMatch(m, send) \o rest, n) = Got(MatchAsRead(m, send), rest)
           /\ WriteMatch(m, send) \in Seq(Byte)
<1> DEFINE slots == m.slots
           pw == IF send THEN m.passwd ELSE <<>>
           st == Of(slots, "status")
           te == Of(slots, "team")
           id == SeatsOf(slots)
           mods == IF m.freemods = 1 THEN Of(slots, "mods") ELSE <<>>
           a == WriteFields(MatchHead, HeadOf(m))
           p == WritePassword(m.passwd, send)
           b == WriteFields(MatchMap, MapOf(m))
           e == WriteSeats(slots)
           f == LittleEndian(m.host, 4)
           g == WriteFields(MatchTail, TailOf(m))
           h == IF m.freemods = 1
                THEN FlattenSeq([k \in DOMAIN m.slots |-> LittleEndian(m.slots[k].mods, 4)]) ELSE <<>>
           j == LittleEndian(m.seed, 4)
           nine == <<m.id, m.inProgress, 0, m.mods, m.name, pw, m.mapName, m.mapId, m.mapMd5>>
<1>1. /\ slots \in Seq(SlotSet) /\ Len(slots) = n /\ n \in Nat
      /\ m.host \in Id31 /\ m.seed \in Id31 /\ m.passwd \in Seq(Byte)
      /\ m.freemods \in Int /\ Fitting(MatchMap, MapOf(m))
  BY MatchSlots
<1>2. /\ st \in Seq(Plain) /\ te \in Seq(Plain) /\ Len(st) = n /\ Len(te) = n
      /\ Of(slots, "mods") \in Seq(Id31) /\ Len(Of(slots, "mods")) = n
  BY <1>1, OfSlots
<1>3. Part(MatchHead, a, HeadOf(m)) /\ Part(MatchMap, b, MapOf(m)) /\ Part(MatchTail, g, TailOf(m))
  BY <1>1, HeadFits, TailFits, FieldsPart
<1>4. Part(<<"string">>, p, <<pw>>)
  BY <1>1, PasswordPart
<1>5. Part(Times(2 * n, "i8"), st \o te, st \o te)
  BY <1>1, <1>2, PlainsPart
<1>6. Part(Times(SeatCount(slots) + 1, "i32"), e \o f, Append(id, m.host)) /\ id \in Seq(Id31)
  <2>1. /\ id \in Seq(Id31) /\ Len(id) = SeatCount(slots)
        /\ WriteFields(Times(SeatCount(slots), "i32"), id) = e
    BY <1>1, SeatsWritten
  <2>2. Part(Times(Len(id) + 1, "i32"), WriteFields(Times(Len(id), "i32"), id) \o f,
             Append(id, m.host))
    BY <1>1, <2>1, IdsPart
  <2> QED
    BY <2>1, <2>2
<1>7. Part(Times(Len(mods) + 1, "i32"), h \o j, Append(mods, m.seed)) /\ mods \in Seq(Id31)
  <2>1. mods \in Seq(Id31) /\ WriteFields(Times(Len(mods), "i32"), mods) = h
    <3>1. CASE m.freemods = 1
      <4>1. mods = Of(slots, "mods") /\ Len(mods) = Len(slots)
        BY <1>1, <1>2, <3>1
      <4>2. h = FlattenSeq([k \in DOMAIN slots |-> LittleEndian(slots[k].mods, 4)])
        BY <3>1
      <4>3. WriteFields(Times(Len(slots), "i32"), Of(slots, "mods")) =
              FlattenSeq([k \in DOMAIN slots |-> LittleEndian(slots[k].mods, 4)])
        BY <1>1, ModsWritten
      <4> QED
        BY <1>2, <4>1, <4>2, <4>3
    <3>2. CASE m.freemods # 1
      <4>1. mods = <<>> /\ h = <<>> /\ <<>> \in Seq(Id31)
        BY <3>2
      <4> QED
        BY <4>1, TimesNone
    <3> QED
      BY <3>1, <3>2
  <2>2. Part(Times(Len(mods) + 1, "i32"), WriteFields(Times(Len(mods), "i32"), mods) \o j,
             Append(mods, m.seed))
    BY <1>1, <2>1, IdsPart
  <2> QED
    BY <2>1, <2>2
<1>8. Len(mods) = IF m.freemods = 1 THEN n ELSE 0
  BY <1>2
<1>9. /\ (HeadOf(m) \o <<pw>>) \o MapOf(m) = nine /\ nine \in Seq(Value) /\ Len(nine) = 9
      /\ <<>> \o HeadOf(m) = HeadOf(m)
  <2>1. HeadOf(m) \in Seq(Value) /\ <<pw>> \in Seq(Value) /\ MapOf(m) \in Seq(Value)
    BY <1>3, <1>4 DEF Part
  <2>2. /\ m.id \in Value /\ m.inProgress \in Value /\ 0 \in Value /\ m.mods \in Value
        /\ m.name \in Value
    BY <2>1 DEF HeadOf
  <2>3. pw \in Value
    <3> HIDE DEF pw
    <3> QED
      BY <2>1
  <2>4. m.mapName \in Value /\ m.mapId \in Value /\ m.mapMd5 \in Value
    BY <2>1 DEF MapOf
  <2> DEFINE a1 == m.id
             a2 == m.inProgress
             a4 == m.mods
             a5 == m.name
             b1 == m.mapName
             b2 == m.mapId
             b3 == m.mapMd5
  <2>5. /\ a1 \in Value /\ a2 \in Value /\ 0 \in Value /\ a4 \in Value /\ a5 \in Value
        /\ b1 \in Value /\ b2 \in Value /\ b3 \in Value
    BY <2>2, <2>4
  <2>6. /\ HeadOf(m) = <<a1, a2, 0, a4, a5>> /\ MapOf(m) = <<b1, b2, b3>>
        /\ nine = <<a1, a2, 0, a4, a5, pw, b1, b2, b3>>
    BY DEF HeadOf, MapOf
  <2>7. <<>> \o HeadOf(m) = HeadOf(m)
    BY <2>1, ConcatEmptySeq, Zenon
  <2> HIDE DEF a1, a2, a4, a5, b1, b2, b3, pw, nine
  <2>8. /\ (<<a1, a2, 0, a4, a5>> \o <<pw>>) \o <<b1, b2, b3>> =
             <<a1, a2, 0, a4, a5, pw, b1, b2, b3>>
        /\ <<a1, a2, 0, a4, a5, pw, b1, b2, b3>> \in Seq(Value)
        /\ Len(<<a1, a2, 0, a4, a5, pw, b1, b2, b3>>) = 9
    BY <2>3, <2>5, NineValues
  <2> QED
    BY <2>6, <2>7, <2>8, Zenon
<1> DEFINE hv == HeadOf(m)
           mv == MapOf(m)
           tv == TailOf(m)
           r7 == (h \o j) \o rest
           r6 == g \o r7
           r5 == (e \o f) \o r6
           r4 == (st \o te) \o r5
           r3 == b \o r4
           B == WriteMatch(m, send) \o rest
<1>10. /\ a \in Seq(Byte) /\ p \in Seq(Byte) /\ b \in Seq(Byte) /\ g \in Seq(Byte)
       /\ st \in Seq(Byte) /\ te \in Seq(Byte) /\ e \in Seq(Byte) /\ f \in Seq(Byte)
       /\ h \in Seq(Byte) /\ j \in Seq(Byte)
  <2>1. a \in Seq(Byte) /\ p \in Seq(Byte) /\ b \in Seq(Byte) /\ g \in Seq(Byte)
    BY <1>3, <1>4, Zenon DEF Part
  <2>2. st \in Seq(Byte) /\ te \in Seq(Byte)
    <3> HIDE DEF st, te
    <3>1. \A k \in Plain : k \in Byte
      BY DEF Plain, Byte
    <3> QED
      BY <1>2, <3>1
  <2>3. f \in Seq(Byte) /\ j \in Seq(Byte)
    BY <1>1, IdWritten, Zenon
  <2>4. e \in Seq(Byte)
    <3>1. Fitting(Times(Len(id), "i32"), id)
      <4>1. "i32" \in FieldTypes /\ \A y \in Id31 : Holds("i32", y)
        BY IdWritten DEF FieldTypes, Signed
      <4> HIDE DEF id
      <4> QED
        BY <1>6, <4>1, TimesFitting, Zenon
    <3>2. Len(id) = SeatCount(slots) /\ WriteFields(Times(SeatCount(slots), "i32"), id) = e
      BY <1>1, SeatsWritten, Zenon
    <3> QED
      BY <3>1, <3>2, FittingShape, Zenon
  <2>5. h \in Seq(Byte)
    <3>1. CASE m.freemods = 1
      <4>1. Fitting(Times(n, "i32"), Of(slots, "mods"))
        <5>1. "i32" \in FieldTypes /\ \A y \in Id31 : Holds("i32", y)
          BY IdWritten DEF FieldTypes, Signed
        <5> QED
          BY <1>2, <5>1, TimesFitting, Zenon
      <4>2. WriteFields(Times(n, "i32"), Of(slots, "mods")) = h
        BY <1>1, <3>1, ModsWritten, Zenon
      <4> QED
        BY <4>1, <4>2, FittingShape, Zenon
    <3>2. CASE m.freemods # 1
      <4>1. h = <<>>
        BY <3>2, Zenon
      <4> HIDE DEF h
      <4> QED
        BY <4>1, EmptySeq, Zenon
    <3> QED
      BY <3>1, <3>2
  <2> QED
    BY <2>1, <2>2, <2>3, <2>4, <2>5
<1>11. WriteMatch(m, send) = a \o p \o b \o st \o te \o e \o f \o g \o h \o j
  BY Zenon DEF WriteMatch, HeadOf, MapOf, TailOf
<1>12. B = a \o (p \o r3) /\ WriteMatch(m, send) \in Seq(Byte)
  <2> HIDE DEF a, p, b, st, te, e, f, g, h, j
  <2>1. B = (a \o p \o b \o st \o te \o e \o f \o g \o h \o j) \o rest
    BY <1>11, Zenon
  <2>2. Groups(a, p, b, st, te, e, f, g, h, j, rest, Seq(Byte))
    BY <1>10, Regroup, Zenon
  <2> QED
    BY <1>11, <2>1, <2>2, Zenon DEF Groups
<1> DEFINE v1 == nine
           v2 == v1 \o (st \o te)
           v3 == v2 \o Append(id, m.host)
           v4 == v3 \o tv
           v5 == v4 \o Append(mods, m.seed)
<1>13. /\ p \o r3 \in Seq(Byte) /\ r3 \in Seq(Byte) /\ r4 \in Seq(Byte) /\ r5 \in Seq(Byte)
       /\ r6 \in Seq(Byte) /\ r7 \in Seq(Byte)
  <2> HIDE DEF a, p, b, st, te, e, f, g, h, j
  <2> DEFINE Q == Seq(Byte)
  <2>1. \A s, t \in Q : s \o t \in Q
    BY ConcatProperties, Zenon
  <2>2. p \in Q /\ b \in Q /\ g \in Q /\ st \in Q /\ te \in Q /\ e \in Q /\ f \in Q /\ h \in Q /\ j \in Q
        /\ rest \in Q
    BY <1>10, Zenon
  <2> HIDE DEF Q
  <2>3. h \o j \in Q /\ e \o f \in Q /\ st \o te \in Q
    BY <2>1, <2>2, Zenon
  <2>4. r7 \in Q
    BY <2>1, <2>2, <2>3, Zenon
  <2>5. r6 \in Q
    BY <2>1, <2>2, <2>4, Zenon
  <2>6. r5 \in Q
    BY <2>1, <2>3, <2>5, Zenon
  <2>7. r4 \in Q
    BY <2>1, <2>3, <2>6, Zenon
  <2>8. r3 \in Q
    BY <2>1, <2>2, <2>7, Zenon
  <2>9. p \o r3 \in Q
    BY <2>1, <2>2, <2>8, Zenon
  <2> QED
    BY <2>4, <2>5, <2>6, <2>7, <2>8, <2>9, Zenon DEF Q
<1> DEFINE head == ReadFields(MatchHead, B)
           password == ReadOn(head, <<"string">>)
           map == ReadOn(password, MatchMap)
           slotsRead == ReadOn(map, Times(2 * n, "i8"))
           statuses == SubSeq(slotsRead.value, 10, 9 + n)
           seats == ReadOn(slotsRead, Times(Len(Only(statuses, Occupied(statuses))) + 1, "i32"))
           settings == ReadOn(seats, MatchTail)
           more == IF Last(settings.value) = 1 THEN n ELSE 0
<1>14. ReadMatch(B, n) = ReadOn(settings, Times(more + 1, "i32"))
  BY Zenon DEF ReadMatch, ReadSeats, ReadSlotMods
<1>15. password = Got(hv \o <<pw>>, r3) /\ hv \o <<pw>> \in Seq(Value)
  <2> HIDE DEF a, p, r3, nine, pw, B
  <2>0. <<>> \in Seq(Value)
    BY EmptySeq
  <2>1. head = Got(hv, p \o r3)
    <3>1. GoesOn(<<>>, MatchHead, a, HeadOf(m), p \o r3)
      BY <1>3, <1>13, <2>0, PartRead, Zenon
    <3> QED
      BY <1>9, <1>12, <3>1, Zenon DEF ReadFields, GoesOn
  <2>2. hv \in Seq(Value)
    BY <1>3, Zenon DEF Part
  <2> HIDE DEF head, hv
  <2>3. GoesOn(hv, <<"string">>, p, <<pw>>, r3)
    BY <1>4, <1>13, <2>2, PartRead, Zenon
  <2> QED
    BY <2>1, <2>3, Zenon DEF GoesOn
<1>16. map = Got(nine, r4)
  <2> HIDE DEF password, hv, pw, r4, b, nine
  <2>1. GoesOn(hv \o <<pw>>, MatchMap, b, MapOf(m), r4)
    BY <1>3, <1>13, <1>15, PartRead, Zenon
  <2> QED
    BY <1>9, <1>15, <2>1, Zenon DEF hv, GoesOn
<1>17. slotsRead = Got(v2, r5) /\ v2 \in Seq(Value)
  <2> HIDE DEF map, nine, r5, st, te
  <2>1. GoesOn(nine, Times(2 * n, "i8"), st \o te, st \o te, r5)
    BY <1>5, <1>9, <1>13, PartRead, Zenon
  <2> QED
    BY <1>16, <2>1, Zenon DEF GoesOn
<1>18. statuses = st
  <2> HIDE DEF slotsRead, nine, st, te
  <2>1. slotsRead.value = nine \o (st \o te)
    BY <1>17 DEF Got
  <2>2. \A s \in Seq(Plain) : s \in Seq(Value)
    <3>1. \A k \in Plain : k \in Value
      BY DEF Plain, Value
    <3> QED
      BY <3>1
  <2>3. FoundAfter(nine, st, te, n)
    BY <1>1, <1>2, <1>9, <2>2, StatusesFound, Zenon
  <2> QED
    BY <2>1, <2>3, Zenon DEF FoundAfter
<1>19. seats = Got(v3, r6) /\ v3 \in Seq(Value)
  <2>1. Len(Only(statuses, Occupied(statuses))) = SeatCount(slots)
    BY <1>18, Zenon DEF SeatCount
  <2> HIDE DEF slotsRead, statuses, r6, v2, e, f, id
  <2>2. GoesOn(v2, Times(SeatCount(slots) + 1, "i32"), e \o f, Append(id, m.host), r6)
    BY <1>6, <1>13, <1>17, PartRead, Zenon
  <2> QED
    BY <1>17, <2>1, <2>2, Zenon DEF GoesOn
<1>20. settings = Got(v4, r7) /\ v4 \in Seq(Value)
  <2> HIDE DEF seats, r7, v3, g
  <2>1. GoesOn(v3, MatchTail, g, TailOf(m), r7)
    BY <1>3, <1>13, <1>19, PartRead, Zenon
  <2> QED
    BY <1>19, <2>1, Zenon DEF GoesOn
<1>21. Last(settings.value) = m.freemods
  <2>1. tv \in Seq(Value) /\ Len(tv) = 4 /\ tv[4] = m.freemods
    <3>1. tv \in Seq(Value)
      BY <1>3, Zenon DEF Part
    <3> QED
      BY <3>1 DEF TailOf
  <2> HIDE DEF settings, v3, v4, tv
  <2>2. settings.value = v4
    BY <1>20 DEF Got
  <2>3. v4 = v3 \o tv
    BY DEF v4
  <2> DEFINE v == v3 \o tv
             n3 == Len(v3)
  <2>5. /\ n3 \in Nat /\ Len(v) = n3 + Len(tv)
        /\ \A k \in 1 .. n3 + Len(tv) : v[k] = IF k <= n3 THEN v3[k] ELSE tv[k - n3]
    BY <1>19, <2>1, ConcatProperties, LenProperties, Zenon
  <2> HIDE DEF v, n3
  <2>4. Len(v) = n3 + 4 /\ v[n3 + 4] = tv[4]
    BY <2>1, <2>5
  <2> QED
    BY <2>1, <2>2, <2>3, <2>4, Zenon DEF Last, v
<1>22. ReadOn(settings, Times(more + 1, "i32")) = Got(v5, rest)
  <2>1. more = Len(mods)
    BY <1>8, <1>21, Zenon
  <2> HIDE DEF settings, more, v4, h, j, mods
  <2>2. GoesOn(v4, Times(Len(mods) + 1, "i32"), h \o j, Append(mods, m.seed), rest)
    BY <1>7, <1>20, PartRead, Zenon
  <2> QED
    BY <1>20, <2>1, <2>2, Zenon DEF GoesOn
<1>23. v5 = MatchAsRead(m, send)
  <2>1. MatchAsRead(m, send) =
          nine \o st \o te \o id \o <<m.host, m.mode, m.winCondition, m.teamType, m.freemods>>
            \o mods \o <<m.seed>>
    BY Zenon DEF MatchAsRead, SeatsOf
  <2>2. <<m.host>> \o tv = <<m.host, m.mode, m.winCondition, m.teamType, m.freemods>>
    <3> DEFINE u == <<m.host, m.mode, m.winCondition, m.teamType, m.freemods>>
    <3>1. <<m.host>> \in Seq(Value) /\ tv \in Seq(Value) /\ u \in Seq(Value)
      <4>1. tv \in Seq(Value) /\ m.host \in Value
        BY <1>1, <1>3, SMT DEF Part, Id31, Value
      <4>2. m.mode \in Value /\ m.winCondition \in Value /\ m.teamType \in Value /\ m.freemods \in Value
        BY <4>1 DEF TailOf
      <4> HIDE DEF tv
      <4> QED
        BY <4>1, <4>2
    <3>2. /\ Len(<<m.host>>) = 1 /\ Len(tv) = 4 /\ Len(u) = 5 /\ u[1] = m.host
          /\ \A i \in 1..4 : u[i + 1] = tv[i]
      BY DEF TailOf
    <3> DEFINE one == <<m.host>>
    <3>3. one[1] = m.host
      OBVIOUS
    <3>4. one \in Seq(Value) /\ Len(one) = 1
      BY <3>1, <3>2
    <3> HIDE DEF u, tv, one
    <3>5. /\ Len(u) = Len(one) + Len(tv) /\ \A k \in 1..Len(one) : u[k] = one[k]
          /\ \A i \in 1..Len(tv) : u[i + Len(one)] = tv[i]
      BY <3>2, <3>3, <3>4
    <3>6. IsConcat(one, tv, u)
      BY <3>1, <3>4, <3>5, ConcatIs, Zenon
    <3> QED
      BY <3>6 DEF one, u, IsConcat
  <2>3. /\ \A s \in Seq(Plain) : s \in Seq(Value)
        /\ \A s \in Seq(Id31) : s \in Seq(Value)
        /\ \A x \in Id31 : x \in Value
    <3>1. (\A k \in Plain : k \in Value) /\ \A k \in Id31 : k \in Value
      BY DEF Plain, Id31, Value
    <3> QED
      BY <3>1
  <2>4. tv \in Seq(Value)
    BY <1>3, Zenon DEF Part
  <2> HIDE DEF nine, st, te, id, tv, mods
  <2>5. Gathers(nine, st, te, id, m.host, tv, mods, m.seed)
    BY <1>1, <1>2, <1>6, <1>7, <1>9, <2>3, <2>4, Regrouped, Zenon
  <2> QED
    BY <2>1, <2>2, <2>5, Zenon DEF Gathers
<1> HIDE DEF B, settings, more, v5
<1>24. ReadMatch(B, n) = Got(MatchAsRead(m, send), rest)
  BY <1>14, <1>22, <1>23, Zenon
<1> QED
  BY <1>12, <1>24, Zenon DEF B

-----------------------------------------------------------------------------
(* Bundles of frames *)

\* The frames are one list of fields.
FramesFit(types, values, bytes) ==
    /\ Fitting(FlattenSeq(types), FlattenSeq(values))
    /\ WriteFields(FlattenSeq(types), FlattenSeq(values)) = bytes

LEMMA FramesWritten ==
    ASSUME NEW frames \in Seq(Seq(Value)), \A k \in 1..Len(frames) : Fitting(ReplayFrame, frames[k])
    PROVE  FramesFit(Times(Len(frames), ReplayFrame), frames,
                     FlattenSeq([k \in DOMAIN frames |-> WriteFields(ReplayFrame, frames[k])]))
<1> DEFINE Bytes(u) == FlattenSeq([k \in DOMAIN u |-> WriteFields(ReplayFrame, u[k])])
           Fits(u) == \A k \in 1..Len(u) : Fitting(ReplayFrame, u[k])
           Fine(u) == FramesFit(Times(Len(u), ReplayFrame), u, Bytes(u))
           Good == {n \in Nat : \A u \in Seq(Seq(Value)) : Len(u) = n /\ Fits(u) => Fine(u)}
<1>0. ReplayFrame \in Seq(FieldTypes)
  BY DEF ReplayFrame, FieldTypes, Signed, Unsigned, Floats
<1>1. 0 \in Good
  <2> SUFFICES ASSUME NEW u \in Seq(Seq(Value)), Len(u) = 0 PROVE Fine(u)
    OBVIOUS
  <2>1. u = <<>>
    BY EmptySeq
  <2>2. Times(Len(<<>>), ReplayFrame) = <<>> /\ DOMAIN <<>> = {} /\ Len(<<>>) = 0
    BY DEF Times
  <2>3. [k \in DOMAIN <<>> |-> WriteFields(ReplayFrame, <<>>[k])] = <<>>
    BY <2>2
  <2>4. FlattenSeq(<<>>) = <<>> /\ WriteFields(<<>>, <<>>) = <<>>
    <3>1. [k \in DOMAIN <<>> |-> WriteField(<<>>[k], <<>>[k])] = <<>>
      BY <2>2
    <3> QED
      BY <3>1, FlattenEmpty DEF WriteFields
  <2>5. Fitting(<<>>, <<>>)
    <3>1. <<>> \in Seq(FieldTypes) /\ <<>> = [k \in DOMAIN <<>> |-> <<>>[k]]
      BY <2>2
    <3> QED
      BY <2>2, <3>1 DEF Fitting
  <2>6. FramesFit(<<>>, <<>>, <<>>)
    BY <2>4, <2>5, Zenon DEF FramesFit
  <2> QED
    BY <2>1, <2>2, <2>3, <2>4, <2>6, Zenon
<1>2. \A n \in Nat : n \in Good => n + 1 \in Good
  <2> SUFFICES ASSUME NEW n \in Nat, n \in Good PROVE n + 1 \in Good
    OBVIOUS
  <2> SUFFICES ASSUME NEW u \in Seq(Seq(Value)), Len(u) = n + 1, Fits(u) PROVE Fine(u)
    <3> HIDE DEF Fits, Fine
    <3> QED
      OBVIOUS
  <2>1. u # <<>>
    BY EmptySeq
  <2>2. PICK r \in Seq(Seq(Value)), x \in Seq(Value) : u = Append(r, x)
    BY <2>1, SequenceEmptyOrAppend
  <2>3. /\ Len(r) = n /\ Len(u) = n + 1 /\ DOMAIN r = 1..n /\ DOMAIN u = 1 .. n + 1
        /\ u[n + 1] = x /\ \A k \in 1..n : u[k] = r[k]
    <3>1. Len(u) = Len(r) + 1 /\ Len(r) \in Nat
      BY <2>2, AppendProperties, LenProperties
    <3>2. Len(r) = n
      BY <3>1
    <3> QED
      BY <2>2, <3>1, <3>2, AppendProperties, LenProperties
  <2>4. Fits(r) /\ Fitting(ReplayFrame, x)
    <3>1. n + 1 \in 1 .. n + 1 /\ \A k \in 1..n : k \in 1 .. n + 1
      OBVIOUS
    <3> QED
      BY <2>3, <3>1
  <2>5. Fine(r)
    BY <2>3, <2>4
  <2> HIDE DEF Fine, Good, Fits
  <2>6. Times(n + 1, ReplayFrame) = Append(Times(n, ReplayFrame), ReplayFrame)
        /\ Times(n, ReplayFrame) \in Seq(Seq(FieldTypes))
    <3> DEFINE rf == ReplayFrame
    <3> HIDE DEF rf
    <3>1. Times(n, rf) \in [1..n -> {rf}] /\ Times(n + 1, rf) \in [1 .. n + 1 -> {rf}]
      BY DEF Times
    <3>2. Times(n, rf) \in Seq({rf}) /\ Len(Times(n, rf)) = n
      BY <3>1, SequenceOf
    <3>3. Times(n + 1, rf) \in Seq({rf}) /\ Len(Times(n + 1, rf)) = n + 1
      BY <3>1, SequenceOf
    <3>4. /\ Append(Times(n, rf), rf) \in Seq({rf})
          /\ Len(Append(Times(n, rf), rf)) = n + 1
      BY <3>2, AppendProperties
    <3>5. \A k \in 1 .. n + 1 : Times(n + 1, rf)[k] = rf /\ Append(Times(n, rf), rf)[k] = rf
      BY <3>3, <3>4, ElementOfSeq
    <3>6. Times(n + 1, rf) = Append(Times(n, rf), rf)
      BY <3>3, <3>4, <3>5, SeqEqual
    <3>7. Times(n, rf) \in Seq(Seq(FieldTypes))
      BY <1>0, <3>2 DEF rf
    <3> QED
      BY <3>6, <3>7 DEF rf
  <2>7. /\ FlattenSeq(Times(n + 1, ReplayFrame)) = FlattenSeq(Times(n, ReplayFrame)) \o ReplayFrame
        /\ FlattenSeq(u) = FlattenSeq(r) \o x
    <3>1. FlattenSeq(Append(Times(n, ReplayFrame), ReplayFrame)) =
            FlattenSeq(Times(n, ReplayFrame)) \o ReplayFrame
      BY <1>0, <2>6, FlattenAppend
    <3> QED
      BY <2>2, <2>6, <3>1, FlattenAppend
  <2>8. Bytes(u) = Bytes(r) \o WriteFields(ReplayFrame, x)
    <3> DEFINE p == [k \in DOMAIN r |-> WriteFields(ReplayFrame, r[k])]
               q == [k \in DOMAIN u |-> WriteFields(ReplayFrame, u[k])]
               last == WriteFields(ReplayFrame, x)
    <3>1. last \in Seq(Byte) /\ \A k \in 1..n : WriteFields(ReplayFrame, r[k]) \in Seq(Byte)
      BY <2>3, <2>4, FittingShape DEF Fits
    <3>2. p \in [1..n -> Seq(Byte)] /\ \A k \in 1..n : p[k] = WriteFields(ReplayFrame, r[k])
      BY <2>3, <3>1
    <3>3. /\ q = [k \in 1 .. n + 1 |-> q[k]] /\ q[n + 1] = last
          /\ \A k \in 1..n : q[k] = WriteFields(ReplayFrame, r[k])
      BY <2>3
    <3> HIDE DEF p, q, last
    <3>4. p \in Seq(Seq(Byte)) /\ Len(p) = n
      BY <3>2, SequenceOf
    <3>5. /\ Append(p, last) \in Seq(Seq(Byte)) /\ Len(Append(p, last)) = n + 1
          /\ Append(p, last)[n + 1] = last /\ \A k \in 1..n : Append(p, last)[k] = p[k]
      BY <3>1, <3>4, AppendProperties
    <3>6. Append(p, last) = [k \in 1 .. n + 1 |-> Append(p, last)[k]]
      BY <3>5, LenProperties
    <3>7. \A k \in 1 .. n + 1 : q[k] = Append(p, last)[k]
      <4> TAKE k \in 1 .. n + 1
      <4>1. k \in 1..n \/ k = n + 1
        OBVIOUS
      <4> QED
        BY <3>2, <3>3, <3>5, <4>1, Zenon
    <3>8. q = Append(p, last)
      BY <3>3, <3>6, <3>7
    <3>9. FlattenSeq(q) = FlattenSeq(p) \o last
      BY <3>1, <3>4, <3>8, FlattenAppend
    <3> QED
      BY <3>9 DEF p, q, last
  <2> HIDE DEF Bytes
  <2>9. Joined(FlattenSeq(Times(n, ReplayFrame)), FlattenSeq(r), ReplayFrame, x)
    <3>1. Fitting(FlattenSeq(Times(n, ReplayFrame)), FlattenSeq(r))
      BY <2>3, <2>5, Zenon DEF Fine, FramesFit
    <3> QED
      BY <2>4, <3>1, FieldsJoin, Zenon
  <2> QED
    BY <2>3, <2>5, <2>7, <2>8, <2>9, Zenon DEF Fine, FramesFit, Joined
<1> HIDE DEF Good
<1>3. Len(frames) \in Good
  BY <1>1, <1>2, Induction, LenProperties
<1> QED
  BY <1>3 DEF Good

\* One number is a part.
LEMMA OneNumber ==
    ASSUME NEW type \in FieldTypes, NEW x, Holds(type, x)
    PROVE  Part(<<type>>, WriteFields(<<type>>, <<x>>), <<x>>) /\ Fitting(<<type>>, <<x>>)
BY OneFitting, FieldsPart

\* What IsBundle says of the parts
LEMMA BundleParts ==
    ASSUME NEW f, IsBundle(f)
    PROVE  /\ Part(<<"i32", "u16">>, WriteFields(<<"i32", "u16">>, <<f.extra, Len(f.frames)>>),
                   <<f.extra, Len(f.frames)>>)
           /\ Part(FlattenSeq(Times(Len(f.frames), ReplayFrame)),
                   FlattenSeq([k \in DOMAIN f.frames |-> WriteFields(ReplayFrame, f.frames[k])]),
                   FlattenSeq(f.frames))
           /\ Part(<<"u8">> \o ScoreFrame,
                   WriteFields(<<"u8">> \o ScoreFrame, <<f.action>> \o f.score),
                   <<f.action>> \o f.score)
           /\ <<f.action>> \in Seq(Value) /\ f.score \in Seq(Value) /\ Len(f.score) = 15
           /\ Part(Portions(Last(f.score)), WriteFields(Portions(Last(f.score)), f.portions),
                   f.portions)
           /\ Part(<<"u16">>, WriteFields(<<"u16">>, <<f.sequence>>), <<f.sequence>>)
<1> DEFINE n == Len(f.frames)
<1>0. "i32" \in FieldTypes /\ "u16" \in FieldTypes /\ "u8" \in FieldTypes
  BY DEF FieldTypes, Signed, Unsigned
<1>1. /\ Holds("i32", f.extra) /\ f.action \in 0..8 /\ Holds("u16", f.sequence)
      /\ n \in 0..MaxU16 /\ f.frames = [k \in 1..n |-> f.frames[k]]
      /\ \A k \in DOMAIN f.frames : Fitting(ReplayFrame, f.frames[k])
      /\ Fitting(ScoreFrame, f.score) /\ Fitting(Portions(Last(f.score)), f.portions)
  BY Zenon DEF IsBundle
<1> HIDE DEF n
<1>2. Part(<<"i32", "u16">>, WriteFields(<<"i32", "u16">>, <<f.extra, n>>), <<f.extra, n>>)
  <2>1. Holds("u16", n)
    <3>1. Numbers("u16") = 0..MaxU16
      BY SMT DEF Numbers
    <3> QED
      BY <1>1, <3>1, Zenon DEF Holds, Signed, Unsigned, Floats
  <2> DEFINE t == <<"i32", "u16">>
             v == <<f.extra, n>>
  <2>2. /\ t \in Seq(FieldTypes) /\ DOMAIN t = 1..2 /\ v = [k \in 1..2 |-> v[k]]
        /\ t[1] = "i32" /\ t[2] = "u16" /\ v[1] = f.extra /\ v[2] = n
    BY <1>0
  <2>3. \A k \in 1..2 : k = 1 \/ k = 2
    OBVIOUS
  <2> HIDE DEF t, v
  <2>4. \A k \in 1..2 : Holds(t[k], v[k])
    BY <1>1, <2>1, <2>2, <2>3, Zenon
  <2>5. Fitting(t, v)
    BY <2>2, <2>4, Zenon DEF Fitting
  <2> QED
    BY <2>5, FieldsPart, Zenon DEF t, v
<1>3. Part(FlattenSeq(Times(n, ReplayFrame)),
           FlattenSeq([k \in DOMAIN f.frames |-> WriteFields(ReplayFrame, f.frames[k])]),
           FlattenSeq(f.frames))
  <2> DEFINE s == f.frames
  <2>1. n \in Nat /\ s = [k \in 1..n |-> s[k]] /\ DOMAIN s = 1..n /\ n = Len(s)
    BY <1>1 DEF n
  <2>2. \A k \in 1..n : Fitting(ReplayFrame, s[k]) /\ s[k] \in Seq(Value)
    BY <1>1, <2>1, FittingShape
  <2> HIDE DEF s
  <2>3. s \in [1..n -> Seq(Value)]
    BY <2>1, <2>2
  <2>4. s \in Seq(Seq(Value))
    BY <2>1, <2>3, SequenceOf
  <2> DEFINE bytes == FlattenSeq([k \in DOMAIN s |-> WriteFields(ReplayFrame, s[k])])
             types == Times(Len(s), ReplayFrame)
  <2>5. FramesFit(types, s, bytes)
    BY <2>1, <2>2, <2>4, FramesWritten
  <2> HIDE DEF bytes, types
  <2>6. Part(FlattenSeq(types), bytes, FlattenSeq(s))
    BY <2>5, FieldsPart, Zenon DEF FramesFit
  <2> QED
    BY <2>1, <2>6, Zenon DEF s, types, bytes
<1>4. /\ Part(<<"u8">> \o ScoreFrame, WriteFields(<<"u8">> \o ScoreFrame, <<f.action>> \o f.score),
              <<f.action>> \o f.score)
      /\ <<f.action>> \in Seq(Value)
  <2>1. Holds("u8", f.action)
    <3>1. Numbers("u8") = 0..255
      BY SMT DEF Numbers
    <3>2. f.action \in 0..255
      BY <1>1
    <3> QED
      BY <3>1, <3>2, Zenon DEF Holds, Signed, Unsigned, Floats
  <2>2. Fitting(<<"u8">>, <<f.action>>)
    BY <1>0, <2>1, OneFitting, Zenon
  <2>3. Joined(<<"u8">>, <<f.action>>, ScoreFrame, f.score)
    BY <1>1, <2>2, FieldsJoin, Zenon
  <2> QED
    BY <2>2, <2>3, FieldsPart, FittingShape, Zenon DEF Joined
<1>5. f.score \in Seq(Value) /\ Len(f.score) = 15
  <2>1. f.score \in Seq(Value) /\ Len(f.score) = Len(ScoreFrame)
    BY <1>1, FittingShape
  <2>2. Len(ScoreFrame) = 15
    BY DEF ScoreFrame
  <2> QED
    BY <2>1, <2>2
<1>6. Part(Portions(Last(f.score)), WriteFields(Portions(Last(f.score)), f.portions), f.portions)
  BY <1>1, FieldsPart, Zenon
<1>7. Part(<<"u16">>, WriteFields(<<"u16">>, <<f.sequence>>), <<f.sequence>>)
  BY <1>0, <1>1, OneNumber, Zenon
<1> QED
  BY <1>2, <1>3, <1>4, <1>5, <1>6, <1>7, Zenon DEF n

\* The parts of a bundle, and its values
GroupsFive(a, b, c, d, e, rest, Q) ==
    /\ (a \o b \o c \o d \o e) \o rest = a \o (b \o (c \o (d \o (e \o rest))))
    /\ a \o b \o c \o d \o e \in Q
    /\ b \o (c \o (d \o (e \o rest))) \in Q /\ c \o (d \o (e \o rest)) \in Q
    /\ d \o (e \o rest) \in Q /\ e \o rest \in Q

\* So are those of a bundle.
LEMMA RegroupFive ==
    ASSUME NEW S, NEW a \in Seq(S), NEW b \in Seq(S), NEW c \in Seq(S), NEW d \in Seq(S),
           NEW e \in Seq(S), NEW rest \in Seq(S)
    PROVE  GroupsFive(a, b, c, d, e, rest, Seq(S))
<1> DEFINE Q == Seq(S)
<1>1. ClosedIn(Q) /\ JoinsIn(Q)
  BY CatFacts, Zenon
<1>2. /\ a \in Q /\ b \in Q /\ c \in Q /\ d \in Q /\ e \in Q /\ rest \in Q
  BY Zenon
<1> HIDE DEF Q
<1> DEFINE s2 == Cat(a, b)
           s3 == Cat(s2, c)
           s4 == Cat(s3, d)
           r5 == Cat(e, rest)
           r4 == Cat(d, r5)
           r3 == Cat(c, r4)
           r2 == Cat(b, r3)
<1>3. s2 \in Q /\ s3 \in Q /\ s4 \in Q /\ Cat(s4, e) \in Q
  BY <1>1, <1>2, SMT DEF ClosedIn
<1>4. r5 \in Q /\ r4 \in Q /\ r3 \in Q /\ r2 \in Q
  BY <1>1, <1>2, SMT DEF ClosedIn
<1> HIDE DEF s2, s3, s4, r2, r3, r4, r5
<1>5. Cat(Cat(s4, e), rest) = Cat(s4, r5)
  BY <1>1, <1>2, <1>3, <1>4, SMT DEF JoinsIn, r5
<1>6. Cat(s4, r5) = Cat(s3, r4)
  BY <1>1, <1>2, <1>3, <1>4, SMT DEF JoinsIn, s4, r4
<1>7. Cat(s3, r4) = Cat(s2, r3)
  BY <1>1, <1>2, <1>3, <1>4, SMT DEF JoinsIn, s3, r3
<1>8. Cat(s2, r3) = Cat(a, r2)
  BY <1>1, <1>2, <1>3, <1>4, SMT DEF JoinsIn, s2, r2
<1>9. Cat(Cat(s4, e), rest) = Cat(a, r2) /\ Cat(s4, e) \in Q
  BY <1>3, <1>5, <1>6, <1>7, <1>8, Zenon
<1> QED
  BY <1>4, <1>9, Zenon DEF GroupsFive, Q, Cat, s2, s3, s4, r2, r3, r4, r5

\* A bundle of frames is read as it was written, whatever is written after it.
THEOREM BundleRead ==
    ASSUME NEW f, IsBundle(f), NEW rest \in Seq(Byte)
    PROVE  /\ ReadBundle(WriteBundle(f) \o rest) = Got(BundleAsRead(f), rest)
           /\ WriteBundle(f) \in Seq(Byte)
<1> DEFINE n == Len(f.frames)
           hv == <<f.extra, n>>
           fl == FlattenSeq(f.frames)
           sv == <<f.action>> \o f.score
           qv == <<f.sequence>>
           tf == FlattenSeq(Times(n, ReplayFrame))
           ts == <<"u8">> \o ScoreFrame
           tp == Portions(Last(f.score))
           a == WriteFields(<<"i32", "u16">>, hv)
           b == FlattenSeq([k \in DOMAIN f.frames |-> WriteFields(ReplayFrame, f.frames[k])])
           c == WriteFields(ts, sv)
           d == WriteFields(tp, f.portions)
           e == WriteFields(<<"u16">>, qv)
           r5 == e \o rest
           r4 == d \o r5
           r3 == c \o r4
           r2 == b \o r3
           B == WriteBundle(f) \o rest
           v2 == hv \o fl
           v3 == v2 \o sv
           v4 == v3 \o f.portions
           v5 == v4 \o qv
<1>1. /\ Part(<<"i32", "u16">>, a, hv) /\ Part(tf, b, fl) /\ Part(ts, c, sv)
      /\ <<f.action>> \in Seq(Value) /\ f.score \in Seq(Value) /\ Len(f.score) = 15
      /\ Part(tp, d, f.portions) /\ Part(<<"u16">>, e, qv)
  BY BundleParts, Zenon
<1>2. a \in Seq(Byte) /\ b \in Seq(Byte) /\ c \in Seq(Byte) /\ d \in Seq(Byte) /\ e \in Seq(Byte)
  BY <1>1, Zenon DEF Part
<1>3. GroupsFive(a, b, c, d, e, rest, Seq(Byte))
  <2> HIDE DEF a, b, c, d, e
  <2> QED
    BY <1>2, RegroupFive, Zenon
<1>4. WriteBundle(f) = a \o b \o c \o d \o e
  BY Zenon DEF WriteBundle
<1>5. /\ B = a \o r2 /\ WriteBundle(f) \in Seq(Byte)
      /\ r2 \in Seq(Byte) /\ r3 \in Seq(Byte) /\ r4 \in Seq(Byte) /\ r5 \in Seq(Byte)
  BY <1>3, <1>4, Zenon DEF GroupsFive
<1> DEFINE extra == ReadFields(<<"i32", "u16">>, B)
           frames == ReadOn(extra, FlattenSeq(Times(extra.value[2], ReplayFrame)))
           score == ReadOn(frames, <<"u8">> \o ScoreFrame)
           portions == ReadOn(score, Portions(Last(score.value)))
<1>6. ReadBundle(B) = ReadOn(portions, <<"u16">>)
  BY Zenon DEF ReadBundle, ReadFrames, ReadPortions
<1>7. extra = Got(hv, r2) /\ hv \in Seq(Value) /\ extra.value[2] = n
  <2>1. <<>> \in Seq(Value)
    BY EmptySeq
  <2>2. hv \in Seq(Value) /\ hv[2] = n
    BY <1>1, Zenon DEF Part
  <2> HIDE DEF a, r2, hv, n, B
  <2>3. <<>> \o hv = hv
    BY <2>2, ConcatEmptySeq
  <2>4. GoesOn(<<>>, <<"i32", "u16">>, a, hv, r2)
    BY <1>1, <1>5, <2>1, PartRead, Zenon
  <2>5. extra = Got(hv, r2)
    BY <1>5, <2>3, <2>4, Zenon DEF ReadFields, GoesOn
  <2> HIDE DEF extra
  <2>6. extra.value = hv
    BY <2>5 DEF Got
  <2> QED
    BY <2>2, <2>5, <2>6, Zenon
<1>8. frames = Got(v2, r3) /\ v2 \in Seq(Value)
  <2> HIDE DEF extra, hv, r3, fl, b, n
  <2>1. GoesOn(hv, tf, b, fl, r3)
    BY <1>1, <1>5, <1>7, PartRead, Zenon
  <2> QED
    BY <1>7, <2>1, Zenon DEF GoesOn
<1>9. score = Got(v3, r4) /\ v3 \in Seq(Value)
  <2> HIDE DEF frames, v2, r4, sv, c
  <2>1. GoesOn(v2, ts, c, sv, r4)
    BY <1>1, <1>5, <1>8, PartRead, Zenon
  <2> QED
    BY <1>8, <2>1, Zenon DEF GoesOn
<1>10. Last(score.value) = Last(f.score)
  <2>1. score.value = v2 \o sv
    <3> HIDE DEF score, v2, sv
    <3> QED
      BY <1>9 DEF Got
  <2> DEFINE one == <<f.action>>
             s == f.score
             v == v2 \o (one \o s)
             m == Len(v2)
  <2>2. one \in Seq(Value) /\ Len(one) = 1 /\ s \in Seq(Value) /\ Len(s) = 15
    BY <1>1
  <2> HIDE DEF one, s, v2
  <2>3. /\ one \o s \in Seq(Value) /\ Len(one \o s) = 16 /\ (one \o s)[16] = s[15]
    <3>1. /\ one \o s \in Seq(Value) /\ Len(one \o s) = Len(one) + Len(s)
          /\ \A k \in 1 .. Len(one) + Len(s) :
               (one \o s)[k] = IF k <= Len(one) THEN one[k] ELSE s[k - Len(one)]
      BY <2>2, ConcatProperties, Zenon
    <3> QED
      BY <2>2, <3>1
  <2> DEFINE t == one \o s
  <2>4. /\ m \in Nat /\ Len(v2 \o t) = m + Len(t)
        /\ \A k \in 1 .. m + Len(t) : (v2 \o t)[k] = IF k <= m THEN v2[k] ELSE t[k - m]
    BY <1>8, <2>3, ConcatProperties, LenProperties, Zenon
  <2>5. t[16] = s[15] /\ Len(t) = 16
    BY <2>3
  <2> HIDE DEF m, t
  <2>6. Len(v2 \o t) = m + 16 /\ (v2 \o t)[m + 16] = s[15]
    BY <2>4, <2>5
  <2>7. Last(v2 \o t) = s[15] /\ Last(s) = s[15]
    BY <2>2, <2>6, Zenon DEF Last
  <2> QED
    BY <2>1, <2>7, Zenon DEF t, one, s
<1>11. portions = Got(v4, r5) /\ v4 \in Seq(Value)
  <2> HIDE DEF score, v3, r5, d
  <2>1. GoesOn(v3, tp, d, f.portions, r5)
    BY <1>1, <1>5, <1>9, PartRead, Zenon
  <2> QED
    BY <1>9, <1>10, <2>1, Zenon DEF GoesOn
<1>12. ReadOn(portions, <<"u16">>) = Got(v5, rest)
  <2> HIDE DEF portions, v4, qv, e
  <2>1. GoesOn(v4, <<"u16">>, e, qv, rest)
    BY <1>1, <1>11, PartRead, Zenon
  <2> QED
    BY <1>11, <2>1, Zenon DEF GoesOn
<1>13. v5 = BundleAsRead(f)
  <2>1. BundleAsRead(f) = v2 \o <<f.action>> \o f.score \o f.portions \o qv
    BY Zenon DEF BundleAsRead
  <2> DEFINE one == <<f.action>>
  <2>2. one \in Seq(Value)
    BY <1>1
  <2> HIDE DEF one, v2
  <2>3. Joins(v2, one, f.score)
    BY <1>1, <1>8, <2>2, Associative, Zenon
  <2> QED
    BY <2>1, <2>3, Zenon DEF Joins, one
<1> HIDE DEF B, portions, v5
<1> QED
  BY <1>5, <1>6, <1>12, <1>13, Zenon DEF B

-----------------------------------------------------------------------------
(* Packets: the header, and what follows it *)

HeaderOf(id, length, content, rest, s) ==
    /\ Number(Take(s, 2), FALSE) = id /\ Number(SubSeq(s, 4, 7), FALSE) = length
    /\ Drop(s, 7) = content \o rest /\ Drop(Drop(s, 7), length) = rest
    /\ SubSeq(s, 8, 7 + length) = content /\ Drop(s, 7 + length) = rest

\* The header says how long what follows it is, and where the next packet begins.
LEMMA HeaderRead ==
    ASSUME NEW id \in 0..MaxU16, NEW content \in Seq(Byte), Len(content) <= MaxI32, NEW rest \in Seq(Byte)
    PROVE  /\ Packet(id, content) \in Seq(Byte) /\ Len(Packet(id, content)) = 7 + Len(content)
           /\ HeaderOf(id, Len(content), content, rest, Packet(id, content) \o rest)
<1> DEFINE n == Len(content)
           i == LittleEndian(id, 2)
           z == <<0>>
           l == LittleEndian(n, 4)
           t == content \o rest
           s == Packet(id, content) \o rest
<1>1. n \in 0..MaxI32 /\ n \in Nat
  BY LenProperties
<1>2. /\ i \in Seq(Byte) /\ Len(i) = 2 /\ Number(i, FALSE) = id
      /\ z \in Seq(Byte) /\ Len(z) = 1
  <2>1. z \in Seq(Byte) /\ Len(z) = 1
    BY DEF Byte
  <2> QED
    BY <2>1, TwoBytesRead, Zenon
<1>3. l \in Seq(Byte) /\ Len(l) = 4 /\ Number(l, FALSE) = n
  <2> HIDE DEF n
  <2> QED
    BY <1>1, FourBytesRead
<1>4. t \in Seq(Byte) /\ Take(t, n) = content /\ Drop(t, n) = rest
  BY ConcatProperties, TakeAndDrop
<1>5. Packet(id, content) = i \o z \o l \o content
  BY Zenon DEF Packet
<1> DEFINE iz == i \o z
           izl == iz \o l
           lt == l \o t
<1>6. /\ iz \in Seq(Byte) /\ Len(iz) = 3 /\ lt \in Seq(Byte) /\ Len(lt) = 4 + Len(t)
      /\ izl \in Seq(Byte) /\ Len(izl) = 7 /\ izl \o content \in Seq(Byte) /\ Len(izl \o content) = 7 + n
  <2> HIDE DEF i, z, l, t, n
  <2>1. iz \in Seq(Byte) /\ Len(iz) = 3
    <3>1. iz \in Seq(Byte) /\ Len(iz) = Len(i) + Len(z)
      BY <1>2, ConcatProperties, Zenon
    <3> QED
      BY <1>2, <3>1
  <2>2. lt \in Seq(Byte) /\ Len(lt) = Len(l) + Len(t)
    BY <1>3, <1>4, ConcatProperties, Zenon
  <2> HIDE DEF iz, lt
  <2>3. izl \in Seq(Byte) /\ Len(izl) = Len(iz) + Len(l)
    BY <1>3, <2>1, ConcatProperties, Zenon
  <2> HIDE DEF izl
  <2>4. izl \o content \in Seq(Byte) /\ Len(izl \o content) = Len(izl) + n
    BY <2>3, ConcatProperties, Zenon DEF n
  <2>5. Len(lt) = 4 + Len(t) /\ Len(izl) = 7
    BY <1>3, <2>1, <2>2, <2>3
  <2>6. Len(izl \o content) = 7 + n
    BY <2>4, <2>5, Zenon
  <2> QED
    BY <2>1, <2>2, <2>3, <2>4, <2>5, <2>6, Zenon
<1>7. s = izl \o t /\ s = iz \o lt /\ s = i \o (z \o lt) /\ z \o lt \in Seq(Byte)
  <2> HIDE DEF i, z, l, iz, izl, t, lt
  <2>1. s = (izl \o content) \o rest
    BY <1>5, Zenon DEF izl, iz
  <2>2. Joins(izl, content, rest)
    BY <1>6, Associative, Zenon
  <2>3. s = izl \o t
    BY <2>1, <2>2, Zenon DEF Joins, t
  <2>4. Joins(iz, l, t)
    BY <1>3, <1>4, <1>6, Associative, Zenon
  <2>5. s = iz \o lt
    BY <2>3, <2>4, Zenon DEF Joins, izl, lt
  <2>6. Joins(i, z, lt)
    BY <1>2, <1>6, Associative, Zenon
  <2>7. s = i \o (z \o lt)
    BY <2>5, <2>6, Zenon DEF Joins, iz
  <2>8. z \o lt \in Seq(Byte)
    BY <1>2, <1>6, ConcatProperties, Zenon
  <2> QED
    BY <2>3, <2>5, <2>7, <2>8
<1> HIDE DEF s, i, z, l, t, iz, izl, lt, n
<1>8. Take(s, 2) = i
  <2> DEFINE zl == z \o lt
  <2>1. zl \in Seq(Byte) /\ s = i \o zl
    BY <1>7
  <2> HIDE DEF zl
  <2>2. Take(i \o zl, Len(i)) = i
    BY <1>2, <2>1, TakeAndDrop
  <2> QED
    BY <1>2, <2>1, <2>2
<1>9. SubSeq(s, 4, 7) = l
  <2>1. SubSeq(iz \o lt, 4, 7) = SubSeq(lt, 4 - Len(iz), 7 - Len(iz))
    <3>1. Len(t) \in Nat
      BY <1>4, LenProperties
    <3>2. 4 \in Nat /\ 7 \in Nat /\ Len(iz) < 4 /\ 7 <= Len(iz) + Len(lt)
      BY <1>6, <3>1
    <3> QED
      BY <1>6, <3>2, PieceRight
  <2>2. 4 - Len(iz) = 1 /\ 7 - Len(iz) = 4
    BY <1>6
  <2>3. Take(l \o t, Len(l)) = l
    BY <1>3, <1>4, TakeAndDrop
  <2> QED
    BY <1>3, <1>7, <2>1, <2>2, <2>3 DEF lt, Take
<1>10. Drop(s, 7) = t
  <2>1. Drop(izl \o t, Len(izl)) = t
    BY <1>4, <1>6, TakeAndDrop
  <2> QED
    BY <1>6, <1>7, <2>1
<1>11. SubSeq(s, 8, 7 + n) = content
  <2>1. SubSeq(izl \o t, 8, 7 + n) = SubSeq(t, 8 - Len(izl), (7 + n) - Len(izl))
    <3> DEFINE last == 7 + n
    <3>1. Len(t) = n + Len(rest) /\ Len(rest) \in Nat
      BY ConcatProperties, LenProperties, Zenon DEF t, n
    <3>2. 8 \in Nat /\ last \in Nat /\ Len(izl) < 8 /\ last <= Len(izl) + Len(t)
      BY <1>1, <1>6, <3>1
    <3> HIDE DEF last
    <3>3. SubSeq(izl \o t, 8, last) = SubSeq(t, 8 - Len(izl), last - Len(izl))
      BY <1>4, <1>6, <3>2, PieceRight
    <3> QED
      BY <3>3 DEF last
  <2>2. 8 - Len(izl) = 1 /\ (7 + n) - Len(izl) = n
    BY <1>1, <1>6
  <2> QED
    BY <1>4, <1>7, <2>1, <2>2 DEF Take
<1>12. Drop(s, 7 + n) = rest
  <2>1. Drop((izl \o content) \o rest, Len(izl \o content)) = rest
    <3> DEFINE w == izl \o content
    <3>1. w \in Seq(Byte)
      BY <1>6
    <3> HIDE DEF w
    <3>2. Drop(w \o rest, Len(w)) = rest
      BY <3>1, TakeAndDrop
    <3> QED
      BY <3>2 DEF w
  <2>2. s = (izl \o content) \o rest
    BY <1>5, Zenon DEF s, izl, iz
  <2> QED
    BY <1>6, <2>1, <2>2
<1>13. HeaderOf(id, n, content, rest, s)
  BY <1>2, <1>3, <1>4, <1>8, <1>9, <1>10, <1>11, <1>12, Zenon DEF HeaderOf, t
<1>14. Packet(id, content) \in Seq(Byte) /\ Len(Packet(id, content)) = 7 + n
  BY <1>5, <1>6, Zenon DEF izl, iz
<1> QED
  BY <1>13, <1>14, Zenon DEF n, s

-----------------------------------------------------------------------------
(* The packets of a client, as the server reads them *)

FieldsFirst(types, values, rest) ==
    ReadFields(types, WriteFields(types, values) \o rest) = Got(values, rest)

\* Fields are read as they were written, whatever is written after them.
THEOREM FieldsReadBack ==
    ASSUME NEW types, NEW values, Fitting(types, values), NEW rest \in Seq(Byte)
    PROVE  FieldsFirst(types, values, rest) /\ WriteFields(types, values) \in Seq(Byte)
<1>1. <<>> \in Seq(Value) /\ values \in Seq(Value) /\ WriteFields(types, values) \in Seq(Byte)
  BY EmptySeq, FittingShape
<1>2. Part(types, WriteFields(types, values), values)
  BY FieldsPart
<1>3. GoesOn(<<>>, types, WriteFields(types, values), values, rest)
  BY <1>1, <1>2, PartRead, Zenon
<1>4. <<>> \o values = values
  BY <1>1, ConcatEmptySeq, Zenon
<1> QED
  BY <1>1, <1>3, <1>4, Zenon DEF FieldsFirst, ReadFields, GoesOn

\* No two kinds of packets have an id in common.
LEMMA KindsApart ==
    ASSUME NEW id
    PROVE  /\ id \in MatchDataPackets => id \notin FramePackets /\ id \notin FieldPackets
                                         /\ id \notin RawPackets /\ id # 0
           /\ id \in FramePackets => id \notin FieldPackets /\ id \notin RawPackets /\ id # 0
           /\ id \in RawPackets => id \notin FieldPackets /\ id # 0
           /\ id = 0 => id \in FieldPackets
           /\ id \in Handled => id \in MatchDataPackets \/ id \in FramePackets \/ id \in RawPackets
                                \/ id \in FieldPackets
  BY DEF MatchDataPackets, FramePackets, FieldPackets, RawPackets, Handled, I32Packets, EmptyPackets,
         MessagePackets, ChannelNamePackets, ListPackets

\* What a handler is handed of a packet, with what is left of the request
PacketRead(p, rest) ==
    ReadPacket(p.id, ClientBody(p) \o rest, Len(ClientBody(p))) = Got(Handed(p), rest)

\* The server reads of a packet of the client what the client wrote, and no byte more.
THEOREM ClientPacketsRead ==
    ASSUME NumSlots \in Nat, NEW p, IsClientPacket(p), NEW rest \in Seq(Byte)
    PROVE  /\ ClientBody(p) \in Seq(Byte)
           /\ p.id \in Handled => PacketRead(p, rest)
<1> DEFINE id == p.id
           v == p.values
           content == ClientBody(p)
<1>1. CASE id \in MatchDataPackets
  <2>1. id \notin FramePackets /\ id \notin FieldPackets /\ id \notin RawPackets /\ id # 0
    BY <1>1, KindsApart
  <2>2. IsMatch(v[1], NumSlots) /\ content = WriteMatch(v[1], TRUE) /\ Handed(p) = MatchAsRead(v[1], TRUE)
    BY <1>1, <2>1, Zenon DEF IsClientPacket, ClientBody, Handed
  <2>3. \A b, n : ReadPacket(id, b, n) = ReadMatch(b, NumSlots)
    BY <1>1, <2>1, Zenon DEF ReadPacket
  <2>4. /\ ReadMatch(WriteMatch(v[1], TRUE) \o rest, NumSlots) = Got(MatchAsRead(v[1], TRUE), rest)
        /\ WriteMatch(v[1], TRUE) \in Seq(Byte)
    BY <2>2, MatchRead
  <2> QED
    BY <2>2, <2>3, <2>4, Zenon DEF PacketRead
<1>2. CASE id \in FramePackets
  <2>1. id \notin MatchDataPackets /\ id \notin FieldPackets /\ id \notin RawPackets /\ id # 0
    BY <1>2, KindsApart
  <2>2. /\ IsBundle(v[1]) /\ content = WriteBundle(v[1])
        /\ Handed(p) = <<content>> \o BundleAsRead(v[1])
    BY <1>2, <2>1, Zenon DEF IsClientPacket, ClientBody, Handed
  <2>3. \A b, n : ReadPacket(id, b, n) =
                    Got(<<Take(b, n)>> \o ReadBundle(b).value, ReadBundle(b).rest)
    BY <1>2, <2>1, Zenon DEF ReadPacket, Behind
  <2>4. ReadBundle(content \o rest) = Got(BundleAsRead(v[1]), rest) /\ content \in Seq(Byte)
    BY <2>2, BundleRead, Zenon
  <2> HIDE DEF content
  <2>5. ReadBundle(content \o rest).value = BundleAsRead(v[1]) /\ ReadBundle(content \o rest).rest = rest
    BY <2>4 DEF Got
  <2>6. Take(content \o rest, Len(content)) = content
    BY <2>4, TakeAndDrop
  <2> QED
    BY <2>2, <2>3, <2>4, <2>5, <2>6, Zenon DEF PacketRead, content
<1>3. CASE id \in FieldPackets
  <2>1. id \notin MatchDataPackets /\ id \notin FramePackets /\ id \notin RawPackets
    BY <1>3, KindsApart
  <2>2. Fitting(Fields(id), v) /\ content = WriteFields(Fields(id), v)
    BY <1>3, <2>1, Zenon DEF IsClientPacket, ClientBody
  <2>3. FieldsFirst(Fields(id), v, rest) /\ content \in Seq(Byte)
    BY <2>2, FieldsReadBack, Zenon
  <2>4. ReadFields(Fields(id), content \o rest) = Got(v, rest)
    BY <2>2, <2>3, Zenon DEF FieldsFirst
  <2>5. CASE id # 0
    <3>1. Handed(p) = v
      BY <2>1, <2>5, Zenon DEF Handed
    <3>2. \A b, n : ReadPacket(id, b, n) = ReadFields(Fields(id), b)
      <4>1. id \in FieldPackets \ {0}
        BY <1>3, <2>5
      <4> QED
        BY <2>1, <2>5, <4>1, Zenon DEF ReadPacket
    <3> QED
      BY <2>3, <2>4, <3>1, <3>2, Zenon DEF PacketRead
  <2>6. CASE id = 0
    <3> DEFINE r(b) == ReadFields(Fields(0), b)
               changed(x) == [x EXCEPT ![4] = ActionMode(x[4], x[5])[1], ![5] = ActionMode(x[4], x[5])[2]]
    <3>1. Handed(p) = changed(v)
      BY <2>1, <2>6, Zenon DEF Handed, WithMode
    <3>2. \A b, n : ReadPacket(id, b, n) = Got(changed(r(b).value), r(b).rest)
      <4>1. id \notin FieldPackets \ {0}
        BY <2>6
      <4> QED
        BY <2>1, <2>6, <4>1, Zenon DEF ReadPacket, Named, WithMode
    <3> DEFINE read == r(content \o rest)
    <3>3. read = Got(v, rest)
      BY <2>4, <2>6, Zenon
    <3> HIDE DEF read
    <3>4. read.value = v /\ read.rest = rest
      BY <3>3 DEF Got
    <3>5. ReadPacket(id, content \o rest, Len(content)) = Got(changed(read.value), read.rest)
      BY <3>2, Zenon DEF read
    <3> HIDE DEF changed
    <3> QED
      BY <2>3, <3>1, <3>4, <3>5, Zenon DEF PacketRead
  <2> QED
    BY <2>5, <2>6
<1>4. CASE id \notin MatchDataPackets /\ id \notin FramePackets /\ id \notin FieldPackets
  <2>1. v[1] \in Seq(Byte) /\ content = v[1]
    BY <1>4, Zenon DEF IsClientPacket, ClientBody
  <2>2. ASSUME id \in Handled PROVE PacketRead(p, rest)
    <3>1. id \in RawPackets /\ id # 0
      BY <1>4, <2>2, KindsApart
    <3>2. Handed(p) = v[1]
      BY <1>4, <3>1, Zenon DEF Handed
    <3>3. \A b, n : ReadPacket(id, b, n) = Got(Take(b, n), Drop(b, n))
      <4>1. id \notin FieldPackets \ {0}
        BY <1>4
      <4> QED
        BY <1>4, <3>1, <4>1, Zenon DEF ReadPacket
    <3> DEFINE s == v[1]
    <3>4. s \in Seq(Byte)
      BY <2>1
    <3> HIDE DEF s
    <3>5. Take(s \o rest, Len(s)) = s /\ Drop(s \o rest, Len(s)) = rest
      BY <3>4, TakeAndDrop
    <3> QED
      BY <2>1, <3>2, <3>3, <3>5, Zenon DEF PacketRead, s
  <2> QED
    BY <2>1, <2>2, Zenon
<1> QED
  BY <1>1, <1>2, <1>3, <1>4

-----------------------------------------------------------------------------
(* The packets of a server, as the client reads them *)

Found(p) == ReadByClient(p.id, PacketBody(p.id, p.values)).value = ToBeFound(p)

\* The client reads of a packet of the server what the server wrote.
THEOREM ServerPacketsRead ==
    ASSUME NumSlots \in Nat, NEW p, IsServerPacket(p)
    PROVE  PacketBody(p.id, p.values) \in Seq(Byte) /\ Found(p)
<1> DEFINE fields == ServerPackets[p.id]
           v == p.values
           content == PacketBody(p.id, p.values)
<1>0. <<>> \in Seq(Byte) /\ <<"match">> # <<"raw">>
  BY EmptySeq
<1>1. CASE fields = <<"match">>
  <2>1. /\ IsMatch(v[1], NumSlots) /\ v[2] \in BOOLEAN /\ content = WriteMatch(v[1], v[2])
        /\ ToBeFound(p) = MatchAsRead(v[1], v[2])
    BY <1>0, <1>1, Zenon DEF IsServerPacket, PacketBody, ToBeFound
  <2>2. \A b : ReadByClient(p.id, b) = ReadMatch(b, NumSlots)
    BY <1>0, <1>1, Zenon DEF ReadByClient
  <2>3. /\ ReadMatch(WriteMatch(v[1], v[2]) \o <<>>, NumSlots) = Got(MatchAsRead(v[1], v[2]), <<>>)
        /\ WriteMatch(v[1], v[2]) \in Seq(Byte)
    BY <1>0, <2>1, MatchRead
  <2>4. content \o <<>> = content
    BY <2>1, <2>3, ConcatEmptySeq, Zenon
  <2>5. ReadByClient(p.id, content) = Got(ToBeFound(p), <<>>) /\ content \in Seq(Byte)
    BY <2>1, <2>2, <2>3, <2>4, Zenon
  <2> HIDE DEF content
  <2> QED
    BY <2>5 DEF Found, Got, content
<1>2. CASE fields = <<"raw">>
  <2>1. /\ v \in [1..1 -> Seq(Byte)] /\ content = WriteFields(<<"raw">>, v) /\ ToBeFound(p) = v
    BY <1>0, <1>2, Zenon DEF IsServerPacket, PacketBody, ToBeFound
  <2>2. \A b : ReadByClient(p.id, b) = Got(<<b>>, <<>>)
    BY <1>0, <1>2, Zenon DEF ReadByClient
  <2>3. v[1] \in Seq(Byte) /\ v = <<v[1]>>
    BY <2>1
  <2>4. WriteField("raw", v[1]) = v[1]
    BY DEF WriteField, Floats, Signed, Unsigned
  <2>5. content = v[1]
    <3>1. /\ DOMAIN <<"raw">> = 1..1 /\ <<"raw">>[1] = "raw"
          /\ [k \in 1..1 |-> v[1]] = <<v[1]>>
      OBVIOUS
    <3>2. \A k \in 1..1 : WriteField(<<"raw">>[k], v[k]) = v[1]
      <4>1. \A k \in 1..1 : k = 1
        OBVIOUS
      <4> QED
        BY <2>4, <3>1, <4>1, Zenon
    <3>3. [k \in DOMAIN <<"raw">> |-> WriteField(<<"raw">>[k], v[k])] = <<v[1]>>
      BY <3>1, <3>2
    <3>4. content = FlattenSeq(<<v[1]>>)
      BY <2>1, <3>3, Zenon DEF WriteFields
    <3> QED
      BY <2>3, <3>4, FlattenOne, Zenon
  <2> HIDE DEF content, v
  <2>6. ReadByClient(p.id, content).value = <<content>>
    <3>1. \A x, y : Got(x, y).value = x
      BY DEF Got
    <3> QED
      BY <2>2, <3>1, Zenon
  <2> QED
    BY <2>1, <2>3, <2>5, <2>6, Zenon DEF Found, content
<1>3. CASE fields # <<"match">> /\ fields # <<"raw">>
  <2>1. Fitting(fields, v) /\ content = WriteFields(fields, v) /\ ToBeFound(p) = v
    BY <1>3, Zenon DEF IsServerPacket, PacketBody, ToBeFound
  <2>2. \A b : ReadByClient(p.id, b) = ReadFields(fields, b)
    BY <1>3, Zenon DEF ReadByClient
  <2>3. FieldsFirst(fields, v, <<>>) /\ content \in Seq(Byte)
    BY <1>0, <2>1, FieldsReadBack, Zenon
  <2>4. content \o <<>> = content
    BY <2>3, ConcatEmptySeq, Zenon
  <2>5. ReadByClient(p.id, content) = Got(v, <<>>)
    BY <2>1, <2>2, <2>3, <2>4, Zenon DEF FieldsFirst
  <2> HIDE DEF content
  <2> QED
    BY <2>1, <2>3, <2>5 DEF Found, Got, content
<1> QED
  BY <1>1, <1>2, <1>3

-----------------------------------------------------------------------------
(* Packets one after the other *)

Sent(p) == Packet(p.id, ClientBody(p))
Replied(p) == WritePacket(p.id, p.values)

\* What is written of a packet of the client
LEMMA SentBytes ==
    ASSUME WireAssumption, NEW p \in ClientSends
    PROVE  /\ IsClientPacket(p) /\ p.id \in 0..MaxU16 /\ ClientBody(p) \in Seq(Byte)
           /\ Len(ClientBody(p)) <= MaxI32 /\ Sent(p) \in Seq(Byte) /\ Len(Sent(p)) >= 7
<1>1. NumSlots \in Nat /\ IsClientPacket(p)
  BY Zenon DEF WireAssumption
<1>2. p.id \in 0..MaxU16 /\ Len(ClientBody(p)) <= MaxI32
  BY <1>1, Zenon DEF IsClientPacket
<1>3. ClientBody(p) \in Seq(Byte)
  BY <1>1, ClientPacketsRead, EmptySeq, Zenon
<1>4. Packet(p.id, ClientBody(p)) \in Seq(Byte) /\ Len(Packet(p.id, ClientBody(p))) = 7 + Len(ClientBody(p))
  BY <1>2, <1>3, HeaderRead, EmptySeq, Zenon
<1>5. Len(ClientBody(p)) \in Nat
  BY <1>3, LenProperties
<1> DEFINE n == Len(ClientBody(p))
           m == Len(Packet(p.id, ClientBody(p)))
<1>6. m >= 7
  <2>1. n \in Nat /\ m = 7 + n
    BY <1>4, <1>5
  <2> HIDE DEF n, m
  <2> QED
    BY <2>1
<1> QED
  BY <1>1, <1>2, <1>3, <1>4, <1>6, Zenon DEF Sent

\* What is written of a packet of the server
LEMMA RepliedBytes ==
    ASSUME WireAssumption, NEW p \in ServerSends
    PROVE  /\ IsServerPacket(p) /\ p.id \in 0..MaxU16 /\ PacketBody(p.id, p.values) \in Seq(Byte)
           /\ Len(PacketBody(p.id, p.values)) <= MaxI32 /\ Replied(p) \in Seq(Byte)
           /\ Len(Replied(p)) >= 7
<1>1. NumSlots \in Nat /\ IsServerPacket(p)
  BY Zenon DEF WireAssumption
<1>2. p.id \in 0..MaxU16 /\ Len(PacketBody(p.id, p.values)) <= MaxI32
  BY <1>1, Zenon DEF IsServerPacket
<1>3. PacketBody(p.id, p.values) \in Seq(Byte)
  BY <1>1, ServerPacketsRead, Zenon
<1> DEFINE content == PacketBody(p.id, p.values)
           n == Len(content)
           m == Len(Packet(p.id, content))
<1>4. Packet(p.id, content) \in Seq(Byte) /\ m = 7 + n
  BY <1>2, <1>3, HeaderRead, EmptySeq, Zenon
<1>5. n \in Nat
  BY <1>3, LenProperties
<1>6. m >= 7
  <2> HIDE DEF n, m
  <2> QED
    BY <1>4, <1>5
<1> QED
  BY <1>1, <1>2, <1>3, <1>4, <1>6, Zenon DEF Replied, WritePacket

\* What was written of a sequence of packets
Outgoing(s) == FlattenSeq([k \in DOMAIN s |-> Replied(s[k])])
KnownOf(s, ids) == Only(s, {k \in DOMAIN s : s[k].id \in ids})
\* A packet, or nothing if there is no handler for it
IfKnown(p, ids) == IF p.id \in ids THEN <<p>> ELSE <<>>

\* A packet that is sent after others
LastSent(s, x, ids) ==
    /\ Written(Append(s, x)) = Written(s) \o Sent(x)
    /\ KnownOf(Append(s, x), ids) = KnownOf(s, ids) \o IfKnown(x, ids)
LastReplied(s, x) == Outgoing(Append(s, x)) = Outgoing(s) \o Replied(x)

\* The maps of a sequence with one more element
OneMore(f, g, y) == g = Append(f, y)
LEMMA MappedAppend ==
    ASSUME NEW S, NEW n \in Nat, NEW f \in [1..n -> S], NEW g \in [1 .. n + 1 -> S],
           \A k \in 1..n : g[k] = f[k]
    PROVE  f \in Seq(S) /\ g[n + 1] \in S /\ OneMore(f, g, g[n + 1])
<1>1. f \in Seq(S) /\ Len(f) = n /\ g \in Seq(S) /\ Len(g) = n + 1 /\ n + 1 \in 1 .. n + 1
  BY SequenceOf
<1> DEFINE y == g[n + 1]
<1>2. y \in S
  BY <1>1
<1> HIDE DEF y
<1>3. /\ Append(f, y) \in Seq(S) /\ Len(Append(f, y)) = n + 1
      /\ Append(f, y)[n + 1] = y /\ \A k \in 1..n : Append(f, y)[k] = f[k]
  BY <1>1, <1>2, AppendProperties
<1>4. \A k \in 1 .. n + 1 : g[k] = Append(f, y)[k]
  <2> TAKE k \in 1 .. n + 1
  <2>1. k \in 1..n \/ k = n + 1
    OBVIOUS
  <2> QED
    BY <1>3, <2>1 DEF y
<1>5. g = Append(f, y)
  BY <1>1, <1>3, <1>4, SeqEqual
<1> QED
  BY <1>1, <1>2, <1>5 DEF y, OneMore

\* What is written and known of one packet more
LEMMA SentAppend ==
    ASSUME WireAssumption, NEW s \in Seq(ClientSends), NEW x \in ClientSends, NEW ids
    PROVE  /\ Written(s) \in Seq(Byte) /\ KnownOf(s, ids) \in Seq(ClientSends)
           /\ LastSent(s, x, ids)
<1> DEFINE n == Len(s)
           t == Append(s, x)
<1>1. /\ n \in Nat /\ DOMAIN s = 1..n /\ DOMAIN t = 1 .. n + 1 /\ t[n + 1] = x
      /\ \A k \in 1..n : t[k] = s[k] /\ s[k] \in ClientSends
      /\ \A k \in 1 .. n + 1 : t[k] \in ClientSends
  BY AppendProperties, LenProperties, ElementOfSeq
<1> HIDE DEF n, t
<1>0. n + 1 \in 1 .. n + 1 /\ \A k \in 1..n : k \in 1 .. n + 1
  BY <1>1
<1>2. \A p \in ClientSends : Sent(p) \in Seq(Byte)
  BY SentBytes
<1>3. Written(s) \in Seq(Byte) /\ Written(t) = Written(s) \o Sent(x)
  <2> DEFINE f == [k \in 1..n |-> Sent(s[k])]
             g == [k \in 1 .. n + 1 |-> Sent(t[k])]
  <2>1. /\ f \in [1..n -> Seq(Byte)] /\ g \in [1 .. n + 1 -> Seq(Byte)]
        /\ \A k \in 1..n : g[k] = f[k]
        /\ g[n + 1] = Sent(x)
    BY <1>0, <1>1, <1>2
  <2>2. Written(s) = FlattenSeq(f) /\ Written(t) = FlattenSeq(g)
    BY <1>1, Zenon DEF Written, Sent
  <2> HIDE DEF f, g
  <2>3. f \in Seq(Seq(Byte)) /\ g[n + 1] \in Seq(Byte) /\ OneMore(f, g, g[n + 1])
    BY <1>1, <2>1, MappedAppend, Zenon
  <2>4. FlattenSeq(Append(f, g[n + 1])) = FlattenSeq(f) \o g[n + 1]
    BY <2>3, FlattenAppend
  <2>5. FlattenSeq(f) \in Seq(Byte)
    BY <2>3, FlattenType
  <2> QED
    BY <2>1, <2>2, <2>3, <2>4, <2>5, Zenon DEF OneMore
<1>4. /\ KnownOf(s, ids) \in Seq(ClientSends)
      /\ KnownOf(t, ids) = KnownOf(s, ids) \o IfKnown(x, ids)
  <2> DEFINE f == [k \in 1..n |-> IfKnown(s[k], ids)]
             g == [k \in 1 .. n + 1 |-> IfKnown(t[k], ids)]
  <2>1. /\ f \in [1..n -> Seq(ClientSends)] /\ g \in [1 .. n + 1 -> Seq(ClientSends)]
        /\ \A k \in 1..n : g[k] = f[k]
        /\ g[n + 1] = IfKnown(x, ids)
    <3>1. \A p \in ClientSends : IfKnown(p, ids) \in Seq(ClientSends)
      BY DEF IfKnown
    <3> QED
      BY <1>0, <1>1, <3>1
  <2>2. KnownOf(s, ids) = FlattenSeq(f) /\ KnownOf(t, ids) = FlattenSeq(g)
    <3>1. ASSUME NEW u, NEW m, DOMAIN u = 1..m
          PROVE  KnownOf(u, ids) = FlattenSeq([k \in 1..m |-> IfKnown(u[k], ids)])
      <4> DEFINE which == {k \in DOMAIN u : u[k].id \in ids}
      <4>1. \A k \in 1..m : k \in which <=> u[k].id \in ids
        BY <3>1
      <4> HIDE DEF which
      <4>2. \A k \in 1..m : (IF k \in which THEN <<u[k]>> ELSE <<>>) = IfKnown(u[k], ids)
        BY <4>1, Zenon DEF IfKnown
      <4>3. [k \in 1..m |-> IF k \in which THEN <<u[k]>> ELSE <<>>] =
              [k \in 1..m |-> IfKnown(u[k], ids)]
        BY <4>2, Zenon
      <4>4. Only(u, which) = FlattenSeq([k \in 1..m |-> IF k \in which THEN <<u[k]>> ELSE <<>>])
        BY <3>1, Zenon DEF Only
      <4> QED
        BY <4>3, <4>4, Zenon DEF KnownOf, which
    <3> QED
      BY <1>1, <3>1, Zenon
  <2> HIDE DEF f, g
  <2>3. /\ f \in Seq(Seq(ClientSends)) /\ g[n + 1] \in Seq(ClientSends)
        /\ OneMore(f, g, g[n + 1])
    BY <1>1, <2>1, MappedAppend, Zenon
  <2>4. FlattenSeq(Append(f, g[n + 1])) = FlattenSeq(f) \o g[n + 1]
    BY <2>3, FlattenAppend
  <2>5. FlattenSeq(f) \in Seq(ClientSends)
    BY <2>3, FlattenType
  <2> QED
    BY <2>1, <2>2, <2>3, <2>4, <2>5, Zenon DEF OneMore
<1> QED
  BY <1>3, <1>4, Zenon DEF LastSent, t

\* What is put in the queue of one packet more
LEMMA RepliedAppend ==
    ASSUME WireAssumption, NEW s \in Seq(ServerSends), NEW x \in ServerSends
    PROVE  Outgoing(s) \in Seq(Byte) /\ LastReplied(s, x)
<1> DEFINE n == Len(s)
           t == Append(s, x)
<1>1. /\ n \in Nat /\ DOMAIN s = 1..n /\ DOMAIN t = 1 .. n + 1 /\ t[n + 1] = x
      /\ \A k \in 1..n : t[k] = s[k] /\ s[k] \in ServerSends
      /\ \A k \in 1 .. n + 1 : t[k] \in ServerSends
  BY AppendProperties, LenProperties, ElementOfSeq
<1> HIDE DEF n, t
<1>0. n + 1 \in 1 .. n + 1 /\ \A k \in 1..n : k \in 1 .. n + 1
  BY <1>1
<1>2. \A p \in ServerSends : Replied(p) \in Seq(Byte)
  BY RepliedBytes
<1> DEFINE f == [k \in 1..n |-> Replied(s[k])]
           g == [k \in 1 .. n + 1 |-> Replied(t[k])]
<1>3. /\ f \in [1..n -> Seq(Byte)] /\ g \in [1 .. n + 1 -> Seq(Byte)]
      /\ \A k \in 1..n : g[k] = f[k]
      /\ g[n + 1] = Replied(x)
  BY <1>0, <1>1, <1>2
<1>4. Outgoing(s) = FlattenSeq(f) /\ Outgoing(t) = FlattenSeq(g)
  BY <1>1, Zenon DEF Outgoing
<1> HIDE DEF f, g
<1>5. f \in Seq(Seq(Byte)) /\ g[n + 1] \in Seq(Byte) /\ OneMore(f, g, g[n + 1])
  BY <1>1, <1>3, MappedAppend, Zenon
<1>6. FlattenSeq(Append(f, g[n + 1])) = FlattenSeq(f) \o g[n + 1]
  BY <1>5, FlattenAppend
<1>7. FlattenSeq(f) \in Seq(Byte)
  BY <1>5, FlattenType
<1> QED
  BY <1>3, <1>4, <1>5, <1>6, <1>7, Zenon DEF OneMore, LastReplied, t

\* Of no packets
LEMMA NoPackets ==
    ASSUME NEW ids
    PROVE  Written(<<>>) = <<>> /\ KnownOf(<<>>, ids) = <<>> /\ Outgoing(<<>>) = <<>>
<1>1. DOMAIN <<>> = {}
  OBVIOUS
<1>2. [k \in DOMAIN <<>> |-> Packet(<<>>[k].id, ClientBody(<<>>[k]))] = <<>>
  BY <1>1
<1>3. [k \in DOMAIN <<>> |-> Replied(<<>>[k])] = <<>>
  BY <1>1
<1> QED
  BY <1>2, <1>3, FlattenEmpty, OnlyNothing, Zenon DEF Written, Outgoing, KnownOf

\* Some packets after others
SentBoth(a, b, ids) ==
    /\ Written(a \o b) = Written(a) \o Written(b)
    /\ KnownOf(a \o b, ids) = KnownOf(a, ids) \o KnownOf(b, ids)

LEMMA SentConcat ==
    ASSUME WireAssumption, NEW a \in Seq(ClientSends), NEW b \in Seq(ClientSends), NEW ids
    PROVE  SentBoth(a, b, ids)
<1> DEFINE Good == {n \in Nat : \A s \in Seq(ClientSends) : Len(s) = n => SentBoth(a, s, ids)}
<1>0. ASSUME NEW s \in Seq(ClientSends)
      PROVE  Written(s) \in Seq(Byte) /\ KnownOf(s, ids) \in Seq(ClientSends)
  <2>1. CASE s = <<>>
    <3>1. Written(s) = <<>> /\ KnownOf(s, ids) = <<>>
      BY <2>1, NoPackets
    <3> QED
      BY <3>1, EmptySeq
  <2>2. CASE s # <<>>
    <3>1. \E x : x \in ClientSends
      BY <2>2, SequenceEmptyOrAppend
    <3> QED
      BY <3>1, SentAppend, Zenon
  <2> QED
    BY <2>1, <2>2
<1>1. 0 \in Good
  <2> SUFFICES ASSUME NEW s \in Seq(ClientSends), Len(s) = 0 PROVE SentBoth(a, s, ids)
    OBVIOUS
  <2>1. s = <<>>
    BY EmptySeq
  <2>2. a \o <<>> = a /\ Written(a) \o <<>> = Written(a) /\ KnownOf(a, ids) \o <<>> = KnownOf(a, ids)
    BY <1>0, ConcatEmptySeq
  <2> QED
    BY <2>1, <2>2, NoPackets, Zenon DEF SentBoth
<1>2. \A n \in Nat : n \in Good => n + 1 \in Good
  <2> SUFFICES ASSUME NEW n \in Nat, n \in Good PROVE n + 1 \in Good
    OBVIOUS
  <2> SUFFICES ASSUME NEW s \in Seq(ClientSends), Len(s) = n + 1 PROVE SentBoth(a, s, ids)
    OBVIOUS
  <2>1. s # <<>>
    BY EmptySeq
  <2>2. PICK r \in Seq(ClientSends), x \in ClientSends : s = Append(r, x)
    BY <2>1, SequenceEmptyOrAppend
  <2>3. Len(r) = n
    <3>1. Len(s) = Len(r) + 1 /\ Len(r) \in Nat
      BY <2>2, AppendProperties, LenProperties
    <3> QED
      BY <3>1
  <2>4. SentBoth(a, r, ids)
    BY <2>3
  <2> HIDE DEF Good
  <2>5. a \o r \in Seq(ClientSends) /\ Extends(a, r, x)
    BY ConcatProperties, AppendAfter
  <2>6. LastSent(a \o r, x, ids) /\ LastSent(r, x, ids)
    BY <2>5, SentAppend
  <2>7. Sent(x) \in Seq(Byte) /\ IfKnown(x, ids) \in Seq(ClientSends)
    <3>1. Sent(x) \in Seq(Byte)
      BY SentBytes
    <3>2. IfKnown(x, ids) \in Seq(ClientSends)
      BY DEF IfKnown
    <3> QED
      BY <3>1, <3>2
  <2>8. Joins(Written(a), Written(r), Sent(x))
    <3>1. Written(a) \in Seq(Byte) /\ Written(r) \in Seq(Byte)
      BY <1>0
    <3> QED
      BY <2>7, <3>1, Associative, Zenon
  <2>9. Joins(KnownOf(a, ids), KnownOf(r, ids), IfKnown(x, ids))
    <3>1. KnownOf(a, ids) \in Seq(ClientSends) /\ KnownOf(r, ids) \in Seq(ClientSends)
      BY <1>0
    <3> QED
      BY <2>7, <3>1, Associative, Zenon
  <2> QED
    BY <2>2, <2>4, <2>5, <2>6, <2>8, <2>9, Zenon DEF SentBoth, LastSent, Extends, Joins
<1> HIDE DEF Good
<1>3. Len(b) \in Good
  BY <1>1, <1>2, Induction, LenProperties
<1> QED
  BY <1>3 DEF Good

\* Some replies after others
RepliedBoth(a, b) == Outgoing(a \o b) = Outgoing(a) \o Outgoing(b)

LEMMA RepliedConcat ==
    ASSUME WireAssumption, NEW a \in Seq(ServerSends), NEW b \in Seq(ServerSends)
    PROVE  RepliedBoth(a, b) /\ Outgoing(a) \in Seq(Byte)
<1> DEFINE Good == {n \in Nat : \A s \in Seq(ServerSends) : Len(s) = n => RepliedBoth(a, s)}
<1>0. ASSUME NEW s \in Seq(ServerSends) PROVE Outgoing(s) \in Seq(Byte)
  <2>1. CASE s = <<>>
    <3>1. Outgoing(s) = <<>>
      BY <2>1, NoPackets
    <3> QED
      BY <3>1, EmptySeq
  <2>2. CASE s # <<>>
    <3>1. \E x : x \in ServerSends
      BY <2>2, SequenceEmptyOrAppend
    <3> QED
      BY <3>1, RepliedAppend, Zenon
  <2> QED
    BY <2>1, <2>2
<1>1. 0 \in Good
  <2> SUFFICES ASSUME NEW s \in Seq(ServerSends), Len(s) = 0 PROVE RepliedBoth(a, s)
    OBVIOUS
  <2>1. s = <<>>
    BY EmptySeq
  <2>2. a \o <<>> = a /\ Outgoing(a) \o <<>> = Outgoing(a)
    BY <1>0, ConcatEmptySeq
  <2> QED
    BY <2>1, <2>2, NoPackets, Zenon DEF RepliedBoth
<1>2. \A n \in Nat : n \in Good => n + 1 \in Good
  <2> SUFFICES ASSUME NEW n \in Nat, n \in Good PROVE n + 1 \in Good
    OBVIOUS
  <2> SUFFICES ASSUME NEW s \in Seq(ServerSends), Len(s) = n + 1 PROVE RepliedBoth(a, s)
    OBVIOUS
  <2>1. s # <<>>
    BY EmptySeq
  <2>2. PICK r \in Seq(ServerSends), x \in ServerSends : s = Append(r, x)
    BY <2>1, SequenceEmptyOrAppend
  <2>3. Len(r) = n
    <3>1. Len(s) = Len(r) + 1 /\ Len(r) \in Nat
      BY <2>2, AppendProperties, LenProperties
    <3> QED
      BY <3>1
  <2>4. RepliedBoth(a, r)
    BY <2>3
  <2> HIDE DEF Good
  <2>5. a \o r \in Seq(ServerSends) /\ Extends(a, r, x)
    BY ConcatProperties, AppendAfter
  <2>6. LastReplied(a \o r, x) /\ LastReplied(r, x)
    BY <2>5, RepliedAppend
  <2>7. Joins(Outgoing(a), Outgoing(r), Replied(x))
    <3>1. Outgoing(a) \in Seq(Byte) /\ Outgoing(r) \in Seq(Byte) /\ Replied(x) \in Seq(Byte)
      BY <1>0, RepliedBytes
    <3> QED
      BY <3>1, Associative, Zenon
  <2> QED
    BY <2>2, <2>4, <2>5, <2>6, <2>7, Zenon DEF RepliedBoth, LastReplied, Extends, Joins
<1> HIDE DEF Good
<1>3. Len(b) \in Good
  BY <1>1, <1>2, Induction, LenProperties
<1> QED
  BY <1>0, <1>3 DEF Good

\* One packet, and a sequence where it is at some place
Splits(s, n) ==
    /\ Take(s, n) \o Drop(s, n) = s
    /\ n < Len(s) => Take(s, n + 1) = Append(Take(s, n), s[n + 1])
                     /\ Drop(s, n) = <<s[n + 1]>> \o Drop(s, n + 1)

\* A sequence is what is taken of it and what is dropped.
LEMMA Split ==
    ASSUME NEW S, NEW s \in Seq(S), NEW n \in 0..Len(s)
    PROVE  /\ Take(s, n) \in Seq(S) /\ Drop(s, n) \in Seq(S)
           /\ Len(Take(s, n)) = n /\ Len(Drop(s, n)) = Len(s) - n
           /\ Splits(s, n)
<1> DEFINE l == Len(s)
           t == Take(s, n)
           d == Drop(s, n)
<1>1. l \in Nat /\ n \in Nat /\ n <= l /\ \A k \in 1..l : s[k] \in S
  BY LenProperties, ElementOfSeq
<1>2. t \in Seq(S) /\ Len(t) = n /\ \A k \in 1..n : t[k] = s[k]
  BY <1>1 DEF Take
<1>3. d \in Seq(S) /\ Len(d) = l - n /\ \A k \in 1 .. l - n : d[k] = s[k + n]
  BY <1>1 DEF Drop
<1> HIDE DEF t, d
<1>4. t \o d = s
  <2>1. /\ Len(s) = Len(t) + Len(d) /\ \A k \in 1..Len(t) : s[k] = t[k]
        /\ \A i \in 1..Len(d) : s[i + Len(t)] = d[i]
    BY <1>1, <1>2, <1>3
  <2>2. IsConcat(t, d, s)
    BY <1>2, <1>3, <2>1, ConcatIs, Zenon
  <2> QED
    BY <2>2 DEF IsConcat
<1>5. ASSUME n < l PROVE Take(s, n + 1) = Append(t, s[n + 1]) /\ d = <<s[n + 1]>> \o Drop(s, n + 1)
  <2> DEFINE t1 == Take(s, n + 1)
             d1 == Drop(s, n + 1)
             y == s[n + 1]
  <2>1. y \in S /\ n + 1 \in 1..l
    BY <1>1, <1>5
  <2>2. t1 \in Seq(S) /\ Len(t1) = n + 1 /\ \A k \in 1 .. n + 1 : t1[k] = s[k]
    BY <1>1, <2>1 DEF Take
  <2>3. d1 \in Seq(S) /\ Len(d1) = l - n - 1 /\ \A k \in 1 .. l - n - 1 : d1[k] = s[k + n + 1]
    BY <1>1, <2>1 DEF Drop
  <2> DEFINE one == <<y>>
  <2>4. one \in Seq(S) /\ Len(one) = 1 /\ one[1] = y
    BY <2>1
  <2>5. t1[n + 1] = y
    BY <2>1, <2>2
  <2> HIDE DEF t1, d1, y, one
  <2>6. /\ Append(t, y) \in Seq(S) /\ Len(Append(t, y)) = n + 1 /\ Append(t, y)[n + 1] = y
        /\ \A k \in 1..n : Append(t, y)[k] = t[k]
    BY <1>2, <2>1, AppendProperties
  <2>7. t1 = Append(t, y)
    <3>1. \A k \in 1 .. n + 1 : t1[k] = Append(t, y)[k]
      <4> TAKE k \in 1 .. n + 1
      <4>1. k \in 1..n \/ k = n + 1
        BY <1>1
      <4> QED
        BY <1>2, <2>2, <2>5, <2>6, <4>1
    <3> QED
      BY <2>2, <2>6, <3>1, SeqEqual
  <2>8. d = one \o d1
    <3>1. /\ Len(d) = Len(one) + Len(d1) /\ \A k \in 1..Len(one) : d[k] = one[k]
          /\ \A i \in 1..Len(d1) : d[i + Len(one)] = d1[i]
      <4>1. Len(d) = 1 + Len(d1)
        BY <1>1, <1>3, <2>3
      <4>2. d[1] = y
        <5>1. 1 \in 1 .. l - n /\ 1 + n = n + 1
          BY <1>1, <1>5
        <5> QED
          BY <1>3, <5>1 DEF y
      <4>3. \A k \in 1..1 : k = 1
        OBVIOUS
      <4>4. \A i \in 1 .. l - n - 1 : d[i + 1] = d1[i]
        <5> TAKE i \in 1 .. l - n - 1
        <5>1. i + 1 \in 1 .. l - n /\ (i + 1) + n = i + n + 1
          BY <1>1, <1>5
        <5> QED
          BY <1>3, <2>3, <5>1
      <4> QED
        BY <2>3, <2>4, <4>1, <4>2, <4>3, <4>4
    <3>2. IsConcat(one, d1, d)
      BY <1>3, <2>3, <2>4, <3>1, ConcatIs, Zenon
    <3> QED
      BY <3>2 DEF IsConcat
  <2> QED
    BY <2>7, <2>8 DEF t1, d1, y, one
<1> QED
  BY <1>2, <1>3, <1>4, <1>5, Zenon DEF Splits, t, d

\* What is written of one packet and those after it
LEMMA NextPacket ==
    ASSUME WireAssumption, NEW s \in Seq(ClientSends), NEW n \in 0..Len(s), n < Len(s), NEW ids
    PROVE  /\ s[n + 1] \in ClientSends /\ n + 1 \in 0..Len(s)
           /\ Written(Drop(s, n)) = Sent(s[n + 1]) \o Written(Drop(s, n + 1))
           /\ Written(Drop(s, n + 1)) \in Seq(Byte)
           /\ KnownOf(Take(s, n + 1), ids) = KnownOf(Take(s, n), ids) \o IfKnown(s[n + 1], ids)
           /\ KnownOf(Take(s, n), ids) \in Seq(ClientSends)
<1> DEFINE p == s[n + 1]
           t == Take(s, n)
           d == Drop(s, n + 1)
           one == <<p>>
<1>1. Len(s) \in Nat /\ n + 1 \in 1..Len(s) /\ n + 1 \in 0..Len(s)
  BY LenProperties
<1>2. p \in ClientSends
  BY <1>1, ElementOfSeq
<1>3. /\ t \in Seq(ClientSends) /\ Splits(s, n)
      /\ d \in Seq(ClientSends)
  BY <1>1, Split, Zenon
<1>4. Take(s, n + 1) = Append(t, p) /\ Drop(s, n) = one \o d
  BY <1>3, Zenon DEF Splits
<1>5. one \in Seq(ClientSends) /\ one = Append(<<>>, p) /\ <<>> \in Seq(ClientSends)
  BY <1>2
<1> HIDE DEF p, t, d, one
<1>6. LastSent(t, p, ids) /\ KnownOf(t, ids) \in Seq(ClientSends) /\ LastSent(<<>>, p, ids)
  BY <1>2, <1>3, <1>5, SentAppend, Zenon
<1>7. SentBoth(one, d, ids)
  BY <1>3, <1>5, SentConcat, Zenon
<1>8. Written(one) = Sent(p)
  <2>1. Written(one) = <<>> \o Sent(p)
    BY <1>5, <1>6, NoPackets, Zenon DEF LastSent
  <2>2. <<>> \o Sent(p) = Sent(p)
    BY <1>2, SentBytes, ConcatEmptySeq, Zenon
  <2> QED
    BY <2>1, <2>2, Zenon
<1>9. Written(d) \in Seq(Byte)
  BY <1>2, <1>3, SentAppend, Zenon
<1> QED
  BY <1>1, <1>2, <1>4, <1>6, <1>7, <1>8, <1>9, Zenon DEF p, t, d, SentBoth, LastSent

\* What handlers were handed of packets
HandedAs(p) == [id |-> p.id, value |-> Handed(p)]
HandedOf(s) == [k \in DOMAIN s |-> HandedAs(s[k])]
HandedNext(s, x) == HandedOf(Append(s, x)) = Append(HandedOf(s), HandedAs(x))

LEMMA HandedAppend ==
    ASSUME NEW s \in Seq(ClientSends), NEW x \in ClientSends
    PROVE  HandedNext(s, x)
<1> DEFINE n == Len(s)
           t == Append(s, x)
           S == {HandedAs(p) : p \in ClientSends}
           f == HandedOf(s)
           g == HandedOf(t)
<1>1. /\ n \in Nat /\ DOMAIN s = 1..n /\ DOMAIN t = 1 .. n + 1 /\ t[n + 1] = x
      /\ \A k \in 1..n : t[k] = s[k] /\ s[k] \in ClientSends
      /\ \A k \in 1 .. n + 1 : t[k] \in ClientSends
  BY AppendProperties, LenProperties, ElementOfSeq
<1>0. n + 1 \in 1 .. n + 1 /\ \A k \in 1..n : k \in 1 .. n + 1
  BY <1>1
<1> HIDE DEF n, t
<1>2. f = [k \in 1..n |-> HandedAs(s[k])] /\ g = [k \in 1 .. n + 1 |-> HandedAs(t[k])]
  BY <1>1, Zenon DEF HandedOf
<1>3. \A p \in ClientSends : HandedAs(p) \in S
  BY Zenon
<1> HIDE DEF S, f, g
<1>4. /\ f \in [1..n -> S] /\ g \in [1 .. n + 1 -> S] /\ \A k \in 1..n : g[k] = f[k]
      /\ g[n + 1] = HandedAs(x)
  BY <1>0, <1>1, <1>2, <1>3
<1>5. OneMore(f, g, g[n + 1])
  BY <1>1, <1>4, MappedAppend, Zenon
<1> QED
  BY <1>4, <1>5, Zenon DEF OneMore, HandedNext, f, g, t

-----------------------------------------------------------------------------
(* The inductive invariant: the request has been read to the end of one of its    *)
(* packets, and what was written of replies is in the queue or was received.      *)

ReadTo(n) ==
    /\ handled = HandedOf(KnownOf(Take(sent, n), PacketMap))
    /\ at # "idle" => body = Written(Drop(sent, n))

WireIInv ==
    /\ playerRestricted \in BOOLEAN
    /\ posted \in 0..MaxPackets
    /\ sent \in Seq(ClientSends)
    /\ at \in {"idle", "reading", "handling"}
    /\ queue \in Seq(Seq(Byte)) /\ enqueued \in Seq(ServerSends) /\ received \in Seq(Byte)
    /\ Len(queue) <= Len(enqueued) /\ Len(enqueued) <= MaxReplies
    /\ received \o FlattenSeq(queue) = Outgoing(enqueued)
    /\ at = "idle" => body = <<>>
    /\ \E n \in 0..Len(sent) : ReadTo(n)

\* Before the first request nothing was sent, nothing read.
LEMMA WireInitInv ==
    ASSUME WireAssumption, WireInit
    PROVE  WireIInv
<1>1. /\ playerRestricted \in BOOLEAN /\ posted = 0 /\ sent = <<>> /\ at = "idle" /\ body = <<>>
      /\ handled = <<>> /\ queue = <<>> /\ enqueued = <<>> /\ received = <<>>
  BY Zenon DEF WireInit
<1>2. MaxPackets \in Nat /\ MaxReplies \in Nat
  BY DEF WireAssumption
<1>3. 0 \in 0..MaxPackets /\ Len(<<>>) = 0 /\ Len(<<>>) <= MaxReplies /\ 0 \in 0..Len(<<>>)
  BY <1>2
<1>4. /\ <<>> \in Seq(ClientSends) /\ <<>> \in Seq(Seq(Byte)) /\ <<>> \in Seq(ServerSends)
      /\ <<>> \in Seq(Byte) /\ <<>> \o <<>> = <<>> /\ DOMAIN <<>> = {}
  OBVIOUS
<1>5. Take(<<>>, 0) = <<>> /\ HandedOf(<<>>) = <<>>
  <2>1. [k \in DOMAIN <<>> |-> HandedAs(<<>>[k])] = <<>>
    BY <1>4
  <2>2. Take(<<>>, 0) = <<>>
    BY DEF Take
  <2> QED
    BY <2>1, <2>2, Zenon DEF HandedOf
<1>6. KnownOf(<<>>, PacketMap) = <<>> /\ Outgoing(<<>>) = <<>> /\ FlattenSeq(<<>>) = <<>>
  BY NoPackets, FlattenEmpty, Zenon
<1>7. ReadTo(0)
  BY <1>1, <1>5, <1>6, Zenon DEF ReadTo
<1>8. \E n \in 0..Len(sent) : ReadTo(n)
  BY <1>1, <1>3, <1>7, Zenon
<1>9. Len(queue) <= Len(enqueued) /\ Len(enqueued) <= MaxReplies
  BY <1>1, <1>3
<1>10. received \o FlattenSeq(queue) = Outgoing(enqueued)
  BY <1>1, <1>4, <1>6, Zenon
<1> QED
  BY <1>1, <1>3, <1>4, <1>8, <1>9, <1>10, Zenon DEF WireIInv

\* The packet after those that were read is what the server finds in the body.
Next1(n) == sent[n + 1]
Finds(n) ==
    /\ n \in 0..Len(sent) /\ n < Len(sent) /\ ReadTo(n)
    /\ HeaderId = Next1(n).id
    /\ HeaderLength = Len(ClientBody(Next1(n)))
    /\ AfterHeader = ClientBody(Next1(n)) \o Written(Drop(sent, n + 1))
    /\ Drop(AfterHeader, HeaderLength) = Written(Drop(sent, n + 1))

LEMMA AtHeader ==
    ASSUME WireAssumption, WireIInv, at = "reading", body # <<>>
    PROVE  \E n : Finds(n)
<1>1. sent \in Seq(ClientSends)
  BY Zenon DEF WireIInv
<1>2. PICK n \in 0..Len(sent) : ReadTo(n)
  BY Zenon DEF WireIInv
<1>3. at # "idle"
  OBVIOUS
<1>4. body = Written(Drop(sent, n))
  BY <1>2, <1>3, Zenon DEF ReadTo
<1>5. n < Len(sent)
  <2> SUFFICES ASSUME ~(n < Len(sent)) PROVE FALSE
    OBVIOUS
  <2>1. n = Len(sent) /\ Len(sent) \in Nat
    BY <1>1, LenProperties
  <2>2. Drop(sent, n) \in Seq(ClientSends) /\ Len(Drop(sent, n)) = Len(sent) - n
    BY <1>1, Split
  <2>3. Drop(sent, n) = <<>>
    BY <2>1, <2>2, EmptySeq
  <2> QED
    BY <1>4, <2>3, NoPackets
<1> DEFINE p == sent[n + 1]
           rest == Written(Drop(sent, n + 1))
           b == ClientBody(p)
<1>6. p \in ClientSends /\ body = Sent(p) \o rest /\ rest \in Seq(Byte)
  BY <1>1, <1>4, <1>5, NextPacket, Zenon
<1> HIDE DEF p, rest
<1>7. p.id \in 0..MaxU16 /\ b \in Seq(Byte) /\ Len(b) <= MaxI32
  BY <1>6, SentBytes, Zenon
<1>8. HeaderOf(p.id, Len(b), b, rest, body)
  BY <1>6, <1>7, HeaderRead, Zenon DEF Sent
<1>9. Finds(n)
  BY <1>2, <1>5, <1>8, Zenon DEF Finds, HeaderOf, HeaderId, HeaderLength, AfterHeader, Next1, p, rest
<1> QED
  BY <1>9

\* Every step of the loop, the handlers and the client keeps the invariant.
LEMMA WireNextInv ==
    ASSUME WireAssumption, WireIInv, [WireNext]_wireVars
    PROVE  WireIInv'
<1> DEFINE Rest == /\ queue \in Seq(Seq(Byte)) /\ enqueued \in Seq(ServerSends) /\ received \in Seq(Byte)
                   /\ Len(queue) <= Len(enqueued) /\ Len(enqueued) <= MaxReplies
                   /\ received \o FlattenSeq(queue) = Outgoing(enqueued)
           Begun == /\ playerRestricted \in BOOLEAN /\ posted \in 0..MaxPackets
                    /\ sent \in Seq(ClientSends)
           Reading == /\ at \in {"idle", "reading", "handling"}
                      /\ at = "idle" => body = <<>>
                      /\ \E n \in 0..Len(sent) : ReadTo(n)
<1>0. Begun /\ Rest /\ Reading
  BY Zenon DEF WireIInv
<1>1. WireIInv' <=> (Begun /\ Rest /\ Reading)'
  BY Zenon DEF WireIInv
<1> SUFFICES (Begun /\ Rest /\ Reading)'
  BY <1>1
<1>2. queue' = queue /\ enqueued' = enqueued /\ received' = received => Rest'
  BY <1>0, Zenon
<1>3. playerRestricted' = playerRestricted /\ posted' = posted /\ sent' = sent => Begun'
  BY <1>0, Zenon
<1>4. ASSUME playerRestricted' = playerRestricted, sent' = sent, at' = at, body' = body,
             handled' = handled
      PROVE  Reading'
  <2>1. \A n : ReadTo(n) => ReadTo(n)'
    BY <1>4, Zenon DEF ReadTo, PacketMap
  <2> QED
    BY <1>0, <1>4, <2>1, Zenon
<1>5. ASSUME NEW packets \in Requests, Post(packets) PROVE (Begun /\ Rest /\ Reading)'
  <2>1. PICK n \in 0..MaxPackets : packets \in [1..n -> ClientSends]
    BY Zenon DEF Requests
  <2>2. MaxPackets \in Nat
    BY Zenon DEF WireAssumption
  <2>3. packets \in Seq(ClientSends) /\ Len(packets) \in Nat
    BY <2>1, <2>2, SequenceOf
  <2>4. /\ posted' = posted + Len(packets) /\ posted' <= MaxPackets /\ sent' = packets
        /\ body' = Written(packets) /\ at' = "reading" /\ handled' = <<>>
        /\ UNCHANGED <<playerRestricted, queue, enqueued, received>>
    BY <1>5, Zenon DEF Post
  <2>5. posted' \in 0..MaxPackets
    <3> DEFINE l == Len(packets)
    <3>1. l \in Nat /\ posted \in 0..MaxPackets /\ posted' = posted + l /\ posted' <= MaxPackets
      BY <1>0, <2>3, <2>4
    <3> HIDE DEF l
    <3> QED
      BY <2>2, <3>1
  <2>6. Begun' /\ Rest'
    BY <1>0, <1>2, <2>3, <2>4, <2>5, Zenon
  <2>7. /\ Take(packets, 0) = <<>> /\ Drop(packets, 0) = packets /\ 0 \in 0..Len(packets)
    BY <2>3 DEF Take, Drop
  <2>8. HandedOf(<<>>) = <<>> /\ KnownOf(<<>>, PacketMap') = <<>>
    <3>1. [k \in DOMAIN <<>> |-> HandedAs(<<>>[k])] = <<>>
      OBVIOUS
    <3> QED
      BY <3>1, NoPackets, Zenon DEF HandedOf
  <2>9. ReadTo(0)'
    BY <2>4, <2>7, <2>8, Zenon DEF ReadTo
  <2>10. \E k \in 0..Len(sent') : ReadTo(k)'
    BY <2>4, <2>7, <2>9, Zenon
  <2>11. at' # "idle" /\ at' \in {"idle", "reading", "handling"}
    BY <2>4
  <2> QED
    BY <2>6, <2>10, <2>11, Zenon
<1>6. CASE Skip
  <2>1. /\ at = "reading" /\ body # <<>> /\ HeaderId \in Members \ PacketMap
        /\ body' = Drop(AfterHeader, HeaderLength)
        /\ UNCHANGED <<playerRestricted, posted, sent, at, handled, queue, enqueued, received>>
    BY <1>6, Zenon DEF Skip
  <2>2. PICK n : Finds(n)
    BY <2>1, AtHeader, Zenon
  <2> DEFINE known == KnownOf(Take(sent, n), PacketMap)
  <2>3. /\ n + 1 \in 0..Len(sent) /\ known \in Seq(ClientSends)
        /\ KnownOf(Take(sent, n + 1), PacketMap) = known \o IfKnown(Next1(n), PacketMap)
    BY <1>0, <2>2, NextPacket, Zenon DEF Finds, Next1
  <2>4. IfKnown(Next1(n), PacketMap) = <<>>
    <3>1. HeaderId \notin PacketMap
      BY <2>1
    <3> QED
      BY <2>2, <3>1, Zenon DEF Finds, IfKnown
  <2> HIDE DEF known
  <2>5. known \o <<>> = known
    BY <2>3, ConcatEmptySeq, Zenon
  <2>6. handled = HandedOf(known) /\ body' = Written(Drop(sent, n + 1))
    BY <2>1, <2>2, Zenon DEF Finds, ReadTo, known
  <2>7. PacketMap' = PacketMap
    BY <2>1, Zenon DEF PacketMap
  <2>8. ReadTo(n + 1)'
    BY <2>1, <2>3, <2>4, <2>5, <2>6, <2>7, Zenon DEF ReadTo
  <2>9. \E k \in 0..Len(sent') : ReadTo(k)'
    BY <2>1, <2>3, <2>8, Zenon
  <2>10. at' # "idle" /\ at' \in {"idle", "reading", "handling"}
    BY <2>1
  <2>11. Reading'
    BY <2>9, <2>10, Zenon
  <2>12. Rest' /\ Begun'
    BY <1>2, <1>3, <2>1, Zenon
  <2> QED
    BY <2>11, <2>12, Zenon
<1>7. CASE Read
  <2> DEFINE read == ReadPacket(HeaderId, AfterHeader, HeaderLength)
  <2>1. /\ at = "reading" /\ body # <<>> /\ HeaderId \in PacketMap
        /\ handled' = Append(handled, [id |-> HeaderId, value |-> read.value])
        /\ body' = read.rest /\ at' = "handling"
        /\ UNCHANGED <<playerRestricted, posted, sent, queue, enqueued, received>>
    BY <1>7, Zenon DEF Read, Hand
  <2>2. PICK n : Finds(n)
    BY <2>1, AtHeader, Zenon
  <2> DEFINE known == KnownOf(Take(sent, n), PacketMap)
             p == Next1(n)
             rest == Written(Drop(sent, n + 1))
  <2>3. /\ n + 1 \in 0..Len(sent) /\ known \in Seq(ClientSends) /\ p \in ClientSends
        /\ KnownOf(Take(sent, n + 1), PacketMap) = known \o IfKnown(p, PacketMap)
        /\ rest \in Seq(Byte)
    BY <1>0, <2>2, NextPacket, Zenon DEF Finds, Next1
  <2>4. IfKnown(p, PacketMap) = <<p>> /\ p.id \in Handled
    <3>1. p.id \in PacketMap
      BY <2>1, <2>2, Zenon DEF Finds
    <3>2. PacketMap \subseteq Handled
      BY DEF PacketMap, RestrictedIds, Handled, FieldPackets, I32Packets, EmptyPackets,
             ChannelNamePackets, ListPackets
    <3>3. p.id \in Handled
      BY <3>1, <3>2
    <3> QED
      BY <3>1, <3>3, Zenon DEF IfKnown
  <2>5. HeaderId = p.id /\ HeaderLength = Len(ClientBody(p)) /\ AfterHeader = ClientBody(p) \o rest
    BY <2>2, Zenon DEF Finds
  <2> HIDE DEF p, rest
  <2>6. read = Got(Handed(p), rest)
    <3>1. NumSlots \in Nat /\ IsClientPacket(p)
      BY <2>3, Zenon DEF WireAssumption
    <3>2. PacketRead(p, rest)
      BY <2>3, <2>4, <3>1, ClientPacketsRead, Zenon
    <3> QED
      BY <2>5, <3>2, Zenon DEF PacketRead
  <2> HIDE DEF read
  <2>7. read.value = Handed(p) /\ read.rest = rest
    BY <2>6 DEF Got
  <2> HIDE DEF known
  <2>8. known \o <<p>> = Append(known, p)
    BY <2>3, AppendIsConcat
  <2>9. HandedNext(known, p)
    BY <2>3, HandedAppend, Zenon
  <2>10. handled = HandedOf(known)
    BY <2>2, Zenon DEF Finds, ReadTo, known
  <2>11. handled' = HandedOf(Append(known, p))
    BY <2>1, <2>5, <2>7, <2>9, <2>10, Zenon DEF HandedNext, HandedAs
  <2>12. PacketMap' = PacketMap
    BY <2>1, Zenon DEF PacketMap
  <2>13. ReadTo(n + 1)'
    BY <2>1, <2>3, <2>4, <2>7, <2>8, <2>11, <2>12, Zenon DEF ReadTo, rest
  <2>14. \E k \in 0..Len(sent') : ReadTo(k)'
    BY <2>1, <2>3, <2>13, Zenon
  <2>15. at' # "idle" /\ at' \in {"idle", "reading", "handling"}
    BY <2>1
  <2>16. Reading'
    BY <2>14, <2>15, Zenon
  <2>17. Rest' /\ Begun'
    BY <1>2, <1>3, <2>1, Zenon
  <2> QED
    BY <2>16, <2>17, Zenon
<1>8. CASE Return
  <2>1. /\ at = "handling" /\ at' = "reading"
        /\ UNCHANGED <<playerRestricted, posted, sent, body, handled, queue, enqueued, received>>
    BY <1>8, Zenon DEF Return
  <2>2. at # "idle" /\ at' # "idle" /\ at' \in {"idle", "reading", "handling"}
    BY <2>1
  <2>3. \A n : ReadTo(n) => ReadTo(n)'
    BY <2>1, <2>2, Zenon DEF ReadTo, PacketMap
  <2>4. \E n \in 0..Len(sent') : ReadTo(n)'
    BY <1>0, <2>1, <2>3, Zenon
  <2>5. Reading'
    BY <2>1, <2>2, <2>4, Zenon
  <2>6. Rest' /\ Begun'
    BY <1>2, <1>3, <2>1, Zenon
  <2> QED
    BY <2>5, <2>6, Zenon
<1>9. CASE Raise
  <2>1. /\ at' = "idle" /\ body' = <<>>
        /\ UNCHANGED <<playerRestricted, posted, sent, handled, queue, enqueued, received>>
    BY <1>9, Zenon DEF Raise
  <2>2. at' \in {"idle", "reading", "handling"}
    BY <2>1
  <2>3. \A n : ReadTo(n) => ReadTo(n)'
    BY <2>1, Zenon DEF ReadTo, PacketMap
  <2>4. \E n \in 0..Len(sent') : ReadTo(n)'
    BY <1>0, <2>1, <2>3, Zenon
  <2>5. Reading'
    BY <2>1, <2>2, <2>4, Zenon
  <2>6. Rest' /\ Begun'
    BY <1>2, <1>3, <2>1, Zenon
  <2> QED
    BY <2>5, <2>6, Zenon
<1>10. CASE Answer
  <2>1. /\ at = "reading" /\ body = <<>> /\ received' = received \o FlattenSeq(queue) /\ queue' = <<>>
        /\ at' = "idle"
        /\ UNCHANGED <<playerRestricted, posted, sent, body, handled, enqueued>>
    BY <1>10, Zenon DEF Answer
  <2>2. at' \in {"idle", "reading", "handling"} /\ body' = <<>>
    BY <2>1
  <2>3. \A n : ReadTo(n) => ReadTo(n)'
    BY <2>1, Zenon DEF ReadTo, PacketMap
  <2>4. Reading' /\ Begun'
    BY <1>0, <1>3, <2>1, <2>2, <2>3, Zenon
  <2>5. received \o FlattenSeq(queue) \in Seq(Byte)
    BY <1>0, FlattenType, ConcatProperties
  <2>6. received' \o <<>> = received' /\ received' \in Seq(Byte)
    BY <2>1, <2>5, ConcatEmptySeq, Zenon
  <2>7. received' \o FlattenSeq(queue') = Outgoing(enqueued')
    BY <1>0, <2>1, <2>6, FlattenEmpty, Zenon
  <2>8. queue' \in Seq(Seq(Byte)) /\ Len(queue') <= Len(enqueued')
    <3>1. queue' = <<>> /\ enqueued' = enqueued /\ Len(enqueued) \in Nat
      BY <1>0, <2>1, LenProperties
    <3> QED
      BY <3>1
  <2> QED
    BY <1>0, <2>1, <2>4, <2>6, <2>7, <2>8, Zenon
<1>11. ASSUME NEW p \in ServerSends, Enqueue(p) PROVE (Begun /\ Rest /\ Reading)'
  <2>1. /\ Len(enqueued) < MaxReplies /\ enqueued' = Append(enqueued, p)
        /\ queue' = Append(queue, Replied(p))
        /\ UNCHANGED <<playerRestricted, posted, sent, at, body, handled, received>>
    BY <1>11, Zenon DEF Enqueue, Replied
  <2>2. Reading' /\ Begun'
    BY <1>3, <1>4, <2>1, Zenon
  <2>3. Replied(p) \in Seq(Byte) /\ LastReplied(enqueued, p)
    BY <1>0, RepliedBytes, RepliedAppend, Zenon
  <2> DEFINE w == Replied(p)
             f == FlattenSeq(queue)
  <2>4. w \in Seq(Byte) /\ f \in Seq(Byte)
    BY <1>0, <2>3, FlattenType
  <2>5. FlattenSeq(Append(queue, w)) = f \o w
    <3>1. queue \in Seq(Seq(Byte))
      BY <1>0
    <3> HIDE DEF w
    <3> QED
      BY <2>4, <3>1, FlattenAppend
  <2> HIDE DEF w, f
  <2>6. Joins(received, f, w)
    BY <1>0, <2>4, Associative, Zenon
  <2>7. received' \o FlattenSeq(queue') = Outgoing(enqueued')
    BY <1>0, <2>1, <2>3, <2>5, <2>6, Zenon DEF Joins, LastReplied, w, f
  <2>8. /\ queue' \in Seq(Seq(Byte)) /\ Len(queue') = Len(queue) + 1
        /\ enqueued' \in Seq(ServerSends) /\ Len(enqueued') = Len(enqueued) + 1
    <3> DEFINE q == queue
               e == enqueued
    <3>1. q \in Seq(Seq(Byte)) /\ e \in Seq(ServerSends) /\ queue' = Append(q, w) /\ enqueued' = Append(e, p)
      BY <1>0, <2>1, Zenon DEF w
    <3> HIDE DEF q, e
    <3>2. /\ Append(q, w) \in Seq(Seq(Byte)) /\ Len(Append(q, w)) = Len(q) + 1
          /\ Append(e, p) \in Seq(ServerSends) /\ Len(Append(e, p)) = Len(e) + 1
      BY <2>4, <3>1, AppendProperties
    <3> QED
      BY <3>1, <3>2, Zenon DEF q, e
  <2>9. Len(queue') <= Len(enqueued') /\ Len(enqueued') <= MaxReplies
    <3> DEFINE a == Len(queue)
               b == Len(enqueued)
    <3>1. a \in Nat /\ b \in Nat /\ MaxReplies \in Nat /\ a <= b /\ b < MaxReplies
      BY <1>0, <2>1, LenProperties DEF WireAssumption
    <3> HIDE DEF a, b
    <3>2. a + 1 <= b + 1 /\ b + 1 <= MaxReplies
      BY <3>1
    <3> QED
      BY <2>8, <3>2, Zenon DEF a, b
  <2> QED
    BY <1>0, <2>1, <2>2, <2>7, <2>8, <2>9, Zenon
<1>12. CASE UNCHANGED wireVars
  <2>1. /\ playerRestricted' = playerRestricted /\ posted' = posted /\ sent' = sent /\ at' = at
        /\ body' = body /\ handled' = handled /\ queue' = queue /\ enqueued' = enqueued
        /\ received' = received
    BY <1>12, Zenon DEF wireVars
  <2> QED
    BY <1>2, <1>3, <1>4, <2>1, Zenon
<1> HIDE DEF Begun, Rest, Reading
<1> QED
  BY <1>5, <1>6, <1>7, <1>8, <1>9, <1>10, <1>11, <1>12, Zenon DEF WireNext

\* What there is a handler for, and no other packet, is known.
LEMMA KnownOnly ==
    ASSUME NEW s \in Seq(ClientSends), NEW ids
    PROVE  KnownOf(s, ids) \in Seq({p \in ClientSends : p.id \in ids})
<1> DEFINE K == {p \in ClientSends : p.id \in ids}
           n == Len(s)
           which == {k \in DOMAIN s : s[k].id \in ids}
           f == [k \in DOMAIN s |-> IF k \in which THEN <<s[k]>> ELSE <<>>]
<1>1. n \in Nat /\ DOMAIN s = 1..n /\ \A k \in 1..n : s[k] \in ClientSends
  BY LenProperties, ElementOfSeq
<1>2. \A k \in 1..n : (IF k \in which THEN <<s[k]>> ELSE <<>>) \in Seq(K)
  <2> TAKE k \in 1..n
  <2>1. CASE k \in which
    <3>1. s[k] \in K
      BY <1>1, <2>1
    <3> HIDE DEF K, which
    <3> QED
      BY <2>1, <3>1
  <2>2. CASE k \notin which
    <3> HIDE DEF K, which
    <3> QED
      BY <2>2
  <2> QED
    BY <2>1, <2>2
<1> HIDE DEF K, n, which
<1>3. f \in [1..n -> Seq(K)]
  BY <1>1, <1>2
<1> HIDE DEF f
<1>4. FlattenSeq(f) \in Seq(K)
  BY <1>1, <1>3, SequenceOf, FlattenType, Zenon
<1> QED
  BY <1>4, Zenon DEF KnownOf, Only, f, which, K

\* The types follow from it.
LEMMA WireInvTypes ==
    ASSUME WireAssumption, WireIInv
    PROVE  WireTypeOK
<1>1. /\ playerRestricted \in BOOLEAN /\ posted \in 0..MaxPackets
      /\ sent \in Seq(ClientSends) /\ at \in {"idle", "reading", "handling"}
      /\ Len(queue) <= Len(enqueued) /\ Len(enqueued) <= MaxReplies
  BY Zenon DEF WireIInv
<1>2. PICK n \in 0..Len(sent) : ReadTo(n)
  BY Zenon DEF WireIInv
<1>3. \A k \in DOMAIN sent : sent[k] \in ClientSends
  BY <1>1, ElementOfSeq, LenProperties
<1>4. \A k \in DOMAIN handled : handled[k].id \in Handled
  <2> DEFINE known == KnownOf(Take(sent, n), PacketMap)
             K == {p \in ClientSends : p.id \in PacketMap}
  <2>1. Take(sent, n) \in Seq(ClientSends)
    BY <1>1, Split
  <2>2. known \in Seq(K)
    BY <2>1, KnownOnly, Zenon
  <2>3. \A k \in DOMAIN known : known[k] \in K
    <3> HIDE DEF known, K
    <3> QED
      BY <2>2, ElementOfSeq, LenProperties
  <2>4. PacketMap \subseteq Handled
    BY DEF PacketMap, RestrictedIds, Handled, FieldPackets, I32Packets, EmptyPackets,
           ChannelNamePackets, ListPackets
  <2>5. \A k \in DOMAIN known : known[k].id \in Handled
    <3> HIDE DEF known
    <3> QED
      BY <2>3, <2>4
  <2>6. handled = HandedOf(known)
    BY <1>2, Zenon DEF ReadTo
  <2>7. \A p : HandedAs(p).id = p.id
    BY DEF HandedAs
  <2> HIDE DEF known
  <2> QED
    BY <2>5, <2>6, <2>7, Zenon DEF HandedOf
<1>5. \A k \in DOMAIN body : body[k] \in 0..255
  <2>1. body \in Seq(Byte)
    <3>1. CASE at = "idle"
      <4>1. body = <<>>
        BY <3>1, Zenon DEF WireIInv
      <4> QED
        BY <4>1, EmptySeq, Zenon
    <3>2. CASE at # "idle"
      <4>1. Drop(sent, n) \in Seq(ClientSends) /\ body = Written(Drop(sent, n))
        BY <1>1, <1>2, <3>2, Split, Zenon DEF ReadTo
      <4> DEFINE d == Drop(sent, n)
      <4>2. Written(d) \in Seq(Byte)
        <5>1. CASE d = <<>>
          BY <5>1, NoPackets, EmptySeq, Zenon
        <5>2. CASE d # <<>>
          <6>1. \E x : x \in ClientSends
            BY <4>1, <5>2, SequenceEmptyOrAppend
          <6> QED
            BY <4>1, <6>1, SentAppend, Zenon
        <5> QED
          BY <5>1, <5>2
      <4> QED
        BY <4>1, <4>2
    <3> QED
      BY <3>1, <3>2
  <2> QED
    BY <2>1, ElementOfSeq, LenProperties DEF Byte
<1> QED
  BY <1>1, <1>3, <1>4, <1>5, Zenon DEF WireTypeOK

\* A request that has no bytes left has no packets left.
LEMMA NothingLeft ==
    ASSUME WireAssumption, NEW s \in Seq(ClientSends), NEW n \in 0..Len(s),
           Written(Drop(s, n)) = <<>>
    PROVE  n = Len(s)
<1> SUFFICES ASSUME n < Len(s) PROVE FALSE
  BY LenProperties
<1> DEFINE w == Sent(s[n + 1])
           rest == Written(Drop(s, n + 1))
<1>1. s[n + 1] \in ClientSends /\ <<>> = w \o rest /\ rest \in Seq(Byte)
  BY NextPacket, Zenon
<1>2. w \in Seq(Byte) /\ Len(w) >= 7
  BY <1>1, SentBytes, Zenon
<1> HIDE DEF w, rest
<1>3. Len(w \o rest) = Len(w) + Len(rest) /\ Len(rest) \in Nat /\ Len(w) \in Nat
  BY <1>1, <1>2, ConcatProperties, LenProperties, Zenon
<1>4. Len(w \o rest) = 0
  <2>1. Len(<<>>) = 0
    OBVIOUS
  <2> QED
    BY <1>1, <2>1, Zenon
<1> QED
  BY <1>2, <1>3, <1>4

LEMMA WireInvHandled ==
    ASSUME WireAssumption, WireIInv
    PROVE  HandledAreSent
<1> DEFINE known == Known(sent)
<1>1. sent \in Seq(ClientSends) /\ (at = "idle" => body = <<>>)
  BY Zenon DEF WireIInv
<1>2. PICK n \in 0..Len(sent) : ReadTo(n)
  BY Zenon DEF WireIInv
<1> DEFINE a == Take(sent, n)
           d == Drop(sent, n)
           first == KnownOf(a, PacketMap)
           others == KnownOf(d, PacketMap)
<1>3. a \in Seq(ClientSends) /\ d \in Seq(ClientSends) /\ a \o d = sent
  BY <1>1, Split, Zenon DEF Splits
<1>4. known = first \o others
  <2>1. SentBoth(a, d, PacketMap)
    BY <1>3, SentConcat, Zenon
  <2> QED
    BY <1>3, <2>1, Zenon DEF SentBoth, Known, KnownOf
<1>5. first \in Seq(ClientSends) /\ others \in Seq(ClientSends)
  <2>1. \A u \in Seq({p \in ClientSends : p.id \in PacketMap}) : u \in Seq(ClientSends)
    <3> DEFINE K == {p \in ClientSends : p.id \in PacketMap}
    <3>1. \A x \in K : x \in ClientSends
      BY Zenon
    <3> HIDE DEF K
    <3>2. \A u \in Seq(K) : u \in Seq(ClientSends)
      BY <3>1
    <3> QED
      BY <3>2 DEF K
  <2> QED
    BY <1>3, <2>1, KnownOnly, Zenon
<1>6. /\ handled = HandedOf(first) /\ (at # "idle" => body = Written(d))
  BY <1>2, Zenon DEF ReadTo
<1>7. n = Len(sent) => a = sent
  BY <1>1 DEF Take
<1>8. known = first \/ ~(at = "reading" /\ body = <<>>)
  <2> SUFFICES ASSUME at = "reading", body = <<>> PROVE known = first
    OBVIOUS
  <2>1. Written(d) = <<>>
    BY <1>6
  <2>2. n = Len(sent)
    BY <1>1, <2>1, NothingLeft, Zenon
  <2> QED
    BY <1>7, <2>2, Zenon DEF Known, KnownOf
<1> HIDE DEF known, first, others, a, d
<1>9. /\ Len(known) = Len(first) + Len(others) /\ Len(first) \in Nat /\ Len(others) \in Nat
      /\ DOMAIN first = 1..Len(first) /\ \A k \in 1..Len(first) : known[k] = first[k]
  <2>1. /\ Len(first \o others) = Len(first) + Len(others) /\ Len(first) \in Nat /\ Len(others) \in Nat
        /\ \A k \in 1 .. Len(first) + Len(others) :
             (first \o others)[k] = IF k <= Len(first) THEN first[k] ELSE others[k - Len(first)]
    BY <1>5, ConcatProperties, LenProperties, Zenon
  <2>2. \A k \in 1..Len(first) : (first \o others)[k] = first[k]
    BY <2>1
  <2>3. DOMAIN first = 1..Len(first)
    BY <1>5, LenProperties, Zenon
  <2> QED
    BY <1>4, <2>1, <2>2, <2>3, Zenon
<1>10. /\ DOMAIN handled = 1..Len(first) /\ Len(handled) = Len(first)
       /\ \A k \in 1..Len(first) : handled[k] = HandedAs(first[k])
  <2>1. handled = [k \in 1..Len(first) |-> HandedAs(first[k])]
    BY <1>6, <1>9, Zenon DEF HandedOf
  <2> DEFINE m == Len(first)
             S == {HandedAs(first[k]) : k \in 1..m}
  <2>2. m \in Nat /\ handled \in [1..m -> S]
    BY <1>9, <2>1
  <2> HIDE DEF m, S
  <2>3. Len(handled) = m
    BY <2>2, SequenceOf, Zenon
  <2> QED
    BY <2>1, <2>3 DEF m
<1>11. Len(handled) <= Len(known)
  BY <1>9, <1>10
<1>12. \A k \in DOMAIN handled : handled[k].id = known[k].id /\ handled[k].value = Handed(known[k])
  <2>1. \A p : HandedAs(p).id = p.id /\ HandedAs(p).value = Handed(p)
    BY DEF HandedAs
  <2> QED
    BY <1>9, <1>10, <2>1, Zenon
<1>13. at = "reading" /\ body = <<>> => Len(handled) = Len(known)
  BY <1>8, <1>10, Zenon
<1>14. at = "reading" => \E k \in 0..Len(sent) : body = Written(SubSeq(sent, k + 1, Len(sent)))
  <2>1. at = "reading" => body = Written(SubSeq(sent, n + 1, Len(sent)))
    <3>1. at = "reading" => at # "idle"
      OBVIOUS
    <3> QED
      BY <1>6, <3>1, Zenon DEF d, Drop
  <2> QED
    BY <1>2, <2>1, Zenon
<1> QED
  BY <1>11, <1>12, <1>13, <1>14, Zenon DEF HandledAreSent, known

-----------------------------------------------------------------------------
(* What the client reads of all the answers *)

\* What the client finds in packets
FoundAs(p) == [id |-> p.id, value |-> ToBeFound(p)]
FoundOf(s) == [k \in DOMAIN s |-> FoundAs(s[k])]
FoundNext(s, x) == FoundOf(Append(s, x)) = Append(FoundOf(s), FoundAs(x))

LEMMA FoundAppend ==
    ASSUME NEW s \in Seq(ServerSends), NEW x \in ServerSends
    PROVE  FoundNext(s, x)
<1> DEFINE n == Len(s)
           t == Append(s, x)
           S == {FoundAs(p) : p \in ServerSends}
           f == FoundOf(s)
           g == FoundOf(t)
<1>1. /\ n \in Nat /\ DOMAIN s = 1..n /\ DOMAIN t = 1 .. n + 1 /\ t[n + 1] = x
      /\ \A k \in 1..n : t[k] = s[k] /\ s[k] \in ServerSends
      /\ \A k \in 1 .. n + 1 : t[k] \in ServerSends
  BY AppendProperties, LenProperties, ElementOfSeq
<1>0. n + 1 \in 1 .. n + 1 /\ \A k \in 1..n : k \in 1 .. n + 1
  BY <1>1
<1> HIDE DEF n, t
<1>2. f = [k \in 1..n |-> FoundAs(s[k])] /\ g = [k \in 1 .. n + 1 |-> FoundAs(t[k])]
  BY <1>1, Zenon DEF FoundOf
<1>3. \A p \in ServerSends : FoundAs(p) \in S
  BY Zenon
<1> HIDE DEF S, f, g
<1>4. /\ f \in [1..n -> S] /\ g \in [1 .. n + 1 -> S] /\ \A k \in 1..n : g[k] = f[k]
      /\ g[n + 1] = FoundAs(x)
  BY <1>0, <1>1, <1>2, <1>3
<1>5. OneMore(f, g, g[n + 1])
  BY <1>1, <1>4, MappedAppend, Zenon
<1> QED
  BY <1>4, <1>5, Zenon DEF OneMore, FoundNext, f, g, t

\* What is written of one reply and those after it
LEMMA NextReply ==
    ASSUME WireAssumption, NEW s \in Seq(ServerSends), NEW n \in 0..Len(s), n < Len(s)
    PROVE  /\ s[n + 1] \in ServerSends /\ n + 1 \in 0..Len(s)
           /\ Outgoing(Drop(s, n)) = Replied(s[n + 1]) \o Outgoing(Drop(s, n + 1))
           /\ Outgoing(Drop(s, n + 1)) \in Seq(Byte)
           /\ Take(s, n) \in Seq(ServerSends) /\ Take(s, n + 1) = Append(Take(s, n), s[n + 1])
<1> DEFINE p == s[n + 1]
           t == Take(s, n)
           d == Drop(s, n + 1)
           one == <<p>>
<1>1. Len(s) \in Nat /\ n + 1 \in 1..Len(s) /\ n + 1 \in 0..Len(s)
  BY LenProperties
<1>2. p \in ServerSends
  BY <1>1, ElementOfSeq
<1>3. /\ t \in Seq(ServerSends) /\ Splits(s, n)
      /\ d \in Seq(ServerSends)
  BY <1>1, Split, Zenon
<1>4. Take(s, n + 1) = Append(t, p) /\ Drop(s, n) = one \o d
  BY <1>3, Zenon DEF Splits
<1>5. one \in Seq(ServerSends) /\ one = Append(<<>>, p) /\ <<>> \in Seq(ServerSends)
  BY <1>2
<1> HIDE DEF p, t, d, one
<1>6. LastReplied(<<>>, p)
  BY <1>2, <1>5, RepliedAppend, Zenon
<1>7. RepliedBoth(one, d)
  BY <1>3, <1>5, RepliedConcat, Zenon
<1>8. Outgoing(one) = Replied(p)
  <2>1. Outgoing(one) = <<>> \o Replied(p)
    BY <1>5, <1>6, NoPackets, Zenon DEF LastReplied
  <2>2. <<>> \o Replied(p) = Replied(p)
    BY <1>2, RepliedBytes, ConcatEmptySeq, Zenon
  <2> QED
    BY <2>1, <2>2, Zenon
<1>9. Outgoing(d) \in Seq(Byte)
  BY <1>2, <1>3, RepliedAppend, Zenon
<1> QED
  BY <1>1, <1>2, <1>3, <1>4, <1>7, <1>8, <1>9, Zenon DEF p, t, d, RepliedBoth

\* Every packet has seven bytes at least.
LEMMA RepliesLength ==
    ASSUME WireAssumption, NEW e \in Seq(ServerSends)
    PROVE  Outgoing(e) \in Seq(Byte) /\ 7 * Len(e) <= Len(Outgoing(e))
<1> DEFINE Good == {n \in Nat : \A s \in Seq(ServerSends) :
                      Len(s) = n => Outgoing(s) \in Seq(Byte) /\ 7 * n <= Len(Outgoing(s))}
<1>1. 0 \in Good
  <2> SUFFICES ASSUME NEW s \in Seq(ServerSends), Len(s) = 0
               PROVE  Outgoing(s) \in Seq(Byte) /\ 7 * 0 <= Len(Outgoing(s))
    OBVIOUS
  <2>1. s = <<>>
    BY EmptySeq
  <2>2. Outgoing(s) = <<>>
    BY <2>1, NoPackets
  <2> QED
    BY <2>2
<1>2. \A n \in Nat : n \in Good => n + 1 \in Good
  <2> SUFFICES ASSUME NEW n \in Nat, n \in Good PROVE n + 1 \in Good
    OBVIOUS
  <2> SUFFICES ASSUME NEW s \in Seq(ServerSends), Len(s) = n + 1
               PROVE  Outgoing(s) \in Seq(Byte) /\ 7 * (n + 1) <= Len(Outgoing(s))
    OBVIOUS
  <2>1. s # <<>>
    BY EmptySeq
  <2>2. PICK r \in Seq(ServerSends), x \in ServerSends : s = Append(r, x)
    BY <2>1, SequenceEmptyOrAppend
  <2>3. Len(r) = n
    <3>1. Len(s) = Len(r) + 1 /\ Len(r) \in Nat
      BY <2>2, AppendProperties, LenProperties
    <3> QED
      BY <3>1
  <2>4. Outgoing(r) \in Seq(Byte) /\ 7 * n <= Len(Outgoing(r))
    BY <2>3
  <2> HIDE DEF Good
  <2> DEFINE a == Outgoing(r)
             b == Replied(x)
  <2>5. Outgoing(s) = a \o b
    BY <2>2, RepliedAppend, Zenon DEF LastReplied
  <2>6. a \in Seq(Byte) /\ b \in Seq(Byte) /\ Len(b) >= 7 /\ 7 * n <= Len(a)
    BY <2>4, RepliedBytes, Zenon
  <2> HIDE DEF a, b
  <2>7. a \o b \in Seq(Byte) /\ Len(a \o b) = Len(a) + Len(b) /\ Len(a) \in Nat /\ Len(b) \in Nat
    BY <2>6, ConcatProperties, LenProperties, Zenon
  <2> DEFINE la == Len(a)
             lb == Len(b)
             ls == Len(a \o b)
  <2>8. 7 * (n + 1) <= ls
    <3>1. la \in Nat /\ lb \in Nat /\ ls = la + lb /\ lb >= 7 /\ 7 * n <= la
      BY <2>6, <2>7
    <3> HIDE DEF la, lb, ls
    <3> QED
      BY <3>1
  <2> QED
    BY <2>5, <2>7, <2>8, Zenon
<1> HIDE DEF Good
<1>3. Len(e) \in Nat /\ Len(e) \in Good
  BY <1>1, <1>2, Induction, LenProperties
<1> QED
  BY <1>3 DEF Good

\* The packet that is found next, after those that were found before
NextAnswer(before) ==
    LET next == before.rest
        id == Number(Take(next, 2), FALSE)
        length == Number(SubSeq(next, 4, 7), FALSE)
        found == ReadByClient(id, SubSeq(next, 8, 7 + length))
    IN IF next = <<>> THEN before
       ELSE Got(Append(before.value, [id |-> id, value |-> found.value]), Drop(next, 7 + length))

\* After n of the packets, and what there is to be found in them
After(e, n) == Got(FoundOf(Take(e, n)), Outgoing(Drop(e, n)))
OneAnswer(e, n) == NextAnswer(After(e, n)) = After(e, n + 1)

LEMMA AnswerFound ==
    ASSUME WireAssumption, NEW e \in Seq(ServerSends), NEW n \in 0..Len(e), n < Len(e)
    PROVE  OneAnswer(e, n)
<1> DEFINE p == e[n + 1]
           t == Take(e, n)
           rest == Outgoing(Drop(e, n + 1))
           content == PacketBody(p.id, p.values)
           s == Replied(p) \o rest
<1>1. /\ p \in ServerSends /\ Outgoing(Drop(e, n)) = s /\ rest \in Seq(Byte)
      /\ t \in Seq(ServerSends) /\ Take(e, n + 1) = Append(t, p)
  BY NextReply, Zenon
<1>2. FoundOf(Take(e, n + 1)) = Append(FoundOf(t), FoundAs(p))
  <2>1. FoundNext(t, p)
    BY <1>1, FoundAppend, Zenon
  <2> QED
    BY <1>1, <2>1, Zenon DEF FoundNext
<1> HIDE DEF p, t, rest
<1>3. /\ IsServerPacket(p) /\ p.id \in 0..MaxU16 /\ content \in Seq(Byte) /\ Len(content) <= MaxI32
      /\ Replied(p) \in Seq(Byte) /\ Len(Replied(p)) >= 7
  BY <1>1, RepliedBytes, Zenon
<1>4. HeaderOf(p.id, Len(content), content, rest, s)
  <2>1. Replied(p) = Packet(p.id, content)
    BY Zenon DEF Replied, WritePacket
  <2> QED
    BY <1>1, <1>3, <2>1, HeaderRead, Zenon
<1>5. ReadByClient(p.id, content).value = ToBeFound(p)
  <2>1. NumSlots \in Nat
    BY DEF WireAssumption
  <2> QED
    BY <1>3, <2>1, ServerPacketsRead, Zenon DEF Found
<1>6. s # <<>>
  <2> DEFINE w == Replied(p)
  <2>1. w \in Seq(Byte) /\ Len(w) >= 7
    BY <1>3
  <2> HIDE DEF w
  <2>3. w \o rest # <<>>
    <3>1. Len(w \o rest) = Len(w) + Len(rest) /\ Len(w) \in Nat /\ Len(rest) \in Nat
      BY <1>1, <2>1, ConcatProperties, LenProperties, Zenon
    <3>2. Len(w \o rest) # 0 /\ Len(<<>>) = 0
      BY <2>1, <3>1
    <3> QED
      BY <3>2, Zenon
  <2> QED
    BY <2>3 DEF w
<1> HIDE DEF s, content
<1> DEFINE before == After(e, n)
<1>7. before.value = FoundOf(t) /\ before.rest = s
  <2>1. before = Got(FoundOf(t), s)
    BY <1>1, Zenon DEF After, t
  <2> HIDE DEF before
  <2> QED
    BY <2>1 DEF Got
<1> HIDE DEF before
<1> DEFINE l == Len(content)
           found == ReadByClient(p.id, content)
<1>8. /\ Number(Take(s, 2), FALSE) = p.id /\ Number(SubSeq(s, 4, 7), FALSE) = l
      /\ SubSeq(s, 8, 7 + l) = content /\ Drop(s, 7 + l) = rest
  BY <1>4, Zenon DEF HeaderOf
<1> HIDE DEF l
<1>9. NextAnswer(before) = Got(Append(FoundOf(t), [id |-> p.id, value |-> found.value]), rest)
  BY <1>6, <1>7, <1>8, Zenon DEF NextAnswer
<1>10. [id |-> p.id, value |-> found.value] = FoundAs(p)
  BY <1>5, Zenon DEF FoundAs, content
<1> HIDE DEF found
<1>11. NextAnswer(before) = After(e, n + 1)
  BY <1>2, <1>9, <1>10, Zenon DEF After, rest
<1> QED
  BY <1>11, Zenon DEF OneAnswer, before

\* The functions that ReadAnswers may define
AnswersOf(b, n, f) ==
    f = [k \in 0..n |-> IF k = 0 THEN Got(<<>>, b) ELSE NextAnswer(f[k - 1])]

LEMMA AnswersAgree ==
    ASSUME NEW b, NEW n \in Nat, NEW f, NEW g, AnswersOf(b, n, f), AnswersOf(b, n, g)
    PROVE  f[n] = g[n]
<1>1. \A k \in 0..n : /\ f[k] = IF k = 0 THEN Got(<<>>, b) ELSE NextAnswer(f[k - 1])
                      /\ g[k] = IF k = 0 THEN Got(<<>>, b) ELSE NextAnswer(g[k - 1])
  BY Zenon DEF AnswersOf
<1> DEFINE Good == {k \in Nat : k <= n => f[k] = g[k]}
<1>2. 0 \in Good
  BY <1>1
<1>3. \A k \in Nat : k \in Good => k + 1 \in Good
  <2> SUFFICES ASSUME NEW k \in Nat, k \in Good, k + 1 <= n PROVE f[k + 1] = g[k + 1]
    OBVIOUS
  <2>1. k + 1 \in 0..n /\ k + 1 # 0 /\ k + 1 - 1 = k /\ f[k] = g[k]
    OBVIOUS
  <2> QED
    BY <1>1, <2>1
<1> HIDE DEF Good
<1>4. n \in Good
  BY <1>2, <1>3, Induction
<1> QED
  BY <1>4 DEF Good

\* The client finds in what was written of packets what there is to be found in them.
LEMMA AnswersRead ==
    ASSUME WireAssumption, NEW e \in Seq(ServerSends)
    PROVE  ReadAnswers(Outgoing(e)) = FoundOf(e)
<1> DEFINE b == Outgoing(e)
           m == Len(e)
           l == Len(b)
           n == l \div 7
           Place1(k) == IF k < m THEN k ELSE m
           g == [k \in 0..n |-> After(e, Place1(k))]
           f == CHOOSE h : AnswersOf(b, n, h)
<1>1. m \in Nat /\ l \in Nat /\ 7 * m <= l
  BY RepliesLength, LenProperties
<1>2. n \in Nat /\ m <= n
  <2> HIDE DEF m, l
  <2> QED
    BY <1>1
<1>3. Take(e, 0) = <<>> /\ Drop(e, 0) = e /\ Take(e, m) = e /\ Drop(e, m) = <<>>
  BY DEF Take, Drop
<1>4. FoundOf(<<>>) = <<>> /\ Outgoing(<<>>) = <<>>
  <2>1. [k \in DOMAIN <<>> |-> FoundAs(<<>>[k])] = <<>>
    OBVIOUS
  <2> QED
    BY <2>1, NoPackets, Zenon DEF FoundOf
<1>5. After(e, 0) = Got(<<>>, b) /\ After(e, m) = Got(FoundOf(e), <<>>)
  BY <1>3, <1>4, Zenon DEF After
<1>6. NextAnswer(After(e, m)) = After(e, m)
  <2> DEFINE a == After(e, m)
  <2>1. a.rest = <<>>
    <3>1. a = Got(FoundOf(e), <<>>)
      BY <1>5
    <3> HIDE DEF a
    <3> QED
      BY <3>1 DEF Got
  <2> HIDE DEF a
  <2>2. NextAnswer(a) = a
    BY <2>1, Zenon DEF NextAnswer
  <2> QED
    BY <2>2 DEF a
<1>7. \A k \in 0..m : k < m => NextAnswer(After(e, k)) = After(e, k + 1)
  BY AnswerFound, Zenon DEF OneAnswer
<1> HIDE DEF b, m, n
<1>8. AnswersOf(b, n, g)
  <2>1. \A k \in 0..n : g[k] = IF k = 0 THEN Got(<<>>, b) ELSE NextAnswer(g[k - 1])
    <3> TAKE k \in 0..n
    <3>1. CASE k = 0
      <4>1. Place1(k) = 0
        BY <1>1, <3>1
      <4>2. g[k] = After(e, 0)
        BY <4>1, Zenon
      <4> QED
        BY <1>5, <3>1, <4>2, Zenon
    <3>2. CASE k # 0
      <4>1. k - 1 \in 0..n
        BY <1>2, <3>2
      <4>2. g[k] = After(e, Place1(k)) /\ g[k - 1] = After(e, Place1(k - 1))
        BY <4>1, Zenon
      <4>3. CASE k <= m
        <5>1. Place1(k) = k /\ Place1(k - 1) = k - 1 /\ k - 1 \in 0..m /\ k - 1 < m /\ (k - 1) + 1 = k
          BY <1>1, <1>2, <3>2, <4>3
        <5> QED
          BY <1>7, <3>2, <4>2, <5>1, Zenon
      <4>4. CASE ~(k <= m)
        <5>1. Place1(k) = m /\ Place1(k - 1) = m
          BY <1>1, <1>2, <3>2, <4>4
        <5> QED
          BY <1>6, <3>2, <4>2, <5>1, Zenon
      <4> QED
        BY <4>3, <4>4
    <3> QED
      BY <3>1, <3>2
  <2>2. g = [k \in 0..n |-> g[k]]
    BY Zenon
  <2> HIDE DEF g
  <2>3. g = [k \in 0..n |-> IF k = 0 THEN Got(<<>>, b) ELSE NextAnswer(g[k - 1])]
    BY <2>1, <2>2, Zenon
  <2> QED
    BY <2>3, Zenon DEF AnswersOf
<1>9. AnswersOf(b, n, f)
  BY <1>8, Zenon
<1>10. ReadAnswers(b) = f[n].value
  BY Zenon DEF ReadAnswers, AnswersOf, NextAnswer, n, l
<1>11. f[n] = g[n]
  <2> HIDE DEF f, g
  <2> QED
    BY <1>2, <1>8, <1>9, AnswersAgree, Zenon
<1>12. g[n] = Got(FoundOf(e), <<>>)
  <2>1. Place1(n) = m /\ n \in 0..n
    BY <1>1, <1>2
  <2> QED
    BY <1>5, <2>1, Zenon
<1> HIDE DEF f, g
<1>13. g[n].value = FoundOf(e)
  BY <1>12 DEF Got
<1> QED
  BY <1>10, <1>11, <1>13, Zenon DEF b

\* What the client finds in the answers follows from it.
LEMMA WireInvReplies ==
    ASSUME WireAssumption, WireIInv
    PROVE  RepliesArrive
<1>1. enqueued \in Seq(ServerSends) /\ received \o FlattenSeq(queue) = Outgoing(enqueued)
  BY Zenon DEF WireIInv
<1>2. ReadAnswers(Outgoing(enqueued)) = FoundOf(enqueued)
  BY <1>1, AnswersRead, Zenon
<1> QED
  BY <1>1, <1>2, Zenon DEF RepliesArrive, FoundOf, FoundAs

-----------------------------------------------------------------------------
(* The theorems about requests and their answers *)

\* The state between two steps is such that what remains of the request is the rest
\* of what was sent, and what waits or was received is what was put in the queue.
THEOREM WireInvariant == WireSpec => []WireIInv
<1>1. WireInit => WireIInv
  BY WireAssumption, WireInitInv
<1>2. WireIInv /\ [WireNext]_wireVars => WireIInv'
  BY WireAssumption, WireNextInv
<1> QED
  BY <1>1, <1>2, PTL DEF WireSpec

\* Handlers are given packets they are for; bytes are bytes.
THEOREM WireTypes == WireSpec => []WireTypeOK
<1>1. WireIInv => WireTypeOK
  BY WireAssumption, WireInvTypes
<1> QED
  BY <1>1, WireInvariant, PTL

\* Whatever packets a client or handlers send: a request's packets are handed to
\* their handlers in order, each with what was sent in it, and the client finds in
\* the answers the packets that were put in the queue, once, in order and as written.
THEOREM PacketsAgree == WireSpec => []PacketsArrive
<1>1. WireIInv => PacketsArrive
  BY WireAssumption, WireInvHandled, WireInvReplies DEF PacketsArrive
<1> QED
  BY <1>1, WireInvariant, PTL

-----------------------------------------------------------------------------
(* The mode of what a player says to do *)

\* ChangeAction: the mode is one of the modes there are (7, relax mania, is not one of
\* them), it is a mode of relax just when the relax bit is in the mods, and it is that
\* of autopilot only when the bit of autopilot is; the mods are kept but for one of
\* these bits, which is cleared where it was set.
THEOREM ActionModes ==
    ASSUME NEW mods \in 0..MaxI32, NEW mode \in 0..3
    PROVE  LET read == ActionMode(mods, mode) IN
           /\ read[2] \in (0..6) \cup {8}
           /\ Relax(read[1]) <=> read[2] \in 4..6
           /\ read[2] = 8 => Autopilot(read[1])
           /\ read[2] \in 0..3 => ~Relax(read[1]) /\ (Autopilot(read[1]) => Relax(mods))
           /\ \/ read[1] = mods
              \/ Relax(mods) /\ read[1] = mods - 128 /\ read[1] >= 0
              \/ Autopilot(mods) /\ read[1] = mods - 8192 /\ read[1] >= 0
<1> DEFINE relax == mods \div 128
           auto == mods \div 8192
<1>0. mods \in Nat
  OBVIOUS
<1>1. relax \in Nat /\ auto \in Nat /\ mods \in Nat
  BY <1>0
<1>2. Relax(mods) <=> relax % 2 = 1
  BY Zenon DEF Relax
<1>3. Autopilot(mods) <=> auto % 2 = 1
  BY DEF Autopilot
<1>4. CASE Relax(mods)
  <2>1. mods >= 128 /\ ((mods - 128) \div 128) = relax - 1
    BY <1>1, <1>2, <1>4
  <2>2. ~Relax(mods - 128)
    <3>1. (relax - 1) % 2 = 0
      BY <1>1, <1>2, <1>4
    <3> QED
      BY <2>1, <3>1 DEF Relax
  <2>3. CASE mode = 3
    <3> DEFINE low == mods - 128
    <3>1. ActionMode(mods, mode) = <<low, mode>>
      BY <1>4, <2>3, Zenon DEF ActionMode
    <3>2. ~Relax(low) /\ low >= 0
      BY <1>1, <2>1, <2>2
    <3> QED
      BY <1>4, <2>3, <3>1, <3>2
  <2>4. CASE mode # 3
    <3>1. ActionMode(mods, mode) = <<mods, mode + 4>>
      BY <1>4, <2>4, Zenon DEF ActionMode
    <3> QED
      BY <1>1, <1>4, <2>4, <3>1
  <2> QED
    BY <2>3, <2>4
<1>5. CASE ~Relax(mods) /\ Autopilot(mods)
  <2>1. mods >= 8192 /\ (mods - 8192) \div 8192 = auto - 1 /\ (mods - 8192) \div 128 = relax - 64
    BY <1>1, <1>3, <1>5
  <2>2. ~Autopilot(mods - 8192) /\ ~Relax(mods - 8192)
    <3>1. (auto - 1) % 2 = 0 /\ (relax - 64) % 2 # 1
      BY <1>1, <1>2, <1>3, <1>5
    <3> QED
      BY <2>1, <3>1 DEF Relax, Autopilot
  <2>3. CASE mode \in 1..3
    <3> DEFINE low == mods - 8192
    <3>1. ActionMode(mods, mode) = <<low, mode>>
      BY <1>5, <2>3 DEF ActionMode
    <3>2. ~Relax(low) /\ ~Autopilot(low) /\ low >= 0
      BY <1>1, <2>1, <2>2
    <3> QED
      BY <1>5, <2>3, <3>1, <3>2
  <2>4. CASE mode = 0
    <3>1. ActionMode(mods, mode) = <<mods, mode + 8>>
      <4>1. mode \notin 1..3
        BY <2>4
      <4> QED
        BY <1>5, <4>1 DEF ActionMode
    <3> QED
      BY <1>1, <1>5, <2>4, <3>1
  <2> QED
    BY <2>3, <2>4
<1>6. CASE ~Relax(mods) /\ ~Autopilot(mods)
  <2>1. ActionMode(mods, mode) = <<mods, mode>>
    BY <1>6, Zenon DEF ActionMode
  <2> QED
    BY <1>1, <1>6, <2>1
<1> QED
  BY <1>4, <1>5, <1>6
=============================================================================
