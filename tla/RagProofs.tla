------------------------------- MODULE RagProofs -------------------------------
(***************************************************************************)
(* The knowledge base's algorithms (app/rag), for every value of their     *)
(* constants.                                                              *)
(*                                                                         *)
(* Part 1, cutting a document: no word is lost or doubled, no chunk is     *)
(* longer than its size, every chunk stands where its offsets say, and     *)
(* cutting ends.  SplitInv says what the calls hold of the document, in    *)
(* which order and how much of it at once; SplitPlaces says where in the   *)
(* document everything they hold stands.                                   *)
(*                                                                         *)
(* Part 2, searching: what searches may rely on although cache, embedder   *)
(* and stores are shared without a lock.  WriterInv says which chunks the  *)
(* store has at each stage of the writer, IndexInv where index and         *)
(* fingerprint come from, LabelInv where labels and vectors come from,     *)
(* FoundInv how the lists a search gathers grow.                           *)
(***************************************************************************)
EXTENDS Chunking, Retrieval, FiniteSetTheorems, WellFoundedInduction, TLAPS

-----------------------------------------------------------------------------
(* Part 1: cutting a document *)

(* Numbers *)

\* Numbers have a least one.
LEMMA LeastNat ==
  ASSUME NEW S \in SUBSET Nat, S # {}
  PROVE  \E n \in S : \A m \in S : n <= m
<1>1. PICK n \in S : \A m \in S : <<m, n>> \notin OpToRel(<, Nat)
  BY WFMin, NatLessThanWellFounded, Zenon
<1>2. ASSUME NEW m \in S PROVE ~(m < n)
  <2>1. <<m, n>> \in Nat \X Nat
    OBVIOUS
  <2>2. <<m, n>>[1] = m /\ <<m, n>>[2] = n
    OBVIOUS
  <2>3. <<m, n>> \notin OpToRel(<, Nat)
    BY <1>1
  <2>4. ASSUME m < n PROVE FALSE
    <3>1. <<m, n>>[1] < <<m, n>>[2]
      BY <2>2, <2>4
    <3> QED
      BY <3>1, <2>1, <2>3, Zenon DEF OpToRel
  <2> QED
    BY <2>4
<1> QED
  BY <1>2

LEMMA SmallestIs ==
  ASSUME NEW S \in SUBSET Nat, S # {}
  PROVE  Smallest(S) \in S /\ \A m \in S : Smallest(S) <= m
BY LeastNat DEF Smallest

LEMMA LargestIs ==
  ASSUME NEW n \in Nat, NEW S \in SUBSET (0..n), S # {}
  PROVE  Largest(S) \in S /\ \A m \in S : m <= Largest(S)
<1> DEFINE T == {n - m : m \in S}
<1>1. T \in SUBSET Nat /\ T # {}
  <2>1. ASSUME NEW m \in S PROVE n - m \in Nat
    OBVIOUS
  <2>2. PICK m \in S : TRUE
    OBVIOUS
  <2> QED
    BY <2>1, <2>2
<1>2. PICK k \in T : \A m \in T : k <= m
  BY <1>1, LeastNat
<1>3. PICK j \in S : k = n - j
  BY <1>2
<1>4. ASSUME NEW m \in S PROVE m <= j
  <2>1. n - m \in T
    BY <1>4
  <2> QED
    BY <1>2, <1>3, <2>1
<1> QED
  BY <1>4 DEF Largest

\* Induction from the end of a scan to its beginning.
LEMMA Downwards ==
  ASSUME NEW n \in Nat, NEW next \in [1..n -> 1..(n + 1)], NEW G, n + 1 \in G,
         \A i \in 1..n : next[i] > i /\ (next[i] \in G => i \in G)
  PROVE  \A i \in 1..(n + 1) : i \in G
<1> DEFINE Miss == (1..(n + 1)) \ G
<1> SUFFICES ASSUME Miss # {} PROVE FALSE
  OBVIOUS
<1>1. Miss \in SUBSET (0..(n + 1)) /\ n + 1 \in Nat
  OBVIOUS
<1>2. PICK k : k \in Miss /\ \A m \in Miss : m <= k
  BY <1>1, LargestIs
<1>3. k \in 1..n /\ next[k] \in 1..(n + 1) /\ next[k] > k
  BY <1>2
<1>4. next[k] \in G
  BY <1>2, <1>3
<1> QED
  BY <1>2, <1>3, <1>4

-----------------------------------------------------------------------------
(* Scans *)

Scanned(n, step, from) ==
  from = [i \in 1..(n + 1) |->
            IF i > n THEN <<>> ELSE step[i].found \o from[step[i].next]]

\* The same from k on.
ScannedOf(n, step, f, i) ==
  IF i > n THEN <<>> ELSE step[i].found \o f[step[i].next]
ScannedFrom(n, step, k, f) ==
  /\ f \in [k..(n + 1) -> {f[i] : i \in k..(n + 1)}]
  /\ \A i \in k..(n + 1) : f[i] = ScannedOf(n, step, f, i)

LEMMA ScanGoesBack ==
  ASSUME NEW n \in Nat, NEW step, NEW k \in 1..n, NEW f,
         \A i \in 1..n : step[i].next \in (i + 1)..(n + 1),
         ScannedFrom(n, step, k + 1, f)
  PROVE  \E g : ScannedFrom(n, step, k, g)
<1>1. PICK x : x = ScannedOf(n, step, f, k)
  OBVIOUS
<1>2. PICK g : g = [i \in k..(n + 1) |-> IF i = k THEN x ELSE f[i]]
  OBVIOUS
<1>3. /\ g \in [k..(n + 1) -> {g[i] : i \in k..(n + 1)}]
      /\ g[k] = x /\ \A i \in (k + 1)..(n + 1) : g[i] = f[i]
  BY <1>2
<1>4. ASSUME NEW i \in k..(n + 1) PROVE ScannedOf(n, step, g, i) = ScannedOf(n, step, f, i)
  <2>1. CASE i > n
    BY <2>1 DEF ScannedOf
  <2>2. CASE ~(i > n)
    <3>1. i \in 1..n
      BY <2>2
    <3>2. step[i].next \in (k + 1)..(n + 1)
      BY <3>1
    <3>3. g[step[i].next] = f[step[i].next]
      BY <1>3, <3>2
    <3> QED
      BY <3>3, Zenon DEF ScannedOf
  <2> QED
    BY <2>1, <2>2
<1>5. ASSUME NEW i \in k..(n + 1) PROVE g[i] = ScannedOf(n, step, g, i)
  <2>1. CASE i = k
    BY <1>1, <1>3, <1>4, <2>1
  <2>2. CASE i # k
    <3>1. i \in (k + 1)..(n + 1)
      BY <2>2
    <3>2. g[i] = f[i] /\ f[i] = ScannedOf(n, step, f, i)
      BY <1>3, <3>1 DEF ScannedFrom
    <3> QED
      BY <1>4, <3>2
  <2> QED
    BY <2>1, <2>2
<1> QED
  BY <1>3, <1>5 DEF ScannedFrom

\* A scan that moves on is defined.
LEMMA ScanDefined ==
  ASSUME NEW n \in Nat, NEW step,
         \A i \in 1..n : step[i].next \in (i + 1)..(n + 1)
  PROVE  \E from : /\ \A i \in 1..(n + 1) : from[i] = ScannedOf(n, step, from, i)
                   /\ Scan(n, step) = from[1]
<1> DEFINE G == {k \in 1..(n + 1) : \E f : ScannedFrom(n, step, k, f)}
           next == [i \in 1..n |-> i + 1]
<1>1. n + 1 \in G
  <2>1. PICK f : f = [i \in (n + 1)..(n + 1) |-> <<>>]
    OBVIOUS
  <2>2. ASSUME NEW i \in (n + 1)..(n + 1) PROVE f[i] = ScannedOf(n, step, f, i)
    <3>1. i > n /\ f[i] = <<>>
      BY <2>1
    <3> QED
      BY <3>1 DEF ScannedOf
  <2>3. ScannedFrom(n, step, n + 1, f)
    BY <2>1, <2>2 DEF ScannedFrom
  <2> QED
    BY <2>3
<1>2. ASSUME NEW k \in 1..n, k + 1 \in G PROVE k \in G
  <2>1. PICK f : ScannedFrom(n, step, k + 1, f)
    BY <1>2
  <2>2. \E g : ScannedFrom(n, step, k, g)
    BY <2>1, ScanGoesBack
  <2> QED
    BY <2>2
<1>3. next \in [1..n -> 1..(n + 1)] /\ \A i \in 1..n : next[i] = i + 1
  OBVIOUS
<1>4. \E f : ScannedFrom(n, step, 1, f)
  <2> HIDE DEF G, next
  <2>1. PICK nx, H : nx = next /\ H = G
    OBVIOUS
  <2>2. nx \in [1..n -> 1..(n + 1)] /\ n + 1 \in H
    BY <1>1, <1>3, <2>1
  <2>3. \A i \in 1..n : nx[i] > i /\ (nx[i] \in H => i \in H)
    BY <1>2, <1>3, <2>1
  <2>4. \A i \in 1..(n + 1) : i \in H
    BY <2>2, <2>3, Downwards
  <2>5. 1 \in G
    BY <2>1, <2>4
  <2> QED
    BY <2>5 DEF G
<1>5. PICK f : ScannedFrom(n, step, 1, f)
  BY <1>4
<1>6. Scanned(n, step, f)
  <2>1. PICK body : body = [i \in 1..(n + 1) |->
                      IF i > n THEN <<>> ELSE step[i].found \o f[step[i].next]]
    OBVIOUS
  <2>2. \A i \in 1..(n + 1) : body[i] = ScannedOf(n, step, f, i)
    BY <2>1 DEF ScannedOf
  <2>3. DOMAIN body = 1..(n + 1) /\ body = [i \in 1..(n + 1) |-> body[i]]
    BY <2>1
  <2>4. f = [i \in 1..(n + 1) |-> f[i]] /\ \A i \in 1..(n + 1) : f[i] = body[i]
    BY <1>5, <2>2 DEF ScannedFrom
  <2>5. f = body
    BY <2>3, <2>4
  <2> QED
    BY <2>1, <2>5 DEF Scanned
<1>7. PICK g : g = (CHOOSE h : Scanned(n, step, h))
  OBVIOUS
<1>8. Scanned(n, step, g)
  BY <1>6, <1>7
<1>9. Scan(n, step) = g[1]
  BY <1>7 DEF Scan, Scanned
<1>10. \A i \in 1..(n + 1) : g[i] = ScannedOf(n, step, g, i)
  BY <1>8 DEF Scanned, ScannedOf
<1> QED
  BY <1>9, <1>10
-----------------------------------------------------------------------------
(* Texts *)

InkText(t) == {t[i].at : i \in Inked(t)}
InkBetween(t, a, b) == {t[i].at : i \in {k \in Inked(t) : a <= k /\ k <= b}}

\* A text that starts and ends with a character that is not blank.
Trimmed(t) == t # <<>> /\ ~Blank(t[1]) /\ ~Blank(t[Len(t)])

\* The places of the characters of a text go up.
Rising(t) == \A i, j \in Inked(t) : i < j => t[i].at < t[j].at

\* s is t from a to b.
IsPart(s, t, a, b) ==
  /\ s \in Text /\ Len(s) = b - a + 1
  /\ \A i \in 1..Len(s) : s[i] = t[a + i - 1]

LEMMA SubSeqIsPart ==
  ASSUME NEW t \in Text, NEW a \in 1..(Len(t) + 1), NEW b \in (a - 1)..Len(t)
  PROVE  IsPart(SubSeq(t, a, b), t, a, b)
<1>1. Len(t) \in Nat /\ DOMAIN t = 1..Len(t) /\ \A i \in 1..Len(t) : t[i] \in Char
  BY DEF Text
<1>2. PICK s : s = SubSeq(t, a, b)
  OBVIOUS
<1>3. s = [i \in 1..(b - a + 1) |-> t[a + i - 1]]
  BY <1>1, <1>2 DEF Text
<1>4. b - a + 1 \in Nat /\ \A i \in 1..(b - a + 1) : a + i - 1 \in 1..Len(t)
  BY <1>1
<1>5. s \in Seq(Char) /\ Len(s) = b - a + 1 /\ \A i \in 1..Len(s) : s[i] = t[a + i - 1]
  BY <1>1, <1>3, <1>4
<1> QED
  BY <1>2, <1>5 DEF IsPart, Text

\* What the characters of a part are.
LEMMA PartInk ==
  ASSUME NEW t \in Text, NEW a \in 1..(Len(t) + 1), NEW b \in (a - 1)..Len(t),
         NEW s, IsPart(s, t, a, b)
  PROVE  /\ InkText(s) = InkBetween(t, a, b)
         /\ \A i \in 1..Len(s) : i \in Inked(s) <=> a + i - 1 \in Inked(t)
         /\ Rising(t) => Rising(s)
<1>1. /\ Len(t) \in Nat /\ DOMAIN t = 1..Len(t)
      /\ Len(s) \in Nat /\ DOMAIN s = 1..Len(s) /\ Len(s) = b - a + 1
      /\ \A i \in 1..Len(s) : s[i] = t[a + i - 1] /\ a + i - 1 \in 1..Len(t)
  BY DEF Text, IsPart
<1>2. ASSUME NEW i \in 1..Len(s) PROVE i \in Inked(s) <=> a + i - 1 \in Inked(t)
  BY <1>1 DEF Inked
<1>3. ASSUME NEW x \in InkText(s) PROVE x \in InkBetween(t, a, b)
  <2>1. PICK i \in Inked(s) : x = s[i].at
    BY <1>3 DEF InkText
  <2>2. i \in 1..Len(s)
    BY <1>1 DEF Inked
  <2>3. a + i - 1 \in Inked(t) /\ x = t[a + i - 1].at /\ a <= a + i - 1 /\ a + i - 1 <= b
    BY <1>1, <1>2, <2>1, <2>2
  <2> QED
    BY <2>3 DEF InkBetween
<1>4. ASSUME NEW x \in InkBetween(t, a, b) PROVE x \in InkText(s)
  <2>1. PICK k \in Inked(t) : a <= k /\ k <= b /\ x = t[k].at
    BY <1>4 DEF InkBetween
  <2>2. k \in 1..Len(t)
    BY <1>1 DEF Inked
  <2>3. PICK i \in 1..Len(s) : k = a + i - 1
    BY <1>1, <2>1, <2>2
  <2> QED
    BY <1>1, <1>2, <2>1, <2>3 DEF InkText
<1>5. ASSUME Rising(t), NEW i \in Inked(s), NEW j \in Inked(s), i < j PROVE s[i].at < s[j].at
  <2>1. i \in 1..Len(s) /\ j \in 1..Len(s)
    BY <1>1 DEF Inked
  <2>2. a + i - 1 \in Inked(t) /\ a + j - 1 \in Inked(t) /\ a + i - 1 < a + j - 1
    BY <1>2, <1>5, <2>1
  <2> QED
    BY <1>1, <1>5, <2>1, <2>2 DEF Rising
<1> QED
  BY <1>2, <1>3, <1>4, <1>5 DEF Rising

\* strip() leaves out what is blank at both ends.
LEMMA StripFacts ==
  ASSUME NEW t \in Text
  PROVE  /\ Inked(t) = {} => Strip(t) = <<>>
         /\ Inked(t) # {} =>
              \E a, b \in 1..Len(t) :
                /\ a <= b /\ a \in Inked(t) /\ b \in Inked(t)
                /\ \A i \in Inked(t) : a <= i /\ i <= b
                /\ Strip(t) = SubSeq(t, a, b)
                /\ Leading(t) = a - 1 /\ Trailing(t) = Len(t) - b
<1>1. Inked(t) \subseteq 1..Len(t) /\ Len(t) \in Nat
  BY DEF Inked, Text
<1>2. Inked(t) = {} => Strip(t) = <<>>
  BY DEF Strip
<1>3. ASSUME Inked(t) # {}
      PROVE  \E a, b \in 1..Len(t) :
                /\ a <= b /\ a \in Inked(t) /\ b \in Inked(t)
                /\ \A i \in Inked(t) : a <= i /\ i <= b
                /\ Strip(t) = SubSeq(t, a, b)
                /\ Leading(t) = a - 1 /\ Trailing(t) = Len(t) - b
  <2>1. PICK a, b : a = Smallest(Inked(t)) /\ b = Largest(Inked(t))
    OBVIOUS
  <2>2. a \in Inked(t) /\ \A i \in Inked(t) : a <= i
    <3>1. Inked(t) \in SUBSET Nat
      BY <1>1
    <3> QED
      BY <1>3, <2>1, <3>1, SmallestIs
  <2>3. b \in Inked(t) /\ \A i \in Inked(t) : i <= b
    <3>1. Inked(t) \in SUBSET (0..Len(t))
      BY <1>1
    <3> QED
      BY <1>1, <1>3, <2>1, <3>1, LargestIs
  <2>4. a \in 1..Len(t) /\ b \in 1..Len(t) /\ a <= b
    BY <1>1, <2>2, <2>3
  <2>5. /\ Strip(t) = SubSeq(t, a, b)
        /\ Leading(t) = a - 1 /\ Trailing(t) = Len(t) - b
    BY <1>3, <2>1 DEF Strip, Leading, Trailing
  <2> QED
    BY <2>2, <2>3, <2>4, <2>5
<1> QED
  BY <1>2, <1>3
\* Parts of parts.
LEMMA PartOfPart ==
  ASSUME NEW t \in Text, NEW a \in 1..(Len(t) + 1), NEW b \in (a - 1)..Len(t),
         NEW r, IsPart(r, t, a, b),
         NEW c \in 1..(Len(r) + 1), NEW d \in (c - 1)..Len(r),
         NEW s, IsPart(s, r, c, d)
  PROVE  IsPart(s, t, a + c - 1, a + d - 1)
<1>1. /\ Len(t) \in Nat /\ Len(r) = b - a + 1 /\ Len(s) = d - c + 1 /\ s \in Text
      /\ Len(r) \in Nat /\ Len(s) \in Nat
      /\ \A i \in 1..Len(r) : r[i] = t[a + i - 1]
      /\ \A i \in 1..Len(s) : s[i] = r[c + i - 1]
  <2>1. Len(r) = b - a + 1 /\ \A i \in 1..Len(r) : r[i] = t[a + i - 1]
    BY Zenon DEF IsPart
  <2>2. /\ Len(s) = d - c + 1 /\ s \in Text
        /\ \A i \in 1..Len(s) : s[i] = r[c + i - 1]
    BY Zenon DEF IsPart
  <2>3. Len(t) \in Nat
    BY DEF Text
  <2>4. Len(r) \in Nat /\ Len(s) \in Nat
    BY <2>1, <2>2, <2>3
  <2> QED
    BY <2>1, <2>2, <2>3, <2>4
<1>2. ASSUME NEW i \in 1..Len(s) PROVE s[i] = t[(a + c - 1) + i - 1]
  <2>1. c + i - 1 \in 1..Len(r) /\ a + (c + i - 1) - 1 = (a + c - 1) + i - 1
    BY <1>1
  <2> QED
    BY <1>1, <2>1
<1>3. Len(s) = (a + d - 1) - (a + c - 1) + 1
  BY <1>1
<1> QED
  BY <1>1, <1>2, <1>3 DEF IsPart

\* What is left of a part when it is stripped, c to d: all its ink.
StripsTo(s, t, a, b, c, d) ==
  /\ a <= c /\ c <= d /\ d <= b /\ c \in Inked(t) /\ d \in Inked(t)
  /\ IsPart(s, t, c, d) /\ Trimmed(s)
  /\ \A i \in Inked(t) : a <= i /\ i <= b => c <= i /\ i <= d

StripsAt(raw, t, a, b, c, d) ==
  /\ StripsTo(Strip(raw), t, a, b, c, d)
  /\ Leading(raw) = c - a /\ Trailing(raw) = b - d

LEMMA StrippedPart ==
  ASSUME NEW t \in Text, NEW a \in 1..(Len(t) + 1), NEW b \in (a - 1)..Len(t),
         NEW raw, raw = SubSeq(t, a, b)
  PROVE  \/ Strip(raw) = <<>> /\ \A i \in Inked(t) : ~(a <= i /\ i <= b)
         \/ \E c, d \in 1..Len(t) : StripsAt(raw, t, a, b, c, d)
<1>1. IsPart(raw, t, a, b)
  BY SubSeqIsPart
<1>2. /\ raw \in Text /\ Len(raw) = b - a + 1 /\ Len(t) \in Nat
      /\ Inked(t) \subseteq 1..Len(t) /\ Inked(raw) \subseteq 1..Len(raw)
  BY <1>1 DEF IsPart, Inked, Text
<1>3. \A i \in 1..Len(raw) : i \in Inked(raw) <=> a + i - 1 \in Inked(t)
  BY <1>1, PartInk
<1>4. ASSUME NEW i \in Inked(t), a <= i, i <= b PROVE i - a + 1 \in Inked(raw)
  <2>1. i - a + 1 \in 1..Len(raw) /\ a + (i - a + 1) - 1 = i
    BY <1>2, <1>4
  <2> QED
    BY <1>3, <2>1
<1>5. CASE Inked(raw) = {}
  BY <1>2, <1>4, <1>5, StripFacts
<1>6. CASE Inked(raw) # {}
  <2>1. PICK p, q \in 1..Len(raw) :
                /\ p <= q /\ p \in Inked(raw) /\ q \in Inked(raw)
                /\ \A i \in Inked(raw) : p <= i /\ i <= q
                /\ Strip(raw) = SubSeq(raw, p, q)
                /\ Leading(raw) = p - 1 /\ Trailing(raw) = Len(raw) - q
    BY <1>2, <1>6, StripFacts
  <2>2. PICK c, d : c = a + p - 1 /\ d = a + q - 1
    OBVIOUS
  <2>3. /\ a <= c /\ c <= d /\ d <= b /\ c \in 1..Len(t) /\ d \in 1..Len(t)
        /\ Leading(raw) = c - a /\ Trailing(raw) = b - d
    BY <1>2, <2>1, <2>2
  <2>4. c \in Inked(t) /\ d \in Inked(t)
    BY <1>3, <2>1, <2>2
  <2>5. PICK s : s = Strip(raw)
    OBVIOUS
  <2>6. IsPart(s, raw, p, q)
    <3>1. p \in 1..(Len(raw) + 1) /\ q \in (p - 1)..Len(raw)
      BY <1>2, <2>1
    <3> QED
      BY <1>2, <2>1, <2>5, <3>1, SubSeqIsPart
  <2>7. IsPart(s, t, c, d)
    <3>1. p \in 1..(Len(raw) + 1) /\ q \in (p - 1)..Len(raw)
      BY <1>2, <2>1
    <3> QED
      BY <1>1, <2>2, <2>6, <3>1, PartOfPart
  <2>8. Trimmed(s)
    <3>1. /\ s \in Text /\ Len(s) = d - c + 1 /\ Len(s) \in Nat /\ DOMAIN s = 1..Len(s)
          /\ \A i \in 1..Len(s) : s[i] = t[c + i - 1]
      BY <2>7 DEF IsPart, Text
    <3>2. s[1] = t[c] /\ s[Len(s)] = t[d] /\ s # <<>>
      BY <2>3, <3>1
    <3> QED
      BY <2>4, <3>2 DEF Trimmed, Inked
  <2>9. ASSUME NEW i \in Inked(t), a <= i, i <= b PROVE c <= i /\ i <= d
    <3>1. p <= i - a + 1 /\ i - a + 1 <= q
      BY <1>4, <2>1, <2>9
    <3> QED
      BY <1>2, <2>2, <3>1
  <2>10. StripsTo(s, t, a, b, c, d)
    BY <2>3, <2>4, <2>7, <2>8, <2>9 DEF StripsTo
  <2> QED
    BY <2>3, <2>5, <2>10 DEF StripsAt
<1> QED
  BY <1>5, <1>6

\* What that means for the ink.
LEMMA StrippedInk ==
  ASSUME NEW t \in Text, NEW a \in 1..(Len(t) + 1), NEW b \in (a - 1)..Len(t),
         NEW raw, raw = SubSeq(t, a, b)
  PROVE  /\ Strip(raw) \in Text /\ Len(Strip(raw)) <= b - a + 1
         /\ Strip(raw) = <<>> \/ Trimmed(Strip(raw))
         /\ InkText(Strip(raw)) = InkBetween(t, a, b)
         /\ Rising(t) => Rising(Strip(raw))
<1>1. CASE Strip(raw) = <<>> /\ \A i \in Inked(t) : ~(a <= i /\ i <= b)
  <2>1. Inked(<<>>) = {} /\ <<>> \in Text /\ Len(<<>>) = 0 /\ 0 <= b - a + 1
    BY DEF Inked, Text
  <2>2. InkText(<<>>) = {} /\ Rising(<<>>)
    BY <2>1 DEF InkText, Rising
  <2>3. InkBetween(t, a, b) = {}
    BY <1>1 DEF InkBetween
  <2> QED
    BY <1>1, <2>1, <2>2, <2>3
<1>2. ASSUME NEW c \in 1..Len(t), NEW d \in 1..Len(t),
             StripsTo(Strip(raw), t, a, b, c, d)
      PROVE  /\ Strip(raw) \in Text /\ Len(Strip(raw)) <= b - a + 1
             /\ Trimmed(Strip(raw))
             /\ InkText(Strip(raw)) = InkBetween(t, a, b)
             /\ Rising(t) => Rising(Strip(raw))
  <2>1. PICK s : s = Strip(raw)
    OBVIOUS
  <2>2. /\ a <= c /\ c <= d /\ d <= b /\ IsPart(s, t, c, d) /\ Trimmed(s)
        /\ \A i \in Inked(t) : a <= i /\ i <= b => c <= i /\ i <= d
    BY <1>2, <2>1 DEF StripsTo
  <2>3. c \in 1..(Len(t) + 1) /\ d \in (c - 1)..Len(t)
    BY <2>2 DEF Text
  <2>4. InkText(s) = InkBetween(t, c, d) /\ (Rising(t) => Rising(s))
    BY <2>2, <2>3, PartInk
  <2>5. InkBetween(t, c, d) = InkBetween(t, a, b)
    <3>1. \A i \in Inked(t) : (c <= i /\ i <= d) <=> (a <= i /\ i <= b)
      <4>1. Inked(t) \subseteq 1..Len(t)
        BY DEF Inked, Text
      <4> QED
        BY <2>2, <4>1
    <3> QED
      BY <3>1 DEF InkBetween
  <2>6. s \in Text /\ Len(s) = d - c + 1
    BY <2>2 DEF IsPart
  <2>7. Len(s) <= b - a + 1
    BY <2>2, <2>6 DEF Text
  <2> QED
    BY <2>1, <2>2, <2>4, <2>5, <2>6, <2>7
<1> QED
  BY <1>1, <1>2, StrippedPart DEF StripsAt
\* Every place in A comes before every place in B.
Precedes(A, B) == \A x \in A, y \in B : x < y

\* Texts one after the other.
LEMMA ConcatInk ==
  ASSUME NEW x \in Text, NEW y \in Text
  PROVE  /\ x \o y \in Text /\ Len(x \o y) = Len(x) + Len(y)
         /\ InkText(x \o y) = InkText(x) \cup InkText(y)
         /\ Rising(x) /\ Rising(y) /\ Precedes(InkText(x), InkText(y)) => Rising(x \o y)
         /\ Trimmed(x) /\ Trimmed(y) => Trimmed(x \o y)
<1>1. /\ Len(x) \in Nat /\ DOMAIN x = 1..Len(x) /\ Len(y) \in Nat /\ DOMAIN y = 1..Len(y)
  BY DEF Text
<1>2. PICK z : z = x \o y
  OBVIOUS
<1>3. /\ z \in Text /\ Len(z) = Len(x) + Len(y) /\ DOMAIN z = 1..(Len(x) + Len(y))
      /\ \A i \in 1..Len(x) : z[i] = x[i]
      /\ \A i \in 1..Len(y) : z[Len(x) + i] = y[i]
  BY <1>1, <1>2 DEF Text
<1>4. ASSUME NEW i \in Inked(z)
      PROVE  \/ i \in Inked(x) /\ z[i] = x[i]
             \/ i - Len(x) \in Inked(y) /\ z[i] = y[i - Len(x)]
  <2>1. i \in 1..(Len(x) + Len(y)) /\ ~Blank(z[i])
    BY <1>3 DEF Inked
  <2>2. CASE i <= Len(x)
    BY <1>1, <1>3, <2>1, <2>2 DEF Inked
  <2>3. CASE ~(i <= Len(x))
    <3>1. i - Len(x) \in 1..Len(y) /\ i = Len(x) + (i - Len(x))
      BY <1>1, <2>1, <2>3
    <3> QED
      BY <1>1, <1>3, <2>1, <3>1 DEF Inked
  <2> QED
    BY <2>2, <2>3
<1>5. /\ Inked(x) \subseteq 1..Len(x) /\ Inked(y) \subseteq 1..Len(y)
      /\ \A i \in Inked(x) : i \in Inked(z) /\ z[i] = x[i]
      /\ \A i \in Inked(y) : Len(x) + i \in Inked(z) /\ z[Len(x) + i] = y[i]
  <2>1. Inked(x) \subseteq 1..Len(x) /\ Inked(y) \subseteq 1..Len(y)
    BY <1>1 DEF Inked
  <2>2. ASSUME NEW i \in Inked(x) PROVE i \in Inked(z) /\ z[i] = x[i]
    BY <1>1, <1>3, <2>1 DEF Inked
  <2>3. ASSUME NEW i \in Inked(y) PROVE Len(x) + i \in Inked(z) /\ z[Len(x) + i] = y[i]
    BY <1>1, <1>3, <2>1 DEF Inked
  <2> QED
    BY <2>1, <2>2, <2>3
<1>6. InkText(z) = InkText(x) \cup InkText(y)
  <2>1. ASSUME NEW p \in InkText(z) PROVE p \in InkText(x) \cup InkText(y)
    BY <1>4 DEF InkText
  <2>2. ASSUME NEW p \in InkText(x) PROVE p \in InkText(z)
    BY <1>5 DEF InkText
  <2>3. ASSUME NEW p \in InkText(y) PROVE p \in InkText(z)
    <3>1. PICK i \in Inked(y) : p = y[i].at
      BY <2>3 DEF InkText
    <3>2. Len(x) + i \in Inked(z) /\ p = z[Len(x) + i].at
      BY <1>5, <3>1
    <3> QED
      BY <3>2 DEF InkText
  <2> QED
    BY <2>1, <2>2, <2>3
<1>7. ASSUME Rising(x), Rising(y), Precedes(InkText(x), InkText(y)),
             NEW i \in Inked(z), NEW j \in Inked(z), i < j
      PROVE  z[i].at < z[j].at
  <2>1. CASE i \in Inked(x) /\ z[i] = x[i] /\ j \in Inked(x) /\ z[j] = x[j]
    BY <1>7, <2>1 DEF Rising
  <2>2. CASE i \in Inked(x) /\ z[i] = x[i] /\ j - Len(x) \in Inked(y) /\ z[j] = y[j - Len(x)]
    <3>1. z[i].at \in InkText(x) /\ z[j].at \in InkText(y)
      BY <2>2 DEF InkText
    <3> QED
      BY <1>7, <3>1 DEF Precedes
  <2>3. CASE /\ i - Len(x) \in Inked(y) /\ z[i] = y[i - Len(x)]
             /\ j - Len(x) \in Inked(y) /\ z[j] = y[j - Len(x)]
    <3>1. i \in Nat /\ j \in Nat
      BY <1>3 DEF Inked
    <3>2. i - Len(x) < j - Len(x)
      BY <1>1, <1>7, <3>1
    <3> QED
      BY <1>7, <2>3, <3>2 DEF Rising
  <2>4. CASE i - Len(x) \in Inked(y) /\ j \in Inked(x)
    <3>1. i \in Nat /\ i - Len(x) \in 1..Len(y) /\ j \in 1..Len(x)
      BY <1>3, <1>5, <2>4 DEF Inked
    <3> QED
      BY <1>1, <1>7, <3>1
  <2> QED
    BY <1>4, <2>1, <2>2, <2>3, <2>4
<1>8. ASSUME Trimmed(x), Trimmed(y) PROVE Trimmed(z)
  <2>1. Len(x) >= 1 /\ Len(y) >= 1 /\ ~Blank(x[1]) /\ ~Blank(y[Len(y)])
    BY <1>1, <1>8 DEF Trimmed, Text
  <2>2. z[1] = x[1] /\ z[Len(z)] = y[Len(y)] /\ z # <<>>
    BY <1>1, <1>3, <2>1
  <2> QED
    BY <2>1, <2>2 DEF Trimmed
<1> QED
  BY <1>2, <1>3, <1>6, <1>7, <1>8 DEF Rising

Breaks == <<Break, Break>>

LEMMA BreaksFacts ==
  /\ Breaks \in Text /\ Len(Breaks) = 2 /\ InkText(Breaks) = {} /\ Rising(Breaks)
<1>1. 0 \in 0..MaxLength
  BY ChunkingAssumption
<1>2. Break \in Char /\ Blank(Break)
  BY <1>1 DEF Break, Char, CharClass, Blank
<1>3. Breaks \in Text /\ Len(Breaks) = 2 /\ DOMAIN Breaks = 1..2
      /\ Breaks[1] = Break /\ Breaks[2] = Break
  BY <1>2 DEF Breaks, Text
<1>4. Inked(Breaks) = {}
  BY <1>2, <1>3 DEF Inked
<1> QED
  BY <1>3, <1>4 DEF InkText, Rising

\* Two texts with line breaks between them.
LEMMA BrokenInk ==
  ASSUME NEW x \in Text, NEW y \in Text
  PROVE  /\ x \o <<Break, Break>> \in Text /\ x \o <<Break, Break>> \o y \in Text
         /\ Len(x \o <<Break, Break>>) = Len(x) + 2
         /\ Len(x \o <<Break, Break>> \o y) = Len(x) + 2 + Len(y)
         /\ InkText(x \o <<Break, Break>> \o y) = InkText(x) \cup InkText(y)
         /\ Rising(x) /\ Rising(y) /\ Precedes(InkText(x), InkText(y))
              => Rising(x \o <<Break, Break>> \o y)
         /\ Trimmed(x) /\ Trimmed(y) => Trimmed(x \o <<Break, Break>> \o y)
<1>1. PICK b : b = Breaks
  OBVIOUS
<1>2. b \in Text /\ Len(b) = 2 /\ InkText(b) = {} /\ Rising(b)
  BY <1>1, BreaksFacts
<1>3. Precedes(InkText(x), InkText(b))
  BY <1>2 DEF Precedes
<1>4. PICK xb : xb = x \o b
  OBVIOUS
<1>5. /\ xb \in Text /\ Len(xb) = Len(x) + 2 /\ InkText(xb) = InkText(x)
      /\ Rising(x) => Rising(xb)
  <2>1. /\ xb \in Text /\ Len(xb) = Len(x) + Len(b)
        /\ InkText(xb) = InkText(x) \cup InkText(b)
        /\ Rising(x) /\ Rising(b) /\ Precedes(InkText(x), InkText(b)) => Rising(xb)
    BY <1>2, <1>4, ConcatInk
  <2> QED
    BY <1>2, <1>3, <2>1
<1>6. PICK xy : xy = xb \o y
  OBVIOUS
<1>7. /\ xy \in Text /\ Len(xy) = Len(xb) + Len(y)
      /\ InkText(xy) = InkText(x) \cup InkText(y)
      /\ Rising(x) /\ Rising(y) /\ Precedes(InkText(x), InkText(y)) => Rising(xy)
  BY <1>5, <1>6, ConcatInk
<1>8. ASSUME Trimmed(x), Trimmed(y) PROVE Trimmed(xy)
  <2>1. /\ Len(x) \in Nat /\ Len(x) >= 1 /\ Len(y) \in Nat /\ Len(y) >= 1
        /\ ~Blank(x[1]) /\ ~Blank(y[Len(y)])
    BY <1>8 DEF Trimmed, Text
  <2>2. xb[1] = x[1]
    BY <1>2, <1>4, <2>1 DEF Text
  <2>3. xy[1] = x[1] /\ xy[Len(xy)] = y[Len(y)] /\ xy # <<>>
    BY <1>5, <1>6, <1>7, <2>1, <2>2 DEF Text
  <2> QED
    BY <2>1, <2>3 DEF Trimmed
<1>9. x \o <<Break, Break>> = xb /\ x \o <<Break, Break>> \o y = xy
  BY <1>1, <1>4, <1>6 DEF Breaks
<1> QED
  BY <1>5, <1>7, <1>8, <1>9
-----------------------------------------------------------------------------
(* Paragraphs and blocks, one after the other *)

Unit == {b \in Block : Trimmed(b.text)}

\* The ink of blocks goes up from one to the next, and within each.
Orderly(bs) ==
  /\ \A i \in DOMAIN bs : Rising(bs[i].text)
  /\ \A i, j \in DOMAIN bs : i < j => Precedes(InkOf(bs[i]), InkOf(bs[j]))

LEMMA InkOfIs == \A b : InkOf(b) = InkText(b.text)
  BY DEF InkOf, InkText

LEMMA UnitFields ==
  ASSUME NEW u \in Unit
  PROVE  u.text \in Text /\ u.start \in Nat /\ u.end \in Nat /\ Trimmed(u.text)
  BY DEF Unit, Block

LEMMA NoUnits ==
  <<>> \in Seq(Unit) /\ Held(<<>>) = {} /\ Orderly(<<>>)
  BY DEF Held, Orderly

LEMMA OneUnit ==
  ASSUME NEW u \in Unit
  PROVE  /\ <<u>> \in Seq(Unit) /\ Held(<<u>>) = InkOf(u)
         /\ Rising(u.text) => Orderly(<<u>>)
<1>1. PICK x : x = <<u>>
  OBVIOUS
<1>2. x \in Seq(Unit) /\ DOMAIN x = {1} /\ x[1] = u
  BY <1>1
<1> QED
  BY <1>1, <1>2 DEF Held, Orderly

LEMMA ConcatUnits ==
  ASSUME NEW x \in Seq(Unit), NEW y \in Seq(Unit)
  PROVE  /\ x \o y \in Seq(Unit) /\ Held(x \o y) = Held(x) \cup Held(y)
         /\ Orderly(x) /\ Orderly(y) /\ Precedes(Held(x), Held(y)) => Orderly(x \o y)
<1>1. /\ Len(x) \in Nat /\ DOMAIN x = 1..Len(x) /\ Len(y) \in Nat /\ DOMAIN y = 1..Len(y)
  OBVIOUS
<1>2. PICK z : z = x \o y
  OBVIOUS
<1>3. /\ z \in Seq(Unit) /\ DOMAIN z = 1..(Len(x) + Len(y))
      /\ \A i \in 1..Len(x) : z[i] = x[i]
      /\ \A i \in 1..Len(y) : z[Len(x) + i] = y[i]
  BY <1>1, <1>2
<1>4. ASSUME NEW i \in DOMAIN z
      PROVE  \/ i \in DOMAIN x /\ z[i] = x[i]
             \/ i - Len(x) \in DOMAIN y /\ z[i] = y[i - Len(x)]
  <2>1. i \in 1..(Len(x) + Len(y))
    BY <1>3
  <2>2. CASE i <= Len(x)
    BY <1>1, <1>3, <2>1, <2>2
  <2>3. CASE ~(i <= Len(x))
    <3>1. i - Len(x) \in 1..Len(y) /\ i = Len(x) + (i - Len(x))
      BY <1>1, <2>1, <2>3
    <3> QED
      BY <1>1, <1>3, <3>1
  <2> QED
    BY <2>2, <2>3
<1>5. /\ \A i \in DOMAIN x : i \in DOMAIN z /\ z[i] = x[i]
      /\ \A i \in DOMAIN y : Len(x) + i \in DOMAIN z /\ z[Len(x) + i] = y[i]
  BY <1>1, <1>3
<1>6. Held(z) = Held(x) \cup Held(y)
  <2>1. ASSUME NEW p \in Held(z) PROVE p \in Held(x) \cup Held(y)
    <3>1. PICK i \in DOMAIN z : p \in InkOf(z[i])
      BY <2>1 DEF Held
    <3> QED
      BY <1>4, <3>1 DEF Held
  <2>2. ASSUME NEW p \in Held(x) PROVE p \in Held(z)
    <3>1. PICK i \in DOMAIN x : p \in InkOf(x[i])
      BY <2>2 DEF Held
    <3> QED
      BY <1>5, <3>1 DEF Held
  <2>3. ASSUME NEW p \in Held(y) PROVE p \in Held(z)
    <3>1. PICK i \in DOMAIN y : p \in InkOf(y[i])
      BY <2>3 DEF Held
    <3>2. Len(x) + i \in DOMAIN z /\ p \in InkOf(z[Len(x) + i])
      BY <1>5, <3>1
    <3> QED
      BY <3>2 DEF Held
  <2> QED
    BY <2>1, <2>2, <2>3
<1>7. ASSUME Orderly(x), Orderly(y), Precedes(Held(x), Held(y)) PROVE Orderly(z)
  <2>1. \A i \in DOMAIN z : Rising(z[i].text)
    BY <1>4, <1>7 DEF Orderly
  <2>2. ASSUME NEW i \in DOMAIN z, NEW j \in DOMAIN z, i < j
        PROVE  Precedes(InkOf(z[i]), InkOf(z[j]))
    <3>0. i \in Nat /\ j \in Nat
      BY <1>3
    <3>1. CASE i \in DOMAIN x /\ z[i] = x[i] /\ j \in DOMAIN x /\ z[j] = x[j]
      BY <1>7, <2>2, <3>1 DEF Orderly
    <3>2. CASE i \in DOMAIN x /\ z[i] = x[i] /\ j - Len(x) \in DOMAIN y /\ z[j] = y[j - Len(x)]
      <4>1. InkOf(z[i]) \subseteq Held(x) /\ InkOf(z[j]) \subseteq Held(y)
        BY <3>2 DEF Held
      <4> QED
        BY <1>7, <4>1 DEF Precedes
    <3>3. CASE /\ i - Len(x) \in DOMAIN y /\ z[i] = y[i - Len(x)]
               /\ j - Len(x) \in DOMAIN y /\ z[j] = y[j - Len(x)]
      <4>1. i - Len(x) < j - Len(x)
        BY <1>1, <2>2, <3>0
      <4> QED
        BY <1>7, <3>3, <4>1 DEF Orderly
    <3>4. CASE i - Len(x) \in DOMAIN y /\ j \in DOMAIN x
      <4>1. i - Len(x) \in 1..Len(y) /\ j \in 1..Len(x)
        BY <1>1, <3>4
      <4> QED
        BY <1>1, <2>2, <3>0, <4>1
    <3> QED
      BY <1>4, <3>1, <3>2, <3>3, <3>4
  <2> QED
    BY <2>1, <2>2 DEF Orderly
<1> QED
  BY <1>2, <1>3, <1>6, <1>7

LEMMA AppendUnit ==
  ASSUME NEW x \in Seq(Unit), NEW u \in Unit
  PROVE  /\ Append(x, u) \in Seq(Unit) /\ Held(Append(x, u)) = Held(x) \cup InkOf(u)
         /\ Orderly(x) /\ Rising(u.text) /\ Precedes(Held(x), InkOf(u))
              => Orderly(Append(x, u))
<1>1. PICK y : y = <<u>>
  OBVIOUS
<1>2. y \in Seq(Unit) /\ Held(y) = InkOf(u) /\ (Rising(u.text) => Orderly(y))
  BY <1>1, OneUnit
<1>3. Append(x, u) = x \o y
  BY <1>1
<1> QED
  BY <1>2, <1>3, ConcatUnits

LEMMA HeadAndTail ==
  ASSUME NEW x \in Seq(Unit), x # <<>>
  PROVE  /\ Head(x) \in Unit /\ Tail(x) \in Seq(Unit)
         /\ Len(x) \in Nat /\ Len(Tail(x)) = Len(x) - 1
         /\ Held(x) = InkOf(Head(x)) \cup Held(Tail(x))
         /\ Orderly(x) => /\ Rising(Head(x).text) /\ Orderly(Tail(x))
                          /\ Precedes(InkOf(Head(x)), Held(Tail(x)))
<1>1. PICK h, y : h = Head(x) /\ y = Tail(x)
  OBVIOUS
<1>2. /\ h \in Unit /\ y \in Seq(Unit) /\ Len(x) \in Nat /\ Len(x) >= 1
      /\ DOMAIN x = 1..Len(x) /\ Len(y) = Len(x) - 1 /\ DOMAIN y = 1..(Len(x) - 1)
      /\ h = x[1] /\ \A i \in 1..(Len(x) - 1) : y[i] = x[i + 1]
  BY <1>1
<1>3. ASSUME NEW p \in Held(x) PROVE p \in InkOf(h) \cup Held(y)
  <2>1. PICK i \in DOMAIN x : p \in InkOf(x[i])
    BY <1>3 DEF Held
  <2>2. CASE i = 1
    BY <1>2, <2>1, <2>2
  <2>3. CASE i # 1
    <3>1. i - 1 \in DOMAIN y /\ y[i - 1] = x[i]
      BY <1>2, <2>1, <2>3
    <3> QED
      BY <2>1, <3>1 DEF Held
  <2> QED
    BY <2>2, <2>3
<1>4. InkOf(h) \subseteq Held(x)
  BY <1>2 DEF Held
<1>5. ASSUME NEW i \in DOMAIN y PROVE i + 1 \in DOMAIN x /\ 1 < i + 1 /\ y[i] = x[i + 1]
  BY <1>2
<1>6. ASSUME NEW p \in Held(y) PROVE \E i \in DOMAIN x : 1 < i /\ p \in InkOf(x[i])
  <2>1. PICK i \in DOMAIN y : p \in InkOf(y[i])
    BY <1>6 DEF Held
  <2> QED
    BY <1>5, <2>1
<1>7. Held(x) = InkOf(h) \cup Held(y)
  <2>1. Held(y) \subseteq Held(x)
    BY <1>6 DEF Held
  <2> QED
    BY <1>3, <1>4, <2>1
<1>8. ASSUME Orderly(x) PROVE Rising(h.text) /\ Orderly(y) /\ Precedes(InkOf(h), Held(y))
  <2>1. Rising(h.text)
    BY <1>2, <1>8 DEF Orderly
  <2>2. Orderly(y)
    <3>1. \A i \in DOMAIN y : Rising(y[i].text)
      BY <1>5, <1>8 DEF Orderly
    <3>2. ASSUME NEW i \in DOMAIN y, NEW j \in DOMAIN y, i < j
          PROVE  Precedes(InkOf(y[i]), InkOf(y[j]))
      <4>1. i + 1 < j + 1
        BY <1>2, <3>2
      <4> QED
        BY <1>5, <1>8, <4>1 DEF Orderly
    <3> QED
      BY <3>1, <3>2 DEF Orderly
  <2>3. Precedes(InkOf(h), Held(y))
    <3>1. ASSUME NEW a \in InkOf(h), NEW p \in Held(y) PROVE a < p
      <4>1. PICK i \in DOMAIN x : 1 < i /\ p \in InkOf(x[i])
        BY <1>6
      <4>2. Precedes(InkOf(x[1]), InkOf(x[i]))
        BY <1>2, <1>8, <4>1 DEF Orderly
      <4> QED
        BY <1>2, <4>1, <4>2 DEF Precedes
    <3> QED
      BY <3>1 DEF Precedes
  <2> QED
    BY <2>1, <2>2, <2>3
<1> QED
  BY <1>1, <1>2, <1>7, <1>8

\* Blocks in order have no ink in common.
LEMMA OrderlyIsDisjoint ==
  ASSUME NEW bs \in Seq(Unit), Orderly(bs),
         NEW i \in DOMAIN bs, NEW j \in DOMAIN bs, i # j
  PROVE  InkOf(bs[i]) \cap InkOf(bs[j]) = {}
<1>1. \A k \in DOMAIN bs : InkOf(bs[k]) \subseteq Nat
  <2>1. ASSUME NEW k \in DOMAIN bs PROVE InkOf(bs[k]) \subseteq Nat
    <3>1. PICK t : t = bs[k].text
      OBVIOUS
    <3>2. bs[k] \in Unit
      OBVIOUS
    <3>3. t \in Text
      BY <3>1, <3>2, UnitFields
    <3>4. ASSUME NEW m \in Inked(t) PROVE t[m].at \in Nat
      <4>1. t[m] \in Char
        BY <3>3 DEF Inked, Text
      <4> QED
        BY <4>1, ChunkingAssumption DEF Char
    <3> QED
      BY <3>1, <3>4 DEF InkOf
  <2> QED
    BY <2>1
<1>2. i < j \/ j < i
  OBVIOUS
<1>3. ASSUME NEW p \in InkOf(bs[i]), p \in InkOf(bs[j]) PROVE FALSE
  <2>1. p < p
    BY <1>2, <1>3 DEF Orderly, Precedes
  <2> QED
    BY <1>1, <2>1
<1> QED
  BY <1>3
-----------------------------------------------------------------------------
(* What scans find *)

\* From i on a scan finds the ink of ink[i], in order if ordered.
UnitsFound(f, ink, ordered, i) ==
  f[i] \in Seq(Unit) /\ Held(f[i]) = ink[i] /\ (ordered => Orderly(f[i]))

FindsUnits(n, step, ink, ordered) ==
  /\ ink[n + 1] = {}
  /\ \A i \in 1..n :
       /\ step[i].next \in (i + 1)..(n + 1)
       /\ step[i].found \in Seq(Unit)
       /\ ink[i] = Held(step[i].found) \cup ink[step[i].next]
       /\ ordered => /\ Orderly(step[i].found)
                     /\ Precedes(Held(step[i].found), ink[step[i].next])

LEMMA ScanUnits ==
  ASSUME NEW n \in Nat, NEW step, NEW ink, NEW ordered, FindsUnits(n, step, ink, ordered)
  PROVE  /\ Scan(n, step) \in Seq(Unit) /\ Held(Scan(n, step)) = ink[1]
         /\ ordered => Orderly(Scan(n, step))
<1>1. PICK f : /\ \A i \in 1..(n + 1) : f[i] = ScannedOf(n, step, f, i)
               /\ Scan(n, step) = f[1]
  BY ScanDefined DEF FindsUnits
<1>2. PICK G : G = {i \in 1..(n + 1) : UnitsFound(f, ink, ordered, i)}
  OBVIOUS
<1>3. n + 1 \in G
  <2>1. n + 1 \in 1..(n + 1) /\ n + 1 > n
    OBVIOUS
  <2>2. f[n + 1] = <<>>
    BY <1>1, <2>1 DEF ScannedOf
  <2>3. UnitsFound(f, ink, ordered, n + 1)
    BY <2>2, NoUnits DEF UnitsFound, FindsUnits
  <2> QED
    BY <1>2, <2>1, <2>3
<1>4. ASSUME NEW i \in 1..n, step[i].next \in G PROVE i \in G
  <2>1. PICK x, k : x = step[i].found /\ k = step[i].next
    OBVIOUS
  <2>2. /\ x \in Seq(Unit) /\ k \in 1..(n + 1) /\ ink[i] = Held(x) \cup ink[k]
        /\ ordered => Orderly(x) /\ Precedes(Held(x), ink[k])
    BY <2>1 DEF FindsUnits
  <2>3. f[k] \in Seq(Unit) /\ Held(f[k]) = ink[k] /\ (ordered => Orderly(f[k]))
    BY <1>2, <1>4, <2>1 DEF UnitsFound
  <2>4. f[i] = x \o f[k]
    <3>1. i \in 1..(n + 1) /\ ~(i > n)
      OBVIOUS
    <3> QED
      BY <1>1, <2>1, <3>1 DEF ScannedOf
  <2>5. UnitsFound(f, ink, ordered, i)
    BY <2>2, <2>3, <2>4, ConcatUnits DEF UnitsFound
  <2> QED
    BY <1>2, <2>5
<1>5. PICK nx : nx = [i \in 1..n |-> step[i].next]
  OBVIOUS
<1>6. nx \in [1..n -> 1..(n + 1)] /\ \A i \in 1..n : nx[i] = step[i].next /\ nx[i] > i
  BY <1>5 DEF FindsUnits
<1>7. \A i \in 1..n : nx[i] > i /\ (nx[i] \in G => i \in G)
  BY <1>4, <1>6
<1>8. 1 \in G
  <2>1. \A i \in 1..(n + 1) : i \in G
    BY <1>3, <1>6, <1>7, Downwards
  <2> QED
    BY <2>1
<1> QED
  BY <1>1, <1>2, <1>8 DEF UnitsFound

\* The ink of t from i on.
LEMMA InkFrom ==
  ASSUME NEW t \in Text, NEW a \in 1..(Len(t) + 1), NEW b \in a..(Len(t) + 1)
  PROVE  /\ InkBetween(t, a, Len(t)) = InkBetween(t, a, b - 1) \cup InkBetween(t, b, Len(t))
         /\ Rising(t) => Precedes(InkBetween(t, a, b - 1), InkBetween(t, b, Len(t)))
<1>1. Len(t) \in Nat /\ Inked(t) \subseteq 1..Len(t)
  BY DEF Inked, Text
<1>2. \A i \in Inked(t) : (a <= i /\ i <= Len(t)) <=>
                          ((a <= i /\ i <= b - 1) \/ (b <= i /\ i <= Len(t)))
  BY <1>1
<1>3. InkBetween(t, a, Len(t)) = InkBetween(t, a, b - 1) \cup InkBetween(t, b, Len(t))
  BY <1>2 DEF InkBetween
<1>4. ASSUME Rising(t), NEW x \in InkBetween(t, a, b - 1), NEW y \in InkBetween(t, b, Len(t))
      PROVE  x < y
  <2>1. PICK i \in Inked(t) : i <= b - 1 /\ x = t[i].at
    BY DEF InkBetween
  <2>2. PICK j \in Inked(t) : b <= j /\ y = t[j].at
    BY DEF InkBetween
  <2>3. i < j
    BY <1>1, <2>1, <2>2
  <2> QED
    BY <1>4, <2>1, <2>2, <2>3 DEF Rising
<1> QED
  BY <1>3, <1>4 DEF Precedes

LEMMA AllInk ==
  ASSUME NEW t \in Text
  PROVE  InkBetween(t, 1, Len(t)) = InkText(t) /\ InkBetween(t, Len(t) + 1, Len(t)) = {}
<1>1. \A i \in Inked(t) : 1 <= i /\ i <= Len(t) /\ ~(Len(t) + 1 <= i)
  BY DEF Inked, Text
<1> QED
  BY <1>1 DEF InkBetween, InkText

\* What a scan of a text finds, if each thing it finds is what is left of the
\* text up to the next.
LEMMA ScanOfText ==
  ASSUME NEW t \in Text, NEW step,
         \A i \in DOMAIN t :
           /\ step[i].next \in (i + 1)..(Len(t) + 1)
           /\ step[i].found \in Seq(Unit)
           /\ Held(step[i].found) = InkBetween(t, i, step[i].next - 1)
           /\ Rising(t) => Orderly(step[i].found)
  PROVE  /\ Scan(Len(t), step) \in Seq(Unit) /\ Held(Scan(Len(t), step)) = InkText(t)
         /\ Rising(t) => Orderly(Scan(Len(t), step))
<1>1. PICK n : n = Len(t)
  OBVIOUS
<1>2. n \in Nat /\ DOMAIN t = 1..n
  BY <1>1 DEF Text
<1>3. PICK ink : ink = [i \in 1..(n + 1) |-> InkBetween(t, i, n)]
  OBVIOUS
<1>4. ink[n + 1] = {} /\ ink[1] = InkText(t)
  BY <1>1, <1>2, <1>3, AllInk
<1>5. ASSUME NEW i \in 1..n
      PROVE  /\ step[i].next \in (i + 1)..(n + 1)
             /\ step[i].found \in Seq(Unit)
             /\ ink[i] = Held(step[i].found) \cup ink[step[i].next]
             /\ Rising(t) => /\ Orderly(step[i].found)
                             /\ Precedes(Held(step[i].found), ink[step[i].next])
  <2>1. PICK k : k = step[i].next
    OBVIOUS
  <2>2. k \in (i + 1)..(n + 1) /\ k \in i..(n + 1) /\ i \in 1..(n + 1)
    BY <1>1, <1>2, <2>1
  <2>3. ink[i] = InkBetween(t, i, n) /\ ink[k] = InkBetween(t, k, n)
    BY <1>3, <2>2
  <2>4. /\ InkBetween(t, i, n) = InkBetween(t, i, k - 1) \cup InkBetween(t, k, n)
        /\ Rising(t) => Precedes(InkBetween(t, i, k - 1), InkBetween(t, k, n))
    BY <1>1, <2>2, InkFrom
  <2> QED
    BY <1>2, <2>1, <2>2, <2>3, <2>4
<1>6. /\ Scan(n, step) \in Seq(Unit) /\ Held(Scan(n, step)) = ink[1]
      /\ Rising(t) => Orderly(Scan(n, step))
  <2>1. PICK ordered : ordered = Rising(t)
    OBVIOUS
  <2>2. FindsUnits(n, step, ink, ordered)
    BY <1>4, <1>5, <2>1 DEF FindsUnits
  <2>3. /\ Scan(n, step) \in Seq(Unit) /\ Held(Scan(n, step)) = ink[1]
        /\ ordered => Orderly(Scan(n, step))
    BY <1>2, <2>2, ScanUnits, Zenon
  <2> QED
    BY <2>1, <2>3
<1> QED
  BY <1>1, <1>4, <1>6
\* The paragraph found from i on: it begins at s, the first ink, ends at d,
\* the last ink before the blank line at e.
ParagraphIs(t, i, s, d, e, u) ==
  /\ i <= s /\ s < e /\ \A j \in Inked(t) : i <= j => s <= j
  /\ StripsTo(u.text, t, s, e - 1, s, d)
  /\ u \in Unit /\ u.start = s - 1 /\ u.end = d
  /\ e <= Len(t) => BlankLineAt(t, e)
  /\ \A p \in (s + 1)..(e - 1) : ~BlankLineAt(t, p)
  /\ ParagraphAt(t, i).found = <<u>> /\ ParagraphAt(t, i).next = e

LEMMA ParagraphFound ==
  ASSUME NEW t \in Text, NEW i \in DOMAIN t
  PROVE  \/ /\ ParagraphAt(t, i).found = <<>> /\ ParagraphAt(t, i).next = Len(t) + 1
            /\ \A j \in Inked(t) : j < i
         \/ \E s, d \in 1..Len(t), e \in 1..(Len(t) + 1), u \in Unit :
              ParagraphIs(t, i, s, d, e, u)
<1>1. PICK n : n = Len(t)
  OBVIOUS
<1>2. n \in Nat /\ DOMAIN t = 1..n /\ i \in 1..n /\ Inked(t) \subseteq 1..n
  BY <1>1 DEF Text, Inked
<1>3. PICK inked : inked = {k \in i..Len(t) : ~Blank(t[k])}
  OBVIOUS
<1>4. \A k : k \in inked <=> k \in Inked(t) /\ i <= k
  BY <1>1, <1>2, <1>3 DEF Inked
<1>5. CASE inked = {}
  <2>1. ParagraphAt(t, i) = [found |-> <<>>, next |-> Len(t) + 1]
    BY <1>3, <1>5 DEF ParagraphAt
  <2>2. \A j \in Inked(t) : j < i
    BY <1>2, <1>4, <1>5
  <2> QED
    BY <2>1, <2>2
<1>6. CASE inked # {}
  <2>1. PICK s : s = Smallest(inked)
    OBVIOUS
  <2>2. s \in Inked(t) /\ i <= s /\ s \in 1..n /\ \A j \in Inked(t) : i <= j => s <= j
    <3>1. inked \in SUBSET Nat
      BY <1>2, <1>4
    <3> QED
      BY <1>2, <1>4, <1>6, <2>1, <3>1, SmallestIs
  <2>3. PICK ends : ends = {k \in (s + 1)..(Len(t) + 1) : k > Len(t) \/ BlankLineAt(t, k)}
    OBVIOUS
  <2>4. PICK e : e = Smallest(ends)
    OBVIOUS
  <2>5. e \in ends /\ \A k \in ends : e <= k
    <3>1. n + 1 \in ends
      BY <1>1, <1>2, <2>2, <2>3
    <3>2. ends \in SUBSET Nat
      BY <1>1, <1>2, <2>2, <2>3
    <3> QED
      BY <2>4, <3>1, <3>2, SmallestIs
  <2>6. e \in (s + 1)..(n + 1) /\ (e > n \/ BlankLineAt(t, e))
    BY <1>1, <2>3, <2>5
  <2>7. ASSUME NEW p \in (s + 1)..(e - 1) PROVE ~BlankLineAt(t, p)
    <3>1. p \in (s + 1)..(n + 1) /\ ~(e <= p)
      BY <1>2, <2>2, <2>6
    <3> QED
      BY <1>1, <2>3, <2>5, <3>1
  <2>8. PICK raw, text : raw = SubSeq(t, s, e - 1) /\ text = Strip(raw)
    OBVIOUS
  <2>9. PICK u : u = [text |-> text, start |-> s - 1, end |-> s - 1 + Len(text)]
    OBVIOUS
  <2>10. ParagraphAt(t, i) = [found |-> <<u>>, next |-> e]
    BY <1>3, <1>6, <2>1, <2>3, <2>4, <2>8, <2>9, Zenon DEF ParagraphAt
  <2>11. s \in 1..(Len(t) + 1) /\ e - 1 \in (s - 1)..Len(t)
    BY <1>1, <1>2, <2>2, <2>6
  <2>12. PICK c, d \in 1..Len(t) : StripsTo(text, t, s, e - 1, c, d)
    <3>1. s <= s /\ s <= e - 1
      BY <1>2, <2>2, <2>6
    <3> QED
      BY <2>2, <2>8, <2>11, <3>1, StrippedPart DEF StripsAt
  <2>13. c = s
    <3>1. s <= s /\ s <= e - 1
      BY <1>2, <2>2, <2>6
    <3>2. s <= c /\ c <= s
      BY <2>2, <2>12, <3>1 DEF StripsTo
    <3> QED
      BY <1>1, <1>2, <2>2, <2>12, <3>2
  <2>14. text \in Text /\ Len(text) = d - s + 1 /\ Trimmed(text) /\ s <= d
    BY <2>12, <2>13 DEF StripsTo, IsPart
  <2>15. u.text = text /\ u.start = s - 1 /\ u.end = d /\ u.start \in Nat /\ u.end \in Nat
    BY <1>1, <1>2, <2>2, <2>9, <2>14
  <2>16. u \in Unit
    <3>1. text \in Text \ {<<>>}
      BY <2>14 DEF Trimmed
    <3>2. s - 1 \in Nat /\ s - 1 + Len(text) \in Nat
      BY <2>9, <2>15
    <3> QED
      BY <2>9, <2>14, <3>1, <3>2 DEF Unit, Block
  <2>17. ParagraphIs(t, i, s, d, e, u)
    <3>1. ParagraphAt(t, i).found = <<u>> /\ ParagraphAt(t, i).next = e
      BY <2>10
    <3>2. s < e /\ (e <= Len(t) => BlankLineAt(t, e))
      BY <1>1, <1>2, <2>2, <2>6
    <3> QED
      BY <2>2, <2>7, <2>12, <2>13, <2>15, <2>16, <3>1, <3>2 DEF ParagraphIs
  <2> QED
    BY <1>1, <1>2, <2>2, <2>6, <2>16, <2>17
<1> QED
  BY <1>5, <1>6

\* What a paragraph holds is the ink up to its blank line.
LEMMA ParagraphHolds ==
  ASSUME NEW t \in Text, NEW i \in DOMAIN t, NEW s \in 1..Len(t), NEW d \in 1..Len(t),
         NEW e \in 1..(Len(t) + 1), NEW u \in Unit, ParagraphIs(t, i, s, d, e, u)
  PROVE  InkOf(u) = InkBetween(t, i, e - 1) /\ (Rising(t) => Rising(u.text))
<1>1. /\ Len(t) \in Nat /\ DOMAIN t = 1..Len(t) /\ Inked(t) \subseteq 1..Len(t)
  BY DEF Text, Inked
<1>2. /\ s <= d /\ d <= e - 1 /\ IsPart(u.text, t, s, d) /\ i <= s
      /\ \A j \in Inked(t) : i <= j => s <= j
      /\ \A j \in Inked(t) : s <= j /\ j <= e - 1 => j <= d
  BY DEF ParagraphIs, StripsTo
<1>3. s \in 1..(Len(t) + 1) /\ d \in (s - 1)..Len(t)
  BY <1>1, <1>2
<1>4. InkText(u.text) = InkBetween(t, s, d) /\ (Rising(t) => Rising(u.text))
  BY <1>2, <1>3, PartInk
<1>5. \A j \in Inked(t) : (i <= j /\ j <= e - 1) <=> (s <= j /\ j <= d)
  BY <1>1, <1>2
<1>6. InkBetween(t, i, e - 1) = InkBetween(t, s, d)
  BY <1>5 DEF InkBetween
<1> QED
  BY <1>4, <1>6, InkOfIs

\* Paragraphs hold all the ink of a text, in its order.
LEMMA ParagraphsHoldAll ==
  ASSUME NEW t \in Text
  PROVE  /\ ParagraphUnits(t) \in Seq(Unit) /\ Held(ParagraphUnits(t)) = InkText(t)
         /\ Rising(t) => Orderly(ParagraphUnits(t))
<1>1. PICK step : step = [i \in DOMAIN t |-> ParagraphAt(t, i)]
  OBVIOUS
<1>2. Len(t) \in Nat /\ DOMAIN t = 1..Len(t) /\ Inked(t) \subseteq 1..Len(t)
  BY DEF Text, Inked
<1>3. ASSUME NEW i \in DOMAIN t
      PROVE  /\ step[i].next \in (i + 1)..(Len(t) + 1)
             /\ step[i].found \in Seq(Unit)
             /\ Held(step[i].found) = InkBetween(t, i, step[i].next - 1)
             /\ Rising(t) => Orderly(step[i].found)
  <2>1. step[i] = ParagraphAt(t, i)
    BY <1>1
  <2>2. CASE /\ ParagraphAt(t, i).found = <<>> /\ ParagraphAt(t, i).next = Len(t) + 1
             /\ \A j \in Inked(t) : j < i
    <3>1. \A j \in Inked(t) : ~(i <= j)
      BY <1>2, <2>2
    <3>2. PICK k : k = step[i].next
      OBVIOUS
    <3>3. k = Len(t) + 1 /\ k \in (i + 1)..(Len(t) + 1)
      BY <1>2, <2>1, <2>2, <3>2
    <3>4. InkBetween(t, i, k - 1) = {}
      BY <3>1 DEF InkBetween
    <3>5. step[i].found = <<>>
      BY <2>1, <2>2
    <3> QED
      BY <3>2, <3>3, <3>4, <3>5, NoUnits
  <2>3. ASSUME NEW s \in 1..Len(t), NEW d \in 1..Len(t), NEW e \in 1..(Len(t) + 1),
               NEW u \in Unit, ParagraphIs(t, i, s, d, e, u)
        PROVE  /\ step[i].next \in (i + 1)..(Len(t) + 1)
               /\ step[i].found \in Seq(Unit)
               /\ Held(step[i].found) = InkBetween(t, i, step[i].next - 1)
               /\ Rising(t) => Orderly(step[i].found)
    <3>1. step[i].found = <<u>> /\ step[i].next = e /\ i <= s /\ s < e
      BY <2>1, <2>3 DEF ParagraphIs
    <3>2. InkOf(u) = InkBetween(t, i, e - 1) /\ (Rising(t) => Rising(u.text))
      BY <2>3, ParagraphHolds
    <3>3. e \in (i + 1)..(Len(t) + 1)
      BY <1>2, <3>1
    <3> QED
      BY <3>1, <3>2, <3>3, OneUnit
  <2> QED
    BY <2>2, <2>3, ParagraphFound
<1>4. ParagraphUnits(t) = Scan(Len(t), step)
  BY <1>1 DEF ParagraphUnits
<1> QED
  BY <1>3, <1>4, ScanOfText
\* The piece of a flat text found from i on ends at e; the next begins at k.
PieceIs(t, i, e, k, x) ==
  /\ x = Strip(SubSeq(t, i, e)) /\ e < k /\ \A j \in Inked(t) : e < j => k <= j
  /\ PieceAt(t, i).next = k
  /\ PieceAt(t, i).found = IF x = <<>> THEN <<>>
                           ELSE <<[text |-> x, start |-> 0, end |-> 0]>>

LEMMA PieceFound ==
  ASSUME NEW t \in Text, NEW i \in DOMAIN t
  PROVE  \E e \in (i - 1)..Len(t), k \in (i + 1)..(Len(t) + 1) :
           \E x : PieceIs(t, i, e, k, x)
<1>1. PICK n : n = Len(t)
  OBVIOUS
<1>2. n \in Nat /\ DOMAIN t = 1..n /\ i \in 1..n /\ Inked(t) \subseteq 1..n
  BY <1>1 DEF Text, Inked
<1>3. PICK pairs : pairs = {k \in i..(Len(t) - 1) : /\ t[k].class = "break"
                                                    /\ t[k + 1].class = "break"}
  OBVIOUS
<1>4. PICK e, k : /\ e = IF pairs = {} THEN Len(t) ELSE Smallest(pairs) - 1
                  /\ k = IF pairs = {} THEN Len(t) + 1 ELSE Smallest(pairs) + 2
  OBVIOUS
<1>5. PICK x : x = Strip(SubSeq(t, i, e))
  OBVIOUS
<1>6. PieceAt(t, i) = [found |-> IF x = <<>> THEN <<>>
                                 ELSE <<[text |-> x, start |-> 0, end |-> 0]>>,
                       next |-> k]
  BY <1>3, <1>4, <1>5, Zenon DEF PieceAt
<1>7. CASE pairs = {}
  <2>1. e = n /\ k = n + 1
    BY <1>1, <1>4, <1>7
  <2>2. \A j \in Inked(t) : e < j => k <= j
    BY <1>2, <2>1
  <2>3. PieceIs(t, i, e, k, x)
    BY <1>2, <1>5, <1>6, <2>1, <2>2 DEF PieceIs
  <2>4. e \in (i - 1)..Len(t) /\ k \in (i + 1)..(Len(t) + 1)
    BY <1>1, <1>2, <2>1
  <2> QED
    BY <2>3, <2>4
<1>8. CASE pairs # {}
  <2>1. PICK m : m = Smallest(pairs)
    OBVIOUS
  <2>2. pairs \in SUBSET Nat
    BY <1>1, <1>2, <1>3
  <2>3. m \in i..(n - 1) /\ t[m].class = "break" /\ t[m + 1].class = "break"
    BY <1>1, <1>3, <1>8, <2>1, <2>2, SmallestIs
  <2>4. e = m - 1 /\ k = m + 2
    BY <1>4, <1>8, <2>1
  <2>5. m \notin Inked(t) /\ m + 1 \notin Inked(t)
    BY <2>3 DEF Inked, Blank
  <2>6. ASSUME NEW j \in Inked(t), e < j PROVE k <= j
    <3>1. j # m /\ j # m + 1 /\ j \in Nat
      BY <1>2, <2>5, <2>6
    <3> QED
      BY <1>2, <2>3, <2>4, <2>6, <3>1
  <2>7. PieceIs(t, i, e, k, x)
    <3>1. e < k
      BY <1>2, <2>3, <2>4
    <3> QED
      BY <1>5, <1>6, <2>6, <3>1 DEF PieceIs
  <2>8. e \in (i - 1)..Len(t) /\ k \in (i + 1)..(Len(t) + 1)
    BY <1>1, <1>2, <2>3, <2>4
  <2> QED
    BY <2>7, <2>8
<1> QED
  BY <1>7, <1>8

\* The pieces of a flat text hold all its ink, in its order.
LEMMA PiecesHoldAll ==
  ASSUME NEW t \in Text
  PROVE  /\ FlatParagraphs(t) \in Seq(Unit) /\ Held(FlatParagraphs(t)) = InkText(t)
         /\ Rising(t) => Orderly(FlatParagraphs(t))
<1>1. PICK step : step = [i \in DOMAIN t |-> PieceAt(t, i)]
  OBVIOUS
<1>2. Len(t) \in Nat /\ DOMAIN t = 1..Len(t) /\ Inked(t) \subseteq 1..Len(t)
  BY DEF Text, Inked
<1>3. ASSUME NEW i \in DOMAIN t
      PROVE  /\ step[i].next \in (i + 1)..(Len(t) + 1)
             /\ step[i].found \in Seq(Unit)
             /\ Held(step[i].found) = InkBetween(t, i, step[i].next - 1)
             /\ Rising(t) => Orderly(step[i].found)
  <2>0. PICK e \in (i - 1)..Len(t), k \in (i + 1)..(Len(t) + 1) :
          \E x : PieceIs(t, i, e, k, x)
    BY PieceFound
  <2>1. PICK x : PieceIs(t, i, e, k, x)
    BY <2>0
  <2>2. /\ x = Strip(SubSeq(t, i, e)) /\ e < k /\ \A j \in Inked(t) : e < j => k <= j
        /\ step[i].next = k
        /\ step[i].found = IF x = <<>> THEN <<>>
                           ELSE <<[text |-> x, start |-> 0, end |-> 0]>>
    BY <1>1, <2>1 DEF PieceIs
  <2>3. PICK raw : raw = SubSeq(t, i, e)
    OBVIOUS
  <2>4. i \in 1..(Len(t) + 1)
    BY <1>2
  <2>5. /\ x \in Text /\ (x = <<>> \/ Trimmed(x)) /\ InkText(x) = InkBetween(t, i, e)
        /\ Rising(t) => Rising(x)
    BY <2>2, <2>3, <2>4, StrippedInk
  <2>6. InkBetween(t, i, e) = InkBetween(t, i, k - 1)
    <3>1. \A j \in Inked(t) : j <= e <=> j <= k - 1
      BY <1>2, <2>1, <2>2
    <3> QED
      BY <3>1 DEF InkBetween
  <2>7. CASE x = <<>>
    <3>1. InkText(<<>>) = {}
      BY DEF InkText, Inked
    <3>2. step[i].found = <<>> /\ InkBetween(t, i, k - 1) = {}
      BY <2>2, <2>5, <2>6, <2>7, <3>1
    <3> QED
      BY <2>1, <2>2, <3>2, NoUnits
  <2>8. CASE x # <<>>
    <3>1. PICK u : u = [text |-> x, start |-> 0, end |-> 0]
      OBVIOUS
    <3>2. u \in Unit /\ u.text = x
      BY <2>5, <2>8, <3>1 DEF Unit, Block
    <3>3. step[i].found = <<u>>
      BY <2>2, <2>8, <3>1
    <3>4. InkOf(u) = InkBetween(t, i, k - 1)
      BY <2>5, <2>6, <3>2, InkOfIs
    <3> QED
      BY <2>1, <2>2, <2>5, <3>2, <3>3, <3>4, OneUnit
  <2> QED
    BY <2>7, <2>8
<1>4. FlatParagraphs(t) = Scan(Len(t), step)
  BY <1>1 DEF FlatParagraphs
<1> QED
  BY <1>3, <1>4, ScanOfText

\* Flat texts are stripped first.
LEMMA StrippedHoldsAll ==
  ASSUME NEW t \in Text
  PROVE  /\ Strip(t) \in Text /\ InkText(Strip(t)) = InkText(t)
         /\ Rising(t) => Rising(Strip(t))
<1>1. Len(t) \in Nat /\ 1 \in 1..(Len(t) + 1) /\ Len(t) \in (1 - 1)..Len(t)
  BY DEF Text
<1>2. t = SubSeq(t, 1, Len(t))
  <2>1. IsPart(SubSeq(t, 1, Len(t)), t, 1, Len(t))
    BY <1>1, SubSeqIsPart
  <2>2. PICK s : s = SubSeq(t, 1, Len(t))
    OBVIOUS
  <2>3. s \in Text /\ Len(s) = Len(t) /\ \A i \in 1..Len(s) : s[i] = t[i]
    BY <1>1, <2>1, <2>2 DEF IsPart
  <2>4. s = t
    BY <2>3 DEF Text
  <2> QED
    BY <2>2, <2>4
<1>3. InkText(Strip(t)) = InkBetween(t, 1, Len(t))
  BY <1>1, <1>2, StrippedInk
<1> QED
  BY <1>1, <1>2, <1>3, StrippedInk, AllInk
\* What units hold from i on.
HeldFrom(ps, i) == UNION {InkOf(ps[j]) : j \in {k \in DOMAIN ps : i <= k}}

LEMMA HeldFromStep ==
  ASSUME NEW ps \in Seq(Unit)
  PROVE  /\ HeldFrom(ps, Len(ps) + 1) = {} /\ HeldFrom(ps, 1) = Held(ps)
         /\ \A i \in DOMAIN ps :
              /\ HeldFrom(ps, i) = InkOf(ps[i]) \cup HeldFrom(ps, i + 1)
              /\ Orderly(ps) => Precedes(InkOf(ps[i]), HeldFrom(ps, i + 1))
<1>1. Len(ps) \in Nat /\ DOMAIN ps = 1..Len(ps)
  OBVIOUS
<1>2. HeldFrom(ps, Len(ps) + 1) = {}
  <2>1. \A k \in DOMAIN ps : ~(Len(ps) + 1 <= k)
    BY <1>1
  <2> QED
    BY <2>1 DEF HeldFrom
<1>3. HeldFrom(ps, 1) = Held(ps)
  <2>1. \A k \in DOMAIN ps : 1 <= k
    BY <1>1
  <2> QED
    BY <2>1 DEF HeldFrom, Held
<1>4. ASSUME NEW i \in DOMAIN ps
      PROVE  /\ HeldFrom(ps, i) = InkOf(ps[i]) \cup HeldFrom(ps, i + 1)
             /\ Orderly(ps) => Precedes(InkOf(ps[i]), HeldFrom(ps, i + 1))
  <2>1. \A k \in DOMAIN ps : (i <= k <=> k = i \/ i + 1 <= k) /\ (i + 1 <= k <=> i < k)
    BY <1>1
  <2>2. HeldFrom(ps, i) = InkOf(ps[i]) \cup HeldFrom(ps, i + 1)
    BY <2>1 DEF HeldFrom
  <2>3. ASSUME Orderly(ps), NEW x \in InkOf(ps[i]), NEW y \in HeldFrom(ps, i + 1) PROVE x < y
    <3>1. PICK k \in DOMAIN ps : i + 1 <= k /\ y \in InkOf(ps[k])
      BY DEF HeldFrom
    <3>2. i < k
      BY <2>1, <3>1
    <3> QED
      BY <2>3, <3>1, <3>2 DEF Orderly, Precedes
  <2> QED
    BY <2>2, <2>3 DEF Precedes
<1> QED
  BY <1>2, <1>3, <1>4

\* Merging a heading with the paragraph after it.
Merged(p, q) == [text |-> p.text \o <<Break, Break>> \o q.text,
                 start |-> p.start, end |-> q.end]

LEMMA MergedUnit ==
  ASSUME NEW p \in Unit, NEW q \in Unit
  PROVE  /\ Merged(p, q) \in Unit /\ InkOf(Merged(p, q)) = InkOf(p) \cup InkOf(q)
         /\ Rising(p.text) /\ Rising(q.text) /\ Precedes(InkOf(p), InkOf(q))
              => Rising(Merged(p, q).text)
<1>1. PICK x, y, z : x = p.text /\ y = q.text /\ z = x \o <<Break, Break>> \o y
  OBVIOUS
<1>2. /\ x \in Text /\ y \in Text /\ Trimmed(x) /\ Trimmed(y)
      /\ p.start \in Nat /\ q.end \in Nat
  BY <1>1, UnitFields
<1>3. /\ z \in Text /\ InkText(z) = InkText(x) \cup InkText(y)
      /\ Rising(x) /\ Rising(y) /\ Precedes(InkText(x), InkText(y)) => Rising(z)
      /\ Trimmed(z)
  BY <1>1, <1>2, BrokenInk
<1>4. PICK m : m = Merged(p, q)
  OBVIOUS
<1>5. m = [text |-> z, start |-> p.start, end |-> q.end] /\ m.text = z
  BY <1>1, <1>4 DEF Merged
<1>6. m \in Unit
  <2>1. z \in Text \ {<<>>}
    BY <1>3 DEF Trimmed
  <2> QED
    BY <1>2, <1>3, <1>5, <2>1 DEF Unit, Block
<1> QED
  BY <1>1, <1>3, <1>4, <1>5, <1>6, InkOfIs

LEMMA WithHeadingIs ==
  ASSUME NEW ps, NEW i
  PROVE  \/ i < Len(ps) /\ WithHeading(ps, i) = [found |-> <<Merged(ps[i], ps[i + 1])>>,
                                                 next |-> i + 2]
         \/ WithHeading(ps, i) = [found |-> <<ps[i]>>, next |-> i + 1]
  BY DEF WithHeading, Merged

\* Headings lose nothing.
LEMMA MergeHoldsAll ==
  ASSUME NEW ps \in Seq(Unit)
  PROVE  /\ MergeHeadings(ps) \in Seq(Unit) /\ Held(MergeHeadings(ps)) = Held(ps)
         /\ Orderly(ps) => Orderly(MergeHeadings(ps))
<1>1. PICK n : n = Len(ps)
  OBVIOUS
<1>2. n \in Nat /\ DOMAIN ps = 1..n
  BY <1>1
<1>3. PICK step : step = [i \in DOMAIN ps |-> WithHeading(ps, i)]
  OBVIOUS
<1>4. PICK ink, ordered : /\ ink = [i \in 1..(n + 1) |-> HeldFrom(ps, i)]
                          /\ ordered = Orderly(ps)
  OBVIOUS
<1>5. ink[n + 1] = {} /\ ink[1] = Held(ps)
  BY <1>1, <1>2, <1>4, HeldFromStep
<1>6. ASSUME NEW i \in 1..n
      PROVE  /\ step[i].next \in (i + 1)..(n + 1)
             /\ step[i].found \in Seq(Unit)
             /\ ink[i] = Held(step[i].found) \cup ink[step[i].next]
             /\ ordered => /\ Orderly(step[i].found)
                           /\ Precedes(Held(step[i].found), ink[step[i].next])
  <2>1. step[i] = WithHeading(ps, i) /\ i \in DOMAIN ps /\ ps[i] \in Unit
    BY <1>2, <1>3
  <2>2. /\ ink[i] = InkOf(ps[i]) \cup ink[i + 1]
        /\ ordered => Rising(ps[i].text) /\ Precedes(InkOf(ps[i]), ink[i + 1])
    <3>1. ink[i] = HeldFrom(ps, i) /\ ink[i + 1] = HeldFrom(ps, i + 1)
      BY <1>2, <1>4
    <3>2. ordered => Rising(ps[i].text)
      BY <1>4, <2>1 DEF Orderly
    <3> QED
      BY <1>4, <2>1, <3>1, <3>2, HeldFromStep
  <2>3. CASE step[i] = [found |-> <<ps[i]>>, next |-> i + 1]
    <3>1. i + 1 \in (i + 1)..(n + 1) /\ step[i].next = i + 1 /\ step[i].found = <<ps[i]>>
      BY <1>2, <2>3
    <3>2. /\ <<ps[i]>> \in Seq(Unit) /\ Held(<<ps[i]>>) = InkOf(ps[i])
          /\ Rising(ps[i].text) => Orderly(<<ps[i]>>)
      BY <2>1, OneUnit
    <3> QED
      BY <2>2, <3>1, <3>2
  <2>4. CASE i < Len(ps) /\ step[i] = [found |-> <<Merged(ps[i], ps[i + 1])>>,
                                       next |-> i + 2]
    <3>1. PICK m : m = Merged(ps[i], ps[i + 1])
      OBVIOUS
    <3>2. /\ i + 1 \in 1..n /\ i + 1 \in DOMAIN ps /\ ps[i + 1] \in Unit
          /\ i + 2 \in (i + 1)..(n + 1) /\ (i + 1) + 1 = i + 2
      BY <1>1, <1>2, <2>4
    <3>3. step[i].next = i + 2 /\ step[i].found = <<m>>
      BY <2>4, <3>1
    <3>4. /\ ink[i + 1] = InkOf(ps[i + 1]) \cup ink[i + 2]
          /\ ordered => Rising(ps[i + 1].text) /\ Precedes(InkOf(ps[i + 1]), ink[i + 2])
      <4>1. ink[i + 1] = HeldFrom(ps, i + 1) /\ ink[i + 2] = HeldFrom(ps, i + 2)
        BY <1>2, <1>4, <3>2
      <4>2. ordered => Rising(ps[i + 1].text)
        BY <1>4, <3>2 DEF Orderly
      <4>3. /\ HeldFrom(ps, i + 1) = InkOf(ps[i + 1]) \cup HeldFrom(ps, (i + 1) + 1)
            /\ Orderly(ps) => Precedes(InkOf(ps[i + 1]), HeldFrom(ps, (i + 1) + 1))
        BY <3>2, HeldFromStep
      <4> QED
        BY <1>4, <3>2, <4>1, <4>2, <4>3
    <3>5. /\ m \in Unit /\ InkOf(m) = InkOf(ps[i]) \cup InkOf(ps[i + 1])
          /\ Rising(ps[i].text) /\ Rising(ps[i + 1].text)
             /\ Precedes(InkOf(ps[i]), InkOf(ps[i + 1])) => Rising(m.text)
      BY <2>1, <3>1, <3>2, MergedUnit
    <3>6. ink[i] = InkOf(m) \cup ink[i + 2]
      BY <2>2, <3>4, <3>5
    <3>7. ASSUME ordered PROVE Rising(m.text) /\ Precedes(InkOf(m), ink[i + 2])
      <4>1. Precedes(InkOf(ps[i]), InkOf(ps[i + 1])) /\ Precedes(InkOf(ps[i]), ink[i + 2])
        BY <2>2, <3>4, <3>7 DEF Precedes
      <4>2. Precedes(InkOf(m), ink[i + 2])
        BY <3>4, <3>5, <3>7, <4>1 DEF Precedes
      <4> QED
        BY <2>2, <3>4, <3>5, <3>7, <4>1, <4>2
    <3>8. /\ <<m>> \in Seq(Unit) /\ Held(<<m>>) = InkOf(m)
          /\ Rising(m.text) => Orderly(<<m>>)
      BY <3>5, OneUnit
    <3> QED
      BY <3>2, <3>3, <3>6, <3>7, <3>8
  <2> QED
    BY <2>1, <2>3, <2>4, WithHeadingIs
<1>7. FindsUnits(n, step, ink, ordered)
  BY <1>5, <1>6 DEF FindsUnits
<1>8. /\ Scan(n, step) \in Seq(Unit) /\ Held(Scan(n, step)) = ink[1]
      /\ ordered => Orderly(Scan(n, step))
  BY <1>2, <1>7, ScanUnits, Zenon
<1>9. MergeHeadings(ps) = Scan(n, step)
  BY <1>1, <1>3 DEF MergeHeadings
<1> QED
  BY <1>4, <1>5, <1>8, <1>9

-----------------------------------------------------------------------------
(* Blocks made of paragraphs *)

\* What the join of paragraphs from i on is.
JoinedFrom(ps, f, i) ==
  /\ f[i] \in Text /\ Trimmed(f[i]) /\ InkText(f[i]) = HeldFrom(ps, i)
  /\ Orderly(ps) => Rising(f[i])

\* The join is the text of the last paragraph, and before it the text of
\* each with two line breaks.
LEMMA JoinedDefined ==
  ASSUME NEW ps \in Seq(Unit)
  PROVE  \E f : /\ Joined(ps) = f[1] /\ f[Len(ps) + 1] = <<>>
                /\ \A i \in 1..Len(ps) :
                     f[i] = IF i = Len(ps) THEN ps[i].text
                            ELSE ps[i].text \o <<Break, Break>> \o f[i + 1]
<1>1. PICK n : n = Len(ps)
  OBVIOUS
<1>2. n \in Nat /\ DOMAIN ps = 1..n
  BY <1>1
<1>3. PICK step : step = [i \in DOMAIN ps |-> PartAt(ps, i)]
  OBVIOUS
<1>4. ASSUME NEW i \in 1..n
      PROVE  /\ step[i].next = i + 1
             /\ step[i].found = IF i = n THEN ps[i].text
                                ELSE ps[i].text \o <<Break, Break>>
  <2>1. step[i] = PartAt(ps, i)
    BY <1>2, <1>3
  <2>2. PICK x : x = IF i = n THEN ps[i].text ELSE ps[i].text \o <<Break, Break>>
    OBVIOUS
  <2>3. PartAt(ps, i) = [found |-> x, next |-> i + 1]
    BY <1>1, <2>2, Zenon DEF PartAt
  <2> QED
    BY <2>1, <2>2, <2>3
<1>5. \A i \in 1..n : step[i].next \in (i + 1)..(n + 1)
  BY <1>2, <1>4
<1>6. PICK f : /\ \A i \in 1..(n + 1) : f[i] = ScannedOf(n, step, f, i)
               /\ Scan(n, step) = f[1]
  BY <1>2, <1>5, ScanDefined
<1>7. Joined(ps) = f[1]
  BY <1>1, <1>3, <1>6 DEF Joined
<1>8. f[n + 1] = <<>>
  <2>1. n + 1 \in 1..(n + 1) /\ n + 1 > n
    BY <1>2
  <2> QED
    BY <1>6, <2>1 DEF ScannedOf
<1>9. ASSUME NEW i \in 1..n
      PROVE  f[i] = IF i = n THEN ps[i].text
                    ELSE ps[i].text \o <<Break, Break>> \o f[i + 1]
  <2>1. i \in 1..(n + 1) /\ ~(i > n) /\ ps[i].text \in Seq(Char)
    BY <1>2, UnitFields DEF Text
  <2>2. f[i] = step[i].found \o f[i + 1]
    BY <1>4, <1>6, <2>1 DEF ScannedOf
  <2>3. CASE i = n
    <3>1. f[i] = ps[i].text \o <<>>
      BY <1>4, <1>8, <2>2, <2>3
    <3> QED
      BY <2>1, <2>3, <3>1
  <2>4. CASE i # n
    BY <1>4, <2>2, <2>4
  <2> QED
    BY <2>3, <2>4
<1> QED
  BY <1>1, <1>7, <1>8, <1>9

\* A block holds the ink of its paragraphs, in their order.
LEMMA JoinedHoldsAll ==
  ASSUME NEW ps \in Seq(Unit)
  PROVE  /\ Joined(ps) \in Text /\ InkText(Joined(ps)) = Held(ps)
         /\ ps # <<>> => Trimmed(Joined(ps))
         /\ Orderly(ps) => Rising(Joined(ps))
<1>1. PICK n : n = Len(ps)
  OBVIOUS
<1>2. n \in Nat /\ DOMAIN ps = 1..n /\ (ps # <<>> => n # 0)
  BY <1>1
<1>3. PICK f : /\ Joined(ps) = f[1] /\ f[n + 1] = <<>>
               /\ \A i \in 1..n :
                    f[i] = IF i = n THEN ps[i].text
                           ELSE ps[i].text \o <<Break, Break>> \o f[i + 1]
  BY <1>1, JoinedDefined
<1>4. CASE n = 0
  <2>1. Joined(ps) = <<>> /\ ps = <<>>
    <3>1. n + 1 = 1
      BY <1>4
    <3>2. ps = <<>>
      BY <1>2, <1>4
    <3>3. Joined(ps) = <<>>
      BY <1>3, <3>1, Zenon
    <3> QED
      BY <3>2, <3>3
  <2>2. <<>> \in Text /\ InkText(<<>>) = {} /\ Rising(<<>>) /\ Held(<<>>) = {}
    BY NoUnits DEF Text, InkText, Inked, Rising
  <2> QED
    BY <2>1, <2>2
<1>5. CASE n # 0
  <2>1. PICK G, next : /\ G = {i \in 1..(n + 1) : i = n + 1 \/ JoinedFrom(ps, f, i)}
                       /\ next = [i \in 1..n |-> i + 1]
    OBVIOUS
  <2>2. n + 1 \in G /\ next \in [1..n -> 1..(n + 1)]
    BY <1>2, <2>1
  <2>3. ASSUME NEW i \in 1..n, i + 1 \in G PROVE JoinedFrom(ps, f, i)
    <3>1. i \in DOMAIN ps /\ ps[i] \in Unit /\ i + 1 \in 1..(n + 1)
      BY <1>2
    <3>2. PICK x : x = ps[i].text
      OBVIOUS
    <3>3. x \in Text /\ Trimmed(x) /\ InkText(x) = InkOf(ps[i])
      BY <3>1, <3>2, UnitFields, InkOfIs
    <3>4. Orderly(ps) => Rising(x)
      BY <3>1, <3>2 DEF Orderly
    <3>5. /\ HeldFrom(ps, i) = InkOf(ps[i]) \cup HeldFrom(ps, i + 1)
          /\ Orderly(ps) => Precedes(InkOf(ps[i]), HeldFrom(ps, i + 1))
      BY <3>1, HeldFromStep
    <3>6. CASE i = n
      <4>1. f[i] = x /\ HeldFrom(ps, i + 1) = {}
        BY <1>1, <1>3, <3>2, <3>6, HeldFromStep
      <4> QED
        BY <3>3, <3>4, <3>5, <4>1 DEF JoinedFrom
    <3>7. CASE i # n
      <4>1. PICK y : y = f[i + 1]
        OBVIOUS
      <4>2. JoinedFrom(ps, f, i + 1)
        BY <1>2, <2>1, <2>3, <3>7
      <4>3. /\ y \in Text /\ Trimmed(y) /\ InkText(y) = HeldFrom(ps, i + 1)
            /\ Orderly(ps) => Rising(y)
        BY <4>1, <4>2 DEF JoinedFrom
      <4>4. f[i] = x \o <<Break, Break>> \o y
        BY <1>3, <3>2, <3>7, <4>1
      <4>5. PICK z : z = x \o <<Break, Break>> \o y
        OBVIOUS
      <4>6. /\ z \in Text /\ InkText(z) = InkText(x) \cup InkText(y) /\ Trimmed(z)
            /\ Rising(x) /\ Rising(y) /\ Precedes(InkText(x), InkText(y)) => Rising(z)
        BY <3>3, <4>3, <4>5, BrokenInk
      <4>7. f[i] = z /\ InkText(z) = HeldFrom(ps, i) /\ (Orderly(ps) => Rising(z))
        BY <3>3, <3>4, <3>5, <4>3, <4>4, <4>5, <4>6
      <4> QED
        BY <4>6, <4>7 DEF JoinedFrom
    <3> QED
      BY <3>6, <3>7
  <2>4. \A i \in 1..n : next[i] > i /\ (next[i] \in G => i \in G)
    <3>1. \A i \in 1..n : next[i] = i + 1 /\ i + 1 > i /\ i \in 1..(n + 1)
      BY <1>2, <2>1
    <3> QED
      BY <2>1, <2>3, <3>1
  <2>5. \A i \in 1..(n + 1) : i \in G
    BY <1>2, <2>2, <2>4, Downwards
  <2>6. JoinedFrom(ps, f, 1)
    BY <1>2, <1>5, <2>1, <2>5
  <2> QED
    BY <1>3, <2>6, HeldFromStep DEF JoinedFrom
<1> QED
  BY <1>4, <1>5

LEMMA JoinedOne ==
  ASSUME NEW u \in Unit
  PROVE  Joined(<<u>>) = u.text
<1>1. PICK ps : ps = <<u>>
  OBVIOUS
<1>2. ps \in Seq(Unit) /\ Len(ps) = 1 /\ ps[1] = u
  BY <1>1
<1> QED
  BY <1>1, <1>2, JoinedDefined

-----------------------------------------------------------------------------
(* The inductive invariant *)

\* The places still to be cut from the paragraph being cut.
CutInk == InkBetween(cut.text, cut.cursor + 1, Len(cut.text))

SplitTyped ==
  /\ content \in Text /\ Rising(content) /\ settings \in Settings
  /\ level \in {"new", "flat", "parent", "child", "done"} /\ base \in Nat
  /\ units \in Seq(Unit) /\ parts \in Seq(Unit) /\ blocks \in Seq(Unit)
  /\ parents \in Seq(Unit) /\ waiting \in Seq(Unit) /\ children \in Seq(Unit)
  /\ cut \in [text : Text, start : Nat, cursor : Nat]
  /\ cut # NoCut => cut.cursor < Len(cut.text) /\ parts = <<>>

\* What is empty before, between and after the calls.
SplitStages ==
  /\ level \in {"new", "done"} =>
       units = <<>> /\ parts = <<>> /\ blocks = <<>> /\ waiting = <<>> /\ cut = NoCut
  /\ level \in {"new", "flat", "parent"} =>
       children = <<>> /\ parents = <<>> /\ waiting = <<>>

NoLonger(bs, n) == \A i \in DOMAIN bs : Len(bs[i].text) <= n

SplitSizes ==
  /\ parts # <<>> => Len(Joined(parts)) <= Size
  /\ NoLonger(blocks, Size)
  /\ WithinSize

\* The chunks, the blocks, the current parts, the paragraph being cut, those
\* not placed and the parents not split hold all the ink.
SplitHolds ==
  /\ Held(children) \cup Held(blocks) \cup Held(parts) \cup CutInk
       \cup Held(units) \cup Held(waiting) = Ink
  /\ parents # <<>> => Held(parents) = Ink

\* Sets of places, each before those that follow.
InOrder(a, b, c, d, e, f) ==
  /\ Precedes(a, b) /\ Precedes(a, c) /\ Precedes(a, d) /\ Precedes(a, e) /\ Precedes(a, f)
  /\ Precedes(b, c) /\ Precedes(b, d) /\ Precedes(b, e) /\ Precedes(b, f)
  /\ Precedes(c, d) /\ Precedes(c, e) /\ Precedes(c, f)
  /\ Precedes(d, e) /\ Precedes(d, f)
  /\ Precedes(e, f)

\* Without an overlap they do so in the order of the document.
SplitOrder ==
  settings.overlap = 0 =>
    /\ Orderly(children) /\ Orderly(blocks) /\ Orderly(parts) /\ Rising(cut.text)
    /\ Orderly(units) /\ Orderly(waiting) /\ Orderly(parents)
    /\ InOrder(Held(children), Held(blocks), Held(parts), CutInk, Held(units),
               Held(waiting))

SplitInv == SplitTyped /\ SplitStages /\ SplitSizes /\ SplitHolds /\ SplitOrder

LEMMA PrecedesUnion ==
  /\ \A A, B, C : Precedes(A, B \cup C) <=> Precedes(A, B) /\ Precedes(A, C)
  /\ \A A, B, C : Precedes(A \cup B, C) <=> Precedes(A, C) /\ Precedes(B, C)
  /\ \A A : Precedes({}, A) /\ Precedes(A, {})
<1>1. \A A, B, C : Precedes(A, B \cup C) <=> Precedes(A, B) /\ Precedes(A, C)
  BY DEF Precedes
<1>2. \A A, B, C : Precedes(A \cup B, C) <=> Precedes(A, C) /\ Precedes(B, C)
  BY DEF Precedes
<1>3. \A A : Precedes({}, A) /\ Precedes(A, {})
  BY DEF Precedes
<1> QED
  BY <1>1, <1>2, <1>3

LEMMA AppendedAt ==
  ASSUME NEW S, NEW s \in Seq(S), NEW u \in S, NEW i \in DOMAIN Append(s, u)
  PROVE  Append(s, u)[i] = u \/ (i \in DOMAIN s /\ Append(s, u)[i] = s[i])
<1>1. PICK n, z : n = Len(s) /\ z = Append(s, u)
  OBVIOUS
<1>2. n \in Nat /\ DOMAIN s = 1..n /\ i \in 1..(n + 1)
  BY <1>1
<1>3. z[n + 1] = u /\ \A k \in 1..n : z[k] = s[k]
  BY <1>1
<1>4. i = n + 1 \/ i \in 1..n
  BY <1>2
<1> QED
  BY <1>1, <1>2, <1>3, <1>4

\* Flushing the current parts makes a block of them.
LEMMA FlushedHoldsAll ==
  ASSUME SplitTyped
  PROVE  /\ Flushed \in Seq(Unit) /\ Held(Flushed) = Held(blocks) \cup Held(parts)
         /\ Orderly(blocks) /\ Orderly(parts) /\ Precedes(Held(blocks), Held(parts))
              => Orderly(Flushed)
         /\ SplitSizes => NoLonger(Flushed, Size)
<1>1. blocks \in Seq(Unit) /\ parts \in Seq(Unit) /\ base \in Nat
  BY DEF SplitTyped
<1>2. CASE parts = <<>>
  <2>1. Flushed = blocks
    BY <1>2 DEF Flushed
  <2> QED
    BY <1>1, <1>2, <2>1, NoUnits DEF SplitSizes
<1>3. CASE parts # <<>>
  <2>1. PICK x, b, e : /\ x = Joined(parts) /\ b = base + Head(parts).start
                       /\ e = base + Last(parts).end
    OBVIOUS
  <2>2. /\ x \in Text /\ InkText(x) = Held(parts) /\ Trimmed(x)
        /\ Orderly(parts) => Rising(x)
    BY <1>1, <1>3, <2>1, JoinedHoldsAll
  <2>3. b \in Nat /\ e \in Nat
    <3>1. Head(parts) \in Unit /\ Last(parts) \in Unit
      <4>1. Len(parts) \in Nat /\ Len(parts) # 0
        BY <1>1, <1>3
      <4> QED
        BY <1>1, <1>3, <4>1 DEF Last
    <3> QED
      BY <1>1, <2>1, <3>1, UnitFields
  <2>4. PICK u : u = [text |-> x, start |-> b, end |-> e]
    OBVIOUS
  <2>5. u \in Unit /\ u.text = x
    <3>1. x \in Text \ {<<>>}
      BY <2>2 DEF Trimmed
    <3> QED
      BY <2>2, <2>3, <2>4, <3>1 DEF Unit, Block
  <2>6. Flushed = Append(blocks, u)
    BY <1>3, <2>1, <2>4 DEF Flushed
  <2>7. InkOf(u) = Held(parts)
    BY <2>2, <2>5, InkOfIs
  <2>8. ASSUME SplitSizes PROVE NoLonger(Flushed, Size)
    <3>1. Len(u.text) <= Size /\ NoLonger(blocks, Size)
      BY <1>3, <2>1, <2>5, <2>8 DEF SplitSizes
    <3>2. ASSUME NEW i \in DOMAIN Append(blocks, u)
          PROVE  \/ Append(blocks, u)[i] = u
                 \/ i \in DOMAIN blocks /\ Append(blocks, u)[i] = blocks[i]
      BY <1>1, <2>5, <3>2, AppendedAt
    <3> QED
      BY <2>6, <3>1, <3>2 DEF NoLonger
  <2> QED
    BY <1>1, <2>2, <2>5, <2>6, <2>7, <2>8, AppendUnit
<1> QED
  BY <1>2, <1>3

\* A size is positive, an overlap smaller where it is clamped.
LEMMA SizeIs ==
  ASSUME SplitTyped
  PROVE  /\ Size \in Nat \ {0} /\ Overlap \in Nat
         /\ settings.overlap = 0 => Overlap = 0
<1>1. settings \in [parent : Nat \ {0}, child : Nat \ {0}, overlap : Nat]
  BY ChunkingAssumption DEF SplitTyped
<1>2. Size \in Nat \ {0}
  BY <1>1 DEF Size
<1>3. settings.overlap \in Nat
  BY <1>1
<1> QED
  BY <1>2, <1>3 DEF Overlap

\* A piece ends after the cursor, within the size and the paragraph; the
\* cursor goes on.
LEMMA PieceEndIs ==
  ASSUME SplitTyped, NEW t \in Text, NEW cursor \in Nat, cursor < Len(t)
  PROVE  /\ PieceEnd(t, cursor) \in (cursor + 1)..Len(t)
         /\ PieceEnd(t, cursor) <= cursor + Size
<1>1. PICK n, size : n = Len(t) /\ size = Size
  OBVIOUS
<1>2. n \in Nat /\ size \in Nat \ {0} /\ cursor < n
  BY <1>1, SizeIs DEF Text
<1>3. PICK end : end = IF cursor + size < n THEN cursor + size ELSE n
  OBVIOUS
<1>4. end \in (cursor + 1)..n /\ end <= cursor + size
  BY <1>2, <1>3
<1>5. PICK half : half = IF size \div 2 > 1 THEN size \div 2 ELSE 1
  OBVIOUS
<1>6. half \in Nat \ {0}
  <2>1. size \div 2 \in Nat
    BY <1>2
  <2> QED
    BY <1>5, <2>1
<1>7. PICK spaces : spaces = {b \in (cursor + half)..(end - 1) : t[b + 1].class = "space"}
  OBVIOUS
<1>8. PieceEnd(t, cursor) = IF level = "flat" \/ end = n \/ spaces = {} THEN end
                            ELSE Largest(spaces)
  BY <1>1, <1>3, <1>5, <1>7, Zenon DEF PieceEnd
<1>9. CASE level = "flat" \/ end = n \/ spaces = {}
  BY <1>1, <1>4, <1>8, <1>9
<1>10. CASE ~(level = "flat" \/ end = n \/ spaces = {})
  <2>1. PICK b : b = Largest(spaces)
    OBVIOUS
  <2>2. spaces \in SUBSET (0..n)
    BY <1>2, <1>4, <1>6, <1>7
  <2>3. b \in spaces
    BY <1>2, <1>10, <2>1, <2>2, LargestIs
  <2>4. b \in (cursor + 1)..n /\ b <= cursor + size
    BY <1>2, <1>4, <1>6, <1>7, <2>3
  <2> QED
    BY <1>1, <1>8, <1>10, <2>1, <2>4
<1> QED
  BY <1>9, <1>10

LEMMA NextCursorIs ==
  ASSUME SplitTyped, NEW cursor \in Nat, NEW end \in Nat, cursor < end
  PROVE  /\ NextCursor(cursor, end) \in (cursor + 1)..end
         /\ settings.overlap = 0 => NextCursor(cursor, end) = end
  BY SizeIs DEF NextCursor

\* Nothing is left of a paragraph that is not being cut.
LEMMA NoCutInk ==
  ASSUME cut = NoCut
  PROVE  CutInk = {} /\ Rising(cut.text)
<1>1. cut.text = <<>>
  BY DEF NoCut
<1> QED
  BY <1>1 DEF CutInk, InkBetween, Inked, Rising

-----------------------------------------------------------------------------
(* The invariant holds *)

LEMMA DocumentsRise ==
  ASSUME NEW text \in Documents
  PROVE  /\ text \in Text /\ Rising(text)
         /\ \A i \in DOMAIN text : text[i].at = i
<1>1. PICK n \in 0..MaxLength :
        \E f \in [1..n -> CharClass] : text = [i \in 1..n |-> [class |-> f[i], at |-> i]]
  BY DEF Documents
<1>0. PICK f \in [1..n -> CharClass] : text = [i \in 1..n |-> [class |-> f[i], at |-> i]]
  BY <1>1
<1>2. n \in Nat /\ MaxLength \in Nat
  BY ChunkingAssumption
<1>3. \A i \in 1..n : [class |-> f[i], at |-> i] \in Char
  BY <1>2 DEF Char
<1>4. text \in [1..n -> Char]
  BY <1>0, <1>3
<1>5. DOMAIN text = 1..n /\ \A i \in 1..n : text[i].at = i
  BY <1>0
<1>6. text \in Text
  BY <1>2, <1>4 DEF Text
<1>7. Rising(text)
  BY <1>5 DEF Rising, Inked
<1> QED
  BY <1>5, <1>6, <1>7

LEMMA InkIs == Ink = InkText(content)
  BY DEF Ink, InkText

LEMMA SplitInitHolds == SplitInit => SplitInv
<1> SUFFICES ASSUME SplitInit PROVE SplitInv
  OBVIOUS
<1>1. /\ content = <<>> /\ settings \in Settings /\ level = "new" /\ base = 0
      /\ units = <<>> /\ parts = <<>> /\ cut = NoCut /\ blocks = <<>>
      /\ parents = <<>> /\ waiting = <<>> /\ children = <<>>
  BY DEF SplitInit
<1>2. <<>> \in Text /\ Rising(<<>>) /\ InkText(<<>>) = {} /\ <<>> \in Seq(Unit)
  BY DEF Text, Rising, InkText, Inked
<1>3. SplitTyped
  <2>1. cut \in [text : Text, start : Nat, cursor : Nat]
    BY <1>1, <1>2 DEF NoCut
  <2> QED
    BY <1>1, <1>2, <2>1 DEF SplitTyped
<1>4. SplitStages
  BY <1>1 DEF SplitStages
<1>5. SplitSizes
  BY <1>1 DEF SplitSizes, NoLonger, WithinSize
<1>6. CutInk = {} /\ Rising(cut.text)
  BY <1>1, NoCutInk
<1>7. SplitHolds
  BY <1>1, <1>2, <1>6, InkIs, NoUnits DEF SplitHolds
<1>8. SplitOrder
  BY <1>1, <1>6, NoUnits, PrecedesUnion DEF SplitOrder, InOrder
<1> QED
  BY <1>3, <1>4, <1>5, <1>7, <1>8 DEF SplitInv

LEMMA BeginKeeps ==
  ASSUME SplitInv, level = "new", NEW text \in Documents, NEW mode \in {"flat", "parent"},
         Begin(text, mode)
  PROVE  SplitInv'
<1>1. /\ level' = mode /\ content' = text
      /\ units' = IF mode = "flat" THEN FlatParagraphs(Strip(text))
                                   ELSE MergeHeadings(ParagraphUnits(text))
      /\ UNCHANGED <<settings, base, parts, cut, blocks, parents, waiting, children>>
  BY DEF Begin
<1>2. /\ parts = <<>> /\ cut = NoCut /\ blocks = <<>>
      /\ parents = <<>> /\ waiting = <<>> /\ children = <<>>
      /\ settings \in Settings /\ base \in Nat
      /\ cut \in [text : Text, start : Nat, cursor : Nat]
  BY DEF SplitInv, SplitStages, SplitTyped
<1>3. text \in Text /\ Rising(text)
  BY DocumentsRise
<1>4. units' \in Seq(Unit) /\ Held(units') = InkText(text) /\ Orderly(units')
  <2>1. CASE mode = "flat"
    BY <1>1, <1>3, <2>1, StrippedHoldsAll, PiecesHoldAll
  <2>2. CASE mode # "flat"
    BY <1>1, <1>3, <2>2, ParagraphsHoldAll, MergeHoldsAll
  <2> QED
    BY <2>1, <2>2
<1>5. SplitTyped'
  BY <1>1, <1>2, <1>3, <1>4 DEF SplitTyped
<1>6. SplitStages'
  BY <1>1, <1>2 DEF SplitStages
<1>7. SplitSizes'
  BY <1>1, <1>2 DEF SplitSizes, NoLonger, WithinSize
<1>8. CutInk' = {} /\ Rising(cut'.text)
  <2>1. CutInk' = CutInk
    BY <1>1 DEF CutInk
  <2> QED
    BY <1>1, <1>2, <2>1, NoCutInk
<1>9. SplitHolds'
  <2>1. Ink' = InkText(text)
    BY <1>1 DEF Ink, InkText
  <2>2. Held(children') = {} /\ Held(blocks') = {} /\ Held(parts') = {} /\ Held(waiting') = {}
    BY <1>1, <1>2, NoUnits
  <2>3. parents' = <<>>
    BY <1>1, <1>2
  <2> QED
    BY <1>4, <1>8, <2>1, <2>2, <2>3 DEF SplitHolds
<1>10. SplitOrder'
  <2>1. /\ Held(children') = {} /\ Held(blocks') = {} /\ Held(parts') = {} /\ Held(waiting') = {}
        /\ Orderly(children') /\ Orderly(blocks') /\ Orderly(parts') /\ Orderly(waiting')
        /\ Orderly(parents')
    BY <1>1, <1>2, NoUnits
  <2> QED
    BY <1>4, <1>8, <2>1, PrecedesUnion DEF SplitOrder, InOrder
<1> QED
  BY <1>5, <1>6, <1>7, <1>9, <1>10 DEF SplitInv

\* The ink when a paragraph is placed: from the units to the parts, the parts
\* to the blocks, or to the cut.
LEMMA PlacedInOrder ==
  ASSUME NEW a, NEW b, NEW c, NEW u, NEW e, NEW f,
         InOrder(a, b, c, {}, u \cup e, f), Precedes(u, e)
  PROVE  /\ InOrder(a, b \cup c, {}, u, e, f)
         /\ InOrder(a, b \cup c, u, {}, e, f)
         /\ InOrder(a, b, c \cup u, {}, e, f)
         /\ Precedes(b, c) /\ Precedes(c, u)
  BY PrecedesUnion, Zenon DEF InOrder

\* From the cut to the blocks.
LEMMA CutInOrder ==
  ASSUME NEW a, NEW b, NEW p, NEW r, NEW e, NEW f,
         InOrder(a, b, {}, p \cup r, e, f), Precedes(p, r)
  PROVE  InOrder(a, b \cup p, {}, r, e, f) /\ Precedes(b, p)
  BY PrecedesUnion, Zenon DEF InOrder

\* From the blocks to the children.
LEMMA FinishedInOrder ==
  ASSUME NEW a, NEW b, NEW c, NEW h, NEW t,
         InOrder(a, b, c, {}, {}, h \cup t), Precedes(h, t)
  PROVE  InOrder(a \cup (b \cup c), {}, {}, {}, h, t) /\ Precedes(a, b \cup c)
  BY PrecedesUnion, Zenon DEF InOrder

LEMMA PlaceUnitKeeps ==
  ASSUME SplitInv, PlaceUnit
  PROVE  SplitInv'
<1>1. PICK u, e : u = Head(units) /\ e = Tail(units)
  OBVIOUS
<1>2. SplitTyped /\ SplitStages /\ SplitSizes /\ SplitHolds /\ SplitOrder
  BY DEF SplitInv
<1>3. /\ Running /\ cut = NoCut /\ units # <<>> /\ units' = e
      /\ UNCHANGED <<content, settings, level, base, parents, waiting, children>>
  BY <1>1 DEF PlaceUnit
<1>4. /\ settings \in Settings /\ level \in {"new", "flat", "parent", "child", "done"}
      /\ base \in Nat /\ units \in Seq(Unit) /\ parts \in Seq(Unit) /\ blocks \in Seq(Unit)
      /\ parents \in Seq(Unit) /\ waiting \in Seq(Unit) /\ children \in Seq(Unit)
      /\ cut \in [text : Text, start : Nat, cursor : Nat]
      /\ content \in Text /\ Rising(content)
  BY <1>2 DEF SplitTyped
<1>5. /\ u \in Unit /\ e \in Seq(Unit) /\ Held(units) = InkOf(u) \cup Held(e)
      /\ Orderly(units) => /\ Rising(u.text) /\ Orderly(e)
                           /\ Precedes(InkOf(u), Held(e))
  BY <1>1, <1>3, <1>4, HeadAndTail
<1>6. /\ u.text \in Text /\ u.start \in Nat /\ InkOf(u) = InkText(u.text)
      /\ Len(u.text) \in Nat /\ Len(u.text) > 0
  <2>1. u.text \in Text /\ u.start \in Nat /\ Trimmed(u.text)
    BY <1>5, UnitFields
  <2> QED
    BY <2>1, InkOfIs DEF Text, Trimmed
<1>7. /\ Flushed \in Seq(Unit) /\ Held(Flushed) = Held(blocks) \cup Held(parts)
      /\ Orderly(blocks) /\ Orderly(parts) /\ Precedes(Held(blocks), Held(parts))
           => Orderly(Flushed)
      /\ NoLonger(Flushed, Size)
  BY <1>2, FlushedHoldsAll
<1>8. CutInk = {} /\ Rising(cut.text)
  BY <1>3, NoCutInk
<1>9. level \in {"flat", "parent", "child"} /\ Size' = Size /\ WithinSize' /\ Ink' = Ink
  <2>1. level \in {"flat", "parent", "child"} /\ Size' = Size /\ Ink' = Ink
    BY <1>3 DEF Running, Size, Ink
  <2>2. WithinSize
    BY <1>2 DEF SplitSizes
  <2>3. WithinSize'
    BY <1>3, <2>2 DEF WithinSize
  <2> QED
    BY <2>1, <2>3
<1>10. SplitStages'
  <2>1. level' = level /\ children' = children /\ parents' = parents /\ waiting' = waiting
    BY <1>3
  <2>2. level \notin {"new", "done"}
    BY <1>9
  <2> QED
    BY <1>2, <2>1, <2>2 DEF SplitStages
<1>11. parents' # <<>> => Held(parents') = Ink'
  BY <1>2, <1>3, <1>9 DEF SplitHolds
<1>12. Held(children) \cup Held(blocks) \cup Held(parts) \cup InkOf(u)
         \cup Held(e) \cup Held(waiting) = Ink
  BY <1>2, <1>5, <1>8 DEF SplitHolds
<1>13. settings.overlap = 0 =>
         /\ Orderly(children) /\ Orderly(blocks) /\ Orderly(parts) /\ Orderly(waiting)
         /\ Orderly(parents) /\ Orderly(e) /\ Orderly(Flushed) /\ Rising(u.text)
         /\ InOrder(Held(children), Held(blocks) \cup Held(parts), {}, InkOf(u), Held(e),
                    Held(waiting))
         /\ InOrder(Held(children), Held(blocks) \cup Held(parts), InkOf(u), {}, Held(e),
                    Held(waiting))
         /\ InOrder(Held(children), Held(blocks), Held(parts) \cup InkOf(u), {}, Held(e),
                    Held(waiting))
         /\ Precedes(Held(parts), InkOf(u))
  <2> SUFFICES ASSUME settings.overlap = 0
               PROVE  /\ Orderly(children) /\ Orderly(blocks) /\ Orderly(parts)
                      /\ Orderly(waiting)
                      /\ Orderly(parents) /\ Orderly(e) /\ Orderly(Flushed) /\ Rising(u.text)
                      /\ InOrder(Held(children), Held(blocks) \cup Held(parts), {}, InkOf(u),
                                 Held(e), Held(waiting))
                      /\ InOrder(Held(children), Held(blocks) \cup Held(parts), InkOf(u), {},
                                 Held(e), Held(waiting))
                      /\ InOrder(Held(children), Held(blocks), Held(parts) \cup InkOf(u), {},
                                 Held(e), Held(waiting))
                      /\ Precedes(Held(parts), InkOf(u))
    OBVIOUS
  <2>1. /\ Orderly(children) /\ Orderly(blocks) /\ Orderly(parts)
        /\ Orderly(units) /\ Orderly(waiting) /\ Orderly(parents)
        /\ InOrder(Held(children), Held(blocks), Held(parts), CutInk, Held(units),
                   Held(waiting))
    BY <1>2 DEF SplitOrder
  <2>2. InOrder(Held(children), Held(blocks), Held(parts), {}, InkOf(u) \cup Held(e),
                Held(waiting))
    BY <1>5, <1>8, <2>1
  <2>3. Rising(u.text) /\ Orderly(e) /\ Precedes(InkOf(u), Held(e))
    BY <1>5, <2>1
  <2>4. /\ InOrder(Held(children), Held(blocks) \cup Held(parts), {}, InkOf(u),
                   Held(e), Held(waiting))
        /\ InOrder(Held(children), Held(blocks) \cup Held(parts), InkOf(u), {},
                   Held(e), Held(waiting))
        /\ InOrder(Held(children), Held(blocks), Held(parts) \cup InkOf(u), {},
                   Held(e), Held(waiting))
        /\ Precedes(Held(blocks), Held(parts)) /\ Precedes(Held(parts), InkOf(u))
    BY <2>2, <2>3, PlacedInOrder
  <2> QED
    BY <1>7, <2>1, <2>3, <2>4
<1>14. \/ /\ Len(u.text) > Size /\ blocks' = Flushed /\ parts' = <<>>
          /\ cut' = [text |-> u.text, start |-> u.start, cursor |-> 0]
       \/ /\ Len(u.text) <= Size /\ cut' = cut /\ blocks' = Flushed /\ parts' = <<u>>
       \/ /\ parts = <<>> /\ Len(u.text) <= Size
          /\ cut' = cut /\ blocks' = blocks /\ parts' = <<u>>
       \/ /\ parts # <<>> /\ Len(Joined(Append(parts, u))) <= Size
          /\ cut' = cut /\ blocks' = blocks /\ parts' = Append(parts, u)
  <2>1. Size \in Nat /\ Len(Joined(Append(parts, u))) \in Nat
    <3>1. Append(parts, u) \in Seq(Unit)
      BY <1>4, <1>5, AppendUnit
    <3> QED
      BY <1>2, <3>1, SizeIs, JoinedHoldsAll DEF Text
  <2>2. IF Len(u.text) > Size
          THEN /\ blocks' = Flushed /\ parts' = <<>>
               /\ cut' = [text |-> u.text, start |-> u.start, cursor |-> 0]
          ELSE /\ UNCHANGED cut
               /\ IF parts # <<>> /\ Len(Joined(Append(parts, u))) > Size
                    THEN blocks' = Flushed /\ parts' = <<u>>
                    ELSE parts' = Append(parts, u) /\ UNCHANGED blocks
    BY <1>1 DEF PlaceUnit
  <2>3. parts = <<>> => Append(parts, u) = <<u>>
    BY <1>5
  <2>4. PICK n, m, size : /\ n = Len(u.text) /\ m = Len(Joined(Append(parts, u)))
                          /\ size = Size
    OBVIOUS
  <2>5. n \in Nat /\ m \in Nat /\ size \in Nat
    BY <1>6, <2>1, <2>4
  <2>6. (n > size \/ n <= size) /\ (m > size \/ m <= size)
        /\ ~(n > size /\ n <= size) /\ ~(m > size /\ m <= size)
    BY <2>5
  <2> QED
    BY <2>2, <2>3, <2>4, <2>6, Zenon
<1>15. CASE /\ Len(u.text) > Size /\ blocks' = Flushed /\ parts' = <<>>
            /\ cut' = [text |-> u.text, start |-> u.start, cursor |-> 0]
  <2>1. cut'.text = u.text /\ cut'.cursor = 0 /\ cut' \in [text : Text, start : Nat, cursor : Nat]
    BY <1>6, <1>15
  <2>2. CutInk' = InkOf(u)
    <3>1. CutInk' = InkBetween(u.text, 0 + 1, Len(u.text))
      BY <2>1 DEF CutInk
    <3>2. 0 + 1 = 1
      OBVIOUS
    <3> QED
      BY <1>6, <3>1, <3>2, AllInk
  <2>3. SplitTyped'
    BY <1>3, <1>4, <1>5, <1>6, <1>7, <1>15, <2>1 DEF SplitTyped
  <2>4. SplitSizes'
    <3>1. NoLonger(blocks', Size')
      BY <1>7, <1>9, <1>15
    <3>2. parts' = <<>>
      BY <1>15
    <3> QED
      BY <1>9, <3>1, <3>2 DEF SplitSizes, NoLonger
  <2>5. Held(blocks') = Held(blocks) \cup Held(parts) /\ Held(parts') = {} /\ Orderly(parts')
    BY <1>7, <1>15, NoUnits
  <2>6. SplitHolds'
    BY <1>3, <1>9, <1>11, <1>12, <2>2, <2>5 DEF SplitHolds
  <2>7. SplitOrder'
    BY <1>3, <1>13, <1>15, <2>1, <2>2, <2>5 DEF SplitOrder
  <2> QED
    BY <1>10, <2>3, <2>4, <2>6, <2>7 DEF SplitInv
<1>16. ASSUME cut' = cut, blocks' \in Seq(Unit), parts' \in Seq(Unit),
              parts' # <<>> => Len(Joined(parts')) <= Size, NoLonger(blocks', Size),
              Held(blocks') \cup Held(parts') = Held(blocks) \cup Held(parts) \cup InkOf(u),
              settings.overlap = 0 =>
                /\ Orderly(blocks') /\ Orderly(parts')
                /\ InOrder(Held(children), Held(blocks'), Held(parts'), {}, Held(e),
                           Held(waiting))
       PROVE  SplitInv'
  <2>1. SplitTyped'
    BY <1>3, <1>4, <1>5, <1>16 DEF SplitTyped
  <2>2. SplitSizes'
    <3>1. Joined(parts)' = Joined(parts')
      BY DEF Joined, Scan, PartAt
    <3> QED
      BY <1>9, <1>16, <3>1 DEF SplitSizes, NoLonger
  <2>3. CutInk' = {} /\ cut'.text = cut.text
    BY <1>8, <1>16 DEF CutInk
  <2>4. SplitHolds'
    <3>1. Held(children) \cup Held(blocks') \cup Held(parts') \cup {} \cup Held(e)
            \cup Held(waiting) = Ink
      BY <1>12, <1>16
    <3> QED
      BY <1>3, <1>9, <1>11, <2>3, <3>1 DEF SplitHolds
  <2>5. SplitOrder'
    BY <1>3, <1>8, <1>13, <1>16, <2>3 DEF SplitOrder
  <2> QED
    BY <1>10, <2>1, <2>2, <2>4, <2>5 DEF SplitInv
<1>17. /\ <<u>> \in Seq(Unit) /\ Held(<<u>>) = InkOf(u) /\ Joined(<<u>>) = u.text
       /\ Rising(u.text) => Orderly(<<u>>)
  BY <1>5, OneUnit, JoinedOne
<1>18. CASE Len(u.text) <= Size /\ cut' = cut /\ blocks' = Flushed /\ parts' = <<u>>
  BY <1>7, <1>13, <1>16, <1>17, <1>18
<1>19. CASE /\ parts = <<>> /\ Len(u.text) <= Size
            /\ cut' = cut /\ blocks' = blocks /\ parts' = <<u>>
  <2>1. Flushed = blocks
    BY <1>19 DEF Flushed
  <2> QED
    BY <1>7, <1>13, <1>16, <1>17, <1>19, <2>1
<1>20. CASE /\ parts # <<>> /\ Len(Joined(Append(parts, u))) <= Size
            /\ cut' = cut /\ blocks' = blocks /\ parts' = Append(parts, u)
  <2>1. /\ parts' \in Seq(Unit) /\ Held(parts') = Held(parts) \cup InkOf(u)
        /\ Orderly(parts) /\ Rising(u.text) /\ Precedes(Held(parts), InkOf(u))
             => Orderly(parts')
    BY <1>4, <1>5, <1>20, AppendUnit
  <2>2. NoLonger(blocks, Size)
    BY <1>2 DEF SplitSizes
  <2> QED
    BY <1>4, <1>13, <1>16, <1>20, <2>1, <2>2
<1> QED
  BY <1>14, <1>15, <1>18, <1>19, <1>20

LEMMA CutPieceKeeps ==
  ASSUME SplitInv, CutPiece
  PROVE  SplitInv'
<1>1. PICK t, cursor, end, raw : /\ t = cut.text /\ cursor = cut.cursor
                                 /\ end = PieceEnd(cut.text, cut.cursor)
                                 /\ raw = SubSeq(cut.text, cut.cursor + 1, end)
  OBVIOUS
<1>2. PICK piece : piece = [text |-> Strip(raw),
                            start |-> base + cut.start + cut.cursor + Leading(raw),
                            end |-> base + cut.start + end - Trailing(raw)]
  OBVIOUS
<1>3. /\ cut # NoCut
      /\ blocks' = IF piece.text = <<>> THEN blocks ELSE Append(blocks, piece)
      /\ cut' = IF end >= Len(cut.text) THEN NoCut
                ELSE [cut EXCEPT !.cursor = NextCursor(@, end)]
      /\ UNCHANGED <<content, settings, level, base, units, parts, parents,
                     waiting, children>>
  BY <1>1, <1>2 DEF CutPiece
<1>4. SplitTyped /\ SplitStages /\ SplitSizes /\ SplitHolds /\ SplitOrder
  BY DEF SplitInv
<1>5. /\ settings \in Settings /\ level \in {"new", "flat", "parent", "child", "done"}
      /\ base \in Nat /\ units \in Seq(Unit) /\ parts \in Seq(Unit) /\ blocks \in Seq(Unit)
      /\ parents \in Seq(Unit) /\ waiting \in Seq(Unit) /\ children \in Seq(Unit)
      /\ cut \in [text : Text, start : Nat, cursor : Nat]
      /\ content \in Text /\ Rising(content) /\ parts = <<>>
      /\ cut.cursor < Len(cut.text)
  BY <1>3, <1>4 DEF SplitTyped
<1>6. PICK n, size : n = Len(t) /\ size = Size
  OBVIOUS
<1>7. /\ t \in Text /\ cursor \in Nat /\ cut.start \in Nat /\ n \in Nat /\ cursor < n
      /\ size \in Nat \ {0}
  BY <1>1, <1>4, <1>5, <1>6, SizeIs DEF Text
<1>8. end \in (cursor + 1)..n /\ end <= cursor + size
  BY <1>1, <1>4, <1>6, <1>7, PieceEndIs
<1>9. cursor + 1 \in 1..(n + 1) /\ end \in (cursor + 1 - 1)..n /\ end - (cursor + 1) + 1 <= size
  BY <1>7, <1>8
<1>10. raw = SubSeq(t, cursor + 1, end)
  BY <1>1
<1>11. PICK x : x = Strip(raw)
  OBVIOUS
<1>12. /\ x \in Text /\ Len(x) <= end - (cursor + 1) + 1
       /\ x = <<>> \/ Trimmed(x)
       /\ InkText(x) = InkBetween(t, cursor + 1, end)
       /\ Rising(t) => Rising(x)
  <2>1. PICK a : a = cursor + 1
    OBVIOUS
  <2>2. t \in Text /\ a \in 1..(Len(t) + 1) /\ end \in (a - 1)..Len(t)
    BY <1>6, <1>7, <1>9, <2>1
  <2>3. raw = SubSeq(t, a, end)
    BY <1>10, <2>1
  <2>4. /\ Strip(raw) \in Text /\ Len(Strip(raw)) <= end - a + 1
        /\ Strip(raw) = <<>> \/ Trimmed(Strip(raw))
        /\ InkText(Strip(raw)) = InkBetween(t, a, end)
        /\ Rising(t) => Rising(Strip(raw))
    BY <2>2, <2>3, StrippedInk
  <2> QED
    BY <1>11, <2>1, <2>4
<1>13. Len(x) \in Nat /\ Len(x) <= size
  BY <1>8, <1>7, <1>9, <1>12 DEF Text
<1>14. x # <<>> => piece \in Unit /\ piece.text = x
  <2> SUFFICES ASSUME x # <<>> PROVE piece \in Unit /\ piece.text = x
    OBVIOUS
  <2>1. PICK c \in 1..Len(t), d \in 1..Len(t) :
          /\ StripsTo(Strip(raw), t, cursor + 1, end, c, d)
          /\ Leading(raw) = c - (cursor + 1) /\ Trailing(raw) = end - d
    <3>1. PICK a : a = cursor + 1
      OBVIOUS
    <3>2. t \in Text /\ a \in 1..(Len(t) + 1) /\ end \in (a - 1)..Len(t)
      BY <1>6, <1>7, <1>9, <3>1
    <3>3. raw = SubSeq(t, a, end)
      BY <1>10, <3>1
    <3>5. Strip(raw) # <<>>
      BY <1>11
    <3>4. PICK c, d \in 1..Len(t) : StripsAt(raw, t, a, end, c, d)
      BY <3>2, <3>3, <3>5, StrippedPart
    <3> QED
      BY <3>1, <3>4 DEF StripsAt
  <2>2. cursor + 1 <= c /\ c <= d /\ d <= end
    BY <2>1 DEF StripsTo
  <2>3. PICK b, e : /\ b = base + cut.start + cut.cursor + Leading(raw)
                    /\ e = base + cut.start + end - Trailing(raw)
    OBVIOUS
  <2>4. b = base + cut.start + c - 1 /\ e = base + cut.start + d
    <3>1. PICK s : s = cut.start
      OBVIOUS
    <3>2. s \in Nat /\ base \in Nat /\ cursor \in Nat /\ c \in Nat /\ d \in Nat /\ end \in Nat
      BY <1>5, <1>6, <1>7, <1>8, <3>1
    <3>3. b = base + s + cursor + (c - (cursor + 1)) /\ e = base + s + end - (end - d)
      BY <1>1, <2>1, <2>3, <3>1
    <3> QED
      BY <3>1, <3>2, <3>3
  <2>5. b \in Nat /\ e \in Nat
    <3>1. PICK s : s = cut.start
      OBVIOUS
    <3>2. s \in Nat /\ base \in Nat /\ c \in Nat /\ d \in Nat /\ c >= 1
      BY <1>5, <1>6, <1>7, <3>1
    <3> QED
      BY <2>4, <3>1, <3>2
  <2>6. piece = [text |-> x, start |-> b, end |-> e]
    BY <1>2, <1>11, <2>3
  <2>7. x \in Text \ {<<>>} /\ Trimmed(x)
    BY <1>12
  <2> QED
    BY <2>5, <2>6, <2>7 DEF Unit, Block
<1>15. /\ blocks' \in Seq(Unit)
       /\ Held(blocks') = Held(blocks) \cup InkBetween(t, cursor + 1, end)
       /\ NoLonger(blocks', Size')
       /\ Orderly(blocks) /\ Rising(t)
            /\ Precedes(Held(blocks), InkBetween(t, cursor + 1, end)) => Orderly(blocks')
  <2>1. Size' = size /\ NoLonger(blocks, size)
    <3>1. Size' = Size
      BY <1>3 DEF Size
    <3> QED
      BY <1>4, <1>6, <3>1 DEF SplitSizes
  <2>2. CASE x = <<>>
    <3>1. piece.text = <<>>
      BY <1>2, <1>11, <2>2
    <3>2. InkBetween(t, cursor + 1, end) = {}
      BY <1>12, <2>2 DEF InkText, Inked
    <3> QED
      BY <1>3, <1>5, <2>1, <3>1, <3>2
  <2>3. CASE x # <<>>
    <3>1. piece \in Unit /\ piece.text = x /\ blocks' = Append(blocks, piece)
      BY <1>3, <1>14, <2>3
    <3>2. InkOf(piece) = InkBetween(t, cursor + 1, end)
      BY <1>12, <3>1, InkOfIs
    <3>3. NoLonger(blocks', size)
      <4>1. ASSUME NEW i \in DOMAIN Append(blocks, piece)
            PROVE  \/ Append(blocks, piece)[i] = piece
                   \/ i \in DOMAIN blocks /\ Append(blocks, piece)[i] = blocks[i]
        BY <1>5, <3>1, <4>1, AppendedAt
      <4> QED
        BY <1>13, <2>1, <3>1, <4>1 DEF NoLonger
    <3> QED
      BY <1>5, <1>12, <2>1, <3>1, <3>2, <3>3, AppendUnit
  <2> QED
    BY <2>2, <2>3
<1>16. /\ cut' \in [text : Text, start : Nat, cursor : Nat]
       /\ cut' # NoCut => cut'.cursor < Len(cut'.text)
       /\ CutInk = InkBetween(t, cursor + 1, end) \cup CutInk'
       /\ settings.overlap = 0 /\ Rising(t) =>
            Precedes(InkBetween(t, cursor + 1, end), CutInk') /\ Rising(cut'.text)
  <2>1. CutInk = InkBetween(t, cursor + 1, n)
    BY <1>1, <1>6 DEF CutInk
  <2>2. CASE end >= Len(cut.text)
    <3>1. cut' = NoCut /\ end = n
      BY <1>1, <1>3, <1>6, <1>7, <1>8, <2>2
    <3>2. cut' \in [text : Text, start : Nat, cursor : Nat] /\ cut'.text = <<>>
      BY <3>1 DEF NoCut, Text
    <3>3. CutInk' = {} /\ Rising(cut'.text)
      BY <3>2 DEF CutInk, InkBetween, Inked, Rising
    <3> QED
      BY <2>1, <3>1, <3>2, <3>3, PrecedesUnion
  <2>3. CASE ~(end >= Len(cut.text))
    <3>1. end < n /\ end \in Nat /\ cursor < end
      BY <1>1, <1>6, <1>7, <1>8, <2>3
    <3>2. PICK k : k = NextCursor(cursor, end)
      OBVIOUS
    <3>3. k \in (cursor + 1)..end /\ (settings.overlap = 0 => k = end)
      BY <1>4, <1>7, <3>1, <3>2, NextCursorIs
    <3>4. cut' = [cut EXCEPT !.cursor = k]
      BY <1>1, <1>3, <2>3, <3>2
    <3>5. k \in Nat /\ k < n
      BY <1>7, <3>1, <3>3
    <3>6. /\ cut' \in [text : Text, start : Nat, cursor : Nat]
          /\ cut'.text = t /\ cut'.cursor = k
      BY <1>1, <1>5, <3>4, <3>5
    <3>7. CutInk' = InkBetween(t, k + 1, n)
      BY <1>6, <3>6 DEF CutInk
    <3>8. InkBetween(t, cursor + 1, n) = InkBetween(t, cursor + 1, end) \cup InkBetween(t, k + 1, n)
      <4>1. Inked(t) \subseteq 1..n
        BY <1>6, <1>7 DEF Inked, Text
      <4>2. \A i \in 1..n : cursor + 1 <= i /\ i <= n <=>
              ((cursor + 1 <= i /\ i <= end) \/ (k + 1 <= i /\ i <= n))
        BY <1>7, <1>8, <3>3, <3>5
      <4> QED
        BY <4>1, <4>2 DEF InkBetween
    <3>9. ASSUME settings.overlap = 0, Rising(t)
          PROVE  Precedes(InkBetween(t, cursor + 1, end), CutInk') /\ Rising(cut'.text)
      <4>1. k = end /\ end + 1 - 1 = end /\ end + 1 \in (cursor + 1)..(n + 1)
        BY <1>7, <3>1, <3>3, <3>9
      <4>2. Precedes(InkBetween(t, cursor + 1, end + 1 - 1), InkBetween(t, end + 1, n))
        BY <1>6, <1>7, <1>9, <3>9, <4>1, InkFrom
      <4> QED
        BY <3>6, <3>7, <3>9, <4>1, <4>2
    <3> QED
      BY <1>6, <2>1, <3>5, <3>6, <3>7, <3>8, <3>9
  <2> QED
    BY <2>2, <2>3
<1>17. SplitTyped'
  BY <1>3, <1>5, <1>15, <1>16 DEF SplitTyped
<1>18. SplitStages'
  <2>1. level' = level /\ children' = children /\ parents' = parents /\ waiting' = waiting
    BY <1>3
  <2>2. level \notin {"new", "done"}
    BY <1>3, <1>4 DEF SplitStages
  <2> QED
    BY <1>4, <2>1, <2>2 DEF SplitStages
<1>19. SplitSizes'
  <2>1. parts' = <<>>
    BY <1>3, <1>5
  <2>2. WithinSize'
    BY <1>3, <1>4 DEF SplitSizes, WithinSize
  <2> QED
    BY <1>15, <2>1, <2>2 DEF SplitSizes, NoLonger
<1>20. SplitHolds'
  <2>1. Ink' = Ink
    BY <1>3 DEF Ink
  <2>2. Held(children) \cup Held(blocks) \cup Held(parts) \cup CutInk
          \cup Held(units) \cup Held(waiting) = Ink
    BY <1>4 DEF SplitHolds
  <2>3. Held(children) \cup Held(blocks') \cup Held(parts) \cup CutInk'
          \cup Held(units) \cup Held(waiting) = Ink
    BY <1>15, <1>16, <2>2
  <2>4. parents' # <<>> => Held(parents') = Ink'
    BY <1>3, <1>4, <2>1 DEF SplitHolds
  <2> QED
    BY <1>3, <2>1, <2>3, <2>4 DEF SplitHolds
<1>21. SplitOrder'
  <2> SUFFICES ASSUME settings.overlap = 0
               PROVE  /\ Orderly(children) /\ Orderly(blocks') /\ Orderly(parts)
                      /\ Rising(cut'.text)
                      /\ Orderly(units) /\ Orderly(waiting) /\ Orderly(parents)
                      /\ InOrder(Held(children), Held(blocks'), Held(parts), CutInk',
                                 Held(units), Held(waiting))
    BY <1>3 DEF SplitOrder
  <2>1. /\ Orderly(children) /\ Orderly(blocks) /\ Orderly(parts) /\ Rising(t)
        /\ Orderly(units) /\ Orderly(waiting) /\ Orderly(parents)
        /\ InOrder(Held(children), Held(blocks), Held(parts), CutInk, Held(units),
                   Held(waiting))
    BY <1>1, <1>4 DEF SplitOrder
  <2>2. Held(parts) = {}
    BY <1>5, NoUnits
  <2>3. /\ InOrder(Held(children), Held(blocks) \cup InkBetween(t, cursor + 1, end), {}, CutInk',
                   Held(units), Held(waiting))
        /\ Precedes(Held(blocks), InkBetween(t, cursor + 1, end))
    <3>1. PICK p, r : p = InkBetween(t, cursor + 1, end) /\ r = CutInk'
      OBVIOUS
    <3>2. CutInk = p \cup r /\ Precedes(p, r)
      BY <1>16, <2>1, <3>1
    <3>3. InOrder(Held(children), Held(blocks), {}, p \cup r, Held(units), Held(waiting))
      BY <2>1, <2>2, <3>2
    <3> QED
      BY <3>1, <3>2, <3>3, CutInOrder
  <2> QED
    BY <1>15, <1>16, <2>1, <2>2, <2>3
<1> QED
  BY <1>17, <1>18, <1>19, <1>20, <1>21 DEF SplitInv

\* The next parent block is split into paragraphs.
LEMMA NextParentHoldsAll ==
  ASSUME NEW b \in Unit
  PROVE  /\ MergeHeadings(ParagraphUnits(b.text)) \in Seq(Unit)
         /\ Held(MergeHeadings(ParagraphUnits(b.text))) = InkOf(b)
         /\ Rising(b.text) => Orderly(MergeHeadings(ParagraphUnits(b.text)))
<1>1. b.text \in Text
  BY UnitFields
<1>2. PICK ps : ps = ParagraphUnits(b.text)
  OBVIOUS
<1>3. ps \in Seq(Unit) /\ Held(ps) = InkText(b.text) /\ (Rising(b.text) => Orderly(ps))
  BY <1>1, <1>2, ParagraphsHoldAll
<1> QED
  BY <1>2, <1>3, MergeHoldsAll, InkOfIs

LEMMA FinishSplitKeeps ==
  ASSUME SplitInv, FinishSplit
  PROVE  SplitInv'
<1>1. PICK todo, fl : todo = (IF level = "parent" THEN Flushed ELSE waiting) /\ fl = Flushed
  OBVIOUS
<1>2. /\ Running /\ cut = NoCut /\ units = <<>>
      /\ parts' = <<>> /\ blocks' = <<>>
      /\ IF level = "parent" THEN parents' = fl /\ UNCHANGED children
                             ELSE children' = children \o fl /\ UNCHANGED parents
      /\ IF todo = <<>>
           THEN /\ level' = "done"
                /\ UNCHANGED <<base, units, waiting>>
           ELSE /\ level' = "child"
                /\ base' = Head(todo).start
                /\ units' = MergeHeadings(ParagraphUnits(Head(todo).text))
                /\ waiting' = Tail(todo)
      /\ UNCHANGED <<content, settings, cut>>
  BY <1>1 DEF FinishSplit
<1>3. SplitTyped /\ SplitStages /\ SplitSizes /\ SplitHolds /\ SplitOrder
  BY DEF SplitInv
<1>4. /\ settings \in Settings /\ level \in {"new", "flat", "parent", "child", "done"}
      /\ base \in Nat /\ units \in Seq(Unit) /\ parts \in Seq(Unit) /\ blocks \in Seq(Unit)
      /\ parents \in Seq(Unit) /\ waiting \in Seq(Unit) /\ children \in Seq(Unit)
      /\ cut \in [text : Text, start : Nat, cursor : Nat]
      /\ content \in Text /\ Rising(content)
  BY <1>3 DEF SplitTyped
<1>5. /\ fl \in Seq(Unit) /\ Held(fl) = Held(blocks) \cup Held(parts)
      /\ Orderly(blocks) /\ Orderly(parts) /\ Precedes(Held(blocks), Held(parts))
           => Orderly(fl)
      /\ NoLonger(fl, Size)
  BY <1>1, <1>3, FlushedHoldsAll
<1>6. CutInk = {} /\ CutInk' = {} /\ Rising(cut.text) /\ cut'.text = cut.text
  <2>1. cut' = cut
    BY <1>2
  <2>2. CutInk' = CutInk
    BY <2>1 DEF CutInk
  <2> QED
    BY <1>2, <2>1, <2>2, NoCutInk
<1>7. Held(units) = {} /\ Held(parts') = {} /\ Held(blocks') = {}
      /\ Orderly(parts') /\ Orderly(blocks')
  BY <1>2, NoUnits
<1>8. Ink' = Ink
  BY <1>2 DEF Ink
<1>9. Held(children) \cup Held(fl) \cup Held(waiting) = Ink
  BY <1>3, <1>5, <1>6, <1>7 DEF SplitHolds
<1>10. settings.overlap = 0 =>
         /\ Orderly(children) /\ Orderly(fl) /\ Orderly(waiting) /\ Orderly(parents)
         /\ InOrder(Held(children), Held(blocks), Held(parts), {}, {}, Held(waiting))
  <2> SUFFICES ASSUME settings.overlap = 0
               PROVE  /\ Orderly(children) /\ Orderly(fl) /\ Orderly(waiting)
                      /\ Orderly(parents)
                      /\ InOrder(Held(children), Held(blocks), Held(parts), {}, {},
                                 Held(waiting))
    OBVIOUS
  <2>1. /\ Orderly(children) /\ Orderly(blocks) /\ Orderly(parts)
        /\ Orderly(waiting) /\ Orderly(parents)
        /\ InOrder(Held(children), Held(blocks), Held(parts), CutInk, Held(units),
                   Held(waiting))
    BY <1>3 DEF SplitOrder
  <2>2. Precedes(Held(blocks), Held(parts))
    BY <2>1 DEF InOrder
  <2> QED
    BY <1>5, <1>6, <1>7, <2>1, <2>2
<1>11. todo \in Seq(Unit)
  BY <1>1, <1>4, <1>5
\* The two halves of the step: what was made is put away, the next begins.
<1>12. /\ parents' \in Seq(Unit) /\ children' \in Seq(Unit) /\ WithinSize'
       /\ Held(children') \cup Held(todo) = Ink
       /\ parents' # <<>> => Held(parents') = Ink
       /\ settings.overlap = 0 =>
            /\ Orderly(children') /\ Orderly(todo) /\ Orderly(parents')
            /\ Precedes(Held(children'), Held(todo))
  <2>1. WithinSize /\ settings' = settings
    BY <1>2, <1>3 DEF SplitSizes
  <2>2. CASE level = "parent"
    <3>1. children = <<>> /\ waiting = <<>>
      BY <1>3, <2>2 DEF SplitStages
    <3>2. parents' = fl /\ children' = children /\ todo = fl
      BY <1>1, <1>2, <2>2
    <3>3. Held(children) = {} /\ Held(waiting) = {}
      BY <3>1, NoUnits
    <3>4. Held(fl) = Ink
      BY <1>9, <3>3
    <3>5. Size = settings.parent
      BY <2>2 DEF Size
    <3>6. WithinSize'
      BY <1>5, <2>1, <3>2, <3>5 DEF WithinSize, NoLonger
    <3> QED
      BY <1>4, <1>5, <1>10, <3>2, <3>3, <3>4, <3>6, PrecedesUnion
  <2>3. CASE level # "parent"
    <3>1. children' = children \o fl /\ parents' = parents /\ todo = waiting
      BY <1>1, <1>2, <2>3
    <3>2. /\ children' \in Seq(Unit) /\ Held(children') = Held(children) \cup Held(fl)
          /\ Orderly(children) /\ Orderly(fl) /\ Precedes(Held(children), Held(fl))
               => Orderly(children')
      BY <1>4, <1>5, <3>1, ConcatUnits
    <3>3. ASSUME settings.overlap = 0
          PROVE  Orderly(children') /\ Precedes(Held(children'), Held(todo))
      <4>1. /\ Orderly(children) /\ Orderly(fl)
            /\ InOrder(Held(children), Held(blocks), Held(parts), {}, {}, Held(waiting))
        BY <1>10, <3>3
      <4>2. Precedes(Held(children), Held(fl))
        BY <1>5, <4>1, PrecedesUnion DEF InOrder
      <4>3. Precedes(Held(fl), Held(waiting)) /\ Precedes(Held(children), Held(waiting))
        BY <1>5, <4>1, PrecedesUnion DEF InOrder
      <4>4. Precedes(Held(children) \cup Held(fl), Held(waiting))
        BY <4>3, PrecedesUnion
      <4> QED
        BY <3>1, <3>2, <4>1, <4>2, <4>4
    <3>4. Size = settings.child
      BY <2>3 DEF Size
    <3>5. WithinSize'
      <4>1. ASSUME NEW i \in DOMAIN (children \o fl)
            PROVE  Len((children \o fl)[i].text) <= settings.child
        <5>1. PICK n, m, z : n = Len(children) /\ m = Len(fl) /\ z = children \o fl
          OBVIOUS
        <5>2. /\ n \in Nat /\ m \in Nat /\ DOMAIN children = 1..n /\ DOMAIN fl = 1..m
              /\ i \in 1..(n + m)
              /\ \A k \in 1..n : z[k] = children[k]
              /\ \A k \in 1..m : z[n + k] = fl[k]
          BY <1>4, <1>5, <4>1, <5>1
        <5>3. CASE i \in 1..n
          BY <2>1, <5>1, <5>2, <5>3 DEF WithinSize
        <5>4. CASE i \notin 1..n
          <6>1. i - n \in 1..m /\ n + (i - n) = i
            BY <5>2, <5>4
          <6>2. z[i] = fl[i - n]
            BY <5>2, <6>1
          <6> QED
            BY <1>5, <3>4, <5>1, <5>2, <6>1, <6>2 DEF NoLonger
        <5> QED
          BY <5>3, <5>4
      <4> QED
        BY <2>1, <3>1, <4>1 DEF WithinSize
    <3>6. Held(children') \cup Held(todo) = Ink
      BY <1>9, <3>1, <3>2
    <3> QED
      BY <1>3, <1>4, <1>10, <3>1, <3>2, <3>3, <3>5, <3>6 DEF SplitHolds
  <2> QED
    BY <2>2, <2>3
<1>13. CASE todo = <<>>
  <2>1. level' = "done" /\ base' = base /\ units' = <<>> /\ waiting' = waiting /\ cut' = cut
    BY <1>2, <1>13
  <2>2. waiting' = <<>>
    <3>1. CASE level = "parent"
      BY <1>3, <2>1, <3>1 DEF SplitStages
    <3>2. CASE level # "parent"
      BY <1>1, <1>13, <2>1, <3>2
    <3> QED
      BY <3>1, <3>2
  <2>3. SplitTyped'
    BY <1>2, <1>4, <1>12, <2>1, <2>2 DEF SplitTyped
  <2>4. SplitStages'
    BY <1>2, <2>1, <2>2 DEF SplitStages
  <2>5. SplitSizes'
    BY <1>2, <1>12 DEF SplitSizes, NoLonger
  <2>6. Held(units') = {} /\ Held(waiting') = {} /\ Held(todo) = {}
        /\ Orderly(units') /\ Orderly(waiting')
    BY <1>13, <2>1, <2>2, NoUnits
  <2>7. SplitHolds'
    BY <1>6, <1>7, <1>8, <1>12, <2>6 DEF SplitHolds
  <2>8. SplitOrder'
    BY <1>2, <1>6, <1>7, <1>12, <2>6, PrecedesUnion DEF SplitOrder, InOrder
  <2> QED
    BY <2>3, <2>4, <2>5, <2>7, <2>8 DEF SplitInv
<1>14. CASE todo # <<>>
  <2>1. PICK h, t : h = Head(todo) /\ t = Tail(todo)
    OBVIOUS
  <2>2. /\ level' = "child" /\ base' = h.start /\ waiting' = t /\ cut' = cut
        /\ units' = MergeHeadings(ParagraphUnits(h.text))
    BY <1>2, <1>14, <2>1
  <2>3. /\ h \in Unit /\ t \in Seq(Unit) /\ Held(todo) = InkOf(h) \cup Held(t)
        /\ Orderly(todo) => /\ Rising(h.text) /\ Orderly(t)
                            /\ Precedes(InkOf(h), Held(t))
    BY <1>11, <1>14, <2>1, HeadAndTail
  <2>4. h.start \in Nat
    BY <2>3, UnitFields
  <2>5. /\ units' \in Seq(Unit) /\ Held(units') = InkOf(h)
        /\ Rising(h.text) => Orderly(units')
    BY <2>2, <2>3, NextParentHoldsAll
  <2>6. SplitTyped'
    BY <1>2, <1>4, <1>12, <2>2, <2>3, <2>4, <2>5 DEF SplitTyped
  <2>7. SplitStages'
    BY <2>2 DEF SplitStages
  <2>8. SplitSizes'
    BY <1>2, <1>12 DEF SplitSizes, NoLonger
  <2>9. SplitHolds'
    <3>1. Held(children') \cup {} \cup {} \cup {} \cup InkOf(h) \cup Held(t) = Ink
      BY <1>12, <2>3
    <3> QED
      BY <1>6, <1>7, <1>8, <1>12, <2>2, <2>5, <3>1 DEF SplitHolds
  <2>10. ASSUME settings.overlap = 0
         PROVE  /\ Orderly(children') /\ Orderly(units') /\ Orderly(waiting')
                /\ Orderly(parents')
                /\ InOrder(Held(children'), {}, {}, {}, InkOf(h), Held(t))
    <3>1. /\ Orderly(children') /\ Orderly(todo) /\ Orderly(parents')
          /\ Precedes(Held(children'), Held(todo))
      BY <1>12, <2>10
    <3>2. Rising(h.text) /\ Orderly(t) /\ Precedes(InkOf(h), Held(t))
      BY <2>3, <3>1
    <3>3. Precedes(Held(children'), InkOf(h)) /\ Precedes(Held(children'), Held(t))
      BY <2>3, <3>1, PrecedesUnion
    <3>4. InOrder(Held(children'), {}, {}, {}, InkOf(h), Held(t))
      BY <3>2, <3>3, PrecedesUnion DEF InOrder
    <3> QED
      BY <2>2, <2>5, <3>1, <3>2, <3>4
  <2>11. SplitOrder'
    BY <1>2, <1>6, <1>7, <2>2, <2>5, <2>10 DEF SplitOrder
  <2> QED
    BY <2>6, <2>7, <2>8, <2>9, <2>11 DEF SplitInv
<1> QED
  BY <1>13, <1>14

LEMMA SplitStutters ==
  ASSUME SplitInv, UNCHANGED splitVars
  PROVE  SplitInv'
<1>1. /\ content' = content /\ settings' = settings /\ level' = level /\ base' = base
      /\ units' = units /\ parts' = parts /\ cut' = cut /\ blocks' = blocks
      /\ parents' = parents /\ waiting' = waiting /\ children' = children
  BY DEF splitVars
<1>2. SplitTyped /\ SplitStages /\ SplitSizes /\ SplitHolds /\ SplitOrder
  BY DEF SplitInv
<1>3. SplitTyped'
  BY <1>1, <1>2 DEF SplitTyped
<1>4. SplitStages'
  BY <1>1, <1>2 DEF SplitStages
<1>5. SplitSizes'
  <2>1. Joined(parts)' = Joined(parts')
    BY DEF Joined, Scan, PartAt
  <2>2. Joined(parts') = Joined(parts) /\ Size' = Size
    BY <1>1 DEF Size
  <2>3. WithinSize'
    BY <1>1, <1>2 DEF SplitSizes, WithinSize
  <2> QED
    BY <1>1, <1>2, <2>1, <2>2, <2>3 DEF SplitSizes, NoLonger
<1>6. CutInk' = CutInk
  BY <1>1 DEF CutInk
<1>7. SplitHolds'
  BY <1>1, <1>2, <1>6 DEF SplitHolds, Ink
<1>8. SplitOrder'
  BY <1>1, <1>2, <1>6 DEF SplitOrder
<1> QED
  BY <1>3, <1>4, <1>5, <1>7, <1>8 DEF SplitInv

THEOREM SplitInvHolds == SplitSpec => []SplitInv
<1>1. SplitInit => SplitInv
  BY SplitInitHolds
<1>2. SplitInv /\ [SplitNext]_splitVars => SplitInv'
  <2> SUFFICES ASSUME SplitInv, [SplitNext]_splitVars PROVE SplitInv'
    OBVIOUS
  <2>1. ASSUME level = "new", NEW text \in Documents, NEW mode \in {"flat", "parent"},
               Begin(text, mode)
        PROVE  SplitInv'
    BY <2>1, BeginKeeps
  <2>2. CASE PlaceUnit
    BY <2>2, PlaceUnitKeeps
  <2>3. CASE CutPiece
    BY <2>3, CutPieceKeeps
  <2>4. CASE FinishSplit
    BY <2>4, FinishSplitKeeps
  <2>5. CASE UNCHANGED splitVars
    BY <2>5, SplitStutters
  <2> QED
    BY <2>1, <2>2, <2>3, <2>4, <2>5 DEF SplitNext
<1> QED
  BY <1>1, <1>2, PTL DEF SplitSpec

-----------------------------------------------------------------------------
(* What the invariant says *)

\* The document, the offsets, the work lists and the chunks are what the
\* variables are declared to be.
THEOREM SplitTypeCorrect == SplitSpec => []SplitTypeOK
<1>1. SplitInv => SplitTypeOK
  <2> SUFFICES ASSUME SplitInv PROVE SplitTypeOK
    OBVIOUS
  <2>1. SplitTyped
    BY DEF SplitInv
  <2>2. Seq(Unit) \subseteq Seq(Block)
    <3>1. Unit \subseteq Block
      BY DEF Unit
    <3> QED
      BY <3>1
  <2> QED
    BY <2>1, <2>2 DEF SplitTyped, SplitTypeOK
<1> QED
  BY <1>1, SplitInvHolds, PTL

\* No parent block and no chunk is longer than its size, the breaks that
\* join its paragraphs included.
THEOREM ChunksFit == SplitSpec => []WithinSize
<1>1. SplitInv => WithinSize
  BY DEF SplitInv, SplitSizes
<1> QED
  BY <1>1, SplitInvHolds, PTL

\* The chunks of a document, and its parent blocks, hold all of its words;
\* without an overlap each word stands in one chunk and in one parent.
THEOREM WordsKept == SplitSpec => []WordsOnceOver
<1>1. SplitInv => WordsOnceOver
  <2> SUFFICES ASSUME SplitInv, level = "done"
               PROVE  NothingLost /\ (settings.overlap = 0 => NothingTwice)
    BY DEF WordsOnceOver
  <2>1. SplitTyped /\ SplitStages /\ SplitHolds /\ SplitOrder
    BY DEF SplitInv
  <2>2. /\ units = <<>> /\ parts = <<>> /\ blocks = <<>> /\ waiting = <<>> /\ cut = NoCut
    BY <2>1 DEF SplitStages
  <2>3. /\ Held(units) = {} /\ Held(parts) = {} /\ Held(blocks) = {} /\ Held(waiting) = {}
        /\ CutInk = {}
    BY <2>2, NoUnits, NoCutInk
  <2>4. NothingLost
    BY <2>1, <2>3 DEF SplitHolds, NothingLost
  <2>5. ASSUME settings.overlap = 0 PROVE NothingTwice
    <3>1. Orderly(children) /\ Orderly(parents)
      BY <2>1, <2>5 DEF SplitOrder
    <3>2. children \in Seq(Unit) /\ parents \in Seq(Unit)
      BY <2>1 DEF SplitTyped
    <3>3. \A i, j \in DOMAIN children : i # j => InkOf(children[i]) \cap InkOf(children[j]) = {}
      BY <3>1, <3>2, OrderlyIsDisjoint
    <3>4. \A i, j \in DOMAIN parents : i # j => InkOf(parents[i]) \cap InkOf(parents[j]) = {}
      BY <3>1, <3>2, OrderlyIsDisjoint
    <3> QED
      BY <3>3, <3>4 DEF NothingTwice
  <2> QED
    BY <2>4, <2>5
<1> QED
  BY <1>1, SplitInvHolds, PTL

\* Every iteration leaves less to do, whatever the overlap is.
THEOREM SplittingEnds == SplitSpec => SplitEnds
<1> DEFINE Less ==
      \/ LevelsLeft' < LevelsLeft
      \/ LevelsLeft' = LevelsLeft /\ Len(waiting') < Len(waiting)
      \/ /\ LevelsLeft' = LevelsLeft /\ waiting' = waiting
         /\ Len(units') < Len(units)
      \/ /\ LevelsLeft' = LevelsLeft /\ waiting' = waiting /\ units' = units
         /\ Uncut' \in Nat /\ Uncut' < Uncut
<1>1. SplitInv /\ [SplitNext]_splitVars => [Less]_splitVars
  <2> SUFFICES ASSUME SplitInv, SplitNext PROVE Less
    OBVIOUS
  <2>1. SplitTyped /\ SplitStages
    BY DEF SplitInv
  <2>2. ASSUME level = "new", NEW text \in Documents, NEW mode \in {"flat", "parent"},
               Begin(text, mode)
        PROVE  Less
    <3>1. level' \in {"flat", "parent"}
      BY <2>2 DEF Begin
    <3> QED
      BY <2>2, <3>1 DEF LevelsLeft
  <2>3. ASSUME PlaceUnit PROVE Less
    <3>1. level' = level /\ waiting' = waiting /\ units # <<>> /\ units' = Tail(units)
      BY <2>3 DEF PlaceUnit
    <3>2. Len(units') < Len(units)
      BY <2>1, <3>1 DEF SplitTyped
    <3>3. LevelsLeft' = LevelsLeft
      BY <3>1 DEF LevelsLeft
    <3> QED
      BY <3>1, <3>2, <3>3
  <2>4. ASSUME CutPiece PROVE Less
    <3>1. PICK t, cursor, end, n : /\ t = cut.text /\ cursor = cut.cursor /\ n = Len(cut.text)
                                   /\ end = PieceEnd(cut.text, cut.cursor)
      OBVIOUS
    <3>2. /\ cut # NoCut /\ level' = level /\ waiting' = waiting /\ units' = units
          /\ cut' = IF end >= Len(cut.text) THEN NoCut
                    ELSE [cut EXCEPT !.cursor = NextCursor(@, end)]
      BY <2>4, <3>1 DEF CutPiece
    <3>3. /\ cut \in [text : Text, start : Nat, cursor : Nat]
          /\ t \in Text /\ cursor \in Nat /\ n \in Nat /\ cursor < n
      BY <2>1, <3>1, <3>2 DEF SplitTyped, Text
    <3>4. end \in (cursor + 1)..n
      BY <2>1, <3>1, <3>3, PieceEndIs
    <3>5. Uncut = n - cursor
      BY <3>1 DEF Uncut
    <3>6. Uncut' \in Nat /\ Uncut' < Uncut
      <4>1. CASE end >= Len(cut.text)
        <5>1. cut'.text = <<>> /\ cut'.cursor = 0
          BY <3>2, <4>1 DEF NoCut
        <5>2. Uncut' = 0
          BY <5>1 DEF Uncut
        <5> QED
          BY <3>3, <3>5, <5>2
      <4>2. CASE ~(end >= Len(cut.text))
        <5>1. PICK k : k = NextCursor(cursor, end)
          OBVIOUS
        <5>2. end \in Nat /\ cursor < end /\ end < n
          BY <3>1, <3>3, <3>4, <4>2
        <5>3. k \in (cursor + 1)..end
          BY <2>1, <3>3, <5>1, <5>2, NextCursorIs
        <5>4. cut' = [cut EXCEPT !.cursor = k]
          BY <3>1, <3>2, <4>2, <5>1
        <5>5. cut'.text = cut.text /\ cut'.cursor = k
          BY <3>3, <5>4
        <5>6. Uncut' = n - k
          BY <3>1, <5>5 DEF Uncut
        <5> QED
          BY <3>3, <3>5, <5>2, <5>3, <5>6
      <4> QED
        BY <4>1, <4>2
    <3>7. LevelsLeft' = LevelsLeft
      BY <3>2 DEF LevelsLeft
    <3> QED
      BY <3>2, <3>6, <3>7
  <2>5. ASSUME FinishSplit PROVE Less
    <3>1. PICK todo : todo = IF level = "parent" THEN Flushed ELSE waiting
      OBVIOUS
    <3>2. /\ Running
          /\ todo = <<>> => level' = "done"
          /\ todo # <<>> => level' = "child" /\ waiting' = Tail(todo)
      BY <2>5, <3>1 DEF FinishSplit
    <3>3. level \in {"flat", "parent", "child"}
      BY <3>2 DEF Running
    <3>4. CASE todo = <<>>
      BY <3>2, <3>3, <3>4 DEF LevelsLeft
    <3>5. CASE todo # <<>> /\ level = "parent"
      BY <3>2, <3>5 DEF LevelsLeft
    <3>6. CASE todo # <<>> /\ level # "parent"
      <4>1. waiting' = Tail(waiting) /\ waiting # <<>> /\ level' = "child"
        BY <3>1, <3>2, <3>6
      <4>2. Len(waiting') < Len(waiting)
        BY <2>1, <4>1 DEF SplitTyped
      <4>3. LevelsLeft' = LevelsLeft
        BY <3>3, <3>6, <4>1 DEF LevelsLeft
      <4> QED
        BY <4>2, <4>3
    <3> QED
      BY <3>4, <3>5, <3>6
  <2> QED
    BY <2>2, <2>3, <2>4, <2>5 DEF SplitNext
<1>2. SplitSpec => [][Less]_splitVars
  BY <1>1, SplitInvHolds, PTL DEF SplitSpec
<1> QED
  BY <1>2 DEF SplitEnds

-----------------------------------------------------------------------------
(* Where texts stand in the document *)

\* The text stands at o: its i-th character is that at o + i.
StandsAt(t, o) == \A i \in Inked(t) : t[i].at = o + i

\* Every blank line in t is two line breaks between two words.
Apart(t) ==
  \A i \in 1..Len(t) : BlankLineAt(t, i) =>
    /\ i > 1 /\ i + 2 <= Len(t) /\ t[i + 1].class = "break"
    /\ ~Blank(t[i - 1]) /\ ~Blank(t[i + 2])

\* A block stands where its offsets say, o further on.
InPlace(u, o) ==
  /\ StandsAt(u.text, o + u.start) /\ Apart(u.text)
  /\ u.end = u.start + Len(u.text)
Placed(o) == {u \in Unit : InPlace(u, o)}

LEMMA PlacedAreUnits == \A o : Placed(o) \subseteq Unit /\ Seq(Placed(o)) \subseteq Seq(Unit)
<1> SUFFICES ASSUME NEW o PROVE Placed(o) \subseteq Unit /\ Seq(Placed(o)) \subseteq Seq(Unit)
  OBVIOUS
<1>1. Placed(o) \subseteq Unit
  BY DEF Placed
<1> QED
  BY <1>1

LEMMA BlankLineInPart ==
  ASSUME NEW t \in Text, NEW a \in 1..(Len(t) + 1), NEW b \in (a - 1)..Len(t),
         NEW s, IsPart(s, t, a, b), NEW i \in 1..Len(s), BlankLineAt(s, i)
  PROVE  /\ a + i - 1 \in 1..Len(t) /\ BlankLineAt(t, a + i - 1)
         /\ \E k \in (i + 1)..Len(s) : s[k].class = "break"
<1>1. /\ Len(t) \in Nat /\ Len(s) \in Nat /\ Len(s) = b - a + 1
      /\ \A j \in 1..Len(s) : s[j] = t[a + j - 1] /\ a + j - 1 \in 1..Len(t)
  BY DEF Text, IsPart
<1>2. PICK k \in (i + 1)..Len(s) :
        /\ s[i].class = "break" /\ s[k].class = "break"
        /\ \A m \in (i + 1)..(k - 1) : Blank(s[m])
  BY DEF BlankLineAt
<1>3. PICK p, q : p = a + i - 1 /\ q = a + k - 1
  OBVIOUS
<1>4. /\ p \in 1..Len(t) /\ q \in (p + 1)..Len(t) /\ k \in 1..Len(s)
      /\ t[p] = s[i] /\ t[q] = s[k]
  BY <1>1, <1>3
<1>5. ASSUME NEW m \in (p + 1)..(q - 1) PROVE Blank(t[m])
  <2>1. PICK j : j = m - a + 1
    OBVIOUS
  <2>2. j \in (i + 1)..(k - 1) /\ j \in 1..Len(s) /\ m = a + j - 1
    BY <1>1, <1>3, <2>1
  <2> QED
    BY <1>1, <1>2, <2>2
<1>6. BlankLineAt(t, p)
  BY <1>2, <1>4, <1>5 DEF BlankLineAt
<1> QED
  BY <1>2, <1>3, <1>4, <1>6

\* A stripped part of a text stands where it was cut out.
LEMMA PartInPlace ==
  ASSUME NEW t \in Text, NEW o \in Nat, StandsAt(t, o), NEW a, NEW b,
         NEW c \in 1..Len(t), NEW d \in 1..Len(t), NEW s, StripsTo(s, t, a, b, c, d)
  PROVE  /\ StandsAt(s, o + (c - 1)) /\ Len(s) = d - c + 1
         /\ Apart(t) => Apart(s)
         /\ (\A p \in (c + 1)..d : ~BlankLineAt(t, p)) => Apart(s)
<1>1. /\ c <= d /\ IsPart(s, t, c, d) /\ Trimmed(s)
  BY DEF StripsTo
<1>2. Len(t) \in Nat /\ c \in 1..(Len(t) + 1) /\ d \in (c - 1)..Len(t)
  BY <1>1 DEF Text
<1>3. /\ s \in Text /\ Len(s) \in Nat /\ Len(s) = d - c + 1 /\ DOMAIN s = 1..Len(s)
      /\ \A i \in 1..Len(s) : s[i] = t[c + i - 1] /\ c + i - 1 \in 1..Len(t)
  BY <1>1, <1>2 DEF IsPart, Text
<1>4. \A i \in 1..Len(s) : i \in Inked(s) <=> c + i - 1 \in Inked(t)
  BY <1>1, <1>2, PartInk
<1>5. StandsAt(s, o + (c - 1))
  <2> SUFFICES ASSUME NEW i \in Inked(s) PROVE s[i].at = o + (c - 1) + i
    BY DEF StandsAt
  <2>1. i \in 1..Len(s)
    BY <1>3 DEF Inked
  <2>2. t[c + i - 1].at = o + (c + i - 1)
    BY <1>4, <2>1 DEF StandsAt
  <2>3. o + (c + i - 1) = o + (c - 1) + i
    BY <1>2, <1>3, <2>1
  <2> QED
    BY <1>3, <2>1, <2>2, <2>3
<1>6. ASSUME NEW i \in 1..Len(s), BlankLineAt(s, i)
      PROVE  /\ i > 1 /\ i < Len(s) /\ BlankLineAt(t, c + i - 1)
             /\ i + 1 < Len(s) \/ s[i + 1].class # "break"
  <2>1. BlankLineAt(t, c + i - 1) /\ \E k \in (i + 1)..Len(s) : s[k].class = "break"
    BY <1>1, <1>2, <1>6, BlankLineInPart
  <2>2. s[i].class = "break"
    BY <1>6 DEF BlankLineAt
  <2>3. i # 1 /\ s[Len(s)].class # "break"
    BY <1>1, <2>2 DEF Trimmed, Blank
  <2> QED
    BY <1>3, <2>1, <2>3
<1>7. ASSUME Apart(t) PROVE Apart(s)
  <2> SUFFICES ASSUME NEW i \in 1..Len(s), BlankLineAt(s, i)
               PROVE  /\ i > 1 /\ i + 2 <= Len(s) /\ s[i + 1].class = "break"
                      /\ ~Blank(s[i - 1]) /\ ~Blank(s[i + 2])
    BY DEF Apart
  <2>1. PICK p : p = c + i - 1
    OBVIOUS
  <2>2. /\ i > 1 /\ i < Len(s) /\ BlankLineAt(t, p) /\ p \in 1..Len(t)
        /\ i + 1 < Len(s) \/ s[i + 1].class # "break"
    BY <1>3, <1>6, <2>1
  <2>3. /\ p > 1 /\ p + 2 <= Len(t) /\ t[p + 1].class = "break"
        /\ ~Blank(t[p - 1]) /\ ~Blank(t[p + 2])
    BY <1>7, <2>2 DEF Apart
  <2>4. i + 1 \in 1..Len(s) /\ i - 1 \in 1..Len(s) /\ c + (i + 1) - 1 = p + 1
        /\ c + (i - 1) - 1 = p - 1
    BY <1>2, <1>3, <2>1, <2>2
  <2>5. s[i + 1] = t[p + 1] /\ s[i - 1] = t[p - 1]
    BY <1>3, <2>4
  <2>6. i + 2 \in 1..Len(s) /\ c + (i + 2) - 1 = p + 2
    BY <1>2, <1>3, <2>1, <2>2, <2>3, <2>5
  <2>7. s[i + 2] = t[p + 2]
    BY <1>3, <2>6
  <2> QED
    BY <1>3, <2>2, <2>3, <2>5, <2>6, <2>7
<1>8. ASSUME \A p \in (c + 1)..d : ~BlankLineAt(t, p) PROVE Apart(s)
  <2>1. ASSUME NEW i \in 1..Len(s), BlankLineAt(s, i) PROVE FALSE
    <3>1. i > 1 /\ i < Len(s) /\ BlankLineAt(t, c + i - 1)
      BY <1>6, <2>1
    <3>2. c + i - 1 \in (c + 1)..d
      BY <1>2, <1>3, <3>1
    <3> QED
      BY <1>8, <3>1, <3>2
  <2> QED
    BY <2>1 DEF Apart
<1> QED
  BY <1>3, <1>5, <1>7, <1>8

\* Two texts that stand two characters apart stand where they did when they
\* are joined by two line breaks.
LEMMA BrokenInPlace ==
  ASSUME NEW x \in Text, NEW y \in Text, Trimmed(x), Trimmed(y), NEW o \in Nat,
         StandsAt(x, o), StandsAt(y, o + Len(x) + 2), Apart(x), Apart(y)
  PROVE  StandsAt(x \o <<Break, Break>> \o y, o) /\ Apart(x \o <<Break, Break>> \o y)
<1>1. PICK z, n, m : z = x \o <<Break, Break>> \o y /\ n = Len(x) /\ m = Len(y)
  OBVIOUS
<1>2. /\ n \in Nat /\ m \in Nat /\ n > 0 /\ m > 0
      /\ DOMAIN x = 1..n /\ DOMAIN y = 1..m
  BY <1>1 DEF Text, Trimmed
<1>3. z \in Text /\ Len(z) = n + 2 + m /\ DOMAIN z = 1..(n + 2 + m)
  <2>1. z \in Text /\ Len(z) = n + 2 + m
    BY <1>1, BrokenInk
  <2> QED
    BY <2>1 DEF Text
<1>4. /\ \A i \in 1..n : z[i] = x[i]
      /\ z[n + 1] = Break /\ z[n + 2] = Break
      /\ \A i \in 1..m : z[n + 2 + i] = y[i]
  <2>1. PICK b, xb : b = <<Break, Break>> /\ xb = x \o b
    OBVIOUS
  <2>2. b \in Seq(Char) /\ Len(b) = 2 /\ b[1] = Break /\ b[2] = Break
    BY <2>1, BreaksFacts DEF Breaks, Text
  <2>3. /\ xb \in Seq(Char) /\ Len(xb) = n + 2
        /\ \A i \in 1..n : xb[i] = x[i]
        /\ \A i \in 1..2 : xb[n + i] = b[i]
    BY <1>1, <1>2, <2>1, <2>2 DEF Text
  <2>4. z = xb \o y
    BY <1>1, <2>1
  <2>5. /\ \A i \in 1..(n + 2) : z[i] = xb[i]
        /\ \A i \in 1..m : z[n + 2 + i] = y[i]
    BY <1>1, <1>2, <2>3, <2>4 DEF Text
  <2>6. 1 \in 1..2 /\ 2 \in 1..2 /\ n + 1 \in 1..(n + 2) /\ n + 2 \in 1..(n + 2)
    BY <1>2
  <2> QED
    BY <1>2, <2>2, <2>3, <2>5, <2>6
<1>5. Break.class = "break" /\ Blank(Break)
  BY DEF Break, Blank
<1>6. /\ ~Blank(z[1]) /\ ~Blank(z[n]) /\ ~Blank(z[n + 3]) /\ ~Blank(z[n + 2 + m])
      /\ z[n].class # "break" /\ z[n + 3].class # "break"
  <2>1. ~Blank(x[1]) /\ ~Blank(x[n]) /\ ~Blank(y[1]) /\ ~Blank(y[m])
    BY <1>1 DEF Trimmed
  <2>2. z[1] = x[1] /\ z[n] = x[n] /\ z[n + 3] = y[1] /\ z[n + 2 + m] = y[m]
    <3>1. 1 \in 1..n /\ n \in 1..n /\ 1 \in 1..m /\ m \in 1..m /\ n + 2 + 1 = n + 3
      BY <1>2
    <3> QED
      BY <1>4, <3>1
  <2> QED
    BY <2>1, <2>2 DEF Blank
<1>7. StandsAt(z, o)
  <2> SUFFICES ASSUME NEW i \in Inked(z) PROVE z[i].at = o + i
    BY DEF StandsAt
  <2>1. i \in 1..(n + 2 + m) /\ ~Blank(z[i])
    BY <1>3 DEF Inked
  <2>2. CASE i <= n
    <3>1. i \in Inked(x) /\ z[i] = x[i]
      BY <1>2, <1>4, <2>1, <2>2 DEF Inked
    <3> QED
      BY <3>1 DEF StandsAt
  <2>3. CASE i > n
    <3>1. i # n + 1 /\ i # n + 2
      BY <1>4, <1>5, <2>1
    <3>2. PICK j : j = i - (n + 2)
      OBVIOUS
    <3>3. j \in 1..m /\ i = n + 2 + j
      BY <1>2, <2>1, <2>3, <3>1, <3>2
    <3>4. j \in Inked(y) /\ z[i] = y[j]
      BY <1>2, <1>4, <2>1, <3>3 DEF Inked
    <3>5. y[j].at = o + n + 2 + j
      BY <1>1, <3>4 DEF StandsAt
    <3> QED
      BY <1>2, <3>3, <3>4, <3>5
  <2> QED
    BY <1>2, <2>1, <2>2, <2>3
<1>8. Apart(z)
  <2> SUFFICES ASSUME NEW i \in 1..(n + 2 + m), BlankLineAt(z, i)
               PROVE  /\ i > 1 /\ i + 2 <= n + 2 + m /\ z[i + 1].class = "break"
                      /\ ~Blank(z[i - 1]) /\ ~Blank(z[i + 2])
    BY <1>3 DEF Apart
  <2>1. PICK k \in (i + 1)..(n + 2 + m) :
          /\ z[i].class = "break" /\ z[k].class = "break"
          /\ \A j \in (i + 1)..(k - 1) : Blank(z[j])
    BY <1>3 DEF BlankLineAt
  <2>2. CASE i <= n
    <3>1. i < n
      <4>1. i # n
        BY <1>6, <2>1
      <4> QED
        BY <1>2, <2>2, <4>1
    <3>2. k < n
      <4>1. ~(n \in (i + 1)..(k - 1))
        BY <1>6, <2>1
      <4>2. k # n
        BY <1>6, <2>1
      <4> QED
        BY <1>2, <3>1, <4>1, <4>2
    <3>3. BlankLineAt(x, i)
      <4>1. k \in (i + 1)..n /\ i \in 1..n /\ k \in 1..n
        BY <1>2, <3>1, <3>2
      <4>2. x[i].class = "break" /\ x[k].class = "break"
        BY <1>4, <2>1, <4>1
      <4>3. ASSUME NEW j \in (i + 1)..(k - 1) PROVE Blank(x[j])
        <5>1. j \in 1..n
          BY <1>2, <4>1
        <5> QED
          BY <1>4, <2>1, <5>1
      <4> QED
        BY <1>1, <4>1, <4>2, <4>3 DEF BlankLineAt
    <3>4. i \in 1..n
      BY <1>2, <2>2
    <3>5. /\ i > 1 /\ i + 2 <= n /\ x[i + 1].class = "break"
          /\ ~Blank(x[i - 1]) /\ ~Blank(x[i + 2])
      BY <1>1, <3>3, <3>4 DEF Apart
    <3>6. i + 1 \in 1..n /\ i - 1 \in 1..n /\ i + 2 \in 1..n
      BY <1>2, <3>5
    <3>7. z[i + 1] = x[i + 1] /\ z[i - 1] = x[i - 1] /\ z[i + 2] = x[i + 2]
      BY <1>4, <3>6
    <3> QED
      BY <1>2, <3>5, <3>7
  <2>3. CASE i = n + 1
    <3>1. i + 1 = n + 2 /\ i - 1 = n /\ i + 2 = n + 3
      BY <1>2, <2>3
    <3> QED
      BY <1>2, <1>4, <1>5, <1>6, <2>3, <3>1
  <2>4. CASE i = n + 2
    <3>1. k # n + 3
      BY <1>6, <2>1
    <3>2. n + 3 \in (i + 1)..(k - 1)
      BY <1>2, <2>1, <2>4, <3>1
    <3> QED
      BY <1>6, <2>1, <3>2
  <2>5. CASE i > n + 2
    <3>1. PICK p, q : p = i - (n + 2) /\ q = k - (n + 2)
      OBVIOUS
    <3>2. /\ p \in 1..m /\ q \in (p + 1)..m /\ q \in 1..m
          /\ i = n + 2 + p /\ k = n + 2 + q
      BY <1>2, <2>5, <3>1
    <3>3. BlankLineAt(y, p)
      <4>1. y[p].class = "break" /\ y[q].class = "break"
        BY <1>4, <2>1, <3>2
      <4>2. ASSUME NEW j \in (p + 1)..(q - 1) PROVE Blank(y[j])
        <5>1. j \in 1..m /\ n + 2 + j \in (i + 1)..(k - 1)
          BY <1>2, <3>2
        <5> QED
          BY <1>4, <2>1, <5>1
      <4> QED
        BY <1>1, <3>2, <4>1, <4>2 DEF BlankLineAt
    <3>4. /\ p > 1 /\ p + 2 <= m /\ y[p + 1].class = "break"
          /\ ~Blank(y[p - 1]) /\ ~Blank(y[p + 2])
      BY <1>1, <3>2, <3>3 DEF Apart
    <3>5. /\ p + 1 \in 1..m /\ p - 1 \in 1..m /\ p + 2 \in 1..m
          /\ n + 2 + (p + 1) = i + 1 /\ n + 2 + (p - 1) = i - 1 /\ n + 2 + (p + 2) = i + 2
      BY <1>2, <3>2, <3>4
    <3>6. z[i + 1] = y[p + 1] /\ z[i - 1] = y[p - 1] /\ z[i + 2] = y[p + 2]
      BY <1>4, <3>5
    <3> QED
      BY <1>2, <3>2, <3>4, <3>6
  <2> QED
    BY <1>2, <2>2, <2>3, <2>4, <2>5
<1> QED
  BY <1>1, <1>7, <1>8

-----------------------------------------------------------------------------
(* Paragraphs that stand two characters apart *)

\* Each begins two characters after the end of the one before it.
Spaced(bs) == \A i \in 1..(Len(bs) - 1) : bs[i + 1].start = bs[i].end + 2

LEMMA OneBefore ==
  ASSUME NEW o, NEW u \in Placed(o), NEW bs \in Seq(Placed(o)), Spaced(bs),
         bs # <<>> => bs[1].start = u.end + 2
  PROVE  /\ <<u>> \o bs \in Seq(Placed(o)) /\ Spaced(<<u>> \o bs)
         /\ <<u>> \o bs # <<>> /\ (<<u>> \o bs)[1] = u
<1>1. PICK z, n : z = <<u>> \o bs /\ n = Len(bs)
  OBVIOUS
<1>2. /\ z \in Seq(Placed(o)) /\ n \in Nat /\ Len(z) = n + 1 /\ z[1] = u /\ z # <<>>
      /\ \A i \in 1..n : z[1 + i] = bs[i]
  BY <1>1
<1>3. n # 0 => bs # <<>>
  BY <1>1
<1>4. ASSUME NEW i \in 1..(Len(z) - 1) PROVE z[i + 1].start = z[i].end + 2
  <2>1. i \in 1..n
    BY <1>2, <1>4
  <2>2. CASE i = 1
    <3>1. z[i] = u /\ z[i + 1] = bs[1] /\ bs # <<>>
      BY <1>2, <1>3, <2>1, <2>2
    <3> QED
      BY <3>1
  <2>3. CASE i # 1
    <3>1. i - 1 \in 1..n /\ 1 + (i - 1) = i /\ 1 + i = i + 1 /\ (i - 1) + 1 = i
          /\ i - 1 \in 1..(n - 1)
      BY <1>2, <2>1, <2>3
    <3>2. z[i] = bs[i - 1] /\ z[i + 1] = bs[i]
      BY <1>2, <2>1, <3>1
    <3>3. bs[i].start = bs[i - 1].end + 2
      BY <1>1, <3>1 DEF Spaced
    <3> QED
      BY <3>2, <3>3
  <2> QED
    BY <2>2, <2>3
<1> QED
  BY <1>1, <1>2, <1>4 DEF Spaced

\* What a scan finds is in S if each thing it finds is.
LEMMA ScanFindsIn ==
  ASSUME NEW n \in Nat, NEW step, NEW S,
         \A i \in 1..n : step[i].next \in (i + 1)..(n + 1) /\ step[i].found \in Seq(S)
  PROVE  Scan(n, step) \in Seq(S)
<1>1. PICK f : /\ \A i \in 1..(n + 1) : f[i] = ScannedOf(n, step, f, i)
               /\ Scan(n, step) = f[1]
  BY ScanDefined
<1>2. PICK G, next : G = {i \in 1..(n + 1) : f[i] \in Seq(S)}
                     /\ next = [i \in 1..n |-> step[i].next]
  OBVIOUS
<1>3. n + 1 \in G
  <2>1. n + 1 \in 1..(n + 1) /\ n + 1 > n
    OBVIOUS
  <2>2. f[n + 1] = <<>>
    BY <1>1, <2>1 DEF ScannedOf
  <2>3. <<>> \in Seq(S)
    OBVIOUS
  <2> QED
    BY <1>2, <2>1, <2>2, <2>3, Zenon
<1>4. ASSUME NEW i \in 1..n, step[i].next \in G PROVE i \in G
  <2>1. i \in 1..(n + 1) /\ ~(i > n)
    OBVIOUS
  <2>2. f[i] = step[i].found \o f[step[i].next]
    BY <1>1, <2>1 DEF ScannedOf
  <2>3. step[i].found \in Seq(S) /\ f[step[i].next] \in Seq(S)
    BY <1>2, <1>4
  <2>4. PICK x, y : x = step[i].found /\ y = f[step[i].next]
    OBVIOUS
  <2>5. x \in Seq(S) /\ y \in Seq(S)
    BY <2>3, <2>4
  <2>6. x \o y \in Seq(S)
    BY <2>5
  <2>7. f[i] \in Seq(S)
    BY <2>2, <2>4, <2>6
  <2> QED
    BY <1>2, <2>1, <2>7
<1>5. next \in [1..n -> 1..(n + 1)]
  BY <1>2
<1>6. \A i \in 1..n : next[i] > i /\ (next[i] \in G => i \in G)
  <2> SUFFICES ASSUME NEW i \in 1..n PROVE next[i] > i /\ (next[i] \in G => i \in G)
    OBVIOUS
  <2>1. next[i] = step[i].next /\ step[i].next \in (i + 1)..(n + 1)
    BY <1>2
  <2> QED
    BY <1>4, <2>1
<1>7. 1 \in G
  <2>1. \A i \in 1..(n + 1) : i \in G
    BY <1>3, <1>5, <1>6, Downwards
  <2> QED
    BY <2>1
<1> QED
  BY <1>1, <1>2, <1>7

\* The paragraphs of a text that stands at o stand where they say.
LEMMA ParagraphInPlace ==
  ASSUME NEW t \in Text, NEW o \in Nat, StandsAt(t, o),
         NEW i \in DOMAIN t, NEW s \in 1..Len(t), NEW d \in 1..Len(t),
         NEW e \in 1..(Len(t) + 1), NEW u \in Unit, ParagraphIs(t, i, s, d, e, u)
  PROVE  u \in Placed(o)
<1>1. /\ StripsTo(u.text, t, s, e - 1, s, d) /\ u.start = s - 1 /\ u.end = d
      /\ \A p \in (s + 1)..(e - 1) : ~BlankLineAt(t, p)
  BY DEF ParagraphIs
<1>2. s <= d /\ d <= e - 1
  BY <1>1 DEF StripsTo
<1>3. \A p \in (s + 1)..d : ~BlankLineAt(t, p)
  BY <1>1, <1>2 DEF Text
<1>4. StandsAt(u.text, o + (s - 1)) /\ Len(u.text) = d - s + 1 /\ Apart(u.text)
  <2>1. PICK x, b : x = u.text /\ b = e - 1
    OBVIOUS
  <2>2. StripsTo(x, t, s, b, s, d)
    BY <1>1, <2>1
  <2>3. /\ StandsAt(x, o + (s - 1)) /\ Len(x) = d - s + 1
        /\ (\A p \in (s + 1)..d : ~BlankLineAt(t, p)) => Apart(x)
    BY <2>2, PartInPlace
  <2> QED
    BY <1>3, <2>1, <2>3
<1>5. u.end = u.start + Len(u.text)
  BY <1>1, <1>2, <1>4 DEF Text
<1> QED
  BY <1>1, <1>4, <1>5 DEF Placed, InPlace

LEMMA ParagraphsInPlace ==
  ASSUME NEW t \in Text, NEW o \in Nat, StandsAt(t, o)
  PROVE  ParagraphUnits(t) \in Seq(Placed(o))
<1>1. PICK step : step = [i \in DOMAIN t |-> ParagraphAt(t, i)]
  OBVIOUS
<1>2. Len(t) \in Nat /\ DOMAIN t = 1..Len(t)
  BY DEF Text
<1>3. ASSUME NEW i \in 1..Len(t)
      PROVE  step[i].next \in (i + 1)..(Len(t) + 1) /\ step[i].found \in Seq(Placed(o))
  <2>1. step[i] = ParagraphAt(t, i) /\ i \in DOMAIN t
    BY <1>1, <1>2
  <2>2. CASE ParagraphAt(t, i).found = <<>> /\ ParagraphAt(t, i).next = Len(t) + 1
    BY <1>2, <2>1, <2>2
  <2>3. ASSUME NEW s \in 1..Len(t), NEW d \in 1..Len(t), NEW e \in 1..(Len(t) + 1),
               NEW u \in Unit, ParagraphIs(t, i, s, d, e, u)
        PROVE  step[i].next \in (i + 1)..(Len(t) + 1) /\ step[i].found \in Seq(Placed(o))
    <3>1. step[i].found = <<u>> /\ step[i].next = e /\ i <= s /\ s < e
      BY <2>1, <2>3 DEF ParagraphIs
    <3>2. u \in Placed(o)
      BY <2>1, <2>3, ParagraphInPlace
    <3>3. e \in (i + 1)..(Len(t) + 1)
      BY <1>2, <3>1
    <3> QED
      BY <3>1, <3>2, <3>3
  <2> QED
    BY <2>1, <2>2, <2>3, ParagraphFound
<1>4. Scan(Len(t), step) \in Seq(Placed(o))
  BY <1>2, <1>3, ScanFindsIn
<1> QED
  BY <1>1, <1>4 DEF ParagraphUnits

\* From i on: the paragraphs are spaced, and the first begins with the first
\* ink.
SpacedFrom(t, f, o, i) ==
  /\ f[i] \in Seq(Placed(o)) /\ Spaced(f[i])
  /\ f[i] # <<>> => \E s \in Inked(t) : /\ i <= s /\ f[i][1].start = s - 1
                                         /\ \A j \in Inked(t) : i <= j => s <= j

\* Where the blank lines are two line breaks, the paragraphs are spaced.
LEMMA ParagraphsSpaced ==
  ASSUME NEW t \in Text, NEW o \in Nat, StandsAt(t, o), Apart(t)
  PROVE  Spaced(ParagraphUnits(t))
<1>1. PICK step, n : step = [i \in DOMAIN t |-> ParagraphAt(t, i)] /\ n = Len(t)
  OBVIOUS
<1>2. n \in Nat /\ DOMAIN t = 1..n /\ Inked(t) \subseteq 1..n
  BY <1>1 DEF Text, Inked
<1>3. ASSUME NEW i \in 1..n
      PROVE  \/ step[i].found = <<>> /\ step[i].next = n + 1
             \/ \E s, d \in 1..n, e \in 1..(n + 1), u \in Unit :
                  /\ ParagraphIs(t, i, s, d, e, u) /\ u \in Placed(o)
                  /\ step[i].found = <<u>> /\ step[i].next = e /\ i <= s /\ s < e
  <2>1. step[i] = ParagraphAt(t, i) /\ i \in DOMAIN t
    BY <1>1, <1>2
  <2>2. CASE ParagraphAt(t, i).found = <<>> /\ ParagraphAt(t, i).next = Len(t) + 1
    BY <1>1, <2>1, <2>2
  <2>3. ASSUME NEW s \in 1..Len(t), NEW d \in 1..Len(t), NEW e \in 1..(Len(t) + 1),
               NEW u \in Unit, ParagraphIs(t, i, s, d, e, u)
        PROVE  /\ ParagraphIs(t, i, s, d, e, u) /\ u \in Placed(o)
               /\ step[i].found = <<u>> /\ step[i].next = e /\ i <= s /\ s < e
    <3>1. step[i].found = <<u>> /\ step[i].next = e /\ i <= s /\ s < e
      BY <2>1, <2>3 DEF ParagraphIs
    <3>2. u \in Placed(o)
      BY <2>1, <2>3, ParagraphInPlace
    <3> QED
      BY <2>3, <3>1, <3>2
  <2> QED
    BY <1>1, <2>1, <2>2, <2>3, ParagraphFound
<1>4. \A i \in 1..n : step[i].next \in (i + 1)..(n + 1)
  <2> SUFFICES ASSUME NEW i \in 1..n PROVE step[i].next \in (i + 1)..(n + 1)
    OBVIOUS
  <2>1. CASE step[i].next = n + 1
    BY <1>2, <2>1
  <2>2. ASSUME NEW s \in 1..n, NEW e \in 1..(n + 1), step[i].next = e, i <= s, s < e
        PROVE  step[i].next \in (i + 1)..(n + 1)
    BY <1>2, <2>2
  <2> QED
    BY <1>3, <2>1, <2>2
<1>5. PICK f : /\ \A i \in 1..(n + 1) : f[i] = ScannedOf(n, step, f, i)
               /\ Scan(n, step) = f[1]
  BY <1>2, <1>4, ScanDefined
<1>6. f[n + 1] = <<>>
  <2>1. n + 1 \in 1..(n + 1) /\ n + 1 > n
    BY <1>2
  <2> QED
    BY <1>5, <2>1 DEF ScannedOf
<1>7. SpacedFrom(t, f, o, n + 1)
  BY <1>6 DEF SpacedFrom, Spaced
<1>8. ASSUME NEW i \in 1..n, SpacedFrom(t, f, o, step[i].next) PROVE SpacedFrom(t, f, o, i)
  <2>1. i \in 1..(n + 1) /\ ~(i > n)
    BY <1>2
  <2>2. f[i] = step[i].found \o f[step[i].next]
    BY <1>5, <2>1 DEF ScannedOf
  <2>3. CASE step[i].found = <<>> /\ step[i].next = n + 1
    <3>1. f[i] = <<>> \o <<>>
      BY <1>6, <2>2, <2>3
    <3>2. f[i] = <<>>
      BY <3>1
    <3> QED
      BY <3>2 DEF SpacedFrom, Spaced
  <2>4. ASSUME NEW s \in 1..n, NEW d \in 1..n, NEW e \in 1..(n + 1), NEW u \in Unit,
               ParagraphIs(t, i, s, d, e, u), u \in Placed(o),
               step[i].found = <<u>>, step[i].next = e, i <= s, s < e
        PROVE  SpacedFrom(t, f, o, i)
    <3>1. PICK bs : bs = f[e]
      OBVIOUS
    <3>2. /\ bs \in Seq(Placed(o)) /\ Spaced(bs)
          /\ bs # <<>> => \E q \in Inked(t) : /\ e <= q /\ bs[1].start = q - 1
                                               /\ \A j \in Inked(t) : e <= j => q <= j
      BY <1>8, <2>4, <3>1 DEF SpacedFrom
    <3>3. /\ u.start = s - 1 /\ u.end = d /\ StripsTo(u.text, t, s, e - 1, s, d)
          /\ e <= Len(t) => BlankLineAt(t, e)
          /\ \A j \in Inked(t) : i <= j => s <= j
      BY <2>4 DEF ParagraphIs
    <3>4. /\ s \in Inked(t) /\ d <= e - 1
          /\ \A j \in Inked(t) : s <= j /\ j <= e - 1 => s <= j /\ j <= d
      BY <3>3 DEF StripsTo
    <3>5. bs # <<>> => bs[1].start = u.end + 2
      <4> SUFFICES ASSUME bs # <<>> PROVE bs[1].start = u.end + 2
        OBVIOUS
      <4>1. PICK q \in Inked(t) : /\ e <= q /\ bs[1].start = q - 1
                                  /\ \A j \in Inked(t) : e <= j => q <= j
        BY <3>2
      <4>2. e \in 1..Len(t) /\ BlankLineAt(t, e)
        BY <1>1, <1>2, <3>3, <4>1
      <4>3. /\ e > 1 /\ e + 2 <= Len(t) /\ t[e].class = "break" /\ t[e + 1].class = "break"
            /\ ~Blank(t[e - 1]) /\ ~Blank(t[e + 2])
        BY <4>2 DEF Apart, BlankLineAt
      <4>4. /\ e \notin Inked(t) /\ e + 1 \notin Inked(t)
            /\ e - 1 \in Inked(t) /\ e + 2 \in Inked(t)
        BY <1>1, <1>2, <4>2, <4>3 DEF Inked, Blank
      <4>5. q = e + 2
        <5>1. q <= e + 2 /\ q # e /\ q # e + 1 /\ q \in Nat
          BY <1>2, <4>1, <4>2, <4>4
        <5> QED
          BY <4>1, <4>2, <5>1
      <4>6. d = e - 1
        BY <1>2, <2>4, <3>4, <4>4
      <4> QED
        BY <1>2, <3>3, <4>1, <4>5, <4>6
    <3>6. f[i] = <<u>> \o bs
      BY <2>2, <2>4, <3>1
    <3>7. /\ f[i] \in Seq(Placed(o)) /\ Spaced(f[i]) /\ f[i][1] = u
      BY <2>4, <3>2, <3>5, <3>6, OneBefore
    <3> QED
      BY <2>4, <3>3, <3>4, <3>7 DEF SpacedFrom
  <2> QED
    BY <1>3, <2>3, <2>4
<1>9. PICK G, next : G = {i \in 1..(n + 1) : SpacedFrom(t, f, o, i)}
                     /\ next = [i \in 1..n |-> step[i].next]
  OBVIOUS
<1>10. n + 1 \in G /\ next \in [1..n -> 1..(n + 1)]
  BY <1>2, <1>4, <1>7, <1>9
<1>11. \A i \in 1..n : next[i] > i /\ (next[i] \in G => i \in G)
  <2> SUFFICES ASSUME NEW i \in 1..n PROVE next[i] > i /\ (next[i] \in G => i \in G)
    OBVIOUS
  <2>1. next[i] = step[i].next /\ step[i].next \in (i + 1)..(n + 1) /\ i \in 1..(n + 1)
    BY <1>2, <1>4, <1>9
  <2>2. next[i] > i
    BY <1>2, <2>1
  <2> QED
    BY <1>8, <1>9, <2>1, <2>2
<1>12. SpacedFrom(t, f, o, 1)
  <2>1. \A i \in 1..(n + 1) : i \in G
    BY <1>2, <1>10, <1>11, Downwards
  <2> QED
    BY <1>2, <1>9, <2>1
<1> QED
  BY <1>1, <1>5, <1>12 DEF ParagraphUnits, SpacedFrom

LEMMA PlacedFields ==
  ASSUME NEW o, NEW u \in Placed(o)
  PROVE  /\ u \in Unit /\ u.text \in Text /\ Trimmed(u.text) /\ u.start \in Nat /\ u.end \in Nat
         /\ Len(u.text) \in Nat /\ u.end = u.start + Len(u.text)
         /\ StandsAt(u.text, o + u.start) /\ Apart(u.text)
<1>1. u \in Unit /\ InPlace(u, o)
  BY DEF Placed
<1>2. u.text \in Text /\ u.start \in Nat /\ u.end \in Nat /\ Trimmed(u.text)
  BY <1>1, UnitFields
<1>3. Len(u.text) \in Nat
  BY <1>2 DEF Text
<1> QED
  BY <1>1, <1>2, <1>3 DEF InPlace

\* A heading and its paragraph, joined, stand where they did.
LEMMA MergedInPlace ==
  ASSUME NEW o \in Nat, NEW p \in Placed(o), NEW q \in Placed(o), q.start = p.end + 2
  PROVE  Merged(p, q) \in Placed(o)
<1>1. PICK x, y, z, m, a : /\ x = p.text /\ y = q.text /\ z = x \o <<Break, Break>> \o y
                           /\ m = Merged(p, q) /\ a = o + p.start
  OBVIOUS
<1>2. /\ p \in Unit /\ x \in Text /\ Trimmed(x) /\ p.start \in Nat /\ p.end \in Nat
      /\ Len(x) \in Nat /\ p.end = p.start + Len(x) /\ StandsAt(x, a) /\ Apart(x)
  BY <1>1, PlacedFields
<1>3. /\ q \in Unit /\ y \in Text /\ Trimmed(y) /\ q.start \in Nat /\ q.end \in Nat
      /\ Len(y) \in Nat /\ q.end = q.start + Len(y) /\ StandsAt(y, o + q.start) /\ Apart(y)
  BY <1>1, PlacedFields
<1>4. o + q.start = a + Len(x) + 2 /\ a \in Nat
  <2>1. PICK b, e, c, k : b = p.start /\ e = p.end /\ c = q.start /\ k = Len(x)
    OBVIOUS
  <2>2. b \in Nat /\ k \in Nat /\ e = b + k /\ c = e + 2 /\ a = o + b
    BY <1>1, <1>2, <2>1
  <2>3. o + c = a + k + 2 /\ a \in Nat
    BY <2>2
  <2> QED
    BY <2>1, <2>3
<1>5. StandsAt(z, a) /\ Apart(z)
  BY <1>1, <1>2, <1>3, <1>4, BrokenInPlace
<1>6. Len(z) = Len(x) + 2 + Len(y)
  BY <1>1, <1>2, <1>3, BrokenInk
<1>7. m = [text |-> z, start |-> p.start, end |-> q.end]
  BY <1>1 DEF Merged
<1>8. m.text = z /\ m.start = p.start /\ m.end = q.end
  BY <1>7
<1>9. m.end = m.start + Len(z)
  <2>1. PICK b, e, c, d, k, l, w : /\ b = p.start /\ e = p.end /\ c = q.start /\ d = q.end
                                   /\ k = Len(x) /\ l = Len(y) /\ w = Len(z)
    OBVIOUS
  <2>2. /\ b \in Nat /\ k \in Nat /\ l \in Nat /\ e = b + k /\ c = e + 2 /\ d = c + l
        /\ w = k + 2 + l
    BY <1>2, <1>3, <1>6, <2>1
  <2>3. d = b + w
    BY <2>2
  <2> QED
    BY <1>8, <2>1, <2>3
<1>10. m \in Unit
  BY <1>1, <1>2, <1>3, MergedUnit
<1>11. InPlace(m, o)
  BY <1>1, <1>5, <1>8, <1>9 DEF InPlace
<1> QED
  BY <1>1, <1>10, <1>11 DEF Placed

\* From i on: what the merge finds is spaced and begins with paragraph i.
MergedFrom(ps, f, o, i) ==
  /\ f[i] \in Seq(Placed(o)) /\ Spaced(f[i])
  /\ f[i] # <<>> => i <= Len(ps) /\ f[i][1].start = ps[i].start

LEMMA MergeInPlace ==
  ASSUME NEW o \in Nat, NEW ps \in Seq(Placed(o)), Spaced(ps)
  PROVE  MergeHeadings(ps) \in Seq(Placed(o)) /\ Spaced(MergeHeadings(ps))
<1>1. PICK step, n : step = [i \in DOMAIN ps |-> WithHeading(ps, i)] /\ n = Len(ps)
  OBVIOUS
<1>2. n \in Nat /\ DOMAIN ps = 1..n
  BY <1>1
<1>3. ASSUME NEW i \in 1..n
      PROVE  /\ ps[i] \in Placed(o)
             /\ \/ i < n /\ step[i] = [found |-> <<Merged(ps[i], ps[i + 1])>>, next |-> i + 2]
                \/ step[i] = [found |-> <<ps[i]>>, next |-> i + 1]
  <2>1. step[i] = WithHeading(ps, i) /\ ps[i] \in Placed(o)
    BY <1>1, <1>2
  <2> QED
    BY <1>1, <2>1, WithHeadingIs
<1>4. \A i \in 1..n : step[i].next \in (i + 1)..(n + 1)
  <2> SUFFICES ASSUME NEW i \in 1..n PROVE step[i].next \in (i + 1)..(n + 1)
    OBVIOUS
  <2>1. CASE i < n /\ step[i] = [found |-> <<Merged(ps[i], ps[i + 1])>>, next |-> i + 2]
    <3>1. step[i].next = i + 2
      BY <2>1
    <3> QED
      BY <1>2, <2>1, <3>1
  <2>2. CASE step[i] = [found |-> <<ps[i]>>, next |-> i + 1]
    <3>1. step[i].next = i + 1
      BY <2>2
    <3> QED
      BY <1>2, <3>1
  <2> QED
    BY <1>3, <2>1, <2>2
<1>5. PICK f : /\ \A i \in 1..(n + 1) : f[i] = ScannedOf(n, step, f, i)
               /\ Scan(n, step) = f[1]
  BY <1>2, <1>4, ScanDefined
<1>6. MergedFrom(ps, f, o, n + 1)
  <2>1. n + 1 \in 1..(n + 1) /\ n + 1 > n
    BY <1>2
  <2>2. f[n + 1] = <<>>
    BY <1>5, <2>1 DEF ScannedOf
  <2> QED
    BY <2>2 DEF MergedFrom, Spaced
<1>7. ASSUME NEW i \in 1..n, MergedFrom(ps, f, o, step[i].next) PROVE MergedFrom(ps, f, o, i)
  <2>1. i \in 1..(n + 1) /\ ~(i > n) /\ i <= Len(ps)
    BY <1>1, <1>2
  <2>2. f[i] = step[i].found \o f[step[i].next]
    BY <1>5, <2>1 DEF ScannedOf
  <2>3. PICK k, bs : k = step[i].next /\ bs = f[k]
    OBVIOUS
  <2>4. /\ bs \in Seq(Placed(o)) /\ Spaced(bs)
        /\ bs # <<>> => k <= n /\ bs[1].start = ps[k].start
    BY <1>1, <1>7, <2>3 DEF MergedFrom
  <2>5. \A j \in 1..(n - 1) : ps[j + 1].start = ps[j].end + 2
    BY <1>1 DEF Spaced
  <2>6. ASSUME NEW u \in Placed(o), f[i] = <<u>> \o bs, u.start = ps[i].start,
               bs # <<>> => bs[1].start = u.end + 2
        PROVE  MergedFrom(ps, f, o, i)
    BY <2>1, <2>4, <2>6, OneBefore DEF MergedFrom
  <2>7. CASE step[i] = [found |-> <<ps[i]>>, next |-> i + 1]
    <3>1. f[i] = <<ps[i]>> \o bs /\ k = i + 1
      BY <2>2, <2>3, <2>7
    <3>2. bs # <<>> => bs[1].start = ps[i].end + 2
      <4> SUFFICES ASSUME bs # <<>> PROVE bs[1].start = ps[i].end + 2
        OBVIOUS
      <4>1. i \in 1..(n - 1) /\ bs[1].start = ps[i + 1].start
        BY <1>2, <2>4, <3>1
      <4> QED
        BY <2>5, <4>1
    <3> QED
      BY <1>3, <2>6, <3>1, <3>2
  <2>8. CASE i < n /\ step[i] = [found |-> <<Merged(ps[i], ps[i + 1])>>, next |-> i + 2]
    <3>1. PICK m : m = Merged(ps[i], ps[i + 1])
      OBVIOUS
    <3>2. f[i] = <<m>> \o bs /\ k = i + 2
      BY <2>2, <2>3, <2>8, <3>1
    <3>3. m.start = ps[i].start /\ m.end = ps[i + 1].end
      BY <3>1 DEF Merged
    <3>4. i \in 1..(n - 1) /\ i + 1 \in 1..n
      BY <1>2, <2>8
    <3>5. m \in Placed(o)
      <4>1. ps[i] \in Placed(o) /\ ps[i + 1] \in Placed(o) /\ ps[i + 1].start = ps[i].end + 2
        BY <1>3, <2>5, <3>4
      <4> QED
        BY <3>1, <4>1, MergedInPlace
    <3>6. bs # <<>> => bs[1].start = m.end + 2
      <4> SUFFICES ASSUME bs # <<>> PROVE bs[1].start = m.end + 2
        OBVIOUS
      <4>1. i + 1 \in 1..(n - 1) /\ (i + 1) + 1 = k /\ bs[1].start = ps[k].start
        BY <1>2, <2>4, <3>2
      <4> QED
        BY <2>5, <3>3, <4>1
    <3> QED
      BY <2>6, <3>2, <3>3, <3>5, <3>6
  <2> QED
    BY <1>3, <2>7, <2>8
<1>8. PICK G, next : G = {i \in 1..(n + 1) : MergedFrom(ps, f, o, i)}
                     /\ next = [i \in 1..n |-> step[i].next]
  OBVIOUS
<1>9. n + 1 \in G /\ next \in [1..n -> 1..(n + 1)]
  BY <1>2, <1>4, <1>6, <1>8
<1>10. \A i \in 1..n : next[i] > i /\ (next[i] \in G => i \in G)
  <2> SUFFICES ASSUME NEW i \in 1..n PROVE next[i] > i /\ (next[i] \in G => i \in G)
    OBVIOUS
  <2>1. next[i] = step[i].next /\ step[i].next \in (i + 1)..(n + 1) /\ i \in 1..(n + 1)
    BY <1>2, <1>4, <1>8
  <2>2. next[i] > i
    BY <1>2, <2>1
  <2> QED
    BY <1>7, <1>8, <2>1, <2>2
<1>11. MergedFrom(ps, f, o, 1)
  <2>1. \A i \in 1..(n + 1) : i \in G
    BY <1>2, <1>9, <1>10, Downwards
  <2> QED
    BY <1>2, <1>8, <2>1
<1> QED
  BY <1>1, <1>5, <1>11 DEF MergeHeadings, MergedFrom

\* The join of the paragraphs from i on stands where paragraph i does.
JoinedAt(ps, f, o, i) ==
  /\ f[i] \in Text /\ Trimmed(f[i]) /\ StandsAt(f[i], o + ps[i].start) /\ Apart(f[i])
  /\ ps[Len(ps)].end = ps[i].start + Len(f[i])

LEMMA JoinedInPlace ==
  ASSUME NEW o \in Nat, NEW ps \in Seq(Placed(o)), ps # <<>>, Spaced(ps)
  PROVE  /\ StandsAt(Joined(ps), o + ps[1].start) /\ Apart(Joined(ps))
         /\ ps[Len(ps)].end = ps[1].start + Len(Joined(ps))
<1>1. PICK n : n = Len(ps)
  OBVIOUS
<1>2. n \in Nat /\ n # 0 /\ DOMAIN ps = 1..n /\ ps \in Seq(Unit)
  BY <1>1, PlacedAreUnits
<1>3. PICK f : /\ Joined(ps) = f[1]
               /\ \A i \in 1..n :
                    f[i] = IF i = n THEN ps[i].text
                           ELSE ps[i].text \o <<Break, Break>> \o f[i + 1]
  BY <1>1, <1>2, JoinedDefined
<1>4. ASSUME NEW i \in 1..n, i # n => JoinedAt(ps, f, o, i + 1)
      PROVE  JoinedAt(ps, f, o, i)
  <2>1. PICK x, a : x = ps[i].text /\ a = o + ps[i].start
    OBVIOUS
  <2>2. ps[i] \in Placed(o)
    BY <1>2
  <2>3. /\ x \in Text /\ Trimmed(x) /\ ps[i].start \in Nat /\ ps[i].end \in Nat
        /\ Len(x) \in Nat /\ ps[i].end = ps[i].start + Len(x)
        /\ StandsAt(x, a) /\ Apart(x)
    BY <2>1, <2>2, PlacedFields
  <2>4. CASE i = n
    <3>1. f[i] = x
      BY <1>3, <2>1, <2>4
    <3> QED
      BY <1>1, <2>1, <2>3, <2>4, <3>1 DEF JoinedAt
  <2>5. CASE i # n
    <3>1. PICK y, z : y = f[i + 1] /\ z = x \o <<Break, Break>> \o y
      OBVIOUS
    <3>2. f[i] = z
      BY <1>3, <2>1, <2>5, <3>1
    <3>3. /\ y \in Text /\ Trimmed(y) /\ StandsAt(y, o + ps[i + 1].start) /\ Apart(y)
          /\ ps[n].end = ps[i + 1].start + Len(y)
      BY <1>1, <1>4, <2>5, <3>1 DEF JoinedAt
    <3>4. ps[i + 1].start = ps[i].end + 2
      <4>1. i \in 1..(Len(ps) - 1)
        BY <1>1, <1>2, <2>5
      <4> QED
        BY <4>1 DEF Spaced
    <3>5. o + ps[i + 1].start = a + Len(x) + 2 /\ a \in Nat /\ Len(y) \in Nat
      <4>1. PICK b, e, c, k : /\ b = ps[i].start /\ e = ps[i].end /\ c = ps[i + 1].start
                              /\ k = Len(x)
        OBVIOUS
      <4>2. b \in Nat /\ k \in Nat /\ e = b + k /\ c = e + 2 /\ a = o + b
        BY <2>1, <2>3, <3>4, <4>1
      <4>3. o + c = a + k + 2 /\ a \in Nat
        BY <4>2
      <4>4. Len(y) \in Nat
        BY <3>3 DEF Text
      <4> QED
        BY <4>1, <4>3, <4>4
    <3>6. StandsAt(z, a) /\ Apart(z)
      BY <2>3, <3>1, <3>3, <3>5, BrokenInPlace
    <3>7. z \in Text /\ Trimmed(z) /\ Len(z) = Len(x) + 2 + Len(y)
      BY <2>3, <3>1, <3>3, BrokenInk
    <3>8. ps[n].end = ps[i].start + Len(z)
      <4>1. PICK b, e, c, d, k, l, w :
              /\ b = ps[i].start /\ e = ps[i].end /\ c = ps[i + 1].start /\ d = ps[n].end
              /\ k = Len(x) /\ l = Len(y) /\ w = Len(z)
        OBVIOUS
      <4>2. /\ b \in Nat /\ k \in Nat /\ l \in Nat /\ e = b + k /\ c = e + 2 /\ d = c + l
            /\ w = k + 2 + l
        BY <2>3, <3>3, <3>4, <3>5, <3>7, <4>1
      <4>3. d = b + w
        BY <4>2
      <4> QED
        BY <4>1, <4>3
    <3> QED
      BY <1>1, <2>1, <3>2, <3>6, <3>7, <3>8 DEF JoinedAt
  <2> QED
    BY <2>4, <2>5
<1>5. PICK G, next : G = {i \in 1..(n + 1) : i = n + 1 \/ JoinedAt(ps, f, o, i)}
                     /\ next = [i \in 1..n |-> i + 1]
  OBVIOUS
<1>6. n + 1 \in G /\ next \in [1..n -> 1..(n + 1)]
  BY <1>2, <1>5
<1>7. \A i \in 1..n : next[i] > i /\ (next[i] \in G => i \in G)
  <2> SUFFICES ASSUME NEW i \in 1..n PROVE next[i] > i /\ (next[i] \in G => i \in G)
    OBVIOUS
  <2>1. next[i] = i + 1 /\ i + 1 > i /\ i \in 1..(n + 1) /\ (i + 1 = n + 1 => i = n)
    BY <1>2, <1>5
  <2>2. i + 1 \in G => (i # n => JoinedAt(ps, f, o, i + 1))
    BY <1>5, <2>1
  <2> QED
    BY <1>4, <1>5, <2>1, <2>2
<1>8. JoinedAt(ps, f, o, 1)
  <2>1. \A i \in 1..(n + 1) : i \in G
    BY <1>2, <1>6, <1>7, Downwards
  <2>2. 1 \in 1..(n + 1) /\ 1 # n + 1
    BY <1>2
  <2> QED
    BY <1>5, <2>1, <2>2
<1> QED
  BY <1>3, <1>8 DEF JoinedAt

-----------------------------------------------------------------------------
(* The offsets are exact *)

\* Paragraphs and parts stand where they say, base further on, and two
\* characters apart; blocks, parents and chunks stand where they say.
SplitPlaces ==
  /\ StandsAt(content, 0)
  /\ level \in {"new", "parent"} => base = 0
  /\ OneBlankLine =>
       /\ level \in {"parent", "child"} =>
            /\ units \in Seq(Placed(base)) /\ parts \in Seq(Placed(base))
            /\ Spaced(units) /\ Spaced(parts)
            /\ parts # <<>> /\ units # <<>> => units[1].start = parts[Len(parts)].end + 2
            /\ cut # NoCut => StandsAt(cut.text, base + cut.start) /\ Apart(cut.text)
            /\ blocks \in Seq(Placed(0))
       /\ parents \in Seq(Placed(0)) /\ waiting \in Seq(Placed(0))
       /\ level = "child" \/ parents # <<>> => children \in Seq(Placed(0))

LEMMA ParagraphsOfText ==
  ASSUME NEW t \in Text, NEW o \in Nat, StandsAt(t, o), Apart(t)
  PROVE  /\ MergeHeadings(ParagraphUnits(t)) \in Seq(Placed(o))
         /\ Spaced(MergeHeadings(ParagraphUnits(t)))
<1>1. PICK ps : ps = ParagraphUnits(t)
  OBVIOUS
<1>2. ps \in Seq(Placed(o)) /\ Spaced(ps)
  BY <1>1, ParagraphsInPlace, ParagraphsSpaced
<1> QED
  BY <1>1, <1>2, MergeInPlace

LEMMA FlushedInPlace ==
  ASSUME SplitTyped, level \in {"parent", "child"},
         parts \in Seq(Placed(base)), Spaced(parts), blocks \in Seq(Placed(0))
  PROVE  Flushed \in Seq(Placed(0))
<1>1. base \in Nat /\ parts \in Seq(Unit)
  BY DEF SplitTyped
<1>2. CASE parts = <<>>
  BY <1>2 DEF Flushed
<1>3. CASE parts # <<>>
  <2>1. PICK x, n, b, e : /\ x = Joined(parts) /\ n = Len(parts)
                          /\ b = base + parts[1].start /\ e = base + parts[n].end
    OBVIOUS
  <2>2. n \in Nat /\ n > 0 /\ 1 \in 1..n /\ n \in 1..n
    BY <1>1, <1>3, <2>1
  <2>3. parts[1] \in Placed(base) /\ parts[n] \in Placed(base)
    BY <2>1, <2>2
  <2>4. parts[1].start \in Nat /\ parts[n].end \in Nat
    BY <2>3, PlacedFields
  <2>5. /\ StandsAt(x, b) /\ Apart(x) /\ parts[n].end = parts[1].start + Len(x)
    BY <1>1, <1>3, <2>1, JoinedInPlace
  <2>6. x \in Text /\ Trimmed(x) /\ Len(x) \in Nat
    BY <1>1, <1>3, <2>1, JoinedHoldsAll DEF Text
  <2>7. b \in Nat /\ e \in Nat /\ e = b + Len(x)
    <3>1. PICK c, d, k : c = parts[1].start /\ d = parts[n].end /\ k = Len(x)
      OBVIOUS
    <3>2. c \in Nat /\ d \in Nat /\ k \in Nat /\ d = c + k /\ b = base + c /\ e = base + d
      BY <2>1, <2>4, <2>5, <2>6, <3>1
    <3>3. b \in Nat /\ e \in Nat /\ e = b + k
      BY <1>1, <3>2
    <3> QED
      BY <3>1, <3>3
  <2>8. PICK u : u = [text |-> x, start |-> b, end |-> e]
    OBVIOUS
  <2>9. u \in Unit
    <3>1. x \in Text \ {<<>>}
      BY <2>6 DEF Trimmed
    <3> QED
      BY <2>6, <2>7, <2>8, <3>1 DEF Unit, Block
  <2>10. u \in Placed(0)
    <3>1. 0 + b = b
      BY <2>7
    <3>2. InPlace(u, 0)
      BY <2>5, <2>7, <2>8, <3>1 DEF InPlace
    <3> QED
      BY <2>9, <3>2 DEF Placed
  <2>11. Head(parts) = parts[1] /\ Last(parts) = parts[n]
    BY <1>1, <1>3, <2>1 DEF Last
  <2>12. Flushed = Append(blocks, u)
    BY <1>3, <2>1, <2>8, <2>11 DEF Flushed
  <2> QED
    BY <2>10, <2>12
<1> QED
  BY <1>2, <1>3

LEMMA PlacesBegin == SplitInit => SplitPlaces
<1> SUFFICES ASSUME SplitInit PROVE SplitPlaces
  OBVIOUS
<1>1. /\ content = <<>> /\ level = "new" /\ base = 0
      /\ parents = <<>> /\ waiting = <<>>
  BY DEF SplitInit
<1>2. StandsAt(content, 0)
  BY <1>1 DEF StandsAt, Inked
<1> QED
  BY <1>1, <1>2 DEF SplitPlaces

LEMMA BeginPlaces ==
  ASSUME SplitInv, SplitPlaces, level = "new", NEW text \in Documents,
         NEW mode \in {"flat", "parent"}, Begin(text, mode)
  PROVE  SplitPlaces'
<1>1. /\ level' = mode /\ content' = text
      /\ mode # "flat" => units' = MergeHeadings(ParagraphUnits(text))
      /\ UNCHANGED <<settings, base, parts, cut, blocks, parents, waiting, children>>
  BY DEF Begin
<1>2. /\ parts = <<>> /\ cut = NoCut /\ blocks = <<>>
      /\ parents = <<>> /\ waiting = <<>> /\ children = <<>> /\ base = 0
  BY DEF SplitInv, SplitStages, SplitPlaces
<1>3. text \in Text /\ StandsAt(text, 0)
  <2>1. text \in Text /\ \A i \in DOMAIN text : text[i].at = i
    BY DocumentsRise
  <2>2. \A i \in DOMAIN text : 0 + i = i
    BY <2>1 DEF Text
  <2> QED
    BY <2>1, <2>2 DEF StandsAt, Inked
<1>4. ASSUME OneBlankLine', mode = "parent"
      PROVE  units' \in Seq(Placed(0)) /\ Spaced(units')
  <2>1. PICK ps : ps = ParagraphUnits(text)
    OBVIOUS
  <2>2. ps \in Seq(Placed(0))
    BY <1>3, <2>1, ParagraphsInPlace
  <2>3. Spaced(ps)
    BY <1>1, <1>4, <2>1 DEF OneBlankLine, Spaced
  <2> QED
    BY <1>1, <1>4, <2>1, <2>2, <2>3, MergeInPlace
<1>5. StandsAt(content, 0)'
  BY <1>1, <1>3 DEF StandsAt
<1>6. base' = 0 /\ parts' = <<>> /\ cut' = NoCut /\ blocks' = <<>> /\ parents' = <<>>
      /\ waiting' = <<>> /\ level' \in {"flat", "parent"} /\ level' # "child"
  BY <1>1, <1>2
<1>7. ASSUME OneBlankLine', level' = "parent"
      PROVE  /\ units' \in Seq(Placed(base')) /\ parts' \in Seq(Placed(base'))
             /\ Spaced(units') /\ Spaced(parts') /\ blocks' \in Seq(Placed(0))
  <2>1. units' \in Seq(Placed(0)) /\ Spaced(units')
    BY <1>1, <1>4, <1>7
  <2>2. Spaced(<<>>) /\ <<>> \in Seq(Placed(0))
    BY DEF Spaced
  <2> QED
    BY <1>6, <2>1, <2>2
<1>8. parents' \in Seq(Placed(0)) /\ waiting' \in Seq(Placed(0))
  BY <1>6
<1> QED
  BY <1>5, <1>6, <1>7, <1>8 DEF SplitPlaces

LEMMA PlaceUnitPlaces ==
  ASSUME SplitInv, SplitPlaces, PlaceUnit
  PROVE  SplitPlaces'
<1>1. PICK u, e : u = Head(units) /\ e = Tail(units)
  OBVIOUS
<1>2. /\ Running /\ cut = NoCut /\ units # <<>> /\ units' = e
      /\ UNCHANGED <<content, settings, level, base, parents, waiting, children>>
  BY <1>1 DEF PlaceUnit
<1>3. SplitTyped
  BY DEF SplitInv
<1>4. StandsAt(content, 0)' /\ (level' \in {"new", "parent"} => base' = 0)
      /\ (OneBlankLine' => OneBlankLine)
  <2>1. StandsAt(content, 0) /\ (level \in {"new", "parent"} => base = 0)
    BY DEF SplitPlaces
  <2>2. StandsAt(content, 0)'
    BY <1>2, <2>1 DEF StandsAt
  <2>3. OneBlankLine' => OneBlankLine
    BY <1>2 DEF OneBlankLine
  <2> QED
    BY <1>2, <2>1, <2>2, <2>3
<1>5. ASSUME OneBlankLine
      PROVE  /\ parents' \in Seq(Placed(0)) /\ waiting' \in Seq(Placed(0))
             /\ level' = "child" \/ parents' # <<>> => children' \in Seq(Placed(0))
  BY <1>2, <1>5 DEF SplitPlaces
<1>6. ASSUME OneBlankLine, level \in {"parent", "child"}
      PROVE  /\ units' \in Seq(Placed(base)) /\ parts' \in Seq(Placed(base))
             /\ Spaced(units') /\ Spaced(parts')
             /\ parts' # <<>> /\ units' # <<>> =>
                  units'[1].start = parts'[Len(parts')].end + 2
             /\ cut' # NoCut => StandsAt(cut'.text, base + cut'.start) /\ Apart(cut'.text)
             /\ blocks' \in Seq(Placed(0))
  <2>1. /\ units \in Seq(Placed(base)) /\ parts \in Seq(Placed(base))
        /\ Spaced(units) /\ Spaced(parts)
        /\ parts # <<>> => units[1].start = parts[Len(parts)].end + 2
        /\ blocks \in Seq(Placed(0))
    BY <1>2, <1>6 DEF SplitPlaces
  <2>2. PICK n : n = Len(units)
    OBVIOUS
  <2>3. /\ n \in Nat /\ n # 0 /\ u = units[1] /\ u \in Placed(base) /\ e \in Seq(Placed(base))
        /\ Len(e) = n - 1 /\ \A i \in 1..(n - 1) : e[i] = units[i + 1]
    BY <1>1, <1>2, <2>1, <2>2
  <2>4. \A i \in 1..(n - 1) : units[i + 1].start = units[i].end + 2
    BY <2>1, <2>2 DEF Spaced
  <2>5. Spaced(e) /\ (e # <<>> => e[1].start = u.end + 2)
    <3>1. ASSUME NEW i \in 1..(Len(e) - 1) PROVE e[i + 1].start = e[i].end + 2
      <4>1. i \in 1..(n - 1) /\ i + 1 \in 1..(n - 1)
        BY <2>3
      <4> QED
        BY <2>3, <2>4, <4>1
    <3>2. ASSUME e # <<>> PROVE e[1].start = u.end + 2
      <4>1. 1 \in 1..(n - 1) /\ 1 + 1 = 2
        BY <2>3, <3>2
      <4>2. e[1] = units[1 + 1] /\ units[1 + 1].start = units[1].end + 2
        BY <2>3, <2>4, <4>1
      <4> QED
        BY <2>3, <4>2
    <3> QED
      BY <3>1, <3>2 DEF Spaced
  <2>6. Flushed \in Seq(Placed(0))
    BY <1>3, <1>6, <2>1, FlushedInPlace
  <2>7. CASE /\ blocks' = Flushed /\ parts' = <<>>
             /\ cut' = [text |-> u.text, start |-> u.start, cursor |-> 0]
    <3>1. cut'.text = u.text /\ cut'.start = u.start
      BY <2>7
    <3>2. StandsAt(u.text, base + u.start) /\ Apart(u.text)
      BY <2>3, PlacedFields
    <3>3. Spaced(<<>>) /\ <<>> \in Seq(Placed(base))
      BY DEF Spaced
    <3> QED
      BY <1>2, <2>3, <2>5, <2>6, <2>7, <3>1, <3>2, <3>3
  <2>8. CASE cut' = cut /\ blocks' = Flushed /\ parts' = <<u>>
    <3>1. PICK q : q = <<u>>
      OBVIOUS
    <3>2. /\ q \in Seq(Placed(base)) /\ Len(q) = 1 /\ q[1] = u
      BY <2>3, <3>1
    <3>3. Spaced(q)
      BY <3>2 DEF Spaced
    <3>4. e # <<>> => e[1].start = q[Len(q)].end + 2
      BY <2>5, <3>2
    <3> QED
      BY <1>2, <2>3, <2>5, <2>6, <2>8, <3>1, <3>2, <3>3, <3>4
  <2>9. CASE cut' = cut /\ blocks' = blocks /\ parts' = Append(parts, u)
    <3>1. PICK q, m : q = Append(parts, u) /\ m = Len(parts)
      OBVIOUS
    <3>2. /\ q \in Seq(Placed(base)) /\ m \in Nat /\ Len(q) = m + 1 /\ q[m + 1] = u
          /\ \A i \in 1..m : q[i] = parts[i]
      BY <2>1, <2>3, <3>1
    <3>3. m # 0 => parts # <<>>
      BY <3>1
    <3>4. ASSUME NEW i \in 1..(Len(q) - 1) PROVE q[i + 1].start = q[i].end + 2
      <4>1. i \in 1..m
        BY <3>2
      <4>2. CASE i = m
        <5>1. q[i + 1] = units[1] /\ q[i] = parts[m] /\ parts # <<>>
          BY <2>3, <3>2, <3>3, <4>1, <4>2
        <5> QED
          BY <2>1, <3>1, <5>1
      <4>3. CASE i # m
        <5>1. i + 1 \in 1..m /\ i \in 1..(m - 1)
          BY <3>2, <4>1, <4>3
        <5>2. q[i + 1] = parts[i + 1] /\ q[i] = parts[i]
          BY <3>2, <4>1, <5>1
        <5>3. parts[i + 1].start = parts[i].end + 2
          BY <2>1, <3>1, <5>1 DEF Spaced
        <5> QED
          BY <5>2, <5>3
      <4> QED
        BY <4>2, <4>3
    <3>5. Spaced(q)
      BY <3>4 DEF Spaced
    <3>6. e # <<>> => e[1].start = q[Len(q)].end + 2
      BY <2>5, <3>2
    <3> QED
      BY <1>2, <2>1, <2>3, <2>5, <2>9, <3>1, <3>2, <3>5, <3>6
  <2> QED
    BY <1>1, <2>7, <2>8, <2>9 DEF PlaceUnit
<1> QED
  BY <1>2, <1>4, <1>5, <1>6 DEF SplitPlaces

LEMMA CutPiecePlaces ==
  ASSUME SplitInv, SplitPlaces, CutPiece
  PROVE  SplitPlaces'
<1>1. PICK t, cursor, end, raw, piece :
        /\ t = cut.text /\ cursor = cut.cursor
        /\ end = PieceEnd(cut.text, cut.cursor)
        /\ raw = SubSeq(cut.text, cut.cursor + 1, end)
        /\ piece = [text |-> Strip(raw),
                    start |-> base + cut.start + cut.cursor + Leading(raw),
                    end |-> base + cut.start + end - Trailing(raw)]
  OBVIOUS
<1>2. /\ cut # NoCut
      /\ blocks' = IF piece.text = <<>> THEN blocks ELSE Append(blocks, piece)
      /\ cut' = IF end >= Len(cut.text) THEN NoCut
                ELSE [cut EXCEPT !.cursor = NextCursor(@, end)]
      /\ UNCHANGED <<content, settings, level, base, units, parts, parents,
                     waiting, children>>
  BY <1>1 DEF CutPiece
<1>3. /\ SplitTyped /\ base \in Nat /\ cut \in [text : Text, start : Nat, cursor : Nat]
      /\ cut.cursor < Len(cut.text)
  BY <1>2 DEF SplitInv, SplitTyped
<1>4. StandsAt(content, 0)' /\ (level' \in {"new", "parent"} => base' = 0)
      /\ (OneBlankLine' => OneBlankLine)
  <2>1. StandsAt(content, 0) /\ (level \in {"new", "parent"} => base = 0)
    BY DEF SplitPlaces
  <2>2. StandsAt(content, 0)'
    BY <1>2, <2>1 DEF StandsAt
  <2>3. OneBlankLine' => OneBlankLine
    BY <1>2 DEF OneBlankLine
  <2> QED
    BY <1>2, <2>1, <2>2, <2>3
<1>5. ASSUME OneBlankLine
      PROVE  /\ parents' \in Seq(Placed(0)) /\ waiting' \in Seq(Placed(0))
             /\ level' = "child" \/ parents' # <<>> => children' \in Seq(Placed(0))
  BY <1>2, <1>5 DEF SplitPlaces
<1>6. ASSUME OneBlankLine, level \in {"parent", "child"}
      PROVE  /\ units \in Seq(Placed(base)) /\ parts \in Seq(Placed(base))
             /\ Spaced(units) /\ Spaced(parts)
             /\ parts # <<>> /\ units # <<>> => units[1].start = parts[Len(parts)].end + 2
             /\ cut' # NoCut => StandsAt(cut'.text, base + cut'.start) /\ Apart(cut'.text)
             /\ blocks' \in Seq(Placed(0))
  <2>1. /\ units \in Seq(Placed(base)) /\ parts \in Seq(Placed(base))
        /\ Spaced(units) /\ Spaced(parts)
        /\ parts # <<>> /\ units # <<>> => units[1].start = parts[Len(parts)].end + 2
        /\ StandsAt(t, base + cut.start) /\ Apart(t)
        /\ blocks \in Seq(Placed(0))
    BY <1>1, <1>2, <1>6 DEF SplitPlaces
  <2>2. cut' # NoCut => cut'.text = cut.text /\ cut'.start = cut.start
    <3>1. PICK k : k = NextCursor(cut.cursor, end)
      OBVIOUS
    <3>2. cut' # NoCut => cut' = [cut EXCEPT !.cursor = k]
      BY <1>2, <3>1
    <3> QED
      BY <1>3, <3>2
  <2>3. PICK n, s, o : n = Len(t) /\ s = cut.start /\ o = base + cut.start
    OBVIOUS
  <2>4. /\ t \in Text /\ cursor \in Nat /\ n \in Nat /\ cursor < n /\ s \in Nat
        /\ o = base + s /\ o \in Nat
    BY <1>1, <1>3, <2>3 DEF Text
  <2>5. end \in (cursor + 1)..n
    BY <1>1, <1>3, <2>3, <2>4, PieceEndIs
  <2>6. piece.text # <<>> => piece \in Placed(0)
    <3> SUFFICES ASSUME piece.text # <<>> PROVE piece \in Placed(0)
      OBVIOUS
    <3>1. PICK a, x : a = cursor + 1 /\ x = Strip(raw)
      OBVIOUS
    <3>2. t \in Text /\ a \in 1..(Len(t) + 1) /\ end \in (a - 1)..Len(t)
      BY <2>3, <2>4, <2>5, <3>1
    <3>3. raw = SubSeq(t, a, end)
      BY <1>1, <3>1
    <3>4. Strip(raw) # <<>>
      BY <1>1
    <3>5. PICK c \in 1..Len(t), d \in 1..Len(t) : StripsAt(raw, t, a, end, c, d)
      BY <3>2, <3>3, <3>4, StrippedPart
    <3>6. /\ StripsTo(x, t, a, end, c, d)
          /\ Leading(raw) = c - a /\ Trailing(raw) = end - d
      BY <3>1, <3>5 DEF StripsAt
    <3>7. StandsAt(x, o + (c - 1)) /\ Len(x) = d - c + 1 /\ Apart(x)
      BY <2>1, <2>3, <2>4, <3>6, PartInPlace
    <3>8. PICK b, e : /\ b = base + cut.start + cut.cursor + Leading(raw)
                      /\ e = base + cut.start + end - Trailing(raw)
      OBVIOUS
    <3>9. b = base + s + cursor + (c - (cursor + 1)) /\ e = base + s + end - (end - d)
      BY <1>1, <2>3, <3>1, <3>6, <3>8
    <3>10. c \in Nat /\ d \in Nat /\ c >= 1 /\ end \in Nat
      BY <2>3, <2>4, <2>5
    <3>11. b = o + (c - 1) /\ e = b + (d - c + 1) /\ b \in Nat /\ e \in Nat /\ 0 + b = b
      BY <1>3, <2>4, <3>9, <3>10
    <3>12. piece = [text |-> x, start |-> b, end |-> e]
      BY <1>1, <3>1, <3>8
    <3>13. x \in Text /\ Trimmed(x)
      BY <3>6 DEF StripsTo, IsPart
    <3>14. piece \in Unit
      <4>1. x \in Text \ {<<>>}
        BY <3>13 DEF Trimmed
      <4> QED
        BY <3>11, <3>12, <3>13, <4>1 DEF Unit, Block
    <3>15. InPlace(piece, 0)
      BY <3>7, <3>11, <3>12 DEF InPlace
    <3> QED
      BY <3>14, <3>15 DEF Placed
  <2>7. blocks' \in Seq(Placed(0))
    BY <1>2, <2>1, <2>6
  <2> QED
    BY <1>1, <2>1, <2>2, <2>7
<1> QED
  BY <1>2, <1>4, <1>5, <1>6 DEF SplitPlaces

LEMMA FinishSplitPlaces ==
  ASSUME SplitInv, SplitPlaces, FinishSplit
  PROVE  SplitPlaces'
<1>1. PICK todo, fl : todo = (IF level = "parent" THEN Flushed ELSE waiting) /\ fl = Flushed
  OBVIOUS
<1>2. /\ Running /\ cut = NoCut /\ units = <<>>
      /\ parts' = <<>> /\ blocks' = <<>>
      /\ IF level = "parent" THEN parents' = fl /\ UNCHANGED children
                             ELSE children' = children \o fl /\ UNCHANGED parents
      /\ IF todo = <<>>
           THEN /\ level' = "done"
                /\ UNCHANGED <<base, units, waiting>>
           ELSE /\ level' = "child"
                /\ base' = Head(todo).start
                /\ units' = MergeHeadings(ParagraphUnits(Head(todo).text))
                /\ waiting' = Tail(todo)
      /\ UNCHANGED <<content, settings, cut>>
  BY <1>1 DEF FinishSplit
<1>3. SplitTyped /\ SplitStages
  BY DEF SplitInv
<1>4. StandsAt(content, 0)' /\ (OneBlankLine' => OneBlankLine)
  <2>1. StandsAt(content, 0)
    BY DEF SplitPlaces
  <2>2. StandsAt(content, 0)'
    BY <1>2, <2>1 DEF StandsAt
  <2>3. OneBlankLine' => OneBlankLine
    BY <1>2 DEF OneBlankLine
  <2> QED
    BY <2>2, <2>3
<1>5. level \in {"flat", "parent", "child"} /\ level' \in {"child", "done"}
  BY <1>2 DEF Running
<1>6. ASSUME OneBlankLine
      PROVE  /\ todo \in Seq(Placed(0)) /\ parents' \in Seq(Placed(0))
             /\ level # "flat" => children' \in Seq(Placed(0))
             /\ level = "flat" => todo = <<>> /\ parents' = <<>>
  <2>1. parents \in Seq(Placed(0)) /\ waiting \in Seq(Placed(0))
    BY <1>6 DEF SplitPlaces
  <2>2. CASE level = "flat"
    BY <1>1, <1>2, <1>3, <2>1, <2>2 DEF SplitStages
  <2>3. CASE level = "parent"
    <3>1. fl \in Seq(Placed(0))
      BY <1>1, <1>3, <1>6, <2>3, FlushedInPlace DEF SplitPlaces
    <3>2. children' = <<>>
      BY <1>2, <1>3, <2>3 DEF SplitStages
    <3> QED
      BY <1>1, <1>2, <2>3, <3>1, <3>2
  <2>4. CASE level = "child"
    <3>1. fl \in Seq(Placed(0)) /\ children \in Seq(Placed(0))
      BY <1>1, <1>3, <1>6, <2>4, FlushedInPlace DEF SplitPlaces
    <3>2. children' = children \o fl /\ parents' = parents /\ todo = waiting
      BY <1>1, <1>2, <2>4
    <3> QED
      BY <2>1, <2>4, <3>1, <3>2
  <2> QED
    BY <1>5, <2>2, <2>3, <2>4
<1>7. CASE todo = <<>>
  <2>1. level' = "done" /\ waiting' = waiting
    BY <1>2, <1>7
  <2>2. OneBlankLine => waiting \in Seq(Placed(0))
    BY DEF SplitPlaces
  <2>3. ASSUME OneBlankLine, parents' # <<>> PROVE children' \in Seq(Placed(0))
    BY <1>6, <2>3
  <2>4. level' \notin {"new", "parent", "child"}
    BY <2>1
  <2> QED
    BY <1>4, <1>6, <2>1, <2>2, <2>3, <2>4 DEF SplitPlaces
<1>8. CASE todo # <<>>
  <2>1. PICK h, e : h = Head(todo) /\ e = Tail(todo)
    OBVIOUS
  <2>2. /\ level' = "child" /\ base' = h.start /\ waiting' = e
        /\ units' = MergeHeadings(ParagraphUnits(h.text)) /\ parts' = <<>> /\ blocks' = <<>>
        /\ cut' = NoCut
    BY <1>2, <1>8, <2>1
  <2>3. ASSUME OneBlankLine
        PROVE  /\ units' \in Seq(Placed(base')) /\ Spaced(units')
               /\ waiting' \in Seq(Placed(0)) /\ children' \in Seq(Placed(0))
    <3>1. h \in Placed(0) /\ e \in Seq(Placed(0)) /\ level # "flat"
      BY <1>6, <1>8, <2>1, <2>3
    <3>2. /\ h.text \in Text /\ h.start \in Nat /\ StandsAt(h.text, 0 + h.start)
          /\ Apart(h.text)
      BY <3>1, PlacedFields
    <3>3. 0 + h.start = h.start
      BY <3>2
    <3>4. PICK t, o : t = h.text /\ o = h.start
      OBVIOUS
    <3>5. /\ MergeHeadings(ParagraphUnits(t)) \in Seq(Placed(o))
          /\ Spaced(MergeHeadings(ParagraphUnits(t)))
      BY <3>2, <3>3, <3>4, ParagraphsOfText
    <3> QED
      BY <1>6, <2>2, <2>3, <3>1, <3>4, <3>5
  <2>4. Spaced(<<>>) /\ <<>> \in Seq(Placed(base')) /\ <<>> \in Seq(Placed(0))
    BY DEF Spaced
  <2>5. level' \notin {"new", "parent"}
    BY <2>2
  <2> QED
    BY <1>4, <1>6, <2>2, <2>3, <2>4, <2>5 DEF SplitPlaces
<1> QED
  BY <1>7, <1>8

THEOREM SplitPlacesHold == SplitSpec => []SplitPlaces
<1>1. SplitInit => SplitPlaces
  BY PlacesBegin
<1>2. SplitInv /\ SplitPlaces /\ [SplitNext]_splitVars => SplitPlaces'
  <2> SUFFICES ASSUME SplitInv, SplitPlaces, [SplitNext]_splitVars PROVE SplitPlaces'
    OBVIOUS
  <2>1. ASSUME level = "new", NEW text \in Documents, NEW mode \in {"flat", "parent"},
               Begin(text, mode)
        PROVE  SplitPlaces'
    BY <2>1, BeginPlaces
  <2>2. CASE PlaceUnit
    BY <2>2, PlaceUnitPlaces
  <2>3. CASE CutPiece
    BY <2>3, CutPiecePlaces
  <2>4. CASE FinishSplit
    BY <2>4, FinishSplitPlaces
  <2>5. CASE UNCHANGED splitVars
    <3>1. /\ content' = content /\ level' = level /\ base' = base
          /\ units' = units /\ parts' = parts /\ cut' = cut /\ blocks' = blocks
          /\ parents' = parents /\ waiting' = waiting /\ children' = children
      BY <2>5 DEF splitVars
    <3>2. StandsAt(content, 0)' <=> StandsAt(content, 0)
      BY <3>1 DEF StandsAt
    <3>3. OneBlankLine' <=> OneBlankLine
      BY <3>1 DEF OneBlankLine
    <3> QED
      BY <3>1, <3>2, <3>3 DEF SplitPlaces
  <2> QED
    BY <2>1, <2>2, <2>3, <2>4, <2>5 DEF SplitNext
<1> QED
  BY <1>1, <1>2, SplitInvHolds, PTL DEF SplitSpec

\* Where paragraphs are two characters apart, the offsets of parents and
\* chunks say where in the document their text stands, through both levels
\* of the split, merged headings and paragraphs cut by size.
THEOREM OffsetsRight == SplitSpec => []OffsetsExact
<1>1. SplitInv /\ SplitPlaces => OffsetsExact
  <2> SUFFICES ASSUME SplitInv, SplitPlaces, OneBlankLine
               PROVE  \A bs \in {parents, IF parents = <<>> THEN <<>> ELSE children} :
                        \A i \in DOMAIN bs : /\ bs[i].start = Head(bs[i].text).at - 1
                                             /\ bs[i].end = Last(bs[i].text).at
    BY DEF OffsetsExact
  <2>1. /\ parents \in Seq(Placed(0))
        /\ parents # <<>> => children \in Seq(Placed(0))
    BY DEF SplitPlaces
  <2>2. ASSUME NEW b \in Placed(0) PROVE b.start = Head(b.text).at - 1 /\ b.end = Last(b.text).at
    <3>1. PICK t, n, o : t = b.text /\ n = Len(t) /\ o = b.start
      OBVIOUS
    <3>2. /\ t \in Text /\ Trimmed(t) /\ n \in Nat /\ o \in Nat /\ b.end = o + n
          /\ StandsAt(t, 0 + o)
      BY <3>1, PlacedFields
    <3>3. t # <<>> /\ DOMAIN t = 1..n /\ n > 0 /\ Head(t) = t[1] /\ Last(t) = t[n]
      BY <3>1, <3>2 DEF Trimmed, Text, Last
    <3>4. 1 \in Inked(t) /\ n \in Inked(t)
      BY <3>1, <3>2, <3>3 DEF Trimmed, Inked
    <3>5. t[1].at = 0 + o + 1 /\ t[n].at = 0 + o + n
      BY <3>2, <3>4 DEF StandsAt
    <3> QED
      BY <3>1, <3>2, <3>3, <3>5
  <2>3. ASSUME NEW bs \in {parents, IF parents = <<>> THEN <<>> ELSE children},
               NEW i \in DOMAIN bs
        PROVE  bs[i] \in Placed(0)
    BY <2>1, <2>3
  <2> QED
    BY <2>2, <2>3
<1> QED
  BY <1>1, SplitInvHolds, SplitPlacesHold, PTL

-----------------------------------------------------------------------------
(* Part 2: searching *)

Old == ChunksOf(1)
New == ChunksOf(2)

\* The store before, during and after the writer.
NewStored == writer.kind \in {"upload", "over"}
WriterInv ==
  /\ writer.kind \in {"none", "over"} => writer.pc = "idle"
  /\ writer.kind = "upload" =>
       writer.pc \in {"embed", "sign", "upsert", "label", "delete", "unlabel"}
  /\ writer.kind = "reindex" =>
       writer.pc \in {"embed", "sign", "replace", "store"}
  /\ \A c \in New : c \in Stored <=> NewStored
  /\ writer.kind # "over" => Old \subseteq Stored
  /\ Old \subseteq Stored \/ Old \cap Stored = {}

-----------------------------------------------------------------------------
(* The index *)

\* Until two threads have been in _get_bm25_index at once: what is marked or
\* searched is what the thread read; without a thread between the two writes
\* the fingerprint is that of the index; and a fingerprint that is about to
\* be replaced is not that of the chunks the store has.
InIndex == {"build", "mark", "find"}
ReadFromStore(S) == S \in {{}, Old, Stored}
IndexInv ==
  /\ ReadFromStore(index) /\ ReadFromStore(fingerprint)
  /\ \A s \in Searches : search[s].pc \in InIndex =>
       ReadFromStore(search[s].chunks) /\ search[s].chunks # {}
  /\ ~raced =>
       /\ \A s \in Searches :
            search[s].pc \in {"mark", "find"} => index = search[s].chunks
       /\ (\A s \in Searches : search[s].pc # "mark") => fingerprint = index
       /\ \A s \in Searches : search[s].pc = "mark" =>
            /\ fingerprint # Stored
            /\ \A t \in Searches : search[t].pc = "mark" => s = t
            /\ \A t \in Searches :
                 search[t].pc = "build" => fingerprint # search[t].chunks
       /\ \A s \in Searches :
            search[s].pc = "build" /\ search[s].chunks # Stored =>
              /\ fingerprint # Stored
              /\ \A t \in Searches : search[t].pc = "mark" => search[t].chunks # Stored

-----------------------------------------------------------------------------
(* Labels *)

\* Chunks of the new build that have no label and never had one.
Unlabelled(c) ==
  \/ writer.kind \in {"none", "reindex"}
  \/ writer.kind = "upload" /\ writer.pc \in {"embed", "sign"}
  \/ writer.kind = "upload" /\ writer.pc \in {"upsert", "label"} /\ writer.next <= c.index

\* Who computed what, until a call came between a call and its signature: the
\* writer and, where it is about to write a label, the vector of that chunk;
\* and a search.
WriterSigns ==
  /\ writer.pc = "sign" => last = writer.producer
  /\ writer.pc \in {"upsert", "label", "delete", "unlabel", "replace", "store"} =>
       writer.signature = writer.producer
  /\ writer.pc = "label" => vectors[NextChunk] = writer.producer
  /\ writer.pc = "store" => \A c \in Chunk :
       vectors[c] = IF c \in New THEN writer.producer ELSE "absent"
SearchSigns(s) ==
  /\ search[s].pc = "sign" => last = search[s].producer
  /\ search[s].pc \in {"match", "filter"} => search[s].signature = search[s].producer
  /\ search[s].pc = "filter" => OneEmbedder(s)

LabelInv ==
  /\ \A c \in New : Unlabelled(c) =>
       /\ rows[c] \in {"none", "absent"}
       /\ \A s \in Searches : search[s].pc = "filter" => c \notin ToSet(search[s].vector)
  /\ ~mixed => /\ WriterSigns /\ LabelsTrue
               /\ \A s \in Searches : SearchSigns(s)

-----------------------------------------------------------------------------
(* What a search finds *)

ParentOf(c) == [build |-> c.build, index |-> 0]
Gathering == {"gather", "parent", "rank"}

\* The two lists have no chunk twice and are no longer than the search asks
\* for; they grow in their turn, and next walks along both.
ListsInv(q) ==
  /\ IsInjective(q.vector) /\ IsInjective(q.lexical)
  /\ Len(q.vector) <= Candidates
  /\ Len(q.lexical) <= IF q.strategy = "hybrid" THEN WordHits ELSE Candidates
  /\ q.pc = "filter" =>
       /\ q.matches \cap ToSet(q.vector) = {}
       /\ Len(q.vector) + Cardinality(q.matches) <= Candidates
  /\ q.pc \in {"idle", "embed", "sign", "match"} => q.vector = <<>>
  /\ q.pc = "list" /\ q.strategy = "hybrid" => q.vector = <<>>
  /\ q.pc \notin Gathering => q.lexical = <<>>
  /\ q.pc \notin Gathering \cup {"answered"} => q.candidates = <<>>
  /\ q.strategy = "hybrid" => q.pc \notin {"parent", "build", "mark", "find"}
  /\ q.next >= 1
  /\ q.pc \notin Gathering \/ q.strategy = "hybrid" => q.next = 1
  /\ q.pc \in Gathering /\ q.strategy # "hybrid" =>
       q.next <= Len(q.vector) + Len(q.lexical) + 1
  /\ q.pc = "parent" => q.next <= Len(q.vector) + Len(q.lexical)

\* What stands under a hit, of the chunks S that the store has.
HitInv(q, S) ==
  \A i, j \in DOMAIN q.candidates : LET a == q.candidates[i]  b == q.candidates[j] IN
    /\ Len(a.evidence) >= 1 /\ IsInjective(a.evidence)
    /\ i # j => ToSet(a.evidence) \cap ToSet(b.evidence) \cap S = {}
    /\ \A c \in ToSet(a.evidence) : a.id \in {c, ParentOf(c)}

\* While the hits of parent_child are gathered: one for an id; a chunk that
\* stands for itself although it has a parent block has lost it for good.
ParentHits(q, S) ==
  q.strategy # "hybrid" /\ q.pc \in Gathering =>
    \A i, j \in DOMAIN q.candidates : LET a == q.candidates[i] IN
      /\ i # j => a.id # q.candidates[j].id
      /\ a.id \in Parent => a.id.build \in Nested
      /\ a.id \in Chunk /\ a.id.build \in Nested => ChunksOf(a.id.build) \cap S = {}

\* Those of hybrid are chunks, one by one.
ChunkHits(q) ==
  q.strategy = "hybrid" /\ q.pc \in Gathering =>
    \A i, j \in DOMAIN q.candidates : LET a == q.candidates[i] IN
      /\ a.id \in Chunk /\ a.evidence = <<a.id>>
      /\ q.pc = "gather" => a.id \notin q.matches
      /\ i # j => a.id # q.candidates[j].id
      /\ a.vrank <= Candidates /\ a.lrank <= WordHits

\* Hits of parent_child come in the order of their best vector rank, those
\* without one after them in the order of their best rank by words.
Earlier(a, b) ==
  \/ a.vrank # 0 /\ (b.vrank = 0 \/ a.vrank < b.vrank)
  \/ a.vrank = 0 /\ b.vrank = 0 /\ a.lrank # 0 /\ a.lrank < b.lrank

DiscoveryInv(q) ==
  q.strategy # "hybrid" /\ q.pc \in Gathering =>
    \A i, j \in DOMAIN q.candidates : LET a == q.candidates[i] IN
      /\ i < j => Earlier(a, q.candidates[j])
      /\ a.vrank # 0 \/ a.lrank # 0
      /\ a.vrank < q.next
      /\ a.lrank # 0 => a.lrank + Len(q.vector) < q.next

\* What a search answers: not too much, nothing under two hits, and the best
\* first.
OneForId(cs) == \A i, j \in DOMAIN cs : i # j => cs[i].id # cs[j].id

Bounded(q) ==
  q.pc = "answered" =>
    /\ Len(q.candidates) <= TopK /\ OneForId(q.candidates)
    /\ \A i \in DOMAIN q.candidates : Len(q.candidates[i].evidence) \in 1..MaxEvidence

BestAnswer(q) ==
  q.pc = "answered" /\ q.strategy # "parent_child_rerank" =>
    \A i, j \in DOMAIN q.candidates :
      i < j /\ Beats(q.candidates[j], q.candidates[i]) =>
        q.strategy = "hybrid" /\ RoundedAlike(q.candidates[i], q.candidates[j])

Found(q, S) ==
  ListsInv(q) /\ HitInv(q, S) /\ ParentHits(q, S) /\ ChunkHits(q) /\ DiscoveryInv(q)
  /\ Bounded(q)

\* No memory of the process holds a chunk of the new build before the store.
Unseen(q) ==
  /\ q.chunks \cap New = {}
  /\ ToSet(q.vector) \cap New = {} /\ ToSet(q.lexical) \cap New = {}
  /\ \A i \in DOMAIN q.candidates : ToSet(q.candidates[i].evidence) \cap New = {}

SeenInv ==
  ~NewStored =>
    /\ index \cap New = {} /\ fingerprint \cap New = {}
    /\ \A s \in Searches : Unseen(search[s])

FoundInv == \A s \in Searches : Found(search[s], Stored)

AnswerInv == \A s \in Searches : BestAnswer(search[s])

-----------------------------------------------------------------------------
(* Builds and chunks *)

\* The constants are positive numbers, and there are two builds.
LEMMA Constants ==
  /\ ChunksPerBuild \in Nat /\ ChunksPerBuild >= 1
  /\ Candidates \in Nat /\ Candidates >= 1
  /\ WordHits \in Nat /\ WordHits >= 1
  /\ MaxEvidence \in Nat /\ MaxEvidence >= 1
  /\ TopK \in Nat /\ TopK >= 1
  /\ Builds = {1, 2} /\ Nested \subseteq Builds
  BY RetrievalAssumption

\* A chunk is of one build; either build has a chunk.
LEMMA TwoBuilds ==
  /\ Chunk = Old \cup New /\ Old \cap New = {}
  /\ Old # {} /\ New # {}
  /\ \A c \in Chunk : c.build \in {1, 2} /\ c.index \in 1..ChunksPerBuild
  /\ \A c \in Chunk : (c \in Old <=> c.build = 1) /\ (c \in New <=> c.build = 2)
  /\ Old \in SUBSET Chunk /\ New \in SUBSET Chunk
<1>1. \A c \in Chunk : c.build \in {1, 2} /\ c.index \in 1..ChunksPerBuild
  BY Constants DEF Chunk
<1>2. [build |-> 1, index |-> 1] \in Old /\ [build |-> 2, index |-> 1] \in New
  BY Constants DEF Chunk, ChunksOf, Old, New
<1> QED
  BY <1>1, <1>2 DEF ChunksOf, Old, New

\* There are finitely many chunks.
LEMMA ChunksFinite == IsFiniteSet(Chunk)
<1> DEFINE N == ChunksPerBuild
           f == [c \in Chunk |-> IF c.build = 1 THEN c.index ELSE N + c.index]
<1>1. f \in [Chunk -> 1..(N + N)]
  BY Constants, TwoBuilds
<1>2. ASSUME NEW c \in Chunk, NEW d \in Chunk, f[c] = f[d] PROVE c = d
  <2>1. c.build = d.build /\ c.index = d.index
    BY <1>2, Constants, TwoBuilds
  <2> QED
    BY <2>1 DEF Chunk
<1>3. f \in Injection(Chunk, 1..(N + N))
  BY <1>1, <1>2 DEF Injection, IsInjective
<1>4. IsFiniteSet(1..(N + N))
  BY FS_Interval, Constants
<1> QED
  BY <1>3, <1>4, FS_Injection

\* A chunk is no parent block, and is the child of one of its own build.
LEMMA ParentFacts ==
  ASSUME NEW c \in Chunk
  PROVE  /\ c \notin Parent
         /\ ParentOf(c) \in Parent /\ ParentOf(c) \notin Chunk
         /\ ParentOf(c).build = c.build
  BY Constants, TwoBuilds DEF Chunk, Parent, ParentOf

\* The next chunk of the writer is one of the new build.
LEMMA NextChunkIsNew ==
  ASSUME writer \in Writer
  PROVE  NextChunk \in New /\ NextChunk \in Chunk /\ NextChunk.index = writer.next
  BY Constants DEF Writer, NextChunk, New, ChunksOf, Chunk

-----------------------------------------------------------------------------
(* Sequences *)

\* What appending does to the elements of a sequence.
LEMMA AppendSet ==
  ASSUME NEW S, NEW q \in Seq(S), NEW x \in S
  PROVE  /\ Append(q, x) \in Seq(S) /\ Len(Append(q, x)) = Len(q) + 1
         /\ ToSet(Append(q, x)) = ToSet(q) \cup {x}
         /\ x \notin ToSet(q) /\ IsInjective(q) => IsInjective(Append(q, x))
<1> DEFINE r == Append(q, x)
<1>1. /\ r \in Seq(S) /\ Len(r) = Len(q) + 1 /\ DOMAIN r = 1..(Len(q) + 1)
      /\ DOMAIN q = 1..Len(q) /\ Len(q) \in Nat
      /\ \A i \in 1..Len(q) : r[i] = q[i]
      /\ r[Len(q) + 1] = x
  OBVIOUS
<1> HIDE DEF r
<1>2. ToSet(r) = ToSet(q) \cup {x}
  BY <1>1 DEF ToSet
<1>3. ASSUME x \notin ToSet(q), IsInjective(q) PROVE IsInjective(r)
  BY <1>1, <1>3 DEF ToSet, IsInjective
<1> QED
  BY <1>1, <1>2, <1>3 DEF r

\* The first entries of a sequence.
LEMMA AtmostFacts ==
  ASSUME NEW S, NEW q \in Seq(S), NEW n \in Nat
  PROVE  /\ Atmost(q, n) \in Seq(S)
         /\ Len(Atmost(q, n)) = IF Len(q) < n THEN Len(q) ELSE n
         /\ \A i \in 1..Len(Atmost(q, n)) : Atmost(q, n)[i] = q[i]
         /\ DOMAIN Atmost(q, n) \subseteq DOMAIN q
  BY DEF Atmost

\* No entry is made up, and none comes twice that did not before.
LEMMA AtmostSet ==
  ASSUME NEW S, NEW q \in Seq(S), NEW n \in Nat
  PROVE  /\ ToSet(Atmost(q, n)) \subseteq ToSet(q)
         /\ IsInjective(q) => IsInjective(Atmost(q, n))
<1> DEFINE r == Atmost(q, n)
<1>1. DOMAIN r \subseteq DOMAIN q /\ DOMAIN r = 1..Len(r) /\ \A i \in 1..Len(r) : r[i] = q[i]
  BY AtmostFacts
<1> HIDE DEF r
<1>2. ToSet(r) \subseteq ToSet(q)
  BY <1>1 DEF ToSet
<1>3. IsInjective(q) => IsInjective(r)
  BY <1>1 DEF IsInjective
<1> QED
  BY <1>2, <1>3 DEF r

-----------------------------------------------------------------------------
(* Types *)

\* TypeOK without the bounds on what a search has gathered, which follow
\* from the invariants of the lists.
Typed ==
  /\ rows \in [Chunk -> Embedder \cup {"none", "absent"}]
  /\ vectors \in [Chunk -> Embedder \cup {"absent"}]
  /\ last \in Embedder
  /\ index \subseteq Chunk /\ fingerprint \subseteq Chunk
  /\ search \in [Searches -> Search]
  /\ writer \in Writer
  /\ mixed \in BOOLEAN /\ raced \in BOOLEAN

\* A step of one thread leaves the searches of the others.
LEMMA BecomesFacts ==
  ASSUME search \in [Searches -> Search], NEW s \in Searches,
         NEW q \in Search, Becomes(s, q)
  PROVE  /\ search' \in [Searches -> Search]
         /\ search'[s] = q
         /\ \A t \in Searches : t # s => search'[t] = search[t]
  BY DEF Becomes

\* Nothing is searched yet.
LEMMA NoSearchType ==
  /\ NoSearch \in Search
  /\ NoSearch.pc = "idle" /\ NoSearch.next = 1 /\ NoSearch.candidates = <<>>
  /\ NoSearch.vector = <<>> /\ NoSearch.lexical = <<>> /\ NoSearch.chunks = {}
<1>1. <<>> \in Seq(Chunk) /\ <<>> \in Seq(Candidate) /\ {} \in SUBSET Chunk
  OBVIOUS
<1> QED
  BY <1>1 DEF NoSearch, Search, Embedder

\* What a search ranks: chunks, none twice, no more than it may.
LEMMA RankingsFacts ==
  ASSUME NEW S \in SUBSET Chunk, NEW most \in Nat, NEW q \in Rankings(S, most)
  PROVE  q \in Seq(Chunk) /\ ToSet(q) \subseteq S /\ IsInjective(q) /\ Len(q) <= most
<1>1. PICK n \in 0..most : q \in {p \in [1..n -> S] : IsInjective(p)}
  BY DEF Rankings
<1>2. q \in [1..n -> S] /\ IsInjective(q) /\ n \in Nat /\ n <= most
  BY <1>1
<1>3. q \in Seq(S) /\ Len(q) = n /\ DOMAIN q = 1..n
  BY <1>2
<1>4. ToSet(q) \subseteq S
  BY <1>2, <1>3 DEF ToSet
<1> QED
  BY <1>2, <1>3, <1>4

\* The elements of a typed sequence are typed.
LEMMA ToSetType ==
  ASSUME NEW S, NEW q \in Seq(S)
  PROVE  ToSet(q) \in SUBSET S
  BY DEF ToSet

LEMMA StoredType == Stored \in SUBSET Chunk /\ Points \in SUBSET Chunk
  BY DEF Stored, Points

\* The rank of a chunk in a list is one of its places, or 0.
LEMMA RankInType ==
  ASSUME NEW q \in Seq(Chunk), NEW c
  PROVE  RankIn(q, c) \in Nat /\ RankIn(q, c) <= Len(q)
<1>1. CASE ~Contains(q, c)
  BY <1>1 DEF RankIn
<1>2. CASE Contains(q, c)
  <2>1. \E i \in DOMAIN q : q[i] = c
    BY <1>2 DEF Contains
  <2>2. (CHOOSE i \in DOMAIN q : q[i] = c) \in DOMAIN q
    BY <2>1
  <2> QED
    BY <1>2, <2>2 DEF RankIn
<1> QED
  BY <1>1, <1>2

LEMMA CandidateType ==
  ASSUME NEW id \in Chunk \cup Parent, NEW e \in Seq(Chunk), NEW v \in Nat, NEW l \in Nat
  PROVE  [id |-> id, evidence |-> e, vrank |-> v, lrank |-> l] \in Candidate
  BY DEF Candidate

LEMMA AddEvidenceType ==
  ASSUME NEW e \in Seq(Chunk), NEW c \in Chunk
  PROVE  /\ AddEvidence(e, c) \in Seq(Chunk)
         /\ ToSet(AddEvidence(e, c)) = ToSet(e) \cup {c}
         /\ IsInjective(e) => IsInjective(AddEvidence(e, c))
         /\ Len(AddEvidence(e, c)) >= Len(e)
<1>1. Contains(e, c) <=> c \in ToSet(e)
  BY DEF Contains, ToSet
<1>2. CASE Contains(e, c)
  BY <1>1, <1>2 DEF AddEvidence
<1>3. CASE ~Contains(e, c)
  BY <1>1, <1>3, AppendSet DEF AddEvidence
<1> QED
  BY <1>2, <1>3

\* How a chunk supports a hit: a new one, or the one with this id.
LEMMA SupportedFacts ==
  ASSUME NEW cs \in Seq(Candidate), NEW id \in Chunk \cup Parent, NEW c \in Chunk,
         NEW v \in Nat, NEW l \in Nat
  PROVE  LET r == Supported(cs, id, c, v, l) IN
         /\ r \in Seq(Candidate)
         /\ Len(r) >= Len(cs)
         /\ \A i \in DOMAIN cs :
              /\ r[i].id = cs[i].id
              /\ cs[i].id # id => r[i] = cs[i]
              /\ cs[i].id = id =>
                   /\ r[i].evidence = AddEvidence(cs[i].evidence, c)
                   /\ r[i].vrank = BestRank(cs[i].vrank, v)
                   /\ r[i].lrank = BestRank(cs[i].lrank, l)
         /\ (\E i \in DOMAIN cs : cs[i].id = id) => Len(r) = Len(cs)
         /\ (\A i \in DOMAIN cs : cs[i].id # id) =>
              /\ Len(r) = Len(cs) + 1
              /\ r[Len(r)] = [id |-> id, evidence |-> <<c>>, vrank |-> v, lrank |-> l]
<1> DEFINE r == Supported(cs, id, c, v, l)
           new == [id |-> id, evidence |-> <<c>>, vrank |-> v, lrank |-> l]
           known == {i \in DOMAIN cs : cs[i].id = id}
<1>0. <<c>> \in Seq(Chunk)
  OBVIOUS
<1>1. <<c>> \in Seq(Chunk) /\ new \in Candidate
  BY <1>0, CandidateType, Zenon
<1>2. CASE known = {}
  <2>1. r = Append(cs, new)
    BY <1>2 DEF Supported
  <2> HIDE DEF r, new
  <2>2. /\ r \in Seq(Candidate) /\ Len(r) = Len(cs) + 1 /\ r[Len(cs) + 1] = new
        /\ \A i \in DOMAIN cs : r[i] = cs[i]
    BY <2>1, <1>1
  <2> QED
    BY <2>2, <1>2 DEF r, new
<1>3. CASE known # {}
  <2>1. r = [i \in DOMAIN cs |->
               IF i \notin known THEN cs[i]
               ELSE [cs[i] EXCEPT !.evidence = AddEvidence(@, c),
                                  !.vrank = BestRank(@, v), !.lrank = BestRank(@, l)]]
    BY <1>3 DEF Supported
  <2>2. ASSUME NEW a \in Candidate,
               NEW b, b = [a EXCEPT !.evidence = AddEvidence(@, c),
                                    !.vrank = BestRank(@, v), !.lrank = BestRank(@, l)]
        PROVE  /\ b \in Candidate /\ b.id = a.id
               /\ b.evidence = AddEvidence(a.evidence, c)
               /\ b.vrank = BestRank(a.vrank, v)
               /\ b.lrank = BestRank(a.lrank, l)
    <3>1. AddEvidence(a.evidence, c) \in Seq(Chunk)
      BY AddEvidenceType DEF Candidate
    <3>2. BestRank(a.vrank, v) \in Nat /\ BestRank(a.lrank, l) \in Nat
      BY DEF BestRank, Candidate
    <3> QED
      BY <2>2, <3>1, <3>2 DEF Candidate
  <2> HIDE DEF r
  <2>3. \A i \in DOMAIN cs : cs[i] \in Candidate
    OBVIOUS
  <2>4. DOMAIN r = DOMAIN cs /\ \A i \in DOMAIN cs : r[i] \in Candidate
    BY <2>1, <2>2, <2>3
  <2>5. r \in Seq(Candidate) /\ Len(r) = Len(cs)
    <3>1. DOMAIN r = 1..Len(cs) /\ Len(cs) \in Nat
      BY <2>4
    <3>2. r = [i \in 1..Len(cs) |-> r[i]]
      BY <2>1, <3>1
    <3> QED
      BY <2>4, <3>1, <3>2
  <2>6. \A i \in DOMAIN cs :
              /\ r[i].id = cs[i].id
              /\ cs[i].id # id => r[i] = cs[i]
              /\ cs[i].id = id =>
                   /\ r[i].evidence = AddEvidence(cs[i].evidence, c)
                   /\ r[i].vrank = BestRank(cs[i].vrank, v)
                   /\ r[i].lrank = BestRank(cs[i].lrank, l)
    BY <2>1, <2>2, <2>3
  <2> QED
    BY <1>3, <2>5, <2>6 DEF r
<1> QED
  BY <1>2, <1>3

-----------------------------------------------------------------------------
(* Sorting *)

\* A finite set of numbers can be put in the order of any strict total order:
\* the place of an element is how many are before it.
LEMMA OrderExists ==
  ASSUME NEW n \in Nat, NEW R,
         \A i \in 1..n : <<i, i>> \notin R,
         \A i, j, k \in 1..n : <<i, j>> \in R /\ <<j, k>> \in R => <<i, k>> \in R,
         \A i, j \in 1..n : i # j => <<i, j>> \in R \/ <<j, i>> \in R
  PROVE  \E p \in [1..n -> 1..n] : \A i, j \in 1..n : i < j => <<p[i], p[j]>> \in R
<1> DEFINE D == 1..n
           below(i) == {j \in D : <<j, i>> \in R}
           place == [i \in D |-> Cardinality(below(i)) + 1]
<1>1. IsFiniteSet(D) /\ Cardinality(D) = n
  BY FS_Interval
<1>2. ASSUME NEW i \in D
      PROVE  /\ IsFiniteSet(below(i)) /\ Cardinality(below(i)) \in Nat
             /\ Cardinality(below(i)) < n
  <2>1. below(i) \in SUBSET (D \ {i}) /\ n >= 1
    OBVIOUS
  <2>2. IsFiniteSet(D \ {i}) /\ Cardinality(D \ {i}) = n - 1
    BY <1>1, FS_RemoveElement
  <2> HIDE DEF below, D
  <2>3. IsFiniteSet(below(i)) /\ Cardinality(below(i)) <= n - 1
    BY <2>1, <2>2, FS_Subset
  <2>4. Cardinality(below(i)) \in Nat
    BY <2>3, FS_CardinalityType
  <2> QED
    BY <2>1, <2>3, <2>4
<1>4. ASSUME NEW i \in D, NEW j \in D, <<i, j>> \in R
      PROVE  Cardinality(below(i)) < Cardinality(below(j))
  <2>1. below(i) \in SUBSET below(j) /\ below(i) # below(j)
    BY <1>4
  <2>2. IsFiniteSet(below(j)) /\ Cardinality(below(j)) \in Nat /\ Cardinality(below(i)) \in Nat
    BY <1>2
  <2> HIDE DEF below
  <2>3. Cardinality(below(i)) <= Cardinality(below(j))
        /\ Cardinality(below(i)) # Cardinality(below(j))
    BY <2>1, <2>2, FS_Subset
  <2> QED
    BY <2>2, <2>3
<1> HIDE DEF below
<1>3. place \in [D -> D]
  BY <1>2
<1>11. \A i \in D : place[i] = Cardinality(below(i)) + 1
  OBVIOUS
<1> HIDE DEF place
<1>5. ASSUME NEW i \in D, NEW j \in D, place[i] = place[j] PROVE i = j
  <2>1. /\ Cardinality(below(i)) \in Nat /\ Cardinality(below(j)) \in Nat
        /\ Cardinality(below(i)) = Cardinality(below(j))
    BY <1>2, <1>5, <1>11
  <2>2. <<i, j>> \notin R /\ <<j, i>> \notin R
    BY <2>1, <1>4
  <2> QED
    BY <2>2
<1>6. place \in Surjection(D, D)
  <2>1. place \in Injection(D, D)
    BY <1>3, <1>5 DEF Injection, IsInjective
  <2> QED
    BY <2>1, <1>1, FS_Injection
<1>7. \A k \in D : \E i \in D : place[i] = k
  BY <1>6 DEF Surjection
<1> DEFINE p == [k \in D |-> CHOOSE i \in D : place[i] = k]
<1>8. \A k \in D : p[k] \in D /\ place[p[k]] = k
  BY <1>7
<1>9. p \in [D -> D]
  BY <1>7
<1> HIDE DEF p
<1>10. ASSUME NEW i \in D, NEW j \in D, i < j PROVE <<p[i], p[j]>> \in R
  <2>1. p[i] # p[j]
    BY <1>8, <1>10
  <2>2. <<p[j], p[i]>> \notin R
    BY <1>2, <1>4, <1>8, <1>10, <1>11
  <2> QED
    BY <2>1, <2>2, <1>8
<1> QED
  BY <1>9, <1>10

\* Quotients are what they should be.
LEMMA DivisionFacts ==
  ASSUME NEW a \in Int, NEW b \in Int, b > 0
  PROVE  /\ a \div b \in Int
         /\ b * (a \div b) <= a
         /\ a < b * (a \div b) + b
  OBVIOUS

\* A greater fraction is not rounded to less, and one that is greater by 1
\* is rounded to more.
LEMMA RoundedOrder ==
  ASSUME NEW n1 \in Int, NEW d1 \in Int, d1 > 0,
         NEW n2 \in Int, NEW d2 \in Int, d2 > 0,
         NEW gap \in {0, 1}, n1 * d2 >= n2 * d1 + gap * (d1 * d2)
  PROVE  (2 * n1 + d1) \div (2 * d1) >= (2 * n2 + d2) \div (2 * d2) + gap
<1> DEFINE x == (2 * n1 + d1) \div (2 * d1)
           y == (2 * n2 + d2) \div (2 * d2)
<1>1. /\ x \in Int /\ 2 * n1 + d1 < (2 * d1) * x + 2 * d1
      /\ y \in Int /\ (2 * d2) * y <= 2 * n2 + d2
  BY DivisionFacts
<1> HIDE DEF x, y
<1>2. (2 * n1 + d1) * d2 < ((2 * d1) * x + 2 * d1) * d2
  BY <1>1
<1>3. ((2 * d2) * y) * d1 <= (2 * n2 + d2) * d1
  BY <1>1
<1> DEFINE P == d1 * d2
           Q == n1 * d2
           S == n2 * d1
<1>4. /\ (2 * n1 + d1) * d2 = 2 * Q + P
      /\ ((2 * d1) * x + 2 * d1) * d2 = 2 * (P * x) + 2 * P
      /\ ((2 * d2) * y) * d1 = 2 * (P * y)
      /\ (2 * n2 + d2) * d1 = 2 * S + P
  BY <1>1
<1>5. P \in Int /\ Q \in Int /\ S \in Int /\ P > 0 /\ Q >= S + gap * P
  OBVIOUS
<1>6. P * x \in Int /\ P * y \in Int
  BY <1>1, <1>5
<1> HIDE DEF P, Q, S
<1>7. P * y + gap * P < P * x + P
  BY <1>1, <1>2, <1>3, <1>4, <1>5, <1>6
<1>8. ASSUME y + gap >= x + 1 PROVE FALSE
  <2>1. P * (y + gap) >= P * (x + 1)
    BY <1>1, <1>5, <1>8
  <2>2. P * (y + gap) = P * y + gap * P /\ P * (x + 1) = P * x + P
    BY <1>1, <1>5
  <2> QED
    BY <2>1, <2>2, <1>1, <1>5, <1>6, <1>7
<1> QED
  BY <1>1, <1>8 DEF x, y

-----------------------------------------------------------------------------
(* Scores *)

\* The weight of a list counts where the hit has a rank.
Weight(r, w) == IF r = 0 THEN 0 ELSE w

\* A rank that is as good gives no smaller share of the score.
LEMMA ShareOrder ==
  ASSUME NEW r \in Nat, NEW q \in Nat, NEW w \in Nat, AsGood(r, q)
  PROVE  Weight(r, w) * (60 + q) >= Weight(q, w) * (60 + r)
<1>1. CASE r = q
  <2>1. Weight(r, w) * (60 + q) \in Int
    BY DEF Weight
  <2> QED
    BY <1>1, <2>1
<1>2. CASE r # 0 /\ q = 0
  BY <1>2 DEF Weight
<1>3. CASE r # 0 /\ q # 0 /\ r < q
  <2>1. w * (60 + q) >= w * (60 + r)
    BY <1>3
  <2> QED
    BY <2>1, <1>3 DEF Weight
<1> QED
  BY <1>1, <1>2, <1>3 DEF AsGood, Ahead

\* Up to rank 488 a better one counts at least a millionth more, also in the
\* list with the smaller weight.
LEMMA ShareGap ==
  ASSUME NEW r \in Nat, NEW q \in Nat, NEW w \in Nat, Ahead(r, q),
         w >= 30, r <= 488, q <= 488
  PROVE  10000 * (Weight(r, w) * (60 + q) - Weight(q, w) * (60 + r)) >= (60 + r) * (60 + q)
<1>1. CASE q = 0
  <2>1. Weight(r, w) = w /\ Weight(q, w) = 0
    BY <1>1 DEF Ahead, Weight
  <2> QED
    BY <1>1, <2>1
<1>2. CASE q # 0 /\ r < q
  <2>1. Weight(r, w) = w /\ Weight(q, w) = w
    BY <1>2 DEF Ahead, Weight
  <2>2. w * (60 + q) - w * (60 + r) >= 30
    <3>1. w * (60 + q) - w * (60 + r) = w * (q - r)
      OBVIOUS
    <3>2. w * (q - r) >= w * 1
      BY <1>2
    <3> QED
      BY <3>1, <3>2
  <2>3. (60 + r) * (60 + q) <= 547 * 548
    <3>1. 60 + r <= 547 /\ 60 + q <= 548
      BY <1>2
    <3>2. (60 + r) * (60 + q) <= 547 * (60 + q)
      BY <3>1
    <3>3. 547 * (60 + q) <= 547 * 548
      BY <3>1
    <3>4. (60 + r) * (60 + q) \in Int
      OBVIOUS
    <3> QED
      BY <3>2, <3>3, <3>4
  <2> QED
    BY <2>1, <2>2, <2>3
<1> QED
  BY <1>1, <1>2 DEF Ahead

\* The fraction that Fused rounds.
Over(c) == (60 + c.vrank) * (60 + c.lrank)
Under(c, vw, lw) ==
  10000 * (Weight(c.vrank, vw) * (60 + c.lrank) + Weight(c.lrank, lw) * (60 + c.vrank))

LEMMA FusedIsRounded ==
  ASSUME NEW c \in Candidate, NEW vw \in Nat, NEW lw \in Nat
  PROVE  /\ Over(c) \in Int /\ Over(c) > 0 /\ Under(c, vw, lw) \in Int
         /\ Fused(c, vw, lw) = (2 * Under(c, vw, lw) + Over(c)) \div (2 * Over(c))
         /\ Fused(c, vw, lw) \in Int
<1>1. c.vrank \in Nat /\ c.lrank \in Nat
  BY DEF Candidate
<1>2. Weight(c.vrank, vw) \in Nat /\ Weight(c.lrank, lw) \in Nat
  BY <1>1 DEF Weight
<1>3. Over(c) \in Int /\ Over(c) > 0
  BY <1>1 DEF Over
<1>4. Under(c, vw, lw) \in Int
  BY <1>1, <1>2 DEF Under
<1>5. Fused(c, vw, lw) = (2 * Under(c, vw, lw) + Over(c)) \div (2 * Over(c))
  BY <1>1 DEF Fused, RrfConstant, Weight, Under, Over
<1>6. (2 * Under(c, vw, lw) + Over(c)) \div (2 * Over(c)) \in Int
  BY <1>3, <1>4, DivisionFacts
<1> QED
  BY <1>3, <1>4, <1>5, <1>6

\* Whoever is as good in both lists has no smaller score; up to rank 488
\* whoever is better in one of them has a greater one.
LEMMA FusedOrder ==
  ASSUME NEW c \in Candidate, NEW d \in Candidate, NEW vw \in Nat, NEW lw \in Nat,
         AsGood(c.vrank, d.vrank), AsGood(c.lrank, d.lrank)
  PROVE  /\ Fused(c, vw, lw) >= Fused(d, vw, lw)
         /\ (/\ vw >= 30 /\ lw >= 30
             /\ c.vrank # d.vrank \/ c.lrank # d.lrank
             /\ c.vrank <= 488 /\ c.lrank <= 488
             /\ d.vrank <= 488 /\ d.lrank <= 488)
            => Fused(c, vw, lw) > Fused(d, vw, lw)
<1>1. /\ c.vrank \in Nat /\ c.lrank \in Nat /\ d.vrank \in Nat /\ d.lrank \in Nat
  BY DEF Candidate
<1> DEFINE A == 60 + c.vrank
           B == 60 + c.lrank
           E == 60 + d.vrank
           F == 60 + d.lrank
           V == Weight(c.vrank, vw) * E - Weight(d.vrank, vw) * A
           L == Weight(c.lrank, lw) * F - Weight(d.lrank, lw) * B
<1>2. /\ A \in Nat /\ A > 0 /\ B \in Nat /\ B > 0 /\ E \in Nat /\ E > 0 /\ F \in Nat /\ F > 0
  BY <1>1
<1>3. /\ Weight(c.vrank, vw) \in Nat /\ Weight(d.vrank, vw) \in Nat
      /\ Weight(c.lrank, lw) \in Nat /\ Weight(d.lrank, lw) \in Nat
  BY <1>1 DEF Weight
<1>4. V \in Int /\ L \in Int /\ V >= 0 /\ L >= 0
  <2>1. V \in Int /\ L \in Int
    BY <1>2, <1>3
  <2>2. /\ Weight(c.vrank, vw) * E >= Weight(d.vrank, vw) * A
        /\ Weight(c.lrank, lw) * F >= Weight(d.lrank, lw) * B
    BY <1>1, ShareOrder
  <2> QED
    BY <2>1, <2>2, <1>2, <1>3
<1>5. Under(c, vw, lw) * Over(d) - Under(d, vw, lw) * Over(c)
        = 10000 * (V * (B * F) + L * (A * E))
  <2>1. Under(c, vw, lw) = 10000 * (Weight(c.vrank, vw) * B + Weight(c.lrank, lw) * A)
        /\ Under(d, vw, lw) = 10000 * (Weight(d.vrank, vw) * F + Weight(d.lrank, lw) * E)
        /\ Over(c) = A * B /\ Over(d) = E * F
    BY DEF Under, Over
  <2> HIDE DEF A, B, E, F
  <2> QED
    BY <2>1, <1>2, <1>3
<1>6. B * F \in Int /\ B * F > 0 /\ A * E \in Int /\ A * E > 0
  BY <1>2
<1>7. Over(c) * Over(d) = (A * E) * (B * F)
  BY <1>1, <1>2 DEF Over
<1>8. /\ Over(c) \in Int /\ Over(c) > 0 /\ Over(d) \in Int /\ Over(d) > 0
      /\ Under(c, vw, lw) \in Int /\ Under(d, vw, lw) \in Int
  BY FusedIsRounded
<1> DEFINE X == Under(c, vw, lw) * Over(d)
           Y == Under(d, vw, lw) * Over(c)
           Z == Over(c) * Over(d)
<1>9. X \in Int /\ Y \in Int /\ Z \in Int
  BY <1>8
<1>10. V * (B * F) \in Int /\ V * (B * F) >= 0 /\ L * (A * E) \in Int /\ L * (A * E) >= 0
  BY <1>4, <1>6
<1>11. X >= Y + 0 * Z
  BY <1>5, <1>9, <1>10
<1>12. Fused(c, vw, lw) >= Fused(d, vw, lw)
  <2>1. (2 * Under(c, vw, lw) + Over(c)) \div (2 * Over(c))
          >= (2 * Under(d, vw, lw) + Over(d)) \div (2 * Over(d)) + 0
    BY <1>8, <1>11, RoundedOrder
  <2> QED
    BY <2>1, FusedIsRounded
<1>13. ASSUME vw >= 30, lw >= 30, c.vrank # d.vrank \/ c.lrank # d.lrank,
              c.vrank <= 488, c.lrank <= 488, d.vrank <= 488, d.lrank <= 488
       PROVE  Fused(c, vw, lw) > Fused(d, vw, lw)
  <2>1. 10000 * V >= A * E \/ 10000 * L >= B * F
    <3>1. CASE c.vrank # d.vrank
      <4>1. Ahead(c.vrank, d.vrank)
        BY <3>1 DEF AsGood
      <4> QED
        BY <4>1, <1>1, <1>13, ShareGap
    <3>2. CASE c.lrank # d.lrank
      <4>1. Ahead(c.lrank, d.lrank)
        BY <3>2 DEF AsGood
      <4> QED
        BY <4>1, <1>1, <1>13, ShareGap
    <3> QED
      BY <3>1, <3>2, <1>13
  <2> HIDE DEF A, B, E, F, V, L
  <2>2. 10000 * (V * (B * F)) >= (A * E) * (B * F) \/ 10000 * (L * (A * E)) >= (A * E) * (B * F)
    <3> DEFINE G == A * E
               H == B * F
    <3>1. G \in Int /\ G > 0 /\ H \in Int /\ H > 0
      BY <1>6
    <3> HIDE DEF G, H
    <3>2. ASSUME 10000 * V >= G PROVE 10000 * (V * H) >= G * H
      <4>1. (10000 * V) * H >= G * H
        BY <3>1, <3>2, <1>4
      <4> QED
        BY <4>1, <3>1, <1>4
    <3>3. ASSUME 10000 * L >= H PROVE 10000 * (L * G) >= G * H
      <4>1. (10000 * L) * G >= H * G
        BY <3>1, <3>3, <1>4
      <4> QED
        BY <4>1, <3>1, <1>4
    <3> QED
      BY <3>2, <3>3, <2>1 DEF G, H
  <2>3. X >= Y + 1 * Z
    BY <2>2, <1>5, <1>7, <1>9, <1>10
  <2>4. (2 * Under(c, vw, lw) + Over(c)) \div (2 * Over(c))
          >= (2 * Under(d, vw, lw) + Over(d)) \div (2 * Over(d)) + 1
    BY <1>8, <2>3, RoundedOrder
  <2> QED
    BY <2>4, FusedIsRounded
<1> QED
  BY <1>12, <1>13

-----------------------------------------------------------------------------
(* Answers *)

LEMMA ScoreType ==
  ASSUME NEW c \in Candidate, NEW strategy
  PROVE  Score(strategy, c) \in Int /\ Bonus(c) \in Int
<1>1. Len(c.evidence) \in Nat
  BY DEF Candidate
<1>2. Bonus(c) \in Int
  BY <1>1, Constants DEF Bonus
<1>3. Fused(c, 70, 30) \in Int /\ Fused(c, 55, 45) \in Int
  BY FusedIsRounded
<1> QED
  BY <1>2, <1>3 DEF Score

\* A list in another order.
Permuted(cs, p) == [i \in DOMAIN cs |-> cs[p[i]]]

\* The hits are sorted by a permutation, stably.
LEMMA SortedFacts ==
  ASSUME NEW cs \in Seq(Candidate), NEW strategy
  PROVE  \E p \in [DOMAIN cs -> DOMAIN cs] :
           /\ IsInjective(p)
           /\ Sorted(strategy, cs) = Permuted(cs, p)
           /\ \A i, j \in DOMAIN cs : i < j => Before(strategy, cs, p[i], p[j])
<1> DEFINE n == Len(cs)
           R == {ij \in (1..n) \X (1..n) : Before(strategy, cs, ij[1], ij[2])}
<1>1. DOMAIN cs = 1..n /\ n \in Nat
  OBVIOUS
<1>2. \A i \in 1..n : Score(strategy, cs[i]) \in Int
  BY <1>1, ScoreType
<1>3. \A i, j \in 1..n : <<i, j>> \in R <=> Before(strategy, cs, i, j)
  OBVIOUS
<1>4. /\ \A i \in 1..n : ~Before(strategy, cs, i, i)
      /\ \A i, j, k \in 1..n :
           Before(strategy, cs, i, j) /\ Before(strategy, cs, j, k) => Before(strategy, cs, i, k)
      /\ \A i, j \in 1..n : i # j => Before(strategy, cs, i, j) \/ Before(strategy, cs, j, i)
  BY <1>1, <1>2 DEF Before
<1> HIDE DEF R
<1>5. \E p \in [1..n -> 1..n] : \A i, j \in 1..n : i < j => <<p[i], p[j]>> \in R
  <2>1. /\ \A i \in 1..n : <<i, i>> \notin R
        /\ \A i, j, k \in 1..n : <<i, j>> \in R /\ <<j, k>> \in R => <<i, k>> \in R
        /\ \A i, j \in 1..n : i # j => <<i, j>> \in R \/ <<j, i>> \in R
    BY <1>3, <1>4
  <2> HIDE DEF n
  <2> QED
    BY <1>1, <2>1, OrderExists
<1>6. \E p \in [DOMAIN cs -> DOMAIN cs] :
        \A i, j \in DOMAIN cs : i < j => Before(strategy, cs, p[i], p[j])
  BY <1>1, <1>3, <1>5
<1> DEFINE p == CHOOSE p \in [DOMAIN cs -> DOMAIN cs] :
                  \A i, j \in DOMAIN cs : i < j => Before(strategy, cs, p[i], p[j])
<1>7. p \in [DOMAIN cs -> DOMAIN cs]
      /\ \A i, j \in DOMAIN cs : i < j => Before(strategy, cs, p[i], p[j])
  BY <1>6
<1>8. Sorted(strategy, cs) = Permuted(cs, p)
  BY DEF Sorted, Permuted
<1> HIDE DEF p
<1>9. IsInjective(p)
  <2>1. \A i, j \in DOMAIN cs : p[i] = p[j] => i = j
    BY <1>1, <1>4, <1>7
  <2> QED
    BY <1>7, <2>1 DEF IsInjective
<1> QED
  BY <1>7, <1>8, <1>9

\* A hit as it is shown: with the first of its evidence.
ShownAs(a, c) ==
  /\ a.id = c.id /\ a.vrank = c.vrank /\ a.lrank = c.lrank
  /\ a.evidence = Atmost(c.evidence, MaxEvidence)

Strategy == {"hybrid", "parent_child", "parent_child_rerank"}

\* The answer to a search by a strategy, made of hits in a certain order.
Shows(q, strategy, cs, p) ==
  /\ q \in Search
  /\ q.pc = "answered" /\ q.strategy = strategy /\ q.next = 1
  /\ q.vector = <<>> /\ q.lexical = <<>> /\ q.chunks = {}
  /\ Len(q.candidates) <= TopK /\ DOMAIN q.candidates \subseteq DOMAIN cs
  /\ \A i \in DOMAIN q.candidates : ShownAs(q.candidates[i], cs[p[i]])

\* An answer has at most TopK of the hits, in the order they come in.
LEMMA AnswerFacts ==
  ASSUME NEW cs \in Seq(Candidate), NEW p \in [DOMAIN cs -> DOMAIN cs],
         NEW strategy \in Strategy, NEW ds, ds = Permuted(cs, p),
         NEW q, q = Answer(strategy, ds)
  PROVE  Shows(q, strategy, cs, p)
<1> DEFINE n == Len(Atmost(ds, TopK))
           shown == [i \in 1..n |-> [ds[i] EXCEPT !.evidence = Atmost(@, MaxEvidence)]]
<1>1. ds \in Seq(Candidate) /\ DOMAIN ds = DOMAIN cs
      /\ \A i \in DOMAIN cs : ds[i] = cs[p[i]] /\ cs[p[i]] \in Candidate
  BY DEF Permuted
<1>2. n \in Nat /\ n <= TopK /\ 1..n \subseteq DOMAIN cs
  <2>1. /\ n = IF Len(ds) < TopK THEN Len(ds) ELSE TopK
        /\ Len(ds) \in Nat /\ TopK \in Nat
    <3>1. ds \in Seq(Candidate) /\ TopK \in Nat
      BY <1>1, Constants
    <3> QED
      BY <3>1, AtmostFacts
  <2>2. DOMAIN ds = 1..Len(ds)
    BY <1>1
  <2> QED
    BY <1>1, <2>1, <2>2
<1>3. ASSUME NEW a \in Candidate, NEW b, b = [a EXCEPT !.evidence = Atmost(@, MaxEvidence)]
      PROVE  b \in Candidate /\ ShownAs(b, a)
  <2>1. Atmost(a.evidence, MaxEvidence) \in Seq(Chunk)
    BY AtmostFacts, Constants DEF Candidate
  <2> QED
    BY <1>3, <2>1 DEF Candidate, ShownAs
<1>4. \A i \in 1..n : shown[i] \in Candidate /\ ShownAs(shown[i], cs[p[i]])
  <2> SUFFICES ASSUME NEW i \in 1..n
               PROVE  shown[i] \in Candidate /\ ShownAs(shown[i], cs[p[i]])
    OBVIOUS
  <2>1. shown[i] = [ds[i] EXCEPT !.evidence = Atmost(@, MaxEvidence)]
    OBVIOUS
  <2>2. ds[i] = cs[p[i]] /\ ds[i] \in Candidate
    BY <1>1, <1>2
  <2> HIDE DEF shown
  <2> QED
    BY <1>3, <2>1, <2>2
<1>5. DOMAIN shown = 1..n
  OBVIOUS
<1>6. shown \in Seq(Candidate) /\ Len(shown) = n
  <2>1. shown = [i \in 1..n |-> shown[i]]
    OBVIOUS
  <2> HIDE DEF shown
  <2> QED
    BY <2>1, <1>2, <1>4
<1>7. q = [NoSearch EXCEPT !.pc = "answered", !.strategy = strategy,
                           !.followed = "yes", !.candidates = shown]
  BY DEF Answer
<1> HIDE DEF shown, n
<1>8. /\ q \in Search /\ q.pc = "answered" /\ q.strategy = strategy /\ q.next = 1
      /\ q.vector = <<>> /\ q.lexical = <<>> /\ q.chunks = {} /\ q.candidates = shown
  BY <1>6, <1>7, NoSearchType DEF Search, Strategy
<1> QED
  BY <1>2, <1>4, <1>5, <1>6, <1>8 DEF Shows

\* What Rank does: the search is over, with an answer that has the hits in
\* some order; without a reranker in that of their scores.
LEMMA RankEffect ==
  ASSUME search \in [Searches -> Search], NEW s \in Searches, Rank(s)
  PROVE  LET cs == search[s].candidates IN
         /\ search[s].pc = "rank"
         /\ \/ search' = [search EXCEPT ![s] = NoSearch]
            \/ \E p \in [DOMAIN cs -> DOMAIN cs] : \E q \in Search :
              /\ IsInjective(p) /\ search' = [search EXCEPT ![s] = q]
              /\ Shows(q, q.strategy, cs, p)
              /\ q.strategy # "parent_child_rerank" =>
                   /\ q.strategy = search[s].strategy
                   /\ \A i, j \in DOMAIN cs : i < j => Before(q.strategy, cs, p[i], p[j])
<1>0. PICK cs : cs = search[s].candidates
  OBVIOUS
<1>00. PICK strategy : strategy = search[s].strategy
  OBVIOUS
<1>1. cs \in Seq(Candidate) /\ strategy \in Strategy /\ "parent_child_rerank" \in Strategy
  BY <1>0, <1>00 DEF Search, Strategy
<1>2. PICK p \in [DOMAIN cs -> DOMAIN cs] :
           /\ IsInjective(p)
           /\ Sorted(strategy, cs) = Permuted(cs, p)
           /\ \A i, j \in DOMAIN cs : i < j => Before(strategy, cs, p[i], p[j])
  BY <1>1, SortedFacts
<1>3. PICK ds : ds = Sorted(strategy, cs)
  OBVIOUS
<1>4. ds = Permuted(cs, p) /\ DOMAIN ds = DOMAIN cs
  BY <1>2, <1>3 DEF Permuted
<1>5. \/ search' = [search EXCEPT ![s] = Answer(strategy, ds)]
      \/ \E o \in [DOMAIN ds -> DOMAIN ds] :
           /\ IsInjective(o)
           /\ search' = [search EXCEPT ![s] = Answer("parent_child_rerank", Permuted(ds, o))]
      \/ search' = [search EXCEPT ![s] = NoSearch]
  <2>1. ds = Sorted(search[s].strategy, search[s].candidates)
    BY <1>0, <1>00, <1>3
  <2>2. \/ Becomes(s, Answer(search[s].strategy, ds))
        \/ \E o \in {o \in [DOMAIN ds -> DOMAIN ds] : IsInjective(o)} :
             Becomes(s, Answer("parent_child_rerank", [i \in DOMAIN ds |-> ds[o[i]]]))
        \/ Forget(s)
    BY <2>1 DEF Rank
  <2> QED
    BY <2>2, <1>00, Zenon DEF Permuted, Becomes, Forget
<1>6. CASE search' = [search EXCEPT ![s] = Answer(strategy, ds)]
  <2>1. PICK q : q = Answer(strategy, ds)
    OBVIOUS
  <2>2. Shows(q, strategy, cs, p)
    BY <1>1, <1>4, <2>1, AnswerFacts
  <2> QED
    <3>1. q \in Search /\ q.strategy = strategy
      BY <2>2 DEF Shows
    <3> QED
      BY <1>0, <1>00, <1>2, <1>6, <2>1, <2>2, <3>1 DEF Rank
<1>7. ASSUME NEW o \in [DOMAIN ds -> DOMAIN ds], IsInjective(o),
             search' = [search EXCEPT ![s] = Answer("parent_child_rerank", Permuted(ds, o))]
      PROVE  \E r \in [DOMAIN cs -> DOMAIN cs] : \E q \in Search :
              /\ IsInjective(r) /\ search' = [search EXCEPT ![s] = q]
              /\ q.strategy = "parent_child_rerank" /\ Shows(q, q.strategy, cs, r)
  <2>1. PICK r : r = [i \in DOMAIN cs |-> p[o[i]]]
    OBVIOUS
  <2>2. r \in [DOMAIN cs -> DOMAIN cs] /\ \A i \in DOMAIN cs : r[i] = p[o[i]]
    BY <1>4, <2>1
  <2>3. PICK es : es = Permuted(ds, o)
    OBVIOUS
  <2>4. es = Permuted(cs, r)
    BY <1>2, <1>3, <1>4, <2>1, <2>2, <2>3 DEF Permuted
  <2>5. IsInjective(r)
    BY <1>2, <1>4, <1>7, <2>2 DEF IsInjective
  <2>6. PICK st, q : st = "parent_child_rerank" /\ q = Answer(st, es)
    OBVIOUS
  <2>7. Shows(q, st, cs, r)
    BY <1>1, <2>2, <2>4, <2>6, AnswerFacts
  <2>8. q \in Search /\ q.strategy = st
    BY <2>7 DEF Shows
  <2> QED
    BY <1>7, <2>2, <2>3, <2>5, <2>6, <2>7, <2>8
<1> QED
  BY <1>0, <1>00, <1>5, <1>6, <1>7 DEF Rank

-----------------------------------------------------------------------------
(* Steps of a search: its lists *)

\* The first of some chunks is one of them.
LEMMA FirstFacts ==
  ASSUME NEW S \in SUBSET Chunk, S # {}
  PROVE  First(S) \in S
<1>1. \A c \in S : c \in Chunk /\ c.build \in Nat /\ c.index \in Nat
  BY Constants, TwoBuilds
<1> DEFINE B == {c.build : c \in S}
<1>2. B \in SUBSET Nat /\ B # {}
  BY <1>1
<1>3. PICK b \in B : \A m \in B : b <= m
  <2> HIDE DEF B
  <2> QED
    BY <1>2, LeastNat
<1> DEFINE I == {c.index : c \in {d \in S : d.build = b}}
<1>4. I \in SUBSET Nat /\ I # {}
  BY <1>1, <1>3
<1>5. PICK k \in I : \A m \in I : k <= m
  <2> HIDE DEF I
  <2> QED
    BY <1>4, LeastNat
<1>6. PICK c \in S : c.build = b /\ c.index = k
  BY <1>5
<1>7. \A d \in S : c.build < d.build \/ (c.build = d.build /\ c.index <= d.index)
  BY <1>1, <1>2, <1>3, <1>5, <1>6
<1>8. \E e \in S : \A d \in S :
        e.build < d.build \/ (e.build = d.build /\ e.index <= d.index)
  BY <1>7
<1> QED
  BY <1>8, Zenon DEF First

\* The parts of a search.
LEMMA SearchFields ==
  ASSUME NEW q \in Search
  PROVE  /\ q.pc \in {"idle", "embed", "sign", "match", "filter", "list", "build",
                      "mark", "find", "gather", "parent", "rank", "answered"}
         /\ q.strategy \in Strategy
         /\ q.matches \in SUBSET Chunk /\ q.vector \in Seq(Chunk)
         /\ q.chunks \in SUBSET Chunk /\ q.lexical \in Seq(Chunk)
         /\ q.next \in Nat /\ q.candidates \in Seq(Candidate)
         /\ Len(q.vector) \in Nat /\ Len(q.lexical) \in Nat
  BY DEF Search, Strategy

\* Before the hits are gathered there are none.
LEMMA EarlyFound ==
  ASSUME NEW S, NEW q \in Search, ListsInv(q), q.pc \notin Gathering \cup {"answered"}
  PROVE  Found(q, S)
<1>1. q.candidates = <<>>
  BY DEF ListsInv
<1>2. DOMAIN q.candidates = {}
  BY <1>1
<1> QED
  BY <1>2 DEF Found, HitInv, ParentHits, ChunkHits, DiscoveryInv, Bounded, Gathering

\* The empty list has nothing twice.
LEMMA EmptyList ==
  /\ IsInjective(<<>>) /\ ToSet(<<>>) = {} /\ Len(<<>>) = 0
  /\ <<>> \in Seq(Chunk) /\ <<>> \in Seq(Candidate)
  BY DEF IsInjective, ToSet

\* A search that is over, or one that starts.
LEMMA StartFound ==
  ASSUME NEW S, NEW q \in Search, q.pc \in {"idle", "list", "embed"},
         q.vector = <<>>, q.lexical = <<>>, q.next = 1, q.candidates = <<>>
  PROVE  Found(q, S)
<1>1. /\ q.pc \notin Gathering /\ q.pc # "answered" /\ q.pc # "filter"
      /\ q.pc \notin {"parent", "build", "mark", "find"}
  BY DEF Gathering
<1>2. IsInjective(q.vector) /\ IsInjective(q.lexical)
      /\ Len(q.vector) = 0 /\ Len(q.lexical) = 0
  BY EmptyList
<1>3. ListsInv(q)
  BY <1>1, <1>2, Constants DEF ListsInv
<1> QED
  BY <1>1, <1>3, EarlyFound

\* The search that a thread does not make.
LEMMA NoSearchFound ==
  ASSUME NEW S
  PROVE  NoSearch \in Search /\ Found(NoSearch, S)
  BY NoSearchType, StartFound

\* What it does before it filters leaves its lists empty.
LEMMA EarlyStepFound ==
  ASSUME NEW S, NEW o \in Search, ListsInv(o), NEW q \in Search,
         o.pc \notin Gathering \cup {"answered"},
         q.strategy = o.strategy, q.vector = o.vector, q.lexical = o.lexical,
         q.next = o.next, q.candidates = o.candidates,
         \/ o.pc \in {"embed", "sign"} /\ q.pc \in {"sign", "match"}
         \/ o.strategy # "hybrid" /\ q.pc \in {"list", "build", "mark", "find"}
         \/ o.strategy = "hybrid" /\ o.pc = "list" /\ q.pc = "embed"
  PROVE  Found(q, S)
<1>1. q.pc \in {"sign", "match", "list", "build", "mark", "find", "embed"}
  OBVIOUS
<1>2. ListsInv(q)
  BY <1>1 DEF ListsInv, Gathering
<1> QED
  BY <1>1, <1>2, EarlyFound DEF Gathering

\* No more matches than asked for.
LEMMA MatchFound ==
  ASSUME NEW S, NEW o \in Search, ListsInv(o), o.pc = "match",
         NEW M \in SUBSET Chunk, Cardinality(M) <= Candidates,
         NEW q, q = [o EXCEPT !.pc = "filter", !.matches = M]
  PROVE  q \in Search /\ Found(q, S)
<1>1. /\ q \in Search /\ q.pc = "filter" /\ q.matches = M
      /\ q.strategy = o.strategy /\ q.vector = o.vector /\ q.lexical = o.lexical
      /\ q.next = o.next /\ q.candidates = o.candidates
  BY DEF Search
<1>2. Cardinality(M) \in Nat
  BY ChunksFinite, FS_Subset, FS_CardinalityType
<1>3. q.vector = <<>>
  BY <1>1 DEF ListsInv
<1>4. ListsInv(q)
  BY <1>1, <1>2, <1>3, EmptyList, Constants DEF ListsInv, Gathering
<1> QED
  BY <1>1, <1>4, EarlyFound DEF Gathering

\* A match goes to the list or not; there is room for it, and it is new.
LEMMA FilterFound ==
  ASSUME NEW S, NEW o \in Search, ListsInv(o), o.pc = "filter",
         NEW c \in o.matches, NEW v \in {o.vector, Append(o.vector, c)},
         NEW q, q = [o EXCEPT !.matches = @ \ {c}, !.vector = v]
  PROVE  q \in Search /\ Found(q, S)
<1>1. o.vector \in Seq(Chunk) /\ o.matches \in SUBSET Chunk /\ c \in Chunk
      /\ c \notin ToSet(o.vector)
  BY SearchFields DEF ListsInv
<1>2. /\ v \in Seq(Chunk) /\ IsInjective(v)
      /\ Len(v) <= Len(o.vector) + 1 /\ ToSet(v) \subseteq ToSet(o.vector) \cup {c}
  <2>1. IsInjective(o.vector)
    BY DEF ListsInv
  <2>2. CASE v = o.vector
    BY <1>1, <2>1, <2>2
  <2>3. CASE v = Append(o.vector, c)
    BY <1>1, <2>1, <2>3, AppendSet
  <2> QED
    BY <2>2, <2>3
<1>3. /\ q \in Search /\ q.pc = "filter" /\ q.matches = o.matches \ {c} /\ q.vector = v
      /\ q.strategy = o.strategy /\ q.lexical = o.lexical
      /\ q.next = o.next /\ q.candidates = o.candidates
  BY <1>2 DEF Search
<1>4. /\ Cardinality(o.matches \ {c}) = Cardinality(o.matches) - 1
      /\ Cardinality(o.matches) \in Nat
  <2>1. IsFiniteSet(o.matches)
    BY <1>1, ChunksFinite, FS_Subset
  <2> QED
    BY <2>1, FS_RemoveElement, FS_CardinalityType
<1>5. Len(v) \in Nat /\ Len(o.vector) \in Nat
  BY <1>1, <1>2
<1>6. Len(v) + Cardinality(q.matches) <= Candidates /\ Len(v) <= Candidates
  <2>1. Len(o.vector) + Cardinality(o.matches) <= Candidates
    BY DEF ListsInv
  <2>2. Cardinality(o.matches \ {c}) \in Nat
    BY <1>1, ChunksFinite, FS_Subset, FS_CardinalityType
  <2> QED
    BY <1>2, <1>3, <1>4, <1>5, <2>1, <2>2, Constants
<1>7. q.matches \cap ToSet(v) = {}
  BY <1>1, <1>2, <1>3 DEF ListsInv
<1>8. ListsInv(q)
  BY <1>2, <1>3, <1>6, <1>7 DEF ListsInv, Gathering
<1> QED
  BY <1>3, <1>8, EarlyFound DEF Gathering

\* The gathering begins: no hit yet.
LEMMA GatheringBegins ==
  ASSUME NEW S, NEW o \in Search, ListsInv(o), o.pc \in {"filter", "find"},
         NEW M \in SUBSET Chunk,
         NEW w \in Seq(Chunk), IsInjective(w),
         Len(w) <= IF o.strategy = "hybrid" THEN WordHits ELSE Candidates,
         NEW q, q = [o EXCEPT !.pc = "gather", !.lexical = w, !.chunks = {}, !.matches = M]
  PROVE  q \in Search /\ Found(q, S)
<1>1. /\ q \in Search /\ q.pc = "gather" /\ q.lexical = w
      /\ q.strategy = o.strategy /\ q.vector = o.vector
      /\ q.next = o.next /\ q.candidates = o.candidates
  BY DEF Search
<1>2. o.next = 1 /\ o.candidates = <<>>
  BY DEF ListsInv, Gathering
<1>3. DOMAIN q.candidates = {}
  BY <1>1, <1>2
<1>4. Len(q.vector) \in Nat /\ Len(q.lexical) \in Nat
  BY <1>1, SearchFields
<1>5. ListsInv(q)
  BY <1>1, <1>2, <1>4 DEF ListsInv, Gathering
<1> QED
  BY <1>1, <1>3, <1>5 DEF Found, HitInv, ParentHits, ChunkHits, DiscoveryInv, Bounded

-----------------------------------------------------------------------------
(* Steps of a search: its hits *)

\* Sums of places.
LEMMA Places ==
  ASSUME NEW n \in Nat, NEW a \in Nat, NEW b \in Nat, n >= 1, n <= a + b
  PROVE  /\ n + 1 >= 1 /\ n + 1 <= a + b + 1 /\ n + 1 \in Nat
         /\ n > a => n - a \in 1..b /\ n - a \in Nat
  OBVIOUS

\* The parts of a hit.
LEMMA HitFields ==
  ASSUME NEW q \in Search, NEW i \in DOMAIN q.candidates
  PROVE  LET a == q.candidates[i] IN
         /\ a \in Candidate /\ a.id \in Chunk \cup Parent /\ a.evidence \in Seq(Chunk)
         /\ a.vrank \in Nat /\ a.lrank \in Nat
         /\ ToSet(a.evidence) \in SUBSET Chunk /\ Len(a.evidence) \in Nat
<1>1. q.candidates \in Seq(Candidate)
  BY SearchFields
<1>2. PICK a : a = q.candidates[i]
  OBVIOUS
<1>3. a \in Candidate
  BY <1>1, <1>2
<1>4. a.id \in Chunk \cup Parent /\ a.evidence \in Seq(Chunk) /\ a.vrank \in Nat /\ a.lrank \in Nat
  BY <1>3 DEF Candidate
<1>5. ToSet(a.evidence) \in SUBSET Chunk /\ Len(a.evidence) \in Nat
  BY <1>4, ToSetType
<1> QED
  BY <1>2, <1>3, <1>4, <1>5

\* The walk along the signals goes on; the hits stay.
LEMMA SignalFound ==
  ASSUME NEW S, NEW o \in Search, Found(o, S), o.pc = "gather", o.strategy # "hybrid",
         NEW q \in Search, q.strategy = o.strategy, q.vector = o.vector,
         q.lexical = o.lexical, q.candidates = o.candidates,
         \/ q.pc = "rank" /\ q.next = o.next
         \/ /\ o.next <= Len(o.vector) + Len(o.lexical)
            /\ \/ q.pc = "parent" /\ q.next = o.next
               \/ q.pc = "gather" /\ q.next = o.next + 1
  PROVE  Found(q, S)
<1>1. q.pc \in Gathering /\ o.pc \in Gathering /\ o.next \in Nat /\ q.next \in Nat
      /\ Len(o.vector) \in Nat /\ Len(o.lexical) \in Nat
  BY SearchFields DEF Gathering
<1>0. o.next <= q.next
  <2>1. CASE q.next = o.next
    BY <1>1, <2>1
  <2>2. CASE q.next = o.next + 1
    BY <1>1, <2>2
  <2> QED
    BY <2>1, <2>2
<1>2. ListsInv(q)
  <2>1. ListsInv(o)
    BY DEF Found
  <2>2. /\ q.pc \in {"gather", "parent", "rank"} /\ q.next \in Nat /\ q.next >= 1
        /\ q.next <= Len(o.vector) + Len(o.lexical) + 1
        /\ q.pc = "parent" => q.next <= Len(o.vector) + Len(o.lexical)
    <3>1. o.next >= 1 /\ o.next <= Len(o.vector) + Len(o.lexical) + 1
      BY <1>1, <2>1 DEF ListsInv
    <3>2. CASE q.pc = "rank" /\ q.next = o.next
      BY <3>1, <3>2, <1>1
    <3>3. CASE q.pc = "parent" /\ q.next = o.next /\ o.next <= Len(o.vector) + Len(o.lexical)
      BY <3>1, <3>3, <1>1
    <3>4. CASE q.pc = "gather" /\ q.next = o.next + 1 /\ o.next <= Len(o.vector) + Len(o.lexical)
      <4>1. PICK n, a, b : n = o.next /\ a = Len(o.vector) /\ b = Len(o.lexical)
        OBVIOUS
      <4>2. n \in Nat /\ a \in Nat /\ b \in Nat /\ n >= 1 /\ n <= a + b
        BY <1>1, <3>1, <3>4, <4>1
      <4>3. n + 1 >= 1 /\ n + 1 <= a + b + 1
        BY <4>2
      <4> QED
        BY <1>1, <3>4, <4>1, <4>3
    <3> QED
      BY <3>2, <3>3, <3>4
  <2>3. q.pc \notin {"idle", "embed", "sign", "match", "list", "filter"}
    BY <2>2
  <2> QED
    BY <1>1, <2>1, <2>2, <2>3 DEF ListsInv
<1>3. HitInv(q, S) /\ ParentHits(q, S)
  BY <1>1 DEF Found, HitInv, ParentHits
<1>4. DiscoveryInv(q)
  <2>1. \A i \in DOMAIN o.candidates : o.candidates[i].vrank \in Nat /\ o.candidates[i].lrank \in Nat
    BY HitFields
  <2>2. o.next <= q.next /\ q.next \in Nat
    BY <1>0, <1>1
  <2>3. DiscoveryInv(o)
    BY DEF Found
  <2>4. \A i, j \in DOMAIN o.candidates :
          /\ i < j => Earlier(o.candidates[i], o.candidates[j])
          /\ o.candidates[i].vrank # 0 \/ o.candidates[i].lrank # 0
          /\ o.candidates[i].vrank < o.next
          /\ o.candidates[i].lrank # 0 => o.candidates[i].lrank + Len(o.vector) < o.next
    BY <1>1, <2>3 DEF DiscoveryInv
  <2>5. \A i \in DOMAIN o.candidates :
          /\ o.candidates[i].vrank < q.next
          /\ o.candidates[i].lrank # 0 => o.candidates[i].lrank + Len(o.vector) < q.next
    BY <1>1, <2>1, <2>2, <2>4
  <2> QED
    BY <2>4, <2>5 DEF DiscoveryInv
<1> QED
  BY <1>2, <1>3, <1>4 DEF Found, ChunkHits, Bounded

\* The next signal: its chunk, its ranks, and the hit it goes to while the
\* store has the chunks S.
SignalAt(o) == (o.vector \o o.lexical)[o.next]
VectorRank(o) == IF o.next <= Len(o.vector) THEN o.next ELSE 0
WordRank(o) == IF o.next <= Len(o.vector) THEN 0 ELSE o.next - Len(o.vector)
HitOf(c, S) ==
  IF c.build \in Nested /\ ChunksOf(c.build) \cap S # {} THEN ParentOf(c) ELSE c

\* Where a list has found a chunk, it is one.
LEMMA SignalFacts ==
  ASSUME NEW o \in Search, o.next >= 1, o.next <= Len(o.vector) + Len(o.lexical)
  PROVE  LET c == SignalAt(o) IN
         c \in ToSet(o.vector) \cup ToSet(o.lexical) /\ c \in Chunk
<1>1. o.vector \in Seq(Chunk) /\ o.lexical \in Seq(Chunk) /\ o.next \in Nat
  BY SearchFields
<1> DEFINE c == (o.vector \o o.lexical)[o.next]
<1>4. SignalAt(o) = c
  BY DEF SignalAt
<1>2. CASE o.next <= Len(o.vector)
  <2>1. c = o.vector[o.next] /\ o.next \in DOMAIN o.vector
    BY <1>1, <1>2
  <2> QED
    BY <1>1, <1>4, <2>1 DEF ToSet
<1>3. CASE o.next > Len(o.vector)
  <2>1. PICK k : k = o.next - Len(o.vector)
    OBVIOUS
  <2>2. k \in 1..Len(o.lexical)
    <3>1. Len(o.lexical) \in Nat /\ Len(o.vector) \in Nat
      BY SearchFields
    <3> QED
      BY <1>1, <1>3, <2>1, <3>1, Places
  <2>3. c = o.lexical[k] /\ k \in DOMAIN o.lexical
    BY <1>1, <1>3, <2>1, <2>2
  <2> QED
    BY <1>1, <1>4, <2>3 DEF ToSet
<1> QED
  BY <1>1, <1>2, <1>3, <1>4

\* What the next signal does to a hit: more evidence, a rank where it had
\* none.
LEMMA SignalRanks ==
  ASSUME NEW o \in Search, DiscoveryInv(o), o.strategy # "hybrid", o.pc \in Gathering,
         NEW i \in DOMAIN o.candidates, o.next >= 1,
         NEW v, v = VectorRank(o),
         NEW l, l = WordRank(o)
  PROVE  LET a == o.candidates[i] IN
         /\ BestRank(a.vrank, v) = a.vrank
         /\ BestRank(a.lrank, l) = a.lrank \/ (a.vrank # 0 /\ a.lrank = 0 /\ BestRank(a.lrank, l) = l)
         /\ v # 0 => a.vrank # 0 /\ a.vrank < v
         /\ l # 0 /\ a.vrank = 0 => a.lrank # 0 /\ a.lrank < l
<1>1. o.candidates[i].vrank \in Nat /\ o.candidates[i].lrank \in Nat
      /\ o.next \in Nat /\ Len(o.vector) \in Nat
  BY SearchFields, HitFields
<1>2. /\ o.candidates[i].vrank # 0 \/ o.candidates[i].lrank # 0
      /\ o.candidates[i].vrank < o.next
      /\ o.candidates[i].lrank # 0 => o.candidates[i].lrank + Len(o.vector) < o.next
  BY DEF DiscoveryInv
<1> QED
  BY <1>1, <1>2 DEF BestRank, VectorRank, WordRank

\* The hit at place i after a signal: kept, supported once more, or new.
IsKept(cs, r, id, i) == i \in DOMAIN cs /\ cs[i].id # id /\ r[i] = cs[i]
IsSupported(cs, r, id, c, v, l, i) ==
  /\ i \in DOMAIN cs /\ cs[i].id = id /\ r[i].id = id
  /\ r[i].evidence = AddEvidence(cs[i].evidence, c)
  /\ r[i].vrank = BestRank(cs[i].vrank, v) /\ r[i].lrank = BestRank(cs[i].lrank, l)
IsNew(cs, r, id, c, v, l, i) ==
  /\ i = Len(cs) + 1 /\ \A j \in DOMAIN cs : cs[j].id # id
  /\ r[i] = [id |-> id, evidence |-> <<c>>, vrank |-> v, lrank |-> l]

LEMMA SupportedCases ==
  ASSUME NEW cs \in Seq(Candidate), NEW id \in Chunk \cup Parent, NEW c \in Chunk,
         NEW v \in Nat, NEW l \in Nat,
         \A i, j \in DOMAIN cs : i # j => cs[i].id # cs[j].id,
         NEW r, r = Supported(cs, id, c, v, l)
  PROVE  /\ r \in Seq(Candidate)
         /\ \A i \in DOMAIN r : \/ IsKept(cs, r, id, i)
                                \/ IsSupported(cs, r, id, c, v, l, i)
                                \/ IsNew(cs, r, id, c, v, l, i)
<1>1. /\ r \in Seq(Candidate)
      /\ Len(r) >= Len(cs)
      /\ \A i \in DOMAIN cs :
           /\ r[i].id = cs[i].id
           /\ cs[i].id # id => r[i] = cs[i]
           /\ cs[i].id = id =>
                /\ r[i].evidence = AddEvidence(cs[i].evidence, c)
                /\ r[i].vrank = BestRank(cs[i].vrank, v)
                /\ r[i].lrank = BestRank(cs[i].lrank, l)
      /\ (\E i \in DOMAIN cs : cs[i].id = id) => Len(r) = Len(cs)
      /\ (\A i \in DOMAIN cs : cs[i].id # id) =>
           /\ Len(r) = Len(cs) + 1
           /\ r[Len(r)] = [id |-> id, evidence |-> <<c>>, vrank |-> v, lrank |-> l]
  BY SupportedFacts
<1>2. /\ DOMAIN r = 1..Len(r) /\ DOMAIN cs = 1..Len(cs)
      /\ Len(r) \in Nat /\ Len(cs) \in Nat
  BY <1>1
<1>3. ASSUME NEW i \in DOMAIN cs
      PROVE  IsKept(cs, r, id, i) \/ IsSupported(cs, r, id, c, v, l, i)
  BY <1>1 DEF IsKept, IsSupported
<1>4. ASSUME NEW i \in DOMAIN r, i \notin DOMAIN cs
      PROVE  IsNew(cs, r, id, c, v, l, i)
  <2>1. Len(r) # Len(cs)
    BY <1>2, <1>4
  <2>2. Len(r) = Len(cs) + 1 /\ \A j \in DOMAIN cs : cs[j].id # id
    BY <1>1, <2>1
  <2>3. i = Len(cs) + 1
    BY <1>2, <1>4, <2>2
  <2> QED
    BY <1>1, <2>2, <2>3 DEF IsNew
<1> QED
  BY <1>1, <1>3, <1>4

\* A signal goes to one hit, and the hits are still apart: a chunk of the
\* store that stood under another hit would have the id of its own.
LEMMA SupportedHits ==
  ASSUME NEW S \in SUBSET Chunk, NEW o \in Search, HitInv(o, S), ParentHits(o, S),
         o.strategy # "hybrid", o.pc \in Gathering,
         NEW c \in Chunk, NEW v \in Nat, NEW l \in Nat,
         NEW id, id = HitOf(c, S),
         NEW r, r = Supported(o.candidates, id, c, v, l),
         NEW q \in Search, q.candidates = r
  PROVE  HitInv(q, S) /\ ParentHits(q, S)
<1> DEFINE cs == o.candidates
<1>1. cs \in Seq(Candidate)
  BY SearchFields
<1>2. /\ id \in Chunk \cup Parent /\ id \in {c, ParentOf(c)} /\ id.build = c.build
      /\ id \in Parent => c.build \in Nested /\ id = ParentOf(c)
      /\ id \in Chunk /\ c.build \in Nested => ChunksOf(c.build) \cap S = {}
  BY ParentFacts DEF HitOf
<1>3. \A i, j \in DOMAIN cs :
        /\ i # j => cs[i].id # cs[j].id
        /\ cs[i].id \in Parent => cs[i].id.build \in Nested
        /\ cs[i].id \in Chunk /\ cs[i].id.build \in Nested => ChunksOf(cs[i].id.build) \cap S = {}
  BY DEF ParentHits
<1>4. \A i, j \in DOMAIN cs :
        /\ Len(cs[i].evidence) >= 1 /\ IsInjective(cs[i].evidence)
        /\ i # j => ToSet(cs[i].evidence) \cap ToSet(cs[j].evidence) \cap S = {}
        /\ \A d \in ToSet(cs[i].evidence) : cs[i].id \in {d, ParentOf(d)}
  BY DEF HitInv
<1>5. \A i \in DOMAIN cs : /\ cs[i].evidence \in Seq(Chunk) /\ Len(cs[i].evidence) \in Nat
                           /\ ToSet(cs[i].evidence) \in SUBSET Chunk
  BY HitFields
<1>6. /\ r \in Seq(Candidate)
      /\ \A i \in DOMAIN r : \/ IsKept(cs, r, id, i)
                             \/ IsSupported(cs, r, id, c, v, l, i)
                             \/ IsNew(cs, r, id, c, v, l, i)
  <2> HIDE DEF cs
  <2> QED
    BY <1>1, <1>2, <1>3, SupportedCases DEF cs
<1> HIDE DEF cs
<1>7. ASSUME NEW i \in DOMAIN cs, cs[i].id # id PROVE ToSet(cs[i].evidence) \cap {c} \cap S = {}
  <2> SUFFICES ASSUME c \in ToSet(cs[i].evidence), c \in S PROVE FALSE
    OBVIOUS
  <2>1. cs[i].id \in {c, ParentOf(c)}
    BY <1>4
  <2>2. c \in ChunksOf(c.build)
    BY DEF ChunksOf
  <2>3. CASE id = c
    <3>1. cs[i].id = ParentOf(c) /\ c.build \in Nested
      BY <1>3, <1>7, <2>1, <2>3, ParentFacts
    <3> QED
      BY <1>2, <2>2, <2>3, <3>1
  <2>4. CASE id = ParentOf(c)
    <3>1. cs[i].id = c /\ c.build \in Nested
      BY <1>2, <1>7, <2>1, <2>4, ParentFacts
    <3> QED
      BY <1>3, <2>2, <3>1
  <2> QED
    BY <1>2, <2>3, <2>4
<1>14. ASSUME NEW i \in DOMAIN r, IsNew(cs, r, id, c, v, l, i)
       PROVE  r[i].id = id /\ r[i].evidence = <<c>> /\ \A j \in DOMAIN cs : cs[j].id # id
  BY <1>14 DEF IsNew
\* What each place has now.
<1>8. ASSUME NEW i \in DOMAIN r
      PROVE  /\ Len(r[i].evidence) >= 1 /\ IsInjective(r[i].evidence)
             /\ \A d \in ToSet(r[i].evidence) : r[i].id \in {d, ParentOf(d)}
  <2>1. CASE IsKept(cs, r, id, i)
    BY <1>4, <2>1 DEF IsKept
  <2>2. CASE IsSupported(cs, r, id, c, v, l, i)
    <3>1. PICK e \in Seq(Chunk) : e = cs[i].evidence
      BY <1>5, <2>2 DEF IsSupported
    <3>2. /\ Len(e) >= 1 /\ IsInjective(e) /\ Len(e) \in Nat
          /\ \A d \in ToSet(e) : id \in {d, ParentOf(d)}
      BY <1>4, <1>5, <2>2, <3>1 DEF IsSupported
    <3>3. /\ AddEvidence(e, c) \in Seq(Chunk)
          /\ ToSet(AddEvidence(e, c)) = ToSet(e) \cup {c}
          /\ IsInjective(AddEvidence(e, c))
          /\ Len(AddEvidence(e, c)) >= Len(e)
      BY <3>2, AddEvidenceType
    <3>4. r[i].evidence = AddEvidence(e, c) /\ r[i].id = id
      BY <2>2, <3>1 DEF IsSupported
    <3> HIDE DEF AddEvidence
    <3>5. PICK f \in Seq(Chunk) : f = AddEvidence(e, c)
      BY <3>3
    <3>6. Len(f) >= 1
      BY <3>2, <3>3, <3>5
    <3> QED
      BY <1>2, <3>2, <3>3, <3>4, <3>5, <3>6
  <2>3. CASE IsNew(cs, r, id, c, v, l, i)
    <3>1. PICK e : e = <<c>>
      OBVIOUS
    <3>2. Len(e) = 1 /\ IsInjective(e) /\ ToSet(e) = {c}
      BY <3>1 DEF IsInjective, ToSet
    <3>3. r[i].evidence = e /\ r[i].id = id
      BY <1>14, <2>3, <3>1
    <3>4. \A d \in ToSet(e) : id \in {d, ParentOf(d)}
      BY <1>2, <3>2, Zenon
    <3>5. Len(e) >= 1
      BY <3>2
    <3> QED
      BY <3>2, <3>3, <3>4, <3>5, Zenon
  <2> QED
    BY <1>6, <2>1, <2>2, <2>3
\* Two of them.
<1>9. ASSUME NEW i \in DOMAIN r, NEW j \in DOMAIN r, i # j, r[j].id # id \/ r[i].id = id
      PROVE  /\ IsKept(cs, r, id, j)
             /\ r[i].id # r[j].id
             /\ ToSet(r[i].evidence) \cap ToSet(r[j].evidence) \cap S = {}
  <2>1. IsKept(cs, r, id, j)
    <3>1. CASE IsSupported(cs, r, id, c, v, l, j)
      <4>1. r[i].id = id /\ j \in DOMAIN cs /\ cs[j].id = id
        BY <1>9, <3>1 DEF IsSupported
      <4>2. ~IsKept(cs, r, id, i) /\ ~IsNew(cs, r, id, c, v, l, i)
        BY <1>14, <4>1 DEF IsKept
      <4>3. i \in DOMAIN cs /\ cs[i].id = id
        BY <1>6, <4>2 DEF IsSupported
      <4> QED
        BY <1>3, <1>9, <4>1, <4>3
    <3>2. CASE IsNew(cs, r, id, c, v, l, j)
      <4>1. r[i].id = id /\ \A k \in DOMAIN cs : cs[k].id # id
        BY <1>9, <1>14, <3>2
      <4>2. ~IsKept(cs, r, id, i) /\ ~IsSupported(cs, r, id, c, v, l, i)
        BY <4>1 DEF IsKept, IsSupported
      <4>3. IsNew(cs, r, id, c, v, l, i)
        BY <1>6, <4>2
      <4> QED
        BY <1>9, <3>2, <4>3 DEF IsNew
    <3> QED
      BY <1>6, <3>1, <3>2
  <2>2. CASE IsKept(cs, r, id, i)
    BY <1>3, <1>4, <1>9, <2>1, <2>2 DEF IsKept
  <2>3. CASE IsSupported(cs, r, id, c, v, l, i)
    <3>1. ToSet(r[i].evidence) = ToSet(cs[i].evidence) \cup {c}
      BY <1>5, <2>3, AddEvidenceType DEF IsSupported
    <3>2. ToSet(cs[i].evidence) \cap ToSet(cs[j].evidence) \cap S = {}
      BY <1>4, <1>9, <2>1, <2>3 DEF IsKept, IsSupported
    <3>3. ToSet(cs[j].evidence) \cap {c} \cap S = {}
      BY <1>7, <2>1 DEF IsKept
    <3> QED
      BY <2>1, <2>3, <3>1, <3>2, <3>3 DEF IsKept, IsSupported
  <2>4. CASE IsNew(cs, r, id, c, v, l, i)
    <3>1. r[i].evidence = <<c>> /\ r[i].id = id /\ ToSet(<<c>>) = {c}
      BY <2>4 DEF IsNew, ToSet
    <3>2. ToSet(cs[j].evidence) \cap {c} \cap S = {}
      BY <1>7, <2>1 DEF IsKept
    <3> QED
      BY <2>1, <3>1, <3>2 DEF IsKept
  <2> QED
    BY <1>6, <2>1, <2>2, <2>3, <2>4
<1>10. ASSUME NEW i \in DOMAIN r, NEW j \in DOMAIN r, i # j
       PROVE  /\ r[i].id # r[j].id
              /\ ToSet(r[i].evidence) \cap ToSet(r[j].evidence) \cap S = {}
  <2>1. CASE r[j].id # id \/ r[i].id = id
    BY <1>9, <1>10, <2>1
  <2>2. CASE r[i].id # id
    BY <1>9, <1>10, <2>2
  <2> QED
    BY <2>1, <2>2
<1>11. ASSUME NEW i \in DOMAIN r
       PROVE  /\ r[i].id \in Parent => r[i].id.build \in Nested
              /\ r[i].id \in Chunk /\ r[i].id.build \in Nested =>
                   ChunksOf(r[i].id.build) \cap S = {}
  <2>1. CASE IsKept(cs, r, id, i)
    BY <1>3, <2>1 DEF IsKept
  <2>2. CASE r[i].id = id
    BY <1>2, <2>2
  <2> QED
    BY <1>6, <1>14, <2>1, <2>2 DEF IsSupported
<1>12. HitInv(q, S)
  BY <1>8, <1>10 DEF HitInv
<1>13. ParentHits(q, S)
  BY <1>10, <1>11 DEF ParentHits
<1> QED
  BY <1>12, <1>13

\* One step along the signals, and one hit for an id.
SignalTaken(o, q, id, c) ==
  /\ q.vector = o.vector /\ q.next = o.next + 1
  /\ q.candidates = Supported(o.candidates, id, c, VectorRank(o), WordRank(o))

\* The order of discovery stays: a rank by vectors comes only to a new hit,
\* behind all others, and one by words changes no order.
LEMMA SupportedOrder ==
  ASSUME NEW o \in Search, DiscoveryInv(o), o.strategy # "hybrid", o.pc \in Gathering,
         o.next >= 1,
         OneForId(o.candidates),
         NEW c \in Chunk, NEW id \in Chunk \cup Parent,
         NEW q \in Search, SignalTaken(o, q, id, c)
  PROVE  DiscoveryInv(q)
<1> DEFINE cs == o.candidates
<1>0. PICK v, l, r : v = VectorRank(o) /\ l = WordRank(o) /\ r = Supported(cs, id, c, v, l)
  OBVIOUS
<1>12. q.candidates = r /\ q.vector = o.vector /\ q.next = o.next + 1
  BY <1>0 DEF SignalTaken
<1>13. v \in Nat /\ l \in Nat
  BY <1>0, SearchFields DEF VectorRank, WordRank
<1>1. cs \in Seq(Candidate) /\ o.next \in Nat /\ Len(o.vector) \in Nat
  BY SearchFields
<1>2. \A i \in DOMAIN cs : cs[i].vrank \in Nat /\ cs[i].lrank \in Nat
  BY HitFields
<1>3. \A i, j \in DOMAIN cs :
        /\ i < j => Earlier(cs[i], cs[j])
        /\ cs[i].vrank # 0 \/ cs[i].lrank # 0
        /\ cs[i].vrank < o.next
        /\ cs[i].lrank # 0 => cs[i].lrank + Len(o.vector) < o.next
  BY DEF DiscoveryInv
<1>4. \A i \in DOMAIN cs :
         /\ BestRank(cs[i].vrank, v) = cs[i].vrank
         /\ \/ BestRank(cs[i].lrank, l) = cs[i].lrank
            \/ cs[i].vrank # 0 /\ cs[i].lrank = 0 /\ BestRank(cs[i].lrank, l) = l
         /\ v # 0 => cs[i].vrank # 0 /\ cs[i].vrank < v
         /\ l # 0 /\ cs[i].vrank = 0 => cs[i].lrank # 0 /\ cs[i].lrank < l
  BY <1>0, SignalRanks
<1>5. \A i \in DOMAIN r : \/ IsKept(cs, r, id, i)
                          \/ IsSupported(cs, r, id, c, v, l, i)
                          \/ IsNew(cs, r, id, c, v, l, i)
  <2> HIDE DEF cs
  <2> QED
    BY <1>0, <1>1, <1>13, SupportedCases DEF cs, OneForId
<1>6. /\ v # 0 \/ l # 0
      /\ v < o.next + 1
      /\ l # 0 => l + Len(o.vector) < o.next + 1
      /\ v = 0 \/ l = 0
  BY <1>0, <1>1 DEF VectorRank, WordRank
<1>7. DOMAIN cs = 1..Len(cs) /\ Len(cs) \in Nat
  BY <1>1
<1> HIDE DEF cs
\* A hit that was there: its rank by vectors is what it was.
<1>8. ASSUME NEW i \in DOMAIN r, ~IsNew(cs, r, id, c, v, l, i)
      PROVE  /\ i \in DOMAIN cs /\ r[i].vrank = cs[i].vrank
             /\ \/ r[i].lrank = cs[i].lrank
                \/ cs[i].vrank # 0 /\ cs[i].lrank = 0 /\ r[i].lrank = l
  BY <1>4, <1>5, <1>8 DEF IsKept, IsSupported
<1>9. ASSUME NEW i \in DOMAIN r, IsNew(cs, r, id, c, v, l, i)
      PROVE  i = Len(cs) + 1 /\ r[i].vrank = v /\ r[i].lrank = l
  BY <1>9 DEF IsNew
<1>10. ASSUME NEW i \in DOMAIN r, NEW j \in DOMAIN r, i < j PROVE Earlier(r[i], r[j])
  <2>1. CASE ~IsNew(cs, r, id, c, v, l, j)
    <3>1. j \in DOMAIN cs
      BY <1>8, <2>1
    <3>2. ~IsNew(cs, r, id, c, v, l, i)
      BY <1>7, <1>9, <1>10, <3>1
    <3>3. i \in DOMAIN cs /\ Earlier(cs[i], cs[j])
      BY <1>3, <1>8, <1>10, <3>1, <3>2
    <3>4. /\ r[i].vrank = cs[i].vrank /\ r[j].vrank = cs[j].vrank
          /\ cs[i].vrank = 0 => r[i].lrank = cs[i].lrank
          /\ cs[j].vrank = 0 => r[j].lrank = cs[j].lrank
      BY <1>8, <2>1, <3>2
    <3> QED
      BY <3>3, <3>4 DEF Earlier
  <2>2. CASE IsNew(cs, r, id, c, v, l, j)
    <3>1. j = Len(cs) + 1 /\ r[j].vrank = v /\ r[j].lrank = l
      BY <1>9, <2>2
    <3>2. ~IsNew(cs, r, id, c, v, l, i)
      BY <1>7, <1>9, <1>10, <3>1
    <3>3. /\ i \in DOMAIN cs /\ r[i].vrank = cs[i].vrank
          /\ cs[i].vrank = 0 => r[i].lrank = cs[i].lrank
      BY <1>8, <3>2
    <3> QED
      BY <1>2, <1>4, <1>6, <3>1, <3>3 DEF Earlier
  <2> QED
    BY <2>1, <2>2
<1>11. ASSUME NEW i \in DOMAIN r
       PROVE  /\ r[i].vrank # 0 \/ r[i].lrank # 0
              /\ r[i].vrank < o.next + 1
              /\ r[i].lrank # 0 => r[i].lrank + Len(o.vector) < o.next + 1
  <2>1. CASE IsNew(cs, r, id, c, v, l, i)
    BY <1>6, <1>9, <2>1
  <2>2. CASE ~IsNew(cs, r, id, c, v, l, i)
    <3>1. /\ i \in DOMAIN cs /\ r[i].vrank = cs[i].vrank
          /\ \/ r[i].lrank = cs[i].lrank
             \/ cs[i].vrank # 0 /\ cs[i].lrank = 0 /\ r[i].lrank = l
      BY <1>8, <2>2
    <3> QED
      BY <1>1, <1>2, <1>3, <1>6, <3>1
  <2> QED
    BY <2>1, <2>2
<1> QED
  BY <1>10, <1>11, <1>12 DEF DiscoveryInv

\* FindParent: all that a search has found stays in order.
TakesSignal(o, q, S) ==
  q = [o EXCEPT !.pc = "gather", !.next = o.next + 1,
                !.candidates = Supported(o.candidates, HitOf(SignalAt(o), S), SignalAt(o),
                                         VectorRank(o), WordRank(o))]

LEMMA ParentFound ==
  ASSUME NEW S \in SUBSET Chunk, NEW o \in Search, Found(o, S), o.pc = "parent",
         NEW q, TakesSignal(o, q, S)
  PROVE  q \in Search /\ Found(q, S) /\ (Unseen(o) => Unseen(q))
<1>15. PICK c, v, l : c = SignalAt(o) /\ v = VectorRank(o) /\ l = WordRank(o)
  OBVIOUS
<1>16. PICK id : id = HitOf(c, S)
  OBVIOUS
<1>17. PICK r, n : r = Supported(o.candidates, id, c, v, l) /\ n = o.next + 1
  OBVIOUS
<1>18. q = [o EXCEPT !.pc = "gather", !.next = n, !.candidates = r]
  BY <1>15, <1>16, <1>17 DEF TakesSignal
<1>1. /\ ListsInv(o) /\ HitInv(o, S) /\ ParentHits(o, S) /\ DiscoveryInv(o)
      /\ o.pc \in Gathering /\ o.strategy # "hybrid"
  BY DEF Found, ListsInv, Gathering
<1>2. /\ o.next >= 1 /\ o.next \in Nat /\ o.next <= Len(o.vector) + Len(o.lexical)
      /\ Len(o.vector) \in Nat /\ Len(o.lexical) \in Nat
      /\ o.candidates \in Seq(Candidate)
  BY <1>1, SearchFields DEF ListsInv
<1>3. c \in Chunk /\ c \in ToSet(o.vector) \cup ToSet(o.lexical)
  BY <1>2, <1>15, SignalFacts
<1>4. v \in Nat /\ l \in Nat
  <2>1. CASE o.next <= Len(o.vector)
    BY <1>2, <1>15, <2>1 DEF VectorRank, WordRank
  <2>2. CASE o.next > Len(o.vector)
    BY <1>2, <1>15, <2>2, Places DEF VectorRank, WordRank
  <2> QED
    BY <1>2, <2>1, <2>2
<1>5. id \in Chunk \cup Parent
  BY <1>3, <1>16, ParentFacts DEF HitOf
<1>14. n \in Nat /\ n >= 1 /\ n <= Len(o.vector) + Len(o.lexical) + 1
  BY <1>2, <1>17, Places
<1>6. \A i, j \in DOMAIN o.candidates : i # j => o.candidates[i].id # o.candidates[j].id
  BY <1>1 DEF ParentHits
<1>7. /\ r \in Seq(Candidate)
      /\ \A i \in DOMAIN r : \/ IsKept(o.candidates, r, id, i)
                             \/ IsSupported(o.candidates, r, id, c, v, l, i)
                             \/ IsNew(o.candidates, r, id, c, v, l, i)
  BY <1>2, <1>3, <1>4, <1>5, <1>6, <1>17, SupportedCases
<1>8. /\ q \in Search /\ q.pc = "gather" /\ q.next = n /\ q.candidates = r
      /\ q.strategy = o.strategy /\ q.vector = o.vector /\ q.lexical = o.lexical
      /\ q.chunks = o.chunks
  BY <1>7, <1>14, <1>18 DEF Search
<1>9. ListsInv(q)
  <2>1. q.next >= 1 /\ q.next <= Len(o.vector) + Len(o.lexical) + 1
    BY <1>8, <1>14
  <2>2. q.pc \in Gathering /\ q.pc \notin {"idle", "embed", "sign", "match", "list", "filter", "parent"}
    BY <1>8 DEF Gathering
  <2> QED
    BY <1>1, <1>8, <2>1, <2>2 DEF ListsInv
<1>10. HitInv(q, S) /\ ParentHits(q, S)
  <2>1. /\ HitInv(o, S) /\ ParentHits(o, S) /\ o.strategy # "hybrid" /\ o.pc \in Gathering
        /\ c \in Chunk /\ v \in Nat /\ l \in Nat /\ id = HitOf(c, S)
        /\ r = Supported(o.candidates, id, c, v, l) /\ q \in Search /\ q.candidates = r
    BY <1>1, <1>3, <1>4, <1>8, <1>16, <1>17
  <2> QED
    BY <2>1, SupportedHits
<1>11. DiscoveryInv(q)
  <2>1. /\ DiscoveryInv(o) /\ o.strategy # "hybrid" /\ o.pc \in Gathering /\ o.next >= 1
        /\ c \in Chunk /\ id \in Chunk \cup Parent /\ q \in Search
    BY <1>1, <1>2, <1>3, <1>4, <1>5, <1>8
  <2>3. SignalTaken(o, q, id, c)
    BY <1>8, <1>15, <1>17 DEF SignalTaken
  <2>2. OneForId(o.candidates)
    BY <1>6 DEF OneForId
  <2> QED
    BY <2>1, <2>2, <2>3, SupportedOrder
<1>12. Found(q, S)
  BY <1>1, <1>8, <1>9, <1>10, <1>11 DEF Found, ChunkHits, Bounded
<1>13. ASSUME Unseen(o) PROVE Unseen(q)
  <2>1. c \notin New /\ \A i \in DOMAIN o.candidates : ToSet(o.candidates[i].evidence) \cap New = {}
    BY <1>3, <1>13 DEF Unseen
  <2>2. ASSUME NEW i \in DOMAIN r PROVE ToSet(r[i].evidence) \cap New = {}
    <3>1. CASE IsKept(o.candidates, r, id, i)
      BY <2>1, <3>1 DEF IsKept
    <3>2. CASE IsSupported(o.candidates, r, id, c, v, l, i)
      <4>1. ToSet(r[i].evidence) = ToSet(o.candidates[i].evidence) \cup {c}
        <5>1. PICK e \in Seq(Chunk) : e = o.candidates[i].evidence
          BY <3>2, HitFields DEF IsSupported
        <5>2. ToSet(AddEvidence(e, c)) = ToSet(e) \cup {c}
          BY <1>3, AddEvidenceType
        <5> QED
          BY <3>2, <5>1, <5>2 DEF IsSupported
      <4> QED
        BY <2>1, <3>2, <4>1 DEF IsSupported
    <3>3. CASE IsNew(o.candidates, r, id, c, v, l, i)
      <4>1. r[i].evidence = <<c>>
        BY <3>3 DEF IsNew
      <4>2. ToSet(<<c>>) = {c}
        BY DEF ToSet
      <4>3. ToSet(r[i].evidence) = {c}
        BY <4>1, <4>2
      <4> QED
        BY <2>1, <4>3
    <3> QED
      BY <1>7, <3>1, <3>2, <3>3
  <2> QED
    BY <1>8, <1>13, <2>2 DEF Unseen
<1> QED
  BY <1>8, <1>12, <1>13

\* All matches of a hybrid search are gathered.
LEMMA CandidatesFound ==
  ASSUME NEW S, NEW o \in Search, Found(o, S), o.pc = "gather", o.strategy = "hybrid",
         NEW q, q = [o EXCEPT !.pc = "rank"]
  PROVE  q \in Search /\ Found(q, S) /\ (Unseen(o) => Unseen(q))
<1>1. /\ q \in Search /\ q.pc = "rank" /\ q.strategy = "hybrid" /\ q.next = o.next
      /\ q.vector = o.vector /\ q.lexical = o.lexical /\ q.candidates = o.candidates
      /\ q.chunks = o.chunks
  BY DEF Search
<1>2. q.pc \in Gathering /\ o.pc \in Gathering
  BY <1>1 DEF Gathering
<1>3. ListsInv(q)
  BY <1>1, <1>2 DEF Found, ListsInv
<1>4. HitInv(q, S) /\ ParentHits(q, S) /\ ChunkHits(q) /\ DiscoveryInv(q) /\ Bounded(q)
  BY <1>1, <1>2 DEF Found, HitInv, ParentHits, ChunkHits, DiscoveryInv, Bounded
<1> QED
  BY <1>1, <1>3, <1>4 DEF Found, Unseen

\* A hybrid search takes the next match, which may be a hit: no other hit is
\* this chunk.
HitByItself(o, c) ==
  [id |-> c, evidence |-> <<c>>,
   vrank |-> RankIn(o.vector, c), lrank |-> RankIn(o.lexical, c)]
TakesMatch(o, q, c, r) == q = [o EXCEPT !.matches = @ \ {c}, !.candidates = r]

LEMMA CandidateFound ==
  ASSUME NEW S, NEW o \in Search, Found(o, S), o.pc = "gather", o.strategy = "hybrid",
         NEW c \in o.matches,
         NEW r \in {o.candidates, Append(o.candidates, HitByItself(o, c))},
         NEW q, TakesMatch(o, q, c, r)
  PROVE  /\ q \in Search /\ Found(q, S)
         /\ Unseen(o) /\ (r = o.candidates \/ c \notin New) => Unseen(q)
<1>0. PICK h : h = HitByItself(o, c)
  OBVIOUS
<1> DEFINE cs == o.candidates
<1>1. /\ c \in Chunk /\ cs \in Seq(Candidate) /\ o.vector \in Seq(Chunk) /\ o.lexical \in Seq(Chunk)
      /\ o.pc \in Gathering
  BY SearchFields DEF Gathering
<1>2. /\ ListsInv(o) /\ HitInv(o, S) /\ ChunkHits(o)
  BY DEF Found
<1>3. Len(o.vector) <= Candidates /\ Len(o.lexical) <= WordHits
  BY <1>2 DEF ListsInv
<1>4. /\ RankIn(o.vector, c) \in Nat /\ RankIn(o.vector, c) <= Candidates
      /\ RankIn(o.lexical, c) \in Nat /\ RankIn(o.lexical, c) <= WordHits
  <2>1. /\ RankIn(o.vector, c) \in Nat /\ RankIn(o.vector, c) <= Len(o.vector)
        /\ RankIn(o.lexical, c) \in Nat /\ RankIn(o.lexical, c) <= Len(o.lexical)
    BY <1>1, RankInType
  <2>2. Len(o.vector) \in Nat /\ Len(o.lexical) \in Nat
    BY <1>1
  <2> QED
    BY <1>3, <2>1, <2>2, Constants
<1>5. PICK e : e = <<c>> /\ e \in Seq(Chunk) /\ Len(e) = 1 /\ IsInjective(e) /\ ToSet(e) = {c}
  <2>1. <<c>> \in Seq(Chunk) /\ Len(<<c>>) = 1
    BY <1>1
  <2>2. IsInjective(<<c>>) /\ ToSet(<<c>>) = {c}
    BY DEF IsInjective, ToSet
  <2> QED
    BY <2>1, <2>2
<1>6. /\ h \in Candidate /\ h.id = c /\ h.evidence = e
      /\ h.vrank <= Candidates /\ h.lrank <= WordHits
  <2>1. h.id = c /\ h.evidence = e /\ h.vrank = RankIn(o.vector, c) /\ h.lrank = RankIn(o.lexical, c)
    BY <1>0, <1>5 DEF HitByItself
  <2>2. h \in Candidate
    BY <1>0, <1>1, <1>4, <1>5, CandidateType DEF HitByItself
  <2> QED
    BY <1>4, <2>1, <2>2
<1>7. /\ r \in Seq(Candidate)
      /\ \A i \in DOMAIN r :
           \/ i \in DOMAIN cs /\ r[i] = cs[i]
           \/ i = Len(cs) + 1 /\ r[i] = h /\ r # cs
      /\ \A i \in DOMAIN cs : i # Len(cs) + 1
  <2>1. DOMAIN cs = 1..Len(cs) /\ Len(cs) \in Nat
    BY <1>1
  <2>2. CASE r = cs
    BY <1>1, <2>1, <2>2
  <2>3. CASE r = Append(cs, h)
    <3>1. /\ r \in Seq(Candidate) /\ Len(r) = Len(cs) + 1 /\ r[Len(cs) + 1] = h
          /\ DOMAIN r = 1..(Len(cs) + 1) /\ \A i \in DOMAIN cs : r[i] = cs[i]
      <4> HIDE DEF cs
      <4> QED
        BY <1>1, <1>6, <2>3
    <3>2. r # cs
      BY <2>1, <3>1
    <3> HIDE DEF cs
    <3> QED
      BY <2>1, <3>1, <3>2
  <2> QED
    BY <1>0, <2>2, <2>3
<1>8. /\ q \in Search /\ q.pc = "gather" /\ q.strategy = "hybrid" /\ q.next = o.next
      /\ q.vector = o.vector /\ q.lexical = o.lexical /\ q.candidates = r
      /\ q.chunks = o.chunks /\ q.matches = o.matches \ {c}
  BY <1>7 DEF Search, TakesMatch
<1>9. ListsInv(q)
  BY <1>2, <1>8 DEF ListsInv, Gathering
<1>10. \A i, j \in DOMAIN cs :
         /\ cs[i].id \in Chunk /\ cs[i].evidence = <<cs[i].id>>
         /\ cs[i].id \notin o.matches
         /\ i # j => cs[i].id # cs[j].id
         /\ cs[i].vrank <= Candidates /\ cs[i].lrank <= WordHits
  BY <1>1, <1>2 DEF ChunkHits
<1>11. \A i \in DOMAIN cs : cs[i].id # c
  BY <1>10
<1>12. h.evidence = <<h.id>>
  BY <1>5, <1>6
<1> HIDE DEF cs
<1>13. ASSUME NEW i \in DOMAIN r, NEW j \in DOMAIN r
       PROVE  /\ r[i].id \in Chunk /\ r[i].evidence = <<r[i].id>>
              /\ r[i].id \notin o.matches \ {c}
              /\ i # j => r[i].id # r[j].id
              /\ r[i].vrank <= Candidates /\ r[i].lrank <= WordHits
  <2>1. CASE i \in DOMAIN cs /\ r[i] = cs[i]
    BY <1>6, <1>7, <1>10, <1>11, <2>1
  <2>2. CASE i = Len(cs) + 1 /\ r[i] = h
    BY <1>1, <1>6, <1>7, <1>11, <1>12, <2>2
  <2> QED
    BY <1>7, <2>1, <2>2
<1>14. ChunkHits(q)
  BY <1>8, <1>13 DEF ChunkHits
<1>15. HitInv(q, S)
  <2>1. ASSUME NEW i \in DOMAIN r
        PROVE  Len(r[i].evidence) >= 1 /\ IsInjective(r[i].evidence)
               /\ ToSet(r[i].evidence) = {r[i].id}
    <3>1. PICK f, d : d = r[i].id /\ f = <<d>> /\ r[i].evidence = f
      BY <1>13
    <3>2. Len(f) = 1 /\ IsInjective(f) /\ ToSet(f) = {d}
      BY <3>1 DEF IsInjective, ToSet
    <3> QED
      BY <3>1, <3>2
  <2> QED
    <3>1. ASSUME NEW i \in DOMAIN r, NEW j \in DOMAIN r, i # j
          PROVE  ToSet(r[i].evidence) \cap ToSet(r[j].evidence) \cap S = {}
      <4>1. r[i].id # r[j].id
        BY <1>13, <3>1
      <4>2. ToSet(r[i].evidence) = {r[i].id} /\ ToSet(r[j].evidence) = {r[j].id}
        BY <2>1
      <4> QED
        BY <4>1, <4>2
    <3>2. ASSUME NEW i \in DOMAIN r
          PROVE  \A d \in ToSet(r[i].evidence) : r[i].id \in {d, ParentOf(d)}
      BY <2>1
    <3> QED
      BY <1>8, <2>1, <3>1, <3>2 DEF HitInv
<1>16. Found(q, S)
  BY <1>8, <1>9, <1>14, <1>15 DEF Found, ParentHits, DiscoveryInv, Bounded
<1>17. ASSUME Unseen(o), r = o.candidates \/ c \notin New PROVE Unseen(q)
  <2>1. \A i \in DOMAIN r : ToSet(r[i].evidence) \cap New = {}
    BY <1>5, <1>6, <1>7, <1>17 DEF Unseen, cs
  <2> QED
    BY <1>8, <1>17, <2>1 DEF Unseen
<1> QED
  BY <1>8, <1>16, <1>17

\* The answer shows some of the hits, each with some of its evidence.
LEMMA AnswerFound ==
  ASSUME NEW S, NEW o \in Search, Found(o, S), o.pc = "rank",
         NEW p \in [DOMAIN o.candidates -> DOMAIN o.candidates], IsInjective(p),
         NEW q, Shows(q, q.strategy, o.candidates, p)
  PROVE  q \in Search /\ Found(q, S) /\ (Unseen(o) => Unseen(q))
<1>1. /\ q \in Search
      /\ q.pc = "answered" /\ q.next = 1
      /\ q.vector = <<>> /\ q.lexical = <<>> /\ q.chunks = {}
      /\ Len(q.candidates) <= TopK /\ DOMAIN q.candidates \subseteq DOMAIN o.candidates
      /\ \A i \in DOMAIN q.candidates : ShownAs(q.candidates[i], o.candidates[p[i]])
  BY DEF Shows
<1>2. ListsInv(q)
  <2>1. q.pc \notin Gathering /\ q.pc \notin {"filter", "parent", "build", "mark", "find"}
    BY <1>1 DEF Gathering
  <2>2. IsInjective(q.vector) /\ IsInjective(q.lexical) /\ Len(q.vector) = 0 /\ Len(q.lexical) = 0
    BY <1>1, EmptyList
  <2> QED
    BY <1>1, <2>1, <2>2, Constants DEF ListsInv
<1>3. ASSUME NEW i \in DOMAIN q.candidates
      PROVE  /\ p[i] \in DOMAIN o.candidates
             /\ q.candidates[i].id = o.candidates[p[i]].id
             /\ Len(q.candidates[i].evidence) \in 1..MaxEvidence
             /\ IsInjective(q.candidates[i].evidence)
             /\ ToSet(q.candidates[i].evidence) \subseteq ToSet(o.candidates[p[i]].evidence)
  <2>1. p[i] \in DOMAIN o.candidates
    BY <1>1
  <2>2. PICK e \in Seq(Chunk) : e = o.candidates[p[i]].evidence
    BY <2>1, HitFields
  <2>3. Len(e) >= 1 /\ IsInjective(e) /\ Len(e) \in Nat
    BY <2>1, <2>2 DEF Found, HitInv
  <2>4. PICK f : f = Atmost(e, MaxEvidence)
    OBVIOUS
  <2>5. /\ ToSet(f) \subseteq ToSet(e) /\ IsInjective(f)
        /\ Len(f) = IF Len(e) < MaxEvidence THEN Len(e) ELSE MaxEvidence
    BY <2>2, <2>3, <2>4, AtmostFacts, AtmostSet, Constants
  <2>6. Len(f) \in 1..MaxEvidence
    BY <2>3, <2>5, Constants
  <2>7. q.candidates[i].id = o.candidates[p[i]].id /\ q.candidates[i].evidence = f
    BY <1>1, <2>2, <2>4 DEF ShownAs
  <2> QED
    BY <2>1, <2>2, <2>5, <2>6, <2>7
<1>4. HitInv(o, S)
  BY DEF Found
<1>5. ASSUME NEW i \in DOMAIN q.candidates, NEW j \in DOMAIN q.candidates, i # j
      PROVE  ToSet(q.candidates[i].evidence) \cap ToSet(q.candidates[j].evidence) \cap S = {}
  <2>1. p[i] # p[j] /\ p[i] \in DOMAIN o.candidates /\ p[j] \in DOMAIN o.candidates
    BY <1>1, <1>3, <1>5 DEF IsInjective
  <2>2. ToSet(o.candidates[p[i]].evidence) \cap ToSet(o.candidates[p[j]].evidence) \cap S = {}
    BY <1>4, <2>1 DEF HitInv
  <2> QED
    BY <1>3, <2>2
<1>6. ASSUME NEW i \in DOMAIN q.candidates
      PROVE  \A c \in ToSet(q.candidates[i].evidence) : q.candidates[i].id \in {c, ParentOf(c)}
  <2>1. \A c \in ToSet(o.candidates[p[i]].evidence) : o.candidates[p[i]].id \in {c, ParentOf(c)}
    BY <1>3, <1>4 DEF HitInv
  <2> QED
    BY <1>3, <2>1
<1>7. HitInv(q, S)
  BY <1>3, <1>5, <1>6 DEF HitInv
<1>12. OneForId(q.candidates)
  <2>1. OneForId(o.candidates)
    BY DEF Found, ParentHits, ChunkHits, OneForId, Gathering
  <2> QED
    BY <1>1, <1>3, <2>1 DEF OneForId, IsInjective
<1>8. Bounded(q)
  BY <1>1, <1>3, <1>12 DEF Bounded
<1>9. q.pc \notin Gathering
  BY <1>1 DEF Gathering
<1>10. Found(q, S)
  BY <1>2, <1>7, <1>8, <1>9 DEF Found, ParentHits, ChunkHits, DiscoveryInv
<1>11. ASSUME Unseen(o) PROVE Unseen(q)
  <2>1. \A i \in DOMAIN q.candidates : ToSet(q.candidates[i].evidence) \cap New = {}
    BY <1>3, <1>11 DEF Unseen
  <2>2. ToSet(<<>>) = {}
    BY EmptyList
  <2> QED
    BY <1>1, <2>1, <2>2 DEF Unseen
<1> QED
  BY <1>1, <1>10, <1>11

\* Showing less of the evidence of two hits keeps who shows more, and who
\* gets the larger bonus.
LEMMA ShownEvidence ==
  ASSUME NEW a \in Candidate, NEW b \in Candidate, NEW c, NEW d, ShownAs(c, a), ShownAs(d, b),
         Len(c.evidence) >= Len(d.evidence)
  PROVE  Bonus(a) >= Bonus(b)
<1>1. /\ a.evidence \in Seq(Chunk) /\ b.evidence \in Seq(Chunk) /\ MaxEvidence \in Nat
      /\ Len(a.evidence) \in Nat /\ Len(b.evidence) \in Nat
  BY Constants DEF Candidate
<1>2. /\ Len(c.evidence) = IF Len(a.evidence) < MaxEvidence THEN Len(a.evidence) ELSE MaxEvidence
      /\ Len(d.evidence) = IF Len(b.evidence) < MaxEvidence THEN Len(b.evidence) ELSE MaxEvidence
  BY <1>1, AtmostFacts DEF ShownAs
<1>3. Bonus(a) = 10000 * Len(c.evidence) /\ Bonus(b) = 10000 * Len(d.evidence)
  BY <1>2 DEF Bonus
<1>4. Len(c.evidence) \in Nat /\ Len(d.evidence) \in Nat
  BY <1>1, <1>2
<1> QED
  BY <1>3, <1>4

\* Unless two scores are rounded to the same millionth the best comes first.
LEMMA AnswerBest ==
  ASSUME NEW S, NEW o \in Search, Found(o, S), o.pc = "rank",
         NEW p \in [DOMAIN o.candidates -> DOMAIN o.candidates],
         NEW q, Shows(q, o.strategy, o.candidates, p),
         \A i, j \in DOMAIN o.candidates :
           i < j => Before(o.strategy, o.candidates, p[i], p[j])
  PROVE  BestAnswer(q)
<1> DEFINE cs == o.candidates
<1>1. /\ q \in Search /\ q.pc = "answered" /\ q.strategy = o.strategy
      /\ DOMAIN q.candidates \subseteq DOMAIN cs
      /\ \A i \in DOMAIN q.candidates : ShownAs(q.candidates[i], cs[p[i]])
  BY DEF Shows
<1>2. SUFFICES ASSUME NEW i \in DOMAIN q.candidates, NEW j \in DOMAIN q.candidates,
                      i < j, Beats(q.candidates[j], q.candidates[i])
               PROVE  /\ q.strategy = "hybrid"
                      /\ RoundedAlike(q.candidates[i], q.candidates[j])
  BY DEF BestAnswer
<1>3. p[i] \in DOMAIN cs /\ p[j] \in DOMAIN cs /\ Before(o.strategy, cs, p[i], p[j])
  BY <1>1, <1>2
<1>4. PICK a, b : a = cs[p[i]] /\ b = cs[p[j]]
  OBVIOUS
<1>5. a \in Candidate /\ b \in Candidate /\ a.vrank \in Nat /\ a.lrank \in Nat
      /\ b.vrank \in Nat /\ b.lrank \in Nat
  BY <1>3, <1>4, HitFields
<1>6. ShownAs(q.candidates[i], a) /\ ShownAs(q.candidates[j], b)
  BY <1>1, <1>4
<1>7. /\ AsGood(b.vrank, a.vrank) /\ AsGood(b.lrank, a.lrank)
      /\ b.vrank # a.vrank \/ b.lrank # a.lrank
      /\ Len(q.candidates[j].evidence) >= Len(q.candidates[i].evidence)
  BY <1>2, <1>6 DEF Beats, ShownAs
<1>8. Bonus(b) >= Bonus(a)
  BY <1>5, <1>6, <1>7, ShownEvidence
<1>9. /\ Fused(a, 70, 30) \in Int /\ Fused(b, 70, 30) \in Int
      /\ Fused(a, 55, 45) \in Int /\ Fused(b, 55, 45) \in Int
      /\ Bonus(a) \in Int /\ Bonus(b) \in Int
  BY <1>5, FusedIsRounded, ScoreType
<1>10. \/ Score(o.strategy, a) > Score(o.strategy, b)
       \/ Score(o.strategy, a) = Score(o.strategy, b) /\ p[i] < p[j]
  BY <1>3, <1>4 DEF Before
<1>11. CASE o.strategy = "hybrid"
  <2>1. Fused(a, 70, 30) >= Fused(b, 70, 30)
    BY <1>9, <1>10, <1>11 DEF Score
  <2>2. Fused(b, 70, 30) >= Fused(a, 70, 30)
    BY <1>5, <1>7, FusedOrder
  <2>3. Fused(a, 70, 30) = Fused(b, 70, 30)
    BY <1>9, <2>1, <2>2
  <2>4. ~(a.vrank <= FarRank /\ a.lrank <= FarRank /\ b.vrank <= FarRank /\ b.lrank <= FarRank)
    <3>1. FarRank = 488
      BY DEF FarRank
    <3> QED
      BY <1>5, <1>7, <1>9, <2>3, <3>1, FusedOrder
  <2>5. /\ Fused(q.candidates[i], 70, 30) = Fused(a, 70, 30)
        /\ Fused(q.candidates[j], 70, 30) = Fused(b, 70, 30)
    BY <1>6 DEF ShownAs, Fused
  <2>6. /\ q.candidates[i].vrank = a.vrank /\ q.candidates[i].lrank = a.lrank
        /\ q.candidates[j].vrank = b.vrank /\ q.candidates[j].lrank = b.lrank
    BY <1>6 DEF ShownAs
  <2>7. FarRank \in Nat
    BY DEF FarRank
  <2>8. RoundedAlike(q.candidates[i], q.candidates[j])
    BY <1>5, <2>3, <2>4, <2>5, <2>6, <2>7 DEF RoundedAlike
  <2> QED
    BY <1>1, <1>11, <2>8
<1>12. CASE o.strategy # "hybrid"
  <2>1. Fused(b, 55, 45) >= Fused(a, 55, 45)
    BY <1>5, <1>7, FusedOrder
  <2>2. p[i] < p[j]
    BY <1>8, <1>9, <1>10, <1>12, <2>1 DEF Score
  <2>3. Earlier(a, b)
    BY <1>3, <1>4, <1>12, <2>2 DEF Found, DiscoveryInv, Gathering
  <2> QED
    BY <1>5, <1>7, <2>3 DEF Earlier, AsGood, Ahead
<1> QED
  BY <1>11, <1>12

-----------------------------------------------------------------------------
(* Steps of the specification: what a search has found *)

\* What a step of thread s leaves in its place.
KeepsOrder(s, q) ==
  /\ q \in Search /\ search' = [search EXCEPT ![s] = q] /\ Found(q, Stored)
  /\ ~NewStored => Unseen(q)

\* Nothing is unseen in a search that is not made.
LEMMA NoSearchUnseen == Unseen(NoSearch)
<1>1. DOMAIN NoSearch.candidates = {}
  BY NoSearchType
<1> QED
  BY <1>1, NoSearchType, EmptyList DEF Unseen

\* A thread starts a search.
LEMMA StartKeeps ==
  ASSUME Typed, NEW s \in Searches, NEW strategy \in {"parent_child", "hybrid"},
         StartSearch(s, strategy)
  PROVE  \E q : KeepsOrder(s, q) /\ q.pc \in {"list", "embed"} /\ q.strategy = strategy
<1>1. PICK pc \in {"list", "embed"} : pc = IF strategy = "hybrid" THEN "list" ELSE "embed"
  OBVIOUS
<1>2. PICK q : q = [NoSearch EXCEPT !.pc = pc, !.strategy = strategy]
  OBVIOUS
<1>3. search' = [search EXCEPT ![s] = q]
  BY <1>1, <1>2 DEF StartSearch, Becomes
<1>4. /\ q \in Search /\ q.pc = pc /\ q.strategy = strategy
      /\ q.vector = <<>> /\ q.lexical = <<>> /\ q.next = 1 /\ q.candidates = <<>>
      /\ q.chunks = NoSearch.chunks
  BY <1>2, NoSearchType DEF Search
<1>5. Found(q, Stored)
  BY <1>4, StartFound
<1>6. Unseen(q)
  BY <1>4, NoSearchUnseen, NoSearchType DEF Unseen
<1> QED
  BY <1>3, <1>4, <1>5, <1>6 DEF KeepsOrder

\* What the calls of the embedder and of the index leave of a search.
LEMMA EarlyStepKeeps ==
  ASSUME Typed, WriterInv, SeenInv, NEW s \in Searches, Found(search[s], Stored),
         \/ EmbedQuery(s) \/ SignQuery(s) \/ ListChunks(s) \/ BuildIndex(s) \/ MarkIndex(s)
  PROVE  \E q : KeepsOrder(s, q)
<1>1. PICK o \in Search : o = search[s]
  BY DEF Typed
<1>2. ListsInv(o) /\ (~NewStored => Unseen(o))
  BY <1>1 DEF Found, SeenInv
<1>3. ASSUME NEW q \in Search, search' = [search EXCEPT ![s] = q],
             o.pc \notin Gathering \cup {"answered"},
             q.strategy = o.strategy, q.vector = o.vector, q.lexical = o.lexical,
             q.next = o.next, q.candidates = o.candidates,
             ~NewStored => q.chunks \cap New = {},
             \/ o.pc \in {"embed", "sign"} /\ q.pc \in {"sign", "match"}
             \/ o.strategy # "hybrid" /\ q.pc \in {"list", "build", "mark", "find"}
             \/ o.strategy = "hybrid" /\ o.pc = "list" /\ q.pc = "embed"
      PROVE  KeepsOrder(s, q)
  <2>1. Found(q, Stored)
    BY <1>2, <1>3, EarlyStepFound
  <2>2. ~NewStored => Unseen(q)
    BY <1>2, <1>3 DEF Unseen
  <2> QED
    BY <1>3, <2>1, <2>2 DEF KeepsOrder
<1>4. ~NewStored => o.chunks \cap New = {}
  BY <1>2 DEF Unseen
<1>5. CASE EmbedQuery(s)
  <2>1. PICK e \in Embedder : Becomes(s, [o EXCEPT !.pc = "sign", !.producer = e])
    BY <1>1, <1>5 DEF EmbedQuery
  <2>2. PICK q : q = [o EXCEPT !.pc = "sign", !.producer = e]
    OBVIOUS
  <2>3. search' = [search EXCEPT ![s] = q] /\ o.pc = "embed"
    BY <1>1, <1>5, <2>1, <2>2 DEF Becomes, EmbedQuery
  <2>4. /\ q \in Search /\ q.pc = "sign" /\ q.strategy = o.strategy /\ q.vector = o.vector
        /\ q.lexical = o.lexical /\ q.next = o.next /\ q.candidates = o.candidates
        /\ q.chunks = o.chunks
    BY <2>2 DEF Search
  <2> QED
    BY <1>3, <1>4, <2>3, <2>4 DEF Gathering
<1>6. CASE SignQuery(s)
  <2>1. o.pc = "sign" /\ last \in Embedder
    BY <1>1, <1>6 DEF SignQuery, Typed
  <2>2. CASE Becomes(s, [o EXCEPT !.pc = "match", !.signature = last, !.followed = "yes"])
    <3>1. PICK q : q = [o EXCEPT !.pc = "match", !.signature = last, !.followed = "yes"]
      OBVIOUS
    <3>2. search' = [search EXCEPT ![s] = q]
      BY <2>2, <3>1 DEF Becomes
    <3>3. /\ q \in Search /\ q.pc = "match" /\ q.strategy = o.strategy /\ q.vector = o.vector
          /\ q.lexical = o.lexical /\ q.next = o.next /\ q.candidates = o.candidates
          /\ q.chunks = o.chunks
      BY <2>1, <3>1 DEF Search
    <3> QED
      BY <1>3, <1>4, <2>1, <3>2, <3>3 DEF Gathering
  <2>3. CASE Forget(s)
    BY <2>3, NoSearchFound, NoSearchUnseen DEF Forget, Becomes, KeepsOrder
  <2>4. CASE o.strategy # "hybrid" /\ Becomes(s, [o EXCEPT !.pc = "list", !.producer = "primary"])
    <3>1. PICK q : q = [o EXCEPT !.pc = "list", !.producer = "primary"]
      OBVIOUS
    <3>2. search' = [search EXCEPT ![s] = q]
      BY <2>4, <3>1 DEF Becomes
    <3>3. /\ q \in Search /\ q.pc = "list" /\ q.strategy = o.strategy /\ q.vector = o.vector
          /\ q.lexical = o.lexical /\ q.next = o.next /\ q.candidates = o.candidates
          /\ q.chunks = o.chunks
      BY <3>1 DEF Search, Embedder
    <3> QED
      BY <1>3, <1>4, <2>1, <2>4, <3>2, <3>3 DEF Gathering
  <2> QED
    BY <1>1, <1>6, <2>2, <2>3, <2>4 DEF SignQuery
<1>7. CASE ListChunks(s)
  <2>1. PICK pc : pc = IF o.strategy = "hybrid" THEN "embed" ELSE "build"
    OBVIOUS
  <2>2. PICK q : q = [o EXCEPT !.pc = pc, !.chunks = Stored]
    OBVIOUS
  <2>3. search' = [search EXCEPT ![s] = q] /\ o.pc = "list"
    BY <1>1, <1>7, <2>1, <2>2 DEF Becomes, ListChunks
  <2>4. /\ q \in Search /\ q.pc = pc /\ q.strategy = o.strategy /\ q.vector = o.vector
        /\ q.lexical = o.lexical /\ q.next = o.next /\ q.candidates = o.candidates
        /\ q.chunks = Stored
    <3>1. pc \in {"embed", "build"} /\ Stored \in SUBSET Chunk
      BY <2>1, StoredType
    <3> HIDE DEF Stored
    <3> QED
      BY <2>2, <3>1 DEF Search
  <2>5. ~NewStored => Stored \cap New = {}
    BY DEF WriterInv
  <2> QED
    BY <1>3, <2>1, <2>3, <2>4, <2>5 DEF Gathering
<1>8. CASE BuildIndex(s) \/ MarkIndex(s)
  <2>1. /\ o.pc \in {"build", "mark"}
        /\ \E pc \in {"mark", "find"} : search' = [search EXCEPT ![s] = [o EXCEPT !.pc = pc]]
    BY <1>1, <1>8 DEF BuildIndex, MarkIndex, SearchGoesTo, Becomes
  <2>2. PICK pc \in {"mark", "find"} : search' = [search EXCEPT ![s] = [o EXCEPT !.pc = pc]]
    BY <2>1
  <2>3. PICK q : q = [o EXCEPT !.pc = pc]
    OBVIOUS
  <2>4. /\ q \in Search /\ q.pc = pc /\ q.strategy = o.strategy /\ q.vector = o.vector
        /\ q.lexical = o.lexical /\ q.next = o.next /\ q.candidates = o.candidates
        /\ q.chunks = o.chunks
    BY <2>3 DEF Search
  <2>5. o.strategy # "hybrid"
    BY <1>2, <2>1 DEF ListsInv
  <2> QED
    BY <1>3, <1>4, <2>1, <2>2, <2>3, <2>4, <2>5 DEF Gathering
<1> QED
  BY <1>5, <1>6, <1>7, <1>8

\* What reading the matches and the words leaves of a search.
LEMMA ListStepKeeps ==
  ASSUME Typed, WriterInv, SeenInv, NEW s \in Searches, Found(search[s], Stored),
         \/ MatchVectors(s) \/ FilterMatch(s) \/ FilteredAll(s) \/ FindWords(s)
  PROVE  \E q : KeepsOrder(s, q)
<1>1. PICK o \in Search : o = search[s]
  BY DEF Typed
<1>2. ListsInv(o) /\ (~NewStored => Unseen(o) /\ index \cap New = {} /\ Stored \cap New = {})
  BY <1>1 DEF Found, SeenInv, WriterInv
<1>0. /\ o.matches \in SUBSET Chunk /\ o.vector \in Seq(Chunk)
      /\ o.chunks \in SUBSET Chunk /\ index \in SUBSET Chunk
  BY SearchFields DEF Typed
<1>3. ASSUME NEW q \in Search, search' = [search EXCEPT ![s] = q], Found(q, Stored),
             ~NewStored => /\ q.chunks \cap New = {} /\ ToSet(q.vector) \cap New = {}
                           /\ ToSet(q.lexical) \cap New = {},
             q.candidates = o.candidates
      PROVE  KeepsOrder(s, q)
  <2>1. ~NewStored => Unseen(q)
    BY <1>2, <1>3 DEF Unseen
  <2> QED
    BY <1>3, <2>1 DEF KeepsOrder
<1>4. ~NewStored => /\ o.chunks \cap New = {} /\ ToSet(o.vector) \cap New = {}
                    /\ ToSet(o.lexical) \cap New = {}
  BY <1>2 DEF Unseen
<1>5. CASE MatchVectors(s)
  <2>1. PICK M : /\ M \subseteq Points /\ Cardinality(M) <= Candidates
                 /\ Becomes(s, [o EXCEPT !.pc = "filter", !.matches = M])
    BY <1>1, <1>5 DEF MatchVectors
  <2>2. PICK q : q = [o EXCEPT !.pc = "filter", !.matches = M]
    OBVIOUS
  <2>3. search' = [search EXCEPT ![s] = q] /\ o.pc = "match" /\ M \in SUBSET Chunk
    BY <1>1, <1>5, <2>1, <2>2, StoredType DEF Becomes, MatchVectors
  <2>4. q \in Search /\ Found(q, Stored)
    BY <1>2, <2>1, <2>2, <2>3, MatchFound
  <2>5. /\ q.chunks = o.chunks /\ q.vector = o.vector /\ q.lexical = o.lexical
        /\ q.candidates = o.candidates
    BY <2>2 DEF Search
  <2> QED
    BY <1>3, <1>4, <2>3, <2>4, <2>5
<1>6. CASE FilterMatch(s)
  <2>1. PICK c \in o.matches :
          Becomes(s, [o EXCEPT
            !.matches = @ \ {c},
            !.vector = IF c \in Stored /\ IsCompatible(rows[c], o.signature)
                         THEN Append(@, c) ELSE @])
    BY <1>1, <1>6 DEF FilterMatch
  <2>2. PICK v : v = IF c \in Stored /\ IsCompatible(rows[c], o.signature)
                       THEN Append(o.vector, c) ELSE o.vector
    OBVIOUS
  <2>3. PICK q : q = [o EXCEPT !.matches = @ \ {c}, !.vector = v]
    OBVIOUS
  <2>4. search' = [search EXCEPT ![s] = q] /\ o.pc = "filter"
    BY <1>1, <1>6, <2>1, <2>2, <2>3 DEF Becomes, FilterMatch
  <2>5. v \in {o.vector, Append(o.vector, c)} /\ (v # o.vector => c \in Stored)
    BY <2>2
  <2>6. q \in Search /\ Found(q, Stored)
    BY <1>2, <2>3, <2>4, <2>5, FilterFound
  <2>7. /\ q.chunks = o.chunks /\ q.vector = v /\ q.lexical = o.lexical
        /\ q.candidates = o.candidates
    <3>1. v \in Seq(Chunk)
      BY <1>0, <2>5, AppendSet
    <3> QED
      BY <2>3 DEF Search
  <2>8. ~NewStored => ToSet(v) \cap New = {}
    <3>1. CASE v = o.vector
      BY <1>4, <3>1
    <3>2. CASE v # o.vector
      <4>1. ToSet(v) = ToSet(o.vector) \cup {c} /\ c \in Stored
        <5>1. PICK e \in Seq(Chunk) : e = o.vector
          BY <1>0
        <5>2. c \in Chunk
          BY <1>0
        <5>3. ToSet(Append(e, c)) = ToSet(e) \cup {c}
          BY <5>2, AppendSet
        <5> QED
          BY <2>5, <3>2, <5>1, <5>3
      <4> QED
        BY <1>2, <1>4, <4>1
    <3> QED
      BY <3>1, <3>2
  <2> QED
    BY <1>3, <1>4, <2>4, <2>6, <2>7, <2>8
<1>7. CASE FilteredAll(s)
  <2>1. o.pc = "filter"
    BY <1>1, <1>7 DEF FilteredAll
  <2>2. CASE o.strategy = "hybrid"
    <3>1. PICK w \in Rankings(o.chunks, WordHits) :
             Becomes(s, [o EXCEPT
                !.pc = "gather", !.lexical = w, !.chunks = {},
                !.matches = ToSet(o.vector) \cup ToSet(w)])
      BY <1>1, <1>7, <2>2 DEF FilteredAll
    <3>2. w \in Seq(Chunk) /\ ToSet(w) \subseteq o.chunks /\ IsInjective(w) /\ Len(w) <= WordHits
      BY <1>0, RankingsFacts, Constants
    <3>3. PICK M \in SUBSET Chunk : M = ToSet(o.vector) \cup ToSet(w)
      BY <1>0, <3>2, ToSetType
    <3>4. PICK q : q = [o EXCEPT !.pc = "gather", !.lexical = w, !.chunks = {}, !.matches = M]
      OBVIOUS
    <3>5. search' = [search EXCEPT ![s] = q]
      BY <3>1, <3>3, <3>4 DEF Becomes
    <3>6. q \in Search /\ Found(q, Stored)
      BY <1>2, <2>1, <2>2, <3>2, <3>4, GatheringBegins
    <3>7. q.chunks = {} /\ q.vector = o.vector /\ q.lexical = w /\ q.candidates = o.candidates
      BY <3>4 DEF Search
    <3> QED
      BY <1>3, <1>4, <3>2, <3>5, <3>6, <3>7
  <2>3. CASE o.strategy # "hybrid"
    <3>1. PICK q : q = [o EXCEPT !.pc = "list", !.producer = "primary", !.signature = "primary"]
      OBVIOUS
    <3>2. search' = [search EXCEPT ![s] = q]
      BY <1>1, <1>7, <2>3, <3>1 DEF Becomes, FilteredAll
    <3>3. /\ q \in Search /\ q.pc = "list" /\ q.strategy = o.strategy /\ q.vector = o.vector
          /\ q.lexical = o.lexical /\ q.next = o.next /\ q.candidates = o.candidates
          /\ q.chunks = o.chunks
      BY <3>1 DEF Search, Embedder
    <3>4. Found(q, Stored)
      BY <1>2, <2>1, <2>3, <3>3, EarlyStepFound DEF Gathering
    <3> QED
      BY <1>3, <1>4, <3>2, <3>3, <3>4
  <2> QED
    BY <2>2, <2>3
<1>8. CASE FindWords(s)
  <2>1. o.pc = "find"
    BY <1>1, <1>8 DEF FindWords
  <2>2. CASE Forget(s)
    BY <2>2, NoSearchFound, NoSearchUnseen DEF Forget, Becomes, KeepsOrder
  <2>3. CASE ~Forget(s)
    <3>1. PICK w \in Rankings(index, Candidates) :
             Becomes(s, [o EXCEPT !.pc = "gather", !.lexical = w, !.chunks = {}])
      BY <1>1, <1>8, <2>3 DEF FindWords
    <3>2. w \in Seq(Chunk) /\ ToSet(w) \subseteq index /\ IsInjective(w) /\ Len(w) <= Candidates
      BY <1>0, RankingsFacts, Constants
    <3>3. PICK M \in SUBSET Chunk : M = o.matches
      BY <1>0
    <3>4. PICK q : q = [o EXCEPT !.pc = "gather", !.lexical = w, !.chunks = {}, !.matches = M]
      OBVIOUS
    <3>5. q = [o EXCEPT !.pc = "gather", !.lexical = w, !.chunks = {}]
      BY <3>3, <3>4 DEF Search
    <3>6. search' = [search EXCEPT ![s] = q]
      BY <3>1, <3>5 DEF Becomes
    <3>7. o.strategy # "hybrid"
      BY <1>2, <2>1 DEF ListsInv
    <3>8. q \in Search /\ Found(q, Stored)
      BY <1>2, <2>1, <3>2, <3>4, <3>7, GatheringBegins
    <3>9. q.chunks = {} /\ q.vector = o.vector /\ q.lexical = w /\ q.candidates = o.candidates
      BY <3>4 DEF Search
    <3> QED
      BY <1>2, <1>3, <1>4, <3>2, <3>6, <3>8, <3>9
  <2> QED
    BY <2>2, <2>3
<1> QED
  BY <1>5, <1>6, <1>7, <1>8

\* What gathering leaves of a search.
LEMMA GatherStepKeeps ==
  ASSUME Typed, WriterInv, SeenInv, NEW s \in Searches, Found(search[s], Stored),
         \/ GatherSignal(s) \/ FindParent(s) \/ GatherCandidate(s)
  PROVE  \E q : KeepsOrder(s, q)
<1>1. PICK o \in Search : o = search[s]
  BY DEF Typed
<1>2. Found(o, Stored) /\ ListsInv(o)
      /\ (~NewStored => Unseen(o) /\ Stored \cap New = {})
  BY <1>1 DEF Found, SeenInv, WriterInv
<1>0. PICK S \in SUBSET Chunk : S = Stored
  BY StoredType
<1>3. ASSUME NEW q \in Search, search' = [search EXCEPT ![s] = q], Found(q, S),
             Unseen(o) => Unseen(q)
      PROVE  KeepsOrder(s, q)
  BY <1>0, <1>2, <1>3 DEF KeepsOrder
<1>4. CASE GatherSignal(s)
  <2>1. /\ o.pc = "gather" /\ o.strategy # "hybrid"
        /\ Signals(s) = o.vector \o o.lexical
    BY <1>1, <1>4 DEF GatherSignal, Signals
  <2>2. /\ o.next \in Nat /\ o.vector \in Seq(Chunk) /\ o.lexical \in Seq(Chunk)
        /\ Len(o.vector \o o.lexical) = Len(o.vector) + Len(o.lexical)
        /\ Len(o.vector) \in Nat /\ Len(o.lexical) \in Nat
    BY SearchFields
  <2>3. \/ SearchGoesTo(s, "rank")
        \/ /\ o.next <= Len(o.vector) + Len(o.lexical)
           /\ SearchGoesTo(s, "parent") \/ Becomes(s, [o EXCEPT !.next = @ + 1])
    <3>1. o.next > Len(Signals(s)) \/ o.next <= Len(o.vector) + Len(o.lexical)
      <4>1. PICK n, a, b : n = o.next /\ a = Len(o.vector) /\ b = Len(o.lexical)
        OBVIOUS
      <4>2. n \in Nat /\ a \in Nat /\ b \in Nat /\ Len(Signals(s)) = a + b
        BY <2>1, <2>2, <4>1
      <4>3. n > a + b \/ n <= a + b
        BY <4>2
      <4> QED
        BY <4>1, <4>2, <4>3
    <3> QED
      BY <1>1, <1>4, <3>1 DEF GatherSignal, SearchGoesTo, Becomes
  <2>4. ASSUME NEW pc \in {"rank", "parent", "gather"}, NEW n \in Nat,
               NEW q, q = [o EXCEPT !.pc = pc, !.next = n],
               search' = [search EXCEPT ![s] = q],
               \/ pc = "rank" /\ n = o.next
               \/ /\ o.next <= Len(o.vector) + Len(o.lexical)
                  /\ \/ pc = "parent" /\ n = o.next
                     \/ pc = "gather" /\ n = o.next + 1
        PROVE  KeepsOrder(s, q)
    <3>1. /\ q \in Search /\ q.pc = pc /\ q.strategy = o.strategy /\ q.vector = o.vector
          /\ q.lexical = o.lexical /\ q.next = n /\ q.candidates = o.candidates
          /\ q.chunks = o.chunks
      BY <2>4 DEF Search
    <3>2. Found(q, S)
      BY <1>0, <1>2, <2>1, <2>4, <3>1, SignalFound
    <3> QED
      BY <1>3, <2>4, <3>1, <3>2 DEF Unseen
  <2>5. CASE SearchGoesTo(s, "rank")
    <3>1. PICK q : q = [o EXCEPT !.pc = "rank", !.next = o.next]
      OBVIOUS
    <3>2. q = [o EXCEPT !.pc = "rank"]
      BY <3>1 DEF Search
    <3>3. search' = [search EXCEPT ![s] = q]
      BY <1>1, <2>5, <3>2 DEF SearchGoesTo, Becomes
    <3> QED
      BY <2>2, <2>4, <3>1, <3>3
  <2>6. CASE o.next <= Len(o.vector) + Len(o.lexical) /\ SearchGoesTo(s, "parent")
    <3>1. PICK q : q = [o EXCEPT !.pc = "parent", !.next = o.next]
      OBVIOUS
    <3>2. q = [o EXCEPT !.pc = "parent"]
      BY <3>1 DEF Search
    <3>3. search' = [search EXCEPT ![s] = q]
      BY <1>1, <2>6, <3>2 DEF SearchGoesTo, Becomes
    <3> QED
      BY <2>2, <2>4, <2>6, <3>1, <3>3
  <2>7. CASE /\ o.next <= Len(o.vector) + Len(o.lexical)
             /\ Becomes(s, [o EXCEPT !.next = @ + 1])
    <3>0. PICK n \in Nat : n = o.next + 1
      BY <2>2
    <3>1. PICK q : q = [o EXCEPT !.pc = "gather", !.next = n]
      OBVIOUS
    <3>2. q = [o EXCEPT !.next = n]
      BY <2>1, <3>1 DEF Search
    <3>3. search' = [search EXCEPT ![s] = q]
      BY <1>1, <2>7, <3>0, <3>2 DEF Becomes
    <3> QED
      BY <2>4, <2>7, <3>0, <3>1, <3>3
  <2> QED
    BY <2>3, <2>5, <2>6, <2>7
<1>5. CASE FindParent(s)
  <2>1. PICK q : TakesSignal(o, q, S)
    BY DEF TakesSignal
  <2>2. search' = [search EXCEPT ![s] = q] /\ o.pc = "parent"
    BY <1>0, <1>1, <1>5, <2>1
       DEF FindParent, Becomes, Signals, TakesSignal, SignalAt, HitOf, ParentOf,
           VectorRank, WordRank
  <2>3. q \in Search /\ Found(q, S) /\ (Unseen(o) => Unseen(q))
    <3>1. Found(o, S) /\ o.pc = "parent"
      BY <1>0, <1>2, <2>2
    <3> QED
      BY <2>1, <3>1, ParentFound
  <2> QED
    BY <1>3, <2>2, <2>3
<1>6. CASE GatherCandidate(s)
  <2>1. o.pc = "gather" /\ o.strategy = "hybrid"
    BY <1>1, <1>6 DEF GatherCandidate
  <2>2. CASE o.matches = {}
    <3>1. PICK q : q = [o EXCEPT !.pc = "rank"]
      OBVIOUS
    <3>2. search' = [search EXCEPT ![s] = q]
      BY <1>1, <1>6, <2>2, <3>1 DEF GatherCandidate, SearchGoesTo, Becomes
    <3>3. q \in Search /\ Found(q, S) /\ (Unseen(o) => Unseen(q))
      BY <1>0, <1>2, <2>1, <3>1, CandidatesFound
    <3> QED
      BY <1>3, <3>2, <3>3
  <2>3. CASE o.matches # {}
    <3>1. PICK c \in o.matches : c = First(o.matches)
      BY <2>3, SearchFields, FirstFacts
    <3>2. PICK h : h = HitByItself(o, c)
      OBVIOUS
    <3>3. PICK r : r = IF c \in Stored THEN Append(o.candidates, h) ELSE o.candidates
      OBVIOUS
    <3>4. PICK q : TakesMatch(o, q, c, r)
      BY DEF TakesMatch
    <3>5. search' = [search EXCEPT ![s] = q]
      <4>1. Becomes(s, [o EXCEPT
              !.matches = @ \ {c},
              !.candidates =
                IF c \in Stored
                  THEN Append(@, [id |-> c, evidence |-> <<c>>,
                                  vrank |-> RankIn(o.vector, c),
                                  lrank |-> RankIn(o.lexical, c)])
                  ELSE @])
        BY <1>1, <1>6, <2>3, <3>1 DEF GatherCandidate, Becomes
      <4> QED
        BY <3>2, <3>3, <3>4, <4>1 DEF Becomes, TakesMatch, HitByItself
    <3>6. /\ r \in {o.candidates, Append(o.candidates, h)}
          /\ r = o.candidates \/ c \in Stored
      BY <3>3
    <3>7. /\ q \in Search /\ Found(q, S)
          /\ Unseen(o) /\ (r = o.candidates \/ c \notin New) => Unseen(q)
      <4>1. Found(o, S) /\ o.pc = "gather" /\ o.strategy = "hybrid"
        BY <1>0, <1>2, <2>1
      <4>2. r \in {o.candidates, Append(o.candidates, HitByItself(o, c))}
        BY <3>2, <3>6
      <4> QED
        BY <3>4, <4>1, <4>2, CandidateFound
    <3>8. ~NewStored => Unseen(q)
      BY <1>2, <3>6, <3>7
    <3> QED
      BY <1>0, <3>5, <3>7, <3>8 DEF KeepsOrder
  <2> QED
    BY <2>2, <2>3
<1> QED
  BY <1>4, <1>5, <1>6

\* What ranking leaves of a search; and the answer has the best first.
LEMMA RankKeeps ==
  ASSUME Typed, SeenInv, NEW s \in Searches, Found(search[s], Stored), Rank(s)
  PROVE  \E q : /\ KeepsOrder(s, q) /\ q.pc \in {"idle", "answered"}
                /\ BestAnswer(q)
<1>1. PICK o \in Search : o = search[s]
  BY DEF Typed
<1>2. Found(o, Stored) /\ (~NewStored => Unseen(o))
  BY <1>1 DEF SeenInv
<1>3. CASE search' = [search EXCEPT ![s] = NoSearch]
  <2>1. NoSearch.pc = "idle" /\ BestAnswer(NoSearch)
    BY NoSearchType DEF BestAnswer
  <2> QED
    BY <1>3, <2>1, NoSearchFound, NoSearchUnseen DEF KeepsOrder
<1>4. CASE search' # [search EXCEPT ![s] = NoSearch]
  <2>1. PICK p \in [DOMAIN o.candidates -> DOMAIN o.candidates], q \in Search :
              /\ IsInjective(p) /\ search' = [search EXCEPT ![s] = q]
              /\ Shows(q, q.strategy, o.candidates, p)
              /\ q.strategy # "parent_child_rerank" =>
                   /\ q.strategy = o.strategy
                   /\ \A i, j \in DOMAIN o.candidates :
                        i < j => Before(q.strategy, o.candidates, p[i], p[j])
    BY <1>1, <1>4, RankEffect DEF Typed
  <2>2. o.pc = "rank"
    BY <1>1 DEF Rank
  <2>3. Found(q, Stored) /\ (Unseen(o) => Unseen(q))
    BY <1>2, <2>1, <2>2, AnswerFound
  <2>4. q.pc = "answered"
    BY <2>1 DEF Shows
  <2>5. CASE q.strategy = "parent_child_rerank"
    <3>1. BestAnswer(q)
      BY <2>5 DEF BestAnswer
    <3> QED
      BY <1>2, <2>1, <2>3, <2>4, <3>1 DEF KeepsOrder
  <2>6. CASE q.strategy # "parent_child_rerank"
    <3>1. BestAnswer(q)
      BY <1>2, <2>1, <2>2, <2>6, AnswerBest
    <3> QED
      BY <1>2, <2>1, <2>3, <2>4, <3>1 DEF KeepsOrder
  <2> QED
    BY <2>5, <2>6
<1> QED
  BY <1>3, <1>4

-----------------------------------------------------------------------------
(* Steps of the writer: the store *)

\* The writer, as its steps leave it.
LEMMA WriterFields ==
  ASSUME writer \in Writer
  PROVE  /\ writer.kind \in {"none", "upload", "reindex", "over"}
         /\ writer.pc \in {"idle", "embed", "sign", "upsert", "label", "replace", "store",
                           "delete", "unlabel"}
         /\ writer.producer \in Embedder /\ writer.signature \in Embedder
         /\ writer.next \in 1..ChunksPerBuild /\ writer.next \in Nat
  BY Constants DEF Writer

\* The store changes only once, when the new build comes to it; until then it
\* holds the old one.
StoreStays == Stored' = Stored /\ (NewStored' <=> NewStored)
StoreTurns == Stored = Old /\ New \subseteq Stored' /\ ~NewStored /\ NewStored'

\* The writer is over, or was never there.
LEMMA NoWriterFields ==
  ASSUME NEW kind \in {"none", "over"}, NEW w, w = NoWriter(kind)
  PROVE  w \in Writer /\ w.kind = kind /\ w.pc = "idle"
  BY Constants DEF NoWriter, Writer, Embedder

\* The steps that touch no label.
LEMMA QuietWriterEffect ==
  ASSUME Typed, WriterInv,
         \/ StartReindex \/ EmbedPassages \/ SignPassages \/ UpsertChunk \/ RollBackVectors
         \/ ReplaceVectors
  PROVE  WriterInv' /\ StoreStays /\ writer' \in Writer
<1>1. rows' = rows
  BY DEF StartReindex, EmbedPassages, SignPassages, UpsertChunk, RollBackVectors, ReplaceVectors
<1>2. Stored' = Stored
  BY <1>1 DEF Stored
<1>3. writer \in Writer
  BY DEF Typed
<1>4. ASSUME NEW w \in Writer, writer' = w,
             w.kind = writer.kind \/ (writer.kind = "none" /\ w.kind = "reindex"),
             w.kind \in {"upload", "reindex"},
             w.kind = "upload" =>
               w.pc \in {"embed", "sign", "upsert", "label", "delete", "unlabel"},
             w.kind = "reindex" => w.pc \in {"embed", "sign", "replace", "store"}
      PROVE  WriterInv' /\ StoreStays /\ writer' \in Writer
  <2>1. NewStored' <=> NewStored
    BY <1>4 DEF NewStored
  <2>2. writer.kind # "over"
    BY <1>4
  <2> QED
    BY <1>2, <1>4, <2>1, <2>2 DEF WriterInv, StoreStays
<1>5. CASE StartReindex
  <2>1. PICK w : w = [writer EXCEPT !.kind = "reindex", !.pc = "embed"]
    OBVIOUS
  <2>2. w \in Writer /\ w.kind = "reindex" /\ w.pc = "embed"
    BY <1>3, <2>1 DEF Writer
  <2> QED
    BY <1>4, <1>5, <2>1, <2>2 DEF StartReindex
<1>6. CASE EmbedPassages
  <2>1. PICK e \in Embedder : writer' = [writer EXCEPT !.pc = "sign", !.producer = e]
    BY <1>6 DEF EmbedPassages
  <2>2. PICK w : w = [writer EXCEPT !.pc = "sign", !.producer = e]
    OBVIOUS
  <2>3. w \in Writer /\ w.kind = writer.kind /\ w.pc = "sign"
    BY <1>3, <2>2 DEF Writer
  <2>4. writer.kind \in {"upload", "reindex"}
    BY <1>3, <1>6, WriterFields DEF WriterInv, EmbedPassages
  <2> QED
    BY <1>4, <2>1, <2>2, <2>3, <2>4
<1>7. CASE SignPassages
  <2>1. PICK pc : pc = IF writer.kind = "upload" THEN "upsert" ELSE "replace"
    OBVIOUS
  <2>2. PICK w : w = [writer EXCEPT !.pc = pc, !.signature = last]
    OBVIOUS
  <2>3. writer' = w
    BY <1>7, <2>1, <2>2 DEF SignPassages
  <2>4. w \in Writer /\ w.kind = writer.kind /\ w.pc = pc
    BY <1>3, <2>1, <2>2 DEF Writer, Typed
  <2>5. writer.kind \in {"upload", "reindex"}
    BY <1>3, <1>7, WriterFields DEF WriterInv, SignPassages
  <2> QED
    BY <1>4, <2>1, <2>3, <2>4, <2>5
<1>8. CASE UpsertChunk
  <2>1. PICK pc \in {"label", "delete"} : writer' = [writer EXCEPT !.pc = pc]
    BY <1>8 DEF UpsertChunk, WriterGoesTo
  <2>2. PICK w : w = [writer EXCEPT !.pc = pc]
    OBVIOUS
  <2>3. w \in Writer /\ w.kind = writer.kind /\ w.pc = pc
    BY <1>3, <2>1, <2>2 DEF Writer
  <2>4. writer.kind = "upload"
    BY <1>3, <1>8, WriterFields DEF WriterInv, UpsertChunk
  <2> QED
    BY <1>4, <2>1, <2>2, <2>3, <2>4
<1>9. CASE RollBackVectors
  <2>0. 1 \in 1..ChunksPerBuild
    BY Constants
  <2>1. PICK n \in 1..ChunksPerBuild : n = 1
    BY <2>0
  <2>2. PICK w : w = [writer EXCEPT !.pc = "unlabel", !.next = n]
    OBVIOUS
  <2>3. w \in Writer /\ w.kind = writer.kind /\ w.pc = "unlabel"
    BY <1>3, <2>2 DEF Writer
  <2>4. writer.kind = "upload"
    BY <1>3, <1>9, WriterFields DEF WriterInv, RollBackVectors
  <2>5. writer' = w
    BY <1>9, <2>1, <2>2 DEF RollBackVectors
  <2> QED
    BY <1>4, <1>9, <2>3, <2>4, <2>5
<1>10. CASE ReplaceVectors
  <2>1. PICK w : w = [writer EXCEPT !.pc = "store"]
    OBVIOUS
  <2>2. w \in Writer /\ w.kind = writer.kind /\ w.pc = "store"
    BY <1>3, <2>1 DEF Writer
  <2>3. writer.kind = "reindex"
    BY <1>3, <1>10, WriterFields DEF WriterInv, ReplaceVectors
  <2> QED
    BY <1>4, <1>10, <2>1, <2>2, <2>3 DEF ReplaceVectors, WriterGoesTo
<1> QED
  BY <1>5, <1>6, <1>7, <1>8, <1>9, <1>10

\* Until the new build is there the store holds the old one.
LEMMA StoredIsOld ==
  ASSUME WriterInv, ~NewStored
  PROVE  Stored = Old
<1>1. Old \subseteq Stored /\ \A c \in New : c \notin Stored
  BY DEF WriterInv, NewStored
<1>2. Stored \subseteq Chunk /\ Chunk = Old \cup New
  BY StoredType, TwoBuilds
<1> QED
  BY <1>1, <1>2

\* The steps that write chunks or labels.
LEMMA LabelWriterEffect ==
  ASSUME Typed, WriterInv,
         StartUpload \/ LabelChunk \/ UnlabelChunk \/ StoreChunks
  PROVE  WriterInv' /\ (StoreStays \/ StoreTurns) /\ writer' \in Writer
         /\ rows' \in [Chunk -> Embedder \cup {"none", "absent"}]
<1>1. writer \in Writer /\ rows \in [Chunk -> Embedder \cup {"none", "absent"}]
  BY DEF Typed
<1>2. writer.signature \in Embedder /\ "absent" \notin Embedder /\ "none" # "absent"
  BY <1>1, WriterFields DEF Embedder
<1>3. CASE StartUpload
  <2>1. PICK w : w = [writer EXCEPT !.kind = "upload", !.pc = "embed"]
    OBVIOUS
  <2>2. w \in Writer /\ w.kind = "upload" /\ w.pc = "embed" /\ writer' = w
    BY <1>1, <1>3, <2>1 DEF Writer, StartUpload
  <2>3. /\ rows' = [c \in Chunk |-> IF c.build = 2 THEN "none" ELSE rows[c]]
        /\ writer.kind = "none"
    BY <1>3 DEF StartUpload
  <2>4. rows' \in [Chunk -> Embedder \cup {"none", "absent"}]
    BY <1>1, <2>3
  <2>5. ~NewStored /\ NewStored'
    BY <2>2, <2>3 DEF NewStored
  <2>6. Stored = Old
    BY <2>5, StoredIsOld
  <2>7. Stored' = Old \cup New
    BY <1>2, <2>3, <2>6, TwoBuilds DEF Stored
  <2>8. WriterInv'
    BY <2>2, <2>5, <2>7 DEF WriterInv
  <2> QED
    BY <2>2, <2>4, <2>5, <2>6, <2>7, <2>8 DEF StoreTurns
<1>4. CASE LabelChunk \/ UnlabelChunk
  <2>1. PICK l \in Embedder \cup {"none"} : rows' = [rows EXCEPT ![NextChunk] = l]
    BY <1>2, <1>4 DEF LabelChunk, UnlabelChunk
  <2>2. writer.kind = "upload"
    BY <1>1, <1>4, WriterFields DEF WriterInv, LabelChunk, UnlabelChunk
  <2>3. NextChunk \in New /\ NextChunk \in Chunk
    BY <1>1, NextChunkIsNew
  <2>4. NewStored /\ NextChunk \in Stored
    BY <2>2, <2>3 DEF WriterInv, NewStored
  <2>5. Stored' = Stored
    BY <1>1, <1>2, <2>1, <2>3, <2>4 DEF Stored
  <2>6. rows' \in [Chunk -> Embedder \cup {"none", "absent"}]
    BY <1>1, <2>1
  <2>7. CASE writer.next = ChunksPerBuild
    <3>1. PICK w : w = NoWriter("over")
      OBVIOUS
    <3>2. writer' = w /\ w \in Writer /\ w.kind = "over" /\ w.pc = "idle"
      BY <1>4, <2>7, <3>1, NoWriterFields DEF LabelChunk, UnlabelChunk, WriterEnds
    <3>3. NewStored'
      BY <3>2 DEF NewStored
    <3>4. WriterInv'
      BY <2>4, <2>5, <3>2, <3>3 DEF WriterInv
    <3> QED
      BY <2>4, <2>5, <2>6, <3>2, <3>3, <3>4 DEF StoreStays
  <2>8. CASE writer.next # ChunksPerBuild
    <3>1. writer.next + 1 \in 1..ChunksPerBuild
      BY <1>1, <2>8, WriterFields, Constants
    <3>2. PICK n \in 1..ChunksPerBuild : n = writer.next + 1
      BY <3>1
    <3>3. PICK pc \in {"upsert", "unlabel"} :
            pc = IF LabelChunk THEN "upsert" ELSE "unlabel"
      OBVIOUS
    <3>4. PICK w : w = [writer EXCEPT !.pc = pc, !.next = n]
      OBVIOUS
    <3>5. w \in Writer /\ w.kind = "upload" /\ w.pc = pc
      BY <1>1, <2>2, <3>4 DEF Writer
    <3>6. writer' = w
      <4>1. CASE LabelChunk
        BY <2>8, <3>2, <3>3, <3>4, <4>1 DEF LabelChunk
      <4>2. CASE ~LabelChunk
        <5>1. UnlabelChunk /\ writer.pc = "unlabel"
          BY <1>4, <4>2 DEF UnlabelChunk
        <5>2. writer' = [writer EXCEPT !.next = n]
          BY <2>8, <3>2, <5>1 DEF UnlabelChunk
        <5>3. w = [writer EXCEPT !.next = n]
          BY <1>1, <3>3, <3>4, <4>2, <5>1 DEF Writer
        <5> QED
          BY <5>2, <5>3
      <4> QED
        BY <4>1, <4>2
    <3>7. NewStored'
      BY <3>5, <3>6 DEF NewStored
    <3>8. WriterInv'
      BY <2>2, <2>4, <2>5, <3>5, <3>6, <3>7 DEF WriterInv
    <3> QED
      BY <2>4, <2>5, <2>6, <3>5, <3>6, <3>7, <3>8 DEF StoreStays
  <2> QED
    BY <2>7, <2>8
<1>5. CASE StoreChunks
  <2>1. PICK w : w = NoWriter("over")
    OBVIOUS
  <2>2. writer' = w /\ w \in Writer /\ w.kind = "over" /\ w.pc = "idle"
    BY <1>5, <2>1, NoWriterFields DEF StoreChunks, WriterEnds
  <2>3. rows' = [c \in Chunk |-> IF c.build = 2 THEN writer.signature ELSE "absent"]
    BY <1>5 DEF StoreChunks
  <2>4. rows' \in [Chunk -> Embedder \cup {"none", "absent"}]
    BY <1>2, <2>3
  <2>5. writer.kind = "reindex"
    BY <1>1, <1>5, WriterFields DEF WriterInv, StoreChunks
  <2>6. ~NewStored /\ NewStored'
    BY <2>2, <2>5 DEF NewStored
  <2>7. Stored = Old
    BY <2>6, StoredIsOld
  <2>8. Stored' = New
    BY <1>2, <2>3, TwoBuilds DEF Stored
  <2>9. WriterInv'
    BY <2>2, <2>6, <2>8, TwoBuilds DEF WriterInv
  <2> QED
    BY <2>2, <2>4, <2>6, <2>7, <2>8, <2>9 DEF StoreTurns
<1> QED
  BY <1>3, <1>4, <1>5

\* What a search has found stays true while the store changes: old chunks
\* only leave it, and new ones are not found before they come.
LEMMA StoreChanges ==
  ASSUME NEW q \in Search, NEW S, NEW T, Found(q, S),
         T \cap Old \subseteq S, T \subseteq S \/ Unseen(q)
  PROVE  Found(q, T)
<1>1. ASSUME NEW i \in DOMAIN q.candidates, NEW c \in ToSet(q.candidates[i].evidence), c \in T
      PROVE  c \in S
  <2>1. c \in Chunk
    BY <1>1, HitFields
  <2>2. CASE Unseen(q)
    <3>1. c \notin New
      BY <1>1, <2>2 DEF Unseen
    <3> QED
      BY <1>1, <2>1, <3>1, TwoBuilds
  <2> QED
    BY <1>1, <2>2
<1>2. HitInv(q, T)
  BY <1>1 DEF Found, HitInv
<1>3. ASSUME NEW i \in DOMAIN q.candidates, q.candidates[i].id \in Chunk
      PROVE  T \subseteq S \/ q.candidates[i].id \in Old
  <2>1. PICK a : a = q.candidates[i]
    OBVIOUS
  <2>2. a.evidence \in Seq(Chunk) /\ ToSet(a.evidence) \in SUBSET Chunk /\ Len(a.evidence) >= 1
    BY <2>1, HitFields DEF Found, HitInv
  <2>3. PICK c \in ToSet(a.evidence) : TRUE
    <3>1. a.evidence[1] \in ToSet(a.evidence)
      BY <2>2 DEF ToSet
    <3> QED
      BY <3>1
  <2>4. a.id \in {c, ParentOf(c)} /\ c \in Chunk
    BY <2>1, <2>2, <2>3 DEF Found, HitInv
  <2>5. a.id = c
    BY <1>3, <2>1, <2>4, ParentFacts
  <2>6. Unseen(q) => c \notin New
    BY <2>1, <2>3 DEF Unseen
  <2> QED
    BY <2>1, <2>4, <2>5, <2>6, TwoBuilds
<1>4. ParentHits(q, T)
  <2>1. SUFFICES ASSUME q.strategy # "hybrid", q.pc \in Gathering,
                        NEW i \in DOMAIN q.candidates, q.candidates[i].id \in Chunk,
                        q.candidates[i].id.build \in Nested
                 PROVE  ChunksOf(q.candidates[i].id.build) \cap T = {}
    BY DEF Found, ParentHits
  <2>2. ChunksOf(q.candidates[i].id.build) \cap S = {}
    BY <2>1 DEF Found, ParentHits
  <2>3. CASE T \subseteq S
    BY <2>2, <2>3
  <2>4. CASE q.candidates[i].id \in Old
    <3>1. q.candidates[i].id.build = 1
      BY <2>4, TwoBuilds
    <3>2. ChunksOf(q.candidates[i].id.build) = Old
      BY <3>1 DEF Old
    <3> QED
      BY <2>2, <3>2
  <2> QED
    BY <1>3, <2>1, <2>3, <2>4
<1> QED
  BY <1>2, <1>4 DEF Found

\* The writer keeps what searches have found and what they have not seen.
LEMMA WriterKeeps ==
  ASSUME Typed, WriterInv, SeenInv, FoundInv, WriterStep
  PROVE  /\ WriterInv' /\ SeenInv' /\ FoundInv' /\ (StoreStays \/ StoreTurns)
         /\ writer' \in Writer /\ rows' \in [Chunk -> Embedder \cup {"none", "absent"}]
         /\ search' = search /\ index' = index /\ fingerprint' = fingerprint
         /\ raced' = raced
<1>1. /\ search' = search /\ index' = index /\ fingerprint' = fingerprint
      /\ raced' = raced
  BY DEF WriterStep, StartUpload, StartReindex, EmbedPassages, SignPassages, UpsertChunk,
         LabelChunk, RollBackVectors, UnlabelChunk, ReplaceVectors, StoreChunks
<1>2. /\ WriterInv' /\ (StoreStays \/ StoreTurns)
      /\ writer' \in Writer /\ rows' \in [Chunk -> Embedder \cup {"none", "absent"}]
  <2>1. CASE StartUpload \/ LabelChunk \/ UnlabelChunk \/ StoreChunks
    BY <2>1, LabelWriterEffect
  <2>2. CASE \/ StartReindex \/ EmbedPassages \/ SignPassages \/ UpsertChunk
             \/ RollBackVectors \/ ReplaceVectors
    <3>1. WriterInv' /\ StoreStays /\ writer' \in Writer
      BY <2>2, QuietWriterEffect
    <3>2. rows' = rows
      BY <2>2 DEF StartReindex, EmbedPassages, SignPassages, UpsertChunk, RollBackVectors,
                  ReplaceVectors
    <3> QED
      BY <3>1, <3>2 DEF Typed
  <2> QED
    BY <2>1, <2>2 DEF WriterStep
<1>3. SeenInv'
  <2>1. ~NewStored' => ~NewStored
    BY <1>2 DEF StoreStays, StoreTurns
  <2>2. ASSUME ~NewStored, NEW s \in Searches PROVE Unseen(search[s])'
    BY <1>1, <2>2 DEF SeenInv, Unseen
  <2> QED
    BY <1>1, <2>1, <2>2 DEF SeenInv
<1>4. ASSUME NEW s \in Searches PROVE Found(search[s], Stored)'
  <2>1. search[s] \in Search /\ Found(search[s], Stored)
    BY DEF Typed, FoundInv
  <2>2. PICK T : T = Stored'
    OBVIOUS
  <2>3. Found(search[s], T)
    <3>1. CASE StoreStays
      BY <2>1, <2>2, <3>1 DEF StoreStays
    <3>2. CASE StoreTurns
      <4>1. Stored = Old /\ Unseen(search[s])
        BY <3>2 DEF StoreTurns, SeenInv
      <4> QED
        BY <2>1, <4>1, StoreChanges
    <3> QED
      BY <1>2, <3>1, <3>2
  <2>4. Found(search'[s], T)
    BY <1>1, <2>3
  <2> QED
    BY <2>2, <2>4
<1> QED
  BY <1>1, <1>2, <1>3, <1>4 DEF FoundInv

-----------------------------------------------------------------------------
(* Steps of a search: what it shares *)

\* A step of a search changes neither the store nor its points.
LEMMA SearchLeaves ==
  ASSUME NEW s \in Searches,
         StartSearch(s, "parent_child") \/ StartSearch(s, "hybrid") \/ SearchStep(s)
  PROVE  rows' = rows /\ vectors' = vectors /\ writer' = writer
  BY DEF StartSearch, SearchStep, EmbedQuery, SignQuery, MatchVectors, FilterMatch,
         FilteredAll, ListChunks, BuildIndex, MarkIndex, FindWords, GatherSignal,
         FindParent, GatherCandidate, Rank

\* Where a search goes after its last match.
LEMMA FilteredGoesTo ==
  ASSUME Typed, NEW s \in Searches, FilteredAll(s)
  PROVE  search'[s].pc \in {"gather", "list"}
<1>1. PICK o \in Search : o = search[s]
  BY DEF Typed
<1>2. DOMAIN search = Searches
  BY DEF Typed
<1>3. CASE o.strategy = "hybrid"
  <2>1. PICK m, q : search' = [search EXCEPT ![s] = [o EXCEPT
                      !.pc = "gather", !.lexical = q, !.chunks = {}, !.matches = m]]
    BY <1>1, <1>3 DEF FilteredAll, Becomes
  <2>2. [o EXCEPT !.pc = "gather", !.lexical = q, !.chunks = {}, !.matches = m].pc
          = "gather"
    BY DEF Search
  <2> QED
    BY <1>2, <2>1, <2>2
<1>4. CASE o.strategy # "hybrid"
  <2>1. search' = [search EXCEPT ![s] = [o EXCEPT
                    !.pc = "list", !.producer = "primary", !.signature = "primary"]]
    BY <1>1, <1>4 DEF FilteredAll, Becomes
  <2>2. [o EXCEPT !.pc = "list", !.producer = "primary", !.signature = "primary"].pc
          = "list"
    BY DEF Search
  <2> QED
    BY <1>2, <2>1, <2>2
<1> QED
  BY <1>3, <1>4

\* Where a search goes from its list of matches.
LEMMA FilterGoesTo ==
  ASSUME Typed, NEW s \in Searches,
         MatchVectors(s) \/ FilterMatch(s) \/ FilteredAll(s)
  PROVE  search'[s].pc \in {"filter", "gather", "list"}
<1>1. PICK o \in Search : o = search[s]
  BY DEF Typed
<1>2. DOMAIN search = Searches
  BY DEF Typed
<1>3. CASE MatchVectors(s)
  <2>1. PICK S : search' = [search EXCEPT ![s] = [o EXCEPT !.pc = "filter", !.matches = S]]
    BY <1>1, <1>3 DEF MatchVectors, Becomes
  <2>2. [o EXCEPT !.pc = "filter", !.matches = S].pc = "filter"
    BY DEF Search
  <2> QED
    BY <1>2, <2>1, <2>2
<1>4. CASE FilterMatch(s)
  <2>1. PICK c \in o.matches :
          search' = [search EXCEPT ![s] = [o EXCEPT
            !.matches = @ \ {c},
            !.vector = IF c \in Stored /\ IsCompatible(rows[c], o.signature)
                         THEN Append(@, c) ELSE @]]
    BY <1>1, <1>4, Zenon DEF FilterMatch, Becomes
  <2>2. PICK m, v : search' = [search EXCEPT ![s] = [o EXCEPT !.matches = m, !.vector = v]]
    BY <2>1
  <2>3. [o EXCEPT !.matches = m, !.vector = v].pc = o.pc
    BY DEF Search
  <2>4. o.pc = "filter"
    BY <1>1, <1>4 DEF FilterMatch
  <2> QED
    BY <1>2, <2>2, <2>3, <2>4
<1>5. CASE FilteredAll(s)
  BY <1>5, FilteredGoesTo
<1> QED
  BY <1>3, <1>4, <1>5

\* Only a ranking answers.
LEMMA AnswersOnce ==
  ASSUME Typed, NEW s \in Searches, search[s].pc # "rank",
         StartSearch(s, "parent_child") \/ StartSearch(s, "hybrid") \/ SearchStep(s)
  PROVE  search'[s].pc # "answered"
<1>1. PICK o \in Search : o = search[s]
  BY DEF Typed
<1>2. NoSearch \in Search /\ NoSearch.pc = "idle"
  BY NoSearchType
<1>3. DOMAIN search = Searches
  BY DEF Typed
<1>4. ASSUME Forget(s) PROVE search'[s].pc # "answered"
  <2>1. search'[s] = NoSearch
    BY <1>3, <1>4 DEF Forget, Becomes
  <2> QED
    BY <1>2, <2>1
<1>5. ASSUME NEW pc \in {"rank", "parent", "find", "mark"}, SearchGoesTo(s, pc)
      PROVE search'[s].pc # "answered"
  <2>1. search'[s] = [o EXCEPT !.pc = pc]
    BY <1>1, <1>3, <1>5 DEF SearchGoesTo, Becomes
  <2>2. [o EXCEPT !.pc = pc].pc = pc
    BY DEF Search
  <2> QED
    BY <1>5, <2>1, <2>2
<1>6. CASE StartSearch(s, "parent_child") \/ StartSearch(s, "hybrid")
  <2>1. PICK q : KeepsOrder(s, q) /\ q.pc \in {"list", "embed"}
    BY <1>6, StartKeeps
  <2> QED
    BY <1>3, <2>1 DEF KeepsOrder
<1>7. CASE EmbedQuery(s) \/ SignQuery(s)
  BY <1>1, <1>3, <1>4, <1>7 DEF EmbedQuery, SignQuery, Becomes, Search
<1>8. CASE MatchVectors(s) \/ FilterMatch(s) \/ FilteredAll(s)
  BY <1>8, FilterGoesTo
<1>9. CASE ListChunks(s) \/ BuildIndex(s) \/ MarkIndex(s)
  BY <1>1, <1>3, <1>5, <1>9 DEF ListChunks, BuildIndex, MarkIndex, Becomes, Search
<1>10. CASE FindWords(s) \/ GatherSignal(s)
  BY <1>1, <1>3, <1>4, <1>5, <1>10 DEF FindWords, GatherSignal, Becomes, Search
<1>11. CASE FindParent(s) \/ GatherCandidate(s)
  BY <1>1, <1>3, <1>5, <1>11 DEF FindParent, GatherCandidate, Becomes, Search
<1> QED
  BY <1>1, <1>6, <1>7, <1>8, <1>9, <1>10, <1>11 DEF SearchStep, Rank

\* A step of a search keeps what searches have found and have not seen; an
\* answer has the best first.
LEMMA SearchKeeps ==
  ASSUME Typed, WriterInv, SeenInv, FoundInv, AnswerInv, NEW s \in Searches,
         StartSearch(s, "parent_child") \/ StartSearch(s, "hybrid") \/ SearchStep(s)
  PROVE  /\ WriterInv' /\ FoundInv' /\ AnswerInv'
         /\ \A t \in Searches : ~NewStored' => Unseen(search[t])'
         /\ search' \in [Searches -> Search] /\ Stored' = Stored /\ (NewStored' <=> NewStored)
<1>1. /\ rows' = rows /\ vectors' = vectors /\ writer' = writer
      /\ Stored' = Stored /\ (NewStored' <=> NewStored)
  BY SearchLeaves DEF Stored, NewStored
<1>2. WriterInv'
  BY <1>1 DEF WriterInv
<1>3. PICK q : /\ KeepsOrder(s, q)
               /\ BestAnswer(q)
  <2>1. Found(search[s], Stored)
    BY DEF FoundInv
  <2>2. CASE Rank(s)
    BY <2>1, <2>2, RankKeeps
  <2>3. CASE ~Rank(s)
    <3>1. PICK q : KeepsOrder(s, q)
      <4>1. CASE StartSearch(s, "parent_child") \/ StartSearch(s, "hybrid")
        BY <4>1, StartKeeps
      <4>2. CASE \/ EmbedQuery(s) \/ SignQuery(s) \/ ListChunks(s) \/ BuildIndex(s)
                 \/ MarkIndex(s)
        BY <2>1, <4>2, EarlyStepKeeps
      <4>3. CASE MatchVectors(s) \/ FilterMatch(s) \/ FilteredAll(s) \/ FindWords(s)
        BY <2>1, <4>3, ListStepKeeps
      <4>4. CASE GatherSignal(s) \/ FindParent(s) \/ GatherCandidate(s)
        BY <2>1, <4>4, GatherStepKeeps
      <4> QED
        BY <2>3, <4>1, <4>2, <4>3, <4>4 DEF SearchStep
    <3>2. search'[s] = q
      BY <3>1 DEF KeepsOrder, Typed
    <3>3. search[s].pc = "rank" => StartSearch(s, "parent_child") \/ StartSearch(s, "hybrid")
                                   \/ Rank(s)
      BY DEF SearchStep, EmbedQuery, SignQuery, MatchVectors, FilterMatch, FilteredAll,
             ListChunks, BuildIndex, MarkIndex, FindWords, GatherSignal, FindParent,
             GatherCandidate
    <3>4. search[s].pc # "rank"
      BY <2>3, <3>3 DEF StartSearch
    <3>5. q.pc # "answered"
      BY <3>2, <3>4, AnswersOnce
    <3> QED
      BY <3>1, <3>5 DEF BestAnswer
  <2> QED
    BY <2>2, <2>3
<1>4. /\ search' = [search EXCEPT ![s] = q] /\ q \in Search /\ Found(q, Stored)
      /\ ~NewStored => Unseen(q)
  BY <1>3 DEF KeepsOrder
<1>5. /\ search' \in [Searches -> Search] /\ search'[s] = q
      /\ \A t \in Searches : t # s => search'[t] = search[t]
  BY <1>4 DEF Typed
<1>6. ASSUME NEW t \in Searches
      PROVE  /\ Found(search'[t], Stored) /\ (~NewStored => Unseen(search'[t]))
             /\ BestAnswer(search'[t])
  <2>1. CASE t = s
    BY <1>3, <1>4, <1>5, <2>1
  <2>2. CASE t # s
    BY <1>5, <2>2 DEF FoundInv, SeenInv, AnswerInv
  <2> QED
    BY <2>1, <2>2
<1>7. \A t \in Searches : ~NewStored' => Unseen(search[t])'
  BY <1>1, <1>6
<1>8. FoundInv'
  BY <1>1, <1>6 DEF FoundInv
<1>9. AnswerInv'
  BY <1>6 DEF AnswerInv
<1> QED
  BY <1>1, <1>2, <1>5, <1>7, <1>8, <1>9

\* What a step of a search does to what the searches share.
LEMMA SearchShares ==
  ASSUME Typed, WriterInv, SeenInv, NEW s \in Searches,
         StartSearch(s, "parent_child") \/ StartSearch(s, "hybrid") \/ SearchStep(s)
  PROVE  /\ last' \in Embedder /\ mixed' \in BOOLEAN /\ raced' \in BOOLEAN
         /\ index' \in SUBSET Chunk /\ fingerprint' \in SUBSET Chunk
         /\ ~NewStored => index' \cap New = {} /\ fingerprint' \cap New = {}
         /\ mixed => mixed'
         /\ raced => raced'
<1>1. /\ search[s].chunks \in SUBSET Chunk
      /\ ~NewStored => /\ search[s].chunks \cap New = {} /\ index \cap New = {}
                       /\ fingerprint \cap New = {}
  BY DEF SeenInv, Unseen, Typed, Search
<1>2. CASE EmbedQuery(s)
  BY <1>1, <1>2 DEF EmbedQuery, Embeds, Typed
<1>3. CASE BuildIndex(s)
  BY <1>1, <1>3 DEF BuildIndex, Typed
<1>4. CASE MarkIndex(s)
  BY <1>1, <1>4 DEF MarkIndex, Typed
<1>5. CASE \/ StartSearch(s, "parent_child") \/ StartSearch(s, "hybrid") \/ SignQuery(s)
           \/ MatchVectors(s) \/ FilterMatch(s) \/ FilteredAll(s) \/ ListChunks(s)
           \/ FindWords(s) \/ GatherSignal(s) \/ FindParent(s) \/ GatherCandidate(s)
           \/ Rank(s)
  <2>1. UNCHANGED <<last, index, fingerprint, mixed, raced>>
    BY <1>5 DEF StartSearch, SignQuery, MatchVectors, FilterMatch, FilteredAll, ListChunks,
                FindWords, GatherSignal, FindParent, GatherCandidate, Rank
  <2> QED
    BY <1>1, <2>1 DEF Typed
<1> QED
  BY <1>2, <1>3, <1>4, <1>5 DEF SearchStep

\* The same of a step of the writer.
LEMMA WriterShares ==
  ASSUME Typed, WriterStep
  PROVE  /\ vectors' \in [Chunk -> Embedder \cup {"absent"}]
         /\ last' \in Embedder /\ mixed' \in BOOLEAN /\ (mixed => mixed')
<1>1. writer.producer \in Embedder /\ "absent" \notin Embedder
  BY WriterFields DEF Typed, Embedder
<1>2. CASE UpsertChunk \/ RollBackVectors \/ ReplaceVectors
  <2>1. last' = last /\ mixed' = mixed
    BY <1>2 DEF UpsertChunk, RollBackVectors, ReplaceVectors
  <2>2. vectors' \in [Chunk -> Embedder \cup {"absent"}]
    BY <1>1, <1>2 DEF UpsertChunk, RollBackVectors, ReplaceVectors, Typed
  <2> QED
    BY <2>1, <2>2 DEF Typed
<1>3. CASE EmbedPassages
  BY <1>3 DEF EmbedPassages, Embeds, Typed
<1>4. CASE \/ StartUpload \/ StartReindex \/ SignPassages \/ LabelChunk \/ UnlabelChunk
           \/ StoreChunks
  <2>1. UNCHANGED <<vectors, last, mixed>>
    BY <1>4 DEF StartUpload, StartReindex, SignPassages, LabelChunk, UnlabelChunk, StoreChunks
  <2> QED
    BY <2>1 DEF Typed
<1> QED
  BY <1>2, <1>3, <1>4 DEF WriterStep

-----------------------------------------------------------------------------
(* The index *)

\* The store is never empty.
LEMMA StoreHasChunks ==
  ASSUME WriterInv
  PROVE  Stored # {}
<1>1. Old \subseteq Stored \/ New \subseteq Stored
  BY DEF WriterInv, NewStored
<1> QED
  BY <1>1, TwoBuilds

\* The writer changes the store under the index: no memory is of the new one.
LEMMA WriterKeepsIndex ==
  ASSUME IndexInv, StoreStays \/ StoreTurns, search' = search, index' = index,
         fingerprint' = fingerprint, raced' = raced
  PROVE  IndexInv'
<1>1. CASE StoreStays
  BY <1>1 DEF IndexInv, StoreStays, ReadFromStore
<1>2. CASE StoreTurns
  <2>1. Stored = Old /\ Stored' # {} /\ Stored' # Old
    BY <1>2, TwoBuilds DEF StoreTurns
  <2>2. ASSUME NEW S, ReadFromStore(S) PROVE ReadFromStore(S)' /\ S # Stored'
    BY <2>1, <2>2 DEF ReadFromStore
  <2>3. /\ ReadFromStore(index') /\ ReadFromStore(fingerprint')
        /\ fingerprint' # Stored'
        /\ \A s \in Searches : search'[s].pc \in InIndex =>
             ReadFromStore(search'[s].chunks) /\ search'[s].chunks # {}
             /\ search'[s].chunks # Stored'
    BY <2>2 DEF IndexInv
  <2>4. /\ ReadFromStore(index)' /\ ReadFromStore(fingerprint)'
        /\ \A s \in Searches : search'[s].pc \in InIndex =>
             ReadFromStore(search[s].chunks)' /\ search'[s].chunks # {}
    BY <2>1, <2>3 DEF ReadFromStore
  <2> QED
    BY <2>3, <2>4 DEF IndexInv, InIndex
<1> QED
  BY <1>1, <1>2

\* A step of a search that is in the index neither before nor after, or leaves it.
LEMMA OtherStepKeepsIndex ==
  ASSUME IndexInv, NEW s \in Searches, Stored' = Stored,
         \A t \in Searches : t # s => search'[t] = search[t],
         search[s].pc # "mark", search'[s].pc \notin InIndex,
         index' = index, fingerprint' = fingerprint, raced' = raced
  PROVE  IndexInv'
<1>1. ReadFromStore(index)' /\ ReadFromStore(fingerprint)'
  BY DEF IndexInv, ReadFromStore
<1>2. ASSUME NEW t \in Searches, search'[t].pc \in InIndex
      PROVE  /\ t # s /\ search'[t] = search[t]
             /\ ReadFromStore(search[t].chunks)' /\ search'[t].chunks # {}
  BY <1>2 DEF IndexInv, ReadFromStore
<1>3. \A t \in Searches : search'[t].pc = "mark" <=> search[t].pc = "mark"
  BY DEF InIndex
<1>4. \A t \in Searches : search'[t].pc \in InIndex => search'[t] = search[t]
  BY <1>2
<1> QED
  BY <1>1, <1>2, <1>3, <1>4 DEF IndexInv, InIndex

\* _get_bm25_index itself.
LEMMA IndexStepKeepsIndex ==
  ASSUME Typed, WriterInv, IndexInv, NEW s \in Searches,
         search[s].strategy = "hybrid" => search[s].pc \notin InIndex,
         ListChunks(s) \/ BuildIndex(s) \/ MarkIndex(s)
  PROVE  IndexInv'
<1>1. PICK o \in Search : o = search[s]
  BY DEF Typed
<1>2. Stored' = Stored
  BY DEF ListChunks, BuildIndex, MarkIndex, Stored
<1>3. \A t \in Searches : t # s => search'[t] = search[t]
  BY DEF ListChunks, BuildIndex, MarkIndex, SearchGoesTo, Becomes, Typed
<1>4. Stored \in SUBSET Chunk /\ Stored # {}
  BY StoredType, StoreHasChunks
<1>5. ASSUME NEW S PROVE ReadFromStore(S)' <=> ReadFromStore(S)
  BY <1>2 DEF ReadFromStore
<1>6. CASE ListChunks(s)
  <2>1. index' = index /\ fingerprint' = fingerprint /\ raced' = raced /\ o.pc = "list"
    BY <1>1, <1>6 DEF ListChunks
  <2>2. CASE o.strategy = "hybrid"
    <3>1. search'[s].pc = "embed"
      BY <1>1, <1>6, <2>2 DEF ListChunks, Becomes, Typed, Search
    <3> QED
      BY <1>1, <1>2, <1>3, <2>1, <3>1, OtherStepKeepsIndex DEF InIndex
  <2>3. CASE o.strategy # "hybrid"
    <3>1. search'[s].pc = "build" /\ search'[s].chunks = Stored
      BY <1>1, <1>4, <1>6, <2>3 DEF ListChunks, Becomes, Typed, Search
    <3>2. ReadFromStore(Stored)
      BY DEF ReadFromStore
    <3>3. \A t \in Searches : search'[t].pc = "mark" <=> search[t].pc = "mark"
      BY <1>1, <1>3, <2>1, <3>1
    <3>4. /\ ReadFromStore(index)' /\ ReadFromStore(fingerprint)'
          /\ \A t \in Searches : search'[t].pc \in InIndex =>
               ReadFromStore(search[t].chunks)' /\ search'[t].chunks # {}
      BY <1>2, <1>3, <1>4, <2>1, <3>1 DEF IndexInv, ReadFromStore
    <3>5. \A t \in Searches : t = s \/ search'[t] = search[t]
      BY <1>3
    <3> QED
      BY <1>1, <1>2, <2>1, <3>1, <3>3, <3>4, <3>5 DEF IndexInv
  <2> QED
    BY <2>2, <2>3
<1>7. CASE BuildIndex(s)
  <2>1. fingerprint' = fingerprint /\ o.pc = "build" /\ o.chunks \in SUBSET Chunk
    BY <1>1, <1>7 DEF BuildIndex, Search
  <2>2. CASE fingerprint = o.chunks
    <3>1. search'[s].pc = "find" /\ search'[s].chunks = o.chunks
          /\ index' = index /\ raced' = raced
      BY <1>1, <1>7, <2>2 DEF BuildIndex, IsFresh, SearchGoesTo, Becomes, Typed, Search
    <3>2. \A t \in Searches : search'[t].pc = "mark" <=> search[t].pc = "mark"
      BY <1>1, <1>3, <2>1, <3>1
    <3>3. /\ ReadFromStore(index)' /\ ReadFromStore(fingerprint)'
          /\ \A t \in Searches : search'[t].pc \in InIndex =>
               ReadFromStore(search[t].chunks)' /\ search'[t].chunks # {}
      BY <1>1, <1>2, <1>3, <2>1, <3>1 DEF IndexInv, ReadFromStore, InIndex
    <3>4. ~raced => \A t \in Searches : search[t].pc # "mark"
      BY <1>1, <2>1, <2>2 DEF IndexInv
    <3>5. ~raced => index = o.chunks
      BY <2>2, <3>4 DEF IndexInv
    <3>6. \A t \in Searches : t = s \/ search'[t] = search[t]
      BY <1>3
    <3> QED
      BY <1>2, <2>1, <3>1, <3>2, <3>3, <3>4, <3>5, <3>6 DEF IndexInv
  <2>3. CASE fingerprint # o.chunks
    <3>1. /\ search'[s].pc = "mark" /\ search'[s].chunks = o.chunks /\ index' = o.chunks
          /\ raced' = (raced \/ \E t \in Searches \ {s} :
                                   search[t].pc \in {"build", "mark", "find"})
      <4>1. ~IsFresh(search[s].chunks)
        BY <1>1, <2>3 DEF IsFresh
      <4>2. SearchGoesTo(s, "mark") /\ index' = o.chunks
        BY <1>1, <1>7, <4>1 DEF BuildIndex
      <4>3. raced' = (raced \/ \E t \in Searches \ {s} :
                                  search[t].pc \in {"build", "mark", "find"})
        BY <1>7, <4>1, Zenon DEF BuildIndex
      <4>4. search' = [search EXCEPT ![s] = [o EXCEPT !.pc = "mark"]]
        BY <1>1, <4>2 DEF SearchGoesTo, Becomes
      <4>5. [o EXCEPT !.pc = "mark"].pc = "mark" /\ [o EXCEPT !.pc = "mark"].chunks = o.chunks
        BY DEF Search
      <4>6. search'[s] = [o EXCEPT !.pc = "mark"]
        BY <4>4 DEF Typed
      <4> QED
        BY <4>2, <4>3, <4>5, <4>6
    <3>2. /\ ReadFromStore(index)' /\ ReadFromStore(fingerprint)'
          /\ \A t \in Searches : search'[t].pc \in InIndex =>
               ReadFromStore(search[t].chunks)' /\ search'[t].chunks # {}
      BY <1>1, <1>2, <1>3, <2>1, <3>1 DEF IndexInv, ReadFromStore, InIndex
    <3>3. ~raced' => fingerprint # Stored
      BY <1>1, <2>1, <2>3, <3>1 DEF IndexInv
    <3>4. ~raced' => \A t \in Searches : t # s => search'[t].pc \notin {"build", "mark", "find"}
      BY <1>3, <3>1
    <3> QED
      BY <1>2, <2>1, <2>3, <3>1, <3>2, <3>3, <3>4 DEF IndexInv
  <2> QED
    BY <2>2, <2>3
<1>8. CASE MarkIndex(s)
  <2>1. /\ fingerprint' = o.chunks /\ index' = index /\ raced' = raced /\ o.pc = "mark"
        /\ search'[s].pc = "find" /\ search'[s].chunks = o.chunks
    BY <1>1, <1>8 DEF MarkIndex, SearchGoesTo, Becomes, Typed, Search
  <2>2. /\ ReadFromStore(index)' /\ ReadFromStore(fingerprint)'
        /\ \A t \in Searches : search'[t].pc \in InIndex =>
             ReadFromStore(search[t].chunks)' /\ search'[t].chunks # {}
    BY <1>1, <1>2, <1>3, <2>1 DEF IndexInv, ReadFromStore, InIndex
  <2>3. ~raced => /\ index = o.chunks
                  /\ \A t \in Searches : search'[t].pc # "mark"
    BY <1>1, <1>3, <2>1 DEF IndexInv
  <2>4. \A t \in Searches : t = s \/ search'[t] = search[t]
    BY <1>3
  <2>5. ~raced => \A t \in Searches :
          search'[t].pc = "build" /\ search'[t].chunks # Stored => o.chunks # Stored
    BY <1>1, <2>1, <2>4 DEF IndexInv
  <2> QED
    BY <1>2, <2>1, <2>2, <2>3, <2>4, <2>5 DEF IndexInv
<1> QED
  BY <1>6, <1>7, <1>8

\* The other steps lead to no place in _get_bm25_index.
LEMMA OutsideIndex ==
  ASSUME Typed, SeenInv, FoundInv, NEW s \in Searches,
         \/ StartSearch(s, "parent_child") \/ StartSearch(s, "hybrid") \/ EmbedQuery(s)
         \/ SignQuery(s) \/ MatchVectors(s) \/ FilterMatch(s) \/ FilteredAll(s)
         \/ FindWords(s) \/ GatherSignal(s) \/ FindParent(s) \/ GatherCandidate(s)
         \/ Rank(s)
  PROVE  search'[s].pc \notin InIndex
<1>1. PICK o \in Search : o = search[s]
  BY DEF Typed
<1>2. NoSearch \in Search /\ NoSearch.pc = "idle"
  BY NoSearchType
<1>3. DOMAIN search = Searches
  BY DEF Typed
<1>4. ASSUME Forget(s) PROVE search'[s].pc \notin InIndex
  <2>1. search'[s] = NoSearch
    BY <1>3, <1>4 DEF Forget, Becomes
  <2> QED
    BY <1>2, <2>1 DEF InIndex
<1>5. ASSUME NEW pc \in {"rank", "parent"}, SearchGoesTo(s, pc)
      PROVE search'[s].pc \notin InIndex
  <2>1. search'[s] = [o EXCEPT !.pc = pc]
    BY <1>1, <1>3, <1>5 DEF SearchGoesTo, Becomes
  <2>2. [o EXCEPT !.pc = pc].pc = pc
    BY DEF Search
  <2> QED
    BY <1>5, <2>1, <2>2 DEF InIndex
<1>6. CASE StartSearch(s, "parent_child") \/ StartSearch(s, "hybrid")
  <2>1. PICK q : KeepsOrder(s, q) /\ q.pc \in {"list", "embed"}
    BY <1>6, StartKeeps
  <2> QED
    BY <1>3, <2>1 DEF KeepsOrder, InIndex
<1>7. CASE EmbedQuery(s) \/ SignQuery(s)
  BY <1>1, <1>3, <1>4, <1>7 DEF EmbedQuery, SignQuery, Becomes, Search, InIndex
<1>8. CASE MatchVectors(s) \/ FilterMatch(s) \/ FilteredAll(s)
  BY <1>8, FilterGoesTo DEF InIndex
<1>9. CASE FindWords(s) \/ GatherSignal(s)
  BY <1>1, <1>3, <1>4, <1>5, <1>9 DEF FindWords, GatherSignal, Becomes, Search, InIndex
<1>10. CASE FindParent(s) \/ GatherCandidate(s)
  BY <1>1, <1>3, <1>5, <1>10 DEF FindParent, GatherCandidate, Becomes, Search, InIndex
<1>11. CASE Rank(s)
  <2>1. PICK q : KeepsOrder(s, q) /\ q.pc \in {"idle", "answered"}
    BY <1>11, RankKeeps DEF FoundInv
  <2> QED
    BY <1>3, <2>1 DEF KeepsOrder, InIndex
<1> QED
  BY <1>6, <1>7, <1>8, <1>9, <1>10, <1>11

\* Any step of a search.
LEMMA SearchKeepsIndex ==
  ASSUME Typed, WriterInv, SeenInv, IndexInv, FoundInv, NEW s \in Searches,
         StartSearch(s, "parent_child") \/ StartSearch(s, "hybrid") \/ SearchStep(s)
  PROVE  IndexInv'
<1>1. PICK o \in Search : o = search[s]
  BY DEF Typed
<1>2. o.strategy = "hybrid" => o.pc \notin {"build", "mark", "find"}
  BY <1>1 DEF FoundInv, Found, ListsInv
<1>3. CASE ListChunks(s) \/ BuildIndex(s) \/ MarkIndex(s)
  BY <1>1, <1>2, <1>3, IndexStepKeepsIndex DEF InIndex
<1>4. CASE \/ StartSearch(s, "parent_child") \/ StartSearch(s, "hybrid") \/ EmbedQuery(s)
           \/ SignQuery(s) \/ MatchVectors(s) \/ FilterMatch(s) \/ FilteredAll(s)
           \/ FindWords(s) \/ GatherSignal(s) \/ FindParent(s) \/ GatherCandidate(s)
           \/ Rank(s)
  <2>1. UNCHANGED <<rows, index, fingerprint, raced>> /\ o.pc # "mark"
    BY <1>1, <1>4 DEF StartSearch, EmbedQuery, SignQuery, MatchVectors, FilterMatch,
         FilteredAll, FindWords, GatherSignal, FindParent, GatherCandidate, Rank
  <2>2. Stored' = Stored
    BY <2>1 DEF Stored
  <2>3. \A t \in Searches : t # s => search'[t] = search[t]
    BY <1>4 DEF StartSearch, EmbedQuery, SignQuery, MatchVectors, FilterMatch,
         FilteredAll, FindWords, GatherSignal, FindParent, GatherCandidate, Rank,
         SearchGoesTo, Forget, Becomes, Typed
  <2>4. search'[s].pc \notin InIndex
    BY <1>4, OutsideIndex
  <2> QED
    BY <1>1, <2>1, <2>2, <2>3, <2>4, OtherStepKeepsIndex
<1> QED
  BY <1>3, <1>4 DEF SearchStep

-----------------------------------------------------------------------------
(* The labels *)

\* The label a chunk has and the vector it has, in step: as before, or true,
\* or one of them gone; a vector in place of another only where no search has
\* found the chunk.
LabelStays(c) ==
  \/ rows'[c] \in {"none", "absent"} \/ vectors'[c] = "absent" \/ rows'[c] = vectors'[c]
  \/ rows'[c] = rows[c] /\ vectors'[c] = vectors[c]
VectorStays(c) ==
  vectors'[c] \in {vectors[c], "absent"} \/ (c \in New /\ Unlabelled(c))

\* What the writer owes the labels.
LEMMA LabelsKept ==
  ASSUME Typed, LabelInv, search' = search,
         \A c \in New : Unlabelled(c)' => Unlabelled(c) /\ rows'[c] \in {"none", "absent"},
         ~mixed' => /\ ~mixed /\ WriterSigns'
                    /\ last' = last \/ \A s \in Searches : search[s].pc # "sign"
                    /\ \A c \in Chunk : LabelStays(c) /\ VectorStays(c)
  PROVE  LabelInv'
<1>1. \A c \in New : Unlabelled(c)' =>
        /\ rows'[c] \in {"none", "absent"}
        /\ \A s \in Searches : search'[s].pc = "filter" => c \notin ToSet(search'[s].vector)
  BY DEF LabelInv
<1>2. ASSUME ~mixed' PROVE LabelsTrue'
  <2>1. LabelsTrue /\ \A c \in Chunk : LabelStays(c)
    BY <1>2 DEF LabelInv
  <2>2. ASSUME NEW c \in Chunk, rows'[c] # "absent", vectors'[c] # "absent",
               rows'[c] # "none"
        PROVE  rows'[c] = vectors'[c]
    BY <2>1, <2>2 DEF LabelStays, LabelsTrue, Stored, Points
  <2> QED
    BY <2>2 DEF LabelsTrue, Stored, Points
<1>3. ASSUME ~mixed', NEW s \in Searches PROVE SearchSigns(s)'
  <2>1. SearchSigns(s) /\ \A c \in Chunk : VectorStays(c)
    BY <1>3 DEF LabelInv
  <2>2. ASSUME search[s].pc = "filter", NEW c \in ToSet(search[s].vector), c \in Chunk,
               vectors'[c] # "absent"
        PROVE  vectors'[c] = search[s].producer
    <3>1. ~(c \in New /\ Unlabelled(c))
      BY <2>2 DEF LabelInv
    <3>2. vectors'[c] = vectors[c]
      BY <2>1, <2>2, <3>1 DEF VectorStays
    <3> QED
      BY <2>1, <2>2, <3>2 DEF SearchSigns, OneEmbedder, Points
  <2>3. search[s].pc = "filter" => OneEmbedder(s)'
    BY <2>2 DEF OneEmbedder, Points
  <2> QED
    BY <1>3, <2>1, <2>3 DEF SearchSigns
<1> QED
  BY <1>1, <1>2, <1>3 DEF LabelInv

\* Steps that write neither a vector nor a label.
LEMMA SignerKeepsLabels ==
  ASSUME Typed, WriterInv, LabelInv, StartReindex \/ EmbedPassages \/ SignPassages
  PROVE  LabelInv'
<1>1. writer \in Writer /\ DOMAIN writer = {"kind", "pc", "producer", "signature", "next"}
  BY DEF Typed, Writer
<1>2. /\ search' = search /\ rows' = rows /\ vectors' = vectors
  BY DEF StartReindex, EmbedPassages, SignPassages
<1>3. \A c \in Chunk : LabelStays(c) /\ VectorStays(c)
  BY <1>2 DEF LabelStays, VectorStays
<1>4. CASE StartReindex
  <2>1. PICK w : w = [writer EXCEPT !.kind = "reindex", !.pc = "embed"]
    OBVIOUS
  <2>2. /\ w.kind = "reindex" /\ w.pc = "embed" /\ writer' = w /\ writer.kind = "none"
        /\ mixed' = mixed /\ last' = last
    BY <1>1, <1>4, <2>1 DEF StartReindex
  <2>3. \A c \in New : Unlabelled(c)
    BY <2>2 DEF Unlabelled
  <2>4. WriterSigns'
    BY <2>2 DEF WriterSigns
  <2> QED
    BY <1>2, <1>3, <2>2, <2>3, <2>4, LabelsKept DEF LabelInv
<1>5. CASE EmbedPassages
  <2>1. PICK e \in Embedder : Embeds(e) /\ writer' = [writer EXCEPT !.pc = "sign", !.producer = e]
    BY <1>5 DEF EmbedPassages
  <2>2. PICK w : w = [writer EXCEPT !.pc = "sign", !.producer = e]
    OBVIOUS
  <2>3. /\ w.kind = writer.kind /\ w.pc = "sign" /\ w.producer = e /\ writer' = w
        /\ last' = e /\ writer.pc = "embed"
        /\ ~mixed' => ~mixed /\ \A s \in Searches : search[s].pc # "sign"
    BY <1>1, <1>5, <2>1, <2>2 DEF EmbedPassages, Embeds
  <2>4. ASSUME NEW c \in New, Unlabelled(c)' PROVE Unlabelled(c)
    BY <2>3, <2>4 DEF Unlabelled
  <2>5. WriterSigns'
    BY <2>3 DEF WriterSigns
  <2> QED
    BY <1>2, <1>3, <2>3, <2>4, <2>5, LabelsKept DEF LabelInv
<1>6. CASE SignPassages
  <2>1. PICK pc \in {"upsert", "replace"} :
          pc = IF writer.kind = "upload" THEN "upsert" ELSE "replace"
    OBVIOUS
  <2>2. PICK w : w = [writer EXCEPT !.pc = pc, !.signature = last]
    OBVIOUS
  <2>3. /\ w.kind = writer.kind /\ w.pc = pc /\ w.producer = writer.producer
        /\ w.signature = last /\ w.next = writer.next /\ writer' = w
        /\ last' = last /\ mixed' = mixed /\ writer.pc = "sign"
    BY <1>1, <1>6, <2>1, <2>2 DEF SignPassages
  <2>4. ASSUME NEW c \in New, Unlabelled(c)' PROVE Unlabelled(c)
    BY <2>3, <2>4 DEF Unlabelled
  <2>5. ~mixed => WriterSigns'
    BY <2>1, <2>3 DEF WriterSigns, LabelInv
  <2> QED
    BY <1>2, <1>3, <2>3, <2>4, <2>5, LabelsKept DEF LabelInv
<1> QED
  BY <1>4, <1>5, <1>6

\* Steps of an upload that write vectors or labels.
LEMMA UploadKeepsLabels ==
  ASSUME Typed, WriterInv, LabelInv,
         StartUpload \/ UpsertChunk \/ LabelChunk \/ RollBackVectors \/ UnlabelChunk
  PROVE  LabelInv'
<1>1. /\ writer \in Writer /\ DOMAIN writer = {"kind", "pc", "producer", "signature", "next"}
      /\ rows \in [Chunk -> Embedder \cup {"none", "absent"}]
      /\ vectors \in [Chunk -> Embedder \cup {"absent"}]
  BY DEF Typed, Writer
<1>2. /\ NextChunk \in New /\ NextChunk \in Chunk /\ NextChunk.index = writer.next
      /\ writer.next \in Nat /\ \A c \in New : c \in Chunk /\ c.build = 2 /\ c.index \in Nat
  BY <1>1, NextChunkIsNew, WriterFields, TwoBuilds
<1>3. search' = search /\ last' = last /\ mixed' = mixed
  BY DEF StartUpload, UpsertChunk, LabelChunk, RollBackVectors, UnlabelChunk
<1>4. CASE StartUpload
  <2>1. PICK w : w = [writer EXCEPT !.kind = "upload", !.pc = "embed"]
    OBVIOUS
  <2>2. /\ w.kind = "upload" /\ w.pc = "embed" /\ writer' = w /\ writer.kind = "none"
        /\ rows' = [c \in Chunk |-> IF c.build = 2 THEN "none" ELSE rows[c]]
        /\ vectors' = vectors
    BY <1>1, <1>4, <2>1 DEF StartUpload
  <2>3. \A c \in New : Unlabelled(c) /\ rows'[c] = "none"
    BY <1>2, <2>2 DEF Unlabelled
  <2>4. WriterSigns'
    BY <2>2 DEF WriterSigns
  <2>5. \A c \in Chunk : LabelStays(c) /\ VectorStays(c)
    BY <2>2 DEF LabelStays, VectorStays
  <2> QED
    BY <1>3, <2>3, <2>4, <2>5, LabelsKept
<1>5. CASE UpsertChunk
  <2>1. writer.kind = "upload" /\ writer.pc = "upsert" /\ rows' = rows
    BY <1>1, <1>5, WriterFields DEF WriterInv, UpsertChunk
  <2>2. Unlabelled(NextChunk)
    BY <1>2, <2>1 DEF Unlabelled
  <2>3. rows[NextChunk] \in {"none", "absent"}
    BY <1>2, <2>2 DEF LabelInv
  <2>4. PICK pc \in {"label", "delete"} :
          /\ writer' = [writer EXCEPT !.pc = pc]
          /\ IF pc = "label" THEN vectors' = [vectors EXCEPT ![NextChunk] = writer.producer]
                             ELSE vectors' = vectors
    BY <1>5 DEF UpsertChunk, WriterGoesTo
  <2>5. PICK w : w = [writer EXCEPT !.pc = pc]
    OBVIOUS
  <2>6. /\ w.kind = "upload" /\ w.pc = pc /\ w.producer = writer.producer
        /\ w.signature = writer.signature /\ w.next = writer.next /\ writer' = w
    BY <1>1, <2>1, <2>4, <2>5
  <2>7. ASSUME NEW c \in New, Unlabelled(c)'
        PROVE  Unlabelled(c) /\ rows'[c] \in {"none", "absent"}
    <3>1. Unlabelled(c)
      BY <2>1, <2>6, <2>7 DEF Unlabelled
    <3> QED
      BY <2>1, <3>1 DEF LabelInv
  <2>8. NextChunk' = NextChunk
    BY <2>6 DEF NextChunk
  <2>9. ~mixed => WriterSigns'
    <3>1. SUFFICES ASSUME ~mixed PROVE WriterSigns'
      OBVIOUS
    <3>2. writer.signature = writer.producer
      BY <2>1, <3>1 DEF LabelInv, WriterSigns
    <3>3. pc = "label" => vectors'[NextChunk] = writer.producer
      BY <1>1, <1>2, <2>4
    <3>4. writer'.pc = "label" => vectors'[NextChunk'] = writer'.producer
      BY <2>6, <2>8, <3>3
    <3> QED
      BY <2>6, <3>2, <3>4 DEF WriterSigns
  <2>10. ASSUME NEW c \in Chunk PROVE LabelStays(c) /\ VectorStays(c)
    <3>1. CASE c = NextChunk
      BY <1>2, <2>1, <2>2, <2>3, <3>1 DEF LabelStays, VectorStays
    <3>2. CASE c # NextChunk
      <4>1. vectors'[c] = vectors[c]
        BY <1>1, <2>4, <3>2
      <4> QED
        BY <2>1, <4>1 DEF LabelStays, VectorStays
    <3> QED
      BY <3>1, <3>2
  <2> QED
    BY <1>3, <2>7, <2>9, <2>10, LabelsKept
<1>6. CASE LabelChunk
  <2>1. /\ writer.kind = "upload" /\ writer.pc = "label" /\ vectors' = vectors
        /\ rows' = [rows EXCEPT ![NextChunk] = writer.signature]
    BY <1>1, <1>6, WriterFields DEF WriterInv, LabelChunk
  <2>2. PICK w : w = IF writer.next = ChunksPerBuild THEN NoWriter("over")
                     ELSE [writer EXCEPT !.pc = "upsert", !.next = @ + 1]
    OBVIOUS
  <2>3. writer' = w
    BY <1>6, <2>2 DEF LabelChunk, WriterEnds
  <2>4. \/ w.kind = "over" /\ w.pc = "idle"
        \/ /\ w.kind = "upload" /\ w.pc = "upsert" /\ w.next = writer.next + 1
           /\ w.producer = writer.producer /\ w.signature = writer.signature
    BY <1>1, <2>1, <2>2 DEF NoWriter
  <2>5. ASSUME NEW c \in New, Unlabelled(c)'
        PROVE  Unlabelled(c) /\ rows'[c] \in {"none", "absent"}
    <3>1. writer.next + 1 <= c.index
      BY <2>3, <2>4, <2>5 DEF Unlabelled
    <3>2. c # NextChunk /\ writer.next <= c.index
      BY <1>2, <3>1
    <3>3. Unlabelled(c)
      BY <2>1, <3>2 DEF Unlabelled
    <3>4. rows'[c] = rows[c]
      BY <1>1, <1>2, <2>1, <3>2
    <3> QED
      BY <3>3, <3>4 DEF LabelInv
  <2>6. ~mixed => writer.signature = writer.producer /\ vectors[NextChunk] = writer.producer
    BY <2>1 DEF LabelInv, WriterSigns
  <2>7. ~mixed => WriterSigns'
    BY <2>3, <2>4, <2>6 DEF WriterSigns
  <2>8. ASSUME ~mixed, NEW c \in Chunk PROVE LabelStays(c) /\ VectorStays(c)
    <3>1. CASE c = NextChunk
      <4>1. rows'[c] = vectors'[c]
        BY <1>1, <1>2, <2>1, <2>6, <2>8, <3>1
      <4> QED
        BY <2>1, <4>1 DEF LabelStays, VectorStays
    <3>2. CASE c # NextChunk
      <4>1. rows'[c] = rows[c]
        BY <1>1, <2>1, <3>2
      <4> QED
        BY <2>1, <4>1 DEF LabelStays, VectorStays
    <3> QED
      BY <3>1, <3>2
  <2> QED
    BY <1>3, <2>5, <2>7, <2>8, LabelsKept
<1>7. CASE RollBackVectors
  <2>1. /\ writer.kind = "upload" /\ writer.pc = "delete" /\ rows' = rows
        /\ vectors' \in {vectors, [c \in Chunk |-> IF c.build = 2 THEN "absent" ELSE vectors[c]]}
    BY <1>1, <1>7, WriterFields DEF WriterInv, RollBackVectors
  <2>2. PICK w : w = [writer EXCEPT !.pc = "unlabel", !.next = 1]
    OBVIOUS
  <2>3. /\ w.kind = "upload" /\ w.pc = "unlabel" /\ w.producer = writer.producer
        /\ w.signature = writer.signature /\ writer' = w
    BY <1>1, <1>7, <2>1, <2>2 DEF RollBackVectors
  <2>4. \A c \in New : ~Unlabelled(c)'
    BY <2>3 DEF Unlabelled
  <2>5. ~mixed => WriterSigns'
    BY <2>1, <2>3 DEF LabelInv, WriterSigns
  <2>6. \A c \in Chunk : vectors'[c] \in {vectors[c], "absent"}
    BY <2>1
  <2>7. \A c \in Chunk : LabelStays(c) /\ VectorStays(c)
    BY <2>1, <2>6 DEF LabelStays, VectorStays
  <2> QED
    BY <1>3, <2>4, <2>5, <2>7, LabelsKept
<1>8. CASE UnlabelChunk
  <2>1. /\ writer.kind = "upload" /\ writer.pc = "unlabel" /\ vectors' = vectors
        /\ rows' = [rows EXCEPT ![NextChunk] = "none"]
    BY <1>1, <1>8, WriterFields DEF WriterInv, UnlabelChunk
  <2>2. PICK w : w = IF writer.next = ChunksPerBuild THEN NoWriter("over")
                     ELSE [writer EXCEPT !.next = @ + 1]
    OBVIOUS
  <2>3. writer' = w
    BY <1>8, <2>2 DEF UnlabelChunk, WriterEnds
  <2>4. \/ w.kind = "over" /\ w.pc = "idle"
        \/ /\ w.kind = "upload" /\ w.pc = "unlabel"
           /\ w.producer = writer.producer /\ w.signature = writer.signature
    BY <1>1, <2>1, <2>2 DEF NoWriter
  <2>5. \A c \in New : ~Unlabelled(c)'
    BY <2>3, <2>4 DEF Unlabelled
  <2>6. ~mixed => WriterSigns'
    BY <2>1, <2>3, <2>4 DEF LabelInv, WriterSigns
  <2>7. \A c \in Chunk : rows'[c] = rows[c] \/ rows'[c] = "none"
    BY <1>1, <2>1
  <2>8. \A c \in Chunk : LabelStays(c) /\ VectorStays(c)
    BY <2>1, <2>7 DEF LabelStays, VectorStays
  <2> QED
    BY <1>3, <2>5, <2>6, <2>8, LabelsKept
<1> QED
  BY <1>4, <1>5, <1>6, <1>7, <1>8

\* Steps of a reindex job that write vectors or labels.
LEMMA ReindexKeepsLabels ==
  ASSUME Typed, WriterInv, LabelInv, ReplaceVectors \/ StoreChunks
  PROVE  LabelInv'
<1>1. /\ writer \in Writer /\ DOMAIN writer = {"kind", "pc", "producer", "signature", "next"}
      /\ rows \in [Chunk -> Embedder \cup {"none", "absent"}]
  BY DEF Typed, Writer
<1>2. writer.kind = "reindex" /\ \A c \in New : Unlabelled(c)
  BY <1>1, WriterFields DEF WriterInv, ReplaceVectors, StoreChunks, Unlabelled
<1>3. search' = search /\ last' = last /\ mixed' = mixed
  BY DEF ReplaceVectors, StoreChunks
<1>4. CASE ReplaceVectors
  <2>1. /\ writer.pc = "replace" /\ rows' = rows
        /\ vectors' = [c \in Chunk |-> IF c.build = 2 THEN writer.producer ELSE "absent"]
    BY <1>4 DEF ReplaceVectors
  <2>2. PICK w : w = [writer EXCEPT !.pc = "store"]
    OBVIOUS
  <2>3. /\ w.kind = "reindex" /\ w.pc = "store" /\ w.producer = writer.producer
        /\ w.signature = writer.signature /\ writer' = w
    BY <1>1, <1>2, <1>4, <2>2 DEF ReplaceVectors, WriterGoesTo
  <2>4. \A c \in Chunk : vectors'[c] = IF c \in New THEN writer.producer ELSE "absent"
    BY <2>1, TwoBuilds
  <2>5. \A c \in New : rows'[c] \in {"none", "absent"}
    BY <1>2, <2>1 DEF LabelInv
  <2>6. ~mixed => WriterSigns'
    BY <2>1, <2>3, <2>4 DEF LabelInv, WriterSigns
  <2>7. \A c \in Chunk : LabelStays(c) /\ VectorStays(c)
    BY <1>2, <2>4, <2>5 DEF LabelStays, VectorStays
  <2> QED
    BY <1>2, <1>3, <2>5, <2>6, <2>7, LabelsKept
<1>5. CASE StoreChunks
  <2>1. /\ writer.pc = "store" /\ vectors' = vectors /\ writer' = NoWriter("over")
        /\ rows' = [c \in Chunk |-> IF c.build = 2 THEN writer.signature ELSE "absent"]
    BY <1>5 DEF StoreChunks, WriterEnds
  <2>2. PICK w : w = NoWriter("over")
    OBVIOUS
  <2>3. w.kind = "over" /\ w.pc = "idle" /\ writer' = w
    BY <2>1, <2>2, NoWriterFields
  <2>4. \A c \in New : ~Unlabelled(c)'
    BY <2>3 DEF Unlabelled
  <2>5. WriterSigns'
    BY <2>3 DEF WriterSigns
  <2>6. ASSUME ~mixed, NEW c \in Chunk PROVE LabelStays(c) /\ VectorStays(c)
    <3>1. /\ writer.signature = writer.producer
          /\ vectors[c] = IF c \in New THEN writer.producer ELSE "absent"
      BY <2>1, <2>6 DEF LabelInv, WriterSigns
    <3>2. rows'[c] = IF c \in New THEN writer.signature ELSE "absent"
      BY <2>1, TwoBuilds
    <3> QED
      BY <2>1, <3>1, <3>2 DEF LabelStays, VectorStays
  <2> QED
    BY <1>3, <2>4, <2>5, <2>6, LabelsKept
<1> QED
  BY <1>4, <1>5

-----------------------------------------------------------------------------
(* The labels a search reads *)

\* Any step of a search but its steps with the embedder and the vector store.
LEMMA OtherStepKeepsLabels ==
  ASSUME LabelInv, NEW s \in Searches,
         UNCHANGED <<rows, vectors, last, writer, mixed>>,
         \A t \in Searches : t # s => search'[t] = search[t],
         search'[s].pc \notin {"sign", "match", "filter"}
  PROVE  LabelInv'
<1>1. \A c \in New : Unlabelled(c)' <=> Unlabelled(c)
  BY DEF Unlabelled
<1>2. LabelsTrue' = LabelsTrue /\ WriterSigns' = WriterSigns
  BY DEF LabelsTrue, WriterSigns, NextChunk, Stored, Points
<1>3. \A t \in Searches : search'[t].pc = "filter" => search'[t] = search[t]
  OBVIOUS
<1>4. ASSUME ~mixed, NEW t \in Searches PROVE SearchSigns(t)'
  <2>1. CASE t = s
    BY <2>1 DEF SearchSigns
  <2>2. CASE t # s
    <3>1. SearchSigns(t) /\ search'[t] = search[t]
      BY <1>4, <2>2 DEF LabelInv
    <3> QED
      BY <3>1 DEF SearchSigns, OneEmbedder, Points
  <2> QED
    BY <2>1, <2>2
<1> QED
  BY <1>1, <1>2, <1>3, <1>4 DEF LabelInv

\* The other steps lead to no such place.
LEMMA OutsideSigning ==
  ASSUME Typed, SeenInv, FoundInv, NEW s \in Searches,
         \/ StartSearch(s, "parent_child") \/ StartSearch(s, "hybrid") \/ FilteredAll(s)
         \/ ListChunks(s) \/ BuildIndex(s) \/ MarkIndex(s)
         \/ FindWords(s) \/ GatherSignal(s) \/ FindParent(s) \/ GatherCandidate(s)
         \/ Rank(s)
  PROVE  search'[s].pc \notin {"sign", "match", "filter"}
<1>1. PICK o \in Search : o = search[s]
  BY DEF Typed
<1>2. NoSearch \in Search /\ NoSearch.pc = "idle"
  BY NoSearchType
<1>3. DOMAIN search = Searches
  BY DEF Typed
<1>4. ASSUME Forget(s) PROVE search'[s].pc = "idle"
  <2>1. search'[s] = NoSearch
    BY <1>3, <1>4 DEF Forget, Becomes
  <2> QED
    BY <1>2, <2>1
<1>5. ASSUME NEW pc \in {"rank", "parent", "find", "mark"}, SearchGoesTo(s, pc)
      PROVE search'[s].pc = pc
  <2>1. search'[s] = [o EXCEPT !.pc = pc]
    BY <1>1, <1>3, <1>5 DEF SearchGoesTo, Becomes
  <2>2. [o EXCEPT !.pc = pc].pc = pc
    BY DEF Search
  <2> QED
    BY <2>1, <2>2
<1>6. CASE StartSearch(s, "parent_child") \/ StartSearch(s, "hybrid")
  <2>1. PICK q : KeepsOrder(s, q) /\ q.pc \in {"list", "embed"}
    BY <1>6, StartKeeps
  <2> QED
    BY <1>3, <2>1 DEF KeepsOrder
<1>7. CASE FilteredAll(s)
  BY <1>7, FilteredGoesTo
<1>8. CASE ListChunks(s) \/ BuildIndex(s) \/ MarkIndex(s)
  BY <1>1, <1>3, <1>5, <1>8 DEF ListChunks, BuildIndex, MarkIndex, Becomes, Search
<1>9. CASE FindWords(s) \/ GatherSignal(s)
  <2>1. CASE FindWords(s)
    BY <1>1, <1>3, <1>4, <2>1 DEF FindWords, Becomes, Search
  <2>2. CASE GatherSignal(s)
    <3>1. \/ SearchGoesTo(s, "rank") \/ SearchGoesTo(s, "parent")
          \/ Becomes(s, [o EXCEPT !.next = @ + 1]) /\ o.pc = "gather"
      BY <1>1, <2>2 DEF GatherSignal
    <3>2. CASE SearchGoesTo(s, "rank") \/ SearchGoesTo(s, "parent")
      BY <1>5, <3>2
    <3>3. CASE Becomes(s, [o EXCEPT !.next = @ + 1]) /\ o.pc = "gather"
      <4>1. search'[s].pc = "gather"
        BY <1>3, <3>3 DEF Becomes, Search
      <4> QED
        BY <4>1
    <3> QED
      BY <3>1, <3>2, <3>3
  <2> QED
    BY <1>9, <2>1, <2>2
<1>10. CASE FindParent(s) \/ GatherCandidate(s)
  BY <1>1, <1>3, <1>5, <1>10 DEF FindParent, GatherCandidate, Becomes, Search
<1>11. CASE Rank(s)
  <2>1. PICK q : KeepsOrder(s, q) /\ q.pc \in {"idle", "answered"}
    BY <1>11, RankKeeps DEF FoundInv
  <2> QED
    BY <1>3, <2>1 DEF KeepsOrder
<1> QED
  BY <1>6, <1>7, <1>8, <1>9, <1>10, <1>11

\* embed_query, and the reading of its signature.
LEMMA SignerStepKeepsLabels ==
  ASSUME Typed, LabelInv, NEW s \in Searches, EmbedQuery(s) \/ SignQuery(s)
  PROVE  LabelInv'
<1>1. PICK o \in Search : o = search[s]
  BY DEF Typed
<1>2. DOMAIN search = Searches
  BY DEF Typed
<1>3. UNCHANGED <<rows, vectors, writer>>
  BY DEF EmbedQuery, SignQuery
<1>4. \A c \in New : Unlabelled(c)' <=> Unlabelled(c)
  BY <1>3 DEF Unlabelled
<1>5. LabelsTrue' = LabelsTrue
  BY <1>3 DEF LabelsTrue, Stored, Points
<1>6. \A t \in Searches : t # s => search'[t] = search[t]
  BY <1>2 DEF EmbedQuery, SignQuery, SearchGoesTo, Forget, Becomes
<1>7. CASE EmbedQuery(s)
  <2>1. PICK e \in Embedder : /\ Embeds(e)
                              /\ Becomes(s, [o EXCEPT !.pc = "sign", !.producer = e])
    BY <1>1, <1>7 DEF EmbedQuery
  <2>2. PICK q : q = [o EXCEPT !.pc = "sign", !.producer = e]
    OBVIOUS
  <2>3. search'[s] = q /\ q.pc = "sign" /\ q.producer = e /\ o.pc = "embed"
    BY <1>1, <1>2, <1>7, <2>1, <2>2 DEF Becomes, Search, EmbedQuery
  <2>4. /\ last' = e
        /\ ~mixed' => /\ ~mixed /\ writer.pc # "sign"
                      /\ \A t \in Searches : search[t].pc # "sign"
    BY <2>1 DEF Embeds
  <2>5. ASSUME ~mixed' PROVE WriterSigns'
    BY <1>3, <2>4, <2>5 DEF LabelInv, WriterSigns, NextChunk
  <2>6. ASSUME ~mixed', NEW t \in Searches PROVE SearchSigns(t)'
    <3>1. CASE t = s
      BY <2>3, <2>4, <3>1 DEF SearchSigns
    <3>2. CASE t # s
      <4>1. SearchSigns(t) /\ search'[t] = search[t] /\ search[t].pc # "sign"
        BY <1>6, <2>4, <2>6, <3>2 DEF LabelInv
      <4> QED
        BY <1>3, <4>1 DEF SearchSigns, OneEmbedder, Points
    <3> QED
      BY <3>1, <3>2
  <2>7. \A t \in Searches : search'[t].pc = "filter" => search'[t] = search[t]
    BY <1>6, <2>3
  <2> QED
    BY <1>3, <1>4, <1>5, <2>4, <2>5, <2>6, <2>7 DEF LabelInv
<1>8. CASE SignQuery(s)
  <2>1. UNCHANGED <<last, mixed>> /\ o.pc = "sign"
    BY <1>1, <1>8 DEF SignQuery
  <2>2. CASE search'[s].pc \notin {"sign", "match", "filter"}
    BY <1>3, <1>6, <2>1, <2>2, OtherStepKeepsLabels
  <2>3. CASE search'[s].pc \in {"sign", "match", "filter"}
    <3>1. Becomes(s, [o EXCEPT !.pc = "match", !.signature = last, !.followed = "yes"])
      <4>1. NoSearch.pc = "idle" /\ [o EXCEPT !.pc = "list", !.producer = "primary"].pc = "list"
        BY NoSearchType DEF Search
      <4>2. search'[s] \notin {NoSearch, [o EXCEPT !.pc = "list", !.producer = "primary"]}
        BY <2>3, <4>1
      <4> QED
        BY <1>1, <1>2, <1>8, <4>2 DEF SignQuery, Forget, Becomes
    <3>2. PICK q : q = [o EXCEPT !.pc = "match", !.signature = last, !.followed = "yes"]
      OBVIOUS
    <3>3. search'[s] = q /\ q.pc = "match" /\ q.signature = last /\ q.producer = o.producer
      BY <1>2, <3>1, <3>2 DEF Becomes, Search
    <3>4. ~mixed => WriterSigns'
      BY <1>3, <2>1 DEF LabelInv, WriterSigns, NextChunk
    <3>5. ASSUME ~mixed, NEW t \in Searches PROVE SearchSigns(t)'
      <4>1. CASE t = s
        <5>1. last = o.producer
          BY <1>1, <2>1, <3>5 DEF LabelInv, SearchSigns
        <5> QED
          BY <3>3, <4>1, <5>1 DEF SearchSigns
      <4>2. CASE t # s
        <5>1. SearchSigns(t) /\ search'[t] = search[t]
          BY <1>6, <3>5, <4>2 DEF LabelInv
        <5> QED
          BY <1>3, <2>1, <5>1 DEF SearchSigns, OneEmbedder, Points
      <4> QED
        BY <4>1, <4>2
    <3>6. \A t \in Searches : search'[t].pc = "filter" => search'[t] = search[t]
      BY <1>6, <3>3
    <3> QED
      BY <1>3, <1>4, <1>5, <2>1, <3>4, <3>5, <3>6 DEF LabelInv
  <2> QED
    BY <2>2, <2>3
<1> QED
  BY <1>7, <1>8

\* VectorStore.search, and the labels of what it found.
LEMMA MatchStepKeepsLabels ==
  ASSUME Typed, LabelInv, FoundInv, NEW s \in Searches, MatchVectors(s) \/ FilterMatch(s)
  PROVE  LabelInv'
<1>1. PICK o \in Search : o = search[s]
  BY DEF Typed
<1>2. DOMAIN search = Searches /\ o.vector \in Seq(Chunk) /\ o.matches \in SUBSET Chunk
  BY <1>1, SearchFields DEF Typed
<1>3. UNCHANGED <<rows, vectors, last, writer, mixed>>
  BY DEF MatchVectors, FilterMatch
<1>4. \A c \in New : Unlabelled(c)' <=> Unlabelled(c)
  BY <1>3 DEF Unlabelled
<1>5. LabelsTrue' = LabelsTrue /\ WriterSigns' = WriterSigns
  BY <1>3 DEF LabelsTrue, WriterSigns, NextChunk, Stored, Points
<1>6. \A t \in Searches : t # s => search'[t] = search[t]
  BY <1>2 DEF MatchVectors, FilterMatch, Becomes
<1>7. ASSUME NEW q, search'[s] = q, q.pc = "filter",
             q.signature = o.signature, q.producer = o.producer,
             o.pc \in {"match", "filter"},
             \A c \in ToSet(q.vector) :
               \/ o.pc = "filter" /\ c \in ToSet(o.vector)
               \/ c \in Stored /\ rows[c] = o.signature
      PROVE  LabelInv'
  <2>1. o.signature \in Embedder /\ "none" \notin Embedder /\ "absent" \notin Embedder
    BY DEF Search, Embedder
  <2>2. ASSUME NEW c \in New, Unlabelled(c), NEW t \in Searches, search'[t].pc = "filter"
        PROVE  c \notin ToSet(search'[t].vector)
    <3>1. CASE t = s
      <4>1. rows[c] # o.signature
        BY <2>1, <2>2 DEF LabelInv
      <4>2. o.pc = "filter" => c \notin ToSet(o.vector)
        BY <1>1, <2>2 DEF LabelInv
      <4> QED
        BY <1>7, <3>1, <4>1, <4>2
    <3>2. CASE t # s
      BY <1>6, <2>2, <3>2 DEF LabelInv
    <3> QED
      BY <3>1, <3>2
  <2>3. ASSUME ~mixed, NEW t \in Searches PROVE SearchSigns(t)'
    <3>1. CASE t = s
      <4>1. o.signature = o.producer
        BY <1>1, <1>7, <2>3 DEF LabelInv, SearchSigns
      <4>2. ASSUME NEW c \in ToSet(q.vector), c \in Points PROVE vectors[c] = o.producer
        <5>1. CASE o.pc = "filter" /\ c \in ToSet(o.vector)
          BY <1>1, <2>3, <4>2, <5>1 DEF LabelInv, SearchSigns, OneEmbedder
        <5>2. CASE c \in Stored /\ rows[c] = o.signature
          BY <2>1, <2>3, <4>1, <4>2, <5>2 DEF LabelInv, LabelsTrue
        <5> QED
          BY <1>7, <4>2, <5>1, <5>2
      <4>3. Points' = Points
        BY <1>3 DEF Points
      <4> QED
        BY <1>3, <1>7, <3>1, <4>1, <4>2, <4>3 DEF SearchSigns, OneEmbedder
    <3>2. CASE t # s
      <4>1. SearchSigns(t) /\ search'[t] = search[t]
        BY <1>6, <2>3, <3>2 DEF LabelInv
      <4> QED
        BY <1>3, <4>1 DEF SearchSigns, OneEmbedder, Points
    <3> QED
      BY <3>1, <3>2
  <2> QED
    BY <1>3, <1>4, <1>5, <2>2, <2>3 DEF LabelInv
<1>8. CASE MatchVectors(s)
  <2>1. PICK M : Becomes(s, [o EXCEPT !.pc = "filter", !.matches = M])
    BY <1>1, <1>8 DEF MatchVectors
  <2>2. PICK q : q = [o EXCEPT !.pc = "filter", !.matches = M]
    OBVIOUS
  <2>3. /\ search'[s] = q /\ q.pc = "filter" /\ q.signature = o.signature
        /\ q.producer = o.producer /\ q.vector = o.vector /\ o.pc = "match"
    BY <1>1, <1>2, <1>8, <2>1, <2>2 DEF Becomes, Search, MatchVectors
  <2>4. o.vector = <<>>
    BY <1>1, <2>3 DEF FoundInv, Found, ListsInv
  <2>5. ToSet(q.vector) = {}
    BY <2>3, <2>4, EmptyList
  <2> QED
    BY <1>7, <2>3, <2>5
<1>9. CASE FilterMatch(s)
  <2>1. PICK c \in o.matches : Becomes(s, [o EXCEPT
           !.matches = @ \ {c},
           !.vector = IF c \in Stored /\ IsCompatible(rows[c], o.signature)
                        THEN Append(@, c) ELSE @])
    BY <1>1, <1>9 DEF FilterMatch
  <2>2. PICK v : v = IF c \in Stored /\ IsCompatible(rows[c], o.signature)
                       THEN Append(o.vector, c) ELSE o.vector
    OBVIOUS
  <2>3. PICK q : q = [o EXCEPT !.matches = @ \ {c}, !.vector = v]
    OBVIOUS
  <2>4. /\ search'[s] = q /\ q.pc = "filter" /\ q.signature = o.signature
        /\ q.producer = o.producer /\ q.vector = v /\ o.pc = "filter"
    BY <1>1, <1>2, <1>9, <2>1, <2>2, <2>3 DEF Becomes, Search, FilterMatch
  <2>5. ToSet(Append(o.vector, c)) = ToSet(o.vector) \cup {c}
    BY <1>2, AppendSet
  <2>6. \A d \in ToSet(v) : d \in ToSet(o.vector) \/ (d \in Stored /\ rows[d] = o.signature)
    BY <2>2, <2>5 DEF IsCompatible
  <2> QED
    BY <1>7, <2>4, <2>6
<1> QED
  BY <1>8, <1>9

\* Any step of a search.
LEMMA SearchKeepsLabels ==
  ASSUME Typed, SeenInv, FoundInv, LabelInv, NEW s \in Searches,
         StartSearch(s, "parent_child") \/ StartSearch(s, "hybrid") \/ SearchStep(s)
  PROVE  LabelInv'
<1>1. CASE EmbedQuery(s) \/ SignQuery(s)
  BY <1>1, SignerStepKeepsLabels
<1>2. CASE MatchVectors(s) \/ FilterMatch(s)
  BY <1>2, MatchStepKeepsLabels
<1>3. CASE \/ StartSearch(s, "parent_child") \/ StartSearch(s, "hybrid") \/ FilteredAll(s)
           \/ ListChunks(s) \/ BuildIndex(s) \/ MarkIndex(s)
           \/ FindWords(s) \/ GatherSignal(s) \/ FindParent(s) \/ GatherCandidate(s)
           \/ Rank(s)
  <2>1. search'[s].pc \notin {"sign", "match", "filter"}
    BY <1>3, OutsideSigning
  <2>2. UNCHANGED <<rows, vectors, last, writer, mixed>>
    BY <1>3 DEF StartSearch, FilteredAll, ListChunks, BuildIndex, MarkIndex, FindWords,
                GatherSignal, FindParent, GatherCandidate, Rank
  <2>3. \A t \in Searches : t # s => search'[t] = search[t]
    BY <1>3 DEF StartSearch, FilteredAll, ListChunks, BuildIndex, MarkIndex, FindWords,
                GatherSignal, FindParent, GatherCandidate, Rank, SearchGoesTo, Forget,
                Becomes, Typed
  <2> QED
    BY <2>1, <2>2, <2>3, OtherStepKeepsLabels
<1> QED
  BY <1>1, <1>2, <1>3 DEF SearchStep

-----------------------------------------------------------------------------
(* Results *)

\* What searches, writer and index rely on together.
RetrievalInv ==
  /\ Typed /\ WriterInv /\ SeenInv /\ FoundInv
  /\ IndexInv /\ LabelInv /\ AnswerInv

\* Before the first search: one build, labelled, and no index.
LEMMA RetrievalInit ==
  ASSUME Init
  PROVE  RetrievalInv
<1>1. PICK e \in Embedder :
        /\ vectors = [c \in Chunk |-> IF c.build = 1 THEN e ELSE "absent"]
        /\ rows = [c \in Chunk |-> IF c.build = 1 THEN e ELSE "absent"]
        /\ last = e
  BY DEF Init
<1>2. e # "absent" /\ e # "none"
  BY DEF Embedder
<1>3. PICK w : w = NoWriter("none")
  OBVIOUS
<1>4. writer = w /\ w \in Writer /\ w.kind = "none" /\ w.pc = "idle"
  BY <1>3, NoWriterFields DEF Init
<1>5. \A s \in Searches : search[s] = NoSearch
  BY DEF Init
<1>6. Stored = Old /\ Points = Old
  BY <1>1, <1>2, TwoBuilds DEF Stored, Points
<1>7. Typed
  <2>1. search \in [Searches -> Search]
    BY NoSearchType DEF Init
  <2> QED
    BY <1>1, <1>4, <2>1 DEF Typed, Init
<1>8. WriterInv
  BY <1>4, <1>6, TwoBuilds DEF WriterInv, NewStored
<1>9. SeenInv
  BY <1>5, NoSearchUnseen DEF SeenInv, Init
<1>10. FoundInv
  BY <1>5, NoSearchFound DEF FoundInv
<1>11. AnswerInv
  BY <1>5, NoSearchType DEF AnswerInv, BestAnswer
<1>12. \A s \in Searches : search[s].pc = "idle"
  BY <1>5, NoSearchType
<1>13. IndexInv
  BY <1>12 DEF IndexInv, ReadFromStore, InIndex, Init
<1>14. LabelInv
  <2>1. \A c \in New : rows[c] = "absent"
    BY <1>1, TwoBuilds
  <2>2. WriterSigns /\ LabelsTrue
    BY <1>1, <1>4 DEF WriterSigns, LabelsTrue, Stored, Points
  <2>3. \A s \in Searches : SearchSigns(s)
    BY <1>12 DEF SearchSigns
  <2> QED
    BY <1>12, <2>1, <2>2, <2>3 DEF LabelInv
<1> QED
  BY <1>7, <1>8, <1>9, <1>10, <1>11, <1>13, <1>14 DEF RetrievalInv

\* Every step keeps it.
LEMMA RetrievalNext ==
  ASSUME RetrievalInv, [Next]_vars
  PROVE  RetrievalInv'
<1> USE DEF RetrievalInv
<1>1. CASE UNCHANGED vars
  BY <1>1 DEF vars, Typed, WriterInv, SeenInv, FoundInv, IndexInv, LabelInv, AnswerInv,
              NewStored, Stored, Points, ReadFromStore, WriterSigns, SearchSigns, NextChunk,
              Unlabelled, LabelsTrue, OneEmbedder
<1>2. CASE WriterStep
  <2>1. /\ WriterInv' /\ SeenInv' /\ FoundInv' /\ (StoreStays \/ StoreTurns)
        /\ writer' \in Writer /\ rows' \in [Chunk -> Embedder \cup {"none", "absent"}]
        /\ search' = search /\ index' = index /\ fingerprint' = fingerprint
        /\ raced' = raced
    BY <1>2, WriterKeeps
  <2>2. Typed'
    BY <1>2, <2>1, WriterShares DEF Typed
  <2>3. IndexInv'
    BY <2>1, WriterKeepsIndex
  <2>4. LabelInv'
    <3>1. CASE StartReindex \/ EmbedPassages \/ SignPassages
      BY <3>1, SignerKeepsLabels
    <3>2. CASE StartUpload \/ UpsertChunk \/ LabelChunk \/ RollBackVectors \/ UnlabelChunk
      BY <3>2, UploadKeepsLabels
    <3>3. CASE ReplaceVectors \/ StoreChunks
      BY <3>3, ReindexKeepsLabels
    <3> QED
      BY <1>2, <3>1, <3>2, <3>3 DEF WriterStep
  <2>5. AnswerInv'
    BY <2>1 DEF AnswerInv
  <2> QED
    BY <2>1, <2>2, <2>3, <2>4, <2>5
<1>3. ASSUME NEW s \in Searches,
             StartSearch(s, "parent_child") \/ StartSearch(s, "hybrid") \/ SearchStep(s)
      PROVE  RetrievalInv'
  <2>1. /\ WriterInv' /\ FoundInv' /\ AnswerInv'
        /\ \A t \in Searches : ~NewStored' => Unseen(search[t])'
        /\ search' \in [Searches -> Search] /\ Stored' = Stored /\ (NewStored' <=> NewStored)
    BY <1>3, SearchKeeps
  <2>2. /\ last' \in Embedder /\ mixed' \in BOOLEAN /\ raced' \in BOOLEAN
        /\ index' \in SUBSET Chunk /\ fingerprint' \in SUBSET Chunk
        /\ ~NewStored => index' \cap New = {} /\ fingerprint' \cap New = {}
    BY <1>3, SearchShares
  <2>3. rows' = rows /\ vectors' = vectors /\ writer' = writer
    BY <1>3, SearchLeaves
  <2>4. Typed'
    BY <2>1, <2>2, <2>3 DEF Typed
  <2>5. SeenInv'
    BY <2>1, <2>2 DEF SeenInv
  <2>6. IndexInv'
    BY <1>3, SearchKeepsIndex
  <2>7. LabelInv'
    BY <1>3, SearchKeepsLabels
  <2> QED
    BY <2>1, <2>4, <2>5, <2>6, <2>7
<1> QED
  BY <1>1, <1>2, <1>3 DEF Next

\* The inductive invariant, of every behaviour.
LEMMA RetrievalInvariant == Spec => []RetrievalInv
<1>1. Init => RetrievalInv
  BY RetrievalInit
<1>2. RetrievalInv /\ [Next]_vars => RetrievalInv'
  BY RetrievalNext
<1> QED
  BY <1>1, <1>2, PTL DEF Spec

\* How far a search walks along its two lists.
LEMMA WalkBounded ==
  ASSUME NEW q \in Search, ListsInv(q)
  PROVE  q.next <= 2 * Candidates + 1
<1>1. PICK n, a, b : n = q.next /\ a = Len(q.vector) /\ b = Len(q.lexical)
  OBVIOUS
<1>2. n \in Nat /\ a \in Nat /\ b \in Nat
  BY <1>1, SearchFields
<1>3. CASE q.strategy # "hybrid" /\ q.pc \in Gathering
  <2>1. /\ Len(q.vector) <= Candidates /\ Len(q.lexical) <= Candidates
        /\ q.next <= Len(q.vector) + Len(q.lexical) + 1
    BY <1>3 DEF ListsInv
  <2>2. n <= a + b + 1 /\ a <= Candidates /\ b <= Candidates
    BY <1>1, <2>1
  <2>3. Candidates \in Nat
    BY Constants
  <2>4. n <= 2 * Candidates + 1
    BY <1>2, <2>2, <2>3
  <2> QED
    BY <1>1, <2>4
<1>4. CASE ~(q.strategy # "hybrid" /\ q.pc \in Gathering)
  <2>1. n = 1
    BY <1>1, <1>4 DEF ListsInv
  <2> QED
    BY <1>1, <2>1, Constants
<1> QED
  BY <1>3, <1>4

\* Whatever threads share, a search stays a search: its walk ends, and its
\* answer has at most top_k hits, each with some evidence but not too much.
THEOREM SearchesBounded == Spec => []TypeOK
<1>1. ASSUME RetrievalInv PROVE TypeOK
  <2>1. ASSUME NEW s \in Searches
        PROVE  /\ search[s].next <= 2 * Candidates + 1
               /\ search[s].pc = "answered" =>
                    /\ Len(search[s].candidates) <= TopK
                    /\ \A i \in DOMAIN search[s].candidates :
                         Len(search[s].candidates[i].evidence) \in 1..MaxEvidence
    <3>1. search[s] \in Search /\ ListsInv(search[s]) /\ Bounded(search[s])
      BY <1>1 DEF RetrievalInv, Typed, FoundInv, Found
    <3> QED
      BY <3>1, WalkBounded DEF Bounded
  <2> QED
    BY <1>1, <2>1 DEF RetrievalInv, Typed, TypeOK
<1> QED
  BY <1>1, RetrievalInvariant, PTL

\* A search by words uses an index of exactly the chunks it read, however many
\* threads search, unless two of them were in _get_bm25_index at once.
THEOREM IndexIsFresh == Spec => []FreshIndex
<1>1. RetrievalInv => FreshIndex
  BY DEF RetrievalInv, IndexInv, FreshIndex
<1> QED
  BY <1>1, RetrievalInvariant, PTL

\* A label names the embedder of its vector, and scores compare vectors of one
\* embedder, while labels are written, undone or replaced.
THEOREM ScoresComparable == Spec => []NoForeignScores
<1>1. RetrievalInv => NoForeignScores
  BY DEF RetrievalInv, LabelInv, SearchSigns, NoForeignScores
<1> QED
  BY <1>1, RetrievalInvariant, PTL

\* A hit has no chunk twice as evidence and no other hit has its id; a chunk
\* under two hits, its parent block and itself, is no longer in the store.
THEOREM EvidenceCounted == Spec => []EvidenceOnce
<1>1. ASSUME RetrievalInv, NEW s \in Searches
      PROVE  /\ HitInv(search[s], Stored) /\ OneForId(search[s].candidates)
  <2>1. PICK q : q = search[s]
    OBVIOUS
  <2>2. Found(q, Stored)
    BY <1>1, <2>1 DEF RetrievalInv, FoundInv
  <2>3. CASE q.pc = "answered"
    BY <2>1, <2>2, <2>3 DEF Found, Bounded
  <2>4. CASE q.pc \in Gathering
    BY <2>1, <2>2, <2>4 DEF Found, ParentHits, ChunkHits, OneForId
  <2>5. CASE q.pc \notin Gathering \cup {"answered"}
    <3>1. q.candidates = <<>>
      BY <2>2, <2>5 DEF Found, ListsInv
    <3> QED
      BY <2>1, <2>2, <3>1 DEF Found, OneForId
  <2> QED
    BY <2>3, <2>4, <2>5
<1>2. RetrievalInv => EvidenceOnce
  BY <1>1 DEF HitInv, OneForId, ParentOf, EvidenceOnce
<1> QED
  BY <1>2, RetrievalInvariant, PTL

\* Searches rank the best first, for all limits: hits of parent_child with
\* equal scores stay in the order in which aggregate_parent_candidates found
\* them, that of ranks; those of hybrid come in any order where the rounding
\* to six digits does not tell a rank beyond FarRank from the next.
THEOREM BestRankedFirst == Spec => []BestFirst
<1>1. RetrievalInv => BestFirst
  BY DEF RetrievalInv, AnswerInv, BestAnswer, BestFirst
<1> QED
  BY <1>1, RetrievalInvariant, PTL

=============================================================================
