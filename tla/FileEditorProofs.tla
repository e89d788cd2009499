-------------------------- MODULE FileEditorProofs --------------------------
(***************************************************************************)
(* Proofs about the file editors, for any texts, lengths and histories.     *)
(* What is chosen in a text (its end, a match, a line break) is the least   *)
(* or the greatest of some positions, and there is one; so the edits yield  *)
(* texts.  Undo rests on one invariant: read from their ends, history and   *)
(* trail agree as far as the history reaches.  That insertions keep the     *)
(* lines rests on one fact about texts: the lines of a text up to a break,  *)
(* then those after it, are its lines.                                      *)
(***************************************************************************)
EXTENDS FileEditor, FiniteSetTheorems, WellFoundedInduction, SequenceTheorems, TLAPS

(* A set of positions has a least element,                                  *)
LEMMA Least ==
  ASSUME NEW N \in Nat, NEW D \in SUBSET (1 .. N), D # {}
  PROVE  \E m \in D : \A n \in D : m <= n
<1> DEFINE T == {1 .. m : m \in D}
<1>1. IsFiniteSet(1 .. N)
  BY FS_Interval
<1>2. IsWellFoundedOn(StrictSubsetOrdering(1 .. N), FiniteSubsetsOf(1 .. N))
  BY <1>1, FS_StrictSubsetOrderingWellFounded
<1>3. T \subseteq SUBSET (1 .. N) /\ T # {}
  <2>1. ASSUME NEW m \in D
        PROVE  1 .. m \in SUBSET (1 .. N)
    OBVIOUS
  <2>2. QED
    BY <2>1
<1>4. T \subseteq FiniteSubsetsOf(1 .. N)
  BY <1>1, <1>3, FS_FiniteSubsetsOfFinite
<1>5. PICK u \in T : \A v \in T : <<v, u>> \notin StrictSubsetOrdering(1 .. N)
  <2> HIDE DEF T
  <2>1. QED
    BY <1>2, <1>3, <1>4, WFMin
<1>6. PICK m \in D : u = 1 .. m
  BY <1>5
<1>7. ASSUME NEW n \in D, ~(m <= n)
      PROVE  FALSE
  <2>1. m \in Nat /\ n \in Nat /\ n < m /\ m <= N
    BY <1>7
  <2>2. 1 .. n \subseteq 1 .. m /\ m \in 1 .. m /\ m \notin 1 .. n
    BY <1>7, <2>1
  <2>3. 1 .. n \in T /\ 1 .. n \in SUBSET (1 .. N) /\ 1 .. m \in SUBSET (1 .. N)
    BY <1>7, <2>1
  <2>4. <<1 .. n, 1 .. m>> \in StrictSubsetOrdering(1 .. N)
    BY <2>2, <2>3 DEF StrictSubsetOrdering
  <2>5. QED
    BY <1>5, <1>6, <2>3, <2>4
<1>8. QED
  BY <1>7

(* and a greatest.                                                          *)
LEMMA Greatest ==
  ASSUME NEW N \in Nat, NEW D \in SUBSET (1 .. N), D # {}
  PROVE  \E m \in D : \A n \in D : n <= m
<1> DEFINE E == {N + 1 - m : m \in D}
<1>1. E \in SUBSET (1 .. N) /\ E # {}
  OBVIOUS
<1>2. PICK e \in E : \A f \in E : e <= f
  <2> HIDE DEF E
  <2>1. QED
    BY <1>1, Least
<1>3. PICK m \in D : e = N + 1 - m
  BY <1>2
<1>4. ASSUME NEW n \in D
      PROVE  n <= m
  <2>1. N + 1 - n \in E
    OBVIOUS
  <2>2. e <= N + 1 - n
    BY <1>2, <2>1
  <2>3. m \in Nat /\ n \in Nat
    OBVIOUS
  <2>4. QED
    BY <1>3, <2>2, <2>3
<1>5. QED
  BY <1>4

-----------------------------------------------------------------------------
(* Ends                                                                     *)

(* Where a sequence ends without the x at its end.                          *)
LEMMA EndingIs ==
  ASSUME NEW S, NEW s \in Seq(S), NEW x
  PROVE  /\ Ending(s, x) \in 0 .. Len(s)
         /\ Ending(s, x) > 0 => s[Ending(s, x)] # x
         /\ \A i \in Ending(s, x) + 1 .. Len(s) : s[i] = x
<1> DEFINE D == {n \in 1 .. Len(s) : s[n] # x}
<1>1. Len(s) \in Nat /\ D \in SUBSET (1 .. Len(s))
  OBVIOUS
<1>2. \E n \in 0 .. Len(s) : (n > 0 => s[n] # x) /\ \A i \in n + 1 .. Len(s) : s[i] = x
  <2>1. CASE D = {}
    <3>1. \A i \in 0 + 1 .. Len(s) : s[i] = x
      BY <2>1
    <3>2. 0 \in 0 .. Len(s)
      BY <1>1
    <3>3. QED
      BY <3>1, <3>2
  <2>2. CASE D # {}
    <3>1. PICK m \in D : \A n \in D : n <= m
      <4> HIDE DEF D
      <4>1. QED
        BY <1>1, <2>2, Greatest
    <3>2. m \in 0 .. Len(s) /\ s[m] # x
      BY <1>1
    <3>3. ASSUME NEW i \in m + 1 .. Len(s)
          PROVE  s[i] = x
      <4>1. i \in 1 .. Len(s) /\ ~(i <= m)
        BY <1>1, <3>2
      <4>2. QED
        BY <3>1, <4>1
    <3>4. QED
      BY <3>2, <3>3
  <2>3. QED
    BY <2>1, <2>2
<1>3. QED
  BY <1>2 DEF Ending

(* There is one such place.                                                 *)
LEMMA EndingUnique ==
  ASSUME NEW S, NEW s \in Seq(S), NEW x, NEW n \in 0 .. Len(s),
         n > 0 => s[n] # x, \A i \in n + 1 .. Len(s) : s[i] = x
  PROVE  Ending(s, x) = n
<1> DEFINE e == Ending(s, x)
<1>1. e \in 0 .. Len(s) /\ (e > 0 => s[e] # x) /\ \A i \in e + 1 .. Len(s) : s[i] = x
  BY EndingIs
<1> HIDE DEF e
<1>2. Len(s) \in Nat
  OBVIOUS
<1>3. ~(e < n)
  <2>1. e < n => n \in e + 1 .. Len(s) /\ n > 0
    BY <1>1, <1>2
  <2>2. QED
    BY <1>1, <2>1
<1>4. ~(n < e)
  <2>1. n < e => e \in n + 1 .. Len(s) /\ e > 0
    BY <1>1, <1>2
  <2>2. QED
    BY <1>1, <2>1
<1>5. e = n
  BY <1>1, <1>3, <1>4
<1>6. QED
  BY <1>5 DEF e

(* A prefix, and any part of a text that lies in it, is a text.             *)
LEMMA PartIsSeq ==
  ASSUME NEW S, NEW s \in Seq(S), NEW m \in Nat, NEW n \in Nat, m >= 1, n <= Len(s)
  PROVE  SubSeq(s, m, n) \in Seq(S)
<1>1. Len(s) \in Nat /\ \A i \in 1 .. Len(s) : s[i] \in S
  OBVIOUS
<1>2. \A i \in m .. n : s[i] \in S
  BY <1>1
<1>3. QED
  BY <1>2, SubSeqProperties

(* Chomping a sequence leaves one.                                          *)
LEMMA ChompIsSeq ==
  ASSUME NEW S, NEW s \in Seq(S), NEW x
  PROVE  Chomp(s, x) \in Seq(S)
<1>1. Ending(s, x) \in Nat /\ Ending(s, x) <= Len(s)
  BY EndingIs
<1>2. QED
  BY <1>1, PartIsSeq DEF Chomp

(* Chomping twice, or after adding one more x, is chomping once.            *)
LEMMA ChompOnce ==
  ASSUME NEW S, NEW s \in Seq(S), NEW x \in S
  PROVE  /\ Chomp(Chomp(s, x), x) = Chomp(s, x)
         /\ Chomp(Append(Chomp(s, x), x), x) = Chomp(s, x)
<1> DEFINE e == Ending(s, x)
           v == Chomp(s, x)
           w == Append(v, x)
<1>1. e \in 0 .. Len(s) /\ (e > 0 => s[e] # x) /\ Len(s) \in Nat
  BY EndingIs
<1>2. v = SubSeq(s, 1, e)
  BY DEF Chomp
<1>3. v \in Seq(S)
  BY ChompIsSeq
<1>4. Len(v) = e /\ \A i \in 1 .. e : v[i] = s[i]
  <2> HIDE DEF e
  <2>1. QED
    BY <1>1, <1>2
<1>5. /\ w \in Seq(S) /\ Len(w) = e + 1 /\ w[e + 1] = x
      /\ \A i \in 1 .. e : w[i] = v[i]
  <2> HIDE DEF e, v
  <2>1. QED
    BY <1>1, <1>3, <1>4, AppendProperties
<1> HIDE DEF e, v, w
<1>6. Ending(v, x) = e
  <2>1. e \in 0 .. Len(v) /\ (e > 0 => v[e] # x) /\ \A i \in e + 1 .. Len(v) : v[i] = x
    BY <1>1, <1>4
  <2>2. QED
    BY <1>3, <2>1, EndingUnique
<1>7. Ending(w, x) = e
  <2>1. e \in 0 .. Len(w) /\ (e > 0 => w[e] # x)
    BY <1>1, <1>4, <1>5
  <2>2. \A i \in e + 1 .. Len(w) : w[i] = x
    BY <1>1, <1>5
  <2>3. QED
    BY <1>5, <2>1, <2>2, EndingUnique
<1>8. SubSeq(v, 1, e) = v
  BY <1>3, <1>4, SubSeqFull
<1>9. SubSeq(w, 1, e) = v
  BY <1>1, <1>3, <1>4, <1>5
<1>10. QED
  BY <1>6, <1>7, <1>8, <1>9 DEF Chomp, v, w

-----------------------------------------------------------------------------
(* Matches and line breaks                                                  *)

(* Where a sequence begins without the x in front.                          *)
LEMMA BeginningIs ==
  ASSUME NEW S, NEW s \in Seq(S), NEW x
  PROVE  Beginning(s, x) \in 1 .. Len(s) + 1
<1> DEFINE D == {n \in 1 .. Len(s) : s[n] # x}
<1>1. Len(s) \in Nat /\ D \in SUBSET (1 .. Len(s))
  OBVIOUS
<1>2. \E n \in 1 .. Len(s) + 1 :
          (n <= Len(s) => s[n] # x) /\ \A i \in 1 .. n - 1 : s[i] = x
  <2>1. CASE D = {}
    <3>1. \A i \in 1 .. (Len(s) + 1) - 1 : s[i] = x
      BY <1>1, <2>1
    <3>2. Len(s) + 1 \in 1 .. Len(s) + 1 /\ ~(Len(s) + 1 <= Len(s))
      BY <1>1
    <3>3. QED
      BY <3>1, <3>2
  <2>2. CASE D # {}
    <3>1. PICK m \in D : \A n \in D : m <= n
      <4> HIDE DEF D
      <4>1. QED
        BY <1>1, <2>2, Least
    <3>2. m \in 1 .. Len(s) + 1 /\ s[m] # x /\ m \in 1 .. Len(s)
      BY <1>1
    <3>3. ASSUME NEW i \in 1 .. m - 1
          PROVE  s[i] = x
      <4>1. i \in 1 .. Len(s) /\ ~(m <= i)
        BY <1>1, <3>2
      <4>2. QED
        BY <3>1, <4>1
    <3>4. QED
      BY <3>2, <3>3
  <2>3. QED
    BY <2>1, <2>2
<1>3. QED
  BY <1>2 DEF Beginning

(* Trimming a sequence leaves one.                                          *)
LEMMA TrimIsSeq ==
  ASSUME NEW S, NEW s \in Seq(S), NEW x
  PROVE  Trim(s, x) \in Seq(S)
<1>1. Beginning(s, x) \in 1 .. Len(s) + 1 /\ Len(s) \in Nat
  BY BeginningIs
<1>2. SubSeq(s, Beginning(s, x), Len(s)) \in Seq(S)
  BY <1>1, PartIsSeq
<1>3. QED
  BY <1>2, ChompIsSeq DEF Trim

(* The first match lies in the text.                                        *)
LEMMA FirstIs ==
  ASSUME NEW S, NEW s \in Seq(S), NEW o \in Seq(S), Matches(s, o) # {}
  PROVE  First(s, o) \in 1 .. Len(s) + 1 - Len(o)
<1> DEFINE N == Len(s) + 1 - Len(o)
<1>1. Matches(s, o) \in SUBSET (1 .. N) /\ N \in Int
  BY DEF Matches
<1>2. N \in Nat
  <2>1. PICK p \in 1 .. N : TRUE
    BY <1>1
  <2>2. QED
    BY <1>1, <2>1
<1> HIDE DEF N
<1>3. \E m \in Matches(s, o) : \A n \in Matches(s, o) : m <= n
  BY <1>1, <1>2, Least
<1>4. First(s, o) \in Matches(s, o)
  BY <1>3 DEF First
<1>5. QED
  BY <1>1, <1>4 DEF N

(* Replacing the first match leaves a sequence.                             *)
LEMMA ReplacedIsSeq ==
  ASSUME NEW S, NEW s \in Seq(S), NEW o \in Seq(S), NEW n \in Seq(S), Matches(s, o) # {}
  PROVE  Replaced(s, o, n) \in Seq(S)
<1> DEFINE p == First(s, o)
<1>1. p \in 1 .. Len(s) + 1 - Len(o) /\ Len(s) \in Nat /\ Len(o) \in Nat
  BY FirstIs
<1>2. Replaced(s, o, n) = SubSeq(s, 1, p - 1) \o n \o SubSeq(s, p + Len(o), Len(s))
  BY DEF Replaced
<1> HIDE DEF p
<1>3. p - 1 \in Nat /\ p - 1 <= Len(s) /\ p + Len(o) \in Nat /\ p + Len(o) >= 1
  BY <1>1
<1>4. SubSeq(s, 1, p - 1) \in Seq(S)
  BY <1>3, PartIsSeq
<1>5. SubSeq(s, p + Len(o), Len(s)) \in Seq(S)
  BY <1>1, <1>3, PartIsSeq
<1>6. QED
  BY <1>2, <1>4, <1>5, ConcatProperties

(* The break that ends the k-th line exists.                                *)
LEMMA BreakIs ==
  ASSUME NEW S, NEW s \in Seq(S), NEW k \in Nat \ {0}, k <= Cardinality(Breaks(s))
  PROVE  /\ Break(s, k) \in 1 .. Len(s) /\ Break(s, k) \in Breaks(s)
         /\ Cardinality({q \in Breaks(s) : q <= Break(s, k)}) = k
<1> DEFINE B == Breaks(s)
           Upto(p) == {q \in B : q <= p}
           D == {p \in 1 .. Len(s) : k <= Cardinality(Upto(p))}
<1>1. Len(s) \in Nat /\ B \in SUBSET (1 .. Len(s))
  BY DEF Breaks
<1>2. IsFiniteSet(B) /\ Cardinality(B) \in Nat
  <2> HIDE DEF B
  <2>1. IsFiniteSet(1 .. Len(s))
    BY <1>1, FS_Interval
  <2>2. QED
    BY <1>1, <2>1, FS_Subset, FS_CardinalityType
<1>3. ASSUME NEW p \in Int
      PROVE  IsFiniteSet(Upto(p)) /\ Cardinality(Upto(p)) \in Nat
  <2>1. Upto(p) \in SUBSET B
    OBVIOUS
  <2> HIDE DEF B, Upto
  <2>2. QED
    BY <1>2, <2>1, FS_Subset, FS_CardinalityType
<1>4. B # {}
  <2> HIDE DEF B
  <2>1. B = {} => Cardinality(B) = 0
    BY FS_EmptySet
  <2>2. k <= Cardinality(B) /\ ~(k <= 0)
    BY DEF B
  <2>3. QED
    BY <2>1, <2>2
<1>5. D # {}
  <2>1. Upto(Len(s)) = B
    BY <1>1
  <2>2. Len(s) \in 1 .. Len(s)
    <3>1. PICK q \in B : TRUE
      BY <1>4
    <3> HIDE DEF B
    <3>2. q \in 1 .. Len(s)
      BY <1>1
    <3>3. QED
      BY <1>1, <3>2
  <2>3. QED
    BY <2>1, <2>2
<1>6. PICK m \in D : \A n \in D : m <= n
  <2>1. D \in SUBSET (1 .. Len(s))
    OBVIOUS
  <2> HIDE DEF D
  <2>2. QED
    BY <1>1, <1>5, <2>1, Least
<1>7. m \in 1 .. Len(s) /\ k <= Cardinality(Upto(m))
  BY <1>6
<1>8. Cardinality(Upto(m - 1)) < k
  <2>1. CASE m = 1
    <3>1. Upto(m - 1) = {}
      BY <1>1, <2>1
    <3>2. Cardinality(Upto(m - 1)) = 0
      BY <3>1, FS_EmptySet
    <3>3. QED
      BY <3>2
  <2>2. CASE m # 1
    <3>1. m - 1 \in 1 .. Len(s) /\ ~(m <= m - 1)
      BY <1>1, <1>7, <2>2
    <3>2. m - 1 \notin D
      BY <1>6, <3>1
    <3>3. ~(k <= Cardinality(Upto(m - 1)))
      BY <3>1, <3>2
    <3>4. m - 1 \in Int
      BY <3>1
    <3> HIDE DEF Upto
    <3>5. Cardinality(Upto(m - 1)) \in Nat
      BY <1>3, <3>4
    <3>6. QED
      BY <3>3, <3>5
  <2>3. QED
    BY <2>1, <2>2
<1>9. m \in B /\ Upto(m) = Upto(m - 1) \cup {m}
  <2>1. CASE m \in B
    <3>1. \A q \in B : q <= m <=> q <= m - 1 \/ q = m
      BY <1>1, <1>7
    <3>2. QED
      BY <2>1, <3>1
  <2>2. CASE m \notin B
    <3>1. \A q \in B : q <= m <=> q <= m - 1
      BY <1>1, <1>7, <2>2
    <3>2. Upto(m) = Upto(m - 1)
      BY <3>1
    <3>3. m - 1 \in Int
      BY <1>7
    <3>4. Cardinality(Upto(m - 1)) \in Nat
      BY <1>3, <3>3
    <3> HIDE DEF Upto
    <3>5. QED
      BY <1>7, <1>8, <3>2, <3>4
  <2>3. QED
    BY <2>1, <2>2
<1>10. Cardinality(Upto(m)) = k
  <2>1. m - 1 \in Int /\ m \in Int
    BY <1>7
  <2>2. /\ IsFiniteSet(Upto(m - 1)) /\ Cardinality(Upto(m - 1)) \in Nat
        /\ Cardinality(Upto(m)) \in Nat
    BY <1>3, <2>1
  <2> HIDE DEF Upto
  <2>3. \/ Cardinality(Upto(m)) = Cardinality(Upto(m - 1))
        \/ Cardinality(Upto(m)) = Cardinality(Upto(m - 1)) + 1
    BY <1>9, <2>2, FS_AddElement
  <2>4. QED
    BY <1>7, <1>8, <2>2, <2>3
<1>11. Break(s, k) \in B /\ Cardinality(Upto(Break(s, k))) = k
  BY <1>9, <1>10 DEF Break
<1>12. QED
  BY <1>1, <1>11

(* A text with lines after its k-th is a text, whichever the number of its  *)
(* lines.                                                                   *)
LEMMA SplicedIsText ==
  ASSUME NEW s \in Text, NEW k \in Nat, NEW t \in Text
  PROVE  Spliced(s, k, t) \in Text
<1> DEFINE S == Words \cup {Nl}
<1>1. s \in Seq(S) /\ t \in Seq(S) /\ <<Nl>> \in Seq(S) /\ Len(s) \in Nat
  BY DEF Text
<1>2. CASE k = 0
  BY <1>1, <1>2 DEF Spliced, Text
<1>3. CASE k # 0 /\ k <= Cardinality(Breaks(s))
  <2>1. Break(s, k) \in 1 .. Len(s)
    BY <1>1, <1>3, BreakIs
  <2>2. Break(s, k) \in Nat /\ Break(s, k) <= Len(s) /\ Break(s, k) + 1 \in Nat /\ Break(s, k) + 1 >= 1
    BY <1>1, <2>1
  <2>3. SubSeq(s, 1, Break(s, k)) \in Seq(S) /\ SubSeq(s, Break(s, k) + 1, Len(s)) \in Seq(S)
    BY <1>1, <2>2, PartIsSeq
  <2>4. Spliced(s, k, t) =
            SubSeq(s, 1, Break(s, k)) \o t \o <<Nl>> \o SubSeq(s, Break(s, k) + 1, Len(s))
    BY <1>3 DEF Spliced
  <2>5. QED
    BY <1>1, <2>3, <2>4, ConcatProperties DEF Text
<1>4. CASE k # 0 /\ ~(k <= Cardinality(Breaks(s)))
  BY <1>1, <1>4, ConcatProperties DEF Spliced, Text
<1>5. QED
  BY <1>2, <1>3, <1>4

-----------------------------------------------------------------------------
(* Types                                                                    *)

(* What is read and what is written of a text are texts.                    *)
LEMMA TextsFit ==
  ASSUME NEW s \in Text
  PROVE  Read(s) \in Text /\ Written(s) \in Text
<1>1. Chomp(s, Nl) \in Text
  BY ChompIsSeq DEF Text
<1>2. Append(s, Nl) \in Text
  BY DEF Text
<1>3. QED
  BY <1>1, <1>2 DEF Read, Written

(* So is what a failed write leaves.                                        *)
LEMMA TornIsText ==
  ASSUME NEW s \in Text, file \in Text \cup {NoFile}
  PROVE  Torn(s) \subseteq Text \cup {NoFile}
<1>1. Written(s) \in Text
  BY TextsFit
<1>2. ASSUME NEW n \in Cuts, n <= Len(Written(s))
      PROVE  SubSeq(Written(s), 1, n) \in Text
  <2>1. n \in Nat
    BY EditorAssumption
  <2>2. QED
    BY <1>1, <1>2, <2>1, PartIsSeq DEF Text
<1>3. QED
  BY <1>1, <1>2 DEF Torn

(* What str_replace looks for and what it puts there are texts.             *)
LEMMA AskedAreTexts ==
  ASSUME NEW o \in Text, NEW n \in Text
  PROVE  Asked(o, n)[1] \in Text /\ Asked(o, n)[2] \in Text
<1>1. Trim(o, Nl) \in Text /\ Trim(n, Nl) \in Text
  BY TrimIsSeq DEF Text
<1>2. QED
  BY <1>1 DEF Asked

(* A replacement that the editor makes yields a text,                       *)
LEMMA ReplacedIsText ==
  ASSUME TypeOK, NEW o \in Text, NEW n \in Text, CanReplace(o, n)
  PROVE  /\ file \in Text
         /\ Replaced(Read(file), Asked(o, n)[1], Asked(o, n)[2]) \in Text
<1>1. file \in Text
  BY DEF TypeOK, CanReplace
<1>2. Read(file) \in Text /\ Asked(o, n)[1] \in Text /\ Asked(o, n)[2] \in Text
  BY <1>1, TextsFit, AskedAreTexts
<1>3. Matches(Read(file), Asked(o, n)[1]) # {}
  BY DEF CanReplace, OccursOnce
<1>4. QED
  BY <1>1, <1>2, <1>3, ReplacedIsSeq DEF Text

(* and so does an insertion.                                                *)
LEMMA InsertedIsText ==
  ASSUME TypeOK, NEW k \in Nat, NEW t \in Text, CanInsert(k)
  PROVE  file \in Text /\ Spliced(Read(file), k, t) \in Text
<1>1. file \in Text
  BY DEF TypeOK, CanInsert
<1>2. QED
  BY <1>1, TextsFit, SplicedIsText

(* The last entry of a history, and the ones before it.                     *)
LEMMA FrontIsSeq ==
  ASSUME NEW S, NEW s \in Seq(S), s # <<>>
  PROVE  /\ Last(s) \in S
         /\ Front(s) \in Seq(S)
         /\ Len(Front(s)) = Len(s) - 1
         /\ \A i \in 1 .. Len(s) - 1 : Front(s)[i] = s[i]
<1>1. Len(s) \in Nat \ {0} /\ \A i \in 1 .. Len(s) : s[i] \in S
  OBVIOUS
<1>2. Last(s) \in S
  BY <1>1 DEF Last
<1> DEFINE n == Len(s) - 1
<1>3. n \in Nat /\ n - 1 + 1 = n /\ \A i \in 1 .. n : s[i] \in S
  BY <1>1
<1> HIDE DEF n
<1>4. /\ SubSeq(s, 1, n) \in Seq(S)
      /\ Len(SubSeq(s, 1, n)) = IF 1 <= n THEN n - 1 + 1 ELSE 0
      /\ \A i \in 1 .. n - 1 + 1 : SubSeq(s, 1, n)[i] = s[1 + i - 1]
  BY <1>3, SubSeqProperties
<1>5. Len(SubSeq(s, 1, n)) = n
  BY <1>3, <1>4
<1>6. ASSUME NEW i \in 1 .. n
      PROVE  SubSeq(s, 1, n)[i] = s[i]
  <2>1. i \in 1 .. n - 1 + 1 /\ 1 + i - 1 = i
    BY <1>3
  <2>2. SubSeq(s, 1, n)[i] = s[1 + i - 1]
    BY <1>4, <2>1
  <2>3. QED
    BY <2>1, <2>2
<1>7. QED
  BY <1>2, <1>4, <1>5, <1>6 DEF Front, n

(* The history after an edit: its limit, and which entries it has.          *)
LEMMA RememberIs ==
  ASSUME TypeOK, NEW h \in Text
  PROVE  /\ Remember(h) \in Seq(Text)
         /\ ~Script => Len(Remember(h)) <= MaxHistory
         /\ Len(Remember(h)) \in 1 .. Len(history) + 1
         /\ Remember(h)[Len(Remember(h))] = h
         /\ \A i \in 1 .. Len(Remember(h)) - 1 :
                Remember(h)[Len(Remember(h)) - i] = history[Len(history) + 1 - i]
<1>1. history \in Seq(Text) /\ Len(history) \in Nat /\ MaxHistory \in Nat \ {0}
  BY EditorAssumption DEF TypeOK
<1>2. CASE ~Script /\ Len(history) >= MaxHistory
  <2> DEFINE g == Tail(history)
  <2>1. history # <<>> /\ Len(history) <= MaxHistory
    BY <1>1, <1>2 DEF TypeOK
  <2>2. /\ g \in Seq(Text) /\ Len(g) = Len(history) - 1
        /\ \A i \in 1 .. Len(g) : g[i] = history[i + 1]
    BY <1>1, <2>1, HeadTailProperties
  <2>3. Remember(h) = Append(g, h)
    BY <1>2 DEF Remember
  <2> HIDE DEF g
  <2>4. /\ Remember(h) \in Seq(Text) /\ Len(Remember(h)) = Len(g) + 1
        /\ Remember(h)[Len(g) + 1] = h
        /\ \A i \in 1 .. Len(g) : Remember(h)[i] = g[i]
    BY <2>2, <2>3, AppendProperties
  <2>5. ASSUME NEW i \in 1 .. Len(Remember(h)) - 1
        PROVE  Remember(h)[Len(Remember(h)) - i] = history[Len(history) + 1 - i]
    <3>1. Len(Remember(h)) - i \in 1 .. Len(g) /\ (Len(Remember(h)) - i) + 1 = Len(history) + 1 - i
      BY <1>1, <2>2, <2>4
    <3>2. Remember(h)[Len(Remember(h)) - i] = history[(Len(Remember(h)) - i) + 1]
      BY <2>2, <2>4, <3>1
    <3>3. QED
      BY <3>1, <3>2
  <2>6. Len(Remember(h)) \in 1 .. Len(history) + 1 /\ Len(Remember(h)) <= MaxHistory
    BY <1>1, <1>2, <2>1, <2>2, <2>4
  <2>7. QED
    BY <2>2, <2>4, <2>5, <2>6
<1>3. CASE ~(~Script /\ Len(history) >= MaxHistory)
  <2>1. Remember(h) = Append(history, h)
    BY <1>3 DEF Remember
  <2>2. /\ Remember(h) \in Seq(Text) /\ Len(Remember(h)) = Len(history) + 1
        /\ Remember(h)[Len(history) + 1] = h
        /\ \A i \in 1 .. Len(history) : Remember(h)[i] = history[i]
    BY <1>1, <2>1, AppendProperties
  <2>3. ~Script => Len(Remember(h)) <= MaxHistory
    BY <1>1, <1>3, <2>2
  <2>4. ASSUME NEW i \in 1 .. Len(Remember(h)) - 1
        PROVE  Remember(h)[Len(Remember(h)) - i] = history[Len(history) + 1 - i]
    <3>1. Len(Remember(h)) - i \in 1 .. Len(history) /\ Len(Remember(h)) - i = Len(history) + 1 - i
      BY <1>1, <2>2
    <3>2. QED
      BY <2>2, <3>1
  <2>5. QED
    BY <1>1, <2>2, <2>3, <2>4
<1>4. QED
  BY <1>2, <1>3

-----------------------------------------------------------------------------
(* The invariant                                                            *)

(* From their ends, as far as the history goes, history and trail agree; a  *)
(* file that was not there yet is no text to agree with.                    *)
Aligned ==
    intact =>
        /\ Len(history) <= Len(trail)
        /\ \A i \in 0 .. Len(history) - 1 :
              trail[Len(trail) - i] # NoFile => history[Len(history) - i] = Read(trail[Len(trail) - i])

Inv == TypeOK /\ Aligned

(* An edit adds to both, undo takes from both.                              *)
LEMMA EditKeepsAligned ==
  ASSUME Inv, NEW h \in Text, NEW t \in Text \cup {NoFile}, t # NoFile => h = Read(t),
         history' = Remember(h), trail' = Trailed(Append(trail, t)),
         UNCHANGED <<editor, intact>>
  PROVE  /\ history' \in Seq(Text) /\ (~Script => Len(history') <= MaxHistory)
         /\ trail' \in Seq(Text \cup {NoFile})
         /\ Aligned'
<1>1. /\ history' \in Seq(Text) /\ (~Script => Len(history') <= MaxHistory)
      /\ Len(history') \in 1 .. Len(history) + 1 /\ history'[Len(history')] = h
      /\ \A i \in 1 .. Len(history') - 1 :
            history'[Len(history') - i] = history[Len(history) + 1 - i]
  BY RememberIs DEF Inv
<1>2. /\ history \in Seq(Text) /\ Len(history) \in Nat
      /\ trail \in Seq(Text \cup {NoFile}) /\ Len(trail) \in Nat
  BY DEF Inv, TypeOK
<1>3. /\ Append(trail, t) \in Seq(Text \cup {NoFile}) /\ Len(Append(trail, t)) = Len(trail) + 1
      /\ Append(trail, t)[Len(trail) + 1] = t
      /\ \A i \in 1 .. Len(trail) : Append(trail, t)[i] = trail[i]
  BY <1>2, AppendProperties
<1>4. trail' \in Seq(Text \cup {NoFile})
  BY <1>3 DEF Trailed
<1>5. ASSUME intact
      PROVE  Aligned'
  <2>1. /\ trail' = Append(trail, t) /\ Len(trail') = Len(trail) + 1
        /\ trail'[Len(trail) + 1] = t /\ \A i \in 1 .. Len(trail) : trail'[i] = trail[i]
    BY <1>3, <1>5 DEF Trailed
  <2>2. Len(history) <= Len(trail) /\ Len(history') \in Nat /\ Len(history') <= Len(trail')
    BY <1>1, <1>2, <1>5, <2>1 DEF Inv, Aligned
  <2>3. ASSUME NEW i \in 0 .. Len(history') - 1, trail'[Len(trail') - i] # NoFile
        PROVE  history'[Len(history') - i] = Read(trail'[Len(trail') - i])
    <3>1. CASE i = 0
      <4>1. Len(trail') - i = Len(trail) + 1 /\ Len(history') - i = Len(history')
        BY <1>2, <2>1, <2>2, <3>1
      <4>2. QED
        BY <1>1, <2>1, <2>3, <4>1
    <3>2. CASE i # 0
      <4>1. /\ i \in 1 .. Len(history') - 1 /\ i - 1 \in 0 .. Len(history) - 1
            /\ Len(trail') - i = Len(trail) - (i - 1) /\ Len(trail) - (i - 1) \in 1 .. Len(trail)
            /\ Len(history) + 1 - i = Len(history) - (i - 1)
        BY <1>1, <1>2, <2>1, <2>2, <3>2
      <4>2. trail'[Len(trail') - i] = trail[Len(trail) - (i - 1)]
        BY <2>1, <4>1
      <4>3. history'[Len(history') - i] = history[Len(history) - (i - 1)]
        BY <1>1, <4>1
      <4>4. history[Len(history) - (i - 1)] = Read(trail[Len(trail) - (i - 1)])
        BY <1>5, <2>3, <4>1, <4>2 DEF Inv, Aligned
      <4>5. QED
        BY <4>2, <4>3, <4>4
    <3>3. QED
      BY <3>1, <3>2
  <2>4. \A i \in 0 .. Len(history') - 1 :
            trail'[Len(trail') - i] # NoFile =>
                history'[Len(history') - i] = Read(trail'[Len(trail') - i])
    BY <2>3
  <2>5. \A s : Read(s)' = Read(s)
    BY DEF Read, Script
  <2>6. QED
    BY <2>2, <2>4, <2>5 DEF Aligned, Read, Script
<1>6. ASSUME ~intact
      PROVE  Aligned'
  BY <1>6 DEF Aligned
<1>7. QED
  BY <1>1, <1>4, <1>5, <1>6

(* A successful edit keeps the invariant,                                   *)
LEMMA EditedKeepsInv ==
  ASSUME Inv, NEW s \in Text, file \in Text, Edited(s)
  PROVE  Inv'
<1>1. Read(file) \in Text /\ Written(s) \in Text
  BY TextsFit
<1>2. history' = Remember(Read(file)) /\ trail' = Trailed(Append(trail, file))
  BY DEF Edited
<1>3. UNCHANGED <<editor, intact>> /\ file' = Written(s)
  BY DEF Edited
<1>4. /\ history' \in Seq(Text) /\ (~Script => Len(history') <= MaxHistory)
      /\ trail' \in Seq(Text \cup {NoFile})
      /\ Aligned'
  BY <1>1, <1>2, <1>3, EditKeepsAligned
<1>5. QED
  BY <1>1, <1>3, <1>4 DEF Inv, TypeOK, Script

(* and a call that leaves the editor estranged ends the claim it makes.     *)
LEMMA EstrangedKeepsInv ==
  ASSUME Inv, Estranged, file' \in Text \cup {NoFile},
         history' \in Seq(Text), ~Script => Len(history') <= MaxHistory
  PROVE  Inv'
<1>1. editor' = editor /\ intact' = FALSE /\ trail' = <<>>
  BY DEF Estranged
<1>2. Aligned'
  BY <1>1 DEF Aligned
<1>3. <<>> \in Seq(Text \cup {NoFile}) /\ FALSE \in BOOLEAN
  OBVIOUS
<1>4. TypeOK'
  BY <1>1, <1>3 DEF Inv, TypeOK, Script
<1>5. QED
  BY <1>2, <1>4 DEF Inv

(* Histories that survive a call of the script are histories; the tool's is *)
(* the one it made.                                                         *)
LEMMA OutlivedIs ==
  ASSUME NEW h \in Seq(Text), NEW g \in Outlived(h), history \in Seq(Text)
  PROVE  g \in Seq(Text) /\ (~Script => g = h)
<1>1. <<>> \in Seq(Text)
  OBVIOUS
<1>2. g = h \/ (Script /\ g \in {history, <<>>})
  BY DEF Outlived
<1>3. QED
  BY <1>1, <1>2

(* So does a step that changes no more than the file.                       *)
LEMMA AsideKeepsInv ==
  ASSUME Inv, file' \in Text \cup {NoFile}, UNCHANGED <<editor, history, trail, intact>>
  PROVE  Inv'
BY DEF Inv, TypeOK, Aligned, Script, Read

(* A failed edit keeps it, whichever of its steps has failed;               *)
LEMMA EditFailsKeepsInv ==
  ASSUME Inv, NEW s \in Text, file \in Text, EditFails(s)
  PROVE  Inv'
<1>1. file' \in Text \cup {NoFile}
  BY TornIsText DEF EditFails
<1>2. CASE UNCHANGED <<editor, history, trail, intact>>
  BY <1>1, <1>2, AsideKeepsInv
<1>3. CASE Script /\ history' \in Outlived(Remember(Read(file))) /\ Estranged
  <2>1. Remember(Read(file)) \in Seq(Text)
    BY TextsFit, RememberIs DEF Inv
  <2>2. history' \in Seq(Text)
    BY <1>3, <2>1, OutlivedIs DEF Inv, TypeOK
  <2>3. QED
    BY <1>1, <1>3, <2>2, EstrangedKeepsInv
<1>4. QED
  BY <1>2, <1>3 DEF EditFails

(* The history's last entry and the rest, when undo takes it.               *)
LEMMA UndoneIs ==
  ASSUME Inv, CanUndo
  PROVE  /\ Last(history) \in Text /\ Front(history) \in Seq(Text)
         /\ Len(Front(history)) = Len(history) - 1 /\ Len(history) \in Nat \ {0}
         /\ \A i \in 1 .. Len(history) - 1 : Front(history)[i] = history[i]
         /\ ~Script => Len(Front(history)) <= MaxHistory
<1>1. history \in Seq(Text) /\ history # <<>> /\ Len(history) \in Nat \ {0}
      /\ MaxHistory \in Nat
  BY EditorAssumption DEF Inv, TypeOK, CanUndo
<1>2. /\ Last(history) \in Text /\ Front(history) \in Seq(Text)
      /\ Len(Front(history)) = Len(history) - 1
      /\ \A i \in 1 .. Len(history) - 1 : Front(history)[i] = history[i]
  BY <1>1, FrontIsSeq
<1>3. ~Script => Len(history) <= MaxHistory
  BY DEF Inv, TypeOK
<1>4. QED
  BY <1>1, <1>2, <1>3

(* Undo keeps the invariant,                                                *)
LEMMA UndoKeepsInv ==
  ASSUME Inv, Undo
  PROVE  Inv'
<1>1. /\ Last(history) \in Text /\ Front(history) \in Seq(Text)
      /\ Len(Front(history)) = Len(history) - 1 /\ Len(history) \in Nat \ {0}
      /\ \A i \in 1 .. Len(history) - 1 : Front(history)[i] = history[i]
      /\ ~Script => Len(Front(history)) <= MaxHistory
  BY UndoneIs DEF Undo
<1>2. /\ UNCHANGED <<editor, intact>> /\ history' = Front(history)
      /\ file' \in Text /\ trail' = Trailed(Front(trail))
  BY <1>1, TextsFit DEF Undo
<1>3. CASE ~intact
  <2>1. trail' = <<>>
    BY <1>2, <1>3 DEF Trailed
  <2>2. QED
    BY <1>1, <1>2, <1>3, <2>1 DEF Inv, TypeOK, Aligned, Script
<1>4. CASE intact
  <2>1. /\ trail \in Seq(Text \cup {NoFile}) /\ Len(trail) \in Nat
        /\ Len(history) <= Len(trail)
    BY <1>4 DEF Inv, TypeOK, Aligned
  <2>2. trail # <<>>
    BY <1>1, <2>1
  <2>3. /\ trail' \in Seq(Text \cup {NoFile}) /\ Len(trail') = Len(trail) - 1
        /\ \A i \in 1 .. Len(trail) - 1 : trail'[i] = trail[i]
    BY <1>2, <1>4, <2>1, <2>2, FrontIsSeq DEF Trailed
  <2>4. /\ Len(history') = Len(history) - 1
        /\ \A i \in 1 .. Len(history) - 1 : history'[i] = history[i]
    BY <1>1, <1>2
  <2>5. ASSUME NEW i \in 0 .. Len(history') - 1, trail'[Len(trail') - i] # NoFile
        PROVE  history'[Len(history') - i] = Read(trail'[Len(trail') - i])
    <3>1. /\ i + 1 \in 0 .. Len(history) - 1
          /\ Len(trail') - i = Len(trail) - (i + 1) /\ Len(trail') - i \in 1 .. Len(trail) - 1
          /\ Len(history') - i = Len(history) - (i + 1) /\ Len(history') - i \in 1 .. Len(history) - 1
      BY <1>1, <2>1, <2>3, <2>4
    <3>2. /\ trail'[Len(trail') - i] = trail[Len(trail) - (i + 1)]
          /\ history'[Len(history') - i] = history[Len(history) - (i + 1)]
      BY <2>3, <2>4, <3>1
    <3>3. history[Len(history) - (i + 1)] = Read(trail[Len(trail) - (i + 1)])
      BY <1>4, <2>5, <3>1, <3>2 DEF Inv, Aligned
    <3>4. QED
      BY <3>2, <3>3
  <2>6. Len(history') <= Len(trail')
    BY <1>1, <2>1, <2>3, <2>4
  <2>7. \A i \in 0 .. Len(history') - 1 :
            trail'[Len(trail') - i] # NoFile =>
                history'[Len(history') - i] = Read(trail'[Len(trail') - i])
    BY <2>5
  <2>8. Aligned'
    BY <1>2, <2>6, <2>7 DEF Aligned, Read, Script
  <2>9. TypeOK'
    BY <1>1, <1>2, <2>3 DEF Inv, TypeOK, Script
  <2>10. QED
    BY <2>8, <2>9 DEF Inv
<1>5. QED
  BY <1>3, <1>4 DEF Inv, TypeOK

(* and so does the creation of a file, whose entry no trail vouches for.    *)
LEMMA CreateKeepsInv ==
  ASSUME Inv, NEW t \in Inputs, Create(t)
  PROVE  Inv'
<1> DEFINE h == IF Script THEN <<>> ELSE t
<1>1. t \in Text /\ <<>> \in Text
  BY EditorAssumption DEF Text
<1>2. h \in Text /\ Written(t) \in Text
  BY <1>1, TextsFit
<1>3. /\ history' = Remember(h) /\ trail' = Trailed(Append(trail, NoFile))
      /\ UNCHANGED <<editor, intact>> /\ file' = Written(t)
  BY DEF Create
<1> HIDE DEF h
<1>4. /\ history' \in Seq(Text) /\ (~Script => Len(history') <= MaxHistory)
      /\ trail' \in Seq(Text \cup {NoFile})
      /\ Aligned'
  BY <1>2, <1>3, EditKeepsAligned
<1>5. QED
  BY <1>2, <1>3, <1>4 DEF Inv, TypeOK, Script

-----------------------------------------------------------------------------

(* The inductive invariant holds whatever the agent, its other tools and    *)
(* the failures do.                                                         *)
THEOREM Invariance == Spec => []Inv
<1>1. Init => Inv
  <2>1. ASSUME Init
        PROVE  Inv
    <3>1. Files \subseteq Text /\ MaxHistory \in Nat
      BY EditorAssumption
    <3>2. TypeOK
      BY <2>1, <3>1 DEF Init, TypeOK, Text
    <3>3. Aligned
      BY <2>1 DEF Init, Aligned
    <3>4. QED
      BY <3>2, <3>3 DEF Inv
  <2>2. QED
    BY <2>1
<1>2. Inv /\ [Next]_vars => Inv'
  <2>1. SUFFICES ASSUME Inv, [Next]_vars
                 PROVE  Inv'
    OBVIOUS
  <2>2. Inputs \subseteq Text /\ Files \subseteq Text
    BY EditorAssumption
  <2>3. file \in Text \cup {NoFile}
    BY <2>1 DEF Inv, TypeOK
  <2>4. ASSUME NEW t \in Inputs, Create(t)
        PROVE  Inv'
    BY <2>1, <2>4, CreateKeepsInv
  <2>5. ASSUME NEW t \in Inputs, CreateFails(t)
        PROVE  Inv'
    <3>1. file' \in Text \cup {NoFile}
      BY <2>2, <2>3, <2>5, TornIsText DEF CreateFails
    <3>2. QED
      BY <2>1, <2>5, <3>1, AsideKeepsInv DEF CreateFails
  <2>6. ASSUME NEW o \in Inputs, NEW n \in Inputs, StrReplace(o, n)
        PROVE  Inv'
    <3>1. CanReplace(o, n) /\ o \in Text /\ n \in Text /\ TypeOK
      BY <2>1, <2>2, <2>6 DEF StrReplace, Inv
    <3>2. file \in Text /\ Replaced(Read(file), Asked(o, n)[1], Asked(o, n)[2]) \in Text
      BY <3>1, ReplacedIsText
    <3>3. QED
      BY <2>1, <2>6, <3>2, EditedKeepsInv DEF StrReplace
  <2>7. ASSUME NEW o \in Inputs, NEW n \in Inputs, StrReplaceFails(o, n)
        PROVE  Inv'
    <3>1. CanReplace(o, n) /\ o \in Text /\ n \in Text /\ TypeOK
      BY <2>1, <2>2, <2>7 DEF StrReplaceFails, Inv
    <3>2. file \in Text /\ Replaced(Read(file), Asked(o, n)[1], Asked(o, n)[2]) \in Text
      BY <3>1, ReplacedIsText
    <3>3. QED
      BY <2>1, <2>7, <3>2, EditFailsKeepsInv DEF StrReplaceFails
  <2>8. ASSUME NEW k \in 0 .. MaxLen + 1, NEW t \in Inputs, Insert(k, t)
        PROVE  Inv'
    <3>1. CanInsert(k) /\ k \in Nat /\ t \in Text /\ TypeOK
      BY <2>1, <2>2, <2>8, EditorAssumption DEF Insert, Inv
    <3>2. file \in Text /\ Spliced(Read(file), k, t) \in Text
      BY <3>1, InsertedIsText
    <3>3. QED
      BY <2>1, <2>8, <3>2, EditedKeepsInv DEF Insert
  <2>9. ASSUME NEW k \in 0 .. MaxLen + 1, NEW t \in Inputs, InsertFails(k, t)
        PROVE  Inv'
    <3>1. CanInsert(k) /\ k \in Nat /\ t \in Text /\ TypeOK
      BY <2>1, <2>2, <2>9, EditorAssumption DEF InsertFails, Inv
    <3>2. file \in Text /\ Spliced(Read(file), k, t) \in Text
      BY <3>1, InsertedIsText
    <3>3. QED
      BY <2>1, <2>9, <3>2, EditFailsKeepsInv DEF InsertFails
  <2>10. CASE Undo
    BY <2>1, <2>10, UndoKeepsInv
  <2>11. CASE UndoFails
    <3>1. /\ Last(history) \in Text /\ Front(history) \in Seq(Text)
          /\ ~Script => Len(Front(history)) <= MaxHistory
      BY <2>1, <2>11, UndoneIs DEF UndoFails
    <3>2. file' \in Text \cup {NoFile}
      BY <2>3, <2>11, <3>1, TornIsText DEF UndoFails
    <3>3. history' \in Outlived(Front(history)) /\ Estranged
      BY <2>11 DEF UndoFails
    <3>4. history' \in Seq(Text) /\ (~Script => Len(history') <= MaxHistory)
      BY <2>1, <3>1, <3>3, OutlivedIs DEF Inv, TypeOK
    <3>5. QED
      BY <2>1, <3>2, <3>3, <3>4, EstrangedKeepsInv
  <2>12. CASE Bash
    <3>1. file' \in Text \cup {NoFile} /\ UNCHANGED <<editor, history, trail, intact>>
      BY <2>2, <2>12 DEF Bash
    <3>2. QED
      BY <2>1, <3>1, AsideKeepsInv
  <2>13. CASE Killed
    <3>1. Script /\ Estranged /\ history' = <<>> /\ file' = file
      BY <2>13 DEF Killed
    <3>2. history' \in Seq(Text)
      BY <3>1
    <3>3. QED
      BY <2>1, <2>3, <3>1, <3>2, EstrangedKeepsInv
  <2>14. CASE UNCHANGED vars
    BY <2>1, <2>3, <2>14, AsideKeepsInv DEF vars
  <2>15. QED
    BY <2>1, <2>4, <2>5, <2>6, <2>7, <2>8, <2>9, <2>10, <2>11, <2>12, <2>13, <2>14 DEF Next
<1>3. QED
  BY <1>1, <1>2, PTL DEF Spec

(* The file stays a text, and the tool's history within its limit, for any  *)
(* texts, edits and failures: no replacement, splice or undo leaves what is *)
(* not one.                                                                 *)
THEOREM TypeCorrect == Spec => []TypeOK
<1>1. Inv => TypeOK
  BY DEF Inv
<1>2. QED
  BY <1>1, Invariance, PTL

(* As long as no call ended half-way in its history, undo gives back what   *)
(* the file was before the last edit that is not undone, for any texts and  *)
(* any limit of the history.                                                *)
THEOREM UndoIsFaithful == Spec => UndoReverts
<1>1. ASSUME Inv, Undo, intact
      PROVE  /\ trail # <<>>
             /\ Last(trail) # NoFile =>
                  IF Script THEN file' = Last(trail) ELSE Chomp(file', Nl) = Chomp(Last(trail), Nl)
  <2>1. /\ history # <<>> /\ file' = Written(Last(history))
        /\ history \in Seq(Text) /\ Len(history) \in Nat
        /\ trail \in Seq(Text \cup {NoFile}) /\ Len(trail) \in Nat
    BY <1>1 DEF Undo, CanUndo, Inv, TypeOK
  <2>2. Len(history) \in Nat \ {0} /\ Len(history) <= Len(trail)
    BY <1>1, <2>1 DEF Inv, Aligned
  <2>3. trail # <<>>
    BY <2>1, <2>2
  <2>4. ASSUME Last(trail) # NoFile
        PROVE  Last(history) = Read(Last(trail)) /\ Last(trail) \in Text
    <3>1. Last(trail) \in Text
      BY <2>1, <2>3, <2>4, FrontIsSeq
    <3>2. 0 \in 0 .. Len(history) - 1 /\ Len(trail) - 0 = Len(trail) /\ Len(history) - 0 = Len(history)
      BY <2>1, <2>2
    <3>3. trail[Len(trail) - 0] # NoFile
      BY <2>4, <3>2 DEF Last
    <3>4. history[Len(history) - 0] = Read(trail[Len(trail) - 0])
      BY <1>1, <3>2, <3>3 DEF Inv, Aligned
    <3>5. QED
      BY <3>1, <3>2, <3>4 DEF Last
  <2>5. ASSUME Last(trail) # NoFile, ~Script
        PROVE  Chomp(file', Nl) = Chomp(Last(trail), Nl)
    <3>1. file' = Written(Chomp(Last(trail), Nl))
      BY <2>1, <2>4, <2>5 DEF Read
    <3>2. /\ Chomp(Chomp(Last(trail), Nl), Nl) = Chomp(Last(trail), Nl)
          /\ Chomp(Append(Chomp(Last(trail), Nl), Nl), Nl) = Chomp(Last(trail), Nl)
      BY <2>4, <2>5, ChompOnce DEF Text
    <3>3. QED
      BY <3>1, <3>2 DEF Written
  <2>6. ASSUME Last(trail) # NoFile, Script
        PROVE  file' = Last(trail)
    BY <2>1, <2>4, <2>6 DEF Read, Written, Script
  <2>7. QED
    BY <2>3, <2>5, <2>6
<1>2. Inv /\ [Next]_vars => [Undo /\ intact =>
          /\ trail # <<>>
          /\ Last(trail) # NoFile =>
               IF Script THEN file' = Last(trail) ELSE Chomp(file', Nl) = Chomp(Last(trail), Nl)]_vars
  BY <1>1
<1>3. QED
  BY <1>2, Invariance, PTL DEF Spec, UndoReverts

-----------------------------------------------------------------------------
(* Lines                                                                    *)

(* The breaks of s up to a place in it.                                     *)
Upto(s, p) == {q \in Breaks(s) : q <= p}

(* There are finitely many of them.                                         *)
LEMMA BreaksCount ==
  ASSUME NEW S, NEW s \in Seq(S)
  PROVE  /\ Breaks(s) \in SUBSET (1 .. Len(s)) /\ Len(s) \in Nat
         /\ IsFiniteSet(Breaks(s)) /\ Cardinality(Breaks(s)) \in Nat
         /\ \A p : Upto(s, p) \in SUBSET Breaks(s) /\ IsFiniteSet(Upto(s, p)) /\ Cardinality(Upto(s, p)) \in Nat
<1>1. Breaks(s) \in SUBSET (1 .. Len(s)) /\ Len(s) \in Nat
  BY DEF Breaks
<1>2. IsFiniteSet(1 .. Len(s))
  BY <1>1, FS_Interval
<1>3. IsFiniteSet(Breaks(s)) /\ Cardinality(Breaks(s)) \in Nat
  BY <1>1, <1>2, FS_Subset, FS_CardinalityType
<1>4. ASSUME NEW p
      PROVE  Upto(s, p) \in SUBSET Breaks(s) /\ IsFiniteSet(Upto(s, p)) /\ Cardinality(Upto(s, p)) \in Nat
  <2>1. Upto(s, p) \in SUBSET Breaks(s)
    BY DEF Upto
  <2>2. QED
    BY <1>3, <2>1, FS_Subset, FS_CardinalityType
<1>5. QED
  BY <1>1, <1>3, <1>4

(* A break is the k-th when k breaks lie up to it.                          *)
LEMMA BreakUnique ==
  ASSUME NEW S, NEW s \in Seq(S), NEW p \in Breaks(s)
  PROVE  Break(s, Cardinality(Upto(s, p))) = p
<1> DEFINE k == Cardinality(Upto(s, p))
<1>1. ASSUME NEW q \in Breaks(s), Cardinality(Upto(s, q)) = k
      PROVE  q = p
  <2>1. p \in Nat /\ q \in Nat
    BY BreaksCount
  <2>2. p < q => FALSE
    <3> SUFFICES ASSUME p < q PROVE FALSE
      OBVIOUS
    <3>1. Upto(s, p) \in SUBSET Upto(s, q) /\ q \in Upto(s, q) /\ q \notin Upto(s, p)
      BY <2>1, BreaksCount DEF Upto
    <3>2. IsFiniteSet(Upto(s, q))
      BY BreaksCount
    <3>3. QED
      BY <1>1, <3>1, <3>2, FS_Subset
  <2>3. q < p => FALSE
    <3> SUFFICES ASSUME q < p PROVE FALSE
      OBVIOUS
    <3>1. Upto(s, q) \in SUBSET Upto(s, p) /\ p \in Upto(s, p) /\ p \notin Upto(s, q)
      BY <2>1, BreaksCount DEF Upto
    <3>2. IsFiniteSet(Upto(s, p))
      BY BreaksCount
    <3>3. QED
      BY <1>1, <3>1, <3>2, FS_Subset
  <2>4. QED
    BY <2>1, <2>2, <2>3
<1>2. Break(s, k) = CHOOSE q \in Breaks(s) : Cardinality(Upto(s, q)) = k
  BY DEF Break, Upto
<1> HIDE DEF k
<1>3. Cardinality(Upto(s, p)) = k
  BY DEF k
<1>4. QED
  BY <1>1, <1>2, <1>3 DEF k

(* Moving a set of places by a does not change their number.                *)
LEMMA ShiftedCount ==
  ASSUME NEW a \in Nat, NEW B \in SUBSET Nat, IsFiniteSet(B)
  PROVE  /\ IsFiniteSet({a + q : q \in B})
         /\ Cardinality({a + q : q \in B}) = Cardinality(B)
<1> DEFINE T == {a + q : q \in B}
           f == [q \in B |-> a + q]
<1>1. f \in [B -> T]
  OBVIOUS
<1>2. \A p, q \in B : f[p] = f[q] => p = q
  OBVIOUS
<1>3. \A t \in T : \E q \in B : f[q] = t
  OBVIOUS
<1> HIDE DEF f, T
<1>4. f \in Bijection(B, T)
  <2>1. DOMAIN f = B
    BY <1>1
  <2>2. IsInjective(f)
    BY <1>2, <2>1, Zenon DEF IsInjective
  <2>3. QED
    BY <1>1, <1>3, <2>2 DEF Bijection, Injection, Surjection
<1>5. ExistsBijection(B, T)
  BY <1>4 DEF ExistsBijection
<1>6. IsFiniteSet(T) /\ Cardinality(T) = Cardinality(B)
  BY <1>5, FS_Bijection
<1>7. QED
  BY <1>6 DEF T

(* Two texts joined by a line break.                                        *)
Joined(s, t) == s \o <<Nl>> \o t

(* It is a text, the one followed by a line break and the other.            *)
LEMMA JoinedIs ==
  ASSUME NEW s \in Text, NEW t \in Text
  PROVE  /\ Joined(s, t) \in Text /\ Len(s) \in Nat /\ Len(t) \in Nat
         /\ Len(Joined(s, t)) = Len(s) + 1 + Len(t)
         /\ \A i \in 1 .. Len(s) : Joined(s, t)[i] = s[i]
         /\ Joined(s, t)[Len(s) + 1] = Nl
         /\ \A i \in 1 .. Len(t) : Joined(s, t)[Len(s) + 1 + i] = t[i]
<1> DEFINE S == Words \cup {Nl}
           l == <<Nl>>
           u == l \o t
<1>1. s \in Seq(S) /\ t \in Seq(S) /\ l \in Seq(S) /\ Len(l) = 1 /\ l[1] = Nl
  BY DEF Text
<1> HIDE DEF S, l
<1>2. Len(s) \in Nat /\ Len(t) \in Nat
  BY <1>1, LenProperties
<1>3. /\ u \in Seq(S) /\ Len(u) = 1 + Len(t)
      /\ \A i \in 1 .. 1 + Len(t) : u[i] = IF i <= 1 THEN l[i] ELSE t[i - 1]
  <2>1. /\ u \in Seq(S) /\ Len(u) = Len(l) + Len(t)
        /\ \A i \in 1 .. Len(l) + Len(t) : u[i] = IF i <= Len(l) THEN l[i] ELSE t[i - Len(l)]
    BY <1>1, ConcatProperties
  <2>2. QED
    BY <1>1, <2>1
<1>4. Joined(s, t) = s \o u
  BY <1>1, ConcatAssociative DEF Joined, l
<1> HIDE DEF u
<1>5. /\ s \o u \in Seq(S) /\ Len(s \o u) = Len(s) + Len(u)
      /\ \A i \in 1 .. Len(s) + Len(u) : (s \o u)[i] = IF i <= Len(s) THEN s[i] ELSE u[i - Len(s)]
  BY <1>1, <1>3, ConcatProperties
<1>6. \A i \in 1 .. Len(s) : Joined(s, t)[i] = s[i]
  BY <1>2, <1>3, <1>4, <1>5
<1>7. Joined(s, t)[Len(s) + 1] = Nl
  <2>1. Len(s) + 1 \in 1 .. Len(s) + Len(u) /\ ~(Len(s) + 1 <= Len(s)) /\ Len(s) + 1 - Len(s) = 1
    BY <1>2, <1>3
  <2>2. u[1] = Nl
    BY <1>1, <1>2, <1>3
  <2>3. QED
    BY <1>4, <1>5, <2>1, <2>2
<1>8. ASSUME NEW i \in 1 .. Len(t)
      PROVE  Joined(s, t)[Len(s) + 1 + i] = t[i]
  <2>1. /\ Len(s) + 1 + i \in 1 .. Len(s) + Len(u) /\ ~(Len(s) + 1 + i <= Len(s))
        /\ Len(s) + 1 + i - Len(s) = 1 + i
    BY <1>2, <1>3
  <2>2. 1 + i \in 1 .. 1 + Len(t) /\ ~(1 + i <= 1) /\ 1 + i - 1 = i
    BY <1>2
  <2>3. u[1 + i] = t[i]
    BY <1>3, <2>2
  <2>4. QED
    BY <1>4, <1>5, <2>1, <2>3
<1>9. QED
  BY <1>2, <1>3, <1>4, <1>5, <1>6, <1>7, <1>8 DEF Text, S

(* Its line breaks are those of both and the one between.                   *)
LEMMA JoinedBreaks ==
  ASSUME NEW s \in Text, NEW t \in Text
  PROVE  Breaks(Joined(s, t)) = Breaks(s) \cup {Len(s) + 1} \cup {Len(s) + 1 + q : q \in Breaks(t)}
<1> DEFINE j == Joined(s, t)
           a == Len(s) + 1
<1>1. /\ Len(s) \in Nat /\ Len(t) \in Nat /\ Len(j) = a + Len(t)
      /\ \A i \in 1 .. Len(s) : j[i] = s[i]
      /\ j[a] = Nl
      /\ \A i \in 1 .. Len(t) : j[a + i] = t[i]
  BY JoinedIs
<1> HIDE DEF j
<1>2. ASSUME NEW p \in Breaks(j)
      PROVE  p \in Breaks(s) \cup {a} \cup {a + q : q \in Breaks(t)}
  <2>1. p \in 1 .. Len(j) /\ j[p] = Nl
    BY <1>2 DEF Breaks
  <2>2. CASE p < a
    BY <1>1, <2>1, <2>2 DEF Breaks
  <2>3. CASE p > a
    <3>1. p - a \in 1 .. Len(t) /\ a + (p - a) = p
      BY <1>1, <2>1, <2>3
    <3>2. p - a \in Breaks(t)
      BY <1>1, <2>1, <3>1 DEF Breaks
    <3>3. QED
      BY <3>1, <3>2
  <2>4. QED
    BY <1>1, <2>1, <2>2, <2>3
<1>3. ASSUME NEW p \in Breaks(s) \cup {a} \cup {a + q : q \in Breaks(t)}
      PROVE  p \in Breaks(j)
  BY <1>1, <1>3 DEF Breaks
<1>4. QED
  BY <1>2, <1>3 DEF j

(* The number of breaks up to each of them.                                 *)
LEMMA JoinedCount ==
  ASSUME NEW s \in Text, NEW t \in Text
  PROVE  /\ Cardinality(Breaks(Joined(s, t))) = Cardinality(Breaks(s)) + 1 + Cardinality(Breaks(t))
         /\ \A p \in Breaks(s) : Cardinality(Upto(Joined(s, t), p)) = Cardinality(Upto(s, p))
         /\ Cardinality(Upto(Joined(s, t), Len(s) + 1)) = Cardinality(Breaks(s)) + 1
         /\ \A p \in Breaks(t) : Cardinality(Upto(Joined(s, t), Len(s) + 1 + p)) =
                                   Cardinality(Breaks(s)) + 1 + Cardinality(Upto(t, p))
<1> DEFINE j == Joined(s, t)
           a == Len(s) + 1
           h == Breaks(s) \cup {a}
<1>1. Breaks(j) = Breaks(s) \cup {a} \cup {a + q : q \in Breaks(t)}
  BY JoinedBreaks
<1>2. Breaks(s) \in SUBSET (1 .. Len(s)) /\ Breaks(t) \in SUBSET (1 .. Len(t))
  BY BreaksCount DEF Text
<1>3. Len(s) \in Nat /\ Len(t) \in Nat /\ a \in Nat
  BY BreaksCount DEF Text
<1>4. /\ IsFiniteSet(Breaks(s)) /\ Cardinality(Breaks(s)) \in Nat
      /\ IsFiniteSet(Breaks(t))
      /\ \A p : Upto(t, p) \in SUBSET Breaks(t) /\ IsFiniteSet(Upto(t, p))
                 /\ Cardinality(Upto(t, p)) \in Nat
  BY BreaksCount DEF Text
<1>5. IsFiniteSet(h) /\ Cardinality(h) = Cardinality(Breaks(s)) + 1
  <2>1. a \notin Breaks(s)
    BY <1>2, <1>3
  <2> HIDE DEF a
  <2>2. QED
    BY <1>4, <2>1, FS_AddElement
<1>6. ASSUME NEW B \in SUBSET Breaks(t), IsFiniteSet(B)
      PROVE  Cardinality(h \cup {a + q : q \in B}) = Cardinality(Breaks(s)) + 1 + Cardinality(B)
  <2> DEFINE c == {a + q : q \in B}
  <2>1. B \in SUBSET Nat
    BY <1>2
  <2>2. IsFiniteSet(c) /\ Cardinality(c) = Cardinality(B)
    <3> HIDE DEF a
    <3>1. QED
      BY <1>3, <1>6, <2>1, ShiftedCount
  <2>3. h \cap c = {}
    BY <1>2, <1>3
  <2>4. Cardinality(B) \in Nat
    BY <1>6, FS_CardinalityType
  <2> HIDE DEF h, c
  <2>5. Cardinality(h \cup c) = Cardinality(h) + Cardinality(c) - Cardinality({})
    BY <1>5, <2>2, <2>3, FS_Union
  <2>6. QED
    BY <1>4, <1>5, <2>2, <2>4, <2>5, FS_EmptySet DEF c
<1>7. Cardinality(Breaks(j)) = Cardinality(Breaks(s)) + 1 + Cardinality(Breaks(t))
  BY <1>1, <1>4, <1>6
<1>8. ASSUME NEW p \in Breaks(s)
      PROVE  Cardinality(Upto(j, p)) = Cardinality(Upto(s, p))
  <2>1. Upto(j, p) = Upto(s, p)
    BY <1>1, <1>2, <1>3 DEF Upto
  <2>2. QED
    BY <2>1
<1>9. Cardinality(Upto(j, a)) = Cardinality(Breaks(s)) + 1
  <2>1. Upto(j, a) = h
    BY <1>1, <1>2, <1>3 DEF Upto
  <2>2. QED
    BY <1>5, <2>1
<1>10. ASSUME NEW p \in Breaks(t)
       PROVE  Cardinality(Upto(j, a + p)) = Cardinality(Breaks(s)) + 1 + Cardinality(Upto(t, p))
  <2>1. Upto(j, a + p) = h \cup {a + q : q \in Upto(t, p)}
    BY <1>1, <1>2, <1>3 DEF Upto
  <2>2. QED
    BY <1>4, <1>6, <2>1
<1>11. QED
  BY <1>7, <1>8, <1>9, <1>10

(* So the line breaks of two texts joined are in the order of both.         *)
LEMMA JoinedBreak ==
  ASSUME NEW s \in Text, NEW t \in Text
  PROVE  /\ \A k \in 1 .. Cardinality(Breaks(s)) : Break(Joined(s, t), k) = Break(s, k)
         /\ Break(Joined(s, t), Cardinality(Breaks(s)) + 1) = Len(s) + 1
         /\ \A k \in 1 .. Cardinality(Breaks(t)) :
                Break(Joined(s, t), Cardinality(Breaks(s)) + 1 + k) = Len(s) + 1 + Break(t, k)
<1> DEFINE j == Joined(s, t)
           b == Cardinality(Breaks(s))
           a == Len(s) + 1
<1>1. j \in Text /\ j \in Seq(Words \cup {Nl})
  BY JoinedIs DEF Text
<1>2. Breaks(j) = Breaks(s) \cup {a} \cup {a + q : q \in Breaks(t)}
  BY JoinedBreaks
<1>3. /\ \A p \in Breaks(s) : Cardinality(Upto(j, p)) = Cardinality(Upto(s, p))
      /\ Cardinality(Upto(j, a)) = b + 1
      /\ \A p \in Breaks(t) : Cardinality(Upto(j, a + p)) = b + 1 + Cardinality(Upto(t, p))
  BY JoinedCount
<1>4. Cardinality(Breaks(t)) \in Nat /\ b \in Nat
  BY BreaksCount DEF Text
<1>5. ASSUME NEW S, NEW u \in Seq(S), NEW k \in 1 .. Cardinality(Breaks(u)), Cardinality(Breaks(u)) \in Nat
      PROVE  Break(u, k) \in Breaks(u) /\ Cardinality(Upto(u, Break(u, k))) = k
  <2>1. k \in Nat \ {0} /\ k <= Cardinality(Breaks(u))
    BY <1>5
  <2>2. QED
    BY <2>1, BreakIs DEF Upto
<1> HIDE DEF j
<1>6. \A p \in Breaks(j) : Break(j, Cardinality(Upto(j, p))) = p
  BY <1>1, BreakUnique
<1>7. ASSUME NEW k \in 1 .. b
      PROVE  Break(j, k) = Break(s, k)
  <2>1. Break(s, k) \in Breaks(s) /\ Cardinality(Upto(s, Break(s, k))) = k
    BY <1>4, <1>5 DEF Text
  <2> HIDE DEF b
  <2>2. QED
    BY <1>2, <1>3, <1>6, <2>1
<1>8. Break(j, b + 1) = a
  BY <1>2, <1>3, <1>6
<1>9. ASSUME NEW k \in 1 .. Cardinality(Breaks(t))
      PROVE  Break(j, b + 1 + k) = a + Break(t, k)
  <2>1. Break(t, k) \in Breaks(t) /\ Cardinality(Upto(t, Break(t, k))) = k
    BY <1>4, <1>5 DEF Text
  <2> HIDE DEF b, a
  <2>2. QED
    BY <1>2, <1>3, <1>6, <2>1
<1>10. QED
  BY <1>7, <1>8, <1>9 DEF j

(* Where the k-th line of s ends.                                           *)
End(s, k) ==
    IF k = 0 THEN 0 ELSE IF k > Cardinality(Breaks(s)) THEN Len(s) + 1 ELSE Break(s, k)

(* The k-th line.                                                           *)
Line(s, k) == SubSeq(s, End(s, k - 1) + 1, End(s, k) - 1)

(* These are the lines, by their definition.                                *)
LEMMA LinesAre ==
  ASSUME NEW s
  PROVE  Lines(s) = [k \in 1 .. Cardinality(Breaks(s)) + 1 |-> Line(s, k)]
  BY DEF Lines, Line, End

(* It is a place in the text, or the one after it, and that for the last    *)
(* line only.                                                               *)
LEMMA EndIs ==
  ASSUME NEW s \in Text, NEW k \in Nat
  PROVE  /\ End(s, k) \in 0 .. Len(s) + 1
         /\ k > 0 => End(s, k) > 0
         /\ k <= Cardinality(Breaks(s)) => End(s, k) <= Len(s)
<1>1. Len(s) \in Nat /\ Cardinality(Breaks(s)) \in Nat
  BY BreaksCount DEF Text
<1>2. CASE k = 0
  BY <1>1, <1>2 DEF End
<1>3. CASE k > Cardinality(Breaks(s))
  BY <1>1, <1>3 DEF End
<1>4. CASE k # 0 /\ k <= Cardinality(Breaks(s))
  <2>1. Break(s, k) \in 1 .. Len(s)
    BY <1>4, BreakIs DEF Text
  <2>2. End(s, k) = Break(s, k)
    BY <1>1, <1>4 DEF End
  <2>3. QED
    BY <1>1, <1>4, <2>1, <2>2
<1>5. QED
  BY <1>1, <1>2, <1>3, <1>4

(* The lines of a text are texts, one more than it has line breaks.         *)
LEMMA LinesAreTexts ==
  ASSUME NEW s \in Text
  PROVE  /\ Lines(s) \in Seq(Text)
         /\ Len(Lines(s)) = Cardinality(Breaks(s)) + 1
         /\ \A k \in 1 .. Cardinality(Breaks(s)) + 1 : Lines(s)[k] = Line(s, k)
<1> DEFINE n == Cardinality(Breaks(s)) + 1
           l == Lines(s)
<1>1. n \in Nat /\ Len(s) \in Nat /\ Cardinality(Breaks(s)) \in Nat
  BY BreaksCount DEF Text
<1>2. l = [k \in 1 .. n |-> Line(s, k)]
  BY LinesAre
<1>3. ASSUME NEW k \in 1 .. n
      PROVE  Line(s, k) \in Text
  <2>1. /\ End(s, k - 1) \in 0 .. Len(s) + 1
        /\ End(s, k) \in 0 .. Len(s) + 1 /\ End(s, k) > 0
    <3>1. k - 1 \in Nat /\ k \in Nat /\ k > 0
      BY <1>1
    <3>2. QED
      BY <3>1, EndIs
  <2>2. /\ End(s, k - 1) + 1 \in Nat /\ End(s, k - 1) + 1 >= 1
        /\ End(s, k) - 1 \in Nat /\ End(s, k) - 1 <= Len(s)
    BY <1>1, <2>1
  <2>3. QED
    BY <2>2, PartIsSeq DEF Text, Line
<1> HIDE DEF n, l
<1>4. l \in [1 .. n -> Text]
  BY <1>2, <1>3
<1>5. l \in Seq(Text)
  BY <1>1, <1>4
<1>6. Len(l) = n
  BY <1>1, <1>2, <1>5
<1>7. QED
  BY <1>2, <1>5, <1>6 DEF n, l

(* The parts of two texts joined are parts of both.                         *)
LEMMA PartOfJoined ==
  ASSUME NEW s \in Text, NEW t \in Text, NEW m \in Nat, m > 0, NEW n \in Nat
  PROVE  /\ n <= Len(s) => SubSeq(Joined(s, t), m, n) = SubSeq(s, m, n)
         /\ n <= Len(t) => SubSeq(Joined(s, t), Len(s) + 1 + m, Len(s) + 1 + n) = SubSeq(t, m, n)
<1> DEFINE S == Words \cup {Nl}
           j == Joined(s, t)
           a == Len(s) + 1
<1>1. /\ j \in Seq(S) /\ s \in Seq(S) /\ t \in Seq(S)
      /\ Len(s) \in Nat /\ Len(t) \in Nat /\ Len(j) = a + Len(t)
      /\ \A i \in 1 .. Len(s) : j[i] = s[i]
      /\ \A i \in 1 .. Len(t) : j[a + i] = t[i]
  BY JoinedIs DEF Text
<1> HIDE DEF S, j
<1>2. /\ \A i \in 1 .. Len(s) : s[i] \in S
      /\ \A i \in 1 .. Len(t) : t[i] \in S
      /\ \A i \in 1 .. Len(j) : j[i] \in S
  BY <1>1, ElementOfSeq
<1>3. ASSUME n <= Len(s)
      PROVE  SubSeq(j, m, n) = SubSeq(s, m, n)
  <2>1. \A i \in m .. n : s[i] \in S /\ j[i] = s[i]
    BY <1>1, <1>2, <1>3
  <2>2. /\ SubSeq(s, m, n) \in Seq(S)
        /\ Len(SubSeq(s, m, n)) = IF m <= n THEN n - m + 1 ELSE 0
        /\ \A i \in 1 .. n - m + 1 : SubSeq(s, m, n)[i] = s[m + i - 1]
    BY <2>1, SubSeqProperties
  <2>3. /\ SubSeq(j, m, n) \in Seq(S)
        /\ Len(SubSeq(j, m, n)) = IF m <= n THEN n - m + 1 ELSE 0
        /\ \A i \in 1 .. n - m + 1 : SubSeq(j, m, n)[i] = j[m + i - 1]
    BY <2>1, SubSeqProperties
  <2>4. ASSUME NEW i \in 1 .. Len(SubSeq(j, m, n))
        PROVE  SubSeq(j, m, n)[i] = SubSeq(s, m, n)[i]
    <3>1. i \in 1 .. n - m + 1 /\ m + i - 1 \in m .. n
      BY <2>3, <2>4
    <3>2. QED
      BY <2>1, <2>2, <2>3, <3>1
  <2>5. QED
    BY <2>2, <2>3, <2>4, SeqEqual
<1>4. ASSUME n <= Len(t)
      PROVE  SubSeq(j, a + m, a + n) = SubSeq(t, m, n)
  <2>1. a + m \in Int /\ a + n \in Int /\ (a + n) - (a + m) + 1 = n - m + 1 /\ (a + m <= a + n <=> m <= n)
    BY <1>1
  <2>2. ASSUME NEW i \in m .. n
        PROVE  t[i] \in S /\ j[a + i] = t[i]
    BY <1>1, <1>2, <1>4, <2>2
  <2>3. ASSUME NEW i \in a + m .. a + n
        PROVE  j[i] \in S
    <3>1. i - a \in m .. n /\ a + (i - a) = i
      BY <1>1
    <3>2. QED
      BY <2>2, <3>1
  <2>4. /\ SubSeq(t, m, n) \in Seq(S)
        /\ Len(SubSeq(t, m, n)) = IF m <= n THEN n - m + 1 ELSE 0
        /\ \A i \in 1 .. n - m + 1 : SubSeq(t, m, n)[i] = t[m + i - 1]
    BY <2>2, SubSeqProperties
  <2> HIDE DEF a
  <2>5. /\ SubSeq(j, a + m, a + n) \in Seq(S)
        /\ Len(SubSeq(j, a + m, a + n)) = IF a + m <= a + n THEN (a + n) - (a + m) + 1 ELSE 0
        /\ \A i \in 1 .. (a + n) - (a + m) + 1 : SubSeq(j, a + m, a + n)[i] = j[(a + m) + i - 1]
    BY <2>1, <2>3, SubSeqProperties
  <2>6. ASSUME NEW i \in 1 .. Len(SubSeq(j, a + m, a + n))
        PROVE  SubSeq(j, a + m, a + n)[i] = SubSeq(t, m, n)[i]
    <3>1. i \in 1 .. n - m + 1 /\ m + i - 1 \in m .. n
      BY <2>1, <2>5, <2>6
    <3>2. (a + m) + i - 1 = a + (m + i - 1)
      BY <1>1, <3>1 DEF a
    <3>3. QED
      BY <2>1, <2>2, <2>4, <2>5, <3>1, <3>2
  <2>7. Len(SubSeq(j, a + m, a + n)) = Len(SubSeq(t, m, n))
    BY <2>1, <2>4, <2>5
  <2>8. QED
    BY <2>4, <2>5, <2>6, <2>7, SeqEqual
<1>5. QED
  BY <1>3, <1>4 DEF j

(* The lines of two texts joined are the lines of the one, then those of    *)
(* the other.                                                               *)
LEMMA LinesOfJoined ==
  ASSUME NEW s \in Text, NEW t \in Text
  PROVE  Lines(Joined(s, t)) = Lines(s) \o Lines(t)
<1> DEFINE j == Joined(s, t)
           b == Cardinality(Breaks(s))
           c == Cardinality(Breaks(t))
           a == Len(s) + 1
<1>1. j \in Text /\ Len(s) \in Nat /\ Len(t) \in Nat /\ Len(j) = a + Len(t)
  BY JoinedIs
<1>2. b \in Nat /\ c \in Nat /\ Cardinality(Breaks(j)) = b + 1 + c
  BY BreaksCount, JoinedCount DEF Text
<1>3. /\ Lines(s) \in Seq(Text) /\ Len(Lines(s)) = b + 1
      /\ \A k \in 1 .. b + 1 : Lines(s)[k] = Line(s, k)
  BY LinesAreTexts
<1>4. /\ Lines(t) \in Seq(Text) /\ Len(Lines(t)) = c + 1
      /\ \A k \in 1 .. c + 1 : Lines(t)[k] = Line(t, k)
  BY LinesAreTexts
<1>5. /\ Lines(j) \in Seq(Text) /\ Len(Lines(j)) = b + 1 + c + 1
      /\ \A k \in 1 .. b + 1 + c + 1 : Lines(j)[k] = Line(j, k)
  BY <1>1, <1>2, LinesAreTexts
<1>6. ASSUME NEW k \in 0 .. b + 1
      PROVE  End(j, k) = End(s, k)
  <2>1. CASE k \in 1 .. b
    <3>1. Break(j, k) = Break(s, k)
      BY <2>1, JoinedBreak
    <3>2. ~(k = 0) /\ ~(k > b) /\ ~(k > Cardinality(Breaks(j)))
      BY <1>2, <2>1
    <3>3. QED
      BY <3>1, <3>2 DEF End
  <2>2. CASE k = 0
    BY <2>2 DEF End
  <2>3. CASE k = b + 1
    <3>1. Break(j, b + 1) = Len(s) + 1
      BY JoinedBreak
    <3>2. ~(k = 0) /\ k > b /\ ~(k > Cardinality(Breaks(j)))
      BY <1>2, <2>3
    <3>3. QED
      BY <2>3, <3>1, <3>2 DEF End
  <2>4. QED
    BY <1>2, <2>1, <2>2, <2>3
<1>7. ASSUME NEW k \in 0 .. c + 1
      PROVE  End(j, b + 1 + k) = a + End(t, k)
  <2>1. CASE k \in 1 .. c
    <3>1. Break(j, b + 1 + k) = a + Break(t, k)
      BY <2>1, JoinedBreak
    <3>2. ~(k = 0) /\ ~(k > c) /\ ~(b + 1 + k = 0) /\ ~(b + 1 + k > Cardinality(Breaks(j)))
      BY <1>2, <2>1
    <3>3. QED
      BY <3>1, <3>2 DEF End
  <2>2. CASE k = 0
    <3>1. End(j, b + 1 + k) = End(s, b + 1) /\ ~(b + 1 = 0) /\ b + 1 > b
      BY <1>2, <1>6, <2>2
    <3>2. QED
      BY <1>1, <2>2, <3>1 DEF End
  <2>3. CASE k = c + 1
    <3>1. /\ ~(k = 0) /\ k > c /\ ~(b + 1 + k = 0)
          /\ b + 1 + k > Cardinality(Breaks(j)) /\ Len(j) + 1 = a + (Len(t) + 1)
      BY <1>1, <1>2, <2>3
    <3>2. QED
      BY <3>1 DEF End
  <2>4. QED
    BY <1>2, <2>1, <2>2, <2>3
<1> HIDE DEF j, b, c
<1>8. ASSUME NEW k \in 1 .. b + 1
      PROVE  Lines(j)[k] = Lines(s)[k]
  <2>1. k \in 0 .. b + 1 /\ k - 1 \in 0 .. b + 1 /\ k \in 1 .. b + 1 + c + 1 /\ k - 1 \in Nat /\ k \in Nat /\ k > 0
    BY <1>2
  <2>2. Lines(j)[k] = Line(j, k) /\ End(j, k - 1) = End(s, k - 1) /\ End(j, k) = End(s, k)
    BY <1>5, <1>6, <2>1
  <2>3. End(s, k - 1) \in 0 .. Len(s) + 1 /\ End(s, k) \in 0 .. Len(s) + 1 /\ End(s, k) > 0
    BY <2>1, EndIs
  <2>4. End(s, k - 1) + 1 \in Nat /\ End(s, k - 1) + 1 > 0 /\ End(s, k) - 1 \in Nat /\ End(s, k) - 1 <= Len(s)
    BY <1>1, <2>3
  <2>5. SubSeq(j, End(s, k - 1) + 1, End(s, k) - 1) = SubSeq(s, End(s, k - 1) + 1, End(s, k) - 1)
    BY <2>4, PartOfJoined DEF j
  <2>6. Line(j, k) = Line(s, k)
    BY <2>2, <2>5, Zenon DEF Line
  <2>7. QED
    BY <1>3, <2>2, <2>6
<1>9. ASSUME NEW k \in 1 .. c + 1
      PROVE  Lines(j)[b + 1 + k] = Lines(t)[k]
  <2>1. /\ k \in 0 .. c + 1 /\ k - 1 \in 0 .. c + 1 /\ b + 1 + k \in 1 .. b + 1 + c + 1
        /\ (b + 1 + k) - 1 = b + 1 + (k - 1) /\ k - 1 \in Nat /\ k \in Nat /\ k > 0
    BY <1>2
  <2>2. End(j, (b + 1 + k) - 1) = a + End(t, k - 1) /\ End(j, b + 1 + k) = a + End(t, k)
    BY <1>7, <2>1
  <2>3. Lines(j)[b + 1 + k] = Line(j, b + 1 + k)
    BY <1>5, <2>1
  <2>4. End(t, k - 1) \in 0 .. Len(t) + 1 /\ End(t, k) \in 0 .. Len(t) + 1 /\ End(t, k) > 0
    BY <2>1, EndIs
  <2>5. /\ End(t, k - 1) + 1 \in Nat /\ End(t, k - 1) + 1 > 0
        /\ End(t, k) - 1 \in Nat /\ End(t, k) - 1 <= Len(t)
        /\ a + End(t, k - 1) + 1 = Len(s) + 1 + (End(t, k - 1) + 1)
        /\ (a + End(t, k)) - 1 = Len(s) + 1 + (End(t, k) - 1)
    <3>1. Len(s) \in Nat /\ Len(t) \in Nat
      BY <1>1
    <3>2. \A m, n \in Nat : n > 0 /\ n <= Len(t) + 1 =>
              /\ m + 1 \in Nat /\ m + 1 > 0 /\ n - 1 \in Nat /\ n - 1 <= Len(t)
              /\ a + m + 1 = Len(s) + 1 + (m + 1) /\ (a + n) - 1 = Len(s) + 1 + (n - 1)
      BY <3>1
    <3>3. End(t, k - 1) \in Nat /\ End(t, k) \in Nat /\ End(t, k) <= Len(t) + 1
      BY <2>4, <3>1
    <3>4. QED
      BY <2>4, <3>2, <3>3
  <2> HIDE DEF a
  <2>6. SubSeq(j, Len(s) + 1 + (End(t, k - 1) + 1), Len(s) + 1 + (End(t, k) - 1))
            = SubSeq(t, End(t, k - 1) + 1, End(t, k) - 1)
    BY <2>5, PartOfJoined DEF j
  <2>7. Line(j, b + 1 + k) = Line(t, k)
    <3>1. /\ End(j, (b + 1 + k) - 1) + 1 = Len(s) + 1 + (End(t, k - 1) + 1)
          /\ End(j, b + 1 + k) - 1 = Len(s) + 1 + (End(t, k) - 1)
      BY <2>2, <2>5
    <3>2. QED
      BY <2>6, <3>1, Zenon DEF Line
  <2>8. QED
    BY <1>4, <2>3, <2>7
<1> DEFINE l == Lines(s) \o Lines(t)
<1>10. /\ l \in Seq(Text) /\ Len(l) = b + 1 + (c + 1)
       /\ \A k \in 1 .. b + 1 + (c + 1) : l[k] = IF k <= b + 1 THEN Lines(s)[k] ELSE Lines(t)[k - (b + 1)]
  <2>1. /\ l \in Seq(Text) /\ Len(l) = Len(Lines(s)) + Len(Lines(t))
        /\ \A k \in 1 .. Len(Lines(s)) + Len(Lines(t)) :
               l[k] = IF k <= Len(Lines(s)) THEN Lines(s)[k] ELSE Lines(t)[k - Len(Lines(s))]
    BY <1>3, <1>4, ConcatProperties
  <2>2. QED
    BY <1>3, <1>4, <2>1
<1> HIDE DEF l
<1>11. ASSUME NEW k \in 1 .. Len(Lines(j))
       PROVE  Lines(j)[k] = l[k]
  <2>1. k \in 1 .. b + 1 + (c + 1)
    BY <1>2, <1>5
  <2>2. CASE k <= b + 1
    <3>1. k \in 1 .. b + 1
      BY <1>2, <2>1, <2>2
    <3>2. QED
      BY <1>8, <1>10, <2>1, <2>2, <3>1
  <2>3. CASE ~(k <= b + 1)
    <3>1. k - (b + 1) \in 1 .. c + 1 /\ b + 1 + (k - (b + 1)) = k
      BY <1>2, <2>1, <2>3
    <3>2. QED
      BY <1>9, <1>10, <2>1, <2>3, <3>1
  <2>4. QED
    BY <2>2, <2>3
<1>12. Len(Lines(j)) = Len(l)
  BY <1>2, <1>5, <1>10
<1>13. Lines(j) = l
  BY <1>5, <1>10, <1>11, <1>12, SeqEqual
<1>14. QED
  BY <1>13 DEF j, l

(* The empty text has one line, which is empty, and a text with one more    *)
(* line break one more of those.                                            *)
LEMMA LinesOfAppended ==
  ASSUME NEW s \in Text
  PROVE  Lines(Append(s, Nl)) = Append(Lines(s), <<>>)
<1> DEFINE S == Words \cup {Nl}
<1>1. s \in Seq(S) /\ <<>> \in Seq(S) /\ Nl \in S /\ <<Nl>> \in Seq(S)
  BY DEF Text
<1>2. <<>> \in Text
  BY <1>1 DEF Text
<1>3. Lines(<<>>) = << <<>> >>
  <2> DEFINE l == Lines(<<>>)
  <2>1. Cardinality(Breaks(<<>>)) = 0
    <3>1. Breaks(<<>>) = {}
      BY <1>2, EmptySeq DEF Breaks
    <3>2. QED
      BY <3>1, FS_EmptySet
  <2>2. l \in Seq(Text) /\ Len(l) = 1 /\ l[1] = Line(<<>>, 1)
    <3>1. /\ Lines(<<>>) \in Seq(Text) /\ Len(Lines(<<>>)) = 0 + 1
          /\ \A k \in 1 .. 0 + 1 : Lines(<<>>)[k] = Line(<<>>, k)
      BY <1>2, <2>1, LinesAreTexts
    <3>2. QED
      BY <3>1
  <2>3. End(<<>>, 1 - 1) + 1 = 1 /\ End(<<>>, 1) - 1 = 0
    BY <2>1 DEF End
  <2>4. Line(<<>>, 1) = <<>>
    BY <2>3, SubSeqEmpty DEF Line
  <2> HIDE DEF l
  <2>5. l = << <<>> >>
    BY <2>2, <2>4
  <2>6. QED
    BY <2>5 DEF l
<1>4. Append(s, Nl) = Joined(s, <<>>)
  <2> HIDE DEF S
  <2>1. Append(s, Nl) = s \o <<Nl>> /\ s \o <<Nl>> \in Seq(S)
    BY <1>1, AppendIsConcat, ConcatProperties
  <2>2. QED
    BY <2>1, ConcatEmptySeq DEF Joined
<1>5. Lines(Append(s, Nl)) = Lines(s) \o << <<>> >>
  BY <1>2, <1>3, <1>4, LinesOfJoined
<1>6. QED
  BY <1>2, <1>5, LinesAreTexts, AppendIsConcat

(* The two parts of a concatenation.                                        *)
LEMMA PartsOfConcat ==
  ASSUME NEW S, NEW x \in Seq(S), NEW y \in Seq(S)
  PROVE  /\ SubSeq(x \o y, 1, Len(x)) = x
         /\ SubSeq(x \o y, Len(x) + 1, Len(x \o y)) = y
<1> DEFINE z == x \o y
<1>1. Len(x) \in Nat /\ Len(y) \in Nat
  BY LenProperties
<1>2. /\ z \in Seq(S) /\ Len(z) = Len(x) + Len(y)
      /\ \A i \in 1 .. Len(x) + Len(y) : z[i] = IF i <= Len(x) THEN x[i] ELSE y[i - Len(x)]
  BY ConcatProperties
<1> HIDE DEF z
<1>3. \A i \in 1 .. Len(z) : z[i] \in S
  BY <1>2, ElementOfSeq
<1>4. SubSeq(z, 1, Len(x)) = x
  <2>1. \A i \in 1 .. Len(x) : z[i] \in S /\ z[i] = x[i]
    BY <1>1, <1>2, <1>3
  <2>2. /\ SubSeq(z, 1, Len(x)) \in Seq(S)
        /\ Len(SubSeq(z, 1, Len(x))) = IF 1 <= Len(x) THEN Len(x) - 1 + 1 ELSE 0
        /\ \A i \in 1 .. Len(x) - 1 + 1 : SubSeq(z, 1, Len(x))[i] = z[1 + i - 1]
    BY <1>1, <2>1, SubSeqProperties
  <2>3. Len(SubSeq(z, 1, Len(x))) = Len(x)
    BY <1>1, <2>2
  <2>4. ASSUME NEW i \in 1 .. Len(x) PROVE SubSeq(z, 1, Len(x))[i] = x[i]
    <3>1. i \in 1 .. Len(x) - 1 + 1 /\ 1 + i - 1 = i
      BY <1>1
    <3>2. QED
      BY <2>1, <2>2, <3>1
  <2>5. QED
    BY <2>2, <2>3, <2>4, SeqEqual
<1>5. SubSeq(z, Len(x) + 1, Len(z)) = y
  <2> DEFINE m == Len(x) + 1
             n == Len(z)
             w == SubSeq(z, m, n)
  <2>1. m \in Int /\ n \in Int /\ n - m + 1 = Len(y) /\ (m <= n <=> 1 <= Len(y)) /\ m >= 1
    BY <1>1, <1>2
  <2>2. \A i \in m .. n : z[i] \in S
    BY <1>3, <2>1
  <2> HIDE DEF m, n
  <2>3. /\ w \in Seq(S) /\ Len(w) = IF m <= n THEN n - m + 1 ELSE 0
        /\ \A i \in 1 .. n - m + 1 : w[i] = z[m + i - 1]
    BY <2>1, <2>2, SubSeqProperties
  <2>4. Len(w) = Len(y)
    BY <1>1, <2>1, <2>3
  <2>5. ASSUME NEW i \in 1 .. Len(y) PROVE w[i] = y[i]
    <3>1. w[i] = z[m + i - 1]
      BY <2>1, <2>3
    <3>2. /\ m + i - 1 \in 1 .. Len(x) + Len(y) /\ ~(m + i - 1 <= Len(x))
          /\ (m + i - 1) - Len(x) = i
      BY <1>1 DEF m
    <3>3. z[m + i - 1] = y[i]
      BY <1>2, <3>2
    <3>4. QED
      BY <3>1, <3>3
  <2> HIDE DEF w
  <2>6. w = y
    BY <2>3, <2>4, <2>5, SeqEqual
  <2>7. QED
    BY <2>6 DEF w, m, n
<1>6. QED
  BY <1>4, <1>5 DEF z

(* What is chomped off again changes nothing.                               *)
LEMMA ChompPadded ==
  ASSUME NEW S, NEW s \in Seq(S), NEW x \in S, NEW e \in Seq(S), \A i \in 1 .. Len(e) : e[i] = x
  PROVE  Chomp(s \o e, x) = Chomp(s, x)
<1> DEFINE n == Ending(s, x)
           z == s \o e
<1>1. n \in 0 .. Len(s) /\ (n > 0 => s[n] # x) /\ \A i \in n + 1 .. Len(s) : s[i] = x
  BY EndingIs
<1>2. Len(s) \in Nat /\ Len(e) \in Nat
  BY LenProperties
<1>3. /\ z \in Seq(S) /\ Len(z) = Len(s) + Len(e)
      /\ \A i \in 1 .. Len(s) + Len(e) : z[i] = IF i <= Len(s) THEN s[i] ELSE e[i - Len(s)]
  BY ConcatProperties
<1> HIDE DEF n, z
<1>4. n \in 0 .. Len(z) /\ (n > 0 => z[n] # x)
  BY <1>1, <1>2, <1>3
<1>5. ASSUME NEW i \in n + 1 .. Len(z)
      PROVE  z[i] = x
  <2>1. CASE i <= Len(s)
    BY <1>1, <1>2, <1>3, <2>1
  <2>2. CASE ~(i <= Len(s))
    <3>1. i - Len(s) \in 1 .. Len(e) /\ i \in 1 .. Len(s) + Len(e)
      BY <1>1, <1>2, <1>3, <2>2
    <3>2. QED
      BY <1>3, <2>2, <3>1
  <2>3. QED
    BY <2>1, <2>2
<1>6. Ending(z, x) = n
  BY <1>3, <1>4, <1>5, EndingUnique
<1>7. SubSeq(z, 1, n) = SubSeq(s, 1, n)
  <2>1. \A i \in 1 .. n : z[i] = s[i] /\ s[i] \in S /\ z[i] \in S
    BY <1>1, <1>2, <1>3, ElementOfSeq
  <2>2. n \in Int
    BY <1>1
  <2>3. /\ SubSeq(s, 1, n) \in Seq(S) /\ SubSeq(z, 1, n) \in Seq(S)
        /\ Len(SubSeq(s, 1, n)) = Len(SubSeq(z, 1, n))
        /\ \A i \in 1 .. n - 1 + 1 : SubSeq(s, 1, n)[i] = s[1 + i - 1] /\ SubSeq(z, 1, n)[i] = z[1 + i - 1]
        /\ Len(SubSeq(s, 1, n)) = IF 1 <= n THEN n - 1 + 1 ELSE 0
    BY <2>1, <2>2, SubSeqProperties
  <2>4. ASSUME NEW i \in 1 .. Len(SubSeq(s, 1, n))
        PROVE  SubSeq(z, 1, n)[i] = SubSeq(s, 1, n)[i]
    <3>1. i \in 1 .. n - 1 + 1 /\ 1 + i - 1 = i /\ i \in 1 .. n
      BY <1>1, <2>3
    <3>2. QED
      BY <2>1, <2>3, <3>1
  <2>5. QED
    BY <2>3, <2>4, SeqEqual
<1>8. QED
  BY <1>6, <1>7 DEF Chomp, n, z

(* Concatenation, named: the provers go astray in nested ones.              *)
Cat(x, y) == x \o y

LEMMA CatAssociative ==
  ASSUME NEW S, NEW x \in Seq(S), NEW y \in Seq(S), NEW z \in Seq(S)
  PROVE  Cat(x, y) \in Seq(S) /\ Cat(Cat(x, y), z) = Cat(x, Cat(y, z))
<1>1. (x \o y) \o z = x \o (y \o z)
  BY ConcatAssociative
<1>2. QED
  BY <1>1, ConcatProperties DEF Cat

(* The lines l with those of t after the k-th.                              *)
Woven(l, k, t) == SubSeq(l, 1, k) \o Lines(t) \o SubSeq(l, k + 1, Len(l))

(* Empty lines at the end stay there.                                       *)
LEMMA WovenPadded ==
  ASSUME NEW l \in Seq(Text), NEW e \in Seq(Text), NEW t \in Text, NEW k \in 0 .. Len(l)
  PROVE  /\ Woven(l, k, t) \in Seq(Text)
         /\ Woven(l \o e, k, t) = Woven(l, k, t) \o e
<1> DEFINE x == SubSeq(l, 1, k)
           y == SubSeq(l, k + 1, Len(l))
           m == Lines(t)
<1>1. Len(l) \in Nat /\ k \in Nat /\ k <= Len(l)
  BY LenProperties
<1>2. x \in Seq(Text) /\ y \in Seq(Text) /\ m \in Seq(Text)
  BY <1>1, PartIsSeq, LinesAreTexts
<1>3. x \o y = l
  <2>1. 1 \in 1 .. Len(l) + 1 /\ k \in 1 - 1 .. Len(l) /\ Len(l) \in k .. Len(l)
    BY <1>1
  <2>2. x \o y = SubSeq(l, 1, Len(l))
    BY <2>1, ConcatAdjacentSubSeq
  <2>3. QED
    BY <2>2, SubSeqFull
<1>4. Len(x) = k
  <2>1. \A i \in 1 .. k : l[i] \in Text
    BY <1>1, ElementOfSeq
  <2>2. Len(x) = IF 1 <= k THEN k - 1 + 1 ELSE 0
    BY <1>1, <2>1, SubSeqProperties
  <2>3. QED
    BY <1>1, <2>2
<1>5. Woven(l, k, t) = Cat(Cat(x, m), y)
  BY DEF Woven, Cat
<1> DEFINE v == Cat(y, e)
<1> HIDE DEF x, y, m
<1>6. v \in Seq(Text) /\ Cat(x, m) \in Seq(Text)
  BY <1>2, CatAssociative
<1>7. l \o e = Cat(x, v)
  <2>1. Cat(Cat(x, y), e) = Cat(x, v)
    BY <1>2, CatAssociative
  <2>2. QED
    BY <1>3, <2>1 DEF Cat
<1> HIDE DEF v
<1>8. SubSeq(l \o e, 1, k) = x /\ SubSeq(l \o e, k + 1, Len(l \o e)) = v
  <2>1. SubSeq(x \o v, 1, Len(x)) = x /\ SubSeq(x \o v, Len(x) + 1, Len(x \o v)) = v
    BY <1>2, <1>6, PartsOfConcat
  <2>2. QED
    BY <1>4, <1>7, <2>1 DEF Cat
<1>9. Woven(l \o e, k, t) = Cat(Cat(x, m), v)
  BY <1>8 DEF Woven, Cat, m
<1>10. Cat(Cat(x, m), v) = Cat(Cat(Cat(x, m), y), e) /\ Cat(Cat(x, m), y) \in Seq(Text)
  BY <1>2, <1>6, CatAssociative DEF v
<1>11. QED
  BY <1>5, <1>9, <1>10 DEF Cat

(* Empty lines.                                                             *)
Blank(e) == e \in Seq(Text) /\ \A i \in 1 .. Len(e) : e[i] = <<>>

(* What a read drops of a text are empty lines at its end.                  *)
LEMMA ChompedLines ==
  ASSUME NEW s \in Text
  PROVE  \E e : Blank(e) /\ Lines(s) = Lines(Chomp(s, Nl)) \o e
<1> DEFINE S == Words \cup {Nl}
           n == Ending(s, Nl)
           l == Lines(Chomp(s, Nl))
           N == Len(s) - n
           D == {d \in 1 .. N : ~ \E e : Blank(e) /\ Lines(SubSeq(s, 1, n + d)) = l \o e}
<1>1. s \in Seq(S) /\ Len(s) \in Nat /\ Nl \in S /\ <<>> \in Seq(S) /\ <<>> \in Seq(Text) /\ <<>> \in Text
  BY DEF Text
<1>2. n \in 0 .. Len(s) /\ \A i \in n + 1 .. Len(s) : s[i] = Nl
  BY <1>1, EndingIs
<1>3. Chomp(s, Nl) = SubSeq(s, 1, n) /\ Chomp(s, Nl) \in Text
  BY <1>1, ChompIsSeq DEF Chomp, Text
<1>4. l \in Seq(Text)
  BY <1>3, LinesAreTexts
<1> HIDE DEF S, n, l
<1>5. \E e : Blank(e) /\ Lines(SubSeq(s, 1, n + 0)) = l \o e
  <2>1. Blank(<<>>)
    BY <1>1 DEF Blank
  <2>2. Lines(SubSeq(s, 1, n + 0)) = l
    BY <1>2, <1>3 DEF l
  <2>3. l \o <<>> = l
    BY <1>4, ConcatEmptySeq
  <2>4. QED
    BY <2>1, <2>2, <2>3
<1>6. ASSUME NEW d \in 1 .. N, \E e : Blank(e) /\ Lines(SubSeq(s, 1, n + (d - 1))) = l \o e
      PROVE  \E e : Blank(e) /\ Lines(SubSeq(s, 1, n + d)) = l \o e
  <2> DEFINE p == n + d
             u == SubSeq(s, 1, p - 1)
  <2>1. /\ p \in 1 .. Len(s) /\ p \in n + 1 .. Len(s) /\ n + (d - 1) = p - 1
        /\ p - 1 \in Nat /\ p - 1 <= Len(s) /\ 1 \in 1 .. Len(s) /\ p \in 1 .. Len(s)
    BY <1>1, <1>2
  <2> HIDE DEF p
  <2>2. u \in Seq(S) /\ s[p] = Nl
    BY <1>1, <1>2, <2>1, PartIsSeq
  <2>3. SubSeq(s, 1, p) = u \o <<Nl>>
    BY <1>1, <2>1, <2>2, SubSeqRecursiveSecond
  <2> HIDE DEF u
  <2>4. SubSeq(s, 1, p) = Append(u, Nl)
    BY <1>1, <2>2, <2>3, AppendIsConcat
  <2>5. u \in Text
    BY <2>2 DEF Text, S
  <2>6. Lines(SubSeq(s, 1, p)) = Append(Lines(u), <<>>)
    BY <2>4, <2>5, LinesOfAppended
  <2>7. PICK e : Blank(e) /\ Lines(u) = l \o e
    BY <1>6, <2>1 DEF u
  <2> DEFINE f == e \o << <<>> >>
  <2>8. << <<>> >> \in Seq(Text) /\ e \in Seq(Text)
    BY <1>1, <2>7 DEF Blank
  <2>9. Append(Lines(u), <<>>) = (l \o e) \o << <<>> >>
    <3>1. Lines(u) \in Seq(Text)
      BY <2>5, LinesAreTexts
    <3>2. QED
      BY <1>1, <2>7, <3>1, AppendIsConcat
  <2>10. Cat(Cat(l, e), << <<>> >>) = Cat(l, Cat(e, << <<>> >>))
    <3> DEFINE o == << <<>> >>
    <3>1. o \in Seq(Text)
      BY <2>8
    <3> HIDE DEF o
    <3>2. Cat(Cat(l, e), o) = Cat(l, Cat(e, o))
      BY <1>4, <2>8, <3>1, CatAssociative
    <3>3. QED
      BY <3>2 DEF o
  <2>11. Append(Lines(u), <<>>) = l \o f
    BY <2>9, <2>10 DEF Cat
  <2>12. Blank(f)
    <3>1. f = Append(e, <<>>)
      BY <1>1, <2>8, AppendIsConcat
    <3> HIDE DEF f
    <3>2. f \in Seq(Text) /\ Len(f) = Len(e) + 1 /\ f[Len(e) + 1] = <<>> /\ \A i \in 1 .. Len(e) : f[i] = e[i]
      BY <1>1, <2>8, <3>1, AppendProperties
    <3>3. Len(e) \in Nat
      BY <2>8
    <3>4. ASSUME NEW i \in 1 .. Len(f) PROVE f[i] = <<>>
      <4>1. i = Len(e) + 1 \/ i \in 1 .. Len(e)
        BY <3>2, <3>3
      <4>2. \A h \in 1 .. Len(e) : e[h] = <<>>
        BY <2>7 DEF Blank
      <4>3. CASE i = Len(e) + 1
        BY <3>2, <4>3
      <4>4. CASE i \in 1 .. Len(e)
        <5>1. f[i] = e[i] /\ e[i] = <<>>
          BY <3>2, <4>2, <4>4
        <5>2. QED
          BY <5>1
      <4>5. QED
        BY <4>1, <4>3, <4>4
    <3>5. QED
      BY <3>2, <3>4 DEF Blank
  <2> HIDE DEF f
  <2>13. QED
    BY <2>6, <2>11, <2>12 DEF p
<1>7. D = {}
  <2> SUFFICES ASSUME D # {} PROVE FALSE
    OBVIOUS
  <2>1. N \in Nat /\ D \in SUBSET (1 .. N)
    BY <1>1, <1>2
  <2>2. PICK m \in D : \A d \in D : m <= d
    <3> HIDE DEF N, D
    <3>1. QED
      BY <2>1, Least
  <2>3. m \in 1 .. N /\ m - 1 \in 0 .. N /\ ~(m <= m - 1)
    BY <2>1, <2>2
  <2>4. m - 1 \notin D
    BY <2>2, <2>3
  <2>5. \E e : Blank(e) /\ Lines(SubSeq(s, 1, n + (m - 1))) = l \o e
    <3>1. CASE m - 1 = 0
      BY <1>5, <3>1
    <3>2. CASE m - 1 # 0
      <4>1. m - 1 \in 1 .. N
        BY <2>3, <3>2
      <4>2. QED
        BY <2>4, <4>1
    <3>3. QED
      BY <3>1, <3>2
  <2>6. m \notin D
    BY <1>6, <2>3, <2>5
  <2>7. QED
    BY <2>2, <2>6
<1>8. n + N = Len(s) /\ N \in Nat
  BY <1>1, <1>2
<1>9. \E e : Blank(e) /\ Lines(SubSeq(s, 1, n + N)) = l \o e
  <2>1. CASE N = 0
    BY <1>5, <2>1
  <2>2. CASE N # 0
    <3>1. N \in 1 .. N
      BY <1>8, <2>2
    <3>2. QED
      BY <1>7, <3>1
  <2>3. QED
    BY <2>1, <2>2
<1>10. SubSeq(s, 1, Len(s)) = s
  BY <1>1, SubSeqFull
<1>11. QED
  BY <1>8, <1>9, <1>10 DEF l

(* The editors add lines where they are said to, but for the last line of   *)
(* a file the tool edits.                                                   *)
LEMMA SplicedLines ==
  ASSUME NEW s \in Text, NEW t \in Text, NEW k \in Nat,
         k <= Cardinality(Breaks(s)) \/ (Script /\ k = Cardinality(Breaks(s)) + 1)
  PROVE  Lines(Spliced(s, k, t)) = Woven(Lines(s), k, t)
<1> DEFINE S == Words \cup {Nl}
           L == Lines(s)
           b == Cardinality(Breaks(s))
<1>1. /\ L \in Seq(Text) /\ Len(L) = b + 1 /\ b \in Nat /\ Lines(t) \in Seq(Text)
      /\ Len(s) \in Nat
  BY LinesAreTexts, BreaksCount DEF Text
<1> HIDE DEF L
<1>2. CASE k = 0
  <2>1. Spliced(s, k, t) = Joined(t, s)
    BY <1>2 DEF Spliced, Joined
  <2>2. Lines(Spliced(s, k, t)) = Lines(t) \o L
    BY <2>1, LinesOfJoined DEF L
  <2>3. SubSeq(L, 1, 0) = <<>> /\ SubSeq(L, 0 + 1, Len(L)) = L
    BY <1>1, SubSeqEmpty, SubSeqFull
  <2>4. <<>> \o Lines(t) = Lines(t)
    BY <1>1, ConcatEmptySeq
  <2>5. QED
    BY <1>2, <2>2, <2>3, <2>4 DEF Woven, L
<1>3. CASE k # 0 /\ k <= b
  <2> DEFINE p == Break(s, k)
             u == SubSeq(s, 1, p - 1)
             v == SubSeq(s, p + 1, Len(s))
  <2>1. p \in 1 .. Len(s) /\ p \in Breaks(s) /\ Cardinality(Upto(s, p)) = k
    BY <1>3, BreakIs DEF Text, Upto
  <2> HIDE DEF p
  <2>2. s[p] = Nl
    BY <2>1 DEF Breaks
  <2>3. s \in Seq(S) /\ <<Nl>> \in Seq(S) /\ t \in Seq(S)
    BY DEF Text
  <2>4. p - 1 \in Nat /\ p - 1 <= Len(s) /\ p + 1 \in Nat /\ p + 1 >= 1
    BY <1>1, <2>1
  <2> HIDE DEF S
  <2>5. u \in Seq(S) /\ v \in Seq(S)
    BY <1>1, <2>3, <2>4, PartIsSeq
  <2>6. SubSeq(s, 1, p) = u \o <<Nl>>
    <3>1. 1 \in 1 .. Len(s) /\ p \in 1 .. Len(s)
      BY <1>1, <2>1
    <3>2. QED
      BY <2>2, <2>3, <3>1, SubSeqRecursiveSecond
  <2>7. SubSeq(s, 1, p) \o v = s
    <3>1. 1 \in 1 .. Len(s) + 1 /\ p \in 1 - 1 .. Len(s) /\ Len(s) \in p .. Len(s)
      BY <1>1, <2>1
    <3>2. SubSeq(s, 1, p) \o v = SubSeq(s, 1, Len(s))
      BY <2>3, <3>1, ConcatAdjacentSubSeq
    <3>3. QED
      BY <2>3, <3>2, SubSeqFull
  <2>8. Len(u) = p - 1
    <3>1. \A i \in 1 .. p - 1 : s[i] \in S
      BY <1>1, <2>1, <2>3, ElementOfSeq
    <3>2. p - 1 \in Int /\ Len(u) = IF 1 <= p - 1 THEN (p - 1) - 1 + 1 ELSE 0
      BY <2>4, <3>1, SubSeqProperties
    <3>3. QED
      BY <2>4, <3>2
  <2> HIDE DEF u, v
  <2>9. u \in Text /\ v \in Text
    BY <2>5 DEF Text, S
  <2>10. s = Joined(u, v)
    BY <2>6, <2>7 DEF Joined
  <2>11. Cardinality(Breaks(u)) + 1 = k
    <3>1. Cardinality(Upto(Joined(u, v), Len(u) + 1)) = Cardinality(Breaks(u)) + 1
      BY <2>9, JoinedCount
    <3>2. Len(u) + 1 = p
      BY <1>1, <2>1, <2>8
    <3>3. QED
      BY <2>1, <2>10, <3>1, <3>2
  <2>12. /\ Lines(u) \in Seq(Text) /\ Len(Lines(u)) = k
         /\ Lines(v) \in Seq(Text)
    BY <2>9, <2>11, LinesAreTexts
  <2>13. L = Lines(u) \o Lines(v)
    BY <2>9, <2>10, LinesOfJoined DEF L
  <2>14. SubSeq(L, 1, k) = Lines(u) /\ SubSeq(L, k + 1, Len(L)) = Lines(v)
    BY <2>12, <2>13, PartsOfConcat
  <2> DEFINE n == <<Nl>>
             w == Joined(t, v)
  <2>15. Spliced(s, k, t) = Joined(u, w)
    <3>1. Spliced(s, k, t) = SubSeq(s, 1, p) \o t \o <<Nl>> \o v
      BY <1>3 DEF Spliced, p, v
    <3>2. Spliced(s, k, t) = Cat(Cat(Cat(Cat(u, n), t), n), v)
      BY <2>6, <3>1 DEF Cat
    <3>3. Joined(u, w) = Cat(Cat(u, n), Cat(Cat(t, n), v))
      BY DEF Joined, Cat
    <3>4. n \in Seq(S)
      BY <2>3
    <3> HIDE DEF n
    <3>5. Cat(u, n) \in Seq(S) /\ Cat(t, n) \in Seq(S)
      BY <2>3, <2>5, <3>4, CatAssociative
    <3>6. Cat(Cat(u, n), Cat(Cat(t, n), v)) = Cat(Cat(Cat(u, n), Cat(t, n)), v)
      BY <2>5, <3>5, CatAssociative
    <3>7. Cat(Cat(u, n), Cat(t, n)) = Cat(Cat(Cat(u, n), t), n)
      BY <2>3, <3>4, <3>5, CatAssociative
    <3>8. QED
      BY <3>2, <3>3, <3>6, <3>7
  <2>16. w \in Text
    BY <2>9, JoinedIs
  <2>17. Lines(w) = Lines(t) \o Lines(v)
    BY <2>9, LinesOfJoined
  <2> HIDE DEF w
  <2>18. Lines(Spliced(s, k, t)) = Lines(u) \o Lines(w)
    BY <2>9, <2>15, <2>16, LinesOfJoined
  <2>19. Cat(Lines(u), Cat(Lines(t), Lines(v))) = Cat(Cat(Lines(u), Lines(t)), Lines(v))
    BY <1>1, <2>12, CatAssociative
  <2>20. Lines(Spliced(s, k, t)) = Cat(Lines(u), Cat(Lines(t), Lines(v)))
    BY <2>17, <2>18 DEF Cat
  <2>21. Woven(L, k, t) = Cat(Cat(Lines(u), Lines(t)), Lines(v))
    BY <2>14 DEF Woven, Cat
  <2>22. QED
    BY <2>19, <2>20, <2>21 DEF L
<1>4. CASE Script /\ k = b + 1
  <2>1. Spliced(s, k, t) = Joined(s, t)
    BY <1>1, <1>4 DEF Spliced, Joined
  <2>2. Lines(Spliced(s, k, t)) = L \o Lines(t)
    BY <2>1, LinesOfJoined DEF L
  <2>3. SubSeq(L, 1, k) = L /\ SubSeq(L, k + 1, Len(L)) = <<>>
    BY <1>1, <1>4, SubSeqEmpty, SubSeqFull
  <2>4. L \o Lines(t) \in Seq(Text)
    BY <1>1, ConcatProperties
  <2>5. Woven(L, k, t) = (L \o Lines(t)) \o <<>>
    BY <2>3 DEF Woven
  <2>6. QED
    BY <2>2, <2>4, <2>5, ConcatEmptySeq DEF L
<1>5. QED
  BY <1>2, <1>3, <1>4

(* So do the insertions, with what a read drops and a write adds.           *)
LEMMA InsertKeepsLines ==
  ASSUME TypeOK, NEW k \in 0 .. MaxLen + 1, NEW t \in Inputs, Insert(k, t),
         Script \/ k = 0 \/ k < NumLines(Read(file))
  PROVE  InsertedAfter(k, t)
<1> DEFINE s == Read(file)
           b == Cardinality(Breaks(s))
           old == Lines(file)
           new == Woven(old, k, t)
<1>1. k \in Nat /\ t \in Text /\ file \in Text /\ k <= NumLines(s) /\ file' = Written(Spliced(s, k, t))
  BY EditorAssumption DEF Insert, CanInsert, Edited, TypeOK
<1>2. s \in Text /\ Spliced(s, k, t) \in Text
  BY <1>1, TextsFit, SplicedIsText
<1>3. b \in Nat
  BY <1>2, BreaksCount DEF Text
<1>4. InsertedAfter(k, t) =
          IF Script THEN Lines(file') = new ELSE Chomp(Lines(file'), <<>>) = Chomp(new, <<>>)
  BY DEF InsertedAfter, Woven
<1>5. CASE Script
  <2>1. s = file /\ file' = Spliced(s, k, t)
    BY <1>1, <1>5 DEF Read, Written, Script
  <2>2. k <= b \/ k = b + 1
    BY <1>1, <1>3, <1>5 DEF NumLines
  <2> HIDE DEF s, b, new
  <2>3. Lines(Spliced(s, k, t)) = Woven(Lines(s), k, t)
    BY <1>1, <1>2, <1>5, <2>2, SplicedLines DEF b
  <2>4. QED
    BY <1>4, <1>5, <2>1, <2>3 DEF new
<1>6. CASE ~Script
  <2> DEFINE l == Lines(s)
             w == Woven(l, k, t)
  <2>1. k <= b
    BY <1>1, <1>3, <1>6 DEF NumLines
  <2>2. <<>> \in Text
    <3>1. <<>> \in Seq(Words \cup {Nl})
      OBVIOUS
    <3>2. QED
      BY <3>1 DEF Text
  <2>3. l \in Seq(Text) /\ Len(l) = b + 1
    BY <1>2, LinesAreTexts
  <2>4. s = Chomp(file, Nl)
    BY <1>6 DEF Read
  <2> HIDE DEF s, b
  <2>5. Lines(Spliced(s, k, t)) = w
    BY <1>1, <1>2, <2>1, SplicedLines DEF b
  <2>6. PICK e : Blank(e) /\ old = l \o e
    BY <1>1, <2>4, ChompedLines
  <2> HIDE DEF l
  <2>7. w \in Seq(Text) /\ new = w \o e
    <3>1. k \in 0 .. Len(l)
      BY <1>1, <1>3, <2>1, <2>3
    <3>2. QED
      <4>1. e \in Seq(Text)
        BY <2>6 DEF Blank
      <4>2. Woven(l, k, t) \in Seq(Text) /\ Woven(l \o e, k, t) = Woven(l, k, t) \o e
        BY <1>1, <2>3, <3>1, <4>1, WovenPadded
      <4>3. QED
        BY <2>6, <4>2
  <2> HIDE DEF w, new
  <2>8. Chomp(new, <<>>) = Chomp(w, <<>>)
    BY <2>2, <2>6, <2>7, ChompPadded DEF Blank
  <2>9. Chomp(Lines(file'), <<>>) = Chomp(w, <<>>)
    <3>1. CASE editor = "heredoc"
      <4>1. Lines(file') = Append(w, <<>>)
        BY <1>1, <1>2, <2>5, <3>1, LinesOfAppended DEF Written
      <4>2. /\ Append(w, <<>>) = w \o << <<>> >> /\ << <<>> >> \in Seq(Text)
            /\ Len(<< <<>> >>) = 1 /\ << <<>> >>[1] = <<>>
        BY <2>2, <2>7, AppendIsConcat
      <4>3. Chomp(w \o << <<>> >>, <<>>) = Chomp(w, <<>>)
        <5> DEFINE f == << <<>> >>
        <5>1. f \in Seq(Text) /\ \A i \in 1 .. Len(f) : f[i] = <<>>
          BY <4>2
        <5> HIDE DEF f
        <5>2. Chomp(w \o f, <<>>) = Chomp(w, <<>>)
          BY <2>2, <2>7, <5>1, ChompPadded
        <5>3. QED
          BY <5>2 DEF f
      <4>4. QED
        BY <4>1, <4>2, <4>3
    <3>2. CASE editor # "heredoc"
      BY <1>1, <2>5, <3>2 DEF Written
    <3>3. QED
      BY <3>1, <3>2
  <2>10. QED
    BY <1>4, <1>6, <2>8, <2>9
<1>7. QED
  BY <1>5, <1>6

(* Whatever the texts, an insertion leaves the lines of the file as they are*)
(* and in their order, and puts those of new_str after the line it was told;*)
(* the exception is the last line of a file that the tool edits.            *)
THEOREM InsertsKeepTheLines == Spec => InsertsKeepLines
<1>1. TypeOK => \A k \in 0 .. MaxLen + 1, t \in Inputs :
          Insert(k, t) /\ (Script \/ k = 0 \/ k < NumLines(Read(file))) => InsertedAfter(k, t)
  BY InsertKeepsLines
<1>2. QED
  BY <1>1, TypeCorrect, PTL DEF InsertsKeepLines

(* The script has no exception: what breaks the promise is the tool, at the *)
(* last line of a file.                                                     *)
THEOREM ScriptInsertsAfterLine == Script /\ Spec => InsertsGoAfterLine
<1>1. Script /\ [Next]_vars => Script'
  BY DEF Script, Next, vars, Create, CreateFails, StrReplace, StrReplaceFails, Insert, InsertFails,
     Edited, EditFails, Estranged, Undo, UndoFails, Bash, Killed
<1>2. TypeOK /\ Script => \A k \in 0 .. MaxLen + 1, t \in Inputs : Insert(k, t) => InsertedAfter(k, t)
  BY InsertKeepsLines
<1>3. Spec => [][Next]_vars
  BY DEF Spec
<1>4. QED
  BY <1>1, <1>2, <1>3, TypeCorrect, PTL DEF InsertsGoAfterLine
=============================================================================
