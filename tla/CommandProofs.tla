---------------------------- MODULE CommandProofs ----------------------------
(***************************************************************************)
(* For any library, working directories and command lines.                  *)
(***************************************************************************)
EXTENDS Command, SequenceTheorems, FiniteSetTheorems, TLAPS

-----------------------------------------------------------------------------
(* Induction.                                                                 *)

\* Every set of numbers has a least one: what induction rests on.
LEMMA LeastNumber ==
  ASSUME NEW T \in SUBSET Nat, T # {}
  PROVE  \E m \in T : \A k \in T : m <= k
<1> DEFINE X == {1..n : n \in T}
<1>1. X \subseteq FiniteSubsetsOf(Nat) /\ X # {}
  <2>1. \A n \in T : 1..n \in SUBSET Nat /\ IsFiniteSet(1..n)
    BY FS_Interval
  <2> QED
    BY <2>1 DEF FiniteSubsetsOf
<1>2. IsWellFoundedOn(StrictSubsetOrdering(Nat), FiniteSubsetsOf(Nat))
  BY FS_StrictSubsetOrderingWellFounded
<1> HIDE DEF X
<1>3. PICK x \in X : \A y \in X : ~ (<<y, x>> \in StrictSubsetOrdering(Nat))
  BY <1>1, <1>2, WFMin
<1> USE DEF X
<1>4. PICK m \in T : x = 1..m
  BY <1>3
<1>5. \A k \in T : m <= k
  <2> SUFFICES ASSUME NEW k \in T, k < m PROVE FALSE
    OBVIOUS
  <2>1. 1..k \subseteq 1..m /\ 1..k # 1..m /\ 1..k \in SUBSET Nat /\ 1..m \in SUBSET Nat
    <3>1. m \in 1..m /\ m \notin 1..k
      OBVIOUS
    <3> QED
      BY <3>1
  <2>2. <<1..k, 1..m>> \in StrictSubsetOrdering(Nat)
    BY <2>1 DEF StrictSubsetOrdering
  <2> QED
    BY <1>3, <1>4, <2>2
<1> QED
  BY <1>5

\* Induction up to n, for the set of the numbers a statement is true of.
LEMMA UpTo ==
  ASSUME NEW n \in Nat, NEW S, 0 \in S,
         \A k \in 0..n : k \in S /\ k < n => k + 1 \in S
  PROVE  0..n \subseteq S
<1> DEFINE T == (0..n) \ S
<1> SUFFICES ASSUME T # {} PROVE FALSE
  OBVIOUS
<1>1. T \in SUBSET Nat
  OBVIOUS
<1> HIDE DEF T
<1>2. PICK m \in T : \A k \in T : m <= k
  BY <1>1, LeastNumber
<1> USE DEF T
<1>3. m \in 0..n /\ m \notin S /\ m # 0
  BY <1>2
<1>4. m - 1 \in 0..n /\ m - 1 \notin T /\ m - 1 < n
  BY <1>2, <1>3
<1> QED
  BY <1>3, <1>4

-----------------------------------------------------------------------------
\* The names Clean passes through.
IsCleaning(c, absolute, parts) ==
  c = [k \in 0..Len(parts) |-> IF k = 0 THEN <<>> ELSE Entered(absolute, c[k - 1], parts[k])]

Cleaning(absolute, parts) == CHOOSE c : IsCleaning(c, absolute, parts)

LEMMA CleanIsLast ==
  \A absolute, parts : Clean(absolute, parts) = Cleaning(absolute, parts)[Len(parts)]
BY DEF Clean, Cleaning, IsCleaning

LEMMA CleaningExists ==
  ASSUME NEW absolute, NEW parts, Len(parts) \in Nat
  PROVE  \E c : IsCleaning(c, absolute, parts)
<1> DEFINE So(c, n) ==
             c = [k \in 0..n |-> IF k = 0 THEN <<>> ELSE Entered(absolute, c[k - 1], parts[k])]
           S == {n \in Nat : \E c : So(c, n)}
<1>1. 0 \in S
  <2> DEFINE d == [k \in 0..0 |-> <<>>]
  <2>1. So(d, 0)
    OBVIOUS
  <2> QED
    BY <2>1
<1>2. \A n \in 0..Len(parts) : n \in S /\ n < Len(parts) => n + 1 \in S
  <2> SUFFICES ASSUME NEW n \in Nat, n \in S PROVE n + 1 \in S
    OBVIOUS
  <2>1. PICK c : So(c, n)
    OBVIOUS
  <2> DEFINE d == [k \in 0..(n + 1) |->
                     IF k = n + 1 THEN Entered(absolute, c[n], parts[n + 1]) ELSE c[k]]
  <2>2. ASSUME NEW k \in 0..(n + 1)
        PROVE  d[k] = IF k = 0 THEN <<>> ELSE Entered(absolute, d[k - 1], parts[k])
    <3>1. CASE k = 0
      BY <2>1, <3>1
    <3>2. CASE k \in 1..n
      <4>1. k \in 0..n /\ k # 0 /\ k # n + 1 /\ k - 1 \in 0..(n + 1) /\ k - 1 # n + 1
        BY <3>2
      <4>2. c[k] = Entered(absolute, c[k - 1], parts[k])
        BY <2>1, <4>1
      <4>3. d[k] = c[k] /\ d[k - 1] = c[k - 1]
        BY <4>1
      <4> QED
        BY <4>1, <4>2, <4>3
    <3>3. CASE k = n + 1
      <4>1. n \in 0..(n + 1) /\ n # n + 1 /\ k - 1 = n /\ k # 0
        BY <3>3
      <4>2. d[n] = c[n] /\ d[k] = Entered(absolute, c[n], parts[n + 1])
        BY <3>3, <4>1
      <4> QED
        BY <3>3, <4>1, <4>2
    <3> QED
      BY <3>1, <3>2, <3>3
  <2> HIDE DEF d
  <2>3. d = [k \in 0..(n + 1) |-> d[k]]
    BY DEF d
  <2>4. So(d, n + 1)
    BY <2>2, <2>3, Zenon
  <2> QED
    BY <2>4
<1> HIDE DEF S
<1>3. 0..Len(parts) \subseteq S
  BY <1>1, <1>2, UpTo
<1>4. Len(parts) \in S
  BY <1>3
<1> QED
  BY <1>4 DEF S, IsCleaning

LEMMA CleaningDef ==
  ASSUME NEW absolute, NEW parts, Len(parts) \in Nat
  PROVE  /\ Cleaning(absolute, parts)[0] = <<>>
         /\ \A k \in 1..Len(parts) :
              Cleaning(absolute, parts)[k]
                = Entered(absolute, Cleaning(absolute, parts)[k - 1], parts[k])
<1> DEFINE c == Cleaning(absolute, parts)
<1>1. IsCleaning(c, absolute, parts)
  BY CleaningExists DEF Cleaning
<1> HIDE DEF c
<1>2. c = [k \in 0..Len(parts) |->
             IF k = 0 THEN <<>> ELSE Entered(absolute, c[k - 1], parts[k])]
  BY <1>1 DEF IsCleaning
<1>3. \A k \in 0..Len(parts) :
        c[k] = IF k = 0 THEN <<>> ELSE Entered(absolute, c[k - 1], parts[k])
  BY <1>2, Zenon
<1>4. c[0] = <<>>
  BY <1>3
<1>5. \A k \in 1..Len(parts) : k \in 0..Len(parts) /\ k # 0
  OBVIOUS
<1> QED
  BY <1>3, <1>4, <1>5 DEF c

-----------------------------------------------------------------------------
(* What Clean makes of a name.                                                *)

Plain == STRING \ {".", ".."}

LEMMA PlaceIsSeq ==
  /\ Place = Seq(Plain)
  /\ \A p \in Place : p \in Seq(STRING)
<1>1. Place = Seq(Plain)
  BY DEF Place, Plain
<1>2. Plain \subseteq STRING
  BY DEF Plain
<1> QED
  BY <1>1, <1>2, SeqMonotonic

LEMMA FrontFacts ==
  ASSUME NEW S, NEW s \in Seq(S), s # <<>>
  PROVE  /\ Front(s) \in Seq(S) /\ Last(s) \in S
         /\ Len(Front(s)) = Len(s) - 1
         /\ \A i \in 1..(Len(s) - 1) : Front(s)[i] = s[i]
<1>1. Len(s) \in Nat \ {0} /\ \A i \in 1..Len(s) : s[i] \in S
  BY EmptySeq, ElementOfSeq
<1> DEFINE n == Len(s) - 1
<1>2. n \in Nat /\ 1 \in Int /\ n \in Int /\ \A i \in 1..n : s[i] \in S
  BY <1>1
<1> HIDE DEF n
<1>3. /\ SubSeq(s, 1, n) \in Seq(S)
      /\ Len(SubSeq(s, 1, n)) = IF 1 <= n THEN n - 1 + 1 ELSE 0
      /\ \A i \in 1..(n - 1 + 1) : SubSeq(s, 1, n)[i] = s[1 + i - 1]
  BY <1>2, SubSeqProperties
<1>4. Len(SubSeq(s, 1, n)) = n /\ \A i \in 1..n : SubSeq(s, 1, n)[i] = s[i]
  BY <1>2, <1>3
<1> QED
  BY <1>1, <1>3, <1>4 DEF Front, Last, n

LEMMA AppendToJoined ==
  ASSUME NEW s \in Seq(Plain), NEW t \in Seq(Plain), NEW x \in Plain
  PROVE  Append(s \o t, x) = s \o Append(t, x)
<1>1. s \o t \in Seq(Plain) /\ <<x>> \in Seq(Plain)
  BY ConcatProperties
<1>2. Append(s \o t, x) = (s \o t) \o <<x>> /\ Append(t, x) = t \o <<x>>
  BY <1>1, AppendIsConcat
<1>3. (s \o t) \o <<x>> = s \o (t \o <<x>>)
  BY <1>1, ConcatAssociative
<1> QED
  BY <1>2, <1>3

LEMMA FrontOfJoined ==
  ASSUME NEW S, NEW s \in Seq(S), NEW t \in Seq(S), t # <<>>
  PROVE  s \o t # <<>> /\ Front(s \o t) = s \o Front(t)
<1>1. Len(s) \in Nat /\ Len(t) \in Nat \ {0} /\ Len(<<>>) = 0
  BY LenProperties, EmptySeq
<1>2. /\ s \o t \in Seq(S) /\ Len(s \o t) = Len(s) + Len(t)
      /\ \A i \in 1..(Len(s) + Len(t)) : (s \o t)[i] = IF i <= Len(s) THEN s[i] ELSE t[i - Len(s)]
  BY ConcatProperties
<1>3. s \o t # <<>>
  BY <1>1, <1>2
<1>4. /\ Front(t) \in Seq(S) /\ Len(Front(t)) = Len(t) - 1
      /\ \A i \in 1..(Len(t) - 1) : Front(t)[i] = t[i]
  BY FrontFacts
<1>5. /\ Front(s \o t) \in Seq(S) /\ Len(Front(s \o t)) = Len(s \o t) - 1
      /\ \A i \in 1..(Len(s \o t) - 1) : Front(s \o t)[i] = (s \o t)[i]
  BY <1>2, <1>3, FrontFacts
<1>6. /\ s \o Front(t) \in Seq(S) /\ Len(s \o Front(t)) = Len(s) + Len(Front(t))
      /\ \A i \in 1..(Len(s) + Len(Front(t))) :
           (s \o Front(t))[i] = IF i <= Len(s) THEN s[i] ELSE Front(t)[i - Len(s)]
  BY <1>4, ConcatProperties
<1>7. Len(Front(s \o t)) = Len(s \o Front(t))
  BY <1>1, <1>2, <1>4, <1>5, <1>6
<1>8. \A i \in 1..Len(Front(s \o t)) : Front(s \o t)[i] = (s \o Front(t))[i]
  <2> SUFFICES ASSUME NEW i \in 1..Len(Front(s \o t))
               PROVE  Front(s \o t)[i] = (s \o Front(t))[i]
    OBVIOUS
  <2>1. /\ i \in 1..(Len(s) + Len(t)) /\ i \in 1..(Len(s \o t) - 1)
        /\ i \in 1..(Len(s) + Len(Front(t)))
    BY <1>1, <1>2, <1>4, <1>5
  <2>2. ~(i <= Len(s)) => i - Len(s) \in 1..(Len(t) - 1)
    BY <1>1, <1>2, <2>1
  <2> QED
    BY <1>2, <1>4, <1>5, <1>6, <2>1, <2>2
<1> QED
  BY <1>3, <1>5, <1>6, <1>7, <1>8, SeqEqual

LEMMA SubSeqByOne ==
  ASSUME NEW S, NEW s \in Seq(S), NEW k \in Nat, k < Len(s)
  PROVE  /\ SubSeq(s, 1, k) \in Seq(S) /\ s[k + 1] \in S
         /\ SubSeq(s, 1, k + 1) = Append(SubSeq(s, 1, k), s[k + 1])
<1>1. Len(s) \in Nat /\ 1 \in 1..Len(s) /\ k + 1 \in 1..Len(s) /\ (k + 1) - 1 = k
  BY LenProperties
<1>2. \A i \in 1..k : s[i] \in S
  BY <1>1, ElementOfSeq
<1>3. SubSeq(s, 1, k) \in Seq(S)
  BY <1>2, SubSeqProperties
<1>4. s[k + 1] \in S
  BY <1>1, ElementOfSeq
<1>5. SubSeq(s, 1, k + 1) = SubSeq(s, 1, (k + 1) - 1) \o <<s[k + 1]>>
  BY <1>1, SubSeqRecursiveSecond
<1> QED
  BY <1>1, <1>3, <1>4, <1>5, AppendIsConcat

LEMMA EnteredType ==
  ASSUME NEW absolute, NEW parts \in Seq(STRING), NEW part \in STRING
  PROVE  Entered(absolute, parts, part) \in Seq(STRING)
BY FrontFacts, AppendProperties DEF Entered

LEMMA EnteredPlace ==
  ASSUME NEW place \in Place, NEW part \in STRING
  PROVE  /\ Entered(TRUE, place, part) \in Place
         /\ Entered(TRUE, place, part) =
              CASE part = "."  -> place
                [] part = ".." -> IF place = <<>> THEN <<>> ELSE Front(place)
                [] OTHER       -> Append(place, part)
<1>1. place \in Seq(Plain)
  BY PlaceIsSeq
<1>2. place # <<>> => Front(place) \in Seq(Plain) /\ Last(place) # ".."
  BY <1>1, FrontFacts DEF Plain
<1>3. part \notin {".", ".."} => Append(place, part) \in Seq(Plain)
  BY <1>1, AppendProperties DEF Plain
<1> QED
  BY <1>1, <1>2, <1>3, PlaceIsSeq DEF Entered

LEMMA CleaningType ==
  ASSUME NEW absolute, NEW parts \in Seq(STRING)
  PROVE  \A k \in 0..Len(parts) : /\ Cleaning(absolute, parts)[k] \in Seq(STRING)
                                  /\ absolute = TRUE => Cleaning(absolute, parts)[k] \in Place
<1> DEFINE c == Cleaning(absolute, parts)
           S == {k \in Nat : c[k] \in Seq(STRING) /\ (absolute = TRUE => c[k] \in Place)}
<1>1. Len(parts) \in Nat /\ \A k \in 1..Len(parts) : parts[k] \in STRING
  BY LenProperties, ElementOfSeq
<1>2. c[0] = <<>> /\ \A k \in 1..Len(parts) : c[k] = Entered(absolute, c[k - 1], parts[k])
  BY <1>1, CleaningDef
<1> HIDE DEF c
<1>3. 0 \in S
  BY <1>2, EmptySeq, PlaceIsSeq
<1>4. \A k \in 0..Len(parts) : k \in S /\ k < Len(parts) => k + 1 \in S
  <2> SUFFICES ASSUME NEW k \in 0..Len(parts), k \in S, k < Len(parts) PROVE k + 1 \in S
    OBVIOUS
  <2>1. k + 1 \in 1..Len(parts) /\ (k + 1) - 1 = k
    BY <1>1
  <2>2. parts[k + 1] \in STRING /\ c[k + 1] = Entered(absolute, c[k], parts[k + 1])
    BY <1>1, <1>2, <2>1
  <2>3. c[k + 1] \in Seq(STRING)
    BY <2>2, EnteredType
  <2>4. absolute = TRUE => c[k + 1] \in Place
    <3>1. CASE absolute = TRUE
      <4>1. c[k] \in Place /\ c[k + 1] = Entered(TRUE, c[k], parts[k + 1])
        BY <2>2, <3>1
      <4> QED
        BY <2>2, <4>1, EnteredPlace
    <3> QED
      BY <3>1
  <2> QED
    BY <2>1, <2>3, <2>4
<1> HIDE DEF S
<1>5. 0..Len(parts) \subseteq S
  BY <1>1, <1>3, <1>4, UpTo
<1> QED
  BY <1>5 DEF S, c

LEMMA CleanType ==
  ASSUME NEW parts \in Seq(STRING)
  PROVE  /\ Clean(TRUE, parts) \in Place
         /\ \A absolute : Clean(absolute, parts) \in Seq(STRING)
<1>1. Len(parts) \in 0..Len(parts)
  BY LenProperties
<1> QED
  BY <1>1, CleaningType, CleanIsLast

\* What comes first is cleaned first.
LEMMA CleaningOfFirst ==
  ASSUME NEW absolute, NEW a \in Seq(STRING), NEW b \in Seq(STRING)
  PROVE  \A k \in 0..Len(a) : Cleaning(absolute, a \o b)[k] = Cleaning(absolute, a)[k]
<1> DEFINE c == Cleaning(absolute, a)
           d == Cleaning(absolute, a \o b)
           S == {k \in Nat : d[k] = c[k]}
<1>1. /\ Len(a) \in Nat /\ Len(b) \in Nat /\ Len(a \o b) = Len(a) + Len(b)
      /\ \A k \in 1..Len(a) : (a \o b)[k] = a[k]
  BY LenProperties, ConcatProperties
<1>2. c[0] = <<>> /\ \A k \in 1..Len(a) : c[k] = Entered(absolute, c[k - 1], a[k])
  BY <1>1, CleaningDef
<1>3. /\ d[0] = <<>>
      /\ \A k \in 1..Len(a \o b) : d[k] = Entered(absolute, d[k - 1], (a \o b)[k])
  <2>1. Len(a \o b) \in Nat
    BY <1>1
  <2> QED
    BY <2>1, CleaningDef
<1> HIDE DEF c, d
<1>4. 0 \in S
  BY <1>2, <1>3
<1>5. \A k \in 0..Len(a) : k \in S /\ k < Len(a) => k + 1 \in S
  <2> SUFFICES ASSUME NEW k \in 0..Len(a), k \in S, k < Len(a) PROVE k + 1 \in S
    OBVIOUS
  <2>1. k + 1 \in 1..Len(a) /\ k + 1 \in 1..Len(a \o b) /\ (k + 1) - 1 = k
    BY <1>1
  <2>2. c[k + 1] = Entered(absolute, c[k], a[k + 1])
    BY <1>2, <2>1
  <2>3. d[k + 1] = Entered(absolute, d[k], a[k + 1])
    BY <1>1, <1>3, <2>1
  <2> QED
    BY <2>1, <2>2, <2>3
<1> HIDE DEF S
<1>6. 0..Len(a) \subseteq S
  BY <1>1, <1>4, <1>5, UpTo
<1> QED
  BY <1>6 DEF S, c, d

\* A place below a name is kept.
LEMMA CleanKeepsPlace ==
  ASSUME NEW a \in Seq(STRING), NEW b \in Place
  PROVE  Clean(TRUE, a \o b) = Clean(TRUE, a) \o b
<1> DEFINE c == Cleaning(TRUE, a \o b)
           r == Clean(TRUE, a)
           S == {k \in Nat : c[Len(a) + k] = r \o SubSeq(b, 1, k)}
<1>1. b \in Seq(Plain) /\ b \in Seq(STRING) /\ r \in Seq(Plain)
  BY PlaceIsSeq, CleanType
<1>2. /\ Len(a) \in Nat /\ Len(b) \in Nat /\ Len(a \o b) = Len(a) + Len(b)
      /\ \A k \in 1..Len(b) : (a \o b)[Len(a) + k] = b[k] /\ b[k] \in Plain
  BY <1>1, LenProperties, ConcatProperties, ElementOfSeq
<1>3. \A k \in 1..Len(a \o b) : c[k] = Entered(TRUE, c[k - 1], (a \o b)[k])
  <2>1. Len(a \o b) \in Nat
    BY <1>2
  <2> QED
    BY <2>1, CleaningDef
<1>4. c[Len(a)] = r
  <2>1. Len(a) \in 0..Len(a)
    BY <1>2
  <2>2. c[Len(a)] = Cleaning(TRUE, a)[Len(a)]
    BY <1>1, <2>1, CleaningOfFirst
  <2> QED
    BY <2>2, CleanIsLast
<1> HIDE DEF c, r
<1>5. 0 \in S
  <2>1. SubSeq(b, 1, 0) = <<>> /\ r \o <<>> = r
    BY <1>1, SubSeqEmpty, ConcatEmptySeq
  <2>2. Len(a) + 0 = Len(a) /\ 0 \in Nat
    BY <1>2
  <2> QED
    BY <1>4, <2>1, <2>2
<1>6. \A k \in 0..Len(b) : k \in S /\ k < Len(b) => k + 1 \in S
  <2> SUFFICES ASSUME NEW k \in 0..Len(b), k \in S, k < Len(b) PROVE k + 1 \in S
    OBVIOUS
  <2> DEFINE x == b[k + 1]
  <2>1. k + 1 \in 1..Len(b) /\ (k + 1) - 1 = k /\ x \in Plain
    BY <1>2
  <2>2. c[Len(a) + (k + 1)] = Entered(TRUE, c[Len(a) + k], x)
    <3>1. /\ Len(a) + (k + 1) \in 1..Len(a \o b)
          /\ (Len(a) + (k + 1)) - 1 = Len(a) + k
      BY <1>2, <2>1
    <3> QED
      BY <1>2, <1>3, <2>1, <3>1
  <2>3. SubSeq(b, 1, k) \in Seq(Plain) /\ SubSeq(b, 1, k + 1) = Append(SubSeq(b, 1, k), x)
    BY <1>1, <1>2, SubSeqByOne
  <2>4. Entered(TRUE, c[Len(a) + k], x) = Append(c[Len(a) + k], x)
    BY <2>1 DEF Entered, Plain
  <2> HIDE DEF x
  <2>5. Append(r \o SubSeq(b, 1, k), x) = r \o Append(SubSeq(b, 1, k), x)
    BY <1>1, <2>1, <2>3, AppendToJoined
  <2>6. c[Len(a) + k] = r \o SubSeq(b, 1, k)
    OBVIOUS
  <2>7. c[Len(a) + (k + 1)] = r \o SubSeq(b, 1, k + 1)
    BY <2>2, <2>3, <2>4, <2>5, <2>6
  <2> QED
    BY <2>1, <2>7
<1> HIDE DEF S
<1>7. 0..Len(b) \subseteq S
  BY <1>2, <1>5, <1>6, UpTo
<1>8. Len(b) \in S /\ SubSeq(b, 1, Len(b)) = b
  BY <1>1, <1>2, <1>7, SubSeqFull
<1>9. c[Len(a \o b)] = r \o b
  BY <1>2, <1>8 DEF S
<1> QED
  BY <1>9, CleanIsLast DEF c, r

\* Below another directory a name means the same place, if it never leaves the root.
LEMMA CleanElsewhere ==
  ASSUME NEW q \in Place, NEW parts \in Seq(STRING), StaysBelow(parts)
  PROVE  Clean(TRUE, q \o parts) = q \o Clean(TRUE, parts)
<1> DEFINE c == Cleaning(TRUE, parts)
           d == Cleaning(TRUE, q \o parts)
           S == {k \in Nat : d[Len(q) + k] = q \o c[k]}
<1>1. q \in Seq(Plain) /\ q \in Seq(STRING)
  BY PlaceIsSeq
<1>2. /\ Len(q) \in Nat /\ Len(parts) \in Nat /\ Len(q \o parts) = Len(q) + Len(parts)
      /\ DOMAIN parts = 1..Len(parts)
      /\ \A k \in 1..Len(parts) : (q \o parts)[Len(q) + k] = parts[k] /\ parts[k] \in STRING
  BY <1>1, LenProperties, ConcatProperties, ElementOfSeq
<1>3. c[0] = <<>> /\ \A k \in 1..Len(parts) : c[k] = Entered(TRUE, c[k - 1], parts[k])
  BY <1>2, CleaningDef
<1>4. \A k \in 1..Len(q \o parts) : d[k] = Entered(TRUE, d[k - 1], (q \o parts)[k])
  <2>1. Len(q \o parts) \in Nat
    BY <1>2
  <2> QED
    BY <2>1, CleaningDef
<1>5. d[Len(q)] = q
  <2>1. <<>> \in Seq(STRING) /\ Len(<<>>) = 0 /\ <<>> \o q = q
    BY <1>1, EmptySeq, ConcatEmptySeq
  <2>2. Cleaning(TRUE, <<>>)[0] = <<>>
    BY <2>1, CleaningDef
  <2>3. Clean(TRUE, <<>> \o q) = <<>> \o q
    BY <2>1, <2>2, CleanKeepsPlace, CleanIsLast
  <2>4. Len(q) \in 0..Len(q)
    BY <1>2
  <2>5. d[Len(q)] = Cleaning(TRUE, q)[Len(q)]
    BY <1>1, <2>4, CleaningOfFirst
  <2> QED
    BY <2>1, <2>3, <2>5, CleanIsLast
<1>6. \A k \in 0..Len(parts) : c[k] \in Place
  BY CleaningType
<1>7. \A k \in 0..Len(parts) : k < Len(parts) /\ parts[k + 1] = ".." => c[k] # <<>>
  <2> SUFFICES ASSUME NEW k \in 0..Len(parts), k < Len(parts), parts[k + 1] = ".."
               PROVE  c[k] # <<>>
    OBVIOUS
  <2> DEFINE a == SubSeq(parts, 1, k)
             b == SubSeq(parts, k + 1, Len(parts))
  <2>1. k + 1 \in DOMAIN parts /\ (k + 1) - 1 = k
    BY <1>2
  <2>2. Clean(TRUE, a) # <<>>
    BY <2>1 DEF StaysBelow
  <2>3. a \o b = parts
    <3>1. /\ 1 \in 1..(Len(parts) + 1) /\ k \in (1 - 1)..Len(parts)
          /\ Len(parts) \in k..Len(parts)
      BY <1>2
    <3>2. a \o b = SubSeq(parts, 1, Len(parts))
      BY <3>1, ConcatAdjacentSubSeq
    <3> QED
      BY <3>2, SubSeqFull
  <2>4. a \in Seq(STRING) /\ Len(a) = k
    <3>1. \A i \in 1..k : parts[i] \in STRING
      BY <1>2
    <3>2. /\ a \in Seq(STRING)
          /\ Len(a) = IF 1 <= k THEN k - 1 + 1 ELSE 0
      BY <3>1, SubSeqProperties
    <3> QED
      BY <3>2
  <2>5. b \in Seq(STRING)
    <3>1. \A i \in (k + 1)..Len(parts) : parts[i] \in STRING
      BY <1>2
    <3>2. k + 1 \in Int /\ Len(parts) \in Int
      BY <1>2
    <3> QED
      BY <3>1, <3>2, SubSeqProperties
  <2>6. Len(a) \in 0..Len(a)
    BY <2>4
  <2>7. Cleaning(TRUE, a \o b)[Len(a)] = Cleaning(TRUE, a)[Len(a)]
    BY <2>4, <2>5, <2>6, CleaningOfFirst
  <2> QED
    BY <2>2, <2>3, <2>4, <2>7, CleanIsLast
<1> HIDE DEF c, d
<1>8. 0 \in S
  <2>1. Len(q) + 0 = Len(q) /\ q \o <<>> = q
    BY <1>1, <1>2, ConcatEmptySeq
  <2> QED
    BY <1>3, <1>5, <2>1
<1>9. \A k \in 0..Len(parts) : k \in S /\ k < Len(parts) => k + 1 \in S
  <2> SUFFICES ASSUME NEW k \in 0..Len(parts), k \in S, k < Len(parts) PROVE k + 1 \in S
    OBVIOUS
  <2> DEFINE x == parts[k + 1]
  <2>1. k + 1 \in 1..Len(parts) /\ (k + 1) - 1 = k /\ x \in STRING
    BY <1>2
  <2>2. d[Len(q) + (k + 1)] = Entered(TRUE, d[Len(q) + k], x)
    <3>1. /\ Len(q) + (k + 1) \in 1..Len(q \o parts)
          /\ (Len(q) + (k + 1)) - 1 = Len(q) + k
      BY <1>2, <2>1
    <3> QED
      BY <1>2, <1>4, <2>1, <3>1
  <2>3. c[k + 1] = Entered(TRUE, c[k], x)
    BY <1>3, <2>1
  <2>4. d[Len(q) + k] = q \o c[k]
    OBVIOUS
  <2>5. x = ".." => c[k] # <<>>
    BY <1>7
  <2>6. c[k] \in Place /\ c[k] \in Seq(Plain) /\ q \o c[k] \in Place
    <3>1. c[k] \in Seq(Plain)
      BY <1>6, PlaceIsSeq
    <3> QED
      BY <1>1, <3>1, ConcatProperties, PlaceIsSeq
  <2> HIDE DEF x
  <2>7. Entered(TRUE, q \o c[k], x) = q \o Entered(TRUE, c[k], x)
    <3>1. CASE x = "."
      BY <2>1, <2>6, <3>1, EnteredPlace
    <3>2. CASE x = ".."
      <4>1. c[k] # <<>> /\ q \o c[k] # <<>> /\ Front(q \o c[k]) = q \o Front(c[k])
        BY <1>1, <2>5, <2>6, <3>2, FrontOfJoined
      <4> QED
        BY <2>1, <2>6, <3>2, <4>1, EnteredPlace
    <3>3. CASE x \notin {".", ".."}
      <4>1. x \in Plain
        BY <2>1, <3>3 DEF Plain
      <4>2. Append(q \o c[k], x) = q \o Append(c[k], x)
        BY <1>1, <2>6, <4>1, AppendToJoined
      <4> QED
        BY <2>1, <2>6, <3>3, <4>2, EnteredPlace
    <3> QED
      BY <3>1, <3>2, <3>3
  <2>8. d[Len(q) + (k + 1)] = q \o c[k + 1]
    BY <2>2, <2>3, <2>4, <2>7
  <2> QED
    BY <2>1, <2>8
<1> HIDE DEF S
<1>10. 0..Len(parts) \subseteq S
  BY <1>2, <1>8, <1>9, UpTo
<1>11. d[Len(q \o parts)] = q \o c[Len(parts)]
  <2>1. Len(parts) \in S
    BY <1>2, <1>10
  <2> QED
    BY <1>2, <2>1 DEF S
<1> QED
  BY <1>11, CleanIsLast DEF c, d

-----------------------------------------------------------------------------
(* The types.                                                                 *)

FilesOK(fs) == DOMAIN fs \subseteq Place /\ \A p \in DOMAIN fs : fs[p] \in File

LEMMA ResolveType ==
  ASSUME NEW dir \in Place, NEW n \in Name PROVE Resolve(dir, n) \in Place
<1>1. n.parts \in Seq(STRING) /\ dir \in Seq(STRING)
  BY PlaceIsSeq DEF Name
<1>2. dir \o n.parts \in Seq(STRING)
  BY <1>1, ConcatProperties
<1> QED
  BY <1>1, <1>2, CleanType DEF Resolve

LEMMA DestinationType == \A n \in Name : Destination(n) \in Place
<1> SUFFICES ASSUME NEW n \in Name PROVE Destination(n) \in Place
  OBVIOUS
<1>1. n.parts \in Seq(STRING) /\ QuarantineRoot \in Seq(STRING)
  BY CommandAssumption, PlaceIsSeq DEF Name
<1>2. QuarantineRoot \o n.parts \in Seq(STRING)
  BY <1>1, ConcatProperties
<1> QED
  BY <1>2, CleanType DEF Destination

\* The rest of a place.
LEMMA RestType ==
  ASSUME NEW root \in Place, NEW p \in Place
  PROVE  SubSeq(p, Len(root) + 1, Len(p)) \in Place
<1>1. p \in Seq(Plain) /\ root \in Seq(Plain)
  BY PlaceIsSeq
<1>2. Len(root) + 1 \in Int /\ Len(p) \in Int
  BY <1>1, LenProperties
<1>3. \A i \in (Len(root) + 1)..Len(p) : p[i] \in Plain
  <2>1. Len(root) \in Nat /\ Len(p) \in Nat
    BY <1>1, LenProperties
  <2>2. \A i \in (Len(root) + 1)..Len(p) : i \in 1..Len(p)
    BY <2>1
  <2> QED
    BY <1>1, <2>2, ElementOfSeq
<1> QED
  BY <1>2, <1>3, SubSeqProperties, PlaceIsSeq

LEMMA FoundType ==
  ASSUME FilesOK(files), NEW dir \in Place, NEW arg \in Name
  PROVE  Found(dir, arg) \subseteq Name
<1> SUFFICES ASSUME NEW n \in Found(dir, arg) PROVE n \in Name
  OBVIOUS
<1> DEFINE root == Resolve(dir, arg)
           below(p) == arg.parts \o SubSeq(p, Len(root) + 1, Len(p))
<1>1. PICK p \in DOMAIN files :
        n = IF p = root THEN arg
            ELSE [absolute |-> arg.absolute, parts |-> Clean(arg.absolute, below(p))]
  BY Zenon DEF Found
<1>2. arg.absolute \in BOOLEAN /\ arg.parts \in Seq(STRING)
  BY DEF Name
<1>3. SubSeq(p, Len(root) + 1, Len(p)) \in Seq(STRING)
  BY ResolveType, RestType, PlaceIsSeq DEF FilesOK
<1>4. below(p) \in Seq(STRING)
  BY <1>2, <1>3, ConcatProperties
<1>5. Clean(arg.absolute, below(p)) \in Seq(STRING)
  BY <1>4, CleanType
<1> HIDE DEF below, root
<1>6. [absolute |-> arg.absolute, parts |-> Clean(arg.absolute, below(p))] \in Name
  BY <1>2, <1>5 DEF Name
<1> QED
  BY <1>1, <1>6

LEMMA WithDomain ==
  \A p, file, others : DOMAIN With(p, file, others) = DOMAIN others \cup {p}
BY DEF With

LEMMA WithAt == \A p, file, others : With(p, file, others)[p] = file
BY DEF With

LEMMA WithElsewhere ==
  \A p, file, others : \A q \in DOMAIN others : q # p => With(p, file, others)[q] = others[q]
BY DEF With

LEMMA WithType ==
  ASSUME NEW p \in Place, NEW file \in File, NEW others, FilesOK(others)
  PROVE  FilesOK(With(p, file, others))
<1>1. DOMAIN others \subseteq Place /\ \A q \in DOMAIN others : others[q] \in File
  BY DEF FilesOK
<1> DEFINE w == With(p, file, others)
<1>2. DOMAIN w = DOMAIN others \cup {p} /\ w[p] = file
  BY WithDomain, WithAt, Zenon
<1>3. \A q \in DOMAIN others : q # p => w[q] = others[q]
  BY WithElsewhere
<1> HIDE DEF w
<1>4. DOMAIN w \subseteq Place
  BY <1>1, <1>2
<1>5. ASSUME NEW q \in DOMAIN w PROVE w[q] \in File
  BY <1>1, <1>2, <1>3, <1>5
<1>6. FilesOK(w)
  BY <1>4, <1>5 DEF FilesOK
<1> QED
  BY <1>6 DEF w

LEMMA RestOK == \A p : FilesOK(files) => FilesOK([q \in DOMAIN files \ {p} |-> files[q]])
BY DEF FilesOK

\* A call after a step of its own.
LEMMA AtFields ==
  ASSUME NEW k \in Call, NEW step \in {"probe", "encode", "install", "return"},
         NEW found \in SUBSET Films
  PROVE  /\ At(k, step, found) \in Call
         /\ At(k, step, found).by = k.by /\ At(k, step, found).row = k.row
         /\ At(k, step, found).place = k.place /\ At(k, step, found).to = k.to
         /\ At(k, step, found).step = step /\ At(k, step, found).found = found
BY DEF At, Call

LEMMA StartsType ==
  ASSUME calls \subseteq Call, NEW c \in Caller, NEW row \in Nat, NEW n \in Name,
         NEW dir \in Place, Starts(c, row, n, dir)
  PROVE  calls' \subseteq Call
<1> DEFINE p == Resolve(dir, n)
           m == Destination(n)
<1>1. p \in Place /\ m \in Place
  BY ResolveType, DestinationType
<1>2. calls' = calls \cup {[by |-> c, row |-> row, place |-> p, to |-> m,
                           step |-> "probe", found |-> {}]}
  BY DEF Starts
<1> HIDE DEF p, m
<1>3. [by |-> c, row |-> row, place |-> p, to |-> m, step |-> "probe", found |-> {}] \in Call
  BY <1>1 DEF Call
<1> QED
  BY <1>2, <1>3

LEMMA GoesType ==
  ASSUME calls \subseteq Call, NEW k \in calls, NEW found \in SUBSET Films,
         NEW step \in {"probe", "encode", "install", "return"}, Goes(k, step, found)
  PROVE  calls' \subseteq Call
<1>1. At(k, step, found) \in Call
  BY AtFields
<1> QED
  BY <1>1 DEF Goes

LEMMA CommandTypeInit == CommandInit => CommandTypeOK
<1> SUFFICES ASSUME CommandInit PROVE CommandTypeOK
  OBVIOUS
<1>1. /\ DOMAIN files \subseteq Place
      /\ \A p \in DOMAIN files : \E f \in Films : files[p] = Orig(f)
  <2>1. DOMAIN files = Range(Home)
    BY DEF CommandInit
  <2>2. \A p \in Range(Home) : \E f \in Films : Home[f] = p
    BY DEF Range, Films
  <2>3. \A p \in Range(Home) : (CHOOSE f \in Films : Home[f] = p) \in Films
    BY <2>2
  <2>4. \A p \in Range(Home) : files[p] = Orig(CHOOSE f \in Films : Home[f] = p)
    BY DEF CommandInit
  <2> QED
    BY <2>1, <2>2, <2>3, <2>4, CommandAssumption
<1>2. \A f \in Films : Orig(f) \in File
  BY DEF Orig, File
<1>3. \A S : <<>> \in Seq(S) /\ Len(<<>>) = 0
  BY EmptySeq
<1>4. DOMAIN files \subseteq Place /\ \A p \in DOMAIN files : files[p] \in File
  BY <1>1, <1>2
<1>5. /\ at = "idle" /\ todo = {} /\ roots = <<>> /\ visit = {} /\ cwd = DaemonCwd
      /\ calls = {} /\ contended = {} /\ pending = {} /\ running = {}
      /\ jobs = <<>> /\ interrupted = FALSE /\ finished = {}
  BY DEF CommandInit
<1>6. roots \in Seq(Name) /\ jobs \in Seq([name : Name, version : File])
  BY <1>3, <1>5
<1>7. cwd \in Place
  BY <1>5, CommandAssumption
<1> QED
  BY <1>4, <1>5, <1>6, <1>7 DEF CommandTypeOK

\* A step of a call: the rest of the state is as it was, or typed.
LEMMA CallType ==
  ASSUME CommandTypeOK, NEW k \in calls,
         Probe(k) \/ GivesUp(k) \/ Quarantine(k) \/ Install(k)
  PROVE  CommandTypeOK'
<1> USE DEF CommandTypeOK
<1>1. k \in Call /\ k.found \in SUBSET Films /\ k.place \in Place /\ k.to \in Place
      /\ {} \in SUBSET Films /\ FilesOK(files)
  BY DEF Call, FilesOK
<1>2. /\ UNCHANGED <<at, todo, cwd, interrupted, roots, visit, jobs, pending, running>>
  BY DEF Probe, GivesUp, Quarantine, Install, command, walk, queue
<1>3. calls' \subseteq Call
  <2>1. CASE Probe(k)
    <3>1. Decided(k.place) \in SUBSET Films
      BY DEF Decided
    <3>2. Returns(k) \/ Goes(k, "encode", Decided(k.place))
      BY <2>1 DEF Probe
    <3> QED
      BY <1>1, <3>1, <3>2, GoesType DEF Returns
  <2>2. CASE GivesUp(k) \/ Install(k)
    BY <1>1, <2>2, GoesType DEF GivesUp, Install, Returns
  <2>3. CASE Quarantine(k)
    BY <1>1, <2>3, GoesType DEF Quarantine
  <2> QED
    BY <2>1, <2>2, <2>3
<1>4. contended' \subseteq Films
  BY DEF Probe, GivesUp, Quarantine, Install, library, Decided
<1>5. finished' \subseteq Place
  BY <1>1 DEF Probe, GivesUp, Quarantine, Install, Changed
<1>6. FilesOK(files')
  <2>1. CASE Probe(k) \/ GivesUp(k)
    BY <1>1, <2>1 DEF Probe, GivesUp, library
  <2>2. CASE Quarantine(k)
    <3> DEFINE rest == [q \in DOMAIN files \ {k.place} |-> files[q]]
    <3>1. files' = With(k.to, files[k.place], rest) /\ files[k.place] \in File
      BY <1>1, <2>2 DEF Quarantine, FilesOK
    <3>2. FilesOK(rest)
      BY <1>1, RestOK
    <3> HIDE DEF rest
    <3> QED
      BY <1>1, <3>1, <3>2, WithType
  <2>3. CASE Install(k)
    <3>1. PICK f \in k.found : files' = With(k.place, Enc(f), files)
      BY <2>3 DEF Install
    <3>2. Enc(f) \in File
      BY <1>1 DEF Enc, File
    <3> QED
      BY <1>1, <3>1, <3>2, WithType
  <2> QED
    BY <2>1, <2>2, <2>3
<1>7. DOMAIN files' \subseteq Place /\ \A p \in DOMAIN files' : files'[p] \in File
  BY <1>6 DEF FilesOK
<1> QED
  BY <1>2, <1>3, <1>4, <1>5, <1>7

LEMMA CommandTypeNext == CommandTypeOK /\ [CommandNext]_commandVars => CommandTypeOK'
<1> SUFFICES ASSUME CommandTypeOK, [CommandNext]_commandVars PROVE CommandTypeOK'
  OBVIOUS
<1> USE DEF CommandTypeOK
<1> DEFINE Row == [name : Name, version : File]
<1>0. FilesOK(files) /\ calls \subseteq Call
  BY DEF FilesOK
<1>1. ASSUME NEW i \in Invocation, Now(i) PROVE CommandTypeOK'
  <2>1. i.cwd \in Place /\ i.args \in Seq(Name)
    BY CommandAssumption
  <2>2. \A k \in DOMAIN i.args : k \in Nat /\ i.args[k] \in Name
    BY <2>1, LenProperties, ElementOfSeq
  <2>3. Collected(i.cwd, i.args) \subseteq Nat \X Name
    <3> SUFFICES ASSUME NEW t \in Collected(i.cwd, i.args) PROVE t \in Nat \X Name
      OBVIOUS
    <3>1. PICK k \in DOMAIN i.args : t \in {k} \X Found(i.cwd, i.args[k])
      BY DEF Collected
    <3>2. Found(i.cwd, i.args[k]) \subseteq Name
      BY <1>0, <2>1, <2>2, FoundType
    <3> QED
      BY <2>2, <3>1, <3>2
  <2> QED
    BY <1>1, <2>1, <2>3 DEF Now, library, walk, queue
<1>2. ASSUME NEW i \in Invocation, AddToQueue(i) PROVE CommandTypeOK'
  <2>1. i.cwd \in Place /\ i.args \in Seq(Name)
    BY CommandAssumption
  <2> QED
    BY <1>2, <2>1 DEF AddToQueue, library
<1>3. CASE NextFile
  <2>1. PICK t \in todo : todo' = todo \ {t} /\ Starts("--now", 0, t[2], cwd)
    BY <1>3 DEF NextFile
  <2>2. t[2] \in Name /\ "--now" \in Caller /\ 0 \in Nat /\ cwd \in Place
    BY <2>1 DEF Caller
  <2>3. calls' \subseteq Call
    BY <1>0, <2>1, <2>2, StartsType
  <2>4. /\ at' = "process"
        /\ UNCHANGED <<files, contended, cwd, interrupted, roots, visit, jobs, pending,
                       running, finished>>
    BY <1>3 DEF NextFile, library, walk, queue
  <2> QED
    BY <2>1, <2>3, <2>4
<1>4. CASE Total \/ Interrupt
  <2>1. /\ UNCHANGED <<files, contended, calls, cwd, roots, visit, jobs, pending, running,
                       finished>>
        /\ todo' \subseteq todo /\ at' \in {at, "idle"}
    BY <1>4 DEF Total, Interrupt, library, walk, queue
  <2>2. interrupted' \in BOOLEAN
    BY <1>4, Zenon DEF Total, Interrupt
  <2> QED
    BY <2>1, <2>2
<1>5. CASE WalkRoot
  <2>1. roots # <<>>
    BY <1>5 DEF WalkRoot
  <2>2. Head(roots) \in Name /\ Tail(roots) \in Seq(Name)
    BY <2>1, HeadTailProperties
  <2>3. Found(cwd, Head(roots)) \subseteq Name
    BY <1>0, <2>2, FoundType
  <2> QED
    BY <1>5, <2>2, <2>3 DEF WalkRoot, library, command, queue
<1>6. ASSUME NEW n \in visit, QueueFile(n) PROVE CommandTypeOK'
  <2> DEFINE place == Resolve(cwd, n)
             row   == [name |-> n, version |-> files[place]]
  <2>1. place \in DOMAIN files => row \in Row
    OBVIOUS
  <2>2. \/ jobs' = jobs /\ pending' = pending
        \/ /\ place \in DOMAIN files /\ jobs' = Append(jobs, row)
           /\ pending' = pending \cup {Len(jobs) + 1}
    BY <1>6 DEF QueueFile
  <2> HIDE DEF row, place
  <2>3. jobs' \in Seq(Row) /\ DOMAIN jobs \subseteq DOMAIN jobs' /\ pending' \subseteq DOMAIN jobs'
    <3>1. CASE jobs' = jobs /\ pending' = pending
      BY <3>1
    <3>2. CASE /\ place \in DOMAIN files /\ jobs' = Append(jobs, row)
               /\ pending' = pending \cup {Len(jobs) + 1}
      <4> HIDE DEF Row
      <4>1. jobs \in Seq(Row)
        BY DEF Row
      <4>2. /\ jobs' \in Seq(Row) /\ Len(jobs') = Len(jobs) + 1 /\ Len(jobs) \in Nat
            /\ DOMAIN jobs = 1..Len(jobs) /\ DOMAIN jobs' = 1..Len(jobs')
        BY <2>1, <3>2, <4>1, AppendProperties, LenProperties
      <4> QED
        BY <3>2, <4>2
    <3> QED
      BY <2>2, <3>1, <3>2
  <2>4. /\ visit' \subseteq Name
        /\ UNCHANGED <<files, contended, calls, at, todo, roots, cwd, running, interrupted,
                       finished>>
    BY <1>6 DEF QueueFile, library, command
  <2> QED
    BY <2>3, <2>4
<1>7. CASE QueueEnds
  <2>1. <<>> \in Seq(Name)
    BY EmptySeq
  <2> QED
    BY <1>7, <2>1 DEF QueueEnds, library, queue
<1>8. ASSUME NEW w \in Worker, Claim(w) PROVE CommandTypeOK'
  <2>1. PICK j \in pending : /\ pending' = pending \ {j}
                             /\ running' = running \cup {j}
                             /\ Starts(w, j, jobs[j].name, DaemonCwd)
    BY <1>8 DEF Claim
  <2>2. j \in DOMAIN jobs /\ j \in Nat /\ jobs[j] \in Row
    <3> HIDE DEF Row
    <3>1. jobs \in Seq(Row)
      BY DEF Row
    <3>2. Len(jobs) \in Nat /\ DOMAIN jobs = 1..Len(jobs) /\ j \in DOMAIN jobs
      BY <2>1, <3>1, LenProperties
    <3> QED
      BY <3>1, <3>2, ElementOfSeq
  <2>3. jobs[j].name \in Name /\ w \in Caller /\ DaemonCwd \in Place
    BY <2>2, CommandAssumption DEF Caller
  <2>4. calls' \subseteq Call
    BY <1>0, <2>1, <2>2, <2>3, StartsType
  <2>5. UNCHANGED <<files, contended, at, todo, cwd, interrupted, roots, visit, jobs, finished>>
    BY <1>8 DEF Claim, library, command, walk
  <2> QED
    BY <2>1, <2>2, <2>4, <2>5
<1>9. ASSUME NEW k \in calls, Probe(k) \/ GivesUp(k) \/ Quarantine(k) \/ Install(k)
      PROVE  CommandTypeOK'
  BY <1>9, CallType
<1>10. ASSUME NEW k \in calls, Report(k) PROVE CommandTypeOK'
  BY <1>10 DEF Report, library, walk, queue
<1>11. ASSUME NEW k \in calls, Record(k) PROVE CommandTypeOK'
  BY <1>11 DEF Record, library, command, walk
<1>12. CASE UNCHANGED commandVars
  BY <1>12 DEF commandVars, library, command, walk, queue
<1> QED
  BY <1>1, <1>2, <1>3, <1>4, <1>5, <1>6, <1>7, <1>8, <1>9, <1>10, <1>11, <1>12 DEF CommandNext

\* Whatever is typed, relative or not, names are names and places are places
\* (main.go:214-287, scan.go:21-53).
THEOREM CommandTypeCorrect == CommandSpec => []CommandTypeOK
BY CommandTypeInit, CommandTypeNext, PTL DEF CommandSpec

-----------------------------------------------------------------------------
(* Originals mirrored in the quarantine.                                      *)

LEMMA PrefixFacts ==
  ASSUME NEW s \in Seq(Plain), NEW t \in Seq(Plain)
  PROVE  IsPrefix(s, t) <=> Len(s) <= Len(t) /\ \A i \in 1..Len(s) : s[i] = t[i]
<1> DEFINE n == Len(s)
<1>1. n \in Nat /\ Len(t) \in Nat /\ 1 \in Int /\ n \in Int /\ SubSeq(s, 1, n) = s
  BY LenProperties, SubSeqFull
<1>2. CASE n <= Len(t)
  <2>1. \A i \in 1..n : t[i] \in Plain
    BY <1>1, <1>2, ElementOfSeq
  <2> HIDE DEF n
  <2>2. /\ SubSeq(t, 1, n) \in Seq(Plain)
        /\ Len(SubSeq(t, 1, n)) = IF 1 <= n THEN n - 1 + 1 ELSE 0
        /\ \A i \in 1..(n - 1 + 1) : SubSeq(t, 1, n)[i] = t[1 + i - 1]
    BY <1>1, <2>1, SubSeqProperties
  <2>3. Len(SubSeq(t, 1, n)) = n /\ \A i \in 1..n : SubSeq(t, 1, n)[i] = t[i]
    BY <1>1, <2>2
  <2>4. SubSeq(t, 1, n) = s <=> \A i \in 1..n : s[i] = t[i]
    <3>1. ASSUME \A i \in 1..n : s[i] = t[i] PROVE SubSeq(t, 1, n) = s
      <4>1. /\ Len(s) = Len(SubSeq(t, 1, n))
            /\ \A i \in 1..Len(s) : s[i] = SubSeq(t, 1, n)[i]
        BY <2>3, <3>1 DEF n
      <4> QED
        BY <2>2, <4>1, SeqEqual
    <3> QED
      BY <2>3, <3>1
  <2> QED
    BY <1>1, <1>2, <2>4 DEF IsPrefix, n
<1>3. CASE ~(n <= Len(t))
  BY <1>3 DEF IsPrefix
<1> QED
  BY <1>2, <1>3

\* Two places above a third are one above the other.
LEMMA PrefixesCompare ==
  ASSUME NEW s \in Seq(Plain), NEW t \in Seq(Plain), NEW u \in Seq(Plain),
         IsPrefix(s, u), IsPrefix(t, u)
  PROVE  IsPrefix(s, t) \/ IsPrefix(t, s)
<1>1. Len(s) \in Nat /\ Len(t) \in Nat
  BY LenProperties
<1>2. /\ \A i \in 1..Len(s) : s[i] = u[i]
      /\ \A i \in 1..Len(t) : t[i] = u[i]
  BY PrefixFacts
<1>3. CASE Len(s) <= Len(t)
  <2>1. \A i \in 1..Len(s) : s[i] = t[i]
    BY <1>1, <1>2, <1>3
  <2> QED
    BY <1>3, <2>1, PrefixFacts
<1>4. CASE Len(t) <= Len(s)
  <2>1. \A i \in 1..Len(t) : t[i] = s[i]
    BY <1>1, <1>2, <1>4
  <2> QED
    BY <1>4, <2>1, PrefixFacts
<1> QED
  BY <1>1, <1>3, <1>4

LEMMA PrefixOfJoined ==
  ASSUME NEW s \in Seq(Plain), NEW t \in Seq(Plain)
  PROVE  IsPrefix(s, s \o t)
<1>1. /\ Len(s) \in Nat /\ Len(t) \in Nat
      /\ s \o t \in Seq(Plain) /\ Len(s \o t) = Len(s) + Len(t)
      /\ \A i \in 1..(Len(s) + Len(t)) : (s \o t)[i] = IF i <= Len(s) THEN s[i] ELSE t[i - Len(s)]
  BY LenProperties, ConcatProperties
<1>2. Len(s) <= Len(s \o t) /\ \A i \in 1..Len(s) : s[i] = (s \o t)[i]
  BY <1>1
<1> QED
  BY <1>1, <1>2, PrefixFacts

\* A place above another and the rest of it.
LEMMA PrefixAndRest ==
  ASSUME NEW s \in Seq(Plain), NEW u \in Seq(Plain), IsPrefix(s, u)
  PROVE  s \o SubSeq(u, Len(s) + 1, Len(u)) = u
<1> DEFINE n == Len(s)
           r == SubSeq(u, n + 1, Len(u))
<1>1. /\ n \in Nat /\ Len(u) \in Nat /\ n <= Len(u) /\ \A i \in 1..n : s[i] = u[i]
      /\ n + 1 \in Int /\ Len(u) \in Int
  BY LenProperties, PrefixFacts
<1> DEFINE k == Len(u)
<1>2. \A i \in (n + 1)..k : u[i] \in Plain
  <2>1. \A i \in (n + 1)..k : i \in 1..Len(u)
    BY <1>1
  <2> QED
    BY <2>1, ElementOfSeq
<1> HIDE DEF n, k
<1>3. /\ SubSeq(u, n + 1, k) \in Seq(Plain)
      /\ Len(SubSeq(u, n + 1, k)) = IF n + 1 <= k THEN k - (n + 1) + 1 ELSE 0
      /\ \A i \in 1..(k - (n + 1) + 1) : SubSeq(u, n + 1, k)[i] = u[(n + 1) + i - 1]
  <2>1. n + 1 \in Int /\ k \in Int
    BY <1>1 DEF k
  <2> QED
    BY <1>2, <2>1, SubSeqProperties
<1>4. n \in Nat /\ k \in Nat /\ n <= k
  BY <1>1 DEF k
<1>5. /\ r \in Seq(Plain) /\ Len(r) = k - n
      /\ \A i \in 1..(k - n) : r[i] = u[n + i]
  BY <1>3, <1>4 DEF k
<1> HIDE DEF r
<1>6. /\ s \o r \in Seq(Plain) /\ Len(s \o r) = n + Len(r)
      /\ \A i \in 1..(n + Len(r)) : (s \o r)[i] = IF i <= n THEN s[i] ELSE r[i - n]
  BY <1>5, ConcatProperties DEF n
<1>7. \A i \in 1..k : (s \o r)[i] = u[i]
  <2> SUFFICES ASSUME NEW i \in 1..k PROVE (s \o r)[i] = u[i]
    OBVIOUS
  <2>1. CASE i <= n
    BY <1>1, <1>4, <1>5, <1>6, <2>1
  <2>2. CASE ~(i <= n)
    <3>1. i - n \in 1..(k - n) /\ n + (i - n) = i
      BY <1>4, <2>2
    <3> QED
      BY <1>4, <1>5, <1>6, <2>2, <3>1
  <2> QED
    BY <2>1, <2>2
<1>8. Len(s \o r) = Len(u) /\ \A i \in 1..Len(s \o r) : (s \o r)[i] = u[i]
  BY <1>4, <1>5, <1>6, <1>7 DEF k
<1>9. s \o r = u
  BY <1>6, <1>8, SeqEqual
<1> QED
  BY <1>9 DEF r, n, k

LEMMA CleanOfPlace == \A p \in Place : Clean(TRUE, p) = p
<1> SUFFICES ASSUME NEW p \in Place PROVE Clean(TRUE, p) = p
  OBVIOUS
<1>1. <<>> \in Seq(STRING) /\ Len(<<>>) = 0
  BY EmptySeq
<1>2. Clean(TRUE, <<>>) = <<>>
  BY <1>1, CleaningDef, CleanIsLast
<1>3. p \in Seq(Plain)
  BY PlaceIsSeq
<1>4. <<>> \o p = p
  BY <1>3, ConcatEmptySeq
<1> QED
  BY <1>1, <1>2, <1>4, CleanKeepsPlace

\* A place in the quarantine's mirror.
LEMMA MirrorOfPlace ==
  ASSUME NEW p \in Place
  PROVE  /\ Clean(TRUE, QuarantineRoot \o p) = QuarantineRoot \o p
         /\ QuarantineRoot \o p \in Place /\ IsPrefix(QuarantineRoot, QuarantineRoot \o p)
<1>1. QuarantineRoot \in Place /\ QuarantineRoot \in Seq(Plain) /\ p \in Seq(Plain)
  BY CommandAssumption, PlaceIsSeq
<1>2. QuarantineRoot \o p \in Seq(Plain)
  BY <1>1, ConcatProperties
<1> QED
  BY <1>1, <1>2, PlaceIsSeq, CleanOfPlace, PrefixOfJoined

\* A walk of an argument that fits yields names that the quarantine mirrors.
LEMMA FoundIsMirrored ==
  ASSUME FilesOK(files), NEW dir \in Place, NEW arg \in Name, Fits(arg)
  PROVE  \A n \in Found(dir, arg) : Mirrored(n)
<1> SUFFICES ASSUME NEW n \in Found(dir, arg) PROVE Mirrored(n)
  OBVIOUS
<1> DEFINE root == Resolve(dir, arg)
           rest(p) == SubSeq(p, Len(root) + 1, Len(p))
<1>1. /\ arg.absolute /\ arg.absolute = TRUE /\ arg.parts \in Seq(STRING)
      /\ StaysBelow(arg.parts) /\ root = Clean(TRUE, arg.parts)
      /\ ~IsPrefix(root, QuarantineRoot) /\ ~IsPrefix(QuarantineRoot, root)
  BY DEF Fits, Name, Resolve
<1>2. PICK p \in DOMAIN files :
        /\ IsPrefix(root, p)
        /\ n = IF p = root THEN arg
               ELSE [absolute |-> arg.absolute, parts |-> Clean(arg.absolute, arg.parts \o rest(p))]
  BY Zenon DEF Found
<1>3. /\ root \in Place /\ p \in Place /\ rest(p) \in Place
      /\ root \in Seq(Plain) /\ p \in Seq(Plain)
      /\ QuarantineRoot \in Place /\ QuarantineRoot \in Seq(Plain)
  BY ResolveType, RestType, PlaceIsSeq, CommandAssumption DEF FilesOK
<1>4. root \o rest(p) = p
  BY <1>2, <1>3, PrefixAndRest
<1> HIDE DEF root, rest
<1>5. CASE p = root
  <2>1. n = arg
    BY <1>2, <1>5
  <2>2. Destination(arg) = QuarantineRoot \o Clean(TRUE, arg.parts)
    BY <1>1, <1>3, CleanElsewhere DEF Destination
  <2> QED
    BY <1>1, <2>1, <2>2 DEF Mirrored
<1>6. CASE p # root
  <2>1. Clean(TRUE, arg.parts \o rest(p)) = p
    BY <1>1, <1>3, <1>4, CleanKeepsPlace
  <2>2. n.absolute /\ n.parts = p
    BY <1>1, <1>2, <1>6, <2>1
  <2>3. Clean(TRUE, p) = p
    BY <1>3, CleanOfPlace
  <2>4. ~IsPrefix(QuarantineRoot, p)
    BY <1>1, <1>2, <1>3, PrefixesCompare
  <2>5. Destination(n) = QuarantineRoot \o p
    BY <1>3, <2>2, MirrorOfPlace DEF Destination
  <2> QED
    BY <2>2, <2>3, <2>4, <2>5 DEF Mirrored
<1> QED
  BY <1>5, <1>6

-----------------------------------------------------------------------------
(* What ProcessFile does to the originals.                                    *)

\* Outside the quarantine a film's place has its original or its encode.
LEMMA FileOutside ==
  ASSUME FilesInv, NEW p \in DOMAIN files, ~IsPrefix(QuarantineRoot, p)
  PROVE  \E f \in Films : p = Home[f] /\ files[p] \in {Orig(f), Enc(f)}
<1>1. PICK f \in Films : \/ p = Home[f] /\ files[p] \in {Orig(f), Enc(f)}
                         \/ p = QuarantineRoot \o Home[f]
  BY DEF FilesInv
<1>2. p # QuarantineRoot \o Home[f]
  BY MirrorOfPlace, CommandAssumption
<1> QED
  BY <1>1, <1>2

LEMMA OriginalsDiffer ==
  \A f, g \in Films : /\ Orig(f) = Orig(g) => f = g
                      /\ Orig(f) # Enc(g)
                      /\ Orig(f).film = f /\ Enc(f).gen = "enc" /\ Orig(f).gen = "orig"
BY DEF Orig, Enc

LEMMA MirrorsDiffer ==
  ASSUME NEW f \in Films, NEW g \in Films
  PROVE  /\ QuarantineRoot \o Home[f] = QuarantineRoot \o Home[g] => f = g
         /\ QuarantineRoot \o Home[f] # Home[g]
<1>1. /\ QuarantineRoot \in Seq(Plain) /\ Home[f] \in Seq(Plain) /\ Home[g] \in Seq(Plain)
      /\ Home[f] \in Place
  BY CommandAssumption, PlaceIsSeq
<1>2. ASSUME QuarantineRoot \o Home[f] = QuarantineRoot \o Home[g] PROVE f = g
  <2>1. Home[f] = Home[g]
    BY <1>1, <1>2, ConcatSimplifications
  <2> QED
    BY <2>1, CommandAssumption
<1>3. QuarantineRoot \o Home[f] # Home[g]
  BY <1>1, MirrorOfPlace, CommandAssumption
<1> QED
  BY <1>2, <1>3

\* A step that touches only the places of a film in hand: what it leaves there decides.
LEMMA FilmKeeps ==
  ASSUME CommandTypeOK, CallsInv, FilesInv, Restorable, contended' = contended,
         NEW k \in calls, NEW f \in k.found, NEW k2, calls' = (calls \ {k}) \cup {k2},
         k2.place = k.place,
         k2.found = {} \/ (k2.found = k.found /\ k2.step = "install"), k2.step # "encode",
         \A q : q # Home[f] /\ q # QuarantineRoot \o Home[f] =>
                 /\ q \in DOMAIN files <=> q \in DOMAIN files'
                 /\ q \in DOMAIN files => files'[q] = files[q],
         Home[f] \in DOMAIN files' => files'[Home[f]] \in {Orig(f), Enc(f)},
         QuarantineRoot \o Home[f] \in DOMAIN files' =>
            \/ files'[QuarantineRoot \o Home[f]] = Orig(f)
            \/ files'[QuarantineRoot \o Home[f]] = Enc(f) /\ f \in contended,
         f \notin contended =>
            /\ QuarantineRoot \o Home[f] \in DOMAIN files'
            /\ files'[QuarantineRoot \o Home[f]] = Orig(f)
  PROVE  CallsInv' /\ FilesInv' /\ Restorable'
<1> DEFINE h == Home[f]
           m == QuarantineRoot \o Home[f]
<1>1. f \in Films /\ k.place = h
  BY DEF CommandTypeOK, Call, CallsInv
<1>2. ASSUME NEW g \in Films, g # f
      PROVE  Home[g] \notin {h, m} /\ QuarantineRoot \o Home[g] \notin {h, m}
  <2>1. Home[g] # h
    BY <1>1, <1>2, CommandAssumption
  <2>2. Home[g] # m /\ QuarantineRoot \o Home[g] # h /\ QuarantineRoot \o Home[g] # m
    BY <1>1, <1>2, MirrorsDiffer
  <2> QED
    BY <2>1, <2>2
<1>3. \A g \in k.found : g = f
  <2> SUFFICES ASSUME NEW g \in k.found PROVE g = f
    OBVIOUS
  <2>1. g \in Films /\ k.place = Home[g]
    BY DEF CommandTypeOK, Call, CallsInv
  <2> QED
    BY <1>1, <2>1, CommandAssumption
<1> HIDE DEF h, m
<1>4. CallsInv'
  <2>1. ASSUME NEW j \in calls'
        PROVE  \A g \in j.found : j.place = Home[g] /\ j.step \in {"encode", "install"}
    BY DEF CallsInv
  <2>2. ASSUME NEW j \in calls' PROVE j.step = "encode" => j.found # {}
    BY DEF CallsInv
  <2>3. ASSUME NEW j \in calls', NEW g \in j.found \ contended
        PROVE  LET p == IF j.step = "encode" THEN Home[g] ELSE QuarantineRoot \o Home[g]
               IN p \in DOMAIN files' /\ files'[p] = Orig(g)
    <3>1. CASE j = k2
      <4>1. g = f /\ j.step # "encode"
        BY <1>3, <3>1
      <4> QED
        BY <4>1
    <3>2. CASE j \in calls \ {k}
      <4> DEFINE p == IF j.step = "encode" THEN Home[g] ELSE QuarantineRoot \o Home[g]
      <4>1. g \in Films /\ p \in DOMAIN files /\ files[p] = Orig(g)
        BY <3>2 DEF CommandTypeOK, Call, CallsInv
      <4>2. g # f
        BY <3>2 DEF CallsInv
      <4>3. p \notin {h, m}
        BY <1>2, <4>1, <4>2
      <4>4. p \in DOMAIN files' /\ files'[p] = files[p]
        BY <4>1, <4>3 DEF h, m
      <4> QED
        BY <4>1, <4>4
    <3> QED
      BY <3>1, <3>2
  <2>4. ASSUME NEW j \in calls', NEW l \in calls', j # l
        PROVE  j.found \cap l.found \subseteq contended
    BY <2>4 DEF CallsInv
  <2> QED
    BY <2>1, <2>2, <2>3, <2>4 DEF CallsInv
<1>5. FilesInv'
  <2> SUFFICES ASSUME NEW q \in DOMAIN files'
               PROVE  \E g \in Films :
                        \/ q = Home[g] /\ files'[q] \in {Orig(g), Enc(g)}
                        \/ /\ q = QuarantineRoot \o Home[g]
                           /\ files'[q] = Orig(g) \/ (files'[q] = Enc(g) /\ g \in contended')
    BY DEF FilesInv
  <2>1. CASE q \in {h, m}
    BY <1>1, <2>1 DEF h, m
  <2>2. CASE q \notin {h, m}
    <3>1. q \in DOMAIN files /\ files'[q] = files[q]
      BY <2>2 DEF h, m
    <3> QED
      BY <3>1 DEF FilesInv
  <2> QED
    BY <2>1, <2>2
<1>6. Restorable'
  <2> SUFFICES ASSUME NEW g \in Films \ contended
               PROVE  \E x \in {Home[g], QuarantineRoot \o Home[g]} :
                         x \in DOMAIN files' /\ files'[x] = Orig(g)
    BY DEF Restorable
  <2>1. CASE g = f
    BY <2>1
  <2>2. CASE g # f
    <3>1. PICK x \in {Home[g], QuarantineRoot \o Home[g]} :
            x \in DOMAIN files /\ files[x] = Orig(g)
      BY DEF Restorable
    <3>2. x \notin {h, m}
      BY <1>2, <2>2, <3>1
    <3>3. x \in DOMAIN files' /\ files'[x] = files[x]
      BY <3>1, <3>2 DEF h, m
    <3> QED
      BY <3>1, <3>3
  <2> QED
    BY <2>1, <2>2
<1> QED
  BY <1>4, <1>5, <1>6

LEMMA QuarantineKeeps ==
  ASSUME CommandInv, NEW k \in calls, Quarantine(k)
  PROVE  CallsInv' /\ FilesInv' /\ Restorable'
<1> DEFINE k2 == At(k, "install", k.found)
<1>1. /\ k \in Call /\ k.found \in SUBSET Films /\ k.place \in DOMAIN files
      /\ k.step = "encode" /\ contended' = contended /\ calls' = (calls \ {k}) \cup {k2}
  BY DEF CommandInv, CommandTypeOK, Call, Quarantine, Goes
<1>2. /\ k2.place = k.place /\ k2.found = k.found /\ k2.step = "install"
  BY <1>1, AtFields
<1> HIDE DEF k2
<1>3. PICK f \in k.found : k.place = Home[f]
  BY <1>1 DEF CommandInv, CallsInv
<1> DEFINE h == Home[f]
           m == QuarantineRoot \o Home[f]
           rest == [q \in DOMAIN files \ {h} |-> files[q]]
<1>4. f \in Films /\ k.to = m /\ m # h /\ ~IsPrefix(QuarantineRoot, h)
  BY <1>1, <1>3, MirrorsDiffer DEF CommandInv, NamesInv
<1>5. files' = With(m, files[h], rest)
  BY <1>3, <1>4 DEF Quarantine
<1>6. DOMAIN rest = DOMAIN files \ {h} /\ \A q \in DOMAIN rest : rest[q] = files[q]
  OBVIOUS
<1> HIDE DEF rest
<1>7. DOMAIN files' = DOMAIN rest \cup {m} /\ files'[m] = files[h]
  BY <1>5, WithDomain, WithAt, Zenon
<1>8. \A q \in DOMAIN rest : q # m => files'[q] = rest[q]
  <2> HIDE DEF h, m
  <2>1. \A q \in DOMAIN rest : q # m => With(m, files[h], rest)[q] = rest[q]
    BY WithElsewhere
  <2> QED
    BY <1>5, <2>1, Zenon
<1>9. files[h] \in {Orig(f), Enc(f)} /\ (f \notin contended => files[h] = Orig(f))
  <2>1. f \notin contended => files[h] = Orig(f)
    BY <1>1 DEF CommandInv, CallsInv
  <2>2. PICK g \in Films : h = Home[g] /\ files[h] \in {Orig(g), Enc(g)}
    BY <1>1, <1>3, <1>4, FileOutside DEF CommandInv
  <2>3. g = f
    BY <1>4, <2>2, CommandAssumption
  <2> QED
    BY <2>1, <2>2, <2>3
<1>10. \A q : q # h /\ q # m =>
         /\ q \in DOMAIN files <=> q \in DOMAIN files'
         /\ q \in DOMAIN files => files'[q] = files[q]
  BY <1>6, <1>7, <1>8
<1>11. h \notin DOMAIN files' /\ m \in DOMAIN files'
  BY <1>4, <1>6, <1>7
<1>12. CommandTypeOK /\ CallsInv /\ FilesInv /\ Restorable
  BY DEF CommandInv
<1>13. /\ k2.found = {} \/ (k2.found = k.found /\ k2.step = "install")
       /\ k2.step # "encode"
  BY <1>2
<1>14. h \in DOMAIN files' => files'[h] \in {Orig(f), Enc(f)}
  BY <1>11
<1>15. m \in DOMAIN files' => files'[m] = Orig(f) \/ (files'[m] = Enc(f) /\ f \in contended)
  BY <1>7, <1>9
<1>16. f \notin contended => m \in DOMAIN files' /\ files'[m] = Orig(f)
  BY <1>7, <1>9, <1>11
<1> QED
  BY <1>1, <1>2, <1>10, <1>12, <1>13, <1>14, <1>15, <1>16, FilmKeeps

LEMMA InstallKeeps ==
  ASSUME CommandInv, NEW k \in calls, Install(k)
  PROVE  CallsInv' /\ FilesInv' /\ Restorable'
<1> DEFINE k2 == At(k, "return", {})
<1>1. /\ k \in Call /\ k.found \in SUBSET Films /\ k.step = "install"
      /\ contended' = contended /\ calls' = (calls \ {k}) \cup {k2}
  BY DEF CommandInv, CommandTypeOK, Call, Install, Returns, Goes
<1>2. /\ k2.place = k.place /\ k2.found = {} /\ k2.step = "return"
  BY <1>1, AtFields
<1> HIDE DEF k2
<1>3. PICK f \in k.found : files' = With(k.place, Enc(f), files)
  BY DEF Install
<1> DEFINE h == Home[f]
           m == QuarantineRoot \o Home[f]
<1>4. f \in Films /\ k.place = h /\ m # h
  BY <1>1, MirrorsDiffer DEF CommandInv, CallsInv
<1>5. DOMAIN files' = DOMAIN files \cup {h} /\ files'[h] = Enc(f)
  <2>1. files' = With(h, Enc(f), files)
    BY <1>3, <1>4
  <2> QED
    BY <2>1, WithDomain, WithAt, Zenon
<1>6. \A q \in DOMAIN files : q # h => files'[q] = files[q]
  <2>1. \A q \in DOMAIN files : q # h => With(h, Enc(f), files)[q] = files[q]
    BY WithElsewhere
  <2>2. files' = With(h, Enc(f), files)
    BY <1>3, <1>4
  <2> QED
    BY <2>1, <2>2, Zenon
<1>7. \A q : q # h /\ q # m =>
        /\ q \in DOMAIN files <=> q \in DOMAIN files'
        /\ q \in DOMAIN files => files'[q] = files[q]
  BY <1>5, <1>6
<1>8. f \notin contended => m \in DOMAIN files' /\ files'[m] = Orig(f)
  <2>1. f \notin contended => m \in DOMAIN files /\ files[m] = Orig(f)
    BY <1>1 DEF CommandInv, CallsInv
  <2> QED
    BY <1>4, <1>5, <1>6, <2>1
<1>9. m \in DOMAIN files' =>
        \/ files'[m] = Orig(f)
        \/ files'[m] = Enc(f) /\ f \in contended
  <2> HAVE m \in DOMAIN files'
  <2>1. m \in DOMAIN files /\ files'[m] = files[m]
    BY <1>4, <1>5, <1>6
  <2>2. PICK g \in Films :
          \/ m = Home[g]
          \/ /\ m = QuarantineRoot \o Home[g]
             /\ files[m] = Orig(g) \/ (files[m] = Enc(g) /\ g \in contended)
    BY <2>1 DEF CommandInv, FilesInv
  <2>3. m # Home[g] /\ (m = QuarantineRoot \o Home[g] => g = f)
    BY <1>4, MirrorsDiffer
  <2>4. g = f /\ (files[m] = Orig(g) \/ (files[m] = Enc(g) /\ g \in contended))
    BY <2>2, <2>3
  <2> HIDE DEF m
  <2>5. files[m] = Orig(f) \/ (files[m] = Enc(f) /\ f \in contended)
    BY <2>4
  <2> QED
    BY <2>1, <2>5
<1>10. CommandTypeOK /\ CallsInv /\ FilesInv /\ Restorable
  BY DEF CommandInv
<1> QED
  BY <1>1, <1>2, <1>5, <1>7, <1>8, <1>9, <1>10, FilmKeeps

\* A probe finds the original, or nothing it may encode, and contends with any other
\* call that has the film in hand.
LEMMA ProbeKeeps ==
  ASSUME CommandInv, NEW k \in calls, Probe(k)
  PROVE  CallsInv' /\ FilesInv' /\ Restorable'
<1> DEFINE found == Decided(k.place)
           k2 == IF found = {} THEN At(k, "return", {}) ELSE At(k, "encode", found)
<1>1. /\ k \in Call /\ files' = files /\ found \in SUBSET Films /\ {} \in SUBSET Films
      /\ contended' = contended \cup {f \in found : \E j \in calls : f \in j.found}
  BY DEF CommandInv, CommandTypeOK, Probe, Decided
<1>2. calls' = (calls \ {k}) \cup {k2}
  BY DEF Probe, Returns, Goes
<1>3. /\ k2.place = k.place /\ k2.found = found
      /\ k2.step = IF found = {} THEN "return" ELSE "encode"
  <2> HIDE DEF found
  <2>1. CASE found = {}
    <3>1. k2 = At(k, "return", {})
      BY <2>1
    <3> QED
      BY <1>1, <2>1, <3>1, AtFields
  <2>2. CASE found # {}
    <3>1. k2 = At(k, "encode", found)
      BY <2>2
    <3> QED
      BY <1>1, <2>2, <3>1, AtFields
  <2> QED
    BY <2>1, <2>2
<1> HIDE DEF k2
<1>4. ASSUME NEW f \in found
      PROVE  k.place = Home[f] /\ Home[f] \in DOMAIN files /\ files[Home[f]] = Orig(f)
  <2>1. f \in Films /\ k.place \in DOMAIN files /\ files[k.place] = Orig(f)
    BY DEF Decided
  <2>2. ~IsPrefix(QuarantineRoot, k.place)
    BY DEF CommandInv, NamesInv
  <2>3. PICK g \in Films : k.place = Home[g] /\ files[k.place] \in {Orig(g), Enc(g)}
    BY <2>1, <2>2, FileOutside DEF CommandInv
  <2>4. f = g
    BY <2>1, <2>3, OriginalsDiffer
  <2> QED
    BY <2>1, <2>3, <2>4
<1> HIDE DEF found
<1>5. contended \subseteq contended'
  BY <1>1
<1>6. CommandTypeOK /\ CallsInv /\ FilesInv /\ Restorable
  BY DEF CommandInv
<1>7. CallsInv'
  <2>1. ASSUME NEW j \in calls'
        PROVE  \A g \in j.found : j.place = Home[g] /\ j.step \in {"encode", "install"}
    <3>1. CASE j = k2
      BY <1>3, <1>4, <3>1
    <3>2. CASE j \in calls
      BY <1>6, <3>2 DEF CallsInv
    <3> QED
      BY <1>2, <3>1, <3>2
  <2>2. ASSUME NEW j \in calls' PROVE j.step = "encode" => j.found # {}
    BY <1>2, <1>3, <1>6 DEF CallsInv
  <2>3. ASSUME NEW j \in calls', NEW g \in j.found \ contended'
        PROVE  LET p == IF j.step = "encode" THEN Home[g] ELSE QuarantineRoot \o Home[g]
               IN p \in DOMAIN files' /\ files'[p] = Orig(g)
    <3>1. CASE j = k2
      <4>1. g \in found /\ j.step = "encode"
        BY <1>3, <3>1
      <4> QED
        BY <1>1, <1>4, <4>1
    <3>2. CASE j \in calls
      BY <1>1, <1>5, <1>6, <3>2 DEF CallsInv
    <3> QED
      BY <1>2, <3>1, <3>2
  <2>4. ASSUME NEW j \in calls', NEW l \in calls', j # l
        PROVE  j.found \cap l.found \subseteq contended'
    <3>1. CASE j \in calls /\ l \in calls
      BY <1>5, <1>6, <2>4, <3>1 DEF CallsInv
    <3>2. ASSUME NEW i \in calls PROVE i.found \cap found \subseteq contended'
      BY <1>1
    <3> QED
      BY <1>2, <1>3, <2>4, <3>1, <3>2
  <2> QED
    BY <2>1, <2>2, <2>3, <2>4 DEF CallsInv
<1>8. FilesInv'
  BY <1>1, <1>5, <1>6 DEF FilesInv
<1>9. Restorable'
  BY <1>1, <1>5, <1>6 DEF Restorable
<1> QED
  BY <1>7, <1>8, <1>9

\* Where no film is in new hands and no file changes.
LEMMA NothingTaken ==
  ASSUME CallsInv, FilesInv, Restorable, UNCHANGED library,
         \A k \in calls' : k \in calls \/ (k.found = {} /\ k.step # "encode")
  PROVE  CallsInv' /\ FilesInv' /\ Restorable'
<1>1. files' = files /\ contended' = contended
  BY DEF library
<1>2. CallsInv'
  BY <1>1 DEF CallsInv
<1>3. FilesInv' /\ Restorable'
  BY <1>1 DEF FilesInv, Restorable
<1> QED
  BY <1>2, <1>3

LEMMA OriginalsInit == CommandInit => NamesInv /\ CallsInv /\ FilesInv /\ Restorable
<1> SUFFICES ASSUME CommandInit PROVE NamesInv /\ CallsInv /\ FilesInv /\ Restorable
  OBVIOUS
<1>1. /\ roots = <<>> /\ visit = {} /\ todo = {} /\ jobs = <<>> /\ calls = {}
      /\ DOMAIN files = Range(Home)
      /\ \A p \in Range(Home) : files[p] = Orig(CHOOSE f \in Films : Home[f] = p)
  BY DEF CommandInit
<1>2. \A f \in Films : Home[f] \in Range(Home)
  BY DEF Range, Films
<1>3. \A p \in Range(Home) : \E f \in Films : Home[f] = p
  BY DEF Range, Films
<1>4. ASSUME NEW g \in Films PROVE files[Home[g]] = Orig(g)
  <2>1. (CHOOSE f \in Films : Home[f] = Home[g]) = g
    BY CommandAssumption
  <2> QED
    BY <1>1, <1>2, <2>1
<1>5. FilesInv
  BY <1>1, <1>3, <1>4 DEF FilesInv
<1>6. Restorable
  BY <1>1, <1>2, <1>4 DEF Restorable
<1>7. NamesInv /\ CallsInv
  BY <1>1, EmptySeq DEF NamesInv, CallsInv
<1> QED
  BY <1>5, <1>6, <1>7

\* A call of a name that is mirrored goes to the mirror of its place.
LEMMA StartsMirrored ==
  ASSUME NamesInv, NEW c, NEW row, NEW n, Mirrored(n), NEW dir, Starts(c, row, n, dir)
  PROVE  /\ \A k \in calls' : ~IsPrefix(QuarantineRoot, k.place) /\ k.to = QuarantineRoot \o k.place
         /\ \A k \in calls' : k \in calls \/ (k.found = {} /\ k.step # "encode")
<1> DEFINE p == Resolve(dir, n)
           m == Destination(n)
           k == [by |-> c, row |-> row, place |-> p, to |-> m, step |-> "probe", found |-> {}]
<1>1. ~IsPrefix(QuarantineRoot, p) /\ m = QuarantineRoot \o p
  BY DEF Mirrored, Resolve
<1>2. calls' = calls \cup {k}
  BY DEF Starts
<1> HIDE DEF p, m
<1>3. k.place = p /\ k.to = m /\ k.found = {} /\ k.step # "encode"
  OBVIOUS
<1> QED
  BY <1>1, <1>2, <1>3 DEF NamesInv

LEMMA NamesNext ==
  ASSUME \A i \in Invocation : \A k \in DOMAIN i.args : Fits(i.args[k]),
         CommandInv, [CommandNext]_commandVars
  PROVE  NamesInv'
<1>1. /\ FilesOK(files) /\ cwd \in Place /\ roots \in Seq(Name) /\ calls \subseteq Call
      /\ NamesInv
  BY DEF CommandInv, CommandTypeOK, FilesOK
<1>2. ASSUME NEW i \in Invocation, Now(i) PROVE NamesInv'
  <2>1. i.cwd \in Place /\ \A k \in DOMAIN i.args : i.args[k] \in Name
    BY CommandAssumption, LenProperties, ElementOfSeq
  <2>2. todo' = Collected(i.cwd, i.args) /\ UNCHANGED <<calls, roots, visit, jobs>>
    BY <1>2 DEF Now, walk, queue
  <2>3. ASSUME NEW t \in todo' PROVE Mirrored(t[2])
    <3>1. PICK k \in DOMAIN i.args : t \in {k} \X Found(i.cwd, i.args[k])
      BY <2>2 DEF Collected
    <3>2. t[2] \in Found(i.cwd, i.args[k])
      BY <3>1
    <3> QED
      BY <1>1, <2>1, <3>2, FoundIsMirrored
  <2> QED
    BY <1>1, <2>2, <2>3 DEF NamesInv
<1>3. ASSUME NEW i \in Invocation, AddToQueue(i) PROVE NamesInv'
  <2>1. roots' = i.args /\ visit' = {} /\ UNCHANGED <<calls, todo, jobs>>
    BY <1>3 DEF AddToQueue
  <2> QED
    BY <1>1, <2>1 DEF NamesInv
<1>4. CASE NextFile
  <2>1. PICK t \in todo : todo' = todo \ {t} /\ Starts("--now", 0, t[2], cwd)
    BY <1>4 DEF NextFile
  <2>2. Mirrored(t[2]) /\ UNCHANGED <<roots, visit, jobs>>
    BY <1>1, <1>4 DEF NamesInv, NextFile, walk, queue
  <2>3. \A k \in calls' : ~IsPrefix(QuarantineRoot, k.place) /\ k.to = QuarantineRoot \o k.place
    BY <1>1, <2>1, <2>2, StartsMirrored
  <2> QED
    BY <1>1, <2>1, <2>2, <2>3 DEF NamesInv
<1>5. CASE Total \/ Interrupt
  <2>1. todo' \subseteq todo /\ UNCHANGED <<calls, roots, visit, jobs>>
    BY <1>5 DEF Total, Interrupt, walk, queue
  <2> QED
    BY <1>1, <2>1 DEF NamesInv
<1>6. CASE WalkRoot
  <2>1. /\ roots # <<>> /\ visit' = Found(cwd, Head(roots)) /\ roots' = Tail(roots)
        /\ UNCHANGED <<calls, todo, jobs>>
    BY <1>6 DEF WalkRoot, command, queue
  <2>2. /\ Len(roots) \in Nat \ {0} /\ DOMAIN roots = 1..Len(roots) /\ Head(roots) = roots[1]
        /\ Head(roots) \in Name
    BY <1>1, <2>1, EmptySeq, LenProperties, HeadTailProperties
  <2>3. Fits(Head(roots))
    BY <1>1, <2>2 DEF NamesInv
  <2>4. \A n \in visit' : Mirrored(n)
    BY <1>1, <2>1, <2>2, <2>3, FoundIsMirrored
  <2>5. /\ Tail(roots) \in Seq(Name) /\ Len(Tail(roots)) = Len(roots) - 1
        /\ \A k \in 1..Len(Tail(roots)) : Tail(roots)[k] = roots[k + 1]
    BY <1>1, <2>1, HeadTailProperties
  <2>6. ASSUME NEW k \in DOMAIN roots' PROVE Fits(roots'[k])
    <3>1. k \in 1..Len(roots) - 1
      BY <2>1, <2>5, LenProperties
    <3>2. k + 1 \in DOMAIN roots /\ roots'[k] = roots[k + 1]
      BY <2>1, <2>2, <2>5, <3>1
    <3> QED
      BY <1>1, <3>2 DEF NamesInv
  <2> QED
    BY <1>1, <2>1, <2>4, <2>6 DEF NamesInv
<1>7. ASSUME NEW n \in visit, QueueFile(n) PROVE NamesInv'
  <2> DEFINE place == Resolve(cwd, n)
             row   == [name |-> n, version |-> files[place]]
             R     == [name : Name, version : File]
  <2>1. /\ visit' \subseteq visit /\ UNCHANGED <<calls, todo, roots>>
        /\ jobs' = jobs \/ (place \in DOMAIN files /\ jobs' = Append(jobs, row))
    BY <1>7 DEF QueueFile, command
  <2>2. Mirrored(n) /\ row.name = n
    BY <1>1 DEF NamesInv
  <2>3. jobs \in Seq(R) /\ (place \in DOMAIN files => row \in R)
    BY <1>1 DEF CommandInv, CommandTypeOK, FilesOK
  <2> HIDE DEF row, place, R
  <2>4. ASSUME NEW j \in DOMAIN jobs' PROVE Mirrored(jobs'[j].name)
    <3>1. (j \in DOMAIN jobs /\ jobs'[j] = jobs[j]) \/ jobs'[j] = row
      <4>1. CASE jobs' = jobs
        BY <4>1
      <4>2. CASE place \in DOMAIN files /\ jobs' = Append(jobs, row)
        BY <2>3, <4>2, AppendProperties, LenProperties
      <4> QED
        BY <2>1, <4>1, <4>2
    <3> QED
      BY <1>1, <2>2, <3>1 DEF NamesInv
  <2> QED
    BY <1>1, <2>1, <2>4 DEF NamesInv
<1>8. CASE QueueEnds
  <2>1. roots' = <<>> /\ visit' = {} /\ UNCHANGED <<calls, todo, jobs>>
    BY <1>8 DEF QueueEnds, queue
  <2> QED
    BY <1>1, <2>1, EmptySeq DEF NamesInv
<1>9. ASSUME NEW w \in Worker, Claim(w) PROVE NamesInv'
  <2>1. PICK j \in pending : Starts(w, j, jobs[j].name, DaemonCwd)
    BY <1>9 DEF Claim
  <2>2. Mirrored(jobs[j].name) /\ UNCHANGED <<todo, roots, visit, jobs>>
    BY <1>1, <1>9 DEF CommandInv, CommandTypeOK, NamesInv, Claim, command, walk
  <2>3. \A k \in calls' : ~IsPrefix(QuarantineRoot, k.place) /\ k.to = QuarantineRoot \o k.place
    BY <1>1, <2>1, <2>2, StartsMirrored
  <2> QED
    BY <1>1, <2>2, <2>3 DEF NamesInv
<1>10. ASSUME NEW k \in calls, Probe(k) \/ GivesUp(k) \/ Quarantine(k) \/ Install(k)
       PROVE  NamesInv'
  <2>1. k \in Call /\ k.found \in SUBSET Films /\ {} \in SUBSET Films
        /\ Decided(k.place) \in SUBSET Films
    BY <1>1 DEF Call, Decided
  <2>2. PICK k2 :
          /\ calls' = (calls \ {k}) \cup {k2}
          /\ k2 \in {At(k, "return", {}), At(k, "install", k.found),
                     At(k, "encode", Decided(k.place))}
    BY <1>10 DEF Probe, GivesUp, Quarantine, Install, Returns, Goes
  <2>3. k2.place = k.place /\ k2.to = k.to
    BY <2>1, <2>2, AtFields
  <2>4. UNCHANGED <<todo, roots, visit, jobs>>
    BY <1>10 DEF Probe, GivesUp, Quarantine, Install, command, walk, queue
  <2> QED
    BY <1>1, <2>2, <2>3, <2>4 DEF NamesInv
<1>11. ASSUME NEW k \in calls, Report(k) \/ Record(k) PROVE NamesInv'
  <2>1. calls' \subseteq calls /\ UNCHANGED <<todo, roots, visit, jobs>>
    BY <1>11 DEF Report, Record, command, walk, queue
  <2> QED
    BY <1>1, <2>1 DEF NamesInv
<1>12. CASE UNCHANGED commandVars
  <2>1. UNCHANGED <<calls, todo, roots, visit, jobs>>
    BY <1>12 DEF commandVars, command, walk, queue
  <2> QED
    BY <1>1, <2>1 DEF NamesInv
<1> QED
  BY <1>2, <1>3, <1>4, <1>5, <1>6, <1>7, <1>8, <1>9, <1>10, <1>11, <1>12 DEF CommandNext

LEMMA OriginalsNext ==
  ASSUME CommandInv, [CommandNext]_commandVars
  PROVE  CallsInv' /\ FilesInv' /\ Restorable'
<1>1. CallsInv /\ FilesInv /\ Restorable /\ NamesInv /\ calls \subseteq Call
  BY DEF CommandInv, CommandTypeOK
<1>2. CASE \/ \E i \in Invocation : Now(i) \/ AddToQueue(i)
           \/ Total \/ Interrupt
           \/ WalkRoot \/ (\E n \in visit : QueueFile(n)) \/ QueueEnds
           \/ \E k \in calls : Report(k) \/ Record(k)
           \/ UNCHANGED commandVars
  <2>1. UNCHANGED library /\ calls' \subseteq calls
    BY <1>2 DEF Now, AddToQueue, Total, Interrupt, WalkRoot, QueueFile, QueueEnds, Report,
                Record, commandVars
  <2> QED
    BY <1>1, <2>1, NothingTaken
<1>3. CASE NextFile
  <2>1. PICK t \in todo : Starts("--now", 0, t[2], cwd)
    BY <1>3 DEF NextFile
  <2>2. Mirrored(t[2]) /\ UNCHANGED library
    BY <1>1, <1>3 DEF NamesInv, NextFile
  <2>3. \A k \in calls' : k \in calls \/ (k.found = {} /\ k.step # "encode")
    BY <1>1, <2>1, <2>2, StartsMirrored
  <2> QED
    BY <1>1, <2>2, <2>3, NothingTaken
<1>4. ASSUME NEW w \in Worker, Claim(w) PROVE CallsInv' /\ FilesInv' /\ Restorable'
  <2>1. PICK j \in pending : Starts(w, j, jobs[j].name, DaemonCwd)
    BY <1>4 DEF Claim
  <2>2. Mirrored(jobs[j].name) /\ UNCHANGED library
    BY <1>1, <1>4 DEF CommandInv, CommandTypeOK, NamesInv, Claim
  <2>3. \A k \in calls' : k \in calls \/ (k.found = {} /\ k.step # "encode")
    BY <1>1, <2>1, <2>2, StartsMirrored
  <2> QED
    BY <1>1, <2>2, <2>3, NothingTaken
<1>5. ASSUME NEW k \in calls, GivesUp(k) PROVE CallsInv' /\ FilesInv' /\ Restorable'
  <2>1. k \in Call /\ {} \in SUBSET Films
    BY <1>1
  <2>2. calls' = (calls \ {k}) \cup {At(k, "return", {})} /\ UNCHANGED library
    BY <1>5 DEF GivesUp, Returns, Goes
  <2>3. At(k, "return", {}).found = {} /\ At(k, "return", {}).step # "encode"
    BY <2>1, AtFields
  <2>4. \A j \in calls' : j \in calls \/ (j.found = {} /\ j.step # "encode")
    BY <2>2, <2>3
  <2> QED
    BY <1>1, <2>2, <2>4, NothingTaken
<1>6. ASSUME NEW k \in calls, Probe(k) \/ Quarantine(k) \/ Install(k)
      PROVE  CallsInv' /\ FilesInv' /\ Restorable'
  BY <1>6, ProbeKeeps, QuarantineKeeps, InstallKeeps
<1> QED
  BY <1>2, <1>3, <1>4, <1>5, <1>6 DEF CommandNext

\* Where every name typed is absolute, keeps its ".." below the root directory, and
\* names neither the quarantine nor what holds it, an original is at home or under
\* exactly its full path in the quarantine, whichever files were typed, walked, queued
\* and processed by the command and by the daemon's workers, step between step, as long
\* as no two calls had the film in hand at once (pipeline.go:55-98, 178-189).
THEOREM OriginalsAreRestorable ==
  ASSUME \A i \in Invocation : \A k \in DOMAIN i.args : Fits(i.args[k])
  PROVE  CommandSpec => []CommandInv
<1>1. CommandInit => CommandInv
  BY CommandTypeInit, OriginalsInit DEF CommandInv
<1>2. CommandInv /\ [CommandNext]_commandVars => CommandInv'
  <2>1. CommandInv /\ [CommandNext]_commandVars => CommandTypeOK'
    BY CommandTypeNext DEF CommandInv
  <2>2. CommandInv /\ [CommandNext]_commandVars => NamesInv'
    BY NamesNext
  <2>3. CommandInv /\ [CommandNext]_commandVars => CallsInv' /\ FilesInv' /\ Restorable'
    BY OriginalsNext
  <2> QED
    BY <2>1, <2>2, <2>3 DEF CommandInv
<1> QED
  BY <1>1, <1>2, PTL DEF CommandSpec

-----------------------------------------------------------------------------
(* The interrupt.                                                             *)

\* --now has one call at a time, and after an interrupt none but that one to come.
InterruptInv ==
  /\ \A j, k \in calls : j.by = "--now" /\ k.by = "--now" => j = k
  /\ \A k \in calls : k.by = "--now" => at = "process"
  /\ \A k \in calls, p \in finished : k.by = "--now" => p = k.place
  /\ ~interrupted => finished = {}
  /\ InterruptSpares

\* A step of one call, which keeps its caller and its place.
LEMMA InterruptCall ==
  ASSUME CommandTypeOK, InterruptInv, NEW k \in calls,
         Probe(k) \/ GivesUp(k) \/ Quarantine(k) \/ Install(k)
  PROVE  InterruptInv'
<1>1. /\ k \in Call /\ k.found \in SUBSET Films /\ {} \in SUBSET Films
      /\ Decided(k.place) \in SUBSET Films
  BY DEF CommandTypeOK, Call, Decided
<1>2. PICK k2 :
        /\ calls' = (calls \ {k}) \cup {k2}
        /\ k2 \in {At(k, "return", {}), At(k, "install", k.found),
                   At(k, "encode", Decided(k.place))}
  BY DEF Probe, GivesUp, Quarantine, Install, Returns, Goes
<1>3. k2.by = k.by /\ k2.place = k.place
  BY <1>1, <1>2, AtFields
<1>4. at' = at /\ interrupted' = interrupted
  BY DEF Probe, GivesUp, Quarantine, Install, command
<1>5. \/ finished' = finished
      \/ k.by = "--now" /\ interrupted /\ finished' = finished \cup {k.place}
  BY DEF Probe, GivesUp, Quarantine, Install, Changed
<1>6. \A j, l \in calls' : j.by = "--now" /\ l.by = "--now" => j = l
  BY <1>2, <1>3 DEF InterruptInv
<1>7. \A j \in calls' : j.by = "--now" => at' = "process"
  BY <1>2, <1>3, <1>4 DEF InterruptInv
<1>8. \A j \in calls', p \in finished' : j.by = "--now" => p = j.place
  BY <1>2, <1>3, <1>5 DEF InterruptInv
<1>9. ~interrupted' => finished' = {}
  BY <1>4, <1>5 DEF InterruptInv
<1>10. InterruptSpares'
  BY <1>5 DEF InterruptInv, InterruptSpares
<1> QED
  BY <1>6, <1>7, <1>8, <1>9, <1>10 DEF InterruptInv

\* An interrupted `enqueue --now` changes at most the file it is at, however many are
\* left and whatever the daemon does beside it (main.go:250-252).
THEOREM InterruptSparesTheRest == CommandSpec => []InterruptSpares
<1>1. CommandInit => InterruptInv
  BY DEF CommandInit, InterruptInv, InterruptSpares
<1>2. CommandTypeOK /\ InterruptInv /\ [CommandNext]_commandVars => InterruptInv'
  <2> SUFFICES ASSUME CommandTypeOK, InterruptInv, [CommandNext]_commandVars
               PROVE  InterruptInv'
    OBVIOUS
  <2> USE DEF InterruptInv, InterruptSpares
  <2>1. ASSUME NEW i \in Invocation, Now(i) PROVE InterruptInv'
    BY <2>1 DEF Now
  <2>2. ASSUME NEW i \in Invocation, AddToQueue(i) PROVE InterruptInv'
    BY <2>2 DEF AddToQueue
  <2>3. CASE NextFile
    <3>1. PICK k : calls' = calls \cup {k}
      BY <2>3 DEF NextFile, Starts
    <3>2. /\ at = "loop" /\ at' = "process" /\ finished = {} /\ finished' = {}
          /\ interrupted' = interrupted
      BY <2>3 DEF NextFile
    <3>3. \A j \in calls : j.by # "--now"
      BY <3>2
    <3> QED
      BY <3>1, <3>2, <3>3
  <2>4. CASE Total \/ Interrupt
    BY <2>4 DEF Total, Interrupt
  <2>5. CASE WalkRoot \/ (\E n \in visit : QueueFile(n)) \/ QueueEnds
    BY <2>5 DEF WalkRoot, QueueFile, QueueEnds, command
  <2>6. ASSUME NEW w \in Worker, Claim(w) PROVE InterruptInv'
    <3>1. PICK j \in pending : Starts(w, j, jobs[j].name, DaemonCwd)
      BY <2>6 DEF Claim
    <3> DEFINE p == Resolve(DaemonCwd, jobs[j].name)
               m == Destination(jobs[j].name)
               k == [by |-> w, row |-> j, place |-> p, to |-> m, step |-> "probe", found |-> {}]
    <3>2. calls' = calls \cup {k}
      BY <3>1 DEF Starts
    <3> HIDE DEF p, m
    <3>3. k.by # "--now"
      BY CommandAssumption
    <3> HIDE DEF k
    <3>4. UNCHANGED <<at, interrupted, finished>>
      BY <2>6 DEF Claim, command
    <3> QED
      BY <3>2, <3>3, <3>4
  <2>7. ASSUME NEW k \in calls, Probe(k) \/ GivesUp(k) \/ Quarantine(k) \/ Install(k)
        PROVE  InterruptInv'
    BY <2>7, InterruptCall
  <2>8. ASSUME NEW k \in calls, Report(k) PROVE InterruptInv'
    BY <2>8 DEF Report
  <2>9. ASSUME NEW k \in calls, Record(k) PROVE InterruptInv'
    BY <2>9 DEF Record, command
  <2>10. CASE UNCHANGED commandVars
    BY <2>10 DEF commandVars, command
  <2> QED
    BY <2>1, <2>2, <2>3, <2>4, <2>5, <2>6, <2>7, <2>8, <2>9, <2>10 DEF CommandNext
<1>3. InterruptInv => InterruptSpares
  BY DEF InterruptInv
<1> QED
  BY <1>1, <1>2, <1>3, CommandTypeCorrect, PTL DEF CommandSpec
=============================================================================
