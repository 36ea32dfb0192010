---------------------------- MODULE SchemaProofs ----------------------------
(***************************************************************************)
(* What the worker's validation makes of an event that the API's let pass, *)
(* for any lengths, times and zones.                                       *)
(***************************************************************************)
EXTENDS Schema, SequenceTheorems, TLAPS

-----------------------------------------------------------------------------
(* Flattening.  A currency that can be accepted has three characters, so   *)
(* the recursion of FlattenSeq need not be followed further than that.     *)

\* The equation that FlattenSeq chooses a function for.
Unfolds(g, seqs) ==
  g = [i \in 1..Len(seqs) |-> IF i = 1 THEN seqs[i] ELSE g[i - 1] \o seqs[i]]

\* FlattenSeq is defined by its equation.
LEMMA FlattenIsChosen ==
  ASSUME NEW seqs, Len(seqs) # 0
  PROVE  FlattenSeq(seqs) = (CHOOSE g : Unfolds(g, seqs))[Len(seqs)]
BY DEF FlattenSeq, Unfolds

\* The equation has a solution for up to three sequences.
LEMMA FlattenUnfolds ==
  ASSUME NEW seqs, Len(seqs) \in 1..3
  PROVE  \E g : Unfolds(g, seqs)
<1> DEFINE a == seqs[1]
           b == a \o seqs[2]
           c == b \o seqs[3]
           g == [i \in 1..Len(seqs) |-> IF i = 1 THEN a ELSE IF i = 2 THEN b ELSE c]
<1> HIDE DEF a, b, c
<1>1. ASSUME NEW i \in 1..Len(seqs)
      PROVE  g[i] = IF i = 1 THEN seqs[i] ELSE g[i - 1] \o seqs[i]
  <2>1. CASE i = 1
    BY <2>1 DEF a
  <2>2. CASE i = 2
    <3>1. i - 1 = 1 /\ i # 1 /\ g[1] = a /\ g[i] = b
      BY <2>2
    <3> HIDE DEF g
    <3> QED
      BY <2>2, <3>1, Zenon DEF b
  <2>3. CASE i = 3
    <3>1. i - 1 = 2 /\ i # 1 /\ g[2] = b /\ g[i] = c
      BY <2>3
    <3> HIDE DEF g
    <3> QED
      BY <2>3, <3>1, Zenon DEF c
  <2> QED
    BY <2>1, <2>2, <2>3
<1>2. g = [i \in 1..Len(seqs) |-> g[i]]
  OBVIOUS
<1>3. [i \in 1..Len(seqs) |-> g[i]]
        = [i \in 1..Len(seqs) |-> IF i = 1 THEN seqs[i] ELSE g[i - 1] \o seqs[i]]
  BY <1>1
<1> HIDE DEF g
<1> QED
  BY <1>2, <1>3 DEF Unfolds

\* One, two and three sequences put together.
LEMMA FlattenValue ==
  ASSUME NEW seqs, Len(seqs) \in 1..3
  PROVE  /\ Len(seqs) = 1 => FlattenSeq(seqs) = seqs[1]
         /\ Len(seqs) = 2 => FlattenSeq(seqs) = seqs[1] \o seqs[2]
         /\ Len(seqs) = 3 => FlattenSeq(seqs) = (seqs[1] \o seqs[2]) \o seqs[3]
<1> DEFINE f == CHOOSE g : Unfolds(g, seqs)
<1>1. Unfolds(f, seqs)
  BY FlattenUnfolds
<1>2. FlattenSeq(seqs) = f[Len(seqs)]
  BY FlattenIsChosen
<1> HIDE DEF f
<1>3. \A i \in 1..Len(seqs) : f[i] = IF i = 1 THEN seqs[i] ELSE f[i - 1] \o seqs[i]
  BY <1>1 DEF Unfolds
<1>4. f[1] = seqs[1]
  BY <1>3
<1>5. ASSUME Len(seqs) \in 2..3 PROVE f[2] = seqs[1] \o seqs[2]
  <2>1. 2 \in 1..Len(seqs) /\ 2 # 1 /\ 2 - 1 = 1
    BY <1>5
  <2>2. f[2] = f[2 - 1] \o seqs[2]
    BY <1>3, <2>1, Zenon
  <2> QED
    BY <1>4, <2>1, <2>2, Zenon
<1>6. ASSUME Len(seqs) = 3 PROVE f[3] = (seqs[1] \o seqs[2]) \o seqs[3]
  <2>1. 3 \in 1..Len(seqs) /\ 3 # 1 /\ 3 - 1 = 2 /\ Len(seqs) \in 2..3
    BY <1>6
  <2>2. f[3] = f[3 - 1] \o seqs[3]
    BY <1>3, <2>1, Zenon
  <2> QED
    BY <1>5, <2>1, <2>2, Zenon
<1>7. Len(seqs) = 2 => Len(seqs) \in 2..3
  OBVIOUS
<1> QED
  BY <1>2, <1>4, <1>5, <1>6, <1>7, Zenon

-----------------------------------------------------------------------------
(* Normalising.                                                            *)

\* The characters of a string in upper case.
Capital == {"upper", "blank", "other"}

\* A character in upper case is one or two characters in upper case.
LEMMA UpperCharType ==
  ASSUME NEW c \in Char
  PROVE  UpperChar(c) \in Seq(Capital)
<1>1. CASE c = "lower"
  BY <1>1 DEF UpperChar, Capital
<1>2. CASE c = "sharp"
  BY <1>2 DEF UpperChar, Capital
<1>3. CASE c \in Capital
  <2>1. UpperChar(c) = <<c>>
    BY <1>3 DEF UpperChar, Capital
  <2> QED
    BY <1>3, <2>1
<1> QED
  BY <1>1, <1>2, <1>3 DEF Char, Capital

\* An interval tells where it ends.
LEMMA SameInterval ==
  ASSUME NEW a \in Nat, NEW b \in Nat, 1..a = 1..b
  PROVE  a = b
<1>1. ~(a < b)
  <2> SUFFICES ASSUME a < b PROVE FALSE
    OBVIOUS
  <2>1. b \in 1..b /\ b \notin 1..a
    OBVIOUS
  <2> QED
    BY <2>1
<1>2. ~(b < a)
  <2> SUFFICES ASSUME b < a PROVE FALSE
    OBVIOUS
  <2>1. a \in 1..a /\ a \notin 1..b
    OBVIOUS
  <2> QED
    BY <2>1
<1> QED
  BY <1>1, <1>2

\* The pieces that Upper puts together.
LEMMA UpperPieces ==
  ASSUME NEW t \in Seq(Char)
  PROVE  LET pieces == [i \in DOMAIN t |-> UpperChar(t[i])]
         IN  /\ pieces \in Seq(Seq(Capital)) /\ Len(pieces) = Len(t)
             /\ \A i \in 1..Len(t) : pieces[i] = UpperChar(t[i]) /\ pieces[i] \in Seq(Capital)
<1> DEFINE pieces == [i \in DOMAIN t |-> UpperChar(t[i])]
<1>1. Len(t) \in Nat /\ DOMAIN t = 1..Len(t) /\ \A i \in 1..Len(t) : t[i] \in Char
  BY LenProperties
<1>2. \A i \in 1..Len(t) : UpperChar(t[i]) \in Seq(Capital)
  BY <1>1, UpperCharType
<1>3. pieces \in [1..Len(t) -> Seq(Capital)]
  BY <1>1, <1>2
<1>4. pieces \in Seq(Seq(Capital))
  BY <1>1, <1>3, SeqDef
<1>5. \A i \in 1..Len(t) : pieces[i] = UpperChar(t[i])
  BY <1>1
<1> HIDE DEF pieces
<1>6. Len(pieces) = Len(t)
  <2>1. DOMAIN pieces = 1..Len(pieces) /\ Len(pieces) \in Nat
    BY <1>4, LenProperties
  <2>2. DOMAIN pieces = 1..Len(t)
    BY <1>3
  <2> QED
    BY <1>1, <2>1, <2>2, SameInterval
<1> QED
  BY <1>2, <1>4, <1>5, <1>6 DEF pieces

\* Up to three characters in upper case are in upper case.
LEMMA UpperType ==
  ASSUME NEW t \in Seq(Char), Len(t) \in 0..3
  PROVE  Upper(t) \in Seq(Capital)
<1> DEFINE pieces == [i \in DOMAIN t |-> UpperChar(t[i])]
<1>1. /\ pieces \in Seq(Seq(Capital)) /\ Len(pieces) = Len(t)
      /\ \A i \in 1..Len(t) : pieces[i] \in Seq(Capital)
  BY UpperPieces
<1>2. Upper(t) = FlattenSeq(pieces)
  BY DEF Upper
<1> HIDE DEF pieces
<1>a. ASSUME Len(t) \in 1..3
      PROVE  /\ Len(t) = 1 => Upper(t) = pieces[1]
             /\ Len(t) = 2 => Upper(t) = pieces[1] \o pieces[2]
             /\ Len(t) = 3 => Upper(t) = (pieces[1] \o pieces[2]) \o pieces[3]
  BY <1>1, <1>2, <1>a, FlattenValue, Zenon
<1>b. 1 \in 1..3 /\ 2 \in 1..3 /\ 3 \in 1..3
  OBVIOUS
<1>3. CASE Len(t) = 0
  <2>1. Upper(t) = pieces
    BY <1>1, <1>2, <1>3 DEF FlattenSeq
  <2>2. pieces = <<>>
    BY <1>1, <1>3, EmptySeq
  <2> QED
    BY <2>1, <2>2, EmptySeq
<1>4. CASE Len(t) = 1
  <2>1. pieces[1] \in Seq(Capital)
    BY <1>1, <1>4
  <2> QED
    BY <1>a, <1>b, <1>4, <2>1, Zenon
<1>5. CASE Len(t) = 2
  <2>1. pieces[1] \in Seq(Capital) /\ pieces[2] \in Seq(Capital)
    BY <1>1, <1>5
  <2>2. pieces[1] \o pieces[2] \in Seq(Capital)
    BY <2>1, ConcatProperties
  <2>3. Upper(t) = pieces[1] \o pieces[2]
    BY <1>a, <1>b, <1>5, Zenon
  <2> QED
    BY <2>2, <2>3
<1>6. CASE Len(t) = 3
  <2>1. pieces[1] \in Seq(Capital) /\ pieces[2] \in Seq(Capital) /\ pieces[3] \in Seq(Capital)
    BY <1>1, <1>6
  <2>2. pieces[1] \o pieces[2] \in Seq(Capital)
    BY <2>1, ConcatProperties
  <2>3. (pieces[1] \o pieces[2]) \o pieces[3] \in Seq(Capital)
    BY <2>1, <2>2, ConcatProperties
  <2>4. Upper(t) = (pieces[1] \o pieces[2]) \o pieces[3]
    BY <1>a, <1>b, <1>6, Zenon
  <2> QED
    BY <2>3, <2>4
<1> QED
  BY <1>3, <1>4, <1>5, <1>6

\* Some positions in a string of three have a first and a last one.
LEMMA EndsOfThree ==
  ASSUME NEW S \in SUBSET (1..3), S # {}
  PROVE  /\ Min(S) \in S /\ \A y \in S : Min(S) <= y
         /\ Max(S) \in S /\ \A y \in S : y <= Max(S)
<1>0. PICK first \in S : first \in 1..3
  OBVIOUS
<1>1. \E x \in S : \A y \in S : x =< y
  <2>1. CASE 1 \in S
    BY <2>1
  <2>2. CASE 1 \notin S /\ 2 \in S
    <3>1. \A y \in S : 2 =< y
      BY <2>2
    <3> QED
      BY <2>2, <3>1
  <2>3. CASE 1 \notin S /\ 2 \notin S
    <3>1. 3 \in S /\ \A y \in S : 3 =< y
      BY <1>0, <2>3
    <3> QED
      BY <3>1
  <2> QED
    BY <2>1, <2>2, <2>3
<1>2. \E x \in S : \A y \in S : x >= y
  <2>1. CASE 3 \in S
    BY <2>1
  <2>2. CASE 3 \notin S /\ 2 \in S
    <3>1. \A y \in S : 2 >= y
      BY <2>2
    <3> QED
      BY <2>2, <3>1
  <2>3. CASE 3 \notin S /\ 2 \notin S
    <3>1. 1 \in S /\ \A y \in S : 1 >= y
      BY <1>0, <2>3
    <3> QED
      BY <3>1
  <2> QED
    BY <2>1, <2>2, <2>3
<1>3. Min(S) \in S /\ \A y \in S : Min(S) <= y
  BY <1>1 DEF Min
<1>4. Max(S) \in S /\ \A y \in S : Max(S) >= y
  BY <1>2 DEF Max
<1> QED
  BY <1>3, <1>4

\* strip() makes nothing longer.
LEMMA StripType ==
  ASSUME NEW s \in Seq(Char), Len(s) = 3
  PROVE  Strip(s) \in Seq(Char) /\ Len(Strip(s)) \in 0..3
<1> DEFINE ink == {i \in DOMAIN s : s[i] # "blank"}
<1>1. DOMAIN s = 1..3 /\ \A i \in 1..3 : s[i] \in Char
  BY LenProperties
<1>2. ink \in SUBSET (1..3)
  BY <1>1
<1>3. Strip(s) = IF ink = {} THEN <<>> ELSE SubSeq(s, Min(ink), Max(ink))
  BY DEF Strip
<1> HIDE DEF ink
<1>4. CASE ink = {}
  BY <1>3, <1>4, EmptySeq
<1>5. CASE ink # {}
  <2>1. Min(ink) \in 1..3 /\ Max(ink) \in 1..3
    BY <1>2, <1>5, EndsOfThree
  <2> DEFINE a == Min(ink)
             z == Max(ink)
  <2> HIDE DEF a, z
  <2>2. a \in 1..3 /\ z \in 1..3 /\ Strip(s) = SubSeq(s, a, z)
    BY <1>3, <1>5, <2>1 DEF a, z
  <2>3. \A i \in a..z : s[i] \in Char
    BY <1>1, <2>2
  <2>4. SubSeq(s, a, z) \in Seq(Char) /\ Len(SubSeq(s, a, z)) = IF a <= z THEN z - a + 1 ELSE 0
    BY <2>2, <2>3, SubSeqProperties
  <2> QED
    BY <2>2, <2>4
<1> QED
  BY <1>4, <1>5

\* What strip and upper leave of a code of three characters is in upper case.
LEMMA NormaliseType ==
  ASSUME NEW s \in Seq(Char), Len(s) = 3
  PROVE  Normalise(s) \in Seq(Capital)
<1>1. Strip(s) \in Seq(Char) /\ Len(Strip(s)) \in 0..3
  BY StripType
<1> QED
  BY <1>1, UpperType DEF Normalise

\* Three strings of one character each.
LEMMA ThreeOnes ==
  ASSUME NEW S, NEW a \in Seq(S), NEW b \in Seq(S), NEW c \in Seq(S),
         Len(a) = 1, Len(b) = 1, Len(c) = 1
  PROVE  LET three == (a \o b) \o c
         IN  /\ three \in Seq(S) /\ Len(three) = 3
             /\ three[1] = a[1] /\ three[2] = b[1] /\ three[3] = c[1]
<1> DEFINE two == a \o b
           three == two \o c
<1>1. two \in Seq(S) /\ Len(two) = Len(a) + Len(b)
  BY ConcatProperties
<1>2. \A i \in 1..(Len(a) + Len(b)) : two[i] = IF i <= Len(a) THEN a[i] ELSE b[i - Len(a)]
  BY ConcatProperties
<1>3. Len(two) = 2 /\ two[1] = a[1] /\ two[2] = b[1]
  <2> HIDE DEF two
  <2>1. Len(two) = 2
    BY <1>1
  <2>2. 1 \in 1..(Len(a) + Len(b)) /\ 2 \in 1..(Len(a) + Len(b))
    OBVIOUS
  <2> QED
    BY <1>2, <2>1, <2>2
<1> HIDE DEF two
<1>4. three \in Seq(S) /\ Len(three) = Len(two) + Len(c)
  BY <1>1, ConcatProperties
<1>5. \A i \in 1..(Len(two) + Len(c)) :
        three[i] = IF i <= Len(two) THEN two[i] ELSE c[i - Len(two)]
  <2>1. two \in Seq(S) /\ c \in Seq(S)
    BY <1>1
  <2> QED
    BY ONLY <2>1, ConcatProperties
<1> HIDE DEF three
<1>6. Len(three) = 3
  BY <1>3, <1>4
<1>7. three[1] = a[1] /\ three[2] = b[1] /\ three[3] = c[1]
  <2>1. /\ 1 \in 1..(Len(two) + Len(c)) /\ 2 \in 1..(Len(two) + Len(c))
        /\ 3 \in 1..(Len(two) + Len(c))
    BY <1>3
  <2> QED
    BY <1>3, <1>5, <2>1
<1> QED
  BY <1>4, <1>6, <1>7 DEF two, three

\* A code of three capital letters stays as it is.
LEMMA CapitalsStay ==
  ASSUME NEW u \in Seq(Capital), Len(u) = 3, \A i \in 1..3 : u[i] = "upper"
  PROVE  Normalise(u) = u /\ IsAlpha(u)
<1>1. DOMAIN u = 1..3 /\ u \in Seq(Char)
  <2>1. DOMAIN u = 1..Len(u)
    BY LenProperties
  <2>2. u \in Seq(Char)
    <3>1. Capital \subseteq Char
      BY DEF Capital, Char
    <3> QED
      BY <3>1, SeqMonotonic
  <2> QED
    BY <2>1, <2>2
<1>2. Strip(u) = u
  <2> DEFINE ink == {i \in DOMAIN u : u[i] # "blank"}
  <2>1. ink = 1..3
    BY <1>1
  <2>a. Strip(u) = IF ink = {} THEN <<>> ELSE SubSeq(u, Min(ink), Max(ink))
    BY DEF Strip
  <2> HIDE DEF ink
  <2>2. Strip(u) = SubSeq(u, Min(ink), Max(ink))
    <3>1. 1 \in ink
      BY <2>1
    <3> QED
      BY <2>a, <3>1
  <2>3. Min(1..3) = 1 /\ Max(1..3) = 3
    <3>1. 1..3 \in SUBSET (1..3) /\ 1 \in 1..3 /\ 3 \in 1..3
      OBVIOUS
    <3>2. /\ Min(1..3) \in 1..3 /\ \A y \in 1..3 : Min(1..3) <= y
          /\ Max(1..3) \in 1..3 /\ \A y \in 1..3 : y <= Max(1..3)
      BY <3>1, EndsOfThree
    <3> DEFINE a == Min(1..3)
               z == Max(1..3)
    <3> HIDE DEF a, z
    <3>3. a \in 1..3 /\ a <= 1 /\ z \in 1..3 /\ 3 <= z
      BY <3>1, <3>2 DEF a, z
    <3>4. a = 1 /\ z = 3
      BY <3>3
    <3> QED
      BY <3>4 DEF a, z
  <2>4. Strip(u) = SubSeq(u, 1, 3)
    BY <2>1, <2>2, <2>3
  <2>5. SubSeq(u, 1, Len(u)) = u
    BY SubSeqFull
  <2> QED
    BY <2>4, <2>5
<1>3. Upper(u) = u
  <2> DEFINE pieces == [i \in DOMAIN u |-> UpperChar(u[i])]
  <2>1. /\ pieces \in Seq(Seq(Capital)) /\ Len(pieces) = Len(u)
        /\ \A i \in 1..Len(u) : pieces[i] = UpperChar(u[i]) /\ pieces[i] \in Seq(Capital)
    BY <1>1, UpperPieces
  <2>2. Upper(u) = FlattenSeq(pieces)
    BY DEF Upper
  <2> HIDE DEF pieces
  <2>3. \A i \in 1..3 : pieces[i] = <<"upper">>
    BY <2>1 DEF UpperChar
  <2>4. Len(pieces) = 3 /\ Len(pieces) \in 1..3 /\ 1 \in 1..3 /\ 2 \in 1..3 /\ 3 \in 1..3
    BY <2>1
  <2>5. FlattenSeq(pieces) = (pieces[1] \o pieces[2]) \o pieces[3]
    BY <2>4, FlattenValue, Zenon
  <2>6. PICK one : one = <<"upper">>
    OBVIOUS
  <2>7. one \in Seq(Capital) /\ Len(one) = 1 /\ one[1] = "upper"
    BY <2>6 DEF Capital
  <2> DEFINE three == (one \o one) \o one
  <2>8. Upper(u) = three
    BY <2>2, <2>3, <2>4, <2>5, <2>6, Zenon
  <2>9. three \in Seq(Capital) /\ Len(three) = 3 /\ \A i \in 1..3 : three[i] = one[1]
    <3>1. /\ three \in Seq(Capital) /\ Len(three) = 3
          /\ three[1] = one[1] /\ three[2] = one[1] /\ three[3] = one[1]
      BY <2>7, ThreeOnes
    <3> HIDE DEF three
    <3> QED
      BY <3>1
  <2> HIDE DEF three
  <2>10. three = u
    BY <2>7, <2>9, SeqEqual
  <2> QED
    BY <2>8, <2>10
<1>4. IsAlpha(u)
  <2>1. u # <<>>
    BY EmptySeq
  <2> QED
    BY <1>1, <2>1 DEF IsAlpha, Letter
<1> QED
  BY <1>2, <1>3, <1>4 DEF Normalise

\* A string that has no character of the kind that grows in upper case.
NoSharp(s) == \A i \in DOMAIN s : s[i] # "sharp"

\* A character that does not grow is one character in upper case, and a letter
\* in upper case was a letter.
LEMMA UpperOne ==
  ASSUME NEW c \in Char, c # "sharp"
  PROVE  /\ UpperChar(c) \in Seq(Capital) /\ Len(UpperChar(c)) = 1
         /\ UpperChar(c)[1] = "upper" => c \in Letter
<1>1. CASE c = "lower"
  BY <1>1 DEF UpperChar, Capital, Letter
<1>2. CASE c # "lower"
  <2>1. UpperChar(c) = <<c>> /\ c \in Capital
    BY <1>2 DEF UpperChar, Char, Capital
  <2> QED
    BY <2>1 DEF Letter
<1> QED
  BY <1>1, <1>2

\* Without a character that grows, only three are three in upper case, and if
\* those are letters, they were letters.
LEMMA UpperOfThree ==
  ASSUME NEW t \in Seq(Char), Len(t) \in 0..3, NoSharp(t), Len(Upper(t)) = 3
  PROVE  /\ Len(t) = 3
         /\ (\A i \in 1..3 : Upper(t)[i] = "upper") => \A i \in 1..3 : t[i] \in Letter
<1> DEFINE pieces == [i \in DOMAIN t |-> UpperChar(t[i])]
<1>1. /\ pieces \in Seq(Seq(Capital)) /\ Len(pieces) = Len(t)
      /\ \A i \in 1..Len(t) : pieces[i] = UpperChar(t[i]) /\ pieces[i] \in Seq(Capital)
  BY UpperPieces
<1>2. Upper(t) = FlattenSeq(pieces)
  BY DEF Upper
<1> HIDE DEF pieces
<1>3. \A i \in 1..Len(t) : Len(pieces[i]) = 1 /\ (pieces[i][1] = "upper" => t[i] \in Letter)
  <2>1. DOMAIN t = 1..Len(t) /\ \A i \in 1..Len(t) : t[i] \in Char
    BY LenProperties
  <2> QED
    BY <1>1, <2>1, UpperOne DEF NoSharp
<1>a. ASSUME Len(t) \in 1..3
      PROVE  /\ Len(t) = 1 => Upper(t) = pieces[1]
             /\ Len(t) = 2 => Upper(t) = pieces[1] \o pieces[2]
             /\ Len(t) = 3 => Upper(t) = (pieces[1] \o pieces[2]) \o pieces[3]
  BY <1>1, <1>2, <1>a, FlattenValue, Zenon
<1>b. 1 \in 1..3 /\ 2 \in 1..3 /\ 3 \in 1..3
  OBVIOUS
<1>4. Len(t) # 0
  <2> SUFFICES ASSUME Len(t) = 0 PROVE FALSE
    OBVIOUS
  <2>1. Upper(t) = pieces
    BY <1>1, <1>2 DEF FlattenSeq
  <2> QED
    BY <1>1, <2>1
<1>5. Len(t) # 1
  <2> SUFFICES ASSUME Len(t) = 1 PROVE FALSE
    OBVIOUS
  <2>1. Upper(t) = pieces[1]
    BY <1>a, <1>b, Zenon
  <2> QED
    BY <1>3, <2>1
<1>6. Len(t) # 2
  <2> SUFFICES ASSUME Len(t) = 2 PROVE FALSE
    OBVIOUS
  <2>1. Upper(t) = pieces[1] \o pieces[2]
    BY <1>a, <1>b, Zenon
  <2>2. /\ pieces[1] \in Seq(Capital) /\ pieces[2] \in Seq(Capital)
        /\ Len(pieces[1]) = 1 /\ Len(pieces[2]) = 1
    BY <1>1, <1>3
  <2> DEFINE a == pieces[1]
             b == pieces[2]
             two == a \o b
  <2>3. a \in Seq(Capital) /\ b \in Seq(Capital) /\ Len(a) = 1 /\ Len(b) = 1
    BY <2>2
  <2>4. Upper(t) = two
    BY <2>1
  <2> HIDE DEF a, b
  <2>5. Len(two) = Len(a) + Len(b)
    BY <2>3, ConcatProperties
  <2> HIDE DEF two
  <2> QED
    BY <2>3, <2>4, <2>5
<1>7. Len(t) = 3
  BY <1>4, <1>5, <1>6
<1>8. ASSUME \A i \in 1..3 : Upper(t)[i] = "upper", NEW i \in 1..3
      PROVE  t[i] \in Letter
  <2>1. /\ pieces[1] \in Seq(Capital) /\ pieces[2] \in Seq(Capital) /\ pieces[3] \in Seq(Capital)
        /\ Len(pieces[1]) = 1 /\ Len(pieces[2]) = 1 /\ Len(pieces[3]) = 1
    BY <1>1, <1>3, <1>7
  <2>2. Upper(t) = (pieces[1] \o pieces[2]) \o pieces[3]
    BY <1>a, <1>b, <1>7, Zenon
  <2> DEFINE a == pieces[1]
             b == pieces[2]
             c == pieces[3]
             three == (a \o b) \o c
  <2>3. /\ a \in Seq(Capital) /\ b \in Seq(Capital) /\ c \in Seq(Capital)
        /\ Len(a) = 1 /\ Len(b) = 1 /\ Len(c) = 1 /\ Upper(t) = three
    BY <2>1, <2>2
  <2> HIDE DEF a, b, c
  <2>4. three[1] = a[1] /\ three[2] = b[1] /\ three[3] = c[1]
    BY <2>3, ThreeOnes
  <2> HIDE DEF three
  <2>5. pieces[i][1] = "upper"
    BY <1>8, <2>3, <2>4 DEF a, b, c
  <2> QED
    BY <1>3, <1>7, <2>5
<1> QED
  BY <1>7, <1>8

\* strip() leaves three of three characters only if it takes none.
LEMMA StripOfThree ==
  ASSUME NEW s \in Seq(Char), Len(s) = 3, Len(Strip(s)) = 3
  PROVE  Strip(s) = s
<1> DEFINE ink == {i \in DOMAIN s : s[i] # "blank"}
<1>1. DOMAIN s = 1..3 /\ \A i \in 1..3 : s[i] \in Char
  BY LenProperties
<1>2. ink \in SUBSET (1..3)
  BY <1>1
<1>3. Strip(s) = IF ink = {} THEN <<>> ELSE SubSeq(s, Min(ink), Max(ink))
  BY DEF Strip
<1> HIDE DEF ink
<1>4. ink # {}
  BY <1>3
<1> DEFINE a == Min(ink)
           z == Max(ink)
<1>5. a \in 1..3 /\ z \in 1..3
  BY <1>2, <1>4, EndsOfThree
<1>6. Strip(s) = SubSeq(s, a, z)
  BY <1>3, <1>4
<1> HIDE DEF a, z
<1>7. \A i \in a..z : s[i] \in Char
  BY <1>1, <1>5
<1>8. Len(SubSeq(s, a, z)) = IF a <= z THEN z - a + 1 ELSE 0
  BY <1>5, <1>7, SubSeqProperties
<1>9. a = 1 /\ z = 3
  BY <1>5, <1>6, <1>8
<1>10. SubSeq(s, 1, Len(s)) = s
  BY SubSeqFull
<1> QED
  BY <1>6, <1>9, <1>10

\* strip() finds what it leaves.
LEMMA StripKeepsNoSharp ==
  ASSUME NEW s \in Seq(Char), Len(s) = 3, NoSharp(s)
  PROVE  NoSharp(Strip(s))
<1> DEFINE ink == {i \in DOMAIN s : s[i] # "blank"}
<1>1. DOMAIN s = 1..3 /\ \A i \in 1..3 : s[i] \in Char
  BY LenProperties
<1>2. ink \in SUBSET (1..3)
  BY <1>1
<1>3. Strip(s) = IF ink = {} THEN <<>> ELSE SubSeq(s, Min(ink), Max(ink))
  BY DEF Strip
<1> HIDE DEF ink
<1>4. CASE ink = {}
  BY <1>3, <1>4, EmptySeq DEF NoSharp
<1>5. CASE ink # {}
  <2> DEFINE a == Min(ink)
             z == Max(ink)
  <2>1. a \in 1..3 /\ z \in 1..3
    BY <1>2, <1>5, EndsOfThree
  <2>2. Strip(s) = SubSeq(s, a, z)
    BY <1>3, <1>5
  <2> HIDE DEF a, z
  <2> DEFINE Plain == Char \ {"sharp"}
  <2>3. \A i \in a..z : s[i] \in Plain
    BY <1>1, <2>1 DEF NoSharp
  <2>4. s \in Seq(Plain)
    <3>1. \A i \in 1..3 : s[i] \in Plain
      BY <1>1 DEF NoSharp
    <3>2. s \in [1..3 -> Plain]
      <4>1. s = [i \in 1..3 |-> s[i]]
        BY <1>1, LenProperties
      <4> QED
        BY <3>1, <4>1
    <3>3. \E n \in Nat : s \in [1..n -> Plain]
      BY <3>2
    <3> HIDE DEF Plain
    <3> QED
      BY <3>3, SeqDef
  <2> HIDE DEF Plain
  <2>5. SubSeq(s, a, z) \in Seq(Plain)
    BY <2>1, <2>3, <2>4, SubSeqProperties
  <2>6. \A i \in DOMAIN SubSeq(s, a, z) : SubSeq(s, a, z)[i] \in Plain
    BY <2>5, LenProperties
  <2> QED
    BY <2>2, <2>6 DEF NoSharp, Plain
<1> QED
  BY <1>4, <1>5

\* A code of three that is still three letters was three letters, unless one of
\* them has grown.
LEMMA LettersWereLetters ==
  ASSUME NEW s \in Seq(Char), Len(s) = 3, NoSharp(s),
         Len(Normalise(s)) = 3, \A i \in 1..3 : Normalise(s)[i] = "upper"
  PROVE  \A i \in DOMAIN s : s[i] \in Letter
<1>1. Strip(s) \in Seq(Char) /\ Len(Strip(s)) \in 0..3
  BY StripType
<1>2. NoSharp(Strip(s))
  BY StripKeepsNoSharp
<1>3. /\ Len(Strip(s)) = 3
      /\ \A i \in 1..3 : Strip(s)[i] \in Letter
  BY <1>1, <1>2, UpperOfThree DEF Normalise
<1>4. Strip(s) = s /\ DOMAIN s = 1..3
  BY <1>3, StripOfThree, LenProperties
<1> QED
  BY <1>3, <1>4

-----------------------------------------------------------------------------
(* Between the two validations.                                            *)

\* What a client posts: a string and a time.
Postable(e) ==
  /\ e.currency \in Seq(Char)
  /\ e.timestamp \in [time : Int, zone : Int \cup {Naive}]

\* What the API makes of it: capital letters, any number of them, and a time
\* in UTC.
Clean(e) ==
  /\ e \in [currency : Seq(Capital), timestamp : [time : Int, zone : {UTC}]]
  /\ \A i \in DOMAIN e.currency : e.currency[i] = "upper"

\* What is in the stream is what the API made of the body.
TakenFrom(e, b) ==
  /\ Clean(e) /\ Postable(b)
  /\ Len(b.currency) = 3 /\ e.currency = Normalise(b.currency)
  /\ ~Overflows(b.timestamp) /\ e.timestamp = ToUtc(b.timestamp)

\* What is queued was taken from the body, the worker changes nothing in it,
\* and only what is not three letters long is dead.
SchemaInv ==
  /\ stage = "posted" => Postable(body)
  /\ stage = "broken" => Postable(body) /\ Overflows(body.timestamp)
  /\ stage \in {"queued", "parsed", "dead"} => TakenFrom(event, body)
  /\ stage = "dead" => Len(event.currency) # 3

\* Whatever a client can post is a string and a time.
LEMMA EventType ==
  ASSUME NEW e \in Event
  PROVE  Postable(e)
<1>1. e.currency \in Currency /\ e.timestamp \in Timestamp
  BY DEF Event
<1>2. e.currency \in Seq(Char)
  <2>1. PICK n \in 0..MaxLength : e.currency \in [1..n -> Char]
    BY <1>1 DEF Currency
  <2>2. n \in Nat
    BY SchemaAssumption
  <2> QED
    BY <2>1, <2>2, SeqDef
<1>3. e.timestamp \in [time : Int, zone : Int \cup {Naive}]
  <2>1. /\ e.timestamp = [time |-> e.timestamp.time, zone |-> e.timestamp.zone]
        /\ e.timestamp.time \in 0..MaxTime /\ e.timestamp.zone \in Offset \cup {Naive}
    BY <1>1 DEF Timestamp
  <2>2. e.timestamp.time \in Int
    BY <2>1
  <2>3. e.timestamp.zone \in Int \cup {Naive}
    BY <2>1, SchemaAssumption, Zenon
  <2> QED
    BY <2>1, <2>2, <2>3
<1> QED
  BY <1>2, <1>3 DEF Postable

\* What the API lets pass is in capital letters and in UTC.
LEMMA ValidatedType ==
  ASSUME NEW e, Postable(e), CurrencyValid(e.currency)
  PROVE  Clean(Validated(e))
<1>1. Normalise(e.currency) \in Seq(Capital) /\ IsAlpha(Normalise(e.currency))
  BY NormaliseType DEF CurrencyValid, Postable
<1>2. ToUtc(e.timestamp) \in [time : Int, zone : {UTC}]
  <2>1. CASE e.timestamp.zone = Naive
    BY <2>1 DEF ToUtc, UTC, Postable
  <2>2. CASE e.timestamp.zone # Naive
    BY <2>2 DEF ToUtc, UTC, Postable
  <2> QED
    BY <2>1, <2>2
<1>3. \A i \in DOMAIN Normalise(e.currency) : Normalise(e.currency)[i] = "upper"
  <2>1. DOMAIN Normalise(e.currency) = 1..Len(Normalise(e.currency))
        /\ \A i \in 1..Len(Normalise(e.currency)) : Normalise(e.currency)[i] \in Capital
    BY <1>1, LenProperties
  <2> QED
    BY <1>1, <2>1 DEF IsAlpha, Letter, Capital
<1> QED
  BY <1>1, <1>2, <1>3 DEF Validated, Clean

\* A validated event that is still three letters long validates to itself.
LEMMA ValidatedStays ==
  ASSUME NEW e, Clean(e), Len(e.currency) = 3
  PROVE  CurrencyValid(e.currency) /\ Validated(e) = e
<1>1. e.currency \in Seq(Capital) /\ DOMAIN e.currency = 1..3
  <2>1. e.currency \in Seq(Capital)
    BY DEF Clean
  <2> QED
    BY <2>1, LenProperties
<1>2. Normalise(e.currency) = e.currency /\ IsAlpha(e.currency)
  BY <1>1, CapitalsStay DEF Clean
<1>3. ToUtc(e.timestamp) = e.timestamp
  <2>1. e.timestamp \in [time : Int, zone : {UTC}] /\ e.timestamp.zone # Naive
    BY SchemaAssumption DEF UTC, Clean
  <2> QED
    BY <2>1 DEF ToUtc, UTC
<1> QED
  BY <1>2, <1>3 DEF Validated, CurrencyValid, Clean

\* _to_utc keeps the instant, fails just for the instants that datetime does not
\* have, and never fails for what it returned.
LEMMA UtcIsTheInstant ==
  ASSUME NEW t \in [time : Int, zone : Int \cup {Naive}]
  PROVE  /\ ToUtc(t).zone = UTC /\ SameInstant(ToUtc(t), t)
         /\ Overflows(t) <=> ~InRange(t)
         /\ ~Overflows(t) => ~Overflows(ToUtc(t))
<1>0. MaxTime \in Nat /\ Naive \notin Int
  BY SchemaAssumption
<1>1. CASE t.zone = Naive
  BY <1>0, <1>1 DEF ToUtc, SameInstant, ZoneOf, InRange, Overflows, UTC
<1>2. CASE t.zone # Naive
  BY <1>0, <1>2 DEF ToUtc, SameInstant, ZoneOf, InRange, Overflows, UTC
<1> QED
  BY <1>1, <1>2

\* The worker's validation changes nothing.
LEMMA ParseKeeps ==
  ASSUME TakenFrom(event, body), Parse
  PROVE  event' = event
<1>1. CASE CurrencyValid(event.currency) /\ event' = Validated(event)
  BY <1>1, ValidatedStays DEF TakenFrom, CurrencyValid
<1>2. CASE UNCHANGED event
  BY <1>2
<1> QED
  BY <1>1, <1>2 DEF Parse

\* The invariant is inductive.
LEMMA SchemaInductive ==
  /\ Init => SchemaInv
  /\ SchemaInv /\ [Next]_schemaVars => SchemaInv'
<1>1. Init => SchemaInv
  BY DEF Init, SchemaInv
<1>2. SchemaInv /\ [Next]_schemaVars => SchemaInv'
  <2> SUFFICES ASSUME SchemaInv, [Next]_schemaVars PROVE SchemaInv'
    OBVIOUS
  <2>1. ASSUME NEW e \in Event, Post(e) PROVE SchemaInv'
    BY <2>1, EventType DEF Post, SchemaInv
  <2>2. CASE Judge
    <3>0. stage = "posted" /\ body' = body /\ Postable(body)
      BY <2>2 DEF Judge, SchemaInv
    <3>1. CASE stage' = "queued"
      <4>1. /\ event' = Validated(body) /\ CurrencyValid(body.currency)
            /\ ~Overflows(body.timestamp)
        BY <2>2, <3>1 DEF Judge
      <4>2. Clean(event')
        BY <3>0, <4>1, ValidatedType
      <4>3. TakenFrom(event', body')
        BY <3>0, <4>1, <4>2 DEF TakenFrom, Validated, CurrencyValid
      <4> QED
        BY <3>1, <4>3 DEF SchemaInv
    <3>2. CASE stage' = "broken"
      <4>1. Overflows(body.timestamp)
        BY <2>2, <3>2 DEF Judge
      <4> QED
        BY <3>0, <3>2, <4>1 DEF SchemaInv
    <3>3. CASE stage' = "refused"
      BY <3>3 DEF SchemaInv
    <3> QED
      BY <2>2, <3>1, <3>2, <3>3 DEF Judge
  <2>3. CASE Parse
    <3>1. /\ stage = "queued" /\ stage' \in {"parsed", "dead"} /\ body' = body
          /\ TakenFrom(event, body)
      BY <2>3 DEF Parse, SchemaInv
    <3>2. event' = event
      BY <2>3, <3>1, ParseKeeps
    <3>3. stage' = "dead" => Len(event.currency) # 3
      <4>1. stage' = "dead" => ~CurrencyValid(event.currency)
        BY <2>3 DEF Parse
      <4> QED
        BY <3>1, <4>1, ValidatedStays DEF TakenFrom
    <3> QED
      BY <3>1, <3>2, <3>3 DEF SchemaInv
  <2>4. CASE UNCHANGED schemaVars
    BY <2>4 DEF schemaVars, SchemaInv
  <2> QED
    BY <2>1, <2>2, <2>3, <2>4 DEF Next
<1> QED
  BY <1>1, <1>2

\* In every reachable state the event is what the API made of the body.
THEOREM SchemaInvariant == Spec => []SchemaInv
BY SchemaInductive, PTL DEF Spec

\* An accepted event dies in the worker for the length of its code alone.
THEOREM DiesByLengthOnly == Spec => []DeadByLengthOnly
<1>1. SchemaInv => DeadByLengthOnly
  BY DEF SchemaInv, TakenFrom, Clean, DeadByLengthOnly, Letter
<1> QED
  BY <1>1, SchemaInvariant, PTL

\* Only the API ever meets an instant that datetime does not have.
THEOREM OverflowStaysAtTheApi == Spec => []OnlyTheApiOverflows
<1>1. SchemaInv => OnlyTheApiOverflows
  <2> SUFFICES ASSUME SchemaInv PROVE OnlyTheApiOverflows
    OBVIOUS
  <2>1. stage = "broken" => ~InRange(body.timestamp)
    BY UtcIsTheInstant DEF SchemaInv, Postable
  <2>2. ASSUME stage \in {"queued", "parsed", "dead"}
        PROVE  InRange(body.timestamp) /\ ~Overflows(event.timestamp)
    BY <2>2, UtcIsTheInstant DEF SchemaInv, TakenFrom, Postable
  <2> QED
    BY <2>1, <2>2 DEF OnlyTheApiOverflows
<1> QED
  BY <1>1, SchemaInvariant, PTL

\* What the worker stores is the client's event: its instant, and its letters.
THEOREM ParsedStaysAccepted == Spec => ParsedAsAccepted
<1>1. ASSUME SchemaInv, Parse, stage' = "parsed"
      PROVE  /\ event' = event
             /\ event'.timestamp.zone = UTC /\ SameInstant(event'.timestamp, body.timestamp)
             /\ event'.currency = <<"upper", "upper", "upper">>
             /\ NoSharp(body.currency)
                  => \A i \in DOMAIN body.currency : body.currency[i] \in Letter
  <2>1. TakenFrom(event, body) /\ event' = event /\ CurrencyValid(event.currency)
    BY <1>1, ParseKeeps DEF Parse, SchemaInv
  <2>2. event.timestamp.zone = UTC /\ SameInstant(event.timestamp, body.timestamp)
    BY <2>1, UtcIsTheInstant DEF TakenFrom, Postable
  <2> DEFINE code == event.currency
  <2>3. code \in Seq(Capital) /\ Len(code) = 3 /\ \A i \in DOMAIN code : code[i] = "upper"
    BY <2>1 DEF TakenFrom, Clean, CurrencyValid
  <2>4. code = Normalise(body.currency) /\ body.currency \in Seq(Char) /\ Len(body.currency) = 3
    BY <2>1 DEF TakenFrom, Postable
  <2> HIDE DEF code
  <2>5. \A i \in 1..3 : code[i] = "upper"
    BY <2>3, LenProperties
  <2>6. code = <<"upper", "upper", "upper">>
    BY <2>3, <2>5
  <2>7. NoSharp(body.currency) => \A i \in DOMAIN body.currency : body.currency[i] \in Letter
    BY <2>3, <2>4, <2>5, LettersWereLetters
  <2> QED
    BY <2>1, <2>2, <2>6, <2>7 DEF code
<1>2. SchemaInv /\ [Next]_schemaVars => [stage = "queued" /\ stage' = "parsed" =>
       /\ event' = event
       /\ event'.timestamp.zone = UTC /\ SameInstant(event'.timestamp, body.timestamp)
       /\ event'.currency = <<"upper", "upper", "upper">>
       /\ (\A i \in DOMAIN body.currency : body.currency[i] # "sharp")
            => \A i \in DOMAIN body.currency : body.currency[i] \in Letter]_schemaVars
  <2> SUFFICES ASSUME SchemaInv, [Next]_schemaVars, stage = "queued", stage' = "parsed"
               PROVE  /\ event' = event
                      /\ event'.timestamp.zone = UTC
                      /\ SameInstant(event'.timestamp, body.timestamp)
                      /\ event'.currency = <<"upper", "upper", "upper">>
                      /\ NoSharp(body.currency)
                           => \A i \in DOMAIN body.currency : body.currency[i] \in Letter
    BY DEF NoSharp
  <2>1. Parse
    BY DEF Next, Post, Judge, schemaVars
  <2> QED
    BY <1>1, <2>1
<1> QED
  BY <1>2, SchemaInvariant, PTL DEF Spec, ParsedAsAccepted
=============================================================================
