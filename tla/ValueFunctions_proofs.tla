------------------------ MODULE ValueFunctions_proofs ------------------------
(***************************************************************************)
(* What a chain of functions makes of a value: it is a datum all along,    *)
(* contains and get agree about it, what has been added can be got, and    *)
(* clear_empty leaves what is not empty.                                   *)
(*                                                                         *)
(* Data nest to any depth.  Instead of going down, the proofs go up: d is  *)
(* a datum if there is a set of data that are made of each other, and d is *)
(* made of these.                                                          *)
(***************************************************************************)
EXTENDS ValueFunctions, SequenceTheorems, FiniteSetTheorems,
        WellFoundedInduction, TLAPS

\* Splitting gives a list.
SplitIsList ==
    \A d, char : \E n \in Nat : DOMAIN Split(Text(d), char) = 1 .. n

Closed(S) == \A d \in S : MadeOf(d, S)

IsDatum(d) == \E S : Closed(S) /\ MadeOf(d, S)

IInv ==
    /\ failed \in BOOLEAN
    /\ applied \in 0 .. MaxFunctions
    /\ IsDatum(item) \/ (failed /\ item = NoItem)

-----------------------------------------------------------------------------
(* Data.                                                                   *)

LEMMA MadeOfMore ==
    ASSUME NEW S, NEW T, S \subseteq T, NEW d, MadeOf(d, S)
    PROVE  MadeOf(d, T)
<1>1. CASE IsValue(d)
    BY <1>1 DEF MadeOf
<1>2. CASE IsArray(d) /\ d[2] \in Seq(S)
    <2>1. d[2] \in Seq(T)
        BY <1>2, SeqMonotonic
    <2> QED
        BY <1>2, <2>1 DEF MadeOf
<1>3. CASE /\ IsMap(d)
           /\ d[2] = [k \in DOMAIN d[2] |-> d[2][k]]
           /\ \A k \in DOMAIN d[2] : d[2][k] \in S
    BY <1>3 DEF MadeOf
<1> QED
    BY <1>1, <1>2, <1>3 DEF MadeOf

LEMMA ClosedTogether ==
    ASSUME NEW S, NEW T, Closed(S), Closed(T)
    PROVE  Closed(S \cup T)
<1> SUFFICES ASSUME NEW d \in S \cup T
             PROVE  MadeOf(d, S \cup T)
    BY DEF Closed
<1>1. CASE d \in S
    BY <1>1, MadeOfMore DEF Closed
<1>2. CASE d \in T
    BY <1>2, MadeOfMore DEF Closed
<1> QED
    BY <1>1, <1>2

\* With a datum, what it is made of can be extended by itself.
LEMMA ClosedWith ==
    ASSUME NEW S, Closed(S), NEW d, MadeOf(d, S)
    PROVE  Closed(S \cup {d})
<1> SUFFICES ASSUME NEW e \in S \cup {d}
             PROVE  MadeOf(e, S \cup {d})
    BY DEF Closed
<1>1. MadeOf(e, S)
    BY DEF Closed
<1> QED
    BY <1>1, MadeOfMore

LEMMA ValuesAreData ==
    ASSUME NEW d, IsValue(d)
    PROVE  IsDatum(d)
<1>1. Closed({})
    BY DEF Closed
<1>2. MadeOf(d, {})
    BY DEF MadeOf
<1> QED
    BY <1>1, <1>2 DEF IsDatum

LEMMA DatumIsDatum ==
    ASSUME NEW d \in Datum
    PROVE  IsDatum(d)
<1>1. Closed(Datum) /\ MadeOf(d, Datum)
    BY DatumAssumption DEF Closed
<1> QED
    BY <1>1 DEF IsDatum

LEMMA PartIsDatum ==
    ASSUME NEW S, Closed(S), NEW d \in S
    PROVE  IsDatum(d)
<1>1. MadeOf(d, S)
    BY DEF Closed
<1> QED
    BY <1>1 DEF IsDatum

\* Each datum has one type, and an array is a sequence.
LEMMA KindsOfData ==
    ASSUME NEW d, IsDatum(d)
    PROVE  /\ IsMap(d) \/ IsArray(d) \/ IsValue(d)
           /\ d # NoItem
           /\ IsArray(d) => /\ ~IsMap(d) /\ ~IsValue(d)
                            /\ Len(d[2]) \in Nat /\ DOMAIN d[2] = 1 .. Len(d[2])
           /\ IsMap(d) => ~IsArray(d) /\ ~IsValue(d)
<1>1. PICK S : Closed(S) /\ MadeOf(d, S)
    BY DEF IsDatum
<1>2. IsMap(d) \/ IsArray(d) \/ IsValue(d)
    BY <1>1 DEF MadeOf
<1>3. d # NoItem
    BY <1>2 DEF NoItem, IsMap, IsArray, IsValue, TypeOf
<1>4. IsArray(d) => ~IsMap(d) /\ ~IsValue(d)
    BY DEF IsMap, IsArray, IsValue, TypeOf
<1>5. IsMap(d) => ~IsArray(d) /\ ~IsValue(d)
    BY DEF IsMap, IsArray, IsValue, TypeOf
<1>6. IsArray(d) => d[2] \in Seq(S)
    BY <1>1, <1>4 DEF MadeOf
<1>7. IsArray(d) => Len(d[2]) \in Nat /\ DOMAIN d[2] = 1 .. Len(d[2])
    BY <1>6, LenProperties
<1> QED
    BY <1>2, <1>3, <1>4, <1>5, <1>7

LEMMA ElementsAreData ==
    ASSUME NEW d, IsDatum(d), IsArray(d), NEW i \in 1 .. Len(d[2])
    PROVE  IsDatum(d[2][i])
<1>1. PICK S : Closed(S) /\ MadeOf(d, S)
    BY DEF IsDatum
<1>2. d[2] \in Seq(S)
    BY <1>1, KindsOfData DEF MadeOf
<1>3. d[2][i] \in S
    BY <1>2, ElementOfSeq
<1> QED
    BY <1>1, <1>3, PartIsDatum

LEMMA EntriesAreData ==
    ASSUME NEW d, IsDatum(d), IsMap(d), NEW k \in DOMAIN d[2]
    PROVE  IsDatum(d[2][k])
<1>1. PICK S : Closed(S) /\ MadeOf(d, S)
    BY DEF IsDatum
<1>2. d[2][k] \in S
    BY <1>1, KindsOfData DEF MadeOf
<1> QED
    BY <1>1, <1>2, PartIsDatum

-----------------------------------------------------------------------------
(* The functions.                                                          *)

LEMMA GetIsDatum ==
    ASSUME NEW d, IsDatum(d), NEW key, GetValue(d, key) # NoItem
    PROVE  IsDatum(GetValue(d, key))
<1>1. CASE IsValue(key) /\ IsMap(d) /\ Text(key) \in DOMAIN d[2]
    <2>1. GetValue(d, key) = d[2][Text(key)]
        BY <1>1, KindsOfData DEF GetValue
    <2> QED
        BY <1>1, <2>1, EntriesAreData
<1>2. CASE TypeOf(key) = "int" /\ IsArray(d) /\ key[2] \in 0 .. Len(d[2]) - 1
    <2>1. GetValue(d, key) = d[2][key[2] + 1]
        BY <1>2, KindsOfData DEF GetValue
    <2>2. key[2] + 1 \in 1 .. Len(d[2])
        BY <1>2, KindsOfData
    <2> QED
        BY <1>2, <2>1, <2>2, ElementsAreData
<1>3. CASE /\ ~(IsValue(key) /\ IsMap(d) /\ Text(key) \in DOMAIN d[2])
           /\ ~(TypeOf(key) = "int" /\ IsArray(d)
                    /\ key[2] \in 0 .. Len(d[2]) - 1)
    BY <1>3 DEF GetValue
<1> QED
    BY <1>1, <1>2, <1>3

LEMMA SplitIsDatum ==
    ASSUME SplitIsList, NEW d, NEW key, SplitValue(d, key) # NoItem
    PROVE  IsDatum(SplitValue(d, key))
<1> DEFINE char == IF Text(key) = EscapedLineBreak THEN LineBreak
                   ELSE Head(Text(key))
           pieces == Split(Text(d), char)
           array == [i \in DOMAIN pieces |-> <<"str", pieces[i]>>]
           S == {<<"str", pieces[i]>> : i \in DOMAIN pieces}
<1>1. SplitValue(d, key) = <<"arr", array>>
    BY DEF SplitValue
<1>2. PICK n \in Nat : DOMAIN pieces = 1 .. n
    BY DEF SplitIsList
<1>3. Closed(S)
    BY DEF Closed, MadeOf, IsValue, TypeOf
<1>4. array \in [1 .. n -> S]
    BY <1>2
<1>5. array \in Seq(S)
    BY <1>4, SeqDef
<1>6. MadeOf(<<"arr", array>>, S)
    BY <1>5 DEF MadeOf, IsArray, TypeOf
<1> QED
    BY <1>1, <1>3, <1>6 DEF IsDatum

LEMMA SizeIsDatum ==
    ASSUME NEW d
    PROVE  IsDatum(SizeValue(d))
BY ValuesAreData DEF SizeValue, IsValue, TypeOf

LEMMA ContainsIsDatum ==
    ASSUME NEW d, NEW key, ContainsValue(d, key) # NoItem
    PROVE  IsDatum(ContainsValue(d, key))
<1> DEFINE found == CASE IsMap(d) -> Text(key) \in DOMAIN d[2]
                      [] IsArray(d) -> \E x \in ToSet(d[2]) : Text(x) = Text(key)
                      [] OTHER -> Within(Text(d), Text(key))
<1>1. ContainsValue(d, key) = Bool(found)
    BY DEF ContainsValue
<1> HIDE DEF found
<1>2. IsValue(Bool(found))
    BY DEF Bool, IsValue, TypeOf
<1> QED
    BY <1>1, <1>2, ValuesAreData

LEMMA AppendIsDatum ==
    ASSUME NEW d, IsDatum(d), NEW value, IsDatum(value),
           AppendValue(d, value) # NoItem
    PROVE  IsDatum(AppendValue(d, value))
<1>1. IsArray(d) /\ AppendValue(d, value) = <<"arr", Append(d[2], value)>>
    BY DEF AppendValue
<1>2. PICK S : Closed(S) /\ MadeOf(d, S)
    BY DEF IsDatum
<1>3. PICK T : Closed(T) /\ MadeOf(value, T)
    BY DEF IsDatum
<1> DEFINE U == S \cup (T \cup {value})
<1>4. Closed(U)
    BY <1>2, <1>3, ClosedWith, ClosedTogether
<1>5. d[2] \in Seq(U)
    <2>1. d[2] \in Seq(S)
        BY <1>1, <1>2, KindsOfData DEF MadeOf
    <2> QED
        BY <2>1, SeqMonotonic
<1>6. Append(d[2], value) \in Seq(U)
    BY <1>5, AppendProperties
<1>7. MadeOf(<<"arr", Append(d[2], value)>>, U)
    BY <1>6 DEF MadeOf, IsArray, TypeOf
<1> QED
    BY <1>1, <1>4, <1>7 DEF IsDatum

LEMMA InsertIsDatum ==
    ASSUME NEW d, IsDatum(d), NEW key, NEW value, IsDatum(value),
           InsertValue(d, key, value) # NoItem
    PROVE  IsDatum(InsertValue(d, key, value))
<1> DEFINE map == [k \in DOMAIN d[2] \cup {Text(key)} |->
                      IF k = Text(key) THEN value ELSE d[2][k]]
<1>1. IsMap(d) /\ InsertValue(d, key, value) = <<"map", map>>
    BY DEF InsertValue
<1>2. PICK S : Closed(S) /\ MadeOf(d, S)
    BY DEF IsDatum
<1>3. PICK T : Closed(T) /\ MadeOf(value, T)
    BY DEF IsDatum
<1> DEFINE U == S \cup (T \cup {value})
<1>4. Closed(U)
    BY <1>2, <1>3, ClosedWith, ClosedTogether
<1>5. \A k \in DOMAIN d[2] : d[2][k] \in S
    BY <1>1, <1>2, KindsOfData DEF MadeOf
<1>6. \A k \in DOMAIN map : map[k] \in U
    BY <1>5
<1>7. map = [k \in DOMAIN map |-> map[k]]
    OBVIOUS
<1> HIDE DEF map, U
<1>8. MadeOf(<<"map", map>>, U)
    BY <1>6, <1>7 DEF MadeOf, IsMap, TypeOf
<1> QED
    BY <1>1, <1>4, <1>8 DEF IsDatum

LEMMA ParseIsDatum ==
    ASSUME NEW d, ParseJson(d) # NoItem
    PROVE  IsDatum(ParseJson(d))
<1>1. ParseJson(d) \in Datum
    BY DatumAssumption DEF ParseJson
<1> QED
    BY <1>1, DatumIsDatum

-----------------------------------------------------------------------------
(* The loop of clear_empty.                                                *)

LEMMA IndexIs ==
    ASSUME NEW n \in Int
    PROVE  /\ Index(n) \in 0 .. IndexRange - 1
           /\ n \in 0 .. IndexRange - 1 => Index(n) = n
           /\ n \in 0 .. IndexRange - 1 => Index(Index(n - 1) + 1) = n
<1> USE BoundAssumption DEF Index
<1>1. Index(n) \in 0 .. IndexRange - 1
    OBVIOUS
<1>2. ASSUME NEW m \in 0 .. IndexRange - 1
      PROVE  m % IndexRange = m
    OBVIOUS
<1>3. ASSUME n = 0
      PROVE  Index(Index(n - 1) + 1) = n
    <2>1. (-1) % IndexRange = IndexRange - 1
        OBVIOUS
    <2>2. IndexRange % IndexRange = 0
        OBVIOUS
    <2> QED
        BY <1>3, <2>1, <2>2
<1> QED
    BY <1>1, <1>2, <1>3

LEMMA LeastExists ==
    ASSUME NEW S, S # {}, S \subseteq Nat
    PROVE  \E x \in S : \A y \in S : x <= y
<1>1. PICK x \in S : \A y \in S : <<y, x>> \notin OpToRel(<, Nat)
    BY NatLessThanWellFounded, WFMin, Zenon
<1>2. \A y \in S : ~(y < x)
    BY <1>1 DEF OpToRel
<1> QED
    BY <1>2

LEMMA InductionOnSets ==
    ASSUME NEW S, 0 \in S, \A n \in Nat : n \in S => n + 1 \in S
    PROVE  \A n \in Nat : n \in S
<1>1. SUFFICES ASSUME Nat \ S # {}
               PROVE  FALSE
    OBVIOUS
<1>2. PICK n \in Nat \ S : \A m \in Nat \ S : n <= m
    BY <1>1, LeastExists
<1>3. n - 1 \in Nat /\ n - 1 \notin Nat \ S
    BY <1>2
<1> QED
    BY <1>2, <1>3

IsRounds(f, array, N) ==
    f = [n \in 0 .. N |->
            IF n = 0 THEN [array |-> array, i |-> 0] ELSE NextRound(f[n - 1])]

\* The rounds are those of the definition: functions with this recursion exist.
LEMMA RoundsAre ==
    ASSUME NEW array, Len(array) \in Nat
    PROVE  IsRounds(Rounds(array), array, Len(array))
<1> DEFINE S == {N \in Nat : \E f : IsRounds(f, array, N)}
<1>1. 0 \in S
    <2> DEFINE f == [n \in 0 .. 0 |-> [array |-> array, i |-> 0]]
    <2>1. IsRounds(f, array, 0)
        BY DEF IsRounds
    <2> QED
        BY <2>1
<1>2. ASSUME NEW N \in Nat, N \in S
      PROVE  N + 1 \in S
    <2>1. PICK f : IsRounds(f, array, N)
        BY <1>2
    <2> DEFINE g == [n \in 0 .. N + 1 |->
                        IF n = 0 THEN [array |-> array, i |-> 0]
                        ELSE NextRound(f[n - 1])]
    <2>2. \A n \in 0 .. N : g[n] = f[n]
        BY <2>1 DEF IsRounds
    <2>3. /\ DOMAIN g = 0 .. N + 1
          /\ g = [n \in DOMAIN g |-> g[n]]
          /\ g[0] = [array |-> array, i |-> 0]
          /\ \A n \in 1 .. N + 1 : g[n] = NextRound(f[n - 1])
        OBVIOUS
    <2> HIDE DEF g
    <2>4. g = [n \in 0 .. N + 1 |->
                IF n = 0 THEN [array |-> array, i |-> 0]
                ELSE NextRound(g[n - 1])]
        <3>1. \A n \in 1 .. N + 1 : n - 1 \in 0 .. N
            OBVIOUS
        <3>2. \A n \in 1 .. N + 1 : g[n] = NextRound(g[n - 1])
            BY <2>2, <2>3, <3>1
        <3> QED
            BY <2>3, <3>2
    <2>5. IsRounds(g, array, N + 1)
        BY <2>4 DEF IsRounds
    <2> QED
        BY <2>5
<1>3. PICK f : IsRounds(f, array, Len(array))
    <2> HIDE DEF S
    <2>1. Len(array) \in S
        BY <1>1, <1>2, InductionOnSets
    <2> QED
        BY <2>1 DEF S
<1>4. Rounds(array) = CHOOSE r : IsRounds(r, array, Len(array))
    BY DEF Rounds, IsRounds
<1> QED
    BY <1>3, <1>4

LEMMA RoundByRound ==
    ASSUME NEW array, Len(array) \in Nat
    PROVE  /\ Rounds(array)[0] = [array |-> array, i |-> 0]
           /\ \A n \in 0 .. Len(array) - 1 :
                Rounds(array)[n + 1] = NextRound(Rounds(array)[n])
<1> DEFINE r == Rounds(array)
<1>1. r = [n \in 0 .. Len(array) |->
            IF n = 0 THEN [array |-> array, i |-> 0] ELSE NextRound(r[n - 1])]
    BY RoundsAre DEF IsRounds
<1> HIDE DEF r
<1>2. r[0] = [array |-> array, i |-> 0]
    BY <1>1
<1>3. ASSUME NEW n \in 0 .. Len(array) - 1
      PROVE  r[n + 1] = NextRound(r[n])
    BY <1>1
<1> QED
    BY <1>2, <1>3 DEF r

LEMMA RemovedAt ==
    ASSUME NEW S, NEW s \in Seq(S), NEW i \in 1 .. Len(s)
    PROVE  /\ RemoveAt(s, i) \in Seq(S)
           /\ Len(RemoveAt(s, i)) = Len(s) - 1
           /\ \A j \in 1 .. i - 1 : RemoveAt(s, i)[j] = s[j]
           /\ \A j \in i .. Len(s) - 1 : RemoveAt(s, i)[j] = s[j + 1]
<1> DEFINE a == SubSeq(s, 1, i - 1)
           b == SubSeq(s, i + 1, Len(s))
<1>1. Len(s) \in Nat /\ \A j \in 1 .. Len(s) : s[j] \in S
    BY LenProperties, ElementOfSeq
<1>2. /\ a \in Seq(S) /\ Len(a) = i - 1
      /\ \A j \in 1 .. i - 1 : a[j] = s[j]
    <2>1. /\ a \in Seq(S)
          /\ Len(a) = IF 1 <= i - 1 THEN i - 1 - 1 + 1 ELSE 0
          /\ \A j \in 1 .. i - 1 - 1 + 1 : a[j] = s[1 + j - 1]
        BY <1>1, SubSeqProperties
    <2> HIDE DEF a
    <2> QED
        BY <2>1, <1>1
<1>3. /\ b \in Seq(S) /\ Len(b) = Len(s) - i
      /\ \A j \in 1 .. Len(s) - i : b[j] = s[i + j]
    <2>1. /\ b \in Seq(S)
          /\ Len(b) = IF i + 1 <= Len(s) THEN Len(s) - (i + 1) + 1 ELSE 0
          /\ \A j \in 1 .. Len(s) - (i + 1) + 1 : b[j] = s[i + 1 + j - 1]
        BY <1>1, SubSeqProperties
    <2> HIDE DEF b
    <2> QED
        BY <2>1, <1>1
<1>4. RemoveAt(s, i) = a \o b
    BY DEF RemoveAt
<1> HIDE DEF a, b
<1>5. /\ a \o b \in Seq(S) /\ Len(a \o b) = Len(a) + Len(b)
      /\ \A j \in 1 .. Len(a) + Len(b) :
            (a \o b)[j] = IF j <= Len(a) THEN a[j] ELSE b[j - Len(a)]
    BY <1>2, <1>3, ConcatProperties
<1>6. ASSUME NEW j \in i .. Len(s) - 1
      PROVE  (a \o b)[j] = s[j + 1]
    <2>1. j - Len(a) \in 1 .. Len(s) - i /\ j > Len(a)
        BY <1>1, <1>2
    <2>2. (a \o b)[j] = b[j - Len(a)]
        BY <2>1, <1>1, <1>2, <1>3, <1>5
    <2>3. b[j - Len(a)] = s[i + (j - Len(a))]
        BY <2>1, <1>3
    <2>4. i + (j - Len(a)) = j + 1
        BY <1>1, <1>2
    <2> QED
        BY <2>2, <2>3, <2>4
<1>7. ASSUME NEW j \in 1 .. i - 1
      PROVE  (a \o b)[j] = s[j]
    BY <1>1, <1>2, <1>3, <1>5
<1> QED
    BY <1>1, <1>2, <1>3, <1>4, <1>5, <1>6, <1>7

LEMMA NextRoundIs ==
    ASSUME NEW a, NEW i, NEW s, s = [array |-> a, i |-> i]
    PROVE  /\ ~(i < Len(a)) => NextRound(s) = s
           /\ i < Len(a) /\ Text(a[i + 1]) = <<>> =>
                NextRound(s) = [array |-> RemoveAt(a, i + 1),
                                i |-> Index(Index(i - 1) + 1)]
           /\ i < Len(a) /\ Text(a[i + 1]) # <<>> =>
                NextRound(s) = [array |-> a, i |-> Index(i + 1)]
BY DEF NextRound, RemoveIfEmpty

IsRoundOf(s, S) ==
    /\ s = [array |-> s.array, i |-> s.i]
    /\ s.array \in Seq(S)
    /\ s.i \in Nat

LEMMA RoundsKeepTheirShape ==
    ASSUME NEW S, NEW array \in Seq(S)
    PROVE  \A n \in 0 .. Len(array) : IsRoundOf(Rounds(array)[n], S)
<1>0. Len(array) \in Nat
    BY LenProperties
<1> DEFINE r == Rounds(array)
           T == {n \in Nat : n <= Len(array) => IsRoundOf(r[n], S)}
<1>1. 0 \in T
    <2>1. r[0] = [array |-> array, i |-> 0]
        BY <1>0, RoundByRound
    <2>2. IsRoundOf(r[0], S)
        BY <2>1 DEF IsRoundOf
    <2> QED
        BY <2>2
<1>2. ASSUME NEW n \in Nat, n \in T
      PROVE  n + 1 \in T
    <2> SUFFICES ASSUME n + 1 <= Len(array)
                 PROVE  IsRoundOf(r[n + 1], S)
        OBVIOUS
    <2>0. n \in 0 .. Len(array) - 1
        BY <1>0
    <2>1. r[n + 1] = NextRound(r[n])
        BY <1>0, <2>0, RoundByRound
    <2>2. IsRoundOf(r[n], S)
        BY <1>0, <1>2
    <2> DEFINE a == r[n].array
               i == r[n].i
    <2>3. /\ r[n] = [array |-> a, i |-> i]
          /\ a \in Seq(S) /\ i \in Nat /\ Len(a) \in Nat
        BY <2>2, LenProperties DEF IsRoundOf
    <2> HIDE DEF a, i, r
    <2>4. CASE ~(i < Len(a))
        BY <2>1, <2>2, <2>3, <2>4, NextRoundIs
    <2>5. CASE i < Len(a) /\ Text(a[i + 1]) = <<>>
        <3>1. r[n + 1] = [array |-> RemoveAt(a, i + 1),
                          i |-> Index(Index(i - 1) + 1)]
            BY <2>1, <2>3, <2>5, NextRoundIs
        <3>2. RemoveAt(a, i + 1) \in Seq(S)
            BY <2>3, <2>5, RemovedAt
        <3>3. Index(Index(i - 1) + 1) \in Nat
            <4>1. Index(i - 1) + 1 \in Int
                BY <2>3, IndexIs
            <4> QED
                BY <4>1, IndexIs
        <3> QED
            BY <3>1, <3>2, <3>3 DEF IsRoundOf
    <2>6. CASE i < Len(a) /\ Text(a[i + 1]) # <<>>
        <3>1. r[n + 1] = [array |-> a, i |-> Index(i + 1)]
            BY <2>1, <2>3, <2>6, NextRoundIs
        <3>2. Index(i + 1) \in Nat
            <4>1. i + 1 \in Int
                BY <2>3
            <4> QED
                BY <4>1, IndexIs
        <3> QED
            BY <2>3, <3>1, <3>2 DEF IsRoundOf
    <2> QED
        BY <2>4, <2>5, <2>6
<1>3. \A n \in Nat : n \in T
    <2> HIDE DEF T
    <2> QED
        BY <1>1, <1>2, InductionOnSets
<1> QED
    BY <1>0, <1>3

LEMMA ClearIsDatum ==
    ASSUME NEW d, IsDatum(d), ClearEmpty(d) # NoItem
    PROVE  IsDatum(ClearEmpty(d))
<1> DEFINE cleared == Rounds(d[2])[Len(d[2])].array
<1>1. IsArray(d) /\ ClearEmpty(d) = <<"arr", cleared>>
    BY DEF ClearEmpty
<1>2. PICK S : Closed(S) /\ MadeOf(d, S)
    BY DEF IsDatum
<1>3. d[2] \in Seq(S) /\ Len(d[2]) \in Nat
    BY <1>1, <1>2, KindsOfData DEF MadeOf
<1>4. cleared \in Seq(S)
    <2>1. IsRoundOf(Rounds(d[2])[Len(d[2])], S)
        BY <1>3, RoundsKeepTheirShape
    <2> QED
        BY <2>1 DEF IsRoundOf
<1> HIDE DEF cleared
<1>5. MadeOf(<<"arr", cleared>>, S)
    BY <1>4 DEF MadeOf, IsArray, TypeOf
<1> QED
    BY <1>1, <1>2, <1>5 DEF IsDatum

\* Counting the places that keep their elements.
LEMMA KeptCount ==
    ASSUME NEW array, NEW n \in Nat
    PROVE  /\ Cardinality(Kept(array, 0)) = 0
           /\ Cardinality(Kept(array, n)) \in 0 .. n
           /\ Text(array[n + 1]) = <<>> =>
                /\ Kept(array, n + 1) = Kept(array, n)
                /\ Cardinality(Kept(array, n + 1)) = Cardinality(Kept(array, n))
           /\ Text(array[n + 1]) # <<>> =>
                /\ Kept(array, n + 1) = Kept(array, n) \cup {n + 1}
                /\ Cardinality(Kept(array, n + 1))
                        = Cardinality(Kept(array, n)) + 1
           /\ \A j \in Kept(array, n) :
                Cardinality(Kept(array, j)) \in 1 .. Cardinality(Kept(array, n))
<1>1. \A m \in Nat : IsFiniteSet(1 .. m) /\ Cardinality(1 .. m) = m
    BY FS_Interval
<1>2. ASSUME NEW m \in Nat
      PROVE  /\ IsFiniteSet(Kept(array, m))
             /\ Cardinality(Kept(array, m)) \in 0 .. m
    <2>1. Kept(array, m) \subseteq 1 .. m
        BY DEF Kept
    <2>2. /\ IsFiniteSet(Kept(array, m))
          /\ Cardinality(Kept(array, m)) <= Cardinality(1 .. m)
        BY <2>1, <1>1, FS_Subset
    <2>3. Cardinality(Kept(array, m)) \in Nat
        BY <2>2, FS_CardinalityType
    <2> QED
        BY <2>2, <2>3, <1>1
<1>3. Cardinality(Kept(array, 0)) = 0
    BY <1>2
<1>4. ASSUME Text(array[n + 1]) = <<>>
      PROVE  Kept(array, n + 1) = Kept(array, n)
    BY <1>4 DEF Kept
<1>5. ASSUME Text(array[n + 1]) # <<>>
      PROVE  /\ Kept(array, n + 1) = Kept(array, n) \cup {n + 1}
             /\ Cardinality(Kept(array, n + 1)) = Cardinality(Kept(array, n)) + 1
    <2>1. /\ Kept(array, n + 1) = Kept(array, n) \cup {n + 1}
          /\ n + 1 \notin Kept(array, n)
        BY <1>5 DEF Kept
    <2>2. Cardinality(Kept(array, n) \cup {n + 1})
                = Cardinality(Kept(array, n)) + 1
        BY <2>1, <1>2, FS_AddElement
    <2> QED
        BY <2>1, <2>2
<1>6. ASSUME NEW j \in Kept(array, n)
      PROVE  Cardinality(Kept(array, j)) \in 1 .. Cardinality(Kept(array, n))
    <2>1. /\ j \in Nat /\ j <= n
          /\ j \in Kept(array, j)
          /\ Kept(array, j) \subseteq Kept(array, n)
        BY DEF Kept
    <2>2. Cardinality(Kept(array, j)) <= Cardinality(Kept(array, n))
        BY <2>1, <1>2, FS_Subset
    <2>3. Cardinality(Kept(array, j)) # 0
        BY <2>1, <1>2, FS_EmptySet
    <2> QED
        BY <2>1, <2>2, <2>3, <1>2
<1> QED
    BY <1>2, <1>3, <1>4, <1>5, <1>6

\* The state of the loop when it has looked at n elements, unless the index is
\* too small to count them: what is kept of these, in their order, then the
\* rest, and the index between them.
Filtered(s, array, n) ==
    LET kept == Cardinality(Kept(array, n))
    IN /\ s.i = kept
       /\ Len(s.array) = kept + Len(array) - n
       /\ \A j \in Kept(array, n) :
            s.array[Cardinality(Kept(array, j))] = array[j]
       /\ \A j \in n + 1 .. Len(array) : s.array[kept + j - n] = array[j]

LEMMA EmptyIsDropped ==
    ASSUME NEW S, NEW array \in Seq(S), Len(array) < IndexRange,
           NEW n \in 0 .. Len(array) - 1,
           NEW s, IsRoundOf(s, S), Filtered(s, array, n),
           Text(array[n + 1]) = <<>>
    PROVE  Filtered(NextRound(s), array, n + 1)
<1> DEFINE kept == Cardinality(Kept(array, n))
           a == s.array
           b == RemoveAt(a, kept + 1)
<1>1. n \in Nat /\ Len(array) \in Nat /\ n < Len(array)
    BY LenProperties
<1>2. kept \in 0 .. n
    BY <1>1, KeptCount
<1>3. Kept(array, n + 1) = Kept(array, n)
    BY <1>1, KeptCount
<1>4. /\ a \in Seq(S) /\ s = [array |-> a, i |-> kept]
      /\ Len(a) = kept + Len(array) - n
      /\ \A j \in Kept(array, n) : a[Cardinality(Kept(array, j))] = array[j]
      /\ \A j \in n + 1 .. Len(array) : a[kept + j - n] = array[j]
    BY DEF IsRoundOf, Filtered
<1>5. \A j \in Kept(array, n) : Cardinality(Kept(array, j)) \in 1 .. kept
    BY <1>1, KeptCount
<1> HIDE DEF kept, a
<1>6. kept < Len(a) /\ kept + 1 \in 1 .. Len(a)
    BY <1>1, <1>2, <1>4
<1>7. a[kept + 1] = array[n + 1]
    <2>1. n + 1 \in n + 1 .. Len(array) /\ kept + (n + 1) - n = kept + 1
        BY <1>1, <1>2
    <2>2. a[kept + (n + 1) - n] = array[n + 1]
        BY <1>4, <2>1
    <2> QED
        BY <2>1, <2>2
<1>8. Index(Index(kept - 1) + 1) = kept
    <2>1. kept \in Int /\ kept \in 0 .. IndexRange - 1
        BY <1>1, <1>2, BoundAssumption
    <2> QED
        BY <2>1, IndexIs
<1>9. NextRound(s) = [array |-> b, i |-> kept]
    BY <1>4, <1>6, <1>7, <1>8, NextRoundIs
<1>10. /\ b \in Seq(S) /\ Len(b) = Len(a) - 1
       /\ \A j \in 1 .. kept : b[j] = a[j]
       /\ \A j \in kept + 1 .. Len(a) - 1 : b[j] = a[j + 1]
    <2> DEFINE p == kept + 1
    <2>1. p \in 1 .. Len(a) /\ p - 1 = kept
        BY <1>2, <1>6
    <2> HIDE DEF p
    <2>2. /\ RemoveAt(a, p) \in Seq(S)
          /\ Len(RemoveAt(a, p)) = Len(a) - 1
          /\ \A j \in 1 .. p - 1 : RemoveAt(a, p)[j] = a[j]
          /\ \A j \in p .. Len(a) - 1 : RemoveAt(a, p)[j] = a[j + 1]
        BY <1>4, <2>1, RemovedAt
    <2> USE DEF p
    <2> QED
        BY <2>2, <2>1
<1> HIDE DEF b
<1>11. Len(b) = kept + Len(array) - (n + 1)
    BY <1>1, <1>2, <1>4, <1>10
<1>12. \A j \in Kept(array, n) : b[Cardinality(Kept(array, j))] = array[j]
    BY <1>4, <1>5, <1>10
<1>13. ASSUME NEW j \in n + 2 .. Len(array)
       PROVE  b[kept + j - (n + 1)] = array[j]
    <2>0. j \in Int /\ n + 2 <= j /\ j <= Len(array) /\ kept \in Int
        BY <1>1, <1>2
    <2>1. /\ j \in n + 1 .. Len(array)
          /\ kept + j - (n + 1) \in kept + 1 .. Len(a) - 1
          /\ kept + j - (n + 1) + 1 = kept + j - n
        BY <2>0, <1>1, <1>4
    <2>2. b[kept + j - (n + 1)] = a[kept + j - (n + 1) + 1]
        BY <1>10, <2>1
    <2>3. a[kept + j - n] = array[j]
        BY <1>4, <2>1
    <2> QED
        BY <2>1, <2>2, <2>3
<1>14. n + 1 + 1 = n + 2
    BY <1>1
<1> QED
    BY <1>3, <1>9, <1>11, <1>12, <1>13, <1>14 DEF Filtered, kept

LEMMA OtherIsKept ==
    ASSUME NEW S, NEW array \in Seq(S), Len(array) < IndexRange,
           NEW n \in 0 .. Len(array) - 1,
           NEW s, IsRoundOf(s, S), Filtered(s, array, n),
           Text(array[n + 1]) # <<>>
    PROVE  Filtered(NextRound(s), array, n + 1)
<1> DEFINE kept == Cardinality(Kept(array, n))
           a == s.array
<1>1. n \in Nat /\ Len(array) \in Nat /\ n < Len(array)
    BY LenProperties
<1>2. kept \in 0 .. n
    BY <1>1, KeptCount
<1>3. /\ Kept(array, n + 1) = Kept(array, n) \cup {n + 1}
      /\ Cardinality(Kept(array, n + 1)) = kept + 1
    BY <1>1, KeptCount
<1>4. /\ s = [array |-> a, i |-> kept]
      /\ Len(a) = kept + Len(array) - n
      /\ \A j \in Kept(array, n) : a[Cardinality(Kept(array, j))] = array[j]
      /\ \A j \in n + 1 .. Len(array) : a[kept + j - n] = array[j]
    BY DEF IsRoundOf, Filtered
<1> HIDE DEF kept, a
<1>5. kept < Len(a)
    BY <1>1, <1>2, <1>4
<1>6. a[kept + 1] = array[n + 1]
    <2>1. n + 1 \in n + 1 .. Len(array) /\ kept + (n + 1) - n = kept + 1
        BY <1>1, <1>2
    <2>2. a[kept + (n + 1) - n] = array[n + 1]
        BY <1>4, <2>1
    <2> QED
        BY <2>1, <2>2
<1>7. Index(kept + 1) = kept + 1
    <2>1. kept + 1 \in Int /\ kept + 1 \in 0 .. IndexRange - 1
        BY <1>1, <1>2, BoundAssumption
    <2> QED
        BY <2>1, IndexIs
<1>8. NextRound(s) = [array |-> a, i |-> kept + 1]
    BY <1>4, <1>5, <1>6, <1>7, NextRoundIs
<1>9. Len(a) = kept + 1 + Len(array) - (n + 1)
    BY <1>1, <1>2, <1>4
<1>10. \A j \in Kept(array, n + 1) : a[Cardinality(Kept(array, j))] = array[j]
    BY <1>3, <1>4, <1>6
<1>11. ASSUME NEW j \in n + 1 + 1 .. Len(array)
       PROVE  a[kept + 1 + j - (n + 1)] = array[j]
    <2>1. j \in n + 1 .. Len(array) /\ kept + 1 + j - (n + 1) = kept + j - n
        BY <1>1, <1>2
    <2> QED
        BY <1>4, <2>1
<1> QED
    BY <1>3, <1>8, <1>9, <1>10, <1>11 DEF Filtered

LEMMA RoundsFilter ==
    ASSUME NEW S, NEW array \in Seq(S), Len(array) < IndexRange
    PROVE  \A n \in 0 .. Len(array) : Filtered(Rounds(array)[n], array, n)
<1> DEFINE r == Rounds(array)
           T == {n \in Nat : n <= Len(array) => Filtered(r[n], array, n)}
<1>1. Len(array) \in Nat
    BY LenProperties
<1>2. 0 \in T
    <2>1. r[0] = [array |-> array, i |-> 0]
        BY <1>1, RoundByRound
    <2>2. Cardinality(Kept(array, 0)) = 0 /\ Kept(array, 0) = {}
        <3>1. Kept(array, 0) = {}
            BY DEF Kept
        <3> QED
            BY <3>1, FS_EmptySet
    <2>3. \A j \in 1 .. Len(array) : 0 + j - 0 = j
        OBVIOUS
    <2>4. Filtered(r[0], array, 0)
        BY <1>1, <2>1, <2>2, <2>3 DEF Filtered
    <2> QED
        BY <2>4
<1>3. ASSUME NEW n \in Nat, n \in T
      PROVE  n + 1 \in T
    <2> SUFFICES ASSUME n + 1 <= Len(array)
                 PROVE  Filtered(r[n + 1], array, n + 1)
        OBVIOUS
    <2>1. n \in 0 .. Len(array) - 1 /\ n \in 0 .. Len(array)
        BY <1>1
    <2>2. r[n + 1] = NextRound(r[n])
        BY <1>1, <2>1, RoundByRound
    <2>3. IsRoundOf(r[n], S)
        BY <2>1, RoundsKeepTheirShape
    <2>4. Filtered(r[n], array, n)
        BY <1>3, <2>1
    <2> HIDE DEF r
    <2>5. Filtered(NextRound(r[n]), array, n + 1)
        BY <2>1, <2>3, <2>4, EmptyIsDropped, OtherIsKept
    <2> QED
        BY <2>2, <2>5
<1>4. \A n \in Nat : n \in T
    <2> HIDE DEF T
    <2> QED
        BY <1>2, <1>3, InductionOnSets
<1> QED
    BY <1>1, <1>4

-----------------------------------------------------------------------------
(* The chain.                                                              *)

LEMMA InitIsRight == Init => IInv
<1> SUFFICES ASSUME Init
             PROVE  IInv
    OBVIOUS
<1>1. IsDatum(item)
    BY DatumAssumption, DatumIsDatum DEF Init
<1>2. failed \in BOOLEAN
    BY DEF Init
<1>3. applied \in 0 .. MaxFunctions
    BY BoundAssumption DEF Init
<1> QED
    BY <1>1, <1>2, <1>3 DEF IInv

\* A function keeps the invariant if what it makes of data is one.
LEMMA ProcessIsRight ==
    ASSUME IInv, NEW type, NEW args, NEW tempItem,
           tempItem # NoItem => IsDatum(tempItem),
           Process(type, args, tempItem)
    PROVE  IInv'
<1>1. applied' \in 0 .. MaxFunctions
    BY BoundAssumption DEF IInv, Process
<1>2. failed' \in BOOLEAN
    BY DEF Process
<1>3. IsDatum(item') \/ (failed' /\ item' = NoItem)
    <2>1. item' = tempItem /\ failed' = (tempItem = NoItem)
        BY DEF Process
    <2> QED
        BY <2>1
<1>4. IsDatum(item)' \/ (failed' /\ item' = NoItem)
    BY <1>3 DEF IsDatum
<1> QED
    BY <1>1, <1>2, <1>4 DEF IInv

LEMMA NextIsRight ==
    ASSUME SplitIsList, IInv, [Next]_vars
    PROVE  IInv'
<1>1. \A a \in Argument : IsDatum(a)
    BY DatumAssumption, DatumIsDatum
<1>2. ~failed => IsDatum(item)
    BY DEF IInv
<1>3. CASE ProcessGet
    <2>1. PICK key \in Argument : Process("get", <<key>>, GetValue(item, key))
        BY <1>3 DEF ProcessGet
    <2>2. ~failed
        BY <2>1 DEF Process
    <2> QED
        BY <1>2, <2>1, <2>2, GetIsDatum, ProcessIsRight
<1>4. CASE ProcessSplit
    <2>1. PICK key \in Argument :
            Process("split", <<key>>, SplitValue(item, key))
        BY <1>4 DEF ProcessSplit
    <2> QED
        BY <2>1, SplitIsDatum, ProcessIsRight
<1>5. CASE ProcessContains
    <2>1. PICK key \in Argument :
            Process("contains", <<key>>, ContainsValue(item, key))
        BY <1>5 DEF ProcessContains
    <2> QED
        BY <2>1, ContainsIsDatum, ProcessIsRight
<1>6. CASE ProcessSize
    BY <1>6, SizeIsDatum, ProcessIsRight DEF ProcessSize
<1>7. CASE ProcessInsert
    <2>1. PICK key \in Argument, value \in Argument :
            Process("insert", <<key, value>>, InsertValue(item, key, value))
        BY <1>7 DEF ProcessInsert
    <2>2. ~failed
        BY <2>1 DEF Process
    <2> QED
        BY <1>1, <1>2, <2>1, <2>2, InsertIsDatum, ProcessIsRight
<1>8. CASE ProcessAppend
    <2>1. PICK value \in Argument :
            Process("append", <<value>>, AppendValue(item, value))
        BY <1>8 DEF ProcessAppend
    <2>2. ~failed
        BY <2>1 DEF Process
    <2> QED
        BY <1>1, <1>2, <2>1, <2>2, AppendIsDatum, ProcessIsRight
<1>9. CASE ProcessClearEmpty
    <2>1. ~failed
        BY <1>9 DEF ProcessClearEmpty, Process
    <2> QED
        BY <1>2, <1>9, <2>1, ClearIsDatum, ProcessIsRight DEF ProcessClearEmpty
<1>10. CASE ProcessParseJson
    BY <1>10, ParseIsDatum, ProcessIsRight DEF ProcessParseJson
<1>11. CASE UnknownFunction
    BY <1>11, ProcessIsRight DEF UnknownFunction
<1>12. CASE RejectArguments
    <2>1. applied' = applied /\ failed' = TRUE /\ item' = item /\ ~failed
        BY <1>12 DEF RejectArguments
    <2>2. IsDatum(item)'
        BY <1>2, <2>1 DEF IsDatum
    <2> QED
        BY <2>1, <2>2 DEF IInv
<1>13. CASE UNCHANGED vars
    BY <1>13 DEF vars, IInv, IsDatum
<1> QED
    BY <1>3, <1>4, <1>5, <1>6, <1>7, <1>8, <1>9, <1>10, <1>11, <1>12, <1>13
    DEF Next

LEMMA InvariantHolds ==
    ASSUME SplitIsList
    PROVE  Spec => []IInv
<1>1. IInv /\ [Next]_vars => IInv'
    BY NextIsRight
<1> QED
    BY InitIsRight, <1>1, PTL DEF Spec

LEMMA TypesFollow == IInv => TypeOK
    BY KindsOfData DEF IInv, TypeOK

LEMMA AgreementFollows ==
    ASSUME IInv
    PROVE  ContainsAgreesWithGet
<1>0. CASE item = NoItem
    BY <1>0 DEF ContainsAgreesWithGet, NoItem, IsMap, IsArray, TypeOf
<1> SUFFICES ASSUME item # NoItem
             PROVE  ContainsAgreesWithGet
    BY <1>0
<1>1. IsDatum(item)
    BY DEF IInv
<1> SUFFICES ASSUME NEW key \in Argument, IsValue(key)
             PROVE  /\ IsMap(item) =>
                        (ContainsValue(item, key) = Bool(TRUE)
                            <=> GetValue(item, key) # NoItem)
                    /\ IsArray(item) =>
                        (ContainsValue(item, key) = Bool(TRUE)
                            <=> \E pos \in 0 .. Len(item[2]) :
                                    /\ GetValue(item, <<"int", pos>>) # NoItem
                                    /\ Text(GetValue(item, <<"int", pos>>))
                                            = Text(key))
    BY DEF ContainsAgreesWithGet
<1>2. ASSUME IsMap(item)
      PROVE  ContainsValue(item, key) = Bool(TRUE)
                <=> GetValue(item, key) # NoItem
    <2>1. ~IsArray(item) /\ ~IsValue(item)
        BY <1>1, <1>2, KindsOfData
    <2> DEFINE found == Text(key) \in DOMAIN item[2]
    <2>2. ContainsValue(item, key) = Bool(found)
        BY <1>2, <2>1 DEF ContainsValue
    <2>3. Bool(found) = Bool(TRUE) <=> found
        BY DEF Bool
    <2>4. ASSUME found
          PROVE  GetValue(item, key) # NoItem
        <3>1. GetValue(item, key) = item[2][Text(key)]
            BY <1>2, <2>1, <2>4 DEF GetValue
        <3>2. IsDatum(item[2][Text(key)])
            BY <1>1, <1>2, <2>4, EntriesAreData
        <3> QED
            BY <3>1, <3>2, KindsOfData
    <2>5. ASSUME ~found
          PROVE  GetValue(item, key) = NoItem
        BY <1>2, <2>1, <2>5 DEF GetValue
    <2> HIDE DEF found
    <2> QED
        BY <2>2, <2>3, <2>4, <2>5
<1>3. ASSUME IsArray(item)
      PROVE  ContainsValue(item, key) = Bool(TRUE)
                <=> \E pos \in 0 .. Len(item[2]) :
                        /\ GetValue(item, <<"int", pos>>) # NoItem
                        /\ Text(GetValue(item, <<"int", pos>>)) = Text(key)
    <2>1. /\ ~IsMap(item) /\ ~IsValue(item)
          /\ Len(item[2]) \in Nat /\ DOMAIN item[2] = 1 .. Len(item[2])
        BY <1>1, <1>3, KindsOfData
    <2> DEFINE found == \E x \in ToSet(item[2]) : Text(x) = Text(key)
    <2>2. ContainsValue(item, key) = Bool(found)
        BY <1>3, <2>1 DEF ContainsValue
    <2>3. Bool(found) = Bool(TRUE) <=> found
        BY DEF Bool
    <2>4. \A pos \in 0 .. Len(item[2]) - 1 :
            /\ GetValue(item, <<"int", pos>>) = item[2][pos + 1]
            /\ GetValue(item, <<"int", pos>>) # NoItem
        <3> SUFFICES ASSUME NEW pos \in 0 .. Len(item[2]) - 1
                     PROVE  /\ GetValue(item, <<"int", pos>>) = item[2][pos + 1]
                            /\ GetValue(item, <<"int", pos>>) # NoItem
            OBVIOUS
        <3>1. GetValue(item, <<"int", pos>>) = item[2][pos + 1]
            BY <1>3, <2>1 DEF GetValue, TypeOf
        <3>2. pos + 1 \in 1 .. Len(item[2])
            BY <2>1
        <3>3. IsDatum(item[2][pos + 1])
            BY <1>1, <1>3, <3>2, ElementsAreData
        <3> QED
            BY <3>1, <3>3, KindsOfData
    <2>5. GetValue(item, <<"int", Len(item[2])>>) = NoItem
        <3>1. Len(item[2]) \notin 0 .. Len(item[2]) - 1
            BY <2>1
        <3> QED
            BY <1>3, <2>1, <3>1 DEF GetValue, TypeOf
    <2>6. ASSUME found
          PROVE  \E pos \in 0 .. Len(item[2]) :
                    /\ GetValue(item, <<"int", pos>>) # NoItem
                    /\ Text(GetValue(item, <<"int", pos>>)) = Text(key)
        <3>1. PICK i \in 1 .. Len(item[2]) : Text(item[2][i]) = Text(key)
            BY <2>1, <2>6 DEF ToSet
        <3> DEFINE pos == i - 1
        <3>2. /\ pos \in 0 .. Len(item[2]) /\ pos \in 0 .. Len(item[2]) - 1
              /\ pos + 1 = i
            BY <2>1
        <3> HIDE DEF pos
        <3> QED
            BY <2>4, <3>1, <3>2
    <2>7. ASSUME NEW pos \in 0 .. Len(item[2]),
                 GetValue(item, <<"int", pos>>) # NoItem,
                 Text(GetValue(item, <<"int", pos>>)) = Text(key)
          PROVE  found
        <3>1. pos \in 0 .. Len(item[2]) - 1 /\ pos + 1 \in DOMAIN item[2]
            BY <2>1, <2>5, <2>7
        <3>2. Text(item[2][pos + 1]) = Text(key)
            BY <2>4, <2>7, <3>1
        <3> QED
            BY <3>1, <3>2 DEF ToSet
    <2> HIDE DEF found
    <2> QED
        BY <2>2, <2>3, <2>6, <2>7
<1> QED
    BY <1>2, <1>3

LEMMA LastStep ==
    ASSUME NEW type, NEW args, NEW tempItem, Process(type, args, tempItem)
    PROVE  /\ last' = [type |-> type, args |-> args, before |-> item]
           /\ item' = tempItem /\ ~failed
           /\ ~failed' => tempItem # NoItem
BY DEF Process

LEMMA EachStepIs ==
    ASSUME Next
    PROVE  \/ ProcessInsert \/ ProcessAppend \/ ProcessClearEmpty
           \/ RejectArguments
           \/ \E type \in {"get", "split", "contains", "size", "parse_json",
                          "unknown"} :
                \E args, tempItem : Process(type, args, tempItem)
<1>1. CASE ProcessGet
    BY <1>1 DEF ProcessGet
<1>2. CASE ProcessSplit
    BY <1>2 DEF ProcessSplit
<1>3. CASE ProcessContains
    BY <1>3 DEF ProcessContains
<1>4. CASE ProcessSize
    BY <1>4 DEF ProcessSize
<1>5. CASE ProcessParseJson
    BY <1>5 DEF ProcessParseJson
<1>6. CASE UnknownFunction
    BY <1>6 DEF UnknownFunction
<1> QED
    BY <1>1, <1>2, <1>3, <1>4, <1>5, <1>6 DEF Next

LEMMA AdditionsStep ==
    ASSUME IInv, AdditionsAreFound, [Next]_vars
    PROVE  AdditionsAreFound'
<1>1. ASSUME NEW type, NEW args, NEW tempItem,
             Process(type, args, tempItem), type \notin {"append", "insert"}
      PROVE  AdditionsAreFound'
    <2>1. last'.type = type
        BY <1>1, LastStep
    <2> QED
        BY <1>1, <2>1 DEF AdditionsAreFound
<1>2. CASE ProcessInsert
    <2>1. PICK key \in Argument, value \in Argument :
            Process("insert", <<key, value>>, InsertValue(item, key, value))
        BY <1>2 DEF ProcessInsert
    <2> SUFFICES ASSUME ~failed'
                 PROVE  AdditionsAreFound'
        BY DEF AdditionsAreFound
    <2> DEFINE map == [k \in DOMAIN item[2] \cup {Text(key)} |->
                          IF k = Text(key) THEN value ELSE item[2][k]]
    <2>2. /\ last'.type = "insert" /\ last'.before = item
          /\ Head(last'.args) = key /\ Last(last'.args) = value
          /\ item' = InsertValue(item, key, value)
          /\ InsertValue(item, key, value) # NoItem
        BY <2>1, LastStep DEF Last
    <2>3. IsMap(item) /\ IsValue(key) /\ item' = <<"map", map>>
        BY <2>2 DEF InsertValue
    <2>4. /\ item'[2] = map /\ IsMap(item') /\ ~IsArray(item')
          /\ DOMAIN map = DOMAIN item[2] \cup {Text(key)}
          /\ map[Text(key)] = value
          /\ \A k \in DOMAIN item[2] \ {Text(key)} : map[k] = item[2][k]
        BY <2>3 DEF IsMap, IsArray, TypeOf
    <2> HIDE DEF map
    <2>5. GetValue(item', key) = value
        BY <2>3, <2>4 DEF GetValue
    <2> QED
        BY <2>2, <2>4, <2>5 DEF AdditionsAreFound
<1>3. CASE ProcessAppend
    <2>1. PICK value \in Argument :
            Process("append", <<value>>, AppendValue(item, value))
        BY <1>3 DEF ProcessAppend
    <2> SUFFICES ASSUME ~failed'
                 PROVE  AdditionsAreFound'
        BY DEF AdditionsAreFound
    <2>2. /\ last'.type = "append" /\ last'.before = item
          /\ last'.args = <<value>>
          /\ item' = AppendValue(item, value)
          /\ AppendValue(item, value) # NoItem
          /\ ~failed
        BY <2>1, LastStep
    <2> DEFINE array == Append(item[2], value)
    <2>3. IsArray(item) /\ item' = <<"arr", array>>
        BY <2>2 DEF AppendValue
    <2>4. PICK S : Closed(S) /\ MadeOf(item, S)
        BY <2>2, <2>3 DEF IInv, IsDatum, NoItem, IsArray, TypeOf
    <2>5. item[2] \in Seq(S \cup {value}) /\ Len(item[2]) \in Nat
        <3>1. item[2] \in Seq(S)
            BY <2>3, <2>4 DEF MadeOf, IsArray, IsMap, IsValue, TypeOf
        <3> QED
            BY <3>1, SeqMonotonic, LenProperties
    <2>6. /\ array \in Seq(S \cup {value})
          /\ Len(array) = Len(item[2]) + 1
          /\ \A i \in 1 .. Len(item[2]) : array[i] = item[2][i]
          /\ array[Len(item[2]) + 1] = value
        BY <2>5, AppendProperties
    <2>7. item'[2] = array /\ IsArray(item') /\ ~IsMap(item')
        BY <2>3 DEF IsArray, IsMap, TypeOf
    <2> HIDE DEF array
    <2>8. GetValue(item', <<"int", Len(item[2])>>) = value
        <3>1. Len(item[2]) \in 0 .. Len(array) - 1
            BY <2>5, <2>6
        <3> QED
            BY <2>6, <2>7, <3>1 DEF GetValue, TypeOf
    <2>9. Front(array) = item[2]
        <3>1. Front(array) = SubSeq(array, 1, Len(item[2]))
            BY <2>5, <2>6 DEF Front
        <3>2. /\ SubSeq(array, 1, Len(item[2])) \in Seq(S \cup {value})
              /\ Len(SubSeq(array, 1, Len(item[2]))) = Len(item[2])
              /\ \A i \in 1 .. Len(item[2]) :
                    SubSeq(array, 1, Len(item[2]))[i] = array[i]
            BY <2>5, <2>6
        <3> QED
            BY <2>5, <2>6, <3>1, <3>2, SeqEqual
    <2>10. Last(last'.args) = value
        BY <2>2 DEF Last
    <2> QED
        BY <2>2, <2>7, <2>8, <2>9, <2>10 DEF AdditionsAreFound
<1>4. CASE RejectArguments
    BY <1>4 DEF RejectArguments, AdditionsAreFound
<1>5. CASE UNCHANGED vars
    BY <1>5 DEF vars, AdditionsAreFound
<1>6. CASE ProcessClearEmpty
    BY <1>1, <1>6 DEF ProcessClearEmpty
<1> QED
    BY <1>1, <1>2, <1>3, <1>4, <1>5, <1>6, EachStepIs

IsFilterOf(after, before) ==
    /\ Len(after) = Cardinality(Kept(before, Len(before)))
    /\ \A i \in Kept(before, Len(before)) :
            after[Cardinality(Kept(before, i))] = before[i]

LEMMA ClearedStep ==
    ASSUME IInv, ClearedIsFiltered, [Next]_vars
    PROVE  ClearedIsFiltered'
<1>1. ASSUME NEW type, NEW args, NEW tempItem,
             Process(type, args, tempItem), type # "clear_empty"
      PROVE  ClearedIsFiltered'
    <2>1. last'.type = type
        BY <1>1, LastStep
    <2> QED
        BY <1>1, <2>1 DEF ClearedIsFiltered
<1>2. CASE ProcessClearEmpty
    <2>1. Process("clear_empty", <<>>, ClearEmpty(item))
        BY <1>2 DEF ProcessClearEmpty
    <2>2. /\ item' = ClearEmpty(item) /\ ~failed
          /\ ~failed' => ClearEmpty(item) # NoItem
          /\ last'.before = item
        BY <2>1, LastStep
    <2> SUFFICES ASSUME ~failed', Len(item[2]) < IndexRange
                 PROVE  IsFilterOf(item'[2], item[2])
        BY <2>2 DEF ClearedIsFiltered, Kept, IsFilterOf
    <2> DEFINE array == item[2]
               cleared == Rounds(array)[Len(array)]
    <2>3. IsArray(item) /\ item' = <<"arr", cleared.array>>
        BY <2>2 DEF ClearEmpty
    <2>4. PICK S : Closed(S) /\ MadeOf(item, S)
        BY <2>2, <2>3 DEF IInv, IsDatum, NoItem, IsArray, TypeOf
    <2>5. array \in Seq(S) /\ Len(array) \in Nat
        <3>1. array \in Seq(S)
            BY <2>3, <2>4 DEF MadeOf, IsArray, IsMap, IsValue, TypeOf
        <3> QED
            BY <3>1, LenProperties
    <2>6. Filtered(cleared, array, Len(array))
        BY <2>5, RoundsFilter
    <2>7. Cardinality(Kept(array, Len(array))) \in Nat
        BY <2>5, KeptCount
    <2>8. item'[2] = cleared.array
        BY <2>3
    <2> HIDE DEF cleared, array
    <2>9. Len(cleared.array) = Cardinality(Kept(array, Len(array)))
        BY <2>5, <2>6, <2>7 DEF Filtered
    <2>10. IsFilterOf(cleared.array, array)
        BY <2>6, <2>9 DEF Filtered, IsFilterOf
    <2> QED
        BY <2>8, <2>10 DEF array
<1>3. CASE RejectArguments
    BY <1>3 DEF RejectArguments, ClearedIsFiltered
<1>4. CASE UNCHANGED vars
    BY <1>4 DEF vars, ClearedIsFiltered, Kept
<1>5. CASE ProcessInsert
    BY <1>1, <1>5 DEF ProcessInsert
<1>6. CASE ProcessAppend
    BY <1>1, <1>6 DEF ProcessAppend
<1> QED
    BY <1>1, <1>2, <1>3, <1>4, <1>5, <1>6, EachStepIs

-----------------------------------------------------------------------------
\* A value that goes on to the next function is never a nullptr: the functions
\* dereference it (toMap, toArray, toValue) without a look.
THEOREM ValuesAreThere ==
    ASSUME SplitIsList
    PROVE  Spec => []TypeOK
BY InvariantHolds, TypesFollow, PTL

\* Whatever a chain has made of a value, contains says that it has a key or an
\* element exactly if get finds it: containsValue and getValue agree.
THEOREM ContainedIsFound ==
    ASSUME SplitIsList
    PROVE  Spec => []ContainsAgreesWithGet
BY InvariantHolds, AgreementFollows, PTL

\* What appendValue and insertValue have added can be got, and they leave
\* everything else as it was.
THEOREM AddedIsFound ==
    ASSUME SplitIsList
    PROVE  Spec => []AdditionsAreFound
<1>1. Init => AdditionsAreFound
    BY DEF Init, AdditionsAreFound
<1>2. IInv /\ AdditionsAreFound /\ [Next]_vars => AdditionsAreFound'
    BY AdditionsStep
<1> QED
    BY <1>1, <1>2, InvariantHolds, PTL DEF Spec

\* clearEmpty removes the empty elements of an array of any length that its
\* index can count, although it removes under the index and sets it back, at
\* the first element even below zero.
THEOREM ClearingFilters ==
    ASSUME SplitIsList
    PROVE  Spec => []ClearedIsFiltered
<1>1. Init => ClearedIsFiltered
    BY DEF Init, ClearedIsFiltered
<1>2. IInv /\ ClearedIsFiltered /\ [Next]_vars => ClearedIsFiltered'
    BY ClearedStep
<1> QED
    BY <1>1, <1>2, InvariantHolds, PTL DEF Spec
=============================================================================
