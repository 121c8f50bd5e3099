------------------------- MODULE SakuraParser_proofs -------------------------
(***************************************************************************)
(* Proofs about SakuraParser and ParsedScript, for every alphabet of names *)
(* and values and every length of the texts.                               *)
(*                                                                         *)
(* IInv: identifiers that are used are declared.  KInv: the parts and the  *)
(* open item sets together hold every line of the text.  TInv: the braces  *)
(* and blossoms of the tree are where the grammar allows them.  VInv: what *)
(* the garden keeps and the thread fills are the items the text gives.     *)
(***************************************************************************)
EXTENDS ParsedScript, SequenceTheorems, WellFoundedInduction, TLAPS

IsSeq(s) == \E S : s \in Seq(S)

\* t is s with e behind it.
IsAppended(t, s, e) ==
    /\ IsSeq(t)
    /\ Len(t) = Len(s) + 1
    /\ DOMAIN t = 1..(Len(s) + 1)
    /\ \A i \in 1..Len(s) : t[i] = s[i]
    /\ t[Len(s) + 1] = e

LEMMA AppendIs ==
    ASSUME NEW s, IsSeq(s), NEW e
    PROVE  IsAppended(Append(s, e), s, e)
<1>1. PICK S : s \in Seq(S)
  BY DEF IsSeq
<1>2. s \in Seq(S \cup {e}) /\ e \in S \cup {e}
  BY <1>1
<1>3. Append(s, e) \in Seq(S \cup {e})
  BY <1>2
<1>4. QED
  BY <1>2, <1>3 DEF IsSeq, IsAppended

LEMMA SeqDomain ==
    ASSUME NEW s, IsSeq(s)
    PROVE  /\ Len(s) \in Nat /\ DOMAIN s = 1..Len(s)
           /\ s = <<>> <=> Len(s) = 0
BY DEF IsSeq

LEMMA SingleIs ==
    ASSUME NEW e
    PROVE  IsSeq(<<e>>) /\ DOMAIN <<e>> = {1} /\ <<e>>[1] = e
<1>1. <<e>> \in Seq({e}) /\ Len(<<e>>) = 1 /\ <<e>>[1] = e
  OBVIOUS
<1>2. DOMAIN <<e>> = 1..1 /\ 1..1 = {1}
  BY <1>1
<1>3. IsSeq(<<e>>)
  BY <1>1 DEF IsSeq
<1>4. QED
  BY <1>1, <1>2, <1>3

LEMMA Intervals ==
    ASSUME NEW n \in Nat
    PROVE  /\ n + 1 \in 1..(n + 1) /\ n + 1 \in Nat
           /\ 1..n \subseteq 1..(n + 1)
           /\ \A i \in 1..(n + 1) : i \in 1..n \/ i = n + 1
           /\ \A i \in 0..n : i \in Nat /\ 1..i \subseteq 1..n
           /\ \A i \in 1..n : i \in 0..n
           /\ n \in 0..n /\ n <= n + 1 /\ n <= n
<1>1. n + 1 \in 1..(n + 1) /\ n + 1 \in Nat
  OBVIOUS
<1>2. 1..n \subseteq 1..(n + 1)
  OBVIOUS
<1>3. \A i \in 1..(n + 1) : i \in 1..n \/ i = n + 1
  OBVIOUS
<1>4. \A i \in 0..n : i \in Nat /\ 1..i \subseteq 1..n
  OBVIOUS
<1>5. \A i \in 1..n : i \in 0..n
  OBVIOUS
<1>6. n \in 0..n /\ n <= n + 1 /\ n <= n
  OBVIOUS
<1>7. QED
  BY <1>1, <1>2, <1>3, <1>4, <1>5, <1>6

LEMMA EmptyIs == IsSeq(<<>>) /\ DOMAIN <<>> = {} /\ Len(<<>>) = 0
<1>1. <<>> \in Seq({})
  BY EmptySeq
<1>2. QED
  BY <1>1 DEF IsSeq

LEMMA ReplaceIs ==
    ASSUME NEW s, IsSeq(s), NEW n \in DOMAIN s, NEW e
    PROVE  LET t == [s EXCEPT ![n] = e]
           IN  /\ IsSeq(t) /\ DOMAIN t = DOMAIN s /\ Len(t) = Len(s)
               /\ t[n] = e /\ \A i \in DOMAIN s : i # n => t[i] = s[i]
<1>1. PICK S : s \in Seq(S)
  BY DEF IsSeq
<1>2. s \in Seq(S \cup {e}) /\ e \in S \cup {e}
  BY <1>1
<1>3. [s EXCEPT ![n] = e] \in Seq(S \cup {e})
  BY <1>2
<1>4. QED
  BY <1>2, <1>3 DEF IsSeq

LEMMA FrontIs ==
    ASSUME NEW s, IsSeq(s), s # <<>>
    PROVE  /\ IsSeq(Front(s))
           /\ Len(s) \in Nat /\ Len(s) > 0
           /\ Len(Front(s)) = Len(s) - 1
           /\ DOMAIN Front(s) = 1..(Len(s) - 1)
           /\ \A i \in 1..(Len(s) - 1) : Front(s)[i] = s[i]
<1>1. PICK S : s \in Seq(S)
  BY DEF IsSeq
<1>2. Len(s) \in Nat /\ Len(s) > 0
  BY <1>1
<1>3. Front(s) \in Seq(S)
  BY <1>1, <1>2 DEF Front
<1>a. PICK n \in Nat : Len(s) = n + 1
  <2>1. Len(s) - 1 \in Nat /\ Len(s) = (Len(s) - 1) + 1
    BY <1>2
  <2>2. QED  BY <2>1
<1>b. /\ Len(SubSeq(s, 1, n)) = IF 1 <= n THEN n - 1 + 1 ELSE 0
      /\ \A i \in 1..(n - 1 + 1) : SubSeq(s, 1, n)[i] = s[1 + i - 1]
  <2>1. n \in Int /\ 1 \in Int /\ \A i \in 1..n : s[i] \in S
    BY <1>1, <1>a
  <2>2. QED  BY <2>1, SubSeqProperties
<1>c. Front(s) = SubSeq(s, 1, n)
  BY <1>a DEF Front
<1>4. Len(Front(s)) = Len(s) - 1
  <2>1. (IF 1 <= n THEN n - 1 + 1 ELSE 0) = n /\ Len(s) - 1 = n
    BY <1>a
  <2>2. QED  BY <1>b, <1>c, <2>1, Zenon
<1>5. \A i \in 1..(Len(s) - 1) : Front(s)[i] = s[i]
  <2>1. n - 1 + 1 = n /\ Len(s) - 1 = n /\ \A i \in 1..n : 1 + i - 1 = i
    BY <1>a
  <2>2. QED  BY <2>1, <1>b, <1>c
<1>6. DOMAIN Front(s) = 1..Len(Front(s))
  BY <1>3
<1>7. IsSeq(Front(s))
  BY <1>3 DEF IsSeq
<1>8. QED
  BY <1>2, <1>4, <1>5, <1>6, <1>7

-----------------------------------------------------------------------------
Places == Seq(Name) \X Name

IsItem(v) ==
    /\ v = [item |-> v.item, isIdentifier |-> v.isIdentifier, type |-> v.type,
            arguments |-> v.arguments, fieldType |-> v.fieldType]
    /\ v.isIdentifier \in BOOLEAN

\* Maps are records of values and maps, and an entry of a map within a map
\* is below the place of a map.
IsMap(m) ==
    /\ m = [values |-> m.values, maps |-> m.maps]
    /\ DOMAIN m.values \subseteq Places
    /\ m.maps \subseteq Places
    /\ \A p \in DOMAIN m.values \cup m.maps :
        p[1] # <<>> => Place(Head(p[1])) \in m.maps
    /\ \A p \in DOMAIN m.values : IsItem(m.values[p])

LEMMA PlaceIs ==
    ASSUME NEW n \in Name
    PROVE  Place(n) \in Places /\ Place(n)[1] = <<>> /\ Place(n)[2] = n
<1>1. << >> \in Seq(Name)
  BY EmptySeq
<1>2. Place(n) = << <<>>, n >>
  BY DEF Place
<1>3. << <<>>, n >> \in Places
  BY <1>1 DEF Places
<1>4. Place(n)[1] = <<>> /\ Place(n)[2] = n
  BY <1>2
<1>5. QED
  BY <1>2, <1>3, <1>4

LEMMA EmptyMapIs ==
    IsMap(EmptyMap) /\ UsedIn(EmptyMap) = {} /\ DeclaredIn(EmptyMap) = {}
BY DEF IsMap, EmptyMap, UsedIn, DeclaredIn

\* A new value adds what it uses and declares.
LEMMA InsertValueIs ==
    ASSUME NEW m, IsMap(m), NEW n \in Name, NEW v, IsItem(v), ~Contains(m, n)
    PROVE  LET r == InsertValue(m, n, v)
           IN  /\ IsMap(r)
               /\ UsedIn(r) \subseteq UsedIn(m) \cup UsedAt(Place(n), v)
               /\ DeclaredIn(m) \subseteq DeclaredIn(r)
               /\ Declares(v) => n \in DeclaredIn(r)
<1> DEFINE r == InsertValue(m, n, v)
<1>1. Place(n) \in Places /\ Place(n)[1] = <<>> /\ Place(n)[2] = n
  BY PlaceIs
<1>2. /\ DOMAIN r.values = DOMAIN m.values \cup {Place(n)}
      /\ r.maps = m.maps
      /\ r = [values |-> r.values, maps |-> r.maps]
      /\ \A p \in DOMAIN m.values : r.values[p] = m.values[p]
      /\ r.values[Place(n)] = v
  BY DEF InsertValue, Contains
<1> HIDE DEF r
<1>3. IsMap(r)
  BY <1>1, <1>2 DEF IsMap
<1>4. UsedIn(r) \subseteq UsedIn(m) \cup UsedAt(Place(n), v)
  BY <1>2 DEF UsedIn
<1>5. DeclaredIn(m) \subseteq DeclaredIn(r)
  BY <1>2 DEF DeclaredIn
<1>6. Declares(v) => n \in DeclaredIn(r)
  BY <1>1, <1>2 DEF DeclaredIn
<1>7. QED
  BY <1>3, <1>4, <1>5, <1>6 DEF r

LEMMA BelowIs ==
    ASSUME NEW n \in Name, NEW p \in Places
    PROVE  /\ Below(n, p) \in Places
           /\ Below(n, p)[1] # <<>> /\ Head(Below(n, p)[1]) = n
           /\ Below(n, p)[2] = p[2]
           /\ <<Tail(Below(n, p)[1]), Below(n, p)[2]>> = p
<1>1. p[1] \in Seq(Name) /\ p[2] \in Name /\ p = <<p[1], p[2]>>
  BY DEF Places
<1>2. <<n>> \o p[1] \in Seq(Name) /\ <<n>> \o p[1] # <<>>
  BY <1>1
<1>3. Head(<<n>> \o p[1]) = n /\ Tail(<<n>> \o p[1]) = p[1]
  BY <1>1
<1>4. QED
  BY <1>1, <1>2, <1>3 DEF Below, Places

\* A new map adds what it uses and declares, and its name.
LEMMA InsertMapIs ==
    ASSUME NEW m, IsMap(m), NEW n \in Name, NEW c, IsMap(c), ~Contains(m, n)
    PROVE  LET r == InsertMap(m, n, c)
           IN  /\ IsMap(r)
               /\ UsedIn(r) \subseteq UsedIn(m) \cup UsedIn(c)
               /\ DeclaredIn(m) \cup DeclaredIn(c) \cup {n} \subseteq DeclaredIn(r)
<1> DEFINE r == InsertMap(m, n, c)
           new(places) == {Below(n, p) : p \in places}
<1>1. Place(n) \in Places /\ Place(n)[1] = <<>> /\ Place(n)[2] = n
  BY PlaceIs
<1>2. \A p \in DOMAIN m.values \cup m.maps : p[1] = <<>> \/ Head(p[1]) # n
  BY DEF IsMap, Contains
<1>3. /\ DOMAIN r.values = DOMAIN m.values \cup new(DOMAIN c.values)
      /\ r.maps = m.maps \cup {Place(n)} \cup new(c.maps)
      /\ r = [values |-> r.values, maps |-> r.maps]
      /\ \A p \in DOMAIN m.values : r.values[p] = m.values[p]
  BY <1>2 DEF InsertMap
<1>4. \A p \in DOMAIN c.values : r.values[Below(n, p)] = c.values[p]
  <2> TAKE p \in DOMAIN c.values
  <2>1. p \in Places
    BY DEF IsMap
  <2>2. Below(n, p) \notin {q \in DOMAIN m.values : q[1] = <<>> \/ Head(q[1]) # n}
    BY <2>1, BelowIs
  <2>3. <<Tail(Below(n, p)[1]), Below(n, p)[2]>> = p
    BY <2>1, BelowIs
  <2>4. QED
    BY <2>2, <2>3 DEF InsertMap
<1> HIDE DEF r
<1>5. IsMap(r)
  <2>1. \A p \in DOMAIN c.values \cup c.maps :
            /\ Below(n, p) \in Places
            /\ Below(n, p)[1] # <<>> /\ Head(Below(n, p)[1]) = n
    BY BelowIs DEF IsMap
  <2>2. DOMAIN r.values \subseteq Places /\ r.maps \subseteq Places
    BY <1>1, <1>3, <2>1 DEF IsMap
  <2>3. \A p \in DOMAIN r.values \cup r.maps :
            p[1] # <<>> => Place(Head(p[1])) \in r.maps
    BY <1>1, <1>3, <2>1 DEF IsMap
  <2>4. \A p \in DOMAIN r.values : IsItem(r.values[p])
    BY <1>3, <1>4 DEF IsMap
  <2>5. QED
    BY <1>3, <2>2, <2>3, <2>4 DEF IsMap
<1>6. UsedIn(r) \subseteq UsedIn(m) \cup UsedIn(c)
  <2>1. SUFFICES ASSUME NEW p \in DOMAIN r.values
                 PROVE  UsedAt(p, r.values[p]) \subseteq UsedIn(m) \cup UsedIn(c)
    BY DEF UsedIn
  <2>2. CASE p \in DOMAIN m.values
    BY <1>3, <2>2 DEF UsedIn
  <2>3. ASSUME NEW q \in DOMAIN c.values, p = Below(n, q)
        PROVE  UsedAt(p, r.values[p]) \subseteq UsedIn(c)
    <3>1. p[2] = q[2]
      BY <2>3, BelowIs DEF IsMap
    <3>2. UsedAt(p, r.values[p]) = UsedAt(q, c.values[q])
      BY <1>4, <2>3, <3>1 DEF UsedAt
    <3>3. QED  BY <3>2 DEF UsedIn
  <2>4. QED
    BY <1>3, <2>2, <2>3
<1>7. DeclaredIn(m) \subseteq DeclaredIn(r)
  BY <1>3 DEF DeclaredIn
<1>8. n \in DeclaredIn(r)
  BY <1>1, <1>3 DEF DeclaredIn
<1>9. DeclaredIn(c) \subseteq DeclaredIn(r)
  <2>1. SUFFICES ASSUME NEW p \in {q \in DOMAIN c.values : Declares(c.values[q])}
                                    \cup c.maps
                 PROVE  p[2] \in DeclaredIn(r)
    BY DEF DeclaredIn
  <2>2. Below(n, p)[2] = p[2]
    BY BelowIs DEF IsMap
  <2>3. Below(n, p) \in {q \in DOMAIN r.values : Declares(r.values[q])} \cup r.maps
    BY <1>3, <1>4
  <2>4. QED
    BY <2>2, <2>3 DEF DeclaredIn
<1>10. QED
  BY <1>5, <1>6, <1>7, <1>8, <1>9 DEF r

-----------------------------------------------------------------------------
IsPart(p) ==
    /\ p = [kind |-> p.kind, name |-> p.name, uses |-> p.uses,
            within |-> p.within, values |-> p.values]
    /\ IsMap(p.values)

IsItemSet(s) == s = ItemSet(s.name, s.map) /\ IsMap(s.map)

Shape ==
    /\ IsSeq(parts) /\ IsSeq(levels) /\ IsSeq(sets)
    /\ \A i \in DOMAIN parts : IsPart(parts[i])
    /\ \A i \in DOMAIN sets : IsItemSet(sets[i])
    /\ \A i \in DOMAIN sets : i # 1 => sets[i].name \in Name
    /\ sets # <<>> => parts # <<>> /\ parts[Len(parts)].values = EmptyMap

\* The names that are declared in parts t and item sets s, those of open maps
\* included.
KnownIn(t, s) ==
    Known(t, Len(t))
        \cup (UNION {DeclaredIn(s[i].map) : i \in DOMAIN s})
        \cup {s[i].name : i \in DOMAIN s \ {1}}

KnownNow == KnownIn(parts, sets)

LEMMA KnownInHas ==
    ASSUME NEW t, NEW s
    PROVE  /\ Known(t, Len(t)) \subseteq KnownIn(t, s)
           /\ \A i \in DOMAIN s : DeclaredIn(s[i].map) \subseteq KnownIn(t, s)
           /\ \A i \in DOMAIN s \ {1} : s[i].name \in KnownIn(t, s)
<1>1. Known(t, Len(t)) \subseteq KnownIn(t, s)
  BY DEF KnownIn
<1>2. \A i \in DOMAIN s : DeclaredIn(s[i].map) \subseteq KnownIn(t, s)
  BY DEF KnownIn
<1>3. \A i \in DOMAIN s \ {1} : s[i].name \in KnownIn(t, s)
  BY DEF KnownIn
<1>4. QED
  BY <1>1, <1>2, <1>3

LEMMA KnownInWithin ==
    ASSUME NEW t, NEW s, NEW K,
           Known(t, Len(t)) \subseteq K,
           \A i \in DOMAIN s : DeclaredIn(s[i].map) \subseteq K,
           \A i \in DOMAIN s \ {1} : s[i].name \in K
    PROVE  KnownIn(t, s) \subseteq K
<1>1. UNION {DeclaredIn(s[i].map) : i \in DOMAIN s} \subseteq K
  OBVIOUS
<1>2. {s[i].name : i \in DOMAIN s \ {1}} \subseteq K
  OBVIOUS
<1>3. QED
  BY <1>1, <1>2 DEF KnownIn

PartsUseKnown == \A i \in DOMAIN parts : UsedBy(parts[i]) \subseteq Known(parts, i)

SetsUseKnown == \A i \in DOMAIN sets : UsedIn(sets[i].map) \subseteq KnownNow

KeysAreKnown == phase = "reading" => keys \subseteq KnownNow

\* A loop whose names differ is not closed yet.
WrongIsOpen ==
    \A i \in DOMAIN parts :
        parts[i].kind = "wrong for" =>
            \/ i = Len(parts) /\ sets # <<>>
            \/ \E j \in DOMAIN levels : levels[j].owner = i

IInv ==
    /\ Shape
    /\ PartsUseKnown
    /\ SetsUseKnown
    /\ KeysAreKnown
    /\ WrongIsOpen
    /\ IdentifiersAreDeclared

\* What is known stays so when parts declare more and new ones follow.
LEMMA KnownGrows ==
    ASSUME NEW t, NEW u, NEW i \in Nat, NEW k \in Nat, i <= k,
           \A j \in 1..i : DeclaredBy(t[j]) \subseteq DeclaredBy(u[j])
    PROVE  Known(t, i) \subseteq Known(u, k)
BY DEF Known

LEMMA StopStep ==
    ASSUME IInv, NEW tree, Stop(tree)
    PROVE  IInv'
<1>1. /\ phase' = "failed" /\ handed' = <<>>
      /\ parts' = parts /\ levels' = levels /\ sets' = sets
  BY DEF Stop, ParseTreeString
<1>2. Shape' /\ PartsUseKnown' /\ WrongIsOpen'
  BY <1>1 DEF IInv, Shape, PartsUseKnown, WrongIsOpen
<1>3. KnownNow' = KnownNow
  BY <1>1 DEF KnownNow, KnownIn
<1>4. SetsUseKnown'
  BY <1>1, <1>3 DEF IInv, SetsUseKnown
<1>5. KeysAreKnown'
  BY <1>1 DEF KeysAreKnown
<1>6. IdentifiersAreDeclared'
  <2>1. DOMAIN handed' = {}
    BY <1>1
  <2>2. QED  BY <2>1 DEF IdentifiersAreDeclared
<1>7. QED
  BY <1>2, <1>4, <1>5, <1>6 DEF IInv

\* The sets change, and nothing else but the keys.
LEMMA SetsStep ==
    ASSUME IInv, Shape', Continue, sets # <<>>, sets' # <<>>,
           KnownNow \subseteq KnownNow', SetsUseKnown',
           keys' \subseteq KnownNow'
    PROVE  IInv'
<1>1. /\ phase' = phase /\ parts' = parts /\ levels' = levels
      /\ handed' = handed
  BY DEF Continue
<1>2. PartsUseKnown' /\ WrongIsOpen' /\ IdentifiersAreDeclared'
  BY <1>1 DEF IInv, PartsUseKnown, WrongIsOpen, IdentifiersAreDeclared
<1>3. KeysAreKnown'
  BY DEF KeysAreKnown
<1>4. QED
  BY <1>2, <1>3 DEF IInv

\* An item line keeps the invariant if its value uses registered names, and
\* if it declares the name that it registers.
LEMMA EnterStep ==
    ASSUME IInv, phase = "reading", sets # <<>>,
           NEW name \in Name, NEW v, IsItem(v), Enter(name, v),
           UsedAt(Place(name), v) \subseteq keys',
           keys' = keys \/ (keys' = keys \cup {name} /\ Declares(v))
    PROVE  IInv'
<1>1. CASE Stop(output)
  BY <1>1, StopStep
<1>2. CASE ~Contains(Current, name) /\ Continue
            /\ sets' = Add(InsertValue(Current, name, v))
  <2> DEFINE n == Len(sets)
             map == InsertValue(Current, name, v)
             new == ItemSet(sets[n].name, map)
  <2>1. n \in DOMAIN sets /\ IsItemSet(sets[n]) /\ Current = sets[n].map
    BY SeqDomain DEF IInv, Shape, Current, LastOf
  <2>2. /\ IsMap(map)
        /\ UsedIn(map) \subseteq UsedIn(Current) \cup UsedAt(Place(name), v)
        /\ DeclaredIn(Current) \subseteq DeclaredIn(map)
        /\ Declares(v) => name \in DeclaredIn(map)
    <3>1. IsMap(Current)
      BY <2>1 DEF IsItemSet
    <3>2. QED  BY <1>2, <3>1, InsertValueIs
  <2> HIDE DEF map
  <2>3. /\ IsSeq(sets') /\ DOMAIN sets' = DOMAIN sets
        /\ sets'[n] = new
        /\ \A i \in DOMAIN sets : i # n => sets'[i] = sets[i]
    <3>1. sets' = [sets EXCEPT ![n] = new]
      BY <1>2 DEF Add, map
    <3>2. IsSeq(sets)
      BY DEF IInv, Shape
    <3> HIDE DEF new, n
    <3>3. QED  BY <2>1, <3>1, <3>2, ReplaceIs
  <2>4. new.name = sets[n].name /\ new.map = map /\ IsItemSet(new)
    BY <2>2 DEF ItemSet, IsItemSet
  <2> HIDE DEF new, n
  <2>5. parts' = parts /\ levels' = levels
    BY <1>2 DEF Continue
  <2>6. sets' # <<>>
    BY <2>1, <2>3
  <2>7. Shape'
    BY <2>1, <2>3, <2>4, <2>5, <2>6 DEF IInv, Shape
  <2>8. \A i \in DOMAIN sets :
            /\ DeclaredIn(sets[i].map) \subseteq DeclaredIn(sets'[i].map)
            /\ sets'[i].name = sets[i].name
    BY <2>1, <2>2, <2>3, <2>4
  <2>9. KnownNow \subseteq KnownNow'
    BY <2>3, <2>5, <2>8 DEF KnownNow, KnownIn
  <2>10. keys' \subseteq KnownNow'
    <3>1. keys \subseteq KnownNow
      BY DEF IInv, KeysAreKnown
    <3>2. Declares(v) => name \in KnownNow'
      BY <2>1, <2>2, <2>3, <2>4 DEF KnownNow, KnownIn
    <3>3. QED  BY <2>9, <3>1, <3>2
  <2>11. SetsUseKnown'
    <3>1. UsedIn(sets'[n].map) \subseteq KnownNow'
      BY <2>1, <2>2, <2>3, <2>4, <2>9, <2>10 DEF IInv, SetsUseKnown
    <3>2. \A i \in DOMAIN sets : i # n => UsedIn(sets'[i].map) \subseteq KnownNow'
      BY <2>3, <2>9 DEF IInv, SetsUseKnown
    <3>3. QED  BY <2>3, <3>1, <3>2 DEF SetsUseKnown
  <2>12. QED
    BY <1>2, <2>6, <2>7, <2>9, <2>10, <2>11, SetsStep
<1>3. QED
  BY <1>1, <1>2 DEF Enter

-----------------------------------------------------------------------------
\* When the items of the last part are complete, it declares all that is known.
LEMMA FinishedIs ==
    ASSUME IInv, Len(sets) <= 1
    PROVE  /\ IsSeq(Finished) /\ Len(Finished) = Len(parts)
           /\ DOMAIN Finished = DOMAIN parts
           /\ \A i \in DOMAIN parts :
                /\ IsPart(Finished[i])
                /\ Finished[i].kind = parts[i].kind
                /\ UsedBy(Finished[i]) \subseteq Known(Finished, i)
           /\ KnownNow \subseteq Known(Finished, Len(parts))
<1>1. IsSeq(parts) /\ IsSeq(sets) /\ Len(parts) \in Nat /\ DOMAIN parts = 1..Len(parts)
  BY SeqDomain DEF IInv, Shape
<1>2. CASE sets = <<>>
  <2>1. Finished = parts
    BY <1>2 DEF Finished
  <2>2. DOMAIN sets = {}
    BY <1>2
  <2>3. KnownNow \subseteq Known(parts, Len(parts))
    BY <2>2 DEF KnownNow, KnownIn
  <2>4. QED
    BY <1>1, <2>1, <2>3 DEF IInv, Shape, PartsUseKnown
<1>3. CASE sets # <<>>
  <2> DEFINE n == Len(parts)
             new == [parts[n] EXCEPT !.values = sets[1].map]
  <2>1. DOMAIN sets = {1} /\ n \in DOMAIN parts /\ parts[n].values = EmptyMap
    <3>1. Len(sets) = 1 /\ DOMAIN sets = 1..Len(sets)
      <4>1. Len(sets) \in Nat /\ DOMAIN sets = 1..Len(sets)
        BY <1>1, SeqDomain
      <4>2. Len(sets) # 0
        BY <1>1, <1>3, SeqDomain
      <4>3. QED  BY <4>1, <4>2
    <3>2. parts # <<>> /\ parts[n].values = EmptyMap
      BY <1>3 DEF IInv, Shape
    <3>3. n \in DOMAIN parts
      BY <1>1, <3>2, SeqDomain
    <3>4. QED  BY <3>1, <3>2, <3>3
  <2>2. IsPart(parts[n]) /\ IsMap(sets[1].map)
    BY <2>1 DEF IInv, Shape, IsItemSet
  <2>3. /\ new.kind = parts[n].kind /\ new.name = parts[n].name
        /\ new.uses = parts[n].uses /\ new.values = sets[1].map
        /\ IsPart(new)
    BY <2>2 DEF IsPart
  <2>4. Finished = [parts EXCEPT ![n] = new]
    BY <1>3 DEF Finished
  <2> HIDE DEF new
  <2>5. /\ IsSeq(Finished) /\ DOMAIN Finished = DOMAIN parts
        /\ Len(Finished) = Len(parts)
        /\ Finished[n] = new
        /\ \A i \in DOMAIN parts : i # n => Finished[i] = parts[i]
    <3> HIDE DEF n
    <3> QED  BY <1>1, <2>1, <2>4, ReplaceIs
  <2> HIDE DEF n
  <2>6. \A j \in DOMAIN parts : DeclaredBy(parts[j]) \subseteq DeclaredBy(Finished[j])
    BY <2>1, <2>3, <2>5, EmptyMapIs DEF DeclaredBy
  <2>7. \A i \in DOMAIN parts : Known(parts, i) \subseteq Known(Finished, i)
    <3> TAKE i \in DOMAIN parts
    <3>1. i \in Nat /\ 1..i \subseteq DOMAIN parts /\ i <= i
      BY <1>1
    <3>2. \A j \in 1..i : DeclaredBy(parts[j]) \subseteq DeclaredBy(Finished[j])
      BY <2>6, <3>1
    <3>3. QED  BY <3>1, <3>2, KnownGrows
  <2>8. DeclaredIn(sets[1].map) \subseteq Known(Finished, n)
    <3>1. n \in 1..n /\ DeclaredIn(sets[1].map) \subseteq DeclaredBy(Finished[n])
      BY <1>1, <2>1, <2>3, <2>5 DEF DeclaredBy, n
    <3>2. QED  BY <3>1 DEF Known
  <2>9. KnownNow \subseteq Known(Finished, n)
    <3>1. KnownNow = Known(parts, n) \cup DeclaredIn(sets[1].map)
      BY <2>1 DEF KnownNow, KnownIn, n
    <3>2. QED  BY <2>1, <2>7, <2>8, <3>1
  <2>10. ASSUME NEW i \in DOMAIN parts
         PROVE  UsedBy(Finished[i]) \subseteq Known(Finished, i)
    <3>1. UsedBy(parts[i]) \subseteq Known(parts, i)
      BY DEF IInv, PartsUseKnown
    <3>2. CASE i # n
      BY <2>5, <2>7, <3>1, <3>2
    <3>3. CASE i = n
      <4>1. UsedIn(sets[1].map) \subseteq KnownNow
        BY <2>1 DEF IInv, SetsUseKnown
      <4>2. UsedBy(Finished[n]) = parts[n].uses \cup UsedIn(sets[1].map)
        BY <2>3, <2>5 DEF UsedBy
      <4>3. parts[n].uses \subseteq Known(parts, n)
        BY <3>1, <3>3 DEF UsedBy
      <4>4. QED  BY <2>1, <2>7, <2>9, <3>3, <4>1, <4>2, <4>3
    <3>4. QED  BY <3>2, <3>3
  <2>11. \A i \in DOMAIN parts :
            IsPart(Finished[i]) /\ Finished[i].kind = parts[i].kind
    BY <2>3, <2>5 DEF IInv, Shape
  <2>12. QED
    BY <2>5, <2>9, <2>10, <2>11 DEF n
<1>4. QED
  BY <1>2, <1>3

\* A header that uses registered names, and that is a loop when it registers
\* its own name.
Header(kind, name, uses, takesItems, braces) ==
    /\ phase = "reading" /\ Len(sets) <= 1
    /\ sets # <<>> => parts[Len(parts)].kind # "wrong for"
    /\ Begin(kind, name, uses, takesItems, braces)
    /\ uses \subseteq keys'
    /\ keys' = keys \/ (keys' = keys \cup {name} /\ kind \in Loops)
    /\ kind = "wrong for" => takesItems = TRUE
    /\ IsSeq(braces)
    /\ \A j \in DOMAIN levels :
            \E k \in DOMAIN braces : braces[k].owner = levels[j].owner

LEMMA BeginStep ==
    ASSUME IInv, NEW kind, NEW name, NEW uses, NEW takesItems, NEW braces,
           Header(kind, name, uses, takesItems, braces)
    PROVE  IInv'
<1>h. /\ phase = "reading" /\ Len(sets) <= 1
      /\ sets # <<>> => parts[Len(parts)].kind # "wrong for"
      /\ Begin(kind, name, uses, takesItems, braces)
      /\ uses \subseteq keys'
      /\ keys' = keys \/ (keys' = keys \cup {name} /\ kind \in Loops)
      /\ kind = "wrong for" => takesItems = TRUE
      /\ IsSeq(braces)
      /\ \A j \in DOMAIN levels :
            \E k \in DOMAIN braces : braces[k].owner = levels[j].owner
  BY DEF Header
<1> DEFINE n == Len(parts)
           new == [kind |-> kind, name |-> name, uses |-> uses,
                   within |-> levels, values |-> EmptyMap]
<1>1. /\ parts' = Append(Finished, new)
      /\ sets' = IF takesItems THEN <<ItemSet("", EmptyMap)>> ELSE <<>>
      /\ levels' = braces /\ phase' = "reading" /\ handed' = handed
  BY <1>h DEF Begin
<1>2. /\ IsSeq(Finished) /\ Len(Finished) = Len(parts)
      /\ DOMAIN Finished = DOMAIN parts
      /\ \A i \in DOMAIN parts :
            /\ IsPart(Finished[i])
            /\ Finished[i].kind = parts[i].kind
            /\ UsedBy(Finished[i]) \subseteq Known(Finished, i)
      /\ KnownNow \subseteq Known(Finished, Len(parts))
  BY <1>h, FinishedIs
<1>3. /\ IsPart(new) /\ new.kind = kind /\ new.uses = uses /\ new.name = name
      /\ new.values = EmptyMap
  BY EmptyMapIs DEF IsPart
<1> HIDE DEF new
<1>0. n \in Nat /\ DOMAIN parts = 1..n
  BY SeqDomain DEF IInv, Shape
<1>4. /\ IsSeq(parts') /\ Len(parts') = n + 1 /\ DOMAIN parts' = 1..(n + 1)
      /\ \A i \in 1..n : parts'[i] = Finished[i]
      /\ parts'[n + 1] = new
  <2>1. IsSeq(Finished) /\ Len(Finished) = n
    BY <1>2
  <2> HIDE DEF n
  <2>2. IsAppended(parts', Finished, new)
    BY <1>1, <2>1, AppendIs
  <2>3. QED  BY <2>1, <2>2 DEF IsAppended
<1> HIDE DEF n
<1>0a. /\ n + 1 \in 1..(n + 1) /\ n + 1 \in Nat /\ 1..n \subseteq 1..(n + 1)
       /\ \A i \in 1..(n + 1) : i \in 1..n \/ i = n + 1
       /\ \A i \in 0..n : i \in Nat /\ 1..i \subseteq 1..n
       /\ \A i \in 1..n : i \in 0..n
       /\ n \in 0..n /\ n <= n + 1
  BY <1>0, Intervals
<1>5. /\ IsSeq(sets') /\ DOMAIN sets' \subseteq {1}
      /\ \A i \in DOMAIN sets' : IsItemSet(sets'[i]) /\ sets'[i].map = EmptyMap
  <2>1. CASE takesItems
    <3>1. sets' = <<ItemSet("", EmptyMap)>>
      BY <1>1, <2>1
    <3>2. DOMAIN sets' = {1} /\ sets'[1] = ItemSet("", EmptyMap) /\ IsSeq(sets')
      BY <3>1, SingleIs
    <3>3. IsItemSet(ItemSet("", EmptyMap)) /\ ItemSet("", EmptyMap).map = EmptyMap
      BY EmptyMapIs DEF ItemSet, IsItemSet
    <3>5. QED  BY <3>2, <3>3
  <2>2. CASE ~takesItems
    <3>1. sets' = <<>>
      BY <1>1, <2>2
    <3>3. QED  BY <3>1, EmptyIs
  <2>3. QED  BY <2>1, <2>2
<1>6. Shape'
  <2>1. \A i \in DOMAIN parts' : IsPart(parts'[i])
    BY <1>0, <1>0a, <1>2, <1>3, <1>4
  <2>2. \A i \in DOMAIN sets' : IsItemSet(sets'[i]) /\ (i # 1 => sets'[i].name \in Name)
    BY <1>5
  <2>3. IsSeq(parts') /\ IsSeq(levels') /\ IsSeq(sets')
    BY <1>h, <1>1, <1>4, <1>5
  <2>4. parts' # <<>> /\ parts'[Len(parts')].values = EmptyMap
    <3>1. parts' # <<>>
      BY <1>0a, <1>4, EmptyIs
    <3>2. QED  BY <3>1, <1>3, <1>4
  <2>5. QED  BY <2>1, <2>2, <2>3, <2>4 DEF Shape
<1>7. \A i \in 0..n : Known(Finished, i) \subseteq Known(parts', i)
  <2> TAKE i \in 0..n
  <2>1. \A j \in 1..i : DeclaredBy(Finished[j]) \subseteq DeclaredBy(parts'[j])
    BY <1>0a, <1>4
  <2>2. QED  BY <1>0a, <2>1 DEF Known
<1>8. Known(Finished, n) \subseteq Known(parts', n + 1)
  <2>1. \A j \in 1..n : DeclaredBy(Finished[j]) \subseteq DeclaredBy(parts'[j])
    BY <1>4
  <2>2. QED  BY <1>0a, <2>1 DEF Known
<1>9. kind \in Loops => name \in Known(parts', n + 1)
  <2>1. kind \in Loops => name \in DeclaredBy(parts'[n + 1])
    BY <1>3, <1>4 DEF DeclaredBy
  <2>2. QED  BY <1>0a, <2>1 DEF Known
<1>10. keys' \subseteq Known(parts', n + 1)
  BY <1>h, <1>2, <1>8, <1>9 DEF IInv, KeysAreKnown, n
<1>11. Known(parts', n + 1) \subseteq KnownNow'
  BY <1>4 DEF KnownNow, KnownIn
<1>12. PartsUseKnown'
  <2>1. \A i \in 1..n : UsedBy(parts'[i]) \subseteq Known(parts', i)
    <3> TAKE i \in 1..n
    <3>1. UsedBy(Finished[i]) \subseteq Known(Finished, i)
      BY <1>0, <1>2
    <3>2. Known(Finished, i) \subseteq Known(parts', i)
      BY <1>0a, <1>7
    <3>3. parts'[i] = Finished[i]
      BY <1>4
    <3>4. QED  BY <3>1, <3>2, <3>3
  <2>2. UsedBy(parts'[n + 1]) \subseteq Known(parts', n + 1)
    BY <1>h, <1>3, <1>4, <1>10, EmptyMapIs DEF UsedBy
  <2>3. \A i \in DOMAIN parts' : i \in 1..n \/ i = n + 1
    BY <1>0a, <1>4
  <2>4. QED  BY <2>1, <2>2, <2>3 DEF PartsUseKnown
<1>13. SetsUseKnown'
  BY <1>5, EmptyMapIs DEF SetsUseKnown
<1>14. KeysAreKnown'
  BY <1>10, <1>11 DEF KeysAreKnown
<1>15. WrongIsOpen'
  <2>1. ASSUME NEW i \in 1..n, parts[i].kind = "wrong for"
        PROVE  \E j \in DOMAIN levels' : levels'[j].owner = i
    <3>1. ~(i = Len(parts) /\ sets # <<>>)
      BY <1>h, <2>1
    <3>2. PICK j \in DOMAIN levels : levels[j].owner = i
      BY <1>0, <2>1, <3>1 DEF IInv, WrongIsOpen
    <3>3. QED  BY <1>h, <1>1, <3>2
  <2>2. kind = "wrong for" => sets' # <<>>
    BY <1>h, <1>1
  <2>3. SUFFICES ASSUME NEW i \in DOMAIN parts', parts'[i].kind = "wrong for"
                 PROVE  \/ i = Len(parts') /\ sets' # <<>>
                        \/ \E j \in DOMAIN levels' : levels'[j].owner = i
    BY DEF WrongIsOpen
  <2>4. CASE i \in 1..n
    BY <1>0, <1>2, <1>4, <2>1, <2>3, <2>4
  <2>5. CASE i = n + 1
    BY <1>3, <1>4, <2>2, <2>3, <2>5
  <2>6. QED  BY <1>0a, <1>4, <2>4, <2>5
<1>16. IdentifiersAreDeclared'
  BY <1>1 DEF IInv, IdentifiersAreDeclared
<1>17. QED
  BY <1>6, <1>12, <1>13, <1>14, <1>15, <1>16 DEF IInv

-----------------------------------------------------------------------------
(* The lines of an item set. *)

LEMMA ValuesAreInputs ==
    ASSUME NEW v \in Values
    PROVE  v.type = "INPUT" /\ IsItem(v)
<1>1. CASE \E l \in Literal : v = ValueItem(l.data, l.data[1])
  BY <1>1 DEF ValueItem, IsItem
<1>2. CASE \E n \in Name, a \in Arguments : v = Identifier(n, a)
  BY <1>2 DEF Identifier, ValueItem, IsItem
<1>3. QED
  BY <1>1, <1>2 DEF Values

LEMMA TypedIs ==
    ASSUME NEW v, IsItem(v), NEW t, NEW w, w = [v EXCEPT !.type = t]
    PROVE  /\ IsItem(w) /\ w.type = t
           /\ w.isIdentifier = v.isIdentifier /\ w.arguments = v.arguments
           /\ w.item = v.item
BY DEF IsItem

LEMMA ValueItemIs ==
    ASSUME NEW item, NEW fieldType
    PROVE  LET v == ValueItem(item, fieldType)
           IN  IsItem(v) /\ v.isIdentifier = FALSE /\ v.arguments = {}
BY DEF ValueItem, IsItem

LEMMA IdentifierIs ==
    ASSUME NEW name, NEW arguments
    PROVE  IsItem(Identifier(name, arguments))
                /\ Identifier(name, arguments).isIdentifier = TRUE
<1>1. PICK b : b = ValueItem(<<"str", name>>, "undefined")
  OBVIOUS
<1>2. IsItem(b)
  BY <1>1, ValueItemIs
<1>3. Identifier(name, arguments) =
        [b EXCEPT !.isIdentifier = TRUE, !.arguments = arguments]
  BY <1>1 DEF Identifier
<1>4. QED
  BY <1>2, <1>3 DEF IsItem

LEMMA ReadValueStep ==
    ASSUME IInv, NEW name \in Name, NEW v \in Values, ReadValue(name, v)
    PROVE  IInv'
<1>1. phase = "reading" /\ sets # <<>> /\ keys' = keys \cup {name}
  BY DEF ReadValue, Reading
<1>2. v.type = "INPUT" /\ IsItem(v)
  BY ValuesAreInputs
<1>3. Declares(v) /\ UsedAt(Place(name), v) = IdentifiersIn(v)
  BY <1>2 DEF Declares, UsedAt
<1>4. CASE IdentifiersIn(v) \subseteq keys' /\ Enter(name, v)
  BY <1>1, <1>2, <1>3, <1>4, EnterStep
<1>5. CASE Stop(output)
  BY <1>5, StopStep
<1>6. QED
  BY <1>4, <1>5 DEF ReadValue

LEMMA ReadJsonStep ==
    ASSUME IInv, NEW name \in Name, NEW data, ReadJson(name, data)
    PROVE  IInv'
<1> DEFINE v == ValueItem(data, IF Current = EmptyMap THEN data[1] ELSE "undefined")
<1>1. /\ phase = "reading" /\ sets # <<>> /\ keys' = keys \cup {name}
      /\ Enter(name, v)
  BY DEF ReadJson, Reading
<1>2. /\ v.type = "INPUT" /\ v.isIdentifier = FALSE /\ v.arguments = {}
      /\ IsItem(v)
  BY DEF ValueItem, IsItem
<1> HIDE DEF v
<1>3. Declares(v) /\ UsedAt(Place(name), v) = {}
  BY <1>2 DEF Declares, UsedAt, IdentifiersIn
<1>4. QED
  BY <1>1, <1>2, <1>3, EnterStep

LEMMA ReadDeclarationStep ==
    ASSUME IInv, NEW name \in Name, NEW fieldType,
           NEW direction \in {"INPUT", "OUTPUT"},
           ReadDeclaration(name, fieldType, direction)
    PROVE  IInv'
<1> DEFINE item == <<"str", IF direction = "INPUT" THEN "?" ELSE "">>
           v == [ValueItem(item, fieldType) EXCEPT !.type = direction]
<1>1. /\ phase = "reading" /\ sets # <<>> /\ keys' = keys \cup {name}
      /\ Enter(name, v)
  BY DEF ReadDeclaration, Reading
<1>2. /\ v.type = direction /\ v.isIdentifier = FALSE /\ v.arguments = {}
      /\ IsItem(v)
  <2> HIDE DEF item
  <2>1. PICK b : b = ValueItem(item, fieldType)
    OBVIOUS
  <2>2. IsItem(b) /\ b.isIdentifier = FALSE /\ b.arguments = {}
    BY <2>1, ValueItemIs
  <2>3. v = [b EXCEPT !.type = direction]
    BY <2>1
  <2> HIDE DEF v
  <2>4. QED  BY <2>2, <2>3, TypedIs
<1> HIDE DEF v
<1>3. Declares(v) /\ UsedAt(Place(name), v) = {}
  BY <1>2 DEF Declares, UsedAt, IdentifiersIn
<1>4. QED
  BY <1>1, <1>2, <1>3, EnterStep

LEMMA ReadOutputStep ==
    ASSUME IInv, NEW field \in Name, NEW name \in Name, ReadOutput(field, name)
    PROVE  IInv'
<1> DEFINE v == [Identifier(field, {}) EXCEPT !.type = "OUTPUT"]
<1>1. phase = "reading" /\ sets # <<>> /\ keys' = keys
  BY DEF ReadOutput, Reading
<1>2. v.type = "OUTPUT" /\ v.isIdentifier = TRUE /\ IsItem(v)
  <2>1. PICK b : b = Identifier(field, {})
    OBVIOUS
  <2>2. IsItem(b) /\ b.isIdentifier = TRUE
    BY <2>1, IdentifierIs
  <2>3. v = [b EXCEPT !.type = "OUTPUT"]
    BY <2>1
  <2> HIDE DEF v
  <2>4. QED  BY <2>2, <2>3, TypedIs
<1>3. CASE name \in keys /\ Enter(name, v)
  <2> HIDE DEF v
  <2>1. UsedAt(Place(name), v) = {name}
    BY <1>2, PlaceIs DEF UsedAt
  <2>2. UsedAt(Place(name), v) \subseteq keys'
    BY <1>1, <1>3, <2>1
  <2>3. QED  BY <1>1, <1>2, <1>3, <2>2, EnterStep
<1>4. CASE Stop(output)
  BY <1>4, StopStep
<1>5. QED
  BY <1>3, <1>4 DEF ReadOutput, IsRegistered

LEMMA ReadCompareStep ==
    ASSUME IInv, NEW name \in Name, NEW compare, NEW v \in Values,
           ReadCompare(name, compare, v)
    PROVE  IInv'
<1> DEFINE w == [v EXCEPT !.type = IF compare \in {"==", "!="}
                                   THEN "COMPARE_EQUAL" ELSE v.type]
<1>1. phase = "reading" /\ sets # <<>> /\ keys' = keys
  BY DEF ReadCompare, Reading
<1>2. /\ w.type # "OUTPUT"
      /\ w.isIdentifier = v.isIdentifier /\ w.item = v.item
      /\ w.arguments = v.arguments
      /\ IsItem(w)
  <2>1. v.type = "INPUT" /\ IsItem(v)
    BY ValuesAreInputs
  <2>2. QED  BY <2>1 DEF IsItem
<1> HIDE DEF w
<1>3. CASE IdentifiersIn(v) \subseteq keys /\ Enter(name, w)
  <2>1. UsedAt(Place(name), w) = IdentifiersIn(v)
    BY <1>2 DEF UsedAt, IdentifiersIn
  <2>2. UsedAt(Place(name), w) \subseteq keys'
    BY <1>1, <1>3, <2>1
  <2>3. QED  BY <1>1, <1>2, <1>3, <2>2, EnterStep
<1>4. CASE Stop(output)
  BY <1>4, StopStep
<1>5. QED
  BY <1>3, <1>4 DEF ReadCompare, IsRegistered, w

LEMMA OpenSetStep ==
    ASSUME IInv, NEW name \in Name, OpenSet(name)
    PROVE  IInv'
<1> DEFINE new == ItemSet(name, EmptyMap)
           n == Len(sets)
<1>1. /\ phase = "reading" /\ sets # <<>> /\ keys' = keys \cup {name}
      /\ sets' = Append(sets, new) /\ Continue
  BY DEF OpenSet, Reading
<1>2. IsItemSet(new) /\ new.name = name /\ new.map = EmptyMap
  BY EmptyMapIs DEF ItemSet, IsItemSet
<1> HIDE DEF new
<1>3. n \in Nat /\ DOMAIN sets = 1..n /\ n # 0
  BY <1>1, SeqDomain DEF IInv, Shape
<1>4. IsAppended(sets', sets, new)
  BY <1>1, AppendIs DEF IInv, Shape
<1>5. /\ IsSeq(sets') /\ DOMAIN sets' = 1..(n + 1)
      /\ \A i \in 1..n : sets'[i] = sets[i]
      /\ sets'[n + 1] = new
  BY <1>4 DEF IsAppended
<1> HIDE DEF n
<1>6. n + 1 \in 1..(n + 1) /\ n + 1 # 1 /\ 1..n \subseteq 1..(n + 1)
      /\ \A i \in 1..(n + 1) : i \in 1..n \/ i = n + 1
  BY <1>3, Intervals
<1>7. parts' = parts /\ levels' = levels
  BY <1>1 DEF Continue
<1>8. sets' # <<>>
  BY <1>5, <1>6, EmptyIs
<1>9. Shape'
  <2>1. \A i \in DOMAIN sets' : IsItemSet(sets'[i]) /\ (i # 1 => sets'[i].name \in Name)
    BY <1>2, <1>3, <1>5, <1>6 DEF IInv, Shape
  <2>2. QED  BY <1>1, <1>5, <1>7, <2>1 DEF IInv, Shape
<1>10. KnownNow \subseteq KnownNow' /\ name \in KnownNow'
  <2>1. name \in KnownNow'
    <3>1. n + 1 \in DOMAIN sets' \ {1}
      BY <1>3, <1>5, <1>6
    <3>2. sets'[n + 1].name = name
      BY <1>2, <1>5
    <3>3. QED  BY <3>1, <3>2, KnownInHas DEF KnownNow
  <2>2. DOMAIN sets \subseteq DOMAIN sets' /\ \A i \in DOMAIN sets : sets'[i] = sets[i]
    BY <1>3, <1>5, <1>6
  <2>3. KnownNow \subseteq KnownNow'
    BY <1>7, <2>2 DEF KnownNow, KnownIn
  <2>4. QED  BY <2>1, <2>3
<1>11. SetsUseKnown'
  <2>1. \A i \in 1..n : UsedIn(sets'[i].map) \subseteq KnownNow'
    BY <1>3, <1>5, <1>10 DEF IInv, SetsUseKnown
  <2>2. UsedIn(sets'[n + 1].map) = {}
    BY <1>2, <1>5, EmptyMapIs
  <2>3. QED  BY <1>5, <1>6, <2>1, <2>2 DEF SetsUseKnown
<1>12. keys' \subseteq KnownNow'
  BY <1>1, <1>10 DEF IInv, KeysAreKnown
<1>13. QED
  BY <1>1, <1>8, <1>9, <1>10, <1>11, <1>12, SetsStep

\* A map that is closed declares its name in the one around it.
LEMMA CloseSetStep ==
    ASSUME IInv, CloseSet
    PROVE  IInv'
<1> DEFINE n == Len(sets)
           name == LastOf(sets).name
           outer == sets[n - 1].map
           map == InsertMap(outer, name, Current)
           new == ItemSet(sets[n - 1].name, map)
<1>1. phase = "reading" /\ n > 1 /\ keys' = keys
  BY DEF CloseSet
<1>2. CASE Stop(output)
  BY <1>2, StopStep
<1>3. CASE ~Contains(outer, name) /\ Continue
            /\ sets' = [Front(sets) EXCEPT ![n - 1] = ItemSet(@.name, map)]
  <2>1. IsSeq(sets) /\ n \in Nat /\ DOMAIN sets = 1..n
    BY SeqDomain DEF IInv, Shape
  <2>2. sets # <<>> /\ n \in DOMAIN sets /\ n - 1 \in DOMAIN sets
        /\ n - 1 \in 1..(n - 1) /\ n # 1 /\ 1..(n - 1) \subseteq DOMAIN sets
        /\ \A i \in 1..n : i \in 1..(n - 1) \/ i = n
    <3>1. PICK m \in Nat : n = m + 1 /\ m > 0
      <4>1. n - 1 \in Nat /\ n = (n - 1) + 1 /\ n - 1 > 0
        BY <1>1, <2>1
      <4>2. QED  BY <4>1
    <3>2. /\ m + 1 \in 1..(m + 1) /\ m \in 1..(m + 1) /\ m \in 1..m
          /\ m + 1 # 1 /\ 1..m \subseteq 1..(m + 1) /\ (m + 1) - 1 = m
          /\ \A i \in 1..(m + 1) : i \in 1..m \/ i = m + 1
      BY <3>1, Intervals
    <3>3. sets # <<>>
      BY <2>1, <3>1, <3>2, EmptyIs
    <3> HIDE DEF n
    <3>4. QED  BY <2>1, <3>1, <3>2, <3>3
  <2>3. IsItemSet(sets[n]) /\ IsItemSet(sets[n - 1]) /\ sets[n].name \in Name
    BY <2>2 DEF IInv, Shape
  <2>4. name = sets[n].name /\ Current = sets[n].map
    BY DEF Current, LastOf
  <2>5. /\ IsMap(map)
        /\ UsedIn(map) \subseteq UsedIn(outer) \cup UsedIn(Current)
        /\ DeclaredIn(outer) \cup DeclaredIn(Current) \cup {name}
                \subseteq DeclaredIn(map)
    <3>1. IsMap(outer) /\ IsMap(Current) /\ name \in Name /\ ~Contains(outer, name)
      BY <1>3, <2>3, <2>4 DEF IsItemSet
    <3> HIDE DEF outer, name
    <3>2. QED  BY <3>1, InsertMapIs
  <2>6. /\ IsSeq(Front(sets)) /\ DOMAIN Front(sets) = 1..(n - 1)
        /\ \A i \in 1..(n - 1) : Front(sets)[i] = sets[i]
    BY <2>1, <2>2, FrontIs
  <2>7. sets' = [Front(sets) EXCEPT ![n - 1] = new]
    BY <1>3, <2>2, <2>6
  <2>8. new.name = sets[n - 1].name /\ new.map = map /\ IsItemSet(new)
    BY <2>5 DEF ItemSet, IsItemSet
  <2> HIDE DEF map, new
  <2>9. /\ IsSeq(sets') /\ DOMAIN sets' = 1..(n - 1)
        /\ sets'[n - 1] = new
        /\ \A i \in 1..(n - 1) : i # n - 1 => sets'[i] = sets[i]
    <3> HIDE DEF n
    <3> QED  BY <2>2, <2>6, <2>7, ReplaceIs
  <2> HIDE DEF n, name, outer
  <2>10. parts' = parts /\ levels' = levels
    BY <1>3 DEF Continue
  <2>11. sets' # <<>>
    BY <2>2, <2>9, EmptyIs
  <2>12. \A i \in 1..(n - 1) : IsItemSet(sets'[i]) /\ sets'[i].name = sets[i].name
    BY <2>2, <2>8, <2>9 DEF IInv, Shape
  <2>13. Shape'
    <3>1. \A i \in DOMAIN sets' : IsItemSet(sets'[i]) /\ (i # 1 => sets'[i].name \in Name)
      BY <2>2, <2>9, <2>12 DEF IInv, Shape
    <3>2. QED  BY <2>2, <2>9, <2>10, <3>1 DEF IInv, Shape
  <2>14. /\ \A i \in 1..(n - 1) : DeclaredIn(sets[i].map) \subseteq DeclaredIn(sets'[i].map)
         /\ DeclaredIn(sets[n].map) \cup {name} \subseteq DeclaredIn(sets'[n - 1].map)
    BY <2>4, <2>5, <2>8, <2>9 DEF outer
  <2>15. KnownNow \subseteq KnownNow'
    <3>1. \A i \in 1..n : DeclaredIn(sets[i].map) \subseteq KnownNow'
      BY <2>2, <2>9, <2>14, KnownInHas DEF KnownNow
    <3>2. \A i \in 1..n \ {1} : sets[i].name \in KnownNow'
      <4> TAKE i \in 1..n \ {1}
      <4>1. CASE i = n
        BY <2>2, <2>4, <2>9, <2>14, <4>1, KnownInHas DEF KnownNow
      <4>2. CASE i \in 1..(n - 1)
        <5>1. i \in DOMAIN sets' \ {1} /\ sets'[i].name = sets[i].name
          BY <2>9, <2>12, <4>2
        <5>2. sets'[i].name \in KnownNow'
          BY <5>1, KnownInHas DEF KnownNow
        <5>3. QED  BY <5>1, <5>2
      <4>3. QED  BY <2>2, <4>1, <4>2
    <3>3. Known(parts, Len(parts)) \subseteq KnownNow'
      BY <2>10, KnownInHas DEF KnownNow
    <3>4. KnownIn(parts, sets) \subseteq KnownNow'
      BY <2>1, <3>1, <3>2, <3>3, KnownInWithin
    <3>5. QED  BY <3>4 DEF KnownNow
  <2>16. SetsUseKnown'
    <3>1. UsedIn(sets'[n - 1].map) \subseteq KnownNow'
      BY <2>2, <2>4, <2>5, <2>8, <2>9, <2>15 DEF IInv, SetsUseKnown, outer
    <3>2. \A i \in 1..(n - 1) : i # n - 1 => UsedIn(sets'[i].map) \subseteq KnownNow'
      BY <2>2, <2>9, <2>15 DEF IInv, SetsUseKnown
    <3>3. QED  BY <2>9, <3>1, <3>2 DEF SetsUseKnown
  <2>17. keys' \subseteq KnownNow'
    BY <1>1, <2>15 DEF IInv, KeysAreKnown
  <2>18. QED
    BY <1>3, <2>2, <2>11, <2>13, <2>15, <2>16, <2>17, SetsStep
<1>4. QED
  BY <1>2, <1>3 DEF CloseSet

-----------------------------------------------------------------------------
(* The lines between item sets. *)

LEMMA HeadersStep ==
    ASSUME IInv, ReadHeader
    PROVE  IInv'
<1> DEFINE Behind(braces) ==
             /\ IsSeq(braces)
             /\ \A j \in DOMAIN levels :
                    \E k \in DOMAIN braces : braces[k].owner = levels[j].owner
           May == /\ phase = "reading" /\ Len(sets) <= 1
                  /\ sets # <<>> => parts[Len(parts)].kind # "wrong for"
<1>0. Behind(levels)
  BY DEF IInv, Shape
<1>1. ASSUME NEW kind
      PROVE  Behind(Open(kind))
  <2> DEFINE new == [kind |-> kind, owner |-> Len(parts) + 1]
  <2>1. IsAppended(Open(kind), levels, new)
    BY <1>0, AppendIs DEF Open
  <2> HIDE DEF new
  <2>2. Len(levels) \in Nat /\ DOMAIN levels = 1..Len(levels)
    BY <1>0, SeqDomain
  <2>3. 1..Len(levels) \subseteq 1..(Len(levels) + 1)
    BY <2>2, Intervals
  <2>4. QED
    BY <2>1, <2>2, <2>3 DEF IsAppended
<1>a. phase = "reading" /\ SetMayEnd => May
  BY DEF SetMayEnd, AwaitsBrace, LastOf, Loops
<1>2. CASE ReadTree
  <2>1. phase = "reading" /\ parts = <<>> /\ sets = <<>> /\ keys' = keys
    BY <1>2 DEF ReadTree, Reading, IInv, Shape
  <2>2. May
    BY <2>1, EmptyIs
  <2>3. Begin("tree", "", {}, TRUE, levels)
    BY <1>2 DEF ReadTree
  <2>4. Header("tree", "", {}, TRUE, levels)
    BY <1>0, <2>1, <2>2, <2>3 DEF Header
  <2>5. QED
    BY <2>4, BeginStep, Zenon
<1>3. ASSUME NEW kind \in {"group", "subtree"}, ReadGroup(kind)
      PROVE  IInv'
  <2>1. May /\ keys' = keys /\ Begin(kind, "", {}, TRUE, levels)
    BY <1>a, <1>3 DEF ReadGroup, Reading
  <2>2. Header(kind, "", {}, TRUE, levels)
    BY <1>0, <2>1 DEF Header
  <2>3. QED
    BY <2>2, BeginStep, Zenon
<1>4. ASSUME NEW takesItems \in BOOLEAN, ReadBlossom(takesItems)
      PROVE  IInv'
  <2>1. May /\ keys' = keys /\ Begin("blossom", "", {}, takesItems, levels)
    BY <1>a, <1>4 DEF ReadBlossom, Reading
  <2>2. Header("blossom", "", {}, takesItems, levels)
    BY <1>0, <2>1 DEF Header
  <2>3. QED
    BY <2>2, BeginStep, Zenon
<1>5. ASSUME NEW left, NEW right, ReadIf(left, right)
      PROVE  IInv'
  <2> DEFINE uses == IdentifiersIn(left) \cup IdentifiersIn(right)
  <2>1. May /\ keys' = keys
    BY <1>a, <1>5 DEF ReadIf, Reading
  <2>2. CASE Stop(output)
    BY <2>2, StopStep
  <2>3. CASE uses \subseteq keys /\ Begin("if", "", uses, FALSE, Open("if"))
    <3> HIDE DEF uses
    <3>1. Behind(Open("if"))
      BY <1>1
    <3>2. Header("if", "", uses, FALSE, Open("if"))
      BY <2>1, <2>3, <3>1 DEF Header
    <3>3. QED  BY <3>2, BeginStep, Zenon
  <2>4. QED
    BY <1>5, <2>2, <2>3 DEF ReadIf, IsRegistered
<1>6. CASE ReadParallel
  <2>1. May /\ keys' = keys /\ Begin("parallel", "", {}, FALSE, Open("parallel"))
    BY <1>a, <1>6 DEF ReadParallel, Reading
  <2>2. Behind(Open("parallel"))
    BY <1>1
  <2>3. Header("parallel", "", {}, FALSE, Open("parallel"))
    BY <2>1, <2>2 DEF Header
  <2>4. QED
    BY <2>3, BeginStep, Zenon
<1>7. ASSUME NEW name, NEW v, ReadForEach(name, v)
      PROVE  IInv'
  <2> DEFINE uses == IdentifiersIn(v)
  <2>1. May /\ keys' = keys \cup {name}
    BY <1>a, <1>7 DEF ReadForEach, Reading
  <2>2. CASE Stop(output)
    BY <2>2, StopStep
  <2>3. CASE uses \subseteq keys' /\ Begin("for each", name, uses, TRUE, levels)
    <3> HIDE DEF uses
    <3>1. "for each" \in Loops
      BY DEF Loops
    <3>2. Header("for each", name, uses, TRUE, levels)
      BY <1>0, <2>1, <2>3, <3>1 DEF Header
    <3>3. QED  BY <3>2, BeginStep, Zenon
  <2>4. QED
    BY <1>7, <2>2, <2>3 DEF ReadForEach
<1>8. ASSUME NEW name, NEW start, NEW end, NEW agree, ReadFor(name, start, end, agree)
      PROVE  IInv'
  <2> DEFINE uses == IdentifiersIn(start) \cup IdentifiersIn(end)
             kind == IF agree THEN "for" ELSE "wrong for"
  <2>1. May /\ keys' = keys \cup {name}
    BY <1>a, <1>8 DEF ReadFor, Reading
  <2>2. CASE Stop(output)
    BY <2>2, StopStep
  <2>3. CASE uses \subseteq keys' /\ Begin(kind, name, uses, TRUE, levels)
    <3>1. kind \in Loops
      BY DEF Loops
    <3> HIDE DEF uses, kind
    <3>2. Header(kind, name, uses, TRUE, levels)
      BY <1>0, <2>1, <2>3, <3>1 DEF Header
    <3>3. QED  BY <3>2, BeginStep, Zenon
  <2>4. QED
    BY <1>8, <2>2, <2>3 DEF ReadFor
<1>9. QED
  BY <1>2, <1>3, <1>4, <1>5, <1>6, <1>7, <1>8 DEF ReadHeader

\* The items of the last part are complete, and no part begins.
LEMMA FinishStep ==
    ASSUME IInv, phase = "reading", Len(sets) <= 1,
           parts' = Finished, sets' = <<>>, IsSeq(levels'),
           phase' = phase, keys' = keys, handed' = handed,
           \A i \in DOMAIN parts : parts[i].kind = "wrong for" =>
                \E j \in DOMAIN levels' : levels'[j].owner = i
    PROVE  IInv'
<1>1. /\ IsSeq(parts') /\ Len(parts') = Len(parts)
      /\ DOMAIN parts' = DOMAIN parts
      /\ \A i \in DOMAIN parts :
            /\ IsPart(parts'[i])
            /\ parts'[i].kind = parts[i].kind
            /\ UsedBy(parts'[i]) \subseteq Known(parts', i)
      /\ KnownNow \subseteq Known(parts', Len(parts))
  BY FinishedIs
<1>2. DOMAIN sets' = {} /\ IsSeq(sets')
  BY EmptyIs
<1>3. Shape'
  BY <1>1, <1>2 DEF Shape
<1>4. PartsUseKnown'
  BY <1>1 DEF PartsUseKnown
<1>5. SetsUseKnown'
  BY <1>2 DEF SetsUseKnown
<1>6. KeysAreKnown'
  <2>1. KnownNow \subseteq KnownNow'
    BY <1>1, KnownInHas DEF KnownNow
  <2>2. QED  BY <2>1 DEF IInv, KeysAreKnown
<1>7. WrongIsOpen'
  BY <1>1 DEF WrongIsOpen
<1>8. IdentifiersAreDeclared'
  BY DEF IInv, IdentifiersAreDeclared
<1>9. QED
  BY <1>3, <1>4, <1>5, <1>6, <1>7, <1>8 DEF IInv

LEMMA OpenBraceStep ==
    ASSUME IInv, OpenBrace
    PROVE  IInv'
<1> DEFINE new == [kind |-> "loop", owner |-> Len(parts)]
<1>1. /\ phase = "reading" /\ Len(sets) = 1
      /\ parts' = Finished /\ sets' = <<>> /\ levels' = Append(levels, new)
      /\ phase' = phase /\ keys' = keys /\ handed' = handed
  BY DEF OpenBrace
<1>2. new.owner = Len(parts)
  OBVIOUS
<1> HIDE DEF new
<1>3. IsSeq(levels) /\ Len(levels) \in Nat /\ DOMAIN levels = 1..Len(levels)
  BY SeqDomain DEF IInv, Shape
<1>4. IsAppended(levels', levels, new)
  BY <1>1, <1>3, AppendIs
<1>5. ASSUME NEW i \in DOMAIN parts, parts[i].kind = "wrong for"
      PROVE  \E j \in DOMAIN levels' : levels'[j].owner = i
  <2>1. CASE i = Len(parts)
    <3>1. Len(levels) + 1 \in DOMAIN levels' /\ levels'[Len(levels) + 1].owner = i
      BY <1>2, <1>3, <1>4, <2>1, Intervals DEF IsAppended
    <3>2. QED  BY <3>1
  <2>2. ASSUME NEW j \in DOMAIN levels, levels[j].owner = i
        PROVE  \E k \in DOMAIN levels' : levels'[k].owner = i
    <3>1. j \in DOMAIN levels' /\ levels'[j].owner = i
      BY <1>3, <1>4, <2>2, Intervals DEF IsAppended
    <3>2. QED  BY <3>1
  <2>3. QED  BY <1>5, <2>1, <2>2 DEF IInv, WrongIsOpen
<1>6. IsSeq(levels')
  BY <1>4 DEF IsAppended
<1>7. Len(sets) <= 1
  BY <1>1
<1>8. QED
  BY <1>1, <1>5, <1>6, <1>7, FinishStep

\* A brace that is closed is not that of a loop whose names differ.
LEMMA CloseBraceStep ==
    ASSUME IInv, CloseBrace
    PROVE  IInv'
<1>1. /\ phase = "reading" /\ levels # <<>> /\ SetMayEnd /\ Len(sets) <= 1
      /\ keys' = keys
  BY DEF CloseBrace, SetMayEnd
<1>2. CASE Stop(output)
  BY <1>2, StopStep
<1>3. CASE /\ parts[LastOf(levels).owner].kind # "wrong for"
           /\ parts' = Finished /\ sets' = <<>> /\ levels' = Front(levels)
           /\ phase' = phase /\ handed' = handed
  <2>1. IsSeq(levels) /\ Len(levels) \in Nat /\ DOMAIN levels = 1..Len(levels)
    BY SeqDomain DEF IInv, Shape
  <2>2. /\ IsSeq(levels') /\ DOMAIN levels' = 1..(Len(levels) - 1)
        /\ \A j \in 1..(Len(levels) - 1) : levels'[j] = levels[j]
    BY <1>1, <1>3, <2>1, FrontIs
  <2>3. ASSUME NEW i \in DOMAIN parts, parts[i].kind = "wrong for"
        PROVE  \E j \in DOMAIN levels' : levels'[j].owner = i
    <3>1. ~(i = Len(parts) /\ sets # <<>>)
      BY <1>1, <2>3 DEF SetMayEnd, AwaitsBrace, LastOf, Loops
    <3>2. PICK j \in DOMAIN levels : levels[j].owner = i
      BY <2>3, <3>1 DEF IInv, WrongIsOpen
    <3>3. j # Len(levels)
      BY <1>3, <2>3, <3>2 DEF LastOf
    <3>4. j \in 1..(Len(levels) - 1)
      BY <2>1, <3>2, <3>3
    <3>5. QED  BY <2>2, <3>2, <3>4
  <2>4. QED
    BY <1>1, <1>3, <2>2, <2>3, FinishStep
<1>4. QED
  BY <1>2, <1>3 DEF CloseBrace

LEMMA ReadElseStep ==
    ASSUME IInv, ReadElse
    PROVE  IInv'
<1> DEFINE new == [kind |-> "else", owner |-> closed.owner]
<1>1. /\ phase' = phase /\ keys' = keys /\ parts' = parts /\ sets' = sets
      /\ handed' = handed /\ levels' = Append(levels, new)
  BY DEF ReadElse
<1> HIDE DEF new
<1>2. IsSeq(levels) /\ Len(levels) \in Nat /\ DOMAIN levels = 1..Len(levels)
  BY SeqDomain DEF IInv, Shape
<1>3. IsAppended(levels', levels, new)
  BY <1>1, <1>2, AppendIs
<1>4. Shape'
  BY <1>1, <1>3 DEF IInv, Shape, IsAppended
<1>5. KnownNow' = KnownNow
  BY <1>1 DEF KnownNow
<1>6. PartsUseKnown' /\ SetsUseKnown' /\ KeysAreKnown' /\ IdentifiersAreDeclared'
  <2>1. PartsUseKnown' /\ IdentifiersAreDeclared'
    BY <1>1 DEF IInv, PartsUseKnown, IdentifiersAreDeclared
  <2>2. SetsUseKnown' /\ KeysAreKnown'
    BY <1>1, <1>5 DEF IInv, SetsUseKnown, KeysAreKnown
  <2>3. QED  BY <2>1, <2>2
<1>7. WrongIsOpen'
  <2>1. SUFFICES ASSUME NEW i \in DOMAIN parts, parts[i].kind = "wrong for",
                        ~(i = Len(parts) /\ sets # <<>>)
                 PROVE  \E k \in DOMAIN levels' : levels'[k].owner = i
    BY <1>1 DEF WrongIsOpen
  <2>2. PICK j \in DOMAIN levels : levels[j].owner = i
    BY <2>1 DEF IInv, WrongIsOpen
  <2>3. j \in DOMAIN levels' /\ levels'[j].owner = i
    BY <1>2, <1>3, <2>2, Intervals DEF IsAppended
  <2>4. QED  BY <2>3
<1>8. QED
  BY <1>4, <1>6, <1>7 DEF IInv

\* Nothing is open any more when a tree is handed out.
LEMMA EndOfTextStep ==
    ASSUME IInv, EndOfText
    PROVE  IInv'
<1>1. CASE Stop(output)
  BY <1>1, StopStep
<1>2. CASE /\ TreeIsComplete /\ handed' = ParseTreeString(TRUE, Finished)
           /\ phase' = "handed"
           /\ parts' = parts /\ levels' = levels /\ sets' = sets
  <2>1. handed' = Finished /\ SetMayEnd /\ levels = <<>> /\ Len(sets) <= 1
    BY <1>2 DEF ParseTreeString, TreeIsComplete, SetMayEnd
  <2>2. Shape' /\ PartsUseKnown' /\ WrongIsOpen'
    BY <1>2 DEF IInv, Shape, PartsUseKnown, WrongIsOpen
  <2>3. SetsUseKnown' /\ KeysAreKnown'
    <3>1. KnownNow' = KnownNow
      BY <1>2 DEF KnownNow
    <3>2. SetsUseKnown'
      BY <1>2, <3>1 DEF IInv, SetsUseKnown
    <3>3. KeysAreKnown'
      BY <1>2 DEF KeysAreKnown
    <3>4. QED  BY <3>2, <3>3
  <2>4. /\ DOMAIN handed' = DOMAIN parts
        /\ \A i \in DOMAIN parts :
            /\ handed'[i].kind = parts[i].kind
            /\ UsedBy(handed'[i]) \subseteq Known(handed', i)
    BY <2>1, FinishedIs
  <2>5. \A i \in DOMAIN parts : parts[i].kind # "wrong for"
    <3>1. DOMAIN levels = {}
      BY <2>1, EmptyIs
    <3>2. sets # <<>> => parts[Len(parts)].kind # "wrong for"
      BY <2>1 DEF SetMayEnd, AwaitsBrace, LastOf, Loops
    <3>3. QED  BY <3>1, <3>2 DEF IInv, WrongIsOpen
  <2>6. IdentifiersAreDeclared'
    BY <2>4, <2>5 DEF IdentifiersAreDeclared
  <2>7. QED
    BY <2>2, <2>3, <2>6 DEF IInv
<1>3. QED
  BY <1>1, <1>2 DEF EndOfText

-----------------------------------------------------------------------------
\* Nothing has been read yet.
LEMMA EmptyText ==
    ASSUME parts = <<>>, levels = <<>>, sets = <<>>, handed = <<>>,
           keys \subseteq {"blossom_output"}
    PROVE  IInv
<1>1. Shape
  BY EmptyIs DEF Shape
<1>2. PartsUseKnown /\ SetsUseKnown /\ WrongIsOpen /\ IdentifiersAreDeclared
  BY EmptyIs DEF PartsUseKnown, SetsUseKnown, WrongIsOpen, IdentifiersAreDeclared
<1>3. KeysAreKnown
  <2>1. {"blossom_output"} \subseteq Known(parts, Len(parts))
    BY DEF Known
  <2>2. QED  BY <2>1, KnownInHas DEF KeysAreKnown, KnownNow
<1>4. QED
  BY <1>1, <1>2, <1>3 DEF IInv

LEMMA ParseStep ==
    ASSUME Parse
    PROVE  IInv'
<1>1. /\ parts' = <<>> /\ levels' = <<>> /\ sets' = <<>> /\ handed' = <<>>
      /\ keys' \subseteq {"blossom_output"}
  BY DEF Parse, FreshKeys
<1>2. Shape'
  BY <1>1, EmptyIs DEF Shape
<1>3. PartsUseKnown' /\ SetsUseKnown' /\ WrongIsOpen' /\ IdentifiersAreDeclared'
  BY <1>1, EmptyIs DEF PartsUseKnown, SetsUseKnown, WrongIsOpen, IdentifiersAreDeclared
<1>4. KeysAreKnown'
  <2>1. {"blossom_output"} \subseteq Known(parts', Len(parts'))
    BY DEF Known
  <2>2. QED  BY <1>1, <2>1, KnownInHas DEF KeysAreKnown, KnownNow
<1>5. QED
  BY <1>2, <1>3, <1>4 DEF IInv

LEMMA IInvInit == Init => IInv
BY EmptyText DEF Init

LEMMA IInvNext == IInv /\ [Next]_vars => IInv'
<1> SUFFICES ASSUME IInv, [Next]_vars
             PROVE  IInv'
  OBVIOUS
<1>1. CASE Parse
  BY <1>1, ParseStep
<1>2. CASE ReadItem
  BY <1>2, ReadValueStep, ReadJsonStep, ReadDeclarationStep, ReadOutputStep,
     ReadCompareStep, OpenSetStep DEF ReadItem
<1>3. CASE CloseSet
  BY <1>3, CloseSetStep
<1>4. CASE ReadHeader
  BY <1>4, HeadersStep
<1>5. CASE OpenBrace
  BY <1>5, OpenBraceStep
<1>6. CASE ReadElse
  BY <1>6, ReadElseStep
<1>7. CASE CloseBrace
  BY <1>7, CloseBraceStep
<1>8. ASSUME NEW afterTree \in BOOLEAN, ReadGarbage(afterTree)
      PROVE  IInv'
  BY <1>8, StopStep DEF ReadGarbage
<1>9. CASE EndOfText
  BY <1>9, EndOfTextStep
<1>10. CASE UNCHANGED vars
  <2>1. /\ phase' = phase /\ keys' = keys /\ parts' = parts
        /\ levels' = levels /\ sets' = sets /\ handed' = handed
    BY <1>10 DEF vars
  <2>2. KnownNow' = KnownNow
    BY <2>1 DEF KnownNow
  <2>3. Shape' /\ PartsUseKnown' /\ WrongIsOpen' /\ IdentifiersAreDeclared'
    BY <2>1 DEF IInv, Shape, PartsUseKnown, WrongIsOpen, IdentifiersAreDeclared
  <2>4. SetsUseKnown' /\ KeysAreKnown'
    BY <2>1, <2>2 DEF IInv, SetsUseKnown, KeysAreKnown
  <2>5. QED  BY <2>3, <2>4 DEF IInv
<1>11. QED
  BY <1>1, <1>2, <1>3, <1>4, <1>5, <1>6, <1>7, <1>8, <1>9, <1>10 DEF Next

\* Whatever texts a parser reads, one after the other, a tree that it hands
\* out uses only identifiers that the same text declares before their use.
THEOREM HandedTreesAreClosed == Spec => []IdentifiersAreDeclared
<1>1. IInv => IdentifiersAreDeclared
  BY DEF IInv
<1>2. QED
  BY <1>1, IInvInit, IInvNext, PTL DEF Spec

-----------------------------------------------------------------------------
(* What a tree holds is what its text says. *)

\* The place p of a map, seen from around the maps with the names w.
From(w, p) == <<w \o p[1], p[2]>>

Written(n, place, item) == [part |-> n, place |-> place, item |-> item]

\* The lines that map m of part n stands for, within the maps with the names w.
LinesOf(n, w, m) ==
    {Written(n, From(w, p), m.values[p].item) : p \in DOMAIN m.values}
        \cup {Written(n, From(w, p), <<"map">>) : p \in m.maps}

\* The names of the open maps around item set k.
Path(s, k) == [i \in 1..(k - 1) |-> s[i + 1].name]

\* The lines of the item sets that are open: what is in them, and the lines
\* that have opened them.
OpenLines(n, s) ==
    (UNION {LinesOf(n, Path(s, k), s[k].map) : k \in DOMAIN s})
        \cup {Written(n, <<Path(s, k - 1), s[k].name>>, <<"map">>) :
                k \in DOMAIN s \ {1}}

NoNameTwice(m) == DOMAIN m.values \cap m.maps = {}

\* While a text is read its lines are those of the finished parts and of the
\* open item sets; a tree that has been handed out has all of them.
KInv ==
    /\ phase = "reading" =>
            written = Kept(parts) \cup OpenLines(Len(parts), sets)
    /\ \A i \in DOMAIN parts : NoNameTwice(parts[i].values)
    /\ \A i \in DOMAIN sets : NoNameTwice(sets[i].map)
    /\ handed # <<>> => phase = "handed"
    /\ \A i \in DOMAIN handed : IsPart(handed[i])
    /\ EveryItemIsKept

LEMMA PlacesFromTop ==
    ASSUME NEW p \in Places
    PROVE  From(<<>>, p) = p
<1>1. p[1] \in Seq(Name) /\ p = <<p[1], p[2]>>
  BY DEF Places
<1>2. <<>> \o p[1] = p[1]
  BY <1>1, ConcatEmptySeq
<1>3. QED
  BY <1>1, <1>2 DEF From

\* The lines of a part are those of its map, seen from nowhere.
LEMMA KeptIs ==
    ASSUME NEW t, \A i \in DOMAIN t : IsMap(t[i].values)
    PROVE  Kept(t) = UNION {LinesOf(i, <<>>, t[i].values) : i \in DOMAIN t}
<1> DEFINE lines(i) ==
             {[part |-> i, place |-> p, item |-> t[i].values.values[p].item] :
                    p \in DOMAIN t[i].values.values}
                \cup {[part |-> i, place |-> p, item |-> <<"map">>] :
                    p \in t[i].values.maps}
<1>1. ASSUME NEW i \in DOMAIN t
      PROVE  LinesOf(i, <<>>, t[i].values) = lines(i)
  <2>1. \A p \in DOMAIN t[i].values.values \cup t[i].values.maps :
            From(<<>>, p) = p
    BY PlacesFromTop DEF IsMap
  <2>2. QED  BY <2>1 DEF LinesOf, Written
<1>2. Kept(t) = UNION {lines(i) : i \in DOMAIN t}
  BY DEF Kept
<1> HIDE DEF lines
<1>3. QED
  BY <1>1, <1>2

LEMMA EmptyLines ==
    ASSUME NEW n, NEW w
    PROVE  LinesOf(n, w, EmptyMap) = {}
BY DEF LinesOf, EmptyMap

\* A new value is one more line.
LEMMA ValueAddsLine ==
    ASSUME NEW n, NEW w \in Seq(Name), NEW m, IsMap(m), NoNameTwice(m),
           NEW name \in Name, NEW v, ~Contains(m, name),
           NEW r, r = InsertValue(m, name, v)
    PROVE  /\ LinesOf(n, w, r) =
                LinesOf(n, w, m) \cup {Written(n, <<w, name>>, v.item)}
           /\ NoNameTwice(r)
<1>1. /\ DOMAIN r.values = DOMAIN m.values \cup {Place(name)}
      /\ r.maps = m.maps
      /\ \A p \in DOMAIN m.values : r.values[p] = m.values[p]
      /\ r.values[Place(name)] = v
      /\ Place(name) \notin DOMAIN m.values \cup m.maps
  BY DEF InsertValue, Contains
<1>2. From(w, Place(name)) = <<w, name>>
  <2>1. w \o <<>> = w
    BY ConcatEmptySeq
  <2>2. QED  BY <2>1, PlaceIs DEF From
<1>3. {Written(n, From(w, p), r.values[p].item) : p \in DOMAIN r.values} =
        {Written(n, From(w, p), m.values[p].item) : p \in DOMAIN m.values}
            \cup {Written(n, <<w, name>>, v.item)}
  <2>1. {Written(n, From(w, p), r.values[p].item) : p \in DOMAIN r.values} =
        {Written(n, From(w, p), r.values[p].item) : p \in DOMAIN m.values}
            \cup {Written(n, From(w, Place(name)), r.values[Place(name)].item)}
    BY <1>1
  <2>2. QED  BY <1>1, <1>2, <2>1
<1>4. QED
  BY <1>1, <1>3 DEF LinesOf, NoNameTwice

LEMMA JoinedNames ==
    ASSUME NEW w \in Seq(Name), NEW name \in Name, NEW u \in Seq(Name)
    PROVE  (w \o <<name>>) \o u = w \o (<<name>> \o u)
<1>1. PICK s \in Seq(Name) : s = <<name>>
  <2>1. <<name>> \in Seq(Name)
    OBVIOUS
  <2>2. QED  BY <2>1, Zenon
<1>2. (w \o s) \o u = w \o (s \o u)
  BY ConcatAssociative
<1>3. QED
  BY <1>1, <1>2

\* A map m within the maps with the names w takes in the map c, whose own
\* items are within those with the names v, and becomes r.
TakesIn(w, m, name, v, c, r) ==
    /\ w \in Seq(Name) /\ name \in Name /\ v \in Seq(Name) /\ v = Append(w, name)
    /\ IsMap(m) /\ NoNameTwice(m) /\ IsMap(c) /\ NoNameTwice(c)
    /\ ~Contains(m, name)
    /\ r = InsertMap(m, name, c)

\* A map that is entered adds its own line and those that are within.
LEMMA MapAddsLines ==
    ASSUME NEW n, NEW w, NEW m, NEW name, NEW v, NEW c, NEW r,
           TakesIn(w, m, name, v, c, r)
    PROVE  /\ LinesOf(n, w, r) =
                (LinesOf(n, w, m) \cup LinesOf(n, v, c))
                    \cup {Written(n, <<w, name>>, <<"map">>)}
           /\ NoNameTwice(r)
<1>a. /\ w \in Seq(Name) /\ name \in Name /\ v \in Seq(Name) /\ v = Append(w, name)
      /\ IsMap(m) /\ NoNameTwice(m) /\ IsMap(c) /\ NoNameTwice(c)
      /\ ~Contains(m, name) /\ r = InsertMap(m, name, c)
  BY DEF TakesIn
<1> USE <1>a
<1> DEFINE new(places) == {Below(name, p) : p \in places}
<1>1. Place(name)[1] = <<>> /\ Place(name)[2] = name
  BY PlaceIs
<1>2. \A p \in DOMAIN m.values \cup m.maps : p[1] = <<>> \/ Head(p[1]) # name
  BY DEF IsMap, Contains
<1>3. /\ DOMAIN r.values = DOMAIN m.values \cup new(DOMAIN c.values)
      /\ r.maps = m.maps \cup {Place(name)} \cup new(c.maps)
      /\ \A p \in DOMAIN m.values : r.values[p] = m.values[p]
  BY <1>2 DEF InsertMap
<1>b. \A p \in DOMAIN c.values \cup c.maps :
        /\ p \in Places
        /\ Below(name, p)[1] # <<>> /\ Head(Below(name, p)[1]) = name
        /\ <<Tail(Below(name, p)[1]), Below(name, p)[2]>> = p
  BY BelowIs DEF IsMap
<1>4. \A p \in DOMAIN c.values : r.values[Below(name, p)] = c.values[p]
  <2> TAKE p \in DOMAIN c.values
  <2>1. Below(name, p) \notin
            {q \in DOMAIN m.values : q[1] = <<>> \/ Head(q[1]) # name}
    BY <1>b
  <2>2. QED
    BY <1>b, <2>1 DEF InsertMap
<1>5. \A p \in DOMAIN c.values \cup c.maps : From(w, Below(name, p)) = From(v, p)
  <2> TAKE p \in DOMAIN c.values \cup c.maps
  <2>1. p[1] \in Seq(Name)
    BY <1>b DEF Places
  <2>2. v = w \o <<name>> /\ <<name>> \in Seq(Name)
    BY AppendIsConcat
  <2>3. (w \o <<name>>) \o p[1] = w \o (<<name>> \o p[1])
    BY <2>1, JoinedNames
  <2>4. Below(name, p)[1] = <<name>> \o p[1] /\ Below(name, p)[2] = p[2]
    BY DEF Below
  <2>5. QED  BY <2>2, <2>3, <2>4 DEF From
<1>6. From(w, Place(name)) = <<w, name>>
  <2>1. w \o <<>> = w
    BY ConcatEmptySeq
  <2>2. QED  BY <1>1, <2>1 DEF From
<1>7. {Written(n, From(w, p), r.values[p].item) : p \in DOMAIN r.values} =
        {Written(n, From(w, p), m.values[p].item) : p \in DOMAIN m.values}
            \cup {Written(n, From(v, p), c.values[p].item) : p \in DOMAIN c.values}
  <2>1. {Written(n, From(w, p), r.values[p].item) : p \in DOMAIN r.values} =
        {Written(n, From(w, p), r.values[p].item) : p \in DOMAIN m.values}
            \cup {Written(n, From(w, Below(name, q)), r.values[Below(name, q)].item) :
                    q \in DOMAIN c.values}
    BY <1>3
  <2>2. QED  BY <1>3, <1>4, <1>5, <2>1
<1>8. {Written(n, From(w, p), <<"map">>) : p \in r.maps} =
        {Written(n, From(w, p), <<"map">>) : p \in m.maps}
            \cup {Written(n, <<w, name>>, <<"map">>)}
            \cup {Written(n, From(v, p), <<"map">>) : p \in c.maps}
  <2>1. {Written(n, From(w, p), <<"map">>) : p \in r.maps} =
        {Written(n, From(w, p), <<"map">>) : p \in m.maps}
            \cup {Written(n, From(w, Place(name)), <<"map">>)}
            \cup {Written(n, From(w, Below(name, q)), <<"map">>) : q \in c.maps}
    BY <1>3
  <2>2. QED  BY <1>5, <1>6, <2>1
<1>9. NoNameTwice(r)
  <2>1. \A p \in DOMAIN c.values, q \in c.maps : Below(name, p) # Below(name, q)
    BY <1>b DEF NoNameTwice
  <2>2. \A p \in DOMAIN m.values \cup m.maps, q \in DOMAIN c.values \cup c.maps :
            p # Below(name, q)
    BY <1>2, <1>b
  <2>3. \A q \in DOMAIN c.values \cup c.maps : Place(name) # Below(name, q)
    BY <1>1, <1>b
  <2>4. Place(name) \notin DOMAIN m.values
    BY DEF Contains
  <2>5. QED
    BY <1>3, <2>1, <2>2, <2>3, <2>4 DEF NoNameTwice
<1>10. QED
  BY <1>7, <1>8, <1>9 DEF LinesOf

LEMMA PathIs ==
    ASSUME IInv, NEW k \in DOMAIN sets
    PROVE  Path(sets, k) \in Seq(Name)
<1>1. DOMAIN sets = 1..Len(sets) /\ Len(sets) \in Nat
  BY SeqDomain DEF IInv, Shape
<1>2. k - 1 \in Nat
  BY <1>1
<1>3. \A i \in 1..(k - 1) : i + 1 \in DOMAIN sets /\ i + 1 # 1
  BY <1>1
<1>4. \A i \in 1..(k - 1) : sets[i + 1].name \in Name
  BY <1>3 DEF IInv, Shape
<1>5. QED
  BY <1>2, <1>4 DEF Path

LEMMA SamePath ==
    ASSUME NEW s, NEW u, NEW k \in Nat, \A i \in 1..k : s[i].name = u[i].name
    PROVE  Path(s, k) = Path(u, k)
<1>1. \A i \in 1..(k - 1) : i + 1 \in 1..k
  OBVIOUS
<1>2. QED
  BY <1>1 DEF Path

LEMMA OpenLinesHas ==
    ASSUME NEW n, NEW s, NEW l
    PROVE  l \in OpenLines(n, s) <=>
            \/ \E k \in DOMAIN s : l \in LinesOf(n, Path(s, k), s[k].map)
            \/ \E k \in DOMAIN s \ {1} :
                l = Written(n, <<Path(s, k - 1), s[k].name>>, <<"map">>)
BY DEF OpenLines

\* A parser that stops hands nothing out.
LEMMA StopKept ==
    ASSUME KInv, NEW tree, Stop(tree)
    PROVE  KInv'
<1>1. /\ phase' = "failed" /\ handed' = <<>>
      /\ parts' = parts /\ sets' = sets
  BY DEF Stop, ParseTreeString
<1>2. DOMAIN handed' = {}
  BY <1>1
<1>3. EveryItemIsKept'
  BY <1>1 DEF EveryItemIsKept
<1>4. QED
  BY <1>1, <1>2, <1>3 DEF KInv

\* A line that only changes the item sets.
LEMMA SetsKept ==
    ASSUME KInv, phase = "reading", Continue,
           written' = Kept(parts) \cup OpenLines(Len(parts), sets'),
           \A i \in DOMAIN sets' : NoNameTwice(sets'[i].map)
    PROVE  KInv'
<1>1. phase' = phase /\ parts' = parts /\ handed' = handed
  BY DEF Continue
<1>2. handed = <<>>
  BY DEF KInv
<1>3. EveryItemIsKept' /\ DOMAIN handed' = {}
  BY <1>1, <1>2, EmptyIs DEF EveryItemIsKept
<1>4. written' = Kept(parts') \cup OpenLines(Len(parts'), sets')
  BY <1>1
<1>5. QED
  BY <1>1, <1>2, <1>3, <1>4 DEF KInv

LEMMA EnterKept ==
    ASSUME IInv, KInv, phase = "reading", sets # <<>>,
           NEW name \in Name, NEW v, Enter(name, v)
    PROVE  KInv'
<1>1. CASE Stop(output)
  BY <1>1, StopKept
<1>2. CASE /\ ~Contains(Current, name) /\ Continue
           /\ sets' = Add(InsertValue(Current, name, v))
           /\ written' = written \cup {Line(name, v.item)}
  <2> DEFINE n == Len(sets)
             map == InsertValue(Current, name, v)
             new == ItemSet(sets[n].name, map)
             part == Len(parts)
  <2>1. /\ n \in DOMAIN sets /\ n \in Nat /\ DOMAIN sets = 1..n
        /\ IsItemSet(sets[n]) /\ Current = sets[n].map
    BY SeqDomain DEF IInv, Shape, Current, LastOf
  <2>2. IsMap(Current) /\ NoNameTwice(Current)
    BY <2>1 DEF IsItemSet, KInv
  <2>3. Path(sets, n) \in Seq(Name)
    BY <2>1, PathIs
  <2>4. /\ LinesOf(part, Path(sets, n), map) =
                LinesOf(part, Path(sets, n), Current)
                    \cup {Written(part, <<Path(sets, n), name>>, v.item)}
        /\ NoNameTwice(map)
    <3> HIDE DEF n, part
    <3>1. QED  BY <1>2, <2>2, <2>3, ValueAddsLine
  <2>5. Line(name, v.item) = Written(part, <<Path(sets, n), name>>, v.item)
    BY DEF Line, Written, Path
  <2> HIDE DEF map
  <2>6. /\ DOMAIN sets' = DOMAIN sets /\ sets'[n] = new
        /\ \A i \in DOMAIN sets : i # n => sets'[i] = sets[i]
    <3>1. sets' = [sets EXCEPT ![n] = new]
      BY <1>2 DEF Add, map
    <3>2. IsSeq(sets)
      BY DEF IInv, Shape
    <3> HIDE DEF new, n
    <3>3. QED  BY <2>1, <3>1, <3>2, ReplaceIs
  <2>7. new.name = sets[n].name /\ new.map = map
    BY DEF ItemSet
  <2> HIDE DEF new, n, part
  <2>8. \A i \in DOMAIN sets : sets'[i].name = sets[i].name
    BY <2>6, <2>7
  <2>9. \A k \in DOMAIN sets :
            /\ Path(sets', k) = Path(sets, k)
            /\ Path(sets', k - 1) = Path(sets, k - 1)
    <3> TAKE k \in DOMAIN sets
    <3>1. /\ k \in Nat /\ k - 1 \in Nat /\ 1..k \subseteq DOMAIN sets
          /\ 1..(k - 1) \subseteq DOMAIN sets
      BY <2>1
    <3>2. \A i \in 1..k : sets'[i].name = sets[i].name
      BY <2>8, <3>1
    <3>3. \A i \in 1..(k - 1) : sets'[i].name = sets[i].name
      BY <2>8, <3>1
    <3>4. QED  BY <3>1, <3>2, <3>3, SamePath
  <2>10. OpenLines(part, sets') =
            OpenLines(part, sets)
                \cup {Written(part, <<Path(sets, n), name>>, v.item)}
    <3>1. ASSUME NEW l
          PROVE  (\E k \in DOMAIN sets' :
                        l \in LinesOf(part, Path(sets', k), sets'[k].map))
                 <=> \/ \E k \in DOMAIN sets :
                            l \in LinesOf(part, Path(sets, k), sets[k].map)
                     \/ l = Written(part, <<Path(sets, n), name>>, v.item)
      <4>1. \A k \in DOMAIN sets \ {n} :
                LinesOf(part, Path(sets', k), sets'[k].map) =
                    LinesOf(part, Path(sets, k), sets[k].map)
        BY <2>6, <2>9
      <4>2. LinesOf(part, Path(sets', n), sets'[n].map) =
                LinesOf(part, Path(sets, n), sets[n].map)
                    \cup {Written(part, <<Path(sets, n), name>>, v.item)}
        BY <2>1, <2>4, <2>6, <2>7, <2>9
      <4>3. QED  BY <2>1, <2>6, <4>1, <4>2
    <3>2. ASSUME NEW l
          PROVE  (\E k \in DOMAIN sets' \ {1} : l =
                    Written(part, <<Path(sets', k - 1), sets'[k].name>>, <<"map">>))
                 <=> \E k \in DOMAIN sets \ {1} : l =
                    Written(part, <<Path(sets, k - 1), sets[k].name>>, <<"map">>)
      BY <2>6, <2>8, <2>9
    <3>3. ASSUME NEW l
          PROVE  l \in OpenLines(part, sets') <=>
                    \/ l \in OpenLines(part, sets)
                    \/ l = Written(part, <<Path(sets, n), name>>, v.item)
      <4>1. l \in OpenLines(part, sets') <=>
              \/ \E k \in DOMAIN sets' :
                    l \in LinesOf(part, Path(sets', k), sets'[k].map)
              \/ \E k \in DOMAIN sets' \ {1} : l =
                    Written(part, <<Path(sets', k - 1), sets'[k].name>>, <<"map">>)
        BY OpenLinesHas
      <4>2. l \in OpenLines(part, sets) <=>
              \/ \E k \in DOMAIN sets :
                    l \in LinesOf(part, Path(sets, k), sets[k].map)
              \/ \E k \in DOMAIN sets \ {1} : l =
                    Written(part, <<Path(sets, k - 1), sets[k].name>>, <<"map">>)
        BY OpenLinesHas
      <4>3. QED  BY <3>1, <3>2, <4>1, <4>2
    <3>4. QED  BY <3>3
  <2>11. written' = Kept(parts) \cup OpenLines(Len(parts), sets')
    BY <1>2, <2>5, <2>10 DEF KInv, part
  <2>12. \A i \in DOMAIN sets' : NoNameTwice(sets'[i].map)
    BY <2>4, <2>6, <2>7 DEF KInv
  <2>13. QED
    BY <1>2, <2>11, <2>12, SetsKept
<1>3. QED
  BY <1>1, <1>2 DEF Enter

\* Every line of an item that is accepted enters its value.
LEMMA ItemKept ==
    ASSUME IInv, KInv, ReadItem, \A name \in Name : ~OpenSet(name)
    PROVE  KInv'
<1>1. PICK name \in Name :
        \/ \E v \in Values : ReadValue(name, v)
        \/ \E l \in Literal : l.json /\ ReadJson(name, l.data)
        \/ \E direction \in {"INPUT", "OUTPUT"} :
                ReadDeclaration(name, "int", direction)
        \/ \E field \in Name : ReadOutput(field, name)
        \/ \E v \in Values, compare \in {"==", "<"} : ReadCompare(name, compare, v)
  BY DEF ReadItem
<1>2. phase = "reading" /\ sets # <<>>
  BY <1>1 DEF ReadValue, ReadJson, ReadDeclaration, ReadOutput, ReadCompare, Reading
<1>3. Stop(output) \/ \E v : Enter(name, v)
  BY <1>1, Zenon DEF ReadValue, ReadJson, ReadDeclaration, ReadOutput, ReadCompare
<1>4. QED
  BY <1>2, <1>3, EnterKept, StopKept

\* The line that opens a map within the map.
LEMMA OpenSetKept ==
    ASSUME IInv, KInv, NEW name \in Name, OpenSet(name)
    PROVE  KInv'
<1> DEFINE new == ItemSet(name, EmptyMap)
           n == Len(sets)
           part == Len(parts)
<1>1. /\ phase = "reading" /\ sets # <<>> /\ sets' = Append(sets, new) /\ Continue
      /\ written' = written \cup {Line(name, <<"map">>)}
  BY DEF OpenSet, Reading
<1>2. new.name = name /\ new.map = EmptyMap
  BY DEF ItemSet
<1> HIDE DEF new
<1>3. n \in Nat /\ DOMAIN sets = 1..n /\ n # 0
  BY <1>1, SeqDomain DEF IInv, Shape
<1>4. /\ DOMAIN sets' = 1..(n + 1)
      /\ \A i \in 1..n : sets'[i] = sets[i]
      /\ sets'[n + 1] = new
  <2>1. IsAppended(sets', sets, new)
    BY <1>1, AppendIs DEF IInv, Shape
  <2>2. QED  BY <2>1 DEF IsAppended
<1>5. Line(name, <<"map">>) = Written(part, <<Path(sets, n), name>>, <<"map">>)
  BY DEF Line, Written, Path
<1> HIDE DEF n, part
<1>6. /\ n + 1 \in 1..(n + 1) /\ n + 1 # 1 /\ 1..n \subseteq 1..(n + 1)
      /\ \A i \in 1..(n + 1) : i \in 1..n \/ i = n + 1
      /\ (n + 1) - 1 = n
  BY <1>3, Intervals
<1>7. \A k \in 0..n : Path(sets', k) = Path(sets, k)
  <2> TAKE k \in 0..n
  <2>1. k \in Nat /\ \A i \in 1..k : sets[i].name = sets'[i].name
    BY <1>3, <1>4
  <2>2. QED  BY <2>1, SamePath
<1>8. \A k \in 1..n : k \in 0..n /\ k - 1 \in 0..n
  BY <1>3
<1>9. ASSUME NEW l
      PROVE  l \in OpenLines(part, sets') <=>
                \/ l \in OpenLines(part, sets)
                \/ l = Written(part, <<Path(sets, n), name>>, <<"map">>)
  <2>1. (\E k \in DOMAIN sets' : l \in LinesOf(part, Path(sets', k), sets'[k].map))
            <=> \E k \in DOMAIN sets : l \in LinesOf(part, Path(sets, k), sets[k].map)
    <3>1. LinesOf(part, Path(sets', n + 1), sets'[n + 1].map) = {}
      BY <1>2, <1>4, EmptyLines
    <3>2. \A k \in 1..n : LinesOf(part, Path(sets', k), sets'[k].map) =
                            LinesOf(part, Path(sets, k), sets[k].map)
      BY <1>4, <1>7, <1>8
    <3>3. QED  BY <1>3, <1>4, <1>6, <3>1, <3>2
  <2>2. (\E k \in DOMAIN sets' \ {1} : l =
                Written(part, <<Path(sets', k - 1), sets'[k].name>>, <<"map">>))
            <=> \/ \E k \in DOMAIN sets \ {1} : l =
                    Written(part, <<Path(sets, k - 1), sets[k].name>>, <<"map">>)
                \/ l = Written(part, <<Path(sets, n), name>>, <<"map">>)
    <3>1. \A k \in 1..n : Path(sets', k - 1) = Path(sets, k - 1)
                            /\ sets'[k].name = sets[k].name
      BY <1>4, <1>7, <1>8
    <3>2. Path(sets', (n + 1) - 1) = Path(sets, n) /\ sets'[n + 1].name = name
      BY <1>2, <1>3, <1>4, <1>6, <1>7
    <3>3. QED  BY <1>3, <1>4, <1>6, <3>1, <3>2
  <2>3. l \in OpenLines(part, sets') <=>
            \/ \E k \in DOMAIN sets' :
                l \in LinesOf(part, Path(sets', k), sets'[k].map)
            \/ \E k \in DOMAIN sets' \ {1} : l =
                Written(part, <<Path(sets', k - 1), sets'[k].name>>, <<"map">>)
    BY OpenLinesHas
  <2>4. l \in OpenLines(part, sets) <=>
            \/ \E k \in DOMAIN sets :
                l \in LinesOf(part, Path(sets, k), sets[k].map)
            \/ \E k \in DOMAIN sets \ {1} : l =
                Written(part, <<Path(sets, k - 1), sets[k].name>>, <<"map">>)
    BY OpenLinesHas
  <2>5. QED  BY <2>1, <2>2, <2>3, <2>4
<1>10. written' = Kept(parts) \cup OpenLines(Len(parts), sets')
  <2>1. OpenLines(part, sets') = OpenLines(part, sets)
            \cup {Written(part, <<Path(sets, n), name>>, <<"map">>)}
    BY <1>9
  <2>2. QED  BY <1>1, <1>5, <2>1 DEF KInv, part
<1>11. \A i \in DOMAIN sets' : NoNameTwice(sets'[i].map)
  <2>1. NoNameTwice(EmptyMap)
    BY DEF NoNameTwice, EmptyMap
  <2>2. QED  BY <1>2, <1>3, <1>4, <1>6, <2>1 DEF KInv
<1>12. QED
  BY <1>1, <1>10, <1>11, SetsKept

\* A map that is closed is entered with all that is in it.
LEMMA CloseSetKept ==
    ASSUME IInv, KInv, CloseSet
    PROVE  KInv'
<1> DEFINE n == Len(sets)
           name == LastOf(sets).name
           outer == sets[n - 1].map
           map == InsertMap(outer, name, Current)
           new == ItemSet(sets[n - 1].name, map)
           part == Len(parts)
<1>1. phase = "reading" /\ n > 1 /\ written' = written
  BY DEF CloseSet
<1>2. CASE Stop(output)
  BY <1>2, StopKept
<1>3. CASE ~Contains(outer, name) /\ Continue
            /\ sets' = [Front(sets) EXCEPT ![n - 1] = ItemSet(@.name, map)]
  <2>1. IsSeq(sets) /\ n \in Nat /\ DOMAIN sets = 1..n
    BY SeqDomain DEF IInv, Shape
  <2>2. sets # <<>> /\ n \in DOMAIN sets /\ n - 1 \in DOMAIN sets
        /\ n - 1 \in 1..(n - 1) /\ n # 1 /\ 1..(n - 1) \subseteq DOMAIN sets
        /\ n - 1 \in Nat
        /\ \A i \in 1..n : i \in 1..(n - 1) \/ i = n
    <3>1. PICK m \in Nat : n = m + 1 /\ m > 0
      <4>1. n - 1 \in Nat /\ n = (n - 1) + 1 /\ n - 1 > 0
        BY <1>1, <2>1
      <4>2. QED  BY <4>1
    <3>2. /\ m + 1 \in 1..(m + 1) /\ m \in 1..(m + 1) /\ m \in 1..m
          /\ m + 1 # 1 /\ 1..m \subseteq 1..(m + 1) /\ (m + 1) - 1 = m
          /\ \A i \in 1..(m + 1) : i \in 1..m \/ i = m + 1
      BY <3>1, Intervals
    <3>3. sets # <<>>
      BY <2>1, <3>1, <3>2, EmptyIs
    <3> HIDE DEF n
    <3>4. QED  BY <2>1, <3>1, <3>2, <3>3
  <2>3. IsItemSet(sets[n]) /\ IsItemSet(sets[n - 1]) /\ sets[n].name \in Name
    BY <2>2 DEF IInv, Shape
  <2>4. name = sets[n].name /\ Current = sets[n].map
    BY DEF Current, LastOf
  <2>5. /\ Path(sets, n - 1) \in Seq(Name) /\ Path(sets, n) \in Seq(Name)
    BY <2>2, PathIs
  <2>6. Path(sets, n) = Append(Path(sets, n - 1), name)
    <3>1. Path(sets, n) = [i \in 1..(n - 1) |-> sets[i + 1].name]
      BY DEF Path
    <3>2. Path(sets, n - 1) = [i \in 1..((n - 1) - 1) |-> sets[i + 1].name]
      BY DEF Path
    <3>3. sets[(n - 1) + 1].name = name /\ n - 1 > 0
      BY <1>1, <2>1, <2>4
    <3> HIDE DEF n, name
    <3>4. PICK m \in Nat : n - 1 = m + 1 /\ (n - 1) - 1 = m
      <4>1. (n - 1) - 1 \in Nat /\ n - 1 = ((n - 1) - 1) + 1
        BY <2>1, <3>3
      <4>2. QED  BY <4>1
    <3>5. Path(sets, n - 1) = [i \in 1..m |-> sets[i + 1].name]
            /\ Path(sets, n) = [i \in 1..(m + 1) |-> sets[i + 1].name]
      BY <3>1, <3>2, <3>4
    <3>6. sets[(m + 1) + 1].name = name
      BY <3>3, <3>4
    <3>7. QED  BY <2>5, <3>4, <3>5, <3>6
  <2>7. /\ LinesOf(part, Path(sets, n - 1), map) =
                LinesOf(part, Path(sets, n - 1), outer)
                    \cup LinesOf(part, Path(sets, n), Current)
                    \cup {Written(part, <<Path(sets, n - 1), name>>, <<"map">>)}
        /\ NoNameTwice(map)
    <3>1. /\ IsMap(outer) /\ IsMap(Current) /\ name \in Name
          /\ ~Contains(outer, name) /\ NoNameTwice(outer) /\ NoNameTwice(Current)
      BY <1>3, <2>2, <2>3, <2>4 DEF IsItemSet, KInv
    <3>2. TakesIn(Path(sets, n - 1), outer, name, Path(sets, n), Current, map)
      BY <2>5, <2>6, <3>1 DEF TakesIn
    <3> HIDE DEF n, name, outer, part, map
    <3>3. QED  BY <3>2, MapAddsLines
  <2>8. /\ IsSeq(Front(sets)) /\ DOMAIN Front(sets) = 1..(n - 1)
        /\ \A i \in 1..(n - 1) : Front(sets)[i] = sets[i]
    BY <2>1, <2>2, FrontIs
  <2>9. sets' = [Front(sets) EXCEPT ![n - 1] = new]
    BY <1>3, <2>2, <2>8
  <2>10. new.name = sets[n - 1].name /\ new.map = map
    BY DEF ItemSet
  <2> HIDE DEF map, new
  <2>11. /\ IsSeq(sets') /\ DOMAIN sets' = 1..(n - 1)
         /\ sets'[n - 1] = new
         /\ \A i \in 1..(n - 1) : i # n - 1 => sets'[i] = sets[i]
    <3> HIDE DEF n
    <3> QED  BY <2>2, <2>8, <2>9, ReplaceIs
  <2> HIDE DEF n, name, outer, part
  <2>12. \A i \in 1..(n - 1) : sets'[i].name = sets[i].name
    BY <2>10, <2>11
  <2>13. \A k \in 1..(n - 1) :
            /\ Path(sets', k) = Path(sets, k)
            /\ Path(sets', k - 1) = Path(sets, k - 1)
    <3> TAKE k \in 1..(n - 1)
    <3>1. /\ k \in Nat /\ k - 1 \in Nat /\ 1..k \subseteq 1..(n - 1)
          /\ 1..(k - 1) \subseteq 1..(n - 1)
      BY <2>2
    <3>2. \A i \in 1..k : sets'[i].name = sets[i].name
      BY <2>12, <3>1
    <3>3. \A i \in 1..(k - 1) : sets'[i].name = sets[i].name
      BY <2>12, <3>1
    <3>4. QED  BY <3>1, <3>2, <3>3, SamePath
  <2>14. ASSUME NEW l
         PROVE  l \in OpenLines(part, sets') <=> l \in OpenLines(part, sets)
    <3> DEFINE opened(s, k) ==
                 l = Written(part, <<Path(s, k - 1), s[k].name>>, <<"map">>)
               within(s, k) == l \in LinesOf(part, Path(s, k), s[k].map)
    <3>1. \A k \in 1..(n - 1) : opened(sets', k) <=> opened(sets, k)
      BY <2>12, <2>13
    <3>2. \A k \in 1..(n - 1) : k # n - 1 => (within(sets', k) <=> within(sets, k))
      BY <2>11, <2>13
    <3>3. within(sets', n - 1) <=>
            within(sets, n - 1) \/ within(sets, n) \/ opened(sets, n)
      BY <2>2, <2>4, <2>7, <2>10, <2>11, <2>13 DEF outer
    <3>4. l \in OpenLines(part, sets') <=>
            \/ \E k \in DOMAIN sets' : within(sets', k)
            \/ \E k \in DOMAIN sets' \ {1} : opened(sets', k)
      BY OpenLinesHas
    <3>5. l \in OpenLines(part, sets) <=>
            \/ \E k \in DOMAIN sets : within(sets, k)
            \/ \E k \in DOMAIN sets \ {1} : opened(sets, k)
      BY OpenLinesHas
    <3> HIDE DEF opened, within
    <3>6. (\E k \in 1..n : within(sets, k)) \/ (\E k \in 1..n \ {1} : opened(sets, k))
            <=> \/ \E k \in 1..(n - 1) : within(sets', k)
                \/ \E k \in 1..(n - 1) \ {1} : opened(sets', k)
      BY <2>2, <2>1, <3>1, <3>2, <3>3
    <3>7. QED  BY <2>1, <2>11, <3>4, <3>5, <3>6
  <2>15. written' = Kept(parts) \cup OpenLines(Len(parts), sets')
    <3>1. OpenLines(part, sets') = OpenLines(part, sets)
      BY <2>14
    <3>2. QED  BY <1>1, <3>1 DEF KInv, part
  <2>16. \A i \in DOMAIN sets' : NoNameTwice(sets'[i].map)
    BY <2>1, <2>2, <2>7, <2>10, <2>11 DEF KInv
  <2>17. QED
    BY <1>1, <1>3, <2>15, <2>16, SetsKept
<1>4. QED
  BY <1>2, <1>3 DEF CloseSet

\* With the last items in it, the parts have all lines that were written.
LEMMA FinishedKept ==
    ASSUME IInv, KInv, phase = "reading", Len(sets) <= 1
    PROVE  /\ Kept(Finished) = written
           /\ \A i \in DOMAIN parts : NoNameTwice(Finished[i].values)
<1> DEFINE n == Len(parts)
<1>1. /\ IsSeq(parts) /\ IsSeq(sets) /\ n \in Nat /\ DOMAIN parts = 1..n
      /\ written = Kept(parts) \cup OpenLines(n, sets)
  BY SeqDomain DEF IInv, Shape, KInv
<1>2. CASE sets = <<>>
  <2>1. Finished = parts /\ DOMAIN sets = {}
    BY <1>2, EmptyIs DEF Finished
  <2>2. OpenLines(n, sets) = {}
    BY <2>1 DEF OpenLines
  <2>3. QED
    BY <1>1, <2>1, <2>2 DEF KInv
<1>3. CASE sets # <<>>
  <2> DEFINE new == [parts[n] EXCEPT !.values = sets[1].map]
  <2>1. DOMAIN sets = {1}
    <3>1. Len(sets) \in Nat /\ DOMAIN sets = 1..Len(sets) /\ Len(sets) # 0
      BY <1>1, <1>3, SeqDomain
    <3>2. QED  BY <3>1
  <2>2. n \in DOMAIN parts /\ parts[n].values = EmptyMap
    <3>1. parts # <<>> /\ parts[n].values = EmptyMap
      BY <1>3 DEF IInv, Shape
    <3>2. QED  BY <1>1, <3>1, SeqDomain
  <2>3. /\ IsPart(parts[n]) /\ IsMap(sets[1].map) /\ NoNameTwice(sets[1].map)
        /\ \A i \in DOMAIN parts : IsMap(parts[i].values)
    BY <2>1, <2>2 DEF IInv, Shape, IsItemSet, IsPart, KInv
  <2>4. new.values = sets[1].map
    BY <2>3 DEF IsPart
  <2>5. Finished = [parts EXCEPT ![n] = new]
    BY <1>3 DEF Finished
  <2> HIDE DEF new
  <2>6. /\ DOMAIN Finished = DOMAIN parts /\ Finished[n] = new
        /\ \A i \in DOMAIN parts : i # n => Finished[i] = parts[i]
    <3> HIDE DEF n
    <3> QED  BY <1>1, <2>2, <2>5, ReplaceIs
  <2>7. Path(sets, 1) = <<>>
    <3>1. Path(sets, 1) \in Seq(Name)
      BY <2>1, PathIs
    <3>2. DOMAIN Path(sets, 1) = 1..0
      BY DEF Path
    <3>3. QED  BY <3>1, <3>2
  <2>8. OpenLines(n, sets) = LinesOf(n, <<>>, sets[1].map)
    BY <2>1, <2>7 DEF OpenLines
  <2> HIDE DEF n
  <2>9. \A i \in DOMAIN Finished : IsMap(Finished[i].values)
    BY <2>3, <2>4, <2>6
  <2>10. /\ Kept(parts) = UNION {LinesOf(i, <<>>, parts[i].values) : i \in DOMAIN parts}
         /\ Kept(Finished) =
                UNION {LinesOf(i, <<>>, Finished[i].values) : i \in DOMAIN Finished}
    BY <2>3, <2>9, KeptIs
  <2>11. LinesOf(n, <<>>, parts[n].values) = {}
    BY <2>2, EmptyLines
  <2>12. Kept(Finished) = Kept(parts) \cup LinesOf(n, <<>>, sets[1].map)
    <3>1. LinesOf(n, <<>>, Finished[n].values) = LinesOf(n, <<>>, sets[1].map)
      BY <2>4, <2>6
    <3>2. \A i \in DOMAIN parts : i # n =>
            LinesOf(i, <<>>, Finished[i].values) = LinesOf(i, <<>>, parts[i].values)
      BY <2>6
    <3>3. ASSUME NEW l
          PROVE  (\E i \in DOMAIN parts : l \in LinesOf(i, <<>>, Finished[i].values))
                 <=> \/ \E i \in DOMAIN parts : l \in LinesOf(i, <<>>, parts[i].values)
                     \/ l \in LinesOf(n, <<>>, sets[1].map)
      BY <2>2, <2>11, <3>1, <3>2
    <3>4. QED  BY <2>6, <2>10, <3>3
  <2>13. \A i \in DOMAIN parts : NoNameTwice(Finished[i].values)
    BY <2>3, <2>4, <2>6 DEF KInv
  <2>14. QED
    BY <1>1, <2>8, <2>12, <2>13
<1>4. QED
  BY <1>2, <1>3

\* The items of the last part are complete, and no part begins.
LEMMA FinishKept ==
    ASSUME IInv, KInv, phase = "reading", Len(sets) <= 1,
           parts' = Finished, sets' = <<>>,
           phase' = phase, handed' = handed, written' = written
    PROVE  KInv'
<1>1. /\ Kept(parts') = written'
      /\ DOMAIN parts' = DOMAIN parts
      /\ \A i \in DOMAIN parts' : NoNameTwice(parts'[i].values)
  BY FinishedKept, FinishedIs
<1>2. DOMAIN sets' = {}
  BY EmptyIs
<1>3. OpenLines(Len(parts'), sets') = {}
  BY <1>2 DEF OpenLines
<1>4. handed' = <<>>
  BY DEF KInv
<1>5. EveryItemIsKept' /\ DOMAIN handed' = {}
  BY <1>4, EmptyIs DEF EveryItemIsKept
<1>6. QED
  BY <1>1, <1>2, <1>3, <1>4, <1>5 DEF KInv

\* A new part has no items yet.
LEMMA BeginKept ==
    ASSUME IInv, KInv, phase = "reading", Len(sets) <= 1,
           NEW kind, NEW name, NEW uses, NEW takesItems, NEW braces,
           Begin(kind, name, uses, takesItems, braces)
    PROVE  KInv'
<1> DEFINE n == Len(parts)
           new == [kind |-> kind, name |-> name, uses |-> uses,
                   within |-> levels, values |-> EmptyMap]
<1>1. /\ parts' = Append(Finished, new)
      /\ sets' = IF takesItems THEN <<ItemSet("", EmptyMap)>> ELSE <<>>
      /\ phase' = "reading" /\ handed' = handed /\ written' = written
  BY DEF Begin
<1>2. new.values = EmptyMap
  OBVIOUS
<1> HIDE DEF new
<1>3. /\ IsSeq(Finished) /\ Len(Finished) = n
      /\ DOMAIN Finished = 1..n /\ n \in Nat
      /\ \A i \in 1..n : IsPart(Finished[i]) /\ NoNameTwice(Finished[i].values)
      /\ Kept(Finished) = written
  <2>1. n \in Nat /\ DOMAIN parts = 1..n
    BY SeqDomain DEF IInv, Shape
  <2>2. QED  BY <2>1, FinishedIs, FinishedKept
<1> HIDE DEF n
<1>4. /\ DOMAIN parts' = 1..(n + 1)
      /\ \A i \in 1..n : parts'[i] = Finished[i]
      /\ parts'[n + 1] = new
  <2>1. IsAppended(parts', Finished, new)
    BY <1>1, <1>3, AppendIs
  <2>2. QED  BY <1>3, <2>1 DEF IsAppended
<1>5. /\ n + 1 \in 1..(n + 1) /\ 1..n \subseteq 1..(n + 1)
      /\ \A i \in 1..(n + 1) : i \in 1..n \/ i = n + 1
  BY <1>3, Intervals
<1>6. /\ \A i \in DOMAIN Finished : IsMap(Finished[i].values)
      /\ \A i \in DOMAIN parts' : IsMap(parts'[i].values)
  <2>1. \A i \in 1..n : IsMap(Finished[i].values)
    BY <1>3 DEF IsPart
  <2>2. QED  BY <1>2, <1>3, <1>4, <1>5, <2>1, EmptyMapIs
<1>7. Kept(parts') = Kept(Finished)
  <2>1. /\ Kept(Finished) =
                UNION {LinesOf(i, <<>>, Finished[i].values) : i \in DOMAIN Finished}
        /\ Kept(parts') =
                UNION {LinesOf(i, <<>>, parts'[i].values) : i \in DOMAIN parts'}
    BY <1>6, KeptIs
  <2>2. LinesOf(n + 1, <<>>, parts'[n + 1].values) = {}
    BY <1>2, <1>4, EmptyLines
  <2>3. ASSUME NEW l
        PROVE  (\E i \in 1..(n + 1) : l \in LinesOf(i, <<>>, parts'[i].values))
               <=> \E i \in 1..n : l \in LinesOf(i, <<>>, Finished[i].values)
    BY <1>4, <1>5, <2>2
  <2>4. QED  BY <1>3, <1>4, <2>1, <2>3
<1>8. /\ DOMAIN sets' \subseteq {1}
      /\ \A i \in DOMAIN sets' : sets'[i].map = EmptyMap
  <2>1. CASE takesItems
    <3>1. sets' = <<ItemSet("", EmptyMap)>> /\ ItemSet("", EmptyMap).map = EmptyMap
      BY <1>1, <2>1 DEF ItemSet
    <3>2. QED  BY <3>1, SingleIs
  <2>2. CASE ~takesItems
    BY <1>1, <2>2, EmptyIs
  <2>3. QED  BY <2>1, <2>2
<1>9. OpenLines(Len(parts'), sets') = {}
  BY <1>8, EmptyLines DEF OpenLines
<1>10. NoNameTwice(EmptyMap)
  BY DEF NoNameTwice, EmptyMap
<1>11. \A i \in DOMAIN parts' : NoNameTwice(parts'[i].values)
  BY <1>2, <1>3, <1>4, <1>5, <1>10
<1>12. \A i \in DOMAIN sets' : NoNameTwice(sets'[i].map)
  BY <1>8, <1>10
<1>13. handed' = <<>>
  BY <1>1 DEF KInv
<1>14. EveryItemIsKept' /\ DOMAIN handed' = {}
  BY <1>13, EmptyIs DEF EveryItemIsKept
<1>15. QED
  BY <1>1, <1>3, <1>7, <1>9, <1>11, <1>12, <1>13, <1>14 DEF KInv

LEMMA HeadersKept ==
    ASSUME IInv, KInv, ReadHeader
    PROVE  KInv'
<1>1. phase = "reading"
  BY DEF ReadHeader, ReadTree, ReadGroup, ReadBlossom, ReadIf, ReadParallel,
         ReadForEach, ReadFor, Reading
<1>2. Len(sets) <= 1
  <2>1. parts = <<>> => sets = <<>>
    BY DEF IInv, Shape
  <2>2. parts = <<>> => Len(sets) = 0
    BY <2>1, EmptyIs
  <2>3. ReadTree => parts = <<>>
    BY DEF ReadTree
  <2>4. ~ReadTree => SetMayEnd
    BY DEF ReadHeader, ReadGroup, ReadBlossom, ReadIf, ReadParallel,
           ReadForEach, ReadFor
  <2>5. QED  BY <2>2, <2>3, <2>4 DEF SetMayEnd
<1>3. \/ Stop(output)
      \/ \E kind, name, uses, takesItems, braces :
            Begin(kind, name, uses, takesItems, braces)
  <2>1. CASE \/ ReadTree \/ ReadParallel
             \/ \E kind \in {"group", "subtree"} : ReadGroup(kind)
             \/ \E takesItems \in BOOLEAN : ReadBlossom(takesItems)
    BY <2>1, Zenon DEF ReadTree, ReadParallel, ReadGroup, ReadBlossom
  <2>2. CASE \E left, right \in Values : ReadIf(left, right)
    BY <2>2, Zenon DEF ReadIf
  <2>3. CASE \E name \in Name, v \in Values : ReadForEach(name, v)
    BY <2>3, Zenon DEF ReadForEach
  <2>4. CASE \E name \in Name, start, end \in Values, agree \in BOOLEAN :
                ReadFor(name, start, end, agree)
    BY <2>4, Zenon DEF ReadFor
  <2>5. QED
    BY <2>1, <2>2, <2>3, <2>4 DEF ReadHeader
<1>4. QED
  BY <1>1, <1>2, <1>3, StopKept, BeginKept, Zenon

LEMMA BracesKept ==
    ASSUME IInv, KInv, OpenBrace \/ CloseBrace
    PROVE  KInv'
<1>1. phase = "reading" /\ Len(sets) <= 1
  <2>1. OpenBrace => phase = "reading" /\ Len(sets) <= 1
    BY DEF OpenBrace
  <2>2. CloseBrace => phase = "reading" /\ Len(sets) <= 1
    BY DEF CloseBrace, SetMayEnd
  <2>3. QED  BY <2>1, <2>2
<1>2. \/ Stop(output)
      \/ /\ parts' = Finished /\ sets' = <<>>
         /\ phase' = phase /\ handed' = handed /\ written' = written
  BY DEF OpenBrace, CloseBrace
<1>3. QED
  BY <1>1, <1>2, StopKept, FinishKept

\* A line that changes neither the items nor what is handed out.
LEMMA SameKept ==
    ASSUME KInv, phase' = phase, parts' = parts, sets' = sets,
           handed' = handed, written' = written
    PROVE  KInv'
<1>1. EveryItemIsKept'
  BY DEF KInv, EveryItemIsKept
<1>2. QED
  BY <1>1 DEF KInv

LEMMA EndOfTextKept ==
    ASSUME IInv, KInv, EndOfText
    PROVE  KInv'
<1>1. CASE Stop(output)
  BY <1>1, StopKept
<1>2. CASE /\ TreeIsComplete /\ handed' = ParseTreeString(TRUE, Finished)
           /\ phase' = "handed" /\ written' = written
           /\ parts' = parts /\ sets' = sets
  <2>1. /\ phase = "reading" /\ Len(sets) <= 1 /\ handed' = Finished
    BY <1>2 DEF EndOfText, TreeIsComplete, SetMayEnd, ParseTreeString
  <2>2. /\ Kept(handed') = written'
        /\ DOMAIN handed' = DOMAIN parts
        /\ \A i \in DOMAIN parts :
                IsPart(handed'[i]) /\ NoNameTwice(handed'[i].values)
    BY <1>2, <2>1, FinishedIs, FinishedKept
  <2>3. EveryItemIsKept'
    BY <2>2 DEF EveryItemIsKept, NoNameTwice
  <2>4. /\ \A i \in DOMAIN parts' : NoNameTwice(parts'[i].values)
        /\ \A i \in DOMAIN sets' : NoNameTwice(sets'[i].map)
    BY <1>2 DEF KInv
  <2>5. QED
    BY <1>2, <2>2, <2>3, <2>4 DEF KInv
<1>3. QED
  BY <1>1, <1>2 DEF EndOfText

LEMMA NothingKept ==
    ASSUME parts = <<>>, sets = <<>>, handed = <<>>, written = {}
    PROVE  KInv
<1>1. DOMAIN parts = {} /\ DOMAIN sets = {} /\ DOMAIN handed = {}
  BY EmptyIs
<1>2. Kept(parts) = {} /\ OpenLines(Len(parts), sets) = {}
  BY <1>1 DEF Kept, OpenLines
<1>3. EveryItemIsKept
  BY DEF EveryItemIsKept
<1>4. QED
  BY <1>1, <1>2, <1>3 DEF KInv

LEMMA ParseKept ==
    ASSUME Parse
    PROVE  KInv'
<1>1. parts' = <<>> /\ sets' = <<>> /\ handed' = <<>> /\ written' = {}
  BY DEF Parse
<1>2. DOMAIN parts' = {} /\ DOMAIN sets' = {} /\ DOMAIN handed' = {}
  BY <1>1, EmptyIs
<1>3. Kept(parts') = {} /\ OpenLines(Len(parts'), sets') = {}
  BY <1>2 DEF Kept, OpenLines
<1>4. EveryItemIsKept'
  BY <1>1 DEF EveryItemIsKept
<1>5. QED
  BY <1>1, <1>2, <1>3, <1>4 DEF KInv

LEMMA KInvInit == Init => KInv
BY NothingKept DEF Init

LEMMA KInvNext == IInv /\ KInv /\ [Next]_vars => KInv'
<1> SUFFICES ASSUME IInv, KInv, [Next]_vars
             PROVE  KInv'
  OBVIOUS
<1>1. CASE Parse
  BY <1>1, ParseKept
<1>2. CASE ReadItem
  <2>1. CASE \E name \in Name : OpenSet(name)
    BY <2>1, OpenSetKept
  <2>2. CASE \A name \in Name : ~OpenSet(name)
    BY <1>2, <2>2, ItemKept
  <2>3. QED  BY <2>1, <2>2
<1>3. CASE CloseSet
  BY <1>3, CloseSetKept
<1>4. CASE ReadHeader
  BY <1>4, HeadersKept
<1>5. CASE OpenBrace \/ CloseBrace
  BY <1>5, BracesKept
<1>6. CASE ReadElse
  BY <1>6, SameKept DEF ReadElse
<1>7. ASSUME NEW afterTree \in BOOLEAN, ReadGarbage(afterTree)
      PROVE  KInv'
  BY <1>7, StopKept DEF ReadGarbage
<1>8. CASE EndOfText
  BY <1>8, EndOfTextKept
<1>9. CASE UNCHANGED vars
  BY <1>9, SameKept DEF vars
<1>10. QED
  BY <1>1, <1>2, <1>3, <1>4, <1>5, <1>6, <1>7, <1>8, <1>9 DEF Next

\* A tree that a parser hands out has every item of its text, each at its
\* place in its own part, and nothing that is not in the text, however many
\* texts it has read before and whichever of them it has refused.
THEOREM HandedTreesAreWritten == Spec => []EveryItemIsKept
<1>1. Init => IInv /\ KInv
  BY IInvInit, KInvInit
<1>2. (IInv /\ KInv) /\ [Next]_vars => (IInv /\ KInv)'
  BY IInvNext, KInvNext
<1>3. KInv => EveryItemIsKept
  BY DEF KInv
<1>4. QED
  BY <1>1, <1>2, <1>3, PTL DEF Spec

-----------------------------------------------------------------------------
(* What a state of the parser looks like. *)

\* A blossom follows its group or another blossom of it.
BlossomsFollow(t) ==
    \A i \in DOMAIN t : t[i].kind = "blossom" =>
        i - 1 \in DOMAIN t /\ t[i - 1].kind \in {"group", "blossom"}

TInv ==
    /\ TypeOK
    /\ closed = NoLevel \/ closed.owner \in DOMAIN parts
    /\ BlossomsFollow(parts) /\ BlossomsFollow(handed)
    /\ handed # <<>> => IsSeq(handed)

LEMMA StopTyped ==
    ASSUME IInv, TInv, NEW tree, Stop(tree),
           keys' \subseteq Name \cup {"blossom_output"}
    PROVE  TInv'
<1>1. /\ phase' = "failed" /\ handed' = <<>>
      /\ parts' = parts /\ levels' = levels /\ sets' = sets /\ closed' = closed
  BY DEF Stop, ParseTreeString
<1>2. BlossomsFollow(handed')
  BY <1>1, EmptyIs DEF BlossomsFollow
<1>3. TypeOK'
  BY <1>1 DEF TInv, TypeOK
<1>4. QED
  BY <1>1, <1>2, <1>3 DEF TInv

\* A line of an item set.
LEMMA ContinueTyped ==
    ASSUME IInv, TInv, Continue, keys' \subseteq Name \cup {"blossom_output"},
           parts # <<>>
    PROVE  TInv'
<1>1. /\ phase' = phase /\ handed' = handed /\ output' = output
      /\ parts' = parts /\ levels' = levels /\ closed' = NoLevel
  BY DEF Continue
<1>2. NoLevel.owner = 0
  BY DEF NoLevel
<1>3. Len(parts) \in Nat
  BY SeqDomain DEF IInv, Shape
<1>4. closed'.owner \in 0..Len(parts')
  BY <1>1, <1>2, <1>3
<1>5. TypeOK'
  BY <1>1, <1>4 DEF TInv, TypeOK
<1>6. QED
  BY <1>1, <1>5 DEF TInv

LEMMA ItemTyped ==
    ASSUME IInv, TInv, ReadItem \/ CloseSet
    PROVE  TInv'
<1>1. sets # <<>>
  <2>1. ReadItem => sets # <<>> \/ \E name \in Name : OpenSet(name)
    BY DEF ReadItem, ReadValue, ReadJson, ReadDeclaration, ReadOutput, ReadCompare
  <2>2. \A name \in Name : OpenSet(name) => sets # <<>>
    BY DEF OpenSet
  <2>3. CloseSet => sets # <<>>
    BY EmptyIs DEF CloseSet
  <2>4. QED  BY <2>1, <2>2, <2>3
<1>2. parts # <<>>
  BY <1>1 DEF IInv, Shape
<1>3. keys' \subseteq Name \cup {"blossom_output"}
  <2>1. keys' = keys \/ \E name \in Name : keys' = keys \cup {name}
    BY DEF ReadItem, ReadValue, ReadJson, ReadDeclaration, ReadOutput, ReadCompare,
           OpenSet, CloseSet
  <2>2. QED  BY <2>1 DEF TInv, TypeOK
<1>4. Stop(output) \/ Continue
  <2>1. ASSUME NEW name, NEW v, Enter(name, v)
        PROVE  Stop(output) \/ Continue
    BY <2>1 DEF Enter
  <2>2. CASE ReadItem
    <3>1. Stop(output) \/ Continue \/ \E name, v : Enter(name, v)
      BY <2>2, Zenon DEF ReadItem, ReadValue, ReadJson, ReadDeclaration, ReadOutput,
         ReadCompare, OpenSet
    <3>2. QED  BY <2>1, <3>1
  <2>3. CASE CloseSet
    BY <2>3 DEF CloseSet
  <2>4. QED  BY <2>2, <2>3
<1>5. QED
  BY <1>2, <1>3, <1>4, StopTyped, ContinueTyped

\* The parts stay those they are while their items are completed.
LEMMA FinishTyped ==
    ASSUME IInv, TInv, Len(sets) <= 1
    PROVE  /\ DOMAIN Finished = DOMAIN parts
           /\ Len(Finished) = Len(parts) /\ Len(parts) \in Nat
           /\ DOMAIN parts = 1..Len(parts)
           /\ IsSeq(Finished)
           /\ BlossomsFollow(Finished)
           /\ \A i \in DOMAIN parts :
                /\ Finished[i].kind \in Kinds
                /\ Finished[i].kind = parts[i].kind
                /\ Finished[i].within = parts[i].within
                /\ \A j \in DOMAIN Finished[i].within :
                        Finished[i].within[j].owner \in 1..(i - 1)
<1>1. /\ IsSeq(Finished) /\ Len(Finished) = Len(parts)
      /\ DOMAIN Finished = DOMAIN parts
      /\ \A i \in DOMAIN parts : Finished[i].kind = parts[i].kind
  BY FinishedIs
<1>2. Len(parts) \in Nat /\ DOMAIN parts = 1..Len(parts)
  BY SeqDomain DEF IInv, Shape
<1>3. BlossomsFollow(Finished)
  BY <1>1 DEF TInv, BlossomsFollow
<1>4. \A i \in DOMAIN parts : Finished[i].within = parts[i].within
  <2>1. CASE sets = <<>>
    BY <2>1 DEF Finished
  <2>2. CASE sets # <<>>
    <3> DEFINE n == Len(parts)
               new == [parts[n] EXCEPT !.values = sets[1].map]
    <3>1. Finished = [parts EXCEPT ![n] = new]
      BY <2>2 DEF Finished
    <3>2. \A i \in DOMAIN parts : IsPart(parts[i])
      BY DEF IInv, Shape
    <3>3. n \in DOMAIN parts => new.within = parts[n].within
      BY <3>2 DEF IsPart
    <3> HIDE DEF new
    <3>4. \A i \in DOMAIN parts :
            (i = n => Finished[i] = new) /\ (i # n => Finished[i] = parts[i])
      BY <3>1
    <3>5. QED  BY <3>3, <3>4
  <2>3. QED  BY <2>1, <2>2
<1>5. QED
  BY <1>1, <1>2, <1>3, <1>4 DEF TInv, TypeOK

\* The braces that are open belong to parts that there are.
LEMMA OpensTyped ==
    ASSUME IInv, TInv, NEW kind
    PROVE  \A j \in DOMAIN Open(kind) : Open(kind)[j].owner \in 1..(Len(parts) + 1)
<1> DEFINE n == Len(parts)
           new == [kind |-> kind, owner |-> n + 1]
<1>1. IsSeq(levels) /\ Len(levels) \in Nat /\ DOMAIN levels = 1..Len(levels)
      /\ n \in Nat /\ DOMAIN parts = 1..n
  BY SeqDomain DEF IInv, Shape
<1>2. new.owner = n + 1
  OBVIOUS
<1> HIDE DEF new
<1>3. IsAppended(Open(kind), levels, new)
  BY <1>1, AppendIs DEF Open, new
<1>4. \A j \in DOMAIN levels : levels[j].owner \in 1..n
  BY <1>1 DEF TInv, TypeOK
<1>5. 1..n \subseteq 1..(n + 1) /\ n + 1 \in 1..(n + 1)
  BY <1>1, Intervals
<1> HIDE DEF n
<1>6. \A j \in 1..(Len(levels) + 1) : j \in 1..Len(levels) \/ j = Len(levels) + 1
  BY <1>1, Intervals
<1>7. \A j \in DOMAIN Open(kind) : Open(kind)[j].owner \in 1..(n + 1)
  BY <1>1, <1>2, <1>3, <1>4, <1>5, <1>6 DEF IsAppended
<1>8. QED
  BY <1>7 DEF n

\* A header: what it begins, and the keys it registers.
LEMMA BeginTyped ==
    ASSUME IInv, TInv, Len(sets) <= 1,
           NEW kind \in Kinds, NEW name, NEW uses, NEW takesItems, NEW braces,
           Begin(kind, name, uses, takesItems, braces),
           braces = levels \/ (\E k : braces = Open(k)),
           keys' \subseteq Name \cup {"blossom_output"},
           kind = "blossom" =>
                parts # <<>> /\ LastOf(parts).kind \in {"group", "blossom"}
    PROVE  TInv'
<1> DEFINE n == Len(parts)
           new == [kind |-> kind, name |-> name, uses |-> uses,
                   within |-> levels, values |-> EmptyMap]
<1>1. /\ parts' = Append(Finished, new) /\ levels' = braces /\ closed' = NoLevel
      /\ phase' = phase /\ output' = output /\ handed' = handed
  BY DEF Begin
<1>2. new.kind = kind /\ new.within = levels
  OBVIOUS
<1> HIDE DEF new
<1>3. /\ DOMAIN Finished = 1..n /\ Len(Finished) = n /\ n \in Nat
      /\ DOMAIN parts = 1..n
      /\ IsSeq(Finished) /\ BlossomsFollow(Finished)
      /\ \A i \in 1..n :
            /\ Finished[i].kind \in Kinds /\ Finished[i].kind = parts[i].kind
            /\ \A j \in DOMAIN Finished[i].within :
                    Finished[i].within[j].owner \in 1..(i - 1)
  BY FinishTyped
<1>4. /\ \A j \in DOMAIN levels : levels[j].owner \in 1..n
      /\ \A j \in DOMAIN braces : braces[j].owner \in 1..(n + 1)
  <2>1. \A j \in DOMAIN levels : levels[j].owner \in 1..n
    BY <1>3 DEF TInv, TypeOK
  <2>2. 1..n \subseteq 1..(n + 1)
    BY <1>3, Intervals
  <2>3. \A k : \A j \in DOMAIN Open(k) : Open(k)[j].owner \in 1..(n + 1)
    BY OpensTyped
  <2>4. CASE braces = levels
    BY <2>1, <2>2, <2>4
  <2>5. CASE \E k : braces = Open(k)
    BY <2>1, <2>3, <2>5
  <2>6. QED  BY <2>4, <2>5, <2>1
<1>5. \/ n # 0 /\ parts[n].kind \in {"group", "blossom"}
      \/ kind # "blossom"
  <2>1. parts # <<>> => n # 0
    BY SeqDomain DEF IInv, Shape
  <2>2. QED  BY <2>1 DEF LastOf
<1> HIDE DEF n
<1>6. /\ IsSeq(parts') /\ DOMAIN parts' = 1..(n + 1) /\ Len(parts') = n + 1
      /\ \A i \in 1..n : parts'[i] = Finished[i]
      /\ parts'[n + 1] = new
  <2>1. IsAppended(parts', Finished, new)
    BY <1>1, <1>3, AppendIs
  <2>2. QED  BY <1>3, <2>1 DEF IsAppended
<1>7. /\ n + 1 \in 1..(n + 1) /\ 1..n \subseteq 1..(n + 1) /\ (n + 1) - 1 = n
      /\ \A i \in 1..(n + 1) : i \in 1..n \/ i = n + 1
      /\ n # 0 => n \in 1..n
      /\ 0 \in 0..(n + 1)
  <2>1. (n + 1) - 1 = n /\ (n # 0 => n \in 1..n) /\ 0 \in 0..(n + 1)
    BY <1>3
  <2>2. QED  BY <1>3, <2>1, Intervals
<1>8. \A i \in DOMAIN parts' :
        /\ parts'[i].kind \in Kinds
        /\ \A j \in DOMAIN parts'[i].within :
                parts'[i].within[j].owner \in 1..(i - 1)
  <2>1. \A j \in DOMAIN parts'[n + 1].within :
            parts'[n + 1].within[j].owner \in 1..((n + 1) - 1)
    BY <1>2, <1>4, <1>6, <1>7
  <2>2. parts'[n + 1].kind \in Kinds
    BY <1>2, <1>6
  <2>3. QED  BY <1>3, <1>6, <1>7, <2>1, <2>2
<1>9. BlossomsFollow(parts')
  <2>1. SUFFICES ASSUME NEW i \in DOMAIN parts', parts'[i].kind = "blossom"
                 PROVE  i - 1 \in DOMAIN parts'
                            /\ parts'[i - 1].kind \in {"group", "blossom"}
    BY DEF BlossomsFollow
  <2>2. CASE i \in 1..n
    <3>1. i - 1 \in 1..n /\ Finished[i - 1].kind \in {"group", "blossom"}
      BY <1>3, <1>6, <2>1, <2>2 DEF BlossomsFollow
    <3>2. QED  BY <1>6, <1>7, <3>1
  <2>3. CASE i = n + 1
    BY <1>2, <1>3, <1>5, <1>6, <1>7, <2>1, <2>3
  <2>4. QED  BY <1>6, <1>7, <2>2, <2>3
<1>10. NoLevel.owner = 0
  BY DEF NoLevel
<1>11. parts' # <<>>
  BY <1>6, <1>7, EmptyIs
<1>12. TypeOK'
  <2>1. /\ phase' \in {"idle", "reading", "failed", "handed"}
        /\ handed' # <<>> => handed' = output'
    BY <1>1 DEF TInv, TypeOK
  <2>2. \A j \in DOMAIN levels' : levels'[j].owner \in DOMAIN parts'
    BY <1>1, <1>4, <1>6
  <2>3. closed'.owner \in 0..Len(parts')
    BY <1>1, <1>6, <1>7, <1>10
  <2>4. QED  BY <1>8, <1>11, <2>1, <2>2, <2>3 DEF TypeOK
<1>13. QED
  BY <1>1, <1>9, <1>12 DEF TInv

LEMMA HeadersTyped ==
    ASSUME IInv, TInv, ReadHeader
    PROVE  TInv'
<1>1. Len(sets) <= 1
  <2>1. parts = <<>> => Len(sets) = 0
    BY EmptyIs DEF IInv, Shape
  <2>2. ReadTree => parts = <<>>
    BY DEF ReadTree
  <2>3. ~ReadTree => SetMayEnd
    BY DEF ReadHeader, ReadGroup, ReadBlossom, ReadIf, ReadParallel,
           ReadForEach, ReadFor
  <2>4. QED  BY <2>1, <2>2, <2>3 DEF SetMayEnd
<1>2. keys' \subseteq Name \cup {"blossom_output"}
  <2>1. keys' = keys \/ \E name \in Name : keys' = keys \cup {name}
    BY DEF ReadHeader, ReadTree, ReadGroup, ReadBlossom, ReadIf, ReadParallel,
           ReadForEach, ReadFor
  <2>2. QED  BY <2>1 DEF TInv, TypeOK
<1>3. {"tree", "group", "subtree", "blossom", "if", "parallel", "for each", "for",
       "wrong for"} \subseteq Kinds
  BY DEF Kinds, Loops
<1>a. /\ "tree" # "blossom" /\ "group" # "blossom" /\ "subtree" # "blossom"
      /\ "if" # "blossom" /\ "parallel" # "blossom" /\ "for each" # "blossom"
      /\ "for" # "blossom" /\ "wrong for" # "blossom"
  OBVIOUS
<1> DEFINE Headed ==
        \/ Stop(output)
        \/ \E kind, name, uses, takesItems, braces :
              /\ kind \in Kinds
              /\ Begin(kind, name, uses, takesItems, braces)
              /\ braces = levels \/ (\E k : braces = Open(k))
              /\ kind = "blossom" =>
                    parts # <<>> /\ LastOf(parts).kind \in {"group", "blossom"}
<1>4. ReadTree => Headed
  BY <1>3, <1>a, Zenon DEF ReadTree
<1>5. (\E kind \in {"group", "subtree"} : ReadGroup(kind)) => Headed
  BY <1>3, <1>a, Zenon DEF ReadGroup
<1>6. (\E takesItems \in BOOLEAN : ReadBlossom(takesItems)) => Headed
  BY <1>3, Zenon DEF ReadBlossom, SetMayEnd
<1>7. (\E left, right \in Values : ReadIf(left, right)) => Headed
  BY <1>3, <1>a, Zenon DEF ReadIf
<1>8. ReadParallel => Headed
  BY <1>3, <1>a, Zenon DEF ReadParallel
<1>9. (\E name \in Name, v \in Values : ReadForEach(name, v)) => Headed
  BY <1>3, <1>a, Zenon DEF ReadForEach
<1>10. (\E name \in Name, start, end \in Values, agree \in BOOLEAN :
            ReadFor(name, start, end, agree)) => Headed
  <2>1. \A agree : LET kind == IF agree THEN "for" ELSE "wrong for"
                   IN  kind \in Kinds /\ kind # "blossom"
    BY <1>3, <1>a
  <2>2. QED  BY <2>1, Zenon DEF ReadFor
<1>11. Headed
  BY <1>4, <1>5, <1>6, <1>7, <1>8, <1>9, <1>10, Zenon DEF ReadHeader
<1>12. QED
  BY <1>1, <1>2, <1>11, StopTyped, BeginTyped, Zenon

\* The items of the last part are complete, and a brace is opened or closed.
LEMMA BracesTyped ==
    ASSUME IInv, TInv, OpenBrace \/ CloseBrace \/ ReadElse
    PROVE  TInv'
<1> DEFINE n == Len(parts)
<1>0. /\ IsSeq(levels) /\ Len(levels) \in Nat /\ DOMAIN levels = 1..Len(levels)
      /\ n \in Nat /\ DOMAIN parts = 1..n
      /\ \A j \in DOMAIN levels : levels[j].owner \in 1..n
  BY SeqDomain DEF IInv, Shape, TInv, TypeOK
<1>1. ASSUME \/ parts' = Finished /\ Len(sets) <= 1 /\ sets' = <<>>
             \/ parts' = parts /\ sets' = sets,
             phase' = phase, handed' = handed, output' = output, keys' = keys,
             \A j \in DOMAIN levels' : levels'[j].owner \in 1..n,
             closed' = NoLevel \/ closed'.owner \in 1..n
      PROVE  TInv'
  <2>1. /\ DOMAIN parts' = 1..n /\ Len(parts') = n /\ BlossomsFollow(parts')
        /\ \A i \in DOMAIN parts' :
                /\ parts'[i].kind \in Kinds
                /\ \A j \in DOMAIN parts'[i].within :
                        parts'[i].within[j].owner \in 1..(i - 1)
    <3>1. CASE parts' = Finished /\ Len(sets) <= 1
      BY <1>0, <3>1, FinishTyped
    <3>2. CASE parts' = parts
      BY <1>0, <3>2 DEF TInv, TypeOK
    <3>3. QED  BY <1>1, <3>1, <3>2
  <2>2. closed'.owner \in 0..Len(parts')
    <3>1. NoLevel.owner = 0 /\ 0 \in 0..n /\ \A i \in 1..n : i \in 0..n
      BY <1>0 DEF NoLevel
    <3>2. QED  BY <1>1, <2>1, <3>1
  <2>3. sets' # <<>> => parts' # <<>>
    BY <1>1 DEF IInv, Shape
  <2>4. TypeOK'
    BY <1>1, <2>1, <2>2, <2>3 DEF TInv, TypeOK
  <2>5. QED
    BY <1>1, <2>1, <2>4 DEF TInv
<1>2. CASE OpenBrace
  <2> DEFINE new == [kind |-> "loop", owner |-> n]
  <2>1. /\ levels' = Append(levels, new) /\ closed' = NoLevel
        /\ parts' = Finished /\ Len(sets) <= 1 /\ sets' = <<>> /\ sets # <<>>
        /\ phase' = phase /\ handed' = handed /\ output' = output /\ keys' = keys
    BY <1>2 DEF OpenBrace, AwaitsBrace
  <2>2. new.owner = n
    OBVIOUS
  <2>3. n \in 1..n
    <3>1. parts # <<>>
      BY <2>1 DEF IInv, Shape
    <3>2. n # 0
      BY <3>1, SeqDomain DEF IInv, Shape
    <3>3. QED  BY <1>0, <3>2
  <2> HIDE DEF new, n
  <2>4. IsAppended(levels', levels, new)
    BY <1>0, <2>1, AppendIs
  <2>5. \A j \in 1..(Len(levels) + 1) : j \in 1..Len(levels) \/ j = Len(levels) + 1
    BY <1>0, Intervals
  <2>6. \A j \in DOMAIN levels' : levels'[j].owner \in 1..n
    BY <1>0, <2>2, <2>3, <2>4, <2>5 DEF IsAppended
  <2>7. QED
    BY <1>1, <2>1, <2>6
<1>3. CASE CloseBrace
  <2>1. CASE Stop(output)
    <3>1. keys' = keys
      BY <1>3 DEF CloseBrace
    <3>2. QED  BY <2>1, <3>1, StopTyped DEF TInv, TypeOK
  <2>2. CASE /\ parts' = Finished /\ sets' = <<>> /\ levels' = Front(levels)
             /\ closed' = LastOf(levels)
             /\ phase' = phase /\ output' = output /\ handed' = handed
    <3>1. levels # <<>> /\ Len(sets) <= 1 /\ keys' = keys
      BY <1>3 DEF CloseBrace, SetMayEnd
    <3>2. /\ DOMAIN levels' = 1..(Len(levels) - 1) /\ Len(levels) > 0
          /\ \A j \in 1..(Len(levels) - 1) : levels'[j] = levels[j]
      BY <1>0, <2>2, <3>1, FrontIs
    <3>3. /\ \A j \in 1..(Len(levels) - 1) : j \in 1..Len(levels)
          /\ Len(levels) \in 1..Len(levels)
      BY <1>0, <3>2
    <3>4. closed'.owner \in 1..n
      BY <1>0, <2>2, <3>3 DEF LastOf
    <3>5. \A j \in DOMAIN levels' : levels'[j].owner \in 1..n
      BY <1>0, <3>2, <3>3
    <3>6. QED
      BY <1>1, <2>2, <3>1, <3>4, <3>5
  <2>3. QED
    BY <1>3, <2>1, <2>2 DEF CloseBrace
<1>4. CASE ReadElse
  <2> DEFINE new == [kind |-> "else", owner |-> closed.owner]
  <2>1. /\ closed.kind = "if" /\ levels' = Append(levels, new) /\ closed' = NoLevel
        /\ phase' = phase /\ keys' = keys /\ parts' = parts /\ sets' = sets
        /\ output' = output /\ handed' = handed
    BY <1>4 DEF ReadElse
  <2>2. new.owner = closed.owner
    OBVIOUS
  <2>3. closed.owner \in 1..n
    <3>1. NoLevel.kind = "none"
      BY DEF NoLevel
    <3>2. closed # NoLevel
      BY <2>1, <3>1
    <3>3. QED  BY <1>0, <3>2 DEF TInv
  <2> HIDE DEF new, n
  <2>4. IsAppended(levels', levels, new)
    BY <1>0, <2>1, AppendIs
  <2>5. \A j \in 1..(Len(levels) + 1) : j \in 1..Len(levels) \/ j = Len(levels) + 1
    BY <1>0, Intervals
  <2>6. \A j \in DOMAIN levels' : levels'[j].owner \in 1..n
    BY <1>0, <2>2, <2>3, <2>4, <2>5 DEF IsAppended
  <2>7. QED
    BY <1>1, <2>1, <2>6
<1>5. QED
  BY <1>2, <1>3, <1>4

LEMMA EndOfTextTyped ==
    ASSUME IInv, TInv, EndOfText
    PROVE  TInv'
<1>1. keys' = keys
  BY DEF EndOfText
<1>2. CASE Stop(output)
  BY <1>1, <1>2, StopTyped DEF TInv, TypeOK
<1>3. CASE /\ TreeIsComplete /\ output' = Finished
           /\ handed' = ParseTreeString(TRUE, Finished)
           /\ phase' = "handed"
           /\ parts' = parts /\ levels' = levels /\ sets' = sets
           /\ closed' = closed
  <2>1. handed' = Finished /\ Len(sets) <= 1
    BY <1>3 DEF TreeIsComplete, SetMayEnd, ParseTreeString
  <2>2. IsSeq(Finished) /\ BlossomsFollow(Finished)
    BY <2>1, FinishTyped
  <2>3. TypeOK'
    BY <1>1, <1>3, <2>1 DEF TInv, TypeOK
  <2>4. QED
    BY <1>3, <2>1, <2>2, <2>3 DEF TInv
<1>4. QED
  BY <1>2, <1>3 DEF EndOfText

LEMMA ParseTyped ==
    ASSUME Parse
    PROVE  TInv'
<1>1. /\ phase' = "reading" /\ keys' = {"blossom_output"}
      /\ parts' = <<>> /\ levels' = <<>> /\ sets' = <<>> /\ handed' = <<>>
      /\ closed' = NoLevel
  BY DEF Parse, FreshKeys
<1>2. DOMAIN parts' = {} /\ DOMAIN levels' = {} /\ DOMAIN handed' = {} /\ Len(parts') = 0
  BY <1>1, EmptyIs
<1>3. NoLevel.owner \in 0..0
  BY DEF NoLevel
<1>4. TypeOK'
  BY <1>1, <1>2, <1>3 DEF TypeOK
<1>5. BlossomsFollow(parts') /\ BlossomsFollow(handed')
  BY <1>2 DEF BlossomsFollow
<1>6. QED
  BY <1>1, <1>4, <1>5 DEF TInv

LEMMA TInvInit == Init => TInv
<1> SUFFICES ASSUME Init
             PROVE  TInv
  OBVIOUS
<1>1. /\ phase = "idle" /\ keys = {}
      /\ parts = <<>> /\ levels = <<>> /\ sets = <<>> /\ handed = <<>>
      /\ closed = NoLevel
  BY DEF Init
<1>2. DOMAIN parts = {} /\ DOMAIN levels = {} /\ DOMAIN handed = {} /\ Len(parts) = 0
  BY <1>1, EmptyIs
<1>3. NoLevel.owner \in 0..0
  BY DEF NoLevel
<1>4. TypeOK
  BY <1>1, <1>2, <1>3 DEF TypeOK
<1>5. BlossomsFollow(parts) /\ BlossomsFollow(handed)
  BY <1>2 DEF BlossomsFollow
<1>6. QED
  BY <1>1, <1>4, <1>5 DEF TInv

LEMMA TInvNext == IInv /\ TInv /\ [Next]_vars => TInv'
<1> SUFFICES ASSUME IInv, TInv, [Next]_vars
             PROVE  TInv'
  OBVIOUS
<1>1. CASE Parse
  BY <1>1, ParseTyped
<1>2. CASE ReadItem \/ CloseSet
  BY <1>2, ItemTyped
<1>3. CASE ReadHeader
  BY <1>3, HeadersTyped
<1>4. CASE OpenBrace \/ CloseBrace \/ ReadElse
  BY <1>4, BracesTyped
<1>5. ASSUME NEW afterTree \in BOOLEAN, ReadGarbage(afterTree)
      PROVE  TInv'
  <2>1. keys' \subseteq Name \cup {"blossom_output"}
    BY <1>5 DEF ReadGarbage, TInv, TypeOK
  <2>2. QED  BY <1>5, <2>1, StopTyped DEF ReadGarbage
<1>6. CASE EndOfText
  BY <1>6, EndOfTextTyped
<1>7. CASE UNCHANGED vars
  <2>1. /\ phase' = phase /\ keys' = keys /\ parts' = parts
        /\ levels' = levels /\ sets' = sets /\ closed' = closed
        /\ output' = output /\ handed' = handed
    BY <1>7 DEF vars
  <2>2. TypeOK'
    BY <2>1 DEF TInv, TypeOK
  <2>3. BlossomsFollow(parts') /\ BlossomsFollow(handed')
    BY <2>1 DEF TInv
  <2>4. QED  BY <2>1, <2>2, <2>3 DEF TInv
<1>8. QED
  BY <1>1, <1>2, <1>3, <1>4, <1>5, <1>6, <1>7 DEF Next

-----------------------------------------------------------------------------
(* The items of a blossom and of its group, merged and filled. *)

LEMMA LeastExists ==
    ASSUME NEW S, S # {}, S \subseteq Nat
    PROVE  \E k \in S : \A j \in S : k <= j
<1>1. PICK k \in S : \A j \in S : <<j, k>> \notin OpToRel(<, Nat)
  BY NatLessThanWellFounded, WFMin, Zenon
<1>2. \A j \in S : ~(j < k)
  BY <1>1 DEF OpToRel
<1>3. QED
  BY <1>2

\* Before every blossom there is its group: the nearest part before it that
\* is not a blossom.
LEMMA GroupExists ==
    ASSUME NEW t, IsSeq(t), BlossomsFollow(t), NEW b \in DOMAIN t,
           t[b].kind \in {"group", "blossom"}
    PROVE  GroupOf(t, b) \in DOMAIN t
<1>1. DOMAIN t = 1..Len(t) /\ Len(t) \in Nat /\ b \in Nat
  BY SeqDomain
<1> DEFINE S == {k \in 0..(b - 1) : t[b - k].kind # "blossom"}
<1>2. t[1].kind # "blossom"
  <2>1. 1 - 1 \notin DOMAIN t /\ 1 \in DOMAIN t
    BY <1>1
  <2>2. QED  BY <2>1 DEF BlossomsFollow
<1>3. b - 1 \in S
  <2>1. b - (b - 1) = 1 /\ b - 1 \in 0..(b - 1)
    BY <1>1
  <2>2. QED  BY <1>2, <2>1
<1>4. PICK k \in S : \A j \in S : k <= j
  <2>1. S \subseteq Nat /\ S # {}
    BY <1>3
  <2> HIDE DEF S
  <2>2. QED  BY <2>1, LeastExists
<1> DEFINE g == b - k
<1>5. g \in 1..b /\ g \in DOMAIN t /\ t[g].kind # "blossom"
  BY <1>1, <1>4
<1>6. \A i \in (g + 1)..b : t[i].kind = "blossom"
  <2> TAKE i \in (g + 1)..b
  <2>1. b - i \in 0..(b - 1) /\ b - (b - i) = i /\ ~(k <= b - i)
    BY <1>1, <1>4, <1>5
  <2>2. b - i \notin S
    BY <1>4, <2>1
  <2>3. QED  BY <2>1, <2>2
<1>7. t[g].kind = "group"
  <2>1. CASE k = 0
    <3>1. g = b
      BY <1>1, <2>1
    <3>2. QED  BY <1>5, <3>1
  <2>2. CASE k # 0
    <3>1. g + 1 \in (g + 1)..b /\ g + 1 \in DOMAIN t /\ (g + 1) - 1 = g
      BY <1>1, <1>4, <2>2
    <3>2. t[g + 1].kind = "blossom"
      BY <1>6, <3>1
    <3>3. t[g].kind \in {"group", "blossom"}
      BY <3>1, <3>2 DEF BlossomsFollow
    <3>4. QED  BY <1>5, <3>3
  <2>3. QED  BY <2>1, <2>2
<1> HIDE DEF g
<1>8. GroupOf(t, b) \in 1..b
  BY <1>5, <1>6, <1>7 DEF GroupOf
<1>9. QED
  BY <1>1, <1>8

\* Items m, in which the top values of group fill the gaps of own.
IsMerged(own, group, m) ==
    LET added == {p \in DOMAIN group.values : p[1] = <<>> /\ p \notin DOMAIN own.values}
    IN  /\ m = [values |-> m.values, maps |-> own.maps]
        /\ m.maps = own.maps
        /\ DOMAIN m.values = DOMAIN own.values \cup added
        /\ \A p \in DOMAIN own.values : m.values[p] = own.values[p]
        /\ \A p \in added : m.values[p] = group.values[p]

\* The validator leaves nothing for the thread to add.
LEMMA MergedOnce ==
    ASSUME NEW own, NEW group, IsMap(own),
           NEW m, m = FillGaps(own, group), NEW r, r = FillGaps(m, group)
    PROVE  IsMerged(own, group, m) /\ IsMerged(own, group, r)
<1> DEFINE added == {p \in DOMAIN group.values : p[1] = <<>> /\ p \notin DOMAIN own.values}
<1>1. own = [values |-> own.values, maps |-> own.maps]
  BY DEF IsMap
<1>2. m = [values |-> [p \in DOMAIN own.values \cup added |->
                        IF p \in added THEN group.values[p] ELSE own.values[p]],
           maps |-> own.maps]
  BY <1>1 DEF FillGaps
<1>3. IsMerged(own, group, m)
  BY <1>2 DEF IsMerged
<1> DEFINE more == {p \in DOMAIN group.values : p[1] = <<>> /\ p \notin DOMAIN m.values}
<1>4. more = {}
  BY <1>3 DEF IsMerged
<1>5. r = [values |-> [p \in DOMAIN m.values \cup more |->
                        IF p \in more THEN group.values[p] ELSE m.values[p]],
           maps |-> m.maps]
  BY <1>2 DEF FillGaps
<1> HIDE DEF more
<1>6. IsMerged(own, group, r)
  <2>1. DOMAIN r.values = DOMAIN m.values /\ r.maps = m.maps
        /\ \A p \in DOMAIN m.values : r.values[p] = m.values[p]
    BY <1>4, <1>5
  <2>2. r = [values |-> r.values, maps |-> own.maps]
    BY <1>3, <1>5 DEF IsMerged
  <2>3. QED  BY <1>3, <2>1, <2>2 DEF IsMerged
<1>7. QED
  BY <1>3, <1>6

LEMMA MergedIsMap ==
    ASSUME NEW own, NEW group, IsMap(own), IsMap(group), NEW m, IsMerged(own, group, m)
    PROVE  IsMap(m)
BY DEF IsMap, IsMerged

\* What fillInputValueItemMap and convertValueMap make of a map.
LEMMA FilledIs ==
    ASSUME NEW m, IsMap(m), NEW f, f = FillInput(m, Data)
    PROVE  /\ f.maps = m.maps /\ DOMAIN f.values = DOMAIN m.values
           /\ \A p \in DOMAIN m.values : f.values[p].item = Meaning(m.values[p])
<1> DEFINE filled(v) == IF v.isIdentifier /\ v.type # "OUTPUT"
                        THEN [v EXCEPT !.item = Data[v.item[2]], !.isIdentifier = FALSE]
                        ELSE v
<1>1. m = [values |-> m.values, maps |-> m.maps]
  BY DEF IsMap
<1>2. f = [values |-> [p \in DOMAIN m.values |-> filled(m.values[p])],
           maps |-> m.maps]
  BY <1>1 DEF FillInput
<1>3. ASSUME NEW v, IsItem(v)
      PROVE  filled(v).item = Meaning(v)
  <2>1. PICK x : x = Data[v.item[2]]
    OBVIOUS
  <2>2. filled(v) = IF v.isIdentifier /\ v.type # "OUTPUT"
                    THEN [v EXCEPT !.item = x, !.isIdentifier = FALSE]
                    ELSE v
    BY <2>1
  <2> HIDE DEF filled
  <2>3. filled(v).item = IF v.isIdentifier /\ v.type # "OUTPUT" THEN x ELSE v.item
    BY <1>3, <2>2 DEF IsItem
  <2>4. QED  BY <2>1, <2>3 DEF Meaning
<1> HIDE DEF filled
<1>4. ASSUME NEW p \in DOMAIN m.values
      PROVE  f.values[p].item = Meaning(m.values[p])
  <2>1. f.values[p] = filled(m.values[p])
    BY <1>2
  <2>2. IsItem(m.values[p])
    BY DEF IsMap
  <2>3. QED  BY <1>3, <2>1, <2>2
<1>5. f.maps = m.maps /\ DOMAIN f.values = DOMAIN m.values
  BY <1>2
<1>6. QED
  BY <1>4, <1>5

\* The input that comes of a blossom's own items and those of its group.
Input(m, mapWins) == ConvertValueMap(FillInput(m, Data), mapWins)

\* What the items own of a blossom, those of its group, and the merged ones m
\* mean for its input, C being the names left out.
InputSays(own, group, m, in, C) ==
    /\ \A p \in DOMAIN own.values :
        TopName(p) \notin C => p \in DOMAIN in /\ in[p] = Meaning(own.values[p])
    /\ \A p \in own.maps :
        TopName(p) \notin C => p \in DOMAIN in /\ in[p] = <<"map">>
    /\ \A p \in DOMAIN group.values :
        p[1] = <<>> /\ ~Contains(own, p[2]) =>
            p \in DOMAIN in /\ in[p] = Meaning(group.values[p])
    /\ \A p \in DOMAIN m.values \cup m.maps : p[1] = <<>> => p \in DOMAIN in
    /\ DOMAIN in \subseteq DOMAIN m.values \cup m.maps

LEMMA InputIs ==
    ASSUME NEW own, IsMap(own), NoNameTwice(own), NEW group, IsMap(group),
           NEW m, IsMerged(own, group, m), NEW mapWins \in BOOLEAN,
           NEW in, in = Input(m, mapWins),
           NEW C, C = TopNames(own.maps) \cap TopNames(DOMAIN group.values)
    PROVE  InputSays(own, group, m, in, C)
<1> DEFINE f == FillInput(m, Data)
           twice == DOMAIN f.values \cap f.maps
           hidden == {p \in DOMAIN f.values \cup f.maps :
                        p[1] # <<>> /\ Place(Head(p[1])) \in twice}
           added == {p \in DOMAIN group.values :
                        p[1] = <<>> /\ p \notin DOMAIN own.values}
<1>1. IsMap(m)
  BY MergedIsMap
<1>2. /\ f.maps = m.maps /\ DOMAIN f.values = DOMAIN m.values
      /\ \A p \in DOMAIN m.values : f.values[p].item = Meaning(m.values[p])
  BY <1>1, FilledIs
<1>3. /\ DOMAIN in = (DOMAIN f.values \cup f.maps) \ (IF mapWins THEN {} ELSE hidden)
      /\ \A p \in DOMAIN in :
            in[p] = IF p \in f.maps /\ (p \in DOMAIN f.values => mapWins)
                    THEN <<"map">> ELSE f.values[p].item
  BY DEF Input, ConvertValueMap
<1> HIDE DEF f
<1>4. /\ m.maps = own.maps /\ DOMAIN m.values = DOMAIN own.values \cup added
      /\ \A p \in DOMAIN own.values : m.values[p] = own.values[p]
      /\ \A p \in added : m.values[p] = group.values[p]
  BY DEF IsMerged
<1>5. \A p \in DOMAIN m.values \cup m.maps : p \in Places
  BY <1>1 DEF IsMap
<1>6. \A p \in Places : p[1] # <<>> => Head(p[1]) \in Name
  BY DEF Places
<1>7. \A p \in Places : p[1] = <<>> => TopName(p) = p[2] /\ p = Place(p[2])
  <2> TAKE p \in Places
  <2>1. p = <<p[1], p[2]>>
    BY DEF Places
  <2>2. QED  BY <2>1 DEF TopName, Place
<1>8. \A p \in Places : p[1] # <<>> => TopName(p) = Head(p[1])
  BY DEF TopName
<1>9. twice \subseteq added /\ twice \subseteq own.maps
  BY <1>2, <1>4 DEF NoNameTwice
<1>10. ASSUME NEW p \in DOMAIN m.values \cup m.maps, TopName(p) \notin C
       PROVE  p \in DOMAIN in
  <2>1. SUFFICES ASSUME p[1] # <<>>, Place(Head(p[1])) \in twice
                 PROVE  FALSE
    BY <1>2, <1>3, <1>10
  <2>2. PICK h \in Name : h = Head(p[1]) /\ h = TopName(p)
    BY <1>5, <1>6, <1>8, <2>1
  <2>3. Place(h)[1] = <<>> /\ Place(h)[2] = h
    BY PlaceIs
  <2>4. Place(h) \in own.maps /\ Place(h) \in DOMAIN group.values
    BY <1>9, <2>1, <2>2
  <2>5. h \in TopNames(own.maps) /\ h \in TopNames(DOMAIN group.values)
    BY <2>3, <2>4 DEF TopNames
  <2>6. QED  BY <1>10, <2>2, <2>5
<1>11. ASSUME NEW p \in own.maps, p \in added
       PROVE  TopName(p) \in C
  <2>1. p[1] = <<>> /\ TopName(p) = p[2]
    BY <1>4, <1>5, <1>7, <1>11
  <2>2. QED  BY <1>11, <2>1 DEF TopNames
<1>12. \A p \in DOMAIN own.values :
            TopName(p) \notin C => p \in DOMAIN in /\ in[p] = Meaning(own.values[p])
  <2> TAKE p \in DOMAIN own.values
  <2>1. p \notin f.maps /\ p \in DOMAIN m.values
    BY <1>2, <1>4 DEF NoNameTwice
  <2>2. f.values[p].item = Meaning(own.values[p])
    BY <1>2, <1>4, <2>1
  <2>3. QED  BY <1>3, <1>10, <2>1, <2>2
<1>13. \A p \in own.maps :
            TopName(p) \notin C => p \in DOMAIN in /\ in[p] = <<"map">>
  <2> TAKE p \in own.maps
  <2>1. TopName(p) \notin C => p \notin DOMAIN f.values
    BY <1>2, <1>4, <1>11 DEF NoNameTwice
  <2>2. QED  BY <1>2, <1>3, <1>4, <1>10, <2>1
<1>14. \A p \in DOMAIN m.values \cup m.maps : p[1] = <<>> => p \in DOMAIN in
  BY <1>2, <1>3
<1>15. \A p \in DOMAIN group.values :
            p[1] = <<>> /\ ~Contains(own, p[2]) =>
                p \in DOMAIN in /\ in[p] = Meaning(group.values[p])
  <2> TAKE p \in DOMAIN group.values
  <2>1. SUFFICES ASSUME p[1] = <<>>, ~Contains(own, p[2])
                 PROVE  p \in DOMAIN in /\ in[p] = Meaning(group.values[p])
    OBVIOUS
  <2>2. p \in Places
    BY DEF IsMap
  <2>3. p = Place(p[2])
    BY <1>7, <2>1, <2>2
  <2>4. p \notin DOMAIN own.values /\ p \notin own.maps
    BY <2>1, <2>3 DEF Contains
  <2>5. p \in added /\ p \in DOMAIN m.values /\ p \notin f.maps
    BY <1>2, <1>4, <2>1, <2>4
  <2>6. f.values[p].item = Meaning(group.values[p])
    BY <1>2, <1>4, <2>5
  <2>7. QED  BY <1>3, <1>14, <2>1, <2>5, <2>6
<1>16. DOMAIN in \subseteq DOMAIN m.values \cup m.maps
  BY <1>2, <1>3
<1>17. QED
  BY <1>12, <1>13, <1>14, <1>15, <1>16 DEF InputSays

\* What the validator accepts.
Fed(map) ==
    /\ CompareMap(map).input \cup CompareMap(map).output \subseteq Fields
    /\ Required \subseteq CompareMap(map).input

\* An accepted map has its required items, and what else it has for an input
\* is a field.
LEMMA FedHas ==
    ASSUME NEW map, IsMap(map), Fed(map)
    PROVE  /\ \A n \in Required : Place(n) \in DOMAIN map.values \cup map.maps
           /\ \A p \in DOMAIN map.values \cup map.maps :
                p[1] = <<>> /\ p[2] \notin Fields =>
                    p \in DOMAIN map.values /\ map.values[p].type # "INPUT"
<1>1. \A p \in DOMAIN map.values \cup map.maps : p[1] = <<>> => p = Place(p[2])
  <2> TAKE p \in DOMAIN map.values \cup map.maps
  <2>1. p = <<p[1], p[2]>>
    BY DEF IsMap, Places
  <2>2. QED  BY <2>1 DEF Place
<1>2. CompareMap(map).input =
        {n \in TopNames(DOMAIN map.values) : map.values[Place(n)].type = "INPUT"}
            \cup TopNames(map.maps)
  BY DEF CompareMap
<1>3. ASSUME NEW n \in Required
      PROVE  Place(n) \in DOMAIN map.values \cup map.maps
  <2>1. n \in TopNames(DOMAIN map.values) \/ n \in TopNames(map.maps)
    BY <1>2 DEF Fed
  <2>2. PICK p \in DOMAIN map.values \cup map.maps : p[1] = <<>> /\ p[2] = n
    BY <2>1 DEF TopNames
  <2>3. QED  BY <1>1, <2>2
<1>4. ASSUME NEW p \in DOMAIN map.values \cup map.maps,
             p[1] = <<>>, p[2] \notin Fields
      PROVE  p \in DOMAIN map.values /\ map.values[p].type # "INPUT"
  <2>1. p[2] \notin CompareMap(map).input
    BY <1>4 DEF Fed
  <2>2. p \notin map.maps
    BY <1>2, <1>4, <2>1 DEF TopNames
  <2>3. p[2] \in TopNames(DOMAIN map.values)
    BY <1>4, <2>2 DEF TopNames
  <2>4. map.values[Place(p[2])].type # "INPUT"
    BY <1>2, <2>1, <2>3
  <2>5. QED  BY <1>1, <1>4, <2>2, <2>4
<1>5. QED
  BY <1>3, <1>4

-----------------------------------------------------------------------------
(* From the text to the input of a blossom. *)

Gathered(t, b) == FillGaps(Own(t, b), OfGroup(t, b))

\* A tree is validated when it has been handed out, which gives each blossom
\* the items of its group; the thread reads what the validator has left, and
\* its last input comes of nothing else.
VInv ==
    /\ phase # "handed" => status = "none"
    /\ status \in {"none", "refused", "accepted", "processed", "failed"}
    /\ status = "none" => values = <<>> /\ current = 0
    /\ status # "none" => values = [b \in Blossoms(handed) |-> Gathered(handed, b)]
    /\ status \in {"accepted", "processed", "failed"} =>
            \A b \in DOMAIN values : Fed(values[b])
    /\ current # 0 =>
        /\ status \in {"processed", "failed"}
        /\ current \in DOMAIN values
        /\ \E mapWins \in BOOLEAN :
            input = Input(FillGaps(values[current], OfGroup(handed, current)), mapWins)

LEMMA BlossomItemsAre ==
    ASSUME KInv, TInv, NEW b \in Blossoms(handed)
    PROVE  /\ IsMap(Own(handed, b)) /\ NoNameTwice(Own(handed, b))
           /\ IsMap(OfGroup(handed, b))
<1>1. /\ b \in DOMAIN handed /\ handed # <<>>
      /\ handed[b].kind \in {"group", "blossom"}
  BY EmptyIs DEF Blossoms, IsAlone
<1>2. GroupOf(handed, b) \in DOMAIN handed
  BY <1>1, GroupExists DEF TInv
<1>3. \A i \in DOMAIN handed : IsMap(handed[i].values) /\ NoNameTwice(handed[i].values)
  BY <1>1 DEF KInv, IsPart, EveryItemIsKept, NoNameTwice
<1>4. IsMap(EmptyMap) /\ NoNameTwice(EmptyMap)
  BY EmptyMapIs DEF NoNameTwice, EmptyMap
<1>5. QED
  BY <1>1, <1>2, <1>3, <1>4 DEF Own, OfGroup

LEMMA VInvInit == ScriptInit => VInv
BY DEF ScriptInit, Init, VInv

LEMMA VInvNext ==
    VInv /\ [ScriptNext]_<<vars, scriptVars>> => VInv'
<1> SUFFICES ASSUME VInv, [ScriptNext]_<<vars, scriptVars>>
             PROVE  VInv'
  OBVIOUS
<1>1. CASE NextText
  <2>1. phase' = "reading" /\ values' = <<>> /\ status' = "none" /\ current' = 0
    BY <1>1 DEF NextText, Parse
  <2>2. QED  BY <2>1 DEF VInv
<1>2. CASE ReadText
  <2>1. status = "none" /\ values = <<>> /\ current = 0
    BY <1>2 DEF ReadText, VInv
  <2>2. status' = "none" /\ values' = <<>> /\ current' = 0
    BY <1>2, <2>1 DEF ReadText, scriptVars
  <2>3. QED  BY <2>2 DEF VInv
<1>3. ASSUME NEW outputsFirst \in BOOLEAN, AddTree(outputsFirst)
      PROVE  VInv'
  <2>1. /\ phase = "handed" /\ status = "none" /\ phase' = phase /\ handed' = handed
        /\ current' = current
        /\ values' = [b \in Blossoms(handed) |-> Gathered(handed, b)]
        /\ status' = IF \A b \in Blossoms(handed) : IsValid(values'[b], outputsFirst)
                     THEN "accepted" ELSE "refused"
    BY <1>3 DEF AddTree, vars, Gathered
  <2>2. current' = 0
    BY <2>1 DEF VInv
  <2>3. status' = "accepted" => \A b \in DOMAIN values' : Fed(values'[b])
    <3>1. \A map : IsValid(map, outputsFirst) => Fed(map)
      BY DEF IsValid, Fed
    <3>2. DOMAIN values' = Blossoms(handed)
      BY <2>1
    <3>3. QED  BY <2>1, <3>1, <3>2
  <2>4. status' \in {"accepted", "refused"}
    BY <2>1
  <2>5. QED
    BY <2>1, <2>2, <2>3, <2>4 DEF VInv
<1>4. ASSUME NEW b \in DOMAIN values, NEW mapWins \in BOOLEAN,
             ProcessBlossom(b, mapWins)
      PROVE  VInv'
  <2>1. /\ status \in {"accepted", "processed"}
        /\ phase' = phase /\ handed' = handed /\ values' = values
    BY <1>4 DEF ProcessBlossom, vars
  <2>2. /\ phase = "handed"
        /\ values = [k \in Blossoms(handed) |-> Gathered(handed, k)]
        /\ \A k \in DOMAIN values : Fed(values[k])
    BY <2>1 DEF VInv
  <2>3. CASE /\ status' = "processed" /\ current' = b
             /\ input' = Input(FillGaps(values[b], OfGroup(handed, b)), mapWins)
    BY <2>1, <2>2, <2>3 DEF VInv
  <2>4. CASE status' = "failed" /\ current' = current /\ input' = input
    <3>1. current' # 0 =>
            /\ current \in DOMAIN values
            /\ \E wins \in BOOLEAN : input =
                    Input(FillGaps(values[current], OfGroup(handed, current)), wins)
      BY <2>4 DEF VInv
    <3>2. QED  BY <2>1, <2>2, <2>4, <3>1 DEF VInv
  <2>5. QED
    BY <1>4, <2>3, <2>4 DEF ProcessBlossom, Input
<1>5. CASE UNCHANGED <<vars, scriptVars>>
  BY <1>5 DEF vars, scriptVars, VInv
<1>6. QED
  BY <1>1, <1>2, <1>3, <1>4, <1>5 DEF ScriptNext

\* Validating a tree and processing its blossoms is no step of the parser.
LEMMA ScriptStepsParse ==
    [ScriptNext]_<<vars, scriptVars>> => [Next]_vars
<1>1. NextText => Next
  BY DEF NextText, Next
<1>2. ReadText => Next
  BY DEF ReadText
<1>3. ASSUME NEW outputsFirst \in BOOLEAN, AddTree(outputsFirst)
      PROVE  UNCHANGED vars
  BY <1>3 DEF AddTree
<1>4. ASSUME NEW b \in DOMAIN values, NEW mapWins \in BOOLEAN,
             ProcessBlossom(b, mapWins)
      PROVE  UNCHANGED vars
  BY <1>4 DEF ProcessBlossom
<1>5. UNCHANGED <<vars, scriptVars>> => UNCHANGED vars
  OBVIOUS
<1>6. QED
  BY <1>1, <1>2, <1>3, <1>4, <1>5 DEF ScriptNext

SInv == IInv /\ KInv /\ TInv /\ VInv

LEMMA SInvInit == ScriptInit => SInv
BY IInvInit, KInvInit, TInvInit, VInvInit DEF ScriptInit, SInv

LEMMA SInvNext == SInv /\ [ScriptNext]_<<vars, scriptVars>> => SInv'
BY IInvNext, KInvNext, TInvNext, VInvNext, ScriptStepsParse DEF SInv

\* The types of the parser's state, and of what the garden and the threads
\* keep of the tree.
THEOREM ScriptTypes == ScriptSpec => []ScriptTypeOK
<1>1. SInv => ScriptTypeOK
  <2>1. SUFFICES ASSUME SInv
                 PROVE  ScriptTypeOK
    OBVIOUS
  <2>2. TypeOK /\ VInv
    BY <2>1 DEF SInv, TInv
  <2>3. DOMAIN values \subseteq Blossoms(handed)
    <3>1. CASE status = "none"
      BY <2>2, <3>1, EmptyIs DEF VInv
    <3>2. CASE status # "none"
      BY <2>2, <3>2 DEF VInv
    <3>3. QED  BY <3>1, <3>2
  <2>4. QED
    BY <2>2, <2>3 DEF ScriptTypeOK, VInv
<1>2. QED
  BY <1>1, SInvInit, SInvNext, PTL DEF ScriptSpec

\* A tree uses declared identifiers only while it is validated and processed
\* as well: neither changes what was handed out.
THEOREM ScriptTreesAreClosed == ScriptSpec => []IdentifiersAreDeclared
<1>1. SInv => IdentifiersAreDeclared
  BY DEF SInv, IInv
<1>2. QED
  BY <1>1, SInvInit, SInvNext, PTL DEF ScriptSpec

\* A tree that is handed out keeps every item of its text while it is
\* validated and processed.
THEOREM ScriptTreesAreWritten == ScriptSpec => []EveryItemIsKept
<1>1. SInv => EveryItemIsKept
  BY DEF SInv, KInv
<1>2. QED
  BY <1>1, SInvInit, SInvNext, PTL DEF ScriptSpec

\* The input that a blossom gets says what the text says at the blossom, and
\* where the blossom says nothing, what its group says.
THEOREM InputsAreAsWritten == ScriptSpec => []InputIsAsWritten
<1>1. SInv => InputIsAsWritten
  <2>1. SUFFICES ASSUME SInv, current # 0
                 PROVE  LET own == Own(handed, current)
                            group == OfGroup(handed, current)
                        IN  /\ \A p \in DOMAIN own.values :
                                TopName(p) \notin Clashes(current) =>
                                    p \in DOMAIN input /\ input[p] = Meaning(own.values[p])
                            /\ \A p \in own.maps :
                                TopName(p) \notin Clashes(current) =>
                                    p \in DOMAIN input /\ input[p] = <<"map">>
                            /\ \A p \in DOMAIN group.values :
                                p[1] = <<>> /\ ~Contains(own, p[2]) =>
                                    p \in DOMAIN input /\ input[p] = Meaning(group.values[p])
    BY DEF InputIsAsWritten
  <2> DEFINE own == Own(handed, current)
             group == OfGroup(handed, current)
             gathered == FillGaps(own, group)
             merged == FillGaps(gathered, group)
  <2>2. current \in Blossoms(handed) /\ values[current] = gathered
    BY <2>1 DEF SInv, VInv, Gathered
  <2>3. IsMap(own) /\ NoNameTwice(own) /\ IsMap(group)
    BY <2>1, <2>2, BlossomItemsAre DEF SInv
  <2>4. PICK mapWins \in BOOLEAN : input = Input(merged, mapWins)
    BY <2>1, <2>2 DEF SInv, VInv
  <2>5. Clashes(current) = TopNames(own.maps) \cap TopNames(DOMAIN group.values)
    BY DEF Clashes
  <2> HIDE DEF own, group
  <2>6. IsMerged(own, group, merged)
    BY <2>3, MergedOnce
  <2> HIDE DEF merged
  <2>7. InputSays(own, group, merged, input, Clashes(current))
    BY <2>3, <2>4, <2>5, <2>6, InputIs
  <2>8. QED
    BY <2>7 DEF own, group, InputSays
<1>2. QED
  BY <1>1, SInvInit, SInvNext, PTL DEF ScriptSpec

\* A blossom of an accepted tree gets all its required items, and nothing
\* that is no field of it unless it is an output or a comparison.
THEOREM AcceptedTreesAreFed == ScriptSpec => []AcceptedIsFed
<1>1. SInv => AcceptedIsFed
  <2>1. SUFFICES ASSUME SInv, current # 0
                 PROVE  /\ \A n \in Required : Place(n) \in DOMAIN input
                        /\ \A p \in DOMAIN input :
                            p[1] = <<>> /\ p[2] \notin Fields =>
                                /\ p \in DOMAIN values[current].values
                                /\ values[current].values[p].type # "INPUT"
    BY DEF AcceptedIsFed
  <2> DEFINE own == Own(handed, current)
             group == OfGroup(handed, current)
             gathered == FillGaps(own, group)
             merged == FillGaps(gathered, group)
  <2>2. /\ current \in Blossoms(handed) /\ values[current] = gathered
        /\ Fed(gathered)
    BY <2>1 DEF SInv, VInv, Gathered
  <2>3. IsMap(own) /\ NoNameTwice(own) /\ IsMap(group)
    BY <2>1, <2>2, BlossomItemsAre DEF SInv
  <2>4. PICK mapWins \in BOOLEAN : input = Input(merged, mapWins)
    BY <2>1, <2>2 DEF SInv, VInv
  <2> HIDE DEF own, group
  <2>5. IsMerged(own, group, gathered) /\ IsMerged(own, group, merged)
    BY <2>3, MergedOnce
  <2> HIDE DEF gathered, merged
  <2>6. /\ DOMAIN gathered.values = DOMAIN merged.values
        /\ gathered.maps = merged.maps
        /\ IsMap(gathered) /\ IsMap(merged)
    BY <2>3, <2>5, MergedIsMap DEF IsMerged
  <2>7. InputSays(own, group, merged, input,
                  TopNames(own.maps) \cap TopNames(DOMAIN group.values))
    BY <2>3, <2>4, <2>5, InputIs
  <2>8. /\ \A n \in Required : Place(n) \in DOMAIN gathered.values \cup gathered.maps
        /\ \A p \in DOMAIN gathered.values \cup gathered.maps :
                p[1] = <<>> /\ p[2] \notin Fields =>
                    p \in DOMAIN gathered.values /\ gathered.values[p].type # "INPUT"
    BY <2>2, <2>6, FedHas
  <2>9. \A n : Place(n)[1] = <<>>
    BY DEF Place
  <2>10. QED
    BY <2>2, <2>6, <2>7, <2>8, <2>9 DEF InputSays
<1>2. QED
  BY <1>1, SInvInit, SInvNext, PTL DEF ScriptSpec
=============================================================================
