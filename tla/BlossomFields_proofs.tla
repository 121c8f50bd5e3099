------------------------ MODULE BlossomFields_proofs ------------------------
(***************************************************************************)
(* What the checks of fields and values promise about each other: the      *)
(* lemmas that the proofs about Blossom and SakuraLangInterface rest on.   *)
(***************************************************************************)
EXTENDS BlossomFields, WellFoundedInduction, TLAPS

\* A set of places in an order has a first one.
LEMMA SmallestExists ==
    ASSUME NEW S, S # {}, S \subseteq Nat
    PROVE  \E x \in S : \A y \in S : x <= y
<1>1. PICK x \in S : \A y \in S : <<y, x>> \notin OpToRel(<, Nat)
    BY NatLessThanWellFounded, WFMin, Zenon
<1>2. \A y \in S : ~(y < x)
    BY <1>1 DEF OpToRel
<1> QED
    BY <1>2

-----------------------------------------------------------------------------
\* What fillDefaultValues makes of the values of a caller.
LEMMA FilledValues ==
    ASSUME NEW defs, NEW values, NEW filled,
           filled = FillDefaultValues(defs, values)
    PROVE  /\ \A n : n \in DOMAIN filled <=>
                n \in DOMAIN values
                    \/ (n \in DOMAIN defs /\ defs[n].defaultVal # NoItem)
           /\ \A n \in DOMAIN values : filled[n] = values[n]
           /\ \A n \in DOMAIN defs \ DOMAIN values :
                defs[n].defaultVal # NoItem => filled[n] = defs[n].defaultVal
<1> DEFINE D == {k \in DOMAIN defs : defs[k].defaultVal # NoItem}
           new == [n \in D |-> defs[n].defaultVal]
<1>1. DOMAIN new = D /\ \A n \in D : new[n] = defs[n].defaultVal
    OBVIOUS
<1> HIDE DEF new
<1>2. FillDefaultValues(defs, values) =
        [k \in DOMAIN values \cup D |->
            IF k \in D /\ k \notin DOMAIN values THEN new[k] ELSE values[k]]
  <2>1. "ONLY_NON_EXISTING" # "ONLY_EXISTING"
    OBVIOUS
  <2>2. FillDefaultValues(defs, values) =
            OverrideItems(values, new, "ONLY_NON_EXISTING")
    BY DEF FillDefaultValues, new
  <2> QED
    BY <1>1, <2>1, <2>2 DEF OverrideItems
<1> QED
    BY <1>1, <1>2

\* The validation map has the fields of the inputs as they are, and those of
\* the outputs whose names are not those of inputs.
LEMMA ValidationMapFields ==
    ASSUME NEW inDefs, NEW outDefs
    PROVE  /\ DOMAIN ValidationMap(inDefs, outDefs) =
                    DOMAIN inDefs \cup DOMAIN outDefs
           /\ \A n \in DOMAIN inDefs :
                ValidationMap(inDefs, outDefs)[n] = inDefs[n]
           /\ \A n \in DOMAIN outDefs \ DOMAIN inDefs :
                ValidationMap(inDefs, outDefs)[n] = outDefs[n]
<1>1. "ONLY_NON_EXISTING" # "ONLY_EXISTING"
    OBVIOUS
<1>2. ValidationMap(inDefs, outDefs) =
        [k \in DOMAIN inDefs \cup DOMAIN outDefs |->
            IF k \in DOMAIN outDefs /\ k \notin DOMAIN inDefs
            THEN outDefs[k] ELSE inDefs[k]]
    BY <1>1 DEF ValidationMap, OverrideItems
<1> QED
    BY <1>2

\* The items that are compared with the fields, and the fields they stand for.
Pairs(values) == {k \in DOMAIN values : values[k].type \in {"INPUT", "OUTPUT"}}

ItemsFor(values, f) == {k \in Pairs(values) : FieldOf(values, k) = f}

\* A field that is compared has the direction of an item that stands for it.
LEMMA ComparedFields ==
    ASSUME NEW values, DOMAIN values \subseteq DOMAIN Rank
    PROVE  /\ DOMAIN GetCompareMap(values) =
                {FieldOf(values, k) : k \in Pairs(values)}
           /\ \A f \in DOMAIN GetCompareMap(values) :
                \E k \in ItemsFor(values, f) :
                    GetCompareMap(values)[f] = values[k].type
<1> DEFINE First(f) == CHOOSE k \in ItemsFor(values, f) :
                        \A j \in ItemsFor(values, f) : Rank[k] <= Rank[j]
<1>1. GetCompareMap(values) =
        [f \in {FieldOf(values, k) : k \in Pairs(values)} |->
            values[First(f)].type]
    BY DEF GetCompareMap, Pairs, ItemsFor
<1>2. ASSUME NEW f \in {FieldOf(values, k) : k \in Pairs(values)}
      PROVE  First(f) \in ItemsFor(values, f)
  <2>1. PICK k \in ItemsFor(values, f) : TRUE
    BY DEF ItemsFor
  <2> DEFINE places == {Rank[j] : j \in ItemsFor(values, f)}
  <2>2. places # {} /\ places \subseteq Nat
    BY <2>1, RankAssumption DEF ItemsFor, Pairs
  <2>3. PICK x \in places : \A y \in places : x <= y
    BY <2>2, SmallestExists, Zenon
  <2>4. PICK j \in ItemsFor(values, f) : x = Rank[j]
    BY <2>3
  <2>5. \A i \in ItemsFor(values, f) : Rank[j] <= Rank[i]
    BY <2>3, <2>4
  <2> QED
    BY <2>4, <2>5
<1> HIDE DEF First
<1> QED
    BY <1>1, <1>2

-----------------------------------------------------------------------------
\* Items that are accepted before a script runs have every required field on
\* their left-hand side: an output, whose field is the name on the right, does
\* not pass for an input.
LEMMA ValidItemsAreComplete ==
    ASSUME NEW values, DOMAIN values \subseteq DOMAIN Rank,
           NEW inDefs, NEW outDefs, AreFields(inDefs, outDefs),
           NEW allowUnmatched,
           ValidateInput(values, ValidationMap(inDefs, outDefs), allowUnmatched)
    PROVE  Required(inDefs, "INPUT") \subseteq DOMAIN values
<1> DEFINE defs == ValidationMap(inDefs, outDefs)
           map == GetCompareMap(values)
<1>0. /\ DOMAIN defs = DOMAIN inDefs \cup DOMAIN outDefs
      /\ \A n \in DOMAIN inDefs : defs[n] = inDefs[n]
      /\ \A n \in DOMAIN outDefs \ DOMAIN inDefs : defs[n] = outDefs[n]
    BY ValidationMapFields, Zenon
<1>v. ValidateInput(values, defs, allowUnmatched)
    OBVIOUS
<1> HIDE DEF defs
<1> SUFFICES ASSUME NEW n \in Required(inDefs, "INPUT")
             PROVE  n \in DOMAIN values
    OBVIOUS
<1>1. /\ n \in DOMAIN inDefs /\ n \in DOMAIN defs
      /\ defs[n].isRequired /\ defs[n].ioType = "INPUT"
    BY <1>0 DEF Required
<1>2. n \in DOMAIN map /\ map[n] = "INPUT"
    BY <1>1, <1>v DEF ValidateInput
<1>3. PICK k \in ItemsFor(values, n) : map[n] = values[k].type
    BY <1>2, ComparedFields
<1> QED
    BY <1>2, <1>3 DEF ItemsFor, Pairs, FieldOf

\* Items of a script that name declared fields only, set the required ones,
\* and do not use the name of an output also on the left ...
AreComplete(values, inDefs, outDefs) ==
    /\ \A k \in DOMAIN values :
        IF values[k].type = "INPUT" THEN k \in DOMAIN inDefs
        ELSE NameIn(values[k].item) \in DOMAIN outDefs
    /\ \A n \in Required(inDefs, "INPUT") :
        n \in DOMAIN values /\ values[n].type = "INPUT"
    /\ \A k \in DOMAIN values :
        values[k].type = "OUTPUT" =>
            NameIn(values[k].item) \notin DOMAIN values

\* ... are accepted.
LEMMA CompleteItemsAreValid ==
    ASSUME NEW values, DOMAIN values \subseteq DOMAIN Rank,
           NEW inDefs, NEW outDefs, AreFields(inDefs, outDefs),
           NEW allowUnmatched, AreComplete(values, inDefs, outDefs)
    PROVE  ValidateInput(values, ValidationMap(inDefs, outDefs), allowUnmatched)
<1> DEFINE defs == ValidationMap(inDefs, outDefs)
           map == GetCompareMap(values)
<1>0. /\ DOMAIN defs = DOMAIN inDefs \cup DOMAIN outDefs
      /\ \A n \in DOMAIN inDefs : defs[n] = inDefs[n]
      /\ \A n \in DOMAIN outDefs \ DOMAIN inDefs : defs[n] = outDefs[n]
    BY ValidationMapFields, Zenon
<1> HIDE DEF defs
<1>1. DOMAIN map \subseteq DOMAIN defs
  <2>1. DOMAIN map = {FieldOf(values, k) : k \in Pairs(values)}
    BY ComparedFields, Zenon
  <2>2. \A k \in Pairs(values) : FieldOf(values, k) \in DOMAIN defs
    BY <1>0 DEF Pairs, FieldOf, AreComplete
  <2> QED
    BY <2>1, <2>2
<1>2. ASSUME NEW n \in DOMAIN defs, defs[n].isRequired
      PROVE  n \in DOMAIN map /\ map[n] = defs[n].ioType
  <2>1. n \in Required(inDefs, "INPUT") /\ defs[n].ioType = "INPUT"
    BY <1>0, <1>2 DEF AreFields, Required
  <2>2. n \in Pairs(values) /\ FieldOf(values, n) = n
    BY <2>1 DEF Pairs, FieldOf, AreComplete
  <2>3. n \in DOMAIN map
    BY <2>2, ComparedFields
  <2>4. PICK k \in ItemsFor(values, n) : map[n] = values[k].type
    BY <2>3, ComparedFields
  <2>5. values[k].type = "INPUT"
    BY <2>1, <2>4 DEF ItemsFor, Pairs, FieldOf, Required, AreComplete
  <2> QED
    BY <2>1, <2>3, <2>4, <2>5
<1>3. ValidateInput(values, defs, allowUnmatched)
    BY <1>1, <1>2 DEF ValidateInput
<1> QED
    BY <1>3 DEF defs
=============================================================================
