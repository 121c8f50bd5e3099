------------------------- MODULE SakuraThread_proofs -------------------------
(***************************************************************************)
(* Proofs about SakuraThread, for every script the parser can build.       *)
(*                                                                         *)
(* An item is processed with the path of its own file.  The path of p is   *)
(* that of the items on the stack down to the first return frame; below    *)
(* it, the path kept in that frame applies, and so on.  This is PathInv.   *)
(*                                                                         *)
(* Names do not leak.  The names of a plan's items are those of the last   *)
(* loop or return frame that has been popped, in a branch those of the     *)
(* plan that waits for it.  This is NameInv.                               *)
(*                                                                         *)
(* Scripts run as they are written.  Each plan has a fate: the outcome it  *)
(* comes to if its stack is evaluated frame by frame.  The fate of a plan  *)
(* that waits follows from those of its children, and the fate of the root *)
(* is what the tree means.  No step changes a fate.  This is MeaningInv.   *)
(*                                                                         *)
(* Scripts never stand still.  Plans are not nested without a bound, and   *)
(* children are nested deeper than who waits for them.  This is WaitInv.   *)
(*                                                                         *)
(* All but the first need orderly forks: that the counter of a plan comes  *)
(* to the awaited number when the last of its children has ended, and not  *)
(* before or never.  This is OrderInv.                                     *)
(***************************************************************************)
EXTENDS ScriptMeaning, SequenceTheorems, FiniteSetTheorems,
        WellFoundedInduction, TLAPS

IsSeq(s) == s \in Seq(ToSet(s))

Owned(f) == f.kind \in {"item", "loop"}

\* The frame of an item or of an entered loop.
Belongs(f) ==
    /\ f.item \in Item
    /\ f.kind = "loop" => Code[f.item].kind \in {"for", "foreach"}

\* The items of a stack belong to the file whose path will be p's when they
\* are on top: path, or the path in the last return frame above them.
OwnPaths(stack, path) ==
    \A i \in 1 .. Len(stack) : Owned(stack[i]) =>
        /\ Belongs(stack[i])
        /\ (\A j \in 1 .. i - 1 : stack[j].kind # "return")
                => Home[stack[i].item] = path
        /\ \A j \in 1 .. i - 1 :
            (stack[j].kind = "return"
                /\ \A k \in j + 1 .. i - 1 : stack[k].kind # "return")
                    => Home[stack[i].item] = stack[j].path

PathInv ==
    /\ DOMAIN todo = Live /\ DOMAIN items = Live /\ DOMAIN filePath = Live
    /\ \A p \in Live :
        /\ IsSeq(p) /\ IsSeq(todo[p]) /\ OwnPaths(todo[p], filePath[p])
        /\ status[p] = "wait" => todo[p] # <<>> /\ Top(p).kind = "join"

-----------------------------------------------------------------------------
\* Facts about sequences that hold whatever the elements are.
LEMMA SeqIsSeq ==
    ASSUME NEW S, NEW s \in Seq(S)
    PROVE  IsSeq(s)
<1>1. /\ Len(s) \in Nat /\ s \in [1 .. Len(s) -> S] /\ DOMAIN s = 1 .. Len(s)
    BY LenProperties
<1>2. s \in [1 .. Len(s) -> ToSet(s)]
    BY <1>1 DEF ToSet
<1>. QED
    BY <1>1, <1>2, SeqDef DEF IsSeq

LEMMA IsSeqProperties ==
    ASSUME NEW s, IsSeq(s)
    PROVE  Len(s) \in Nat /\ DOMAIN s = 1 .. Len(s)
BY LenProperties DEF IsSeq

LEMMA ConcatIsSeq ==
    ASSUME NEW s, NEW t, IsSeq(s), IsSeq(t)
    PROVE  /\ IsSeq(s \o t)
           /\ Len(s \o t) = Len(s) + Len(t)
           /\ \A i \in 1 .. Len(s) : (s \o t)[i] = s[i]
           /\ \A i \in Len(s) + 1 .. Len(s) + Len(t) :
                (s \o t)[i] = t[i - Len(s)]
<1> DEFINE S == ToSet(s) \cup ToSet(t)
<1>1. s \in Seq(S) /\ t \in Seq(S)
    <2>1. ToSet(s) \subseteq S /\ ToSet(t) \subseteq S
        OBVIOUS
    <2>. QED
        BY <2>1, SeqMonotonic DEF IsSeq
<1>2. Len(s) \in Nat /\ Len(t) \in Nat
    BY IsSeqProperties
<1>3. /\ s \o t \in Seq(S)
      /\ Len(s \o t) = Len(s) + Len(t)
      /\ \A i \in 1 .. Len(s) + Len(t) :
            (s \o t)[i] = IF i <= Len(s) THEN s[i] ELSE t[i - Len(s)]
    <2>. HIDE DEF S
    <2>. QED
        BY <1>1, ConcatProperties
<1>4. IsSeq(s \o t)
    BY <1>3, SeqIsSeq
<1>. QED
    BY <1>2, <1>3, <1>4

LEMMA TailIsSeq ==
    ASSUME NEW s, IsSeq(s), s # <<>>
    PROVE  /\ IsSeq(Tail(s))
           /\ Len(s) \in Nat \ {0}
           /\ Len(Tail(s)) = Len(s) - 1
           /\ \A i \in 1 .. Len(s) - 1 : Tail(s)[i] = s[i + 1]
           /\ Head(s) = s[1]
<1>1. s \in Seq(ToSet(s))
    BY DEF IsSeq
<1>2. Tail(s) \in Seq(ToSet(s)) /\ Len(Tail(s)) = Len(s) - 1
    BY <1>1, HeadTailProperties
<1>3. \A i \in 1 .. Len(Tail(s)) : Tail(s)[i] = s[i + 1]
    BY <1>1, HeadTailProperties
<1>4. Len(s) \in Nat \ {0}
    BY <1>1, EmptySeq
<1>5. Head(s) = s[1]
    BY <1>1
<1>6. IsSeq(Tail(s))
    BY <1>2, SeqIsSeq
<1>. QED
    BY <1>2, <1>3, <1>4, <1>5, <1>6

LEMMA SingletonIsSeq ==
    ASSUME NEW e
    PROVE  IsSeq(<<e>>) /\ Len(<<e>>) = 1 /\ <<e>>[1] = e
<1>1. <<e>> \in Seq({e})
    OBVIOUS
<1>. QED
    BY <1>1, SeqIsSeq

LEMMA EmptyIsSeq == IsSeq(<<>>) /\ Len(<<>>) = 0
BY EmptySeq DEF IsSeq

LEMMA AppendIsSeq ==
    ASSUME NEW s, IsSeq(s), NEW e
    PROVE  IsSeq(Append(s, e)) /\ Last(Append(s, e)) = e
<1> DEFINE S == ToSet(s) \cup {e}
<1>1. s \in Seq(S) /\ e \in S
    BY SeqMonotonic DEF IsSeq
<1>. HIDE DEF S
<1>2. Append(s, e) \in Seq(S)
    BY <1>1
<1>3. Len(Append(s, e)) = Len(s) + 1 /\ Append(s, e)[Len(s) + 1] = e
    BY <1>1
<1>. QED
    BY <1>2, <1>3, SeqIsSeq DEF Last

-----------------------------------------------------------------------------
\* What may be pushed on a stack and popped from it.

\* Frames that stay within path, on top of a stack that is right for path.
LEMMA Pushed ==
    ASSUME NEW new, NEW rest, NEW path, IsSeq(new), IsSeq(rest),
           OwnPaths(rest, path),
           \A i \in 1 .. Len(new) :
                /\ new[i].kind # "return"
                /\ Owned(new[i]) => Belongs(new[i])
                                    /\ Home[new[i].item] = path
    PROVE  IsSeq(new \o rest) /\ OwnPaths(new \o rest, path)
<1> DEFINE stack == new \o rest
           N == Len(new)
           M == Len(rest)
<1>1. N \in Nat /\ M \in Nat
    BY IsSeqProperties
<1>2. /\ IsSeq(stack)
      /\ Len(stack) = N + M
      /\ \A i \in 1 .. N : stack[i] = new[i]
      /\ \A i \in N + 1 .. N + M : stack[i] = rest[i - N]
    BY ConcatIsSeq
<1>. HIDE DEF stack
<1>3. ASSUME NEW i \in 1 .. Len(stack), Owned(stack[i])
      PROVE  /\ Belongs(stack[i])
             /\ (\A j \in 1 .. i - 1 : stack[j].kind # "return")
                    => Home[stack[i].item] = path
             /\ \A j \in 1 .. i - 1 :
                    (stack[j].kind = "return"
                        /\ \A k \in j + 1 .. i - 1 : stack[k].kind # "return")
                            => Home[stack[i].item] = stack[j].path
    <2>1. CASE i <= N
        <3>1. i \in 1 .. N /\ stack[i] = new[i]
            BY <2>1, <1>1, <1>2
        <3>2. \A j \in 1 .. i - 1 : stack[j].kind # "return"
            BY <2>1, <1>1, <1>2
        <3>. QED
            BY <3>1, <3>2, <1>3
    <2>2. CASE ~(i <= N)
        <3>1. i - N \in 1 .. M /\ stack[i] = rest[i - N]
            BY <2>2, <1>1, <1>2
        <3>2. \A j \in 1 .. i - N - 1 : stack[j + N] = rest[j]
                                        /\ j + N \in 1 .. i - 1
            <4>1. TAKE j \in 1 .. i - N - 1
            <4>2. j + N \in N + 1 .. N + M /\ j + N \in 1 .. i - 1
                BY <3>1, <1>1
            <4>3. stack[j + N] = rest[(j + N) - N] /\ (j + N) - N = j
                BY <4>2, <1>1, <1>2
            <4>. QED
                BY <4>2, <4>3
        <3>3. ASSUME \A j \in 1 .. i - 1 : stack[j].kind # "return"
              PROVE  Home[stack[i].item] = path
            <4>1. \A j \in 1 .. (i - N) - 1 : rest[j].kind # "return"
                BY <3>2, <3>3, <1>1
            <4>. QED
                BY <4>1, <3>1, <1>3 DEF OwnPaths
        <3>4. ASSUME NEW j \in 1 .. i - 1, stack[j].kind = "return",
                     \A k \in j + 1 .. i - 1 : stack[k].kind # "return"
              PROVE  Home[stack[i].item] = stack[j].path
            <4>1. ~(j <= N)
                BY <3>4, <1>1, <1>2
            <4>2. j - N \in 1 .. (i - N) - 1 /\ stack[j] = rest[j - N]
                BY <4>1, <3>1, <1>1, <1>2
            <4>3. ASSUME NEW k \in (j - N) + 1 .. (i - N) - 1
                  PROVE  rest[k].kind # "return"
                <5>1. k + N \in j + 1 .. i - 1 /\ stack[k + N] = rest[k]
                    BY <4>2, <3>1, <3>2, <1>1
                <5>. QED
                    BY <5>1, <3>4
            <4>. QED
                BY <4>2, <4>3, <3>1, <3>4, <1>3 DEF OwnPaths
        <3>. QED
            BY <3>1, <3>3, <3>4, <1>3 DEF OwnPaths
    <2>. QED
        BY <2>1, <2>2
<1>. QED
    BY <1>2, <1>3 DEF OwnPaths, stack

\* One frame, which is no return frame.
LEMMA PushedOne ==
    ASSUME NEW f, NEW rest, NEW path, IsSeq(rest), OwnPaths(rest, path),
           f.kind # "return",
           Owned(f) => Belongs(f) /\ Home[f.item] = path
    PROVE  IsSeq(<<f>> \o rest) /\ OwnPaths(<<f>> \o rest, path)
<1>1. IsSeq(<<f>>) /\ Len(<<f>>) = 1 /\ <<f>>[1] = f
    BY SingletonIsSeq
<1>2. \A i \in 1 .. Len(<<f>>) : <<f>>[i] = f
    BY <1>1
<1>3. \A i \in 1 .. Len(<<f>>) :
            /\ <<f>>[i].kind # "return"
            /\ Owned(<<f>>[i]) => Belongs(<<f>>[i])
                                  /\ Home[<<f>>[i].item] = path
    BY <1>2, Zenon
<1>. QED
    BY <1>1, <1>3, Pushed

\* Items of one file.
LEMMA FramesOfItems ==
    ASSUME NEW seq, NEW path, InFile(seq, path)
    PROVE  /\ IsSeq(ItemFrames(seq))
           /\ \A i \in 1 .. Len(ItemFrames(seq)) :
                /\ ItemFrames(seq)[i].kind # "return"
                /\ Belongs(ItemFrames(seq)[i])
                /\ Home[ItemFrames(seq)[i].item] = path
<1>1. seq \in Seq(Item) /\ Len(seq) \in Nat /\ DOMAIN seq = 1 .. Len(seq)
    BY LenProperties DEF InFile
<1>2. \A i \in 1 .. Len(seq) : seq[i] \in Item /\ Home[seq[i]] = path
    BY <1>1, ElementOfSeq DEF InFile, ToSet
<1> DEFINE new == ItemFrames(seq)
           F == {[kind |-> "item", item |-> i] : i \in Item}
<1>3. new \in [1 .. Len(seq) -> F]
    BY <1>1, <1>2 DEF ItemFrames
<1>4. new \in Seq(F) /\ Len(new) = Len(seq)
    BY <1>1, <1>3, SeqDef
<1>5. IsSeq(new)
    <2>. HIDE DEF F, new
    <2>. QED
        BY <1>4, SeqIsSeq
<1>6. \A i \in 1 .. Len(new) : new[i] = [kind |-> "item", item |-> seq[i]]
    BY <1>1, <1>4 DEF ItemFrames
<1>7. \A i \in 1 .. Len(new) :
            /\ new[i].kind # "return"
            /\ Belongs(new[i])
            /\ Home[new[i].item] = path
    <2>. HIDE DEF new
    <2>1. TAKE i \in 1 .. Len(new)
    <2>2. i \in 1 .. Len(seq)
        BY <1>4
    <2>3. new[i] = [kind |-> "item", item |-> seq[i]]
        BY <1>6
    <2>4. new[i].kind = "item" /\ new[i].item = seq[i]
        BY <2>3
    <2>5. Belongs(new[i]) /\ Home[new[i].item] = path
        BY <2>2, <2>4, <1>2 DEF Belongs
    <2>. QED
        BY <2>4, <2>5
<1>. QED
    BY <1>5, <1>7

LEMMA ItemFramesOwn ==
    ASSUME NEW seq, NEW path, InFile(seq, path)
    PROVE  IsSeq(ItemFrames(seq)) /\ OwnPaths(ItemFrames(seq), path)
<1> DEFINE new == ItemFrames(seq)
<1>1. /\ IsSeq(new)
      /\ \A i \in 1 .. Len(new) : /\ new[i].kind # "return"
                                  /\ Belongs(new[i])
                                  /\ Home[new[i].item] = path
    BY FramesOfItems
<1>2. Len(new) \in Nat
    BY <1>1, IsSeqProperties
<1>. HIDE DEF new
<1>3. OwnPaths(new, path)
    BY <1>1, <1>2 DEF OwnPaths
<1>. QED
    BY <1>1, <1>3 DEF new

LEMMA PushedItems ==
    ASSUME NEW seq, NEW rest, NEW path, InFile(seq, path), IsSeq(rest),
           OwnPaths(rest, path)
    PROVE  IsSeq(Sequence(seq, rest)) /\ OwnPaths(Sequence(seq, rest), path)
<1> DEFINE new == ItemFrames(seq)
<1>1. /\ IsSeq(new)
      /\ \A i \in 1 .. Len(new) : /\ new[i].kind # "return"
                                  /\ Belongs(new[i])
                                  /\ Home[new[i].item] = path
    BY FramesOfItems
<1>. HIDE DEF new
<1>. QED
    BY <1>1, Pushed DEF Sequence, new

\* A call: below the return frame its path applies, above it any other.
LEMMA Entered ==
    ASSUME NEW f, NEW rest, NEW path, IsSeq(rest), OwnPaths(rest, f.path),
           f.kind = "return"
    PROVE  IsSeq(<<f>> \o rest) /\ OwnPaths(<<f>> \o rest, path)
<1> DEFINE stack == <<f>> \o rest
           M == Len(rest)
<1>1. IsSeq(<<f>>) /\ Len(<<f>>) = 1 /\ <<f>>[1] = f
    BY SingletonIsSeq
<1>2. /\ IsSeq(stack)
      /\ Len(stack) = 1 + M
      /\ \A i \in 1 .. 1 : stack[i] = <<f>>[i]
      /\ \A i \in 1 + 1 .. 1 + M : stack[i] = rest[i - 1]
    BY <1>1, ConcatIsSeq
<1>3. M \in Nat /\ stack[1] = f
    BY <1>1, <1>2, IsSeqProperties
<1>. HIDE DEF stack
<1>4. ASSUME NEW i \in 1 .. Len(stack), Owned(stack[i])
      PROVE  /\ Belongs(stack[i])
             /\ (\A j \in 1 .. i - 1 : stack[j].kind # "return")
                    => Home[stack[i].item] = path
             /\ \A j \in 1 .. i - 1 :
                    (stack[j].kind = "return"
                        /\ \A k \in j + 1 .. i - 1 : stack[k].kind # "return")
                            => Home[stack[i].item] = stack[j].path
    <2>1. i # 1
        BY <1>3, <1>4 DEF Owned
    <2>2. i - 1 \in 1 .. M /\ stack[i] = rest[i - 1]
        BY <2>1, <1>2, <1>3
    <2>3. \A j \in 1 .. i - 2 : stack[j + 1] = rest[j]
        BY <2>2, <1>2, <1>3
    <2>4. stack[1].kind = "return" /\ 1 \in 1 .. i - 1
        BY <2>2, <1>3
    <2>5. ASSUME NEW j \in 1 .. i - 1, stack[j].kind = "return",
                 \A k \in j + 1 .. i - 1 : stack[k].kind # "return"
          PROVE  Home[stack[i].item] = stack[j].path
        <3>1. CASE j = 1
            <4>1. ASSUME NEW k \in 1 .. (i - 1) - 1
                  PROVE  rest[k].kind # "return"
                <5>1. k + 1 \in j + 1 .. i - 1 /\ stack[k + 1] = rest[k]
                    BY <3>1, <2>2, <2>3
                <5>. QED
                    BY <5>1, <2>5
            <4>. QED
                BY <4>1, <3>1, <2>2, <1>3, <1>4 DEF OwnPaths
        <3>2. CASE j # 1
            <4>1. j - 1 \in 1 .. (i - 1) - 1 /\ stack[j] = rest[j - 1]
                BY <3>2, <2>2, <1>2, <1>3
            <4>2. ASSUME NEW k \in (j - 1) + 1 .. (i - 1) - 1
                  PROVE  rest[k].kind # "return"
                <5>1. k + 1 \in j + 1 .. i - 1 /\ stack[k + 1] = rest[k]
                    BY <2>2, <2>3
                <5>. QED
                    BY <5>1, <2>5
            <4>. QED
                BY <4>1, <4>2, <2>2, <2>5, <1>4 DEF OwnPaths
        <3>. QED
            BY <3>1, <3>2
    <2>6. Belongs(stack[i])
        BY <2>2, <1>4 DEF OwnPaths
    <2>. QED
        BY <2>4, <2>5, <2>6
<1>. QED
    BY <1>2, <1>4 DEF OwnPaths, stack

\* A frame is popped: the path stays, or is the one of the return frame.
LEMMA Popped ==
    ASSUME NEW stack, NEW path, IsSeq(stack), stack # <<>>,
           OwnPaths(stack, path)
    PROVE  /\ IsSeq(Tail(stack))
           /\ Head(stack).kind # "return" => OwnPaths(Tail(stack), path)
           /\ Head(stack).kind = "return"
                => OwnPaths(Tail(stack), Head(stack).path)
           /\ Owned(Head(stack)) => Belongs(Head(stack))
                                    /\ Home[Head(stack).item] = path
<1> DEFINE t == Tail(stack)
           N == Len(stack)
<1>1. /\ IsSeq(t) /\ N \in Nat \ {0} /\ Len(t) = N - 1
      /\ \A i \in 1 .. N - 1 : t[i] = stack[i + 1]
      /\ Head(stack) = stack[1]
    BY TailIsSeq
<1>2. Owned(Head(stack)) => Belongs(Head(stack))
                            /\ Home[Head(stack).item] = path
    BY <1>1 DEF OwnPaths
<1>. HIDE DEF t
<1>3. ASSUME NEW i \in 1 .. Len(t), Owned(t[i])
      PROVE  /\ Belongs(t[i])
             /\ \A j \in 1 .. i - 1 :
                    (t[j].kind = "return"
                        /\ \A k \in j + 1 .. i - 1 : t[k].kind # "return")
                            => Home[t[i].item] = t[j].path
             /\ (\A j \in 1 .. i - 1 : t[j].kind # "return") =>
                    Home[t[i].item] = IF stack[1].kind = "return"
                                      THEN stack[1].path ELSE path
    <2>1. i + 1 \in 1 .. N /\ t[i] = stack[i + 1] /\ Owned(stack[i + 1])
        BY <1>1, <1>3
    <2>2. Belongs(t[i])
        BY <2>1 DEF OwnPaths
    <2>3. ASSUME NEW j \in 1 .. i - 1, t[j].kind = "return",
                 \A k \in j + 1 .. i - 1 : t[k].kind # "return"
          PROVE  Home[t[i].item] = t[j].path
        <3>1. j + 1 \in 1 .. (i + 1) - 1 /\ t[j] = stack[j + 1]
            BY <1>1, <2>1
        <3>2. ASSUME NEW k \in (j + 1) + 1 .. (i + 1) - 1
              PROVE  stack[k].kind # "return"
            <4>1. k - 1 \in j + 1 .. i - 1 /\ t[k - 1] = stack[k]
                BY <1>1, <2>1
            <4>. QED
                BY <4>1, <2>3
        <3>. QED
            BY <3>1, <3>2, <2>1, <2>3 DEF OwnPaths
    <2>4. ASSUME \A j \in 1 .. i - 1 : t[j].kind # "return"
          PROVE  Home[t[i].item] = IF stack[1].kind = "return"
                                   THEN stack[1].path ELSE path
        <3>1. ASSUME NEW k \in 2 .. (i + 1) - 1
              PROVE  stack[k].kind # "return"
            <4>1. k - 1 \in 1 .. i - 1 /\ t[k - 1] = stack[k]
                BY <1>1, <2>1
            <4>. QED
                BY <4>1, <2>4
        <3>2. CASE stack[1].kind = "return"
            <4>1. 1 \in 1 .. (i + 1) - 1
                BY <2>1
            <4>2. \A k \in 1 + 1 .. (i + 1) - 1 : stack[k].kind # "return"
                BY <3>1
            <4>3. Home[stack[i + 1].item] = stack[1].path
                BY <4>1, <4>2, <3>2, <2>1 DEF OwnPaths
            <4>. QED
                BY <4>3, <3>2, <2>1
        <3>3. CASE stack[1].kind # "return"
            <4>1. \A k \in 1 .. (i + 1) - 1 : stack[k].kind # "return"
                BY <3>1, <3>3, <2>1
            <4>. QED
                BY <4>1, <3>3, <2>1 DEF OwnPaths
        <3>. QED
            BY <3>2, <3>3
    <2>. QED
        BY <2>2, <2>3, <2>4
<1>4. stack[1].kind # "return" => OwnPaths(t, path)
    BY <1>3 DEF OwnPaths
<1>5. stack[1].kind = "return" => OwnPaths(t, stack[1].path)
    BY <1>3 DEF OwnPaths
<1>. QED
    BY <1>1, <1>2, <1>4, <1>5 DEF t

-----------------------------------------------------------------------------
\* What the steps of a plan do to the invariant.

\* The plan goes on with a stack that is right for its path.
LEMMA Continued ==
    ASSUME PathInv, NEW p \in Live, NEW stack, NEW map, NEW path,
           Continue(p, stack, map, path), IsSeq(stack), OwnPaths(stack, path),
           status[p] = "run"
    PROVE  PathInv'
<1>1. /\ status' = status /\ DOMAIN todo' = Live /\ DOMAIN items' = Live
      /\ DOMAIN filePath' = Live
      /\ todo'[p] = stack /\ filePath'[p] = path
      /\ \A q \in Live \ {p} : todo'[q] = todo[q]
                                /\ filePath'[q] = filePath[q]
    BY DEF Continue, PathInv, Live
<1>2. ASSUME NEW q \in Live
      PROVE  /\ IsSeq(q) /\ IsSeq(todo'[q]) /\ OwnPaths(todo'[q], filePath'[q])
             /\ status'[q] = "wait" => todo'[q] # <<>>
                                       /\ Head(todo'[q]).kind = "join"
    <2>1. CASE q = p
        BY <1>1, <2>1 DEF PathInv
    <2>2. CASE q # p
        BY <1>1, <2>2 DEF PathInv, Top
    <2>. QED
        BY <2>1, <2>2
<1>. QED
    BY <1>1, <1>2 DEF PathInv, Live, Top

LEMMA EmptyOwn == ASSUME NEW path PROVE OwnPaths(<<>>, path)
BY EmptyIsSeq DEF OwnPaths

LEMMA Failed ==
    ASSUME PathInv, NEW p \in Live, Fail(p)
    PROVE  PathInv'
<1>1. /\ DOMAIN status' = Live /\ DOMAIN todo' = Live /\ DOMAIN items' = Live
      /\ DOMAIN filePath' = Live /\ filePath' = filePath
      /\ todo'[p] = <<>> /\ status'[p] = "failed"
      /\ \A q \in Live \ {p} : todo'[q] = todo[q] /\ status'[q] = status[q]
    BY DEF Fail, PathInv, Live
<1>2. ASSUME NEW q \in Live
      PROVE  /\ IsSeq(q) /\ IsSeq(todo'[q]) /\ OwnPaths(todo'[q], filePath'[q])
             /\ status'[q] = "wait" => todo'[q] # <<>>
                                       /\ Head(todo'[q]).kind = "join"
    <2>1. CASE q = p
        BY <1>1, <2>1, EmptyIsSeq, EmptyOwn DEF PathInv
    <2>2. CASE q # p
        BY <1>1, <2>2 DEF PathInv, Top
    <2>. QED
        BY <2>1, <2>2
<1>. QED
    BY <1>1, <1>2 DEF PathInv, Live, Top

\* The frame on top of a running plan's stack, and what is below it.
LEMMA OnTop ==
    ASSUME PathInv, NEW p \in Live, todo[p] # <<>>
    PROVE  /\ IsSeq(Rest(p))
           /\ Top(p).kind # "return" => OwnPaths(Rest(p), filePath[p])
           /\ Top(p).kind = "return" => OwnPaths(Rest(p), Top(p).path)
           /\ Owned(Top(p)) => Belongs(Top(p))
                               /\ Home[Top(p).item] = filePath[p]
BY Popped DEF PathInv, Top, Rest

\* The call of a tree, from a group or from a subtree item.
LEMMA Called ==
    ASSUME PathInv, NEW p \in Live, NEW path \in DOMAIN Tree, NEW values,
           status[p] = "run", todo[p] # <<>>, Top(p).kind # "return",
           RunSubtreeCall(p, path, values)
    PROVE  PathInv'
<1>1. CASE Fail(p)
    BY <1>1, Failed
<1>2. CASE \E v, map : Continue(p, Sequence(Tree[path].childs,
                <<[kind |-> "return", values |-> v, backup |-> items[p],
                   path |-> filePath[p]]>> \o Rest(p)), map, path)
    <2>1. PICK v, map : Continue(p, Sequence(Tree[path].childs,
                <<[kind |-> "return", values |-> v, backup |-> items[p],
                   path |-> filePath[p]]>> \o Rest(p)), map, path)
        BY <1>2
    <2> DEFINE frame == [kind |-> "return", values |-> v,
                         backup |-> items[p], path |-> filePath[p]]
               below == <<frame>> \o Rest(p)
    <2>2. frame.kind = "return" /\ frame.path = filePath[p]
        OBVIOUS
    <2>3. IsSeq(Rest(p)) /\ OwnPaths(Rest(p), frame.path)
        BY <2>2, OnTop
    <2>4. IsSeq(below) /\ OwnPaths(below, path)
        <3>. HIDE DEF frame
        <3>. QED
            BY <2>2, <2>3, Entered
    <2>5. InFile(Tree[path].childs, path)
        BY ScriptAssumption
    <2>. HIDE DEF below
    <2>6. /\ IsSeq(Sequence(Tree[path].childs, below))
          /\ OwnPaths(Sequence(Tree[path].childs, below), path)
        BY <2>4, <2>5, PushedItems
    <2>. QED
        BY <2>1, <2>6, Continued DEF below
<1>. QED
    BY <1>1, <1>2, Zenon DEF RunSubtreeCall

\* One frame, which is no return frame, in the place of the top one.
LEMMA Replaced ==
    ASSUME PathInv, NEW p \in Live, status[p] = "run", todo[p] # <<>>,
           Top(p).kind # "return", NEW f, NEW map, f.kind # "return",
           Owned(f) => Belongs(f) /\ Home[f.item] = filePath[p],
           Continue(p, <<f>> \o Rest(p), map, filePath[p])
    PROVE  PathInv'
<1>1. IsSeq(Rest(p)) /\ OwnPaths(Rest(p), filePath[p])
    BY OnTop
<1>2. IsSeq(<<f>> \o Rest(p)) /\ OwnPaths(<<f>> \o Rest(p), filePath[p])
    BY <1>1, PushedOne
<1>. QED
    BY <1>2, Continued

\* The top frame is done.
LEMMA Dropped ==
    ASSUME PathInv, NEW p \in Live, status[p] = "run", todo[p] # <<>>,
           NEW map,
           \/ Top(p).kind # "return"
                /\ Continue(p, Rest(p), map, filePath[p])
           \/ Top(p).kind = "return"
                /\ Continue(p, Rest(p), map, Top(p).path)
    PROVE  PathInv'
<1>1. /\ IsSeq(Rest(p))
      /\ Top(p).kind # "return" => OwnPaths(Rest(p), filePath[p])
      /\ Top(p).kind = "return" => OwnPaths(Rest(p), Top(p).path)
    BY OnTop
<1>. QED
    BY <1>1, Continued

\* Parallel branches and iterations start on the path of their parent.
LEMMA Spawned ==
    ASSUME PathInv, NEW p \in Live, status[p] = "run", todo[p] # <<>>,
           Top(p).kind # "return", NEW stacks, NEW maps, NEW frame,
           frame.kind = "join",
           \A i \in DOMAIN stacks :
                IsSeq(stacks[i]) /\ OwnPaths(stacks[i], filePath[p]),
           Spawn(p, stacks, maps, frame)
    PROVE  PathInv'
<1> DEFINE new == {Append(p, i) : i \in DOMAIN stacks}
           stack == <<frame>> \o Rest(p)
<1>1. \A q \in new : IsSeq(q) /\ Last(q) \in DOMAIN stacks
    <2>1. IsSeq(p)
        BY DEF PathInv
    <2>2. TAKE q \in new
    <2>3. PICK i \in DOMAIN stacks : q = Append(p, i)
        BY <2>2
    <2>. QED
        BY <2>1, <2>3, AppendIsSeq
<1>2. IsSeq(stack) /\ OwnPaths(stack, filePath[p])
    <2>1. IsSeq(Rest(p)) /\ OwnPaths(Rest(p), filePath[p])
        BY OnTop
    <2>2. ~Owned(frame) /\ frame.kind # "return"
        BY DEF Owned
    <2>. QED
        BY <2>1, <2>2, PushedOne
<1>3. stack # <<>> /\ Head(stack).kind = "join"
    <2>1. IsSeq(Rest(p))
        BY OnTop
    <2>2. IsSeq(<<frame>>) /\ Len(<<frame>>) = 1 /\ <<frame>>[1] = frame
        BY SingletonIsSeq
    <2>3. stack[1] = frame /\ Len(stack) = 1 + Len(Rest(p))
        BY <2>1, <2>2, ConcatIsSeq
    <2>4. Len(Rest(p)) \in Nat
        BY <2>1, IsSeqProperties
    <2>5. stack # <<>>
        BY <2>3, <2>4, EmptyIsSeq
    <2>6. Head(stack) = stack[1]
        BY <1>2, <2>5, TailIsSeq
    <2>. QED
        BY <2>3, <2>5, <2>6
<1>. HIDE DEF new, stack
<1>4. /\ status' = With([q \in new |-> "run"], [status EXCEPT ![p] = "wait"])
      /\ todo' = With([q \in new |-> stacks[Last(q)]],
                      [todo EXCEPT ![p] = stack])
      /\ items' = With([q \in new |-> maps[Last(q)]], items)
      /\ filePath' = With([q \in new |-> filePath[p]], filePath)
    BY DEF Spawn, new, stack
<1>5. /\ DOMAIN status' = new \cup Live /\ DOMAIN todo' = new \cup Live
      /\ DOMAIN items' = new \cup Live /\ DOMAIN filePath' = new \cup Live
    BY <1>4 DEF PathInv, Live, With
<1>6. \A q \in new : /\ status'[q] = "run" /\ todo'[q] = stacks[Last(q)]
                     /\ filePath'[q] = filePath[p]
    BY <1>4 DEF With
<1>7. \A q \in Live \ new :
        /\ filePath'[q] = filePath[q]
        /\ q = p => todo'[q] = stack
        /\ q # p => todo'[q] = todo[q] /\ status'[q] = status[q]
    BY <1>4 DEF PathInv, Live, With
<1>8. ASSUME NEW q \in new \cup Live
      PROVE  /\ IsSeq(q) /\ IsSeq(todo'[q]) /\ OwnPaths(todo'[q], filePath'[q])
             /\ status'[q] = "wait" => todo'[q] # <<>>
                                       /\ Head(todo'[q]).kind = "join"
    <2>1. CASE q \in new
        BY <1>1, <1>6, <2>1
    <2>2. CASE q \notin new /\ q = p
        BY <1>2, <1>3, <1>7, <2>2 DEF PathInv
    <2>3. CASE q \notin new /\ q # p
        BY <1>7, <2>3 DEF PathInv, Top
    <2>. QED
        BY <2>1, <2>2, <2>3
<1>. QED
    BY <1>5, <1>8 DEF PathInv, Live, Top

\* A join leaves the plans that are no children, and pops its frame.
LEMMA Joined ==
    ASSUME PathInv, NEW p \in Live, Join(p)
    PROVE  PathInv'
<1> DEFINE kept == Live \ Below(p)
<1>1. kept \subseteq Live
    OBVIOUS
<1>2. todo[p] # <<>> /\ Top(p).kind = "join"
    BY DEF Join, PathInv
<1>3. IsSeq(Rest(p)) /\ OwnPaths(Rest(p), filePath[p])
    BY <1>2, OnTop
<1>. HIDE DEF kept
<1>4. PICK ok, map :
        /\ status' = [Restrict(status, kept) EXCEPT
                        ![p] = IF ok THEN "run" ELSE "failed"]
        /\ todo' = [Restrict(todo, kept) EXCEPT
                        ![p] = IF ok THEN Rest(p) ELSE <<>>]
        /\ items' = [Restrict(items, kept) EXCEPT
                        ![p] = IF ok THEN map ELSE @]
        /\ filePath' = Restrict(filePath, kept)
    BY Zenon DEF Join, kept
<1>5. /\ DOMAIN status' = kept /\ DOMAIN todo' = kept
      /\ DOMAIN items' = kept /\ DOMAIN filePath' = kept
    BY <1>4 DEF Restrict
<1>6. \A q \in kept :
        /\ filePath'[q] = filePath[q]
        /\ q = p => /\ todo'[q] = IF ok THEN Rest(p) ELSE <<>>
                    /\ status'[q] # "wait"
        /\ q # p => todo'[q] = todo[q] /\ status'[q] = status[q]
    BY <1>4 DEF Restrict
<1>7. ASSUME NEW q \in kept
      PROVE  /\ IsSeq(q) /\ IsSeq(todo'[q]) /\ OwnPaths(todo'[q], filePath'[q])
             /\ status'[q] = "wait" => todo'[q] # <<>>
                                       /\ Head(todo'[q]).kind = "join"
    <2>1. CASE q = p
        BY <1>1, <1>3, <1>6, <2>1, EmptyIsSeq, EmptyOwn DEF PathInv
    <2>2. CASE q # p
        BY <1>1, <1>6, <2>2 DEF PathInv, Top
    <2>. QED
        BY <2>1, <2>2
<1>. QED
    BY <1>5, <1>7 DEF PathInv, Live, Top

LEMMA Finished ==
    ASSUME PathInv, NEW p \in Live, Finish(p)
    PROVE  PathInv'
<1>1. /\ DOMAIN status' = Live
      /\ UNCHANGED <<todo, items, filePath>>
      /\ \A q \in Live : status'[q] = "wait" => status[q] = "wait"
    BY DEF Finish, Live
<1>. QED
    BY <1>1 DEF PathInv, Live, Top

-----------------------------------------------------------------------------
\* The items of an item are in its file.
LEMMA ItemOnTop ==
    ASSUME PathInv, NEW p \in Live, todo[p] # <<>>, Owned(Top(p))
    PROVE  /\ Belongs(Top(p))
           /\ Current(p).kind = "if" =>
                /\ InFile(Current(p).ifContent, filePath[p])
                /\ InFile(Current(p).elseContent, filePath[p])
           /\ Current(p).kind \in {"for", "foreach"} =>
                InFile(Current(p).content, filePath[p])
           /\ Current(p).kind = "parallel" =>
                InFile(Current(p).parts, filePath[p])
<1>1. Belongs(Top(p)) /\ Home[Top(p).item] = filePath[p]
    BY OnTop
<1>. QED
    BY <1>1, ScriptAssumption DEF Current, Belongs

\* A list of items of the plan's file takes the place of the top frame.
LEMMA Unfolded ==
    ASSUME PathInv, NEW p \in Live, status[p] = "run", todo[p] # <<>>,
           Top(p).kind # "return", NEW seq, InFile(seq, filePath[p]), NEW map,
           Continue(p, Sequence(seq, Rest(p)), map, filePath[p])
    PROVE  PathInv'
<1>1. IsSeq(Rest(p)) /\ OwnPaths(Rest(p), filePath[p])
    BY OnTop
<1>2. /\ IsSeq(Sequence(seq, Rest(p)))
      /\ OwnPaths(Sequence(seq, Rest(p)), filePath[p])
    BY <1>1, PushedItems
<1>. QED
    BY <1>2, Continued

\* One iteration of a sequential loop, with the loop's frame below it.
LEMMA Iterated ==
    ASSUME PathInv, NEW p \in Live, NextIteration(p)
    PROVE  PathInv'
<1> DEFINE f == Loop(Top(p).item, Tail(Top(p).left), Top(p).backup)
           map == Insert(items[p], Current(p).tempVarName, Head(Top(p).left))
           stack == <<f>> \o Rest(p)
<1>1. /\ status[p] = "run" /\ todo[p] # <<>> /\ Top(p).kind = "loop"
      /\ Continue(p, Sequence(Current(p).content, stack), map, filePath[p])
    BY DEF NextIteration, AtFrame
<1>2. f.kind = "loop" /\ f.item = Top(p).item
    BY DEF Loop
<1>3. Belongs(Top(p)) /\ Home[Top(p).item] = filePath[p]
    BY <1>1, OnTop DEF Owned
<1>3a. Belongs(f) /\ Current(p).kind \in {"for", "foreach"}
    BY <1>1, <1>2, <1>3 DEF Belongs, Current
<1>4. IsSeq(Rest(p)) /\ OwnPaths(Rest(p), filePath[p])
    BY <1>1, OnTop
<1>5. IsSeq(stack) /\ OwnPaths(stack, filePath[p])
    <2>. HIDE DEF f
    <2>. QED
        BY <1>2, <1>3, <1>3a, <1>4, PushedOne
<1>6. InFile(Current(p).content, filePath[p])
    BY <1>1, <1>3a, ItemOnTop DEF Owned
<1>. HIDE DEF stack, map
<1>7. /\ IsSeq(Sequence(Current(p).content, stack))
      /\ OwnPaths(Sequence(Current(p).content, stack), filePath[p])
    BY <1>5, <1>6, PushedItems
<1>. QED
    BY <1>1, <1>7, Continued

\* Every step a plan makes for the frame on top.
LEMMA ProcessedItem ==
    ASSUME PathInv, NEW p \in Live, ProcessSakuraItem(p)
    PROVE  PathInv'
<1>1. ASSUME Fail(p) PROVE PathInv'
    BY <1>1, Failed
<1>2. CASE ProcessSubtree(p)
    <2> DEFINE path == GetRelativePath(filePath[p], Current(p).name)
    <2>1. /\ status[p] = "run" /\ todo[p] # <<>> /\ Top(p).kind # "return"
          /\ \/ path \in DOMAIN Tree
                /\ RunSubtreeCall(p, path, Current(p).values)
             \/ Fail(p)
        BY <1>2 DEF ProcessSubtree, At
    <2>. HIDE DEF path
    <2>. QED
        BY <2>1, <1>1, Called
<1>3. CASE ReturnFromSubtree(p)
    <2>1. status[p] = "run" /\ todo[p] # <<>> /\ Top(p).kind = "return"
        BY <1>3 DEF ReturnFromSubtree, AtFrame
    <2>2. CASE \E map : Continue(p, Rest(p), map, Top(p).path)
        BY <2>1, <2>2, Dropped
    <2>3. (\E map : Continue(p, Rest(p), map, Top(p).path)) \/ Fail(p)
        BY <1>3, Zenon DEF ReturnFromSubtree
    <2>. QED
        BY <2>2, <2>3, <1>1
<1>4. CASE ProcessBlossomGroup(p)
    <2> DEFINE f == Blossoms(Current(p).values, Current(p).blossoms)
    <2>1. /\ status[p] = "run" /\ todo[p] # <<>> /\ Top(p).kind # "return"
          /\ \/ Continue(p, <<f>> \o Rest(p), items[p], filePath[p])
             \/ Fail(p)
        BY <1>4, Zenon DEF ProcessBlossomGroup, At
    <2>2. f.kind # "return" /\ ~Owned(f)
        BY DEF Blossoms, Owned
    <2>. HIDE DEF f
    <2>. QED
        BY <2>1, <2>2, <1>1, Replaced
<1>5. CASE EndBlossomGroup(p)
    BY <1>5, Dropped DEF EndBlossomGroup, AtFrame
<1>6. CASE ProcessBlossom(p)
    <2> DEFINE f == Blossoms(Top(p).values, Tail(Top(p).blossoms))
    <2>1. status[p] = "run" /\ todo[p] # <<>> /\ Top(p).kind # "return"
        BY <1>6 DEF ProcessBlossom, AtFrame
    <2>2. f.kind # "return" /\ ~Owned(f)
        BY DEF Blossoms, Owned
    <2>3. \/ \E map : Continue(p, <<f>> \o Rest(p), map, filePath[p])
          \/ Fail(p)
        BY <1>6, Zenon DEF ProcessBlossom
    <2>. HIDE DEF f
    <2>. QED
        BY <2>1, <2>2, <2>3, <1>1, Replaced
<1>7. CASE ProcessResource(p)
    <2> DEFINE type == Head(Top(p).blossoms).type
    <2>1. /\ status[p] = "run" /\ todo[p] # <<>> /\ Top(p).kind # "return"
          /\ type \in DOMAIN Resource
          /\ RunSubtreeCall(p, Resource[type], Top(p).values)
        BY <1>7 DEF ProcessResource, AtFrame
    <2>. HIDE DEF type
    <2>2. Resource[type] \in DOMAIN Tree
        BY <2>1, ScriptAssumption
    <2>. QED
        BY <2>1, <2>2, Called
<1>8. CASE ProcessIf(p)
    <2>1. /\ status[p] = "run" /\ todo[p] # <<>> /\ Top(p).kind = "item"
          /\ Current(p).kind = "if"
        BY <1>8 DEF ProcessIf, At, Current
    <2>2. /\ InFile(Current(p).ifContent, filePath[p])
          /\ InFile(Current(p).elseContent, filePath[p])
        BY <2>1, ItemOnTop DEF Owned
    <2>3. \/ Continue(p, Sequence(Current(p).ifContent, Rest(p)), items[p],
                      filePath[p])
          \/ Continue(p, Sequence(Current(p).elseContent, Rest(p)), items[p],
                      filePath[p])
          \/ Fail(p)
        BY <1>8, Zenon DEF ProcessIf
    <2>. QED
        BY <2>1, <2>2, <2>3, <1>1, Unfolded
<1>9. CASE RunLoop(p)
    <2> DEFINE f == Loop(Top(p).item, Iterations(Current(p), items[p]),
                         items[p])
    <2>1. /\ status[p] = "run" /\ todo[p] # <<>> /\ Top(p).kind = "item"
          /\ Current(p).kind \in {"for", "foreach"}
        BY <1>9 DEF RunLoop, At, Current
    <2>2. Belongs(Top(p)) /\ Home[Top(p).item] = filePath[p]
        BY <2>1, OnTop DEF Owned
    <2>3. f.kind = "loop" /\ f.item = Top(p).item
        BY DEF Loop
    <2>4. \/ \E map : Continue(p, <<f>> \o Rest(p), map, filePath[p])
          \/ Fail(p)
        BY <1>9, Zenon DEF RunLoop
    <2>. HIDE DEF f
    <2>5. Belongs(f) /\ Home[f.item] = filePath[p]
        BY <2>1, <2>2, <2>3 DEF Belongs, Current
    <2>. QED
        BY <2>1, <2>3, <2>4, <2>5, <1>1, Replaced
<1>10. CASE NextIteration(p)
    BY <1>10, Iterated
<1>11. CASE EndLoop(p)
    BY <1>11, Dropped DEF EndLoop, AtFrame
<1>12. CASE ProcessParallelPart(p)
    <2> DEFINE parts == Current(p).parts
               stacks == [i \in DOMAIN parts |-> ItemFrames(<<parts[i]>>)]
               frame == [kind |-> "join", loop |-> FALSE, values |-> <<>>,
                         shouldCount |-> Len(parts) % CounterRange]
    <2>1. /\ status[p] = "run" /\ todo[p] # <<>> /\ Top(p).kind = "item"
          /\ Current(p).kind = "parallel"
        BY <1>12 DEF ProcessParallelPart, At, Current
    <2>2. InFile(parts, filePath[p])
        BY <2>1, ItemOnTop DEF Owned
    <2>. HIDE DEF parts
    <2>3. ASSUME NEW i \in DOMAIN parts
          PROVE  InFile(<<parts[i]>>, filePath[p])
        <3>1. parts \in Seq(Item) /\ DOMAIN parts = 1 .. Len(parts)
            BY <2>2, LenProperties DEF InFile
        <3>2. parts[i] \in Item /\ parts[i] \in ToSet(parts)
            BY <2>3, <3>1, ElementOfSeq DEF ToSet
        <3>3. Home[parts[i]] = filePath[p]
            BY <3>2, <2>2 DEF InFile
        <3>4. ToSet(<<parts[i]>>) = {parts[i]}
            BY DEF ToSet
        <3>. QED
            BY <3>2, <3>3, <3>4 DEF InFile
    <2>4. \A i \in DOMAIN stacks :
            IsSeq(stacks[i]) /\ OwnPaths(stacks[i], filePath[p])
        BY <2>3, ItemFramesOwn
    <2>5. \E maps : Spawn(p, stacks, maps, frame)
        BY <1>12, Zenon DEF ProcessParallelPart, parts
    <2>. HIDE DEF stacks
    <2>. QED
        BY <2>1, <2>4, <2>5, Spawned
<1>13. CASE ProcessParallelLoop(p)
    <2> DEFINE n == DOMAIN Iterations(Current(p), items[p])
               stacks == [i \in n |-> ItemFrames(Current(p).content)]
               frame == [kind |-> "join", loop |-> TRUE,
                         values |-> Current(p).values,
                         shouldCount |-> LoopSize(Current(p), items[p])]
    <2>1. /\ status[p] = "run" /\ todo[p] # <<>> /\ Top(p).kind = "item"
          /\ Current(p).kind \in {"for", "foreach"}
        BY <1>13 DEF ProcessParallelLoop, At, Current
    <2>2. InFile(Current(p).content, filePath[p])
        BY <2>1, ItemOnTop DEF Owned
    <2>3. /\ IsSeq(ItemFrames(Current(p).content))
          /\ OwnPaths(ItemFrames(Current(p).content), filePath[p])
        BY <2>2, ItemFramesOwn
    <2>4. (\E maps : Spawn(p, stacks, maps, frame)) \/ Fail(p)
        BY <1>13, Zenon DEF ProcessParallelLoop
    <2>5. \A i \in DOMAIN stacks :
            IsSeq(stacks[i]) /\ OwnPaths(stacks[i], filePath[p])
        BY <2>3
    <2>. HIDE DEF stacks
    <2>. QED
        BY <2>1, <2>4, <2>5, <1>1, Spawned
<1>. QED
    BY <1>2, <1>3, <1>4, <1>5, <1>6, <1>7, <1>8, <1>9, <1>10, <1>11, <1>12,
       <1>13 DEF ProcessSakuraItem

LEMMA Triggered ==
    ASSUME PathInv, TriggerTree
    PROVE  PathInv'
<1>1. CASE UNCHANGED planVars
    BY <1>1 DEF PathInv, planVars, Live, Top
<1>2. CASE /\ Accepts(call)
           /\ status' = [p \in {Root} |-> "run"]
           /\ todo' = [p \in {Root} |-> ItemFrames(Tree[call.id].childs)]
           /\ items' = [p \in {Root} |-> InitialItems(call)]
           /\ filePath' = [p \in {Root} |-> call.id]
    <2>1. InFile(Tree[call.id].childs, call.id)
        BY <1>2, ScriptAssumption DEF Accepts
    <2>2. /\ IsSeq(ItemFrames(Tree[call.id].childs))
          /\ OwnPaths(ItemFrames(Tree[call.id].childs), call.id)
        BY <2>1, ItemFramesOwn
    <2>3. IsSeq(Root)
        BY EmptyIsSeq DEF Root
    <2>4. /\ DOMAIN status' = {Root} /\ DOMAIN todo' = {Root}
          /\ DOMAIN items' = {Root} /\ DOMAIN filePath' = {Root}
          /\ status'[Root] = "run" /\ filePath'[Root] = call.id
          /\ todo'[Root] = ItemFrames(Tree[call.id].childs)
        BY <1>2
    <2>. QED
        BY <2>2, <2>3, <2>4 DEF PathInv, Live, Top
<1>. QED
    BY <1>1, <1>2, Zenon DEF TriggerTree

LEMMA PathInvInit == Init => PathInv
BY EmptySeq DEF Init, PathInv, Live

LEMMA PathInvNext == PathInv /\ [Next]_vars => PathInv'
<1>. SUFFICES ASSUME PathInv, [Next]_vars PROVE PathInv'
    OBVIOUS
<1>1. CASE UNCHANGED planVars
    BY <1>1 DEF PathInv, planVars, Live, Top
<1>2. CASE TriggerTree
    BY <1>2, Triggered
<1>3. CASE ReturnTrigger \/ \E p \in queue : Start(p)
    BY <1>1, <1>3 DEF ReturnTrigger, Start
<1>4. CASE \E p \in Live : ProcessSakuraItem(p)
    BY <1>4, ProcessedItem
<1>5. CASE \E p \in Live : Join(p)
    BY <1>5, Joined
<1>6. CASE \E p \in Live : Finish(p)
    BY <1>6, Finished
<1>7. CASE Idle \/ UNCHANGED vars
    BY <1>1, <1>7 DEF Idle, vars
<1>. QED
    BY <1>2, <1>3, <1>4, <1>5, <1>6, <1>7 DEF Next

\* Every item is processed with the path of the file it is written in,
\* whatever trees were called before it, in every script and every
\* interleaving of its branches.  (runSubtreeCall, processTree: filePath.)
THEOREM PathsAreOwn == Spec => []RelativeToOwnFile
<1>1. PathInv => RelativeToOwnFile
    BY OnTop DEF RelativeToOwnFile, Owned
<1>. QED
    BY PathInvInit, PathInvNext, <1>1, PTL DEF Spec
-----------------------------------------------------------------------------
\* The order of plans: who waits for whom, and for how many.

\* What a step does to the plans, whatever its item is.
LEMMA StepsAre ==
    ASSUME NEW p, ProcessSakuraItem(p)
    PROVE  /\ p \in Live \ queue /\ status[p] = "run" /\ todo[p] # <<>>
           /\ \/ \E stack, map, path : Continue(p, stack, map, path)
              \/ Fail(p)
              \/ \E stacks, maps, frame : Spawn(p, stacks, maps, frame)
<1> DEFINE Goes == \E stack, map, path : Continue(p, stack, map, path)
           Spawns == \E stacks, maps, frame : Spawn(p, stacks, maps, frame)
           On == (\E kind : At(p, kind)) \/ (\E kind : AtFrame(p, kind))
<1>1. \A path, values : RunSubtreeCall(p, path, values) => Goes \/ Fail(p)
    BY Zenon DEF RunSubtreeCall
<1>2. ASSUME ProcessSubtree(p) PROVE On /\ (Goes \/ Fail(p))
    BY <1>1, <1>2, Zenon DEF ProcessSubtree
<1>3. ASSUME ProcessResource(p) PROVE On /\ (Goes \/ Fail(p))
    BY <1>1, <1>3, Zenon DEF ProcessResource
<1>4. ASSUME ReturnFromSubtree(p) PROVE On /\ (Goes \/ Fail(p))
    BY <1>4, Zenon DEF ReturnFromSubtree
<1>5. ASSUME ProcessBlossom(p) PROVE On /\ (Goes \/ Fail(p))
    BY <1>5, Zenon DEF ProcessBlossom
<1>6. ASSUME ProcessIf(p) PROVE On /\ (Goes \/ Fail(p))
    BY <1>6, Zenon DEF ProcessIf
<1>7. ASSUME RunLoop(p) PROVE On /\ (Goes \/ Fail(p))
    BY <1>7, Zenon DEF RunLoop
<1>8. ASSUME ProcessParallelLoop(p) PROVE On /\ (Spawns \/ Fail(p))
    BY <1>8, Zenon DEF ProcessParallelLoop
<1>9. ASSUME ProcessParallelPart(p) PROVE On /\ Spawns
    BY <1>9, Zenon DEF ProcessParallelPart
<1>10. ASSUME EndBlossomGroup(p) \/ NextIteration(p) \/ EndLoop(p)
       PROVE  On /\ Goes
    BY <1>10, Zenon DEF EndBlossomGroup, NextIteration, EndLoop
<1>10a. ASSUME ProcessBlossomGroup(p) PROVE On /\ (Goes \/ Fail(p))
    BY <1>10a, Zenon DEF ProcessBlossomGroup
<1>11. On => p \in Live \ queue /\ status[p] = "run" /\ todo[p] # <<>>
    BY Zenon DEF At, AtFrame
<1>. HIDE DEF On, Goes, Spawns
<1>12. On /\ (Goes \/ Fail(p) \/ Spawns)
    BY <1>2, <1>3, <1>4, <1>5, <1>6, <1>7, <1>8, <1>9, <1>10,
       <1>10a, Zenon
       DEF ProcessSakuraItem
<1>. QED
    BY <1>11, <1>12 DEF Goes, Spawns

LEMMA SeqsEqual ==
    ASSUME NEW s, NEW t, IsSeq(s), IsSeq(t), Len(s) = Len(t),
           \A i \in 1 .. Len(s) : s[i] = t[i]
    PROVE  s = t
<1> DEFINE S == ToSet(s) \cup ToSet(t)
<1>1. s \in Seq(S) /\ t \in Seq(S)
    <2>1. ToSet(s) \subseteq S /\ ToSet(t) \subseteq S
        OBVIOUS
    <2>. QED
        BY <2>1, SeqMonotonic DEF IsSeq
<1>. HIDE DEF S
<1>. QED
    BY <1>1, SeqEqual

\* A child is named by its number behind the name of its parent.
LEMMA FrontIs ==
    ASSUME NEW p, IsSeq(p), NEW i
    PROVE  Front(Append(p, i)) = p /\ Append(p, i) # Root
<1> DEFINE S == ToSet(p) \cup {i}
           q == Append(p, i)
<1>1. p \in Seq(S) /\ i \in S /\ Len(p) \in Nat
    BY SeqMonotonic, IsSeqProperties DEF IsSeq
<1>. HIDE DEF S
<1>2. /\ q \in Seq(S) /\ Len(q) = Len(p) + 1
      /\ \A j \in 1 .. Len(p) : q[j] = p[j]
    BY <1>1
<1>3. /\ Front(q) \in Seq(S) /\ Len(Front(q)) = Len(p)
      /\ \A j \in 1 .. Len(p) : Front(q)[j] = q[j]
    <2>. HIDE DEF q
    <2>1. /\ SubSeq(q, 1, Len(p)) \in Seq(S)
          /\ Len(SubSeq(q, 1, Len(p))) = Len(p)
          /\ \A j \in 1 .. Len(p) : SubSeq(q, 1, Len(p))[j] = q[j]
        BY <1>1, <1>2
    <2>. QED
        BY <2>1, <1>1, <1>2 DEF Front
<1>4. Front(q) = p
    <2>. HIDE DEF q
    <2>. QED
        BY <1>1, <1>2, <1>3, SeqEqual
<1>5. q # <<>>
    BY <1>1, <1>2, EmptyIsSeq
<1>. QED
    BY <1>4, <1>5 DEF Root

\* A name of a child is longer by one.
LEMMA LenAppended ==
    ASSUME NEW p, IsSeq(p), NEW i
    PROVE  Len(Append(p, i)) = Len(p) + 1
<1> DEFINE S == ToSet(p) \cup {i}
<1>1. p \in Seq(S) /\ i \in S
    BY SeqMonotonic DEF IsSeq
<1>. HIDE DEF S
<1>. QED
    BY <1>1

\* The name of the plan n levels below the root on the way to c.
Way(c, n) == SubSeq(c, 1, n)

LEMMA WayIs ==
    ASSUME NEW c, IsSeq(c), NEW n \in 0 .. Len(c)
    PROVE  /\ IsSeq(Way(c, n)) /\ Len(Way(c, n)) = n
           /\ \A i \in 1 .. n : Way(c, n)[i] = c[i]
<1> DEFINE S == ToSet(c)
<1>1. c \in Seq(S) /\ Len(c) \in Nat
    BY IsSeqProperties DEF IsSeq
<1>. HIDE DEF S
<1>2. /\ SubSeq(c, 1, n) \in Seq(S) /\ Len(SubSeq(c, 1, n)) = n
      /\ \A i \in 1 .. n : SubSeq(c, 1, n)[i] = c[i]
    BY <1>1
<1>. QED
    BY <1>2, SeqIsSeq DEF Way

LEMMA WayOfWay ==
    ASSUME NEW c, IsSeq(c), NEW m \in 0 .. Len(c), NEW n \in 0 .. m
    PROVE  Way(Way(c, m), n) = Way(c, n)
<1>1. Len(c) \in Nat
    BY IsSeqProperties
<1>2. /\ IsSeq(Way(c, m)) /\ Len(Way(c, m)) = m
      /\ \A i \in 1 .. m : Way(c, m)[i] = c[i]
    BY WayIs
<1>3. /\ IsSeq(Way(Way(c, m), n)) /\ Len(Way(Way(c, m), n)) = n
      /\ \A i \in 1 .. n : Way(Way(c, m), n)[i] = Way(c, m)[i]
    BY <1>2, WayIs
<1>4. /\ IsSeq(Way(c, n)) /\ Len(Way(c, n)) = n
      /\ \A i \in 1 .. n : Way(c, n)[i] = c[i]
    <2>1. n \in 0 .. Len(c)
        BY <1>1
    <2>. QED
        BY <2>1, WayIs
<1>. QED
    BY <1>2, <1>3, <1>4, SeqsEqual

LEMMA WholeWay ==
    ASSUME NEW c, IsSeq(c)
    PROVE  Way(c, Len(c)) = c
<1>1. Len(c) \in 0 .. Len(c)
    BY IsSeqProperties
<1>. QED
    BY <1>1, WayIs, SeqsEqual

\* The way to a child is that to its parent, and one step more.
LEMMA WayToChild ==
    ASSUME NEW p, IsSeq(p), NEW i, NEW n \in 0 .. Len(p)
    PROVE  Way(Append(p, i), n) = Way(p, n)
<1> DEFINE q == Append(p, i)
<1>1. IsSeq(q) /\ Len(q) = Len(p) + 1 /\ Len(p) \in Nat
    BY AppendIsSeq, LenAppended, IsSeqProperties
<1>2. Way(q, Len(p)) = p
    <2>1. Front(q) = p
        BY FrontIs
    <2>. QED
        BY <2>1, <1>1 DEF Front, Way
<1>3. Len(p) \in 0 .. Len(q)
    BY <1>1
<1>. HIDE DEF q
<1>4. Way(Way(q, Len(p)), n) = Way(q, n)
    BY <1>1, <1>3, WayOfWay
<1>. QED
    BY <1>2, <1>4 DEF q

\* Who has a plan below it waits for it, and lives.
NestedInv ==
    \A c \in Live, n \in Nat : n < Len(c) =>
        Way(c, n) \in Live /\ status[Way(c, n)] = "wait"

\* Plans in the queue have only begun.
QueueInv ==
    /\ DOMAIN earlier = Live
    /\ queue \subseteq Live
    /\ \A q \in queue : status[q] = "run"

\* The counter of a waiting plan comes to the number it waits for.
CountInv ==
    \A p \in Live : status[p] = "wait" =>
        CanCount(p, Top(p).shouldCount, Childs(p))

OrderInv == NestedInv /\ QueueInv /\ (orderly => CountInv)

LEMMA ParentWaits ==
    ASSUME PathInv, NestedInv, NEW c \in Live, c # Root
    PROVE  /\ Front(c) \in Live /\ status[Front(c)] = "wait"
           /\ Front(c) = Way(c, Len(c) - 1) /\ Len(c) - 1 \in Nat
           /\ Len(c) \in Nat
<1>1. IsSeq(c) /\ c # <<>>
    BY DEF PathInv, Root
<1>2. Len(c) \in Nat \ {0}
    BY <1>1, TailIsSeq
<1>3. Front(c) = Way(c, Len(c) - 1)
    BY DEF Front, Way
<1>4. Len(c) - 1 \in Nat /\ Len(c) - 1 < Len(c)
    BY <1>2
<1>. QED
    BY <1>2, <1>3, <1>4 DEF NestedInv

LEMMA RunsAlone ==
    ASSUME PathInv, NestedInv, NEW p \in Live, status[p] # "wait"
    PROVE  Childs(p) = {}
<1>1. ASSUME NEW c \in Childs(p) PROVE FALSE
    <2>1. c \in Live /\ c # Root /\ Front(c) = p
        BY DEF Childs, Root
    <2>. QED
        BY <2>1, ParentWaits
<1>. QED
    BY <1>1

\* No plan comes or goes, or begins or ends to wait.
LEMMA OrderStays ==
    ASSUME OrderInv, DOMAIN status' = Live,
           \A q \in Live : status'[q] = "wait" <=> status[q] = "wait",
           \A q \in Live : status[q] = "wait" =>
                todo'[q] = todo[q] /\ earlier'[q] = earlier[q],
           queue' \subseteq queue, \A q \in queue' : status'[q] = status[q],
           DOMAIN earlier' = Live,
           orderly' = orderly
    PROVE  OrderInv'
<1>1. NestedInv'
    BY DEF OrderInv, NestedInv, Live
<1>2. QueueInv'
    BY DEF OrderInv, QueueInv, Live
<1>3. ASSUME CountInv PROVE CountInv'
    <2>. SUFFICES ASSUME NEW q \in Live, status'[q] = "wait"
                  PROVE  CanCount(q, Top(q).shouldCount, Childs(q))'
        BY DEF CountInv, Live
    <2>3. status[q] = "wait"
        OBVIOUS
    <2>4. CanCount(q, Top(q).shouldCount, Childs(q))
        BY <1>3, <2>3 DEF CountInv
    <2>5. Childs(q)' = Childs(q)
        BY DEF Childs, Live
    <2>6. Top(q)' = Top(q) /\ earlier'[q] = earlier[q]
        BY <2>3 DEF Top
    <2>. QED
        BY <2>4, <2>5, <2>6 DEF CanCount
<1>. QED
    BY <1>1, <1>2, <1>3 DEF OrderInv

\* A spawn: p waits for its new children, which have none.
LEMMA OrderSpawned ==
    ASSUME PathInv, OrderInv, NEW p \in Live \ queue, status[p] = "run",
           todo[p] # <<>>, NEW stacks, NEW maps, NEW frame,
           Spawn(p, stacks, maps, frame)
    PROVE  OrderInv'
<1> DEFINE new == {Append(p, i) : i \in DOMAIN stacks}
           stack == <<frame>> \o Rest(p)
<1>1. IsSeq(p) /\ Len(p) \in Nat
    BY IsSeqProperties DEF PathInv
<1>2. \A q \in new : /\ Front(q) = p /\ q # Root /\ Len(q) = Len(p) + 1
                     /\ \A n \in 0 .. Len(p) : Way(q, n) = Way(p, n)
    BY <1>1, FrontIs, LenAppended, WayToChild
<1>3. Childs(p) = {}
    BY RunsAlone DEF OrderInv
<1>4. new \cap Live = {}
    BY <1>2, <1>3 DEF Childs, Root
<1>5. Head(stack) = frame
    <2>1. IsSeq(Rest(p))
        BY TailIsSeq DEF PathInv, Rest
    <2>. QED
        BY <2>1, SingletonIsSeq, ConcatIsSeq, TailIsSeq, IsSeqProperties,
           EmptyIsSeq
<1>. HIDE DEF new, stack
<1>6. /\ status' = With([q \in new |-> "run"], [status EXCEPT ![p] = "wait"])
      /\ todo' = With([q \in new |-> stacks[Last(q)]],
                      [todo EXCEPT ![p] = stack])
      /\ queue' = queue \cup new
      /\ earlier' = With([q \in new |-> 0], earlier)
      /\ orderly' = (orderly /\ CanCount(p, frame.shouldCount, new))
    BY DEF Spawn, new, stack
<1>7. /\ DOMAIN status' = new \cup Live
      /\ \A q \in new : status'[q] = "run"
      /\ \A q \in Live \ {p} : /\ status'[q] = status[q]
                               /\ todo'[q] = todo[q]
      /\ status'[p] = "wait" /\ todo'[p] = stack
    BY <1>4, <1>6 DEF PathInv, Live, With
<1>8. NestedInv'
    <2>. SUFFICES ASSUME NEW c \in new \cup Live, NEW n \in Nat, n < Len(c)
                  PROVE  /\ Way(c, n) \in new \cup Live
                         /\ status'[Way(c, n)] = "wait"
        BY <1>7 DEF NestedInv, Live
    <2>1. CASE c \in new
        <3>1. n \in 0 .. Len(p) /\ Way(c, n) = Way(p, n)
            BY <2>1, <1>1, <1>2
        <3>2. CASE n = Len(p)
            BY <3>1, <3>2, <1>1, <1>7, WholeWay
        <3>3. CASE n # Len(p)
            <4>1. Way(p, n) \in Live /\ status[Way(p, n)] = "wait"
                BY <3>1, <3>3, <1>1 DEF OrderInv, NestedInv
            <4>. QED
                BY <4>1, <3>1, <1>7
        <3>. QED
            BY <3>2, <3>3
    <2>2. CASE c \in Live
        <3>1. Way(c, n) \in Live /\ status[Way(c, n)] = "wait"
            BY <2>2 DEF OrderInv, NestedInv
        <3>. QED
            BY <3>1, <1>7
    <2>. QED
        BY <2>1, <2>2
<1>9. QueueInv'
    <2>1. DOMAIN earlier' = new \cup Live
        BY <1>6 DEF OrderInv, QueueInv, With
    <2>. QED
        BY <2>1, <1>4, <1>6, <1>7 DEF OrderInv, QueueInv, Live
<1>10. ASSUME orderly' PROVE CountInv'
    <2>1. CountInv /\ CanCount(p, frame.shouldCount, new)
        BY <1>6, <1>10 DEF OrderInv
    <2>. SUFFICES ASSUME NEW q \in new \cup Live, status'[q] = "wait"
                  PROVE  CanCount(q, Top(q).shouldCount, Childs(q))'
        BY <1>7 DEF CountInv, Live
    <2>2. q \in Live /\ q \notin new
        BY <1>4, <1>7
    <2>3. Childs(q)' = {c \in new \cup Live : c # <<>> /\ Front(c) = q}
        BY <1>7 DEF Childs, Live
    <2>4. \A c \in new : c # <<>> /\ Front(c) = p
        BY <1>2 DEF Root
    <2>5. earlier'[q] = earlier[q]
        BY <2>2, <1>6 DEF OrderInv, QueueInv, With
    <2>6. CASE q = p
        <3>1. Childs(q)' = new
            BY <2>3, <2>4, <2>6, <1>3 DEF Childs
        <3>2. Top(q)' = frame
            BY <2>6, <1>5, <1>7 DEF Top
        <3>. QED
            BY <3>1, <3>2, <2>1, <2>5, <2>6 DEF CanCount
    <2>7. CASE q # p
        <3>1. Childs(q)' = Childs(q)
            BY <2>3, <2>4, <2>7 DEF Childs
        <3>2. Top(q)' = Top(q) /\ status[q] = "wait"
            BY <2>2, <2>7, <1>7 DEF Top
        <3>3. CanCount(q, Top(q).shouldCount, Childs(q))
            BY <3>2, <2>1, <2>2 DEF CountInv
        <3>. QED
            BY <3>1, <3>2, <3>3, <2>5 DEF CanCount
    <2>. QED
        BY <2>6, <2>7
<1>. QED
    BY <1>8, <1>9, <1>10 DEF OrderInv

\* A plan that is not below p, and what is below it, outlives the join of p.
LEMMA OthersStay ==
    ASSUME PathInv, NEW p \in Live, NEW c \in Live \ Below(p), NEW n \in Nat,
           n < Len(c), Way(c, n) \in Live
    PROVE  Way(c, n) \in Live \ Below(p) /\ Way(c, n) # p
<1>1. IsSeq(c) /\ Len(c) \in Nat /\ Len(p) \in Nat
    BY IsSeqProperties DEF PathInv
<1>2. n \in 0 .. Len(c) /\ Len(Way(c, n)) = n
    BY <1>1, WayIs
<1>3. ASSUME Way(c, n) = p PROVE FALSE
    BY <1>1, <1>2, <1>3 DEF Below, Way
<1>4. ASSUME Way(c, n) \in Below(p) PROVE FALSE
    <2>1. Len(p) < n /\ Way(Way(c, n), Len(p)) = p
        BY <1>2, <1>4 DEF Below, Way
    <2>2. Way(c, Len(p)) = p
        BY <2>1, <1>1, <1>2, WayOfWay
    <2>. QED
        BY <2>1, <2>2, <1>1 DEF Below, Way
<1>. QED
    BY <1>3, <1>4

LEMMA OrderJoined ==
    ASSUME PathInv, OrderInv, NEW p \in Live, Join(p)
    PROVE  OrderInv'
<1> DEFINE kept == Live \ Below(p)
           ended == {c \in Childs(p) : Ended(c)}
<1>1. /\ status[p] = "wait"
      /\ \E s \in {"run", "failed"} :
            status' = [Restrict(status, kept) EXCEPT ![p] = s]
      /\ \E stack : todo' = [Restrict(todo, kept) EXCEPT ![p] = stack]
      /\ queue' = queue \cap kept
      /\ earlier' = [Restrict(earlier, kept) EXCEPT
                            ![p] = @ + Cardinality(ended)]
      /\ orderly' = orderly
    BY Zenon DEF Join
<1>1a. PICK s \in {"run", "failed"} :
            status' = [Restrict(status, kept) EXCEPT ![p] = s]
    BY <1>1
<1>1b. PICK stack : todo' = [Restrict(todo, kept) EXCEPT ![p] = stack]
    BY <1>1
<1>2. p \in kept
    <2>1. Len(p) \in Nat
        BY IsSeqProperties DEF PathInv
    <2>. QED
        BY <2>1 DEF Below
<1>. HIDE DEF kept, ended
<1>3. /\ DOMAIN status' = kept /\ DOMAIN earlier' = kept
      /\ status'[p] = s
      /\ \A q \in kept \ {p} : /\ status'[q] = status[q]
                               /\ todo'[q] = todo[q]
                               /\ earlier'[q] = earlier[q]
    BY <1>1, <1>1a, <1>1b, <1>2 DEF Restrict
<1>4. kept \subseteq Live
    BY DEF kept
<1>5. NestedInv'
    <2>. SUFFICES ASSUME NEW c \in kept, NEW n \in Nat, n < Len(c)
                  PROVE  Way(c, n) \in kept /\ status'[Way(c, n)] = "wait"
        BY <1>3 DEF NestedInv, Live
    <2>1. Way(c, n) \in Live /\ status[Way(c, n)] = "wait"
        BY <1>4 DEF OrderInv, NestedInv
    <2>2. Way(c, n) \in kept /\ Way(c, n) # p
        BY <2>1, OthersStay DEF kept
    <2>. QED
        BY <2>1, <2>2, <1>3
<1>6. QueueInv'
    <2>1. p \notin queue
        BY <1>1 DEF OrderInv, QueueInv
    <2>. QED
        BY <2>1, <1>1, <1>3 DEF OrderInv, QueueInv, Live
<1>7. ASSUME CountInv PROVE CountInv'
    <2>. SUFFICES ASSUME NEW q \in kept, status'[q] = "wait"
                  PROVE  CanCount(q, Top(q).shouldCount, Childs(q))'
        BY <1>3 DEF CountInv, Live
    <2>1. q # p /\ status[q] = "wait" /\ q \in Live
        BY <1>1, <1>3, <1>4
    <2>2. CanCount(q, Top(q).shouldCount, Childs(q))
        BY <1>7, <2>1 DEF CountInv
    <2>3. ASSUME NEW c \in Childs(q) PROVE c \in kept
        <3>1. c \in Live /\ c # Root /\ Front(c) = q
            BY DEF Childs, Root
        <3>2. q = Way(c, Len(c) - 1) /\ Len(c) - 1 \in Nat /\ Len(c) \in Nat
            BY <3>1, ParentWaits DEF OrderInv
        <3>3. IsSeq(c) /\ IsSeq(q) /\ Len(p) \in Nat
            BY <3>1, IsSeqProperties, <2>1 DEF PathInv
        <3>4. ASSUME Len(p) < Len(c), Way(c, Len(p)) = p PROVE FALSE
            <4>1. Len(p) # Len(c) - 1
                BY <3>2, <3>4, <2>1
            <4>2. /\ Len(p) \in 0 .. Len(c) - 1 /\ Len(c) - 1 \in 0 .. Len(c)
                  /\ Len(p) < Len(c) - 1
                BY <4>1, <3>2, <3>3, <3>4
            <4>3. Way(q, Len(p)) = p /\ Len(q) = Len(c) - 1
                BY <4>2, <3>2, <3>3, <3>4, WayOfWay, WayIs
            <4>. QED
                BY <4>2, <4>3 DEF kept, Below, Way
        <3>. QED
            BY <3>1, <3>4 DEF kept, Below, Way
    <2>4. Childs(q)' = Childs(q)
        BY <2>3, <1>3, <1>4 DEF Childs, Live
    <2>5. Top(q)' = Top(q) /\ earlier'[q] = earlier[q]
        BY <2>1, <1>3 DEF Top
    <2>. QED
        BY <2>2, <2>4, <2>5 DEF CanCount
<1>. QED
    BY <1>1, <1>5, <1>6, <1>7 DEF OrderInv

\* As long as forks are orderly, a wait ends when all children have ended, and
\* nothing but they is deleted then.
LEMMA JoinWaits ==
    ASSUME PathInv, OrderInv, orderly, NEW p \in Live, Join(p)
    PROVE  (\A c \in Childs(p) : Ended(c)) /\ Below(p) = Childs(p)
<1> DEFINE ended == {c \in Childs(p) : Ended(c)}
           number == Top(p).shouldCount
<1>1. status[p] = "wait" /\ IsCounter(p) = number
    BY Zenon DEF Join
<1>2. /\ earlier[p] = 0 /\ IsFiniteSet(Childs(p))
      /\ number = Cardinality(Childs(p)) /\ number < CounterRange
    BY <1>1 DEF OrderInv, CountInv, CanCount
<1>3. /\ Cardinality(ended) \in Nat /\ Cardinality(ended) <= number
      /\ Cardinality(ended) = number => ended = Childs(p)
    <2>1. ended \subseteq Childs(p)
        OBVIOUS
    <2>. HIDE DEF ended
    <2>. QED
        BY <2>1, <1>2, FS_Subset, FS_CardinalityType
<1>4. Cardinality(ended) = number
    <2>1. (earlier[p] + Cardinality(ended)) % CounterRange = number
        BY <1>1 DEF IsCounter
    <2>2. number \in Nat
        BY <1>2, FS_CardinalityType
    <2>. HIDE DEF ended, number
    <2>. QED
        BY <2>1, <2>2, <1>2, <1>3, PoolAssumption
<1>5. \A c \in Childs(p) : Ended(c)
    BY <1>3, <1>4
<1>6. ASSUME NEW c \in Live, IsSeq(c), Len(c) \in Nat, Len(p) < Len(c),
             Way(c, Len(p)) = p
      PROVE  c # <<>> /\ Front(c) = p
    <2>1. Len(p) \in Nat /\ c # <<>>
        BY <1>6, IsSeqProperties, EmptyIsSeq DEF PathInv
    <2>2. CASE Len(c) = Len(p) + 1
        BY <2>1, <2>2, <1>6 DEF Front, Way
    <2>3. CASE Len(p) + 1 < Len(c)
        <3> DEFINE m == Len(p) + 1
                   d == Way(c, m)
        <3>1. m \in Nat /\ m \in 0 .. Len(c) /\ Len(p) \in 0 .. m
            BY <2>1, <2>3, <1>6
        <3>2. d \in Live /\ status[d] = "wait"
            BY <3>1, <2>3 DEF OrderInv, NestedInv
        <3>3. IsSeq(d) /\ Len(d) = m
            BY <3>1, <1>6, WayIs
        <3>4. Way(d, Len(p)) = p
            BY <3>1, <1>6, WayOfWay
        <3>. HIDE DEF d
        <3>5. d # <<>> /\ Front(d) = p
            BY <3>1, <3>3, <3>4, <2>1, EmptyIsSeq DEF Front, Way
        <3>. QED
            BY <3>2, <3>5, <1>5 DEF Childs, Ended
    <2>. QED
        BY <2>1, <2>2, <2>3, <1>6
<1>7. ASSUME NEW c \in Childs(p) PROVE c \in Below(p)
    <2>1. c \in Live /\ c # Root /\ Front(c) = p
        BY DEF Childs, Root
    <2>2. p = Way(c, Len(c) - 1) /\ Len(c) - 1 \in Nat /\ Len(c) \in Nat
        BY <2>1, ParentWaits DEF OrderInv
    <2>3. Len(p) = Len(c) - 1
        <3>1. IsSeq(c) /\ Len(c) - 1 \in 0 .. Len(c)
            BY <2>1, <2>2 DEF PathInv
        <3>. QED
            BY <2>2, <3>1, WayIs
    <2>. QED
        BY <2>1, <2>2, <2>3 DEF Below, Way
<1>8. ASSUME NEW c \in Below(p) PROVE c \in Childs(p)
    <2>1. c \in Live /\ Len(p) < Len(c) /\ Way(c, Len(p)) = p
        BY DEF Below, Way
    <2>. QED
        BY <2>1, <1>6, IsSeqProperties DEF Childs, PathInv
<1>. QED
    BY <1>5, <1>7, <1>8

LEMMA OrderInvInit == Init => OrderInv
BY DEF Init, OrderInv, NestedInv, QueueInv, CountInv, Live

LEMMA OrderInvNext == PathInv /\ OrderInv /\ [Next]_vars => OrderInv'
<1>. SUFFICES ASSUME PathInv, OrderInv, [Next]_vars PROVE OrderInv'
    OBVIOUS
<1>1. CASE UNCHANGED <<planVars, queue, forkVars>>
    BY <1>1, OrderStays DEF planVars, forkVars, Live, OrderInv, QueueInv
<1>2. CASE TriggerTree
    <2>1. CASE /\ Live = {}
               /\ status' = [p \in {Root} |-> "run"]
               /\ queue' = {Root}
               /\ earlier' = [p \in {Root} |-> 0]
        <3>1. DOMAIN status' = {Root} /\ status'[Root] = "run"
              /\ DOMAIN earlier' = {Root}
            BY <2>1
        <3>2. \A n \in Nat : ~(n < Len(Root))
            BY EmptyIsSeq DEF Root
        <3>. QED
            BY <2>1, <3>1, <3>2
            DEF OrderInv, NestedInv, QueueInv, CountInv, Live
    <2>. QED
        BY <1>1, <1>2, <2>1, Zenon DEF TriggerTree
<1>3. CASE ReturnTrigger
    BY <1>1, <1>3 DEF ReturnTrigger
<1>4. CASE \E p \in queue : Start(p)
    <2>1. queue' \subseteq queue /\ UNCHANGED <<planVars, forkVars>>
        BY <1>4 DEF Start
    <2>. QED
        BY <2>1, OrderStays
        DEF planVars, forkVars, Live, OrderInv, QueueInv
<1>5. CASE \E p \in Live : ProcessSakuraItem(p)
    <2>1. PICK p \in Live \ queue :
            /\ status[p] = "run" /\ todo[p] # <<>>
            /\ \/ \E stack, map, path : Continue(p, stack, map, path)
               \/ Fail(p)
               \/ \E stacks, maps, frame : Spawn(p, stacks, maps, frame)
        BY <1>5, StepsAre
    <2>2. CASE \E stack, map, path : Continue(p, stack, map, path)
        <3>1. PICK stack : /\ todo' = [todo EXCEPT ![p] = stack]
                           /\ UNCHANGED <<status, queue, forkVars>>
            BY <2>2, Zenon DEF Continue
        <3>2. \A q \in Live \ {p} : todo'[q] = todo[q]
            BY <3>1 DEF PathInv
        <3>. QED
            BY <3>1, <3>2, <2>1, OrderStays
            DEF forkVars, Live, OrderInv, QueueInv
    <2>3. CASE Fail(p)
        <3>1. /\ status' = [status EXCEPT ![p] = "failed"]
              /\ todo' = [todo EXCEPT ![p] = <<>>]
              /\ UNCHANGED <<queue, forkVars>>
            BY <2>3 DEF Fail
        <3>2. /\ DOMAIN status' = Live /\ status'[p] = "failed"
              /\ \A q \in Live \ {p} : /\ todo'[q] = todo[q]
                                       /\ status'[q] = status[q]
            BY <3>1 DEF PathInv, Live
        <3>. QED
            BY <3>1, <3>2, <2>1, OrderStays
            DEF forkVars, OrderInv, QueueInv
    <2>4. CASE \E stacks, maps, frame : Spawn(p, stacks, maps, frame)
        BY <2>1, <2>4, OrderSpawned
    <2>. QED
        BY <2>1, <2>2, <2>3, <2>4
<1>6. CASE \E p \in Live : Join(p)
    BY <1>6, OrderJoined
<1>7. CASE \E p \in Live : Finish(p)
    <2>1. PICK p \in Live \ queue :
            /\ status[p] = "run" /\ status' = [status EXCEPT ![p] = "ok"]
            /\ UNCHANGED <<todo, queue, forkVars>>
        BY <1>7 DEF Finish
    <2>2. /\ DOMAIN status' = Live /\ status'[p] = "ok"
          /\ \A q \in Live \ {p} : status'[q] = status[q]
        BY <2>1 DEF Live
    <2>. QED
        BY <2>1, <2>2, OrderStays DEF forkVars, OrderInv, QueueInv
<1>8. CASE Idle \/ UNCHANGED vars
    BY <1>1, <1>8 DEF Idle, vars
<1>. QED
    BY <1>2, <1>3, <1>4, <1>5, <1>6, <1>7, <1>8 DEF Next

\* Once a fork is not orderly, the history says so for ever.
LEMMA OrderlyBefore == [Next]_vars /\ orderly' => orderly
<1>. SUFFICES ASSUME [Next]_vars, orderly' PROVE orderly
    OBVIOUS
<1>1. CASE UNCHANGED orderly
    BY <1>1
<1>2. CASE \E p \in Live : ProcessSakuraItem(p)
    <2>1. \E p \in Live :
            \/ \E stack, map, path : Continue(p, stack, map, path)
            \/ Fail(p)
            \/ \E stacks, maps, frame : Spawn(p, stacks, maps, frame)
        BY <1>2, StepsAre
    <2>2. \A p, stacks, maps, frame : Spawn(p, stacks, maps, frame) => orderly
        BY DEF Spawn
    <2>. QED
        BY <2>1, <2>2 DEF Continue, Fail, forkVars
<1>3. CASE TriggerTree \/ ReturnTrigger \/ \E p \in queue : Start(p)
    BY <1>3 DEF TriggerTree, ReturnTrigger, Start, forkVars
<1>4. CASE (\E p \in Live : Join(p)) \/ \E p \in Live : Finish(p)
    <2>1. \A p : Join(p) => orderly' = orderly
        BY Zenon DEF Join
    <2>. QED
        BY <1>4, <2>1 DEF Finish, forkVars
<1>5. CASE Idle \/ UNCHANGED vars
    BY <1>5 DEF Idle, vars, forkVars
<1>. QED
    BY <1>2, <1>3, <1>4, <1>5 DEF Next
-----------------------------------------------------------------------------
\* Names: what a loop or a call adds to the items of a plan is gone when its
\* frame is popped.

\* A frame that brings back the items of before.
Resets(f) == f.kind \in {"loop", "return"}

\* The names that are due when the frame at i is on top, or E below all frames.
Due(s, E, i) == IF i = Len(s) + 1 THEN E ELSE DOMAIN s[i].values

\* A stack on which the names D are worked on now and E remain in the end: on
\* the way down, the names are those of the last frame that has reset them.
Keeps(s, D, E) ==
    \A i \in 1 .. Len(s) + 1 : (i <= Len(s) => s[i].kind = "return") =>
        /\ (\A k \in 1 .. i - 1 : ~Resets(s[k])) => D = Due(s, E, i)
        /\ \A j \in 1 .. i - 1 :
            (Resets(s[j]) /\ \A k \in j + 1 .. i - 1 : ~Resets(s[k]))
                => DOMAIN s[j].backup = Due(s, E, i)

\* The plan of the triggered tree ends with the names it was given, and a
\* branch with those of the plan that waits for it.
EndsWith(p, E) ==
    /\ p = Root => E = DOMAIN InitialItems(call)
    /\ (p # Root /\ ~Top(Front(p)).loop) => E = DOMAIN items[Front(p)]

NameInv ==
    \A p \in Live :
        /\ Ended(p) => todo[p] = <<>>
        /\ p # Root => Front(p) \in Live /\ status[Front(p)] = "wait"
        /\ status[p] # "failed" =>
            \E E : Keeps(todo[p], DOMAIN items[p], E) /\ EndsWith(p, E)

LEMMA KeepsEmpty ==
    ASSUME NEW D, NEW E
    PROVE  Keeps(<<>>, D, E) <=> D = E
<1>1. Len(<<>>) = 0
    BY EmptyIsSeq
<1>. QED
    BY <1>1 DEF Keeps, Due

\* One frame more: what is on top of s has the names of the frame, if that
\* frame resets them.
LEMMA KeepsShifted ==
    ASSUME NEW s, NEW t, IsSeq(s), IsSeq(t), Len(t) = Len(s) + 1,
           \A i \in 1 .. Len(s) : t[i + 1] = s[i],
           NEW D, NEW E
    PROVE  Keeps(t, D, E) <=>
            /\ t[1].kind = "return" => D = DOMAIN t[1].values
            /\ Keeps(s, IF Resets(t[1]) THEN DOMAIN t[1].backup ELSE D, E)
<1> DEFINE N == Len(s)
           B == IF Resets(t[1]) THEN DOMAIN t[1].backup ELSE D
<1>1. N \in Nat
    BY IsSeqProperties
<1>2. \A i \in 2 .. N + 1 : t[i] = s[i - 1]
    BY <1>1
<1>3. \A i \in 1 .. N + 1 : Due(t, E, i + 1) = Due(s, E, i)
    BY <1>1 DEF Due
<1>4. ASSUME Keeps(t, D, E), t[1].kind = "return"
      PROVE  D = DOMAIN t[1].values
    <2>1. Due(t, E, 1) = DOMAIN t[1].values
        BY <1>1 DEF Due
    <2>. QED
        BY <2>1, <1>1, <1>4 DEF Keeps
<1>5. ASSUME Keeps(t, D, E) PROVE Keeps(s, B, E)
    <2>. SUFFICES ASSUME NEW i \in 1 .. N + 1,
                         i <= N => s[i].kind = "return"
                  PROVE  /\ (\A k \in 1 .. i - 1 : ~Resets(s[k]))
                                => B = Due(s, E, i)
                         /\ \A j \in 1 .. i - 1 :
                            (Resets(s[j])
                                /\ \A k \in j + 1 .. i - 1 : ~Resets(s[k]))
                                    => DOMAIN s[j].backup = Due(s, E, i)
        BY DEF Keeps
    <2>1. /\ i + 1 \in 1 .. Len(t) + 1
          /\ i + 1 <= Len(t) => t[i + 1].kind = "return"
        BY <1>1
    <2>2. Due(t, E, i + 1) = Due(s, E, i)
        BY <1>3
    <2>3. ASSUME \A k \in 1 .. i - 1 : ~Resets(s[k])
          PROVE  B = Due(s, E, i)
        <3>1. \A k \in 2 .. i : ~Resets(t[k])
            BY <2>3, <1>1, <1>2
        <3>2. CASE Resets(t[1])
            <4>1. /\ 1 \in 1 .. (i + 1) - 1
                  /\ \A k \in 1 + 1 .. (i + 1) - 1 : ~Resets(t[k])
                BY <3>1, <1>1
            <4>. QED
                BY <4>1, <3>2, <2>1, <2>2, <1>5 DEF Keeps
        <3>3. CASE ~Resets(t[1])
            <4>1. \A k \in 1 .. (i + 1) - 1 : ~Resets(t[k])
                BY <3>1, <3>3, <1>1
            <4>. QED
                BY <4>1, <3>3, <2>1, <2>2, <1>5 DEF Keeps
        <3>. QED
            BY <3>2, <3>3
    <2>4. ASSUME NEW j \in 1 .. i - 1, Resets(s[j]),
                 \A k \in j + 1 .. i - 1 : ~Resets(s[k])
          PROVE  DOMAIN s[j].backup = Due(s, E, i)
        <3>1. j + 1 \in 1 .. (i + 1) - 1 /\ t[j + 1] = s[j]
            BY <1>1
        <3>2. ASSUME NEW k \in (j + 1) + 1 .. (i + 1) - 1
              PROVE  ~Resets(t[k])
            <4>1. k - 1 \in j + 1 .. i - 1 /\ t[k] = s[k - 1]
                BY <1>1, <1>2
            <4>. QED
                BY <4>1, <2>4
        <3>. QED
            BY <3>1, <3>2, <2>1, <2>2, <2>4, <1>5 DEF Keeps
    <2>. QED
        BY <2>3, <2>4
<1>6. ASSUME t[1].kind = "return" => D = DOMAIN t[1].values, Keeps(s, B, E)
      PROVE  Keeps(t, D, E)
    <2>. SUFFICES ASSUME NEW i \in 1 .. Len(t) + 1,
                         i <= Len(t) => t[i].kind = "return"
                  PROVE  /\ (\A k \in 1 .. i - 1 : ~Resets(t[k]))
                                => D = Due(t, E, i)
                         /\ \A j \in 1 .. i - 1 :
                            (Resets(t[j])
                                /\ \A k \in j + 1 .. i - 1 : ~Resets(t[k]))
                                    => DOMAIN t[j].backup = Due(t, E, i)
        BY DEF Keeps
    <2>1. CASE i = 1
        <3>1. Due(t, E, 1) = DOMAIN t[1].values
            BY <1>1 DEF Due
        <3>. QED
            BY <2>1, <3>1, <1>1, <1>6
    <2>2. CASE i # 1
        <3>1. /\ i - 1 \in 1 .. N + 1
              /\ i - 1 <= N => s[i - 1].kind = "return"
            BY <2>2, <1>1, <1>2
        <3>2. Due(t, E, i) = Due(s, E, i - 1)
            BY <3>1, <1>1, <1>3
        <3>3. \A k \in 1 .. (i - 1) - 1 : /\ s[k] = t[k + 1]
                                         /\ k + 1 \in 1 .. i - 1
            BY <3>1, <1>1
        <3>4. ASSUME \A k \in 1 .. i - 1 : ~Resets(t[k])
              PROVE  D = Due(t, E, i)
            <4>1. \A k \in 1 .. (i - 1) - 1 : ~Resets(s[k])
                BY <3>3, <3>4
            <4>2. B = D
                BY <2>2, <3>4, <1>1
            <4>. QED
                BY <4>1, <4>2, <3>1, <3>2, <1>6 DEF Keeps
        <3>5. ASSUME NEW j \in 1 .. i - 1, Resets(t[j]),
                     \A k \in j + 1 .. i - 1 : ~Resets(t[k])
              PROVE  DOMAIN t[j].backup = Due(t, E, i)
            <4>1. CASE j = 1
                <5>1. ASSUME NEW k \in 1 .. (i - 1) - 1 PROVE ~Resets(s[k])
                    <6>1. k + 1 \in j + 1 .. i - 1 /\ s[k] = t[k + 1]
                        BY <4>1, <3>1, <3>3, <1>1
                    <6>. QED
                        BY <6>1, <3>5
                <5>. QED
                    BY <5>1, <4>1, <3>1, <3>2, <3>5, <1>6 DEF Keeps
            <4>2. CASE j # 1
                <5>1. j - 1 \in 1 .. (i - 1) - 1 /\ t[j] = s[j - 1]
                    BY <4>2, <3>1, <1>1, <1>2
                <5>2. ASSUME NEW k \in (j - 1) + 1 .. (i - 1) - 1
                      PROVE  ~Resets(s[k])
                    <6>1. k + 1 \in j + 1 .. i - 1 /\ s[k] = t[k + 1]
                        BY <5>1, <3>1, <3>3, <1>1
                    <6>. QED
                        BY <6>1, <3>5
                <5>. QED
                    BY <5>1, <5>2, <3>1, <3>2, <3>5, <1>6 DEF Keeps
            <4>. QED
                BY <4>1, <4>2
        <3>. QED
            BY <3>4, <3>5
    <2>. QED
        BY <2>1, <2>2
<1>. QED
    BY <1>4, <1>5, <1>6

\* A frame is pushed.
LEMMA KeepsPushed ==
    ASSUME NEW f, NEW s, IsSeq(s), NEW D, NEW E,
           f.kind = "return" => D = DOMAIN f.values,
           Keeps(s, IF Resets(f) THEN DOMAIN f.backup ELSE D, E)
    PROVE  Keeps(<<f>> \o s, D, E)
<1> DEFINE t == <<f>> \o s
<1>1. IsSeq(<<f>>) /\ Len(<<f>>) = 1 /\ <<f>>[1] = f
    BY SingletonIsSeq
<1>2. /\ IsSeq(t) /\ Len(t) = 1 + Len(s)
      /\ \A i \in 1 .. 1 : t[i] = <<f>>[i]
      /\ \A i \in 1 + 1 .. 1 + Len(s) : t[i] = s[i - 1]
    BY <1>1, ConcatIsSeq
<1>3. Len(s) \in Nat
    BY IsSeqProperties
<1>4. /\ Len(t) = Len(s) + 1 /\ t[1] = f
      /\ \A i \in 1 .. Len(s) : t[i + 1] = s[i]
    BY <1>1, <1>2, <1>3
<1>. HIDE DEF t
<1>5. Keeps(t, D, E)
    BY <1>2, <1>4, KeepsShifted
<1>. QED
    BY <1>5 DEF t

\* A frame is popped.
LEMMA KeepsPopped ==
    ASSUME NEW t, IsSeq(t), t # <<>>, NEW D, NEW E, Keeps(t, D, E)
    PROVE  /\ Head(t).kind = "return" => D = DOMAIN Head(t).values
           /\ Keeps(Tail(t), IF Resets(Head(t)) THEN DOMAIN Head(t).backup
                             ELSE D, E)
<1> DEFINE s == Tail(t)
<1>1. /\ IsSeq(s) /\ Len(t) \in Nat \ {0} /\ Len(s) = Len(t) - 1
      /\ \A i \in 1 .. Len(t) - 1 : s[i] = t[i + 1]
      /\ Head(t) = t[1]
    BY TailIsSeq
<1>2. Len(t) = Len(s) + 1 /\ \A i \in 1 .. Len(s) : t[i + 1] = s[i]
    BY <1>1
<1>. HIDE DEF s
<1>3. /\ t[1].kind = "return" => D = DOMAIN t[1].values
      /\ Keeps(s, IF Resets(t[1]) THEN DOMAIN t[1].backup ELSE D, E)
    BY <1>1, <1>2, KeepsShifted
<1>. QED
    BY <1>1, <1>3 DEF s

\* Frames are pushed that reset nothing.
LEMMA KeepsFrames ==
    ASSUME NEW new, NEW s, IsSeq(new), IsSeq(s), NEW D, NEW E,
           \A i \in 1 .. Len(new) : ~Resets(new[i]), Keeps(s, D, E)
    PROVE  Keeps(new \o s, D, E)
<1> DEFINE t == new \o s
           N == Len(new)
           M == Len(s)
<1>1. N \in Nat /\ M \in Nat
    BY IsSeqProperties
<1>2. /\ Len(t) = N + M
      /\ \A i \in 1 .. N : t[i] = new[i]
      /\ \A i \in N + 1 .. N + M : t[i] = s[i - N]
    BY ConcatIsSeq
<1>. HIDE DEF t
<1>. SUFFICES ASSUME NEW i \in 1 .. Len(t) + 1,
                     i <= Len(t) => t[i].kind = "return"
              PROVE  /\ (\A k \in 1 .. i - 1 : ~Resets(t[k]))
                            => D = Due(t, E, i)
                     /\ \A j \in 1 .. i - 1 :
                        (Resets(t[j])
                            /\ \A k \in j + 1 .. i - 1 : ~Resets(t[k]))
                                => DOMAIN t[j].backup = Due(t, E, i)
    BY DEF Keeps, t
<1>3. \A k \in 1 .. N : ~Resets(t[k])
    BY <1>2
<1>4. ~(i <= N)
    BY <1>1, <1>2, <1>3 DEF Resets
<1>5. /\ i - N \in 1 .. M + 1
      /\ i - N <= M => s[i - N].kind = "return"
      /\ Due(t, E, i) = Due(s, E, i - N)
    BY <1>1, <1>2, <1>4 DEF Due
<1>6. \A k \in 1 .. (i - N) - 1 : s[k] = t[k + N] /\ k + N \in 1 .. i - 1
    <2>1. TAKE k \in 1 .. (i - N) - 1
    <2>2. k + N \in N + 1 .. N + M /\ k + N \in 1 .. i - 1 /\ (k + N) - N = k
        BY <1>1, <1>2, <1>4
    <2>. QED
        BY <2>2, <1>2
<1>7. ASSUME \A k \in 1 .. i - 1 : ~Resets(t[k])
      PROVE  D = Due(t, E, i)
    <2>1. \A k \in 1 .. (i - N) - 1 : ~Resets(s[k])
        BY <1>6, <1>7
    <2>. QED
        BY <2>1, <1>5 DEF Keeps
<1>8. ASSUME NEW j \in 1 .. i - 1, Resets(t[j]),
             \A k \in j + 1 .. i - 1 : ~Resets(t[k])
      PROVE  DOMAIN t[j].backup = Due(t, E, i)
    <2>1. ~(j <= N)
        BY <1>3, <1>8
    <2>2. j - N \in 1 .. (i - N) - 1 /\ t[j] = s[j - N]
        BY <2>1, <1>1, <1>2, <1>4
    <2>3. ASSUME NEW k \in (j - N) + 1 .. (i - N) - 1
          PROVE  ~Resets(s[k])
        <3>1. k + N \in j + 1 .. i - 1 /\ s[k] = t[k + N]
            BY <2>2, <1>1, <1>4, <1>6
        <3>. QED
            BY <3>1, <1>8
    <2>. QED
        BY <2>2, <2>3, <1>5, <1>8 DEF Keeps
<1>. QED
    BY <1>7, <1>8

LEMMA KeepsItems ==
    ASSUME NEW seq, NEW path, InFile(seq, path), NEW s, IsSeq(s),
           NEW D, NEW E, Keeps(s, D, E)
    PROVE  Keeps(Sequence(seq, s), D, E)
<1> DEFINE new == ItemFrames(seq)
<1>1. IsSeq(new)
    BY FramesOfItems
<1>2. \A i \in 1 .. Len(new) : new[i].kind = "item"
    <2>1. seq \in Seq(Item) /\ DOMAIN seq = 1 .. Len(seq) /\ Len(seq) \in Nat
        BY LenProperties DEF InFile
    <2>2. DOMAIN new = 1 .. Len(seq)
        BY <2>1 DEF ItemFrames
    <2>3. DOMAIN new = 1 .. Len(new)
        BY <1>1, IsSeqProperties
    <2>. QED
        BY <2>2, <2>3, <2>1 DEF ItemFrames
<1>. HIDE DEF new
<1>3. \A i \in 1 .. Len(new) : ~Resets(new[i])
    BY <1>2 DEF Resets
<1>4. Keeps(new \o s, D, E)
    BY <1>1, <1>3, KeepsFrames
<1>. QED
    BY <1>4 DEF Sequence, new

\* A list of items alone.
LEMMA KeepsOnly ==
    ASSUME NEW seq, NEW path, InFile(seq, path), NEW D
    PROVE  Keeps(ItemFrames(seq), D, D)
<1> DEFINE new == ItemFrames(seq)
<1>1. IsSeq(new) /\ Len(new) \in Nat
    BY FramesOfItems, IsSeqProperties
<1>2. \A i \in 1 .. Len(new) : new[i].kind = "item"
    <2>1. seq \in Seq(Item) /\ DOMAIN seq = 1 .. Len(seq) /\ Len(seq) \in Nat
        BY LenProperties DEF InFile
    <2>2. DOMAIN new = 1 .. Len(seq)
        BY <2>1 DEF ItemFrames
    <2>3. DOMAIN new = 1 .. Len(new)
        BY <1>1, IsSeqProperties
    <2>. QED
        BY <2>2, <2>3, <2>1 DEF ItemFrames
<1>. HIDE DEF new
<1>3. \A i \in 1 .. Len(new) : ~Resets(new[i]) /\ new[i].kind # "return"
    BY <1>2 DEF Resets
<1>4. Keeps(new, D, D)
    BY <1>1, <1>3 DEF Keeps, Due
<1>. QED
    BY <1>4 DEF new

-----------------------------------------------------------------------------
\* What the steps of a plan do to the names.

\* What is on top of a running plan's stack, and the names it is left with.
LEMMA NamesOnTop ==
    ASSUME PathInv, NEW p \in Live, todo[p] # <<>>, NEW E,
           Keeps(todo[p], DOMAIN items[p], E)
    PROVE  /\ IsSeq(Rest(p))
           /\ Top(p).kind = "return" => DOMAIN items[p] = DOMAIN Top(p).values
           /\ Keeps(Rest(p), IF Resets(Top(p)) THEN DOMAIN Top(p).backup
                             ELSE DOMAIN items[p], E)
BY KeepsPopped, OnTop DEF PathInv, Top, Rest

\* p goes on with a stack that leads to the same names.
LEMMA NamesContinued ==
    ASSUME PathInv, NameInv, NEW p \in Live, status[p] = "run", NEW stack,
           NEW map, NEW path, Continue(p, stack, map, path),
           \A E : Keeps(todo[p], DOMAIN items[p], E)
                    => Keeps(stack, DOMAIN map, E)
    PROVE  NameInv'
<1>1. /\ status' = status /\ todo'[p] = stack /\ items'[p] = map
      /\ call' = call
      /\ \A q \in Live \ {p} : todo'[q] = todo[q] /\ items'[q] = items[q]
    BY DEF Continue, PathInv, Live, callVars
<1>2. ASSUME NEW q \in Live
      PROVE  /\ Ended(q)' => todo'[q] = <<>>
             /\ q # Root => Front(q) \in Live /\ status'[Front(q)] = "wait"
             /\ status'[q] # "failed" =>
                  \E E : Keeps(todo'[q], DOMAIN items'[q], E) /\ EndsWith(q, E)'
    <2>1. q # Root => /\ Front(q) \in Live \ {p}
                      /\ status[Front(q)] = "wait"
        BY DEF NameInv
    <2>2. Ended(q)' => todo'[q] = <<>>
        BY <1>1 DEF NameInv, Ended
    <2>3. ASSUME status'[q] # "failed"
          PROVE  \E E : Keeps(todo'[q], DOMAIN items'[q], E) /\ EndsWith(q, E)'
        <3>1. PICK E : Keeps(todo[q], DOMAIN items[q], E) /\ EndsWith(q, E)
            BY <2>3, <1>1 DEF NameInv
        <3>2. Keeps(todo'[q], DOMAIN items'[q], E)
            BY <3>1, <1>1
        <3>3. InitialItems(call)' = InitialItems(call)
            BY <1>1 DEF InitialItems
        <3>4. EndsWith(q, E)'
            BY <3>1, <3>3, <2>1, <1>1 DEF EndsWith, Top
        <3>. QED
            BY <3>2, <3>4
    <2>. QED
        BY <2>1, <2>2, <2>3, <1>1
<1>3. Live' = Live
    BY <1>1 DEF Live
<1>. QED
    BY <1>2, <1>3 DEF NameInv

LEMMA NamesFailed ==
    ASSUME PathInv, NameInv, NEW p \in Live, status[p] = "run", Fail(p)
    PROVE  NameInv'
<1>1. /\ DOMAIN status' = Live /\ status'[p] = "failed" /\ todo'[p] = <<>>
      /\ items' = items /\ call' = call
      /\ \A q \in Live \ {p} : todo'[q] = todo[q] /\ status'[q] = status[q]
    BY DEF Fail, PathInv, Live, callVars
<1>2. ASSUME NEW q \in Live
      PROVE  /\ Ended(q)' => todo'[q] = <<>>
             /\ q # Root => Front(q) \in Live /\ status'[Front(q)] = "wait"
             /\ status'[q] # "failed" =>
                  \E E : Keeps(todo'[q], DOMAIN items'[q], E) /\ EndsWith(q, E)'
    <2>1. q # Root => /\ Front(q) \in Live \ {p}
                      /\ status[Front(q)] = "wait"
        BY DEF NameInv
    <2>2. Ended(q)' => todo'[q] = <<>>
        BY <1>1 DEF NameInv, Ended
    <2>3. ASSUME status'[q] # "failed"
          PROVE  \E E : Keeps(todo'[q], DOMAIN items'[q], E) /\ EndsWith(q, E)'
        <3>1. PICK E : Keeps(todo[q], DOMAIN items[q], E) /\ EndsWith(q, E)
            BY <2>3, <1>1 DEF NameInv
        <3>2. Keeps(todo'[q], DOMAIN items'[q], E)
            BY <3>1, <2>3, <1>1
        <3>3. InitialItems(call)' = InitialItems(call)
            BY <1>1 DEF InitialItems
        <3>4. EndsWith(q, E)'
            BY <3>1, <3>3, <2>1, <1>1 DEF EndsWith, Top
        <3>. QED
            BY <3>2, <3>4
    <2>. QED
        BY <2>1, <2>2, <2>3, <1>1
<1>3. Live' = Live
    BY <1>1 DEF Live
<1>. QED
    BY <1>2, <1>3 DEF NameInv

\* The frame on top is popped, with the names it leaves.
LEMMA NamesDropped ==
    ASSUME PathInv, NameInv, NEW p \in Live, status[p] = "run",
           todo[p] # <<>>, NEW map, NEW path,
           Continue(p, Rest(p), map, path),
           DOMAIN map = IF Resets(Top(p)) THEN DOMAIN Top(p).backup
                        ELSE DOMAIN items[p]
    PROVE  NameInv'
<1>1. \A E : Keeps(todo[p], DOMAIN items[p], E)
                => Keeps(Rest(p), DOMAIN map, E)
    BY NamesOnTop
<1>. QED
    BY <1>1, NamesContinued

\* Another frame takes its place, which resets nothing either, or the loop it
\* has entered, with the items of now.
LEMMA NamesReplaced ==
    ASSUME PathInv, NameInv, NEW p \in Live, status[p] = "run",
           todo[p] # <<>>, ~Resets(Top(p)), NEW f, f.kind # "return",
           NEW map, NEW path, Continue(p, <<f>> \o Rest(p), map, path),
           DOMAIN items[p] = IF Resets(f) THEN DOMAIN f.backup ELSE DOMAIN map
    PROVE  NameInv'
<1>1. ASSUME NEW E, Keeps(todo[p], DOMAIN items[p], E)
      PROVE  Keeps(<<f>> \o Rest(p), DOMAIN map, E)
    <2>1. IsSeq(Rest(p)) /\ Keeps(Rest(p), DOMAIN items[p], E)
        BY <1>1, NamesOnTop
    <2>2. Keeps(Rest(p), IF Resets(f) THEN DOMAIN f.backup ELSE DOMAIN map, E)
        BY <2>1
    <2>. QED
        BY <2>1, <2>2, KeepsPushed
<1>. QED
    BY <1>1, NamesContinued

\* A call: its return frame has the names of the called tree's items, and
\* keeps those of p.
LEMMA NamesCalled ==
    ASSUME PathInv, NameInv, NEW p \in Live, NEW path \in DOMAIN Tree,
           NEW values, status[p] = "run", todo[p] # <<>>, ~Resets(Top(p)),
           RunSubtreeCall(p, path, values)
    PROVE  NameInv'
<1>1. CASE Fail(p)
    BY <1>1, NamesFailed
<1>2. CASE \E v : Continue(p, Sequence(Tree[path].childs,
                <<[kind |-> "return", values |-> v, backup |-> items[p],
                   path |-> filePath[p]]>> \o Rest(p)), Items(v), path)
    <2>1. PICK v : Continue(p, Sequence(Tree[path].childs,
                <<[kind |-> "return", values |-> v, backup |-> items[p],
                   path |-> filePath[p]]>> \o Rest(p)), Items(v), path)
        BY <1>2
    <2> DEFINE frame == [kind |-> "return", values |-> v,
                         backup |-> items[p], path |-> filePath[p]]
               below == <<frame>> \o Rest(p)
    <2>2. /\ frame.kind = "return" /\ frame.values = v
          /\ frame.backup = items[p] /\ Resets(frame)
        BY DEF Resets
    <2>3. DOMAIN Items(v) = DOMAIN v
        BY DEF Items
    <2>4. InFile(Tree[path].childs, path)
        BY ScriptAssumption
    <2>5. ASSUME NEW E, Keeps(todo[p], DOMAIN items[p], E)
          PROVE  Keeps(Sequence(Tree[path].childs, below),
                       DOMAIN Items(v), E)
        <3>1. IsSeq(Rest(p)) /\ Keeps(Rest(p), DOMAIN items[p], E)
            BY <2>5, NamesOnTop
        <3>2. IsSeq(<<frame>>)
            BY SingletonIsSeq
        <3>. HIDE DEF frame
        <3>3. IsSeq(below)
            BY <3>1, <3>2, ConcatIsSeq
        <3>4. Keeps(Rest(p), IF Resets(frame) THEN DOMAIN frame.backup
                             ELSE DOMAIN v, E)
            BY <3>1, <2>2
        <3>5. Keeps(below, DOMAIN v, E)
            BY <3>1, <3>4, <2>2, KeepsPushed
        <3>. HIDE DEF below
        <3>. QED
            BY <3>3, <3>5, <2>3, <2>4, KeepsItems
    <2>6. Continue(p, Sequence(Tree[path].childs, below), Items(v), path)
        BY <2>1
    <2>. HIDE DEF below
    <2>. QED
        BY <2>5, <2>6, NamesContinued
<1>. QED
    BY <1>1, <1>2, Zenon DEF RunSubtreeCall

\* Items take the place of the frame on top.
LEMMA NamesUnfolded ==
    ASSUME PathInv, NameInv, NEW p \in Live, status[p] = "run",
           todo[p] # <<>>, ~Resets(Top(p)), NEW seq,
           InFile(seq, filePath[p]),
           Continue(p, Sequence(seq, Rest(p)), items[p], filePath[p])
    PROVE  NameInv'
<1>1. ASSUME NEW E, Keeps(todo[p], DOMAIN items[p], E)
      PROVE  Keeps(Sequence(seq, Rest(p)), DOMAIN items[p], E)
    BY <1>1, NamesOnTop, KeepsItems
<1>. QED
    BY <1>1, NamesContinued

\* An iteration works on the loop's frame, which resets the names after it.
LEMMA NamesIterated ==
    ASSUME PathInv, NameInv, NEW p \in Live, NextIteration(p)
    PROVE  NameInv'
<1> DEFINE f == Loop(Top(p).item, Tail(Top(p).left), Top(p).backup)
           stack == <<f>> \o Rest(p)
<1>1. PICK map :
        /\ status[p] = "run" /\ todo[p] # <<>> /\ Top(p).kind = "loop"
        /\ Continue(p, Sequence(Current(p).content, stack), map, filePath[p])
    BY DEF NextIteration, AtFrame
<1>2. f.kind = "loop" /\ f.backup = Top(p).backup
    BY DEF Loop
<1>3. Belongs(Top(p)) /\ Current(p).kind \in {"for", "foreach"}
    BY <1>1, OnTop DEF Owned, Belongs, Current
<1>4. InFile(Current(p).content, filePath[p])
    BY <1>1, <1>3, ItemOnTop DEF Owned
<1>. HIDE DEF f
<1>5. ASSUME NEW E, Keeps(todo[p], DOMAIN items[p], E)
      PROVE  Keeps(Sequence(Current(p).content, stack), DOMAIN map, E)
    <2>1. IsSeq(Rest(p)) /\ Keeps(Rest(p), DOMAIN f.backup, E)
        BY <1>5, <1>1, <1>2, NamesOnTop DEF Resets
    <2>2. IsSeq(stack)
        BY <2>1, SingletonIsSeq, ConcatIsSeq
    <2>3. Keeps(Rest(p), IF Resets(f) THEN DOMAIN f.backup
                         ELSE DOMAIN map, E)
        BY <2>1, <1>2 DEF Resets
    <2>4. Keeps(stack, DOMAIN map, E)
        BY <2>1, <2>3, <1>2, KeepsPushed
    <2>. HIDE DEF stack
    <2>. QED
        BY <2>2, <2>4, <1>4, KeepsItems
<1>. HIDE DEF stack
<1>. QED
    BY <1>1, <1>5, NamesContinued

-----------------------------------------------------------------------------
\* A spawn: children start with what remains to be done for them on the names
\* of p, which waits with the names it has.
LEMMA NamesSpawned ==
    ASSUME PathInv, NameInv, NEW p \in Live, status[p] = "run",
           todo[p] # <<>>, ~Resets(Top(p)), NEW stacks, NEW maps, NEW frame,
           frame.kind = "join",
           \A i \in DOMAIN stacks :
                /\ Keeps(stacks[i], DOMAIN maps[i], DOMAIN maps[i])
                /\ ~frame.loop => DOMAIN maps[i] = DOMAIN items[p],
           Spawn(p, stacks, maps, frame)
    PROVE  NameInv'
<1> DEFINE new == {Append(p, i) : i \in DOMAIN stacks}
           stack == <<frame>> \o Rest(p)
<1>1. \A q \in new : /\ Front(q) = p /\ q # Root
                     /\ Last(q) \in DOMAIN stacks
    <2>1. IsSeq(p)
        BY DEF PathInv
    <2>2. \A i \in DOMAIN stacks : /\ Front(Append(p, i)) = p
                                   /\ Append(p, i) # Root
                                   /\ Last(Append(p, i)) = i
        BY <2>1, FrontIs, AppendIsSeq
    <2>. QED
        BY <2>2
<1>2. \A q \in Live \ {Root} : Front(q) # p
    BY DEF NameInv
<1>3. IsSeq(Rest(p)) /\ Head(stack) = frame
    <2>1. IsSeq(Rest(p))
        BY OnTop DEF PathInv, Top, Rest, Resets
    <2>2. /\ IsSeq(<<frame>>) /\ Len(<<frame>>) = 1 /\ <<frame>>[1] = frame
        BY SingletonIsSeq
    <2>3. /\ IsSeq(stack) /\ Len(stack) = 1 + Len(Rest(p))
          /\ \A i \in 1 .. 1 : stack[i] = <<frame>>[i]
        BY <2>1, <2>2, ConcatIsSeq
    <2>4. Len(Rest(p)) \in Nat
        BY <2>1, IsSeqProperties
    <2>5. stack # <<>>
        BY <2>3, <2>4, EmptyIsSeq
    <2>. QED
        BY <2>1, <2>2, <2>3, <2>5, TailIsSeq
<1>4. ASSUME NEW E, Keeps(todo[p], DOMAIN items[p], E)
      PROVE  Keeps(stack, DOMAIN items[p], E)
    <2>1. Keeps(Rest(p), DOMAIN items[p], E)
        BY <1>4, NamesOnTop
    <2>2. ~Resets(frame) /\ frame.kind # "return"
        BY DEF Resets
    <2>3. Keeps(Rest(p), IF Resets(frame) THEN DOMAIN frame.backup
                         ELSE DOMAIN items[p], E)
        BY <2>1, <2>2
    <2>. QED
        BY <2>2, <2>3, <1>3, KeepsPushed
<1>. HIDE DEF new, stack
<1>5. /\ status' = With([q \in new |-> "run"], [status EXCEPT ![p] = "wait"])
      /\ todo' = With([q \in new |-> stacks[Last(q)]],
                      [todo EXCEPT ![p] = stack])
      /\ items' = With([q \in new |-> maps[Last(q)]], items)
      /\ call' = call
    BY DEF Spawn, new, stack, callVars
<1>6. DOMAIN status' = new \cup Live
    BY <1>5 DEF Live, With
<1>7. p \notin new /\ \A q \in Live : q \notin new
    <2>1. ASSUME NEW q \in Live, q \in new PROVE FALSE
        BY <2>1, <1>1, <1>2
    <2>. QED
        BY <2>1
<1>8. \A q \in new : /\ status'[q] = "run" /\ todo'[q] = stacks[Last(q)]
                     /\ items'[q] = maps[Last(q)]
    BY <1>5 DEF With
<1>9. \A q \in Live : /\ items'[q] = items[q]
                      /\ q # p => todo'[q] = todo[q] /\ status'[q] = status[q]
    BY <1>5, <1>7 DEF PathInv, Live, With
<1>10. todo'[p] = stack /\ status'[p] = "wait"
    BY <1>5, <1>7 DEF PathInv, Live, With
<1>11. InitialItems(call)' = InitialItems(call)
    BY <1>5 DEF InitialItems
<1>12. ASSUME NEW q \in new \cup Live
       PROVE  /\ Ended(q)' => todo'[q] = <<>>
              /\ q # Root => /\ Front(q) \in new \cup Live
                             /\ status'[Front(q)] = "wait"
              /\ status'[q] # "failed" =>
                  \E E : Keeps(todo'[q], DOMAIN items'[q], E) /\ EndsWith(q, E)'
    <2>1. CASE q \in new
        <3>1. Front(q) = p /\ q # Root /\ Last(q) \in DOMAIN stacks
            BY <2>1, <1>1
        <3>2. /\ Keeps(todo'[q], DOMAIN items'[q], DOMAIN items'[q])
              /\ ~frame.loop => DOMAIN items'[q] = DOMAIN items'[p]
            BY <2>1, <3>1, <1>8, <1>9
        <3>3. EndsWith(q, DOMAIN items[q])'
            BY <3>1, <3>2, <1>3, <1>10 DEF EndsWith, Top
        <3>4. ~Ended(q)'
            BY <2>1, <1>8 DEF Ended
        <3>. QED
            BY <3>1, <3>2, <3>3, <3>4, <1>10
    <2>2. CASE q \in Live
        <3>1. q # Root => /\ Front(q) \in Live \ {p}
                          /\ status[Front(q)] = "wait"
            BY <2>2, <1>2 DEF NameInv
        <3>2. q # Root => /\ status'[Front(q)] = "wait"
                          /\ todo'[Front(q)] = todo[Front(q)]
                          /\ items'[Front(q)] = items[Front(q)]
            BY <3>1, <1>9
        <3>3. Ended(q)' => todo'[q] = <<>>
            BY <2>2, <1>9, <1>10 DEF NameInv, Ended
        <3>4. ASSUME status'[q] # "failed"
              PROVE  \E E : /\ Keeps(todo'[q], DOMAIN items'[q], E)
                            /\ EndsWith(q, E)'
            <4>1. PICK E : Keeps(todo[q], DOMAIN items[q], E) /\ EndsWith(q, E)
                BY <2>2, <3>4, <1>9 DEF NameInv
            <4>2. Keeps(todo'[q], DOMAIN items'[q], E)
                BY <4>1, <2>2, <1>4, <1>9, <1>10
            <4>3. EndsWith(q, E)'
                BY <4>1, <3>2, <1>11 DEF EndsWith, Top
            <4>. QED
                BY <4>2, <4>3
        <3>. QED
            BY <3>1, <3>2, <3>3, <3>4
    <2>. QED
        BY <2>1, <2>2
<1>. QED
    BY <1>6, <1>12 DEF NameInv, Live

\* A branch that has ended well has the names of the plan that waits for it.
LEMMA BranchNames ==
    ASSUME NameInv, NEW p \in Live, ~Top(p).loop, NEW c \in Childs(p), Ended(c),
           status[c] # "failed"
    PROVE  DOMAIN items[c] = DOMAIN items[p]
<1>1. c \in Live /\ c # Root /\ Front(c) = p
    BY DEF Childs, Root
<1>2. todo[c] = <<>>
    BY <1>1 DEF NameInv
<1>3. PICK E : Keeps(todo[c], DOMAIN items[c], E) /\ EndsWith(c, E)
    BY <1>1 DEF NameInv
<1>4. DOMAIN items[c] = E
    BY <1>2, <1>3, KeepsEmpty
<1>5. E = DOMAIN items[p]
    BY <1>1, <1>3 DEF EndsWith
<1>. QED
    BY <1>4, <1>5

\* A join: every child of a parallel part has ended with the names of p, so
\* that the merge brings no other name.
LEMMA NamesJoined ==
    ASSUME PathInv, NameInv, NEW p \in Live, Join(p),
           \A c \in Childs(p) : Ended(c), Below(p) = Childs(p)
    PROVE  NameInv'
<1> DEFINE kept == Live \ Below(p)
           loop == Top(p).loop
           failed == \E c \in Childs(p) : status[c] = "failed"
           ok == ~failed /\ (loop => Aggregated(p).ok)
           map == IF ~loop THEN Merged(p)
                  ELSE IF Childs(p) = {} THEN items[p]
                  ELSE OverrideItems(items[p], Items(Aggregated(p).values),
                                     "ONLY_EXISTING")
<1>1. /\ p \in Live /\ status[p] = "wait"
      /\ \A c \in Childs(p) : Ended(c)
      /\ status' = [Restrict(status, kept) EXCEPT
                        ![p] = IF ok THEN "run" ELSE "failed"]
      /\ todo' = [Restrict(todo, kept) EXCEPT
                        ![p] = IF ok THEN Rest(p) ELSE <<>>]
      /\ items' = [Restrict(items, kept) EXCEPT
                        ![p] = IF ok THEN map ELSE @]
      /\ call' = call
    <2>1. \A c \in Childs(p) : Ended(c)
        OBVIOUS
    <2>. QED
        BY <2>1, Zenon DEF Join, callVars
<1>2. todo[p] # <<>> /\ Top(p).kind = "join"
    BY <1>1 DEF PathInv
<1>3. \A c \in Childs(p) : c \in Live /\ c # Root /\ Front(c) = p
    BY DEF Childs, Root
<1>4. p \in kept
    BY <1>1, <1>3 DEF Ended
<1>5. ASSUME ok PROVE DOMAIN map = DOMAIN items[p]
    <2>1. CASE loop
        BY <2>1 DEF OverrideItems
    <2>2. CASE ~loop
        <3>1. ASSUME NEW c \in Childs(p)
              PROVE  DOMAIN items[c] = DOMAIN items[p]
            BY <1>1, <1>5, <2>2, BranchNames
        <3>2. MergedNames(p) = DOMAIN items[p]
            <4>1. UNION {DOMAIN items[c] : c \in Childs(p)}
                        \subseteq DOMAIN items[p]
                BY <3>1
            <4>. QED
                BY <4>1 DEF MergedNames
        <3>3. DOMAIN Merged(p) = MergedNames(p)
            BY DEF Merged
        <3>. QED
            BY <2>2, <3>2, <3>3
    <2>. QED
        BY <2>1, <2>2
<1>. HIDE DEF kept, ok, map
<1>6. DOMAIN status' = kept
    BY <1>1 DEF Restrict
<1>7. kept \subseteq Live
    BY DEF kept
<1>8. /\ status'[p] = IF ok THEN "run" ELSE "failed"
      /\ todo'[p] = IF ok THEN Rest(p) ELSE <<>>
      /\ items'[p] = IF ok THEN map ELSE items[p]
    BY <1>1, <1>4 DEF Restrict
<1>9. \A q \in kept \ {p} : /\ status'[q] = status[q] /\ todo'[q] = todo[q]
                            /\ items'[q] = items[q]
    BY <1>1 DEF Restrict
<1>10. DOMAIN items'[p] = DOMAIN items[p]
    BY <1>5, <1>8
<1>11. InitialItems(call)' = InitialItems(call)
    BY <1>1 DEF InitialItems
<1>12. ASSUME NEW q \in kept
       PROVE  /\ Ended(q)' => todo'[q] = <<>>
              /\ q # Root => /\ Front(q) \in kept
                             /\ status'[Front(q)] = "wait"
              /\ status'[q] # "failed" =>
                  \E E : Keeps(todo'[q], DOMAIN items'[q], E) /\ EndsWith(q, E)'
    <2>1. q \in Live
        BY <1>7
    <2>2. ASSUME q # Root
          PROVE  Front(q) \in kept \ {p} /\ status[Front(q)] = "wait"
        <3>1. Front(q) \in Live /\ status[Front(q)] = "wait"
            BY <2>1, <2>2 DEF NameInv
        <3>2. Front(q) \notin Childs(p)
            BY <3>1, <1>1 DEF Ended
        <3>3. Front(q) # p
            BY <2>1, <2>2 DEF kept, Childs, Root
        <3>. QED
            BY <3>1, <3>2, <3>3 DEF kept
    <2>3. Ended(q)' => todo'[q] = <<>>
        BY <2>1, <1>8, <1>9 DEF NameInv, Ended
    <2>4. q # Root => /\ status'[Front(q)] = "wait"
                      /\ todo'[Front(q)] = todo[Front(q)]
                      /\ items'[Front(q)] = items[Front(q)]
        BY <2>2, <1>9
    <2>5. ASSUME status'[q] # "failed"
          PROVE  \E E : Keeps(todo'[q], DOMAIN items'[q], E) /\ EndsWith(q, E)'
        <3>1. status[q] # "failed"
            BY <2>5, <1>1, <1>9
        <3>2. PICK E : Keeps(todo[q], DOMAIN items[q], E) /\ EndsWith(q, E)
            BY <2>1, <3>1 DEF NameInv
        <3>3. Keeps(todo'[q], DOMAIN items'[q], E)
            <4>1. CASE q = p
                <5>1. Keeps(Rest(p), DOMAIN items[p], E)
                    BY <4>1, <3>2, <1>2, NamesOnTop DEF Resets
                <5>. QED
                    BY <5>1, <4>1, <2>5, <1>8, <1>10
            <4>2. CASE q # p
                BY <4>2, <3>2, <1>9
            <4>. QED
                BY <4>1, <4>2
        <3>4. EndsWith(q, E)'
            BY <3>2, <2>4, <1>11 DEF EndsWith, Top
        <3>. QED
            BY <3>3, <3>4
    <2>. QED
        BY <2>2, <2>3, <2>4, <2>5
<1>. QED
    BY <1>6, <1>12 DEF NameInv, Live

LEMMA NamesFinished ==
    ASSUME PathInv, NameInv, NEW p \in Live, Finish(p)
    PROVE  NameInv'
<1>1. /\ DOMAIN status' = Live /\ status'[p] = "ok" /\ todo[p] = <<>>
      /\ status[p] = "run" /\ todo' = todo /\ items' = items /\ call' = call
      /\ \A q \in Live \ {p} : status'[q] = status[q]
    BY DEF Finish, Live, callVars
<1>2. InitialItems(call)' = InitialItems(call)
    BY <1>1 DEF InitialItems
<1>3. ASSUME NEW q \in Live
      PROVE  /\ Ended(q)' => todo'[q] = <<>>
             /\ q # Root => Front(q) \in Live /\ status'[Front(q)] = "wait"
             /\ status'[q] # "failed" =>
                  \E E : Keeps(todo'[q], DOMAIN items'[q], E) /\ EndsWith(q, E)'
    <2>1. q # Root => /\ Front(q) \in Live \ {p}
                      /\ status[Front(q)] = "wait"
        BY <1>1 DEF NameInv
    <2>2. Ended(q)' => todo'[q] = <<>>
        BY <1>1 DEF NameInv, Ended
    <2>3. ASSUME status'[q] # "failed"
          PROVE  \E E : Keeps(todo'[q], DOMAIN items'[q], E) /\ EndsWith(q, E)'
        <3>1. status[q] # "failed"
            BY <2>3, <1>1
        <3>2. PICK E : Keeps(todo[q], DOMAIN items[q], E) /\ EndsWith(q, E)
            BY <3>1 DEF NameInv
        <3>3. EndsWith(q, E)'
            BY <3>2, <1>1, <1>2 DEF EndsWith, Top
        <3>. QED
            BY <3>2, <3>3, <1>1
    <2>. QED
        BY <2>1, <2>2, <2>3, <1>1
<1>. QED
    BY <1>1, <1>3 DEF NameInv, Live

\* Every step a plan makes for the frame on top.
LEMMA NamesProcessed ==
    ASSUME PathInv, NameInv, NEW p \in Live, ProcessSakuraItem(p)
    PROVE  NameInv'
<1>1. \A values, map : /\ DOMAIN OverrideItems(map, values, "ONLY_EXISTING")
                            = DOMAIN map
                       /\ DOMAIN Items(values) = DOMAIN values
    BY DEF OverrideItems, Items
<1>2. CASE ProcessSubtree(p)
    <2> DEFINE path == GetRelativePath(filePath[p], Current(p).name)
    <2>1. /\ status[p] = "run" /\ todo[p] # <<>> /\ ~Resets(Top(p))
          /\ \/ path \in DOMAIN Tree
                /\ RunSubtreeCall(p, path, Current(p).values)
             \/ Fail(p)
        BY <1>2 DEF ProcessSubtree, At, Resets
    <2>. HIDE DEF path
    <2>. QED
        BY <2>1, NamesCalled, NamesFailed
<1>3. CASE ReturnFromSubtree(p)
    <2>1. /\ status[p] = "run" /\ todo[p] # <<>> /\ Top(p).kind = "return"
          /\ Resets(Top(p))
        BY <1>3 DEF ReturnFromSubtree, AtFrame, Resets
    <2>2. \/ \E values : Continue(p, Rest(p),
                    OverrideItems(Top(p).backup, Items(values),
                                  "ONLY_EXISTING"), Top(p).path)
          \/ Fail(p)
        BY <1>3, Zenon DEF ReturnFromSubtree
    <2>3. ASSUME NEW values, Continue(p, Rest(p),
                    OverrideItems(Top(p).backup, Items(values),
                                  "ONLY_EXISTING"), Top(p).path)
          PROVE  NameInv'
        <3>1. DOMAIN OverrideItems(Top(p).backup, Items(values),
                                   "ONLY_EXISTING") = DOMAIN Top(p).backup
            BY <1>1
        <3>. QED
            BY <2>1, <2>3, <3>1, NamesDropped
    <2>. QED
        BY <2>1, <2>2, <2>3, NamesFailed
<1>4. CASE ProcessBlossomGroup(p)
    <2> DEFINE f == Blossoms(Current(p).values, Current(p).blossoms)
    <2>1. /\ status[p] = "run" /\ todo[p] # <<>> /\ ~Resets(Top(p))
          /\ \/ Continue(p, <<f>> \o Rest(p), items[p], filePath[p])
             \/ Fail(p)
        BY <1>4 DEF ProcessBlossomGroup, At, Resets
    <2>2. f.kind # "return" /\ ~Resets(f)
        BY DEF Blossoms, Resets
    <2>. HIDE DEF f
    <2>. QED
        BY <2>1, <2>2, NamesReplaced, NamesFailed
<1>5. CASE EndBlossomGroup(p)
    <2>1. /\ status[p] = "run" /\ todo[p] # <<>> /\ ~Resets(Top(p))
          /\ Continue(p, Rest(p), items[p], filePath[p])
        BY <1>5 DEF EndBlossomGroup, AtFrame, Resets
    <2>. QED
        BY <2>1, NamesDropped
<1>6. CASE ProcessBlossom(p)
    <2> DEFINE f == Blossoms(Top(p).values, Tail(Top(p).blossoms))
    <2>1. status[p] = "run" /\ todo[p] # <<>> /\ ~Resets(Top(p))
        BY <1>6 DEF ProcessBlossom, AtFrame, Resets
    <2>2. f.kind # "return" /\ ~Resets(f)
        BY DEF Blossoms, Resets
    <2>3. \/ \E values : Continue(p, <<f>> \o Rest(p),
                    OverrideItems(items[p], Items(values), "ONLY_EXISTING"),
                    filePath[p])
          \/ Fail(p)
        BY <1>6, Zenon DEF ProcessBlossom
    <2>. HIDE DEF f
    <2>4. ASSUME NEW values, Continue(p, <<f>> \o Rest(p),
                    OverrideItems(items[p], Items(values), "ONLY_EXISTING"),
                    filePath[p])
          PROVE  NameInv'
        <3>1. DOMAIN items[p] = IF Resets(f) THEN DOMAIN f.backup
                    ELSE DOMAIN OverrideItems(items[p], Items(values),
                                              "ONLY_EXISTING")
            BY <1>1, <2>2
        <3>. QED
            BY <2>1, <2>2, <2>4, <3>1, NamesReplaced
    <2>. QED
        BY <2>1, <2>3, <2>4, NamesFailed
<1>7. CASE ProcessResource(p)
    <2> DEFINE type == Head(Top(p).blossoms).type
    <2>1. /\ status[p] = "run" /\ todo[p] # <<>> /\ ~Resets(Top(p))
          /\ type \in DOMAIN Resource
          /\ RunSubtreeCall(p, Resource[type], Top(p).values)
        BY <1>7 DEF ProcessResource, AtFrame, Resets
    <2>. HIDE DEF type
    <2>2. Resource[type] \in DOMAIN Tree
        BY <2>1, ScriptAssumption
    <2>. QED
        BY <2>1, <2>2, NamesCalled
<1>8. CASE ProcessIf(p)
    <2>1. /\ status[p] = "run" /\ todo[p] # <<>> /\ Top(p).kind = "item"
          /\ Current(p).kind = "if" /\ ~Resets(Top(p))
        BY <1>8 DEF ProcessIf, At, Current, Resets
    <2>2. /\ InFile(Current(p).ifContent, filePath[p])
          /\ InFile(Current(p).elseContent, filePath[p])
        BY <2>1, ItemOnTop DEF Owned
    <2>3. \/ Continue(p, Sequence(Current(p).ifContent, Rest(p)), items[p],
                      filePath[p])
          \/ Continue(p, Sequence(Current(p).elseContent, Rest(p)), items[p],
                      filePath[p])
          \/ Fail(p)
        BY <1>8, Zenon DEF ProcessIf
    <2>. QED
        BY <2>1, <2>2, <2>3, NamesUnfolded, NamesFailed
<1>9. CASE RunLoop(p)
    <2> DEFINE f == Loop(Top(p).item, Iterations(Current(p), items[p]),
                         items[p])
    <2>1. status[p] = "run" /\ todo[p] # <<>> /\ ~Resets(Top(p))
        BY <1>9 DEF RunLoop, At, Resets
    <2>2. f.kind # "return" /\ Resets(f) /\ f.backup = items[p]
        BY DEF Loop, Resets
    <2>3. \/ \E map : Continue(p, <<f>> \o Rest(p), map, filePath[p])
          \/ Fail(p)
        BY <1>9, Zenon DEF RunLoop
    <2>. HIDE DEF f
    <2>. QED
        BY <2>1, <2>2, <2>3, NamesReplaced, NamesFailed
<1>10. CASE NextIteration(p)
    BY <1>10, NamesIterated
<1>11. CASE EndLoop(p)
    <2>1. /\ status[p] = "run" /\ todo[p] # <<>> /\ Resets(Top(p))
          /\ Continue(p, Rest(p), OverrideItems(Top(p).backup, items[p],
                                                "ONLY_EXISTING"), filePath[p])
        BY <1>11 DEF EndLoop, AtFrame, Resets
    <2>2. DOMAIN OverrideItems(Top(p).backup, items[p], "ONLY_EXISTING")
            = DOMAIN Top(p).backup
        BY <1>1
    <2>. QED
        BY <2>1, <2>2, NamesDropped
<1>12. CASE ProcessParallelPart(p)
    <2> DEFINE parts == Current(p).parts
               stacks == [i \in DOMAIN parts |-> ItemFrames(<<parts[i]>>)]
               maps == [i \in DOMAIN parts |-> items[p]]
               frame == [kind |-> "join", loop |-> FALSE, values |-> <<>>,
                         shouldCount |-> Len(parts) % CounterRange]
    <2>1. /\ status[p] = "run" /\ todo[p] # <<>> /\ Top(p).kind = "item"
          /\ Current(p).kind = "parallel" /\ ~Resets(Top(p))
        BY <1>12 DEF ProcessParallelPart, At, Current, Resets
    <2>2. InFile(parts, filePath[p])
        BY <2>1, ItemOnTop DEF Owned
    <2>3. Spawn(p, stacks, maps, frame)
        BY <1>12, Zenon DEF ProcessParallelPart
    <2>. HIDE DEF parts
    <2>4. ASSUME NEW i \in DOMAIN parts
          PROVE  InFile(<<parts[i]>>, filePath[p])
        <3>1. parts \in Seq(Item) /\ DOMAIN parts = 1 .. Len(parts)
            BY <2>2, LenProperties DEF InFile
        <3>2. parts[i] \in Item /\ parts[i] \in ToSet(parts)
            BY <2>4, <3>1, ElementOfSeq DEF ToSet
        <3>3. Home[parts[i]] = filePath[p]
            BY <3>2, <2>2 DEF InFile
        <3>4. ToSet(<<parts[i]>>) = {parts[i]}
            BY DEF ToSet
        <3>. QED
            BY <3>2, <3>3, <3>4 DEF InFile
    <2>5. ASSUME NEW i \in DOMAIN stacks
          PROVE  /\ Keeps(stacks[i], DOMAIN maps[i], DOMAIN maps[i])
                 /\ DOMAIN maps[i] = DOMAIN items[p]
        <3>1. i \in DOMAIN parts /\ stacks[i] = ItemFrames(<<parts[i]>>)
              /\ maps[i] = items[p]
            BY <2>5
        <3>. HIDE DEF stacks, maps
        <3>. QED
            BY <2>4, <3>1, KeepsOnly
    <2>. HIDE DEF stacks, maps
    <2>6. frame.kind = "join"
        OBVIOUS
    <2>. HIDE DEF frame
    <2>. QED
        BY <2>1, <2>3, <2>5, <2>6, NamesSpawned
<1>13. CASE ProcessParallelLoop(p)
    <2> DEFINE left == Iterations(Current(p), items[p])
               stacks == [i \in DOMAIN left |->
                            ItemFrames(Current(p).content)]
               maps == [i \in DOMAIN left |->
                            Insert(items[p], Current(p).tempVarName, left[i])]
               frame == [kind |-> "join", loop |-> TRUE,
                         values |-> Current(p).values,
                         shouldCount |-> LoopSize(Current(p), items[p])]
    <2>1. /\ status[p] = "run" /\ todo[p] # <<>> /\ Top(p).kind = "item"
          /\ Current(p).kind \in {"for", "foreach"} /\ ~Resets(Top(p))
        BY <1>13 DEF ProcessParallelLoop, At, Current, Resets
    <2>2. InFile(Current(p).content, filePath[p])
        BY <2>1, ItemOnTop DEF Owned
    <2>3. Spawn(p, stacks, maps, frame) \/ Fail(p)
        BY <1>13, Zenon DEF ProcessParallelLoop
    <2>. HIDE DEF left
    <2>4. ASSUME NEW i \in DOMAIN stacks
          PROVE  Keeps(stacks[i], DOMAIN maps[i], DOMAIN maps[i])
        <3>1. stacks[i] = ItemFrames(Current(p).content)
            BY <2>4
        <3>. HIDE DEF stacks, maps
        <3>. QED
            BY <2>2, <3>1, KeepsOnly
    <2>. HIDE DEF stacks, maps
    <2>5. frame.kind = "join" /\ frame.loop
        OBVIOUS
    <2>. HIDE DEF frame
    <2>. QED
        BY <2>1, <2>3, <2>4, <2>5, NamesSpawned, NamesFailed
<1>. QED
    BY <1>2, <1>3, <1>4, <1>5, <1>6, <1>7, <1>8, <1>9, <1>10, <1>11, <1>12,
       <1>13 DEF ProcessSakuraItem

LEMMA NamesTriggered ==
    ASSUME PathInv, NameInv, TriggerTree
    PROVE  NameInv'
<1>1. call' = call
    BY DEF TriggerTree, callVars
<1>2. CASE UNCHANGED planVars
    BY <1>1, <1>2 DEF NameInv, planVars, Live, Top, EndsWith, Ended,
                      InitialItems
<1>3. CASE /\ Accepts(call)
           /\ status' = [p \in {Root} |-> "run"]
           /\ todo' = [p \in {Root} |-> ItemFrames(Tree[call.id].childs)]
           /\ items' = [p \in {Root} |-> InitialItems(call)]
    <2>1. InFile(Tree[call.id].childs, call.id)
        BY <1>3, ScriptAssumption DEF Accepts
    <2>2. /\ DOMAIN status' = {Root} /\ status'[Root] = "run"
          /\ todo'[Root] = ItemFrames(Tree[call.id].childs)
          /\ items'[Root] = InitialItems(call)
        BY <1>3
    <2>3. Keeps(todo'[Root], DOMAIN items'[Root], DOMAIN items'[Root])
        BY <2>1, <2>2, KeepsOnly
    <2>4. InitialItems(call)' = InitialItems(call)
        BY <1>1 DEF InitialItems
    <2>5. EndsWith(Root, DOMAIN items[Root])'
        BY <2>2, <2>4 DEF EndsWith
    <2>6. ~Ended(Root)'
        BY <2>2 DEF Ended
    <2>. QED
        BY <2>2, <2>3, <2>5, <2>6 DEF NameInv, Live
<1>. QED
    BY <1>2, <1>3, Zenon DEF TriggerTree

LEMMA NameInvInit == Init => NameInv
BY DEF Init, NameInv, Live

LEMMA NameInvNext ==
    PathInv /\ OrderInv /\ (orderly => NameInv) /\ [Next]_vars
        => (orderly => NameInv)'
<1>. SUFFICES ASSUME PathInv, OrderInv, orderly, NameInv, [Next]_vars
              PROVE  NameInv'
    BY OrderlyBefore
<1>1. CASE UNCHANGED <<call, planVars>>
    BY <1>1 DEF NameInv, planVars, Live, Top, EndsWith, Ended, InitialItems
<1>2. CASE TriggerTree
    BY <1>2, NamesTriggered
<1>3. CASE ReturnTrigger \/ \E p \in queue : Start(p)
    BY <1>1, <1>3 DEF ReturnTrigger, Start, callVars
<1>4. CASE \E p \in Live : ProcessSakuraItem(p)
    BY <1>4, NamesProcessed
<1>5. CASE \E p \in Live : Join(p)
    BY <1>5, NamesJoined, JoinWaits
<1>6. CASE \E p \in Live : Finish(p)
    BY <1>6, NamesFinished
<1>7. CASE Idle \/ UNCHANGED vars
    BY <1>1, <1>7 DEF Idle, vars, callVars
<1>. QED
    BY <1>2, <1>3, <1>4, <1>5, <1>6, <1>7 DEF Next

\* In every script and every interleaving of its branches, a called tree, a
\* loop and a triggered tree end with the names they have begun with, so that
\* what a loop or a branch has added is gone.  (runSubtreeCall, runLoop and
\* spawnParallelSubtrees: the backups, and overrideItems with ONLY_EXISTING.)
\* The condition is NoNameLeaks' own: until a plan forks again after a fork
\* that had children, or a parallel loop counts downwards.
THEOREM NamesDoNotLeak == Spec => []NoNameLeaks
<1>1. PathInv /\ (orderly => NameInv) => NoNameLeaks
    <2>. SUFFICES ASSUME PathInv, NameInv, NEW p \in Live
                  PROVE  /\ (status[p] = "run" /\ todo[p] # <<>>
                                /\ Top(p).kind = "return")
                            => DOMAIN items[p] = DOMAIN Top(p).values
                         /\ (p = Root /\ status[p] = "ok")
                            => DOMAIN items[p] = DOMAIN InitialItems(call)
        BY DEF NoNameLeaks
    <2>1. ASSUME status[p] = "run", todo[p] # <<>>, Top(p).kind = "return"
          PROVE  DOMAIN items[p] = DOMAIN Top(p).values
        <3>1. PICK E : Keeps(todo[p], DOMAIN items[p], E)
            BY <2>1 DEF NameInv
        <3>. QED
            BY <2>1, <3>1, NamesOnTop
    <2>2. ASSUME p = Root, status[p] = "ok"
          PROVE  DOMAIN items[p] = DOMAIN InitialItems(call)
        <3>1. todo[p] = <<>>
            BY <2>2 DEF NameInv, Ended
        <3>2. PICK E : Keeps(todo[p], DOMAIN items[p], E) /\ EndsWith(p, E)
            BY <2>2 DEF NameInv
        <3>3. DOMAIN items[p] = E
            BY <3>1, <3>2, KeepsEmpty
        <3>. QED
            BY <2>2, <3>2, <3>3 DEF EndsWith
    <2>. QED
        BY <2>1, <2>2
<1>. QED
    BY PathInvInit, PathInvNext, OrderInvInit, OrderInvNext, NameInvInit,
       NameInvNext, <1>1, PTL DEF Spec

-----------------------------------------------------------------------------
\* What a plan comes to, if what scripts mean is defined as ScriptMeaning says.

\* The equations of the reference definitions.
MeaningIsDefined ==
    /\ \A seq, env, path : Meaning(seq, env, path) = MeaningOf(seq, env, path)
    /\ \A blossoms, values, env : GroupMeaning(blossoms, values, env)
                                    = GroupMeaningOf(blossoms, values, env)
    /\ \A c, left, env, path : LoopMeaning(c, left, env, path)
                                    = LoopMeaningOf(c, left, env, path)

\* An outcome: a plan goes on with items env in the file path, or has failed.
Going(env, path) == [ok |-> TRUE, env |-> env, path |-> path]
Stopped == [ok |-> FALSE, env |-> <<>>, path |-> <<>>]
IsOutcome(x) == x = Stopped \/ x = Going(x.env, x.path)

\* The outcome of a part of a script that means m.
After(m, path) == IF m.ok THEN Going(m.env, path) ELSE Stopped

\* The frame f of a stack turns one outcome into another.
Returned(f, env) ==
    IF CanFillOutput(f.values, env)
    THEN Good(Updated(f.backup, Items(FillOutputValueItemMap(f.values, env))))
    ELSE Bad

Looped(f, env, path) ==
    LET looped == LoopMeaning(Code[f.item], f.left, env, path)
    IN IF looped.ok THEN Good(Updated(f.backup, looped.env)) ELSE Bad

FrameMeaning(f, env, path) ==
    CASE f.kind = "item" -> ItemMeaning(Code[f.item], env, path)
      [] f.kind = "group" -> GroupMeaning(f.blossoms, f.values, env)
      [] f.kind = "loop" -> Looped(f, env, path)
      [] f.kind = "return" -> Returned(f, env)

AfterFrame(f, x) ==
    IF x.ok THEN After(FrameMeaning(f, x.env, x.path),
                       IF f.kind = "return" THEN f.path ELSE x.path)
    ELSE Stopped

AfterItems(seq, x) ==
    IF x.ok THEN After(Meaning(seq, x.env, x.path), x.path) ELSE Stopped

\* All frames of the stack, one after the other, turn x into e.
IsTrace(tr, stack, x, e) ==
    /\ tr[0] = x
    /\ \A n \in 1 .. Len(stack) : tr[n] = AfterFrame(stack[n], tr[n - 1])
    /\ tr[Len(stack)] = e

EndsIn(stack, x, e) == \E tr : IsTrace(tr, stack, x, e)

LEMMA OutcomesAre ==
    /\ IsOutcome(Stopped) /\ ~Stopped.ok
    /\ \A env, path : /\ IsOutcome(Going(env, path))
                      /\ Going(env, path).ok
                      /\ Going(env, path).env = env
                      /\ Going(env, path).path = path
    /\ \A m, path : IsOutcome(After(m, path))
BY DEF IsOutcome, Stopped, Going, After

LEMMA EndsInEmpty ==
    ASSUME NEW x, NEW e
    PROVE  EndsIn(<<>>, x, e) <=> x = e
<1>1. Len(<<>>) = 0
    BY EmptyIsSeq
<1>2. EndsIn(<<>>, x, e) => x = e
    BY <1>1 DEF EndsIn, IsTrace
<1>3. ASSUME x = e PROVE EndsIn(<<>>, x, e)
    <2> DEFINE tr == [n \in {0} |-> x]
    <2>1. IsTrace(tr, <<>>, x, e)
        BY <1>1, <1>3 DEF IsTrace
    <2>. HIDE DEF tr
    <2>. QED
        BY <2>1 DEF EndsIn
<1>. QED
    BY <1>2, <1>3

\* One frame more on top.
LEMMA EndsInShifted ==
    ASSUME NEW s, NEW t, IsSeq(s), IsSeq(t), Len(t) = Len(s) + 1,
           \A i \in 1 .. Len(s) : t[i + 1] = s[i],
           NEW x, NEW e
    PROVE  EndsIn(t, x, e) <=> EndsIn(s, AfterFrame(t[1], x), e)
<1> DEFINE N == Len(s)
           y == AfterFrame(t[1], x)
<1>1. N \in Nat /\ Len(t) = N + 1
    BY IsSeqProperties
<1>. HIDE DEF N, y
<1>2. ASSUME NEW tr, IsTrace(tr, t, x, e)
      PROVE  EndsIn(s, y, e)
    <2> DEFINE u == [n \in 0 .. N |-> tr[n + 1]]
    <2>1. \A n \in 0 .. N : u[n] = tr[n + 1]
        OBVIOUS
    <2>. HIDE DEF u
    <2>2. tr[1] = AfterFrame(t[1], tr[0]) /\ tr[0] = x
        BY <1>1, <1>2 DEF IsTrace
    <2>3. u[0] = y
        BY <2>1, <2>2, <1>1 DEF y
    <2>4. ASSUME NEW n \in 1 .. N
          PROVE  u[n] = AfterFrame(s[n], u[n - 1])
        <3>1. n + 1 \in 1 .. Len(t) /\ (n + 1) - 1 = n /\ n - 1 \in 0 .. N
              /\ (n - 1) + 1 = n
            BY <1>1
        <3>2. tr[n + 1] = AfterFrame(t[n + 1], tr[(n + 1) - 1])
            BY <3>1, <1>2 DEF IsTrace
        <3>3. t[n + 1] = s[n]
            BY DEF N
        <3>4. u[n] = tr[n + 1] /\ u[n - 1] = tr[n]
            BY <2>1, <3>1, <1>1
        <3>. QED
            BY <3>1, <3>2, <3>3, <3>4
    <2>5. u[N] = e
        BY <2>1, <1>1, <1>2 DEF IsTrace
    <2>6. IsTrace(u, s, y, e)
        BY <2>3, <2>4, <2>5 DEF IsTrace, N
    <2>. QED
        BY <2>6 DEF EndsIn
<1>3. ASSUME NEW u, IsTrace(u, s, y, e)
      PROVE  EndsIn(t, x, e)
    <2> DEFINE tr == [n \in 0 .. N + 1 |-> IF n = 0 THEN x ELSE u[n - 1]]
    <2>1. tr[0] = x /\ \A n \in 1 .. N + 1 : tr[n] = u[n - 1]
        BY <1>1
    <2>. HIDE DEF tr
    <2>2. ASSUME NEW n \in 1 .. N + 1
          PROVE  tr[n] = AfterFrame(t[n], tr[n - 1])
        <3>1. CASE n = 1
            <4>1. tr[1] = u[0] /\ u[0] = y /\ tr[0] = x
                BY <2>1, <1>1, <1>3 DEF IsTrace
            <4>. QED
                BY <3>1, <4>1 DEF y
        <3>2. CASE n # 1
            <4>1. n - 1 \in 1 .. N /\ n - 1 \in 1 .. N + 1
                  /\ (n - 1) + 1 = n
                BY <3>2, <1>1
            <4>2. u[n - 1] = AfterFrame(s[n - 1], u[(n - 1) - 1])
                BY <4>1, <1>3 DEF IsTrace, N
            <4>3. t[n] = s[n - 1]
                BY <4>1 DEF N
            <4>4. tr[n] = u[n - 1] /\ tr[n - 1] = u[(n - 1) - 1]
                BY <2>1, <4>1
            <4>. QED
                BY <4>2, <4>3, <4>4
        <3>. QED
            BY <3>1, <3>2
    <2>3. tr[N + 1] = e
        BY <2>1, <1>1, <1>3 DEF IsTrace, N
    <2>4. IsTrace(tr, t, x, e)
        BY <2>1, <2>2, <2>3, <1>1 DEF IsTrace
    <2>. QED
        BY <2>4 DEF EndsIn
<1>. QED
    BY <1>2, <1>3 DEF EndsIn, y

LEMMA EndsInPushed ==
    ASSUME NEW f, NEW s, IsSeq(s), NEW x, NEW e
    PROVE  /\ IsSeq(<<f>> \o s)
           /\ EndsIn(<<f>> \o s, x, e) <=> EndsIn(s, AfterFrame(f, x), e)
<1> DEFINE t == <<f>> \o s
<1>1. IsSeq(<<f>>) /\ Len(<<f>>) = 1 /\ <<f>>[1] = f
    BY SingletonIsSeq
<1>2. /\ IsSeq(t) /\ Len(t) = 1 + Len(s)
      /\ \A i \in 1 .. 1 : t[i] = <<f>>[i]
      /\ \A i \in 1 + 1 .. 1 + Len(s) : t[i] = s[i - 1]
    BY <1>1, ConcatIsSeq
<1>3. Len(s) \in Nat
    BY IsSeqProperties
<1>4. /\ Len(t) = Len(s) + 1 /\ t[1] = f
      /\ \A i \in 1 .. Len(s) : t[i + 1] = s[i]
    BY <1>1, <1>2, <1>3
<1>. HIDE DEF t
<1>5. EndsIn(t, x, e) <=> EndsIn(s, AfterFrame(t[1], x), e)
    BY <1>2, <1>4, EndsInShifted
<1>. QED
    BY <1>2, <1>4, <1>5 DEF t

LEMMA EndsInPopped ==
    ASSUME NEW t, IsSeq(t), t # <<>>, NEW x, NEW e
    PROVE  EndsIn(t, x, e) <=> EndsIn(Tail(t), AfterFrame(Head(t), x), e)
<1> DEFINE s == Tail(t)
<1>1. /\ IsSeq(s) /\ Len(t) \in Nat \ {0} /\ Len(s) = Len(t) - 1
      /\ \A i \in 1 .. Len(t) - 1 : s[i] = t[i + 1]
      /\ Head(t) = t[1]
    BY TailIsSeq
<1>2. Len(t) = Len(s) + 1 /\ \A i \in 1 .. Len(s) : t[i + 1] = s[i]
    BY <1>1
<1>. HIDE DEF s
<1>3. EndsIn(t, x, e) <=> EndsIn(s, AfterFrame(t[1], x), e)
    BY <1>1, <1>2, EndsInShifted
<1>. QED
    BY <1>1, <1>3 DEF s

\* Induction, for a set of natural numbers.
LEMMA LeastExists ==
    ASSUME NEW S, S # {}, S \subseteq Nat
    PROVE  \E n \in S : \A k \in S : n <= k
<1>1. PICK n \in S : \A k \in S : <<k, n>> \notin OpToRel(<, Nat)
    BY NatLessThanWellFounded, WFMin, Zenon
<1>2. \A k \in S : ~(k < n)
    BY <1>1 DEF OpToRel
<1>. QED
    BY <1>2

LEMMA InductionOnSets ==
    ASSUME NEW S, 0 \in S, \A n \in Nat : n \in S => n + 1 \in S
    PROVE  \A n \in Nat : n \in S
<1>1. SUFFICES ASSUME Nat \ S # {} PROVE FALSE
    OBVIOUS
<1>2. PICK n \in Nat \ S : \A k \in Nat \ S : n <= k
    BY <1>1, LeastExists
<1>3. n - 1 \in Nat /\ n - 1 \notin Nat \ S
    BY <1>2
<1>. QED
    BY <1>2, <1>3

\* A plan that has failed does nothing any more.
LEMMA StaysStopped ==
    ASSUME NEW stack, IsSeq(stack), NEW e, EndsIn(stack, Stopped, e)
    PROVE  e = Stopped
<1>1. PICK tr : IsTrace(tr, stack, Stopped, e)
    BY DEF EndsIn
<1> DEFINE S == {n \in Nat : n <= Len(stack) => tr[n] = Stopped}
<1>2. 0 \in S
    BY <1>1 DEF IsTrace
<1>3. Len(stack) \in Nat
    BY IsSeqProperties
<1>4. ASSUME NEW n \in Nat, n \in S PROVE n + 1 \in S
    <2>1. CASE n + 1 <= Len(stack)
        <3>1. n + 1 \in 1 .. Len(stack) /\ (n + 1) - 1 = n
            BY <2>1, <1>3
        <3>2. tr[n] = Stopped
            BY <2>1, <1>3, <1>4
        <3>3. tr[n + 1] = AfterFrame(stack[n + 1], tr[(n + 1) - 1])
            BY <3>1, <1>1 DEF IsTrace
        <3>4. tr[n + 1] = Stopped
            BY <3>1, <3>2, <3>3, OutcomesAre DEF AfterFrame
        <3>. QED
            BY <3>4
    <2>. QED
        BY <2>1
<1>. HIDE DEF S
<1>5. \A n \in Nat : n \in S
    BY <1>2, <1>4, InductionOnSets
<1>6. tr[Len(stack)] = Stopped
    BY <1>3, <1>5 DEF S
<1>. QED
    BY <1>1, <1>6 DEF IsTrace

-----------------------------------------------------------------------------
\* A list of items on top of a stack does what the list means.
ItemFrame(i) == [kind |-> "item", item |-> i]

LEMMA FramesAre ==
    ASSUME NEW seq \in Seq(Item)
    PROVE  /\ IsSeq(ItemFrames(seq))
           /\ Len(ItemFrames(seq)) = Len(seq) /\ Len(seq) \in Nat
           /\ \A i \in 1 .. Len(seq) : ItemFrames(seq)[i] = ItemFrame(seq[i])
<1> DEFINE new == ItemFrames(seq)
           F == {ItemFrame(i) : i \in Item}
<1>1. Len(seq) \in Nat /\ DOMAIN seq = 1 .. Len(seq)
      /\ \A i \in 1 .. Len(seq) : seq[i] \in Item
    BY LenProperties, ElementOfSeq
<1>2. new = [i \in 1 .. Len(seq) |-> ItemFrame(seq[i])]
    BY <1>1 DEF ItemFrames, ItemFrame
<1>3. new \in [1 .. Len(seq) -> F]
    BY <1>1, <1>2
<1>4. \A i \in 1 .. Len(seq) : new[i] = ItemFrame(seq[i])
    BY <1>2
<1>. HIDE DEF F, new
<1>5. new \in Seq(F) /\ Len(new) = Len(seq)
    BY <1>1, <1>3, SeqDef
<1>6. IsSeq(new)
    BY <1>5, SeqIsSeq
<1>. QED
    BY <1>1, <1>4, <1>5, <1>6 DEF new

LEMMA AfterNone ==
    ASSUME MeaningIsDefined, NEW x, IsOutcome(x)
    PROVE  AfterItems(<<>>, x) = x
<1>1. \A env, path : Meaning(<<>>, env, path) = Good(env)
    BY DEF MeaningIsDefined, MeaningOf
<1>. QED
    BY <1>1 DEF AfterItems, IsOutcome, After, Good, Going, Stopped

LEMMA AfterFirst ==
    ASSUME MeaningIsDefined, NEW seq, seq # <<>>, NEW x
    PROVE  AfterItems(seq, x)
            = AfterItems(Tail(seq), AfterFrame(ItemFrame(Head(seq)), x))
<1> DEFINE f == ItemFrame(Head(seq))
           first == ItemMeaning(Code[Head(seq)], x.env, x.path)
<1>1. Meaning(seq, x.env, x.path)
        = IF first.ok THEN Meaning(Tail(seq), first.env, x.path) ELSE Bad
    BY DEF MeaningIsDefined, MeaningOf
<1>2. AfterFrame(f, x) = IF x.ok THEN After(first, x.path) ELSE Stopped
    BY DEF AfterFrame, FrameMeaning, ItemFrame
<1>. HIDE DEF f, first
<1>3. CASE x.ok /\ first.ok
    <2>1. AfterFrame(f, x) = Going(first.env, x.path)
        BY <1>2, <1>3 DEF After
    <2>2. AfterItems(Tail(seq), AfterFrame(f, x))
            = After(Meaning(Tail(seq), first.env, x.path), x.path)
        BY <2>1, OutcomesAre DEF AfterItems
    <2>. QED
        BY <2>2, <1>1, <1>3 DEF AfterItems, f
<1>4. CASE ~(x.ok /\ first.ok)
    <2>1. AfterFrame(f, x) = Stopped
        BY <1>2, <1>4 DEF After
    <2>2. AfterItems(Tail(seq), AfterFrame(f, x)) = Stopped
        BY <2>1, OutcomesAre DEF AfterItems
    <2>3. AfterItems(seq, x) = Stopped
        BY <1>1, <1>4 DEF AfterItems, After, Bad
    <2>. QED
        BY <2>2, <2>3 DEF f
<1>. QED
    BY <1>3, <1>4

LEMMA AfterFrameIsOutcome ==
    ASSUME NEW f, NEW x
    PROVE  IsOutcome(AfterFrame(f, x))
BY OutcomesAre DEF AfterFrame

ItemsDoTheirMeaning(n) ==
    \A seq \in Seq(Item) : Len(seq) = n =>
        \A rest, x, e :
            IsSeq(rest) /\ IsOutcome(x) /\ EndsIn(rest, AfterItems(seq, x), e)
                => EndsIn(ItemFrames(seq) \o rest, x, e)

LEMMA NoItems ==
    ASSUME MeaningIsDefined
    PROVE  ItemsDoTheirMeaning(0)
<1>. SUFFICES ASSUME NEW seq \in Seq(Item), Len(seq) = 0, NEW rest, NEW x,
                     NEW e, IsSeq(rest), IsOutcome(x),
                     EndsIn(rest, AfterItems(seq, x), e)
              PROVE  EndsIn(ItemFrames(seq) \o rest, x, e)
    BY DEF ItemsDoTheirMeaning
<1>1. seq = <<>>
    BY EmptySeq
<1>2. /\ IsSeq(ItemFrames(seq)) /\ Len(ItemFrames(seq)) = 0
    BY FramesAre
<1>3. ItemFrames(seq) = <<>>
    BY <1>2, EmptySeq DEF IsSeq
<1>4. ItemFrames(seq) \o rest = rest
    BY <1>3, ConcatEmptySeq DEF IsSeq
<1>5. AfterItems(seq, x) = x
    BY <1>1, AfterNone
<1>. QED
    BY <1>4, <1>5

LEMMA OneItemMore ==
    ASSUME MeaningIsDefined, NEW n \in Nat, ItemsDoTheirMeaning(n)
    PROVE  ItemsDoTheirMeaning(n + 1)
<1>. SUFFICES ASSUME NEW seq \in Seq(Item), Len(seq) = n + 1, NEW rest, NEW x,
                     NEW e, IsSeq(rest), IsOutcome(x),
                     EndsIn(rest, AfterItems(seq, x), e)
              PROVE  EndsIn(ItemFrames(seq) \o rest, x, e)
    BY DEF ItemsDoTheirMeaning
<1> DEFINE tail == Tail(seq)
           f == ItemFrame(Head(seq))
           t == ItemFrames(seq) \o rest
           s == ItemFrames(tail) \o rest
           M == Len(rest)
<1>1. seq # <<>> /\ M \in Nat
    BY EmptySeq, IsSeqProperties
<1>2. /\ tail \in Seq(Item) /\ Len(tail) = n
      /\ \A i \in 1 .. n : tail[i] = seq[i + 1]
      /\ Head(seq) = seq[1]
    BY <1>1, HeadTailProperties
<1>. HIDE DEF tail
<1>3. /\ IsSeq(ItemFrames(seq)) /\ Len(ItemFrames(seq)) = n + 1
      /\ \A i \in 1 .. n + 1 : ItemFrames(seq)[i] = ItemFrame(seq[i])
    BY FramesAre
<1>4. /\ IsSeq(ItemFrames(tail)) /\ Len(ItemFrames(tail)) = n
      /\ \A i \in 1 .. n : ItemFrames(tail)[i] = ItemFrame(tail[i])
    BY <1>2, FramesAre
<1>5. /\ IsSeq(t) /\ Len(t) = (n + 1) + M
      /\ \A i \in 1 .. n + 1 : t[i] = ItemFrames(seq)[i]
      /\ \A i \in (n + 1) + 1 .. (n + 1) + M : t[i] = rest[i - (n + 1)]
    BY <1>3, ConcatIsSeq
<1>6. /\ IsSeq(s) /\ Len(s) = n + M
      /\ \A i \in 1 .. n : s[i] = ItemFrames(tail)[i]
      /\ \A i \in n + 1 .. n + M : s[i] = rest[i - n]
    BY <1>4, ConcatIsSeq
<1>. HIDE DEF t, s, M
<1>7. ASSUME NEW i \in 1 .. Len(s)
      PROVE  t[i + 1] = s[i]
    <2>1. CASE i <= n
        <3>1. i \in 1 .. n /\ i + 1 \in 1 .. n + 1
            BY <2>1, <1>1, <1>6
        <3>2. t[i + 1] = ItemFrame(seq[i + 1]) /\ s[i] = ItemFrame(tail[i])
            BY <3>1, <1>3, <1>4, <1>5, <1>6
        <3>. QED
            BY <3>1, <3>2, <1>2
    <2>2. CASE ~(i <= n)
        <3>1. /\ i \in n + 1 .. n + M
              /\ i + 1 \in (n + 1) + 1 .. (n + 1) + M
              /\ (i + 1) - (n + 1) = i - n
            BY <2>2, <1>1, <1>6
        <3>. QED
            BY <3>1, <1>5, <1>6
    <2>. QED
        BY <2>1, <2>2
<1>8. t[1] = f
    <2>1. 1 \in 1 .. n + 1
        OBVIOUS
    <2>. QED
        BY <2>1, <1>2, <1>3, <1>5
<1>9. AfterItems(seq, x) = AfterItems(tail, AfterFrame(f, x))
    BY <1>1, AfterFirst DEF tail
<1>10. IsOutcome(AfterFrame(f, x))
    BY AfterFrameIsOutcome
<1>. HIDE DEF f
<1>11. EndsIn(s, AfterFrame(f, x), e)
    BY <1>2, <1>9, <1>10 DEF ItemsDoTheirMeaning, s
<1>12. Len(t) = Len(s) + 1
    BY <1>1, <1>5, <1>6
<1>13. EndsIn(t, x, e)
    BY <1>5, <1>6, <1>7, <1>8, <1>11, <1>12, EndsInShifted
<1>. QED
    BY <1>13 DEF t

LEMMA EndsInItems ==
    ASSUME MeaningIsDefined, NEW seq, NEW path, InFile(seq, path), NEW rest,
           IsSeq(rest), NEW x, IsOutcome(x), NEW e,
           EndsIn(rest, AfterItems(seq, x), e)
    PROVE  EndsIn(Sequence(seq, rest), x, e)
<1> DEFINE S == {n \in Nat : ItemsDoTheirMeaning(n)}
<1>1. 0 \in S
    BY NoItems
<1>2. \A n \in Nat : n \in S => n + 1 \in S
    BY OneItemMore
<1>. HIDE DEF S
<1>3. \A n \in Nat : n \in S
    BY <1>1, <1>2, InductionOnSets
<1>4. seq \in Seq(Item) /\ Len(seq) \in Nat
    BY LenProperties DEF InFile
<1>5. ItemsDoTheirMeaning(Len(seq))
    BY <1>3, <1>4 DEF S
<1>. QED
    BY <1>4, <1>5 DEF ItemsDoTheirMeaning, Sequence

-----------------------------------------------------------------------------
\* The machine's maps are those of the reference definitions.
IsMap(f) == f = [k \in DOMAIN f |-> f[k]]

LEMMA MapsAre ==
    /\ \A env, new : OverrideItems(env, new, "ONLY_EXISTING")
                        = Updated(env, new)
    /\ \A f, new : OverrideItems(f, new, "ALL") = With(new, f)
    /\ \A f, new : OverrideItems(f, new, "ONLY_NON_EXISTING") = With(f, new)
    /\ \A env, name, d : Insert(env, name, d) = WithVariable(env, name, d)
<1>1. \A env, new : OverrideItems(env, new, "ONLY_EXISTING")
                        = Updated(env, new)
    BY DEF OverrideItems, Updated
<1>2. \A f, new : OverrideItems(f, new, "ALL") = With(new, f)
    <2>1. TAKE f, new
    <2>2. DOMAIN f \cup DOMAIN new = DOMAIN new \cup DOMAIN f
        OBVIOUS
    <2>. QED
        BY <2>2 DEF OverrideItems, With
<1>3. \A f, new : OverrideItems(f, new, "ONLY_NON_EXISTING") = With(f, new)
    <2>1. TAKE f, new
    <2>2. OverrideItems(f, new, "ONLY_NON_EXISTING")
            = [k \in DOMAIN f \cup DOMAIN new |->
                IF k \in DOMAIN new /\ k \notin DOMAIN f THEN new[k] ELSE f[k]]
        BY DEF OverrideItems
    <2>3. \A k \in DOMAIN f \cup DOMAIN new :
            (IF k \in DOMAIN new /\ k \notin DOMAIN f THEN new[k] ELSE f[k])
                = IF k \in DOMAIN f THEN f[k] ELSE new[k]
        OBVIOUS
    <2>. QED
        BY <2>2, <2>3 DEF With
<1>. QED
    BY <1>1, <1>2, <1>3 DEF Insert, WithVariable

LEMMA MadeMaps ==
    /\ \A env, new : IsMap(Updated(env, new)) /\ IsMap(With(new, env))
    /\ \A env, name, d : IsMap(WithVariable(env, name, d))
    /\ \A values : IsMap(Items(values))
BY DEF IsMap, Updated, With, WithVariable, Items

-----------------------------------------------------------------------------
\* A step of a plan that was to end with the outcome e: it still is.
Now(p) == Going(items[p], filePath[p])

KeepsMeaning(p, e) ==
    \/ \E stack, map, path :
        /\ Continue(p, stack, map, path)
        /\ EndsIn(stack, Going(map, path), e)
        /\ map = items[p] \/ IsMap(map)
    \/ Fail(p) /\ e = Stopped

\* What the frame on top means, and then the rest.
LEMMA MeaningOnTop ==
    ASSUME PathInv, NEW p \in Live, todo[p] # <<>>, NEW e,
           EndsIn(todo[p], Now(p), e)
    PROVE  /\ IsSeq(Rest(p))
           /\ EndsIn(Rest(p), After(FrameMeaning(Top(p), items[p],
                                                 filePath[p]),
                                    IF Top(p).kind = "return" THEN Top(p).path
                                    ELSE filePath[p]), e)
<1>1. IsSeq(Rest(p))
    BY OnTop
<1>2. EndsIn(Rest(p), AfterFrame(Top(p), Now(p)), e)
    BY EndsInPopped DEF PathInv, Top, Rest
<1>3. AfterFrame(Top(p), Now(p))
        = After(FrameMeaning(Top(p), items[p], filePath[p]),
                IF Top(p).kind = "return" THEN Top(p).path ELSE filePath[p])
    BY OutcomesAre DEF AfterFrame, Now
<1>. QED
    BY <1>1, <1>2, <1>3

LEMMA FailedMeans ==
    ASSUME NEW p, Fail(p), NEW rest, IsSeq(rest), NEW path, NEW e,
           EndsIn(rest, After(Bad, path), e)
    PROVE  KeepsMeaning(p, e)
<1>1. After(Bad, path) = Stopped
    BY DEF After, Bad
<1>. QED
    BY <1>1, StaysStopped DEF KeepsMeaning

\* A list of items in the place of the frame on top.
LEMMA UnfoldedMeans ==
    ASSUME MeaningIsDefined, NEW p, NEW seq, NEW path, InFile(seq, path),
           NEW rest, IsSeq(rest), NEW map, map = items[p] \/ IsMap(map),
           Continue(p, Sequence(seq, rest), map, path), NEW e,
           EndsIn(rest, After(Meaning(seq, map, path), path), e)
    PROVE  KeepsMeaning(p, e)
<1>1. IsOutcome(Going(map, path))
    BY OutcomesAre
<1>2. AfterItems(seq, Going(map, path)) = After(Meaning(seq, map, path), path)
    BY OutcomesAre DEF AfterItems
<1>3. EndsIn(Sequence(seq, rest), Going(map, path), e)
    BY <1>1, <1>2, EndsInItems
<1>. QED
    BY <1>3 DEF KeepsMeaning

\* Another frame in its place.
LEMMA ReplacedMeans ==
    ASSUME NEW p, NEW f, NEW rest, IsSeq(rest), NEW map,
           map = items[p] \/ IsMap(map), NEW path, f.kind # "return",
           Continue(p, <<f>> \o rest, map, path), NEW e,
           EndsIn(rest, After(FrameMeaning(f, map, path), path), e)
    PROVE  KeepsMeaning(p, e)
<1>1. AfterFrame(f, Going(map, path)) = After(FrameMeaning(f, map, path), path)
    BY OutcomesAre DEF AfterFrame
<1>2. EndsIn(<<f>> \o rest, Going(map, path), e)
    BY <1>1, EndsInPushed
<1>. QED
    BY <1>2 DEF KeepsMeaning

\* Nothing in its place.
LEMMA DroppedMeans ==
    ASSUME NEW p, NEW rest, NEW map, map = items[p] \/ IsMap(map), NEW path,
           Continue(p, rest, map, path), NEW e,
           EndsIn(rest, After(Good(map), path), e)
    PROVE  KeepsMeaning(p, e)
<1>1. After(Good(map), path) = Going(map, path)
    BY DEF After, Good, Going
<1>. QED
    BY <1>1 DEF KeepsMeaning

\* A called tree: its items, and then the return frame.
LEMMA CallMeans ==
    ASSUME NEW path, NEW values, NEW env, NEW back, NEW frame,
           NEW given, given = With(FillInputValueItemMap(values, env),
                                   Tree[path].values),
           frame = [kind |-> "return", values |-> given, backup |-> env,
                    path |-> back],
           CanFillInput(values, env), CheckItems(Items(given)) = {}
    PROVE  AfterFrame(frame, AfterItems(Tree[path].childs,
                                        Going(Items(given), path)))
            = After(CallMeaning(path, values, env), back)
<1> DEFINE called == Meaning(Tree[path].childs, Items(given), path)
<1>1. ~\E k \in DOMAIN given : given[k].item = Uninitialized
    BY DEF CheckItems, Items
<1>2. CallMeaning(path, values, env)
        = IF \/ ~called.ok
             \/ \E k \in Outputs(given) :
                    NameIn(given[k].item) \notin DOMAIN called.env
          THEN Bad
          ELSE Good(Updated(env, Items(FillOutputValueItemMap(given,
                                                        called.env))))
    BY <1>1 DEF CallMeaning
<1>3. AfterItems(Tree[path].childs, Going(Items(given), path))
        = After(called, path)
    BY OutcomesAre DEF AfterItems
<1>. HIDE DEF called
<1>4. /\ frame.kind = "return" /\ frame.values = given
      /\ frame.backup = env /\ frame.path = back
    OBVIOUS
<1>5. CASE called.ok
    <2>1. After(called, path) = Going(called.env, path)
        BY <1>5 DEF After
    <2>2. AfterFrame(frame, Going(called.env, path))
            = After(Returned(frame, called.env), back)
        BY <1>4, OutcomesAre DEF AfterFrame, FrameMeaning
    <2>3. CanFillOutput(given, called.env)
            <=> ~\E k \in Outputs(given) :
                    NameIn(given[k].item) \notin DOMAIN called.env
        BY DEF CanFillOutput, Available
    <2>4. Returned(frame, called.env) = CallMeaning(path, values, env)
        BY <1>2, <1>4, <1>5, <2>3 DEF Returned
    <2>. QED
        BY <1>3, <2>1, <2>2, <2>4
<1>6. CASE ~called.ok
    <2>1. After(called, path) = Stopped
        BY <1>6 DEF After
    <2>2. AfterFrame(frame, Stopped) = Stopped
        BY OutcomesAre DEF AfterFrame
    <2>3. After(CallMeaning(path, values, env), back) = Stopped
        BY <1>2, <1>6 DEF After, Bad
    <2>. QED
        BY <1>3, <2>1, <2>2, <2>3
<1>. QED
    BY <1>5, <1>6

LEMMA CalledMeans ==
    ASSUME MeaningIsDefined, PathInv, NEW p \in Live, todo[p] # <<>>,
           NEW path \in DOMAIN Tree, NEW values,
           RunSubtreeCall(p, path, values), NEW e,
           EndsIn(Rest(p), After(CallMeaning(path, values, items[p]),
                                 filePath[p]), e)
    PROVE  KeepsMeaning(p, e)
<1> DEFINE given == With(FillInputValueItemMap(values, items[p]),
                         Tree[path].values)
           frame == [kind |-> "return", values |-> given,
                     backup |-> items[p], path |-> filePath[p]]
           below == <<frame>> \o Rest(p)
           x == Going(Items(given), path)
<1>1. IsSeq(Rest(p))
    BY OnTop
<1>2. OverrideItems(Tree[path].values,
                    FillInputValueItemMap(values, items[p]), "ALL") = given
    BY MapsAre
<1>3. CASE CanFillInput(values, items[p]) /\ CheckItems(Items(given)) = {}
    <2>1. Continue(p, Sequence(Tree[path].childs, below), Items(given), path)
        BY <1>2, <1>3 DEF RunSubtreeCall
    <2>2. InFile(Tree[path].childs, path)
        BY ScriptAssumption
    <2>3. AfterFrame(frame, AfterItems(Tree[path].childs, x))
            = After(CallMeaning(path, values, items[p]), filePath[p])
        BY <1>3, CallMeans
    <2>4. IsSeq(below) /\ EndsIn(below, AfterItems(Tree[path].childs, x), e)
        <3>. HIDE DEF frame
        <3>. QED
            BY <1>1, <2>3, EndsInPushed
    <2>5. IsOutcome(x) /\ IsMap(Items(given))
        BY OutcomesAre, MadeMaps
    <2>. HIDE DEF below, given
    <2>6. EndsIn(Sequence(Tree[path].childs, below), x, e)
        BY <2>2, <2>4, <2>5, EndsInItems
    <2>. QED
        BY <2>1, <2>5, <2>6 DEF KeepsMeaning
<1>4. CASE ~(CanFillInput(values, items[p]) /\ CheckItems(Items(given)) = {})
    <2>1. Fail(p)
        BY <1>2, <1>4 DEF RunSubtreeCall
    <2>2. CallMeaning(path, values, items[p]) = Bad
        <3>1. CASE ~CanFillInput(values, items[p])
            BY <3>1 DEF CallMeaning
        <3>2. CASE CheckItems(Items(given)) # {}
            <4>1. \E k \in DOMAIN given : given[k].item = Uninitialized
                BY <3>2 DEF CheckItems, Items
            <4>. QED
                BY <4>1 DEF CallMeaning
        <3>. QED
            BY <3>1, <3>2, <1>4
    <2>. QED
        BY <1>1, <2>1, <2>2, FailedMeans
<1>. QED
    BY <1>3, <1>4

-----------------------------------------------------------------------------
\* Every step of a plan but those that spawn others.

LEMMA ItemOnTopMeans ==
    ASSUME PathInv, NEW p, NEW kind, At(p, kind), NEW e,
           EndsIn(todo[p], Now(p), e)
    PROVE  /\ p \in Live /\ status[p] = "run" /\ todo[p] # <<>>
           /\ Top(p).kind = "item" /\ Current(p).kind = kind
           /\ IsSeq(Rest(p))
           /\ EndsIn(Rest(p), After(ItemMeaning(Current(p), items[p],
                                                filePath[p]),
                                    filePath[p]), e)
<1>1. /\ p \in Live /\ status[p] = "run" /\ todo[p] # <<>>
      /\ Top(p).kind = "item" /\ Current(p).kind = kind
    BY DEF At, Current
<1>2. FrameMeaning(Top(p), items[p], filePath[p])
        = ItemMeaning(Current(p), items[p], filePath[p])
    BY <1>1 DEF FrameMeaning, Current
<1>. QED
    BY <1>1, <1>2, MeaningOnTop

LEMMA FrameOnTopMeans ==
    ASSUME PathInv, NEW p, NEW kind, kind # "return", AtFrame(p, kind), NEW e,
           EndsIn(todo[p], Now(p), e)
    PROVE  /\ p \in Live /\ status[p] = "run" /\ todo[p] # <<>>
           /\ Top(p).kind = kind /\ IsSeq(Rest(p))
           /\ EndsIn(Rest(p), After(FrameMeaning(Top(p), items[p],
                                                 filePath[p]),
                                    filePath[p]), e)
<1>1. /\ p \in Live /\ status[p] = "run" /\ todo[p] # <<>>
      /\ Top(p).kind = kind
    BY DEF AtFrame
<1>. QED
    BY <1>1, MeaningOnTop

LEMMA SubtreeMeans ==
    ASSUME MeaningIsDefined, PathInv, NEW p, ProcessSubtree(p), NEW e,
           EndsIn(todo[p], Now(p), e)
    PROVE  KeepsMeaning(p, e)
<1> DEFINE path == GetRelativePath(filePath[p], Current(p).name)
<1>1. At(p, "subtree")
    BY DEF ProcessSubtree
<1>2. /\ p \in Live /\ todo[p] # <<>> /\ Current(p).kind = "subtree"
      /\ IsSeq(Rest(p))
      /\ EndsIn(Rest(p), After(ItemMeaning(Current(p), items[p], filePath[p]),
                               filePath[p]), e)
    BY <1>1, ItemOnTopMeans
<1>3. ItemMeaning(Current(p), items[p], filePath[p])
        = IF path \in DOMAIN Tree
          THEN CallMeaning(path, Current(p).values, items[p]) ELSE Bad
    BY <1>2 DEF ItemMeaning, GetRelativePath
<1>4. IF path \in DOMAIN Tree THEN RunSubtreeCall(p, path, Current(p).values)
      ELSE Fail(p)
    BY DEF ProcessSubtree
<1>. HIDE DEF path
<1>5. CASE path \in DOMAIN Tree
    BY <1>2, <1>3, <1>4, <1>5, CalledMeans
<1>6. CASE path \notin DOMAIN Tree
    BY <1>2, <1>3, <1>4, <1>6, FailedMeans
<1>. QED
    BY <1>5, <1>6

LEMMA ReturnMeans ==
    ASSUME PathInv, NEW p, ReturnFromSubtree(p), NEW e,
           EndsIn(todo[p], Now(p), e)
    PROVE  KeepsMeaning(p, e)
<1> DEFINE f == Top(p)
           written == FillOutputValueItemMap(f.values, items[p])
           map == Updated(f.backup, Items(written))
<1>1. p \in Live /\ todo[p] # <<>> /\ f.kind = "return"
    BY DEF ReturnFromSubtree, AtFrame
<1>2. /\ IsSeq(Rest(p))
      /\ EndsIn(Rest(p), After(FrameMeaning(f, items[p], filePath[p]),
                               f.path), e)
    BY <1>1, MeaningOnTop
<1>3. FrameMeaning(f, items[p], filePath[p]) = Returned(f, items[p])
    BY <1>1 DEF FrameMeaning
<1>4. OverrideItems(f.backup, Items(written), "ONLY_EXISTING") = map
    BY MapsAre
<1>5. CASE CanFillOutput(f.values, items[p])
    <2>1. Continue(p, Rest(p), map, f.path)
        BY <1>4, <1>5 DEF ReturnFromSubtree
    <2>2. Returned(f, items[p]) = Good(map)
        BY <1>5 DEF Returned
    <2>3. IsMap(map)
        BY MadeMaps
    <2>. HIDE DEF f, map
    <2>. QED
        BY <1>2, <1>3, <2>1, <2>2, <2>3, DroppedMeans
<1>6. CASE ~CanFillOutput(f.values, items[p])
    <2>1. Fail(p)
        BY <1>6 DEF ReturnFromSubtree
    <2>2. Returned(f, items[p]) = Bad
        BY <1>6 DEF Returned
    <2>. HIDE DEF f
    <2>. QED
        BY <1>2, <1>3, <2>1, <2>2, FailedMeans
<1>. QED
    BY <1>5, <1>6

LEMMA GroupMeans ==
    ASSUME PathInv, NEW p, ProcessBlossomGroup(p), NEW e,
           EndsIn(todo[p], Now(p), e)
    PROVE  KeepsMeaning(p, e)
<1> DEFINE f == Blossoms(Current(p).values, Current(p).blossoms)
           named == Convert(Current(p).name, items[p]).ok
<1>1. /\ At(p, "group")
      /\ IF named THEN Continue(p, <<f>> \o Rest(p), items[p], filePath[p])
         ELSE Fail(p)
    BY DEF ProcessBlossomGroup
<1>2. /\ Current(p).kind = "group" /\ IsSeq(Rest(p))
      /\ EndsIn(Rest(p), After(ItemMeaning(Current(p), items[p], filePath[p]),
                               filePath[p]), e)
    BY <1>1, ItemOnTopMeans
<1>3. f.kind = "group" /\ f.blossoms = Current(p).blossoms
      /\ f.values = Current(p).values
    BY DEF Blossoms
<1>4. ItemMeaning(Current(p), items[p], filePath[p])
        = IF named THEN GroupMeaning(Current(p).blossoms, Current(p).values,
                                     items[p])
          ELSE Bad
    BY <1>2 DEF ItemMeaning
<1>. HIDE DEF f, named
<1>5. CASE named
    <2>1. FrameMeaning(f, items[p], filePath[p])
            = ItemMeaning(Current(p), items[p], filePath[p])
        BY <1>3, <1>4, <1>5 DEF FrameMeaning
    <2>. QED
        BY <1>1, <1>2, <1>3, <1>5, <2>1, ReplacedMeans
<1>6. CASE ~named
    BY <1>1, <1>2, <1>4, <1>6, FailedMeans
<1>. QED
    BY <1>5, <1>6

\* The frame of a group, and what its blossoms mean.
LEMMA GroupOnTop ==
    ASSUME MeaningIsDefined, PathInv, NEW p, AtFrame(p, "group"), NEW e,
           EndsIn(todo[p], Now(p), e)
    PROVE  /\ p \in Live /\ todo[p] # <<>> /\ IsSeq(Rest(p))
           /\ EndsIn(Rest(p), After(GroupMeaningOf(Top(p).blossoms,
                                                   Top(p).values, items[p]),
                                    filePath[p]), e)
<1>1. /\ p \in Live /\ todo[p] # <<>> /\ IsSeq(Rest(p))
      /\ Top(p).kind = "group"
      /\ EndsIn(Rest(p), After(FrameMeaning(Top(p), items[p], filePath[p]),
                               filePath[p]), e)
    BY FrameOnTopMeans
<1>2. FrameMeaning(Top(p), items[p], filePath[p])
        = GroupMeaningOf(Top(p).blossoms, Top(p).values, items[p])
    BY <1>1 DEF FrameMeaning, MeaningIsDefined
<1>. QED
    BY <1>1, <1>2

LEMMA BlossomMeans ==
    ASSUME MeaningIsDefined, PathInv, NEW p, ProcessBlossom(p), NEW e,
           EndsIn(todo[p], Now(p), e)
    PROVE  KeepsMeaning(p, e)
<1> DEFINE blossom == Head(Top(p).blossoms)
           values == With(blossom.values, Top(p).values)
           filled == FillInputValueItemMap(values, items[p])
           grown == Grow(blossom.type, Items(filled))
           written == FillOutputValueItemMap(filled, grown.output)
           map == Updated(items[p], Items(written))
           f == Blossoms(Top(p).values, Tail(Top(p).blossoms))
<1>1. AtFrame(p, "group") /\ Top(p).blossoms # <<>>
      /\ blossom.type \notin DOMAIN Resource
    BY DEF ProcessBlossom
<1>2. /\ IsSeq(Rest(p))
      /\ EndsIn(Rest(p), After(GroupMeaningOf(Top(p).blossoms, Top(p).values,
                                              items[p]),
                               filePath[p]), e)
    BY <1>1, GroupOnTop
<1>3. GroupMeaningOf(Top(p).blossoms, Top(p).values, items[p])
        = IF ~CanFillInput(values, items[p]) \/ ~grown.ok THEN Bad
          ELSE GroupMeaning(Tail(Top(p).blossoms), Top(p).values, map)
    BY <1>1 DEF GroupMeaningOf
<1>4. /\ OverrideItems(blossom.values, Top(p).values, "ONLY_NON_EXISTING")
            = values
      /\ OverrideItems(items[p], Items(written), "ONLY_EXISTING") = map
    BY MapsAre
<1>5. IF CanFillInput(values, items[p]) /\ grown.ok
      THEN Continue(p, <<f>> \o Rest(p), map, filePath[p])
      ELSE Fail(p)
    BY <1>4, Zenon DEF ProcessBlossom
<1>6. /\ f.kind = "group" /\ f.values = Top(p).values
      /\ f.blossoms = Tail(Top(p).blossoms)
    BY DEF Blossoms
<1>7. IsMap(map)
    BY MadeMaps
<1>. HIDE DEF f, map, grown, values
<1>8. FrameMeaning(f, map, filePath[p])
        = GroupMeaning(Tail(Top(p).blossoms), Top(p).values, map)
    BY <1>6 DEF FrameMeaning
<1>9. CASE CanFillInput(values, items[p]) /\ grown.ok
    <2>1. EndsIn(Rest(p), After(FrameMeaning(f, map, filePath[p]),
                                filePath[p]), e)
        BY <1>2, <1>3, <1>8, <1>9
    <2>. QED
        BY <1>2, <1>5, <1>6, <1>7, <1>9, <2>1, ReplacedMeans
<1>10. CASE ~(CanFillInput(values, items[p]) /\ grown.ok)
    <2>1. EndsIn(Rest(p), After(Bad, filePath[p]), e)
        BY <1>2, <1>3, <1>10
    <2>. QED
        BY <1>2, <1>5, <1>10, <2>1, FailedMeans
<1>. QED
    BY <1>9, <1>10

LEMMA ResourceMeans ==
    ASSUME MeaningIsDefined, PathInv, NEW p, ProcessResource(p), NEW e,
           EndsIn(todo[p], Now(p), e)
    PROVE  KeepsMeaning(p, e)
<1> DEFINE type == Head(Top(p).blossoms).type
<1>1. AtFrame(p, "group") /\ Top(p).blossoms # <<>>
      /\ type \in DOMAIN Resource
      /\ RunSubtreeCall(p, Resource[type], Top(p).values)
    BY DEF ProcessResource
<1>2. /\ p \in Live /\ todo[p] # <<>> /\ IsSeq(Rest(p))
      /\ EndsIn(Rest(p), After(GroupMeaningOf(Top(p).blossoms, Top(p).values,
                                              items[p]),
                               filePath[p]), e)
    BY <1>1, GroupOnTop
<1>3. GroupMeaningOf(Top(p).blossoms, Top(p).values, items[p])
        = CallMeaning(Resource[type], Top(p).values, items[p])
    BY <1>1 DEF GroupMeaningOf
<1>. HIDE DEF type
<1>4. Resource[type] \in DOMAIN Tree
    BY <1>1, ScriptAssumption
<1>. QED
    BY <1>1, <1>2, <1>3, <1>4, CalledMeans

LEMMA GroupEndMeans ==
    ASSUME MeaningIsDefined, PathInv, NEW p, EndBlossomGroup(p), NEW e,
           EndsIn(todo[p], Now(p), e)
    PROVE  KeepsMeaning(p, e)
<1>1. AtFrame(p, "group") /\ Top(p).blossoms = <<>>
      /\ Continue(p, Rest(p), items[p], filePath[p])
    BY DEF EndBlossomGroup
<1>2. EndsIn(Rest(p), After(GroupMeaningOf(Top(p).blossoms, Top(p).values,
                                           items[p]),
                            filePath[p]), e)
    BY <1>1, GroupOnTop
<1>3. GroupMeaningOf(Top(p).blossoms, Top(p).values, items[p])
        = Good(items[p])
    BY <1>1 DEF GroupMeaningOf
<1>. QED
    BY <1>1, <1>2, <1>3, DroppedMeans

LEMMA IfMeans ==
    ASSUME MeaningIsDefined, PathInv, NEW p, ProcessIf(p), NEW e,
           EndsIn(todo[p], Now(p), e)
    PROVE  KeepsMeaning(p, e)
<1> DEFINE c == Current(p)
           same == Text(FillValueItem(c.leftSide, items[p]).item)
                    = Text(FillValueItem(c.rightSide, items[p]).item)
           content == IF same = c.equal THEN c.ifContent ELSE c.elseContent
           can == CanFill(c.leftSide, items[p])
                    /\ CanFill(c.rightSide, items[p])
<1>1. At(p, "if")
    BY DEF ProcessIf
<1>2. /\ p \in Live /\ todo[p] # <<>> /\ Top(p).kind = "item"
      /\ c.kind = "if" /\ IsSeq(Rest(p))
      /\ EndsIn(Rest(p), After(ItemMeaning(c, items[p], filePath[p]),
                               filePath[p]), e)
    BY <1>1, ItemOnTopMeans
<1>3. /\ InFile(c.ifContent, filePath[p])
      /\ InFile(c.elseContent, filePath[p])
    BY <1>2, ItemOnTop DEF Owned
<1>4. InFile(content, filePath[p])
    BY <1>3, Zenon
<1>5. ItemMeaning(c, items[p], filePath[p])
        = IfMeaning(c, items[p], filePath[p])
    BY <1>2 DEF ItemMeaning
<1>6. can => IfMeaning(c, items[p], filePath[p])
                = Meaning(content, items[p], filePath[p])
    BY Zenon DEF IfMeaning
<1>7. ~can => IfMeaning(c, items[p], filePath[p]) = Bad
    BY Zenon DEF IfMeaning
<1>8. can => Continue(p, Sequence(content, Rest(p)), items[p], filePath[p])
    BY Zenon DEF ProcessIf
<1>9. ~can => Fail(p)
    BY Zenon DEF ProcessIf
<1>. HIDE DEF content, can, c
<1>10. CASE can
    BY <1>2, <1>4, <1>5, <1>6, <1>8, <1>10, UnfoldedMeans
<1>11. CASE ~can
    BY <1>2, <1>5, <1>7, <1>9, <1>11, FailedMeans
<1>. QED
    BY <1>10, <1>11

LEMMA LoopMeans ==
    ASSUME MeaningIsDefined, PathInv, NEW p, RunLoop(p), NEW e,
           EndsIn(todo[p], Now(p), e)
    PROVE  KeepsMeaning(p, e)
<1> DEFINE c == Current(p)
           f == Loop(Top(p).item, Iterations(c, items[p]), items[p])
           map == With(Items(c.values), items[p])
           looped == LoopMeaning(c, Iterations(c, items[p]), map, filePath[p])
<1>1. PICK kind \in {"for", "foreach"} : At(p, kind)
    BY DEF RunLoop
<1>2. ~c.parallel
    BY DEF RunLoop
<1>3. /\ c.kind = kind /\ IsSeq(Rest(p))
      /\ EndsIn(Rest(p), After(ItemMeaning(c, items[p], filePath[p]),
                               filePath[p]), e)
    BY <1>1, ItemOnTopMeans
<1>4. OverrideItems(items[p], Items(c.values), "ALL") = map
    BY MapsAre
<1>5. IF CanIterate(c, items[p])
      THEN Continue(p, <<f>> \o Rest(p), map, filePath[p])
      ELSE Fail(p)
    BY <1>4 DEF RunLoop
<1>6. ItemMeaning(c, items[p], filePath[p])
        = IF ~CanIterate(c, items[p]) THEN Bad
          ELSE IF looped.ok THEN Good(Updated(items[p], looped.env)) ELSE Bad
    BY <1>2, <1>3 DEF ItemMeaning
<1>7. /\ f.kind = "loop" /\ f.item = Top(p).item /\ f.backup = items[p]
      /\ f.left = Iterations(c, items[p])
    BY DEF Loop
<1>8. Code[f.item] = c
    BY <1>7 DEF Current
<1>9. IsMap(map)
    BY MadeMaps
<1>10. FrameMeaning(f, map, filePath[p])
        = IF looped.ok THEN Good(Updated(items[p], looped.env)) ELSE Bad
    BY <1>7, <1>8 DEF FrameMeaning, Looped
<1>. HIDE DEF c, f, map, looped
<1>11. CASE CanIterate(c, items[p])
    <2>1. EndsIn(Rest(p), After(FrameMeaning(f, map, filePath[p]),
                                filePath[p]), e)
        BY <1>3, <1>6, <1>10, <1>11
    <2>. QED
        BY <1>3, <1>5, <1>7, <1>9, <1>11, <2>1, ReplacedMeans
<1>12. CASE ~CanIterate(c, items[p])
    BY <1>3, <1>5, <1>6, <1>12, FailedMeans
<1>. QED
    BY <1>11, <1>12

\* The frame of a loop, and what its iterations mean.
LEMMA LoopOnTop ==
    ASSUME MeaningIsDefined, PathInv, NEW p, AtFrame(p, "loop"), NEW e,
           EndsIn(todo[p], Now(p), e), NEW looped,
           looped = LoopMeaningOf(Current(p), Top(p).left, items[p],
                                  filePath[p])
    PROVE  /\ p \in Live /\ todo[p] # <<>> /\ Top(p).kind = "loop"
           /\ IsSeq(Rest(p))
           /\ EndsIn(Rest(p), After(IF looped.ok
                                    THEN Good(Updated(Top(p).backup,
                                                      looped.env))
                                    ELSE Bad,
                                    filePath[p]), e)
<1>1. /\ p \in Live /\ todo[p] # <<>> /\ IsSeq(Rest(p))
      /\ Top(p).kind = "loop"
      /\ EndsIn(Rest(p), After(FrameMeaning(Top(p), items[p], filePath[p]),
                               filePath[p]), e)
    BY FrameOnTopMeans
<1>2. LoopMeaning(Code[Top(p).item], Top(p).left, items[p], filePath[p])
        = looped
    BY DEF MeaningIsDefined, Current
<1>3. FrameMeaning(Top(p), items[p], filePath[p])
        = IF looped.ok THEN Good(Updated(Top(p).backup, looped.env)) ELSE Bad
    BY <1>1, <1>2 DEF FrameMeaning, Looped
<1>. QED
    BY <1>1, <1>3

LEMMA IterationMeans ==
    ASSUME MeaningIsDefined, PathInv, NEW p, NextIteration(p), NEW e,
           EndsIn(todo[p], Now(p), e)
    PROVE  KeepsMeaning(p, e)
<1> DEFINE c == Current(p)
           path == filePath[p]
           map == WithVariable(items[p], c.tempVarName, Head(Top(p).left))
           once == Meaning(c.content, map, path)
           again == LoopMeaning(c, Tail(Top(p).left), once.env, path)
           looped == LoopMeaningOf(c, Top(p).left, items[p], path)
           f == Loop(Top(p).item, Tail(Top(p).left), Top(p).backup)
           below == <<f>> \o Rest(p)
<1>1. AtFrame(p, "loop") /\ Top(p).left # <<>>
    BY DEF NextIteration
<1>2. Insert(items[p], c.tempVarName, Head(Top(p).left)) = map
    BY MapsAre
<1>3. Continue(p, Sequence(c.content, below), map, path)
    BY <1>2, Zenon DEF NextIteration
<1>4. /\ p \in Live /\ todo[p] # <<>> /\ Top(p).kind = "loop"
      /\ IsSeq(Rest(p))
      /\ EndsIn(Rest(p), After(IF looped.ok
                               THEN Good(Updated(Top(p).backup, looped.env))
                               ELSE Bad, path), e)
    BY <1>1, LoopOnTop
<1>5. looped = IF ~once.ok THEN Bad ELSE again
    BY <1>1 DEF LoopMeaningOf
<1>6. /\ f.kind = "loop" /\ f.item = Top(p).item
      /\ f.left = Tail(Top(p).left) /\ f.backup = Top(p).backup
    BY DEF Loop
<1>7. Code[f.item] = c
    BY <1>6 DEF Current
<1>8. IsMap(map) /\ IsOutcome(Going(map, path))
    BY MadeMaps, OutcomesAre
<1>9. Belongs(Top(p)) /\ c.kind \in {"for", "foreach"}
    BY <1>4, OnTop DEF Owned, Belongs, Current
<1>10. InFile(c.content, path)
    BY <1>4, <1>9, ItemOnTop DEF Owned
<1>11. AfterItems(c.content, Going(map, path)) = After(once, path)
    BY OutcomesAre DEF AfterItems
<1>12. \A env : FrameMeaning(f, env, path)
                = LET l == LoopMeaning(c, Tail(Top(p).left), env, path)
                  IN IF l.ok THEN Good(Updated(Top(p).backup, l.env)) ELSE Bad
    BY <1>6, <1>7 DEF FrameMeaning, Looped
<1>. HIDE DEF c, map, f, path
<1>13. AfterFrame(f, After(once, path))
        = After(IF looped.ok THEN Good(Updated(Top(p).backup, looped.env))
                ELSE Bad, path)
    <2>1. CASE once.ok
        <3>1. After(once, path) = Going(once.env, path) /\ looped = again
            BY <1>5, <2>1 DEF After
        <3>2. FrameMeaning(f, once.env, path)
                = IF again.ok THEN Good(Updated(Top(p).backup, again.env))
                  ELSE Bad
            BY <1>12
        <3>3. AfterFrame(f, Going(once.env, path))
                = After(FrameMeaning(f, once.env, path), path)
            BY <1>6, OutcomesAre DEF AfterFrame
        <3>. HIDE DEF once, again, looped
        <3>. QED
            BY <3>1, <3>2, <3>3
    <2>2. CASE ~once.ok
        <3>1. After(once, path) = Stopped /\ looped = Bad
            BY <1>5, <2>2 DEF After
        <3>. HIDE DEF once, again, looped
        <3>2. ~looped.ok
            BY <3>1 DEF Bad
        <3>3. After(Bad, path) = Stopped
            BY DEF After, Bad
        <3>4. AfterFrame(f, Stopped) = Stopped
            BY OutcomesAre DEF AfterFrame
        <3>. QED
            BY <3>1, <3>2, <3>3, <3>4
    <2>. QED
        BY <2>1, <2>2
<1>14. IsSeq(below)
       /\ EndsIn(below, AfterItems(c.content, Going(map, path)), e)
    BY <1>4, <1>11, <1>13, EndsInPushed
<1>. HIDE DEF below
<1>15. EndsIn(Sequence(c.content, below), Going(map, path), e)
    BY <1>8, <1>10, <1>14, EndsInItems
<1>. QED
    BY <1>3, <1>8, <1>15 DEF KeepsMeaning

LEMMA LoopEndMeans ==
    ASSUME MeaningIsDefined, PathInv, NEW p, EndLoop(p), NEW e,
           EndsIn(todo[p], Now(p), e)
    PROVE  KeepsMeaning(p, e)
<1> DEFINE map == Updated(Top(p).backup, items[p])
           looped == LoopMeaningOf(Current(p), Top(p).left, items[p],
                                   filePath[p])
<1>1. AtFrame(p, "loop") /\ Top(p).left = <<>>
      /\ Continue(p, Rest(p), map, filePath[p])
    BY MapsAre DEF EndLoop
<1>2. EndsIn(Rest(p), After(IF looped.ok
                            THEN Good(Updated(Top(p).backup, looped.env))
                            ELSE Bad, filePath[p]), e)
    BY <1>1, LoopOnTop
<1>3. looped = Good(items[p])
    BY <1>1 DEF LoopMeaningOf
<1>4. looped.ok /\ looped.env = items[p]
    BY <1>3 DEF Good
<1>5. IsMap(map)
    BY MadeMaps
<1>6. EndsIn(Rest(p), After(Good(map), filePath[p]), e)
    BY <1>2, <1>4
<1>. HIDE DEF map
<1>. QED
    BY <1>1, <1>5, <1>6, DroppedMeans

\* What a plan does on its own, without others.
StepsAlone(p) ==
    \/ ProcessSubtree(p) \/ ReturnFromSubtree(p)
    \/ ProcessBlossomGroup(p) \/ EndBlossomGroup(p)
    \/ ProcessBlossom(p) \/ ProcessResource(p)
    \/ ProcessIf(p)
    \/ RunLoop(p) \/ NextIteration(p) \/ EndLoop(p)

LEMMA AloneMeans ==
    ASSUME MeaningIsDefined, PathInv, NEW p, StepsAlone(p), NEW e,
           EndsIn(todo[p], Now(p), e)
    PROVE  KeepsMeaning(p, e)
BY SubtreeMeans, ReturnMeans, GroupMeans, GroupEndMeans, BlossomMeans,
   ResourceMeans, IfMeans, LoopMeans, IterationMeans, LoopEndMeans
   DEF StepsAlone

-----------------------------------------------------------------------------
\* Plans and the children they wait for.

\* What the child plans of p end with, by their numbers.
EndsOfChilds(fate, p) == [i \in Numbers(p) |-> fate[Append(p, i)]]

\* What a plan goes on with after it has waited for plans that end with ends.
JoinMeaning(frame, ends, env, path) ==
    LET aggregated == Aggregate(frame.values,
                                [i \in DOMAIN ends |-> ends[i].env])
    IN IF (\E i \in DOMAIN ends : ~ends[i].ok)
            \/ (frame.loop /\ ~aggregated.ok)
       THEN Stopped
       ELSE IF DOMAIN ends = {} THEN Going(env, path)
       ELSE IF frame.loop
       THEN Going(Updated(env, Items(aggregated.values)), path)
       ELSE Going(Last(ends).env, path)

\* p is on the way to fate[p].
Explains(fate, p) ==
    /\ status[p] = "run" => EndsIn(todo[p], Now(p), fate[p])
    /\ status[p] = "ok" => fate[p] = Now(p)
    /\ status[p] = "failed" => fate[p] = Stopped
    /\ status[p] = "wait" =>
        /\ EndsIn(Rest(p), JoinMeaning(Top(p), EndsOfChilds(fate, p),
                                       items[p], filePath[p]), fate[p])
        /\ ~Top(p).loop => \E n \in Nat : Numbers(p) = 1 .. n

\* What the triggered tree means.
Whole == After(Meaning(Tree[call.id].childs, InitialItems(call), call.id),
               call.id)

\* All plans that have been spawned are on the way to an end from which the
\* meaning of the triggered tree follows.
MeaningInv ==
    /\ \A p \in Live : IsMap(items[p])
    /\ Live # {} => Accepts(call)
    /\ \E fate : /\ Live # {} => fate[Root] = Whole
                 /\ \A p \in Live : Explains(fate, p)

LEMMA PushedOnTop ==
    ASSUME NEW f, NEW s, IsSeq(s)
    PROVE  /\ IsSeq(<<f>> \o s) /\ <<f>> \o s # <<>>
           /\ Head(<<f>> \o s) = f /\ Tail(<<f>> \o s) = s
<1> DEFINE t == <<f>> \o s
<1>1. IsSeq(<<f>>) /\ Len(<<f>>) = 1 /\ <<f>>[1] = f
    BY SingletonIsSeq
<1>2. /\ IsSeq(t) /\ Len(t) = 1 + Len(s)
      /\ \A i \in 1 .. 1 : t[i] = <<f>>[i]
      /\ \A i \in 1 + 1 .. 1 + Len(s) : t[i] = s[i - 1]
    BY <1>1, ConcatIsSeq
<1>3. Len(s) \in Nat
    BY IsSeqProperties
<1>. HIDE DEF t
<1>4. t # <<>>
    BY <1>2, <1>3, EmptyIsSeq
<1>5. /\ IsSeq(Tail(t)) /\ Len(Tail(t)) = Len(t) - 1
      /\ \A i \in 1 .. Len(t) - 1 : Tail(t)[i] = t[i + 1]
      /\ Head(t) = t[1]
    BY <1>2, <1>4, TailIsSeq
<1>6. Len(Tail(t)) = Len(s) /\ \A i \in 1 .. Len(Tail(t)) : Tail(t)[i] = s[i]
    BY <1>2, <1>3, <1>5
<1>7. Tail(t) = s
    BY <1>5, <1>6, SeqsEqual
<1>. QED
    BY <1>1, <1>2, <1>4, <1>5, <1>7 DEF t

\* A plan other than the root has a number.
LEMMA Numbered ==
    ASSUME NEW c, IsSeq(c), c # <<>>
    PROVE  c = Append(Front(c), Last(c))
<1> DEFINE n == Len(c)
           S == ToSet(c)
<1>1. c \in Seq(S) /\ n \in Nat /\ n # 0 /\ \A i \in 1 .. n : c[i] \in S
    BY IsSeqProperties, EmptySeq, ElementOfSeq DEF IsSeq
<1>. HIDE DEF S
<1>2. /\ SubSeq(c, 1, n - 1) \in Seq(S) /\ Len(SubSeq(c, 1, n - 1)) = n - 1
      /\ \A i \in 1 .. n - 1 : SubSeq(c, 1, n - 1)[i] = c[i]
    <2> DEFINE k == n - 1
    <2>1. k \in Int /\ 1 \in Int /\ \A i \in 1 .. k : c[i] \in S
        BY <1>1
    <2>2. (IF 1 <= k THEN k - 1 + 1 ELSE 0) = k /\ k - 1 + 1 = k
          /\ \A i \in 1 .. k : 1 + i - 1 = i
        <3>1. k \in Nat
            BY <1>1
        <3>. HIDE DEF k
        <3>. QED
            BY <3>1
    <2>. HIDE DEF k
    <2>3. /\ SubSeq(c, 1, k) \in Seq(S)
          /\ Len(SubSeq(c, 1, k)) = IF 1 <= k THEN k - 1 + 1 ELSE 0
          /\ \A i \in 1 .. k - 1 + 1 : SubSeq(c, 1, k)[i] = c[1 + i - 1]
        BY <2>1, SubSeqProperties
    <2>. QED
        BY <2>2, <2>3 DEF k
<1>3. Front(c) = SubSeq(c, 1, n - 1) /\ Last(c) = c[n]
    BY DEF Front, Last
<1> DEFINE d == Append(SubSeq(c, 1, n - 1), c[n])
<1>4. c[n] \in S
    BY <1>1
<1>5. /\ d \in Seq(S) /\ Len(d) = (n - 1) + 1 /\ d[(n - 1) + 1] = c[n]
      /\ \A i \in 1 .. n - 1 : d[i] = SubSeq(c, 1, n - 1)[i]
    BY <1>2, <1>4
<1>. HIDE DEF d
<1>6. Len(d) = n /\ \A i \in 1 .. n : d[i] = c[i]
    BY <1>1, <1>2, <1>5
<1>7. d = c
    BY <1>1, <1>5, <1>6, SeqEqual
<1>. QED
    BY <1>3, <1>7 DEF d

LEMMA ChildsAreNumbered ==
    ASSUME PathInv, NEW p
    PROVE  /\ \A c \in Childs(p) : c \in Live /\ c = Append(p, Last(c))
           /\ \A i \in Numbers(p) : Append(p, i) \in Childs(p)
<1>1. \A c \in Childs(p) : c \in Live /\ c = Append(p, Last(c))
    BY Numbered DEF Childs, PathInv
<1>. QED
    BY <1>1 DEF Numbers

\* The frames of a list of items alone.
LEMMA EndsInOnly ==
    ASSUME MeaningIsDefined, NEW seq, NEW path, InFile(seq, path), NEW map
    PROVE  EndsIn(ItemFrames(seq), Going(map, path),
                  After(Meaning(seq, map, path), path))
<1> DEFINE e == After(Meaning(seq, map, path), path)
<1>1. IsSeq(ItemFrames(seq))
    BY FramesOfItems
<1>2. ItemFrames(seq) \o <<>> = ItemFrames(seq)
    BY <1>1, ConcatEmptySeq DEF IsSeq
<1>3. AfterItems(seq, Going(map, path)) = e
    BY OutcomesAre DEF AfterItems
<1>4. EndsIn(<<>>, AfterItems(seq, Going(map, path)), e)
    BY <1>3, EndsInEmpty
<1>5. IsOutcome(Going(map, path)) /\ IsSeq(<<>>)
    BY OutcomesAre, EmptyIsSeq
<1>6. EndsIn(Sequence(seq, <<>>), Going(map, path), e)
    BY <1>4, <1>5, EndsInItems
<1>. QED
    BY <1>2, <1>6 DEF Sequence

\* A plan that is not concerned by a step.
LEMMA StillExplained ==
    ASSUME NEW q, NEW fate, NEW fate2, Explains(fate, q),
           status'[q] = status[q], todo'[q] = todo[q], items'[q] = items[q],
           filePath'[q] = filePath[q], fate2[q] = fate[q],
           status[q] = "wait" =>
                /\ Childs(q)' = Childs(q)
                /\ \A i \in Numbers(q) : fate2[Append(q, i)]
                                            = fate[Append(q, i)]
    PROVE  Explains(fate2, q)'
<1>1. status[q] = "wait" =>
        /\ Numbers(q)' = Numbers(q)
        /\ EndsOfChilds(fate2, q)' = EndsOfChilds(fate, q)
    BY DEF Numbers, EndsOfChilds
<1>2. Now(q)' = Now(q) /\ Top(q)' = Top(q) /\ Rest(q)' = Rest(q)
    BY DEF Now, Top, Rest
<1>. QED
    BY <1>1, <1>2 DEF Explains

\* The plans after a spawn.
LEMMA SpawnIs ==
    ASSUME PathInv, NameInv, NEW p \in Live, status[p] = "run",
           todo[p] # <<>>, NEW stacks, NEW maps, NEW frame,
           Spawn(p, stacks, maps, frame),
           NEW new, new = {Append(p, i) : i \in DOMAIN stacks}
    PROVE  /\ DOMAIN status' = new \cup Live
           /\ \A q \in new :
                /\ q \notin Live /\ q # Root /\ Front(q) = p
                /\ Last(q) \in DOMAIN stacks
                /\ status'[q] = "run" /\ todo'[q] = stacks[Last(q)]
                /\ items'[q] = maps[Last(q)] /\ filePath'[q] = filePath[p]
           /\ \A i \in DOMAIN stacks : /\ Append(p, i) \in new
                                       /\ Last(Append(p, i)) = i
           /\ \A q \in Live :
                /\ items'[q] = items[q] /\ filePath'[q] = filePath[q]
                /\ q # p => todo'[q] = todo[q] /\ status'[q] = status[q]
           /\ status'[p] = "wait" /\ Top(p)' = frame /\ Rest(p)' = Rest(p)
           /\ call' = call
<1> DEFINE stack == <<frame>> \o Rest(p)
<1>1. \A i \in DOMAIN stacks : /\ Front(Append(p, i)) = p
                               /\ Append(p, i) # Root
                               /\ Last(Append(p, i)) = i
    <2>1. IsSeq(p)
        BY DEF PathInv
    <2>. QED
        BY <2>1, FrontIs, AppendIsSeq
<1>2. \A q \in new : /\ Front(q) = p /\ q # Root
                     /\ Last(q) \in DOMAIN stacks
    BY <1>1
<1>3. \A q \in Live \ {Root} : Front(q) # p
    BY DEF NameInv
<1>4. Head(stack) = frame /\ Tail(stack) = Rest(p)
    BY OnTop, PushedOnTop
<1>5. \A q \in new : q \notin Live
    BY <1>2, <1>3
<1>. HIDE DEF stack
<1>6. /\ status' = With([q \in new |-> "run"], [status EXCEPT ![p] = "wait"])
      /\ todo' = With([q \in new |-> stacks[Last(q)]],
                      [todo EXCEPT ![p] = stack])
      /\ items' = With([q \in new |-> maps[Last(q)]], items)
      /\ filePath' = With([q \in new |-> filePath[p]], filePath)
      /\ call' = call
    BY DEF Spawn, stack, callVars
<1>7. DOMAIN status' = new \cup Live
    BY <1>6 DEF Live, With
<1>8. \A q \in new : /\ status'[q] = "run" /\ todo'[q] = stacks[Last(q)]
                     /\ items'[q] = maps[Last(q)]
                     /\ filePath'[q] = filePath[p]
    BY <1>6 DEF With
<1>9. \A q \in Live : /\ items'[q] = items[q] /\ filePath'[q] = filePath[q]
                      /\ q # p => todo'[q] = todo[q] /\ status'[q] = status[q]
    BY <1>5, <1>6 DEF PathInv, Live, With
<1>10. todo'[p] = stack /\ status'[p] = "wait"
    BY <1>5, <1>6 DEF PathInv, Live, With
<1>11. Top(p)' = frame /\ Rest(p)' = Rest(p)
    BY <1>4, <1>10 DEF Top, Rest
<1>. QED
    BY <1>1, <1>2, <1>5, <1>6, <1>7, <1>8, <1>9, <1>10, <1>11

\* Whose children they are.
LEMMA SpawnedChilds ==
    ASSUME NameInv, NEW p \in Live, status[p] = "run", NEW new,
           DOMAIN status' = new \cup Live,
           \A q \in new : q \notin Live /\ q # Root /\ Front(q) = p
    PROVE  /\ Childs(p)' = new
           /\ \A q : q # p => Childs(q)' = Childs(q)
<1>1. \A c \in Live : c # Root => Front(c) # p
    BY DEF NameInv
<1>. QED
    BY <1>1 DEF Childs, Live, Root

\* A spawn: the children that are to end with ends, and p in the frame after
\* which it goes on to its end.
LEMMA MeaningSpawned ==
    ASSUME PathInv, NameInv, MeaningInv, NEW p \in Live, status[p] = "run",
           todo[p] # <<>>, NEW stacks, NEW maps, NEW frame,
           Spawn(p, stacks, maps, frame), NEW ends, IsMap(ends),
           DOMAIN ends = DOMAIN stacks,
           \A i \in DOMAIN stacks :
                /\ EndsIn(stacks[i], Going(maps[i], filePath[p]), ends[i])
                /\ maps[i] = items[p] \/ IsMap(maps[i]),
           ~frame.loop => \E n \in Nat : DOMAIN stacks = 1 .. n,
           \A e : EndsIn(todo[p], Now(p), e)
                    => EndsIn(Rest(p), JoinMeaning(frame, ends, items[p],
                                                   filePath[p]), e)
    PROVE  MeaningInv'
<1> DEFINE new == {Append(p, i) : i \in DOMAIN stacks}
<1>1. PICK fate : /\ fate[Root] = Whole
                  /\ \A q \in Live : Explains(fate, q)
    BY DEF MeaningInv
<1>2. /\ DOMAIN status' = new \cup Live
      /\ \A q \in new :
            /\ q \notin Live /\ q # Root /\ Front(q) = p
            /\ Last(q) \in DOMAIN stacks
            /\ status'[q] = "run" /\ todo'[q] = stacks[Last(q)]
            /\ items'[q] = maps[Last(q)] /\ filePath'[q] = filePath[p]
      /\ \A i \in DOMAIN stacks : /\ Append(p, i) \in new
                                  /\ Last(Append(p, i)) = i
      /\ \A q \in Live :
            /\ items'[q] = items[q] /\ filePath'[q] = filePath[q]
            /\ q # p => todo'[q] = todo[q] /\ status'[q] = status[q]
      /\ status'[p] = "wait" /\ Top(p)' = frame /\ Rest(p)' = Rest(p)
      /\ call' = call
    BY SpawnIs
<1>3. new = {Append(p, i) : i \in DOMAIN stacks}
    OBVIOUS
<1>. HIDE DEF new
<1>4. Childs(p)' = new /\ \A q : q # p => Childs(q)' = Childs(q)
    BY <1>2, SpawnedChilds
<1>5. PICK fate2 : /\ \A q \in new : fate2[q] = ends[Last(q)]
                   /\ \A q \in Live \cup {Root} : fate2[q] = fate[q]
    <2> DEFINE f == [q \in (new \cup Live) \cup {Root} |->
                        IF q \in new THEN ends[Last(q)] ELSE fate[q]]
    <2>1. /\ \A q \in new : f[q] = ends[Last(q)]
          /\ \A q \in Live \cup {Root} : f[q] = fate[q]
        BY <1>2
    <2>. HIDE DEF f
    <2>. QED
        BY <2>1
<1>6. Numbers(p)' = DOMAIN stacks
    <2>1. Numbers(p)' = {Last(c) : c \in new}
        BY <1>4 DEF Numbers
    <2>2. \A i : i \in {Last(c) : c \in new} <=> i \in DOMAIN stacks
        BY <1>2
    <2>. QED
        BY <2>1, <2>2
<1>7. EndsOfChilds(fate2, p)' = ends
    <2>1. EndsOfChilds(fate2, p)'
            = [i \in DOMAIN stacks |-> fate2[Append(p, i)]]
        BY <1>6 DEF EndsOfChilds
    <2>2. \A i \in DOMAIN stacks : fate2[Append(p, i)] = ends[i]
        BY <1>2, <1>5
    <2>. QED
        BY <2>1, <2>2 DEF IsMap
<1>8. Explains(fate2, p)'
    <2>1. fate2[p] = fate[p] /\ EndsIn(todo[p], Now(p), fate[p])
        BY <1>1, <1>5 DEF Explains
    <2>2. EndsIn(Rest(p)', JoinMeaning(Top(p)', EndsOfChilds(fate2, p)',
                                       items'[p], filePath'[p]), fate2[p])
        BY <2>1, <1>2, <1>7
    <2>. QED
        BY <2>2, <1>2, <1>6 DEF Explains
<1>9. ASSUME NEW q \in new PROVE Explains(fate2, q)' /\ IsMap(items'[q])
    <2>1. Now(q)' = Going(maps[Last(q)], filePath[p])
        BY <1>2 DEF Now
    <2>2. EndsIn(todo'[q], Now(q)', fate2[q])
        BY <2>1, <1>2, <1>5
    <2>3. Explains(fate2, q)'
        BY <2>2, <1>2 DEF Explains
    <2>4. IsMap(items[p])
        BY DEF MeaningInv
    <2>. QED
        BY <2>3, <2>4, <1>2
<1>10. ASSUME NEW q \in Live, q # p PROVE Explains(fate2, q)'
    <2>1. Explains(fate, q) /\ fate2[q] = fate[q] /\ Childs(q)' = Childs(q)
        BY <1>1, <1>4, <1>5, <1>10
    <2>2. \A i \in Numbers(q) : fate2[Append(q, i)] = fate[Append(q, i)]
        BY <1>5, ChildsAreNumbered
    <2>. QED
        BY <2>1, <2>2, <1>2, <1>10, StillExplained
<1>11. \A q \in Live : IsMap(items'[q])
    BY <1>2 DEF MeaningInv
<1>12. Accepts(call)' /\ fate2[Root] = Whole'
    <2>1. Whole' = Whole /\ Accepts(call)' = Accepts(call)
        BY <1>2 DEF Whole, Accepts, InitialItems
    <2>. QED
        BY <2>1, <1>1, <1>5 DEF MeaningInv
<1>13. \A q \in Live' : IsMap(items'[q]) /\ Explains(fate2, q)'
    BY <1>2, <1>8, <1>9, <1>10, <1>11 DEF Live
<1>. QED
    BY <1>12, <1>13 DEF MeaningInv

-----------------------------------------------------------------------------
\* Parallel branches and loops.

LEMMA LastOfMap ==
    ASSUME NEW f, IsMap(f), NEW n \in Nat, DOMAIN f = 1 .. n
    PROVE  Last(f) = f[n]
<1> DEFINE S == {f[i] : i \in 1 .. n}
<1>1. f \in [1 .. n -> S]
    BY DEF IsMap
<1>. HIDE DEF S
<1>2. f \in Seq(S)
    BY <1>1, SeqDef
<1>3. Len(f) = n
    BY <1>1, <1>2, LenProperties
<1>. QED
    BY <1>3 DEF Last

LEMMA PartsJoin ==
    ASSUME NEW parts, NEW n \in Nat, DOMAIN parts = 1 .. n,
           n = 0 <=> parts = <<>>, NEW env, NEW path, NEW frame, ~frame.loop,
           NEW ends,
           ends = [i \in DOMAIN parts |->
                        After(Meaning(<<parts[i]>>, env, path), path)]
    PROVE  JoinMeaning(frame, ends, env, path)
            = After(ParallelMeaning(parts, env, path), path)
<1> DEFINE each == [i \in DOMAIN parts |-> Meaning(<<parts[i]>>, env, path)]
<1>1. /\ DOMAIN each = 1 .. n /\ DOMAIN ends = 1 .. n
      /\ IsMap(each) /\ IsMap(ends)
      /\ \A i \in 1 .. n : ends[i] = After(each[i], path)
    BY DEF IsMap
<1>2. ParallelMeaning(parts, env, path)
        = IF \E i \in DOMAIN each : ~each[i].ok THEN Bad
          ELSE IF parts = <<>> THEN Good(env)
          ELSE Last(each)
    BY Zenon DEF ParallelMeaning
<1>. HIDE DEF each
<1>3. \A i \in 1 .. n : ends[i].ok <=> each[i].ok
    BY <1>1, OutcomesAre DEF After
<1>4. CASE \E i \in DOMAIN each : ~each[i].ok
    <2>1. \E i \in DOMAIN ends : ~ends[i].ok
        BY <1>1, <1>3, <1>4
    <2>2. JoinMeaning(frame, ends, env, path) = Stopped
        BY <2>1 DEF JoinMeaning
    <2>. QED
        BY <2>2, <1>2, <1>4 DEF After, Bad
<1>5. CASE ~\E i \in DOMAIN each : ~each[i].ok
    <2>1. ~\E i \in DOMAIN ends : ~ends[i].ok
        BY <1>1, <1>3, <1>5
    <2>2. JoinMeaning(frame, ends, env, path)
            = IF DOMAIN ends = {} THEN Going(env, path)
              ELSE Going(Last(ends).env, path)
        BY <2>1 DEF JoinMeaning
    <2>3. CASE n = 0
        <3>1. DOMAIN ends = {} /\ parts = <<>>
            BY <1>1, <2>3
        <3>. QED
            BY <3>1, <2>2, <1>2, <1>5 DEF After, Good
    <2>4. CASE n # 0
        <3>1. n \in DOMAIN ends /\ parts # <<>>
            BY <1>1, <2>4
        <3>2. Last(ends) = ends[n] /\ Last(each) = each[n]
            BY <1>1, LastOfMap
        <3>3. each[n].ok /\ ends[n] = Going(each[n].env, path)
            BY <3>1, <1>1, <1>5 DEF After
        <3>4. ends[n].env = each[n].env
            BY <3>3, OutcomesAre
        <3>5. JoinMeaning(frame, ends, env, path) = ends[n]
            BY <3>1, <3>2, <3>3, <3>4, <2>2
        <3>6. ParallelMeaning(parts, env, path) = each[n]
            BY <3>1, <3>2, <1>2, <1>5
        <3>. QED
            BY <3>3, <3>5, <3>6 DEF After
    <2>. QED
        BY <2>3, <2>4
<1>. QED
    BY <1>4, <1>5

LEMMA LoopJoin ==
    ASSUME NEW c, NEW env, NEW path, NEW left, left = Iterations(c, env),
           NEW frame, frame.loop, frame.values = c.values, NEW ends,
           ends = [i \in DOMAIN left |->
                    After(Meaning(c.content,
                                  WithVariable(env, c.tempVarName, left[i]),
                                  path), path)]
    PROVE  JoinMeaning(frame, ends, env, path)
            = After(ParallelLoopMeaning(c, env, path), path)
<1> DEFINE each == [i \in DOMAIN left |->
                    Meaning(c.content,
                            WithVariable(env, c.tempVarName, left[i]), path)]
           all == Aggregate(c.values, [i \in DOMAIN left |-> each[i].env])
           ended == Aggregate(c.values, [i \in DOMAIN ends |-> ends[i].env])
           good == Good(Updated(env, Items(all.values)))
<1>1. /\ DOMAIN each = DOMAIN left /\ DOMAIN ends = DOMAIN left
      /\ \A i \in DOMAIN left : ends[i] = After(each[i], path)
    OBVIOUS
<1>2. ParallelLoopMeaning(c, env, path)
        = IF (\E i \in DOMAIN left : ~each[i].ok) \/ ~all.ok THEN Bad
          ELSE IF DOMAIN left = {} THEN Good(env)
          ELSE good
    BY Zenon DEF ParallelLoopMeaning
<1>3. JoinMeaning(frame, ends, env, path)
        = IF (\E i \in DOMAIN ends : ~ends[i].ok) \/ ~ended.ok THEN Stopped
          ELSE IF DOMAIN ends = {} THEN Going(env, path)
          ELSE Going(Updated(env, Items(ended.values)), path)
    BY DEF JoinMeaning
<1>. HIDE DEF each
<1>4. \A i \in DOMAIN left : ends[i].ok <=> each[i].ok
    BY <1>1, OutcomesAre DEF After
<1>5. CASE \E i \in DOMAIN left : ~each[i].ok
    <2>1. \E i \in DOMAIN ends : ~ends[i].ok
        BY <1>1, <1>4, <1>5
    <2>2. JoinMeaning(frame, ends, env, path) = Stopped
        BY <2>1, <1>3
    <2>3. ParallelLoopMeaning(c, env, path) = Bad
        BY <1>2, <1>5
    <2>. QED
        BY <2>2, <2>3 DEF After, Bad
<1>6. CASE ~\E i \in DOMAIN left : ~each[i].ok
    <2>1. ~\E i \in DOMAIN ends : ~ends[i].ok
        BY <1>1, <1>4, <1>6
    <2>2. \A i \in DOMAIN left : ends[i].env = each[i].env
        BY <1>1, <1>6, OutcomesAre DEF After
    <2>3. [i \in DOMAIN ends |-> ends[i].env]
            = [i \in DOMAIN left |-> each[i].env]
        BY <1>1, <2>2
    <2>4. ended = all
        BY <2>3
    <2>. HIDE DEF ended, all, good
    <2>5. CASE ~all.ok
        <3>1. JoinMeaning(frame, ends, env, path) = Stopped
            BY <2>4, <2>5, <1>3
        <3>2. ParallelLoopMeaning(c, env, path) = Bad
            BY <1>2, <2>5
        <3>. QED
            BY <3>1, <3>2 DEF After, Bad
    <2>6. CASE all.ok
        <3>1. JoinMeaning(frame, ends, env, path)
                = IF DOMAIN left = {} THEN Going(env, path)
                  ELSE Going(Updated(env, Items(all.values)), path)
            BY <2>1, <2>4, <2>6, <1>1, <1>3
        <3>2. ParallelLoopMeaning(c, env, path)
                = IF DOMAIN left = {} THEN Good(env) ELSE good
            BY <1>2, <1>6, <2>6
        <3>3. After(Good(env), path) = Going(env, path)
              /\ After(good, path)
                    = Going(Updated(env, Items(all.values)), path)
            BY DEF After, Good, good
        <3>. QED
            BY <3>1, <3>2, <3>3
    <2>. QED
        BY <2>5, <2>6
<1>. QED
    BY <1>5, <1>6

-----------------------------------------------------------------------------
\* Every step keeps the plans on their ways.

\* A step of p that changes no other plan.
LEMMA OthersExplained ==
    ASSUME PathInv, NEW p \in Live, DOMAIN status' = Live,
           \A q \in Live \ {p} :
                /\ status'[q] = status[q] /\ todo'[q] = todo[q]
                /\ items'[q] = items[q] /\ filePath'[q] = filePath[q],
           call' = call, NEW fate, Live # {} => fate[Root] = Whole,
           \A q \in Live : Explains(fate, q),
           Explains(fate, p)', MeaningInv, IsMap(items'[p])
    PROVE  MeaningInv'
<1>1. \A q : Childs(q)' = Childs(q)
    BY DEF Childs, Live
<1>2. ASSUME NEW q \in Live, q # p PROVE Explains(fate, q)'
    BY <1>1, <1>2, StillExplained
<1>3. Whole' = Whole /\ Accepts(call)' = Accepts(call)
    BY DEF Whole, Accepts, InitialItems
<1>4. Live' = Live
    BY DEF Live
<1>. QED
    BY <1>2, <1>3, <1>4 DEF MeaningInv

LEMMA MeaningKept ==
    ASSUME PathInv, MeaningInv, NEW p \in Live, status[p] = "run",
           \A e : EndsIn(todo[p], Now(p), e) => KeepsMeaning(p, e)
    PROVE  MeaningInv'
<1>1. PICK fate : /\ Live # {} => fate[Root] = Whole
                  /\ \A q \in Live : Explains(fate, q)
    BY DEF MeaningInv
<1>2. KeepsMeaning(p, fate[p])
    BY <1>1 DEF Explains
<1>3. CASE \E stack, map, path :
                /\ Continue(p, stack, map, path)
                /\ EndsIn(stack, Going(map, path), fate[p])
                /\ map = items[p] \/ IsMap(map)
    <2>1. PICK stack, map, path :
                /\ Continue(p, stack, map, path)
                /\ EndsIn(stack, Going(map, path), fate[p])
                /\ map = items[p] \/ IsMap(map)
        BY <1>3
    <2>2. /\ status' = status /\ call' = call
          /\ todo'[p] = stack /\ items'[p] = map /\ filePath'[p] = path
          /\ \A q \in Live \ {p} :
                /\ todo'[q] = todo[q] /\ items'[q] = items[q]
                /\ filePath'[q] = filePath[q]
        BY <2>1 DEF Continue, PathInv, callVars
    <2>3. Now(p)' = Going(map, path)
        BY <2>2 DEF Now
    <2>4. Explains(fate, p)'
        BY <2>1, <2>2, <2>3 DEF Explains
    <2>5. IsMap(items'[p])
        BY <2>1, <2>2 DEF MeaningInv
    <2>. QED
        BY <1>1, <2>2, <2>4, <2>5, OthersExplained DEF Live
<1>4. CASE Fail(p) /\ fate[p] = Stopped
    <2>1. /\ DOMAIN status' = Live /\ call' = call /\ status'[p] = "failed"
          /\ items' = items /\ filePath' = filePath
          /\ \A q \in Live \ {p} : /\ todo'[q] = todo[q]
                                   /\ status'[q] = status[q]
        BY <1>4 DEF Fail, PathInv, callVars, Live
    <2>2. Explains(fate, p)'
        BY <1>4, <2>1 DEF Explains
    <2>3. IsMap(items'[p])
        BY <2>1 DEF MeaningInv
    <2>. QED
        BY <1>1, <2>1, <2>2, <2>3, OthersExplained
<1>. QED
    BY <1>2, <1>3, <1>4 DEF KeepsMeaning

LEMMA PartsMean ==
    ASSUME MeaningIsDefined, PathInv, NameInv, MeaningInv, NEW p \in Live,
           ProcessParallelPart(p)
    PROVE  MeaningInv'
<1> DEFINE parts == Current(p).parts
           path == filePath[p]
           stacks == [i \in DOMAIN parts |-> ItemFrames(<<parts[i]>>)]
           maps == [i \in DOMAIN parts |-> items[p]]
           frame == [kind |-> "join", loop |-> FALSE, values |-> <<>>,
                     shouldCount |-> Len(parts) % CounterRange]
           ends == [i \in DOMAIN parts |->
                        After(Meaning(<<parts[i]>>, items[p], path), path)]
<1>1. At(p, "parallel") /\ Spawn(p, stacks, maps, frame)
    BY Zenon DEF ProcessParallelPart
<1>2. /\ status[p] = "run" /\ todo[p] # <<>> /\ Top(p).kind = "item"
      /\ Current(p).kind = "parallel"
    BY <1>1 DEF At, Current
<1>3. InFile(parts, path)
    BY <1>2, ItemOnTop DEF Owned
<1>4. ItemMeaning(Current(p), items[p], path)
        = ParallelMeaning(parts, items[p], path)
    BY <1>2 DEF ItemMeaning
<1>5. ~frame.loop
    OBVIOUS
<1>. HIDE DEF parts, path, frame
<1>6. PICK n \in Nat : DOMAIN parts = 1 .. n /\ (n = 0 <=> parts = <<>>)
    <2>1. /\ parts \in Seq(Item) /\ Len(parts) \in Nat
          /\ DOMAIN parts = 1 .. Len(parts)
        BY <1>3, LenProperties DEF InFile
    <2>2. Len(parts) = 0 <=> parts = <<>>
        BY <2>1, EmptySeq
    <2>. QED
        BY <2>1, <2>2
<1>7. ASSUME NEW i \in DOMAIN parts
      PROVE  InFile(<<parts[i]>>, path)
    <2>1. parts \in Seq(Item) /\ DOMAIN parts = 1 .. Len(parts)
        BY <1>3, LenProperties DEF InFile
    <2>2. parts[i] \in Item /\ parts[i] \in ToSet(parts)
        BY <1>7, <2>1, ElementOfSeq DEF ToSet
    <2>3. Home[parts[i]] = path
        BY <2>2, <1>3 DEF InFile
    <2>4. ToSet(<<parts[i]>>) = {parts[i]}
        BY DEF ToSet
    <2>. QED
        BY <2>2, <2>3, <2>4 DEF InFile
<1>8. ASSUME NEW i \in DOMAIN stacks
      PROVE  /\ EndsIn(stacks[i], Going(maps[i], path), ends[i])
             /\ maps[i] = items[p]
    <2>1. /\ i \in DOMAIN parts
          /\ stacks[i] = ItemFrames(<<parts[i]>>) /\ maps[i] = items[p]
          /\ ends[i] = After(Meaning(<<parts[i]>>, items[p], path), path)
        BY <1>8
    <2>2. InFile(<<parts[i]>>, path)
        BY <2>1, <1>7
    <2>. HIDE DEF stacks, maps, ends
    <2>. QED
        BY <2>1, <2>2, EndsInOnly
<1>9. IsMap(ends) /\ DOMAIN ends = DOMAIN stacks /\ DOMAIN stacks = 1 .. n
    BY <1>6 DEF IsMap
<1>10. JoinMeaning(frame, ends, items[p], path)
        = After(ParallelMeaning(parts, items[p], path), path)
    BY <1>5, <1>6, PartsJoin
<1>. HIDE DEF stacks, maps, ends
<1>11. ASSUME NEW e, EndsIn(todo[p], Now(p), e)
       PROVE  EndsIn(Rest(p), JoinMeaning(frame, ends, items[p], path), e)
    BY <1>1, <1>4, <1>10, <1>11, ItemOnTopMeans DEF path
<1>. QED
    BY <1>1, <1>2, <1>8, <1>9, <1>11, MeaningSpawned DEF path

LEMMA ParallelLoopMeans ==
    ASSUME MeaningIsDefined, PathInv, NameInv, MeaningInv, NEW p \in Live,
           ProcessParallelLoop(p)
    PROVE  MeaningInv'
<1> DEFINE c == Current(p)
           path == filePath[p]
           env == items[p]
           left == Iterations(c, env)
           stacks == [i \in DOMAIN left |-> ItemFrames(c.content)]
           maps == [i \in DOMAIN left |->
                        Insert(env, c.tempVarName, left[i])]
           frame == [kind |-> "join", loop |-> TRUE, values |-> c.values,
                     shouldCount |-> LoopSize(c, env)]
           ends == [i \in DOMAIN left |->
                        After(Meaning(c.content,
                                WithVariable(env, c.tempVarName, left[i]),
                                path), path)]
<1>1. /\ At(p, "for") \/ At(p, "foreach")
      /\ c.parallel
      /\ IF CanIterate(c, env) THEN Spawn(p, stacks, maps, frame) ELSE Fail(p)
    BY Zenon DEF ProcessParallelLoop
<1>2. /\ status[p] = "run" /\ todo[p] # <<>> /\ Top(p).kind = "item"
      /\ c.kind \in {"for", "foreach"}
    BY <1>1 DEF At, Current
<1>3. InFile(c.content, path)
    BY <1>2, ItemOnTop DEF Owned
<1>4. ItemMeaning(c, env, path)
        = IF ~CanIterate(c, env) THEN Bad ELSE ParallelLoopMeaning(c, env, path)
    BY <1>1, <1>2 DEF ItemMeaning
<1>5. frame.loop /\ frame.values = c.values
    OBVIOUS
<1>. HIDE DEF c, path, env, frame, left
<1>6. ASSUME NEW e, EndsIn(todo[p], Now(p), e)
      PROVE  EndsIn(Rest(p), After(ItemMeaning(c, env, path), path), e)
    BY <1>1, <1>6, ItemOnTopMeans DEF c, path, env
<1>7. CASE ~CanIterate(c, env)
    <2>1. Fail(p) /\ ItemMeaning(c, env, path) = Bad
        BY <1>1, <1>4, <1>7
    <2>2. ASSUME NEW e, EndsIn(todo[p], Now(p), e)
          PROVE  KeepsMeaning(p, e)
        BY <2>1, <2>2, <1>2, <1>6, OnTop, FailedMeans
    <2>. QED
        BY <2>2, <1>2, MeaningKept
<1>8. CASE CanIterate(c, env)
    <2>1. Spawn(p, stacks, maps, frame)
        BY <1>1, <1>8
    <2>2. ASSUME NEW i \in DOMAIN stacks
          PROVE  /\ EndsIn(stacks[i], Going(maps[i], path), ends[i])
                 /\ IsMap(maps[i])
        <3> DEFINE map == WithVariable(env, c.tempVarName, left[i])
        <3>1. /\ stacks[i] = ItemFrames(c.content)
              /\ maps[i] = Insert(env, c.tempVarName, left[i])
              /\ ends[i] = After(Meaning(c.content, map, path), path)
            BY <2>2
        <3>. HIDE DEF stacks, maps, ends
        <3>2. maps[i] = map /\ IsMap(map)
            BY <3>1, MapsAre, MadeMaps
        <3>. HIDE DEF map
        <3>. QED
            BY <3>1, <3>2, <1>3, EndsInOnly
    <2>3. IsMap(ends) /\ DOMAIN ends = DOMAIN stacks
        BY DEF IsMap
    <2>4. JoinMeaning(frame, ends, env, path)
            = After(ParallelLoopMeaning(c, env, path), path)
        BY <1>5, LoopJoin DEF left
    <2>. HIDE DEF stacks, maps, ends
    <2>5. ASSUME NEW e, EndsIn(todo[p], Now(p), e)
          PROVE  EndsIn(Rest(p), JoinMeaning(frame, ends, env, path), e)
        BY <2>4, <2>5, <1>4, <1>6, <1>8
    <2>. QED
        BY <2>1, <2>2, <2>3, <2>5, <1>2, <1>5, MeaningSpawned DEF path, env
<1>. QED
    BY <1>7, <1>8

\* What a join takes over: the items of the last branch, of which every name
\* is one of p.
LEMMA MergedIs ==
    ASSUME PathInv, NEW p \in Live, IsMap(items[p]), NEW n \in Nat,
           Numbers(p) = 1 .. n,
           \A c \in Childs(p) : IsMap(items[c])
                                /\ DOMAIN items[c] = DOMAIN items[p]
    PROVE  Merged(p) = IF n = 0 THEN items[p] ELSE items[Append(p, n)]
<1>1. MergedNames(p) = DOMAIN items[p]
    <2>1. UNION {DOMAIN items[c] : c \in Childs(p)} \subseteq DOMAIN items[p]
        OBVIOUS
    <2>. QED
        BY <2>1 DEF MergedNames
<1>2. \A k \in DOMAIN items[p] : Having(Childs(p), k) = Childs(p)
    BY DEF Having
<1>3. Merged(p) = [k \in DOMAIN items[p] |->
                    IF Childs(p) = {} THEN items[p][k]
                    ELSE items[Latest(Childs(p))][k]]
    <2>1. Merged(p) = [k \in DOMAIN items[p] |->
                        IF Having(Childs(p), k) = {} THEN items[p][k]
                        ELSE items[Latest(Having(Childs(p), k))][k]]
        BY <1>1 DEF Merged
    <2>. QED
        BY <1>2, <2>1
<1>4. CASE n = 0
    <2>1. Childs(p) = {}
        BY <1>4 DEF Numbers
    <2>2. Merged(p) = [k \in DOMAIN items[p] |-> items[p][k]]
        BY <1>3, <2>1
    <2>. QED
        BY <1>4, <2>2 DEF IsMap
<1>5. CASE n # 0
    <2> DEFINE last == Append(p, n)
               IsLatest(c) == \A d \in Childs(p) : Last(d) <= Last(c)
    <2>1. \A d \in Childs(p) : d = Append(p, Last(d)) /\ Last(d) \in 1 .. n
        BY ChildsAreNumbered DEF Numbers
    <2>2. last \in Childs(p)
        BY <1>5, ChildsAreNumbered
    <2>3. Last(last) = n
        BY AppendIsSeq DEF PathInv
    <2>4. IsLatest(last)
        BY <2>1, <2>3
    <2>5. \A c \in Childs(p) : IsLatest(c) => c = last
        <3>1. TAKE c \in Childs(p)
        <3>2. HAVE IsLatest(c)
        <3>3. n <= Last(c) /\ Last(c) \in 1 .. n
            BY <2>1, <2>2, <2>3, <3>2
        <3>4. Last(c) = n
            BY <3>3
        <3>. QED
            BY <2>1, <3>4
    <2>6. Latest(Childs(p)) = CHOOSE c \in Childs(p) : IsLatest(c)
        BY DEF Latest
    <2>. HIDE DEF last, IsLatest
    <2>7. Latest(Childs(p)) = last
        BY <2>2, <2>4, <2>5, <2>6
    <2>8. Merged(p) = [k \in DOMAIN items[p] |-> items[last][k]]
        BY <1>3, <2>2, <2>7
    <2>9. Merged(p) = items[last]
        BY <2>2, <2>8 DEF IsMap
    <2>. QED
        BY <1>5, <2>9 DEF last
<1>. QED
    BY <1>4, <1>5

\* A join does what the ends of the children mean for p.
LEMMA JoinedMeans ==
    ASSUME PathInv, NameInv, NEW p \in Live, \A q \in Live : IsMap(items[q]),
           status[p] = "wait", \A c \in Childs(p) : Ended(c),
           NEW fate, \A q \in Live : Explains(fate, q),
           NEW failed \in BOOLEAN,
           failed <=> \E c \in Childs(p) : status[c] = "failed",
           NEW ok \in BOOLEAN,
           ok <=> (~failed /\ (Top(p).loop => Aggregated(p).ok)),
           NEW map,
           map = IF ~Top(p).loop THEN Merged(p)
                 ELSE IF Childs(p) = {} THEN items[p]
                 ELSE OverrideItems(items[p], Items(Aggregated(p).values),
                                    "ONLY_EXISTING")
    PROVE  /\ EndsIn(Rest(p), IF ok THEN Going(map, filePath[p]) ELSE Stopped,
                     fate[p])
           /\ IsMap(map)
<1> DEFINE ends == EndsOfChilds(fate, p)
           env == items[p]
           path == filePath[p]
           J == JoinMeaning(Top(p), ends, env, path)
<1>1. /\ EndsIn(Rest(p), J, fate[p])
      /\ ~Top(p).loop => \E n \in Nat : Numbers(p) = 1 .. n
    BY DEF Explains
<1>2. /\ DOMAIN ends = Numbers(p) /\ IsMap(ends)
      /\ \A i \in Numbers(p) : ends[i] = fate[Append(p, i)]
    BY DEF EndsOfChilds, IsMap
<1>3. \A i \in Numbers(p) : Append(p, i) \in Childs(p)
    BY ChildsAreNumbered
<1>4. \A c \in Childs(p) : /\ c \in Live /\ c = Append(p, Last(c))
                           /\ Last(c) \in Numbers(p)
    BY ChildsAreNumbered DEF Numbers
<1>5. \A c \in Childs(p) : /\ status[c] = "failed" => fate[c] = Stopped
                           /\ status[c] # "failed" => fate[c] = Now(c)
    BY <1>4 DEF Explains, Ended
<1>6. \A c \in Childs(p) : IsMap(items[c])
    BY <1>4
<1>7. Childs(p) = {} <=> Numbers(p) = {}
    BY <1>3, <1>4
<1>8. OverrideItems(env, Items(Aggregated(p).values), "ONLY_EXISTING")
        = Updated(env, Items(Aggregated(p).values))
    BY MapsAre
<1>9. IsMap(map)
    <2>1. IsMap(Merged(p))
        BY DEF Merged, IsMap
    <2>. QED
        BY <2>1, <1>8, MadeMaps
<1>. HIDE DEF ends
<1>10. CASE failed
    <2>1. PICK c \in Childs(p) : status[c] = "failed"
        BY <1>10
    <2>2. ends[Last(c)] = Stopped /\ Last(c) \in DOMAIN ends
        BY <2>1, <1>2, <1>4, <1>5
    <2>3. \E i \in DOMAIN ends : ~ends[i].ok
        BY <2>2, OutcomesAre
    <2>4. J = Stopped
        BY <2>3 DEF JoinMeaning
    <2>. QED
        BY <2>4, <1>1, <1>9, <1>10
<1>11. CASE ~failed
    <2>1. \A i \in Numbers(p) : /\ ends[i] = Now(Append(p, i))
                                /\ ends[i].ok
                                /\ ends[i].env = items[Append(p, i)]
        BY <1>2, <1>3, <1>5, <1>11, OutcomesAre DEF Now
    <2>2. ~\E i \in DOMAIN ends : ~ends[i].ok
        BY <1>2, <2>1
    <2>3. CASE ~Top(p).loop
        <3>1. PICK n \in Nat : Numbers(p) = 1 .. n
            BY <2>3, <1>1
        <3>2. \A c \in Childs(p) : DOMAIN items[c] = DOMAIN items[p]
            BY <1>11, <2>3, BranchNames
        <3>3. Merged(p) = IF n = 0 THEN items[p] ELSE items[Append(p, n)]
            BY <1>6, <3>1, <3>2, MergedIs
        <3>4. J = IF DOMAIN ends = {} THEN Going(env, path)
                  ELSE Going(Last(ends).env, path)
            BY <2>2, <2>3 DEF JoinMeaning
        <3>5. J = Going(Merged(p), path)
            <4>1. CASE n = 0
                <5>1. DOMAIN ends = {}
                    BY <4>1, <3>1, <1>2
                <5>. QED
                    BY <4>1, <5>1, <3>3, <3>4
            <4>2. CASE n # 0
                <5>1. n \in DOMAIN ends /\ n \in Numbers(p)
                    BY <4>2, <3>1, <1>2
                <5>2. Last(ends) = ends[n]
                    BY <3>1, <1>2, LastOfMap
                <5>. QED
                    BY <4>2, <5>1, <5>2, <3>3, <3>4, <2>1
            <4>. QED
                BY <4>1, <4>2
        <3>. QED
            BY <3>5, <1>1, <1>9, <1>11, <2>3
    <2>4. CASE Top(p).loop
        <3> DEFINE given == Aggregate(Top(p).values,
                                      [i \in DOMAIN ends |-> ends[i].env])
        <3>1. [i \in DOMAIN ends |-> ends[i].env]
                = [i \in Numbers(p) |-> items[Append(p, i)]]
            BY <1>2, <2>1
        <3>2. given = Aggregated(p)
            BY <3>1 DEF Aggregated
        <3>3. J = IF ~given.ok THEN Stopped
                  ELSE IF DOMAIN ends = {} THEN Going(env, path)
                  ELSE Going(Updated(env, Items(given.values)), path)
            BY <2>2, <2>4 DEF JoinMeaning
        <3>. HIDE DEF given
        <3>4. ok => J = Going(map, path)
            BY <3>2, <3>3, <1>2, <1>7, <1>8, <2>4
        <3>5. ~ok => J = Stopped
            BY <3>2, <3>3, <1>11, <2>4
        <3>. QED
            BY <3>4, <3>5, <1>1, <1>9
    <2>. QED
        BY <2>3, <2>4
<1>. QED
    BY <1>9, <1>10, <1>11

LEMMA JoinMeans ==
    ASSUME PathInv, NameInv, MeaningInv, NEW p \in Live, Join(p),
           \A c \in Childs(p) : Ended(c), Below(p) = Childs(p)
    PROVE  MeaningInv'
<1> DEFINE kept == Live \ Below(p)
           loop == Top(p).loop
           failed == \E c \in Childs(p) : status[c] = "failed"
           ok == ~failed /\ (loop => Aggregated(p).ok)
           map == IF ~loop THEN Merged(p)
                  ELSE IF Childs(p) = {} THEN items[p]
                  ELSE OverrideItems(items[p], Items(Aggregated(p).values),
                                     "ONLY_EXISTING")
<1>1. /\ p \in Live /\ status[p] = "wait"
      /\ \A c \in Childs(p) : Ended(c)
      /\ status' = [Restrict(status, kept) EXCEPT
                        ![p] = IF ok THEN "run" ELSE "failed"]
      /\ todo' = [Restrict(todo, kept) EXCEPT
                        ![p] = IF ok THEN Rest(p) ELSE <<>>]
      /\ items' = [Restrict(items, kept) EXCEPT
                        ![p] = IF ok THEN map ELSE @]
      /\ filePath' = Restrict(filePath, kept)
      /\ call' = call
    <2>1. \A c \in Childs(p) : Ended(c)
        OBVIOUS
    <2>. QED
        BY <2>1, Zenon DEF Join, callVars
<1>2. \A c \in Childs(p) : c \in Live /\ Front(c) = p
    BY DEF Childs
<1>3. p \in kept
    BY <1>1, <1>2 DEF Ended
<1>4. PICK fate : /\ Live # {} => fate[Root] = Whole
                  /\ \A q \in Live : Explains(fate, q)
    BY DEF MeaningInv
<1>5. \A q \in Live : IsMap(items[q])
    BY DEF MeaningInv
<1>6. /\ EndsIn(Rest(p), IF ok THEN Going(map, filePath[p]) ELSE Stopped,
                fate[p])
      /\ IsMap(map)
    BY <1>1, <1>4, <1>5, JoinedMeans, Zenon
<1>7. IsSeq(Rest(p))
    BY <1>1, OnTop DEF PathInv
<1>8. \A q : q # p => {c \in kept : c # <<>> /\ Front(c) = q} = Childs(q)
    BY <1>2 DEF Childs
<1>. HIDE DEF kept, ok, map
<1>9. DOMAIN status' = kept
    BY <1>1 DEF Restrict
<1>10. /\ status'[p] = IF ok THEN "run" ELSE "failed"
       /\ todo'[p] = IF ok THEN Rest(p) ELSE <<>>
       /\ items'[p] = IF ok THEN map ELSE items[p]
       /\ filePath'[p] = filePath[p]
    BY <1>1, <1>3 DEF Restrict
<1>11. \A q \in kept \ {p} : /\ status'[q] = status[q] /\ todo'[q] = todo[q]
                             /\ items'[q] = items[q]
                             /\ filePath'[q] = filePath[q]
    BY <1>1 DEF Restrict
<1>12. Explains(fate, p)' /\ IsMap(items'[p])
    <2>1. CASE ok
        <3>1. Now(p)' = Going(map, filePath[p])
            BY <2>1, <1>10 DEF Now
        <3>. QED
            BY <2>1, <3>1, <1>6, <1>10 DEF Explains
    <2>2. CASE ~ok
        <3>1. fate[p] = Stopped
            BY <2>2, <1>6, <1>7, StaysStopped
        <3>. QED
            BY <2>2, <3>1, <1>5, <1>10 DEF Explains
    <2>. QED
        BY <2>1, <2>2
<1>13. ASSUME NEW q \in kept, q # p PROVE Explains(fate, q)'
    <2>1. Childs(q)' = Childs(q)
        BY <1>8, <1>9, <1>13 DEF Childs, Live
    <2>2. q \in Live
        BY DEF kept
    <2>. QED
        BY <2>1, <2>2, <1>4, <1>11, <1>13, StillExplained
<1>14. Accepts(call)' /\ fate[Root] = Whole'
    <2>1. Whole' = Whole /\ Accepts(call)' = Accepts(call)
        BY <1>1 DEF Whole, Accepts, InitialItems
    <2>. QED
        BY <2>1, <1>4 DEF MeaningInv
<1>15. \A q \in Live' : IsMap(items'[q]) /\ Explains(fate, q)'
    <2>1. \A q \in kept \ {p} : IsMap(items'[q])
        BY <1>5, <1>11 DEF kept
    <2>. QED
        BY <2>1, <1>9, <1>12, <1>13 DEF Live
<1>. QED
    BY <1>14, <1>15 DEF MeaningInv

LEMMA FinishMeans ==
    ASSUME PathInv, MeaningInv, NEW p \in Live, Finish(p)
    PROVE  MeaningInv'
<1>1. /\ DOMAIN status' = Live /\ status'[p] = "ok" /\ status[p] = "run"
      /\ todo[p] = <<>> /\ call' = call
      /\ todo' = todo /\ items' = items /\ filePath' = filePath
      /\ \A q \in Live \ {p} : status'[q] = status[q]
    BY DEF Finish, Live, callVars
<1>2. PICK fate : /\ Live # {} => fate[Root] = Whole
                  /\ \A q \in Live : Explains(fate, q)
    BY DEF MeaningInv
<1>3. fate[p] = Now(p)
    BY <1>1, <1>2, EndsInEmpty DEF Explains
<1>4. Now(p)' = Now(p)
    BY <1>1 DEF Now
<1>5. Explains(fate, p)'
    BY <1>1, <1>3, <1>4 DEF Explains
<1>6. IsMap(items'[p])
    BY <1>1 DEF MeaningInv
<1>. QED
    BY <1>1, <1>2, <1>5, <1>6, OthersExplained

LEMMA IdleMeans ==
    ASSUME MeaningInv, UNCHANGED <<call, planVars>>
    PROVE  MeaningInv'
<1>1. /\ status' = status /\ todo' = todo /\ items' = items
      /\ filePath' = filePath /\ call' = call
    BY DEF planVars
<1>2. PICK fate : /\ Live # {} => fate[Root] = Whole
                  /\ \A q \in Live : Explains(fate, q)
    BY DEF MeaningInv
<1>3. Live' = Live /\ \A q : Childs(q)' = Childs(q)
    BY <1>1 DEF Live, Childs
<1>4. ASSUME NEW q \in Live PROVE Explains(fate, q)'
    BY <1>1, <1>2, <1>3, StillExplained
<1>5. Whole' = Whole /\ Accepts(call)' = Accepts(call)
    BY <1>1 DEF Whole, Accepts, InitialItems
<1>. QED
    BY <1>1, <1>2, <1>3, <1>4, <1>5 DEF MeaningInv

LEMMA TriggerMeans ==
    ASSUME MeaningIsDefined, MeaningInv, TriggerTree
    PROVE  MeaningInv'
<1>1. call' = call
    BY DEF TriggerTree, callVars
<1>2. CASE UNCHANGED planVars
    BY <1>1, <1>2, IdleMeans
<1>3. CASE /\ Accepts(call)
           /\ status' = [p \in {Root} |-> "run"]
           /\ todo' = [p \in {Root} |-> ItemFrames(Tree[call.id].childs)]
           /\ items' = [p \in {Root} |-> InitialItems(call)]
           /\ filePath' = [p \in {Root} |-> call.id]
    <2>1. InFile(Tree[call.id].childs, call.id)
        BY <1>3, ScriptAssumption DEF Accepts
    <2>2. /\ DOMAIN status' = {Root} /\ status'[Root] = "run"
          /\ todo'[Root] = ItemFrames(Tree[call.id].childs)
          /\ items'[Root] = InitialItems(call)
          /\ filePath'[Root] = call.id
        BY <1>3
    <2>3. EndsIn(todo'[Root], Going(InitialItems(call), call.id), Whole)
        BY <2>1, <2>2, EndsInOnly DEF Whole
    <2>4. Now(Root)' = Going(InitialItems(call), call.id)
        BY <2>2 DEF Now
    <2>5. PICK fate : fate[Root] = Whole
        <3> DEFINE f == [q \in {Root} |-> Whole]
        <3>1. f[Root] = Whole
            OBVIOUS
        <3>. HIDE DEF f
        <3>. QED
            BY <3>1
    <2>6. Explains(fate, Root)'
        BY <2>2, <2>3, <2>4, <2>5 DEF Explains
    <2>7. IsMap(items'[Root])
        <3>1. InitialItems(call) = With(call.initialValues,
                                        Items(Tree[call.id].values))
            BY MapsAre DEF InitialItems
        <3>. QED
            BY <2>2, <3>1, MadeMaps
    <2>8. Whole' = Whole /\ Accepts(call)' = Accepts(call)
        BY <1>1 DEF Whole, Accepts, InitialItems
    <2>9. Live' = {Root}
        BY <2>2 DEF Live
    <2>. QED
        BY <1>3, <2>5, <2>6, <2>7, <2>8, <2>9 DEF MeaningInv
<1>. QED
    BY <1>2, <1>3, Zenon DEF TriggerTree

LEMMA MeaningInvInit == Init => MeaningInv
BY DEF Init, MeaningInv, Live

LEMMA ProcessedMeans ==
    ASSUME MeaningIsDefined, PathInv, NameInv, MeaningInv, NEW p \in Live,
           ProcessSakuraItem(p)
    PROVE  MeaningInv'
<1>1. CASE StepsAlone(p)
    <2>1. status[p] = "run"
        <3>1. (\E kind : At(p, kind)) \/ (\E kind : AtFrame(p, kind))
            BY <1>1, Zenon DEF StepsAlone, ProcessSubtree, ReturnFromSubtree,
                ProcessBlossomGroup, EndBlossomGroup, ProcessBlossom,
                ProcessResource, ProcessIf, RunLoop, NextIteration, EndLoop
        <3>. QED
            BY <3>1 DEF At, AtFrame
    <2>2. \A e : EndsIn(todo[p], Now(p), e) => KeepsMeaning(p, e)
        BY <1>1, AloneMeans
    <2>. QED
        BY <2>1, <2>2, MeaningKept
<1>2. CASE ProcessParallelPart(p)
    BY <1>2, PartsMean
<1>3. CASE ProcessParallelLoop(p)
    BY <1>3, ParallelLoopMeans
<1>. QED
    BY <1>1, <1>2, <1>3 DEF ProcessSakuraItem, StepsAlone

LEMMA MeaningInvNext ==
    ASSUME MeaningIsDefined
    PROVE  PathInv /\ OrderInv /\ (orderly => NameInv)
            /\ (orderly => MeaningInv) /\ [Next]_vars
                => (orderly => MeaningInv)'
<1>. SUFFICES ASSUME PathInv, OrderInv, orderly, NameInv, MeaningInv,
                     [Next]_vars
              PROVE  MeaningInv'
    BY OrderlyBefore
<1>1. CASE UNCHANGED <<call, planVars>>
    BY <1>1, IdleMeans
<1>2. CASE TriggerTree
    BY <1>2, TriggerMeans
<1>3. CASE ReturnTrigger \/ \E p \in queue : Start(p)
    BY <1>1, <1>3 DEF ReturnTrigger, Start, callVars
<1>4. CASE \E p \in Live : ProcessSakuraItem(p)
    BY <1>4, ProcessedMeans
<1>5. CASE \E p \in Live : Join(p)
    BY <1>5, JoinMeans, JoinWaits
<1>6. CASE \E p \in Live : Finish(p)
    BY <1>6, FinishMeans
<1>7. CASE Idle \/ UNCHANGED vars
    BY <1>1, <1>7 DEF Idle, vars, callVars
<1>. QED
    BY <1>2, <1>3, <1>4, <1>5, <1>6, <1>7 DEF Next

\* The answer of triggerTree when the plan of the tree has ended.
LEMMA ReturnsWhatIsMeant ==
    ASSUME orderly, NoNameLeaks, MeaningInv, ReturnTrigger
    PROVE  RunsAsWritten'
<1> DEFINE values == Tree[call.id].values
           meant == Meaning(Tree[call.id].childs, InitialItems(call), call.id)
           typed == \A k \in Outputs(values) :
                        TypeOf(meant.env[k]) = values[k].fieldType
           outputs == [k \in Outputs(values) |-> meant.env[k]]
<1>1. /\ Live = {Root} /\ Ended(Root) /\ call' = call
      /\ result' = IF status[Root] = "ok" THEN Collected(items[Root])
                   ELSE result
      /\ returned' = IF /\ status[Root] = "ok"
                        /\ CheckTreeValues(values, result', "OUTPUT")
                     THEN "ok" ELSE "failed"
    BY DEF ReturnTrigger
<1>2. PICK fate : fate[Root] = Whole /\ Explains(fate, Root)
    BY <1>1 DEF MeaningInv
<1>3. Accepts(call)
    BY <1>1 DEF MeaningInv
<1>4. Whole = After(meant, call.id)
    BY DEF Whole
<1>5. IF meant.ok
      THEN /\ returned' = IF typed THEN "ok" ELSE "failed"
           /\ result' = outputs
      ELSE returned' = "failed"
    <2>1. CASE status[Root] = "ok"
        <3>1. After(meant, call.id) = Going(items[Root], filePath[Root])
            BY <2>1, <1>2, <1>4 DEF Explains, Now
        <3>. HIDE DEF meant
        <3>2. meant.ok /\ meant.env = items[Root]
            BY <3>1, OutcomesAre DEF After
        <3>3. Outputs(values) \subseteq DOMAIN items[Root]
            <4>1. DOMAIN items[Root] = DOMAIN InitialItems(call)
                BY <2>1, <1>1 DEF NoNameLeaks
            <4>2. Outputs(values) \subseteq DOMAIN InitialItems(call)
                BY DEF InitialItems, OverrideItems, Items, Outputs
            <4>. QED
                BY <4>1, <4>2
        <3>4. Collected(items[Root]) = outputs
            <4>1. Outputs(values) \cap DOMAIN items[Root] = Outputs(values)
                BY <3>3
            <4>. QED
                BY <3>2, <4>1 DEF Collected
        <3>5. result' = outputs
            BY <2>1, <3>4, <1>1
        <3>6. CheckTreeValues(values, outputs, "OUTPUT") <=> typed
            BY DEF CheckTreeValues, Outputs
        <3>. HIDE DEF typed, outputs, values
        <3>. QED
            BY <2>1, <3>2, <3>5, <3>6, <1>1
    <2>2. CASE status[Root] # "ok"
        <3>1. After(meant, call.id) = Stopped
            BY <2>2, <1>1, <1>2, <1>4 DEF Explains, Ended
        <3>. HIDE DEF meant
        <3>2. ~meant.ok
            BY <3>1, OutcomesAre DEF After
        <3>. QED
            BY <2>2, <3>2, <1>1
    <2>. QED
        BY <2>1, <2>2
<1>6. /\ meant' = meant /\ Accepts(call)' = Accepts(call)
      /\ typed' = typed /\ outputs' = outputs
    BY <1>1 DEF Accepts, InitialItems
<1>7. IF Accepts(call)' /\ meant'.ok
      THEN /\ returned' = IF typed' THEN "ok" ELSE "failed"
           /\ result' = outputs'
      ELSE returned' = "failed"
    <2>. HIDE DEF meant, typed, outputs
    <2>. QED
        BY <1>3, <1>5, <1>6, Zenon
<1>. QED
    BY <1>7, Zenon DEF RunsAsWritten

\* No item changes what triggerTree has been called with and has returned.
LEMMA CallStays ==
    ASSUME NEW p, ProcessSakuraItem(p)
    PROVE  UNCHANGED callVars
<1>1. \A path, values : RunSubtreeCall(p, path, values) => UNCHANGED callVars
    BY Zenon DEF RunSubtreeCall, Continue, Fail, callVars
<1>2. CASE ProcessSubtree(p)
    BY <1>1, <1>2, Zenon DEF ProcessSubtree, Fail, callVars
<1>3. CASE ProcessResource(p)
    BY <1>1, <1>3, Zenon DEF ProcessResource
<1>4. CASE ReturnFromSubtree(p)
    BY <1>4, Zenon DEF ReturnFromSubtree, Continue, Fail, callVars
<1>5. CASE ProcessBlossom(p)
    BY <1>5, Zenon DEF ProcessBlossom, Continue, Fail, callVars
<1>6. CASE ProcessIf(p)
    BY <1>6, Zenon DEF ProcessIf, Continue, Fail, callVars
<1>7. CASE RunLoop(p)
    BY <1>7, Zenon DEF RunLoop, Continue, Fail, callVars
<1>8. CASE ProcessParallelLoop(p)
    BY <1>8, Zenon DEF ProcessParallelLoop, Spawn, Fail, callVars
<1>9. CASE ProcessParallelPart(p)
    BY <1>9, Zenon DEF ProcessParallelPart, Spawn, callVars
<1>10. CASE EndBlossomGroup(p) \/ NextIteration(p) \/ EndLoop(p)
    BY <1>10, Zenon DEF EndBlossomGroup, NextIteration, EndLoop, Continue,
                        callVars
<1>11. CASE ProcessBlossomGroup(p)
    BY <1>11, Zenon DEF ProcessBlossomGroup, Continue, Fail, callVars
<1>. QED
    BY <1>2, <1>3, <1>4, <1>5, <1>6, <1>7, <1>8, <1>9, <1>10, <1>11
       DEF ProcessSakuraItem

LEMMA RunsAsWrittenNext ==
    ASSUME NoNameLeaks, orderly => MeaningInv, RunsAsWritten, [Next]_vars
    PROVE  RunsAsWritten'
<1>. SUFFICES ASSUME orderly' PROVE RunsAsWritten'
    BY DEF RunsAsWritten
<1>0. orderly /\ MeaningInv
    BY OrderlyBefore
<1>1. CASE UNCHANGED callVars
    BY <1>0, <1>1 DEF RunsAsWritten, callVars, Accepts, InitialItems
<1>2. CASE TriggerTree
    <2>1. CASE UNCHANGED callVars
        BY <1>1, <2>1
    <2>2. CASE ~Accepts(call) /\ returned' = "failed" /\ call' = call
        <3>1. ~Accepts(call)'
            BY <2>2 DEF Accepts, InitialItems
        <3>. QED
            BY <2>2, <3>1 DEF RunsAsWritten
    <2>. QED
        BY <1>2, <2>1, <2>2, Zenon DEF TriggerTree
<1>3. CASE ReturnTrigger
    BY <1>0, <1>3, ReturnsWhatIsMeant
<1>4. CASE \E p \in Live : ProcessSakuraItem(p)
    <2>1. PICK p \in Live : ProcessSakuraItem(p)
        BY <1>4
    <2>. QED
        BY <2>1, <1>1, CallStays
<1>5. CASE \E p \in Live : Join(p) \/ Finish(p)
    BY <1>1, <1>5, Zenon DEF Join, Finish
<1>5a. CASE \E p \in queue : Start(p)
    BY <1>1, <1>5a DEF Start
<1>6. CASE Idle \/ UNCHANGED vars
    BY <1>1, <1>6 DEF Idle, vars
<1>. QED
    BY <1>2, <1>3, <1>4, <1>5, <1>5a, <1>6 DEF Next

\* In every script, in every interleaving of its branches and iterations,
\* triggerTree fails if and only if an item of the script fails when its items
\* are evaluated one after the other, and otherwise returns the outputs of
\* that evaluation.  (processSakuraItem and what it calls; SubtreeQueue:
\* spawnParallelSubtrees.)  The condition is RunsAsWritten's own: no plan forks
\* again after it has had children, no parallel loop counts downwards.  The
\* assumption is that Meaning, GroupMeaning and
\* LoopMeaning satisfy their equations.  Such operators exist: the equations
\* are strict in Bad, which is what an evaluation without an end may mean.
THEOREM ScriptsRunAsWritten ==
    ASSUME MeaningIsDefined
    PROVE  Spec => []RunsAsWritten
<1>1. Init => RunsAsWritten
    BY DEF Init, RunsAsWritten
<1>2. PathInv /\ OrderInv /\ (orderly => NameInv)
        /\ (orderly => MeaningInv) /\ [Next]_vars
            => (orderly => MeaningInv)'
    BY MeaningInvNext
<1>3. NoNameLeaks /\ (orderly => MeaningInv) /\ RunsAsWritten
        /\ [Next]_vars
            => RunsAsWritten'
    BY RunsAsWrittenNext
<1>. QED
    BY PathInvInit, PathInvNext, OrderInvInit, OrderInvNext, NameInvInit,
       NameInvNext, NamesDoNotLeak, MeaningInvInit, <1>1, <1>2, <1>3, PTL DEF Spec
-----------------------------------------------------------------------------
\* Waiting: no script comes to a standstill.

\* Plans do one of four things, and they are not nested without a bound.
WaitInv ==
    /\ \A p \in Live : status[p] \in {"run", "wait", "ok", "failed"}
    /\ \E depth \in Nat : \A p \in Live : Len(p) <= depth

LEMMA NoDeeper ==
    ASSUME WaitInv, DOMAIN status' \subseteq Live,
           \A q \in DOMAIN status' :
                status'[q] \in {status[q], "run", "wait", "ok", "failed"}
    PROVE  WaitInv'
BY DEF WaitInv, Live

LEMMA SpawnDeepens ==
    ASSUME PathInv, NameInv, WaitInv, NEW p \in Live, status[p] = "run",
           todo[p] # <<>>, NEW stacks, NEW maps, NEW frame,
           Spawn(p, stacks, maps, frame)
    PROVE  WaitInv'
<1> DEFINE new == {Append(p, i) : i \in DOMAIN stacks}
<1>1. /\ DOMAIN status' = new \cup Live
      /\ \A q \in new : status'[q] = "run"
      /\ \A q \in Live \ {p} : status'[q] = status[q]
      /\ status'[p] = "wait"
    <2>1. /\ DOMAIN status' = new \cup Live
          /\ \A q \in new :
                /\ q \notin Live /\ q # Root /\ Front(q) = p
                /\ Last(q) \in DOMAIN stacks
                /\ status'[q] = "run" /\ todo'[q] = stacks[Last(q)]
                /\ items'[q] = maps[Last(q)] /\ filePath'[q] = filePath[p]
          /\ \A i \in DOMAIN stacks : /\ Append(p, i) \in new
                                      /\ Last(Append(p, i)) = i
          /\ \A q \in Live :
                /\ items'[q] = items[q] /\ filePath'[q] = filePath[q]
                /\ q # p => todo'[q] = todo[q] /\ status'[q] = status[q]
          /\ status'[p] = "wait" /\ Top(p)' = frame /\ Rest(p)' = Rest(p)
          /\ call' = call
        BY SpawnIs
    <2>. HIDE DEF new
    <2>. QED
        BY <2>1
<1>2. PICK depth \in Nat : \A q \in Live : Len(q) <= depth
    BY DEF WaitInv
<1>3. \A q \in new : Len(q) = Len(p) + 1
    <2>1. IsSeq(p)
        BY DEF PathInv
    <2>. QED
        BY <2>1, LenAppended
<1>4. Len(p) \in Nat /\ \A q \in Live : Len(q) \in Nat
    BY IsSeqProperties DEF PathInv
<1>. HIDE DEF new
<1>5. \A q \in new \cup Live : Len(q) <= depth + 1
    BY <1>2, <1>3, <1>4
<1>6. \A q \in new \cup Live :
        status'[q] \in {"run", "wait", "ok", "failed"}
    BY <1>1 DEF WaitInv
<1>7. depth + 1 \in Nat
    OBVIOUS
<1>. QED
    BY <1>1, <1>5, <1>6, <1>7 DEF WaitInv, Live

LEMMA WaitInvNext ==
    PathInv /\ (orderly => NameInv) /\ (orderly => WaitInv) /\ [Next]_vars
        => (orderly => WaitInv)'
<1>. SUFFICES ASSUME PathInv, NameInv, WaitInv, [Next]_vars PROVE WaitInv'
    BY OrderlyBefore
<1>1. CASE UNCHANGED status
    BY <1>1 DEF WaitInv, Live
<1>2. CASE TriggerTree
    <2>1. CASE UNCHANGED planVars
        BY <1>1, <2>1 DEF planVars
    <2>2. CASE status' = [p \in {Root} |-> "run"]
        <3>1. DOMAIN status' = {Root} /\ status'[Root] = "run"
            BY <2>2
        <3>2. Len(Root) = 0
            BY EmptyIsSeq DEF Root
        <3>. QED
            BY <3>1, <3>2 DEF WaitInv, Live
    <2>. QED
        BY <1>2, <2>1, <2>2, Zenon DEF TriggerTree
<1>3. CASE ReturnTrigger \/ \E p \in queue : Start(p)
    BY <1>1, <1>3 DEF ReturnTrigger, Start, planVars
<1>4. CASE \E p \in Live : ProcessSakuraItem(p)
    <2>1. PICK p \in Live : ProcessSakuraItem(p)
        BY <1>4
    <2>2. CASE \E stack, map, path : Continue(p, stack, map, path)
        BY <1>1, <2>2 DEF Continue
    <2>3. CASE Fail(p)
        <3>1. status' = [status EXCEPT ![p] = "failed"]
            BY <2>3 DEF Fail
        <3>. QED
            BY <3>1, NoDeeper DEF Live
    <2>4. CASE \E stacks, maps, frame : Spawn(p, stacks, maps, frame)
        BY <2>1, <2>4, StepsAre, SpawnDeepens
    <2>. QED
        BY <2>1, <2>2, <2>3, <2>4, StepsAre
<1>5. CASE \E p \in Live : Join(p)
    <2>1. PICK p \in Live : Join(p)
        BY <1>5
    <2> DEFINE kept == Live \ Below(p)
    <2>2. PICK s \in {"run", "failed"} :
            status' = [Restrict(status, kept) EXCEPT ![p] = s]
        BY <2>1, Zenon DEF Join
    <2>3. DOMAIN status' = kept
          /\ \A q \in kept : status'[q] \in {status[q], s}
        BY <2>2 DEF Restrict
    <2>. QED
        BY <2>3, NoDeeper
<1>6. CASE \E p \in Live : Finish(p)
    <2>1. PICK p \in Live : status' = [status EXCEPT ![p] = "ok"]
        BY <1>6 DEF Finish
    <2>. QED
        BY <2>1, NoDeeper DEF Live
<1>7. CASE Idle \/ UNCHANGED vars
    BY <1>1, <1>7 DEF Idle, vars, planVars
<1>. QED
    BY <1>2, <1>3, <1>4, <1>5, <1>6, <1>7 DEF Next

\* If fewer plans wait than there are threads, some plan with a worker is at
\* work, or a worker is free for one in the queue, or a plan's counter has come
\* to the number it waits for, or the plan of the triggered tree is the only
\* one left and has come to its end.
Waiting == {p \in Live : status[p] = "wait"}

SomebodyGoesOn ==
    orderly /\ Live # {} /\ Cardinality(Waiting) < NumberOfThreads =>
        \/ \E p \in Live \ queue : status[p] = "run"
        \/ \E p \in queue : Cardinality(Busy) < NumberOfThreads
        \/ \E p \in Waiting : IsCounter(p) = Top(p).shouldCount
        \/ Live = {Root} /\ Ended(Root)

\* Of the waiting plans that are nested deepest, none waits for another.
LEMMA DeepestGoesOn ==
    ASSUME PathInv, NameInv, WaitInv, ~\E p \in Live : status[p] = "run",
           Live # {}
    PROVE  \/ \E p \in Waiting : \A c \in Childs(p) : Ended(c)
           \/ Live = {Root} /\ Ended(Root)
<1>1. \A p \in Live : Ended(p) \/ p \in Waiting
    BY DEF WaitInv, Ended, Waiting
<1>2. CASE Waiting = {}
    <2>1. \A p \in Live : p = Root
        BY <1>2 DEF NameInv, Waiting
    <2>. QED
        BY <1>1, <1>2, <2>1
<1>3. CASE Waiting # {}
    <2>1. PICK depth \in Nat : \A p \in Live : Len(p) <= depth
        BY DEF WaitInv
    <2>2. \A p \in Live : Len(p) \in Nat
        BY IsSeqProperties DEF PathInv
    <2> DEFINE Above == {depth - Len(p) : p \in Waiting}
    <2>3. Above # {} /\ Above \subseteq Nat
        BY <1>3, <2>1, <2>2 DEF Waiting
    <2>4. PICK n \in Above : \A k \in Above : n <= k
        BY <2>3, LeastExists
    <2>5. PICK p \in Waiting : n = depth - Len(p)
        BY <2>4
    <2>6. ASSUME NEW q \in Waiting PROVE Len(q) <= Len(p)
        <3>1. n <= depth - Len(q)
            BY <2>4
        <3>2. Len(q) \in Nat /\ Len(p) \in Nat
            BY <2>2
        <3>. HIDE DEF Waiting
        <3>. QED
            BY <2>5, <3>1, <3>2
    <2>7. ASSUME NEW c \in Childs(p) PROVE c \notin Waiting
        <3>1. c \in Live /\ c = Append(p, Last(c))
            BY ChildsAreNumbered
        <3>2. Len(c) = Len(p) + 1
            <4>1. IsSeq(p)
                BY DEF PathInv, Waiting
            <4>. QED
                BY <3>1, <4>1, LenAppended
        <3>. QED
            BY <2>2, <2>6, <3>1, <3>2
    <2>8. \A c \in Childs(p) : Ended(c)
        BY <1>1, <2>7 DEF Childs
    <2>. QED
        BY <2>8
<1>. QED
    BY <1>2, <1>3

\* A counter that has counted all children is at the number that is awaited.
LEMMA CounterArrives ==
    ASSUME CountInv, NEW p \in Waiting, \A c \in Childs(p) : Ended(c)
    PROVE  IsCounter(p) = Top(p).shouldCount
<1> DEFINE number == Top(p).shouldCount
<1>1. CanCount(p, number, Childs(p))
    BY DEF CountInv, Waiting
<1>2. {c \in Childs(p) : Ended(c)} = Childs(p)
    OBVIOUS
<1>3. number \in Nat /\ number < CounterRange
    BY <1>1, FS_CardinalityType DEF CanCount
<1>4. IsCounter(p) = (0 + number) % CounterRange
    BY <1>1, <1>2 DEF CanCount, IsCounter
<1>5. (0 + number) % CounterRange = number
    <2>. HIDE DEF number
    <2>. QED
        BY <1>3, PoolAssumption
<1>. QED
    BY <1>4, <1>5

LEMMA OneGoesOn ==
    ASSUME PathInv, OrderInv, orderly => NameInv, orderly => WaitInv
    PROVE  SomebodyGoesOn
<1>. SUFFICES ASSUME orderly, Live # {},
                     Cardinality(Waiting) < NumberOfThreads,
                     ~\E p \in Live \ queue : status[p] = "run"
              PROVE  \/ \E p \in queue : Cardinality(Busy) < NumberOfThreads
                     \/ \E p \in Waiting : IsCounter(p) = Top(p).shouldCount
                     \/ Live = {Root} /\ Ended(Root)
    BY DEF SomebodyGoesOn
<1>1. Busy = Waiting
    BY DEF Busy, Waiting, OrderInv, QueueInv
<1>2. CASE queue # {}
    BY <1>1, <1>2
<1>3. CASE queue = {}
    BY <1>3, DeepestGoesOn, CounterArrives DEF OrderInv
<1>. QED
    BY <1>2, <1>3

\* However deep parallel parts and loops are nested, plans never wait for each
\* other in vain, as long as there are more workers than plans that wait at a
\* time: workers that wait take nothing from the queue.  (waitUntilFinish,
\* SakuraThread::run.)  With as many waiting plans as workers they do, as the
\* findings about SubtreeQueue show; so does a parallel loop that counts
\* downwards, which SomebodyGoesOn leaves out with all that is not orderly.
THEOREM ScriptsNeverStandStill == Spec => []SomebodyGoesOn
<1>1. Init => WaitInv
    <2>1. Init => Live = {}
        BY DEF Init, Live
    <2>. QED
        BY <2>1 DEF WaitInv
<1>2. PathInv /\ OrderInv /\ (orderly => NameInv) /\ (orderly => WaitInv)
        => SomebodyGoesOn
    BY OneGoesOn
<1>. QED
    BY PathInvInit, PathInvNext, OrderInvInit, OrderInvNext, NameInvInit,
       NameInvNext, WaitInvNext, <1>1, <1>2, PTL DEF Spec
=============================================================================
