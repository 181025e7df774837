------------------------- MODULE ReaderEvents_proofs -------------------------
(***************************************************************************)
(* What the steps of the reader process keep, for every number of          *)
(* balloons, readings and lost connections.  The theorems themselves are   *)
(* about the whole carousel (CarouselPosts_proofs): its listener takes     *)
(* from the list that the reader fills.                                    *)
(***************************************************************************)
EXTENDS ReaderEvents, SequenceTheorems, FiniteSetTheorems,
        WellFoundedInduction, TLAPS

-----------------------------------------------------------------------------
(***************************************************************************)
(* Induction over numbers, for one set at a time: the principle of the     *)
(* least number, from the intervals 1 .. n ordered by inclusion.           *)
(***************************************************************************)
\* A set of numbers that is not empty has a least element.
LEMMA Smallest ==
  ASSUME NEW T, T \subseteq Nat, T # {}
  PROVE  \E x \in T : \A y \in T : x <= y
  <1> DEFINE Below(n) == 1 .. n
             B == {Below(n) : n \in T}
             R == StrictSubsetOrdering(Nat)
  <1>1. B \subseteq FiniteSubsetsOf(Nat) /\ B # {}
    <2>1. ASSUME NEW n \in T PROVE Below(n) \in FiniteSubsetsOf(Nat)
      <3>1. IsFiniteSet(1 .. n) /\ 1 .. n \subseteq Nat
        BY FS_Interval
      <3> QED
        BY <3>1 DEF FiniteSubsetsOf
    <2> QED
      BY <2>1
  <1>2. IsWellFoundedOn(R, FiniteSubsetsOf(Nat))
    BY FS_StrictSubsetOrderingWellFounded
  <1> HIDE DEF B, R
  <1>3. PICK b \in B : \A c \in B : ~ (<<c, b>> \in R)
    BY <1>1, <1>2, WFMin
  <1>4. PICK x \in T : b = Below(x)
    BY DEF B
  <1>5. ASSUME NEW y \in T PROVE x <= y
    <2>1. Below(y) \in B
      BY DEF B
    <2>2. ~ (<<Below(y), Below(x)>> \in R)
      BY <2>1, <1>3, <1>4
    <2>3. Below(y) \subseteq Nat /\ Below(x) \subseteq Nat
      OBVIOUS
    <2>4. CASE y < x
      <3>1. Below(y) \subseteq Below(x) /\ x \in Below(x) /\ x \notin Below(y)
        BY <2>4
      <3> QED
        BY <2>2, <2>3, <3>1 DEF R, StrictSubsetOrdering
    <2> QED
      BY <2>4
  <1> QED
    BY <1>5

\* A set that has 0, and each number up to n whose predecessor it has, has all
\* of them.
LEMMA UpTo ==
  ASSUME NEW n \in Nat, NEW G,
         0 \in G, \A i \in 1 .. n : i - 1 \in G => i \in G
  PROVE  \A i \in 0 .. n : i \in G
  <1> DEFINE T == {i \in 0 .. n : i \notin G}
  <1> SUFFICES ASSUME T # {} PROVE FALSE
    OBVIOUS
  <1>1. PICK x \in T : \A y \in T : x <= y
    <2>1. T \subseteq Nat
      OBVIOUS
    <2> HIDE DEF T
    <2> QED
      BY <2>1, Smallest
  <1>2. x - 1 \notin T /\ x # 0
    BY <1>1
  <1> QED
    BY <1>1, <1>2

-----------------------------------------------------------------------------
(***************************************************************************)
(* Sequences of tags.                                                      *)
(***************************************************************************)
Increasing(s) == \A i, j \in DOMAIN s : i < j => s[i] < s[j]

\* The last tag, 0 if there is none.
Top(s) == IF s = <<>> THEN 0 ELSE s[Len(s)]

\* The first k elements of t are the last k of s.
EndsWith(s, t, k) ==
  k <= Len(s) /\ \A j \in 1 .. k : s[Len(s) - k + j] = t[j]

LEMMA Appended ==
  ASSUME NEW S, NEW s \in Seq(S), NEW e \in S
  PROVE  /\ Append(s, e) \in Seq(S) /\ Append(s, e) # <<>>
         /\ Len(s) \in Nat /\ Len(Append(s, e)) = Len(s) + 1
         /\ DOMAIN s = 1 .. Len(s) /\ DOMAIN Append(s, e) = 1 .. Len(s) + 1
         /\ \A i \in 1 .. Len(s) : Append(s, e)[i] = s[i]
         /\ Append(s, e)[Len(s) + 1] = e
         /\ \A x : Among(x, Append(s, e)) <=> Among(x, s) \/ x = e
  <1>1. /\ Append(s, e) \in Seq(S) /\ Append(s, e) # <<>>
        /\ Len(s) \in Nat /\ Len(Append(s, e)) = Len(s) + 1
        /\ DOMAIN s = 1 .. Len(s) /\ DOMAIN Append(s, e) = 1 .. Len(s) + 1
        /\ \A i \in 1 .. Len(s) : Append(s, e)[i] = s[i]
        /\ Append(s, e)[Len(s) + 1] = e
    BY AppendProperties
  <1> QED
    BY <1>1 DEF Among

LEMMA Shortened ==
  ASSUME NEW S, NEW s \in Seq(S), s # <<>>
  PROVE  /\ Len(s) \in Nat \ {0} /\ DOMAIN s = 1 .. Len(s)
         /\ Head(s) = s[1] /\ Head(s) \in S
         /\ Tail(s) \in Seq(S) /\ Len(Tail(s)) = Len(s) - 1
         /\ DOMAIN Tail(s) = 1 .. Len(s) - 1
         /\ \A i \in 1 .. Len(s) - 1 : Tail(s)[i] = s[i + 1]
         /\ \A x : Among(x, s) <=> x = Head(s) \/ Among(x, Tail(s))
  <1>1. /\ Len(s) \in Nat \ {0} /\ DOMAIN s = 1 .. Len(s)
        /\ Head(s) = s[1] /\ Head(s) \in S
        /\ Tail(s) \in Seq(S) /\ Len(Tail(s)) = Len(s) - 1
        /\ DOMAIN Tail(s) = 1 .. Len(s) - 1
        /\ \A i \in 1 .. Len(s) - 1 : Tail(s)[i] = s[i + 1]
    BY HeadTailProperties
  <1>2. \A i \in DOMAIN s : i = 1 \/ (i - 1 \in DOMAIN Tail(s) /\ Tail(s)[i - 1] = s[i])
    BY <1>1
  <1>3. \A i \in DOMAIN Tail(s) : i + 1 \in DOMAIN s /\ s[i + 1] = Tail(s)[i]
    BY <1>1
  <1>4. \A x : Among(x, s) => x = Head(s) \/ Among(x, Tail(s))
    BY <1>1, <1>2 DEF Among
  <1>5. \A x : x = Head(s) \/ Among(x, Tail(s)) => Among(x, s)
    BY <1>1, <1>3 DEF Among
  <1> QED
    BY <1>1, <1>4, <1>5

LEMMA TopIsLargest ==
  ASSUME NEW S, S \subseteq Nat, NEW s \in Seq(S), Increasing(s)
  PROVE  /\ Top(s) \in Nat /\ \A x : Among(x, s) => x \in S /\ x <= Top(s)
         /\ s # <<>> => Top(s) \in S /\ Among(Top(s), s)
  <1>1. /\ Len(s) \in Nat /\ DOMAIN s = 1 .. Len(s) /\ (s # <<>> => Len(s) > 0)
        /\ \A i \in DOMAIN s : s[i] \in S /\ s[i] \in Nat
    <2>1. s # <<>> => Len(s) # 0
      BY EmptySeq
    <2>2. Len(s) \in Nat /\ DOMAIN s = 1 .. Len(s)
      OBVIOUS
    <2>3. \A i \in DOMAIN s : s[i] \in S
      BY <2>2, ElementOfSeq
    <2>4. \A i \in DOMAIN s : s[i] \in Nat
      BY <2>3
    <2>5. s # <<>> => Len(s) > 0
      BY <2>1, <2>2
    <2> QED
      BY <2>2, <2>3, <2>4, <2>5
  <1>2. ASSUME NEW i \in DOMAIN s PROVE s[i] <= s[Len(s)] /\ s # <<>>
    <2>1. Len(s) \in DOMAIN s /\ i <= Len(s) /\ i \in Int
      BY <1>1
    <2>2. i = Len(s) \/ s[i] < s[Len(s)]
      BY <1>1, <2>1 DEF Increasing
    <2> QED
      BY <1>1, <2>1, <2>2
  <1>3. s # <<>> => Top(s) = s[Len(s)] /\ Len(s) \in DOMAIN s
    BY <1>1 DEF Top
  <1>4. Top(s) \in Nat
    BY <1>1, <1>3 DEF Top
  <1> QED
    BY <1>1, <1>2, <1>3, <1>4 DEF Among

LEMMA IncreasingAppended ==
  ASSUME NEW S, S \subseteq Nat, NEW s \in Seq(S), NEW e \in S,
         Increasing(s), e > Top(s)
  PROVE  Increasing(Append(s, e)) /\ Top(Append(s, e)) = e
  <1>1. \A i \in DOMAIN s : s[i] \in S /\ s[i] < e
    <2>1. \A i \in DOMAIN s : s[i] \in S /\ s[i] <= Top(s)
      BY TopIsLargest DEF Among
    <2>2. Top(s) \in Nat /\ e \in Nat /\ Top(s) < e
      BY TopIsLargest
    <2>3. \A i \in DOMAIN s : s[i] \in Nat
      BY <2>1
    <2> QED
      BY <2>1, <2>2, <2>3
  <1> QED
    BY <1>1, Appended DEF Increasing, Top

LEMMA IncreasingShortened ==
  ASSUME NEW S, S \subseteq Nat, NEW s \in Seq(S), Increasing(s), s # <<>>
  PROVE  /\ Increasing(Tail(s)) /\ \A x : Among(x, Tail(s)) => Head(s) < x
         /\ Tail(s) # <<>> => Top(Tail(s)) = Top(s)
  <1>1. \A i \in DOMAIN Tail(s) : i + 1 \in DOMAIN s /\ Tail(s)[i] = s[i + 1]
    BY Shortened
  <1>2. Increasing(Tail(s))
    BY <1>1, Shortened DEF Increasing
  <1>3. \A x : Among(x, Tail(s)) => Head(s) < x
    BY <1>1, Shortened DEF Increasing, Among
  <1>4. Tail(s) # <<>> => Top(Tail(s)) = Top(s)
    <2>1. Tail(s) # <<>> => Len(Tail(s)) \in 1 .. Len(s) - 1
      BY Shortened
    <2> QED
      BY <2>1, Shortened DEF Top
  <1> QED
    BY <1>2, <1>3, <1>4

LEMMA BalloonsAreNumbers == Balloons \subseteq Nat /\ Optical \notin Balloons
  BY DEF Balloons, Optical

LEMMA Remembered ==
  ASSUME NEW s \in Seq(Balloons), NEW t \in Balloons
  PROVE  /\ Remember(s, t) \in Seq(Balloons) /\ Remember(s, t) # <<>>
         /\ \A x : Among(x, Remember(s, t)) => Among(x, s) \/ x = t
         /\ Among(t, Remember(s, t))
         /\ Increasing(s) /\ t > Top(s) =>
              Increasing(Remember(s, t)) /\ Top(Remember(s, t)) = t
         /\ \A u, k : /\ k \in 0 .. Memory - 1 /\ EndsWith(s, u, k)
                      /\ u[k + 1] = t
                      => EndsWith(Remember(s, t), u, k + 1)
  <1> DEFINE a == Append(s, t)
  <1>1. /\ a \in Seq(Balloons) /\ a # <<>> /\ Len(a) = Len(s) + 1 /\ Len(s) \in Nat
        /\ DOMAIN a = 1 .. Len(s) + 1
        /\ \A i \in 1 .. Len(s) : a[i] = s[i]
        /\ a[Len(s) + 1] = t
        /\ \A x : Among(x, a) <=> Among(x, s) \/ x = t
    BY Appended
  <1>2. Increasing(s) /\ t > Top(s) => Increasing(a) /\ Top(a) = t
    BY IncreasingAppended, BalloonsAreNumbers
  <1>3. ASSUME NEW u, NEW k \in 0 .. Memory - 1, EndsWith(s, u, k), u[k + 1] = t
        PROVE  EndsWith(a, u, k + 1)
    <2>1. ASSUME NEW j \in 1 .. k + 1 PROVE a[Len(a) - (k + 1) + j] = u[j]
      <3>1. Len(a) - (k + 1) + j = Len(s) - k + j /\ k <= Len(s) /\ k \in Nat
        BY <1>1, <1>3, ReaderBounds DEF EndsWith
      <3>2. CASE j = k + 1
        BY <1>1, <1>3, <3>1, <3>2
      <3>3. CASE j \in 1 .. k
        <4>1. Len(s) - k + j \in 1 .. Len(s)
          BY <1>1, <3>1, <3>3
        <4> QED
          BY <1>1, <1>3, <3>1, <3>3, <4>1 DEF EndsWith
      <3> QED
        BY <3>1, <3>2, <3>3
    <2> QED
      BY <1>1, <1>3, <2>1, ReaderBounds DEF EndsWith
  <1> HIDE DEF a
  <1>4. CASE Len(a) <= Memory
    <2>1. Remember(s, t) = a
      BY <1>1, <1>4, ReaderBounds DEF Remember, a
    <2> QED
      BY <1>1, <1>2, <1>3, <2>1
  <1>5. CASE Len(a) > Memory
    <2>1. Remember(s, t) = Tail(a)
      BY <1>5 DEF Remember, a
    <2>2. /\ Tail(a) \in Seq(Balloons) /\ Len(Tail(a)) = Len(s)
          /\ \A i \in 1 .. Len(s) : Tail(a)[i] = a[i + 1]
          /\ DOMAIN Tail(a) = 1 .. Len(s)
          /\ \A x : Among(x, a) <=> x = Head(a) \/ Among(x, Tail(a))
      BY <1>1, Shortened
    <2>3. Len(s) \in DOMAIN Tail(a) /\ Tail(a)[Len(s)] = t
      BY <1>1, <1>5, <2>2, ReaderBounds
    <2>4. Tail(a) # <<>> /\ Among(t, Tail(a))
      BY <2>2, <2>3 DEF Among
    <2>5. Increasing(s) /\ t > Top(s) => Increasing(Tail(a)) /\ Top(Tail(a)) = t
      BY <1>1, <1>2, <2>4, IncreasingShortened, BalloonsAreNumbers
    <2>6. ASSUME NEW u, NEW k \in 0 .. Memory - 1, EndsWith(a, u, k + 1)
          PROVE  EndsWith(Tail(a), u, k + 1)
      <3>1. k + 1 <= Len(s) /\ k \in Nat
        BY <1>1, <1>5, ReaderBounds
      <3>2. ASSUME NEW j \in 1 .. k + 1 PROVE Tail(a)[Len(s) - (k + 1) + j] = u[j]
        <4>1. Len(s) - (k + 1) + j \in 1 .. Len(s)
          BY <1>1, <3>1
        <4>2. Len(s) - (k + 1) + j + 1 = Len(a) - (k + 1) + j
          BY <1>1, <3>1
        <4> QED
          BY <2>2, <2>6, <4>1, <4>2 DEF EndsWith
      <3> QED
        BY <2>2, <3>1, <3>2 DEF EndsWith
    <2> QED
      BY <1>1, <1>3, <2>1, <2>2, <2>4, <2>5, <2>6
  <1> QED
    BY <1>1, <1>4, <1>5, ReaderBounds

-----------------------------------------------------------------------------
(***************************************************************************)
(* The filter.                                                             *)
(***************************************************************************)
\* What the filter has after i tags, f being what it has before.
Stage(tags, s, i, f) ==
  IF i = 0 THEN [seen |-> s, new |-> <<>>]
  ELSE IF Among(tags[i], f[i - 1].seen) THEN f[i - 1]
  ELSE [seen |-> Remember(f[i - 1].seen, tags[i]),
        new |-> Append(f[i - 1].new, tags[i])]

LEMMA StagesExist ==
  ASSUME NEW tags, NEW s, NEW n \in Nat
  PROVE  \E f : f = [i \in 0 .. n |-> Stage(tags, s, i, f)]
  <1> DEFINE G == {k \in 0 .. n : \E f : f = [i \in 0 .. k |-> Stage(tags, s, i, f)]}
  <1>1. 0 \in G
    <2> DEFINE f == [i \in 0 .. 0 |-> [seen |-> s, new |-> <<>>]]
    <2>1. f = [i \in 0 .. 0 |-> Stage(tags, s, i, f)]
      BY DEF Stage
    <2> QED
      BY <2>1
  <1>2. ASSUME NEW k \in 1 .. n, k - 1 \in G PROVE k \in G
    <2>1. PICK f : f = [i \in 0 .. (k - 1) |-> Stage(tags, s, i, f)]
      BY <1>2
    <2> DEFINE g == [i \in 0 .. k |-> IF i = k THEN Stage(tags, s, k, f) ELSE f[i]]
    <2>2. ASSUME NEW i \in 0 .. k PROVE g[i] = Stage(tags, s, i, g)
      <3>1. i # 0 => g[i - 1] = f[i - 1]
        OBVIOUS
      <3>2. Stage(tags, s, i, g) = Stage(tags, s, i, f)
        BY <3>1 DEF Stage
      <3>3. g[i] = Stage(tags, s, i, f)
        BY <2>1
      <3> QED
        BY <3>2, <3>3
    <2>3. g = [i \in 0 .. k |-> Stage(tags, s, i, g)]
      <3>1. g = [i \in 0 .. k |-> g[i]]
        OBVIOUS
      <3> HIDE DEF g
      <3> QED
        BY <2>2, <3>1
    <2> HIDE DEF g
    <2> QED
      BY <2>3
  <1> HIDE DEF G
  <1>3. n \in G
    BY <1>1, <1>2, UpTo
  <1> QED
    BY <1>3 DEF G

LEMMA FilterStages ==
  ASSUME NEW tags, NEW s, Len(tags) \in Nat
  PROVE  \E f : /\ f = [i \in 0 .. Len(tags) |-> Stage(tags, s, i, f)]
                /\ Filter(tags, s) = f[Len(tags)]
  <1>1. PICK f : f = [i \in 0 .. Len(tags) |-> Stage(tags, s, i, f)]
    BY StagesExist
  <1> QED
    BY <1>1 DEF Filter, Stage

\* What is remembered afterwards was remembered before or is new; what is new is
\* a tag of the event, and a tag of the event was remembered or is new.
LEMMA FilterKeeps ==
  ASSUME NEW tags \in Seq(Balloons), NEW s \in Seq(Balloons)
  PROVE  /\ Filter(tags, s).seen \in Seq(Balloons)
         /\ Filter(tags, s).new \in Seq(Balloons)
         /\ Len(Filter(tags, s).new) <= Len(tags)
         /\ \A x : Among(x, Filter(tags, s).seen) =>
                     Among(x, s) \/ Among(x, Filter(tags, s).new)
         /\ \A x : Among(x, Filter(tags, s).new) => Among(x, tags)
         /\ \A x : Among(x, tags) => Among(x, s) \/ Among(x, Filter(tags, s).new)
  <1>1. PICK f : /\ f = [i \in 0 .. Len(tags) |-> Stage(tags, s, i, f)]
                 /\ Filter(tags, s) = f[Len(tags)]
    <2>1. Len(tags) \in Nat
      OBVIOUS
    <2> QED
      BY <2>1, FilterStages
  <1> DEFINE Good(r, i) ==
        /\ r.seen \in Seq(Balloons) /\ r.new \in Seq(Balloons)
        /\ Len(r.new) <= i
        /\ \A x : Among(x, r.seen) => Among(x, s) \/ Among(x, r.new)
        /\ \A x : Among(x, r.new) => Among(x, tags)
        /\ \A j \in 1 .. i : Among(tags[j], s) \/ Among(tags[j], r.new)
      G == {i \in 0 .. Len(tags) : Good(f[i], i)}
  <1>2. Len(tags) \in Nat /\ DOMAIN tags = 1 .. Len(tags)
    OBVIOUS
  <1>3. 0 \in G
    <2> DEFINE q == f[0]
    <2>1. q.seen = s /\ q.new = <<>> /\ Len(<<>>) = 0 /\ <<>> \in Seq(Balloons)
      BY <1>1, <1>2 DEF Stage
    <2> HIDE DEF q
    <2>2. \A x : ~Among(x, q.new)
      BY <2>1 DEF Among
    <2>3. Good(q, 0)
      BY <2>1, <2>2
    <2> QED
      BY <1>2, <2>3 DEF q
  <1>4. ASSUME NEW i \in 1 .. Len(tags), i - 1 \in G PROVE i \in G
    <2> DEFINE r == f[i - 1]
    <2>0. i \in DOMAIN tags /\ tags[i] \in Balloons /\ Among(tags[i], tags)
      BY <1>2, ElementOfSeq DEF Among
    <2>1. Good(r, i - 1) /\ tags[i] \in Balloons /\ Among(tags[i], tags)
      BY <1>4, <2>0
    <2>2. f[i] = Stage(tags, s, i, f) /\ i # 0 /\ i \in 0 .. Len(tags) /\ i \in Nat
      BY <1>1, <1>2
    <2>3. CASE Among(tags[i], r.seen)
      <3>1. f[i] = r
        BY <2>2, <2>3 DEF Stage
      <3>2. \A j \in 1 .. i : j \in 1 .. i - 1 \/ j = i
        BY <2>2
      <3> HIDE DEF r
      <3>3. Good(r, i)
        BY <2>1, <2>2, <2>3, <3>2
      <3> QED
        BY <2>2, <3>1, <3>3
    <2>4. CASE ~Among(tags[i], r.seen)
      <3>1. f[i] = [seen |-> Remember(r.seen, tags[i]), new |-> Append(r.new, tags[i])]
        BY <2>2, <2>4 DEF Stage
      <3> HIDE DEF r
      <3>2. /\ Remember(r.seen, tags[i]) \in Seq(Balloons)
            /\ \A x : Among(x, Remember(r.seen, tags[i])) =>
                       Among(x, r.seen) \/ x = tags[i]
        BY <2>1, Remembered
      <3>3. /\ Append(r.new, tags[i]) \in Seq(Balloons)
            /\ Len(r.new) \in Nat
            /\ Len(Append(r.new, tags[i])) = Len(r.new) + 1
            /\ \A x : Among(x, Append(r.new, tags[i])) <=>
                       Among(x, r.new) \/ x = tags[i]
        BY <2>1, Appended
      <3>4. Good(f[i], i)
        <4> DEFINE q == f[i]
        <4>1. q.seen = Remember(r.seen, tags[i]) /\ q.new = Append(r.new, tags[i])
          BY <3>1
        <4> HIDE DEF q
        <4>2. Len(q.new) <= i
          BY <2>1, <2>2, <3>3, <4>1
        <4>3. \A j \in 1 .. i : j \in 1 .. i - 1 \/ j = i
          BY <2>2
        <4>4. \A j \in 1 .. i : Among(tags[j], s) \/ Among(tags[j], q.new)
          BY <2>1, <3>3, <4>1, <4>3
        <4>5. Good(q, i)
          BY <2>1, <3>2, <3>3, <4>1, <4>2, <4>4
        <4> QED
          BY <4>5 DEF q
      <3> QED
        BY <2>2, <3>4
    <2> QED
      BY <2>3, <2>4
  <1> HIDE DEF G
  <1>5. \A i \in 0 .. Len(tags) : i \in G
    BY <1>2, <1>3, <1>4, UpTo
  <1>6. Len(tags) \in G
    BY <1>2, <1>5
  <1>7. Good(Filter(tags, s), Len(tags))
    BY <1>1, <1>6 DEF G
  <1>8. \A x : Among(x, tags) => \E j \in 1 .. Len(tags) : x = tags[j]
    BY <1>2 DEF Among
  <1> QED
    BY <1>7, <1>8

\* The tags that a reader may be sent: those it knows first, the rest passed
\* after all it has seen.
Follows(tags, s, k) ==
  /\ k \in 0 .. Len(tags) /\ EndsWith(s, tags, k)
  /\ \A j \in DOMAIN tags : j > k => tags[j] > Top(s)

\* The new tags follow all that were seen, and the event is known afterwards.
LEMMA FilterOrders ==
  ASSUME NEW tags \in Seq(Balloons), NEW s \in Seq(Balloons), tags # <<>>,
         Increasing(tags), Increasing(s), NEW k, Follows(tags, s, k)
  PROVE  LET r == Filter(tags, s) IN
         /\ Increasing(r.seen) /\ Increasing(r.new)
         /\ Top(s) <= Top(r.seen)
         /\ Top(r.seen) \in {Top(s), Top(tags)}
         /\ \A x : Among(x, r.new) => x > Top(s) /\ x <= Top(r.seen)
         /\ Len(tags) <= Memory => EndsWith(r.seen, tags, Len(tags))
  <1>1. PICK f : /\ f = [i \in 0 .. Len(tags) |-> Stage(tags, s, i, f)]
                 /\ Filter(tags, s) = f[Len(tags)]
    <2>1. Len(tags) \in Nat
      OBVIOUS
    <2> QED
      BY <2>1, FilterStages
  <1> DEFINE Good(r, i) ==
        /\ r.seen \in Seq(Balloons) /\ r.new \in Seq(Balloons)
        /\ Increasing(r.seen) /\ Increasing(r.new)
        /\ i <= k => r = [seen |-> s, new |-> <<>>]
        /\ i > k => Top(r.seen) = tags[i] /\ r.new # <<>> /\ Top(r.new) = tags[i]
        /\ \A x : Among(x, r.new) => x > Top(s)
        /\ k <= i /\ i <= Memory => EndsWith(r.seen, tags, i)
      G == {i \in 0 .. Len(tags) : Good(f[i], i)}
  <1>2. /\ Len(tags) \in Nat \ {0} /\ DOMAIN tags = 1 .. Len(tags) /\ k \in 0 .. Len(tags)
        /\ Top(s) \in Nat /\ \A i \in DOMAIN tags : tags[i] \in Balloons
        /\ \A j \in 1 .. k : Among(tags[j], s)
    <2>1. Len(tags) \in Nat \ {0} /\ DOMAIN tags = 1 .. Len(tags) /\ k \in 0 .. Len(tags)
      BY Shortened DEF Follows
    <2>2. Top(s) \in Nat
      BY TopIsLargest, BalloonsAreNumbers
    <2>3. \A i \in DOMAIN tags : tags[i] \in Balloons
      BY <2>1, ElementOfSeq
    <2>4. ASSUME NEW j \in 1 .. k PROVE Among(tags[j], s)
      <3>1. Len(s) \in Nat /\ DOMAIN s = 1 .. Len(s) /\ k <= Len(s)
        BY DEF Follows, EndsWith
      <3>2. Len(s) - k + j \in DOMAIN s /\ s[Len(s) - k + j] = tags[j]
        BY <2>1, <3>1 DEF Follows, EndsWith
      <3> QED
        BY <3>2 DEF Among
    <2> QED
      BY <2>1, <2>2, <2>3, <2>4
  <1>3. 0 \in G
    <2> DEFINE q == f[0]
    <2>1. /\ q = [seen |-> s, new |-> <<>>] /\ q.seen = s /\ q.new = <<>>
          /\ <<>> \in Seq(Balloons)
      BY <1>1, <1>2 DEF Stage
    <2> HIDE DEF q
    <2>2. EndsWith(s, tags, 0)
      BY DEF EndsWith
    <2>3. Increasing(q.new) /\ \A x : ~Among(x, q.new)
      BY <2>1 DEF Increasing, Among
    <2>4. Good(q, 0)
      BY <1>2, <2>1, <2>2, <2>3
    <2> QED
      BY <1>2, <2>4 DEF q
  <1>4. ASSUME NEW i \in 1 .. Len(tags), i - 1 \in G PROVE i \in G
    <2> DEFINE r == f[i - 1]
               t == tags[i]
    <2>0. t \in Balloons /\ t \in Nat /\ i \in Nat /\ i \in DOMAIN tags
          /\ i # 0 /\ i \in 0 .. Len(tags)
      <3>1. i \in Nat /\ i \in DOMAIN tags /\ i # 0 /\ i \in 0 .. Len(tags)
        BY <1>2
      <3>2. t \in Balloons
        BY <1>2, <3>1
      <3> QED
        BY <3>1, <3>2, BalloonsAreNumbers
    <2>1. Good(r, i - 1) /\ t \in Balloons /\ t \in Nat /\ i \in Nat /\ i \in DOMAIN tags
      BY <1>4, <2>0
    <2>2. f[i] = Stage(tags, s, i, f) /\ i # 0 /\ i \in 0 .. Len(tags)
      BY <1>1, <2>0
    <2>3. CASE i <= k
      <3>1. r = [seen |-> s, new |-> <<>>] /\ Among(t, s)
        BY <1>2, <2>1, <2>3
      <3>2. f[i] = r
        BY <2>2, <3>1 DEF Stage
      <3>3. k <= i => EndsWith(s, tags, i)
        BY <1>2, <2>1, <2>3 DEF Follows
      <3>4. Good(f[i], i)
        BY <1>2, <2>1, <2>3, <3>1, <3>2, <3>3
      <3> QED
        BY <2>2, <3>4
    <2>4. CASE i > k
      <3>1. t > Top(r.seen) /\ t > Top(s) /\ t > Top(r.new)
        <4>1. CASE i - 1 > k
          <5>1. t > tags[i - 1] /\ Top(r.seen) = tags[i - 1] /\ Top(r.new) = tags[i - 1]
            <6>1. i - 1 \in DOMAIN tags /\ i - 1 < i /\ tags[i - 1] < t
              <7>1. i - 1 \in 1 .. Len(tags) /\ i - 1 < i /\ i \in DOMAIN tags
                BY <1>2, <2>1, <4>1
              <7> QED
                BY <1>2, <7>1 DEF Increasing
            <6>2. Top(r.seen) = tags[i - 1] /\ Top(r.new) = tags[i - 1]
              BY <2>1, <4>1
            <6>3. tags[i - 1] \in Nat
              BY <1>2, <6>1, BalloonsAreNumbers
            <6> QED
              BY <2>1, <6>1, <6>2, <6>3
          <5> QED
            BY <1>2, <2>1, <2>4, <5>1 DEF Follows
        <4>2. CASE i - 1 <= k
          <5>1. r.seen = s /\ r.new = <<>>
            BY <2>1, <4>2
          <5>2. t > Top(s) /\ t > 0
            BY <1>2, <2>1, <2>4 DEF Follows
          <5>3. Top(<<>>) = 0
            BY DEF Top
          <5> QED
            BY <5>1, <5>2, <5>3
        <4> QED
          BY <1>2, <2>1, <2>4, <4>1, <4>2
      <3>2. ~Among(t, r.seen)
        <4>1. Among(t, r.seen) => t <= Top(r.seen)
          BY <2>1, TopIsLargest, BalloonsAreNumbers
        <4>2. Top(r.seen) \in Nat
          BY <2>1, TopIsLargest, BalloonsAreNumbers
        <4> QED
          BY <2>0, <3>1, <4>1, <4>2
      <3>3. f[i] = [seen |-> Remember(r.seen, t), new |-> Append(r.new, t)]
        BY <2>2, <3>2 DEF Stage
      <3>4. k <= i - 1
        BY <1>2, <2>1, <2>4
      <3> HIDE DEF r, t
      <3>5. /\ Remember(r.seen, t) \in Seq(Balloons)
            /\ Increasing(Remember(r.seen, t)) /\ Top(Remember(r.seen, t)) = t
        BY <2>1, <3>1, Remembered
      <3>6. /\ Append(r.new, t) \in Seq(Balloons) /\ Append(r.new, t) # <<>>
            /\ \A x : Among(x, Append(r.new, t)) <=> Among(x, r.new) \/ x = t
        <4>1. r.new \in Seq(Balloons)
          BY <2>1
        <4> QED
          BY <2>0, <4>1, Appended
      <3>7. Increasing(Append(r.new, t)) /\ Top(Append(r.new, t)) = t
        BY <2>1, <3>1, IncreasingAppended, BalloonsAreNumbers
      <3>8. i <= Memory => EndsWith(Remember(r.seen, t), tags, i)
        <4>1. SUFFICES ASSUME i <= Memory
                       PROVE  EndsWith(Remember(r.seen, t), tags, i)
          OBVIOUS
        <4>2. i - 1 \in 0 .. Memory - 1 /\ tags[(i - 1) + 1] = t
          BY <2>1, <4>1, ReaderBounds DEF t
        <4>3. EndsWith(r.seen, tags, i - 1)
          <5>1. k <= i - 1 /\ i - 1 <= Memory
            BY <2>0, <3>4, <4>1, ReaderBounds
          <5> QED
            BY <2>1, <5>1
        <4>4. EndsWith(Remember(r.seen, t), tags, (i - 1) + 1)
          BY <2>1, <4>2, <4>3, Remembered
        <4> QED
          BY <2>1, <4>4
      <3>9. Good(f[i], i)
        <4> DEFINE q == f[i]
        <4>1. q.seen = Remember(r.seen, t) /\ q.new = Append(r.new, t)
          BY <3>3
        <4> HIDE DEF q
        <4>2. \A x : Among(x, q.new) => x > Top(s)
          BY <2>1, <3>1, <3>6, <4>1
        <4>3. ~(i <= k) /\ t = tags[i]
          BY <1>2, <2>1, <2>4 DEF t
        <4>4. Good(q, i)
          BY <3>5, <3>6, <3>7, <3>8, <4>1, <4>2, <4>3
        <4> QED
          BY <4>4 DEF q
      <3> QED
        BY <2>2, <3>9
    <2> QED
      BY <1>2, <2>1, <2>3, <2>4
  <1> HIDE DEF G
  <1>5. Len(tags) \in G
    <2>1. Len(tags) \in Nat /\ Len(tags) \in 0 .. Len(tags)
      BY <1>2
    <2>2. \A i \in 0 .. Len(tags) : i \in G
      BY <1>3, <1>4, <2>1, UpTo
    <2> QED
      BY <2>1, <2>2
  <1> DEFINE r == Filter(tags, s)
             n == Len(tags)
  <1>6. Good(r, n)
    BY <1>1, <1>5 DEF G
  <1> HIDE DEF r, n
  <1>7. n \in Nat \ {0} /\ k \in Nat /\ k <= n /\ Top(tags) = tags[n]
    BY <1>2 DEF n, Top
  <1>8. CASE n <= k
    <2>1. r.seen = s /\ r.new = <<>> /\ (n <= Memory => EndsWith(r.seen, tags, n))
      BY <1>6, <1>7, <1>8
    <2> QED
      BY <1>2, <1>6, <2>1 DEF Among, r, n
  <1>9. CASE n > k
    <2>1. /\ Top(r.seen) = Top(tags) /\ Top(r.new) = Top(tags) /\ Top(tags) > Top(s)
          /\ (n <= Memory => EndsWith(r.seen, tags, n))
      BY <1>2, <1>6, <1>7, <1>9 DEF Follows, n
    <2>2. \A x : Among(x, r.new) => x <= Top(r.new)
      BY <1>6, TopIsLargest, BalloonsAreNumbers
    <2>3. Top(tags) \in Nat
      BY TopIsLargest, BalloonsAreNumbers
    <2> QED
      BY <1>2, <1>6, <2>1, <2>2, <2>3 DEF r, n
  <1> QED
    BY <1>7, <1>8, <1>9

-----------------------------------------------------------------------------
(***************************************************************************)
(* The invariant of the reader, in parts.                                  *)
(***************************************************************************)
Events == {<<Optical>>} \cup (Seq(Balloons) \ {<<>>})

\* What a handler still has to serve follows from where it is.
JobShape(job) ==
  /\ job.pc = "tags" => job.todo \in Seq(Balloons)
  /\ job.pc = "input" => job.todo = <<Optical>>
  /\ job.pc \in {"idle", "ack"} => job.todo = <<>>

\* Who waits for the thread has something to serve, and waits once; the event
\* that is in flight is still in the buffer.
ReaderShape ==
  /\ ReaderTypeOK
  /\ buffer \in Seq(Events) /\ (InFlight => buffer # <<>>)
  /\ \A h \in Handlers : JobShape(jobs[h])
  /\ \A i \in DOMAIN calls :
       jobs[calls[i]].pc \in {"tags", "input"} /\ jobs[calls[i]].todo # <<>>
  /\ \A i, j \in DOMAIN calls : calls[i] = calls[j] => i = j

LongestEvent == IF "pair" \in mishaps THEN MaxTags ELSE 1

\* The events lie in the order of the belt.  All but the first carry tags that
\* are new, or the last one that was seen; the first may also be one that has
\* been served, and is known to the filter if it can be sent again.
BufferOrder ==
  /\ Increasing(seen) /\ Top(seen) <= passed
  /\ \A i \in DOMAIN buffer : buffer[i] # <<Optical>> =>
       /\ Increasing(buffer[i]) /\ Len(buffer[i]) <= LongestEvent
       /\ Top(buffer[i]) <= passed
       /\ i > 1 => Top(seen) <= buffer[i][1]
  /\ \A i, j \in DOMAIN buffer :
       i < j /\ buffer[i] # <<Optical>> /\ buffer[j] # <<Optical>>
         => Top(buffer[i]) <= buffer[j][1]
  /\ (buffer # <<>> /\ buffer[1] # <<Optical>> /\ (InFlight => "drop" \in mishaps))
       => \E k \in 0 .. Len(buffer[1]) : Follows(buffer[1], seen, k)

\* A tag that waits to be served is known to the filter, waits once, and has
\* neither been counted nor left a passport.
ServedOnce ==
  /\ \A h \in Handlers : jobs[h].pc = "tags" =>
       Increasing(jobs[h].todo) /\ Top(jobs[h].todo) <= Top(seen)
  /\ \A b \in Balloons :
       /\ counted[b] <= 1 /\ pushed[b] <= 1
       /\ counted[b] > 0 \/ pushed[b] > 0 => b <= Top(seen)
       /\ \A h \in Handlers : Among(b, jobs[h].todo) =>
            /\ counted[b] = 0 /\ pushed[b] = 0
            /\ \A g \in Handlers : Among(b, jobs[g].todo) => g = h

OnceInv == Remembers => BufferOrder /\ ServedOnce

InOrder == ~({"pair", "drop"} \subseteq mishaps) /\ "restart" \notin mishaps

\* The passports in the list lie before those that are to come: either every
\* event has one tag, and the calls wait in the order of the events, or there
\* is one handler at work.
QueueOrder ==
  /\ Increasing(queue) /\ Top(queue) <= Top(seen)
  /\ \A h \in Handlers : jobs[h].pc = "tags" /\ jobs[h].todo # <<>> =>
       Top(queue) < jobs[h].todo[1]
  /\ "drop" \notin mishaps => \A h \in Handlers : jobs[h].todo # <<>> => h = live
  /\ "pair" \notin mishaps =>
       /\ \A h \in Handlers : /\ Len(jobs[h].todo) <= 1
                              /\ jobs[h].todo # <<>> => Among(h, calls)
       /\ \A i, j \in DOMAIN calls :
            i < j /\ jobs[calls[i]].pc = "tags" /\ jobs[calls[j]].pc = "tags"
              => jobs[calls[i]].todo[1] < jobs[calls[j]].todo[1]

OrderInv == InOrder => QueueOrder

ReaderInv == ReaderShape /\ OnceInv /\ OrderInv /\ FilteredWasCounted

-----------------------------------------------------------------------------
(***************************************************************************)
(* The shape, and what each step does to handlers and calls.               *)
(***************************************************************************)
LEMMA HandlersNotZero == 0 \notin Handlers
  BY DEF Handlers

LEMMA IdleShape == Idle \in Job /\ JobShape(Idle)
  BY DEF Idle, Job, JobShape

\* One handler changes.
LEMMA JobStep ==
  ASSUME jobs \in [Handlers -> Job], \A g \in Handlers : JobShape(jobs[g]),
         NEW h \in Handlers, NEW row \in Job, JobShape(row),
         jobs' = [jobs EXCEPT ![h] = row]
  PROVE  /\ jobs' \in [Handlers -> Job] /\ \A g \in Handlers : JobShape(jobs'[g])
         /\ jobs'[h] = row /\ \A g \in Handlers \ {h} : jobs'[g] = jobs[g]
  <1>1. jobs' \in [Handlers -> Job]
    OBVIOUS
  <1>2. jobs'[h] = row /\ \A g \in Handlers \ {h} : jobs'[g] = jobs[g]
    OBVIOUS
  <1> QED
    BY <1>1, <1>2

CallsShape ==
  /\ calls \in Seq(Handlers)
  /\ \A i \in DOMAIN calls :
       jobs[calls[i]].pc \in {"tags", "input"} /\ jobs[calls[i]].todo # <<>>
  /\ \A i, j \in DOMAIN calls : calls[i] = calls[j] => i = j

\* The call that came first is served; what its handler does is its own affair.
LEMMA CallServed ==
  ASSUME CallsShape, calls # <<>>, NEW h, h = Head(calls), calls' = Tail(calls),
         \A g \in Handlers \ {h} : jobs'[g] = jobs[g]
  PROVE  /\ CallsShape' /\ ~Among(h, calls')
         /\ \A g : g # h /\ Among(g, calls) => Among(g, calls')
         /\ \A i \in DOMAIN calls' : i + 1 \in DOMAIN calls /\ calls'[i] = calls[i + 1]
         /\ calls[1] = h /\ 1 \in DOMAIN calls
  <1>1. /\ Len(calls) \in Nat \ {0} /\ DOMAIN calls = 1 .. Len(calls) /\ h = calls[1]
        /\ calls' \in Seq(Handlers) /\ DOMAIN calls' = 1 .. Len(calls) - 1
        /\ \A i \in 1 .. Len(calls) - 1 : calls'[i] = calls[i + 1]
        /\ \A g : g # h /\ Among(g, calls) => Among(g, calls')
    BY Shortened DEF CallsShape
  <1>2. \A i \in DOMAIN calls' : i + 1 \in DOMAIN calls /\ calls'[i] = calls[i + 1]
    BY <1>1
  <1>3. ASSUME NEW i \in DOMAIN calls' PROVE calls'[i] # h /\ calls'[i] \in Handlers
    <2>1. i + 1 # 1 /\ 1 \in DOMAIN calls
      BY <1>1
    <2>2. calls'[i] \in Handlers
      BY <1>1
    <2> QED
      BY <1>1, <1>2, <2>1, <2>2 DEF CallsShape
  <1>4. \A i \in DOMAIN calls' :
          jobs'[calls'[i]].pc \in {"tags", "input"} /\ jobs'[calls'[i]].todo # <<>>
    BY <1>2, <1>3 DEF CallsShape
  <1>5. \A i, j \in DOMAIN calls' : calls'[i] = calls'[j] => i = j
    <2>1. ASSUME NEW i \in DOMAIN calls', NEW j \in DOMAIN calls', calls'[i] = calls'[j]
          PROVE  i = j
      <3>1. i + 1 = j + 1 /\ i \in Int /\ j \in Int
        BY <1>1, <1>2, <2>1 DEF CallsShape
      <3> QED
        BY <3>1
    <2> QED
      BY <2>1
  <1>6. ~Among(h, calls')
    BY <1>3 DEF Among
  <1> QED
    BY <1>1, <1>2, <1>4, <1>5, <1>6 DEF CallsShape

\* A handler that does not wait yet joins the calls.
LEMMA CallMade ==
  ASSUME CallsShape, NEW h \in Handlers, ~Among(h, calls), calls' = Append(calls, h),
         jobs'[h].pc \in {"tags", "input"}, jobs'[h].todo # <<>>,
         \A g \in Handlers \ {h} : jobs'[g] = jobs[g]
  PROVE  CallsShape'
  <1>1. /\ calls' \in Seq(Handlers) /\ Len(calls) \in Nat
        /\ DOMAIN calls = 1 .. Len(calls) /\ DOMAIN calls' = 1 .. Len(calls) + 1
        /\ \A i \in 1 .. Len(calls) : calls'[i] = calls[i]
        /\ calls'[Len(calls) + 1] = h
    BY Appended DEF CallsShape
  <1>2. \A i \in DOMAIN calls : calls[i] # h /\ calls[i] \in Handlers
    <2>1. \A i \in DOMAIN calls : calls[i] # h
      BY DEF Among
    <2>2. \A i \in DOMAIN calls : calls[i] \in Handlers
      BY <1>1, ElementOfSeq DEF CallsShape
    <2> QED
      BY <2>1, <2>2
  <1>3. \A i \in DOMAIN calls' : (i \in DOMAIN calls /\ calls'[i] = calls[i])
                                 \/ (i = Len(calls) + 1 /\ calls'[i] = h)
    BY <1>1
  <1>4. \A i \in DOMAIN calls' :
          jobs'[calls'[i]].pc \in {"tags", "input"} /\ jobs'[calls'[i]].todo # <<>>
    BY <1>2, <1>3 DEF CallsShape
  <1>5. \A i, j \in DOMAIN calls' : calls'[i] = calls'[j] => i = j
    BY <1>2, <1>3 DEF CallsShape
  <1> QED
    BY <1>1, <1>4, <1>5 DEF CallsShape

\* The calls stay, and who has made one goes on waiting.
LEMMA CallsKept ==
  ASSUME CallsShape, calls' = calls, NEW h \in Handlers, ~Among(h, calls),
         \A g \in Handlers \ {h} : jobs'[g] = jobs[g]
  PROVE  CallsShape'
  <1>1. \A i \in DOMAIN calls : calls[i] # h /\ calls[i] \in Handlers
    <2>1. DOMAIN calls = 1 .. Len(calls) /\ \A i \in DOMAIN calls : calls[i] # h
      BY DEF Among, CallsShape
    <2>2. \A i \in DOMAIN calls : calls[i] \in Handlers
      BY <2>1, ElementOfSeq DEF CallsShape
    <2> QED
      BY <2>1, <2>2
  <1> QED
    BY <1>1 DEF CallsShape

LEMMA ServeTagEffect ==
  ASSUME ReaderShape, NEW h \in Handlers, ServeTag(h)
  PROVE  LET todo == jobs[h].todo
             t == todo[1]
         IN  /\ ReaderShape' /\ InFlight' = InFlight
             /\ todo \in Seq(Balloons) /\ todo # <<>> /\ t = Head(todo) /\ t \in Balloons
             /\ jobs[h].pc = "tags" /\ jobs'[h].pc \in {"tags", "ack"}
             /\ \/ jobs'[h].todo = Tail(todo)
                \/ jobs'[h].todo = <<>> /\ "status" \in mishaps
             /\ \A g \in Handlers \ {h} : jobs'[g] = jobs[g]
             /\ calls # <<>> /\ h = Head(calls) /\ calls' = Tail(calls)
             /\ counted' = [counted EXCEPT ![t] = @ + 1]
             /\ \/ UNCHANGED <<pushed, queue>>
                \/ pushed' = [pushed EXCEPT ![t] = @ + 1] /\ queue' = Append(queue, t)
             /\ UNCHANGED <<drops, deviceVars, live, seen>>
  <1> DEFINE todo == jobs[h].todo
             t == todo[1]
             rest == Tail(todo)
  <1>1. /\ jobs[h].pc = "tags" /\ calls # <<>> /\ h = Head(calls) /\ calls' = Tail(calls)
        /\ UNCHANGED <<drops, passed, reads, buffer, live, seen>>
    BY DEF ServeTag, deviceVars
  <1>2. CallsShape /\ jobs \in [Handlers -> Job] /\ \A g \in Handlers : JobShape(jobs[g])
    BY DEF ReaderShape, ReaderTypeOK, CallsShape
  <1>3. todo \in Seq(Balloons) /\ todo # <<>>
    <2>1. 1 \in DOMAIN calls /\ calls[1] = h
      BY <1>1, <1>2, Shortened DEF CallsShape
    <2> QED
      BY <1>1, <1>2, <2>1 DEF CallsShape, JobShape
  <1>4. t = Head(todo) /\ t \in Balloons /\ rest \in Seq(Balloons)
    BY <1>3, Shortened
  <1>5. /\ counted' = [counted EXCEPT ![t] = @ + 1]
        /\ \/ /\ jobs' = [jobs EXCEPT ![h].todo = rest]
              /\ UNCHANGED <<pushed, queue>>
           \/ /\ pushed' = [pushed EXCEPT ![t] = @ + 1]
              /\ queue' = Append(queue, t)
              /\ \/ jobs' = [jobs EXCEPT ![h].todo = rest, ![h].ok = TRUE]
                 \/ /\ "status" \in mishaps
                    /\ jobs' = [jobs EXCEPT ![h].pc = "ack", ![h].todo = <<>>]
    BY <1>4 DEF ServeTag
  <1> DEFINE job == jobs[h]
  <1>6. /\ job \in Job /\ rest \in Seq(Balloons \cup {Optical})
        /\ <<>> \in Seq(Balloons \cup {Optical})
    BY <1>2, <1>4
  <1>7. PICK row \in Job :
          /\ jobs' = [jobs EXCEPT ![h] = row] /\ row.pc \in {"tags", "ack"}
          /\ JobShape(row)
          /\ row.todo = rest \/ (row.todo = <<>> /\ "status" \in mishaps)
    <2>1. CASE jobs' = [jobs EXCEPT ![h].todo = rest]
      <3> DEFINE row == [job EXCEPT !.todo = rest]
      <3>1. row \in Job /\ row.pc = "tags" /\ row.todo = rest
        BY <1>1, <1>6 DEF Job
      <3>2. jobs' = [jobs EXCEPT ![h] = row]
        BY <2>1
      <3> HIDE DEF row
      <3>3. JobShape(row)
        BY <1>4, <3>1 DEF JobShape
      <3> QED
        BY <3>1, <3>2, <3>3
    <2>2. CASE jobs' = [jobs EXCEPT ![h].todo = rest, ![h].ok = TRUE]
      <3> DEFINE row == [job EXCEPT !.todo = rest, !.ok = TRUE]
      <3>1. row \in Job /\ row.pc = "tags" /\ row.todo = rest
        BY <1>1, <1>6 DEF Job
      <3>2. jobs' = [jobs EXCEPT ![h] = row]
        BY <1>2, <2>2
      <3> HIDE DEF row
      <3>3. JobShape(row)
        BY <1>4, <3>1 DEF JobShape
      <3> QED
        BY <3>1, <3>2, <3>3
    <2>3. CASE /\ "status" \in mishaps
               /\ jobs' = [jobs EXCEPT ![h].pc = "ack", ![h].todo = <<>>]
      <3> DEFINE row == [job EXCEPT !.pc = "ack", !.todo = <<>>]
      <3>1. row \in Job /\ row.pc = "ack" /\ row.todo = <<>>
        BY <1>1, <1>6 DEF Job
      <3>2. jobs' = [jobs EXCEPT ![h] = row]
        BY <1>2, <2>3
      <3> HIDE DEF row
      <3>3. JobShape(row)
        BY <1>4, <3>1 DEF JobShape
      <3> QED
        BY <2>3, <3>1, <3>2, <3>3
    <2> QED
      BY <1>5, <2>1, <2>2, <2>3
  <1>8. /\ jobs' \in [Handlers -> Job] /\ \A g \in Handlers : JobShape(jobs'[g])
        /\ jobs'[h] = row /\ \A g \in Handlers \ {h} : jobs'[g] = jobs[g]
    BY <1>2, <1>7, JobStep
  <1>9. CallsShape'
    BY <1>1, <1>2, <1>8, CallServed
  <1>10. InFlight' = InFlight
    <2>1. jobs[h] # Idle /\ jobs'[h] # Idle
      BY <1>1, <1>7, <1>8 DEF Idle
    <2>2. live \in {0} \cup Handlers
      BY DEF ReaderShape, ReaderTypeOK
    <2> QED
      BY <1>1, <1>8, <2>1, <2>2 DEF InFlight
  <1>11. /\ counted' \in [Balloons \cup {Optical} -> Nat]
         /\ pushed' \in [Balloons -> Nat] /\ queue' \in Seq(Balloons)
    <2>1. /\ counted \in [Balloons \cup {Optical} -> Nat]
          /\ pushed \in [Balloons -> Nat] /\ queue \in Seq(Balloons)
      BY DEF ReaderShape, ReaderTypeOK
    <2>2. Append(queue, t) \in Seq(Balloons)
      BY <1>4, <2>1, Appended
    <2>3. counted' \in [Balloons \cup {Optical} -> Nat]
      <3>1. /\ counted' = [counted EXCEPT ![t] = @ + 1]
            /\ t \in Balloons \cup {Optical} /\ counted[t] + 1 \in Nat
        <4> HIDE DEF t
        <4>1. counted[t] \in Nat
          BY <1>4, <2>1
        <4> QED
          BY <1>4, <1>5, <4>1
      <3> HIDE DEF t
      <3> QED
        BY <2>1, <3>1
    <2>4. pushed' = [pushed EXCEPT ![t] = @ + 1] => pushed' \in [Balloons -> Nat]
      BY <1>4, <2>1
    <2> QED
      BY <1>5, <2>1, <2>2, <2>3, <2>4
  <1>12. ReaderShape'
    BY <1>1, <1>8, <1>9, <1>10, <1>11 DEF ReaderShape, ReaderTypeOK, CallsShape
  <1> HIDE DEF rest
  <1> QED
    BY <1>1, <1>3, <1>4, <1>5, <1>7, <1>8, <1>10, <1>12 DEF rest, deviceVars

LEMMA ServeInputEffect ==
  ASSUME ReaderShape, NEW h \in Handlers, ServeInput(h)
  PROVE  /\ ReaderShape' /\ InFlight' = InFlight
         /\ jobs[h].todo = <<Optical>> /\ jobs'[h].todo = <<>> /\ jobs'[h].pc = "ack"
         /\ jobs[h].pc = "input"
         /\ \A g \in Handlers \ {h} : jobs'[g] = jobs[g]
         /\ calls # <<>> /\ h = Head(calls) /\ calls' = Tail(calls)
         /\ counted' = [counted EXCEPT ![Optical] = @ + 1]
         /\ UNCHANGED <<drops, deviceVars, live, seen, pushed, queue>>
  <1> DEFINE job == jobs[h]
             row == [job EXCEPT !.pc = "ack", !.todo = <<>>]
  <1>1. /\ job.pc = "input" /\ calls # <<>> /\ h = Head(calls) /\ calls' = Tail(calls)
        /\ counted' = [counted EXCEPT ![Optical] = @ + 1]
        /\ jobs' = [jobs EXCEPT ![h].pc = "ack", ![h].todo = <<>>]
        /\ UNCHANGED <<drops, passed, reads, buffer, live, seen, pushed, queue>>
    BY DEF ServeInput, deviceVars
  <1>2. CallsShape /\ jobs \in [Handlers -> Job] /\ \A g \in Handlers : JobShape(jobs[g])
    BY DEF ReaderShape, ReaderTypeOK, CallsShape
  <1>3. row \in Job /\ row.pc = "ack" /\ row.todo = <<>>
    <2>1. job \in Job /\ <<>> \in Seq(Balloons \cup {Optical})
      BY <1>2
    <2> QED
      BY <2>1 DEF Job
  <1>4. jobs' = [jobs EXCEPT ![h] = row] /\ job.todo = <<Optical>>
    BY <1>1, <1>2 DEF JobShape
  <1> HIDE DEF row
  <1>5. JobShape(row)
    BY <1>3 DEF JobShape
  <1>6. /\ jobs' \in [Handlers -> Job] /\ \A g \in Handlers : JobShape(jobs'[g])
        /\ jobs'[h] = row /\ \A g \in Handlers \ {h} : jobs'[g] = jobs[g]
    BY <1>2, <1>3, <1>4, <1>5, JobStep
  <1>7. CallsShape'
    BY <1>1, <1>2, <1>6, CallServed
  <1>8. InFlight' = InFlight
    <2>1. jobs[h] # Idle /\ jobs'[h] # Idle
      BY <1>1, <1>3, <1>6 DEF Idle
    <2>2. live \in {0} \cup Handlers
      BY DEF ReaderShape, ReaderTypeOK
    <2> QED
      BY <1>1, <1>6, <2>1, <2>2 DEF InFlight
  <1>9. counted' \in [Balloons \cup {Optical} -> Nat]
    BY <1>1 DEF ReaderShape, ReaderTypeOK
  <1>10. ReaderShape'
    BY <1>1, <1>6, <1>7, <1>8, <1>9 DEF ReaderShape, ReaderTypeOK, CallsShape
  <1> QED
    BY <1>1, <1>3, <1>4, <1>6, <1>8, <1>10 DEF deviceVars

LEMMA CallEffect ==
  ASSUME ReaderShape, NEW h \in Handlers, Call(h)
  PROVE  /\ ReaderShape' /\ jobs[h].todo # <<>> /\ ~Among(h, calls)
         /\ calls' = Append(calls, h)
         /\ UNCHANGED <<drops, deviceVars, live, jobs, seen, counted, pushed, queue>>
  <1>1. /\ jobs[h].pc = "tags" /\ jobs[h].todo # <<>> /\ ~Among(h, calls)
        /\ calls' = Append(calls, h)
        /\ UNCHANGED <<drops, passed, reads, buffer, live, jobs, seen, counted, pushed, queue>>
    BY DEF Call, deviceVars
  <1>2. CallsShape'
    <2>1. CallsShape
      BY DEF ReaderShape, ReaderTypeOK, CallsShape
    <2> QED
      BY <1>1, <2>1, CallMade
  <1>3. InFlight' = InFlight
    BY <1>1 DEF InFlight
  <1> QED
    BY <1>1, <1>2, <1>3 DEF ReaderShape, ReaderTypeOK, CallsShape, deviceVars

\* The lamp shows it: nothing is left to be served, and nobody waits.
LEMMA IndicateEffect ==
  ASSUME ReaderShape, NEW h \in Handlers, Indicate(h)
  PROVE  /\ ReaderShape' /\ InFlight' = InFlight
         /\ jobs[h].todo = <<>> /\ jobs'[h].todo = <<>>
         /\ jobs[h].pc = "tags" /\ jobs'[h].pc = "ack"
         /\ \A g \in Handlers \ {h} : jobs'[g] = jobs[g]
         /\ UNCHANGED <<drops, deviceVars, live, calls, seen, counted, pushed, queue>>
  <1> DEFINE job == jobs[h]
             row == [job EXCEPT !.pc = "ack", !.ok = @ \/ ~job.fresh]
  <1>1. /\ job.pc = "tags" /\ job.todo = <<>>
        /\ jobs' = [jobs EXCEPT ![h].pc = "ack", ![h].ok = @ \/ ~jobs[h].fresh]
        /\ UNCHANGED <<drops, passed, reads, buffer, live, calls, seen, counted, pushed, queue>>
    BY DEF Indicate, deviceVars
  <1>2. CallsShape /\ jobs \in [Handlers -> Job] /\ \A g \in Handlers : JobShape(jobs[g])
    BY DEF ReaderShape, ReaderTypeOK, CallsShape
  <1>3. row \in Job /\ row.pc = "ack" /\ row.todo = <<>>
    <2>1. job \in Job
      BY <1>2
    <2> QED
      BY <1>1, <2>1 DEF Job
  <1>4. jobs' = [jobs EXCEPT ![h] = row]
    BY <1>1, <1>2
  <1> HIDE DEF row
  <1>5. JobShape(row)
    BY <1>3 DEF JobShape
  <1>6. /\ jobs' \in [Handlers -> Job] /\ \A g \in Handlers : JobShape(jobs'[g])
        /\ jobs'[h] = row /\ \A g \in Handlers \ {h} : jobs'[g] = jobs[g]
    BY <1>2, <1>3, <1>4, <1>5, JobStep
  <1>7. CallsShape'
    <2>1. ~Among(h, calls)
      BY <1>1, <1>2 DEF CallsShape, Among
    <2> QED
      BY <1>1, <1>2, <1>6, <2>1, CallsKept
  <1>8. InFlight' = InFlight
    <2>1. jobs[h].pc # Idle.pc /\ jobs'[h].pc # Idle.pc
      BY <1>1, <1>3, <1>6 DEF Idle
    <2>2. live \in {0} \cup Handlers
      BY DEF ReaderShape, ReaderTypeOK
    <2> QED
      BY <1>1, <1>6, <2>1, <2>2 DEF InFlight
  <1>9. ReaderShape'
    BY <1>1, <1>6, <1>7, <1>8 DEF ReaderShape, ReaderTypeOK, CallsShape
  <1> QED
    BY <1>1, <1>3, <1>6, <1>8, <1>9 DEF deviceVars

\* An event leaves the buffer when the connection that brought it is still there.
LEMMA AcknowledgeEffect ==
  ASSUME ReaderShape, NEW h \in Handlers, Acknowledge(h)
  PROVE  /\ ReaderShape'
         /\ jobs[h].todo = <<>> /\ jobs'[h].todo = <<>> /\ jobs'[h].pc = "idle"
         /\ \A g \in Handlers \ {h} : jobs'[g] = jobs[g]
         /\ ~Among(h, calls)
         /\ \/ buffer # <<>> /\ buffer' = Tail(buffer) /\ ~InFlight'
            \/ buffer' = buffer /\ InFlight' = InFlight
         /\ UNCHANGED <<drops, passed, reads, live, calls, seen, counted, pushed, queue>>
  <1>1. /\ jobs[h].pc = "ack" /\ jobs' = [jobs EXCEPT ![h] = Idle]
        /\ buffer' = IF h = live THEN Tail(buffer) ELSE buffer
        /\ UNCHANGED <<drops, passed, reads, live, calls, seen, counted, pushed, queue>>
    BY DEF Acknowledge
  <1>2. CallsShape /\ jobs \in [Handlers -> Job] /\ \A g \in Handlers : JobShape(jobs[g])
    BY DEF ReaderShape, ReaderTypeOK, CallsShape
  <1>3. /\ jobs' \in [Handlers -> Job] /\ \A g \in Handlers : JobShape(jobs'[g])
        /\ jobs'[h] = Idle /\ \A g \in Handlers \ {h} : jobs'[g] = jobs[g]
    BY <1>1, <1>2, JobStep, IdleShape
  <1>4. ~Among(h, calls)
    BY <1>1, <1>2 DEF CallsShape, Among
  <1>5. CallsShape'
    BY <1>1, <1>2, <1>3, <1>4, CallsKept
  <1>6. jobs[h].todo = <<>> /\ jobs[h] # Idle /\ Idle.todo = <<>> /\ Idle.pc = "idle"
    BY <1>1, <1>2 DEF JobShape, Idle
  <1>7. CASE h = live
    <2>1. InFlight /\ ~InFlight'
      BY <1>1, <1>3, <1>6, <1>7, HandlersNotZero DEF InFlight
    <2>2. buffer # <<>> /\ buffer' = Tail(buffer) /\ buffer' \in Seq(Events)
      BY <1>1, <1>7, <2>1, Shortened DEF ReaderShape
    <2>3. buffer' \in Seq(Seq(Balloons \cup {Optical}))
      BY <1>1, <1>7, <2>2, Shortened DEF ReaderShape, ReaderTypeOK
    <2>4. ReaderShape'
      BY <1>1, <1>3, <1>5, <2>1, <2>2, <2>3 DEF ReaderShape, ReaderTypeOK, CallsShape
    <2> QED
      BY <1>1, <1>3, <1>4, <1>6, <2>1, <2>2, <2>4
  <1>8. CASE h # live
    <2>1. live \in {0} \cup Handlers
      BY DEF ReaderShape, ReaderTypeOK
    <2>2. InFlight' = InFlight
      BY <1>1, <1>3, <1>8, <2>1 DEF InFlight
    <2>3. ReaderShape'
      BY <1>1, <1>3, <1>5, <1>8, <2>2 DEF ReaderShape, ReaderTypeOK, CallsShape
    <2> QED
      BY <1>1, <1>3, <1>4, <1>6, <1>8, <2>2, <2>3
  <1> QED
    BY <1>7, <1>8

LEMMA ReceiveEffect ==
  ASSUME ReaderShape, Receive
  PROVE  LET e == buffer[1] IN
         /\ ReaderShape' /\ live \in Handlers /\ ~InFlight /\ InFlight' /\ buffer # <<>>
         /\ jobs[live].todo = <<>> /\ ~Among(live, calls)
         /\ \A g \in Handlers \ {live} : jobs'[g] = jobs[g]
         /\ \/ /\ e = <<Optical>> /\ seen' = seen /\ calls' = Append(calls, live)
               /\ jobs'[live].pc = "input" /\ jobs'[live].todo = <<Optical>>
            \/ /\ e \in Seq(Balloons) /\ e # <<>> /\ e # <<Optical>>
               /\ jobs'[live].pc = "tags"
               /\ jobs'[live].todo = Filter(e, seen).new /\ seen' = Filter(e, seen).seen
               /\ calls' = IF Filter(e, seen).new # <<>> THEN Append(calls, live) ELSE calls
         /\ UNCHANGED <<drops, deviceVars, live, counted, pushed, queue>>
  <1> DEFINE e == buffer[1]
             f == Filter(e, seen)
             optical == e = <<Optical>>
             row == [pc |-> IF optical THEN "input" ELSE "tags",
                     todo |-> IF optical THEN e ELSE f.new,
                     fresh |-> ~optical /\ f.new # <<>>, ok |-> FALSE]
  <1>1. /\ CallsShape /\ jobs \in [Handlers -> Job]
        /\ live \in {0} \cup Handlers /\ seen \in Seq(Balloons) /\ buffer \in Seq(Events)
        /\ \A g \in Handlers : JobShape(jobs[g])
    BY DEF ReaderShape, ReaderTypeOK, CallsShape
  <1>2. /\ live # 0 /\ jobs[live] = Idle /\ buffer # <<>>
        /\ UNCHANGED <<drops, passed, reads, buffer, live, counted, pushed, queue>>
    BY DEF Receive, deviceVars
  <1>3. live \in Handlers /\ ~InFlight /\ jobs[live].pc = "idle" /\ jobs[live].todo = <<>>
    BY <1>1, <1>2 DEF InFlight, Idle
  <1>4. e = Head(buffer) /\ e \in Events
    BY <1>1, <1>2, Shortened
  <1>5. /\ jobs' = [jobs EXCEPT ![live] = row]
        /\ seen' = IF optical THEN seen ELSE f.seen
        /\ calls' = IF optical \/ f.new # <<>> THEN Append(calls, live) ELSE calls
    BY <1>4 DEF Receive
  <1>6. ~optical => /\ e \in Seq(Balloons) /\ e # <<>>
                    /\ f.new \in Seq(Balloons) /\ f.seen \in Seq(Balloons)
    <2>1. ~optical => e \in Seq(Balloons) /\ e # <<>>
      BY <1>4 DEF Events
    <2>2. ~optical => f.new \in Seq(Balloons) /\ f.seen \in Seq(Balloons)
      BY <1>1, <2>1, FilterKeeps
    <2> QED
      BY <2>1, <2>2
  <1>7. <<Optical>> \in Seq(Balloons \cup {Optical}) /\ <<Optical>> # <<>>
    OBVIOUS
  <1>8. /\ row \in Job /\ row.pc = (IF optical THEN "input" ELSE "tags")
        /\ row.todo = IF optical THEN <<Optical>> ELSE f.new
    <2>1. f.new \in Seq(Balloons) => f.new \in Seq(Balloons \cup {Optical})
      OBVIOUS
    <2> HIDE DEF f, e
    <2> QED
      BY <1>6, <1>7, <2>1 DEF Job
  <1> HIDE DEF row, f, e
  <1>9. JobShape(row) /\ row # Idle
    BY <1>6, <1>8 DEF JobShape, Idle
  <1>10. /\ jobs' \in [Handlers -> Job] /\ \A g \in Handlers : JobShape(jobs'[g])
         /\ jobs'[live] = row /\ \A g \in Handlers \ {live} : jobs'[g] = jobs[g]
    BY <1>1, <1>3, <1>5, <1>8, <1>9, JobStep
  <1>11. ~Among(live, calls)
    BY <1>1, <1>3 DEF CallsShape, Among
  <1>12. CallsShape'
    <2>1. CASE optical \/ f.new # <<>>
      <3>1. jobs'[live].pc \in {"tags", "input"} /\ jobs'[live].todo # <<>>
        BY <1>7, <1>8, <1>10, <2>1
      <3> QED
        BY <1>1, <1>3, <1>5, <1>10, <1>11, <2>1, <3>1, CallMade
    <2>2. CASE ~(optical \/ f.new # <<>>)
      BY <1>1, <1>3, <1>5, <1>10, <1>11, <2>2, CallsKept
    <2> QED
      BY <2>1, <2>2
  <1>13. InFlight'
    BY <1>2, <1>9, <1>10 DEF InFlight
  <1>14. seen' \in Seq(Balloons)
    BY <1>1, <1>5, <1>6
  <1>15. ReaderShape'
    BY <1>2, <1>10, <1>12, <1>13, <1>14 DEF ReaderShape, ReaderTypeOK, CallsShape
  <1>16. \/ /\ e = <<Optical>> /\ seen' = seen /\ calls' = Append(calls, live)
            /\ jobs'[live].pc = "input" /\ jobs'[live].todo = <<Optical>>
         \/ /\ e \in Seq(Balloons) /\ e # <<>> /\ e # <<Optical>>
            /\ jobs'[live].pc = "tags"
            /\ jobs'[live].todo = f.new /\ seen' = f.seen
            /\ calls' = IF f.new # <<>> THEN Append(calls, live) ELSE calls
    BY <1>5, <1>6, <1>8, <1>10
  <1> QED
    BY <1>2, <1>3, <1>10, <1>11, <1>13, <1>15, <1>16 DEF deviceVars, e, f

\* Belt, device and connection leave the process alone.
LEMMA DeviceShape ==
  ASSUME ReaderShape, UNCHANGED <<jobs, calls, seen, counted, pushed, queue>>,
         Pass \/ Reread \/ Accept \/ Drop
  PROVE  ReaderShape'
  <1>1. CallsShape'
    BY DEF ReaderShape, ReaderTypeOK, CallsShape
  <1>2. CASE Pass \/ Reread
    <2>1. PICK e : /\ e \in Events /\ e \in Seq(Balloons \cup {Optical})
                   /\ \/ buffer' = Append(buffer, e)
                      \/ buffer # <<>> /\ buffer' = [buffer EXCEPT ![Len(buffer)] = e]
      <3>1. ASSUME NEW b \in Balloons
            PROVE  <<b>> \in Events /\ <<b>> \in Seq(Balloons \cup {Optical})
        BY DEF Events
      <3>2. <<Optical>> \in Events /\ <<Optical>> \in Seq(Balloons \cup {Optical})
        BY DEF Events
      <3>3. passed \in 0 .. Last /\ Last \in Nat
        BY ReaderBounds DEF ReaderShape, ReaderTypeOK
      <3>4. CASE Reread
        <4>1. passed \in Balloons /\ buffer' = Append(buffer, <<passed>>)
          BY <3>3, <3>4 DEF Reread, Balloons
        <4> QED
          BY <3>1, <4>1
      <3>5. CASE Pass
        <4>1. passed' \in Balloons
          BY <3>3, <3>5 DEF Pass, Balloons
        <4>2. CASE buffer' = Append(buffer, <<passed'>>)
          BY <3>1, <4>1, <4>2
        <4>3. CASE buffer' = Append(buffer, <<Optical>>)
          BY <3>2, <4>3
        <4>4. CASE /\ Len(buffer) > (IF InFlight THEN 1 ELSE 0)
                   /\ buffer[Len(buffer)] # <<Optical>>
                   /\ buffer' = [buffer EXCEPT ![Len(buffer)] = Append(@, passed')]
          <5> DEFINE e == buffer[Len(buffer)]
          <5>1. buffer \in Seq(Events) /\ Len(buffer) \in Nat /\ Len(buffer) # 0
            BY <4>4 DEF ReaderShape
          <5>2. buffer # <<>> /\ e \in Events
            BY <5>1, EmptySeq, ElementOfSeq
          <5>3. e \in Seq(Balloons)
            BY <4>4, <5>2 DEF Events
          <5> HIDE DEF e
          <5>4. Append(e, passed') \in Seq(Balloons) /\ Append(e, passed') # <<>>
            BY <4>1, <5>3, Appended
          <5>5. Append(e, passed') \in Events /\ Append(e, passed') \in Seq(Balloons \cup {Optical})
            BY <5>4 DEF Events
          <5> QED
            BY <4>4, <5>2, <5>5 DEF e
        <4> QED
          BY <3>5, <4>2, <4>3, <4>4 DEF Pass
      <3> QED
        BY <1>2, <3>4, <3>5
    <2>2. ASSUME NEW S, buffer \in Seq(S), e \in S
          PROVE  buffer' \in Seq(S) /\ buffer' # <<>>
      <3>1. CASE buffer' = Append(buffer, e)
        BY <2>2, <3>1, Appended
      <3>2. CASE buffer # <<>> /\ buffer' = [buffer EXCEPT ![Len(buffer)] = e]
        <4>1. Len(buffer) \in Nat \ {0} /\ DOMAIN buffer = 1 .. Len(buffer)
          BY <2>2, <3>2, Shortened
        <4>2. buffer' \in Seq(S) /\ Len(buffer') = Len(buffer)
          BY <2>2, <3>2, <4>1, ExceptSeq
        <4> QED
          BY <4>1, <4>2
      <3> QED
        BY <2>1, <3>1, <3>2
    <2>3. /\ buffer' \in Seq(Events) /\ buffer' \in Seq(Seq(Balloons \cup {Optical}))
          /\ buffer' # <<>>
      BY <2>1, <2>2 DEF ReaderShape, ReaderTypeOK
    <2>4. UNCHANGED <<drops, live>>
      BY <1>2 DEF Pass, Reread
    <2>5. passed \in 0 .. Last /\ reads \in 0 .. MaxReads /\ Last \in Nat /\ MaxReads \in Nat
      BY ReaderBounds DEF ReaderShape, ReaderTypeOK
    <2>6. passed' \in 0 .. Last /\ reads' \in 0 .. MaxReads
      <3>1. CASE Pass
        <4>1. passed < Last /\ passed' = passed + 1 /\ reads' = reads
          BY <3>1 DEF Pass
        <4> QED
          BY <2>5, <4>1
      <3>2. CASE Reread
        <4>1. passed' = passed /\ reads < MaxReads /\ reads' = reads + 1
          BY <3>2 DEF Reread
        <4> QED
          BY <2>5, <4>1
      <3> QED
        BY <1>2, <3>1, <3>2
    <2> QED
      BY <1>1, <2>3, <2>4, <2>6 DEF ReaderShape, ReaderTypeOK, CallsShape
  <1>3. CASE Accept \/ Drop
    <2>1. UNCHANGED <<passed, reads, buffer>> /\ ~InFlight'
      BY <1>3 DEF Accept, Drop, deviceVars, InFlight
    <2>2. drops' \in 0 .. MaxDrops /\ live' \in {0} \cup Handlers
      BY <1>3, ReaderBounds DEF Accept, Drop, ReaderShape, ReaderTypeOK
    <2> QED
      BY <1>1, <2>1, <2>2 DEF ReaderShape, ReaderTypeOK, CallsShape
  <1> QED
    BY <1>2, <1>3

LEMMA RestartShape ==
  ASSUME ReaderShape, Restart
  PROVE  ReaderShape'
  <1>1. /\ drops' = drops + 1 /\ drops < MaxDrops /\ live' = 0 /\ calls' = <<>> /\ seen' = <<>>
        /\ jobs' = [h \in Handlers |-> Idle]
        /\ UNCHANGED <<passed, reads, buffer, counted, pushed, queue>>
    BY DEF Restart, deviceVars
  <1>2. jobs' \in [Handlers -> Job] /\ \A h \in Handlers : JobShape(jobs'[h])
    BY <1>1, IdleShape
  <1>3. ~InFlight' /\ drops' \in 0 .. MaxDrops
    BY <1>1, ReaderBounds DEF InFlight, ReaderShape, ReaderTypeOK
  <1>4. CallsShape'
    BY <1>1 DEF CallsShape
  <1> QED
    BY <1>1, <1>2, <1>3, <1>4 DEF ReaderShape, ReaderTypeOK, CallsShape

-----------------------------------------------------------------------------
(***************************************************************************)
(* FilteredWasCounted.                                                     *)
(***************************************************************************)
Known(x) ==
  counted[x] > 0 \/ \E h \in Handlers : Among(x, jobs[h].todo)

\* What is remembered is a balloon, and its places in the memory do not matter.
LEMMA FilteredByTag ==
  ASSUME seen \in Seq(Balloons)
  PROVE  FilteredWasCounted <=>
           ("status" \notin mishaps => \A x \in Balloons : Among(x, seen) => Known(x))
  <1>1. \A i \in DOMAIN seen : seen[i] \in Balloons
    BY ElementOfSeq
  <1> QED
    BY <1>1 DEF FilteredWasCounted, Known, Among

LEMMA FilteredKept ==
  ASSUME ReaderShape, ReaderShape', mishaps' = mishaps, FilteredWasCounted,
         "status" \notin mishaps =>
           \A x \in Balloons : Among(x, seen') /\ (Among(x, seen) => Known(x)) => Known(x)'
  PROVE  FilteredWasCounted'
  <1>1. seen \in Seq(Balloons) /\ seen' \in Seq(Balloons)
    BY DEF ReaderShape, ReaderTypeOK
  <1>2. "status" \notin mishaps => \A x \in Balloons : Among(x, seen) => Known(x)
    BY <1>1, FilteredByTag
  <1>3. "status" \notin mishaps' => \A x \in Balloons : Among(x, seen') => Known(x)'
    BY <1>2
  <1>4. FilteredWasCounted' <=>
          ("status" \notin mishaps' => \A x \in Balloons : Among(x, seen') => Known(x)')
    <2>1. \A i \in DOMAIN seen' : seen'[i] \in Balloons
      BY <1>1, ElementOfSeq
    <2> QED
      BY <2>1 DEF FilteredWasCounted, Known, Among
  <1> QED
    BY <1>3, <1>4

LEMMA FilteredStep ==
  ASSUME ReaderShape, FilteredWasCounted, mishaps' = mishaps, ReaderNext
  PROVE  FilteredWasCounted'
  <1>1. CASE Receive
    <2> DEFINE e == buffer[1]
               f == Filter(e, seen)
    <2>1. /\ ReaderShape' /\ live \in Handlers /\ jobs[live].todo = <<>>
          /\ \A g \in Handlers \ {live} : jobs'[g] = jobs[g]
          /\ counted' = counted
          /\ seen' = seen \/ (e \in Seq(Balloons) /\ seen' = f.seen /\ jobs'[live].todo = f.new)
      BY <1>1, ReceiveEffect
    <2>2. seen \in Seq(Balloons)
      BY DEF ReaderShape, ReaderTypeOK
    <2>3. \A x : Among(x, seen') => Among(x, seen) \/ Among(x, jobs'[live].todo)
      BY <2>1, <2>2, FilterKeeps
    <2>4. \A x : Known(x) => Known(x)'
      <3>1. \A x : ~Among(x, jobs[live].todo)
        BY <2>1 DEF Among
      <3> QED
        BY <2>1, <3>1 DEF Known
    <2>5. \A x : Among(x, jobs'[live].todo) => Known(x)'
      BY <2>1 DEF Known
    <2> QED
      BY <2>1, <2>3, <2>4, <2>5, FilteredKept
  <1>2. ASSUME NEW h \in Handlers, ServeTag(h) PROVE FilteredWasCounted'
    <2> DEFINE t == jobs[h].todo[1]
    <2>1. /\ ReaderShape' /\ jobs[h].todo \in Seq(Balloons) /\ jobs[h].todo # <<>>
          /\ t = Head(jobs[h].todo) /\ t \in Balloons
          /\ "status" \notin mishaps => jobs'[h].todo = Tail(jobs[h].todo)
          /\ \A g \in Handlers \ {h} : jobs'[g] = jobs[g]
          /\ counted' = [counted EXCEPT ![t] = @ + 1] /\ seen' = seen
      BY <1>2, ServeTagEffect
    <2>2. \A x : Among(x, jobs[h].todo) => x = t \/ Among(x, Tail(jobs[h].todo))
      BY <2>1, Shortened
    <2> HIDE DEF t
    <2>3. \A x \in Balloons : counted[x] > 0 \/ x = t => counted'[x] > 0
      <3>1. counted \in [Balloons \cup {Optical} -> Nat]
        BY DEF ReaderShape, ReaderTypeOK
      <3>2. \A x \in Balloons : counted[x] \in Nat /\ counted'[x] = IF x = t THEN counted[x] + 1 ELSE counted[x]
        BY <2>1, <3>1
      <3> QED
        BY <3>2
    <2>4. "status" \notin mishaps => \A x \in Balloons : Known(x) => Known(x)'
      BY <2>1, <2>2, <2>3 DEF Known
    <2> QED
      BY <2>1, <2>4, FilteredKept
  <1>3. ASSUME NEW h \in Handlers, ServeInput(h) PROVE FilteredWasCounted'
    <2>1. /\ ReaderShape' /\ jobs[h].todo = <<Optical>>
          /\ \A g \in Handlers \ {h} : jobs'[g] = jobs[g]
          /\ counted' = [counted EXCEPT ![Optical] = @ + 1] /\ seen' = seen
      BY <1>3, ServeInputEffect
    <2>2. \A x \in Balloons : ~Among(x, jobs[h].todo)
      BY <2>1, BalloonsAreNumbers DEF Among
    <2>3. \A x \in Balloons : counted'[x] = counted[x]
      BY <2>1, BalloonsAreNumbers DEF ReaderShape, ReaderTypeOK
    <2>4. \A x \in Balloons : Known(x) => Known(x)'
      BY <2>1, <2>2, <2>3 DEF Known
    <2> QED
      BY <2>1, <2>4, FilteredKept
  <1>4. ASSUME NEW h \in Handlers, Call(h) \/ Indicate(h) \/ Acknowledge(h)
        PROVE  FilteredWasCounted'
    <2>1. /\ ReaderShape' /\ jobs'[h].todo = jobs[h].todo
          /\ \A g \in Handlers \ {h} : jobs'[g] = jobs[g]
          /\ UNCHANGED <<seen, counted>>
      <3>1. CASE Call(h)
        BY <3>1, CallEffect
      <3>2. CASE Indicate(h)
        BY <3>2, IndicateEffect
      <3>3. CASE Acknowledge(h)
        BY <3>3, AcknowledgeEffect
      <3> QED
        BY <1>4, <3>1, <3>2, <3>3
    <2>2. \A x \in Balloons : Known(x) => Known(x)'
      BY <2>1 DEF Known
    <2> QED
      BY <2>1, <2>2, FilteredKept
  <1>5. CASE Pass \/ Reread \/ Accept \/ Drop
    <2>1. UNCHANGED <<jobs, calls, seen, counted, pushed, queue>>
      BY <1>5 DEF Pass, Reread, Accept, Drop, deviceVars
    <2>2. ReaderShape' /\ \A x \in Balloons : Known(x) => Known(x)'
      BY <1>5, <2>1, DeviceShape DEF Known
    <2> QED
      BY <2>1, <2>2, FilteredKept
  <1>6. CASE Restart
    <2>1. seen' = <<>>
      BY <1>6 DEF Restart
    <2> QED
      BY <2>1 DEF FilteredWasCounted
  <1> QED
    BY <1>1, <1>2, <1>3, <1>4, <1>5, <1>6 DEF ReaderNext, Handle

LEMMA ShapeStep ==
  ASSUME ReaderShape, ReaderNext
  PROVE  ReaderShape'
  <1>1. CASE Pass \/ Reread \/ Accept \/ Drop
    <2>1. UNCHANGED <<jobs, calls, seen, counted, pushed, queue>>
      BY <1>1 DEF Pass, Reread, Accept, Drop, deviceVars
    <2> QED
      BY <1>1, <2>1, DeviceShape
  <1>2. ASSUME NEW h \in Handlers, Handle(h) PROVE ReaderShape'
    BY <1>2, CallEffect, ServeInputEffect, ServeTagEffect, IndicateEffect,
       AcknowledgeEffect DEF Handle
  <1> QED
    BY <1>1, <1>2, ReceiveEffect, RestartShape DEF ReaderNext

-----------------------------------------------------------------------------
(***************************************************************************)
(* The order of the events, and each tag served once.                      *)
(***************************************************************************)
\* Events that carry the tag seen last, or later ones, can be sent.
LEMMA LaterFollows ==
  ASSUME NEW e \in Seq(Balloons), e # <<>>, Increasing(e),
         NEW s \in Seq(Balloons), Increasing(s), Top(s) <= e[1]
  PROVE  \E k \in 0 .. Len(e) : Follows(e, s, k)
  <1>1. Len(e) \in Nat \ {0} /\ DOMAIN e = 1 .. Len(e) /\ e[1] \in Balloons /\ e[1] \in Nat
    BY Shortened, BalloonsAreNumbers
  <1>2. Top(s) \in Nat /\ Len(s) \in Nat /\ (s = <<>> => Top(s) = 0)
    <2>1. Top(s) \in Nat
      BY TopIsLargest, BalloonsAreNumbers
    <2> QED
      BY <2>1 DEF Top
  <1>3. \A j \in DOMAIN e : e[j] \in Nat /\ e[1] <= e[j] /\ (j > 1 => e[1] < e[j])
    <2>1. ASSUME NEW j \in DOMAIN e
          PROVE  e[j] \in Nat /\ e[1] <= e[j] /\ (j > 1 => e[1] < e[j])
      <3>1. e[j] \in Nat
        BY <1>1, ElementOfSeq, BalloonsAreNumbers
      <3>2. j > 1 => e[1] < e[j]
        BY <1>1 DEF Increasing
      <3>3. j = 1 \/ j > 1
        BY <1>1
      <3> QED
        BY <1>1, <3>1, <3>2, <3>3
    <2> QED
      BY <2>1
  <1>4. CASE Top(s) < e[1]
    <2>1. EndsWith(s, e, 0)
      BY <1>2 DEF EndsWith
    <2>2. \A j \in DOMAIN e : e[j] > Top(s)
      BY <1>1, <1>2, <1>3, <1>4
    <2>3. Follows(e, s, 0) /\ 0 \in 0 .. Len(e)
      BY <1>1, <2>1, <2>2 DEF Follows
    <2> QED
      BY <2>3
  <1>5. CASE Top(s) = e[1]
    <2>1. s # <<>>
      BY <1>1, <1>2, <1>5 DEF Balloons
    <2>2. Len(s) >= 1 /\ s[Len(s)] = e[1]
      BY <1>5, <2>1, Shortened DEF Top
    <2>3. EndsWith(s, e, 1)
      <3>1. \A j \in 1 .. 1 : Len(s) - 1 + j = Len(s) /\ j = 1
        BY <1>2
      <3> QED
        BY <2>2, <3>1 DEF EndsWith
    <2>4. \A j \in DOMAIN e : j > 1 => e[j] > Top(s)
      BY <1>1, <1>3, <1>5
    <2>5. Follows(e, s, 1) /\ 1 \in 0 .. Len(e)
      BY <1>1, <2>3, <2>4 DEF Follows
    <2> QED
      BY <2>5
  <1> QED
    BY <1>1, <1>2, <1>4, <1>5

LEMMA BufferKept ==
  ASSUME BufferOrder, UNCHANGED <<mishaps, passed, buffer, seen>>,
         InFlight => InFlight' \/ "drop" \in mishaps
  PROVE  BufferOrder'
  BY DEF BufferOrder, LongestEvent

LEMMA OneTag ==
  ASSUME NEW x \in Balloons
  PROVE  /\ <<x>> \in Seq(Balloons) /\ <<x>> # <<>> /\ <<x>> # <<Optical>>
         /\ Increasing(<<x>>) /\ Len(<<x>>) = 1 /\ Top(<<x>>) = x /\ <<x>>[1] = x
  BY BalloonsAreNumbers DEF Increasing, Top

\* Events in the buffer, one by one.
LEMMA EventFacts ==
  ASSUME ReaderShape
  PROVE  /\ Len(buffer) \in Nat /\ DOMAIN buffer = 1 .. Len(buffer)
         /\ passed \in Nat /\ seen \in Seq(Balloons)
         /\ \A i \in DOMAIN buffer : buffer[i] # <<Optical>> =>
              buffer[i] \in Seq(Balloons) /\ buffer[i] # <<>> /\ buffer[i][1] \in Nat
  <1>1. /\ buffer \in Seq(Events) /\ Len(buffer) \in Nat /\ DOMAIN buffer = 1 .. Len(buffer)
        /\ passed \in Nat /\ seen \in Seq(Balloons)
    BY ReaderBounds DEF ReaderShape, ReaderTypeOK
  <1>2. ASSUME NEW i \in DOMAIN buffer, buffer[i] # <<Optical>>
        PROVE  buffer[i] \in Seq(Balloons) /\ buffer[i] # <<>> /\ buffer[i][1] \in Nat
    <2>1. buffer[i] \in Events
      BY <1>1, ElementOfSeq
    <2>2. buffer[i] \in Seq(Balloons) /\ buffer[i] # <<>>
      BY <1>2, <2>1 DEF Events
    <2> QED
      BY <2>2, Shortened, BalloonsAreNumbers
  <1> QED
    BY <1>1, <1>2

\* A new event lies behind the others.
LEMMA BufferGrows ==
  ASSUME ReaderShape, BufferOrder, UNCHANGED <<mishaps, seen>>, InFlight' = InFlight,
         NEW x \in Balloons, NEW e \in {<<x>>, <<Optical>>}, buffer' = Append(buffer, e),
         passed' \in Nat, passed <= x, x <= passed'
  PROVE  BufferOrder'
  <1> DEFINE n == Len(buffer) + 1
  <1>1. /\ Len(buffer) \in Nat /\ DOMAIN buffer = 1 .. Len(buffer) /\ passed \in Nat
        /\ \A i \in DOMAIN buffer : buffer[i] # <<Optical>> =>
              buffer[i] \in Seq(Balloons) /\ buffer[i] # <<>> /\ buffer[i][1] \in Nat
    BY EventFacts
  <1>2. /\ DOMAIN buffer' = 1 .. n /\ buffer'[n] = e
        /\ \A i \in DOMAIN buffer : buffer'[i] = buffer[i]
    <2>1. buffer \in Seq(Events \cup {e}) /\ e \in Events \cup {e}
      BY DEF ReaderShape
    <2> QED
      BY <2>1, Appended
  <1>3. /\ x \in Nat /\ Top(seen) \in Nat /\ seen \in Seq(Balloons) /\ Increasing(seen)
        /\ Top(seen) <= x
    <2>1. seen \in Seq(Balloons) /\ Increasing(seen) /\ Top(seen) <= passed
      BY DEF ReaderShape, ReaderTypeOK, BufferOrder
    <2>2. Top(seen) \in Nat /\ x \in Nat
      BY <2>1, TopIsLargest, BalloonsAreNumbers
    <2> QED
      BY <1>1, <2>1, <2>2
  <1>4. e # <<Optical>> =>
          /\ e \in Seq(Balloons) /\ e # <<>> /\ Increasing(e) /\ Len(e) = 1 /\ Top(e) = x
          /\ e[1] = x
    BY OneTag
  <1>5. \A i \in DOMAIN buffer : buffer[i] # <<Optical>> =>
          Top(buffer[i]) \in Nat /\ Top(buffer[i]) <= passed
    BY <1>1, TopIsLargest, BalloonsAreNumbers DEF BufferOrder
  <1>6. LongestEvent' = LongestEvent /\ 1 <= LongestEvent
    BY ReaderBounds DEF LongestEvent
  <1>7. ASSUME NEW i \in DOMAIN buffer', buffer'[i] # <<Optical>>
        PROVE  /\ Increasing(buffer'[i]) /\ Len(buffer'[i]) <= LongestEvent
               /\ Top(buffer'[i]) <= passed' /\ (i > 1 => Top(seen) <= buffer'[i][1])
    <2>1. CASE i = n
      BY <1>2, <1>3, <1>4, <1>6, <1>7, <2>1
    <2>2. CASE i \in DOMAIN buffer
      <3>1. Top(buffer[i]) <= passed'
        BY <1>1, <1>2, <1>3, <1>5, <1>7, <2>2
      <3> QED
        BY <1>2, <1>7, <2>2, <3>1 DEF BufferOrder
    <2> QED
      BY <1>1, <1>2, <2>1, <2>2
  <1>8. ASSUME NEW i \in DOMAIN buffer', NEW j \in DOMAIN buffer', i < j,
               buffer'[i] # <<Optical>>, buffer'[j] # <<Optical>>
        PROVE  Top(buffer'[i]) <= buffer'[j][1]
    <2>1. i \in DOMAIN buffer
      BY <1>1, <1>2, <1>8
    <2>2. CASE j = n
      BY <1>1, <1>2, <1>3, <1>4, <1>5, <1>8, <2>1, <2>2
    <2>3. CASE j \in DOMAIN buffer
      BY <1>2, <1>8, <2>1, <2>3 DEF BufferOrder
    <2> QED
      BY <1>1, <1>2, <2>2, <2>3
  <1>9. ASSUME buffer'[1] # <<Optical>>, InFlight' => "drop" \in mishaps
        PROVE  \E k \in 0 .. Len(buffer'[1]) : Follows(buffer'[1], seen, k)
    <2>1. CASE buffer = <<>>
      <3>1. buffer'[1] = e
        BY <1>2, <2>1
      <3> QED
        BY <1>3, <1>4, <1>9, <3>1, LaterFollows
    <2>2. CASE buffer # <<>>
      <3>1. 1 \in DOMAIN buffer /\ buffer'[1] = buffer[1]
        BY <1>2, <2>2, Shortened DEF ReaderShape
      <3> QED
        BY <1>9, <2>2, <3>1 DEF BufferOrder
    <2> QED
      BY <2>1, <2>2
  <1>10. Increasing(seen') /\ Top(seen') <= passed' /\ mishaps' = mishaps /\ seen' = seen
    BY <1>3
  <1> QED
    BY <1>6, <1>7, <1>8, <1>9, <1>10 DEF BufferOrder

\* A tag joins the last event, which is not in flight.
LEMMA BufferJoined ==
  ASSUME ReaderShape, BufferOrder, UNCHANGED <<mishaps, seen>>, InFlight' = InFlight,
         passed < Last, passed' = passed + 1, "pair" \in mishaps,
         Len(buffer) > (IF InFlight THEN 1 ELSE 0),
         buffer[Len(buffer)] # <<Optical>>, Len(buffer[Len(buffer)]) < MaxTags,
         buffer' = [buffer EXCEPT ![Len(buffer)] = Append(@, passed')]
  PROVE  BufferOrder'
  <1> DEFINE n == Len(buffer)
             e == buffer[n]
             x == passed'
             d == Append(e, x)
  <1>1. /\ n \in Nat /\ DOMAIN buffer = 1 .. n /\ passed \in Nat /\ n >= 1
        /\ \A i \in DOMAIN buffer : buffer[i] # <<Optical>> =>
              buffer[i] \in Seq(Balloons) /\ buffer[i] # <<>> /\ buffer[i][1] \in Nat
    BY EventFacts
  <1>2. x \in Balloons /\ x \in Nat /\ passed < x
    BY <1>1, ReaderBounds DEF Balloons
  <1>3. /\ n \in DOMAIN buffer /\ e # <<Optical>> /\ e \in Seq(Balloons) /\ e # <<>>
        /\ Increasing(e) /\ Top(e) <= passed /\ Len(e) < MaxTags
        /\ LongestEvent = MaxTags
    BY <1>1 DEF BufferOrder, LongestEvent
  <1>4. /\ DOMAIN buffer' = 1 .. n /\ buffer'[n] = d
        /\ \A i \in DOMAIN buffer : i # n => buffer'[i] = buffer[i]
    BY <1>1, <1>3
  <1>5. /\ d \in Seq(Balloons) /\ d # <<>> /\ Len(d) = Len(e) + 1 /\ Len(e) \in Nat \ {0}
        /\ \A j \in 1 .. Len(e) : d[j] = e[j]
        /\ d[Len(e) + 1] = x /\ DOMAIN d = 1 .. Len(e) + 1
    <2>1. e \in Seq(Balloons)
      BY <1>3
    <2> HIDE DEF e, x
    <2> QED
      BY <1>2, <1>3, <2>1, Appended, Shortened
  <1>6. Increasing(d) /\ Top(d) = x /\ d[1] = e[1] /\ Len(d) <= LongestEvent
    <2>1. Top(e) \in Nat /\ x > Top(e)
      <3>1. Top(e) \in Nat
        BY <1>3, TopIsLargest, BalloonsAreNumbers
      <3> QED
        BY <1>1, <1>2, <1>3, <3>1
    <2>2. Increasing(d) /\ Top(d) = x
      BY <1>2, <1>3, <2>1, IncreasingAppended, BalloonsAreNumbers
    <2>3. d[1] = e[1] /\ Len(d) <= LongestEvent
      BY <1>3, <1>5, ReaderBounds
    <2> QED
      BY <2>2, <2>3
  <1>7. \A i \in DOMAIN buffer : buffer[i] # <<Optical>> =>
          Top(buffer[i]) \in Nat /\ Top(buffer[i]) <= passed
    BY <1>1, TopIsLargest, BalloonsAreNumbers DEF BufferOrder
  <1>8. Top(seen) \in Nat /\ Top(seen) <= passed /\ Increasing(seen) /\ seen \in Seq(Balloons)
    <2>1. seen \in Seq(Balloons) /\ Increasing(seen) /\ Top(seen) <= passed
      BY EventFacts DEF BufferOrder
    <2> QED
      BY <2>1, TopIsLargest, BalloonsAreNumbers
  <1> HIDE DEF d, e
  <1>9. ASSUME NEW i \in DOMAIN buffer', buffer'[i] # <<Optical>>
        PROVE  /\ Increasing(buffer'[i]) /\ Len(buffer'[i]) <= LongestEvent
               /\ Top(buffer'[i]) <= passed' /\ (i > 1 => Top(seen) <= buffer'[i][1])
    <2>1. CASE i = n
      <3>1. i > 1 => Top(seen) <= e[1]
        BY <1>3, <2>1 DEF BufferOrder, e
      <3>2. buffer'[i] = d
        BY <1>4, <2>1
      <3>3. Top(d) <= passed'
        BY <1>2, <1>6
      <3> QED
        BY <1>6, <3>1, <3>2, <3>3
    <2>2. CASE i # n
      <3>1. i \in DOMAIN buffer /\ buffer'[i] = buffer[i]
        BY <1>1, <1>4, <2>2
      <3>2. Top(buffer[i]) <= passed'
        BY <1>1, <1>2, <1>7, <1>9, <3>1
      <3>3. /\ Increasing(buffer[i]) /\ Len(buffer[i]) <= LongestEvent
            /\ (i > 1 => Top(seen) <= buffer[i][1])
        BY <1>9, <3>1 DEF BufferOrder
      <3> QED
        BY <3>1, <3>2, <3>3
    <2> QED
      BY <2>1, <2>2
  <1>10. ASSUME NEW i \in DOMAIN buffer', NEW j \in DOMAIN buffer', i < j,
                buffer'[i] # <<Optical>>, buffer'[j] # <<Optical>>
         PROVE  Top(buffer'[i]) <= buffer'[j][1]
    <2>1. i \in DOMAIN buffer /\ j \in DOMAIN buffer /\ buffer'[i] = buffer[i]
      BY <1>1, <1>4, <1>10
    <2>2. buffer[j] # <<Optical>> /\ buffer'[j][1] = buffer[j][1]
      BY <1>3, <1>4, <1>6, <1>10, <2>1 DEF e
    <2> QED
      BY <1>10, <2>1, <2>2 DEF BufferOrder
  <1>11. ASSUME buffer'[1] # <<Optical>>, InFlight' => "drop" \in mishaps
         PROVE  \E k \in 0 .. Len(buffer'[1]) : Follows(buffer'[1], seen, k)
    <2>1. CASE n = 1
      <3>1. PICK k \in 0 .. Len(e) : Follows(e, seen, k)
        <4>1. buffer # <<>> /\ buffer[1] # <<Optical>> /\ e = buffer[1]
          <5>1. buffer # <<>>
            <6>1. buffer \in Seq(Events) /\ Len(buffer) # 0
              BY <2>1 DEF ReaderShape
            <6> QED
              BY <6>1, EmptySeq
          <5>2. e = buffer[1]
            BY <2>1 DEF e
          <5> QED
            BY <1>3, <5>1, <5>2
        <4>2. \E k \in 0 .. Len(buffer[1]) : Follows(buffer[1], seen, k)
          BY <1>11, <4>1 DEF BufferOrder
        <4> QED
          BY <4>1, <4>2
      <3>2. EndsWith(seen, d, k)
        BY <1>5, <3>1 DEF Follows, EndsWith
      <3>3. ASSUME NEW j \in DOMAIN d, j > k PROVE d[j] > Top(seen)
        <4>1. CASE j \in 1 .. Len(e)
          <5>1. DOMAIN e = 1 .. Len(e)
            BY <1>3
          <5> QED
            BY <1>5, <3>1, <3>3, <4>1, <5>1 DEF Follows
        <4>2. CASE j = Len(e) + 1
          BY <1>1, <1>2, <1>5, <1>8, <4>2
        <4> QED
          BY <1>5, <4>1, <4>2
      <3>4. k \in 0 .. Len(d)
        BY <1>5
      <3>5. Follows(d, seen, k)
        BY <3>2, <3>3, <3>4 DEF Follows
      <3> QED
        BY <1>4, <2>1, <3>4, <3>5
    <2>2. CASE n # 1
      <3>1. 1 \in DOMAIN buffer /\ buffer'[1] = buffer[1] /\ buffer # <<>>
        BY <1>1, <1>4, <2>2
      <3> QED
        BY <1>11, <3>1 DEF BufferOrder
    <2> QED
      BY <2>1, <2>2
  <1>12. /\ Increasing(seen') /\ Top(seen') <= passed' /\ mishaps' = mishaps /\ seen' = seen
         /\ LongestEvent' = LongestEvent
    BY <1>1, <1>2, <1>8 DEF LongestEvent
  <1> QED
    BY <1>9, <1>10, <1>11, <1>12 DEF BufferOrder

\* The first event is done with.
LEMMA BufferShrinks ==
  ASSUME ReaderShape, BufferOrder, UNCHANGED <<mishaps, passed, seen>>,
         buffer # <<>>, buffer' = Tail(buffer)
  PROVE  BufferOrder'
  <1>1. /\ Len(buffer) \in Nat \ {0} /\ DOMAIN buffer = 1 .. Len(buffer)
        /\ DOMAIN buffer' = 1 .. Len(buffer) - 1
        /\ \A i \in 1 .. Len(buffer) - 1 : buffer'[i] = buffer[i + 1]
    BY Shortened DEF ReaderShape
  <1>2. \A i \in DOMAIN buffer' :
          i + 1 \in DOMAIN buffer /\ i + 1 > 1 /\ i \in Nat /\ buffer'[i] = buffer[i + 1]
    BY <1>1
  <1>3. ASSUME NEW i \in DOMAIN buffer', buffer'[i] # <<Optical>>
        PROVE  /\ Increasing(buffer'[i]) /\ Len(buffer'[i]) <= LongestEvent
               /\ Top(buffer'[i]) <= passed /\ Top(seen) <= buffer'[i][1]
    BY <1>2, <1>3 DEF BufferOrder
  <1>4. ASSUME NEW i \in DOMAIN buffer', NEW j \in DOMAIN buffer', i < j,
               buffer'[i] # <<Optical>>, buffer'[j] # <<Optical>>
        PROVE  Top(buffer'[i]) <= buffer'[j][1]
    <2>1. i + 1 < j + 1
      BY <1>2, <1>4
    <2> QED
      BY <1>2, <1>4, <2>1 DEF BufferOrder
  <1>5. ASSUME buffer' # <<>>, buffer'[1] # <<Optical>>
        PROVE  \E k \in 0 .. Len(buffer'[1]) : Follows(buffer'[1], seen, k)
    <2>1. 1 \in DOMAIN buffer'
      <3>1. buffer' \in Seq(Events)
        BY Shortened DEF ReaderShape
      <3> QED
        BY <1>5, <3>1, Shortened
    <2>2. buffer'[1] \in Seq(Balloons) /\ buffer'[1] # <<>> /\ seen \in Seq(Balloons)
      BY <1>2, <1>5, <2>1, EventFacts
    <2>3. Increasing(seen)
      BY DEF BufferOrder
    <2> QED
      BY <1>3, <1>5, <2>1, <2>2, <2>3, LaterFollows
  <1>6. LongestEvent' = LongestEvent /\ Increasing(seen') /\ Top(seen') <= passed'
    BY DEF LongestEvent, BufferOrder
  <1> QED
    BY <1>3, <1>4, <1>5, <1>6 DEF BufferOrder

\* Who is unchanged, or has nothing left, is served no more than before.
LEMMA ServedKept ==
  ASSUME ServedOnce, seen \in Seq(Balloons), Increasing(seen), UNCHANGED <<seen, pushed>>,
         \A b \in Balloons : counted'[b] = counted[b],
         \A g \in Handlers : jobs'[g] = jobs[g] \/ jobs'[g].todo = <<>>
  PROVE  ServedOnce'
  <1>1. Increasing(<<>>) /\ Top(<<>>) = 0 /\ \A x : ~Among(x, <<>>)
    BY DEF Increasing, Top, Among
  <1>2. Top(seen) >= 0
    <2>1. Top(seen) \in Nat
      BY TopIsLargest, BalloonsAreNumbers
    <2> QED
      BY <2>1
  <1>3. ASSUME NEW h \in Handlers, jobs'[h].pc = "tags"
        PROVE  Increasing(jobs'[h].todo) /\ Top(jobs'[h].todo) <= Top(seen)
    BY <1>1, <1>2, <1>3 DEF ServedOnce
  <1>4. ASSUME NEW h \in Handlers, NEW b \in Balloons, Among(b, jobs'[h].todo)
        PROVE  Among(b, jobs[h].todo)
    BY <1>1, <1>4
  <1>5. ASSUME NEW h \in Handlers, NEW b \in Balloons, Among(b, jobs'[h].todo)
        PROVE  /\ counted'[b] = 0 /\ pushed'[b] = 0
               /\ \A g \in Handlers : Among(b, jobs'[g].todo) => g = h
    <2>1. Among(b, jobs[h].todo)
      BY <1>4, <1>5
    <2>2. counted'[b] = 0 /\ pushed'[b] = 0
      BY <2>1 DEF ServedOnce
    <2> QED
      BY <1>4, <2>1, <2>2 DEF ServedOnce
  <1> QED
    BY <1>3, <1>5 DEF ServedOnce

LEMMA TodoFacts ==
  ASSUME ReaderShape, ServedOnce
  PROVE  /\ Top(seen) \in Nat \/ ~Increasing(seen)
         /\ \A h \in Handlers, b \in Balloons : Among(b, jobs[h].todo) =>
              jobs[h].pc = "tags" /\ b <= Top(jobs[h].todo) /\ Top(jobs[h].todo) \in Nat
  <1>1. seen \in Seq(Balloons) /\ \A h \in Handlers : JobShape(jobs[h]) /\ jobs[h] \in Job
    BY DEF ReaderShape, ReaderTypeOK
  <1>2. Top(seen) \in Nat \/ ~Increasing(seen)
    BY <1>1, TopIsLargest, BalloonsAreNumbers
  <1>3. ASSUME NEW h \in Handlers, NEW b \in Balloons, Among(b, jobs[h].todo)
        PROVE  jobs[h].pc = "tags" /\ b <= Top(jobs[h].todo) /\ Top(jobs[h].todo) \in Nat
    <2>1. jobs[h].todo # <<>> /\ jobs[h].todo # <<Optical>>
      BY <1>3, BalloonsAreNumbers DEF Among
    <2>2. jobs[h].pc = "tags"
      BY <1>1, <2>1 DEF JobShape, Job
    <2>3. jobs[h].todo \in Seq(Balloons) /\ Increasing(jobs[h].todo)
      BY <1>1, <2>2 DEF JobShape, ServedOnce
    <2> QED
      BY <1>3, <2>2, <2>3, TopIsLargest, BalloonsAreNumbers
  <1> QED
    BY <1>2, <1>3

\* Receiving an event that follows what was seen.
LEMMA ReceiveFilters ==
  ASSUME ReaderShape, BufferOrder, Receive, buffer[1] # <<Optical>>
  PROVE  LET e == buffer[1]
             f == Filter(e, seen)
         IN  /\ e \in Seq(Balloons) /\ e # <<>> /\ Increasing(e) /\ Len(e) \in Nat \ {0}
             /\ f.new \in Seq(Balloons) /\ f.seen \in Seq(Balloons) /\ Len(f.new) <= Len(e)
             /\ Increasing(f.seen) /\ Increasing(f.new)
             /\ Top(seen) \in Nat /\ Top(f.seen) \in Nat /\ Top(f.new) \in Nat
             /\ Top(seen) <= Top(f.seen) /\ Top(f.seen) \in {Top(seen), Top(e)}
             /\ Top(f.new) <= Top(f.seen)
             /\ f.new # <<>> => f.new[1] > Top(seen) /\ f.new[1] \in Nat
             /\ \A x : Among(x, f.new) => x \in Balloons /\ x > Top(seen) /\ x <= Top(f.seen)
             /\ Len(e) <= Memory => EndsWith(f.seen, e, Len(e))
  <1> DEFINE e == buffer[1]
             f == Filter(e, seen)
  <1>1. /\ e \in Seq(Balloons) /\ e # <<>> /\ buffer # <<>> /\ ~InFlight
        /\ seen \in Seq(Balloons)
    <2>1. buffer # <<>> /\ ~InFlight
      BY ReceiveEffect
    <2>2. 1 \in DOMAIN buffer
      BY <2>1, Shortened DEF ReaderShape
    <2> QED
      BY <2>1, <2>2, EventFacts
  <1>2. Increasing(e) /\ Increasing(seen)
    <2>1. 1 \in DOMAIN buffer
      BY <1>1, Shortened DEF ReaderShape
    <2> QED
      BY <2>1 DEF BufferOrder
  <1>3. PICK k \in 0 .. Len(e) : Follows(e, seen, k)
    BY <1>1 DEF BufferOrder
  <1> HIDE DEF e
  <1>4. /\ f.new \in Seq(Balloons) /\ f.seen \in Seq(Balloons) /\ Len(f.new) <= Len(e)
        /\ \A x : Among(x, f.new) => Among(x, e)
    BY <1>1, FilterKeeps
  <1>5. /\ Increasing(f.seen) /\ Increasing(f.new) /\ Top(seen) <= Top(f.seen)
        /\ Top(f.seen) \in {Top(seen), Top(e)}
        /\ \A x : Among(x, f.new) => x > Top(seen) /\ x <= Top(f.seen)
        /\ Len(e) <= Memory => EndsWith(f.seen, e, Len(e))
    BY <1>1, <1>2, <1>3, FilterOrders
  <1> HIDE DEF f
  <1>6. /\ Top(seen) \in Nat /\ Top(f.seen) \in Nat /\ Top(f.new) \in Nat
        /\ f.new # <<>> => Among(Top(f.new), f.new)
        /\ \A x : Among(x, f.new) => x \in Balloons
    BY <1>1, <1>2, <1>4, <1>5, TopIsLargest, BalloonsAreNumbers
  <1>7. Top(f.new) <= Top(f.seen)
    <2>1. f.new = <<>> => Top(f.new) = 0
      BY DEF Top
    <2> QED
      BY <1>5, <1>6, <2>1
  <1>8. f.new # <<>> => f.new[1] > Top(seen) /\ f.new[1] \in Nat
    <2>1. f.new # <<>> => Among(f.new[1], f.new) /\ f.new[1] \in Balloons
      BY <1>4, Shortened
    <2> QED
      BY <1>5, <2>1, BalloonsAreNumbers
  <1>9. Len(e) \in Nat \ {0}
    BY <1>1, Shortened
  <1> QED
    BY <1>1, <1>2, <1>4, <1>5, <1>6, <1>7, <1>8, <1>9 DEF e, f

LEMMA ReceiveOnce ==
  ASSUME ReaderShape, Remembers, mishaps' = mishaps, BufferOrder, ServedOnce, Receive
  PROVE  BufferOrder' /\ ServedOnce'
  <1> DEFINE e == buffer[1]
             f == Filter(e, seen)
  <1>1. /\ live \in Handlers /\ ~InFlight /\ InFlight' /\ buffer # <<>>
        /\ jobs[live].todo = <<>>
        /\ \A g \in Handlers \ {live} : jobs'[g] = jobs[g]
        /\ UNCHANGED <<passed, buffer, counted, pushed>>
        /\ \/ e = <<Optical>> /\ seen' = seen /\ jobs'[live].pc = "input"
              /\ jobs'[live].todo = <<Optical>>
           \/ /\ e # <<Optical>> /\ jobs'[live].pc = "tags"
              /\ jobs'[live].todo = f.new /\ seen' = f.seen
    BY ReceiveEffect DEF deviceVars
  <1>2. LongestEvent' = LongestEvent
    BY DEF LongestEvent
  <1>3. CASE e = <<Optical>>
    <2>1. BufferOrder'
      BY <1>1, <1>2, <1>3 DEF BufferOrder
    <2>2. \A x \in Balloons : ~Among(x, jobs'[live].todo)
      BY <1>1, <1>3, BalloonsAreNumbers DEF Among
    <2>3. ServedOnce'
      <3>1. seen' = seen /\ jobs'[live].pc # "tags"
        BY <1>1, <1>3
      <3> QED
        BY <1>1, <2>2, <3>1 DEF ServedOnce
    <2> QED
      BY <2>1, <2>3
  <1>4. CASE e # <<Optical>>
    <2>1. /\ e \in Seq(Balloons) /\ e # <<>> /\ Increasing(e) /\ Len(e) \in Nat \ {0}
          /\ Increasing(f.seen) /\ Increasing(f.new)
          /\ Top(seen) \in Nat /\ Top(f.seen) \in Nat /\ Top(f.new) \in Nat
          /\ Top(seen) <= Top(f.seen) /\ Top(f.seen) \in {Top(seen), Top(e)}
          /\ Top(f.new) <= Top(f.seen)
          /\ \A x : Among(x, f.new) => x \in Balloons /\ x > Top(seen) /\ x <= Top(f.seen)
          /\ Len(e) <= Memory => EndsWith(f.seen, e, Len(e))
      BY <1>4, ReceiveFilters
    <2>2. seen' = f.seen /\ jobs'[live].todo = f.new /\ jobs'[live].pc = "tags"
      BY <1>1, <1>4
    <2> DEFINE new == f.new
    <2>3. 1 \in DOMAIN buffer /\ DOMAIN buffer = 1 .. Len(buffer) /\ Len(buffer) \in Nat
      BY <1>1, Shortened DEF ReaderShape
    <2> HIDE DEF f
    <2>4. BufferOrder'
      <3>1. Top(f.seen) <= passed
        BY <1>4, <2>1, <2>3 DEF BufferOrder
      <3>2. ASSUME NEW i \in DOMAIN buffer, buffer[i] # <<Optical>>, i > 1
            PROVE  Top(f.seen) <= buffer[i][1]
        <4>1. Top(seen) <= buffer[i][1] /\ Top(e) <= buffer[i][1]
          BY <1>4, <2>3, <3>2 DEF BufferOrder
        <4> QED
          BY <2>1, <4>1
      <3>3. ASSUME "drop" \in mishaps
            PROVE  \E k \in 0 .. Len(e) : Follows(e, f.seen, k)
        <4>1. Len(e) <= LongestEvent
          BY <1>4, <2>3 DEF BufferOrder
        <4>2. LongestEvent <= Memory /\ LongestEvent \in Nat
          BY <3>3, ReaderBounds DEF Remembers, LongestEvent
        <4>3. EndsWith(f.seen, e, Len(e))
          BY <2>1, <4>1, <4>2, ReaderBounds
        <4>4. Follows(e, f.seen, Len(e)) /\ Len(e) \in 0 .. Len(e)
          <5>1. DOMAIN e = 1 .. Len(e)
            BY <2>1
          <5> QED
            BY <2>1, <4>3, <5>1 DEF Follows
        <4> QED
          BY <4>4
      <3> QED
        BY <1>1, <1>2, <2>1, <2>2, <3>1, <3>2, <3>3 DEF BufferOrder
    <2>5. ServedOnce'
      <3>1. \A h \in Handlers : jobs'[h].pc = "tags" =>
              Increasing(jobs'[h].todo) /\ Top(jobs'[h].todo) <= Top(seen')
        <4>1. ASSUME NEW h \in Handlers, h # live, jobs[h].pc = "tags"
              PROVE  Increasing(jobs[h].todo) /\ Top(jobs[h].todo) <= Top(f.seen)
          <5>1. /\ jobs[h].todo \in Seq(Balloons) /\ Increasing(jobs[h].todo)
                /\ Top(jobs[h].todo) <= Top(seen)
            BY <4>1 DEF ServedOnce, ReaderShape, JobShape
          <5>2. Top(jobs[h].todo) \in Nat
            BY <5>1, TopIsLargest, BalloonsAreNumbers
          <5> QED
            BY <2>1, <5>1, <5>2
        <4> QED
          BY <1>1, <2>1, <2>2, <4>1
      <3>2. ASSUME NEW b \in Balloons
            PROVE  /\ counted[b] <= 1 /\ pushed[b] <= 1
                   /\ counted[b] > 0 \/ pushed[b] > 0 => b <= Top(f.seen)
        <4>1. /\ counted[b] <= 1 /\ pushed[b] <= 1
              /\ counted[b] > 0 \/ pushed[b] > 0 => b <= Top(seen)
          BY DEF ServedOnce
        <4> QED
          BY <2>1, <4>1, BalloonsAreNumbers
      <3>3. ASSUME NEW b \in Balloons, Among(b, new)
            PROVE  /\ counted[b] = 0 /\ pushed[b] = 0
                   /\ \A g \in Handlers : ~Among(b, jobs[g].todo)
        <4>1. b > Top(seen) /\ b \in Nat
          BY <2>1, <3>3, BalloonsAreNumbers
        <4>2. counted[b] \in Nat /\ pushed[b] \in Nat
          BY DEF ReaderShape, ReaderTypeOK
        <4>3. counted[b] = 0 /\ pushed[b] = 0
          BY <2>1, <4>1, <4>2 DEF ServedOnce
        <4>4. ASSUME NEW g \in Handlers, Among(b, jobs[g].todo) PROVE FALSE
          <5>1. jobs[g].pc = "tags" /\ b <= Top(jobs[g].todo) /\ Top(jobs[g].todo) \in Nat
            BY <4>4, TodoFacts
          <5>2. Top(jobs[g].todo) <= Top(seen)
            BY <5>1 DEF ServedOnce
          <5> QED
            BY <2>1, <4>1, <5>1, <5>2
        <4> QED
          BY <4>3, <4>4
      <3> HIDE DEF new
      <3>4. ASSUME NEW b \in Balloons, NEW h \in Handlers, Among(b, jobs'[h].todo)
            PROVE  /\ counted[b] = 0 /\ pushed[b] = 0
                   /\ \A g \in Handlers : Among(b, jobs'[g].todo) => g = h
        <4>1. jobs'[live].todo = new
          BY <2>2 DEF new
        <4>2. CASE h = live
          BY <1>1, <3>3, <3>4, <4>1, <4>2
        <4>3. CASE h # live
          <5>1. Among(b, jobs[h].todo)
            BY <1>1, <3>4, <4>3
          <5>2. ~Among(b, new)
            BY <3>3, <5>1
          <5> QED
            BY <1>1, <4>1, <5>1, <5>2 DEF ServedOnce
        <4> QED
          BY <4>2, <4>3
      <3> QED
        BY <1>1, <2>2, <3>1, <3>2, <3>4 DEF ServedOnce
    <2> QED
      BY <2>4, <2>5
  <1> QED
    BY <1>3, <1>4

LEMMA ServeTagOnce ==
  ASSUME ReaderShape, Increasing(seen), ServedOnce, NEW h \in Handlers, ServeTag(h)
  PROVE  ServedOnce'
  <1> DEFINE todo == jobs[h].todo
             t == todo[1]
             rest == jobs'[h].todo
  <1>1. /\ todo \in Seq(Balloons) /\ todo # <<>> /\ t = Head(todo) /\ t \in Balloons
        /\ jobs[h].pc = "tags"
        /\ rest = Tail(todo) \/ rest = <<>>
        /\ \A g \in Handlers \ {h} : jobs'[g] = jobs[g]
        /\ counted' = [counted EXCEPT ![t] = @ + 1]
        /\ pushed' = pushed \/ pushed' = [pushed EXCEPT ![t] = @ + 1]
        /\ seen' = seen
    BY ServeTagEffect
  <1>2. Increasing(todo) /\ Top(todo) <= Top(seen) /\ seen \in Seq(Balloons)
    BY <1>1 DEF ServedOnce, ReaderShape, ReaderTypeOK
  <1>3. Top(todo) \in Nat /\ Top(seen) \in Nat /\ \A x : Among(x, todo) => x <= Top(todo)
    BY <1>1, <1>2, TopIsLargest, BalloonsAreNumbers
  <1>4. Among(t, todo) /\ \A x : Among(x, Tail(todo)) => Among(x, todo)
    BY <1>1, Shortened
  <1>5. /\ Increasing(Tail(todo)) /\ \A x : Among(x, Tail(todo)) => t < x
        /\ Tail(todo) # <<>> => Top(Tail(todo)) = Top(todo)
    <2> HIDE DEF t, todo
    <2>1. todo \in Seq(Balloons) /\ todo # <<>> /\ Increasing(todo) /\ Head(todo) = t
      BY <1>1, <1>2
    <2> QED
      BY <2>1, IncreasingShortened, BalloonsAreNumbers
  <1>6. Increasing(<<>>) /\ Top(<<>>) = 0 /\ \A x : ~Among(x, <<>>)
    BY DEF Increasing, Top, Among
  <1> HIDE DEF t, todo
  <1>7. /\ Increasing(rest) /\ Top(rest) <= Top(seen) /\ ~Among(t, rest)
        /\ \A x : Among(x, rest) => Among(x, todo)
    <2>1. CASE rest = <<>>
      BY <1>3, <1>6, <2>1
    <2>2. CASE rest = Tail(todo) /\ rest # <<>>
      <3>1. t \in Nat
        BY <1>1, BalloonsAreNumbers
      <3>2. ~Among(t, Tail(todo))
        BY <1>5, <3>1
      <3> QED
        BY <1>2, <1>4, <1>5, <2>2, <3>2
    <2> QED
      BY <1>1, <2>1, <2>2
  <1> HIDE DEF rest
  <1>8. counted[t] = 0 /\ pushed[t] = 0 /\ \A g \in Handlers : Among(t, jobs[g].todo) => g = h
    BY <1>1, <1>4 DEF ServedOnce, todo
  <1>9. ASSUME NEW b \in Balloons
        PROVE  \/ b # t /\ counted'[b] = counted[b] /\ pushed'[b] = pushed[b]
               \/ b = t /\ counted'[b] = 1 /\ pushed'[b] \in {0, 1}
    BY <1>1, <1>8 DEF ReaderShape, ReaderTypeOK
  <1>10. ASSUME NEW g \in Handlers, NEW b \in Balloons, Among(b, jobs'[g].todo)
         PROVE  Among(b, jobs[g].todo) /\ b # t
    <2>1. CASE g = h
      BY <1>7, <1>10, <2>1 DEF rest, todo
    <2>2. CASE g # h
      BY <1>1, <1>8, <1>10, <2>2
    <2> QED
      BY <2>1, <2>2
  <1>11. t <= Top(seen)
    <2>1. t <= Top(todo) /\ t \in Nat
      BY <1>1, <1>3, <1>4, BalloonsAreNumbers
    <2> QED
      BY <1>2, <1>3, <2>1
  <1>12. \A g \in Handlers : jobs'[g].pc = "tags" =>
           Increasing(jobs'[g].todo) /\ Top(jobs'[g].todo) <= Top(seen)
    <2>1. ASSUME NEW g \in Handlers, g # h, jobs[g].pc = "tags"
          PROVE  Increasing(jobs[g].todo) /\ Top(jobs[g].todo) <= Top(seen)
      BY <2>1 DEF ServedOnce
    <2> QED
      BY <1>1, <1>7, <2>1 DEF rest
  <1>13. \A b \in Balloons : /\ counted'[b] <= 1 /\ pushed'[b] <= 1
                             /\ counted'[b] > 0 \/ pushed'[b] > 0 => b <= Top(seen)
    BY <1>9, <1>11 DEF ServedOnce
  <1>14. ASSUME NEW g \in Handlers, NEW b \in Balloons, Among(b, jobs'[g].todo)
         PROVE  /\ counted'[b] = 0 /\ pushed'[b] = 0
                /\ \A k \in Handlers : Among(b, jobs'[k].todo) => k = g
    <2>1. Among(b, jobs[g].todo) /\ b # t
      BY <1>10, <1>14
    <2>2. counted'[b] = 0 /\ pushed'[b] = 0
      BY <1>9, <2>1 DEF ServedOnce
    <2> QED
      BY <1>10, <2>1, <2>2 DEF ServedOnce
  <1> QED
    BY <1>1, <1>12, <1>13, <1>14 DEF ServedOnce

LEMMA OnceStep ==
  ASSUME ReaderShape, OnceInv, mishaps' = mishaps, ReaderNext
  PROVE  OnceInv'
  <1> SUFFICES ASSUME Remembers, BufferOrder, ServedOnce PROVE BufferOrder' /\ ServedOnce'
    <2>1. Remembers' = Remembers
      BY DEF Remembers
    <2> QED
      BY <2>1 DEF OnceInv
  <1>1. seen \in Seq(Balloons) /\ Increasing(seen)
    BY DEF ReaderShape, ReaderTypeOK, BufferOrder
  <1>2. CASE Receive
    BY <1>2, ReceiveOnce
  <1>3. ASSUME NEW h \in Handlers, ServeTag(h) PROVE BufferOrder' /\ ServedOnce'
    <2>1. UNCHANGED <<passed, buffer, seen>> /\ InFlight' = InFlight
      BY <1>3, ServeTagEffect DEF deviceVars
    <2> QED
      BY <1>1, <1>3, <2>1, BufferKept, ServeTagOnce
  <1>4. ASSUME NEW h \in Handlers, ServeInput(h) PROVE BufferOrder' /\ ServedOnce'
    <2>1. /\ UNCHANGED <<passed, buffer, seen, pushed>> /\ InFlight' = InFlight
          /\ jobs'[h].todo = <<>> /\ \A g \in Handlers \ {h} : jobs'[g] = jobs[g]
          /\ counted' = [counted EXCEPT ![Optical] = @ + 1]
      BY <1>4, ServeInputEffect DEF deviceVars
    <2>2. \A b \in Balloons : counted'[b] = counted[b]
      BY <2>1, BalloonsAreNumbers DEF ReaderShape, ReaderTypeOK
    <2> QED
      BY <1>1, <2>1, <2>2, BufferKept, ServedKept
  <1>5. ASSUME NEW h \in Handlers, Call(h) \/ Indicate(h)
        PROVE  BufferOrder' /\ ServedOnce'
    <2>1. CASE Call(h)
      <3>1. UNCHANGED <<passed, buffer, seen, pushed, counted, jobs>> /\ InFlight' = InFlight
        BY <2>1, CallEffect DEF deviceVars, InFlight
      <3> QED
        BY <1>1, <3>1, BufferKept, ServedKept
    <2>2. CASE Indicate(h)
      <3>1. /\ UNCHANGED <<passed, buffer, seen, pushed, counted>> /\ InFlight' = InFlight
            /\ jobs'[h].todo = <<>> /\ \A g \in Handlers \ {h} : jobs'[g] = jobs[g]
        BY <2>2, IndicateEffect DEF deviceVars
      <3> QED
        BY <1>1, <3>1, BufferKept, ServedKept
    <2> QED
      BY <1>5, <2>1, <2>2
  <1>6. ASSUME NEW h \in Handlers, Acknowledge(h) PROVE BufferOrder' /\ ServedOnce'
    <2>1. /\ UNCHANGED <<passed, seen, pushed, counted>>
          /\ jobs'[h].todo = <<>> /\ \A g \in Handlers \ {h} : jobs'[g] = jobs[g]
          /\ \/ buffer # <<>> /\ buffer' = Tail(buffer)
             \/ buffer' = buffer /\ InFlight' = InFlight
      BY <1>6, AcknowledgeEffect
    <2> QED
      BY <1>1, <2>1, BufferKept, BufferShrinks, ServedKept
  <1>7. CASE Pass \/ Reread
    <2>1. /\ UNCHANGED <<jobs, live, seen, counted, pushed>> /\ InFlight' = InFlight
          /\ passed \in 0 .. Last /\ Last \in Nat
      BY <1>7, ReaderBounds DEF Pass, Reread, InFlight, ReaderShape, ReaderTypeOK
    <2>2. CASE Reread
      <3>1. passed \in Balloons /\ passed' = passed /\ buffer' = Append(buffer, <<passed>>)
        BY <2>1, <2>2 DEF Reread, Balloons
      <3>2. BufferOrder'
        BY <2>1, <3>1, BufferGrows
      <3> QED
        BY <1>1, <2>1, <3>2, ServedKept
    <2>3. CASE Pass
      <3>1. /\ passed' = passed + 1 /\ passed < Last /\ passed' \in Balloons
            /\ passed <= passed' /\ passed' \in Nat /\ passed' <= passed'
        BY <2>1, <2>3 DEF Pass, Balloons
      <3>2. BufferOrder'
        <4>1. CASE \E e \in {<<passed'>>, <<Optical>>} : buffer' = Append(buffer, e)
          <5> DEFINE x == passed'
          <5>1. PICK e \in {<<x>>, <<Optical>>} : buffer' = Append(buffer, e)
            BY <4>1
          <5>2. x \in Balloons /\ passed <= x /\ x <= passed' /\ passed' \in Nat
            BY <3>1
          <5> HIDE DEF x
          <5> QED
            BY <2>1, <5>1, <5>2, BufferGrows
        <4>2. CASE /\ "pair" \in mishaps /\ Len(buffer) > (IF InFlight THEN 1 ELSE 0)
                   /\ buffer[Len(buffer)] # <<Optical>> /\ Len(buffer[Len(buffer)]) < MaxTags
                   /\ buffer' = [buffer EXCEPT ![Len(buffer)] = Append(@, passed')]
          BY <2>1, <3>1, <4>2, BufferJoined
        <4> QED
          BY <2>3, <4>1, <4>2 DEF Pass
      <3> QED
        BY <1>1, <2>1, <3>2, ServedKept
    <2> QED
      BY <1>7, <2>2, <2>3
  <1>8. CASE Accept \/ Drop
    <2>1. UNCHANGED <<passed, buffer, jobs, seen, counted, pushed>>
      BY <1>8 DEF Accept, Drop, deviceVars
    <2>2. InFlight => "drop" \in mishaps
      BY <1>8 DEF Accept, Drop, InFlight
    <2> QED
      BY <1>1, <2>1, <2>2, BufferKept, ServedKept
  <1>9. ~Restart
    BY DEF Restart, Remembers
  <1> QED
    BY <1>2, <1>3, <1>4, <1>5, <1>6, <1>7, <1>8, <1>9 DEF ReaderNext, Handle

-----------------------------------------------------------------------------
(***************************************************************************)
(* The order of the passports.                                             *)
(***************************************************************************)
\* The handlers that have something left are the same, and so are the calls.
LEMMA OrderKept ==
  ASSUME QueueOrder, UNCHANGED <<mishaps, queue, seen>>,
         "drop" \in mishaps \/ live' = live \/ \A h \in Handlers : jobs[h].todo = <<>>,
         \A g \in Handlers : \/ jobs'[g] = jobs[g]
                             \/ jobs'[g].todo = <<>> /\ ~Among(g, calls'),
         \A i \in DOMAIN calls' : calls'[i] \in Handlers,
         "pair" \notin mishaps =>
           /\ \A i, j \in DOMAIN calls' : i < j =>
                \E k, l \in DOMAIN calls : /\ k < l /\ calls'[i] = calls[k]
                                           /\ calls'[j] = calls[l]
           /\ \A g \in Handlers : Among(g, calls) /\ jobs'[g].todo # <<>> => Among(g, calls')
  PROVE  QueueOrder'
  <1>1. \A g \in Handlers : jobs'[g].todo # <<>> => jobs'[g] = jobs[g]
    OBVIOUS
  <1>2. Increasing(queue') /\ Top(queue') <= Top(seen')
    BY DEF QueueOrder
  <1>3. \A h \in Handlers : jobs'[h].pc = "tags" /\ jobs'[h].todo # <<>> =>
          Top(queue') < jobs'[h].todo[1]
    BY <1>1 DEF QueueOrder
  <1>4. "drop" \notin mishaps' => \A h \in Handlers : jobs'[h].todo # <<>> => h = live'
    BY <1>1 DEF QueueOrder
  <1>5. Len(<<>>) <= 1
    OBVIOUS
  <1>6. ASSUME "pair" \notin mishaps, NEW h \in Handlers
        PROVE  /\ Len(jobs'[h].todo) <= 1
               /\ jobs'[h].todo # <<>> => Among(h, calls')
    <2>1. CASE jobs'[h].todo = <<>>
      BY <1>5, <2>1
    <2>2. CASE jobs'[h] = jobs[h] /\ jobs[h].todo # <<>>
      <3>1. Len(jobs[h].todo) <= 1 /\ Among(h, calls)
        BY <1>6, <2>2 DEF QueueOrder
      <3> QED
        BY <1>6, <2>2, <3>1
    <2> QED
      BY <1>1, <2>1, <2>2
  <1>7. ASSUME "pair" \notin mishaps, NEW i \in DOMAIN calls', NEW j \in DOMAIN calls', i < j,
               jobs'[calls'[i]].pc = "tags", jobs'[calls'[j]].pc = "tags"
        PROVE  jobs'[calls'[i]].todo[1] < jobs'[calls'[j]].todo[1]
    <2>1. PICK k \in DOMAIN calls, l \in DOMAIN calls :
            k < l /\ calls'[i] = calls[k] /\ calls'[j] = calls[l]
      BY <1>7
    <2>2. jobs'[calls'[i]] = jobs[calls[k]] /\ jobs'[calls'[j]] = jobs[calls[l]]
      BY <2>1 DEF Among
    <2> QED
      BY <1>7, <2>1, <2>2 DEF QueueOrder
  <1> QED
    BY <1>2, <1>3, <1>4, <1>6, <1>7 DEF QueueOrder

\* The list becomes shorter at its old end, or empty.
LEMMA QueueTaken ==
  ASSUME QueueOrder, queue \in Seq(Balloons), seen \in Seq(Balloons), Increasing(seen),
         UNCHANGED <<mishaps, live, jobs, calls, seen>>,
         queue' = <<>> \/ (queue # <<>> /\ queue' = Tail(queue)) \/ queue' = queue,
         \A h \in Handlers : JobShape(jobs[h])
  PROVE  QueueOrder'
  <1>1. Top(seen) \in Nat /\ Top(queue) \in Nat
    BY TopIsLargest, BalloonsAreNumbers DEF QueueOrder
  <1>2. Increasing(queue') /\ Top(queue') \in {0, Top(queue)}
    <2>1. CASE queue' = <<>>
      BY <2>1 DEF Increasing, Top
    <2>2. CASE queue # <<>> /\ queue' = Tail(queue) /\ queue' # <<>>
      BY <2>2, IncreasingShortened, BalloonsAreNumbers DEF QueueOrder
    <2>3. CASE queue' = queue
      BY <2>3 DEF QueueOrder
    <2> QED
      BY <2>1, <2>2, <2>3
  <1>3. Top(queue') <= Top(seen')
    BY <1>1, <1>2 DEF QueueOrder
  <1>4. ASSUME NEW h \in Handlers, jobs[h].pc = "tags", jobs[h].todo # <<>>
        PROVE  Top(queue') < jobs[h].todo[1]
    <2>1. Top(queue) < jobs[h].todo[1]
      BY <1>4 DEF QueueOrder
    <2>2. jobs[h].todo[1] \in Nat
      BY <1>4, Shortened, BalloonsAreNumbers DEF JobShape
    <2>3. Top(queue') <= Top(queue) /\ Top(queue') \in Nat
      BY <1>1, <1>2
    <2> QED
      BY <1>1, <2>1, <2>2, <2>3
  <1> QED
    BY <1>2, <1>3, <1>4 DEF QueueOrder

LEMMA ReceiveOrder ==
  ASSUME ReaderShape, mishaps' = mishaps, InOrder, BufferOrder, ServedOnce, QueueOrder,
         Receive
  PROVE  QueueOrder'
  <1> DEFINE e == buffer[1]
             f == Filter(e, seen)
             todo == jobs'[live].todo
  <1>1. /\ ReaderShape' /\ live \in Handlers /\ ~InFlight /\ buffer # <<>> /\ live' = live
        /\ jobs[live].todo = <<>> /\ ~Among(live, calls) /\ queue' = queue
        /\ \A g \in Handlers \ {live} : jobs'[g] = jobs[g]
        /\ \/ /\ e = <<Optical>> /\ seen' = seen /\ calls' = Append(calls, live)
              /\ jobs'[live].pc = "input" /\ todo = <<Optical>>
           \/ /\ e # <<Optical>> /\ jobs'[live].pc = "tags" /\ todo = f.new /\ seen' = f.seen
              /\ calls' = IF f.new # <<>> THEN Append(calls, live) ELSE calls
    BY ReceiveEffect
  <1>2. calls \in Seq(Handlers) /\ queue \in Seq(Balloons) /\ seen \in Seq(Balloons)
    BY DEF ReaderShape, ReaderTypeOK
  <1>3. /\ Len(calls) \in Nat /\ DOMAIN calls = 1 .. Len(calls)
        /\ \A i \in DOMAIN calls : calls[i] \in Handlers /\ calls[i] # live
    <2>1. \A i \in 1 .. Len(calls) : calls[i] \in Handlers
      BY <1>2, ElementOfSeq
    <2> QED
      BY <1>1, <1>2, <2>1 DEF Among
  <1>4. calls' = calls \/ calls' = Append(calls, live)
    BY <1>1
  <1>5. /\ \A i \in DOMAIN calls' : \/ i \in DOMAIN calls /\ calls'[i] = calls[i]
                                    \/ i = Len(calls) + 1 /\ calls'[i] = live
        /\ \A g : Among(g, calls) => Among(g, calls')
    <2>1. CASE calls' = calls
      BY <2>1
    <2>2. CASE calls' = Append(calls, live)
      BY <1>1, <1>2, <2>2, Appended
    <2> QED
      BY <1>4, <2>1, <2>2
  <1>6. todo # <<>> => Among(live, calls')
    <2>1. todo # <<>> => calls' = Append(calls, live)
      BY <1>1
    <2>2. Among(live, Append(calls, live))
      BY <1>1, <1>2, Appended
    <2> QED
      BY <2>1, <2>2
  <1>7. /\ Top(seen) \in Nat /\ Top(seen') \in Nat /\ Top(seen) <= Top(seen')
        /\ Top(queue) \in Nat
        /\ jobs'[live].pc = "tags" /\ todo # <<>> => todo[1] > Top(seen) /\ todo[1] \in Nat
        /\ "pair" \notin mishaps => Len(todo) <= 1
    <2>1. Top(seen) \in Nat /\ Top(queue) \in Nat
      BY <1>2, TopIsLargest, BalloonsAreNumbers DEF BufferOrder, QueueOrder
    <2>2. CASE e = <<Optical>>
      <3>1. seen' = seen /\ jobs'[live].pc = "input" /\ todo = <<Optical>>
        BY <1>1, <2>2
      <3>2. Len(<<Optical>>) <= 1
        OBVIOUS
      <3> HIDE DEF todo
      <3> QED
        BY <2>1, <3>1, <3>2
    <2>3. CASE e # <<Optical>>
      <3>1. /\ Top(seen) <= Top(f.seen) /\ Top(f.seen) \in Nat
            /\ f.new # <<>> => f.new[1] > Top(seen) /\ f.new[1] \in Nat
            /\ Len(f.new) <= Len(e) /\ f.new \in Seq(Balloons) /\ Len(e) \in Nat \ {0}
        BY <2>3, ReceiveFilters
      <3>2. "pair" \notin mishaps => Len(e) <= 1
        <4>1. 1 \in DOMAIN buffer
          BY <1>1, Shortened DEF ReaderShape
        <4> QED
          BY <2>3, <4>1 DEF BufferOrder, LongestEvent
      <3>3. "pair" \notin mishaps => Len(f.new) <= 1
        BY <3>1, <3>2
      <3> QED
        BY <1>1, <2>1, <2>3, <3>1, <3>3
    <2> QED
      BY <2>2, <2>3
  <1> HIDE DEF e, f, todo
  <1>8. \A h \in Handlers : jobs'[h].pc = "tags" /\ jobs'[h].todo # <<>> =>
          Top(queue) < jobs'[h].todo[1]
    <2>1. ASSUME NEW h \in Handlers, h # live, jobs[h].pc = "tags", jobs[h].todo # <<>>
          PROVE  Top(queue) < jobs[h].todo[1]
      BY <2>1 DEF QueueOrder
    <2>2. jobs'[live].pc = "tags" /\ todo # <<>> => Top(queue) < todo[1]
      <3>1. Top(queue) <= Top(seen)
        BY DEF QueueOrder
      <3> QED
        BY <1>7, <3>1
    <2> QED
      BY <1>1, <2>1, <2>2 DEF todo
  <1>9. "drop" \notin mishaps => \A h \in Handlers : jobs'[h].todo # <<>> => h = live
    BY <1>1 DEF QueueOrder
  <1>10. ASSUME "pair" \notin mishaps, NEW h \in Handlers
         PROVE  /\ Len(jobs'[h].todo) <= 1
                /\ jobs'[h].todo # <<>> => Among(h, calls')
    <2>1. CASE h = live
      BY <1>6, <1>7, <1>10, <2>1 DEF todo
    <2>2. CASE h # live
      <3>1. /\ Len(jobs[h].todo) <= 1
            /\ jobs[h].todo # <<>> => Among(h, calls)
        BY <1>10 DEF QueueOrder
      <3>2. jobs'[h] = jobs[h]
        BY <1>1, <2>2
      <3> QED
        BY <1>5, <3>1, <3>2
    <2> QED
      BY <2>1, <2>2
  <1>11. ASSUME "pair" \notin mishaps, NEW i \in DOMAIN calls', NEW j \in DOMAIN calls', i < j,
                jobs'[calls'[i]].pc = "tags", jobs'[calls'[j]].pc = "tags"
         PROVE  jobs'[calls'[i]].todo[1] < jobs'[calls'[j]].todo[1]
    <2>1. i \in DOMAIN calls /\ calls'[i] = calls[i] /\ jobs'[calls[i]] = jobs[calls[i]]
      BY <1>1, <1>3, <1>5, <1>11
    <2>2. CASE j \in DOMAIN calls /\ calls'[j] = calls[j]
      <3>1. jobs'[calls[j]] = jobs[calls[j]]
        BY <1>1, <1>3, <2>2
      <3> QED
        BY <1>11, <2>1, <2>2, <3>1 DEF QueueOrder
    <2>3. CASE calls'[j] = live
      <3> DEFINE h == calls[i]
      <3>1. h \in Handlers /\ jobs[h].pc = "tags" /\ jobs[h].todo # <<>>
        BY <1>3, <1>11, <2>1 DEF ReaderShape
      <3>2. /\ jobs[h].todo \in Seq(Balloons) /\ Increasing(jobs[h].todo)
            /\ Top(jobs[h].todo) <= Top(seen)
        BY <3>1 DEF ReaderShape, JobShape, ServedOnce
      <3>3. Among(jobs[h].todo[1], jobs[h].todo)
        BY <3>1, <3>2, Shortened
      <3>4. jobs[h].todo[1] <= Top(seen) /\ jobs[h].todo[1] \in Nat
        <4>1. /\ jobs[h].todo[1] <= Top(jobs[h].todo) /\ Top(jobs[h].todo) \in Nat
              /\ jobs[h].todo[1] \in Balloons
          BY <3>2, <3>3, TopIsLargest, BalloonsAreNumbers
        <4>2. jobs[h].todo[1] \in Nat
          BY <4>1, BalloonsAreNumbers
        <4> HIDE DEF h
        <4> QED
          BY <1>7, <3>2, <4>1, <4>2
      <3>5. todo # <<>>
        <4>1. j \in DOMAIN calls' /\ calls' \in Seq(Handlers)
          BY <1>1 DEF ReaderShape, ReaderTypeOK
        <4>2. jobs'[calls'[j]].todo # <<>>
          BY <1>1, <4>1 DEF ReaderShape
        <4> QED
          BY <2>3, <4>2 DEF todo
      <3>6. todo[1] > Top(seen) /\ todo[1] \in Nat
        BY <1>7, <1>11, <2>3, <3>5
      <3> QED
        BY <1>7, <2>1, <2>3, <3>4, <3>6 DEF todo
    <2> QED
      BY <1>5, <2>2, <2>3
  <1>12. Increasing(queue) /\ Top(queue) <= Top(seen')
    <2>1. Increasing(queue) /\ Top(queue) <= Top(seen)
      BY DEF QueueOrder
    <2> QED
      BY <1>7, <2>1
  <1> QED
    BY <1>1, <1>8, <1>9, <1>10, <1>11, <1>12 DEF QueueOrder

\* The calls lose their first one, or none.
LEMMA CallsInOrder ==
  ASSUME CallsShape, calls' = calls \/ (calls # <<>> /\ calls' = Tail(calls))
  PROVE  /\ \A i \in DOMAIN calls' : calls'[i] \in Handlers
         /\ \A i, j \in DOMAIN calls' : i < j =>
              \E k, l \in DOMAIN calls : k < l /\ calls'[i] = calls[k] /\ calls'[j] = calls[l]
         /\ \A g : g # calls[1] /\ Among(g, calls) => Among(g, calls')
  <1>1. \A i \in DOMAIN calls : calls[i] \in Handlers /\ i \in Int
    <2>1. DOMAIN calls = 1 .. Len(calls) /\ Len(calls) \in Nat
      BY DEF CallsShape
    <2>2. \A i \in 1 .. Len(calls) : calls[i] \in Handlers
      BY ElementOfSeq DEF CallsShape
    <2> QED
      BY <2>1, <2>2
  <1>2. CASE calls' = calls
    BY <1>1, <1>2
  <1>3. CASE calls # <<>> /\ calls' = Tail(calls)
    <2>1. /\ Len(calls) \in Nat \ {0} /\ DOMAIN calls = 1 .. Len(calls)
          /\ Head(calls) = calls[1] /\ DOMAIN calls' = 1 .. Len(calls) - 1
          /\ \A i \in 1 .. Len(calls) - 1 : calls'[i] = calls[i + 1]
          /\ \A x : Among(x, calls) <=> x = Head(calls) \/ Among(x, calls')
      BY <1>3, Shortened DEF CallsShape
    <2>2. \A i \in DOMAIN calls' : i + 1 \in DOMAIN calls /\ calls'[i] = calls[i + 1] /\ i \in Int
      BY <2>1
    <2>3. \A i, j \in DOMAIN calls' : i < j => i + 1 < j + 1
      BY <2>2
    <2> QED
      BY <1>1, <2>1, <2>2, <2>3
  <1> QED
    BY <1>2, <1>3

LEMMA ServeTagOrder ==
  ASSUME ReaderShape, mishaps' = mishaps, InOrder, BufferOrder, ServedOnce, QueueOrder,
         NEW h \in Handlers, ServeTag(h)
  PROVE  QueueOrder'
  <1> DEFINE todo == jobs[h].todo
             t == todo[1]
             rest == jobs'[h].todo
  <1>1. /\ ReaderShape' /\ live' = live /\ seen' = seen
        /\ todo \in Seq(Balloons) /\ todo # <<>> /\ t = Head(todo) /\ t \in Balloons
        /\ jobs[h].pc = "tags"
        /\ rest = Tail(todo) \/ rest = <<>>
        /\ \A g \in Handlers \ {h} : jobs'[g] = jobs[g]
        /\ calls # <<>> /\ h = Head(calls) /\ calls' = Tail(calls)
        /\ queue' = queue \/ queue' = Append(queue, t)
    BY ServeTagEffect DEF deviceVars
  <1>2. /\ CallsShape /\ queue \in Seq(Balloons) /\ seen \in Seq(Balloons)
        /\ \A g \in Handlers : JobShape(jobs[g])
    BY DEF ReaderShape, ReaderTypeOK, CallsShape
  <1>3. /\ ~Among(h, calls') /\ calls[1] = h /\ 1 \in DOMAIN calls
        /\ \A i \in DOMAIN calls' : i + 1 \in DOMAIN calls /\ calls'[i] = calls[i + 1]
    BY <1>1, <1>2, CallServed
  <1>4. /\ \A i \in DOMAIN calls' : calls'[i] \in Handlers
        /\ \A i, j \in DOMAIN calls' : i < j =>
             \E k, l \in DOMAIN calls : k < l /\ calls'[i] = calls[k] /\ calls'[j] = calls[l]
        /\ \A g : g # h /\ Among(g, calls) => Among(g, calls')
    BY <1>1, <1>2, <1>3, CallsInOrder
  <1>5. Increasing(todo) /\ Top(todo) <= Top(seen)
    BY <1>1 DEF ServedOnce
  <1>6. /\ Top(todo) \in Nat /\ t <= Top(todo) /\ t \in Nat
        /\ Top(seen) \in Nat /\ Top(queue) \in Nat
    <2>1. Among(t, todo)
      BY <1>1, Shortened
    <2>2. Top(todo) \in Nat /\ t <= Top(todo)
      BY <1>1, <1>5, <2>1, TopIsLargest, BalloonsAreNumbers
    <2>3. Top(seen) \in Nat /\ Top(queue) \in Nat
      BY <1>2, TopIsLargest, BalloonsAreNumbers DEF BufferOrder, QueueOrder
    <2> QED
      BY <1>1, <2>2, <2>3, BalloonsAreNumbers
  <1>7. Top(queue) < t
    BY <1>1 DEF QueueOrder
  <1>8. /\ Increasing(queue') /\ Top(queue') \in {Top(queue), t}
        /\ Top(queue') <= t /\ Top(queue') <= Top(seen)
    <2>1. Increasing(queue') /\ Top(queue') \in {Top(queue), t}
      <3>1. Increasing(queue) /\ t > Top(queue)
        BY <1>6, <1>7 DEF QueueOrder
      <3>2. Increasing(Append(queue, t)) /\ Top(Append(queue, t)) = t
        BY <1>1, <1>2, <3>1, IncreasingAppended, BalloonsAreNumbers
      <3> QED
        BY <1>1, <3>1, <3>2
    <2> QED
      BY <1>5, <1>6, <1>7, <2>1
  \* What is left of the event comes later.
  <1>9. rest # <<>> => t < rest[1]
    <2>1. ASSUME rest = Tail(todo), rest # <<>> PROVE t < rest[1]
      <3>1. rest \in Seq(Balloons)
        BY <1>1, <2>1, Shortened
      <3>2. Among(rest[1], rest)
        BY <2>1, <3>1, Shortened
      <3> QED
        BY <1>1, <1>5, <2>1, <3>2, IncreasingShortened, BalloonsAreNumbers
    <2> QED
      BY <1>1, <2>1
  \* What the other handler has comes later: its call does, or it has nothing.
  <1>10. ASSUME NEW g \in Handlers, g # h, jobs[g].pc = "tags", jobs[g].todo # <<>>
         PROVE  t < jobs[g].todo[1]
    <2>1. CASE "drop" \notin mishaps
      BY <1>1, <1>10, <2>1 DEF QueueOrder
    <2>2. CASE "pair" \notin mishaps
      <3>1. Among(g, calls)
        BY <1>10, <2>2 DEF QueueOrder
      <3>2. PICK j \in DOMAIN calls : calls[j] = g
        BY <3>1 DEF Among
      <3>3. j \in Int /\ j > 1
        <4>1. DOMAIN calls = 1 .. Len(calls) /\ Len(calls) \in Nat
          BY <1>2 DEF CallsShape
        <4> QED
          BY <1>3, <1>10, <3>2, <4>1
      <3> QED
        BY <1>1, <1>3, <1>10, <2>2, <3>2, <3>3 DEF QueueOrder
    <2> QED
      BY <2>1, <2>2 DEF InOrder
  <1>11. \A g \in Handlers : jobs'[g].pc = "tags" /\ jobs'[g].todo # <<>> =>
           Top(queue') < jobs'[g].todo[1]
    <2>1. ASSUME NEW g \in Handlers, jobs'[g].pc = "tags", jobs'[g].todo # <<>>
          PROVE  t < jobs'[g].todo[1] /\ jobs'[g].todo[1] \in Nat
      <3>1. jobs'[g].todo[1] \in Nat
        <4>1. jobs'[g].todo \in Seq(Balloons)
          BY <1>1, <2>1 DEF ReaderShape, JobShape
        <4> QED
          BY <2>1, <4>1, Shortened, BalloonsAreNumbers
      <3>2. t < jobs'[g].todo[1]
        <4>1. CASE g = h
          BY <1>9, <2>1, <4>1
        <4>2. CASE g # h
          BY <1>1, <1>10, <2>1, <4>2
        <4> QED
          BY <4>1, <4>2
      <3> QED
        BY <3>1, <3>2
    <2>2. Top(queue') \in Nat
      BY <1>6, <1>8
    <2> QED
      BY <1>6, <1>8, <2>1, <2>2
  <1>12. "drop" \notin mishaps => \A g \in Handlers : jobs'[g].todo # <<>> => g = live
    BY <1>1 DEF QueueOrder
  <1>13. "pair" \notin mishaps => rest = <<>>
    <2>1. "pair" \notin mishaps => Len(todo) <= 1
      BY DEF QueueOrder
    <2>2. Tail(todo) \in Seq(Balloons) /\ Len(Tail(todo)) = Len(todo) - 1 /\ Len(todo) \in Nat \ {0}
      BY <1>1, Shortened
    <2>3. "pair" \notin mishaps => Tail(todo) = <<>>
      BY <2>1, <2>2, EmptySeq
    <2> QED
      BY <1>1, <2>3
  <1>14. ASSUME "pair" \notin mishaps, NEW g \in Handlers
         PROVE  /\ Len(jobs'[g].todo) <= 1
                /\ jobs'[g].todo # <<>> => Among(g, calls')
    <2>1. CASE g = h
      BY <1>13, <1>14, <2>1
    <2>2. CASE g # h
      <3>1. /\ Len(jobs[g].todo) <= 1
            /\ jobs[g].todo # <<>> => Among(g, calls)
        BY <1>14 DEF QueueOrder
      <3> QED
        BY <1>1, <1>4, <2>2, <3>1
    <2> QED
      BY <2>1, <2>2
  <1>15. ASSUME "pair" \notin mishaps, NEW i \in DOMAIN calls', NEW j \in DOMAIN calls', i < j,
                jobs'[calls'[i]].pc = "tags", jobs'[calls'[j]].pc = "tags"
         PROVE  jobs'[calls'[i]].todo[1] < jobs'[calls'[j]].todo[1]
    <2>1. PICK k \in DOMAIN calls, l \in DOMAIN calls :
            k < l /\ calls'[i] = calls[k] /\ calls'[j] = calls[l]
      BY <1>4, <1>15
    <2>2. calls'[i] # h /\ calls'[j] # h
      BY <1>3 DEF Among
    <2>3. jobs'[calls'[i]] = jobs[calls[k]] /\ jobs'[calls'[j]] = jobs[calls[l]]
      BY <1>1, <1>4, <2>1, <2>2
    <2> QED
      BY <1>15, <2>1, <2>3 DEF QueueOrder
  <1> QED
    BY <1>1, <1>8, <1>11, <1>12, <1>14, <1>15 DEF QueueOrder

LEMMA OrderStep ==
  ASSUME ReaderShape, OnceInv, OrderInv, mishaps' = mishaps, ReaderNext
  PROVE  OrderInv'
  <1> SUFFICES ASSUME InOrder PROVE QueueOrder'
    <2>1. InOrder' = InOrder
      BY DEF InOrder
    <2> QED
      BY <2>1 DEF OrderInv
  <1>1. BufferOrder /\ ServedOnce /\ QueueOrder
    BY DEF OnceInv, OrderInv, InOrder, Remembers
  <1>2. CallsShape
    BY DEF ReaderShape, ReaderTypeOK, CallsShape
  <1>3. CASE Receive
    BY <1>1, <1>3, ReceiveOrder
  <1>4. ASSUME NEW h \in Handlers, ServeTag(h) PROVE QueueOrder'
    BY <1>1, <1>4, ServeTagOrder
  <1>5. ASSUME NEW h \in Handlers, ServeInput(h) PROVE QueueOrder'
    <2>1. /\ jobs'[h].todo = <<>> /\ \A g \in Handlers \ {h} : jobs'[g] = jobs[g]
          /\ calls # <<>> /\ h = Head(calls) /\ calls' = Tail(calls)
          /\ UNCHANGED <<live, seen, queue>>
      BY <1>5, ServeInputEffect
    <2>2. ~Among(h, calls') /\ calls[1] = h
      BY <1>2, <2>1, CallServed
    <2>3. /\ \A i \in DOMAIN calls' : calls'[i] \in Handlers
          /\ \A i, j \in DOMAIN calls' : i < j =>
               \E k, l \in DOMAIN calls : k < l /\ calls'[i] = calls[k] /\ calls'[j] = calls[l]
          /\ \A g : g # h /\ Among(g, calls) => Among(g, calls')
      BY <1>2, <2>1, <2>2, CallsInOrder
    <2> QED
      BY <1>1, <2>1, <2>2, <2>3, OrderKept
  <1>6. ASSUME NEW h \in Handlers, Call(h) PROVE QueueOrder'
    <2>1. /\ jobs[h].todo # <<>> /\ ~Among(h, calls) /\ UNCHANGED <<live, jobs, seen, queue>>
      BY <1>6, CallEffect
    <2>2. "pair" \in mishaps
      BY <1>1, <2>1 DEF QueueOrder
    <2> QED
      BY <1>1, <2>1, <2>2 DEF QueueOrder
  <1>7. ASSUME NEW h \in Handlers, Indicate(h) \/ Acknowledge(h) PROVE QueueOrder'
    <2>1. /\ jobs'[h].todo = <<>> /\ \A g \in Handlers \ {h} : jobs'[g] = jobs[g]
          /\ UNCHANGED <<live, calls, seen, queue>> /\ ~Among(h, calls)
      <3>1. CASE Indicate(h)
        <4>1. /\ jobs'[h].todo = <<>> /\ \A g \in Handlers \ {h} : jobs'[g] = jobs[g]
              /\ UNCHANGED <<live, calls, seen, queue>> /\ jobs[h].todo = <<>>
          BY <3>1, IndicateEffect
        <4>2. ~Among(h, calls)
          BY <1>2, <4>1 DEF CallsShape, Among
        <4> QED
          BY <4>1, <4>2
      <3>2. CASE Acknowledge(h)
        BY <3>2, AcknowledgeEffect
      <3> QED
        BY <1>7, <3>1, <3>2
    <2> QED
      BY <1>1, <1>2, <2>1, CallsInOrder, OrderKept
  <1>8. CASE Pass \/ Reread \/ Accept \/ Drop
    <2>1. /\ UNCHANGED <<jobs, calls, seen, queue>>
          /\ live' = live \/ live = 0 \/ "drop" \in mishaps
      BY <1>8 DEF Pass, Reread, Accept, Drop, deviceVars
    <2>2. "drop" \in mishaps \/ live' = live \/ \A h \in Handlers : jobs[h].todo = <<>>
      BY <1>1, <2>1, HandlersNotZero DEF QueueOrder
    <2> QED
      BY <1>1, <1>2, <2>1, <2>2, CallsInOrder, OrderKept
  <1>9. ~Restart
    BY DEF Restart, InOrder
  <1> QED
    BY <1>3, <1>4, <1>5, <1>6, <1>7, <1>8, <1>9 DEF ReaderNext, Handle

-----------------------------------------------------------------------------
\* The steps of belt, device and process keep the invariant.
LEMMA ReaderStep ==
  ASSUME ReaderInv, mishaps' = mishaps, ReaderNext
  PROVE  ReaderInv'
  BY ShapeStep, OnceStep, OrderStep, FilteredStep DEF ReaderInv

\* So does whoever takes from the list, or empties it, and lets the bound on
\* mishaps grow.
LEMMA OthersStep ==
  ASSUME ReaderInv, mishaps' = mishaps, drops' \in 0 .. MaxDrops,
         UNCHANGED <<passed, reads, buffer, live, jobs, calls, seen, counted, pushed>>,
         queue' = <<>> \/ (queue # <<>> /\ queue' = Tail(queue)) \/ queue' = queue
  PROVE  ReaderInv'
  <1>1. ReaderShape /\ InFlight' = InFlight
    BY DEF ReaderInv, InFlight
  <1>2. queue' \in Seq(Balloons)
    <2>1. queue \in Seq(Balloons) /\ <<>> \in Seq(Balloons)
      BY <1>1 DEF ReaderShape, ReaderTypeOK
    <2>2. CASE queue' = <<>>
      BY <2>1, <2>2
    <2>3. CASE queue # <<>> /\ queue' = Tail(queue)
      BY <2>1, <2>3, HeadTailProperties
    <2>4. CASE queue' = queue
      BY <2>1, <2>4
    <2> QED
      BY <2>2, <2>3, <2>4
  <1>3. ReaderShape'
    BY <1>1, <1>2 DEF ReaderShape, ReaderTypeOK
  <1>4. OnceInv'
    <2>1. Remembers' = Remembers
      BY DEF Remembers
    <2>2. ServedOnce => ServedOnce'
      BY DEF ServedOnce
    <2>3. BufferOrder => BufferOrder'
      BY <1>1, BufferKept
    <2> QED
      BY <2>1, <2>2, <2>3 DEF ReaderInv, OnceInv
  <1>5. OrderInv'
    <2>1. InOrder' = InOrder
      BY DEF InOrder
    <2>2. ASSUME InOrder PROVE QueueOrder'
      <3>1. QueueOrder /\ Increasing(seen)
        BY <2>2 DEF ReaderInv, OnceInv, OrderInv, InOrder, Remembers, BufferOrder
      <3>2. queue \in Seq(Balloons) /\ seen \in Seq(Balloons)
        BY <1>1 DEF ReaderShape, ReaderTypeOK
      <3>3. \A h \in Handlers : JobShape(jobs[h])
        BY <1>1 DEF ReaderShape
      <3> QED
        BY <3>1, <3>2, <3>3, QueueTaken
    <2> QED
      BY <2>1, <2>2 DEF OrderInv
  <1>6. FilteredWasCounted'
    BY DEF ReaderInv, FilteredWasCounted
  <1> QED
    BY <1>3, <1>4, <1>5, <1>6 DEF ReaderInv

LEMMA ReaderStart == ReaderInit => ReaderInv
  <1> SUFFICES ASSUME ReaderInit PROVE ReaderInv
    OBVIOUS
  <1>1. /\ drops = 0 /\ passed = 0 /\ reads = 0 /\ buffer = <<>> /\ live = 0
        /\ jobs = [h \in Handlers |-> Idle] /\ calls = <<>> /\ seen = <<>>
        /\ counted = [t \in Balloons \cup {Optical} |-> 0]
        /\ pushed = [b \in Balloons |-> 0] /\ queue = <<>>
    BY DEF ReaderInit
  <1>2. /\ jobs \in [Handlers -> Job]
        /\ \A h \in Handlers : JobShape(jobs[h]) /\ jobs[h].pc = "idle" /\ jobs[h].todo = <<>>
    BY <1>1, IdleShape DEF Idle
  <1>3. /\ Increasing(<<>>) /\ Top(<<>>) = 0 /\ Len(<<>>) = 0 /\ DOMAIN <<>> = {}
        /\ \A x : ~Among(x, <<>>)
    BY DEF Increasing, Top, Among
  <1>4. ReaderTypeOK
    BY <1>1, <1>2, ReaderBounds DEF ReaderTypeOK
  <1>5. ReaderShape
    BY <1>1, <1>2, <1>4 DEF ReaderShape, InFlight
  <1>6. BufferOrder
    BY <1>1, <1>3 DEF BufferOrder
  <1>7. ServedOnce
    BY <1>1, <1>2, <1>3 DEF ServedOnce
  <1>8. QueueOrder
    BY <1>1, <1>2, <1>3 DEF QueueOrder
  <1>9. FilteredWasCounted
    BY <1>1, <1>3 DEF FilteredWasCounted
  <1> QED
    BY <1>5, <1>6, <1>7, <1>8, <1>9 DEF ReaderInv, OnceInv, OrderInv

-----------------------------------------------------------------------------
(***************************************************************************)
(* Each balloon that is read leaves its passport.                          *)
(***************************************************************************)
Served(b) == pushed[b] > 0 \/ \E h \in Handlers : Among(b, jobs[h].todo)

AllRead == mishaps \cap {"unread", "restart", "passport", "status"} = {}

\* Who is counted leaves a passport; the tags of an event in flight are served,
\* or wait for it; so are those of the balloons whose event is gone.
AllServed ==
  /\ \A b \in Balloons : counted[b] > 0 => pushed[b] > 0
  /\ InFlight => \A b \in Balloons : Among(b, buffer[1]) => Served(b)
  /\ \A b \in Balloons :
       b <= passed => Served(b) \/ \E i \in DOMAIN buffer : Among(b, buffer[i])

ServedInv == AllRead => AllServed

\* An event is added, or gets another tag.
LEMMA PassServed ==
  ASSUME ReaderShape, AllRead, AllServed, Pass
  PROVE  AllServed'
  <1>1. /\ passed' = passed + 1 /\ passed \in Nat /\ "unread" \notin mishaps
        /\ UNCHANGED <<live, jobs, counted, pushed>> /\ InFlight' = InFlight
    BY ReaderBounds DEF Pass, AllRead, ReaderShape, ReaderTypeOK, InFlight
  <1>2. \A b : Served(b)' <=> Served(b)
    BY <1>1 DEF Served
  <1>3. /\ buffer \in Seq(Seq(Balloons \cup {Optical}))
        /\ passed' \in Balloons
    BY <1>1, ReaderBounds DEF Pass, ReaderShape, ReaderTypeOK, Balloons
  <1>4. DOMAIN buffer = 1 .. Len(buffer) /\ Len(buffer) \in Nat
        /\ (InFlight => 1 \in DOMAIN buffer)
    <2>1. DOMAIN buffer = 1 .. Len(buffer) /\ Len(buffer) \in Nat
      BY <1>3
    <2>2. InFlight => Len(buffer) # 0
      BY <1>3, EmptySeq DEF ReaderShape
    <2> QED
      BY <2>1, <2>2
  <1>5. ASSUME \A i \in DOMAIN buffer : i \in DOMAIN buffer'
                  /\ \A b : Among(b, buffer[i]) => Among(b, buffer'[i]),
               \E i \in DOMAIN buffer' : Among(passed', buffer'[i]),
               InFlight => buffer'[1] = buffer[1]
        PROVE  AllServed'
    <2>1. \A b \in Balloons : b <= passed' => b <= passed \/ b = passed'
      BY <1>1 DEF Balloons
    <2>2. \A b \in Balloons : b <= passed' =>
            Served(b)' \/ \E i \in DOMAIN buffer' : Among(b, buffer'[i])
      BY <1>2, <1>5, <2>1 DEF AllServed
    <2>3. InFlight' => \A b \in Balloons : Among(b, buffer'[1]) => Served(b)'
      BY <1>1, <1>2, <1>5 DEF AllServed
    <2> QED
      BY <1>1, <2>2, <2>3 DEF AllServed
  <1>6. CASE buffer' = Append(buffer, <<passed'>>)
    <2>1. <<passed'>> \in Seq(Balloons \cup {Optical}) /\ Among(passed', <<passed'>>)
      BY <1>3 DEF Among
    <2>2. /\ DOMAIN buffer' = 1 .. Len(buffer) + 1
          /\ \A i \in 1 .. Len(buffer) : buffer'[i] = buffer[i]
          /\ buffer'[Len(buffer) + 1] = <<passed'>>
      BY <1>3, <1>6, <2>1, Appended
    <2>3. Len(buffer) + 1 \in DOMAIN buffer'
      BY <1>4, <2>2
    <2>4. \E i \in DOMAIN buffer' : Among(passed', buffer'[i])
      BY <2>1, <2>2, <2>3
    <2>5. \A i \in DOMAIN buffer : i \in DOMAIN buffer' /\ buffer'[i] = buffer[i]
      BY <1>4, <2>2
    <2> QED
      BY <1>4, <1>5, <2>4, <2>5
  <1>7. CASE /\ Len(buffer) > (IF InFlight THEN 1 ELSE 0)
             /\ buffer' = [buffer EXCEPT ![Len(buffer)] = Append(@, passed')]
    <2> DEFINE n == Len(buffer)
               e == Append(buffer[n], passed')
    <2>1. n \in DOMAIN buffer /\ (InFlight => n # 1)
      BY <1>4, <1>7
    <2>2. \A b : Among(b, e) <=> Among(b, buffer[n]) \/ b = passed'
      <3>1. buffer[n] \in Seq(Balloons \cup {Optical})
        BY <1>3, <2>1, ElementOfSeq
      <3> QED
        BY <1>3, <3>1, Appended
    <2>3. buffer' = [buffer EXCEPT ![n] = e]
      BY <1>7
    <2> HIDE DEF n, e
    <2>4. DOMAIN buffer' = DOMAIN buffer
          /\ \A i \in DOMAIN buffer : buffer'[i] = IF i = n THEN e ELSE buffer[i]
      BY <2>3
    <2>5. \E i \in DOMAIN buffer' : Among(passed', buffer'[i])
      BY <2>1, <2>2, <2>4
    <2>6. \A i \in DOMAIN buffer : i \in DOMAIN buffer'
                  /\ \A b : Among(b, buffer[i]) => Among(b, buffer'[i])
      BY <2>2, <2>4
    <2>7. InFlight => buffer'[1] = buffer[1]
      BY <1>4, <2>1, <2>4
    <2> QED
      BY <1>5, <2>5, <2>6, <2>7
  <1> QED
    BY <1>1, <1>6, <1>7 DEF Pass

\* A tag is taken from those that wait, and leaves its passport; events and
\* balloons stay.
LEMMA ServedMore ==
  ASSUME AllServed, UNCHANGED <<passed, buffer>>, InFlight' => InFlight,
         \A b \in Balloons : Served(b) => Served(b)',
         \A b \in Balloons : counted'[b] > 0 => counted[b] > 0 \/ pushed'[b] > 0,
         \A b \in Balloons : pushed[b] > 0 => pushed'[b] > 0
  PROVE  AllServed'
  <1>1. \A b \in Balloons : counted'[b] > 0 => pushed'[b] > 0
    BY DEF AllServed
  <1>2. InFlight' => \A b \in Balloons : Among(b, buffer'[1]) => Served(b)'
    BY DEF AllServed
  <1>3. \A b \in Balloons : b <= passed' =>
          Served(b)' \/ \E i \in DOMAIN buffer' : Among(b, buffer'[i])
    BY DEF AllServed
  <1> QED
    BY <1>1, <1>2, <1>3 DEF AllServed

LEMMA ServeTagServed ==
  ASSUME ReaderShape, AllRead, AllServed, NEW h \in Handlers, ServeTag(h)
  PROVE  AllServed'
  <1> DEFINE t == jobs[h].todo[1]
  <1>1. /\ jobs[h].todo \in Seq(Balloons) /\ jobs[h].todo # <<>>
        /\ t = Head(jobs[h].todo) /\ t \in Balloons
        /\ jobs'[h].todo = Tail(jobs[h].todo)
        /\ \A g \in Handlers \ {h} : jobs'[g] = jobs[g]
        /\ counted' = [counted EXCEPT ![t] = @ + 1]
        /\ UNCHANGED <<passed, buffer>> /\ InFlight' = InFlight
    BY ServeTagEffect DEF AllRead, deviceVars
  <1>2. pushed' = [pushed EXCEPT ![t] = @ + 1]
    BY <1>1 DEF ServeTag, AllRead
  <1>3. \A x : Among(x, jobs[h].todo) => x = t \/ Among(x, Tail(jobs[h].todo))
    BY <1>1, Shortened
  <1> HIDE DEF t
  <1>4. \A b \in Balloons : /\ pushed[b] \in Nat
                            /\ pushed'[b] = IF b = t THEN pushed[b] + 1 ELSE pushed[b]
                            /\ counted'[b] = IF b = t THEN counted[b] + 1 ELSE counted[b]
    <2>1. pushed \in [Balloons -> Nat] /\ counted \in [Balloons \cup {Optical} -> Nat]
      BY DEF ReaderShape, ReaderTypeOK
    <2> QED
      BY <1>1, <1>2, <2>1
  <1>5. \A b \in Balloons : /\ pushed[b] > 0 => pushed'[b] > 0
                            /\ b = t => pushed'[b] > 0
    BY <1>4
  <1>6. \A b \in Balloons : counted'[b] > 0 => counted[b] > 0 \/ pushed'[b] > 0
    BY <1>4, <1>5
  <1>7. \A b \in Balloons : Served(b) => Served(b)'
    BY <1>1, <1>3, <1>5 DEF Served
  <1> QED
    BY <1>1, <1>5, <1>6, <1>7, ServedMore

LEMMA ReceiveServed ==
  ASSUME ReaderShape, FilteredWasCounted, AllRead, AllServed, Receive
  PROVE  AllServed'
  <1> DEFINE e == buffer[1]
             f == Filter(e, seen)
  <1>1. /\ live \in Handlers /\ jobs[live].todo = <<>>
        /\ \A g \in Handlers \ {live} : jobs'[g] = jobs[g]
        /\ e = <<Optical>> \/ (e \in Seq(Balloons) /\ jobs'[live].todo = f.new)
        /\ UNCHANGED <<passed, buffer, counted, pushed>>
    BY ReceiveEffect DEF deviceVars
  <1>2. \A b : Served(b) => Served(b)'
    <2>1. \A b : ~Among(b, jobs[live].todo)
      BY <1>1 DEF Among
    <2> QED
      BY <1>1, <2>1 DEF Served
  <1>3. seen \in Seq(Balloons)
    BY DEF ReaderShape, ReaderTypeOK
  <1>4. \A b \in Balloons : Among(b, seen) => Served(b)
    BY <1>3, FilteredByTag DEF AllRead, AllServed, Known, Served
  <1>5. \A b \in Balloons : Among(b, e) => Served(b)'
    <2>1. CASE e = <<Optical>>
      BY <2>1, BalloonsAreNumbers DEF Among
    <2>2. CASE e \in Seq(Balloons) /\ jobs'[live].todo = f.new
      <3>1. \A b : Among(b, e) => Among(b, seen) \/ Among(b, f.new)
        BY <1>3, <2>2, FilterKeeps
      <3>2. \A b : Among(b, f.new) => Served(b)'
        BY <1>1, <2>2 DEF Served
      <3> QED
        BY <1>2, <1>4, <3>1, <3>2
    <2> QED
      BY <1>1, <2>1, <2>2
  <1> QED
    BY <1>1, <1>2, <1>5 DEF AllServed

\* An event leaves the buffer when its tags are served.
LEMMA AcknowledgeServed ==
  ASSUME ReaderShape, AllServed, NEW h \in Handlers, Acknowledge(h)
  PROVE  AllServed'
  <1>1. /\ jobs[h].todo = <<>> /\ jobs'[h].todo = <<>>
        /\ \A g \in Handlers \ {h} : jobs'[g] = jobs[g]
        /\ UNCHANGED <<passed, counted, pushed>>
    BY AcknowledgeEffect
  <1>2. \A b : Served(b)' <=> Served(b)
    BY <1>1 DEF Served
  <1>3. CASE h # live
    <2>1. buffer' = buffer
      BY <1>3 DEF Acknowledge
    <2>2. InFlight' => InFlight
      BY <1>1, <1>3 DEF InFlight, Acknowledge, ReaderShape, ReaderTypeOK
    <2> QED
      BY <1>1, <1>2, <2>1, <2>2, ServedMore
  <1>4. CASE h = live
    <2>1. InFlight /\ ~InFlight' /\ buffer' = Tail(buffer)
      <3>1. jobs[h] # Idle /\ jobs' = [jobs EXCEPT ![h] = Idle] /\ live' = live
        BY DEF Acknowledge, Idle
      <3>2. jobs \in [Handlers -> Job]
        BY DEF ReaderShape, ReaderTypeOK
      <3> QED
        BY <1>4, <3>1, <3>2, HandlersNotZero DEF InFlight, Acknowledge
    <2>2. buffer # <<>> /\ buffer \in Seq(Events)
      BY <2>1 DEF ReaderShape
    <2>3. /\ Len(buffer) \in Nat \ {0} /\ DOMAIN buffer = 1 .. Len(buffer)
          /\ DOMAIN buffer' = 1 .. Len(buffer) - 1
          /\ \A i \in 1 .. Len(buffer) - 1 : buffer'[i] = buffer[i + 1]
      BY <2>1, <2>2, Shortened
    <2>4. \A i \in DOMAIN buffer : i = 1 \/ (i - 1 \in DOMAIN buffer' /\ buffer'[i - 1] = buffer[i])
      BY <2>3
    <2>5. \A b \in Balloons : b <= passed =>
            Served(b) \/ \E i \in DOMAIN buffer' : Among(b, buffer'[i])
      BY <2>1, <2>4 DEF AllServed
    <2> QED
      BY <1>1, <1>2, <2>1, <2>5 DEF AllServed
  <1> QED
    BY <1>3, <1>4

LEMMA ServedStep ==
  ASSUME ReaderInv, ServedInv, mishaps' = mishaps, ReaderNext
  PROVE  ServedInv'
  <1> SUFFICES ASSUME AllRead, AllServed PROVE AllServed'
    BY DEF ServedInv, AllRead
  <1>0. ReaderShape /\ FilteredWasCounted
    BY DEF ReaderInv
  <1>1. CASE Accept \/ Drop
    <2>1. UNCHANGED <<passed, buffer, jobs, counted, pushed>> /\ ~InFlight'
      BY <1>1 DEF Accept, Drop, deviceVars, InFlight
    <2>2. \A b : Served(b)' <=> Served(b)
      BY <2>1 DEF Served
    <2> QED
      BY <2>1, <2>2, ServedMore
  <1>2. CASE Reread
    <2>1. /\ UNCHANGED <<passed, live, jobs, counted, pushed>> /\ InFlight' = InFlight
          /\ buffer' = Append(buffer, <<passed>>) /\ passed > 0
      BY <1>2 DEF Reread, InFlight
    <2>2. <<passed>> \in Seq(Balloons \cup {Optical})
          /\ buffer \in Seq(Seq(Balloons \cup {Optical}))
      BY <1>0, <2>1, ReaderBounds DEF ReaderShape, ReaderTypeOK, Balloons
    <2>3. /\ Len(buffer) \in Nat /\ DOMAIN buffer = 1 .. Len(buffer)
          /\ DOMAIN buffer' = 1 .. Len(buffer) + 1
          /\ \A i \in 1 .. Len(buffer) : buffer'[i] = buffer[i]
      BY <2>1, <2>2, Appended
    <2>4. \A i \in DOMAIN buffer : i \in DOMAIN buffer' /\ buffer'[i] = buffer[i]
      BY <2>3
    <2>5. InFlight => buffer'[1] = buffer[1]
      <3>1. InFlight => Len(buffer) # 0
        BY <1>0, <2>2, EmptySeq DEF ReaderShape
      <3> QED
        BY <2>3, <3>1
    <2>6. \A b : Served(b)' <=> Served(b)
      BY <2>1 DEF Served
    <2> QED
      BY <2>1, <2>4, <2>5, <2>6 DEF AllServed
  <1>3. ASSUME NEW h \in Handlers, Call(h) \/ ServeInput(h) \/ Indicate(h)
        PROVE  AllServed'
    <2>1. /\ UNCHANGED <<passed, buffer, pushed>> /\ InFlight' = InFlight
          /\ \A b \in Balloons : counted'[b] = counted[b]
          /\ \A b \in Balloons : Served(b) => Served(b)'
      <3>1. CASE Call(h)
        BY <1>0, <3>1, CallEffect DEF deviceVars, Served, InFlight
      <3>2. CASE Indicate(h)
        <4>1. /\ jobs'[h].todo = jobs[h].todo /\ \A g \in Handlers \ {h} : jobs'[g] = jobs[g]
              /\ UNCHANGED <<passed, buffer, counted, pushed>> /\ InFlight' = InFlight
          BY <1>0, <3>2, IndicateEffect DEF deviceVars
        <4> QED
          BY <4>1 DEF Served
      <3>3. CASE ServeInput(h)
        <4>1. /\ jobs[h].todo = <<Optical>> /\ \A g \in Handlers \ {h} : jobs'[g] = jobs[g]
              /\ counted' = [counted EXCEPT ![Optical] = @ + 1]
              /\ UNCHANGED <<passed, buffer, pushed>> /\ InFlight' = InFlight
          BY <1>0, <3>3, ServeInputEffect DEF deviceVars
        <4>2. \A b \in Balloons : ~Among(b, jobs[h].todo)
          BY <4>1, BalloonsAreNumbers DEF Among
        <4>3. \A b \in Balloons : counted'[b] = counted[b]
          BY <1>0, <4>1, BalloonsAreNumbers DEF ReaderShape, ReaderTypeOK
        <4> QED
          BY <4>1, <4>2, <4>3 DEF Served
      <3> QED
        BY <1>3, <3>1, <3>2, <3>3
    <2> QED
      BY <2>1, ServedMore
  <1>4. ~Restart
    BY DEF Restart, AllRead
  <1> QED
    BY <1>0, <1>1, <1>2, <1>3, <1>4, PassServed, ReceiveServed, ServeTagServed,
       AcknowledgeServed DEF ReaderNext, Handle

LEMMA ServedStart == ReaderInit => ServedInv
  <1> SUFFICES ASSUME ReaderInit PROVE AllServed
    BY DEF ServedInv
  <1>1. /\ passed = 0 /\ live = 0
        /\ counted = [t \in Balloons \cup {Optical} |-> 0]
    BY DEF ReaderInit
  <1>2. \A b \in Balloons : ~(b <= passed) /\ counted[b] = 0
    BY <1>1 DEF Balloons
  <1>3. ~InFlight
    BY <1>1 DEF InFlight
  <1> QED
    BY <1>2, <1>3 DEF AllServed
=============================================================================
