---------------------------- MODULE QueueLemmas ----------------------------
(***************************************************************************)
(* What happens to the members of a waiter list when a thread is appended, *)
(* taken off its head, or removed from the middle.  The lists of lock.cpp  *)
(* hold a thread at most once, hence the interest in injectivity.          *)
(***************************************************************************)
EXTENDS Integers, SequencesExt, SequenceTheorems, FiniteSetTheorems,
        WellFoundedInduction, TLAPS

(* Appending a waiter: it is a new member, and the list keeps to one entry *)
(* per thread (waiters.tail->next = &waiter in lock.cpp).                  *)
LEMMA AppendMembers ==
  ASSUME NEW S, NEW s \in Seq(S), NEW e \in S
  PROVE  /\ Append(s, e) \in Seq(S)
         /\ Append(s, e) # <<>>
         /\ Range(Append(s, e)) = Range(s) \cup {e}
         /\ IsInjective(s) /\ e \notin Range(s) => IsInjective(Append(s, e))
         /\ s # <<>> => Head(Append(s, e)) = Head(s)
<1>1. /\ Append(s, e) \in Seq(S) /\ Len(Append(s, e)) = Len(s) + 1
      /\ Append(s, e) # <<>>
      /\ \A i \in 1 .. Len(s) : Append(s, e)[i] = s[i]
      /\ Append(s, e)[Len(s) + 1] = e
  BY AppendProperties
<1>2. /\ DOMAIN s = 1 .. Len(s) /\ Len(s) \in Nat
      /\ DOMAIN Append(s, e) = 1 .. Len(s) + 1
  BY <1>1, LenProperties
<1>3. Range(Append(s, e)) \subseteq Range(s) \cup {e}
  BY <1>1, <1>2 DEF Range
<1>4. e \in Range(Append(s, e))
  BY <1>1, <1>2 DEF Range
<1>5. Range(s) \subseteq Range(Append(s, e))
  BY <1>1, <1>2 DEF Range
<1>6. IsInjective(s) /\ e \notin Range(s) => IsInjective(Append(s, e))
  BY <1>1, <1>2 DEF Range, IsInjective
<1>7. s # <<>> => Head(Append(s, e)) = Head(s)
  BY HeadTailAppend
<1> QED
  BY <1>1, <1>3, <1>4, <1>5, <1>6, <1>7

(* Dequeueing the head (waiters = waiter->next in lock.cpp).               *)
LEMMA TailMembers ==
  ASSUME NEW S, NEW s \in Seq(S), s # <<>>
  PROVE  /\ Tail(s) \in Seq(S)
         /\ Head(s) \in Range(s)
         /\ Range(s) = Range(Tail(s)) \cup {Head(s)}
         /\ IsInjective(s) => IsInjective(Tail(s)) /\ Head(s) \notin Range(Tail(s))
<1>1. /\ Tail(s) \in Seq(S) /\ Len(Tail(s)) = Len(s) - 1
      /\ \A i \in 1 .. Len(Tail(s)) : Tail(s)[i] = s[i + 1]
  BY HeadTailProperties
<1>2. Len(s) \in Nat \ {0}
  BY EmptySeq
<1>3. DOMAIN s = 1 .. Len(s) /\ DOMAIN Tail(s) = 1 .. Len(s) - 1
  BY <1>1, LenProperties
<1>4. Head(s) = s[1]
  OBVIOUS
<1>5. Head(s) \in Range(s)
  BY <1>2, <1>3, <1>4 DEF Range
<1>6. Range(Tail(s)) \subseteq Range(s)
  BY <1>1, <1>2, <1>3 DEF Range
<1>7. ASSUME NEW i \in 1 .. Len(s), i # 1
      PROVE  s[i] \in Range(Tail(s))
  <2>1. i - 1 \in 1 .. Len(s) - 1 /\ Tail(s)[i - 1] = s[i]
    BY <1>1, <1>2, <1>7
  <2> QED
    BY <2>1, <1>3 DEF Range
<1>8. Range(s) \subseteq Range(Tail(s)) \cup {Head(s)}
  BY <1>3, <1>4, <1>7 DEF Range
<1>9. IsInjective(s) => IsInjective(Tail(s)) /\ Head(s) \notin Range(Tail(s))
  BY <1>1, <1>2, <1>3, <1>4 DEF Range, IsInjective
<1> QED
  BY <1>1, <1>5, <1>6, <1>8, <1>9

(* Removing a waiter that gave up, wherever it is in the list ("dequeue    *)
(* from waiter list" in the timed variants of lock.cpp).                   *)
LEMMA RemoveAtMembers ==
  ASSUME NEW S, NEW s \in Seq(S), NEW i \in DOMAIN s
  PROVE  /\ RemoveAt(s, i) \in Seq(S)
         /\ Len(RemoveAt(s, i)) = Len(s) - 1
         /\ \A j \in 1 .. Len(s) - 1 :
              RemoveAt(s, i)[j] = s[IF j < i THEN j ELSE j + 1]
         /\ Range(RemoveAt(s, i)) \subseteq Range(s)
         /\ Range(s) = Range(RemoveAt(s, i)) \cup {s[i]}
         /\ IsInjective(s) => /\ IsInjective(RemoveAt(s, i))
                              /\ s[i] \notin Range(RemoveAt(s, i))
<1> DEFINE a == SubSeq(s, 1, i - 1)
           b == SubSeq(s, i + 1, Len(s))
           r == RemoveAt(s, i)
<1>0. /\ DOMAIN s = 1 .. Len(s) /\ Len(s) \in Nat /\ i \in 1 .. Len(s)
      /\ \A k \in 1 .. Len(s) : s[k] \in S
  BY LenProperties
<1>1. /\ a \in Seq(S) /\ Len(a) = i - 1
      /\ \A j \in 1 .. i - 1 : a[j] = s[j]
  <2>1. /\ a \in Seq(S) /\ Len(a) = IF 1 <= i - 1 THEN (i - 1) - 1 + 1 ELSE 0
        /\ \A j \in 1 .. (i - 1) - 1 + 1 : a[j] = s[1 + j - 1]
    BY <1>0, SubSeqProperties
  <2> QED
    BY <2>1, <1>0
<1>2. /\ b \in Seq(S) /\ Len(b) = Len(s) - i
      /\ \A j \in 1 .. Len(s) - i : b[j] = s[i + j]
  <2>1. /\ b \in Seq(S)
        /\ Len(b) = IF i + 1 <= Len(s) THEN Len(s) - (i + 1) + 1 ELSE 0
        /\ \A j \in 1 .. Len(s) - (i + 1) + 1 : b[j] = s[(i + 1) + j - 1]
    BY <1>0, SubSeqProperties
  <2> QED
    BY <2>1, <1>0
<1>3. r = a \o b
  BY DEF RemoveAt
<1>4. /\ r \in Seq(S) /\ Len(r) = Len(a) + Len(b)
      /\ \A j \in 1 .. Len(a) + Len(b) :
           r[j] = IF j <= Len(a) THEN a[j] ELSE b[j - Len(a)]
  <2> HIDE DEF a, b, r
  <2> QED
    BY <1>1, <1>2, <1>3, ConcatProperties
<1>5. /\ r \in Seq(S) /\ Len(r) = Len(s) - 1
      /\ \A j \in 1 .. Len(s) - 1 : r[j] = s[IF j < i THEN j ELSE j + 1]
  <2> HIDE DEF a, b, r
  <2>1. Len(r) = Len(s) - 1
    BY <1>0, <1>1, <1>2, <1>4
  <2>2. ASSUME NEW j \in 1 .. Len(s) - 1, j < i
        PROVE  r[j] = s[j]
    BY <1>0, <1>1, <1>2, <1>4, <2>2
  <2>3. ASSUME NEW j \in 1 .. Len(s) - 1, ~(j < i)
        PROVE  r[j] = s[j + 1]
    <3>1. r[j] = b[j - (i - 1)] /\ j - (i - 1) \in 1 .. Len(s) - i
      BY <1>0, <1>1, <1>2, <1>4, <2>3
    <3> QED
      BY <3>1, <1>0, <1>2, <2>3
  <2> QED
    BY <1>4, <2>1, <2>2, <2>3
<1> HIDE DEF r
<1>6. DOMAIN r = 1 .. Len(s) - 1
  BY <1>5, LenProperties
<1>7. Range(r) \subseteq Range(s)
  BY <1>0, <1>5, <1>6 DEF Range
<1>8. ASSUME NEW k \in 1 .. Len(s), k # i
      PROVE  s[k] \in Range(r)
  <2> DEFINE j == IF k < i THEN k ELSE k - 1
  <2>1. j \in 1 .. Len(s) - 1 /\ r[j] = s[k]
    BY <1>0, <1>5, <1>8
  <2> QED
    BY <2>1, <1>6 DEF Range
<1>9. Range(s) = Range(r) \cup {s[i]}
  BY <1>0, <1>7, <1>8 DEF Range
<1>10. IsInjective(s) => IsInjective(r) /\ s[i] \notin Range(r)
  <2> SUFFICES ASSUME IsInjective(s)
               PROVE  IsInjective(r) /\ s[i] \notin Range(r)
    OBVIOUS
  <2>1. ASSUME NEW j \in 1 .. Len(s) - 1, NEW k \in 1 .. Len(s) - 1, r[j] = r[k]
        PROVE  j = k
    <3> DEFINE x == IF j < i THEN j ELSE j + 1
               y == IF k < i THEN k ELSE k + 1
    <3>1. x \in 1 .. Len(s) /\ y \in 1 .. Len(s)
      BY <1>0
    <3>2. s[x] = s[y]
      BY <1>5, <2>1
    <3>3. x = y
      BY <3>1, <3>2, <1>0 DEF IsInjective
    <3> QED
      BY <3>3, <1>0
  <2>2. ASSUME NEW j \in 1 .. Len(s) - 1
        PROVE  r[j] # s[i]
    <3> DEFINE x == IF j < i THEN j ELSE j + 1
    <3>1. x \in 1 .. Len(s) /\ x # i
      BY <1>0
    <3>2. r[j] = s[x]
      BY <1>5
    <3>3. s[x] # s[i]
      BY <3>1, <1>0 DEF IsInjective
    <3> QED
      BY <3>2, <3>3
  <2> QED
    BY <2>1, <2>2, <1>6 DEF IsInjective, Range
<1> QED
  BY <1>5, <1>7, <1>9, <1>10 DEF r

(* Removing a given waiter from the list, if it is there                   *)
LEMMA RemoveFirstMembers ==
  ASSUME NEW S, NEW s \in Seq(S), IsInjective(s), NEW e
  PROVE  /\ RemoveFirst(s, e) \in Seq(S)
         /\ IsInjective(RemoveFirst(s, e))
         /\ Range(RemoveFirst(s, e)) = Range(s) \ {e}
         /\ Len(RemoveFirst(s, e)) = Len(s) - (IF e \in Range(s) THEN 1 ELSE 0)
<1>0. DOMAIN s = 1 .. Len(s) /\ Len(s) \in Nat
  BY LenProperties
<1>1. CASE e \notin Range(s)
  <2>1. ~\E i \in 1 .. Len(s) : s[i] = e
    BY <1>0, <1>1 DEF Range
  <2>2. RemoveFirst(s, e) = s
    BY <2>1 DEF RemoveFirst
  <2> QED
    BY <2>2, <1>0, <1>1
<1>2. CASE e \in Range(s)
  <2>1. PICK i \in 1 .. Len(s) : s[i] = e
    BY <1>0, <1>2 DEF Range
  <2> DEFINE I == {j \in 1 .. Len(s) : s[j] = e}
  <2>2. I = {i}
    BY <2>1, <1>0 DEF IsInjective
  <2>3. Min(I) = i
    BY <2>1, <2>2, <1>0 DEF Min
  <2>4. RemoveFirst(s, e) = RemoveAt(s, i)
    BY <2>1, <2>2, <2>3 DEF RemoveFirst, SelectInSeq
  <2>5. /\ RemoveAt(s, i) \in Seq(S)
        /\ Len(RemoveAt(s, i)) = Len(s) - 1
        /\ Range(s) = Range(RemoveAt(s, i)) \cup {s[i]}
        /\ IsInjective(RemoveAt(s, i))
        /\ s[i] \notin Range(RemoveAt(s, i))
    BY <1>0, RemoveAtMembers
  <2> QED
    BY <2>1, <2>4, <2>5, <1>2
<1> QED
  BY <1>1, <1>2

(* What is left of a list without its first n members                      *)
LEMMA RestOfSeq ==
  ASSUME NEW S, NEW s \in Seq(S), NEW n \in 0 .. Len(s)
  PROVE  /\ SubSeq(s, n + 1, Len(s)) \in Seq(S)
         /\ Len(SubSeq(s, n + 1, Len(s))) = Len(s) - n
         /\ \A j \in 1 .. Len(s) - n : SubSeq(s, n + 1, Len(s))[j] = s[n + j]
         /\ n = Len(s) => SubSeq(s, n + 1, Len(s)) = <<>>
<1> DEFINE rest == SubSeq(s, n + 1, Len(s))
<1>0. Len(s) \in Nat
  BY LenProperties
<1>1. /\ rest \in Seq(S)
      /\ Len(rest) = IF n + 1 <= Len(s) THEN Len(s) - (n + 1) + 1 ELSE 0
      /\ \A j \in 1 .. Len(s) - (n + 1) + 1 : rest[j] = s[(n + 1) + j - 1]
  BY <1>0, SubSeqProperties
<1>2. n = Len(s) => rest = <<>>
  BY <1>0, SubSeqEmpty
<1> HIDE DEF rest
<1>3. /\ rest \in Seq(S) /\ Len(rest) = Len(s) - n
      /\ \A j \in 1 .. Len(s) - n : rest[j] = s[n + j]
  BY <1>0, <1>1
<1> QED
  BY <1>2, <1>3 DEF rest

FirstOf(s, n) == {s[i] : i \in 1 .. n}
RestOf(s, n) == SubSeq(s, n + 1, Len(s))

(* Taking the first n waiters off the list, as the loop of                 *)
(* rw_lock_unblock() does.                                                 *)
LEMMA SplitMembers ==
  ASSUME NEW S, NEW s \in Seq(S), IsInjective(s), NEW n \in 0 .. Len(s)
  PROVE  /\ RestOf(s, n) \in Seq(S)
         /\ Len(RestOf(s, n)) = Len(s) - n
         /\ n = Len(s) => RestOf(s, n) = <<>>
         /\ n < Len(s) => RestOf(s, n) # <<>> /\ Head(RestOf(s, n)) = s[n + 1]
         /\ Range(s) = FirstOf(s, n) \cup Range(RestOf(s, n))
         /\ FirstOf(s, n) \cap Range(RestOf(s, n)) = {}
         /\ IsInjective(RestOf(s, n))
         /\ IsFiniteSet(FirstOf(s, n)) /\ Cardinality(FirstOf(s, n)) = n
<1> DEFINE rest == RestOf(s, n)
           first == FirstOf(s, n)
<1>1. /\ rest \in Seq(S) /\ Len(rest) = Len(s) - n
      /\ \A j \in 1 .. Len(s) - n : rest[j] = s[n + j]
  BY RestOfSeq DEF RestOf
<1>2a. n = Len(s) => rest = <<>>
  BY RestOfSeq DEF RestOf
<1>2. first = {s[i] : i \in 1 .. n}
  BY DEF FirstOf
<1> HIDE DEF rest, first
<1>0. /\ DOMAIN s = 1 .. Len(s) /\ Len(s) \in Nat
      /\ \A k \in 1 .. Len(s) : s[k] \in S
  BY LenProperties
<1>3. DOMAIN rest = 1 .. Len(s) - n
  BY <1>1, LenProperties
<1>4. n < Len(s) => rest # <<>> /\ Head(rest) = s[n + 1]
  <2> SUFFICES ASSUME n < Len(s) PROVE rest # <<>> /\ Head(rest) = s[n + 1]
    OBVIOUS
  <2>1. rest # <<>>
    BY <1>0, <1>1, EmptySeq
  <2>2. Head(rest) = rest[1]
    OBVIOUS
  <2> QED
    BY <2>1, <2>2, <1>0, <1>1
<1>5. ASSUME NEW k \in 1 .. Len(s)
      PROVE  s[k] \in first \cup Range(rest)
  <2>1. CASE k <= n
    BY <2>1, <1>2
  <2>2. CASE k > n
    <3>1. k - n \in 1 .. Len(s) - n /\ rest[k - n] = s[k]
      BY <2>2, <1>0, <1>1
    <3> QED
      BY <3>1, <1>3 DEF Range
  <2> QED
    BY <2>1, <2>2
<1>6. Range(rest) \subseteq Range(s)
  <2>1. ASSUME NEW j \in 1 .. Len(s) - n
        PROVE  rest[j] \in Range(s)
    <3>1. n + j \in 1 .. Len(s) /\ rest[j] = s[n + j]
      BY <1>0, <1>1
    <3> QED
      BY <3>1, <1>0 DEF Range
  <2> QED
    BY <2>1, <1>3 DEF Range
<1>7. first \subseteq Range(s)
  BY <1>0, <1>2 DEF Range
<1>8. Range(s) = first \cup Range(rest)
  BY <1>0, <1>5, <1>6, <1>7 DEF Range
<1>9. first \cap Range(rest) = {}
  <2> SUFFICES ASSUME NEW i \in 1 .. n, NEW j \in 1 .. Len(s) - n, s[i] = rest[j]
               PROVE  FALSE
    BY <1>2, <1>3 DEF Range
  <2>1. s[i] = s[n + j] /\ i \in 1 .. Len(s) /\ n + j \in 1 .. Len(s) /\ i # n + j
    BY <1>0, <1>1
  <2> QED
    BY <2>1, <1>0 DEF IsInjective
<1>10. IsInjective(rest)
  <2> SUFFICES ASSUME NEW i \in 1 .. Len(s) - n, NEW j \in 1 .. Len(s) - n,
                      rest[i] = rest[j]
               PROVE  i = j
    BY <1>3 DEF IsInjective
  <2>1. s[n + i] = s[n + j] /\ n + i \in 1 .. Len(s) /\ n + j \in 1 .. Len(s)
    BY <1>0, <1>1
  <2>2. n + i = n + j
    BY <2>1, <1>0 DEF IsInjective
  <2> QED
    BY <2>2, <1>0
<1>11. IsFiniteSet(first) /\ Cardinality(first) = n
  <2> DEFINE f == [i \in 1 .. n |-> s[i]]
  <2>1. f \in Surjection(1 .. n, first)
    BY <1>2 DEF Surjection
  <2>2. f \in Injection(1 .. n, first)
    BY <1>0, <1>2 DEF Injection, IsInjective
  <2>3. IsFiniteSet(1 .. n) /\ Cardinality(1 .. n) = n
    <3>1. 1 \in Int /\ n \in Int /\ n >= 0
      BY <1>0
    <3>2. /\ IsFiniteSet(1 .. n)
          /\ Cardinality(1 .. n) = IF 1 > n THEN 0 ELSE n - 1 + 1
      BY <3>1, FS_Interval
    <3> QED
      BY <3>1, <3>2
  <2> QED
    BY <2>1, <2>2, <2>3, FS_Surjection
<1> QED
  BY <1>1, <1>2a, <1>4, <1>8, <1>9, <1>10, <1>11 DEF rest, first

(* A list that holds nobody twice is as long as it has members.            *)
LEMMA QueueLength ==
  ASSUME NEW S, NEW s \in Seq(S), IsInjective(s)
  PROVE  IsFiniteSet(Range(s)) /\ Cardinality(Range(s)) = Len(s)
<1>1. DOMAIN s = 1 .. Len(s) /\ Len(s) \in Nat /\ s = [i \in 1 .. Len(s) |-> s[i]]
  BY LenProperties
<1>2. s \in Bijection(1 .. Len(s), Range(s))
  BY <1>1 DEF Bijection, Injection, Surjection, IsInjective, Range
<1>3. ExistsBijection(1 .. Len(s), Range(s))
  BY <1>2 DEF ExistsBijection
<1>4. Cardinality(Range(s)) = Len(s)
  BY <1>1, <1>3, FS_CountingElements
<1>5. IsFiniteSet(Range(s))
  BY <1>1, <1>3, FS_NatBijection
<1> QED
  BY <1>4, <1>5

-----------------------------------------------------------------------------
(* Induction in the form the provers can use: a set of naturals has a      *)
(* least member.                                                           *)
LEMMA LeastNat ==
  ASSUME NEW T \in SUBSET Nat, T # {}
  PROVE  /\ Min(T) \in T
         /\ \A y \in T : Min(T) <= y
<1> DEFINE R == OpToRel(<, Nat)
<1>1. IsWellFoundedOn(R, Nat)
  BY NatLessThanWellFounded
<1>2. \A x, y \in Nat : x < y => <<x, y>> \in R
  BY DEF OpToRel
<1> HIDE DEF R
<1>3. PICK x \in T : \A y \in T : ~(<<y, x>> \in R)
  BY <1>1, WFMin
<1>4. \A y \in T : x <= y
  <2> SUFFICES ASSUME NEW y \in T PROVE x <= y
    OBVIOUS
  <2>1. x \in Nat /\ y \in Nat
    OBVIOUS
  <2>2. ~(y < x)
    BY <1>2, <1>3, <2>1
  <2> QED
    BY <2>1, <2>2
<1>5. \E m \in T : \A y \in T : m =< y
  BY <1>4
<1> QED
  BY <1>5 DEF Min

(* A set of naturals that has 0, and with a number the next, has them all. *)
LEMMA CountUp ==
  ASSUME NEW n \in Nat, NEW P, 0 \in P,
         \A i \in 1 .. n : i - 1 \in P => i \in P
  PROVE  \A i \in 0 .. n : i \in P
<1> DEFINE Bad == {i \in 0 .. n : i \notin P}
<1> SUFFICES ASSUME Bad # {} PROVE FALSE
  OBVIOUS
<1>1. Bad \in SUBSET Nat
  OBVIOUS
<1>2. PICK m \in Bad : \A y \in Bad : m <= y
  BY <1>1, LeastNat
<1>3. m \in 1 .. n /\ m - 1 \in 0 .. n /\ ~(m <= m - 1)
  OBVIOUS
<1>4. m - 1 \in P
  BY <1>2, <1>3
<1> QED
  BY <1>3, <1>4

(* A loop through a list, whose body takes a state and a member to the     *)
(* next state, has a run.                                                  *)
IsBody(B, L, T) == B \in [L \X T -> L]
IsRun(f, s, L, B, x) ==
  /\ f \in [0 .. Len(s) -> L]
  /\ f[0] = x /\ \A i \in 1 .. Len(s) : f[i] = B[<<f[i - 1], s[i]>>]

LEMMA RunExists ==
  ASSUME NEW T, NEW L, NEW s \in Seq(T), NEW B, IsBody(B, L, T), NEW x \in L
  PROVE  \E f : IsRun(f, s, L, B, x)
<1> USE DEF IsBody
<1>0. Len(s) \in Nat /\ \A i \in 1 .. Len(s) : s[i] \in T
  BY LenProperties
<1> DEFINE P == {n \in 0 .. Len(s) :
                   \E f \in [0 .. n -> L] :
                     f[0] = x /\ \A i \in 1 .. n : f[i] = B[<<f[i - 1], s[i]>>]}
<1>1. 0 \in P
  <2> DEFINE f == [i \in 0 .. 0 |-> x]
  <2>1. f \in [0 .. 0 -> L] /\ f[0] = x /\ \A i \in 1 .. 0 : f[i] = B[<<f[i - 1], s[i]>>]
    OBVIOUS
  <2> HIDE DEF f
  <2>2. \E g \in [0 .. 0 -> L] :
          g[0] = x /\ \A i \in 1 .. 0 : g[i] = B[<<g[i - 1], s[i]>>]
    BY <2>1
  <2> QED
    BY <1>0, <2>2
<1>2. ASSUME NEW n \in 1 .. Len(s), n - 1 \in P PROVE n \in P
  <2>1. PICK f \in [0 .. n - 1 -> L] :
          f[0] = x /\ \A i \in 1 .. n - 1 : f[i] = B[<<f[i - 1], s[i]>>]
    BY <1>2
  <2> DEFINE y == B[<<f[n - 1], s[n]>>]
             g == [i \in 0 .. n |-> IF i = n THEN y ELSE f[i]]
  <2>0. n - 1 \in 0 .. n - 1 /\ n \in Nat /\ n # 0
    BY <1>0
  <2>2. y \in L
    BY <1>0, <2>0
  <2>3. \A i \in 0 .. n - 1 : i \in 0 .. n /\ i # n
    BY <2>0
  <2> HIDE DEF y
  <2>4. g \in [0 .. n -> L] /\ g[n] = y /\ \A i \in 0 .. n - 1 : g[i] = f[i]
    <3>1. \A i \in 0 .. n : i # n => i \in 0 .. n - 1
      BY <2>0
    <3>2. n \in 0 .. n
      BY <2>0
    <3> QED
      BY <2>2, <2>3, <3>1, <3>2
  <2> HIDE DEF g
  <2>5. \A i \in 1 .. n : g[i] = B[<<g[i - 1], s[i]>>]
    <3> SUFFICES ASSUME NEW i \in 1 .. n PROVE g[i] = B[<<g[i - 1], s[i]>>]
      OBVIOUS
    <3>1. i - 1 \in 0 .. n - 1
      BY <2>0
    <3>2. CASE i = n
      BY <2>4, <3>1, <3>2 DEF y
    <3>3. CASE i # n
      <4>1. i \in 1 .. n - 1 /\ i \in 0 .. n - 1
        BY <2>0, <3>3
      <4> QED
        BY <2>1, <2>4, <3>1, <4>1
    <3> QED
      BY <3>2, <3>3
  <2>6. g[0] = x
    BY <2>0, <2>1, <2>4
  <2> QED
    BY <2>4, <2>5, <2>6
<1>3. \A n \in 0 .. Len(s) : n \in P
  <2> HIDE DEF P
  <2> QED
    BY <1>0, <1>1, <1>2, CountUp
<1>4. Len(s) \in 0 .. Len(s)
  BY <1>0
<1>5. PICK f \in [0 .. Len(s) -> L] :
        f[0] = x /\ \A i \in 1 .. Len(s) : f[i] = B[<<f[i - 1], s[i]>>]
  BY <1>3, <1>4
<1>6. IsRun(f, s, L, B, x)
  BY <1>5 DEF IsRun
<1> QED
  BY <1>6

=============================================================================
