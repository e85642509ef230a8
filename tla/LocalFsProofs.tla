---------------------------- MODULE LocalFsProofs ----------------------------
(***************************************************************************)
(* LocalFs for every disk, every set of clients, calls and listings, and   *)
(* caches of every size: a listing tells the whole directory and the cache *)
(* of directories never forgets a file of one it knows.                    *)
(***************************************************************************)
EXTENDS LocalFs, FiniteSetTheorems, SequenceTheorems, TLAPS

-----------------------------------------------------------------------------
(* Induction over the naturals, and what it says of a function that is     *)
(* defined from its value before.                                          *)

LEMMA Induction ==
    ASSUME NEW T, 0 \in T, \A n \in T \cap Nat : n + 1 \in T
    PROVE  Nat \subseteq T
<1> SUFFICES ASSUME NEW k \in Nat, k \notin T PROVE FALSE
  OBVIOUS
<1> DEFINE UpTo(n) == 0..n
           W == {UpTo(n) : n \in {m \in Nat : m \notin T}}
<1>1. W \subseteq FiniteSubsetsOf(Nat)
  <2> SUFFICES ASSUME NEW n \in Nat PROVE IsFiniteSet(0..n) /\ 0..n \subseteq Nat
    BY DEF FiniteSubsetsOf
  <2> QED BY FS_Interval
<1>2. W # {}
  OBVIOUS
<1>3. PICK w \in W : \A y \in W : <<y, w>> \notin StrictSubsetOrdering(Nat)
  <2> HIDE DEF W
  <2> QED BY ONLY <1>1, <1>2, FS_StrictSubsetOrderingWellFounded, WFMin
<1>4. PICK m \in Nat : m \notin T /\ w = 0..m
  OBVIOUS
<1>5. m # 0 /\ m - 1 \in Nat /\ (m - 1) + 1 = m
  BY <1>4
<1>6. UpTo(m - 1) \in W
  BY <1>4, <1>5
<1>7. UpTo(m - 1) \subseteq w /\ m \in w /\ m \notin UpTo(m - 1) /\ w \subseteq Nat
  BY <1>4, <1>5
<1>8. <<UpTo(m - 1), w>> \in StrictSubsetOrdering(Nat)
  <2> HIDE DEF UpTo, W
  <2> QED BY <1>7 DEF StrictSubsetOrdering
<1> QED BY <1>3, <1>6, <1>8

\* g starts with a and goes on as F says.
Iterates(g, n, S, a, F) ==
    /\ g \in [0..n -> S]
    /\ g[0] = a
    /\ \A i \in 1..n : g[i] = F[<<i, g[i - 1]>>]

LEMMA Recursion ==
    ASSUME NEW n \in Nat, NEW S, NEW a \in S, NEW F \in [(1..n) \X S -> S]
    PROVE  \E g : Iterates(g, n, S, a, F)
<1> DEFINE T == {k \in Nat : k <= n => \E g : Iterates(g, k, S, a, F)}
<1>1. 0 \in T
  <2>1. Iterates([i \in 0..0 |-> a], 0, S, a, F)
    BY DEF Iterates
  <2> QED BY <2>1
<1>2. ASSUME NEW k \in T \cap Nat PROVE k + 1 \in T
  <2>1. SUFFICES ASSUME k + 1 <= n PROVE \E g : Iterates(g, k + 1, S, a, F)
    OBVIOUS
  <2>2. PICK g : Iterates(g, k, S, a, F)
    BY <2>1
  <2> DEFINE h == [i \in 0..(k + 1) |-> IF i = k + 1 THEN F[<<k + 1, g[k]>>] ELSE g[i]]
  <2>3. F[<<k + 1, g[k]>>] \in S
    BY <2>1, <2>2 DEF Iterates
  <2>4. h \in [0..(k + 1) -> S]
    BY <2>2, <2>3 DEF Iterates
  <2>5. h[0] = a
    BY <2>2 DEF Iterates
  <2>6. ASSUME NEW i \in 1..(k + 1) PROVE h[i] = F[<<i, h[i - 1]>>]
    <3>0. i - 1 \in 0..(k + 1) /\ h[i - 1] = g[i - 1]
      OBVIOUS
    <3>1. CASE i = k + 1
      <4>1. h[k + 1] = F[<<k + 1, g[k]>>] /\ i - 1 = k
        BY <3>1
      <4> QED BY <3>0, <3>1, <4>1
    <3>2. CASE i # k + 1
      BY <2>2, <3>0, <3>2 DEF Iterates
    <3> QED BY <3>1, <3>2
  <2>7. Iterates(h, k + 1, S, a, F)
    BY <2>4, <2>5, <2>6 DEF Iterates
  <2> QED BY <2>7
<1>3. Nat \subseteq T
  <2> HIDE DEF T
  <2> QED BY <1>1, <1>2, Induction
<1> QED BY <1>3

-----------------------------------------------------------------------------
(* Sequences whose members are not known beforehand.                       *)

IsSeq(s) == s \in Seq(ToSet(s))

LEMMA SeqIsSeq ==
    ASSUME NEW S, NEW s \in Seq(S)
    PROVE  /\ IsSeq(s) /\ ToSet(s) \subseteq S
           /\ Len(s) \in Nat /\ DOMAIN s = 1..Len(s)
           /\ \A i \in 1..Len(s) : s[i] \in ToSet(s)
<1>1. Len(s) \in Nat /\ DOMAIN s = 1..Len(s) /\ \A i \in 1..Len(s) : s[i] \in ToSet(s) /\ s[i] \in S
  BY DEF ToSet
<1>2. s = [i \in 1..Len(s) |-> s[i]]
  OBVIOUS
<1>3. [i \in 1..Len(s) |-> s[i]] \in Seq(ToSet(s))
  BY <1>1
<1> QED BY <1>1, <1>2, <1>3 DEF IsSeq, ToSet

LEMMA IsSeqFacts ==
    ASSUME NEW s, IsSeq(s)
    PROVE  Len(s) \in Nat /\ DOMAIN s = 1..Len(s) /\ \A i \in 1..Len(s) : s[i] \in ToSet(s)
BY SeqIsSeq DEF IsSeq

\* Both within one set.
LEMMA JoinedSeqs ==
    ASSUME NEW s, IsSeq(s), NEW t, IsSeq(t)
    PROVE  /\ s \in Seq(ToSet(s) \cup ToSet(t)) /\ t \in Seq(ToSet(s) \cup ToSet(t))
           /\ IsSeq(s \o t) /\ ToSet(s \o t) = ToSet(s) \cup ToSet(t)
<1> DEFINE S == ToSet(s) \cup ToSet(t)
<1>1. s \in Seq(S) /\ t \in Seq(S)
  BY SeqMonotonic DEF IsSeq
<1>2. s \o t \in Seq(S) /\ Len(s \o t) = Len(s) + Len(t) /\ Len(s) \in Nat /\ Len(t) \in Nat
      /\ \A i \in 1..Len(s) + Len(t) : (s \o t)[i] = IF i <= Len(s) THEN s[i] ELSE t[i - Len(s)]
  <2> HIDE DEF S
  <2> QED BY <1>1, ConcatProperties
<1>3. IsSeq(s \o t) /\ ToSet(s \o t) \subseteq S /\ DOMAIN (s \o t) = 1..Len(s) + Len(t)
  <2> HIDE DEF S
  <2> QED BY <1>2, SeqIsSeq
<1>4. ASSUME NEW i \in 1..Len(s) PROVE s[i] \in ToSet(s \o t)
  BY <1>2, <1>3, <1>4 DEF ToSet
<1>5. ASSUME NEW i \in 1..Len(t) PROVE t[i] \in ToSet(s \o t)
  <2>1. Len(s) + i \in 1..Len(s) + Len(t) /\ (s \o t)[Len(s) + i] = t[i]
    BY <1>2
  <2> QED BY <1>3, <2>1 DEF ToSet
<1>6. ToSet(s) = {s[i] : i \in 1..Len(s)} /\ ToSet(t) = {t[i] : i \in 1..Len(t)}
  BY IsSeqFacts DEF ToSet
<1> QED BY <1>1, <1>3, <1>4, <1>5, <1>6

LEMMA AppendSeq ==
    ASSUME NEW s, IsSeq(s), NEW x
    PROVE  /\ IsSeq(Append(s, x)) /\ ToSet(Append(s, x)) = ToSet(s) \cup {x}
           /\ Len(Append(s, x)) = Len(s) + 1 /\ Len(s) \in Nat
           /\ \A i \in 1..Len(s) + 1 : Append(s, x)[i] = IF i = Len(s) + 1 THEN x ELSE s[i]
<1> DEFINE S == ToSet(s) \cup {x}
<1>1. s \in Seq(S) /\ x \in S
  BY SeqMonotonic DEF IsSeq
<1>2. Append(s, x) \in Seq(S) /\ Len(Append(s, x)) = Len(s) + 1 /\ Len(s) \in Nat
      /\ \A i \in 1..Len(s) + 1 : Append(s, x)[i] = IF i = Len(s) + 1 THEN x ELSE s[i]
  <2> HIDE DEF S
  <2> QED BY <1>1
<1>3. IsSeq(Append(s, x)) /\ ToSet(Append(s, x)) \subseteq S
      /\ DOMAIN Append(s, x) = 1..Len(s) + 1
  <2> HIDE DEF S
  <2> QED BY <1>2, SeqIsSeq
<1>4. x \in ToSet(Append(s, x)) /\ \A i \in 1..Len(s) : s[i] \in ToSet(Append(s, x))
  BY <1>2, <1>3 DEF ToSet
<1>5. ToSet(s) = {s[i] : i \in 1..Len(s)}
  BY IsSeqFacts DEF ToSet
<1> QED BY <1>2, <1>3, <1>4, <1>5

-----------------------------------------------------------------------------
(* The cache of the lru crate.                                             *)

Keyed(c) == \A i, j \in DOMAIN c : c[i].key = c[j].key => i = j

\* Behind an entry for m, if there is one, is one for each key of Q, of the same listing.
Knows(c, m, id, Q) ==
    \A i \in DOMAIN c : c[i].key = m =>
        /\ c[i].val.id = id
        /\ \A q \in Q : \E j \in DOMAIN c : i < j /\ c[j].key = q /\ c[j].val.id = id

LEMMA IndexOfIs ==
    ASSUME NEW c, NEW k, Has(c, k)
    PROVE  IndexOf(c, k) \in DOMAIN c /\ c[IndexOf(c, k)].key = k
BY DEF Has, IndexOf

LEMMA PopIs ==
    ASSUME NEW c, IsSeq(c), NEW k, Has(c, k)
    PROVE  LET n == IndexOf(c, k)
           IN  /\ n \in 1..Len(c) /\ Len(c) \in Nat
               /\ IsSeq(Pop(c, k)) /\ Len(Pop(c, k)) = Len(c) - 1
               /\ \A i \in 1..Len(c) - 1 : Pop(c, k)[i] = IF i < n THEN c[i] ELSE c[i + 1]
<1> DEFINE n == IndexOf(c, k)
           S == ToSet(c)
           x == SubSeq(c, 1, n - 1)
           y == SubSeq(c, n + 1, Len(c))
<1>1. n \in 1..Len(c) /\ Len(c) \in Nat /\ \A i \in 1..Len(c) : c[i] \in S
  BY IndexOfIs, IsSeqFacts
<1>2. Pop(c, k) = x \o y
  BY DEF Pop, RemoveAt
<1> HIDE DEF n, S
<1>3. x \in Seq(S) /\ Len(x) = n - 1 /\ \A i \in 1..n - 1 : x[i] = c[i]
  BY <1>1, SubSeqProperties
<1>4. y \in Seq(S) /\ Len(y) = Len(c) - n /\ \A i \in 1..Len(c) - n : y[i] = c[n + i]
  <2>1. \A i \in n + 1..Len(c) : c[i] \in S
    BY <1>1
  <2>2. /\ y \in Seq(S)
        /\ Len(y) = IF n + 1 <= Len(c) THEN Len(c) - (n + 1) + 1 ELSE 0
        /\ \A i \in 1..Len(c) - (n + 1) + 1 : y[i] = c[n + 1 + i - 1]
    <3>1. n + 1 \in Int /\ Len(c) \in Int
      BY <1>1
    <3> QED BY <2>1, <3>1, SubSeqProperties
  <2> QED BY <1>1, <2>2
<1> HIDE DEF x, y
<1>5. x \o y \in Seq(S) /\ Len(x \o y) = Len(c) - 1
      /\ \A i \in 1..Len(c) - 1 : (x \o y)[i] = IF i <= n - 1 THEN x[i] ELSE y[i - (n - 1)]
  <2>1. Len(x) + Len(y) = Len(c) - 1
    BY <1>1, <1>3, <1>4
  <2> QED BY <1>3, <1>4, <2>1, ConcatProperties
<1>6. IsSeq(x \o y)
  BY <1>5, SeqIsSeq
<1>7. ASSUME NEW i \in 1..Len(c) - 1
      PROVE (x \o y)[i] = IF i < n THEN c[i] ELSE c[i + 1]
  <2>1. CASE i < n
    BY <1>1, <1>3, <1>5, <2>1
  <2>2. CASE ~(i < n)
    <3>1. i - (n - 1) \in 1..Len(c) - n /\ n + (i - (n - 1)) = i + 1 /\ ~(i <= n - 1)
      BY <1>1, <2>2
    <3>2. (x \o y)[i] = y[i - (n - 1)] /\ y[i - (n - 1)] = c[n + (i - (n - 1))]
      BY <1>4, <1>5, <3>1
    <3> QED BY <2>2, <3>1, <3>2
  <2> QED BY <2>1, <2>2
<1> QED BY <1>1, <1>2, <1>5, <1>6, <1>7 DEF n

LEMMA PopKeeps ==
    ASSUME NEW c, IsSeq(c), Keyed(c), NEW k
    PROVE  /\ IsSeq(Pop(c, k)) /\ Keyed(Pop(c, k)) /\ ~Has(Pop(c, k), k)
           /\ ToSet(Pop(c, k)) \subseteq ToSet(c)
           /\ \A m, id, Q : Knows(c, m, id, Q) => Knows(Pop(c, k), m, id, Q \ {k})
<1>1. CASE ~Has(c, k)
  <2>1. Pop(c, k) = c
    BY <1>1 DEF Pop
  <2> QED BY <1>1, <2>1 DEF Knows
<1>2. CASE Has(c, k)
  <2> DEFINE n == IndexOf(c, k)
             b == Pop(c, k)
  <2>1. n \in 1..Len(c) /\ Len(c) \in Nat /\ IsSeq(b) /\ DOMAIN b = 1..Len(c) - 1
        /\ DOMAIN c = 1..Len(c) /\ \A i \in 1..Len(c) - 1 : b[i] = IF i < n THEN c[i] ELSE c[i + 1]
    BY <1>2, PopIs, IsSeqFacts
  <2>2. c[n].key = k /\ \A i \in 1..Len(c) : c[i].key = k => i = n
    BY <1>2, <2>1, IndexOfIs DEF Keyed
  <2> HIDE DEF n, b
  <2>0. ToSet(b) \subseteq ToSet(c)
    <3>1. ASSUME NEW i \in 1..Len(c) - 1 PROVE b[i] \in ToSet(c)
      <4>1. i \in 1..Len(c) /\ i + 1 \in 1..Len(c)
        BY <2>1
      <4> QED BY <2>1, <4>1, IsSeqFacts
    <3> QED BY <2>1, <3>1 DEF ToSet
  <2>3. Keyed(b)
    <3> SUFFICES ASSUME NEW i \in DOMAIN b, NEW j \in DOMAIN b, b[i].key = b[j].key PROVE i = j
      BY DEF Keyed
    <3> DEFINE o(x) == IF x < n THEN x ELSE x + 1
    <3>1. o(i) \in DOMAIN c /\ o(j) \in DOMAIN c /\ b[i] = c[o(i)] /\ b[j] = c[o(j)]
      BY <2>1
    <3>2. o(i) = o(j)
      <4> HIDE DEF o
      <4> QED BY <3>1 DEF Keyed
    <3> QED BY <2>1, <3>2
  <2>4. ~Has(b, k)
    BY <2>1, <2>2 DEF Has
  <2>5. ASSUME NEW m, NEW id, NEW Q, Knows(c, m, id, Q) PROVE Knows(b, m, id, Q \ {k})
    <3> SUFFICES ASSUME NEW i \in DOMAIN b, b[i].key = m
                 PROVE  /\ b[i].val.id = id
                        /\ \A q \in Q \ {k} : \E j \in DOMAIN b : i < j /\ b[j].key = q /\ b[j].val.id = id
      BY DEF Knows
    <3> DEFINE o == IF i < n THEN i ELSE i + 1
    <3>1. o \in DOMAIN c /\ b[i] = c[o]
      BY <2>1
    <3>2. c[o].val.id = id /\ \A q \in Q : \E j \in DOMAIN c : o < j /\ c[j].key = q /\ c[j].val.id = id
      BY <2>5, <3>1 DEF Knows
    <3>3. ASSUME NEW q \in Q \ {k}
          PROVE  \E j \in DOMAIN b : i < j /\ b[j].key = q /\ b[j].val.id = id
      <4>1. PICK j \in DOMAIN c : o < j /\ c[j].key = q /\ c[j].val.id = id
        BY <3>2
      <4>2. j # n
        BY <2>2, <4>1
      <4> DEFINE p == IF j < n THEN j ELSE j - 1
      <4>3. p \in DOMAIN b /\ i < p /\ b[p] = c[j]
        BY <2>1, <4>1, <4>2
      <4> QED BY <4>1, <4>3
    <3> QED BY <3>1, <3>2, <3>3
  <2> QED BY <2>0, <2>1, <2>3, <2>4, <2>5 DEF b
<1> QED BY <1>1, <1>2

\* Entries are dropped from the front.
LEMMA SuffixKeeps ==
    ASSUME NEW c, IsSeq(c), Keyed(c), NEW b, IsSeq(b), NEW n \in 0..Len(c),
           Len(b) = Len(c) - n, \A i \in 1..Len(c) - n : b[i] = c[i + n]
    PROVE  /\ Keyed(b)
           /\ \A m, id, Q : Knows(c, m, id, Q) => Knows(b, m, id, Q)
<1>1. Len(c) \in Nat /\ DOMAIN c = 1..Len(c) /\ DOMAIN b = 1..Len(c) - n
  BY IsSeqFacts
<1>2. Keyed(b)
  <2> SUFFICES ASSUME NEW i \in DOMAIN b, NEW j \in DOMAIN b, b[i].key = b[j].key PROVE i = j
    BY DEF Keyed
  <2>1. i + n \in DOMAIN c /\ j + n \in DOMAIN c /\ c[i + n].key = c[j + n].key
    BY <1>1
  <2>2. i + n = j + n
    BY <2>1 DEF Keyed
  <2> QED BY <1>1, <2>2
<1>3. ASSUME NEW m, NEW id, NEW Q, Knows(c, m, id, Q) PROVE Knows(b, m, id, Q)
  <2> SUFFICES ASSUME NEW i \in DOMAIN b, b[i].key = m
               PROVE  /\ b[i].val.id = id
                      /\ \A q \in Q : \E j \in DOMAIN b : i < j /\ b[j].key = q /\ b[j].val.id = id
    BY DEF Knows
  <2>1. i + n \in DOMAIN c /\ b[i] = c[i + n]
    BY <1>1
  <2>2. c[i + n].val.id = id
        /\ \A q \in Q : \E j \in DOMAIN c : i + n < j /\ c[j].key = q /\ c[j].val.id = id
    BY <1>3, <2>1 DEF Knows
  <2>3. ASSUME NEW q \in Q
        PROVE  \E j \in DOMAIN b : i < j /\ b[j].key = q /\ b[j].val.id = id
    <3>1. PICK j \in DOMAIN c : i + n < j /\ c[j].key = q /\ c[j].val.id = id
      BY <2>2
    <3>2. j - n \in DOMAIN b /\ i < j - n /\ b[j - n] = c[j]
      BY <1>1, <3>1
    <3> QED BY <3>1, <3>2
  <2> QED BY <2>1, <2>2, <2>3
<1> QED BY <1>2, <1>3

\* An entry comes last.
LEMMA AppendKeeps ==
    ASSUME NEW c, IsSeq(c), Keyed(c), NEW k, ~Has(c, k), NEW v
    PROVE  LET b == Append(c, [key |-> k, val |-> v])
           IN  /\ IsSeq(b) /\ Keyed(b)
               /\ \A m, id, Q : m # k /\ Knows(c, m, id, Q) => Knows(b, m, id, Q)
               /\ \A m, Q : m # k /\ Knows(c, m, v.id, Q) => Knows(b, m, v.id, Q \cup {k})
               /\ Knows(b, k, v.id, {})
<1> DEFINE x == [key |-> k, val |-> v]
           b == Append(c, x)
           n == Len(c) + 1
<1>1. IsSeq(b) /\ n \in Nat /\ DOMAIN c = 1..n - 1 /\ DOMAIN b = 1..n /\ b[n] = x
      /\ \A i \in 1..n - 1 : b[i] = c[i]
  BY AppendSeq, IsSeqFacts
<1>2. x.key = k /\ x.val = v
  OBVIOUS
<1>3. \A i \in 1..n - 1 : c[i].key # k
  BY <1>1 DEF Has
<1> HIDE DEF n, x, b
<1>4. Keyed(b)
  <2> SUFFICES ASSUME NEW i \in DOMAIN b, NEW j \in DOMAIN b, b[i].key = b[j].key PROVE i = j
    BY DEF Keyed
  <2>1. CASE i = n \/ j = n
    BY <1>1, <1>2, <1>3, <2>1
  <2>2. CASE i # n /\ j # n
    BY <1>1, <2>2 DEF Keyed
  <2> QED BY <2>1, <2>2
<1>5. ASSUME NEW m, NEW id, NEW Q, m # k, Knows(c, m, id, Q)
      PROVE  \A i \in DOMAIN b : b[i].key = m =>
                /\ i < n /\ b[i].val.id = id
                /\ \A q \in Q : \E j \in DOMAIN b : i < j /\ b[j].key = q /\ b[j].val.id = id
  BY <1>1, <1>2, <1>5 DEF Knows
<1>6. ASSUME NEW m, NEW id, NEW Q, m # k, Knows(c, m, id, Q) PROVE Knows(b, m, id, Q)
  <2>1. \A i \in DOMAIN b : b[i].key = m =>
           /\ b[i].val.id = id
           /\ \A q \in Q : \E j \in DOMAIN b : i < j /\ b[j].key = q /\ b[j].val.id = id
    BY <1>5, <1>6
  <2> QED BY <2>1 DEF Knows
<1>7. ASSUME NEW m, NEW Q, m # k, Knows(c, m, v.id, Q) PROVE Knows(b, m, v.id, Q \cup {k})
  BY <1>1, <1>2, <1>5, <1>7 DEF Knows
<1>8. Knows(b, k, v.id, {})
  BY <1>1, <1>2, <1>3 DEF Knows
<1> QED BY <1>1, <1>4, <1>6, <1>7, <1>8 DEF b, x

LEMMA PutKeeps ==
    ASSUME NEW c, IsSeq(c), Keyed(c), NEW k, NEW v, NEW cap \in Nat
    PROVE  LET b == PutEntry(c, k, v, cap)
           IN  /\ IsSeq(b) /\ Keyed(b)
               /\ \A m, id, Q : m # k /\ k \notin Q /\ Knows(c, m, id, Q) => Knows(b, m, id, Q)
               /\ \A m, Q : m # k /\ Knows(c, m, v.id, Q) => Knows(b, m, v.id, Q \cup {k})
               /\ Knows(b, k, v.id, {})
               /\ ToSet(b) \subseteq ToSet(c) \cup {[key |-> k, val |-> v]}
<1> DEFINE a == Pop(c, k)
           x == [key |-> k, val |-> v]
           d == Append(a, x)
           b == PutEntry(c, k, v, cap)
<1>1. IsSeq(a) /\ Keyed(a) /\ ~Has(a, k)
      /\ \A m, id, Q : Knows(c, m, id, Q) => Knows(a, m, id, Q \ {k})
  BY PopKeeps
<1>2. b = IF Len(d) > cap THEN Tail(d) ELSE d
  BY DEF PutEntry
<1> HIDE DEF a
<1>3. /\ IsSeq(d) /\ Keyed(d)
      /\ \A m, id, Q : m # k /\ Knows(a, m, id, Q) => Knows(d, m, id, Q)
      /\ \A m, Q : m # k /\ Knows(a, m, v.id, Q) => Knows(d, m, v.id, Q \cup {k})
      /\ Knows(d, k, v.id, {})
  BY <1>1, AppendKeeps
<1>4. Len(d) = Len(a) + 1 /\ Len(a) \in Nat /\ ToSet(d) = ToSet(a) \cup {x}
  BY <1>1, AppendSeq
<1>5. ToSet(a) \subseteq ToSet(c)
  BY PopKeeps DEF a
<1> HIDE DEF d, b
<1>6. /\ IsSeq(b) /\ Keyed(b) /\ ToSet(b) \subseteq ToSet(d)
      /\ \A m, id, Q : Knows(d, m, id, Q) => Knows(b, m, id, Q)
  <2>1. CASE Len(d) > cap
    <3>1. d \in Seq(ToSet(d)) /\ d # <<>>
      <4>1. Len(d) # 0
        BY <1>4
      <4> QED BY <1>3, <4>1 DEF IsSeq
    <3>2. Tail(d) \in Seq(ToSet(d)) /\ Len(Tail(d)) = Len(d) - 1
          /\ \A i \in 1..Len(d) - 1 : Tail(d)[i] = d[i + 1]
      BY <3>1, HeadTailProperties
    <3>3. IsSeq(Tail(d)) /\ ToSet(Tail(d)) \subseteq ToSet(d)
      BY <3>2, SeqIsSeq
    <3>4. 1 \in 0..Len(d)
      BY <1>4
    <3>5. Keyed(Tail(d)) /\ \A m, id, Q : Knows(d, m, id, Q) => Knows(Tail(d), m, id, Q)
      BY <1>3, <3>2, <3>3, <3>4, SuffixKeeps
    <3> QED BY <1>2, <2>1, <3>3, <3>5
  <2>2. CASE ~(Len(d) > cap)
    BY <1>2, <1>3, <2>2
  <2> QED BY <2>1, <2>2
<1>7. ASSUME NEW m, NEW id, NEW Q, m # k, k \notin Q, Knows(c, m, id, Q) PROVE Knows(b, m, id, Q)
  <2>1. Q \ {k} = Q
    BY <1>7
  <2>2. Knows(a, m, id, Q)
    <3>1. Knows(a, m, id, Q \ {k})
      BY <1>1, <1>7
    <3> QED BY <2>1, <3>1
  <2> QED BY <1>3, <1>6, <1>7, <2>2
<1>8. ASSUME NEW m, NEW Q, m # k, Knows(c, m, v.id, Q) PROVE Knows(b, m, v.id, Q \cup {k})
  <2>1. Knows(d, m, v.id, (Q \ {k}) \cup {k})
    BY <1>1, <1>3, <1>8
  <2>2. (Q \ {k}) \cup {k} = Q \cup {k}
    OBVIOUS
  <2> QED BY <1>6, <2>1, <2>2
<1>9. Knows(b, k, v.id, {})
  BY <1>3, <1>6
<1>10. ToSet(b) \subseteq ToSet(c) \cup {x}
  BY <1>4, <1>5, <1>6
<1> QED BY <1>6, <1>7, <1>8, <1>9, <1>10 DEF b, x

\* f is the cache after each of the keys.
Puts(f, c, keys, stamp) ==
    /\ f[0] = c
    /\ \A i \in 1..Len(keys) : f[i] = PutEntry(f[i - 1], keys[i], stamp, DirEntries)

LEMMA StoreAllPuts ==
    ASSUME NEW c, IsSeq(c), Keyed(c), NEW keys, IsSeq(keys), NEW stamp, DirEntries \in Nat
    PROVE  \E f : Puts(f, c, keys, stamp) /\ StoreAll(c, keys, stamp) = f[Len(keys)]
<1> DEFINE n == Len(keys)
           R == ToSet(c) \cup {[key |-> k, val |-> stamp] : k \in ToSet(keys)}
           S == {x \in Seq(R) : Keyed(x)}
           F == [p \in (1..n) \X S |-> PutEntry(p[2], keys[p[1]], stamp, DirEntries)]
           G(f) == [i \in 0..n |-> IF i = 0 THEN c ELSE PutEntry(f[i - 1], keys[i], stamp, DirEntries)]
<1>1. n \in Nat /\ \A i \in 1..n : keys[i] \in ToSet(keys)
  BY IsSeqFacts
<1>2. c \in S
  BY SeqMonotonic DEF IsSeq
<1>3. ASSUME NEW i \in 1..n, NEW x \in S PROVE PutEntry(x, keys[i], stamp, DirEntries) \in S
  <2> DEFINE b == PutEntry(x, keys[i], stamp, DirEntries)
  <2>1. IsSeq(x) /\ ToSet(x) \subseteq R /\ Keyed(x)
    BY SeqIsSeq
  <2>2. IsSeq(b) /\ Keyed(b) /\ ToSet(b) \subseteq ToSet(x) \cup {[key |-> keys[i], val |-> stamp]}
    BY <2>1, PutKeeps
  <2>3. ToSet(b) \subseteq R
    BY <1>1, <2>1, <2>2
  <2> HIDE DEF b, R
  <2>4. b \in Seq(R)
    BY <2>2, <2>3, SeqMonotonic DEF IsSeq
  <2> QED BY <2>2, <2>4 DEF b
<1>4. F \in [(1..n) \X S -> S]
  <2> HIDE DEF S
  <2> QED BY <1>3
<1>5. PICK g : Iterates(g, n, S, c, F)
  <2> HIDE DEF S, F, n
  <2> QED BY <1>1, <1>2, <1>4, Recursion
<1>6. g = G(g) /\ Puts(g, c, keys, stamp)
  <2>1. g \in [0..n -> S] /\ g[0] = c
    BY <1>5 DEF Iterates
  <2>2. ASSUME NEW i \in 1..n PROVE g[i] = PutEntry(g[i - 1], keys[i], stamp, DirEntries)
    <3>0. i - 1 \in 0..n
      <4> HIDE DEF n, F, S, R
      <4> QED BY <1>1
    <3>1. g[i] = F[<<i, g[i - 1]>>]
      <4> HIDE DEF n, F, S
      <4> QED BY <1>5 DEF Iterates
    <3>2. <<i, g[i - 1]>> \in (1..n) \X S
      <4> HIDE DEF S
      <4> QED BY <2>1, <3>0
    <3> HIDE DEF S
    <3> QED BY <3>1, <3>2
  <2> HIDE DEF S
  <2> QED BY <1>1, <2>1, <2>2 DEF Puts
<1> DEFINE put == CHOOSE put : put = G(put)
<1>7. put = G(put)
  <2> HIDE DEF G
  <2> QED BY <1>6
<1>8. StoreAll(c, keys, stamp) = put[n]
  BY DEF StoreAll
<1>9. Puts(put, c, keys, stamp)
  <2> HIDE DEF put
  <2>1. put[0] = c
    BY <1>1, <1>7
  <2>2. ASSUME NEW i \in 1..n PROVE put[i] = PutEntry(put[i - 1], keys[i], stamp, DirEntries)
    BY <1>1, <1>7
  <2> QED BY <2>1, <2>2 DEF Puts
<1> QED BY <1>8, <1>9

\* After the first i keys.
StoredSoFar(b, c, keys, stamp, i) ==
    /\ IsSeq(b) /\ Keyed(b)
    /\ i >= 1 => Knows(b, keys[1], stamp.id, {keys[j] : j \in 2..i})
    /\ \A j \in 1..i : Knows(b, keys[j], stamp.id, {})
    /\ \A m, id, Q : /\ \A j \in 1..i : keys[j] # m /\ keys[j] \notin Q
                     /\ Knows(c, m, id, Q)
                     => Knows(b, m, id, Q)
    /\ ToSet(b) \subseteq ToSet(c) \cup {[key |-> k, val |-> stamp] : k \in ToSet(keys)}

LEMMA StoreAllIs ==
    ASSUME NEW c, IsSeq(c), Keyed(c), NEW keys, IsSeq(keys), NEW stamp, DirEntries \in Nat,
           \A i \in 2..Len(keys) : keys[i] # keys[1]
    PROVE  StoredSoFar(StoreAll(c, keys, stamp), c, keys, stamp, Len(keys))
<1> DEFINE n == Len(keys)
<1>1. PICK f : Puts(f, c, keys, stamp) /\ StoreAll(c, keys, stamp) = f[n]
  BY StoreAllPuts
<1>2. n \in Nat /\ \A i \in 1..n : keys[i] \in ToSet(keys)
  BY IsSeqFacts
<1> DEFINE T == {i \in Nat : i <= n => StoredSoFar(f[i], c, keys, stamp, i)}
<1> HIDE DEF n
<1>3. 0 \in T
  <2>1. StoredSoFar(c, c, keys, stamp, 0)
    BY DEF StoredSoFar
  <2>2. f[0] = c
    BY <1>1 DEF Puts
  <2> QED BY <2>1, <2>2
<1>4. ASSUME NEW i \in T \cap Nat PROVE i + 1 \in T
  <2>1. SUFFICES ASSUME i + 1 <= n PROVE StoredSoFar(f[i + 1], c, keys, stamp, i + 1)
    OBVIOUS
  <2> DEFINE a == f[i]
             k == keys[i + 1]
             b == PutEntry(a, k, stamp, DirEntries)
  <2>2. i + 1 \in 1..n /\ i <= n /\ (i + 1) - 1 = i
    BY <1>2, <2>1
  <2>3. f[i + 1] = b
    BY <1>1, <2>2 DEF Puts, n
  <2>4. StoredSoFar(a, c, keys, stamp, i)
    BY <2>2
  <2>5. IsSeq(a) /\ Keyed(a) /\ k \in ToSet(keys)
    BY <1>2, <2>2, <2>4 DEF StoredSoFar
  <2> HIDE DEF a, k
  <2>6. /\ IsSeq(b) /\ Keyed(b)
        /\ \A m, id, Q : m # k /\ k \notin Q /\ Knows(a, m, id, Q) => Knows(b, m, id, Q)
        /\ \A m, Q : m # k /\ Knows(a, m, stamp.id, Q) => Knows(b, m, stamp.id, Q \cup {k})
        /\ Knows(b, k, stamp.id, {})
        /\ ToSet(b) \subseteq ToSet(a) \cup {[key |-> k, val |-> stamp]}
    BY <2>5, PutKeeps
  <2> HIDE DEF b
  <2>7. Knows(b, keys[1], stamp.id, {keys[j] : j \in 2..i + 1})
    <3>1. CASE i = 0
      <4>1. {keys[j] : j \in 2..i + 1} = {} /\ k = keys[1]
        BY <3>1 DEF k
      <4> QED BY <2>6, <4>1
    <3>2. CASE i # 0
      <4>1. i >= 1 /\ i + 1 \in 2..n
        BY <2>2, <3>2
      <4>2. Knows(a, keys[1], stamp.id, {keys[j] : j \in 2..i}) /\ keys[1] # k
        BY <2>4, <4>1 DEF StoredSoFar, k, n
      <4>3. {keys[j] : j \in 2..i + 1} = {keys[j] : j \in 2..i} \cup {k}
        <5>1. 2..i + 1 = (2..i) \cup {i + 1}
          BY <4>1
        <5> QED BY <5>1 DEF k
      <4> QED BY <2>6, <4>2, <4>3
    <3> QED BY <3>1, <3>2
  <2>8. ASSUME NEW m, NEW id, NEW Q, \A j \in 1..i + 1 : keys[j] # m /\ keys[j] \notin Q,
               Knows(c, m, id, Q)
        PROVE  Knows(b, m, id, Q)
    <3>1. Knows(a, m, id, Q)
      BY <2>4, <2>8 DEF StoredSoFar
    <3>2. m # k /\ k \notin Q
      BY <2>2, <2>8 DEF k
    <3> QED BY <2>6, <3>1, <3>2
  <2>9. ToSet(b) \subseteq ToSet(c) \cup {[key |-> x, val |-> stamp] : x \in ToSet(keys)}
    BY <2>4, <2>5, <2>6 DEF StoredSoFar
  <2>10. ASSUME NEW j \in 1..i + 1 PROVE Knows(b, keys[j], stamp.id, {})
    <3>1. CASE keys[j] = k
      BY <2>6, <3>1
    <3>2. CASE keys[j] # k
      <4>1. j \in 1..i
        BY <2>2, <3>2 DEF k
      <4>2. Knows(a, keys[j], stamp.id, {})
        BY <2>4, <4>1 DEF StoredSoFar
      <4> QED BY <2>6, <3>2, <4>2
    <3> QED BY <3>1, <3>2
  <2> QED BY <2>3, <2>6, <2>7, <2>8, <2>9, <2>10 DEF StoredSoFar
<1>5. Nat \subseteq T
  <2> HIDE DEF T
  <2> QED BY <1>3, <1>4, Induction
<1>6. StoredSoFar(f[n], c, keys, stamp, n)
  BY <1>2, <1>5
<1> QED BY <1>1, <1>6 DEF n

-----------------------------------------------------------------------------
(* The names that a listing gathers for the cache.                         *)

LEMMA AddNamesGrows ==
    ASSUME NEW built, IsSeq(built), NEW items, IsSeq(items)
    PROVE  \E f : /\ f[0] = built /\ AddNames(built, items) = f[Len(items)]
                  /\ \A i \in 1..Len(items) : f[i] =
                        IF items[i] # ErrItem /\ items[i].ok \in DotNames
                        THEN Append(f[i - 1], items[i].ok) ELSE f[i - 1]
<1> DEFINE n == Len(items)
           S == Seq(ToSet(built) \cup {items[i].ok : i \in 1..n})
           Next1(i, s) == IF items[i] # ErrItem /\ items[i].ok \in DotNames
                          THEN Append(s, items[i].ok) ELSE s
           F == [p \in (1..n) \X S |-> Next1(p[1], p[2])]
           G(f) == [i \in 0..n |-> IF i = 0 THEN built
                        ELSE IF items[i] # ErrItem /\ items[i].ok \in DotNames
                        THEN Append(f[i - 1], items[i].ok) ELSE f[i - 1]]
<1>1. n \in Nat
  BY IsSeqFacts
<1>2. built \in S
  BY SeqMonotonic DEF IsSeq
<1>3. ASSUME NEW i \in 1..n, NEW s \in S PROVE Next1(i, s) \in S
  <2> DEFINE U == ToSet(built) \cup {items[j].ok : j \in 1..n}
  <2>1. items[i].ok \in U
    OBVIOUS
  <2>2. s \in Seq(U)
    OBVIOUS
  <2> HIDE DEF U
  <2>3. Next1(i, s) \in Seq(U)
    BY <2>1, <2>2
  <2> HIDE DEF Next1
  <2> QED BY <2>3 DEF U
<1>4. F \in [(1..n) \X S -> S]
  <2> HIDE DEF S, Next1
  <2> QED BY <1>3
<1>5. PICK g : Iterates(g, n, S, built, F)
  <2> HIDE DEF S, F, n
  <2> QED BY <1>1, <1>2, <1>4, Recursion
<1>6. g \in [0..n -> S] /\ g[0] = built
  <2> HIDE DEF n, F, S
  <2> QED BY <1>5 DEF Iterates
<1>7. ASSUME NEW i \in 1..n PROVE g[i] = Next1(i, g[i - 1])
  <2>1. i - 1 \in 0..n
    <3> HIDE DEF n, F, S
    <3> QED BY <1>1
  <2>2. g[i] = F[<<i, g[i - 1]>>]
    <3> HIDE DEF n, F, S
    <3> QED BY <1>5 DEF Iterates
  <2>3. <<i, g[i - 1]>> \in (1..n) \X S
    <3> HIDE DEF S, n
    <3> QED BY <1>6, <2>1
  <2> HIDE DEF S, Next1
  <2> QED BY <2>2, <2>3
<1>8. g = G(g)
  <2> DEFINE B(i) == IF i = 0 THEN built ELSE Next1(i, g[i - 1])
  <2>1. ASSUME NEW i \in 0..n PROVE g[i] = B(i)
    <3>1. i = 0 \/ i \in 1..n
      <4> HIDE DEF n
      <4> QED BY <1>1
    <3> HIDE DEF n, Next1
    <3> QED BY <1>6, <1>7, <3>1
  <2>2. g = [i \in 0..n |-> B(i)]
    <3> HIDE DEF n, B, S
    <3> QED BY <1>6, <2>1
  <2> QED BY <2>2
<1> DEFINE added == CHOOSE added : added = G(added)
<1>9. added = G(added)
  <2> HIDE DEF G
  <2> QED BY <1>8
<1>10. AddNames(built, items) = added[n]
  BY DEF AddNames
<1> HIDE DEF added
<1>11. added[0] = built
  BY <1>1, <1>9
<1>12. ASSUME NEW i \in 1..n
       PROVE  added[i] = IF items[i] # ErrItem /\ items[i].ok \in DotNames
                         THEN Append(added[i - 1], items[i].ok) ELSE added[i - 1]
  <2>1. i \in 0..n /\ i # 0
    <3> HIDE DEF n
    <3> QED BY <1>1
  <2>2. added[i] = G(added)[i]
    <3> HIDE DEF G
    <3> QED BY <1>9
  <2> HIDE DEF n
  <2> QED BY <2>1, <2>2
<1> QED BY <1>10, <1>11, <1>12

LEMMA AddNamesIs ==
    ASSUME NEW built, IsSeq(built), NEW items, IsSeq(items)
    PROVE  /\ IsSeq(AddNames(built, items))
           /\ ToSet(AddNames(built, items)) = ToSet(built) \cup (DotNames \cap NamesOf(items))
<1> DEFINE n == Len(items)
           Good(i) == items[i] # ErrItem /\ items[i].ok \in DotNames
           Names(i) == {items[j].ok : j \in {k \in 1..i : Good(k)}}
<1>1. PICK f : /\ f[0] = built /\ AddNames(built, items) = f[n]
               /\ \A i \in 1..n : f[i] = IF Good(i) THEN Append(f[i - 1], items[i].ok) ELSE f[i - 1]
  BY AddNamesGrows
<1>2. n \in Nat /\ ToSet(items) = {items[j] : j \in 1..n}
  BY IsSeqFacts DEF ToSet
<1> DEFINE T == {i \in Nat : i <= n => IsSeq(f[i]) /\ ToSet(f[i]) = ToSet(built) \cup Names(i)}
<1>3. 0 \in T
  BY <1>1
<1>4. ASSUME NEW i \in T \cap Nat PROVE i + 1 \in T
  <2>1. SUFFICES ASSUME i + 1 <= n
                 PROVE  IsSeq(f[i + 1]) /\ ToSet(f[i + 1]) = ToSet(built) \cup Names(i + 1)
    OBVIOUS
  <2> HIDE DEF n
  <2>2. i + 1 \in 1..n /\ i <= n /\ (i + 1) - 1 = i /\ 1..i + 1 = (1..i) \cup {i + 1}
    BY <1>2, <2>1
  <2>3. IsSeq(f[i]) /\ ToSet(f[i]) = ToSet(built) \cup Names(i)
    BY <2>2
  <2>4. f[i + 1] = IF Good(i + 1) THEN Append(f[i], items[i + 1].ok) ELSE f[i]
    <3> HIDE DEF Good
    <3> QED BY <1>1, <2>2
  <2>5. Names(i + 1) = IF Good(i + 1) THEN Names(i) \cup {items[i + 1].ok} ELSE Names(i)
    <3> HIDE DEF Good
    <3>1. {k \in 1..i + 1 : Good(k)} = {k \in 1..i : Good(k)} \cup {k \in {i + 1} : Good(k)}
      BY <2>2
    <3> QED BY <3>1
  <2> HIDE DEF Good, Names, T
  <2>6. CASE Good(i + 1)
    BY <2>3, <2>4, <2>5, <2>6, AppendSeq
  <2>7. CASE ~Good(i + 1)
    BY <2>3, <2>4, <2>5, <2>7
  <2> QED BY <2>6, <2>7
<1>5. Nat \subseteq T
  <2> HIDE DEF T
  <2> QED BY <1>3, <1>4, Induction
<1>6. IsSeq(f[n]) /\ ToSet(f[n]) = ToSet(built) \cup Names(n)
  <2> HIDE DEF n
  <2> QED BY <1>2, <1>5
<1>7. Names(n) = DotNames \cap NamesOf(items)
  <2> HIDE DEF n
  <2> QED BY <1>2 DEF NamesOf
<1> QED BY <1>1, <1>6, <1>7

-----------------------------------------------------------------------------
(* What is yielded, and what is still to be.                               *)

Once(s) == \A i, j \in DOMAIN s : i # j => s[i] # s[j]
ErrorLast(s) == \A i \in DOMAIN s : s[i] = ErrItem => i = Len(s)

LEMMA Emptied ==
    /\ IsSeq(<<>>) /\ ToSet(<<>>) = {} /\ Once(<<>>) /\ ErrorLast(<<>>) /\ NamesOf(<<>>) = {}
    /\ \A s : IsSeq(s) /\ ToSet(s) = {} => s = <<>>
<1>1. IsSeq(<<>>) /\ ToSet(<<>>) = {} /\ Once(<<>>) /\ ErrorLast(<<>>) /\ NamesOf(<<>>) = {}
  BY DEF IsSeq, ToSet, Once, ErrorLast, NamesOf
<1>2. ASSUME NEW s, IsSeq(s), ToSet(s) = {} PROVE s = <<>>
  <2>1. s \in Seq({}) /\ Len(s) \in Nat /\ \A i \in 1..Len(s) : s[i] \in {}
    BY <1>2, IsSeqFacts DEF IsSeq
  <2>2. Len(s) = 0
    BY <2>1
  <2> QED BY <2>1, <2>2
<1> QED BY <1>1, <1>2

LEMMA OneLess ==
    ASSUME NEW s, IsSeq(s), s # <<>>
    PROVE  /\ IsSeq(Tail(s)) /\ ToSet(s) = ToSet(Tail(s)) \cup {Head(s)}
           /\ Once(s) => Once(Tail(s)) /\ Head(s) \notin ToSet(Tail(s))
           /\ ErrorLast(s) => ErrorLast(Tail(s)) /\ (Head(s) = ErrItem => Tail(s) = <<>>)
<1>1. s \in Seq(ToSet(s)) /\ Len(s) \in Nat /\ DOMAIN s = 1..Len(s) /\ Len(s) # 0
  BY IsSeqFacts DEF IsSeq
<1>2. /\ Tail(s) \in Seq(ToSet(s)) /\ Len(Tail(s)) = Len(s) - 1 /\ Head(s) = s[1]
      /\ \A i \in 1..Len(s) - 1 : Tail(s)[i] = s[i + 1]
  BY <1>1, HeadTailProperties
<1>3. IsSeq(Tail(s)) /\ ToSet(Tail(s)) \subseteq ToSet(s) /\ DOMAIN Tail(s) = 1..Len(s) - 1
  BY <1>2, SeqIsSeq
<1>4. ToSet(s) = ToSet(Tail(s)) \cup {Head(s)}
  <2>1. ASSUME NEW i \in 1..Len(s) PROVE s[i] = Head(s) \/ s[i] \in ToSet(Tail(s))
    <3>1. CASE i = 1
      BY <1>2, <3>1
    <3>2. CASE i # 1
      <4>1. i - 1 \in 1..Len(s) - 1 /\ (i - 1) + 1 = i
        BY <1>1, <3>2
      <4>2. Tail(s)[i - 1] = s[i] /\ i - 1 \in DOMAIN Tail(s)
        BY <1>2, <1>3, <4>1
      <4> QED BY <4>2 DEF ToSet
    <3> QED BY <3>1, <3>2
  <2>2. Head(s) \in ToSet(s)
    BY <1>1, <1>2 DEF ToSet
  <2> QED BY <1>1, <1>3, <2>1, <2>2 DEF ToSet
<1>5. ASSUME Once(s) PROVE Once(Tail(s)) /\ Head(s) \notin ToSet(Tail(s))
  <2>1. ASSUME NEW i \in 1..Len(s) - 1, NEW j \in 1..Len(s) - 1, i # j PROVE Tail(s)[i] # Tail(s)[j]
    BY <1>1, <1>2, <1>5, <2>1 DEF Once
  <2>2. ASSUME NEW i \in 1..Len(s) - 1 PROVE Tail(s)[i] # Head(s)
    BY <1>1, <1>2, <1>5 DEF Once
  <2> QED BY <1>3, <2>1, <2>2 DEF Once, ToSet
<1>6. ASSUME ErrorLast(s) PROVE ErrorLast(Tail(s)) /\ (Head(s) = ErrItem => Tail(s) = <<>>)
  <2>1. ASSUME NEW i \in 1..Len(s) - 1, Tail(s)[i] = ErrItem PROVE i = Len(s) - 1
    <3>1. i + 1 \in DOMAIN s /\ s[i + 1] = ErrItem
      BY <1>1, <1>2, <2>1
    <3>2. i + 1 = Len(s)
      BY <1>6, <3>1 DEF ErrorLast
    <3>3. Len(s) \in Nat
      BY <1>1
    <3> QED BY ONLY <3>2, <3>3, i \in 1..Len(s) - 1
  <2>2. ASSUME Head(s) = ErrItem PROVE Tail(s) = <<>>
    <3>0. 1 \in DOMAIN s /\ s[1] = ErrItem
      BY <1>1, <1>2, <2>2
    <3>1. Len(s) = 1
      BY <1>6, <3>0 DEF ErrorLast
    <3>2. Len(Tail(s)) = 0 /\ Tail(s) \in Seq(ToSet(s))
      BY <1>2, <3>1
    <3> HIDE <1>6
    <3> QED BY <3>2, EmptySeq
  <2> QED BY <1>2, <1>3, <2>1, <2>2 DEF ErrorLast
<1> QED BY <1>3, <1>4, <1>5, <1>6

LEMMA OneMore ==
    ASSUME NEW s, IsSeq(s), NEW x, x \notin ToSet(s)
    PROVE  /\ Once(s) => Once(Append(s, x))
           /\ ErrItem \notin ToSet(s) => ErrorLast(Append(s, x))
<1>1. /\ IsSeq(Append(s, x)) /\ Len(Append(s, x)) = Len(s) + 1 /\ Len(s) \in Nat
      /\ \A i \in 1..Len(s) + 1 : Append(s, x)[i] = IF i = Len(s) + 1 THEN x ELSE s[i]
  BY AppendSeq
<1>2. DOMAIN s = 1..Len(s) /\ DOMAIN Append(s, x) = 1..Len(s) + 1
      /\ \A i \in 1..Len(s) : s[i] \in ToSet(s)
  BY <1>1, IsSeqFacts
<1>3. ASSUME Once(s) PROVE Once(Append(s, x))
  BY <1>1, <1>2, <1>3 DEF Once
<1>4. ASSUME ErrItem \notin ToSet(s) PROVE ErrorLast(Append(s, x))
  BY <1>1, <1>2, <1>4 DEF ErrorLast
<1> QED BY <1>3, <1>4

LEMMA NamesOfJoined ==
    ASSUME NEW s, NEW t, NEW x, ToSet(s) = ToSet(t) \cup {x}
    PROVE  NamesOf(s) = NamesOf(t) \cup (IF x = ErrItem THEN {} ELSE {x.ok})
BY DEF NamesOf

-----------------------------------------------------------------------------
(* A listing, step by step.  Each part of what holds of it is named.       *)

IsListing(r) ==
    /\ DOMAIN r = DOMAIN Idle
    /\ IsSeq(r.batch) /\ IsSeq(r.buffer) /\ IsSeq(r.built) /\ IsSeq(r.yielded)
    /\ r.pc \in {"idle", "open", "finish", "ended"}
    /\ r.pc # "idle" => r.dir \in Dirs

\* One batch is under way at a time, and only when nothing is left of the one before.
OneBatch(r) ==
    /\ r.fut # "ready" => r.batch = <<>>
    /\ r.fut # "none" => r.buffer = <<>> /\ r.pc = "open" /\ r.iter # "none"
    /\ r.fut = "ready" /\ r.batch = <<>> => r.iter = "eos"

Rest(r) == IF r.fut = "ready" THEN r.batch ELSE r.buffer

\* Nothing comes twice, and nothing that the directory never had.
NothingTwice(r) ==
    /\ Once(r.yielded) /\ Once(Rest(r)) /\ ToSet(r.yielded) \cap ToSet(Rest(r)) = {}
    /\ r.seen = NamesOf(r.yielded) \cup NamesOf(Rest(r)) /\ r.seen \subseteq r.ever

ErrorEnds(r) ==
    /\ ErrorLast(r.yielded) /\ ErrorLast(Rest(r))
    /\ ErrItem \in ToSet(Rest(r)) => r.iter = "some"
    /\ ErrItem \in ToSet(r.yielded) => r.iter = "none" /\ Rest(r) = <<>>
    /\ r.pc = "open" /\ r.iter = "none" => ErrItem \in ToSet(r.yielded)

\* At the end of the iterator everything has come that was there all the time.
EndIsComplete(r) ==
    /\ r.iter = "eos" => r.stable \subseteq r.seen
    /\ r.pc \in {"finish", "ended"} =>
          /\ Rest(r) = <<>> /\ r.fut = "none"
          /\ ErrItem \notin ToSet(r.yielded) => r.stable \subseteq r.seen

Gathered(r, macos) ==
    /\ r.pc = "finish" => macos /\ ErrItem \notin ToSet(r.yielded)
    /\ macos => ToSet(r.built) = DotNames \cap (NamesOf(r.yielded) \cup NamesOf(r.buffer))

ListingOk(r, macos) ==
    IsListing(r) /\ OneBatch(r) /\ NothingTwice(r) /\ ErrorEnds(r) /\ EndIsComplete(r)
    /\ Gathered(r, macos)

\* s is a listing with these parts.
Parts(s, pc, dir, iter, fut, batch, buffer, built, stable, ever, seen, yielded) ==
    /\ DOMAIN s = DOMAIN Idle
    /\ s.pc = pc /\ s.dir = dir /\ s.iter = iter /\ s.fut = fut /\ s.batch = batch
    /\ s.buffer = buffer /\ s.built = built /\ s.stable = stable /\ s.ever = ever
    /\ s.seen = seen /\ s.yielded = yielded

LEMMA IsListingFields ==
    ASSUME NEW r, NEW macos, ListingOk(r, macos)
    PROVE  DOMAIN r = {"pc", "dir", "iter", "fut", "batch", "buffer", "built", "stamp", "stable",
                       "ever", "seen", "yielded"}
BY DEF ListingOk, IsListing, Idle

LEMMA IdleOk == \A macos : ListingOk(Idle, macos)
BY Emptied DEF Idle, ListingOk, IsListing, OneBatch, NothingTwice, ErrorEnds, EndIsComplete,
               Gathered, Rest

Opened(d, N) ==
    [Idle EXCEPT !.pc = "open", !.dir = d, !.iter = "some", !.stable = N, !.ever = N]

LEMMA OpenedOk ==
    ASSUME NEW d \in Dirs, NEW N, NEW macos
    PROVE  ListingOk(Opened(d, N), macos)
<1> DEFINE r == Opened(d, N)
<1>1. Parts(r, "open", d, "some", "none", <<>>, <<>>, <<>>, N, N, {}, <<>>)
  BY DEF Parts, Idle, Opened
<1> HIDE DEF r
<1>2. Rest(r) = <<>>
  BY <1>1 DEF Rest, Parts
<1>3. ListingOk(r, macos)
  BY <1>1, <1>2, Emptied
     DEF Parts, ListingOk, IsListing, OneBatch, NothingTwice, ErrorEnds, EndIsComplete,
         Gathered
<1> QED BY <1>3 DEF r

LEMMA ChangedOk ==
    ASSUME NEW r, NEW macos, ListingOk(r, macos), r.pc = "open", NEW N
    PROVE  ListingOk([r EXCEPT !.stable = @ \cap N, !.ever = @ \cup N], macos)
<1> DEFINE s == [r EXCEPT !.stable = @ \cap N, !.ever = @ \cup N]
<1>1. Parts(s, r.pc, r.dir, r.iter, r.fut, r.batch, r.buffer, r.built, r.stable \cap N,
            r.ever \cup N, r.seen, r.yielded)
  BY IsListingFields DEF Parts, Idle
<1>2. r.stable \cap N \subseteq r.stable
  OBVIOUS
<1> HIDE DEF s
<1>3. Rest(s) = Rest(r)
  BY <1>1 DEF Rest, Parts
<1> QED BY <1>1, <1>2, <1>3
        DEF s, Parts, ListingOk, IsListing, OneBatch, NothingTwice, ErrorEnds, EndIsComplete, Gathered

LEMMA StartedOk ==
    ASSUME NEW r, NEW macos, ListingOk(r, macos),
           r.pc = "open", r.buffer = <<>>, r.fut = "none", r.iter # "none"
    PROVE  ListingOk([r EXCEPT !.fut = "running"], macos)
<1> DEFINE s == [r EXCEPT !.fut = "running"]
<1>1. Parts(s, r.pc, r.dir, r.iter, "running", r.batch, r.buffer, r.built, r.stable,
            r.ever, r.seen, r.yielded)
  BY IsListingFields DEF Parts, Idle
<1> HIDE DEF s
<1>2. Rest(s) = Rest(r)
  BY <1>1 DEF Rest, Parts
<1> QED BY <1>1, <1>2
        DEF s, Parts, ListingOk, IsListing, OneBatch, NothingTwice, ErrorEnds, EndIsComplete, Gathered

LEMMA OverOk ==
    ASSUME NEW r, NEW macos, ListingOk(r, macos),
           \/ r.pc = "finish"
           \/ r.pc = "open" /\ r.buffer = <<>> /\ r.fut = "none" /\ r.iter = "none"
    PROVE  ListingOk([r EXCEPT !.pc = "ended"], macos)
<1> DEFINE s == [r EXCEPT !.pc = "ended"]
<1>1. Parts(s, "ended", r.dir, r.iter, r.fut, r.batch, r.buffer, r.built, r.stable, r.ever,
            r.seen, r.yielded)
  BY IsListingFields DEF Parts, Idle
<1> HIDE DEF s
<1>2. Rest(s) = Rest(r)
  BY <1>1 DEF Rest, Parts
<1>3. ListingOk(s, macos)
  BY <1>1, <1>2
     DEF Parts, ListingOk, IsListing, OneBatch, NothingTwice, ErrorEnds, EndIsComplete,
         Gathered, Rest
<1> QED BY <1>3 DEF s

LEMMA TimedOk ==
    ASSUME NEW r, NEW macos, ListingOk(r, macos), NEW x
    PROVE  ListingOk([r EXCEPT !.stamp = x], macos)
<1> DEFINE s == [r EXCEPT !.stamp = x]
<1>1. Parts(s, r.pc, r.dir, r.iter, r.fut, r.batch, r.buffer, r.built, r.stable,
            r.ever, r.seen, r.yielded)
  BY IsListingFields DEF Parts, Idle
<1> HIDE DEF s
<1>2. Rest(s) = Rest(r)
  BY <1>1 DEF Rest, Parts
<1> QED BY <1>1, <1>2
        DEF s, Parts, ListingOk, IsListing, OneBatch, NothingTwice, ErrorEnds, EndIsComplete,
            Gathered

\* What a batch may be.
ItemsFor(s) == [i \in DOMAIN s |-> Item(s[i])]

LEMMA ItemsOf ==
    ASSUME NEW N, NEW n \in Nat, NEW s \in [1..n -> N], \A i, j \in DOMAIN s : i # j => s[i] # s[j]
    PROVE  LET items == ItemsFor(s)
           IN  /\ IsSeq(items) /\ Len(items) = n /\ Len(s) = n
               /\ Once(items) /\ ErrItem \notin ToSet(items)
               /\ NamesOf(items) = ToSet(s) /\ NamesOf(items) \subseteq N
<1> DEFINE items == ItemsFor(s)
<1>0. items = [i \in DOMAIN s |-> Item(s[i])]
  BY DEF ItemsFor
<1>1. DOMAIN s = 1..n /\ s \in Seq(N) /\ Len(s) = n
  OBVIOUS
<1>2. \A x : Item(x).ok = x /\ Item(x) # ErrItem
  <2> TAKE x
  <2>1. DOMAIN Item(x) = {"ok"} /\ DOMAIN ErrItem = {"err"} /\ Item(x).ok = x
    BY DEF Item, ErrItem
  <2>2. "ok" # "err"
    OBVIOUS
  <2> QED BY <2>1, <2>2
<1>3. items \in Seq({Item(x) : x \in N}) /\ DOMAIN items = 1..n /\ Len(items) = n
  <2> DEFINE I == {Item(x) : x \in N}
  <2>1. items \in [1..n -> I]
    BY <1>0, <1>1
  <2> HIDE DEF I, items
  <2>2. items \in Seq(I)
    BY <2>1
  <2>3. DOMAIN items = 1..n
    BY <2>1
  <2>4. DOMAIN items = 1..Len(items) /\ Len(items) \in Nat
    BY <2>2
  <2> QED BY <2>2, <2>3, <2>4 DEF I
<1>4. \A i \in 1..n : items[i] = Item(s[i])
  BY <1>0, <1>1
<1>5. IsSeq(items)
  <2> HIDE DEF items
  <2> QED BY <1>3, SeqIsSeq
<1> HIDE DEF items
<1>6. Once(items)
  <2> SUFFICES ASSUME NEW i \in 1..n, NEW j \in 1..n, i # j PROVE items[i] # items[j]
    BY <1>3 DEF Once
  <2>1. s[i] # s[j]
    BY <1>1
  <2> QED BY <1>2, <1>4, <2>1
<1>7. ErrItem \notin ToSet(items)
  BY <1>2, <1>3, <1>4 DEF ToSet
<1>8. ToSet(items) = {Item(s[i]) : i \in 1..n} /\ ToSet(s) = {s[i] : i \in 1..n}
  BY <1>1, <1>3, <1>4 DEF ToSet
<1>9. NamesOf(items) = {x.ok : x \in ToSet(items)}
  BY <1>7 DEF NamesOf
<1>10. {x.ok : x \in ToSet(items)} = ToSet(s) /\ ToSet(s) \subseteq N
  BY <1>1, <1>2, <1>8
<1> QED BY <1>1, <1>3, <1>5, <1>6, <1>7, <1>9, <1>10 DEF items

BatchOk(b, r) ==
    /\ IsSeq(b.items) /\ Once(b.items) /\ ErrorLast(b.items) /\ NamesOf(b.items) \cap r.seen = {}
    /\ NamesOf(b.items) \subseteq r.ever
    /\ b.iter \in {"some", "eos"}
    /\ ErrItem \in ToSet(b.items) => b.iter = "some"
    /\ b.items = <<>> => b.iter = "eos"
    /\ b.iter = "eos" => r.iter = "eos" \/ r.stable \subseteq r.seen \cup NamesOf(b.items)

LEMMA BatchesOk ==
    ASSUME NEW r, NEW b \in Batches(r), BatchSize \in Nat \ {0}
    PROVE  BatchOk(b, r)
<1> DEFINE new == r.ever \ r.seen
           some == {s \in UNION {[1..n -> new] : n \in 0..BatchSize} :
                       \A i, j \in DOMAIN s : i # j => s[i] # s[j]}
           items(s) == ItemsFor(s)
           full == {[items |-> items(s), iter |-> "some"] : s \in {t \in some : Len(t) = BatchSize}}
           last == {[items |-> items(s), iter |-> "eos"] : s \in
                       {t \in some : Len(t) < BatchSize /\ r.stable \subseteq r.seen \cup ToSet(t)}}
           bad  == {[items |-> Append(items(s), ErrItem), iter |-> "some"] : s \in
                       {t \in some : Len(t) < BatchSize}}
<1>1. CASE r.iter = "eos"
  <2>1. b = [items |-> <<>>, iter |-> "eos"]
    BY <1>1 DEF Batches
  <2> QED BY <1>1, <2>1, Emptied DEF BatchOk
<1>2. CASE r.iter # "eos"
  <2>1. b \in full \cup last \cup bad
    BY <1>2 DEF Batches, ItemsFor
  <2>2. ASSUME NEW s \in some
        PROVE  /\ IsSeq(items(s)) /\ Len(items(s)) = Len(s) /\ Len(s) \in Nat
               /\ Once(items(s)) /\ ErrItem \notin ToSet(items(s)) /\ ErrorLast(items(s))
               /\ NamesOf(items(s)) = ToSet(s) /\ NamesOf(items(s)) \cap r.seen = {}
               /\ NamesOf(items(s)) \subseteq r.ever
    <3>1. PICK n \in 0..BatchSize : s \in [1..n -> new]
      OBVIOUS
    <3>2. n \in Nat /\ \A i, j \in DOMAIN s : i # j => s[i] # s[j]
      OBVIOUS
    <3>3. /\ IsSeq(items(s)) /\ Len(items(s)) = n /\ Len(s) = n
          /\ Once(items(s)) /\ ErrItem \notin ToSet(items(s))
          /\ NamesOf(items(s)) = ToSet(s) /\ NamesOf(items(s)) \subseteq new
      <4> HIDE DEF new, some
      <4>1. n \in Nat /\ s \in [1..n -> new]
        BY <3>1, <3>2
      <4> QED BY ONLY <4>1, <3>2, ItemsOf
    <3> HIDE DEF items
    <3>4. ErrorLast(items(s))
      BY <3>3, IsSeqFacts DEF ErrorLast
    <3> QED BY <3>2, <3>3, <3>4
  <2> HIDE DEF some, items
  <2>3. CASE b \in full
    <3>1. PICK s \in some : Len(s) = BatchSize /\ b = [items |-> items(s), iter |-> "some"]
      BY <2>3
    <3>2. items(s) # <<>>
      <4>1. Len(items(s)) # 0
        BY <2>2, <3>1
      <4> QED BY <4>1
    <3> QED BY <2>2, <3>1, <3>2 DEF BatchOk
  <2>4. CASE b \in last
    <3>1. PICK s \in some : /\ r.stable \subseteq r.seen \cup ToSet(s)
                            /\ b = [items |-> items(s), iter |-> "eos"]
      BY <2>4
    <3> QED BY <2>2, <3>1 DEF BatchOk
  <2>5. CASE b \in bad
    <3>1. PICK s \in some : b = [items |-> Append(items(s), ErrItem), iter |-> "some"]
      BY <2>5
    <3> DEFINE a == Append(items(s), ErrItem)
    <3>2. /\ IsSeq(a) /\ ToSet(a) = ToSet(items(s)) \cup {ErrItem} /\ Len(a) = Len(items(s)) + 1
          /\ Once(a) /\ ErrorLast(a)
      BY <2>2, AppendSeq, OneMore
    <3>3. NamesOf(a) = NamesOf(items(s))
      <4>1. NamesOf(a) = NamesOf(items(s)) \cup (IF ErrItem = ErrItem THEN {} ELSE {ErrItem.ok})
        <5> HIDE DEF a
        <5> QED BY <3>2, NamesOfJoined
      <4> QED BY <4>1
    <3>4. a # <<>>
      <4>1. Len(a) # 0
        BY <2>2, <3>2
      <4> HIDE DEF a
      <4> QED BY <4>1
    <3> HIDE DEF a
    <3>5. b = [items |-> a, iter |-> "some"]
      BY <3>1 DEF a
    <3> QED BY <2>2, <3>2, <3>3, <3>4, <3>5 DEF BatchOk
  <2> QED BY <2>1, <2>3, <2>4, <2>5
<1> QED BY <1>1, <1>2

WithBatch(r, b) == [r EXCEPT !.fut = "ready", !.batch = b.items, !.iter = b.iter,
                             !.seen = @ \cup NamesOf(b.items)]

LEMMA ReadOk ==
    ASSUME NEW r, NEW macos, ListingOk(r, macos), r.fut = "running", NEW b, BatchOk(b, r)
    PROVE  ListingOk(WithBatch(r, b), macos) /\ WithBatch(r, b).stamp = r.stamp
<1> DEFINE s == WithBatch(r, b)
<1>0. s.stamp = r.stamp
  BY IsListingFields DEF WithBatch
<1>1. Parts(s, r.pc, r.dir, b.iter, "ready", b.items, r.buffer, r.built, r.stable,
            r.ever, r.seen \cup NamesOf(b.items), r.yielded)
  BY IsListingFields DEF Parts, Idle, WithBatch
<1> HIDE DEF s
<1>2. Rest(r) = <<>> /\ Rest(s) = b.items
  BY <1>1 DEF Rest, Parts, ListingOk, OneBatch
<1>3. r.buffer = <<>> /\ r.pc = "open" /\ r.iter # "none"
  BY DEF ListingOk, OneBatch
<1>4. ErrItem \notin ToSet(r.yielded) /\ r.seen = NamesOf(r.yielded)
  BY <1>2, <1>3, Emptied DEF ListingOk, ErrorEnds, NothingTwice
<1>5. ToSet(r.yielded) \cap ToSet(b.items) = {}
  <2> SUFFICES ASSUME NEW x \in ToSet(r.yielded), x \in ToSet(b.items) PROVE FALSE
    OBVIOUS
  <2>1. x.ok \in NamesOf(r.yielded) /\ x.ok \in NamesOf(b.items)
    BY <1>4 DEF NamesOf
  <2> QED BY <1>4, <2>1 DEF BatchOk
<1>6. IsListing(s)
  BY <1>1 DEF Parts, ListingOk, IsListing, BatchOk
<1>7. OneBatch(s)
  BY <1>1, <1>3 DEF Parts, OneBatch, BatchOk
<1>8. NothingTwice(s)
  BY <1>1, <1>2, <1>4, <1>5 DEF Parts, ListingOk, NothingTwice, BatchOk
<1>9. ErrorEnds(s)
  BY <1>1, <1>2, <1>3, <1>4 DEF Parts, ListingOk, ErrorEnds, BatchOk
<1>10. EndIsComplete(s)
  BY <1>1, <1>2, <1>3 DEF Parts, ListingOk, EndIsComplete, BatchOk
<1>11. Gathered(s, macos)
  BY <1>1, <1>3 DEF Parts, ListingOk, Gathered
<1> QED BY <1>0, <1>6, <1>7, <1>8, <1>9, <1>10, <1>11 DEF s, ListingOk

Taken(r) == [r EXCEPT !.fut = "none", !.buffer = r.batch, !.batch = <<>>,
                      !.built = IF inner.macos THEN AddNames(@, r.batch) ELSE @]

LEMMA TakenOk ==
    ASSUME NEW r, ListingOk(r, inner.macos), r.fut = "ready"
    PROVE  /\ ListingOk(Taken(r), inner.macos) /\ Taken(r).pc = "open" /\ Taken(r).fut = "none"
           /\ Taken(r).buffer = <<>> => Taken(r).iter = "eos"
           /\ Taken(r).stamp = r.stamp
<1> DEFINE macos == inner.macos
           built == IF macos THEN AddNames(r.built, r.batch) ELSE r.built
           s == Taken(r)
<1>0. IsSeq(r.built) /\ IsSeq(r.batch) /\ r.buffer = <<>> /\ r.pc = "open" /\ r.iter # "none"
  BY DEF ListingOk, IsListing, OneBatch
<1>1. Parts(s, r.pc, r.dir, r.iter, "none", <<>>, r.batch, built, r.stable, r.ever, r.seen,
            r.yielded)
  BY IsListingFields DEF Parts, Idle, Taken
<1>2. IsSeq(built) /\ (macos => ToSet(built) = ToSet(r.built) \cup (DotNames \cap NamesOf(r.batch)))
  BY <1>0, AddNamesIs
<1>6. s.stamp = r.stamp
  BY IsListingFields DEF Taken
<1> HIDE DEF s, built, macos
<1>3. Rest(s) = Rest(r) /\ Rest(r) = r.batch
  BY <1>1 DEF Rest, Parts
<1>4. ListingOk(s, macos)
  <2>1. IsListing(s)
    BY <1>1, <1>2, Emptied DEF Parts, ListingOk, IsListing
  <2>2. OneBatch(s)
    BY <1>1 DEF Parts, OneBatch
  <2>3. NothingTwice(s) /\ ErrorEnds(s) /\ EndIsComplete(s)
    BY <1>0, <1>1, <1>3 DEF Parts, ListingOk, NothingTwice, ErrorEnds, EndIsComplete
  <2>4. Gathered(s, macos)
    <3>1. macos => ToSet(r.built) = DotNames \cap NamesOf(r.yielded)
      BY <1>0, Emptied DEF ListingOk, Gathered, macos
    <3> QED BY <1>0, <1>1, <1>2, <3>1 DEF Parts, Gathered
  <2> QED BY <2>1, <2>2, <2>3, <2>4 DEF ListingOk
<1>5. s.pc = "open" /\ s.fut = "none" /\ (s.buffer = <<>> => s.iter = "eos")
  BY <1>0, <1>1 DEF Parts, ListingOk, OneBatch
<1> QED BY <1>4, <1>5, <1>6 DEF s, macos

LEMMA PoppedOk ==
    ASSUME NEW r, ListingOk(r, inner.macos), r.pc = "open", r.fut = "none",
           r.buffer = <<>> => r.iter = "eos"
    PROVE  ListingOk(Popped(r), inner.macos)
<1> DEFINE s == Popped(r)
           h == Head(r.buffer)
           y == Append(r.yielded, h)
           t == Tail(r.buffer)
<1>0. Rest(r) = r.buffer /\ r.batch = <<>> /\ IsSeq(r.buffer) /\ IsSeq(r.yielded)
  BY DEF Rest, ListingOk, OneBatch, IsListing
<1>1. CASE r.buffer = <<>>
  <2> DEFINE over == IF inner.macos THEN "finish" ELSE "ended"
  <2>1. Parts(s, over, r.dir, "none", r.fut, r.batch, r.buffer, r.built, r.stable, r.ever,
              r.seen, r.yielded)
    BY <1>1, IsListingFields DEF Parts, Idle, Popped
  <2>2. r.iter = "eos" /\ over \in {"finish", "ended"} /\ (over = "finish" => inner.macos)
    BY <1>1
  <2>3. ErrItem \notin ToSet(r.yielded) /\ r.stable \subseteq r.seen
    BY <2>2 DEF ListingOk, ErrorEnds, EndIsComplete
  <2> HIDE DEF s, over
  <2>4. Rest(s) = <<>> /\ Rest(r) = <<>>
    BY <1>0, <1>1, <2>1 DEF Rest, Parts
  <2>5. IsListing(s) /\ OneBatch(s) /\ NothingTwice(s)
    BY <1>0, <1>1, <2>1, <2>2, <2>4 DEF Parts, ListingOk, IsListing, OneBatch, NothingTwice
  <2>6. ErrorEnds(s) /\ EndIsComplete(s) /\ Gathered(s, inner.macos)
    BY <1>0, <1>1, <2>1, <2>2, <2>3, <2>4, Emptied
       DEF Parts, ListingOk, ErrorEnds, EndIsComplete, Gathered
  <2> QED BY <2>5, <2>6 DEF s, ListingOk
<1>2. CASE r.buffer # <<>>
  <2> DEFINE iter == IF h = ErrItem THEN "none" ELSE r.iter
  <2>1. Parts(s, r.pc, r.dir, iter, r.fut, r.batch, t, r.built, r.stable, r.ever, r.seen, y)
    <3>1. CASE h = ErrItem
      BY <1>2, <3>1, IsListingFields DEF Parts, Idle, Popped
    <3>2. CASE h # ErrItem
      BY <1>2, <3>2, IsListingFields DEF Parts, Idle, Popped
    <3> QED BY <3>1, <3>2
  <2>2. /\ IsSeq(t) /\ ToSet(r.buffer) = ToSet(t) \cup {h}
        /\ Once(t) /\ h \notin ToSet(t) /\ ErrorLast(t) /\ (h = ErrItem => t = <<>>)
    BY <1>0, <1>2, OneLess DEF ListingOk, NothingTwice, ErrorEnds
  <2>3. h \notin ToSet(r.yielded) /\ ErrItem \notin ToSet(r.yielded)
        /\ ToSet(r.yielded) \cap ToSet(t) = {}
    BY <1>0, <1>2, <2>2 DEF ListingOk, NothingTwice, ErrorEnds
  <2>4. IsSeq(y) /\ ToSet(y) = ToSet(r.yielded) \cup {h} /\ Once(y) /\ ErrorLast(y)
    BY <1>0, <2>3, AppendSeq, OneMore DEF ListingOk, NothingTwice
  <2>5. NamesOf(r.yielded) \cup NamesOf(r.buffer) = NamesOf(y) \cup NamesOf(t)
    <3> DEFINE N == IF h = ErrItem THEN {} ELSE {h.ok}
    <3> HIDE DEF y, t, h
    <3>1. NamesOf(r.buffer) = NamesOf(t) \cup N
      BY <2>2, NamesOfJoined DEF N
    <3>2. NamesOf(y) = NamesOf(r.yielded) \cup N
      BY <2>4, NamesOfJoined DEF N
    <3> QED BY <3>1, <3>2
  <2>6. h = ErrItem => r.iter = "some"
    BY <1>0, <2>2 DEF ListingOk, ErrorEnds
  <2> HIDE DEF s, y, t, h
  <2>7. Rest(s) = t
    BY <2>1 DEF Rest, Parts
  <2>8. IsListing(s) /\ OneBatch(s)
    BY <1>0, <2>1, <2>2, <2>4 DEF Parts, ListingOk, IsListing, OneBatch
  <2>9. NothingTwice(s)
    BY <1>0, <2>1, <2>2, <2>3, <2>4, <2>5, <2>7 DEF Parts, ListingOk, NothingTwice
  <2>10. ErrorEnds(s)
    BY <1>0, <2>1, <2>2, <2>3, <2>4, <2>6, <2>7 DEF Parts, ListingOk, ErrorEnds
  <2>11. EndIsComplete(s) /\ Gathered(s, inner.macos)
    BY <1>0, <2>1, <2>5, <2>6, <2>7 DEF Parts, ListingOk, EndIsComplete, Gathered
  <2> QED BY <2>8, <2>9, <2>10, <2>11 DEF s, ListingOk
<1> QED BY <1>1, <1>2

-----------------------------------------------------------------------------
(* What a lookup in any case gives is a path, whatever the cache of names  *)
(* holds.                                                                  *)

Spelled(c) ==
    IsSeq(c) /\ Keyed(c) /\ \A e \in ToSet(c) : IsSeq(e.val) /\ e.key = LowerPath(e.val)

LEMMA InsertSpelled ==
    ASSUME NEW c, Spelled(c), NEW p, IsSeq(p), NameEntries \in Nat
    PROVE  Spelled(Insert(c, p))
<1> DEFINE k == LowerPath(p)
           b == PutEntry(c, k, p, NameEntries)
<1>1. IsSeq(c) /\ Keyed(c)
  BY DEF Spelled
<1>2. IsSeq(b) /\ Keyed(b) /\ ToSet(b) \subseteq ToSet(c) \cup {[key |-> k, val |-> p]}
  <2> HIDE DEF k
  <2> QED BY <1>1, PutKeeps
<1> HIDE DEF b
<1>3. Spelled(b)
  BY <1>2 DEF Spelled
<1> QED BY <1>3 DEF Insert, b

LEMMA PeekSpelled ==
    ASSUME NEW c, Spelled(c), NEW k, Has(c, k)
    PROVE  /\ IsSeq(Peek(c, k)) /\ k = LowerPath(Peek(c, k))
           /\ Spelled(Use(c, k)) /\ Spelled(Pop(c, k))
<1> DEFINE v == Peek(c, k)
           a == Pop(c, k)
           b == Append(a, [key |-> k, val |-> v])
<1>1. IsSeq(c) /\ Keyed(c)
  BY DEF Spelled
<1>2. IsSeq(v) /\ k = LowerPath(v)
  <2>1. c[IndexOf(c, k)] \in ToSet(c) /\ c[IndexOf(c, k)].key = k
    BY <1>1, IndexOfIs, IsSeqFacts
  <2> QED BY <2>1 DEF Peek, Spelled
<1>3. IsSeq(a) /\ Keyed(a) /\ ~Has(a, k) /\ ToSet(a) \subseteq ToSet(c)
  BY <1>1, PopKeeps
<1> HIDE DEF a, v
<1>4. IsSeq(b) /\ Keyed(b) /\ ToSet(b) = ToSet(a) \cup {[key |-> k, val |-> v]}
  BY <1>3, AppendKeeps, AppendSeq
<1>5. Spelled(a) /\ Spelled(b)
  BY <1>2, <1>3, <1>4 DEF Spelled
<1> QED BY <1>2, <1>5 DEF Use, a, v

LEMMA GetSpelled ==
    ASSUME NEW c, Spelled(c), NEW p, IsSeq(p), NEW d
    PROVE  /\ IsSeq(Get(c, d, p).path) /\ Spelled(Get(c, d, p).cache)
           /\ LowerPath(Get(c, d, p).path) = LowerPath(p)
           /\ Get(c, d, p).hit => Exists(d, Get(c, d, p).path)
BY PeekSpelled DEF Get

LEMMA LookupSpelled ==
    ASSUME NEW d, NEW dir, IsSeq(dir), NEW seg, NEW quick
    PROVE  IsSeq(Lookup(d, dir, seg, quick).path)
<1>1. \A n : IsSeq(Append(dir, n))
  BY AppendSeq
<1> QED BY <1>1 DEF Lookup

LEMMA InParentSpelled ==
    ASSUME NEW c, Spelled(c), NEW d, NEW dir, IsSeq(dir), NEW seg, NameEntries \in Nat
    PROVE  IsSeq(InParent(c, d, dir, seg).path) /\ Spelled(InParent(c, d, dir, seg).cache)
<1>1. IsSeq(Lookup(d, dir, seg, TRUE).path)
  BY LookupSpelled
<1> QED BY <1>1, InsertSpelled DEF InParent, Found

LEMMA FrontSpelled ==
    ASSUME NEW s, IsSeq(s)
    PROVE  IsSeq(Front(s))
<1>1. s \in Seq(ToSet(s)) /\ Len(s) \in Nat /\ \A i \in 1..Len(s) : s[i] \in ToSet(s)
  BY IsSeqFacts DEF IsSeq
<1>2. SubSeq(s, 1, Len(s) - 1) \in Seq(ToSet(s))
  BY <1>1, SubSeqProperties
<1> QED BY <1>2, SeqIsSeq DEF Front

\* The walk from the base: what is known after i segments
WalkStep(d, segs, i, r) ==
    IF r.stop THEN [r EXCEPT !.path = Append(@, segs[i])]
    ELSE [path |-> Lookup(d, r.path, segs[i], FALSE).path,
          stop |-> Lookup(d, r.path, segs[i], FALSE).stop,
          cache |-> IF i = Len(segs) THEN Insert(r.cache, r.path) ELSE r.cache]

IsWalk(step, c, d, base, segs) ==
    /\ step[0] = [path |-> base, stop |-> FALSE, cache |-> c]
    /\ \A i \in 1..Len(segs) : step[i] = WalkStep(d, segs, i, step[i - 1])
    /\ \A i \in 0..Len(segs) :
         /\ DOMAIN step[i] = {"path", "stop", "cache"}
         /\ IsSeq(step[i].path) /\ step[i].stop \in BOOLEAN /\ Spelled(step[i].cache)

LEMMA FromBaseWalks ==
    ASSUME NEW c, Spelled(c), NEW d, NEW base, IsSeq(base), NEW segs, IsSeq(segs),
           NameEntries \in Nat
    PROVE  \E step : /\ IsWalk(step, c, d, base, segs)
                     /\ FromBase(c, d, base, segs) =
                           Found(step[Len(segs)].path,
                                 IF step[Len(segs)].stop THEN step[Len(segs)].cache
                                 ELSE Insert(step[Len(segs)].cache, step[Len(segs)].path))
<1> DEFINE n == Len(segs)
           N == ToSet(base) \cup ToSet(segs) \cup {Last(q) : q \in DOMAIN d}
           R == ToSet(c) \cup {[key |-> LowerPath(p), val |-> p] : p \in Seq(N)}
           C == {x \in Seq(R) : Keyed(x)}
           S == [path : Seq(N), stop : BOOLEAN, cache : C]
           Go1(i, r) ==
               IF r.stop THEN [r EXCEPT !.path = Append(@, segs[i])]
               ELSE [path |-> Lookup(d, r.path, segs[i], FALSE).path,
                     stop |-> Lookup(d, r.path, segs[i], FALSE).stop,
                     cache |-> IF i = n THEN Insert(r.cache, r.path) ELSE r.cache]
           a == [path |-> base, stop |-> FALSE, cache |-> c]
           F == [p \in (1..n) \X S |-> Go1(p[1], p[2])]
           G(f) == [i \in 0..n |-> IF i = 0 THEN a ELSE Go1(i, f[i - 1])]
<1>1. n \in Nat /\ \A i \in 1..n : segs[i] \in N
  BY IsSeqFacts
<1>2. a \in S
  <2>1. base \in Seq(N) /\ c \in C
    BY SeqMonotonic DEF IsSeq, Spelled
  <2> HIDE DEF N, C
  <2> QED BY <2>1
<1>3. ASSUME NEW p \in Seq(N), NEW seg \in N
      PROVE  /\ Lookup(d, p, seg, FALSE).path \in Seq(N)
             /\ Lookup(d, p, seg, FALSE).stop \in BOOLEAN
  <2> DEFINE variants == IF Canonical(d, p).err # "" THEN {}
                         ELSE {x \in NamesIn(d, Canonical(d, p).path) : Lower(x) = Lower(seg)}
             v == CHOOSE x \in variants : TRUE
  <2>1. variants # {} => v \in N
    <3>1. variants # {} => v \in variants
      <4> HIDE DEF variants
      <4> QED OBVIOUS
    <3>2. variants \subseteq N
      BY DEF NamesIn
    <3> HIDE DEF variants
    <3> QED BY <3>1, <3>2
  <2> HIDE DEF N, v, variants
  <2>2. Append(p, seg) \in Seq(N) /\ (variants # {} => Append(p, v) \in Seq(N))
    BY <2>1
  <2>3. Append(p, seg) \in Seq(N)
    BY <2>2
  <2>4. CASE variants = {}
    BY <2>3, <2>4 DEF Lookup, variants
  <2>5. CASE variants # {}
    BY <2>2, <2>5 DEF Lookup, variants, v
  <2> QED BY <2>4, <2>5
<1>4. ASSUME NEW x \in C, NEW p \in Seq(N) PROVE Insert(x, p) \in C
  <2> DEFINE k == LowerPath(p)
             b == PutEntry(x, k, p, NameEntries)
  <2>1. IsSeq(x) /\ ToSet(x) \subseteq R /\ Keyed(x)
    <3> HIDE DEF R
    <3> QED BY SeqIsSeq
  <2>2. IsSeq(b) /\ Keyed(b) /\ ToSet(b) \subseteq ToSet(x) \cup {[key |-> k, val |-> p]}
    <3> HIDE DEF k
    <3> QED BY <2>1, PutKeeps
  <2>3. [key |-> k, val |-> p] \in R
    <3> HIDE DEF N
    <3> QED OBVIOUS
  <2> HIDE DEF b, R, k
  <2>4. ToSet(b) \subseteq R
    BY <2>1, <2>2, <2>3
  <2>5. b \in Seq(R)
    BY <2>2, <2>4, SeqMonotonic DEF IsSeq
  <2> QED BY <2>2, <2>5 DEF b, k, Insert
<1> HIDE DEF C, R, N, n
<1>5. ASSUME NEW i \in 1..n, NEW r \in S PROVE Go1(i, r) \in S
  <2>1. r.path \in Seq(N) /\ r.stop \in BOOLEAN /\ r.cache \in C /\ segs[i] \in N
    BY <1>1
  <2>2. CASE r.stop
    <3>1. Append(r.path, segs[i]) \in Seq(N)
      BY <2>1
    <3> QED BY <2>2, <3>1
  <2>3. CASE ~r.stop
    <3>1. /\ Lookup(d, r.path, segs[i], FALSE).path \in Seq(N)
          /\ Lookup(d, r.path, segs[i], FALSE).stop \in BOOLEAN
          /\ Insert(r.cache, r.path) \in C
      BY <1>3, <1>4, <2>1
    <3> QED BY <2>1, <2>3, <3>1
  <2> QED BY <2>1, <2>2, <2>3
<1> HIDE DEF S, Go1, a
<1>6. F \in [(1..n) \X S -> S]
  BY <1>5
<1>7. PICK g : Iterates(g, n, S, a, F)
  <2> HIDE DEF F
  <2> QED BY <1>1, <1>2, <1>6, Recursion
<1>8. g \in [0..n -> S] /\ g[0] = a
  <2> HIDE DEF F
  <2> QED BY <1>7 DEF Iterates
<1>9. g = G(g)
  <2> DEFINE B(i) == IF i = 0 THEN a ELSE Go1(i, g[i - 1])
  <2>1. ASSUME NEW i \in 0..n PROVE g[i] = B(i)
    <3>1. i = 0 \/ (i \in 1..n /\ i - 1 \in 0..n)
      BY <1>1
    <3>2. ASSUME i \in 1..n PROVE g[i] = F[<<i, g[i - 1]>>]
      <4> HIDE DEF F
      <4> QED BY <1>7, <3>2 DEF Iterates
    <3>3. ASSUME i \in 1..n, i - 1 \in 0..n PROVE <<i, g[i - 1]>> \in (1..n) \X S
      BY <1>8, <3>3
    <3> QED BY <1>1, <1>8, <3>1, <3>2, <3>3
  <2>2. g = [i \in 0..n |-> B(i)]
    <3> HIDE DEF B
    <3> QED BY <1>8, <2>1
  <2> QED BY <2>2
<1> DEFINE step == CHOOSE step : step = G(step)
<1>10. step = G(step)
  <2> HIDE DEF G
  <2> QED BY <1>9
<1>11. FromBase(c, d, base, segs) =
         Found(step[n].path, IF step[n].stop THEN step[n].cache
                             ELSE Insert(step[n].cache, step[n].path))
  BY DEF FromBase, n, a, Go1
<1> HIDE DEF step
<1>12. step[0] = a /\ \A i \in 1..n : step[i] = Go1(i, step[i - 1])
  <2>1. \A i \in 0..n : step[i] = G(step)[i]
    <3> HIDE DEF G
    <3> QED BY <1>10
  <2> QED BY <1>1, <2>1
<1> DEFINE T == {i \in Nat : i <= n => step[i] \in S}
<1>13. 0 \in T
  BY <1>2, <1>12
<1>14. ASSUME NEW i \in T \cap Nat PROVE i + 1 \in T
  <2>1. SUFFICES ASSUME i + 1 <= n PROVE step[i + 1] \in S
    OBVIOUS
  <2>2. i + 1 \in 1..n /\ i <= n /\ (i + 1) - 1 = i
    BY <1>1, <2>1
  <2>3. step[i] \in S /\ step[i + 1] = Go1(i + 1, step[i])
    BY <1>12, <2>2
  <2> HIDE DEF T
  <2> QED BY <1>5, <2>2, <2>3
<1>15. \A i \in 0..n : step[i] \in S
  <2>1. Nat \subseteq T
    <3> HIDE DEF T
    <3> QED BY <1>13, <1>14, Induction
  <2> QED BY <1>1, <2>1
<1>16. ASSUME NEW x \in C PROVE Spelled(x)
  <2>1. IsSeq(x) /\ ToSet(x) \subseteq R /\ Keyed(x)
    BY SeqIsSeq DEF C
  <2>2. ASSUME NEW e \in R PROVE IsSeq(e.val) /\ e.key = LowerPath(e.val)
    BY SeqIsSeq DEF R, Spelled
  <2> QED BY <2>1, <2>2 DEF Spelled
<1>17. ASSUME NEW i \in 0..n
       PROVE  /\ DOMAIN step[i] = {"path", "stop", "cache"}
              /\ IsSeq(step[i].path) /\ step[i].stop \in BOOLEAN /\ Spelled(step[i].cache)
  <2>1. step[i] \in [path : Seq(N), stop : BOOLEAN, cache : C]
    BY <1>15 DEF S
  <2> QED BY <1>16, <2>1, SeqIsSeq
<1>18. \A i \in 1..n : step[i] = WalkStep(d, segs, i, step[i - 1])
  BY <1>12 DEF Go1, WalkStep, n
<1>19. IsWalk(step, c, d, base, segs)
  BY <1>12, <1>17, <1>18 DEF IsWalk, a, n
<1> QED BY <1>11, <1>19 DEF n

LEMMA FromBaseSpelled ==
    ASSUME NEW c, Spelled(c), NEW d, NEW base, IsSeq(base), NEW segs, IsSeq(segs),
           NameEntries \in Nat
    PROVE  IsSeq(FromBase(c, d, base, segs).path) /\ Spelled(FromBase(c, d, base, segs).cache)
<1> DEFINE n == Len(segs)
<1>1. PICK step : /\ IsWalk(step, c, d, base, segs)
                  /\ FromBase(c, d, base, segs) =
                        Found(step[n].path, IF step[n].stop THEN step[n].cache
                                            ELSE Insert(step[n].cache, step[n].path))
  BY FromBaseWalks
<1>2. n \in 0..n
  BY IsSeqFacts
<1>3. IsSeq(step[n].path) /\ Spelled(step[n].cache)
  BY <1>1, <1>2 DEF IsWalk
<1>4. Spelled(Insert(step[n].cache, step[n].path))
  BY <1>3, InsertSpelled
<1> QED BY <1>1, <1>3, <1>4 DEF Found

LEMMA ResolveSpelled ==
    ASSUME NEW c, Spelled(c), NEW d, NEW base, IsSeq(base), NEW segs, IsSeq(segs),
           NameEntries \in Nat
    PROVE  IsSeq(Resolve(c, d, base, segs).path) /\ Spelled(Resolve(c, d, base, segs).cache)
<1> DEFINE full   == base \o segs
           got    == Get(c, d, full)
           parent == Front(full)
           up     == Get(got.cache, d, parent)
           r      == Resolve(c, d, base, segs)
<1>1. IsSeq(full) /\ IsSeq(parent)
  BY JoinedSeqs, FrontSpelled
<1> HIDE DEF full, parent
<1>2. IsSeq(got.path) /\ Spelled(got.cache)
  BY <1>1, GetSpelled
<1> HIDE DEF got
<1>3. IsSeq(up.path) /\ Spelled(up.cache)
  BY <1>1, <1>2, GetSpelled
<1> HIDE DEF up
<1>4. Spelled(Insert(up.cache, parent))
  BY <1>1, <1>3, InsertSpelled
<1>5. \/ r = Found(got.path, got.cache)
      \/ r = Found(full, got.cache)
      \/ r = InParent(got.cache, d, parent, Last(segs))
      \/ r = InParent(up.cache, d, up.path, Last(segs))
      \/ r = InParent(Insert(up.cache, parent), d, parent, Last(segs))
      \/ r = FromBase(up.cache, d, base, segs)
  <2>1. segs = <<>> \/ Len(segs) = 1 \/ Len(segs) > 1
    <3>1. segs \in Seq(ToSet(segs)) /\ Len(segs) \in Nat
      BY IsSeqFacts DEF IsSeq
    <3>2. Len(segs) = 0 => segs = <<>>
      BY <3>1, EmptySeq
    <3> QED BY <3>1, <3>2
  <2>2. CASE got.hit
    BY <2>2 DEF Resolve, got, full
  <2>3. CASE ~got.hit /\ (Exists(d, full) \/ segs = <<>>)
    BY <2>3 DEF Resolve, got, full
  <2>4. CASE ~got.hit /\ ~Exists(d, full) /\ segs # <<>> /\ Len(segs) = 1
    BY <2>4 DEF Resolve, got, full, parent
  <2>5. CASE ~got.hit /\ ~Exists(d, full) /\ segs # <<>> /\ Len(segs) > 1
    BY <2>5 DEF Resolve, got, full, parent, up
  <2> QED BY <2>1, <2>2, <2>3, <2>4, <2>5
<1> HIDE DEF r
<1>6. IsSeq(r.path) /\ Spelled(r.cache)
  BY <1>1, <1>2, <1>3, <1>4, <1>5, InParentSpelled, FromBaseSpelled DEF Found
<1> QED BY <1>6 DEF r

LEMMA fspathSpelled ==
    ASSUME NEW c, Spelled(c), NEW d, NEW segs, IsSeq(segs), IsSeq(Base), NameEntries \in Nat
    PROVE  IsSeq(fspath(c, d, segs).path) /\ Spelled(fspath(c, d, segs).cache)
BY ResolveSpelled, JoinedSeqs DEF fspath, Found

-----------------------------------------------------------------------------
(* The cache of directories.                                               *)

LEMMA KeysDiffer ==
    ASSUME NEW d, IsSeq(d), NEW e, IsSeq(e), NEW x, NEW y, Append(d, x) = Append(e, y)
    PROVE  d = e /\ x = y
<1> DEFINE S == ToSet(d) \cup ToSet(e) \cup {x, y}
<1>1. d \in Seq(S) /\ e \in Seq(S) /\ x \in S /\ y \in S
  BY SeqMonotonic DEF IsSeq
<1> HIDE DEF S
<1> QED BY <1>1, AppendInjective

LEMMA Longer ==
    ASSUME NEW d, IsSeq(d), NEW x
    PROVE  Append(d, x) # d
<1>1. Len(Append(d, x)) = Len(d) + 1 /\ Len(d) \in Nat
  BY AppendSeq
<1> QED BY <1>1

\* The entry of a directory that was listed stands before those of its files, unless it is one of a
\* file itself.
KnowsDirs(c, fin) ==
    \A d \in Dirs : \A i \in DOMAIN c : c[i].key = Mark(d) =>
        LET id == c[i].val.id
        IN  /\ id \in DOMAIN fin
            /\ fin[id].dir = d => Knows(c, Mark(d), id, {Append(d, n) : n \in fin[id].names})

\* fin2 is fin without the file at p.
TakenIn(fin2, fin, p) ==
    \A id \in DOMAIN fin :
        /\ fin2[id].dir = fin[id].dir
        /\ fin2[id].names = {n \in fin[id].names : Append(fin[id].dir, n) # p}

LEMMA TakenIs ==
    ASSUME NEW fin, NEW p, \A id \in DOMAIN fin : {"dir", "names"} \subseteq DOMAIN fin[id]
    PROVE  LET fin2 == TakenForDir(fin, p)
           IN  /\ DOMAIN fin2 = DOMAIN fin /\ TakenIn(fin2, fin, p)
               /\ \A id \in DOMAIN fin : {"dir", "names"} \subseteq DOMAIN fin2[id]
<1> DEFINE fin2 == TakenForDir(fin, p)
           left(id) == {n \in fin[id].names : Append(fin[id].dir, n) # p}
<1>1. fin2 = [id \in DOMAIN fin |-> [fin[id] EXCEPT !.names = left(id)]]
  BY DEF TakenForDir
<1>2. ASSUME NEW id \in DOMAIN fin
      PROVE  /\ fin2[id].dir = fin[id].dir /\ fin2[id].names = left(id)
             /\ {"dir", "names"} \subseteq DOMAIN fin2[id]
  <2> DEFINE f == fin[id]
  <2>1. {"dir", "names"} \subseteq DOMAIN f
    OBVIOUS
  <2> HIDE DEF fin2, left, f
  <2>2. fin2[id] = [f EXCEPT !.names = left(id)]
    BY <1>1 DEF f
  <2> QED BY <2>1, <2>2 DEF f
<1>3. DOMAIN fin2 = DOMAIN fin
  BY <1>1
<1> QED BY <1>2, <1>3 DEF TakenIn

DirsAreSeqs == /\ DirEntries \in Nat
               /\ \A d \in Dirs : IsSeq(d)

LEMMA DirsAre == DirsAreSeqs /\ BatchSize \in Nat \ {0}
BY DirCacheAssumption DEF DirsAreSeqs, IsSeq

LEMMA KeysOf ==
    ASSUME NEW d, IsSeq(d), NEW built, IsSeq(built)
    PROVE  LET keys == <<Mark(d)>> \o FilesOf(d, built)
           IN  /\ IsSeq(keys) /\ Len(keys) = Len(built) + 1 /\ Len(built) \in Nat
               /\ keys[1] = Mark(d)
               /\ \A i \in 2..Len(keys) : \E n \in ToSet(built) : keys[i] = Append(d, n)
               /\ {keys[i] : i \in 2..Len(keys)} = {Append(d, n) : n \in ToSet(built)}
<1> DEFINE x == <<Mark(d)>>
           y == FilesOf(d, built)
           keys == x \o y
           Y == {Append(d, n) : n \in ToSet(built)}
           n == Len(built)
<1>1. n \in Nat /\ DOMAIN built = 1..n /\ ToSet(built) = {built[i] : i \in 1..n}
      /\ \A i \in 1..n : built[i] \in ToSet(built)
  BY IsSeqFacts DEF ToSet
<1>2. y \in Seq(Y) /\ Len(y) = n /\ \A i \in 1..n : y[i] = Append(d, built[i])
  <2>1. y = [i \in 1..n |-> Append(d, built[i])]
    BY <1>1 DEF FilesOf
  <2> HIDE DEF n, y
  <2>2. y \in [1..n -> Y]
    BY <1>1, <2>1
  <2>3. y \in Seq(Y) /\ DOMAIN y = 1..n
    <3> HIDE DEF Y
    <3> QED BY <1>1, <2>2
  <2>4. Len(y) \in Nat /\ DOMAIN y = 1..Len(y)
    <3> HIDE DEF Y
    <3> QED BY <2>3
  <2>5. Len(y) = n
    BY <1>1, <2>3, <2>4
  <2> QED BY <2>1, <2>3, <2>5
<1>3. x \in Seq({Mark(d)}) /\ Len(x) = 1 /\ x[1] = Mark(d)
  OBVIOUS
<1>4. IsSeq(x) /\ IsSeq(y)
  <2> HIDE DEF x, y, Y
  <2> QED BY <1>2, <1>3, SeqIsSeq
<1> HIDE DEF n, x, y
<1>5. IsSeq(keys)
  BY <1>4, JoinedSeqs
<1>6. Len(keys) = n + 1 /\ keys[1] = Mark(d) /\ \A i \in 2..n + 1 : keys[i] = y[i - 1]
  <2> DEFINE S == ToSet(x) \cup ToSet(y)
  <2>1. x \in Seq(S) /\ y \in Seq(S)
    BY <1>4, JoinedSeqs
  <2> HIDE DEF S
  <2>2. Len(keys) = Len(x) + Len(y)
        /\ \A i \in 1..Len(x) + Len(y) : keys[i] = IF i <= Len(x) THEN x[i] ELSE y[i - Len(x)]
    BY <2>1, ConcatProperties
  <2>3. Len(x) = 1 /\ Len(y) = n /\ x[1] = Mark(d) /\ n \in Nat
    BY <1>1, <1>2, <1>3
  <2> HIDE DEF keys
  <2>4. Len(keys) = n + 1
    BY <2>2, <2>3
  <2>5. keys[1] = Mark(d)
    BY <2>2, <2>3
  <2>6. ASSUME NEW i \in 2..n + 1 PROVE keys[i] = y[i - 1]
    <3>1. i \in 1..Len(x) + Len(y) /\ ~(i <= Len(x))
      BY <2>3
    <3> QED BY <2>2, <2>3, <3>1
  <2> QED BY <2>4, <2>5, <2>6
<1> HIDE DEF keys
<1>7. ASSUME NEW i \in 2..n + 1
      PROVE  i - 1 \in 1..n /\ keys[i] = Append(d, built[i - 1])
  <2>1. i - 1 \in 1..n
    BY <1>1
  <2> QED BY <1>2, <1>6, <2>1
<1>8. \A i \in 2..n + 1 : \E m \in ToSet(built) : keys[i] = Append(d, m)
  BY <1>1, <1>7
<1>9. {keys[i] : i \in 2..n + 1} = Y
  <2>1. ASSUME NEW m \in ToSet(built) PROVE \E i \in 2..n + 1 : keys[i] = Append(d, m)
    <3>1. PICK j \in DOMAIN built : built[j] = m
      BY DEF ToSet
    <3>0. j \in 1..n
      BY <1>1
    <3>2. j + 1 \in 2..n + 1 /\ (j + 1) - 1 = j
      <4>1. n \in Nat
        BY <1>1
      <4> HIDE DEF n
      <4> QED BY <3>0, <4>1
    <3> QED BY <1>7, <3>1, <3>2
  <2> QED BY <1>8, <2>1
<1> QED BY <1>1, <1>5, <1>6, <1>8, <1>9 DEF keys, n, x, y

LEMMA StoredKnows ==
    ASSUME NEW c, IsSeq(c), Keyed(c), NEW fin, KnowsDirs(c, fin),
           NEW d \in Dirs, NEW built, IsSeq(built),
           NEW stamp, stamp.id \notin DOMAIN fin,
           NEW fin2, DOMAIN fin2 = DOMAIN fin \cup {stamp.id},
           fin2[stamp.id].dir = d, fin2[stamp.id].names = ToSet(built),
           TakenIn(fin2, fin, d)
    PROVE  LET b == Stored(c, d, built, stamp)
           IN  IsSeq(b) /\ Keyed(b) /\ KnowsDirs(b, fin2)
<1> DEFINE b == Stored(c, d, built, stamp)
           keys == <<Mark(d)>> \o FilesOf(d, built)
           n == Len(keys)
<1>1. DirEntries \in Nat /\ \A e \in Dirs : IsSeq(e)
  BY DirsAre DEF DirsAreSeqs
<1>2. /\ IsSeq(keys) /\ n = Len(built) + 1 /\ Len(built) \in Nat
      /\ keys[1] = Mark(d)
      /\ \A i \in 2..n : \E x \in ToSet(built) : keys[i] = Append(d, x)
      /\ {keys[i] : i \in 2..n} = {Append(d, x) : x \in ToSet(built)}
  <2>1. IsSeq(d)
    BY <1>1
  <2> QED BY ONLY <2>1, IsSeq(built), KeysOf
<1>3. b = StoreAll(c, keys, stamp)
  BY DEF Stored
<1> HIDE DEF keys, b
<1>4. \A i \in 2..n : keys[i] # keys[1]
  BY <1>1, <1>2, Longer DEF Mark
<1>5. StoredSoFar(b, c, keys, stamp, n)
  BY <1>1, <1>2, <1>3, <1>4, StoreAllIs
<1>6. IsSeq(b) /\ Keyed(b)
  BY <1>5 DEF StoredSoFar
<1>7. Knows(b, Mark(d), stamp.id, {Append(d, x) : x \in ToSet(built)})
  <2>1. n >= 1
    BY <1>2
  <2> HIDE DEF n
  <2> QED BY <1>2, <1>5, <2>1 DEF StoredSoFar
<1>8. ASSUME NEW e \in Dirs, NEW i \in DOMAIN b, b[i].key = Mark(e)
      PROVE  LET id == b[i].val.id
             IN  /\ id \in DOMAIN fin2
                 /\ fin2[id].dir = e =>
                       Knows(b, Mark(e), id, {Append(e, x) : x \in fin2[id].names})
  <2> DEFINE id == b[i].val.id
             Q == {Append(e, x) : x \in fin2[id].names}
  <2>1. CASE id = stamp.id
    <3>1. id \in DOMAIN fin2 /\ fin2[id].dir = d
      BY <2>1
    <3>2. e = d => Knows(b, Mark(e), id, Q)
      BY <1>7, <2>1
    <3> HIDE DEF id, Q
    <3>3. fin2[id].dir = e => Knows(b, Mark(e), id, Q)
      BY <3>1, <3>2
    <3> QED BY <3>1, <3>3 DEF id, Q
  <2>2. CASE id # stamp.id
    <3>1. b[i] \in ToSet(c)
      <4>1. b[i] \in ToSet(c) \cup {[key |-> k, val |-> stamp] : k \in ToSet(keys)}
        BY <1>5, <1>6, IsSeqFacts DEF StoredSoFar
      <4>2. \A k : [key |-> k, val |-> stamp].val = stamp
        OBVIOUS
      <4> QED BY <2>2, <4>1, <4>2
    <3>2. PICK j \in DOMAIN c : c[j] = b[i]
      BY <3>1 DEF ToSet
    <3>3. id \in DOMAIN fin
      BY <1>8, <3>2 DEF KnowsDirs
    <3>4. /\ fin2[id].dir = fin[id].dir
          /\ fin2[id].names = {x \in fin[id].names : Append(fin[id].dir, x) # d}
      BY <3>3 DEF TakenIn
    <3>5. ASSUME fin2[id].dir = e PROVE Knows(b, Mark(e), id, Q)
      <4>1. Knows(c, Mark(e), id, {Append(e, x) : x \in fin[id].names})
        BY <1>8, <3>2, <3>4, <3>5 DEF KnowsDirs
      <4>2. Q \subseteq {Append(e, x) : x \in fin[id].names}
        BY <3>4
      <4> HIDE DEF Q
      <4>3. Knows(c, Mark(e), id, Q)
        BY <4>1, <4>2 DEF Knows
      <4>4. \A k \in 1..n : keys[k] # Mark(e)
        <5> SUFFICES ASSUME NEW k \in 1..n, keys[k] = Mark(e) PROVE FALSE
          OBVIOUS
        <5>1. Knows(b, Mark(e), stamp.id, {})
          BY <1>5 DEF StoredSoFar
        <5> QED BY <1>8, <2>2, <5>1 DEF Knows
      <4>5. e # d
        <5>1. 1 \in 1..n
          BY <1>2
        <5> HIDE DEF n
        <5> QED BY <1>2, <4>4, <5>1
      <4>6. ASSUME NEW k \in 1..n, NEW x \in fin2[id].names PROVE keys[k] # Append(e, x)
        <5>1. CASE k = 1
          BY <1>2, <3>4, <3>5, <5>1 DEF Mark
        <5>2. CASE k # 1
          <6>1. k \in 2..n
            BY <1>2, <5>2
          <6>2. PICK y \in ToSet(built) : keys[k] = Append(d, y)
            BY <1>2, <6>1
          <6>3. IsSeq(d) /\ IsSeq(e)
            BY <1>1
          <6>4. Append(d, y) # Append(e, x)
            BY ONLY <4>5, <6>3, KeysDiffer
          <6> QED BY <6>2, <6>4
        <5> QED BY <5>1, <5>2
      <4>7. \A k \in 1..n : keys[k] # Mark(e) /\ keys[k] \notin Q
        BY <4>4, <4>6 DEF Q
      <4> HIDE DEF id, n
      <4> QED BY <1>5, <4>3, <4>7 DEF StoredSoFar
    <3> HIDE DEF id, Q
    <3> QED BY <3>3, <3>5 DEF id, Q
  <2> QED BY <2>1, <2>2
<1>9. KnowsDirs(b, fin2)
  BY <1>8 DEF KnowsDirs
<1> QED BY <1>6, <1>9 DEF b

\* Entries are dropped from the front, or the one of a path is.
LEMMA SuffixIs ==
    ASSUME NEW c, IsSeq(c), NEW n \in 1..Len(c)
    PROVE  LET b == SubSeq(c, n + 1, Len(c))
           IN  /\ IsSeq(b) /\ ToSet(b) \subseteq ToSet(c) /\ n \in 0..Len(c)
               /\ Len(b) = Len(c) - n /\ DOMAIN b = 1..Len(c) - n /\ Len(c) \in Nat
               /\ \A i \in 1..Len(c) - n : b[i] = c[i + n]
<1> DEFINE b == SubSeq(c, n + 1, Len(c))
           S == ToSet(c)
<1>1. Len(c) \in Nat /\ DOMAIN c = 1..Len(c) /\ \A i \in 1..Len(c) : c[i] \in S
  BY IsSeqFacts
<1> HIDE DEF S
<1>2. b \in Seq(S) /\ Len(b) = Len(c) - n /\ \A i \in 1..Len(c) - n : b[i] = c[i + n]
  <2>1. \A i \in n + 1..Len(c) : c[i] \in S
    BY <1>1
  <2>2. /\ b \in Seq(S)
        /\ Len(b) = IF n + 1 <= Len(c) THEN Len(c) - (n + 1) + 1 ELSE 0
        /\ \A i \in 1..Len(c) - (n + 1) + 1 : b[i] = c[n + 1 + i - 1]
    <3>1. n + 1 \in Int /\ Len(c) \in Int
      BY <1>1
    <3> QED BY <2>1, <3>1, SubSeqProperties
  <2> HIDE DEF b
  <2>3. n + 1 <= Len(c) => Len(b) = Len(c) - n
    BY <1>1, <2>2
  <2>4. ASSUME ~(n + 1 <= Len(c)) PROVE Len(b) = Len(c) - n
    <3>0. Len(c) \in Nat
      BY <1>1
    <3>1. n = Len(c)
      BY ONLY <2>4, <3>0, n \in 1..Len(c)
    <3>2. Len(b) = 0
      BY <2>2, <2>4
    <3> QED BY <1>1, <3>1, <3>2
  <2>5. ASSUME NEW i \in 1..Len(c) - n PROVE b[i] = c[i + n]
    <3>1. i \in 1..Len(c) - (n + 1) + 1 /\ n + 1 + i - 1 = i + n
      BY <1>1
    <3> QED BY <2>2, <3>1
  <2> QED BY <2>2, <2>3, <2>4, <2>5
<1> HIDE DEF b
<1>3. IsSeq(b) /\ DOMAIN b = 1..Len(c) - n /\ ToSet(b) \subseteq S
  BY <1>2, SeqIsSeq
<1>4. n \in 0..Len(c)
  BY <1>1
<1> QED BY <1>1, <1>2, <1>3, <1>4 DEF b, S

LEMMA SuffixKnows ==
    ASSUME NEW c, IsSeq(c), Keyed(c), NEW fin, KnowsDirs(c, fin), NEW n \in 1..Len(c)
    PROVE  LET b == SubSeq(c, n + 1, Len(c))
           IN  IsSeq(b) /\ Keyed(b) /\ KnowsDirs(b, fin)
<1> DEFINE b == SubSeq(c, n + 1, Len(c))
<1>1. /\ IsSeq(b) /\ ToSet(b) \subseteq ToSet(c) /\ n \in 0..Len(c) /\ Len(c) \in Nat
      /\ Len(b) = Len(c) - n /\ DOMAIN b = 1..Len(c) - n /\ DOMAIN c = 1..Len(c)
      /\ \A i \in 1..Len(c) - n : b[i] = c[i + n]
  BY SuffixIs, IsSeqFacts
<1> HIDE DEF b
<1>5. Keyed(b) /\ \A m, id, Q : Knows(c, m, id, Q) => Knows(b, m, id, Q)
  BY <1>1, SuffixKeeps
<1>6. ASSUME NEW d \in Dirs, NEW i \in DOMAIN b, b[i].key = Mark(d)
      PROVE  LET id == b[i].val.id
             IN  /\ id \in DOMAIN fin
                 /\ fin[id].dir = d => Knows(b, Mark(d), id, {Append(d, x) : x \in fin[id].names})
  <2>1. i + n \in DOMAIN c /\ c[i + n] = b[i]
    BY <1>1
  <2> DEFINE id == b[i].val.id
             Q == {Append(d, x) : x \in fin[id].names}
  <2>2. id \in DOMAIN fin /\ (fin[id].dir = d => Knows(c, Mark(d), id, Q))
    BY <1>6, <2>1 DEF KnowsDirs
  <2> HIDE DEF Q, id
  <2>3. fin[id].dir = d => Knows(b, Mark(d), id, Q)
    BY <1>5, <2>2
  <2> QED BY <2>2, <2>3 DEF Q, id
<1>7. KnowsDirs(b, fin)
  BY <1>6 DEF KnowsDirs
<1> QED BY <1>1, <1>5, <1>7 DEF b

LEMMA PopKnows ==
    ASSUME NEW c, IsSeq(c), Keyed(c), NEW fin, KnowsDirs(c, fin), NEW k,
           NEW fin2, DOMAIN fin2 = DOMAIN fin, TakenIn(fin2, fin, k)
    PROVE  IsSeq(Pop(c, k)) /\ Keyed(Pop(c, k)) /\ KnowsDirs(Pop(c, k), fin2)
<1> DEFINE b == Pop(c, k)
<1>1. /\ IsSeq(b) /\ Keyed(b) /\ ToSet(b) \subseteq ToSet(c)
      /\ \A m, id, Q : Knows(c, m, id, Q) => Knows(b, m, id, Q \ {k})
  BY PopKeeps
<1> HIDE DEF b
<1>2. ASSUME NEW d \in Dirs, NEW i \in DOMAIN b, b[i].key = Mark(d)
      PROVE  LET id == b[i].val.id
             IN  /\ id \in DOMAIN fin2
                 /\ fin2[id].dir = d =>
                       Knows(b, Mark(d), id, {Append(d, x) : x \in fin2[id].names})
  <2>1. PICK j \in DOMAIN c : c[j] = b[i]
    <3>1. b[i] \in ToSet(c)
      BY <1>1, IsSeqFacts
    <3> QED BY <3>1 DEF ToSet
  <2> DEFINE id == b[i].val.id
             R == {Append(d, x) : x \in fin[id].names}
             Q == {Append(d, x) : x \in fin2[id].names}
  <2>2. id \in DOMAIN fin /\ (fin[id].dir = d => Knows(c, Mark(d), id, R))
    BY <1>2, <2>1 DEF KnowsDirs
  <2>3. fin2[id].dir = fin[id].dir /\ (fin[id].dir = d => Q \subseteq R \ {k})
    BY <2>2 DEF TakenIn
  <2> HIDE DEF Q, R, id
  <2>4. ASSUME fin[id].dir = d PROVE Knows(b, Mark(d), id, Q)
    <3>1. Knows(b, Mark(d), id, R \ {k})
      BY <1>1, <2>2, <2>4
    <3> QED BY <2>3, <2>4, <3>1 DEF Knows
  <2> QED BY <2>2, <2>3, <2>4 DEF Q, id
<1>3. KnowsDirs(b, fin2)
  BY <1>2 DEF KnowsDirs
<1> QED BY <1>1, <1>3 DEF b

-----------------------------------------------------------------------------
(* The inductive invariant.                                                *)

CallsOk == setup \in Setups /\ Spelled(names)

Looking == {"peek", "stat", "stale", "look"}

TasksOk ==
    /\ DOMAIN task = Clients
    /\ \A c \in Clients : /\ "pc" \in DOMAIN task[c]
                          /\ task[c].pc \in Looking => "at" \in DOMAIN task[c] /\ IsSeq(task[c].at)

ListingsOk ==
    /\ DOMAIN listing = Listings
    /\ \A l \in Listings : ListingOk(listing[l], inner.macos)

CacheOk ==
    /\ IsSeq(du_cache) /\ Keyed(du_cache) /\ KnowsDirs(du_cache, finished)
    /\ dir_id \in Nat
    /\ \A id \in DOMAIN finished :
          id \in Nat /\ id < dir_id /\ {"dir", "names"} \subseteq DOMAIN finished[id]

\* The ids of listings that are about to be kept are fresh, and different.
Stamped(r) == r.pc # "ended" /\ r.stamp # <<>>

StampsOk ==
    \A l \in Listings : Stamped(listing[l]) =>
        /\ listing[l].stamp[1] \in Nat /\ listing[l].stamp[1] < dir_id
        /\ listing[l].stamp[1] \notin DOMAIN finished
        /\ \A m \in Listings : Stamped(listing[m]) /\ m # l =>
              listing[m].stamp[1] # listing[l].stamp[1]

CacheInv == CallsOk /\ TasksOk /\ ListingsOk /\ CacheOk /\ StampsOk

LEMMA CacheInvInit == Init => CacheInv
<1> SUFFICES ASSUME Init PROVE CacheInv
  OBVIOUS
<1>1. /\ setup \in Setups /\ du_cache = <<>> /\ dir_id = 1 /\ names = <<>> /\ finished = <<>>
      /\ listing = [l \in Listings |-> Idle] /\ task = [c \in Clients |-> Resting(0)]
  BY DEF Init, DirInit
<1>2. DOMAIN <<>> = {} /\ Keyed(<<>>) /\ IsSeq(<<>>) /\ ToSet(<<>>) = {}
  <2>1. DOMAIN <<>> = {}
    OBVIOUS
  <2> QED BY <2>1, Emptied DEF Keyed
<1>3. CallsOk
  BY <1>1, <1>2 DEF CallsOk, Spelled
<1>4. TasksOk
  BY <1>1 DEF TasksOk, Resting, Looking
<1>5. ListingsOk
  BY <1>1, IdleOk DEF ListingsOk
<1>6. CacheOk
  BY <1>1, <1>2 DEF CacheOk, KnowsDirs
<1>7. StampsOk
  <2>1. \A l \in Listings : listing[l].stamp = <<>>
    BY <1>1 DEF Idle
  <2> QED BY <2>1 DEF StampsOk, Stamped
<1> QED BY <1>3, <1>4, <1>5, <1>6, <1>7 DEF CacheInv

-----------------------------------------------------------------------------
(* Steps of the calls.                                                     *)

\* Nothing but the disk, its times and what the listings might still see.
LEMMA ChangeKeeps ==
    ASSUME CacheInv, NEW new, Change(new), UNCHANGED <<inner, du_cache, dir_id, finished>>
    PROVE  ListingsOk' /\ CacheOk' /\ StampsOk'
<1> DEFINE N(l) == NamesIn(new, listing[l].dir)
           next(r, M) == [r EXCEPT !.stable = @ \cap M, !.ever = @ \cup M]
<1>1. listing' = [l \in Listings |-> IF listing[l].pc # "open" THEN listing[l]
                                     ELSE next(listing[l], N(l))]
  BY DEF Change
<1> HIDE DEF N
<1>2. ListingsOk
  BY DEF CacheInv
<1>3. ASSUME NEW l \in Listings
      PROVE  /\ ListingOk(listing'[l], inner.macos)
             /\ listing'[l].pc = listing[l].pc /\ listing'[l].stamp = listing[l].stamp
  <2>1. ListingOk(listing[l], inner.macos)
    BY <1>2 DEF ListingsOk
  <2>2. CASE listing[l].pc # "open"
    <3>1. listing'[l] = listing[l]
      BY <1>1, <2>2
    <3> QED BY <2>1, <3>1
  <2>3. CASE listing[l].pc = "open"
    <3> DEFINE r == listing[l]
    <3>1. listing'[l] = next(r, N(l))
      BY <1>1, <2>3
    <3>2. ListingOk(r, inner.macos) /\ r.pc = "open"
      BY <2>1, <2>3
    <3> HIDE DEF r
    <3>3. ListingOk(next(r, N(l)), inner.macos)
      BY <3>2, ChangedOk
    <3>4. next(r, N(l)).pc = r.pc /\ next(r, N(l)).stamp = r.stamp
      BY <3>2, IsListingFields
    <3> HIDE DEF next
    <3> QED BY <3>1, <3>3, <3>4 DEF r
  <2> QED BY <2>2, <2>3
<1>4. ListingsOk'
  <2>1. DOMAIN listing' = Listings
    BY <1>1
  <2> QED BY <1>3, <2>1 DEF ListingsOk
<1>5. CacheOk'
  BY DEF CacheInv, CacheOk, KnowsDirs
<1>6. StampsOk'
  <2> HIDE DEF next
  <2>1. \A l \in Listings : Stamped(listing'[l]) <=> Stamped(listing[l])
    BY <1>3 DEF Stamped
  <2> QED BY <1>3, <2>1 DEF CacheInv, StampsOk
<1> QED BY <1>4, <1>5, <1>6

LEMMA StepKeeps ==
    ASSUME CacheInv, NEW c \in Clients, NEW new, NEW next, Step(c, new, next),
           "pc" \in DOMAIN next, next.pc \notin Looking
    PROVE  CacheInv'
<1>1. Change(new) /\ UNCHANGED <<inner, setup, du_cache, dir_id, finished, names>>
  BY DEF Step
<1>2. ListingsOk' /\ CacheOk' /\ StampsOk'
  BY <1>1, ChangeKeeps
<1>3. CallsOk'
  BY <1>1 DEF CacheInv, CallsOk
<1>4. TasksOk'
  <2> DEFINE later(t) == [t EXCEPT !.quiet = @ /\ new = disk, !.there = @ /\ Exists(new, t.at)]
  <2>1. task' = [x \in Clients |-> IF x = c THEN next ELSE IF Busy(x) THEN later(task[x])
                                   ELSE task[x]]
    BY DEF Step
  <2>2. ASSUME NEW t
        PROVE  /\ DOMAIN later(t) = DOMAIN t
               /\ "pc" \in DOMAIN t => later(t).pc = t.pc
               /\ "at" \in DOMAIN t => later(t).at = t.at
    OBVIOUS
  <2> HIDE DEF later
  <2>3. ASSUME NEW x \in Clients
        PROVE  /\ "pc" \in DOMAIN task'[x]
               /\ task'[x].pc \in Looking => "at" \in DOMAIN task'[x] /\ IsSeq(task'[x].at)
    BY <2>1, <2>2 DEF CacheInv, TasksOk
  <2>4. DOMAIN task' = Clients
    BY <2>1
  <2> QED BY <2>3, <2>4 DEF TasksOk
<1> QED BY <1>2, <1>3, <1>4 DEF CacheInv

\* Only a task changes, and perhaps a cache.
LEMMA GoesKeeps ==
    ASSUME CacheInv, NEW c \in Clients, NEW next, Goes(c, next),
           "pc" \in DOMAIN next,
           next.pc \in Looking => "at" \in DOMAIN next /\ IsSeq(next.at)
    PROVE  /\ TasksOk' /\ ListingsOk' /\ StampsOk'
           /\ UNCHANGED names => CallsOk'
           /\ UNCHANGED du_cache => CacheOk'
<1>1. task' = [task EXCEPT ![c] = next] /\ UNCHANGED <<inner, setup, listing, dir_id, finished>>
  BY DEF Goes
<1>2. TasksOk'
  <2>1. DOMAIN task' = Clients /\ \A x \in Clients : task'[x] = IF x = c THEN next ELSE task[x]
    BY <1>1 DEF CacheInv, TasksOk
  <2> QED BY <2>1 DEF CacheInv, TasksOk
<1>3. ListingsOk'
  BY <1>1 DEF CacheInv, ListingsOk
<1>4. StampsOk'
  BY <1>1 DEF CacheInv, StampsOk
<1>5. UNCHANGED names => CallsOk'
  BY <1>1 DEF CacheInv, CallsOk
<1>6. UNCHANGED du_cache => CacheOk'
  BY <1>1 DEF CacheInv, CacheOk, KnowsDirs
<1> QED BY <1>2, <1>3, <1>4, <1>5, <1>6

LEMMA FinishesKeeps ==
    ASSUME CacheInv, NEW c \in Clients, NEW r, Finishes(c, r)
    PROVE  CacheInv'
<1> DEFINE next == Told(c, FsErrorOf(r.err))
<1>1. "pc" \in DOMAIN next /\ next.pc \notin Looking
  BY DEF Told, Looking
<1>2. Step(c, r.disk, next)
  BY DEF Finishes
<1> HIDE DEF next
<1> QED BY <1>1, <1>2, StepKeeps

LEMMA CallKeeps ==
    ASSUME CacheInv, NEW c \in Clients, NEW call \in setup.calls,
           CallByName(c, call) \/ Call(c, call)
    PROVE  CacheInv'
<1>1. CASE CallByName(c, call)
  <2> DEFINE ok == [Told(c, "") EXCEPT !.made = @ + 1]
             no == [Told(c, "Forbidden") EXCEPT !.made = @ + 1]
  <2>1. /\ "pc" \in DOMAIN ok /\ ok.pc \notin Looking
        /\ "pc" \in DOMAIN no /\ no.pc \notin Looking
    BY DEF Told, Looking
  <2>2. (Goes(c, ok) \/ Goes(c, no)) /\ UNCHANGED <<names, du_cache>>
    BY <1>1 DEF CallByName
  <2> HIDE DEF ok, no
  <2> QED BY <2>1, <2>2, GoesKeeps DEF CacheInv
<1>2. CASE Call(c, call)
  <2> DEFINE from == fspath(names, disk, call.path)
             to   == IF call.op \in OfTwoPaths THEN fspath(from.cache, disk, call.to) ELSE from
             next == [pc |-> Asks(call, from.path), made |-> task[c].made + 1, call |-> call,
                      at |-> from.path, to |-> to.path, entry |-> <<>>,
                      before |-> disk, quiet |-> TRUE, there |-> Exists(disk, from.path)]
  <2>1. Goes(c, next) /\ names' = to.cache /\ UNCHANGED du_cache
    BY <1>2 DEF Call
  <2>2. /\ IsSeq(call.path) /\ IsSeq(Base) /\ NameEntries \in Nat
        /\ call.op \in OfTwoPaths => IsSeq(call.to)
    BY LocalFsAssumption DEF CacheInv, CallsOk, IsSeq
  <2>3. IsSeq(from.path) /\ Spelled(from.cache)
    BY <2>2, fspathSpelled DEF CacheInv, CallsOk
  <2>4. Spelled(to.cache)
    <3> HIDE DEF from
    <3> QED BY <2>2, <2>3, fspathSpelled
  <2>5. "pc" \in DOMAIN next /\ "at" \in DOMAIN next /\ next.at = from.path
    <3> HIDE DEF from, to
    <3> QED OBVIOUS
  <2> HIDE DEF next, to, from
  <2>6. TasksOk' /\ ListingsOk' /\ StampsOk' /\ CacheOk'
    BY <2>1, <2>3, <2>5, GoesKeeps
  <2>7. CallsOk'
    BY <2>1, <2>4 DEF Goes, CacheInv, CallsOk
  <2> QED BY <2>6, <2>7 DEF CacheInv
<1> QED BY <1>1, <1>2

LEMMA NegativeKeeps ==
    ASSUME CacheInv, NEW c \in Clients,
           NegativePeek(c) \/ NegativeStat(c) \/ NegativeStale(c) \/ NegativeLook(c)
    PROVE  CacheInv'
<1> DEFINE t == task[c]
<1>1. "pc" \in DOMAIN t /\ t.pc \in Looking /\ "at" \in DOMAIN t /\ IsSeq(t.at)
  BY DEF NegativePeek, NegativeStat, NegativeStale, NegativeLook, CacheInv, TasksOk, Looking
<1> HIDE DEF t
<1>2. ASSUME NEW s, NEW e
      PROVE  /\ DOMAIN [t EXCEPT !.pc = s] = DOMAIN t /\ [t EXCEPT !.pc = s].at = t.at
             /\ DOMAIN [t EXCEPT !.pc = s, !.entry = e] = DOMAIN t
             /\ [t EXCEPT !.pc = s, !.entry = e].at = t.at
  BY <1>1
<1>3. ASSUME NEW e PROVE "pc" \in DOMAIN Told(c, e) /\ Told(c, e).pc \notin Looking
  BY DEF Told, Looking
<1>4. CASE NegativePeek(c)
  <2>1. PICK s, e : Goes(c, [t EXCEPT !.pc = s, !.entry = e]) \/ Goes(c, [t EXCEPT !.pc = s])
    BY <1>4 DEF NegativePeek, t
  <2>2. UNCHANGED <<names, du_cache>>
    BY <1>4 DEF NegativePeek
  <2> QED BY <1>1, <1>2, <2>1, <2>2, GoesKeeps DEF CacheInv
<1>5. CASE NegativeStat(c)
  <2>1. PICK s : Goes(c, [t EXCEPT !.pc = s])
    BY <1>5 DEF NegativeStat, t
  <2>2. UNCHANGED <<names, du_cache>>
    BY <1>5 DEF NegativeStat
  <2> QED BY <1>1, <1>2, <2>1, <2>2, GoesKeeps DEF CacheInv
<1>6. CASE NegativeLook(c)
  <2>1. Goes(c, Told(c, "NotFound")) \/ Goes(c, [t EXCEPT !.pc = "run"])
    BY <1>6 DEF NegativeLook, t
  <2>2. UNCHANGED <<names, du_cache>>
    BY <1>6 DEF NegativeLook
  <2> QED BY <1>1, <1>2, <1>3, <2>1, <2>2, GoesKeeps DEF CacheInv
<1>7. CASE NegativeStale(c)
  <2> DEFINE k == Mark(Front(t.at))
  <2>1. /\ task' = [task EXCEPT ![c] = [t EXCEPT !.pc = "run"]]
        /\ du_cache' = Pop(du_cache, k) /\ finished' = TakenForDir(finished, k)
        /\ UNCHANGED <<inner, setup, listing, dir_id, names>>
    BY <1>7 DEF NegativeStale, t, CacheInv, TasksOk
  <2> HIDE DEF k
  <2>2. /\ IsSeq(du_cache) /\ Keyed(du_cache) /\ KnowsDirs(du_cache, finished)
        /\ \A id \in DOMAIN finished : {"dir", "names"} \subseteq DOMAIN finished[id]
    BY DEF CacheInv, CacheOk
  <2>3. /\ DOMAIN finished' = DOMAIN finished /\ TakenIn(finished', finished, k)
        /\ \A id \in DOMAIN finished : {"dir", "names"} \subseteq DOMAIN finished'[id]
    BY <2>1, <2>2, TakenIs
  <2>4. IsSeq(du_cache') /\ Keyed(du_cache') /\ KnowsDirs(du_cache', finished')
    <3> DEFINE fin2 == finished'
    <3>1. DOMAIN fin2 = DOMAIN finished /\ TakenIn(fin2, finished, k)
      BY <2>3
    <3> HIDE DEF fin2
    <3>2. IsSeq(Pop(du_cache, k)) /\ Keyed(Pop(du_cache, k)) /\ KnowsDirs(Pop(du_cache, k), fin2)
      BY <2>2, <3>1, PopKnows
    <3> QED BY <2>1, <3>2 DEF fin2
  <2>5. CacheOk'
    BY <2>1, <2>3, <2>4 DEF CacheInv, CacheOk
  <2>6. TasksOk'
    <3>1. DOMAIN task' = Clients
          /\ \A x \in Clients : task'[x] = IF x = c THEN [t EXCEPT !.pc = "run"] ELSE task[x]
      BY <2>1 DEF CacheInv, TasksOk
    <3> QED BY <1>1, <1>2, <3>1 DEF CacheInv, TasksOk
  <2>7. StampsOk'
    BY <2>1, <2>3 DEF CacheInv, StampsOk
  <2>8. CallsOk' /\ ListingsOk'
    BY <2>1 DEF CacheInv, CallsOk, ListingsOk
  <2> QED BY <2>5, <2>6, <2>7, <2>8 DEF CacheInv
<1> QED BY <1>4, <1>5, <1>6, <1>7

LEMMA AdvanceKeeps ==
    ASSUME CacheInv, NEW c \in Clients, Advance(c)
    PROVE  CacheInv'
<1>1. CASE NegativePeek(c) \/ NegativeStat(c) \/ NegativeStale(c) \/ NegativeLook(c)
  BY <1>1, NegativeKeeps
<1>2. CASE NeverThere(c)
  <2>1. "pc" \in DOMAIN Told(c, "NotFound") /\ Told(c, "NotFound").pc \notin Looking
    BY DEF Told, Looking
  <2> QED BY <1>2, <2>1, GoesKeeps DEF NeverThere, CacheInv
<1>3. CASE \/ GetMetadata(c) \/ SymlinkMetadata(c) \/ Open(c) \/ Write(c) \/ CreateDir(c)
           \/ MarkSidecar(c) \/ RemoveDir(c) \/ RemoveFile(c) \/ Copy(c) \/ RenameAgain(c)
           \/ FailsByItself(c) \/ CopyBreaksOff(c)
  <2>1. \E r : Finishes(c, r)
    BY <1>3 DEF GetMetadata, SymlinkMetadata, Open, Write, CreateDir, MarkSidecar, RemoveDir,
                RemoveFile, Copy, RenameAgain, FailsByItself, CopyBreaksOff
  <2> QED BY <2>1, FinishesKeeps
<1>4. CASE SetModified(c)
  <2> DEFINE next == Told(c, FsErrorOf(DoSetModified(disk, task[c].at).err))
  <2>1. task' = [task EXCEPT ![c] = next]
        /\ UNCHANGED <<inner, setup, listing, dir_id, finished, names, du_cache>>
    BY <1>4 DEF SetModified
  <2>2. "pc" \in DOMAIN next /\ next.pc \notin Looking
    BY DEF Told, Looking
  <2> HIDE DEF next
  <2>3. TasksOk'
    <3>1. DOMAIN task' = Clients /\ \A x \in Clients : task'[x] = IF x = c THEN next ELSE task[x]
      BY <2>1 DEF CacheInv, TasksOk
    <3> QED BY <2>2, <3>1 DEF CacheInv, TasksOk
  <2> QED BY <2>1, <2>3 DEF CacheInv, CallsOk, ListingsOk, CacheOk, KnowsDirs, StampsOk
<1>5. CASE RenameFirst(c) \/ RenameClear(c)
  <2>1. (\E r : Finishes(c, r))
        \/ \E new, x, y : Step(c, new, [task[c] EXCEPT !.pc = "clear", !.at = x, !.to = y])
        \/ \E e : Step(c, e, [task[c] EXCEPT !.pc = "again"])
    BY <1>5 DEF RenameFirst, RenameClear
  <2>2. "pc" \in DOMAIN task[c]
    BY DEF CacheInv, TasksOk
  <2>3. ASSUME NEW x, NEW y
        PROVE  LET a == [task[c] EXCEPT !.pc = "clear", !.at = x, !.to = y]
                   b == [task[c] EXCEPT !.pc = "again"]
               IN  /\ "pc" \in DOMAIN a /\ a.pc \notin Looking
                   /\ "pc" \in DOMAIN b /\ b.pc \notin Looking
    BY <2>2 DEF Looking
  <2> QED BY <2>1, <2>3, StepKeeps, FinishesKeeps
<1> QED BY <1>1, <1>2, <1>3, <1>4, <1>5 DEF Advance

-----------------------------------------------------------------------------
(* Steps of the listings.                                                  *)

\* One listing goes on.
LEMMA ListingKeeps ==
    ASSUME CacheInv, NEW l \in Listings, NEW s, ListingOk(s, inner.macos),
           listing' = [listing EXCEPT ![l] = s],
           UNCHANGED <<inner, setup, names, task, du_cache, dir_id, finished>>,
           Stamped(s) => s.stamp = listing[l].stamp /\ Stamped(listing[l])
    PROVE  CacheInv'
<1>1. DOMAIN listing' = Listings /\ \A m \in Listings : listing'[m] = IF m = l THEN s ELSE listing[m]
  BY DEF CacheInv, ListingsOk
<1>2. ListingsOk'
  BY <1>1 DEF CacheInv, ListingsOk
<1>3. StampsOk'
  <2>1. \A m \in Listings : Stamped(listing'[m]) =>
           Stamped(listing[m]) /\ listing'[m].stamp = listing[m].stamp
    BY <1>1
  <2> QED BY <2>1 DEF CacheInv, StampsOk
<1> QED BY <1>2, <1>3 DEF CacheInv, CallsOk, TasksOk, CacheOk, KnowsDirs

LEMMA PollKeeps ==
    ASSUME CacheInv, NEW l \in Listings, UNCHANGED <<setup, names, task>>,
           PollStart(l) \/ PollBuffered(l) \/ PollReady(l) \/ PollFused(l) \/ ReadBatch(l)
           \/ \E d \in Dirs : ReadDir(l, d)
    PROVE  CacheInv'
<1> DEFINE r == listing[l]
<1>1. ListingOk(r, inner.macos)
  BY DEF CacheInv, ListingsOk
<1>2. UNCHANGED <<inner, setup, names, task, du_cache, dir_id, finished>>
  BY DEF PollStart, PollBuffered, PollReady, PollFused, ReadBatch, ReadDir
<1>3. ASSUME NEW s, listing' = [listing EXCEPT ![l] = s], ListingOk(s, inner.macos),
             s.stamp = r.stamp, s.pc # "ended" => r.pc # "ended"
      PROVE  CacheInv'
  BY <1>2, <1>3, ListingKeeps DEF Stamped
<1>4. listing' = [listing EXCEPT ![l] = listing'[l]]
      /\ (PollStart(l) => listing'[l] = [r EXCEPT !.fut = "running"])
      /\ (PollFused(l) => listing'[l] = [r EXCEPT !.pc = "ended"])
      /\ (PollBuffered(l) => listing'[l] = Popped(r))
  BY DEF PollStart, PollFused, PollBuffered, PollReady, ReadBatch, ReadDir, CacheInv, ListingsOk
<1> DEFINE s == listing'[l]
<1> HIDE DEF r
<1>5. ASSUME NEW x, ListingOk(x, inner.macos), x.pc = "open"
      PROVE  Popped(x).stamp = x.stamp
  BY <1>5, IsListingFields DEF Popped
<1>6. CASE PollStart(l)
  <2>1. r.pc = "open" /\ r.buffer = <<>> /\ r.fut = "none" /\ r.iter # "none"
        /\ s = [r EXCEPT !.fut = "running"]
    BY <1>4, <1>6 DEF PollStart, r
  <2>2. ListingOk(s, inner.macos) /\ s.stamp = r.stamp
    BY <1>1, <2>1, StartedOk, IsListingFields
  <2> HIDE DEF s
  <2> QED BY <1>3, <1>4, <2>1, <2>2 DEF s
<1>7. CASE PollFused(l)
  <2>1. r.pc = "open" /\ r.buffer = <<>> /\ r.fut = "none" /\ r.iter = "none"
        /\ s = [r EXCEPT !.pc = "ended"]
    BY <1>4, <1>7 DEF PollFused, r
  <2>2. ListingOk(s, inner.macos) /\ s.stamp = r.stamp
    BY <1>1, <2>1, OverOk, IsListingFields
  <2> HIDE DEF s
  <2> QED BY <1>3, <1>4, <2>1, <2>2 DEF s
<1>8. CASE PollBuffered(l)
  <2>1. r.pc = "open" /\ r.buffer # <<>> /\ s = Popped(r)
    BY <1>4, <1>8 DEF PollBuffered, r
  <2>2. r.fut = "none"
    BY <1>1, <2>1 DEF ListingOk, OneBatch
  <2>3. ListingOk(s, inner.macos) /\ s.stamp = r.stamp
    BY <1>1, <1>5, <2>1, <2>2, PoppedOk
  <2> HIDE DEF s
  <2> QED BY <1>3, <1>4, <2>1, <2>3 DEF s
<1>9. CASE PollReady(l)
  <2> DEFINE taken == Taken(r)
  <2>1. r.fut = "ready" /\ s = Popped(taken)
    BY <1>9 DEF PollReady, Taken, r, CacheInv, ListingsOk
  <2>2. /\ ListingOk(taken, inner.macos) /\ taken.pc = "open" /\ taken.fut = "none"
        /\ taken.buffer = <<>> => taken.iter = "eos"
    BY <1>1, <2>1, TakenOk
  <2>3. taken.stamp = r.stamp /\ r.pc = "open"
    BY <1>1, <2>1, TakenOk DEF ListingOk, OneBatch
  <2> HIDE DEF taken
  <2>4. ListingOk(s, inner.macos) /\ s.stamp = r.stamp
    BY <1>5, <2>1, <2>2, <2>3, PoppedOk
  <2> HIDE DEF s
  <2> QED BY <1>3, <1>4, <2>3, <2>4 DEF s
<1>10. CASE ReadBatch(l)
  <2>1. PICK b \in Batches(r) : s = WithBatch(r, b)
    <3>1. PICK b \in Batches(r) :
             listing' = [listing EXCEPT ![l].fut = "ready", ![l].batch = b.items,
                                        ![l].iter = b.iter, ![l].seen = @ \cup NamesOf(b.items)]
      BY <1>10 DEF ReadBatch, r
    <3>2. DOMAIN listing = Listings
      BY DEF CacheInv, ListingsOk
    <3>3. listing'[l] = WithBatch(r, b)
      BY <3>1, <3>2 DEF r, WithBatch
    <3> QED BY <3>3
  <2>2. r.fut = "running" /\ BatchOk(b, r)
    BY <1>10, BatchesOk, DirsAre DEF ReadBatch, r
  <2>3. ListingOk(s, inner.macos)
    BY <1>1, <2>1, <2>2, ReadOk
  <2>4. s.stamp = r.stamp /\ r.pc = "open"
    BY <1>1, <2>1, <2>2, ReadOk DEF ListingOk, OneBatch
  <2> HIDE DEF s
  <2> QED BY <1>3, <1>4, <2>3, <2>4 DEF s
<1>11. CASE \E d \in Dirs : ReadDir(l, d)
  <2>0. PICK d \in Dirs : \E N : s = Opened(d, N)
    BY <1>11 DEF ReadDir, Opened, CacheInv, ListingsOk
  <2>1. PICK N : s = Opened(d, N)
    BY <2>0
  <2>2. ListingOk(s, inner.macos)
    BY <2>1, OpenedOk
  <2>3. ~Stamped(s)
    BY <2>1 DEF Stamped, Idle, Opened
  <2> HIDE DEF s
  <2> QED BY <1>2, <1>4, <2>2, <2>3, ListingKeeps DEF s
<1> QED BY <1>6, <1>7, <1>8, <1>9, <1>10, <1>11

LEMMA FinishStampKeeps ==
    ASSUME CacheInv, NEW l \in Listings, UNCHANGED <<setup, names, task>>, FinishStamp(l)
    PROVE  CacheInv'
<1> DEFINE r == listing[l]
<1>1. ListingOk(r, inner.macos) /\ r.pc = "finish" /\ r.stamp = <<>>
      /\ UNCHANGED <<inner, setup, names, task, du_cache, finished>>
  BY DEF FinishStamp, CacheInv, ListingsOk
<1> DEFINE stamp == <<dir_id, mtime[r.dir]>>
<1>2. CASE listing' = [listing EXCEPT ![l].stamp = stamp] /\ dir_id' = dir_id + 1
  <2> DEFINE s == [r EXCEPT !.stamp = stamp]
  <2>1. listing' = [listing EXCEPT ![l] = s] /\ dir_id' = dir_id + 1
    BY <1>2
  <2>2. ListingOk(s, inner.macos) /\ s.stamp = stamp
    <3> HIDE DEF r, stamp
    <3> QED BY <1>1, TimedOk, IsListingFields
  <2>3. stamp[1] = dir_id /\ dir_id \in Nat
    BY DEF CacheInv, CacheOk
  <2> HIDE DEF s, stamp, r
  <2>4. DOMAIN listing' = Listings
        /\ \A m \in Listings : listing'[m] = IF m = l THEN s ELSE listing[m]
    BY <2>1 DEF CacheInv, ListingsOk
  <2>5. ListingsOk'
    BY <1>1, <2>2, <2>4 DEF CacheInv, ListingsOk
  <2>6. CacheOk'
    <3>1. \A id \in DOMAIN finished :
             id \in Nat /\ id < dir_id /\ {"dir", "names"} \subseteq DOMAIN finished[id]
      BY DEF CacheInv, CacheOk
    <3>2. \A id \in DOMAIN finished : id < dir_id + 1
      BY <2>3, <3>1
    <3>3. KnowsDirs(du_cache, finished)'
      BY <1>1 DEF CacheInv, CacheOk, KnowsDirs
    <3> QED BY <1>1, <2>1, <2>3, <3>1, <3>2, <3>3 DEF CacheInv, CacheOk
  <2>7. StampsOk'
    <3>1. \A id \in DOMAIN finished : id \in Nat /\ id < dir_id
      BY DEF CacheInv, CacheOk
    <3>2. \A m \in Listings : Stamped(listing[m]) =>
             /\ listing[m].stamp[1] \in Nat /\ listing[m].stamp[1] < dir_id
             /\ listing[m].stamp[1] \notin DOMAIN finished
             /\ \A x \in Listings : Stamped(listing[x]) /\ x # m =>
                   listing[x].stamp[1] # listing[m].stamp[1]
      BY DEF CacheInv, StampsOk
    <3>3. ASSUME NEW m \in Listings, Stamped(listing'[m])
          PROVE  /\ listing'[m].stamp[1] \in Nat /\ listing'[m].stamp[1] < dir_id'
                 /\ listing'[m].stamp[1] \notin DOMAIN finished
                 /\ \A x \in Listings : Stamped(listing'[x]) /\ x # m =>
                       listing'[x].stamp[1] # listing'[m].stamp[1]
      BY <2>1, <2>2, <2>3, <2>4, <3>1, <3>2, <3>3
    <3> QED BY <1>1, <3>3 DEF StampsOk
  <2> QED BY <1>1, <2>5, <2>6, <2>7 DEF CacheInv, CallsOk, TasksOk
<1>3. CASE listing' = [listing EXCEPT ![l].pc = "ended"] /\ UNCHANGED dir_id
  <2> DEFINE s == [r EXCEPT !.pc = "ended"]
  <2>1. listing' = [listing EXCEPT ![l] = s] /\ UNCHANGED dir_id
    BY <1>3
  <2> HIDE DEF r
  <2>2. ListingOk(s, inner.macos) /\ s.pc = "ended"
    BY <1>1, OverOk, IsListingFields
  <2> HIDE DEF s
  <2> QED BY <1>1, <2>1, <2>2, ListingKeeps DEF Stamped
<1> QED BY <1>2, <1>3 DEF FinishStamp

LEMMA FinishStoreKeeps ==
    ASSUME CacheInv, NEW l \in Listings, UNCHANGED <<setup, names, task>>, FinishStore(l)
    PROVE  CacheInv'
<1> DEFINE r == listing[l]
           stamp == [id |-> r.stamp[1], mtime |-> r.stamp[2]]
           kept == [dir |-> r.dir, names |-> ToSet(r.built) \cup (r.stable \cap DotNames)]
           others == TakenForDir(finished, Mark(r.dir))
           s == [r EXCEPT !.pc = "ended"]
<1>1. /\ ListingOk(r, inner.macos) /\ r.pc = "finish" /\ r.stamp # <<>>
      /\ listing' = [listing EXCEPT ![l] = s]
      /\ UNCHANGED <<inner, setup, names, task, dir_id>>
      /\ du_cache' = Stored(du_cache, r.dir, r.built, stamp)
      /\ finished' = [id \in DOMAIN finished \cup {stamp.id} |->
                         IF id = stamp.id THEN kept ELSE others[id]]
  BY DEF FinishStore, CacheInv, ListingsOk
<1> HIDE DEF r
<1>2. ListingOk(s, inner.macos) /\ s.pc = "ended"
  BY <1>1, OverOk, IsListingFields
<1>3. stamp.id = r.stamp[1] /\ Stamped(r)
  BY <1>1 DEF Stamped
<1>4. /\ stamp.id \in Nat /\ stamp.id < dir_id /\ stamp.id \notin DOMAIN finished
      /\ \A m \in Listings : Stamped(listing[m]) /\ m # l => listing[m].stamp[1] # stamp.id
  BY <1>3 DEF CacheInv, StampsOk, r
<1>5. kept.names = ToSet(r.built) /\ kept.dir = r.dir /\ {"dir", "names"} \subseteq DOMAIN kept
      /\ IsSeq(r.built) /\ r.dir \in Dirs
  <2>1. inner.macos /\ ErrItem \notin ToSet(r.yielded) /\ Rest(r) = <<>> /\ r.fut = "none"
    BY <1>1 DEF ListingOk, Gathered, EndIsComplete
  <2>2. r.stable \subseteq r.seen /\ r.seen = NamesOf(r.yielded) /\ r.buffer = <<>>
    BY <1>1, <2>1, Emptied DEF ListingOk, EndIsComplete, NothingTwice, Rest
  <2>3. ToSet(r.built) = DotNames \cap NamesOf(r.yielded)
    BY <1>1, <2>1, <2>2, Emptied DEF ListingOk, Gathered
  <2>4. IsSeq(r.built) /\ r.dir \in Dirs
    BY <1>1 DEF ListingOk, IsListing
  <2> QED BY <2>2, <2>3, <2>4
<1>7. /\ IsSeq(du_cache) /\ Keyed(du_cache) /\ KnowsDirs(du_cache, finished) /\ dir_id \in Nat
      /\ \A id \in DOMAIN finished : id \in Nat /\ id < dir_id /\ {"dir", "names"} \subseteq DOMAIN finished[id]
  BY DEF CacheInv, CacheOk
<1>0. /\ TakenIn(others, finished, r.dir)
      /\ \A id \in DOMAIN finished : {"dir", "names"} \subseteq DOMAIN others[id]
  BY <1>7, TakenIs DEF Mark
<1> HIDE DEF s, stamp, kept, others
<1>6. /\ DOMAIN finished' = DOMAIN finished \cup {stamp.id} /\ finished'[stamp.id] = kept
      /\ \A id \in DOMAIN finished : finished'[id] = others[id]
  BY <1>1, <1>4
<1>8. IsSeq(du_cache') /\ Keyed(du_cache') /\ KnowsDirs(du_cache', finished')
  <2>1. TakenIn(finished', finished, r.dir)
    BY <1>0, <1>6 DEF TakenIn
  <2>2. finished'[stamp.id].names = ToSet(r.built) /\ finished'[stamp.id].dir = r.dir
    BY <1>5, <1>6
  <2>3. r.dir \in Dirs /\ IsSeq(r.built)
    BY <1>5
  <2>4. stamp.id \notin DOMAIN finished
    BY <1>4
  <2>5. IsSeq(du_cache) /\ Keyed(du_cache) /\ KnowsDirs(du_cache, finished)
    BY <1>7
  <2> DEFINE b == Stored(du_cache, r.dir, r.built, stamp)
             fin2 == finished'
  <2>6. IsSeq(b) /\ Keyed(b) /\ KnowsDirs(b, fin2)
    <3>1. DOMAIN fin2 = DOMAIN finished \cup {stamp.id} /\ fin2[stamp.id].names = ToSet(r.built)
          /\ fin2[stamp.id].dir = r.dir /\ TakenIn(fin2, finished, r.dir)
      BY <1>6, <2>1, <2>2
    <3> HIDE DEF fin2
    <3> QED BY ONLY <2>3, <2>4, <2>5, <3>1, StoredKnows
  <2> QED BY <1>1, <2>6
<1>9. CacheOk'
  <2>1. \A id \in DOMAIN finished' :
           id \in Nat /\ id < dir_id /\ {"dir", "names"} \subseteq DOMAIN finished'[id]
    BY <1>0, <1>4, <1>5, <1>6, <1>7
  <2> QED BY <1>1, <1>7, <1>8, <2>1 DEF CacheOk
<1>10. DOMAIN listing' = Listings /\ \A m \in Listings : listing'[m] = IF m = l THEN s ELSE listing[m]
  BY <1>1 DEF CacheInv, ListingsOk
<1>11. ListingsOk'
  BY <1>1, <1>2, <1>10 DEF CacheInv, ListingsOk
<1>12. StampsOk'
  <2>1. \A m \in Listings : Stamped(listing[m]) =>
             /\ listing[m].stamp[1] \in Nat /\ listing[m].stamp[1] < dir_id
             /\ listing[m].stamp[1] \notin DOMAIN finished
             /\ \A x \in Listings : Stamped(listing[x]) /\ x # m =>
                   listing[x].stamp[1] # listing[m].stamp[1]
    BY DEF CacheInv, StampsOk
  <2>2. \A m \in Listings : Stamped(listing'[m]) => m # l /\ listing'[m] = listing[m]
    BY <1>2, <1>10 DEF Stamped
  <2> QED BY <1>1, <1>4, <1>6, <2>1, <2>2 DEF StampsOk
<1> QED BY <1>1, <1>9, <1>11, <1>12 DEF CacheInv, CallsOk, TasksOk

LEMMA PurgeKeeps ==
    ASSUME CacheInv, UNCHANGED <<setup, names, task>>, PurgeDirs
    PROVE  CacheInv'
<1>1. PICK n \in DOMAIN du_cache : du_cache' = SubSeq(du_cache, n + 1, Len(du_cache))
  BY DEF PurgeDirs
<1>2. IsSeq(du_cache) /\ Keyed(du_cache) /\ KnowsDirs(du_cache, finished) /\ n \in 1..Len(du_cache)
  BY IsSeqFacts DEF CacheInv, CacheOk
<1>3. IsSeq(du_cache') /\ Keyed(du_cache') /\ KnowsDirs(du_cache', finished)
  BY <1>1, <1>2, SuffixKnows
<1>4. UNCHANGED <<inner, dir_id, listing, finished, setup, names, task>>
  BY DEF PurgeDirs
<1> QED BY <1>3, <1>4 DEF CacheInv, CallsOk, TasksOk, ListingsOk, CacheOk, StampsOk

LEMMA PurgeNamesKeeps == ASSUME CacheInv, PurgeNames PROVE CacheInv'
<1>1. PICK n \in DOMAIN names : names' = SubSeq(names, n + 1, Len(names))
  BY DEF PurgeNames
<1>2. IsSeq(names) /\ Keyed(names) /\ n \in 1..Len(names)
  BY IsSeqFacts DEF CacheInv, CallsOk, Spelled
<1> DEFINE b == SubSeq(names, n + 1, Len(names))
<1>3. /\ IsSeq(b) /\ ToSet(b) \subseteq ToSet(names) /\ n \in 0..Len(names)
      /\ Len(b) = Len(names) - n /\ \A i \in 1..Len(names) - n : b[i] = names[i + n]
  BY <1>2, SuffixIs
<1> HIDE DEF b
<1>4. Keyed(b)
  BY <1>2, <1>3, SuffixKeeps
<1>5. Spelled(b)
  BY <1>3, <1>4 DEF CacheInv, CallsOk, Spelled
<1>6. UNCHANGED <<dirvars, setup, task>>
  BY DEF PurgeNames
<1> QED BY <1>1, <1>5, <1>6
        DEF b, dirvars, CacheInv, CallsOk, TasksOk, ListingsOk, CacheOk, KnowsDirs, StampsOk

\* Streams, batches, the cache of directories and its ids agree at all times (localfs.rs:892,
\* localfs_macos.rs:66, 212).
THEOREM CacheInvHolds == Spec => []CacheInv
<1>1. ASSUME CacheInv, [Next]_vars PROVE CacheInv'
  <2>1. CASE \E c \in Clients, call \in setup.calls : CallByName(c, call) \/ Call(c, call)
    BY <1>1, <2>1, CallKeeps
  <2>2. CASE \E c \in Clients : Advance(c)
    BY <1>1, <2>2, AdvanceKeeps
  <2>3. CASE PurgeNames
    BY <1>1, <2>3, PurgeNamesKeeps
  <2>4. CASE Listing
    BY <1>1, <2>4, PollKeeps, FinishStampKeeps, FinishStoreKeeps, PurgeKeeps
       DEF Listing, ListNext, Poll
  <2>5. CASE UNCHANGED vars
    BY <1>1, <2>5 DEF vars, dirvars, CacheInv, CallsOk, TasksOk, ListingsOk, CacheOk, KnowsDirs,
                      StampsOk
  <2> QED BY <1>1, <2>1, <2>2, <2>3, <2>4, <2>5 DEF Next
<1> QED BY <1>1, CacheInvInit, PTL DEF Spec

\* A directory in the cache has all its files there (localfs_macos.rs:212).
THEOREM DirectoryKnowsItsFiles == Spec => []CachedDirKnowsItsFiles
<1>1. CacheInv => CachedDirKnowsItsFiles
  <2> SUFFICES ASSUME CacheInv, NEW d \in Dirs, Has(du_cache, Mark(d)),
                      finished[Peek(du_cache, Mark(d)).id].dir = d,
                      NEW n \in finished[Peek(du_cache, Mark(d)).id].names
               PROVE  ~Denies(du_cache, Append(d, n), Peek(du_cache, Mark(d)).id)
    BY DEF CachedDirKnowsItsFiles
  <2> DEFINE i == IndexOf(du_cache, Mark(d))
             id == du_cache[i].val.id
             q == Append(d, n)
  <2>1. i \in DOMAIN du_cache /\ du_cache[i].key = Mark(d) /\ Peek(du_cache, Mark(d)).id = id
    BY IndexOfIs DEF Peek
  <2>2. Knows(du_cache, Mark(d), id, {Append(d, m) : m \in finished[id].names})
    BY <2>1 DEF CacheInv, CacheOk, KnowsDirs
  <2>3. q \in {Append(d, m) : m \in finished[id].names}
    BY <2>1
  <2>4. PICK j \in DOMAIN du_cache : du_cache[j].key = q /\ du_cache[j].val.id = id
    <3> HIDE DEF q, i
    <3> QED BY <2>1, <2>2, <2>3 DEF Knows
  <2> HIDE DEF q, i
  <2>5. Has(du_cache, q)
    BY <2>4 DEF Has
  <2>6. IndexOf(du_cache, q) = j
    BY <2>4, <2>5, IndexOfIs DEF CacheInv, CacheOk, Keyed
  <2>7. Peek(du_cache, q).id = id
    BY <2>4, <2>6 DEF Peek
  <2> QED BY <2>1, <2>5, <2>7 DEF Denies, q
<1> QED BY <1>1, CacheInvHolds, PTL

\* A listing tells nothing twice and nothing that the directory did not have since it was opened;
\* one that ends without an error has told everything that was there all the while
\* (localfs.rs:892).
THEOREM ListingsAreComplete == Spec => []ListingIsComplete
<1>1. CacheInv => ListingIsComplete
  <2> SUFFICES ASSUME CacheInv, NEW l \in Listings
               PROVE  LET y == listing[l].yielded
                      IN  /\ \A i, j \in DOMAIN y : i # j => y[i] # y[j]
                          /\ NamesOf(y) \subseteq listing[l].ever
                          /\ \A i \in DOMAIN y : y[i] = ErrItem => i = Len(y)
                          /\ listing[l].pc \in {"finish", "ended"} /\ ErrItem \notin ToSet(y)
                                => listing[l].stable \subseteq NamesOf(y)
    BY DEF ListingIsComplete
  <2>1. ListingOk(listing[l], inner.macos)
    BY DEF CacheInv, ListingsOk
  <2> DEFINE r == listing[l]
  <2> HIDE DEF r
  <2>2. Once(r.yielded) /\ ErrorLast(r.yielded) /\ NamesOf(r.yielded) \subseteq r.ever
    BY <2>1 DEF ListingOk, NothingTwice, ErrorEnds, r
  <2>3. ASSUME r.pc \in {"finish", "ended"}, ErrItem \notin ToSet(r.yielded)
        PROVE  r.stable \subseteq NamesOf(r.yielded)
    <3>1. Rest(r) = <<>> /\ r.stable \subseteq r.seen
      BY <2>1, <2>3 DEF ListingOk, EndIsComplete, r
    <3>2. r.seen = NamesOf(r.yielded) \cup NamesOf(Rest(r))
      BY <2>1 DEF ListingOk, NothingTwice, r
    <3> QED BY <3>1, <3>2, Emptied
  <2> QED BY <2>2, <2>3 DEF Once, ErrorLast, r
<1> QED BY <1>1, CacheInvHolds, PTL

-----------------------------------------------------------------------------
(* Paths and their prefixes.                                               *)

LEMMA SameSeq ==
    ASSUME NEW s, IsSeq(s), NEW t, IsSeq(t), Len(s) = Len(t), \A i \in 1..Len(s) : s[i] = t[i]
    PROVE  s = t
<1> DEFINE S == ToSet(s) \cup ToSet(t)
<1>1. s \in Seq(S) /\ t \in Seq(S)
  BY JoinedSeqs
<1> HIDE DEF S
<1> QED BY <1>1, SeqEqual

LEMMA PrefixIs ==
    ASSUME NEW s, IsSeq(s), NEW n \in 0..Len(s)
    PROVE  /\ IsSeq(SubSeq(s, 1, n)) /\ Len(SubSeq(s, 1, n)) = n /\ Len(s) \in Nat
           /\ \A i \in 1..n : SubSeq(s, 1, n)[i] = s[i]
<1> DEFINE b == SubSeq(s, 1, n)
           S == ToSet(s)
<1>1. Len(s) \in Nat /\ n \in Int /\ \A i \in 1..n : s[i] \in S
  BY IsSeqFacts
<1> HIDE DEF S
<1>2. /\ b \in Seq(S) /\ Len(b) = IF 1 <= n THEN n - 1 + 1 ELSE 0
      /\ \A i \in 1..n - 1 + 1 : b[i] = s[1 + i - 1]
  BY <1>1, SubSeqProperties
<1> HIDE DEF b
<1>3. IsSeq(b)
  BY <1>2, SeqIsSeq
<1>4. n \in Nat /\ Len(b) = n
  <2>1. n \in Nat
    BY <1>1
  <2> QED BY ONLY <1>2, <2>1
<1>5. \A i \in 1..n : b[i] = s[i]
  <2> SUFFICES ASSUME NEW i \in 1..n PROVE b[i] = s[i]
    OBVIOUS
  <2>1. i \in 1..n - 1 + 1 /\ 1 + i - 1 = i
    BY <1>4
  <2> QED BY <1>2, <2>1
<1> QED BY <1>1, <1>3, <1>4, <1>5 DEF b

LEMMA WholeIs ==
    ASSUME NEW s, IsSeq(s)
    PROVE  SubSeq(s, 1, Len(s)) = s
<1>1. Len(s) \in 0..Len(s)
  BY IsSeqFacts
<1> QED BY <1>1, PrefixIs, SameSeq

LEMMA PrefixOfPrefix ==
    ASSUME NEW s, IsSeq(s), NEW n \in 0..Len(s), NEW m \in 0..n
    PROVE  SubSeq(SubSeq(s, 1, n), 1, m) = SubSeq(s, 1, m) /\ m \in 0..Len(s)
<1> DEFINE a == SubSeq(s, 1, n)
           b == SubSeq(a, 1, m)
           c == SubSeq(s, 1, m)
<1>1. IsSeq(a) /\ Len(a) = n /\ \A i \in 1..n : a[i] = s[i]
  BY PrefixIs
<1>2. Len(s) \in Nat /\ m \in 0..Len(s) /\ m \in Nat /\ \A i \in 1..m : i \in 1..n
  BY IsSeqFacts
<1>3. IsSeq(c) /\ Len(c) = m /\ \A i \in 1..m : c[i] = s[i]
  BY <1>2, PrefixIs
<1> HIDE DEF a, c
<1>4. IsSeq(b) /\ Len(b) = m /\ \A i \in 1..m : b[i] = a[i]
  BY <1>1, PrefixIs
<1> HIDE DEF b
<1>5. b = c
  BY <1>1, <1>2, <1>3, <1>4, SameSeq
<1> QED BY <1>2, <1>5 DEF a, b, c

LEMMA WithinIs ==
    ASSUME NEW s, IsSeq(s), NEW t, IsSeq(t)
    PROVE  /\ Within(s, t) <=> Len(s) \in 0..Len(t) /\ \A i \in 1..Len(s) : s[i] = t[i]
           /\ Within(s, t) <=> Len(s) \in 0..Len(t) /\ s = SubSeq(t, 1, Len(s))
<1>1. Len(s) \in Nat /\ Len(t) \in Nat
  BY IsSeqFacts
<1>2. SubSeq(s, 1, Len(s)) = s
  BY WholeIs
<1>3. Within(s, t) <=> Len(s) \in 0..Len(t) /\ s = SubSeq(t, 1, Len(s))
  BY <1>1, <1>2 DEF Within, IsPrefix
<1>4. ASSUME Len(s) \in 0..Len(t)
      PROVE  s = SubSeq(t, 1, Len(s)) <=> \A i \in 1..Len(s) : s[i] = t[i]
  <2> DEFINE b == SubSeq(t, 1, Len(s))
  <2>1. IsSeq(b) /\ Len(b) = Len(s) /\ \A i \in 1..Len(s) : b[i] = t[i]
    BY <1>4, PrefixIs
  <2> HIDE DEF b
  <2>2. s = b <=> \A i \in 1..Len(s) : s[i] = t[i]
    BY <2>1, SameSeq
  <2> QED BY <2>2 DEF b
<1> QED BY <1>3, <1>4

LEMMA FrontIs ==
    ASSUME NEW s, IsSeq(s), s # <<>>
    PROVE  /\ Len(s) \in Nat /\ Len(s) # 0 /\ Len(s) - 1 \in 0..Len(s) /\ IsSeq(Front(s))
           /\ Front(s) = SubSeq(s, 1, Len(s) - 1) /\ Len(Front(s)) = Len(s) - 1
           /\ Append(Front(s), Last(s)) = s
<1>1. Len(s) \in Nat /\ Len(s) # 0
  <2>1. Len(s) \in Nat /\ s \in Seq(ToSet(s))
    BY IsSeqFacts DEF IsSeq
  <2>2. Len(s) # 0
    BY <2>1, EmptySeq
  <2> QED BY <2>1, <2>2
<1> DEFINE n == Len(s)
           b == Front(s)
<1>2. n \in Nat /\ n # 0
  BY <1>1
<1>3. n - 1 \in 0..n
  <2> HIDE DEF n
  <2> QED BY <1>2
<1>4. IsSeq(b) /\ Len(b) = n - 1 /\ \A i \in 1..n - 1 : b[i] = s[i]
  BY <1>3, PrefixIs DEF Front
<1>5. Append(b, s[n]) = s
  <2> HIDE DEF b
  <2> DEFINE a == Append(b, s[n])
  <2>1. IsSeq(a) /\ Len(a) = Len(b) + 1
        /\ \A i \in 1..Len(b) + 1 : a[i] = IF i = Len(b) + 1 THEN s[n] ELSE b[i]
    BY <1>4, AppendSeq
  <2> HIDE DEF a
  <2>2. Len(a) = n
    <3> HIDE DEF n
    <3> QED BY <1>2, <1>4, <2>1
  <2>3. ASSUME NEW i \in 1..n PROVE a[i] = s[i]
    <3> HIDE DEF n
    <3>1. i \in 1..Len(b) + 1 /\ (i = Len(b) + 1 <=> i = n) /\ (i # n => i \in 1..n - 1)
      BY <1>2, <1>4, <2>3
    <3> QED BY <1>4, <2>1, <3>1
  <2>4. a = s
    BY <2>1, <2>2, <2>3, SameSeq
  <2> QED BY <2>4 DEF a
<1> QED BY <1>2, <1>3, <1>4, <1>5 DEF Front, Last

LEMMA FrontOfAppend ==
    ASSUME NEW s, IsSeq(s), NEW x
    PROVE  /\ IsSeq(Append(s, x)) /\ Append(s, x) # <<>> /\ Len(Append(s, x)) = Len(s) + 1
           /\ Front(Append(s, x)) = s /\ Last(Append(s, x)) = x
<1> DEFINE a == Append(s, x)
<1>1. /\ IsSeq(a) /\ Len(a) = Len(s) + 1 /\ Len(s) \in Nat
      /\ \A i \in 1..Len(s) + 1 : a[i] = IF i = Len(s) + 1 THEN x ELSE s[i]
  BY AppendSeq
<1> HIDE DEF a
<1>2. a # <<>>
  <2>1. Len(<<>>) = 0
    OBVIOUS
  <2> QED BY <1>1, <2>1
<1>3. IsSeq(Front(a)) /\ Len(Front(a)) = Len(s) /\ Front(a) = SubSeq(a, 1, Len(s))
  <2>1. (Len(s) + 1) - 1 = Len(s)
    BY <1>1
  <2> QED BY <1>1, <1>2, <2>1, FrontIs
<1>4. \A i \in 1..Len(s) : Front(a)[i] = s[i]
  <2>1. Len(s) \in 0..Len(a) /\ \A i \in 1..Len(s) : i \in 1..Len(s) + 1 /\ i # Len(s) + 1
    BY <1>1
  <2> QED BY <1>1, <1>3, <2>1, PrefixIs
<1>5. Front(a) = s
  BY <1>3, <1>4, SameSeq
<1>6. Last(a) = x
  <2>1. Len(s) + 1 \in 1..Len(s) + 1
    BY <1>1
  <2> QED BY <1>1, <2>1 DEF Last
<1> QED BY <1>1, <1>2, <1>5, <1>6 DEF a

-----------------------------------------------------------------------------
(* Where a path leads.                                                     *)

LEMMA KindsAre ==
    ASSUME NEW d, IsDisk(d), NEW p
    PROVE  /\ Kind(d, p) \in {"none", "dir", "file", "link"}
           /\ Kind(d, p) # "none" <=> p \in DOMAIN d
           /\ p \in DOMAIN d => Kind(d, p) = d[p].kind /\ IsSeq(p)
           /\ Kind(d, p) = "link" => IsSeq(d[p].to)
BY DEF IsDisk, Kind, IsSeq

\* All the way to q there are directories.
Real(d, q) == \A n \in 0..Len(q) - 1 : Kind(d, SubSeq(q, 1, n)) = "dir"

LEMMA EntriesAreReal ==
    ASSUME NEW d, IsDisk(d), NEW p \in DOMAIN d
    PROVE  IsSeq(p) /\ Real(d, p)
BY DEF IsDisk, IsSeq, Real

LEMMA RealPrefix ==
    ASSUME NEW d, NEW q, IsSeq(q), Real(d, q), NEW n \in 0..Len(q)
    PROVE  Real(d, SubSeq(q, 1, n))
<1>1. IsSeq(SubSeq(q, 1, n)) /\ Len(SubSeq(q, 1, n)) = n /\ Len(q) \in Nat
  BY PrefixIs
<1>2. ASSUME NEW m \in 0..n - 1 PROVE Kind(d, SubSeq(SubSeq(q, 1, n), 1, m)) = "dir"
  <2>1. m \in 0..n /\ m \in 0..Len(q) - 1
    BY <1>1
  <2> QED BY <2>1, PrefixOfPrefix DEF Real
<1> QED BY <1>1, <1>2 DEF Real

LEMMA RealStep ==
    ASSUME NEW d, NEW q, IsSeq(q), NEW x
    PROVE  Real(d, Append(q, x)) <=> Real(d, q) /\ Kind(d, q) = "dir"
<1> DEFINE a == Append(q, x)
<1>1. IsSeq(a) /\ Len(a) = Len(q) + 1 /\ Front(a) = q /\ a # <<>> /\ Len(q) \in Nat
  BY FrontOfAppend, IsSeqFacts
<1>2. SubSeq(a, 1, Len(q)) = q
  <2> HIDE DEF a
  <2>1. Front(a) = SubSeq(a, 1, Len(a) - 1) /\ Len(a) - 1 = Len(q)
    BY <1>1, FrontIs
  <2> QED BY <1>1, <2>1
<1> HIDE DEF a
<1>3. ASSUME NEW n \in 0..Len(q) - 1 PROVE SubSeq(a, 1, n) = SubSeq(q, 1, n)
  <2>1. Len(q) \in 0..Len(a) /\ n \in 0..Len(q)
    BY <1>1
  <2> QED BY <1>1, <1>2, <2>1, PrefixOfPrefix
<1>4. Len(q) \in 0..Len(a) - 1 /\ \A n \in 0..Len(a) - 1 : n \in 0..Len(q) - 1 \/ n = Len(q)
  BY <1>1
<1>5. \A n \in 0..Len(q) - 1 : n \in 0..Len(a) - 1
  BY <1>1
<1> QED BY <1>2, <1>3, <1>4, <1>5 DEF Real, a

LEMMA StopIs ==
    ASSUME NEW d, NEW p, IsSeq(p)
    PROVE  Stop(d, p) \in 0..Len(p) /\ Reaches(d, p, Stop(d, p))
<1>1. \E n \in 0..Len(p) : Reaches(d, p, n)
  <2> SUFFICES ASSUME \A n \in 0..Len(p) : ~Reaches(d, p, n) PROVE FALSE
    OBVIOUS
  <2> DEFINE N == Len(p)
             T == {n \in Nat : n <= N => \A m \in 0..(n - 1) : Kind(d, SubSeq(p, 1, m)) = "dir"}
  <2>1. N \in Nat
    BY IsSeqFacts
  <2> HIDE DEF N
  <2>2. 0 \in T
    OBVIOUS
  <2>3. ASSUME NEW n \in T \cap Nat PROVE n + 1 \in T
    <3> SUFFICES ASSUME n + 1 <= N, NEW m \in 0..(n + 1 - 1)
                 PROVE  Kind(d, SubSeq(p, 1, m)) = "dir"
      OBVIOUS
    <3>1. n <= N /\ n # N /\ n \in 0..N /\ m \in 0..n
      BY <2>1
    <3>2. \A k \in 0..(n - 1) : Kind(d, SubSeq(p, 1, k)) = "dir"
      BY <3>1
    <3>3. Kind(d, SubSeq(p, 1, n)) = "dir"
      BY <3>1, <3>2 DEF Reaches, N
    <3>4. m \in 0..(n - 1) \/ m = n
      BY <3>1
    <3> QED BY <3>2, <3>3, <3>4
  <2>4. Nat \subseteq T
    <3> HIDE DEF T
    <3> QED BY <2>2, <2>3, Induction
  <2>5. N \in T /\ N \in 0..N
    BY <2>1, <2>4
  <2> QED BY <2>1, <2>5 DEF Reaches, N
<1> QED BY <1>1 DEF Stop

\* A walk along q, where there are directories all the way, goes to its end.
LEMMA StopOfReal ==
    ASSUME NEW d, NEW q, IsSeq(q), Real(d, q)
    PROVE  Stop(d, q) = Len(q) /\ SubSeq(q, 1, Stop(d, q)) = q
<1> DEFINE n == Stop(d, q)
           N == Len(q)
<1>1. n \in 0..N /\ Reaches(d, q, n) /\ N \in Nat
  BY StopIs, IsSeqFacts
<1>2. n = N
  <2> HIDE DEF n
  <2>1. n # N => n \in 0..N - 1
    <3> HIDE DEF N
    <3> QED BY <1>1
  <2> QED BY <1>1, <2>1 DEF Real, Reaches
<1> QED BY <1>2, WholeIs

LEMMA FollowedIs ==
    ASSUME NEW d, IsDisk(d), NEW p, IsSeq(p)
    PROVE  IsSeq(Followed(d, p))
<1> DEFINE n == Stop(d, p)
           at == SubSeq(p, 1, n)
           rest == SubSeq(p, Len(at) + 1, Len(p))
<1>1. n \in 0..Len(p) /\ Len(p) \in Nat
  BY StopIs, IsSeqFacts
<1>2. IsSeq(at) /\ Len(at) = n
  <2> HIDE DEF n
  <2> QED BY <1>1, PrefixIs
<1>3. IsSeq(rest)
  <2> DEFINE S == ToSet(p)
  <2> HIDE DEF n, at
  <2>1. Len(at) + 1 \in Int /\ Len(p) \in Int /\ \A i \in Len(at) + 1..Len(p) : i \in 1..Len(p)
    BY <1>1, <1>2
  <2>2. \A i \in Len(at) + 1..Len(p) : p[i] \in S
    BY <2>1, IsSeqFacts
  <2> HIDE DEF S
  <2>3. rest \in Seq(S)
    BY <2>1, <2>2, SubSeqProperties
  <2> QED BY <2>3, SeqIsSeq
<1> HIDE DEF rest, n
<1>4. Followed(d, p) = IF Kind(d, at) # "link" THEN p ELSE d[at].to \o rest
  <2> HIDE DEF at
  <2>1. Followed(d, p) = With(at, LAMBDA a : IF Kind(d, a) # "link" THEN p ELSE d[a].to \o SubSeq(p, Len(a) + 1, Len(p)))
    BY DEF Followed, at, n
  <2> QED BY <2>1 DEF With, rest
<1> HIDE DEF at
<1>5. Kind(d, at) = "link" => IsSeq(d[at].to \o rest)
  BY <1>3, KindsAre, JoinedSeqs
<1> QED BY <1>4, <1>5

\* Three links are followed.
LEMMA HopsIs ==
    ASSUME NEW d, NEW p
    PROVE  LET path[h \in 0..MaxHops] == IF h = 0 THEN p ELSE Followed(d, path[h - 1])
           IN  path[MaxHops] = Followed(d, Followed(d, Followed(d, p)))
<1> DEFINE F(q) == Followed(d, q)
           G(f) == [h \in 0..3 |-> IF h = 0 THEN p ELSE F(f[h - 1])]
           g == [h \in 0..3 |-> CASE h = 0 -> p [] h = 1 -> F(p) [] h = 2 -> F(F(p))
                                  [] h = 3 -> F(F(F(p)))]
           path == CHOOSE f : f = G(f)
<1> HIDE DEF F
<1>1. g = G(g)
  <2> SUFFICES ASSUME NEW h \in 0..3 PROVE g[h] = IF h = 0 THEN p ELSE F(g[h - 1])
    OBVIOUS
  <2>1. h = 0 \/ h = 1 \/ h = 2 \/ h = 3
    OBVIOUS
  <2>2. g[0] = p /\ g[1] = F(p) /\ g[2] = F(F(p)) /\ g[3] = F(F(F(p)))
    OBVIOUS
  <2> HIDE DEF g
  <2> QED BY <2>1, <2>2
<1>2. path = G(path)
  <2> HIDE DEF G, g
  <2> QED BY <1>1
<1>3. path[0] = p /\ path[1] = F(path[0]) /\ path[2] = F(path[1]) /\ path[3] = F(path[2])
  <2> HIDE DEF path
  <2> QED BY <1>2
<1>4. path[3] = F(F(F(p)))
  <2> HIDE DEF path
  <2> QED BY <1>3
<1> QED BY <1>4 DEF F, MaxHops

LEMMA CanonicalIs ==
    ASSUME NEW d, NEW p
    PROVE  LET end == Followed(d, Followed(d, Followed(d, p)))
           IN  Canonical(d, p) = Arrived(d, end, SubSeq(end, 1, Stop(d, end)))
<1> DEFINE path[h \in 0..MaxHops] == IF h = 0 THEN p ELSE Followed(d, path[h - 1])
           end == Followed(d, Followed(d, Followed(d, p)))
           To(e) == With(SubSeq(e, 1, Stop(d, e)), LAMBDA at : Arrived(d, e, at))
<1>1. path[MaxHops] = end
  BY HopsIs
<1>2. Canonical(d, p) = With(path[MaxHops], To)
  BY DEF Canonical, With
<1> HIDE DEF path, end
<1>3. Canonical(d, p) = To(end)
  <2> HIDE DEF To
  <2> QED BY <1>1, <1>2 DEF With
<1>4. To(end) = Arrived(d, end, SubSeq(end, 1, Stop(d, end)))
  BY DEF With
<1> QED BY <1>3, <1>4 DEF end

\* canonicalize leads to a directory or a file by way of directories.
LEMMA CanonicalLeads ==
    ASSUME NEW d, IsDisk(d), NEW p, IsSeq(p)
    PROVE  /\ Canonical(d, p).err \in {"", "ENOENT", "ELOOP", "ENOTDIR"}
           /\ Canonical(d, p).err = "" =>
                 \E q : /\ IsSeq(q) /\ Real(d, q) /\ Kind(d, q) \in {"dir", "file"}
                        /\ Canonical(d, p) = Ok(q) /\ Canonical(d, p).path = q
<1> DEFINE q == Followed(d, Followed(d, Followed(d, p)))
           at == SubSeq(q, 1, Stop(d, q))
<1>1. IsSeq(q)
  BY FollowedIs
<1>2. Canonical(d, p) = Arrived(d, q, at)
  BY CanonicalIs
<1> HIDE DEF q
<1>3. Stop(d, q) \in 0..Len(q) /\ Reaches(d, q, Stop(d, q)) /\ Len(q) \in Nat
  BY <1>1, StopIs, IsSeqFacts
<1> DEFINE n == Stop(d, q)
<1>4. Kind(d, at) \in {"none", "dir", "file", "link"}
  BY KindsAre
<1>5. Arrived(d, q, at).err \in {"", "ENOENT", "ELOOP", "ENOTDIR"}
  BY DEF Arrived, Failed, Ok
<1>6. ASSUME Arrived(d, q, at).err = ""
      PROVE  /\ Real(d, q) /\ Kind(d, q) \in {"dir", "file"}
             /\ Arrived(d, q, at) = Ok(q) /\ Ok(q).path = q
  <2>1. /\ Kind(d, at) \notin {"none", "link"}
        /\ ~(Kind(d, at) = "file" /\ at # q)
        /\ Arrived(d, q, at) = Ok(q) /\ Ok(q).path = q
    BY <1>6 DEF Arrived, Failed, Ok
  <2>2. CASE Kind(d, at) = "dir"
    <3>1. n = Len(q)
      BY <1>3, <2>2 DEF Reaches
    <3>2. at = q
      BY <1>1, <3>1, WholeIs
    <3>3. Real(d, q)
      BY <1>3, <3>1 DEF Reaches, Real
    <3> QED BY <2>1, <2>2, <3>2, <3>3
  <2>3. CASE Kind(d, at) = "file"
    <3>1. at = q
      BY <2>1, <2>3
    <3>2. q \in DOMAIN d
      BY <2>3, <3>1, KindsAre
    <3> QED BY <2>1, <2>3, <3>1, <3>2, EntriesAreReal
  <2> QED BY <1>4, <2>1, <2>2, <2>3
<1> QED BY <1>1, <1>2, <1>5, <1>6

LEMMA CanonicalOfReal ==
    ASSUME NEW d, NEW q, IsSeq(q), Real(d, q), Kind(d, q) \in {"dir", "file"}
    PROVE  Canonical(d, q) = Ok(q)
<1>1. SubSeq(q, 1, Stop(d, q)) = q
  BY StopOfReal
<1>2. Followed(d, q) = q
  BY <1>1 DEF Followed, With
<1>3. Canonical(d, q) = Arrived(d, q, q)
  BY <1>1, <1>2, CanonicalIs
<1>4. Arrived(d, q, q) = Ok(q)
  BY DEF Arrived
<1> QED BY <1>3, <1>4

\* A call works on an entry of a directory, or on the root.
LEMMA ReachedIs ==
    ASSUME NEW d, IsDisk(d), NEW p, IsSeq(p)
    PROVE  /\ Reached(d, p).err \in {"", "ENOENT", "ELOOP", "ENOTDIR"}
           /\ Reached(d, p).err = "" =>
                 \E q : IsSeq(q) /\ Real(d, q) /\ Reached(d, p) = Ok(q) /\ Reached(d, p).path = q
<1>1. CASE p = <<>>
  <2>1. Reached(d, p) = Ok(<<>>) /\ Ok(<<>>).err = "" /\ Ok(<<>>).path = <<>> /\ IsSeq(<<>>)
    BY <1>1, Emptied DEF Reached, Ok
  <2>2. Real(d, <<>>)
    BY DEF Real
  <2> QED BY <2>1, <2>2
<1>2. CASE p # <<>>
  <2> DEFINE dir == Canonical(d, Front(p))
             In(r) == CASE r.err # "" -> r
                        [] r.err = "" /\ Kind(d, r.path) # "dir" -> Failed("ENOTDIR")
                        [] OTHER -> Ok(Append(r.path, Last(p)))
  <2>1. IsSeq(Front(p))
    BY FrontSpelled
  <2>2. Reached(d, p) = With(dir, In)
    BY <1>2 DEF Reached, With
  <2>3. /\ dir.err \in {"", "ENOENT", "ELOOP", "ENOTDIR"}
        /\ dir.err = "" => \E q : IsSeq(q) /\ Real(d, q) /\ dir.path = q
    BY <2>1, CanonicalLeads
  <2> HIDE DEF dir
  <2>4. Reached(d, p) = In(dir)
    <3> HIDE DEF In
    <3> QED BY <2>2 DEF With
  <2>5. CASE dir.err # ""
    BY <2>3, <2>4, <2>5
  <2>6. CASE dir.err = "" /\ Kind(d, dir.path) # "dir"
    <3>1. Reached(d, p) = Failed("ENOTDIR")
      BY <2>4, <2>6
    <3>2. Failed("ENOTDIR").err = "ENOTDIR"
      BY DEF Failed
    <3> QED BY <3>1, <3>2
  <2>7. CASE dir.err = "" /\ Kind(d, dir.path) = "dir"
    <3> DEFINE q == Append(dir.path, Last(p))
    <3>1. IsSeq(dir.path) /\ Real(d, dir.path)
      BY <2>3, <2>7
    <3>2. IsSeq(q) /\ Real(d, q)
      BY <2>7, <3>1, RealStep, FrontOfAppend
    <3>3. Reached(d, p) = Ok(q)
      BY <2>4, <2>7
    <3> HIDE DEF q
    <3>4. Ok(q).err = "" /\ Ok(q).path = q
      BY DEF Ok
    <3> QED BY <3>2, <3>3, <3>4
  <2> QED BY <2>5, <2>6, <2>7
<1> QED BY <1>1, <1>2

LEMMA ReachedOfReal ==
    ASSUME NEW d, NEW q, IsSeq(q), Real(d, q)
    PROVE  Reached(d, q) = Ok(q)
<1>1. CASE q = <<>>
  BY <1>1 DEF Reached
<1>2. CASE q # <<>>
  <2> DEFINE f == Front(q)
  <2>1. IsSeq(f) /\ Append(f, Last(q)) = q
    BY <1>2, FrontIs
  <2> HIDE DEF f
  <2>2. Real(d, f) /\ Kind(d, f) = "dir"
    BY <2>1, RealStep
  <2>3. Canonical(d, f) = Ok(f)
    BY <2>1, <2>2, CanonicalOfReal
  <2>4. Ok(f).err = "" /\ Ok(f).path = f
    BY DEF Ok
  <2> QED BY <1>2, <2>1, <2>2, <2>3, <2>4 DEF Reached, With, f
<1> QED BY <1>1, <1>2

\* confine_leaf leads to an entry in the share, by way of directories, or below a file.
LEMMA LeafIs ==
    ASSUME NEW d, IsDisk(d), NEW p, IsSeq(p), IsSeq(Base), confine_leaf(d, p).err = ""
    PROVE  \E q : /\ confine_leaf(d, p).path = q /\ IsSeq(q) /\ Within(Base, q)
                  /\ \/ Real(d, q)
                     \/ Kind(d, q) = "none" /\ Reached(d, q).err = "ENOTDIR"
<1>1. ASSUME NEW x, IsSeq(x), confine_follow(d, x).err = ""
      PROVE  \E q : /\ confine_follow(d, x).path = q /\ IsSeq(q) /\ Within(Base, q)
                    /\ Real(d, q) /\ Kind(d, q) \in {"dir", "file"}
  <2> DEFINE r == Canonical(d, x)
             In(y) == IF y.err = "" /\ ~Within(canonical_basedir, y.path)
                      THEN Failed("Forbidden") ELSE y
  <2>1. r.err = "" => \E q : /\ IsSeq(q) /\ Real(d, q) /\ Kind(d, q) \in {"dir", "file"}
                             /\ r = Ok(q) /\ r.path = q
    BY <1>1, CanonicalLeads
  <2>2. confine_follow(d, x) = With(r, In)
    BY DEF confine_follow, With
  <2> HIDE DEF r
  <2>3. confine_follow(d, x) = In(r)
    <3> HIDE DEF In
    <3> QED BY <2>2 DEF With
  <2>4. Failed("Forbidden").err = "Forbidden"
    BY DEF Failed
  <2>5. ~(r.err = "" /\ ~Within(Base, r.path)) /\ confine_follow(d, x) = r
    BY <1>1, <2>3, <2>4 DEF canonical_basedir
  <2> QED BY <1>1, <2>1, <2>5
<1>2. CASE p = Base
  <2>1. confine_leaf(d, p) = confine_follow(d, Base)
    BY <1>2 DEF confine_leaf
  <2> QED BY <1>1, <2>1
<1>3. CASE p # Base
  <2> DEFINE parent == confine_follow(d, Front(p))
             In(y) == IF y.err # "" THEN y ELSE Ok(Append(y.path, Last(p)))
             q == Append(parent.path, Last(p))
  <2>1. confine_leaf(d, p) = With(parent, In)
    BY <1>3 DEF confine_leaf, With
  <2> HIDE DEF parent
  <2>2. confine_leaf(d, p) = In(parent)
    <3> HIDE DEF In
    <3> QED BY <2>1 DEF With
  <2>3. parent.err = "" /\ confine_leaf(d, p) = Ok(q)
    BY <2>2
  <2> DEFINE a == parent.path
  <2>4. IsSeq(a) /\ Within(Base, a) /\ Real(d, a) /\ Kind(d, a) \in {"dir", "file"}
    <3>1. IsSeq(Front(p))
      BY FrontSpelled
    <3> QED BY <1>1, <2>3, <3>1 DEF parent
  <2> HIDE DEF a
  <2> DEFINE b == Append(a, Last(p))
  <2>5. /\ IsSeq(b) /\ b # <<>> /\ Front(b) = a /\ Len(b) = Len(a) + 1
        /\ \A i \in 1..Len(a) + 1 : b[i] = IF i = Len(a) + 1 THEN Last(p) ELSE a[i]
    BY <2>4, FrontOfAppend, AppendSeq
  <2>6. Real(d, b) <=> Kind(d, a) = "dir"
    BY <2>4, RealStep
  <2>7. Ok(b).path = b
    BY DEF Ok
  <2> HIDE DEF b
  <2>8. Within(Base, b)
    <3>1. Len(Base) \in 0..Len(a) /\ Len(a) \in Nat /\ \A i \in 1..Len(Base) : Base[i] = a[i]
      BY <2>4, WithinIs, IsSeqFacts
    <3>2. Len(Base) \in 0..Len(b) /\ \A i \in 1..Len(Base) : i \in 1..Len(a) + 1 /\ i # Len(a) + 1
      <4>1. Len(b) = Len(a) + 1 /\ Len(a) \in Nat /\ Len(Base) \in 0..Len(a)
        BY <2>5, <3>1
      <4> QED BY ONLY <4>1
    <3>3. \A i \in 1..Len(Base) : Base[i] = b[i]
      BY <2>5, <3>1, <3>2
    <3> QED BY <2>5, <3>2, <3>3, WithinIs
  <2>9. ASSUME Kind(d, a) = "file" PROVE Kind(d, b) = "none" /\ Reached(d, b).err = "ENOTDIR"
    <3>1. b \notin DOMAIN d
      BY <2>6, <2>9, EntriesAreReal
    <3>2. Canonical(d, a) = Ok(a) /\ Ok(a).err = "" /\ Ok(a).path = a
      BY <2>4, CanonicalOfReal DEF Ok
    <3>3. Reached(d, b) = Failed("ENOTDIR")
      BY <2>5, <2>9, <3>2 DEF Reached, With
    <3>4. Failed("ENOTDIR").err = "ENOTDIR"
      BY DEF Failed
    <3> QED BY <3>1, <3>3, <3>4, KindsAre
  <2>10. confine_leaf(d, p) = Ok(b)
    BY <2>3 DEF a, b
  <2> QED BY <2>4, <2>5, <2>6, <2>7, <2>8, <2>9, <2>10
<1> QED BY <1>2, <1>3

-----------------------------------------------------------------------------
(* What the calls leave is a disk.                                         *)

LEMMA PutGives ==
    ASSUME NEW d, NEW at, NEW x
    PROVE  /\ DOMAIN Put(d, at, x) = DOMAIN d \cup {at} /\ Put(d, at, x)[at] = x
           /\ \A p \in DOMAIN d : p # at => Put(d, at, x)[p] = d[p]
           /\ Kind(Put(d, at, x), at) = x.kind
           /\ \A p : p # at => Kind(Put(d, at, x), p) = Kind(d, p)
BY DEF Put, Kind

LEMMA DropGives ==
    ASSUME NEW d, NEW at
    PROVE  /\ DOMAIN Drop(d, at) = DOMAIN d \ {at}
           /\ \A p \in DOMAIN d : p # at => Drop(d, at)[p] = d[p]
           /\ Kind(Drop(d, at), at) = "none"
           /\ \A p : p # at => Kind(Drop(d, at), p) = Kind(d, p)
BY DEF Drop, Kind

\* Only directories have something in them.
LEMMA InsideIs ==
    ASSUME NEW d, IsDisk(d), NEW p \in DOMAIN d, NEW n \in 0..Len(p) - 1
    PROVE  /\ Kind(d, SubSeq(p, 1, n)) = "dir" /\ SubSeq(p, 1, n) \in DOMAIN d
           /\ p \in Inside(d, SubSeq(p, 1, n)) /\ n \in 0..Len(p)
<1> DEFINE a == SubSeq(p, 1, n)
<1>1. IsSeq(p) /\ Kind(d, a) = "dir" /\ Len(p) \in Nat
  BY EntriesAreReal, IsSeqFacts DEF Real
<1>2. n \in 0..Len(p) /\ n # Len(p)
  BY <1>1
<1>3. IsSeq(a) /\ Len(a) = n
  BY <1>1, <1>2, PrefixIs
<1>4. Within(a, p)
  <2>1. Len(a) \in 0..Len(p) /\ a = SubSeq(p, 1, Len(a))
    BY <1>2, <1>3
  <2> HIDE DEF a
  <2> QED BY <1>1, <1>3, <2>1, WithinIs
<1>5. a # p
  BY <1>2, <1>3
<1> HIDE DEF a
<1>6. p \in Inside(d, a) /\ a \in DOMAIN d
  BY <1>1, <1>4, <1>5, KindsAre DEF Inside
<1> QED BY <1>1, <1>2, <1>6 DEF a

LEMMA OnlyDirsHold ==
    ASSUME NEW d, IsDisk(d), NEW b, IsSeq(b), Kind(d, b) # "dir"
    PROVE  Inside(d, b) = {}
<1> SUFFICES ASSUME NEW q \in Inside(d, b) PROVE FALSE
  OBVIOUS
<1>1. q \in DOMAIN d /\ q # b /\ Within(b, q) /\ IsSeq(q)
  BY EntriesAreReal DEF Inside
<1>2. Len(b) \in 0..Len(q) /\ b = SubSeq(q, 1, Len(b)) /\ Len(q) \in Nat
  BY <1>1, WithinIs, IsSeqFacts
<1>3. Len(b) # Len(q)
  BY <1>1, <1>2, WholeIs
<1>4. Len(b) \in 0..Len(q) - 1
  BY <1>2, <1>3
<1> QED BY <1>1, <1>2, <1>4, InsideIs

LEMMA PutKeepsDisk ==
    ASSUME NEW d, IsDisk(d), NEW at, IsSeq(at), Real(d, at), Kind(d, at) # "dir",
           NEW x, x.kind \in {"dir", "file"}
    PROVE  IsDisk(Put(d, at, x))
<1> DEFINE e == Put(d, at, x)
<1>1. /\ DOMAIN e = DOMAIN d \cup {at} /\ e[at] = x
      /\ \A p \in DOMAIN d : p # at => e[p] = d[p]
      /\ \A p : p # at => Kind(e, p) = Kind(d, p)
  BY DEF Put, Kind
<1> HIDE DEF e
<1> SUFFICES ASSUME NEW p \in DOMAIN e
             PROVE  /\ IsSeq(p)
                    /\ \A n \in 0..Len(p) - 1 : Kind(e, SubSeq(p, 1, n)) = "dir"
                    /\ e[p].kind \in {"dir", "file", "link"}
                    /\ e[p].kind = "link" => IsSeq(e[p].to)
  BY DEF e, IsDisk, IsSeq
<1>2. CASE p = at
  <2>1. ASSUME NEW n \in 0..Len(at) - 1 PROVE SubSeq(at, 1, n) # at
    <3>1. n \in 0..Len(at) /\ n # Len(at)
      BY IsSeqFacts
    <3> QED BY <3>1, PrefixIs
  <2> QED BY <1>1, <1>2, <2>1 DEF Real
<1>3. CASE p # at
  <2>1. p \in DOMAIN d /\ e[p] = d[p]
    BY <1>1, <1>3
  <2>2. \A n \in 0..Len(p) - 1 : Kind(d, SubSeq(p, 1, n)) = "dir"
    BY <2>1, InsideIs
  <2> QED BY <1>1, <2>1, <2>2 DEF IsDisk, IsSeq
<1> QED BY <1>2, <1>3

LEMMA DropKeepsDisk ==
    ASSUME NEW d, IsDisk(d), NEW at, Kind(d, at) # "dir" \/ Inside(d, at) = {}
    PROVE  IsDisk(Drop(d, at))
<1> DEFINE e == Drop(d, at)
<1>1. /\ DOMAIN e = DOMAIN d \ {at} /\ \A p \in DOMAIN d : p # at => e[p] = d[p]
      /\ \A p : p # at => Kind(e, p) = Kind(d, p)
  BY DropGives
<1> HIDE DEF e
<1> SUFFICES ASSUME NEW p \in DOMAIN e
             PROVE  /\ IsSeq(p)
                    /\ \A n \in 0..Len(p) - 1 : Kind(e, SubSeq(p, 1, n)) = "dir"
                    /\ e[p].kind \in {"dir", "file", "link"}
                    /\ e[p].kind = "link" => IsSeq(e[p].to)
  BY DEF e, IsDisk, IsSeq
<1>2. p \in DOMAIN d /\ e[p] = d[p]
  BY <1>1
<1>3. ASSUME NEW n \in 0..Len(p) - 1 PROVE Kind(e, SubSeq(p, 1, n)) = "dir"
  BY <1>1, <1>2, InsideIs
<1> QED BY <1>2, <1>3 DEF IsDisk, IsSeq

\* p, taken from below a to the same place below b
Rebased(a, b, p) == b \o SubSeq(p, Len(a) + 1, Len(p))

IsRebased(q, a, b, p) ==
    /\ IsSeq(q) /\ Len(q) = Len(b) + (Len(p) - Len(a))
    /\ Len(a) \in Nat /\ Len(b) \in Nat /\ Len(p) \in Nat /\ Len(a) \in 0..Len(p)
    /\ \A i \in 1..Len(b) : q[i] = b[i]
    /\ \A i \in 1..Len(p) - Len(a) : q[Len(b) + i] = p[Len(a) + i]

LEMMA RebasedIs ==
    ASSUME NEW a, IsSeq(a), NEW b, IsSeq(b), NEW p, IsSeq(p), Within(a, p)
    PROVE  IsRebased(Rebased(a, b, p), a, b, p)
<1> DEFINE k == Len(a)
           n == Len(p)
           m == Len(b)
           S == ToSet(p)
           r == SubSeq(p, k + 1, n)
<1>1. k \in Nat /\ n \in Nat /\ m \in Nat /\ k \in 0..n /\ \A i \in 1..n : p[i] \in S
  BY IsSeqFacts, WithinIs
<1> HIDE DEF S, n, k, m
<1>2. k + 1 \in Int /\ n \in Int /\ \A i \in k + 1..n : p[i] \in S
  BY <1>1
<1>3. /\ r \in Seq(S) /\ Len(r) = IF k + 1 <= n THEN n - (k + 1) + 1 ELSE 0
      /\ \A i \in 1..n - (k + 1) + 1 : r[i] = p[k + 1 + i - 1]
  BY <1>2, SubSeqProperties
<1> HIDE DEF r
<1>4. IsSeq(r) /\ Len(r) = n - k
  <2>1. IsSeq(r)
    BY <1>3, SeqIsSeq
  <2>2. Len(r) = n - k
    BY ONLY <1>1, <1>3
  <2> QED BY <2>1, <2>2
<1>5. \A i \in 1..n - k : r[i] = p[k + i]
  <2> SUFFICES ASSUME NEW i \in 1..n - k PROVE r[i] = p[k + i]
    OBVIOUS
  <2>1. i \in 1..n - (k + 1) + 1 /\ k + 1 + i - 1 = k + i
    BY <1>1
  <2> QED BY <1>3, <2>1
<1> DEFINE q == b \o r
<1>6. IsSeq(q) /\ Len(q) = m + Len(r)
      /\ \A i \in 1..m + Len(r) : q[i] = IF i <= m THEN b[i] ELSE r[i - m]
  <2>1. b \in Seq(ToSet(b) \cup ToSet(r)) /\ r \in Seq(ToSet(b) \cup ToSet(r)) /\ IsSeq(q)
    BY <1>4, JoinedSeqs
  <2> QED BY <2>1, ConcatProperties DEF m
<1> HIDE DEF q
<1>7. \A i \in 1..m : q[i] = b[i]
  <2> SUFFICES ASSUME NEW i \in 1..m PROVE q[i] = b[i]
    OBVIOUS
  <2>1. i \in 1..m + Len(r) /\ i <= m
    BY <1>1, <1>4
  <2> QED BY <1>6, <2>1
<1>8. \A i \in 1..n - k : q[m + i] = p[k + i]
  <2> SUFFICES ASSUME NEW i \in 1..n - k PROVE q[m + i] = p[k + i]
    OBVIOUS
  <2>1. m + i \in 1..m + Len(r) /\ ~(m + i <= m) /\ (m + i) - m = i
    BY <1>1, <1>4
  <2> QED BY <1>5, <1>6, <2>1
<1>9. Rebased(a, b, p) = q
  BY DEF Rebased, q, r, k, n
<1> QED BY <1>1, <1>4, <1>6, <1>7, <1>8, <1>9 DEF k, n, m, IsRebased

LEMMA RebasedBack ==
    ASSUME NEW a, IsSeq(a), NEW b, IsSeq(b), NEW p, IsSeq(p), Within(a, p)
    PROVE  Within(b, Rebased(a, b, p)) /\ Rebased(b, a, Rebased(a, b, p)) = p
<1> DEFINE q == Rebased(a, b, p)
           k == Len(a)
           n == Len(p)
           m == Len(b)
<1>0. IsRebased(q, a, b, p)
  BY RebasedIs
<1> HIDE DEF q
<1>1. /\ IsSeq(q) /\ Len(q) = m + (n - k) /\ k \in Nat /\ m \in Nat /\ n \in Nat /\ k \in 0..n
      /\ \A i \in 1..m : q[i] = b[i]
      /\ \A i \in 1..n - k : q[m + i] = p[k + i]
  BY <1>0 DEF IsRebased
<1>2. Within(b, q)
  <2>1. m \in 0..Len(q)
    <3> HIDE DEF k, n, m
    <3> QED BY <1>1
  <2> QED BY <1>1, <2>1, WithinIs
<1> DEFINE r == Rebased(b, a, q)
<1>9. IsRebased(r, b, a, q)
  BY <1>1, <1>2, RebasedIs
<1> HIDE DEF r
<1>3. /\ IsSeq(r) /\ Len(r) = k + (Len(q) - m)
      /\ \A i \in 1..k : r[i] = a[i]
      /\ \A i \in 1..Len(q) - m : r[k + i] = q[m + i]
  BY <1>9 DEF IsRebased
<1>4. \A i \in 1..k : a[i] = p[i]
  BY WithinIs
<1> HIDE DEF k, n, m
<1>5. Len(r) = n /\ Len(q) - m = n - k
  BY <1>1, <1>3
<1>6. ASSUME NEW i \in 1..n PROVE r[i] = p[i]
  <2>1. CASE i <= k
    <3>1. i \in 1..k
      BY <1>1, <2>1
    <3> QED BY <1>3, <1>4, <3>1
  <2>2. CASE ~(i <= k)
    <3> DEFINE j == i - k
    <3>1. j \in 1..n - k /\ k + j = i
      BY <1>1, <2>2
    <3> HIDE DEF j
    <3> QED BY <1>1, <1>3, <1>5, <3>1
  <2> QED BY <2>1, <2>2
<1>7. r = p
  BY <1>3, <1>5, <1>6, SameSeq DEF n
<1> QED BY <1>2, <1>7 DEF r, q

\* What lies above a path that was taken to another place.
LEMMA RebasedPrefix ==
    ASSUME NEW a, IsSeq(a), NEW b, IsSeq(b), NEW p, IsSeq(p), Within(a, p),
           NEW n \in 0..Len(Rebased(a, b, p)) - 1
    PROVE  LET c == SubSeq(Rebased(a, b, p), 1, n)
           IN  \/ n \in 0..Len(b) - 1 /\ c = SubSeq(b, 1, n)
               \/ \E m \in 0..Len(p) - 1 : /\ Within(a, SubSeq(p, 1, m)) /\ m \in 0..Len(p)
                                           /\ c = Rebased(a, b, SubSeq(p, 1, m))
<1> DEFINE q == Rebased(a, b, p)
           c == SubSeq(q, 1, n)
           la == Len(a)
           lb == Len(b)
           lp == Len(p)
<1>0. IsRebased(q, a, b, p) /\ Within(b, q)
  BY RebasedIs, RebasedBack
<1>3. n \in 0..Len(q) - 1
  OBVIOUS
<1> HIDE DEF q
<1>1. /\ IsSeq(q) /\ Len(q) = lb + (lp - la) /\ la \in Nat /\ lb \in Nat /\ lp \in Nat
      /\ la \in 0..lp
      /\ \A i \in 1..lb : q[i] = b[i]
      /\ \A i \in 1..lp - la : q[lb + i] = p[la + i]
  BY <1>0 DEF IsRebased
<1>2. Within(b, q)
  BY <1>0
<1>4. n \in 0..Len(q) /\ n \in Nat
  <2> HIDE DEF la, lb, lp
  <2> QED BY <1>1, <1>3
<1>5. IsSeq(c) /\ Len(c) = n /\ \A i \in 1..n : c[i] = q[i]
  BY <1>1, <1>4, PrefixIs
<1>6. CASE n < lb
  <2>1. n \in 0..lb - 1 /\ n \in 0..lb
    <3> HIDE DEF la, lb, lp
    <3> QED BY <1>1, <1>4, <1>6
  <2>2. lb \in 0..Len(q) /\ b = SubSeq(q, 1, lb)
    BY <1>1, <1>2, WithinIs
  <2>3. SubSeq(b, 1, n) = c
    BY <1>1, <2>1, <2>2, PrefixOfPrefix
  <2> QED BY <2>1, <2>3 DEF q
<1>7. CASE ~(n < lb)
  <2> DEFINE m == la + (n - lb)
             s == SubSeq(p, 1, m)
  <2>1. m \in 0..lp - 1 /\ m \in 0..lp /\ la \in 0..m /\ m \in Nat /\ m - la = n - lb
        /\ n - lb \in Nat
    <3> HIDE DEF la, lb, lp
    <3> QED BY <1>1, <1>3, <1>4, <1>7
  <2> HIDE DEF m
  <2>2. IsSeq(s) /\ Len(s) = m /\ \A i \in 1..m : s[i] = p[i]
    BY <2>1, PrefixIs
  <2> HIDE DEF s
  <2>3. Within(a, s)
    <3>1. \A i \in 1..la : a[i] = p[i]
      BY WithinIs
    <3>2. \A i \in 1..la : i \in 1..m
      <4> HIDE DEF la, lb, lp
      <4> QED BY <2>1
    <3>3. \A i \in 1..la : a[i] = s[i]
      BY <2>2, <3>1, <3>2
    <3> QED BY <2>1, <2>2, <3>3, WithinIs
  <2> DEFINE r == Rebased(a, b, s)
  <2>9. IsRebased(r, a, b, s)
    BY <2>2, <2>3, RebasedIs
  <2> HIDE DEF r
  <2>4. /\ IsSeq(r) /\ Len(r) = lb + (m - la)
        /\ \A i \in 1..lb : r[i] = b[i]
        /\ \A i \in 1..m - la : r[lb + i] = s[la + i]
    BY <2>2, <2>9 DEF IsRebased
  <2> HIDE DEF la, lb, lp
  <2>5. Len(r) = n
    BY <1>1, <1>4, <2>1, <2>4
  <2>6. ASSUME NEW i \in 1..n PROVE r[i] = c[i]
    <3>1. c[i] = q[i]
      BY <1>5
    <3>2. CASE i <= lb
      <4>1. i \in 1..lb
        BY <1>1, <1>4, <3>2
      <4> QED BY <1>1, <2>4, <3>1, <4>1
    <3>3. CASE ~(i <= lb)
      <4> DEFINE j == i - lb
      <4>1. j \in 1..m - la /\ j \in 1..lp - la /\ lb + j = i /\ la + j \in 1..m
        BY <1>1, <1>4, <2>1, <3>3
      <4> HIDE DEF j
      <4>2. r[i] = s[la + j] /\ q[i] = p[la + j]
        BY <1>1, <2>4, <4>1
      <4>3. s[la + j] = p[la + j]
        BY <2>2, <4>1
      <4> QED BY <3>1, <4>2, <4>3
    <3> QED BY <3>2, <3>3
  <2>7. r = c
    BY <1>5, <2>4, <2>5, <2>6, SameSeq
  <2> QED BY <2>1, <2>3, <2>7 DEF r, s, q, lp
<1> QED BY <1>6, <1>7

LEMMA WithinTrans ==
    ASSUME NEW a, IsSeq(a), NEW b, IsSeq(b), NEW c, IsSeq(c), Within(a, b), Within(b, c)
    PROVE  Within(a, c)
<1>1. Len(a) \in 0..Len(b) /\ Len(b) \in 0..Len(c) /\ Len(c) \in Nat
  BY WithinIs, IsSeqFacts
<1>2. Len(a) \in 0..Len(c) /\ \A i \in 1..Len(a) : i \in 1..Len(b)
  BY <1>1
<1>3. (\A i \in 1..Len(a) : a[i] = b[i]) /\ (\A i \in 1..Len(b) : b[i] = c[i])
  BY WithinIs
<1>4. \A i \in 1..Len(a) : a[i] = c[i]
  BY <1>2, <1>3
<1> QED BY <1>2, <1>4, WithinIs

LEMMA PrefixWithin ==
    ASSUME NEW s, IsSeq(s), NEW n \in 0..Len(s)
    PROVE  Within(SubSeq(s, 1, n), s) /\ (Within(s, SubSeq(s, 1, n)) => n = Len(s))
<1>1. IsSeq(SubSeq(s, 1, n)) /\ Len(SubSeq(s, 1, n)) = n /\ Len(s) \in Nat
  BY PrefixIs
<1>2. Within(SubSeq(s, 1, n), s)
  BY <1>1, WithinIs
<1>3. ASSUME Within(s, SubSeq(s, 1, n)) PROVE n = Len(s)
  <2>1. Len(s) \in 0..n
    BY <1>1, <1>3, WithinIs
  <2> QED BY <1>1, <2>1
<1> QED BY <1>2, <1>3

LEMMA RenamedGives ==
    ASSUME NEW d, IsDisk(d), NEW f, IsSeq(f), NEW t, IsSeq(t)
    PROVE  /\ \A p \in DOMAIN Renamed(d, f, t) :
                 \/ /\ p \in DOMAIN d /\ p # t /\ ~Within(f, p)
                    /\ Renamed(d, f, t)[p] = d[p]
                 \/ \E q \in DOMAIN d : /\ Within(f, q) /\ p = Rebased(f, t, q)
                                        /\ Renamed(d, f, t)[p] = d[q]
           /\ \A q \in DOMAIN d : Within(f, q) =>
                 Kind(Renamed(d, f, t), Rebased(f, t, q)) = Kind(d, q)
           /\ \A p : p # t /\ ~Within(f, p) /\ ~Within(t, p) =>
                 Kind(Renamed(d, f, t), p) = Kind(d, p)
<1> DEFINE moving == {q \in DOMAIN d : Within(f, q)}
           new == {Rebased(f, t, q) : q \in moving}
           e == Renamed(d, f, t)
<1>1. e = [p \in (DOMAIN d \ (moving \cup {t})) \cup new |->
              IF p \in new THEN d[Rebased(t, f, p)] ELSE d[p]]
  BY DEF Renamed, Rebased
<1> HIDE DEF e, new
<1>2. DOMAIN e = (DOMAIN d \ (moving \cup {t})) \cup new
      /\ \A p \in DOMAIN e : e[p] = IF p \in new THEN d[Rebased(t, f, p)] ELSE d[p]
  BY <1>1
<1>3. ASSUME NEW q \in moving
      PROVE  /\ Rebased(f, t, q) \in new /\ Rebased(t, f, Rebased(f, t, q)) = q
             /\ Within(t, Rebased(f, t, q))
  <2>1. IsSeq(q)
    BY EntriesAreReal
  <2> QED BY <2>1, RebasedBack DEF new
<1>4. ASSUME NEW p \in new PROVE \E q \in moving : p = Rebased(f, t, q)
  BY DEF new
<1>5. ASSUME NEW p \in DOMAIN e, p \notin new
      PROVE  p \in DOMAIN d /\ p # t /\ ~Within(f, p) /\ e[p] = d[p]
  BY <1>2, <1>5
<1>6. ASSUME NEW q \in moving
      PROVE  Rebased(f, t, q) \in DOMAIN e /\ e[Rebased(f, t, q)] = d[q]
  BY <1>2, <1>3
<1>7. ASSUME NEW p \in new
      PROVE  \E q \in DOMAIN d : Within(f, q) /\ p = Rebased(f, t, q) /\ e[p] = d[q]
  <2>1. PICK q \in moving : p = Rebased(f, t, q)
    BY <1>4
  <2> QED BY <1>6, <2>1
<1>8. ASSUME NEW q \in DOMAIN d, Within(f, q) PROVE Kind(e, Rebased(f, t, q)) = Kind(d, q)
  BY <1>6, <1>8 DEF Kind
<1>9. ASSUME NEW p, p # t, ~Within(f, p), ~Within(t, p) PROVE Kind(e, p) = Kind(d, p)
  <2>1. p \notin new
    BY <1>3, <1>4, <1>9
  <2>2. p \in DOMAIN e <=> p \in DOMAIN d
    BY <1>2, <1>9, <2>1
  <2>3. p \in DOMAIN e => e[p] = d[p]
    BY <1>2, <2>1
  <2> QED BY <2>2, <2>3 DEF Kind
<1>10. \A p \in DOMAIN e : \/ p \in DOMAIN d /\ p # t /\ ~Within(f, p) /\ e[p] = d[p]
                           \/ \E q \in DOMAIN d : Within(f, q) /\ p = Rebased(f, t, q) /\ e[p] = d[q]
  BY <1>5, <1>7
<1> QED BY <1>8, <1>9, <1>10 DEF e

LEMMA RenamedKeepsDisk ==
    ASSUME NEW d, IsDisk(d), NEW f, IsSeq(f), NEW t, IsSeq(t), Real(d, t), Inside(d, t) = {},
           ~Within(f, t)
    PROVE  IsDisk(Renamed(d, f, t))
<1> DEFINE e == Renamed(d, f, t)
<1>1. /\ \A p \in DOMAIN e :
           \/ p \in DOMAIN d /\ p # t /\ ~Within(f, p) /\ e[p] = d[p]
           \/ \E q \in DOMAIN d : Within(f, q) /\ p = Rebased(f, t, q) /\ e[p] = d[q]
      /\ \A q \in DOMAIN d : Within(f, q) => Kind(e, Rebased(f, t, q)) = Kind(d, q)
      /\ \A p : p # t /\ ~Within(f, p) /\ ~Within(t, p) => Kind(e, p) = Kind(d, p)
  BY RenamedGives
<1> HIDE DEF e
<1>2. ASSUME NEW q \in DOMAIN d
      PROVE  /\ IsSeq(q) /\ Real(d, q) /\ d[q].kind \in {"dir", "file", "link"}
             /\ d[q].kind = "link" => IsSeq(d[q].to)
  BY EntriesAreReal DEF IsDisk, IsSeq
<1>3. ASSUME NEW p \in DOMAIN d, p # t, ~Within(f, p), NEW n \in 0..Len(p) - 1
      PROVE  Kind(e, SubSeq(p, 1, n)) = "dir"
  <2> DEFINE c == SubSeq(p, 1, n)
  <2>1. IsSeq(p) /\ Kind(d, c) = "dir" /\ p \in Inside(d, c) /\ n \in 0..Len(p)
    BY <1>2, InsideIs
  <2>2. IsSeq(c) /\ Within(c, p)
    BY <2>1, PrefixIs, PrefixWithin
  <2> HIDE DEF c
  <2>3. ~Within(f, c)
    BY <1>3, <2>1, <2>2, WithinTrans
  <2>4. ~Within(t, p)
    BY <1>3 DEF Inside
  <2>5. ~Within(t, c) /\ c # t
    BY <2>1, <2>2, <2>4, WithinTrans
  <2> QED BY <1>1, <2>1, <2>3, <2>5 DEF c
<1>4. ASSUME NEW q \in DOMAIN d, Within(f, q), NEW n \in 0..Len(Rebased(f, t, q)) - 1
      PROVE  Kind(e, SubSeq(Rebased(f, t, q), 1, n)) = "dir"
  <2> DEFINE p == Rebased(f, t, q)
             c == SubSeq(p, 1, n)
  <2>1. IsSeq(q) /\ Real(d, q)
    BY <1>2
  <2>2. \/ n \in 0..Len(t) - 1 /\ c = SubSeq(t, 1, n)
        \/ \E m \in 0..Len(q) - 1 : /\ Within(f, SubSeq(q, 1, m)) /\ m \in 0..Len(q)
                                    /\ c = Rebased(f, t, SubSeq(q, 1, m))
    BY <1>4, <2>1, RebasedPrefix
  <2> HIDE DEF c
  <2>3. CASE n \in 0..Len(t) - 1 /\ c = SubSeq(t, 1, n)
    <3>1. Kind(d, c) = "dir" /\ Len(t) \in Nat
      BY <2>3, IsSeqFacts DEF Real
    <3>2. n \in 0..Len(t) /\ n # Len(t)
      BY <2>3, <3>1
    <3>3. IsSeq(c) /\ Within(c, t) /\ ~Within(t, c) /\ c # t
      BY <2>3, <3>2, PrefixIs, PrefixWithin
    <3>4. ~Within(f, c)
      BY <3>3, WithinTrans
    <3> QED BY <1>1, <3>1, <3>3, <3>4 DEF c
  <2>4. ASSUME NEW m \in 0..Len(q) - 1, Within(f, SubSeq(q, 1, m)), m \in 0..Len(q),
               c = Rebased(f, t, SubSeq(q, 1, m))
        PROVE  Kind(e, c) = "dir"
    <3>1. Kind(d, SubSeq(q, 1, m)) = "dir" /\ SubSeq(q, 1, m) \in DOMAIN d
      BY InsideIs
    <3> QED BY <1>1, <2>4, <3>1
  <2> QED BY <2>2, <2>3, <2>4 DEF c
<1> SUFFICES ASSUME NEW p \in DOMAIN e
             PROVE  /\ IsSeq(p)
                    /\ \A n \in 0..Len(p) - 1 : Kind(e, SubSeq(p, 1, n)) = "dir"
                    /\ e[p].kind \in {"dir", "file", "link"}
                    /\ e[p].kind = "link" => IsSeq(e[p].to)
  BY DEF e, IsDisk, IsSeq
<1>5. CASE p \in DOMAIN d /\ p # t /\ ~Within(f, p) /\ e[p] = d[p]
  BY <1>2, <1>3, <1>5
<1>6. ASSUME NEW q \in DOMAIN d, Within(f, q), p = Rebased(f, t, q), e[p] = d[q]
      PROVE  /\ IsSeq(p)
             /\ \A n \in 0..Len(p) - 1 : Kind(e, SubSeq(p, 1, n)) = "dir"
             /\ e[p].kind \in {"dir", "file", "link"}
             /\ e[p].kind = "link" => IsSeq(e[p].to)
  <2>1. IsSeq(q)
    BY <1>2
  <2>2. IsSeq(p)
    BY <1>6, <2>1, RebasedIs DEF IsRebased
  <2> QED BY <1>2, <1>4, <1>6, <2>2
<1> QED BY <1>1, <1>5, <1>6

-----------------------------------------------------------------------------
(* A call that fails leaves the disk alone, and one that does not leaves a disk. *)

IsResult(d, r) == IsDisk(r.disk) /\ (r.err # "" => r.disk = d)

LEMMA RefusedIs ==
    ASSUME NEW d, NEW e
    PROVE  Refused(d, e).err = e /\ Refused(d, e).disk = d
BY DEF Refused

LEMMA DoneIs ==
    ASSUME NEW d
    PROVE  Done(d).err = "" /\ Done(d).disk = d
BY DEF Done

LEMMA ResultIs ==
    ASSUME NEW d, IsDisk(d), NEW w,
           \/ \E e : w = Refused(d, e)
           \/ \E n : IsDisk(n) /\ w = Done(n)
    PROVE  IsResult(d, w)
BY RefusedIs, DoneIs DEF IsResult

LEMMA OsStatResult ==
    ASSUME NEW d, IsDisk(d), NEW p
    PROVE  IsResult(d, OsStat(d, p)) /\ OsStat(d, p).disk = d
<1> DEFINE r == Reached(d, p)
           Do(at) == IF Kind(d, at) = "none" THEN Refused(d, "ENOENT") ELSE Done(d)
           In(x) == IF x.err # "" THEN Refused(d, x.err) ELSE Do(x.path)
           w == OsStat(d, p)
<1>1. w = With(r, In)
  BY DEF OsStat, Via, With
<1> HIDE DEF r, w
<1>2. w = In(r)
  <2> HIDE DEF In
  <2> QED BY <1>1 DEF With
<1>3. w = Done(d) \/ \E e : w = Refused(d, e)
  BY <1>2
<1>4. IsResult(d, w) /\ w.disk = d
  BY <1>3, ResultIs, RefusedIs, DoneIs
<1> QED BY <1>4 DEF w

LEMMA OsRemoveFileIs ==
    ASSUME NEW d, NEW p
    PROVE  OsRemoveFile(d, p) =
              IF Reached(d, p).err # "" THEN Refused(d, Reached(d, p).err)
              ELSE IF Kind(d, Reached(d, p).path) = "none" THEN Refused(d, "ENOENT")
              ELSE IF Kind(d, Reached(d, p).path) = "dir" THEN Refused(d, "EISDIR")
              ELSE Done(Drop(d, Reached(d, p).path))
<1> DEFINE r == Reached(d, p)
           Do(at) == IF Kind(d, at) = "none" THEN Refused(d, "ENOENT")
                     ELSE IF Kind(d, at) = "dir" THEN Refused(d, "EISDIR")
                     ELSE Done(Drop(d, at))
           In(x) == IF x.err # "" THEN Refused(d, x.err) ELSE Do(x.path)
<1>1. OsRemoveFile(d, p) = With(r, In)
  BY DEF OsRemoveFile, Via, With
<1> HIDE DEF r
<1>2. OsRemoveFile(d, p) = In(r)
  <2> HIDE DEF In
  <2> QED BY <1>1 DEF With
<1> QED BY <1>2 DEF r

LEMMA OsRemoveFileResult ==
    ASSUME NEW d, IsDisk(d), NEW p
    PROVE  IsResult(d, OsRemoveFile(d, p))
<1> DEFINE w == OsRemoveFile(d, p)
           at == Reached(d, p).path
<1>1. \/ \E e : w = Refused(d, e)
      \/ Kind(d, at) # "dir" /\ w = Done(Drop(d, at))
  BY OsRemoveFileIs
<1> HIDE DEF w, at
<1>2. Kind(d, at) # "dir" => IsDisk(Drop(d, at))
  BY DropKeepsDisk
<1>3. IsResult(d, w)
  BY <1>1, <1>2, ResultIs
<1> QED BY <1>3 DEF w

LEMMA OsRemoveDirResult ==
    ASSUME NEW d, IsDisk(d), NEW p
    PROVE  IsResult(d, OsRemoveDir(d, p))
<1> DEFINE r == Reached(d, p)
           Do(at) == CASE Kind(d, at) = "none"             -> Refused(d, "ENOENT")
                       [] Kind(d, at) \in {"file", "link"} -> Refused(d, "ENOTDIR")
                       [] Inside(d, at) # {}               -> Refused(d, "ENOTEMPTY")
                       [] OTHER                            -> Done(Drop(d, at))
           In(x) == IF x.err # "" THEN Refused(d, x.err) ELSE Do(x.path)
           w == OsRemoveDir(d, p)
           at == r.path
<1>1. w = With(r, In)
  BY DEF OsRemoveDir, Via, With
<1> HIDE DEF r, w
<1>2. w = In(r)
  <2> HIDE DEF In
  <2> QED BY <1>1 DEF With
<1>3. \/ \E e : w = Refused(d, e)
      \/ Inside(d, at) = {} /\ w = Done(Drop(d, at))
  <2>1. r.err # "" => w = Refused(d, r.err)
    BY <1>2
  <2>2. ASSUME r.err = ""
        PROVE  \/ w = Refused(d, "ENOENT") \/ w = Refused(d, "ENOTDIR")
               \/ w = Refused(d, "ENOTEMPTY")
               \/ Inside(d, at) = {} /\ w = Done(Drop(d, at))
    <3>1. w = Do(at)
      <4> HIDE DEF Do
      <4> QED BY <1>2, <2>2
    <3> HIDE DEF In, at
    <3> QED BY <3>1
  <2> QED BY <2>1, <2>2
<1> HIDE DEF at, In, Do
<1>4. Inside(d, at) = {} => IsDisk(Drop(d, at))
  BY DropKeepsDisk
<1>5. IsResult(d, w)
  BY <1>3, <1>4, ResultIs
<1> QED BY <1>5 DEF w

LEMMA PutIsDisk ==
    ASSUME NEW d, IsDisk(d), NEW at, IsSeq(at), Real(d, at), Kind(d, at) # "dir", NEW v
    PROVE  IsDisk(Put(d, at, DirEntry)) /\ IsDisk(Put(d, at, FileEntry(v)))
<1>1. DirEntry.kind \in {"dir", "file"} /\ FileEntry(v).kind \in {"dir", "file"}
  BY DEF DirEntry, FileEntry
<1>2. \A x : x.kind \in {"dir", "file"} => IsDisk(Put(d, at, x))
  BY PutKeepsDisk
<1> QED BY <1>1, <1>2

LEMMA OsCreateDirResult ==
    ASSUME NEW d, IsDisk(d), NEW p, IsSeq(p)
    PROVE  IsResult(d, OsCreateDir(d, p))
<1> DEFINE r == Reached(d, p)
           Do(at) == IF Kind(d, at) # "none" THEN Refused(d, "EEXIST")
                     ELSE Done(Put(d, at, DirEntry))
           In(x) == IF x.err # "" THEN Refused(d, x.err) ELSE Do(x.path)
           w == OsCreateDir(d, p)
           at == r.path
<1>1. w = With(r, In)
  BY DEF OsCreateDir, Via, With
<1>2. r.err = "" => IsSeq(at) /\ Real(d, at)
  BY ReachedIs
<1> HIDE DEF r, w
<1>3. w = In(r)
  <2> HIDE DEF In
  <2> QED BY <1>1 DEF With
<1>4. \/ \E e : w = Refused(d, e)
      \/ r.err = "" /\ Kind(d, at) = "none" /\ w = Done(Put(d, at, DirEntry))
  BY <1>3
<1> HIDE DEF at, In
<1>5. r.err = "" /\ Kind(d, at) # "dir" => IsDisk(Put(d, at, DirEntry))
  BY <1>2, PutIsDisk
<1>6. IsResult(d, w)
  BY <1>4, <1>5, ResultIs
<1> QED BY <1>6 DEF w

LEMMA OsWriteResult ==
    ASSUME NEW d, IsDisk(d), NEW p, IsSeq(p), NEW create, NEW create_new, NEW v
    PROVE  IsResult(d, OsWrite(d, p, create, create_new, v))
<1> DEFINE r == Reached(d, p)
           Do(at) == IF Kind(d, at) # "none" /\ create_new THEN Refused(d, "EEXIST")
                     ELSE IF Kind(d, at) = "link" THEN Refused(d, "ELOOP")
                     ELSE IF Kind(d, at) = "dir" THEN Refused(d, "EISDIR")
                     ELSE IF Kind(d, at) = "none" /\ ~create /\ ~create_new
                     THEN Refused(d, "ENOENT")
                     ELSE Done(Put(d, at, FileEntry(v)))
           In(x) == IF x.err # "" THEN Refused(d, x.err) ELSE Do(x.path)
           w == OsWrite(d, p, create, create_new, v)
           at == r.path
<1>1. w = With(r, In)
  BY DEF OsWrite, Via, With
<1>2. r.err = "" => IsSeq(at) /\ Real(d, at)
  BY ReachedIs
<1> HIDE DEF r, w
<1>3. w = In(r)
  <2> HIDE DEF In
  <2> QED BY <1>1 DEF With
<1> HIDE DEF at
<1>4. ASSUME r.err = ""
      PROVE  \/ w = Refused(d, "EEXIST") \/ w = Refused(d, "ELOOP")
             \/ w = Refused(d, "EISDIR") \/ w = Refused(d, "ENOENT")
             \/ Kind(d, at) # "dir" /\ w = Done(Put(d, at, FileEntry(v)))
  <2>1. w = Do(at)
    <3> HIDE DEF Do
    <3> QED BY <1>3, <1>4 DEF at
  <2> HIDE DEF In
  <2> QED BY <2>1
<1>5. r.err # "" => w = Refused(d, r.err)
  BY <1>3
<1> HIDE DEF In, Do
<1>6. r.err = "" /\ Kind(d, at) # "dir" => IsDisk(Put(d, at, FileEntry(v)))
  BY <1>2, PutIsDisk
<1>7. IsResult(d, w)
  BY <1>4, <1>5, <1>6, ResultIs
<1> QED BY <1>7 DEF w

\* A write that is done has put something where p leads.
LEMMA OsWriteWhere ==
    ASSUME NEW d, NEW p, NEW v,
           OsWrite(d, p, TRUE, FALSE, v).err = ""
    PROVE  /\ Reached(d, p).err = ""
           /\ \E x : OsWrite(d, p, TRUE, FALSE, v).disk = Put(d, Reached(d, p).path, x)
<1> DEFINE r == Reached(d, p)
           Do(at) == IF Kind(d, at) = "link" THEN Refused(d, "ELOOP")
                     ELSE IF Kind(d, at) = "dir" THEN Refused(d, "EISDIR")
                     ELSE Done(Put(d, at, FileEntry(v)))
           In(x) == IF x.err # "" THEN Refused(d, x.err) ELSE Do(x.path)
           w == OsWrite(d, p, TRUE, FALSE, v)
<1>1. w = With(r, In)
  BY DEF OsWrite, Via, With
<1> HIDE DEF r, w
<1>2. w = In(r)
  <2> HIDE DEF In
  <2> QED BY <1>1 DEF With
<1>3. \A e : Refused(d, e).err = e
  BY RefusedIs
<1>4. w.err = ""
  BY DEF w
<1>5. r.err = "" /\ w = Do(r.path)
  <2> HIDE DEF Do
  <2> QED BY <1>2, <1>3, <1>4
<1>6. w = Done(Put(d, r.path, FileEntry(v)))
  <2>1. \/ w = Refused(d, "ELOOP") \/ w = Refused(d, "EISDIR")
        \/ w = Done(Put(d, r.path, FileEntry(v)))
    BY <1>5
  <2>2. Refused(d, "ELOOP").err = "ELOOP" /\ Refused(d, "EISDIR").err = "EISDIR"
    BY RefusedIs
  <2> HIDE DEF Do, In
  <2> QED BY <1>4, <2>1, <2>2
<1>7. w.disk = Put(d, r.path, FileEntry(v))
  BY <1>6, DoneIs
<1> QED BY <1>5, <1>7 DEF r, w

LEMMA OsCopyResult ==
    ASSUME NEW d, IsDisk(d), NEW from, NEW to, IsSeq(to), NEW whole
    PROVE  IsResult(d, OsCopy(d, from, to, whole))
<1>1. IsResult(d, Refused(d, "EINVAL"))
  BY ResultIs
<1>2. \A v : IsResult(d, OsWrite(d, to, TRUE, FALSE, v))
  BY OsWriteResult
<1> QED BY <1>1, <1>2 DEF OsCopy

LEMMA RenameAtResult ==
    ASSUME NEW d, IsDisk(d), NEW f, IsSeq(f), NEW t, IsSeq(t), Real(d, t)
    PROVE  IsResult(d, RenameAt(d, f, t))
<1> DEFINE w == RenameAt(d, f, t)
           n == Renamed(d, f, t)
<1>1. \/ \E e : w = Refused(d, e)
      \/ w = Done(d)
      \/ Inside(d, t) = {} /\ ~Within(f, t) /\ w = Done(n)
  BY DEF RenameAt
<1>2. Inside(d, t) = {} /\ ~Within(f, t) => IsDisk(n)
  BY RenamedKeepsDisk
<1> HIDE DEF w, n
<1>3. IsResult(d, w)
  BY <1>1, <1>2, ResultIs
<1> QED BY <1>3 DEF w

\* rename works on the two entries it reaches.
LEMMA OsRenameIs ==
    ASSUME NEW d, NEW from, NEW to
    PROVE  OsRename(d, from, to) =
              IF Reached(d, from).err # "" THEN Refused(d, Reached(d, from).err)
              ELSE IF Reached(d, to).err # "" THEN Refused(d, Reached(d, to).err)
              ELSE RenameAt(d, Reached(d, from).path, Reached(d, to).path)
<1> DEFINE f == Reached(d, from)
           t == Reached(d, to)
           To(x, y) == IF y.err # "" THEN Refused(d, y.err) ELSE RenameAt(d, x.path, y.path)
           In(x) == IF x.err # "" THEN Refused(d, x.err) ELSE With(t, LAMBDA y : To(x, y))
<1>1. OsRename(d, from, to) = With(f, In)
  BY DEF OsRename, Via, With
<1> HIDE DEF f, t
<1>2. OsRename(d, from, to) = In(f)
  <2> HIDE DEF In
  <2> QED BY <1>1 DEF With
<1>3. With(t, LAMBDA y : To(f, y)) = To(f, t)
  <2> HIDE DEF To
  <2> QED BY DEF With
<1> QED BY <1>2, <1>3 DEF f, t

LEMMA OsRenameResult ==
    ASSUME NEW d, IsDisk(d), NEW from, IsSeq(from), NEW to, IsSeq(to)
    PROVE  IsResult(d, OsRename(d, from, to))
<1>1. Reached(d, from).err = "" => IsSeq(Reached(d, from).path)
  BY ReachedIs
<1>2. Reached(d, to).err = "" => IsSeq(Reached(d, to).path) /\ Real(d, Reached(d, to).path)
  BY ReachedIs
<1>3. \A e : IsResult(d, Refused(d, e))
  BY ResultIs
<1> QED BY <1>1, <1>2, <1>3, OsRenameIs, RenameAtResult

-----------------------------------------------------------------------------
(* The blocking closures.                                                  *)

LEMMA NotLinkResult ==
    ASSUME NEW d, IsDisk(d), NEW p, NEW r, IsResult(d, r)
    PROVE  IsResult(d, NotLink(d, p, r)) /\ (r.disk = d => NotLink(d, p, r).disk = d)
<1> DEFINE at == Reached(d, p)
           In(x) == IF x.err = "" /\ Kind(d, x.path) = "link" THEN Refused(d, "Forbidden") ELSE r
<1>1. NotLink(d, p, r) = With(at, In)
  BY DEF NotLink, With
<1> HIDE DEF at
<1>2. NotLink(d, p, r) = In(at)
  <2> HIDE DEF In
  <2> QED BY <1>1 DEF With
<1>3. NotLink(d, p, r) = r \/ NotLink(d, p, r) = Refused(d, "Forbidden")
  BY <1>2
<1>4. IsResult(d, Refused(d, "Forbidden")) /\ Refused(d, "Forbidden").disk = d
  BY ResultIs, RefusedIs
<1> QED BY <1>3, <1>4

\* confine_leaf finds a path.
LEMMA LeafSeq ==
    ASSUME NEW d, IsDisk(d), NEW p, IsSeq(p), confine_leaf(d, p).err = ""
    PROVE  IsSeq(confine_leaf(d, p).path)
<1>1. IsSeq(Base)
  BY LocalFsAssumption DEF IsSeq
<1> QED BY <1>1, LeafIs

LEMMA DoSymlinkMetadataResult ==
    ASSUME NEW d, IsDisk(d), NEW p, IsSeq(p)
    PROVE  IsResult(d, DoSymlinkMetadata(d, p))
<1> DEFINE v == confine_leaf(d, p)
           Do(x) == OsStat(d, x)
           In(x) == IF x.err # "" THEN Refused(d, x.err) ELSE Do(x.path)
           w == DoSymlinkMetadata(d, p)
<1>1. w = With(v, In)
  BY DEF DoSymlinkMetadata, OnLeaf, With
<1> HIDE DEF v, w
<1>2. w = In(v)
  <2> HIDE DEF In
  <2> QED BY <1>1 DEF With
<1>3. IsResult(d, Do(v.path)) /\ IsResult(d, Refused(d, v.err))
  BY OsStatResult, ResultIs
<1> HIDE DEF Do
<1> QED BY <1>2, <1>3 DEF w

LEMMA DoWriteResult ==
    ASSUME NEW d, IsDisk(d), NEW p, IsSeq(p), NEW call
    PROVE  IsResult(d, DoWrite(d, p, call))
<1> DEFINE v == confine_leaf(d, p)
           Do(x) == NotLink(d, x, OsWrite(d, x, call.create, call.create_new, call.val))
           In(x) == IF x.err # "" THEN Refused(d, x.err) ELSE Do(x.path)
           w == DoWrite(d, p, call)
<1>1. w = With(v, In)
  BY DEF DoWrite, OnLeaf, With
<1>2. v.err = "" => IsSeq(v.path)
  BY LeafSeq
<1> HIDE DEF v, w
<1>3. w = In(v)
  <2> HIDE DEF In
  <2> QED BY <1>1 DEF With
<1>4. v.err = "" => IsResult(d, Do(v.path))
  <2>1. v.err = "" => IsResult(d, OsWrite(d, v.path, call.create, call.create_new, call.val))
    BY <1>2, OsWriteResult
  <2> QED BY <2>1, NotLinkResult
<1>5. IsResult(d, Refused(d, v.err))
  BY ResultIs
<1> HIDE DEF Do
<1> QED BY <1>3, <1>4, <1>5 DEF w

LEMMA DoCreateDirResult ==
    ASSUME NEW d, IsDisk(d), NEW p, IsSeq(p)
    PROVE  IsResult(d, DoCreateDir(d, p))
<1> DEFINE v == confine_leaf(d, p)
           Do(x) == NotLink(d, x, OsCreateDir(d, x))
           In(x) == IF x.err # "" THEN Refused(d, x.err) ELSE Do(x.path)
           w == DoCreateDir(d, p)
<1>1. w = With(v, In)
  BY DEF DoCreateDir, OnLeaf, With
<1>2. v.err = "" => IsSeq(v.path)
  BY LeafSeq
<1> HIDE DEF v, w
<1>3. w = In(v)
  <2> HIDE DEF In
  <2> QED BY <1>1 DEF With
<1>4. v.err = "" => IsResult(d, Do(v.path))
  <2>1. v.err = "" => IsResult(d, OsCreateDir(d, v.path))
    BY <1>2, OsCreateDirResult
  <2> QED BY <2>1, NotLinkResult
<1>5. IsResult(d, Refused(d, v.err))
  BY ResultIs
<1> HIDE DEF Do
<1> QED BY <1>3, <1>4, <1>5 DEF w

LEMMA DoMarkResult ==
    ASSUME NEW d, IsDisk(d), NEW p, IsSeq(p), NEW name
    PROVE  IsResult(d, DoMark(d, p, name))
<1> DEFINE v == confine_leaf(d, p)
           Do(x) == NotLink(d, Append(x, name), OsWrite(d, Append(x, name), TRUE, FALSE, "empty"))
           In(x) == IF x.err # "" THEN Refused(d, x.err) ELSE Do(x.path)
           w == DoMark(d, p, name)
<1>1. w = With(v, In)
  BY DEF DoMark, OnLeaf, With
<1>2. v.err = "" => IsSeq(v.path)
  BY LeafSeq
<1> HIDE DEF v, w
<1>3. w = In(v)
  <2> HIDE DEF In
  <2> QED BY <1>1 DEF With
<1>4. v.err = "" => IsResult(d, Do(v.path))
  <2>1. v.err = "" => IsSeq(Append(v.path, name))
    BY <1>2, AppendSeq
  <2>2. v.err = "" => IsResult(d, OsWrite(d, Append(v.path, name), TRUE, FALSE, "empty"))
    BY <2>1, OsWriteResult
  <2> QED BY <2>2, NotLinkResult
<1>5. IsResult(d, Refused(d, v.err))
  BY ResultIs
<1> HIDE DEF Do
<1> QED BY <1>3, <1>4, <1>5 DEF w

LEMMA DoRemoveDirResult ==
    ASSUME NEW d, IsDisk(d), NEW p, IsSeq(p)
    PROVE  IsResult(d, DoRemoveDir(d, p))
<1> DEFINE v == confine_leaf(d, p)
           Do(x) == OsRemoveDir(d, x)
           In(x) == IF x.err # "" THEN Refused(d, x.err) ELSE Do(x.path)
           w == DoRemoveDir(d, p)
<1>1. w = With(v, In)
  BY DEF DoRemoveDir, OnLeaf, With
<1>2. v.err = "" => IsSeq(v.path)
  BY LeafSeq
<1> HIDE DEF v, w
<1>3. w = In(v)
  <2> HIDE DEF In
  <2> QED BY <1>1 DEF With
<1>4. v.err = "" => IsResult(d, Do(v.path))
  BY <1>2, OsRemoveDirResult
<1>5. IsResult(d, Refused(d, v.err))
  BY ResultIs
<1> HIDE DEF Do
<1> QED BY <1>3, <1>4, <1>5 DEF w

LEMMA DoRemoveFileResult ==
    ASSUME NEW d, IsDisk(d), NEW p, IsSeq(p)
    PROVE  IsResult(d, DoRemoveFile(d, p))
<1> DEFINE v == confine_leaf(d, p)
           Do(x) == OsRemoveFile(d, x)
           In(x) == IF x.err # "" THEN Refused(d, x.err) ELSE Do(x.path)
           w == DoRemoveFile(d, p)
<1>1. w = With(v, In)
  BY DEF DoRemoveFile, OnLeaf, With
<1>2. v.err = "" => IsSeq(v.path)
  BY LeafSeq
<1> HIDE DEF v, w
<1>3. w = In(v)
  <2> HIDE DEF In
  <2> QED BY <1>1 DEF With
<1>4. v.err = "" => IsResult(d, Do(v.path))
  BY <1>2, OsRemoveFileResult
<1>5. IsResult(d, Refused(d, v.err))
  BY ResultIs
<1> HIDE DEF Do
<1> QED BY <1>3, <1>4, <1>5 DEF w

LEMMA DoSetModifiedResult ==
    ASSUME NEW d, IsDisk(d), NEW p, IsSeq(p)
    PROVE  IsResult(d, DoSetModified(d, p))
<1> DEFINE v == confine_leaf(d, p)
           Do(x) == NotLink(d, x, OsStat(d, x))
           In(x) == IF x.err # "" THEN Refused(d, x.err) ELSE Do(x.path)
           w == DoSetModified(d, p)
<1>1. w = With(v, In)
  BY DEF DoSetModified, OnLeaf, With
<1>2. v.err = "" => IsSeq(v.path)
  BY LeafSeq
<1> HIDE DEF v, w
<1>3. w = In(v)
  <2> HIDE DEF In
  <2> QED BY <1>1 DEF With
<1>4. v.err = "" => IsResult(d, Do(v.path))
  <2>1. v.err = "" => IsResult(d, OsStat(d, v.path))
    BY OsStatResult
  <2> QED BY <2>1, NotLinkResult
<1>5. IsResult(d, Refused(d, v.err))
  BY ResultIs
<1> HIDE DEF Do
<1> QED BY <1>3, <1>4, <1>5 DEF w

LEMMA DoCopyResult ==
    ASSUME NEW d, IsDisk(d), NEW p, NEW to, IsSeq(to), NEW whole
    PROVE  IsResult(d, DoCopy(d, p, to, whole))
<1> DEFINE from == confine_follow(d, p)
           v == confine_leaf(d, to)
           Do(x) == NotLink(d, x, OsCopy(d, from.path, x, whole))
           In(x) == IF x.err # "" THEN Refused(d, x.err) ELSE Do(x.path)
           w == DoCopy(d, p, to, whole)
<1>1. w = IF from.err # "" THEN Refused(d, from.err) ELSE With(v, In)
  BY DEF DoCopy, OnLeaf, With
<1>2. v.err = "" => IsSeq(v.path)
  BY LeafSeq
<1> HIDE DEF v, w, from
<1>3. w = Refused(d, from.err) \/ w = In(v)
  <2> HIDE DEF In
  <2> QED BY <1>1 DEF With
<1>4. v.err = "" => IsResult(d, Do(v.path))
  <2>1. v.err = "" => IsResult(d, OsCopy(d, from.path, v.path, whole))
    BY <1>2, OsCopyResult
  <2> QED BY <2>1, NotLinkResult
<1>5. \A e : IsResult(d, Refused(d, e))
  BY ResultIs
<1> HIDE DEF Do
<1> QED BY <1>3, <1>4, <1>5 DEF w

LEMMA NotLinkIs ==
    ASSUME NEW d, NEW p, NEW r
    PROVE  NotLink(d, p, r) \in {r, Refused(d, "Forbidden")}
<1> DEFINE at == Reached(d, p)
           In(x) == IF x.err = "" /\ Kind(d, x.path) = "link" THEN Refused(d, "Forbidden") ELSE r
<1>1. NotLink(d, p, r) = With(at, In)
  BY DEF NotLink, With
<1> HIDE DEF at
<1>2. NotLink(d, p, r) = In(at)
  <2> HIDE DEF In
  <2> QED BY <1>1 DEF With
<1> QED BY <1>2

LEMMA SameButPlace ==
    ASSUME NEW d, NEW p, NEW x
    PROVE  SameBut(d, Put(d, p, x), p) /\ SameBut(d, Drop(d, p), p)
BY DEF SameBut, Put, Drop

\* A copy changes its destination only.
LEMMA DoCopyWhere ==
    ASSUME NEW d, IsDisk(d), NEW p, NEW to, IsSeq(to), NEW whole,
           DoCopy(d, p, to, whole).err = ""
    PROVE  SameBut(d, DoCopy(d, p, to, whole).disk, confine_leaf(d, to).path)
<1> DEFINE from == confine_follow(d, p)
           v == confine_leaf(d, to)
           Do(x) == NotLink(d, x, OsCopy(d, from.path, x, whole))
           In(x) == IF x.err # "" THEN Refused(d, x.err) ELSE Do(x.path)
           w == DoCopy(d, p, to, whole)
<1>1. w = IF from.err # "" THEN Refused(d, from.err) ELSE With(v, In)
  BY DEF DoCopy, OnLeaf, With
<1>2. IsSeq(Base)
  BY LocalFsAssumption DEF IsSeq
<1>3. v.err = "" => /\ IsSeq(v.path)
                    /\ Real(d, v.path) \/ Reached(d, v.path).err = "ENOTDIR"
  BY <1>2, LeafIs
<1>4. w.err = ""
  OBVIOUS
<1>5. \A e : Refused(d, e).err = e
  BY RefusedIs
<1> HIDE DEF v, w, from
<1>6. v.err = "" /\ w = Do(v.path)
  <2>1. w = In(v)
    <3>1. from.err = ""
      BY <1>1, <1>4, <1>5
    <3>2. w = With(v, In)
      BY <1>1, <3>1
    <3> HIDE DEF In
    <3> QED BY <3>2 DEF With
  <2> HIDE DEF Do
  <2> QED BY <1>4, <1>5, <2>1
<1>7. w = OsCopy(d, from.path, v.path, whole)
  <2> DEFINE r == OsCopy(d, from.path, v.path, whole)
  <2>1. w = NotLink(d, v.path, r)
    BY <1>6
  <2> HIDE DEF r, Do, In
  <2>2. w = r \/ w = Refused(d, "Forbidden")
    BY <2>1, NotLinkIs
  <2>3. Refused(d, "Forbidden").err = "Forbidden"
    BY RefusedIs
  <2>4. w = r
    BY <1>4, <2>2, <2>3
  <2> QED BY <2>4 DEF r
<1> HIDE DEF Do, In
<1>8. PICK val : w = OsWrite(d, v.path, TRUE, FALSE, val)
  <2>1. Refused(d, "EINVAL").err = "EINVAL"
    BY RefusedIs
  <2> QED BY <1>4, <1>7, <2>1 DEF OsCopy
<1>9. PICK x : Reached(d, v.path).err = "" /\ w.disk = Put(d, Reached(d, v.path).path, x)
  <2>1. OsWrite(d, v.path, TRUE, FALSE, val).err = ""
    BY <1>4, <1>8
  <2> DEFINE at == v.path
  <2>2. OsWrite(d, at, TRUE, FALSE, val).err = ""
    BY <2>1
  <2> HIDE DEF at
  <2>3. /\ Reached(d, at).err = ""
        /\ \E x : OsWrite(d, at, TRUE, FALSE, val).disk = Put(d, Reached(d, at).path, x)
    BY ONLY <2>2, OsWriteWhere
  <2> QED BY <1>8, <2>3 DEF at
<1>10. Reached(d, v.path).path = v.path
  <2>1. Real(d, v.path) /\ IsSeq(v.path)
    BY <1>3, <1>6, <1>9
  <2>2. Ok(v.path).path = v.path
    BY DEF Ok
  <2> QED BY <2>1, <2>2, ReachedOfReal
<1> QED BY <1>9, <1>10, SameButPlace DEF v, w

LEMMA DoReadResult ==
    ASSUME NEW d, IsDisk(d), NEW p
    PROVE  IsResult(d, DoRead(d, p))
<1>1. \A e : IsResult(d, Refused(d, e))
  BY ResultIs
<1> QED BY <1>1 DEF DoRead

\* rename(from, to), up to the decision what an error means
LEMMA DoRenameIs ==
    ASSUME NEW d, NEW p, NEW to
    PROVE  DoRename(d, p, to) =
              IF confine_leaf(d, p).err # "" THEN Refused(d, confine_leaf(d, p).err)
              ELSE IF confine_leaf(d, to).err # "" THEN Refused(d, confine_leaf(d, to).err)
              ELSE OsRename(d, confine_leaf(d, p).path, confine_leaf(d, to).path)
<1> DEFINE f == confine_leaf(d, p)
           t == confine_leaf(d, to)
           To(x, y) == IF y.err # "" THEN Refused(d, y.err) ELSE OsRename(d, x.path, y.path)
           In(x) == IF x.err # "" THEN Refused(d, x.err) ELSE With(t, LAMBDA y : To(x, y))
<1>1. DoRename(d, p, to) = With(f, In)
  BY DEF DoRename, OnLeaf, With
<1> HIDE DEF f, t
<1>2. DoRename(d, p, to) = In(f)
  <2> HIDE DEF In
  <2> QED BY <1>1 DEF With
<1>3. With(t, LAMBDA y : To(f, y)) = To(f, t)
  <2> HIDE DEF To
  <2> QED BY DEF With
<1> QED BY <1>2, <1>3 DEF f, t

LEMMA DoRenameResult ==
    ASSUME NEW d, IsDisk(d), NEW p, IsSeq(p), NEW to, IsSeq(to)
    PROVE  IsResult(d, DoRename(d, p, to))
<1>1. confine_leaf(d, p).err = "" => IsSeq(confine_leaf(d, p).path)
  BY LeafSeq
<1>2. confine_leaf(d, to).err = "" => IsSeq(confine_leaf(d, to).path)
  BY LeafSeq
<1>3. \A e : IsResult(d, Refused(d, e))
  BY ResultIs
<1> QED BY <1>1, <1>2, <1>3, DoRenameIs, OsRenameResult

-----------------------------------------------------------------------------
(* A rename that has to clear its destination.                             *)

\* The directory a is to take the place of something at b that is none.
Cleared(d, a, b) ==
    /\ IsSeq(a) /\ IsSeq(b)
    /\ Kind(d, a) = "dir" /\ OsRename(d, a, b).err = "ENOTDIR"
    /\ Real(d, b) \/ Reached(d, b).err = "ENOTDIR"

LEMMA RenameClears ==
    ASSUME NEW d, IsDisk(d), NEW p, IsSeq(p), NEW to, IsSeq(to),
           confine_leaf(d, p).err = "", confine_leaf(d, to).err = "",
           DoRename(d, p, to).err = "ENOTDIR", Kind(d, confine_leaf(d, p).path) = "dir"
    PROVE  Cleared(d, confine_leaf(d, p).path, confine_leaf(d, to).path)
<1>1. IsSeq(Base)
  BY LocalFsAssumption DEF IsSeq
<1>2. /\ IsSeq(confine_leaf(d, p).path) /\ IsSeq(confine_leaf(d, to).path)
      /\ \/ Real(d, confine_leaf(d, to).path)
         \/ Reached(d, confine_leaf(d, to).path).err = "ENOTDIR"
  BY <1>1, LeafIs
<1> QED BY <1>2, DoRenameIs DEF Cleared

\* Then b cannot be reached, or what is at b is removed and a goes there.
LEMMA ClearedIs ==
    ASSUME NEW d, IsDisk(d), NEW a, NEW b, Cleared(d, a, b)
    PROVE  \/ OsRemoveFile(d, b).err = "ENOTDIR"
           \/ /\ OsRemoveFile(d, b).err = "" /\ SameBut(d, OsRemoveFile(d, b).disk, b)
              /\ OsRename(OsRemoveFile(d, b).disk, a, b).err = ""
<1>1. IsSeq(a) /\ IsSeq(b) /\ Kind(d, a) = "dir" /\ OsRename(d, a, b).err = "ENOTDIR"
  BY DEF Cleared
<1>2. CASE Reached(d, b).err = "ENOTDIR"
  <2>1. OsRemoveFile(d, b) = Refused(d, "ENOTDIR")
    BY <1>2, OsRemoveFileIs
  <2>2. Refused(d, "ENOTDIR").err = "ENOTDIR"
    BY RefusedIs
  <2> QED BY <2>1, <2>2
<1>3. CASE Real(d, b)
  <2>1. Real(d, a)
    BY <1>1, KindsAre, EntriesAreReal
  <2>2. \A q : Ok(q).err = "" /\ Ok(q).path = q
    BY DEF Ok
  <2>3. Reached(d, a) = Ok(a) /\ Reached(d, b) = Ok(b)
    BY <1>1, <1>3, <2>1, ReachedOfReal
  <2>4. OsRename(d, a, b) = RenameAt(d, a, b)
    BY <2>2, <2>3, OsRenameIs
  <2>5. /\ Kind(d, b) \in {"file", "link"} /\ a # b /\ ~Within(a, b) /\ ~Within(b, a)
    <3> DEFINE w == RenameAt(d, a, b)
    <3>1. \/ w = Refused(d, "EINVAL") \/ w = Refused(d, "ENOTEMPTY")
          \/ w = Done(d) \/ w = Done(Renamed(d, a, b))
          \/ Kind(d, b) \in {"file", "link"} /\ a # b /\ ~Within(a, b) /\ ~Within(b, a)
      BY <1>1 DEF RenameAt
    <3> HIDE DEF w
    <3>2. w.err = "ENOTDIR"
      BY <1>1, <2>4 DEF w
    <3>3. /\ Refused(d, "EINVAL").err = "EINVAL" /\ Refused(d, "ENOTEMPTY").err = "ENOTEMPTY"
          /\ Done(d).err = "" /\ Done(Renamed(d, a, b)).err = ""
      BY RefusedIs, DoneIs
    <3> QED BY <3>1, <3>2, <3>3
  <2> DEFINE n == Drop(d, b)
  <2>6. OsRemoveFile(d, b) = Done(n)
    BY <2>2, <2>3, <2>5, OsRemoveFileIs
  <2>7. /\ DOMAIN n = DOMAIN d \ {b} /\ Kind(n, b) = "none"
        /\ \A p : p # b => Kind(n, p) = Kind(d, p)
    BY DropGives
  <2> HIDE DEF n
  <2>8. Real(n, a) /\ Real(n, b) /\ Kind(n, a) = "dir"
    BY <1>1, <1>3, <2>1, <2>5, <2>7 DEF Real
  <2>9. Reached(n, a) = Ok(a) /\ Reached(n, b) = Ok(b)
    BY <1>1, <2>8, ReachedOfReal
  <2>10. OsRename(n, a, b) = RenameAt(n, a, b)
    BY <2>2, <2>9, OsRenameIs
  <2>11. Inside(n, b) = {}
    <3>1. Inside(d, b) = {}
      BY <1>1, <2>5, OnlyDirsHold
    <3> QED BY <2>7, <3>1 DEF Inside
  <2>12. RenameAt(n, a, b).err = ""
    <3>1. RenameAt(n, a, b) = Done(Renamed(n, a, b))
      BY <2>5, <2>7, <2>8, <2>11 DEF RenameAt
    <3> QED BY <3>1, DoneIs
  <2>13. SameBut(d, n, b)
    BY SameButPlace DEF n
  <2> QED BY <2>6, <2>10, <2>12, <2>13, DoneIs
<1> QED BY <1>2, <1>3 DEF Cleared

-----------------------------------------------------------------------------
(* The calls keep an invariant of their own: what is known of a call while nobody else changes *)
(* the disk.                                                               *)

TaskFields == {"pc", "made", "call", "at", "to", "entry", "before", "quiet", "there"}

TaskOk(t, d) ==
    t.pc \notin {"none", "answered"} =>
        /\ TaskFields \subseteq DOMAIN t
        /\ IsSeq(t.at) /\ IsSeq(t.to)
        /\ t.quiet \in BOOLEAN
        /\ t.quiet /\ t.pc # "again" => t.before = d
        /\ t.quiet /\ t.pc = "clear" => Cleared(d, t.at, t.to)
        /\ t.quiet /\ t.pc = "again" =>
              OsRename(d, t.at, t.to).err = "" /\ SameBut(t.before, d, t.to)

CallInv == IsDisk(disk) /\ \A c \in Clients : TaskOk(task[c], disk)

\* A step after which no call has failed and changed, alone, more than a destination
Harmless ==
    \A c \in Clients : Fails(c) /\ task[c].quiet =>
        disk' = task[c].before \/ LeavesDestination(c)

LEMMA StepAlone ==
    ASSUME CacheInv, CallInv, NEW c \in Clients, NEW new, NEW next, Step(c, new, next),
           IsDisk(new), TaskOk(next, new),
           task[c].quiet /\ next.pc = "answered" /\ next.answer # "" =>
              new = task[c].before \/ LeavesDestination(c)
    PROVE  CallInv' /\ Harmless
<1> DEFINE later(t) == [t EXCEPT !.quiet = @ /\ new = disk, !.there = @ /\ Exists(new, t.at)]
<1>1. /\ task' = [x \in Clients |-> IF x = c THEN next ELSE IF Busy(x) THEN later(task[x])
                                    ELSE task[x]]
      /\ disk' = new
  BY DEF Step, Change
<1>2. ASSUME NEW t, TaskFields \subseteq DOMAIN t
      PROVE  /\ DOMAIN later(t) = DOMAIN t
             /\ later(t).pc = t.pc /\ later(t).at = t.at /\ later(t).to = t.to
             /\ later(t).before = t.before
             /\ later(t).quiet = (t.quiet /\ new = disk)
  BY <1>2 DEF TaskFields
<1> HIDE DEF later
<1>3. ASSUME NEW x \in Clients, x # c, Busy(x)
      PROVE  TaskOk(task'[x], new) /\ task'[x].pc # "answered"
  <2> DEFINE t == task[x]
  <2>1. task'[x] = later(t)
    BY <1>1, <1>3
  <2>2. t.pc \notin {"none", "answered"} /\ TaskOk(t, disk)
    BY <1>3 DEF Busy, CallInv
  <2> HIDE DEF t
  <2>3. /\ TaskFields \subseteq DOMAIN t /\ IsSeq(t.at) /\ IsSeq(t.to)
        /\ t.quiet \in BOOLEAN
        /\ t.quiet /\ t.pc # "again" => t.before = disk
        /\ t.quiet /\ t.pc = "clear" => Cleared(disk, t.at, t.to)
        /\ t.quiet /\ t.pc = "again" =>
              OsRename(disk, t.at, t.to).err = "" /\ SameBut(t.before, disk, t.to)
    BY <2>2 DEF TaskOk
  <2> DEFINE u == later(t)
  <2>4. /\ DOMAIN u = DOMAIN t
        /\ u.pc = t.pc /\ u.at = t.at /\ u.to = t.to /\ u.before = t.before
        /\ u.quiet = (t.quiet /\ new = disk)
    BY <1>2, <2>3
  <2> HIDE DEF u
  <2>5. TaskFields \subseteq DOMAIN u /\ IsSeq(u.at) /\ IsSeq(u.to) /\ u.quiet \in BOOLEAN
    BY <2>3, <2>4
  <2>6. u.quiet => t.quiet /\ new = disk
    BY <2>4
  <2>7. u.quiet /\ u.pc # "again" => u.before = new
    BY <2>3, <2>4, <2>6
  <2>8. u.quiet /\ u.pc = "clear" => Cleared(new, u.at, u.to)
    BY <2>3, <2>4, <2>6
  <2>9. u.quiet /\ u.pc = "again" =>
           OsRename(new, u.at, u.to).err = "" /\ SameBut(u.before, new, u.to)
    BY <2>3, <2>4, <2>6
  <2>10. TaskOk(u, new)
    BY <2>5, <2>7, <2>8, <2>9 DEF TaskOk
  <2> QED BY <2>1, <2>2, <2>4, <2>10 DEF u
<1>4. ASSUME NEW x \in Clients, x # c, ~Busy(x) PROVE TaskOk(task'[x], new)
  BY <1>1, <1>4 DEF Busy, TaskOk
<1>5. task'[c] = next
  BY <1>1
<1>6. CallInv'
  BY <1>1, <1>3, <1>4, <1>5 DEF CallInv
<1>7. Harmless
  <2> SUFFICES ASSUME NEW x \in Clients, Fails(x), task[x].quiet
               PROVE  disk' = task[x].before \/ LeavesDestination(x)
    BY DEF Harmless
  <2>1. x = c
    BY <1>3 DEF Fails
  <2> QED BY <1>1, <1>5, <2>1 DEF Fails
<1> QED BY <1>6, <1>7

LEMMA GoesAlone ==
    ASSUME CacheInv, CallInv, NEW c \in Clients, NEW next,
           task' = [task EXCEPT ![c] = next], disk' = disk, TaskOk(next, disk),
           Busy(c) /\ task[c].quiet => disk = task[c].before
    PROVE  CallInv' /\ Harmless
<1>1. \A x \in Clients : task'[x] = IF x = c THEN next ELSE task[x]
  BY DEF CacheInv, TasksOk
<1>2. CallInv'
  BY <1>1 DEF CallInv
<1>3. Harmless
  BY <1>1 DEF Harmless, Fails, Busy
<1> QED BY <1>2, <1>3

LEMMA SameTasksAlone ==
    ASSUME CallInv, UNCHANGED <<disk, task>>
    PROVE  CallInv' /\ Harmless
<1>1. CallInv'
  BY DEF CallInv
<1>2. Harmless
  BY DEF Harmless, Fails, Busy
<1> QED BY <1>1, <1>2

LEMMA ErrorsNamed ==
    ASSUME NEW e, FsErrorOf(e) # ""
    PROVE  e # ""
BY DEF FsErrorOf

\* An answer to a call that found the disk it began with
LEMMA FinishesAlone ==
    ASSUME CacheInv, CallInv, NEW c \in Clients, NEW r, Finishes(c, r),
           IsDisk(r.disk),
           task[c].quiet /\ r.err # "" => r.disk = task[c].before \/ LeavesDestination(c)
    PROVE  CallInv' /\ Harmless
<1> DEFINE next == Told(c, FsErrorOf(r.err))
<1>1. Step(c, r.disk, next)
  BY DEF Finishes
<1>2. next.pc = "answered" /\ next.answer = FsErrorOf(r.err)
  BY DEF Told
<1> HIDE DEF next
<1>3. TaskOk(next, r.disk)
  BY <1>2 DEF TaskOk
<1>4. task[c].quiet /\ next.pc = "answered" /\ next.answer # "" =>
         r.disk = task[c].before \/ LeavesDestination(c)
  BY <1>2, ErrorsNamed
<1> QED BY <1>1, <1>3, <1>4, StepAlone

LEMMA BusyTaskIs ==
    ASSUME CacheInv, CallInv, NEW c \in Clients, Busy(c)
    PROVE  /\ IsDisk(disk)
           /\ TaskFields \subseteq DOMAIN task[c]
           /\ IsSeq(task[c].at) /\ IsSeq(task[c].to)
           /\ task[c].quiet \in BOOLEAN
           /\ task[c].quiet /\ task[c].pc # "again" => task[c].before = disk
           /\ task[c].quiet /\ task[c].pc = "clear" => Cleared(disk, task[c].at, task[c].to)
           /\ task[c].quiet /\ task[c].pc = "again" =>
                 /\ OsRename(disk, task[c].at, task[c].to).err = ""
                 /\ SameBut(task[c].before, disk, task[c].to)
BY DEF CallInv, TaskOk, Busy

LEMMA CallAlone ==
    ASSUME CacheInv, CallInv, NEW c \in Clients, NEW call \in setup.calls,
           CallByName(c, call) \/ Call(c, call)
    PROVE  CallInv' /\ Harmless
<1>1. CASE CallByName(c, call)
  <2> DEFINE ok == [Told(c, "") EXCEPT !.made = @ + 1]
             no == [Told(c, "Forbidden") EXCEPT !.made = @ + 1]
  <2>1. TaskOk(ok, disk) /\ TaskOk(no, disk)
    BY DEF Told, TaskOk
  <2>2. (Goes(c, ok) \/ Goes(c, no)) /\ ~Busy(c)
    BY <1>1 DEF CallByName
  <2> HIDE DEF ok, no
  <2> QED BY <2>1, <2>2, GoesAlone DEF Goes
<1>2. CASE Call(c, call)
  <2> DEFINE from == fspath(names, disk, call.path)
             to   == IF call.op \in OfTwoPaths THEN fspath(from.cache, disk, call.to) ELSE from
             pc   == Asks(call, from.path)
             made == task[c].made + 1
             there == Exists(disk, from.path)
             next == [pc |-> pc, made |-> made, call |-> call,
                      at |-> from.path, to |-> to.path, entry |-> <<>>,
                      before |-> disk, quiet |-> TRUE, there |-> there]
  <2>1. Goes(c, next) /\ ~Busy(c)
    BY <1>2 DEF Call
  <2>2. /\ IsSeq(call.path) /\ IsSeq(Base) /\ NameEntries \in Nat
        /\ call.op \in OfTwoPaths => IsSeq(call.to)
    BY LocalFsAssumption DEF CacheInv, CallsOk, IsSeq
  <2>3. IsSeq(from.path) /\ Spelled(from.cache)
    BY <2>2, fspathSpelled DEF CacheInv, CallsOk
  <2>4. IsSeq(to.path)
    <3> HIDE DEF from
    <3> QED BY <2>2, <2>3, fspathSpelled
  <2>5. pc \in {"run", "never", "peek"}
    BY DEF Asks
  <2> HIDE DEF to, from, pc, made, there
  <2>6. TaskOk(next, disk)
    BY <2>3, <2>4, <2>5 DEF TaskOk, TaskFields
  <2> HIDE DEF next
  <2> QED BY <2>1, <2>6, GoesAlone DEF Goes
<1> QED BY <1>1, <1>2

\* Only the cache of directories is asked.
LEMMA NegativeAlone ==
    ASSUME CacheInv, CallInv, NEW c \in Clients,
           NegativePeek(c) \/ NegativeStat(c) \/ NegativeStale(c) \/ NegativeLook(c) \/ NeverThere(c)
    PROVE  CallInv' /\ Harmless
<1> DEFINE t == task[c]
<1>1. Busy(c) /\ t.pc \notin {"clear", "again"}
  BY DEF NegativePeek, NegativeStat, NegativeStale, NegativeLook, NeverThere, Busy
<1>2. /\ TaskFields \subseteq DOMAIN t /\ IsSeq(t.at) /\ IsSeq(t.to) /\ t.quiet \in BOOLEAN
      /\ t.quiet => t.before = disk
  BY <1>1, BusyTaskIs
<1> DEFINE Only(n) == task' = [task EXCEPT ![c] = n] /\ disk' = disk
<1>3. \/ \E s, e : s \in Looking \cup {"run"} /\ Only([t EXCEPT !.pc = s, !.entry = e])
      \/ \E s : s \in Looking \cup {"run"} /\ Only([t EXCEPT !.pc = s])
      \/ Only(Told(c, "NotFound"))
  <2>1. CASE NegativePeek(c) \/ NegativeStat(c) \/ NegativeLook(c) \/ NeverThere(c)
    BY <2>1 DEF NegativePeek, NegativeStat, NegativeLook, NeverThere, Looking, Goes
  <2>2. CASE NegativeStale(c)
    <3>1. Only([t EXCEPT !.pc = "run"])
      BY <2>2 DEF NegativeStale
    <3> HIDE DEF Only
    <3> QED BY <3>1
  <2> QED BY <2>1, <2>2
<1> HIDE DEF t
<1>4. ASSUME NEW s \in Looking \cup {"run"}, NEW e
      PROVE  TaskOk([t EXCEPT !.pc = s, !.entry = e], disk) /\ TaskOk([t EXCEPT !.pc = s], disk)
  <2> DEFINE u == [t EXCEPT !.pc = s, !.entry = e]
             v == [t EXCEPT !.pc = s]
  <2>1. /\ DOMAIN u = DOMAIN t /\ u.pc = s /\ u.at = t.at /\ u.to = t.to
        /\ u.before = t.before /\ u.quiet = t.quiet
    BY <1>2 DEF TaskFields
  <2>2. /\ DOMAIN v = DOMAIN t /\ v.pc = s /\ v.at = t.at /\ v.to = t.to
        /\ v.before = t.before /\ v.quiet = t.quiet
    BY <1>2 DEF TaskFields
  <2>3. s \notin {"clear", "again"}
    BY DEF Looking
  <2> HIDE DEF u, v
  <2>4. TaskOk(u, disk)
    BY <1>2, <2>1, <2>3 DEF TaskOk
  <2>5. TaskOk(v, disk)
    BY <1>2, <2>2, <2>3 DEF TaskOk
  <2> QED BY <2>4, <2>5 DEF u, v
<1>5. TaskOk(Told(c, "NotFound"), disk)
  BY DEF Told, TaskOk
<1>6. \E n : Only(n) /\ TaskOk(n, disk)
  <2> HIDE DEF Only
  <2> QED BY <1>3, <1>4, <1>5
<1>7. PICK n : task' = [task EXCEPT ![c] = n] /\ disk' = disk /\ TaskOk(n, disk)
  BY <1>6
<1> QED BY <1>2, <1>7, GoesAlone DEF t

\* The calls of one closure
LEMMA RunAlone ==
    ASSUME CacheInv, CallInv, NEW c \in Clients,
           \/ GetMetadata(c) \/ SymlinkMetadata(c) \/ Open(c) \/ Write(c) \/ CreateDir(c)
           \/ MarkSidecar(c) \/ RemoveDir(c) \/ RemoveFile(c) \/ Copy(c)
    PROVE  CallInv' /\ Harmless
<1> DEFINE at == task[c].at
           to == task[c].to
           call == task[c].call
<1>1. task[c].pc = "run"
  BY DEF GetMetadata, SymlinkMetadata, Open, Write, CreateDir, MarkSidecar, RemoveDir,
         RemoveFile, Copy, Runs
<1>2. /\ IsDisk(disk) /\ IsSeq(at) /\ IsSeq(to)
      /\ task[c].quiet => task[c].before = disk
  BY <1>1, BusyTaskIs DEF Busy
<1>3. \E r : Finishes(c, r) /\ IsResult(disk, r)
  <2> HIDE DEF at, to, call
  <2>1. CASE GetMetadata(c) \/ Open(c)
    BY <1>2, <2>1, DoReadResult DEF GetMetadata, Open, at
  <2>2. CASE SymlinkMetadata(c)
    BY <1>2, <2>2, DoSymlinkMetadataResult DEF SymlinkMetadata, at
  <2>3. CASE Write(c)
    BY <1>2, <2>3, DoWriteResult DEF Write, at
  <2>4. CASE CreateDir(c)
    BY <1>2, <2>4, DoCreateDirResult DEF CreateDir, at
  <2>5. CASE MarkSidecar(c)
    BY <1>2, <2>5, DoMarkResult DEF MarkSidecar, at
  <2>6. CASE RemoveDir(c)
    BY <1>2, <2>6, DoRemoveDirResult DEF RemoveDir, at
  <2>7. CASE RemoveFile(c)
    BY <1>2, <2>7, DoRemoveFileResult DEF RemoveFile, at
  <2>8. CASE Copy(c)
    BY <1>2, <2>8, DoCopyResult DEF Copy, at, to
  <2> QED BY <2>1, <2>2, <2>3, <2>4, <2>5, <2>6, <2>7, <2>8
<1>4. PICK r : Finishes(c, r) /\ IsResult(disk, r)
  BY <1>3
<1>5. IsDisk(r.disk) /\ (task[c].quiet /\ r.err # "" => r.disk = task[c].before)
  BY <1>2, <1>4 DEF IsResult
<1> QED BY <1>4, <1>5, FinishesAlone

LEMMA SetModifiedAlone ==
    ASSUME CacheInv, CallInv, NEW c \in Clients, SetModified(c)
    PROVE  CallInv' /\ Harmless
<1> DEFINE next == Told(c, FsErrorOf(DoSetModified(disk, task[c].at).err))
<1>1. task' = [task EXCEPT ![c] = next] /\ disk' = disk /\ task[c].pc = "run"
  BY DEF SetModified, Runs
<1>2. task[c].quiet => task[c].before = disk
  BY <1>1, BusyTaskIs DEF Busy
<1>3. TaskOk(next, disk)
  BY DEF Told, TaskOk
<1> HIDE DEF next
<1> QED BY <1>1, <1>2, <1>3, GoesAlone

\* rename, in one to three system calls
LEMMA RenameAlone ==
    ASSUME CacheInv, CallInv, NEW c \in Clients,
           RenameFirst(c) \/ RenameClear(c) \/ RenameAgain(c)
    PROVE  CallInv' /\ Harmless
<1> DEFINE t == task[c]
<1>1. t.pc \in {"run", "clear", "again"}
  BY DEF RenameFirst, RenameClear, RenameAgain, Runs
<1>2. /\ IsDisk(disk) /\ TaskFields \subseteq DOMAIN t /\ IsSeq(t.at) /\ IsSeq(t.to)
      /\ t.quiet \in BOOLEAN
      /\ t.quiet /\ t.pc # "again" => t.before = disk
      /\ t.quiet /\ t.pc = "clear" => Cleared(disk, t.at, t.to)
      /\ t.quiet /\ t.pc = "again" => OsRename(disk, t.at, t.to).err = ""
  BY <1>1, BusyTaskIs DEF Busy
<1>3. CASE RenameFirst(c)
  <2> DEFINE from == confine_leaf(disk, t.at)
             dest == confine_leaf(disk, t.to)
             r    == DoRename(disk, t.at, t.to)
             next == [t EXCEPT !.pc = "clear", !.at = from.path, !.to = dest.path]
  <2>1. t.pc = "run"
    BY <1>3 DEF RenameFirst, Runs
  <2>2. \/ /\ from.err = "" /\ dest.err = "" /\ r.err = "ENOTDIR" /\ Kind(disk, from.path) = "dir"
           /\ Step(c, disk, next)
        \/ Finishes(c, r)
    BY <1>3 DEF RenameFirst
  <2>3. IsResult(disk, r)
    BY <1>2, DoRenameResult
  <2>4. /\ from.err = "" => IsSeq(from.path)
        /\ dest.err = "" => IsSeq(dest.path)
        /\ from.err = "" /\ dest.err = "" /\ r.err = "ENOTDIR" /\ Kind(disk, from.path) = "dir"
              => Cleared(disk, from.path, dest.path)
    BY <1>2, LeafSeq, RenameClears
  <2> HIDE DEF t, from, dest, r
  <2>5. CASE /\ from.err = "" /\ dest.err = "" /\ r.err = "ENOTDIR" /\ Kind(disk, from.path) = "dir"
             /\ Step(c, disk, next)
    <3>1. /\ DOMAIN next = DOMAIN t /\ next.pc = "clear"
          /\ next.at = from.path /\ next.to = dest.path
          /\ next.before = t.before /\ next.quiet = t.quiet
      BY <1>2 DEF TaskFields
    <3> HIDE DEF next
    <3>2. TaskOk(next, disk)
      BY <1>2, <2>1, <2>4, <2>5, <3>1 DEF TaskOk
    <3>3. next.pc # "answered"
      BY <3>1
    <3> QED BY <1>2, <2>5, <3>2, <3>3, StepAlone
  <2>6. CASE Finishes(c, r)
    <3>1. IsDisk(r.disk) /\ (task[c].quiet /\ r.err # "" => r.disk = task[c].before)
      BY <1>2, <2>1, <2>3 DEF IsResult, t
    <3> QED BY <2>6, <3>1, FinishesAlone
  <2> QED BY <2>2, <2>5, <2>6
<1>4. CASE RenameClear(c)
  <2> DEFINE r    == OsRemoveFile(disk, t.to)
             next == [t EXCEPT !.pc = "again"]
  <2>1. t.pc = "clear"
    BY <1>4 DEF RenameClear
  <2>2. \/ r.err \in {"", "ENOENT"} /\ Step(c, r.disk, next)
        \/ Finishes(c, r)
    BY <1>4 DEF RenameClear
  <2>3. IsResult(disk, r)
    BY <1>2, OsRemoveFileResult
  <2>4. t.quiet => \/ r.err = "ENOTDIR"
                   \/ /\ r.err = "" /\ OsRename(r.disk, t.at, t.to).err = ""
                      /\ SameBut(disk, r.disk, t.to)
    <3> SUFFICES ASSUME t.quiet
                 PROVE  \/ r.err = "ENOTDIR"
                        \/ /\ r.err = "" /\ OsRename(r.disk, t.at, t.to).err = ""
                           /\ SameBut(disk, r.disk, t.to)
      OBVIOUS
    <3> DEFINE a == t.at
               b == t.to
    <3>1. Cleared(disk, a, b)
      BY <1>2, <2>1
    <3> HIDE DEF a, b
    <3>2. \/ OsRemoveFile(disk, b).err = "ENOTDIR"
          \/ /\ OsRemoveFile(disk, b).err = "" /\ SameBut(disk, OsRemoveFile(disk, b).disk, b)
             /\ OsRename(OsRemoveFile(disk, b).disk, a, b).err = ""
      BY <1>2, <3>1, ClearedIs
    <3> QED BY <3>2 DEF a, b
  <2> HIDE DEF t, r
  <2>5. CASE r.err \in {"", "ENOENT"} /\ Step(c, r.disk, next)
    <3>1. /\ DOMAIN next = DOMAIN t /\ next.pc = "again" /\ next.at = t.at /\ next.to = t.to
          /\ next.before = t.before /\ next.quiet = t.quiet
      BY <1>2 DEF TaskFields
    <3> HIDE DEF next
    <3>2. t.quiet => OsRename(r.disk, t.at, t.to).err = "" /\ SameBut(t.before, r.disk, t.to)
      BY <1>2, <2>1, <2>4, <2>5
    <3>3. TaskOk(next, r.disk)
      BY <1>2, <3>1, <3>2 DEF TaskOk
    <3>4. next.pc # "answered" /\ IsDisk(r.disk)
      BY <2>3, <3>1 DEF IsResult
    <3> QED BY <2>5, <3>3, <3>4, StepAlone
  <2>6. CASE Finishes(c, r)
    <3>1. IsDisk(r.disk) /\ (task[c].quiet /\ r.err # "" => r.disk = task[c].before)
      BY <1>2, <2>1, <2>3 DEF IsResult, t
    <3> QED BY <2>6, <3>1, FinishesAlone
  <2> QED BY <2>2, <2>5, <2>6
<1>5. CASE RenameAgain(c)
  <2> DEFINE r == OsRename(disk, t.at, t.to)
  <2>1. t.pc = "again" /\ Finishes(c, r)
    BY <1>5 DEF RenameAgain
  <2>2. IsResult(disk, r)
    BY <1>2, OsRenameResult
  <2>3. t.quiet => r.err = ""
    BY <1>2, <2>1
  <2> HIDE DEF r
  <2>4. IsDisk(r.disk) /\ (task[c].quiet /\ r.err # "" => r.disk = task[c].before)
    BY <2>2, <2>3 DEF IsResult
  <2> QED BY <2>1, <2>4, FinishesAlone
<1> QED BY <1>3, <1>4, <1>5

\* A system call that fails by itself: of a rename, the second may leave the destination removed.
LEMMA FailsByItselfAlone ==
    ASSUME CacheInv, CallInv, NEW c \in Clients, FailsByItself(c)
    PROVE  CallInv' /\ Harmless
<1> DEFINE r == Refused(disk, "ENOSPC")
<1>1. task[c].pc \in {"run", "clear", "again"} /\ Finishes(c, r)
  BY DEF FailsByItself
<1>2. r.disk = disk
  BY RefusedIs
<1> HIDE DEF r
<1>3. disk' = disk
  BY <1>1, <1>2 DEF Finishes, Step, Change
<1>4. /\ IsDisk(disk)
      /\ task[c].quiet /\ task[c].pc # "again" => task[c].before = disk
      /\ task[c].quiet /\ task[c].pc = "again" => SameBut(task[c].before, disk, task[c].to)
  BY <1>1, BusyTaskIs DEF Busy
<1>5. task[c].quiet => r.disk = task[c].before \/ LeavesDestination(c)
  BY <1>2, <1>3, <1>4 DEF LeavesDestination
<1> QED BY <1>1, <1>2, <1>4, <1>5, FinishesAlone

LEMMA CopyBreaksOffAlone ==
    ASSUME CacheInv, CallInv, NEW c \in Clients, CopyBreaksOff(c)
    PROVE  CallInv' /\ Harmless
<1> DEFINE r == DoCopy(disk, task[c].at, task[c].to, FALSE)
           w == Refused(r.disk, "ENOSPC")
<1>1. task[c].pc = "run" /\ r.err = "" /\ Finishes(c, w)
  BY DEF CopyBreaksOff, Runs
<1>2. /\ IsDisk(disk) /\ IsSeq(task[c].to)
      /\ task[c].quiet => task[c].before = disk
  BY <1>1, BusyTaskIs DEF Busy
<1>3. IsDisk(r.disk) /\ SameBut(disk, r.disk, confine_leaf(disk, task[c].to).path)
  BY <1>1, <1>2, DoCopyResult, DoCopyWhere DEF IsResult
<1>4. w.disk = r.disk
  BY RefusedIs
<1> HIDE DEF r, w
<1>5. disk' = r.disk
  BY <1>1, <1>4 DEF Finishes, Step, Change
<1>6. task[c].quiet => LeavesDestination(c)
  BY <1>2, <1>3, <1>5 DEF LeavesDestination
<1> QED BY <1>1, <1>3, <1>4, <1>6, FinishesAlone

LEMMA ListingAlone ==
    ASSUME CallInv, Listing
    PROVE  CallInv' /\ Harmless
<1>1. UNCHANGED <<disk, task>>
  <2>1. UNCHANGED task
    BY DEF Listing
  <2>2. UNCHANGED disk
    BY DEF Listing, ListNext, ReadDir, ReadBatch, Poll, PollStart, PollBuffered, PollReady,
           PollFused, FinishStamp, FinishStore, PurgeDirs
  <2> QED BY <2>1, <2>2
<1> QED BY <1>1, SameTasksAlone

LEMMA CallInvInit == Init => CallInv
<1> SUFFICES ASSUME Init PROVE CallInv
  OBVIOUS
<1>1. IsDisk(disk)
  BY LocalFsAssumption DEF Init
<1>2. \A c \in Clients : task[c] = Resting(0)
  BY DEF Init
<1>3. TaskOk(Resting(0), disk)
  BY DEF Resting, TaskOk
<1> QED BY <1>1, <1>2, <1>3 DEF CallInv

\* What a call knows while nobody else changes the disk: that is what it found (localfs.rs:687).
THEOREM CallInvHolds == Spec => [](CallInv /\ CacheInv) /\ [][Harmless]_vars
<1>1. ASSUME CacheInv, CallInv, [Next]_vars PROVE CallInv' /\ Harmless
  <2>1. CASE \E c \in Clients, call \in setup.calls : CallByName(c, call) \/ Call(c, call)
    BY <1>1, <2>1, CallAlone
  <2>2. CASE \E c \in Clients : Advance(c)
    <3>1. PICK c \in Clients : Advance(c)
      BY <2>2
    <3> QED BY <1>1, <3>1, NegativeAlone, RunAlone, SetModifiedAlone, RenameAlone,
           FailsByItselfAlone, CopyBreaksOffAlone
       DEF Advance
  <2>3. CASE PurgeNames
    BY <1>1, <2>3, SameTasksAlone DEF PurgeNames, dirvars
  <2>4. CASE Listing
    BY <1>1, <2>4, ListingAlone
  <2>5. CASE UNCHANGED vars
    BY <1>1, <2>5, SameTasksAlone DEF vars, dirvars
  <2> QED BY <1>1, <2>1, <2>2, <2>3, <2>4, <2>5 DEF Next
<1> QED BY <1>1, CallInvInit, CacheInvHolds, PTL DEF Spec

\* A call that fails while nobody else changes the disk has changed nothing: the tree never keeps a
\* rename that had to remove its destination (localfs.rs:712) from being completed.  Where the
\* system fails by itself, the destination of that rename, or of a copy, is all that is lost.
THEOREM FailingSparesTheRest == Spec => FailureAloneChangesOnlyDestination
BY CallInvHolds, PTL DEF FailureAloneChangesOnlyDestination, Harmless

-----------------------------------------------------------------------------
(* Paths that differ in case only.                                         *)

Alike(p, q) == LowerPath(p) = LowerPath(q)

NoTwinsIn(d) == \A p, q \in DOMAIN d : Alike(p, q) => p = q

LEMMA AlikeIs ==
    ASSUME NEW p, IsSeq(p), NEW q, IsSeq(q)
    PROVE  Alike(p, q) <=> Len(p) = Len(q) /\ \A i \in 1..Len(p) : Lower(p[i]) = Lower(q[i])
<1>1. /\ Len(p) \in Nat /\ DOMAIN p = 1..Len(p)
      /\ Len(q) \in Nat /\ DOMAIN q = 1..Len(q)
  BY IsSeqFacts
<1> DEFINE a == LowerPath(p)
           b == LowerPath(q)
<1>2. /\ a = [i \in 1..Len(p) |-> Lower(p[i])] /\ DOMAIN a = 1..Len(p)
      /\ b = [i \in 1..Len(q) |-> Lower(q[i])] /\ DOMAIN b = 1..Len(q)
  BY <1>1 DEF LowerPath
<1>3. ASSUME Alike(p, q)
      PROVE  Len(p) = Len(q) /\ \A i \in 1..Len(p) : Lower(p[i]) = Lower(q[i])
  <2>1. a = b
    BY <1>3 DEF Alike
  <2> HIDE DEF a, b
  <2>2. 1..Len(p) = 1..Len(q)
    BY <1>2, <2>1
  <2>3. Len(p) = Len(q)
    <3>1. ASSUME NEW m \in Nat, NEW n \in Nat, 1..m = 1..n PROVE m = n
      <4>1. /\ m \in 1..m \/ m = 0
            /\ n \in 1..n \/ n = 0
        OBVIOUS
      <4>2. /\ m \in 1..n \/ m = 0
            /\ n \in 1..m \/ n = 0
        BY <3>1, <4>1
      <4> QED BY <4>2
    <3> QED BY <1>1, <2>2, <3>1
  <2>4. ASSUME NEW i \in 1..Len(p) PROVE Lower(p[i]) = Lower(q[i])
    <3>1. a[i] = Lower(p[i]) /\ b[i] = Lower(q[i])
      BY <1>2, <2>2
    <3> QED BY <2>1, <3>1
  <2> QED BY <2>3, <2>4
<1>4. ASSUME Len(p) = Len(q), \A i \in 1..Len(p) : Lower(p[i]) = Lower(q[i])
      PROVE  Alike(p, q)
  <2>1. a = b
    BY <1>2, <1>4
  <2> QED BY <2>1 DEF Alike
<1> QED BY <1>3, <1>4

LEMMA AlikePrefix ==
    ASSUME NEW p, IsSeq(p), NEW q, IsSeq(q), Alike(p, q), NEW n \in 0..Len(p)
    PROVE  n \in 0..Len(q) /\ Alike(SubSeq(p, 1, n), SubSeq(q, 1, n))
<1> DEFINE a == SubSeq(p, 1, n)
           b == SubSeq(q, 1, n)
<1>1. Len(p) = Len(q) /\ \A i \in 1..Len(p) : Lower(p[i]) = Lower(q[i])
  BY AlikeIs
<1>2. /\ IsSeq(a) /\ Len(a) = n /\ Len(p) \in Nat /\ \A i \in 1..n : a[i] = p[i]
      /\ IsSeq(b) /\ Len(b) = n /\ \A i \in 1..n : b[i] = q[i]
  BY <1>1, PrefixIs
<1> HIDE DEF a, b
<1>3. \A i \in 1..n : i \in 1..Len(p)
  BY <1>2
<1>4. \A i \in 1..Len(a) : Lower(a[i]) = Lower(b[i])
  BY <1>1, <1>2, <1>3
<1>5. Alike(a, b)
  BY <1>2, <1>4, AlikeIs
<1> QED BY <1>1, <1>5 DEF a, b

LEMMA AlikeAppend ==
    ASSUME NEW p, IsSeq(p), NEW q, IsSeq(q), NEW x, NEW y
    PROVE  Alike(Append(p, x), Append(q, y)) <=> Alike(p, q) /\ Lower(x) = Lower(y)
<1> DEFINE a == Append(p, x)
           b == Append(q, y)
           n == Len(p)
           m == Len(q)
<1>1. /\ IsSeq(a) /\ Len(a) = n + 1 /\ n \in Nat
      /\ \A i \in 1..n + 1 : a[i] = IF i = n + 1 THEN x ELSE p[i]
      /\ IsSeq(b) /\ Len(b) = m + 1 /\ m \in Nat
      /\ \A i \in 1..m + 1 : b[i] = IF i = m + 1 THEN y ELSE q[i]
  BY AppendSeq
<1> HIDE DEF a, b
<1>2. Alike(a, b) <=> Len(a) = Len(b) /\ \A i \in 1..Len(a) : Lower(a[i]) = Lower(b[i])
  BY <1>1, AlikeIs
<1>3. Alike(p, q) <=> n = m /\ \A i \in 1..n : Lower(p[i]) = Lower(q[i])
  BY AlikeIs
<1> HIDE DEF n, m
<1>4. Len(a) = Len(b) <=> n = m
  BY <1>1
<1>5. ASSUME n = m
      PROVE  (\A i \in 1..n + 1 : Lower(a[i]) = Lower(b[i]))
             <=> (\A i \in 1..n : Lower(p[i]) = Lower(q[i])) /\ Lower(x) = Lower(y)
  <2>1. /\ n + 1 \in 1..n + 1
        /\ \A i \in 1..n : i \in 1..n + 1 /\ i # n + 1
        /\ \A i \in 1..n + 1 : i = n + 1 \/ i \in 1..n
    BY <1>1
  <2>2. a[n + 1] = x /\ b[n + 1] = y /\ \A i \in 1..n : a[i] = p[i] /\ b[i] = q[i]
    BY <1>1, <1>5, <2>1
  <2> QED BY <2>1, <2>2
<1> QED BY <1>1, <1>2, <1>3, <1>4, <1>5 DEF a, b

LEMMA AlikeEmpty ==
    ASSUME NEW p, IsSeq(p), NEW q, IsSeq(q), Alike(p, q)
    PROVE  p = <<>> <=> q = <<>>
<1>1. Len(p) = Len(q)
  BY AlikeIs
<1>2. p \in Seq(ToSet(p)) /\ q \in Seq(ToSet(q))
  BY DEF IsSeq
<1> QED BY <1>1, <1>2, EmptySeq

LEMMA AlikeFront ==
    ASSUME NEW p, IsSeq(p), NEW q, IsSeq(q), Alike(p, q), p # <<>>
    PROVE  /\ q # <<>> /\ IsSeq(Front(p)) /\ IsSeq(Front(q))
           /\ Alike(Front(p), Front(q)) /\ Lower(Last(p)) = Lower(Last(q))
<1>1. q # <<>>
  BY AlikeEmpty
<1>2. /\ IsSeq(Front(p)) /\ Append(Front(p), Last(p)) = p
      /\ IsSeq(Front(q)) /\ Append(Front(q), Last(q)) = q
  BY <1>1, FrontIs
<1>3. Alike(Append(Front(p), Last(p)), Append(Front(q), Last(q)))
  BY <1>2
<1>4. Alike(Front(p), Front(q)) /\ Lower(Last(p)) = Lower(Last(q))
  BY <1>2, <1>3, AlikeAppend
<1> QED BY <1>1, <1>2, <1>4

\* A directory or file with names in the case of the disk is there.
LEMMA ExistingIs ==
    ASSUME NEW d, IsDisk(d), NoTwinsIn(d), NEW p \in DOMAIN d, NEW x, IsSeq(x), Alike(x, p),
           Exists(d, x)
    PROVE  x = p
<1> DEFINE n == Stop(d, x)
           at == SubSeq(x, 1, n)
           to == SubSeq(p, 1, n)
<1>1. IsSeq(p) /\ Len(x) = Len(p) /\ Len(x) \in Nat
  BY EntriesAreReal, AlikeIs, IsSeqFacts
<1>2. n \in 0..Len(x) /\ Reaches(d, x, n)
  BY StopIs
<1> HIDE DEF n
<1>3. IsSeq(at) /\ IsSeq(to) /\ Alike(at, to) /\ n \in 0..Len(p)
  BY <1>1, <1>2, PrefixIs, AlikePrefix
<1>4. to \in DOMAIN d /\ (n # Len(p) => Kind(d, to) = "dir")
  <2>1. CASE n = Len(p)
    BY <1>1, <2>1, WholeIs
  <2>2. CASE n # Len(p)
    <3>1. n \in 0..Len(p) - 1
      BY <1>1, <1>3, <2>2
    <3> QED BY <3>1, InsideIs
  <2> QED BY <2>1, <2>2
<1>5. at \in DOMAIN d => at = to
  BY <1>3, <1>4 DEF NoTwinsIn
<1>6. at \in DOMAIN d
  <2> SUFFICES ASSUME at \notin DOMAIN d PROVE FALSE
    OBVIOUS
  <2>1. Kind(d, at) = "none"
    BY KindsAre
  <2> HIDE DEF at
  <2>2. Followed(d, x) = x
    BY <2>1 DEF Followed, With, at, n
  <2>3. Canonical(d, x) = Arrived(d, x, at)
    BY <2>2, CanonicalIs DEF at, n
  <2>4. Arrived(d, x, at).err = "ENOENT"
    BY <2>1 DEF Arrived, Failed
  <2> QED BY <2>3, <2>4 DEF Exists
<1>7. n = Len(x)
  <2> SUFFICES ASSUME n # Len(x) PROVE FALSE
    OBVIOUS
  <2>1. Kind(d, at) # "dir" /\ Kind(d, to) = "dir"
    BY <1>1, <1>2, <1>4 DEF Reaches
  <2> QED BY <1>5, <1>6, <2>1
<1>8. at = x /\ to = p
  BY <1>1, <1>7, WholeIs
<1> QED BY <1>5, <1>6, <1>8

\* A name that is there in some case is found in its directory.
LEMMA LookupFinds ==
    ASSUME NEW d, IsDisk(d), NoTwinsIn(d), NEW q \in DOMAIN d, q # <<>>,
           NEW seg, Alike(Append(Front(q), seg), q), NEW quick \in BOOLEAN
    PROVE  /\ Lookup(d, Front(q), seg, quick).path = q
           /\ Lookup(d, Front(q), seg, quick).stop => Kind(d, q) # "dir"
<1> DEFINE dir == Front(q)
           asked == Append(dir, seg)
           at == Canonical(d, asked)
<1>1. IsSeq(q) /\ Real(d, q)
  BY EntriesAreReal
<1>2. IsSeq(dir) /\ Append(dir, Last(q)) = q
  BY <1>1, FrontIs
<1>3. Real(d, dir) /\ Kind(d, dir) = "dir"
  BY <1>1, <1>2, RealStep
<1>4. IsSeq(asked) /\ Real(d, asked)
  BY <1>2, <1>3, RealStep, FrontOfAppend
<1>5. Canonical(d, dir) = Ok(dir) /\ Ok(dir).err = "" /\ Ok(dir).path = dir
  BY <1>2, <1>3, CanonicalOfReal DEF Ok
<1> HIDE DEF dir
<1> DEFINE variants == {n \in NamesIn(d, dir) : Lower(n) = Lower(seg)}
           v == CHOOSE n \in variants : TRUE
<1>6. Lookup(d, dir, seg, quick) =
         IF ~quick /\ at.err = "" THEN [path |-> asked, stop |-> FALSE]
         ELSE IF (~quick /\ at.err # "ENOENT") \/ variants = {}
         THEN [path |-> asked, stop |-> TRUE]
         ELSE [path |-> Append(dir, v), stop |-> FALSE]
  <2>1. (IF Canonical(d, dir).err # "" THEN {}
         ELSE {n \in NamesIn(d, Canonical(d, dir).path) : Lower(n) = Lower(seg)}) = variants
    BY <1>5
  <2> HIDE DEF variants
  <2> QED BY <2>1 DEF Lookup
<1>7. Lower(seg) = Lower(Last(q))
  <2>1. Alike(Append(dir, seg), Append(dir, Last(q)))
    BY <1>2 DEF dir
  <2> QED BY <1>2, <2>1, AlikeAppend
<1>8. Last(q) \in variants
  BY <1>7 DEF NamesIn, dir
<1>9. v \in variants
  BY <1>8
<1>10. Append(dir, v) = q
  <2>1. PICK r \in DOMAIN d : r # <<>> /\ Front(r) = dir /\ Last(r) = v /\ Lower(v) = Lower(seg)
    BY <1>9 DEF NamesIn
  <2> HIDE DEF v
  <2>2. IsSeq(r) /\ Append(dir, v) = r
    BY <2>1, EntriesAreReal, FrontIs
  <2>3. Alike(Append(dir, v), Append(dir, Last(q)))
    <3>1. Alike(dir, dir) /\ Lower(v) = Lower(Last(q))
      BY <1>7, <2>1 DEF Alike
    <3> QED BY <1>2, <3>1, AlikeAppend
  <2> QED BY <1>2, <2>1, <2>2, <2>3 DEF NoTwinsIn
<1>11. asked \in DOMAIN d => asked = q
  BY DEF NoTwinsIn, dir
<1>12. at.err # "ENOENT" => asked \in DOMAIN d
  <2> SUFFICES ASSUME asked \notin DOMAIN d PROVE at.err = "ENOENT"
    OBVIOUS
  <2>1. Kind(d, asked) = "none" /\ SubSeq(asked, 1, Stop(d, asked)) = asked
    BY <1>4, KindsAre, StopOfReal
  <2> HIDE DEF asked
  <2>2. Followed(d, asked) = asked
    BY <2>1 DEF Followed, With
  <2>3. Canonical(d, asked) = Arrived(d, asked, asked)
    BY <2>1, <2>2, CanonicalIs
  <2>4. Arrived(d, asked, asked).err = "ENOENT"
    BY <2>1 DEF Arrived, Failed
  <2> QED BY <2>3, <2>4
<1>13. asked = q /\ Kind(d, q) = "dir" => at.err = ""
  <2> SUFFICES ASSUME asked = q, Kind(d, q) = "dir" PROVE at.err = ""
    OBVIOUS
  <2> HIDE DEF asked
  <2>1. Canonical(d, q) = Ok(q) /\ Ok(q).err = ""
    BY <1>1, CanonicalOfReal DEF Ok
  <2> QED BY <2>1
<1>14. variants # {}
  BY <1>8
<1> HIDE DEF asked, at, variants, v
<1> DEFINE l == Lookup(d, dir, seg, quick)
<1>15. \/ l.path = asked /\ ~l.stop /\ at.err = ""
       \/ l.path = asked /\ l.stop /\ at.err # "ENOENT" /\ at.err # ""
       \/ l.path = Append(dir, v) /\ ~l.stop
  <2>1. CASE ~quick /\ at.err = ""
    <3>1. l = [path |-> asked, stop |-> FALSE]
      BY <1>6, <2>1
    <3>2. l.path = asked /\ l.stop = FALSE
      BY <3>1
    <3> HIDE DEF l
    <3> QED BY <2>1, <3>2
  <2>2. CASE ~quick /\ at.err # "" /\ at.err # "ENOENT"
    <3>1. l = [path |-> asked, stop |-> TRUE]
      BY <1>6, <2>2
    <3>2. l.path = asked /\ l.stop = TRUE
      BY <3>1
    <3> HIDE DEF l
    <3> QED BY <2>2, <3>2
  <2>3. CASE quick \/ at.err = "ENOENT"
    <3>1. l = [path |-> Append(dir, v), stop |-> FALSE]
      BY <1>6, <1>14, <2>3
    <3>2. l.path = Append(dir, v) /\ l.stop = FALSE
      BY <3>1
    <3> HIDE DEF l
    <3> QED BY <3>2
  <2> QED BY <2>1, <2>2, <2>3
<1> HIDE DEF l
<1>16. l.path = q /\ (l.stop => Kind(d, q) # "dir")
  BY <1>10, <1>11, <1>12, <1>13, <1>15
<1> QED BY <1>16 DEF l, dir

LEMMA LookupAlike ==
    ASSUME NEW d, NEW dir, IsSeq(dir), NEW seg, NEW quick
    PROVE  LET p == Lookup(d, dir, seg, quick).path
           IN  IsSeq(p) /\ Alike(p, Append(dir, seg))
<1> DEFINE p == Lookup(d, dir, seg, quick).path
           variants == IF Canonical(d, dir).err # "" THEN {}
                       ELSE {n \in NamesIn(d, Canonical(d, dir).path) : Lower(n) = Lower(seg)}
           v == CHOOSE n \in variants : TRUE
<1>1. variants # {} => Lower(v) = Lower(seg)
  <2>1. variants # {} => v \in variants
    <3> HIDE DEF variants
    <3> QED OBVIOUS
  <2>2. \A n \in variants : Lower(n) = Lower(seg)
    OBVIOUS
  <2> HIDE DEF variants, v
  <2> QED BY <2>1, <2>2
<1>2. p = Append(dir, seg) \/ (variants # {} /\ p = Append(dir, v))
  <2> DEFINE asked == Append(dir, seg)
             l == Lookup(d, dir, seg, quick)
  <2> HIDE DEF v
  <2>1. \/ l = [path |-> asked, stop |-> FALSE] \/ l = [path |-> asked, stop |-> TRUE]
        \/ variants # {} /\ l = [path |-> Append(dir, v), stop |-> FALSE]
    BY DEF Lookup, v
  <2> HIDE DEF l, asked, variants
  <2>2. l.path = asked \/ (variants # {} /\ l.path = Append(dir, v))
    BY <2>1
  <2> QED BY <2>2 DEF l, asked
<1>3. IsSeq(p)
  BY LookupSpelled
<1> HIDE DEF p, v, variants
<1>4. Alike(dir, dir)
  BY DEF Alike
<1>5. \A x : Lower(x) = Lower(seg) => Alike(Append(dir, x), Append(dir, seg))
  BY <1>4, AlikeAppend
<1>6. Alike(p, Append(dir, seg))
  BY <1>1, <1>2, <1>5
<1> QED BY <1>3, <1>6 DEF p

LEMMA GetFinds ==
    ASSUME NEW c, Spelled(c), NEW d, IsDisk(d), NoTwinsIn(d),
           NEW p \in DOMAIN d, NEW x, IsSeq(x), Alike(x, p), Get(c, d, x).hit
    PROVE  Get(c, d, x).path = p
<1>1. /\ IsSeq(Get(c, d, x).path) /\ Exists(d, Get(c, d, x).path)
      /\ Alike(Get(c, d, x).path, x)
  BY GetSpelled DEF Alike
<1>2. Alike(Get(c, d, x).path, p)
  BY <1>1 DEF Alike
<1> QED BY <1>1, <1>2, ExistingIs

LEMMA InParentFinds ==
    ASSUME NEW c, NEW d, NEW dir, IsSeq(dir), NEW seg
    PROVE  /\ Alike(InParent(c, d, dir, seg).path, Append(dir, seg))
           /\ \A q \in DOMAIN d : /\ IsDisk(d) /\ NoTwinsIn(d) /\ q # <<>> /\ dir = Front(q)
                                  /\ Alike(Append(dir, seg), q)
                                  => InParent(c, d, dir, seg).path = q
<1>1. InParent(c, d, dir, seg).path = Lookup(d, dir, seg, TRUE).path
  BY DEF InParent, Found
<1>2. Alike(Lookup(d, dir, seg, TRUE).path, Append(dir, seg))
  BY LookupAlike
<1>3. ASSUME NEW q \in DOMAIN d, IsDisk(d), NoTwinsIn(d), q # <<>>, dir = Front(q),
             Alike(Append(dir, seg), q)
      PROVE  Lookup(d, dir, seg, TRUE).path = q
  BY <1>3, LookupFinds
<1> QED BY <1>1, <1>2, <1>3

LEMMA PrefixAppend ==
    ASSUME NEW s, IsSeq(s), NEW k \in 0..Len(s) - 1
    PROVE  /\ SubSeq(s, 1, k + 1) = Append(SubSeq(s, 1, k), s[k + 1])
           /\ Front(SubSeq(s, 1, k + 1)) = SubSeq(s, 1, k) /\ SubSeq(s, 1, k + 1) # <<>>
           /\ IsSeq(SubSeq(s, 1, k)) /\ k + 1 \in 0..Len(s) /\ k \in 0..Len(s)
<1> DEFINE a == SubSeq(s, 1, k)
           b == Append(a, s[k + 1])
           e == SubSeq(s, 1, k + 1)
<1>1. Len(s) \in Nat /\ k \in Nat /\ k \in 0..Len(s) /\ k + 1 \in 0..Len(s)
  BY IsSeqFacts
<1>2. /\ IsSeq(a) /\ Len(a) = k /\ \A i \in 1..k : a[i] = s[i]
      /\ IsSeq(e) /\ Len(e) = k + 1 /\ \A i \in 1..k + 1 : e[i] = s[i]
  BY <1>1, PrefixIs
<1> HIDE DEF a, e
<1>3. /\ IsSeq(b) /\ Len(b) = k + 1 /\ Front(b) = a /\ b # <<>>
      /\ \A i \in 1..k + 1 : b[i] = IF i = k + 1 THEN s[k + 1] ELSE a[i]
  BY <1>2, AppendSeq, FrontOfAppend
<1> HIDE DEF b
<1>4. ASSUME NEW i \in 1..k + 1 PROVE e[i] = b[i]
  <2>1. i = k + 1 \/ i \in 1..k
    BY <1>1
  <2> QED BY <1>2, <1>3, <2>1
<1>5. e = b
  BY <1>2, <1>3, <1>4, SameSeq
<1> QED BY <1>1, <1>2, <1>3, <1>5 DEF a, b, e

LEMMA JoinIs ==
    ASSUME NEW s, IsSeq(s), NEW t, IsSeq(t)
    PROVE  /\ IsSeq(s \o t) /\ Len(s \o t) = Len(s) + Len(t) /\ Len(s) \in Nat /\ Len(t) \in Nat
           /\ SubSeq(s \o t, 1, Len(s)) = s
           /\ \A i \in 1..Len(t) : (s \o t)[Len(s) + i] = t[i]
<1> DEFINE u == s \o t
           m == Len(s)
           n == Len(t)
<1>1. m \in Nat /\ n \in Nat
  BY IsSeqFacts
<1>2. IsSeq(u) /\ Len(u) = m + n
      /\ \A i \in 1..m + n : u[i] = IF i <= m THEN s[i] ELSE t[i - m]
  <2>1. s \in Seq(ToSet(s) \cup ToSet(t)) /\ t \in Seq(ToSet(s) \cup ToSet(t)) /\ IsSeq(u)
    BY JoinedSeqs
  <2> QED BY <2>1, ConcatProperties
<1> HIDE DEF u, m, n
<1>3. ASSUME NEW i \in 1..n PROVE u[m + i] = t[i]
  <2>1. m + i \in 1..m + n /\ ~(m + i <= m) /\ (m + i) - m = i
    BY <1>1
  <2> QED BY <1>2, <2>1
<1>4. SubSeq(u, 1, m) = s
  <2> DEFINE a == SubSeq(u, 1, m)
  <2>1. m \in 0..Len(u) /\ \A i \in 1..m : i \in 1..m + n /\ i <= m
    BY <1>1, <1>2
  <2>2. IsSeq(a) /\ Len(a) = m /\ \A i \in 1..m : a[i] = u[i]
    BY <1>2, <2>1, PrefixIs
  <2> HIDE DEF a
  <2>3. \A i \in 1..m : a[i] = s[i]
    BY <1>2, <2>1, <2>2
  <2>4. a = s
    BY <2>2, <2>3, SameSeq DEF m
  <2> QED BY <2>4 DEF a
<1> QED BY <1>1, <1>2, <1>3, <1>4 DEF u, m, n

\* The walk from the base spells what is asked, and finds what is there.
LEMMA FromBaseFinds ==
    ASSUME NEW c, Spelled(c), NEW d, NEW base, IsSeq(base), NEW segs, IsSeq(segs),
           NameEntries \in Nat
    PROVE  /\ Alike(FromBase(c, d, base, segs).path, base \o segs)
           /\ \A p \in DOMAIN d : /\ IsDisk(d) /\ NoTwinsIn(d) /\ base \in DOMAIN d
                                  /\ Alike(base \o segs, p)
                                  => FromBase(c, d, base, segs).path = p
<1> DEFINE full == base \o segs
           m == Len(base)
           n == Len(segs)
<1>1. PICK step : /\ IsWalk(step, c, d, base, segs)
                  /\ FromBase(c, d, base, segs) =
                        Found(step[n].path, IF step[n].stop THEN step[n].cache
                                            ELSE Insert(step[n].cache, step[n].path))
  BY FromBaseWalks
<1>2. FromBase(c, d, base, segs).path = step[n].path
  BY <1>1 DEF Found
<1>3. /\ IsSeq(full) /\ Len(full) = m + n /\ m \in Nat /\ n \in Nat
      /\ SubSeq(full, 1, m) = base /\ \A i \in 1..n : full[m + i] = segs[i]
  BY JoinIs
<1>4. /\ step[0].path = base /\ step[0].stop = FALSE
      /\ \A i \in 0..n : IsSeq(step[i].path) /\ step[i].stop \in BOOLEAN
                         /\ DOMAIN step[i] = {"path", "stop", "cache"}
  BY <1>1 DEF IsWalk
<1>5. ASSUME NEW i \in 1..n, i - 1 \in 0..n
      PROVE  /\ step[i - 1].stop => /\ step[i].path = Append(step[i - 1].path, segs[i])
                                    /\ step[i].stop
             /\ ~step[i - 1].stop => LET l == Lookup(d, step[i - 1].path, segs[i], FALSE)
                                     IN  step[i].path = l.path /\ step[i].stop = l.stop
  <2> DEFINE r == step[i - 1]
             l == Lookup(d, r.path, segs[i], FALSE)
             x == IF i = Len(segs) THEN Insert(r.cache, r.path) ELSE r.cache
  <2>1. step[i] = WalkStep(d, segs, i, r)
    BY <1>1 DEF IsWalk
  <2>2. step[i] = IF r.stop THEN [r EXCEPT !.path = Append(@, segs[i])]
                  ELSE [path |-> l.path, stop |-> l.stop, cache |-> x]
    BY <2>1 DEF WalkStep
  <2>3. DOMAIN r = {"path", "stop", "cache"} /\ r.stop \in BOOLEAN
    BY <1>4, <1>5
  <2> HIDE DEF r, l, x
  <2>4. ASSUME r.stop PROVE step[i].path = Append(r.path, segs[i]) /\ step[i].stop = r.stop
    BY <2>2, <2>3, <2>4
  <2>5. ASSUME ~r.stop PROVE step[i].path = l.path /\ step[i].stop = l.stop
    BY <2>2, <2>5
  <2> QED BY <2>4, <2>5 DEF r, l
<1> HIDE DEF full, m, n
<1>6. ASSUME NEW i \in Nat, i + 1 <= n
      PROVE  /\ i <= n /\ i # n /\ i \in 0..n /\ i + 1 \in 1..n /\ (i + 1) - 1 = i
             /\ m + i \in 0..Len(full) - 1 /\ m + i + 1 = m + (i + 1)
  BY <1>3, <1>6
<1>7. ASSUME NEW i \in Nat, i + 1 <= n
      PROVE  /\ SubSeq(full, 1, m + (i + 1)) = Append(SubSeq(full, 1, m + i), segs[i + 1])
             /\ IsSeq(SubSeq(full, 1, m + i))
  <2>1. m + i \in 0..Len(full) - 1 /\ m + i + 1 = m + (i + 1) /\ i + 1 \in 1..n
    BY <1>6, <1>7
  <2>2. full[m + i + 1] = segs[i + 1]
    BY <1>3, <2>1
  <2> QED BY <1>3, <2>1, <2>2, PrefixAppend
<1>8. Alike(step[n].path, full)
  <2> DEFINE T == {i \in Nat : i <= n => Alike(step[i].path, SubSeq(full, 1, m + i))}
  <2>1. 0 \in T
    <3>1. m + 0 = m
      BY <1>3
    <3> QED BY <1>3, <1>4, <3>1 DEF Alike
  <2>2. ASSUME NEW i \in T \cap Nat PROVE i + 1 \in T
    <3> SUFFICES ASSUME i + 1 <= n
                 PROVE  Alike(step[i + 1].path, SubSeq(full, 1, m + (i + 1)))
      OBVIOUS
    <3> DEFINE r == step[i]
               seg == segs[i + 1]
               l == Lookup(d, r.path, seg, FALSE)
               a == SubSeq(full, 1, m + i)
    <3>1. /\ i <= n /\ i \in 0..n /\ i + 1 \in 1..n /\ (i + 1) - 1 = i
      BY <1>6
    <3>2. Alike(r.path, a) /\ IsSeq(a) /\ IsSeq(r.path) /\ r.stop \in BOOLEAN
      BY <1>4, <1>7, <3>1
    <3>3. Alike(Append(r.path, seg), Append(a, seg))
      BY <3>2, AlikeAppend
    <3>4. Alike(l.path, Append(r.path, seg))
      BY <3>2, LookupAlike
    <3>5. step[i + 1].path = Append(r.path, seg) \/ step[i + 1].path = l.path
      BY <1>5, <3>1, <3>2
    <3>6. SubSeq(full, 1, m + (i + 1)) = Append(a, seg)
      BY <1>7
    <3> HIDE DEF r, seg, l, a
    <3> QED BY <3>3, <3>4, <3>5, <3>6 DEF Alike
  <2>3. Nat \subseteq T
    <3> HIDE DEF T
    <3> QED BY <2>1, <2>2, Induction
  <2>4. Alike(step[n].path, SubSeq(full, 1, m + n))
    BY <1>3, <2>3
  <2>5. SubSeq(full, 1, m + n) = full
    BY <1>3, WholeIs
  <2> QED BY <2>4, <2>5
<1>9. ASSUME NEW p \in DOMAIN d, IsDisk(d), NoTwinsIn(d), base \in DOMAIN d, Alike(full, p)
      PROVE  step[n].path = p
  <2>1. IsSeq(p) /\ Len(p) = m + n
    BY <1>3, <1>9, EntriesAreReal, AlikeIs
  <2>2. ASSUME NEW k \in 0..m + n
        PROVE  /\ SubSeq(p, 1, k) \in DOMAIN d /\ Alike(SubSeq(full, 1, k), SubSeq(p, 1, k))
               /\ k # m + n => Kind(d, SubSeq(p, 1, k)) = "dir"
    <3>1. Alike(SubSeq(full, 1, k), SubSeq(p, 1, k))
      BY <1>3, <1>9, <2>1, AlikePrefix
    <3>2. CASE k = m + n
      BY <2>1, <3>1, <3>2, WholeIs
    <3>3. CASE k # m + n
      <4>1. k \in 0..Len(p) - 1
        BY <1>3, <2>1, <3>3
      <4> QED BY <1>9, <3>1, <4>1, InsideIs
    <3> QED BY <3>2, <3>3
  <2> DEFINE T == {i \in Nat : i <= n =>
                      \/ ~step[i].stop /\ step[i].path = SubSeq(p, 1, m + i)
                      \/ i = n /\ step[i].path = p}
  <2>3. 0 \in T
    <3>1. m + 0 = m /\ m \in 0..m + n
      BY <1>3
    <3>2. SubSeq(p, 1, m) \in DOMAIN d /\ Alike(base, SubSeq(p, 1, m))
      BY <1>3, <2>2, <3>1
    <3>3. SubSeq(p, 1, m) = base
      BY <1>9, <3>2 DEF NoTwinsIn
    <3> QED BY <1>4, <3>1, <3>3
  <2>4. ASSUME NEW i \in T \cap Nat PROVE i + 1 \in T
    <3> SUFFICES ASSUME i + 1 <= n
                 PROVE  \/ ~step[i + 1].stop /\ step[i + 1].path = SubSeq(p, 1, m + (i + 1))
                        \/ i + 1 = n /\ step[i + 1].path = p
      OBVIOUS
    <3> DEFINE seg == segs[i + 1]
               dir == SubSeq(p, 1, m + i)
               q == SubSeq(p, 1, m + (i + 1))
               l == Lookup(d, dir, seg, FALSE)
    <3>1. /\ i <= n /\ i # n /\ i \in 0..n /\ i + 1 \in 1..n /\ (i + 1) - 1 = i
          /\ m + i \in 0..Len(p) - 1 /\ m + i + 1 = m + (i + 1)
          /\ m + i \in 0..m + n /\ m + (i + 1) \in 0..m + n
          /\ (m + (i + 1) = m + n => i + 1 = n)
      BY <1>3, <1>6, <2>1
    <3>2. ~step[i].stop /\ step[i].path = dir
      BY <3>1
    <3>3. step[i + 1].path = l.path /\ step[i + 1].stop = l.stop
      <4> DEFINE r == step[i]
                 after == Lookup(d, r.path, seg, FALSE)
      <4>1. i + 1 \in 1..n /\ (i + 1) - 1 \in 0..n /\ (i + 1) - 1 = i
        BY <3>1
      <4>2. ~r.stop => step[i + 1].path = after.path /\ step[i + 1].stop = after.stop
        BY <1>5, <4>1
      <4>3. r.path = dir /\ ~r.stop
        BY <3>2
      <4> HIDE DEF r, dir, seg
      <4> QED BY <4>2, <4>3
    <3>4. /\ q \in DOMAIN d /\ Alike(SubSeq(full, 1, m + (i + 1)), q)
          /\ Alike(SubSeq(full, 1, m + i), dir)
          /\ m + (i + 1) # m + n => Kind(d, q) = "dir"
      BY <2>2, <3>1
    <3>5. IsSeq(dir) /\ q # <<>> /\ Front(q) = dir
      BY <2>1, <3>1, PrefixAppend
    <3>6. Alike(Append(dir, seg), q)
      <4> DEFINE a == SubSeq(full, 1, m + i)
      <4>1. SubSeq(full, 1, m + (i + 1)) = Append(a, seg) /\ IsSeq(a)
        BY <1>7
      <4>2. Alike(a, dir)
        BY <3>4
      <4> HIDE DEF a, seg, dir
      <4>3. Alike(Append(a, seg), Append(dir, seg))
        BY <3>5, <4>1, <4>2, AlikeAppend
      <4> QED BY <3>4, <4>1, <4>3 DEF Alike
    <3> HIDE DEF seg
    <3>7. l.path = q /\ (l.stop => Kind(d, q) # "dir")
      BY <1>9, <3>4, <3>5, <3>6, LookupFinds
    <3>8. m + (i + 1) = m + n => q = p
      BY <2>1, WholeIs
    <3> HIDE DEF l, q, dir, T
    <3> QED BY <3>1, <3>3, <3>4, <3>7, <3>8 DEF q
  <2>5. Nat \subseteq T
    <3> HIDE DEF T
    <3> QED BY <2>3, <2>4, Induction
  <2>6. SubSeq(p, 1, m + n) = p
    BY <2>1, WholeIs
  <2> QED BY <1>3, <2>5, <2>6
<1> QED BY <1>2, <1>8, <1>9 DEF full

\* A path is resolved to one of its spellings, and to the one on the disk if there is one.
LEMMA ResolveFinds ==
    ASSUME NEW c, Spelled(c), NEW d, NEW base, IsSeq(base), NEW segs, IsSeq(segs),
           NameEntries \in Nat
    PROVE  /\ Alike(Resolve(c, d, base, segs).path, base \o segs)
           /\ \A p \in DOMAIN d : /\ IsDisk(d) /\ NoTwinsIn(d) /\ base \in DOMAIN d
                                  /\ Alike(base \o segs, p)
                                  => Resolve(c, d, base, segs).path = p
<1> DEFINE full   == base \o segs
           got    == Get(c, d, full)
           parent == Front(full)
           up     == Get(got.cache, d, parent)
           seg    == Last(segs)
           r      == Resolve(c, d, base, segs)
<1>1. /\ IsSeq(full) /\ Len(full) = Len(base) + Len(segs) /\ IsSeq(parent)
      /\ Len(base) \in Nat /\ Len(segs) \in Nat /\ SubSeq(full, 1, Len(base)) = base
      /\ segs = <<>> <=> Len(segs) = 0
  <2>1. segs \in Seq(ToSet(segs))
    BY DEF IsSeq
  <2> QED BY <2>1, JoinIs, FrontSpelled, EmptySeq
<1>2. ASSUME segs # <<>>
      PROVE  full # <<>> /\ Append(parent, seg) = full /\ (Len(segs) = 1 => parent = base)
  <2>1. Len(segs) # 0 /\ Len(full) # 0
    BY <1>1, <1>2
  <2>2. full # <<>>
    BY <2>1, EmptySeq, <1>1
  <2>3. Last(full) = seg
    <3>1. Len(segs) \in 1..Len(segs) /\ Len(full) = Len(base) + Len(segs)
      BY <1>1, <2>1
    <3>2. full[Len(base) + Len(segs)] = segs[Len(segs)]
      BY <3>1, JoinIs
    <3> QED BY <3>1, <3>2 DEF Last
  <2>4. Append(parent, seg) = full /\ parent = SubSeq(full, 1, Len(full) - 1)
    BY <1>1, <2>2, <2>3, FrontIs
  <2>5. Len(segs) = 1 => Len(full) - 1 = Len(base)
    BY <1>1
  <2> QED BY <1>1, <2>2, <2>4, <2>5
<1> HIDE DEF full, parent, seg
<1>3. /\ IsSeq(got.path) /\ Spelled(got.cache) /\ Alike(got.path, full)
      /\ IsSeq(up.path) /\ Spelled(up.cache) /\ Alike(up.path, parent)
  <2>1. /\ IsSeq(got.path) /\ Spelled(got.cache) /\ Alike(got.path, full)
    BY <1>1, GetSpelled DEF Alike
  <2> HIDE DEF got
  <2> QED BY <1>1, <2>1, GetSpelled DEF Alike
<1>4. \/ got.hit /\ r.path = got.path
      \/ Exists(d, full) /\ r.path = full
      \/ segs = <<>> /\ r.path = full
      \/ segs # <<>> /\ Len(segs) = 1 /\ r.path = InParent(got.cache, d, parent, seg).path
      \/ segs # <<>> /\ up.hit /\ r.path = InParent(up.cache, d, up.path, seg).path
      \/ /\ segs # <<>> /\ Exists(d, parent)
         /\ r.path = InParent(Insert(up.cache, parent), d, parent, seg).path
      \/ r.path = FromBase(up.cache, d, base, segs).path
  <2>1. segs = <<>> \/ Len(segs) = 1 \/ Len(segs) > 1
    <3> DEFINE count == Len(segs)
    <3>1. count \in Nat /\ (segs = <<>> <=> count = 0)
      BY <1>1
    <3> HIDE DEF count, r, up, got
    <3>2. count = 0 \/ count = 1 \/ count > 1
      BY ONLY <3>1
    <3> QED BY ONLY <3>1, <3>2 DEF count
  <2>2. CASE got.hit
    <3>1. r = Found(got.path, got.cache)
      BY <2>2 DEF Resolve, got, full
    <3> QED BY <2>2, <3>1 DEF Found
  <2>3. CASE ~got.hit /\ (Exists(d, full) \/ segs = <<>>)
    <3>1. r = Found(full, got.cache)
      BY <2>3 DEF Resolve, got, full
    <3> QED BY <2>3, <3>1 DEF Found
  <2>4. CASE ~got.hit /\ ~Exists(d, full) /\ segs # <<>> /\ Len(segs) = 1
    <3>1. r = InParent(got.cache, d, parent, seg)
      BY <2>4 DEF Resolve, got, full, parent, seg
    <3> QED BY <2>4, <3>1
  <2>5. CASE ~got.hit /\ ~Exists(d, full) /\ segs # <<>> /\ Len(segs) > 1
    <3>1. r = IF up.hit THEN InParent(up.cache, d, up.path, seg)
              ELSE IF Exists(d, parent) THEN InParent(Insert(up.cache, parent), d, parent, seg)
              ELSE FromBase(up.cache, d, base, segs)
      BY <2>5 DEF Resolve, got, full, parent, up, seg
    <3> HIDE DEF r, up, got
    <3> QED BY <2>5, <3>1
  <2> QED BY <2>1, <2>2, <2>3, <2>4, <2>5
<1>5. ASSUME NEW p \in DOMAIN d, IsDisk(d), NoTwinsIn(d), base \in DOMAIN d, Alike(full, p)
      PROVE  /\ got.hit => got.path = p
             /\ Exists(d, full) => full = p
             /\ segs = <<>> => full = p
             /\ segs # <<>> =>
                  /\ p # <<>> /\ Front(p) \in DOMAIN d /\ Alike(parent, Front(p))
                  /\ Alike(Append(Front(p), seg), p)
                  /\ up.hit => up.path = Front(p)
                  /\ Exists(d, parent) => parent = Front(p)
                  /\ Len(segs) = 1 => parent = Front(p)
  <2>1. IsSeq(p)
    BY <1>5, EntriesAreReal
  <2>2. got.hit => got.path = p
    BY <1>1, <1>5, GetFinds
  <2>3. Exists(d, full) => full = p
    BY <1>1, <1>5, ExistingIs
  <2>4. segs = <<>> => full = p
    <3> SUFFICES ASSUME segs = <<>> PROVE full = p
      OBVIOUS
    <3>1. Len(full) = Len(base) /\ SubSeq(full, 1, Len(full)) = full
      BY <1>1, WholeIs
    <3>2. full = base
      BY <1>1, <3>1
    <3> QED BY <1>5, <3>2 DEF NoTwinsIn
  <2>5. ASSUME segs # <<>>
        PROVE  /\ p # <<>> /\ Front(p) \in DOMAIN d /\ Alike(parent, Front(p))
               /\ Alike(Append(Front(p), seg), p)
               /\ up.hit => up.path = Front(p)
               /\ Exists(d, parent) => parent = Front(p)
               /\ Len(segs) = 1 => parent = Front(p)
    <3>1. /\ p # <<>> /\ IsSeq(Front(p)) /\ Alike(parent, Front(p))
      BY <1>1, <1>2, <1>5, <2>1, <2>5, AlikeFront DEF parent
    <3>2. Front(p) \in DOMAIN d
      <4>1. Append(Front(p), Last(p)) = p
        BY <2>1, <3>1, FrontIs
      <4>2. Kind(d, Front(p)) = "dir"
        BY <1>5, <3>1, <4>1, EntriesAreReal, RealStep
      <4> QED BY <1>5, <4>2, KindsAre
    <3>3. Alike(Append(Front(p), seg), p)
      <4>1. Alike(Append(parent, seg), Append(Front(p), seg))
        BY <1>1, <3>1, AlikeAppend
      <4> QED BY <1>2, <1>5, <2>5, <4>1 DEF Alike
    <3>4. up.hit => up.path = Front(p)
      BY <1>1, <1>3, <1>5, <3>1, <3>2, GetFinds
    <3>5. Exists(d, parent) => parent = Front(p)
      BY <1>1, <1>5, <3>1, <3>2, ExistingIs
    <3>6. Len(segs) = 1 => parent = Front(p)
      BY <1>2, <1>5, <2>5, <3>1, <3>2 DEF NoTwinsIn
    <3> QED BY <3>1, <3>2, <3>3, <3>4, <3>5, <3>6
  <2> QED BY <2>2, <2>3, <2>4, <2>5
<1> HIDE DEF r, up, got
<1>6. Alike(r.path, full)
  <2>1. Alike(full, full)
    BY DEF Alike
  <2>2. ASSUME NEW b, NEW x, IsSeq(x), Alike(x, parent), segs # <<>>
        PROVE  Alike(InParent(b, d, x, seg).path, full)
    <3>1. Alike(InParent(b, d, x, seg).path, Append(x, seg))
      BY <2>2, InParentFinds
    <3>2. Alike(Append(x, seg), Append(parent, seg))
      BY <1>1, <2>2, AlikeAppend
    <3> QED BY <1>2, <2>2, <3>1, <3>2 DEF Alike
  <2>3. Alike(parent, parent)
    BY DEF Alike
  <2>4. Alike(FromBase(up.cache, d, base, segs).path, full)
    BY <1>3, FromBaseFinds DEF full
  <2> QED BY <1>1, <1>3, <1>4, <2>1, <2>2, <2>3, <2>4
<1>7. ASSUME NEW p \in DOMAIN d, IsDisk(d), NoTwinsIn(d), base \in DOMAIN d, Alike(full, p)
      PROVE  r.path = p
  <2>1. ASSUME NEW b, segs # <<>> PROVE InParent(b, d, Front(p), seg).path = p
    <3>1. IsSeq(Front(p)) /\ p # <<>> /\ Alike(Append(Front(p), seg), p)
      BY <1>5, <1>7, <2>1, EntriesAreReal, FrontSpelled
    <3> QED BY <1>7, <3>1, InParentFinds
  <2>2. FromBase(up.cache, d, base, segs).path = p
    BY <1>3, <1>7, FromBaseFinds DEF full
  <2> QED BY <1>4, <1>5, <1>7, <2>1, <2>2
<1> QED BY <1>6, <1>7 DEF full, r

-----------------------------------------------------------------------------
(* How the share is served stays as it was set up.                         *)

LEMMA StepsStay ==
    ASSUME NEW c \in Clients,
           \/ \E new, next : Step(c, new, next)
           \/ \E next : Goes(c, next)
    PROVE  UNCHANGED <<inner, setup>>
BY DEF Step, Goes

LEMMA AdvanceStays ==
    ASSUME NEW c \in Clients, Advance(c)
    PROVE  UNCHANGED <<inner, setup>>
<1>1. CASE NeverThere(c) \/ NegativePeek(c) \/ NegativeStat(c) \/ NegativeLook(c)
  BY <1>1, StepsStay DEF NeverThere, NegativePeek, NegativeStat, NegativeLook
<1>0. CASE NegativeStale(c)
  BY <1>0 DEF NegativeStale
<1>2. CASE GetMetadata(c) \/ SymlinkMetadata(c) \/ Open(c) \/ Write(c) \/ CreateDir(c)
  BY <1>2, StepsStay DEF GetMetadata, SymlinkMetadata, Open, Write, CreateDir, Finishes
<1>3. CASE MarkSidecar(c) \/ RemoveDir(c) \/ RemoveFile(c) \/ Copy(c)
  BY <1>3, StepsStay DEF MarkSidecar, RemoveDir, RemoveFile, Copy, Finishes
<1>4. CASE SetModified(c)
  BY <1>4 DEF SetModified
<1>5. CASE RenameFirst(c) \/ RenameClear(c) \/ RenameAgain(c)
  BY <1>5, StepsStay DEF RenameFirst, RenameClear, RenameAgain, Finishes
<1>6. CASE FailsByItself(c) \/ CopyBreaksOff(c)
  BY <1>6, StepsStay DEF FailsByItself, CopyBreaksOff, Finishes
<1> QED BY <1>0, <1>1, <1>2, <1>3, <1>4, <1>5, <1>6 DEF Advance

LEMMA InnerIsSetUp == Spec => [](inner = setup.inner)
<1>1. Init => inner = setup.inner
  BY DEF Init
<1>2. ASSUME [Next]_vars PROVE UNCHANGED <<inner, setup>>
  <2>1. CASE \E c \in Clients, call \in setup.calls : CallByName(c, call)
    BY <2>1, StepsStay DEF CallByName
  <2>2. CASE \E c \in Clients, call \in setup.calls : Call(c, call)
    <3>1. PICK c \in Clients, call \in setup.calls : Call(c, call)
      BY <2>2
    <3>2. \E next : Goes(c, next)
      BY <3>1 DEF Call
    <3> QED BY <3>2, StepsStay
  <2>3. CASE \E c \in Clients : Advance(c)
    BY <2>3, AdvanceStays
  <2>4. CASE PurgeNames
    BY <2>4 DEF PurgeNames, dirvars
  <2>5. CASE Listing
    BY <2>5 DEF Listing, ListNext, ReadDir, ReadBatch, Poll, PollStart, PollBuffered, PollReady,
                PollFused, FinishStamp, FinishStore, PurgeDirs
  <2>6. CASE UNCHANGED vars
    BY <2>6 DEF vars, dirvars
  <2> QED BY <1>2, <2>1, <2>2, <2>3, <2>4, <2>5, <2>6 DEF Next
<1>3. inner = setup.inner /\ UNCHANGED <<inner, setup>> => (inner = setup.inner)'
  OBVIOUS
<1> QED BY <1>1, <1>2, <1>3, PTL DEF Spec

\* Whatever is in the cache of names, a path is found under the spelling the disk has for it, if
\* it has one, and is taken for one that nothing has if not (localfs_windows.rs:33).
THEOREM SpellingsAreFound == Spec => []FindsAnySpelling
<1>1. ASSUME CallInv, CacheInv, inner = setup.inner PROVE FindsAnySpelling
  <2>1. SUFFICES ASSUME inner.case_insensitive, NoTwins, Base \in DOMAIN disk,
                        NEW call \in setup.calls
                 PROVE  LET asked == LowerPath(Base \o call.path)
                            found == fspath(names, disk, call.path).path
                        IN  /\ LowerPath(found) = asked
                            /\ (\E p \in DOMAIN disk : LowerPath(p) = asked) <=> found \in DOMAIN disk
    BY DEF FindsAnySpelling
  <2> DEFINE full  == Base \o call.path
             found == Resolve(names, disk, Base, call.path).path
  <2>2. /\ IsSeq(Base) /\ IsSeq(call.path) /\ NameEntries \in Nat /\ ~inner.is_file
    BY <1>1, <2>1, LocalFsAssumption DEF CacheInv, CallsOk, IsSeq
  <2>3. IsDisk(disk) /\ NoTwinsIn(disk) /\ Spelled(names)
    BY <1>1, <2>1 DEF CallInv, CacheInv, CallsOk, NoTwins, NoTwinsIn, Alike
  <2>4. fspath(names, disk, call.path).path = found
    BY <2>1, <2>2 DEF fspath
  <2>5. /\ Alike(found, full)
        /\ \A p \in DOMAIN disk : Alike(full, p) => found = p
    BY <2>1, <2>2, <2>3, ResolveFinds
  <2> HIDE DEF found, full
  <2>6. /\ LowerPath(found) = LowerPath(full)
        /\ (\E p \in DOMAIN disk : LowerPath(p) = LowerPath(full)) <=> found \in DOMAIN disk
    BY <2>5 DEF Alike
  <2> QED BY <2>4, <2>6 DEF full
<1> QED BY <1>1, CallInvHolds, InnerIsSetUp, PTL
=============================================================================
