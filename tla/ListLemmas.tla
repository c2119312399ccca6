----------------------------- MODULE ListLemmas -----------------------------
(***************************************************************************)
(* Facts about intrusive lists (sql/sql_plist.h) as sequences without      *)
(* duplicates: which elements an insertion or a removal leaves in a list.  *)
(***************************************************************************)
EXTENDS Integers, Sequences, SequencesExt, SequenceTheorems, TLAPS

\* t is in the list s
In(s, t) == \E i \in 1 .. Len(s) : s[i] = t

\* No element is in the list twice
SeqInj(s) == \A i, j \in 1 .. Len(s) : s[i] = s[j] => i = j

\* RemoveAt() drops one element and keeps the order of the others.
LEMMA RemoveAtFacts ==
  ASSUME NEW S, NEW s \in Seq(S), NEW i \in 1 .. Len(s)
  PROVE  /\ RemoveAt(s, i) \in Seq(S)
         /\ Len(RemoveAt(s, i)) = Len(s) - 1
         /\ \A j \in 1 .. Len(s) - 1 :
               RemoveAt(s, i)[j] = IF j < i THEN s[j] ELSE s[j + 1]
<1> DEFINE a == SubSeq(s, 1, i - 1)  b == SubSeq(s, i + 1, Len(s))
<1>1. a \in Seq(S) /\ Len(a) = i - 1 /\ Len(s) \in Nat /\ \A j \in 1 .. i - 1 : a[j] = s[j]
  OBVIOUS
<1>2. b \in Seq(S) /\ Len(b) = Len(s) - i /\ \A j \in 1 .. Len(s) - i : b[j] = s[i + j]
  OBVIOUS
<1>3. RemoveAt(s, i) = a \o b BY DEF RemoveAt
<1> HIDE DEF a, b
<1>4. /\ a \o b \in Seq(S) /\ Len(a \o b) = Len(a) + Len(b)
      /\ \A j \in 1 .. Len(a) + Len(b) : (a \o b)[j] = IF j <= Len(a) THEN a[j] ELSE b[j - Len(a)]
  BY <1>1, <1>2, ConcatProperties
<1>5. ASSUME NEW j \in 1 .. Len(s) - 1 PROVE (a \o b)[j] = IF j < i THEN s[j] ELSE s[j + 1]
  <2>1. CASE j < i BY <1>1, <1>2, <1>4, <2>1
  <2>2. CASE j >= i
    <3>1. j - Len(a) \in 1 .. Len(s) - i /\ i + (j - Len(a)) = j + 1 BY <1>1, <2>2
    <3> QED BY <3>1, <1>1, <1>2, <1>4, <2>2
  <2>3. j < i \/ j >= i OBVIOUS
  <2> QED BY <2>1, <2>2, <2>3
<1> QED BY <1>1, <1>2, <1>3, <1>4, <1>5

\* I_P_List::remove() on a list without duplicates: exactly that element goes.
LEMMA RemoveAtIn ==
  ASSUME NEW S, NEW s \in Seq(S), NEW i \in 1 .. Len(s), SeqInj(s)
  PROVE  /\ RemoveAt(s, i) \in Seq(S)
         /\ SeqInj(RemoveAt(s, i))
         /\ \A u : In(RemoveAt(s, i), u) <=> In(s, u) /\ u # s[i]
<1> DEFINE R == RemoveAt(s, i)
<1>1. /\ R \in Seq(S) /\ Len(R) = Len(s) - 1 /\ Len(s) \in Nat
      /\ \A j \in 1 .. Len(s) - 1 : R[j] = IF j < i THEN s[j] ELSE s[j + 1]
  BY RemoveAtFacts
<1> HIDE DEF R
<1> DEFINE at(j) == IF j < i THEN j ELSE j + 1
<1>a. \A j \in 1 .. Len(R) : at(j) \in 1 .. Len(s) /\ at(j) # i /\ R[j] = s[at(j)]
  BY <1>1
<1>b. \A j, m \in 1 .. Len(R) : at(j) = at(m) => j = m
  BY <1>1
<1> HIDE DEF at
<1>2. SeqInj(R)
  BY <1>a, <1>b DEF SeqInj
<1>3. ASSUME NEW u, In(R, u) PROVE In(s, u) /\ u # s[i]
  BY <1>a, <1>3 DEF SeqInj, In
<1>4. ASSUME NEW u, In(s, u), u # s[i] PROVE In(R, u)
  <2>1. PICK j \in 1 .. Len(s) : s[j] = u BY <1>4 DEF In
  <2>2. CASE j < i BY <2>1, <2>2, <1>1 DEF In
  <2>3. CASE j > i
    <3>1. j - 1 \in 1 .. Len(R) /\ R[j - 1] = u BY <2>1, <2>3, <1>1
    <3> QED BY <3>1 DEF In
  <2> QED BY <2>1, <2>2, <2>3, <1>4
<1> QED BY <1>1, <1>2, <1>3, <1>4 DEF R

\* I_P_List::push_front() of a new element.
LEMMA PushIn ==
  ASSUME NEW S, NEW s \in Seq(S), NEW t \in S, SeqInj(s), ~In(s, t)
  PROVE  /\ <<t>> \o s \in Seq(S)
         /\ SeqInj(<<t>> \o s)
         /\ \A u : In(<<t>> \o s, u) <=> In(s, u) \/ u = t
<1> DEFINE R == <<t>> \o s
<1>1. /\ R \in Seq(S) /\ Len(R) = Len(s) + 1 /\ Len(s) \in Nat
      /\ R[1] = t /\ \A j \in 1 .. Len(s) : R[j + 1] = s[j]
  OBVIOUS
<1> HIDE DEF R
<1>2. \A j \in 1 .. Len(R) : j = 1 \/ (j - 1 \in 1 .. Len(s) /\ R[j] = s[j - 1])
  BY <1>1
<1>3. SeqInj(R)
  <2> SUFFICES ASSUME NEW m \in 1 .. Len(R), NEW n \in 1 .. Len(R), R[m] = R[n] PROVE m = n
    BY DEF SeqInj
  <2>1. ASSUME NEW k \in 1 .. Len(R), R[k] = t PROVE k = 1
    BY <1>2, <2>1 DEF In
  <2>2. CASE m = 1 \/ n = 1 BY <2>1, <2>2, <1>1
  <2>3. CASE m # 1 /\ n # 1
    <3>1. m - 1 = n - 1 BY <1>2, <2>3 DEF SeqInj
    <3> QED BY <3>1
  <2> QED BY <2>2, <2>3
<1>4. ASSUME NEW u, In(R, u) PROVE In(s, u) \/ u = t
  BY <1>1, <1>2, <1>4 DEF In
<1>5. ASSUME NEW u, In(s, u) PROVE In(R, u)
  <2>1. PICK j \in 1 .. Len(s) : s[j] = u BY <1>5 DEF In
  <2>2. j + 1 \in 1 .. Len(R) /\ R[j + 1] = u BY <2>1, <1>1
  <2> QED BY <2>2 DEF In
<1>6. In(R, t) BY <1>1 DEF In
<1> QED BY <1>1, <1>3, <1>4, <1>5, <1>6 DEF R

\* I_P_List::push_back() of a new element.
LEMMA AppendIn ==
  ASSUME NEW S, NEW s \in Seq(S), NEW t \in S, SeqInj(s), ~In(s, t)
  PROVE  /\ Append(s, t) \in Seq(S)
         /\ SeqInj(Append(s, t))
         /\ \A u : In(Append(s, t), u) <=> In(s, u) \/ u = t
<1> DEFINE R == Append(s, t)
<1>1. /\ R \in Seq(S) /\ Len(R) = Len(s) + 1 /\ Len(s) \in Nat
      /\ R[Len(s) + 1] = t /\ \A j \in 1 .. Len(s) : R[j] = s[j]
  OBVIOUS
<1> HIDE DEF R
<1>3. SeqInj(R)
  BY <1>1 DEF SeqInj, In
<1>4. ASSUME NEW u, In(R, u) PROVE In(s, u) \/ u = t
  BY <1>1, <1>4 DEF In
<1>5. ASSUME NEW u, In(s, u) PROVE In(R, u)
  BY <1>1, <1>5 DEF In
<1>6. In(R, t) BY <1>1 DEF In
<1> QED BY <1>1, <1>3, <1>4, <1>5, <1>6 DEF R

\* Two lists without common elements, one after the other.
LEMMA ConcatIn ==
  ASSUME NEW S, NEW s \in Seq(S), NEW r \in Seq(S), SeqInj(s), SeqInj(r),
         \A u : ~(In(s, u) /\ In(r, u))
  PROVE  /\ s \o r \in Seq(S)
         /\ SeqInj(s \o r)
         /\ \A u : In(s \o r, u) <=> In(s, u) \/ In(r, u)
<1> DEFINE R == s \o r
<1>1. /\ R \in Seq(S) /\ Len(R) = Len(s) + Len(r) /\ Len(s) \in Nat /\ Len(r) \in Nat
      /\ \A j \in 1 .. Len(s) : R[j] = s[j]
      /\ \A j \in 1 .. Len(r) : R[Len(s) + j] = r[j]
  OBVIOUS
<1> HIDE DEF R
<1>2. \A j \in 1 .. Len(R) :
         \/ j \in 1 .. Len(s) /\ R[j] = s[j]
         \/ j - Len(s) \in 1 .. Len(r) /\ R[j] = r[j - Len(s)]
  <2> TAKE j \in 1 .. Len(R)
  <2>1. CASE j <= Len(s) BY <1>1, <2>1
  <2>2. CASE j > Len(s)
    <3>1. j - Len(s) \in 1 .. Len(r) /\ Len(s) + (j - Len(s)) = j BY <1>1, <2>2
    <3> QED BY <3>1, <1>1
  <2> QED BY <2>1, <2>2, <1>1
<1>3. SeqInj(R)
  <2> SUFFICES ASSUME NEW m \in 1 .. Len(R), NEW n \in 1 .. Len(R), R[m] = R[n] PROVE m = n
    BY DEF SeqInj
  <2>1. CASE m \in 1 .. Len(s) /\ R[m] = s[m] /\ n \in 1 .. Len(s) /\ R[n] = s[n]
    BY <2>1 DEF SeqInj
  <2>2. CASE /\ m - Len(s) \in 1 .. Len(r) /\ R[m] = r[m - Len(s)]
             /\ n - Len(s) \in 1 .. Len(r) /\ R[n] = r[n - Len(s)]
    <3>1. m - Len(s) = n - Len(s) BY <2>2 DEF SeqInj
    <3> QED BY <3>1, <1>1
  <2>3. ASSUME NEW k \in 1 .. Len(s), NEW q \in 1 .. Len(r), s[k] = r[q] PROVE FALSE
    BY <2>3 DEF In
  <2> QED BY <1>2, <2>1, <2>2, <2>3
<1>4. ASSUME NEW u, In(R, u) PROVE In(s, u) \/ In(r, u)
  BY <1>1, <1>2, <1>4 DEF In
<1>5. ASSUME NEW u, In(s, u) PROVE In(R, u)
  BY <1>1, <1>5 DEF In
<1>6. ASSUME NEW u, In(r, u) PROVE In(R, u)
  <2>1. PICK j \in 1 .. Len(r) : r[j] = u BY <1>6 DEF In
  <2>2. Len(s) + j \in 1 .. Len(R) /\ R[Len(s) + j] = u BY <2>1, <1>1
  <2> QED BY <2>2 DEF In
<1> QED BY <1>1, <1>3, <1>4, <1>5, <1>6 DEF R

\* A list pushed to the front of an empty one, element by element.
LEMMA ReverseIn ==
  ASSUME NEW S, NEW s \in Seq(S), SeqInj(s)
  PROVE  /\ Reverse(s) \in Seq(S)
         /\ SeqInj(Reverse(s))
         /\ \A u : In(Reverse(s), u) <=> In(s, u)
<1> DEFINE R == Reverse(s)
<1>1. /\ R \in Seq(S) /\ Len(R) = Len(s) /\ Len(s) \in Nat
      /\ \A j \in 1 .. Len(s) : (Len(s) - j) + 1 \in 1 .. Len(s) /\ R[j] = s[(Len(s) - j) + 1]
  BY DEF Reverse
<1> HIDE DEF R
<1>3. SeqInj(R)
  <2> SUFFICES ASSUME NEW m \in 1 .. Len(R), NEW n \in 1 .. Len(R), R[m] = R[n] PROVE m = n
    BY DEF SeqInj
  <2>1. (Len(s) - m) + 1 = (Len(s) - n) + 1 BY <1>1 DEF SeqInj
  <2> QED BY <2>1, <1>1
<1>4. ASSUME NEW u, In(R, u) PROVE In(s, u)
  BY <1>1, <1>4 DEF In
<1>5. ASSUME NEW u, In(s, u) PROVE In(R, u)
  <2>1. PICK j \in 1 .. Len(s) : s[j] = u BY <1>5 DEF In
  <2>2. /\ (Len(s) - j) + 1 \in 1 .. Len(R)
        /\ (Len(s) - ((Len(s) - j) + 1)) + 1 = j
    BY <2>1, <1>1
  <2>3. R[(Len(s) - j) + 1] = u BY <2>1, <2>2, <1>1
  <2> QED BY <2>2, <2>3 DEF In
<1> QED BY <1>1, <1>3, <1>4, <1>5 DEF R

\* The rest of a list, when its first element is dealt with.
LEMMA TailIn ==
  ASSUME NEW S, NEW s \in Seq(S), s # <<>>, SeqInj(s)
  PROVE  /\ Tail(s) \in Seq(S) /\ s[1] \in S /\ In(s, s[1])
         /\ SeqInj(Tail(s))
         /\ \A u : In(Tail(s), u) => In(s, u) /\ u # s[1]
<1>1. /\ Tail(s) \in Seq(S) /\ Len(Tail(s)) = Len(s) - 1 /\ Len(s) \in Nat /\ Len(s) >= 1
      /\ \A j \in 1 .. Len(s) - 1 : Tail(s)[j] = s[j + 1]
  OBVIOUS
<1> QED BY <1>1 DEF SeqInj, In
\* A list of several elements has a rest.
LEMMA TailNotEmpty ==
  ASSUME NEW S, NEW s \in Seq(S), Len(s) > 1
  PROVE  Tail(s) \in Seq(S) /\ Tail(s) # <<>>
<1>1. Len(s) \in Nat /\ s # <<>> /\ Tail(s) \in Seq(S) /\ Len(Tail(s)) = Len(s) - 1
  OBVIOUS
<1>2. Len(Tail(s)) # 0
  BY <1>1
<1> QED BY <1>1, <1>2

\* ToSet() and In() say the same.
LEMMA ToSetIn ==
  ASSUME NEW S, NEW s \in Seq(S)
  PROVE  ToSet(s) \subseteq S /\ \A u : u \in ToSet(s) <=> In(s, u)
BY DEF ToSet, In
=============================================================================
