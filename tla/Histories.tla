----------------------------- MODULE Histories ------------------------------
(***************************************************************************)
(* Lemmas about the histories that the pools and the service keep: the     *)
(* jobs accepted are the jobs started followed by the jobs queued, and     *)
(* every history grows at its end.                                         *)
(***************************************************************************)
EXTENDS Naturals, Sequences, Functions, SequenceTheorems, TLAPS

(* A history that grows.                                                   *)

LEMMA AppendFresh ==
  ASSUME NEW S, NEW s \in Seq(S), NEW e \in S
  PROVE  /\ Range(Append(s, e)) = Range(s) \cup {e}
         /\ IsInjective(s) /\ e \notin Range(s) => IsInjective(Append(s, e))
<1> DEFINE t == Append(s, e)
<1>1. /\ Len(s) \in Nat
      /\ DOMAIN s = 1 .. Len(s)
      /\ DOMAIN t = 1 .. Len(s) + 1
      /\ \A i \in 1 .. Len(s) : t[i] = s[i]
      /\ t[Len(s) + 1] = e
  OBVIOUS
<1> HIDE DEF t
<1>2. Range(t) = Range(s) \cup {e}
  <2>1. ASSUME NEW i \in DOMAIN t PROVE t[i] \in Range(s) \cup {e}
    BY <1>1 DEF Range
  <2>2. ASSUME NEW i \in DOMAIN s PROVE s[i] \in Range(t)
    BY <1>1 DEF Range
  <2>3. e \in Range(t)
    BY <1>1 DEF Range
  <2> QED
    BY <2>1, <2>2, <2>3 DEF Range
<1>3. ASSUME IsInjective(s), e \notin Range(s) PROVE IsInjective(t)
  BY <1>1, <1>3 DEF IsInjective, Range
<1> QED
  BY <1>2, <1>3 DEF t

(* A history a \o b of which the part a has been dealt with.               *)

LEMMA PartOfHistory ==
  ASSUME NEW S, NEW a \in Seq(S), NEW b \in Seq(S)
  PROVE  Range(a) \subseteq Range(a \o b)
<1>1. /\ Len(a \o b) = Len(a) + Len(b)
      /\ a \o b \in Seq(S)
      /\ \A i \in 1 .. Len(a) + Len(b) :
           (a \o b)[i] = IF i <= Len(a) THEN a[i] ELSE b[i - Len(a)]
  BY ConcatProperties
<1>2. ASSUME NEW i \in DOMAIN a PROVE i \in DOMAIN (a \o b) /\ (a \o b)[i] = a[i]
  <2>1. i \in 1 .. Len(a) /\ Len(a) \in Nat /\ Len(b) \in Nat
    OBVIOUS
  <2>2. i \in 1 .. Len(a) + Len(b) /\ i <= Len(a)
    BY <2>1
  <2> QED
    BY <1>1, <2>2
<1> QED
  BY <1>2 DEF Range

\* The first element of the rest is new and is the next one of the history.
LEMMA NextToStart ==
  ASSUME NEW S, NEW a \in Seq(S), NEW b \in Seq(S), b # <<>>, IsInjective(a \o b)
  PROVE  /\ Head(b) \notin Range(a)
         /\ Len(a) < Len(a \o b)
         /\ (a \o b)[Len(a) + 1] = Head(b)
<1>1. /\ Len(a) \in Nat /\ DOMAIN a = 1 .. Len(a)
      /\ Len(b) \in Nat /\ Len(b) > 0 /\ Head(b) = b[1]
  OBVIOUS
<1>2. /\ Len(a \o b) = Len(a) + Len(b)
      /\ DOMAIN (a \o b) = 1 .. Len(a) + Len(b)
      /\ \A i \in 1 .. Len(a) + Len(b) :
           (a \o b)[i] = IF i <= Len(a) THEN a[i] ELSE b[i - Len(a)]
  BY ConcatProperties
<1>3. (a \o b)[Len(a) + 1] = Head(b)
  BY <1>1, <1>2
<1>4. ASSUME NEW i \in DOMAIN a PROVE a[i] # Head(b)
  <2>1. (a \o b)[i] = a[i] /\ i # Len(a) + 1
    BY <1>1, <1>2
  <2>2. i \in DOMAIN (a \o b) /\ Len(a) + 1 \in DOMAIN (a \o b)
    BY <1>1, <1>2
  <2> QED
    BY <1>3, <2>1, <2>2 DEF IsInjective
<1> QED
  BY <1>1, <1>2, <1>3, <1>4 DEF Range

LEMMA MoveHead ==
  ASSUME NEW S, NEW a \in Seq(S), NEW b \in Seq(S), b # <<>>
  PROVE  Append(a, Head(b)) \o Tail(b) = a \o b
<1>1. Head(b) \in S /\ Tail(b) \in Seq(S) /\ <<Head(b)>> \in Seq(S)
  OBVIOUS
<1>2. Append(a, Head(b)) = a \o <<Head(b)>>
  BY <1>1, AppendIsConcat
<1>3. <<Head(b)>> \o Tail(b) = b
  OBVIOUS
<1> QED
  BY <1>1, <1>2, <1>3, ConcatAssociative

\* A new element goes to the end of the rest, or straight to a when nothing is left.
LEMMA GrowRest ==
  ASSUME NEW S, NEW a \in Seq(S), NEW b \in Seq(S), NEW h, h = a \o b, NEW e \in S
  PROVE  Append(h, e) = a \o Append(b, e)
<1>1. <<e>> \in Seq(S) /\ a \o b \in Seq(S)
  OBVIOUS
<1>2. Append(a \o b, e) = (a \o b) \o <<e>> /\ Append(b, e) = b \o <<e>>
  BY <1>1, AppendIsConcat
<1>3. (a \o b) \o <<e>> = a \o (b \o <<e>>)
  BY <1>1, ConcatAssociative
<1> QED
  BY <1>2, <1>3

LEMMA NothingLeft ==
  ASSUME NEW S, NEW a \in Seq(S), NEW b, b = <<>>, NEW e \in S
  PROVE  a \o b = a /\ Append(a \o b, e) = Append(a, e) \o b
<1>1. Append(a, e) \in Seq(S)
  OBVIOUS
<1>2. a \o <<>> = a /\ Append(a, e) \o <<>> = Append(a, e)
  BY <1>1, ConcatEmptySeq
<1> QED
  BY <1>2
=============================================================================
