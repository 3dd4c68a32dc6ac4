-------------------------- MODULE SemaphoreProofs ---------------------------
(***************************************************************************)
(* Proofs about Semaphore, for any users and any capacity: its types, the  *)
(* queue of waiters, the accounting of tokens, and from these two that     *)
(* never more users hold a token than the capacity allows.                 *)
(***************************************************************************)
EXTENDS Semaphore, FiniteSetTheorems, SequenceTheorems, TLAPS

\* A waiter that leaves takes nobody with it and leaves no second entry behind.
LEMMA Unqueue ==
  ASSUME NEW s \in Seq(Users), NEW i \in DOMAIN s
  PROVE  /\ RemoveAt(s, i) \in Seq(Users)
         /\ IsInjective(s) => /\ IsInjective(RemoveAt(s, i))
                              /\ ToSet(RemoveAt(s, i)) = ToSet(s) \ {s[i]}
<1> DEFINE before == SubSeq(s, 1, i - 1)
           after == SubSeq(s, i + 1, Len(s))
           r == RemoveAt(s, i)
<1>1. Len(s) \in Nat /\ DOMAIN s = 1..Len(s) /\ i \in 1..Len(s)
  OBVIOUS
<1>2. /\ before \in Seq(Users)
      /\ Len(before) = i - 1
      /\ \A k \in 1 .. i - 1 : before[k] = s[k]
  BY <1>1
<1>3. /\ after \in Seq(Users)
      /\ Len(after) = Len(s) - i
      /\ \A k \in 1 .. Len(s) - i : after[k] = s[k + i]
  BY <1>1
<1>4. r = before \o after
  BY DEF RemoveAt
<1> HIDE DEF before, after, r
<1>5. /\ r \in Seq(Users)
      /\ Len(r) = Len(s) - 1
  <2>1. r \in Seq(Users) /\ Len(r) = Len(before) + Len(after)
    BY <1>2, <1>3, <1>4, ConcatProperties
  <2> QED
    BY <1>1, <1>2, <1>3, <2>1
<1>6. ASSUME NEW k \in 1 .. Len(s) - 1
      PROVE  r[k] = IF k < i THEN s[k] ELSE s[k + 1]
  <2>1. r[k] = IF k <= Len(before) THEN before[k] ELSE after[k - Len(before)]
    <3>1. k \in 1 .. Len(before) + Len(after)
      BY <1>1, <1>2, <1>3
    <3> QED
      BY <3>1, <1>2, <1>3, <1>4, ConcatProperties
  <2>2. CASE k < i
    BY <2>1, <2>2, <1>1, <1>2
  <2>3. CASE k >= i
    <3>1. r[k] = after[k - (i - 1)]
      BY <2>1, <2>3, <1>1, <1>2
    <3>2. k - (i - 1) \in 1 .. Len(s) - i /\ k - (i - 1) + i = k + 1
      BY <2>3, <1>1
    <3> QED
      BY <3>1, <3>2, <2>3, <1>1, <1>3
  <2> QED
    BY <2>2, <2>3, <1>1
<1>7. ASSUME IsInjective(s) PROVE IsInjective(r) /\ ToSet(r) = ToSet(s) \ {s[i]}
  <2>1. DOMAIN r = 1 .. Len(s) - 1
    BY <1>5, <1>6
  <2>2. ASSUME NEW k \in DOMAIN r, NEW l \in DOMAIN r, k # l PROVE r[k] # r[l]
    <3> DEFINE old(n) == IF n < i THEN n ELSE n + 1
    <3>1. /\ old(k) \in DOMAIN s /\ old(l) \in DOMAIN s /\ old(k) # old(l)
          /\ r[k] = s[old(k)] /\ r[l] = s[old(l)]
      BY <1>1, <1>6, <2>1, <2>2
    <3> QED
      BY <3>1, <1>7 DEF IsInjective
  <2>3. ASSUME NEW k \in DOMAIN r PROVE r[k] \in ToSet(s) \ {s[i]}
    BY <1>1, <1>5, <1>6, <1>7, <2>1 DEF IsInjective, ToSet
  <2>4. ASSUME NEW k \in DOMAIN s, k # i PROVE s[k] \in ToSet(r)
    <3>1. CASE k < i
      BY <3>1, <1>1, <1>5, <1>6, <2>1 DEF ToSet
    <3>2. CASE k > i
      <4>1. k - 1 \in DOMAIN r /\ r[k - 1] = s[k]
        BY <3>2, <1>1, <1>5, <1>6, <2>1
      <4> QED
        BY <4>1 DEF ToSet
    <3> QED
      BY <2>4, <3>1, <3>2, <1>1
  <2> QED
    BY <2>2, <2>3, <2>4 DEF ToSet, IsInjective
<1> QED
  BY <1>5, <1>6, <1>7 DEF r

\* The variables keep their types, for every value of the constants.
THEOREM TypeCorrect == Spec => []TypeOK
<1>1. Init => TypeOK
  <2> SUFFICES ASSUME Init PROVE TypeOK
    OBVIOUS
  <2>1. waiting \in Seq(Users) /\ tokens \in 0 .. Capacity
    BY SemaphoreAssumption DEF Init
  <2> QED
    BY <2>1 DEF Init, TypeOK
<1>2. TypeOK /\ [Next]_vars => TypeOK'
  <2> SUFFICES ASSUME TypeOK, [Next]_vars PROVE TypeOK'
    OBVIOUS
  <2>1. ASSUME NEW u \in Users, AcquireCall(u) \/ CtxExpire(u) \/ WorkReturn(u) PROVE TypeOK'
    BY <2>1 DEF AcquireCall, CtxExpire, WorkReturn, GoTo, chanVars, TypeOK
  <2>2. ASSUME NEW u \in Users, AcquireGiveUp(u) PROVE TypeOK'
    BY <2>2 DEF AcquireGiveUp, GoTo, chanVars, TypeOK
  <2>3. ASSUME NEW u \in Users, AcquireToken(u) \/ TryAcquire(u) \/ ReleaseToken(u)
        PROVE  TypeOK'
    BY <2>3, SemaphoreAssumption DEF AcquireToken, TryAcquire, ReleaseToken, GoTo, TypeOK
  <2>4. ASSUME NEW u \in Users, ParkedExpire(u) PROVE TypeOK'
    <3>1. waiting' \in Seq(Users)
      BY <2>4, Unqueue DEF ParkedExpire, TypeOK
    <3> QED
      BY <2>4, <3>1 DEF ParkedExpire, GoTo, TypeOK
  <2>5. ASSUME NEW u \in Users, ReleaseToWaiter(u) PROVE TypeOK'
    <3> DEFINE v == Head(waiting)
    <3>1. v \in Users /\ waiting' \in Seq(Users)
      BY <2>5 DEF ReleaseToWaiter, TypeOK
    <3> HIDE DEF v
    <3>2. pc' = [pc EXCEPT ![u] = "idle", ![v] = "work"]
      BY <2>5 DEF ReleaseToWaiter, v
    <3> QED
      BY <2>5, <3>1, <3>2 DEF ReleaseToWaiter, TypeOK
  <2>6. CASE Close
    BY <2>6 DEF Close, chanVars, TypeOK
  <2>7. CASE UNCHANGED vars
    BY <2>7 DEF vars, chanVars, TypeOK
  <2>8. ASSUME NEW u \in Users, ReleaseCheck(u) PROVE TypeOK'
    <3>1. CASE closed
      BY <2>8, <3>1 DEF ReleaseCheck, GoTo, chanVars, TypeOK
    <3>2. CASE ~closed
      BY <2>8, <3>2 DEF ReleaseCheck, GoTo, chanVars, TypeOK
    <3> QED
      BY <3>1, <3>2
  <2>9. ASSUME NEW u \in Users, AcquireCheck(u) PROVE TypeOK'
    <3>1. CASE closed
      BY <2>9, <3>1 DEF AcquireCheck, GoTo, chanVars, TypeOK
    <3>2. CASE ~closed
      BY <2>9, <3>2 DEF AcquireCheck, GoTo, chanVars, TypeOK
    <3> QED
      BY <3>1, <3>2
  <2>10. ASSUME NEW u \in Users, AcquirePark(u) PROVE TypeOK'
    <3>1. waiting' \in Seq(Users)
      BY <2>10 DEF AcquirePark, TypeOK
    <3>2. pc' = [pc EXCEPT ![u] = "parked"] /\ UNCHANGED <<tokens, closed, ctxDone, stranded>>
      BY <2>10 DEF AcquirePark, GoTo
    <3> QED
      BY <3>1, <3>2 DEF TypeOK
  <2> QED
    BY <2>1, <2>2, <2>3, <2>4, <2>5, <2>6, <2>7, <2>8, <2>9, <2>10
       DEF Next, AcquireStep, ReleaseStep
<1> QED
  BY <1>1, <1>2, PTL DEF Spec

\* The queue of waiters is exact, and there is one only while no token is to be had.
THEOREM Waiters == Spec => []WaitersExact
<1>1. Init /\ TypeOK => WaitersExact
  <2> SUFFICES ASSUME Init, TypeOK PROVE WaitersExact
    OBVIOUS
  <2>1. waiting = <<>> /\ DOMAIN waiting = {} /\ ToSet(waiting) = {}
    BY DEF Init, ToSet
  <2>2. \A u \in Users : pc[u] = "idle"
    BY DEF Init
  <2> QED
    BY <2>1, <2>2 DEF WaitersExact, IsInjective
<1>2. TypeOK' /\ WaitersExact /\ [Next]_vars => WaitersExact'
  <2> SUFFICES ASSUME TypeOK', WaitersExact, [Next]_vars PROVE WaitersExact'
    OBVIOUS
  <2> USE DEF GoTo
  <2>0. TypeOK /\ pc \in [Users -> {"idle", "check", "select", "parked", "work", "release", "receive"}]
    BY DEF WaitersExact, TypeOK
  <2>1. ASSUME UNCHANGED waiting, tokens' = tokens \/ waiting = <<>>,
               \A v \in Users : pc'[v] = "parked" <=> pc[v] = "parked"
        PROVE  WaitersExact'
    BY <2>1 DEF WaitersExact
  <2>2. ASSUME NEW u \in Users, AcquireCall(u) \/ CtxExpire(u) \/ WorkReturn(u) \/ ReleaseCheck(u)
        PROVE  WaitersExact'
    BY <2>0, <2>1, <2>2 DEF AcquireCall, CtxExpire, WorkReturn, ReleaseCheck, chanVars
  <2>3. ASSUME NEW u \in Users, AcquireCheck(u) \/ AcquireGiveUp(u) PROVE WaitersExact'
    BY <2>0, <2>1, <2>3 DEF AcquireCheck, AcquireGiveUp, chanVars
  <2>4. ASSUME NEW u \in Users, AcquireToken(u) \/ TryAcquire(u) PROVE WaitersExact'
    <3>1. waiting = <<>>
      BY <2>4, SemaphoreAssumption DEF AcquireToken, TryAcquire, WaitersExact, TypeOK
    <3> QED
      BY <2>0, <2>1, <2>4, <3>1 DEF AcquireToken, TryAcquire
  <2>5. ASSUME NEW u \in Users, AcquirePark(u) PROVE WaitersExact'
    <3>1. u \notin ToSet(waiting)
      BY <2>5 DEF AcquirePark, WaitersExact
    <3>2. /\ DOMAIN waiting' = 1 .. Len(waiting) + 1
          /\ \A i \in 1 .. Len(waiting) : waiting'[i] = waiting[i]
          /\ waiting'[Len(waiting) + 1] = u
          /\ Len(waiting) \in Nat /\ DOMAIN waiting = 1 .. Len(waiting)
      BY <2>0, <2>5 DEF AcquirePark, TypeOK
    <3>3. ToSet(waiting') = ToSet(waiting) \cup {u}
      BY <3>2 DEF ToSet
    <3>4. IsInjective(waiting')
      BY <3>1, <3>2 DEF ToSet, IsInjective, WaitersExact
    <3>5. \A v \in Users : pc'[v] = "parked" <=> v \in ToSet(waiting')
      BY <2>0, <2>5, <3>3 DEF AcquirePark, WaitersExact
    <3> QED
      BY <2>5, <3>4, <3>5 DEF AcquirePark, WaitersExact
  <2>6. ASSUME NEW u \in Users, ParkedExpire(u) PROVE WaitersExact'
    <3>1. PICK i \in DOMAIN waiting : waiting[i] = u /\ waiting' = RemoveAt(waiting, i)
      BY <2>6 DEF ParkedExpire
    <3>2. IsInjective(waiting') /\ ToSet(waiting') = ToSet(waiting) \ {u}
      BY <2>0, <3>1, Unqueue DEF WaitersExact, TypeOK
    <3>3. waiting # <<>>
      BY <3>1, <2>0 DEF TypeOK
    <3> QED
      BY <2>0, <2>6, <3>2, <3>3 DEF ParkedExpire, WaitersExact
  <2>7. ASSUME NEW u \in Users, ReleaseToWaiter(u) PROVE WaitersExact'
    <3>1. /\ 1 \in DOMAIN waiting /\ Head(waiting) = waiting[1] /\ Head(waiting) \in Users
          /\ waiting' = Tail(waiting)
          /\ DOMAIN waiting' = 1 .. Len(waiting) - 1
          /\ \A i \in 1 .. Len(waiting) - 1 : waiting'[i] = waiting[i + 1]
          /\ Len(waiting) \in Nat /\ DOMAIN waiting = 1 .. Len(waiting)
      BY <2>0, <2>7 DEF ReleaseToWaiter, TypeOK
    <3>2. ToSet(waiting') = ToSet(waiting) \ {Head(waiting)}
      <4>1. ASSUME NEW i \in DOMAIN waiting' PROVE waiting'[i] \in ToSet(waiting) \ {Head(waiting)}
        BY <3>1 DEF ToSet, IsInjective, WaitersExact
      <4>2. ASSUME NEW i \in DOMAIN waiting, i # 1 PROVE waiting[i] \in ToSet(waiting')
        <5>1. i - 1 \in DOMAIN waiting' /\ waiting'[i - 1] = waiting[i]
          BY <3>1, <4>2
        <5> QED
          BY <5>1 DEF ToSet
      <4> QED
        BY <3>1, <4>1, <4>2 DEF ToSet
    <3>3. IsInjective(waiting')
      BY <3>1 DEF IsInjective, WaitersExact
    <3>4. \A v \in Users : pc'[v] = "parked" <=> v \in ToSet(waiting')
      BY <2>0, <2>7, <3>1, <3>2 DEF ReleaseToWaiter, WaitersExact
    <3> QED
      BY <2>7, <3>3, <3>4 DEF ReleaseToWaiter, WaitersExact
  <2>8. ASSUME NEW u \in Users, ReleaseToken(u) PROVE WaitersExact'
    BY <2>0, <2>1, <2>8 DEF ReleaseToken
  <2>9. CASE Close
    BY <2>1, <2>9 DEF Close, chanVars
  <2>10. CASE UNCHANGED vars
    BY <2>1, <2>10 DEF vars, chanVars
  <2> QED
    BY <2>2, <2>3, <2>4, <2>5, <2>6, <2>7, <2>8, <2>9, <2>10 DEF Next, AcquireStep, ReleaseStep
<1> QED
  BY <1>1, <1>2, TypeCorrect, PTL DEF Spec

-----------------------------------------------------------------------------
(* Holders come and go one at a time.                                      *)

LEMMA Enter ==
  ASSUME NEW u \in Users, u \notin Holders, Holders' = Holders \cup {u}
  PROVE  Cardinality(Holders') = Cardinality(Holders) + 1
<1>1. IsFiniteSet(Holders)
  BY SemaphoreAssumption, FS_Subset DEF Holders
<1> QED
  BY <1>1, FS_AddElement

LEMMA Leave ==
  ASSUME NEW u \in Users, u \in Holders, Holders' = Holders \ {u}
  PROVE  /\ Cardinality(Holders') = Cardinality(Holders) - 1
         /\ Cardinality(Holders) \in Nat
<1>1. IsFiniteSet(Holders)
  BY SemaphoreAssumption, FS_Subset DEF Holders
<1> QED
  BY <1>1, FS_RemoveElement, FS_CardinalityType

LEMMA PassOn ==
  ASSUME NEW u \in Users, NEW v \in Users, u \in Holders, v \notin Holders,
         Holders' = (Holders \ {u}) \cup {v}
  PROVE  Cardinality(Holders') = Cardinality(Holders)
<1>1. IsFiniteSet(Holders)
  BY SemaphoreAssumption, FS_Subset DEF Holders
<1>2. IsFiniteSet(Holders \ {u}) /\ Cardinality(Holders \ {u}) = Cardinality(Holders) - 1
  BY <1>1, FS_RemoveElement
<1>3. Cardinality(Holders') = Cardinality(Holders) - 1 + 1
  BY <1>2, FS_AddElement
<1> QED
  BY <1>1, <1>3, FS_CardinalityType

\* No token is lost or returned twice: those in the channel are the holders' and those
\* that a Release after Close left behind.
THEOREM Tokens == Spec => []TokensExact
<1>1. Init => TokensExact
  <2> SUFFICES ASSUME Init PROVE TokensExact
    OBVIOUS
  <2>1. Holders = {}
    BY DEF Init, Holders
  <2> QED
    BY <2>1, FS_EmptySet DEF Init, TokensExact
<1>2. WaitersExact /\ TokensExact /\ [Next]_vars => TokensExact'
  <2> SUFFICES ASSUME WaitersExact, TokensExact, [Next]_vars PROVE TokensExact'
    OBVIOUS
  <2> USE DEF GoTo
  <2>0. /\ TypeOK
        /\ pc \in [Users -> {"idle", "check", "select", "parked", "work", "release", "receive"}]
        /\ tokens \in Nat /\ stranded \in Nat
    BY SemaphoreAssumption DEF WaitersExact, TypeOK
  <2>1. ASSUME UNCHANGED <<tokens, stranded>>, Holders' = Holders PROVE TokensExact'
    BY <2>1 DEF TokensExact
  <2>2. ASSUME NEW u \in Users, AcquireCall(u) \/ CtxExpire(u) \/ WorkReturn(u) PROVE TokensExact'
    BY <2>0, <2>1, <2>2 DEF AcquireCall, CtxExpire, WorkReturn, chanVars, Holders
  <2>3. ASSUME NEW u \in Users,
               AcquireCheck(u) \/ AcquireGiveUp(u) \/ AcquirePark(u) \/ ParkedExpire(u)
        PROVE  TokensExact'
    BY <2>0, <2>1, <2>3
       DEF AcquireCheck, AcquireGiveUp, AcquirePark, ParkedExpire, chanVars, Holders
  <2>4. ASSUME NEW u \in Users, AcquireToken(u) \/ TryAcquire(u) PROVE TokensExact'
    <3>1. u \notin Holders /\ Holders' = Holders \cup {u}
      BY <2>0, <2>4 DEF AcquireToken, TryAcquire, Holders
    <3>2. tokens' = tokens + 1 /\ stranded' = stranded
      BY <2>4 DEF AcquireToken, TryAcquire
    <3>3. Cardinality(Holders) \in Nat
      BY SemaphoreAssumption, FS_Subset, FS_CardinalityType DEF Holders
    <3> QED
      <4>1. Cardinality(Holders') = Cardinality(Holders) + 1
        BY <3>1, Enter, Zenon
      <4> QED
        BY <2>0, <3>2, <3>3, <4>1 DEF TokensExact
  <2>5. ASSUME NEW u \in Users, ReleaseCheck(u) PROVE TokensExact'
    <3>1. CASE closed
      <4>1. u \in Holders /\ Holders' = Holders \ {u}
        BY <2>0, <2>5, <3>1 DEF ReleaseCheck, Holders
      <4>2. tokens' = tokens /\ stranded' = stranded + 1
        BY <2>5, <3>1 DEF ReleaseCheck, chanVars
      <4> QED
        <5>1. Cardinality(Holders') = Cardinality(Holders) - 1 /\ Cardinality(Holders) \in Nat
          BY <4>1, Leave, Zenon
        <5> QED
          BY <2>0, <4>2, <5>1 DEF TokensExact
    <3>2. CASE ~closed
      BY <2>0, <2>1, <2>5, <3>2 DEF ReleaseCheck, chanVars, Holders
    <3> QED
      BY <3>1, <3>2
  <2>6. ASSUME NEW u \in Users, ReleaseToWaiter(u) PROVE TokensExact'
    <3> DEFINE v == Head(waiting)
    <3>1. v \in Users /\ pc[v] = "parked"
      BY <2>0, <2>6 DEF ReleaseToWaiter, WaitersExact, TypeOK, ToSet
    <3> HIDE DEF v
    <3>2. pc' = [pc EXCEPT ![u] = "idle", ![v] = "work"] /\ pc[u] = "receive"
      BY <2>6 DEF ReleaseToWaiter, v
    <3>3. u \in Holders /\ v \notin Holders /\ Holders' = (Holders \ {u}) \cup {v}
      BY <2>0, <3>1, <3>2 DEF Holders
    <3>4. tokens' = tokens /\ stranded' = stranded
      BY <2>6 DEF ReleaseToWaiter
    <3> QED
      BY <3>1, <3>3, <3>4, PassOn DEF TokensExact
  <2>7. ASSUME NEW u \in Users, ReleaseToken(u) PROVE TokensExact'
    <3>1. u \in Holders /\ Holders' = Holders \ {u}
      BY <2>0, <2>7 DEF ReleaseToken, Holders
    <3>2. tokens' = tokens - 1 /\ stranded' = stranded
      BY <2>7 DEF ReleaseToken
    <3> QED
      <4>1. Cardinality(Holders') = Cardinality(Holders) - 1 /\ Cardinality(Holders) \in Nat
        BY <3>1, Leave, Zenon
      <4> QED
        BY <2>0, <3>2, <4>1 DEF TokensExact
  <2>8. CASE Close
    BY <2>1, <2>8 DEF Close, chanVars, Holders
  <2>9. CASE UNCHANGED vars
    BY <2>1, <2>9 DEF vars, chanVars, Holders
  <2> QED
    BY <2>2, <2>3, <2>4, <2>5, <2>6, <2>7, <2>8, <2>9 DEF Next, AcquireStep, ReleaseStep
<1> QED
  BY <1>1, <1>2, Waiters, PTL DEF Spec

\* Whatever gives up, panics or closes, no more users hold a token than there are.
THEOREM Capped == Spec => []CapacityRespected
<1>1. TypeOK /\ TokensExact => CapacityRespected
  <2>1. Cardinality(Holders) \in Nat
    BY SemaphoreAssumption, FS_Subset, FS_CardinalityType DEF Holders
  <2> QED
    BY <2>1, SemaphoreAssumption DEF TypeOK, TokensExact, CapacityRespected
<1> QED
  BY <1>1, TypeCorrect, Tokens, PTL
=============================================================================
