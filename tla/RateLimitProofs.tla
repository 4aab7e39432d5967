--------------------------- MODULE RateLimitProofs ---------------------------
(***************************************************************************)
(* Proofs about RateLimit, for any limits, any window and any finite set   *)
(* of logins.                                                              *)
(***************************************************************************)
EXTENDS RateLimit, SequenceTheorems, FiniteSetTheorems, WellFoundedInduction, TLAPS

(* A deque is the end of what was counted, and what is missing from it has *)
(* expired: the purge stops at the first time that has not.                *)
EndOf(q, c) ==
    /\ Len(q) <= Len(c)
    /\ \A i \in 1 .. Len(q) : q[i] = c[Len(c) - Len(q) + i]
    /\ \A i \in 1 .. Len(c) - Len(q) : Expired(c[i])

DequeIsEnd == \A s \in Scopes : EndOf(requests[s], counted[s])

(* General requests are counted in the order of time.  Failed logins are   *)
(* not: they are appended when they end, under the time they came.         *)
GeneralInOrder ==
    LET c == counted["general"]
    IN  \A i, j \in 1 .. Len(c) : c[i] <= clock /\ (i <= j => c[i] <= c[j])

WithinLimit == Len(requests["general"]) <= general_limit

UnderWay == {l \in Logins : stamp[l] # None}

(* Each login under way is a failure the window may still have to hold. *)
LoginsLeaveRoom ==
    Cardinality(Recent("login")) + Cardinality(UnderWay) < login_limit + Cardinality(Logins)

LimitSound ==
    /\ TypeOK
    /\ DequeIsEnd
    /\ GeneralInOrder
    /\ WithinLimit
    /\ LoginsLeaveRoom
    /\ refusal.at <= clock
    /\ RefusalJustified
-------------------------------------------------------------------------------
(* The operators. *)

LEMMA LeastOf ==
    ASSUME NEW S \in SUBSET Nat, S # {}
    PROVE  \E i \in S : \A j \in S : i <= j
<1>1. PICK i \in S : \A j \in S : <<j, i>> \notin OpToRel(<, Nat)
  BY WFMin, NatLessThanWellFounded, Zenon
<1>2. \A j \in S : ~(j < i)
  BY <1>1, Zenon DEF OpToRel
<1>3. QED  BY <1>2

(* The while loop of dispatch() drops expired times, and stops at one that *)
(* is not expired.                                                         *)
LEMMA PurgedIsRest ==
    ASSUME NEW q \in Seq(Nat)
    PROVE  \E k \in 0 .. Len(q) :
              /\ Purged(q) \in Seq(Nat) /\ Len(Purged(q)) = Len(q) - k
              /\ \A i \in 1 .. Len(q) - k : Purged(q)[i] = q[k + i]
              /\ \A i \in 1 .. k : Expired(q[i])
              /\ k < Len(q) => ~Expired(q[k + 1])
<1> DEFINE live  == {i \in 1 .. Len(q) : ~Expired(q[i])}
           first == IF live = {} THEN Len(q) + 1
                    ELSE CHOOSE i \in live : \A j \in live : i <= j
<1>1. Purged(q) = SubSeq(q, first, Len(q))
  BY DEF Purged
<1>2. Len(q) \in Nat /\ \A i \in 1 .. Len(q) : q[i] \in Nat
  BY LenProperties, ElementOfSeq
<1>3. /\ first \in 1 .. Len(q) + 1
      /\ \A i \in 1 .. first - 1 : i \notin live
      /\ first <= Len(q) => first \in live
  <2>1. CASE live = {}
    BY <1>2, <2>1
  <2>2. CASE live # {}
    <3>1. live \in SUBSET Nat
      BY <1>2
    <3>2. \E i \in live : \A j \in live : i <= j
      BY <2>2, <3>1, LeastOf
    <3>3. first \in live /\ \A j \in live : first <= j
      BY <2>2, <3>2
    <3>4. first \in 1 .. Len(q)
      BY <3>3
    <3> HIDE DEF first
    <3>5. QED  BY <1>2, <3>1, <3>3, <3>4
  <2>3. QED  BY <2>1, <2>2
<1> HIDE DEF first
<1>4. \A i \in first .. Len(q) : q[i] \in Nat
  BY <1>2, <1>3
<1>5. /\ Purged(q) \in Seq(Nat)
      /\ Len(Purged(q)) = IF first <= Len(q) THEN Len(q) - first + 1 ELSE 0
      /\ \A i \in 1 .. Len(q) - first + 1 : Purged(q)[i] = q[first + i - 1]
  BY <1>1, <1>2, <1>3, <1>4, SubSeqProperties
<1>6. \A i \in 1 .. first - 1 : Expired(q[i])
  BY <1>2, <1>3
<1> DEFINE k == first - 1
<1>7. /\ k \in 0 .. Len(q) /\ Len(Purged(q)) = Len(q) - k
      /\ \A i \in 1 .. Len(q) - k : Purged(q)[i] = q[k + i]
      /\ k < Len(q) => ~Expired(q[k + 1])
  BY <1>2, <1>3, <1>5
<1>8. QED  BY <1>5, <1>6, <1>7

(* The purge leaves an end of what was counted, beginning with a time that *)
(* has not expired.                                                        *)
LEMMA PurgedIsEnd ==
    ASSUME NEW q \in Seq(Nat), NEW c \in Seq(Nat), EndOf(q, c)
    PROVE  /\ Purged(q) \in Seq(Nat) /\ Len(Purged(q)) <= Len(q)
           /\ EndOf(Purged(q), c)
           /\ Len(Purged(q)) > 0 => ~Expired(c[Len(c) - Len(Purged(q)) + 1])
<1>1. PICK k \in 0 .. Len(q) :
          /\ Purged(q) \in Seq(Nat) /\ Len(Purged(q)) = Len(q) - k
          /\ \A i \in 1 .. Len(q) - k : Purged(q)[i] = q[k + i]
          /\ \A i \in 1 .. k : Expired(q[i])
          /\ k < Len(q) => ~Expired(q[k + 1])
  BY PurgedIsRest
<1> DEFINE d == Len(c) - Len(q)
<1>2. /\ Len(q) \in Nat /\ Len(c) \in Nat /\ d \in Nat
      /\ \A i \in 1 .. Len(q) : q[i] = c[d + i]
      /\ \A i \in 1 .. d : Expired(c[i])
  BY LenProperties DEF EndOf
<1>3. Len(c) - Len(Purged(q)) = d + k
  BY <1>1, <1>2
<1> HIDE DEF d
<1>4. ASSUME NEW i \in 1 .. d + k
      PROVE  Expired(c[i])
  <2>1. CASE i <= d
    BY <1>2, <2>1
  <2>2. CASE i > d
    <3>1. i - d \in 1 .. k /\ i - d \in 1 .. Len(q) /\ d + (i - d) = i
      BY <1>2, <2>2
    <3>2. q[i - d] = c[i]
      BY <1>2, <3>1
    <3>3. QED  BY <1>1, <3>1, <3>2
  <2>3. QED  BY <1>2, <2>1, <2>2
<1>5. \A i \in 1 .. Len(q) - k : Purged(q)[i] = c[d + k + i]
  BY <1>1, <1>2
<1>6. ASSUME k < Len(q)
      PROVE  ~Expired(c[d + k + 1])
  <2>1. k + 1 \in 1 .. Len(q) /\ d + (k + 1) = d + k + 1
    BY <1>2, <1>6
  <2>2. q[k + 1] = c[d + k + 1]
    BY <1>2, <2>1
  <2>3. QED  BY <1>1, <1>6, <2>2
<1> DEFINE p == Purged(q)
           n == d + k
<1>a. Len(q) \in Nat /\ Len(c) \in Nat /\ d \in Nat /\ k \in 0 .. Len(q)
  BY <1>2
<1>b. p \in Seq(Nat) /\ Len(p) = Len(q) - k
  BY <1>1
<1>7. /\ p \in Seq(Nat) /\ Len(p) = Len(q) - k /\ Len(c) - Len(p) = n /\ n \in Nat
      /\ Len(p) <= Len(q) /\ Len(p) <= Len(c)
  BY <1>3, <1>a, <1>b
<1>8. /\ \A i \in 1 .. Len(p) : p[i] = c[n + i]
      /\ \A i \in 1 .. n : Expired(c[i])
      /\ Len(p) > 0 => ~Expired(c[n + 1])
  BY <1>1, <1>2, <1>4, <1>5, <1>6, <1>7
<1> HIDE DEF p, n
<1>9. EndOf(p, c) /\ (Len(p) > 0 => ~Expired(c[Len(c) - Len(p) + 1]))
  BY <1>7, <1>8 DEF EndOf
<1>10. QED  BY <1>7, <1>9 DEF p

LEMMA AppendIsEnd ==
    ASSUME NEW q \in Seq(Nat), NEW c \in Seq(Nat), EndOf(q, c), NEW t \in Nat
    PROVE  /\ Append(q, t) \in Seq(Nat) /\ Append(c, t) \in Seq(Nat)
           /\ EndOf(Append(q, t), Append(c, t))
<1> DEFINE p == Append(q, t)
           b == Append(c, t)
<1>1. /\ p \in Seq(Nat) /\ b \in Seq(Nat) /\ Len(q) \in Nat /\ Len(c) \in Nat
      /\ Len(p) = Len(q) + 1 /\ Len(b) = Len(c) + 1
      /\ \A i \in 1 .. Len(q) : p[i] = q[i]
      /\ \A i \in 1 .. Len(c) : b[i] = c[i]
      /\ p[Len(q) + 1] = t /\ b[Len(c) + 1] = t
  BY AppendProperties, LenProperties
<1> HIDE DEF p, b
<1> DEFINE d == Len(c) - Len(q)
<1>2. /\ d \in Nat /\ Len(b) - Len(p) = d /\ Len(p) <= Len(b) /\ d <= Len(c)
      /\ \A i \in 1 .. Len(q) : q[i] = c[d + i]
      /\ \A i \in 1 .. d : Expired(c[i])
  BY <1>1 DEF EndOf
<1>3. d + (Len(q) + 1) = Len(c) + 1
  BY <1>1
<1> HIDE DEF d
<1>4. ASSUME NEW i \in 1 .. Len(p)
      PROVE  p[i] = b[d + i]
  <2>1. CASE i = Len(q) + 1
    BY <1>1, <1>3, <2>1
  <2>2. CASE i # Len(q) + 1
    <3>1. Len(q) \in Nat /\ Len(c) \in Nat /\ d \in Nat /\ i \in 1 .. Len(q) + 1
      BY <1>1, <1>2
    <3>2. i \in 1 .. Len(q)
      BY <2>2, <3>1
    <3>3. d + i \in 1 .. Len(c)
      BY <1>3, <3>1, <3>2
    <3>4. QED  BY <1>1, <1>2, <3>2, <3>3
  <2>3. QED  BY <2>1, <2>2
<1>5. ASSUME NEW i \in 1 .. d
      PROVE  Expired(b[i])
  <2>1. i \in 1 .. Len(c)
    BY <1>1, <1>2
  <2>2. QED  BY <1>1, <1>2, <2>1
<1>6. EndOf(p, b)
  BY <1>2, <1>4, <1>5 DEF EndOf
<1>7. QED  BY <1>1, <1>6 DEF p, b

LEMMA IntervalCount ==
    ASSUME NEW n \in Nat, NEW m \in Nat, m <= n
    PROVE  IsFiniteSet(n - m + 1 .. n) /\ Cardinality(n - m + 1 .. n) = m
<1>1. n - m + 1 \in Int /\ n \in Int
  OBVIOUS
<1>2. /\ IsFiniteSet(n - m + 1 .. n)
      /\ Cardinality(n - m + 1 .. n)
            = IF n - m + 1 > n THEN 0 ELSE n - (n - m + 1) + 1
  BY <1>1, FS_Interval
<1>3. QED  BY <1>2

(* What is in the window is in any such end. *)
LEMMA RecentInEnd ==
    ASSUME NEW s \in Scopes, counted[s] \in Seq(Nat), NEW q \in Seq(Nat), EndOf(q, counted[s])
    PROVE  /\ IsFiniteSet(Recent(s)) /\ Cardinality(Recent(s)) \in Nat
           /\ Cardinality(Recent(s)) <= Len(q)
           /\ Recent(s) \subseteq Len(counted[s]) - Len(q) + 1 .. Len(counted[s])
<1> DEFINE c == counted[s]
           a == Len(c) - Len(q) + 1
<1>1. /\ Len(q) \in Nat /\ Len(c) \in Nat /\ Len(q) <= Len(c)
      /\ \A i \in 1 .. Len(c) - Len(q) : Expired(c[i])
  BY LenProperties DEF EndOf
<1>2. ASSUME NEW i \in Recent(s)
      PROVE  i \in a .. Len(c)
  <2>1. i \in 1 .. Len(c) /\ ~Expired(c[i])
    BY DEF Recent
  <2>2. i \notin 1 .. Len(c) - Len(q)
    BY <1>1, <2>1
  <2>3. QED  BY <1>1, <2>1, <2>2
<1>3. IsFiniteSet(a .. Len(c)) /\ Cardinality(a .. Len(c)) = Len(q)
  BY <1>1, IntervalCount
<1>4. /\ IsFiniteSet(Recent(s)) /\ Cardinality(Recent(s)) <= Cardinality(a .. Len(c))
  BY <1>2, <1>3, FS_Subset
<1>5. Cardinality(Recent(s)) \in Nat
  BY <1>4, FS_CardinalityType
<1>6. QED  BY <1>2, <1>3, <1>4, <1>5

(* What the limit is compared with: at least the requests in the window,   *)
(* for general requests their number; and a login is refused only when     *)
(* there are some.                                                         *)
LEMMA PurgedCounts ==
    ASSUME LimitSound, NEW s \in Scopes
    PROVE  /\ IsFiniteSet(Recent(s)) /\ Cardinality(Recent(s)) \in Nat
           /\ Len(Purged(requests[s])) \in Nat
           /\ Cardinality(Recent(s)) <= Len(Purged(requests[s]))
           /\ Len(Purged(requests[s])) > 0 => Recent(s) # {}
           /\ s = "general" => Cardinality(Recent(s)) = Len(Purged(requests[s]))
<1> DEFINE p == Purged(requests[s])
           c == counted[s]
           a == Len(c) - Len(p) + 1
<1>1. requests[s] \in Seq(Nat) /\ c \in Seq(Nat) /\ EndOf(requests[s], c)
  BY DEF LimitSound, TypeOK, DequeIsEnd
<1>2. p \in Seq(Nat) /\ EndOf(p, c) /\ (Len(p) > 0 => ~Expired(c[a]))
  BY <1>1, PurgedIsEnd
<1>3. /\ Len(p) \in Nat /\ Len(c) \in Nat /\ Len(p) <= Len(c)
  BY <1>1, <1>2, LenProperties DEF EndOf
<1> HIDE DEF p
<1>4. /\ IsFiniteSet(Recent(s)) /\ Cardinality(Recent(s)) \in Nat
      /\ Cardinality(Recent(s)) <= Len(p) /\ Recent(s) \subseteq a .. Len(c)
  BY <1>1, <1>2, RecentInEnd
<1>5. ASSUME Len(p) > 0
      PROVE  a \in Recent(s)
  BY <1>2, <1>3, <1>5 DEF Recent
<1>6. ASSUME s = "general"
      PROVE  Cardinality(Recent(s)) = Len(p)
  <2>1. \A i \in 1 .. Len(c) : c[i] \in Nat
    BY <1>1, ElementOfSeq
  <2>2. clock \in Nat /\ window_seconds \in Nat
    BY LimitAssumption DEF LimitSound, TypeOK
  <2>3. ASSUME NEW i \in a .. Len(c)
        PROVE  i \in Recent(s)
    <3>1. a \in 1 .. Len(c) /\ i \in 1 .. Len(c) /\ a <= i /\ Len(p) > 0
      BY <1>3
    <3>2. c[a] <= c[i] /\ c[a] \in Nat /\ c[i] \in Nat
      BY <1>6, <2>1, <3>1 DEF LimitSound, GeneralInOrder
    <3>3. ~Expired(c[a])
      BY <1>2, <3>1
    <3>4. ~Expired(c[i])
      BY <2>2, <3>2, <3>3 DEF Expired
    <3>5. QED  BY <3>1, <3>4 DEF Recent
  <2>4. Recent(s) = a .. Len(c)
    BY <1>4, <2>3
  <2>5. Cardinality(a .. Len(c)) = Len(p)
    BY <1>3, IntervalCount
  <2>6. QED  BY <2>4, <2>5
<1>7. QED  BY <1>3, <1>4, <1>5, <1>6 DEF p
-------------------------------------------------------------------------------
LEMMA Rows ==
    ASSUME LimitSound
    PROVE  /\ clock \in Nat /\ window_seconds \in Nat \ {0}
           /\ general_limit \in Nat \ {0} /\ login_limit \in Nat \ {0}
           /\ \A s \in Scopes : /\ requests[s] \in Seq(Nat) /\ counted[s] \in Seq(Nat)
                                /\ EndOf(requests[s], counted[s])
           /\ requests \in [Scopes -> Seq(Nat)] /\ counted \in [Scopes -> Seq(Nat)]
           /\ stamp \in [Logins -> Nat \cup {None}]
           /\ refusal \in [scope : Scopes \cup {"none"}, at : Nat]
           /\ IsFiniteSet(Logins) /\ Cardinality(Logins) \in Nat
           /\ IsFiniteSet(UnderWay) /\ Cardinality(UnderWay) \in Nat
           /\ Cardinality(UnderWay) <= Cardinality(Logins)
<1>1. UnderWay \in SUBSET Logins
  BY DEF UnderWay
<1>2. /\ IsFiniteSet(Logins) /\ IsFiniteSet(UnderWay)
      /\ Cardinality(UnderWay) <= Cardinality(Logins)
  BY <1>1, LimitAssumption, FS_Subset
<1>3. Cardinality(Logins) \in Nat /\ Cardinality(UnderWay) \in Nat
  BY <1>2, FS_CardinalityType
<1>4. QED  BY <1>2, <1>3, LimitAssumption DEF LimitSound, TypeOK, DequeIsEnd

LEMMA Numbers ==
    ASSUME LimitSound
    PROVE  /\ clock \in Nat /\ window_seconds \in Nat \ {0} /\ refusal.at \in Nat
           /\ general_limit \in Nat \ {0} /\ login_limit \in Nat \ {0}
           /\ Cardinality(Logins) \in Nat /\ Cardinality(UnderWay) \in Nat
           /\ Cardinality(UnderWay) <= Cardinality(Logins)
BY Rows

(* Nothing is counted, and the time stands still: the window holds what it *)
(* held.                                                                   *)
LEMMA RecentStays == ASSUME UNCHANGED <<clock, counted>>, NEW s \in Scopes
                     PROVE  Recent(s)' = Recent(s)
BY DEF Recent, Expired

LEMMA EndStays ==
    ASSUME clock' = clock, \A s \in Scopes : EndOf(requests'[s], counted'[s])
    PROVE  DequeIsEnd'
<1>1. ASSUME NEW s \in Scopes
      PROVE  EndOf(requests[s], counted[s])'
  <2>1. EndOf(requests'[s], counted'[s])
    OBVIOUS
  <2>2. QED  BY <2>1 DEF EndOf, Expired
<1>2. QED  BY <1>1 DEF DequeIsEnd

(* The purge alone. *)
LEMMA PurgeSound ==
    ASSUME LimitSound, NEW s \in Scopes, UNCHANGED <<clock, counted>>,
           requests' = [requests EXCEPT ![s] = Purged(@)]
    PROVE  /\ requests' \in [Scopes -> Seq(Nat)]
           /\ DequeIsEnd' /\ GeneralInOrder' /\ WithinLimit'
<1>1. /\ requests[s] \in Seq(Nat) /\ Len(requests[s]) \in Nat
      /\ Purged(requests[s]) \in Seq(Nat) /\ Len(Purged(requests[s])) \in Nat
      /\ Len(Purged(requests[s])) <= Len(requests[s])
      /\ EndOf(Purged(requests[s]), counted[s])
  BY Rows, PurgedIsEnd, LenProperties
<1>2. /\ requests' \in [Scopes -> Seq(Nat)] /\ requests'[s] = Purged(requests[s])
      /\ \A r \in Scopes \ {s} : requests'[r] = requests[r]
  BY <1>1, Rows
<1>3. \A r \in Scopes : EndOf(requests'[r], counted[r])
  BY <1>1, <1>2, Rows
<1>4. DequeIsEnd'
  BY <1>3, EndStays
<1>5. GeneralInOrder'
  BY DEF LimitSound, GeneralInOrder
<1>6. WithinLimit'
  <2>1. "general" \in Scopes /\ Len(requests["general"]) <= general_limit
    BY DEF LimitSound, WithinLimit, Scopes
  <2>2. CASE s = "general"
    BY <1>1, <1>2, <2>1, <2>2, Rows DEF WithinLimit
  <2>3. CASE s # "general"
    BY <1>2, <2>1, <2>3 DEF WithinLimit
  <2>4. QED  BY <2>2, <2>3
<1>7. QED  BY <1>2, <1>4, <1>5, <1>6

LEMMA RefuseSound ==
    ASSUME LimitSound, NEW s \in Scopes, Refuse(s)
    PROVE  LimitSound'
<1>1. /\ Len(Purged(requests[s])) >= Limit(s)
      /\ requests' = [requests EXCEPT ![s] = Purged(@)]
      /\ refusal' = [scope |-> s, at |-> clock]
      /\ UNCHANGED <<clock, stamp, counted>>
  BY DEF Refuse, Full
<1>2. requests' \in [Scopes -> Seq(Nat)] /\ DequeIsEnd' /\ GeneralInOrder' /\ WithinLimit'
  BY <1>1, PurgeSound
<1>3. TypeOK' /\ (refusal.at <= clock)'
  BY <1>1, <1>2, Rows DEF TypeOK
<1>4. LoginsLeaveRoom'
  BY <1>1, RecentStays DEF LimitSound, LoginsLeaveRoom, UnderWay, Scopes
<1>5. RefusalJustified'
  <2>1. /\ Len(Purged(requests[s])) \in Nat
        /\ Len(Purged(requests[s])) > 0 => Recent(s) # {}
        /\ s = "general" => Cardinality(Recent(s)) = Len(Purged(requests[s]))
    BY PurgedCounts
  <2>2. CASE s = "general"
    <3>1. Len(Purged(requests[s])) <= Len(requests[s]) /\ Len(requests[s]) \in Nat
      BY Rows, PurgedIsEnd, LenProperties
    <3>2. Len(requests[s]) <= general_limit /\ Limit(s) = general_limit
      BY <2>2 DEF LimitSound, WithinLimit, Limit
    <3>3. Cardinality(Recent("general")) = general_limit
      BY <1>1, <2>1, <2>2, <3>1, <3>2, Rows
    <3>4. QED  BY <1>1, <2>2, <3>3, RecentStays DEF RefusalJustified, Scopes
  <2>3. CASE s # "general"
    <3>1. s = "login" /\ Limit(s) = login_limit
      BY <2>3 DEF Scopes, Limit
    <3>2. Recent("login") # {}
      BY <1>1, <2>1, <3>1, Rows
    <3>3. QED  BY <1>1, <3>1, <3>2, RecentStays DEF RefusalJustified, Scopes
  <2>4. QED  BY <2>2, <2>3
<1>6. QED  BY <1>2, <1>3, <1>4, <1>5 DEF LimitSound

(* A request that is passed on finds less in the window than its limit. *)
LEMMA RoomFound ==
    ASSUME LimitSound, NEW s \in Scopes, ~Full(s)
    PROVE  /\ Cardinality(Recent(s)) < Limit(s)
           /\ Len(Purged(requests[s])) < Limit(s) /\ Len(Purged(requests[s])) \in Nat
<1>1. Limit(s) \in Nat
  BY Rows DEF Limit
<1>2. QED  BY <1>1, PurgedCounts DEF Full

(* So that none is passed on in the instant of a refusal. *)
LEMMA PassGeneralSound ==
    ASSUME LimitSound, PassGeneral
    PROVE  LimitSound'
<1> DEFINE p == Purged(requests["general"])
           c == counted["general"]
<1>a. "general" \in Scopes /\ "login" \in Scopes
  BY DEF Scopes
<1>1. /\ ~Full("general")
      /\ requests' = [requests EXCEPT !["general"] = Append(p, clock)]
      /\ counted' = [counted EXCEPT !["general"] = Append(c, clock)]
      /\ UNCHANGED <<clock, stamp, refusal>>
  BY DEF PassGeneral
<1>2. /\ p \in Seq(Nat) /\ c \in Seq(Nat) /\ EndOf(p, c) /\ clock \in Nat
      /\ Len(p) \in Nat /\ Len(p) < general_limit
      /\ Cardinality(Recent("general")) < general_limit
  BY <1>a, <1>1, Rows, PurgedIsEnd, RoomFound DEF Limit
<1>b. Len(c) \in Nat /\ \A i \in 1 .. Len(c) : c[i] \in Nat
  BY <1>2, LenProperties, ElementOfSeq
<1> HIDE DEF p, c
<1>3. /\ Append(p, clock) \in Seq(Nat) /\ Append(c, clock) \in Seq(Nat)
      /\ EndOf(Append(p, clock), Append(c, clock))
      /\ Len(Append(p, clock)) = Len(p) + 1
      /\ Len(Append(c, clock)) = Len(c) + 1
      /\ \A i \in 1 .. Len(c) : Append(c, clock)[i] = c[i]
      /\ Append(c, clock)[Len(c) + 1] = clock
  BY <1>2, AppendIsEnd, AppendProperties
<1>4. /\ requests' \in [Scopes -> Seq(Nat)] /\ counted' \in [Scopes -> Seq(Nat)]
      /\ requests'["general"] = Append(p, clock)
      /\ counted'["general"] = Append(c, clock)
      /\ requests'["login"] = requests["login"] /\ counted'["login"] = counted["login"]
  BY <1>a, <1>1, <1>3, Rows
<1>5. TypeOK' /\ (refusal.at <= clock)'
  BY <1>1, <1>4, Rows DEF TypeOK, LimitSound
<1>6. DequeIsEnd'
  <2>1. \A s \in Scopes : EndOf(requests'[s], counted'[s])
    BY <1>a, <1>3, <1>4, Rows DEF Scopes
  <2>2. QED  BY <1>1, <2>1, EndStays
<1>7. GeneralInOrder'
  <2>1. \A i, j \in 1 .. Len(c) : c[i] <= clock /\ (i <= j => c[i] <= c[j])
    BY DEF LimitSound, GeneralInOrder, c
  <2> DEFINE b == Append(c, clock)
  <2>2. /\ Len(b) = Len(c) + 1 /\ b[Len(c) + 1] = clock
        /\ \A i \in 1 .. Len(c) : b[i] = c[i]
    BY <1>3
  <2> HIDE DEF b
  <2>3. ASSUME NEW i \in 1 .. Len(b)
        PROVE  b[i] <= clock
    <3>1. CASE i = Len(c) + 1
      BY <1>2, <2>2, <3>1
    <3>2. CASE i # Len(c) + 1
      <4>1. i \in 1 .. Len(c)
        BY <1>b, <2>2, <3>2
      <4>2. QED  BY <2>1, <2>2, <4>1
    <3>3. QED  BY <3>1, <3>2
  <2>4. ASSUME NEW i \in 1 .. Len(b), NEW j \in 1 .. Len(b), i <= j
        PROVE  b[i] <= b[j]
    <3>1. CASE j = Len(c) + 1
      BY <2>2, <2>3, <3>1
    <3>2. CASE j # Len(c) + 1
      BY <1>b, <2>1, <2>2, <2>4, <3>2
    <3>3. QED  BY <3>1, <3>2
  <2>5. counted'["general"] = b /\ clock' = clock
    BY <1>1, <1>4 DEF b
  <2>6. QED  BY <2>3, <2>4, <2>5 DEF GeneralInOrder
<1>8. WithinLimit'
  BY <1>2, <1>3, <1>4, Rows DEF WithinLimit
<1>9. Recent("login")' = Recent("login")
  BY <1>1, <1>4 DEF Recent, Expired
<1>10. LoginsLeaveRoom'
  BY <1>1, <1>9 DEF LimitSound, LoginsLeaveRoom, UnderWay
<1>11. RefusalJustified'
  <2>1. ~(refusal.at = clock /\ refusal.scope = "general")
    BY <1>2, Rows DEF LimitSound, RefusalJustified
  <2>2. QED  BY <1>1, <1>9, <2>1 DEF LimitSound, RefusalJustified
<1>12. QED  BY <1>5, <1>6, <1>7, <1>8, <1>10, <1>11 DEF LimitSound

(* A login that is passed on is under way, with room for it. *)
LEMMA PassLoginSound ==
    ASSUME LimitSound, NEW l \in Logins, PassLogin(l)
    PROVE  LimitSound'
<1>1. /\ ~Full("login") /\ "login" \in Scopes
      /\ requests' = [requests EXCEPT !["login"] = Purged(@)]
      /\ stamp' = [stamp EXCEPT ![l] = clock]
      /\ UNCHANGED <<clock, counted, refusal>>
  BY DEF PassLogin, Scopes
<1>2. requests' \in [Scopes -> Seq(Nat)] /\ DequeIsEnd' /\ GeneralInOrder' /\ WithinLimit'
  BY <1>1, PurgeSound
<1>3. stamp' \in [Logins -> Nat \cup {None}]
  BY <1>1, Rows
<1>4. TypeOK' /\ (refusal.at <= clock)'
  BY <1>1, <1>2, <1>3, Rows DEF TypeOK, LimitSound
<1>5. LoginsLeaveRoom'
  <2>1. UnderWay' \in SUBSET Logins
    BY DEF UnderWay
  <2>2. IsFiniteSet(UnderWay') /\ Cardinality(UnderWay') <= Cardinality(Logins)
    BY <2>1, Rows, FS_Subset
  <2>3. Cardinality(UnderWay') \in Nat
    BY <2>2, FS_CardinalityType
  <2>4. Cardinality(Recent("login")) < login_limit /\ Cardinality(Recent("login")) \in Nat
    BY <1>1, RoomFound, PurgedCounts DEF Limit
  <2>5. Cardinality(Recent("login")) + Cardinality(UnderWay')
           < login_limit + Cardinality(Logins)
    BY <2>2, <2>3, <2>4, Numbers
  <2>6. Recent("login")' = Recent("login")
    BY <1>1, RecentStays
  <2>7. QED  BY <2>5, <2>6 DEF LoginsLeaveRoom
<1>6. RefusalJustified'
  BY <1>1, RecentStays DEF LimitSound, RefusalJustified, Scopes
<1>7. QED  BY <1>2, <1>4, <1>5, <1>6 DEF LimitSound

(* A login that ends is no longer under way. *)
LEMMA OneLess ==
    ASSUME LimitSound, NEW l \in Logins, stamp[l] # None, stamp' = [stamp EXCEPT ![l] = None]
    PROVE  /\ stamp' \in [Logins -> Nat \cup {None}]
           /\ IsFiniteSet(UnderWay') /\ Cardinality(UnderWay') \in Nat
           /\ Cardinality(UnderWay') + 1 = Cardinality(UnderWay)
<1>1. stamp' \in [Logins -> Nat \cup {None}] /\ UnderWay' = UnderWay \ {l} /\ l \in UnderWay
  BY Rows DEF UnderWay
<1>2. /\ IsFiniteSet(UnderWay') /\ Cardinality(UnderWay') = Cardinality(UnderWay) - 1
  BY <1>1, Rows, FS_RemoveElement
<1>3. Cardinality(UnderWay') \in Nat
  BY <1>2, FS_CardinalityType
<1>4. QED  BY <1>1, <1>2, <1>3, Rows

(* It takes the place in the window that was left for it. *)
LEMMA LoginFailsSound ==
    ASSUME LimitSound, NEW l \in Logins, LoginFails(l)
    PROVE  LimitSound'
<1> DEFINE q == requests["login"]
           c == counted["login"]
           t == stamp[l]
<1>a. "general" \in Scopes /\ "login" \in Scopes
  BY DEF Scopes
<1>1. /\ t # None
      /\ requests' = [requests EXCEPT !["login"] = Append(q, t)]
      /\ counted' = [counted EXCEPT !["login"] = Append(c, t)]
      /\ stamp' = [stamp EXCEPT ![l] = None]
      /\ UNCHANGED <<clock, refusal>>
  BY DEF LoginFails
<1>2. q \in Seq(Nat) /\ c \in Seq(Nat) /\ EndOf(q, c) /\ t \in Nat /\ Len(c) \in Nat
  BY <1>a, <1>1, Rows, LenProperties
<1>b. /\ stamp' \in [Logins -> Nat \cup {None}] /\ Cardinality(UnderWay') \in Nat
      /\ Cardinality(UnderWay') + 1 = Cardinality(UnderWay)
  BY <1>1, OneLess
<1> HIDE DEF q, c, t
<1>3. /\ Append(q, t) \in Seq(Nat) /\ Append(c, t) \in Seq(Nat)
      /\ EndOf(Append(q, t), Append(c, t))
      /\ Len(Append(c, t)) = Len(c) + 1
      /\ \A i \in 1 .. Len(c) : Append(c, t)[i] = c[i]
  BY <1>2, AppendIsEnd, AppendProperties
<1>4. /\ requests' \in [Scopes -> Seq(Nat)] /\ counted' \in [Scopes -> Seq(Nat)]
      /\ requests'["login"] = Append(q, t)
      /\ counted'["login"] = Append(c, t)
      /\ requests'["general"] = requests["general"] /\ counted'["general"] = counted["general"]
  BY <1>a, <1>1, <1>3, Rows
<1>5. TypeOK' /\ (refusal.at <= clock)'
  BY <1>1, <1>4, <1>b, Rows DEF TypeOK, LimitSound
<1>6. DequeIsEnd'
  <2>1. \A s \in Scopes : EndOf(requests'[s], counted'[s])
    BY <1>a, <1>3, <1>4, Rows DEF Scopes
  <2>2. QED  BY <1>1, <2>1, EndStays
<1>7. GeneralInOrder' /\ WithinLimit'
  BY <1>1, <1>4 DEF LimitSound, GeneralInOrder, WithinLimit
<1>8. /\ Recent("login") \subseteq Recent("login")'
      /\ Recent("login")' \subseteq Recent("login") \cup {Len(c) + 1}
  <2> DEFINE b == Append(c, t)
  <2>1. Recent("login") = {i \in 1 .. Len(c) : ~Expired(c[i])}
    BY DEF Recent, c
  <2>2. Recent("login")' = {i \in 1 .. Len(b) : ~Expired(b[i])}
    BY <1>1, <1>4 DEF Recent, Expired
  <2>3. Len(b) = Len(c) + 1 /\ \A i \in 1 .. Len(c) : b[i] = c[i]
    BY <1>3
  <2> HIDE DEF b
  <2>4. 1 .. Len(b) = 1 .. Len(c) \cup {Len(c) + 1}
    BY <1>2, <2>3
  <2>5. QED  BY <2>1, <2>2, <2>3, <2>4
<1>9. LoginsLeaveRoom'
  <2> DEFINE R == Recent("login") \cup {Len(c) + 1}
  <2>1. IsFiniteSet(Recent("login")) /\ Cardinality(Recent("login")) \in Nat
    BY <1>a, PurgedCounts
  <2>2. IsFiniteSet(R) /\ Cardinality(R) <= Cardinality(Recent("login")) + 1
    <3>1. /\ IsFiniteSet(R)
          /\ Cardinality(R) = IF Len(c) + 1 \in Recent("login")
                              THEN Cardinality(Recent("login"))
                              ELSE Cardinality(Recent("login")) + 1
      BY <2>1, FS_AddElement
    <3> HIDE DEF R
    <3>2. QED  BY <2>1, <3>1
  <2>3. /\ IsFiniteSet(Recent("login")')
        /\ Cardinality(Recent("login")') <= Cardinality(R)
    BY <1>8, <2>2, FS_Subset
  <2>4. Cardinality(R) \in Nat /\ Cardinality(Recent("login")') \in Nat
    BY <2>2, <2>3, FS_CardinalityType
  <2>5. Cardinality(Recent("login")') <= Cardinality(Recent("login")) + 1
    BY <2>1, <2>2, <2>3, <2>4
  <2>6. Cardinality(Recent("login")) + Cardinality(UnderWay)
           < login_limit + Cardinality(Logins)
    BY DEF LimitSound, LoginsLeaveRoom
  <2>7. Cardinality(Recent("login")') + Cardinality(UnderWay')
           < login_limit + Cardinality(Logins)
    <3>1. /\ login_limit + Cardinality(Logins) \in Nat /\ Cardinality(UnderWay) \in Nat
          /\ Cardinality(Recent("login")') \in Nat
      BY <2>4, Numbers
    <3>2. QED  BY <1>b, <2>1, <2>5, <2>6, <3>1
  <2>8. QED  BY <2>7 DEF LoginsLeaveRoom
<1>10. RefusalJustified'
  <2>1. Recent("general")' = Recent("general")
    BY <1>1, <1>4 DEF Recent, Expired
  <2>2. QED  BY <1>1, <1>8, <2>1 DEF LimitSound, RefusalJustified
<1>11. QED  BY <1>5, <1>6, <1>7, <1>9, <1>10 DEF LimitSound

LEMMA LoginSucceedsSound ==
    ASSUME LimitSound, NEW l \in Logins, LoginSucceeds(l)
    PROVE  LimitSound'
<1>1. /\ stamp[l] # None /\ stamp' = [stamp EXCEPT ![l] = None]
      /\ UNCHANGED <<clock, requests, counted, refusal>> /\ "login" \in Scopes
  BY DEF LoginSucceeds, Scopes
<1>2. /\ stamp' \in [Logins -> Nat \cup {None}] /\ Cardinality(UnderWay') \in Nat
      /\ Cardinality(UnderWay') + 1 = Cardinality(UnderWay)
  BY <1>1, OneLess
<1>3. TypeOK' /\ (refusal.at <= clock)'
  BY <1>1, <1>2 DEF TypeOK, LimitSound
<1>4. DequeIsEnd' /\ GeneralInOrder' /\ WithinLimit'
  BY <1>1 DEF LimitSound, DequeIsEnd, EndOf, Expired, GeneralInOrder, WithinLimit
<1>5. LoginsLeaveRoom'
  <2>1. Cardinality(Recent("login")) \in Nat
    BY <1>1, PurgedCounts
  <2>2. Cardinality(Recent("login")) + Cardinality(UnderWay)
           < login_limit + Cardinality(Logins)
    BY DEF LimitSound, LoginsLeaveRoom
  <2>3. Cardinality(Recent("login")) + Cardinality(UnderWay')
           < login_limit + Cardinality(Logins)
    BY <1>2, <2>1, <2>2, Numbers
  <2>4. Recent("login")' = Recent("login")
    BY <1>1, RecentStays
  <2>5. QED  BY <2>3, <2>4 DEF LoginsLeaveRoom
<1>6. RefusalJustified'
  BY <1>1, RecentStays DEF LimitSound, RefusalJustified, Scopes
<1>7. QED  BY <1>3, <1>4, <1>5, <1>6 DEF LimitSound

(* Time only takes requests out of the window. *)
LEMMA TickSound ==
    ASSUME LimitSound, Tick
    PROVE  LimitSound'
<1>1. clock' = clock + 1 /\ UNCHANGED <<requests, stamp, counted, refusal>>
      /\ "login" \in Scopes /\ "general" \in Scopes
  BY DEF Tick, Scopes
<1>2. \A t \in Nat : Expired(t) => Expired(t)'
  BY <1>1, Numbers DEF Expired
<1>3. TypeOK' /\ (refusal.at <= clock)' /\ refusal.at # clock'
  <2>1. clock' \in Nat /\ refusal.at <= clock' /\ refusal.at # clock'
    BY <1>1, Numbers DEF LimitSound
  <2>2. QED  BY <1>1, <2>1 DEF TypeOK, LimitSound
<1>4. DequeIsEnd'
  <2>1. ASSUME NEW s \in Scopes
        PROVE  EndOf(requests[s], counted[s])'
    <3>1. \A i \in 1 .. Len(counted[s]) : counted[s][i] \in Nat
      BY Rows, ElementOfSeq
    <3>2. /\ Len(requests[s]) \in Nat /\ Len(counted[s]) \in Nat
          /\ EndOf(requests[s], counted[s])
      BY Rows, LenProperties
    <3>3. \A i \in 1 .. Len(counted[s]) - Len(requests[s]) : i \in 1 .. Len(counted[s])
      BY <3>2
    <3>4. \A i \in 1 .. Len(counted[s]) - Len(requests[s]) : Expired(counted[s][i])'
      BY <1>1, <1>2, <3>1, <3>2, <3>3 DEF EndOf
    <3>5. QED  BY <1>1, <3>2, <3>4 DEF EndOf
  <2>2. QED  BY <2>1 DEF DequeIsEnd
<1>5. GeneralInOrder'
  <2>1. \A i \in 1 .. Len(counted["general"]) : counted["general"][i] \in Nat
    BY <1>1, Rows, ElementOfSeq
  <2>2. ASSUME NEW i \in 1 .. Len(counted["general"]), NEW j \in 1 .. Len(counted["general"])
        PROVE  /\ counted["general"][i] <= clock + 1
               /\ i <= j => counted["general"][i] <= counted["general"][j]
    <3>1. /\ counted["general"][i] <= clock
          /\ i <= j => counted["general"][i] <= counted["general"][j]
      BY DEF LimitSound, GeneralInOrder
    <3>2. counted["general"][i] \in Nat /\ clock \in Nat
      BY <2>1, Rows
    <3>3. counted["general"][i] <= clock + 1
      BY <3>1, <3>2
    <3>4. QED  BY <3>1, <3>3
  <2>3. QED  BY <1>1, <2>2 DEF GeneralInOrder
<1>6. WithinLimit'
  BY <1>1 DEF LimitSound, WithinLimit
<1>7. LoginsLeaveRoom'
  <2>1. \A i \in 1 .. Len(counted["login"]) : counted["login"][i] \in Nat
    BY <1>1, Rows, ElementOfSeq
  <2>2. Recent("login")' \subseteq Recent("login")
    BY <1>1, <1>2, <2>1 DEF Recent
  <2>3. IsFiniteSet(Recent("login")) /\ Cardinality(Recent("login")) \in Nat
    BY <1>1, PurgedCounts
  <2>4. /\ IsFiniteSet(Recent("login")')
        /\ Cardinality(Recent("login")') <= Cardinality(Recent("login"))
    BY <2>2, <2>3, FS_Subset
  <2>5. Cardinality(Recent("login")') \in Nat
    BY <2>4, FS_CardinalityType
  <2>6. UnderWay' = UnderWay
    BY <1>1 DEF UnderWay
  <2>7. Cardinality(Recent("login")) + Cardinality(UnderWay)
           < login_limit + Cardinality(Logins)
    BY DEF LimitSound, LoginsLeaveRoom
  <2>8. Cardinality(Recent("login")') + Cardinality(UnderWay')
           < login_limit + Cardinality(Logins)
    BY <2>3, <2>4, <2>5, <2>6, <2>7, Numbers
  <2>9. QED  BY <2>8 DEF LoginsLeaveRoom
<1>8. RefusalJustified'
  BY <1>1, <1>3 DEF RefusalJustified
<1>9. QED  BY <1>3, <1>4, <1>5, <1>6, <1>7, <1>8 DEF LimitSound
-------------------------------------------------------------------------------
LEMMA LimitInit == Init => LimitSound
<1> SUFFICES ASSUME Init PROVE LimitSound
  OBVIOUS
<1>1. TypeOK
  BY DEF Init, TypeOK, None, Scopes
<1>2. \A s \in Scopes : requests[s] = <<>> /\ counted[s] = <<>>
  BY DEF Init
<1>3. DequeIsEnd
  <2>1. EndOf(<<>>, <<>>)
    BY DEF EndOf
  <2>2. QED  BY <1>2, <2>1 DEF DequeIsEnd
<1>4. GeneralInOrder /\ WithinLimit
  BY <1>2, LimitAssumption DEF GeneralInOrder, WithinLimit, Scopes
<1>5. Recent("login") = {} /\ UnderWay = {}
  BY <1>2 DEF Recent, UnderWay, Init, Scopes
<1>6. Cardinality(Logins) \in Nat
  BY LimitAssumption, FS_CardinalityType
<1>7. LoginsLeaveRoom
  BY <1>5, <1>6, LimitAssumption, FS_EmptySet DEF LoginsLeaveRoom
<1>8. refusal.at <= clock /\ RefusalJustified
  BY DEF Init, RefusalJustified
<1>9. QED  BY <1>1, <1>3, <1>4, <1>7, <1>8 DEF LimitSound

LEMMA LimitStep == LimitSound /\ [Next]_vars => LimitSound'
<1> SUFFICES ASSUME LimitSound, [Next]_vars PROVE LimitSound'
  OBVIOUS
<1>1. CASE Next
  BY <1>1, RefuseSound, PassGeneralSound, PassLoginSound, LoginFailsSound, LoginSucceedsSound,
     TickSound DEF Next
<1>2. CASE UNCHANGED vars
  BY <1>2
     DEF LimitSound, TypeOK, DequeIsEnd, EndOf, GeneralInOrder, WithinLimit, LoginsLeaveRoom,
         RefusalJustified, Recent, UnderWay, Expired, vars
<1>3. QED  BY <1>1, <1>2

(* What the deques, the window and the logins under way agree on. *)
THEOREM LimitInvariant == Spec => []LimitSound
BY LimitInit, LimitStep, PTL DEF Spec

(* The variables of RateLimitMiddleware take their values. *)
THEOREM TypeCorrect == Spec => []TypeOK
<1>1. LimitSound => TypeOK
  BY DEF LimitSound
<1>2. QED  BY <1>1, LimitInvariant, PTL

(* No window lets more than general_limit general requests through. *)
THEOREM GeneralLimited == Spec => []GeneralWithinLimit
<1>1. ASSUME LimitSound PROVE GeneralWithinLimit
  <2>1. "general" \in Scopes
    BY DEF Scopes
  <2>2. /\ Cardinality(Recent("general")) \in Nat
        /\ Cardinality(Recent("general")) <= Len(requests["general"])
        /\ Len(requests["general"]) \in Nat
    BY <1>1, <2>1, Rows, RecentInEnd, LenProperties
  <2>3. Len(requests["general"]) <= general_limit
    BY <1>1 DEF LimitSound, WithinLimit
  <2>4. QED  BY <1>1, <2>2, <2>3, Numbers DEF GeneralWithinLimit
<1>2. QED  BY <1>1, LimitInvariant, PTL

(* A window holds fewer failed logins than the limit and the logins that   *)
(* may be under way at once, together.                                     *)
THEOREM LoginsLimited == Spec => []LoginOvershootBounded
<1>1. ASSUME LimitSound PROVE LoginOvershootBounded
  <2>1. "login" \in Scopes
    BY DEF Scopes
  <2>2. Cardinality(Recent("login")) \in Nat
    BY <1>1, <2>1, PurgedCounts
  <2>3. Cardinality(Recent("login")) + Cardinality(UnderWay)
           < login_limit + Cardinality(Logins)
    BY <1>1 DEF LimitSound, LoginsLeaveRoom
  <2>4. QED  BY <1>1, <2>2, <2>3, Numbers DEF LoginOvershootBounded
<1>2. QED  BY <1>1, LimitInvariant, PTL

(* A 429 is answered only to a general request that finds general_limit    *)
(* others in its window, or to a login that finds a failure in it.         *)
THEOREM RefusalsJustified == Spec => []RefusalJustified
<1>1. LimitSound => RefusalJustified
  BY DEF LimitSound
<1>2. QED  BY <1>1, LimitInvariant, PTL
===============================================================================
