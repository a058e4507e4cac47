------------------------- MODULE BufferQueueProofs -------------------------
(***************************************************************************)
(* Lemmas about a deque and the scans of BufferQueue, for entries of any   *)
(* kind: what erasing and appending leave, and what the scans find.        *)
(* RingBufferProofs and DataSourceProofs rest on them.                     *)
(***************************************************************************)
EXTENDS BufferQueue, SequenceTheorems, WellFoundedInduction, TLAPS

-----------------------------------------------------------------------------
(* Erasing and appending. *)

\* Erasing position i shifts the entries behind it by one, and nothing else.
LEMMA RemoveAtProperties ==
  ASSUME NEW S, NEW s \in Seq(S), NEW i \in 1..Len(s)
  PROVE  /\ RemoveAt(s, i) \in Seq(S)
         /\ Len(RemoveAt(s, i)) = Len(s) - 1
         /\ \A j \in 1..(Len(s) - 1) :
              RemoveAt(s, i)[j] = IF j < i THEN s[j] ELSE s[j + 1]
<1> DEFINE l == SubSeq(s, 1, i - 1)
           r == SubSeq(s, i + 1, Len(s))
<1>1. /\ Len(s) \in Nat
      /\ \A j \in 1..Len(s) : s[j] \in S
  BY LenProperties, ElementOfSeq
<1>2. /\ l \in Seq(S)
      /\ Len(l) = i - 1
      /\ \A j \in 1..(i - 1) : l[j] = s[j]
  BY <1>1, SubSeqProperties
<1>3. /\ r \in Seq(S)
      /\ Len(r) = Len(s) - i
      /\ \A j \in 1..(Len(s) - i) : r[j] = s[i + j]
  <2>1. \A j \in (i + 1)..Len(s) : s[j] \in S
    BY <1>1
  <2>2. /\ r \in Seq(S)
        /\ Len(r) = IF i + 1 <= Len(s) THEN Len(s) - (i + 1) + 1 ELSE 0
        /\ \A j \in 1..(Len(s) - (i + 1) + 1) : r[j] = s[(i + 1) + j - 1]
    BY <1>1, <2>1, SubSeqProperties
  <2>3. QED
    BY <1>1, <2>2
<1>4. /\ l \o r \in Seq(S)
      /\ Len(l \o r) = Len(l) + Len(r)
      /\ \A j \in 1..(Len(l) + Len(r)) :
           (l \o r)[j] = IF j <= Len(l) THEN l[j] ELSE r[j - Len(l)]
  BY <1>2, <1>3, ConcatProperties
<1>5. RemoveAt(s, i) = l \o r
  BY DEF RemoveAt
<1> HIDE DEF l, r
<1>6. Len(l \o r) = Len(s) - 1
  BY <1>1, <1>2, <1>3, <1>4
<1>7. ASSUME NEW j \in 1..(Len(s) - 1)
      PROVE  (l \o r)[j] = IF j < i THEN s[j] ELSE s[j + 1]
  <2>1. (l \o r)[j] = IF j <= i - 1 THEN l[j] ELSE r[j - (i - 1)]
    BY <1>2, <1>4, <1>6
  <2>2. CASE j < i
    BY <2>1, <2>2, <1>1, <1>2
  <2>3. CASE j >= i
    <3>1. /\ j - (i - 1) \in 1..(Len(s) - i)
          /\ i + (j - (i - 1)) = j + 1
      BY <1>1, <2>3
    <3>2. r[j - (i - 1)] = s[j + 1]
      BY <1>3, <3>1
    <3>3. QED
      BY <1>1, <2>1, <2>3, <3>2
  <2>4. j < i \/ j >= i
    BY <1>1
  <2>5. QED
    BY <2>2, <2>3, <2>4
<1>8. QED
  BY <1>4, <1>5, <1>6, <1>7

\* Every entry but the erased one is still in the deque, and no new one.
LEMMA EraseKeeps ==
  ASSUME NEW S, NEW s \in Seq(S), NEW i \in 1..Len(s)
  PROVE  /\ \A k \in 1..Len(s) : k # i => s[k] \in ToSet(RemoveAt(s, i))
         /\ \A e \in ToSet(RemoveAt(s, i)) :
              \E k \in 1..Len(s) : k # i /\ e = s[k]
<1> DEFINE r == RemoveAt(s, i)
<1>1. /\ r \in Seq(S)
      /\ Len(s) \in Nat
      /\ Len(r) = Len(s) - 1
      /\ DOMAIN r = 1..(Len(s) - 1)
      /\ \A j \in 1..(Len(s) - 1) : r[j] = IF j < i THEN s[j] ELSE s[j + 1]
  BY RemoveAtProperties, LenProperties
<1> HIDE DEF r
<1>2. ASSUME NEW k \in 1..Len(s), k # i
      PROVE  s[k] \in ToSet(r)
  <2>1. CASE k < i
    <3>1. k \in DOMAIN r /\ r[k] = s[k]
      BY <1>1, <2>1
    <3>2. QED
      BY <3>1 DEF ToSet
  <2>2. CASE k > i
    <3>1. k - 1 \in DOMAIN r /\ r[k - 1] = s[k]
      BY <1>1, <2>2
    <3>2. QED
      BY <3>1 DEF ToSet
  <2>3. QED
    BY <1>1, <1>2, <2>1, <2>2
<1>3. ASSUME NEW e \in ToSet(r)
      PROVE  \E k \in 1..Len(s) : k # i /\ e = s[k]
  <2>1. PICK j \in 1..(Len(s) - 1) : e = r[j]
    BY <1>1, <1>3 DEF ToSet
  <2>2. CASE j < i
    BY <1>1, <2>1, <2>2
  <2>3. CASE j >= i
    <3>1. j + 1 \in 1..Len(s) /\ j + 1 # i /\ e = s[j + 1]
      BY <1>1, <2>1, <2>3
    <3>2. QED
      BY <3>1
  <2>4. QED
    BY <1>1, <2>1, <2>2, <2>3
<1>4. QED
  BY <1>2, <1>3 DEF r

\* Appending keeps every entry.
LEMMA AppendKeeps ==
  ASSUME NEW S, NEW s \in Seq(S), NEW e \in S
  PROVE  ToSet(Append(s, e)) = ToSet(s) \cup {e}
<1>1. /\ Len(s) \in Nat
      /\ DOMAIN s = 1..Len(s)
      /\ DOMAIN Append(s, e) = 1..(Len(s) + 1)
      /\ \A k \in 1..Len(s) : Append(s, e)[k] = s[k]
      /\ Append(s, e)[Len(s) + 1] = e
  BY LenProperties, AppendProperties
<1>2. QED
  BY <1>1 DEF ToSet

-----------------------------------------------------------------------------
(* The scans of Push and Delete. *)

\* A set of natural numbers that is not empty has a least element.
LEMMA MinExists ==
  ASSUME NEW T \in SUBSET Nat, T # {}
  PROVE  \E x \in T : \A y \in T : x <= y
<1> DEFINE less == {ss \in Nat \X Nat : ss[1] < ss[2]}
<1>1. OpToRel(<, Nat) = less
  BY Zenon DEF OpToRel
<1>2. IsWellFoundedOn(less, Nat)
  BY <1>1, NatLessThanWellFounded
<1> HIDE DEF less
<1>3. PICK x \in T : \A y \in T : ~ (<<y, x>> \in less)
  BY <1>2, WFMin
<1>4. ASSUME NEW y \in T
      PROVE  x <= y
  <2>1. <<y, x>> \in Nat \X Nat /\ ~ (<<y, x>> \in less)
    BY <1>3
  <2>2. ~ (y < x)
    BY <2>1 DEF less
  <2>3. QED
    BY <2>2
<1>5. QED
  BY <1>4

\* The scan for old data finds an unlocked entry when there is one, and all
\* entries before it are locked.
LEMMA OldestUnlockedIs ==
  ASSUME NEW S, NEW buf \in Seq(S), Unlocked(buf) # {}
  PROVE  /\ OldestUnlocked(buf) \in 1..Len(buf)
         /\ ~buf[OldestUnlocked(buf)].locked
         /\ \A j \in 1..(OldestUnlocked(buf) - 1) : buf[j].locked
<1>1. Len(buf) \in Nat /\ DOMAIN buf = 1..Len(buf)
  BY LenProperties
<1>2. Unlocked(buf) \in SUBSET Nat
  BY <1>1 DEF Unlocked
<1>3. \E x \in Unlocked(buf) : \A y \in Unlocked(buf) : x <= y
  BY <1>2, MinExists
<1>4. /\ OldestUnlocked(buf) \in Unlocked(buf)
      /\ \A y \in Unlocked(buf) : OldestUnlocked(buf) <= y
  BY <1>3 DEF OldestUnlocked
<1>5. OldestUnlocked(buf) \in 1..Len(buf) /\ ~buf[OldestUnlocked(buf)].locked
  BY <1>1, <1>4 DEF Unlocked
<1>6. ASSUME NEW j \in 1..(OldestUnlocked(buf) - 1)
      PROVE  buf[j].locked
  <2>1. j \in DOMAIN buf /\ j < OldestUnlocked(buf)
    BY <1>1, <1>5
  <2>2. j \notin Unlocked(buf)
    BY <1>2, <1>4, <1>5, <2>1
  <2>3. QED
    BY <2>1, <2>2 DEF Unlocked
<1>7. QED
  BY <1>5, <1>6

\* The scan for an id finds an entry that has it when there is one.
LEMMA FirstHoldingIs ==
  ASSUME NEW S, NEW buf \in Seq(S), NEW id, Holding(buf, id) # {}
  PROVE  /\ FirstHolding(buf, id) \in 1..Len(buf)
         /\ buf[FirstHolding(buf, id)].id = id
<1>1. Len(buf) \in Nat /\ DOMAIN buf = 1..Len(buf)
  BY LenProperties
<1>2. Holding(buf, id) \in SUBSET Nat
  BY <1>1 DEF Holding
<1>3. \E x \in Holding(buf, id) : \A y \in Holding(buf, id) : x <= y
  BY <1>2, MinExists
<1>4. FirstHolding(buf, id) \in Holding(buf, id)
  BY <1>3 DEF FirstHolding
<1>5. QED
  BY <1>1, <1>4 DEF Holding
=============================================================================
