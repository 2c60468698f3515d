----------------------------- MODULE HoldsProofs -----------------------------
(***************************************************************************)
(* Proofs about Holds for any waiters, hold ids, caps and number of edits: *)
(* the queue count of a hold is the number of requests attributed to it,   *)
(* and nobody departs counted or shown as paused.                          *)
(*                                                                         *)
(* An id that was never drawn is counted nowhere and named by nobody, so a *)
(* new hold starts exact; an id that left the policy never comes back, so  *)
(* what a late adoption does to its pruned count does not matter.          *)
(***************************************************************************)
EXTENDS Holds, FiniteSetTheorems, WellFoundedInduction, TLAPS

\* Requests in the process are finitely many, and no hold has the empty id.
Setting == IsFiniteSet(Waiters) /\ None \notin HoldIDs

InPolicy == {policy[k].id : k \in DOMAIN policy}
Holders(i) == {w \in Waiters : holdID[w] = i}

Stages == {"idle", "prune", "prune_seed", "seed"}
Looping == {"waiting", "adopt", "sync", "parked"}
Places == Looping \cup {"new", "refused", "leaving", "done"}

Typed ==
  /\ policy \in Seq(Holds) /\ used \in SUBSET HoldIDs
  /\ holdCount \in [HoldIDs -> Nat]
  /\ op \in [at : Stages, scan : SUBSET Waiters, fire : SUBSET (Waiters \X HoldIDs)]
  /\ wpc \in [Waiters -> Places]
  /\ seen \in [Waiters -> HoldIDs \cup {None}]
  /\ holdID \in [Waiters -> HoldIDs \cup {None}]
  /\ holding \in [Waiters -> BOOLEAN] /\ shown \in [Waiters -> BOOLEAN]
  /\ queued \in SUBSET Waiters /\ granted \in SUBSET Waiters

\* Ids that were never drawn are counted and named nowhere.
Fresh ==
  /\ InPolicy \subseteq used
  /\ \A i \in HoldIDs \ used : holdCount[i] = 0
  /\ \A w \in Waiters : seen[w] \in used \cup {None} /\ holdID[w] \in used \cup {None}

\* Where a waiter is, and what its fields are there.
Placed ==
  \A w \in Waiters :
    /\ w \in queued => wpc[w] \in Looping
    /\ w \in granted => w \notin queued /\ wpc[w] \notin {"new", "refused"}
    /\ wpc[w] = "adopt" => seen[w] # None
    /\ wpc[w] \in {"new", "refused", "done"} => holdID[w] = None /\ ~holding[w]

Told == \A w \in Waiters : shown[w] => holding[w]

\* Exact while a prune is due too: a prune only forgets ids that left the policy.
Counted == \A i \in InPolicy : holdCount[i] = Cardinality(Holders(i))

HoldsInv == Typed /\ Fresh /\ Placed /\ Told /\ Counted

-----------------------------------------------------------------------------
(* Sequences and places.                                                   *)

\* A set of numbers that is not empty has a least one.
LEMMA LeastNatural ==
  ASSUME NEW S \in SUBSET Nat, S # {}
  PROVE  \E n \in S : \A m \in S : n <= m
<1>1. IsWellFoundedOn(OpToRel(<, Nat), Nat)
  BY NatLessThanWellFounded
<1>2. PICK n \in S : \A m \in Nat : <<m, n>> \in OpToRel(<, Nat) => ~(m \in S)
  BY <1>1, WFMin, Zenon
<1>3. ASSUME NEW m \in S PROVE n <= m
  <2>1. m \in Nat /\ n \in Nat
    OBVIOUS
  <2>2. CASE m < n
    <3>1. <<m, n>> \in OpToRel(<, Nat)
      BY <2>1, <2>2 DEF OpToRel
    <3> QED BY <1>2, <2>1, <3>1
  <2> QED BY <2>1, <2>2
<1> QED BY <1>3

\* f is what KeptUpTo defines, up to m.
Follows(f, m, places) ==
  f = [n \in 0 .. m |->
         IF n = 0 THEN <<>>
         ELSE IF n \in places THEN Append(f[n - 1], policy[n]) ELSE f[n - 1]]

LEMMA FollowsExists ==
  ASSUME NEW len \in Nat, NEW places
  PROVE  \E f : Follows(f, len, places)
<1> DEFINE S == {m \in 0 .. len : ~\E f : Follows(f, m, places)}
<1>1. SUFFICES ASSUME S # {} PROVE FALSE
  OBVIOUS
<1>2. PICK n \in S : \A m \in S : n <= m
  <2>1. S \subseteq Nat
    OBVIOUS
  <2> HIDE DEF S
  <2> QED BY <1>1, <2>1, LeastNatural
<1>3. CASE n = 0
  <2> DEFINE f == [k \in 0 .. n |-> <<>>]
  <2>1. Follows(f, n, places)
    BY <1>3 DEF Follows
  <2> QED BY <2>1
<1>4. CASE n # 0
  <2>1. n \in Nat /\ n - 1 \in 0 .. len /\ ~(n <= n - 1)
    BY <1>4
  <2>2. n - 1 \notin S
    BY <1>2, <2>1
  <2>3. PICK g : Follows(g, n - 1, places)
    BY <2>1, <2>2
  <2> DEFINE f == [k \in 0 .. n |->
                     IF k = 0 THEN <<>>
                     ELSE IF k \in places THEN Append(g[k - 1], policy[k]) ELSE g[k - 1]]
             h == [k \in 0 .. n |->
                     IF k = 0 THEN <<>>
                     ELSE IF k \in places THEN Append(f[k - 1], policy[k]) ELSE f[k - 1]]
  <2>4. \A k \in 0 .. n - 1 :
           g[k] = IF k = 0 THEN <<>>
                  ELSE IF k \in places THEN Append(g[k - 1], policy[k]) ELSE g[k - 1]
    BY <2>3 DEF Follows
  <2>5. ASSUME NEW k \in 0 .. n - 1 PROVE f[k] = g[k]
    BY <2>1, <2>4
  <2>6. ASSUME NEW k \in 0 .. n PROVE f[k] = h[k]
    <3>1. CASE k = 0
      BY <3>1
    <3>2. CASE k # 0
      <4>1. k - 1 \in 0 .. n - 1
        BY <2>1, <3>2
      <4>2. f[k - 1] = g[k - 1]
        BY <2>5, <4>1
      <4> QED BY <3>2, <4>2
    <3> QED BY <3>1, <3>2
  <2>7. f = h
    BY <2>6
  <2>8. Follows(f, n, places)
    BY <2>7 DEF Follows
  <2> QED BY <2>8
<1> QED BY <1>3, <1>4

LEMMA KeptFollows ==
  ASSUME policy \in Seq(Holds), NEW places
  PROVE  Follows(KeptUpTo(places), Len(policy), places)
<1>1. Len(policy) \in Nat
  OBVIOUS
<1>2. PICK f : Follows(f, Len(policy), places)
  BY <1>1, FollowsExists
<1> QED BY <1>2 DEF Follows, KeptUpTo

\* A hold that is kept was in the policy at one of the places.
LEMMA KeptSound ==
  ASSUME policy \in Seq(Holds), NEW places
  PROVE  /\ Kept(places) \in Seq(Holds)
         /\ \A j \in DOMAIN Kept(places) :
              \E k \in DOMAIN policy : k \in places /\ Kept(places)[j] = policy[k]
<1> DEFINE f == KeptUpTo(places)
           From(s) == \A j \in DOMAIN s : \E k \in DOMAIN policy : k \in places /\ s[j] = policy[k]
           S == {m \in 0 .. Len(policy) : ~(f[m] \in Seq(Holds) /\ From(f[m]))}
<1>1. Len(policy) \in Nat /\ DOMAIN policy = 1 .. Len(policy)
  OBVIOUS
<1>2. \A m \in 0 .. Len(policy) :
         f[m] = IF m = 0 THEN <<>>
                ELSE IF m \in places THEN Append(f[m - 1], policy[m]) ELSE f[m - 1]
  BY KeptFollows DEF Follows
<1> HIDE DEF f
<1>3. ASSUME S # {} PROVE FALSE
  <2>1. PICK n \in S : \A m \in S : n <= m
    <3>1. S \subseteq Nat
      BY <1>1
    <3> HIDE DEF S
    <3> QED BY <1>3, <3>1, LeastNatural
  <2>2. CASE n = 0
    <3>1. f[n] = <<>>
      BY <1>1, <1>2, <2>2
    <3>2. <<>> \in Seq(Holds) /\ DOMAIN <<>> = 1 .. 0
      OBVIOUS
    <3>3. f[n] \in Seq(Holds) /\ \A j \in DOMAIN f[n] : FALSE
      BY <3>1, <3>2
    <3> QED BY <3>3
  <2>3. CASE n # 0
    <3>1. n \in Nat /\ n - 1 \in 0 .. Len(policy) /\ ~(n <= n - 1) /\ n \in DOMAIN policy
      BY <1>1, <2>3
    <3>2. n - 1 \notin S
      BY <2>1, <3>1
    <3>3. f[n - 1] \in Seq(Holds) /\ From(f[n - 1])
      BY <3>1, <3>2
    <3>4. policy[n] \in Holds
      BY <3>1
    <3>5. CASE n \in places
      <4> DEFINE s == f[n - 1]
                 t == Append(s, policy[n])
      <4>1. f[n] = t
        BY <1>2, <2>3, <3>5
      <4>2. s \in Seq(Holds) /\ From(s)
        BY <3>3
      <4> HIDE DEF s
      <4>3. /\ t \in Seq(Holds) /\ Len(t) = Len(s) + 1
            /\ \A j \in 1 .. Len(s) : t[j] = s[j]
            /\ t[Len(s) + 1] = policy[n]
            /\ DOMAIN t = 1 .. Len(s) + 1 /\ DOMAIN s = 1 .. Len(s) /\ Len(s) \in Nat
        BY <4>2, <3>4
      <4> HIDE DEF t
      <4>4. ASSUME NEW j \in DOMAIN t
            PROVE  \E k \in DOMAIN policy : k \in places /\ t[j] = policy[k]
        <5>1. CASE j = Len(s) + 1
          BY <4>3, <5>1, <3>1, <3>5
        <5>2. CASE j # Len(s) + 1
          <6>1. j \in DOMAIN s /\ t[j] = s[j]
            BY <4>3, <5>2
          <6> QED BY <6>1, <4>2
        <5> QED BY <5>1, <5>2
      <4> QED BY <4>1, <4>3, <4>4
    <3>6. CASE n \notin places
      <4>1. f[n] = f[n - 1]
        BY <1>2, <2>3, <3>6
      <4> QED BY <4>1, <3>3
    <3> QED BY <3>5, <3>6
  <2> QED BY <2>2, <2>3
<1>4. f[Len(policy)] \in Seq(Holds) /\ From(f[Len(policy)])
  BY <1>1, <1>3
<1>5. Kept(places) = f[Len(policy)]
  BY DEF Kept, f
<1> QED BY <1>4, <1>5

\* The hold a waiter matches is one of the policy.
LEMMA MatchInPolicy ==
  ASSUME Typed, NEW w
  PROVE  matchingHold(w) = None \/ matchingHold(w) \in InPolicy
<1> DEFINE found == {i \in DOMAIN policy : matches(policy[i], w)}
<1>1. ASSUME found # {} PROVE First(found) \in found
  <2>1. found \subseteq Nat
    BY DEF Typed
  <2> HIDE DEF found
  <2>2. \E n \in found : \A m \in found : n <= m
    BY <1>1, <2>1, LeastNatural
  <2> QED BY <2>2 DEF First
<1> QED BY <1>1 DEF matchingHold, InPolicy

-----------------------------------------------------------------------------
(* Attribution.                                                            *)

LEMMA HoldersFinite ==
  ASSUME Setting, NEW i
  PROVE  IsFiniteSet(Holders(i)) /\ Cardinality(Holders(i)) \in Nat
<1>1. Holders(i) \subseteq Waiters
  BY DEF Holders
<1> QED BY <1>1, FS_Subset, FS_CardinalityType DEF Setting

\* A waiter that changes its hold leaves one set of holders and joins another.
LEMMA HoldersMove ==
  ASSUME Setting, Typed, NEW w \in Waiters, NEW v,
         holdID' = [holdID EXCEPT ![w] = v], NEW i
  PROVE  /\ i = holdID[w] /\ i # v =>
              Cardinality(Holders(i)) > 0 /\ Cardinality(Holders(i)') = Cardinality(Holders(i)) - 1
         /\ i # holdID[w] /\ i = v => Cardinality(Holders(i)') = Cardinality(Holders(i)) + 1
         /\ (i = holdID[w] <=> i = v) => Cardinality(Holders(i)') = Cardinality(Holders(i))
<1>1. \A x \in Waiters : holdID'[x] = IF x = w THEN v ELSE holdID[x]
  BY DEF Typed
<1>2. IsFiniteSet(Holders(i)) /\ Cardinality(Holders(i)) \in Nat
  BY HoldersFinite
<1>3. ASSUME i = holdID[w], i # v
      PROVE  Cardinality(Holders(i)) > 0 /\ Cardinality(Holders(i)') = Cardinality(Holders(i)) - 1
  <2>1. Holders(i)' = Holders(i) \ {w} /\ w \in Holders(i)
    BY <1>1, <1>3 DEF Holders
  <2>2. Cardinality(Holders(i) \ {w}) = Cardinality(Holders(i)) - 1
    BY <1>2, <2>1, FS_RemoveElement
  <2>3. Cardinality(Holders(i)) # 0
    BY <1>2, <2>1, FS_EmptySet
  <2> QED BY <1>2, <2>1, <2>2, <2>3
<1>4. ASSUME i # holdID[w], i = v
      PROVE  Cardinality(Holders(i)') = Cardinality(Holders(i)) + 1
  <2>1. Holders(i)' = Holders(i) \cup {w} /\ w \notin Holders(i)
    BY <1>1, <1>4 DEF Holders
  <2> QED BY <1>2, <2>1, FS_AddElement
<1>5. ASSUME (i = holdID[w] <=> i = v)
      PROVE  Cardinality(Holders(i)') = Cardinality(Holders(i))
  <2>1. Holders(i)' = Holders(i)
    BY <1>1, <1>5, Zenon DEF Holders
  <2> QED BY <2>1
<1> QED BY <1>3, <1>4, <1>5

\* What a change of attribution keeps.
Accounts ==
  /\ holdCount \in [HoldIDs -> Nat] /\ holdID \in [Waiters -> HoldIDs \cup {None}]
  /\ \A i \in HoldIDs \ used : holdCount[i] = 0
  /\ \A x \in Waiters : holdID[x] \in used \cup {None}
  /\ Counted

LEMMA InvAccounts == HoldsInv => Accounts
BY DEF HoldsInv, Typed, Fresh, Accounts

LEMMA MoveAccounts ==
  ASSUME Setting, HoldsInv, NEW w \in Waiters, NEW id \in used,
         moveHoldCountLocked(w, id), UNCHANGED <<policy, used>>
  PROVE  Accounts' /\ holdID'[w] = id /\ \A x \in Waiters \ {w} : holdID'[x] = holdID[x]
<1>1. id \in HoldIDs /\ used \subseteq HoldIDs /\ id # None
  BY DEF HoldsInv, Typed, Setting
<1>2. Accounts
  BY InvAccounts
<1>3. CASE holdID[w] = id
  <2>1. holdCount' = holdCount /\ holdID' = holdID /\ policy' = policy /\ used' = used
    BY <1>3 DEF moveHoldCountLocked
  <2>2. InPolicy' = InPolicy /\ \A i : Holders(i)' = Holders(i)
    BY <2>1 DEF InPolicy, Holders
  <2>3. Counted'
    BY <1>2, <2>1, <2>2 DEF Accounts, Counted
  <2>4. Accounts'
    BY <1>2, <2>1, <2>3 DEF Accounts
  <2> QED BY <1>3, <2>1, <2>4
<1>4. CASE holdID[w] # id
  <2> DEFINE low == Dec(holdCount, holdID[w])
  <2>1. /\ holdCount' = Inc(low, id)
        /\ holdID' = [holdID EXCEPT ![w] = id]
    BY <1>4 DEF moveHoldCountLocked
  <2>2. /\ low \in [HoldIDs -> Nat]
        /\ \A i \in HoldIDs : i # holdID[w] => low[i] = holdCount[i]
        /\ \A i \in HoldIDs : i = holdID[w] /\ holdCount[i] > 0 => low[i] = holdCount[i] - 1
    BY <1>2 DEF Dec, Accounts, Setting
  <2> HIDE DEF low
  <2>3. /\ holdCount' \in [HoldIDs -> Nat]
        /\ \A i \in HoldIDs : holdCount'[i] = IF i = id THEN low[i] + 1 ELSE low[i]
    BY <1>1, <2>1, <2>2 DEF Inc
  <2>4. /\ holdID' \in [Waiters -> HoldIDs \cup {None}]
        /\ \A x \in Waiters : holdID'[x] = IF x = w THEN id ELSE holdID[x]
    BY <1>1, <1>2, <2>1 DEF Accounts
  <2>5. \A i \in HoldIDs \ used : holdCount'[i] = 0
    <3>1. holdID[w] \in used \cup {None}
      BY <1>2 DEF Accounts
    <3>2. ASSUME NEW i \in HoldIDs \ used PROVE holdCount'[i] = 0
      <4>1. i # id /\ i # holdID[w]
        BY <3>1 DEF Setting
      <4> QED BY <4>1, <2>2, <2>3, <1>2 DEF Accounts
    <3> QED BY <3>2
  <2>6. Counted'
    <3>1. SUFFICES ASSUME NEW i \in InPolicy PROVE holdCount'[i] = Cardinality(Holders(i)')
      BY DEF Counted, InPolicy
    <3>2. i \in HoldIDs /\ holdCount[i] = Cardinality(Holders(i)) /\ holdCount[i] \in Nat
      BY <1>1, <1>2 DEF HoldsInv, Fresh, Accounts, Counted
    <3> Typed
      BY DEF HoldsInv
    <3>3. /\ i = holdID[w] /\ i # id =>
               Cardinality(Holders(i)) > 0 /\ Cardinality(Holders(i)') = Cardinality(Holders(i)) - 1
          /\ i # holdID[w] /\ i = id => Cardinality(Holders(i)') = Cardinality(Holders(i)) + 1
          /\ (i = holdID[w] <=> i = id) => Cardinality(Holders(i)') = Cardinality(Holders(i))
      BY <2>1, HoldersMove
    <3>4. CASE i = holdID[w]
      BY <1>4, <2>2, <2>3, <3>2, <3>3, <3>4
    <3>5. CASE i # holdID[w] /\ i = id
      BY <2>2, <2>3, <3>2, <3>3, <3>5
    <3>6. CASE i # holdID[w] /\ i # id
      BY <2>2, <2>3, <3>2, <3>3, <3>6
    <3> QED BY <3>4, <3>5, <3>6
  <2>7. \A x \in Waiters : holdID'[x] \in used \cup {None}
    BY <2>4, <1>2 DEF Accounts
  <2> QED BY <2>3, <2>4, <2>5, <2>6, <2>7 DEF Accounts
<1> QED BY <1>3, <1>4

LEMMA ClearAccounts ==
  ASSUME Setting, HoldsInv, NEW w \in Waiters, clearHoldCountLocked(w), UNCHANGED <<policy, used>>
  PROVE  Accounts' /\ holdID'[w] = None /\ \A x \in Waiters \ {w} : holdID'[x] = holdID[x]
<1>1. used \subseteq HoldIDs /\ None \notin HoldIDs
  BY DEF HoldsInv, Typed, Setting
<1>2. Accounts
  BY InvAccounts
<1>3. /\ holdCount' = Dec(holdCount, holdID[w])
      /\ holdID' = [holdID EXCEPT ![w] = None]
  BY DEF clearHoldCountLocked
<1>4. /\ holdCount' \in [HoldIDs -> Nat]
      /\ \A i \in HoldIDs : i # holdID[w] => holdCount'[i] = holdCount[i]
      /\ \A i \in HoldIDs : i = holdID[w] /\ holdCount[i] > 0 => holdCount'[i] = holdCount[i] - 1
  BY <1>1, <1>2, <1>3 DEF Dec, Accounts
<1>5. /\ holdID' \in [Waiters -> HoldIDs \cup {None}]
      /\ \A x \in Waiters : holdID'[x] = IF x = w THEN None ELSE holdID[x]
  BY <1>2, <1>3 DEF Accounts
<1>6. \A i \in HoldIDs \ used : holdCount'[i] = 0
  <2>1. holdID[w] \in used \cup {None}
    BY <1>2 DEF Accounts
  <2>2. ASSUME NEW i \in HoldIDs \ used PROVE holdCount'[i] = 0
    <3>1. i # holdID[w]
      BY <1>1, <2>1
    <3> QED BY <3>1, <1>4, <1>2 DEF Accounts
  <2> QED BY <2>2
<1>7. Counted'
  <2>1. SUFFICES ASSUME NEW i \in InPolicy PROVE holdCount'[i] = Cardinality(Holders(i)')
    BY DEF Counted, InPolicy
  <2>2. i \in HoldIDs /\ i # None /\ holdCount[i] = Cardinality(Holders(i)) /\ holdCount[i] \in Nat
    BY <1>1, <1>2 DEF HoldsInv, Fresh, Accounts, Counted
  <2> Typed
    BY DEF HoldsInv
  <2>3. /\ i = holdID[w] /\ i # None =>
             Cardinality(Holders(i)) > 0 /\ Cardinality(Holders(i)') = Cardinality(Holders(i)) - 1
        /\ (i = holdID[w] <=> i = None) => Cardinality(Holders(i)') = Cardinality(Holders(i))
    BY <1>3, HoldersMove
  <2>4. CASE i = holdID[w]
    BY <1>4, <2>2, <2>3, <2>4
  <2>5. CASE i # holdID[w]
    BY <1>4, <2>2, <2>3, <2>5
  <2> QED BY <2>4, <2>5
<1>8. \A x \in Waiters : holdID'[x] \in used \cup {None}
  BY <1>5, <1>2 DEF Accounts
<1> QED BY <1>4, <1>5, <1>6, <1>7, <1>8 DEF Accounts

-----------------------------------------------------------------------------
(* Steps.                                                                  *)

\* The rest of the types, and the ids outside the accounts.
Fields ==
  /\ policy \in Seq(Holds) /\ used \in SUBSET HoldIDs
  /\ op \in [at : Stages, scan : SUBSET Waiters, fire : SUBSET (Waiters \X HoldIDs)]
  /\ wpc \in [Waiters -> Places]
  /\ seen \in [Waiters -> HoldIDs \cup {None}]
  /\ holding \in [Waiters -> BOOLEAN] /\ shown \in [Waiters -> BOOLEAN]
  /\ queued \in SUBSET Waiters /\ granted \in SUBSET Waiters
  /\ InPolicy \subseteq used
  /\ \A x \in Waiters : seen[x] \in used \cup {None}

LEMMA InvParts == HoldsInv <=> Accounts /\ Fields /\ Placed /\ Told
BY DEF HoldsInv, Accounts, Fields, Typed, Fresh

LEMMA Steady ==
  ASSUME HoldsInv, UNCHANGED <<policy, used, holdCount, holdID>>
  PROVE  Accounts'
<1>1. Accounts
  BY InvAccounts
<1>2. InPolicy' = InPolicy /\ \A i : Holders(i)' = Holders(i)
  BY DEF InPolicy, Holders
<1>3. Counted'
  BY <1>1, <1>2 DEF Accounts, Counted
<1> QED BY <1>1, <1>3 DEF Accounts

LEMMA HoldsInit == ASSUME Setting, Init PROVE HoldsInv
<1>1. DOMAIN policy = {} /\ policy \in Seq(Holds)
  BY DEF Init
<1>2. InPolicy = {}
  BY <1>1 DEF InPolicy
<1>3. Typed
  BY <1>1 DEF Init, Typed, Idle, Stages, Places
<1>4. Fresh
  BY <1>2 DEF Init, Fresh
<1>5. Placed /\ Told
  BY DEF Init, Placed, Told
<1> QED BY <1>2, <1>3, <1>4, <1>5 DEF HoldsInv, Counted

\* A commit publishes holds of the old policy and at most one more, whose id nobody
\* names or whose count is exact already.
LEMMA CommitStep ==
  ASSUME Setting, HoldsInv, NEW next, NEW seeds \in BOOLEAN, commitHolds(next, seeds),
         next \in Seq(Holds), used' \in SUBSET HoldIDs, used \subseteq used',
         \A k \in DOMAIN next :
            next[k].id \in used' /\ (next[k].id \in InPolicy \/ next[k].id \notin used)
  PROVE  HoldsInv'
<1>1. /\ policy' = next /\ holdCount' = holdCount /\ holdID' = holdID
      /\ holding' = holding /\ shown' = shown /\ wpc' = wpc /\ seen' = seen
      /\ queued' = queued /\ granted' = granted
      /\ op' = [at |-> IF seeds THEN "prune_seed" ELSE "prune", scan |-> {}, fire |-> {}]
  BY DEF commitHolds, accounts
<1>2. InPolicy' \subseteq used' /\ \A i \in InPolicy' : i \in InPolicy \/ i \notin used
  BY <1>1 DEF InPolicy
<1>3. Typed'
  BY <1>1 DEF HoldsInv, Typed, Stages
<1>4. Fresh'
  BY <1>1, <1>2 DEF HoldsInv, Fresh
<1>5. Placed' /\ Told'
  BY <1>1 DEF HoldsInv, Placed, Told
<1>6. Counted'
  <2>1. SUFFICES ASSUME NEW i \in InPolicy' PROVE holdCount[i] = Cardinality(Holders(i))
    <3>1. \A i : Holders(i)' = Holders(i)
      BY <1>1 DEF Holders
    <3> QED BY <1>1, <3>1 DEF Counted
  <2>2. CASE i \in InPolicy
    BY <2>2 DEF HoldsInv, Counted
  <2>3. CASE i \notin used
    <3>1. i \in HoldIDs /\ i # None
      BY <1>2, <2>1 DEF Setting
    <3>2. Holders(i) = {}
      BY <2>3, <3>1 DEF HoldsInv, Fresh, Holders
    <3> QED BY <2>3, <3>1, <3>2, FS_EmptySet DEF HoldsInv, Fresh
  <2> QED BY <1>2, <2>1, <2>2, <2>3
<1> QED BY <1>3, <1>4, <1>5, <1>6 DEF HoldsInv

\* Holds that are kept are holds of the policy; appending h adds only its id.
LEMMA KeptIds ==
  ASSUME HoldsInv, NEW places, NEW h \in Holds
  PROVE  /\ Kept(places) \in Seq(Holds) /\ Append(Kept(places), h) \in Seq(Holds)
         /\ \A k \in DOMAIN Kept(places) : Kept(places)[k].id \in InPolicy
         /\ \A k \in DOMAIN Append(Kept(places), h) :
              Append(Kept(places), h)[k].id \in InPolicy \cup {h.id}
<1> DEFINE s == Kept(places)
           t == Append(s, h)
<1>1. policy \in Seq(Holds)
  BY DEF HoldsInv, Typed
<1>2. /\ s \in Seq(Holds)
      /\ \A j \in DOMAIN s : \E k \in DOMAIN policy : k \in places /\ s[j] = policy[k]
  BY <1>1, KeptSound
<1> HIDE DEF s
<1>3. \A k \in DOMAIN s : s[k].id \in InPolicy
  BY <1>2 DEF InPolicy
<1>4. /\ t \in Seq(Holds) /\ \A j \in 1 .. Len(s) : t[j] = s[j]
      /\ t[Len(s) + 1] = h
      /\ DOMAIN t = 1 .. Len(s) + 1 /\ DOMAIN s = 1 .. Len(s) /\ Len(s) \in Nat
  BY <1>2
<1> HIDE DEF t
<1>5. ASSUME NEW j \in DOMAIN t PROVE t[j].id \in InPolicy \cup {h.id}
  <2>1. CASE j = Len(s) + 1
    BY <1>4, <2>1
  <2>2. CASE j # Len(s) + 1
    <3>1. j \in DOMAIN s /\ t[j] = s[j]
      BY <1>4, <2>2
    <3> QED BY <3>1, <1>3
  <2> QED BY <2>1, <2>2
<1> QED BY <1>2, <1>3, <1>4, <1>5 DEF s, t

LEMMA AddStep ==
  ASSUME Setting, HoldsInv, NEW h \in Holds, AddHold(h)
  PROVE  HoldsInv'
<1> DEFINE kept == {i \in DOMAIN policy : active(policy[i])}
           next == Append(Kept(kept), h)
<1>1. /\ h.id \notin used /\ used' = used \union {h.id} /\ commitHolds(next, TRUE)
  BY DEF AddHold, list
<1>2. next \in Seq(Holds) /\ \A k \in DOMAIN next : next[k].id \in InPolicy \cup {h.id}
  BY KeptIds
<1> HIDE DEF next
<1>3. h.id \in HoldIDs /\ used \in SUBSET HoldIDs /\ InPolicy \subseteq used
  BY DEF HoldsInv, Typed, Fresh, Holds
<1> QED BY <1>1, <1>2, <1>3, CommitStep

LEMMA ReplaceStep ==
  ASSUME Setting, HoldsInv, NEW h \in Holds, ReplaceHold(h)
  PROVE  HoldsInv'
<1> DEFINE kept == {i \in DOMAIN policy : policy[i].id # h.id /\ active(policy[i])}
           next == Append(Kept(kept), h)
<1>1. h.id \in InPolicy /\ used' = used /\ commitHolds(next, TRUE)
  BY DEF ReplaceHold, holdsWithoutID, InPolicy
<1>2. next \in Seq(Holds) /\ \A k \in DOMAIN next : next[k].id \in InPolicy \cup {h.id}
  BY KeptIds
<1> HIDE DEF next
<1>3. used \in SUBSET HoldIDs /\ InPolicy \subseteq used
  BY DEF HoldsInv, Typed, Fresh
<1> QED BY <1>1, <1>2, <1>3, CommitStep

LEMMA RemoveStep ==
  ASSUME Setting, HoldsInv, NEW id, RemoveHold(id)
  PROVE  HoldsInv'
<1> DEFINE kept == {i \in DOMAIN policy : policy[i].id # id /\ active(policy[i])}
           next == Kept(kept)
<1>1. used' = used /\ commitHolds(next, FALSE)
  BY DEF RemoveHold, holdsWithoutID
<1>2. next \in Seq(Holds) /\ \A k \in DOMAIN next : next[k].id \in InPolicy
  <2>1. PICK k \in DOMAIN policy : policy[k].id = id
    BY DEF RemoveHold
  <2>2. policy[k] \in Holds
    BY <2>1 DEF HoldsInv, Typed
  <2> QED BY <2>2, KeptIds
<1> HIDE DEF next
<1>3. used \in SUBSET HoldIDs /\ InPolicy \subseteq used
  BY DEF HoldsInv, Typed, Fresh
<1> QED BY <1>1, <1>2, <1>3, CommitStep

\* A prune forgets the counts of ids outside the policy.
LEMMA PruneStep ==
  ASSUME Setting, HoldsInv, pruneHoldCounts
  PROVE  HoldsInv'
<1>1. /\ policy' = policy /\ used' = used /\ wpc' = wpc /\ seen' = seen /\ queued' = queued
      /\ granted' = granted /\ holdID' = holdID /\ holding' = holding /\ shown' = shown
      /\ holdCount' = [i \in HoldIDs |-> IF i \in InPolicy THEN holdCount[i] ELSE 0]
      /\ op' = IF op.at = "prune" THEN Idle ELSE [at |-> "seed", scan |-> Waiters, fire |-> {}]
  BY DEF pruneHoldCounts, InPolicy
<1>2. InPolicy' = InPolicy /\ InPolicy \subseteq HoldIDs
  BY <1>1 DEF InPolicy, HoldsInv, Typed, Fresh
<1>3. holdCount' \in [HoldIDs -> Nat] /\ \A i \in InPolicy : holdCount'[i] = holdCount[i]
  BY <1>1, <1>2 DEF HoldsInv, Typed
<1>4. Typed'
  BY <1>1, <1>3 DEF HoldsInv, Typed, Stages, Idle
<1>5. Fresh'
  BY <1>1, <1>2 DEF HoldsInv, Fresh, Typed
<1>6. Placed' /\ Told'
  BY <1>1 DEF HoldsInv, Placed, Told
<1>7. Counted'
  <2>1. \A i : Holders(i)' = Holders(i)
    BY <1>1 DEF Holders
  <2> QED BY <1>2, <1>3, <2>1 DEF HoldsInv, Counted
<1> QED BY <1>4, <1>5, <1>6, <1>7 DEF HoldsInv

\* Everything that is told about one waiter.
Sound(w) ==
  /\ w \in queued => wpc[w] \in Looping
  /\ w \in granted => w \notin queued /\ wpc[w] \notin {"new", "refused"}
  /\ wpc[w] = "adopt" => seen[w] # None
  /\ wpc[w] \in {"new", "refused", "done"} => holdID[w] = None /\ ~holding[w]
  /\ shown[w] => holding[w]

\* A step that leaves x alone.
Spares(x) ==
  /\ x \in queued' <=> x \in queued
  /\ x \in granted' <=> x \in granted
  /\ wpc'[x] = wpc[x] /\ seen'[x] = seen[x] /\ holdID'[x] = holdID[x]
  /\ holding'[x] = holding[x] /\ shown'[x] = shown[x]

LEMMA OneWaiter ==
  ASSUME HoldsInv, Accounts', Fields', NEW w \in Waiters, Sound(w)',
         \A x \in Waiters \ {w} : Spares(x)
  PROVE  HoldsInv'
<1>1. ASSUME NEW x \in Waiters PROVE Sound(x)'
  <2>1. CASE x = w
    BY <2>1
  <2>2. CASE x # w
    <3>1. Spares(x)
      BY <2>2
    <3>2. Sound(x)
      BY DEF HoldsInv, Placed, Told, Sound
    <3> QED BY <3>1, <3>2 DEF Spares, Sound
  <2> QED BY <2>1, <2>2
<1>2. Placed' /\ Told'
  BY <1>1 DEF Placed, Told, Sound
<1>3. (Accounts /\ Fields /\ Placed /\ Told)'
  BY <1>2
<1> QED BY <1>3, InvParts, PTL

LEMMA WaiterSound ==
  ASSUME HoldsInv, NEW w \in Waiters
  PROVE  Sound(w)
BY DEF HoldsInv, Placed, Told, Sound

LEMMA MatchUsed ==
  ASSUME HoldsInv, NEW w, matchingHold(w) # None
  PROVE  matchingHold(w) \in used /\ matchingHold(w) \in HoldIDs
<1>1. Typed /\ InPolicy \subseteq used /\ used \subseteq HoldIDs
  BY DEF HoldsInv, Typed, Fresh
<1> QED BY <1>1, MatchInPolicy

\* What OnHold and OnUnhold do to the flags of a waiter.
LEMMA HookStep ==
  ASSUME HoldsInv, NEW w \in Waiters, fireHoldLocked(w) \/ fireUnholdLocked(w)
  PROVE  /\ holding' \in [Waiters -> BOOLEAN] /\ shown' \in [Waiters -> BOOLEAN]
         /\ \A x \in Waiters \ {w} : holding'[x] = holding[x] /\ shown'[x] = shown[x]
         /\ shown'[w] => holding'[w]
         /\ fireUnholdLocked(w) => ~holding'[w]
<1>1. /\ holding \in [Waiters -> BOOLEAN] /\ shown \in [Waiters -> BOOLEAN]
      /\ shown[w] => holding[w]
  BY DEF HoldsInv, Typed, Told
<1>2. CASE fireHoldLocked(w)
  <2>1. holding' = [holding EXCEPT ![w] = TRUE]
    BY <1>2 DEF fireHoldLocked
  <2>2. shown' = shown \/ shown' = [shown EXCEPT ![w] = TRUE]
    BY <1>2 DEF fireHoldLocked
  <2>3. holding'[w]
    BY <1>1, <2>1
  <2>4. fireUnholdLocked(w) => ~holding'[w]
    BY <1>1 DEF fireUnholdLocked
  <2> QED BY <1>1, <2>1, <2>2, <2>3, <2>4
<1>3. CASE fireUnholdLocked(w)
  <2>1. holding' = [holding EXCEPT ![w] = FALSE]
    BY <1>3 DEF fireUnholdLocked
  <2>2. shown' = IF holding[w] THEN [shown EXCEPT ![w] = FALSE] ELSE shown
    BY <1>3 DEF fireUnholdLocked
  <2>3. ~holding'[w] /\ ~shown'[w]
    BY <1>1, <2>1, <2>2
  <2> QED BY <1>1, <2>1, <2>2, <2>3
<1> QED BY <1>2, <1>3

\* adoptHold: attributed and shown in one section.
LEMMA AdoptFacts ==
  ASSUME Setting, HoldsInv, NEW w \in Waiters, NEW id \in used, adoptHold(w, id),
         UNCHANGED <<policy, used>>
  PROVE  /\ Accounts' /\ holdID'[w] = id
         /\ holding' \in [Waiters -> BOOLEAN] /\ shown' \in [Waiters -> BOOLEAN]
         /\ shown'[w] => holding'[w]
         /\ \A x \in Waiters \ {w} :
              holdID'[x] = holdID[x] /\ holding'[x] = holding[x] /\ shown'[x] = shown[x]
BY MoveAccounts, HookStep DEF adoptHold

\* dropHold: out of the count and off the row in one section.
LEMMA DropFacts ==
  ASSUME Setting, HoldsInv, NEW w \in Waiters, dropHold(w), UNCHANGED <<policy, used>>
  PROVE  /\ Accounts' /\ holdID'[w] = None
         /\ holding' \in [Waiters -> BOOLEAN] /\ shown' \in [Waiters -> BOOLEAN]
         /\ ~holding'[w] /\ (shown'[w] => holding'[w])
         /\ \A x \in Waiters \ {w} :
              holdID'[x] = holdID[x] /\ holding'[x] = holding[x] /\ shown'[x] = shown[x]
BY ClearAccounts, HookStep DEF dropHold

LEMMA SeedStep ==
  ASSUME Setting, HoldsInv, NEW w \in Waiters, seedQueuedHolds(w)
  PROVE  HoldsInv'
<1>1. /\ policy' = policy /\ used' = used /\ wpc' = wpc /\ seen' = seen /\ queued' = queued
      /\ granted' = granted /\ shown' = shown
  BY DEF seedQueuedHolds
<1>2. InPolicy' = InPolicy
  BY <1>1 DEF InPolicy
<1>3. Fields /\ Sound(w)
  BY InvParts, WaiterSound
<1>4. CASE w \notin queued
  <2>1. /\ op' = [op EXCEPT !.scan = @ \ {w}]
        /\ holdCount' = holdCount /\ holdID' = holdID /\ holding' = holding
    BY <1>4 DEF seedQueuedHolds
  <2>2. Accounts'
    BY <1>1, <2>1, Steady
  <2>3. Fields'
    BY <1>1, <1>2, <1>3, <2>1 DEF Fields
  <2>4. Sound(w)' /\ \A x \in Waiters \ {w} : Spares(x)
    BY <1>1, <1>3, <2>1 DEF Sound, Spares
  <2> QED BY <2>2, <2>3, <2>4, OneWaiter
<1>5. CASE w \in queued /\ matchingHold(w) = None
  <2>1. /\ op' = [op EXCEPT !.scan = @ \ {w}]
        /\ clearHoldCountLocked(w) /\ holding' = holding
    BY <1>5 DEF seedQueuedHolds
  <2>2. Accounts' /\ holdID'[w] = None /\ \A x \in Waiters \ {w} : holdID'[x] = holdID[x]
    BY <1>1, <2>1, ClearAccounts
  <2>3. Fields'
    BY <1>1, <1>2, <1>3, <2>1 DEF Fields
  <2>4. Sound(w)' /\ \A x \in Waiters \ {w} : Spares(x)
    BY <1>1, <1>3, <2>1, <2>2 DEF Sound, Spares
  <2> QED BY <2>2, <2>3, <2>4, OneWaiter
<1>6. CASE w \in queued /\ matchingHold(w) # None
  <2> DEFINE id == matchingHold(w)
  <2>1. /\ moveHoldCountLocked(w, id)
        /\ holding' = [holding EXCEPT ![w] = TRUE]
        /\ op' = [op EXCEPT !.scan = @ \ {w},
                            !.fire = IF holding[w] THEN @ ELSE @ \union {<<w, id>>}]
    BY <1>6 DEF seedQueuedHolds
  <2>2. id \in used /\ id \in HoldIDs
    BY <1>6, MatchUsed
  <2> HIDE DEF id
  <2>3. Accounts' /\ holdID'[w] = id /\ \A x \in Waiters \ {w} : holdID'[x] = holdID[x]
    BY <1>1, <2>1, <2>2, MoveAccounts
  <2>4. op' \in [at : Stages, scan : SUBSET Waiters, fire : SUBSET (Waiters \X HoldIDs)]
    <3> DEFINE fires == IF holding[w] THEN op.fire ELSE op.fire \union {<<w, id>>}
    <3>1. /\ op \in [at : Stages, scan : SUBSET Waiters, fire : SUBSET (Waiters \X HoldIDs)]
          /\ op.fire \subseteq Waiters \X HoldIDs
      BY <1>3 DEF Fields
    <3>2. fires \subseteq Waiters \X HoldIDs
      BY <2>2, <3>1
    <3>3. op' = [op EXCEPT !.scan = @ \ {w}, !.fire = fires]
      BY <2>1, <3>1
    <3> HIDE DEF fires
    <3> QED BY <3>1, <3>2, <3>3
  <2>5. holding' \in [Waiters -> BOOLEAN] /\ \A x \in Waiters : holding'[x] = IF x = w THEN TRUE ELSE holding[x]
    BY <1>3, <2>1 DEF Fields
  <2>6. Fields'
    BY <1>1, <1>2, <1>3, <2>4, <2>5 DEF Fields
  <2>7. wpc[w] \in Looping
    BY <1>3, <1>6 DEF Sound
  <2>8. \A x \in Waiters \ {w} : Spares(x)
    BY <1>1, <2>3, <2>5 DEF Spares
  <2>9. holding'[w] /\ wpc'[w] \notin {"new", "refused", "done"}
    BY <1>1, <2>5, <2>7 DEF Looping
  <2>10. Sound(w)'
    BY <1>1, <1>3, <2>9 DEF Sound
  <2> QED BY <2>3, <2>6, <2>8, <2>10, OneWaiter
<1> QED BY <1>4, <1>5, <1>6

\* The hook of a seeded hold runs only for a waiter that is still held by it.
LEMMA FireStep ==
  ASSUME Setting, HoldsInv, NEW f \in op.fire, fireSeededHold(f)
  PROVE  HoldsInv'
<1>1. /\ policy' = policy /\ used' = used /\ wpc' = wpc /\ seen' = seen /\ queued' = queued
      /\ granted' = granted /\ holdCount' = holdCount /\ holdID' = holdID /\ holding' = holding
      /\ op' = [op EXCEPT !.fire = @ \ {f}]
      /\ shown' = IF holding[f[1]] /\ holdID[f[1]] = f[2]
                    THEN [shown EXCEPT ![f[1]] = TRUE] ELSE shown
  BY DEF fireSeededHold
<1>2. Fields /\ f \in Waiters \X HoldIDs
  BY InvParts DEF Fields
<1> DEFINE w == f[1]
<1>3. w \in Waiters
  BY <1>2
<1>4. InPolicy' = InPolicy
  BY <1>1 DEF InPolicy
<1>5. Accounts'
  BY <1>1, Steady
<1>6. shown' \in [Waiters -> BOOLEAN] /\ \A x \in Waiters \ {w} : shown'[x] = shown[x]
  BY <1>1, <1>2 DEF Fields
<1>7. Fields'
  BY <1>1, <1>2, <1>4, <1>6 DEF Fields
<1>8. shown'[w] => holding[w]
  BY <1>1, <1>2, <1>3, WaiterSound DEF Fields, Sound
<1>9. Sound(w)
  BY <1>3, WaiterSound
<1> HIDE DEF w
<1>10. Sound(w)' /\ \A x \in Waiters \ {w} : Spares(x)
  BY <1>1, <1>6, <1>8, <1>9 DEF Sound, Spares
<1> QED BY <1>3, <1>5, <1>7, <1>10, OneWaiter

\* Steps that move no account, no policy and one waiter at most.
LEMMA MatchStep ==
  ASSUME HoldsInv, NEW w \in Waiters, Match(w)
  PROVE  HoldsInv'
<1>1. /\ policy' = policy /\ used' = used /\ op' = op /\ queued' = queued /\ granted' = granted
      /\ holdCount' = holdCount /\ holdID' = holdID /\ holding' = holding /\ shown' = shown
      /\ wpc[w] = "waiting"
      /\ seen' = [seen EXCEPT ![w] = matchingHold(w)]
      /\ wpc' = [wpc EXCEPT ![w] = IF matchingHold(w) = None THEN "sync" ELSE "adopt"]
  BY DEF Match, Goes, accounts
<1>2. Fields /\ Sound(w)
  BY InvParts, WaiterSound
<1>3. matchingHold(w) \in used \cup {None} /\ matchingHold(w) \in HoldIDs \cup {None}
  BY MatchUsed
<1>4. InPolicy' = InPolicy
  BY <1>1 DEF InPolicy
<1>5. Accounts'
  BY <1>1, Steady
<1>6. Fields'
  BY <1>1, <1>2, <1>3, <1>4 DEF Fields, Places, Looping
<1>7. \A x \in Waiters \ {w} : Spares(x)
  BY <1>1, <1>2 DEF Fields, Spares
<1>8. /\ wpc'[w] = IF matchingHold(w) = None THEN "sync" ELSE "adopt"
      /\ seen'[w] = matchingHold(w)
  BY <1>1, <1>2 DEF Fields
<1>9. Sound(w)'
  BY <1>1, <1>2, <1>8 DEF Sound, Looping
<1> QED BY <1>5, <1>6, <1>7, <1>9, OneWaiter

LEMMA AdoptStep ==
  ASSUME Setting, HoldsInv, NEW w \in Waiters, Adopt(w)
  PROVE  HoldsInv'
<1>1. /\ policy' = policy /\ used' = used /\ op' = op /\ queued' = queued /\ granted' = granted
      /\ seen' = seen /\ wpc[w] = "adopt" /\ adoptHold(w, seen[w])
      /\ wpc' = [wpc EXCEPT ![w] = "parked"]
  BY DEF Adopt, Goes
<1>2. Fields /\ Sound(w)
  BY InvParts, WaiterSound
<1>3. seen[w] \in used
  BY <1>1, <1>2 DEF Fields, Sound
<1>4. InPolicy' = InPolicy
  BY <1>1 DEF InPolicy
<1>5. /\ Accounts'
      /\ holding' \in [Waiters -> BOOLEAN] /\ shown' \in [Waiters -> BOOLEAN]
      /\ shown'[w] => holding'[w]
      /\ \A x \in Waiters \ {w} :
           holdID'[x] = holdID[x] /\ holding'[x] = holding[x] /\ shown'[x] = shown[x]
  BY <1>1, <1>3, AdoptFacts
<1>6. Fields'
  BY <1>1, <1>2, <1>4, <1>5 DEF Fields, Places, Looping
<1>7. \A x \in Waiters \ {w} : Spares(x)
  BY <1>1, <1>2, <1>5 DEF Fields, Spares
<1>8. wpc'[w] = "parked"
  BY <1>1, <1>2 DEF Fields
<1>9. Sound(w)'
  BY <1>1, <1>2, <1>5, <1>8 DEF Sound, Looping
<1> QED BY <1>5, <1>6, <1>7, <1>9, OneWaiter

LEMMA SyncStep ==
  ASSUME Setting, HoldsInv, NEW w \in Waiters, syncUnhold(w)
  PROVE  HoldsInv'
<1>1. /\ policy' = policy /\ used' = used /\ op' = op /\ queued' = queued /\ granted' = granted
      /\ seen' = seen /\ wpc[w] = "sync"
      /\ wpc' = [wpc EXCEPT ![w] = "waiting"] \/ wpc' = [wpc EXCEPT ![w] = "parked"]
      /\ IF matchingHold(w) # None THEN adoptHold(w, matchingHold(w)) ELSE dropHold(w)
  BY DEF syncUnhold, Goes
<1>2. Fields /\ Sound(w)
  BY InvParts, WaiterSound
<1>4. InPolicy' = InPolicy
  BY <1>1 DEF InPolicy
<1>5. /\ Accounts'
      /\ holding' \in [Waiters -> BOOLEAN] /\ shown' \in [Waiters -> BOOLEAN]
      /\ shown'[w] => holding'[w]
      /\ \A x \in Waiters \ {w} :
           holdID'[x] = holdID[x] /\ holding'[x] = holding[x] /\ shown'[x] = shown[x]
  <2>1. CASE matchingHold(w) # None
    BY <1>1, <2>1, MatchUsed, AdoptFacts
  <2>2. CASE matchingHold(w) = None
    BY <1>1, <2>2, DropFacts
  <2> QED BY <2>1, <2>2
<1>6. Fields'
  BY <1>1, <1>2, <1>4, <1>5 DEF Fields, Places, Looping
<1>7. \A x \in Waiters \ {w} : Spares(x)
  BY <1>1, <1>2, <1>5 DEF Fields, Spares
<1>8. wpc'[w] = "waiting" \/ wpc'[w] = "parked"
  BY <1>1, <1>2 DEF Fields
<1>9. Sound(w)'
  BY <1>1, <1>2, <1>5, <1>8 DEF Sound, Looping
<1> QED BY <1>5, <1>6, <1>7, <1>9, OneWaiter

\* A departure: out of the count and off the row.
LEMMA DepartStep ==
  ASSUME Setting, HoldsInv, NEW w \in Waiters, TakeGrant(w) \/ removeWaiter(w)
  PROVE  HoldsInv'
<1>1. /\ policy' = policy /\ used' = used /\ op' = op /\ queued' = queued /\ granted' = granted
      /\ seen' = seen /\ dropHold(w) /\ wpc' = [wpc EXCEPT ![w] = "done"]
      /\ wpc[w] = "leaving" \/ (wpc[w] = "parked" /\ w \in granted)
  BY DEF TakeGrant, removeWaiter, Goes
<1>2. Fields /\ Sound(w)
  BY InvParts, WaiterSound
<1>4. InPolicy' = InPolicy
  BY <1>1 DEF InPolicy
<1>5. /\ Accounts' /\ holdID'[w] = None
      /\ holding' \in [Waiters -> BOOLEAN] /\ shown' \in [Waiters -> BOOLEAN]
      /\ ~holding'[w] /\ (shown'[w] => holding'[w])
      /\ \A x \in Waiters \ {w} :
           holdID'[x] = holdID[x] /\ holding'[x] = holding[x] /\ shown'[x] = shown[x]
  BY <1>1, DropFacts
<1>6. Fields'
  BY <1>1, <1>2, <1>4, <1>5 DEF Fields, Places, Looping
<1>7. \A x \in Waiters \ {w} : Spares(x)
  BY <1>1, <1>2, <1>5 DEF Fields, Spares
<1>8. wpc'[w] = "done" /\ w \notin queued
  BY <1>1, <1>2 DEF Fields, Sound, Looping
<1>9. Sound(w)'
  BY <1>1, <1>2, <1>5, <1>8 DEF Sound
<1> QED BY <1>5, <1>6, <1>7, <1>9, OneWaiter

LEMMA EnqueueStep ==
  ASSUME Setting, HoldsInv, NEW w \in Waiters, Enqueue(w)
  PROVE  HoldsInv'
<1>1. /\ policy' = policy /\ used' = used /\ op' = op /\ granted' = granted /\ seen' = seen
      /\ holding' = holding /\ shown' = shown /\ wpc[w] = "new"
  BY DEF Enqueue
<1>2. Fields /\ Sound(w)
  BY InvParts, WaiterSound
<1>3. InPolicy' = InPolicy
  BY <1>1 DEF InPolicy
<1>4. CASE UNCHANGED <<holdCount, holdID>> /\
           \/ Goes(w, "refused") /\ queued' = queued
           \/ Goes(w, "waiting") /\ queued' = queued \union {w}
  <2>1. Accounts'
    BY <1>1, <1>4, Steady
  <2>2. Fields'
    BY <1>1, <1>2, <1>3, <1>4 DEF Fields, Goes, Places, Looping
  <2>3. \A x \in Waiters \ {w} : Spares(x)
    BY <1>1, <1>2, <1>4 DEF Fields, Goes, Spares
  <2>4. Sound(w)'
    BY <1>1, <1>2, <1>4 DEF Fields, Goes, Sound, Looping
  <2> QED BY <2>1, <2>2, <2>3, <2>4, OneWaiter
<1>5. CASE /\ matchingHold(w) # None /\ moveHoldCountLocked(w, matchingHold(w))
           /\ Goes(w, "waiting") /\ queued' = queued \union {w}
  <2>1. Accounts' /\ \A x \in Waiters \ {w} : holdID'[x] = holdID[x]
    BY <1>1, <1>5, MatchUsed, MoveAccounts
  <2>2. Fields'
    BY <1>1, <1>2, <1>3, <1>5 DEF Fields, Goes, Places, Looping
  <2>3. \A x \in Waiters \ {w} : Spares(x)
    BY <1>1, <1>2, <1>5, <2>1 DEF Fields, Goes, Spares
  <2>4. Sound(w)'
    BY <1>1, <1>2, <1>5 DEF Fields, Goes, Sound, Looping
  <2> QED BY <2>1, <2>2, <2>3, <2>4, OneWaiter
<1> QED BY <1>4, <1>5 DEF Enqueue

LEMMA WakeStep ==
  ASSUME HoldsInv, NEW w \in Waiters, Wake(w) \/ Cancel(w) \/ Grant(w)
  PROVE  HoldsInv'
<1>1. /\ policy' = policy /\ used' = used /\ op' = op /\ seen' = seen
      /\ holdCount' = holdCount /\ holdID' = holdID /\ holding' = holding /\ shown' = shown
      /\ \/ /\ wpc[w] = "parked" /\ wpc' = [wpc EXCEPT ![w] = "waiting"]
            /\ queued' = queued /\ granted' = granted
         \/ /\ wpc[w] = "parked" /\ wpc' = [wpc EXCEPT ![w] = "leaving"]
            /\ queued' = queued \ {w} /\ granted' = granted
         \/ /\ wpc' = wpc /\ w \in queued
            /\ queued' = queued \ {w} /\ granted' = granted \union {w}
  BY DEF Wake, Cancel, Grant, Goes, accounts
<1>2. Fields /\ Sound(w)
  BY InvParts, WaiterSound
<1>3. InPolicy' = InPolicy
  BY <1>1 DEF InPolicy
<1>4. Accounts'
  BY <1>1, Steady
<1>5. Fields'
  BY <1>1, <1>2, <1>3 DEF Fields, Places, Looping
<1>6. \A x \in Waiters \ {w} : Spares(x)
  BY <1>1, <1>2 DEF Fields, Spares
<1>7. Sound(w)'
  BY <1>1, <1>2 DEF Fields, Sound, Looping
<1> QED BY <1>4, <1>5, <1>6, <1>7, OneWaiter

LEMMA QuietStep ==
  ASSUME HoldsInv, SeedDone \/ (\E id \in HoldIDs : Expire(id)) \/ UNCHANGED vars
  PROVE  HoldsInv'
<1>1. /\ policy' = policy /\ used' = used /\ wpc' = wpc /\ seen' = seen /\ queued' = queued
      /\ granted' = granted /\ holdCount' = holdCount /\ holdID' = holdID
      /\ holding' = holding /\ shown' = shown /\ (op' = op \/ op' = Idle)
  BY DEF SeedDone, Expire, vars, accounts
<1>2. Typed' /\ Fresh' /\ Placed' /\ Told'
  <2>1. InPolicy' = InPolicy
    BY <1>1 DEF InPolicy
  <2>2. Typed'
    BY <1>1 DEF HoldsInv, Typed, Idle, Stages
  <2> QED BY <1>1, <2>1, <2>2 DEF HoldsInv, Fresh, Placed, Told
<1>3. Accounts'
  BY <1>1, Steady
<1> QED BY <1>2, <1>3 DEF HoldsInv, Accounts

\* The invariant of the holds (hold.go).
THEOREM HoldsInvariant == ASSUME Setting PROVE Spec => []HoldsInv
<1>1. Init => HoldsInv
  BY HoldsInit
<1>2. HoldsInv /\ [Next]_vars => HoldsInv'
  <2> SUFFICES ASSUME HoldsInv, [Next]_vars PROVE HoldsInv'
    OBVIOUS
  <2> QED
    BY AddStep, ReplaceStep, RemoveStep, PruneStep, SeedStep, FireStep, MatchStep, AdoptStep,
       SyncStep, DepartStep, EnqueueStep, WakeStep, QuietStep DEF Next
<1> QED BY <1>1, <1>2, PTL DEF Spec

\* A commit keeps holds of the old policy, apart from one that overlaps none of them.
LEMMA CommitDisjoint ==
  ASSUME HoldsInv, MatchedOnce, NEW places, NEW h \in Holds, NEW next,
         policy' = next, expired' = expired,
         \/ next = Kept(places)
         \/ next = Append(Kept(places), h) /\ ~Overlaps(h, Kept(places))
  PROVE  MatchedOnce'
<1> DEFINE s == Kept(places)
<1>1. policy \in Seq(Holds)
  BY DEF HoldsInv, Typed
<1>2. /\ s \in Seq(Holds)
      /\ \A j \in DOMAIN s : \E k \in DOMAIN policy : k \in places /\ s[j] = policy[k]
  BY <1>1, KeptSound
<1>3. \/ next = s
      \/ next = Append(s, h) /\ ~Overlaps(h, s)
  OBVIOUS
<1> HIDE DEF s
<1>4. ASSUME NEW w \in Waiters, NEW i \in DOMAIN s, NEW j \in DOMAIN s,
             matches(s[i], w), matches(s[j], w)
      PROVE  s[i].id = s[j].id
  BY <1>2, <1>4 DEF MatchedOnce
<1>7. SUFFICES ASSUME NEW w \in Waiters, NEW i \in DOMAIN next, NEW j \in DOMAIN next,
                      matches(next[i], w), matches(next[j], w)
               PROVE  next[i].id = next[j].id
  BY DEF MatchedOnce, matches, active
<1>8. CASE next = s
  BY <1>4, <1>7, <1>8
<1>9. CASE next = Append(s, h) /\ ~Overlaps(h, s)
  <2>1. /\ \A k \in 1 .. Len(s) : next[k] = s[k]
        /\ next[Len(s) + 1] = h
        /\ DOMAIN next = 1 .. Len(s) + 1 /\ DOMAIN s = 1 .. Len(s) /\ Len(s) \in Nat
    BY <1>2, <1>9
  <2>2. \A k \in DOMAIN next : next[k] = h \/ (k \in DOMAIN s /\ next[k] = s[k])
    BY <2>1
  <2>3. ASSUME NEW k \in DOMAIN s, matches(s[k], w), matches(h, w) PROVE FALSE
    BY <1>9, <2>3 DEF Overlaps, matches
  <2> QED BY <1>4, <1>7, <2>2, <2>3
<1> QED BY <1>3, <1>8, <1>9

LEMMA OverlapsKept ==
  ASSUME HoldsInv, NEW h, ~Overlaps(h, policy), NEW places
  PROVE  ~Overlaps(h, Kept(places))
<1>1. policy \in Seq(Holds)
  BY DEF HoldsInv, Typed
<1>2. \A j \in DOMAIN Kept(places) :
        \E k \in DOMAIN policy : k \in places /\ Kept(places)[j] = policy[k]
  BY <1>1, KeptSound
<1> QED BY <1>2, Zenon DEF Overlaps

\* No request is parked by two holds, through edits that interleave with expiries
\* (hold.go: HoldsOverlap, AddHold, ReplaceHold, RemoveHold).
THEOREM NobodyMatchesTwice == ASSUME Setting PROVE Spec => []MatchedOnce
<1>1. Init => MatchedOnce
  BY DEF Init, MatchedOnce
<1>2. HoldsInv /\ MatchedOnce /\ [Next]_vars => MatchedOnce'
  <2> SUFFICES ASSUME HoldsInv, MatchedOnce, [Next]_vars PROVE MatchedOnce'
    OBVIOUS
  <2>1. ASSUME NEW h \in Holds, AddHold(h) PROVE MatchedOnce'
    <3> DEFINE kept == {i \in DOMAIN policy : active(policy[i])}
    <3>1. policy' = Append(Kept(kept), h) /\ expired' = expired /\ ~Overlaps(h, policy)
      BY <2>1 DEF AddHold, commitHolds, list
    <3>2. ~Overlaps(h, Kept(kept))
      BY <3>1, OverlapsKept
    <3> HIDE DEF kept
    <3> QED BY <3>1, <3>2, CommitDisjoint
  <2>2. ASSUME NEW h \in Holds, ReplaceHold(h) PROVE MatchedOnce'
    <3> DEFINE kept == {i \in DOMAIN policy : policy[i].id # h.id /\ active(policy[i])}
    <3>1. policy' = Append(Kept(kept), h) /\ expired' = expired /\ ~Overlaps(h, Kept(kept))
      BY <2>2 DEF ReplaceHold, commitHolds, holdsWithoutID
    <3> HIDE DEF kept
    <3> QED BY <3>1, CommitDisjoint
  <2>3. ASSUME NEW id \in HoldIDs, RemoveHold(id) PROVE MatchedOnce'
    <3> DEFINE kept == {i \in DOMAIN policy : policy[i].id # id /\ active(policy[i])}
    <3>1. policy' = Kept(kept) /\ expired' = expired
      BY <2>3 DEF RemoveHold, commitHolds, holdsWithoutID
    <3>2. PICK k \in DOMAIN policy : policy[k].id = id
      BY <2>3 DEF RemoveHold
    <3>3. policy[k] \in Holds
      BY <3>2 DEF HoldsInv, Typed
    <3> HIDE DEF kept
    <3> QED BY <3>1, <3>3, CommitDisjoint
  <2>4. ASSUME NEW id \in HoldIDs, Expire(id) PROVE MatchedOnce'
    <3>1. policy' = policy /\ expired \subseteq expired'
      BY <2>4 DEF Expire
    <3> QED BY <3>1 DEF MatchedOnce, matches, active
  <2>5. ASSUME policy' = policy, expired' = expired PROVE MatchedOnce'
    BY <2>5 DEF MatchedOnce, matches, active
  <2>6. CASE UNCHANGED vars
    BY <2>5, <2>6 DEF vars
  <2>7. CASE pruneHoldCounts \/ SeedDone
    BY <2>5, <2>7 DEF pruneHoldCounts, SeedDone
  <2>8. ASSUME NEW f, fireSeededHold(f) PROVE MatchedOnce'
    BY <2>5, <2>8 DEF fireSeededHold
  <2>9. ASSUME NEW w \in Waiters,
               \/ seedQueuedHolds(w) \/ Enqueue(w) \/ Match(w) \/ Adopt(w) \/ syncUnhold(w)
               \/ Wake(w) \/ Grant(w) \/ TakeGrant(w) \/ Cancel(w) \/ removeWaiter(w)
        PROVE  MatchedOnce'
    <3>1. policy' = policy /\ expired' = expired
      BY <2>9, Zenon DEF seedQueuedHolds, Enqueue, Match, Adopt, syncUnhold, Wake, Grant,
        TakeGrant, Cancel, removeWaiter
    <3> QED BY <2>5, <3>1
  <2> QED BY <2>1, <2>2, <2>3, <2>4, <2>6, <2>7, <2>8, <2>9, Zenon DEF Next
<1> QED BY <1>1, <1>2, HoldsInvariant, PTL DEF Spec

\* The queue count of a hold, which its cap is compared with, is the number of requests
\* attributed to it, no request departs counted or shown as paused, and none is parked
\* by two holds (hold.go: seedQueuedHolds, fireSeededHold, dropHold; scheduler_admission.go: acquire).
THEOREM HoldsAreAttributed == ASSUME Setting PROVE Spec => []HoldsAttributed
<1>1. HoldsInv => CountsExact /\ RowsTold
  <2> SUFFICES ASSUME HoldsInv PROVE CountsExact /\ RowsTold
    OBVIOUS
  <2>1. CountsExact
    BY DEF HoldsInv, Counted, InPolicy, Holders, CountsExact
  <2>2. RowsTold
    BY DEF HoldsInv, Placed, Told, Typed, RowsTold
  <2> QED BY <2>1, <2>2
<1> QED BY <1>1, HoldsInvariant, NobodyMatchesTwice, PTL DEF HoldsAttributed
=============================================================================
