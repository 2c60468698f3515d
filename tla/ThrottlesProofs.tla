--------------------------- MODULE ThrottlesProofs ---------------------------
(***************************************************************************)
(* Proofs about Throttles for every set of providers, requests and edits:  *)
(* when no repeat of a superseded write fails, overlapping writers never   *)
(* leave an older policy behind a generation recorded as durable, nothing  *)
(* stale lands after a flush, and every policy in force can be restored.   *)
(* (That a failing repeat breaks the first is the violation TLC finds in   *)
(* MCThrottles.)                                                           *)
(***************************************************************************)
EXTENDS Throttles, TLAPS

Limits == [conc : Nat, count : Nat, window : Nat, anti : BOOLEAN, ramp : Nat]
Writers == Loops \cup {"flush"}

\* What restoreThrottlePolicies reads back as it was.
Storable(l) ==
  \/ l = NoLimit
  \/ Active(l) /\ validateLimit(l) /\ (l.count = 0 => l.window = 0)

AllStorable(snap) == \A p \in Providers : Storable(snap[p])

\* What the handlers parsed: counts and windows are numbers, and a header's rate
\* comes with an accepted window.
EditsParsed ==
  /\ Windows \subseteq Nat
  /\ \A b \in Posts : /\ "conc" \in b.has => b.conc \in Nat
                      /\ "count" \in b.has => b.count \in Nat
                      /\ "window" \in b.has => b.window \in Nat
                      /\ "anti" \in b.has => b.anti \in BOOLEAN
                      /\ "ramp" \in b.has => b.ramp \in Nat
  /\ \A h \in Patches : /\ "conc" \in h.has => h.conc \in Nat
                        /\ "rate" \in h.has => /\ h.count \in Nat /\ h.window \in Nat
                                               /\ h.count > 0 => h.window \in Windows

Places == {"idle", "mark", "lock", "top", "write", "check", "wait", "quiet", "retry",
           "stopped", "join", "flushed", "failed"}
Snaps == [Providers -> Limits]
Goroutines == [pc : Places, gen : Nat, snap : Snaps, rewrite : BOOLEAN, err : BOOLEAN]

Typed ==
  /\ policy \in Snaps /\ doc \in Snaps
  /\ gen \in Nat /\ saved \in Nat /\ saved <= gen
  /\ procs \in [Procs -> Goroutines]
  /\ sealed \in BOOLEAN

Kept ==
  /\ AllStorable(policy) /\ AllStorable(doc)
  /\ \A x \in Procs : AllStorable(procs[x].snap)

\* A write is of its generation's policy, or an edit is on its way to a new one.
SnapsCurrent ==
  \A x \in Writers :
    /\ procs[x].gen <= gen
    /\ procs[x].pc \in {"write", "check"} /\ procs[x].gen = gen =>
         procs[x].snap = policy \/ Marking

\* x will write the policy in force before it is done.
Owes(x) ==
  \/ procs[x].pc = "top" /\ procs[x].rewrite
  \/ procs[x].pc = "write" /\ (procs[x].rewrite \/ procs[x].gen # gen)
  \/ procs[x].pc = "check" /\ procs[x].gen # gen

\* A generation that is durable, or about to be recorded so, is in the document, or
\* a writer still owes it.
SavedIsStored ==
  \/ Marking \/ doc = policy
  \/ \E x \in Writers : Owes(x)
  \/ /\ gen # saved
     /\ \A x \in Writers : ~(procs[x].pc = "check" /\ ~procs[x].err /\ procs[x].gen = gen)

FlushAlone == Persisting("flush") => \A x \in Loops : ~Persisting(x)

\* After the flush that sealed the policy in force, no writer finds anything to do.
SealKept ==
  /\ sealed => ~Marking
  /\ procs["flush"].pc = "flushed" /\ sealed =>
       /\ gen = saved
       /\ \A x \in Loops : Persisting(x) => procs[x].pc = "top" /\ ~procs[x].rewrite

ThrottlesInv == Typed /\ Kept /\ SnapsCurrent /\ SavedIsStored /\ FlushAlone /\ SealKept

---------------------------------------------------------------------------
(* Limits.                                                                 *)

\* A limit that can be stored reads back as it was.
LEMMA StorableRestored ==
  ASSUME NEW l \in Limits, Storable(l)
  PROVE  /\ persistedToThrottle(l) = l
         /\ (IF Active(persistedToThrottle(l)) THEN persistedToThrottle(l) ELSE NoLimit) = l
<1>1. NoLimit \in Limits /\ NoLimit.count = 0 /\ NoLimit.conc = 0 /\ NoLimit.window = 0
      /\ NoLimit.ramp = 0 /\ ~Active(NoLimit) /\ validateLimit(NoLimit)
  BY DEF NoLimit, Limits, Active, validateLimit
<1>2. validateLimit(l) /\ (l.count = 0 => l.window = 0)
  BY <1>1 DEF Storable
<1>3. [l EXCEPT !.window = IF l.count > 0 THEN @ ELSE 0] = l
  <2>1. (IF l.count > 0 THEN l.window ELSE 0) = l.window
    BY <1>2 DEF Limits
  <2>2. QED
    BY <2>1 DEF Limits
<1>4. persistedToThrottle(l) = l
  BY <1>2, <1>3 DEF persistedToThrottle, validateLimit
<1>5. QED
  BY <1>1, <1>4 DEF Storable

\* What UpdateThrottle leaves of a valid limit can be stored.
LEMMA UpdateStorable ==
  ASSUME NEW p, NEW limit \in Limits, validateLimit(limit)
  PROVE  UpdateThrottle(p, limit) \in Limits /\ Storable(UpdateThrottle(p, limit))
<1> DEFINE l == normalized(limit)
<1>1. l \in Limits /\ validateLimit(l) /\ (l.count = 0 => l.window = 0)
  BY DEF normalized, Limits, validateLimit
<1>2. NoLimit \in Limits /\ Storable(NoLimit)
  BY DEF NoLimit, Limits, Storable
<1>3. UpdateThrottle(p, limit) = NoLimit \/ (Active(l) /\ UpdateThrottle(p, limit) = l)
  BY DEF UpdateThrottle
<1> HIDE DEF l
<1>4. QED
  BY <1>1, <1>2, <1>3 DEF Storable

\* A post merged over a valid limit is valid.
LEMMA PostValid ==
  ASSUME EditsParsed, NEW cur \in Limits, Storable(cur), NEW b \in Posts
  PROVE  HandleThrottle(cur, b) \in Limits /\ validateLimit(HandleThrottle(cur, b))
<1>1. NoLimit \in Limits /\ validateLimit(NoLimit)
  BY DEF NoLimit, Limits, validateLimit
<1>2. validateLimit(cur)
  BY <1>1 DEF Storable
<1> DEFINE rate == PostedRate(cur, b)
           next == [conc |-> IF "conc" \in b.has THEN b.conc ELSE cur.conc,
                    count |-> PostedRate(cur, b).count,
                    window |-> PostedRate(cur, b).window,
                    anti |-> IF "anti" \in b.has THEN b.anti ELSE cur.anti,
                    ramp |-> IF "ramp" \in b.has THEN b.ramp ELSE cur.ramp]
<1>3. rate.count \in Nat /\ rate.window \in Nat
  BY DEF PostedRate, EditsParsed, Limits
<1>4. next \in Limits
  BY <1>3 DEF EditsParsed, Limits
<1>5. \/ HandleThrottle(cur, b) = NoLimit \/ HandleThrottle(cur, b) = cur
      \/ validateLimit(next) /\ HandleThrottle(cur, b) = next
  BY DEF HandleThrottle
<1> HIDE DEF next
<1>6. QED
  BY <1>1, <1>2, <1>4, <1>5

\* So is a header's patch.
LEMMA PatchValid ==
  ASSUME EditsParsed, NEW cur \in Limits, Storable(cur), NEW h \in Patches
  PROVE  /\ applyThrottleHeaders(cur, h) \in Limits
         /\ validateLimit(applyThrottleHeaders(cur, h))
<1> DEFINE n == applyThrottleHeaders(cur, h)
<1>1. validateLimit(cur)
  BY DEF Storable, NoLimit, validateLimit
<1>2. /\ n \in Limits /\ n.ramp = cur.ramp
      /\ n.count = IF "rate" \in h.has THEN h.count ELSE cur.count
      /\ n.window = IF "rate" \in h.has THEN h.window ELSE cur.window
  BY DEF applyThrottleHeaders, EditsParsed, Limits
<1> HIDE DEF n
<1>3. validateLimit(n)
  BY <1>1, <1>2 DEF validateLimit, EditsParsed
<1>4. QED
  BY <1>2, <1>3 DEF n

---------------------------------------------------------------------------
(* Steps.                                                                  *)

\* The edits are parsed, the goroutines are distinct, and no repeat of a superseded
\* write fails.
Setting ==
  /\ EditsParsed /\ ~RewriteFails
  /\ {"writer", "flush"} \cap (Operators \cup Headers) = {}

\* Nothing but a goroutine's program counter changes.
LEMMA PcMoves ==
  ASSUME Typed, NEW x \in Procs, NEW pc \in Places, Goes(x, pc)
  PROVE  /\ procs' \in [Procs -> Goroutines]
         /\ procs'[x].pc = pc
         /\ \A y \in Procs : /\ procs'[y].gen = procs[y].gen /\ procs'[y].snap = procs[y].snap
                             /\ procs'[y].rewrite = procs[y].rewrite
                             /\ procs'[y].err = procs[y].err
                             /\ y # x => procs'[y].pc = procs[y].pc
BY DEF Goes, Typed, Goroutines

\* An edit changes the policy and has yet to mark it.
LEMMA EditStep ==
  ASSUME Setting, ThrottlesInv, NEW x \in Operators \cup Headers, NEW p \in Providers,
         NEW limit \in Limits, validateLimit(limit),
         procs[x].pc = "idle", Changes(p, limit), Goes(x, "mark"),
         UNCHANGED <<gen, saved, doc>>
  PROVE  ThrottlesInv'
<1> USE DEF ThrottlesInv
<1>0. x \in Procs /\ x # "flush" /\ Writers \subseteq Procs /\ "flush" \in Procs
      /\ Loops \subseteq Procs
  BY DEF Setting, Procs, Loops, Writers
<1>1. /\ procs' \in [Procs -> Goroutines]
      /\ procs'[x].pc = "mark"
      /\ \A y \in Procs : /\ procs'[y].gen = procs[y].gen /\ procs'[y].snap = procs[y].snap
                          /\ y # x => procs'[y].pc = procs[y].pc
  <2>1. "mark" \in Places
    BY DEF Places
  <2>2. QED
    BY <1>0, <2>1, PcMoves, Zenon
<1>2. /\ policy' = [policy EXCEPT ![p] = UpdateThrottle(p, limit)]
      /\ sealed' = FALSE
  BY DEF Changes
<1>3. UpdateThrottle(p, limit) \in Limits /\ Storable(UpdateThrottle(p, limit))
  BY UpdateStorable
<1>4. policy' \in Snaps /\ AllStorable(policy')
  <2>1. policy \in [Providers -> Limits]
    BY DEF Typed, Snaps
  <2>2. \A q \in Providers : policy'[q] = IF q = p THEN UpdateThrottle(p, limit) ELSE policy[q]
    BY <1>2, <2>1
  <2>3. policy' \in Snaps
    BY <1>2, <1>3, <2>1 DEF Snaps
  <2>4. \A q \in Providers : Storable(policy[q])
    BY DEF Kept, AllStorable
  <2>5. \A q \in Providers : Storable(policy'[q])
    BY <1>3, <2>2, <2>4
  <2>6. QED
    BY <2>3, <2>5 DEF AllStorable
<1>5. Typed'
  BY <1>1, <1>2, <1>4 DEF Typed
<1>6. Kept'
  BY <1>1, <1>4 DEF Kept, AllStorable
<1>7. Marking'
  BY <1>0, <1>1 DEF Marking
<1>8. SnapsCurrent' /\ SavedIsStored'
  BY <1>0, <1>1, <1>7 DEF SnapsCurrent, SavedIsStored
<1>9. FlushAlone'
  BY <1>0, <1>1 DEF FlushAlone, Persisting
<1>10. SealKept'
  BY <1>2 DEF SealKept
<1>11. QED
  BY <1>5, <1>6, <1>8, <1>9, <1>10

\* The edit is marked: a new generation, which no write can be of.
LEMMA MarkStep ==
  ASSUME Setting, ThrottlesInv, NEW x \in Operators \cup Headers,
         procs[x].pc = "mark", gen' = gen + 1,
         UNCHANGED <<policy, saved, doc, sealed>>,
         procs' \in [Procs -> Goroutines],
         \A y \in Procs : /\ procs'[y].gen = procs[y].gen /\ procs'[y].snap = procs[y].snap
                          /\ procs'[y].pc \in {procs[y].pc, "lock", "idle", "wait"}
  PROVE  ThrottlesInv'
<1> USE DEF ThrottlesInv
<1>0. x \in Procs /\ Writers \subseteq Procs /\ "flush" \in Procs /\ Loops \subseteq Procs
  BY DEF Procs, Loops, Writers
<1>1. Typed'
  BY DEF Typed
<1>2. Kept'
  BY DEF Kept, AllStorable
<1>3. \A y \in Writers : procs'[y].gen <= gen'  /\ procs'[y].gen # gen'
  BY <1>0 DEF SnapsCurrent, Typed, Goroutines
<1>4. SnapsCurrent'
  BY <1>3 DEF SnapsCurrent
<1>5. SavedIsStored'
  BY <1>3 DEF SavedIsStored, Typed
<1>6. FlushAlone'
  BY <1>0 DEF FlushAlone, Persisting
<1>7. ~sealed
  BY <1>0 DEF SealKept, Marking
<1>8. SealKept'
  BY <1>7 DEF SealKept
<1>9. QED
  BY <1>1, <1>2, <1>4, <1>5, <1>6, <1>8

\* A goroutine that holds no lock moves to where it still holds none.
LEMMA IdleStep ==
  ASSUME Setting, ThrottlesInv, NEW x \in Procs, NEW pc \in Places,
         procs[x].pc \notin {"top", "write", "check", "mark"},
         pc \notin {"top", "write", "check", "mark", "flushed"},
         Goes(x, pc), UNCHANGED <<policy, gen, saved, doc, sealed>>
  PROVE  ThrottlesInv'
<1> USE DEF ThrottlesInv
<1>0. Writers \subseteq Procs /\ "flush" \in Procs /\ Loops \subseteq Procs
  BY DEF Procs, Loops, Writers
<1>1. /\ procs' \in [Procs -> Goroutines]
      /\ procs'[x].pc = pc
      /\ \A y \in Procs : /\ procs'[y].gen = procs[y].gen /\ procs'[y].snap = procs[y].snap
                          /\ procs'[y].rewrite = procs[y].rewrite
                          /\ procs'[y].err = procs[y].err
                          /\ y # x => procs'[y].pc = procs[y].pc
  BY PcMoves
<1>2. Typed' /\ Kept'
  BY <1>1 DEF Typed, Kept, AllStorable
<1>3. Marking' <=> Marking
  BY <1>1 DEF Marking
<1>4. SnapsCurrent'
  BY <1>0, <1>1, <1>3 DEF SnapsCurrent
<1>5. \A y \in Writers : Owes(y) => Owes(y)'
  BY <1>0, <1>1 DEF Owes
<1>6. SavedIsStored'
  BY <1>0, <1>1, <1>3, <1>5 DEF SavedIsStored
<1>7. \A y \in Procs : Persisting(y)' <=> Persisting(y)
  BY <1>1 DEF Persisting
<1>8. FlushAlone'
  BY <1>0, <1>7 DEF FlushAlone
<1>9. SealKept'
  BY <1>0, <1>1, <1>3, <1>7 DEF SealKept, Persisting
<1>10. QED
  BY <1>2, <1>4, <1>6, <1>8, <1>9

\* The shared or the exclusive side of persistMu is taken.
LEMMA LockStep ==
  ASSUME Setting, ThrottlesInv, NEW x \in Writers, LockFor(x)
  PROVE  ThrottlesInv'
<1> USE DEF ThrottlesInv
<1>0. Writers \subseteq Procs /\ "flush" \in Procs /\ Loops \subseteq Procs
      /\ "flush" \notin Loops /\ x \in Procs
  BY DEF Procs, Loops, Writers, Setting
<1>1. /\ procs' \in [Procs -> Goroutines]
      /\ procs'[x].pc = "top" /\ ~procs'[x].rewrite
      /\ \A y \in Procs : /\ procs'[y].gen = procs[y].gen /\ procs'[y].snap = procs[y].snap
                          /\ procs'[y].err = procs[y].err
                          /\ y # x => procs'[y] = procs[y]
  BY <1>0 DEF LockFor, Typed, Goroutines, Places
<1>2. /\ UNCHANGED <<policy, gen, saved, doc, sealed>> /\ procs[x].pc = "lock"
      /\ ~Persisting("flush")
      /\ x = "flush" => \A y \in Loops : ~Persisting(y)
  BY DEF LockFor
<1>3. Typed' /\ Kept'
  BY <1>1, <1>2 DEF Typed, Kept, AllStorable
<1>4. Marking' <=> Marking
  BY <1>1, <1>2 DEF Marking
<1>5. SnapsCurrent'
  BY <1>0, <1>1, <1>2, <1>4 DEF SnapsCurrent
<1>6. \A y \in Writers : Owes(y) => Owes(y)'
  BY <1>0, <1>1, <1>2 DEF Owes
<1>7. SavedIsStored'
  BY <1>0, <1>1, <1>2, <1>4, <1>6 DEF SavedIsStored
<1>8. FlushAlone'
  <2>1. CASE x = "flush"
    BY <1>0, <1>1, <1>2, <2>1 DEF FlushAlone, Persisting
  <2>2. CASE x # "flush"
    BY <1>0, <1>1, <1>2, <2>2 DEF FlushAlone, Persisting
  <2>3. QED
    BY <2>1, <2>2
<1>9. SealKept'
  BY <1>0, <1>1, <1>2, <1>4 DEF SealKept, Persisting
<1>10. QED
  BY <1>3, <1>5, <1>7, <1>8, <1>9

\* A goroutine that owes nothing leaves the lock.
LEMMA ReturnStep ==
  ASSUME Setting, ThrottlesInv, NEW x \in Writers, NEW pc \in Places,
         pc \notin {"top", "write", "check", "mark"},
         Persisting(x), ~Owes(x), Goes(x, pc),
         UNCHANGED <<policy, gen, doc>>,
         saved' \in Nat, saved' <= gen, sealed' \in BOOLEAN, sealed' => ~Marking,
         (sealed' /\ ~sealed) => x = "flush",
         saved' # saved =>
           saved' = gen /\ procs[x].pc = "check" /\ ~procs[x].err /\ procs[x].gen = gen,
         pc = "flushed" => x = "flush" /\ saved' = gen
  PROVE  ThrottlesInv'
<1> USE DEF ThrottlesInv
<1>0. Writers \subseteq Procs /\ "flush" \in Procs /\ Loops \subseteq Procs
      /\ "flush" \notin Loops /\ x \in Procs /\ Writers = Loops \cup {"flush"}
  BY DEF Procs, Loops, Writers, Setting
<1>1. /\ procs' \in [Procs -> Goroutines]
      /\ procs'[x].pc = pc
      /\ \A y \in Procs : /\ procs'[y].gen = procs[y].gen /\ procs'[y].snap = procs[y].snap
                          /\ procs'[y].rewrite = procs[y].rewrite
                          /\ procs'[y].err = procs[y].err
                          /\ y # x => procs'[y].pc = procs[y].pc
  BY <1>0, PcMoves
<1>2. Typed' /\ Kept'
  BY <1>1 DEF Typed, Kept, AllStorable
<1>3. Marking' <=> Marking
  BY <1>0, <1>1 DEF Marking, Persisting
<1>4. SnapsCurrent'
  BY <1>0, <1>1, <1>3 DEF SnapsCurrent
<1>5. \A y \in Writers : Owes(y) => Owes(y)'
  BY <1>0, <1>1 DEF Owes
<1>6. SavedIsStored'
  BY <1>0, <1>1, <1>3, <1>5 DEF SavedIsStored
<1>7. \A y \in Procs : Persisting(y)' => Persisting(y) /\ y # x
  BY <1>0, <1>1 DEF Persisting
<1>8. FlushAlone'
  BY <1>0, <1>7 DEF FlushAlone
<1>9. SealKept'
  <2>1. CASE pc = "flushed"
    BY <1>0, <1>1, <1>3, <1>7, <2>1 DEF SealKept, FlushAlone
  <2>2. CASE pc # "flushed"
    <3>1. ASSUME procs'["flush"].pc = "flushed", sealed' PROVE sealed /\ procs["flush"].pc = "flushed" /\ x \in Loops
      BY <1>0, <1>1, <2>2, <3>1
    <3>2. ASSUME procs'["flush"].pc = "flushed", sealed' PROVE saved' = gen
      BY <3>1, <3>2 DEF SealKept
    <3>3. QED
      BY <1>0, <1>1, <1>3, <1>7, <3>1, <3>2 DEF SealKept, Persisting
  <2>3. QED
    BY <2>1, <2>2
<1>10. QED
  BY <1>2, <1>4, <1>6, <1>8, <1>9

\* The next generation is read, with the policy in force.
LEMMA TopStep ==
  ASSUME Setting, ThrottlesInv, NEW x \in Writers, Top(x)
  PROVE  ThrottlesInv'
<1> USE DEF ThrottlesInv
<1>0. Writers \subseteq Procs /\ "flush" \in Procs /\ Loops \subseteq Procs
      /\ "flush" \notin Loops /\ x \in Procs /\ Writers = Loops \cup {"flush"}
  BY DEF Procs, Loops, Writers, Setting
<1>1. /\ UNCHANGED <<policy, gen, saved, doc>> /\ procs[x].pc = "top"
      /\ sealed' \in BOOLEAN
      /\ sealed' <=> sealed \/ (x = "flush" /\ ~Marking)
  BY DEF Top, Typed
<1>2. CASE gen = saved /\ ~procs[x].rewrite
  <2>1. Goes(x, Returned(x, FALSE))
    BY <1>2 DEF Top
  <2>2. /\ Returned(x, FALSE) \in {"wait", "flushed", "idle"}
        /\ Returned(x, FALSE) = "flushed" => x = "flush"
    BY DEF Returned
  <2>3. Returned(x, FALSE) \in Places
    BY <2>2 DEF Places
  <2>4. Persisting(x) /\ ~Owes(x)
    BY <1>1, <1>2 DEF Persisting, Owes
  <2>5. /\ saved' \in Nat /\ saved' <= gen /\ saved' = saved
        /\ sealed' => ~Marking
        /\ (sealed' /\ ~sealed) => x = "flush"
        /\ Returned(x, FALSE) = "flushed" => x = "flush" /\ saved' = gen
        /\ Returned(x, FALSE) \notin {"top", "write", "check", "mark"}
    BY <1>1, <1>2, <2>2 DEF Typed, SealKept
  <2>6. QED
    BY <1>1, <2>1, <2>3, <2>4, <2>5, ReturnStep
<1>3. CASE ~(gen = saved /\ ~procs[x].rewrite)
  <2>1. procs' = [procs EXCEPT ![x].pc = "write", ![x].gen = gen, ![x].snap = latestThrottleSnap]
    BY <1>3 DEF Top
  <2>2. latestThrottleSnap = policy
    BY DEF latestThrottleSnap, throttleToPersisted, Typed, Snaps
  <2>3. /\ procs' \in [Procs -> Goroutines]
        /\ procs'[x].pc = "write" /\ procs'[x].gen = gen /\ procs'[x].snap = policy
        /\ procs'[x].rewrite = procs[x].rewrite
        /\ \A y \in Procs : y # x => procs'[y] = procs[y]
    BY <1>0, <2>1, <2>2 DEF Typed, Goroutines, Places
  <2>4. Typed' /\ Kept'
    BY <1>1, <2>3 DEF Typed, Kept, AllStorable
  <2>5. Marking' <=> Marking
    BY <1>0, <1>1, <2>3 DEF Marking
  <2>6. SnapsCurrent'
    BY <1>0, <1>1, <2>3, <2>5 DEF SnapsCurrent, Typed
  <2>7. \A y \in Writers : Owes(y) => Owes(y)'
    BY <1>0, <1>1, <2>3 DEF Owes
  <2>8. SavedIsStored'
    BY <1>0, <1>1, <2>3, <2>5, <2>7 DEF SavedIsStored
  <2>9. \A y \in Procs : Persisting(y)' <=> Persisting(y)
    BY <1>1, <2>3 DEF Persisting
  <2>10. FlushAlone'
    BY <1>0, <2>9 DEF FlushAlone
  <2>11. SealKept'
    <3>1. sealed' => ~Marking'
      BY <1>1, <2>5 DEF SealKept
    <3>2. ~(procs'["flush"].pc = "flushed" /\ sealed')
      BY <1>0, <1>1, <1>3, <2>3 DEF SealKept, Persisting
    <3>3. QED
      BY <3>1, <3>2 DEF SealKept
  <2>12. QED
    BY <2>4, <2>6, <2>8, <2>10, <2>11
<1>4. QED
  BY <1>2, <1>3

\* The caller's bound passes before a first write.
LEMMA ExpiresStep ==
  ASSUME Setting, ThrottlesInv, NEW o \in Operators, Expires(o)
  PROVE  ThrottlesInv'
<1>1. o \in Writers /\ "idle" \in Places
  BY DEF Writers, Loops, Places
<1>2. /\ Goes(o, "idle") /\ UNCHANGED <<policy, gen, saved, doc, sealed>>
      /\ procs[o].pc = "top" /\ ~procs[o].rewrite
  BY DEF Expires, Setting
<1>3. Persisting(o) /\ ~Owes(o)
  BY <1>2 DEF Persisting, Owes
<1>4. /\ saved' \in Nat /\ saved' <= gen /\ sealed' \in BOOLEAN /\ (sealed' => ~Marking)
  BY <1>2 DEF ThrottlesInv, Typed, SealKept
<1>5. QED
  BY <1>1, <1>2, <1>3, <1>4, ReturnStep

\* The write lands or fails.
LEMMA WriteStep ==
  ASSUME Setting, ThrottlesInv, NEW x \in Writers, writeThrottleSnap(x)
  PROVE  ThrottlesInv'
<1> USE DEF ThrottlesInv
<1>0. Writers \subseteq Procs /\ "flush" \in Procs /\ Loops \subseteq Procs
      /\ "flush" \notin Loops /\ x \in Procs /\ Writers = Loops \cup {"flush"}
  BY DEF Procs, Loops, Writers, Setting
<1>1. PICK err \in BOOLEAN :
        /\ err => ~procs[x].rewrite
        /\ doc' = IF err THEN doc ELSE procs[x].snap
        /\ procs' = [procs EXCEPT ![x].pc = "check", ![x].err = err]
  BY DEF writeThrottleSnap, Setting
<1>2. UNCHANGED <<policy, gen, saved, sealed>> /\ procs[x].pc = "write"
  BY DEF writeThrottleSnap
<1>3. /\ procs' \in [Procs -> Goroutines]
      /\ procs'[x].pc = "check" /\ procs'[x].err = err
      /\ \A y \in Procs : /\ procs'[y].gen = procs[y].gen /\ procs'[y].snap = procs[y].snap
                          /\ procs'[y].rewrite = procs[y].rewrite
                          /\ y # x => procs'[y] = procs[y]
  BY <1>0, <1>1 DEF Typed, Goroutines, Places
<1>4. doc' \in Snaps /\ AllStorable(doc')
  BY <1>0, <1>1 DEF Typed, Goroutines, Kept
<1>5. Typed'
  BY <1>2, <1>3, <1>4 DEF Typed
<1>6. Kept'
  BY <1>2, <1>3, <1>4 DEF Kept, AllStorable
<1>7. Marking' <=> Marking
  BY <1>0, <1>2, <1>3 DEF Marking
<1>8. SnapsCurrent'
  BY <1>0, <1>2, <1>3, <1>7 DEF SnapsCurrent
<1>9. SavedIsStored'
  <2>1. CASE err
    <3>1. doc' = doc /\ ~procs[x].rewrite
      BY <1>1, <2>1
    <3>2. \A y \in Writers : Owes(y) => Owes(y)'
      BY <1>0, <1>2, <1>3, <3>1 DEF Owes
    <3>3. QED
      BY <1>0, <1>2, <1>3, <1>7, <2>1, <3>1, <3>2 DEF SavedIsStored
  <2>2. CASE ~err
    <3>1. doc' = procs[x].snap
      BY <1>1, <2>2
    <3>2. CASE procs[x].gen = gen
      BY <1>2, <1>7, <3>1, <3>2 DEF SnapsCurrent, SavedIsStored
    <3>3. CASE procs[x].gen # gen
      <4>1. Owes(x)'
        BY <1>0, <1>2, <1>3, <3>3 DEF Owes
      <4>2. QED
        BY <4>1 DEF SavedIsStored
    <3>4. QED
      BY <3>2, <3>3
  <2>3. QED
    BY <2>1, <2>2
<1>10. \A y \in Procs : Persisting(y)' <=> Persisting(y)
  BY <1>2, <1>3 DEF Persisting
<1>11. FlushAlone'
  BY <1>0, <1>10 DEF FlushAlone
<1>12. SealKept'
  <2>1. ~(procs'["flush"].pc = "flushed" /\ sealed')
    BY <1>0, <1>2, <1>3 DEF SealKept, Persisting
  <2>2. QED
    BY <1>2, <1>7, <2>1 DEF SealKept
<1>13. QED
  BY <1>5, <1>6, <1>8, <1>9, <1>11, <1>12

\* The generation is the one written, or the policy in force is written again.
LEMMA CheckStep ==
  ASSUME Setting, ThrottlesInv, NEW x \in Writers, persistThrottleLatestLocked(x)
  PROVE  ThrottlesInv'
<1> USE DEF ThrottlesInv
<1>0. Writers \subseteq Procs /\ "flush" \in Procs /\ Loops \subseteq Procs
      /\ "flush" \notin Loops /\ x \in Procs /\ Writers = Loops \cup {"flush"}
  BY DEF Procs, Loops, Writers, Setting
<1>1. UNCHANGED <<policy, gen, doc, sealed>> /\ procs[x].pc = "check"
  BY DEF persistThrottleLatestLocked
<1>2. CASE gen = procs[x].gen
  <2> DEFINE pc == Returned(x, procs[x].err)
  <2>1. /\ saved' = IF procs[x].err THEN saved ELSE gen
        /\ Goes(x, pc)
    BY <1>2 DEF persistThrottleLatestLocked
  <2>2. /\ pc \in {"wait", "retry", "flushed", "failed", "idle"}
        /\ pc = "flushed" => x = "flush" /\ ~procs[x].err
    BY DEF Returned
  <2> HIDE DEF pc
  <2>3. pc \in Places
    BY <2>2 DEF Places
  <2>4. Persisting(x) /\ ~Owes(x)
    BY <1>1, <1>2 DEF Persisting, Owes
  <2>5. /\ saved' \in Nat /\ saved' <= gen /\ sealed' \in BOOLEAN
        /\ sealed' => ~Marking
        /\ sealed' => sealed
        /\ pc = "flushed" => x = "flush" /\ saved' = gen
        /\ pc \notin {"top", "write", "check", "mark"}
        /\ saved' # saved =>
             saved' = gen /\ procs[x].pc = "check" /\ ~procs[x].err /\ procs[x].gen = gen
    BY <1>1, <1>2, <2>1, <2>2 DEF Typed, SealKept
  <2>6. QED
    BY <1>1, <2>1, <2>3, <2>4, <2>5, ReturnStep
<1>3. CASE gen # procs[x].gen
  <2>1. procs' = [procs EXCEPT ![x].pc = "top", ![x].rewrite = TRUE] /\ saved' = saved
    BY <1>3 DEF persistThrottleLatestLocked
  <2>2. /\ procs' \in [Procs -> Goroutines]
        /\ procs'[x].pc = "top" /\ procs'[x].rewrite
        /\ \A y \in Procs : /\ procs'[y].gen = procs[y].gen /\ procs'[y].snap = procs[y].snap
                            /\ y # x => procs'[y] = procs[y]
    BY <1>0, <2>1 DEF Typed, Goroutines, Places
  <2>3. Typed' /\ Kept'
    BY <1>1, <2>1, <2>2 DEF Typed, Kept, AllStorable
  <2>4. Marking' <=> Marking
    BY <1>0, <1>1, <2>2 DEF Marking
  <2>5. SnapsCurrent'
    BY <1>0, <1>1, <2>2, <2>4 DEF SnapsCurrent
  <2>6. Owes(x)'
    BY <2>2 DEF Owes
  <2>7. SavedIsStored'
    BY <2>6 DEF SavedIsStored
  <2>8. \A y \in Procs : Persisting(y)' <=> Persisting(y)
    BY <1>1, <2>2 DEF Persisting
  <2>9. FlushAlone'
    BY <1>0, <2>8 DEF FlushAlone
  <2>10. SealKept'
    <3>1. ~(procs'["flush"].pc = "flushed" /\ sealed')
      BY <1>0, <1>1, <2>2 DEF SealKept, Persisting
    <3>2. QED
      BY <1>1, <2>4, <3>1 DEF SealKept
  <2>11. QED
    BY <2>3, <2>5, <2>7, <2>9, <2>10
<1>4. QED
  BY <1>2, <1>3

\* A goroutine that has not started, of the zero generation.
LEMMA IdleProcs ==
  ASSUME Setting
  PROVE  /\ NoLimit \in Limits /\ Storable(NoLimit)
         /\ At("idle") \in Goroutines /\ At("idle").pc = "idle" /\ At("idle").gen = 0
         /\ \A p \in Providers : Storable(At("idle").snap[p])
<1>1. NoLimit \in Limits /\ Storable(NoLimit)
  BY DEF NoLimit, Limits, Storable
<1>2. At("idle") \in Goroutines /\ At("idle").pc = "idle" /\ At("idle").gen = 0
      /\ At("idle").snap = [p \in Providers |-> NoLimit]
  BY <1>1 DEF At, Goroutines, Places, Snaps
<1>3. QED
  BY <1>1, <1>2

\* With every goroutine idle and the document in force, the invariant holds.
LEMMA FreshHolds ==
  ASSUME Setting, policy \in Snaps, doc = policy, AllStorable(policy),
         gen = 0, saved = 0, sealed = FALSE, procs = [p \in Procs |-> At("idle")]
  PROVE  ThrottlesInv
<1>1. procs \in [Procs -> Goroutines]
      /\ \A x \in Procs : procs[x].pc = "idle" /\ procs[x].gen = 0 /\ AllStorable(procs[x].snap)
  BY IdleProcs DEF AllStorable
<1>2. Writers \subseteq Procs /\ "flush" \in Procs
  BY DEF Writers, Procs
<1>3. Typed /\ Kept
  <2>1. sealed \in BOOLEAN
    OBVIOUS
  <2>2. Typed
    BY <1>1, <2>1 DEF Typed
  <2>3. Kept
    BY <1>1 DEF Kept
  <2>4. QED
    BY <2>2, <2>3
<1>4. SnapsCurrent /\ SavedIsStored /\ FlushAlone /\ SealKept
  BY <1>1, <1>2 DEF SnapsCurrent, SavedIsStored, FlushAlone, SealKept, Persisting
<1>5. QED
  BY <1>3, <1>4 DEF ThrottlesInv

\* The next process restores exactly what was stored.
LEMMA RestartStep ==
  ASSUME Setting, ThrottlesInv, Restart
  PROVE  ThrottlesInv'
<1>1. /\ gen' = 0 /\ saved' = 0 /\ sealed' = FALSE /\ doc' = doc
      /\ procs' = [p \in Procs |-> At("idle")]
  BY DEF Restart
<1>2. doc \in Snaps /\ AllStorable(doc)
  BY DEF ThrottlesInv, Typed, Kept
<1>3. policy' = doc
  <2>1. \A p \in Providers : doc[p] \in Limits /\ Storable(doc[p])
    BY <1>2 DEF Snaps, AllStorable
  <2>2. \A p \in Providers :
          (IF Active(persistedToThrottle(doc[p])) THEN persistedToThrottle(doc[p]) ELSE NoLimit)
            = doc[p]
    BY <2>1, StorableRestored
  <2>3. policy' = [p \in Providers |-> doc[p]]
    BY <2>2 DEF Restart
  <2>4. QED
    BY <1>2, <2>3 DEF Snaps
<1>4. procs' \in [Procs -> Goroutines]
      /\ \A x \in Procs : procs'[x].pc = "idle" /\ procs'[x].gen = 0 /\ AllStorable(procs'[x].snap)
  BY <1>1, IdleProcs DEF AllStorable
<1>5. Writers \subseteq Procs /\ "flush" \in Procs
  BY DEF Writers, Procs
<1>6. Typed' /\ Kept'
  <2>1. sealed' \in BOOLEAN
    BY <1>1
  <2>2. Typed'
    BY <1>1, <1>2, <1>3, <1>4, <2>1 DEF Typed
  <2>3. Kept'
    BY <1>1, <1>2, <1>3, <1>4 DEF Kept, AllStorable
  <2>4. QED
    BY <2>2, <2>3
<1>7. SnapsCurrent' /\ SavedIsStored' /\ FlushAlone' /\ SealKept'
  BY <1>1, <1>3, <1>4, <1>5 DEF SnapsCurrent, SavedIsStored, FlushAlone, SealKept, Persisting
<1>8. QED
  BY <1>6, <1>7 DEF ThrottlesInv

\* The steps of an operator's post.
LEMMA OperatorStep ==
  ASSUME Setting, ThrottlesInv, NEW o \in Operators,
         \/ \E p \in Providers, b \in Posts : updateThrottle(o, p, b)
         \/ persistThrottleSync(o) \/ Expires(o)
  PROVE  ThrottlesInv'
<1>1. CASE \E p \in Providers, b \in Posts : updateThrottle(o, p, b)
  <2>1. PICK p \in Providers, b \in Posts : updateThrottle(o, p, b)
    BY <1>1
  <2>2. policy[p] \in Limits /\ Storable(policy[p])
    BY DEF ThrottlesInv, Typed, Snaps, Kept, AllStorable
  <2>3. HandleThrottle(policy[p], b) \in Limits /\ validateLimit(HandleThrottle(policy[p], b))
    BY <2>2, PostValid DEF Setting
  <2>4. /\ procs[o].pc = "idle" /\ Changes(p, HandleThrottle(policy[p], b)) /\ Goes(o, "mark")
        /\ UNCHANGED <<gen, saved, doc>>
    BY <2>1 DEF updateThrottle
  <2>5. QED
    BY <2>3, <2>4, EditStep, Zenon
<1>2. CASE persistThrottleSync(o)
  <2>1. /\ procs[o].pc = "mark" /\ gen' = gen + 1 /\ Goes(o, "lock")
        /\ UNCHANGED <<policy, saved, doc, sealed>>
    BY <1>2 DEF persistThrottleSync
  <2>2. o \in Procs /\ "lock" \in Places
    BY DEF Procs, Loops, Places
  <2>3. /\ procs' \in [Procs -> Goroutines]
        /\ \A y \in Procs : /\ procs'[y].gen = procs[y].gen /\ procs'[y].snap = procs[y].snap
                            /\ procs'[y].pc \in {procs[y].pc, "lock", "idle", "wait"}
    BY <2>1, <2>2, PcMoves DEF ThrottlesInv
  <2>4. QED
    BY <2>1, <2>3, MarkStep
<1>3. QED
  BY <1>1, <1>2, ExpiresStep

\* The steps of a request that carries a cap.
LEMMA HeaderStep ==
  ASSUME Setting, ThrottlesInv, NEW r \in Headers,
         \/ \E p \in Providers, h \in Patches : updateThrottleFromHeaders(r, p, h)
         \/ markThrottleDirty(r)
  PROVE  ThrottlesInv'
<1>1. CASE \E p \in Providers, h \in Patches : updateThrottleFromHeaders(r, p, h)
  <2>1. PICK p \in Providers, h \in Patches : updateThrottleFromHeaders(r, p, h)
    BY <1>1
  <2>2. policy[p] \in Limits /\ Storable(policy[p])
    BY DEF ThrottlesInv, Typed, Snaps, Kept, AllStorable
  <2>3. /\ applyThrottleHeaders(policy[p], h) \in Limits
        /\ validateLimit(applyThrottleHeaders(policy[p], h))
    BY <2>2, PatchValid DEF Setting
  <2>4. /\ procs[r].pc = "idle" /\ Changes(p, applyThrottleHeaders(policy[p], h))
        /\ Goes(r, "mark") /\ UNCHANGED <<gen, saved, doc>>
    BY <2>1 DEF updateThrottleFromHeaders
  <2>5. QED
    BY <2>3, <2>4, EditStep, Zenon
<1>2. CASE markThrottleDirty(r)
  <2>1. /\ procs[r].pc = "mark" /\ gen' = gen + 1 /\ UNCHANGED <<policy, saved, doc, sealed>>
        /\ \E pc \in {procs["writer"].pc, "wait"} :
             procs' = [procs EXCEPT ![r].pc = "idle", !["writer"].pc = pc]
    <3>1. r # "writer"
      BY DEF Setting
    <3>2. PICK start \in BOOLEAN : procs' = [procs EXCEPT ![r].pc = "idle",
                                      !["writer"].pc = IF start THEN "wait" ELSE @]
      BY <1>2 DEF markThrottleDirty
    <3>3. procs' = [procs EXCEPT ![r].pc = "idle",
                      !["writer"].pc = IF start THEN "wait" ELSE procs["writer"].pc]
      BY <3>1, <3>2
    <3>4. QED
      BY <1>2, <3>3 DEF markThrottleDirty
  <2>2. r \in Procs /\ "writer" \in Procs
    BY DEF Procs, Loops
  <2>3. /\ procs' \in [Procs -> Goroutines]
        /\ \A y \in Procs : /\ procs'[y].gen = procs[y].gen /\ procs'[y].snap = procs[y].snap
                            /\ procs'[y].pc \in {procs[y].pc, "lock", "idle", "wait"}
    <3>1. PICK pc \in {procs["writer"].pc, "wait"} :
             procs' = [procs EXCEPT ![r].pc = "idle", !["writer"].pc = pc]
      BY <2>1
    <3>2. procs \in [Procs -> Goroutines]
      BY DEF ThrottlesInv, Typed
    <3>3. pc \in Places /\ "idle" \in Places
      BY <2>2, <3>2 DEF Goroutines, Places
    <3>4. QED
      BY <2>2, <3>1, <3>2, <3>3 DEF Goroutines
  <2>4. QED
    BY <2>1, <2>3, MarkStep
<1>3. QED
  BY <1>1, <1>2

\* The background writer and the flush, outside the lock.
LEMMA BackgroundStep ==
  ASSUME Setting, ThrottlesInv,
         \/ runThrottlePersister \/ waitThrottleRetry \/ WriterStops
         \/ FlushThrottles \/ Stop \/ CloseThrottlePersist
  PROVE  ThrottlesInv'
<1>1. UNCHANGED <<policy, gen, saved, doc, sealed>>
  BY DEF runThrottlePersister, waitThrottleRetry, WriterStops, FlushThrottles, Stop,
    CloseThrottlePersist
<1>2. "writer" \in Procs /\ "flush" \in Procs
  BY DEF Procs, Loops
<1>3. {"quiet", "lock", "stopped", "join", "failed"} \subseteq Places
  BY DEF Places
<1>4. CASE procs' = procs
  BY <1>1, <1>4 DEF ThrottlesInv, Typed, Kept, SnapsCurrent, SavedIsStored, Owes,
    FlushAlone, SealKept, Persisting, Marking
<1>5. CASE procs' # procs
  <2>1. PICK x \in {"writer", "flush"}, pc \in {"quiet", "lock", "stopped", "join", "failed"} :
          /\ procs[x].pc \notin {"top", "write", "check", "mark"}
          /\ Goes(x, pc)
    <3>1. CASE runThrottlePersister
      BY <1>5, <3>1 DEF runThrottlePersister
    <3>2. CASE waitThrottleRetry
      BY <3>2 DEF waitThrottleRetry
    <3>3. CASE WriterStops
      BY <3>3 DEF WriterStops
    <3>4. CASE FlushThrottles
      BY <3>4 DEF FlushThrottles
    <3>5. CASE Stop
      BY <3>5 DEF Stop
    <3>6. CASE CloseThrottlePersist
      BY <3>6 DEF CloseThrottlePersist
    <3>7. QED
      BY <3>1, <3>2, <3>3, <3>4, <3>5, <3>6
  <2>2. x \in Procs /\ pc \in Places
        /\ pc \notin {"top", "write", "check", "mark", "flushed"}
    BY <1>2, <1>3
  <2>3. QED
    BY <1>1, <2>1, <2>2, IdleStep
<1>6. QED
  BY <1>4, <1>5

\* Every step keeps the invariant.
LEMMA ThrottlesStep ==
  ASSUME Setting, ThrottlesInv, [Next]_vars
  PROVE  ThrottlesInv'
<1>1. CASE UNCHANGED vars
  BY <1>1 DEF vars, ThrottlesInv, Typed, Kept, SnapsCurrent, SavedIsStored, Owes,
    FlushAlone, SealKept, Persisting, Marking
<1>2. CASE \E x \in Writers : PersistStep(x)
  BY <1>2, LockStep, TopStep, WriteStep, CheckStep, Zenon DEF PersistStep
<1>3. CASE Next
  BY <1>2, <1>3, OperatorStep, HeaderStep, BackgroundStep, RestartStep, Zenon DEF Next, Writers
<1>4. QED
  BY <1>1, <1>3

\* The invariant holds in every reachable state.
LEMMA ThrottlesInvariant == ASSUME Setting PROVE Spec => []ThrottlesInv
<1>1. Init => ThrottlesInv
  <2> SUFFICES ASSUME Init PROVE ThrottlesInv
    OBVIOUS
  <2>1. policy \in Snaps /\ doc = policy /\ AllStorable(policy)
    BY IdleProcs DEF Init, Snaps, AllStorable
  <2>2. QED
    BY <2>1, FreshHolds DEF Init
<1>2. ThrottlesInv /\ [Next]_vars => ThrottlesInv'
  BY ThrottlesStep
<1>3. QED
  BY <1>1, <1>2, PTL DEF Spec

\* With no write in flight a generation recorded as durable is in the document, no
\* stale write lands after a flush that answered, and the next process restores every
\* policy in force (persistThrottleLatestLocked, FlushThrottles and
\* restoreThrottlePolicies), whatever edits, failures and restarts interleave.
THEOREM CapsAreDurable == ASSUME Setting PROVE Spec => []ThrottlesDurable
<1>1. ThrottlesInv => ThrottlesDurable
  <2> SUFFICES ASSUME ThrottlesInv PROVE ThrottlesDurable
    OBVIOUS
  <2> USE DEF ThrottlesInv
  <2>1. latestThrottleSnap = policy
    BY DEF latestThrottleSnap, throttleToPersisted, Typed, Snaps
  <2>2. \A x \in Writers : Owes(x) => Persisting(x)
    BY DEF Owes, Persisting
  <2>3. Writers \subseteq Procs /\ Writers = Loops \cup {"flush"}
    BY DEF Writers, Procs
  <2>4. DurableIsCurrent
    BY <2>1, <2>2, <2>3 DEF DurableIsCurrent, Stored, SavedIsStored
  <2>5. FlushIsFinal
    <3> SUFFICES ASSUME procs["flush"].pc = "flushed", sealed PROVE doc = policy
      BY <2>1 DEF FlushIsFinal, Stored
    <3>1. ~Marking /\ gen = saved
      BY DEF SealKept
    <3>2. \A x \in Writers : ~Owes(x)
      BY <2>2, <2>3 DEF SealKept, Owes, Persisting
    <3>3. QED
      BY <3>1, <3>2 DEF SavedIsStored
  <2>6. PolicyStorable
    <3>1. \A p \in Providers : policy[p] \in Limits /\ Storable(policy[p])
      BY DEF Typed, Snaps, Kept, AllStorable
    <3>2. QED
      BY <3>1, StorableRestored DEF PolicyStorable, throttleToPersisted
  <2>7. QED
    BY <2>4, <2>5, <2>6 DEF ThrottlesDurable
<1>2. QED
  BY <1>1, ThrottlesInvariant, PTL
=============================================================================
