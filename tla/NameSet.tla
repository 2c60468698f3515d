------------------------------ MODULE NameSet ------------------------------
(***************************************************************************)
(* nameSet (internal/proxy/pause.go): the names an operator may scope a    *)
(* hold or a debug session to.  Observed names are evictable, the scopes   *)
(* of the operator documents that exist are pinned.  Every operation runs  *)
(* under the set's lock, so each is one step.                              *)
(*                                                                         *)
(* Names are numbers: setPins acquires them in sorted order.               *)
(***************************************************************************)
EXTENDS Naturals, Sequences, FiniteSets, FiniteSetsExt, SequencesExt

CONSTANTS
    Names,          \* a set of numbers
    Families,       \* "pause" and "debug"
    NameSetMax,     \* nameSetMax
    Slack,          \* the 64 entries order may exceed twice the names by
    MaxBumps        \* bound: generations drawn in a behaviour

VARIABLES set       \* the fields of nameSet

vars == <<set>>

Init ==
    set = [names |-> {}, pinned |-> {}, pins |-> [f \in Families |-> {}],
           seq |-> [n \in Names |-> 0], order |-> <<>>, next |-> 0,
           revision |-> 0, sorted |-> {}, sortedRevision |-> 0]

---------------------------------------------------------------------------
bumpLocked(s, n) == [s EXCEPT !.next = @ + 1, !.seq[n] = s.next + 1]

Listed(s, n) == [s EXCEPT !.order = Append(@, [seq |-> s.seq[n], name |-> n])]

Live(s, e) == s.seq[e.name] = e.seq

\* The head advances over stale entries to the first live one; none is left when
\* every name is pinned.
evictLocked(s) ==
    LET live == {i \in DOMAIN s.order : Live(s, s.order[i])}
        i == Min(live)
        victim == s.order[i].name
    IN  IF live = {} THEN [ok |-> FALSE, set |-> [s EXCEPT !.order = <<>>]]
        ELSE [ok |-> TRUE,
              set |-> [s EXCEPT !.order = SubSeq(@, i + 1, Len(@)),
                                !.names = @ \ {victim},
                                !.seq[victim] = 0,
                                !.revision = @ + 1]]

compactLocked(s) ==
    IF Len(s.order) <= 2 * Cardinality(s.names) + Slack THEN s
    ELSE [s EXCEPT !.order =
            SetToSortSeq({[seq |-> s.seq[n], name |-> n] : n \in s.names \ s.pinned},
                         LAMBDA x, y : x.seq < y.seq)]

\* Room for one more name, made by an eviction when the set is full.
Room(s) == IF Cardinality(s.names) < NameSetMax THEN [ok |-> TRUE, set |-> s] ELSE evictLocked(s)

Stored(s, n) == [s EXCEPT !.names = @ \union {n}, !.revision = @ + 1]

observeLocked(s, n) ==
    CASE n \in s.pinned -> s
      [] n \in s.names \ s.pinned -> compactLocked(Listed(bumpLocked(s, n), n))
      [] OTHER -> LET r == Room(s) IN
                  IF r.ok THEN Listed(bumpLocked(Stored(r.set, n), n), n) ELSE r.set

---------------------------------------------------------------------------
\* MutantReleasesSilently: a released name gets no place in the order.
MutantReleasesSilently(s, n) == bumpLocked([s EXCEPT !.pinned = @ \ {n}], n)

\* A name no document scopes any more is observed again, as the newest.
Released(s, n) == Listed(bumpLocked([s EXCEPT !.pinned = @ \ {n}], n), n)

Acquired(s, n) ==
    LET r == IF n \in s.names THEN [ok |-> TRUE, set |-> s] ELSE Room(s) IN
    IF ~r.ok THEN r.set
    ELSE LET t == IF n \in s.names THEN s ELSE Stored(r.set, n)
         IN  [bumpLocked(t, n) EXCEPT !.pinned = @ \union {n}]

Wanted(s) == UNION {s.pins[f] : f \in Families}

\* Releases in map order, here any one order; acquisitions in sorted order.
setPins(f, names, released) ==
    LET s0 == [set EXCEPT !.pins[f] = names]
        s1 == FoldLeft(Released, s0, released)
        want == SetToSortSeq(Wanted(s0) \ s1.pinned, LAMBDA x, y : x < y)
    IN  set' = compactLocked(FoldLeft(Acquired, s1, want))

SetPins ==
    \E f \in Families, names \in SUBSET Names :
        \E released \in SetToSeqs(set.pinned \ Wanted([set EXCEPT !.pins[f] = names])) :
            /\ set.next + Len(released) + Cardinality(names) =< MaxBumps
            /\ setPins(f, names, released)

Add == \E n \in Names : set.next < MaxBumps /\ set' = observeLocked(set, n)

\* list rebuilds its cached view when the revision moved.
List ==
    /\ set.sortedRevision # set.revision
    /\ set' = [set EXCEPT !.sorted = set.names, !.sortedRevision = set.revision]

Next == Add \/ SetPins \/ List

Spec == Init /\ [][Next]_vars

---------------------------------------------------------------------------
\* Operator intent outranks traffic, within the bound: a scope in force is listed
\* unless the whole vocabulary is pinned; a name that is not pinned has exactly one
\* live place in the eviction order and a pinned one none, oldest first; and the
\* cached listing is the set whenever it is served unrebuilt (pause.go: nameSet).
VocabularyKept ==
    LET live == SelectSeq(set.order, LAMBDA e : Live(set, e)) IN
    /\ Cardinality(set.names) <= NameSetMax
    /\ set.pinned \subseteq set.names /\ set.pinned \subseteq Wanted(set)
    /\ Wanted(set) \subseteq set.pinned \/ (set.names = set.pinned /\ Cardinality(set.names) = NameSetMax)
    /\ {live[i].name : i \in DOMAIN live} = set.names \ set.pinned
    /\ \A i, j \in DOMAIN live : i < j => live[i].seq < live[j].seq
    /\ set.sortedRevision = set.revision => set.sorted = set.names
=============================================================================
