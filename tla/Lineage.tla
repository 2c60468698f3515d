------------------------------ MODULE Lineage ------------------------------
(***************************************************************************)
(* Which conversations are main, which are sub, and which cannot be told:  *)
(* the topology the projection keeps and extends with every append, and    *)
(* the view of one explorer request that overlays the declarations of rows *)
(* that are not projected yet, without touching the shared topology        *)
(* (internal/web/conversation_lineage.go).                                 *)
(*                                                                         *)
(* An identity is a conversation within a scope (client and key).  Nodes   *)
(* are numbered in the order they are first observed, the view's extras    *)
(* behind the topology's; a request marks the rows of its rail.            *)
(***************************************************************************)
EXTENDS Naturals, Sequences, FiniteSets, SequencesExt, FiniteSetsExt, Functions

CONSTANTS
    Rows,          \* [scope, conv, parent]: what a row declares
    None,          \* no parent
    MaxBase, MaxView

VARIABLES
    topo,          \* conversationTopology: nodes, and whether appends await resolve
    view,          \* conversationLineage, once prepared
    seen,          \* rows observed by the topology and by the view
    payload        \* what the request was answered, by conversation

vars == <<topo, view, seen, payload>>

Key(row) == [scope |-> row.scope, conv |-> row.conv]
Convs == {row.conv : row \in Rows}
NoView == [on |-> FALSE, extras |-> <<>>, overrides |-> <<>>, mixed |-> {}, rail |-> {},
           dirty |-> FALSE]

Init ==
    /\ topo = [nodes |-> <<>>, dirty |-> FALSE]
    /\ view = NoView
    /\ seen = {} /\ payload = <<>>

IndexOf(nodes, key) == {n \in DOMAIN nodes : nodes[n].key = key}
Node(key, parent) == [key |-> key, parent |-> parent, conflict |-> FALSE, issue |-> "none"]

\* A node with one more declaration.
Declared(node, parent) ==
    IF parent = None \/ node.conflict THEN node
    ELSE IF node.parent = None THEN [node EXCEPT !.parent = parent]
    ELSE [node EXCEPT !.conflict = node.parent # parent]

---------------------------------------------------------------------------
(* The resolver.                                                           *)

\* The index of a declared parent in the same scope, 0 when it was not observed.
ParentIndex(nodes, node) ==
    LET found == IndexOf(nodes, [node.key EXCEPT !.conv = node.parent])
    IN  IF node.parent = None \/ found = {} THEN 0 ELSE Min(found)

\* One step of the walk up the chain of parents.
Climb(nodes, done, issue, w) ==
    LET n == w.node
    IN  CASE w.over -> w
          [] ~w.over /\ n = 0 -> [w EXCEPT !.over = TRUE]
          [] ~w.over /\ n \in done -> [w EXCEPT !.over = TRUE, !.found = issue[n]]
          [] ~w.over /\ n \in w.path -> [w EXCEPT !.over = TRUE, !.found = "cycle"]
          [] OTHER ->
               LET on == [w EXCEPT !.path = @ \union {n}]
               IN  IF nodes[n].conflict
                     THEN [on EXCEPT !.over = TRUE, !.found = "conflicting_parents"]
                   ELSE IF ParentIndex(nodes, nodes[n]) = n
                     THEN [on EXCEPT !.over = TRUE, !.found = "self_parent"]
                   ELSE [on EXCEPT !.node = ParentIndex(nodes, nodes[n])]

\* Every node of a path takes what its end found.
resolveConversationIssues(nodes) ==
    LET starts == [n \in 1..Len(nodes) |-> n]
        From(acc, start) ==
            LET up == FoldLeft(LAMBDA w, i : Climb(nodes, acc.done, acc.issue, w),
                               [node |-> start, path |-> {}, found |-> "none", over |-> FALSE],
                               Append(starts, 0))
            IN  [done |-> acc.done \union up.path,
                 issue |-> [n \in DOMAIN acc.issue |->
                              IF n \in up.path THEN up.found ELSE acc.issue[n]]]
    IN  FoldLeft(From, [done |-> {}, issue |-> [n \in 1..Len(nodes) |-> "none"]], starts).issue

---------------------------------------------------------------------------
(* The projection's topology.                                              *)

\* observe: a node changes the chains when it declares a parent.
observe(row) ==
    /\ ~view.on /\ Cardinality(seen) < MaxBase
    /\ LET at == IndexOf(topo.nodes, Key(row))
           nodes == IF at = {} THEN Append(topo.nodes, Node(Key(row), row.parent))
                    ELSE [topo.nodes EXCEPT ![Min(at)] = Declared(@, row.parent)]
           changed == IF at = {} THEN row.parent # None ELSE nodes # topo.nodes
       IN  topo' = [nodes |-> nodes, dirty |-> topo.dirty \/ changed]
    /\ seen' = seen \union {row}
    /\ UNCHANGED <<view, payload>>

\* The end of an append under the write lock: resolve only what changed.
appendRows ==
    /\ topo.dirty
    /\ LET issue == resolveConversationIssues(topo.nodes)
       IN  topo' = [nodes |-> [n \in DOMAIN topo.nodes |-> [topo.nodes[n] EXCEPT !.issue = issue[n]]],
                    dirty |-> FALSE]
    /\ UNCHANGED <<view, seen, payload>>

---------------------------------------------------------------------------
(* One request's view.                                                     *)

prepare ==
    /\ ~view.on /\ ~topo.dirty
    /\ view' = [NoView EXCEPT !.on = TRUE]
    /\ UNCHANGED <<topo, seen, payload>>

\* declareBase: what the topology holds, overlaid once it is contradicted.
declareBase(n, parent) ==
    LET base == topo.nodes[n]
        held == IF n \in DOMAIN view.overrides THEN view.overrides[n]
                ELSE [parent |-> base.parent, conflict |-> FALSE]
        next == IF held.parent = None THEN [held EXCEPT !.parent = parent]
                ELSE [held EXCEPT !.conflict = TRUE]
    IN  IF parent = None \/ base.conflict \/ held.parent = parent THEN view
        ELSE [view EXCEPT !.overrides = [i \in DOMAIN @ \union {n} |-> IF i = n THEN next ELSE @[i]],
                          !.dirty = TRUE]

declareExtra(n, parent) ==
    LET node == Declared(view.extras[n], parent)
    IN  [view EXCEPT !.extras[n] = node, !.dirty = @ \/ node # view.extras[n]]

\* MutantExtraIsClean: a new identity never makes the view resolve again.
MutantExtraIsClean(row) ==
    [view EXCEPT !.extras = Append(@, Node(Key(row), row.parent)),
                 !.mixed = @ \union {c \in {row.conv} :
                     \E i \in DOMAIN topo.nodes : topo.nodes[i].key.conv = c}]

\* addExtra: another identity under a public id of the topology mixes its group.
addExtra(row) ==
    [view EXCEPT !.extras = Append(@, Node(Key(row), row.parent)),
                 !.dirty = @ \/ row.parent # None,
                 !.mixed = @ \union {c \in {row.conv} :
                     \E i \in DOMAIN topo.nodes : topo.nodes[i].key.conv = c}]

Marked(v, row, inRail) == [v EXCEPT !.rail = IF inRail THEN @ \union {Key(row)} ELSE @]

\* A row of the ring, of the pending registry, or of the projection itself.
observeIDs(row, inRail) ==
    /\ view.on /\ payload = <<>> /\ (row \in seen \/ Cardinality(seen) < MaxBase + MaxView)
    /\ LET base == IndexOf(topo.nodes, Key(row))
           extra == IndexOf(view.extras, Key(row))
       IN  view' = Marked(CASE base # {} -> declareBase(Min(base), row.parent)
                            [] base = {} /\ extra # {} -> declareExtra(Min(extra), row.parent)
                            [] OTHER -> addExtra(row), row, inRail)
    /\ seen' = seen \union {row}
    /\ UNCHANGED <<topo, payload>>

\* The topology with the overlay.
Effective ==
    [n \in DOMAIN topo.nodes |->
        IF n \in DOMAIN view.overrides
        THEN [topo.nodes[n] EXCEPT !.parent = view.overrides[n].parent,
                                   !.conflict = @ \/ view.overrides[n].conflict]
        ELSE topo.nodes[n]] \o view.extras

\* solve: only when a declaration changed the topology; otherwise the issues the
\* projection resolved answer.
solve == IF view.dirty THEN resolveConversationIssues(Effective) ELSE <<>>

issueAt(n, issues) ==
    IF issues # <<>> THEN issues[n]
    ELSE IF n \in DOMAIN topo.nodes THEN topo.nodes[n].issue ELSE "none"

groupMixed(c) ==
    \/ c \in view.mixed
    \/ Cardinality({i \in DOMAIN topo.nodes : topo.nodes[i].key.conv = c}) > 1
    \/ Cardinality({i \in DOMAIN view.extras : view.extras[i].key.conv = c}) > 1

groupNode(c) == Min({n \in DOMAIN Effective : Effective[n].key.conv = c})

groupRole(c, issues) ==
    LET n == groupNode(c)
    IN  IF groupMixed(c) \/ issueAt(n, issues) # "none" THEN "unknown"
        ELSE IF Effective[n].parent # None THEN "sub" ELSE "main"

\* info: role, issue, and what is known of the parent.
info(c, issues) ==
    LET n == groupNode(c)
        role == groupRole(c, issues)
        up == ParentIndex(Effective, Effective[n])
    IN  [role |-> role,
         issue |-> IF role # "unknown" THEN "none"
                   ELSE IF groupMixed(c) THEN "multiple_scopes" ELSE issueAt(n, issues),
         parent |-> IF role = "sub" THEN Effective[n].parent ELSE None,
         observed |-> role = "sub" /\ up # 0,
         inScope |-> role = "sub" /\ up # 0 /\ Effective[up].key \in view.rail]

\* The payload is built under the read lease, every lineage read in it.
Payload ==
    /\ view.on /\ view.rail # {} /\ payload = <<>>
    /\ LET issues == solve
       IN  payload' = [c \in {key.conv : key \in view.rail} |-> info(c, issues)]
    /\ UNCHANGED <<topo, view, seen>>

Done == payload # <<>> /\ UNCHANGED vars

Next ==
    \/ \E row \in Rows : observe(row) \/ \E inRail \in BOOLEAN : observeIDs(row, inRail)
    \/ appendRows \/ prepare \/ Payload \/ Done

Spec == Init /\ [][Next]_vars

---------------------------------------------------------------------------
(* What a lineage is, from the rows alone.                                 *)

Parents(key) == {row.parent : row \in {r \in seen : Key(r) = key /\ r.parent # None}}
Known == {Key(row) : row \in seen}
Up(key) == {k \in Known : k.scope = key.scope /\ k.conv \in Parents(key)}
\* The identities above a key, itself included: as many steps as there are identities.
Above(key) ==
    LET Grow(set, i) == set \union UNION {Up(k) : k \in set}
    IN  FoldLeft(Grow, {key}, [i \in 1..Cardinality(Known) |-> i])
Strictly(key) == UNION {Above(k) : k \in Up(key)}

IssueOf(key) ==
    IF \E k \in Above(key) : Cardinality(Parents(k)) > 1 THEN "conflicting_parents"
    ELSE IF \E k \in Above(key) : k.conv \in Parents(k) THEN "self_parent"
    ELSE IF \E k \in Above(key) : k \in Strictly(k) THEN "cycle"
    ELSE "none"

Told(c) ==
    LET keys == {k \in Known : k.conv = c}
        key == CHOOSE k \in keys : TRUE
        mixed == Cardinality(keys) > 1
        role == IF mixed \/ IssueOf(key) # "none" THEN "unknown"
                ELSE IF Parents(key) # {} THEN "sub" ELSE "main"
    IN  [role |-> role,
         issue |-> IF role # "unknown" THEN "none"
                   ELSE IF mixed THEN "multiple_scopes" ELSE IssueOf(key),
         parent |-> IF role = "sub" THEN CHOOSE p \in Parents(key) : TRUE ELSE None,
         observed |-> role = "sub" /\ Up(key) # {},
         inScope |-> role = "sub" /\ Up(key) \intersect view.rail # {}]

\* A request is told of every conversation in its rail what the rows themselves
\* say, however they were split between the shared topology and its own overlay
\* and in whichever order they came.
LineageExact == \A c \in DOMAIN payload : payload[c] = Told(c)
=============================================================================
