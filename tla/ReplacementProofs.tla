-------------------------- MODULE ReplacementProofs --------------------------
(***************************************************************************)
(* Proofs about Replacement for any snapshots and any number of crashes,   *)
(* I/O errors, restores and restarts, as long as recovery misread none of  *)
(* them (lapses): the database that counts is on disk with its frames      *)
(* after every step, what serves is that database, no boot refuses the     *)
(* files it finds, and a restore is all or nothing.                        *)
(*                                                                         *)
(* A crash may come anywhere, so every step must leave one of four disks   *)
(* (Recoverable).  The invariant says, for each place of each program of   *)
(* file operations, which of them is there.                                *)
(***************************************************************************)
EXTENDS Replacement, SequenceTheorems, TLAPS

Files == Databases \cup {None}

Typed ==
  /\ main \in [Slots -> Files] /\ side \in [Slots -> Files]
  /\ marker \in {None, "pending", "committed"}
  /\ truth \in Files /\ config \in Snapshots \cup {None} /\ restoring \in Snapshots \cup {None}
  /\ faults \in Nat

-----------------------------------------------------------------------------
(* The disks a crash may leave.                                            *)

\* The database that counts is live, with its frames.
Whole ==
  /\ truth # None /\ main["live"] = truth /\ side["live"] \in {None, truth}
  /\ truth \in frames => side["live"] = truth

NoPrevious == main["previous"] = None /\ side["previous"] = None

\* No replacement under way; a committed one may have left debris.
Settled ==
  /\ Whole /\ marker \in {None, "committed"}
  /\ marker = None => NoPrevious
Clean == Settled /\ NoPrevious
Serving == Settled /\ side["live"] = truth

\* Before the first boot.
Blank ==
  /\ truth = None /\ marker = None /\ NoPrevious
  /\ main["live"] = None /\ side["live"] = None /\ main["incoming"] = None

\* Marked pending, with the main at the live name: the sidecar is beside it or aside.
Home ==
  /\ truth # None /\ marker = "pending" /\ main["live"] = truth /\ main["previous"] = None
  /\ side["live"] \in {None, truth} /\ side["previous"] \in {None, truth}
  /\ side["live"] = None \/ side["previous"] = None
  /\ truth \in frames => side["live"] = truth \/ side["previous"] = truth
HomeWhole == Home /\ side["previous"] = None

\* Marked pending, with the database aside: what is live belongs to the replacement, and
\* nothing is live while the replacement is still in its slot.
Away ==
  /\ truth # None /\ marker = "pending" /\ main["previous"] = truth
  /\ side["previous"] \in {None, truth} /\ (truth \in frames => side["previous"] = truth)
  /\ side["live"] \in {None, main["live"]}
  /\ main["incoming"] # None => main["live"] = None
Replaced == Away /\ main["incoming"] = None /\ main["live"] # None

Recoverable == Blank \/ Settled \/ Home \/ Away

-----------------------------------------------------------------------------
(* The programs of file operations, by what is left of them.               *)

Then(op, rest) == <<op>> \o rest

Unmark == Then(Op("mark", None, None), <<>>)
SyncUnmark == Then(Op("sync", None, None), Unmark)
MainToQuarantine(rest) == Then(Op("main", "incoming", "quarantine"), rest)
ToQuarantine(rest) == Then(Op("side", "incoming", "quarantine"), MainToQuarantine(rest))
SideBack(rest) == Then(Op("side", "previous", "live"), rest)
MainBack(rest) == Then(Op("main", "previous", "live"), SideBack(rest))
SideAway(rest) == Then(Op("side", "live", "previous"), rest)
MainGone(rest) == Then(Op("main", "live", None), rest)
SideGone(rest) == Then(Op("side", "live", None), MainGone(rest))
DebrisSide == Then(Op("side", "previous", None), <<>>)
Debris == Then(Op("main", "previous", None), DebrisSide)
DropSide == Then(Op("side", "incoming", None), <<>>)
DropMain == Then(Op("main", "incoming", None), <<>>)
DropBoth == Then(Op("side", "incoming", None), DropMain)
KeepAside == Then(Op("main", "incoming", "kept"), <<>>)
PutBack == Then(Op("main", "kept", "incoming"), <<>>)
Discard == Then(Op("main", "kept", None), <<>>)
Commit == Then(Op("mark", "committed", None), <<>>)
Install5 == Then(Op("sync", None, None), <<>>)
Install4 == Then(Op("main", "incoming", "live"), Install5)
Install3 == Then(Op("main", "live", "previous"), Install4)
Install2 == Then(Op("side", "live", "previous"), Install3)
Install1 == Then(Op("mark", "pending", None), Install2)

Ops == [kind : {"main", "side", "mark", "sync"},
        from : Slots \cup {None, "pending", "committed"}, to : Slots \cup {None}]

-----------------------------------------------------------------------------
(* Where the process is, what it has left to do, and what is on disk.      *)

Bringing == [admitted |-> TRUE, previous |-> TRUE]

\* The previous set on its way back, before rest.
Returning(rest) ==
  \/ todo = SideGone(MainBack(rest)) /\ Away /\ main["incoming"] = None
  \/ todo = MainGone(MainBack(rest)) /\ Away /\ main["incoming"] = None /\ side["live"] = None
  \/ todo = MainBack(rest) /\ ((Away /\ main["live"] = None) \/ Home)
  \/ todo = SideBack(rest) /\ Home
  \/ todo = rest /\ HomeWhole

Recovering ==
  \/ todo = <<>> /\ (Clean \/ Blank)
  \/ todo = Debris /\ (Settled \/ Blank)
  \/ todo = DebrisSide /\ (Settled \/ Blank) /\ main["previous"] = None
  \/ todo = SideAway(MainBack(ToQuarantine(Unmark))) /\ Away /\ main["incoming"] # None
  \/ Returning(ToQuarantine(Unmark))
  \/ todo = MainToQuarantine(Unmark) /\ HomeWhole
  \/ Returning(Unmark)

Installing ==
  \/ todo = Install1 /\ Clean /\ main["incoming"] # None
  \/ todo = Install2 /\ HomeWhole /\ main["incoming"] # None
  \/ todo = Install3 /\ Home /\ side["live"] = None /\ main["incoming"] # None
  \/ todo = Install4 /\ Away /\ main["incoming"] # None
  \/ todo \in {Install5, <<>>} /\ Replaced /\ side["live"] = None

RollingBack ==
  \/ todo = <<>> /\ Clean
  \/ todo = Unmark /\ HomeWhole
  \/ Returning(SyncUnmark)

Committing ==
  \/ todo = Commit /\ Replaced /\ side["live"] = main["live"]
  \/ todo = <<>> /\ Serving /\ marker = "committed"

Opening ==
  \/ flags = Bringing /\ Replaced /\ side["live"] = None
  \/ flags = NoAdmission /\ (Clean \/ Blank)

\* Slot and configuration while a restore is under way.
Captured ==
  \/ todo = KeepAside /\ main["incoming"] = slot.incoming /\ main["kept"] = None
  \/ todo \in {DropSide, <<>>} /\ main["incoming"] = None /\ main["kept"] = slot.incoming
Undoing ==
  \/ todo = PutBack /\ main["kept"] # None /\ main["kept"] = slot.incoming
  \/ todo \in {DropBoth, DropMain} /\ slot.incoming = None
  \/ todo = <<>> /\ main["incoming"] = slot.incoming

Restoring == {"capture", "staged", "configure", "discard", "undo"}

SlotKept ==
  /\ pc \in {"commit", "cleanup", "up"} => main["incoming"] = slot.incoming /\ config = slot.config
  /\ pc = "capture" => Captured /\ config = slot.config
  /\ pc \in {"staged", "configure"} =>
       main["incoming"] = restoring /\ main["kept"] = slot.incoming /\ config = slot.config
  /\ pc = "undo" => Undoing /\ config = slot.config
  /\ pc = "discard" => main["incoming"] = restoring /\ config = restoring

TodoOf(at) ==
  CASE at = "capture" -> {KeepAside, DropSide, <<>>}
    [] at = "undo" -> {PutBack, DropBoth, DropMain, <<>>}
    [] at = "discard" -> {Discard, <<>>}
    [] OTHER -> {<<>>}

Point ==
  \/ pc = "down" /\ flags = NoAdmission /\ todo = <<>> /\ Recoverable
  \/ pc = "recover" /\ flags = NoAdmission /\ Recovering
  \/ pc \in {"preflight", "preflighted"} /\ flags = NoAdmission /\ todo \in {DropSide, <<>>}
       /\ Clean /\ main["incoming"] # None
  \/ pc = "reject" /\ flags = NoAdmission /\ Clean
       /\ todo \in {ToQuarantine(<<>>), MainToQuarantine(<<>>), <<>>}
  \/ pc = "install" /\ flags = Bringing /\ Installing
  \/ pc = "rollback" /\ flags = Bringing /\ RollingBack
  \/ pc = "open" /\ todo = <<>> /\ Opening
  \/ pc = "commit" /\ flags = Bringing /\ Committing
  \/ pc = "cleanup" /\ flags = Bringing /\ todo \in {Debris, DebrisSide, <<>>}
       /\ Serving /\ marker = "committed"
  \/ pc = "up" /\ flags = NoAdmission /\ todo = <<>> /\ Serving
  \/ pc \in Restoring /\ flags = NoAdmission /\ todo \in TodoOf(pc) /\ Serving

ReplacementInv ==
  /\ Typed /\ ~mixed /\ Point
  /\ pc \notin Restoring => main["kept"] = None /\ restoring = None
  /\ faults = 0 => SlotKept

-----------------------------------------------------------------------------
(* Programs.                                                               *)

LEMMA ThenFacts ==
  ASSUME NEW op \in Ops, NEW rest \in Seq(Ops)
  PROVE  /\ Then(op, rest) \in Seq(Ops) /\ Then(op, rest) # <<>>
         /\ Head(Then(op, rest)) = op /\ Tail(Then(op, rest)) = rest
<1> DEFINE s == <<op>> \o rest
<1>1. <<op>> \in Seq(Ops) /\ Len(<<op>>) = 1 /\ <<op>>[1] = op
  OBVIOUS
<1>2. /\ s \in Seq(Ops) /\ Len(s) = 1 + Len(rest)
      /\ s[1] = op /\ \A i \in 1 .. Len(rest) : s[1 + i] = rest[i]
  BY <1>1
<1> HIDE DEF s
<1>3. s # <<>> /\ Head(s) = op
  BY <1>2
<1>4. /\ Tail(s) \in Seq(Ops) /\ Len(Tail(s)) = Len(s) - 1
      /\ \A i \in 1 .. Len(s) - 1 : Tail(s)[i] = s[i + 1]
  BY <1>2, <1>3
<1>5. Tail(s) = rest
  <2> DEFINE t == Tail(s)
  <2>1. t \in Seq(Ops) /\ Len(t) = Len(rest) /\ \A i \in 1 .. Len(rest) : t[i] = rest[i]
    BY <1>2, <1>4
  <2> HIDE DEF t
  <2>2. t = rest
    BY <2>1
  <2> QED BY <2>2 DEF t
<1> QED BY <1>2, <1>3, <1>5 DEF Then, s

LEMMA OpType ==
  ASSUME NEW k \in {"main", "side", "mark", "sync"},
         NEW a \in Slots \cup {None, "pending", "committed"}, NEW b \in Slots \cup {None}
  PROVE  Op(k, a, b) \in Ops
BY DEF Op, Ops

LEMMA ThenType ==
  ASSUME NEW k \in {"main", "side", "mark", "sync"},
         NEW a \in Slots \cup {None, "pending", "committed"}, NEW b \in Slots \cup {None},
         NEW rest \in Seq(Ops)
  PROVE  Then(Op(k, a, b), rest) \in Seq(Ops)
BY OpType, ThenFacts

LEMMA ProgramTypes ==
  /\ <<>> \in Seq(Ops)
  /\ {Unmark, SyncUnmark, DebrisSide, Debris, DropSide, DropMain, DropBoth, KeepAside, PutBack,
      Discard, Commit, Install1, Install2, Install3, Install4, Install5} \subseteq Seq(Ops)
  /\ \A rest \in Seq(Ops) :
       {MainToQuarantine(rest), ToQuarantine(rest), SideBack(rest), MainBack(rest),
        SideAway(rest), MainGone(rest), SideGone(rest)} \subseteq Seq(Ops)
<1>1. <<>> \in Seq(Ops)
  OBVIOUS
<1>2. Unmark \in Seq(Ops) /\ DebrisSide \in Seq(Ops) /\ DropSide \in Seq(Ops)
  BY <1>1, ThenType DEF Unmark, DebrisSide, DropSide, Slots
<1>3. DropMain \in Seq(Ops) /\ KeepAside \in Seq(Ops) /\ PutBack \in Seq(Ops)
  BY <1>1, ThenType DEF DropMain, KeepAside, PutBack, Slots
<1>4. Discard \in Seq(Ops) /\ Commit \in Seq(Ops) /\ Install5 \in Seq(Ops)
  BY <1>1, ThenType DEF Discard, Commit, Install5, Slots
<1>5. SyncUnmark \in Seq(Ops) /\ Debris \in Seq(Ops) /\ DropBoth \in Seq(Ops)
  BY <1>2, <1>3, ThenType DEF SyncUnmark, Debris, DropBoth, Slots
<1>6. Install4 \in Seq(Ops)
  BY <1>4, ThenType DEF Install4, Slots
<1>7. Install3 \in Seq(Ops)
  BY <1>6, ThenType DEF Install3, Slots
<1>8. Install2 \in Seq(Ops)
  BY <1>7, ThenType DEF Install2, Slots
<1>9. Install1 \in Seq(Ops)
  BY <1>8, ThenType DEF Install1, Slots
<1>10. ASSUME NEW rest \in Seq(Ops)
       PROVE  {MainToQuarantine(rest), ToQuarantine(rest), SideBack(rest), MainBack(rest),
               SideAway(rest), MainGone(rest), SideGone(rest)} \subseteq Seq(Ops)
  <2>1. MainToQuarantine(rest) \in Seq(Ops) /\ SideBack(rest) \in Seq(Ops)
    BY ThenType DEF MainToQuarantine, SideBack, Slots
  <2>2. SideAway(rest) \in Seq(Ops) /\ MainGone(rest) \in Seq(Ops)
    BY ThenType DEF SideAway, MainGone, Slots
  <2>3. ToQuarantine(rest) \in Seq(Ops) /\ MainBack(rest) \in Seq(Ops) /\ SideGone(rest) \in Seq(Ops)
    BY <2>1, <2>2, ThenType DEF ToQuarantine, MainBack, SideGone, Slots
  <2> QED BY <2>1, <2>2, <2>3
<1> QED BY <1>1, <1>2, <1>3, <1>4, <1>5, <1>6, <1>7, <1>8, <1>9, <1>10

-----------------------------------------------------------------------------
(* What one file operation does.                                           *)

LEMMA MainMoves ==
  ASSUME Typed, NEW a \in Slots, NEW b \in Slots \cup {None}, a # b, Apply(Op("main", a, b))
  PROVE  /\ side' = side /\ marker' = marker /\ main' \in [Slots -> Files]
         /\ \A s \in Slots :
              main'[s] = IF main[a] = None THEN main[s]
                       ELSE IF s = a THEN None ELSE IF s = b THEN main[a] ELSE main[s]
<1>1. side' = side /\ marker' = marker /\ main' = Moved(main, Op("main", a, b))
  BY DEF Apply, Op
<1>2. Op("main", a, b).from = a /\ Op("main", a, b).to = b
  BY DEF Op
<1>3. CASE main[a] = None
  <2>1. main' = main
    BY <1>1, <1>2, <1>3 DEF Moved
  <2> QED BY <1>1, <1>3, <2>1 DEF Typed
<1>4. CASE main[a] # None
  <2>1. main' = [s \in Slots |-> CASE s = a -> None [] s = b -> main[a] [] OTHER -> main[s]]
    BY <1>1, <1>2, <1>4 DEF Moved
  <2>2. ASSUME NEW s \in Slots
        PROVE  /\ main'[s] = IF s = a THEN None ELSE IF s = b THEN main[a] ELSE main[s]
               /\ main'[s] \in Files
    <3>1. main'[s] = CASE s = a -> None [] s = b -> main[a] [] OTHER -> main[s]
      BY <2>1
    <3>2. main[s] \in Files /\ main[a] \in Files /\ None \in Files
      BY DEF Typed, Files
    <3>3. CASE s = a
      BY <3>1, <3>2, <3>3
    <3>4. CASE s # a
      BY <3>1, <3>2, <3>4
    <3> QED BY <3>3, <3>4
  <2>3. main' \in [Slots -> Files]
    BY <2>1, <2>2
  <2> QED BY <1>1, <1>4, <2>2, <2>3
<1> QED BY <1>3, <1>4

LEMMA SideMoves ==
  ASSUME Typed, NEW a \in Slots, NEW b \in Slots \cup {None}, a # b, Apply(Op("side", a, b))
  PROVE  /\ main' = main /\ marker' = marker /\ side' \in [Slots -> Files]
         /\ \A s \in Slots :
              side'[s] = IF side[a] = None THEN side[s]
                       ELSE IF s = a THEN None ELSE IF s = b THEN side[a] ELSE side[s]
<1>1. main' = main /\ marker' = marker /\ side' = Moved(side, Op("side", a, b))
  BY DEF Apply, Op
<1>2. Op("side", a, b).from = a /\ Op("side", a, b).to = b
  BY DEF Op
<1>3. CASE side[a] = None
  <2>1. side' = side
    BY <1>1, <1>2, <1>3 DEF Moved
  <2> QED BY <1>1, <1>3, <2>1 DEF Typed
<1>4. CASE side[a] # None
  <2>1. side' = [s \in Slots |-> CASE s = a -> None [] s = b -> side[a] [] OTHER -> side[s]]
    BY <1>1, <1>2, <1>4 DEF Moved
  <2>2. ASSUME NEW s \in Slots
        PROVE  /\ side'[s] = IF s = a THEN None ELSE IF s = b THEN side[a] ELSE side[s]
               /\ side'[s] \in Files
    <3>1. side'[s] = CASE s = a -> None [] s = b -> side[a] [] OTHER -> side[s]
      BY <2>1
    <3>2. side[s] \in Files /\ side[a] \in Files /\ None \in Files
      BY DEF Typed, Files
    <3>3. CASE s = a
      BY <3>1, <3>2, <3>3
    <3>4. CASE s # a
      BY <3>1, <3>2, <3>4
    <3> QED BY <3>3, <3>4
  <2>3. side' \in [Slots -> Files]
    BY <2>1, <2>2
  <2> QED BY <1>1, <1>4, <2>2, <2>3
<1> QED BY <1>3, <1>4

LEMMA Marks ==
  ASSUME NEW m, Apply(Op("mark", m, None))
  PROVE  main' = main /\ side' = side /\ marker' = m
BY DEF Apply, Op

LEMMA Syncs ==
  ASSUME Apply(Op("sync", None, None))
  PROVE  main' = main /\ side' = side /\ marker' = marker
BY DEF Apply, Op

\* FileOp takes the first operation; only the committed marker moves the truth.
LEMMA FileOpFacts ==
  ASSUME NEW op \in Ops, NEW rest \in Seq(Ops), todo = Then(op, rest), FileOp
  PROVE  /\ todo' = rest /\ Apply(op)
         /\ pc' = pc /\ flags' = flags /\ restoring' = restoring /\ config' = config
         /\ slot' = slot /\ mixed' = mixed /\ faults' = faults
         /\ op # Op("mark", "committed", None) => truth' = truth /\ frames' = frames
         /\ op = Op("mark", "committed", None) =>
              truth' = main["live"] /\ frames' = frames \intersect {main["live"]}
<1>1. Head(todo) = op /\ Tail(todo) = rest
  BY ThenFacts
<1>2. Mark("committed")[1] = Op("mark", "committed", None)
  BY DEF Mark
<1> QED BY <1>1, <1>2 DEF FileOp, bounds

-----------------------------------------------------------------------------
(* The model's programs, operation by operation.                           *)

\* Names the provers do not look into.
Cat(s, t) == s \o t
Programs == Seq(Ops)

LEMMA Regroup ==
  \A u, a, b \in Programs : Cat(u, a) \in Programs /\ Cat(Cat(u, a), b) = Cat(u, Cat(a, b))
BY ConcatProperties, ConcatAssociative DEF Cat, Programs

LEMMA CatEmpty == \A u \in Programs : Cat(u, <<>>) = u /\ Cat(<<>>, u) = u
BY ConcatEmptySeq DEF Cat, Programs

LEMMA RegroupFive ==
  ASSUME NEW u \in Programs, NEW a \in Programs, NEW b \in Programs, NEW c \in Programs,
         NEW d \in Programs
  PROVE  Cat(Cat(Cat(Cat(u, a), b), c), d) = Cat(u, Cat(a, Cat(b, Cat(c, d))))
BY Regroup

LEMMA Singles ==
  ASSUME NEW k \in {"main", "side", "mark", "sync"},
         NEW a \in Slots \cup {None, "pending", "committed"}, NEW b \in Slots \cup {None}
  PROVE  <<Op(k, a, b)>> \in Seq(Ops) /\ <<Op(k, a, b)>> = Then(Op(k, a, b), <<>>)
<1>1. <<Op(k, a, b)>> \in Seq(Ops)
  BY OpType
<1>2. <<Op(k, a, b)>> \o <<>> = <<Op(k, a, b)>>
  BY <1>1, ConcatEmptySeq
<1> QED BY <1>1, <1>2 DEF Then

LEMMA ShortPrograms ==
  /\ Mark("committed") = Commit /\ MoveMain("incoming", "kept") = KeepAside
  /\ RemoveSide("incoming") = DropSide /\ RemoveMain("kept") = Discard
  /\ MoveMain("kept", "incoming") = PutBack
  /\ removeSnapshotDebris = Debris /\ RemovePendingSnapshot = DropBoth
  /\ quarantinePendingSnapshot = ToQuarantine(<<>>)
<1>1. Mark("committed") = Commit /\ MoveMain("incoming", "kept") = KeepAside
  BY Singles DEF Mark, Commit, MoveMain, KeepAside, Slots
<1>2. RemoveSide("incoming") = DropSide /\ RemoveMain("kept") = Discard
  BY Singles DEF RemoveSide, DropSide, RemoveMain, Discard, Slots
<1>3. MoveMain("kept", "incoming") = PutBack
  BY Singles DEF MoveMain, PutBack, Slots
<1>4. RemoveSide("previous") = DebrisSide /\ RemoveMain("incoming") = DropMain
  BY Singles DEF RemoveSide, DebrisSide, RemoveMain, DropMain, Slots
<1>5. MoveMain("incoming", "quarantine") = MainToQuarantine(<<>>)
  BY Singles DEF MoveMain, MainToQuarantine, Slots
<1>6. removeSnapshotDebris = Debris
  BY <1>4 DEF removeSnapshotDebris, RemoveMain, Debris, Then
<1>7. RemovePendingSnapshot = DropBoth
  BY <1>4 DEF RemovePendingSnapshot, RemoveSide, DropBoth, Then
<1>8. quarantinePendingSnapshot = ToQuarantine(<<>>)
  BY <1>5 DEF quarantinePendingSnapshot, MoveSide, ToQuarantine, Then
<1> QED BY <1>1, <1>2, <1>3, <1>6, <1>7, <1>8

LEMMA OpSequences ==
  /\ \A a \in Slots, b \in Slots : MoveMain(a, b) \in Programs /\ MoveSide(a, b) \in Programs
  /\ \A a \in Slots : RemoveMain(a) \in Programs /\ RemoveSide(a) \in Programs
  /\ Mark(None) \in Programs /\ Mark("pending") \in Programs /\ Sync \in Programs
  /\ <<>> \in Programs
<1>1. \A a \in Slots, b \in Slots : MoveMain(a, b) \in Programs /\ MoveSide(a, b) \in Programs
  BY Singles DEF MoveMain, MoveSide, Programs
<1>2. \A a \in Slots : RemoveMain(a) \in Programs /\ RemoveSide(a) \in Programs
  BY Singles DEF RemoveMain, RemoveSide, Programs
<1>3. Mark(None) \in Programs /\ Mark("pending") \in Programs /\ Sync \in Programs
  BY Singles DEF Mark, Sync, Programs
<1>4. <<>> \in Programs
  BY DEF Programs
<1> QED BY <1>1, <1>2, <1>3, <1>4

LEMMA Suffixes ==
  /\ Mark(None) = Unmark /\ Cat(Sync, Unmark) = SyncUnmark /\ Sync = Install5
  /\ Unmark \in Programs /\ ToQuarantine(Unmark) \in Programs /\ SyncUnmark \in Programs
  /\ Cat(MoveSide("incoming", "quarantine"), Cat(MoveMain("incoming", "quarantine"), Unmark))
       = ToQuarantine(Unmark)
  /\ Cat(MoveMain("incoming", "live"), Install5) = Install4
  /\ Cat(MoveMain("live", "previous"), Install4) = Install3
  /\ Cat(MoveSide("live", "previous"), Install3) = Install2
  /\ Cat(Mark("pending"), Install2) = Install1
  /\ \A r \in Programs :
       /\ MainBack(r) \in Programs
       /\ Cat(MoveSide("live", "previous"), r) = SideAway(r)
       /\ Cat(MoveMain("previous", "live"), Cat(MoveSide("previous", "live"), r)) = MainBack(r)
       /\ Cat(MoveSide("previous", "live"), r) = SideBack(r)
       /\ Cat(RemoveSide("live"), Cat(RemoveMain("live"), r)) = SideGone(r)
<1>1. Mark(None) = Unmark /\ Sync = Install5
  BY Singles DEF Mark, Unmark, Sync, Install5
<1>2. Cat(Sync, Unmark) = SyncUnmark
  BY DEF Sync, Cat, SyncUnmark, Then
<1>3. Unmark \in Programs /\ ToQuarantine(Unmark) \in Programs /\ SyncUnmark \in Programs
  BY ProgramTypes DEF Programs
<1>4. Cat(MoveSide("incoming", "quarantine"), Cat(MoveMain("incoming", "quarantine"), Unmark))
       = ToQuarantine(Unmark)
  BY DEF MoveSide, MoveMain, ToQuarantine, MainToQuarantine, Cat, Then
<1>5. /\ Cat(MoveMain("incoming", "live"), Install5) = Install4
      /\ Cat(MoveMain("live", "previous"), Install4) = Install3
      /\ Cat(MoveSide("live", "previous"), Install3) = Install2
      /\ Cat(Mark("pending"), Install2) = Install1
  BY DEF MoveSide, MoveMain, Mark, Install4, Install3, Install2, Install1, Cat, Then
<1>6. \A r \in Programs : MainBack(r) \in Programs
  BY ProgramTypes DEF Programs
<1>7. \A r \in Programs :
       /\ Cat(MoveSide("live", "previous"), r) = SideAway(r)
       /\ Cat(MoveMain("previous", "live"), Cat(MoveSide("previous", "live"), r)) = MainBack(r)
       /\ Cat(MoveSide("previous", "live"), r) = SideBack(r)
       /\ Cat(RemoveSide("live"), Cat(RemoveMain("live"), r)) = SideGone(r)
  BY DEF MoveSide, MoveMain, RemoveSide, RemoveMain, SideAway, MainBack, SideBack, SideGone,
         MainGone, Cat, Then
<1> QED BY <1>1, <1>2, <1>3, <1>4, <1>5, <1>6, <1>7

\* What recovery does under a pending marker.
LEMMA RecoveryPrograms ==
  LET program == restorePendingSnapshot("pending")
  IN  /\ main["previous"] # None /\ main["incoming"] # None =>
           program = SideAway(MainBack(ToQuarantine(Unmark)))
      /\ main["previous"] # None /\ main["incoming"] = None =>
           program = SideGone(MainBack(Unmark))
      /\ main["previous"] = None /\ main["incoming"] # None =>
           program = SideBack(ToQuarantine(Unmark))
      /\ main["previous"] = None /\ main["incoming"] = None => program = SideBack(Unmark)
<1> DEFINE s == RemoveSide("live")  g == RemoveMain("live")
           x == MoveSide("incoming", "quarantine")  y == MoveMain("incoming", "quarantine")
           u == CASE main["previous"] # None /\ main["incoming"] # None -> MoveSide("live", "previous")
                  [] main["previous"] # None /\ ~(main["incoming"] # None) -> Cat(s, g)
                  [] OTHER -> <<>>
           a == IF main["previous"] # None THEN MoveMain("previous", "live") ELSE <<>>
           b == MoveSide("previous", "live")
           c == IF main["incoming"] # None THEN Cat(x, y) ELSE <<>>
<1>1. restorePendingSnapshot("pending") = Cat(Cat(Cat(Cat(u, a), b), c), Mark(None))
  BY DEF restorePendingSnapshot, quarantinePendingSnapshot, None, Cat
<1>2. /\ b \in Programs /\ s \in Programs /\ g \in Programs /\ x \in Programs /\ y \in Programs
      /\ MoveSide("live", "previous") \in Programs /\ MoveMain("previous", "live") \in Programs
  BY OpSequences DEF Slots
<1>3. Cat(s, g) \in Programs /\ Cat(x, y) \in Programs
  BY <1>2, Regroup
<1>4. u \in Programs /\ a \in Programs /\ c \in Programs
  BY <1>2, <1>3, OpSequences
<1>5. restorePendingSnapshot("pending") = Cat(u, Cat(a, Cat(b, Cat(c, Unmark))))
  <2>1. Mark(None) = Unmark /\ Unmark \in Programs
    BY Suffixes
  <2>2. b \in Programs
    BY <1>2
  <2> HIDE DEF u, a, b, c
  <2>3. Cat(Cat(Cat(Cat(u, a), b), c), Unmark) = Cat(u, Cat(a, Cat(b, Cat(c, Unmark))))
    BY <1>4, <2>1, <2>2, RegroupFive
  <2> QED BY <1>1, <2>1, <2>3, Zenon
<1>6. Cat(Cat(x, y), Unmark) = ToQuarantine(Unmark)
  <2>1. Cat(x, Cat(y, Unmark)) = ToQuarantine(Unmark)
    BY Suffixes
  <2> HIDE DEF x, y
  <2> QED BY <1>2, <2>1, Suffixes, Regroup
<1>7. \A r \in Programs : Cat(Cat(s, g), r) = SideGone(r)
  <2>1. \A r \in Programs : Cat(s, Cat(g, r)) = SideGone(r)
    BY Suffixes
  <2> HIDE DEF s, g
  <2> QED BY <1>2, <2>1, Regroup
<1>8. CASE main["previous"] # None /\ main["incoming"] # None
  <2>1. u = MoveSide("live", "previous") /\ a = MoveMain("previous", "live") /\ c = Cat(x, y)
    BY <1>8
  <2>2. Cat(a, Cat(b, Cat(c, Unmark))) = MainBack(ToQuarantine(Unmark))
    BY <1>6, <2>1, Suffixes
  <2> HIDE DEF u, a, b, c
  <2>3. restorePendingSnapshot("pending") = SideAway(MainBack(ToQuarantine(Unmark)))
    BY <1>5, <2>1, <2>2, Suffixes
  <2> QED BY <1>8, <2>3
<1>9. CASE main["previous"] # None /\ main["incoming"] = None
  <2>1. u = Cat(s, g) /\ a = MoveMain("previous", "live") /\ c = <<>>
    BY <1>9
  <2>2. Cat(a, Cat(b, Cat(c, Unmark))) = MainBack(Unmark)
    BY <2>1, Suffixes, CatEmpty
  <2> HIDE DEF u, a, b, c, s, g
  <2>3. restorePendingSnapshot("pending") = SideGone(MainBack(Unmark))
    BY <1>5, <1>7, <2>1, <2>2, Suffixes
  <2> QED BY <1>9, <2>3
<1>10. CASE main["previous"] = None /\ main["incoming"] # None
  <2>1. u = <<>> /\ a = <<>> /\ c = Cat(x, y)
    BY <1>10
  <2>2. Cat(b, Cat(c, Unmark)) = SideBack(ToQuarantine(Unmark))
    BY <1>6, <2>1, Suffixes
  <2>3. SideBack(ToQuarantine(Unmark)) \in Programs
    BY ProgramTypes DEF Programs
  <2> HIDE DEF u, a, b, c
  <2>4. restorePendingSnapshot("pending") = SideBack(ToQuarantine(Unmark))
    BY <1>5, <2>1, <2>2, <2>3, CatEmpty
  <2> QED BY <1>10, <2>4
<1>11. CASE main["previous"] = None /\ main["incoming"] = None
  <2>1. u = <<>> /\ a = <<>> /\ c = <<>>
    BY <1>11
  <2>2. Cat(b, Cat(c, Unmark)) = SideBack(Unmark)
    BY <2>1, Suffixes, CatEmpty
  <2>3. SideBack(Unmark) \in Programs
    BY ProgramTypes DEF Programs
  <2> HIDE DEF u, a, b, c
  <2>4. restorePendingSnapshot("pending") = SideBack(Unmark)
    BY <1>5, <2>1, <2>2, <2>3, CatEmpty
  <2> QED BY <1>11, <2>4
<1> QED BY <1>8, <1>9, <1>10, <1>11

LEMMA InstallProgram ==
  ASSUME main["live"] # None
  PROVE  install = Install1
<1> DEFINE s == MoveSide("live", "previous")  m == MoveMain("live", "previous")
           i == MoveMain("incoming", "live")  p == Mark("pending")
<1>1. p \in Programs /\ s \in Programs /\ m \in Programs /\ i \in Programs /\ Sync \in Programs
  BY OpSequences DEF Slots
<1>2. install = Cat(Cat(Cat(p, Cat(s, m)), i), Sync)
  BY DEF install, Cat
<1>3. Cat(p, Cat(s, Cat(m, Cat(i, Sync)))) = Install1
  BY Suffixes
<1> HIDE DEF p, s, m, i
<1>4. Cat(s, m) \in Programs /\ Cat(i, Sync) \in Programs
  BY <1>1, Regroup
<1>5. Cat(Cat(Cat(p, Cat(s, m)), i), Sync) = Cat(p, Cat(Cat(s, m), Cat(i, Sync)))
  BY <1>1, <1>4, Regroup
<1>6. Cat(Cat(s, m), Cat(i, Sync)) = Cat(s, Cat(m, Cat(i, Sync)))
  BY <1>1, <1>4, Regroup
<1> QED BY <1>2, <1>3, <1>5, <1>6

LEMMA RollbackProgram ==
  ASSUME flags = Bringing
  PROVE  /\ main["incoming"] = None => restorePrevious = SideGone(MainBack(SyncUnmark))
         /\ main["incoming"] # None => restorePrevious = MainBack(SyncUnmark)
<1> DEFINE s == RemoveSide("live")  g == RemoveMain("live")
           u == IF main["incoming"] = None THEN Cat(s, g) ELSE <<>>
           m == MoveMain("previous", "live")  b == MoveSide("previous", "live")
<1>1. /\ s \in Programs /\ g \in Programs /\ m \in Programs /\ b \in Programs
      /\ Sync \in Programs /\ Mark(None) \in Programs
  BY OpSequences DEF Slots
<1>2. restorePrevious = Cat(Cat(Cat(u, Cat(m, b)), Sync), Mark(None))
  BY DEF restorePrevious, Bringing, Cat
<1>3. Cat(s, g) \in Programs /\ Cat(m, b) \in Programs /\ Cat(Sync, Mark(None)) \in Programs
  BY <1>1, Regroup
<1>4. u \in Programs
  BY <1>1, <1>3, OpSequences
<1>5. Cat(m, Cat(b, Cat(Sync, Mark(None)))) = MainBack(SyncUnmark)
  BY Suffixes
<1>6. \A r \in Programs : Cat(s, Cat(g, r)) = SideGone(r)
  BY Suffixes
<1>7. MainBack(SyncUnmark) \in Programs
  BY Suffixes
<1>8. main["incoming"] = None => u = Cat(s, g)
  OBVIOUS
<1>9. main["incoming"] # None => u = <<>>
  OBVIOUS
<1> HIDE DEF u, s, g, m, b
<1>10. restorePrevious = Cat(u, Cat(Cat(m, b), Cat(Sync, Mark(None))))
  BY <1>1, <1>2, <1>3, <1>4, Regroup
<1>11. Cat(Cat(m, b), Cat(Sync, Mark(None))) = MainBack(SyncUnmark)
  BY <1>1, <1>3, <1>5, Regroup
<1>12. ASSUME main["incoming"] = None PROVE restorePrevious = SideGone(MainBack(SyncUnmark))
  <2>1. Cat(Cat(s, g), MainBack(SyncUnmark)) = SideGone(MainBack(SyncUnmark))
    BY <1>1, <1>6, <1>7, Regroup
  <2> QED BY <1>8, <1>10, <1>11, <1>12, <2>1
<1>13. ASSUME main["incoming"] # None PROVE restorePrevious = MainBack(SyncUnmark)
  BY <1>7, <1>9, <1>10, <1>11, <1>13, CatEmpty
<1> QED BY <1>12, <1>13

-----------------------------------------------------------------------------
(* What the operations do to the disks.                                    *)

SameTruth == truth' = truth /\ frames' = frames

\* Operations on the other slots.
SameDisk ==
  /\ SameTruth /\ marker' = marker
  /\ main'["live"] = main["live"] /\ main'["previous"] = main["previous"]
  /\ side'["live"] = side["live"] /\ side'["previous"] = side["previous"]

LEMMA DisksKept ==
  ASSUME SameDisk
  PROVE  /\ (Settled => Settled') /\ (Clean => Clean') /\ (Serving => Serving')
         /\ (Home => Home') /\ (HomeWhole => HomeWhole')
         /\ (main'["incoming"] = main["incoming"] \/ main'["incoming"] = None
               => (Blank => Blank') /\ (Away => Away'))
<1>1. (Settled => Settled') /\ (Clean => Clean') /\ (Serving => Serving')
  BY DEF SameDisk, SameTruth, Settled, Clean, Serving, Whole, NoPrevious
<1>2. (Home => Home') /\ (HomeWhole => HomeWhole')
  BY DEF SameDisk, SameTruth, HomeWhole, Home
<1>3. main'["incoming"] = main["incoming"] \/ main'["incoming"] = None => (Blank => Blank')
  BY DEF SameDisk, SameTruth, Blank, NoPrevious
<1>4. main'["incoming"] = main["incoming"] \/ main'["incoming"] = None => (Away => Away')
  BY DEF SameDisk, SameTruth, Away
<1> QED BY <1>1, <1>2, <1>3, <1>4

LEMMA ElsewhereMain ==
  ASSUME Typed, SameTruth, NEW a \in {"incoming", "kept"},
         NEW b \in {"incoming", "quarantine", "kept", None}, a # b, Apply(Op("main", a, b))
  PROVE  SameDisk /\ main' \in [Slots -> Files] /\ side' = side /\ main'[a] = None
<1>1. a \in Slots /\ b \in Slots \cup {None}
  BY DEF Slots
<1>2. /\ side' = side /\ marker' = marker /\ main' \in [Slots -> Files]
      /\ \A s \in Slots :
           main'[s] = IF main[a] = None THEN main[s]
                      ELSE IF s = a THEN None ELSE IF s = b THEN main[a] ELSE main[s]
  BY <1>1, MainMoves
<1>3. main'["live"] = main["live"] /\ main'["previous"] = main["previous"] /\ main'[a] = None
  BY <1>1, <1>2 DEF Slots, None
<1> QED BY <1>2, <1>3 DEF SameDisk

LEMMA ElsewhereSide ==
  ASSUME Typed, SameTruth, NEW b \in {"quarantine", None}, Apply(Op("side", "incoming", b))
  PROVE  SameDisk /\ main' = main /\ side' \in [Slots -> Files]
<1>1. "incoming" \in Slots /\ b \in Slots \cup {None} /\ "incoming" # b
  BY DEF Slots, None
<1>2. /\ main' = main /\ marker' = marker /\ side' \in [Slots -> Files]
      /\ \A s \in Slots :
           side'[s] = IF side["incoming"] = None THEN side[s]
                      ELSE IF s = "incoming" THEN None
                      ELSE IF s = b THEN side["incoming"] ELSE side[s]
  BY <1>1, SideMoves
<1>3. side'["live"] = side["live"] /\ side'["previous"] = side["previous"]
  BY <1>1, <1>2 DEF Slots, None
<1> QED BY <1>2, <1>3 DEF SameDisk

LEMMA DebrisGoes ==
  ASSUME Typed, SameTruth, Apply(Op("main", "previous", None))
  PROVE  /\ main' \in [Slots -> Files] /\ side' = side /\ marker' = marker
         /\ main'["previous"] = None /\ main'["incoming"] = main["incoming"]
         /\ main'["kept"] = main["kept"]
         /\ (Settled => Settled') /\ (Blank => Blank') /\ (Serving => Serving')
<1>1. /\ "previous" \in Slots /\ None \in Slots \cup {None} /\ "previous" # None
  BY DEF Slots, None
<1>2. /\ side' = side /\ marker' = marker /\ main' \in [Slots -> Files]
      /\ \A s \in Slots :
           main'[s] = IF main["previous"] = None THEN main[s]
                      ELSE IF s = "previous" THEN None
                      ELSE IF s = None THEN main["previous"] ELSE main[s]
  BY <1>1, MainMoves
<1>3. /\ main'["live"] = main["live"] /\ main'["previous"] = None
      /\ main'["incoming"] = main["incoming"] /\ main'["kept"] = main["kept"]
  BY <1>1, <1>2 DEF Slots, None
<1>4. (Settled => Settled') /\ (Serving => Serving')
  BY <1>2, <1>3 DEF SameTruth, Settled, Serving, Whole, NoPrevious
<1>5. Blank => Blank'
  BY <1>2, <1>3 DEF SameTruth, Blank, NoPrevious
<1> QED BY <1>2, <1>3, <1>4, <1>5

LEMMA DebrisSideGoes ==
  ASSUME Typed, SameTruth, Apply(Op("side", "previous", None))
  PROVE  /\ side' \in [Slots -> Files] /\ main' = main /\ marker' = marker
         /\ (Settled => Settled') /\ (Blank => Blank') /\ (Serving => Serving')
         /\ (Settled /\ main["previous"] = None => Clean')
<1>1. /\ "previous" \in Slots /\ None \in Slots \cup {None} /\ "previous" # None
  BY DEF Slots, None
<1>2. /\ main' = main /\ marker' = marker /\ side' \in [Slots -> Files]
      /\ \A s \in Slots :
           side'[s] = IF side["previous"] = None THEN side[s]
                      ELSE IF s = "previous" THEN None
                      ELSE IF s = None THEN side["previous"] ELSE side[s]
  BY <1>1, SideMoves
<1>3. side'["live"] = side["live"] /\ side'["previous"] = None
  BY <1>1, <1>2 DEF Slots, None
<1>4. (Settled => Settled') /\ (Serving => Serving') /\ (Settled /\ main["previous"] = None => Clean')
  BY <1>2, <1>3 DEF SameTruth, Settled, Serving, Clean, Whole, NoPrevious
<1>5. Blank => Blank'
  BY <1>2, <1>3 DEF SameTruth, Blank, NoPrevious
<1> QED BY <1>2, <1>3, <1>4, <1>5

\* Live sidecar removed: it belongs to the replacement.
LEMMA SideIsGone ==
  ASSUME Typed, SameTruth, Away, Apply(Op("side", "live", None))
  PROVE  Away' /\ side'["live"] = None /\ main' = main /\ side' \in [Slots -> Files] /\ marker' = marker
<1>1. "live" \in Slots /\ None \in Slots \cup {None} /\ "live" # None
  BY DEF Slots, None
<1>2. /\ main' = main /\ marker' = marker /\ side' \in [Slots -> Files]
      /\ \A s \in Slots :
           side'[s] = IF side["live"] = None THEN side[s]
                      ELSE IF s = "live" THEN None
                      ELSE IF s = None THEN side["live"] ELSE side[s]
  BY <1>1, SideMoves
<1>3. side'["live"] = None /\ side'["previous"] = side["previous"]
  BY <1>1, <1>2 DEF Slots, None
<1>4. Away'
  BY <1>2, <1>3 DEF SameTruth, Away
<1> QED BY <1>2, <1>3, <1>4

LEMMA MainIsGone ==
  ASSUME Typed, SameTruth, Away, side["live"] = None, Apply(Op("main", "live", None))
  PROVE  Away' /\ main'["live"] = None /\ side' = side /\ main' \in [Slots -> Files] /\ marker' = marker
         /\ main'["incoming"] = main["incoming"] /\ main'["kept"] = main["kept"]
<1>1. "live" \in Slots /\ None \in Slots \cup {None} /\ "live" # None
  BY DEF Slots, None
<1>2. /\ side' = side /\ marker' = marker /\ main' \in [Slots -> Files]
      /\ \A s \in Slots :
           main'[s] = IF main["live"] = None THEN main[s]
                      ELSE IF s = "live" THEN None
                      ELSE IF s = None THEN main["live"] ELSE main[s]
  BY <1>1, MainMoves
<1>3. /\ main'["live"] = None /\ main'["previous"] = main["previous"]
      /\ main'["incoming"] = main["incoming"] /\ main'["kept"] = main["kept"]
  BY <1>1, <1>2 DEF Slots, None
<1>4. Away'
  BY <1>2, <1>3 DEF SameTruth, Away
<1> QED BY <1>2, <1>3, <1>4

\* The previous main comes back before its sidecar.
LEMMA MainComesBack ==
  ASSUME Typed, SameTruth, (Away /\ main["live"] = None) \/ Home,
         Apply(Op("main", "previous", "live"))
  PROVE  Home' /\ side' = side /\ main' \in [Slots -> Files] /\ marker' = marker
         /\ main'["incoming"] = main["incoming"] /\ main'["kept"] = main["kept"]
<1>1. "previous" \in Slots /\ "live" \in Slots \cup {None} /\ "previous" # "live"
  BY DEF Slots, None
<1>2. /\ side' = side /\ marker' = marker /\ main' \in [Slots -> Files]
      /\ \A s \in Slots :
           main'[s] = IF main["previous"] = None THEN main[s]
                      ELSE IF s = "previous" THEN None
                      ELSE IF s = "live" THEN main["previous"] ELSE main[s]
  BY <1>1, MainMoves
<1>3. /\ main'["live"] = IF main["previous"] = None THEN main["live"] ELSE main["previous"]
      /\ main'["previous"] = None
      /\ main'["incoming"] = main["incoming"] /\ main'["kept"] = main["kept"]
  BY <1>1, <1>2 DEF Slots, None
<1>4. Home'
  BY <1>2, <1>3 DEF SameTruth, Away, Home
<1> QED BY <1>2, <1>3, <1>4

LEMMA SideComesBack ==
  ASSUME Typed, SameTruth, Home, Apply(Op("side", "previous", "live"))
  PROVE  HomeWhole' /\ main' = main /\ side' \in [Slots -> Files] /\ marker' = marker
<1>1. "previous" \in Slots /\ "live" \in Slots \cup {None} /\ "previous" # "live"
  BY DEF Slots, None
<1>2. /\ main' = main /\ marker' = marker /\ side' \in [Slots -> Files]
      /\ \A s \in Slots :
           side'[s] = IF side["previous"] = None THEN side[s]
                      ELSE IF s = "previous" THEN None
                      ELSE IF s = "live" THEN side["previous"] ELSE side[s]
  BY <1>1, SideMoves
<1>3. /\ side'["live"] = IF side["previous"] = None THEN side["live"] ELSE side["previous"]
      /\ side'["previous"] = None
  BY <1>1, <1>2 DEF Slots, None
<1>4. HomeWhole'
  BY <1>2, <1>3 DEF SameTruth, Home, HomeWhole
<1> QED BY <1>2, <1>3, <1>4

\* The sidecar goes aside before its main; recovery repeats the step when nothing is live.
LEMMA SideGoesAside ==
  ASSUME Typed, SameTruth, Apply(Op("side", "live", "previous"))
  PROVE  /\ main' = main /\ side' \in [Slots -> Files] /\ marker' = marker
         /\ (Away /\ main["live"] = None => Away')
         /\ (HomeWhole => Home' /\ side'["live"] = None)
<1>1. "live" \in Slots /\ "previous" \in Slots \cup {None} /\ "live" # "previous"
  BY DEF Slots, None
<1>2. /\ main' = main /\ marker' = marker /\ side' \in [Slots -> Files]
      /\ \A s \in Slots :
           side'[s] = IF side["live"] = None THEN side[s]
                      ELSE IF s = "live" THEN None
                      ELSE IF s = "previous" THEN side["live"] ELSE side[s]
  BY <1>1, SideMoves
<1>3. /\ side'["previous"] = IF side["live"] = None THEN side["previous"] ELSE side["live"]
      /\ side'["live"] = None
  BY <1>1, <1>2 DEF Slots, None
<1>4. Away /\ main["live"] = None => Away'
  BY <1>2, <1>3 DEF SameTruth, Away
<1>5. HomeWhole => Home'
  BY <1>2, <1>3 DEF SameTruth, Home, HomeWhole
<1> QED BY <1>2, <1>3, <1>4, <1>5

LEMMA MainGoesAside ==
  ASSUME Typed, SameTruth, Home, side["live"] = None, Apply(Op("main", "live", "previous"))
  PROVE  /\ side' = side /\ main' \in [Slots -> Files] /\ marker' = marker /\ Away'
         /\ main'["incoming"] = main["incoming"] /\ main'["kept"] = main["kept"]
<1>1. "live" \in Slots /\ "previous" \in Slots \cup {None} /\ "live" # "previous"
  BY DEF Slots, None
<1>2. /\ side' = side /\ marker' = marker /\ main' \in [Slots -> Files]
      /\ \A s \in Slots :
           main'[s] = IF main["live"] = None THEN main[s]
                      ELSE IF s = "live" THEN None
                      ELSE IF s = "previous" THEN main["live"] ELSE main[s]
  BY <1>1, MainMoves
<1>3. main["live"] # None
  BY DEF Home
<1>4. /\ main'["live"] = None /\ main'["previous"] = main["live"]
      /\ main'["incoming"] = main["incoming"] /\ main'["kept"] = main["kept"]
  BY <1>1, <1>2, <1>3 DEF Slots, None
<1>5. Away'
  BY <1>2, <1>4 DEF SameTruth, Away, Home
<1> QED BY <1>2, <1>4, <1>5

LEMMA ReplacementComesIn ==
  ASSUME Typed, SameTruth, Away, main["incoming"] # None, Apply(Op("main", "incoming", "live"))
  PROVE  /\ side' = side /\ main' \in [Slots -> Files] /\ marker' = marker
         /\ Replaced' /\ side'["live"] = None /\ main'["kept"] = main["kept"]
<1>1. "incoming" \in Slots /\ "live" \in Slots \cup {None} /\ "incoming" # "live"
  BY DEF Slots, None
<1>2. /\ side' = side /\ marker' = marker /\ main' \in [Slots -> Files]
      /\ \A s \in Slots :
           main'[s] = IF main["incoming"] = None THEN main[s]
                      ELSE IF s = "incoming" THEN None
                      ELSE IF s = "live" THEN main["incoming"] ELSE main[s]
  BY <1>1, MainMoves
<1>3. /\ main'["live"] = main["incoming"] /\ main'["previous"] = main["previous"]
      /\ main'["incoming"] = None /\ main'["kept"] = main["kept"]
  BY <1>1, <1>2 DEF Slots, None
<1>4. side["live"] = None
  BY DEF Away
<1>5. Replaced'
  BY <1>2, <1>3, <1>4 DEF SameTruth, Away, Replaced
<1> QED BY <1>2, <1>3, <1>4, <1>5

LEMMA Unmarked ==
  ASSUME SameTruth, HomeWhole, Apply(Op("mark", None, None))
  PROVE  Clean' /\ main' = main /\ side' = side /\ marker' = None
<1>1. main' = main /\ side' = side /\ marker' = None
  BY Marks
<1>2. Clean'
  BY <1>1 DEF SameTruth, HomeWhole, Home, Clean, Settled, Whole, NoPrevious
<1> QED BY <1>1, <1>2

LEMMA MarkedPending ==
  ASSUME SameTruth, Clean, Apply(Op("mark", "pending", None))
  PROVE  HomeWhole' /\ main' = main /\ side' = side /\ marker' = "pending"
<1>1. main' = main /\ side' = side /\ marker' = "pending"
  BY Marks
<1>2. HomeWhole'
  BY <1>1 DEF SameTruth, HomeWhole, Home, Clean, Settled, Whole, NoPrevious
<1> QED BY <1>1, <1>2

\* The committed marker makes the replacement the database that counts.
LEMMA MarkedCommitted ==
  ASSUME Replaced, side["live"] = main["live"], truth' = main["live"],
         frames' = frames \intersect {main["live"]}, Apply(Op("mark", "committed", None))
  PROVE  Serving' /\ main' = main /\ side' = side /\ marker' = "committed"
<1>1. main' = main /\ side' = side /\ marker' = "committed"
  BY Marks
<1>2. Serving'
  BY <1>1 DEF Replaced, Serving, Settled, Whole, None
<1> QED BY <1>1, <1>2

-----------------------------------------------------------------------------
(* One file operation, place by place.                                     *)

SameProcess ==
  /\ pc' = pc /\ flags' = flags /\ restoring' = restoring /\ config' = config /\ slot' = slot
  /\ mixed' = mixed /\ faults' = faults

\* What a file operation outside a restore leaves alone.
Framed == SameProcess /\ Typed' /\ main'["kept"] = main["kept"]

LEMMA TakesOp ==
  ASSUME NEW k \in {"main", "side", "mark", "sync"},
         NEW a \in Slots \cup {None, "pending", "committed"}, NEW b \in Slots \cup {None},
         NEW rest \in Seq(Ops), todo = Then(Op(k, a, b), rest), FileOp,
         k # "mark" \/ a # "committed"
  PROVE  todo' = rest /\ Apply(Op(k, a, b)) /\ SameTruth /\ SameProcess
<1>1. Op(k, a, b) \in Ops
  BY OpType
<1>2. Op(k, a, b) # Op("mark", "committed", None)
  <2>1. Op(k, a, b).kind = k /\ Op(k, a, b).from = a
    BY DEF Op
  <2>2. Op("mark", "committed", None).kind = "mark" /\ Op("mark", "committed", None).from = "committed"
    BY DEF Op
  <2> QED BY <2>1, <2>2
<1> QED BY <1>1, <1>2, FileOpFacts DEF SameTruth, SameProcess

LEMMA Retyped ==
  ASSUME Typed, SameProcess, truth' = truth, main' \in [Slots -> Files],
         side' \in [Slots -> Files], marker' \in {None, "pending", "committed"}
  PROVE  Typed'
BY DEF Typed, SameProcess

LEMMA SyncOp ==
  ASSUME Typed, NEW rest \in Seq(Ops), todo = Then(Op("sync", None, None), rest), FileOp
  PROVE  /\ todo' = rest /\ SameDisk /\ Framed /\ main' = main /\ side' = side
<1>1. todo' = rest /\ Apply(Op("sync", None, None)) /\ SameTruth /\ SameProcess
  BY TakesOp
<1>2. main' = main /\ side' = side /\ marker' = marker
  BY <1>1, Syncs
<1>3. Typed'
  BY <1>1, <1>2, Retyped DEF SameTruth, Typed
<1> QED BY <1>1, <1>2, <1>3 DEF Framed, SameDisk

LEMMA ReturningStep ==
  ASSUME Typed, NEW rest \in Seq(Ops), Returning(rest), ~(todo = rest /\ HomeWhole), FileOp
  PROVE  Returning(rest)' /\ Framed
<1> USE DEF Slots
<1>0. SideBack(rest) \in Seq(Ops) /\ MainBack(rest) \in Seq(Ops) /\ MainGone(MainBack(rest)) \in Seq(Ops)
  BY ProgramTypes
<1>1. CASE todo = SideGone(MainBack(rest)) /\ Away /\ main["incoming"] = None
  <2>1. /\ todo' = MainGone(MainBack(rest)) /\ Apply(Op("side", "live", None))
        /\ SameTruth /\ SameProcess
    BY <1>0, <1>1, TakesOp DEF SideGone
  <2>2. Away' /\ side'["live"] = None /\ main' = main /\ side' \in [Slots -> Files] /\ marker' = marker
    BY <1>1, <2>1, SideIsGone
  <2>3. Typed'
    BY <2>1, <2>2, Retyped DEF SameTruth, Typed
  <2> QED BY <1>1, <2>1, <2>2, <2>3 DEF Returning, Framed
<1>2. CASE todo = MainGone(MainBack(rest)) /\ Away /\ main["incoming"] = None /\ side["live"] = None
  <2>1. /\ todo' = MainBack(rest) /\ Apply(Op("main", "live", None))
        /\ SameTruth /\ SameProcess
    BY <1>0, <1>2, TakesOp DEF MainGone
  <2>2. Away' /\ main'["live"] = None /\ side' = side /\ main' \in [Slots -> Files] /\ marker' = marker
        /\ main'["kept"] = main["kept"]
    BY <1>2, <2>1, MainIsGone
  <2>3. Typed'
    BY <2>1, <2>2, Retyped DEF SameTruth, Typed
  <2> QED BY <2>1, <2>2, <2>3 DEF Returning, Framed
<1>3. CASE todo = MainBack(rest) /\ ((Away /\ main["live"] = None) \/ Home)
  <2>1. /\ todo' = SideBack(rest) /\ Apply(Op("main", "previous", "live"))
        /\ SameTruth /\ SameProcess
    BY <1>0, <1>3, TakesOp DEF MainBack
  <2>2. Home' /\ side' = side /\ main' \in [Slots -> Files] /\ marker' = marker
        /\ main'["kept"] = main["kept"]
    BY <1>3, <2>1, MainComesBack
  <2>3. Typed'
    BY <2>1, <2>2, Retyped DEF SameTruth, Typed
  <2> QED BY <2>1, <2>2, <2>3 DEF Returning, Framed
<1>4. CASE todo = SideBack(rest) /\ Home
  <2>1. /\ todo' = rest /\ Apply(Op("side", "previous", "live"))
        /\ SameTruth /\ SameProcess
    BY <1>4, TakesOp DEF SideBack
  <2>2. HomeWhole' /\ main' = main /\ side' \in [Slots -> Files] /\ marker' = marker
    BY <1>4, <2>1, SideComesBack
  <2>3. Typed'
    BY <2>1, <2>2, Retyped DEF SameTruth, Typed
  <2> QED BY <2>1, <2>2, <2>3 DEF Returning, Framed
<1> QED BY <1>1, <1>2, <1>3, <1>4 DEF Returning

LEMMA UnmarkStep ==
  ASSUME Typed, todo = Unmark, HomeWhole, FileOp
  PROVE  todo' = <<>> /\ Clean' /\ Framed
<1>1. todo' = <<>> /\ Apply(Op("mark", None, None)) /\ SameTruth /\ SameProcess
  BY ProgramTypes, TakesOp DEF Unmark, None
<1>2. Clean' /\ main' = main /\ side' = side /\ marker' = None
  BY <1>1, Unmarked
<1>3. Typed'
  BY <1>1, <1>2, Retyped DEF SameTruth, Typed
<1> QED BY <1>1, <1>2, <1>3 DEF Framed

LEMMA DebrisStep ==
  ASSUME Typed, todo = Debris, FileOp
  PROVE  /\ todo' = DebrisSide /\ Framed /\ main'["previous"] = None /\ marker' = marker
         /\ main'["incoming"] = main["incoming"]
         /\ (Settled => Settled') /\ (Blank => Blank') /\ (Serving => Serving')
<1> USE DEF Slots
<1>1. todo' = DebrisSide /\ Apply(Op("main", "previous", None)) /\ SameTruth /\ SameProcess
  BY ProgramTypes, TakesOp DEF Debris
<1>2. /\ main' \in [Slots -> Files] /\ side' = side /\ marker' = marker
      /\ main'["previous"] = None /\ main'["incoming"] = main["incoming"]
      /\ main'["kept"] = main["kept"]
      /\ (Settled => Settled') /\ (Blank => Blank') /\ (Serving => Serving')
  BY <1>1, DebrisGoes
<1>3. Typed'
  BY <1>1, <1>2, Retyped DEF SameTruth, Typed
<1> QED BY <1>1, <1>2, <1>3 DEF Framed

LEMMA DebrisSideStep ==
  ASSUME Typed, todo = DebrisSide, FileOp
  PROVE  /\ todo' = <<>> /\ Framed /\ marker' = marker /\ main' = main
         /\ (Settled => Settled') /\ (Blank => Blank') /\ (Serving => Serving')
         /\ (Settled /\ main["previous"] = None => Clean')
<1> USE DEF Slots
<1>1. todo' = <<>> /\ Apply(Op("side", "previous", None)) /\ SameTruth /\ SameProcess
  BY ProgramTypes, TakesOp DEF DebrisSide
<1>2. /\ side' \in [Slots -> Files] /\ main' = main /\ marker' = marker
      /\ (Settled => Settled') /\ (Blank => Blank') /\ (Serving => Serving')
      /\ (Settled /\ main["previous"] = None => Clean')
  BY <1>1, DebrisSideGoes
<1>3. Typed'
  BY <1>1, <1>2, Retyped DEF SameTruth, Typed
<1> QED BY <1>1, <1>2, <1>3 DEF Framed

\* The staged files go to quarantine.
LEMMA QuarantineStep ==
  ASSUME Typed, NEW rest \in Seq(Ops), FileOp
  PROVE  /\ todo = ToQuarantine(rest) =>
              todo' = MainToQuarantine(rest) /\ Framed /\ SameDisk
         /\ todo = MainToQuarantine(rest) => todo' = rest /\ Framed /\ SameDisk
<1> USE DEF Slots
<1>1. ASSUME todo = ToQuarantine(rest)
      PROVE  todo' = MainToQuarantine(rest) /\ Framed /\ SameDisk
  <2>1. /\ todo' = MainToQuarantine(rest) /\ Apply(Op("side", "incoming", "quarantine"))
        /\ SameTruth /\ SameProcess
    BY <1>1, ProgramTypes, TakesOp DEF ToQuarantine
  <2>2. SameDisk /\ main' = main /\ side' \in [Slots -> Files]
    BY <2>1, ElsewhereSide
  <2>3. Typed'
    BY <2>1, <2>2, Retyped DEF SameTruth, SameDisk, Typed
  <2> QED BY <2>1, <2>2, <2>3 DEF Framed
<1>2. ASSUME todo = MainToQuarantine(rest)
      PROVE  todo' = rest /\ Framed /\ SameDisk
  <2>1. /\ todo' = rest /\ Apply(Op("main", "incoming", "quarantine"))
        /\ SameTruth /\ SameProcess
    BY <1>2, TakesOp DEF MainToQuarantine
  <2>2. SameDisk /\ side' = side /\ main' \in [Slots -> Files]
    BY <2>1, ElsewhereMain
  <2>3. main'["kept"] = main["kept"]
    <3>1. \A s \in Slots :
           main'[s] = IF main["incoming"] = None THEN main[s]
                      ELSE IF s = "incoming" THEN None
                      ELSE IF s = "quarantine" THEN main["incoming"] ELSE main[s]
      BY <2>1, MainMoves
    <3> QED BY <3>1
  <2>4. Typed'
    BY <2>1, <2>2, Retyped DEF SameTruth, SameDisk, Typed
  <2> QED BY <2>1, <2>2, <2>3, <2>4 DEF Framed
<1> QED BY <1>1, <1>2

LEMMA DropSideStep ==
  ASSUME Typed, NEW rest \in Seq(Ops), todo = Then(Op("side", "incoming", None), rest), FileOp
  PROVE  todo' = rest /\ Framed /\ SameDisk /\ main' = main
<1> USE DEF Slots
<1>1. /\ todo' = rest /\ Apply(Op("side", "incoming", None)) /\ SameTruth /\ SameProcess
  BY TakesOp
<1>2. SameDisk /\ main' = main /\ side' \in [Slots -> Files]
  BY <1>1, ElsewhereSide
<1>3. Typed'
  BY <1>1, <1>2, Retyped DEF SameTruth, SameDisk, Typed
<1> QED BY <1>1, <1>2, <1>3 DEF Framed

LEMMA RecoveringStep ==
  ASSUME Typed, Recovering, FileOp
  PROVE  Recovering' /\ Framed
<1>0. Unmark \in Seq(Ops) /\ ToQuarantine(Unmark) \in Seq(Ops) /\ <<>> \in Seq(Ops) /\ todo # <<>>
  BY ProgramTypes DEF FileOp
<1>1. CASE todo = Debris /\ (Settled \/ Blank)
  BY <1>1, DebrisStep DEF Recovering
<1>2. CASE todo = DebrisSide /\ (Settled \/ Blank) /\ main["previous"] = None
  BY <1>2, DebrisSideStep DEF Recovering
<1>3. CASE todo = SideAway(MainBack(ToQuarantine(Unmark))) /\ Away /\ main["incoming"] # None
  <2>1. /\ todo' = MainBack(ToQuarantine(Unmark)) /\ Apply(Op("side", "live", "previous"))
        /\ SameTruth /\ SameProcess
    BY <1>0, <1>3, ProgramTypes, TakesOp DEF SideAway, Slots
  <2>2. main["live"] = None
    BY <1>3 DEF Away
  <2>3. main' = main /\ side' \in [Slots -> Files] /\ marker' = marker /\ Away'
    BY <1>3, <2>1, <2>2, SideGoesAside
  <2>4. Typed'
    BY <2>1, <2>3, Retyped DEF SameTruth, Typed
  <2>5. Returning(ToQuarantine(Unmark))'
    BY <2>1, <2>2, <2>3 DEF Returning
  <2> QED BY <2>1, <2>3, <2>4, <2>5 DEF Recovering, Framed
<1>4. CASE Returning(ToQuarantine(Unmark)) /\ ~(todo = ToQuarantine(Unmark) /\ HomeWhole)
  BY <1>0, <1>4, ReturningStep DEF Recovering
<1>5. CASE todo = ToQuarantine(Unmark) /\ HomeWhole
  BY <1>0, <1>5, QuarantineStep, DisksKept DEF Recovering
<1>6. CASE todo = MainToQuarantine(Unmark) /\ HomeWhole
  <2>1. todo' = Unmark /\ Framed /\ SameDisk
    BY <1>0, <1>6, QuarantineStep
  <2>2. HomeWhole'
    BY <1>6, <2>1, DisksKept
  <2>3. Returning(Unmark)'
    BY <2>1, <2>2 DEF Returning
  <2> QED BY <2>1, <2>3 DEF Recovering
<1>7. CASE Returning(Unmark) /\ ~(todo = Unmark /\ HomeWhole)
  BY <1>0, <1>7, ReturningStep DEF Recovering
<1>8. CASE todo = Unmark /\ HomeWhole
  BY <1>8, UnmarkStep DEF Recovering
<1> QED BY <1>0, <1>1, <1>2, <1>3, <1>4, <1>5, <1>6, <1>7, <1>8 DEF Recovering


LEMMA InstallingStep ==
  ASSUME Typed, Installing, FileOp
  PROVE  Installing' /\ Framed
<1> USE DEF Slots
<1>0. todo # <<>>
  BY DEF FileOp
<1>1. CASE todo = Install1 /\ Clean /\ main["incoming"] # None
  <2>1. /\ todo' = Install2 /\ Apply(Op("mark", "pending", None)) /\ SameTruth /\ SameProcess
    BY <1>1, ProgramTypes, TakesOp DEF Install1
  <2>2. HomeWhole' /\ main' = main /\ side' = side /\ marker' = "pending"
    BY <1>1, <2>1, MarkedPending
  <2>3. Typed'
    BY <2>1, <2>2, Retyped DEF SameTruth, Typed
  <2> QED BY <1>1, <2>1, <2>2, <2>3 DEF Installing, Framed
<1>2. CASE todo = Install2 /\ HomeWhole /\ main["incoming"] # None
  <2>1. /\ todo' = Install3 /\ Apply(Op("side", "live", "previous")) /\ SameTruth /\ SameProcess
    BY <1>2, ProgramTypes, TakesOp DEF Install2
  <2>2. Home' /\ side'["live"] = None /\ main' = main /\ side' \in [Slots -> Files] /\ marker' = marker
    BY <1>2, <2>1, SideGoesAside
  <2>3. Typed'
    BY <2>1, <2>2, Retyped DEF SameTruth, Typed
  <2> QED BY <1>2, <2>1, <2>2, <2>3 DEF Installing, Framed
<1>3. CASE todo = Install3 /\ Home /\ side["live"] = None /\ main["incoming"] # None
  <2>1. /\ todo' = Install4 /\ Apply(Op("main", "live", "previous")) /\ SameTruth /\ SameProcess
    BY <1>3, ProgramTypes, TakesOp DEF Install3
  <2>2. /\ side' = side /\ main' \in [Slots -> Files] /\ marker' = marker /\ Away'
        /\ main'["incoming"] = main["incoming"] /\ main'["kept"] = main["kept"]
    BY <1>3, <2>1, MainGoesAside
  <2>3. Typed'
    BY <2>1, <2>2, Retyped DEF SameTruth, Typed
  <2> QED BY <1>3, <2>1, <2>2, <2>3 DEF Installing, Framed
<1>4. CASE todo = Install4 /\ Away /\ main["incoming"] # None
  <2>1. /\ todo' = Install5 /\ Apply(Op("main", "incoming", "live")) /\ SameTruth /\ SameProcess
    BY <1>4, ProgramTypes, TakesOp DEF Install4
  <2>2. /\ side' = side /\ main' \in [Slots -> Files] /\ marker' = marker
        /\ Replaced' /\ side'["live"] = None /\ main'["kept"] = main["kept"]
    BY <1>4, <2>1, ReplacementComesIn
  <2>3. Typed'
    BY <2>1, <2>2, Retyped DEF SameTruth, Typed
  <2> QED BY <2>1, <2>2, <2>3 DEF Installing, Framed
<1>5. CASE todo = Install5 /\ Replaced /\ side["live"] = None
  <2>1. todo' = <<>> /\ SameDisk /\ Framed /\ main' = main /\ side' = side
    BY <1>5, ProgramTypes, SyncOp DEF Install5
  <2>2. Replaced'
    BY <1>5, <2>1, DisksKept DEF Replaced
  <2> QED BY <1>5, <2>1, <2>2 DEF Installing
<1> QED BY <1>0, <1>1, <1>2, <1>3, <1>4, <1>5 DEF Installing

LEMMA RollingBackStep ==
  ASSUME Typed, RollingBack, FileOp
  PROVE  RollingBack' /\ Framed
<1>0. SyncUnmark \in Seq(Ops) /\ Unmark \in Seq(Ops) /\ todo # <<>>
  BY ProgramTypes DEF FileOp
<1>1. CASE todo = Unmark /\ HomeWhole
  BY <1>1, UnmarkStep DEF RollingBack
<1>2. CASE Returning(SyncUnmark) /\ ~(todo = SyncUnmark /\ HomeWhole)
  BY <1>0, <1>2, ReturningStep DEF RollingBack
<1>3. CASE todo = SyncUnmark /\ HomeWhole
  <2>1. todo' = Unmark /\ SameDisk /\ Framed
    BY <1>0, <1>3, SyncOp DEF SyncUnmark
  <2>2. HomeWhole'
    BY <1>3, <2>1, DisksKept
  <2> QED BY <2>1, <2>2 DEF RollingBack
<1> QED BY <1>0, <1>1, <1>2, <1>3 DEF RollingBack

LEMMA CommittingStep ==
  ASSUME Typed, Committing, FileOp
  PROVE  Committing' /\ Framed /\ main' = main
<1>0. todo # <<>>
  BY DEF FileOp
<1>1. todo = Commit /\ Replaced /\ side["live"] = main["live"]
  BY <1>0 DEF Committing
<1>2. Op("mark", "committed", None) \in Ops /\ <<>> \in Seq(Ops)
  BY OpType, ProgramTypes
<1>3. /\ todo' = <<>> /\ Apply(Op("mark", "committed", None)) /\ SameProcess
      /\ truth' = main["live"] /\ frames' = frames \intersect {main["live"]}
  BY <1>1, <1>2, FileOpFacts DEF Commit, SameProcess
<1>4. Serving' /\ main' = main /\ side' = side /\ marker' = "committed"
  BY <1>1, <1>3, MarkedCommitted
<1>5. Typed'
  BY <1>3, <1>4 DEF SameProcess, Typed, Slots
<1> QED BY <1>3, <1>4, <1>5 DEF Framed, Committing


LEMMA Distinct ==
  /\ KeepAside # DropSide /\ PutBack # DropBoth /\ PutBack # DropMain /\ DropBoth # DropMain
  /\ <<>> \notin {KeepAside, DropSide, PutBack, DropBoth, DropMain, Discard}
<1> USE DEF Slots
<1>1. /\ Op("main", "incoming", "kept") \in Ops /\ Op("side", "incoming", None) \in Ops
      /\ Op("main", "kept", "incoming") \in Ops /\ Op("main", "incoming", None) \in Ops
      /\ Op("main", "kept", None) \in Ops
  BY OpType
<1>2. /\ Op("main", "incoming", "kept") # Op("side", "incoming", None)
      /\ Op("main", "kept", "incoming") # Op("side", "incoming", None)
      /\ Op("main", "kept", "incoming") # Op("main", "incoming", None)
      /\ Op("side", "incoming", None) # Op("main", "incoming", None)
  BY DEF Op
<1>3. <<>> \in Seq(Ops) /\ DropMain \in Seq(Ops)
  BY ProgramTypes
<1>4. KeepAside # <<>> /\ Head(KeepAside) = Op("main", "incoming", "kept")
  BY <1>1, <1>3, ThenFacts DEF KeepAside
<1>5. DropSide # <<>> /\ Head(DropSide) = Op("side", "incoming", None)
  BY <1>1, <1>3, ThenFacts DEF DropSide
<1>6. PutBack # <<>> /\ Head(PutBack) = Op("main", "kept", "incoming")
  BY <1>1, <1>3, ThenFacts DEF PutBack
<1>7. DropMain # <<>> /\ Head(DropMain) = Op("main", "incoming", None)
  BY <1>1, <1>3, ThenFacts DEF DropMain
<1>8. DropBoth # <<>> /\ Head(DropBoth) = Op("side", "incoming", None)
  BY <1>1, <1>3, ThenFacts DEF DropBoth
<1>9. Discard # <<>>
  BY <1>1, <1>3, ThenFacts DEF Discard
<1> QED BY <1>2, <1>4, <1>5, <1>6, <1>7, <1>8, <1>9

\* An operation on the main of the slot or of the kept snapshot, in a restore.
LEMMA RestoreMainStep ==
  ASSUME Typed, NEW a \in {"incoming", "kept"}, NEW b \in {"incoming", "kept", None}, a # b,
         NEW rest \in Seq(Ops), todo = Then(Op("main", a, b), rest), FileOp
  PROVE  /\ todo' = rest /\ SameProcess /\ Typed' /\ SameDisk /\ main'[a] = None
         /\ b # None => main'[b] = IF main[a] = None THEN main[b] ELSE main[a]
         /\ \A s \in {"incoming", "kept"} : s # a /\ s # b => main'[s] = main[s]
<1>0. a \in Slots /\ b \in Slots \cup {None}
  BY DEF Slots
<1>1. todo' = rest /\ Apply(Op("main", a, b)) /\ SameTruth /\ SameProcess
  BY <1>0, TakesOp
<1>2. SameDisk /\ main' \in [Slots -> Files] /\ side' = side /\ main'[a] = None
  BY <1>1, ElsewhereMain
<1>3. Typed'
  BY <1>1, <1>2, Retyped DEF SameTruth, SameDisk, Typed
<1>4. \A s \in Slots :
         main'[s] = IF main[a] = None THEN main[s]
                    ELSE IF s = a THEN None ELSE IF s = b THEN main[a] ELSE main[s]
  BY <1>0, <1>1, MainMoves
<1>5. b # None => main'[b] = IF main[a] = None THEN main[b] ELSE main[a]
  BY <1>0, <1>4
<1>6. \A s \in {"incoming", "kept"} : s # a /\ s # b => main'[s] = main[s]
  BY <1>0, <1>4 DEF Slots
<1> QED BY <1>1, <1>2, <1>3, <1>5, <1>6

\* The three programs of a restore.
LEMMA RestoreStep ==
  ASSUME Typed, pc \in Restoring, todo \in TodoOf(pc), FileOp
  PROVE  /\ SameProcess /\ Typed' /\ SameDisk /\ todo' \in TodoOf(pc)
         /\ (pc = "capture" /\ Captured => Captured')
         /\ (pc = "undo" /\ Undoing => Undoing')
         /\ (pc = "discard" => main'["incoming"] = main["incoming"])
         /\ pc \in {"capture", "undo", "discard"}
<1>0. todo # <<>> /\ <<>> \in Seq(Ops) /\ DropMain \in Seq(Ops)
  BY ProgramTypes DEF FileOp
<1>1. CASE pc = "capture"
  <2>1. todo \in {KeepAside, DropSide} /\ TodoOf(pc) = {KeepAside, DropSide, <<>>}
    BY <1>0, <1>1 DEF TodoOf
  <2>2. CASE todo = KeepAside
    <3>1. /\ todo' = <<>> /\ SameProcess /\ Typed' /\ SameDisk /\ main'["incoming"] = None
          /\ main'["kept"] = IF main["incoming"] = None THEN main["kept"] ELSE main["incoming"]
      <4>1. "kept" # None
        BY DEF None
      <4> QED BY <1>0, <2>2, <4>1, RestoreMainStep DEF KeepAside
    <3>2. Captured => Captured'
      BY <2>2, <3>1, Distinct DEF Captured, SameProcess
    <3> QED BY <1>1, <2>1, <3>1, <3>2
  <2>3. CASE todo = DropSide
    <3>1. todo' = <<>> /\ Framed /\ SameDisk /\ main' = main
      BY <1>0, <2>3, DropSideStep DEF DropSide
    <3>2. Captured => Captured'
      BY <2>3, <3>1, Distinct DEF Captured, SameProcess, Framed
    <3> QED BY <1>1, <2>1, <3>1, <3>2 DEF Framed
  <2> QED BY <2>1, <2>2, <2>3
<1>2. CASE pc = "undo"
  <2>1. todo \in {PutBack, DropBoth, DropMain} /\ TodoOf(pc) = {PutBack, DropBoth, DropMain, <<>>}
    BY <1>0, <1>2 DEF TodoOf
  <2>2. CASE todo = PutBack
    <3>1. /\ todo' = <<>> /\ SameProcess /\ Typed' /\ SameDisk
          /\ main'["incoming"] = IF main["kept"] = None THEN main["incoming"] ELSE main["kept"]
      <4>1. "incoming" # None
        BY DEF None
      <4> QED BY <1>0, <2>2, <4>1, RestoreMainStep DEF PutBack
    <3>2. Undoing => Undoing'
      BY <2>2, <3>1, Distinct DEF Undoing, SameProcess
    <3> QED BY <1>2, <2>1, <3>1, <3>2
  <2>3. CASE todo = DropBoth
    <3>1. todo' = DropMain /\ Framed /\ SameDisk /\ main' = main
      BY <1>0, <2>3, DropSideStep DEF DropBoth
    <3>2. Undoing => Undoing'
      BY <2>3, <3>1, Distinct DEF Undoing, SameProcess, Framed
    <3> QED BY <1>2, <2>1, <3>1, <3>2 DEF Framed
  <2>4. CASE todo = DropMain
    <3>1. todo' = <<>> /\ SameProcess /\ Typed' /\ SameDisk /\ main'["incoming"] = None
      <4>1. "incoming" # None
        BY DEF None
      <4> QED BY <1>0, <2>4, <4>1, RestoreMainStep DEF DropMain
    <3>2. Undoing => Undoing'
      BY <2>4, <3>1, Distinct DEF Undoing, SameProcess
    <3> QED BY <1>2, <2>1, <3>1, <3>2
  <2> QED BY <2>1, <2>2, <2>3, <2>4
<1>3. CASE pc = "discard"
  <2>1. todo = Discard /\ TodoOf(pc) = {Discard, <<>>}
    BY <1>0, <1>3 DEF TodoOf
  <2>2. "kept" # None /\ "incoming" # None
    BY DEF None
  <2>3. /\ todo' = <<>> /\ SameProcess /\ Typed' /\ SameDisk
        /\ main'["incoming"] = main["incoming"]
    BY <1>0, <2>1, <2>2, RestoreMainStep DEF Discard
  <2> QED BY <1>3, <2>1, <2>3
<1>4. pc \in {"capture", "undo", "discard"}
  BY <1>0 DEF Restoring, TodoOf
<1> QED BY <1>1, <1>2, <1>3, <1>4

LEMMA FileOpPreserves ==
  ASSUME ReplacementInv, FileOp
  PROVE  ReplacementInv'
<1> Typed
  BY DEF ReplacementInv
<1> Point
  BY DEF ReplacementInv
<1>0. todo # <<>> /\ <<>> \in Seq(Ops)
  BY ProgramTypes DEF FileOp
\* Outside a restore.
<1>1. ASSUME Framed, Point', pc \notin Restoring,
             pc \in {"commit", "cleanup"} => main'["incoming"] = main["incoming"], pc # "up"
      PROVE  ReplacementInv'
  <2>1. faults' = 0 => SlotKept'
    BY <1>1 DEF ReplacementInv, Framed, SameProcess, SlotKept, Restoring
  <2> QED BY <1>1, <2>1 DEF ReplacementInv, Framed, SameProcess
<1>2. CASE pc = "recover" /\ flags = NoAdmission /\ Recovering
  <2>1. Recovering' /\ Framed
    BY <1>2, RecoveringStep
  <2>2. Point' /\ pc \notin Restoring /\ pc \notin {"commit", "cleanup", "up"}
    BY <1>2, <2>1 DEF Point, Framed, SameProcess, Restoring
  <2> QED BY <1>1, <2>1, <2>2
<1>3. CASE pc \in {"preflight", "preflighted"} /\ flags = NoAdmission /\ todo \in {DropSide, <<>>}
           /\ Clean /\ main["incoming"] # None
  <2>1. todo' = <<>> /\ Framed /\ SameDisk /\ main' = main
    BY <1>0, <1>3, DropSideStep DEF DropSide
  <2>2. Clean'
    BY <1>3, <2>1, DisksKept
  <2>3. Point' /\ pc \notin Restoring /\ pc \notin {"commit", "cleanup", "up"}
    BY <1>3, <2>1, <2>2 DEF Point, Framed, SameProcess, Restoring
  <2> QED BY <1>1, <2>1, <2>3
<1>4. CASE pc = "reject" /\ flags = NoAdmission /\ Clean
           /\ todo \in {ToQuarantine(<<>>), MainToQuarantine(<<>>), <<>>}
  <2>1. todo' \in {MainToQuarantine(<<>>), <<>>} /\ Framed /\ SameDisk
    BY <1>0, <1>4, QuarantineStep
  <2>2. Clean'
    BY <1>4, <2>1, DisksKept
  <2>3. Point' /\ pc \notin Restoring /\ pc \notin {"commit", "cleanup", "up"}
    BY <1>4, <2>1, <2>2 DEF Point, Framed, SameProcess, Restoring
  <2> QED BY <1>1, <2>1, <2>3
<1>5. CASE pc = "install" /\ flags = Bringing /\ Installing
  <2>1. Installing' /\ Framed
    BY <1>5, InstallingStep
  <2>2. Point' /\ pc \notin Restoring /\ pc \notin {"commit", "cleanup", "up"}
    BY <1>5, <2>1 DEF Point, Framed, SameProcess, Restoring
  <2> QED BY <1>1, <2>1, <2>2
<1>6. CASE pc = "rollback" /\ flags = Bringing /\ RollingBack
  <2>1. RollingBack' /\ Framed
    BY <1>6, RollingBackStep
  <2>2. Point' /\ pc \notin Restoring /\ pc \notin {"commit", "cleanup", "up"}
    BY <1>6, <2>1 DEF Point, Framed, SameProcess, Restoring
  <2> QED BY <1>1, <2>1, <2>2
<1>7. CASE pc = "commit" /\ flags = Bringing /\ Committing
  <2>1. Committing' /\ Framed /\ main' = main
    BY <1>7, CommittingStep
  <2>2. Point' /\ pc \notin Restoring /\ pc # "up"
    BY <1>7, <2>1 DEF Point, Framed, SameProcess, Restoring
  <2> QED BY <1>1, <2>1, <2>2
<1>8. CASE pc = "cleanup" /\ flags = Bringing /\ todo \in {Debris, DebrisSide, <<>>}
           /\ Serving /\ marker = "committed"
  <2>1. todo' \in {DebrisSide, <<>>} /\ Framed /\ Serving' /\ marker' = marker
        /\ main'["incoming"] = main["incoming"]
    BY <1>0, <1>8, DebrisStep, DebrisSideStep
  <2>2. Point' /\ pc \notin Restoring /\ pc # "up"
    BY <1>8, <2>1 DEF Point, Framed, SameProcess, Restoring
  <2> QED BY <1>1, <2>1, <2>2
<1>9. CASE pc \in Restoring /\ flags = NoAdmission /\ todo \in TodoOf(pc) /\ Serving
  <2>1. /\ SameProcess /\ Typed' /\ SameDisk /\ todo' \in TodoOf(pc)
        /\ (pc = "capture" /\ Captured => Captured')
        /\ (pc = "undo" /\ Undoing => Undoing')
        /\ (pc = "discard" => main'["incoming"] = main["incoming"])
        /\ pc \in {"capture", "undo", "discard"}
    BY <1>9, RestoreStep
  <2>2. Serving'
    BY <1>9, <2>1, DisksKept
  <2>3. todo' \in TodoOf(pc')
    BY <2>1 DEF SameProcess
  <2>4. Point' /\ pc' \in Restoring
    BY <1>9, <2>1, <2>2, <2>3 DEF Point, SameProcess
  <2>5. faults' = 0 => SlotKept'
    BY <1>9, <2>1 DEF ReplacementInv, SlotKept, SameProcess
  <2> QED BY <2>1, <2>4, <2>5 DEF ReplacementInv, SameProcess
<1>10. pc # "down" /\ pc # "open" /\ pc # "up"
  BY <1>0 DEF Point, Restoring
<1> QED BY <1>2, <1>3, <1>4, <1>5, <1>6, <1>7, <1>8, <1>9, <1>10 DEF Point

-----------------------------------------------------------------------------
(* The ends of the programs.                                               *)

LEMMA NotEmpty ==
  /\ <<>> \notin {Unmark, SyncUnmark, Debris, DebrisSide, Commit, Install1, Install2, Install3,
                  Install4, Install5}
  /\ \A rest \in Seq(Ops) :
       <<>> \notin {MainToQuarantine(rest), ToQuarantine(rest), SideBack(rest), MainBack(rest),
                    SideAway(rest), MainGone(rest), SideGone(rest)}
<1> USE DEF Slots
<1>1. \A k \in {"main", "side", "mark", "sync"}, a \in Slots \cup {None, "pending", "committed"},
        b \in Slots \cup {None}, rest \in Seq(Ops) : Then(Op(k, a, b), rest) # <<>>
  BY OpType, ThenFacts
<1>2. <<>> \notin {Unmark, SyncUnmark, Debris, DebrisSide, Commit}
  BY <1>1, ProgramTypes DEF Unmark, SyncUnmark, Debris, DebrisSide, Commit
<1>3. <<>> \notin {Install1, Install2, Install3, Install4, Install5}
  BY <1>1, ProgramTypes DEF Install1, Install2, Install3, Install4, Install5
<1>4. \A rest \in Seq(Ops) :
        <<>> \notin {MainToQuarantine(rest), ToQuarantine(rest), SideBack(rest), MainBack(rest)}
  BY <1>1, ProgramTypes DEF MainToQuarantine, ToQuarantine, SideBack, MainBack
<1>5. \A rest \in Seq(Ops) : <<>> \notin {SideAway(rest), MainGone(rest), SideGone(rest)}
  BY <1>1, ProgramTypes DEF SideAway, MainGone, SideGone
<1> QED BY <1>2, <1>3, <1>4, <1>5

LEMMA Finished ==
  ASSUME todo = <<>>
  PROVE  /\ Recovering => Clean \/ Blank
         /\ Installing => Replaced /\ side["live"] = None
         /\ RollingBack => Clean
         /\ Committing => Serving /\ marker = "committed"
<1>0. /\ Unmark \in Seq(Ops) /\ SyncUnmark \in Seq(Ops) /\ ToQuarantine(Unmark) \in Seq(Ops)
      /\ MainBack(ToQuarantine(Unmark)) \in Seq(Ops)
  BY ProgramTypes
<1>1. ASSUME NEW rest \in Seq(Ops), rest # <<>>
      PROVE  ~Returning(rest)
  <2>1. /\ SideGone(MainBack(rest)) # <<>> /\ MainGone(MainBack(rest)) # <<>>
        /\ MainBack(rest) # <<>> /\ SideBack(rest) # <<>>
    BY ProgramTypes, NotEmpty
  <2> QED BY <1>1, <2>1 DEF Returning
<1>2. ~Returning(Unmark) /\ ~Returning(SyncUnmark) /\ ~Returning(ToQuarantine(Unmark))
  BY <1>0, <1>1, NotEmpty
<1>3. Recovering => Clean \/ Blank
  BY <1>0, <1>2, NotEmpty DEF Recovering
<1>4. Installing => Replaced /\ side["live"] = None
  BY NotEmpty DEF Installing
<1>5. RollingBack => Clean
  BY <1>2, NotEmpty DEF RollingBack
<1>6. Committing => Serving /\ marker = "committed"
  BY NotEmpty DEF Committing
<1> QED BY <1>3, <1>4, <1>5, <1>6

\* Wherever the process stops, the next boot finds one of the four disks.
LEMMA PointRecoverable ==
  ASSUME Point
  PROVE  Recoverable
<1>1. /\ (Clean => Settled) /\ (Serving => Settled) /\ (HomeWhole => Home) /\ (Replaced => Away)
  BY DEF Clean, Serving, HomeWhole, Replaced
<1>2. \A rest \in Seq(Ops) : Returning(rest) => Recoverable
  BY <1>1 DEF Returning, Recoverable
<1>3. Recovering => Recoverable
  BY <1>1, <1>2, ProgramTypes DEF Recovering, Recoverable
<1>4. Installing => Recoverable
  BY <1>1 DEF Installing, Recoverable
<1>5. RollingBack => Recoverable
  BY <1>1, <1>2, ProgramTypes DEF RollingBack, Recoverable
<1>6. (Committing => Recoverable) /\ (Opening => Recoverable)
  BY <1>1 DEF Committing, Opening, Recoverable
<1> QED BY <1>1, <1>3, <1>4, <1>5, <1>6 DEF Point, Recoverable

-----------------------------------------------------------------------------
(* The other steps.                                                        *)

SameFiles == main' = main /\ side' = side /\ marker' = marker

LEMMA Quiet ==
  ASSUME SameFiles, SameTruth
  PROVE  /\ SameDisk /\ (Settled => Settled') /\ (Clean => Clean') /\ (Serving => Serving')
         /\ (Home => Home') /\ (HomeWhole => HomeWhole') /\ (Blank => Blank') /\ (Away => Away')
         /\ (Replaced => Replaced') /\ (Recoverable => Recoverable')
<1>1. SameDisk /\ main'["incoming"] = main["incoming"]
  BY DEF SameFiles, SameDisk
<1>2. /\ (Settled => Settled') /\ (Clean => Clean') /\ (Serving => Serving')
      /\ (Home => Home') /\ (HomeWhole => HomeWhole') /\ (Blank => Blank') /\ (Away => Away')
  BY <1>1, DisksKept
<1>3. Replaced => Replaced'
  BY <1>2 DEF Replaced, SameFiles
<1>4. Recoverable => Recoverable'
  BY <1>2 DEF Recoverable
<1> QED BY <1>1, <1>2, <1>3, <1>4

\* The invariant, for steps that stay outside a restore and leave the slot alone.
LEMMA Outside ==
  ASSUME ReplacementInv, Typed', ~mixed', Point', pc' \notin Restoring, main'["kept"] = None,
         restoring' = None,
         \/ pc' \notin {"commit", "cleanup", "up"} \/ faults' # 0
         \/ main'["incoming"] = slot'.incoming /\ config' = slot'.config
  PROVE  ReplacementInv'
<1>1. faults' = 0 => SlotKept'
  BY DEF SlotKept, Restoring
<1> QED BY <1>1 DEF ReplacementInv

LEMMA BootPreserves ==
  ASSUME ReplacementInv, Boot
  PROVE  ReplacementInv'
<1> Typed
  BY DEF ReplacementInv
<1> Recoverable
  BY PointRecoverable DEF ReplacementInv
<1>2. /\ pc = "down" /\ pc' = "recover" /\ SameFiles /\ SameTruth /\ flags' = flags
      /\ restoring' = restoring /\ config' = config /\ mixed' = mixed /\ faults' = faults
      /\ todo' = recoverInterruptedSnapshot
  BY DEF Boot, files, history, bounds, SameFiles, SameTruth
<1>3. Point /\ flags = NoAdmission /\ main["kept"] = None /\ restoring = None /\ ~mixed
  BY <1>2 DEF ReplacementInv, Point, Restoring
<1>4. Typed'
  BY <1>2 DEF Typed, SameFiles, SameTruth
<1>5. Recovering'
  <2>1. CASE Home
    <3>1. marker = "pending" /\ main["previous"] = None /\ Home'
      BY <1>2, <2>1, Quiet DEF Home
    <3>2. todo' = restorePendingSnapshot("pending")
      BY <1>2, <3>1 DEF recoverInterruptedSnapshot
    <3>3. todo' \in {SideBack(ToQuarantine(Unmark)), SideBack(Unmark)}
      BY <3>1, <3>2, RecoveryPrograms
    <3> QED BY <3>1, <3>3 DEF Recovering, Returning
  <2>2. CASE Away
    <3>1. marker = "pending" /\ main["previous"] # None /\ Away'
      BY <1>2, <2>2, Quiet DEF Away
    <3>2. todo' = restorePendingSnapshot("pending")
      BY <1>2, <3>1 DEF recoverInterruptedSnapshot
    <3>3. CASE main["incoming"] # None
      <4>1. todo' = SideAway(MainBack(ToQuarantine(Unmark))) /\ main'["incoming"] # None
        BY <1>2, <3>1, <3>2, <3>3, RecoveryPrograms DEF SameFiles
      <4> QED BY <3>1, <4>1 DEF Recovering
    <3>4. CASE main["incoming"] = None
      <4>1. todo' = SideGone(MainBack(Unmark)) /\ main'["incoming"] = None
        BY <1>2, <3>1, <3>2, <3>4, RecoveryPrograms DEF SameFiles
      <4> QED BY <3>1, <4>1 DEF Recovering, Returning
    <3> QED BY <3>3, <3>4
  <2>3. CASE Settled \/ Blank
    <3>1. (Settled \/ Blank)'
      BY <1>2, <2>3, Quiet
    <3>2. marker # "pending" /\ ~(marker = None /\ main["live"] = None /\ main["previous"] # None)
      BY <2>3 DEF Settled, Blank, Whole, NoPrevious, None
    <3>3. todo' = Debris
      BY <1>2, <3>2, ShortPrograms DEF recoverInterruptedSnapshot
    <3> QED BY <3>1, <3>3 DEF Recovering
  <2> QED BY <2>1, <2>2, <2>3 DEF Recoverable
<1>6. Point'
  BY <1>2, <1>3, <1>5 DEF Point
<1>7. main'["kept"] = None /\ restoring' = None /\ ~mixed' /\ pc' \notin Restoring
      /\ pc' \notin {"commit", "cleanup", "up"}
  BY <1>2, <1>3 DEF SameFiles, Restoring
<1> QED BY <1>4, <1>6, <1>7, Outside

LEMMA AdmitPreserves ==
  ASSUME ReplacementInv, Admit
  PROVE  ReplacementInv'
<1> Typed
  BY DEF ReplacementInv
<1>1. /\ pc = "recover" /\ todo = <<>> /\ SameFiles /\ SameTruth /\ flags' = flags
      /\ restoring' = restoring /\ config' = config /\ mixed' = mixed /\ faults' = faults
  BY DEF Admit, files, history, bounds, SameFiles, SameTruth
<1>2. Recovering /\ flags = NoAdmission /\ main["kept"] = None /\ restoring = None /\ ~mixed
  BY <1>1 DEF ReplacementInv, Point, Restoring
<1>3. Clean \/ Blank
  BY <1>1, <1>2, Finished
<1>4. Typed'
  BY <1>1 DEF Typed, SameFiles, SameTruth
<1>5. Point' /\ pc' \in {"open", "reject", "preflight"}
  <2>1. (Clean => Clean') /\ (Blank => Blank') /\ main' = main
    BY <1>1, Quiet DEF SameFiles
  <2>2. CASE main["incoming"] = None
    <3>1. pc' = "open" /\ todo' = <<>>
      BY <2>2 DEF Admit, Becomes
    <3> QED BY <1>1, <1>2, <1>3, <2>1, <3>1 DEF Point, Opening
  <2>3. CASE main["incoming"] # None /\ main["incoming"] \notin Valid
    <3>1. pc' = "reject" /\ todo' = ToQuarantine(<<>>)
      BY <2>3, ShortPrograms DEF Admit, Becomes, checkPendingSnapshotFile
    <3>2. Clean
      BY <1>3, <2>3 DEF Blank
    <3> QED BY <1>1, <1>2, <2>1, <3>1, <3>2 DEF Point
  <2>4. CASE main["incoming"] # None /\ main["incoming"] \in Valid
    <3>1. pc' = "preflight" /\ todo' = DropSide
      BY <2>4, ShortPrograms DEF Admit, Becomes, checkPendingSnapshotFile
    <3>2. Clean
      BY <1>3, <2>4 DEF Blank
    <3> QED BY <1>1, <1>2, <2>1, <2>4, <3>1, <3>2 DEF Point
  <2> QED BY <2>2, <2>3, <2>4
<1>6. main'["kept"] = None /\ restoring' = None /\ ~mixed' /\ pc' \notin Restoring
      /\ pc' \notin {"commit", "cleanup", "up"}
  BY <1>1, <1>2, <1>5 DEF SameFiles, Restoring
<1> QED BY <1>4, <1>5, <1>6, Outside

LEMMA PreflightPreserves ==
  ASSUME ReplacementInv, Preflight
  PROVE  ReplacementInv'
<1> Typed
  BY DEF ReplacementInv
<1>1. /\ pc = "preflight" /\ pc' = "preflighted" /\ todo' = DropSide /\ flags' = flags
      /\ main' = main /\ marker' = marker /\ SameTruth
      /\ side' = [side EXCEPT !["incoming"] = main["incoming"]]
      /\ restoring' = restoring /\ config' = config /\ mixed' = mixed /\ faults' = faults
  BY ShortPrograms DEF Preflight, Becomes, history, bounds, SameTruth
<1>2. flags = NoAdmission /\ main["kept"] = None /\ restoring = None /\ ~mixed
      /\ Clean /\ main["incoming"] # None
  BY <1>1 DEF ReplacementInv, Point, Restoring
<1>3. Typed' /\ SameDisk
  BY <1>1 DEF Typed, SameTruth, SameDisk, Slots
<1>4. Clean'
  BY <1>2, <1>3, DisksKept
<1>5. Point'
  BY <1>1, <1>2, <1>4 DEF Point
<1>6. main'["kept"] = None /\ restoring' = None /\ ~mixed' /\ pc' \notin Restoring
      /\ pc' \notin {"commit", "cleanup", "up"}
  BY <1>1, <1>2 DEF Restoring
<1> QED BY <1>3, <1>5, <1>6, Outside

LEMMA PreflightedPreserves ==
  ASSUME ReplacementInv, Preflighted
  PROVE  ReplacementInv'
<1> Typed
  BY DEF ReplacementInv
<1>1. /\ pc = "preflighted" /\ SameFiles /\ SameTruth
      /\ restoring' = restoring /\ config' = config /\ mixed' = mixed /\ faults' \in {faults, faults + 1}
  BY DEF Preflighted, Fault, files, history, SameFiles, SameTruth
<1>2. flags = NoAdmission /\ main["kept"] = None /\ restoring = None /\ ~mixed
      /\ Clean /\ main["incoming"] # None
  BY <1>1 DEF ReplacementInv, Point, Restoring
<1>3. Typed'
  BY <1>1 DEF Typed, SameFiles, SameTruth
<1>4. Clean' /\ main' = main
  BY <1>1, <1>2, Quiet DEF SameFiles
<1>5. main["live"] # None
  BY <1>2 DEF Clean, Settled, Whole
<1>6. Point' /\ pc' \in {"install", "reject"}
  <2>1. CASE Becomes("install", install) /\ flags' = [admitted |-> TRUE, previous |-> main["live"] # None]
    <3>1. pc' = "install" /\ todo' = Install1 /\ flags' = Bringing
      BY <1>5, <2>1, InstallProgram DEF Becomes, Bringing
    <3>2. Installing'
      BY <1>2, <1>4, <3>1 DEF Installing
    <3> QED BY <3>1, <3>2 DEF Point
  <2>2. CASE Becomes("reject", quarantinePendingSnapshot) /\ UNCHANGED flags
    <3>1. pc' = "reject" /\ todo' = ToQuarantine(<<>>) /\ flags' = NoAdmission
      BY <1>2, <2>2, ShortPrograms DEF Becomes
    <3> QED BY <1>4, <3>1 DEF Point
  <2> QED BY <2>1, <2>2 DEF Preflighted
<1>7. main'["kept"] = None /\ restoring' = None /\ ~mixed' /\ pc' \notin Restoring
      /\ pc' \notin {"commit", "cleanup", "up"}
  BY <1>1, <1>2, <1>6 DEF SameFiles, Restoring
<1> QED BY <1>3, <1>6, <1>7, Outside

LEMMA AdmittedPreserves ==
  ASSUME ReplacementInv, Admitted
  PROVE  ReplacementInv'
<1> Typed
  BY DEF ReplacementInv
<1>1. /\ pc \in {"install", "reject"} /\ todo = <<>> /\ pc' = "open" /\ todo' = <<>>
      /\ SameFiles /\ SameTruth /\ flags' = flags
      /\ restoring' = restoring /\ config' = config /\ mixed' = mixed /\ faults' = faults
  BY DEF Admitted, Becomes, files, history, bounds, SameFiles, SameTruth
<1>2. /\ main["kept"] = None /\ restoring = None /\ ~mixed
      /\ \/ flags = Bringing /\ Installing
         \/ flags = NoAdmission /\ Clean
  BY <1>1 DEF ReplacementInv, Point, Restoring
<1>3. Typed'
  BY <1>1 DEF Typed, SameFiles, SameTruth
<1>4. Opening'
  <2>1. CASE flags = Bringing /\ Installing
    <3>1. Replaced /\ side["live"] = None
      BY <1>1, <2>1, Finished
    <3>2. Replaced' /\ side' = side
      BY <1>1, <3>1, Quiet DEF SameFiles
    <3> QED BY <1>1, <2>1, <3>1, <3>2 DEF Opening
  <2>2. CASE flags = NoAdmission /\ Clean
    BY <1>1, <2>2, Quiet DEF Opening
  <2> QED BY <1>2, <2>1, <2>2
<1>5. Point'
  BY <1>1, <1>4 DEF Point
<1>6. main'["kept"] = None /\ restoring' = None /\ ~mixed' /\ pc' \notin Restoring
      /\ pc' \notin {"commit", "cleanup", "up"}
  BY <1>1, <1>2 DEF SameFiles, Restoring
<1> QED BY <1>3, <1>5, <1>6, Outside


LEMMA OpenDatabasePreserves ==
  ASSUME ReplacementInv, OpenDatabase
  PROVE  ReplacementInv'
<1> Typed
  BY DEF ReplacementInv
<1>1. /\ pc = "open" /\ marker' = marker /\ flags' = flags /\ restoring' = restoring
      /\ config' = config /\ faults' = faults /\ frames' = frames
      /\ main' = [main EXCEPT !["live"] = Attached]
      /\ side' = [side EXCEPT !["live"] = IF side["live"] = None THEN Attached ELSE side["live"]]
      /\ mixed' = (mixed \/ side["live"] \notin {None, Attached})
      /\ truth' = IF truth = None /\ ~flags.admitted THEN Attached ELSE truth
      /\ slot' = [incoming |-> main["incoming"], config |-> config]
  BY DEF OpenDatabase, bounds
<1>2. todo = <<>> /\ Opening /\ main["kept"] = None /\ restoring = None /\ ~mixed
  BY <1>1 DEF ReplacementInv, Point, Restoring
<1>3. Attached \in Files /\ Attached # None
  BY DEF Attached, Typed, Files, Databases, Slots, Empty, None
<1>4. /\ main' \in [Slots -> Files] /\ side' \in [Slots -> Files]
      /\ main'["live"] = Attached
      /\ side'["live"] = IF side["live"] = None THEN Attached ELSE side["live"]
      /\ \A s \in Slots \ {"live"} : main'[s] = main[s] /\ side'[s] = side[s]
  BY <1>1, <1>3 DEF Typed, Slots
<1>5. Typed'
  BY <1>1, <1>3, <1>4 DEF Typed
<1>6. /\ main'["previous"] = main["previous"] /\ main'["incoming"] = main["incoming"]
      /\ main'["kept"] = main["kept"] /\ side'["previous"] = side["previous"]
  BY <1>4 DEF Slots
<1>7. slot'.incoming = main["incoming"] /\ slot'.config = config
  BY <1>1
<1>8. CASE flags = Bringing /\ Replaced /\ side["live"] = None
  <2>1. Attached = main["live"] /\ truth # None
    BY <1>8 DEF Attached, Replaced, Away
  <2>2. pc' = "commit" /\ todo' = Commit
    BY <1>8, ShortPrograms DEF OpenDatabase, Becomes, Bringing
  <2>3. truth' = truth /\ ~mixed'
    BY <1>1, <1>2, <1>8, <2>1
  <2>4. Replaced' /\ side'["live"] = main'["live"]
    BY <1>1, <1>4, <1>6, <1>8, <2>1, <2>3 DEF Replaced, Away
  <2>5. Point' /\ pc' \notin Restoring
    BY <1>1, <1>8, <2>2, <2>4 DEF Point, Committing, Restoring
  <2> QED BY <1>1, <1>2, <1>5, <1>6, <1>7, <2>3, <2>5, Outside
<1>9. CASE flags = NoAdmission /\ (Clean \/ Blank)
  <2>1. pc' = "up" /\ todo' = <<>>
    BY <1>9 DEF OpenDatabase, Becomes, NoAdmission
  <2>2. ~flags.admitted
    BY <1>9 DEF NoAdmission
  <2>3. Serving' /\ ~mixed'
    <3>1. CASE Clean
      <4>1. Attached = truth /\ truth' = truth /\ side["live"] \in {None, truth}
        BY <1>1, <3>1 DEF Clean, Settled, Whole, Attached
      <4>2. ~mixed'
        BY <1>1, <1>2, <4>1
      <4>3. Serving'
        BY <1>1, <1>3, <1>4, <1>6, <3>1, <4>1 DEF Clean, Settled, Whole, Serving, NoPrevious
      <4> QED BY <4>2, <4>3
    <3>2. CASE Blank
      <4>1. truth' = Attached /\ side["live"] = None
        BY <1>1, <2>2, <3>2 DEF Blank
      <4>2. ~mixed'
        BY <1>1, <1>2, <4>1
      <4>3. Serving'
        BY <1>1, <1>3, <1>4, <1>6, <3>2, <4>1 DEF Blank, Settled, Whole, Serving, NoPrevious
      <4> QED BY <4>2, <4>3
    <3> QED BY <1>9, <3>1, <3>2
  <2>4. Point' /\ pc' \notin Restoring
    BY <1>1, <1>9, <2>1, <2>3 DEF Point, Restoring
  <2> QED BY <1>1, <1>2, <1>5, <1>6, <1>7, <2>3, <2>4, Outside
<1> QED BY <1>2, <1>8, <1>9 DEF Opening

\* A rollback finds the previous set aside, or not yet moved.
LEMMA RollbackStarts ==
  ASSUME flags = Bringing, pc' = "rollback", todo' = restorePrevious, flags' = flags, SameFiles,
         SameTruth, (Home /\ main["incoming"] # None) \/ Away
  PROVE  Point'
<1>1. CASE main["incoming"] = None
  <2>1. todo' = SideGone(MainBack(SyncUnmark)) /\ main'["incoming"] = None /\ Away'
    BY <1>1, RollbackProgram, Quiet DEF SameFiles
  <2>2. RollingBack'
    BY <2>1 DEF RollingBack, Returning
  <2> QED BY <2>2 DEF Point
<1>2. CASE main["incoming"] # None
  <2>1. todo' = MainBack(SyncUnmark)
    BY <1>2, RollbackProgram
  <2>2. (Away /\ main["live"] = None) \/ Home
    BY <1>2 DEF Away
  <2>3. ((Away /\ main["live"] = None) \/ Home)'
    BY <2>2, Quiet DEF SameFiles
  <2>4. RollingBack'
    BY <2>1, <2>3 DEF RollingBack, Returning
  <2> QED BY <2>4 DEF Point
<1> QED BY <1>1, <1>2

LEMMA OpenFailsPreserves ==
  ASSUME ReplacementInv, OpenFails
  PROVE  ReplacementInv'
<1> Typed
  BY DEF ReplacementInv
<1>1. /\ pc = "open" /\ SameFiles /\ SameTruth /\ flags' = flags
      /\ restoring' = restoring /\ config' = config /\ mixed' = mixed /\ faults' = faults + 1
  BY DEF OpenFails, Fault, files, history, SameFiles, SameTruth
<1>2. todo = <<>> /\ Opening /\ main["kept"] = None /\ restoring = None /\ ~mixed
  BY <1>1 DEF ReplacementInv, Point, Restoring
<1>3. Typed'
  BY <1>1 DEF Typed, SameFiles, SameTruth
<1>4. Point' /\ pc' \in {"rollback", "down"}
  <2>1. CASE flags = Bringing /\ Replaced
    <3>1. pc' = "rollback" /\ todo' = restorePrevious
      BY <2>1 DEF OpenFails, Becomes, Bringing
    <3> QED BY <1>1, <2>1, <3>1, RollbackStarts DEF Replaced
  <2>2. CASE flags = NoAdmission /\ (Clean \/ Blank)
    <3>1. pc' = "down" /\ todo' = <<>>
      BY <2>2 DEF OpenFails, Becomes, NoAdmission
    <3>2. Recoverable
      BY <2>2 DEF Recoverable, Clean
    <3>3. Recoverable'
      BY <1>1, <3>2, Quiet
    <3> QED BY <1>1, <2>2, <3>1, <3>3 DEF Point
  <2> QED BY <1>2, <2>1, <2>2 DEF Opening
<1>5. main'["kept"] = None /\ restoring' = None /\ ~mixed' /\ pc' \notin Restoring
      /\ pc' \notin {"commit", "cleanup", "up"}
  BY <1>1, <1>2, <1>4 DEF SameFiles, Restoring
<1> QED BY <1>3, <1>4, <1>5, Outside

LEMMA CommittedPreserves ==
  ASSUME ReplacementInv, Committed
  PROVE  ReplacementInv'
<1> Typed
  BY DEF ReplacementInv
<1>1. /\ pc = "commit" /\ todo = <<>> /\ pc' = "cleanup" /\ SameFiles /\ SameTruth /\ flags' = flags
      /\ restoring' = restoring /\ config' = config /\ mixed' = mixed /\ faults' = faults
      /\ slot' = slot
  BY DEF Committed, Becomes, files, history, bounds, SameFiles, SameTruth
<1>2. flags = Bringing /\ Committing /\ main["kept"] = None /\ restoring = None /\ ~mixed
  BY <1>1 DEF ReplacementInv, Point, Restoring
<1>3. Typed'
  BY <1>1 DEF Typed, SameFiles, SameTruth
<1>4. Serving /\ marker = "committed"
  BY <1>1, <1>2, Finished
<1>5. todo' = Debris
  BY <1>2, ShortPrograms DEF Committed, Becomes, Bringing
<1>6. Serving'
  BY <1>1, <1>4, Quiet
<1>7. Point'
  BY <1>1, <1>2, <1>4, <1>5, <1>6 DEF Point, SameFiles
<1>8. faults' = 0 => main'["incoming"] = slot'.incoming /\ config' = slot'.config
  BY <1>1 DEF ReplacementInv, SlotKept, SameFiles
<1>9. main'["kept"] = None /\ restoring' = None /\ ~mixed' /\ pc' \notin Restoring
  BY <1>1, <1>2 DEF SameFiles, Restoring
<1> QED BY <1>3, <1>7, <1>8, <1>9, Outside

LEMMA CleanedUpPreserves ==
  ASSUME ReplacementInv, CleanedUp
  PROVE  ReplacementInv'
<1> Typed
  BY DEF ReplacementInv
<1>1. /\ pc = "cleanup" /\ todo = <<>> /\ pc' = "up" /\ todo' = <<>> /\ SameFiles /\ SameTruth
      /\ flags' = NoAdmission /\ restoring' = restoring /\ config' = config /\ mixed' = mixed
      /\ faults' = faults /\ slot' = slot
  BY DEF CleanedUp, Becomes, files, history, bounds, SameFiles, SameTruth
<1>2. Serving /\ main["kept"] = None /\ restoring = None /\ ~mixed
  BY <1>1 DEF ReplacementInv, Point, Restoring
<1>3. Typed'
  BY <1>1 DEF Typed, SameFiles, SameTruth
<1>4. Serving'
  BY <1>1, <1>2, Quiet
<1>5. Point'
  BY <1>1, <1>4 DEF Point
<1>6. faults' = 0 => main'["incoming"] = slot'.incoming /\ config' = slot'.config
  BY <1>1 DEF ReplacementInv, SlotKept, SameFiles
<1>7. main'["kept"] = None /\ restoring' = None /\ ~mixed' /\ pc' \notin Restoring
  BY <1>1, <1>2 DEF SameFiles, Restoring
<1> QED BY <1>3, <1>5, <1>6, <1>7, Outside

LEMMA RolledBackPreserves ==
  ASSUME ReplacementInv, RolledBack
  PROVE  ReplacementInv'
<1> Typed
  BY DEF ReplacementInv
<1>1. /\ pc = "rollback" /\ todo = <<>> /\ pc' = "down" /\ todo' = <<>> /\ SameFiles /\ SameTruth
      /\ flags' = NoAdmission /\ restoring' = restoring /\ config' = config /\ mixed' = mixed
      /\ faults' = faults
  BY DEF RolledBack, Becomes, files, history, bounds, SameFiles, SameTruth
<1>2. Recoverable /\ main["kept"] = None /\ restoring = None /\ ~mixed
  BY <1>1, PointRecoverable DEF ReplacementInv, Restoring
<1>3. Typed'
  BY <1>1 DEF Typed, SameFiles, SameTruth
<1>4. Point'
  BY <1>1, <1>2, Quiet DEF Point
<1>5. main'["kept"] = None /\ restoring' = None /\ ~mixed' /\ pc' \notin Restoring
      /\ pc' \notin {"commit", "cleanup", "up"}
  BY <1>1, <1>2 DEF SameFiles, Restoring
<1> QED BY <1>3, <1>4, <1>5, Outside

LEMMA WritePreserves ==
  ASSUME ReplacementInv, Write
  PROVE  ReplacementInv'
<1> Typed
  BY DEF ReplacementInv
<1>1. /\ pc = "up" /\ pc' = pc /\ todo' = todo /\ flags' = flags /\ restoring' = restoring
      /\ config' = config /\ truth' = truth /\ slot' = slot /\ mixed' = mixed /\ faults' = faults
      /\ main' = main /\ marker' = marker
      /\ frames' = frames \union {main["live"]}
      /\ side' = [side EXCEPT !["live"] = main["live"]]
  BY DEF Write, bounds
<1>2. Serving /\ flags = NoAdmission /\ todo = <<>> /\ main["kept"] = None /\ restoring = None /\ ~mixed
  BY <1>1 DEF ReplacementInv, Point, Restoring
<1>3. Typed' /\ side'["live"] = main["live"] /\ side'["previous"] = side["previous"]
  BY <1>1 DEF Typed, Slots
<1>4. Serving'
  BY <1>1, <1>2, <1>3 DEF Serving, Settled, Whole, NoPrevious
<1>5. Point'
  BY <1>1, <1>2, <1>4 DEF Point
<1>6. faults' = 0 => main'["incoming"] = slot'.incoming /\ config' = slot'.config
  BY <1>1 DEF ReplacementInv, SlotKept
<1>7. main'["kept"] = None /\ restoring' = None /\ ~mixed' /\ pc' \notin Restoring
  BY <1>1, <1>2 DEF Restoring
<1> QED BY <1>3, <1>5, <1>6, <1>7, Outside

LEMMA CloseStorePreserves ==
  ASSUME ReplacementInv, CloseStore
  PROVE  ReplacementInv'
<1> Typed
  BY DEF ReplacementInv
<1>1. /\ pc = "up" /\ pc' = "down" /\ todo' = todo /\ flags' = flags /\ restoring' = restoring
      /\ config' = config /\ truth' = truth /\ slot' = slot /\ mixed' = mixed /\ faults' = faults
      /\ main' = main /\ marker' = marker
      /\ frames' = frames \ {main["live"]}
      /\ side' = [side EXCEPT !["live"] = None]
  BY DEF CloseStore
<1>2. Serving /\ flags = NoAdmission /\ todo = <<>> /\ main["kept"] = None /\ restoring = None /\ ~mixed
  BY <1>1 DEF ReplacementInv, Point, Restoring
<1>3. Typed' /\ side'["live"] = None /\ side'["previous"] = side["previous"]
  BY <1>1 DEF Typed, Slots, Files
<1>4. Settled'
  BY <1>1, <1>2, <1>3 DEF Serving, Settled, Whole, NoPrevious
<1>5. Point'
  BY <1>1, <1>2, <1>4 DEF Point, Recoverable
<1>6. main'["kept"] = None /\ restoring' = None /\ ~mixed' /\ pc' \notin Restoring
      /\ pc' \notin {"commit", "cleanup", "up"}
  BY <1>1, <1>2 DEF Restoring
<1> QED BY <1>3, <1>5, <1>6, Outside

LEMMA CrashPreserves ==
  ASSUME ReplacementInv, Crash
  PROVE  ReplacementInv'
<1> Typed
  BY DEF ReplacementInv
<1>1. /\ pc' = "down" /\ todo' = <<>> /\ flags' = NoAdmission /\ restoring' = None
      /\ config' = config /\ SameTruth /\ mixed' = mixed /\ faults' = faults
      /\ side' = side /\ marker' = marker
      /\ main' = [main EXCEPT !["kept"] = None]
  BY DEF Crash, Becomes, history, SameTruth
<1>2. Recoverable /\ ~mixed
  BY PointRecoverable DEF ReplacementInv
<1>3. Typed' /\ SameDisk /\ main'["kept"] = None /\ main'["incoming"] = main["incoming"]
  BY <1>1 DEF Typed, SameTruth, SameDisk, Slots, Files
<1>4. Recoverable'
  BY <1>2, <1>3, DisksKept DEF Recoverable
<1>5. Point'
  BY <1>1, <1>4 DEF Point
<1>6. restoring' = None /\ ~mixed' /\ pc' \notin Restoring /\ pc' \notin {"commit", "cleanup", "up"}
  BY <1>1, <1>2 DEF Restoring
<1> QED BY <1>3, <1>5, <1>6, Outside

-----------------------------------------------------------------------------
(* A restore while the proxy serves.                                       *)

\* The invariant, for steps inside a restore.
LEMMA Inside ==
  ASSUME Typed', ~mixed', pc' \in Restoring, flags' = NoAdmission, todo' \in TodoOf(pc'),
         Serving', faults' = 0 => SlotKept'
  PROVE  ReplacementInv'
<1>1. Point'
  BY DEF Point
<1> QED BY <1>1 DEF ReplacementInv

LEMMA HandleRestorePreserves ==
  ASSUME ReplacementInv, NEW s \in Snapshots, handleRestore(s)
  PROVE  ReplacementInv'
<1> Typed
  BY DEF ReplacementInv
<1>1. /\ pc = "up" /\ pc' = "capture" /\ todo' = KeepAside /\ SameFiles /\ SameTruth
      /\ flags' = flags /\ restoring' = s /\ config' = config /\ mixed' = mixed
      /\ faults' = faults /\ slot' = slot
  BY ShortPrograms DEF handleRestore, captureRestorePending, Becomes, files, history, SameFiles, SameTruth
<1>2. Serving /\ flags = NoAdmission /\ main["kept"] = None /\ ~mixed
  BY <1>1 DEF ReplacementInv, Point, Restoring
<1>3. Typed'
  BY <1>1 DEF Typed, SameFiles, SameTruth
<1>4. Serving'
  BY <1>1, <1>2, Quiet
<1>5. ASSUME faults' = 0 PROVE SlotKept'
  <2>1. main["incoming"] = slot.incoming /\ config = slot.config
    BY <1>1, <1>5 DEF ReplacementInv, SlotKept
  <2>2. Captured'
    BY <1>1, <1>2, <2>1 DEF Captured, SameFiles
  <2> QED BY <1>1, <2>1, <2>2 DEF SlotKept
<1>6. todo' \in TodoOf(pc') /\ pc' \in Restoring
  BY <1>1 DEF TodoOf, Restoring
<1> QED BY <1>1, <1>2, <1>3, <1>4, <1>5, <1>6, Inside

LEMMA StageSnapshotFilePreserves ==
  ASSUME ReplacementInv, StageSnapshotFile
  PROVE  ReplacementInv'
<1> Typed
  BY DEF ReplacementInv
<1>1. /\ pc = "capture" /\ todo = <<>> /\ pc' = "staged" /\ todo' = <<>> /\ side' = side
      /\ marker' = marker /\ SameTruth /\ flags' = flags /\ restoring' = restoring
      /\ config' = config /\ mixed' = mixed /\ faults' = faults /\ slot' = slot
      /\ main' = [main EXCEPT !["incoming"] = restoring]
  BY DEF StageSnapshotFile, Becomes, history, bounds, SameTruth
<1>2. Serving /\ flags = NoAdmission /\ ~mixed
  BY <1>1 DEF ReplacementInv, Point, Restoring
<1>3. restoring \in Files
  BY DEF Typed, Files, Databases
<1>4. Typed' /\ SameDisk /\ main'["incoming"] = restoring /\ main'["kept"] = main["kept"]
  BY <1>1, <1>3 DEF Typed, SameTruth, SameDisk, Slots
<1>5. Serving'
  BY <1>2, <1>4, DisksKept
<1>6. ASSUME faults' = 0 PROVE SlotKept'
  <2>1. Captured /\ config = slot.config
    BY <1>1, <1>6 DEF ReplacementInv, SlotKept
  <2>2. main["kept"] = slot.incoming
    BY <1>1, <2>1, Distinct DEF Captured
  <2> QED BY <1>1, <1>4, <2>1, <2>2 DEF SlotKept
<1>7. todo' \in TodoOf(pc') /\ pc' \in Restoring
  BY <1>1 DEF TodoOf, Restoring
<1> QED BY <1>1, <1>2, <1>4, <1>5, <1>6, <1>7, Inside

LEMMA RemoveStalePreserves ==
  ASSUME ReplacementInv, RemoveStale
  PROVE  ReplacementInv'
<1> Typed
  BY DEF ReplacementInv
<1>1. /\ pc = "capture" /\ todo = <<>> /\ pc' = pc /\ todo' = DropSide /\ SameFiles /\ SameTruth
      /\ flags' = flags /\ restoring' = restoring
      /\ config' = config /\ mixed' = mixed /\ faults' = faults /\ slot' = slot
  BY ShortPrograms DEF RemoveStale, files, history, bounds, SameFiles, SameTruth
<1>2. Serving /\ flags = NoAdmission /\ ~mixed
  BY <1>1 DEF ReplacementInv, Point, Restoring
<1>3. Typed'
  BY <1>1 DEF Typed, SameFiles, SameTruth
<1>4. Serving'
  BY <1>1, <1>2, Quiet
<1>5. ASSUME faults' = 0 PROVE SlotKept'
  <2>1. Captured /\ config = slot.config
    BY <1>1, <1>5 DEF ReplacementInv, SlotKept
  <2>2. Captured'
    BY <1>1, <2>1, Distinct DEF Captured, SameFiles
  <2> QED BY <1>1, <2>1, <2>2 DEF SlotKept
<1>6. todo' \in TodoOf(pc') /\ pc' \in Restoring
  BY <1>1 DEF TodoOf, Restoring
<1> QED BY <1>1, <1>2, <1>3, <1>4, <1>5, <1>6, Inside

\* The guard's rollback undoes what was staged.
LEMMA GuardRollsBack ==
  /\ guardRollback \in {PutBack, DropBoth}
  /\ main["kept"] # None => guardRollback = PutBack
  /\ main["kept"] = None => guardRollback = DropBoth
BY ShortPrograms DEF guardRollback

LEMMA ValidatePreserves ==
  ASSUME ReplacementInv, ValidatePendingSnapshot
  PROVE  ReplacementInv'
<1> Typed
  BY DEF ReplacementInv
<1>1. /\ pc = "staged" /\ main' = main /\ marker' = marker /\ SameTruth /\ flags' = flags
      /\ restoring' = restoring /\ config' = config /\ mixed' = mixed /\ faults' = faults
      /\ slot' = slot
      /\ \/ side' = side /\ pc' = "configure" /\ todo' = <<>>
         \/ /\ side' = [side EXCEPT !["incoming"] = restoring]
            /\ pc' = "undo" /\ todo' = guardRollback
  BY DEF ValidatePendingSnapshot, Becomes, history, bounds, SameTruth
<1>2. Serving /\ flags = NoAdmission /\ ~mixed
  BY <1>1 DEF ReplacementInv, Point, Restoring
<1>3. restoring \in Files
  BY DEF Typed, Files, Databases
<1>4. Typed' /\ SameDisk
  BY <1>1, <1>3 DEF Typed, SameTruth, SameDisk, Slots
<1>5. Serving'
  BY <1>2, <1>4, DisksKept
<1>6. ASSUME faults' = 0 PROVE SlotKept'
  <2>1. main["incoming"] = restoring /\ main["kept"] = slot.incoming /\ config = slot.config
    BY <1>1, <1>6 DEF ReplacementInv, SlotKept
  <2>2. pc' = "undo" => Undoing'
    BY <1>1, <2>1, GuardRollsBack DEF Undoing
  <2> QED BY <1>1, <2>1, <2>2 DEF SlotKept
<1>7. todo' \in TodoOf(pc') /\ pc' \in Restoring
  BY <1>1, GuardRollsBack DEF TodoOf, Restoring
<1> QED BY <1>1, <1>2, <1>4, <1>5, <1>6, <1>7, Inside

LEMMA ApplyConfigPreserves ==
  ASSUME ReplacementInv, applyRestoreConfig
  PROVE  ReplacementInv'
<1> Typed
  BY DEF ReplacementInv
<1>1. /\ pc = "configure" /\ pc' = "discard" /\ todo' = Discard /\ SameFiles /\ SameTruth
      /\ flags' = flags /\ restoring' = restoring /\ config' = restoring /\ mixed' = mixed
      /\ faults' = faults /\ slot' = slot
  BY ShortPrograms DEF applyRestoreConfig, Becomes, files, history, bounds, SameFiles, SameTruth
<1>2. Serving /\ flags = NoAdmission /\ ~mixed
  BY <1>1 DEF ReplacementInv, Point, Restoring
<1>3. Typed'
  BY <1>1 DEF Typed, SameFiles, SameTruth
<1>4. Serving'
  BY <1>1, <1>2, Quiet
<1>5. faults' = 0 => SlotKept'
  BY <1>1 DEF ReplacementInv, SlotKept, SameFiles
<1>6. todo' \in TodoOf(pc') /\ pc' \in Restoring
  BY <1>1 DEF TodoOf, Restoring
<1> QED BY <1>1, <1>2, <1>3, <1>4, <1>5, <1>6, Inside

LEMMA RollbackConfigPreserves ==
  ASSUME ReplacementInv, rollbackRestoreConfig
  PROVE  ReplacementInv'
<1> Typed
  BY DEF ReplacementInv
<1>1. /\ pc = "configure" /\ pc' = "undo" /\ todo' = guardRollback /\ SameFiles /\ SameTruth
      /\ flags' = flags /\ restoring' = restoring /\ config' = config /\ mixed' = mixed
      /\ faults' = faults /\ slot' = slot
  BY DEF rollbackRestoreConfig, Becomes, files, history, bounds, SameFiles, SameTruth
<1>2. Serving /\ flags = NoAdmission /\ ~mixed
  BY <1>1 DEF ReplacementInv, Point, Restoring
<1>3. Typed'
  BY <1>1 DEF Typed, SameFiles, SameTruth
<1>4. Serving'
  BY <1>1, <1>2, Quiet
<1>5. ASSUME faults' = 0 PROVE SlotKept'
  <2>1. main["kept"] = slot.incoming /\ config = slot.config
    BY <1>1, <1>5 DEF ReplacementInv, SlotKept
  <2>2. Undoing'
    BY <1>1, <2>1, GuardRollsBack DEF Undoing, SameFiles
  <2> QED BY <1>1, <2>1, <2>2 DEF SlotKept
<1>6. todo' \in TodoOf(pc') /\ pc' \in Restoring
  BY <1>1, GuardRollsBack DEF TodoOf, Restoring
<1> QED BY <1>1, <1>2, <1>3, <1>4, <1>5, <1>6, Inside

LEMMA RestoreDonePreserves ==
  ASSUME ReplacementInv, RestoreDone
  PROVE  ReplacementInv'
<1> Typed
  BY DEF ReplacementInv
<1>1. /\ pc \in {"discard", "undo"} /\ todo = <<>> /\ pc' = "up" /\ todo' = <<>> /\ side' = side
      /\ marker' = marker /\ SameTruth /\ flags' = flags /\ restoring' = None
      /\ config' = config /\ mixed' = mixed /\ faults' = faults
      /\ slot' = IF pc = "discard" THEN [incoming |-> restoring, config |-> restoring] ELSE slot
      /\ main' = [main EXCEPT !["kept"] = None]
  BY DEF RestoreDone, Becomes, bounds, SameTruth
<1>2. Serving /\ flags = NoAdmission /\ ~mixed
  BY <1>1 DEF ReplacementInv, Point, Restoring
<1>3. Typed' /\ SameDisk /\ main'["incoming"] = main["incoming"] /\ main'["kept"] = None
  BY <1>1 DEF Typed, SameTruth, SameDisk, Slots, Files
<1>4. Serving'
  BY <1>2, <1>3, DisksKept
<1>5. Point'
  BY <1>1, <1>2, <1>4 DEF Point
<1>6. ASSUME faults' = 0 PROVE main'["incoming"] = slot'.incoming /\ config' = slot'.config
  <2>1. CASE pc = "discard"
    BY <1>1, <1>3, <1>6, <2>1 DEF ReplacementInv, SlotKept
  <2>2. CASE pc = "undo"
    <3>1. Undoing /\ config = slot.config
      BY <1>1, <1>6, <2>2 DEF ReplacementInv, SlotKept
    <3>2. main["incoming"] = slot.incoming
      BY <1>1, <3>1, Distinct DEF Undoing
    <3> QED BY <1>1, <1>3, <2>2, <3>1, <3>2
  <2> QED BY <1>1, <2>1, <2>2
<1>7. ~mixed' /\ pc' \notin Restoring
  BY <1>1, <1>2 DEF Restoring
<1> QED BY <1>1, <1>3, <1>5, <1>6, <1>7, Outside

-----------------------------------------------------------------------------
(* An I/O error instead of an operation.                                   *)

LEMMA Heads ==
  /\ Head(Install1).kind = "mark" /\ Head(Install2).kind = "side" /\ Head(Install3).kind = "main"
  /\ Head(Install4).kind = "main" /\ Head(Install5).kind = "sync"
  /\ Tail(ToQuarantine(<<>>)) = MainToQuarantine(<<>>) /\ Tail(MainToQuarantine(<<>>)) = <<>>
  /\ Tail(Debris) = DebrisSide /\ Tail(DebrisSide) = <<>> /\ Tail(Discard) = <<>>
<1> USE DEF Slots
<1> DEFINE none == <<>>
<1>1. /\ none \in Seq(Ops) /\ MainToQuarantine(none) \in Seq(Ops) /\ DebrisSide \in Seq(Ops)
      /\ Install2 \in Seq(Ops) /\ Install3 \in Seq(Ops) /\ Install4 \in Seq(Ops)
      /\ Install5 \in Seq(Ops)
  BY ProgramTypes
<1>2. /\ DebrisSide = Then(Op("side", "previous", None), none)
      /\ Discard = Then(Op("main", "kept", None), none)
      /\ Install5 = Then(Op("sync", None, None), none)
  BY DEF DebrisSide, Discard, Install5
<1>3. /\ Tail(ToQuarantine(<<>>)) = Tail(ToQuarantine(none))
      /\ MainToQuarantine(<<>>) = MainToQuarantine(none)
  OBVIOUS
<1> HIDE DEF none
<1>4. \A op \in Ops, rest \in Seq(Ops) :
        Head(Then(op, rest)) = op /\ Tail(Then(op, rest)) = rest
  BY ThenFacts
<1>5. /\ Op("mark", "pending", None) \in Ops /\ Op("side", "live", "previous") \in Ops
      /\ Op("main", "live", "previous") \in Ops /\ Op("main", "incoming", "live") \in Ops
      /\ Op("sync", None, None) \in Ops /\ Op("side", "incoming", "quarantine") \in Ops
      /\ Op("main", "incoming", "quarantine") \in Ops /\ Op("main", "previous", None) \in Ops
      /\ Op("side", "previous", None) \in Ops /\ Op("main", "kept", None) \in Ops
  BY OpType
<1>6. /\ Head(Install1) = Op("mark", "pending", None)
      /\ Head(Install2) = Op("side", "live", "previous")
      /\ Head(Install3) = Op("main", "live", "previous")
      /\ Head(Install4) = Op("main", "incoming", "live")
      /\ Head(Install5) = Op("sync", None, None)
  BY <1>1, <1>2, <1>4, <1>5, Zenon DEF Install1, Install2, Install3, Install4
<1>7. /\ Head(Install1).kind = "mark" /\ Head(Install2).kind = "side"
      /\ Head(Install3).kind = "main" /\ Head(Install4).kind = "main"
      /\ Head(Install5).kind = "sync"
  BY <1>6 DEF Op
<1>8. Tail(ToQuarantine(none)) = MainToQuarantine(none) /\ Tail(MainToQuarantine(none)) = none
  BY <1>1, <1>4, <1>5, Zenon DEF ToQuarantine, MainToQuarantine
<1>9. Tail(Debris) = DebrisSide /\ Tail(DebrisSide) = none /\ Tail(Discard) = none
  BY <1>1, <1>2, <1>4, <1>5, Zenon DEF Debris
<1> QED BY <1>7, <1>8, <1>9 DEF none

\* The programs that start with a marker or with a sidecar of the rollback set.
LEMMA FirstOps ==
  /\ \A rest \in Seq(Ops) :
       /\ \A p \in {SideGone(rest), SideBack(rest), SideAway(rest), ToQuarantine(rest)} :
            Head(p).kind = "side" /\ Head(p) # Op("side", "previous", None)
       /\ \A p \in {MainGone(rest), MainBack(rest), MainToQuarantine(rest)} :
            Head(p).kind = "main"
  /\ \A p \in {DropSide, DropBoth, DebrisSide, Install2} : Head(p).kind = "side"
  /\ \A p \in {DropMain, Debris, KeepAside, PutBack, Discard, Install3, Install4} :
       Head(p).kind = "main"
  /\ Head(SyncUnmark).kind = "sync" /\ Head(Install5).kind = "sync"
  /\ Head(Unmark) = Op("mark", None, None) /\ Head(Install1) = Op("mark", "pending", None)
  /\ Head(Commit) = Op("mark", "committed", None)
<1> USE DEF Slots
<1> DEFINE none == <<>>
<1>1. \A k \in {"main", "side", "mark", "sync"}, a \in Slots \cup {None, "pending", "committed"},
         b \in Slots \cup {None}, rest \in Seq(Ops) :
        Head(Then(Op(k, a, b), rest)) = Op(k, a, b)
  BY OpType, ThenFacts
<1>2. \A k, a, b : Op(k, a, b).kind = k /\ Op(k, a, b).from = a /\ Op(k, a, b).to = b
  BY DEF Op
<1>3. none \in Seq(Ops)
  OBVIOUS
<1>4. ASSUME NEW rest \in Seq(Ops)
      PROVE  /\ \A p \in {SideGone(rest), SideBack(rest), SideAway(rest), ToQuarantine(rest)} :
                  Head(p).kind = "side" /\ Head(p) # Op("side", "previous", None)
             /\ \A p \in {MainGone(rest), MainBack(rest), MainToQuarantine(rest)} :
                  Head(p).kind = "main"
  <2>1. /\ MainGone(rest) \in Seq(Ops) /\ MainToQuarantine(rest) \in Seq(Ops)
        /\ SideBack(rest) \in Seq(Ops)
    BY ProgramTypes
  <2>2. /\ Head(SideGone(rest)) = Op("side", "live", None)
        /\ Head(SideBack(rest)) = Op("side", "previous", "live")
        /\ Head(SideAway(rest)) = Op("side", "live", "previous")
        /\ Head(ToQuarantine(rest)) = Op("side", "incoming", "quarantine")
    BY <1>1, <2>1 DEF SideGone, SideBack, SideAway, ToQuarantine
  <2>3. /\ Head(MainGone(rest)) = Op("main", "live", None)
        /\ Head(MainBack(rest)) = Op("main", "previous", "live")
        /\ Head(MainToQuarantine(rest)) = Op("main", "incoming", "quarantine")
    BY <1>1, <2>1 DEF MainGone, MainBack, MainToQuarantine
  <2>4. /\ Op("side", "live", None) # Op("side", "previous", None)
        /\ Op("side", "previous", "live") # Op("side", "previous", None)
        /\ Op("side", "live", "previous") # Op("side", "previous", None)
        /\ Op("side", "incoming", "quarantine") # Op("side", "previous", None)
    BY <1>2 DEF None
  <2> QED BY <1>2, <2>2, <2>3, <2>4
<1>5. /\ DropMain \in Seq(Ops) /\ DebrisSide \in Seq(Ops) /\ Install3 \in Seq(Ops)
      /\ Install4 \in Seq(Ops) /\ Install5 \in Seq(Ops) /\ Install2 \in Seq(Ops)
      /\ Unmark \in Seq(Ops)
  BY ProgramTypes
<1>6. /\ DropSide = Then(Op("side", "incoming", None), none)
      /\ DebrisSide = Then(Op("side", "previous", None), none)
      /\ DropMain = Then(Op("main", "incoming", None), none)
      /\ KeepAside = Then(Op("main", "incoming", "kept"), none)
      /\ PutBack = Then(Op("main", "kept", "incoming"), none)
      /\ Discard = Then(Op("main", "kept", None), none)
      /\ Install5 = Then(Op("sync", None, None), none)
      /\ Unmark = Then(Op("mark", None, None), none)
      /\ Commit = Then(Op("mark", "committed", None), none)
  BY DEF DropSide, DebrisSide, DropMain, KeepAside, PutBack, Discard, Install5, Unmark, Commit
<1> HIDE DEF none
<1>7. /\ Head(DropSide) = Op("side", "incoming", None)
      /\ Head(DropBoth) = Op("side", "incoming", None)
      /\ Head(DebrisSide) = Op("side", "previous", None)
      /\ Head(Install2) = Op("side", "live", "previous")
  BY <1>1, <1>3, <1>5, <1>6 DEF DropBoth, Install2
<1>8. /\ Head(DropMain) = Op("main", "incoming", None)
      /\ Head(Debris) = Op("main", "previous", None)
      /\ Head(KeepAside) = Op("main", "incoming", "kept")
      /\ Head(PutBack) = Op("main", "kept", "incoming")
      /\ Head(Discard) = Op("main", "kept", None)
  BY <1>1, <1>3, <1>5, <1>6 DEF Debris
<1>9. /\ Head(Install3) = Op("main", "live", "previous")
      /\ Head(Install4) = Op("main", "incoming", "live")
  BY <1>1, <1>5 DEF Install3, Install4
<1>10. /\ Head(SyncUnmark) = Op("sync", None, None) /\ Head(Install5) = Op("sync", None, None)
       /\ Head(Unmark) = Op("mark", None, None) /\ Head(Install1) = Op("mark", "pending", None)
       /\ Head(Commit) = Op("mark", "committed", None)
  BY <1>1, <1>3, <1>5, <1>6 DEF SyncUnmark, Install1
<1> QED BY <1>2, <1>4, <1>7, <1>8, <1>9, <1>10

\* Where a marker is the next operation.
LEMMA AtMarker ==
  ASSUME Point, todo # <<>>, Head(todo).kind = "mark"
  PROVE  \/ todo = Unmark /\ HomeWhole /\ pc \in {"recover", "rollback"}
         \/ todo = Install1 /\ Clean /\ pc = "install"
         \/ todo = Commit
<1>1. Unmark \in Seq(Ops) /\ SyncUnmark \in Seq(Ops) /\ ToQuarantine(Unmark) \in Seq(Ops)
      /\ MainBack(ToQuarantine(Unmark)) \in Seq(Ops) /\ <<>> \in Seq(Ops)
  BY ProgramTypes
<1>2. ASSUME NEW rest \in Seq(Ops), Returning(rest) PROVE todo = rest /\ HomeWhole
  <2>1. MainBack(rest) \in Seq(Ops)
    BY ProgramTypes
  <2> QED BY <1>2, <2>1, FirstOps DEF Returning
<1>3. ~Returning(ToQuarantine(Unmark)) /\ ~Returning(SyncUnmark)
  BY <1>1, <1>2, FirstOps
<1>4. ASSUME pc = "recover" PROVE todo = Unmark /\ HomeWhole
  <2>1. Recovering
    BY <1>4 DEF Point, Restoring
  <2>2. todo # SideAway(MainBack(ToQuarantine(Unmark))) /\ todo # MainToQuarantine(Unmark)
        /\ todo # Debris /\ todo # DebrisSide
    BY <1>1, FirstOps
  <2> QED BY <1>1, <1>2, <1>3, <2>1, <2>2 DEF Recovering
<1>5. ASSUME pc = "rollback" PROVE todo = Unmark /\ HomeWhole
  <2>1. RollingBack
    BY <1>5 DEF Point, Restoring
  <2> QED BY <1>3, <2>1 DEF RollingBack
<1>6. ASSUME pc = "install" PROVE todo = Install1 /\ Clean
  <2>1. Installing
    BY <1>6 DEF Point, Restoring
  <2> QED BY <2>1, FirstOps DEF Installing
<1>7. ASSUME pc = "commit" PROVE todo = Commit
  BY <1>7 DEF Point, Restoring, Committing
<1>8. pc \notin {"preflight", "preflighted", "reject", "cleanup"}
  <2>1. /\ todo # DropSide /\ todo # Debris /\ todo # DebrisSide
        /\ todo # ToQuarantine(<<>>) /\ todo # MainToQuarantine(<<>>)
    BY <1>1, FirstOps
  <2> QED BY <2>1 DEF Point, Restoring
<1>9. pc \notin Restoring
  <2>1. /\ todo # KeepAside /\ todo # DropSide /\ todo # PutBack /\ todo # DropBoth
        /\ todo # DropMain /\ todo # Discard
    BY FirstOps
  <2>2. ASSUME pc \in Restoring PROVE todo \in TodoOf(pc)
    BY <2>2 DEF Point, Restoring
  <2> QED BY <2>1, <2>2 DEF TodoOf
<1>10. pc \in {"recover", "rollback", "install", "commit"}
  BY <1>8, <1>9 DEF Point
<1> QED BY <1>4, <1>5, <1>6, <1>7, <1>10

\* A marker that is on disk though its write answered an error, other than the one that
\* commits: the next boot finds a disk it knows.
LEMMA MarkerLandsPreserves ==
  ASSUME ReplacementInv, FileOpFails, marker' # marker, marker' # "committed"
  PROVE  ReplacementInv'
<1> Typed
  BY DEF ReplacementInv
<1>1. /\ todo # <<>> /\ pc' = OnError.at /\ todo' = OnError.ops /\ SameTruth
      /\ main' = main /\ side' = side
      /\ flags' = IF OnError.at = "down" THEN NoAdmission ELSE flags
      /\ restoring' = restoring /\ config' = config /\ mixed' = mixed
      /\ faults' = faults + 1
  BY DEF FileOpFails, Fault, Becomes, SameTruth
<1>2. Head(todo).kind = "mark" /\ marker' = Head(todo).from
  BY DEF FileOpFails
<1>3. Point /\ ~mixed
  BY DEF ReplacementInv
<1>4. \A k, a, b : Op(k, a, b).kind = k /\ Op(k, a, b).from = a
  BY DEF Op
<1>5. todo # Commit
  BY <1>2, <1>4, FirstOps
<1>6. \/ todo = Unmark /\ HomeWhole /\ pc \in {"recover", "rollback"} /\ marker' = None
      \/ todo = Install1 /\ Clean /\ pc = "install" /\ marker' = "pending"
  BY <1>1, <1>2, <1>3, <1>4, <1>5, AtMarker, FirstOps
<1>7. ~DebrisSidecar
  BY <1>2, <1>4 DEF DebrisSidecar, RemoveSide
<1>8. pc' = "down" /\ todo' = <<>> /\ flags' = NoAdmission
  BY <1>1, <1>2, <1>6, <1>7 DEF OnError
<1>9. Settled' \/ Home'
  <2>1. CASE todo = Unmark /\ HomeWhole /\ marker' = None
    BY <1>1, <2>1 DEF SameTruth, HomeWhole, Home, Settled, Whole, NoPrevious
  <2>2. CASE todo = Install1 /\ Clean /\ marker' = "pending"
    BY <1>1, <2>2 DEF SameTruth, Home, Clean, Settled, Whole, NoPrevious
  <2> QED BY <1>6, <2>1, <2>2
<1>10. Point' /\ pc' \notin Restoring /\ pc \notin Restoring
  BY <1>6, <1>8, <1>9 DEF Point, Recoverable, Restoring
<1>11. Typed' /\ faults' # 0
  BY <1>1, <1>6 DEF Typed, SameTruth
<1>12. main'["kept"] = None /\ restoring' = None
  BY <1>1, <1>10 DEF ReplacementInv
<1> QED BY <1>1, <1>3, <1>10, <1>11, <1>12, Outside

\* With the marker as it was, and no sidecar of the rollback set left behind by a boot.
LEMMA FileOpFailsPreserves ==
  ASSUME ReplacementInv, FileOpFails, marker' = marker,
         pc = "recover" /\ DebrisSidecar => side["previous"] = None
  PROVE  ReplacementInv'
<1> Typed
  BY DEF ReplacementInv
<1>1. /\ todo # <<>> /\ pc' = OnError.at /\ todo' = OnError.ops /\ SameFiles /\ SameTruth
      /\ flags' = IF OnError.at = "down" THEN NoAdmission ELSE flags
      /\ restoring' = restoring /\ config' = config /\ mixed' = mixed /\ slot' = slot
      /\ faults' = faults + 1
  BY DEF FileOpFails, Fault, Becomes, SameFiles, SameTruth
<1>2. Typed' /\ faults' # 0 /\ ~mixed'
  BY <1>1 DEF Typed, SameFiles, SameTruth, ReplacementInv
<1>3. Point /\ Recoverable'
  BY <1>1, PointRecoverable, Quiet DEF ReplacementInv
<1>4. ASSUME pc \notin Restoring, pc' \notin Restoring, Point' PROVE ReplacementInv'
  <2>1. main'["kept"] = None /\ restoring' = None
    BY <1>1, <1>4 DEF ReplacementInv, SameFiles
  <2> QED BY <1>2, <1>4, <2>1, Outside
<1>5. ASSUME pc' = "down", todo' = <<>>, pc \notin Restoring PROVE ReplacementInv'
  <2>1. Point' /\ pc' \notin Restoring
    BY <1>1, <1>3, <1>5 DEF Point, Restoring
  <2> QED BY <1>4, <1>5, <2>1
<1>6. CASE pc \in {"preflight", "rollback"} \/ (pc = "recover" /\ ~DebrisSidecar)
  <2>1. pc' = "down" /\ todo' = <<>> /\ pc \notin Restoring
    BY <1>1, <1>6 DEF OnError, Restoring
  <2> QED BY <1>5, <2>1
<1>14. CASE pc = "recover" /\ DebrisSidecar
  <2>1. pc' = "recover" /\ todo' = <<>> /\ flags' = flags
    BY <1>1, <1>14 DEF OnError
  <2>2. flags = NoAdmission /\ Recovering
    BY <1>3, <1>14 DEF Point, Restoring
  <2>3. Head(todo) = Op("side", "previous", None) /\ Head(todo).kind = "side"
    BY <1>14 DEF DebrisSidecar, RemoveSide, Op
  <2>4. ASSUME NEW rest \in Seq(Ops), Returning(rest) PROVE todo = rest
    <3>1. MainBack(rest) \in Seq(Ops)
      BY ProgramTypes
    <3> QED BY <2>3, <2>4, <3>1, FirstOps DEF Returning
  <2>5. /\ Unmark \in Seq(Ops) /\ ToQuarantine(Unmark) \in Seq(Ops)
        /\ MainBack(ToQuarantine(Unmark)) \in Seq(Ops)
    BY ProgramTypes
  <2>6. Head(Unmark).kind = "mark"
    BY FirstOps DEF Op
  <2>7. /\ todo # SideAway(MainBack(ToQuarantine(Unmark))) /\ todo # MainToQuarantine(Unmark)
        /\ todo # Debris /\ todo # Unmark /\ todo # ToQuarantine(Unmark)
    BY <2>3, <2>5, <2>6, FirstOps
  <2>8. (Settled \/ Blank) /\ main["previous"] = None
    BY <1>1, <2>2, <2>4, <2>5, <2>7 DEF Recovering
  <2>9. Clean \/ Blank
    BY <1>14, <2>8 DEF Clean, NoPrevious
  <2>10. Clean' \/ Blank'
    BY <1>1, <2>9, Quiet
  <2>11. Point' /\ pc' \notin Restoring /\ pc \notin Restoring
    BY <1>14, <2>1, <2>2, <2>10 DEF Point, Recovering, Restoring
  <2> QED BY <1>4, <2>11
<1>7. CASE pc = "preflighted"
  <2>1. pc' = "reject" /\ todo' = ToQuarantine(<<>>)
    BY <1>1, <1>7, ShortPrograms DEF OnError
  <2>2. Clean /\ flags = NoAdmission
    BY <1>3, <1>7 DEF Point, Restoring
  <2>3. Clean' /\ flags' = NoAdmission
    BY <1>1, <2>1, <2>2, Quiet
  <2>4. Point' /\ pc' \notin Restoring /\ pc \notin Restoring
    BY <1>7, <2>1, <2>3 DEF Point, Restoring
  <2> QED BY <1>4, <2>4
<1>8. CASE pc = "reject"
  <2>1. /\ flags = NoAdmission /\ Clean
        /\ todo \in {ToQuarantine(<<>>), MainToQuarantine(<<>>)}
    BY <1>1, <1>3, <1>8 DEF Point, Restoring
  <2>2. pc' = "reject" /\ todo' = <<>> /\ flags' = flags
    BY <1>1, <1>8 DEF OnError
  <2>3. Clean'
    BY <1>1, <2>1, Quiet
  <2>4. Point' /\ pc' \notin Restoring /\ pc \notin Restoring
    BY <1>8, <2>1, <2>2, <2>3 DEF Point, Restoring
  <2> QED BY <1>4, <2>4
<1>9. CASE pc = "install"
  <2>1. flags = Bringing /\ Installing /\ pc \notin Restoring
    BY <1>3, <1>9 DEF Point, Restoring
  <2>2. CASE todo = Install1
    <3>1. pc' = "down" /\ todo' = <<>>
      BY <1>1, <1>9, <2>2, Heads DEF OnError
    <3> QED BY <1>5, <2>1, <3>1
  <2>3. CASE todo # Install1
    <3>1. Head(todo).kind # "mark" /\ ((Home /\ main["incoming"] # None) \/ Away)
      BY <1>1, <2>1, <2>3, Heads DEF Installing, HomeWhole, Replaced
    <3>2. OnError = [at |-> "rollback", ops |-> restorePrevious]
      BY <1>9, <3>1 DEF OnError
    <3>3. pc' = "rollback" /\ todo' = restorePrevious /\ flags' = flags
      BY <1>1, <3>2
    <3>4. Point'
      BY <1>1, <2>1, <3>1, <3>3, RollbackStarts
    <3>5. pc' \notin Restoring
      BY <3>3 DEF Restoring
    <3> QED BY <1>4, <2>1, <3>4, <3>5
  <2> QED BY <2>2, <2>3
<1>10. CASE pc = "commit"
  <2>1. flags = Bringing /\ Committing /\ pc \notin Restoring
    BY <1>3, <1>10 DEF Point, Restoring
  <2>2. Away
    BY <1>1, <2>1 DEF Committing, Replaced
  <2>3. pc' = "rollback" /\ todo' = restorePrevious /\ flags' = flags
    BY <1>1, <1>10 DEF OnError
  <2>4. Point'
    BY <1>1, <2>1, <2>2, <2>3, RollbackStarts
  <2>5. pc' \notin Restoring
    BY <2>3 DEF Restoring
  <2> QED BY <1>4, <2>1, <2>4, <2>5
<1>11. CASE pc = "cleanup"
  <2>1. /\ flags = Bringing /\ Serving /\ marker = "committed" /\ todo \in {Debris, DebrisSide}
    BY <1>1, <1>3, <1>11 DEF Point, Restoring
  <2>2. pc' = "cleanup" /\ todo' = <<>> /\ flags' = flags
    BY <1>1, <1>11 DEF OnError
  <2>3. Serving' /\ marker' = "committed"
    BY <1>1, <2>1, Quiet DEF SameFiles
  <2>4. Point' /\ pc' \notin Restoring /\ pc \notin Restoring
    BY <1>11, <2>1, <2>2, <2>3 DEF Point, Restoring
  <2> QED BY <1>4, <2>4
<1>12. CASE pc \in Restoring
  <2>1. flags = NoAdmission /\ todo \in TodoOf(pc) /\ Serving
    BY <1>3, <1>12 DEF Point, Restoring
  <2>2. Serving'
    BY <1>1, <2>1, Quiet
  <2>3. pc \in {"capture", "undo", "discard"}
    BY <1>1, <1>12, <2>1 DEF Restoring, TodoOf
  <2>4. CASE pc = "capture"
    <3>1. pc' = "undo" /\ todo' \in {guardRollback, <<>>} /\ flags' = flags
      BY <1>1, <2>4 DEF OnError
    <3>2. todo' \in TodoOf(pc') /\ pc' \in Restoring
      BY <3>1, GuardRollsBack DEF TodoOf, Restoring
    <3> QED BY <1>2, <2>1, <2>2, <3>1, <3>2, Inside
  <2>5. CASE pc = "undo"
    <3>1. pc' = "undo" /\ todo' = <<>> /\ flags' = flags
      BY <1>1, <2>5 DEF OnError
    <3>2. todo' \in TodoOf(pc') /\ pc' \in Restoring
      BY <3>1 DEF TodoOf, Restoring
    <3> QED BY <1>2, <2>1, <2>2, <3>1, <3>2, Inside
  <2>6. CASE pc = "discard"
    <3>1. pc' = "discard" /\ todo' = <<>> /\ flags' = flags
      BY <1>1, <2>6 DEF OnError
    <3>2. todo' \in TodoOf(pc') /\ pc' \in Restoring
      BY <3>1 DEF TodoOf, Restoring
    <3> QED BY <1>2, <2>1, <2>2, <3>1, <3>2, Inside
  <2> QED BY <2>3, <2>4, <2>5, <2>6
<1>13. pc \in {"recover", "preflight", "rollback", "preflighted", "reject", "install", "commit",
               "cleanup"} \cup Restoring
  BY <1>1, <1>3 DEF Point
<1> QED BY <1>6, <1>7, <1>8, <1>9, <1>10, <1>11, <1>12, <1>13, <1>14

-----------------------------------------------------------------------------
(* The theorems.                                                           *)

LEMMA ReplacementInit ==
  ASSUME Init
  PROVE  ReplacementInv
<1>1. PICK first \in BOOLEAN :
        /\ main = [s \in Slots |-> IF s = "live" /\ ~first THEN Old ELSE None]
        /\ side = [s \in Slots |-> IF s = "live" /\ ~first THEN Old ELSE None]
        /\ frames = IF first THEN {} ELSE {Old}
        /\ truth = IF first THEN None ELSE Old
  BY DEF Init
<1>2. /\ marker = None /\ pc = "down" /\ todo = <<>> /\ flags = NoAdmission
      /\ restoring = None /\ config = None /\ mixed = FALSE /\ faults = 0
  BY DEF Init
<1>3. Old \in Files /\ None \in Files /\ Old # None
  BY DEF Files, Databases, Old, None
<1>4. /\ main["live"] = truth /\ side["live"] = truth
      /\ \A s \in Slots \ {"live"} : main[s] = None /\ side[s] = None
  BY <1>1 DEF Slots
<1>5. Typed
  BY <1>1, <1>2, <1>3 DEF Typed
<1>6. /\ main["previous"] = None /\ side["previous"] = None /\ main["incoming"] = None
      /\ main["kept"] = None
  BY <1>4 DEF Slots
<1>7. Recoverable
  <2>1. CASE truth = None
    BY <1>2, <1>4, <1>6, <2>1 DEF Recoverable, Blank, NoPrevious
  <2>2. CASE truth # None
    BY <1>2, <1>4, <1>6, <2>2 DEF Recoverable, Settled, Whole, NoPrevious
  <2> QED BY <2>1, <2>2
<1>8. Point /\ SlotKept
  BY <1>2, <1>7 DEF Point, SlotKept
<1> QED BY <1>2, <1>5, <1>6, <1>8 DEF ReplacementInv

LEMMA ReplacementStep ==
  ASSUME ReplacementInv, [Next]_vars, lapses' = {}
  PROVE  ReplacementInv'
<1>1. CASE Step
  <2>1. CASE Boot BY <2>1, BootPreserves
  <2>2. CASE Admit BY <2>2, AdmitPreserves
  <2>3. CASE Preflight BY <2>3, PreflightPreserves
  <2>4. CASE Preflighted BY <2>4, PreflightedPreserves
  <2>5. CASE Admitted BY <2>5, AdmittedPreserves
  <2>6. CASE OpenDatabase BY <2>6, OpenDatabasePreserves
  <2>7. CASE Committed BY <2>7, CommittedPreserves
  <2>8. CASE CleanedUp BY <2>8, CleanedUpPreserves
  <2>9. CASE RolledBack BY <2>9, RolledBackPreserves
  <2>10. CASE StageSnapshotFile BY <2>10, StageSnapshotFilePreserves
  <2>11. CASE RemoveStale BY <2>11, RemoveStalePreserves
  <2>12. CASE ValidatePendingSnapshot BY <2>12, ValidatePreserves
  <2>13. CASE applyRestoreConfig BY <2>13, ApplyConfigPreserves
  <2>14. CASE RestoreDone BY <2>14, RestoreDonePreserves
  <2>15. CASE FileOp BY <2>15, FileOpPreserves
  <2> QED BY <1>1, <2>1, <2>2, <2>3, <2>4, <2>5, <2>6, <2>7, <2>8, <2>9, <2>10, <2>11, <2>12,
             <2>13, <2>14, <2>15 DEF Step
<1>2. CASE OpenFails BY <1>2, OpenFailsPreserves
<1>3. CASE rollbackRestoreConfig BY <1>3, RollbackConfigPreserves
<1>4. CASE FileOpFails
  <2>1. Lapse = {}
    BY <1>4 DEF FileOpFails
  <2>2. ~(marker' = "committed" /\ marker # "committed")
    BY <2>1 DEF Lapse
  <2>3. pc = "recover" /\ DebrisSidecar => side["previous"] = None
    BY <2>1, <2>2 DEF Lapse
  <2>4. CASE marker' = marker
    BY <1>4, <2>3, <2>4, FileOpFailsPreserves
  <2>5. CASE marker' # marker
    BY <1>4, <2>2, <2>5, MarkerLandsPreserves
  <2> QED BY <2>4, <2>5
<1>5. CASE Crash BY <1>5, CrashPreserves
<1>6. CASE Write BY <1>6, WritePreserves
<1>7. CASE CloseStore BY <1>7, CloseStorePreserves
<1>8. CASE \E s \in Snapshots : handleRestore(s) BY <1>8, HandleRestorePreserves
<1>9. CASE UNCHANGED vars
  <2>1. /\ SameFiles /\ SameTruth /\ SameProcess /\ todo' = todo
    BY <1>9 DEF vars, files, history, bounds, SameFiles, SameTruth, SameProcess
  <2> QED BY <2>1 DEF ReplacementInv, Typed, SameFiles, SameTruth, SameProcess, Point,
             Recoverable, Blank, Settled, Home, Away, Whole, NoPrevious, Clean, Serving, HomeWhole,
             Replaced, Recovering, Returning, Installing, RollingBack, Committing, Opening,
             SlotKept, Captured, Undoing
<1> QED BY <1>1, <1>2, <1>3, <1>4, <1>5, <1>6, <1>7, <1>8, <1>9 DEF Next

\* A lapse is not undone.
LEMMA LapsesStay ==
  ASSUME [Next]_vars, lapses' = {}
  PROVE  lapses = {}
<1>1. CASE FileOpFails
  BY <1>1 DEF FileOpFails
<1>2. CASE FileOp \/ OpenDatabase \/ Write \/ CloseStore \/ RestoreDone
  BY <1>2 DEF FileOp, OpenDatabase, Write, CloseStore, RestoreDone
<1>3. Boot \/ Admit \/ Preflight \/ Preflighted \/ Admitted => lapses' = lapses
  BY DEF Boot, Admit, Preflight, Preflighted, Admitted, history
<1>4. Committed \/ CleanedUp \/ RolledBack \/ StageSnapshotFile \/ RemoveStale
        => lapses' = lapses
  BY DEF Committed, CleanedUp, RolledBack, StageSnapshotFile, RemoveStale, history
<1>5. ValidatePendingSnapshot \/ applyRestoreConfig \/ OpenFails \/ rollbackRestoreConfig
        => lapses' = lapses
  BY DEF ValidatePendingSnapshot, applyRestoreConfig, OpenFails, rollbackRestoreConfig, history
<1>6. Crash \/ (\E s \in Snapshots : handleRestore(s)) => lapses' = lapses
  BY DEF Crash, handleRestore, history
<1>7. UNCHANGED vars => lapses' = lapses
  BY DEF vars, history
<1> QED BY <1>1, <1>2, <1>3, <1>4, <1>5, <1>6, <1>7 DEF Next, Step

\* Only the database that counts has frames outside its main.
OneLog == frames \subseteq {truth} \ {None}

LEMMA OneLogStep ==
  ASSUME ReplacementInv, OneLog, [Next]_vars
  PROVE  OneLog'
<1>1. CASE FileOp
  <2>1. CASE Head(todo) = Mark("committed")[1]
    <3>1. truth' = main["live"] /\ frames' = frames \intersect {main["live"]}
      BY <1>1, <2>1 DEF FileOp
    <3> QED BY <3>1 DEF OneLog
  <2>2. CASE Head(todo) # Mark("committed")[1]
    BY <1>1, <2>2 DEF FileOp, OneLog
  <2> QED BY <2>1, <2>2
<1>2. CASE OpenDatabase
  <2>1. frames' = frames /\ (truth' = truth \/ truth = None)
    BY <1>2 DEF OpenDatabase
  <2> QED BY <2>1 DEF OneLog
<1>3. CASE Write
  <2>1. pc = "up" /\ frames' = frames \union {main["live"]} /\ truth' = truth
    BY <1>3 DEF Write
  <2>2. main["live"] = truth /\ truth # None
    BY <2>1 DEF ReplacementInv, Point, Restoring, Serving, Settled, Whole
  <2> QED BY <2>1, <2>2 DEF OneLog
<1>4. CASE CloseStore
  BY <1>4 DEF CloseStore, OneLog
<1>5. CASE truth' = truth /\ frames' = frames
  BY <1>5 DEF OneLog
<1>6. Boot \/ Admit \/ Preflight \/ Preflighted \/ Admitted => truth' = truth /\ frames' = frames
  BY DEF Boot, Admit, Preflight, Preflighted, Admitted, history
<1>7. Committed \/ CleanedUp \/ RolledBack \/ StageSnapshotFile \/ RemoveStale
        => truth' = truth /\ frames' = frames
  BY DEF Committed, CleanedUp, RolledBack, StageSnapshotFile, RemoveStale, history
<1>8. ValidatePendingSnapshot \/ applyRestoreConfig \/ RestoreDone \/ OpenFails
        => truth' = truth /\ frames' = frames
  BY DEF ValidatePendingSnapshot, applyRestoreConfig, RestoreDone, OpenFails, history
<1>9. rollbackRestoreConfig \/ FileOpFails \/ Crash => truth' = truth /\ frames' = frames
  BY DEF rollbackRestoreConfig, FileOpFails, Crash, history
<1>10. (\E s \in Snapshots : handleRestore(s)) => truth' = truth /\ frames' = frames
  BY DEF handleRestore, history
<1>11. UNCHANGED vars => truth' = truth /\ frames' = frames
  BY DEF vars, history
<1> QED BY <1>1, <1>2, <1>3, <1>4, <1>5, <1>6, <1>7, <1>8, <1>9, <1>10, <1>11 DEF Next, Step

\* What holds until recovery misreads a failure: at every place of every program the
\* files are what that place needs.
UntilLapse == lapses = {} => ReplacementInv /\ OneLog

\* snapshot_admission.go, snapshot_recover.go, backup.go: every crash and every error, a
\* marker that lands although its write failed included, leaves files the next boot
\* reads rightly, but for the two lapses.
THEOREM ReplacementInvariant == Spec => []UntilLapse
<1>1. Init => UntilLapse
  <2>1. Init => OneLog
    BY DEF Init, OneLog, Old, None
  <2> QED BY <2>1, ReplacementInit DEF UntilLapse
<1>2. UntilLapse /\ [Next]_vars => UntilLapse'
  <2> SUFFICES ASSUME UntilLapse, [Next]_vars, lapses' = {} PROVE ReplacementInv' /\ OneLog'
    BY DEF UntilLapse
  <2>1. ReplacementInv /\ OneLog
    BY LapsesStay DEF UntilLapse
  <2> QED BY <2>1, ReplacementStep, OneLogStep
<1> QED BY <1>1, <1>2, PTL DEF Spec

\* While no failure was misread, no crash and no error loses the database that counts or
\* its frames, what serves is that database and no sidecar is opened with a foreign main,
\* and a restore is all or nothing (snapshot_admission.go: install, commit,
\* restorePrevious; snapshot_recover.go; store_open.go; cmd/proxy/backup.go).
THEOREM ReplacementIsSound == Spec => []ReplacementSound
<1>1. UntilLapse => ReplacementSound
  <2> SUFFICES ASSUME ReplacementInv
               PROVE  DatabaseSurvives /\ ServesTruth /\ RestoreAllOrNothing
    BY DEF UntilLapse, ReplacementSound
  <2>1. DatabaseSurvives
    <3>1. Recoverable
      BY PointRecoverable DEF ReplacementInv
    <3> QED BY <3>1 DEF Recoverable, Blank, Settled, Whole, Home, Away, DatabaseSurvives
  <2>2. ServesTruth
    <3>1. pc = "up" => Serving
      BY DEF ReplacementInv, Point, Restoring
    <3> QED BY <3>1 DEF ReplacementInv, Serving, Settled, Whole, ServesTruth
  <2>3. RestoreAllOrNothing
    BY DEF ReplacementInv, SlotKept, RestoreAllOrNothing
  <2> QED BY <2>1, <2>2, <2>3
<1> QED BY <1>1, ReplacementInvariant, PTL

\* While no failure was misread, recovery never meets the files it refuses: a committed
\* marker without its database, or two sidecars that might both belong to the previous
\* main (snapshot_recover.go).
THEOREM NoBootRefuses == Spec => [](lapses = {} => ~RecoveryRefuses)
<1>1. UntilLapse => (lapses = {} => ~RecoveryRefuses)
  <2> SUFFICES ASSUME ReplacementInv PROVE ~RecoveryRefuses
    BY DEF UntilLapse
  <2>1. Recoverable
    BY PointRecoverable DEF ReplacementInv
  <2> QED BY <2>1 DEF Recoverable, Blank, Settled, Whole, Home, Away, RecoveryRefuses,
                      BothSidecars, None
<1> QED BY <1>1, ReplacementInvariant, PTL

\* While a main is at the live name its committed frames exist: without a lapse
\* replacement_marker's violation cannot happen (snapshot_admission.go).
THEOREM CommittedFramesStay == Spec => [](lapses = {} => FramesKept)
<1>1. UntilLapse => (lapses = {} => FramesKept)
  <2> SUFFICES ASSUME ReplacementInv, OneLog PROVE FramesKept
    BY DEF UntilLapse
  <2>1. Recoverable
    BY PointRecoverable DEF ReplacementInv
  <2>2. \A d \in frames : d = truth
    BY DEF OneLog
  <2>3. truth \in frames => side["live"] = truth \/ side["previous"] = truth
    BY <2>1 DEF OneLog, Recoverable, Blank, Settled, Whole, Home, Away
  <2> QED BY <2>2, <2>3 DEF FramesKept
<1> QED BY <1>1, ReplacementInvariant, PTL
=============================================================================
