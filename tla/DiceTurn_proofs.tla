--------------------------- MODULE DiceTurn_proofs ---------------------------
(***************************************************************************)
(* The dice panel, in two hands.                                           *)
(*                                                                         *)
(* In a player's: the dice on the table were rolled in the turn being      *)
(* played.  A panel comes back from two places: the room's snapshot, which *)
(* every new turn clears, and the device's cache, which is found by its    *)
(* slot and card.  A slot is used again when the host undoes a turn or     *)
(* restarts the game, and only the device that does so throws its own      *)
(* cache away: the theorem is about the host's own turns.                  *)
(*                                                                         *)
(* The panel, the room's snapshot and the cache tell the tale of a chain:  *)
(* which cards were completed, what each brought, what was held before     *)
(* each Plus/Minus.  Every step of the panel goes on with the tale, and    *)
(* whoever reads it - the server at a commit, its clock, a panel that      *)
(* resumes - comes to the same end of it.                                  *)
(*                                                                         *)
(* In a bot's: its driver is never stranded.  What a bot selects can be    *)
(* kept, whatever is offered on it the bot acts, and every act moves the   *)
(* table, so the driver's timer starts anew whenever the table waits.      *)
(*                                                                         *)
(* And the optimal bot ends the game as he means to: what he expects of a  *)
(* bank is what the engine makes of it, on every table and standings.      *)
(***************************************************************************)
EXTENDS BotTurn, FiniteSetTheorems, WellFoundedInduction, TLAPS

Rolls(p) == "of" \in DOMAIN p /\ p.of = turn

Slots ==
  /\ turn \in Nat /\ slot \in Nat \ {0} /\ slot <= turn
  /\ former # <<>> => former[1] \in Nat \ {0} /\ former[1] <= turn

\* A cache under the present slot is of this turn; any other is of an earlier slot.
CacheIsOld(c, s, t) == c.key[1] \in Nat /\ c.key[1] <= s /\ (c.key[1] = s => c.snap.of = t)

DiceInv ==
  /\ Slots
  /\ panel # Closed => Rolls(panel)
  /\ dirty \/ asking # "no" => panel # Closed
  /\ live # NoSnap => live.of = turn
  /\ CacheIsOld(cache, slot, turn)

-----------------------------------------------------------------------------
LEMMA EmptyCacheIsOld ==
  ASSUME NEW s \in Nat \ {0}, NEW t PROVE CacheIsOld(NoCache, s, t)
BY DEF NoCache, CacheIsOld

LEMMA SnapshotIsOf == ASSUME NEW p PROVE Snapshot(p).of = p.of
BY DEF Snapshot

LEMMA DerivedIsOf ==
  ASSUME NEW s PROVE "of" \in DOMAIN Derived(s) /\ Derived(s).of = s.of
BY DEF Derived

\* A panel that goes on is of the same turn, whatever is published of it.
LEMMA PanelGoesOn ==
  ASSUME DiceInv, NEW p, Rolls(p), panel' = p, UNCHANGED <<turn, slot>>, former' \in {former, <<>>},
         UNCHANGED <<cache, live>> \/ Publish(p)
  PROVE  DiceInv'
<1>1. Slots' /\ Rolls(panel)' /\ panel' # Closed  BY DEF DiceInv, Slots, Rolls, Closed
<1>2. CASE UNCHANGED <<cache, live>>
  BY <1>1, <1>2 DEF DiceInv
<1>3. CASE Publish(p)
  <2>1. cache' = [key |-> ShownKey, snap |-> Snapshot(p)] /\ (live' = live \/ live' = Snapshot(p))
    BY <1>3 DEF Publish
  <2>2. ShownKey[1] = slot  BY DEF ShownKey
  <2>3. cache'.key[1] = slot /\ cache'.snap.of = turn
    BY <2>1, <2>2, SnapshotIsOf DEF Rolls
  <2>4. CacheIsOld(cache', slot', turn')  BY <2>3 DEF CacheIsOld, DiceInv, Slots
  <2>5. live' # NoSnap => live'.of = turn'  BY <2>1, SnapshotIsOf DEF DiceInv, Rolls
  <2> QED  BY <1>1, <2>4, <2>5 DEF DiceInv
<1> QED  BY <1>2, <1>3

LEMMA PanelBecomes ==
  ASSUME DiceInv, NEW p, Rolls(p), UNCHANGED <<turn, slot>>, former' \in {former, <<>>}, Becomes(p)
  PROVE  DiceInv'
BY PanelGoesOn DEF Becomes

\* Nothing but the turn's own slot ends with it.
LEMMA TurnEnds ==
  ASSUME DiceInv, panel' = Closed, asking' = "no", dirty' = FALSE, cache' = NoCache \/ cache' = cache,
         NextTurn \/ (UNCHANGED <<turn, slot, former, live>> /\ cache' = NoCache)
  PROVE  DiceInv'
<1>1. CASE NextTurn
  <2>1. turn' = turn + 1 /\ slot' = turn + 1 /\ former' = <<slot, dealt[1]>> /\ live' = NoSnap
    BY <1>1 DEF NextTurn
  <2>2. former'[1] = slot  BY <2>1
  <2>3. Slots'  BY <2>1, <2>2 DEF DiceInv, Slots
  <2>4. CASE cache' = NoCache
    <3>1. CacheIsOld(cache', slot', turn')  BY <2>3, <2>4, EmptyCacheIsOld DEF Slots
    <3> QED  BY <2>1, <2>3, <3>1 DEF DiceInv
  <2>5. CASE cache' = cache
    <3>1. CacheIsOld(cache', slot', turn')  BY <2>1, <2>5 DEF DiceInv, Slots, CacheIsOld
    <3> QED  BY <2>1, <2>3, <3>1 DEF DiceInv
  <2> QED  BY <2>4, <2>5
<1>2. CASE UNCHANGED <<turn, slot, former, live>> /\ cache' = NoCache
  <2>1. Slots'  BY <1>2 DEF DiceInv, Slots
  <2>2. CacheIsOld(cache', slot', turn')  BY <1>2, EmptyCacheIsOld DEF DiceInv, Slots
  <2> QED  BY <1>2, <2>1, <2>2 DEF DiceInv
<1> QED  BY <1>1, <1>2

\* What the panel does to its table leaves it the turn's.
LEMMA TableIsOf ==
  ASSUME NEW p, Rolls(p)
  PROVE  Rolls(Kept(p)) /\ Rolls(Banked(p)) /\ Rolls(Committed(p)) /\ Rolls(Banked(Committed(p)))
<1>1. \A q : Rolls(q) => Rolls(Kept(q))
  BY DEF Kept, Rolls
<1>2. \A q : Rolls(q) => Rolls(Banked(q))  BY DEF Banked, Rolls
<1>3. \A q : Rolls(q) => Rolls(Awarded(q))  BY DEF Awarded, Paid, Rolls
<1>4. ASSUME NEW q, Rolls(q) PROVE Rolls([q EXCEPT !.chain.done = TRUE])
  BY <1>4 DEF Rolls
<1>5. Rolls(Committed(p))
  BY <1>1, <1>3, <1>4 DEF Committed
<1> QED  BY <1>1, <1>2, <1>5

-----------------------------------------------------------------------------
LEMMA PanelSteps ==
  ASSUME DiceInv, PanelStep
  PROVE  DiceInv'
<1>0. Closed.phase = "closed" /\ (panel.phase # "closed" => panel # Closed)  BY DEF Closed
<1>a. panel.phase # "closed" => Rolls(panel)  BY <1>0 DEF DiceInv
<1>b. UNCHANGED server => UNCHANGED <<turn, slot>> /\ former' \in {former, <<>>}  BY DEF server
<1>1. CASE Open
  <2>1. UNCHANGED <<turn, slot>> /\ former' = <<>> /\ panel = Closed  BY <1>1 DEF Open
  <2>2. CASE cache.key = TurnKey
    <3> DEFINE p == Derived(cache.snap)
    <3>1. cache.key[1] = slot  BY <2>2 DEF TurnKey
    <3>2. Rolls(p)  BY <3>1, DerivedIsOf DEF DiceInv, CacheIsOld, Rolls
    <3>3. Becomes(p) \/ (panel' = p /\ UNCHANGED <<cache, live>>)
      BY <1>1, <2>2 DEF Open
    <3> HIDE DEF p
    <3> QED  BY <2>1, <3>2, <3>3, PanelGoesOn, PanelBecomes
  <2>3. CASE cache.key # TurnKey
    <3>1. panel' = FreshPanel(card) /\ cache' = NoCache /\ live' = live  BY <1>1, <2>3 DEF Open
    <3>2. Slots'  BY <2>1 DEF DiceInv, Slots
    <3>3. CacheIsOld(cache', slot', turn')  BY <2>1, <3>1, EmptyCacheIsOld DEF DiceInv, Slots
    <3>4. Rolls(panel)' /\ panel' # Closed  BY <2>1, <3>1 DEF Rolls, FreshPanel, Closed
    <3> QED  BY <2>1, <3>1, <3>2, <3>3, <3>4 DEF DiceInv
  <2> QED  BY <2>2, <2>3
<1>2. CASE OpeningRoll
  <2>1. UNCHANGED <<turn, slot>> /\ former' \in {former, <<>>} /\ Rolls(panel)
    BY <1>2, <1>a, <1>b DEF OpeningRoll
  <2>2. PICK r \in Dice : Becomes([panel EXCEPT !.phase = "tumbling", !.roll = r, !.sel = NoDice, !.busted = FALSE])
    BY <1>2 DEF OpeningRoll, Rolled
  <2> DEFINE p == [panel EXCEPT !.phase = "tumbling", !.roll = r, !.sel = NoDice, !.busted = FALSE]
  <2>3. Rolls(p)  BY <2>1 DEF Rolls
  <2> QED  BY <2>1, <2>2, <2>3, PanelBecomes
<1>3. CASE Finalize
  <2>1. UNCHANGED <<turn, slot>> /\ former' \in {former, <<>>} /\ Rolls(panel)
    BY <1>3, <1>a, <1>b DEF Finalize
  <2> DEFINE p == [panel EXCEPT !.phase = "settled"]
  <2>2. Rolls(p)  BY <2>1 DEF Rolls
  <2>3. \A chain, summary, sel : /\ Rolls([p EXCEPT !.busted = TRUE, !.chain = chain, !.summary = summary])
                                 /\ Rolls([p EXCEPT !.sel = sel])
    <3> HIDE DEF p
    <3> QED  BY <2>2 DEF Rolls
  <2>4. \/ Becomes(p)
        \/ \E chain, summary : Becomes([p EXCEPT !.busted = TRUE, !.chain = chain, !.summary = summary])
        \/ \E sel : Becomes([p EXCEPT !.sel = sel])
    BY <1>3 DEF Finalize
  <2> HIDE DEF p
  <2> QED  BY <2>1, <2>2, <2>3, <2>4, PanelBecomes
<1>4. CASE Select
  <2>1. UNCHANGED <<turn, slot>> /\ former' \in {former, <<>>} /\ Rolls(panel)
    BY <1>4, <1>a, <1>b DEF Select, AtRest
  <2>2. PICK sel \in Dice : Becomes([panel EXCEPT !.sel = sel])  BY <1>4 DEF Select
  <2>3. Rolls([panel EXCEPT !.sel = sel])  BY <2>1 DEF Rolls
  <2> QED  BY <2>1, <2>2, <2>3, PanelBecomes
<1>5. CASE RollOn \/ RollSecondTutto
  <2>1. UNCHANGED <<turn, slot>> /\ former' \in {former, <<>>} /\ Rolls(panel)
    BY <1>5, <1>a, <1>b DEF RollOn, RollSecondTutto, CanAct, AtRest
  <2> DEFINE p == Kept(panel)
  <2>2. Rolls(p)  BY <2>1, TableIsOf
  <2>3. \/ Rolled(p, TotalDice - p.kept)
        \/ Rolled([p EXCEPT !.kept = 0], TotalDice - [p EXCEPT !.kept = 0].kept)
        \/ Rolled([p EXCEPT !.kept = 0, !.tuttos = 1], TotalDice)
    BY <1>5 DEF RollOn, RollSecondTutto
  <2> HIDE DEF p
  <2>4. PICK q, n : Rolls(q) /\ Rolled(q, n)
    <3>1. Rolls([p EXCEPT !.kept = 0]) /\ Rolls([p EXCEPT !.kept = 0, !.tuttos = 1])  BY <2>2 DEF Rolls
    <3> QED  BY <2>2, <2>3, <3>1
  <2>5. PICK r \in Dice : Becomes([q EXCEPT !.phase = "tumbling", !.roll = r, !.sel = NoDice, !.busted = FALSE])
    BY <2>4 DEF Rolled
  <2>6. Rolls([q EXCEPT !.phase = "tumbling", !.roll = r, !.sel = NoDice, !.busted = FALSE])
    BY <2>4 DEF Rolls
  <2> QED  BY <2>1, <2>5, <2>6, PanelBecomes
<1>6. CASE StopAndScore \/ DrawCard \/ DrawRefused
  <2>1. UNCHANGED <<turn, slot>> /\ former' \in {former, <<>>} /\ Rolls(panel)
    BY <1>6, <1>a, <1>b DEF StopAndScore, DrawCard, DrawRefused, CanAct, AtRest, DiceInv
  <2>2. Becomes(Banked(Committed(panel))) \/ Becomes(Committed(panel)) \/ Becomes(Banked(panel))
    BY <1>6 DEF StopAndScore, DrawCard, DrawRefused
  <2> QED  BY <2>1, <2>2, TableIsOf, PanelBecomes
<1>7. CASE Drawn
  <2>1. UNCHANGED <<turn, slot, cache, live>> /\ former' \in {former, <<>>} /\ Rolls(panel)
    BY <1>7, <1>b DEF Drawn, DiceInv
  <2>2. PICK reveal, phase, tuttos, chain :
          panel' = [panel EXCEPT !.kept = 0, !.roll = NoDice, !.sel = NoDice, !.progress = {}, !.reveal = reveal,
                      !.phase = phase, !.tuttos = tuttos, !.chain = chain]
    BY <1>7 DEF Drawn
  <2>3. Rolls(panel')  BY <2>1, <2>2 DEF Rolls
  <2> QED  BY <2>1, <2>3, PanelGoesOn
<1>8. CASE AcknowledgeDrawnCard
  <2>1. UNCHANGED <<turn, slot, cache, live>> /\ former' \in {former, <<>>} /\ Rolls(panel)
    BY <1>8, <1>a, <1>b DEF AcknowledgeDrawnCard
  <2>2. PICK summary : panel' = [panel EXCEPT !.reveal = "none", !.summary = summary]
    BY <1>8 DEF AcknowledgeDrawnCard
  <2>3. Rolls(panel')  BY <2>1, <2>2 DEF Rolls
  <2> QED  BY <2>1, <2>3, PanelGoesOn
<1>9. CASE SendSnapshot
  <2>1. UNCHANGED <<turn, slot>> /\ former' \in {former, <<>>} /\ panel' = panel /\ Publish(panel)
    BY <1>9, <1>b DEF SendSnapshot
  <2>2. Rolls(panel)  BY <1>9 DEF SendSnapshot, DiceInv
  <2> QED  BY <2>1, <2>2, PanelGoesOn
<1>10. CASE Finish \/ StopTurn
  <2>1. /\ panel' = Closed /\ asking' = "no" /\ dirty' = FALSE /\ cache' = NoCache
        /\ NextTurn \/ UNCHANGED <<turn, slot, former, live>>
    BY <1>10 DEF Finish, StopTurn, TurnGone
  <2> QED  BY <2>1, TurnEnds
<1> QED  BY <1>1, <1>2, <1>3, <1>4, <1>5, <1>6, <1>7, <1>8, <1>9, <1>10 DEF PanelStep

LEMMA RoomSteps ==
  ASSUME DiceInv, PlayerHosts, RoomStep \/ Reload
  PROVE  DiceInv'
<1>1. CASE Deal
  BY <1>1 DEF Deal, DiceInv, Slots, Rolls
<1>2. CASE Timeout
  BY <1>2, TurnEnds DEF Timeout, TurnGone
<1>3. CASE HostUndoes
  <2>1. turn' = turn + 1 /\ slot' = former[1] /\ former' = <<>> /\ live' = NoSnap /\ cache' = NoCache
        /\ panel' = Closed /\ asking' = asking /\ dirty' = dirty /\ panel = Closed
    BY <1>3 DEF HostUndoes, HostClears
  <2>2. Slots'  BY <1>3, <2>1 DEF HostUndoes, DiceInv, Slots
  <2>3. CacheIsOld(cache', slot', turn')  BY <2>1, <2>2, EmptyCacheIsOld DEF Slots
  <2> QED  BY <1>3, <2>1, <2>2, <2>3 DEF DiceInv, HostUndoes
<1>4. CASE HostRestarts
  <2>1. turn' = turn + 1 /\ slot' = 1 /\ former' = <<>> /\ live' = NoSnap /\ cache' = NoCache
        /\ panel' = Closed /\ asking' = "no" /\ dirty' = FALSE
    BY <1>4 DEF HostRestarts, HostClears, TurnGone, FirstSlot
  <2>2. Slots'  BY <2>1 DEF DiceInv, Slots
  <2>3. CacheIsOld(cache', slot', turn')  BY <2>1, <2>2, EmptyCacheIsOld DEF Slots
  <2> QED  BY <2>1, <2>2, <2>3 DEF DiceInv
<1>5. CASE Reload
  <2>1. UNCHANGED <<turn, slot, former>> /\ asking' = "no" /\ dirty' = FALSE  BY <1>5 DEF Reload, server
  <2>2. Slots'  BY <2>1 DEF DiceInv, Slots
  <2>3. CASE live # NoSnap /\ (classic => Last(live.cards) = card)
    <3> DEFINE p == Derived(live)
    <3>1. Rolls(p)  BY <2>3, DerivedIsOf DEF DiceInv, Rolls
    <3>2. /\ panel' = p
          /\ cache' = [key |-> TurnKey, snap |-> IF p.busted THEN Snapshot(p) ELSE live]
          /\ live' = IF p.busted THEN Snapshot(p) ELSE live
      BY <1>5, <2>3 DEF Reload
    <3> HIDE DEF p
    <3>3. Snapshot(p).of = turn /\ live.of = turn  BY <2>3, <3>1, SnapshotIsOf DEF Rolls, DiceInv
    <3>4. CacheIsOld(cache', slot', turn')
      BY <2>1, <2>2, <3>2, <3>3 DEF CacheIsOld, TurnKey, Slots
    <3>5. Rolls(panel)' /\ live'.of = turn'  BY <2>1, <3>1, <3>2, <3>3 DEF Rolls
    <3> QED  BY <2>1, <2>2, <3>4, <3>5 DEF DiceInv
  <2>4. CASE ~(live # NoSnap /\ (classic => Last(live.cards) = card))
    BY <1>5, <2>1, <2>2, <2>4 DEF Reload, DiceInv
  <2> QED  BY <2>3, <2>4
<1> QED  BY <1>1, <1>2, <1>3, <1>4, <1>5 DEF RoomStep

\* The invariant of the host's own turns.
THEOREM PanelsAreSound ==
  ASSUME PlayerHosts PROVE Spec => []DiceInv
<1>1. Init => DiceInv
  <2> SUFFICES ASSUME Init PROVE DiceInv  OBVIOUS
  <2>1. Slots  BY DEF Init, Slots, FirstSlot
  <2>2. CacheIsOld(cache, slot, turn)  BY <2>1, EmptyCacheIsOld DEF Init, Slots
  <2> QED  BY <2>1, <2>2 DEF Init, DiceInv
<1>2. DiceInv /\ [Next]_vars => DiceInv'
  <2> SUFFICES ASSUME DiceInv, [Next]_vars PROVE DiceInv'  OBVIOUS
  <2>1. CASE UNCHANGED vars
    BY <2>1 DEF vars, DiceInv, Slots, Rolls
  <2> QED  BY <2>1, PanelSteps, RoomSteps DEF Next
<1> QED  BY <1>1, <1>2, PTL DEF Spec

\* The dice on the table were rolled in the turn being played, on the device
\* that undoes and restarts (buildTurnKey, clearTurnCaches, readRestorableTurn).
THEOREM DiceAreOfTheirTurn ==
  ASSUME PlayerHosts PROVE Spec => []DiceBelongToTurn
<1>1. DiceInv => DiceBelongToTurn  BY DEF DiceInv, DiceBelongToTurn, Rolls
<1> QED  BY <1>1, PanelsAreSound, PTL

-----------------------------------------------------------------------------
\* Adding up over the faces, one at a time: the library's fold is the function
\* its recursion describes.
Pick(s) == CHOOSE v \in s : TRUE
Rest(s) == s \ {Pick(s)}
Step(bag, f) == [s \in SUBSET Faces |-> IF s = {} THEN 0 ELSE bag[Pick(s)] + f[Rest(s)]]
Sums(bag) == CHOOSE f : f = Step(bag, f)

LEMMA SumIsSums == ASSUME NEW bag PROVE SumOver(bag) = Sums(bag)[Faces]
BY DEF SumOver, MapThenFoldSet, Sums, Step, Rest, Pick

LEMMA CountIsSum == ASSUME NEW bag PROVE Count(bag) = Sums(bag)[Faces]
BY SumIsSums DEF Count

LEMMA HasLeast ==
  ASSUME NEW T, T \subseteq Nat, T # {}
  PROVE  \E x \in T : \A y \in T : x <= y
<1> DEFINE R == {ss \in Nat \X Nat : ss[1] < ss[2]}
<1>1. IsWellFoundedOn(R, Nat)  BY NatLessThanWellFounded DEF OpToRel
<1>2. \E x \in T : \A y \in T : ~ (<<y, x>> \in R)
  <2> HIDE DEF R
  <2> QED  BY <1>1, WFMin
<1>3. \A x, y \in T : <<y, x>> \notin R => x <= y  OBVIOUS
<1> HIDE DEF R
<1> QED  BY <1>2, <1>3

LEMMA FacesAreFinite ==
  /\ IsFiniteSet(Faces) /\ Cardinality(Faces) = NFaces
  /\ \A s \in SUBSET Faces : IsFiniteSet(s) /\ Cardinality(s) \in Nat /\ Cardinality(s) <= NFaces
<1>1. IsFiniteSet(Faces) /\ Cardinality(Faces) = NFaces
  BY DiceAssumption, FS_Interval DEF Faces
<1> QED  BY <1>1, FS_Subset, FS_CardinalityType

LEMMA Picked ==
  ASSUME NEW s \in SUBSET Faces, s # {}
  PROVE  /\ Pick(s) \in s /\ Rest(s) \in SUBSET Faces
         /\ Cardinality(Rest(s)) = Cardinality(s) - 1
<1>1. Pick(s) \in s  BY DEF Pick
<1> QED  BY <1>1, FacesAreFinite, FS_RemoveElement DEF Rest

\* What holds of the empty set, and of a set when it holds of it without the
\* face picked first, holds of every set of faces.
LEMMA FaceByFace ==
  ASSUME NEW T, {} \in T,
         \A s \in SUBSET Faces : s # {} /\ Rest(s) \in T => s \in T
  PROVE  \A s \in SUBSET Faces : s \in T
<1> SUFFICES ASSUME NEW s0 \in SUBSET Faces, s0 \notin T PROVE FALSE  OBVIOUS
<1> DEFINE left == {s \in SUBSET Faces : s \notin T}
<1> DEFINE sizes == {Cardinality(s) : s \in left}
<1>1. sizes \subseteq Nat /\ sizes # {}  BY FacesAreFinite
<1>2. PICK n \in sizes : \A m \in sizes : n <= m
  <2> HIDE DEF sizes
  <2> QED  BY <1>1, HasLeast
<1>3. PICK s \in SUBSET Faces : s \notin T /\ Cardinality(s) = n  BY <1>2
<1>4. s \in SUBSET Faces /\ s \notin T  BY <1>3
<1>5. s # {}  BY <1>4
<1>6. Rest(s) \in left  BY <1>4, <1>5, Picked
<1>7. Cardinality(Rest(s)) = n - 1  BY <1>3, <1>4, <1>5, Picked
<1>8. Cardinality(Rest(s)) \in sizes  BY <1>6
<1>9. n - 1 \in sizes  BY <1>7, <1>8
<1>10. n <= n - 1 /\ n \in Nat
  <2> HIDE DEF sizes
  <2> QED  BY <1>1, <1>2, <1>9
<1> QED  BY <1>10

LEMMA StepAtNone == ASSUME NEW bag, NEW f PROVE Step(bag, f)[{}] = 0
BY DEF Step

Some(s) == s \in SUBSET Faces /\ s # {}

LEMMA StepAtSome ==
  ASSUME NEW bag, NEW f, NEW s, Some(s)
  PROVE  Step(bag, f)[s] = bag[Pick(s)] + f[Rest(s)]
BY DEF Step, Some

LEMMA StepIsFunction ==
  ASSUME NEW bag, NEW f, NEW g, \A s \in SUBSET Faces : Step(bag, f)[s] = Step(bag, g)[s]
  PROVE  Step(bag, f) = Step(bag, g)
BY DEF Step

\* Functions that keep to the recursion on the sets of up to n faces.
Keeps(bag, f, n) == \A s \in SUBSET Faces : Cardinality(s) <= n => f[s] = Step(bag, f)[s]

LEMMA KeepsMore ==
  ASSUME NEW bag, NEW f, NEW n \in Nat, Keeps(bag, f, n)
  PROVE  \E g : Keeps(bag, g, n + 1)
<1>1. PICK g : g = Step(bag, f)  OBVIOUS
<1>2. ASSUME NEW s \in SUBSET Faces, Cardinality(s) <= n + 1 PROVE g[s] = Step(bag, g)[s]
  <2>1. CASE s = {}
    <3>1. Step(bag, f)[{}] = 0  BY StepAtNone
    <3>2. Step(bag, g)[{}] = 0  BY StepAtNone
    <3> QED  BY <1>1, <2>1, <3>1, <3>2
  <2>2. CASE s # {}
    <3>1. Rest(s) \in SUBSET Faces /\ Cardinality(Rest(s)) <= n
      BY <1>2, <2>2, Picked, FacesAreFinite
    <3>2. f[Rest(s)] = g[Rest(s)]  BY <1>1, <3>1 DEF Keeps
    <3>3. Some(s)  BY <2>2 DEF Some
    <3>4. Step(bag, f)[s] = bag[Pick(s)] + f[Rest(s)]  BY <3>3, StepAtSome
    <3>5. Step(bag, g)[s] = bag[Pick(s)] + g[Rest(s)]  BY <3>3, StepAtSome
    <3> QED  BY <1>1, <3>2, <3>4, <3>5
  <2> QED  BY <2>1, <2>2
<1>3. Keeps(bag, g, n + 1)  BY <1>2 DEF Keeps
<1> QED  BY <1>3

LEMMA KeepsNothing == ASSUME NEW bag PROVE \E f : Keeps(bag, f, 0)
<1>1. PICK f : f = [s \in SUBSET Faces |-> 0]  OBVIOUS
<1>2. ASSUME NEW s \in SUBSET Faces, Cardinality(s) <= 0 PROVE f[s] = Step(bag, f)[s]
  <2>1. s = {}
    <3>1. IsFiniteSet(s) /\ Cardinality(s) = 0  BY <1>2, FacesAreFinite
    <3> QED  BY <3>1, FS_EmptySet
  <2>2. f[s] = 0  BY <1>1
  <2>3. Step(bag, f)[{}] = 0  BY StepAtNone
  <2> QED  BY <2>1, <2>2, <2>3
<1>3. Keeps(bag, f, 0)  BY <1>2 DEF Keeps
<1> QED  BY <1>3

Missed(bag) == {n \in Nat : ~\E f : Keeps(bag, f, n)}

LEMMA AllReached == ASSUME NEW bag, NEW n \in Nat PROVE \E f : Keeps(bag, f, n)
<1> SUFFICES ASSUME n \in Missed(bag) PROVE FALSE  BY DEF Missed
<1>1. Missed(bag) \subseteq Nat /\ Missed(bag) # {}  BY DEF Missed
<1>2. PICK m \in Missed(bag) : \A k \in Missed(bag) : m <= k
  BY <1>1, HasLeast
<1>3. m \in Nat /\ ~\E f : Keeps(bag, f, m)  BY <1>2 DEF Missed
<1>4. CASE m = 0  BY <1>3, <1>4, KeepsNothing
<1>5. CASE m # 0
  <2>1. m - 1 \in Nat /\ m - 1 \notin Missed(bag)  BY <1>1, <1>2, <1>3, <1>5
  <2>2. PICK f : Keeps(bag, f, m - 1)  BY <2>1 DEF Missed
  <2>3. \E g : Keeps(bag, g, (m - 1) + 1)  BY <2>1, <2>2, KeepsMore
  <2>4. (m - 1) + 1 = m  BY <1>3
  <2> QED  BY <1>3, <2>3, <2>4
<1> QED  BY <1>4, <1>5

LEMMA SumIsStep == ASSUME NEW bag PROVE Sums(bag) = Step(bag, Sums(bag))
<1>1. PICK f : Keeps(bag, f, NFaces)  BY DiceAssumption, AllReached
<1>2. PICK g : g = Step(bag, f)  OBVIOUS
<1>3. \A s \in SUBSET Faces : f[s] = g[s]  BY <1>1, <1>2, FacesAreFinite DEF Keeps
<1>4. ASSUME NEW s \in SUBSET Faces PROVE Step(bag, f)[s] = Step(bag, g)[s]
  <2>1. CASE s = {}
    <3>1. Step(bag, f)[{}] = 0  BY StepAtNone
    <3>2. Step(bag, g)[{}] = 0  BY StepAtNone
    <3> QED  BY <2>1, <3>1, <3>2
  <2>2. CASE s # {}
    <3>1. Some(s) /\ Rest(s) \in SUBSET Faces  BY <2>2 DEF Some, Rest
    <3>2. f[Rest(s)] = g[Rest(s)]  BY <1>3, <3>1
    <3>3. Step(bag, f)[s] = bag[Pick(s)] + f[Rest(s)]  BY <3>1, StepAtSome
    <3>4. Step(bag, g)[s] = bag[Pick(s)] + g[Rest(s)]  BY <3>1, StepAtSome
    <3> QED  BY <3>2, <3>3, <3>4
  <2> QED  BY <2>1, <2>2
<1>5. Step(bag, f) = Step(bag, g)  BY <1>4, StepIsFunction
<1>6. g = Step(bag, g)  BY <1>2, <1>5
<1> QED  BY <1>6 DEF Sums

LEMMA SumAt ==
  ASSUME NEW bag
  PROVE  /\ Sums(bag)[{}] = 0
         /\ \A s \in SUBSET Faces : s # {} => Sums(bag)[s] = bag[Pick(s)] + Sums(bag)[Rest(s)]
<1>1. PICK h : h = Sums(bag)  OBVIOUS
<1>2. h = Step(bag, h)  BY <1>1, SumIsStep
<1>3. Step(bag, h)[{}] = 0  BY StepAtNone
<1>4. ASSUME NEW s \in SUBSET Faces, s # {} PROVE Step(bag, h)[s] = bag[Pick(s)] + h[Rest(s)]
  <2>1. Some(s)  BY <1>4 DEF Some
  <2> QED  BY <2>1, StepAtSome
<1> QED  BY <1>1, <1>2, <1>3, <1>4

LEMMA CountOfNothing == Count(NoDice) = 0
<1>1. PICK h : h = Sums(NoDice)  OBVIOUS
<1> DEFINE T == {s \in SUBSET Faces : h[s] = 0}
<1>2. {} \in T  BY <1>1, SumAt
<1>3. ASSUME NEW s \in SUBSET Faces, s # {}, Rest(s) \in T PROVE s \in T
  <2>1. NoDice[Pick(s)] = 0  BY <1>3, Picked DEF NoDice
  <2>2. h[s] = NoDice[Pick(s)] + h[Rest(s)]  BY <1>1, <1>3, SumAt
  <2>3. h[Rest(s)] = 0  BY <1>3
  <2>4. h[s] = 0  BY <2>1, <2>2, <2>3
  <2> QED  BY <2>4
<1>4. Faces \in T
  <2> HIDE DEF T
  <2> QED  BY <1>2, <1>3, FaceByFace
<1> QED  BY <1>1, <1>4, CountIsSum

\* A bag of numbers adds up to a number.
Bag(bag) == \A v \in Faces : bag[v] \in Nat

LEMMA SumIsNat == ASSUME NEW bag, Bag(bag) PROVE SumOver(bag) \in Nat
<1>1. PICK h : h = Sums(bag)  OBVIOUS
<1> DEFINE T == {s \in SUBSET Faces : h[s] \in Nat}
<1>2. {} \in T  BY <1>1, SumAt
<1>3. ASSUME NEW s \in SUBSET Faces, s # {}, Rest(s) \in T PROVE s \in T
  <2>1. Pick(s) \in Faces  BY <1>3, Picked
  <2>2. bag[Pick(s)] \in Nat  BY <2>1 DEF Bag
  <2>3. h[s] = bag[Pick(s)] + h[Rest(s)]  BY <1>1, <1>3, SumAt
  <2>4. h[Rest(s)] \in Nat  BY <1>3
  <2>5. h[s] \in Nat  BY <2>2, <2>3, <2>4
  <2> QED  BY <2>5
<1>4. Faces \in T
  <2> HIDE DEF T
  <2> QED  BY <1>2, <1>3, FaceByFace
<1> QED  BY <1>1, <1>4, SumIsSums

LEMMA CountIsNat == ASSUME NEW bag \in Dice PROVE Count(bag) \in Nat
<1>1. Bag(bag)  BY DiceAssumption DEF Dice, Bag
<1> QED  BY <1>1, SumIsNat DEF Count

LEMMA PointsAreNat == ASSUME NEW sel \in Dice, NEW c PROVE Points(sel, c) \in Nat
<1> DEFINE Triple(v) == IF v = 1 THEN 20 ELSE 2 * v
           Single(v) == IF v = 1 THEN 2 ELSE IF v = 5 THEN 1 ELSE 0
           Worth(v) == (sel[v] \div 3) * Triple(v) + (sel[v] % 3) * Single(v)
<1>1. PICK bag : bag = [v \in Faces |-> Worth(v)]  OBVIOUS
<1>2. ASSUME NEW v \in Faces PROVE Worth(v) \in Nat
  <2>1. v \in Nat /\ sel[v] \in Nat  BY DiceAssumption DEF Dice, Faces
  <2>2. sel[v] \div 3 \in Nat /\ sel[v] % 3 \in Nat  BY <2>1
  <2>3. Triple(v) \in Nat /\ Single(v) \in Nat  BY <2>1
  <2>4. \A a, b \in Nat : a * b \in Nat  OBVIOUS
  <2> HIDE DEF Triple, Single
  <2>5. (sel[v] \div 3) * Triple(v) \in Nat /\ (sel[v] % 3) * Single(v) \in Nat  BY <2>2, <2>3, <2>4
  <2> QED  BY <2>5
<1>3. Bag(bag)  BY <1>1, <1>2 DEF Bag
<1>4. SumOver(bag) \in Nat  BY <1>3, SumIsNat
<1>5. Points(sel, c) = IF c = "Kniffel" THEN 0 ELSE SumOver(bag)  BY <1>1 DEF Points
<1> QED  BY <1>4, <1>5

-----------------------------------------------------------------------------
\* What is known of a bot's table.

PanelFields == {"phase", "kept", "roll", "sel", "score", "progress", "tuttos", "busted", "stopped", "summary",
                "reveal", "chain", "of"}

Undecided(p) == ~p.busted /\ ~p.stopped /\ ~p.summary.shown
HasDice(p) == p.kept \in Nat /\ p.roll \in Dice /\ p.roll # NoDice
Fits(keep, p, c) == keep \in Dice /\ Valid(keep, c, p.progress, ruleset)
Laid(p, c) ==
  /\ HasDice(p) /\ ~Busts(p.roll, c, p.progress, ruleset) /\ p.sel \in Dice
  /\ classic /\ c = "Feuerwerk" => Fits(p.sel, p, c)

WhenReady(p, c) == p.kept = 0 /\ p.roll = NoDice /\ Undecided(p) /\ (p.reveal # "none" => c # "Stop")
WhenTumbling(p) == HasDice(p) /\ p.sel = NoDice /\ Undecided(p) /\ p.reveal = "none"
WhenSettled(p, c) ==
  \/ p.reveal = "none" /\ (p.busted \/ (p.stopped /\ p.summary.shown))
  \/ p.reveal = "none" /\ classic /\ p.kept = TotalDice /\ p.summary.shown
  \/ classic /\ c = "Stop" /\ (p.reveal = "none" => p.summary.shown)
  \/ Laid(p, c) /\ Undecided(p) /\ p.reveal = "none"

Sound(p, c) ==
  /\ DOMAIN p = PanelFields /\ p.progress \subseteq Faces
  /\ \/ p.phase = "ready" /\ WhenReady(p, c)
     \/ p.phase = "tumbling" /\ WhenTumbling(p)
     \/ p.phase = "settled" /\ WhenSettled(p, c)

Drawing(p) ==
  /\ DOMAIN p = PanelFields /\ p.progress \subseteq Faces
  /\ classic /\ p.phase = "settled" /\ p.reveal = "none" /\ Undecided(p)

Resumable(s, c) ==
  /\ s.progress \subseteq Faces
  /\ \/ s.busted \/ s.stopped \/ (classic /\ (s.kept = TotalDice \/ c = "Stop"))
     \/ s.kept = 0 /\ s.roll = NoDice
     \/ /\ HasDice(s) /\ s.sel \in Dice
        /\ \/ s.rolling
           \/ /\ ~Busts(s.roll, c, s.progress, ruleset)
              /\ classic /\ c = "Feuerwerk" => Fits(s.sel, s, c)

CacheIsSound == cache # NoCache => Resumable(cache.snap, cache.key[2])
TableIsSound == panel # Closed => IF asking = "no" THEN Sound(panel, card) ELSE Drawing(panel)
PlanFits == plan # NoPlan => panel # Closed /\ AtRest(panel) /\ Fits(plan.keep, panel, card)

TableInv ==
  /\ slot = FirstSlot
  /\ dirty \/ asking # "no" => panel # Closed
  /\ TableIsSound /\ CacheIsSound
BotInv == TableInv /\ PlanFits /\ NoBotStranded

-----------------------------------------------------------------------------
LEMMA NotKniffelFits ==
  ASSUME NEW roll \in Dice, NEW c, c # "Kniffel", NEW progress, NEW other, NEW rules,
         ~Busts(roll, c, progress, rules)
  PROVE  Largest(roll, c, other, rules) \in Dice /\ Valid(Largest(roll, c, other, rules), c, progress, rules)
<1>1. PICK k : k = [v \in Faces |-> IF v \in Singles THEN roll[v] ELSE 3 * (roll[v] \div 3)]  OBVIOUS
<1>2. Largest(roll, c, other, rules) = k  BY <1>1 DEF Largest
<1>3. \A v \in Faces : roll[v] \in Nat /\ roll[v] <= TotalDice  BY DiceAssumption DEF Dice
<1>4. \A v \in Faces : k[v] = IF v \in Singles THEN roll[v] ELSE 3 * (roll[v] \div 3)  BY <1>1
<1>5. ASSUME NEW v \in Faces PROVE k[v] \in 0..TotalDice
  <2>1. roll[v] \in Nat /\ roll[v] <= TotalDice  BY <1>3
  <2>2. 3 * (roll[v] \div 3) \in 0..roll[v]  BY <2>1
  <2> QED  BY <2>1, <2>2, <1>4, DiceAssumption
<1>6. k \in Dice  BY <1>1, <1>5 DEF Dice
<1>7. ASSUME NEW v \in Faces \ Singles PROVE k[v] % 3 = 0
  <2>1. roll[v] \in Nat /\ k[v] = 3 * (roll[v] \div 3)  BY <1>3, <1>4
  <2> QED  BY <2>1
<1>8. PICK v \in Faces : v \in Shown(roll) \cap Singles \/ ~(roll[v] < 3)
  <2>1. ~(Shown(roll) \cap Singles = {} /\ \A v \in Faces : roll[v] < 3)  BY DEF Busts
  <2>2. Shown(roll) \subseteq Faces  BY DEF Shown
  <2> QED  BY <2>1, <2>2
<1>9. k[v] > 0
  <2>1. CASE v \in Shown(roll) \cap Singles  BY <2>1, <1>4 DEF Shown
  <2>2. CASE ~(roll[v] < 3)
    <3>1. roll[v] \in Nat /\ roll[v] >= 3  BY <2>2, <1>3
    <3>2. 3 * (roll[v] \div 3) > 0  BY <3>1
    <3> QED  BY <3>1, <3>2, <1>4
  <2> QED  BY <2>1, <2>2, <1>8
<1>10. Shown(k) # {}  BY <1>9 DEF Shown
<1>11. Valid(k, c, progress, rules)  BY <1>7, <1>10 DEF Valid
<1> QED  BY <1>2, <1>6, <1>11

LEMMA OneEachFits ==
  ASSUME NEW S \in SUBSET Faces
  PROVE  OneEach(S) \in Dice /\ Shown(OneEach(S)) = S /\ \A v \in Faces : OneEach(S)[v] <= 1
<1>1. \A v \in Faces : OneEach(S)[v] = IF v \in S THEN 1 ELSE 0  BY DEF OneEach
<1>2. OneEach(S) \in Dice  BY DiceAssumption DEF OneEach, Dice
<1>3. \A v \in Faces : OneEach(S)[v] > 0 <=> v \in S  BY <1>1
<1>4. Shown(OneEach(S)) = S  BY <1>3 DEF Shown
<1> QED  BY <1>1, <1>2, <1>4

\* Of finitely many runs, one is the longest.
LEMMA LongestRun ==
  ASSUME NEW fits \in SUBSET (SUBSET Faces), fits # {}
  PROVE  \E R \in fits : \A Q \in fits : Cardinality(Q) <= Cardinality(R)
<1> DEFINE short == {NFaces - Cardinality(R) : R \in fits}
<1>0. \A R \in fits : Cardinality(R) \in Nat /\ Cardinality(R) <= NFaces  BY FacesAreFinite
<1>1. short \subseteq Nat /\ short # {}  BY <1>0, DiceAssumption
<1>2. PICK n \in short : \A m \in short : n <= m
  <2> HIDE DEF short
  <2> QED  BY <1>1, HasLeast
<1>3. PICK R \in fits : n = NFaces - Cardinality(R)  BY <1>2
<1>4. ASSUME NEW Q \in fits PROVE Cardinality(Q) <= Cardinality(R)
  <2>1. NFaces - Cardinality(Q) \in short  OBVIOUS
  <2>2. n <= NFaces - Cardinality(Q)
    <3> HIDE DEF short
    <3> QED  BY <1>2, <2>1
  <2> QED  BY <1>0, <1>3, <2>2, DiceAssumption
<1> QED  BY <1>4

\* A straight that is not stuck can take one face more.
LEMMA OneMore ==
  ASSUME NEW progress \in SUBSET Faces, NEW v \in Faces, v \in NextNeeded(progress)
  PROVE  {v} \in Runs(progress)
<1>1. Cardinality({v}) = 1  BY FS_Singleton
<1>2. v \in Nat /\ v..(v + 1 - 1) = {v} /\ (v + 1 - 1)..v = {v}  BY DiceAssumption DEF Faces
<1>3. CASE progress = {}
  <2>1. v = 1 \/ v = NFaces  BY <1>3 DEF NextNeeded
  <2>2. CASE v = 1
    <3>1. Upward(progress, 1) = {v}  BY <1>2, <1>3, <2>2 DEF Upward
    <3> QED  BY <1>1, <1>3, <3>1 DEF Runs
  <2>3. CASE v = NFaces
    <3>1. Downward(progress, 1) = {v}  BY <1>2, <1>3, <2>3 DEF Downward
    <3> QED  BY <1>1, <1>3, <3>1 DEF Runs
  <2> QED  BY <2>1, <2>2, <2>3
<1>4. CASE progress # {} /\ 1 \in progress
  <2>1. v = HighestOf(progress) + 1  BY <1>4 DEF NextNeeded
  <2>2. Upward(progress, 1) = {v}  BY <1>2, <1>4, <2>1 DEF Upward
  <2> QED  BY <1>1, <1>4, <2>2 DEF Runs
<1>5. CASE progress # {} /\ 1 \notin progress
  <2>1. v = LowestOf(progress) - 1  BY <1>5 DEF NextNeeded
  <2>2. Downward(progress, 1) = {v}  BY <1>2, <1>5, <2>1 DEF Downward
  <2> QED  BY <1>1, <1>5, <2>2 DEF Runs
<1> QED  BY <1>3, <1>4, <1>5

LEMMA KniffelFits ==
  ASSUME NEW roll \in Dice, NEW progress \in SUBSET Faces, NEW rules, ~KniffelBusts(roll, progress, rules)
  PROVE  LET k == KniffelLargest(roll, progress, rules)
         IN k \in Dice /\ Shown(k) # {} /\ KniffelValid(k, progress, rules)
<1> DEFINE fits == {R \in Runs(progress) : R \subseteq Shown(roll)}
           longest == {R \in fits : \A Q \in fits : Cardinality(Q) <= Cardinality(R)}
           chosen == IF rules = "classic" THEN Shown(roll) \ progress
                     ELSE IF fits = {} THEN {}
                     ELSE IF \E R \in longest : 1 \in R THEN CHOOSE R \in longest : 1 \in R
                     ELSE CHOOSE R \in longest : TRUE
<1>1. KniffelLargest(roll, progress, rules) = OneEach(chosen)  BY DEF KniffelLargest
<1>2. /\ chosen \in SUBSET Faces /\ chosen # {}
      /\ IF rules = "classic" THEN chosen \cap progress = {} ELSE chosen \in Runs(progress)
  <2>1. CASE rules = "classic"
    <3>1. Shown(roll) \cap (Faces \ progress) # {}  BY <2>1 DEF KniffelBusts
    <3>2. Shown(roll) \subseteq Faces  BY DEF Shown
    <3> QED  BY <2>1, <3>1, <3>2
  <2>2. CASE rules # "classic"
    <3>1. PICK v \in Shown(roll) : v \in NextNeeded(progress)  BY <2>2 DEF KniffelBusts
    <3>2. v \in Faces  BY DEF Shown
    <3>3. {v} \in fits  BY <3>1, <3>2, OneMore
    <3>4. fits \in SUBSET (SUBSET Faces) /\ \A R \in fits : R # {} /\ R \in Runs(progress)  BY DEF Runs
    <3> HIDE DEF fits
    <3>5. fits # {}  BY <3>3
    <3>6. longest # {} /\ longest \subseteq fits  BY <3>4, <3>5, LongestRun
    <3>7. chosen \in longest
      <4> HIDE DEF longest
      <4> QED  BY <2>2, <3>5, <3>6
    <3> HIDE DEF longest, chosen
    <3> QED  BY <2>2, <3>4, <3>6, <3>7
  <2> QED  BY <2>1, <2>2
<1> HIDE DEF chosen
<1>3. PICK k : k = OneEach(chosen)  OBVIOUS
<1>4. k \in Dice /\ Shown(k) = chosen /\ \A v \in Faces : k[v] <= 1  BY <1>2, <1>3, OneEachFits
<1>5. KniffelValid(k, progress, rules)  BY <1>2, <1>4 DEF KniffelValid
<1> QED  BY <1>1, <1>2, <1>3, <1>4, <1>5

\* The largest selection of a roll that does not bust can be put aside.
LEMMA LargestFits ==
  ASSUME NEW roll \in Dice, NEW c, NEW progress \in SUBSET Faces, NEW rules, ~Busts(roll, c, progress, rules)
  PROVE  /\ Largest(roll, c, progress, rules) \in Dice
         /\ Valid(Largest(roll, c, progress, rules), c, progress, rules)
<1>1. CASE c # "Kniffel"  BY <1>1, NotKniffelFits
<1>2. CASE c = "Kniffel"
  <2>1. ~KniffelBusts(roll, progress, rules)  BY <1>2 DEF Busts
  <2>2. PICK k : k = KniffelLargest(roll, progress, rules)  OBVIOUS
  <2>3. k \in Dice /\ Shown(k) # {} /\ KniffelValid(k, progress, rules)  BY <2>1, <2>2, KniffelFits
  <2>4. Valid(k, c, progress, rules)  BY <1>2, <2>3 DEF Valid
  <2> QED  BY <1>2, <2>2, <2>3, <2>4 DEF Largest
<1> QED  BY <1>1, <1>2

-----------------------------------------------------------------------------
\* Of what is offered, one comes first in an order that names it all.
LEMMA FirstOfSome ==
  ASSUME NEW x, NEW y, NEW z, NEW offered \in SUBSET {x, y, z}, offered # {}
  PROVE  FirstOf(<<x, y, z>>, offered) # {} /\ FirstOf(<<x, y, z>>, offered) \subseteq offered
<1> DEFINE o == <<x, y, z>>
<1>1. 1 \in DOMAIN o /\ 2 \in DOMAIN o /\ 3 \in DOMAIN o /\ o[1] = x /\ o[2] = y /\ o[3] = z  OBVIOUS
<1> HIDE DEF o
<1>2. FirstOf(o, offered) \subseteq offered  BY DEF FirstOf
<1>3. CASE x \in offered
  <2>1. x \in FirstOf(o, offered)  BY <1>1, <1>3 DEF FirstOf
  <2> QED  BY <1>2, <2>1 DEF o
<1>4. CASE x \notin offered /\ y \in offered
  <2>1. y \in FirstOf(o, offered)  BY <1>1, <1>4 DEF FirstOf
  <2> QED  BY <1>2, <2>1 DEF o
<1>5. CASE x \notin offered /\ y \notin offered
  <2>1. offered = {z}  BY <1>5
  <2>2. z \in FirstOf(o, offered)  BY <1>1, <2>1 DEF FirstOf
  <2> QED  BY <1>2, <2>2 DEF o
<1> QED  BY <1>3, <1>4, <1>5

Actions == {"roll", "stop", "draw"}

LEMMA ComparedIsOffered ==
  ASSUME NEW ctx, NEW offered \in SUBSET Actions, offered # {}
  PROVE  Compared(ctx, offered) # {} /\ Compared(ctx, offered) \subseteq offered
<1>1. CASE {"roll", "stop"} \subseteq offered  BY <1>1 DEF Compared
<1>2. CASE ~({"roll", "stop"} \subseteq offered) /\ {"draw", "stop"} \subseteq offered
  BY <1>2 DEF Compared
<1>3. CASE ~({"roll", "stop"} \subseteq offered) /\ ~({"draw", "stop"} \subseteq offered)
  <2>1. Compared(ctx, offered) = FirstOf(<<"roll", "stop", "draw">>, offered)
    BY <1>3 DEF Compared
  <2>2. offered \in SUBSET {"roll", "stop", "draw"}  BY DEF Actions
  <2>3. /\ FirstOf(<<"roll", "stop", "draw">>, offered) # {}
        /\ FirstOf(<<"roll", "stop", "draw">>, offered) \subseteq offered
    BY <2>2, FirstOfSome
  <2> QED  BY <2>1, <2>3
<1> QED  BY <1>1, <1>2, <1>3

LEMMA DecidingIs ==
  ASSUME NEW e, NEW actions, NEW priority
  PROVE  /\ \A d \in Deciding(e, actions, priority) : d.keep = e.keep /\ d.offered = e.offered /\ d.action \in actions
         /\ actions # {} => Deciding(e, actions, priority) # {}
<1>1. ASSUME NEW d \in Deciding(e, actions, priority)
      PROVE  d.keep = e.keep /\ d.offered = e.offered /\ d.action \in actions
  BY DEF Deciding
<1>2. ASSUME NEW a \in actions
      PROVE  [action |-> a, priority |-> priority, keep |-> e.keep, bank |-> e.bank, offered |-> e.offered]
               \in Deciding(e, actions, priority)
  BY DEF Deciding
<1> QED  BY <1>1, <1>2

\* However the end of the game is foreseen, Otto does on a keep what is offered on it.
LEMMA DeemedIs ==
  ASSUME NEW ctx, NEW e, e.offered \in SUBSET Actions
  PROVE  /\ \A d \in DecisionsOn(ctx, e) : d.keep = e.keep /\ d.offered = e.offered
         /\ e.offered # {} => /\ DecisionsOn(ctx, e) # {}
                              /\ \A d \in DecisionsOn(ctx, e) : d.action \in e.offered
<1>1. PICK f : f = Foreseen(ctx, e)  OBVIOUS
<1>2. /\ f.settles = "win" => "stop" \in e.offered
      /\ f.roll => "roll" \in e.offered
      /\ f.draw => "draw" \in e.offered
  BY <1>1 DEF Foreseen
<1>3. PICK actions, priority :
        /\ DecisionsOn(ctx, e) = Deciding(e, actions, priority)
        /\ e.offered # {} => actions # {} /\ actions \subseteq e.offered
  <2>1. CASE f.settles = "win"
    BY <1>1, <1>2, <2>1 DEF DecisionsOn, Deemed
  <2>2. CASE f.settles = "loss" /\ f.roll
    BY <1>1, <1>2, <2>2 DEF DecisionsOn, Deemed
  <2>3. CASE f.settles = "loss" /\ f.draw /\ ~f.roll
    BY <1>1, <1>2, <2>3 DEF DecisionsOn, Deemed
  <2>4. CASE f.settles \in {"loss", "none"} /\ ~f.roll /\ ~f.draw
    BY <1>1, <2>4, ComparedIsOffered DEF DecisionsOn, Deemed
  <2>5. CASE /\ f.settles # "win"
             /\ ~(f.settles = "loss" /\ f.roll) /\ ~(f.settles = "loss" /\ f.draw /\ ~f.roll)
             /\ ~(f.settles \in {"loss", "none"} /\ ~f.roll /\ ~f.draw)
    BY <1>1, <2>5, ComparedIsOffered DEF DecisionsOn, Deemed
  <2> QED  BY <2>1, <2>2, <2>3, <2>4, <2>5
<1> QED  BY <1>3, DecidingIs

LEMMA OttoKeeps ==
  ASSUME NEW ctx, NEW d \in OttoDecisions(ctx)
  PROVE  d.keep \in KeepsTried(ctx)
<1>1. PICK k \in KeepsTried(ctx) : d \in DecisionsOn(ctx, Evaluated(ctx, k, ActionsFor(ctx, k)))
  BY DEF OttoDecisions, Best
<1>2. PICK e : e = Evaluated(ctx, k, ActionsFor(ctx, k))  OBVIOUS
<1>3. e.keep = k /\ e.offered = ActionsFor(ctx, k)  BY <1>2 DEF Evaluated
<1>4. ActionsFor(ctx, k) \in SUBSET Actions  BY DEF ActionsFor, Actions
<1>5. d.keep = e.keep  BY <1>1, <1>2, <1>3, <1>4, DeemedIs
<1> QED  BY <1>3, <1>5

LEMMA ResolvedIs ==
  ASSUME NEW ctx, NEW d, NEW offered \in SUBSET Actions, offered # {}
  PROVE  Resolved(ctx, d, offered) # {}
<1>1. CASE offered = d.offered  BY <1>1 DEF Resolved
<1>2. CASE offered # d.offered
  <2>1. PICK e : e = Evaluated(ctx, d.keep, offered)  OBVIOUS
  <2>2. e.offered = offered  BY <2>1 DEF Evaluated
  <2>3. PICK x \in DecisionsOn(ctx, e) : x.action \in offered  BY <2>2, DeemedIs
  <2>4. x.action \in Resolved(ctx, d, offered)  BY <1>2, <2>1, <2>3 DEF Resolved
  <2> QED  BY <2>4
<1> QED  BY <1>1, <1>2

\* Whatever is offered, every bot does something.
LEMMA ChosenIs == ASSUME NEW d, Offered(panel) # {} PROVE Chosen(d) # {}
<1>1. Offered(panel) \in SUBSET Actions  BY DEF Offered, Actions
<1>2. Resolved(Context, d, Offered(panel)) # {}  BY <1>1, ResolvedIs
<1>3. Cautious(Context, d.keep, Offered(panel)) # {}  BY <1>1, FirstOfSome DEF Cautious, Actions
<1>4. Risky(Context, d.keep, Offered(panel)) # {}
  <2>1. Offered(panel) \in SUBSET {"draw", "roll", "stop"}  BY <1>1 DEF Actions
  <2> QED  BY <2>1, FirstOfSome DEF Risky
<1> QED  BY <1>2, <1>3, <1>4 DEF Chosen

\* A selection that can be kept can be acted on.
LEMMA OfferedIs == ASSUME NEW p, CanAct(p) PROVE Offered(p) # {}
<1>1. CASE MakesTutto(p) => card = "Feuerwerk"
  <2>1. "roll" \in Offered(p)  BY <1>1 DEF Offered
  <2> QED  BY <2>1
<1>2. CASE MakesTutto(p) /\ card # "Feuerwerk"
  <2>1. CanStop(p)  BY <1>2 DEF CanStop
  <2>2. "stop" \in Offered(p)  BY <2>1 DEF Offered
  <2> QED  BY <2>2
<1> QED  BY <1>1, <1>2

-----------------------------------------------------------------------------
\* A table at rest with a sound panel has dice that do not bust on it.
LEMMA AtRestIsLaid ==
  ASSUME NEW p, Sound(p, card), AtRest(p) PROVE Laid(p, card) /\ p.progress \in SUBSET Faces
BY DEF Sound, AtRest, WhenSettled

\* What a bot settles on can be kept.
LEMMA DecisionsFit ==
  ASSUME Sound(panel, card), AtRest(panel), NEW d \in Decisions PROVE Fits(d.keep, panel, card)
<1>1. Laid(panel, card) /\ panel.progress \in SUBSET Faces  BY AtRestIsLaid
<1>2. PICK k : k = Largest(panel.roll, card, panel.progress, ruleset)  OBVIOUS
<1>3. Fits(k, panel, card)  BY <1>1, <1>2, LargestFits DEF Laid, HasDice, Fits
<1>4. CASE bot.personality # "optimal"
  <2>1. d.keep = k  BY <1>2, <1>4 DEF Decisions
  <2> QED  BY <1>3, <2>1
<1>5. CASE bot.personality = "optimal"
  <2>1. PICK ctx : ctx = Context  OBVIOUS
  <2>2. /\ ctx.roll = panel.roll /\ ctx.card = card /\ ctx.progress = panel.progress /\ ctx.ruleset = ruleset
    BY <2>1 DEF Context
  <2>3. d.keep \in KeepsTried(ctx)  BY <1>5, <2>1, OttoKeeps DEF Decisions
  <2>4. d.keep = Largest(ctx.roll, ctx.card, ctx.progress, ctx.ruleset) \/ d.keep \in LegalKeeps(ctx)
    BY <2>3 DEF KeepsTried
  <2>5. CASE d.keep = Largest(ctx.roll, ctx.card, ctx.progress, ctx.ruleset)
    BY <1>2, <1>3, <2>2, <2>5
  <2>6. CASE d.keep \in LegalKeeps(ctx)
    <3>1. \/ d.keep = Largest(ctx.roll, ctx.card, ctx.progress, ctx.ruleset)
          \/ d.keep \in Dice /\ Valid(d.keep, ctx.card, ctx.progress, ctx.ruleset)
      BY <2>6 DEF LegalKeeps
    <3> QED  BY <1>2, <1>3, <2>2, <3>1 DEF Fits
  <2> QED  BY <2>4, <2>5, <2>6
<1> QED  BY <1>4, <1>5

\* A sound panel leaves a snapshot a panel can resume from.
LEMMA SnapshotResumes ==
  ASSUME NEW p, NEW c, Sound(p, c) PROVE Resumable(Snapshot(p), c)
<1>1. PICK s : s = Snapshot(p)  OBVIOUS
<1>2. /\ s.progress = p.progress /\ s.kept = p.kept /\ s.roll = p.roll /\ s.busted = p.busted
      /\ s.stopped = p.stopped /\ s.rolling = (p.phase = "tumbling") /\ (~p.busted => s.sel = p.sel)
  BY <1>1 DEF Snapshot
<1>3. s.progress \subseteq Faces  BY <1>2 DEF Sound
<1>4. NoDice \in Dice  BY DiceAssumption DEF NoDice, Dice
<1>5. CASE p.phase = "ready" /\ WhenReady(p, c)
  <2>1. s.kept = 0 /\ s.roll = NoDice  BY <1>2, <1>5 DEF WhenReady
  <2> QED  BY <1>1, <1>3, <2>1 DEF Resumable
<1>6. CASE p.phase = "tumbling" /\ WhenTumbling(p)
  <2>1. HasDice(s) /\ s.sel \in Dice /\ s.rolling
    BY <1>2, <1>4, <1>6 DEF WhenTumbling, HasDice, Undecided
  <2> QED  BY <1>1, <1>3, <2>1 DEF Resumable
<1>7. CASE p.phase = "settled" /\ WhenSettled(p, c)
  <2>1. CASE p.busted \/ p.stopped \/ (classic /\ (p.kept = TotalDice \/ c = "Stop"))
    <3>1. s.busted \/ s.stopped \/ (classic /\ (s.kept = TotalDice \/ c = "Stop"))  BY <1>2, <2>1
    <3> QED  BY <1>1, <1>3, <3>1 DEF Resumable
  <2>2. CASE Laid(p, c) /\ Undecided(p)
    <3>1. ~p.busted  BY <2>2 DEF Undecided
    <3>2. HasDice(s) /\ s.sel \in Dice /\ ~Busts(s.roll, c, s.progress, ruleset)
      BY <1>2, <2>2, <3>1 DEF Laid, HasDice
    <3>3. classic /\ c = "Feuerwerk" => Fits(s.sel, s, c)
      BY <1>2, <2>2, <3>1 DEF Laid, Fits
    <3> QED  BY <1>1, <1>3, <3>2, <3>3 DEF Resumable
  <2> QED  BY <1>7, <2>1, <2>2 DEF WhenSettled
<1> QED  BY <1>5, <1>6, <1>7 DEF Sound

\* The panel resumed from such a snapshot is sound.
LEMMA ResumedIsSound ==
  ASSUME NEW s, Resumable(s, card) PROVE Sound(Derived(s), card) /\ Derived(s) # Closed
<1> DEFINE bust == s.busted \/ RollBusts(s)
           won == card = "Feuerwerk" /\ s.score > 0
           tutto == ~bust /\ classic /\ s.kept = TotalDice
           stop == ~bust /\ ~tutto /\ classic /\ card = "Stop"
           banked == ~bust /\ ~tutto /\ ~stop /\ s.stopped
           midDraw == ~bust /\ ~tutto /\ ~stop /\ ~banked /\ s.kept = 0 /\ s.roll = NoDice
           sel == IF Unresolved(s) /\ ~bust /\ classic /\ card = "Feuerwerk"
                  THEN Largest(s.roll, card, {}, ruleset) ELSE s.sel
<1>1. PICK p : p = Derived(s)  OBVIOUS
<1>2. /\ DOMAIN p = PanelFields
      /\ p.phase = IF midDraw THEN "ready" ELSE "settled"
      /\ p.kept = s.kept /\ p.roll = s.roll /\ p.progress = s.progress
      /\ p.sel = sel
  BY <1>1 DEF Derived, PanelFields
<1>3. p.busted = bust /\ p.stopped = banked /\ p.reveal = "none"
  BY <1>1 DEF Derived
<1>4. /\ bust \/ tutto \/ stop \/ banked => p.summary.shown
      /\ ~bust /\ ~tutto /\ ~stop /\ ~banked => ~p.summary.shown
  BY <1>1 DEF Derived, Summary, NoSummary
<1>5. p.progress \subseteq Faces  BY <1>2 DEF Resumable
<1>6. CASE bust
  <2>1. p.phase = "settled" /\ p.busted /\ p.reveal = "none"  BY <1>2, <1>3, <1>6
  <2> QED  BY <1>1, <1>2, <1>5, <2>1 DEF Sound, WhenSettled, Closed, PanelFields
<1>7. CASE ~bust /\ (tutto \/ stop \/ banked)
  <2>1. p.phase = "settled" /\ p.reveal = "none" /\ p.summary.shown
    BY <1>2, <1>3, <1>4, <1>7
  <2>2. \/ classic /\ p.kept = TotalDice
        \/ classic /\ card = "Stop"
        \/ p.stopped
    BY <1>2, <1>3, <1>7
  <2> QED  BY <1>1, <1>2, <1>5, <2>1, <2>2 DEF Sound, WhenSettled, Closed, PanelFields
<1>8. CASE ~bust /\ ~tutto /\ ~stop /\ ~banked
  <2>1. Undecided(p) /\ p.reveal = "none"  BY <1>3, <1>4, <1>8 DEF Undecided
  <2>2. CASE midDraw
    <3>1. p.phase = "ready" /\ p.kept = 0 /\ p.roll = NoDice  BY <1>2, <2>2
    <3> QED  BY <1>1, <1>2, <1>5, <2>1, <3>1 DEF Sound, WhenReady, Closed, PanelFields
  <2>3. CASE ~midDraw
    <3>1. p.phase = "settled"  BY <1>2, <2>3
    <3>2. ~s.busted /\ ~s.stopped /\ ~(classic /\ (s.kept = TotalDice \/ card = "Stop"))
      BY <1>8
    <3>3. ~(s.kept = 0 /\ s.roll = NoDice)  BY <1>8, <2>3
    <3>4. /\ HasDice(s) /\ s.sel \in Dice
          /\ \/ s.rolling
             \/ /\ ~Busts(s.roll, card, s.progress, ruleset)
                /\ classic /\ card = "Feuerwerk" => Fits(s.sel, s, card)
      BY <3>2, <3>3 DEF Resumable
    <3>5. s.roll \in Dice /\ s.roll # NoDice  BY <3>4 DEF HasDice
    <3>6. s.rolling => Unresolved(s)  BY <3>2, <3>5 DEF Unresolved
    <3>7. ~Busts(s.roll, card, s.progress, ruleset)  BY <1>8, <3>4, <3>6 DEF RollBusts
    <3>8. sel \in Dice /\ (classic /\ card = "Feuerwerk" => Fits(sel, s, card))
      <4>1. CASE Unresolved(s) /\ classic /\ card = "Feuerwerk"
        <5>1. sel = Largest(s.roll, card, {}, ruleset)  BY <1>8, <4>1
        <5>2. card # "Kniffel"  BY <4>1
        <5> HIDE DEF sel
        <5> QED  BY <3>5, <3>7, <5>1, <5>2, NotKniffelFits DEF Fits
      <4>2. CASE ~(Unresolved(s) /\ classic /\ card = "Feuerwerk")
        <5>1. sel = s.sel  BY <4>2
        <5> HIDE DEF sel
        <5> QED  BY <3>4, <3>6, <4>2, <5>1
      <4> QED  BY <4>1, <4>2
    <3> HIDE DEF sel
    <3>9. Laid(p, card)  BY <1>2, <3>4, <3>7, <3>8 DEF Laid, HasDice, Fits
    <3> QED  BY <1>1, <1>2, <1>5, <2>1, <3>1, <3>9 DEF Sound, WhenSettled, Closed, PanelFields
  <2> QED  BY <2>2, <2>3
<1> QED  BY <1>6, <1>7, <1>8

-----------------------------------------------------------------------------
LEMMA OpenIsNotClosed == ASSUME NEW p, DOMAIN p = PanelFields PROVE p # Closed
BY DEF PanelFields, Closed

\* The table goes on with a sound panel, whatever is published of it.
LEMMA TableGoesOn ==
  ASSUME TableInv, NEW p, Sound(p, card), panel' = p, asking' = "no", UNCHANGED <<ruleset, slot, dealt>>,
         cache' \in {cache, NoCache, [key |-> <<slot, card>>, snap |-> Snapshot(p)]}
  PROVE  TableInv'
<1>1. card' = card /\ classic' = classic  BY DEF card, classic
<1>2. p # Closed  BY OpenIsNotClosed DEF Sound
<1>3. Sound(panel, card)'
  BY <1>1 DEF Sound, WhenReady, WhenTumbling, WhenSettled, Undecided, HasDice, Laid, Fits
<1>4. CacheIsSound'
  <2>1. CASE cache' = cache \/ cache' = NoCache
    BY <1>1, <2>1 DEF TableInv, CacheIsSound, Resumable, HasDice, Fits
  <2>2. CASE cache' = [key |-> <<slot, card>>, snap |-> Snapshot(p)]
    <3>1. PICK s : s = Snapshot(p)  OBVIOUS
    <3>2. Resumable(s, card)  BY <3>1, SnapshotResumes
    <3>3. cache'.snap = s /\ cache'.key[2] = card  BY <2>2, <3>1
    <3>4. Resumable(cache.snap, cache.key[2])'
      BY <1>1, <3>2, <3>3 DEF Resumable, HasDice, Fits
    <3> QED  BY <3>4 DEF CacheIsSound
  <2> QED  BY <2>1, <2>2
<1> QED  BY <1>2, <1>3, <1>4 DEF TableInv, TableIsSound

LEMMA TableBecomes ==
  ASSUME TableInv, asking = "no", NEW p, Sound(p, card), Becomes(p), UNCHANGED <<ruleset, slot, dealt, asking>>
  PROVE  TableInv' /\ panel' = p
<1>1. panel' = p /\ (cache' = cache \/ cache' = [key |-> <<slot, card>>, snap |-> Snapshot(p)])
  BY DEF Becomes, Publish, ShownKey
<1> QED  BY <1>1, TableGoesOn

LEMMA NoDiceAreNone == ASSUME NEW r \in Dice, NEW n \in Nat, n # TotalDice, Count(r) = TotalDice - n PROVE r # NoDice
BY CountOfNothing, DiceAssumption

\* A throw of what is left: the table is in the air.
LEMMA ThrowIsSound ==
  ASSUME TableInv, asking = "no", NEW p, DOMAIN p = PanelFields, p.progress \subseteq Faces,
         p.kept \in Nat, p.kept # TotalDice, ~p.stopped, ~p.summary.shown, p.reveal = "none",
         NEW n, n = TotalDice - p.kept, Rolled(p, n), UNCHANGED <<ruleset, slot, dealt, asking>>
  PROVE  TableInv' /\ panel'.phase = "tumbling" /\ panel'.reveal = "none"
<1>1. PICK r \in Dice : /\ Count(r) = n
                        /\ Becomes([p EXCEPT !.phase = "tumbling", !.roll = r, !.sel = NoDice, !.busted = FALSE])
  BY DEF Rolled
<1>2. PICK q : q = [p EXCEPT !.phase = "tumbling", !.roll = r, !.sel = NoDice, !.busted = FALSE]  OBVIOUS
<1>3. /\ DOMAIN q = PanelFields /\ q.phase = "tumbling" /\ q.roll = r /\ q.sel = NoDice /\ ~q.busted
      /\ q.progress = p.progress /\ q.kept = p.kept /\ q.stopped = p.stopped /\ q.summary = p.summary
      /\ q.reveal = p.reveal
  BY <1>2 DEF PanelFields
<1>4. r # NoDice  BY <1>1, NoDiceAreNone
<1>5. Sound(q, card)  BY <1>3, <1>4 DEF Sound, WhenTumbling, HasDice, Undecided
<1>6. Becomes(q)  BY <1>1, <1>2
<1>7. TableInv' /\ panel' = q  BY <1>5, <1>6, TableBecomes
<1> QED  BY <1>3, <1>7

LEMMA KeptIs ==
  ASSUME NEW p, DOMAIN p = PanelFields
  PROVE  /\ DOMAIN Kept(p) = PanelFields /\ Kept(p).phase = p.phase /\ Kept(p).kept = p.kept + Count(p.sel)
         /\ Kept(p).busted = p.busted /\ Kept(p).stopped = p.stopped /\ Kept(p).summary = p.summary
         /\ Kept(p).reveal = p.reveal
         /\ p.progress \subseteq Faces => Kept(p).progress \subseteq Faces
<1>1. PICK score, ch : Kept(p) =
        [p EXCEPT !.score = score, !.kept = @ + Count(p.sel), !.chain = ch, !.sel = NoDice, !.roll = NoDice,
                  !.progress = IF card = "Kniffel" THEN @ \cup Shown(p.sel) ELSE {}]
  BY DEF Kept
<1>2. Shown(p.sel) \subseteq Faces  BY DEF Shown
<1> QED  BY <1>1, <1>2 DEF PanelFields

LEMMA CommittedIs ==
  ASSUME NEW p, DOMAIN p = PanelFields
  PROVE  /\ DOMAIN Committed(p) = PanelFields /\ Committed(p).phase = p.phase
         /\ Committed(p).busted = p.busted /\ Committed(p).stopped = p.stopped /\ Committed(p).summary = p.summary
         /\ Committed(p).reveal = p.reveal
         /\ p.progress \subseteq Faces => Committed(p).progress \subseteq Faces
<1>1. PICK k : k = Kept(p)  OBVIOUS
<1>2. /\ DOMAIN k = PanelFields /\ k.phase = p.phase
      /\ k.busted = p.busted /\ k.stopped = p.stopped /\ k.summary = p.summary /\ k.reveal = p.reveal
      /\ p.progress \subseteq Faces => k.progress \subseteq Faces
  BY <1>1, KeptIs
<1>3. PICK a : a = Awarded(k)  OBVIOUS
<1>4. a = k \/ \E score, ch : a = [k EXCEPT !.score = score, !.chain = ch]
  BY <1>3 DEF Awarded, Paid
<1>5. /\ DOMAIN a = PanelFields /\ a.phase = k.phase
      /\ a.busted = k.busted /\ a.stopped = k.stopped /\ a.summary = k.summary /\ a.reveal = k.reveal
      /\ a.progress = k.progress
  BY <1>2, <1>4 DEF PanelFields
<1>6. Committed(p) = k \/ \E ch : Committed(p) = [a EXCEPT !.chain = ch]
  BY <1>1, <1>3 DEF Committed
<1> QED  BY <1>2, <1>5, <1>6 DEF PanelFields

-----------------------------------------------------------------------------
\* The panel's steps with the table still.

LEMMA PanelOpens ==
  ASSUME TableInv, Open PROVE TableInv'
<1>1. panel = Closed /\ asking = "no" /\ UNCHANGED <<ruleset, slot, dealt, asking>>
  BY DEF Open, TableInv
<1>2. CASE cache.key = TurnKey
  <2>1. cache.key[1] = slot /\ cache.key[2] = card  BY <1>2 DEF TurnKey
  <2>2. cache # NoCache  BY <2>1 DEF NoCache, TableInv, FirstSlot
  <2>3. PICK p : p = Derived(cache.snap)  OBVIOUS
  <2>4. Sound(p, card)  BY <2>1, <2>2, <2>3, ResumedIsSound DEF TableInv, CacheIsSound
  <2>5. Becomes(p) \/ (panel' = p /\ cache' = cache)  BY <1>2, <2>3 DEF Open
  <2> QED  BY <1>1, <2>4, <2>5, TableBecomes, TableGoesOn
<1>3. CASE cache.key # TurnKey
  <2>1. PICK p : p = FreshPanel(card)  OBVIOUS
  <2>2. panel' = p /\ cache' = NoCache  BY <1>3, <2>1 DEF Open
  <2>3. Sound(p, card)
    BY <2>1 DEF FreshPanel, Sound, WhenReady, Undecided, NoSummary, PanelFields
  <2> QED  BY <1>1, <2>2, <2>3, TableGoesOn
<1> QED  BY <1>2, <1>3

LEMMA PanelTumbles ==
  ASSUME TableInv, OpeningRoll PROVE TableInv' /\ panel'.phase = "tumbling" /\ panel'.reveal = "none"
<1>1. panel # Closed /\ asking = "no" /\ UNCHANGED <<ruleset, slot, dealt, asking>>
  BY DEF OpeningRoll, Closed, server
<1>2. Sound(panel, card)  BY <1>1 DEF TableInv, TableIsSound
<1>3. /\ DOMAIN panel = PanelFields /\ panel.progress \subseteq Faces
      /\ panel.kept = 0 /\ ~panel.stopped /\ ~panel.summary.shown /\ panel.reveal = "none"
  BY <1>2 DEF OpeningRoll, Sound, WhenReady, Undecided
<1>4. Rolled(panel, TotalDice) /\ TotalDice = TotalDice - panel.kept /\ panel.kept # TotalDice
  BY <1>3, DiceAssumption DEF OpeningRoll
<1> QED  BY <1>1, <1>3, <1>4, ThrowIsSound

LEMMA PanelLands ==
  ASSUME TableInv, Finalize PROVE TableInv'
<1>1. panel # Closed /\ UNCHANGED <<ruleset, slot, dealt, asking>>
  BY DEF Finalize, Closed, server
<1>2. asking = "no" /\ Sound(panel, card)
  BY <1>1 DEF TableInv, TableIsSound, Drawing, Finalize
<1>3. DOMAIN panel = PanelFields /\ panel.progress \subseteq Faces /\ WhenTumbling(panel)
  BY <1>2 DEF Finalize, Sound
<1>4. PICK p : p = [panel EXCEPT !.phase = "settled"]  OBVIOUS
<1>5. /\ DOMAIN p = PanelFields /\ p.phase = "settled" /\ p.progress \subseteq Faces
      /\ HasDice(p) /\ p.sel = NoDice /\ Undecided(p) /\ p.reveal = "none"
  BY <1>3, <1>4 DEF PanelFields, WhenTumbling, HasDice, Undecided
<1>6. CASE Busts(p.roll, card, p.progress, ruleset)
  <2>1. PICK chain, summary : Becomes([p EXCEPT !.busted = TRUE, !.chain = chain, !.summary = summary])
    BY <1>4, <1>6 DEF Finalize
  <2>2. PICK q : q = [p EXCEPT !.busted = TRUE, !.chain = chain, !.summary = summary]  OBVIOUS
  <2>3. Sound(q, card)  BY <1>5, <2>2 DEF Sound, WhenSettled, PanelFields
  <2> QED  BY <1>1, <1>2, <2>1, <2>2, <2>3, TableBecomes
<1>7. CASE ~Busts(p.roll, card, p.progress, ruleset)
  <2>1. PICK k : k = IF classic /\ card = "Feuerwerk" THEN Largest(p.roll, card, {}, ruleset) ELSE NoDice  OBVIOUS
  <2>2. PICK q : q = [p EXCEPT !.sel = k]  OBVIOUS
  <2>3. /\ DOMAIN q = PanelFields /\ q.phase = "settled" /\ q.progress = p.progress
        /\ q.roll = p.roll /\ q.kept = p.kept /\ q.sel = k /\ Undecided(q) /\ q.reveal = "none"
    BY <1>5, <2>2 DEF PanelFields, Undecided
  <2>4. k \in Dice /\ (classic /\ card = "Feuerwerk" => Valid(k, card, p.progress, ruleset))
    <3>1. CASE classic /\ card = "Feuerwerk"
      <4>1. k = Largest(p.roll, card, {}, ruleset) /\ card # "Kniffel"  BY <2>1, <3>1
      <4> QED  BY <1>5, <1>7, <4>1, NotKniffelFits DEF HasDice
    <3>2. CASE ~(classic /\ card = "Feuerwerk")
      BY <2>1, <3>2, DiceAssumption DEF NoDice, Dice
    <3> QED  BY <3>1, <3>2
  <2>5. Laid(q, card)  BY <1>5, <1>7, <2>3, <2>4 DEF Laid, HasDice, Fits
  <2>6. Sound(q, card)  BY <1>5, <2>3, <2>5 DEF Sound, WhenSettled
  <2>7. Becomes(q)
    <3>1. CASE classic /\ card = "Feuerwerk"
      BY <1>4, <1>7, <2>1, <2>2, <3>1 DEF Finalize
    <3>2. CASE ~(classic /\ card = "Feuerwerk")
      <4>1. Becomes(p)  BY <1>4, <1>7, <3>2 DEF Finalize
      <4>2. q = p
        <5>1. k = p.sel  BY <1>5, <2>1, <3>2
        <5> QED  BY <1>4, <2>2, <5>1
      <4> QED  BY <4>1, <4>2
    <3> QED  BY <3>1, <3>2
  <2> QED  BY <1>1, <1>2, <2>6, <2>7, TableBecomes
<1> QED  BY <1>6, <1>7

LEMMA TableIsSent ==
  ASSUME TableInv, asking = "no", SendSnapshot PROVE TableInv' /\ panel' = panel /\ asking' = asking
<1>1. panel # Closed /\ Sound(panel, card)  BY DEF SendSnapshot, TableInv, TableIsSound
<1>2. panel' = panel /\ asking' = asking /\ UNCHANGED <<ruleset, slot, dealt>>  BY DEF SendSnapshot, server
<1>3. cache' = [key |-> <<slot, card>>, snap |-> Snapshot(panel)]  BY DEF SendSnapshot, Publish, ShownKey
<1> QED  BY <1>1, <1>2, <1>3, TableGoesOn

\* What the bot takes in hand is a table at rest.
LEMMA AtRestIsOpen ==
  ASSUME TableInv, panel # Closed, AtRest(panel)
  PROVE  /\ asking = "no" /\ Sound(panel, card) /\ DOMAIN panel = PanelFields /\ panel.progress \subseteq Faces
         /\ panel.phase = "settled" /\ panel.reveal = "none" /\ Undecided(panel) /\ Laid(panel, card)
<1>1. asking = "no" /\ panel.phase = "settled" /\ panel.reveal = "none" /\ ~panel.busted /\ ~panel.summary.shown
  BY DEF AtRest
<1>2. Sound(panel, card)  BY <1>1 DEF TableInv, TableIsSound
<1>3. Undecided(panel)  BY <1>1, <1>2 DEF Sound, WhenSettled, Undecided
<1> QED  BY <1>1, <1>2, <1>3, AtRestIsLaid DEF Sound

LEMMA SelectionIsSound ==
  ASSUME TableInv, panel # Closed, AtRest(panel), NEW k \in Dice, ~Locked,
         Becomes([panel EXCEPT !.sel = k]), UNCHANGED <<server, asking>>
  PROVE  TableInv' /\ panel'.sel = k /\ AtRest(panel)' /\ panel'.progress = panel.progress
<1>1. PICK p : p = [panel EXCEPT !.sel = k]  OBVIOUS
<1>2. /\ DOMAIN p = PanelFields /\ p.progress = panel.progress /\ p.progress \subseteq Faces /\ p.phase = "settled"
      /\ p.kept = panel.kept /\ p.roll = panel.roll /\ p.sel = k /\ p.reveal = "none"
      /\ p.busted = panel.busted /\ p.stopped = panel.stopped /\ p.summary = panel.summary
  BY <1>1, AtRestIsOpen DEF PanelFields
<1>3. Undecided(p) /\ ~p.busted /\ ~p.summary.shown  BY <1>2, AtRestIsOpen DEF Undecided
<1>4. Laid(p, card)  BY <1>2, AtRestIsOpen DEF Laid, HasDice, Locked
<1>5. Sound(p, card)  BY <1>2, <1>3, <1>4 DEF Sound, WhenSettled
<1>6. asking = "no" /\ asking' = "no" /\ UNCHANGED <<ruleset, slot, dealt, asking>>
  BY AtRestIsOpen DEF server
<1>7. TableInv' /\ panel' = p  BY <1>1, <1>5, <1>6, TableBecomes
<1> QED  BY <1>2, <1>3, <1>6, <1>7 DEF AtRest

\* After an action the table is no longer at rest.
Moved == panel' # Closed /\ ~AtRest(panel)' /\ panel'.reveal = "none"

LEMMA RollIsSound ==
  ASSUME TableInv, panel # Closed, RollOn \/ RollSecondTutto PROVE TableInv' /\ Moved
<1>1. AtRest(panel) /\ UNCHANGED <<ruleset, slot, dealt, asking>>
  BY DEF RollOn, RollSecondTutto, CanAct, server
<1>2. /\ asking = "no" /\ DOMAIN panel = PanelFields /\ panel.progress \subseteq Faces
      /\ panel.reveal = "none" /\ Undecided(panel) /\ Laid(panel, card)
  BY <1>1, AtRestIsOpen
<1>3. PICK k : k = Kept(panel)  OBVIOUS
<1>4. /\ DOMAIN k = PanelFields /\ k.progress \subseteq Faces /\ k.kept = panel.kept + Count(panel.sel)
      /\ k.reveal = "none" /\ k.stopped = panel.stopped /\ k.summary = panel.summary
  BY <1>2, <1>3, KeptIs
<1>5. k.kept \in Nat /\ ~k.stopped /\ ~k.summary.shown
  BY <1>2, <1>4, CountIsNat DEF Laid, HasDice, Undecided
<1>6. PICK q : /\ Rolled(q, TotalDice - q.kept)
               /\ DOMAIN q = PanelFields /\ q.progress \subseteq Faces /\ q.kept \in Nat /\ q.kept # TotalDice
               /\ ~q.stopped /\ ~q.summary.shown /\ q.reveal = "none"
  <2>1. CASE RollOn /\ ~MakesTutto(panel)
    <3>1. Rolled(k, TotalDice - k.kept)  BY <1>3, <2>1 DEF RollOn
    <3>2. k.kept # TotalDice  BY <1>4, <2>1 DEF MakesTutto
    <3> QED  BY <1>4, <1>5, <3>1, <3>2
  <2>2. CASE RollOn /\ MakesTutto(panel)
    <3>1. PICK q : q = [k EXCEPT !.kept = 0]  OBVIOUS
    <3>2. Rolled(q, TotalDice - q.kept)  BY <1>3, <2>2, <3>1 DEF RollOn
    <3>3. /\ DOMAIN q = PanelFields /\ q.progress = k.progress /\ q.kept = 0
          /\ q.stopped = k.stopped /\ q.summary = k.summary /\ q.reveal = k.reveal
      BY <1>4, <3>1 DEF PanelFields
    <3> QED  BY <1>4, <1>5, <3>2, <3>3, DiceAssumption
  <2>3. CASE RollSecondTutto
    <3>1. PICK q : q = [k EXCEPT !.kept = 0, !.tuttos = 1]  OBVIOUS
    <3>2. Rolled(q, TotalDice)  BY <1>3, <2>3, <3>1 DEF RollSecondTutto
    <3>3. /\ DOMAIN q = PanelFields /\ q.progress = k.progress /\ q.kept = 0
          /\ q.stopped = k.stopped /\ q.summary = k.summary /\ q.reveal = k.reveal
      BY <1>4, <3>1 DEF PanelFields
    <3>4. Rolled(q, TotalDice - q.kept) /\ q.kept # TotalDice
      <4>1. TotalDice = TotalDice - q.kept  BY <3>3, DiceAssumption
      <4> QED  BY <3>2, <3>3, <4>1, DiceAssumption
    <3> QED  BY <1>4, <1>5, <3>3, <3>4
  <2> QED  BY <2>1, <2>2, <2>3
<1>7. TableInv' /\ panel'.phase = "tumbling" /\ panel'.reveal = "none"
  BY <1>1, <1>2, <1>6, ThrowIsSound
<1> QED  BY <1>7 DEF Moved, AtRest, Closed

LEMMA StopIsSound ==
  ASSUME TableInv, panel # Closed, StopAndScore PROVE TableInv' /\ Moved
<1>1. AtRest(panel) /\ UNCHANGED <<ruleset, slot, dealt, asking>> /\ Becomes(Banked(Committed(panel)))
  BY DEF StopAndScore, CanAct, server
<1>2. /\ asking = "no" /\ DOMAIN panel = PanelFields /\ panel.progress \subseteq Faces
      /\ panel.phase = "settled" /\ panel.reveal = "none"
  BY <1>1, AtRestIsOpen
<1>3. PICK k : k = Committed(panel)  OBVIOUS
<1>4. DOMAIN k = PanelFields /\ k.progress \subseteq Faces /\ k.phase = "settled" /\ k.reveal = "none"
  BY <1>2, <1>3, CommittedIs
<1>5. PICK q : q = Banked(k)  OBVIOUS
<1>6. /\ DOMAIN q = PanelFields /\ q.progress \subseteq Faces /\ q.phase = "settled" /\ q.reveal = "none"
      /\ q.stopped /\ q.summary.shown
  BY <1>4, <1>5 DEF Banked, Summary, PanelFields
<1>7. Sound(q, card)  BY <1>6 DEF Sound, WhenSettled
<1>8. TableInv' /\ panel' = q  BY <1>1, <1>2, <1>3, <1>5, <1>7, TableBecomes
<1> QED  BY <1>6, <1>8, OpenIsNotClosed DEF Moved, AtRest

LEMMA DrawIsSound ==
  ASSUME TableInv, panel # Closed, DrawCard PROVE TableInv' /\ Moved
<1>1. /\ AtRest(panel) /\ UNCHANGED <<ruleset, slot, dealt>> /\ Becomes(Committed(panel))
      /\ asking' = "asked" /\ classic
  BY DEF DrawCard, CanAct, CanDraw, server
<1>2. /\ DOMAIN panel = PanelFields /\ panel.progress \subseteq Faces
      /\ panel.phase = "settled" /\ panel.reveal = "none" /\ Undecided(panel)
  BY <1>1, AtRestIsOpen
<1>3. PICK k : k = Committed(panel)  OBVIOUS
<1>4. /\ DOMAIN k = PanelFields /\ k.progress \subseteq Faces /\ k.phase = "settled" /\ k.reveal = "none"
      /\ Undecided(k)
  BY <1>2, <1>3, CommittedIs DEF Undecided
<1>5. panel' = k /\ cache' = cache  BY <1>1, <1>3, <1>4 DEF Becomes, Undecided
<1>6. Drawing(panel)' /\ panel' # Closed  BY <1>1, <1>4, <1>5, OpenIsNotClosed DEF Drawing, classic, Undecided
<1>7. CacheIsSound'  BY <1>1, <1>5 DEF TableInv, CacheIsSound, Resumable, HasDice, Fits, classic
<1>8. asking' # "no"  BY <1>1
<1>9. TableInv'  BY <1>1, <1>6, <1>7, <1>8 DEF TableInv, TableIsSound
<1> QED  BY <1>4, <1>5, <1>6, <1>8, <1>9 DEF Moved, AtRest

LEMMA CardIsSound ==
  ASSUME TableInv, asking # "no", Deal \/ DrawRefused \/ Drawn
  PROVE  TableInv'
<1>1. panel # Closed /\ Drawing(panel)  BY DEF TableInv, TableIsSound
<1>2. CASE Deal
  <2>1. UNCHANGED <<ruleset, slot, panel, dirty, cache>> /\ asking' = "dealt"  BY <1>2 DEF Deal
  <2> QED  BY <1>1, <2>1 DEF TableInv, TableIsSound, CacheIsSound, Drawing, Undecided, Resumable, HasDice, Fits, classic
<1>3. CASE DrawRefused
  <2>1. UNCHANGED <<ruleset, slot, dealt>> /\ asking' = "no" /\ Becomes(Banked(panel))  BY <1>3 DEF DrawRefused, server
  <2>2. PICK q : q = Banked(panel)  OBVIOUS
  <2>3. /\ DOMAIN q = PanelFields /\ q.progress \subseteq Faces /\ q.phase = "settled" /\ q.reveal = "none"
        /\ ~q.busted /\ q.stopped /\ q.summary.shown
    BY <1>1, <2>2 DEF Drawing, Undecided, Banked, Summary, PanelFields
  <2>4. Sound(q, card)  BY <2>3 DEF Sound, WhenSettled
  <2>5. panel' = q /\ cache' = cache  BY <2>1, <2>2, <2>3 DEF Becomes
  <2> QED  BY <2>1, <2>4, <2>5, TableGoesOn
<1>4. CASE Drawn
  <2>1. UNCHANGED <<ruleset, slot, dealt, cache>> /\ asking' = "no"  BY <1>4 DEF Drawn, server
  <2>2. PICK p, tuttos, ch :
          /\ panel' = p
          /\ p = [panel EXCEPT !.kept = 0, !.roll = NoDice, !.sel = NoDice, !.progress = {}, !.reveal = card,
                    !.phase = IF card = "Stop" THEN "settled" ELSE "ready", !.tuttos = tuttos, !.chain = ch]
    BY <1>4 DEF Drawn
  <2>3. /\ DOMAIN p = PanelFields /\ p.progress = {} /\ p.kept = 0 /\ p.roll = NoDice /\ p.reveal = card
        /\ p.phase = IF card = "Stop" THEN "settled" ELSE "ready"
        /\ p.busted = panel.busted /\ p.stopped = panel.stopped /\ p.summary = panel.summary
    BY <1>1, <2>2 DEF Drawing, PanelFields
  <2>4. Undecided(p)  BY <1>1, <2>3 DEF Drawing, Undecided
  <2>5. CASE card = "Stop"
    <3>1. classic /\ p.phase = "settled" /\ p.reveal # "none"  BY <1>1, <2>3, <2>5 DEF Drawing
    <3>2. Sound(p, card)  BY <2>3, <2>5, <3>1 DEF Sound, WhenSettled
    <3> QED  BY <2>1, <2>2, <3>2, TableGoesOn
  <2>6. CASE card # "Stop"
    <3>1. Sound(p, card)  BY <2>3, <2>4, <2>6 DEF Sound, WhenReady
    <3> QED  BY <2>1, <2>2, <3>1, TableGoesOn
  <2> QED  BY <2>5, <2>6
<1> QED  BY <1>2, <1>3, <1>4

LEMMA CardIsDismissed ==
  ASSUME TableInv, AcknowledgeDrawnCard PROVE TableInv'
<1>1. panel # Closed /\ UNCHANGED <<ruleset, slot, dealt, cache, asking>>
  BY DEF AcknowledgeDrawnCard, Closed, server
<1>2. asking = "no" /\ Sound(panel, card)
  BY <1>1 DEF TableInv, TableIsSound, Drawing, AcknowledgeDrawnCard
<1>3. PICK p : p = [panel EXCEPT !.reveal = "none", !.summary = IF card = "Stop" THEN Summary(FALSE, 0, FALSE) ELSE @]
  OBVIOUS
<1>4. /\ panel' = p /\ DOMAIN p = PanelFields /\ p.progress = panel.progress /\ p.phase = panel.phase
      /\ p.kept = panel.kept /\ p.roll = panel.roll /\ p.reveal = "none"
      /\ p.busted = panel.busted /\ p.stopped = panel.stopped
  BY <1>2, <1>3 DEF AcknowledgeDrawnCard, Sound, PanelFields
<1>5. /\ card = "Stop" => p.summary.shown
      /\ card # "Stop" => p.summary = panel.summary
  BY <1>2, <1>3 DEF Summary, Sound, PanelFields
<1>6. CASE panel.phase = "ready" /\ WhenReady(panel, card)
  <2>1. card # "Stop"  BY <1>6 DEF WhenReady, AcknowledgeDrawnCard
  <2>2. Sound(p, card)  BY <1>2, <1>4, <1>5, <1>6, <2>1 DEF Sound, WhenReady, Undecided
  <2> QED  BY <1>1, <1>2, <1>4, <2>2, TableGoesOn
<1>7. CASE panel.phase = "settled" /\ WhenSettled(panel, card)
  <2>1. classic /\ card = "Stop"  BY <1>7 DEF WhenSettled, AcknowledgeDrawnCard
  <2>2. Sound(p, card)  BY <1>2, <1>4, <1>5, <1>7, <2>1 DEF Sound, WhenSettled
  <2> QED  BY <1>1, <1>2, <1>4, <2>2, TableGoesOn
<1> QED  BY <1>2, <1>6, <1>7 DEF Sound, AcknowledgeDrawnCard

LEMMA TableGone ==
  ASSUME TableInv, TurnGone, UNCHANGED <<server, cache>> PROVE TableInv'
BY DEF TableInv, TurnGone, server, TableIsSound, CacheIsSound, Resumable, HasDice, Fits, classic

-----------------------------------------------------------------------------
\* The driver: what it watches, and the step it takes.

LEMMA SameTuple ==
  ASSUME NEW a, NEW b, NEW c, NEW d, NEW e, NEW f, NEW g, NEW h, <<a, b, c, d>> = <<e, f, g, h>>
  PROVE  a = e /\ b = f /\ c = g /\ d = h
OBVIOUS

LEMMA TupleIsSome == ASSUME NEW a, NEW b, NEW c, NEW d PROVE <<a, b, c, d>> # <<>>
OBVIOUS

\* What is watched tells whether there is something to wait for.
LEMMA WatchedTells ==
  ASSUME Watched(panel)' = Watched(panel), Waiting(panel)'
  PROVE  Waiting(panel)
<1>1. panel' # Closed /\ (AtRest(panel)' \/ panel'.reveal # "none")  BY DEF Waiting
<1>2. Watched(panel)' = <<AtRest(panel)', panel'.reveal # "none", panel'.roll, panel'.sel>>
  BY <1>1 DEF Watched
<1>3. panel # Closed
  <2> SUFFICES ASSUME panel = Closed PROVE FALSE  OBVIOUS
  <2>1. Watched(panel) = <<>>  BY DEF Watched
  <2>2. Watched(panel)' # <<>>  BY <1>2, TupleIsSome
  <2> QED  BY <2>1, <2>2
<1>4. Watched(panel) = <<AtRest(panel), panel.reveal # "none", panel.roll, panel.sel>>
  BY <1>3 DEF Watched
<1>5. AtRest(panel)' = AtRest(panel) /\ (panel'.reveal # "none") = (panel.reveal # "none")
  <2>1. <<AtRest(panel)', panel'.reveal # "none", panel'.roll, panel'.sel>>
          = <<AtRest(panel), panel.reveal # "none", panel.roll, panel.sel>>
    BY <1>2, <1>4, Zenon
  <2> QED  BY <2>1, SameTuple, Zenon
<1> QED  BY <1>1, <1>3, <1>5 DEF Waiting

LEMMA RearmedIsArmed == ASSUME NoBotStranded, Rearms PROVE NoBotStranded'
<1>1. CASE Watched(panel)' # Watched(panel)  BY <1>1 DEF Rearms, NoBotStranded
<1>2. CASE Watched(panel)' = Watched(panel)
  <2>1. armed' = armed  BY <1>2 DEF Rearms
  <2> QED  BY <1>2, <2>1, WatchedTells DEF NoBotStranded
<1> QED  BY <1>1, <1>2

LEMMA SelectionIsWatched ==
  ASSUME panel # Closed, panel' # Closed, panel'.sel # panel.sel PROVE Watched(panel)' # Watched(panel)
<1>1. Watched(panel)' = <<AtRest(panel)', panel'.reveal # "none", panel'.roll, panel'.sel>>  BY DEF Watched
<1>2. Watched(panel) = <<AtRest(panel), panel.reveal # "none", panel.roll, panel.sel>>  BY DEF Watched
<1> QED  BY <1>1, <1>2, SameTuple

\* The plan is of the table at rest: what moves the table throws it away.
LEMMA PlanGoes ==
  ASSUME plan' = NoPlan PROVE PlanFits'
BY DEF PlanFits, NoPlan

LEMMA NoPlanYet ==
  ASSUME PlanFits, panel = Closed \/ ~AtRest(panel), plan' = plan PROVE PlanFits'
<1>1. plan = NoPlan  BY DEF PlanFits
<1> QED  BY <1>1, PlanGoes

LEMMA BotSteps ==
  ASSUME BotInv, BotStep PROVE BotInv'
<1>1. /\ TableInv /\ PlanFits /\ panel # Closed /\ AtRest(panel)
      /\ armed' = (Watched(panel)' # Watched(panel) /\ Waiting(panel)')
  BY DEF BotInv, BotStep
<1>2. /\ asking = "no" /\ Sound(panel, card) /\ DOMAIN panel = PanelFields /\ Laid(panel, card)
  BY <1>1, AtRestIsOpen
<1>3. PICK d \in (IF plan = NoPlan THEN Decisions ELSE {plan}) :
        SelectKeep(d) \/ ((panel.sel = d.keep \/ Locked) /\ ActOn(Chosen(d)))
  BY DEF BotStep
<1>4. Fits(d.keep, panel, card)
  <2>1. CASE plan = NoPlan  BY <1>1, <1>2, <1>3, <2>1, DecisionsFit
  <2>2. CASE plan # NoPlan  BY <1>1, <1>3, <2>2 DEF PlanFits
  <2> QED  BY <2>1, <2>2
<1>5. CASE SelectKeep(d)
  <2>1. /\ panel.sel # d.keep /\ ~Locked /\ Becomes([panel EXCEPT !.sel = d.keep])
        /\ plan' = d /\ UNCHANGED <<server, asking>>
    BY <1>5 DEF SelectKeep
  <2>2. d.keep \in Dice /\ Valid(d.keep, card, panel.progress, ruleset)  BY <1>4 DEF Fits
  <2>3. PICK k \in Dice : k = d.keep  BY <2>2
  <2>4. Becomes([panel EXCEPT !.sel = k])  BY <2>1, <2>3
  <2>5. TableInv' /\ panel'.sel = k /\ AtRest(panel)' /\ panel'.progress = panel.progress
    BY <1>1, <2>1, <2>4, SelectionIsSound
  <2>6. panel' # Closed  BY <2>5 DEF AtRest, Closed
  <2>7. Fits(plan.keep, panel, card)'
    BY <2>1, <2>2, <2>5 DEF Fits, server, card
  <2>8. Watched(panel)' # Watched(panel)  BY <1>1, <2>1, <2>3, <2>5, <2>6, SelectionIsWatched
  <2>9. NoBotStranded'  BY <1>1, <2>8 DEF NoBotStranded
  <2>10. PlanFits'  BY <2>5, <2>6, <2>7 DEF PlanFits
  <2> QED  BY <2>5, <2>9, <2>10 DEF BotInv
<1>6. CASE (panel.sel = d.keep \/ Locked) /\ ActOn(Chosen(d))
  <2>1. Valid(panel.sel, card, panel.progress, ruleset)
    BY <1>2, <1>4, <1>6 DEF Fits, Laid, Locked
  <2>2. Offered(panel) # {}  BY <1>1, <2>1, OfferedIs DEF CanAct
  <2>3. Chosen(d) # {}  BY <2>2, ChosenIs
  <2>4. plan' = NoPlan /\ \E a \in Chosen(d) : Take(a)
    BY <1>6, <2>3 DEF ActOn
  <2>5. RollOn \/ RollSecondTutto \/ StopAndScore \/ DrawCard  BY <2>4 DEF Take
  <2>6. TableInv' /\ Moved  BY <1>1, <2>5, RollIsSound, StopIsSound, DrawIsSound
  <2>7. NoBotStranded'  BY <2>6 DEF NoBotStranded, Waiting, Moved
  <2> QED  BY <2>4, <2>6, <2>7, PlanGoes DEF BotInv
<1> QED  BY <1>3, <1>5, <1>6

LEMMA TableSteps ==
  ASSUME BotInv, DismissReveal \/ PanelMoves \/ CardComes PROVE BotInv'
<1>1. TableInv /\ PlanFits /\ NoBotStranded  BY DEF BotInv
<1>2. Rearms /\ plan' = plan  BY DEF DismissReveal, PanelMoves, CardComes
<1>3. NoBotStranded'  BY <1>1, <1>2, RearmedIsArmed
<1>4. TableInv' /\ PlanFits'
  <2>1. CASE DismissReveal
    <3>1. AcknowledgeDrawnCard /\ ~AtRest(panel)  BY <2>1 DEF DismissReveal, AcknowledgeDrawnCard, AtRest
    <3> QED  BY <1>1, <1>2, <3>1, CardIsDismissed, NoPlanYet
  <2>2. CASE Open
    <3>1. panel = Closed  BY <2>2 DEF Open
    <3> QED  BY <1>1, <1>2, <2>2, <3>1, PanelOpens, NoPlanYet
  <2>3. CASE OpeningRoll
    <3>1. ~AtRest(panel)  BY <2>3 DEF OpeningRoll, AtRest
    <3> QED  BY <1>1, <1>2, <2>3, <3>1, PanelTumbles, NoPlanYet
  <2>4. CASE Finalize
    <3>1. ~AtRest(panel)  BY <2>4 DEF Finalize, AtRest
    <3> QED  BY <1>1, <1>2, <2>4, <3>1, PanelLands, NoPlanYet
  <2>5. CASE asking = "no" /\ SendSnapshot
    <3>1. TableInv' /\ panel' = panel /\ asking' = asking /\ UNCHANGED server
      BY <1>1, <2>5, TableIsSent DEF SendSnapshot
    <3> QED  BY <1>1, <1>2, <3>1 DEF PlanFits, AtRest, Fits, server, card
  <2>6. CASE CardComes
    <3>1. asking # "no" /\ (Deal \/ DrawRefused \/ Drawn)  BY <2>6 DEF CardComes
    <3>2. ~AtRest(panel)  BY <3>1 DEF AtRest
    <3> QED  BY <1>1, <1>2, <3>1, <3>2, CardIsSound, NoPlanYet
  <2> QED  BY <2>1, <2>2, <2>3, <2>4, <2>5, <2>6 DEF PanelMoves
<1> QED  BY <1>3, <1>4 DEF BotInv

\* The invariant of a bot's turn.
THEOREM TablesAreSound == BotSpec => []BotInv
<1>1. BotInit => BotInv
  BY DEF BotInit, Init, BotInv, TableInv, TableIsSound, CacheIsSound, PlanFits, NoBotStranded, Waiting
<1>2. BotInv /\ [BotNext]_botVars => BotInv'
  <2> SUFFICES ASSUME BotInv, [BotNext]_botVars PROVE BotInv'  OBVIOUS
  <2>1. CASE BotStep  BY <2>1, BotSteps
  <2>2. CASE DismissReveal \/ PanelMoves \/ CardComes  BY <2>2, TableSteps
  <2>3. CASE LocalReload
    <3>1. TurnGone /\ plan' = NoPlan /\ UNCHANGED <<server, cache>>  BY <2>3 DEF LocalReload
    <3>2. TableInv'  BY <3>1, TableGone DEF BotInv
    <3>3. NoBotStranded'  BY <3>1 DEF TurnGone, NoBotStranded, Waiting
    <3> QED  BY <3>1, <3>2, <3>3, PlanGoes DEF BotInv
  <2>4. CASE UNCHANGED botVars
    <3>1. UNCHANGED <<ruleset, slot, dealt, panel, dirty, asking, cache, plan, armed>>
      BY <2>4 DEF botVars, vars
    <3>2. card' = card /\ classic' = classic  BY <3>1 DEF card, classic
    <3>3. TableInv'
      BY <3>1, <3>2 DEF BotInv, TableInv, TableIsSound, CacheIsSound, Resumable, Sound, Drawing, WhenReady,
                        WhenTumbling, WhenSettled, Undecided, HasDice, Laid, Fits
    <3>4. PlanFits' /\ NoBotStranded'
      BY <3>1, <3>2 DEF BotInv, PlanFits, NoBotStranded, Waiting, AtRest, Fits
    <3> QED  BY <3>3, <3>4 DEF BotInv
  <2> QED  BY <2>1, <2>2, <2>3, <2>4 DEF BotNext
<1> QED  BY <1>1, <1>2, PTL DEF BotSpec

\* No bot is stranded: whatever a bot selects can be kept and whatever it then
\* decides on is offered, so its driver always has a timer running while the
\* table waits for it (useBotDriver, botStep, chooseBotAction).
THEOREM BotsAreNotStranded == BotSpec => []NoBotStranded
<1>1. BotInv => NoBotStranded  BY DEF BotInv
<1> QED  BY <1>1, TablesAreSound, PTL

-----------------------------------------------------------------------------
\* The server's recount of a chain, one card after the other.

\* What holds of 0, and of a number up to n when it holds of the one before,
\* holds of every number up to n.
LEMMA UpTo ==
  ASSUME NEW T, NEW n \in Nat, 0 \in T, \A i \in 1..n : i - 1 \in T => i \in T
  PROVE  \A i \in 0..n : i \in T
<1> SUFFICES ASSUME NEW i0 \in 0..n, i0 \notin T PROVE FALSE  OBVIOUS
<1> DEFINE left == {i \in 0..n : i \notin T}
<1>1. left \subseteq Nat /\ left # {}  OBVIOUS
<1>2. PICK m \in left : \A k \in left : m <= k
  <2> HIDE DEF left
  <2> QED  BY <1>1, HasLeast
<1>3. m \in 1..n /\ m \notin T
  <2>1. m \in 0..n /\ m \notin T  BY <1>2
  <2> QED  BY <2>1
<1>4. m - 1 \in left  BY <1>3
<1>5. m <= m - 1
  <2> HIDE DEF left
  <2> QED  BY <1>2, <1>4
<1> QED  BY <1>3, <1>5

Nothing == [tuttos |-> 0, pm |-> <<>>]
Tallied(x, o) ==
  [tuttos |-> x.tuttos + o.tuttos, pm |-> IF o.card = "Plus_Minus" THEN Append(x.pm, o.before) ELSE x.pm]
Recount(outs, f) == [i \in 0..Len(outs) |-> IF i = 0 THEN Nothing ELSE Tallied(f[i - 1], outs[i])]

LEMMA CountedIs == ASSUME NEW outs PROVE Counted(outs) = CHOOSE f : f = Recount(outs, f)
BY DEF Counted, Recount, Tallied, Nothing

LEMMA RecountAt ==
  ASSUME NEW outs, Len(outs) \in Nat, NEW f
  PROVE  /\ Recount(outs, f)[0] = Nothing
         /\ \A i \in 1..Len(outs) : Recount(outs, f)[i] = Tallied(f[i - 1], outs[i])
BY DEF Recount

LEMMA RecountIsFunction ==
  ASSUME NEW outs, NEW f, NEW g, \A i \in 0..Len(outs) : Recount(outs, f)[i] = Recount(outs, g)[i]
  PROVE  Recount(outs, f) = Recount(outs, g)
BY DEF Recount

\* Functions that keep to the recount of the first k cards.
Tells(outs, f, k) == \A i \in 0..k : f[i] = Recount(outs, f)[i]

LEMMA TellsMore ==
  ASSUME NEW outs, Len(outs) \in Nat, NEW k \in 1..Len(outs), NEW f, Tells(outs, f, k - 1)
  PROVE  \E g : Tells(outs, g, k)
<1>1. PICK g : g = Recount(outs, f)  OBVIOUS
<1>2. ASSUME NEW i \in 0..k PROVE g[i] = Recount(outs, g)[i]
  <2>1. CASE i = 0
    <3>1. Recount(outs, f)[0] = Nothing  BY RecountAt
    <3>2. Recount(outs, g)[0] = Nothing  BY RecountAt
    <3> QED  BY <1>1, <2>1, <3>1, <3>2
  <2>2. CASE i # 0
    <3>1. i \in 1..Len(outs) /\ i - 1 \in 0..(k - 1)  BY <2>2
    <3>2. f[i - 1] = g[i - 1]  BY <1>1, <3>1 DEF Tells
    <3>3. Recount(outs, f)[i] = Tallied(f[i - 1], outs[i])  BY <3>1, RecountAt
    <3>4. Recount(outs, g)[i] = Tallied(g[i - 1], outs[i])  BY <3>1, RecountAt
    <3> QED  BY <1>1, <3>2, <3>3, <3>4
  <2> QED  BY <2>1, <2>2
<1>3. Tells(outs, g, k)  BY <1>2 DEF Tells
<1> QED  BY <1>3

LEMMA TellsAll == ASSUME NEW outs, Len(outs) \in Nat PROVE \E f : Tells(outs, f, Len(outs))
<1> DEFINE T == {k \in Nat : \E f : Tells(outs, f, k)}
<1>1. 0 \in T
  <2>1. PICK f : f = Recount(outs, <<>>)  OBVIOUS
  <2>2. f[0] = Nothing  BY <2>1, RecountAt
  <2>3. Recount(outs, f)[0] = Nothing  BY RecountAt
  <2>4. Tells(outs, f, 0)  BY <2>2, <2>3 DEF Tells
  <2> QED  BY <2>4
<1>2. ASSUME NEW k \in 1..Len(outs), k - 1 \in T PROVE k \in T
  <2>1. PICK f : Tells(outs, f, k - 1)  BY <1>2
  <2>2. \E g : Tells(outs, g, k)  BY <2>1, TellsMore
  <2> QED  BY <2>2
<1>3. Len(outs) \in T
  <2> HIDE DEF T
  <2>1. \A i \in 0..Len(outs) : i \in T  BY <1>1, <1>2, UpTo
  <2>2. Len(outs) \in 0..Len(outs)  OBVIOUS
  <2> QED  BY <2>1, <2>2
<1> QED  BY <1>3

LEMMA CountedKeeps == ASSUME NEW outs, Len(outs) \in Nat PROVE Counted(outs) = Recount(outs, Counted(outs))
<1>1. PICK f : Tells(outs, f, Len(outs))  BY TellsAll
<1>2. PICK g : g = Recount(outs, f)  OBVIOUS
<1>3. ASSUME NEW i \in 0..Len(outs) PROVE Recount(outs, f)[i] = Recount(outs, g)[i]
  <2>1. CASE i = 0
    <3>1. Recount(outs, f)[0] = Nothing  BY RecountAt
    <3>2. Recount(outs, g)[0] = Nothing  BY RecountAt
    <3> QED  BY <2>1, <3>1, <3>2
  <2>2. CASE i # 0
    <3>1. i \in 1..Len(outs) /\ i - 1 \in 0..Len(outs)  BY <2>2
    <3>2. f[i - 1] = g[i - 1]  BY <1>1, <1>2, <3>1 DEF Tells
    <3>3. Recount(outs, f)[i] = Tallied(f[i - 1], outs[i])  BY <3>1, RecountAt
    <3>4. Recount(outs, g)[i] = Tallied(g[i - 1], outs[i])  BY <3>1, RecountAt
    <3> QED  BY <3>2, <3>3, <3>4
  <2> QED  BY <2>1, <2>2
<1>4. Recount(outs, f) = Recount(outs, g)  BY <1>3, RecountIsFunction
<1>5. g = Recount(outs, g)  BY <1>2, <1>4
<1> QED  BY <1>5, CountedIs

LEMMA CountedAt ==
  ASSUME NEW outs, Len(outs) \in Nat
  PROVE  /\ Counted(outs)[0] = Nothing
         /\ \A i \in 1..Len(outs) : Counted(outs)[i] = Tallied(Counted(outs)[i - 1], outs[i])
<1>1. PICK f : f = Counted(outs)  OBVIOUS
<1>2. f = Recount(outs, f)  BY <1>1, CountedKeeps
<1>3. Recount(outs, f)[0] = Nothing /\ \A i \in 1..Len(outs) : Recount(outs, f)[i] = Tallied(f[i - 1], outs[i])
  BY RecountAt
<1> QED  BY <1>1, <1>2, <1>3

Outcomes == [card : Cards, before : Nat, after : Nat, tuttos : Nat]

\* A recount looks at the card, the tuttos and what was held before.
Alike(o, q) == o.card = q.card /\ o.before = q.before /\ o.tuttos = q.tuttos

LEMMA CountedAlike ==
  ASSUME NEW outs \in Seq(Outcomes), NEW others \in Seq(Outcomes), NEW k \in Nat, k <= Len(outs), k <= Len(others),
         \A i \in 1..k : Alike(outs[i], others[i])
  PROVE  Counted(outs)[k] = Counted(others)[k]
<1>1. PICK f, g : f = Counted(outs) /\ g = Counted(others)  OBVIOUS
<1>2. Len(outs) \in Nat /\ Len(others) \in Nat  OBVIOUS
<1>3. f[0] = Nothing /\ g[0] = Nothing  BY <1>1, <1>2, CountedAt
<1>4. ASSUME NEW i \in 1..k, f[i - 1] = g[i - 1] PROVE f[i] = g[i]
  <2>1. i \in 1..Len(outs) /\ i \in 1..Len(others)  BY <1>2
  <2>2. f[i] = Tallied(f[i - 1], outs[i])  BY <1>1, <1>2, <2>1, CountedAt
  <2>3. g[i] = Tallied(g[i - 1], others[i])  BY <1>1, <1>2, <2>1, CountedAt
  <2>4. Alike(outs[i], others[i])  OBVIOUS
  <2>5. Tallied(g[i - 1], outs[i]) = Tallied(g[i - 1], others[i])  BY <2>4 DEF Tallied, Alike
  <2> QED  BY <1>4, <2>2, <2>3, <2>5
<1> DEFINE T == {i \in Nat : f[i] = g[i]}
<1>5. 0 \in T  BY <1>3
<1>6. \A i \in 1..k : i - 1 \in T => i \in T  BY <1>4
<1>7. k \in T
  <2> HIDE DEF T
  <2>1. \A i \in 0..k : i \in T  BY <1>5, <1>6, UpTo
  <2> QED  BY <2>1
<1> QED  BY <1>1, <1>7

LEMMA TuttosAreNat ==
  ASSUME NEW outs \in Seq(Outcomes), NEW k \in 0..Len(outs) PROVE Counted(outs)[k].tuttos \in Nat
<1>1. PICK f : f = Counted(outs)  OBVIOUS
<1>2. Len(outs) \in Nat  OBVIOUS
<1> DEFINE T == {i \in Nat : f[i].tuttos \in Nat}
<1>3. 0 \in T  BY <1>1, <1>2, CountedAt DEF Nothing
<1>4. ASSUME NEW i \in 1..Len(outs), i - 1 \in T PROVE i \in T
  <2>1. f[i] = Tallied(f[i - 1], outs[i])  BY <1>1, <1>2, CountedAt
  <2>2. f[i].tuttos = f[i - 1].tuttos + outs[i].tuttos  BY <2>1 DEF Tallied
  <2>3. outs[i].tuttos \in Nat
    <3>1. outs[i] \in Outcomes  OBVIOUS
    <3> QED  BY <3>1 DEF Outcomes
  <2>4. f[i - 1].tuttos \in Nat  BY <1>4
  <2>5. f[i].tuttos \in Nat  BY <2>2, <2>3, <2>4
  <2> QED  BY <2>5
<1>5. k \in T
  <2> HIDE DEF T
  <2> QED  BY <1>2, <1>3, <1>4, UpTo
<1> QED  BY <1>1, <1>5

-----------------------------------------------------------------------------
\* The tale of a chain: what each card did to the running total, and what the
\* panel has added up on the way.

Closing == {"Stop", "Kleeblatt", "Feuerwerk"}
LegalOpen(o) == StepIsLegal(o, o.before, FALSE)
LegalDone(o) == StepIsLegal(o, o.before, TRUE)

\* The cards follow from one another, and all but the last are completed.
Linked(cards, outs) ==
  /\ cards \in Seq(Cards) /\ outs \in Seq(Outcomes) /\ Len(cards) # 0 /\ Len(outs) = Len(cards)
  /\ \A i \in 1..Len(cards) : outs[i].card = cards[i] /\ outs[i].before = IF i = 1 THEN 0 ELSE outs[i - 1].after
  /\ \A i \in 1..(Len(cards) - 1) : LegalDone(outs[i]) /\ cards[i] \notin Closing

OpenTale(cards, outs, tuttos, pm, score) ==
  /\ Linked(cards, outs) /\ outs[Len(cards)].after = score /\ LegalOpen(outs[Len(cards)])
  /\ tuttos = Counted(outs)[Len(cards)].tuttos /\ pm = Counted(outs)[Len(cards) - 1].pm
DoneTale(cards, outs, tuttos, pm, score) ==
  /\ Linked(cards, outs) /\ outs[Len(cards)].after = score /\ LegalDone(outs[Len(cards)])
  /\ tuttos = Counted(outs)[Len(cards)].tuttos /\ pm = Counted(outs)[Len(cards)].pm

LEMMA LegalOpenIs ==
  ASSUME NEW o \in Outcomes
  PROVE  LegalOpen(o) <=> /\ o.after >= o.before
                          /\ o.card = "Stop" => o.tuttos = 0 /\ o.after = o.before
                          /\ o.card = "Kleeblatt" => o.tuttos <= 1
                          /\ o.card \notin Closing => o.tuttos = 0
                          /\ FixedAward(o.card) > 0 => o.after = o.before
BY DEF LegalOpen, StepIsLegal, Closing, Outcomes, FixedAward

LEMMA LegalDoneIs ==
  ASSUME NEW o \in Outcomes
  PROVE  LegalDone(o) <=> /\ o.after >= o.before
                          /\ o.card # "Stop"
                          /\ o.card = "Kleeblatt" => o.tuttos = 2
                          /\ o.card \notin Closing => o.tuttos = 1
                          /\ FixedAward(o.card) > 0 => o.after = o.before + FixedAward(o.card)
                          /\ o.card = "x2" => o.after >= 2 * o.before
                          /\ o.card = "bonus" => o.after >= o.before + BonusValue
BY DEF LegalDone, StepIsLegal, Closing, Outcomes, FixedAward, BonusValue

\* The last card is told anew.
Retold(outs, q, after, more) ==
  LET n == Len(outs)
  IN /\ q \in Seq(Outcomes) /\ Len(q) = n
     /\ \A i \in 1..(n - 1) : q[i] = outs[i]
     /\ q[n].card = outs[n].card /\ q[n].before = outs[n].before /\ q[n].after = after
     /\ q[n].tuttos = outs[n].tuttos + more

LEMMA RetoldIsLinked ==
  ASSUME NEW cards, NEW outs, Linked(cards, outs), NEW q, NEW after, NEW more, Retold(outs, q, after, more)
  PROVE  Linked(cards, q)
<1>1. /\ cards \in Seq(Cards) /\ outs \in Seq(Outcomes) /\ q \in Seq(Outcomes)
      /\ Len(cards) \in Nat /\ Len(cards) # 0 /\ Len(outs) = Len(cards) /\ Len(q) = Len(cards)
  BY DEF Linked, Retold
<1>2. \A i \in 1..(Len(cards) - 1) : q[i] = outs[i]  BY <1>1 DEF Retold
<1>3. q[Len(cards)].card = outs[Len(cards)].card /\ q[Len(cards)].before = outs[Len(cards)].before
  BY <1>1 DEF Retold
<1>4. ASSUME NEW i \in 1..Len(cards)
      PROVE  q[i].card = cards[i] /\ q[i].before = IF i = 1 THEN 0 ELSE q[i - 1].after
  <2>1. q[i].card = outs[i].card /\ q[i].before = outs[i].before
    BY <1>1, <1>2, <1>3
  <2>2. outs[i].card = cards[i] /\ outs[i].before = IF i = 1 THEN 0 ELSE outs[i - 1].after  BY DEF Linked
  <2>3. i # 1 => q[i - 1] = outs[i - 1]  BY <1>1, <1>2
  <2> QED  BY <2>1, <2>2, <2>3
<1>5. \A i \in 1..(Len(cards) - 1) : LegalDone(q[i]) /\ cards[i] \notin Closing
  BY <1>2 DEF Linked
<1> QED  BY <1>1, <1>4, <1>5 DEF Linked

\* What a linked chain comes to before its last card, and with it.
LEMMA LastCounted ==
  ASSUME NEW cards, NEW outs, Linked(cards, outs)
  PROVE  LET n == Len(cards)
         IN /\ n \in Nat /\ n # 0 /\ outs[n] \in Outcomes /\ outs[n].card = cards[n]
            /\ Counted(outs)[n - 1].tuttos \in Nat
            /\ Counted(outs)[n].tuttos = Counted(outs)[n - 1].tuttos + outs[n].tuttos
            /\ Counted(outs)[n].pm = IF cards[n] = "Plus_Minus" THEN Append(Counted(outs)[n - 1].pm, outs[n].before)
                                     ELSE Counted(outs)[n - 1].pm
<1>1. PICK n : n = Len(cards)  OBVIOUS
<1>2. n \in Nat /\ n # 0 /\ outs \in Seq(Outcomes) /\ Len(outs) = n /\ n \in 1..n /\ n - 1 \in 0..n
  BY <1>1 DEF Linked
<1>3. outs[n] \in Outcomes  BY <1>2
<1>4. outs[n].card = cards[n]  BY <1>1, <1>2 DEF Linked
<1>5. Counted(outs)[n] = Tallied(Counted(outs)[n - 1], outs[n])  BY <1>2, CountedAt
<1>6. Counted(outs)[n - 1].tuttos \in Nat  BY <1>2, TuttosAreNat
<1> QED  BY <1>1, <1>2, <1>3, <1>4, <1>5, <1>6 DEF Tallied

LEMMA RetoldIsCounted ==
  ASSUME NEW cards, NEW outs, Linked(cards, outs), NEW q, NEW after, NEW more, Retold(outs, q, after, more)
  PROVE  Counted(q)[Len(cards) - 1] = Counted(outs)[Len(cards) - 1]
<1>1. PICK k : k = Len(cards) - 1  OBVIOUS
<1>2. /\ outs \in Seq(Outcomes) /\ q \in Seq(Outcomes) /\ k \in Nat /\ k <= Len(outs) /\ k <= Len(q)
      /\ k = Len(outs) - 1
  BY <1>1 DEF Linked, Retold
<1>3. \A i \in 1..k : Alike(outs[i], q[i])  BY <1>2 DEF Retold, Alike
<1>4. Counted(outs)[k] = Counted(q)[k]  BY <1>2, <1>3, CountedAlike
<1> QED  BY <1>1, <1>4

LEMMA OpenGoesOn ==
  ASSUME NEW cards, NEW outs, NEW tuttos, NEW pm, NEW score, OpenTale(cards, outs, tuttos, pm, score),
         NEW q, NEW after, NEW more \in Nat, Retold(outs, q, after, more), LegalOpen(q[Len(cards)])
  PROVE  OpenTale(cards, q, tuttos + more, pm, after)
<1>1. PICK n : n = Len(cards)  OBVIOUS
<1>2. Linked(cards, outs) /\ Linked(cards, q)  BY RetoldIsLinked DEF OpenTale
<1>3. Counted(q)[n - 1] = Counted(outs)[n - 1]  BY <1>1, <1>2, RetoldIsCounted
<1>4. Counted(outs)[n].tuttos = Counted(outs)[n - 1].tuttos + outs[n].tuttos
      /\ Counted(q)[n].tuttos = Counted(q)[n - 1].tuttos + q[n].tuttos
      /\ Counted(outs)[n - 1].tuttos \in Nat /\ outs[n] \in Outcomes
  BY <1>1, <1>2, LastCounted
<1>5. Len(outs) = n /\ q[n].tuttos = outs[n].tuttos + more /\ q[n].after = after
  BY <1>1, <1>2 DEF Linked, Retold
<1>6. outs[n].tuttos \in Nat  BY <1>4 DEF Outcomes
<1>7. tuttos = Counted(outs)[n].tuttos /\ pm = Counted(outs)[n - 1].pm  BY <1>1 DEF OpenTale
<1>8. tuttos + more = Counted(q)[n].tuttos  BY <1>3, <1>4, <1>5, <1>6, <1>7
<1> QED  BY <1>1, <1>2, <1>3, <1>5, <1>7, <1>8 DEF OpenTale

LEMMA OpenIsDone ==
  ASSUME NEW cards, NEW outs, NEW tuttos, NEW pm, NEW score, OpenTale(cards, outs, tuttos, pm, score),
         NEW q, NEW after, Retold(outs, q, after, 1), LegalDone(q[Len(cards)])
  PROVE  DoneTale(cards, q, tuttos + 1,
                  IF cards[Len(cards)] = "Plus_Minus" THEN Append(pm, outs[Len(cards)].before) ELSE pm, after)
<1>1. PICK n : n = Len(cards)  OBVIOUS
<1>2. Linked(cards, outs) /\ Linked(cards, q)  BY RetoldIsLinked DEF OpenTale
<1>3. Counted(q)[n - 1] = Counted(outs)[n - 1]  BY <1>1, <1>2, RetoldIsCounted
<1>4. Counted(outs)[n].tuttos = Counted(outs)[n - 1].tuttos + outs[n].tuttos
      /\ Counted(q)[n].tuttos = Counted(q)[n - 1].tuttos + q[n].tuttos
      /\ Counted(outs)[n - 1].tuttos \in Nat /\ outs[n] \in Outcomes
  BY <1>1, <1>2, LastCounted
<1>5. Counted(q)[n].pm = IF cards[n] = "Plus_Minus" THEN Append(Counted(q)[n - 1].pm, q[n].before)
                         ELSE Counted(q)[n - 1].pm
  BY <1>1, <1>2, LastCounted
<1>6. Len(outs) = n /\ q[n].tuttos = outs[n].tuttos + 1 /\ q[n].after = after /\ q[n].before = outs[n].before
  BY <1>1, <1>2 DEF Linked, Retold
<1>7. outs[n].tuttos \in Nat  BY <1>4 DEF Outcomes
<1>8. tuttos = Counted(outs)[n].tuttos /\ pm = Counted(outs)[n - 1].pm  BY <1>1 DEF OpenTale
<1>9. tuttos + 1 = Counted(q)[n].tuttos  BY <1>3, <1>4, <1>6, <1>7, <1>8
<1> QED  BY <1>1, <1>2, <1>3, <1>5, <1>6, <1>8, <1>9 DEF DoneTale

\* What is legal of fireworks is legal of fireworks that have ended.
LEMMA FireworksAreDone ==
  ASSUME NEW cards, NEW outs, NEW tuttos, NEW pm, NEW score, OpenTale(cards, outs, tuttos, pm, score),
         Last(cards) = "Feuerwerk"
  PROVE  DoneTale(cards, outs, tuttos, pm, score)
<1>1. PICK n : n = Len(cards)  OBVIOUS
<1>2. Linked(cards, outs) /\ cards[n] = "Feuerwerk"  BY <1>1 DEF OpenTale, Last
<1>3. outs[n] \in Outcomes /\ outs[n].card = "Feuerwerk" /\ Counted(outs)[n].pm = Counted(outs)[n - 1].pm
  BY <1>1, <1>2, LastCounted
<1>4. LegalOpen(outs[n])  BY <1>1 DEF OpenTale
<1>5. outs[n].after >= outs[n].before  BY <1>3, <1>4, LegalOpenIs
<1>6. FixedAward("Feuerwerk") = 0  BY DEF FixedAward
<1>7. LegalDone(outs[n])  BY <1>3, <1>5, <1>6, LegalDoneIs DEF Closing
<1> QED  BY <1>1, <1>2, <1>3, <1>7 DEF OpenTale, DoneTale

\* A card drawn on a completed one.
LEMMA DrawnIsOpen ==
  ASSUME NEW cards, NEW outs, NEW tuttos, NEW pm, NEW score, DoneTale(cards, outs, tuttos, pm, score),
         Last(cards) \notin Closing,
         NEW c \in Cards, NEW o, o = [card |-> c, before |-> score, after |-> score, tuttos |-> 0]
  PROVE  OpenTale(Append(cards, c), Append(outs, o), tuttos, pm, score) /\ Last(Append(cards, c)) = c
<1>1. PICK n : n = Len(cards)  OBVIOUS
<1>2. Linked(cards, outs) /\ cards[n] \notin Closing /\ outs[n].after = score /\ LegalDone(outs[n])
  BY <1>1 DEF DoneTale, Last
<1>3. /\ cards \in Seq(Cards) /\ outs \in Seq(Outcomes) /\ n \in Nat /\ n # 0 /\ Len(outs) = n
      /\ outs[n] \in Outcomes
  BY <1>1, <1>2, LastCounted DEF Linked
<1>4. score \in Nat  BY <1>2, <1>3 DEF Outcomes
<1>5. o \in Outcomes  BY <1>4 DEF Outcomes
<1>6. PICK ds, q : ds = Append(cards, c) /\ q = Append(outs, o)  OBVIOUS
<1>7. /\ ds \in Seq(Cards) /\ q \in Seq(Outcomes) /\ Len(ds) = n + 1 /\ Len(q) = n + 1
      /\ ds[n + 1] = c /\ q[n + 1] = o
      /\ \A i \in 1..n : ds[i] = cards[i] /\ q[i] = outs[i]
  BY <1>1, <1>3, <1>5, <1>6
<1>8. ASSUME NEW i \in 1..(n + 1)
      PROVE  q[i].card = ds[i] /\ q[i].before = IF i = 1 THEN 0 ELSE q[i - 1].after
  <2>1. CASE i = n + 1
    <3>1. q[i] = o /\ ds[i] = c /\ i # 1 /\ q[i - 1] = outs[n]  BY <1>3, <1>7, <2>1
    <3> QED  BY <1>2, <3>1
  <2>2. CASE i # n + 1
    <3>1. i \in 1..n  BY <1>3, <2>2
    <3>2. outs[i].card = cards[i] /\ outs[i].before = IF i = 1 THEN 0 ELSE outs[i - 1].after
      BY <1>1, <1>2, <3>1 DEF Linked
    <3>3. q[i] = outs[i] /\ ds[i] = cards[i]  BY <1>7, <3>1
    <3>4. i # 1 => q[i - 1] = outs[i - 1]  BY <1>3, <1>7, <3>1
    <3> QED  BY <3>2, <3>3, <3>4
  <2> QED  BY <2>1, <2>2
<1>9. \A i \in 1..n : LegalDone(q[i]) /\ ds[i] \notin Closing
  BY <1>1, <1>2, <1>3, <1>7 DEF Linked
<1>10. Linked(ds, q)  BY <1>3, <1>7, <1>8, <1>9 DEF Linked
<1>11. Counted(q)[n] = Counted(outs)[n]
  <2>1. \A i \in 1..n : Alike(outs[i], q[i])  BY <1>7 DEF Alike
  <2>2. n <= Len(outs) /\ n <= Len(q)  BY <1>3, <1>7
  <2> QED  BY <1>3, <1>7, <2>1, <2>2, CountedAlike
<1>12. Counted(q)[n + 1].tuttos = Counted(q)[n].tuttos + 0 /\ Counted(q)[n].tuttos \in Nat
  <2>1. Len(ds) - 1 = n  BY <1>3, <1>7
  <2>2. q[n + 1].tuttos = 0  BY <1>7
  <2> QED  BY <1>7, <1>10, <2>1, <2>2, LastCounted
<1>13. LegalOpen(o)
  <2>1. o.card = c /\ o.before = score /\ o.after = score /\ o.tuttos = 0  OBVIOUS
  <2> QED  BY <1>4, <1>5, <2>1, LegalOpenIs
<1>14. tuttos = Counted(outs)[n].tuttos /\ pm = Counted(outs)[n].pm  BY <1>1 DEF DoneTale
<1>15. Len(ds) - 1 = n  BY <1>3, <1>7
<1>16. OpenTale(ds, q, tuttos, pm, score)
  BY <1>7, <1>10, <1>11, <1>12, <1>13, <1>14, <1>15 DEF OpenTale
<1>17. Last(ds) = c  BY <1>7 DEF Last
<1> QED  BY <1>6, <1>16, <1>17

\* A chain of one card.
LEMMA NewIsOpen ==
  ASSUME NEW c \in Cards
  PROVE  OpenTale(<<c>>, <<Opening(c)>>, 0, <<>>, 0) /\ Last(<<c>>) = c
<1>1. PICK ds, q, o : ds = <<c>> /\ q = <<o>> /\ o = Opening(c)  OBVIOUS
<1>2. o \in Outcomes /\ o.card = c /\ o.before = 0 /\ o.after = 0 /\ o.tuttos = 0
  BY <1>1 DEF Opening, Outcomes
<1>3. /\ ds \in Seq(Cards) /\ q \in Seq(Outcomes) /\ Len(ds) = 1 /\ Len(q) = 1 /\ ds[1] = c /\ q[1] = o
  BY <1>1, <1>2
<1>4. Linked(ds, q)  BY <1>2, <1>3 DEF Linked
<1>5. Counted(q)[0] = Nothing  BY <1>3, CountedAt
<1>6. Counted(q)[1].tuttos = Counted(q)[0].tuttos + 0
  BY <1>2, <1>3, <1>4, LastCounted
<1>7. LegalOpen(o)  BY <1>2, LegalOpenIs
<1>8. OpenTale(ds, q, 0, <<>>, 0)  BY <1>2, <1>3, <1>4, <1>5, <1>6, <1>7 DEF OpenTale, Nothing
<1> QED  BY <1>1, <1>3, <1>8 DEF Last

-----------------------------------------------------------------------------
\* What a panel and a snapshot tell.

ChainFields == {"cards", "done", "pm", "tuttos", "ended", "forfeit", "outcomes"}
Shaped(p) == DOMAIN p = PanelFields /\ DOMAIN p.chain = ChainFields

Of(p) == Last(p.chain.cards)
LastOf(p) == p.chain.outcomes[Len(p.chain.cards)]
TellsOpen(p) == ~p.chain.done /\ OpenTale(p.chain.cards, p.chain.outcomes, p.chain.tuttos, p.chain.pm, p.score)
TellsDone(p) == p.chain.done /\ DoneTale(p.chain.cards, p.chain.outcomes, p.chain.tuttos, p.chain.pm, p.score)
FirstTutto(p) == Of(p) = "Kleeblatt" => p.tuttos \in {0, 1} /\ LastOf(p).tuttos = p.tuttos

\* A card drawn and not yet looked at that ends the turn; a table in play.
OnStop(p) ==
  /\ Of(p) = "Stop" /\ p.phase = "settled" /\ p.reveal # "none" /\ p.kept = 0 /\ p.roll = NoDice /\ p.sel = NoDice
  /\ p.chain.ended = "stopCard" /\ p.chain.forfeit = p.score
OnTable(p) ==
  /\ Of(p) # "Stop" /\ p.chain.ended = "banked" /\ FirstTutto(p)
  /\ \/ p.phase = "ready" /\ p.kept = 0
     \/ p.phase = "tumbling" /\ p.reveal = "none" /\ p.sel = NoDice
     \/ p.phase = "settled" /\ p.reveal = "none"
Playing(p) == Undecided(p) /\ TellsOpen(p) /\ p.kept # TotalDice /\ (OnStop(p) \/ OnTable(p))

\* All the dice are aside and the card is paid.
Completed(p) ==
  /\ ~p.busted /\ p.kept = TotalDice /\ p.sel = NoDice /\ TellsDone(p) /\ p.chain.ended = "banked"
  /\ Of(p) = "Kleeblatt" => p.tuttos = 1
AtDraw(p) == Undecided(p) /\ Completed(p) /\ p.phase = "settled" /\ p.reveal = "none" /\ Of(p) \notin Closing

\* The five ways a turn is decided, and what the table then says.
Said(p, score) == p.summary.won = TRUE /\ p.summary.score = score
Lost(p) == p.summary.won = FALSE /\ p.summary.score = 0 /\ p.chain.forfeit = p.score
WonAll(p) == Completed(p) /\ Said(p, p.score)
FiredOut(p) ==
  p.busted /\ Of(p) = "Feuerwerk" /\ p.score > 0 /\ TellsDone(p) /\ p.chain.ended = "banked" /\ Said(p, p.score)
Nulled(p) == p.busted /\ Of(p) # "Stop" /\ TellsOpen(p) /\ p.chain.ended = "null" /\ Lost(p)
StoppedCold(p) ==
  /\ ~p.busted /\ ~p.stopped /\ Of(p) = "Stop" /\ TellsOpen(p) /\ p.kept = 0 /\ p.roll = NoDice /\ p.sel = NoDice
  /\ p.chain.ended = "stopCard" /\ Lost(p)
BankedPart(p) ==
  /\ ~p.busted /\ p.stopped /\ Of(p) \notin Special \cup {"Stop"} /\ TellsOpen(p)
  /\ p.kept # TotalDice /\ p.sel = NoDice
  /\ p.chain.ended = "banked" /\ Said(p, p.score)
Decided(p) ==
  /\ p.summary.shown /\ p.phase = "settled" /\ p.reveal = "none"
  /\ WonAll(p) \/ FiredOut(p) \/ Nulled(p) \/ StoppedCold(p) \/ BankedPart(p)

HasBags(x) == x.kept \in Nat /\ x.roll \in Dice /\ x.sel \in Dice
InHand(p) == Shaped(p) /\ HasBags(p) /\ (Playing(p) \/ Decided(p))

-----------------------------------------------------------------------------
\* What the panel's arithmetic does to the tale.

LEMMA RecordedIs ==
  ASSUME NEW ch, DOMAIN ch = ChainFields, Linked(ch.cards, ch.outcomes), NEW score \in Nat, NEW more \in Nat
  PROVE  LET r == Recorded(ch, score, more)
         IN /\ DOMAIN r = ChainFields /\ r.cards = ch.cards /\ r.done = ch.done /\ r.pm = ch.pm /\ r.tuttos = ch.tuttos
            /\ r.ended = ch.ended /\ r.forfeit = ch.forfeit
            /\ Retold(ch.outcomes, r.outcomes, score, more)
<1>1. PICK n, outs : n = Len(ch.cards) /\ outs = ch.outcomes  OBVIOUS
<1>2. outs \in Seq(Outcomes) /\ Len(outs) = n /\ n \in Nat /\ n # 0 /\ outs[n] \in Outcomes
  BY <1>1, LastCounted DEF Linked
<1>3. PICK x, o : x = outs[n] /\ o = [x EXCEPT !.after = score, !.tuttos = @ + more]  OBVIOUS
<1>4. /\ o \in Outcomes /\ o.card = outs[n].card /\ o.before = outs[n].before /\ o.after = score
      /\ o.tuttos = outs[n].tuttos + more
  <2>1. x \in Outcomes  BY <1>2, <1>3
  <2>2. x.tuttos + more \in Nat  BY <2>1 DEF Outcomes
  <2>3. o = [card |-> x.card, before |-> x.before, after |-> score, tuttos |-> x.tuttos + more]
    BY <1>3, <2>1 DEF Outcomes
  <2> QED  BY <1>3, <2>1, <2>2, <2>3 DEF Outcomes
<1>5. PICK q : q = [outs EXCEPT ![n] = o]  OBVIOUS
<1>6. q \in Seq(Outcomes) /\ Len(q) = n /\ q[n] = o /\ \A i \in 1..(n - 1) : q[i] = outs[i]
  BY <1>2, <1>4, <1>5
<1>7. Retold(outs, q, score, more)  BY <1>2, <1>4, <1>6 DEF Retold
<1>8. Recorded(ch, score, more) = [ch EXCEPT !.outcomes = q]
  BY <1>1, <1>2, <1>3, <1>5 DEF Recorded, ChainFields, Outcomes
<1> QED  BY <1>1, <1>7, <1>8 DEF ChainFields

LEMMA TaleIs ==
  ASSUME NEW p, TellsOpen(p) \/ TellsDone(p)
  PROVE  /\ Linked(p.chain.cards, p.chain.outcomes) /\ p.score \in Nat
         /\ LastOf(p) \in Outcomes /\ LastOf(p).card = Of(p) /\ LastOf(p).after = p.score
         /\ Of(p) \in Cards /\ Of(p) = p.chain.cards[Len(p.chain.cards)]
<1>1. Linked(p.chain.cards, p.chain.outcomes) /\ LastOf(p).after = p.score
  BY DEF TellsOpen, TellsDone, OpenTale, DoneTale, LastOf
<1>2. LastOf(p) \in Outcomes /\ LastOf(p).card = p.chain.cards[Len(p.chain.cards)]
  BY <1>1, LastCounted DEF LastOf
<1>3. Of(p) = p.chain.cards[Len(p.chain.cards)]  BY DEF Of, Last
<1>4. Of(p) \in Cards  BY <1>2, <1>3 DEF Outcomes
<1>5. p.score \in Nat  BY <1>1, <1>2 DEF Outcomes
<1> QED  BY <1>1, <1>2, <1>3, <1>4, <1>5

\* What the selection adds; a card of a fixed award counts no points.
Earned(p) == IF card # "Plus_Minus" THEN Points(p.sel, card) ELSE 0

LEMMA EarnedIs ==
  ASSUME NEW p, p.sel \in Dice PROVE Earned(p) \in Nat /\ (FixedAward(card) > 0 => Earned(p) = 0)
<1>1. Points(p.sel, card) \in Nat  BY PointsAreNat
<1>2. card = "Kniffel" => Points(p.sel, card) = 0  BY DEF Points
<1>3. FixedAward(card) > 0 => card \in {"Kniffel", "Plus_Minus"}  BY DEF FixedAward
<1> QED  BY <1>1, <1>2, <1>3 DEF Earned

LEMMA KeptTells ==
  ASSUME NEW p, Shaped(p), p.sel \in Dice, TellsOpen(p), Of(p) = card
  PROVE  LET k == Kept(p)
             more == IF MakesTutto(p) THEN 1 ELSE 0
         IN /\ Shaped(k) /\ k.phase = p.phase /\ k.kept = p.kept + Count(p.sel) /\ k.sel = NoDice /\ k.roll = NoDice
            /\ k.busted = p.busted /\ k.stopped = p.stopped /\ k.summary = p.summary /\ k.reveal = p.reveal
            /\ k.tuttos = p.tuttos
            /\ k.score = IF MakesTutto(p) THEN TuttoBonus(card, p.score + Earned(p)) ELSE p.score + Earned(p)
            /\ k.score \in Nat
            /\ k.chain.cards = p.chain.cards /\ ~k.chain.done /\ k.chain.ended = p.chain.ended
            /\ k.chain.pm = p.chain.pm /\ k.chain.tuttos = p.chain.tuttos + more
            /\ Retold(p.chain.outcomes, k.chain.outcomes, k.score, more)
<1>1. PICK ch, e : ch = p.chain /\ e = Earned(p)  OBVIOUS
<1>2. DOMAIN ch = ChainFields /\ Linked(ch.cards, ch.outcomes) /\ p.score \in Nat /\ e \in Nat /\ ~ch.done
  BY <1>1, TaleIs, EarnedIs DEF Shaped, TellsOpen
<1>3. PICK total : total = IF MakesTutto(p) THEN TuttoBonus(card, p.score + e) ELSE p.score + e  OBVIOUS
<1>4. total \in Nat
  <2>1. p.score + e \in Nat  BY <1>2
  <2> QED  BY <1>3, <2>1 DEF TuttoBonus, BonusValue
<1>5. PICK r : r = IF MakesTutto(p) THEN [Recorded(ch, total, 1) EXCEPT !.tuttos = @ + 1] ELSE Recorded(ch, total, 0)
  OBVIOUS
<1>6. /\ DOMAIN r = ChainFields /\ r.cards = ch.cards /\ r.done = ch.done /\ r.ended = ch.ended /\ r.pm = ch.pm
      /\ r.tuttos = ch.tuttos + (IF MakesTutto(p) THEN 1 ELSE 0)
      /\ Retold(ch.outcomes, r.outcomes, total, IF MakesTutto(p) THEN 1 ELSE 0)
  <2>1. CASE MakesTutto(p)
    <3>1. PICK s : s = Recorded(ch, total, 1)  OBVIOUS
    <3>2. /\ DOMAIN s = ChainFields /\ s.cards = ch.cards /\ s.done = ch.done /\ s.ended = ch.ended /\ s.pm = ch.pm
          /\ s.tuttos = ch.tuttos /\ Retold(ch.outcomes, s.outcomes, total, 1)
      BY <1>2, <1>4, <3>1, RecordedIs
    <3>3. r = [s EXCEPT !.tuttos = @ + 1]  BY <1>5, <2>1, <3>1
    <3> QED  BY <2>1, <3>2, <3>3 DEF ChainFields
  <2>2. CASE ~MakesTutto(p)
    <3>1. PICK s : s = Recorded(ch, total, 0)  OBVIOUS
    <3>2. /\ DOMAIN s = ChainFields /\ s.cards = ch.cards /\ s.done = ch.done /\ s.ended = ch.ended /\ s.pm = ch.pm
          /\ s.tuttos = ch.tuttos /\ Retold(ch.outcomes, s.outcomes, total, 0)
      BY <1>2, <1>4, <3>1, RecordedIs
    <3>3. r = s  BY <1>5, <2>2, <3>1
    <3>4. ch.tuttos \in Nat
      <4>1. /\ Counted(ch.outcomes)[Len(ch.cards) - 1].tuttos \in Nat /\ ch.outcomes[Len(ch.cards)] \in Outcomes
            /\ Counted(ch.outcomes)[Len(ch.cards)].tuttos
                 = Counted(ch.outcomes)[Len(ch.cards) - 1].tuttos + ch.outcomes[Len(ch.cards)].tuttos
        BY <1>2, LastCounted
      <4>2. ch.tuttos = Counted(ch.outcomes)[Len(ch.cards)].tuttos  BY <1>1 DEF TellsOpen, OpenTale
      <4>3. ch.outcomes[Len(ch.cards)].tuttos \in Nat
        <5>1. PICK x : x = ch.outcomes[Len(ch.cards)]  OBVIOUS
        <5>2. x \in Outcomes  BY <4>1, <5>1
        <5> QED  BY <5>1, <5>2 DEF Outcomes
      <4> QED  BY <4>1, <4>2, <4>3
    <3> QED  BY <2>2, <3>2, <3>3, <3>4
  <2> QED  BY <2>1, <2>2
<1>7. PICK progress :
        Kept(p) = [p EXCEPT !.score = total, !.kept = @ + Count(p.sel), !.chain = r, !.sel = NoDice, !.roll = NoDice,
                            !.progress = progress]
  BY <1>1, <1>3, <1>5 DEF Kept, Earned
<1>8. PICK k : k = Kept(p)  OBVIOUS
<1>9. /\ DOMAIN k = PanelFields /\ k.phase = p.phase /\ k.kept = p.kept + Count(p.sel) /\ k.sel = NoDice
      /\ k.roll = NoDice /\ k.busted = p.busted /\ k.stopped = p.stopped /\ k.summary = p.summary
      /\ k.reveal = p.reveal /\ k.tuttos = p.tuttos /\ k.score = total /\ k.chain = r
  BY <1>7, <1>8 DEF Shaped, PanelFields
<1>10. Shaped(k)  BY <1>6, <1>9 DEF Shaped
<1> QED  BY <1>1, <1>2, <1>3, <1>4, <1>6, <1>8, <1>9, <1>10

LEMMA RetoldTwice ==
  ASSUME NEW outs, NEW q, NEW r, outs \in Seq(Outcomes), Len(outs) # 0, NEW a, NEW b, NEW more \in Nat,
         Retold(outs, q, a, more), Retold(q, r, b, 0)
  PROVE  Retold(outs, r, b, more)
<1>1. PICK n : n = Len(outs)  OBVIOUS
<1>2. n \in Nat /\ n # 0 /\ Len(q) = n /\ outs[n] \in Outcomes  BY <1>1 DEF Retold
<1>3. PICK x : x = outs[n]  OBVIOUS
<1>4. x \in Outcomes /\ x.tuttos \in Nat  BY <1>2, <1>3 DEF Outcomes
<1>5. q[n].tuttos = x.tuttos + more /\ r[n].tuttos = q[n].tuttos + 0  BY <1>1, <1>2, <1>3 DEF Retold
<1>6. r[n].tuttos = x.tuttos + more  BY <1>4, <1>5
<1> QED  BY <1>1, <1>2, <1>3, <1>6 DEF Retold

\* Putting dice aside leaves the card open: no tutto, or one that does not complete it.
LEMMA KeptIsOpen ==
  ASSUME NEW p, Shaped(p), p.sel \in Dice, TellsOpen(p), Of(p) = card, card # "Stop",
         MakesTutto(p) => card = "Feuerwerk" \/ (card = "Kleeblatt" /\ LastOf(p).tuttos = 0)
  PROVE  /\ TellsOpen(Kept(p)) /\ Of(Kept(p)) = card
         /\ LastOf(Kept(p)).tuttos = LastOf(p).tuttos + (IF MakesTutto(p) THEN 1 ELSE 0)
<1>1. PICK k, more, e, n : /\ k = Kept(p) /\ more = (IF MakesTutto(p) THEN 1 ELSE 0) /\ e = Earned(p)
                           /\ n = Len(p.chain.cards)
  OBVIOUS
<1>2. /\ Linked(p.chain.cards, p.chain.outcomes) /\ p.score \in Nat /\ LastOf(p) \in Outcomes
      /\ LastOf(p).card = card /\ LastOf(p).after = p.score
  BY TaleIs
<1>3. /\ k.score = IF MakesTutto(p) THEN TuttoBonus(card, p.score + e) ELSE p.score + e
      /\ k.chain.cards = p.chain.cards /\ ~k.chain.done /\ k.score \in Nat
      /\ k.chain.pm = p.chain.pm /\ k.chain.tuttos = p.chain.tuttos + more
      /\ Retold(p.chain.outcomes, k.chain.outcomes, k.score, more)
  BY <1>1, KeptTells
<1>4. e \in Nat /\ (FixedAward(card) > 0 => e = 0)  BY <1>1, EarnedIs
<1>5. PICK x, y : x = LastOf(p) /\ y = LastOf(k)  OBVIOUS
<1>6. n \in Nat /\ n # 0 /\ Len(p.chain.outcomes) = n  BY <1>1, <1>2, LastCounted DEF Linked
<1>7. /\ y \in Outcomes /\ y.card = x.card /\ y.before = x.before /\ y.after = k.score
      /\ y.tuttos = x.tuttos + more
  BY <1>1, <1>3, <1>5, <1>6 DEF Retold, LastOf
<1>8. LegalOpen(x)  BY <1>1, <1>5 DEF TellsOpen, OpenTale, LastOf
<1>9. /\ x \in Outcomes /\ x.before \in Nat /\ x.tuttos \in Nat /\ x.after = p.score /\ x.card = card
      /\ x.after >= x.before
      /\ card = "Kleeblatt" => x.tuttos <= 1
      /\ card \notin Closing => x.tuttos = 0
      /\ FixedAward(card) > 0 => x.after = x.before
  BY <1>2, <1>5, <1>8, LegalOpenIs DEF Outcomes
<1>10. k.score = p.score + e
  <2>1. MakesTutto(p) => TuttoBonus(card, p.score + e) = p.score + e  BY DEF TuttoBonus
  <2> QED  BY <1>3, <2>1
<1>11. FixedAward(card) > 0 => ~MakesTutto(p)  BY DEF FixedAward
<1>12. LegalOpen(y)
  <2>1. y.after >= y.before  BY <1>2, <1>4, <1>7, <1>9, <1>10
  <2>2. FixedAward(card) > 0 => y.after = y.before  BY <1>2, <1>4, <1>7, <1>9, <1>10
  <2>3. card = "Kleeblatt" => y.tuttos <= 1
    <3>1. CASE MakesTutto(p)  BY <1>1, <1>5, <1>7, <1>9, <3>1
    <3>2. CASE ~MakesTutto(p)  BY <1>1, <1>7, <1>9, <3>2
    <3> QED  BY <3>1, <3>2
  <2>4. card \notin Closing => y.tuttos = 0
    <3>1. card \notin Closing => ~MakesTutto(p)  BY DEF Closing
    <3> QED  BY <1>1, <1>7, <1>9, <3>1
  <2> QED  BY <1>7, <1>9, <2>1, <2>2, <2>3, <2>4, LegalOpenIs
<1>13. OpenTale(k.chain.cards, k.chain.outcomes, k.chain.tuttos, k.chain.pm, k.score)
  <2>1. OpenTale(p.chain.cards, p.chain.outcomes, p.chain.tuttos, p.chain.pm, p.score)  BY DEF TellsOpen
  <2>2. LegalOpen(k.chain.outcomes[Len(p.chain.cards)])  BY <1>3, <1>5, <1>12 DEF LastOf
  <2>3. more \in Nat  BY <1>1
  <2> QED  BY <1>3, <2>1, <2>2, <2>3, OpenGoesOn
<1>14. TellsOpen(k)  BY <1>3, <1>13 DEF TellsOpen
<1>15. Of(k) = card  BY <1>3 DEF Of
<1> QED  BY <1>1, <1>5, <1>7, <1>14, <1>15

LEMMA CommittedIsDone ==
  ASSUME NEW p, classic, Shaped(p), p.sel \in Dice, TellsOpen(p), Of(p) = card, MakesTutto(p),
         card \notin {"Stop", "Feuerwerk"}, card = "Kleeblatt" => LastOf(p).tuttos = 1
  PROVE  LET m == Committed(p)
         IN /\ Shaped(m) /\ TellsDone(m) /\ Of(m) = card /\ m.kept = TotalDice /\ m.sel = NoDice /\ m.roll = NoDice
            /\ m.phase = p.phase /\ m.busted = p.busted /\ m.stopped = p.stopped /\ m.summary = p.summary
            /\ m.reveal = p.reveal /\ m.tuttos = p.tuttos /\ m.chain.ended = p.chain.ended
            /\ m.chain.cards = p.chain.cards
<1>1. PICK k, e, n : k = Kept(p) /\ e = Earned(p) /\ n = Len(p.chain.cards)  OBVIOUS
<1>2. /\ Linked(p.chain.cards, p.chain.outcomes) /\ p.score \in Nat /\ LastOf(p) \in Outcomes
      /\ LastOf(p).card = card /\ LastOf(p).after = p.score /\ card = p.chain.cards[n]
  BY <1>1, TaleIs
<1>3. /\ Shaped(k) /\ k.phase = p.phase /\ k.kept = p.kept + Count(p.sel) /\ k.sel = NoDice /\ k.roll = NoDice
      /\ k.busted = p.busted /\ k.stopped = p.stopped /\ k.summary = p.summary /\ k.reveal = p.reveal
      /\ k.tuttos = p.tuttos /\ k.score = TuttoBonus(card, p.score + e) /\ k.score \in Nat
      /\ k.chain.cards = p.chain.cards /\ ~k.chain.done /\ k.chain.ended = p.chain.ended
      /\ k.chain.pm = p.chain.pm /\ k.chain.tuttos = p.chain.tuttos + 1
      /\ Retold(p.chain.outcomes, k.chain.outcomes, k.score, 1)
  BY <1>1, KeptTells
<1>4. e \in Nat /\ (FixedAward(card) > 0 => e = 0)  BY <1>1, EarnedIs
<1>5. PICK x : x = LastOf(p)  OBVIOUS
<1>6. /\ n \in Nat /\ n # 0 /\ Len(p.chain.outcomes) = n /\ Len(k.chain.outcomes) = n
      /\ p.chain.outcomes \in Seq(Outcomes) /\ k.chain.outcomes \in Seq(Outcomes)
  BY <1>1, <1>2, <1>3, LastCounted DEF Linked, Retold
<1>7. LegalOpen(x)  BY <1>1, <1>5 DEF TellsOpen, OpenTale, LastOf
<1>8. /\ x \in Outcomes /\ x.before \in Nat /\ x.tuttos \in Nat /\ x.after = p.score /\ x.card = card
      /\ x.after >= x.before
      /\ card \notin Closing => x.tuttos = 0
      /\ FixedAward(card) > 0 => x.after = x.before
  BY <1>2, <1>5, <1>7, LegalOpenIs DEF Outcomes
<1>9. k.kept = TotalDice  BY <1>3 DEF MakesTutto
<1>10. PICK a : a = Awarded(k)  OBVIOUS
<1>11. /\ Shaped(a) /\ a.phase = k.phase /\ a.kept = k.kept /\ a.sel = k.sel /\ a.roll = k.roll
       /\ a.busted = k.busted /\ a.stopped = k.stopped /\ a.summary = k.summary /\ a.reveal = k.reveal
       /\ a.tuttos = k.tuttos /\ a.chain.cards = k.chain.cards /\ a.chain.ended = k.chain.ended
       /\ DoneTale(a.chain.cards, a.chain.outcomes, a.chain.tuttos, a.chain.pm, a.score)
  <2>0. OpenTale(p.chain.cards, p.chain.outcomes, p.chain.tuttos, p.chain.pm, p.score)  BY DEF TellsOpen
  <2>1. CASE FixedAward(card) = 0
    <3>1. a = k  BY <1>10, <2>1 DEF Awarded
    <3>2. PICK y : y = k.chain.outcomes[n]  OBVIOUS
    <3>3. /\ y \in Outcomes /\ y.card = x.card /\ y.before = x.before /\ y.after = k.score
          /\ y.tuttos = x.tuttos + 1
      BY <1>1, <1>3, <1>5, <1>6, <3>2 DEF Retold, LastOf
    <3>4. /\ k.score >= p.score + e
          /\ card = "x2" => k.score = 2 * (p.score + e)
          /\ card = "bonus" => k.score = p.score + e + BonusValue
      BY <1>2, <1>3, <1>4 DEF TuttoBonus, BonusValue
    <3>5. y.after >= y.before  BY <1>2, <1>3, <1>4, <1>8, <3>3, <3>4
    <3>6. card = "x2" => y.after >= 2 * y.before  BY <1>2, <1>3, <1>4, <1>8, <3>3, <3>4
    <3>7. card = "bonus" => y.after >= y.before + BonusValue
      BY <1>2, <1>3, <1>4, <1>8, <3>3, <3>4 DEF BonusValue
    <3>8. card = "Kleeblatt" => y.tuttos = 2  BY <1>5, <1>8, <3>3
    <3>9. card \notin Closing => y.tuttos = 1  BY <1>8, <3>3
    <3>10. LegalDone(y)  BY <1>8, <2>1, <3>3, <3>5, <3>6, <3>7, <3>8, <3>9, LegalDoneIs
    <3>11. card # "Plus_Minus"  BY <2>1 DEF FixedAward
    <3>12. LegalDone(k.chain.outcomes[Len(p.chain.cards)])  BY <1>1, <3>2, <3>10
    <3>13. DoneTale(p.chain.cards, k.chain.outcomes, p.chain.tuttos + 1, p.chain.pm, k.score)
      BY <1>1, <1>2, <1>3, <2>0, <3>11, <3>12, OpenIsDone
    <3> QED  BY <1>3, <3>1, <3>13
  <2>2. CASE FixedAward(card) # 0
    <3>1. FixedAward(card) \in Nat /\ FixedAward(card) > 0 /\ card \in {"Kniffel", "Plus_Minus"}
      BY <2>2 DEF FixedAward
    <3>2. k.score = p.score /\ x.before = k.score
      <4>1. TuttoBonus(card, p.score + e) = p.score + e  BY <3>1 DEF TuttoBonus
      <4> QED  BY <1>2, <1>3, <1>4, <1>8, <3>1, <4>1
    <3>3. PICK total, pm : /\ total = k.score + FixedAward(card)
                           /\ pm = IF card = "Plus_Minus" THEN Append(k.chain.pm, k.score) ELSE k.chain.pm
      OBVIOUS
    <3>4. total \in Nat  BY <1>3, <3>1, <3>3
    <3>5. PICK r : r = Recorded(k.chain, total, 0)  OBVIOUS
    <3>6. Linked(k.chain.cards, k.chain.outcomes)  BY <1>2, <1>3, RetoldIsLinked
    <3>7. /\ DOMAIN r = ChainFields /\ r.cards = k.chain.cards /\ r.done = k.chain.done /\ r.pm = k.chain.pm
          /\ r.tuttos = k.chain.tuttos /\ r.ended = k.chain.ended
          /\ Retold(k.chain.outcomes, r.outcomes, total, 0)
      BY <1>3, <3>4, <3>5, <3>6, RecordedIs DEF Shaped
    <3>8. Retold(p.chain.outcomes, r.outcomes, total, 1)  BY <1>3, <1>6, <3>7, RetoldTwice
    <3>9. a = [k EXCEPT !.score = total, !.chain = [r EXCEPT !.pm = pm]]
      <4>1. a = Paid(k, k.score)  BY <1>10, <3>1 DEF Awarded
      <4>2. [Recorded(k.chain, total, 0) EXCEPT !.pm = IF card = "Plus_Minus" THEN Append(@, k.score) ELSE @]
              = [r EXCEPT !.pm = pm]
        BY <3>3, <3>5, <3>7
      <4> QED  BY <3>3, <4>1, <4>2 DEF Paid
    <3>10. PICK y : y = r.outcomes[n]  OBVIOUS
    <3>11. y \in Outcomes /\ y.card = card /\ y.before = x.before /\ y.after = total /\ y.tuttos = x.tuttos + 1
      BY <1>1, <1>5, <1>6, <1>8, <3>8, <3>10 DEF Retold, LastOf
    <3>12. LegalDone(y)
      <4>1. y.after = y.before + FixedAward(card) /\ y.after >= y.before  BY <1>3, <3>1, <3>2, <3>3, <3>11
      <4>2. card \notin Closing /\ y.tuttos = 1  BY <1>8, <3>1, <3>11 DEF Closing
      <4> QED  BY <3>1, <3>11, <4>1, <4>2, LegalDoneIs DEF Closing
    <3>13. DoneTale(p.chain.cards, r.outcomes, p.chain.tuttos + 1,
                    IF p.chain.cards[Len(p.chain.cards)] = "Plus_Minus"
                    THEN Append(p.chain.pm, p.chain.outcomes[Len(p.chain.cards)].before) ELSE p.chain.pm, total)
      BY <1>1, <2>0, <3>8, <3>10, <3>12, OpenIsDone
    <3>14. pm = IF p.chain.cards[Len(p.chain.cards)] = "Plus_Minus"
                THEN Append(p.chain.pm, p.chain.outcomes[Len(p.chain.cards)].before) ELSE p.chain.pm
      BY <1>1, <1>2, <1>3, <1>5, <3>2, <3>3 DEF LastOf
    <3>15. DoneTale(p.chain.cards, r.outcomes, p.chain.tuttos + 1, pm, total)  BY <3>13, <3>14
    <3>16. /\ DOMAIN a = PanelFields /\ DOMAIN a.chain = ChainFields /\ a.score = total /\ a.chain.cards = r.cards
           /\ a.chain.outcomes = r.outcomes /\ a.chain.tuttos = r.tuttos /\ a.chain.pm = pm
           /\ a.chain.ended = r.ended
           /\ a.phase = k.phase /\ a.kept = k.kept /\ a.sel = k.sel /\ a.roll = k.roll
           /\ a.busted = k.busted /\ a.stopped = k.stopped /\ a.summary = k.summary /\ a.reveal = k.reveal
           /\ a.tuttos = k.tuttos
      BY <1>3, <3>7, <3>9 DEF Shaped, PanelFields, ChainFields
    <3> QED  BY <1>3, <3>7, <3>15, <3>16 DEF Shaped
  <2> QED  BY <2>1, <2>2
<1>12. PICK m : m = Committed(p)  OBVIOUS
<1>13. m = [a EXCEPT !.chain.done = TRUE]  BY <1>1, <1>10, <1>12 DEF Committed
<1>14. /\ DOMAIN m = PanelFields /\ DOMAIN m.chain = ChainFields /\ m.phase = a.phase /\ m.kept = a.kept
       /\ m.sel = a.sel /\ m.roll = a.roll /\ m.busted = a.busted /\ m.stopped = a.stopped
       /\ m.summary = a.summary /\ m.reveal = a.reveal /\ m.tuttos = a.tuttos /\ m.score = a.score
       /\ m.chain.done = TRUE /\ m.chain.cards = a.chain.cards /\ m.chain.outcomes = a.chain.outcomes
       /\ m.chain.tuttos = a.chain.tuttos /\ m.chain.pm = a.chain.pm /\ m.chain.ended = a.chain.ended
  BY <1>11, <1>13 DEF Shaped, PanelFields, ChainFields
<1>15. TellsDone(m)  BY <1>11, <1>14 DEF TellsDone
<1>16. Of(m) = card  BY <1>3, <1>11, <1>14 DEF Of
<1> QED  BY <1>3, <1>9, <1>11, <1>12, <1>14, <1>15, <1>16 DEF Shaped

-----------------------------------------------------------------------------
\* What a snapshot tells, and the panel that resumes from it.

SnapOpen(s) == OpenTale(s.cards, s.outcomes, s.ctuttos, s.pm, s.score)
SnapDone(s) == DoneTale(s.cards, s.outcomes, s.ctuttos, s.pm, s.score)
SnapBusted(s) == s.busted /\ SnapOpen(s) /\ Last(s.cards) # "Stop"
SnapCompleted(s) ==
  /\ ~s.busted /\ ~s.rolling /\ s.kept = TotalDice /\ s.sel = NoDice /\ SnapDone(s)
  /\ Last(s.cards) = "Kleeblatt" => s.tuttos = 1
SnapInPlay(s) ==
  /\ ~s.busted /\ s.kept # TotalDice /\ SnapOpen(s)
  /\ s.stopped => Last(s.cards) \notin Special \cup {"Stop"}
  /\ s.stopped \/ s.rolling => s.sel = NoDice
  /\ Last(s.cards) = "Stop" => s.kept = 0 /\ s.roll = NoDice /\ s.sel = NoDice
  /\ Last(s.cards) = "Kleeblatt" => s.tuttos \in {0, 1} /\ s.outcomes[Len(s.cards)].tuttos = s.tuttos
SnapTells(s) == HasBags(s) /\ (SnapBusted(s) \/ SnapCompleted(s) \/ SnapInPlay(s))

LEMMA DoneIsNotStop ==
  ASSUME NEW cards, NEW outs, NEW tuttos, NEW pm, NEW score, DoneTale(cards, outs, tuttos, pm, score)
  PROVE  Last(cards) # "Stop"
<1>1. PICK n : n = Len(cards)  OBVIOUS
<1>2. Linked(cards, outs) /\ LegalDone(outs[n])  BY <1>1 DEF DoneTale
<1>3. outs[n] \in Outcomes /\ outs[n].card = cards[n]  BY <1>1, <1>2, LastCounted
<1>4. outs[n].card # "Stop"  BY <1>2, <1>3, LegalDoneIs
<1> QED  BY <1>1, <1>3, <1>4 DEF Last

LEMMA FireworksAreOpen ==
  ASSUME NEW cards, NEW outs, NEW tuttos, NEW pm, NEW score, DoneTale(cards, outs, tuttos, pm, score),
         Last(cards) = "Feuerwerk"
  PROVE  OpenTale(cards, outs, tuttos, pm, score)
<1>1. PICK n : n = Len(cards)  OBVIOUS
<1>2. Linked(cards, outs) /\ cards[n] = "Feuerwerk"  BY <1>1 DEF DoneTale, Last
<1>3. outs[n] \in Outcomes /\ outs[n].card = "Feuerwerk" /\ Counted(outs)[n].pm = Counted(outs)[n - 1].pm
  BY <1>1, <1>2, LastCounted
<1>4. LegalDone(outs[n])  BY <1>1 DEF DoneTale
<1>5. outs[n].after >= outs[n].before  BY <1>3, <1>4, LegalDoneIs
<1>6. FixedAward("Feuerwerk") = 0  BY DEF FixedAward
<1>7. LegalOpen(outs[n])  BY <1>3, <1>5, <1>6, LegalOpenIs DEF Closing
<1> QED  BY <1>1, <1>2, <1>3, <1>7 DEF OpenTale, DoneTale

LEMMA NoneIsZero == NoDice \in Dice /\ TotalDice # 0 /\ TotalDice \in Nat
BY DiceAssumption DEF NoDice, Dice

LEMMA SnapshotIs ==
  ASSUME NEW p
  PROVE  LET s == Snapshot(p)
         IN /\ s.score = p.score /\ s.kept = p.kept /\ s.roll = p.roll /\ s.tuttos = p.tuttos
            /\ s.busted = p.busted /\ s.stopped = p.stopped /\ s.rolling = (p.phase = "tumbling")
            /\ s.cards = p.chain.cards /\ s.pm = p.chain.pm /\ s.ctuttos = p.chain.tuttos
            /\ s.outcomes = p.chain.outcomes /\ s.sel = IF p.busted THEN NoDice ELSE p.sel
BY DEF Snapshot

LEMMA SnapshotTells ==
  ASSUME NEW p, HasBags(p), Playing(p) \/ Decided(p) \/ AtDraw(p)
  PROVE  SnapTells(Snapshot(p)) /\ Last(Snapshot(p).cards) = Of(p)
<1>1. PICK s : s = Snapshot(p)  OBVIOUS
<1>2. /\ s.score = p.score /\ s.kept = p.kept /\ s.roll = p.roll /\ s.tuttos = p.tuttos
      /\ s.busted = p.busted /\ s.stopped = p.stopped /\ s.rolling = (p.phase = "tumbling")
      /\ s.cards = p.chain.cards /\ s.pm = p.chain.pm /\ s.ctuttos = p.chain.tuttos
      /\ s.outcomes = p.chain.outcomes /\ s.sel = IF p.busted THEN NoDice ELSE p.sel
  BY <1>1, SnapshotIs
<1>3. HasBags(s)  BY <1>2, NoneIsZero DEF HasBags
<1>4. Last(s.cards) = Of(p)  BY <1>2 DEF Of
<1>5. TellsOpen(p) => SnapOpen(s)  BY <1>2 DEF TellsOpen, SnapOpen
<1>6. TellsDone(p) => SnapDone(s)  BY <1>2 DEF TellsDone, SnapDone
<1>7. CASE Playing(p)
  <2>1. ~s.busted /\ ~s.stopped /\ s.kept # TotalDice /\ SnapOpen(s)
    BY <1>2, <1>5, <1>7 DEF Playing, Undecided
  <2>2. CASE OnStop(p)
    BY <1>1, <1>2, <1>3, <1>4, <2>1, <2>2 DEF OnStop, SnapTells, SnapInPlay
  <2>3. CASE OnTable(p)
    <3>1. s.rolling => s.sel = NoDice  BY <1>2, <2>1, <2>3 DEF OnTable
    <3>2. Last(s.cards) = "Kleeblatt" => s.tuttos \in {0, 1} /\ s.outcomes[Len(s.cards)].tuttos = s.tuttos
      BY <1>2, <1>4, <2>3 DEF OnTable, FirstTutto, LastOf
    <3>3. Last(s.cards) # "Stop"  BY <1>4, <2>3 DEF OnTable
    <3> QED  BY <1>1, <1>3, <1>4, <2>1, <3>1, <3>2, <3>3 DEF SnapTells, SnapInPlay
  <2> QED  BY <1>7, <2>2, <2>3 DEF Playing
<1>8. ASSUME Completed(p), p.phase = "settled" PROVE SnapTells(s)
  BY <1>2, <1>3, <1>4, <1>6, <1>8 DEF Completed, SnapTells, SnapCompleted
<1>9. CASE AtDraw(p)  BY <1>1, <1>4, <1>8, <1>9 DEF AtDraw
<1>10. CASE Decided(p)
  <2>1. p.phase = "settled" /\ ~s.rolling  BY <1>2, <1>10 DEF Decided
  <2>2. CASE WonAll(p)  BY <1>1, <1>4, <1>8, <2>1, <2>2 DEF WonAll
  <2>3. CASE FiredOut(p)
    <3>1. Last(s.cards) = "Feuerwerk" /\ SnapDone(s) /\ s.busted  BY <1>2, <1>4, <1>6, <2>3 DEF FiredOut
    <3>2. SnapOpen(s)  BY <3>1, FireworksAreOpen DEF SnapOpen, SnapDone
    <3> QED  BY <1>1, <1>3, <1>4, <3>1, <3>2 DEF SnapTells, SnapBusted
  <2>4. CASE Nulled(p)
    BY <1>1, <1>2, <1>3, <1>4, <1>5, <2>4 DEF Nulled, SnapTells, SnapBusted
  <2>5. CASE StoppedCold(p)
    BY <1>1, <1>2, <1>3, <1>4, <1>5, <2>1, <2>5, NoneIsZero DEF StoppedCold, SnapTells, SnapInPlay
  <2>6. CASE BankedPart(p)
    BY <1>1, <1>2, <1>3, <1>4, <1>5, <2>1, <2>6 DEF BankedPart, SnapTells, SnapInPlay, Special
  <2> QED  BY <1>10, <2>2, <2>3, <2>4, <2>5, <2>6 DEF Decided
<1> QED  BY <1>7, <1>9, <1>10

\* The largest selection of a roll that does not bust is one of dice.
LEMMA LargestAreDice ==
  ASSUME NEW roll \in Dice, NEW other, ~Busts(roll, "Feuerwerk", other, ruleset)
  PROVE  Largest(roll, "Feuerwerk", {}, ruleset) \in Dice
BY NotKniffelFits

LEMMA ResumedTells ==
  ASSUME classic, NEW s, SnapTells(s), Last(s.cards) = card
  PROVE  InHand(Derived(s)) /\ Of(Derived(s)) = card
<1> DEFINE bust == s.busted \/ RollBusts(s)
           won == card = "Feuerwerk" /\ s.score > 0
           tutto == ~bust /\ s.kept = TotalDice
           stop == ~bust /\ ~tutto /\ card = "Stop"
           banked == ~bust /\ ~tutto /\ ~stop /\ s.stopped
           midDraw == ~bust /\ ~tutto /\ ~stop /\ ~banked /\ s.kept = 0 /\ s.roll = NoDice
           sel == IF Unresolved(s) /\ ~bust /\ card = "Feuerwerk" THEN Largest(s.roll, card, {}, ruleset) ELSE s.sel
<1>1. PICK p : p = Derived(s)  OBVIOUS
<1>2. /\ DOMAIN p = PanelFields /\ DOMAIN p.chain = ChainFields
      /\ p.phase = IF midDraw THEN "ready" ELSE "settled"
      /\ p.kept = s.kept /\ p.roll = s.roll /\ p.sel = sel /\ p.score = s.score /\ p.tuttos = s.tuttos
      /\ p.reveal = "none"
  BY <1>1 DEF Derived, PanelFields, ChainFields
<1>3. p.busted = bust /\ p.stopped = banked  BY <1>1 DEF Derived
<1>4. p.summary = CASE bust -> Summary(won, IF won THEN s.score ELSE 0, FALSE)
                    [] tutto -> Summary(TRUE, s.score, TRUE)
                    [] stop -> Summary(FALSE, 0, FALSE)
                    [] banked -> Summary(TRUE, s.score, s.kept = TotalDice)
                    [] OTHER -> NoSummary
  BY <1>1 DEF Derived
<1>5. /\ p.chain.cards = s.cards /\ p.chain.outcomes = s.outcomes /\ p.chain.tuttos = s.ctuttos /\ p.chain.pm = s.pm
      /\ p.chain.done = (tutto \/ (bust /\ won))
      /\ p.chain.ended = (IF stop THEN "stopCard" ELSE IF bust /\ ~won THEN "null" ELSE "banked")
      /\ p.chain.forfeit = IF stop \/ (bust /\ ~won) THEN s.score ELSE 0
  BY <1>1 DEF Derived
<1>6. Of(p) = card  BY <1>5 DEF Of
<1>7. SnapOpen(s) => OpenTale(p.chain.cards, p.chain.outcomes, p.chain.tuttos, p.chain.pm, p.score)
  BY <1>2, <1>5 DEF SnapOpen
<1>8. SnapDone(s) => DoneTale(p.chain.cards, p.chain.outcomes, p.chain.tuttos, p.chain.pm, p.score)
  BY <1>2, <1>5 DEF SnapDone
<1>9. HasBags(p)
  <2>1. CASE Unresolved(s) /\ ~bust /\ card = "Feuerwerk"
    <3>1. ~Busts(s.roll, card, s.progress, ruleset)  BY <2>1 DEF RollBusts
    <3>2. p.sel = Largest(s.roll, "Feuerwerk", {}, ruleset)  BY <1>2, <2>1
    <3> QED  BY <1>2, <2>1, <3>1, <3>2, LargestAreDice DEF SnapTells, HasBags
  <2>2. CASE ~(Unresolved(s) /\ ~bust /\ card = "Feuerwerk")
    BY <1>2, <2>2 DEF SnapTells, HasBags
  <2> QED  BY <2>1, <2>2
<1>10. Unresolved(s) => ~s.busted /\ ~s.stopped /\ s.rolling /\ s.roll # NoDice  BY DEF Unresolved
<1>11. CASE bust
  <2>1. p.busted /\ p.phase = "settled"  BY <1>2, <1>3, <1>11
  <2>2. SnapOpen(s) /\ card # "Stop"
    <3>1. CASE s.busted  BY <3>1 DEF SnapTells, SnapBusted, SnapCompleted, SnapInPlay
    <3>2. CASE ~s.busted
      <4>1. Unresolved(s)  BY <1>11, <3>2 DEF RollBusts
      <4> QED  BY <1>10, <4>1 DEF SnapTells, SnapBusted, SnapCompleted, SnapInPlay
    <3> QED  BY <3>1, <3>2
  <2>3. OpenTale(p.chain.cards, p.chain.outcomes, p.chain.tuttos, p.chain.pm, p.score)  BY <1>7, <2>2
  <2>4. CASE won
    <3>1. p.chain.done /\ p.chain.ended = "banked"  BY <1>5, <1>11, <2>4
    <3>2. p.summary = Summary(TRUE, s.score, FALSE)  BY <1>4, <1>11, <2>4
    <3>3. TellsDone(p)  BY <1>5, <2>3, <2>4, <3>1, FireworksAreDone DEF TellsDone
    <3>4. p.summary.shown /\ Said(p, p.score)  BY <1>2, <3>2 DEF Summary, Said
    <3>5. FiredOut(p)  BY <1>2, <1>6, <2>1, <2>4, <3>1, <3>3, <3>4 DEF FiredOut
    <3> QED  BY <1>1, <1>2, <1>6, <1>9, <2>1, <3>4, <3>5 DEF InHand, Shaped, Decided
  <2>5. CASE ~won
    <3>1. ~p.chain.done /\ p.chain.ended = "null" /\ p.chain.forfeit = s.score  BY <1>5, <1>11, <2>5
    <3>2. p.summary = Summary(FALSE, 0, FALSE)  BY <1>4, <1>11, <2>5
    <3>3. TellsOpen(p)  BY <2>3, <3>1 DEF TellsOpen
    <3>4. p.summary.shown /\ Lost(p)  BY <1>2, <3>1, <3>2 DEF Summary, Lost
    <3>5. Nulled(p)  BY <1>6, <2>1, <2>2, <3>1, <3>3, <3>4 DEF Nulled
    <3> QED  BY <1>1, <1>2, <1>6, <1>9, <2>1, <3>4, <3>5 DEF InHand, Shaped, Decided
  <2> QED  BY <2>4, <2>5
<1>12. CASE tutto
  <2>1. ~p.busted /\ p.phase = "settled" /\ p.kept = TotalDice  BY <1>2, <1>3, <1>12
  <2>2. SnapCompleted(s)  BY <1>12 DEF SnapTells, SnapBusted, SnapInPlay
  <2>3. p.chain.done /\ p.chain.ended = "banked"  BY <1>5, <1>12
  <2>4. TellsDone(p)  BY <1>8, <2>2, <2>3 DEF TellsDone, SnapCompleted
  <2>5. ~Unresolved(s)  BY <1>10, <2>2 DEF SnapCompleted
  <2>6. p.sel = NoDice  BY <1>2, <2>2, <2>5 DEF SnapCompleted
  <2>7. card = "Kleeblatt" => p.tuttos = 1  BY <1>2, <2>2 DEF SnapCompleted
  <2>8. p.summary = Summary(TRUE, s.score, TRUE)  BY <1>4, <1>12
  <2>9. p.summary.shown /\ Said(p, p.score)  BY <1>2, <2>8 DEF Summary, Said
  <2>10. WonAll(p)  BY <1>6, <2>1, <2>3, <2>4, <2>6, <2>7, <2>9 DEF WonAll, Completed
  <2> QED  BY <1>1, <1>2, <1>6, <1>9, <2>1, <2>9, <2>10 DEF InHand, Shaped, Decided
<1>13. CASE ~bust /\ ~tutto
  <2>1. SnapInPlay(s) /\ ~s.busted /\ s.kept # TotalDice
    BY <1>13 DEF SnapTells, SnapBusted, SnapCompleted
  <2>2. ~p.busted /\ ~p.chain.done /\ p.kept # TotalDice  BY <1>2, <1>3, <1>5, <1>13, <2>1
  <2>3. TellsOpen(p)  BY <1>7, <2>1, <2>2 DEF TellsOpen, SnapInPlay
  <2>4. CASE card = "Stop"
    <3>1. stop  BY <1>13, <2>4
    <3>2. s.kept = 0 /\ s.roll = NoDice /\ s.sel = NoDice  BY <2>1, <2>4 DEF SnapInPlay
    <3>3. p.kept = 0 /\ p.roll = NoDice /\ p.sel = NoDice
      <4>1. p.sel = s.sel  BY <1>2, <2>4
      <4> QED  BY <1>2, <3>2, <4>1
    <3>4. p.phase = "settled" /\ ~p.stopped  BY <1>2, <1>3, <3>1
    <3>5. p.chain.ended = "stopCard" /\ p.chain.forfeit = s.score  BY <1>5, <3>1
    <3>6. p.summary = Summary(FALSE, 0, FALSE)  BY <1>4, <1>13, <3>1
    <3>7. p.summary.shown /\ Lost(p)  BY <1>2, <3>5, <3>6 DEF Summary, Lost
    <3>8. StoppedCold(p)  BY <1>6, <2>2, <2>3, <2>4, <3>3, <3>4, <3>5, <3>7 DEF StoppedCold
    <3> QED  BY <1>1, <1>2, <1>6, <1>9, <3>4, <3>7, <3>8 DEF InHand, Shaped, Decided
  <2>5. CASE card # "Stop" /\ s.stopped
    <3>1. banked  BY <1>13, <2>5
    <3>2. card \notin Special \cup {"Stop"} /\ s.sel = NoDice  BY <2>1, <2>5 DEF SnapInPlay
    <3>3. ~Unresolved(s)  BY <1>10, <2>5
    <3>4. p.sel = NoDice  BY <1>2, <3>2, <3>3
    <3>5. p.phase = "settled" /\ p.stopped  BY <1>2, <1>3, <3>1
    <3>6. p.chain.ended = "banked"  BY <1>5, <1>13, <2>5
    <3>7. p.summary = Summary(TRUE, s.score, s.kept = TotalDice)  BY <1>4, <1>13, <2>5, <3>1
    <3>8. p.summary.shown /\ Said(p, p.score)  BY <1>2, <3>7 DEF Summary, Said
    <3>9. BankedPart(p)  BY <1>6, <2>2, <2>3, <3>2, <3>4, <3>5, <3>6, <3>8 DEF BankedPart
    <3> QED  BY <1>1, <1>2, <1>6, <1>9, <3>5, <3>8, <3>9 DEF InHand, Shaped, Decided
  <2>6. CASE card # "Stop" /\ ~s.stopped
    <3>1. ~stop /\ ~banked /\ ~p.stopped  BY <1>3, <2>6
    <3>2. p.summary = NoSummary  BY <1>4, <1>13, <2>6
    <3>3. Undecided(p)  BY <2>2, <3>1, <3>2 DEF Undecided, NoSummary
    <3>4. p.chain.ended = "banked"  BY <1>5, <1>13, <2>6
    <3>5. FirstTutto(p)  BY <1>2, <1>5, <1>6, <2>1 DEF FirstTutto, LastOf, SnapInPlay
    <3>6. p.phase = "ready" => p.kept = 0  BY <1>2
    <3>7. p.phase \in {"ready", "settled"}  BY <1>2
    <3>8. OnTable(p)  BY <1>2, <1>6, <2>6, <3>4, <3>5, <3>6, <3>7 DEF OnTable
    <3> QED  BY <1>1, <1>2, <1>6, <1>9, <2>2, <2>3, <3>3, <3>8 DEF InHand, Shaped, Playing
  <2> QED  BY <2>4, <2>5, <2>6
<1> QED  BY <1>11, <1>12, <1>13

-----------------------------------------------------------------------------
\* The invariant of a turn in the classic rules: the panel, the room's snapshot
\* and the device's cache each tell the tale of a chain.

Grounds ==
  /\ dealt \in Seq(Cards) /\ dealt # <<>>
  /\ turn \in Nat /\ slot # 0
  /\ former # <<>> => former[1] # 0 /\ former[2] \in Cards

\* The card that was in play when the server dealt the next one.
CardShown == IF asking = "dealt" THEN dealt[Len(dealt) - 1] ELSE card

Asking(p) == Shaped(p) /\ HasBags(p) /\ AtDraw(p) /\ (asking = "dealt" => Len(dealt) > 1)
PanelTells ==
  panel # Closed => Of(panel) = CardShown /\ IF asking = "no" THEN InHand(panel) ELSE Asking(panel)
LiveTells == live # NoSnap => SnapTells(live)
CacheTells == cache # NoCache => SnapTells(cache.snap) /\ Last(cache.snap.cards) = cache.key[2]
TaleInv == (dirty \/ asking # "no" => panel # Closed) /\ PanelTells /\ LiveTells /\ CacheTells

LEMMA CardIsDealt == ASSUME Grounds PROVE card \in Cards /\ card = dealt[Len(dealt)] /\ Len(dealt) # 0
BY DEF Grounds, card, Last

LEMMA HeldIsOpen == ASSUME NEW p, Shaped(p) PROVE p # Closed
BY OpenIsNotClosed DEF Shaped

\* The turn goes on with a panel in hand, whatever is published of it.
LEMMA TaleGoesOn ==
  ASSUME TaleInv, NEW p, InHand(p), Of(p) = card, panel' = p, asking' = "no", UNCHANGED <<ruleset, slot, dealt>>,
         cache' \in {cache, NoCache, [key |-> <<slot, card>>, snap |-> Snapshot(p)]},
         live' \in {live, NoSnap, Snapshot(p)}
  PROVE  TaleInv'
<1>1. card' = card  BY DEF card
<1>2. p # Closed  BY HeldIsOpen DEF InHand
<1>3. PanelTells'  BY <1>1 DEF PanelTells, CardShown
<1>4. SnapTells(Snapshot(p)) /\ Last(Snapshot(p).cards) = card  BY SnapshotTells DEF InHand
<1>5. LiveTells'  BY <1>4 DEF TaleInv, LiveTells
<1>6. CacheTells'
  <2>1. CASE cache' = cache \/ cache' = NoCache  BY <2>1 DEF TaleInv, CacheTells
  <2>2. CASE cache' = [key |-> <<slot, card>>, snap |-> Snapshot(p)]
    <3>1. cache'.snap = Snapshot(p) /\ cache'.key[2] = card  BY <2>2
    <3> QED  BY <1>4, <3>1 DEF CacheTells
  <2> QED  BY <2>1, <2>2
<1> QED  BY <1>2, <1>3, <1>5, <1>6 DEF TaleInv

LEMMA TaleBecomes ==
  ASSUME TaleInv, asking = "no", NEW p, InHand(p), Of(p) = card, Becomes(p), UNCHANGED <<ruleset, slot, dealt, asking>>
  PROVE  TaleInv'
<1>1. /\ panel' = p
      /\ cache' = cache \/ cache' = [key |-> <<slot, card>>, snap |-> Snapshot(p)]
      /\ live' = live \/ live' = Snapshot(p)
  BY DEF Becomes, Publish, ShownKey
<1> QED  BY <1>1, TaleGoesOn

LEMMA FreshIsInHand ==
  ASSUME card \in Cards, card # "Stop" PROVE InHand(FreshPanel(card)) /\ Of(FreshPanel(card)) = card
<1>1. PICK p, ch : p = FreshPanel(card) /\ ch = NewChain(card)  OBVIOUS
<1>2. /\ DOMAIN p = PanelFields /\ p.phase = "ready" /\ p.kept = 0 /\ p.roll = NoDice /\ p.sel = NoDice
      /\ p.score = 0 /\ p.tuttos = 0 /\ ~p.busted /\ ~p.stopped /\ ~p.summary.shown /\ p.reveal = "none"
      /\ p.chain = ch
  BY <1>1 DEF FreshPanel, PanelFields, NoSummary
<1>3. /\ DOMAIN ch = ChainFields /\ ch.cards = <<card>> /\ ~ch.done /\ ch.pm = <<>> /\ ch.tuttos = 0
      /\ ch.ended = "banked" /\ ch.outcomes = <<Opening(card)>>
  BY <1>1 DEF NewChain, ChainFields
<1>4. OpenTale(ch.cards, ch.outcomes, ch.tuttos, ch.pm, p.score) /\ Last(ch.cards) = card
  BY <1>2, <1>3, NewIsOpen
<1>5. TellsOpen(p) /\ Of(p) = card  BY <1>2, <1>3, <1>4 DEF TellsOpen, Of
<1>6. LastOf(p).tuttos = 0
  <2>1. ch.outcomes[1] = Opening(card) /\ Len(ch.cards) = 1  BY <1>3
  <2> QED  BY <1>2, <2>1 DEF LastOf, Opening
<1>7. OnTable(p)  BY <1>2, <1>3, <1>5, <1>6 DEF OnTable, FirstTutto
<1> QED
  BY <1>1, <1>2, <1>3, <1>5, <1>7, NoneIsZero DEF InHand, Shaped, HasBags, Playing, Undecided

\* Dice in the air.
LEMMA ThrownIsInHand ==
  ASSUME NEW p, Shaped(p), ~p.stopped, ~p.summary.shown, p.reveal = "none",
         TellsOpen(p), p.kept \in Nat, p.kept # TotalDice,
         Of(p) = card, card # "Stop", p.chain.ended = "banked", FirstTutto(p),
         NEW r \in Dice, NEW q, q = [p EXCEPT !.phase = "tumbling", !.roll = r, !.sel = NoDice, !.busted = FALSE]
  PROVE  InHand(q) /\ Of(q) = card
<1>1. /\ DOMAIN q = PanelFields /\ q.phase = "tumbling" /\ q.roll = r /\ q.sel = NoDice /\ ~q.busted
      /\ q.chain = p.chain /\ q.score = p.score /\ q.stopped = p.stopped /\ q.summary = p.summary
      /\ q.reveal = p.reveal /\ q.kept = p.kept /\ q.tuttos = p.tuttos
  BY DEF Shaped, PanelFields
<1>2. TellsOpen(q) /\ Of(q) = card /\ FirstTutto(q)  BY <1>1 DEF TellsOpen, Of, FirstTutto, LastOf
<1>3. OnTable(q)  BY <1>1, <1>2 DEF OnTable
<1> QED  BY <1>1, <1>2, <1>3, NoneIsZero DEF InHand, Shaped, HasBags, Playing, Undecided

LEMMA ThrowTells ==
  ASSUME TaleInv, asking = "no", UNCHANGED <<ruleset, slot, dealt, asking>>,
         NEW p, Shaped(p), ~p.stopped, ~p.summary.shown, p.reveal = "none",
         TellsOpen(p), p.kept \in Nat, p.kept # TotalDice,
         Of(p) = card, card # "Stop", p.chain.ended = "banked", FirstTutto(p),
         NEW n, Rolled(p, n)
  PROVE  TaleInv'
<1>1. PICK r \in Dice : Becomes([p EXCEPT !.phase = "tumbling", !.roll = r, !.sel = NoDice, !.busted = FALSE])
  BY DEF Rolled
<1>2. PICK q : q = [p EXCEPT !.phase = "tumbling", !.roll = r, !.sel = NoDice, !.busted = FALSE]  OBVIOUS
<1>3. InHand(q) /\ Of(q) = card  BY <1>2, ThrownIsInHand
<1>4. Becomes(q)  BY <1>1, <1>2
<1> QED  BY <1>3, <1>4, TaleBecomes

\* What is known of the panel when it is at rest.
LEMMA RestIs ==
  ASSUME TaleInv, panel # Closed, asking = "no", ~panel.summary.shown, panel.reveal = "none"
  PROVE  /\ Shaped(panel) /\ HasBags(panel) /\ Of(panel) = card /\ card # "Stop"
         /\ Undecided(panel) /\ TellsOpen(panel) /\ panel.kept # TotalDice
         /\ panel.chain.ended = "banked" /\ FirstTutto(panel)
         /\ panel.phase = "ready" => panel.kept = 0
         /\ panel.phase = "tumbling" => panel.sel = NoDice
<1>1. InHand(panel) /\ Of(panel) = card  BY DEF TaleInv, PanelTells, CardShown
<1>2. Playing(panel)  BY <1>1 DEF InHand, Decided
<1>3. OnTable(panel)  BY <1>2 DEF Playing, OnStop
<1> QED  BY <1>1, <1>2, <1>3 DEF InHand, Playing, OnTable

LEMMA TumblingIs ==
  ASSUME TaleInv, panel.phase = "tumbling"
  PROVE  panel # Closed /\ asking = "no" /\ ~panel.summary.shown /\ panel.reveal = "none"
<1>1. panel # Closed  BY DEF Closed
<1>2. asking = "no"  BY <1>1 DEF TaleInv, PanelTells, Asking, AtDraw
<1>3. InHand(panel)  BY <1>1, <1>2 DEF TaleInv, PanelTells
<1> QED  BY <1>1, <1>2, <1>3 DEF InHand, Playing, Decided, OnStop, OnTable, Undecided

LEMMA ReadyIs ==
  ASSUME TaleInv, panel.phase = "ready"
  PROVE  panel # Closed /\ asking = "no" /\ ~panel.summary.shown
<1>1. panel # Closed  BY DEF Closed
<1>2. asking = "no"  BY <1>1 DEF TaleInv, PanelTells, Asking, AtDraw
<1>3. InHand(panel)  BY <1>1, <1>2 DEF TaleInv, PanelTells
<1> QED  BY <1>1, <1>2, <1>3 DEF InHand, Playing, Decided, Undecided

-----------------------------------------------------------------------------
\* The panel's steps.

LEMMA TaleOpens ==
  ASSUME Grounds, classic, TaleInv, Open PROVE TaleInv'
<1>1. panel = Closed /\ card # "Stop" /\ asking = "no" /\ UNCHANGED <<ruleset, slot, dealt, asking>>
  BY DEF Open, TaleInv
<1>2. CASE cache.key = TurnKey
  <2>1. cache.key[1] = slot /\ cache.key[2] = card  BY <1>2 DEF TurnKey
  <2>2. cache # NoCache  BY <2>1 DEF NoCache, Grounds
  <2>3. PICK p : p = Derived(cache.snap)  OBVIOUS
  <2>4. InHand(p) /\ Of(p) = card  BY <2>1, <2>2, <2>3, ResumedTells DEF TaleInv, CacheTells
  <2>5. Becomes(p) \/ (panel' = p /\ cache' = cache /\ live' = live)  BY <1>2, <2>3 DEF Open
  <2> QED  BY <1>1, <2>4, <2>5, TaleBecomes, TaleGoesOn
<1>3. CASE cache.key # TurnKey
  <2>1. PICK p : p = FreshPanel(card)  OBVIOUS
  <2>2. panel' = p /\ cache' = NoCache /\ live' = live  BY <1>3, <2>1 DEF Open
  <2>3. InHand(p) /\ Of(p) = card  BY <1>1, <2>1, CardIsDealt, FreshIsInHand
  <2> QED  BY <1>1, <2>2, <2>3, TaleGoesOn
<1> QED  BY <1>2, <1>3

LEMMA TaleTumbles ==
  ASSUME TaleInv, OpeningRoll PROVE TaleInv'
<1>1. panel # Closed /\ asking = "no" /\ ~panel.summary.shown /\ panel.reveal = "none"
      /\ UNCHANGED <<ruleset, slot, dealt, asking>> /\ Rolled(panel, TotalDice)
  BY ReadyIs DEF OpeningRoll, server
<1>2. /\ Shaped(panel) /\ Of(panel) = card /\ card # "Stop"
      /\ Undecided(panel) /\ TellsOpen(panel) /\ panel.kept \in Nat /\ panel.kept # TotalDice
      /\ panel.chain.ended = "banked" /\ FirstTutto(panel)
  BY <1>1, RestIs DEF HasBags
<1> QED  BY <1>1, <1>2, ThrowTells DEF Undecided

\* A bust leaves the tale as it is, and says how it ended.
LEMMA BustTells ==
  ASSUME NEW p, Shaped(p), TellsOpen(p), Of(p) = card, p.chain.ended = "banked"
  PROVE  LET b == BustChain(p)
         IN /\ DOMAIN b = ChainFields /\ b.cards = p.chain.cards /\ Last(b.cards) = card
            /\ IF card = "Feuerwerk" /\ p.score > 0
               THEN b.done /\ b.ended = "banked" /\ DoneTale(b.cards, b.outcomes, b.tuttos, b.pm, p.score)
               ELSE ~b.done /\ b.ended = "null" /\ b.forfeit = p.score
                    /\ OpenTale(b.cards, b.outcomes, b.tuttos, b.pm, p.score)
<1>1. PICK ch, r, b : ch = p.chain /\ r = Recorded(ch, p.score, 0) /\ b = BustChain(p)  OBVIOUS
<1>2. /\ DOMAIN ch = ChainFields /\ Linked(ch.cards, ch.outcomes) /\ p.score \in Nat /\ ~ch.done
      /\ OpenTale(ch.cards, ch.outcomes, ch.tuttos, ch.pm, p.score) /\ Last(ch.cards) = card
  BY <1>1, TaleIs DEF Shaped, TellsOpen, Of
<1>3. /\ DOMAIN r = ChainFields /\ r.cards = ch.cards /\ r.done = ch.done /\ r.pm = ch.pm /\ r.tuttos = ch.tuttos
      /\ r.ended = ch.ended /\ Retold(ch.outcomes, r.outcomes, p.score, 0)
  BY <1>1, <1>2, RecordedIs
<1>4. PICK n, x, y : n = Len(ch.cards) /\ x = ch.outcomes[n] /\ y = r.outcomes[n]  OBVIOUS
<1>5. n \in Nat /\ n # 0 /\ Len(ch.outcomes) = n /\ x \in Outcomes /\ Len(r.outcomes) = n
  BY <1>2, <1>3, <1>4, LastCounted DEF Linked, Retold
<1>6. x.after = p.score /\ LegalOpen(x)  BY <1>2, <1>4 DEF OpenTale
<1>7. y \in Outcomes /\ y.card = x.card /\ y.before = x.before /\ y.after = x.after /\ y.tuttos = x.tuttos + 0
  BY <1>3, <1>4, <1>5, <1>6 DEF Retold
<1>8. LegalOpen(y)
  <2>1. y.tuttos = x.tuttos  BY <1>5, <1>7 DEF Outcomes
  <2> QED  BY <1>5, <1>6, <1>7, <2>1, LegalOpenIs
<1>9. OpenTale(r.cards, r.outcomes, r.tuttos, r.pm, p.score)
  <2>1. LegalOpen(r.outcomes[Len(ch.cards)])  BY <1>4, <1>8
  <2>2. OpenTale(ch.cards, r.outcomes, ch.tuttos + 0, ch.pm, p.score)  BY <1>2, <1>3, <2>1, OpenGoesOn
  <2>3. ch.tuttos \in Nat
    <3>1. ch.tuttos = Counted(ch.outcomes)[n - 1].tuttos + x.tuttos /\ Counted(ch.outcomes)[n - 1].tuttos \in Nat
      BY <1>2, <1>4, LastCounted DEF OpenTale
    <3> QED  BY <1>5, <3>1 DEF Outcomes
  <2> QED  BY <1>3, <2>2, <2>3
<1>10. CASE card = "Feuerwerk" /\ p.score > 0
  <2>1. b = [r EXCEPT !.done = TRUE]  BY <1>1, <1>10 DEF BustChain
  <2>2. /\ DOMAIN b = ChainFields /\ b.done /\ b.ended = r.ended /\ b.cards = r.cards /\ b.outcomes = r.outcomes
        /\ b.tuttos = r.tuttos /\ b.pm = r.pm
    BY <1>3, <2>1 DEF ChainFields
  <2>3. DoneTale(b.cards, b.outcomes, b.tuttos, b.pm, p.score)
    BY <1>2, <1>3, <1>9, <1>10, <2>2, FireworksAreDone
  <2> QED  BY <1>1, <1>2, <1>3, <1>10, <2>2, <2>3
<1>11. CASE ~(card = "Feuerwerk" /\ p.score > 0)
  <2>1. b = [r EXCEPT !.ended = "null", !.forfeit = p.score]  BY <1>1, <1>11 DEF BustChain
  <2>2. /\ DOMAIN b = ChainFields /\ b.done = r.done /\ b.ended = "null" /\ b.forfeit = p.score /\ b.cards = r.cards
        /\ b.outcomes = r.outcomes /\ b.tuttos = r.tuttos /\ b.pm = r.pm
    BY <1>3, <2>1 DEF ChainFields
  <2> QED  BY <1>1, <1>2, <1>3, <1>9, <1>11, <2>2
<1> QED  BY <1>10, <1>11

LEMMA TaleLands ==
  ASSUME classic, TaleInv, Finalize PROVE TaleInv'
<1>1. /\ panel # Closed /\ asking = "no" /\ ~panel.summary.shown /\ panel.reveal = "none"
      /\ UNCHANGED <<ruleset, slot, dealt, asking>> /\ panel.phase = "tumbling"
  BY TumblingIs DEF Finalize, server
<1>2. /\ Shaped(panel) /\ HasBags(panel) /\ Of(panel) = card /\ card # "Stop"
      /\ Undecided(panel) /\ TellsOpen(panel) /\ panel.kept # TotalDice
      /\ panel.chain.ended = "banked" /\ FirstTutto(panel) /\ panel.sel = NoDice
  BY <1>1, RestIs
<1>3. PICK p : p = [panel EXCEPT !.phase = "settled"]  OBVIOUS
<1>4. /\ DOMAIN p = PanelFields /\ p.phase = "settled" /\ p.chain = panel.chain /\ p.score = panel.score
      /\ p.roll = panel.roll /\ p.sel = panel.sel /\ p.busted = panel.busted /\ p.stopped = panel.stopped
      /\ p.summary = panel.summary /\ p.reveal = panel.reveal /\ p.kept = panel.kept /\ p.tuttos = panel.tuttos
      /\ p.progress = panel.progress
  BY <1>2, <1>3 DEF Shaped, PanelFields
<1>5. /\ Shaped(p) /\ HasBags(p) /\ Of(p) = card /\ Undecided(p) /\ TellsOpen(p) /\ FirstTutto(p)
  BY <1>2, <1>4 DEF Shaped, HasBags, Of, Undecided, TellsOpen, FirstTutto, LastOf
<1>6. CASE Busts(p.roll, card, p.progress, ruleset)
  <2>1. PICK b, won, q :
          /\ b = BustChain(p) /\ won = (card = "Feuerwerk" /\ p.score > 0)
          /\ q = [p EXCEPT !.busted = TRUE, !.chain = b, !.summary = Summary(won, IF won THEN p.score ELSE 0, FALSE)]
    OBVIOUS
  <2>2. Becomes(q)  BY <1>3, <1>6, <2>1 DEF Finalize
  <2>3. /\ DOMAIN q = PanelFields /\ q.busted /\ q.chain = b /\ q.phase = "settled" /\ q.reveal = "none"
        /\ q.score = p.score /\ q.kept = p.kept /\ q.roll = p.roll /\ q.sel = p.sel
        /\ q.summary = Summary(won, IF won THEN p.score ELSE 0, FALSE)
    BY <1>1, <1>4, <1>5, <2>1 DEF Shaped, PanelFields
  <2>4. /\ DOMAIN b = ChainFields /\ Last(b.cards) = card
        /\ IF won THEN b.done /\ b.ended = "banked" /\ DoneTale(b.cards, b.outcomes, b.tuttos, b.pm, p.score)
           ELSE ~b.done /\ b.ended = "null" /\ b.forfeit = p.score
                /\ OpenTale(b.cards, b.outcomes, b.tuttos, b.pm, p.score)
    <3>1. p.chain.ended = "banked"  BY <1>2, <1>4
    <3> QED  BY <1>5, <2>1, <3>1, BustTells
  <2>5. Of(q) = card /\ q.summary.shown  BY <2>3, <2>4 DEF Of, Summary
  <2>6. FiredOut(q) \/ Nulled(q)
    <3>1. CASE won
      <4>1. TellsDone(q)  BY <2>3, <2>4, <3>1 DEF TellsDone
      <4>2. Said(q, q.score)  BY <2>3, <3>1 DEF Said, Summary
      <4> QED  BY <2>1, <2>3, <2>4, <2>5, <3>1, <4>1, <4>2 DEF FiredOut
    <3>2. CASE ~won
      <4>1. TellsOpen(q)  BY <2>3, <2>4, <3>2 DEF TellsOpen
      <4>2. Lost(q)  BY <2>3, <2>4, <3>2 DEF Lost, Summary
      <4> QED  BY <1>2, <2>3, <2>4, <2>5, <3>2, <4>1, <4>2 DEF Nulled
    <3> QED  BY <3>1, <3>2
  <2>7. InHand(q)  BY <1>5, <2>3, <2>4, <2>5, <2>6 DEF InHand, Shaped, HasBags, Decided
  <2> QED  BY <1>1, <2>2, <2>5, <2>7, TaleBecomes
<1>7. CASE ~Busts(p.roll, card, p.progress, ruleset)
  <2>1. PICK k : k = IF card = "Feuerwerk" THEN Largest(p.roll, card, {}, ruleset) ELSE NoDice  OBVIOUS
  <2>2. PICK q : q = [p EXCEPT !.sel = k]  OBVIOUS
  <2>3. /\ DOMAIN q = PanelFields /\ q.phase = "settled" /\ q.chain = p.chain /\ q.score = p.score /\ q.roll = p.roll
        /\ q.sel = k /\ q.busted = p.busted /\ q.stopped = p.stopped /\ q.summary = p.summary /\ q.reveal = p.reveal
        /\ q.kept = p.kept /\ q.tuttos = p.tuttos
    BY <1>4, <2>2 DEF PanelFields
  <2>4. k \in Dice
    <3>1. card = "Feuerwerk" => Largest(p.roll, card, {}, ruleset) \in Dice
      BY <1>5, <1>7, LargestAreDice DEF HasBags
    <3> QED  BY <2>1, <3>1, NoneIsZero
  <2>5. OnTable(q) /\ TellsOpen(q) /\ Undecided(q) /\ Of(q) = card
    BY <1>1, <1>2, <1>4, <1>5, <2>3 DEF OnTable, TellsOpen, Undecided, Of, FirstTutto, LastOf
  <2>6. InHand(q)  BY <1>2, <1>4, <1>5, <2>3, <2>4, <2>5 DEF InHand, Shaped, HasBags, Playing
  <2>7. Becomes(q)
    <3>1. CASE card = "Feuerwerk"  BY <1>3, <1>7, <2>1, <2>2, <3>1 DEF Finalize
    <3>2. CASE card # "Feuerwerk"
      <4>1. Becomes(p)  BY <1>3, <1>7, <3>2 DEF Finalize
      <4>2. q = p
        <5>1. k = p.sel  BY <1>2, <1>4, <2>1, <3>2
        <5> QED  BY <1>3, <2>2, <5>1
      <4> QED  BY <4>1, <4>2
    <3> QED  BY <3>1, <3>2
  <2> QED  BY <1>1, <2>5, <2>6, <2>7, TaleBecomes
<1> QED  BY <1>6, <1>7

LEMMA AtRestIs ==
  ASSUME TaleInv, AtRest(panel)
  PROVE  /\ panel # Closed /\ asking = "no" /\ panel.phase = "settled" /\ panel.reveal = "none"
         /\ Shaped(panel) /\ HasBags(panel) /\ Of(panel) = card /\ card # "Stop"
         /\ Undecided(panel) /\ TellsOpen(panel) /\ panel.kept # TotalDice
         /\ panel.chain.ended = "banked" /\ FirstTutto(panel)
<1>1. panel # Closed  BY DEF AtRest, Closed
<1>2. asking = "no" /\ panel.phase = "settled" /\ panel.reveal = "none" /\ ~panel.summary.shown  BY DEF AtRest
<1> QED  BY <1>1, <1>2, RestIs

LEMMA TaleSelects ==
  ASSUME TaleInv, Select PROVE TaleInv'
<1>1. AtRest(panel) /\ UNCHANGED <<ruleset, slot, dealt, asking>>  BY DEF Select, server
<1>2. /\ asking = "no" /\ panel.phase = "settled" /\ panel.reveal = "none"
      /\ Shaped(panel) /\ HasBags(panel) /\ Of(panel) = card /\ card # "Stop"
      /\ Undecided(panel) /\ TellsOpen(panel) /\ panel.kept # TotalDice
      /\ panel.chain.ended = "banked" /\ FirstTutto(panel)
  BY <1>1, AtRestIs
<1>3. PICK k \in Dice : Becomes([panel EXCEPT !.sel = k])  BY DEF Select
<1>4. PICK q : q = [panel EXCEPT !.sel = k]  OBVIOUS
<1>5. /\ DOMAIN q = PanelFields /\ q.phase = "settled" /\ q.chain = panel.chain /\ q.score = panel.score
      /\ q.roll = panel.roll /\ q.sel = k /\ q.busted = panel.busted /\ q.stopped = panel.stopped
      /\ q.summary = panel.summary /\ q.reveal = "none" /\ q.kept = panel.kept /\ q.tuttos = panel.tuttos
  BY <1>2, <1>4 DEF Shaped, PanelFields
<1>6. OnTable(q) /\ TellsOpen(q) /\ Undecided(q) /\ Of(q) = card
  BY <1>2, <1>5 DEF OnTable, TellsOpen, Undecided, Of, FirstTutto, LastOf
<1>7. InHand(q)  BY <1>2, <1>3, <1>5, <1>6 DEF InHand, Shaped, HasBags, Playing
<1>8. Becomes(q)  BY <1>3, <1>4
<1> QED  BY <1>1, <1>2, <1>6, <1>7, <1>8, TaleBecomes

\* Rolling on: with the dice left, with all of them after a firework's tutto,
\* or for the second tutto of a Kleeblatt.
LEMMA TaleRolls ==
  ASSUME TaleInv, RollOn \/ RollSecondTutto PROVE TaleInv'
<1>1. /\ AtRest(panel) /\ UNCHANGED <<ruleset, slot, dealt, asking>>
      /\ MakesTutto(panel) => card = "Feuerwerk" \/ (card = "Kleeblatt" /\ panel.tuttos = 0)
  BY DEF RollOn, RollSecondTutto, CanAct, server, FirstOfTwo
<1>2. /\ asking = "no" /\ panel.reveal = "none"
      /\ Shaped(panel) /\ HasBags(panel) /\ Of(panel) = card /\ card # "Stop"
      /\ Undecided(panel) /\ TellsOpen(panel)
      /\ panel.chain.ended = "banked" /\ FirstTutto(panel)
  BY <1>1, AtRestIs
<1>3. card = "Kleeblatt" => panel.tuttos \in {0, 1} /\ LastOf(panel).tuttos = panel.tuttos
  BY <1>2 DEF FirstTutto
<1>4. PICK k : k = Kept(panel)  OBVIOUS
<1>5. /\ TellsOpen(k) /\ Of(k) = card
      /\ LastOf(k).tuttos = LastOf(panel).tuttos + (IF MakesTutto(panel) THEN 1 ELSE 0)
  BY <1>1, <1>2, <1>3, <1>4, KeptIsOpen DEF HasBags
<1>6. /\ Shaped(k) /\ k.kept = panel.kept + Count(panel.sel) /\ k.stopped = panel.stopped
      /\ k.summary = panel.summary /\ k.reveal = panel.reveal /\ k.tuttos = panel.tuttos
      /\ k.chain.ended = panel.chain.ended
  BY <1>2, <1>4, KeptTells DEF HasBags
<1>7. PICK q, n :
        /\ Rolled(q, n)
        /\ \/ RollOn /\ q = IF MakesTutto(panel) THEN [k EXCEPT !.kept = 0] ELSE k
           \/ RollSecondTutto /\ q = [k EXCEPT !.kept = 0, !.tuttos = 1]
  BY <1>4 DEF RollOn, RollSecondTutto
<1>8. /\ DOMAIN q = PanelFields /\ q.chain = k.chain /\ q.score = k.score /\ q.stopped = k.stopped
      /\ q.summary = k.summary /\ q.reveal = k.reveal
      /\ q.kept = (IF MakesTutto(panel) THEN 0 ELSE k.kept)
      /\ card = "Kleeblatt" => q.tuttos = IF MakesTutto(panel) THEN 1 ELSE k.tuttos
  <2>1. RollSecondTutto => MakesTutto(panel) /\ card = "Kleeblatt"  BY DEF RollSecondTutto, FirstOfTwo
  <2>2. RollOn => (MakesTutto(panel) => card = "Feuerwerk")  BY DEF RollOn
  <2> QED  BY <1>6, <1>7, <2>1, <2>2 DEF Shaped, PanelFields
<1>9. q.kept \in Nat /\ q.kept # TotalDice
  <2>1. ~MakesTutto(panel) => k.kept # TotalDice  BY <1>6 DEF MakesTutto
  <2>2. k.kept \in Nat  BY <1>2, <1>6, CountIsNat DEF HasBags
  <2> QED  BY <1>8, <2>1, <2>2, NoneIsZero
<1>10. TellsOpen(q) /\ Of(q) = card /\ LastOf(q) = LastOf(k)
  BY <1>5, <1>8 DEF TellsOpen, Of, LastOf
<1>11. FirstTutto(q)
  <2>1. CASE card = "Kleeblatt"  BY <1>1, <1>3, <1>5, <1>6, <1>8, <1>10, <2>1 DEF FirstTutto
  <2>2. CASE card # "Kleeblatt"  BY <1>10, <2>2 DEF FirstTutto
  <2> QED  BY <2>1, <2>2
<1>12. Shaped(q) /\ ~q.stopped /\ ~q.summary.shown /\ q.reveal = "none" /\ q.chain.ended = "banked"
  BY <1>2, <1>6, <1>8 DEF Shaped, Undecided
<1> QED  BY <1>1, <1>2, <1>7, <1>9, <1>10, <1>11, <1>12, ThrowTells

LEMMA BankedIs ==
  ASSUME NEW p, Shaped(p)
  PROVE  LET b == Banked(p)
         IN /\ Shaped(b) /\ b.stopped /\ b.summary.shown /\ Said(b, b.score)
            /\ b.phase = p.phase /\ b.kept = p.kept /\ b.roll = p.roll /\ b.sel = p.sel /\ b.score = p.score
            /\ b.busted = p.busted /\ b.reveal = p.reveal /\ b.tuttos = p.tuttos /\ b.chain = p.chain
            /\ Of(b) = Of(p) /\ (TellsOpen(p) => TellsOpen(b)) /\ (Completed(p) => Completed(b))
<1>1. PICK b : b = Banked(p)  OBVIOUS
<1>2. /\ DOMAIN b = PanelFields /\ b.stopped /\ b.summary = Summary(TRUE, p.score, p.kept = TotalDice)
      /\ b.phase = p.phase /\ b.kept = p.kept /\ b.roll = p.roll /\ b.sel = p.sel /\ b.score = p.score
      /\ b.busted = p.busted /\ b.reveal = p.reveal /\ b.tuttos = p.tuttos /\ b.chain = p.chain
  BY <1>1 DEF Banked, Shaped, PanelFields
<1>3. b.summary.shown /\ Said(b, b.score)  BY <1>2 DEF Summary, Said
<1>4. Of(b) = Of(p) /\ (TellsOpen(p) => TellsOpen(b)) /\ (TellsDone(p) => TellsDone(b))
  BY <1>2 DEF Of, TellsOpen, TellsDone
<1>5. Completed(p) => Completed(b)  BY <1>2, <1>4 DEF Completed
<1> QED  BY <1>1, <1>2, <1>3, <1>4, <1>5 DEF Shaped

LEMMA TaleStops ==
  ASSUME classic, TaleInv, StopAndScore PROVE TaleInv'
<1>1. /\ AtRest(panel) /\ UNCHANGED <<ruleset, slot, dealt, asking>> /\ CanStop(panel)
      /\ MakesTutto(panel) => ~(card = "Kleeblatt" /\ panel.tuttos = 0)
  BY DEF StopAndScore, CanAct, server, FirstOfTwo
<1>2. /\ asking = "no" /\ panel.phase = "settled" /\ panel.reveal = "none"
      /\ Shaped(panel) /\ HasBags(panel) /\ Of(panel) = card /\ card # "Stop"
      /\ Undecided(panel) /\ TellsOpen(panel) /\ panel.kept # TotalDice
      /\ panel.chain.ended = "banked" /\ FirstTutto(panel)
  BY <1>1, AtRestIs
<1>3. card # "Feuerwerk" /\ (MakesTutto(panel) \/ card \notin Special)  BY <1>1 DEF CanStop
<1>4. PICK m : m = Committed(panel)  OBVIOUS
<1>5. PICK b : b = Banked(m)  OBVIOUS
<1>6. Becomes(b)  BY <1>4, <1>5 DEF StopAndScore
<1>7. CASE MakesTutto(panel)
  <2>1. card = "Kleeblatt" => panel.tuttos = 1 /\ LastOf(panel).tuttos = 1  BY <1>1, <1>2, <1>7 DEF FirstTutto
  <2>2. /\ Shaped(m) /\ TellsDone(m) /\ Of(m) = card /\ m.kept = TotalDice /\ m.sel = NoDice /\ m.roll = NoDice
        /\ m.phase = "settled" /\ m.busted = panel.busted /\ m.reveal = "none" /\ m.tuttos = panel.tuttos
        /\ m.chain.ended = "banked"
    BY <1>2, <1>3, <1>4, <1>7, <2>1, CommittedIsDone DEF HasBags
  <2>3. Completed(m)  BY <1>2, <2>1, <2>2 DEF Completed, Undecided
  <2>4. /\ Shaped(b) /\ b.summary.shown /\ Said(b, b.score) /\ b.phase = "settled" /\ b.reveal = "none"
        /\ b.roll = NoDice /\ b.sel = NoDice /\ Of(b) = card /\ Completed(b)
    BY <1>5, <2>2, <2>3, BankedIs
  <2>5. InHand(b)  BY <2>4, NoneIsZero DEF InHand, HasBags, Decided, WonAll, Completed
  <2> QED  BY <1>1, <1>2, <1>6, <2>4, <2>5, TaleBecomes
<1>8. CASE ~MakesTutto(panel)
  <2>1. m = Kept(panel)  BY <1>4, <1>8 DEF Committed
  <2>2. TellsOpen(m) /\ Of(m) = card  BY <1>2, <1>8, <2>1, KeptIsOpen DEF HasBags
  <2>3. /\ Shaped(m) /\ m.phase = "settled" /\ m.kept = panel.kept + Count(panel.sel) /\ m.sel = NoDice
        /\ m.roll = NoDice /\ m.busted = panel.busted /\ m.reveal = "none" /\ m.chain.ended = "banked"
    BY <1>2, <2>1, KeptTells DEF HasBags
  <2>4. m.kept \in Nat /\ m.kept # TotalDice  BY <1>2, <1>8, <2>3, CountIsNat DEF MakesTutto, HasBags
  <2>5. /\ Shaped(b) /\ b.stopped /\ b.summary.shown /\ Said(b, b.score) /\ b.phase = "settled" /\ b.reveal = "none"
        /\ b.roll = NoDice /\ b.sel = NoDice /\ Of(b) = card /\ TellsOpen(b) /\ b.kept = m.kept
        /\ b.busted = panel.busted /\ b.chain.ended = "banked"
    BY <1>5, <2>2, <2>3, BankedIs
  <2>6. BankedPart(b)  BY <1>2, <1>3, <1>8, <2>4, <2>5 DEF BankedPart, Undecided
  <2>7. InHand(b)  BY <2>4, <2>5, <2>6, NoneIsZero DEF InHand, HasBags, Decided
  <2> QED  BY <1>1, <1>2, <1>6, <2>5, <2>7, TaleBecomes
<1> QED  BY <1>7, <1>8

LEMMA TaleAsks ==
  ASSUME TaleInv, DrawCard PROVE TaleInv'
<1>1. /\ AtRest(panel) /\ UNCHANGED <<ruleset, slot, dealt>> /\ CanStop(panel) /\ classic /\ MakesTutto(panel)
      /\ card # "Kleeblatt" /\ asking' = "asked" /\ Becomes(Committed(panel))
  BY DEF DrawCard, CanAct, CanDraw, server
<1>2. /\ panel.phase = "settled" /\ panel.reveal = "none"
      /\ Shaped(panel) /\ HasBags(panel) /\ Of(panel) = card /\ card # "Stop"
      /\ Undecided(panel) /\ TellsOpen(panel) /\ panel.chain.ended = "banked"
  BY <1>1, AtRestIs
<1>3. card # "Feuerwerk"  BY <1>1 DEF CanStop
<1>4. PICK m : m = Committed(panel)  OBVIOUS
<1>5. /\ Shaped(m) /\ TellsDone(m) /\ Of(m) = card /\ m.kept = TotalDice /\ m.sel = NoDice /\ m.roll = NoDice
      /\ m.phase = "settled" /\ m.busted = panel.busted /\ m.stopped = panel.stopped /\ m.summary = panel.summary
      /\ m.reveal = "none" /\ m.chain.ended = "banked"
  BY <1>1, <1>2, <1>3, <1>4, CommittedIsDone DEF HasBags
<1>6. AtDraw(m)  BY <1>1, <1>2, <1>3, <1>5 DEF AtDraw, Completed, Undecided, Closing
<1>7. ~m.busted /\ HasBags(m) /\ m # Closed  BY <1>2, <1>5, NoneIsZero, HeldIsOpen DEF Undecided, HasBags
<1>8. panel' = m /\ UNCHANGED <<cache, live>>  BY <1>1, <1>4, <1>7 DEF Becomes
<1>9. card' = card  BY <1>1 DEF card
<1>10. PanelTells'
  BY <1>1, <1>5, <1>6, <1>7, <1>8, <1>9 DEF PanelTells, CardShown, Asking
<1>11. LiveTells' /\ CacheTells'  BY <1>8 DEF TaleInv, LiveTells, CacheTells
<1> QED  BY <1>7, <1>8, <1>10, <1>11 DEF TaleInv

LEMMA TaleDeals ==
  ASSUME Grounds, TaleInv, Deal PROVE TaleInv'
<1>1. /\ asking = "asked" /\ asking' = "dealt" /\ UNCHANGED <<panel, live, cache, dirty>>
  BY DEF Deal
<1>2. PICK c \in Cards : dealt' = Append(dealt, c)  BY DEF Deal
<1>3. dealt \in Seq(Cards) /\ Len(dealt) \in Nat /\ Len(dealt) # 0 /\ card = dealt[Len(dealt)]
  BY CardIsDealt DEF Grounds
<1>4. Len(dealt') = Len(dealt) + 1 /\ dealt'[Len(dealt)] = dealt[Len(dealt)]  BY <1>2, <1>3
<1>5. Len(dealt') > 1 /\ Len(dealt') - 1 = Len(dealt)  BY <1>3, <1>4
<1>6. CardShown' = card /\ CardShown = card  BY <1>1, <1>3, <1>4, <1>5 DEF CardShown
<1>7. PanelTells'  BY <1>1, <1>5, <1>6 DEF TaleInv, PanelTells, Asking
<1>8. LiveTells' /\ CacheTells'  BY <1>1 DEF TaleInv, LiveTells, CacheTells
<1> QED  BY <1>1, <1>7, <1>8 DEF TaleInv

\* A draw the server refuses banks the turn as it stands.
LEMMA TaleIsRefused ==
  ASSUME TaleInv, DrawRefused PROVE TaleInv'
<1>1. asking = "asked" /\ asking' = "no" /\ UNCHANGED <<ruleset, slot, dealt>> /\ Becomes(Banked(panel))
  BY DEF DrawRefused, server
<1>2. Of(panel) = card /\ Shaped(panel) /\ HasBags(panel) /\ AtDraw(panel)
  BY <1>1 DEF TaleInv, PanelTells, CardShown, Asking
<1>3. PICK b : b = Banked(panel)  OBVIOUS
<1>4. /\ Shaped(b) /\ b.summary.shown /\ Said(b, b.score) /\ b.phase = "settled" /\ b.reveal = "none"
      /\ b.kept = panel.kept /\ b.roll = panel.roll /\ b.sel = panel.sel /\ Of(b) = card /\ Completed(b)
  BY <1>2, <1>3, BankedIs DEF AtDraw
<1>5. InHand(b)  BY <1>2, <1>4 DEF InHand, HasBags, Decided, WonAll
<1>6. panel' = b /\ UNCHANGED <<cache, live>>  BY <1>1, <1>3, <1>4 DEF Becomes, Completed
<1> QED  BY <1>1, <1>4, <1>5, <1>6, TaleGoesOn

LEMMA TaleDraws ==
  ASSUME Grounds, TaleInv, Drawn PROVE TaleInv'
<1>1. /\ asking = "dealt" /\ asking' = "no" /\ UNCHANGED <<ruleset, slot, dealt, live, cache>>
  BY DEF Drawn, server
<1>2. Shaped(panel) /\ HasBags(panel) /\ AtDraw(panel)
  BY <1>1 DEF TaleInv, PanelTells, Asking
<1>3. PICK ch, o : ch = panel.chain /\ o = [card |-> card, before |-> panel.score, after |-> panel.score, tuttos |-> 0]
  OBVIOUS
<1>4. /\ DOMAIN ch = ChainFields /\ DoneTale(ch.cards, ch.outcomes, ch.tuttos, ch.pm, panel.score)
      /\ Last(ch.cards) \notin Closing /\ ch.ended = "banked" /\ ~panel.busted /\ ~panel.stopped /\ ~panel.summary.shown
  BY <1>2, <1>3 DEF Shaped, AtDraw, Completed, TellsDone, Of, Undecided
<1>5. card \in Cards  BY CardIsDealt
<1>6. PICK ds, q : ds = Append(ch.cards, card) /\ q = Append(ch.outcomes, o)  OBVIOUS
<1>7. OpenTale(ds, q, ch.tuttos, ch.pm, panel.score) /\ Last(ds) = card
  BY <1>3, <1>4, <1>5, <1>6, DrawnIsOpen
<1>8. q[Len(ds)] = o
  <2>1. ch.cards \in Seq(Cards) /\ ch.outcomes \in Seq(Outcomes) /\ Len(ch.outcomes) = Len(ch.cards)
    BY <1>4 DEF DoneTale, Linked
  <2> QED  BY <1>6, <2>1
<1>9. PICK nc : nc = [ch EXCEPT !.cards = ds, !.done = FALSE, !.outcomes = q,
                         !.ended = IF card = "Stop" THEN "stopCard" ELSE @,
                         !.forfeit = IF card = "Stop" THEN panel.score ELSE @]
  OBVIOUS
<1>10. /\ DOMAIN nc = ChainFields /\ nc.cards = ds /\ ~nc.done /\ nc.outcomes = q /\ nc.pm = ch.pm
       /\ nc.tuttos = ch.tuttos /\ nc.ended = IF card = "Stop" THEN "stopCard" ELSE "banked"
       /\ card = "Stop" => nc.forfeit = panel.score
  BY <1>4, <1>9 DEF ChainFields
<1>11. PICK p : p = panel'  OBVIOUS
<1>12. p = [panel EXCEPT !.kept = 0, !.roll = NoDice, !.sel = NoDice, !.progress = {}, !.reveal = card,
                    !.phase = IF card = "Stop" THEN "settled" ELSE "ready",
                    !.tuttos = IF card = "Kleeblatt" THEN 0 ELSE @, !.chain = nc]
  BY <1>3, <1>6, <1>9, <1>11 DEF Drawn
<1>13. /\ DOMAIN p = PanelFields /\ p.kept = 0 /\ p.roll = NoDice /\ p.sel = NoDice /\ p.reveal = card
       /\ p.phase = (IF card = "Stop" THEN "settled" ELSE "ready")
       /\ card = "Kleeblatt" => p.tuttos = 0
       /\ p.chain = nc /\ p.score = panel.score /\ p.busted = panel.busted /\ p.stopped = panel.stopped
       /\ p.summary = panel.summary
  BY <1>2, <1>12 DEF Shaped, PanelFields
<1>14. TellsOpen(p) /\ Of(p) = card /\ LastOf(p) = o
  BY <1>7, <1>8, <1>10, <1>13 DEF TellsOpen, Of, LastOf
<1>15. card # "none"  BY <1>5, TurnAssumption
<1>16. OnStop(p) \/ OnTable(p)
  BY <1>3, <1>10, <1>13, <1>14, <1>15 DEF OnStop, OnTable, FirstTutto
<1>17. InHand(p)
  BY <1>4, <1>10, <1>13, <1>14, <1>16, NoneIsZero DEF InHand, Shaped, HasBags, Playing, Undecided
<1> QED  BY <1>1, <1>11, <1>14, <1>17, TaleGoesOn

LEMMA TaleIsDismissed ==
  ASSUME TaleInv, AcknowledgeDrawnCard PROVE TaleInv'
<1>1. /\ panel # Closed /\ panel.reveal # "none" /\ UNCHANGED <<ruleset, slot, dealt, live, asking, cache>>
  BY DEF AcknowledgeDrawnCard, Closed, server
<1>2. asking = "no"  BY <1>1 DEF TaleInv, PanelTells, Asking, AtDraw
<1>3. InHand(panel) /\ Of(panel) = card  BY <1>1, <1>2 DEF TaleInv, PanelTells, CardShown
<1>4. Playing(panel)  BY <1>1, <1>3 DEF InHand, Decided
<1>5. PICK p : p = panel'  OBVIOUS
<1>6. p = [panel EXCEPT !.reveal = "none", !.summary = IF card = "Stop" THEN Summary(FALSE, 0, FALSE) ELSE @]
  BY <1>5 DEF AcknowledgeDrawnCard
<1>7. /\ DOMAIN p = PanelFields /\ p.reveal = "none" /\ p.phase = panel.phase /\ p.kept = panel.kept
      /\ p.roll = panel.roll /\ p.sel = panel.sel /\ p.chain = panel.chain /\ p.score = panel.score
      /\ p.busted = panel.busted /\ p.stopped = panel.stopped /\ p.tuttos = panel.tuttos
      /\ p.summary = IF card = "Stop" THEN Summary(FALSE, 0, FALSE) ELSE panel.summary
  BY <1>3, <1>6 DEF InHand, Shaped, PanelFields
<1>8. Shaped(p) /\ HasBags(p) /\ TellsOpen(p) /\ Of(p) = card
  BY <1>3, <1>4, <1>7 DEF InHand, Shaped, HasBags, Playing, TellsOpen, Of
<1>9. CASE card = "Stop"
  <2>1. OnStop(panel) /\ Undecided(panel)  BY <1>3, <1>4, <1>9 DEF Playing, OnTable
  <2>2. Lost(p) /\ p.summary.shown  BY <1>7, <1>9, <2>1 DEF Lost, Summary, OnStop
  <2>3. StoppedCold(p)  BY <1>7, <1>8, <1>9, <2>1, <2>2 DEF StoppedCold, OnStop, Undecided
  <2>4. InHand(p)  BY <1>7, <1>8, <2>1, <2>2, <2>3 DEF InHand, Decided, OnStop
  <2> QED  BY <1>1, <1>2, <1>5, <1>8, <2>4, TaleGoesOn
<1>10. CASE card # "Stop"
  <2>1. OnTable(panel) /\ panel.phase = "ready"  BY <1>1, <1>3, <1>4, <1>10 DEF Playing, OnStop, OnTable
  <2>2. OnTable(p) /\ Undecided(p)
    BY <1>4, <1>7, <1>8, <1>10, <2>1 DEF OnTable, Undecided, Playing, FirstTutto, LastOf, Of
  <2>3. InHand(p)  BY <1>4, <1>7, <1>8, <2>2 DEF InHand, Playing
  <2> QED  BY <1>1, <1>2, <1>5, <1>8, <2>3, TaleGoesOn
<1> QED  BY <1>9, <1>10

LEMMA TaleIsSent ==
  ASSUME TaleInv, SendSnapshot PROVE TaleInv'
<1>1. /\ panel # Closed /\ UNCHANGED <<ruleset, slot, dealt, panel, asking>> /\ Publish(panel)
      /\ dirty' = FALSE
  BY DEF SendSnapshot, TaleInv, server
<1>2. UNCHANGED <<card, CardShown>>  BY <1>1 DEF card, CardShown
<1>3. Of(panel) = CardShown /\ HasBags(panel) /\ (Playing(panel) \/ Decided(panel) \/ AtDraw(panel))
  BY <1>1 DEF TaleInv, PanelTells, InHand, Asking
<1>4. SnapTells(Snapshot(panel)) /\ Last(Snapshot(panel).cards) = CardShown  BY <1>3, SnapshotTells
<1>5. PanelTells'  BY <1>1, <1>2 DEF TaleInv, PanelTells, Asking
<1>6. live' \in {live, Snapshot(panel)}  BY <1>1 DEF Publish
<1>7. LiveTells'  BY <1>4, <1>6 DEF TaleInv, LiveTells
<1>8. cache'.snap = Snapshot(panel) /\ cache'.key[2] = CardShown  BY <1>1 DEF Publish, ShownKey, CardShown
<1>9. CacheTells'  BY <1>4, <1>8 DEF CacheTells
<1> QED  BY <1>1, <1>5, <1>7, <1>9 DEF TaleInv

-----------------------------------------------------------------------------
\* The end of a turn, and what may bring it back.

LEMMA TaleEnds ==
  ASSUME TaleInv, panel' = Closed, dirty' = FALSE, asking' = "no", cache' \in {cache, NoCache}, live' \in {live, NoSnap}
  PROVE  TaleInv'
BY DEF TaleInv, PanelTells, LiveTells, CacheTells

LEMMA TaleIsGone ==
  ASSUME TaleInv, Finish \/ StopTurn \/ Timeout \/ HostUndoes \/ HostRestarts PROVE TaleInv'
<1>1. panel' = Closed /\ dirty' = FALSE /\ asking' = "no"
  BY DEF Finish, StopTurn, Timeout, HostUndoes, HostRestarts, TurnGone, TaleInv
<1>2. cache' \in {cache, NoCache}  BY DEF Finish, StopTurn, Timeout, HostUndoes, HostRestarts, HostClears
<1>3. live' \in {live, NoSnap}  BY DEF Finish, StopTurn, Timeout, HostUndoes, HostRestarts, NextTurn
<1> QED  BY <1>1, <1>2, <1>3, TaleEnds

LEMMA TaleReloads ==
  ASSUME classic, Grounds, TaleInv, Reload PROVE TaleInv'
<1>1. asking' = "no" /\ dirty' = FALSE /\ UNCHANGED <<ruleset, slot, dealt>>  BY DEF Reload, server
<1>2. CASE live # NoSnap /\ Last(live.cards) = card
  <2>1. PICK p : p = Derived(live)  OBVIOUS
  <2>2. /\ panel' = p
        /\ IF p.busted THEN cache' = [key |-> TurnKey, snap |-> Snapshot(p)] /\ live' = Snapshot(p)
                       ELSE cache' = [key |-> TurnKey, snap |-> live] /\ live' = live
    BY <1>2, <2>1 DEF Reload
  <2>3. SnapTells(live)  BY <1>2 DEF TaleInv, LiveTells
  <2>4. InHand(p) /\ Of(p) = card  BY <1>2, <2>1, <2>3, ResumedTells
  <2>5. CASE p.busted  BY <1>1, <2>2, <2>4, <2>5, TaleGoesOn DEF TurnKey
  <2>6. CASE ~p.busted
    <3>1. cache'.snap = live /\ cache'.key[2] = card /\ live' = live  BY <2>2, <2>6 DEF TurnKey
    <3>2. CacheTells' /\ LiveTells'  BY <1>2, <2>3, <3>1 DEF CacheTells, LiveTells
    <3>3. card' = card  BY <1>1 DEF card
    <3>4. PanelTells'  BY <1>1, <2>2, <2>4, <3>3 DEF PanelTells, CardShown
    <3>5. p # Closed  BY <2>4, HeldIsOpen DEF InHand
    <3> QED  BY <1>1, <2>2, <3>2, <3>4, <3>5 DEF TaleInv
  <2> QED  BY <2>5, <2>6
<1>3. CASE ~(live # NoSnap /\ Last(live.cards) = card)
  <2>1. panel' = Closed /\ UNCHANGED <<cache, live>>  BY <1>3 DEF Reload
  <2> QED  BY <1>1, <2>1, TaleEnds
<1> QED  BY <1>2, <1>3

-----------------------------------------------------------------------------
\* The invariant of a turn in the modernized rules, which tell no tale: a turn
\* that is banked leaves nothing selected, and a Kleeblatt both its tuttos.

Spared(x, c) == x.stopped /\ ~x.busted => x.sel = NoDice /\ (c = "Kleeblatt" => x.kept = TotalDice /\ x.tuttos = 1)
PlainPanel(p, c) ==
  /\ DOMAIN p = PanelFields /\ c # "Stop" /\ p.tuttos \in {0, 1} /\ Spared(p, c)
  /\ p.summary.shown /\ ~p.summary.won => p.summary.score = 0
  /\ p.phase \in {"ready", "tumbling"} => ~p.summary.shown
  /\ p.stopped \/ p.busted => p.summary.shown
PlainSnap(s, c) == s.tuttos \in {0, 1} /\ Spared(s, c)

PlainInv ==
  /\ asking = "no"
  /\ dirty => panel # Closed
  /\ panel # Closed => PlainPanel(panel, card)
  /\ live # NoSnap => card # "Stop" /\ PlainSnap(live, card)
  /\ cache # NoCache => PlainSnap(cache.snap, cache.key[2])

LEMMA PlainSnapshot ==
  ASSUME NEW p, NEW c, PlainPanel(p, c) PROVE PlainSnap(Snapshot(p), c)
BY SnapshotIs DEF PlainPanel, PlainSnap, Spared

LEMMA PlainGoesOn ==
  ASSUME PlainInv, NEW p, PlainPanel(p, card), panel' = p, asking' = "no", UNCHANGED <<ruleset, slot, dealt>>,
         cache' \in {cache, NoCache, [key |-> <<slot, card>>, snap |-> Snapshot(p)]},
         live' \in {live, NoSnap, Snapshot(p)}
  PROVE  PlainInv'
<1>1. card' = card /\ card # "Stop"  BY DEF card, PlainPanel
<1>2. p # Closed  BY OpenIsNotClosed DEF PlainPanel
<1>3. PlainSnap(Snapshot(p), card)  BY PlainSnapshot
<1>4. live' # NoSnap => PlainSnap(live', card)  BY <1>3 DEF PlainInv
<1>5. cache' # NoCache => PlainSnap(cache'.snap, cache'.key[2])
  <2>1. CASE cache' = cache \/ cache' = NoCache  BY <2>1 DEF PlainInv
  <2>2. CASE cache' = [key |-> <<slot, card>>, snap |-> Snapshot(p)]
    <3>1. cache'.snap = Snapshot(p) /\ cache'.key[2] = card  BY <2>2
    <3> QED  BY <1>3, <3>1
  <2> QED  BY <2>1, <2>2
<1>6. PlainPanel(panel', card')  BY <1>1
<1> QED  BY <1>1, <1>2, <1>4, <1>5, <1>6 DEF PlainInv

LEMMA PlainBecomes ==
  ASSUME PlainInv, NEW p, PlainPanel(p, card), Becomes(p), UNCHANGED <<ruleset, slot, dealt, asking>>
  PROVE  PlainInv'
<1>1. /\ panel' = p /\ asking = "no"
      /\ cache' = cache \/ cache' = [key |-> <<slot, card>>, snap |-> Snapshot(p)]
      /\ live' = live \/ live' = Snapshot(p)
  BY DEF Becomes, Publish, ShownKey, PlainInv
<1> QED  BY <1>1, PlainGoesOn

LEMMA PlainThrow ==
  ASSUME PlainInv, UNCHANGED <<ruleset, slot, dealt, asking>>,
         NEW p, DOMAIN p = PanelFields, card # "Stop", p.tuttos \in {0, 1}, ~p.stopped, ~p.summary.shown,
         NEW n, Rolled(p, n)
  PROVE  PlainInv'
<1>1. PICK r \in Dice : Becomes([p EXCEPT !.phase = "tumbling", !.roll = r, !.sel = NoDice, !.busted = FALSE])
  BY DEF Rolled
<1>2. PICK q : q = [p EXCEPT !.phase = "tumbling", !.roll = r, !.sel = NoDice, !.busted = FALSE]  OBVIOUS
<1>3. /\ DOMAIN q = PanelFields /\ q.tuttos = p.tuttos /\ q.stopped = p.stopped /\ q.summary = p.summary
      /\ q.busted = FALSE
  BY <1>2 DEF PanelFields
<1>4. PlainPanel(q, card)  BY <1>3 DEF PlainPanel, Spared
<1> QED  BY <1>1, <1>2, <1>4, PlainBecomes

LEMMA PlainResumes ==
  ASSUME ~classic, NEW s, PlainSnap(s, card), card # "Stop"
  PROVE  PlainPanel(Derived(s), card) /\ (Derived(s).phase = "ready" => ~Derived(s).busted)
<1> DEFINE bust == s.busted \/ RollBusts(s)
           won == card = "Feuerwerk" /\ s.score > 0
           banked == ~bust /\ s.stopped
<1>1. PICK p : p = Derived(s)  OBVIOUS
<1>2. /\ DOMAIN p = PanelFields /\ p.kept = s.kept /\ p.tuttos = s.tuttos /\ p.sel = s.sel
      /\ p.busted = bust /\ p.stopped = banked
      /\ p.phase \in {"ready", "settled"} /\ (p.phase = "ready" => ~bust /\ ~banked)
      /\ p.summary = IF bust THEN Summary(won, IF won THEN s.score ELSE 0, FALSE)
                     ELSE IF banked THEN Summary(TRUE, s.score, s.kept = TotalDice) ELSE NoSummary
  BY <1>1 DEF Derived, PanelFields
<1>3. (p.summary.shown <=> bust \/ banked) /\ (p.summary.shown /\ ~p.summary.won => p.summary.score = 0)
  <2>1. CASE bust
    <3>1. p.summary = Summary(won, IF won THEN s.score ELSE 0, FALSE)  BY <1>2, <2>1
    <3>2. p.summary.shown /\ p.summary.won = won /\ p.summary.score = IF won THEN s.score ELSE 0
      BY <3>1 DEF Summary
    <3> QED  BY <2>1, <3>2
  <2>2. CASE ~bust  BY <1>2, <2>2 DEF Summary, NoSummary
  <2> QED  BY <2>1, <2>2
<1>4. Spared(p, card)  BY <1>2 DEF Spared, PlainSnap
<1> QED  BY <1>1, <1>2, <1>3, <1>4 DEF PlainPanel, PlainSnap

LEMMA PlainKept ==
  ASSUME ~classic, NEW p, DOMAIN p = PanelFields
  PROVE  LET k == Kept(p)
             m == Committed(p)
         IN /\ DOMAIN k = PanelFields /\ k.tuttos = p.tuttos /\ k.stopped = p.stopped /\ k.summary = p.summary
            /\ DOMAIN m = PanelFields /\ m.phase = p.phase /\ m.tuttos = p.tuttos /\ m.sel = NoDice
            /\ m.kept = p.kept + Count(p.sel)
<1>1. PICK k, m : k = Kept(p) /\ m = Committed(p)  OBVIOUS
<1>2. /\ DOMAIN k = PanelFields /\ k.tuttos = p.tuttos /\ k.stopped = p.stopped /\ k.summary = p.summary
      /\ k.phase = p.phase /\ k.sel = NoDice /\ k.kept = p.kept + Count(p.sel)
  BY <1>1 DEF Kept, PanelFields
<1>3. m = k \/ m = [k EXCEPT !.chain.done = TRUE]  BY <1>1 DEF Committed, Awarded
<1> QED  BY <1>1, <1>2, <1>3 DEF PanelFields

LEMMA PlainAtRest ==
  ASSUME PlainInv, AtRest(panel)
  PROVE  /\ DOMAIN panel = PanelFields /\ card # "Stop" /\ panel.tuttos \in {0, 1}
         /\ ~panel.stopped /\ ~panel.summary.shown /\ panel.phase = "settled"
<1>1. panel # Closed  BY DEF AtRest, Closed
<1> QED  BY <1>1 DEF AtRest, PlainInv, PlainPanel

LEMMA PlainLands ==
  ASSUME ~classic, PlainInv, Finalize PROVE PlainInv'
<1>1. panel # Closed /\ panel.phase = "tumbling" /\ UNCHANGED <<ruleset, slot, dealt, asking>>
  BY DEF Finalize, Closed, server
<1>2. PlainPanel(panel, card)  BY <1>1 DEF PlainInv
<1>3. PICK p : p = [panel EXCEPT !.phase = "settled"]  OBVIOUS
<1>4. /\ DOMAIN p = PanelFields /\ p.tuttos \in {0, 1} /\ ~p.stopped /\ ~p.summary.shown /\ ~p.busted
      /\ p.phase = "settled" /\ p.score = panel.score
  BY <1>1, <1>2, <1>3 DEF PlainPanel, PanelFields
<1>5. CASE Busts(p.roll, card, p.progress, ruleset)
  <2>1. PICK b, won, q :
          /\ b = BustChain(p) /\ won = (card = "Feuerwerk" /\ p.score > 0)
          /\ q = [p EXCEPT !.busted = TRUE, !.chain = b, !.summary = Summary(won, IF won THEN p.score ELSE 0, FALSE)]
    OBVIOUS
  <2>2. Becomes(q)  BY <1>3, <1>5, <2>1 DEF Finalize
  <2>3. /\ DOMAIN q = PanelFields /\ q.busted /\ q.phase = "settled" /\ q.tuttos = p.tuttos
        /\ q.summary = Summary(won, IF won THEN p.score ELSE 0, FALSE)
    BY <1>4, <2>1 DEF PanelFields
  <2>4. PlainPanel(q, card)  BY <1>2, <1>4, <2>3 DEF PlainPanel, Spared, Summary
  <2> QED  BY <1>1, <2>2, <2>4, PlainBecomes
<1>6. CASE ~Busts(p.roll, card, p.progress, ruleset)
  <2>1. Becomes(p)  BY <1>3, <1>6 DEF Finalize
  <2>2. PlainPanel(p, card)  BY <1>2, <1>4 DEF PlainPanel, Spared
  <2> QED  BY <1>1, <2>1, <2>2, PlainBecomes
<1> QED  BY <1>5, <1>6

LEMMA PlainActs ==
  ASSUME ~classic, PlainInv, Select \/ RollOn \/ RollSecondTutto \/ StopAndScore PROVE PlainInv'
<1>1. AtRest(panel) /\ UNCHANGED <<ruleset, slot, dealt, asking>>
  BY DEF Select, RollOn, RollSecondTutto, StopAndScore, CanAct, server
<1>2. /\ DOMAIN panel = PanelFields /\ card # "Stop" /\ panel.tuttos \in {0, 1}
      /\ ~panel.stopped /\ ~panel.summary.shown /\ panel.phase = "settled" /\ ~panel.busted
  BY <1>1, PlainAtRest DEF AtRest
<1>3. CASE Select
  <2>1. PICK k \in Dice : Becomes([panel EXCEPT !.sel = k])  BY <1>3 DEF Select
  <2>2. PICK q : q = [panel EXCEPT !.sel = k]  OBVIOUS
  <2>3. /\ DOMAIN q = PanelFields /\ q.tuttos = panel.tuttos /\ q.stopped = panel.stopped /\ q.summary = panel.summary
        /\ q.busted = panel.busted /\ q.phase = panel.phase
    BY <1>2, <2>2 DEF PanelFields
  <2>4. PlainPanel(q, card)  BY <1>2, <2>3 DEF PlainPanel, Spared
  <2> QED  BY <1>1, <2>1, <2>2, <2>4, PlainBecomes
<1>4. CASE RollOn \/ RollSecondTutto
  <2>1. PICK k : k = Kept(panel)  OBVIOUS
  <2>2. DOMAIN k = PanelFields /\ k.tuttos \in {0, 1} /\ ~k.stopped /\ ~k.summary.shown
    BY <1>2, <2>1, PlainKept
  <2>3. PICK q, n : Rolled(q, n) /\ q \in {k, [k EXCEPT !.kept = 0], [k EXCEPT !.kept = 0, !.tuttos = 1]}
    BY <1>4, <2>1 DEF RollOn, RollSecondTutto
  <2>4. DOMAIN q = PanelFields /\ q.tuttos \in {0, 1} /\ ~q.stopped /\ ~q.summary.shown
    BY <2>2, <2>3 DEF PanelFields
  <2> QED  BY <1>1, <1>2, <2>3, <2>4, PlainThrow
<1>5. CASE StopAndScore
  <2>1. PICK m, b : m = Committed(panel) /\ b = Banked(m)  OBVIOUS
  <2>2. /\ DOMAIN m = PanelFields /\ m.phase = "settled" /\ m.tuttos = panel.tuttos /\ m.sel = NoDice
        /\ m.kept = panel.kept + Count(panel.sel)
    BY <1>2, <2>1, PlainKept
  <2>3. /\ DOMAIN b = PanelFields /\ b.phase = "settled" /\ b.tuttos = m.tuttos /\ b.sel = NoDice /\ b.kept = m.kept
        /\ b.summary = Summary(TRUE, m.score, m.kept = TotalDice)
    BY <2>1, <2>2 DEF Banked, PanelFields
  <2>4. card = "Kleeblatt" => MakesTutto(panel) /\ panel.tuttos = 1
    BY <1>2, <1>5 DEF StopAndScore, CanStop, Special, FirstOfTwo
  <2>5. Spared(b, card)  BY <2>2, <2>3, <2>4 DEF Spared, MakesTutto
  <2>6. PlainPanel(b, card)  BY <1>2, <2>2, <2>3, <2>5 DEF PlainPanel, Summary
  <2>7. Becomes(b)  BY <1>5, <2>1 DEF StopAndScore
  <2> QED  BY <1>1, <2>6, <2>7, PlainBecomes
<1> QED  BY <1>3, <1>4, <1>5

LEMMA PlainSteps ==
  ASSUME ~classic, Grounds, PlainInv, Next PROVE PlainInv'
<1>1. CASE Open
  <2>1. panel = Closed /\ card # "Stop" /\ asking = "no" /\ UNCHANGED <<ruleset, slot, dealt, asking>>
    BY <1>1 DEF Open, PlainInv
  <2>2. CASE cache.key = TurnKey
    <3>1. cache.key[1] = slot /\ cache.key[2] = card  BY <2>2 DEF TurnKey
    <3>2. cache # NoCache  BY <3>1 DEF NoCache, Grounds
    <3>3. PICK p : p = Derived(cache.snap)  OBVIOUS
    <3>4. PlainPanel(p, card)  BY <2>1, <3>1, <3>2, <3>3, PlainResumes DEF PlainInv
    <3>5. Becomes(p) \/ (panel' = p /\ cache' = cache /\ live' = live)  BY <1>1, <2>2, <3>3 DEF Open
    <3> QED  BY <2>1, <3>4, <3>5, PlainBecomes, PlainGoesOn
  <2>3. CASE cache.key # TurnKey
    <3>1. PICK p : p = FreshPanel(card)  OBVIOUS
    <3>2. panel' = p /\ cache' = NoCache /\ live' = live  BY <1>1, <2>3, <3>1 DEF Open
    <3>3. PlainPanel(p, card)  BY <2>1, <3>1 DEF FreshPanel, NoSummary, PlainPanel, PanelFields, Spared
    <3> QED  BY <2>1, <3>2, <3>3, PlainGoesOn
  <2> QED  BY <2>2, <2>3
<1>2. CASE OpeningRoll
  <2>1. panel # Closed /\ panel.phase = "ready" /\ UNCHANGED <<ruleset, slot, dealt, asking>> /\ Rolled(panel, TotalDice)
    BY <1>2 DEF OpeningRoll, Closed, server
  <2>2. PlainPanel(panel, card)  BY <2>1 DEF PlainInv
  <2> QED  BY <2>1, <2>2, PlainThrow DEF PlainPanel
<1>3. CASE Finalize  BY <1>3, PlainLands
<1>4. CASE Select \/ RollOn \/ RollSecondTutto \/ StopAndScore  BY <1>4, PlainActs
<1>5. CASE AcknowledgeDrawnCard
  <2>1. panel # Closed /\ asking = "no" /\ UNCHANGED <<ruleset, slot, dealt, asking, cache, live>>
    BY <1>5 DEF AcknowledgeDrawnCard, Closed, server, PlainInv
  <2>2. PlainPanel(panel, card)  BY <2>1 DEF PlainInv
  <2>3. PICK p : p = panel'  OBVIOUS
  <2>4. p = [panel EXCEPT !.reveal = "none"]  BY <1>5, <2>2, <2>3 DEF AcknowledgeDrawnCard, PlainPanel, PanelFields
  <2>5. PlainPanel(p, card)  BY <2>2, <2>4 DEF PlainPanel, PanelFields, Spared
  <2> QED  BY <2>1, <2>3, <2>5, PlainGoesOn
<1>6. CASE SendSnapshot
  <2>1. panel # Closed /\ asking = "no" /\ UNCHANGED <<ruleset, slot, dealt, panel, asking>> /\ Publish(panel)
    BY <1>6 DEF SendSnapshot, PlainInv, server
  <2>2. PICK p : p = panel  OBVIOUS
  <2>3. PlainPanel(p, card)  BY <2>1, <2>2 DEF PlainInv
  <2>4. panel' = p /\ asking' = "no" /\ cache' = [key |-> <<slot, card>>, snap |-> Snapshot(p)] /\ live' = Snapshot(p)
    BY <2>1, <2>2 DEF Publish, ShownKey
  <2> QED  BY <2>1, <2>3, <2>4, PlainGoesOn
<1>7. CASE Finish \/ StopTurn \/ Timeout \/ HostUndoes \/ HostRestarts
  <2>1. panel' = Closed /\ ~dirty' /\ asking' = "no"
    BY <1>7 DEF Finish, StopTurn, Timeout, HostUndoes, HostRestarts, TurnGone, PlainInv
  <2>2. cache' \in {cache, NoCache}  BY <1>7 DEF Finish, StopTurn, Timeout, HostUndoes, HostRestarts, HostClears
  <2>3. live' = NoSnap \/ (live' = live /\ dealt' = dealt)
    BY <1>7 DEF Finish, StopTurn, Timeout, HostUndoes, HostRestarts, NextTurn
  <2> QED  BY <2>1, <2>2, <2>3 DEF PlainInv, card
<1>8. CASE Reload
  <2>1. asking' = "no" /\ dirty' = FALSE /\ UNCHANGED <<ruleset, slot, dealt>>  BY <1>8 DEF Reload, server
  <2>2. CASE live # NoSnap
    <3>1. PICK p : p = Derived(live)  OBVIOUS
    <3>2. /\ panel' = p
          /\ IF p.busted THEN cache' = [key |-> TurnKey, snap |-> Snapshot(p)] /\ live' = Snapshot(p)
                         ELSE cache' = [key |-> TurnKey, snap |-> live] /\ live' = live
      BY <1>8, <2>2, <3>1 DEF Reload
    <3>3. card # "Stop" /\ PlainSnap(live, card)  BY <2>2 DEF PlainInv
    <3>4. PlainPanel(p, card)  BY <3>1, <3>3, PlainResumes
    <3>5. CASE p.busted  BY <2>1, <3>2, <3>4, <3>5, PlainGoesOn DEF TurnKey
    <3>6. CASE ~p.busted
      <4>1. cache'.snap = live /\ cache'.key[2] = card /\ live' = live /\ card' = card
        BY <2>1, <3>2, <3>6 DEF TurnKey, card
      <4> QED  BY <2>1, <3>2, <3>3, <3>4, <4>1 DEF PlainInv
    <3> QED  BY <3>5, <3>6
  <2>3. CASE live = NoSnap
    <3>1. panel' = Closed /\ UNCHANGED <<cache, live>>  BY <1>8, <2>3 DEF Reload
    <3> QED  BY <2>1, <3>1 DEF PlainInv, card
  <2> QED  BY <2>2, <2>3
<1>9. ~(DrawCard \/ Deal \/ DrawRefused \/ Drawn)
  BY DEF DrawCard, CanDraw, Deal, DrawRefused, Drawn, PlainInv
<1> QED  BY <1>1, <1>2, <1>3, <1>4, <1>5, <1>6, <1>7, <1>8, <1>9 DEF Next, PanelStep, RoomStep

-----------------------------------------------------------------------------
\* The turn as a whole.

TurnInv == Grounds /\ (classic => TaleInv) /\ (~classic => PlainInv)

LEMMA OpenedOn == ASSUME NEW c \in Cards PROVE <<c>> \in Seq(Cards) /\ <<c>> # <<>>
OBVIOUS

LEMMA NextIsGrounded == ASSUME Grounds, NextTurn PROVE Grounds'
<1>1. turn' = turn + 1 /\ slot' = turn + 1 /\ former' = <<slot, dealt[1]>>  BY DEF NextTurn
<1>2. PICK c \in Cards : dealt' = <<c>>  BY DEF NextTurn
<1>3. dealt[1] \in Cards /\ slot # 0 /\ turn \in Nat  BY DEF Grounds
<1>4. former'[1] = slot /\ former'[2] = dealt[1]  BY <1>1
<1>5. turn + 1 \in Nat /\ turn + 1 # 0  BY <1>3
<1> QED  BY <1>1, <1>2, <1>3, <1>4, <1>5, OpenedOn DEF Grounds

LEMMA GroundsHold ==
  ASSUME Grounds, [Next]_vars PROVE Grounds' /\ ruleset' = ruleset
<1>1. CASE UNCHANGED <<ruleset, turn, slot, dealt, former>>  BY <1>1 DEF Grounds
<1>2. CASE Open
  <2>1. UNCHANGED <<ruleset, turn, slot, dealt>> /\ former' = <<>>  BY <1>2 DEF Open
  <2> QED  BY <2>1 DEF Grounds
<1>3. CASE Deal
  <2>1. UNCHANGED <<ruleset, turn, slot, former>>  BY <1>3 DEF Deal
  <2>2. PICK c \in Cards : dealt' = Append(dealt, c)  BY <1>3 DEF Deal
  <2>3. dealt' \in Seq(Cards) /\ dealt' # <<>>  BY <2>2 DEF Grounds
  <2> QED  BY <2>1, <2>3 DEF Grounds
<1>4. CASE NextTurn /\ ruleset' = ruleset  BY <1>4, NextIsGrounded
<1>5. CASE HostUndoes
  <2>1. /\ turn' = turn + 1 /\ slot' = former[1] /\ dealt' = <<former[2]>> /\ former' = <<>> /\ former # <<>>
        /\ ruleset' = ruleset
    BY <1>5 DEF HostUndoes
  <2>2. former[1] # 0 /\ former[2] \in Cards /\ turn + 1 \in Nat  BY <2>1 DEF Grounds
  <2> QED  BY <2>1, <2>2, OpenedOn DEF Grounds
<1>6. CASE HostRestarts
  <2>1. turn' = turn + 1 /\ slot' = 1 /\ former' = <<>> /\ ruleset' = ruleset  BY <1>6 DEF HostRestarts, FirstSlot
  <2>2. PICK c \in Cards : dealt' = <<c>>  BY <1>6 DEF HostRestarts
  <2>3. turn + 1 \in Nat  BY DEF Grounds
  <2> QED  BY <2>1, <2>2, <2>3, OpenedOn DEF Grounds
<1>7. Finish \/ StopTurn \/ Timeout =>
        (NextTurn /\ ruleset' = ruleset) \/ UNCHANGED <<ruleset, turn, slot, dealt, former>>
  BY DEF Finish, StopTurn, Timeout
<1>8. OpeningRoll \/ Finalize \/ Select \/ RollOn \/ RollSecondTutto \/ StopAndScore \/ DrawCard \/ DrawRefused \/ Drawn
      \/ AcknowledgeDrawnCard \/ SendSnapshot \/ Reload => UNCHANGED <<ruleset, turn, slot, dealt, former>>
  BY DEF OpeningRoll, Finalize, Select, RollOn, RollSecondTutto, StopAndScore, DrawCard, DrawRefused, Drawn,
         AcknowledgeDrawnCard, SendSnapshot, Reload, server
<1>9. UNCHANGED vars => UNCHANGED <<ruleset, turn, slot, dealt, former>>  BY DEF vars
<1> QED  BY <1>1, <1>2, <1>3, <1>4, <1>5, <1>6, <1>7, <1>8, <1>9 DEF Next, PanelStep, RoomStep

LEMMA TaleHolds ==
  ASSUME Grounds, classic, TaleInv, [Next]_vars PROVE TaleInv'
<1>1. CASE UNCHANGED vars
  BY <1>1 DEF vars, TaleInv, PanelTells, LiveTells, CacheTells, CardShown, Asking, card
<1>2. CASE Open  BY <1>2, TaleOpens
<1>3. CASE OpeningRoll  BY <1>3, TaleTumbles
<1>4. CASE Finalize  BY <1>4, TaleLands
<1>5. CASE Select  BY <1>5, TaleSelects
<1>6. CASE RollOn \/ RollSecondTutto  BY <1>6, TaleRolls
<1>7. CASE StopAndScore  BY <1>7, TaleStops
<1>8. CASE DrawCard  BY <1>8, TaleAsks
<1>9. CASE Deal  BY <1>9, TaleDeals
<1>10. CASE DrawRefused  BY <1>10, TaleIsRefused
<1>11. CASE Drawn  BY <1>11, TaleDraws
<1>12. CASE AcknowledgeDrawnCard  BY <1>12, TaleIsDismissed
<1>13. CASE SendSnapshot  BY <1>13, TaleIsSent
<1>14. CASE Finish \/ StopTurn \/ Timeout \/ HostUndoes \/ HostRestarts  BY <1>14, TaleIsGone
<1>15. CASE Reload  BY <1>15, TaleReloads
<1> QED  BY <1>1, <1>2, <1>3, <1>4, <1>5, <1>6, <1>7, <1>8, <1>9, <1>10, <1>11, <1>12, <1>13, <1>14, <1>15
         DEF Next, PanelStep, RoomStep

LEMMA TurnGoesOn == ASSUME TurnInv, [Next]_vars PROVE TurnInv'
<1>1. Grounds' /\ ruleset' = ruleset  BY GroundsHold DEF TurnInv
<1>2. classic' <=> classic  BY <1>1 DEF classic
<1>3. classic => TaleInv'  BY TaleHolds DEF TurnInv
<1>4. ~classic => PlainInv'
  <2>1. CASE Next  BY <2>1, PlainSteps DEF TurnInv
  <2>2. CASE UNCHANGED vars  BY <2>2 DEF vars, TurnInv, PlainInv, card
  <2> QED  BY <2>1, <2>2
<1> QED  BY <1>1, <1>2, <1>3, <1>4 DEF TurnInv

LEMMA TurnStarts == ASSUME Init PROVE TurnInv
<1>1. turn = 1 /\ slot = 1 /\ former = <<>> /\ panel = Closed /\ live = NoSnap /\ cache = NoCache /\ asking = "no"
      /\ dirty = FALSE
  BY DEF Init, FirstSlot
<1>2. PICK c \in Cards : dealt = <<c>>  BY DEF Init
<1>3. Grounds  BY <1>1, <1>2, OpenedOn DEF Grounds
<1> QED  BY <1>1, <1>3 DEF TurnInv, TaleInv, PanelTells, LiveTells, CacheTells, PlainInv

\* The panel, the room's snapshot and the device's cache each tell the tale of a
\* chain that can have been played (in the modernized rules, of one card), in
\* every turn of every game: recordCurrentOutcome, the chain's reducer,
\* buildDiceSnapshot and deriveRestoredTurn.
THEOREM ChainsAreTold == Spec => []TurnInv
<1>1. Init => TurnInv  BY TurnStarts
<1>2. TurnInv /\ [Next]_vars => TurnInv'  BY TurnGoesOn
<1> QED  BY <1>1, <1>2, PTL DEF Spec

-----------------------------------------------------------------------------
\* What the server makes of a tale.

LEMMA StepIsOpen ==
  ASSUME NEW o, NEW b, o.before = b, LegalOpen(o) PROVE StepIsLegal(o, b, FALSE)
BY DEF LegalOpen

LEMMA StepIsDone ==
  ASSUME NEW o, NEW b, o.before = b, LegalDone(o) PROVE StepIsLegal(o, b, TRUE)
BY DEF LegalDone

\* A tale of the cards dealt, told to the end its claim gives, can have been played.
LEMMA TaleIsCanonical ==
  ASSUME Grounds, NEW claim, NEW total, NEW score, NEW success \in BOOLEAN, NEW timeout \in BOOLEAN,
         claim.cards = dealt,
         IF claim.done THEN DoneTale(claim.cards, claim.outcomes, claim.tuttos, claim.pm, total)
                       ELSE OpenTale(claim.cards, claim.outcomes, claim.tuttos, claim.pm, total),
         success /\ card \in Special => claim.done,
         ~timeout => success = (claim.ended = "banked") /\ claim.ended # "timeout",
         card = "Stop" <=> claim.ended = "stopCard",
         success /\ card # "Kleeblatt" => score = total,
         ~success => score = 0 /\ claim.forfeit = total
  PROVE  Canonical(claim, score, success, timeout)
<1>1. PICK n, outs : n = Len(dealt) /\ outs = claim.outcomes  OBVIOUS
<1>2. Linked(dealt, outs) /\ outs[n].after = total  BY <1>1 DEF DoneTale, OpenTale
<1>3. n \in Nat /\ n # 0 /\ outs \in Seq(Outcomes) /\ dealt \in Seq(Cards) /\ Len(outs) = n
  BY <1>1, <1>2 DEF Linked
<1>4. [i \in DOMAIN outs |-> outs[i].card] = dealt
  <2>1. \A i \in 1..n : outs[i].card = dealt[i]  BY <1>1, <1>2 DEF Linked
  <2>2. DOMAIN outs = 1..n /\ DOMAIN dealt = 1..n  BY <1>1, <1>3
  <2>3. dealt = [i \in DOMAIN dealt |-> dealt[i]]  BY <1>3
  <2> QED  BY <2>1, <2>2, <2>3
<1>5. \A i \in 1..(n - 1) : dealt[i] \notin {"Stop", "Kleeblatt", "Feuerwerk"}
  BY <1>1, <1>2 DEF Linked, Closing
<1>6. ASSUME NEW i \in 1..n
      PROVE  StepIsLegal(outs[i], IF i = 1 THEN 0 ELSE outs[i - 1].after, i < n \/ claim.done)
  <2>1. PICK b : b = IF i = 1 THEN 0 ELSE outs[i - 1].after  OBVIOUS
  <2>2. outs[i].before = b  BY <1>1, <1>2, <2>1 DEF Linked
  <2>3. CASE i < n \/ claim.done
    <3>1. LegalDone(outs[i])
      <4>1. i < n => i \in 1..(n - 1)  BY <1>3
      <4>2. i < n => LegalDone(outs[i])  BY <1>1, <1>2, <4>1 DEF Linked
      <4>3. claim.done => LegalDone(outs[n])  BY <1>1 DEF DoneTale
      <4>4. i < n \/ i = n  BY <1>3
      <4> QED  BY <2>3, <4>2, <4>3, <4>4
    <3>2. StepIsLegal(outs[i], b, TRUE)  BY <2>2, <3>1, StepIsDone
    <3>3. (i < n \/ claim.done) = TRUE  BY <2>3
    <3> QED  BY <2>1, <3>2, <3>3 DEF StepIsLegal
  <2>4. CASE ~(i < n \/ claim.done)
    <3>1. i = n  BY <1>3, <2>4
    <3>2. LegalOpen(outs[i])  BY <1>1, <2>4, <3>1 DEF OpenTale
    <3>3. StepIsLegal(outs[i], b, FALSE)  BY <2>2, <3>2, StepIsOpen
    <3>4. (i < n \/ claim.done) = FALSE  BY <2>4
    <3> QED  BY <2>1, <3>3, <3>4 DEF StepIsLegal
  <2> QED  BY <2>3, <2>4
<1>7. claim.tuttos = Counted(outs)[n].tuttos  BY <1>1 DEF DoneTale, OpenTale
<1>8. claim.pm = Counted(outs)[IF claim.done THEN n ELSE n - 1].pm  BY <1>1 DEF DoneTale, OpenTale
<1> QED  BY <1>1, <1>2, <1>4, <1>5, <1>6, <1>7, <1>8 DEF Canonical

LEMMA DecidedIsCanonical ==
  ASSUME Grounds, NEW p, InHand(p), Of(p) = card, p.chain.cards = dealt, p.summary.shown
  PROVE  Canonical(p.chain, p.summary.score, p.summary.won, FALSE)
<1>1. Decided(p)  BY DEF InHand, Playing, Undecided
<1>2. PICK ch, won, total : ch = p.chain /\ won = p.summary.won /\ total = p.score  OBVIOUS
<1>3. (TellsOpen(p) => ~ch.done) /\ (TellsDone(p) => ch.done)  BY <1>2 DEF TellsOpen, TellsDone
<1>4. TellsOpen(p) => OpenTale(ch.cards, ch.outcomes, ch.tuttos, ch.pm, total)  BY <1>2 DEF TellsOpen
<1>5. TellsDone(p) => DoneTale(ch.cards, ch.outcomes, ch.tuttos, ch.pm, total)  BY <1>2 DEF TellsDone
<1>6. TellsDone(p) => card # "Stop"  BY DoneIsNotStop DEF TellsDone, Of
<1>7. /\ won \in BOOLEAN /\ (TellsOpen(p) \/ TellsDone(p))
      /\ won = (ch.ended = "banked") /\ ch.ended # "timeout"
      /\ won => p.summary.score = total
      /\ ~won => p.summary.score = 0 /\ ch.forfeit = total
      /\ won /\ card \in Special => ch.done
      /\ card = "Stop" <=> ch.ended = "stopCard"
  <2>1. CASE WonAll(p)
    <3>1. TellsDone(p) /\ ch.ended = "banked" /\ won = TRUE /\ p.summary.score = total
      BY <1>2, <2>1 DEF WonAll, Completed, Said
    <3> QED  BY <1>3, <1>6, <3>1
  <2>2. CASE FiredOut(p)
    <3>1. TellsDone(p) /\ ch.ended = "banked" /\ won = TRUE /\ p.summary.score = total
      BY <1>2, <2>2 DEF FiredOut, Said
    <3> QED  BY <1>3, <1>6, <3>1
  <2>3. CASE Nulled(p)
    <3>1. TellsOpen(p) /\ ch.ended = "null" /\ won = FALSE /\ p.summary.score = 0 /\ ch.forfeit = total /\ card # "Stop"
      BY <1>2, <2>3 DEF Nulled, Lost
    <3> QED  BY <3>1
  <2>4. CASE StoppedCold(p)
    <3>1. /\ TellsOpen(p) /\ ch.ended = "stopCard" /\ won = FALSE /\ p.summary.score = 0 /\ ch.forfeit = total
          /\ card = "Stop"
      BY <1>2, <2>4 DEF StoppedCold, Lost
    <3> QED  BY <3>1
  <2>5. CASE BankedPart(p)
    <3>1. /\ TellsOpen(p) /\ ch.ended = "banked" /\ won = TRUE /\ p.summary.score = total
          /\ card \notin Special \cup {"Stop"}
      BY <1>2, <2>5 DEF BankedPart, Said
    <3> QED  BY <3>1
  <2> QED  BY <1>1, <2>1, <2>2, <2>3, <2>4, <2>5 DEF Decided
<1>8. IF ch.done THEN DoneTale(ch.cards, ch.outcomes, ch.tuttos, ch.pm, total)
                 ELSE OpenTale(ch.cards, ch.outcomes, ch.tuttos, ch.pm, total)
  BY <1>3, <1>4, <1>5, <1>7
<1>9. PICK score : score = p.summary.score  OBVIOUS
<1>10. Canonical(ch, score, won, FALSE)
  <2>1. ch.cards = dealt  BY <1>2
  <2>2. /\ won => score = total
        /\ ~won => score = 0 /\ ch.forfeit = total
    BY <1>7, <1>9
  <2> QED  BY <1>7, <1>8, <2>1, <2>2, TaleIsCanonical
<1> QED  BY <1>2, <1>9, <1>10

LEMMA DecidedIsAccepted == ASSUME TurnInv PROVE CommitsAreAccepted
<1> SUFFICES ASSUME panel # Closed, panel.summary.shown, classic => panel.chain.cards = dealt
             PROVE  Accepts(panel.chain, panel.summary.score, panel.summary.won)
  BY DEF CommitsAreAccepted
<1>1. CASE classic
  <2>1. InHand(panel) /\ Of(panel) = card
    <3>1. asking = "no"  BY <1>1 DEF TurnInv, TaleInv, PanelTells, Asking, AtDraw, Undecided
    <3> QED  BY <1>1, <3>1 DEF TurnInv, TaleInv, PanelTells, CardShown
  <2>2. Canonical(panel.chain, panel.summary.score, panel.summary.won, FALSE)
    BY <1>1, <2>1, DecidedIsCanonical DEF TurnInv
  <2>3. Decided(panel)  BY <2>1 DEF InHand, Playing, Undecided
  <2>4. (panel.summary.won = FALSE /\ panel.summary.score = 0) \/ (panel.summary.won = TRUE /\ card # "Stop")
    <3>1. CASE WonAll(panel) \/ FiredOut(panel)
      <4>1. TellsDone(panel)  BY <3>1 DEF WonAll, FiredOut, Completed
      <4>2. card # "Stop"  BY <2>1, <4>1, DoneIsNotStop DEF TellsDone, Of
      <4> QED  BY <3>1, <4>2 DEF WonAll, FiredOut, Said
    <3>2. CASE Nulled(panel) \/ StoppedCold(panel)  BY <3>2 DEF Nulled, StoppedCold, Lost
    <3>3. CASE BankedPart(panel)  BY <2>1, <3>3 DEF BankedPart, Said
    <3> QED  BY <2>3, <3>1, <3>2, <3>3 DEF Decided
  <2> QED  BY <2>2, <2>4 DEF Accepts
<1>2. CASE ~classic
  <2>1. card # "Stop" /\ (~panel.summary.won => panel.summary.score = 0)
    BY <1>2 DEF TurnInv, PlainInv, PlainPanel
  <2> QED  BY <1>2, <2>1 DEF Accepts
<1> QED  BY <1>1, <1>2

\* The commit of a decided turn whose panel knows every card dealt is accepted:
\* what the panel's reducer adds up, canonicalTurnSummary and
\* applyOnlineGameAction find in order, whatever was rolled, drawn and resumed.
THEOREM DecidedTurnsAreAccepted == Spec => []CommitsAreAccepted
<1>1. TurnInv => CommitsAreAccepted  BY DecidedIsAccepted
<1> QED  BY <1>1, ChainsAreTold, PTL

-----------------------------------------------------------------------------
\* The clock's reading of a snapshot, and the panel's.

\* Every card before the last brought one tutto.
LEMMA CountedOnTheWay ==
  ASSUME NEW cards, NEW outs, Linked(cards, outs) PROVE Counted(outs)[Len(cards) - 1].tuttos = Len(cards) - 1
<1>1. PICK f, n : f = Counted(outs) /\ n = Len(cards)  OBVIOUS
<1>2. n \in Nat /\ n # 0 /\ Len(outs) = n /\ outs \in Seq(Outcomes)  BY <1>1 DEF Linked
<1> DEFINE T == {i \in Nat : f[i].tuttos = i}
<1>3. 0 \in T  BY <1>1, <1>2, CountedAt DEF Nothing
<1>4. ASSUME NEW i \in 1..(n - 1), i - 1 \in T PROVE i \in T
  <2>1. i \in 1..Len(outs) /\ i \in 1..Len(cards)  BY <1>1, <1>2
  <2>2. f[i] = Tallied(f[i - 1], outs[i])  BY <1>1, <1>2, <2>1, CountedAt
  <2>3. f[i].tuttos = (i - 1) + outs[i].tuttos  BY <1>4, <2>2 DEF Tallied
  <2>4. PICK o : o = outs[i]  OBVIOUS
  <2>5. o \in Outcomes /\ LegalDone(o) /\ o.card \notin Closing
    BY <1>1, <1>2, <2>1, <2>4 DEF Linked
  <2>6. o.tuttos = 1  BY <2>5, LegalDoneIs
  <2>7. f[i].tuttos = i  BY <2>3, <2>4, <2>6
  <2> QED  BY <2>7
<1>5. n - 1 \in T
  <2> HIDE DEF T
  <2>1. n - 1 \in Nat  BY <1>2
  <2>2. \A i \in 0..(n - 1) : i \in T  BY <1>3, <1>4, <2>1, UpTo
  <2> QED  BY <2>1, <2>2
<1> QED  BY <1>1, <1>5

\* The five verdicts a panel reads in a snapshot of the classic rules, and what
\* each says of the dice put aside.
LEMMA VerdictIs ==
  ASSUME classic, NEW s, SnapTells(s), Last(s.cards) = card, Derived(s).summary.shown
  PROVE  LET bust == s.busted \/ RollBusts(s)
             won == card = "Feuerwerk" /\ s.score > 0
             p == Derived(s)
         IN \/ /\ bust /\ won /\ SnapDone(s) /\ (~s.busted => Aside(s) # TotalDice)
               /\ p.chain.done = TRUE /\ p.chain.ended = "banked" /\ p.summary.won = TRUE
            \/ /\ bust /\ ~won /\ SnapOpen(s) /\ card # "Stop"
               /\ ~s.busted => Aside(s) # TotalDice /\ ~s.stopped /\ s.roll # NoDice
               /\ p.chain.done = FALSE /\ p.chain.ended = "null" /\ p.summary.won = FALSE
            \/ /\ ~bust /\ Aside(s) = TotalDice /\ s.kept = TotalDice /\ SnapDone(s) /\ card # "Stop"
               /\ card = "Kleeblatt" => s.tuttos = 1
               /\ p.chain.done = TRUE /\ p.chain.ended = "banked" /\ p.summary.won = TRUE
            \/ /\ ~bust /\ Aside(s) # TotalDice /\ SnapOpen(s) /\ card = "Stop"
               /\ p.chain.done = FALSE /\ p.chain.ended = "stopCard"
            \/ /\ ~bust /\ Aside(s) # TotalDice /\ SnapOpen(s) /\ s.stopped /\ card \notin Special \cup {"Stop"}
               /\ p.chain.done = FALSE /\ p.chain.ended = "banked"
<1> DEFINE bust == s.busted \/ RollBusts(s)
           won == card = "Feuerwerk" /\ s.score > 0
           tutto == ~bust /\ s.kept = TotalDice
           stop == ~bust /\ ~tutto /\ card = "Stop"
           banked == ~bust /\ ~tutto /\ ~stop /\ s.stopped
<1>1. PICK p : p = Derived(s)  OBVIOUS
<1>2. p.summary = CASE bust -> Summary(won, IF won THEN s.score ELSE 0, FALSE)
                    [] tutto -> Summary(TRUE, s.score, TRUE)
                    [] stop -> Summary(FALSE, 0, FALSE)
                    [] banked -> Summary(TRUE, s.score, s.kept = TotalDice)
                    [] OTHER -> NoSummary
  BY <1>1 DEF Derived
<1>3. /\ p.chain.done = (tutto \/ (bust /\ won))
      /\ p.chain.ended = (IF stop THEN "stopCard" ELSE IF bust /\ ~won THEN "null" ELSE "banked")
  BY <1>1 DEF Derived
<1>4. RollBusts(s) => ~s.busted /\ ~s.stopped /\ s.rolling /\ s.roll # NoDice  BY DEF RollBusts, Unresolved
<1>5. s.sel = NoDice => Aside(s) = s.kept
  <2>1. s.kept \in Nat  BY DEF SnapTells, HasBags
  <2> QED  BY <2>1, CountOfNothing DEF Aside
<1>6. CASE bust
  <2>1. SnapOpen(s) /\ card # "Stop"  BY <1>4, <1>6 DEF SnapTells, SnapBusted, SnapCompleted, SnapInPlay
  <2>2. ~s.busted => Aside(s) # TotalDice /\ ~s.stopped /\ s.roll # NoDice
    <3>1. SUFFICES ASSUME ~s.busted PROVE Aside(s) # TotalDice /\ ~s.stopped /\ s.roll # NoDice  OBVIOUS
    <3>2. s.rolling /\ ~s.stopped /\ s.roll # NoDice  BY <1>4, <1>6, <3>1
    <3>3. s.sel = NoDice /\ s.kept # TotalDice
      BY <3>1, <3>2 DEF SnapTells, SnapBusted, SnapCompleted, SnapInPlay
    <3> QED  BY <1>5, <3>2, <3>3
  <2>3. CASE won
    <3>1. p.chain.done = TRUE /\ p.chain.ended = "banked"  BY <1>3, <1>6, <2>3
    <3>2. p.summary.won = TRUE
      <4>1. p.summary = Summary(TRUE, s.score, FALSE)  BY <1>2, <1>6, <2>3
      <4> QED  BY <4>1 DEF Summary
    <3>4. SnapDone(s)  BY <2>1, <2>3, FireworksAreDone DEF SnapOpen, SnapDone
    <3> QED  BY <1>1, <1>6, <2>2, <2>3, <3>1, <3>2, <3>4
  <2>4. CASE ~won
    <3>1. p.chain.done = FALSE /\ p.chain.ended = "null"  BY <1>3, <1>6, <2>4
    <3>2. p.summary.won = FALSE
      <4>1. p.summary = Summary(FALSE, 0, FALSE)  BY <1>2, <1>6, <2>4
      <4> QED  BY <4>1 DEF Summary
    <3> QED  BY <1>1, <1>6, <2>1, <2>2, <2>4, <3>1, <3>2
  <2> QED  BY <2>3, <2>4
<1>7. CASE tutto
  <2>1. SnapCompleted(s)  BY <1>7 DEF SnapTells, SnapBusted, SnapInPlay
  <2>2. SnapDone(s) /\ card # "Stop"  BY <2>1, DoneIsNotStop DEF SnapCompleted, SnapDone
  <2>3. Aside(s) = TotalDice  BY <1>5, <1>7, <2>1 DEF SnapCompleted
  <2>4. p.chain.done = TRUE /\ p.chain.ended = "banked"  BY <1>3, <1>7
  <2>5. p.summary = Summary(TRUE, s.score, TRUE)  BY <1>2, <1>7
  <2>6. p.summary.won = TRUE  BY <2>5 DEF Summary
  <2> QED  BY <1>1, <1>7, <2>1, <2>2, <2>3, <2>4, <2>6 DEF SnapCompleted
<1>8. CASE ~bust /\ ~tutto
  <2>1. SnapInPlay(s) /\ s.kept # TotalDice  BY <1>8 DEF SnapTells, SnapBusted, SnapCompleted
  <2>2. CASE stop
    <3>1. Aside(s) # TotalDice /\ SnapOpen(s)  BY <1>5, <2>1, <2>2 DEF SnapInPlay
    <3>2. p.chain.done = FALSE /\ p.chain.ended = "stopCard"  BY <1>3, <1>8, <2>2
    <3> QED  BY <1>1, <1>8, <2>2, <3>1, <3>2
  <2>3. CASE banked
    <3>1. s.stopped /\ Aside(s) # TotalDice /\ SnapOpen(s) /\ card \notin Special \cup {"Stop"}
      BY <1>5, <2>1, <2>3 DEF SnapInPlay
    <3>2. p.chain.done = FALSE /\ p.chain.ended = "banked"  BY <1>3, <1>8, <2>3
    <3> QED  BY <1>1, <1>8, <3>1, <3>2
  <2>4. CASE ~stop /\ ~banked
    <3>1. p.summary = NoSummary  BY <1>2, <1>8, <2>4
    <3>2. ~p.summary.shown  BY <3>1 DEF NoSummary
    <3> QED  BY <1>1, <3>2
  <2> QED  BY <2>2, <2>3, <2>4
<1> QED  BY <1>6, <1>7, <1>8

LEMMA ClockReads ==
  ASSUME Grounds, classic, NEW s, SnapTells(s), s.cards = dealt, Derived(s).summary.shown
  PROVE  LET p == Derived(s)
             t == TimedOut(s)
         IN /\ t.done = p.chain.done /\ (t.ended = "null") = (p.chain.ended = "null")
            /\ Canonical(t, 0, TimeoutSuccess(s), TRUE)
            /\ s.stopped /\ card = "Kleeblatt" => TimeoutSuccess(s) = p.summary.won
<1> DEFINE bust == s.busted \/ RollBusts(s)
           won == card = "Feuerwerk" /\ s.score > 0
           done == (~s.busted /\ Aside(s) = TotalDice) \/ (bust /\ card = "Feuerwerk" /\ s.score > 0)
           late == done \/ (~s.busted /\ s.stopped) \/ (~s.busted /\ ~s.stopped /\ s.kept = 0 /\ s.roll = NoDice)
           ended == IF card = "Stop" THEN "stopCard" ELSE IF late THEN "timeout" ELSE "null"
<1>1. PICK p, t, won4 : p = Derived(s) /\ t = TimedOut(s) /\ won4 = TimeoutSuccess(s)  OBVIOUS
<1>2. /\ t.cards = s.cards /\ t.done = done /\ t.pm = s.pm /\ t.tuttos = s.ctuttos /\ t.outcomes = s.outcomes
      /\ t.forfeit = s.score
      /\ t.ended = CASE card = "Stop" -> "stopCard" [] card # "Stop" /\ late -> "timeout" [] OTHER -> "null"
  BY <1>1 DEF TimedOut
<1>3. t.ended = ended  BY <1>2
<1>4. Last(s.cards) = card  BY DEF card
<1>5. won4 = (/\ card = "Kleeblatt" /\ s.stopped /\ ~s.busted /\ s.tuttos >= 1 /\ Aside(s) = TotalDice
              /\ s.ctuttos >= (Len(s.cards) - 1) + 2)
  BY <1>1 DEF TimeoutSuccess
<1>6. \/ /\ bust /\ won /\ SnapDone(s) /\ (~s.busted => Aside(s) # TotalDice)
         /\ p.chain.done = TRUE /\ p.chain.ended = "banked" /\ p.summary.won = TRUE
      \/ /\ bust /\ ~won /\ SnapOpen(s) /\ card # "Stop"
         /\ ~s.busted => Aside(s) # TotalDice /\ ~s.stopped /\ s.roll # NoDice
         /\ p.chain.done = FALSE /\ p.chain.ended = "null" /\ p.summary.won = FALSE
      \/ /\ ~bust /\ Aside(s) = TotalDice /\ s.kept = TotalDice /\ SnapDone(s) /\ card # "Stop"
         /\ card = "Kleeblatt" => s.tuttos = 1
         /\ p.chain.done = TRUE /\ p.chain.ended = "banked" /\ p.summary.won = TRUE
      \/ /\ ~bust /\ Aside(s) # TotalDice /\ SnapOpen(s) /\ card = "Stop"
         /\ p.chain.done = FALSE /\ p.chain.ended = "stopCard"
      \/ /\ ~bust /\ Aside(s) # TotalDice /\ SnapOpen(s) /\ s.stopped /\ card \notin Special \cup {"Stop"}
         /\ p.chain.done = FALSE /\ p.chain.ended = "banked"
  BY <1>1, <1>4, VerdictIs
<1> HIDE DEF ended
<1>7. t.done = p.chain.done  BY <1>2, <1>6
<1>8. (t.ended = "null") = (p.chain.ended = "null")  BY <1>3, <1>6 DEF ended
<1>9. Canonical(t, 0, won4, TRUE)
  <2>1. IF t.done THEN DoneTale(t.cards, t.outcomes, t.tuttos, t.pm, s.score)
                  ELSE OpenTale(t.cards, t.outcomes, t.tuttos, t.pm, s.score)
    BY <1>2, <1>6, <1>7 DEF SnapOpen, SnapDone
  <2>2. won4 \in BOOLEAN /\ (won4 => card = "Kleeblatt" /\ done)  BY <1>5
  <2>3. card = "Stop" <=> t.ended = "stopCard"  BY <1>3 DEF ended
  <2>4. t.cards = dealt  BY <1>2
  <2>5. won4 /\ card \in Special => t.done  BY <1>2, <2>2
  <2>6. won4 /\ card # "Kleeblatt" => 0 = s.score  BY <2>2
  <2>7. ~won4 => 0 = 0 /\ t.forfeit = s.score  BY <1>2
  <2> HIDE DEF done
  <2> QED  BY <2>1, <2>2, <2>3, <2>4, <2>5, <2>6, <2>7, TaleIsCanonical
<1>10. s.stopped /\ card = "Kleeblatt" => won4 = p.summary.won
  <2> SUFFICES ASSUME s.stopped, card = "Kleeblatt" PROVE won4 = p.summary.won  OBVIOUS
  <2>1. ~RollBusts(s)  BY DEF RollBusts, Unresolved
  <2>2. card \in Special /\ ~won  BY DEF Special
  <2>3. CASE s.busted  BY <1>5, <1>6, <2>2, <2>3
  <2>4. CASE ~s.busted
    <3>1. Aside(s) = TotalDice /\ SnapDone(s) /\ s.tuttos = 1 /\ p.summary.won = TRUE  BY <1>6, <2>1, <2>2, <2>4
    <3>2. PICK n, outs : n = Len(s.cards) /\ outs = s.outcomes  OBVIOUS
    <3>3. Linked(s.cards, outs) /\ LegalDone(outs[n]) /\ s.ctuttos = Counted(outs)[n].tuttos
      BY <3>1, <3>2 DEF SnapDone, DoneTale
    <3>4. /\ n \in Nat /\ outs[n] \in Outcomes /\ outs[n].card = card
          /\ Counted(outs)[n].tuttos = Counted(outs)[n - 1].tuttos + outs[n].tuttos
      BY <1>4, <3>2, <3>3, LastCounted DEF Last
    <3>5. outs[n].tuttos = 2  BY <3>3, <3>4, LegalDoneIs
    <3>6. Counted(outs)[n - 1].tuttos = n - 1  BY <3>2, <3>3, CountedOnTheWay
    <3>7. s.ctuttos >= (Len(s.cards) - 1) + 2  BY <3>2, <3>3, <3>4, <3>5, <3>6
    <3>8. s.tuttos >= 1 /\ card = "Kleeblatt" /\ s.stopped  BY <3>1
    <3>9. won4 = TRUE  BY <1>5, <2>4, <3>1, <3>7, <3>8
    <3> QED  BY <3>1, <3>9
  <2> QED  BY <2>3, <2>4
<1> QED  BY <1>1, <1>7, <1>8, <1>9, <1>10

LEMMA PlainClockReads ==
  ASSUME ~classic, NEW s, PlainSnap(s, card), card \notin {"Kniffel", "Plus_Minus", "Feuerwerk", "Stop"},
         Derived(s).summary.shown
  PROVE  TimeoutSuccess(s) = Derived(s).summary.won
<1> DEFINE bust == s.busted \/ RollBusts(s)
           banked == ~bust /\ s.stopped
<1>1. PICK p, won4 : p = Derived(s) /\ won4 = TimeoutSuccess(s)  OBVIOUS
<1>2. p.summary = IF bust THEN Summary(FALSE, 0, FALSE)
                  ELSE IF banked THEN Summary(TRUE, s.score, s.kept = TotalDice) ELSE NoSummary
  BY <1>1 DEF Derived
<1>3. won4 = (\/ card = "Kleeblatt" /\ s.stopped /\ ~s.busted /\ s.tuttos >= 1 /\ Aside(s) = TotalDice
              \/ s.stopped /\ ~s.busted /\ card \notin Special \cup {"Stop"})
  BY <1>1 DEF TimeoutSuccess
<1>4. CASE bust
  <2>1. s.busted \/ ~s.stopped  BY <1>4 DEF RollBusts, Unresolved
  <2>2. p.summary.won = FALSE  BY <1>2, <1>4 DEF Summary
  <2> QED  BY <1>1, <1>3, <2>1, <2>2
<1>5. CASE banked
  <2>1. p.summary.won = TRUE  BY <1>2, <1>5 DEF Summary
  <2>2. card = "Kleeblatt" => s.tuttos = 1 /\ Aside(s) = TotalDice
    <3>1. ~s.busted /\ s.stopped  BY <1>5
    <3>2. card = "Kleeblatt" => s.sel = NoDice /\ s.kept = TotalDice /\ s.tuttos = 1
      BY <3>1 DEF PlainSnap, Spared
    <3>3. s.sel = NoDice => Count(s.sel) = 0  BY CountOfNothing
    <3> QED  BY <3>2, <3>3, NoneIsZero DEF Aside
  <2>3. won4 = TRUE
    <3>1. s.stopped /\ ~s.busted  BY <1>5
    <3>2. card = "Kleeblatt" => s.tuttos >= 1  BY <2>2
    <3>3. card # "Kleeblatt" => card \notin Special \cup {"Stop"}  BY DEF Special
    <3> QED  BY <1>3, <2>2, <3>1, <3>2, <3>3
  <2> QED  BY <1>1, <2>1, <2>3
<1>6. CASE ~bust /\ ~banked
  <2>1. p.summary = NoSummary  BY <1>2, <1>6
  <2>2. ~p.summary.shown  BY <2>1 DEF NoSummary
  <2> QED  BY <1>1, <2>2
<1> QED  BY <1>4, <1>5, <1>6

LEMMA ReadersAgree == ASSUME TurnInv PROVE AuthoritiesAgree
<1> SUFFICES ASSUME live # NoSnap, classic => live.cards = dealt, Derived(live).summary.shown
             PROVE  LET p == Derived(live)
                        t == TimedOut(live)
                    IN IF classic
                       THEN /\ t.done = p.chain.done /\ (t.ended = "null") = (p.chain.ended = "null")
                            /\ Canonical(t, 0, TimeoutSuccess(live), TRUE)
                            /\ live.stopped /\ card = "Kleeblatt" => TimeoutSuccess(live) = p.summary.won
                       ELSE card \notin {"Kniffel", "Plus_Minus", "Feuerwerk"} => TimeoutSuccess(live) = p.summary.won
  BY DEF AuthoritiesAgree
<1>1. CASE classic
  <2>1. Grounds /\ SnapTells(live)  BY <1>1 DEF TurnInv, TaleInv, LiveTells
  <2>2. PICK s : s = live  OBVIOUS
  <2> QED  BY <1>1, <2>1, <2>2, ClockReads
<1>2. CASE ~classic
  <2>1. card # "Stop" /\ PlainSnap(live, card)  BY <1>2 DEF TurnInv, PlainInv
  <2> QED  BY <1>2, <2>1, PlainClockReads
<1> QED  BY <1>1, <1>2

\* The clock that expires a turn (advanceTurnOnTimeout) and the panel that would
\* resume it (deriveRestoredTurn) read the same verdict in the room's snapshot,
\* whichever snapshot of the turn the room was last sent.
THEOREM VerdictsAgree == Spec => []AuthoritiesAgree
<1>1. TurnInv => AuthoritiesAgree  BY ReadersAgree
<1> QED  BY <1>1, ChainsAreTold, PTL

-----------------------------------------------------------------------------
\* A decision the room has been told of, on the host's own device.

\* The room's snapshot, the panel and a cache of this slot know no more cards
\* than the server has dealt, and the panel does not know one still on its way.
LengthInv ==
  /\ live # NoSnap => Len(live.cards) <= Len(dealt)
  /\ panel # Closed => /\ Len(panel.chain.cards) <= Len(dealt)
                       /\ asking = "dealt" => Len(panel.chain.cards) < Len(dealt)
  /\ cache # NoCache /\ cache.key[1] = slot => Len(cache.snap.cards) <= Len(dealt)

LEMMA SnapHasCards == ASSUME NEW s, SnapTells(s) PROVE Len(s.cards) \in Nat
<1>1. SnapOpen(s) \/ SnapDone(s)  BY DEF SnapTells, SnapBusted, SnapCompleted, SnapInPlay
<1>2. Linked(s.cards, s.outcomes)  BY <1>1 DEF SnapOpen, SnapDone, OpenTale, DoneTale
<1> QED  BY <1>2 DEF Linked

LEMMA LengthGoesOn ==
  ASSUME LengthInv, NEW p, Len(p.chain.cards) <= Len(dealt), panel' = p, asking' # "dealt", UNCHANGED <<slot, dealt>>,
         cache' \in {cache, NoCache} \/ cache'.snap = Snapshot(p),
         live' \in {live, NoSnap, Snapshot(p)}
  PROVE  LengthInv'
<1>1. Snapshot(p).cards = p.chain.cards  BY SnapshotIs
<1> QED  BY <1>1 DEF LengthInv

\* Of these steps the panel knows no card it did not know before.
LEMMA ChainStays ==
  ASSUME TaleInv, classic,
         OpeningRoll \/ Finalize \/ Select \/ RollOn \/ RollSecondTutto \/ StopAndScore \/ DrawCard \/ DrawRefused
  PROVE  /\ panel # Closed /\ asking' # "dealt" /\ UNCHANGED <<ruleset, slot, dealt>>
         /\ \E p : Becomes(p) /\ p.chain.cards = panel.chain.cards
<1>1. /\ asking' # "dealt" /\ UNCHANGED <<ruleset, slot, dealt>>
  BY ReadyIs, TumblingIs, AtRestIs
     DEF OpeningRoll, Finalize, Select, RollOn, RollSecondTutto, StopAndScore, DrawCard, DrawRefused, server, CanAct
<1>2. ASSUME NEW p, DOMAIN p = PanelFields, NEW n, Rolled(p, n), p.chain.cards = panel.chain.cards
      PROVE  \E q : Becomes(q) /\ q.chain.cards = panel.chain.cards
  <2>1. PICK r \in Dice : Becomes([p EXCEPT !.phase = "tumbling", !.roll = r, !.sel = NoDice, !.busted = FALSE])
    BY <1>2 DEF Rolled
  <2>2. PICK q : q = [p EXCEPT !.phase = "tumbling", !.roll = r, !.sel = NoDice, !.busted = FALSE]  OBVIOUS
  <2>3. q.chain = p.chain  BY <1>2, <2>2 DEF PanelFields
  <2> QED  BY <1>2, <2>1, <2>2, <2>3
<1>3. CASE OpeningRoll
  <2>1. panel # Closed /\ asking = "no" /\ ~panel.summary.shown /\ panel.reveal = "none" /\ Rolled(panel, TotalDice)
    BY <1>3, ReadyIs DEF OpeningRoll
  <2>2. DOMAIN panel = PanelFields  BY <2>1, RestIs DEF Shaped
  <2> QED  BY <1>1, <1>2, <2>1, <2>2
<1>4. CASE Finalize
  <2>1. panel # Closed /\ asking = "no" /\ ~panel.summary.shown /\ panel.reveal = "none"
    BY <1>4, TumblingIs DEF Finalize
  <2>2. Shaped(panel) /\ Of(panel) = card /\ TellsOpen(panel) /\ panel.chain.ended = "banked"  BY <2>1, RestIs
  <2>3. PICK p : p = [panel EXCEPT !.phase = "settled"]  OBVIOUS
  <2>4. DOMAIN p = PanelFields /\ p.chain = panel.chain /\ p.score = panel.score
    BY <2>2, <2>3 DEF Shaped, PanelFields
  <2>5. PICK b : b = BustChain(p)  OBVIOUS
  <2>6. b.cards = panel.chain.cards
    <3>1. Shaped(p) /\ TellsOpen(p) /\ Of(p) = card /\ p.chain.ended = "banked"
      BY <2>2, <2>4 DEF Shaped, TellsOpen, Of
    <3> QED  BY <2>4, <2>5, <3>1, BustTells
  <2>7. PICK won, score, k : /\ won = (card = "Feuerwerk" /\ p.score > 0) /\ score = (IF won THEN p.score ELSE 0)
                             /\ k = Largest(p.roll, card, {}, ruleset)
    OBVIOUS
  <2>8. PICK q : Becomes(q) /\ \/ q = p \/ q = [p EXCEPT !.sel = k]
                               \/ q = [p EXCEPT !.busted = TRUE, !.chain = b, !.summary = Summary(won, score, FALSE)]
    <3>1. CASE Busts(p.roll, card, p.progress, ruleset)
      <4>1. PICK q : q = [p EXCEPT !.busted = TRUE, !.chain = b, !.summary = Summary(won, score, FALSE)]  OBVIOUS
      <4>2. Becomes(q)  BY <1>4, <2>3, <2>5, <2>7, <3>1, <4>1 DEF Finalize
      <4> QED  BY <4>1, <4>2
    <3>2. CASE ~Busts(p.roll, card, p.progress, ruleset)
      <4>1. PICK q : q = IF card = "Feuerwerk" THEN [p EXCEPT !.sel = k] ELSE p  OBVIOUS
      <4>2. Becomes(q)  BY <1>4, <2>3, <2>7, <3>2, <4>1 DEF Finalize
      <4> QED  BY <4>1, <4>2
    <3> QED  BY <3>1, <3>2
  <2>9. q.chain.cards = panel.chain.cards  BY <2>4, <2>6, <2>8 DEF PanelFields
  <2> QED  BY <1>1, <2>1, <2>8, <2>9
<1>5. CASE DrawRefused
  <2>1. panel # Closed /\ asking = "asked" /\ Becomes(Banked(panel))  BY <1>5 DEF DrawRefused, TaleInv
  <2>2. Shaped(panel)  BY <2>1 DEF TaleInv, PanelTells, Asking
  <2>3. Banked(panel).chain = panel.chain  BY <2>2, BankedIs
  <2> QED  BY <1>1, <2>1, <2>3
<1>6. CASE Select \/ RollOn \/ RollSecondTutto \/ StopAndScore \/ DrawCard
  <2>1. AtRest(panel)  BY <1>6 DEF Select, RollOn, RollSecondTutto, StopAndScore, DrawCard, CanAct
  <2>2. /\ panel # Closed /\ Shaped(panel) /\ panel.sel \in Dice /\ Of(panel) = card /\ card # "Stop"
        /\ TellsOpen(panel) /\ FirstTutto(panel)
    BY <2>1, AtRestIs DEF HasBags
  <2>3. PICK k, m : k = Kept(panel) /\ m = Committed(panel)  OBVIOUS
  <2>4. Shaped(k) /\ k.chain.cards = panel.chain.cards  BY <2>2, <2>3, KeptTells
  <2>5. CASE Select
    <3>1. PICK sel : Becomes([panel EXCEPT !.sel = sel])  BY <2>5 DEF Select
    <3>2. [panel EXCEPT !.sel = sel].chain = panel.chain  BY <2>2 DEF Shaped, PanelFields
    <3> QED  BY <1>1, <2>2, <3>1, <3>2
  <2>6. CASE RollOn \/ RollSecondTutto
    <3>1. PICK q, n : Rolled(q, n) /\ q \in {k, [k EXCEPT !.kept = 0], [k EXCEPT !.kept = 0, !.tuttos = 1]}
      BY <2>3, <2>6 DEF RollOn, RollSecondTutto
    <3>2. DOMAIN q = PanelFields /\ q.chain = k.chain  BY <2>4, <3>1 DEF Shaped, PanelFields
    <3> QED  BY <1>1, <1>2, <2>2, <2>4, <3>1, <3>2
  <2>7. CASE StopAndScore \/ DrawCard
    <3>1. card # "Feuerwerk" /\ (card = "Kleeblatt" /\ MakesTutto(panel) => panel.tuttos # 0)
      BY <2>7 DEF StopAndScore, DrawCard, CanDraw, CanStop, FirstOfTwo
    <3>2. Shaped(m) /\ m.chain.cards = panel.chain.cards
      <4>1. CASE MakesTutto(panel)
        <5>1. card = "Kleeblatt" => LastOf(panel).tuttos = 1  BY <2>2, <3>1, <4>1 DEF FirstTutto
        <5> QED  BY <2>2, <2>3, <3>1, <4>1, <5>1, CommittedIsDone
      <4>2. CASE ~MakesTutto(panel)  BY <2>3, <2>4, <4>2 DEF Committed
      <4> QED  BY <4>1, <4>2
    <3>3. Banked(m).chain = m.chain  BY <3>2, BankedIs
    <3>4. Becomes(m) \/ Becomes(Banked(m))  BY <2>3, <2>7 DEF StopAndScore, DrawCard
    <3> QED  BY <1>1, <2>2, <3>2, <3>3, <3>4
  <2> QED  BY <1>6, <2>5, <2>6, <2>7
<1> QED  BY <1>3, <1>4, <1>5, <1>6

LEMMA LengthHolds ==
  ASSUME Grounds, classic, TaleInv, DiceInv, PlayerHosts, LengthInv, [Next]_vars
  PROVE  LengthInv'
<1>0. Len(dealt) \in Nat /\ Len(dealt) # 0 /\ dealt \in Seq(Cards) /\ card \in Cards /\ slot # 0
  BY CardIsDealt DEF Grounds
<1>1. CASE UNCHANGED vars  BY <1>1 DEF vars, LengthInv
<1>2. CASE OpeningRoll \/ Finalize \/ Select \/ RollOn \/ RollSecondTutto \/ StopAndScore \/ DrawCard \/ DrawRefused
  <2>1. panel # Closed /\ asking' # "dealt" /\ UNCHANGED <<slot, dealt>>  BY <1>2, ChainStays
  <2>2. PICK p : Becomes(p) /\ p.chain.cards = panel.chain.cards  BY <1>2, ChainStays
  <2>3. Len(p.chain.cards) <= Len(dealt)  BY <2>1, <2>2 DEF LengthInv
  <2>4. panel' = p /\ (cache' \in {cache, NoCache} \/ cache'.snap = Snapshot(p)) /\ live' \in {live, NoSnap, Snapshot(p)}
    BY <2>2 DEF Becomes, Publish
  <2> QED  BY <2>1, <2>3, <2>4, LengthGoesOn
<1>3. CASE Open
  <2>1. asking' # "dealt" /\ UNCHANGED <<slot, dealt>>  BY <1>3 DEF Open, TaleInv
  <2>2. CASE cache.key = TurnKey
    <3>1. cache.key[1] = slot  BY <2>2 DEF TurnKey
    <3>2. cache # NoCache  BY <1>0, <3>1 DEF NoCache
    <3>3. PICK p : p = Derived(cache.snap)  OBVIOUS
    <3>4. p.chain.cards = cache.snap.cards  BY <3>3 DEF Derived
    <3>5. Len(p.chain.cards) <= Len(dealt)  BY <3>1, <3>2, <3>4 DEF LengthInv
    <3>6. /\ panel' = p /\ (cache' \in {cache, NoCache} \/ cache'.snap = Snapshot(p))
          /\ live' \in {live, NoSnap, Snapshot(p)}
      BY <1>3, <2>2, <3>3 DEF Open, Becomes, Publish
    <3> QED  BY <2>1, <3>5, <3>6, LengthGoesOn
  <2>3. CASE cache.key # TurnKey
    <3>1. PICK p : p = FreshPanel(card)  OBVIOUS
    <3>2. p.chain.cards = <<card>>  BY <3>1 DEF FreshPanel, NewChain
    <3>3. Len(p.chain.cards) <= Len(dealt)  BY <1>0, <3>2
    <3>4. panel' = p /\ cache' = NoCache /\ live' = live  BY <1>3, <2>3, <3>1 DEF Open
    <3> QED  BY <2>1, <3>3, <3>4, LengthGoesOn
  <2> QED  BY <2>2, <2>3
<1>4. CASE Deal
  <2>1. UNCHANGED <<slot, panel, live, cache>>  BY <1>4 DEF Deal
  <2>2. PICK c \in Cards : dealt' = Append(dealt, c)  BY <1>4 DEF Deal
  <2>3. Len(dealt') = Len(dealt) + 1  BY <1>0, <2>2
  <2>4. panel # Closed => Len(panel.chain.cards) \in Nat
    BY <1>4, TaleIs DEF Deal, TaleInv, PanelTells, Asking, AtDraw, Completed, Linked
  <2>5. live # NoSnap => Len(live.cards) \in Nat
    BY SnapHasCards DEF TaleInv, LiveTells
  <2>6. cache # NoCache => Len(cache.snap.cards) \in Nat
    BY SnapHasCards DEF TaleInv, CacheTells
  <2>7. live # NoSnap => Len(live.cards) <= Len(dealt) + 1  BY <1>0, <2>5 DEF LengthInv
  <2>8. panel # Closed => Len(panel.chain.cards) < Len(dealt) + 1  BY <1>0, <2>4 DEF LengthInv
  <2>9. cache # NoCache /\ cache.key[1] = slot => Len(cache.snap.cards) <= Len(dealt) + 1
    BY <1>0, <2>6 DEF LengthInv
  <2>10. panel # Closed => Len(panel.chain.cards) <= Len(dealt) + 1  BY <1>0, <2>4, <2>8
  <2> QED  BY <2>1, <2>3, <2>7, <2>8, <2>9, <2>10 DEF LengthInv
<1>5. CASE Drawn
  <2>1. asking = "dealt" /\ asking' = "no" /\ UNCHANGED <<slot, dealt, live, cache>>  BY <1>5 DEF Drawn, server
  <2>2. panel # Closed /\ Shaped(panel) /\ TellsDone(panel)
    BY <2>1 DEF TaleInv, PanelTells, Asking, AtDraw, Completed
  <2>3. PICK cards : cards = panel.chain.cards  OBVIOUS
  <2>4. cards \in Seq(Cards) /\ Len(cards) \in Nat /\ Len(cards) < Len(dealt)
    BY <2>1, <2>2, <2>3, TaleIs DEF Linked, LengthInv
  <2>5. panel'.chain.cards = Append(cards, card)
    BY <1>5, <2>2, <2>3 DEF Drawn, Shaped, PanelFields, ChainFields
  <2>6. Len(panel'.chain.cards) <= Len(dealt)  BY <1>0, <2>4, <2>5
  <2>7. PICK p : p = panel'  OBVIOUS
  <2> QED  BY <2>1, <2>6, <2>7, LengthGoesOn
<1>6. CASE AcknowledgeDrawnCard
  <2>1. panel # Closed /\ UNCHANGED <<slot, dealt, live, cache, asking>>
    BY <1>6 DEF AcknowledgeDrawnCard, Closed, server
  <2>2. Shaped(panel)  BY <2>1 DEF TaleInv, PanelTells, InHand, Asking
  <2>3. panel'.chain = panel.chain  BY <1>6, <2>2 DEF AcknowledgeDrawnCard, Shaped, PanelFields
  <2> QED  BY <2>1, <2>3 DEF LengthInv
<1>7. CASE SendSnapshot
  <2>1. panel # Closed /\ UNCHANGED <<slot, dealt, panel, asking>> /\ Publish(panel)
    BY <1>7 DEF SendSnapshot, TaleInv, server
  <2>2. Snapshot(panel).cards = panel.chain.cards  BY SnapshotIs
  <2>3. cache'.snap = Snapshot(panel) /\ live' \in {live, Snapshot(panel)}  BY <2>1 DEF Publish
  <2> QED  BY <2>1, <2>2, <2>3 DEF LengthInv
<1>8. CASE Finish \/ StopTurn
  <2>1. panel' = Closed /\ cache' = NoCache  BY <1>8 DEF Finish, StopTurn, TurnGone
  <2>2. live' = NoSnap \/ (live' = live /\ dealt' = dealt)  BY <1>8 DEF Finish, StopTurn, NextTurn
  <2> QED  BY <2>1, <2>2 DEF LengthInv
<1>9. CASE Timeout
  <2>1. panel' = Closed /\ cache' = cache /\ live' = NoSnap /\ slot' = turn + 1
    BY <1>9 DEF Timeout, TurnGone, NextTurn
  <2>2. cache.key[1] # turn + 1  BY DEF DiceInv, Slots, CacheIsOld
  <2> QED  BY <2>1, <2>2 DEF LengthInv
<1>10. CASE HostUndoes \/ HostRestarts
  <2>1. panel' = Closed /\ cache' = NoCache /\ live' = NoSnap
    BY <1>10 DEF HostUndoes, HostRestarts, TurnGone, HostClears
  <2> QED  BY <2>1 DEF LengthInv
<1>11. CASE Reload
  <2>1. asking' = "no" /\ UNCHANGED <<slot, dealt>>  BY <1>11 DEF Reload, server
  <2>2. CASE live # NoSnap /\ Last(live.cards) = card
    <3>1. PICK p : p = Derived(live)  OBVIOUS
    <3>2. p.chain.cards = live.cards /\ Snapshot(p).cards = p.chain.cards  BY <3>1, SnapshotIs DEF Derived
    <3>3. panel' = p /\ live' \in {live, Snapshot(p)} /\ cache'.snap \in {live, Snapshot(p)}
      BY <1>11, <2>2, <3>1 DEF Reload
    <3>4. Len(live.cards) <= Len(dealt)  BY <2>2 DEF LengthInv
    <3> QED  BY <2>1, <3>2, <3>3, <3>4 DEF LengthInv
  <2>3. CASE ~(live # NoSnap /\ Last(live.cards) = card)
    <3>1. panel' = Closed /\ UNCHANGED <<cache, live>>  BY <1>11, <2>3 DEF Reload
    <3> QED  BY <2>1, <3>1 DEF LengthInv
  <2> QED  BY <2>2, <2>3
<1> QED  BY <1>1, <1>2, <1>3, <1>4, <1>5, <1>6, <1>7, <1>8, <1>9, <1>10, <1>11 DEF Next, PanelStep, RoomStep

-----------------------------------------------------------------------------
\* What the room has been told of the cards in play: that they are decided.

Told == live # NoSnap /\ (live.busted \/ live.stopped) /\ (classic => live.cards = dealt)
ToldInv ==
  Told => /\ panel # Closed /\ asking = "no" /\ panel.summary.shown /\ panel.score = live.score
          /\ panel.busted \/ panel.stopped \/ panel.kept = TotalDice
          /\ classic => panel.chain.cards = dealt

LEMMA HeldIs ==
  ASSUME TurnInv, panel # Closed PROVE DOMAIN panel = PanelFields
<1>1. CASE classic  BY <1>1 DEF TurnInv, TaleInv, PanelTells, InHand, Asking, Shaped
<1>2. CASE ~classic  BY <1>2 DEF TurnInv, PlainInv, PlainPanel
<1> QED  BY <1>1, <1>2

LEMMA FieldsStay ==
  ASSUME NEW p
  PROVE  /\ DOMAIN Kept(p) = DOMAIN p /\ DOMAIN Committed(p) = DOMAIN p /\ DOMAIN Banked(p) = DOMAIN p
<1>1. DOMAIN Kept(p) = DOMAIN p  BY DEF Kept
<1>2. ASSUME NEW k PROVE DOMAIN Awarded(k) = DOMAIN k
  BY DEF Awarded, Paid
<1>3. DOMAIN Committed(p) = DOMAIN p
  <2>1. PICK a : a = Awarded(Kept(p))  OBVIOUS
  <2>2. DOMAIN a = DOMAIN p  BY <1>1, <1>2, <2>1
  <2>3. Committed(p) = Kept(p) \/ Committed(p) = [a EXCEPT !.chain.done = TRUE]  BY <2>1 DEF Committed
  <2> QED  BY <1>1, <2>2, <2>3
<1>4. DOMAIN Banked(p) = DOMAIN p  BY DEF Banked
<1> QED  BY <1>1, <1>3, <1>4

\* The room is told what the panel shows.
LEMMA ToldNow ==
  ASSUME TurnInv', panel' # Closed, live' = Snapshot(panel') PROVE ToldInv'
<1> SUFFICES ASSUME Told'
             PROVE  /\ asking' = "no" /\ panel'.summary.shown /\ panel'.score = live'.score
                    /\ panel'.busted \/ panel'.stopped \/ panel'.kept = TotalDice
                    /\ classic' => panel'.chain.cards = dealt'
  BY DEF ToldInv
<1>1. PICK p : p = panel'  OBVIOUS
<1>2. live'.score = p.score /\ live'.busted = p.busted /\ live'.stopped = p.stopped /\ live'.cards = p.chain.cards
  BY <1>1, SnapshotIs
<1>3. (p.busted \/ p.stopped) /\ (classic' => p.chain.cards = dealt')  BY <1>2 DEF Told
<1>4. CASE classic'
  <2>1. IF asking' = "no" THEN InHand(p) ELSE AtDraw(p)  BY <1>1, <1>4 DEF TurnInv, TaleInv, PanelTells, Asking
  <2>2. asking' = "no" /\ p.summary.shown
    <3>1. ~Undecided(p)  BY <1>3 DEF Undecided
    <3> QED  BY <2>1, <3>1 DEF AtDraw, InHand, Playing, Decided
  <2> QED  BY <1>1, <1>2, <1>3, <2>2
<1>5. CASE ~classic'
  <2>1. asking' = "no" /\ p.summary.shown  BY <1>1, <1>3, <1>5 DEF TurnInv, PlainInv, PlainPanel
  <2> QED  BY <1>1, <1>2, <1>3, <2>1
<1> QED  BY <1>4, <1>5

\* Nothing was decided, and nothing more was told.
LEMMA NotTold == ASSUME ~Told, UNCHANGED <<ruleset, live, dealt>> PROVE ToldInv'
BY DEF ToldInv, Told, classic

LEMMA ToldBecomes ==
  ASSUME TurnInv', ~Told, UNCHANGED <<ruleset, dealt>>,
         NEW p, DOMAIN p = PanelFields, Becomes(p)
  PROVE  ToldInv'
<1>1. panel' = p /\ p # Closed  BY OpenIsNotClosed DEF Becomes
<1>2. CASE live' = live  BY <1>2, NotTold
<1>3. CASE live' = Snapshot(p)  BY <1>1, <1>3, ToldNow
<1> QED  BY <1>2, <1>3 DEF Becomes, Publish

LEMMA ToldRolls ==
  ASSUME TurnInv', ~Told, UNCHANGED <<ruleset, dealt>>, NEW p, DOMAIN p = PanelFields, NEW n, Rolled(p, n)
  PROVE  ToldInv'
<1>1. PICK r \in Dice : Becomes([p EXCEPT !.phase = "tumbling", !.roll = r, !.sel = NoDice, !.busted = FALSE])
  BY DEF Rolled
<1>2. PICK q : q = [p EXCEPT !.phase = "tumbling", !.roll = r, !.sel = NoDice, !.busted = FALSE]  OBVIOUS
<1>3. DOMAIN q = PanelFields /\ Becomes(q)  BY <1>1, <1>2
<1> QED  BY <1>3, ToldBecomes

\* The panel takes a step only while it has decided nothing.
LEMMA ToldActs ==
  ASSUME TurnInv, TurnInv', ToldInv,
         Open \/ OpeningRoll \/ Finalize \/ Select \/ RollOn \/ RollSecondTutto \/ StopAndScore \/ DrawCard \/ DrawRefused
  PROVE  ToldInv'
<1>1. UNCHANGED <<ruleset, dealt>>
  BY DEF Open, OpeningRoll, Finalize, Select, RollOn, RollSecondTutto, StopAndScore, DrawCard, DrawRefused, server
<1>2. CASE Open
  <2>1. ~Told  BY <1>2 DEF Open, ToldInv
  <2>2. CASE cache.key = TurnKey
    <3>1. PICK p : p = Derived(cache.snap)  OBVIOUS
    <3>2. DOMAIN p = PanelFields  BY <3>1 DEF Derived, PanelFields
    <3>3. Becomes(p) \/ live' = live  BY <1>2, <2>2, <3>1 DEF Open
    <3> QED  BY <1>1, <2>1, <3>2, <3>3, ToldBecomes, NotTold
  <2>3. CASE cache.key # TurnKey
    <3>1. live' = live  BY <1>2, <2>3 DEF Open
    <3> QED  BY <1>1, <2>1, <3>1, NotTold
  <2> QED  BY <2>2, <2>3
<1>3. CASE OpeningRoll \/ Finalize
  <2>1. panel # Closed /\ panel.phase \in {"ready", "tumbling"}  BY <1>3 DEF OpeningRoll, Finalize, Closed
  <2>2. ~panel.summary.shown
    <3>1. CASE classic  BY <2>1, <3>1, ReadyIs, TumblingIs DEF TurnInv
    <3>2. CASE ~classic  BY <2>1, <3>2 DEF TurnInv, PlainInv, PlainPanel
    <3> QED  BY <3>1, <3>2
  <2>3. ~Told /\ DOMAIN panel = PanelFields  BY <2>1, <2>2, HeldIs DEF ToldInv
  <2>4. CASE OpeningRoll  BY <1>1, <2>3, <2>4, ToldRolls DEF OpeningRoll
  <2>5. CASE Finalize
    <3>1. PICK p, b, won, score, k :
            /\ p = [panel EXCEPT !.phase = "settled"] /\ b = BustChain(p) /\ won = (card = "Feuerwerk" /\ p.score > 0)
            /\ score = (IF won THEN p.score ELSE 0) /\ k = Largest(p.roll, card, {}, ruleset)
      OBVIOUS
    <3>2. PICK q : Becomes(q) /\ \/ q = p \/ q = [p EXCEPT !.sel = k]
                                 \/ q = [p EXCEPT !.busted = TRUE, !.chain = b, !.summary = Summary(won, score, FALSE)]
      <4>1. CASE Busts(p.roll, card, p.progress, ruleset)
        <5>1. PICK q : q = [p EXCEPT !.busted = TRUE, !.chain = b, !.summary = Summary(won, score, FALSE)]  OBVIOUS
        <5>2. Becomes(q)  BY <2>5, <3>1, <4>1, <5>1 DEF Finalize
        <5> QED  BY <5>1, <5>2
      <4>2. CASE ~Busts(p.roll, card, p.progress, ruleset)
        <5>1. PICK q : q = IF classic /\ card = "Feuerwerk" THEN [p EXCEPT !.sel = k] ELSE p  OBVIOUS
        <5>2. Becomes(q)  BY <2>5, <3>1, <4>2, <5>1 DEF Finalize
        <5> QED  BY <5>1, <5>2
      <4> QED  BY <4>1, <4>2
    <3>3. DOMAIN p = PanelFields  BY <2>3, <3>1
    <3>4. DOMAIN q = PanelFields  BY <3>2, <3>3
    <3> QED  BY <1>1, <2>3, <3>2, <3>4, ToldBecomes
  <2> QED  BY <1>3, <2>4, <2>5
<1>4. CASE Select \/ RollOn \/ RollSecondTutto \/ StopAndScore \/ DrawCard
  <2>1. AtRest(panel)  BY <1>4 DEF Select, RollOn, RollSecondTutto, StopAndScore, DrawCard, CanAct
  <2>2. panel # Closed /\ ~panel.summary.shown  BY <2>1 DEF AtRest, Closed
  <2>3. ~Told /\ DOMAIN panel = PanelFields  BY <2>2, HeldIs DEF ToldInv
  <2>4. PICK k, m : k = Kept(panel) /\ m = Committed(panel)  OBVIOUS
  <2>5. DOMAIN k = PanelFields /\ DOMAIN m = PanelFields /\ DOMAIN Banked(m) = PanelFields
    BY <2>3, <2>4, FieldsStay
  <2>6. CASE Select
    <3>1. PICK sel : Becomes([panel EXCEPT !.sel = sel])  BY <2>6 DEF Select
    <3>2. DOMAIN [panel EXCEPT !.sel = sel] = PanelFields  BY <2>3
    <3> QED  BY <1>1, <2>3, <3>1, <3>2, ToldBecomes
  <2>7. CASE RollOn \/ RollSecondTutto
    <3>1. PICK q, n : Rolled(q, n) /\ q \in {k, [k EXCEPT !.kept = 0], [k EXCEPT !.kept = 0, !.tuttos = 1]}
      BY <2>4, <2>7 DEF RollOn, RollSecondTutto
    <3>2. DOMAIN q = PanelFields  BY <2>5, <3>1
    <3> QED  BY <1>1, <2>3, <3>1, <3>2, ToldRolls
  <2>8. CASE StopAndScore \/ DrawCard
    <3>1. Becomes(m) \/ Becomes(Banked(m))  BY <2>4, <2>8 DEF StopAndScore, DrawCard
    <3> QED  BY <1>1, <2>3, <2>5, <3>1, ToldBecomes
  <2> QED  BY <1>4, <2>6, <2>7, <2>8
<1>5. CASE DrawRefused
  <2>1. asking = "asked" /\ Becomes(Banked(panel))  BY <1>5 DEF DrawRefused
  <2>2. panel # Closed
    <3>1. CASE classic  BY <2>1, <3>1 DEF TurnInv, TaleInv
    <3>2. CASE ~classic  BY <2>1, <3>2 DEF TurnInv, PlainInv
    <3> QED  BY <3>1, <3>2
  <2>3. ~Told /\ DOMAIN Banked(panel) = PanelFields  BY <2>1, <2>2, HeldIs, FieldsStay DEF ToldInv
  <2> QED  BY <1>1, <2>1, <2>3, ToldBecomes
<1> QED  BY <1>2, <1>3, <1>4, <1>5

LEMMA ToldReloads ==
  ASSUME TurnInv, TurnInv', ToldInv, Reload PROVE ToldInv'
<1>1. asking' = "no" /\ UNCHANGED <<ruleset, slot, dealt, card>>  BY DEF Reload, server, card
<1>2. classic' <=> classic  BY <1>1 DEF classic
<1>3. CASE live # NoSnap /\ (classic => Last(live.cards) = card)
  <2>1. PICK p : p = Derived(live)  OBVIOUS
  <2>2. panel' = p /\ live' = IF p.busted THEN Snapshot(p) ELSE live  BY <1>3, <2>1 DEF Reload
  <2>3. DOMAIN p = PanelFields /\ p.score = live.score /\ p.kept = live.kept /\ p.chain.cards = live.cards
    BY <2>1 DEF Derived, PanelFields
  <2>4. p # Closed  BY <2>3, OpenIsNotClosed
  <2>5. CASE p.busted  BY <2>2, <2>4, <2>5, ToldNow
  <2>6. CASE ~p.busted
    <3>1. live' = live  BY <2>2, <2>6
    <3>2. SUFFICES ASSUME Told
                   PROVE  /\ p.summary.shown /\ (p.busted \/ p.stopped \/ p.kept = TotalDice)
                          /\ classic => p.chain.cards = dealt
      BY <1>1, <1>2, <2>2, <2>3, <2>4, <3>1 DEF ToldInv, Told
    <3>3. ~live.busted /\ ~RollBusts(live)  BY <2>1, <2>6 DEF Derived
    <3>4. live.stopped  BY <3>2, <3>3 DEF Told
    <3>5. classic => p.chain.cards = dealt  BY <2>3, <3>2 DEF Told
    <3>6. classic => card # "Stop" \/ live.kept = TotalDice
      <4>1. SUFFICES ASSUME classic, live.kept # TotalDice PROVE card # "Stop"  OBVIOUS
      <4>2. SnapTells(live)  BY <1>3, <4>1 DEF TurnInv, TaleInv, LiveTells
      <4>3. SnapInPlay(live)  BY <3>3, <4>1, <4>2 DEF SnapTells, SnapBusted, SnapCompleted
      <4> QED  BY <1>3, <3>4, <4>1, <4>3 DEF SnapInPlay
    <3>7. CASE classic /\ live.kept = TotalDice
      <4>1. p.summary = Summary(TRUE, live.score, TRUE)  BY <2>1, <3>3, <3>7 DEF Derived
      <4> QED  BY <2>3, <3>5, <3>7, <4>1 DEF Summary
    <3>8. CASE ~(classic /\ live.kept = TotalDice)
      <4>1. p.stopped /\ p.summary = Summary(TRUE, live.score, live.kept = TotalDice)
        BY <2>1, <3>3, <3>4, <3>6, <3>8 DEF Derived
      <4> QED  BY <3>5, <4>1 DEF Summary
    <3> QED  BY <3>7, <3>8
  <2> QED  BY <2>5, <2>6
<1>4. CASE ~(live # NoSnap /\ (classic => Last(live.cards) = card))
  <2>1. live' = live  BY <1>4 DEF Reload
  <2>2. ~Told  BY <1>4 DEF Told, card
  <2> QED  BY <1>1, <2>1, <2>2, NotTold
<1> QED  BY <1>3, <1>4

LEMMA ToldHolds ==
  ASSUME TurnInv, TurnInv', classic => LengthInv, ToldInv, [Next]_vars PROVE ToldInv'
<1>1. CASE UNCHANGED vars  BY <1>1 DEF vars, ToldInv, Told, classic
<1>2. CASE Open \/ OpeningRoll \/ Finalize \/ Select \/ RollOn \/ RollSecondTutto \/ StopAndScore \/ DrawCard
           \/ DrawRefused
  BY <1>2, ToldActs
<1>3. CASE Deal
  <2>1. asking = "asked" /\ classic /\ UNCHANGED <<ruleset, live>>  BY <1>3 DEF Deal
  <2>2. PICK c \in Cards : dealt' = Append(dealt, c)  BY <1>3 DEF Deal
  <2>3. dealt \in Seq(Cards)  BY DEF TurnInv, Grounds
  <2>4. Len(dealt') = Len(dealt) + 1 /\ Len(dealt) \in Nat  BY <2>2, <2>3
  <2>5. live # NoSnap => Len(live.cards) <= Len(dealt)  BY <2>1 DEF LengthInv
  <2>6. live # NoSnap => live.cards # dealt'  BY <2>4, <2>5
  <2>7. ~Told'  BY <2>1, <2>6 DEF Told, classic
  <2> QED  BY <2>7 DEF ToldInv
<1>4. CASE Drawn
  <2>1. asking = "dealt" /\ UNCHANGED <<ruleset, live, dealt>>  BY <1>4 DEF Drawn, server
  <2>2. ~Told  BY <2>1 DEF ToldInv
  <2> QED  BY <2>1, <2>2, NotTold
<1>5. CASE AcknowledgeDrawnCard
  <2>1. panel # Closed /\ panel.reveal # "none" /\ UNCHANGED <<ruleset, dealt, live, asking, card>>
    BY <1>5 DEF AcknowledgeDrawnCard, Closed, server, card
  <2>2. CASE ~Told  BY <2>1, <2>2, NotTold
  <2>3. CASE Told
    <3>1. asking = "no" /\ panel.summary.shown  BY <2>3 DEF ToldInv
    <3>2. ~classic
      <4>1. SUFFICES ASSUME classic PROVE FALSE  OBVIOUS
      <4>2. InHand(panel)  BY <2>1, <3>1, <4>1 DEF TurnInv, TaleInv, PanelTells
      <4> QED  BY <2>1, <3>1, <4>2 DEF InHand, Playing, Undecided, Decided
    <3>3. PlainPanel(panel, card)  BY <2>1, <3>2 DEF TurnInv, PlainInv
    <3>4. PICK p : p = panel'  OBVIOUS
    <3>5. p = [panel EXCEPT !.reveal = "none"]  BY <1>5, <3>3, <3>4 DEF AcknowledgeDrawnCard, PlainPanel, PanelFields
    <3>6. /\ DOMAIN p = PanelFields /\ p.summary = panel.summary /\ p.score = panel.score /\ p.busted = panel.busted
          /\ p.stopped = panel.stopped /\ p.kept = panel.kept
      BY <3>3, <3>5 DEF PlainPanel, PanelFields
    <3>7. p # Closed /\ ~classic'  BY <2>1, <3>2, <3>6, OpenIsNotClosed DEF classic
    <3> QED  BY <2>1, <2>3, <3>4, <3>6, <3>7 DEF ToldInv
  <2> QED  BY <2>2, <2>3
<1>6. CASE SendSnapshot
  <2>1. UNCHANGED <<ruleset, dealt, panel, asking>> /\ dirty /\ Publish(panel)  BY <1>6 DEF SendSnapshot, server
  <2>2. panel # Closed
    <3>1. CASE classic  BY <2>1, <3>1 DEF TurnInv, TaleInv
    <3>2. CASE ~classic  BY <2>1, <3>2 DEF TurnInv, PlainInv
    <3> QED  BY <3>1, <3>2
  <2>3. CASE asking = "dealt"
    <3>1. live' = live  BY <2>1, <2>3 DEF Publish
    <3>2. ~Told  BY <2>3 DEF ToldInv
    <3> QED  BY <2>1, <3>1, <3>2, NotTold
  <2>4. CASE asking # "dealt"
    <3>1. live' = Snapshot(panel')  BY <2>1, <2>4 DEF Publish
    <3> QED  BY <2>1, <2>2, <3>1, ToldNow
  <2> QED  BY <2>3, <2>4
<1>7. CASE Finish
  <2>1. panel # Closed /\ panel.summary.shown /\ UNCHANGED ruleset  BY <1>7 DEF Finish
  <2>2. CASE Told
    <3>1. classic => panel.chain.cards = dealt  BY <2>2 DEF ToldInv
    <3>2. Accepts(panel.chain, panel.summary.score, panel.summary.won)
      BY <2>1, <3>1, DecidedIsAccepted DEF CommitsAreAccepted
    <3>3. live' = NoSnap  BY <1>7, <3>2 DEF Finish, NextTurn
    <3> QED  BY <3>3 DEF ToldInv, Told
  <2>3. CASE ~Told
    <3>1. live' = NoSnap \/ UNCHANGED <<live, dealt>>  BY <1>7 DEF Finish, NextTurn
    <3>2. CASE live' = NoSnap  BY <3>2 DEF ToldInv, Told
    <3> QED  BY <2>1, <2>3, <3>1, <3>2, NotTold
  <2> QED  BY <2>2, <2>3
<1>8. CASE StopTurn
  <2>1. panel = Closed /\ UNCHANGED ruleset /\ (live' = NoSnap \/ UNCHANGED <<live, dealt>>)
    BY <1>8 DEF StopTurn, NextTurn
  <2>2. ~Told  BY <2>1 DEF ToldInv
  <2>3. CASE live' = NoSnap  BY <2>3 DEF ToldInv, Told
  <2> QED  BY <2>1, <2>2, <2>3, NotTold
<1>9. CASE Timeout \/ HostUndoes \/ HostRestarts
  <2>1. live' = NoSnap  BY <1>9 DEF Timeout, HostUndoes, HostRestarts, NextTurn
  <2> QED  BY <2>1 DEF ToldInv, Told
<1>10. CASE Reload  BY <1>10, ToldReloads
<1> QED  BY <1>1, <1>2, <1>3, <1>4, <1>5, <1>6, <1>7, <1>8, <1>9, <1>10 DEF Next, PanelStep, RoomStep

\* A decision the room has been told of stands (advanceTurnOnTimeout and the
\* other players have seen it): whatever is reloaded, resumed or drawn on the
\* player's device afterwards, the panel shows the same decision and the same
\* score, and no step hands the dice back.  The caches of a device that does not
\* host outlive an undo, hence the assumption.
THEOREM ToldDecisionsHold ==
  ASSUME PlayerHosts PROVE Spec => []ToldDecisionStands
<1> DEFINE Held == (classic => LengthInv) /\ ToldInv
<1>1. Init => Held
  <2> SUFFICES ASSUME Init PROVE Held  OBVIOUS
  <2>1. panel = Closed /\ live = NoSnap /\ cache = NoCache  BY DEF Init
  <2> QED  BY <2>1 DEF LengthInv, ToldInv, Told
<1>2. TurnInv /\ TurnInv' /\ DiceInv /\ Held /\ [Next]_vars => Held'
  <2> SUFFICES ASSUME TurnInv, TurnInv', DiceInv, Held, [Next]_vars PROVE Held'  OBVIOUS
  <2>1. ruleset' = ruleset  BY GroundsHold DEF TurnInv
  <2>2. classic' <=> classic  BY <2>1 DEF classic
  <2>3. classic => LengthInv'  BY LengthHolds DEF TurnInv
  <2>4. ToldInv'  BY ToldHolds
  <2> QED  BY <2>2, <2>3, <2>4
<1>3. Held => ToldDecisionStands  BY DEF ToldInv, Told, ToldDecisionStands
<1> HIDE DEF Held
<1> QED  BY <1>1, <1>2, <1>3, ChainsAreTold, PanelsAreSound, PTL DEF Spec

-----------------------------------------------------------------------------
\* Otto's count of the end of the game.

\* What a bot's panel and its cache hold: points and deductions are numbers,
\* a modernized card with a price of its own earns nothing before it is
\* completed, and the dice on the table are those not put aside.
Weighed(x) ==
  /\ x.score \in Nat
  /\ ~classic /\ FixedAward(card) > 0 => x.score = 0
  /\ x.roll # NoDice => x.kept + Count(x.roll) = TotalDice
Links(cards, pm, tuttos) == cards \in Seq(Cards) /\ pm \in Seq(Nat) /\ tuttos \in Nat
Chained(p) == DOMAIN p.chain = ChainFields /\ Links(p.chain.cards, p.chain.pm, p.chain.tuttos)
WeighInv ==
  /\ panel # Closed => Chained(panel) /\ Weighed(panel)
  /\ cache # NoCache => Links(cache.snap.cards, cache.snap.pm, cache.snap.ctuttos) /\ Weighed(cache.snap)

\* The card may change in a classic game only.
SameCard == ruleset' = ruleset /\ (classic \/ card' = card)

LEMMA WeighedStays == ASSUME NEW x, Weighed(x), SameCard, NEW y, y = x PROVE Weighed(y)'
BY DEF Weighed, SameCard, classic

LEMMA WeighGoesOn ==
  ASSUME WeighInv, SameCard, NEW p, Chained(p), Weighed(p), panel' = p,
         cache' \in {cache, NoCache} \/ (\E k : cache' = [key |-> k, snap |-> Snapshot(p)])
  PROVE  WeighInv'
<1>1. Weighed(panel)' /\ Chained(panel)'
  BY DEF Weighed, Chained, Links, SameCard, classic
<1>2. CASE cache' = cache \/ cache' = NoCache
  <2>1. cache' # NoCache => Weighed(cache.snap)' /\ Links(cache.snap.cards, cache.snap.pm, cache.snap.ctuttos)'
    BY <1>2 DEF WeighInv, Weighed, Links, SameCard, classic
  <2> QED  BY <1>1, <1>2, <2>1 DEF WeighInv
<1>3. CASE \E k : cache' = [key |-> k, snap |-> Snapshot(p)]
  <2>1. PICK s : s = Snapshot(p)  OBVIOUS
  <2>2. cache'.snap = s  BY <1>3, <2>1
  <2>3. /\ s.cards = p.chain.cards /\ s.pm = p.chain.pm /\ s.ctuttos = p.chain.tuttos /\ s.score = p.score /\ s.roll = p.roll /\ s.kept = p.kept  BY <2>1 DEF Snapshot
  <2>4. Weighed(cache.snap)'  BY <2>2, <2>3 DEF Weighed, SameCard, classic
  <2> QED  BY <1>1, <2>2, <2>3, <2>4 DEF WeighInv, Chained, Links
<1> QED  BY <1>2, <1>3

LEMMA WeighBecomes ==
  ASSUME WeighInv, SameCard, NEW p, Chained(p), Weighed(p), Becomes(p) PROVE WeighInv'
<1>1. panel' = p /\ (cache' = cache \/ \E k : cache' = [key |-> k, snap |-> Snapshot(p)])
  BY DEF Becomes, Publish
<1> QED  BY <1>1, WeighGoesOn

LEMMA RecordedKeeps ==
  ASSUME NEW ch, DOMAIN ch = ChainFields, NEW score, NEW more
  PROVE  LET r == Recorded(ch, score, more)
         IN DOMAIN r = ChainFields /\ r.cards = ch.cards /\ r.pm = ch.pm /\ r.tuttos = ch.tuttos
<1>1. PICK outs : Recorded(ch, score, more) = [ch EXCEPT !.outcomes = outs]  BY DEF Recorded
<1> QED  BY <1>1 DEF ChainFields

\* What putting the selection aside comes to.
LEMMA KeptComesTo ==
  ASSUME NEW p, DOMAIN p = PanelFields, Chained(p), p.sel \in Dice, p.score \in Nat
  PROVE  LET k == Kept(p)
         IN /\ DOMAIN k = PanelFields /\ k.kept = p.kept + Count(p.sel) /\ k.roll = NoDice
            /\ k.score = IF MakesTutto(p) THEN TuttoBonus(card, p.score + Earned(p)) ELSE p.score + Earned(p)
            /\ k.score \in Nat
            /\ Chained(k) /\ k.chain.pm = p.chain.pm
<1>1. PICK ch, e : ch = p.chain /\ e = Earned(p)  OBVIOUS
<1>2. DOMAIN ch = ChainFields /\ ch.tuttos \in Nat /\ e \in Nat  BY <1>1, EarnedIs DEF Chained, Links
<1>3. PICK total : total = IF MakesTutto(p) THEN TuttoBonus(card, p.score + e) ELSE p.score + e  OBVIOUS
<1>4. total \in Nat
  <2>1. p.score + e \in Nat  BY <1>2
  <2> QED  BY <1>3, <2>1 DEF TuttoBonus, BonusValue
<1>5. PICK r : r = IF MakesTutto(p) THEN [Recorded(ch, total, 1) EXCEPT !.tuttos = @ + 1] ELSE Recorded(ch, total, 0)
  OBVIOUS
<1>6. DOMAIN r = ChainFields /\ r.cards = ch.cards /\ r.pm = ch.pm /\ r.tuttos \in Nat
  <2>1. PICK more, s : s = Recorded(ch, total, more) /\ (r = s \/ r = [s EXCEPT !.tuttos = @ + 1])  BY <1>5
  <2>2. DOMAIN s = ChainFields /\ s.cards = ch.cards /\ s.pm = ch.pm /\ s.tuttos \in Nat
    BY <1>2, <2>1, RecordedKeeps
  <2> QED  BY <2>1, <2>2 DEF ChainFields
<1>7. PICK progress :
        Kept(p) = [p EXCEPT !.score = total, !.kept = @ + Count(p.sel), !.chain = r, !.sel = NoDice, !.roll = NoDice,
                            !.progress = progress]
  BY <1>1, <1>3, <1>5 DEF Kept, Earned
<1>8. PICK k : k = Kept(p)  OBVIOUS
<1>9. /\ DOMAIN k = PanelFields /\ k.kept = p.kept + Count(p.sel) /\ k.roll = NoDice /\ k.score = total /\ k.chain = r
  BY <1>7, <1>8 DEF PanelFields
<1>10. Chained(k)  BY <1>1, <1>6, <1>9 DEF Chained, Links
<1> QED  BY <1>1, <1>2, <1>3, <1>4, <1>6, <1>8, <1>9, <1>10

\* What completing the table comes to, a classic card's own award included.
LEMMA CommittedComesTo ==
  ASSUME NEW p, DOMAIN p = PanelFields, Chained(p), p.sel \in Dice, p.score \in Nat
  PROVE  LET k == Kept(p)
             m == Committed(p)
             awarded == MakesTutto(p) /\ classic /\ FixedAward(card) > 0
         IN /\ DOMAIN m = PanelFields /\ m.roll = NoDice
            /\ m.score = IF awarded THEN k.score + FixedAward(card) ELSE k.score
            /\ m.score \in Nat
            /\ Chained(m)
            /\ m.chain.pm = IF awarded /\ card = "Plus_Minus" THEN Append(p.chain.pm, k.score) ELSE p.chain.pm
<1>1. PICK k : k = Kept(p)  OBVIOUS
<1>2. /\ DOMAIN k = PanelFields /\ k.roll = NoDice /\ k.score \in Nat
      /\ Chained(k) /\ k.chain.pm = p.chain.pm
  BY <1>1, KeptComesTo
<1>3. CASE ~MakesTutto(p)
  <2>1. Committed(p) = k  BY <1>1, <1>3 DEF Committed
  <2> QED  BY <1>1, <1>2, <1>3, <2>1
<1>4. CASE MakesTutto(p)
  <2>1. PICK a : a = Awarded(k)  OBVIOUS
  <2>2. Committed(p) = [a EXCEPT !.chain.done = TRUE]  BY <1>1, <1>4, <2>1 DEF Committed
  <2>3. /\ DOMAIN a = PanelFields /\ a.roll = NoDice /\ Chained(a)
        /\ a.score = IF classic /\ FixedAward(card) > 0 THEN k.score + FixedAward(card) ELSE k.score
        /\ a.score \in Nat
        /\ a.chain.pm = IF classic /\ FixedAward(card) > 0 /\ card = "Plus_Minus"
                        THEN Append(p.chain.pm, k.score) ELSE p.chain.pm
    <3>1. CASE ~(classic /\ FixedAward(card) > 0)
      <4>1. a = k  BY <2>1, <3>1 DEF Awarded
      <4> QED  BY <1>2, <3>1, <4>1
    <3>2. CASE classic /\ FixedAward(card) > 0
      <4>1. PICK total, r, ch : /\ total = k.score + FixedAward(card)
                                /\ r = Recorded(k.chain, total, 0)
                                /\ ch = [r EXCEPT !.pm = IF card = "Plus_Minus" THEN Append(@, k.score) ELSE @]
        OBVIOUS
      <4>2. a = [k EXCEPT !.score = total, !.chain = ch]  BY <2>1, <3>2, <4>1 DEF Awarded, Paid
      <4>3. /\ DOMAIN r = ChainFields /\ r.pm = p.chain.pm
            /\ r.cards = k.chain.cards /\ r.tuttos = k.chain.tuttos
        BY <1>2, <4>1, RecordedKeeps DEF Chained
      <4>4. /\ DOMAIN ch = ChainFields /\ ch.cards = r.cards /\ ch.tuttos = r.tuttos
            /\ ch.pm = IF card = "Plus_Minus" THEN Append(p.chain.pm, k.score) ELSE p.chain.pm
        BY <4>1, <4>3 DEF ChainFields
      <4>5. DOMAIN a = PanelFields /\ a.roll = NoDice /\ a.score = total /\ a.chain = ch
        BY <1>2, <4>2 DEF PanelFields
      <4>6. FixedAward(card) \in Nat  BY DEF FixedAward
      <4>7. total \in Nat  BY <1>2, <4>1, <4>6
      <4>8. PICK pm, n : pm = p.chain.pm /\ n = k.score  OBVIOUS
      <4>9. pm \in Seq(Nat) /\ n \in Nat  BY <1>2, <4>8 DEF Chained, Links
      <4>10. ch.pm \in Seq(Nat)
        <5>1. Append(pm, n) \in Seq(Nat)  BY <4>9
        <5> QED  BY <4>4, <4>8, <4>9, <5>1
      <4>11. Chained(a)  BY <1>2, <4>3, <4>4, <4>5, <4>10 DEF Chained, Links
      <4> QED  BY <1>2, <3>2, <4>1, <4>4, <4>5, <4>7, <4>11
    <3> QED  BY <3>1, <3>2
  <2>4. PICK m, ch : m = Committed(p) /\ ch = a.chain  OBVIOUS
  <2>5. m = [a EXCEPT !.chain = [ch EXCEPT !.done = TRUE]]  BY <2>2, <2>4
  <2>6. PICK d : d = [ch EXCEPT !.done = TRUE]  OBVIOUS
  <2>7. DOMAIN d = ChainFields /\ d.cards = ch.cards /\ d.pm = ch.pm /\ d.tuttos = ch.tuttos
    BY <2>3, <2>4, <2>6 DEF Chained, ChainFields
  <2>8. DOMAIN m = PanelFields /\ m.roll = a.roll /\ m.score = a.score /\ m.chain = d
    BY <2>3, <2>5, <2>6 DEF PanelFields
  <2>9. Chained(m)  BY <2>3, <2>4, <2>7, <2>8 DEF Chained
  <2> QED  BY <1>1, <1>4, <2>3, <2>4, <2>7, <2>8, <2>9
<1> QED  BY <1>3, <1>4

-----------------------------------------------------------------------------
\* Every step of a bot's table keeps it weighed.

LEMMA CardStays == ASSUME UNCHANGED <<ruleset, dealt>> PROVE SameCard
BY DEF SameCard, card

\* Only a modernized card with a price of its own says more than that points are numbers.
LEMMA EarnsNothing ==
  ASSUME NEW p, DOMAIN p = PanelFields, Chained(p), p.sel \in Dice, Weighed(p)
  PROVE  /\ Kept(p).score \in Nat
         /\ ~classic /\ FixedAward(card) > 0 => Kept(p).score = 0
<1>1. PICK k, e : k = Kept(p) /\ e = Earned(p)  OBVIOUS
<1>2. /\ p.score \in Nat /\ k.score \in Nat
      /\ k.score = IF MakesTutto(p) THEN TuttoBonus(card, p.score + e) ELSE p.score + e
  BY <1>1, KeptComesTo DEF Weighed
<1>3. ASSUME ~classic, FixedAward(card) > 0 PROVE k.score = 0
  <2>1. p.score = 0 /\ e = 0  BY <1>1, <1>3, EarnedIs DEF Weighed
  <2>2. card # "bonus" /\ card # "x2"  BY <1>3 DEF FixedAward
  <2>3. TuttoBonus(card, 0) = 0  BY <2>2 DEF TuttoBonus
  <2> QED  BY <1>2, <2>1, <2>3
<1> QED  BY <1>1, <1>2, <1>3

LEMMA KeptIsWeighed ==
  ASSUME NEW p, DOMAIN p = PanelFields, Chained(p), p.sel \in Dice, Weighed(p)
  PROVE  Chained(Kept(p)) /\ Weighed(Kept(p))
<1>1. PICK k : k = Kept(p)  OBVIOUS
<1>2. Chained(k) /\ k.roll = NoDice
  BY <1>1, KeptComesTo DEF Weighed
<1>3. k.score \in Nat /\ (~classic /\ FixedAward(card) > 0 => k.score = 0)  BY <1>1, EarnsNothing
<1> QED  BY <1>1, <1>2, <1>3 DEF Weighed

LEMMA CommittedIsWeighed ==
  ASSUME NEW p, DOMAIN p = PanelFields, Chained(p), p.sel \in Dice, Weighed(p)
  PROVE  Chained(Committed(p)) /\ Weighed(Committed(p))
<1>1. PICK k, m : k = Kept(p) /\ m = Committed(p)  OBVIOUS
<1>2. /\ m.roll = NoDice /\ m.score \in Nat /\ Chained(m)
      /\ ~classic => m.score = k.score
  BY <1>1, CommittedComesTo DEF Weighed
<1>3. k.score \in Nat /\ (~classic /\ FixedAward(card) > 0 => k.score = 0)  BY <1>1, EarnsNothing
<1> QED  BY <1>1, <1>2, <1>3 DEF Weighed

LEMMA BankedIsWeighed ==
  ASSUME NEW p, DOMAIN p = PanelFields, Chained(p), Weighed(p) PROVE Chained(Banked(p)) /\ Weighed(Banked(p))
<1>1. PICK q : q = Banked(p)  OBVIOUS
<1>2. q.score = p.score /\ q.kept = p.kept /\ q.roll = p.roll /\ q.chain = p.chain
  BY <1>1 DEF Banked, PanelFields
<1> QED  BY <1>1, <1>2 DEF Chained, Weighed

LEMMA ThrownIsWeighed ==
  ASSUME WeighInv, SameCard, NEW p, DOMAIN p = PanelFields, Chained(p), Weighed(p), p.kept \in Nat,
         NEW n, n = TotalDice - p.kept, Rolled(p, n)
  PROVE  WeighInv'
<1>1. PICK r \in Dice : /\ Count(r) = n
                        /\ Becomes([p EXCEPT !.phase = "tumbling", !.roll = r, !.sel = NoDice, !.busted = FALSE])
  BY DEF Rolled
<1>2. PICK q : q = [p EXCEPT !.phase = "tumbling", !.roll = r, !.sel = NoDice, !.busted = FALSE]  OBVIOUS
<1>3. q.roll = r /\ q.kept = p.kept /\ q.score = p.score /\ q.chain = p.chain
  BY <1>2 DEF PanelFields
<1>4. q.kept + Count(q.roll) = TotalDice  BY <1>1, <1>3, DiceAssumption
<1>5. Chained(q) /\ Weighed(q)  BY <1>3, <1>4 DEF Chained, Weighed
<1> QED  BY <1>1, <1>2, <1>5, WeighBecomes

LEMMA OpensWeighed == ASSUME card \in Cards, TableInv, WeighInv, Open PROVE WeighInv'
<1>1. panel = Closed /\ SameCard  BY CardStays DEF Open
<1>2. CASE cache.key = TurnKey
  <2>1. cache # NoCache
    <3>1. cache.key[1] = slot  BY <1>2 DEF TurnKey
    <3> QED  BY <3>1 DEF NoCache, TableInv, FirstSlot
  <2>2. PICK s, p : s = cache.snap /\ p = Derived(s)  OBVIOUS
  <2>3. Links(s.cards, s.pm, s.ctuttos) /\ Weighed(s)  BY <2>1, <2>2 DEF WeighInv
  <2>4. /\ p.score = s.score /\ p.roll = s.roll /\ p.kept = s.kept /\ DOMAIN p.chain = ChainFields
        /\ p.chain.cards = s.cards /\ p.chain.pm = s.pm /\ p.chain.tuttos = s.ctuttos
    BY <2>2 DEF Derived, ChainFields
  <2>5. Chained(p) /\ Weighed(p)  BY <2>3, <2>4 DEF Chained, Weighed
  <2>6. Becomes(p) \/ (panel' = p /\ cache' = cache)  BY <1>2, <2>2 DEF Open
  <2> QED  BY <1>1, <2>5, <2>6, WeighBecomes, WeighGoesOn
<1>3. CASE cache.key # TurnKey
  <2>1. PICK p : p = FreshPanel(card)  OBVIOUS
  <2>2. panel' = p /\ cache' = NoCache  BY <1>3, <2>1 DEF Open
  <2>3. /\ p.score = 0 /\ p.roll = NoDice /\ DOMAIN p.chain = ChainFields
        /\ p.chain.cards = <<card>> /\ p.chain.pm = <<>> /\ p.chain.tuttos = 0
    BY <2>1 DEF FreshPanel, NewChain, ChainFields
  <2>4. Chained(p) /\ Weighed(p)  BY <2>3 DEF Chained, Links, Weighed
  <2> QED  BY <1>1, <2>2, <2>4, WeighGoesOn
<1> QED  BY <1>2, <1>3

LEMMA TumblesWeighed == ASSUME TableInv, WeighInv, OpeningRoll PROVE WeighInv'
<1>1. panel # Closed /\ asking = "no" /\ SameCard  BY CardStays DEF OpeningRoll, Closed, server
<1>2. Sound(panel, card)  BY <1>1 DEF TableInv, TableIsSound
<1>3. DOMAIN panel = PanelFields /\ panel.kept = 0  BY <1>2 DEF OpeningRoll, Sound, WhenReady
<1>4. Rolled(panel, TotalDice) /\ TotalDice = TotalDice - panel.kept  BY <1>3, DiceAssumption DEF OpeningRoll
<1> QED  BY <1>1, <1>3, <1>4, ThrownIsWeighed DEF WeighInv

LEMMA LandsWeighed == ASSUME TableInv, WeighInv, Finalize PROVE WeighInv'
<1>1. panel # Closed /\ SameCard  BY CardStays DEF Finalize, Closed, server
<1>2. DOMAIN panel = PanelFields /\ Chained(panel) /\ Weighed(panel)
  BY <1>1 DEF TableInv, TableIsSound, Sound, Drawing, WeighInv
<1>3. PICK p : p = [panel EXCEPT !.phase = "settled"]  OBVIOUS
<1>4. DOMAIN p = PanelFields /\ p.score = panel.score /\ p.kept = panel.kept /\ p.roll = panel.roll /\ p.chain = panel.chain
  BY <1>2, <1>3 DEF PanelFields
<1>5. CASE Busts(p.roll, card, p.progress, ruleset)
  <2>1. PICK chain, summary : /\ chain = BustChain(p)
                              /\ Becomes([p EXCEPT !.busted = TRUE, !.chain = chain, !.summary = summary])
    BY <1>3, <1>5 DEF Finalize
  <2>2. PICK q : q = [p EXCEPT !.busted = TRUE, !.chain = chain, !.summary = summary]  OBVIOUS
  <2>3. q.score = p.score /\ q.kept = p.kept /\ q.roll = p.roll /\ q.chain = chain  BY <1>4, <2>2 DEF PanelFields
  <2>4. PICK r : r = Recorded(p.chain, p.score, 0)  OBVIOUS
  <2>5. DOMAIN r = ChainFields /\ Links(r.cards, r.pm, r.tuttos)
    BY <1>2, <1>4, <2>4, RecordedKeeps DEF Chained
  <2>6. chain = [r EXCEPT !.done = TRUE] \/ chain = [r EXCEPT !.ended = "null", !.forfeit = p.score]
    BY <2>1, <2>4 DEF BustChain
  <2>7. DOMAIN chain = ChainFields /\ Links(chain.cards, chain.pm, chain.tuttos)  BY <2>5, <2>6 DEF ChainFields
  <2>8. Chained(q) /\ Weighed(q)  BY <1>2, <1>4, <2>3, <2>7 DEF Chained, Weighed
  <2> QED  BY <1>1, <2>1, <2>2, <2>8, WeighBecomes
<1>6. CASE ~Busts(p.roll, card, p.progress, ruleset)
  <2>1. PICK q : Becomes(q) /\ (q = p \/ \E k : q = [p EXCEPT !.sel = k])  BY <1>3, <1>6 DEF Finalize
  <2>2. q.score = p.score /\ q.kept = p.kept /\ q.roll = p.roll /\ q.chain = p.chain  BY <1>4, <2>1 DEF PanelFields
  <2>3. Chained(q) /\ Weighed(q)  BY <1>2, <1>4, <2>2 DEF Chained, Weighed
  <2> QED  BY <1>1, <2>1, <2>3, WeighBecomes
<1> QED  BY <1>5, <1>6

LEMMA SentWeighed == ASSUME TableInv, WeighInv, SendSnapshot PROVE WeighInv'
<1>1. panel # Closed /\ SameCard  BY CardStays DEF SendSnapshot, TableInv, server
<1>2. panel' = panel /\ \E k : cache' = [key |-> k, snap |-> Snapshot(panel)]  BY DEF SendSnapshot, Publish
<1> QED  BY <1>1, <1>2, WeighGoesOn DEF WeighInv

LEMMA ActsWeighed ==
  ASSUME TableInv, WeighInv, panel # Closed, RollOn \/ RollSecondTutto \/ StopAndScore \/ DrawCard PROVE WeighInv'
<1>1. AtRest(panel) /\ SameCard
  BY CardStays DEF RollOn, RollSecondTutto, StopAndScore, DrawCard, CanAct, server
<1>2. DOMAIN panel = PanelFields /\ panel.sel \in Dice /\ panel.kept \in Nat
  BY <1>1, AtRestIsOpen DEF Laid, HasDice
<1>3. Chained(panel) /\ Weighed(panel)  BY DEF WeighInv
<1>4. PICK k, m : k = Kept(panel) /\ m = Committed(panel)  OBVIOUS
<1>5. /\ DOMAIN k = PanelFields /\ k.kept = panel.kept + Count(panel.sel) /\ k.roll = NoDice
      /\ Chained(k) /\ Weighed(k)
  BY <1>2, <1>3, <1>4, KeptComesTo, KeptIsWeighed DEF Weighed
<1>6. k.kept \in Nat  BY <1>2, <1>5, CountIsNat
<1>7. DOMAIN m = PanelFields /\ Chained(m) /\ Weighed(m)
  BY <1>2, <1>3, <1>4, CommittedComesTo, CommittedIsWeighed DEF Weighed
<1>8. CASE RollOn
  <2>1. PICK q : q = IF MakesTutto(panel) THEN [k EXCEPT !.kept = 0] ELSE k  OBVIOUS
  <2>2. Rolled(q, TotalDice - q.kept)  BY <1>4, <1>8, <2>1 DEF RollOn
  <2>3. DOMAIN q = PanelFields /\ q.kept \in Nat /\ q.score = k.score /\ q.roll = NoDice /\ q.chain = k.chain
    BY <1>5, <1>6, <2>1 DEF PanelFields
  <2>4. Chained(q) /\ Weighed(q)  BY <1>5, <2>3 DEF Chained, Weighed
  <2> QED  BY <1>1, <2>2, <2>3, <2>4, ThrownIsWeighed
<1>9. CASE RollSecondTutto
  <2>1. PICK q : q = [k EXCEPT !.kept = 0, !.tuttos = 1]  OBVIOUS
  <2>2. Rolled(q, TotalDice)  BY <1>4, <1>9, <2>1 DEF RollSecondTutto
  <2>3. DOMAIN q = PanelFields /\ q.kept = 0 /\ q.score = k.score /\ q.roll = NoDice /\ q.chain = k.chain
    BY <1>5, <2>1 DEF PanelFields
  <2>4. Chained(q) /\ Weighed(q)  BY <1>5, <2>3 DEF Chained, Weighed
  <2>5. TotalDice = TotalDice - q.kept  BY <2>3, DiceAssumption
  <2> QED  BY <1>1, <2>2, <2>3, <2>4, <2>5, ThrownIsWeighed
<1>10. CASE StopAndScore
  <2>1. PICK q : q = Banked(m)  OBVIOUS
  <2>2. Becomes(q)  BY <1>4, <1>10, <2>1 DEF StopAndScore
  <2>3. Chained(q) /\ Weighed(q)  BY <1>7, <2>1, BankedIsWeighed
  <2> QED  BY <1>1, <2>2, <2>3, WeighBecomes
<1>11. CASE DrawCard
  <2>1. Becomes(m)  BY <1>4, <1>11 DEF DrawCard
  <2> QED  BY <1>1, <1>7, <2>1, WeighBecomes
<1> QED  BY <1>8, <1>9, <1>10, <1>11

LEMMA ComesWeighed == ASSUME card \in Cards, TableInv, WeighInv, asking # "no", Deal \/ DrawRefused \/ Drawn PROVE WeighInv'
<1>1. panel # Closed /\ DOMAIN panel = PanelFields /\ classic /\ Chained(panel) /\ Weighed(panel)
  BY DEF TableInv, TableIsSound, Drawing, WeighInv
<1>2. CASE Deal
  <2>1. SameCard /\ panel' = panel /\ cache' = cache  BY <1>1, <1>2 DEF Deal, SameCard
  <2> QED  BY <1>1, <2>1, WeighGoesOn
<1>3. CASE DrawRefused
  <2>1. SameCard /\ Becomes(Banked(panel))  BY <1>3, CardStays DEF DrawRefused, server
  <2>2. Chained(Banked(panel)) /\ Weighed(Banked(panel))  BY <1>1, BankedIsWeighed
  <2> QED  BY <2>1, <2>2, WeighBecomes
<1>4. CASE Drawn
  <2>1. SameCard /\ cache' = cache  BY <1>4, CardStays DEF Drawn, server
  <2>2. PICK ch : ch = [panel.chain EXCEPT !.cards = Append(@, card), !.done = FALSE,
                  !.outcomes = Append(@, [card |-> card, before |-> panel.score, after |-> panel.score, tuttos |-> 0]),
                  !.ended = IF card = "Stop" THEN "stopCard" ELSE @,
                  !.forfeit = IF card = "Stop" THEN panel.score ELSE @]
    OBVIOUS
  <2>3. PICK old : old = panel.chain  OBVIOUS
  <2>4. DOMAIN old = ChainFields /\ Links(old.cards, old.pm, old.tuttos)  BY <1>1, <2>3 DEF Chained
  <2>5. PICK cards, outs, ended, forfeit :
          /\ cards = Append(old.cards, card)
          /\ ch = [old EXCEPT !.cards = cards, !.done = FALSE, !.outcomes = outs, !.ended = ended, !.forfeit = forfeit]
    BY <2>2, <2>3
  <2>6. DOMAIN ch = ChainFields /\ ch.cards = cards /\ ch.pm = old.pm /\ ch.tuttos = old.tuttos
    BY <2>4, <2>5 DEF ChainFields
  <2>10. cards \in Seq(Cards)
    <3>1. PICK c, cs : c = card /\ cs = old.cards  OBVIOUS
    <3>2. c \in Cards /\ cs \in Seq(Cards)  BY <2>4, <3>1 DEF Links
    <3>3. Append(cs, c) \in Seq(Cards)  BY <3>2
    <3> QED  BY <2>5, <3>1, <3>3
  <2>7. PICK p, phase, tuttos :
          /\ panel' = p
          /\ p = [panel EXCEPT !.kept = 0, !.roll = NoDice, !.sel = NoDice, !.progress = {}, !.reveal = card,
                    !.phase = phase, !.tuttos = tuttos, !.chain = ch]
    BY <1>4, <2>2 DEF Drawn
  <2>8. p.score = panel.score /\ p.roll = NoDice /\ p.chain = ch  BY <1>1, <2>7 DEF PanelFields
  <2>9. Chained(p) /\ Weighed(p)  BY <1>1, <2>4, <2>6, <2>10, <2>8 DEF Chained, Links, Weighed
  <2> QED  BY <2>1, <2>7, <2>9, WeighGoesOn
<1> QED  BY <1>2, <1>3, <1>4

LEMMA DismissedWeighed == ASSUME TableInv, WeighInv, AcknowledgeDrawnCard PROVE WeighInv'
<1>1. panel # Closed /\ SameCard /\ cache' = cache  BY CardStays DEF AcknowledgeDrawnCard, Closed, server
<1>2. DOMAIN panel = PanelFields /\ Chained(panel) /\ Weighed(panel)
  BY <1>1 DEF TableInv, TableIsSound, Sound, Drawing, WeighInv
<1>3. PICK p, summary : panel' = p /\ p = [panel EXCEPT !.reveal = "none", !.summary = summary]
  BY DEF AcknowledgeDrawnCard
<1>4. p.score = panel.score /\ p.kept = panel.kept /\ p.roll = panel.roll /\ p.chain = panel.chain
  BY <1>2, <1>3 DEF PanelFields
<1>5. Chained(p) /\ Weighed(p)  BY <1>2, <1>4 DEF Chained, Weighed
<1> QED  BY <1>1, <1>3, <1>5, WeighGoesOn

LEMMA SelectsWeighed ==
  ASSUME TableInv, WeighInv, panel # Closed, AtRest(panel), SameCard, NEW k, Becomes([panel EXCEPT !.sel = k])
  PROVE  WeighInv'
<1>1. DOMAIN panel = PanelFields /\ Chained(panel) /\ Weighed(panel)  BY AtRestIsOpen DEF WeighInv
<1>2. PICK p : p = [panel EXCEPT !.sel = k]  OBVIOUS
<1>3. p.score = panel.score /\ p.kept = panel.kept /\ p.roll = panel.roll /\ p.chain = panel.chain
  BY <1>1, <1>2 DEF PanelFields
<1>4. Chained(p) /\ Weighed(p)  BY <1>1, <1>3 DEF Chained, Weighed
<1> QED  BY <1>2, <1>4, WeighBecomes

-----------------------------------------------------------------------------
\* The invariant of Otto's table: what he plans is what he decided on it.
PlanIsOttos == plan # NoPlan /\ bot.personality = "optimal" => plan \in OttoDecisions(Context)
Dealing == ruleset \in {"classic", "modernized"} /\ dealt \in Seq(Cards) /\ dealt # <<>>
OttoInv == BotInv /\ bot \in Bots /\ Dealing /\ WeighInv /\ PlanIsOttos

LEMMA DealtIsCard == ASSUME Dealing PROVE card \in Cards
<1>1. PICK n \in Nat : n = Len(dealt) /\ n # 0 /\ DOMAIN dealt = 1..n  BY DEF Dealing
<1>2. n \in DOMAIN dealt  BY <1>1
<1>3. dealt[n] \in Cards  BY <1>2 DEF Dealing
<1> QED  BY <1>1, <1>3 DEF card, Last

LEMMA PlanStays ==
  ASSUME PlanIsOttos, UNCHANGED <<plan, bot, panel, ruleset, dealt>> PROVE PlanIsOttos'
<1>1. Context' = Context  BY DEF Context, card
<1>2. PICK ctx : ctx = Context /\ ctx = Context'  BY <1>1
<1>3. OttoDecisions(Context)' = OttoDecisions(ctx)  BY <1>2 DEF OttoDecisions, Best, KeepsTried
<1> QED  BY <1>2, <1>3 DEF PlanIsOttos

LEMMA PlansGo == ASSUME plan' = NoPlan PROVE PlanIsOttos'
BY DEF PlanIsOttos

LEMMA OttoSteps == ASSUME OttoInv, BotStep PROVE WeighInv' /\ PlanIsOttos'
<1>1. /\ TableInv /\ PlanFits /\ WeighInv /\ PlanIsOttos /\ panel # Closed /\ AtRest(panel) /\ bot' = bot
  BY DEF OttoInv, BotInv, BotStep
<1>2. DOMAIN panel = PanelFields /\ Sound(panel, card) /\ Laid(panel, card)  BY <1>1, AtRestIsOpen
<1>3. PICK d \in (IF plan = NoPlan THEN Decisions ELSE {plan}) :
        SelectKeep(d) \/ ((panel.sel = d.keep \/ Locked) /\ ActOn(Chosen(d)))
  BY DEF BotStep
<1>4. CASE SelectKeep(d)
  <2>1. Becomes([panel EXCEPT !.sel = d.keep]) /\ plan' = d /\ SameCard /\ UNCHANGED <<ruleset, dealt>>
    BY <1>4, CardStays DEF SelectKeep, server
  <2>2. WeighInv'  BY <1>1, <2>1, SelectsWeighed
  <2>3. ASSUME bot.personality = "optimal" PROVE d \in OttoDecisions(Context)
    <3>1. CASE plan = NoPlan  BY <1>3, <2>3, <3>1 DEF Decisions
    <3>2. CASE plan # NoPlan  BY <1>1, <1>3, <2>3, <3>2 DEF PlanIsOttos
    <3> QED  BY <3>1, <3>2
  <2>4. PICK p : p = [panel EXCEPT !.sel = d.keep]  OBVIOUS
  <2>5. panel' = p  BY <2>1, <2>4 DEF Becomes
  <2>6. /\ p.roll = panel.roll /\ p.kept = panel.kept /\ p.score = panel.score /\ p.progress = panel.progress
        /\ p.chain = panel.chain
    BY <1>2, <2>4 DEF PanelFields
  <2>7. Context' = Context
    BY <1>1, <2>1, <2>5, <2>6 DEF Context, card
  <2>8. PICK ctx : ctx = Context /\ ctx = Context'  BY <2>7
  <2>9. bot.personality = "optimal" => plan' \in OttoDecisions(ctx)  BY <2>1, <2>3, <2>8
  <2>10. OttoDecisions(Context)' = OttoDecisions(ctx)  BY <2>8 DEF OttoDecisions, Best, KeepsTried
  <2> QED  BY <1>1, <2>2, <2>9, <2>10 DEF PlanIsOttos
<1>5. CASE (panel.sel = d.keep \/ Locked) /\ ActOn(Chosen(d))
  <2>1. CASE UNCHANGED <<vars, plan>>
    <3>1. UNCHANGED <<plan, panel, ruleset, dealt, cache>>  BY <2>1 DEF vars
    <3>2. WeighInv'  BY <1>1, <3>1, CardStays, WeighGoesOn DEF WeighInv
    <3>3. PlanIsOttos'  BY <1>1, <3>1, PlanStays
    <3> QED  BY <3>2, <3>3
  <2>2. CASE plan' = NoPlan /\ \E a \in Chosen(d) : Take(a)
    <3>1. RollOn \/ RollSecondTutto \/ StopAndScore \/ DrawCard  BY <2>2 DEF Take
    <3> QED  BY <1>1, <2>2, <3>1, ActsWeighed, PlansGo
  <2> QED  BY <1>5, <2>1, <2>2 DEF ActOn
<1> QED  BY <1>3, <1>4, <1>5

LEMMA NoPlanNow ==
  ASSUME PlanFits, panel = Closed \/ ~AtRest(panel), plan' = plan PROVE PlanIsOttos'
BY DEF PlanFits, PlanIsOttos

LEMMA OttosTableSteps ==
  ASSUME OttoInv, DismissReveal \/ PanelMoves \/ CardComes PROVE WeighInv' /\ PlanIsOttos'
<1>1. TableInv /\ PlanFits /\ WeighInv /\ PlanIsOttos /\ card \in Cards  BY DealtIsCard DEF OttoInv, BotInv
<1>2. plan' = plan /\ bot' = bot  BY DEF DismissReveal, PanelMoves, CardComes
<1>3. CASE DismissReveal
  <2>1. AcknowledgeDrawnCard /\ ~AtRest(panel)  BY <1>3 DEF DismissReveal, AcknowledgeDrawnCard, AtRest
  <2> QED  BY <1>1, <1>2, <2>1, DismissedWeighed, NoPlanNow
<1>4. CASE Open
  <2>1. panel = Closed  BY <1>4 DEF Open
  <2> QED  BY <1>1, <1>2, <1>4, <2>1, OpensWeighed, NoPlanNow
<1>5. CASE OpeningRoll
  <2>1. ~AtRest(panel)  BY <1>5 DEF OpeningRoll, AtRest
  <2> QED  BY <1>1, <1>2, <1>5, <2>1, TumblesWeighed, NoPlanNow
<1>6. CASE Finalize
  <2>1. ~AtRest(panel)  BY <1>6 DEF Finalize, AtRest
  <2> QED  BY <1>1, <1>2, <1>6, <2>1, LandsWeighed, NoPlanNow
<1>7. CASE SendSnapshot
  <2>1. UNCHANGED <<panel, ruleset, dealt>>  BY <1>7 DEF SendSnapshot, server
  <2> QED  BY <1>1, <1>2, <1>7, <2>1, SentWeighed, PlanStays
<1>8. CASE CardComes
  <2>1. asking # "no" /\ (Deal \/ DrawRefused \/ Drawn)  BY <1>8 DEF CardComes
  <2>2. ~AtRest(panel)  BY <2>1 DEF AtRest
  <2> QED  BY <1>1, <1>2, <2>1, <2>2, ComesWeighed, NoPlanNow
<1> QED  BY <1>3, <1>4, <1>5, <1>6, <1>7, <1>8 DEF PanelMoves

\* The invariant behind Otto's endgame: every step of his table keeps it.
THEOREM OttosTablesHold == BotSpec => []OttoInv
<1>1. BotInit => WeighInv /\ PlanIsOttos /\ bot \in Bots /\ Dealing
  BY DEF BotInit, Init, WeighInv, PlanIsOttos, Dealing
<1>2. OttoInv /\ [BotNext]_botVars => WeighInv' /\ PlanIsOttos' /\ (bot \in Bots)' /\ Dealing'
  <2> SUFFICES ASSUME OttoInv, [BotNext]_botVars PROVE WeighInv' /\ PlanIsOttos' /\ bot' \in Bots /\ Dealing'  OBVIOUS
  <2>1. bot' \in Bots /\ Dealing'
    <3>0. ruleset' = ruleset
      BY DEF BotNext, BotStep, SelectKeep, ActOn, Take, RollOn, RollSecondTutto, StopAndScore, DrawCard, DismissReveal,
             AcknowledgeDrawnCard, PanelMoves, Open, OpeningRoll, Finalize, SendSnapshot, CardComes, Deal, DrawRefused,
             Drawn, LocalReload, botVars, vars, server
    <3>1. bot' = bot
      BY DEF BotNext, BotStep, DismissReveal, PanelMoves, CardComes, LocalReload, botVars
    <3>2. dealt' = dealt \/ \E c \in Cards : dealt' = Append(dealt, c)
      BY DEF BotNext, BotStep, SelectKeep, ActOn, Take, RollOn, RollSecondTutto, StopAndScore, DrawCard, DismissReveal,
             AcknowledgeDrawnCard, PanelMoves, Open, OpeningRoll, Finalize, SendSnapshot, CardComes, Deal, DrawRefused,
             Drawn, LocalReload, botVars, vars, server
    <3>3. Dealing'
      <4>1. dealt \in Seq(Cards) /\ dealt # <<>> /\ ruleset \in {"classic", "modernized"}  BY DEF OttoInv, Dealing
      <4> QED  BY <3>0, <3>2, <4>1 DEF Dealing
    <3> QED  BY <3>1, <3>3 DEF OttoInv
  <2>2. CASE BotStep  BY <2>1, <2>2, OttoSteps
  <2>3. CASE DismissReveal \/ PanelMoves \/ CardComes  BY <2>1, <2>3, OttosTableSteps
  <2>4. CASE LocalReload
    <3>1. panel' = Closed /\ plan' = NoPlan /\ cache' = cache /\ SameCard
      BY <2>4, CardStays DEF LocalReload, TurnGone, server
    <3>2. WeighInv'  BY <3>1 DEF OttoInv, WeighInv, Weighed, Links, SameCard, classic
    <3> QED  BY <2>1, <3>1, <3>2, PlansGo
  <2>5. CASE UNCHANGED botVars
    <3>1. UNCHANGED <<plan, bot, panel, ruleset, dealt, cache>>  BY <2>5 DEF botVars, vars
    <3>2. WeighInv'
      <4>1. SameCard  BY <3>1, CardStays
      <4> QED  BY <3>1, <4>1 DEF OttoInv, WeighInv, Chained, Links, Weighed, SameCard, classic
    <3>3. PlanIsOttos'  BY <3>1, PlanStays DEF OttoInv
    <3> QED  BY <2>1, <3>2, <3>3
  <2> QED  BY <2>2, <2>3, <2>4, <2>5 DEF BotNext
<1> QED  BY <1>1, <1>2, TablesAreSound, PTL DEF BotSpec, OttoInv

-----------------------------------------------------------------------------
\* The deductions of a turn, one after the other.

Charged(scores, acting, befores, rules, f) ==
  [k \in 0..Len(befores) |-> IF k = 0 THEN scores ELSE Engine!AfterPlusMinus(f[k - 1], acting, befores[k], rules)]

LEMMA AfterEachIs ==
  ASSUME NEW scores, NEW acting, NEW befores, NEW rules
  PROVE  Engine!AfterEach(scores, acting, befores, rules) = CHOOSE f : f = Charged(scores, acting, befores, rules, f)
BY DEF Engine!AfterEach, Charged

LEMMA ChargedAt ==
  ASSUME NEW scores, NEW acting, NEW befores, NEW rules, Len(befores) \in Nat, NEW f
  PROVE  /\ Charged(scores, acting, befores, rules, f)[0] = scores
         /\ \A k \in 1..Len(befores) :
              Charged(scores, acting, befores, rules, f)[k] = Engine!AfterPlusMinus(f[k - 1], acting, befores[k], rules)
BY DEF Charged

LEMMA ChargedIsFunction ==
  ASSUME NEW scores, NEW acting, NEW befores, NEW rules, NEW f, NEW g,
         \A k \in 0..Len(befores) : Charged(scores, acting, befores, rules, f)[k]
                                      = Charged(scores, acting, befores, rules, g)[k]
  PROVE  Charged(scores, acting, befores, rules, f) = Charged(scores, acting, befores, rules, g)
BY DEF Charged

\* Functions that keep to the first n deductions.
Charges(scores, acting, befores, rules, f, n) ==
  \A k \in 0..n : f[k] = Charged(scores, acting, befores, rules, f)[k]

LEMMA OnceMoreCharged ==
  ASSUME NEW scores, NEW acting, NEW befores, NEW rules, Len(befores) \in Nat, NEW f, NEW g,
         NEW n \in 0..Len(befores), Charges(scores, acting, befores, rules, f, n),
         g = Charged(scores, acting, befores, rules, f)
  PROVE  \A k \in 0..Len(befores) : k <= n + 1 => g[k] = Charged(scores, acting, befores, rules, g)[k]
<1> SUFFICES ASSUME NEW k \in 0..Len(befores), k <= n + 1
             PROVE g[k] = Charged(scores, acting, befores, rules, g)[k]
  OBVIOUS
<1>1. CASE k = 0
  <2>1. Charged(scores, acting, befores, rules, f)[0] = scores  BY ChargedAt
  <2>2. Charged(scores, acting, befores, rules, g)[0] = scores  BY ChargedAt
  <2> QED  BY <1>1, <2>1, <2>2
<1>2. CASE k # 0
  <2>1. k \in 1..Len(befores) /\ k - 1 \in 0..n  BY <1>2
  <2>2. f[k - 1] = g[k - 1]  BY <2>1 DEF Charges
  <2>3. Charged(scores, acting, befores, rules, f)[k] = Engine!AfterPlusMinus(f[k - 1], acting, befores[k], rules)
    BY <2>1, ChargedAt
  <2>4. Charged(scores, acting, befores, rules, g)[k] = Engine!AfterPlusMinus(g[k - 1], acting, befores[k], rules)
    BY <2>1, ChargedAt
  <2> QED  BY <2>2, <2>3, <2>4
<1> QED  BY <1>1, <1>2

LEMMA ChargesAll ==
  ASSUME NEW scores, NEW acting, NEW befores, NEW rules, Len(befores) \in Nat
  PROVE  \E f : Charges(scores, acting, befores, rules, f, Len(befores))
<1> DEFINE T == {n \in Nat : \E f : Charges(scores, acting, befores, rules, f, n)}
<1>1. 0 \in T
  <2>1. PICK f : f = Charged(scores, acting, befores, rules, <<>>)  OBVIOUS
  <2>2. f[0] = scores  BY <2>1, ChargedAt
  <2>3. Charged(scores, acting, befores, rules, f)[0] = scores  BY ChargedAt
  <2>4. Charges(scores, acting, befores, rules, f, 0)  BY <2>2, <2>3 DEF Charges
  <2> QED  BY <2>4
<1>2. ASSUME NEW n \in 1..Len(befores), n - 1 \in T PROVE n \in T
  <2>1. PICK f : Charges(scores, acting, befores, rules, f, n - 1)  BY <1>2
  <2>2. PICK m \in 0..Len(befores) : m = n - 1  OBVIOUS
  <2>3. PICK g : g = Charged(scores, acting, befores, rules, f)  OBVIOUS
  <2>4. \A k \in 0..Len(befores) : k <= m + 1 => g[k] = Charged(scores, acting, befores, rules, g)[k]
    <3>1. Charges(scores, acting, befores, rules, f, m)  BY <2>1, <2>2
    <3> QED  BY <2>3, <3>1, OnceMoreCharged
  <2>5. Charges(scores, acting, befores, rules, g, n)  BY <2>2, <2>4 DEF Charges
  <2> QED  BY <2>5
<1>3. Len(befores) \in T
  <2> HIDE DEF T
  <2>1. \A n \in 0..Len(befores) : n \in T  BY <1>1, <1>2, UpTo
  <2> QED  BY <2>1
<1> QED  BY <1>3

LEMMA AfterEachAt ==
  ASSUME NEW scores, NEW acting, NEW befores, NEW rules, Len(befores) \in Nat
  PROVE  LET f == Engine!AfterEach(scores, acting, befores, rules)
         IN /\ f[0] = scores
            /\ \A k \in 1..Len(befores) : f[k] = Engine!AfterPlusMinus(f[k - 1], acting, befores[k], rules)
<1>1. PICK f : Charges(scores, acting, befores, rules, f, Len(befores))  BY ChargesAll
<1>2. PICK g : g = Charged(scores, acting, befores, rules, f)  OBVIOUS
<1>3. PICK n \in 0..Len(befores) : n = Len(befores)  OBVIOUS
<1>4. \A k \in 0..Len(befores) : k <= n + 1 => g[k] = Charged(scores, acting, befores, rules, g)[k]
  <2>1. Charges(scores, acting, befores, rules, f, n)  BY <1>1, <1>3
  <2> QED  BY <1>2, <2>1, OnceMoreCharged
<1>5. \A k \in 0..Len(befores) : Charged(scores, acting, befores, rules, f)[k]
                                   = Charged(scores, acting, befores, rules, g)[k]
  BY <1>2, <1>3, <1>4
<1>6. g = Charged(scores, acting, befores, rules, g)  BY <1>2, <1>5, ChargedIsFunction
<1>7. PICK h : h = Engine!AfterEach(scores, acting, befores, rules)  OBVIOUS
<1>8. h = Charged(scores, acting, befores, rules, h)  BY <1>6, <1>7, AfterEachIs
<1>9. /\ Charged(scores, acting, befores, rules, h)[0] = scores
      /\ \A k \in 1..Len(befores) :
           Charged(scores, acting, befores, rules, h)[k] = Engine!AfterPlusMinus(h[k - 1], acting, befores[k], rules)
  BY ChargedAt
<1> QED  BY <1>7, <1>8, <1>9

-----------------------------------------------------------------------------
\* The engine's table has the bot in its last seat, the bot's list has it first.

Table1(t, n) == DOMAIN t = 1..(n + 1) /\ \A i \in 1..(n + 1) : t[i] \in Int
Turned(t, b, n) == Table1(t, n) /\ Table1(b, n) /\ t[n + 1] = b[1] /\ \A i \in 1..n : t[i] = b[i + 1]

Standing1(scores, acting, before, rules) ==
  [i \in DOMAIN scores |-> scores[i] + (IF rules = "classic" /\ i = acting THEN before ELSE 0)]
Leads(st, i) == \A j \in DOMAIN st : st[j] <= st[i]
Pays(st, acting, rules, i) == Leads(st, i) /\ i # acting /\ ~(rules # "classic" /\ Leads(st, acting))
Lessened(rules, n) == IF rules = "classic" THEN Engine!Floor(n - Engine!PLUS_MINUS_SCORE) ELSE n - Engine!PLUS_MINUS_SCORE

LEMMA PlusMinusIs ==
  ASSUME NEW scores, NEW acting \in DOMAIN scores, NEW before, NEW rules, NEW st,
         st = Standing1(scores, acting, before, rules)
  PROVE  LET r == Engine!AfterPlusMinus(scores, acting, before, rules)
         IN /\ DOMAIN r = DOMAIN scores
            /\ \A i \in DOMAIN scores : r[i] = IF Pays(st, acting, rules, i) THEN Lessened(rules, scores[i]) ELSE scores[i]
<1> DEFINE leaders == {i \in DOMAIN scores : \A j \in DOMAIN scores : st[j] <= st[i]}
           payers == IF rules # "classic" /\ acting \in leaders THEN {} ELSE leaders \ {acting}
<1>1. Engine!AfterPlusMinus(scores, acting, before, rules)
        = [i \in DOMAIN scores |-> IF i \in payers THEN Lessened(rules, scores[i]) ELSE scores[i]]
  BY DEF Engine!AfterPlusMinus, Standing1, Lessened
<1>2. DOMAIN st = DOMAIN scores  BY DEF Standing1
<1>3. ASSUME NEW i \in DOMAIN scores PROVE i \in payers <=> Pays(st, acting, rules, i)
  BY <1>2 DEF Pays, Leads
<1> HIDE DEF payers
<1> QED  BY <1>1, <1>3

LEMMA LessenedIs == ASSUME NEW rules, NEW n \in Int PROVE Lessened(rules, n) \in Int
BY DEF Lessened, Engine!Floor, Engine!PLUS_MINUS_SCORE

LEMMA TurnedLeads ==
  ASSUME NEW n \in Nat, NEW t, NEW b, Turned(t, b, n)
  PROVE  (Leads(t, n + 1) <=> Leads(b, 1)) /\ \A i \in 1..n : Leads(t, i) <=> Leads(b, i + 1)
<1>1. /\ DOMAIN t = 1..(n + 1) /\ DOMAIN b = 1..(n + 1) /\ t[n + 1] = b[1] /\ \A i \in 1..n : t[i] = b[i + 1]
  BY DEF Turned, Table1
<1>2. ASSUME NEW x PROVE (\A j \in DOMAIN t : t[j] <= x) <=> (\A j \in DOMAIN b : b[j] <= x)
  <2>1. ASSUME \A j \in DOMAIN t : t[j] <= x, NEW j \in 1..(n + 1) PROVE b[j] <= x
    <3>1. CASE j = 1
      <4>1. t[n + 1] <= x  BY <1>1, <2>1
      <4> QED  BY <1>1, <3>1, <4>1
    <3>2. CASE j # 1
      <4>1. j - 1 \in 1..n /\ j - 1 \in DOMAIN t /\ (j - 1) + 1 = j  BY <1>1, <3>2
      <4>2. t[j - 1] <= x /\ t[j - 1] = b[j]  BY <1>1, <2>1, <4>1
      <4> QED  BY <4>2
    <3> QED  BY <3>1, <3>2
  <2>2. ASSUME \A j \in DOMAIN b : b[j] <= x, NEW j \in 1..(n + 1) PROVE t[j] <= x
    <3>1. CASE j = n + 1
      <4>1. b[1] <= x  BY <1>1, <2>2
      <4> QED  BY <1>1, <3>1, <4>1
    <3>2. CASE j # n + 1
      <4>1. j \in 1..n /\ j + 1 \in DOMAIN b  BY <1>1, <3>2
      <4>2. b[j + 1] <= x /\ t[j] = b[j + 1]  BY <1>1, <2>2, <4>1
      <4> QED  BY <4>2
    <3> QED  BY <3>1, <3>2
  <2> QED  BY <1>1, <2>1, <2>2
<1>3. Leads(t, n + 1) <=> Leads(b, 1)  BY <1>1, <1>2 DEF Leads
<1>4. ASSUME NEW i \in 1..n PROVE Leads(t, i) <=> Leads(b, i + 1)
  <2>1. t[i] = b[i + 1]  BY <1>1
  <2> QED  BY <1>2, <2>1 DEF Leads
<1> QED  BY <1>3, <1>4

\* A deduction hits the same players by either list, and never the bot.
LEMMA TurnedOnce ==
  ASSUME NEW n \in Nat, NEW t, NEW b, Turned(t, b, n), NEW rules, NEW x \in Int, NEW y \in Int, rules = "classic" => x = y
  PROVE  LET u == Engine!AfterPlusMinus(t, n + 1, x, rules)
             c == Engine!AfterPlusMinus(b, 1, y, rules)
         IN Turned(u, c, n) /\ u[n + 1] = t[n + 1]
<1>1. /\ DOMAIN t = 1..(n + 1) /\ DOMAIN b = 1..(n + 1) /\ t[n + 1] = b[1] /\ \A i \in 1..n : t[i] = b[i + 1]
      /\ \A i \in 1..(n + 1) : t[i] \in Int /\ b[i] \in Int
  BY DEF Turned, Table1
<1>2. PICK st, sb : st = Standing1(t, n + 1, x, rules) /\ sb = Standing1(b, 1, y, rules)  OBVIOUS
<1>3. /\ DOMAIN st = 1..(n + 1) /\ DOMAIN sb = 1..(n + 1)
      /\ \A i \in 1..(n + 1) : st[i] = t[i] + (IF rules = "classic" /\ i = n + 1 THEN x ELSE 0)
      /\ \A i \in 1..(n + 1) : sb[i] = b[i] + (IF rules = "classic" /\ i = 1 THEN y ELSE 0)
  BY <1>1, <1>2 DEF Standing1
<1>4. ASSUME NEW i \in 1..(n + 1) PROVE st[i] \in Int /\ sb[i] \in Int
  <2>1. t[i] \in Int /\ b[i] \in Int  BY <1>1
  <2>2. (st[i] = t[i] + x \/ st[i] = t[i] + 0) /\ (sb[i] = b[i] + y \/ sb[i] = b[i] + 0)  BY <1>3
  <2> QED  BY <2>1, <2>2
<1>5. st[n + 1] = sb[1]
  <2>1. n + 1 \in 1..(n + 1) /\ 1 \in 1..(n + 1)  OBVIOUS
  <2> QED  BY <1>1, <1>3, <2>1
<1>6. ASSUME NEW i \in 1..n PROVE st[i] = sb[i + 1]
  <2>1. i \in 1..(n + 1) /\ i + 1 \in 1..(n + 1) /\ i # n + 1 /\ i + 1 # 1  OBVIOUS
  <2> QED  BY <1>1, <1>3, <2>1
<1>7. Turned(st, sb, n)  BY <1>3, <1>4, <1>5, <1>6 DEF Turned, Table1
<1>8. (Leads(st, n + 1) <=> Leads(sb, 1)) /\ \A i \in 1..n : Leads(st, i) <=> Leads(sb, i + 1)
  BY <1>7, TurnedLeads
<1>9. ASSUME NEW i \in 1..n PROVE Pays(st, n + 1, rules, i) <=> Pays(sb, 1, rules, i + 1)
  <2>1. i # n + 1 /\ i + 1 # 1  OBVIOUS
  <2> QED  BY <1>8, <2>1 DEF Pays
<1>10. ~Pays(st, n + 1, rules, n + 1) /\ ~Pays(sb, 1, rules, 1)  BY DEF Pays
<1>11. PICK u, c : u = Engine!AfterPlusMinus(t, n + 1, x, rules) /\ c = Engine!AfterPlusMinus(b, 1, y, rules)  OBVIOUS
<1>12. /\ DOMAIN u = 1..(n + 1)
       /\ \A i \in 1..(n + 1) : u[i] = IF Pays(st, n + 1, rules, i) THEN Lessened(rules, t[i]) ELSE t[i]
  <2>1. PICK acting \in DOMAIN t : acting = n + 1  BY <1>1
  <2>2. st = Standing1(t, acting, x, rules) /\ u = Engine!AfterPlusMinus(t, acting, x, rules)
    BY <1>2, <1>11, <2>1
  <2>3. /\ DOMAIN u = DOMAIN t
        /\ \A i \in DOMAIN t : u[i] = IF Pays(st, acting, rules, i) THEN Lessened(rules, t[i]) ELSE t[i]
    BY <2>2, PlusMinusIs
  <2> QED  BY <1>1, <2>1, <2>3
<1>13. /\ DOMAIN c = 1..(n + 1)
       /\ \A i \in 1..(n + 1) : c[i] = IF Pays(sb, 1, rules, i) THEN Lessened(rules, b[i]) ELSE b[i]
  <2>1. PICK acting \in DOMAIN b : acting = 1  BY <1>1
  <2>2. sb = Standing1(b, acting, y, rules) /\ c = Engine!AfterPlusMinus(b, acting, y, rules)
    BY <1>2, <1>11, <2>1
  <2>3. /\ DOMAIN c = DOMAIN b
        /\ \A i \in DOMAIN b : c[i] = IF Pays(sb, acting, rules, i) THEN Lessened(rules, b[i]) ELSE b[i]
    BY <2>2, PlusMinusIs
  <2> QED  BY <1>1, <2>1, <2>3
<1>14. \A i \in 1..(n + 1) : u[i] \in Int /\ c[i] \in Int  BY <1>1, <1>12, <1>13, LessenedIs
<1>15. u[n + 1] = t[n + 1] /\ c[1] = b[1]
  <2>1. n + 1 \in 1..(n + 1) /\ 1 \in 1..(n + 1)  OBVIOUS
  <2> QED  BY <1>10, <1>12, <1>13, <2>1
<1>16. ASSUME NEW i \in 1..n PROVE u[i] = c[i + 1]
  <2>1. i \in 1..(n + 1) /\ i + 1 \in 1..(n + 1)  OBVIOUS
  <2>2. t[i] = b[i + 1]  BY <1>1
  <2> QED  BY <1>9, <1>12, <1>13, <2>1, <2>2
<1>17. Turned(u, c, n)  BY <1>1, <1>12, <1>13, <1>14, <1>15, <1>16 DEF Turned, Table1
<1> QED  BY <1>11, <1>15, <1>17

LEMMA TurnedThroughout ==
  ASSUME NEW n \in Nat, NEW t, NEW b, Turned(t, b, n), NEW rules,
         NEW xs, NEW ys, Len(xs) \in Nat, Len(ys) = Len(xs),
         \A k \in 1..Len(xs) : xs[k] \in Int /\ ys[k] \in Int /\ (rules = "classic" => xs[k] = ys[k])
  PROVE  LET u == Engine!AfterEach(t, n + 1, xs, rules)
             c == Engine!AfterEach(b, 1, ys, rules)
         IN Turned(u[Len(xs)], c[Len(xs)], n) /\ u[Len(xs)][n + 1] = t[n + 1]
<1>1. PICK u, c : u = Engine!AfterEach(t, n + 1, xs, rules) /\ c = Engine!AfterEach(b, 1, ys, rules)  OBVIOUS
<1>2. u[0] = t /\ \A k \in 1..Len(xs) : u[k] = Engine!AfterPlusMinus(u[k - 1], n + 1, xs[k], rules)
  BY <1>1, AfterEachAt
<1>3. c[0] = b /\ \A k \in 1..Len(xs) : c[k] = Engine!AfterPlusMinus(c[k - 1], 1, ys[k], rules)
  BY <1>1, AfterEachAt
<1> DEFINE T == {k \in Nat : Turned(u[k], c[k], n) /\ u[k][n + 1] = t[n + 1]}
<1>4. 0 \in T  BY <1>2, <1>3
<1>5. ASSUME NEW k \in 1..Len(xs), k - 1 \in T PROVE k \in T
  <2>1. Turned(u[k - 1], c[k - 1], n) /\ u[k - 1][n + 1] = t[n + 1]  BY <1>5
  <2>2. PICK x \in Int, y \in Int : x = xs[k] /\ y = ys[k] /\ (rules = "classic" => x = y)  OBVIOUS
  <2>3. PICK v, d : v = u[k - 1] /\ d = c[k - 1]  OBVIOUS
  <2>4. u[k] = Engine!AfterPlusMinus(v, n + 1, x, rules) /\ c[k] = Engine!AfterPlusMinus(d, 1, y, rules)
    BY <1>2, <1>3, <2>2, <2>3
  <2>5. Turned(u[k], c[k], n) /\ u[k][n + 1] = v[n + 1]  BY <2>1, <2>2, <2>3, <2>4, TurnedOnce
  <2> QED  BY <2>1, <2>3, <2>5
<1>6. Len(xs) \in T
  <2> HIDE DEF T
  <2>1. \A k \in 0..Len(xs) : k \in T  BY <1>4, <1>5, UpTo
  <2> QED  BY <2>1
<1> QED  BY <1>1, <1>6

-----------------------------------------------------------------------------
\* What a banked turn of the last seat does to the engine's table.

PlayerFields == {"name", "score", "stat"}

Holding(ps, scores) ==
  /\ \A i \in DOMAIN ps : DOMAIN ps[i] = PlayerFields /\ scores[i] = ps[i].score
  /\ scores \in [DOMAIN ps -> Int]

Docked(d, ps, after) ==
  /\ DOMAIN d = DOMAIN ps /\ \E V : d \in [DOMAIN ps -> V]
  /\ \A i \in DOMAIN ps : DOMAIN d[i] = PlayerFields /\ d[i].score = after[i]

\* A player with new points and a new count of deductions.
Dock(p, score, c) == [p EXCEPT !.score = score, !.stat["times1000PointsDeducted"] = c]

LEMMA DockKeeps ==
  ASSUME NEW p, DOMAIN p = PlayerFields, NEW score, NEW c
  PROVE  DOMAIN Dock(p, score, c) = PlayerFields /\ Dock(p, score, c).score = score
<1>1. PICK st : st = [p.stat EXCEPT !["times1000PointsDeducted"] = c]  OBVIOUS
<1>2. Dock(p, score, c) = [p EXCEPT !.score = score, !.stat = st]  BY Zenon, <1>1 DEF Dock
<1> QED  BY <1>2 DEF PlayerFields

LEMMA ScoresOf ==
  ASSUME NEW ps, NEW scores, Holding(ps, scores)
  PROVE  [i \in DOMAIN ps |-> ps[i].score] = scores
<1> DEFINE f == [i \in DOMAIN ps |-> ps[i].score]
<1>1. \A i \in DOMAIN ps : f[i] = scores[i]  BY DEF Holding
<1>2. f = [i \in DOMAIN ps |-> f[i]]  OBVIOUS
<1>3. scores = [i \in DOMAIN ps |-> scores[i]]  BY DEF Holding
<1> HIDE DEF f
<1>4. f = scores  BY <1>1, <1>2, <1>3
<1> QED  BY <1>4 DEF f

LEMMA DeductIs ==
  ASSUME NEW ps, NEW scores, Holding(ps, scores), NEW acting, NEW befores, NEW rules,
         NEW d, d = Engine!Deduct(ps, acting, befores, rules).players
  PROVE  Docked(d, ps, Engine!AfterEach(scores, acting, befores, rules)[Len(befores)])
<1> DEFINE after == Engine!AfterEach([i \in DOMAIN ps |-> ps[i].score], acting, befores, rules)
<1>0. \A i \in DOMAIN ps : DOMAIN ps[i] = PlayerFields  BY DEF Holding
<1>1. [i \in DOMAIN ps |-> ps[i].score] = scores  BY ScoresOf
<1>3. ASSUME NEW i \in DOMAIN ps
      PROVE  \E c : d[i] = Dock(ps[i], after[Len(befores)][i], c)
  BY ZenonT(60) DEF Engine!Deduct, Engine!Deducted, Dock
<1>7. d = [i \in DOMAIN ps |-> d[i]]  BY DEF Engine!Deduct
<1>6. after = Engine!AfterEach(scores, acting, befores, rules)  BY <1>1 DEF after
<1> HIDE DEF after
<1>8. \E V : d \in [DOMAIN ps -> V]
  <2>1. PICK V : V = {d[i] : i \in DOMAIN ps}  OBVIOUS
  <2>2. d \in [DOMAIN ps -> V]  BY <1>7, <2>1
  <2> QED  BY <2>2
<1>4. ASSUME NEW i \in DOMAIN ps
      PROVE  DOMAIN d[i] = PlayerFields /\ d[i].score = after[Len(befores)][i]
  <2>1. PICK c : d[i] = Dock(ps[i], after[Len(befores)][i], c)  BY <1>3
  <2> QED  BY <1>0, <2>1, DockKeeps
<1>5. DOMAIN d = DOMAIN ps  BY <1>7
<1> QED  BY <1>4, <1>5, <1>6, <1>8 DEF Docked

\* The counters of a turn leave the points alone.
LEMMA BumpKeeps ==
  ASSUME NEW p, DOMAIN p = PlayerFields, NEW counters
  PROVE  DOMAIN Engine!Bump(p, counters) = PlayerFields /\ Engine!Bump(p, counters).score = p.score
<1>1. PICK st : Engine!Bump(p, counters) = [p EXCEPT !.stat = st]  BY DEF Engine!Bump
<1> QED  BY <1>1 DEF PlayerFields

LEMMA SummaryKeeps ==
  ASSUME NEW p, DOMAIN p = PlayerFields, NEW summary
  PROVE  LET q == Engine!ApplySummary(p, summary, TRUE) IN DOMAIN q = PlayerFields /\ q.score = p.score
<1> DEFINE b == [p EXCEPT !.stat = [s \in Engine!Stats |-> @[s] + Engine!Moves(summary.cards, s)]]
<1>1. DOMAIN b = PlayerFields /\ b.score = p.score  BY DEF PlayerFields
<1>2. PICK x, y, z, w : Engine!ApplySummary(p, summary, TRUE) =
        [b EXCEPT !.stat["busts"] = @ + x, !.stat["totalTuttos"] = @ + y, !.stat["mostCardsInTurn"] = z,
                  !.stat["highestForfeitedTurnScore"] = w]
  BY DEF Engine!ApplySummary
<1> HIDE DEF b
<1> QED  BY <1>1, <1>2 DEF PlayerFields

LEMMA TurnKeeps ==
  ASSUME NEW p, DOMAIN p = PlayerFields, NEW c, NEW score
  PROVE  LET q == Engine!ApplyTurn(p, c, TRUE, score) IN DOMAIN q = PlayerFields /\ q.score = p.score
<1>1. PICK q, b : /\ q = Engine!ApplyTurn(p, c, TRUE, score)
                  /\ b = Engine!Bump(p, Engine!TurnCounters(c, TRUE, Engine!IsBust(c, TRUE)))
  OBVIOUS
<1>2. DOMAIN b = PlayerFields /\ b.score = p.score  BY <1>1, BumpKeeps
<1>3. PICK new : q = [b EXCEPT !.stat = new]  BY <1>1 DEF Engine!ApplyTurn
<1> QED  BY <1>1, <1>2, <1>3 DEF PlayerFields

LEMMA BestKeeps ==
  ASSUME NEW p, DOMAIN p = PlayerFields, NEW c, NEW b, b \in BOOLEAN, NEW score, NEW q, q = Engine!ApplyBest(p, c, b, score)
  PROVE  DOMAIN q = PlayerFields /\ q.score = p.score
<1>1. PICK st : q = [p EXCEPT !.stat = st]  BY DEF Engine!ApplyBest
<1> QED  BY <1>1 DEF PlayerFields

\* The table a bot's standings make.
LEMMA TableStands ==
  ASSUME bot.others \in Seq(Int)
  PROVE  /\ DOMAIN Table.players = 1..(Len(bot.others) + 1) /\ Len(Table.players) = Len(bot.others) + 1
         /\ \A i \in DOMAIN Table.players : DOMAIN Table.players[i] = PlayerFields
         /\ Table.players[Len(bot.others) + 1].score = bot.mine
         /\ \A i \in 1..Len(bot.others) : Table.players[i].score = bot.others[i]
         /\ Table.currentPlayerIndex = Len(bot.others) + 1 /\ Table.currentCard = card
         /\ Table.winningScore = bot.winning
<1>1. PICK os, n : os = bot.others /\ n = Len(os)  OBVIOUS
<1>2. n \in Nat /\ DOMAIN os = 1..n /\ os \in Seq(Int)  BY <1>1
<1>3. ASSUME NEW s PROVE DOMAIN Scored(s) = PlayerFields /\ Scored(s).score = s
  <2>1. PICK f : f = Engine!FreshPlayer("player")  OBVIOUS
  <2>2. DOMAIN f = PlayerFields  BY <2>1 DEF Engine!FreshPlayer, PlayerFields
  <2>3. Scored(s) = [f EXCEPT !.score = s]  BY <2>1 DEF Scored
  <2> QED  BY <2>2, <2>3 DEF PlayerFields
<1>4. PICK q : q = [i \in DOMAIN os |-> Scored(os[i])]  OBVIOUS
<1>5. DOMAIN q = 1..n /\ \A i \in 1..n : q[i] = Scored(os[i])  BY <1>2, <1>4
<1>6. PICK V : V = {q[i] : i \in 1..n} \cup {Scored(bot.mine)}  OBVIOUS
<1>7. q \in Seq(V) /\ Len(q) = n
  <2>1. q \in [1..n -> V]  BY <1>2, <1>4, <1>6
  <2> QED  BY <1>2, <2>1
<1>8. PICK me : me = Scored(bot.mine)  OBVIOUS
<1>9. Table.players = Append(q, me)  BY <1>1, <1>4, <1>8 DEF Table
<1>10. me \in V  BY <1>6, <1>8
<1>11. PICK ps : ps = Append(q, me)  OBVIOUS
<1>12. ps \in Seq(V) /\ Len(ps) = n + 1 /\ ps[n + 1] = me /\ \A i \in 1..n : ps[i] = q[i]
  BY <1>2, <1>7, <1>10, <1>11
<1>13. DOMAIN ps = 1..(n + 1)  BY <1>2, <1>12
<1>14. ASSUME NEW i \in 1..(n + 1) PROVE DOMAIN ps[i] = PlayerFields
  <2>1. CASE i = n + 1  BY <1>3, <1>8, <1>12, <2>1
  <2>2. CASE i # n + 1
    <3>1. i \in 1..n  BY <1>2, <2>2
    <3>2. ps[i] = Scored(os[i])  BY <1>5, <1>12, <3>1
    <3> QED  BY <1>3, <3>2
  <2> QED  BY <2>1, <2>2
<1>15. \A i \in 1..n : ps[i].score = os[i]  BY <1>3, <1>5, <1>12
<1>16. ps[n + 1].score = bot.mine  BY <1>3, <1>8, <1>12
<1>17. Table.currentPlayerIndex = n + 1 /\ Table.currentCard = card /\ Table.winningScore = bot.winning
  BY <1>1 DEF Table
<1> QED  BY <1>1, <1>9, <1>11, <1>12, <1>13, <1>14, <1>15, <1>16, <1>17

\* The table when the bot banks: the deductions of its turn, then its points.
Befores(summary, paid) ==
  IF summary # None THEN summary.plusMinusScores ELSE IF card = "Plus_Minus" THEN <<paid>> ELSE <<>>
Rules(summary) == IF summary # None THEN "classic" ELSE "modernized"

Stands(t, n) ==
  /\ n \in Nat /\ n = Len(bot.others) /\ bot.others \in Seq(Int) /\ bot.mine \in Int
  /\ t \in [1..(n + 1) -> Int] /\ t[n + 1] = bot.mine /\ \A i \in 1..n : t[i] = bot.others[i]
Paying(summary, score) == IF summary # None THEN score ELSE Engine!TurnScore(card, score, TRUE)

Banks(score, summary) == Engine!CalculateNextTurn(Table, score, TRUE, summary)
HitOf(t, n, befores, rules) == Engine!AfterEach(t, n + 1, befores, rules)[Len(befores)]

Banking(res, u, paid, n) ==
  /\ DOMAIN res.players = 1..(n + 1) /\ Len(res.players) = n + 1
  /\ \A i \in 1..n : res.players[i].score = u[i]
  /\ res.players[n + 1].score = u[n + 1] + paid
  /\ res.order = Engine!AdvanceTurnOrder(res.players, n + 1, Table.round, bot.winning)

LEMMA BankedTable ==
  ASSUME card # "Kleeblatt", NEW summary, NEW score, NEW paid, paid = Paying(summary, score), NEW n, NEW t, Stands(t, n),
         NEW res, res = Banks(score, summary), NEW u, u = HitOf(t, n, Befores(summary, paid), Rules(summary))
  PROVE  Banking(res, u, paid, n)
<1>1. PICK g, ps : g = Table /\ ps = Table.players  OBVIOUS
<1>2. /\ n \in Nat /\ DOMAIN ps = 1..(n + 1) /\ \A i \in 1..(n + 1) : DOMAIN ps[i] = PlayerFields
      /\ ps[n + 1].score = bot.mine /\ (\A i \in 1..n : ps[i].score = bot.others[i])
      /\ g.players = ps /\ g.currentPlayerIndex = n + 1 /\ g.currentCard = card /\ g.winningScore = bot.winning
  BY <1>1, TableStands DEF Stands
<1>0. t \in [1..(n + 1) -> Int] /\ t[n + 1] = bot.mine /\ \A i \in 1..n : t[i] = bot.others[i]  BY DEF Stands
<1>3. PICK b : b = Engine!Bump(ps[n + 1], {"totalTurns"})  OBVIOUS
<1>4. PICK counted : counted = IF summary # None THEN Engine!ApplySummary(b, summary, TRUE)
                               ELSE Engine!ApplyTurn(b, card, TRUE, paid)
  OBVIOUS
<1>5. DOMAIN counted = PlayerFields /\ counted.score = bot.mine
  <2>1. n + 1 \in 1..(n + 1)  BY <1>2
  <2>2. PICK p : p = ps[n + 1]  OBVIOUS
  <2>3. DOMAIN p = PlayerFields /\ p.score = bot.mine  BY <1>2, <2>1, <2>2
  <2>4. DOMAIN b = PlayerFields /\ b.score = bot.mine  BY <1>3, <2>2, <2>3, BumpKeeps
  <2>5. CASE summary # None  BY <1>4, <2>4, <2>5, SummaryKeeps
  <2>6. CASE summary = None
    <3>1. PICK c : c = card  OBVIOUS
    <3>2. counted = Engine!ApplyTurn(b, c, TRUE, paid)  BY <1>4, <2>6, <3>1
    <3> QED  BY <2>4, <3>2, TurnKeeps
  <2> QED  BY <2>5, <2>6
<1>6. PICK qs : qs = [ps EXCEPT ![n + 1] = counted]  OBVIOUS
<1>7. DOMAIN qs = 1..(n + 1) /\ qs[n + 1] = counted /\ \A i \in 1..n : qs[i] = ps[i]
  BY <1>2, <1>6
<1>8. ASSUME NEW i \in 1..(n + 1) PROVE DOMAIN qs[i] = PlayerFields /\ qs[i].score = t[i]
  <2>1. CASE i = n + 1  BY <1>0, <1>5, <1>7, <2>1
  <2>2. CASE i # n + 1
    <3>1. i \in 1..n  BY <1>2, <2>2
    <3> QED  BY <1>0, <1>2, <1>7, <3>1
  <2> QED  BY <2>1, <2>2
<1>12. PICK befores, rules : befores = Befores(summary, paid) /\ rules = Rules(summary)  OBVIOUS
<1>13. PICK paidOut : paidOut = Engine!Deduct(qs, n + 1, befores, rules)  OBVIOUS
<1>14. u = Engine!AfterEach(t, n + 1, befores, rules)[Len(befores)]  BY <1>12 DEF HitOf
<1>15. PICK d : d = paidOut.players  OBVIOUS
<1>16. DOMAIN d = 1..(n + 1) /\ (\E V : d \in [1..(n + 1) -> V]) /\ \A i \in 1..(n + 1) : DOMAIN d[i] = PlayerFields /\ d[i].score = u[i]
  <2>1. PICK acting : acting = n + 1  OBVIOUS
  <2>2. \A i \in DOMAIN qs : DOMAIN qs[i] = PlayerFields  BY <1>7, <1>8
  <2>3. d = Engine!Deduct(qs, acting, befores, rules).players  BY <1>13, <1>15, <2>1
  <2>4. Docked(d, qs, Engine!AfterEach(t, acting, befores, rules)[Len(befores)])
    <3>1. Holding(qs, t)  BY <1>0, <1>7, <1>8, <2>2 DEF Holding
    <3> QED  BY <2>3, <3>1, DeductIs
  <2>5. Docked(d, qs, u)  BY <1>14, <2>1, <2>4
  <2> QED  BY <1>7, <2>5 DEF Docked
<1>17. res = Engine!CalculateNextTurn(Table, score, TRUE, summary)  BY DEF Banks
<1>18. res = Engine!PayActor(g, paid, TRUE, summary, paidOut)
  BY <1>1, <1>2, <1>3, <1>4, <1>6, <1>12, <1>13, <1>17 DEF Engine!CalculateNextTurn, Befores, Rules, Paying
<1>19. PICK best, final : /\ best = Engine!ApplyBest(d[n + 1], card, summary # None, paid)
                          /\ final = [best EXCEPT !.score = @ + paid]
  OBVIOUS
<1>20. final.score = u[n + 1] + paid
  <2>1. n + 1 \in 1..(n + 1)  BY <1>2
  <2>2. PICK p : p = d[n + 1]  OBVIOUS
  <2>3. DOMAIN p = PlayerFields /\ p.score = u[n + 1]  BY <1>16, <2>1, <2>2
  <2>4. PICK b2 \in BOOLEAN : b2 = (summary # None)  OBVIOUS
  <2>5. PICK c : c = card /\ best = Engine!ApplyBest(p, c, b2, paid)  BY <1>19, <2>2, <2>4
  <2>6. DOMAIN best = PlayerFields /\ best.score = u[n + 1]  BY <2>3, <2>5, BestKeeps
  <2> QED  BY <1>19, <2>6 DEF PlayerFields
<1>21. PICK fs : fs = [d EXCEPT ![n + 1] = final]  OBVIOUS
<1>22. res = Engine!TurnResult(g, paid, TRUE, summary, paidOut.hits, fs)
  BY <1>2, <1>15, <1>18, <1>19, <1>21 DEF Engine!PayActor
<1>23. /\ res.players = fs
       /\ res.order = Engine!AdvanceTurnOrder(fs, n + 1, g.round, bot.winning)
  BY <1>2, <1>22 DEF Engine!TurnResult
<1>24. DOMAIN fs = 1..(n + 1) /\ fs[n + 1] = final /\ \A i \in 1..n : fs[i] = d[i]  BY <1>2, <1>16, <1>21
<1>25. \A i \in 1..n : fs[i].score = u[i]  BY <1>2, <1>16, <1>24
<1>26. Len(fs) = n + 1
  <2>1. PICK V : d \in [1..(n + 1) -> V]  BY <1>16
  <2>2. PICK W : W = V \cup {final}  OBVIOUS
  <2>3. fs \in [1..(n + 1) -> W]  BY <1>21, <2>1, <2>2
  <2>4. fs \in Seq(W)  BY <1>2, <2>3
  <2> QED  BY <1>2, <1>24, <2>4
<1> QED  BY <1>1, <1>20, <1>23, <1>24, <1>25, <1>26 DEF Banking

-----------------------------------------------------------------------------
\* Who has won: the engine's search for a winner and Otto's count of the leaders agree.

Wins(st, i, w) == i \in DOMAIN st /\ w <= st[i] /\ \A j \in DOMAIN st \ {i} : st[j] < st[i]
Outcome(st, w) ==
  IF Wins(st, 1, w) THEN "win" ELSE IF \E i \in DOMAIN st : Wins(st, i, w) THEN "loss" ELSE "continue"

LEMMA WinnerIsLeader ==
  ASSUME NEW n \in Nat, NEW st, Table1(st, n), NEW w \in Int,
         NEW lead, \A i : i \in lead <=> i \in DOMAIN st /\ Leads(st, i)
  PROVE  /\ \A i \in DOMAIN st : Wins(st, i, w) <=> lead = {i} /\ w <= st[i]
         /\ Cardinality(lead) = 1 <=> \E i \in DOMAIN st : lead = {i}
<1>1. DOMAIN st = 1..(n + 1) /\ \A i \in 1..(n + 1) : st[i] \in Int  BY DEF Table1
<1>2. ASSUME NEW i \in DOMAIN st, Wins(st, i, w) PROVE lead = {i} /\ w <= st[i]
  <2>1. Leads(st, i)  BY <1>1, <1>2 DEF Wins, Leads
  <2>2. ASSUME NEW j \in DOMAIN st, j # i PROVE ~Leads(st, j)
    <3>1. st[j] < st[i] /\ st[i] \in Int /\ st[j] \in Int  BY <1>1, <1>2, <2>2 DEF Wins
    <3>2. ~(st[i] <= st[j])  BY <3>1
    <3> QED  BY <3>2 DEF Leads
  <2>3. \A j : j \in lead <=> j = i  BY <2>1, <2>2
  <2> QED  BY <1>2, <2>3 DEF Wins
<1>3. ASSUME NEW i \in DOMAIN st, lead = {i}, w <= st[i] PROVE Wins(st, i, w)
  <2>1. Leads(st, i)  BY <1>3
  <2>2. ASSUME NEW j \in DOMAIN st \ {i} PROVE st[j] < st[i]
    <3>1. j \notin lead  BY <1>3
    <3>2. PICK l \in DOMAIN st : ~(st[l] <= st[j])  BY <3>1 DEF Leads
    <3>3. st[l] <= st[i]  BY <2>1 DEF Leads
    <3>4. st[l] \in Int /\ st[j] \in Int /\ st[i] \in Int  BY <1>1
    <3> QED  BY <3>2, <3>3, <3>4
  <2> QED  BY <1>3, <2>2 DEF Wins
<1>4. Cardinality(lead) = 1 <=> \E i \in DOMAIN st : lead = {i}
  <2>1. IsFiniteSet(1..(n + 1))  BY FS_Interval
  <2>2. lead \subseteq 1..(n + 1)  BY <1>1
  <2>3. IsFiniteSet(lead)  BY <2>1, <2>2, FS_Subset
  <2>4. Cardinality(lead) = 1 <=> \E x : lead = {x}  BY <2>3, FS_Singleton
  <2>5. \A x : lead = {x} => x \in DOMAIN st  BY <1>1, <2>2
  <2> QED  BY <2>4, <2>5
<1> QED  BY <1>2, <1>3, <1>4

\* What Otto pays the deductions of a turn with, and the table they leave.
PaidBy(ctx) == IF ctx.ruleset = "classic" THEN ctx.pm ELSE IF ctx.card = "Plus_Minus" THEN <<ctx.score>> ELSE <<>>
PaidPoints(ctx) == [i \in DOMAIN PaidBy(ctx) |-> PointsOf(PaidBy(ctx)[i])]
HitBy(ctx) == Engine!AfterEach(<<ctx.mine>> \o ctx.others, 1, PaidPoints(ctx), ctx.ruleset)[Len(PaidBy(ctx))]

Settled(ctx, bank) == [HitBy(ctx) EXCEPT ![1] = @ + PointsOf(bank)]
Ahead(st) == {i \in DOMAIN st : \A j \in DOMAIN st : st[j] <= st[i]}

LEMMA BankOutcomeIs ==
  ASSUME NEW ctx, ctx.endgame, NEW bank, NEW n \in Nat, NEW final, final = Settled(ctx, bank), Table1(final, n),
         NEW w \in Int, w = ctx.winning
  PROVE  BankOutcome(ctx, bank) = Outcome(final, w)
<1>1. PICK lead : lead = Ahead(final)  OBVIOUS
<1>2. \A i : i \in lead <=> i \in DOMAIN final /\ Leads(final, i)  BY <1>1 DEF Leads, Ahead
<1>3. /\ \A i \in DOMAIN final : Wins(final, i, w) <=> lead = {i} /\ w <= final[i]
      /\ Cardinality(lead) = 1 <=> \E i \in DOMAIN final : lead = {i}
  BY <1>2, WinnerIsLeader
<1>4. BankOutcome(ctx, bank)
        = IF ~ctx.endgame \/ Cardinality(lead) # 1 \/ (\A i \in lead : final[i] < ctx.winning) THEN "continue"
          ELSE IF lead = {1} THEN "win" ELSE "loss"
  <2>1. BankOutcome(ctx, bank)
        = IF ~ctx.endgame \/ Cardinality(Ahead(Settled(ctx, bank))) # 1
             \/ (\A i \in Ahead(Settled(ctx, bank)) : Settled(ctx, bank)[i] < ctx.winning) THEN "continue"
          ELSE IF Ahead(Settled(ctx, bank)) = {1} THEN "win" ELSE "loss"
    BY Zenon DEF BankOutcome, Settled, Ahead, HitBy, PaidPoints, PaidBy
  <2> QED  BY <1>1, <2>1
<1>5. DOMAIN final = 1..(n + 1) /\ \A i \in DOMAIN final : final[i] \in Int  BY DEF Table1
<1>6. CASE \E i \in DOMAIN final : Wins(final, i, w)
  <2>1. PICK i \in DOMAIN final : Wins(final, i, w)  BY <1>6
  <2>2. lead = {i} /\ w <= final[i] /\ final[i] \in Int  BY <1>3, <1>5, <2>1
  <2>3. Cardinality(lead) = 1 /\ ~(\A j \in lead : final[j] < ctx.winning)
    <3>1. ~(final[i] < w)  BY <2>2
    <3> QED  BY <1>3, <2>2, <3>1
  <2>4. 1 \in DOMAIN final  BY <1>5
  <2>5. lead = {1} <=> Wins(final, 1, w)  BY <1>3, <2>1, <2>2, <2>4
  <2> QED  BY <1>4, <1>6, <2>3, <2>5 DEF Outcome
<1>7. CASE ~\E i \in DOMAIN final : Wins(final, i, w)
  <2>1. ~Wins(final, 1, w)  BY <1>7 DEF Wins
  <2>2. ASSUME Cardinality(lead) = 1 PROVE \A i \in lead : final[i] < ctx.winning
    <3>1. PICK i \in DOMAIN final : lead = {i}  BY <1>3, <2>2
    <3>2. ~(w <= final[i]) /\ final[i] \in Int  BY <1>3, <1>5, <1>7, <3>1
    <3> QED  BY <3>1, <3>2
  <2> QED  BY <1>4, <1>7, <2>1, <2>2 DEF Outcome
<1> QED  BY <1>6, <1>7

\* A list and its turning have the same winner.
LEMMA TurnedWins ==
  ASSUME NEW n \in Nat, NEW t, NEW b, Turned(t, b, n), NEW w
  PROVE  (Wins(t, n + 1, w) <=> Wins(b, 1, w)) /\ \A i \in 1..n : Wins(t, i, w) <=> Wins(b, i + 1, w)
<1>1. /\ DOMAIN t = 1..(n + 1) /\ DOMAIN b = 1..(n + 1) /\ t[n + 1] = b[1] /\ \A i \in 1..n : t[i] = b[i + 1]
      /\ \A i \in 1..(n + 1) : t[i] \in Int /\ b[i] \in Int
  BY DEF Turned, Table1
<1>2. \A j \in 1..(n + 1) : j # 1 => j - 1 \in 1..n /\ b[j] = t[j - 1]
  <2> SUFFICES ASSUME NEW j \in 1..(n + 1), j # 1 PROVE j - 1 \in 1..n /\ b[j] = t[j - 1]  OBVIOUS
  <2>1. PICK i \in 1..n : i = j - 1 /\ i + 1 = j  OBVIOUS
  <2>2. t[i] = b[i + 1]  BY <1>1
  <2> QED  BY <2>1, <2>2
<1>3. Wins(t, n + 1, w) <=> Wins(b, 1, w)
  <2>1. ASSUME Wins(t, n + 1, w) PROVE Wins(b, 1, w)
    <3>1. ASSUME NEW j \in DOMAIN b \ {1} PROVE b[j] < b[1]
      <4>1. j - 1 \in 1..n /\ b[j] = t[j - 1]  BY <1>1, <1>2
      <4>2. t[j - 1] < t[n + 1]  BY <1>1, <2>1, <4>1 DEF Wins
      <4> QED  BY <1>1, <4>1, <4>2
    <3> QED  BY <1>1, <2>1, <3>1 DEF Wins
  <2>2. ASSUME Wins(b, 1, w) PROVE Wins(t, n + 1, w)
    <3>1. ASSUME NEW j \in DOMAIN t \ {n + 1} PROVE t[j] < t[n + 1]
      <4>1. j \in 1..n /\ j + 1 \in DOMAIN b \ {1}  BY <1>1
      <4>2. b[j + 1] < b[1]  BY <2>2, <4>1 DEF Wins
      <4> QED  BY <1>1, <4>1, <4>2
    <3> QED  BY <1>1, <2>2, <3>1 DEF Wins
  <2> QED  BY <2>1, <2>2
<1>4. ASSUME NEW i \in 1..n PROVE Wins(t, i, w) <=> Wins(b, i + 1, w)
  <2>0. t[i] = b[i + 1] /\ i \in DOMAIN t /\ i + 1 \in DOMAIN b /\ i # n + 1 /\ i + 1 # 1  BY <1>1
  <2>1. ASSUME Wins(t, i, w) PROVE Wins(b, i + 1, w)
    <3>1. ASSUME NEW j \in DOMAIN b \ {i + 1} PROVE b[j] < b[i + 1]
      <4>1. CASE j = 1
        <5>1. n + 1 \in DOMAIN t \ {i}  BY <1>1, <2>0
        <5>2. t[n + 1] < t[i]  BY <2>1, <5>1 DEF Wins
        <5> QED  BY <1>1, <2>0, <4>1, <5>2
      <4>2. CASE j # 1
        <5>1. PICK l : l = j - 1  OBVIOUS
        <5>2. l \in DOMAIN t \ {i} /\ b[j] = t[l]
          <6>1. j \in 1..(n + 1) /\ j # i + 1  BY <1>1
          <6>2. l \in 1..n /\ b[j] = t[l]  BY <1>2, <4>2, <5>1, <6>1
          <6>3. l # i  BY <5>1, <6>1
          <6>4. l \in 1..(n + 1)  BY <6>2
          <6> QED  BY <1>1, <6>2, <6>3, <6>4
        <5>3. t[l] < t[i]  BY <2>1, <5>2 DEF Wins
        <5> QED  BY <2>0, <5>2, <5>3
      <4> QED  BY <4>1, <4>2
    <3> QED  BY <2>0, <2>1, <3>1 DEF Wins
  <2>2. ASSUME Wins(b, i + 1, w) PROVE Wins(t, i, w)
    <3>1. ASSUME NEW j \in DOMAIN t \ {i} PROVE t[j] < t[i]
      <4>1. CASE j = n + 1
        <5>1. 1 \in DOMAIN b \ {i + 1}  BY <1>1, <2>0
        <5>2. b[1] < b[i + 1]  BY <2>2, <5>1 DEF Wins
        <5> QED  BY <1>1, <2>0, <4>1, <5>2
      <4>2. CASE j # n + 1
        <5>0. j \in 1..(n + 1) /\ j # i  BY <1>1
        <5>1. j \in 1..n /\ j + 1 \in DOMAIN b \ {i + 1}
          <6>1. j \in 1..n /\ j + 1 # i + 1 /\ j + 1 \in 1..(n + 1)  BY <4>2, <5>0
          <6> QED  BY <1>1, <6>1
        <5>2. b[j + 1] < b[i + 1]  BY <2>2, <5>1 DEF Wins
        <5> QED  BY <1>1, <2>0, <5>1, <5>2
      <4> QED  BY <4>1, <4>2
    <3> QED  BY <2>0, <2>2, <3>1 DEF Wins
  <2> QED  BY <2>1, <2>2
<1> QED  BY <1>3, <1>4

LEMMA TurnedOutcome ==
  ASSUME NEW n \in Nat, NEW t, NEW b, Turned(t, b, n), NEW w
  PROVE  Outcome(b, w) = IF Wins(t, n + 1, w) THEN "win" ELSE IF \E i \in DOMAIN t : Wins(t, i, w) THEN "loss" ELSE "continue"
<1>1. DOMAIN t = 1..(n + 1) /\ DOMAIN b = 1..(n + 1)  BY DEF Turned, Table1
<1>2. (Wins(t, n + 1, w) <=> Wins(b, 1, w)) /\ \A i \in 1..n : Wins(t, i, w) <=> Wins(b, i + 1, w)  BY TurnedWins
<1>3. ASSUME ~Wins(b, 1, w) PROVE (\E i \in DOMAIN t : Wins(t, i, w)) <=> (\E i \in DOMAIN b : Wins(b, i, w))
  <2>1. ASSUME NEW i \in DOMAIN t, Wins(t, i, w) PROVE \E j \in DOMAIN b : Wins(b, j, w)
    <3>1. i # n + 1  BY <1>2, <1>3, <2>1
    <3>2. i \in 1..n /\ i + 1 \in DOMAIN b  BY <1>1, <3>1
    <3> QED  BY <1>2, <2>1, <3>2
  <2>2. ASSUME NEW j \in DOMAIN b, Wins(b, j, w) PROVE \E i \in DOMAIN t : Wins(t, i, w)
    <3>1. j # 1  BY <1>3, <2>2
    <3>2. PICK i \in 1..n : i + 1 = j
      <4>1. j - 1 \in 1..n /\ (j - 1) + 1 = j  BY <1>1, <3>1
      <4> QED  BY <4>1
    <3>3. Wins(t, i, w) /\ i \in DOMAIN t  BY <1>1, <1>2, <2>2, <3>2
    <3> QED  BY <3>3
  <2> QED  BY <2>1, <2>2
<1> QED  BY <1>2, <1>3 DEF Outcome

\* The engine's result, by the points it leaves.
Leaves(res, s, n, w) ==
  /\ n \in Nat /\ n = Len(bot.others) /\ bot.others \in Seq(Int) /\ w \in Int
  /\ DOMAIN res.players = 1..(n + 1) /\ Len(res.players) = n + 1
  /\ \E round : res.order = Engine!AdvanceTurnOrder(res.players, n + 1, round, w)
  /\ Table1(s, n) /\ \A i \in 1..(n + 1) : res.players[i].score = s[i]

LEMMA VerdictOf ==
  ASSUME NEW n, NEW w, NEW res, NEW s, Leaves(res, s, n, w)
  PROVE  Verdict(res) = IF Wins(s, n + 1, w) THEN "win" ELSE IF \E i \in DOMAIN s : Wins(s, i, w) THEN "loss" ELSE "continue"
<1>1. DOMAIN s = 1..(n + 1) /\ (\A i \in 1..(n + 1) : s[i] \in Int) /\ n \in Nat /\ n = Len(bot.others) /\ bot.others \in Seq(Int)
  BY DEF Table1, Leaves
<1>2. PICK ps, round : ps = res.players /\ res.order = Engine!AdvanceTurnOrder(ps, n + 1, round, w)  BY DEF Leaves
<1>3. DOMAIN ps = 1..(n + 1) /\ Len(ps) = n + 1 /\ \A i \in 1..(n + 1) : ps[i].score = s[i]  BY <1>2 DEF Leaves
<1>4. Engine!HasWinner(ps, w) <=> \E i \in DOMAIN s : Wins(s, i, w)
  <2>1. ASSUME NEW i \in 1..(n + 1)
        PROVE (ps[i].score >= w /\ \A j \in DOMAIN ps \ {i} : ps[j].score < ps[i].score) <=> Wins(s, i, w)
    BY <1>1, <1>3 DEF Wins
  <2> QED  BY <1>1, <1>3, <2>1 DEF Engine!HasWinner
<1>5. res.order.isGameOver <=> \E i \in DOMAIN s : Wins(s, i, w)
  <2>1. PICK seat : seat = n + 1  OBVIOUS
  <2>2. res.order = Engine!AdvanceTurnOrder(ps, seat, round, w)  BY <1>2, <2>1
  <2>3. Engine!AdvanceTurnOrder(ps, seat, round, w).isGameOver = (seat = Len(ps) /\ Engine!HasWinner(ps, w))
    BY DEF Engine!AdvanceTurnOrder
  <2> QED  BY <1>3, <1>4, <2>1, <2>2, <2>3
<1>6. Last(ps).score = s[n + 1]
  <2>1. Last(ps) = ps[n + 1]  BY <1>3 DEF Last
  <2> QED  BY <1>1, <1>3, <2>1
<1>7. PICK os : os = bot.others  OBVIOUS
<1>8. DOMAIN os = 1..n  BY <1>1, <1>7
<1>9. ASSUME \E i \in DOMAIN s : Wins(s, i, w)
      PROVE  (\E i \in DOMAIN os : ps[i].score >= Last(ps).score) <=> ~Wins(s, n + 1, w)
  <2>1. ASSUME NEW i \in DOMAIN os, ps[i].score >= Last(ps).score PROVE ~Wins(s, n + 1, w)
    <3>3. i \in DOMAIN s \ {n + 1} /\ i \in 1..(n + 1)  BY <1>1, <1>8
    <3>4. s[i] \in Int /\ s[n + 1] \in Int  BY <1>1, <3>3
    <3>5. ps[i].score = s[i]  BY <1>3, <3>3
    <3>6. s[i] >= s[n + 1]  BY <1>6, <2>1, <3>5
    <3>1. i \in DOMAIN s \ {n + 1} /\ s[i] >= s[n + 1] /\ s[i] \in Int /\ s[n + 1] \in Int
      BY <3>3, <3>4, <3>6
    <3>2. ~(s[i] < s[n + 1])  BY <3>1
    <3> QED  BY <3>1, <3>2 DEF Wins
  <2>2. ASSUME ~Wins(s, n + 1, w) PROVE \E i \in DOMAIN os : ps[i].score >= Last(ps).score
    <3>1. PICK i \in DOMAIN s : Wins(s, i, w)  BY <1>9
    <3>2. i # n + 1  BY <2>2, <3>1
    <3>3. i \in 1..n /\ n + 1 \in DOMAIN s \ {i}  BY <1>1, <3>2
    <3>4. s[n + 1] < s[i] /\ s[i] \in Int /\ s[n + 1] \in Int  BY <1>1, <3>1, <3>3 DEF Wins
    <3>5. ps[i].score >= Last(ps).score  BY <1>1, <1>3, <1>6, <3>3, <3>4
    <3> QED  BY <1>8, <3>3, <3>5
  <2> QED  BY <2>1, <2>2
<1>10. Verdict(res) = IF ~res.order.isGameOver THEN "continue"
                      ELSE IF \E i \in DOMAIN os : ps[i].score >= Last(ps).score THEN "loss" ELSE "win"
  BY <1>2, <1>7 DEF Verdict
<1>11. Wins(s, n + 1, w) => \E i \in DOMAIN s : Wins(s, i, w)  BY DEF Wins
<1> QED  BY <1>5, <1>9, <1>10, <1>11

-----------------------------------------------------------------------------
\* What a bank settles, by the engine's count and by Otto's.

Settling == OttoInv /\ panel # Closed /\ AtRest(panel) /\ bot.endgame /\ card # "Kleeblatt"
Selected(k) == [panel EXCEPT !.sel = k]
Seen(ctx) ==
  /\ ctx.roll = panel.roll /\ ctx.kept = panel.kept /\ ctx.score = panel.score /\ ctx.card = card
  /\ ctx.ruleset = ruleset /\ ctx.progress = panel.progress /\ ctx.pm = panel.chain.pm
  /\ ctx.mine = bot.mine /\ ctx.others = bot.others /\ ctx.winning = bot.winning /\ ctx.endgame = bot.endgame

LEMMA ContextIsSeen == Seen(Context)
BY DEF Seen, Context

LEMMA SelectedIs ==
  ASSUME Settling, NEW k \in Dice, NEW p, p = Selected(k), NEW ctx, Seen(ctx)
  PROVE  /\ DOMAIN p = PanelFields /\ p.sel = k /\ p.score = panel.score /\ p.kept = panel.kept /\ p.chain = panel.chain
         /\ Chained(p) /\ p.score \in Nat /\ p.kept \in Nat
         /\ MakesTutto(p) <=> Completes(ctx, k)
<1>1. DOMAIN panel = PanelFields /\ Laid(panel, card)  BY AtRestIsOpen DEF Settling, OttoInv, BotInv
<1>2. Chained(panel) /\ Weighed(panel)  BY DEF Settling, OttoInv, WeighInv
<1>3. /\ DOMAIN p = PanelFields /\ p.sel = k /\ p.score = panel.score /\ p.kept = panel.kept /\ p.chain = panel.chain
  BY <1>1 DEF Selected, PanelFields
<1>4. Chained(p)  BY <1>2, <1>3 DEF Chained
<1>5. p.score \in Nat /\ p.kept \in Nat  BY <1>1, <1>2, <1>3 DEF Weighed, Laid, HasDice
<1>6. MakesTutto(p) <=> Completes(ctx, k)  BY <1>3 DEF MakesTutto, Completes, Seen
<1> QED  BY <1>3, <1>4, <1>5, <1>6

LEMMA BankIs ==
  ASSUME Settling, NEW k \in Dice, NEW p, p = Selected(k), CanStop(p), NEW m, m = Committed(p), NEW ctx, Seen(ctx),
         NEW bank, bank = BankOf(ctx, k)
  PROVE  /\ bank \in Nat /\ m.score \in Nat
         /\ classic => m.score = bank
         /\ ~classic => Engine!TurnScore(card, PointsOf(m.score), TRUE) = PointsOf(bank)
<1>1. /\ DOMAIN p = PanelFields /\ p.sel = k /\ p.score = panel.score /\ Chained(p) /\ p.score \in Nat
      /\ MakesTutto(p) <=> Completes(ctx, k)
  BY SelectedIs
<1>2. PICK a : a = FixedAward(card)  OBVIOUS
<1>3. /\ a \in Nat /\ (a > 0 <=> card \in {"Kniffel", "Plus_Minus"})
      /\ card = "Kniffel" => a = 40
      /\ card = "Plus_Minus" => a = 20
  BY <1>2 DEF FixedAward
<1>4. PICK e : e = Earned(p)  OBVIOUS
<1>5. e \in Nat /\ (a > 0 => e = 0)  BY <1>1, <1>2, <1>4, EarnedIs
<1>6. a = 0 => e = Points(k, card)  BY <1>1, <1>3, <1>4 DEF Earned
<1>7. PICK q : q = Kept(p)  OBVIOUS
<1>8. /\ q.score \in Nat /\ m.score \in Nat
      /\ q.score = IF MakesTutto(p) THEN TuttoBonus(card, p.score + e) ELSE p.score + e
      /\ m.score = IF MakesTutto(p) /\ classic /\ a > 0 THEN q.score + a ELSE q.score
  BY <1>1, <1>2, <1>4, <1>7, KeptComesTo, CommittedComesTo
<1>9. PICK total : total = p.score + e  OBVIOUS
<1>10. total \in Nat  BY <1>1, <1>5, <1>9
<1>11. bank = IF MakesTutto(p) THEN TuttoBonus(card, total + a) ELSE total
  <2>1. PICK paid : paid = IF a > 0 THEN 0 ELSE Points(k, card)  OBVIOUS
  <2>2. paid = e  BY <1>3, <1>5, <1>6, <2>1
  <2>3. bank = IF Completes(ctx, k) THEN TuttoBonus(card, (panel.score + paid) + a) ELSE panel.score + paid
    BY <1>2, <2>1 DEF BankOf, Seen
  <2> QED  BY <1>1, <1>9, <2>2, <2>3
<1>12. \A n \in Nat : TuttoBonus(card, n) \in Nat /\ (a > 0 => TuttoBonus(card, n) = n)
  BY <1>3 DEF TuttoBonus, BonusValue
<1>13. bank \in Nat
  <2>1. total + a \in Nat  BY <1>3, <1>10
  <2> QED  BY <1>10, <1>11, <1>12, <2>1
<1>14. ASSUME classic PROVE m.score = bank
  <2>1. CASE a > 0
    <3>1. total + a \in Nat  BY <1>3, <1>10
    <3> QED  BY <1>8, <1>9, <1>10, <1>11, <1>12, <1>14, <2>1, <3>1
  <2>2. CASE ~(a > 0)
    <3>1. a = 0  BY <1>3, <2>2
    <3> QED  BY <1>8, <1>9, <1>10, <1>11, <2>2, <3>1
  <2> QED  BY <2>1, <2>2
<1>15. PICK paid : paid = Engine!TurnScore(card, PointsOf(m.score), TRUE)  OBVIOUS
<1>16. ASSUME ~classic PROVE paid = PointsOf(bank)
  <2>1. CASE a > 0
    <3>1. MakesTutto(p) /\ card \in {"Kniffel", "Plus_Minus"}  BY <1>3, <2>1 DEF CanStop, Special
    <3>2. p.score = 0
      <4>1. Weighed(panel)  BY DEF Settling, OttoInv, WeighInv
      <4> QED  BY <1>1, <1>2, <1>16, <2>1, <4>1 DEF Weighed
    <3>3. bank = a
      <4>1. total = 0  BY <1>5, <1>9, <2>1, <3>2
      <4> QED  BY <1>3, <1>11, <1>12, <2>1, <3>1, <4>1
    <3>4. paid = IF card = "Plus_Minus" THEN 1000 ELSE 2000
      BY <1>15, <3>1 DEF Engine!TurnScore, Engine!Special, Engine!PLUS_MINUS_SCORE, Engine!KNIFFEL_SCORE
    <3>5. CASE card = "Plus_Minus"  BY <1>3, <3>3, <3>4, <3>5 DEF PointsOf
    <3>6. CASE card = "Kniffel"  BY <1>3, <3>3, <3>4, <3>6 DEF PointsOf
    <3> QED  BY <3>1, <3>5, <3>6
  <2>2. CASE ~(a > 0)
    <3>1. a = 0 /\ card \notin {"Kniffel", "Plus_Minus", "Kleeblatt"}  BY <1>3, <2>2 DEF Settling
    <3>2. m.score = bank  BY <1>8, <1>9, <1>10, <1>11, <2>2, <3>1
    <3>3. paid = PointsOf(m.score)  BY <1>15, <3>1 DEF Engine!TurnScore, Engine!Special
    <3> QED  BY <3>2, <3>3
  <2> QED  BY <2>1, <2>2
<1> QED  BY <1>8, <1>13, <1>14, <1>15, <1>16

\* The context a bank is counted in: a deduction is still to come when the card is completed.
LEMMA CompletedIs ==
  ASSUME Settling, NEW k \in Dice, NEW p, p = Selected(k), NEW m, m = Committed(p), NEW ctx, ctx = Context,
         NEW c, c = IF Completes(ctx, k) THEN AfterCardCompletion(ctx, ctx.score) ELSE ctx
  PROVE  /\ c.endgame = bot.endgame /\ c.winning = bot.winning /\ c.mine = bot.mine /\ c.others = bot.others
         /\ c.ruleset = ruleset /\ c.card = card /\ c.score = panel.score
         /\ classic => c.pm = m.chain.pm
         /\ Chained(m)
<1>1. Seen(ctx)  BY ContextIsSeen
<1>2. /\ DOMAIN p = PanelFields /\ p.sel = k /\ p.score = panel.score /\ p.chain = panel.chain /\ Chained(p) /\ p.score \in Nat
      /\ MakesTutto(p) <=> Completes(ctx, k)
  BY <1>1, SelectedIs
<1>3. PICK q : q = Kept(p)  OBVIOUS
<1>4. /\ q.score = IF MakesTutto(p) THEN TuttoBonus(card, p.score + Earned(p)) ELSE p.score + Earned(p)
      /\ Chained(m)
      /\ m.chain.pm = IF MakesTutto(p) /\ classic /\ FixedAward(card) > 0 /\ card = "Plus_Minus"
                      THEN Append(p.chain.pm, q.score) ELSE p.chain.pm
  BY <1>2, <1>3, KeptComesTo, CommittedComesTo
<1>5. ASSUME card = "Plus_Minus", MakesTutto(p) PROVE q.score = panel.score /\ FixedAward(card) > 0
  <2>1. FixedAward(card) > 0  BY <1>5 DEF FixedAward
  <2>2. Earned(p) = 0  BY <1>5 DEF Earned
  <2>3. p.score + 0 = p.score  BY <1>2
  <2>4. TuttoBonus(card, p.score) = p.score  BY <1>5 DEF TuttoBonus
  <2> QED  BY <1>2, <1>4, <1>5, <2>1, <2>2, <2>3, <2>4
<1>6. PICK pm : c = ctx \/ c = [ctx EXCEPT !.pm = pm]  BY DEF AfterCardCompletion
<1>7. {"endgame", "winning", "mine", "others", "ruleset", "card", "score", "pm"} \subseteq DOMAIN ctx  BY DEF Context
<1>8. /\ c.endgame = ctx.endgame /\ c.winning = ctx.winning /\ c.mine = ctx.mine /\ c.others = ctx.others
      /\ c.ruleset = ctx.ruleset /\ c.card = ctx.card /\ c.score = ctx.score
  BY <1>6, <1>7
<1>9. c.pm = IF Completes(ctx, k) /\ ruleset = "classic" /\ card = "Plus_Minus" THEN Append(ctx.pm, ctx.score) ELSE ctx.pm
  <2>1. CASE Completes(ctx, k) /\ ruleset = "classic" /\ card = "Plus_Minus"
    <3>1. c = [ctx EXCEPT !.pm = Append(@, ctx.score)]  BY <1>1, <2>1 DEF AfterCardCompletion, Seen
    <3> QED  BY <1>7, <2>1, <3>1
  <2>2. CASE ~(Completes(ctx, k) /\ ruleset = "classic" /\ card = "Plus_Minus")
    <3>1. c = ctx  BY <1>1, <2>2 DEF AfterCardCompletion, Seen
    <3> QED  BY <2>2, <3>1
  <2> QED  BY <2>1, <2>2
<1>10. classic => c.pm = m.chain.pm  BY <1>1, <1>2, <1>4, <1>5, <1>9 DEF classic, Seen
<1> QED  BY <1>1, <1>4, <1>8, <1>10 DEF Seen

-----------------------------------------------------------------------------
\* The panel counts in units of 50, the engine in points.
InPoints(q) == [i \in DOMAIN q |-> PointsOf(q[i])]

LEMMA InPointsIs ==
  ASSUME NEW q \in Seq(Nat), NEW r, r = InPoints(q)
  PROVE  r \in Seq(Nat) /\ Len(r) = Len(q) /\ Len(q) \in Nat /\ \A i \in 1..Len(q) : r[i] = PointsOf(q[i]) /\ r[i] \in Int
<1>1. PICK n \in Nat : n = Len(q) /\ DOMAIN q = 1..n  OBVIOUS
<1>2. DOMAIN r = 1..n /\ \A i \in 1..n : r[i] = PointsOf(q[i])  BY <1>1 DEF InPoints
<1>3. \A i \in 1..n : PointsOf(q[i]) \in Nat
  <2>1. \A i \in 1..n : q[i] \in Nat  BY <1>1
  <2> QED  BY <2>1 DEF PointsOf
<1>4. r \in [1..n -> Nat]  BY <1>1, <1>2, <1>3 DEF InPoints
<1>5. r \in Seq(Nat) /\ Len(r) = n  BY <1>1, <1>4
<1> QED  BY <1>1, <1>2, <1>3, <1>5

\* A classic turn comes with a summary, a modernized one with none.
LEMMA SummaryIs ==
  ASSUME NEW m, Chained(m), NEW s, s = SummaryOf(m)
  PROVE  /\ classic => s # None /\ s.plusMinusScores = InPoints(m.chain.pm)
         /\ ~classic => s = None
<1>1. ~classic => s = None  BY DEF SummaryOf
<1>2. ASSUME classic PROVE s # None /\ s.plusMinusScores = InPoints(m.chain.pm)
  <2>1. PICK cs, pm, n : cs = m.chain.cards /\ pm = m.chain.pm /\ n = m.chain.tuttos  OBVIOUS
  <2>2. cs \in Seq(Cards) /\ pm \in Seq(Nat) /\ n \in Nat  BY <2>1 DEF Chained, Links
  <2>3. PICK told, paid : told = [i \in DOMAIN cs |-> [card |-> cs[i], completed |-> TRUE]] /\ paid = InPoints(pm)
    OBVIOUS
  <2>4. s = [cards |-> told, ended |-> "banked", tuttoCount |-> n, forfeited |-> 0, plusMinusScores |-> paid]
    BY <1>2, <2>1, <2>3 DEF SummaryOf, InPoints
  <2>5. PICK T : T = [card : Cards, completed : BOOLEAN]  OBVIOUS
  <2>6. told \in Seq(T) /\ paid \in Seq(Nat)
    <3>1. PICK l \in Nat : l = Len(cs) /\ DOMAIN cs = 1..l  BY <2>2
    <3>2. \A i \in 1..l : cs[i] \in Cards  BY <2>2, <3>1
    <3>3. \A c \in Cards : [card |-> c, completed |-> TRUE] \in T  BY <2>5
    <3>4. told = [i \in 1..l |-> [card |-> cs[i], completed |-> TRUE]]  BY <2>3, <3>1
    <3>5. \A i \in 1..l : [card |-> cs[i], completed |-> TRUE] \in T  BY <3>2, <3>3
    <3>6. told \in [1..l -> T]  BY <3>4, <3>5
    <3> QED  BY <2>2, <2>3, <3>1, <3>6, InPointsIs
  <2>7. s \in Summaries
    <3>1. PICK word \in {"banked", "null", "stopCard", "timeout"} : word = "banked"  OBVIOUS
    <3>2. PICK none \in Nat : none = 0  OBVIOUS
    <3>3. s \in [cards : Seq(T), ended : {"banked", "null", "stopCard", "timeout"}, tuttoCount : Nat, forfeited : Nat,
                plusMinusScores : Seq(Nat)]
      BY <2>2, <2>4, <2>6, <3>1, <3>2
    <3> QED  BY <2>5, <3>3 DEF Summaries
  <2>8. s # None  BY <2>7, BotAssumption
  <2> QED  BY <2>1, <2>3, <2>4, <2>8
<1> QED  BY <1>1, <1>2

LEMMA BotIs == ASSUME Settling PROVE bot.mine \in Int /\ bot.others \in Seq(Int) /\ bot.winning \in Int
BY BotAssumption DEF Settling, OttoInv

\* The standings, as the engine and as Otto list them.
LEMMA StandingsTurn ==
  ASSUME NEW mine \in Int, NEW others \in Seq(Int), NEW n \in Nat, n = Len(others)
  PROVE  \E t : /\ t \in [1..(n + 1) -> Int] /\ t[n + 1] = mine /\ (\A i \in 1..n : t[i] = others[i])
                /\ Turned(t, <<mine>> \o others, n)
<1>1. PICK b : b = <<mine>> \o others  OBVIOUS
<1>2. DOMAIN others = 1..n /\ \A i \in 1..n : others[i] \in Int  OBVIOUS
<1>3. DOMAIN b = 1..(n + 1) /\ b[1] = mine /\ \A i \in 1..n : b[i + 1] = others[i]
  <2>1. <<mine>> \in Seq(Int) /\ Len(<<mine>>) = 1 /\ <<mine>>[1] = mine  OBVIOUS
  <2>2. PICK one : one = <<mine>>  OBVIOUS
  <2>3. Len(b) = 1 + n /\ b \in Seq(Int)  BY <1>1, <2>1, <2>2
  <2>4. \A i \in 1..(1 + n) : b[i] = IF i <= 1 THEN one[i] ELSE others[i - 1]  BY <1>1, <2>1, <2>2
  <2>5. DOMAIN b = 1..(n + 1)  BY <2>3
  <2>6. b[1] = mine  BY <2>1, <2>2, <2>4
  <2>7. \A i \in 1..n : b[i + 1] = others[i]
    <3> SUFFICES ASSUME NEW i \in 1..n PROVE b[i + 1] = others[i]  OBVIOUS
    <3>1. i + 1 \in 1..(1 + n) /\ ~(i + 1 <= 1) /\ (i + 1) - 1 = i  OBVIOUS
    <3> QED  BY <2>4, <3>1
  <2> QED  BY <2>5, <2>6, <2>7
<1>4. PICK t : t = [i \in 1..(n + 1) |-> IF i = n + 1 THEN mine ELSE others[i]]  OBVIOUS
<1>5. t \in [1..(n + 1) -> Int]
  <2>1. \A i \in 1..(n + 1) : i # n + 1 => i \in 1..n  OBVIOUS
  <2> QED  BY <1>2, <1>4, <2>1
<1>6. t[n + 1] = mine /\ \A i \in 1..n : t[i] = others[i]  BY <1>4
<1>7. \A i \in 1..(n + 1) : b[i] \in Int
  <2> SUFFICES ASSUME NEW i \in 1..(n + 1) PROVE b[i] \in Int  OBVIOUS
  <2>1. CASE i = 1  BY <1>3, <2>1
  <2>2. CASE i # 1
    <3>1. PICK j \in 1..n : i = j + 1
      <4>1. i - 1 \in 1..n /\ (i - 1) + 1 = i  BY <2>2
      <4> QED  BY <4>1
    <3> QED  BY <1>2, <1>3, <3>1
  <2> QED  BY <2>1, <2>2
<1>8. Table1(t, n) /\ Table1(b, n)  BY <1>3, <1>5, <1>7 DEF Table1
<1>9. Turned(t, b, n)  BY <1>3, <1>6, <1>8 DEF Turned
<1> QED  BY <1>1, <1>5, <1>6, <1>9

\* The deductions, as the engine and as Otto list them: the amounts differ in a
\* modernized game only, where nothing rests on them.
LEMMA PaidAlike ==
  ASSUME Settling, NEW m, Chained(m), NEW c, c.ruleset = ruleset, c.card = card, c.score \in Nat,
         classic => c.pm = m.chain.pm,
         NEW summary, summary = SummaryOf(m), NEW paid, paid \in Int, NEW xs, xs = Befores(summary, paid),
         NEW ys, ys = PaidPoints(c)
  PROVE  /\ Rules(summary) = ruleset
         /\ Len(xs) \in Nat /\ Len(ys) = Len(xs) /\ Len(PaidBy(c)) = Len(xs)
         /\ \A i \in 1..Len(xs) : xs[i] \in Int /\ ys[i] \in Int /\ (ruleset = "classic" => xs[i] = ys[i])
<1>1. ruleset \in {"classic", "modernized"}  BY DEF Settling, OttoInv, Dealing
<1>2. /\ classic => summary # None /\ summary.plusMinusScores = InPoints(m.chain.pm)
      /\ ~classic => summary = None
  BY SummaryIs
<1>3. PICK q : q = PaidBy(c)  OBVIOUS
<1>4. ys = InPoints(q)  BY <1>3 DEF PaidPoints, InPoints
<1>5. CASE classic
  <2>1. PICK pm : pm = m.chain.pm  OBVIOUS
  <2>2. pm \in Seq(Nat)  BY <2>1 DEF Chained, Links
  <2>3. q = pm  BY <1>3, <1>5, <2>1 DEF PaidBy, classic
  <2>4. xs = InPoints(pm)  BY <1>2, <1>5, <2>1 DEF Befores
  <2>5. ys = xs  BY <1>4, <2>3, <2>4
  <2>6. Len(xs) = Len(pm) /\ Len(pm) \in Nat /\ \A i \in 1..Len(pm) : xs[i] \in Int  BY <2>2, <2>4, InPointsIs
  <2>7. Rules(summary) = ruleset  BY <1>2, <1>5 DEF Rules, classic
  <2> QED  BY <1>3, <2>3, <2>5, <2>6, <2>7
<1>6. CASE ~classic
  <2>1. Rules(summary) = ruleset  BY <1>1, <1>2, <1>6 DEF Rules, classic
  <2>2. CASE card = "Plus_Minus"
    <3>1. xs = <<paid>>  BY <1>2, <1>6, <2>2 DEF Befores
    <3>2. q = <<c.score>>  BY <1>3, <1>6, <2>2 DEF PaidBy, classic
    <3>3. PICK n \in Nat : n = c.score  OBVIOUS
    <3>4. q = <<n>> /\ q \in Seq(Nat) /\ Len(q) = 1  BY <3>2, <3>3
    <3>5. Len(ys) = 1 /\ \A i \in 1..1 : ys[i] \in Int
      <4>1. Len(ys) = Len(q) /\ \A i \in 1..Len(q) : ys[i] \in Int  BY <1>4, <3>4, InPointsIs
      <4> QED  BY <3>4, <4>1
    <3>6. Len(xs) = 1 /\ \A i \in 1..1 : xs[i] \in Int  BY <3>1
    <3> QED  BY <1>3, <1>6, <2>1, <3>4, <3>5, <3>6 DEF classic
  <2>3. CASE card # "Plus_Minus"
    <3>1. xs = <<>>  BY <1>2, <1>6, <2>3 DEF Befores
    <3>2. q = <<>> /\ q \in Seq(Nat) /\ Len(q) = 0  BY <1>3, <1>6, <2>3 DEF PaidBy, classic
    <3>3. Len(ys) = Len(q)  BY <1>4, <3>2, InPointsIs
    <3>4. Len(xs) = 0  BY <3>1
    <3> QED  BY <1>3, <2>1, <3>2, <3>3, <3>4
  <2> QED  BY <2>2, <2>3
<1> QED  BY <1>5, <1>6

\* What is paid to the bot, on either list.
LEMMA PaidTurned ==
  ASSUME NEW n \in Nat, NEW u, NEW c, Turned(u, c, n), NEW paid \in Int, NEW s, NEW final,
         s = [u EXCEPT ![n + 1] = @ + paid], final = [c EXCEPT ![1] = @ + paid]
  PROVE  Turned(s, final, n)
<1>1. /\ DOMAIN u = 1..(n + 1) /\ DOMAIN c = 1..(n + 1) /\ u[n + 1] = c[1] /\ \A i \in 1..n : u[i] = c[i + 1]
      /\ \A i \in 1..(n + 1) : u[i] \in Int /\ c[i] \in Int
  BY DEF Turned, Table1
<1>2. DOMAIN s = 1..(n + 1) /\ \A i \in 1..(n + 1) : s[i] = IF i = n + 1 THEN u[i] + paid ELSE u[i]  BY <1>1
<1>3. DOMAIN final = 1..(n + 1) /\ \A i \in 1..(n + 1) : final[i] = IF i = 1 THEN c[i] + paid ELSE c[i]  BY <1>1
<1>4. \A i \in 1..(n + 1) : s[i] \in Int /\ final[i] \in Int  BY <1>1, <1>2, <1>3
<1>5. s[n + 1] = final[1]
  <2>1. n + 1 \in 1..(n + 1) /\ 1 \in 1..(n + 1)  OBVIOUS
  <2> QED  BY <1>1, <1>2, <1>3, <2>1
<1>6. ASSUME NEW i \in 1..n PROVE s[i] = final[i + 1]
  <2>1. i \in 1..(n + 1) /\ i + 1 \in 1..(n + 1) /\ i # n + 1 /\ i + 1 # 1  OBVIOUS
  <2> QED  BY <1>1, <1>2, <1>3, <2>1
<1> QED  BY <1>2, <1>3, <1>4, <1>5, <1>6 DEF Turned, Table1

-----------------------------------------------------------------------------
\* What the engine makes of a bank is what Otto expects of it.
LEMMA SettlesAlike ==
  ASSUME Settling, NEW k \in Dice, NEW p, p = Selected(k), CanStop(p), NEW m, m = Committed(p), NEW ctx, ctx = Context,
         NEW c, c = IF Completes(ctx, k) THEN AfterCardCompletion(ctx, ctx.score) ELSE ctx,
         NEW bank, bank = BankOf(ctx, k)
  PROVE  EngineSettles(m) = BankOutcome(c, bank)
<1>1. Seen(ctx)  BY ContextIsSeen
<1>2. /\ bank \in Nat /\ m.score \in Nat
      /\ classic => m.score = bank
      /\ ~classic => Engine!TurnScore(card, PointsOf(m.score), TRUE) = PointsOf(bank)
  BY <1>1, BankIs
<1>3. /\ c.endgame = bot.endgame /\ c.winning = bot.winning /\ c.mine = bot.mine /\ c.others = bot.others
      /\ c.ruleset = ruleset /\ c.card = card /\ c.score = panel.score
      /\ classic => c.pm = m.chain.pm
      /\ Chained(m)
  BY CompletedIs
<1>4. bot.mine \in Int /\ bot.others \in Seq(Int) /\ bot.winning \in Int /\ panel.score \in Nat
  BY BotIs DEF Settling, OttoInv, WeighInv, Weighed
<1>5. PICK mine \in Int, others \in Seq(Int), w \in Int : mine = bot.mine /\ others = bot.others /\ w = bot.winning  BY <1>4
<1>6. PICK n \in Nat : n = Len(others)  OBVIOUS
<1>7. PICK t : /\ t \in [1..(n + 1) -> Int] /\ t[n + 1] = mine /\ (\A i \in 1..n : t[i] = others[i])
               /\ Turned(t, <<mine>> \o others, n)
  BY <1>6, StandingsTurn
<1>8. PICK b : b = <<mine>> \o others /\ Turned(t, b, n)  BY <1>7
<1>9. Stands(t, n)  BY <1>4, <1>5, <1>6, <1>7 DEF Stands
<1>10. PICK summary, score : summary = SummaryOf(m) /\ score = PointsOf(m.score)  OBVIOUS
<1>11. PICK paid \in Int : paid = PointsOf(bank)  BY <1>2 DEF PointsOf
<1>12. paid = Paying(summary, score)
  <2>1. /\ classic => summary # None
        /\ ~classic => summary = None
    BY <1>3, <1>10, SummaryIs
  <2> QED  BY <1>2, <1>10, <1>11, <2>1 DEF Paying
<1>13. PICK xs, ys : xs = Befores(summary, paid) /\ ys = PaidPoints(c)  OBVIOUS
<1>14. /\ Rules(summary) = ruleset
       /\ Len(xs) \in Nat /\ Len(ys) = Len(xs) /\ Len(PaidBy(c)) = Len(xs)
       /\ \A i \in 1..Len(xs) : xs[i] \in Int /\ ys[i] \in Int /\ (ruleset = "classic" => xs[i] = ys[i])
  BY <1>3, <1>4, <1>10, <1>13, PaidAlike
<1>15. PICK u, d : /\ u = Engine!AfterEach(t, n + 1, xs, ruleset)[Len(xs)]
                   /\ d = Engine!AfterEach(b, 1, ys, ruleset)[Len(xs)]
  OBVIOUS
<1>16. Turned(u, d, n)  BY <1>8, <1>14, <1>15, TurnedThroughout
<1>17. d = HitBy(c)
  <2>1. <<c.mine>> \o c.others = b  BY <1>3, <1>5, <1>8
  <2> QED  BY <1>3, <1>13, <1>14, <1>15, <2>1 DEF HitBy
<1>18. PICK s, final : s = [u EXCEPT ![n + 1] = @ + paid] /\ final = [d EXCEPT ![1] = @ + paid]  OBVIOUS
<1>19. Turned(s, final, n)  BY <1>16, <1>18, PaidTurned
<1>20. final = Settled(c, bank)  BY <1>11, <1>17, <1>18 DEF Settled
<1>21. BankOutcome(c, bank) = Outcome(final, w)
  <2>1. c.endgame /\ w = c.winning  BY <1>3, <1>5 DEF Settling
  <2>2. Table1(final, n)  BY <1>19 DEF Turned
  <2> QED  BY <1>20, <2>1, <2>2, BankOutcomeIs
<1>22. PICK res : res = Banks(score, summary)  OBVIOUS
<1>23. /\ DOMAIN res.players = 1..(n + 1) /\ Len(res.players) = n + 1
       /\ \A i \in 1..n : res.players[i].score = u[i]
       /\ res.players[n + 1].score = u[n + 1] + paid
       /\ res.order = Engine!AdvanceTurnOrder(res.players, n + 1, Table.round, w)
  <2>1. card # "Kleeblatt"  BY DEF Settling
  <2>2. PICK x : x = HitOf(t, n, Befores(summary, paid), Rules(summary))  OBVIOUS
  <2>3. x = u  BY <1>13, <1>14, <1>15, <2>2 DEF HitOf
  <2>4. Banking(res, x, paid, n)  BY <1>9, <1>12, <1>22, <2>1, <2>2, BankedTable
  <2> QED  BY <1>5, <2>3, <2>4 DEF Banking
<1>24. Table1(s, n) /\ \A i \in 1..(n + 1) : res.players[i].score = s[i]
  <2>1. Table1(s, n)  BY <1>19 DEF Turned
  <2>2. DOMAIN u = 1..(n + 1)  BY <1>16 DEF Turned, Table1
  <2>3. \A i \in 1..(n + 1) : s[i] = IF i = n + 1 THEN u[i] + paid ELSE u[i]  BY <1>18, <2>2
  <2>4. \A i \in 1..(n + 1) : i = n + 1 \/ i \in 1..n  OBVIOUS
  <2> QED  BY <1>23, <2>1, <2>3, <2>4
<1>25. Verdict(res) = IF Wins(s, n + 1, w) THEN "win" ELSE IF \E i \in DOMAIN s : Wins(s, i, w) THEN "loss" ELSE "continue"
  <2>1. Leaves(res, s, n, w)  BY <1>4, <1>5, <1>6, <1>23, <1>24 DEF Leaves
  <2> QED  BY <2>1, VerdictOf
<1>26. Verdict(res) = Outcome(final, w)  BY <1>19, <1>25, TurnedOutcome
<1> QED  BY <1>10, <1>21, <1>22, <1>26 DEF EngineSettles, Banks

-----------------------------------------------------------------------------
\* What can be banked is among the keeps Otto tries.

LEMMA SumsGrow ==
  ASSUME NEW k \in Dice, NEW r \in Dice, Within(k, r)
  PROVE  \A s \in SUBSET Faces : /\ Sums(k)[s] \in Nat /\ Sums(r)[s] \in Nat /\ Sums(k)[s] <= Sums(r)[s]
                                 /\ Sums(k)[s] = Sums(r)[s] => \A v \in s : k[v] = r[v]
<1>1. PICK f, g : f = Sums(k) /\ g = Sums(r)  OBVIOUS
<1>2. /\ f[{}] = 0 /\ \A s \in SUBSET Faces : s # {} => f[s] = k[Pick(s)] + f[Rest(s)]
      /\ g[{}] = 0 /\ \A s \in SUBSET Faces : s # {} => g[s] = r[Pick(s)] + g[Rest(s)]
  BY <1>1, SumAt
<1>3. \A v \in Faces : k[v] \in Nat /\ r[v] \in Nat /\ k[v] <= r[v]  BY DiceAssumption DEF Dice, Within
<1> DEFINE T == {s \in SUBSET Faces : /\ f[s] \in Nat /\ g[s] \in Nat /\ f[s] <= g[s]
                                      /\ f[s] = g[s] => \A v \in s : k[v] = r[v]}
<1>4. {} \in T  BY <1>2
<1>5. ASSUME NEW s \in SUBSET Faces, s # {}, Rest(s) \in T PROVE s \in T
  <2>1. PICK v, q : v = Pick(s) /\ q = Rest(s)  OBVIOUS
  <2>2. v \in s /\ v \in Faces /\ s = q \cup {v}  BY <1>5, <2>1, Picked DEF Rest
  <2>3. f[s] = k[v] + f[q] /\ g[s] = r[v] + g[q]  BY <1>2, <1>5, <2>1
  <2>4. f[q] \in Nat /\ g[q] \in Nat /\ f[q] <= g[q] /\ (f[q] = g[q] => \A w \in q : k[w] = r[w])
    BY <1>5, <2>1
  <2>5. k[v] \in Nat /\ r[v] \in Nat /\ k[v] <= r[v]  BY <1>3, <2>2
  <2>6. f[s] \in Nat /\ g[s] \in Nat /\ f[s] <= g[s]  BY <2>3, <2>4, <2>5
  <2>7. ASSUME f[s] = g[s], NEW w \in s PROVE k[w] = r[w]
    <3>1. k[v] = r[v] /\ f[q] = g[q]  BY <2>3, <2>4, <2>5, <2>7
    <3> QED  BY <2>2, <2>4, <2>7, <3>1
  <2> QED  BY <2>6, <2>7
<1>6. \A s \in SUBSET Faces : s \in T
  <2> HIDE DEF T
  <2> QED  BY <1>4, <1>5, FaceByFace
<1> QED  BY <1>1, <1>6

\* A selection of as many dice as were rolled is the roll.
LEMMA AllOfIt ==
  ASSUME NEW k \in Dice, NEW r \in Dice, Within(k, r), Count(k) = Count(r) PROVE k = r
<1>1. Sums(k)[Faces] = Sums(r)[Faces]  BY CountIsSum
<1>2. \A v \in Faces : k[v] = r[v]
  <2>1. Faces \in SUBSET Faces  OBVIOUS
  <2> QED  BY <1>1, <2>1, SumsGrow
<1> QED  BY <1>2 DEF Dice

\* Of a finite set only the whole has as many elements.
LEMMA WholeBySize ==
  ASSUME NEW W, IsFiniteSet(W), NEW R \in SUBSET W
  PROVE  Cardinality(R) <= Cardinality(W) /\ (Cardinality(R) = Cardinality(W) => R = W)
BY FS_Subset

\* A roll that is itself the rest of a straight is the largest selection.
LEMMA WholeRun ==
  ASSUME NEW roll \in Dice, NEW progress, NEW rules, rules # "classic", KniffelValid(roll, progress, rules)
  PROVE  KniffelLargest(roll, progress, rules) = roll
<1> DEFINE fits == {R \in Runs(progress) : R \subseteq Shown(roll)}
           longest == {R \in fits : \A Q \in fits : Cardinality(Q) <= Cardinality(R)}
           chosen == IF rules = "classic" THEN Shown(roll) \ progress
                     ELSE IF fits = {} THEN {}
                     ELSE IF \E R \in longest : 1 \in R THEN CHOOSE R \in longest : 1 \in R
                     ELSE CHOOSE R \in longest : TRUE
<1>1. KniffelLargest(roll, progress, rules) = OneEach(chosen)  BY DEF KniffelLargest
<1>2. PICK whole : whole = Shown(roll)  OBVIOUS
<1>3. whole \in Runs(progress) /\ whole \in SUBSET Faces  BY <1>2 DEF KniffelValid, Shown
<1>4. whole \in fits /\ \A R \in fits : R \subseteq whole  BY <1>2, <1>3
<1>5. ASSUME NEW R \in fits PROVE Cardinality(R) <= Cardinality(whole) /\ (Cardinality(R) = Cardinality(whole) => R = whole)
  <2>1. R \subseteq whole  BY <1>4
  <2>2. IsFiniteSet(whole)  BY <1>3, FacesAreFinite
  <2> HIDE DEF fits
  <2> QED  BY <2>1, <2>2, WholeBySize
<1>6. \A R \in fits : Cardinality(R) \in Nat
  <2>1. \A R \in fits : R \in SUBSET Faces  BY DEF Runs
  <2> HIDE DEF fits
  <2> QED  BY <2>1, FacesAreFinite
<1> HIDE DEF fits
<1>7. longest = {whole}
  <2>1. whole \in longest  BY <1>4, <1>5
  <2>2. ASSUME NEW R \in longest PROVE R = whole
    <3>1. R \in fits /\ Cardinality(whole) <= Cardinality(R)  BY <1>4, <2>2
    <3>2. Cardinality(R) \in Nat /\ Cardinality(whole) \in Nat  BY <1>4, <1>6, <3>1
    <3> QED  BY <1>5, <3>1, <3>2
  <2> QED  BY <2>1, <2>2
<1> HIDE DEF longest
<1>8. chosen = whole  BY <1>4, <1>7
<1>9. OneEach(whole) = roll
  <2>1. \A v \in Faces : roll[v] \in Nat /\ roll[v] <= 1  BY DiceAssumption DEF KniffelValid, Dice
  <2>2. \A v \in Faces : roll[v] = IF v \in whole THEN 1 ELSE 0  BY <1>2, <2>1 DEF Shown
  <2> QED  BY <2>2 DEF OneEach, Dice
<1> QED  BY <1>1, <1>8, <1>9

LEMMA LargestIsWithin ==
  ASSUME NEW roll \in Dice, NEW progress \in SUBSET Faces, NEW rules, rules # "classic",
         ~KniffelBusts(roll, progress, rules)
  PROVE  Within(KniffelLargest(roll, progress, rules), roll)
<1> DEFINE fits == {R \in Runs(progress) : R \subseteq Shown(roll)}
           longest == {R \in fits : \A Q \in fits : Cardinality(Q) <= Cardinality(R)}
           chosen == IF rules = "classic" THEN Shown(roll) \ progress
                     ELSE IF fits = {} THEN {}
                     ELSE IF \E R \in longest : 1 \in R THEN CHOOSE R \in longest : 1 \in R
                     ELSE CHOOSE R \in longest : TRUE
<1>1. KniffelLargest(roll, progress, rules) = OneEach(chosen)  BY DEF KniffelLargest
<1>2. fits \in SUBSET (SUBSET Faces) /\ \A R \in fits : R \subseteq Shown(roll)  BY DEF Runs
<1> HIDE DEF fits
<1>3. fits # {} => longest # {}  BY <1>2, LongestRun
<1>4. longest \subseteq fits  OBVIOUS
<1> HIDE DEF longest
<1>5. chosen \subseteq Shown(roll)  BY <1>2, <1>3, <1>4
<1> HIDE DEF chosen
<1>6. ASSUME NEW v \in Faces PROVE OneEach(chosen)[v] <= roll[v]
  <2>1. OneEach(chosen)[v] = IF v \in chosen THEN 1 ELSE 0  BY DEF OneEach
  <2>2. v \in chosen => roll[v] > 0  BY <1>5 DEF Shown
  <2>3. roll[v] \in Nat  BY DiceAssumption DEF Dice
  <2> QED  BY <2>1, <2>2, <2>3
<1> QED  BY <1>1, <1>6 DEF Within

LEMMA TableSeen ==
  ASSUME Settling
  PROVE  /\ panel.roll \in Dice /\ panel.progress \in SUBSET Faces /\ ~Busts(panel.roll, card, panel.progress, ruleset)
         /\ panel.kept \in Nat /\ panel.kept + Count(panel.roll) = TotalDice
<1>1. Laid(panel, card) /\ panel.progress \subseteq Faces  BY AtRestIsOpen DEF Settling, OttoInv, BotInv
<1>2. Weighed(panel)  BY DEF Settling, OttoInv, WeighInv
<1> QED  BY <1>1, <1>2 DEF Laid, HasDice, Weighed

LEMMA BankableIsTried ==
  ASSUME Settling, NEW k \in Bankable, NEW ctx, Seen(ctx)
  PROVE  /\ k \in Dice /\ CanStop(Selected(k)) /\ k \in KeepsTried(ctx) /\ "stop" \in ActionsFor(ctx, k)
<1>1. /\ k \in Dice /\ Within(k, panel.roll) /\ Valid(k, card, panel.progress, ruleset) /\ CanStop(Selected(k))
  BY DEF Bankable, Selected
<1>2. PICK p : p = Selected(k)  OBVIOUS
<1>3. p.kept = panel.kept /\ p.sel = k /\ (MakesTutto(p) <=> Completes(ctx, k))  BY <1>1, <1>2, SelectedIs
<1>4. card # "Feuerwerk" /\ (Completes(ctx, k) \/ card \notin Special)  BY <1>1, <1>2, <1>3 DEF CanStop
<1>5. "stop" \in ActionsFor(ctx, k)  BY <1>4 DEF ActionsFor, Seen
<1>6. CASE card = "Kniffel" /\ ruleset # "classic"
  <2>1. panel.kept + Count(k) = TotalDice  BY <1>4, <1>6 DEF Completes, Special, Seen
  <2>2. PICK r \in Dice : r = panel.roll  BY TableSeen
  <2>3. panel.kept + Count(r) = TotalDice /\ panel.kept \in Nat  BY <2>2, TableSeen
  <2>4. Count(k) \in Nat /\ Count(r) \in Nat  BY <1>1, CountIsNat
  <2>5. Count(k) = Count(r)  BY <2>1, <2>3, <2>4
  <2>6. k = r  BY <1>1, <2>2, <2>5, AllOfIt
  <2>7. KniffelValid(k, panel.progress, ruleset)  BY <1>1, <1>6 DEF Valid
  <2>8. KniffelLargest(k, panel.progress, ruleset) = k  BY <1>1, <1>6, <2>7, WholeRun
  <2>9. k = Largest(ctx.roll, ctx.card, ctx.progress, ctx.ruleset)  BY <1>6, <2>2, <2>6, <2>8 DEF Largest, Seen
  <2> QED  BY <1>1, <1>5, <1>6, <2>9 DEF KeepsTried, Seen
<1>7. CASE ~(card = "Kniffel" /\ ruleset # "classic")
  <2>1. k \in LegalKeeps(ctx)  BY <1>1, <1>7 DEF LegalKeeps, Seen
  <2> QED  BY <1>1, <1>4, <1>5, <1>7, <2>1 DEF KeepsTried, Seen
<1> QED  BY <1>6, <1>7

LEMMA TriedIsBankable ==
  ASSUME Settling, NEW ctx, Seen(ctx), NEW k \in KeepsTried(ctx), "stop" \in ActionsFor(ctx, k)
  PROVE  k \in Bankable
<1>1. PICK r \in Dice : r = panel.roll /\ ~Busts(r, card, panel.progress, ruleset)  BY TableSeen
<1>2. card # "Feuerwerk" /\ (Completes(ctx, k) \/ card \notin Special)  BY DEF ActionsFor, Seen
<1>3. k \in Dice /\ Within(k, r) /\ Valid(k, card, panel.progress, ruleset)
  <2>1. CASE card = "Kniffel" /\ ruleset # "classic"
    <3>1. k = KniffelLargest(r, panel.progress, ruleset)  BY <1>1, <2>1 DEF KeepsTried, Largest, Seen
    <3>2. ~KniffelBusts(r, panel.progress, ruleset)  BY <1>1, <2>1 DEF Busts
    <3>3. PICK progress \in SUBSET Faces : progress = panel.progress  BY TableSeen
    <3>4. Within(k, r)  BY <2>1, <3>1, <3>2, <3>3, LargestIsWithin
    <3>5. k = Largest(r, card, progress, ruleset)  BY <2>1, <3>1, <3>3 DEF Largest
    <3>6. k \in Dice /\ Valid(k, card, progress, ruleset)  BY <1>1, <3>3, <3>5, LargestFits
    <3> QED  BY <3>3, <3>4, <3>6
  <2>2. CASE ~(card = "Kniffel" /\ ruleset # "classic")
    BY <1>1, <1>2, <2>2 DEF KeepsTried, LegalKeeps, Seen
  <2> QED  BY <2>1, <2>2
<1>4. PICK p : p = Selected(k)  OBVIOUS
<1>5. MakesTutto(p) <=> Completes(ctx, k)  BY <1>3, <1>4, SelectedIs
<1>6. CanStop(p)  BY <1>2, <1>5 DEF CanStop
<1> QED  BY <1>1, <1>3, <1>4, <1>6 DEF Bankable, Selected

-----------------------------------------------------------------------------
\* How Otto ranks what he could do on a keep, and what he makes of the best of it.
LEMMA PriorityIs ==
  ASSUME NEW ctx, NEW e, NEW f, f = Foreseen(ctx, e), NEW d \in DecisionsOn(ctx, e)
  PROVE  /\ f.settles = "win" => d.action = "stop" /\ d.priority = 2
         /\ f.settles # "win" => d.priority \in {0, 1}
         /\ f.settles = "continue" => d.priority = 1
         /\ f.settles = "loss" /\ d.action = "stop" => d.priority = 0
<1>1. \A actions, priority : d \in Deciding(e, actions, priority) => d.action \in actions /\ d.priority = priority
  BY DEF Deciding
<1>2. d \in Deemed(ctx, e, f)  BY DEF DecisionsOn
<1>3. PICK some : some = Compared(ctx, e.offered)  OBVIOUS
<1>4. CASE f.settles = "win"
  <2>1. d \in Deciding(e, {"stop"}, 2)  BY <1>2, <1>4 DEF Deemed, Winning
  <2>2. d.action \in {"stop"} /\ d.priority = 2  BY <1>1, <2>1
  <2> QED  BY <1>4, <2>2
<1>5. CASE f.settles = "loss" /\ f.roll
  <2>1. d \in Deciding(e, {"roll"}, 1)  BY <1>2, <1>5 DEF Deemed, Ordinary
  <2>2. d.action \in {"roll"} /\ d.priority = 1  BY <1>1, <2>1
  <2> QED  BY <1>5, <2>2
<1>6. CASE f.settles = "loss" /\ f.draw /\ ~f.roll
  <2>1. d \in Deciding(e, {"draw"}, 1)  BY <1>2, <1>6 DEF Deemed, Ordinary
  <2>2. d.action \in {"draw"} /\ d.priority = 1  BY <1>1, <2>1
  <2> QED  BY <1>6, <2>2
<1>7. CASE f.settles \in {"loss", "none"} /\ ~f.roll /\ ~f.draw
  <2>1. d \in Deciding(e, some, 0)  BY <1>2, <1>3, <1>7 DEF Deemed, ForcedLoss
  <2>2. d.priority = 0  BY <1>1, <2>1
  <2> QED  BY <1>7, <2>2
<1>8. CASE /\ f.settles # "win"
           /\ ~(f.settles = "loss" /\ f.roll) /\ ~(f.settles = "loss" /\ f.draw /\ ~f.roll)
           /\ ~(f.settles \in {"loss", "none"} /\ ~f.roll /\ ~f.draw)
  <2>1. d \in Deciding(e, some, 1)  BY <1>2, <1>3, <1>8 DEF Deemed, Ordinary
  <2>2. d.priority = 1 /\ f.settles # "loss"  BY <1>1, <1>8, <2>1
  <2> QED  BY <1>8, <2>2
<1> QED  BY <1>4, <1>5, <1>6, <1>7, <1>8

\* What the engine makes of banking a selection.
SettlesOf(k) == EngineSettles(Committed(Selected(k)))

\* What Otto foresees of a keep he could stop on is what the engine settles.
LEMMA ForeseenIs ==
  ASSUME Settling, NEW k \in Bankable, NEW ctx, ctx = Context, NEW e, e = Evaluated(ctx, k, ActionsFor(ctx, k))
  PROVE  /\ Foreseen(ctx, e).settles = SettlesOf(k)
         /\ SettlesOf(k) \in {"win", "loss", "continue"}
<1>1. Seen(ctx)  BY ContextIsSeen
<1>2. k \in Dice /\ CanStop(Selected(k)) /\ "stop" \in ActionsFor(ctx, k)  BY <1>1, BankableIsTried
<1>3. PICK p, m : p = Selected(k) /\ m = Committed(p)  OBVIOUS
<1>4. PICK c, bank : /\ c = IF Completes(ctx, k) THEN AfterCardCompletion(ctx, ctx.score) ELSE ctx
                     /\ bank = BankOf(ctx, k)
  OBVIOUS
<1>5. e.offered = ActionsFor(ctx, k) /\ e.completed = c /\ e.bank = bank  BY <1>4 DEF Evaluated
<1>6. EngineSettles(m) = BankOutcome(c, bank)  BY <1>2, <1>3, <1>4, SettlesAlike
<1>7. ctx.card # "Kleeblatt" /\ ctx.endgame  BY <1>1 DEF Settling, Seen
<1>8. Foreseen(ctx, e).settles = BankOutcome(c, bank)  BY <1>2, <1>5, <1>7 DEF Foreseen
<1>9. SettlesOf(k) = EngineSettles(m)  BY <1>3 DEF SettlesOf
<1>10. EngineSettles(m) \in {"win", "loss", "continue"}  BY DEF EngineSettles, Verdict
<1> QED  BY <1>6, <1>8, <1>9, <1>10

\* On every keep something is offered, and a decision is made.
LEMMA KeepIsDecided ==
  ASSUME Settling, NEW ctx, Seen(ctx), NEW k, NEW e, e = Evaluated(ctx, k, ActionsFor(ctx, k))
  PROVE  /\ e.offered \in SUBSET Actions /\ e.offered # {} /\ DecisionsOn(ctx, e) # {}
         /\ \A d \in DecisionsOn(ctx, e) : d.keep = k /\ d.action \in ActionsFor(ctx, k)
<1>1. e.offered = ActionsFor(ctx, k) /\ e.keep = k  BY DEF Evaluated
<1>2. ActionsFor(ctx, k) \in SUBSET Actions  BY DEF ActionsFor, Actions
<1>3. CASE Completes(ctx, k) /\ ctx.card # "Feuerwerk"
  <2>1. "stop" \in ActionsFor(ctx, k)  BY <1>3 DEF ActionsFor
  <2> QED  BY <1>1, <1>2, <2>1, DeemedIs
<1>4. CASE ~(Completes(ctx, k) /\ ctx.card # "Feuerwerk")
  <2>1. "roll" \in ActionsFor(ctx, k)  BY <1>4 DEF ActionsFor
  <2> QED  BY <1>1, <1>2, <2>1, DeemedIs
<1> QED  BY <1>3, <1>4

\* Among all he could do, the best for him ends the game as he would have it.
LEMMA BestSettlesRight ==
  ASSUME Settling, NEW ctx, ctx = Context, NEW best \in OttoDecisions(ctx), NEW k0 \in Bankable
  PROVE  \/ best.action = "stop" /\ best.keep \in Bankable /\ SettlesOf(best.keep) = "win"
         \/ /\ \A k \in Bankable : SettlesOf(k) # "win"
            /\ best.action = "stop" => best.keep \in Bankable
            /\ best.action = "stop" /\ SettlesOf(best.keep) = "loss" => \A k \in Bankable : SettlesOf(k) = "loss"
<1>1. Seen(ctx)  BY ContextIsSeen
<1> DEFINE on(k) == DecisionsOn(ctx, Evaluated(ctx, k, ActionsFor(ctx, k)))
<1>2. /\ \E k \in KeepsTried(ctx) : best \in on(k)
      /\ \A k \in KeepsTried(ctx) : \A d \in on(k) : d.priority <= best.priority
  BY DEF OttoDecisions, Best
<1>3. PICK kept \in KeepsTried(ctx) : best \in on(kept)  BY <1>2
<1>4. best.keep = kept /\ best.action \in ActionsFor(ctx, kept)  BY <1>1, <1>3, KeepIsDecided
<1>5. best.action = "stop" => kept \in Bankable  BY <1>1, <1>4, TriedIsBankable
<1>6. ASSUME NEW k \in Bankable
      PROVE  /\ SettlesOf(k) = "win" => best.priority >= 2
             /\ SettlesOf(k) = "continue" => best.priority >= 1
             /\ SettlesOf(k) \in {"win", "loss", "continue"}
  <2>1. k \in KeepsTried(ctx)  BY <1>1, BankableIsTried
  <2>2. PICK e : e = Evaluated(ctx, k, ActionsFor(ctx, k))  OBVIOUS
  <2>3. PICK d \in DecisionsOn(ctx, e) : TRUE  BY <1>1, <2>2, KeepIsDecided
  <2>4. d.priority <= best.priority  BY <1>2, <2>1, <2>2, <2>3
  <2>5. PICK f : f = Foreseen(ctx, e)  OBVIOUS
  <2>6. f.settles = SettlesOf(k) /\ SettlesOf(k) \in {"win", "loss", "continue"}  BY <2>2, <2>5, ForeseenIs
  <2>7. (f.settles = "win" => d.priority = 2) /\ (f.settles = "continue" => d.priority = 1)
    BY <2>3, <2>5, PriorityIs
  <2>8. best.priority \in {0, 1, 2}
    <3>1. PICK e1, f1 : e1 = Evaluated(ctx, kept, ActionsFor(ctx, kept)) /\ f1 = Foreseen(ctx, e1)  OBVIOUS
    <3>2. best \in DecisionsOn(ctx, e1)  BY <1>3, <3>1
    <3>3. /\ f1.settles = "win" => best.priority = 2
          /\ f1.settles # "win" => best.priority \in {0, 1}
      BY <3>1, <3>2, PriorityIs
    <3> QED  BY <3>3
  <2> QED  BY <2>4, <2>6, <2>7, <2>8
<1>7. PICK e, f : e = Evaluated(ctx, kept, ActionsFor(ctx, kept)) /\ f = Foreseen(ctx, e)  OBVIOUS
<1>8. best \in DecisionsOn(ctx, e)  BY <1>3, <1>7
<1> HIDE DEF on
<1>9. /\ f.settles = "win" => best.action = "stop" /\ best.priority = 2
      /\ f.settles # "win" => best.priority \in {0, 1}
      /\ f.settles = "loss" /\ best.action = "stop" => best.priority = 0
  BY <1>7, <1>8, PriorityIs
<1>10. kept \in Bankable => f.settles = SettlesOf(kept)  BY <1>7, ForeseenIs
<1>11. CASE f.settles = "win"
  <2>1. best.action = "stop" /\ kept \in Bankable  BY <1>5, <1>9, <1>11
  <2> QED  BY <1>4, <1>10, <1>11, <2>1
<1>12. CASE f.settles # "win"
  <2>1. \A k \in Bankable : SettlesOf(k) # "win"  BY <1>6, <1>9, <1>12
  <2>2. ASSUME best.action = "stop", SettlesOf(kept) = "loss" PROVE \A k \in Bankable : SettlesOf(k) = "loss"
    <3>1. f.settles = "loss"  BY <1>5, <1>10, <2>2
    <3>2. best.priority = 0  BY <1>9, <2>2, <3>1
    <3> QED  BY <1>6, <3>2
  <2> QED  BY <1>4, <1>5, <2>1, <2>2
<1> QED  BY <1>11, <1>12

LEMMA OttosPlanSettlesRight == ASSUME OttoInv PROVE OttoSettlesRight
<1> SUFFICES ASSUME plan # NoPlan, bot.personality = "optimal", bot.endgame, card # "Kleeblatt",
                    NEW settles, settles = [k \in Bankable |-> SettlesOf(k)]
             PROVE  \/ DOMAIN settles = {}
                    \/ plan.action = "stop" /\ settles[plan.keep] = "win"
                    \/ /\ \A k \in DOMAIN settles : settles[k] # "win"
                       /\ plan.action = "stop" /\ settles[plan.keep] = "loss" => \A k \in DOMAIN settles : settles[k] = "loss"
  BY Zenon DEF OttoSettlesRight, SettlesOf, Selected
<1>1. Settling  BY DEF Settling, OttoInv, BotInv, PlanFits
<1>2. PICK ctx : ctx = Context  OBVIOUS
<1>3. plan \in OttoDecisions(ctx)  BY <1>2 DEF OttoInv, PlanIsOttos
<1>4. DOMAIN settles = Bankable /\ \A k \in Bankable : settles[k] = SettlesOf(k)  OBVIOUS
<1>5. CASE Bankable = {}  BY <1>4, <1>5
<1>6. CASE Bankable # {}
  <2>1. PICK k0 \in Bankable : TRUE  BY <1>6
  <2>2. \/ plan.action = "stop" /\ plan.keep \in Bankable /\ SettlesOf(plan.keep) = "win"
        \/ /\ \A k \in Bankable : SettlesOf(k) # "win"
           /\ plan.action = "stop" => plan.keep \in Bankable
           /\ plan.action = "stop" /\ SettlesOf(plan.keep) = "loss" => \A k \in Bankable : SettlesOf(k) = "loss"
    BY <1>1, <1>2, <1>3, <2>1, BestSettlesRight
  <2> QED  BY <1>4, <2>2
<1> QED  BY <1>5, <1>6

\* Otto's count of the end of the game is the engine's (OttoSettlesRight): in the last
\* seat of a round he takes a win whenever some selection banks one, and never banks a
\* defeat while another bank would leave the game open, whatever the standings.
THEOREM OttoSettlesTheEnd == BotSpec => []OttoSettlesRight
<1>1. OttoInv => OttoSettlesRight  BY OttosPlanSettlesRight
<1> QED  BY <1>1, OttosTablesHold, PTL
=============================================================================
