----------------------------- MODULE UpdateFlow -----------------------------
(***************************************************************************)
(* How a new build reaches the pages that are open: the service worker     *)
(* with its cache generations (sw.js) and the two one-shot watches of a    *)
(* page (swUpdate.ts), which ask a waiting worker to take over, and reload *)
(* the page once one has, at a moment that interrupts nothing.  Against    *)
(* them works the recovery of a page that has crashed (ErrorBoundary.tsx), *)
(* which throws away the caches and the workers of all pages.              *)
(*                                                                         *)
(* An install is several steps, so that a deploy, a lost connection, a     *)
(* takeover or a recovery may fall into it; a page's reaction to an event  *)
(* is one.                                                                 *)
(*                                                                         *)
(* A build is its number.  Of its files two kinds matter: the document,    *)
(* whose URL stays the same across builds, and the lazily loaded chunk,    *)
(* whose name is a hash of its content (Chunk).  The server holds the      *)
(* files of the deployed build and no others.  The browser's part (one     *)
(* waiting worker at most, replaced by a newer one; update checks; events  *)
(* to every page) is taken as the source relies on it.                     *)
(*                                                                         *)
(* A registration that is ended takes its workers with it, but for the one *)
(* in control, which goes on serving the pages it was left with until a    *)
(* new one claims them.                                                    *)
(***************************************************************************)
EXTENDS Naturals, FiniteSets, FiniteSetsExt, Functions

CONSTANTS Tab,        \* places a page may be open in
          MaxBuild,   \* bound of the model: builds ever deployed
          Chunk       \* the hashed chunk of each build; builds may share one

Build == 1..MaxBuild
Retained == 2         \* RETAINED_CACHE_GENERATIONS

ASSUME BuildAssumption == MaxBuild \in Nat \ {0} /\ DOMAIN Chunk = Build

VARIABLES
  deployed,    \* the build the server hands out
  online,      \* the server can be reached
  caches,      \* the cache generations, by build
  installing,  \* the worker being installed, and the files it has yet to try
  waiting,     \* the installed worker that waits, or 0
  skipping,    \* it has been sent SKIP_WAITING
  active,      \* the worker in control of every page, or 0
  tabs,        \* the page of each tab
  later        \* of each generation, those opened after it was, since the caches
               \* were last thrown away: the order in which caches.keys() lists them

vars == <<deployed, online, caches, installing, waiting, skipping, active, tabs, later>>
worker == <<caches, installing, waiting, skipping, active, later>>

-----------------------------------------------------------------------------
\* A page: the build it runs, whether a reload would interrupt something, and
\* the latches of swUpdate.ts.  The registration of an `orphan` has been ended;
\* `stray` is the worker it was left with, or 0.  `adopted` (loaded under a
\* worker) and `had` (its chunk was in its own generation, installed, since then)
\* are history.
NoPage == [build |-> 0, busy |-> FALSE, listening |-> FALSE, applied |-> FALSE,
           watching |-> FALSE, toReload |-> FALSE, orphan |-> FALSE, stray |-> 0,
           adopted |-> FALSE, had |-> FALSE]
IsOpen(page) == page.build # 0

\* The worker that answers a page's requests.
Server(page) == IF page.stray # 0 THEN page.stray ELSE active

\* isSafeToApplyUpdate: no game under way, no room, no draft, no statistics.
Safe(page) == ~page.busy
NotInstalling == [gen |-> 0, todo |-> {}]

Has(cs, chunk) == \E g \in DOMAIN cs : chunk \in cs[g].chunks

\* caches.open creates a generation that is not there: the newest of all.
Opened(gen) ==
  [g \in DOMAIN caches \cup {gen} |-> IF g \in DOMAIN caches THEN caches[g] ELSE [shell |-> 0, chunks |-> {}]]
Dated(gen) ==
  IF gen \in DOMAIN caches THEN later
  ELSE [g \in DOMAIN later \cup {gen} |-> IF g = gen THEN {} ELSE later[g] \cup {gen}]

\* matchPreferringCurrent, of the document: the worker's own, then the oldest.
CachedShell(cs, act) ==
  LET holders == {g \in DOMAIN cs : cs[g].shell # 0}
  IN IF act \in holders THEN cs[act].shell
     ELSE IF holders = {} THEN 0 ELSE cs[CHOOSE g \in holders : holders \ {g} \subseteq later[g]].shell

\* handleNavigation: network first, then the cached document; without a worker
\* the network alone.  0: nothing can be shown.
Document(cs, act) ==
  IF online THEN deployed ELSE IF act = 0 THEN 0 ELSE CachedShell(cs, act)

\* Keeps the history of a page: whether its own generation holds its chunk now.
Noted(page, cs, installed) ==
  [page EXCEPT !.had = @ \/ (page.build \in installed \cap DOMAIN cs
                                /\ Chunk[page.build] \in cs[page.build].chunks)]

-----------------------------------------------------------------------------
\* The watches of a page.

\* applyUpdateWhenIdle, called whenever a worker is found waiting.
Told(page) ==
  IF page.applied \/ page.watching THEN [page EXCEPT !.listening = TRUE]
  ELSE [page EXCEPT !.listening = TRUE, !.applied = Safe(page), !.watching = ~Safe(page)]

\* Whether being told makes the page send SKIP_WAITING at once.
Asks(page) == IsOpen(page) /\ ~page.orphan /\ ~page.applied /\ ~page.watching /\ Safe(page)

\* A page loads: every latch is new, the worker registers, and a worker that is
\* waiting already is told of.  `busy`: a local game was restored.
Loaded(build, busy, cs, act, wait) ==
  IF build = 0 THEN NoPage
  ELSE LET page == [NoPage EXCEPT !.build = build, !.busy = busy, !.adopted = act # 0]
       IN Noted(IF wait # 0 THEN Told(page) ELSE page, cs, {act, wait})

\* cancelPendingApply: the worker the watch waited for has taken over.
CancelPendingApply(page) == IF page.applied THEN page ELSE [page EXCEPT !.watching = FALSE]

\* Seeded fault of reloadOnceForUpdate: a page that is in the middle of something
\* stands down for good.
ClaimedStandsDown(page, cs, act) ==
  IF ~IsOpen(page) \/ ~page.listening THEN page
  ELSE IF ~Safe(page) THEN CancelPendingApply(page)
  ELSE Loaded(Document(cs, act), FALSE, cs, act, 0)

\* reloadOnceForUpdate, when the page's controller has changed: a page that is
\* in the middle of something waits for its own idle moment.
Claimed(page, cs, act) ==
  IF ~IsOpen(page) \/ ~page.listening THEN page
  ELSE IF ~Safe(page) THEN [CancelPendingApply(page) EXCEPT !.toReload = TRUE]
  ELSE Loaded(Document(cs, act), FALSE, cs, act, 0)

-----------------------------------------------------------------------------
\* The environment.

Deploy ==
  /\ deployed < MaxBuild /\ deployed' = deployed + 1
  /\ UNCHANGED <<online, tabs, worker>>

Connection ==
  /\ online' = ~online
  /\ UNCHANGED <<deployed, tabs, worker>>

\* A page is opened, or reloaded by hand.
Open(t) ==
  \E busy \in BOOLEAN, build \in {Document(caches, active)} :
    /\ build # 0
    /\ tabs' = [tabs EXCEPT ![t] = Loaded(build, busy, caches, active, waiting)]
    /\ skipping' = (skipping \/ (waiting # 0 /\ ~busy))
    /\ UNCHANGED <<deployed, online, caches, installing, waiting, active, later>>

Close(t) ==
  /\ IsOpen(tabs[t])
  /\ tabs' = [tabs EXCEPT ![t] = NoPage]
  /\ UNCHANGED <<deployed, online, worker>>

\* A game begins, a room is joined, a form is filled in, the statistics open.
GetBusy(t) ==
  /\ IsOpen(tabs[t]) /\ Safe(tabs[t])
  /\ tabs' = [tabs EXCEPT ![t].busy = TRUE]
  /\ UNCHANGED <<deployed, online, worker>>

\* isSafeToApplyUpdate becomes true, and both watches try: the one asks the
\* waiting worker to take over, the other reloads the page (which then asks).
GetIdle(t) ==
  /\ IsOpen(tabs[t]) /\ ~Safe(tabs[t])
  /\ skipping' = (skipping \/ (waiting # 0 /\ (tabs[t].toReload \/ (tabs[t].watching /\ ~tabs[t].orphan))))
  /\ tabs' = [tabs EXCEPT ![t] =
       IF @.toReload THEN Loaded(Document(caches, active), FALSE, caches, active, waiting)
       ELSE [@ EXCEPT !.busy = FALSE, !.applied = tabs[t].applied \/ tabs[t].watching, !.watching = FALSE]]
  /\ UNCHANGED <<deployed, online, caches, installing, waiting, active, later>>

\* A lazy import: the worker opens its own generation (a recovery may have taken
\* it), and what no generation holds it fetches; a chunk of its own build is
\* written back, and so repairs what the install had to leave out.
LoadChunk(t) ==
  LET page == tabs[t]
      w == Server(page)
      repairs == /\ ~Has(caches, Chunk[page.build]) /\ online
                 /\ Chunk[page.build] = Chunk[deployed] /\ Chunk[page.build] = Chunk[w]
  IN /\ IsOpen(page) /\ w # 0
     /\ repairs \/ w \notin DOMAIN caches
     /\ caches' = [Opened(w) EXCEPT ![w].chunks = @ \cup (IF repairs THEN {Chunk[w]} ELSE {})]
     /\ later' = Dated(w)
     /\ tabs' = [u \in Tab |-> Noted(tabs[u], caches', {active})]
     /\ UNCHANGED <<deployed, online, installing, waiting, skipping, active>>

\* What a recovery elsewhere makes of a page: it keeps the worker in control, and
\* has no registration.
LeftBehind(page) ==
  [page EXCEPT !.orphan = TRUE, !.stray = IF active # 0 THEN active ELSE @, !.had = FALSE]

\* softRecover and hardReset, by itself on the first crash or by a button: every
\* generation is deleted, every worker unregistered, and the page reloads, from
\* the network alone.  (The code awaits the one before the other; they are one
\* step here.)
SoftRecover(t) ==
  /\ IsOpen(tabs[t])
  /\ caches' = <<>> /\ later' = <<>>
  /\ installing' = NotInstalling /\ waiting' = 0 /\ skipping' = FALSE /\ active' = 0
  /\ \E busy \in BOOLEAN :
       tabs' = [u \in Tab |-> IF u = t THEN Loaded(Document(<<>>, 0), busy, <<>>, 0, 0)
                               ELSE IF IsOpen(tabs[u]) THEN LeftBehind(tabs[u]) ELSE NoPage]
  /\ UNCHANGED <<deployed, online>>

-----------------------------------------------------------------------------
\* The worker.

\* An update check finds a new script: its install opens the generation and
\* copies forward what another one holds under the same hashed name.
UpdateCheck ==
  /\ online /\ \E t \in Tab : IsOpen(tabs[t]) /\ ~tabs[t].orphan
  /\ installing = NotInstalling /\ deployed \notin {active, waiting}
  /\ LET copied == {Chunk[deployed]} \cap UNION {caches[g].chunks : g \in DOMAIN caches \ {deployed}}
     IN /\ caches' = [Opened(deployed) EXCEPT ![deployed].chunks = @ \cup copied]
        /\ installing' = [gen |-> deployed, todo |-> {"shell"} \cup (IF copied = {} THEN {"chunk"} ELSE {})]
  /\ later' = Dated(deployed)
  /\ UNCHANGED <<deployed, online, waiting, skipping, active, tabs>>

\* The document the server has now, which may be of a newer build.
FetchShell ==
  /\ "shell" \in installing.todo
  /\ installing' = [installing EXCEPT !.todo = @ \ {"shell"}]
  /\ caches' = IF online THEN [caches EXCEPT ![installing.gen].shell = deployed] ELSE caches
  /\ UNCHANGED <<deployed, online, waiting, skipping, active, tabs, later>>

\* A hashed file that cannot be had is left out.
FetchChunk ==
  /\ "chunk" \in installing.todo
  /\ installing' = [installing EXCEPT !.todo = @ \ {"chunk"}]
  /\ caches' = IF online /\ Chunk[deployed] = Chunk[installing.gen]
               THEN [caches EXCEPT ![installing.gen].chunks = {Chunk[installing.gen]}] ELSE caches
  /\ UNCHANGED <<deployed, online, waiting, skipping, active, tabs, later>>

\* The previous generations an activation keeps: the last to be created.
Previous(cs, act) ==
  {g \in DOMAIN cs \ {act} : Cardinality(later[g] \cap (DOMAIN cs \ {act})) < Retained - 1}

\* Seeded fault of the activate handler: it keeps its own generation alone.
KeepOwn(cs, act) == Restrict(cs, DOMAIN cs \cap {act})

\* The generations that survive an activation.
Kept(cs, act) == Restrict(cs, DOMAIN cs \cap ({act} \cup Previous(cs, act)))

\* The activate handler and clients.claim: every page has a new controller, those
\* that were left behind too.
TakeOver(w, cs) ==
  /\ active' = w /\ caches' = Kept(cs, w)
  /\ tabs' = [t \in Tab |-> Claimed([Noted(tabs[t], cs, {w}) EXCEPT !.stray = 0], Kept(cs, w), w)]

\* Seeded fault of install: a generation without its document is accepted.
AnyIsComplete(gen) == TRUE

\* The document is mandatory, the chunk is not.
Complete(gen) == caches[gen].shell # 0

InstallEnds == installing # NotInstalling /\ installing.todo = {} /\ ~skipping /\ installing' = NotInstalling

\* Without the document the install has failed, and its generation goes.
InstallFails ==
  /\ InstallEnds /\ ~Complete(installing.gen)
  /\ caches' = Restrict(caches, DOMAIN caches \ {installing.gen})
  /\ UNCHANGED <<deployed, online, waiting, skipping, active, tabs, later>>

\* The first worker takes over at once.
FirstWorker ==
  /\ InstallEnds /\ Complete(installing.gen) /\ active = 0
  /\ TakeOver(installing.gen, caches)
  /\ UNCHANGED <<deployed, online, waiting, skipping, later>>

\* A later one waits, in the place of one that waited before it, and every page
\* of the registration is told.  One that was told to skip waiting takes over before this.
Installed ==
  /\ InstallEnds /\ Complete(installing.gen) /\ active # 0
  /\ waiting' = installing.gen
  /\ skipping' = (\E t \in Tab : Asks(tabs[t]))
  /\ tabs' = [t \in Tab |-> LET page == tabs[t]
                            IN IF ~IsOpen(page) THEN NoPage
                               ELSE Noted(IF page.orphan THEN page ELSE Told(page), caches, {installing.gen})]
  /\ UNCHANGED <<deployed, online, caches, active, later>>

\* The waiting worker takes over when it was told to, or when no page is open.
Activate ==
  /\ waiting # 0
  /\ skipping \/ \A t \in Tab : ~IsOpen(tabs[t])
  /\ TakeOver(waiting, caches)
  /\ waiting' = 0 /\ skipping' = FALSE
  /\ UNCHANGED <<deployed, online, installing, later>>

Init ==
  /\ deployed = 1 /\ online = TRUE
  /\ caches = <<>> /\ installing = NotInstalling /\ waiting = 0 /\ skipping = FALSE /\ active = 0
  /\ tabs = [t \in Tab |-> NoPage] /\ later = <<>>

Next ==
  \/ Deploy \/ Connection
  \/ \E t \in Tab : Open(t) \/ Close(t) \/ GetBusy(t) \/ GetIdle(t) \/ LoadChunk(t)
                  \/ SoftRecover(t)
  \/ UpdateCheck \/ FetchShell \/ FetchChunk \/ InstallFails \/ FirstWorker \/ Installed \/ Activate

Spec == Init /\ [][Next]_vars

\* The browser goes on with what it has begun and looks for a new script again
\* and again (swUpdate.ts: "the browser's own periodic sw.js re-check").
Fairness ==
  WF_vars(UpdateCheck) /\ WF_vars(FetchShell) /\ WF_vars(FetchChunk)
    /\ WF_vars(InstallFails \/ FirstWorker \/ Installed) /\ WF_vars(Activate)
LiveSpec == Spec /\ Fairness

-----------------------------------------------------------------------------
\* A page left on an older build goes on loading its own chunks: once its own
\* generation held them they stay available until two others have been opened
\* after that one, or a recovery has thrown everything away; whatever was
\* installed, failed, waited, was replaced or took over meanwhile.
OldTabsKeepChunks ==
  \A t \in Tab :
    LET b == tabs[t].build
    IN tabs[t].had /\ Cardinality(later[b]) < Retained => Has(caches, Chunk[b])

\* Once a worker is in control, a start without a network shows a document.
OfflineStart == active # 0 => CachedShell(caches, active) # 0

\* A new build arrives: with the server in reach from some time on, and every
\* page idle now and then, each page loaded under a worker that is registered
\* still ends on the build that is deployed; no latch of an update that came to
\* nothing, and no recovery of another page, stands in the way.
UpdatesArrive ==
  <>[]online /\ (\A t \in Tab : []<>Safe(tabs[t]))
    => <>[](\A t \in Tab : IsOpen(tabs[t]) /\ tabs[t].adopted /\ ~tabs[t].orphan => tabs[t].build = deployed)
=============================================================================
