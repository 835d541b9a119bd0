-------------------------- MODULE UpdateFlow_proofs --------------------------
(***************************************************************************)
(* What the service worker's caches hold, for any number of builds and     *)
(* tabs, and whichever builds share a chunk.                               *)
(*                                                                         *)
(* Neither OfflineStart nor OldTabsKeepChunks is inductive: both depend on *)
(* the order in which generations were opened, which recoveries and the    *)
(* workers they leave behind disturb (GenerationInv), and on what a page's *)
(* own generation held at the last moment it was looked at (PagesInv).     *)
(* That only a recovery takes away, or an activation, and an activation    *)
(* only when two generations have been opened since.                       *)
(***************************************************************************)
EXTENDS UpdateFlow, FiniteSetTheorems, TLAPS

AnyChunk == {Chunk[b] : b \in Build}
Cache == [shell : Nat, chunks : SUBSET AnyChunk]
Page == [build : Nat, busy : BOOLEAN, listening : BOOLEAN, applied : BOOLEAN,
         watching : BOOLEAN, toReload : BOOLEAN, orphan : BOOLEAN, stray : Nat,
         adopted : BOOLEAN, had : BOOLEAN]

TypeInv ==
  /\ deployed \in Build /\ active \in Nat /\ waiting \in Nat
  /\ installing \in [gen : Nat, todo : SUBSET {"shell", "chunk"}]
  /\ DOMAIN later \subseteq 1..deployed /\ later \in [DOMAIN later -> SUBSET (1..deployed)]
  /\ DOMAIN caches \subseteq DOMAIN later /\ caches \in [DOMAIN caches -> Cache]
  /\ tabs \in [Tab -> Page]

WithShell(g) == g \in DOMAIN caches /\ caches[g].shell # 0

\* The workers on their way were opened after generation b.
InOrder(b) ==
  /\ waiting # 0 /\ waiting # b => waiting \in later[b]
  /\ installing # NotInstalling => installing.gen \in later[b]

\* A worker that controls, waits or is being installed is newer, and opened
\* later, than those before it and has its own generation; once installed, with
\* its document.
GenerationInv ==
  /\ active # 0 =>
       /\ WithShell(active) /\ InOrder(active)
       /\ \A g \in DOMAIN caches : g <= active \/ g <= waiting \/ g = installing.gen
  /\ waiting # 0 => WithShell(waiting) /\ InOrder(waiting) /\ active # 0 /\ active < waiting
  /\ installing # NotInstalling =>
       /\ installing.gen \in DOMAIN caches
       /\ active < installing.gen /\ waiting < installing.gen
       /\ \A g \in DOMAIN caches : g <= installing.gen
       /\ active # 0 => \A g \in DOMAIN caches : g \notin later[installing.gen]

\* Less than two generations have been opened after this one.
Recent(b) == Cardinality(later[b]) < Retained
Held(cs, b) == b \in DOMAIN cs /\ Chunk[b] \in cs[b].chunks
Installs(b) == b <= active \/ b <= waiting

\* A worker serves pages it was left with only until another one is in control.
Served(page) ==
  /\ page.stray <= deployed
  /\ active # 0 => page.stray = 0
  /\ installing # NotInstalling => page.stray <= installing.gen

\* A page that has had its chunk keeps it in its own generation.
KeepsChunk(page) ==
  page.had => /\ page.build \in DOMAIN later /\ Installs(page.build) /\ InOrder(page.build)
              /\ Recent(page.build) => Held(caches, page.build)
PageOk(page) == Served(page) /\ KeepsChunk(page)
PagesInv == \A t \in Tab : PageOk(tabs[t])

CachesInv == TypeInv /\ GenerationInv /\ PagesInv

-----------------------------------------------------------------------------
\* Sets of builds, generations and their order.

LEMMA LaterFinite ==
  ASSUME NEW n \in Nat, NEW T, T \subseteq 1..n
  PROVE  IsFiniteSet(T) /\ Cardinality(T) \in Nat
<1>1. IsFiniteSet(1..n)
  BY FS_Interval
<1>2. IsFiniteSet(T)
  BY <1>1, FS_Subset
<1> QED BY <1>2, FS_CardinalityType

LEMMA TwoLater ==
  ASSUME NEW n \in Nat, NEW T, T \subseteq 1..n, NEW g \in T, NEW h \in T, g # h
  PROVE  ~(Cardinality(T) < 2)
<1>1. IsFiniteSet(T) /\ Cardinality(T) \in Nat
  BY LaterFinite
<1>2. Cardinality(T) # 0
  BY <1>1, FS_EmptySet
<1>3. Cardinality(T) # 1
  <2>1. ASSUME Cardinality(T) = 1 PROVE FALSE
    <3>1. PICK x : T = {x}
      BY <1>1, <2>1, FS_Singleton
    <3> QED BY <3>1
  <2> QED BY <2>1
<1> QED BY <1>1, <1>2, <1>3

\* What an activation keeps: its own generation, and of any other one that goes
\* there is a later one besides.
LEMMA KeptGenerations ==
  ASSUME NEW n \in Nat, NEW cs, NEW act, later \in [DOMAIN later -> SUBSET (1..n)],
         DOMAIN cs \subseteq DOMAIN later
  PROVE  /\ DOMAIN Kept(cs, act) \subseteq DOMAIN cs
         /\ \A g \in DOMAIN Kept(cs, act) : Kept(cs, act)[g] = cs[g]
         /\ act \in DOMAIN cs => act \in DOMAIN Kept(cs, act)
         /\ \A g \in DOMAIN cs : g \notin DOMAIN Kept(cs, act) => \E h \in DOMAIN cs : h # act /\ h \in later[g]
<1> DEFINE others == DOMAIN cs \ {act}
<1>1. Kept(cs, act) = [g \in DOMAIN cs \cap ({act} \cup Previous(cs, act)) |-> cs[g]]
  BY DEF Kept, Restrict
<1>2. Previous(cs, act) = {g \in others : Cardinality(later[g] \cap others) < 1}
  BY DEF Previous, Retained
<1>3. ASSUME NEW g \in DOMAIN cs, g \notin DOMAIN Kept(cs, act)
      PROVE  \E h \in DOMAIN cs : h # act /\ h \in later[g]
  <2>1. g \in others /\ ~(Cardinality(later[g] \cap others) < 1)
    BY <1>1, <1>2, <1>3
  <2>2. later[g] \cap others # {}
    BY <2>1, FS_EmptySet
  <2> QED BY <2>2
<1> QED BY <1>1, <1>3

LEMMA BuildNumbers == Build \subseteq Nat /\ MaxBuild \in Nat /\ 1 \in Build /\ Build \subseteq 1..MaxBuild
BY BuildAssumption DEF Build

LEMMA Facts ==
  ASSUME CachesInv
  PROVE  /\ deployed \in Nat /\ deployed \in Build /\ deployed # 0 /\ active \in Nat /\ waiting \in Nat
         /\ installing \in [gen : Nat, todo : SUBSET {"shell", "chunk"}]
         /\ later \in [DOMAIN later -> SUBSET (1..deployed)] /\ DOMAIN later \subseteq 1..deployed
         /\ DOMAIN caches \subseteq DOMAIN later /\ DOMAIN caches \subseteq 1..deployed
         /\ DOMAIN caches \subseteq Build
         /\ caches \in [DOMAIN caches -> Cache] /\ tabs \in [Tab -> Page]
<1>1. deployed \in Build /\ DOMAIN caches \subseteq 1..deployed
  BY DEF CachesInv, TypeInv
<1>2. deployed \in Nat /\ deployed # 0 /\ 1..deployed \subseteq Build
  BY <1>1, BuildNumbers DEF Build
<1> QED BY <1>1, <1>2 DEF CachesInv, TypeInv

LEMMA ChunkOfBuild == \A b \in Build : Chunk[b] \in AnyChunk
BY DEF AnyChunk

\* A generation that is opened.
LEMMA OpenedGeneration ==
  ASSUME CachesInv, NEW gen \in 1..deployed
  PROVE  /\ DOMAIN Opened(gen) = DOMAIN caches \cup {gen}
         /\ \A g \in DOMAIN caches : Opened(gen)[g] = caches[g]
         /\ Opened(gen) \in [DOMAIN caches \cup {gen} -> Cache]
         /\ DOMAIN Dated(gen) = DOMAIN later \cup {gen}
         /\ Dated(gen) \in [DOMAIN later \cup {gen} -> SUBSET (1..deployed)]
         /\ gen \in DOMAIN caches => Dated(gen) = later
         /\ gen \notin DOMAIN caches =>
              Dated(gen)[gen] = {} /\ \A g \in DOMAIN later : g # gen => Dated(gen)[g] = later[g] \cup {gen}
<1>1. [shell |-> 0, chunks |-> {}] \in Cache
  BY DEF Cache
<1>2. CASE gen \in DOMAIN caches
  BY <1>1, <1>2, Facts DEF Opened, Dated
<1>3. CASE gen \notin DOMAIN caches
  BY <1>1, <1>3, Facts DEF Opened, Dated
<1> QED BY <1>2, <1>3

-----------------------------------------------------------------------------
\* Documents and pages.

\* Without a worker, or under one that has its generation whole.
WholeUnder(cs, act) == act = 0 \/ (act \in DOMAIN cs /\ cs[act] \in Cache /\ cs[act].shell # 0)

LEMMA DocumentIsBuild ==
  ASSUME NEW cs, NEW act, WholeUnder(cs, act), deployed \in Nat
  PROVE  Document(cs, act) \in Nat
<1>1. act # 0 => CachedShell(cs, act) = cs[act].shell
  BY DEF CachedShell, WholeUnder
<1>2. act # 0 => cs[act].shell \in Nat
  BY DEF WholeUnder, Cache
<1> QED BY <1>1, <1>2 DEF Document

\* The page runs as before, as far as its worker and its chunk are concerned.
Alike(page, next) == next \in Page /\ next.build = page.build /\ next.had = page.had /\ next.stray = page.stray

LEMMA ToldPage ==
  ASSUME NEW page \in Page
  PROVE  Alike(page, Told(page))
BY DEF Told, Page, Safe, Alike

LEMMA NotedPage ==
  ASSUME NEW page \in Page, NEW cs, NEW installed
  PROVE  /\ Noted(page, cs, installed) \in Page
         /\ Noted(page, cs, installed).build = page.build /\ Noted(page, cs, installed).stray = page.stray
         /\ Noted(page, cs, installed).had =>
              page.had \/ (page.build \in installed /\ Held(cs, page.build))
BY DEF Noted, Page, Held

\* A page just loaded: what it has had, a worker's own generation holds.
FreshPage(page, cs, act, wait) ==
  /\ page \in Page /\ page.stray = 0
  /\ page.had => page.build # 0 /\ page.build \in {act, wait} /\ Held(cs, page.build)

LEMMA NoPageIsFresh == \A cs, act, wait : FreshPage(NoPage, cs, act, wait)
BY DEF NoPage, Page, FreshPage

LEMMA LoadedPage ==
  ASSUME NEW build \in Nat, NEW busy \in BOOLEAN, NEW cs, NEW act, NEW wait
  PROVE  FreshPage(Loaded(build, busy, cs, act, wait), cs, act, wait)
<1>1. CASE build = 0
  BY <1>1, NoPageIsFresh DEF Loaded
<1>2. CASE build # 0
  <2> DEFINE page == [NoPage EXCEPT !.build = build, !.busy = busy, !.adopted = act # 0]
             seen == IF wait # 0 THEN Told(page) ELSE page
  <2>1. page \in Page /\ ~page.had /\ page.build = build /\ page.stray = 0
    BY DEF Page, NoPage
  <2>2. seen \in Page /\ ~seen.had /\ seen.build = build /\ seen.stray = 0
    <3> HIDE DEF page
    <3> QED BY <2>1, ToldPage DEF Alike
  <2>3. Loaded(build, busy, cs, act, wait) = Noted(seen, cs, {act, wait})
    BY <1>2 DEF Loaded
  <2> HIDE DEF seen, page
  <2> QED BY <1>2, <2>2, <2>3, NotedPage DEF FreshPage
<1> QED BY <1>1, <1>2

LEMMA ClaimedPage ==
  ASSUME NEW page \in Page, NEW cs, NEW act, WholeUnder(cs, act), deployed \in Nat
  PROVE  FreshPage(Claimed(page, cs, act), cs, act, 0) \/ Alike(page, Claimed(page, cs, act))
<1>1. CASE ~IsOpen(page) \/ ~page.listening
  BY <1>1 DEF Claimed, Alike
<1>2. CASE ~(~IsOpen(page) \/ ~page.listening) /\ ~Safe(page)
  <2>1. PICK next : next = CancelPendingApply(page)
    OBVIOUS
  <2>2. Alike(page, next)
    BY <2>1 DEF CancelPendingApply, Page, Alike
  <2>3. Claimed(page, cs, act) = [next EXCEPT !.toReload = TRUE]
    BY <1>2, <2>1 DEF Claimed
  <2>4. Alike(next, [next EXCEPT !.toReload = TRUE])
    BY <2>2 DEF Page, Alike
  <2> QED BY <2>2, <2>3, <2>4 DEF Alike
<1>3. CASE ~(~IsOpen(page) \/ ~page.listening) /\ Safe(page)
  <2>1. Claimed(page, cs, act) = Loaded(Document(cs, act), FALSE, cs, act, 0)
    BY <1>3 DEF Claimed
  <2>2. Document(cs, act) \in Nat
    BY DocumentIsBuild
  <2> QED BY <2>1, <2>2, LoadedPage
<1> QED BY <1>1, <1>2, <1>3

-----------------------------------------------------------------------------
\* What a step must keep for a page to keep its chunk.

LEMMA ChunkStays ==
  ASSUME TypeInv', NEW page, KeepsChunk(page),
         page.had => /\ page.build \in DOMAIN later' /\ Installs(page.build)' /\ InOrder(page.build)'
                     /\ later[page.build] \subseteq later'[page.build]
                     /\ Recent(page.build)' /\ Held(caches, page.build) => Held(caches', page.build)
  PROVE  KeepsChunk(page)'
<1>1. ASSUME page.had, Recent(page.build)' PROVE Recent(page.build)
  <2>n. deployed' \in Nat
    BY BuildNumbers DEF TypeInv
  <2>o. PICK old, new : old = later[page.build] /\ new = later'[page.build]
    OBVIOUS
  <2>p. PICK n \in Nat : n = deployed'
    BY <2>n
  <2>1. old = later[page.build] /\ new = later'[page.build] /\ n = deployed'
    BY <2>o, <2>p
  <2>2. old \subseteq new /\ new \subseteq 1..n
    BY <1>1, <2>1 DEF TypeInv
  <2>3. IsFiniteSet(new) /\ Cardinality(new) \in Nat /\ Cardinality(old) \in Nat
    BY <2>2, LaterFinite
  <2>4. Cardinality(old) <= Cardinality(new)
    BY <2>2, <2>3, FS_Subset
  <2>5. Cardinality(new) < 2
    BY <1>1, <2>1 DEF Recent, Retained
  <2> QED BY <2>1, <2>3, <2>4, <2>5 DEF Recent, Retained
<1> QED BY <1>1 DEF KeepsChunk

\* A page just loaded is in order, by the workers' own order.
LEMMA FreshIsOk ==
  ASSUME CachesInv, NEW page, FreshPage(page, caches, active, waiting)
  PROVE  PageOk(page)
<1>1. Served(page)
  BY Facts DEF FreshPage, Served
<1>2. KeepsChunk(page)
  <2> SUFFICES ASSUME page.had PROVE KeepsChunk(page)
    BY DEF KeepsChunk
  <2>1. page.build # 0 /\ page.build \in {active, waiting} /\ Held(caches, page.build)
    BY DEF FreshPage
  <2>2. InOrder(page.build)
    BY <2>1 DEF CachesInv, GenerationInv
  <2>3. page.build \in DOMAIN later /\ Installs(page.build)
    BY <2>1, Facts DEF Held, Installs
  <2> QED BY <2>1, <2>2, <2>3 DEF KeepsChunk
<1> QED BY <1>1, <1>2 DEF PageOk

-----------------------------------------------------------------------------
\* The environment's steps.

\* A step that concerns pages alone.
LEMMA PagesOnly ==
  ASSUME CachesInv, UNCHANGED <<deployed, caches, installing, waiting, active, later>>,
         tabs' \in [Tab -> Page],
         \A t \in Tab : FreshPage(tabs'[t], caches, active, waiting) \/ Alike(tabs[t], tabs'[t])
  PROVE  CachesInv'
<1>1. TypeInv'
  BY DEF CachesInv, TypeInv
<1>2. GenerationInv'
  BY DEF CachesInv, GenerationInv, WithShell, InOrder
<1>3. ASSUME NEW t \in Tab PROVE PageOk(tabs[t])'
  <2>1. PICK page, next : page = tabs[t] /\ next = tabs'[t]
    OBVIOUS
  <2>2. PageOk(page)
    BY <2>1 DEF CachesInv, PagesInv
  <2>3. PageOk(next)
    <3>1. CASE FreshPage(next, caches, active, waiting)
      BY <3>1, FreshIsOk
    <3>2. CASE Alike(page, next)
      BY <2>2, <3>2 DEF Alike, PageOk, Served, KeepsChunk
    <3> QED BY <2>1, <3>1, <3>2
  <2> QED BY <2>1, <2>3 DEF PageOk, Served, KeepsChunk, Recent, Held, Installs, InOrder
<1>4. PagesInv'
  BY <1>3 DEF PagesInv
<1> QED BY <1>1, <1>2, <1>4 DEF CachesInv

LEMMA UnderActive ==
  ASSUME CachesInv
  PROVE  WholeUnder(caches, active)
BY Facts DEF CachesInv, GenerationInv, WithShell, WholeUnder

LEMMA EnvironmentStep ==
  ASSUME CachesInv, Deploy \/ Connection \/ \E t \in Tab : Open(t) \/ Close(t) \/ GetBusy(t) \/ GetIdle(t)
  PROVE  CachesInv'
<1>0. TypeInv /\ tabs \in [Tab -> Page] /\ deployed \in Nat
  BY Facts DEF CachesInv
<1>w. WholeUnder(caches, active)
  BY UnderActive
<1>s. \A t \in Tab : Alike(tabs[t], tabs[t])
  BY <1>0 DEF Alike
<1>1. CASE Deploy
  <2>1. deployed' = deployed + 1 /\ deployed < MaxBuild
        /\ UNCHANGED <<caches, installing, waiting, active, later, tabs>>
    BY <1>1 DEF Deploy, worker
  <2>2. TypeInv'
    <3>1. deployed' \in Build /\ 1..deployed \subseteq 1..deployed'
      BY <1>0, <2>1, BuildNumbers DEF Build
    <3>2. later \in [DOMAIN later -> SUBSET (1..deployed')] /\ DOMAIN later \subseteq 1..deployed'
      BY <3>1, Facts
    <3> QED BY <2>1, <3>1, <3>2 DEF CachesInv, TypeInv
  <2>3. GenerationInv'
    BY <2>1 DEF CachesInv, GenerationInv, WithShell, InOrder
  <2>4. ASSUME NEW t \in Tab PROVE PageOk(tabs[t])'
    <3>1. PICK page : page = tabs[t] /\ page \in Page
      BY <1>0
    <3>2. PageOk(page)
      BY <3>1 DEF CachesInv, PagesInv
    <3>3. page.stray \in Nat
      BY <3>1 DEF Page
    <3>4. Served(page)' /\ KeepsChunk(page)'
      BY <1>0, <2>1, <3>2, <3>3 DEF PageOk, Served, KeepsChunk, Recent, Held, Installs, InOrder
    <3> QED BY <2>1, <3>1, <3>4 DEF PageOk, Served, KeepsChunk, Recent, Held, Installs, InOrder
  <2> QED BY <2>2, <2>3, <2>4 DEF CachesInv, PagesInv
<1>2. CASE Connection
  <2>1. UNCHANGED <<deployed, caches, installing, waiting, active, later, tabs>>
    BY <1>2 DEF Connection, worker
  <2> QED BY <1>0, <1>s, <2>1, PagesOnly
<1>3. ASSUME NEW t \in Tab, Open(t) PROVE CachesInv'
  <2>1. PICK busy \in BOOLEAN, build \in {Document(caches, active)} :
          tabs' = [tabs EXCEPT ![t] = Loaded(build, busy, caches, active, waiting)]
    BY <1>3 DEF Open
  <2>2. UNCHANGED <<deployed, caches, installing, waiting, active, later>>
    BY <1>3 DEF Open
  <2>3. build \in Nat
    BY <1>0, <1>w, DocumentIsBuild
  <2>4. FreshPage(Loaded(build, busy, caches, active, waiting), caches, active, waiting)
    BY <2>3, LoadedPage
  <2> QED BY <1>0, <1>s, <2>1, <2>2, <2>4, PagesOnly DEF FreshPage
<1>4. ASSUME NEW t \in Tab, Close(t) PROVE CachesInv'
  <2>1. tabs' = [tabs EXCEPT ![t] = NoPage]
        /\ UNCHANGED <<deployed, caches, installing, waiting, active, later>>
    BY <1>4 DEF Close, worker
  <2>2. FreshPage(NoPage, caches, active, waiting)
    BY NoPageIsFresh
  <2> QED BY <1>0, <1>s, <2>1, <2>2, PagesOnly DEF FreshPage
<1>5. ASSUME NEW t \in Tab, GetBusy(t) PROVE CachesInv'
  <2>1. tabs' = [tabs EXCEPT ![t] = [tabs[t] EXCEPT !.busy = TRUE]]
        /\ UNCHANGED <<deployed, caches, installing, waiting, active, later>>
    BY <1>5 DEF GetBusy, worker
  <2> DEFINE page == [tabs[t] EXCEPT !.busy = TRUE]
  <2>2. Alike(tabs[t], page)
    BY <1>0 DEF Page, Alike
  <2> HIDE DEF page
  <2>3. tabs' = [tabs EXCEPT ![t] = page]
    BY <2>1 DEF page
  <2> QED BY <1>0, <1>s, <2>1, <2>2, <2>3, PagesOnly DEF Alike
<1>6. ASSUME NEW t \in Tab, GetIdle(t) PROVE CachesInv'
  <2> DEFINE page == [tabs[t] EXCEPT !.busy = FALSE, !.applied = tabs[t].applied \/ tabs[t].watching, !.watching = FALSE]
             loaded == Loaded(Document(caches, active), FALSE, caches, active, waiting)
  <2>1. UNCHANGED <<deployed, caches, installing, waiting, active, later>>
    BY <1>6 DEF GetIdle
  <2>2. Alike(tabs[t], page)
    BY <1>0 DEF Page, Alike
  <2>3. Document(caches, active) \in Nat
    BY <1>0, <1>w, DocumentIsBuild
  <2>4. FreshPage(loaded, caches, active, waiting)
    BY <2>3, LoadedPage
  <2>5. tabs' = [tabs EXCEPT ![t] = loaded] \/ tabs' = [tabs EXCEPT ![t] = page]
    <3>2. CASE tabs[t].toReload
      <4>1. tabs' = [tabs EXCEPT ![t] = IF TRUE THEN loaded ELSE page]
        BY <1>6, <3>2, Zenon DEF GetIdle
      <4> HIDE DEF loaded, page
      <4> QED BY <4>1
    <3>3. CASE ~tabs[t].toReload
      BY <1>6, <3>3 DEF GetIdle
    <3> QED BY <3>2, <3>3
  <2> HIDE DEF page, loaded
  <2> QED BY <1>0, <1>s, <2>1, <2>2, <2>4, <2>5, PagesOnly DEF FreshPage, Alike
<1> QED BY <1>1, <1>2, <1>3, <1>4, <1>5, <1>6

\* A recovery leaves no worker and no cache, and no page with a chunk that was
\* its own generation's.
LEMMA SoftRecoverStep ==
  ASSUME CachesInv, NEW t \in Tab, SoftRecover(t)
  PROVE  CachesInv'
<1>1. /\ caches' = <<>> /\ later' = <<>> /\ installing' = NotInstalling /\ waiting' = 0 /\ active' = 0
      /\ UNCHANGED deployed
  BY DEF SoftRecover
<1>2. PICK busy \in BOOLEAN :
        tabs' = [u \in Tab |-> IF u = t THEN Loaded(Document(<<>>, 0), busy, <<>>, 0, 0)
                               ELSE IF IsOpen(tabs[u]) THEN LeftBehind(tabs[u]) ELSE NoPage]
  BY DEF SoftRecover
<1>3. Document(<<>>, 0) \in Nat
  BY Facts, DocumentIsBuild DEF WholeUnder
<1>4. ASSUME NEW u \in Tab
      PROVE  tabs'[u] \in Page /\ ~tabs'[u].had /\ tabs'[u].stray <= deployed
  <2>1. CASE u = t
    <3>1. PICK page : page = Loaded(Document(<<>>, 0), busy, <<>>, 0, 0)
      OBVIOUS
    <3>2. FreshPage(page, <<>>, 0, 0)
      BY <1>3, <3>1, LoadedPage
    <3> QED BY <1>2, <2>1, <3>1, <3>2, Facts DEF FreshPage
  <2>2. CASE u # t /\ IsOpen(tabs[u])
    <3>1. PICK page : page = tabs[u]
      OBVIOUS
    <3>2. page \in Page /\ page.stray <= deployed
      BY <3>1, Facts DEF CachesInv, PagesInv, PageOk, Served
    <3>3. active \in Nat /\ active <= deployed
      BY Facts DEF CachesInv, GenerationInv, WithShell
    <3>4. /\ LeftBehind(page) \in Page /\ ~LeftBehind(page).had
          /\ LeftBehind(page).stray = IF active # 0 THEN active ELSE page.stray
      BY <3>2, <3>3 DEF LeftBehind, Page
    <3> QED BY <1>2, <2>2, <3>1, <3>2, <3>3, <3>4
  <2>3. CASE u # t /\ ~IsOpen(tabs[u])
    BY <1>2, <2>3, Facts DEF NoPage, Page
  <2> QED BY <2>1, <2>2, <2>3
<1>5. TypeInv'
  <2>1. caches' \in [DOMAIN caches' -> Cache] /\ DOMAIN caches' = {} /\ DOMAIN later' = {}
        /\ later' \in [DOMAIN later' -> SUBSET (1..deployed')]
    BY <1>1
  <2>2. installing' \in [gen : Nat, todo : SUBSET {"shell", "chunk"}]
    BY <1>1 DEF NotInstalling
  <2>3. tabs' \in [Tab -> Page]
    BY <1>2, <1>4
  <2> QED BY <1>1, <2>1, <2>2, <2>3, Facts DEF TypeInv
<1>6. GenerationInv'
  BY <1>1 DEF GenerationInv
<1>7. ASSUME NEW u \in Tab PROVE PageOk(tabs[u])'
  BY <1>1, <1>4 DEF PageOk, Served, KeepsChunk
<1> QED BY <1>5, <1>6, <1>7 DEF CachesInv, PagesInv

-----------------------------------------------------------------------------
\* The worker's steps.

\* What such a step must keep for a page it does not touch.
LeavesInOrder(page) ==
  /\ installing' # NotInstalling => page.stray <= installing'.gen
  /\ page.had => /\ page.build \in DOMAIN later' /\ InOrder(page.build)'
                 /\ later[page.build] \subseteq later'[page.build]
                 /\ Held(caches, page.build) => Held(caches', page.build)

LEMMA PagesAside ==
  ASSUME CachesInv, TypeInv', UNCHANGED <<deployed, tabs>>, active' = active, waiting' = waiting,
         \A page \in Page : PageOk(page) => LeavesInOrder(page)
  PROVE  PagesInv'
<1>1. ASSUME NEW t \in Tab PROVE PageOk(tabs[t])'
  <2>1. PICK page : page = tabs[t]
    OBVIOUS
  <2>2. page \in Page /\ PageOk(page) /\ LeavesInOrder(page)
    BY <2>1, Facts DEF CachesInv, PagesInv
  <2>3. Served(page)'
    BY <2>2 DEF PageOk, Served, LeavesInOrder
  <2>4. KeepsChunk(page)'
    <3>1. page.had => /\ page.build \in DOMAIN later' /\ Installs(page.build)' /\ InOrder(page.build)'
                      /\ later[page.build] \subseteq later'[page.build]
                      /\ Recent(page.build)' /\ Held(caches, page.build) => Held(caches', page.build)
      BY <2>2 DEF PageOk, KeepsChunk, Installs, LeavesInOrder
    <3> QED BY <2>2, <3>1, ChunkStays DEF PageOk
  <2> QED BY <2>1, <2>3, <2>4 DEF PageOk, Served, KeepsChunk, Recent, Held, Installs, InOrder
<1> QED BY <1>1 DEF PagesInv

\* A build that is looked for is newer than any generation there is, once a
\* worker is in control.
LEMMA NewBuild ==
  ASSUME CachesInv, installing = NotInstalling, deployed \notin {active, waiting}
  PROVE  /\ active < deployed /\ waiting < deployed
         /\ active # 0 => deployed \notin DOMAIN caches
<1>1. (active # 0 => active \in DOMAIN caches) /\ (waiting # 0 => waiting \in DOMAIN caches)
  BY DEF CachesInv, GenerationInv, WithShell
<1>2. active < deployed /\ waiting < deployed
  BY <1>1, Facts
<1>3. ASSUME active # 0, deployed \in DOMAIN caches PROVE FALSE
  <2>1. deployed <= active \/ deployed <= waiting \/ deployed = installing.gen
    BY <1>3 DEF CachesInv, GenerationInv
  <2>2. installing.gen = 0
    BY DEF NotInstalling
  <2> QED BY <1>2, <2>1, <2>2, Facts
<1> QED BY <1>2, <1>3

LEMMA UpdateCheckStep ==
  ASSUME CachesInv, UpdateCheck
  PROVE  CachesInv'
<1> DEFINE copied == {Chunk[deployed]} \cap UNION {caches[g].chunks : g \in DOMAIN caches \ {deployed}}
           cache == [Opened(deployed)[deployed] EXCEPT !.chunks = @ \cup copied]
<1>0. deployed \in 1..deployed
  BY Facts, BuildNumbers DEF Build
<1>1. /\ caches' = [Opened(deployed) EXCEPT ![deployed].chunks = @ \cup copied]
      /\ installing' = [gen |-> deployed, todo |-> {"shell"} \cup (IF copied = {} THEN {"chunk"} ELSE {})]
  BY DEF UpdateCheck
<1>2. /\ installing = NotInstalling /\ deployed \notin {active, waiting}
      /\ later' = Dated(deployed)
      /\ UNCHANGED <<deployed, waiting, active, tabs>>
  BY DEF UpdateCheck
<1>3. cache \in Cache
  <2>1. Opened(deployed)[deployed] \in Cache
    BY <1>0, OpenedGeneration
  <2>2. copied \subseteq AnyChunk
    BY Facts, ChunkOfBuild
  <2> HIDE DEF copied
  <2> QED BY <2>1, <2>2 DEF Cache
<1>4. /\ DOMAIN caches' = DOMAIN caches \cup {deployed}
      /\ \A g \in DOMAIN caches : g # deployed => caches'[g] = caches[g]
      /\ caches' \in [DOMAIN caches' -> Cache]
  <2>1. caches' = [Opened(deployed) EXCEPT ![deployed] = cache]
    BY <1>1
  <2> HIDE DEF cache, copied
  <2> QED BY <1>0, <1>3, <2>1, OpenedGeneration
<1>5. /\ DOMAIN later' = DOMAIN later \cup {deployed} /\ later' \in [DOMAIN later' -> SUBSET (1..deployed)]
      /\ deployed \in DOMAIN caches => later' = later
      /\ deployed \notin DOMAIN caches =>
           later'[deployed] = {} /\ \A g \in DOMAIN later : g # deployed => later'[g] = later[g] \cup {deployed}
  BY <1>0, <1>2, OpenedGeneration
<1>i. installing' \in [gen : Nat, todo : SUBSET {"shell", "chunk"}] /\ installing'.gen = deployed
  BY <1>1, Facts
<1> HIDE DEF cache, copied
<1>6. TypeInv'
  BY <1>2, <1>4, <1>5, <1>i, Facts DEF TypeInv
<1>7. active < deployed /\ waiting < deployed /\ (active # 0 => deployed \notin DOMAIN caches)
  BY <1>2, NewBuild
<1>8. ASSUME active # 0, NEW b \in DOMAIN later, InOrder(b), b # deployed
      PROVE  InOrder(b)'
  BY <1>2, <1>5, <1>7, <1>8, <1>i DEF InOrder
<1>9. GenerationInv'
  <2>1. active # 0 => WithShell(active)' /\ InOrder(active)'
    BY <1>2, <1>4, <1>7, <1>8, Facts DEF CachesInv, GenerationInv, WithShell
  <2>2. waiting # 0 => WithShell(waiting)' /\ InOrder(waiting)' /\ active # 0 /\ active < waiting
    BY <1>2, <1>4, <1>7, <1>8, Facts DEF CachesInv, GenerationInv, WithShell
  <2>3. \A g \in DOMAIN caches' : g <= deployed
    BY <1>0, <1>4, Facts
  <2>4. active # 0 => \A g \in DOMAIN caches' : g <= active \/ g <= waiting \/ g = deployed
    <3>1. installing.gen = 0
      BY <1>2 DEF NotInstalling
    <3> QED BY <1>4, <3>1, Facts DEF CachesInv, GenerationInv
  <2>5. active # 0 => \A g \in DOMAIN caches' : g \notin later'[deployed]
    BY <1>5, <1>7
  <2> QED BY <1>2, <1>4, <1>7, <1>i, <2>1, <2>2, <2>3, <2>4, <2>5 DEF GenerationInv
<1>10. ASSUME NEW page \in Page, PageOk(page)
       PROVE  LeavesInOrder(page)
  <2>1. PICK b : b = page.build
    OBVIOUS
  <2>3. page.stray <= installing'.gen
    BY <1>0, <1>i, <1>10 DEF PageOk, Served
  <2>4. ASSUME page.had
        PROVE  b \in DOMAIN later' /\ InOrder(b)' /\ later[b] \subseteq later'[b] /\ (Held(caches, b) => Held(caches', b))
    <3>1. b \in DOMAIN later /\ b \in Nat /\ b # 0 /\ Installs(b) /\ InOrder(b)
      BY <1>10, <2>1, <2>4, Facts DEF PageOk, KeepsChunk
    <3>2. active # 0 /\ b # deployed
      BY <1>7, <3>1, Facts DEF Installs, CachesInv, GenerationInv
    <3> QED BY <1>4, <1>5, <1>7, <1>8, <3>1, <3>2 DEF Held
  <2> QED BY <2>1, <2>3, <2>4 DEF LeavesInOrder
<1>11. PagesInv'
  BY <1>2, <1>6, <1>10, PagesAside
<1> QED BY <1>6, <1>9, <1>11 DEF CachesInv

\* A file arrives for the generation that is being installed: of the others
\* nothing changes, and of this one the document only becomes there.
LEMMA Fetched ==
  ASSUME CachesInv, installing # NotInstalling, NEW cache \in Cache,
         caches' = [caches EXCEPT ![installing.gen] = cache] \/ caches' = caches,
         installing' \in [gen : Nat, todo : SUBSET {"shell", "chunk"}], installing'.gen = installing.gen,
         UNCHANGED <<deployed, waiting, active, tabs, later>>
  PROVE  CachesInv'
<1>1. installing.gen \in DOMAIN caches /\ installing.gen > active /\ installing.gen > waiting
  BY DEF CachesInv, GenerationInv
<1>2. /\ DOMAIN caches' = DOMAIN caches /\ caches' \in [DOMAIN caches' -> Cache]
      /\ \A g \in DOMAIN caches : g # installing.gen => caches'[g] = caches[g]
  BY Facts
<1>3. TypeInv'
  BY <1>2, Facts DEF TypeInv
<1>4. \A b : InOrder(b) => InOrder(b)'
  BY DEF InOrder
<1>5. GenerationInv'
  <2>1. active # 0 => WithShell(active)' /\ InOrder(active)'
    BY <1>1, <1>2, <1>4, Facts DEF CachesInv, GenerationInv, WithShell
  <2>2. waiting # 0 => WithShell(waiting)' /\ InOrder(waiting)' /\ active # 0 /\ active < waiting
    BY <1>1, <1>2, <1>4, Facts DEF CachesInv, GenerationInv, WithShell
  <2> QED BY <1>1, <1>2, <2>1, <2>2 DEF CachesInv, GenerationInv
<1>6. ASSUME NEW page \in Page, PageOk(page)
      PROVE  LeavesInOrder(page)
  <2>1. PICK b : b = page.build
    OBVIOUS
  <2>3. page.stray <= installing'.gen
    BY <1>6 DEF PageOk, Served
  <2>4. ASSUME page.had
        PROVE  b \in DOMAIN later' /\ InOrder(b)' /\ later[b] \subseteq later'[b] /\ (Held(caches, b) => Held(caches', b))
    <3>1. b \in DOMAIN later /\ b \in Nat /\ Installs(b) /\ InOrder(b)
      BY <1>6, <2>1, <2>4, Facts DEF PageOk, KeepsChunk
    <3>2. b # installing.gen
      BY <1>1, <3>1, Facts DEF Installs
    <3> QED BY <1>2, <1>4, <3>1, <3>2 DEF Held
  <2> QED BY <2>1, <2>3, <2>4 DEF LeavesInOrder
<1>7. PagesInv'
  BY <1>3, <1>6, PagesAside
<1> QED BY <1>3, <1>5, <1>7 DEF CachesInv

LEMMA FetchStep ==
  ASSUME CachesInv, FetchShell \/ FetchChunk
  PROVE  CachesInv'
<1>1. installing.todo # {} /\ installing # NotInstalling
  BY DEF FetchShell, FetchChunk, NotInstalling
<1>2. installing.gen \in DOMAIN caches /\ installing.gen \in Build /\ caches[installing.gen] \in Cache
  BY <1>1, Facts DEF CachesInv, GenerationInv
<1>3. UNCHANGED <<deployed, waiting, active, tabs, later>>
  BY DEF FetchShell, FetchChunk
<1>4. installing' \in [gen : Nat, todo : SUBSET {"shell", "chunk"}] /\ installing'.gen = installing.gen
  BY Facts DEF FetchShell, FetchChunk
<1>5. CASE FetchShell
  <2> DEFINE cache == [caches[installing.gen] EXCEPT !.shell = deployed]
  <2>1. cache \in Cache
    BY <1>2, Facts DEF Cache
  <2>2. caches' = [caches EXCEPT ![installing.gen] = cache] \/ caches' = caches
    BY <1>5 DEF FetchShell
  <2> HIDE DEF cache
  <2> QED BY <1>1, <1>3, <1>4, <2>1, <2>2, Fetched
<1>6. CASE FetchChunk
  <2> DEFINE cache == [caches[installing.gen] EXCEPT !.chunks = {Chunk[installing.gen]}]
  <2>1. cache \in Cache
    BY <1>2, ChunkOfBuild DEF Cache
  <2>2. caches' = [caches EXCEPT ![installing.gen] = cache] \/ caches' = caches
    BY <1>6 DEF FetchChunk
  <2> HIDE DEF cache
  <2> QED BY <1>1, <1>3, <1>4, <2>1, <2>2, Fetched
<1> QED BY <1>5, <1>6

LEMMA InstallFailsStep ==
  ASSUME CachesInv, InstallFails
  PROVE  CachesInv'
<1> DEFINE gen == installing.gen
<1>1. /\ installing # NotInstalling /\ installing' = NotInstalling
      /\ caches' = [g \in DOMAIN caches \ {gen} |-> caches[g]]
      /\ UNCHANGED <<deployed, waiting, active, tabs, later>>
  BY DEF InstallFails, InstallEnds, Restrict
<1>2. gen > active /\ gen > waiting
  BY <1>1 DEF CachesInv, GenerationInv
<1>3. /\ DOMAIN caches' = DOMAIN caches \ {gen} /\ caches' \in [DOMAIN caches' -> Cache]
      /\ \A g \in DOMAIN caches : g # gen => caches'[g] = caches[g]
  BY <1>1, Facts
<1>4. TypeInv'
  <2>1. NotInstalling \in [gen : Nat, todo : SUBSET {"shell", "chunk"}]
    BY DEF NotInstalling
  <2> QED BY <1>1, <1>3, <2>1, Facts DEF TypeInv
<1>5. \A b : InOrder(b) => InOrder(b)'
  BY <1>1 DEF InOrder
<1>6. GenerationInv'
  <2>1. active # 0 => /\ WithShell(active)' /\ InOrder(active)'
                      /\ \A g \in DOMAIN caches' : g <= active \/ g <= waiting
    BY <1>1, <1>2, <1>3, <1>5, Facts DEF CachesInv, GenerationInv, WithShell
  <2>2. waiting # 0 => WithShell(waiting)' /\ InOrder(waiting)' /\ active # 0 /\ active < waiting
    BY <1>1, <1>2, <1>3, <1>5, Facts DEF CachesInv, GenerationInv, WithShell
  <2> QED BY <1>1, <2>1, <2>2 DEF GenerationInv
<1>7. ASSUME NEW page \in Page, PageOk(page)
      PROVE  LeavesInOrder(page)
  <2>1. PICK b : b = page.build
    OBVIOUS
  <2>3. ASSUME page.had
        PROVE  b \in DOMAIN later' /\ InOrder(b)' /\ later[b] \subseteq later'[b] /\ (Held(caches, b) => Held(caches', b))
    <3>1. b \in DOMAIN later /\ b \in Nat /\ Installs(b) /\ InOrder(b)
      BY <1>7, <2>1, <2>3, Facts DEF PageOk, KeepsChunk
    <3>2. b # gen
      BY <1>2, <3>1, Facts DEF Installs
    <3> QED BY <1>1, <1>3, <1>5, <3>1, <3>2 DEF Held
  <2> QED BY <1>1, <2>1, <2>3 DEF LeavesInOrder
<1>8. PagesInv'
  BY <1>1, <1>4, <1>7, PagesAside
<1> QED BY <1>4, <1>6, <1>8 DEF CachesInv

\* A page that is looked at again: what it has newly had, its generation holds,
\* and that generation is a worker's.
LEMMA PageNoted ==
  ASSUME CachesInv, TypeInv', UNCHANGED later, NEW page \in Page, PageOk(page),
         page.had => /\ Installs(page.build)' /\ InOrder(page.build)'
                     /\ Recent(page.build) /\ Held(caches, page.build) => Held(caches', page.build),
         NEW cs, NEW w, NEW next \in Page, next.build = page.build,
         next.had => page.had \/ (page.build = w /\ Held(cs, w)),
         Held(cs, w) => w \in DOMAIN later /\ Installs(w)' /\ InOrder(w)' /\ Held(caches', w)
  PROVE  KeepsChunk(next)'
<1>1. Recent(page.build)' => Recent(page.build)
  BY DEF Recent
<1> QED BY <1>1 DEF PageOk, KeepsChunk

LEMMA LoadChunkStep ==
  ASSUME CachesInv, NEW t \in Tab, LoadChunk(t)
  PROVE  CachesInv'
<1>1. PICK w : w = Server(tabs[t])
  OBVIOUS
<1>2. PICK more :
        /\ more = {} \/ more = {Chunk[w]}
        /\ caches' = [Opened(w) EXCEPT ![w].chunks = @ \cup more]
  BY <1>1 DEF LoadChunk
<1>3. /\ w # 0 /\ later' = Dated(w) /\ tabs' = [u \in Tab |-> Noted(tabs[u], caches', {active})]
      /\ UNCHANGED <<deployed, installing, waiting, active>>
  BY <1>1 DEF LoadChunk
<1>4. w \in 1..deployed /\ w \in Build
  <2>1. PICK page : page = tabs[t] /\ page \in Page /\ PageOk(page)
    BY Facts DEF CachesInv, PagesInv
  <2>2. w \in Nat /\ w <= deployed
    <3>1. active <= deployed
      BY Facts DEF CachesInv, GenerationInv, WithShell
    <3> QED BY <1>1, <2>1, <3>1, Facts DEF Server, PageOk, Served, Page
  <2> QED BY <1>3, <2>2, Facts, BuildNumbers DEF Build
<1>5. active # 0 => w = active /\ w \in DOMAIN caches
  <2>1. active # 0 => tabs[t].stray = 0
    BY DEF CachesInv, PagesInv, PageOk, Served
  <2> QED BY <1>1, <2>1 DEF Server, CachesInv, GenerationInv, WithShell
<1>6. installing # NotInstalling => w <= installing.gen
  <2>1. installing # NotInstalling => tabs[t].stray <= installing.gen /\ active < installing.gen
    BY DEF CachesInv, PagesInv, PageOk, Served, GenerationInv
  <2> QED BY <1>1, <2>1, Facts DEF Server
<1>7. /\ DOMAIN caches' = DOMAIN caches \cup {w} /\ caches' \in [DOMAIN caches' -> Cache]
      /\ \A g \in DOMAIN caches : caches'[g].shell = caches[g].shell /\ caches[g].chunks \subseteq caches'[g].chunks
  <2> DEFINE cache == [Opened(w)[w] EXCEPT !.chunks = @ \cup more]
  <2>1. /\ DOMAIN Opened(w) = DOMAIN caches \cup {w} /\ Opened(w) \in [DOMAIN caches \cup {w} -> Cache]
        /\ \A g \in DOMAIN caches : Opened(w)[g] = caches[g]
    BY <1>4, OpenedGeneration
  <2>2. more \subseteq AnyChunk /\ Opened(w)[w] \in Cache
    BY <1>2, <1>4, <2>1, ChunkOfBuild
  <2>3. /\ cache \in Cache /\ cache.shell = Opened(w)[w].shell
        /\ Opened(w)[w].chunks \subseteq cache.chunks
    BY <2>2 DEF Cache
  <2>4. caches' = [Opened(w) EXCEPT ![w] = cache]
    BY <1>2
  <2> HIDE DEF cache
  <2> QED BY <2>1, <2>3, <2>4
<1>8. /\ DOMAIN later' = DOMAIN later \cup {w} /\ later' \in [DOMAIN later' -> SUBSET (1..deployed)]
      /\ active # 0 => later' = later
  BY <1>3, <1>4, <1>5, OpenedGeneration
<1>9. ASSUME NEW u \in Tab
      PROVE  /\ tabs'[u] \in Page /\ tabs'[u].build = tabs[u].build /\ tabs'[u].stray = tabs[u].stray
             /\ tabs'[u].had => tabs[u].had \/ (tabs[u].build = active /\ Held(caches', active))
  <2>1. tabs[u] \in Page /\ tabs'[u] = Noted(tabs[u], caches', {active})
    BY <1>3, Facts
  <2> QED BY <2>1, NotedPage
<1>10. TypeInv'
  <2>1. tabs' \in [Tab -> Page]
    BY <1>3, <1>9
  <2>2. DOMAIN caches' \subseteq DOMAIN later' /\ DOMAIN later' \subseteq 1..deployed
    BY <1>4, <1>7, <1>8, Facts
  <2> QED BY <1>3, <1>7, <1>8, <2>1, <2>2, Facts DEF TypeInv
<1>11. active # 0 => \A b : InOrder(b) => InOrder(b)'
  BY <1>3, <1>8 DEF InOrder
<1>12. GenerationInv'
  <2>1. active # 0 => /\ WithShell(active)' /\ InOrder(active)'
                      /\ \A g \in DOMAIN caches' : g <= active \/ g <= waiting \/ g = installing.gen
    BY <1>3, <1>5, <1>7, <1>11 DEF CachesInv, GenerationInv, WithShell
  <2>2. waiting # 0 => WithShell(waiting)' /\ InOrder(waiting)' /\ active # 0 /\ active < waiting
    BY <1>3, <1>7, <1>11 DEF CachesInv, GenerationInv, WithShell
  <2>3. installing # NotInstalling =>
          /\ installing.gen \in DOMAIN caches' /\ active < installing.gen /\ waiting < installing.gen
          /\ \A g \in DOMAIN caches' : g <= installing.gen
          /\ active # 0 => \A g \in DOMAIN caches' : g \notin later'[installing.gen]
    BY <1>5, <1>6, <1>7, <1>8 DEF CachesInv, GenerationInv
  <2> QED BY <1>3, <2>1, <2>2, <2>3 DEF GenerationInv
<1>13. ASSUME NEW u \in Tab PROVE PageOk(tabs[u])'
  <2>1. PICK page, next : page = tabs[u] /\ next = tabs'[u]
    OBVIOUS
  <2>2. page \in Page /\ PageOk(page)
    BY <2>1, Facts DEF CachesInv, PagesInv
  <2>3. PICK cs, a : cs = caches' /\ a = active
    OBVIOUS
  <2>4. /\ next \in Page /\ next.build = page.build /\ next.stray = page.stray
        /\ next.had => page.had \/ (page.build = a /\ Held(cs, a))
    BY <1>9, <2>1, <2>3
  <2>5. Served(next)'
    BY <1>3, <2>2, <2>4 DEF PageOk, Served
  <2>6. CASE active = 0
    <3>1. ~next.had
      <4>1. ~page.had
        BY <2>2, <2>6, Facts DEF PageOk, KeepsChunk, Installs, CachesInv, GenerationInv
      <4>2. ~Held(cs, a)
        BY <1>4, <1>7, <2>3, <2>6, Facts DEF Held
      <4> QED BY <2>4, <4>1, <4>2
    <3>2. KeepsChunk(next)'
      BY <3>1 DEF KeepsChunk
    <3> QED BY <2>1, <2>5, <3>2 DEF PageOk, Served, KeepsChunk, Recent, Held, Installs, InOrder
  <2>7. CASE active # 0
    <3>1. page.had => /\ Installs(page.build)' /\ InOrder(page.build)'
                      /\ Recent(page.build) /\ Held(caches, page.build) => Held(caches', page.build)
      BY <1>3, <1>7, <1>11, <2>2, <2>7 DEF PageOk, KeepsChunk, Installs, Held
    <3>2. Held(cs, a) => a \in DOMAIN later /\ Installs(a)' /\ InOrder(a)' /\ Held(caches', a)
      BY <1>3, <1>5, <1>11, <2>3, <2>7, Facts DEF Installs, CachesInv, GenerationInv
    <3>3. KeepsChunk(next)'
      BY <1>8, <1>10, <2>2, <2>4, <2>7, <3>1, <3>2, PageNoted
    <3> QED BY <2>1, <2>5, <3>3 DEF PageOk, Served, KeepsChunk, Recent, Held, Installs, InOrder
  <2> QED BY <2>6, <2>7
<1>14. PagesInv'
  BY <1>13 DEF PagesInv
<1> QED BY <1>10, <1>12, <1>14 DEF CachesInv

LEMMA InstalledStep ==
  ASSUME CachesInv, Installed
  PROVE  CachesInv'
<1>a. PICK gen : gen = installing.gen
  OBVIOUS
<1>1. /\ installing # NotInstalling /\ installing' = NotInstalling /\ active # 0 /\ caches[gen].shell # 0
      /\ waiting' = gen /\ UNCHANGED <<deployed, caches, active, later>>
  BY <1>a DEF Installed, InstallEnds, Complete
<1>2. tabs' = [t \in Tab |-> IF ~IsOpen(tabs[t]) THEN NoPage
                             ELSE Noted(IF tabs[t].orphan THEN tabs[t] ELSE Told(tabs[t]), caches, {gen})]
  BY <1>a DEF Installed
<1>3. gen \in Nat /\ gen \in DOMAIN caches /\ gen > active /\ gen > waiting
  BY <1>1, <1>a, Facts DEF CachesInv, GenerationInv
<1>4. ASSUME NEW u \in Tab
      PROVE  \/ tabs'[u] = NoPage
             \/ /\ tabs'[u] \in Page /\ tabs'[u].build = tabs[u].build /\ tabs'[u].stray = tabs[u].stray
                /\ tabs'[u].had => tabs[u].had \/ (tabs[u].build = gen /\ Held(caches, gen))
  <2>1. tabs[u] \in Page
    BY Facts
  <2>2. CASE IsOpen(tabs[u])
    <3>1. PICK page : page = IF tabs[u].orphan THEN tabs[u] ELSE Told(tabs[u])
      OBVIOUS
    <3>2. tabs'[u] = Noted(page, caches, {gen})
      BY <1>2, <2>2, <3>1
    <3>3. page \in Page /\ page.had = tabs[u].had /\ page.build = tabs[u].build /\ page.stray = tabs[u].stray
      BY <2>1, <3>1, ToldPage DEF Alike
    <3> QED BY <3>2, <3>3, NotedPage
  <2>3. CASE ~IsOpen(tabs[u])
    BY <1>2, <2>3
  <2> QED BY <2>2, <2>3
<1>n. NoPage \in Page /\ ~NoPage.had /\ NoPage.stray = 0
  BY DEF NoPage, Page
<1>5. TypeInv'
  <2>1. NotInstalling \in [gen : Nat, todo : SUBSET {"shell", "chunk"}]
    BY DEF NotInstalling
  <2>2. tabs' \in [Tab -> Page]
    BY <1>2, <1>4, <1>n
  <2> QED BY <1>1, <1>3, <2>1, <2>2, Facts DEF TypeInv
<1>6. \A b : InOrder(b) => InOrder(b)'
  BY <1>1, <1>a DEF InOrder
<1>7. GenerationInv'
  <2>1. WithShell(active)' /\ InOrder(active)' /\ WithShell(gen)'
    BY <1>1, <1>3, <1>6 DEF CachesInv, GenerationInv, WithShell
  <2>2. InOrder(gen)'
    BY <1>1 DEF InOrder
  <2>3. \A g \in DOMAIN caches : g <= active \/ g <= gen
    BY <1>1, <1>a, <1>3, Facts DEF CachesInv, GenerationInv
  <2> QED BY <1>1, <1>3, <2>1, <2>2, <2>3 DEF GenerationInv
<1>8. ASSUME NEW u \in Tab PROVE PageOk(tabs[u])'
  <2>1. PICK page, next : page = tabs[u] /\ next = tabs'[u]
    OBVIOUS
  <2>2. page \in Page /\ PageOk(page)
    BY <2>1, Facts DEF CachesInv, PagesInv
  <2>3. CASE next = NoPage
    <3>1. Served(next)' /\ KeepsChunk(next)'
      BY <1>1, <1>n, <2>3, Facts DEF Served, KeepsChunk
    <3> QED BY <2>1, <3>1 DEF PageOk, Served, KeepsChunk, Recent, Held, Installs, InOrder
  <2>4. CASE next # NoPage
    <3>1. PICK cs, w : cs = caches /\ w = gen
      OBVIOUS
    <3>2. /\ next \in Page /\ next.build = page.build /\ next.stray = page.stray
          /\ next.had => page.had \/ (page.build = w /\ Held(cs, w))
      BY <1>4, <2>1, <2>4, <3>1
    <3>3. page.had => /\ Installs(page.build)' /\ InOrder(page.build)'
                      /\ Recent(page.build) /\ Held(caches, page.build) => Held(caches', page.build)
      <4>1. \A b \in Nat : Installs(b) => Installs(b)'
        BY <1>1, <1>3, Facts DEF Installs
      <4>2. page.build \in Nat
        BY <2>2 DEF Page
      <4> QED BY <1>1, <1>6, <2>2, <4>1, <4>2 DEF PageOk, KeepsChunk
    <3>4. Held(cs, w) => w \in DOMAIN later /\ Installs(w)' /\ InOrder(w)' /\ Held(caches', w)
      BY <1>1, <1>3, <3>1, Facts DEF Installs, InOrder, Held
    <3>5. KeepsChunk(next)'
      BY <1>1, <1>5, <2>2, <3>2, <3>3, <3>4, PageNoted
    <3>6. Served(next)'
      BY <1>1, <2>2, <3>2 DEF PageOk, Served
    <3> QED BY <2>1, <3>5, <3>6 DEF PageOk, Served, KeepsChunk, Recent, Held, Installs, InOrder
  <2> QED BY <2>3, <2>4
<1>9. PagesInv'
  BY <1>8 DEF PagesInv
<1> QED BY <1>5, <1>7, <1>9 DEF CachesInv

\* An activation: of what it takes away, two later generations stand.
LEMMA TakeOverStep ==
  ASSUME CachesInv, NEW w, w \in DOMAIN caches, caches[w].shell # 0, w # 0,
         TakeOver(w, caches), waiting' = 0, UNCHANGED <<deployed, later>>,
         \/ w = waiting /\ installing' = installing
         \/ active = 0 /\ w = installing.gen /\ installing # NotInstalling /\ installing' = NotInstalling
  PROVE  CachesInv'
<1>1. /\ active' = w /\ caches' = Kept(caches, w)
      /\ tabs' = [t \in Tab |-> Claimed([Noted(tabs[t], caches, {w}) EXCEPT !.stray = 0], caches', w)]
  BY DEF TakeOver
<1>2. w \in Nat /\ w \in DOMAIN later
  BY Facts
<1>3. /\ DOMAIN caches' \subseteq DOMAIN caches /\ w \in DOMAIN caches'
      /\ \A g \in DOMAIN caches' : caches'[g] = caches[g]
      /\ \A g \in DOMAIN caches : g \notin DOMAIN caches' => \E h \in DOMAIN caches : h # w /\ h \in later[g]
  BY <1>1, Facts, KeptGenerations
<1>4. caches' \in [DOMAIN caches' -> Cache]
  <2>1. caches' = [g \in DOMAIN caches \cap ({w} \cup Previous(caches, w)) |-> caches[g]]
    BY <1>1 DEF Kept, Restrict
  <2> QED BY <2>1, Facts
<1>5. WholeUnder(caches', w) /\ deployed \in Nat
  BY <1>3, <1>4, Facts DEF WholeUnder
<1>6. ASSUME NEW u \in Tab
      PROVE  \/ FreshPage(tabs'[u], caches', w, 0)
             \/ /\ tabs'[u] \in Page /\ tabs'[u].build = tabs[u].build /\ tabs'[u].stray = 0
                /\ tabs'[u].had => tabs[u].had \/ (tabs[u].build = w /\ Held(caches, w))
  <2>1. PICK noted, page : noted = Noted(tabs[u], caches, {w}) /\ page = [noted EXCEPT !.stray = 0]
    OBVIOUS
  <2>2. /\ noted \in Page /\ noted.build = tabs[u].build
        /\ noted.had => tabs[u].had \/ (tabs[u].build = w /\ Held(caches, w))
    BY <2>1, Facts, NotedPage
  <2>3. page \in Page /\ page.build = noted.build /\ page.had = noted.had /\ page.stray = 0
    BY <2>1, <2>2 DEF Page
  <2>4. PICK cs : cs = caches'
    OBVIOUS
  <2>5. tabs'[u] = Claimed(page, cs, w)
    BY <1>1, <2>1, <2>4
  <2>6. FreshPage(Claimed(page, cs, w), cs, w, 0) \/ Alike(page, Claimed(page, cs, w))
    BY <1>5, <2>3, <2>4, ClaimedPage
  <2> QED BY <2>2, <2>3, <2>4, <2>5, <2>6 DEF Alike
<1>7. TypeInv'
  <2>1. tabs' \in [Tab -> Page]
    BY <1>1, <1>6 DEF FreshPage
  <2>2. installing' \in [gen : Nat, todo : SUBSET {"shell", "chunk"}]
    BY Facts DEF NotInstalling
  <2>3. DOMAIN caches' \subseteq DOMAIN later'
    BY <1>3, Facts
  <2> QED BY <1>1, <1>2, <1>4, <2>1, <2>2, <2>3, Facts DEF TypeInv
\* What was in order before the worker that waited is in order after it.
<1>8. \A b : InOrder(b) => InOrder(b)'
  BY DEF InOrder
<1>o. InOrder(w)'
  BY <1>8 DEF InOrder, CachesInv, GenerationInv
<1>g. \A g \in DOMAIN caches : g <= w \/ (installing' # NotInstalling /\ g = installing'.gen)
  <2>1. CASE w = waiting /\ installing' = installing
    <3>1. active # 0 /\ active < w /\ \A g \in DOMAIN caches : g <= active \/ g <= w \/ g = installing.gen
      BY <2>1 DEF CachesInv, GenerationInv
    <3>2. installing = NotInstalling => \A g \in DOMAIN caches : g # installing.gen
      BY Facts DEF NotInstalling
    <3> QED BY <1>2, <2>1, <3>1, <3>2, Facts
  <2>2. CASE w = installing.gen /\ installing # NotInstalling
    BY <2>2 DEF CachesInv, GenerationInv
  <2> QED BY <2>1, <2>2
<1>9. GenerationInv'
  <2>1. WithShell(active)' /\ InOrder(active)'
    BY <1>1, <1>3, <1>o DEF WithShell, InOrder
  <2>2. \A g \in DOMAIN caches' : g <= w \/ g = installing'.gen
    BY <1>3, <1>g
  <2>3. ASSUME installing' # NotInstalling
        PROVE  /\ installing'.gen \in DOMAIN caches' /\ w < installing'.gen /\ 0 < installing'.gen
               /\ \A g \in DOMAIN caches' : g <= installing'.gen
               /\ \A g \in DOMAIN caches' : g \notin later'[installing'.gen]
    <3>1. installing' = installing /\ w = waiting /\ installing # NotInstalling
      BY <2>3
    <3>2. /\ installing.gen \in DOMAIN caches /\ waiting < installing.gen /\ active # 0
          /\ \A g \in DOMAIN caches : g <= installing.gen
          /\ \A g \in DOMAIN caches : g \notin later[installing.gen]
      BY <1>2, <3>1 DEF CachesInv, GenerationInv
    <3>3. installing.gen \in DOMAIN caches'
      BY <1>3, <3>2
    <3> QED BY <1>2, <1>3, <3>1, <3>2, <3>3, Facts
  <2> QED BY <1>1, <2>1, <2>2, <2>3 DEF GenerationInv
<1>10. ASSUME NEW b \in DOMAIN later, Recent(b), Installs(b), InOrder(b), Held(caches, b)
       PROVE  Held(caches', b)
  <2>1. b \in DOMAIN caches /\ b # 0
    BY <1>10, Facts DEF Held
  <2>2. w = waiting
    BY <2>1, <1>10, Facts DEF Installs, CachesInv, GenerationInv
  <2>3. b \in DOMAIN caches'
    <3>1. ASSUME b \notin DOMAIN caches' PROVE FALSE
      <4>1. PICK h \in DOMAIN caches : h # w /\ h \in later[b]
        BY <1>3, <2>1, <3>1
      <4>2. w \in later[b]
        BY <1>3, <1>10, <2>2, <3>1 DEF InOrder
      <4>3. later[b] \subseteq 1..deployed
        BY <1>10, Facts
      <4>4. ~(Cardinality(later[b]) < 2)
        BY <4>1, <4>2, <4>3, Facts, TwoLater
      <4> QED BY <1>10, <4>4 DEF Recent, Retained
    <3> QED BY <3>1
  <2> QED BY <1>3, <1>10, <2>3 DEF Held
<1>11. ASSUME NEW u \in Tab PROVE PageOk(tabs[u])'
  <2>1. PICK page, next : page = tabs[u] /\ next = tabs'[u]
    OBVIOUS
  <2>2. page \in Page /\ PageOk(page)
    BY <2>1, Facts DEF CachesInv, PagesInv
  <2>3. PICK cs, after : cs = caches /\ after = caches'
    OBVIOUS
  <2>4. CASE FreshPage(next, after, w, 0)
    <3>1. Served(next)'
      <4>1. 0 <= deployed' /\ (installing' # NotInstalling => 0 <= installing'.gen)
        BY <1>7, Facts DEF TypeInv
      <4> QED BY <2>4, <4>1 DEF FreshPage, Served
    <3>2. KeepsChunk(next)'
      BY <1>1, <1>2, <1>o, <2>3, <2>4 DEF FreshPage, KeepsChunk, Installs
    <3> QED BY <2>1, <3>1, <3>2 DEF PageOk, Served, KeepsChunk, Recent, Held, Installs, InOrder
  <2>5. CASE ~FreshPage(next, after, w, 0)
    <3>1. /\ next \in Page /\ next.build = page.build /\ next.stray = 0
          /\ next.had => page.had \/ (page.build = w /\ Held(cs, w))
      BY <1>6, <2>1, <2>3, <2>5
    <3>2. page.had => /\ Installs(page.build)' /\ InOrder(page.build)'
                      /\ Recent(page.build) /\ Held(caches, page.build) => Held(caches', page.build)
      <4>1. \A b \in Nat : Installs(b) => Installs(b)'
        <5>1. active <= w /\ waiting <= w
          BY <1>2, Facts DEF CachesInv, GenerationInv
        <5> QED BY <1>1, <1>2, <5>1, Facts DEF Installs
      <4>2. page.build \in Nat
        BY <2>2 DEF Page
      <4> QED BY <1>8, <1>10, <2>2, <4>1, <4>2 DEF PageOk, KeepsChunk
    <3>3. Held(cs, w) => w \in DOMAIN later /\ Installs(w)' /\ InOrder(w)' /\ Held(caches', w)
      BY <1>1, <1>2, <1>3, <1>o, <2>3 DEF Installs, Held
    <3>4. KeepsChunk(next)'
      BY <1>7, <2>2, <3>1, <3>2, <3>3, PageNoted
    <3>5. Served(next)'
      <4>1. 0 <= deployed' /\ (installing' # NotInstalling => 0 <= installing'.gen)
        BY <1>7, Facts DEF TypeInv
      <4> QED BY <3>1, <4>1 DEF Served
    <3> QED BY <2>1, <3>4, <3>5 DEF PageOk, Served, KeepsChunk, Recent, Held, Installs, InOrder
  <2> QED BY <2>4, <2>5
<1>12. PagesInv'
  BY <1>11 DEF PagesInv
<1> QED BY <1>7, <1>9, <1>12 DEF CachesInv

LEMMA ActivationStep ==
  ASSUME CachesInv, FirstWorker \/ Activate
  PROVE  CachesInv'
<1>1. CASE FirstWorker
  <2>1. /\ installing # NotInstalling /\ installing' = NotInstalling /\ active = 0
        /\ caches[installing.gen].shell # 0 /\ TakeOver(installing.gen, caches)
        /\ UNCHANGED <<deployed, waiting, later>>
    BY <1>1 DEF FirstWorker, InstallEnds, Complete
  <2>2. waiting = 0
    BY <2>1 DEF CachesInv, GenerationInv
  <2>3. installing.gen \in DOMAIN caches /\ installing.gen > active
    BY <2>1 DEF CachesInv, GenerationInv
  <2>4. installing.gen # 0
    BY <2>3, Facts
  <2> QED BY <2>1, <2>2, <2>3, <2>4, TakeOverStep
<1>2. CASE Activate
  <2>1. /\ waiting # 0 /\ TakeOver(waiting, caches) /\ waiting' = 0
        /\ UNCHANGED <<deployed, installing, later>>
    BY <1>2 DEF Activate
  <2>2. waiting \in DOMAIN caches /\ caches[waiting].shell # 0
    BY <2>1 DEF CachesInv, GenerationInv, WithShell
  <2> QED BY <2>1, <2>2, TakeOverStep
<1> QED BY <1>1, <1>2

-----------------------------------------------------------------------------
LEMMA InitCaches == Init => CachesInv
<1> SUFFICES ASSUME Init PROVE CachesInv
  OBVIOUS
<1>1. NoPage \in Page /\ ~NoPage.had /\ NoPage.stray = 0
  BY DEF NoPage, Page
<1>2. DOMAIN caches = {} /\ DOMAIN later = {}
  BY DEF Init
<1>3. TypeInv
  <2>1. tabs \in [Tab -> Page]
    BY <1>1 DEF Init
  <2>2. caches \in [DOMAIN caches -> Cache] /\ later \in [DOMAIN later -> SUBSET (1..deployed)]
    BY <1>2 DEF Init
  <2>3. installing \in [gen : Nat, todo : SUBSET {"shell", "chunk"}]
    BY DEF Init, NotInstalling
  <2> QED BY <1>2, <2>1, <2>2, <2>3, BuildNumbers DEF Init, TypeInv
<1>4. GenerationInv
  BY DEF Init, GenerationInv
<1>5. PagesInv
  BY <1>1 DEF Init, PagesInv, PageOk, Served, KeepsChunk
<1> QED BY <1>3, <1>4, <1>5 DEF CachesInv

LEMMA StutterCaches ==
  ASSUME CachesInv, UNCHANGED vars
  PROVE  CachesInv'
<1>1. tabs \in [Tab -> Page] /\ UNCHANGED <<deployed, caches, installing, waiting, active, later, tabs>>
  BY Facts DEF vars
<1>2. \A t \in Tab : Alike(tabs[t], tabs'[t])
  BY <1>1 DEF Alike
<1> QED BY <1>1, <1>2, PagesOnly

LEMMA NextCaches ==
  ASSUME CachesInv, [Next]_vars
  PROVE  CachesInv'
<1>1. CASE UNCHANGED vars
  BY <1>1, StutterCaches
<1>2. CASE Deploy \/ Connection \/ \E t \in Tab : Open(t) \/ Close(t) \/ GetBusy(t) \/ GetIdle(t)
  BY <1>2, EnvironmentStep
<1>3. ASSUME NEW t \in Tab, LoadChunk(t) PROVE CachesInv'
  BY <1>3, LoadChunkStep
<1>4. ASSUME NEW t \in Tab, SoftRecover(t) PROVE CachesInv'
  BY <1>4, SoftRecoverStep
<1>5. CASE UpdateCheck
  BY <1>5, UpdateCheckStep
<1>6. CASE FetchShell \/ FetchChunk
  BY <1>6, FetchStep
<1>7. CASE InstallFails
  BY <1>7, InstallFailsStep
<1>8. CASE Installed
  BY <1>8, InstalledStep
<1>9. CASE FirstWorker \/ Activate
  BY <1>9, ActivationStep
<1> QED BY <1>1, <1>2, <1>3, <1>4, <1>5, <1>6, <1>7, <1>8, <1>9 DEF Next

\* The generations and the pages fit together in every reachable state, also
\* after recoveries and beside the workers these leave behind: each worker of
\* sw.js keeps its own generation with its document through installs that fail
\* or are replaced, and a generation that a page took its chunk from goes only
\* with a recovery or once two others have been opened after it.
THEOREM CachesAreSound == Spec => []CachesInv
<1>1. Init => CachesInv
  BY InitCaches
<1>2. CachesInv /\ [Next]_vars => CachesInv'
  BY NextCaches
<1> QED BY <1>1, <1>2, PTL DEF Spec

\* Once a worker is in control, handleNavigation has a document to show a start
\* without a network, whichever builds were deployed, installs broken off and
\* recoveries run.
THEOREM StartsOffline == Spec => []OfflineStart
<1>1. CachesInv => OfflineStart
  BY DEF CachesInv, GenerationInv, WithShell, OfflineStart, CachedShell
<1> QED BY <1>1, CachesAreSound, PTL

\* A page left open on an older build keeps the chunks it has yet to import,
\* until two other generations have been opened (RETAINED_CACHE_GENERATIONS) or
\* a page recovers (ErrorBoundary.tsx).
THEOREM TabsKeepChunks == Spec => []OldTabsKeepChunks
<1>1. CachesInv => OldTabsKeepChunks
  <2> SUFFICES ASSUME CachesInv, NEW t \in Tab, tabs[t].had, Recent(tabs[t].build)
               PROVE  Has(caches, Chunk[tabs[t].build])
    BY DEF OldTabsKeepChunks, Recent
  <2>1. Held(caches, tabs[t].build)
    BY DEF CachesInv, PagesInv, PageOk, KeepsChunk
  <2> QED BY <2>1 DEF Held, Has
<1> QED BY <1>1, CachesAreSound, PTL
=============================================================================
