----------------------------- MODULE PageProofs -----------------------------
(***************************************************************************)
(* What the page keeps to, for every bound: that the browser's features    *)
(* follow the player once it has answered, that launches leave the core    *)
(* they share as the next title needs it, that a PC game has one session   *)
(* and files that are whole, that a game of the library is given its own   *)
(* file, sizes and cover, that settings, deploys, jobs and keys end as     *)
(* they were asked for, and that the library plays what it shows; and of   *)
(* the files a title reads, that a boot gets on with them and that the     *)
(* tables of discs and packages are trees.  The properties speak of        *)
(* moments when nothing is under way; the inductive invariants say what is *)
(* left of an exchange, a launch, a copy or a transaction at every moment  *)
(* of it.                                                                  *)
(***************************************************************************)
EXTENDS BrowserFeatures, TitleLaunch, PortRuntime, PageLibrary, LibraryView, GuestFiles,
        DataLemmas

-----------------------------------------------------------------------------
(* Browser features (BrowserFeatures)                                        *)

FeaturesSpec == FeaturesInit /\ [][FeaturesNext]_featureVars

Pages == [active : BOOLEAN, visible : BOOLEAN, keepAwake : BOOLEAN,
          serviceWorker : BOOLEAN, changes : Nat]
Locks == [tracked : Nat, held : SUBSET Nat, asking : SUBSET (Nat \ {0}),
          releasing : SUBSET Nat, made : Nat, crossed : BOOLEAN]
Jobs == [kind : {"ensure", "unregister"}, at : {"asked", "done"}]
Workers == [registered : BOOLEAN, tracked : BOOLEAN, shown : BOOLEAN,
            jobs : SUBSET Jobs, crossed : BOOLEAN]
Screens == [full : {"no", "first", "second", "yes"},
            landscape : {"no", "waits", "asked"}]

FeaturesType ==
    /\ page \in Pages
    /\ wake \in Locks
    /\ worker \in Workers
    /\ screen \in Screens

(* One lock at most is asked for or held, the page knows the one held, and  *)
(* out of a game nothing is asked for and what is held is being released.   *)
LockOf(w, p) ==
    /\ w.held = {w.tracked} \ {NoLock}
    /\ w.releasing \subseteq w.held
    /\ w.asking # {} => w.held = {} /\ p.active /\ p.keepAwake
    /\ \A a, b \in w.asking : a = b
    /\ ~(p.active /\ p.keepAwake) => w.held \subseteq w.releasing

LockInv == ~wake.crossed => LockOf(wake, page)

(* The change under way is the last one the player made.                    *)
WorkerOf(w, p) ==
    /\ w.tracked => w.registered
    /\ w.jobs = {} => /\ w.registered => p.serviceWorker
                      /\ w.shown = w.tracked
    /\ \A job \in w.jobs :
        /\ w.jobs = {job}
        /\ job.kind = IF p.serviceWorker THEN "ensure" ELSE "unregister"
        /\ job.at = "done" /\ w.registered => p.serviceWorker

WorkerInv == ~worker.crossed => WorkerOf(worker, page)

FeaturesInv == FeaturesType /\ LockInv /\ WorkerInv /\ LandscapeAfterFullscreen

-----------------------------------------------------------------------------
(* Asking for a lock keeps the type, and the lock's part of the invariant   *)
(* when a game is on.                                                       *)
LEMMA AcquireLock ==
    ASSUME NEW w \in Locks, NEW p \in Pages
    PROVE  /\ Acquire(w, p) \in Locks
           /\ ~Acquire(w, p).crossed => ~w.crossed
           /\ ~Acquire(w, p).crossed /\ p.active /\ LockOf(w, p) => LockOf(Acquire(w, p), p)
<1>1. CASE ~p.keepAwake \/ ~p.visible \/ w.made = MaxLocks
  <2>1. Acquire(w, p) = w
    BY <1>1 DEF Acquire
  <2> QED BY <2>1
<1>2. CASE ~(~p.keepAwake \/ ~p.visible \/ w.made = MaxLocks) /\ w.tracked # NoLock
  <2> DEFINE a == [w EXCEPT !.crossed = @ \/ w.releasing # {}]
  <2>1. Acquire(w, p) = a
    BY <1>2 DEF Acquire
  <2>2. a \in Locks /\ (~a.crossed => ~w.crossed)
    BY DEF Locks
  <2>3. /\ a.tracked = w.tracked /\ a.held = w.held /\ a.asking = w.asking
        /\ a.releasing = w.releasing
    BY DEF Locks
  <2>4. LockOf(w, p) => LockOf(a, p)
    BY <2>3 DEF LockOf
  <2> QED BY <2>1, <2>2, <2>4
<1>3. CASE ~(~p.keepAwake \/ ~p.visible \/ w.made = MaxLocks) /\ w.tracked = NoLock
  <2> DEFINE a == [w EXCEPT !.made = @ + 1, !.asking = @ \cup {w.made + 1},
                            !.crossed = @ \/ w.asking # {} \/ w.releasing # {}]
  <2>1. Acquire(w, p) = a
    BY <1>3 DEF Acquire
  <2>2. a \in Locks
    <3>1. w.made + 1 \in Nat \ {0}
      BY DEF Locks
    <3> QED BY <3>1 DEF Locks
  <2>3. a.crossed = (w.crossed \/ w.asking # {} \/ w.releasing # {})
    BY DEF Locks
  <2>4. /\ a.tracked = w.tracked /\ a.held = w.held /\ a.releasing = w.releasing
        /\ a.asking = w.asking \cup {w.made + 1}
    BY DEF Locks
  <2>5. ASSUME ~a.crossed, p.active, LockOf(w, p)
        PROVE  LockOf(a, p)
    <3>1. a.asking = {w.made + 1} /\ a.releasing = {}
      BY <2>3, <2>4, <2>5
    <3>2. a.held = {} /\ a.held = {a.tracked} \ {NoLock}
      BY <2>4, <2>5, <1>3 DEF LockOf
    <3> QED BY <3>1, <3>2, <2>5, <1>3 DEF LockOf
  <2> QED BY <2>1, <2>2, <2>3, <2>5
<1> QED BY <1>1, <1>2, <1>3

(* Giving the lock back leaves nothing held that is not being released, or  *)
(* has crossed a request.                                                   *)
LEMMA ReleaseLock ==
    ASSUME NEW w \in Locks, NEW p, NEW q
    PROVE  /\ Release(w) \in Locks
           /\ ~Release(w).crossed => ~w.crossed
           /\ ~Release(w).crossed /\ LockOf(w, p) => LockOf(Release(w), q)
<1>1. Release(w) \in Locks
  BY DEF Release, Locks, NoLock
<1>2. Release(w).crossed = (w.crossed \/ w.asking # {})
  BY DEF Release, Locks
<1>3. /\ Release(w).tracked = w.tracked /\ Release(w).held = w.held
      /\ Release(w).asking = w.asking
      /\ Release(w).releasing = w.releasing \cup ({w.tracked} \ {NoLock})
  BY DEF Release, Locks
<1>4. ASSUME ~Release(w).crossed, LockOf(w, p)
      PROVE  LockOf(Release(w), q)
  <2>1. w.asking = {} /\ w.held = {w.tracked} \ {NoLock} /\ w.releasing \subseteq w.held
    BY <1>2, <1>4 DEF LockOf
  <2> QED BY <1>3, <2>1 DEF LockOf
<1> QED BY <1>1, <1>2, <1>4

-----------------------------------------------------------------------------
LEMMA FeaturesStart == FeaturesInit => FeaturesInv
<1> SUFFICES ASSUME FeaturesInit PROVE FeaturesInv
  OBVIOUS
<1> DEFINE first == [active : {FALSE}, visible : {TRUE}, keepAwake : BOOLEAN,
                    serviceWorker : BOOLEAN, changes : {0}]
<1>1. page \in Pages /\ page.active = FALSE
  <2>1. page \in first
    BY DEF FeaturesInit
  <2>2. {FALSE} \subseteq BOOLEAN /\ {TRUE} \subseteq BOOLEAN /\ {0} \subseteq Nat
    OBVIOUS
  <2>3. \A p \in first : p \in Pages
    BY <2>2 DEF Pages
  <2>4. page.active \in {FALSE}
    BY <2>1
  <2> QED BY <2>1, <2>3, <2>4
<1>2. wake \in Locks /\ LockOf(wake, page)
  BY <1>1 DEF FeaturesInit, Locks, LockOf, NoLock
<1>3. WorkerJob("ensure") \in Jobs
  BY DEF WorkerJob, Jobs
<1>4. worker \in Workers
  BY <1>1, <1>3 DEF FeaturesInit, Workers, Pages
<1>5. WorkerOf(worker, page)
  BY DEF FeaturesInit, WorkerOf, WorkerJob
<1>6. screen \in Screens /\ LandscapeAfterFullscreen
  BY DEF FeaturesInit, Screens, LandscapeAfterFullscreen
<1> QED BY <1>1, <1>2, <1>4, <1>5, <1>6 DEF FeaturesInv, FeaturesType, LockInv, WorkerInv

(* A lock the browser has given or taken: the answers to the page.          *)
LEMMA LockAnswers ==
    ASSUME FeaturesInv, NEW id,
           \/ id \in wake.releasing /\ SentinelReleased(id)
           \/ id \in wake.asking /\ \E granted \in BOOLEAN : SentinelAnswered(id, granted)
    PROVE  FeaturesInv'
<1> USE DEF FeaturesInv, FeaturesType
<1>1. UNCHANGED <<page, worker, screen>>
  BY DEF SentinelReleased, SentinelAnswered
<1>2. CASE id \in wake.releasing /\ SentinelReleased(id)
  <2>1. wake' \in Locks
    BY <1>2 DEF SentinelReleased, Locks, NoLock
  <2>2. /\ wake'.tracked = NoLock /\ wake'.held = wake.held \ {id}
        /\ wake'.releasing = wake.releasing \ {id}
        /\ wake'.asking = wake.asking /\ wake'.crossed = wake.crossed
    BY <1>2 DEF SentinelReleased, Locks
  <2>3. LockOf(wake, page) => LockOf(wake', page)
    BY <1>2, <2>2 DEF LockOf
  <2> QED BY <1>1, <2>1, <2>2, <2>3 DEF LockInv, WorkerInv, LandscapeAfterFullscreen
<1>3. ASSUME id \in wake.asking, NEW granted \in BOOLEAN, SentinelAnswered(id, granted)
      PROVE  FeaturesInv'
  <2>1. id \in Nat \ {0}
    BY <1>3 DEF Locks
  <2>2. wake' \in Locks
    BY <1>3, <2>1 DEF SentinelAnswered, Locks
  <2>3. /\ wake'.releasing = wake.releasing /\ wake'.crossed = wake.crossed
        /\ wake'.asking = wake.asking \ {id}
        /\ wake'.held = IF granted THEN wake.held \cup {id} ELSE wake.held
        /\ wake'.tracked = IF granted THEN id ELSE wake.tracked
    BY <1>3 DEF SentinelAnswered, Locks
  <2>4. LockOf(wake, page) => LockOf(wake', page)
    BY <1>3, <2>1, <2>3 DEF LockOf, NoLock
  <2> QED BY <1>1, <2>2, <2>3, <2>4 DEF LockInv, WorkerInv, LandscapeAfterFullscreen
<1> QED BY <1>2, <1>3

(* The service worker's registration, as its promises settle.               *)
LEMMA WorkerSettles ==
    ASSUME FeaturesInv, NEW job \in worker.jobs,
           WorkerProbed(job) \/ \E ok \in BOOLEAN : WorkerAnswers(job, ok)
    PROVE  FeaturesInv'
<1> USE DEF FeaturesInv, FeaturesType
<1>1. UNCHANGED <<page, wake, screen>>
  BY DEF WorkerProbed, WorkerAnswers
<1>2. CASE WorkerProbed(job)
  <2>1. worker' \in Workers
    BY <1>2 DEF WorkerProbed, Probed, Workers
  <2>2. /\ worker'.jobs = worker.jobs \ {job} /\ worker'.crossed = worker.crossed
        /\ worker'.registered = worker.registered /\ worker'.tracked = worker.tracked
        /\ worker'.shown = worker.tracked
    BY <1>2 DEF WorkerProbed, Probed, Workers
  <2>3. job.at = "done"
    BY <1>2 DEF WorkerProbed
  <2>4. WorkerOf(worker, page) => WorkerOf(worker', page)
    BY <2>2, <2>3 DEF WorkerOf
  <2> QED BY <1>1, <2>1, <2>2, <2>4 DEF LockInv, WorkerInv, LandscapeAfterFullscreen
<1>3. ASSUME NEW ok \in BOOLEAN, WorkerAnswers(job, ok)
      PROVE  FeaturesInv'
  <2> DEFINE done == [job EXCEPT !.at = "done"]
             after == IF job.kind = "ensure" THEN Ensured(worker, ok) ELSE Unregistered(worker)
  <2>1. job \in Jobs
    BY DEF Workers
  <2>2. done \in Jobs /\ done.kind = job.kind /\ done.at = "done"
    BY <2>1 DEF Jobs
  <2>3. /\ after \in Workers /\ after.jobs = worker.jobs /\ after.crossed = worker.crossed
        /\ after.shown = worker.shown
    BY DEF Ensured, Unregistered, Workers
  <2>4. /\ job.kind = "ensure" => after.tracked = (ok \/ worker.tracked)
        /\ job.kind = "ensure" => after.registered = (ok \/ worker.registered)
        /\ job.kind # "ensure" => ~after.tracked /\ ~after.registered
    BY DEF Ensured, Unregistered, Workers
  <2>5. worker' = [after EXCEPT !.jobs = (@ \ {job}) \cup {done}]
    BY <1>3 DEF WorkerAnswers
  <2> HIDE DEF done, after
  <2>6. /\ worker' \in Workers /\ worker'.crossed = worker.crossed
        /\ worker'.jobs = (worker.jobs \ {job}) \cup {done}
        /\ worker'.registered = after.registered /\ worker'.tracked = after.tracked
    BY <2>2, <2>3, <2>5 DEF Workers
  <2>7. WorkerOf(worker, page) => WorkerOf(worker', page)
    <3> SUFFICES ASSUME WorkerOf(worker, page) PROVE WorkerOf(worker', page)
      OBVIOUS
    <3>1. worker.jobs = {job} /\ worker'.jobs = {done}
      BY <2>6 DEF WorkerOf
    <3>2. job.kind = IF page.serviceWorker THEN "ensure" ELSE "unregister"
      BY DEF WorkerOf
    <3>3. worker'.tracked => worker'.registered
      BY <2>4, <2>6 DEF WorkerOf
    <3>4. worker'.registered => page.serviceWorker
      BY <2>4, <2>6, <3>2
    <3> QED BY <2>2, <3>1, <3>2, <3>3, <3>4 DEF WorkerOf
  <2> QED BY <1>1, <2>6, <2>7 DEF LockInv, WorkerInv, LandscapeAfterFullscreen
<1> QED BY <1>2, <1>3

-----------------------------------------------------------------------------
(* The player's actions.                                                    *)
LEMMA ToggleKeeps ==
    ASSUME FeaturesInv, NEW pref \in {"keepAwake", "serviceWorker"}, Toggle(pref)
    PROVE  FeaturesInv'
<1> USE DEF FeaturesInv, FeaturesType
<1>1. /\ page' \in Pages /\ page'.active = page.active
      /\ pref = "serviceWorker" => /\ page'.serviceWorker = ~page.serviceWorker
                                   /\ page'.keepAwake = page.keepAwake
      /\ pref = "keepAwake" => /\ page'.keepAwake = ~page.keepAwake
                               /\ page'.serviceWorker = page.serviceWorker
  <2>1. CASE pref = "serviceWorker"
    <3> DEFINE no == ~page.serviceWorker
    <3>1. page' = [page EXCEPT !.serviceWorker = no, !.changes = @ + 1]
      BY <2>1 DEF Toggle
    <3>2. no \in BOOLEAN
      OBVIOUS
    <3>3. page.changes + 1 \in Nat
      BY DEF Pages
    <3> HIDE DEF no
    <3>4. /\ page' \in Pages /\ page'.serviceWorker = no /\ page'.active = page.active
          /\ page'.keepAwake = page.keepAwake
      BY <3>1, <3>2, <3>3 DEF Pages
    <3> QED BY <3>4, <2>1 DEF no
  <2>2. CASE pref = "keepAwake"
    <3> DEFINE no == ~page.keepAwake
    <3>1. page' = [page EXCEPT !.keepAwake = no, !.changes = @ + 1]
      BY <2>2 DEF Toggle
    <3>2. no \in BOOLEAN
      OBVIOUS
    <3>3. page.changes + 1 \in Nat
      BY DEF Pages
    <3> HIDE DEF no
    <3>4. /\ page' \in Pages /\ page'.keepAwake = no /\ page'.active = page.active
          /\ page'.serviceWorker = page.serviceWorker
      BY <3>1, <3>2, <3>3 DEF Pages
    <3> QED BY <3>4, <2>2 DEF no
  <2> QED BY <2>1, <2>2
<1>2. UNCHANGED screen
  BY DEF Toggle
<1>3. CASE pref = "serviceWorker"
  <2> DEFINE asked == IF page'.serviceWorker THEN "ensure" ELSE "unregister"
  <2>1. UNCHANGED wake /\ worker' = Started(worker, asked)
    BY <1>3 DEF Toggle
  <2>2. WorkerJob(asked) \in Jobs
    BY DEF WorkerJob, Jobs
  <2>3. /\ worker' \in Workers
        /\ worker'.jobs = worker.jobs \cup {WorkerJob(asked)}
        /\ worker'.crossed = (worker.crossed \/ worker.jobs # {})
        /\ worker'.registered = worker.registered /\ worker'.tracked = worker.tracked
    BY <2>1, <2>2 DEF Started, Workers
  <2>4. ASSUME ~worker'.crossed PROVE WorkerOf(worker', page')
    <3>1. worker'.jobs = {WorkerJob(asked)} /\ WorkerOf(worker, page)
      BY <2>3, <2>4 DEF WorkerInv
    <3>2. WorkerJob(asked).kind = asked /\ WorkerJob(asked).at = "asked"
      BY DEF WorkerJob
    <3> QED BY <2>3, <3>1, <3>2 DEF WorkerOf
  <2>5. LockInv'
    BY <1>1, <1>3, <2>1 DEF LockInv, LockOf
  <2> QED BY <1>1, <1>2, <2>1, <2>3, <2>4, <2>5 DEF WorkerInv, LandscapeAfterFullscreen
<1>4. CASE pref = "keepAwake"
  <2>1. /\ wake' = IF page'.keepAwake THEN wake ELSE Release(wake)
        /\ worker' = Probed(worker)
    BY <1>4 DEF Toggle
  <2>2. /\ worker' \in Workers /\ worker'.jobs = worker.jobs /\ worker'.crossed = worker.crossed
        /\ worker'.registered = worker.registered /\ worker'.tracked = worker.tracked
        /\ worker'.shown = worker.tracked
    BY <2>1 DEF Probed, Workers
  <2>3. WorkerInv'
    BY <1>1, <1>4, <2>2 DEF WorkerInv, WorkerOf
  <2>4. wake' \in Locks
    BY <2>1, ReleaseLock
  <2>5. LockInv'
    <3>1. CASE page'.keepAwake
      <4>1. wake' = wake /\ ~page.keepAwake
        BY <2>1, <3>1, <1>1, <1>4 DEF Pages
      <4> QED BY <4>1, <1>1, <3>1 DEF LockInv, LockOf
    <3>2. CASE ~page'.keepAwake
      BY <2>1, <3>2, ReleaseLock DEF LockInv
    <3> QED BY <3>1, <3>2
  <2> QED BY <1>1, <1>2, <2>2, <2>3, <2>4, <2>5 DEF LandscapeAfterFullscreen
<1> QED BY <1>3, <1>4

LEMMA PlayKeeps ==
    ASSUME FeaturesInv, Play
    PROVE  FeaturesInv'
<1> USE DEF FeaturesInv, FeaturesType
<1> DEFINE once == Acquire(wake, page)
           twice == Acquire(once, page)
<1>1. /\ page' \in Pages /\ page'.active /\ page'.keepAwake = page.keepAwake
      /\ page'.visible = page.visible /\ page'.serviceWorker = page.serviceWorker
      /\ ~page.active
  BY DEF Play, Pages
<1>2. wake' = twice /\ UNCHANGED worker /\ screen' = Asked
  BY DEF Play
<1>3. once = Acquire(wake, page') /\ twice = Acquire(once, page')
  BY <1>1 DEF Acquire
<1> HIDE DEF once, twice
<1>4. /\ once \in Locks
      /\ ~once.crossed => ~wake.crossed
      /\ ~once.crossed /\ LockOf(wake, page') => LockOf(once, page')
  BY <1>1, <1>3, AcquireLock
<1>5. /\ twice \in Locks
      /\ ~twice.crossed => ~once.crossed
      /\ ~twice.crossed /\ LockOf(once, page') => LockOf(twice, page')
  BY <1>1, <1>3, <1>4, AcquireLock
<1>6. LockOf(wake, page) => LockOf(wake, page')
  BY <1>1 DEF LockOf
<1>7. LockInv'
  BY <1>2, <1>4, <1>5, <1>6 DEF LockInv
<1>8. WorkerInv'
  BY <1>1, <1>2 DEF WorkerInv, WorkerOf
<1>9. screen' \in Screens /\ LandscapeAfterFullscreen'
  BY <1>2 DEF Asked, Screens, LandscapeAfterFullscreen
<1> QED BY <1>1, <1>2, <1>5, <1>7, <1>8, <1>9

LEMMA FullscreenKeeps ==
    ASSUME FeaturesInv, NEW ok \in BOOLEAN, FullscreenAnswers(ok)
    PROVE  FeaturesInv'
<1> USE DEF FeaturesInv, FeaturesType
<1>1. UNCHANGED <<page, wake, worker>>
  BY DEF FullscreenAnswers
<1>2. screen' \in Screens
  BY DEF FullscreenAnswers, Screens
<1>3. LandscapeAfterFullscreen'
  <2>1. CASE ok \/ screen.full = "second"
    BY <2>1 DEF FullscreenAnswers, LandscapeAfterFullscreen
  <2>2. CASE ~(ok \/ screen.full = "second")
    <3>1. screen.full = "first" /\ screen'.landscape = screen.landscape
      BY <2>2 DEF FullscreenAnswers, Screens
    <3> QED BY <3>1 DEF LandscapeAfterFullscreen
  <2> QED BY <2>1, <2>2
<1> QED BY <1>1, <1>2, <1>3 DEF LockInv, WorkerInv

LEMMA GameChangesKeeps ==
    ASSUME FeaturesInv, NEW active \in BOOLEAN, GameChanges(active)
    PROVE  FeaturesInv'
<1> USE DEF FeaturesInv, FeaturesType
<1>1. /\ page' \in Pages /\ page'.active = active /\ page.active
      /\ page'.keepAwake = page.keepAwake /\ page'.serviceWorker = page.serviceWorker
  BY DEF GameChanges, Pages
<1>2. /\ wake' = IF active THEN Acquire(wake, page') ELSE Release(wake)
      /\ UNCHANGED <<worker, screen>>
  BY <1>1 DEF GameChanges, Observed
<1>3. wake' \in Locks
  BY <1>1, <1>2, AcquireLock, ReleaseLock
<1>4. LockInv'
  <2>1. CASE active
    <3>1. LockOf(wake, page) => LockOf(wake, page')
      BY <1>1, <2>1 DEF LockOf
    <3> QED BY <1>1, <1>2, <2>1, <3>1, AcquireLock DEF LockInv
  <2>2. CASE ~active
    BY <1>2, <2>2, ReleaseLock DEF LockInv
  <2> QED BY <2>1, <2>2
<1>5. WorkerInv'
  BY <1>1, <1>2 DEF WorkerInv, WorkerOf
<1> QED BY <1>1, <1>2, <1>3, <1>4, <1>5 DEF LandscapeAfterFullscreen

LEMMA PageKeeps ==
    ASSUME FeaturesInv, Hide \/ Show \/ Reload
    PROVE  FeaturesInv'
<1> USE DEF FeaturesInv, FeaturesType
<1>1. CASE Hide
  <2>1. /\ page' \in Pages /\ page'.serviceWorker = page.serviceWorker
        /\ UNCHANGED <<worker, screen>>
    BY <1>1 DEF Hide, Pages
  <2>2. /\ wake' \in Locks /\ wake'.tracked = NoLock /\ wake'.held = {}
        /\ wake'.releasing = {} /\ wake'.asking = {}
    BY <1>1 DEF Hide, Locks, NoLock
  <2> QED BY <2>1, <2>2 DEF LockInv, LockOf, WorkerInv, WorkerOf, LandscapeAfterFullscreen
<1>2. CASE Show
  <2>1. /\ page' \in Pages /\ page'.active = page.active /\ UNCHANGED screen
        /\ page'.keepAwake = page.keepAwake /\ page'.serviceWorker = page.serviceWorker
        /\ wake' = IF page.active THEN Acquire(wake, page') ELSE wake
        /\ worker' = Probed(worker)
    BY <1>2 DEF Show, Pages
  <2>2. /\ worker' \in Workers /\ worker'.jobs = worker.jobs /\ worker'.crossed = worker.crossed
        /\ worker'.registered = worker.registered /\ worker'.tracked = worker.tracked
        /\ worker'.shown = worker.tracked
    BY <2>1 DEF Probed, Workers
  <2>3. WorkerInv'
    BY <2>1, <2>2 DEF WorkerInv, WorkerOf
  <2>4. LockOf(wake, page) => LockOf(wake, page')
    BY <2>1 DEF LockOf
  <2>5. wake' \in Locks /\ LockInv'
    BY <2>1, <2>4, AcquireLock DEF LockInv
  <2> QED BY <2>1, <2>2, <2>3, <2>5 DEF LandscapeAfterFullscreen
<1>3. CASE Reload
  <2>1. page' \in Pages /\ page'.serviceWorker = page.serviceWorker
    <3>1. page' = [page EXCEPT !.active = FALSE, !.visible = TRUE, !.changes = @ + 1]
      BY <1>3 DEF Reload
    <3>2. page.changes + 1 \in Nat
      BY DEF Pages
    <3> QED BY <3>1, <3>2 DEF Pages
  <2>2. /\ wake' \in Locks /\ wake'.tracked = NoLock /\ wake'.held = {}
        /\ wake'.releasing = {} /\ wake'.asking = {}
    BY <1>3 DEF Reload, Locks, NoLock
  <2>3. WorkerJob("ensure") \in Jobs /\ WorkerJob("ensure").kind = "ensure"
        /\ WorkerJob("ensure").at = "asked"
    BY DEF WorkerJob, Jobs
  <2>4. /\ worker' \in Workers /\ worker'.crossed = (worker.crossed \/ worker.jobs # {})
        /\ worker'.jobs = IF page.serviceWorker THEN {WorkerJob("ensure")} ELSE {}
        /\ worker'.registered = worker.registered
        /\ worker'.tracked = FALSE /\ worker'.shown = FALSE
    BY <1>3, <2>3 DEF Reload, Workers
  <2>5. ASSUME ~worker'.crossed PROVE WorkerOf(worker', page')
    <3>1. worker.jobs = {} /\ WorkerOf(worker, page)
      BY <2>4, <2>5 DEF WorkerInv
    <3> QED BY <2>1, <2>3, <2>4, <3>1 DEF WorkerOf
  <2>6. screen' \in Screens /\ LandscapeAfterFullscreen'
    BY <1>3 DEF Reload, Screens, LandscapeAfterFullscreen
  <2> QED BY <2>1, <2>2, <2>4, <2>5, <2>6 DEF LockInv, LockOf, WorkerInv
<1> QED BY <1>1, <1>2, <1>3

-----------------------------------------------------------------------------
LEMMA FeaturesStep == FeaturesInv /\ [FeaturesNext]_featureVars => FeaturesInv'
<1> SUFFICES ASSUME FeaturesInv, [FeaturesNext]_featureVars
             PROVE  FeaturesInv'
  OBVIOUS
<1>1. CASE UNCHANGED featureVars
  BY <1>1 DEF featureVars, FeaturesInv, FeaturesType, LockInv, WorkerInv, LandscapeAfterFullscreen
<1>2. ASSUME NEW id \in wake.releasing, SentinelReleased(id) PROVE FeaturesInv'
  BY <1>2, LockAnswers
<1>3. ASSUME NEW id \in wake.asking, NEW granted \in BOOLEAN, SentinelAnswered(id, granted)
      PROVE  FeaturesInv'
  BY <1>3, LockAnswers
<1>4. ASSUME NEW job \in worker.jobs,
             WorkerProbed(job) \/ \E ok \in BOOLEAN : WorkerAnswers(job, ok)
      PROVE  FeaturesInv'
  BY <1>4, WorkerSettles
<1>5. ASSUME NEW pref \in {"keepAwake", "serviceWorker"}, Toggle(pref) PROVE FeaturesInv'
  BY <1>5, ToggleKeeps
<1>6. CASE Play
  BY <1>6, PlayKeeps
<1>7. ASSUME NEW ok \in BOOLEAN, FullscreenAnswers(ok) PROVE FeaturesInv'
  BY <1>7, FullscreenKeeps
<1>8. ASSUME NEW active \in BOOLEAN, GameChanges(active) PROVE FeaturesInv'
  BY <1>8, GameChangesKeeps
<1>9. CASE Hide \/ Show \/ Reload
  BY <1>9, PageKeeps
<1> QED BY <1>1, <1>2, <1>3, <1>4, <1>5, <1>6, <1>7, <1>8, <1>9 DEF FeaturesNext

(* No answer of the browser, in whatever order, leaves a state outside the  *)
(* invariant (every handler of src/render360-browser-features.mjs).         *)
THEOREM FeaturesKept == FeaturesSpec => []FeaturesInv
BY FeaturesStart, FeaturesStep, PTL DEF FeaturesSpec

(* Out of a game no lock keeps the screen on: releaseWakeLock and the       *)
(* observer of the page's state, for every bound.                           *)
THEOREM ScreenSleeps == FeaturesSpec => []ScreenMaySleep
<1>1. FeaturesInv => ScreenMaySleep
  BY DEF FeaturesInv, LockInv, LockOf, ScreenMaySleep
<1> QED BY <1>1, FeaturesKept, PTL

(* The service worker's setting is the registration's, once every change    *)
(* has taken effect.                                                        *)
THEOREM SettingApplied == FeaturesSpec => []SettingIsApplied
<1>1. FeaturesInv => SettingIsApplied
  BY DEF FeaturesInv, WorkerInv, WorkerOf, SettingIsApplied
<1> QED BY <1>1, FeaturesKept, PTL

(* The orientation is asked for after the full screen request is settled.   *)
THEOREM LandscapeFollows == FeaturesSpec => []LandscapeAfterFullscreen
<1>1. FeaturesInv => LandscapeAfterFullscreen
  BY DEF FeaturesInv
<1> QED BY <1>1, FeaturesKept, PTL

(* The browser does what the player wanted last, once it has answered.      *)
THEOREM BrowserObeys == FeaturesSpec => []BrowserFollows
<1>1. ScreenMaySleep /\ SettingIsApplied /\ LandscapeAfterFullscreen => BrowserFollows
  BY DEF BrowserFollows
<1> QED BY <1>1, ScreenSleeps, SettingApplied, LandscapeFollows, PTL

-----------------------------------------------------------------------------
(* Launches (TitleLaunch)                                                    *)

LaunchRecords == [at : {"idle"} \cup Waiting \cup EndedStates, core : Cores \cup {0},
                  prev : 0 .. 1, blocked : BOOLEAN, driven : BOOLEAN, fetches : 0 .. MaxFetches]
CoreRecords == [status : {"none", "loading", "ready", "failed"}, exec : 0 .. 1,
                title : Launches \cup {0}, thread : Launches \cup {0},
                fibers : Launches \cup {0}, vfs : Launches \cup {0}]

\* A launch has a core from its first step on, a title is pumped only after it
\* was published, and a core that has trapped has been handed out.
CoresInv ==
    /\ \A l \in Launches : launch[l].at # "idle" =>
          launch[l].core \in Cores /\ core[launch[l].core].status # "none"
    /\ \A l \in Launches : launch[l].driven => launch[l].at \in {"inspect", "done"}
    /\ \A l \in Launches : pumps[l].running \/ pumps[l].pumping => launch[l].at = "done"
    /\ \A c \in reported : core[c].status # "none"

\* What a launch l with record r in progress relies on: the mode it restores is
\* that of execution, and from its first attachment on the core c is its own.
Fits(l, r, c) ==
    /\ r.at \in {"prepare", "hirPrepare", "hir", "fetch"} => r.prev = 1
    /\ r.at \in {"session", "pump"} => c.title = l
    /\ r.at = "pump" => c.thread = l
    /\ r.at = "inspect" /\ r.driven => c.title = l /\ c.thread = l

\* While the player waits for launches and pumps to end, one launch is in
\* progress, or one title is pumped, and the page shows it; only a launch that
\* translates has taken the core out of the mode of execution.
CalmInv ==
    /\ \A k, l \in InProgress : k = l
    /\ \A l \in InProgress : view = "game" /\ Fits(l, launch[l], CoreOf(l))
    /\ \A l \in Launches : pumps[l].running \/ pumps[l].pumping => published = l /\ InProgress = {}
    /\ \A l \in Launches : pumps[l].running =>
          view = "game" /\ CoreOf(l).title = l /\ CoreOf(l).thread = l
    /\ \A c \in Cores : core[c].exec = 0 =>
          \E l \in Launches : launch[l].at = "prepare" /\ launch[l].core = c

LaunchInv ==
    /\ LaunchTypeOK /\ CoresInv /\ ReportedIsDiscarded
    /\ ~hurried => CalmInv

-----------------------------------------------------------------------------
(* A step of a launch                                                        *)

\* Launch l goes on as r and leaves its core as c.
MovesTo(l, r, c) ==
    /\ r \in LaunchRecords /\ c \in CoreRecords
    /\ r.core = launch[l].core /\ r.at # "idle" /\ c.status = CoreOf(l).status
    /\ r.driven => r.at \in {"inspect", "done"}
    /\ launch' = [launch EXCEPT ![l] = r]
    /\ core' = [core EXCEPT ![launch[l].core] = c]
    /\ view' = ViewAfter(l, r.at) /\ kind' = kind /\ hurried' = hurried
    /\ ~hurried => Fits(l, r, c) /\ (c.exec = 0 => r.at = "prepare")

\* Meanwhile no pump is started but that of l, when it is published.
PumpsFollow(l, r, c) ==
    \A k \in Launches :
        /\ pumps'[k].pumping => pumps[k].pumping
        /\ pumps'[k].running =>
              \/ pumps[k].running
              \/ /\ k = l /\ r.at = "done" /\ published' = l
                 /\ ~hurried => c.title = l /\ c.thread = l

SidesTyped ==
    /\ bridge' \in [Bridges -> [run : Launches \cup {0}, scheduler : Launches \cup {0}]]
    /\ pumps' \in [Launches -> [running : BOOLEAN, pumping : BOOLEAN]]
    /\ singleton' \in Cores \cup {0} /\ guestRun' \in Launches \cup {0}
    /\ aborted' \subseteq Launches /\ published' \in Launches \cup {0}

TrapsFollow(l) ==
    reported' \subseteq reported \cup {launch[l].core} /\ singleton' \notin reported'

LEMMA LaunchMoves ==
    ASSUME LaunchInv, NEW l \in Launches, launch[l].at \in Waiting, NEW r, NEW c,
           MovesTo(l, r, c), PumpsFollow(l, r, c), SidesTyped, TrapsFollow(l)
    PROVE  LaunchInv'
<1>0. /\ launch \in [Launches -> LaunchRecords] /\ core \in [Cores -> CoreRecords]
      /\ reported \subseteq Cores
  BY DEF LaunchInv, LaunchTypeOK, LaunchRecords, CoreRecords
<1>1. /\ r \in LaunchRecords /\ c \in CoreRecords
      /\ r.core = launch[l].core /\ r.at # "idle" /\ c.status = CoreOf(l).status
      /\ r.driven => r.at \in {"inspect", "done"}
      /\ launch' = [launch EXCEPT ![l] = r]
      /\ core' = [core EXCEPT ![launch[l].core] = c]
      /\ view' = ViewAfter(l, r.at) /\ kind' = kind /\ hurried' = hurried
      /\ ~hurried => Fits(l, r, c) /\ (c.exec = 0 => r.at = "prepare")
  BY DEF MovesTo
<1>2. launch[l].at # "idle" /\ launch[l].at # "done"
  BY DEF Waiting
<1>3. launch[l].core \in Cores /\ CoreOf(l).status # "none"
  BY <1>2 DEF LaunchInv, CoresInv, CoreOf
<1>4. /\ launch' \in [Launches -> LaunchRecords]
      /\ launch'[l] = r /\ \A k \in Launches \ {l} : launch'[k] = launch[k]
  BY <1>0, <1>1
<1>5. /\ core' \in [Cores -> CoreRecords]
      /\ core'[launch[l].core] = c
      /\ \A d \in Cores \ {launch[l].core} : core'[d] = core[d]
  BY <1>0, <1>1, <1>3
<1>6. \A d \in Cores : core'[d].status = core[d].status
  BY <1>1, <1>3, <1>5 DEF CoreOf
<1>7. LaunchTypeOK'
  <2>1. kind' \in [Launches -> Bridges] /\ hurried' \in BOOLEAN /\ view \in {"details", "game"}
    BY <1>1 DEF LaunchInv, LaunchTypeOK
  <2>2. view' \in {"details", "game"}
    BY <1>1, <2>1 DEF ViewAfter
  <2>3. reported' \subseteq Cores
    BY <1>0, <1>3 DEF TrapsFollow
  <2> QED BY <1>4, <1>5, <2>1, <2>2, <2>3 DEF LaunchTypeOK, LaunchRecords, CoreRecords, SidesTyped
<1>8. CoresInv'
  <2>1. ASSUME NEW k \in Launches, launch'[k].at # "idle"
        PROVE  launch'[k].core \in Cores /\ core'[launch'[k].core].status # "none"
    <3>1. CASE k = l
      BY <3>1, <1>1, <1>3, <1>4, <1>5
    <3>2. CASE k # l
      <4>1. launch[k].core \in Cores /\ core[launch[k].core].status # "none"
        BY <3>2, <2>1, <1>4 DEF LaunchInv, CoresInv
      <4> QED BY <3>2, <4>1, <1>4, <1>6
    <3> QED BY <3>1, <3>2
  <2>2. ASSUME NEW k \in Launches, launch'[k].driven
        PROVE  launch'[k].at \in {"inspect", "done"}
    BY <2>2, <1>1, <1>4 DEF LaunchInv, CoresInv
  <2>3. ASSUME NEW k \in Launches, pumps'[k].running \/ pumps'[k].pumping
        PROVE  launch'[k].at = "done"
    <3>1. ASSUME pumps[k].running \/ pumps[k].pumping
          PROVE  launch[k].at = "done"
      BY <3>1 DEF LaunchInv, CoresInv
    <3> QED BY <2>3, <3>1, <1>2, <1>4 DEF PumpsFollow
  <2>4. ASSUME NEW d \in reported'
        PROVE  core'[d].status # "none"
    <3>1. CASE d = launch[l].core
      BY <3>1, <1>1, <1>3, <1>5
    <3>2. CASE d \in reported
      BY <3>2, <1>0, <1>6 DEF LaunchInv, CoresInv
    <3> QED BY <2>4, <3>1, <3>2 DEF TrapsFollow
  <2> QED BY <2>1, <2>2, <2>3, <2>4 DEF CoresInv
<1>9. ASSUME ~hurried'
      PROVE  CalmInv'
  <2>0. ~hurried /\ CalmInv /\ l \in InProgress
    BY <1>1, <1>9 DEF LaunchInv, InProgress
  <2>1. \A k \in InProgress : k = l
    BY <2>0 DEF CalmInv
  <2>2. view = "game"
    BY <2>0 DEF CalmInv
  <2>3. \A k \in Launches : ~pumps[k].running /\ ~pumps[k].pumping
    BY <2>0 DEF CalmInv
  <2>4. \A k \in InProgress' : k = l /\ r.at \in Waiting
    BY <2>1, <1>4 DEF InProgress
  <2>5. ASSUME NEW k \in InProgress'
        PROVE  view' = "game" /\ Fits(k, launch'[k], CoreOf(k)')
    <3>1. k = l /\ r.at \in Waiting
      BY <2>4
    <3>2. view' = "game"
      BY <3>1, <2>2, <1>1 DEF ViewAfter, Waiting
    <3>3. CoreOf(l)' = c
      BY <1>1, <1>4, <1>5 DEF CoreOf
    <3> QED BY <3>1, <3>2, <3>3, <1>1, <1>4, <2>0
  <2>6. ASSUME NEW k \in Launches, pumps'[k].running \/ pumps'[k].pumping
        PROVE  /\ published' = k /\ InProgress' = {} /\ view' = "game"
               /\ CoreOf(k)'.title = k /\ CoreOf(k)'.thread = k
    <3>1. /\ k = l /\ r.at = "done" /\ published' = l
          /\ c.title = l /\ c.thread = l
      BY <2>0, <2>3, <2>6 DEF PumpsFollow
    <3>2. "done" \notin Waiting
      BY DEF Waiting
    <3>3. InProgress' = {}
      BY <2>4, <3>1, <3>2
    <3>4. CoreOf(l)' = c
      BY <1>1, <1>4, <1>5 DEF CoreOf
    <3>5. view' = "game"
      BY <3>1, <2>2, <1>1 DEF ViewAfter
    <3> QED BY <3>1, <3>3, <3>4, <3>5
  <2>7. ASSUME NEW d \in Cores, core'[d].exec = 0
        PROVE  \E k \in Launches : launch'[k].at = "prepare" /\ launch'[k].core = d
    <3>1. CASE d = launch[l].core
      <4>1. launch'[l].at = "prepare" /\ launch'[l].core = d
        BY <2>7, <3>1, <1>1, <1>4, <1>5, <2>0
      <4> QED BY <4>1
    <3>2. CASE d # launch[l].core
      <4>1. PICK k \in Launches : launch[k].at = "prepare" /\ launch[k].core = d
        BY <2>7, <3>2, <1>5, <2>0 DEF CalmInv
      <4>2. k \in InProgress
        BY <4>1 DEF InProgress, Waiting
      <4> QED BY <4>1, <4>2, <2>1, <3>2
    <3> QED BY <3>1, <3>2
  <2> QED BY <2>4, <2>5, <2>6, <2>7 DEF CalmInv
<1> QED BY <1>7, <1>8, <1>9 DEF LaunchInv, ReportedIsDiscarded, TrapsFollow


\* What is known of a launch in progress.
LEMMA InProgressFacts ==
    ASSUME LaunchInv, NEW l \in Launches, launch[l].at \in Waiting
    PROVE  /\ launch[l] \in LaunchRecords /\ CoreOf(l) \in CoreRecords /\ launch[l].core \in Cores
           /\ kind[l] \in Bridges /\ Launches \subseteq Nat \ {0}
           /\ launch[l].driven => launch[l].at = "inspect"
           /\ ~hurried => Fits(l, launch[l], CoreOf(l)) /\ (CoreOf(l).exec = 0 => launch[l].at = "prepare")
<1>0. /\ launch \in [Launches -> LaunchRecords] /\ core \in [Cores -> CoreRecords]
      /\ kind \in [Launches -> Bridges]
  BY DEF LaunchInv, LaunchTypeOK, LaunchRecords, CoreRecords
<1>1. launch[l].at # "idle" /\ launch[l].at # "done" /\ l \in InProgress
  BY DEF Waiting, InProgress
<1>2. launch[l].core \in Cores
  BY <1>1 DEF LaunchInv, CoresInv
<1>3. launch[l].driven => launch[l].at = "inspect"
  BY <1>1 DEF LaunchInv, CoresInv
<1>4. ASSUME ~hurried
      PROVE  Fits(l, launch[l], CoreOf(l)) /\ (CoreOf(l).exec = 0 => launch[l].at = "prepare")
  <2>1. CalmInv
    BY <1>4 DEF LaunchInv
  <2>2. ASSUME CoreOf(l).exec = 0
        PROVE  launch[l].at = "prepare"
    <3>1. PICK k \in Launches : launch[k].at = "prepare"
      BY <2>1, <2>2, <1>2 DEF CalmInv, CoreOf
    <3>2. k \in InProgress
      BY <3>1 DEF InProgress, Waiting
    <3> QED BY <3>1, <3>2, <2>1, <1>1 DEF CalmInv
  <2> QED BY <2>1, <2>2, <1>1 DEF CalmInv
<1>5. Launches \subseteq Nat \ {0}
  <2>1. Launches = 1 .. Cardinality(Launches) /\ Cardinality(Launches) \in Nat
    BY LaunchAssumption, FS_CardinalityType
  <2> QED BY <2>1
<1> QED BY <1>0, <1>2, <1>3, <1>4, <1>5 DEF CoreOf

\* The pumps, the core that is handed out and what is published stay.
Quiet ==
    /\ UNCHANGED <<bridge, pumps, singleton, reported, published>>
    /\ guestRun' \in Launches \cup {0} /\ aborted' \subseteq Launches

LEMMA QuietStep ==
    ASSUME LaunchInv, NEW l \in Launches, launch[l].at \in Waiting, NEW r, NEW c,
           MovesTo(l, r, c), Quiet
    PROVE  LaunchInv'
<1>1. PumpsFollow(l, r, c)
  BY DEF PumpsFollow, Quiet
<1>2. SidesTyped
  BY DEF SidesTyped, Quiet, LaunchInv, LaunchTypeOK
<1>3. TrapsFollow(l)
  BY DEF TrapsFollow, Quiet, LaunchInv, ReportedIsDiscarded
<1> QED BY <1>1, <1>2, <1>3, LaunchMoves

\* A step that changes only where the launch is.
At(l, to) == [launch[l] EXCEPT !.at = to]

LEMMA GoesMoves ==
    ASSUME LaunchInv, NEW l \in Launches, launch[l].at \in Waiting,
           NEW to \in Waiting \cup EndedStates, NEW c \in CoreRecords,
           c.status = CoreOf(l).status, core' = [core EXCEPT ![launch[l].core] = c],
           Ends(l, to) \/ (to # "failed" /\ Goes(l, to)),
           launch[l].driven => to \in {"inspect", "done"},
           ~hurried => Fits(l, At(l, to), c) /\ (c.exec = 0 => to = "prepare")
    PROVE  MovesTo(l, At(l, to), c)
<1>0. launch[l] \in LaunchRecords
  BY InProgressFacts
<1>1. At(l, to) \in LaunchRecords
  BY <1>0 DEF At, LaunchRecords
<1>2. /\ At(l, to).core = launch[l].core /\ At(l, to).at = to
      /\ At(l, to).driven = launch[l].driven
  BY <1>0 DEF At, LaunchRecords
<1>3. launch' = [launch EXCEPT ![l] = At(l, to)]
  BY DEF Ends, Goes, MovesOn, At
<1>4. view' = ViewAfter(l, to) /\ kind' = kind /\ hurried' = hurried
  BY DEF Ends, Goes, titleVars, ViewAfter
<1>5. to # "idle"
  BY DEF Waiting, EndedStates
<1> QED BY <1>1, <1>2, <1>3, <1>4, <1>5 DEF MovesTo

\* A launch that ends relies on nothing.
LEMMA EndedFits ==
    ASSUME NEW l \in Launches, launch[l] \in LaunchRecords, NEW to \in EndedStates, NEW c
    PROVE  Fits(l, At(l, to), c)
<1>1. At(l, to).at = to
  BY DEF At, LaunchRecords
<1> QED BY <1>1 DEF Fits, EndedStates

\* ... as long as it leaves the core in the mode of execution.
LEMMA EndsMoves ==
    ASSUME LaunchInv, NEW l \in Launches, launch[l].at \in Waiting,
           NEW to \in EndedStates, NEW c \in CoreRecords,
           c.status = CoreOf(l).status, core' = [core EXCEPT ![launch[l].core] = c],
           Ends(l, to), ~launch[l].driven \/ to = "done",
           ~hurried => c.exec = 1
    PROVE  MovesTo(l, At(l, to), c)
<1>1. launch[l] \in LaunchRecords
  BY InProgressFacts
<1>2. Fits(l, At(l, to), c)
  BY <1>1, EndedFits
<1>3. to \in Waiting \cup EndedStates
  OBVIOUS
<1>4. launch[l].driven => to \in {"inspect", "done"}
  OBVIOUS
<1>5. ~hurried => Fits(l, At(l, to), c) /\ (c.exec = 0 => to = "prepare")
  BY <1>2
<1> QED BY <1>3, <1>4, <1>5, GoesMoves

LEMMA CoreStays ==
    ASSUME LaunchInv, NEW l \in Launches, UNCHANGED core
    PROVE  core' = [core EXCEPT ![launch[l].core] = CoreOf(l)]
<1>1. core \in [Cores -> CoreRecords]
  BY DEF LaunchInv, LaunchTypeOK, CoreRecords
<1> QED BY <1>1 DEF CoreOf

\* The mode that is restored is that of execution.
LEMMA ModeComesBack ==
    ASSUME LaunchInv, NEW l \in Launches,
           launch[l].at \in {"prepare", "hirPrepare", "hir", "fetch"}
    PROVE  /\ RestoredMode(l) = [CoreOf(l) EXCEPT !.exec = launch[l].prev]
           /\ RestoredMode(l) \in CoreRecords /\ RestoredMode(l).status = CoreOf(l).status
           /\ ~hurried => RestoredMode(l).exec = 1
           /\ launch[l].at \in Waiting /\ ~launch[l].driven
<1>1. launch[l].at \in Waiting
  BY DEF Waiting
<1>2. /\ launch[l] \in LaunchRecords /\ CoreOf(l) \in CoreRecords
      /\ launch[l].driven => launch[l].at = "inspect"
      /\ ~hurried => Fits(l, launch[l], CoreOf(l))
  BY <1>1, InProgressFacts
<1>3. launch[l].prev \in 0 .. 1
  BY <1>2 DEF LaunchRecords
<1>4. ~hurried => launch[l].prev = 1
  BY <1>2 DEF Fits
<1>5. /\ RestoredMode(l) \in CoreRecords /\ RestoredMode(l).status = CoreOf(l).status
      /\ RestoredMode(l).exec = launch[l].prev
  BY <1>2, <1>3 DEF RestoredMode, CoreRecords
<1> QED BY <1>1, <1>2, <1>4, <1>5 DEF RestoredMode


LEMMA ContinuesMoves ==
    ASSUME LaunchInv, NEW l \in Launches, launch[l].at \in Waiting,
           NEW to \in Waiting, NEW c \in CoreRecords,
           c.status = CoreOf(l).status, core' = [core EXCEPT ![launch[l].core] = c],
           Continues(l, to), ~launch[l].driven,
           ~hurried => Fits(l, At(l, to), c) /\ c.exec = 1
    PROVE  \E r : MovesTo(l, r, c)
<1>1. CASE Superseded(l)
  <2>1. Ends(l, "returned")
    BY <1>1 DEF Continues
  <2>2. "returned" \in EndedStates
    BY DEF EndedStates
  <2>3. ~hurried => c.exec = 1
    OBVIOUS
  <2>4. ~launch[l].driven \/ "returned" = "done"
    OBVIOUS
  <2> QED BY <2>1, <2>2, <2>3, <2>4, EndsMoves
<1>2. CASE ~Superseded(l)
  <2>1. Goes(l, to) /\ to # "failed"
    BY <1>2 DEF Continues, Waiting
  <2>2. to \in Waiting \cup EndedStates
    OBVIOUS
  <2>3. ~hurried => Fits(l, At(l, to), c) /\ (c.exec = 0 => to = "prepare")
    OBVIOUS
  <2>4. launch[l].driven => to \in {"inspect", "done"}
    OBVIOUS
  <2> QED BY <2>1, <2>2, <2>3, <2>4, GoesMoves
<1> QED BY <1>1, <1>2

\* Outside a translation, the core is left as it is.
LEMMA CoreIsKept ==
    ASSUME LaunchInv, NEW l \in Launches, launch[l].at \in Waiting, launch[l].at # "prepare",
           UNCHANGED core
    PROVE  /\ CoreOf(l) \in CoreRecords /\ core' = [core EXCEPT ![launch[l].core] = CoreOf(l)]
           /\ ~hurried => CoreOf(l).exec = 1
<1>1. /\ CoreOf(l) \in CoreRecords
      /\ ~hurried => CoreOf(l).exec # 0
  BY InProgressFacts
<1>2. CoreOf(l).exec \in 0 .. 1
  BY <1>1 DEF CoreRecords
<1> QED BY <1>1, <1>2, CoreStays

-----------------------------------------------------------------------------
(* Each action of a launch                                                   *)

\* The run of the guest is one of the launches.
LEMMA NewRunTyped ==
    ASSUME LaunchInv, NEW l \in Launches, NewGuestRun(l) \/ UNCHANGED titleRunVars
    PROVE  guestRun' \in Launches \cup {0} /\ aborted' \subseteq Launches
<1>1. guestRun \in Launches \cup {0} /\ aborted \subseteq Launches
  BY DEF LaunchInv, LaunchTypeOK
<1> QED BY <1>1 DEF NewGuestRun, titleRunVars

LEMMA BootStep ==
    ASSUME LaunchInv, NEW l \in Launches, BootFails(l) \/ ContentBooted(l) \/ IsoBooted(l) \/ FilesFail(l)
    PROVE  LaunchInv'
<1>1. launch[l].at \in {"boot", "files"} /\ launch[l].at \in Waiting /\ launch[l].at # "prepare"
  BY DEF BootFails, ContentBooted, IsoBooted, FilesFail, Waiting
<1>2. UNCHANGED <<core, bridge, pumps, singleton, reported, published>>
  BY DEF BootFails, ContentBooted, IsoBooted, FilesFail
<1>3. NewGuestRun(l) \/ UNCHANGED titleRunVars
  BY DEF BootFails, ContentBooted, IsoBooted, FilesFail
<1>4. Quiet
  BY <1>2, <1>3, NewRunTyped DEF Quiet
<1>5. /\ CoreOf(l) \in CoreRecords /\ core' = [core EXCEPT ![launch[l].core] = CoreOf(l)]
      /\ ~hurried => CoreOf(l).exec = 1
  BY <1>1, <1>2, CoreIsKept
<1>6. launch[l] \in LaunchRecords /\ ~launch[l].driven
  BY <1>1, InProgressFacts
<1>7. CASE BootFails(l) \/ FilesFail(l)
  <2>1. Ends(l, "failed") /\ "failed" \in EndedStates
    BY <1>7 DEF BootFails, FilesFail, EndedStates
  <2>2. ~launch[l].driven \/ "failed" = "done"
    BY <1>6
  <2>3. MovesTo(l, At(l, "failed"), CoreOf(l))
    BY <1>1, <1>5, <2>1, <2>2, EndsMoves
  <2> QED BY <1>1, <1>4, <2>3, QuietStep
<1>8. CASE ContentBooted(l) \/ IsoBooted(l)
  <2>1. Continues(l, "files") /\ "files" \in Waiting
    BY <1>8 DEF ContentBooted, IsoBooted, Waiting
  <2>2. Fits(l, At(l, "files"), CoreOf(l))
    BY <1>6 DEF Fits, At, LaunchRecords
  <2>3. ~hurried => Fits(l, At(l, "files"), CoreOf(l)) /\ CoreOf(l).exec = 1
    BY <1>5, <2>2
  <2>4. PICK r : MovesTo(l, r, CoreOf(l))
    BY <1>1, <1>5, <1>6, <2>1, <2>3, ContinuesMoves
  <2> QED BY <1>1, <1>4, <2>4, QuietStep
<1> QED BY <1>7, <1>8

LEMMA TranslationMoves ==
    ASSUME LaunchInv, NEW l \in Launches, launch[l].at = "files",
           NEW files \in Launches \cup {0}, TranslationBegins(l, files)
    PROVE  \E r, c : MovesTo(l, r, c)
<1> DEFINE r == [launch[l] EXCEPT !.at = "prepare", !.prev = CoreOf(l).exec]
           c == [CoreOf(l) EXCEPT !.vfs = files, !.exec = 0]
<1>0. launch[l].at \in Waiting
  BY DEF Waiting
<1>1. /\ launch[l] \in LaunchRecords /\ CoreOf(l) \in CoreRecords /\ ~launch[l].driven
      /\ ~hurried => CoreOf(l).exec # 0
  BY <1>0, InProgressFacts
<1>2. CoreOf(l).exec \in 0 .. 1
  BY <1>1 DEF CoreRecords
<1>3. /\ r \in LaunchRecords /\ r.core = launch[l].core /\ r.at = "prepare"
      /\ r.prev = CoreOf(l).exec /\ r.driven = launch[l].driven
  BY <1>1, <1>2 DEF LaunchRecords, Waiting
<1>4. c \in CoreRecords /\ c.status = CoreOf(l).status
  <2> DEFINE m == [CoreOf(l) EXCEPT !.vfs = files]
  <2>1. m \in CoreRecords /\ m.status = CoreOf(l).status
    BY <1>1 DEF CoreRecords
  <2>2. c = [m EXCEPT !.exec = 0] /\ 0 \in 0 .. 1
    OBVIOUS
  <2> HIDE DEF m, c
  <2> QED BY <2>1, <2>2 DEF CoreRecords
<1>5. /\ launch' = [launch EXCEPT ![l] = r] /\ core' = [core EXCEPT ![launch[l].core] = c]
      /\ view' = view /\ kind' = kind /\ hurried' = hurried
  BY DEF TranslationBegins, WithCore, titleVars
<1> HIDE DEF r, c
<1>6. ~hurried => Fits(l, r, c)
  BY <1>1, <1>2, <1>3 DEF Fits
<1>7. view' = ViewAfter(l, r.at)
  BY <1>3, <1>5 DEF ViewAfter
<1>8. MovesTo(l, r, c)
  BY <1>1, <1>3, <1>4, <1>5, <1>6, <1>7 DEF MovesTo
<1> QED BY <1>8

LEMMA FilesStep ==
    ASSUME LaunchInv, NEW l \in Launches, ContentFiles(l) \/ IsoFiles(l)
    PROVE  LaunchInv'
<1>1. launch[l].at = "files" /\ launch[l].at \in Waiting
  BY DEF ContentFiles, IsoFiles, Waiting
<1>2. UNCHANGED <<bridge, pumps, singleton, reported, published>> /\ UNCHANGED titleRunVars
  BY DEF ContentFiles, IsoFiles
<1>3. Quiet
  BY <1>2, NewRunTyped DEF Quiet
<1>4. /\ launch[l] \in LaunchRecords /\ CoreOf(l) \in CoreRecords /\ ~launch[l].driven
      /\ ~hurried => CoreOf(l).exec # 0
  BY <1>1, InProgressFacts
<1>5. CoreOf(l).exec \in 0 .. 1 /\ CoreOf(l).vfs \in Launches \cup {0}
  BY <1>4 DEF CoreRecords
<1>6. PICK files \in {l, CoreOf(l).vfs} :
          \/ TranslationBegins(l, files)
          \/ Ends(l, "returned") /\ WithCore(l, [CoreOf(l) EXCEPT !.vfs = files])
  BY DEF ContentFiles, IsoFiles
<1>7. files \in Launches \cup {0}
  BY <1>5, <1>6
<1>8. CASE TranslationBegins(l, files)
  <2>1. PICK r, c : MovesTo(l, r, c)
    BY <1>1, <1>7, <1>8, TranslationMoves
  <2> QED BY <1>1, <1>3, <2>1, QuietStep
<1>9. CASE Ends(l, "returned") /\ WithCore(l, [CoreOf(l) EXCEPT !.vfs = files])
  <2> DEFINE c == [CoreOf(l) EXCEPT !.vfs = files]
  <2>1. c \in CoreRecords /\ c.status = CoreOf(l).status /\ c.exec = CoreOf(l).exec
    BY <1>4, <1>7 DEF CoreRecords
  <2>2. core' = [core EXCEPT ![launch[l].core] = c]
    BY <1>9 DEF WithCore
  <2> HIDE DEF c
  <2>3. ~hurried => c.exec = 1
    BY <1>4, <1>5, <2>1
  <2>4. "returned" \in EndedStates
    BY DEF EndedStates
  <2>5. ~launch[l].driven \/ "returned" = "done"
    BY <1>4
  <2>6. MovesTo(l, At(l, "returned"), c)
    BY <1>1, <1>9, <2>1, <2>2, <2>3, <2>4, <2>5, EndsMoves
  <2> QED BY <1>1, <1>3, <2>6, QuietStep
<1> QED BY <1>6, <1>8, <1>9


\* The handoff clears what was there and puts in the image.
LEMMA BootsTyped ==
    ASSUME NEW c \in CoreRecords, NEW l \in Launches
    PROVE  /\ Boots(c, l) \in CoreRecords /\ Boots(c, l).title = l
           /\ Boots(c, l).status = c.status /\ Boots(c, l).exec = c.exec
<1> DEFINE m == [c EXCEPT !.title = l]
           n == [m EXCEPT !.thread = 0]
<1>1. /\ m \in CoreRecords /\ m.title = l /\ m.status = c.status /\ m.exec = c.exec
  BY DEF CoreRecords
<1> HIDE DEF m
<1>2. /\ n \in CoreRecords /\ n.title = m.title /\ n.status = m.status /\ n.exec = m.exec
  BY <1>1 DEF CoreRecords
<1> HIDE DEF n
<1>3. Boots(c, l) = [n EXCEPT !.fibers = 0]
  BY DEF Boots, m, n
<1> QED BY <1>1, <1>2, <1>3 DEF CoreRecords

LEMMA HandoffFails ==
    ASSUME LaunchInv, NEW l \in Launches, PrepareFails(l) \/ TranslationFails(l)
    PROVE  LaunchInv'
<1>1. launch[l].at \in {"prepare", "hirPrepare", "hir", "fetch"}
  BY DEF PrepareFails, TranslationFails
<1>2. /\ RestoredMode(l) \in CoreRecords /\ RestoredMode(l).status = CoreOf(l).status
      /\ ~hurried => RestoredMode(l).exec = 1
      /\ launch[l].at \in Waiting /\ ~launch[l].driven
  BY <1>1, ModeComesBack
<1>3. Quiet
  BY NewRunTyped DEF Quiet, PrepareFails, TranslationFails
<1>4. PICK c \in {RestoredMode(l), Boots(RestoredMode(l), l)} : WithCore(l, c)
  BY DEF PrepareFails, TranslationFails
<1>5. c \in CoreRecords /\ c.status = CoreOf(l).status /\ (~hurried => c.exec = 1)
  BY <1>2, <1>4, BootsTyped
<1>6. core' = [core EXCEPT ![launch[l].core] = c]
  BY <1>4 DEF WithCore
<1>7. Ends(l, "failed") /\ "failed" \in EndedStates
  BY DEF PrepareFails, TranslationFails, EndedStates
<1>8. ~launch[l].driven \/ "failed" = "done"
  BY <1>2
<1>9. MovesTo(l, At(l, "failed"), c)
  BY <1>2, <1>5, <1>6, <1>7, <1>8, EndsMoves
<1> QED BY <1>2, <1>3, <1>9, QuietStep

LEMMA NoCoreIsZero == 0 \notin Cores
<1>1. Cores = 1 .. Cardinality(Cores) /\ Cardinality(Cores) \in Nat
  BY LaunchAssumption, FS_CardinalityType
<1> QED BY <1>1

\* The core that has trapped is not what is handed out next.
LEMMA TrapDiscards ==
    ASSUME LaunchInv, NEW l \in Launches, launch[l].core \in Cores, TrapReported(l)
    PROVE  singleton' \in Cores \cup {0} /\ TrapsFollow(l)
<1>1. singleton \in Cores \cup {0} /\ singleton \notin reported /\ reported \subseteq Cores
  BY DEF LaunchInv, LaunchTypeOK, ReportedIsDiscarded
<1>2. singleton' = AfterDiscard(launch[l].core) /\ reported' = reported \cup {launch[l].core}
  BY DEF TrapReported
<1>3. singleton' = 0 \/ (singleton' = singleton /\ singleton # launch[l].core)
  BY <1>2 DEF AfterDiscard
<1>4. singleton' \notin reported'
  BY <1>1, <1>2, <1>3, NoCoreIsZero
<1> QED BY <1>1, <1>2, <1>3, <1>4 DEF TrapsFollow

\* A title that runs on is one that ran.
LEMMA StoppedRun ==
    ASSUME LaunchInv, NEW ls, pumps' = Stopped(ls)
    PROVE  /\ pumps' \in [Launches -> [running : BOOLEAN, pumping : BOOLEAN]]
           /\ \A k \in Launches : /\ pumps'[k].pumping = pumps[k].pumping
                                  /\ pumps'[k].running => pumps[k].running /\ k \notin ls
<1>1. pumps \in [Launches -> [running : BOOLEAN, pumping : BOOLEAN]]
  BY DEF LaunchInv, LaunchTypeOK
<1>2. ASSUME NEW k \in Launches
      PROVE  /\ pumps'[k] \in [running : BOOLEAN, pumping : BOOLEAN]
             /\ pumps'[k].pumping = pumps[k].pumping
             /\ pumps'[k].running => pumps[k].running /\ k \notin ls
  <2> DEFINE b == pumps[k].running /\ k \notin ls
  <2>1. b \in BOOLEAN /\ (b => pumps[k].running /\ k \notin ls)
    OBVIOUS
  <2>2. pumps'[k] = [pumps[k] EXCEPT !.running = b]
    BY DEF Stopped
  <2> HIDE DEF b
  <2>3. pumps[k] \in [running : BOOLEAN, pumping : BOOLEAN]
    BY <1>1
  <2>4. /\ pumps'[k] \in [running : BOOLEAN, pumping : BOOLEAN]
        /\ pumps'[k].pumping = pumps[k].pumping /\ pumps'[k].running = b
    BY <2>1, <2>2, <2>3
  <2> QED BY <2>1, <2>4
<1>3. pumps' = [k \in Launches |-> pumps'[k]]
  BY DEF Stopped
<1> QED BY <1>2, <1>3

LEMMA TrapStep ==
    ASSUME LaunchInv, NEW l \in Launches, LaunchTraps(l)
    PROVE  LaunchInv'
<1>1. launch[l].at \in {"prepare", "hir", "pump"} /\ launch[l].at \in Waiting
  BY DEF LaunchTraps, Waiting
<1>2. /\ CoreOf(l) \in CoreRecords /\ launch[l].core \in Cores /\ ~launch[l].driven
      /\ ~hurried => (CoreOf(l).exec = 0 => launch[l].at = "prepare")
  BY <1>1, InProgressFacts
<1> DEFINE m == IF launch[l].at = "pump" THEN CoreOf(l) ELSE RestoredMode(l)
           c == [m EXCEPT !.fibers = 0]
<1>3. m \in CoreRecords /\ m.status = CoreOf(l).status /\ (~hurried => m.exec = 1)
  <2>1. CASE launch[l].at = "pump"
    <3>1. CoreOf(l).exec \in 0 .. 1
      BY <1>2 DEF CoreRecords
    <3> QED BY <2>1, <3>1, <1>2
  <2>2. CASE launch[l].at # "pump"
    <3>1. launch[l].at \in {"prepare", "hirPrepare", "hir", "fetch"}
      BY <2>2, <1>1
    <3> QED BY <2>2, <3>1, ModeComesBack
  <2> QED BY <2>1, <2>2
<1>4. core' = [core EXCEPT ![launch[l].core] = c]
  BY DEF LaunchTraps, WithCore
<1> HIDE DEF m
<1>5. c \in CoreRecords /\ c.status = CoreOf(l).status /\ (~hurried => c.exec = 1)
  BY <1>3 DEF CoreRecords
<1> HIDE DEF c
<1>6. Ends(l, "failed") /\ "failed" \in EndedStates
  BY DEF LaunchTraps, EndedStates
<1>7. ~launch[l].driven \/ "failed" = "done"
  BY <1>2
<1>8. MovesTo(l, At(l, "failed"), c)
  BY <1>1, <1>4, <1>5, <1>6, <1>7, EndsMoves
<1>9. singleton' \in Cores \cup {0} /\ TrapsFollow(l)
  BY <1>2, TrapDiscards DEF LaunchTraps
<1>10. /\ pumps' \in [Launches -> [running : BOOLEAN, pumping : BOOLEAN]]
       /\ PumpsFollow(l, At(l, "failed"), c)
       /\ bridge' \in [Bridges -> [run : Launches \cup {0}, scheduler : Launches \cup {0}]]
  <2>1. bridge \in [Bridges -> [run : Launches \cup {0}, scheduler : Launches \cup {0}]]
    BY DEF LaunchInv, LaunchTypeOK
  <2>2. CASE kind[l] = "content"
    <3>1. pumps' = Stopped({bridge["content"].scheduler})
      BY <2>2 DEF LaunchTraps, ActiveStopped
    <3>2. bridge' = [bridge EXCEPT !["content"].scheduler = 0]
      BY <2>2 DEF LaunchTraps
    <3>3. bridge' \in [Bridges -> [run : Launches \cup {0}, scheduler : Launches \cup {0}]]
      BY <2>1, <3>2 DEF Bridges
    <3>4. /\ pumps' \in [Launches -> [running : BOOLEAN, pumping : BOOLEAN]]
          /\ \A k \in Launches : /\ pumps'[k].pumping = pumps[k].pumping
                                 /\ pumps'[k].running => pumps[k].running
      BY <3>1, StoppedRun
    <3> QED BY <3>3, <3>4 DEF PumpsFollow
  <2>3. CASE kind[l] # "content"
    BY <2>1, <2>3 DEF LaunchTraps, PumpsFollow, LaunchInv, LaunchTypeOK
  <2> QED BY <2>2, <2>3
<1>11. SidesTyped
  <2>1. guestRun' \in Launches \cup {0} /\ aborted' \subseteq Launches /\ published' \in Launches \cup {0}
    BY DEF LaunchTraps, titleRunVars, LaunchInv, LaunchTypeOK
  <2> QED BY <2>1, <1>9, <1>10 DEF SidesTyped
<1> QED BY <1>1, <1>8, <1>9, <1>10, <1>11, LaunchMoves


LEMMA CompatibilityMoves ==
    ASSUME LaunchInv, NEW l \in Launches, launch[l].at \in {"prepare", "session"},
           NEW record \in CoreRecords, record.status = CoreOf(l).status,
           ~hurried => record.exec = 1, CompatibilityBegins(l, record)
    PROVE  \E r, c : MovesTo(l, r, c)
<1> DEFINE r == [launch[l] EXCEPT !.at = "hirPrepare", !.prev = record.exec]
           c == [record EXCEPT !.exec = 1]
<1>0. launch[l].at \in Waiting
  BY DEF Waiting
<1>1. launch[l] \in LaunchRecords /\ ~launch[l].driven
  BY <1>0, InProgressFacts
<1>2. record.exec \in 0 .. 1
  BY DEF CoreRecords
<1>3. /\ r \in LaunchRecords /\ r.core = launch[l].core /\ r.at = "hirPrepare"
      /\ r.prev = record.exec /\ r.driven = launch[l].driven
  BY <1>1, <1>2 DEF LaunchRecords, Waiting
<1>4. c \in CoreRecords /\ c.status = CoreOf(l).status /\ c.exec = 1
  BY DEF CoreRecords
<1>5. /\ launch' = [launch EXCEPT ![l] = r] /\ core' = [core EXCEPT ![launch[l].core] = c]
      /\ view' = view /\ kind' = kind /\ hurried' = hurried
  BY DEF CompatibilityBegins, WithCore, titleVars
<1> HIDE DEF r, c
<1>6. ~hurried => Fits(l, r, c)
  BY <1>3 DEF Fits
<1>7. view' = ViewAfter(l, r.at)
  BY <1>3, <1>5 DEF ViewAfter
<1>8. MovesTo(l, r, c)
  BY <1>1, <1>3, <1>4, <1>5, <1>6, <1>7 DEF MovesTo
<1> QED BY <1>8

LEMMA TranslatedStep ==
    ASSUME LaunchInv, NEW l \in Launches, ContentTranslated(l) \/ IsoTranslated(l)
    PROVE  LaunchInv'
<1> DEFINE c == Boots(RestoredMode(l), l)
<1>1. launch[l].at = "prepare"
  BY DEF ContentTranslated, IsoTranslated, Translated
<1>2. /\ RestoredMode(l) \in CoreRecords /\ RestoredMode(l).status = CoreOf(l).status
      /\ ~hurried => RestoredMode(l).exec = 1
      /\ launch[l].at \in Waiting /\ ~launch[l].driven
  BY <1>1, ModeComesBack
<1>3. c \in CoreRecords /\ c.title = l /\ c.status = CoreOf(l).status /\ (~hurried => c.exec = 1)
  BY <1>2, BootsTyped
<1>4. Quiet
  BY NewRunTyped DEF Quiet, ContentTranslated, IsoTranslated, Translated
<1>5. launch[l] \in LaunchRecords
  BY <1>2, InProgressFacts
<1>6. "session" \in Waiting
  BY DEF Waiting
<1>7. Fits(l, At(l, "session"), c)
  BY <1>3, <1>5 DEF Fits, At, LaunchRecords
<1>8. CASE ContentTranslated(l)
  <2>1. core' = [core EXCEPT ![launch[l].core] = c] /\ Continues(l, "session")
    BY <1>8 DEF ContentTranslated, WithCore
  <2>2. ~hurried => Fits(l, At(l, "session"), c) /\ c.exec = 1
    BY <1>3, <1>7
  <2> HIDE DEF c
  <2>3. PICK r : MovesTo(l, r, c)
    BY <1>2, <1>3, <1>6, <2>1, <2>2, ContinuesMoves
  <2> QED BY <1>2, <1>4, <2>3, QuietStep
<1>9. CASE WithCore(l, c) /\ Goes(l, "session")
  <2>1. core' = [core EXCEPT ![launch[l].core] = c]
    BY <1>9 DEF WithCore
  <2>2. "session" \in Waiting \cup EndedStates /\ "session" # "failed"
    BY <1>6
  <2>3. ~hurried => Fits(l, At(l, "session"), c) /\ (c.exec = 0 => "session" = "prepare")
    BY <1>3, <1>7
  <2>4. launch[l].driven => "session" \in {"inspect", "done"}
    BY <1>2
  <2> HIDE DEF c
  <2>5. MovesTo(l, At(l, "session"), c)
    BY <1>2, <1>3, <1>9, <2>1, <2>2, <2>3, <2>4, GoesMoves
  <2> QED BY <1>2, <1>4, <2>5, QuietStep
<1>10. CASE CompatibilityBegins(l, c)
  <2> HIDE DEF c
  <2>1. PICK r, d : MovesTo(l, r, d)
    BY <1>1, <1>3, <1>10, CompatibilityMoves
  <2> QED BY <1>2, <1>4, <2>1, QuietStep
<1> QED BY <1>8, <1>9, <1>10 DEF IsoTranslated

LEMMA SessionStep ==
    ASSUME LaunchInv, NEW l \in Launches,
           ContentAttach(l) \/ IsoAttach(l) \/ ContentCompatibility(l)
    PROVE  LaunchInv'
<1>1. launch[l].at = "session" /\ launch[l].at \in Waiting
  BY DEF ContentAttach, IsoAttach, ContentCompatibility, Waiting
<1>2. /\ launch[l] \in LaunchRecords /\ CoreOf(l) \in CoreRecords /\ ~launch[l].driven
      /\ ~hurried => Fits(l, launch[l], CoreOf(l)) /\ CoreOf(l).exec # 0
  BY <1>1, InProgressFacts
<1>3. CoreOf(l).exec \in 0 .. 1 /\ (~hurried => CoreOf(l).title = l)
  BY <1>1, <1>2 DEF CoreRecords, Fits
<1>4. Quiet
  BY NewRunTyped DEF Quiet, ContentAttach, IsoAttach, ContentCompatibility
<1>5. CASE ContentAttach(l) \/ IsoAttach(l)
  <2> DEFINE m == [CoreOf(l) EXCEPT !.thread = l]
             c == [m EXCEPT !.fibers = 0]
  <2>1. m \in CoreRecords /\ m.thread = l /\ m.title = CoreOf(l).title /\ m.exec = CoreOf(l).exec
        /\ m.status = CoreOf(l).status
    BY <1>2 DEF CoreRecords
  <2> HIDE DEF m
  <2>2. c \in CoreRecords /\ c.thread = m.thread /\ c.title = m.title /\ c.exec = m.exec
        /\ c.status = m.status
    BY <2>1 DEF CoreRecords
  <2>3. c = Attached(l)
    BY DEF m, Attached
  <2>4. core' = [core EXCEPT ![launch[l].core] = c] /\ Goes(l, "pump")
    BY <1>5, <2>3 DEF ContentAttach, IsoAttach, WithCore
  <2> HIDE DEF c
  <2>5. ~hurried => Fits(l, At(l, "pump"), c)
    BY <1>2, <1>3, <2>1, <2>2 DEF Fits, At, LaunchRecords
  <2>6. ~hurried => Fits(l, At(l, "pump"), c) /\ (c.exec = 0 => "pump" = "prepare")
    BY <1>2, <2>1, <2>2, <2>5
  <2>7. "pump" \in Waiting \cup EndedStates /\ "pump" # "failed"
    BY DEF Waiting
  <2>8. launch[l].driven => "pump" \in {"inspect", "done"}
    BY <1>2
  <2>9. c.status = CoreOf(l).status
    BY <2>1, <2>2
  <2>10. MovesTo(l, At(l, "pump"), c)
    BY <1>1, <2>2, <2>4, <2>6, <2>7, <2>8, <2>9, GoesMoves
  <2> QED BY <1>1, <1>4, <2>10, QuietStep
<1>6. CASE ContentCompatibility(l)
  <2> DEFINE m == [CoreOf(l) EXCEPT !.thread = 0]
  <2>1. m \in CoreRecords /\ m.exec = CoreOf(l).exec /\ m.status = CoreOf(l).status
    BY <1>2 DEF CoreRecords
  <2>2. CompatibilityBegins(l, m)
    BY <1>6 DEF ContentCompatibility
  <2> HIDE DEF m
  <2>3. ~hurried => m.exec = 1
    BY <1>2, <1>3, <2>1
  <2>4. PICK r, d : MovesTo(l, r, d)
    BY <1>1, <2>1, <2>2, <2>3, CompatibilityMoves
  <2> QED BY <1>1, <1>4, <2>4, QuietStep
<1> QED BY <1>5, <1>6


LEMMA PumpedStep ==
    ASSUME LaunchInv, NEW l \in Launches,
           FirstPump(l) \/ ContentPumpFails(l) \/ IsoPumpFails(l)
    PROVE  LaunchInv'
<1>1. launch[l].at = "pump" /\ launch[l].at \in Waiting
  BY DEF FirstPump, ContentPumpFails, IsoPumpFails, Waiting
<1>2. UNCHANGED core /\ Quiet
  BY NewRunTyped DEF Quiet, FirstPump, ContentPumpFails, IsoPumpFails
<1>3. /\ CoreOf(l) \in CoreRecords /\ core' = [core EXCEPT ![launch[l].core] = CoreOf(l)]
      /\ ~hurried => CoreOf(l).exec = 1
  BY <1>1, <1>2, CoreIsKept
<1>4. /\ launch[l] \in LaunchRecords /\ ~launch[l].driven
      /\ ~hurried => Fits(l, launch[l], CoreOf(l))
  BY <1>1, InProgressFacts
<1>5. ASSUME NEW to \in EndedStates, Ends(l, to)
      PROVE  LaunchInv'
  <2>1. ~launch[l].driven \/ to = "done"
    BY <1>4
  <2>2. MovesTo(l, At(l, to), CoreOf(l))
    BY <1>1, <1>3, <1>5, <2>1, EndsMoves
  <2> QED BY <1>1, <1>2, <2>2, QuietStep
<1>6. ASSUME UNCHANGED titleVars, NEW r \in LaunchRecords, r.at = "inspect",
             r.core = launch[l].core, launch' = [launch EXCEPT ![l] = r]
      PROVE  LaunchInv'
  <2>1. view' = ViewAfter(l, r.at) /\ kind' = kind /\ hurried' = hurried
    BY <1>6 DEF titleVars, ViewAfter
  <2>2. ~hurried => Fits(l, r, CoreOf(l))
    BY <1>1, <1>4, <1>6 DEF Fits
  <2>3. MovesTo(l, r, CoreOf(l))
    BY <1>3, <1>6, <2>1, <2>2 DEF MovesTo
  <2> QED BY <1>1, <1>2, <2>3, QuietStep
<1>7. CASE Ends(l, "returned") \/ Ends(l, "failed")
  BY <1>5, <1>7 DEF EndedStates
<1>8. CASE launch' = [launch EXCEPT ![l].at = "inspect", ![l].driven = TRUE] /\ UNCHANGED titleVars
  <2> DEFINE r == [launch[l] EXCEPT !.at = "inspect", !.driven = TRUE]
  <2>1. r \in LaunchRecords /\ r.at = "inspect" /\ r.core = launch[l].core
    BY <1>4 DEF LaunchRecords, Waiting
  <2>2. launch' = [launch EXCEPT ![l] = r]
    BY <1>8
  <2> QED BY <1>6, <1>8, <2>1, <2>2
<1>9. CASE launch' = [launch EXCEPT ![l].at = "inspect", ![l].blocked = TRUE] /\ UNCHANGED titleVars
  <2> DEFINE r == [launch[l] EXCEPT !.at = "inspect", !.blocked = TRUE]
  <2>1. r \in LaunchRecords /\ r.at = "inspect" /\ r.core = launch[l].core
    BY <1>4 DEF LaunchRecords, Waiting
  <2>2. launch' = [launch EXCEPT ![l] = r]
    BY <1>9
  <2> QED BY <1>6, <1>9, <2>1, <2>2
<1> QED BY <1>7, <1>8, <1>9 DEF FirstPump, ContentPumpFails, IsoPumpFails

LEMMA HirBeginsStep ==
    ASSUME LaunchInv, NEW l \in Launches, HirBegins(l)
    PROVE  LaunchInv'
<1>1. launch[l].at = "hirPrepare" /\ launch[l].at \in Waiting
  BY DEF HirBegins, Waiting
<1>2. /\ launch[l] \in LaunchRecords /\ CoreOf(l) \in CoreRecords /\ ~launch[l].driven
      /\ ~hurried => Fits(l, launch[l], CoreOf(l)) /\ CoreOf(l).exec # 0
  BY <1>1, InProgressFacts
<1> DEFINE b == Boots(CoreOf(l), l)
           m == [b EXCEPT !.thread = l]
           c == [m EXCEPT !.fibers = l]
<1>3. b \in CoreRecords /\ b.status = CoreOf(l).status /\ b.exec = CoreOf(l).exec
  BY <1>2, BootsTyped
<1>4. Goes(l, "hir") /\ core' = [core EXCEPT ![launch[l].core] = c]
  BY DEF HirBegins, WithCore
<1> HIDE DEF b
<1>5. m \in CoreRecords /\ m.status = b.status /\ m.exec = b.exec
  BY <1>3 DEF CoreRecords
<1> HIDE DEF m
<1>6. c \in CoreRecords /\ c.status = m.status /\ c.exec = m.exec
  BY <1>5 DEF CoreRecords
<1> HIDE DEF c
<1>7. ~hurried => Fits(l, At(l, "hir"), c)
  BY <1>1, <1>2 DEF Fits, At, LaunchRecords
<1>8. /\ ~hurried => Fits(l, At(l, "hir"), c) /\ (c.exec = 0 => "hir" = "prepare")
      /\ c.status = CoreOf(l).status
  BY <1>2, <1>3, <1>5, <1>6, <1>7
<1>9. "hir" \in Waiting \cup EndedStates /\ "hir" # "failed"
  BY DEF Waiting
<1>10. launch[l].driven => "hir" \in {"inspect", "done"}
  BY <1>2
<1>11. MovesTo(l, At(l, "hir"), c)
  BY <1>1, <1>4, <1>6, <1>8, <1>9, <1>10, GoesMoves
<1>12. Quiet
  BY NewRunTyped DEF Quiet, HirBegins
<1> QED BY <1>1, <1>11, <1>12, QuietStep

LEMMA HirOverStep ==
    ASSUME LaunchInv, NEW l \in Launches, HirEnds(l) \/ HirLost(l)
    PROVE  LaunchInv'
<1>1. launch[l].at = "hir"
  BY DEF HirEnds, HirLost
<1>2. /\ RestoredMode(l) \in CoreRecords /\ RestoredMode(l).status = CoreOf(l).status
      /\ ~hurried => RestoredMode(l).exec = 1
      /\ launch[l].at \in Waiting /\ ~launch[l].driven
  BY <1>1, ModeComesBack
<1> DEFINE m == RestoredMode(l)
           c == [m EXCEPT !.fibers = 0]
<1>3. core' = [core EXCEPT ![launch[l].core] = c] /\ Quiet
  BY NewRunTyped DEF HirEnds, HirLost, WithCore, Quiet
<1>4. m \in CoreRecords /\ m.status = CoreOf(l).status /\ (~hurried => m.exec = 1)
  BY <1>2
<1> HIDE DEF m
<1>5. c \in CoreRecords /\ c.status = CoreOf(l).status /\ (~hurried => c.exec = 1)
  BY <1>4 DEF CoreRecords
<1> HIDE DEF c
<1>6. CASE HirEnds(l)
  <2>1. Continues(l, "inspect") /\ "inspect" \in Waiting
    BY <1>6 DEF HirEnds, Waiting
  <2>2. launch[l] \in LaunchRecords
    BY <1>2, InProgressFacts
  <2>3. Fits(l, At(l, "inspect"), c)
    BY <1>2, <2>2 DEF Fits, At, LaunchRecords
  <2>4. ~hurried => Fits(l, At(l, "inspect"), c) /\ c.exec = 1
    BY <1>5, <2>3
  <2>5. PICK r : MovesTo(l, r, c)
    BY <1>2, <1>3, <1>5, <2>1, <2>4, ContinuesMoves
  <2> QED BY <1>2, <1>3, <2>5, QuietStep
<1>7. CASE HirLost(l)
  <2>1. Ends(l, "failed") /\ "failed" \in EndedStates
    BY <1>7 DEF HirLost, EndedStates
  <2>2. ~launch[l].driven \/ "failed" = "done"
    BY <1>2
  <2>3. MovesTo(l, At(l, "failed"), c)
    BY <1>2, <1>3, <1>5, <2>1, <2>2, EndsMoves
  <2> QED BY <1>2, <1>3, <2>3, QuietStep
<1> QED BY <1>6, <1>7

LEMMA FetchStep ==
    ASSUME LaunchInv, NEW l \in Launches, FileWanted(l) \/ FileFetched(l)
    PROVE  LaunchInv'
<1>1. launch[l].at \in {"hir", "fetch"} /\ launch[l].at \in Waiting
  BY DEF FileWanted, FileFetched, Waiting
<1>2. /\ launch[l] \in LaunchRecords /\ CoreOf(l) \in CoreRecords /\ ~launch[l].driven
      /\ ~hurried => Fits(l, launch[l], CoreOf(l)) /\ CoreOf(l).exec # 0
  BY <1>1, InProgressFacts
<1>3. ~hurried => launch[l].prev = 1
  BY <1>1, <1>2 DEF Fits
<1>4. Quiet
  BY NewRunTyped DEF Quiet, FileWanted, FileFetched
<1>5. CASE FileWanted(l)
  <2> DEFINE c == [CoreOf(l) EXCEPT !.fibers = 0]
             r == [launch[l] EXCEPT !.at = "fetch", !.fetches = launch[l].fetches + 1]
  <2>1. c \in CoreRecords /\ c.status = CoreOf(l).status /\ c.exec = CoreOf(l).exec
    BY <1>2 DEF CoreRecords
  <2>2. /\ launch' = [launch EXCEPT ![l] = r] /\ core' = [core EXCEPT ![launch[l].core] = c]
        /\ view' = view /\ kind' = kind /\ hurried' = hurried
    BY <1>5 DEF FileWanted, WithCore, titleVars
  <2>3. launch[l].fetches + 1 \in 0 .. MaxFetches
    BY <1>2, <1>5, LaunchAssumption DEF FileWanted, MayFetch, LaunchRecords
  <2>4. /\ r \in LaunchRecords /\ r.core = launch[l].core /\ r.at = "fetch"
        /\ r.prev = launch[l].prev /\ r.driven = launch[l].driven
    BY <1>2, <2>3 DEF LaunchRecords, Waiting
  <2> HIDE DEF r, c
  <2>5. ~hurried => Fits(l, r, c)
    BY <1>3, <2>4 DEF Fits
  <2>6. view' = ViewAfter(l, r.at)
    BY <2>2, <2>4 DEF ViewAfter
  <2>7. MovesTo(l, r, c)
    BY <1>2, <2>1, <2>2, <2>4, <2>5, <2>6 DEF MovesTo
  <2> QED BY <1>1, <1>4, <2>7, QuietStep
<1>6. CASE FileFetched(l)
  <2>1. Goes(l, "hirPrepare") /\ UNCHANGED core
    BY <1>6 DEF FileFetched
  <2>2. core' = [core EXCEPT ![launch[l].core] = CoreOf(l)]
    BY <2>1, CoreStays
  <2>3. ~hurried => Fits(l, At(l, "hirPrepare"), CoreOf(l))
    BY <1>2, <1>3 DEF Fits, At, LaunchRecords
  <2>4. ~hurried => /\ Fits(l, At(l, "hirPrepare"), CoreOf(l))
                    /\ CoreOf(l).exec = 0 => "hirPrepare" = "prepare"
    BY <1>2, <2>3
  <2>5. "hirPrepare" \in Waiting \cup EndedStates /\ "hirPrepare" # "failed"
    BY DEF Waiting
  <2>6. launch[l].driven => "hirPrepare" \in {"inspect", "done"}
    BY <1>2
  <2>7. MovesTo(l, At(l, "hirPrepare"), CoreOf(l))
    BY <1>1, <1>2, <2>1, <2>2, <2>4, <2>5, <2>6, GoesMoves
  <2> QED BY <1>1, <1>4, <2>7, QuietStep
<1> QED BY <1>5, <1>6

LEMMA PublishStep ==
    ASSUME LaunchInv, NEW l \in Launches, ContentDrives(l) \/ IsoDrives(l)
    PROVE  LaunchInv'
<1>1. launch[l].at = "inspect" /\ launch[l].at \in Waiting /\ launch[l].at # "prepare"
  BY DEF ContentDrives, IsoDrives, Waiting
<1>2. PICK drives \in BOOLEAN : Publishes(l, drives) /\ (drives => launch[l].driven)
  <2>1. launch[l].driven \in BOOLEAN /\ launch[l].blocked \in BOOLEAN
    BY <1>1, InProgressFacts DEF LaunchRecords
  <2> QED BY <2>1 DEF ContentDrives, IsoDrives
<1>3. UNCHANGED <<core, singleton, reported>> /\ UNCHANGED titleRunVars
  BY DEF ContentDrives, IsoDrives
<1>4. /\ CoreOf(l) \in CoreRecords /\ core' = [core EXCEPT ![launch[l].core] = CoreOf(l)]
      /\ ~hurried => CoreOf(l).exec = 1
  BY <1>1, <1>3, CoreIsKept
<1>5. /\ launch[l] \in LaunchRecords /\ kind[l] \in Bridges
      /\ ~hurried => Fits(l, launch[l], CoreOf(l))
  BY <1>1, InProgressFacts
<1>6. Ends(l, "done") /\ published' = l /\ "done" \in EndedStates
  BY <1>2 DEF Publishes, EndedStates
<1>7. MovesTo(l, At(l, "done"), CoreOf(l))
  BY <1>1, <1>4, <1>6, EndsMoves
<1>8. /\ pumps \in [Launches -> [running : BOOLEAN, pumping : BOOLEAN]]
      /\ bridge \in [Bridges -> [run : Launches \cup {0}, scheduler : Launches \cup {0}]]
  BY DEF LaunchInv, LaunchTypeOK
<1>9. /\ pumps' \in [Launches -> [running : BOOLEAN, pumping : BOOLEAN]]
      /\ bridge' \in [Bridges -> [run : Launches \cup {0}, scheduler : Launches \cup {0}]]
  <2>1. CASE drives
    <3>1. /\ bridge' = [bridge EXCEPT ![kind[l]].scheduler = l]
          /\ pumps' = [pumps EXCEPT ![l].running = TRUE]
      BY <1>2, <2>1 DEF Publishes
    <3> QED BY <1>5, <1>8, <3>1
  <2>2. CASE ~drives
    BY <1>2, <1>8, <2>2 DEF Publishes
  <2> QED BY <2>1, <2>2
<1>10. PumpsFollow(l, At(l, "done"), CoreOf(l))
  <2>1. At(l, "done").at = "done"
    BY <1>5 DEF At, LaunchRecords
  <2>2. ASSUME NEW k \in Launches
        PROVE  /\ pumps'[k].pumping = pumps[k].pumping
               /\ pumps'[k].running => pumps[k].running \/ (k = l /\ drives)
    BY <1>2, <1>8 DEF Publishes
  <2>3. drives /\ ~hurried => CoreOf(l).title = l /\ CoreOf(l).thread = l
    BY <1>1, <1>2, <1>5 DEF Fits
  <2> QED BY <1>6, <2>1, <2>2, <2>3 DEF PumpsFollow
<1>11. SidesTyped /\ TrapsFollow(l)
  BY <1>3, <1>6, <1>9 DEF SidesTyped, TrapsFollow, titleRunVars, LaunchInv, LaunchTypeOK, ReportedIsDiscarded
<1> QED BY <1>1, <1>7, <1>10, <1>11, LaunchMoves


-----------------------------------------------------------------------------
(* The player, the core and the pumps                                        *)

LEMMA PlayStep ==
    ASSUME LaunchInv, NEW l \in Launches, StartLaunch(l)
    PROVE  LaunchInv'
<1>0. /\ launch \in [Launches -> LaunchRecords] /\ core \in [Cores -> CoreRecords]
      /\ kind \in [Launches -> Bridges] /\ LaunchTypeOK /\ CoresInv
      /\ singleton \in Cores \cup {0} /\ singleton \notin reported /\ reported \subseteq Cores
  BY DEF LaunchInv, LaunchTypeOK, LaunchRecords, CoreRecords, ReportedIsDiscarded
<1>1. PICK c \in CoreAfterCall :
          /\ launch' = [launch EXCEPT ![l].at = "boot", ![l].core = c]
          /\ singleton' = c
          /\ core' = [core EXCEPT ![c].status = IF @ = "none" THEN "loading" ELSE @]
  BY DEF StartLaunch
<1>2. c \in Cores /\ c \notin reported
  <2>1. CASE singleton # 0
    BY <1>0, <2>1 DEF CoreAfterCall
  <2>2. CASE singleton = 0
    <3>1. c \in Cores /\ core[c].status = "none"
      BY <2>2 DEF CoreAfterCall
    <3> QED BY <1>0, <3>1 DEF CoresInv
  <2> QED BY <2>1, <2>2
<1> DEFINE r == [launch[l] EXCEPT !.at = "boot", !.core = c]
           s == IF core[c].status = "none" THEN "loading" ELSE core[c].status
           d == [core[c] EXCEPT !.status = s]
<1>3. r \in LaunchRecords /\ r.at = "boot" /\ r.core = c /\ r.driven = launch[l].driven
  BY <1>0, <1>2 DEF LaunchRecords, Waiting
<1>4. s \in {"loading", "ready", "failed"}
  BY <1>0, <1>2 DEF CoreRecords
<1>5. d = [core[c] EXCEPT !.status = s] /\ launch' = [launch EXCEPT ![l] = r]
  BY <1>0, <1>1
<1>6. core' = [core EXCEPT ![c] = d]
  BY <1>0, <1>1
<1> HIDE DEF r, s, d
<1>7. d \in CoreRecords /\ d.status # "none" /\ d.exec = core[c].exec
  BY <1>0, <1>2, <1>4, <1>5 DEF CoreRecords
<1>8. /\ launch' \in [Launches -> LaunchRecords] /\ core' \in [Cores -> CoreRecords]
      /\ launch'[l] = r /\ \A k \in Launches \ {l} : launch'[k] = launch[k]
      /\ core'[c] = d /\ \A e \in Cores \ {c} : core'[e] = core[e]
  BY <1>0, <1>2, <1>3, <1>5, <1>6, <1>7
<1>9. launch[l].at = "idle" /\ ~launch[l].driven
  BY <1>0 DEF StartLaunch, CoresInv
<1>10. /\ view = "details" /\ view' = "game" /\ kind' = kind
       /\ guestRun' = guestRun /\ aborted' = aborted /\ published' = published /\ reported' = reported
       /\ hurried' = (hurried \/ \E k \in Launches : pumps[k].pumping)
       /\ bridge' = [bridge EXCEPT ![kind[l]] = [run |-> l, scheduler |-> 0]]
       /\ pumps' = Stopped({bridge[kind[l]].scheduler})
  BY DEF StartLaunch, titleRunVars, ActiveStopped
<1>11. /\ pumps' \in [Launches -> [running : BOOLEAN, pumping : BOOLEAN]]
       /\ \A k \in Launches : /\ pumps'[k].pumping = pumps[k].pumping
                              /\ pumps'[k].running => pumps[k].running
  BY <1>10, StoppedRun
<1>12. LaunchTypeOK'
  <2>1. bridge' \in [Bridges -> [run : Launches \cup {0}, scheduler : Launches \cup {0}]]
    BY <1>0, <1>10 DEF LaunchTypeOK
  <2>2. hurried' \in BOOLEAN
    BY <1>0, <1>10 DEF LaunchTypeOK
  <2>3. singleton' \in Cores \cup {0}
    BY <1>1, <1>2
  <2> QED BY <1>0, <1>8, <1>10, <1>11, <2>1, <2>2, <2>3 DEF LaunchTypeOK, LaunchRecords, CoreRecords
<1>13. CoresInv'
  <2>0. \A e \in Cores : core[e].status # "none" => core'[e].status # "none"
    BY <1>7, <1>8
  <2>1. \A k \in Launches : launch'[k].at # "idle" =>
            launch'[k].core \in Cores /\ core'[launch'[k].core].status # "none"
    BY <2>0, <1>0, <1>2, <1>3, <1>7, <1>8 DEF CoresInv
  <2>2. \A k \in Launches : launch'[k].driven => launch'[k].at \in {"inspect", "done"}
    BY <1>0, <1>3, <1>8, <1>9 DEF CoresInv
  <2>3. \A k \in Launches : pumps'[k].running \/ pumps'[k].pumping => launch'[k].at = "done"
    BY <1>0, <1>8, <1>9, <1>11 DEF CoresInv
  <2>4. \A e \in reported' : core'[e].status # "none"
    BY <2>0, <1>0, <1>10 DEF CoresInv
  <2> QED BY <2>1, <2>2, <2>3, <2>4 DEF CoresInv
<1>14. ASSUME ~hurried'
       PROVE  CalmInv'
  <2>0. ~hurried /\ \A k \in Launches : ~pumps[k].pumping
    BY <1>10, <1>14
  <2>1. CalmInv
    BY <2>0 DEF LaunchInv
  <2>2. InProgress = {}
    BY <2>1, <1>10 DEF CalmInv
  <2>3. \A k \in Launches : ~pumps[k].running
    BY <2>1, <1>10 DEF CalmInv
  <2>4. InProgress' = {l}
    BY <2>2, <1>3, <1>8 DEF InProgress, Waiting
  <2>5. Fits(l, launch'[l], CoreOf(l)')
    BY <1>3, <1>8 DEF Fits
  <2>6. \A e \in Cores : core'[e].exec = core[e].exec
    BY <1>7, <1>8
  <2>7. \A e \in Cores : core'[e].exec # 0
    <3>1. \A k \in Launches : launch[k].at # "prepare"
      BY <2>2 DEF InProgress, Waiting
    <3> QED BY <2>1, <2>6, <3>1 DEF CalmInv
  <2> QED BY <2>0, <2>3, <2>4, <2>5, <2>7, <1>10, <1>11 DEF CalmInv
<1> QED BY <1>1, <1>2, <1>10, <1>12, <1>13, <1>14 DEF LaunchInv, ReportedIsDiscarded

LEMMA LeaveStep ==
    ASSUME LaunchInv, Leave
    PROVE  LaunchInv'
<1>1. /\ view' = "details" /\ hurried' = (hurried \/ InProgress # {})
      /\ aborted' = aborted \cup ({guestRun} \ {0}) /\ pumps' = Stopped({published})
      /\ UNCHANGED <<kind, launch, bridge, core, singleton, guestRun, published, reported>>
  BY DEF Leave, LeftLoops
<1>2. /\ pumps' \in [Launches -> [running : BOOLEAN, pumping : BOOLEAN]]
      /\ \A k \in Launches : /\ pumps'[k].pumping = pumps[k].pumping
                             /\ pumps'[k].running => pumps[k].running /\ k # published
  BY <1>1, StoppedRun
<1>3. LaunchTypeOK'
  BY <1>1, <1>2 DEF LaunchInv, LaunchTypeOK
<1>4. CoresInv'
  BY <1>1, <1>2 DEF LaunchInv, CoresInv
<1>5. ASSUME ~hurried'
      PROVE  CalmInv'
  <2>1. ~hurried /\ CalmInv /\ InProgress = {} /\ InProgress' = {}
    BY <1>1, <1>5 DEF LaunchInv, InProgress
  <2>2. \A k \in Launches : ~pumps'[k].running
    BY <2>1, <1>2 DEF CalmInv
  <2> QED BY <2>1, <2>2, <1>1, <1>2, ZenonT(60) DEF CalmInv
<1> QED BY <1>1, <1>3, <1>4, <1>5 DEF LaunchInv, ReportedIsDiscarded

LEMMA LoadStep ==
    ASSUME LaunchInv, NEW c \in Cores, LoadEnds(c)
    PROVE  LaunchInv'
<1>0. core \in [Cores -> CoreRecords]
  BY DEF LaunchInv, LaunchTypeOK, CoreRecords
<1>1. PICK s \in {"ready", "failed"} : core' = [core EXCEPT ![c].status = s]
  BY DEF LoadEnds
<1>2. /\ singleton' \in {singleton, 0}
      /\ UNCHANGED <<titleVars, launch, bridge, pumps, titleRunVars, published, reported>>
  BY DEF LoadEnds
<1> DEFINE d == [core[c] EXCEPT !.status = s]
<1>3. d \in CoreRecords /\ d.status = s /\ d.exec = core[c].exec
      /\ d.title = core[c].title /\ d.thread = core[c].thread
  BY <1>0 DEF CoreRecords
<1>4. core' = [core EXCEPT ![c] = d]
  BY <1>0, <1>1
<1> HIDE DEF d
<1>5. /\ core' \in [Cores -> CoreRecords]
      /\ \A e \in Cores : /\ core[e].status # "none" => core'[e].status # "none"
                          /\ core'[e].exec = core[e].exec
                          /\ core'[e].title = core[e].title /\ core'[e].thread = core[e].thread
  BY <1>0, <1>3, <1>4
<1>6. LaunchTypeOK'
  BY <1>2, <1>5 DEF LaunchInv, LaunchTypeOK, CoreRecords, titleVars, titleRunVars
<1>7. CoresInv'
  BY <1>2, <1>5 DEF LaunchInv, CoresInv, LaunchTypeOK
<1>8. ReportedIsDiscarded'
  BY <1>2, NoCoreIsZero DEF LaunchInv, ReportedIsDiscarded, LaunchTypeOK
<1>9. ASSUME ~hurried'
      PROVE  CalmInv'
  <2>0. /\ UNCHANGED <<kind, view, hurried, launch, pumps, published>> /\ InProgress' = InProgress
    BY <1>2 DEF titleVars, InProgress
  <2>1. CalmInv
    BY <2>0, <1>9 DEF LaunchInv
  <2>2. \A l \in Launches : launch[l].at # "idle" =>
            /\ launch[l].core \in Cores
            /\ CoreOf(l)'.title = CoreOf(l).title /\ CoreOf(l)'.thread = CoreOf(l).thread
    BY <2>0, <1>5 DEF LaunchInv, CoresInv, CoreOf
  <2>3. \A l \in InProgress : Fits(l, launch[l], CoreOf(l))'
    <3> SUFFICES ASSUME NEW l \in InProgress PROVE Fits(l, launch'[l], CoreOf(l)')
      BY <2>0
    <3>1. l \in Launches /\ launch[l].at # "idle" /\ Fits(l, launch[l], CoreOf(l))
      BY <2>1 DEF InProgress, Waiting, CalmInv
    <3> QED BY <2>0, <2>2, <3>1 DEF Fits
  <2>4. \A l \in Launches : pumps[l].running => launch[l].at # "idle"
    BY DEF LaunchInv, CoresInv
  <2> QED BY <2>0, <2>1, <2>2, <2>3, <2>4, <1>5 DEF CalmInv
<1> QED BY <1>6, <1>7, <1>8, <1>9 DEF LaunchInv

\* A pump begins, or ends for one title, which is then published or not.
LEMMA PumpStepKeeps ==
    ASSUME LaunchInv, NEW l \in Launches, PumpStep(l)
    PROVE  LaunchInv'
<1>0. /\ pumps \in [Launches -> [running : BOOLEAN, pumping : BOOLEAN]]
      /\ published \in Launches \cup {0} /\ reported \subseteq Cores /\ singleton \notin reported
      /\ singleton \in Cores \cup {0} /\ LaunchTypeOK /\ CoresInv
  BY DEF LaunchInv, LaunchTypeOK, ReportedIsDiscarded
<1>1. /\ UNCHANGED <<titleVars, launch, bridge, core, titleRunVars>>
      /\ published' \in {published, l}
      /\ pumps[l].running \/ pumps[l].pumping
  BY DEF PumpStep, PumpBegins, TitlePumpEnds, PumpStops, ContentPumpTraps, IsoPumpTraps
<1>2. launch[l].at = "done" /\ launch[l].core \in Cores /\ core[launch[l].core].status # "none"
  BY <1>0, <1>1 DEF CoresInv
<1>3. PICK d \in [running : BOOLEAN, pumping : BOOLEAN] :
          pumps' = [pumps EXCEPT ![l] = d] /\ (d.running => pumps[l].running)
  <2>1. CASE PumpBegins(l)
    <3> DEFINE d == [pumps[l] EXCEPT !.pumping = TRUE]
    <3>1. d \in [running : BOOLEAN, pumping : BOOLEAN] /\ pumps[l].running
      BY <2>1, <1>0 DEF PumpBegins
    <3>2. pumps' = [pumps EXCEPT ![l] = d]
      BY <2>1 DEF PumpBegins
    <3> HIDE DEF d
    <3> QED BY <3>1, <3>2
  <2>2. CASE TitlePumpEnds(l)
    <3> DEFINE q == pumps[l].running /\ RunsOn(l)
               d == [running |-> q, pumping |-> FALSE]
    <3>1. pumps' = [pumps EXCEPT ![l] = d]
      BY <2>2, <1>0 DEF TitlePumpEnds
    <3>2. q \in BOOLEAN /\ (q => pumps[l].running)
      OBVIOUS
    <3> HIDE DEF q
    <3>3. d \in [running : BOOLEAN, pumping : BOOLEAN] /\ d.running = q
      BY <3>2
    <3> HIDE DEF d
    <3> QED BY <3>1, <3>2, <3>3
  <2>3. CASE ~PumpBegins(l) /\ ~TitlePumpEnds(l)
    <3> DEFINE d == [running |-> FALSE, pumping |-> FALSE]
    <3>1. pumps' = [pumps EXCEPT ![l] = d]
      BY <2>3 DEF PumpStep, PumpStops, ContentPumpTraps, IsoPumpTraps
    <3>2. d \in [running : BOOLEAN, pumping : BOOLEAN] /\ ~d.running
      OBVIOUS
    <3> HIDE DEF d
    <3> QED BY <3>1, <3>2
  <2> QED BY <2>1, <2>2, <2>3
<1>4. /\ pumps' \in [Launches -> [running : BOOLEAN, pumping : BOOLEAN]]
      /\ \A k \in Launches : pumps'[k].running => pumps[k].running
      /\ \A k \in Launches \ {l} : pumps'[k] = pumps[k]
  BY <1>0, <1>3
<1>5. singleton' \in Cores \cup {0} /\ TrapsFollow(l)
  <2>1. CASE ContentPumpTraps(l)
    BY <2>1, <1>2, TrapDiscards DEF ContentPumpTraps
  <2>2. CASE ~ContentPumpTraps(l)
    <3>1. UNCHANGED <<singleton, reported>>
      BY <2>2 DEF PumpStep, PumpBegins, TitlePumpEnds, PumpStops, IsoPumpTraps
    <3> QED BY <3>1, <1>0 DEF TrapsFollow
  <2> QED BY <2>1, <2>2
<1>6. LaunchTypeOK'
  <2>1. reported' \subseteq Cores /\ published' \in Launches \cup {0}
    BY <1>0, <1>1, <1>2, <1>5 DEF TrapsFollow
  <2> QED BY <1>0, <1>1, <1>4, <1>5, <2>1 DEF LaunchTypeOK, titleVars, titleRunVars
<1>7. CoresInv'
  <2>1. \A c \in reported' : core'[c].status # "none"
    BY <1>0, <1>1, <1>2, <1>5 DEF TrapsFollow, CoresInv
  <2>2. \A k \in Launches : pumps'[k].running \/ pumps'[k].pumping => launch'[k].at = "done"
    BY <1>0, <1>1, <1>2, <1>4 DEF CoresInv
  <2> QED BY <1>0, <1>1, <2>1, <2>2 DEF CoresInv
<1>8. ASSUME ~hurried'
      PROVE  CalmInv'
  <2>0. /\ UNCHANGED <<kind, view, hurried, launch, core>> /\ InProgress' = InProgress
    BY <1>1 DEF titleVars, InProgress
  <2>1. CalmInv
    BY <2>0, <1>8 DEF LaunchInv
  <2>2. published = l /\ published' = l /\ InProgress = {}
    BY <2>1, <1>1 DEF CalmInv
  <2>3. \A k \in Launches : pumps'[k].running \/ pumps'[k].pumping => published' = k /\ InProgress' = {}
    BY <2>0, <2>1, <2>2, <1>4 DEF CalmInv
  <2>4. \A k \in Launches : CoreOf(k)' = CoreOf(k)
    BY <2>0 DEF CoreOf
  <2> QED BY <2>0, <2>1, <2>2, <2>3, <2>4, <1>4 DEF CalmInv
<1> QED BY <1>5, <1>6, <1>7, <1>8 DEF LaunchInv, ReportedIsDiscarded, TrapsFollow

LEMMA InitLaunches == LaunchInit => LaunchInv
<1> SUFFICES ASSUME LaunchInit PROVE LaunchInv
  OBVIOUS
<1>0. MaxFetches \in Nat
  BY LaunchAssumption
<1>1. LaunchTypeOK
  <2>1. launch \in [Launches -> LaunchRecords]
    <3>1. [at |-> "idle", core |-> 0, prev |-> 1, blocked |-> FALSE, driven |-> FALSE, fetches |-> 0]
             \in LaunchRecords
      BY <1>0 DEF LaunchRecords
    <3> QED BY <3>1 DEF LaunchInit
  <2>2. core \in [Cores -> CoreRecords]
    <3>1. NoCore \in CoreRecords
      BY DEF NoCore, CoreRecords
    <3> QED BY <3>1 DEF LaunchInit
  <2>3. /\ pumps \in [Launches -> [running : BOOLEAN, pumping : BOOLEAN]]
        /\ bridge \in [Bridges -> [run : Launches \cup {0}, scheduler : Launches \cup {0}]]
    BY DEF LaunchInit
  <2> QED BY <2>1, <2>2, <2>3 DEF LaunchInit, LaunchTypeOK, LaunchRecords, CoreRecords
<1>2. \A l \in Launches : /\ launch[l].at = "idle" /\ ~launch[l].driven
                          /\ ~pumps[l].running /\ ~pumps[l].pumping
  BY DEF LaunchInit
<1>3. CoresInv
  BY <1>2 DEF CoresInv, LaunchInit
<1>4. InProgress = {}
  BY <1>2 DEF InProgress, Waiting
<1>5. \A c \in Cores : core[c].exec = 1
  BY DEF LaunchInit, NoCore
<1>6. CalmInv
  BY <1>2, <1>4, <1>5 DEF CalmInv
<1> QED BY <1>1, <1>3, <1>6 DEF LaunchInv, ReportedIsDiscarded, LaunchInit

LEMMA LaunchStutters ==
    ASSUME LaunchInv, UNCHANGED launchVars
    PROVE  LaunchInv'
<1>1. UNCHANGED <<kind, view, hurried, launch, bridge, pumps, core, singleton, guestRun, aborted,
                  published, reported>>
  BY DEF launchVars, titleVars, titleRunVars
<1>2. InProgress' = InProgress /\ \A l \in Launches : CoreOf(l)' = CoreOf(l)
  BY <1>1 DEF InProgress, CoreOf
<1>3. CalmInv => CalmInv'
  BY <1>1 DEF CalmInv, InProgress, CoreOf, Fits
<1>4. LaunchTypeOK' /\ CoresInv' /\ ReportedIsDiscarded'
  BY <1>1 DEF LaunchInv, LaunchTypeOK, CoresInv, ReportedIsDiscarded
<1> QED BY <1>1, <1>3, <1>4 DEF LaunchInv

\* LaunchesShareTheCore, of TitleLaunch: however launches of both bridges, their
\* pumps, traps and the player's coming and going fall, a core whose trap was
\* reported is not handed out again; and while the player lets launches and
\* pumps end, a title that is pumped finds its own image and thread, and the
\* core is back in its mode when no launch has changed it.
THEOREM LaunchesShareTheCoreHolds == LaunchSpec => []LaunchesShareTheCore
<1>1. LaunchInit => LaunchInv
  BY InitLaunches
<1>2. LaunchInv /\ [LaunchNext]_launchVars => LaunchInv'
  <2> SUFFICES ASSUME LaunchInv, [LaunchNext]_launchVars PROVE LaunchInv'
    OBVIOUS
  <2>1. ASSUME NEW l \in Launches, StartLaunch(l) \/ PumpStep(l)
        PROVE  LaunchInv'
    BY <2>1, PlayStep, PumpStepKeeps
  <2>2. ASSUME NEW l \in Launches, LaunchStep(l)
        PROVE  LaunchInv'
    <3>1. CASE BootFails(l) \/ ContentBooted(l) \/ IsoBooted(l) \/ FilesFail(l)
      BY <3>1, BootStep
    <3>2. CASE ContentFiles(l) \/ IsoFiles(l)
      BY <3>2, FilesStep
    <3>3. CASE PrepareFails(l) \/ TranslationFails(l)
      BY <3>3, HandoffFails
    <3>4. CASE LaunchTraps(l)
      BY <3>4, TrapStep
    <3>5. CASE ContentTranslated(l) \/ IsoTranslated(l)
      BY <3>5, TranslatedStep
    <3>6. CASE ContentAttach(l) \/ IsoAttach(l) \/ ContentCompatibility(l)
      BY <3>6, SessionStep
    <3>7. CASE FirstPump(l) \/ ContentPumpFails(l) \/ IsoPumpFails(l)
      BY <3>7, PumpedStep
    <3>8. CASE HirBegins(l)
      BY <3>8, HirBeginsStep
    <3>9. CASE HirEnds(l) \/ HirLost(l)
      BY <3>9, HirOverStep
    <3>10. CASE FileWanted(l) \/ FileFetched(l)
      BY <3>10, FetchStep
    <3>11. CASE ContentDrives(l) \/ IsoDrives(l)
      BY <3>11, PublishStep
    <3> QED BY <2>2, <3>1, <3>2, <3>3, <3>4, <3>5, <3>6, <3>7, <3>8, <3>9, <3>10, <3>11
            DEF LaunchStep
  <2>3. CASE Leave
    BY <2>3, LeaveStep
  <2>4. ASSUME NEW c \in Cores, LoadEnds(c)
        PROVE  LaunchInv'
    BY <2>4, LoadStep
  <2>5. CASE UNCHANGED launchVars
    BY <2>5, LaunchStutters
  <2> QED BY <2>1, <2>2, <2>3, <2>4, <2>5 DEF LaunchNext
<1>3. LaunchInv => LaunchesShareTheCore
  <2> SUFFICES ASSUME LaunchInv PROVE LaunchesShareTheCore
    OBVIOUS
  <2>1. ASSUME ~hurried, NEW c \in Cores, \A l \in Launches : InMode(l) => launch[l].core # c
        PROVE  core[c].exec = 1
    <3>1. core[c].exec \in 0 .. 1
      BY DEF LaunchInv, LaunchTypeOK
    <3>2. core[c].exec # 0
      BY <2>1 DEF LaunchInv, CalmInv, InMode
    <3> QED BY <3>1, <3>2
  <2>2. ASSUME ~hurried
        PROVE  \A l \in Launches : pumps[l].running => CoreOf(l).title = l /\ CoreOf(l).thread = l
    BY <2>2 DEF LaunchInv, CalmInv
  <2> QED BY <2>1, <2>2 DEF LaunchInv, LaunchesShareTheCore, ModeRestored, OwnTitleRuns
<1> QED BY <1>1, <1>2, <1>3, PTL DEF LaunchSpec

-----------------------------------------------------------------------------
(* The session of a PC game (PortRuntime)                                    *)

HoldSpec == PortInit /\ [][HoldSteps]_port

PortParts == {"session", "engine", "pad", "presenter"}
PortStages ==
    {"idle", "probing", "presenting", "creating", "loading", "starting", "running", "stopped", "failed"}

HoldRecords ==
    [at : [PortLaunches -> PortStages], kind : [PortLaunches -> {"pc", "static"}],
     live : SUBSET (PortParts \X PortLaunches), held : PortLaunches \cup {NoLaunch},
     pad : PortLaunches \cup {NoLaunch}, title : PortLaunches \cup {NoLaunch}, displaced : BOOLEAN]

HasSession(p, l) == <<"session", l>> \in p.live

Bare(p, l) == p.at[l] \in {"idle", "probing"} \/ (p.at[l] = "failed" /\ p.kind[l] = "pc")

\* A launch that has not begun, or failed, has left nothing behind, the session held is running,
\* and as long as no launch has displaced another no other session is.
HoldsIn(p) ==
    /\ \A l \in PortLaunches : Bare(p, l) =>
          \A part \in {"session", "pad", "presenter"} : <<part, l>> \notin p.live
    /\ p.held # NoLaunch => HasSession(p, p.held)
    /\ ~p.displaced => \A l \in PortLaunches : HasSession(p, l) => p.held = l

HoldInv == port \in HoldRecords /\ HoldsIn(port)

(* Stopping the session of a launch and forgetting it if it is the one held *)
(* takes nothing else away.                                                 *)
LEMMA StoppedHolds ==
    ASSUME NEW p \in HoldRecords, HoldsIn(p), NEW l \in PortLaunches, NEW q \in HoldRecords,
           NEW gone \in SUBSET PortParts,
           q.live = p.live \ (gone \X {l}),
           "session" \in gone \/ ~HasSession(p, l),
           q.held = IF p.held = l THEN NoLaunch ELSE p.held,
           q.displaced = p.displaced,
           q.kind = p.kind,
           \A k \in PortLaunches \ {l} : q.at[k] = p.at[k],
           q.at[l] \notin {"idle", "probing"},
           q.at[l] = "failed" => {"pad", "presenter"} \subseteq gone
    PROVE  HoldsIn(q)
<1>1. ASSUME NEW k \in PortLaunches, Bare(q, k), NEW part \in {"session", "pad", "presenter"}
      PROVE  <<part, k>> \notin q.live
  <2>1. CASE k = l
    BY <2>1, <1>1 DEF HasSession, Bare
  <2>2. CASE k # l
    BY <2>2, <1>1 DEF HoldsIn, Bare
  <2> QED BY <2>1, <2>2
<1>2. ASSUME q.held # NoLaunch
      PROVE  HasSession(q, q.held)
  BY <1>2, PortAssumption DEF HoldsIn, HasSession
<1>3. ASSUME ~q.displaced, NEW k \in PortLaunches, HasSession(q, k)
      PROVE  q.held = k
  BY <1>3 DEF HoldsIn, HasSession
<1> QED BY <1>1, <1>2, <1>3 DEF HoldsIn

(* A session that is created is held; the one held before is displaced.     *)
LEMMA HeldHolds ==
    ASSUME NEW p \in HoldRecords, HoldsIn(p), NEW l \in PortLaunches, NEW q \in HoldRecords,
           q.live \ p.live \subseteq PortParts \X {l}, HasSession(q, l), q.held = l,
           q.at[l] = "starting", q.kind = p.kind,
           \A k \in PortLaunches \ {l} : q.at[k] = p.at[k],
           q.displaced = (p.displaced \/ p.held # NoLaunch)
    PROVE  HoldsIn(q)
<1>1. ASSUME NEW k \in PortLaunches, Bare(q, k), NEW part \in {"session", "pad", "presenter"}
      PROVE  <<part, k>> \notin q.live
  <2>1. k # l /\ Bare(p, k)
    BY <1>1 DEF Bare
  <2>2. <<part, k>> \notin p.live
    BY <2>1 DEF HoldsIn
  <2> QED BY <2>1, <2>2
<1>2. HasSession(q, q.held)
  BY DEF HasSession
<1>3. ASSUME ~q.displaced, NEW k \in PortLaunches, HasSession(q, k)
      PROVE  q.held = k
  <2>1. ~HasSession(p, k)
    BY <1>3, PortAssumption DEF HoldsIn
  <2> QED BY <2>1, <1>3 DEF HasSession
<1> QED BY <1>1, <1>2, <1>3 DEF HoldsIn

(* A step that creates no session, stops none and does not fail.            *)
LEMMA GoesHolds ==
    ASSUME NEW p \in HoldRecords, HoldsIn(p), NEW l \in PortLaunches, NEW q \in HoldRecords,
           p.live \subseteq q.live, q.live \ p.live \subseteq {"engine", "presenter"} \X {l},
           q.held = p.held, q.displaced = p.displaced,
           \A k \in PortLaunches \ {l} : q.at[k] = p.at[k] /\ q.kind[k] = p.kind[k],
           Bare(q, l) => Bare(p, l) /\ q.live = p.live
    PROVE  HoldsIn(q)
<1>1. ASSUME NEW k \in PortLaunches, Bare(q, k), NEW part \in {"session", "pad", "presenter"}
      PROVE  <<part, k>> \notin q.live
  <2>1. Bare(p, k) /\ (k # l \/ q.live = p.live)
    BY <1>1 DEF Bare
  <2>2. <<part, k>> \notin p.live
    BY <2>1 DEF HoldsIn
  <2> QED BY <2>1, <2>2
<1>2. \A k : HasSession(q, k) <=> HasSession(p, k)
  BY DEF HasSession
<1> QED BY <1>1, <1>2 DEF HoldsIn

(* What the PC router drops before a launch.                                *)
LEMMA DroppedHolds ==
    ASSUME NEW p \in HoldRecords, HoldsIn(p), NEW l \in PortLaunches, p.at[l] = "idle",
           NEW q \in HoldRecords,
           q.live = (p.live \ ({"session", "engine", "pad"} \X {p.held})) \ ({"pad"} \X {p.pad}),
           q.held = NoLaunch, q.displaced = p.displaced, q.at[l] = "probing",
           \A k \in PortLaunches \ {l} : q.at[k] = p.at[k] /\ q.kind[k] = p.kind[k]
    PROVE  HoldsIn(q)
<1>1. ASSUME NEW k \in PortLaunches, Bare(q, k), NEW part \in {"session", "pad", "presenter"}
      PROVE  <<part, k>> \notin q.live
  <2>1. Bare(p, k)
    BY <1>1 DEF Bare
  <2> QED BY <2>1 DEF HoldsIn
<1>2. ASSUME ~q.displaced, NEW k \in PortLaunches, HasSession(q, k)
      PROVE  FALSE
  <2>1. HasSession(p, k) /\ p.held # k
    BY <1>2 DEF HasSession
  <2> QED BY <2>1, <1>2 DEF HoldsIn
<1> QED BY <1>1, <1>2 DEF HoldsIn

(* A launch that loses some of its parts and what points to it.             *)
LEMMA ReleasedTyped ==
    ASSUME NEW p \in HoldRecords, NEW l \in PortLaunches, NEW gone, NEW s \in PortStages
    PROVE  [Released(Without(p, gone, l), l) EXCEPT !.at[l] = s] \in HoldRecords
<1> DEFINE h == IF p.held = l THEN NoLaunch ELSE p.held
           d == IF p.pad = l THEN NoLaunch ELSE p.pad
           kept == p.live \ (gone \X {l})
           stages == [p.at EXCEPT ![l] = s]
<1>1. h \in PortLaunches \cup {NoLaunch} /\ d \in PortLaunches \cup {NoLaunch}
  BY DEF HoldRecords
<1>2. kept \in SUBSET (PortParts \X PortLaunches) /\ stages \in [PortLaunches -> PortStages]
  BY DEF HoldRecords
<1>3. [Released(Without(p, gone, l), l) EXCEPT !.at[l] = s]
         = [p EXCEPT !.live = kept, !.held = h, !.pad = d, !.at = stages]
  BY DEF Released, Without, HoldRecords
<1> HIDE DEF h, d, kept, stages
<1> QED BY <1>1, <1>2, <1>3 DEF HoldRecords

LEMMA HoldStepKeeps ==
    ASSUME HoldInv, NEW l \in PortLaunches,
           \/ PlayPort(l) \/ PlayStatic(l) \/ ProbePort(l) \/ PresentPort(l) \/ CreateSession(l)
           \/ SessionReady(l) \/ SessionFails(l) \/ CreateStatic(l) \/ StartSession(l) \/ StopPort(l)
    PROVE  HoldInv'
<1> USE PortAssumption
<1>0. port \in HoldRecords /\ HoldsIn(port)
  BY DEF HoldInv
<1>q. HoldsIn(port') /\ port' \in HoldRecords => HoldInv'
  BY DEF HoldInv
<1>1. CASE PlayPort(l)
  <2>1. port' \in HoldRecords
    BY <1>1, <1>0, ZenonT(60) DEF PlayPort, Dropped, SessionStopped, Without, HoldRecords, PortStages
  <2>2. /\ port'.live = (port.live \ ({"session", "engine", "pad"} \X {port.held})) \ ({"pad"} \X {port.pad})
        /\ port'.held = NoLaunch /\ port'.displaced = port.displaced
        /\ port'.at[l] = "probing" 
        /\ \A k \in PortLaunches \ {l} : port'.at[k] = port.at[k] /\ port'.kind[k] = port.kind[k]
        /\ port.at[l] = "idle"
    BY <1>1, <1>0 DEF PlayPort, Dropped, SessionStopped, Without, HoldRecords
  <2> QED BY <2>1, <2>2, <1>0, <1>q, DroppedHolds
<1>2. CASE PlayStatic(l)
  <2>1. port' \in HoldRecords
    BY <1>2, <1>0 DEF PlayStatic, HoldRecords, PortStages
  <2>2. /\ port'.live = port.live
        /\ port'.held = port.held /\ port'.displaced = port.displaced
        /\ port'.at[l] = "probing" 
        /\ \A k \in PortLaunches \ {l} : port'.at[k] = port.at[k] /\ port'.kind[k] = port.kind[k]
        /\ port.at[l] = "idle"
    BY <1>2, <1>0 DEF PlayStatic, HoldRecords
  <2> QED BY <2>1, <2>2, <1>0, <1>q, GoesHolds DEF Bare
<1>3. CASE ProbePort(l)
  <2>1. PICK s \in {"presenting", "failed"} : port' = [port EXCEPT !.at[l] = s]
    BY <1>3 DEF ProbePort
  <2>2. port' \in HoldRecords
    BY <2>1, <1>0 DEF HoldRecords, PortStages
  <2>3. /\ port'.live = port.live
        /\ port'.held = port.held /\ port'.displaced = port.displaced
        /\ port'.at[l] = s /\ port'.kind = port.kind
        /\ \A k \in PortLaunches \ {l} : port'.at[k] = port.at[k]
        /\ port.at[l] = "probing"
    BY <1>3, <2>1, <1>0 DEF ProbePort, HoldRecords
  <2> QED BY <2>2, <2>3, <1>0, <1>q, GoesHolds DEF Bare
<1>4. ASSUME NEW closed \in {{}, {"engine"}}, port' = Failed(Without(port, closed, l), l)
      PROVE  HoldInv'
  <2> DEFINE gone == closed \cup {"pad", "presenter"} \cup
                     IF HasSession(port, l) THEN {"session", "engine"} ELSE {}
  <2>1. Without(port, closed, l) = [port EXCEPT !.live = @ \ (closed \X {l})]
    BY DEF Without
  <2>2. HasSession(port, l) <=> <<"session", l>> \in port.live \ (closed \X {l})
    BY <1>4 DEF HasSession
  <2>3. /\ port'.live = port.live \ (gone \X {l})
        /\ port'.held = IF port.held = l THEN NoLaunch ELSE port.held
        /\ port'.displaced = port.displaced
        /\ port'.at[l] = "failed" /\ port'.kind = port.kind
        /\ \A k \in PortLaunches \ {l} : port'.at[k] = port.at[k]
    BY <1>4, <2>1, <2>2, <1>0 DEF Failed, SessionStopped, Released, Without, HoldRecords
  <2>4. port' \in HoldRecords
    <3>1. port' = [Released(Without(port, gone, l), l) EXCEPT !.at[l] = "failed"]
      <4> DEFINE q == Released(Without(Without(port, closed, l), {"pad", "presenter"}, l), l)
      <4>1. port' = [(IF HasSession(port, l) THEN SessionStopped(q, l) ELSE q) EXCEPT !.at[l] = "failed"]
        <5>1. Without(port, closed, l).live = port.live \ (closed \X {l})
          BY <1>0 DEF Without, HoldRecords
        <5> QED BY <5>1, <1>4, <2>2 DEF Failed
      <4>2. q = [port EXCEPT
                    !.live = (@ \ (closed \X {l})) \ ({"pad", "presenter"} \X {l}),
                    !.held = IF @ = l THEN NoLaunch ELSE @, !.pad = IF @ = l THEN NoLaunch ELSE @]
        BY <1>0 DEF Released, Without, HoldRecords
      <4>3. Released(Without(port, gone, l), l) =
                [port EXCEPT
                    !.live = @ \ (gone \X {l}),
                    !.held = IF @ = l THEN NoLaunch ELSE @, !.pad = IF @ = l THEN NoLaunch ELSE @]
        BY <1>0 DEF Released, Without, HoldRecords
      <4> HIDE DEF q
      <4>4. CASE HasSession(port, l)
        <5>1. SessionStopped(q, l) = [q EXCEPT !.live = @ \ ({"session", "engine", "pad"} \X {l})]
          BY DEF SessionStopped, Without
        <5>2. port.live \ (gone \X {l}) = ((port.live \ (closed \X {l})) \ ({"pad", "presenter"} \X {l}))
                                             \ ({"session", "engine", "pad"} \X {l})
          <6>1. gone = closed \cup {"pad", "presenter"} \cup {"session", "engine", "pad"}
            BY <4>4
          <6> HIDE DEF gone
          <6> QED BY <6>1
        <5>3. SessionStopped(q, l) = Released(Without(port, gone, l), l)
          <6> HIDE DEF gone
          <6>1. q.live = (port.live \ (closed \X {l})) \ ({"pad", "presenter"} \X {l})
            BY <4>2, <1>0 DEF HoldRecords
          <6>2. SessionStopped(q, l) = [q EXCEPT !.live = port.live \ (gone \X {l})]
            BY <5>1, <5>2, <6>1
          <6> DEFINE live == port.live \ (gone \X {l})
                     h == IF port.held = l THEN NoLaunch ELSE port.held
                     d == IF port.pad = l THEN NoLaunch ELSE port.pad
                     was == (port.live \ (closed \X {l})) \ ({"pad", "presenter"} \X {l})
          <6>3. /\ q = [port EXCEPT !.live = was, !.held = h, !.pad = d]
                /\ Released(Without(port, gone, l), l) = [port EXCEPT !.live = live, !.held = h, !.pad = d]
                /\ SessionStopped(q, l) = [q EXCEPT !.live = live]
            BY <6>2, <4>2, <4>3
          <6> HIDE DEF live, h, d, was
          <6> QED BY <6>3, <1>0 DEF HoldRecords
        <5> QED BY <5>3, <4>1, <4>4
      <4>5. CASE ~HasSession(port, l)
        <5>1. q = Released(Without(port, gone, l), l)
          <6>1. port.live \ (gone \X {l}) = (port.live \ (closed \X {l})) \ ({"pad", "presenter"} \X {l})
            <7>1. gone = closed \cup {"pad", "presenter"}
              BY <4>5
            <7> HIDE DEF gone
            <7> QED BY <7>1
          <6> HIDE DEF gone
          <6> QED BY <6>1, <4>2, <4>3, <1>0 DEF HoldRecords
        <5> QED BY <5>1, <4>1, <4>5
      <4> QED BY <4>4, <4>5
    <3> QED BY <3>1, <1>0, ReleasedTyped DEF PortStages
  <2>5. gone \in SUBSET PortParts /\ {"pad", "presenter"} \subseteq gone
    BY <1>4 DEF PortParts
  <2>6. HasSession(port, l) => "session" \in gone
    OBVIOUS
  <2> HIDE DEF gone
  <2> QED BY <2>3, <2>4, <2>5, <2>6, <1>0, <1>q, StoppedHolds
<1>5. CASE PresentPort(l)
  <2>1. CASE port' = Failed(port, l)
    <3>1. Without(port, {}, l) = port
      BY <1>0 DEF Without, HoldRecords
    <3> QED BY <3>1, <2>1, <1>4
  <2>2. CASE port' # Failed(port, l)
    <3>1. PICK kinds \in {{}, {"presenter"}} :
              port' = [port EXCEPT !.at[l] = "creating", !.live = @ \union (kinds \X {l})]
      <4>1. {"presenter"} \X {l} = {<<"presenter", l>>} /\ {} \X {l} = {}
        OBVIOUS
      <4>2. PICK parts \in {{}, {<<"presenter", l>>}} :
                port' = [port EXCEPT !.at[l] = "creating", !.live = @ \union parts]
        BY <2>2, <1>5 DEF PresentPort
      <4> QED BY <4>1, <4>2
    <3>2. port' \in HoldRecords
      BY <3>1, <1>0 DEF HoldRecords, PortStages, PortParts
    <3>3. /\ port.live \subseteq port'.live /\ port'.live \ port.live \subseteq {"engine", "presenter"} \X {l}
          /\ port'.held = port.held /\ port'.displaced = port.displaced
          /\ port'.at[l] = "creating" /\ port'.kind = port.kind
        /\ \A k \in PortLaunches \ {l} : port'.at[k] = port.at[k]
      BY <3>1, <1>0 DEF HoldRecords
    <3> QED BY <3>2, <3>3, <1>0, <1>q, GoesHolds DEF Bare
  <2> QED BY <2>1, <2>2
<1>6. CASE CreateSession(l)
  <2>1. port' = [port EXCEPT !.at[l] = "loading", !.title = l, !.live = @ \union ({"engine"} \X {l})]
    <3>1. {"engine"} \X {l} = {<<"engine", l>>}
      OBVIOUS
    <3> QED BY <3>1, <1>6 DEF CreateSession
  <2>2. port' \in HoldRecords
    BY <2>1, <1>0 DEF HoldRecords, PortStages, PortParts
  <2>3. /\ port.live \subseteq port'.live /\ port'.live \ port.live \subseteq {"engine", "presenter"} \X {l}
        /\ port'.held = port.held /\ port'.displaced = port.displaced
        /\ port'.at[l] = "loading" /\ port'.kind = port.kind
        /\ \A k \in PortLaunches \ {l} : port'.at[k] = port.at[k]
    BY <2>1, <1>0 DEF HoldRecords
  <2> QED BY <2>2, <2>3, <1>0, <1>q, GoesHolds DEF Bare
<1>7. CASE SessionReady(l)
  <2>1. port' \in HoldRecords
    BY <1>7, <1>0, ZenonT(60) DEF SessionReady, SessionHeld, HoldRecords, PortStages, PortParts
  <2>2. /\ port'.live \ port.live \subseteq PortParts \X {l} /\ HasSession(port', l)
        /\ port'.held = l /\ port'.displaced = (port.displaced \/ port.held # NoLaunch)
        /\ port'.at[l] = "starting" /\ port'.kind = port.kind
        /\ \A k \in PortLaunches \ {l} : port'.at[k] = port.at[k]
    BY <1>7, <1>0 DEF SessionReady, SessionHeld, HoldRecords, PortParts, HasSession
  <2> QED BY <2>1, <2>2, <1>0, <1>q, HeldHolds
<1>8. CASE SessionFails(l)
  BY <1>8, <1>4 DEF SessionFails
<1>9. CASE CreateStatic(l)
  <2>1. port' \in HoldRecords
    BY <1>9, <1>0, ZenonT(60) DEF CreateStatic, SessionHeld, HoldRecords, PortStages, PortParts
  <2>2. /\ port'.live \ port.live \subseteq PortParts \X {l} /\ HasSession(port', l)
        /\ port'.held = l /\ port'.displaced = (port.displaced \/ port.held # NoLaunch)
        /\ port'.at[l] = "starting" /\ port'.kind = port.kind
        /\ \A k \in PortLaunches \ {l} : port'.at[k] = port.at[k]
    BY <1>9, <1>0 DEF CreateStatic, SessionHeld, HoldRecords, PortParts, HasSession
  <2> QED BY <2>1, <2>2, <1>0, <1>q, HeldHolds
<1>10. CASE StartSession(l)
  <2>1. CASE port' = Failed(port, l)
    <3>1. Without(port, {}, l) = port
      BY <1>0 DEF Without, HoldRecords
    <3> QED BY <3>1, <2>1, <1>4
  <2>2. CASE port' # Failed(port, l)
    <3>1. port.kind[l] \in {"pc", "static"}
      BY <1>0 DEF HoldRecords
    <3>2. CASE port' = [port EXCEPT !.at[l] = "running", !.title = l]
      <4>1. port' \in HoldRecords
        BY <3>2, <1>0 DEF HoldRecords, PortStages
      <4>2. /\ port'.live = port.live
            /\ port'.held = port.held /\ port'.displaced = port.displaced
            /\ port'.at[l] = "running" /\ port'.kind = port.kind
            /\ \A k \in PortLaunches \ {l} : port'.at[k] = port.at[k]
        BY <3>2, <1>0 DEF HoldRecords
      <4> QED BY <4>1, <4>2, <1>0, <1>q, GoesHolds DEF Bare
    <3>3. CASE port.kind[l] = "static" /\ port' = [port EXCEPT !.at[l] = "failed"]
      <4>1. port' \in HoldRecords
        BY <3>3, <1>0 DEF HoldRecords, PortStages
      <4>2. /\ port'.live = port.live
            /\ port'.held = port.held /\ port'.displaced = port.displaced
            /\ port'.at[l] = "failed" /\ port'.kind = port.kind
            /\ \A k \in PortLaunches \ {l} : port'.at[k] = port.at[k]
        BY <3>3, <1>0 DEF HoldRecords
      <4> QED BY <3>3, <4>1, <4>2, <1>0, <1>q, GoesHolds DEF Bare
    <3> QED BY <2>2, <3>2, <3>3, <1>10 DEF StartSession
  <2> QED BY <2>1, <2>2
<1>11. CASE StopPort(l)
  <2> DEFINE gone == {"session", "engine", "pad", "presenter"}
  <2>1. port' \in HoldRecords
    <3>1. Without(SessionStopped(port, l), {"presenter"}, l) = Without(port, gone, l)
      BY <1>0 DEF SessionStopped, Without, HoldRecords
    <3> QED BY <3>1, <1>11, <1>0, ReleasedTyped DEF StopPort, PortStages
  <2>2. /\ port'.live = port.live \ ({"session", "engine", "pad", "presenter"} \X {l})
        /\ port'.held = IF port.held = l THEN NoLaunch ELSE port.held
        /\ port'.displaced = port.displaced
        /\ port'.at[l] = "stopped" /\ port'.kind = port.kind
        /\ \A k \in PortLaunches \ {l} : port'.at[k] = port.at[k]
    BY <1>11, <1>0 DEF StopPort, SessionStopped, Released, Without, HoldRecords
  <2>3. {"session", "engine", "pad", "presenter"} \in SUBSET PortParts
    BY DEF PortParts
  <2> QED BY <2>1, <2>2, <2>3, <1>0, <1>q, StoppedHolds
<1> QED BY <1>1, <1>2, <1>3, <1>5, <1>6, <1>7, <1>8, <1>9, <1>10, <1>11

(* Whatever launches overlap, the session that is held runs, a launch that  *)
(* failed has left nothing, and only a displaced session runs beside it     *)
(* (runPcRecompiledTitle and the static router).                            *)
THEOREM SessionHolds == HoldSpec => [](FailedPortLeavesNothing /\ HeldIsLive /\ OneSession)
<1>1. PortInit => HoldInv
  BY PortAssumption DEF PortInit, HoldInv, HoldRecords, HoldsIn, Bare, HasSession, PortStages
<1>2. HoldInv /\ [HoldSteps]_port => HoldInv'
  <2>1. ASSUME HoldInv, UNCHANGED port
        PROVE  HoldInv'
    BY <2>1 DEF HoldInv
  <2> QED BY <2>1, HoldStepKeeps DEF HoldSteps
<1>3. HoldInv => FailedPortLeavesNothing /\ HeldIsLive /\ OneSession
  <2> SUFFICES ASSUME HoldInv PROVE FailedPortLeavesNothing /\ HeldIsLive /\ OneSession
    OBVIOUS
  <2>1. port \in HoldRecords /\ HoldsIn(port)
    BY DEF HoldInv
  <2>2. FailedPortLeavesNothing
    <3>1. ASSUME NEW l \in PortLaunches, port.at[l] = "failed" /\ port.kind[l] = "pc",
                 NEW x \in port.live \intersect ({"session", "pad", "presenter"} \X {l})
          PROVE  FALSE
      <4>1. PICK part \in {"session", "pad", "presenter"} : x = <<part, l>>
        OBVIOUS
      <4>2. <<part, l>> \notin port.live
        BY <2>1, <3>1 DEF HoldsIn, Bare
      <4> QED BY <4>1, <4>2
    <3> QED BY <3>1 DEF FailedPortLeavesNothing
  <2>3. HeldIsLive
    BY <2>1 DEF HoldsIn, HasSession, HeldIsLive
  <2>4. OneSession
    <3> DEFINE running == {l \in PortLaunches : <<"session", l>> \in port.live}
    <3>1. ASSUME ~port.displaced PROVE Cardinality(running) <= 1
      <4>1. \A l \in running : l = port.held
        BY <3>1, <2>1 DEF HoldsIn, HasSession
      <4> HIDE DEF running
      <4>2. running = {} \/ running = {port.held}
        BY <4>1
      <4>3. Cardinality({}) = 0 /\ Cardinality({port.held}) = 1
        BY FS_EmptySet, FS_Singleton
      <4> QED BY <4>2, <4>3
    <3> QED BY <3>1 DEF OneSession
  <2> QED BY <2>2, <2>3, <2>4
<1> QED BY <1>1, <1>2, <1>3, PTL DEF HoldSpec

-----------------------------------------------------------------------------
(* The pad of a PC game (PortRuntime)                                        *)

KeysSpec == KeysInit /\ [][KeySteps]_keys

\* Every key the game holds down is one the pad remembers.
KeysInv ==
    /\ keys \in [buttons : SUBSET Buttons, moves : SUBSET Moves, down : SUBSET (Buttons \cup Moves),
                 paused : BOOLEAN, stopped : BOOLEAN]
    /\ keys.down \subseteq keys.buttons \cup keys.moves
    /\ keys.stopped => keys.down = {}

\* Nobody can hold a key of a pad that was stopped (createPcControllerInput).
THEOREM PadLetsGo == KeysSpec => []StopReleasesKeys
<1>1. KeysInit => KeysInv
  BY DEF KeysInit, KeysInv
<1>2. KeysInv /\ [KeySteps]_keys => KeysInv'
  <2> SUFFICES ASSUME KeysInv, [KeySteps]_keys PROVE KeysInv'
    OBVIOUS
  <2> USE DEF KeysInv
  <2>1. ASSUME NEW b \in Buttons, NEW pressed \in BOOLEAN, SetKey(b, pressed) PROVE KeysInv'
    <3>1. CASE pressed
      BY <2>1, <3>1 DEF SetKey
    <3>2. CASE ~pressed
      BY <2>1, <3>2 DEF SetKey
    <3> QED BY <3>1, <3>2
  <2>2. ASSUME NEW dirs \in SUBSET Moves, SetMove(dirs) PROVE KeysInv'
    BY <2>2 DEF SetMove
  <2>3. CASE PausePad
    BY <2>3 DEF PausePad, ResetKeys
  <2>4. CASE ResumePad
    BY <2>4 DEF ResumePad
  <2>5. CASE StopPad
    BY <2>5 DEF StopPad, ResetKeys
  <2>6. CASE UNCHANGED keys
    BY <2>6
  <2> QED BY <2>1, <2>2, <2>3, <2>4, <2>5, <2>6 DEF KeySteps
<1>3. KeysInv => StopReleasesKeys
  BY DEF KeysInv, StopReleasesKeys
<1> QED BY <1>1, <1>2, <1>3, PTL DEF KeysSpec

-----------------------------------------------------------------------------
(* The player's files (PortRuntime)                                          *)

SavedSpec == SavedInit /\ [][SavedSteps]_saved

SavedRecords ==
    [at : {"idle", "copy", "saved"}, version : Nat, done : 0 .. SaveFiles, files : [1 .. SaveFiles -> Nat],
     meta : Nat, record : BOOLEAN, bound : Nat, links : Nat, seen : {"none", "saved", "linked"},
     kept : BOOLEAN, restored : SUBSET Nat]

\* A copy that has its metadata is of one installation, and while one is made
\* there is no metadata and what is there is of the version being copied.
SavedInv ==
    /\ saved \in SavedRecords
    /\ ~saved.kept =>
          /\ saved.meta # 0 => \A f \in 1 .. SaveFiles : saved.files[f] = saved.meta
          /\ saved.at = "copy" =>
                saved.meta = 0 /\ \A f \in 1 .. saved.done : saved.files[f] = saved.version
          /\ saved.at = "saved" => \A f \in 1 .. SaveFiles : saved.files[f] = saved.meta
          /\ \A x, y \in saved.restored : x = y

(* No installation is restored that is not one the player linked, wherever  *)
(* the tab was closed (persistPcRecompiledSource and its restore).          *)
THEOREM RestoresWhole == SavedSpec => []RestoredIsWhole
<1> USE PortAssumption
<1>1. SavedInit => SavedInv
  BY DEF SavedInit, SavedInv, SavedRecords
<1>2. SavedInv /\ [SavedSteps]_saved => SavedInv'
  <2> SUFFICES ASSUME SavedInv, [SavedSteps]_saved PROVE SavedInv'
    OBVIOUS
  <2>0. saved \in SavedRecords
    BY DEF SavedInv
  <2> USE DEF SavedInv
  <2>1. CASE LinkSource
    <3>1. saved' = [saved EXCEPT !.links = saved.links + 1, !.bound = saved.links + 1, !.record = FALSE,
                                 !.restored = {}]
      BY <2>1 DEF LinkSource
    <3>2. saved.links + 1 \in Nat
      BY <2>0 DEF SavedRecords
    <3>3. saved' \in SavedRecords
      BY <2>0, <3>1, <3>2 DEF SavedRecords
    <3> QED BY <2>0, <3>1, <3>3 DEF SavedRecords
  <2>2. CASE BeginSave
    <3> DEFINE s == [saved EXCEPT !.at = "copy", !.version = saved.bound, !.done = 0]
    <3>1. saved.bound \in Nat /\ 0 \in 0 .. SaveFiles
      BY <2>0 DEF SavedRecords
    <3>2. s \in SavedRecords /\ s.at = "copy" /\ s.done = 0 /\ s.restored = saved.restored /\ s.kept = saved.kept
      BY <2>0, <3>1 DEF SavedRecords
    <3>3. saved' = Emptied(s) \/ saved' = [s EXCEPT !.kept = TRUE]
      BY <2>2 DEF BeginSave
    <3> HIDE DEF s
    <3>4. CASE saved' = Emptied(s)
      <4> DEFINE none == [f \in 1 .. SaveFiles |-> 0]
      <4>1. none \in [1 .. SaveFiles -> Nat] /\ saved' = [s EXCEPT !.files = none, !.meta = 0]
        BY <3>4 DEF Emptied
      <4> HIDE DEF none
      <4>2. saved' \in SavedRecords /\ saved'.at = "copy" /\ saved'.done = 0 /\ saved'.meta = 0
            /\ saved'.restored = saved.restored /\ saved'.kept = saved.kept
        BY <4>1, <3>2 DEF SavedRecords
      <4> QED BY <4>2
    <3>5. CASE saved' = [s EXCEPT !.kept = TRUE]
      <4>1. saved' \in SavedRecords /\ saved'.kept
        BY <3>2, <3>5 DEF SavedRecords
      <4> QED BY <4>1
    <3> QED BY <3>3, <3>4, <3>5
  <2>3. CASE CopyFile
    <3> DEFINE files == [saved.files EXCEPT ![saved.done + 1] = saved.version]
    <3>0. /\ saved' = [saved EXCEPT !.done = saved.done + 1, !.files = files]
          /\ files \in [1 .. SaveFiles -> Nat] /\ saved.done + 1 \in 0 .. SaveFiles
      BY <2>0, <2>3 DEF CopyFile, SavedRecords
    <3>1. saved' \in SavedRecords
      <4> HIDE DEF files
      <4> QED BY <2>0, <3>0 DEF SavedRecords
    <3>2. /\ saved'.at = "copy" /\ saved'.done = saved.done + 1 /\ saved'.meta = saved.meta
          /\ saved'.files = [saved.files EXCEPT ![saved.done + 1] = saved.version]
          /\ saved'.version = saved.version /\ saved'.restored = saved.restored
          /\ saved'.kept = saved.kept /\ saved.at = "copy"
      BY <2>0, <2>3 DEF CopyFile, SavedRecords
    <3>3. ASSUME ~saved.kept, NEW f \in 1 .. saved.done + 1
          PROVE  saved'.files[f] = saved.version
      BY <2>0, <2>3, <3>2, <3>3, SMTT(60) DEF CopyFile, SavedRecords
    <3> QED BY <2>0, <3>1, <3>2, <3>3
  <2>4. CASE WriteMeta
    <3>1. saved' \in SavedRecords
      BY <2>0, <2>4 DEF WriteMeta, SavedRecords
    <3> QED BY <2>0, <2>4, <3>1 DEF WriteMeta, SavedRecords
  <2>5. CASE RecordSave
    <3>1. saved' \in SavedRecords
      BY <2>0, <2>5 DEF RecordSave, SavedRecords
    <3> QED BY <2>0, <2>5, <3>1 DEF RecordSave, SavedRecords
  <2>6. CASE SaveFails
    <3>1. saved' \in SavedRecords
      BY <2>0, <2>6 DEF SaveFails, Emptied, SavedRecords
    <3> QED BY <2>0, <2>6, <3>1 DEF SaveFails, Emptied, SavedRecords
  <2>7. CASE Hydrate
    <3>1. saved' \in SavedRecords
      BY <2>0, <2>7, ZenonT(60) DEF Hydrate, SavedRecords
    <3> QED BY <2>0, <2>7, <3>1, ZenonT(60) DEF Hydrate, SavedRecords
  <2>8. CASE CloseTab
    <3>1. saved' \in SavedRecords
      BY <2>0, <2>8 DEF CloseTab, SavedRecords
    <3> QED BY <2>0, <2>8, <3>1 DEF CloseTab, SavedRecords
  <2>9. CASE RestoreSource
    <3> DEFINE copies == {saved.files[f] : f \in 1 .. SaveFiles}
    <3>1. CASE saved.meta # 0 /\ 0 \notin copies
      <4>1. saved' = [saved EXCEPT !.bound = saved.meta, !.restored = copies \union {saved.meta}]
        BY <2>9, <3>1 DEF RestoreSource
      <4>2. copies \in SUBSET Nat
        BY <2>0 DEF SavedRecords
      <4>3. ~saved.kept => \A x, y \in copies \cup {saved.meta} : x = y
        BY <3>1
      <4> HIDE DEF copies
      <4>4. saved' \in SavedRecords
        BY <2>0, <4>1, <4>2 DEF SavedRecords
      <4> QED BY <2>0, <4>1, <4>3, <4>4 DEF SavedRecords
    <3>2. CASE ~(saved.meta # 0 /\ 0 \notin copies)
      <4>1. saved' = [saved EXCEPT !.record = (saved.meta # 0)]
        BY <2>9, <3>2 DEF RestoreSource
      <4>2. saved' \in SavedRecords
        BY <2>0, <4>1 DEF SavedRecords
      <4> QED BY <2>0, <4>1, <4>2 DEF SavedRecords
    <3> QED BY <3>1, <3>2
  <2>10. CASE UNCHANGED saved
    BY <2>10
  <2> QED BY <2>1, <2>2, <2>3, <2>4, <2>5, <2>6, <2>7, <2>8, <2>9, <2>10 DEF SavedSteps
<1>3. SavedInv => RestoredIsWhole
  <2> SUFFICES ASSUME SavedInv, ~saved.kept PROVE Cardinality(saved.restored) <= 1
    BY DEF RestoredIsWhole
  <2>1. \A x, y \in saved.restored : x = y
    BY DEF SavedInv
  <2>2. saved.restored = {} \/ \E x \in saved.restored : saved.restored = {x}
    BY <2>1
  <2>3. CASE saved.restored = {}
    BY <2>3, FS_EmptySet
  <2>4. ASSUME NEW x, saved.restored = {x} PROVE Cardinality(saved.restored) <= 1
    <3>1. Cardinality({x}) = 1
      BY FS_Singleton
    <3> QED BY <2>4, <3>1
  <2> QED BY <2>2, <2>3, <2>4
<1> QED BY <1>1, <1>2, <1>3, PTL DEF SavedSpec

-----------------------------------------------------------------------------
OverlaySpec == OverlayInit /\ [][OverlaySteps]_overlay

Trees == {"portal", "hl2", "platform"}

OverlayRecords ==
    [at : {"idle", "walk", "found", "missing", "rejected"}, holds : SUBSET Trees, bad : SUBSET Trees,
     parsed : SUBSET Trees, next : 1 .. 4, found : Trees \cup {"none"}]

\* No archive before the next one of the search path has the file.
OverlayInv ==
    /\ overlay \in OverlayRecords
    /\ overlay.at = "walk" => \A i \in 1 .. overlay.next - 1 : VpkDirs[i] \notin overlay.holds
    /\ ResolvedIsFirst

(* The first archive of the search path that has a file is the one used     *)
(* (createSourceVpkOverlay).                                                *)
THEOREM FirstResolves == OverlaySpec => []ResolvedIsFirst
<1>0. /\ VpkDirs[1] = "portal" /\ VpkDirs[2] = "hl2" /\ VpkDirs[3] = "platform" /\ Len(VpkDirs) = 3
      /\ SearchOrder = VpkDirs
  BY DEF VpkDirs, SearchOrder
<1>1. OverlayInit => OverlayInv
  BY DEF OverlayInit, OverlayInv, OverlayRecords, ResolvedIsFirst
<1>2. OverlayInv /\ [OverlaySteps]_overlay => OverlayInv'
  <2> SUFFICES ASSUME OverlayInv, [OverlaySteps]_overlay PROVE OverlayInv'
    OBVIOUS
  <2>0. overlay \in OverlayRecords
    BY DEF OverlayInv
  <2>1. ASSUME NEW holds \in SUBSET Trees, NEW bad \in SUBSET Trees, AskPath(holds, bad)
        PROVE  OverlayInv'
    <3>1. overlay' = [at |-> "walk", holds |-> holds, bad |-> bad, parsed |-> overlay.parsed,
                      next |-> 1, found |-> "none"]
      BY <2>0, <2>1 DEF AskPath, OverlayRecords
    <3>2. overlay.parsed \in SUBSET Trees
      BY <2>0 DEF OverlayRecords
    <3>3. overlay' \in OverlayRecords /\ overlay'.at = "walk" /\ overlay'.next = 1
      BY <3>1, <3>2 DEF OverlayRecords
    <3> QED BY <3>3 DEF OverlayInv, ResolvedIsFirst
  <2>2. CASE WalkDirectory
    <3> DEFINE dir == VpkDirs[overlay.next]
    <3>1. dir \in Trees /\ overlay.next \in 1 .. 3 /\ overlay.at = "walk"
      <4>0. overlay.next \in 1 .. 4
        BY <2>0 DEF OverlayRecords
      <4>1. overlay.next \in 1 .. 3 /\ overlay.at = "walk"
        <5>1. overlay.next <= Len(SearchOrder) /\ overlay.at = "walk"
          BY <2>2 DEF WalkDirectory
        <5>2. Len(SearchOrder) = 3
          BY <1>0
        <5>3. overlay.next <= 3
          BY <5>1, <5>2
        <5> QED BY <5>1, <5>3, <4>0
      <4>2. overlay.next = 1 \/ overlay.next = 2 \/ overlay.next = 3
        BY <4>1
      <4> QED BY <4>1, <4>2, <1>0 DEF Trees
    <3>2. overlay' = LET o == [overlay EXCEPT !.parsed = @ \union {dir}]
                     IN  IF dir \in o.bad THEN [o EXCEPT !.at = "rejected"]
                         ELSE IF dir \in o.holds THEN [o EXCEPT !.at = "found", !.found = dir]
                         ELSE [o EXCEPT !.next = @ + 1]
      BY <2>2, <1>0 DEF WalkDirectory
    <3>3. \A i \in 1 .. overlay.next - 1 : VpkDirs[i] \notin overlay.holds
      BY <3>1 DEF OverlayInv
    <3>4. CASE dir \in overlay.bad
      <4>1. overlay' \in OverlayRecords /\ overlay'.at = "rejected"
        BY <2>0, <3>1, <3>2, <3>4 DEF OverlayRecords
      <4> QED BY <4>1 DEF OverlayInv, ResolvedIsFirst
    <3>5. CASE dir \notin overlay.bad /\ dir \in overlay.holds
      <4> HIDE DEF dir
      <4>1. overlay' \in OverlayRecords /\ overlay'.at = "found" /\ overlay'.found = dir
            /\ overlay'.holds = overlay.holds
        BY <2>0, <3>1, <3>2, <3>5 DEF OverlayRecords
      <4>2. ASSUME NEW i \in 1 .. 3, VpkDirs[i] \in overlay.holds
            PROVE  \E k \in 1 .. i : VpkDirs[k] = dir
        <5>1. overlay.next \in 1 .. i
          BY <3>1, <3>3, <4>2
        <5> QED BY <5>1 DEF dir
      <4> QED BY <4>1, <4>2 DEF OverlayInv, ResolvedIsFirst
    <3>6. CASE dir \notin overlay.bad /\ dir \notin overlay.holds
      <4>0. overlay.next + 1 \in 1 .. 4
        BY <3>1
      <4> HIDE DEF dir
      <4>1. overlay' \in OverlayRecords /\ overlay'.at = "walk" /\ overlay'.next = overlay.next + 1
            /\ overlay'.holds = overlay.holds
        BY <2>0, <3>1, <3>2, <3>6, <4>0 DEF OverlayRecords
      <4>2. \A i \in 1 .. overlay.next : VpkDirs[i] \notin overlay.holds
        BY <3>1, <3>3, <3>6 DEF dir
      <4> QED BY <4>1, <4>2, <3>1 DEF OverlayInv, ResolvedIsFirst
    <3> QED BY <3>4, <3>5, <3>6
  <2>3. CASE WalkEnds
    <3>1. overlay' \in OverlayRecords /\ overlay'.at = "missing" /\ overlay'.holds = overlay.holds
      BY <2>0, <2>3 DEF WalkEnds, OverlayRecords
    <3>0. overlay.next \in 1 .. 4 /\ overlay.holds \subseteq Trees
      BY <2>0 DEF OverlayRecords
    <3>2. overlay.next = 4 /\ overlay.at = "walk" /\ overlay.holds \subseteq Trees
      BY <3>0, <2>3, <1>0 DEF WalkEnds
    <3>3. VpkDirs[1] \notin overlay.holds /\ VpkDirs[2] \notin overlay.holds /\ VpkDirs[3] \notin overlay.holds
      BY <3>2 DEF OverlayInv
    <3>4. overlay.holds = {}
      BY <3>2, <3>3, <1>0 DEF Trees
    <3> QED BY <3>1, <3>4 DEF OverlayInv, ResolvedIsFirst
  <2>4. CASE UNCHANGED overlay
    BY <2>4 DEF OverlayInv, ResolvedIsFirst
  <2> QED BY <2>1, <2>2, <2>3, <2>4 DEF OverlaySteps, Trees
<1>3. OverlayInv => ResolvedIsFirst
  BY DEF OverlayInv
<1> QED BY <1>1, <1>2, <1>3, PTL DEF OverlaySpec

-----------------------------------------------------------------------------
MountSpec == MountInit /\ [][MountSteps]_mount

\* Nothing is mounted but while roots are, or when that was the way.
MountInv ==
    /\ mount \in [at : {"idle", "bridge", "workerfs", "index", "mounted", "failed"},
                  mode : {"none", "bridge", "workerfs", "index"}, roots : SUBSET Trees, written : Nat]
    /\ mount.at \in {"idle", "bridge", "index", "failed"} => mount.roots = {}
    /\ mount.at = "mounted" => (mount.mode = "workerfs") = (mount.roots # {})

(* The player's files are mounted in one way only (createPortalPcSession).   *)
THEOREM MountsOnce == MountSpec => []OneMount
<1>1. MountInit => MountInv
  BY DEF MountInit, MountInv
<1>2. MountInv /\ [MountSteps]_mount => MountInv'
  <2> SUFFICES ASSUME MountInv, [MountSteps]_mount PROVE MountInv'
    OBVIOUS
  <2> USE DEF MountInv
  <2>1. CASE LoadPackage
    BY <2>1 DEF LoadPackage
  <2>2. CASE BridgeMount
    BY <2>2 DEF BridgeMount
  <2>3. CASE MountRoot
    <3>1. CASE \E root \in {"portal", "hl2", "platform"} \ mount.roots :
                  mount' = [mount EXCEPT !.roots = @ \union {root}]
      <4>1. PICK root \in Trees : mount' = [mount EXCEPT !.roots = @ \union {root}]
        BY <3>1 DEF Trees
      <4> QED BY <2>3, <4>1 DEF MountRoot
    <3>2. CASE /\ {"portal", "hl2"} \subseteq mount.roots
               /\ mount' = [mount EXCEPT !.at = "mounted", !.mode = "workerfs"]
      BY <3>2
    <3>3. CASE mount' = [Unmounted(mount) EXCEPT !.at = "index"]
      BY <3>3 DEF Unmounted
    <3> QED BY <2>3, <3>1, <3>2, <3>3 DEF MountRoot
  <2>4. CASE IndexFile
    <3>1. mount.at = "index" /\ mount.roots = {}
      BY <2>4 DEF IndexFile
    <3>2. CASE mount' = [mount EXCEPT !.written = @ + 1]
      BY <3>1, <3>2
    <3>3. CASE mount' = [mount EXCEPT !.at = "mounted", !.mode = "index"]
      BY <3>1, <3>3
    <3>4. CASE mount' = [mount EXCEPT !.at = "failed"]
      BY <3>1, <3>4
    <3> QED BY <2>4, <3>2, <3>3, <3>4 DEF IndexFile
  <2>5. CASE UNCHANGED mount
    BY <2>5
  <2> QED BY <2>1, <2>2, <2>3, <2>4, <2>5 DEF MountSteps
<1>3. MountInv => OneMount
  BY DEF MountInv, OneMount
<1> QED BY <1>1, <1>2, <1>3, PTL DEF MountSpec

-----------------------------------------------------------------------------
ReserveSpec == ReserveInit /\ [][ReserveSteps]_reserve

ReserveInv ==
    /\ reserve \in [at : {"idle", "growing", "partial", "reserved"}, target : Nat, size : Nat, before : Nat]
    /\ ReserveIsCapped

(* The heap never grows past its cap (ensureEmulatorMemoryReserve).         *)
THEOREM ReserveCapped == ReserveSpec => []ReserveIsCapped
<1> USE PortAssumption
<1>1. ReserveInit => ReserveInv
  BY DEF ReserveInit, ReserveInv, ReserveIsCapped
<1>2. ReserveInv /\ [ReserveSteps]_reserve => ReserveInv'
  <2> SUFFICES ASSUME ReserveInv, [ReserveSteps]_reserve PROVE ReserveInv'
    OBVIOUS
  <2> USE DEF ReserveInv
  <2>1. ASSUME NEW wanted \in 1 .. MaxReserve, NEW ceiling \in 1 .. MaxReserve,
               RequestReserve(wanted, ceiling)
        PROVE  ReserveInv'
    <3> DEFINE target == IF wanted < ceiling THEN wanted ELSE ceiling
    <3>1. /\ reserve' = [reserve EXCEPT !.at = "growing", !.before = reserve.size, !.target = target]
          /\ target \in Nat
      BY <2>1 DEF RequestReserve
    <3> HIDE DEF target
    <3>2. /\ reserve'.at = "growing" /\ reserve'.before = reserve.size /\ reserve'.size = reserve.size
          /\ reserve'.target = target
          /\ reserve' \in [at : {"idle", "growing", "partial", "reserved"}, target : Nat, size : Nat,
                            before : Nat]
      BY <3>1
    <3> QED BY <3>1, <3>2 DEF ReserveIsCapped
  <2>2. CASE GrowReserve
    <3>1. GrowBy(reserve) \in Nat /\ reserve.size + GrowBy(reserve) <= reserve.target
      BY <2>2 DEF GrowReserve, GrowBy, GrowStep
    <3>2. CASE reserve' = [reserve EXCEPT !.size = @ + GrowBy(reserve)]
      BY <3>1, <3>2 DEF ReserveIsCapped
    <3>3. CASE reserve' = [reserve EXCEPT !.at = "partial"]
      BY <3>3 DEF ReserveIsCapped
    <3> QED BY <2>2, <3>2, <3>3 DEF GrowReserve
  <2>3. CASE ReserveDone
    BY <2>3 DEF ReserveDone, ReserveIsCapped
  <2>4. CASE UNCHANGED reserve
    BY <2>4 DEF ReserveIsCapped
  <2> QED BY <2>1, <2>2, <2>3, <2>4 DEF ReserveSteps
<1>3. ReserveInv => ReserveIsCapped
  BY DEF ReserveInv
<1> QED BY <1>1, <1>2, <1>3, PTL DEF ReserveSpec

-----------------------------------------------------------------------------
(* The engine worker (PortRuntime)                                           *)

EngineSpec == EngineInit /\ [][EngineSteps]_engine

Loads == {"nothing", "filtered", "staged", "checked", "imported", "mounted", "ready"}

EngineRecords ==
    [adapter : {"idle", "waiting", "ready", "failed", "started", "stopped"},
     worker : {"none", "idle", "loading", "up", "closing"}, loaded : Loads, files : BOOLEAN, stack : BOOLEAN,
     main : {"no", "due", "entered"}, toWorker : Seq({"init", "run"}), toPage : Seq({"ready", "fatal"})]

\* A worker is told to initialize once, before anything is loaded, and to run
\* only after it has answered; main is due only when all is loaded.
EngineInv ==
    /\ engine \in EngineRecords
    /\ engine.adapter = "idle" => engine.toWorker = <<>> /\ engine.worker = "none"
    /\ engine.toWorker \in {<<>>, <<"init">>, <<"run">>}
    /\ engine.adapter = "idle" \/ engine.toWorker = <<"init">> => engine.loaded = "nothing"
    /\ engine.toWorker = <<"init">> => engine.worker = "idle"
    /\ engine.adapter \in {"idle", "waiting", "ready"} => engine.toWorker # <<"run">>
    /\ engine.worker = "loading" => engine.loaded # "ready"
    /\ engine.adapter \in {"ready", "started"} \/ (\E i \in DOMAIN engine.toPage : engine.toPage[i] = "ready")
          => engine.loaded = "ready"
    /\ engine.loaded \in {"mounted", "ready"} => engine.files
    /\ engine.main # "no" => engine.loaded = "ready"
    /\ MainFindsItsFiles

(* What the worker has loaded next.                                         *)
LEMMA NextLoads ==
    ASSUME engine \in EngineRecords, engine.loaded # "ready"
    PROVE  /\ NextStage(engine) \in Loads \ {"nothing"}
           /\ NextStage(engine) = "mounted" \/ NextStage(engine) = "ready" <=>
                 engine.loaded = "imported" \/ engine.loaded = "mounted"
           /\ NextStage(engine) = "ready" <=> engine.loaded = "mounted"
<1>0. /\ Stages[1] = "filtered" /\ Stages[2] = "staged" /\ Stages[3] = "checked" /\ Stages[4] = "imported"
      /\ Stages[5] = "mounted" /\ Stages[6] = "ready" /\ Len(Stages) = 6
  BY DEF Stages
<1>1. engine.loaded \in Loads
  BY DEF EngineRecords
<1>2. CASE engine.loaded = "nothing"
  BY <1>2, <1>0 DEF NextStage, Loads
<1>3. CASE engine.loaded # "nothing"
  <2> DEFINE n == CHOOSE i \in 1 .. Len(Stages) : Stages[i] = engine.loaded
  <2>1. \E i \in 1 .. Len(Stages) : Stages[i] = engine.loaded
    <3>1. engine.loaded \in {"filtered", "staged", "checked", "imported", "mounted"}
      BY <1>1, <1>3 DEF Loads
    <3>2. 1 .. Len(Stages) = 1 .. 6
      BY <1>0
    <3>3. \E i \in 1 .. 6 : Stages[i] = engine.loaded
      BY <1>0, <3>1
    <3> QED BY <3>2, <3>3
  <2>2. n \in 1 .. Len(Stages) /\ Stages[n] = engine.loaded
    BY <2>1
  <2>3. NextStage(engine) = Stages[1 + n]
    BY <1>3 DEF NextStage
  <2> HIDE DEF n
  <2>4. n \in 1 .. 6
    BY <2>2, <1>0
  <2>5. n = 1 \/ n = 2 \/ n = 3 \/ n = 4 \/ n = 5 \/ n = 6
    BY <2>4
  <2>6. n # 6
    BY <2>2, <1>0
  <2> QED BY <2>2, <2>3, <2>5, <2>6, <1>0 DEF Loads
<1> QED BY <1>2, <1>3

(* A message the page gets.                                                 *)
LEMMA PageTold ==
    ASSUME NEW s \in Seq({"ready", "fatal"}), NEW m \in {"ready", "fatal"}
    PROVE  /\ Append(s, m) \in Seq({"ready", "fatal"})
           /\ \A i \in DOMAIN Append(s, m) : Append(s, m)[i] = "ready" =>
                 m = "ready" \/ \E j \in DOMAIN s : s[j] = "ready"
<1>1. Append(s, m) \in Seq({"ready", "fatal"}) /\ Len(Append(s, m)) = Len(s) + 1
  OBVIOUS
<1>2. ASSUME NEW i \in DOMAIN Append(s, m), Append(s, m)[i] = "ready", m # "ready"
      PROVE  \E j \in DOMAIN s : s[j] = "ready"
  <2>1. i \in 1 .. Len(s) + 1
    BY <1>1
  <2>2. i # Len(s) + 1
    BY <1>2
  <2> QED BY <1>2, <2>1, <2>2
<1> QED BY <1>1, <1>2

Ready(e) == \E i \in DOMAIN e.toPage : e.toPage[i] = "ready"

LEMMA EngineKeeps == EngineInv /\ [EngineSteps]_engine => EngineInv'
<1> SUFFICES ASSUME EngineInv, [EngineSteps]_engine PROVE EngineInv'
  OBVIOUS
<1>0. engine \in EngineRecords
  BY DEF EngineInv
<1>a. engine.toPage \in Seq({"ready", "fatal"}) /\ engine.toWorker \in Seq({"init", "run"})
  BY <1>0 DEF EngineRecords
<1> USE DEF EngineInv
<1>1. CASE PostInit
  <2>1. engine' = [engine EXCEPT !.adapter = "waiting", !.worker = "idle", !.toWorker = <<"init">>]
    <3>1. engine.toWorker = <<>>
      BY <1>1 DEF PostInit
    <3>2. Append(engine.toWorker, "init") = <<"init">>
      BY <3>1
    <3> QED BY <3>2, <1>1 DEF PostInit
  <2>2. <<"init">> \in Seq({"init", "run"})
    OBVIOUS
  <2>3. engine' \in EngineRecords
    BY <1>0, <2>1, <2>2 DEF EngineRecords
  <2>4. engine.adapter = "idle" /\ engine.loaded = "nothing" /\ engine.main = "no"
    BY <1>1 DEF PostInit
  <2>5. /\ engine'.adapter = "waiting" /\ engine'.worker = "idle" /\ engine'.toWorker = <<"init">>
        /\ engine'.loaded = "nothing" /\ engine'.main = "no" /\ engine'.toPage = engine.toPage
    BY <1>0, <2>1, <2>4 DEF EngineRecords
  <2>6. ~Ready(engine)
    BY <2>4 DEF Ready
  <2> QED BY <2>3, <2>5, <2>6 DEF Ready, MainFindsItsFiles
<1>2. CASE WorkerTakes
  <2> DEFINE e == [engine EXCEPT !.toWorker = <<>>]
  <2>1. engine.toWorker \in {<<"init">>, <<"run">>} /\ Tail(engine.toWorker) = <<>>
    <3>1. engine.toWorker \in {<<"init">>, <<"run">>}
      BY <1>2 DEF WorkerTakes
    <3>2. Tail(<<"init">>) = <<>> /\ Tail(<<"run">>) = <<>>
      OBVIOUS
    <3> QED BY <3>1, <3>2
  <2>2. e \in EngineRecords
    <3>1. <<>> \in Seq({"init", "run"})
      OBVIOUS
    <3> QED BY <1>0, <3>1 DEF EngineRecords
  <2>3. CASE engine.toWorker = <<"init">>
    <3>1. Head(engine.toWorker) = "init"
      BY <2>3
    <3>2. engine' = [e EXCEPT !.worker = "loading"]
      BY <1>2, <2>1, <3>1 DEF WorkerTakes
    <3>3. engine' \in EngineRecords
      BY <2>2, <3>2 DEF EngineRecords
    <3>4. engine.adapter # "idle" /\ engine.loaded = "nothing"
      BY <2>3
    <3> QED BY <1>0, <3>2, <3>3, <3>4 DEF EngineRecords, MainFindsItsFiles
  <2>4. CASE engine.toWorker = <<"run">>
    <3>1. Head(engine.toWorker) = "run"
      BY <2>4
    <3>2. engine' = IF e.loaded # "ready" THEN Fatal(e)
                    ELSE IF e.main # "no" THEN e ELSE [e EXCEPT !.main = "due"]
      BY <1>2, <2>1, <3>1 DEF WorkerTakes
    <3>3. engine.adapter # "idle"
      BY <2>4
    <3>4. CASE e.loaded # "ready"
      <4>1. engine' = [e EXCEPT !.toPage = Append(engine.toPage, "fatal")]
        BY <1>0, <3>2, <3>4 DEF Fatal, EngineRecords
      <4>2. Append(engine.toPage, "fatal") \in Seq({"ready", "fatal"})
        BY <1>a
      <4>3. engine' \in EngineRecords /\ engine'.toPage = Append(engine.toPage, "fatal")
        BY <2>2, <4>1, <4>2 DEF EngineRecords
      <4>4. Ready(engine') => Ready(engine)
        BY <1>a, <4>3, PageTold DEF Ready
      <4> QED BY <1>0, <3>3, <4>1, <4>3, <4>4 DEF EngineRecords, MainFindsItsFiles, Ready
    <3>5. CASE e.loaded = "ready" /\ e.main # "no"
      <4>1. engine' = e
        BY <3>2, <3>5
      <4> QED BY <1>0, <2>2, <3>3, <4>1 DEF EngineRecords, MainFindsItsFiles
    <3>6. CASE e.loaded = "ready" /\ e.main = "no"
      <4>1. engine' = [e EXCEPT !.main = "due"]
        BY <3>2, <3>6
      <4>2. engine' \in EngineRecords
        BY <2>2, <4>1 DEF EngineRecords
      <4> QED BY <1>0, <3>3, <3>6, <4>1, <4>2 DEF EngineRecords, MainFindsItsFiles
    <3> QED BY <3>4, <3>5, <3>6
  <2> QED BY <2>1, <2>3, <2>4
<1>3. CASE Initialize
  <2> DEFINE next == NextStage(engine)
             stack == engine.stack \/ next = "imported"
             files == engine.files \/ next = "mounted"
             e == [engine EXCEPT !.loaded = next, !.stack = stack, !.files = files]
  <2>0. engine.worker = "loading"
    BY <1>3 DEF Initialize
  <2>1. engine.worker = "loading" /\ engine.loaded # "ready" /\ engine.main = "no"
        /\ engine.adapter # "idle" /\ engine.toWorker # <<"init">>
    <3>1. engine.loaded # "ready" /\ engine.adapter # "idle" /\ engine.toWorker # <<"init">>
      BY <2>0
    <3> QED BY <2>0, <3>1
  <2>2. next \in Loads \ {"nothing"} /\ (next \in {"mounted", "ready"} => files)
    BY <1>0, <2>1, NextLoads
  <2>3. stack \in BOOLEAN /\ files \in BOOLEAN
    OBVIOUS
  <2>4. \/ next = "ready" /\ engine' = [e EXCEPT !.worker = "up", !.toPage = Append(@, "ready")]
        \/ next # "ready" /\ engine' = e
        \/ next # "ready" /\ engine' = [Fatal(engine) EXCEPT !.worker = "closing"]
    BY <1>3 DEF Initialize
  <2> HIDE DEF next, stack, files
  <2>5. e \in EngineRecords
    BY <1>0, <2>2, <2>3 DEF EngineRecords
  <2>6. /\ e.toPage = engine.toPage /\ e.toWorker = engine.toWorker /\ e.worker = engine.worker
        /\ e.adapter = engine.adapter /\ e.main = engine.main /\ e.loaded = next /\ e.files = files
    BY <1>0 DEF EngineRecords
  <2>7. CASE next = "ready" /\ engine' = [e EXCEPT !.worker = "up", !.toPage = Append(@, "ready")]
    <3>1. Append(engine.toPage, "ready") \in Seq({"ready", "fatal"})
      BY <1>a
    <3>2. /\ engine' \in EngineRecords
          /\ engine'.toWorker = engine.toWorker /\ engine'.worker = "up"
          /\ engine'.adapter = engine.adapter /\ engine'.main = engine.main /\ engine'.loaded = next
          /\ engine'.files = files
      <4> HIDE DEF e
      <4> QED BY <2>5, <2>6, <2>7, <3>1 DEF EngineRecords
    <3> QED BY <3>2, <2>1, <2>2, <2>7 DEF MainFindsItsFiles
  <2>8. CASE next # "ready" /\ engine' = e
    <3> HIDE DEF e
    <3>1. ~Ready(engine) /\ ~Ready(e)
      BY <2>1, <2>6 DEF Ready
    <3> QED BY <2>5, <2>6, <2>8, <2>1, <2>2, <3>1 DEF MainFindsItsFiles, Ready
  <2>9. CASE next # "ready" /\ engine' = [Fatal(engine) EXCEPT !.worker = "closing"]
    <3>1. engine' = [engine EXCEPT !.toPage = Append(engine.toPage, "fatal"), !.worker = "closing"]
      BY <1>0, <2>9 DEF Fatal, EngineRecords
    <3>2. Append(engine.toPage, "fatal") \in Seq({"ready", "fatal"})
      BY <1>a
    <3>3. engine' \in EngineRecords /\ engine'.toPage = Append(engine.toPage, "fatal")
      BY <1>0, <3>1, <3>2 DEF EngineRecords
    <3>4. Ready(engine') => Ready(engine)
      BY <1>a, <3>3, PageTold DEF Ready
    <3> QED BY <1>0, <2>1, <3>1, <3>3, <3>4 DEF EngineRecords, MainFindsItsFiles, Ready
  <2> QED BY <2>4, <2>7, <2>8, <2>9
<1>4. CASE Unhandled
  <2>1. engine' = [engine EXCEPT !.toPage = Append(engine.toPage, "fatal")]
        /\ engine.worker \in {"loading", "up"}
    BY <1>4 DEF Unhandled, Fatal
  <2>2. Append(engine.toPage, "fatal") \in Seq({"ready", "fatal"})
    BY <1>a
  <2>3. engine' \in EngineRecords /\ engine'.toPage = Append(engine.toPage, "fatal")
    BY <1>0, <2>1, <2>2 DEF EngineRecords
  <2>4. Ready(engine') => Ready(engine)
    BY <1>a, <2>3, PageTold DEF Ready
  <2> QED BY <1>0, <2>1, <2>3, <2>4 DEF EngineRecords, MainFindsItsFiles, Ready
<1>5. CASE LateConstructor
  <2>1. engine' = [engine EXCEPT !.stack = FALSE] /\ engine.main # "entered"
    BY <1>5 DEF LateConstructor
  <2>2. engine' \in EngineRecords
    BY <1>0, <2>1 DEF EngineRecords
  <2> QED BY <1>0, <2>1, <2>2 DEF EngineRecords, MainFindsItsFiles
<1>6. CASE CallMain
  <2>1. engine' = [engine EXCEPT !.stack = TRUE, !.main = "entered"] /\ engine.main = "due"
    BY <1>0, <1>6 DEF CallMain, Repaired, EngineRecords
  <2>2. engine' \in EngineRecords
    BY <1>0, <2>1 DEF EngineRecords
  <2> QED BY <1>0, <2>1, <2>2 DEF EngineRecords, MainFindsItsFiles
<1>7. CASE CloseWorker
  <2>1. engine' = [engine EXCEPT !.worker = "none", !.toWorker = <<>>] /\ engine.worker = "closing"
    BY <1>7 DEF CloseWorker
  <2>2. engine' \in EngineRecords
    <3>1. <<>> \in Seq({"init", "run"})
      OBVIOUS
    <3> QED BY <1>0, <2>1, <3>1 DEF EngineRecords
  <2> QED BY <1>0, <2>1, <2>2 DEF EngineRecords, MainFindsItsFiles
<1>8. CASE PageTakes
  <2> DEFINE adapter == IF engine.adapter # "waiting" THEN engine.adapter
                        ELSE IF Head(engine.toPage) = "ready" THEN "ready" ELSE "failed"
             rest == Tail(engine.toPage)
  <2>1. engine' = [engine EXCEPT !.toPage = rest, !.adapter = adapter] /\ engine.toPage # <<>>
    BY <1>8 DEF PageTakes
  <2>2. rest \in Seq({"ready", "fatal"})
        /\ (\A i \in DOMAIN rest : rest[i] = engine.toPage[i + 1] /\ i + 1 \in DOMAIN engine.toPage)
        /\ Head(engine.toPage) = engine.toPage[1] /\ 1 \in DOMAIN engine.toPage
    BY <1>a, <2>1
  <2>3. adapter \in {"idle", "waiting", "ready", "failed", "started", "stopped"}
    BY <1>0 DEF EngineRecords
  <2>4. /\ adapter = "idle" => engine.adapter = "idle"
        /\ adapter \in {"idle", "waiting", "ready"} => engine.adapter \in {"idle", "waiting", "ready"}
    OBVIOUS
  <2>5. adapter \in {"ready", "started"} => engine.adapter \in {"ready", "started"} \/ Ready(engine)
    BY <2>2 DEF Ready
  <2> HIDE DEF adapter, rest
  <2>6. engine' \in EngineRecords /\ engine'.toPage = rest /\ engine'.adapter = adapter
    BY <1>0, <2>1, <2>2, <2>3 DEF EngineRecords
  <2>7. Ready(engine') => Ready(engine)
    BY <2>2, <2>6 DEF Ready
  <2> QED BY <1>0, <2>1, <2>4, <2>5, <2>6, <2>7 DEF EngineRecords, MainFindsItsFiles, Ready
<1>9. CASE WaitTimesOut
  <2>1. engine' = [engine EXCEPT !.adapter = "failed"]
    BY <1>9 DEF WaitTimesOut
  <2>2. engine' \in EngineRecords
    BY <1>0, <2>1 DEF EngineRecords
  <2> QED BY <1>0, <2>1, <2>2 DEF EngineRecords, MainFindsItsFiles
<1>10. CASE PostRun
  <2> DEFINE to == Append(engine.toWorker, "run")
  <2>1. engine' = [engine EXCEPT !.adapter = "started", !.toWorker = to] /\ engine.adapter = "ready"
    BY <1>10 DEF PostRun
  <2>2. to \in Seq({"init", "run"})
    BY <1>a
  <2>3. engine.loaded = "ready"
    BY <2>1
  <2>5. engine.toWorker = <<>>
    <3>1. engine.toWorker # <<"init">> /\ engine.toWorker # <<"run">>
      <4>1. engine.toWorker = <<"init">> => engine.loaded = "nothing"
        OBVIOUS
      <4> QED BY <4>1, <2>1, <2>3
    <3> QED BY <3>1
  <2>6. to = <<"run">>
    BY <2>5
  <2> HIDE DEF to
  <2>4. engine' \in EngineRecords
    BY <1>0, <2>1, <2>2 DEF EngineRecords
  <2> QED BY <1>0, <2>1, <2>3, <2>4, <2>6 DEF EngineRecords, MainFindsItsFiles
<1>11. CASE Terminate
  <2> DEFINE main == IF engine.main = "due" THEN "no" ELSE engine.main
  <2>1. engine' = [engine EXCEPT !.adapter = "stopped", !.worker = "none", !.toWorker = <<>>, !.toPage = <<>>,
                                 !.main = main]
    BY <1>11 DEF Terminate
  <2>2. main \in {"no", "due", "entered"} /\ (main # "no" => engine.main = main)
    BY <1>0 DEF EngineRecords
  <2>3. <<>> \in Seq({"init", "run"}) /\ <<>> \in Seq({"ready", "fatal"}) /\ DOMAIN <<>> = {}
    OBVIOUS
  <2> HIDE DEF main
  <2>4. engine' \in EngineRecords
    BY <1>0, <2>1, <2>2, <2>3 DEF EngineRecords
  <2> QED BY <1>0, <2>1, <2>2, <2>3, <2>4 DEF EngineRecords, MainFindsItsFiles
<1>12. CASE UNCHANGED engine
  BY <1>12 DEF MainFindsItsFiles
<1> QED BY <1>1, <1>2, <1>3, <1>4, <1>5, <1>6, <1>7, <1>8, <1>9, <1>10, <1>11, <1>12 DEF EngineSteps

(* main is entered with the files mounted and the stack limits in place     *)
(* (portal-source-worker.mjs).                                              *)
THEOREM MainIsReady == EngineSpec => []MainFindsItsFiles
<1>1. EngineInit => EngineInv
  BY DEF EngineInit, EngineInv, EngineRecords, Loads, MainFindsItsFiles
<1>2. EngineInv => MainFindsItsFiles
  BY DEF EngineInv
<1> QED BY <1>1, <1>2, EngineKeeps, PTL DEF EngineSpec

-----------------------------------------------------------------------------
(* The parts of a PC game side by side (PortRuntime)                         *)

PortSpec ==
    HoldSpec /\ EngineSpec /\ KeysSpec /\ SavedSpec /\ OverlaySpec /\ MountSpec /\ ReserveSpec

(* There is one session of a PC game, the page holds it, and its pad lets   *)
(* go (pc-recompiled-runtime.js, pc-controller-input.js).                   *)
THEOREM SessionIsHeldHolds == PortSpec => []SessionIsHeld
<1>1. FailedPortLeavesNothing /\ HeldIsLive /\ OneSession /\ StopReleasesKeys => SessionIsHeld
  BY DEF SessionIsHeld
<1> QED BY <1>1, SessionHolds, PadLetsGo, PTL DEF PortSpec

(* A PC game finds one installation, the right file of it, mounted in one   *)
(* way, in memory the device has (pc-persistent-storage.js,                 *)
(* source-vpk-source.js, pc-workerfs-session.js).                           *)
THEOREM PlayerFilesAreWholeHolds == PortSpec => []PlayerFilesAreWhole
<1>1. RestoredIsWhole /\ ResolvedIsFirst /\ OneMount /\ ReserveIsCapped => PlayerFilesAreWhole
  BY DEF PlayerFilesAreWhole
<1> QED BY <1>1, RestoresWhole, FirstResolves, MountsOnce, ReserveCapped, PTL DEF PortSpec

-----------------------------------------------------------------------------
(* The settings two modules share (PageLibrary)                              *)

PrefsSpec == PrefsInit /\ [][PrefsSteps]_prefs

PrefsInv ==
    /\ prefs \in [stored : Modes, live : Modes, snapshot : Modes, profile : Modes \cup {"inherit"},
                  chosen : Modes, asked : BOOLEAN, launched : Modes]
    /\ ChosenModeKept

(* Saving the other settings does not change the mode the player chose      *)
(* (settings/app-settings-store.js, execution-engine.js).                   *)
THEOREM ChosenModeHolds == PrefsSpec => []ChosenModeKept
<1>1. PrefsInit => PrefsInv
  BY DEF PrefsInit, PrefsInv, ChosenModeKept, Modes
<1>2. PrefsInv /\ [PrefsSteps]_prefs => PrefsInv'
  <2> SUFFICES ASSUME PrefsInv, [PrefsSteps]_prefs PROVE PrefsInv'
    OBVIOUS
  <2> USE DEF PrefsInv, ChosenModeKept
  <2>0. "auto" \in Modes
    BY DEF Modes
  <2>1. ASSUME NEW m \in Modes, ChooseMode(m) PROVE PrefsInv'
    BY <2>1 DEF ChooseMode
  <2>2. CASE SaveSettings
    BY <2>2 DEF SaveSettings, SavedMode
  <2>3. CASE AskReset
    BY <2>0, <2>3 DEF AskReset
  <2>4. CASE ConfirmReset
    BY <2>0, <2>4 DEF ConfirmReset
  <2>5. CASE ReloadPage
    BY <2>5 DEF ReloadPage
  <2>6. ASSUME NEW m \in Modes \cup {"inherit"}, SaveProfile(m) PROVE PrefsInv'
    BY <2>6 DEF SaveProfile
  <2>7. CASE PlayTitle
    <3>1. LaunchMode(prefs) \in Modes
      BY DEF LaunchMode
    <3> QED BY <2>7, <3>1 DEF PlayTitle
  <2>8. CASE UNCHANGED prefs
    BY <2>8
  <2> QED BY <2>1, <2>2, <2>3, <2>4, <2>5, <2>6, <2>7, <2>8 DEF PrefsSteps
<1>3. PrefsInv => ChosenModeKept
  BY DEF PrefsInv
<1> QED BY <1>1, <1>2, <1>3, PTL DEF PrefsSpec

-----------------------------------------------------------------------------
(* The service worker (PageLibrary)                                          *)

DeploysSpec == CacheInit /\ [][CacheSteps]_cache

BuildNumbers == 0 .. MaxDeploys + 1
RequestKinds == {"none", "page", "runtime", "shell"}
KeptBuilds == [page : BuildNumbers, shell : BuildNumbers]

\* A request was made after the build it was made under was deployed.
DeploysInv ==
    /\ cache \in [deployed : BuildNumbers \ {0}, worker : BuildNumbers, waiting : BuildNumbers,
                  kept : [BuildNumbers -> KeptBuilds],
                  request : [kind : RequestKinds, since : BuildNumbers],
                  served : [build : BuildNumbers, since : BuildNumbers, fresh : BOOLEAN, kind : RequestKinds]]
    /\ cache.request.since <= cache.deployed
    /\ ServedIsDeployed

\* Answering a request with a build as new as the one it was made under, or
\* without the network, where no runtime file comes from a cache.
LEMMA AnswerKeeps ==
    ASSUME DeploysInv, NEW build \in BuildNumbers, NEW fresh \in BOOLEAN, NEW kept \in KeptBuilds,
           Answer(build, fresh, kept),
           fresh => build = cache.deployed,
           cache.request.kind = "runtime" /\ ~fresh => build = 0
    PROVE  DeploysInv'
<1> DEFINE answered == Served(build, fresh)
           all == [cache.kept EXCEPT ![cache.worker] = kept]
           none == [kind |-> "none", since |-> 0]
<1>1. cache' = [cache EXCEPT !.served = answered, !.request = none, !.kept = all]
  BY DEF Answer
<1>2. /\ answered \in [build : BuildNumbers, since : BuildNumbers, fresh : BOOLEAN, kind : RequestKinds]
      /\ answered.build = build /\ answered.since = cache.request.since
      /\ answered.fresh = fresh /\ answered.kind = cache.request.kind
  BY DEF Served, DeploysInv
<1>3. all \in [BuildNumbers -> KeptBuilds]
  BY DEF DeploysInv
<1>4. none \in [kind : RequestKinds, since : BuildNumbers] /\ none.since = 0
  BY PageAssumption DEF RequestKinds, BuildNumbers
<1> HIDE DEF answered, all, none
<1>5. /\ cache'.served = answered /\ cache'.request = none /\ cache'.deployed = cache.deployed
      /\ cache' \in [deployed : BuildNumbers \ {0}, worker : BuildNumbers, waiting : BuildNumbers,
                  kept : [BuildNumbers -> KeptBuilds],
                  request : [kind : RequestKinds, since : BuildNumbers],
                  served : [build : BuildNumbers, since : BuildNumbers, fresh : BOOLEAN, kind : RequestKinds]]
  BY <1>1, <1>2, <1>3, <1>4 DEF DeploysInv
<1>6. cache.deployed \in Nat
  BY PageAssumption DEF DeploysInv, BuildNumbers
<1> QED BY <1>2, <1>4, <1>5, <1>6 DEF DeploysInv, ServedIsDeployed

(* No deploy leaves an old file behind while the network answers            *)
(* (render360-sw.js).                                                       *)
THEOREM ServedIsNew == DeploysSpec => []ServedIsDeployed
<1> USE PageAssumption
<1>1. CacheInit => DeploysInv
  BY DEF CacheInit, DeploysInv, ServedIsDeployed, BuildNumbers, RequestKinds, KeptBuilds, NothingKept
<1>2. DeploysInv /\ [CacheSteps]_cache => DeploysInv'
  <2> SUFFICES ASSUME DeploysInv, [CacheSteps]_cache PROVE DeploysInv'
    OBVIOUS
  <2>0. /\ cache.deployed \in BuildNumbers \ {0} /\ cache.deployed \in Nat /\ 0 \in BuildNumbers
        /\ cache.worker \in BuildNumbers /\ EntriesKept \in KeptBuilds
        /\ cache.request.since \in Nat
    BY DEF DeploysInv, BuildNumbers, EntriesKept
  <2>1. CASE Deploy
    <3>1. cache.deployed + 1 \in BuildNumbers \ {0}
      BY <2>0, <2>1 DEF Deploy, BuildNumbers
    <3> QED BY <2>0, <2>1, <3>1 DEF Deploy, DeploysInv, ServedIsDeployed
  <2>2. ASSUME NEW fetched \in SUBSET {"page", "shell"}, InstallWorker(fetched) PROVE DeploysInv'
    <3> DEFINE entry == [which \in DOMAIN cache.kept[cache.deployed] |->
                            IF which \in fetched THEN cache.deployed ELSE cache.kept[cache.deployed][which]]
               all == [cache.kept EXCEPT ![cache.deployed] = entry]
    <3>1. cache.kept[cache.deployed] \in KeptBuilds
      BY <2>0 DEF DeploysInv
    <3>2. entry \in KeptBuilds
      BY <2>0, <3>1 DEF KeptBuilds
    <3>3. cache' = [cache EXCEPT !.waiting = cache.deployed, !.kept = all]
      BY <2>2 DEF InstallWorker
    <3> HIDE DEF entry
    <3>4. all \in [BuildNumbers -> KeptBuilds]
      BY <2>0, <3>2 DEF DeploysInv
    <3> HIDE DEF all
    <3> QED BY <2>0, <3>3, <3>4 DEF DeploysInv, ServedIsDeployed
  <2>3. ASSUME NEW online \in BOOLEAN, NetworkFirstNoStore(online) PROVE DeploysInv'
    <3> DEFINE build == IF online THEN cache.deployed ELSE 0
    <3>1. build \in BuildNumbers /\ (online => build = cache.deployed) /\ (~online => build = 0)
      BY <2>0
    <3>2. Answer(build, online, EntriesKept)
      BY <2>3 DEF NetworkFirstNoStore
    <3> HIDE DEF build
    <3> QED BY <2>0, <3>1, <3>2, AnswerKeeps
  <2>4. ASSUME NEW online \in BOOLEAN, ShellAsset(online) PROVE DeploysInv'
    <3> DEFINE network == IF online THEN cache.deployed ELSE 0
               build == Preferred(network, EntriesKept.shell)
               kept == [EntriesKept EXCEPT !.shell = build]
    <3>1. build \in BuildNumbers /\ (online => build = cache.deployed)
      BY <2>0 DEF Preferred, KeptBuilds
    <3>2. Answer(build, online, kept) /\ cache.request.kind # "runtime"
      BY <2>4 DEF ShellAsset
    <3> HIDE DEF build
    <3>3. kept \in KeptBuilds
      BY <2>0, <3>1 DEF KeptBuilds
    <3> HIDE DEF kept
    <3> QED BY <2>0, <3>1, <3>2, <3>3, AnswerKeeps
  <2>5. ASSUME NEW online \in BOOLEAN, Navigation(online) PROVE DeploysInv'
    <3> DEFINE network == IF online THEN cache.deployed ELSE 0
               build == Preferred(network, EntriesKept.page)
               kept == [EntriesKept EXCEPT !.page = build]
    <3>1. build \in BuildNumbers /\ (online => build = cache.deployed)
      BY <2>0 DEF Preferred, KeptBuilds
    <3>2. Answer(build, online, kept) /\ cache.request.kind # "runtime"
      BY <2>5 DEF Navigation
    <3> HIDE DEF build
    <3>3. kept \in KeptBuilds
      BY <2>0, <3>1 DEF KeptBuilds
    <3> HIDE DEF kept
    <3> QED BY <2>0, <3>1, <3>2, <3>3, AnswerKeeps
  <2>9. ASSUME NEW build \in BuildNumbers, PreloadedNavigation(build) PROVE DeploysInv'
    <3> DEFINE kept == [EntriesKept EXCEPT !.page = Preferred(build, EntriesKept.page)]
    <3>1. Answer(build, FALSE, kept) /\ cache.request.kind # "runtime"
      BY <2>9 DEF PreloadedNavigation
    <3>2. kept \in KeptBuilds
      BY <2>0 DEF KeptBuilds, Preferred
    <3> HIDE DEF kept
    <3> QED BY <2>0, <3>1, <3>2, AnswerKeeps
  <2>6. CASE ActivateWorker
    <3> DEFINE all == [v \in DOMAIN cache.kept |-> IF v = cache.waiting THEN cache.kept[v] ELSE NothingKept]
    <3>1. all \in [BuildNumbers -> KeptBuilds]
      BY <2>0 DEF DeploysInv, NothingKept, KeptBuilds
    <3>2. cache' = [cache EXCEPT !.worker = cache.waiting, !.waiting = 0, !.kept = all]
      BY <2>6 DEF ActivateWorker
    <3> HIDE DEF all
    <3> QED BY <2>0, <3>1, <3>2 DEF DeploysInv, ServedIsDeployed
  <2>7. ASSUME NEW asked \in {"page", "runtime", "shell"}, Request(asked) PROVE DeploysInv'
    <3> DEFINE request == [kind |-> asked, since |-> cache.deployed]
    <3>1. request \in [kind : RequestKinds, since : BuildNumbers] /\ request.since = cache.deployed
      BY <2>0 DEF RequestKinds
    <3>2. cache' = [cache EXCEPT !.request = request]
      BY <2>7 DEF Request
    <3> HIDE DEF request
    <3> QED BY <2>0, <3>1, <3>2 DEF DeploysInv, ServedIsDeployed
  <2>8. CASE UNCHANGED cache
    BY <2>8 DEF DeploysInv, ServedIsDeployed
  <2> QED BY <2>1, <2>2, <2>3, <2>4, <2>5, <2>6, <2>7, <2>8, <2>9 DEF CacheSteps, BuildNumbers
<1>3. DeploysInv => ServedIsDeployed
  BY DEF DeploysInv
<1> QED BY <1>1, <1>2, <1>3, PTL DEF DeploysSpec

-----------------------------------------------------------------------------
(* RuntimeHost (PageLibrary)                                                 *)

HostSpec == HostInit /\ [][HostSteps]_host

HostMessages == [type : {"input", "reset"}, mask : Nat]
Hosts == [start : {"waiting", "ready", "rejected"}, timer : BOOLEAN,
          worker : {"loading", "up", "failed"}, sent : Nat, mask : Nat,
          channel : Seq(HostMessages), announced : BOOLEAN, lost : BOOLEAN]

\* The last message under way has the host's mask.
HostInv ==
    /\ host \in Hosts
    /\ host.channel # <<>> => host.channel[Len(host.channel)].mask = host.sent
    /\ MasksAgree

LEMMA MessageSent ==
    ASSUME HostInv, NEW m \in HostMessages,
           host' = [host EXCEPT !.sent = m.mask, !.channel = Append(host.channel, m)]
    PROVE  HostInv'
<1>1. host.channel \in Seq(HostMessages) /\ m.mask \in Nat
  BY DEF HostInv, Hosts, HostMessages
<1> DEFINE c == Append(host.channel, m)
<1>2. c \in Seq(HostMessages) /\ c # <<>> /\ c[Len(c)] = m
      /\ host' = [host EXCEPT !.sent = m.mask, !.channel = c]
  BY <1>1
<1> HIDE DEF c
<1>3. host' \in Hosts /\ host'.channel = c /\ host'.sent = m.mask
  BY <1>1, <1>2 DEF HostInv, Hosts
<1> QED BY <1>2, <1>3 DEF HostInv, MasksAgree

(* No key stays down on one side only (runtime-host.js, runtime-worker.js). *)
THEOREM MasksHold == HostSpec => []MasksAgree
<1>1. HostInit => HostInv
  BY DEF HostInit, HostInv, Hosts, MasksAgree
<1>2. HostInv /\ [HostSteps]_host => HostInv'
  <2> SUFFICES ASSUME HostInv, [HostSteps]_host PROVE HostInv'
    OBVIOUS
  <2>0. host \in Hosts
    BY DEF HostInv
  <2>1. CASE WorkerReady \/ CoreFails \/ HostReady \/ ScriptError \/ StartTimesOut
    <3>1. host' \in Hosts
      BY <2>0, <2>1 DEF WorkerReady, CoreFails, HostReady, ScriptError, StartTimesOut, Hosts
    <3>2. /\ host'.channel = host.channel /\ host'.sent = host.sent
          /\ host'.mask = host.mask /\ host'.lost = host.lost
      BY <2>0, <2>1 DEF WorkerReady, CoreFails, HostReady, ScriptError, StartTimesOut, Hosts
    <3> QED BY <3>1, <3>2 DEF HostInv, MasksAgree
  <2>2. ASSUME NEW m \in 0 .. 1, SendMask(m) PROVE HostInv'
    <3> DEFINE message == [type |-> "input", mask |-> m]
    <3>1. message \in HostMessages /\ message.mask = m
      BY DEF HostMessages
    <3>2. host' = [host EXCEPT !.sent = message.mask, !.channel = Append(host.channel, message)]
      BY <2>2 DEF SendMask
    <3> HIDE DEF message
    <3> QED BY <3>1, <3>2, MessageSent
  <2>3. CASE ResetHost
    <3> DEFINE message == [type |-> "reset", mask |-> 0]
    <3>1. message \in HostMessages /\ message.mask = 0
      BY DEF HostMessages
    <3>2. host' = [host EXCEPT !.sent = message.mask, !.channel = Append(host.channel, message)]
      BY <2>3 DEF ResetHost, AfterReset
    <3> HIDE DEF message
    <3> QED BY <3>1, <3>2, MessageSent
  <2>4. CASE TakeMessage
    <3> DEFINE c == host.channel
               here == host.worker = "up"
               mask == IF host.worker = "up" THEN Head(c).mask ELSE host.mask
    <3>1. c \in Seq(HostMessages) /\ c # <<>>
      BY <2>0, <2>4 DEF Hosts, TakeMessage
    <3>2. /\ Tail(c) \in Seq(HostMessages) /\ Head(c) = c[1] /\ Head(c) \in HostMessages
          /\ Tail(c) # <<>> => Tail(c)[Len(Tail(c))] = c[Len(c)]
          /\ Tail(c) = <<>> => Len(c) = 1
      <4> HIDE DEF c
      <4>1. Len(c) \in Nat /\ Len(c) > 0 /\ Len(Tail(c)) = Len(c) - 1 /\ Tail(c) \in Seq(HostMessages)
            /\ Head(c) = c[1]
        BY <3>1
      <4>2. \A i \in 1 .. Len(c) - 1 : Tail(c)[i] = c[i + 1]
        BY <3>1
      <4>3. Head(c) \in HostMessages
        BY <3>1, <4>1
      <4>4. Tail(c) # <<>> => Len(Tail(c)) > 0
        BY <4>1
      <4>5. Len(Tail(c)) > 0 => Tail(c)[Len(Tail(c))] = c[Len(c)]
        BY <4>1, <4>2
      <4>6. Tail(c) = <<>> => Len(c) = 1
        BY <4>1
      <4> QED BY <4>1, <4>3, <4>4, <4>5, <4>6
    <3>3. mask \in Nat
      BY <2>0, <3>2 DEF Hosts, HostMessages
    <3>4. host' = [host EXCEPT !.channel = Tail(c), !.lost = ~here, !.mask = mask] /\ here \in BOOLEAN
      BY <2>4 DEF TakeMessage
    <3>5. c[Len(c)].mask = host.sent
      BY <3>1 DEF HostInv
    <3>6. Tail(c) = <<>> => Head(c).mask = host.sent
      BY <3>2, <3>5
    <3>7. here => mask = Head(c).mask
      OBVIOUS
    <3> HIDE DEF c, here, mask
    <3>8. /\ host' \in Hosts /\ host'.channel = Tail(c) /\ host'.sent = host.sent
          /\ host'.mask = mask /\ host'.lost = ~here
      BY <2>0, <3>2, <3>3, <3>4 DEF Hosts
    <3> QED BY <3>2, <3>5, <3>6, <3>7, <3>8 DEF HostInv, MasksAgree
  <2>5. CASE UNCHANGED host
    BY <2>5 DEF HostInv, MasksAgree
  <2> QED BY <2>1, <2>2, <2>3, <2>4, <2>5 DEF HostSteps
<1>3. HostInv => MasksAgree
  BY DEF HostInv
<1> QED BY <1>1, <1>2, <1>3, PTL DEF HostSpec

-----------------------------------------------------------------------------
(* The cover of a title (PageLibrary)                                        *)

CoverSpec == CoverInit /\ [][CoverSteps]_cover

CoverSources == {"x360db", "marketplace", "unity"}
FailedIn(answers, source) == \E i \in 1 .. Len(answers) : answers[i] = <<source, FALSE>>

\* A source is asked when every better one has failed.
CoverInv ==
    /\ cover \in [at : CoverSources \cup {"info", "done"}, info : {"none", "plain", "boxart"},
                  aborted : BOOLEAN, tried : Seq(CoverSources \X BOOLEAN), from : CoverSources \cup {"none"}]
    /\ cover.at \in {"marketplace", "unity"} => FailedIn(cover.tried, "x360db")
    /\ cover.at = "unity" => FailedIn(cover.tried, "marketplace")
    /\ cover.at # "done" => cover.from = "none"
    /\ cover.from \in {"marketplace", "unity"} => FailedIn(cover.tried, "x360db")
    /\ cover.from = "unity" => FailedIn(cover.tried, "marketplace")

(* The database wins over the marketplace and that over the user covers     *)
(* (library/cover-resolver.js).                                             *)
THEOREM BestCoverHolds == CoverSpec => []BestCoverFirst
<1>1. CoverInit => CoverInv
  BY DEF CoverInit, CoverInv, CoverSources
<1>2. CoverInv /\ [CoverSteps]_cover => CoverInv'
  <2> SUFFICES ASSUME CoverInv, [CoverSteps]_cover PROVE CoverInv'
    OBVIOUS
  <2>1. ASSUME NEW a \in {"none", "plain", "boxart"}, AskInfo(a) PROVE CoverInv'
    BY <2>1 DEF AskInfo, AfterInfo, CoverInv, CoverSources, FailedIn
  <2>2. ASSUME NEW ok \in BOOLEAN, AskCover(ok) PROVE CoverInv'
    <3> DEFINE entry == <<cover.at, ok>>
               tried == Append(cover.tried, entry)
               from == IF ok THEN cover.at ELSE cover.from
               at == IF ok THEN "done" ELSE NextCover[cover.at]
    <3>0. cover.at \in CoverSources /\ cover.from = "none"
      BY <2>2 DEF AskCover, NextCover, CoverSources, CoverInv
    <3>1. /\ tried \in Seq(CoverSources \X BOOLEAN) /\ Len(tried) = Len(cover.tried) + 1
          /\ tried[Len(tried)] = entry
          /\ \A i \in 1 .. Len(cover.tried) : tried[i] = cover.tried[i]
          /\ Len(cover.tried) \in Nat
      BY <3>0 DEF CoverInv
    <3>a. \A i \in 1 .. Len(cover.tried) : i \in 1 .. Len(tried) /\ tried[i] = cover.tried[i]
      <4> HIDE DEF tried
      <4> QED BY <3>1
    <3>b. Len(tried) \in 1 .. Len(tried)
      <4> HIDE DEF tried
      <4> QED BY <3>1
    <3>2. /\ at = IF ok THEN "done" ELSE IF cover.at = "x360db" THEN "marketplace"
                  ELSE IF cover.at = "marketplace" THEN "unity" ELSE "done"
      BY <3>0 DEF NextCover, CoverSources
    <3>3. cover' = [cover EXCEPT !.tried = tried, !.from = from, !.at = at]
      BY <2>2 DEF AskCover
    <3>4. from = IF ok THEN cover.at ELSE "none"
      BY <3>0
    <3>5. ok \/ entry = <<cover.at, FALSE>>
      OBVIOUS
    <3> HIDE DEF entry, tried, from, at
    <3>6. /\ cover'.tried = tried /\ cover'.at = at /\ cover'.from = from
          /\ cover' \in [at : CoverSources \cup {"info", "done"}, info : {"none", "plain", "boxart"},
                  aborted : BOOLEAN, tried : Seq(CoverSources \X BOOLEAN), from : CoverSources \cup {"none"}]
      BY <3>0, <3>1, <3>2, <3>3, <3>4 DEF CoverInv, CoverSources
    <3>7. ASSUME NEW source, FailedIn(cover.tried, source) PROVE FailedIn(tried, source)
      <4>1. PICK i \in 1 .. Len(cover.tried) : cover.tried[i] = <<source, FALSE>>
        BY <3>7 DEF FailedIn
      <4>2. i \in 1 .. Len(tried) /\ tried[i] = <<source, FALSE>>
        BY <3>a, <4>1
      <4> QED BY <4>2 DEF FailedIn
    <3>8. ASSUME ~ok PROVE FailedIn(tried, cover.at)
      <4>1. tried[Len(tried)] = <<cover.at, FALSE>> /\ Len(tried) \in 1 .. Len(tried)
        BY <3>1, <3>b, <3>5, <3>8
      <4> QED BY <4>1 DEF FailedIn
    <3> QED BY <3>0, <3>2, <3>4, <3>6, <3>7, <3>8 DEF CoverInv, CoverSources
  <2>3. CASE AbortCover
    BY <2>3 DEF AbortCover, CoverInv, FailedIn
  <2>4. CASE UNCHANGED cover
    BY <2>4 DEF CoverInv, FailedIn
  <2> QED BY <2>1, <2>2, <2>3, <2>4 DEF CoverSteps
<1>3. CoverInv => BestCoverFirst
  BY DEF CoverInv, BestCoverFirst, FailedIn
<1> QED BY <1>1, <1>2, <1>3, PTL DEF CoverSpec

-----------------------------------------------------------------------------
(* ZIP archives (PageLibrary)                                                *)

ZipSpec == ZipInit /\ [][ZipSteps]_zip

ZipNames == {ZipFields[i] : i \in 1 .. 4}
ZipOwn == [ZipNames -> {"max", "own"}]
ZipExtras == {[i \in 1 .. n |-> ToString(i)] : n \in 0 .. 4}
ZipEntries == {<<>>} \cup {ParseZip64Extra(fields, extra) : fields \in ZipOwn, extra \in ZipExtras}
ZipRecords == [at : {"index", "chosen", "inflate", "done", "failed"},
               fields : {<<>>} \cup ZipOwn, extra : ZipExtras, left : Nat,
               entry : ZipEntries,
               method : Nat, file : {"none", "whole"}]

\* The entry is what the fields and the extra field say.
ZipInv ==
    /\ zip \in ZipRecords
    /\ zip.entry # <<>> => zip.fields \in ZipOwn /\ zip.entry = ParseZip64Extra(zip.fields, zip.extra)

LEMMA PlaceOf ==
    ASSUME NEW i \in 1 .. 4
    PROVE  /\ ZipFields[i] \in ZipNames
           /\ (CHOOSE k \in 1 .. Len(ZipFields) : ZipFields[k] = ZipFields[i]) = i
<1>1. Len(ZipFields) = 4
  BY DEF ZipFields
<1>2. \A k \in 1 .. 4 : ZipFields[k] = ZipFields[i] => k = i
  BY DEF ZipFields
<1>3. i \in 1 .. Len(ZipFields) /\ ZipFields[i] = ZipFields[i]
  BY <1>1
<1> QED BY <1>1, <1>2, <1>3 DEF ZipNames

\* What an extra field with n values gives.
LEMMA ValuesInOrder ==
    ASSUME NEW fields \in ZipOwn, NEW extra \in ZipExtras, NEW i \in 1 .. 4,
           NEW asked, asked = Cardinality({k \in 1 .. i : fields[ZipFields[k]] = "max"})
    PROVE  ParseZip64Extra(fields, extra)[ZipFields[i]] =
               IF fields[ZipFields[i]] = "max" /\ asked <= Len(extra)
               THEN extra[asked] ELSE fields[ZipFields[i]]
<1> DEFINE f == ZipFields[i]
           before == Cardinality({k \in 1 .. i - 1 : fields[ZipFields[k]] = "max"})
           earlier == {k \in 1 .. i - 1 : fields[ZipFields[k]] = "max"}
<1>1. DOMAIN fields = ZipNames /\ f \in ZipNames /\ ExtraOrder = ZipFields
  BY PlaceOf DEF ZipOwn, ExtraOrder
<1>2. (CHOOSE k \in 1 .. Len(ExtraOrder) : ExtraOrder[k] = f) = i
  BY <1>1, PlaceOf
<1>3. ParseZip64Extra(fields, extra)[f] =
        IF fields[f] = "max" /\ before < Len(extra) THEN extra[before + 1] ELSE fields[f]
  <2> DEFINE place == CHOOSE k \in 1 .. Len(ExtraOrder) : ExtraOrder[k] = f
             least == Cardinality({k \in 1 .. place - 1 : fields[ExtraOrder[k]] = "max"})
  <2>1. ParseZip64Extra(fields, extra)[f] =
          IF fields[f] = "max" /\ least < Len(extra) THEN extra[least + 1] ELSE fields[f]
    <3> HIDE DEF f
    <3> QED BY <1>1 DEF ParseZip64Extra
  <2>2. place = i
    BY <1>2
  <2>3. {k \in 1 .. place - 1 : fields[ExtraOrder[k]] = "max"}
           = {k \in 1 .. i - 1 : fields[ZipFields[k]] = "max"}
    <3> HIDE DEF place
    <3> QED BY <1>1, <2>2
  <2>4. least = before
    BY <2>3
  <2> QED BY <2>1, <2>4
<1>4. IsFiniteSet(earlier) /\ i \notin earlier
  <2>1. IsFiniteSet(1 .. i - 1)
    BY FS_Interval
  <2>2. earlier \subseteq 1 .. i - 1 /\ i \notin earlier
    OBVIOUS
  <2> HIDE DEF earlier
  <2> QED BY <2>1, <2>2, FS_Subset
<1>5. before \in Nat
  BY <1>4, FS_CardinalityType
<1>6. ASSUME fields[f] = "max" PROVE asked = before + 1
  <2>1. {k \in 1 .. i : fields[ZipFields[k]] = "max"} = earlier \cup {i}
    BY <1>6
  <2>2. Cardinality(earlier \cup {i}) = Cardinality(earlier) + 1
    <3> HIDE DEF earlier
    <3> QED BY <1>4, FS_AddElement
  <2> QED BY <2>1, <2>2
<1>7. Len(extra) \in Nat
  <2>1. PICK n \in 0 .. 4 : extra = [k \in 1 .. n |-> ToString(k)]
    BY DEF ZipExtras
  <2>2. extra \in [1 .. n -> {ToString(k) : k \in 1 .. n}]
    BY <2>1
  <2>3. n \in Nat
    OBVIOUS
  <2> QED BY <2>2, <2>3, FunctionIsSeq
<1> HIDE DEF before, f
<1>8. CASE fields[f] = "max"
  <2>1. asked = before + 1 /\ (asked <= Len(extra) <=> before < Len(extra))
    BY <1>5, <1>6, <1>7, <1>8
  <2>2. ParseZip64Extra(fields, extra)[f] =
          IF before < Len(extra) THEN extra[before + 1] ELSE fields[f]
    BY <1>3, <1>8
  <2>3. ParseZip64Extra(fields, extra)[f] =
          IF asked <= Len(extra) THEN extra[asked] ELSE fields[f]
    BY <2>1, <2>2
  <2> QED BY <1>8, <2>3 DEF f
<1>9. CASE fields[f] # "max"
  BY <1>3, <1>9 DEF f
<1> QED BY <1>8, <1>9

LEMMA ZipKeeps == ZipInv /\ [ZipSteps]_zip => ZipInv'
<1> SUFFICES ASSUME ZipInv, [ZipSteps]_zip PROVE ZipInv'
  OBVIOUS
<1>0. zip \in ZipRecords
  BY DEF ZipInv
<1>1. ASSUME NEW big \in SUBSET ZipNames, NEW n \in 0 .. 4,
             InspectZip(big, [i \in 1 .. n |-> ToString(i)])
      PROVE  ZipInv'
  <2> DEFINE fields == [f \in ZipNames |-> IF f \in big THEN "max" ELSE "own"]
             extra == [i \in 1 .. n |-> ToString(i)]
             entry == ParseZip64Extra(fields, extra)
  <2>1. fields \in ZipOwn /\ extra \in ZipExtras
    BY DEF ZipOwn, ZipExtras
  <2>2. zip' = [zip EXCEPT !.at = "chosen", !.fields = fields, !.extra = extra, !.entry = entry]
    BY <1>1 DEF InspectZip, ZipNames
  <2> HIDE DEF fields, extra
  <2>3. entry \in ZipEntries
    BY <2>1 DEF ZipEntries
  <2>4. entry = ParseZip64Extra(fields, extra)
    OBVIOUS
  <2> HIDE DEF entry
  <2>5. zip' \in ZipRecords /\ zip'.fields = fields /\ zip'.extra = extra /\ zip'.entry = entry
    BY <1>0, <2>1, <2>2, <2>3 DEF ZipRecords
  <2> QED BY <2>1, <2>4, <2>5 DEF ZipInv
<1>2. ASSUME zip' \in ZipRecords, zip'.fields = zip.fields, zip'.extra = zip.extra, zip'.entry = zip.entry
      PROVE  ZipInv'
  BY <1>2 DEF ZipInv
<1>3. ASSUME ArchiveRefused \/ InflatePart \/ InflateFails PROVE ZipInv'
  <2>1. zip.left > 0 => zip.left - 1 \in Nat
    BY <1>0 DEF ZipRecords
  <2>2. /\ zip' \in ZipRecords /\ zip'.fields = zip.fields
        /\ zip'.extra = zip.extra /\ zip'.entry = zip.entry
    BY <1>0, <1>3, <2>1 DEF ArchiveRefused, InflatePart, InflateFails, ZipRecords
  <2> QED BY <1>2, <2>2
<1>4. ASSUME NEW method \in {0, 8, 14}, NEW parts \in 0 .. 2, ExtractZipEntry(method, parts) PROVE ZipInv'
  <2>1. \/ zip' = [zip EXCEPT !.at = "done", !.method = 0, !.file = "whole"]
        \/ zip' = [zip EXCEPT !.at = "inflate", !.left = parts]
        \/ zip' = [zip EXCEPT !.at = "failed", !.method = method]
    BY <1>4 DEF ExtractZipEntry
  <2>2. method \in Nat /\ parts \in Nat
    OBVIOUS
  <2>3. /\ zip' \in ZipRecords /\ zip'.fields = zip.fields
        /\ zip'.extra = zip.extra /\ zip'.entry = zip.entry
    <3>1. CASE zip' = [zip EXCEPT !.at = "done", !.method = 0, !.file = "whole"]
      BY <1>0, <3>1 DEF ZipRecords
    <3>2. CASE zip' = [zip EXCEPT !.at = "inflate", !.left = parts]
      BY <1>0, <2>2, <3>2 DEF ZipRecords
    <3>3. CASE zip' = [zip EXCEPT !.at = "failed", !.method = method]
      BY <1>0, <2>2, <3>3 DEF ZipRecords
    <3> QED BY <2>1, <3>1, <3>2, <3>3
  <2> QED BY <1>2, <2>3
<1>5. CASE UNCHANGED zip
  BY <1>5 DEF ZipInv
<1> QED BY <1>1, <1>3, <1>4, <1>5 DEF ZipSteps, ZipNames

(* Every field of an entry has the value that is its own                    *)
(* (import/zip-importer.js).                                                *)
THEOREM ZipHolds == ZipSpec => []Zip64InOrder
<1>1. ZipInit => ZipInv
  <2> SUFFICES ASSUME ZipInit PROVE ZipInv
    OBVIOUS
  <2>1. <<>> \in ZipExtras
    <3>1. <<>> = [i \in 1 .. 0 |-> ToString(i)]
      OBVIOUS
    <3> QED BY <3>1 DEF ZipExtras
  <2>2. zip \in ZipRecords
    BY <2>1 DEF ZipInit, ZipRecords, ZipEntries
  <2> QED BY <2>2 DEF ZipInit, ZipInv
<1>2. ZipInv => Zip64InOrder
  <2> SUFFICES ASSUME ZipInv, zip.entry # <<>> PROVE Zip64InOrder
    BY DEF Zip64InOrder
  <2>1. zip.fields \in ZipOwn /\ zip.extra \in ZipExtras /\ zip.entry = ParseZip64Extra(zip.fields, zip.extra)
    BY DEF ZipInv, ZipRecords
  <2>2. ASSUME NEW i \in 1 .. 4,
               NEW asked, asked = Cardinality({k \in 1 .. i : zip.fields[ZipFields[k]] = "max"})
        PROVE  zip.entry[ZipFields[i]] =
                   IF zip.fields[ZipFields[i]] = "max" /\ asked <= Len(zip.extra)
                   THEN zip.extra[asked] ELSE zip.fields[ZipFields[i]]
    BY <2>1, <2>2, ValuesInOrder
  <2> QED BY <2>2 DEF Zip64InOrder
<1> QED BY <1>1, <1>2, ZipKeeps, PTL DEF ZipSpec

-----------------------------------------------------------------------------
(* The worker pool (PageLibrary)                                             *)

PoolSpec == PoolInit /\ [][PoolSteps]_pool

Pools == [idle : Seq(PoolSet), queue : Seq(PoolJobs), job : [PoolSet -> PoolJobs \cup {Nothing}],
          fate : [PoolJobs -> {"new", "queued", "resolved", "rejected"}], closed : BOOLEAN]

Twice(s) == \E i, k \in 1 .. Len(s) : i # k /\ s[i] = s[k]

\* An idle worker is idle once and has no job; a job is in the queue once or
\* with one worker, and then its promise is not settled.
PlacesIn(p) ==
    /\ ~Twice(p.idle) /\ \A i \in 1 .. Len(p.idle) : p.job[p.idle[i]] = Nothing
    /\ ~Twice(p.queue)
    /\ \A w \in PoolSet : p.job[w] # Nothing =>
          /\ p.fate[p.job[w]] = "queued"
          /\ \A v \in PoolSet : p.job[v] = p.job[w] => v = w
          /\ \A i \in 1 .. Len(p.queue) : p.queue[i] # p.job[w]
    /\ \A i \in 1 .. Len(p.queue) : p.fate[p.queue[i]] = "queued"
    /\ \A j \in PoolJobs : p.fate[j] = "queued" =>
          \/ \E w \in PoolSet : p.job[w] = j
          \/ \E i \in 1 .. Len(p.queue) : p.queue[i] = j

PoolInv == pool \in Pools /\ (~pool.closed => PlacesIn(pool))

\* The n last idle workers take the n first jobs of the queue.
LEMMA AssignedJobs ==
    ASSUME NEW p \in Pools, ~Twice(p.idle), NEW n \in Nat, n <= Len(p.idle), n <= Len(p.queue)
    PROVE  /\ Assigned(p, n) \in [PoolSet -> PoolJobs \cup {Nothing}]
           /\ \A i \in 1 .. n : /\ p.idle[Len(p.idle) + 1 - i] \in PoolSet
                                /\ Assigned(p, n)[p.idle[Len(p.idle) + 1 - i]] = p.queue[i]
           /\ \A w \in PoolSet : \/ Assigned(p, n)[w] = p.job[w]
                                    /\ \A i \in 1 .. n : p.idle[Len(p.idle) + 1 - i] # w
                                 \/ \E i \in 1 .. n : p.idle[Len(p.idle) + 1 - i] = w
<1> DEFINE used(w) == {i \in 1 .. n : p.idle[Len(p.idle) + 1 - i] = w}
           given == Assigned(p, n)
<1>0. /\ p.idle \in Seq(PoolSet) /\ p.queue \in Seq(PoolJobs) /\ p.job \in [PoolSet -> PoolJobs \cup {Nothing}]
      /\ Len(p.idle) \in Nat /\ Len(p.queue) \in Nat
  BY DEF Pools
<1>1. \A i \in 1 .. n : /\ Len(p.idle) + 1 - i \in 1 .. Len(p.idle) /\ i \in 1 .. Len(p.queue)
                        /\ p.idle[Len(p.idle) + 1 - i] \in PoolSet /\ p.queue[i] \in PoolJobs
  BY <1>0
<1>2. \A w \in PoolSet : given[w] = IF used(w) = {} THEN p.job[w] ELSE p.queue[CHOOSE i \in used(w) : TRUE]
  BY DEF Assigned
<1>3. given = [w \in PoolSet |-> given[w]]
  BY DEF Assigned
<1>4. ASSUME NEW i \in 1 .. n PROVE given[p.idle[Len(p.idle) + 1 - i]] = p.queue[i]
  <2> DEFINE w == p.idle[Len(p.idle) + 1 - i]
  <2>1. \A k \in used(w) : k = i
    <3> SUFFICES ASSUME NEW k \in 1 .. n, p.idle[Len(p.idle) + 1 - k] = w, k # i PROVE FALSE
      OBVIOUS
    <3>1. /\ Len(p.idle) + 1 - k \in 1 .. Len(p.idle) /\ Len(p.idle) + 1 - i \in 1 .. Len(p.idle)
          /\ Len(p.idle) + 1 - k # Len(p.idle) + 1 - i
      BY <1>0, <1>1
    <3> QED BY <3>1 DEF Twice
  <2>2. i \in used(w)
    OBVIOUS
  <2>3. used(w) = {i}
    BY <2>1, <2>2
  <2>4. (CHOOSE k \in used(w) : TRUE) = i
    BY <2>3
  <2> QED BY <1>1, <1>2, <2>3, <2>4, ZenonT(60)
<1>5. ASSUME NEW w \in PoolSet PROVE given[w] \in PoolJobs \cup {Nothing}
  <2>1. CASE used(w) = {}
    BY <1>0, <1>2, <2>1
  <2>2. CASE used(w) # {}
    <3>1. PICK i \in 1 .. n : p.idle[Len(p.idle) + 1 - i] = w
      BY <2>2
    <3> QED BY <1>1, <1>4, <3>1
  <2> QED BY <2>1, <2>2
<1>6. given \in [PoolSet -> PoolJobs \cup {Nothing}]
  BY <1>3, <1>5
<1>7. \A w \in PoolSet : \/ given[w] = p.job[w] /\ \A i \in 1 .. n : p.idle[Len(p.idle) + 1 - i] # w
                         \/ \E i \in 1 .. n : p.idle[Len(p.idle) + 1 - i] = w
  BY <1>2
<1> QED BY <1>1, <1>4, <1>6, <1>7

LEMMA DispatchKeeps ==
    ASSUME NEW p \in Pools, ~p.closed, PlacesIn(p)
    PROVE  Dispatched(p) \in Pools /\ ~Dispatched(p).closed /\ PlacesIn(Dispatched(p))
<1> DEFINE n == HandedOver(p)
           q == Dispatched(p)
           job == Assigned(p, n)
           idle == SubSeq(p.idle, 1, Len(p.idle) - n)
           queue == SubSeq(p.queue, n + 1, Len(p.queue))
           taker(i) == p.idle[Len(p.idle) + 1 - i]
<1>0. /\ p.idle \in Seq(PoolSet) /\ p.queue \in Seq(PoolJobs) /\ p.job \in [PoolSet -> PoolJobs \cup {Nothing}]
      /\ Len(p.idle) \in Nat /\ Len(p.queue) \in Nat
      /\ p.fate \in [PoolJobs -> {"new", "queued", "resolved", "rejected"}]
  BY DEF Pools
<1>1. n \in Nat /\ n <= Len(p.idle) /\ n <= Len(p.queue)
  BY <1>0 DEF HandedOver
<1>2. /\ idle \in Seq(PoolSet) /\ Len(idle) = Len(p.idle) - n
      /\ \A i \in 1 .. Len(p.idle) - n : idle[i] = p.idle[i]
  <2> HIDE DEF n
  <2> QED BY <1>0, <1>1
<1>3. /\ queue \in Seq(PoolJobs) /\ Len(queue) = Len(p.queue) - n
      /\ \A i \in 1 .. Len(p.queue) - n : queue[i] = p.queue[n + i]
  <2> HIDE DEF n
  <2>1. n + 1 \in Nat /\ Len(p.queue) - (n + 1) + 1 = Len(p.queue) - n /\ Len(p.queue) - n \in Nat
    BY <1>0, <1>1
  <2>2. queue \in Seq(PoolJobs)
    BY <1>0, <1>1, <2>1
  <2>3. Len(queue) = Len(p.queue) - n
    BY <1>0, <1>1, <2>1
  <2>4. \A i \in 1 .. Len(p.queue) - n : queue[i] = p.queue[n + 1 + i - 1]
    BY <1>0, <1>1, <2>1
  <2> QED BY <1>1, <2>2, <2>3, <2>4
<1>4. /\ job \in [PoolSet -> PoolJobs \cup {Nothing}]
      /\ \A i \in 1 .. n : taker(i) \in PoolSet /\ job[taker(i)] = p.queue[i]
      /\ \A w \in PoolSet : \/ job[w] = p.job[w] /\ \A i \in 1 .. n : taker(i) # w
                            \/ \E i \in 1 .. n : taker(i) = w
  <2> HIDE DEF n
  <2> QED BY <1>1, AssignedJobs DEF PlacesIn
<1>5. q = [p EXCEPT !.job = job, !.idle = idle, !.queue = queue]
  BY DEF Dispatched
<1>6. PoolJobs \cap {Nothing} = {}
  BY PoolAssumption
<1> HIDE DEF n, q, job, idle, queue
<1>7. /\ q \in Pools /\ q.job = job /\ q.idle = idle /\ q.queue = queue /\ q.fate = p.fate /\ ~q.closed
  BY <1>2, <1>3, <1>4, <1>5 DEF Pools
\* Where an entry of the old queue and an idle worker is found now.
<1>8. \A i \in 1 .. Len(p.queue) : p.queue[i] \in PoolJobs /\ (i <= n \/ queue[i - n] = p.queue[i])
  BY <1>0, <1>1, <1>3
<1>9. \A i, k \in 1 .. Len(p.queue) : p.queue[i] = p.queue[k] => i = k
  BY DEF PlacesIn, Twice
<1>10. \A i, k \in 1 .. Len(p.idle) : p.idle[i] = p.idle[k] => i = k
  BY DEF PlacesIn, Twice
<1>11. \A i \in 1 .. n : /\ Len(p.idle) + 1 - i \in 1 .. Len(p.idle) /\ i \in 1 .. Len(p.queue)
                         /\ taker(i) = p.idle[Len(p.idle) + 1 - i] /\ p.job[taker(i)] = Nothing
  BY <1>0, <1>1 DEF PlacesIn
<1>12. \A i \in 1 .. Len(queue) : n + i \in 1 .. Len(p.queue) /\ queue[i] = p.queue[n + i]
  BY <1>0, <1>1, <1>3
<1> HIDE DEF taker
\* Who has a job now had it before, or took it from the queue.
<1>a. \A w \in PoolSet : p.job[w] # Nothing => \A i \in 1 .. Len(p.queue) : p.queue[i] # p.job[w]
  BY DEF PlacesIn
<1>13. ASSUME NEW w \in PoolSet, job[w] # Nothing
       PROVE  \/ job[w] = p.job[w] /\ p.job[w] # Nothing
              \/ \E i \in 1 .. n : taker(i) = w /\ job[w] = p.queue[i]
  BY <1>4, <1>13
<1>14. ~Twice(idle) /\ \A i \in 1 .. Len(idle) : job[idle[i]] = Nothing
  <2>1. \A i \in 1 .. Len(idle) : i \in 1 .. Len(p.idle) /\ idle[i] = p.idle[i] /\ idle[i] \in PoolSet
    BY <1>0, <1>1, <1>2
  <2>2. ~Twice(idle)
    BY <1>10, <2>1 DEF Twice
  <2>3. ASSUME NEW i \in 1 .. Len(idle) PROVE job[idle[i]] = Nothing
    <3>1. ASSUME NEW k \in 1 .. n PROVE taker(k) # idle[i]
      <4>1. Len(p.idle) + 1 - k # i /\ Len(p.idle) + 1 - k \in 1 .. Len(p.idle)
        BY <1>0, <1>1, <1>2, <1>11
      <4> QED BY <1>10, <1>11, <2>1, <4>1
    <3>2. p.job[idle[i]] = Nothing
      BY <2>1 DEF PlacesIn
    <3> QED BY <1>4, <2>1, <3>1, <3>2
  <2> QED BY <2>2, <2>3
<1>15. ~Twice(queue) /\ \A i \in 1 .. Len(queue) : p.fate[queue[i]] = "queued"
  <2>1. \A i \in 1 .. Len(queue) : p.fate[queue[i]] = "queued"
    BY <1>12 DEF PlacesIn
  <2>2. ASSUME NEW i \in 1 .. Len(queue), NEW k \in 1 .. Len(queue), i # k, queue[i] = queue[k] PROVE FALSE
    <3>1. n + i # n + k
      BY <1>1, <2>2
    <3> QED BY <1>9, <1>12, <2>2, <3>1
  <2> QED BY <2>1, <2>2 DEF Twice
<1>16. ASSUME NEW w \in PoolSet, job[w] # Nothing
       PROVE  /\ p.fate[job[w]] = "queued"
              /\ \A v \in PoolSet : job[v] = job[w] => v = w
              /\ \A i \in 1 .. Len(queue) : queue[i] # job[w]
  <2>1. CASE job[w] = p.job[w] /\ p.job[w] # Nothing
    <3>1. p.fate[job[w]] = "queued"
      BY <2>1 DEF PlacesIn
    <3>2. ASSUME NEW v \in PoolSet, job[v] = job[w] PROVE v = w
      <4>0. p.job[w] # Nothing => \A x \in PoolSet : p.job[x] = p.job[w] => x = w
        BY DEF PlacesIn
      <4>1. CASE job[v] = p.job[v]
        <5>1. p.job[v] = p.job[w] /\ p.job[w] # Nothing
          BY <2>1, <3>2, <4>1
        <5> QED BY <4>0, <5>1, Zenon
      <4>2. ASSUME NEW i \in 1 .. n, job[v] = p.queue[i] PROVE FALSE
        BY <1>a, <1>11, <2>1, <3>2, <4>2
      <4> QED BY <1>13, <1>16, <3>2, <4>1, <4>2
    <3>3. \A i \in 1 .. Len(queue) : queue[i] # job[w]
      BY <1>12, <2>1 DEF PlacesIn
    <3> QED BY <3>1, <3>2, <3>3
  <2>2. ASSUME NEW i \in 1 .. n, taker(i) = w, job[w] = p.queue[i]
        PROVE  /\ p.fate[job[w]] = "queued"
               /\ \A v \in PoolSet : job[v] = job[w] => v = w
               /\ \A k \in 1 .. Len(queue) : queue[k] # job[w]
    <3>1. p.fate[job[w]] = "queued"
      BY <1>11, <2>2 DEF PlacesIn
    <3>2. ASSUME NEW v \in PoolSet, job[v] = job[w] PROVE v = w
      <4>1. ASSUME job[v] = p.job[v], p.job[v] # Nothing PROVE FALSE
        BY <1>a, <1>11, <2>2, <3>2, <4>1
      <4>2. ASSUME NEW k \in 1 .. n, taker(k) = v, job[v] = p.queue[k] PROVE v = w
        BY <1>9, <1>11, <2>2, <3>2, <4>2
      <4> QED BY <1>13, <1>16, <3>2, <4>1, <4>2
    <3>3. ASSUME NEW k \in 1 .. Len(queue), queue[k] = job[w] PROVE FALSE
      <4>1. n + k # i
        BY <1>1
      <4> QED BY <1>9, <1>11, <1>12, <2>2, <3>3, <4>1
    <3> QED BY <3>1, <3>2, <3>3
  <2> QED BY <1>13, <1>16, <2>1, <2>2
<1>17. ASSUME NEW j \in PoolJobs, p.fate[j] = "queued"
       PROVE  \/ \E w \in PoolSet : job[w] = j
              \/ \E i \in 1 .. Len(queue) : queue[i] = j
  <2>1. ASSUME NEW w \in PoolSet, p.job[w] = j PROVE job[w] = j
    <3>1. p.job[w] # Nothing
      BY <1>6, <2>1
    <3>2. \A i \in 1 .. n : taker(i) # w
      BY <1>11, <3>1
    <3> QED BY <1>4, <2>1, <3>2
  <2>2. ASSUME NEW i \in 1 .. Len(p.queue), p.queue[i] = j
        PROVE  \/ \E w \in PoolSet : job[w] = j
               \/ \E k \in 1 .. Len(queue) : queue[k] = j
    <3>1. CASE i <= n
      <4>1. i \in 1 .. n
        BY <1>1, <3>1
      <4> QED BY <1>4, <2>2, <4>1
    <3>2. CASE ~(i <= n)
      <4>1. i - n \in 1 .. Len(queue) /\ queue[i - n] = j
        BY <1>0, <1>1, <1>3, <1>8, <2>2, <3>2
      <4> QED BY <4>1
    <3> QED BY <3>1, <3>2
  <2> QED BY <1>17, <2>1, <2>2 DEF PlacesIn
<1>18. PlacesIn(q)
  BY <1>7, <1>14, <1>15, <1>16, <1>17 DEF PlacesIn
<1> QED BY <1>7, <1>18 DEF q

LEMMA PoolKeeps == PoolInv /\ [PoolSteps]_pool => PoolInv'
<1> SUFFICES ASSUME PoolInv, [PoolSteps]_pool PROVE PoolInv'
  OBVIOUS
<1>0. /\ pool \in Pools /\ (~pool.closed => PlacesIn(pool))
      /\ pool.idle \in Seq(PoolSet) /\ pool.queue \in Seq(PoolJobs)
      /\ pool.job \in [PoolSet -> PoolJobs \cup {Nothing}]
      /\ pool.fate \in [PoolJobs -> {"new", "queued", "resolved", "rejected"}]
      /\ Len(pool.idle) \in Nat /\ Len(pool.queue) \in Nat /\ Nothing \notin PoolJobs
  BY PoolAssumption DEF PoolInv, Pools
<1>1. ASSUME NEW j \in PoolJobs, RunJob(j) PROVE PoolInv'
  <2>0. pool.fate[j] = "new"
    BY <1>1 DEF RunJob
  <2>1. CASE pool.closed
    <3>1. pool' = [pool EXCEPT !.fate = [pool.fate EXCEPT ![j] = "rejected"]]
      BY <1>0, <1>1, <2>1 DEF RunJob
    <3>2. [pool.fate EXCEPT ![j] = "rejected"] \in [PoolJobs -> {"new", "queued", "resolved", "rejected"}]
      BY <1>0
    <3>3. pool' \in Pools /\ pool'.closed
      BY <1>0, <2>1, <3>1, <3>2 DEF Pools
    <3> QED BY <3>3 DEF PoolInv
  <2>2. CASE ~pool.closed
    <3> DEFINE fate == [pool.fate EXCEPT ![j] = "queued"]
               queue == Append(pool.queue, j)
               p == [pool EXCEPT !.fate = fate, !.queue = queue]
    <3>1. pool' = Dispatched(p)
      BY <1>1, <2>2 DEF RunJob
    <3>2. /\ fate \in [PoolJobs -> {"new", "queued", "resolved", "rejected"}] /\ fate[j] = "queued"
          /\ \A k \in PoolJobs : k # j => fate[k] = pool.fate[k]
      BY <1>0
    <3>3. /\ queue \in Seq(PoolJobs) /\ Len(queue) = Len(pool.queue) + 1 /\ queue[Len(pool.queue) + 1] = j
          /\ \A i \in 1 .. Len(pool.queue) : queue[i] = pool.queue[i]
      BY <1>0
    <3> HIDE DEF fate, queue
    <3>4. p \in Pools /\ p.fate = fate /\ p.queue = queue /\ p.idle = pool.idle /\ p.job = pool.job /\ ~p.closed
      BY <1>0, <2>2, <3>2, <3>3 DEF Pools
    <3> HIDE DEF p
    <3>5. /\ \A i \in 1 .. Len(pool.queue) : pool.queue[i] \in PoolJobs /\ pool.queue[i] # j
          /\ \A w \in PoolSet : pool.job[w] # j
          /\ \A i \in 1 .. Len(queue) : i \in 1 .. Len(pool.queue) \/ i = Len(pool.queue) + 1
          /\ Len(pool.queue) + 1 \in 1 .. Len(queue)
          /\ \A i \in 1 .. Len(pool.queue) : i \in 1 .. Len(queue)
      BY <1>0, <2>0, <2>2, <3>3 DEF PlacesIn
    <3>6. ~Twice(queue)
      BY <1>0, <2>2, <3>3, <3>5 DEF PlacesIn, Twice
    <3>7. ASSUME NEW w \in PoolSet, pool.job[w] # Nothing
          PROVE  /\ fate[pool.job[w]] = "queued"
                 /\ \A v \in PoolSet : pool.job[v] = pool.job[w] => v = w
                 /\ \A i \in 1 .. Len(queue) : queue[i] # pool.job[w]
      <4>1. /\ pool.fate[pool.job[w]] = "queued" /\ pool.job[w] \in PoolJobs /\ pool.job[w] # j
            /\ \A v \in PoolSet : pool.job[v] = pool.job[w] => v = w
            /\ \A i \in 1 .. Len(pool.queue) : pool.queue[i] # pool.job[w]
        BY <1>0, <2>2, <3>5, <3>7 DEF PlacesIn
      <4> QED BY <3>2, <3>3, <3>5, <4>1
    <3>8. \A i \in 1 .. Len(queue) : fate[queue[i]] = "queued"
      BY <1>0, <2>2, <3>2, <3>3, <3>5 DEF PlacesIn
    <3>9. ASSUME NEW k \in PoolJobs, fate[k] = "queued"
          PROVE  (\E w \in PoolSet : pool.job[w] = k) \/ (\E i \in 1 .. Len(queue) : queue[i] = k)
      <4>1. CASE k = j
        BY <3>3, <3>5, <4>1
      <4>2. CASE k # j
        <5>1. pool.fate[k] = "queued"
          BY <3>2, <3>9, <4>2
        <5>2. (\E w \in PoolSet : pool.job[w] = k) \/ (\E i \in 1 .. Len(pool.queue) : pool.queue[i] = k)
          BY <1>0, <2>2, <5>1 DEF PlacesIn
        <5> QED BY <3>3, <3>5, <5>2
      <4> QED BY <4>1, <4>2
    <3>10. PlacesIn(p)
      BY <1>0, <2>2, <3>4, <3>6, <3>7, <3>8, <3>9 DEF PlacesIn
    <3> QED BY <3>1, <3>4, <3>10, DispatchKeeps DEF PoolInv
  <2> QED BY <2>1, <2>2
<1>2. ASSUME NEW w \in PoolSet, NEW outcome \in {"resolved", "rejected"}, JobAnswered(w, outcome)
      PROVE  PoolInv'
  <2> DEFINE job == [pool.job EXCEPT ![w] = Nothing]
             idle == Append(pool.idle, w)
             fate == [pool.fate EXCEPT ![pool.job[w]] = outcome]
             p == [pool EXCEPT !.job = job, !.idle = idle, !.fate = fate]
  <2>0. pool.job[w] # Nothing /\ ~pool.closed /\ pool.job[w] \in PoolJobs
    BY <1>0, <1>2 DEF JobAnswered
  <2>1. pool' = Dispatched(p)
    BY <1>2 DEF JobAnswered
  <2>2. /\ fate \in [PoolJobs -> {"new", "queued", "resolved", "rejected"}] /\ fate[pool.job[w]] = outcome
        /\ \A k \in PoolJobs : k # pool.job[w] => fate[k] = pool.fate[k]
        /\ job \in [PoolSet -> PoolJobs \cup {Nothing}] /\ job[w] = Nothing
        /\ \A v \in PoolSet : v # w => job[v] = pool.job[v]
    BY <1>0, <2>0
  <2>3. /\ idle \in Seq(PoolSet) /\ Len(idle) = Len(pool.idle) + 1 /\ idle[Len(pool.idle) + 1] = w
        /\ \A i \in 1 .. Len(pool.idle) : idle[i] = pool.idle[i]
    BY <1>0
  <2> HIDE DEF job, idle, fate
  <2>4. p \in Pools /\ p.fate = fate /\ p.queue = pool.queue /\ p.idle = idle /\ p.job = job /\ ~p.closed
    BY <1>0, <2>0, <2>2, <2>3 DEF Pools
  <2> HIDE DEF p
  <2>5. /\ \A i \in 1 .. Len(pool.idle) : pool.idle[i] \in PoolSet /\ pool.idle[i] # w
        /\ \A i \in 1 .. Len(idle) : i \in 1 .. Len(pool.idle) \/ i = Len(pool.idle) + 1
    BY <1>0, <2>0, <2>3 DEF PlacesIn
  <2>6. ~Twice(idle) /\ \A i \in 1 .. Len(idle) : job[idle[i]] = Nothing
    <3>1. \A i, k \in 1 .. Len(pool.idle) : pool.idle[i] = pool.idle[k] => i = k
      BY <1>0, <2>0 DEF PlacesIn, Twice
    <3>2. \A i \in 1 .. Len(pool.idle) : pool.job[pool.idle[i]] = Nothing
      BY <1>0, <2>0 DEF PlacesIn
    <3>3. ASSUME NEW i \in 1 .. Len(idle) PROVE job[idle[i]] = Nothing
      BY <2>2, <2>3, <2>5, <3>2
    <3>4. ASSUME NEW i \in 1 .. Len(idle), NEW k \in 1 .. Len(idle), i # k, idle[i] = idle[k] PROVE FALSE
      <4>1. CASE i \in 1 .. Len(pool.idle) /\ k \in 1 .. Len(pool.idle)
        BY <2>3, <3>1, <3>4, <4>1
      <4>2. CASE i \in 1 .. Len(pool.idle) /\ k = Len(pool.idle) + 1
        BY <2>3, <2>5, <3>4, <4>2
      <4>3. CASE k \in 1 .. Len(pool.idle) /\ i = Len(pool.idle) + 1
        BY <2>3, <2>5, <3>4, <4>3
      <4> QED BY <2>5, <3>4, <4>1, <4>2, <4>3
    <3> QED BY <3>3, <3>4 DEF Twice
  <2>7. ASSUME NEW v \in PoolSet, job[v] # Nothing
        PROVE  /\ fate[job[v]] = "queued"
               /\ \A u \in PoolSet : job[u] = job[v] => u = v
               /\ \A i \in 1 .. Len(pool.queue) : pool.queue[i] # job[v]
    <3>1. v # w /\ job[v] = pool.job[v] /\ pool.job[v] # pool.job[w] /\ pool.job[v] \in PoolJobs
      BY <1>0, <2>0, <2>2, <2>7 DEF PlacesIn
    <3> QED BY <1>0, <2>0, <2>2, <2>7, <3>1 DEF PlacesIn
  <2>8. \A i \in 1 .. Len(pool.queue) : fate[pool.queue[i]] = "queued"
    <3>1. \A i \in 1 .. Len(pool.queue) : /\ pool.queue[i] \in PoolJobs /\ pool.queue[i] # pool.job[w]
                                          /\ pool.fate[pool.queue[i]] = "queued"
      BY <1>0, <2>0 DEF PlacesIn
    <3> QED BY <2>2, <3>1
  <2>9. ASSUME NEW k \in PoolJobs, fate[k] = "queued"
        PROVE  (\E v \in PoolSet : job[v] = k) \/ (\E i \in 1 .. Len(pool.queue) : pool.queue[i] = k)
    <3>1. k # pool.job[w] /\ pool.fate[k] = "queued"
      BY <2>2, <2>9
    <3>2. (\E v \in PoolSet : pool.job[v] = k) \/ (\E i \in 1 .. Len(pool.queue) : pool.queue[i] = k)
      BY <1>0, <2>0, <3>1 DEF PlacesIn
    <3> QED BY <2>2, <3>1, <3>2
  <2>10. ~Twice(pool.queue)
    BY <1>0, <2>0 DEF PlacesIn
  <2>11. PlacesIn(p)
    BY <2>4, <2>6, <2>7, <2>8, <2>9, <2>10 DEF PlacesIn
  <2> QED BY <2>1, <2>4, <2>11, DispatchKeeps DEF PoolInv
<1>3. CASE ClosePool
  <2> DEFINE fate == [j \in PoolJobs |-> IF \E i \in 1 .. Len(pool.queue) : pool.queue[i] = j
                                         THEN "rejected" ELSE pool.fate[j]]
  <2>1. pool' = [pool EXCEPT !.closed = TRUE, !.queue = <<>>, !.idle = <<>>, !.fate = fate]
    BY <1>3 DEF ClosePool
  <2>2. fate \in [PoolJobs -> {"new", "queued", "resolved", "rejected"}]
    BY <1>0
  <2> HIDE DEF fate
  <2>3. <<>> \in Seq(PoolSet) /\ <<>> \in Seq(PoolJobs)
    OBVIOUS
  <2>4. pool' \in Pools /\ pool'.closed
    BY <1>0, <2>1, <2>2, <2>3 DEF Pools
  <2> QED BY <2>4 DEF PoolInv
<1>4. CASE UNCHANGED pool
  BY <1>4 DEF PoolInv
<1> QED BY <1>1, <1>2, <1>3, <1>4 DEF PoolSteps

(* No job is lost or given to two workers (render360-web-worker-pool.mjs).  *)
THEOREM JobsHavePlaces == PoolSpec => []JobsHaveOnePlace
<1>1. PoolInit => PoolInv
  <2> SUFFICES ASSUME PoolInit PROVE PoolInv
    OBVIOUS
  <2>1. pool \in Pools /\ ~pool.closed
    BY PoolAssumption DEF PoolInit, Pools
  <2>2. \A i \in 1 .. Len(PoolWorkers) : PoolWorkers[i] \in PoolSet
    BY DEF PoolSet
  <2>3. PlacesIn(pool)
    BY <2>2, PoolAssumption DEF PoolInit, PlacesIn, Twice
  <2> QED BY <2>1, <2>3 DEF PoolInv
<1>2. PoolInv => JobsHaveOnePlace
  <2> SUFFICES ASSUME PoolInv, ~pool.closed, NEW j \in PoolJobs, pool.fate[j] = "queued"
               PROVE  Cardinality({w \in PoolSet : pool.job[w] = j})
                         + Cardinality({i \in 1..Len(pool.queue) : pool.queue[i] = j}) = 1
    BY DEF JobsHaveOnePlace
  <2> DEFINE workers == {w \in PoolSet : pool.job[w] = j}
             queued == {i \in 1..Len(pool.queue) : pool.queue[i] = j}
  <2>0. PlacesIn(pool) /\ j # Nothing
    BY PoolAssumption DEF PoolInv
  <2>1. \A x : Cardinality({}) = 0 /\ Cardinality({x}) = 1
    BY FS_EmptySet, FS_Singleton
  <2>2. ASSUME NEW w \in workers PROVE workers = {w} /\ queued = {}
    BY <2>0 DEF PlacesIn
  <2>3. ASSUME NEW i \in queued PROVE queued = {i} /\ workers = {}
    BY <2>0 DEF PlacesIn, Twice
  <2>4. (\E w \in workers : TRUE) \/ (\E i \in queued : TRUE)
    BY <2>0 DEF PlacesIn
  <2> HIDE DEF workers, queued
  <2>5. Cardinality(workers) + Cardinality(queued) = 1
    <3>0. Cardinality({}) = 0
      BY <2>1
    <3>1. ASSUME NEW w \in workers PROVE Cardinality(workers) + Cardinality(queued) = 1
      <4>1. Cardinality({w}) = 1 /\ workers = {w} /\ queued = {}
        BY <2>1, <2>2
      <4> QED BY <3>0, <4>1
    <3>2. ASSUME NEW i \in queued PROVE Cardinality(workers) + Cardinality(queued) = 1
      <4>1. Cardinality({i}) = 1 /\ queued = {i} /\ workers = {}
        BY <2>1, <2>3
      <4> QED BY <3>0, <4>1
    <3> QED BY <2>4, <3>1, <3>2
  <2> QED BY <2>5 DEF workers, queued
<1> QED BY <1>1, <1>2, PoolKeeps, PTL DEF PoolSpec

-----------------------------------------------------------------------------
(* The shelf (PageLibrary)                                                   *)

ShelfSpec == ShelfInit /\ [][ShelfSteps]_shelf

NoGameYet == ShelfGames \cup {Nothing}
Paths == CopyNames \cup {NoPath}
FilesChosen == (UNION {Offered[g] : g \in ShelfGames}) \cup NoGameYet
ShelfJobs == [kind : {"import", "relink", "restore", "remove", "clear"},
              at : {"save", "drop", "put", "open"}, game : NoGameYet, file : FilesChosen, path : Paths]
ShelfRecords == [kept : BOOLEAN, path : Paths]
Shelves == [files : [CopyNames -> NoGameYet], record : [ShelfGames -> ShelfRecords],
            bound : [ShelfGames -> NoGameYet], target : NoGameYet,
            jobs : SUBSET ShelfJobs, listed : SUBSET ShelfGames, mixed : BOOLEAN]

OwnPath(g, path) == path = NoPath \/ \E f \in Offered[g] : path = CopyName(g, f)

\* A job that copies a file of a game copies it under a name of that game;
\* one that opens a copy has found the game's own file in it.
JobIsOwn(j) ==
    /\ j.at = "save" => j.kind \in {"import", "relink"}
    /\ j.kind \in {"import", "relink"} =>
          j.game \in ShelfGames /\ j.file \in Offered[j.game] /\ OwnPath(j.game, j.path)
    /\ j.kind = "restore" => j.game \in ShelfGames /\ j.file = j.game
    /\ j.kind = "remove" => j.game \in ShelfGames

FilesAreOwn(s) == \A g \in ShelfGames : \A f \in Offered[g] : s.files[CopyName(g, f)] \in {g, Nothing}
RecordsAreOwn(s) ==
    \A g \in ShelfGames : s.bound[g] \in {g, Nothing} /\ OwnPath(g, s.record[g].path)

ShelfOwn(s) ==
    /\ s \in Shelves
    /\ \A j \in s.jobs : JobIsOwn(j)
    /\ FilesAreOwn(s)
    /\ ~s.mixed => RecordsAreOwn(s)

\* The names of copies are apart, and none of them is no name.
LEMMA NamesApart ==
    /\ \A g \in ShelfGames : \A f \in Offered[g] : CopyName(g, f) \in CopyNames /\ CopyName(g, f) # NoPath
    /\ \A g, h \in ShelfGames : \A f \in Offered[g], e \in Offered[h] :
          CopyName(g, f) = CopyName(h, e) => g = h
    /\ NoPath \in Paths
<1>1. \A g \in ShelfGames : \A f \in Offered[g] : CopyName(g, f) \in CopyNames
  BY DEF CopyNames
<1>2. \A g \in ShelfGames : \A f \in Offered[g] : CopyName(g, f) # NoPath
  BY PageAssumption DEF CopyName, NoPath, ShelfGames
<1>3. \A g, h \in ShelfGames : \A f \in Offered[g], e \in Offered[h] :
          CopyName(g, f) = CopyName(h, e) => g = h
  BY DEF CopyName
<1> QED BY <1>1, <1>2, <1>3 DEF Paths

LEMMA OwnPathTyped ==
    ASSUME NEW g \in ShelfGames, NEW path, OwnPath(g, path)
    PROVE  path \in Paths
<1>1. CASE path = NoPath
  BY <1>1, NamesApart
<1>2. ASSUME NEW f \in Offered[g], path = CopyName(g, f) PROVE path \in Paths
  BY <1>2, NamesApart DEF Paths
<1> QED BY <1>1, <1>2 DEF OwnPath

LEMMA JobTyped ==
    ASSUME NEW what \in {"import", "relink", "restore", "remove", "clear"},
           NEW at \in {"save", "drop", "put", "open"}, NEW g \in NoGameYet, NEW f \in FilesChosen,
           NEW path \in Paths
    PROVE  /\ Job(what, at, g, f, path) \in ShelfJobs
           /\ Job(what, at, g, f, path).at = at
           /\ Job(what, at, g, f, path).kind = what /\ Job(what, at, g, f, path).game = g
           /\ Job(what, at, g, f, path).file = f /\ Job(what, at, g, f, path).path = path
<1>1. Job(what, at, g, f, path) = [kind |-> what, at |-> at, game |-> g, file |-> f, path |-> path]
  BY DEF Job
<1>2. Job(what, at, g, f, path) \in ShelfJobs
  BY <1>1 DEF ShelfJobs
<1> QED BY <1>1, <1>2

LEMMA OfferedFile ==
    ASSUME NEW g \in ShelfGames, NEW f \in Offered[g]
    PROVE  f \in FilesChosen
BY DEF FilesChosen

LEMMA GameTyped ==
    /\ Nothing \in NoGameYet /\ Nothing \in FilesChosen
    /\ \A g \in ShelfGames : g \in NoGameYet /\ g \in FilesChosen
BY DEF NoGameYet, FilesChosen

\* The jobs change and nothing else.
LEMMA JobsChange ==
    ASSUME NEW s, ShelfOwn(s), NEW jobs \in SUBSET ShelfJobs, \A j \in jobs : JobIsOwn(j)
    PROVE  ShelfOwn([s EXCEPT !.jobs = jobs])
<1> DEFINE t == [s EXCEPT !.jobs = jobs]
<1>1. /\ t \in Shelves /\ t.jobs = jobs /\ t.files = s.files /\ t.bound = s.bound
      /\ t.record = s.record /\ t.mixed = s.mixed
  BY DEF ShelfOwn, Shelves
<1> HIDE DEF t
<1>2. ShelfOwn(t)
  BY <1>1 DEF ShelfOwn, FilesAreOwn, RecordsAreOwn
<1> QED BY <1>2 DEF t

LEMMA JobAdded ==
    ASSUME NEW s, ShelfOwn(s), NEW j \in ShelfJobs, JobIsOwn(j)
    PROVE  ShelfOwn([s EXCEPT !.jobs = s.jobs \union {j}])
<1> DEFINE jobs == s.jobs \union {j}
<1>1. jobs \in SUBSET ShelfJobs /\ \A k \in jobs : JobIsOwn(k)
  BY DEF ShelfOwn, Shelves
<1> HIDE DEF jobs
<1>2. ShelfOwn([s EXCEPT !.jobs = jobs])
  BY <1>1, JobsChange
<1> QED BY <1>2 DEF jobs

LEMMA JobDone ==
    ASSUME NEW s, ShelfOwn(s), NEW j
    PROVE  ShelfOwn([s EXCEPT !.jobs = s.jobs \ {j}])
<1> DEFINE jobs == s.jobs \ {j}
<1>1. jobs \in SUBSET ShelfJobs /\ \A k \in jobs : JobIsOwn(k)
  BY DEF ShelfOwn, Shelves
<1> HIDE DEF jobs
<1>2. ShelfOwn([s EXCEPT !.jobs = jobs])
  BY <1>1, JobsChange
<1> QED BY <1>2 DEF jobs

LEMMA JobAdvances ==
    ASSUME NEW s, ShelfOwn(s), NEW j \in s.jobs, NEW at \in {"save", "drop", "put", "open"},
           j.kind \in {"import", "relink"}, NEW path, OwnPath(j.game, path)
    PROVE  ShelfOwn([s EXCEPT !.jobs = (s.jobs \ {j}) \union {[j EXCEPT !.at = at, !.path = path]}])
<1> DEFINE k == [j EXCEPT !.at = at, !.path = path]
           jobs == (s.jobs \ {j}) \union {k}
<1>0. j \in ShelfJobs /\ JobIsOwn(j)
  BY DEF ShelfOwn, Shelves
<1>1. path \in Paths
  BY <1>0, OwnPathTyped DEF JobIsOwn
<1>2. k \in ShelfJobs /\ k.at = at /\ k.kind = j.kind /\ k.game = j.game /\ k.file = j.file /\ k.path = path
  BY <1>0, <1>1 DEF ShelfJobs
<1> HIDE DEF k
<1>3. JobIsOwn(k)
  BY <1>0, <1>2 DEF JobIsOwn
<1>4. jobs \in SUBSET ShelfJobs /\ \A i \in jobs : JobIsOwn(i)
  BY <1>2, <1>3 DEF ShelfOwn, Shelves
<1> HIDE DEF jobs
<1>5. ShelfOwn([s EXCEPT !.jobs = jobs])
  BY <1>4, JobsChange
<1> QED BY <1>5 DEF jobs, k

\* Copies are written, dropped and cleared.
LEMMA FilesChange ==
    ASSUME NEW s, ShelfOwn(s), NEW files \in [CopyNames -> NoGameYet],
           \A g \in ShelfGames : \A f \in Offered[g] : files[CopyName(g, f)] \in {g, Nothing}
    PROVE  ShelfOwn([s EXCEPT !.files = files])
<1> DEFINE t == [s EXCEPT !.files = files]
<1>1. /\ t \in Shelves /\ t.jobs = s.jobs /\ t.files = files /\ t.bound = s.bound
      /\ t.record = s.record /\ t.mixed = s.mixed
  BY DEF ShelfOwn, Shelves
<1> HIDE DEF t
<1>2. ShelfOwn(t)
  BY <1>1 DEF ShelfOwn, FilesAreOwn, RecordsAreOwn
<1> QED BY <1>2 DEF t

LEMMA CopyDropped ==
    ASSUME NEW s, ShelfOwn(s), NEW path \in Paths
    PROVE  /\ ShelfOwn(DropCopy(s, path)) /\ DropCopy(s, path).jobs = s.jobs
           /\ DropCopy(s, path).target = s.target /\ DropCopy(s, path).mixed = s.mixed
<1> DEFINE files == [s.files EXCEPT ![path] = Nothing]
<1>1. files \in [CopyNames -> NoGameYet]
  BY GameTyped DEF ShelfOwn, Shelves
<1>2. \A g \in ShelfGames : \A f \in Offered[g] : files[CopyName(g, f)] \in {g, Nothing}
  BY NamesApart DEF ShelfOwn, Shelves, FilesAreOwn
<1>3. DropCopy(s, path) = s \/ DropCopy(s, path) = [s EXCEPT !.files = files]
  BY DEF DropCopy
<1> HIDE DEF files
<1>4. ShelfOwn([s EXCEPT !.files = files])
  BY <1>1, <1>2, FilesChange
<1>5. s \in Shelves
  BY DEF ShelfOwn
<1>6. /\ [s EXCEPT !.files = files].jobs = s.jobs /\ [s EXCEPT !.files = files].target = s.target
      /\ [s EXCEPT !.files = files].mixed = s.mixed
  BY <1>5 DEF Shelves
<1> QED BY <1>3, <1>4, <1>6

LEMMA CopySaved ==
    ASSUME NEW s, ShelfOwn(s), NEW g \in ShelfGames, NEW f \in Offered[g]
    PROVE  /\ ShelfOwn([s EXCEPT !.files = [s.files EXCEPT ![CopyName(g, f)] = g]])
           /\ [s EXCEPT !.files = [s.files EXCEPT ![CopyName(g, f)] = g]].jobs = s.jobs
<1> DEFINE files == [s.files EXCEPT ![CopyName(g, f)] = g]
<1>1. files \in [CopyNames -> NoGameYet]
  BY GameTyped DEF ShelfOwn, Shelves
<1>2. ASSUME NEW h \in ShelfGames, NEW e \in Offered[h] PROVE files[CopyName(h, e)] \in {h, Nothing}
  <2>1. CopyName(h, e) \in CopyNames /\ DOMAIN s.files = CopyNames /\ s.files[CopyName(h, e)] \in {h, Nothing}
    BY NamesApart DEF ShelfOwn, Shelves, FilesAreOwn
  <2>2. CopyName(h, e) = CopyName(g, f) => h = g
    BY NamesApart
  <2> QED BY <2>1, <2>2
<1> HIDE DEF files
<1>3. ShelfOwn([s EXCEPT !.files = files])
  BY <1>1, <1>2, FilesChange
<1>4. s \in Shelves
  BY DEF ShelfOwn
<1>5. [s EXCEPT !.files = files].jobs = s.jobs
  BY <1>4 DEF Shelves
<1> QED BY <1>3, <1>5 DEF files

\* A record is written, or a game bound, while nothing is mixed up.
LEMMA RecordChanges ==
    ASSUME NEW s, ShelfOwn(s), NEW g \in ShelfGames, NEW kept \in BOOLEAN, NEW path, OwnPath(g, path)
    PROVE  LET t == [s EXCEPT !.record[g] = [kept |-> kept, path |-> path]]
           IN  ShelfOwn(t) /\ t.jobs = s.jobs /\ t.mixed = s.mixed /\ t.target = s.target
<1> DEFINE entry == [kept |-> kept, path |-> path]
           record == [s.record EXCEPT ![g] = entry]
           t == [s EXCEPT !.record = record]
<1>0. s \in Shelves /\ s.record \in [ShelfGames -> ShelfRecords]
  BY DEF ShelfOwn, Shelves
<1>1. entry \in ShelfRecords /\ entry.path = path
  BY OwnPathTyped DEF ShelfRecords
<1> HIDE DEF entry
<1>2. record \in [ShelfGames -> ShelfRecords] /\ record[g] = entry
      /\ \A h \in ShelfGames : h # g => record[h] = s.record[h]
  BY <1>0, <1>1
<1> HIDE DEF record
<1>3. /\ t \in Shelves /\ t.jobs = s.jobs /\ t.files = s.files /\ t.bound = s.bound
      /\ t.record = record /\ t.mixed = s.mixed /\ t.target = s.target
  BY <1>0, <1>2 DEF Shelves
<1>4. [s EXCEPT !.record[g] = [kept |-> kept, path |-> path]] = t
  BY DEF t, record, entry
<1> HIDE DEF t
<1>5. ASSUME ~s.mixed PROVE RecordsAreOwn(t)
  <2>1. \A h \in ShelfGames : s.bound[h] \in {h, Nothing} /\ OwnPath(h, s.record[h].path)
    BY <1>5 DEF ShelfOwn, RecordsAreOwn
  <2> QED BY <1>1, <1>2, <1>3, <2>1 DEF RecordsAreOwn
<1>6. ShelfOwn(t)
  BY <1>3, <1>5 DEF ShelfOwn, FilesAreOwn
<1> QED BY <1>3, <1>4, <1>6

LEMMA Bound ==
    ASSUME NEW s, ShelfOwn(s), NEW g \in ShelfGames, NEW owner \in {g, Nothing}
    PROVE  /\ ShelfOwn(Bind(s, g, owner)) /\ Bind(s, g, owner).jobs = s.jobs
           /\ Bind(s, g, owner).mixed = s.mixed
<1> DEFINE bound == [s.bound EXCEPT ![g] = owner]
           t == [s EXCEPT !.bound = bound]
<1>0. s \in Shelves /\ s.bound \in [ShelfGames -> NoGameYet]
  BY DEF ShelfOwn, Shelves
<1>1. bound \in [ShelfGames -> NoGameYet] /\ bound[g] = owner
      /\ \A h \in ShelfGames : h # g => bound[h] = s.bound[h]
  BY <1>0, GameTyped
<1> HIDE DEF bound
<1>2. /\ t \in Shelves /\ t.jobs = s.jobs /\ t.files = s.files /\ t.bound = bound
      /\ t.record = s.record /\ t.mixed = s.mixed
  BY <1>0, <1>1 DEF Shelves
<1>3. Bind(s, g, owner) = t
  BY DEF Bind, t, bound
<1> HIDE DEF t
<1>4. ASSUME ~s.mixed PROVE RecordsAreOwn(t)
  <2>1. \A h \in ShelfGames : s.bound[h] \in {h, Nothing} /\ OwnPath(h, s.record[h].path)
    BY <1>4 DEF ShelfOwn, RecordsAreOwn
  <2> QED BY <1>1, <1>2, <2>1 DEF RecordsAreOwn
<1>5. ShelfOwn(t)
  BY <1>2, <1>4 DEF ShelfOwn, FilesAreOwn
<1> QED BY <1>2, <1>3, <1>5

\* The target is another one, and a mix-up is noted where one may have happened.
LEMMA TargetChanges ==
    ASSUME NEW s, ShelfOwn(s), NEW target \in NoGameYet
    PROVE  ShelfOwn([s EXCEPT !.target = target])
<1> DEFINE t == [s EXCEPT !.target = target]
<1>1. /\ t \in Shelves /\ t.jobs = s.jobs /\ t.files = s.files /\ t.bound = s.bound
      /\ t.record = s.record /\ t.mixed = s.mixed
  BY DEF ShelfOwn, Shelves
<1> HIDE DEF t
<1>2. ShelfOwn(t)
  BY <1>1 DEF ShelfOwn, FilesAreOwn, RecordsAreOwn
<1> QED BY <1>2 DEF t

\* What is kept of a game stays, and no job is new.
LEMMA OwnStays ==
    ASSUME NEW s, ShelfOwn(s), NEW t \in Shelves, t.files = s.files, t.record = s.record,
           t.bound = s.bound, t.mixed = s.mixed, t.jobs \subseteq s.jobs
    PROVE  ShelfOwn(t)
BY DEF ShelfOwn, FilesAreOwn, RecordsAreOwn

LEMMA ChoosingKeeps ==
    ASSUME ShelfOwn(shelf), ~shelf.mixed
    PROVE  /\ \A g \in ShelfGames : \A f \in Offered[g] : Import(g, f) => ShelfOwn(shelf')
           /\ \A g \in ShelfGames : StartRelink(g) \/ OpenCopy(g) => ShelfOwn(shelf')
           /\ \A f : ChooseRelink(f) => ShelfOwn(shelf')
<1>0. shelf \in Shelves /\ RecordsAreOwn(shelf) /\ FilesAreOwn(shelf)
  BY DEF ShelfOwn
<1>1. ASSUME NEW g \in ShelfGames, NEW f \in Offered[g], Import(g, f) PROVE ShelfOwn(shelf')
  <2> DEFINE j == Job("import", "save", g, f, NoPath)
  <2>1. j \in ShelfJobs /\ j.kind = "import" /\ j.game = g /\ j.file = f /\ j.path = NoPath
    BY JobTyped, OfferedFile, GameTyped, NamesApart
  <2> HIDE DEF j
  <2>2. JobIsOwn(j)
    BY <2>1 DEF JobIsOwn, OwnPath
  <2>3. shelf' = [shelf EXCEPT !.jobs = shelf.jobs \union {j}]
    BY <1>1 DEF Import, j
  <2>4. ShelfOwn([shelf EXCEPT !.jobs = shelf.jobs \union {j}])
    BY <2>1, <2>2, JobAdded
  <2> QED BY <2>3, <2>4
<1>2. ASSUME NEW g \in ShelfGames, StartRelink(g) PROVE ShelfOwn(shelf')
  <2>1. ShelfOwn([shelf EXCEPT !.target = g])
    BY GameTyped, TargetChanges
  <2> QED BY <1>2, <2>1 DEF StartRelink
<1>3. ASSUME NEW g \in ShelfGames, OpenCopy(g) PROVE ShelfOwn(shelf')
  <2> DEFINE path == shelf.record[g].path
             j == Job("restore", "open", g, shelf.files[path], path)
  <2>1. /\ path # NoPath /\ shelf.files[path] # Nothing
        /\ shelf' = [shelf EXCEPT !.jobs = shelf.jobs \union {j}]
    BY <1>3 DEF OpenCopy
  <2>2. OwnPath(g, path)
    BY <1>0 DEF RecordsAreOwn
  <2>3. PICK f \in Offered[g] : path = CopyName(g, f)
    BY <2>1, <2>2 DEF OwnPath
  <2>4. shelf.files[path] = g /\ path \in Paths
    BY <1>0, <2>1, <2>2, <2>3, OwnPathTyped DEF FilesAreOwn
  <2> HIDE DEF path
  <2>5. Job("restore", "open", g, g, path) \in ShelfJobs
    BY <2>4, JobTyped, GameTyped
  <2>6. j \in ShelfJobs /\ j.at = "open" /\ j.kind = "restore" /\ j.game = g /\ j.file = g
    BY <2>4, <2>5 DEF Job
  <2> HIDE DEF j
  <2>7. JobIsOwn(j)
    BY <2>6 DEF JobIsOwn
  <2>8. ShelfOwn([shelf EXCEPT !.jobs = shelf.jobs \union {j}])
    BY <2>6, <2>7, JobAdded
  <2> QED BY <2>1, <2>8
<1>4. ASSUME NEW f, ChooseRelink(f) PROVE ShelfOwn(shelf')
  <2> DEFINE g == shelf.target
             j == Job("relink", "save", g, f, NoPath)
  <2>0. g \in ShelfGames /\ f \in Offered[g]
    BY <1>0, <1>4 DEF ChooseRelink, Shelves, NoGameYet
  <2>1. shelf' = [shelf EXCEPT !.jobs = shelf.jobs \union {j}]
    BY <1>4 DEF ChooseRelink
  <2> HIDE DEF g
  <2>2. j \in ShelfJobs /\ j.kind = "relink" /\ j.game = g /\ j.file = f /\ j.path = NoPath
    BY <2>0, JobTyped, OfferedFile, GameTyped, NamesApart
  <2> HIDE DEF j
  <2>3. JobIsOwn(j)
    BY <2>0, <2>2 DEF JobIsOwn, OwnPath
  <2>4. ShelfOwn([shelf EXCEPT !.jobs = shelf.jobs \union {j}])
    BY <2>2, <2>3, JobAdded
  <2> QED BY <2>1, <2>4
<1> QED BY <1>1, <1>2, <1>3, <1>4

LEMMA SavingKeeps ==
    ASSUME ShelfOwn(shelf), ~shelf.mixed, NEW j \in shelf.jobs, SaveCopy(j)
    PROVE  ShelfOwn(shelf')
<1>0. shelf \in Shelves /\ j \in ShelfJobs /\ JobIsOwn(j) /\ j.at = "save"
  BY DEF ShelfOwn, Shelves, SaveCopy
<1>1. j.kind \in {"import", "relink"} /\ j.game \in ShelfGames /\ j.file \in Offered[j.game]
  BY <1>0 DEF JobIsOwn
<1> DEFINE n == CopyName(j.game, j.file)
           files == [shelf.files EXCEPT ![n] = j.game]
           written == [shelf EXCEPT !.files = files]
           dropped == DropCopy(shelf, n)
           advanced(path) == (shelf.jobs \ {j}) \union {[j EXCEPT !.at = "drop", !.path = path]}
<1>2. OwnPath(j.game, n) /\ OwnPath(j.game, NoPath) /\ n \in Paths
  BY <1>1, NamesApart DEF OwnPath, Paths
<1>3. ShelfOwn(written) /\ written.jobs = shelf.jobs
  BY <1>1, CopySaved
<1>4. ShelfOwn(dropped) /\ dropped.jobs = shelf.jobs
  BY <1>2, CopyDropped
<1>5. \/ shelf' = [shelf EXCEPT !.files = files, !.jobs = advanced(n)]
      \/ shelf' = [shelf EXCEPT !.jobs = advanced(NoPath)]
      \/ shelf' = [dropped EXCEPT !.jobs = advanced(NoPath)]
  BY DEF SaveCopy, Advance
<1>6. [shelf EXCEPT !.files = files, !.jobs = advanced(n)] = [written EXCEPT !.jobs = advanced(n)]
  <2> HIDE DEF files, advanced
  <2> QED BY <1>0 DEF Shelves, written
<1> HIDE DEF n, files, written, dropped
<1>7. ASSUME NEW s, ShelfOwn(s), s.jobs = shelf.jobs, NEW path, OwnPath(j.game, path)
      PROVE  ShelfOwn([s EXCEPT !.jobs = advanced(path)])
  <2>1. j \in s.jobs
    BY <1>7
  <2>2. ShelfOwn([s EXCEPT !.jobs = (s.jobs \ {j}) \union {[j EXCEPT !.at = "drop", !.path = path]}])
    BY <1>1, <1>7, <2>1, JobAdvances
  <2> QED BY <1>7, <2>2
<1> HIDE DEF advanced
<1>8. CASE shelf' = [written EXCEPT !.jobs = advanced(n)]
  BY <1>2, <1>3, <1>7, <1>8
<1>9. CASE shelf' = [shelf EXCEPT !.jobs = advanced(NoPath)]
  BY <1>2, <1>7, <1>9
<1>10. CASE shelf' = [dropped EXCEPT !.jobs = advanced(NoPath)]
  BY <1>2, <1>4, <1>7, <1>10
<1> QED BY <1>5, <1>6, <1>8, <1>9, <1>10

LEMMA ImportKeeps ==
    ASSUME ShelfOwn(shelf), ~shelf.mixed, NEW j \in shelf.jobs, FinishImport(j)
    PROVE  ShelfOwn(shelf')
<1>0. JobIsOwn(j) /\ j.kind = "import"
  BY DEF ShelfOwn, FinishImport
<1>1. j.game \in ShelfGames /\ OwnPath(j.game, j.path)
  BY <1>0 DEF JobIsOwn
<1> DEFINE put == PutGame(shelf, j.game, j.path)
           bound == Bind(put, j.game, j.game)
<1>2. ShelfOwn(put) /\ put.jobs = shelf.jobs /\ put.mixed = shelf.mixed
  BY <1>1, RecordChanges DEF PutGame
<1> HIDE DEF put
<1>3. ShelfOwn(bound) /\ bound.jobs = shelf.jobs
  BY <1>1, <1>2, Bound
<1>4. shelf' = [bound EXCEPT !.jobs = bound.jobs \ {j}]
  BY <1>3 DEF FinishImport, put
<1> HIDE DEF bound
<1>5. ShelfOwn([bound EXCEPT !.jobs = bound.jobs \ {j}])
  BY <1>3, JobDone
<1> QED BY <1>4, <1>5

LEMMA DropOldKeeps ==
    ASSUME ShelfOwn(shelf), ~shelf.mixed, NEW j \in shelf.jobs, DropOld(j)
    PROVE  ShelfOwn(shelf')
<1>0. shelf \in Shelves /\ j \in ShelfJobs /\ JobIsOwn(j) /\ j.kind = "relink" /\ shelf.target \in ShelfGames
  BY DEF ShelfOwn, Shelves, DropOld, NoGameYet
<1> DEFINE old == shelf.record[shelf.target].path
           left == IF j.path = NoPath \/ old = j.path THEN shelf ELSE DropCopy(shelf, old)
           jobs == (shelf.jobs \ {j}) \union {[j EXCEPT !.at = "put", !.path = j.path]}
           moved == [left EXCEPT !.jobs = jobs]
           other == shelf.target # j.game
<1>1. old \in Paths
  BY <1>0 DEF Shelves, ShelfRecords
<1>2. ShelfOwn(left) /\ left.jobs = shelf.jobs /\ left.mixed = shelf.mixed
  <2>1. ShelfOwn(DropCopy(shelf, old)) /\ DropCopy(shelf, old).jobs = shelf.jobs
        /\ DropCopy(shelf, old).mixed = shelf.mixed
    <3> HIDE DEF old
    <3> QED BY <1>1, CopyDropped
  <2> HIDE DEF old
  <2> QED BY <2>1
<1>3. shelf' = [left EXCEPT !.jobs = jobs, !.mixed = other] /\ other \in BOOLEAN
  BY DEF DropOld, Advance
<1> HIDE DEF old, left, other
<1>4. ShelfOwn(moved)
  <2>1. OwnPath(j.game, j.path) /\ j \in left.jobs
    BY <1>0, <1>2 DEF JobIsOwn
  <2>2. ShelfOwn([left EXCEPT !.jobs = (left.jobs \ {j}) \union {[j EXCEPT !.at = "put", !.path = j.path]}])
    BY <1>0, <1>2, <2>1, JobAdvances
  <2> QED BY <1>2, <2>2
<1>5. left \in Shelves /\ moved \in Shelves
  BY <1>2, <1>4 DEF ShelfOwn
<1> HIDE DEF jobs
<1>6. shelf' = [moved EXCEPT !.mixed = other] /\ ~moved.mixed
  BY <1>2, <1>3, <1>5 DEF Shelves
<1> HIDE DEF moved
<1>7. /\ shelf' \in Shelves /\ shelf'.files = moved.files /\ shelf'.record = moved.record
      /\ shelf'.bound = moved.bound /\ shelf'.jobs = moved.jobs
  BY <1>3, <1>5, <1>6 DEF Shelves
<1> QED BY <1>4, <1>6, <1>7 DEF ShelfOwn, FilesAreOwn, RecordsAreOwn

LEMMA RelinkKeeps ==
    ASSUME ShelfOwn(shelf), ~shelf.mixed, NEW j \in shelf.jobs, FinishRelink(j)
    PROVE  ShelfOwn(shelf')
<1>0. shelf \in Shelves /\ j \in ShelfJobs /\ JobIsOwn(j) /\ j.kind = "relink" /\ shelf.target \in ShelfGames
  BY DEF ShelfOwn, Shelves, FinishRelink, NoGameYet
<1>1. j.game \in ShelfGames /\ OwnPath(j.game, j.path) /\ j.path \in Paths
  BY <1>0 DEF JobIsOwn, ShelfJobs
<1> DEFINE t == shelf.target
           put == IF j.path = NoPath THEN shelf ELSE PutGame(shelf, t, j.path)
           bound == Bind(put, t, j.game)
<1>2. shelf' = [bound EXCEPT !.target = Nothing, !.jobs = bound.jobs \ {j}, !.mixed = bound.mixed \/ t # j.game]
  BY DEF FinishRelink
<1>3. CASE t = j.game
  <2>1. ShelfOwn(PutGame(shelf, t, j.path)) /\ PutGame(shelf, t, j.path).jobs = shelf.jobs
        /\ PutGame(shelf, t, j.path).mixed = shelf.mixed
    <3> HIDE DEF t
    <3>1. t \in ShelfGames /\ OwnPath(t, j.path) /\ TRUE \in BOOLEAN
      BY <1>1, <1>3
    <3> QED BY <3>1, RecordChanges DEF PutGame
  <2>2. ShelfOwn(put) /\ put.mixed = shelf.mixed
    <3> HIDE DEF t
    <3> QED BY <2>1
  <2> HIDE DEF put, t
  <2>3. ShelfOwn(bound) /\ bound.mixed = shelf.mixed
    BY <1>1, <1>3, <2>2, Bound
  <2>4. (bound.mixed \/ t # j.game) = bound.mixed
    BY <1>3, <2>3, <1>0 DEF Shelves
  <2> HIDE DEF bound
  <2>5. bound \in Shelves /\ Nothing \in NoGameYet /\ bound.jobs \ {j} \in SUBSET ShelfJobs
        /\ bound.mixed \in BOOLEAN
    BY <2>3, GameTyped DEF ShelfOwn, Shelves
  <2>6. shelf' = [bound EXCEPT !.target = Nothing, !.jobs = bound.jobs \ {j}, !.mixed = bound.mixed]
    BY <1>2, <2>4
  <2>7. /\ shelf' \in Shelves /\ shelf'.files = bound.files /\ shelf'.record = bound.record
        /\ shelf'.bound = bound.bound /\ shelf'.mixed = bound.mixed /\ shelf'.jobs = bound.jobs \ {j}
    BY <2>5, <2>6 DEF Shelves
  <2>8. shelf'.jobs \subseteq bound.jobs
    BY <2>7
  <2> QED BY <2>3, <2>7, <2>8, OwnStays
<1>4. CASE t # j.game
  <2> DEFINE entry == [kept |-> TRUE, path |-> j.path]
             record == IF j.path = NoPath THEN shelf.record ELSE [shelf.record EXCEPT ![t] = entry]
             sources == [shelf.bound EXCEPT ![t] = j.game]
  <2>1. entry \in ShelfRecords
    BY <1>1 DEF ShelfRecords
  <2>2. record \in [ShelfGames -> ShelfRecords] /\ sources \in [ShelfGames -> NoGameYet]
    <3> HIDE DEF entry
    <3> QED BY <1>0, <1>1, <2>1, GameTyped DEF Shelves
  <2>3. put = [shelf EXCEPT !.record = record]
    <3>1. CASE j.path = NoPath
      <4>1. put = shelf /\ record = shelf.record
        BY <3>1
      <4> HIDE DEF put, record
      <4> QED BY <1>0, <4>1 DEF Shelves
    <3>2. CASE j.path # NoPath
      <4>1. put = PutGame(shelf, t, j.path) /\ record = [shelf.record EXCEPT ![t] = entry]
        BY <3>2
      <4> QED BY <4>1 DEF PutGame
    <3> QED BY <3>1, <3>2
  <2> HIDE DEF put, record
  <2>4. bound = [put EXCEPT !.bound = [put.bound EXCEPT ![t] = j.game]]
    BY DEF Bind
  <2>5. put.bound = shelf.bound /\ put \in Shelves /\ put.files = shelf.files /\ put.jobs = shelf.jobs
    <3> HIDE DEF t
    <3> QED BY <1>0, <2>2, <2>3 DEF Shelves
  <2>6. bound = [put EXCEPT !.bound = sources]
    BY <2>4, <2>5
  <2> HIDE DEF bound, sources, t
  <2>7. bound \in Shelves /\ bound.files = shelf.files /\ bound.jobs = shelf.jobs
    BY <2>2, <2>5, <2>6 DEF Shelves
  <2>8. shelf' = [bound EXCEPT !.target = Nothing, !.jobs = bound.jobs \ {j}, !.mixed = TRUE]
    BY <1>2, <1>4
  <2>9. Nothing \in NoGameYet /\ bound.jobs \ {j} \in SUBSET ShelfJobs
    BY <2>7, GameTyped DEF Shelves
  <2>10. /\ shelf' \in Shelves /\ shelf'.files = shelf.files /\ shelf'.mixed
         /\ shelf'.jobs = shelf.jobs \ {j}
    BY <2>7, <2>8, <2>9 DEF Shelves
  <2> QED BY <2>10 DEF ShelfOwn, FilesAreOwn
<1> QED BY <1>3, <1>4

LEMMA RemovalKeeps ==
    ASSUME ShelfOwn(shelf), ~shelf.mixed
    PROVE  /\ \A g \in ShelfGames : RemoveGame(g) => ShelfOwn(shelf')
           /\ \A j \in shelf.jobs : RelinkFails(j) \/ FinishRestore(j) \/ FinishRemove(j) => ShelfOwn(shelf')
<1>0. shelf \in Shelves /\ RecordsAreOwn(shelf)
  BY DEF ShelfOwn
<1>1. ASSUME NEW g \in ShelfGames, RemoveGame(g) PROVE ShelfOwn(shelf')
  <2> DEFINE path == shelf.record[g].path
             left == DropCopy(shelf, path)
             j == Job("remove", "drop", g, Nothing, NoPath)
  <2>1. path \in Paths
    BY <1>0 DEF Shelves, ShelfRecords
  <2>2. ShelfOwn(left) /\ left.jobs = shelf.jobs
    <3> HIDE DEF path
    <3> QED BY <2>1, CopyDropped
  <2>3. shelf' = [left EXCEPT !.jobs = left.jobs \union {j}]
    BY <1>1 DEF RemoveGame
  <2>4. j \in ShelfJobs /\ j.at = "drop" /\ j.kind = "remove" /\ j.game = g
    BY JobTyped, GameTyped, NamesApart
  <2> HIDE DEF left, j
  <2>5. JobIsOwn(j)
    BY <2>4 DEF JobIsOwn
  <2>6. ShelfOwn([left EXCEPT !.jobs = left.jobs \union {j}])
    BY <2>2, <2>4, <2>5, JobAdded
  <2> QED BY <2>3, <2>6
<1>2. ASSUME NEW j \in shelf.jobs, RelinkFails(j) PROVE ShelfOwn(shelf')
  BY <1>2, JobDone DEF RelinkFails
<1>3. ASSUME NEW j \in shelf.jobs, FinishRestore(j) PROVE ShelfOwn(shelf')
  <2> DEFINE bound == Bind(shelf, j.game, j.file)
  <2>1. j.game \in ShelfGames /\ j.file \in {j.game, Nothing}
    BY <1>3 DEF ShelfOwn, JobIsOwn, FinishRestore
  <2>2. ShelfOwn(bound) /\ bound.jobs = shelf.jobs
    BY <2>1, Bound
  <2>3. shelf' = [bound EXCEPT !.jobs = bound.jobs \ {j}]
    BY <1>3 DEF FinishRestore
  <2> HIDE DEF bound
  <2>4. ShelfOwn([bound EXCEPT !.jobs = bound.jobs \ {j}])
    BY <2>2, JobDone
  <2> QED BY <2>3, <2>4
<1>4. ASSUME NEW j \in shelf.jobs, FinishRemove(j) PROVE ShelfOwn(shelf')
  <2> DEFINE gone == DropGame(shelf, j.game)
             bound == Bind(gone, j.game, Nothing)
  <2>1. j.game \in ShelfGames
    BY <1>4 DEF ShelfOwn, JobIsOwn, FinishRemove
  <2>2. OwnPath(j.game, NoPath)
    BY DEF OwnPath
  <2>3. ShelfOwn(gone) /\ gone.jobs = shelf.jobs
    BY <2>1, <2>2, RecordChanges DEF DropGame
  <2>4. shelf' = [bound EXCEPT !.jobs = bound.jobs \ {j}]
    BY <1>4 DEF FinishRemove
  <2> HIDE DEF gone
  <2>5. ShelfOwn(bound)
    BY <2>1, <2>3, Bound
  <2> HIDE DEF bound
  <2>6. ShelfOwn([bound EXCEPT !.jobs = bound.jobs \ {j}])
    BY <2>5, JobDone
  <2> QED BY <2>4, <2>6
<1> QED BY <1>1, <1>2, <1>3, <1>4

LEMMA ClearingKeeps ==
    ASSUME ShelfOwn(shelf), ~shelf.mixed
    PROVE  /\ ClearCopies \/ ClosePage => ShelfOwn(shelf')
           /\ \A j \in shelf.jobs : FinishClear(j) => ShelfOwn(shelf')
<1>0. shelf \in Shelves /\ RecordsAreOwn(shelf)
  BY DEF ShelfOwn
<1>1. ASSUME ClearCopies PROVE ShelfOwn(shelf')
  <2> DEFINE files == [n \in CopyNames |-> Nothing]
             left == [shelf EXCEPT !.files = files]
             j == Job("clear", "put", Nothing, Nothing, NoPath)
             jobs == shelf.jobs \union {j}
             listed == {g \in ShelfGames : shelf.record[g].path # NoPath}
             named == [left EXCEPT !.listed = listed]
  <2>1. files \in [CopyNames -> NoGameYet]
    BY GameTyped
  <2>2. \A g \in ShelfGames : \A f \in Offered[g] : files[CopyName(g, f)] \in {g, Nothing}
    BY NamesApart
  <2> HIDE DEF files
  <2>3. ShelfOwn(left)
    BY <2>1, <2>2, FilesChange
  <2>4. shelf' = [shelf EXCEPT !.files = files, !.listed = listed, !.jobs = jobs]
    BY <1>1 DEF ClearCopies, files
  <2>5. j \in ShelfJobs /\ j.at = "put" /\ j.kind = "clear"
    BY JobTyped, GameTyped, NamesApart
  <2> HIDE DEF j
  <2>6. JobIsOwn(j)
    BY <2>5 DEF JobIsOwn
  <2>7. listed \in SUBSET ShelfGames
    OBVIOUS
  <2> HIDE DEF listed, jobs
  <2>8. /\ named \in Shelves /\ named.jobs = shelf.jobs /\ named.files = left.files
        /\ named.record = left.record /\ named.bound = left.bound /\ named.mixed = left.mixed
        /\ left.jobs = shelf.jobs
    BY <1>0, <2>3, <2>7 DEF ShelfOwn, Shelves
  <2>9. shelf' = [named EXCEPT !.jobs = jobs]
    BY <1>0, <2>4 DEF Shelves
  <2> HIDE DEF left, named
  <2>10. ShelfOwn(named)
    BY <2>3, <2>8 DEF ShelfOwn, FilesAreOwn, RecordsAreOwn
  <2>11. ShelfOwn([named EXCEPT !.jobs = named.jobs \union {j}])
    BY <2>5, <2>6, <2>10, JobAdded
  <2> QED BY <2>8, <2>9, <2>11 DEF jobs
<1>2. ASSUME ClosePage PROVE ShelfOwn(shelf')
  <2> DEFINE bound == [g \in ShelfGames |-> Nothing]
  <2>1. bound \in [ShelfGames -> NoGameYet] /\ Nothing \in NoGameYet
    BY GameTyped
  <2>2. shelf' = [shelf EXCEPT !.bound = bound, !.target = Nothing, !.listed = {}, !.jobs = {}]
    BY <1>2 DEF ClosePage
  <2>3. \A g \in ShelfGames : bound[g] = Nothing
    OBVIOUS
  <2> HIDE DEF bound
  <2>4. /\ shelf' \in Shelves /\ shelf'.files = shelf.files /\ shelf'.record = shelf.record
        /\ shelf'.bound = bound /\ shelf'.jobs = {} /\ shelf'.mixed = shelf.mixed
    BY <1>0, <2>1, <2>2 DEF Shelves
  <2>5. RecordsAreOwn(shelf')
    BY <1>0, <2>3, <2>4 DEF RecordsAreOwn
  <2> QED BY <2>4, <2>5 DEF ShelfOwn, FilesAreOwn
<1>3. ASSUME NEW j \in shelf.jobs, FinishClear(j) PROVE ShelfOwn(shelf')
  <2> DEFINE record == [g \in ShelfGames |-> IF g \in shelf.listed
                                                THEN [kept |-> TRUE, path |-> NoPath]
                                                ELSE shelf.record[g]]
  <2>1. record \in [ShelfGames -> ShelfRecords]
    BY <1>0, NamesApart DEF Shelves, ShelfRecords
  <2>2. \A g \in ShelfGames : record[g].path \in {NoPath, shelf.record[g].path}
    BY <1>0 DEF Shelves, ShelfRecords
  <2>3. shelf' = [shelf EXCEPT !.record = record, !.listed = {}, !.jobs = shelf.jobs \ {j}]
    BY <1>3 DEF FinishClear
  <2> HIDE DEF record
  <2>4. shelf.jobs \ {j} \in SUBSET ShelfJobs
    BY <1>0 DEF Shelves
  <2>5. /\ shelf' \in Shelves /\ shelf'.files = shelf.files /\ shelf'.record = record
        /\ shelf'.bound = shelf.bound /\ shelf'.jobs = shelf.jobs \ {j} /\ shelf'.mixed = shelf.mixed
    BY <1>0, <2>1, <2>3, <2>4 DEF Shelves
  <2>6. RecordsAreOwn(shelf')
    BY <1>0, <2>2, <2>5 DEF RecordsAreOwn, OwnPath
  <2> QED BY <2>5, <2>6 DEF ShelfOwn, FilesAreOwn
<1> QED BY <1>1, <1>2, <1>3

(* A game is never given the file of another one (app.js, game-library.js,  *)
(* game-storage.js).                                                        *)
THEOREM LinksHold == ShelfSpec => []LinksAreOwn
<1> DEFINE Inv == ShelfOwn(shelf)
<1>1. ShelfInit => Inv
  <2> SUFFICES ASSUME ShelfInit PROVE ShelfOwn(shelf)
    OBVIOUS
  <2> DEFINE entry == [kept |-> FALSE, path |-> NoPath]
  <2>0. entry \in ShelfRecords /\ entry.path = NoPath
    BY NamesApart DEF ShelfRecords
  <2>1. /\ shelf = [files |-> [n \in CopyNames |-> Nothing], record |-> [g \in ShelfGames |-> entry],
                    bound |-> [g \in ShelfGames |-> Nothing], target |-> Nothing, jobs |-> {}, listed |-> {},
             mixed |-> FALSE]
    BY DEF ShelfInit
  <2> HIDE DEF entry
  <2>2. shelf \in Shelves
    BY <2>0, <2>1, GameTyped DEF Shelves
  <2>3. FilesAreOwn(shelf)
    BY <2>1, NamesApart DEF FilesAreOwn
  <2>4. RecordsAreOwn(shelf)
    BY <2>0, <2>1 DEF RecordsAreOwn, OwnPath
  <2> QED BY <2>1, <2>2, <2>3, <2>4 DEF ShelfOwn
<1>2. Inv /\ [ShelfSteps]_shelf => Inv'
  <2> SUFFICES ASSUME ShelfOwn(shelf), [ShelfSteps]_shelf PROVE ShelfOwn(shelf')
    OBVIOUS
  <2>1. CASE UNCHANGED shelf
    BY <2>1
  <2>2. CASE ShelfSteps
    BY <2>2, ChoosingKeeps, SavingKeeps, ImportKeeps, DropOldKeeps, RelinkKeeps, RemovalKeeps, ClearingKeeps
       DEF ShelfSteps
  <2> QED BY <2>1, <2>2
<1>3. Inv => LinksAreOwn
  <2> SUFFICES ASSUME ShelfOwn(shelf), ~shelf.mixed, NEW g \in ShelfGames
               PROVE  /\ shelf.bound[g] \in {g, Nothing}
                      /\ shelf.record[g].path # NoPath => shelf.files[shelf.record[g].path] \in {g, Nothing}
    BY DEF LinksAreOwn
  <2> QED BY DEF ShelfOwn, RecordsAreOwn, FilesAreOwn, OwnPath
<1> QED BY <1>1, <1>2, <1>3, PTL DEF ShelfSpec

-----------------------------------------------------------------------------
(* The parts of the page side by side (PageLibrary)                          *)

PageSpec ==
    PrefsSpec /\ DeploysSpec /\ HostSpec /\ CoverSpec /\ ZipSpec /\ PoolSpec /\ ShelfSpec

(* A game of the library is given its own copy of its own file, the sizes   *)
(* its archive states and the best of its covers (storage/game-storage.js,  *)
(* import/zip-importer.js, library/cover-resolver.js).                      *)
THEOREM GamesGetTheirOwnHolds == PageSpec => []GamesGetTheirOwn
<1>1. LinksAreOwn /\ Zip64InOrder /\ BestCoverFirst => GamesGetTheirOwn
  BY DEF GamesGetTheirOwn
<1> QED BY <1>1, LinksHold, ZipHolds, BestCoverHolds, PTL DEF PageSpec

(* The mode the player chose stays, what is served is of one deploy, each   *)
(* job of the pool has one place, and page and worker agree on the keys     *)
(* that are down (settings/app-settings-store.js, render360-sw.js,          *)
(* render360-web-worker-pool.mjs, runtime-host.js).                         *)
THEOREM PageKeepsUpHolds == PageSpec => []PageKeepsUp
<1>1. ChosenModeKept /\ ServedIsDeployed /\ JobsHaveOnePlace /\ MasksAgree => PageKeepsUp
  BY DEF PageKeepsUp
<1> QED BY <1>1, ChosenModeHolds, ServedIsNew, JobsHavePlaces, MasksHold, PTL DEF PageSpec

-----------------------------------------------------------------------------
(* The library as the player sees it (LibraryView)                           *)

LibrarySpec == LibraryInit /\ [][LibraryNext]_libraryVars

GameRecords == [id : LibraryGames \cup {NoGame}, played : Nat, cover : BOOLEAN]
PageCalls == [kind : {"open", "show", "play", "cover", "put", "remove", "refresh", "close"},
              game : LibraryGames, record : GameRecords]

LibraryType ==
    /\ db \in [record : [LibraryGames -> GameRecords], covers : SUBSET LibraryGames]
    /\ detail \in [game : GameRecords, shown : LibraryGames \cup {NoGame}, open : BOOLEAN, crossed : BOOLEAN]
    /\ calls \in SUBSET PageCalls
    /\ marks \in [clock : Nat, plays : [LibraryGames -> Nat], spoiled : SUBSET LibraryGames]

\* A record says whose it is, and so does one a call has read or will write.
RecordsNamed ==
    /\ \A g \in LibraryGames : db.record[g] = NoRecord \/ db.record[g].id = g
    /\ \A c \in calls : /\ c.kind \in {"play", "remove"} => c.record = NoRecord \/ c.record.id = c.game
                        /\ c.kind = "put" => c.record.id = c.game

Writing == {"play", "cover", "put", "remove", "refresh", "close"}
CallsOn(cs, g) == {c \in cs : c.game = g /\ c.kind \in Writing}

\* Of one game: a single call is on it, what it has read is what there is, what
\* it will write keeps the play, and a cover that is there is the record's or
\* about to be.
GameIsKept(record, covered, on, plays) ==
    /\ \A c, d \in on : c = d
    /\ \A c \in on : c.kind \in {"play", "remove"} => c.record = record
    /\ \A c \in on : c.kind = "put" => c.record.played = plays /\ c.record.cover
    /\ record # NoRecord => record.played = plays
    /\ covered => (record # NoRecord /\ record.cover) \/ \E c \in on : c.kind = "put"

GamesKept ==
    \A g \in LibraryGames \ marks.spoiled :
        GameIsKept(db.record[g], g \in db.covers, CallsOn(calls, g), marks.plays[g])

\* The cover under way is for the game the page holds.
CoverIsForTheGame ==
    marks.spoiled = {} => \A c \in calls : c.kind = "cover" => detail.game.id \in {c.game, NoGame}

\* The details that are about to be shown are those of the game the page holds.
Opening == {c \in calls : c.kind \in {"open", "show"}}
Moving == {c \in calls : c.kind \in {"open", "show", "remove", "close"}}
DetailFits ==
    ~detail.crossed =>
        /\ \A c \in Opening : Moving = {c} /\ ~detail.open
        /\ \A c \in calls : c.kind = "show" => detail.game.id = c.game
        /\ detail.open /\ Moving = {} => detail.shown = detail.game.id

LibraryInv == LibraryType /\ RecordsNamed /\ GamesKept /\ CoverIsForTheGame /\ DetailFits

\* A game that no part of the step is about is as it was.
LEMMA OtherGames ==
    ASSUME GamesKept, NEW g \in LibraryGames \ marks'.spoiled, marks.spoiled = {},
           db'.record[g] = db.record[g], g \in db'.covers <=> g \in db.covers,
           CallsOn(calls', g) = CallsOn(calls, g), marks'.plays[g] = marks.plays[g]
    PROVE  GameIsKept(db'.record[g], g \in db'.covers, CallsOn(calls', g), marks'.plays[g])
<1>1. GameIsKept(db.record[g], g \in db.covers, CallsOn(calls, g), marks.plays[g])
  BY DEF GamesKept
<1>2. (g \in db'.covers) = (g \in db.covers)
  OBVIOUS
<1> QED BY <1>1, <1>2

LEMMA CallTyped ==
    ASSUME NEW what \in {"open", "show", "play", "cover", "put", "remove", "refresh", "close"},
           NEW g \in LibraryGames, NEW record \in GameRecords
    PROVE  /\ Call(what, g, record) \in PageCalls
           /\ Call(what, g, record).kind = what /\ Call(what, g, record).game = g
           /\ Call(what, g, record).record = record
<1>1. Call(what, g, record) = [kind |-> what, game |-> g, record |-> record]
  BY DEF Call
<1>2. Call(what, g, record) \in PageCalls
  BY <1>1 DEF PageCalls
<1> QED BY <1>1, <1>2

LEMMA NoRecordTyped == NoRecord \in GameRecords /\ NoRecord.id = NoGame /\ NoRecord.id \notin LibraryGames
BY LibraryAssumption DEF NoRecord, GameRecords

(* A call of the player's on the game of the page, which it may spoil.      *)
LEMMA BeginKeeps ==
    ASSUME LibraryInv, marks.spoiled = {}, NEW what \in {"play", "cover", "remove"},
           NEW g \in LibraryGames, g = detail.game.id, NEW record \in GameRecords,
           what \in {"play", "remove"} => record = db.record[g],
           calls' = calls \cup {Call(what, g, record)},
           marks' = [marks EXCEPT !.spoiled = marks.spoiled \cup Spoils(g)], db' = db,
           detail'.game = detail.game
    PROVE  /\ calls' \in SUBSET PageCalls /\ RecordsNamed' /\ GamesKept' /\ CoverIsForTheGame'
           /\ marks' \in [clock : Nat, plays : [LibraryGames -> Nat], spoiled : SUBSET LibraryGames]
<1> DEFINE new == Call(what, g, record)
<1>0. /\ calls \in SUBSET PageCalls
      /\ marks \in [clock : Nat, plays : [LibraryGames -> Nat], spoiled : SUBSET LibraryGames]
  BY DEF LibraryInv, LibraryType
<1>1. new \in PageCalls /\ new.kind = what /\ new.game = g /\ new.record = record
  BY CallTyped
<1> HIDE DEF new
<1>2. calls' = calls \cup {new} /\ calls' \in SUBSET PageCalls
  BY <1>0, <1>1 DEF new
<1>3. Spoils(g) \subseteq {g}
  BY DEF Spoils
<1>4. /\ marks' \in [clock : Nat, plays : [LibraryGames -> Nat], spoiled : SUBSET LibraryGames]
      /\ marks'.plays = marks.plays /\ marks'.spoiled = Spoils(g)
  BY <1>0, <1>3
<1>5. RecordsNamed'
  BY <1>1, <1>2 DEF LibraryInv, RecordsNamed
<1>6. ASSUME NEW h \in LibraryGames \ marks'.spoiled, h # g
      PROVE  GameIsKept(db'.record[h], h \in db'.covers, CallsOn(calls', h), marks'.plays[h])
  <2>1. CallsOn(calls', h) = CallsOn(calls, h)
    BY <1>1, <1>2, <1>6 DEF CallsOn
  <2> QED BY <1>4, <1>6, <2>1, OtherGames DEF LibraryInv
<1>7. ASSUME g \notin marks'.spoiled
      PROVE  GameIsKept(db'.record[g], g \in db'.covers, CallsOn(calls', g), marks'.plays[g])
  <2>1. \A c \in calls : c.game = g => c.kind = "open"
    BY <1>4, <1>7 DEF Spoils
  <2>2. CallsOn(calls, g) = {} /\ CallsOn(calls', g) = {new}
    BY <1>1, <1>2, <2>1 DEF CallsOn, Writing
  <2>3. GameIsKept(db.record[g], g \in db.covers, CallsOn(calls, g), marks.plays[g])
    BY DEF LibraryInv, GamesKept
  <2> QED BY <1>1, <1>4, <2>2, <2>3 DEF GameIsKept
<1>8. GamesKept'
  BY <1>6, <1>7 DEF GamesKept
<1>9. CoverIsForTheGame'
  BY <1>1, <1>2 DEF LibraryInv, CoverIsForTheGame
<1> QED BY <1>2, <1>4, <1>5, <1>8, <1>9

LEMMA PlayBegins == LibraryInv /\ marks.spoiled = {} /\ ~detail.crossed /\ PlayCurrent => LibraryInv'
<1> SUFFICES ASSUME LibraryInv, marks.spoiled = {}, PlayCurrent PROVE LibraryInv'
  OBVIOUS
<1> DEFINE g == detail.game.id
<1>1. g \in LibraryGames /\ db.record[g] \in GameRecords
  BY DEF LibraryInv, LibraryType, PlayCurrent, GameRecords
<1>2. /\ calls' = calls \cup {Call("play", g, db.record[g])}
      /\ marks' = [marks EXCEPT !.spoiled = marks.spoiled \cup Spoils(g)] /\ db' = db /\ detail' = detail
  BY DEF PlayCurrent, Begin
<1> HIDE DEF g
<1>3. g = detail.game.id
  BY DEF g
<1>4. /\ calls' \in SUBSET PageCalls /\ RecordsNamed' /\ GamesKept' /\ CoverIsForTheGame'
      /\ marks' \in [clock : Nat, plays : [LibraryGames -> Nat], spoiled : SUBSET LibraryGames]
  BY <1>1, <1>2, <1>3, BeginKeeps
<1>5. Call("play", g, db.record[g]).kind = "play"
  BY <1>1, CallTyped
<1>6. Moving' = Moving /\ Opening' = Opening
  BY <1>2, <1>5 DEF Moving, Opening
<1>7. DetailFits'
  BY <1>2, <1>5, <1>6 DEF LibraryInv, DetailFits
<1> QED BY <1>2, <1>4, <1>7 DEF LibraryInv, LibraryType

LEMMA CoverBegins == LibraryInv /\ marks.spoiled = {} /\ ~detail.crossed /\ ChooseCover => LibraryInv'
<1> SUFFICES ASSUME LibraryInv, marks.spoiled = {}, ChooseCover PROVE LibraryInv'
  OBVIOUS
<1> DEFINE g == detail.game.id
<1>1. g \in LibraryGames /\ NoRecord \in GameRecords
  BY NoRecordTyped DEF LibraryInv, LibraryType, ChooseCover, GameRecords
<1>2. /\ calls' = calls \cup {Call("cover", g, NoRecord)}
      /\ marks' = [marks EXCEPT !.spoiled = marks.spoiled \cup Spoils(g)] /\ db' = db /\ detail' = detail
  BY DEF ChooseCover, Begin
<1> HIDE DEF g
<1>3. g = detail.game.id
  BY DEF g
<1>4. /\ calls' \in SUBSET PageCalls /\ RecordsNamed' /\ GamesKept' /\ CoverIsForTheGame'
      /\ marks' \in [clock : Nat, plays : [LibraryGames -> Nat], spoiled : SUBSET LibraryGames]
  BY <1>1, <1>2, <1>3, BeginKeeps
<1>5. Call("cover", g, NoRecord).kind = "cover"
  BY <1>1, CallTyped
<1>6. Moving' = Moving /\ Opening' = Opening
  BY <1>2, <1>5 DEF Moving, Opening
<1>7. DetailFits'
  BY <1>2, <1>5, <1>6 DEF LibraryInv, DetailFits
<1> QED BY <1>2, <1>4, <1>7 DEF LibraryInv, LibraryType

LEMMA RemoveBegins == LibraryInv /\ marks.spoiled = {} /\ ~detail.crossed /\ RemoveCurrent => LibraryInv'
<1> SUFFICES ASSUME LibraryInv, marks.spoiled = {}, ~detail.crossed, RemoveCurrent PROVE LibraryInv'
  OBVIOUS
<1> DEFINE g == detail.game.id
           met == detail.crossed \/ \E c \in calls : c.kind \in {"open", "show"}
<1>0. detail \in [game : GameRecords, shown : LibraryGames \cup {NoGame}, open : BOOLEAN, crossed : BOOLEAN]
  BY DEF LibraryInv, LibraryType
<1>1. g \in LibraryGames /\ db.record[g] \in GameRecords
  BY <1>0 DEF LibraryInv, LibraryType, RemoveCurrent, GameRecords
<1>2. /\ calls' = calls \cup {Call("remove", g, db.record[g])}
      /\ marks' = [marks EXCEPT !.spoiled = marks.spoiled \cup Spoils(g)] /\ db' = db
      /\ detail' = [detail EXCEPT !.crossed = met]
  BY DEF RemoveCurrent, Begin
<1>3. g = detail.game.id /\ detail.open /\ met \in BOOLEAN
  BY DEF RemoveCurrent
<1> HIDE DEF g, met
<1>a. /\ detail' \in [game : GameRecords, shown : LibraryGames \cup {NoGame}, open : BOOLEAN, crossed : BOOLEAN]
      /\ detail'.game = detail.game /\ detail'.open = detail.open /\ detail'.shown = detail.shown
  BY <1>0, <1>2, <1>3
<1>4. /\ calls' \in SUBSET PageCalls /\ RecordsNamed' /\ GamesKept' /\ CoverIsForTheGame'
      /\ marks' \in [clock : Nat, plays : [LibraryGames -> Nat], spoiled : SUBSET LibraryGames]
  BY <1>1, <1>2, <1>3, <1>a, BeginKeeps
<1>5. Call("remove", g, db.record[g]).kind = "remove"
  BY <1>1, CallTyped
<1>6. Moving' # {} /\ Opening = {} /\ Opening' = {}
  <2>1. Opening = {}
    BY <1>3 DEF LibraryInv, DetailFits
  <2> QED BY <1>2, <1>5, <2>1 DEF Moving, Opening
<1>7. DetailFits'
  BY <1>2, <1>5, <1>6, <1>a DEF DetailFits, Opening
<1> QED BY <1>2, <1>4, <1>7, <1>a DEF LibraryInv, LibraryType

(* The grid is not part of the invariant.                                   *)
LEMMA GridMoves == LibraryInv /\ UNCHANGED <<db, detail, calls, marks>> => LibraryInv'
BY DEF LibraryInv, LibraryType, RecordsNamed, GamesKept, GameIsKept, CallsOn, CoverIsForTheGame, DetailFits,
       Opening, Moving

\* The calls that write are the same ones, and nothing is written or spoiled.
LEMMA NothingWritten ==
    ASSUME LibraryInv, marks.spoiled = {}, db' = db, marks' = marks,
           \A c : c \in calls' /\ c.kind \in Writing <=> c \in calls /\ c.kind \in Writing
    PROVE  RecordsNamed' /\ GamesKept'
<1>1. \A g \in LibraryGames : CallsOn(calls', g) = CallsOn(calls, g)
  BY DEF CallsOn
<1>2. GamesKept'
  BY <1>1, OtherGames DEF LibraryInv, GamesKept
<1>3. RecordsNamed'
  BY DEF LibraryInv, RecordsNamed, Writing
<1> QED BY <1>2, <1>3

LEMMA OpenKeeps ==
    ASSUME LibraryInv, marks.spoiled = {}, ~detail.crossed, NEW g \in LibraryGames, OpenGame(g)
    PROVE  LibraryInv'
<1> DEFINE new == Call("open", g, NoRecord)
           met == \E c \in calls : c.kind \in {"open", "show", "remove", "close"}
<1>0. /\ detail \in [game : GameRecords, shown : LibraryGames \cup {NoGame}, open : BOOLEAN, crossed : BOOLEAN]
      /\ calls \in SUBSET PageCalls
  BY DEF LibraryInv, LibraryType
<1>1. new \in PageCalls /\ new.kind = "open"
  BY CallTyped, NoRecordTyped
<1>2. /\ calls' = calls \cup {new} /\ detail' = [detail EXCEPT !.crossed = met] /\ db' = db /\ marks' = marks
      /\ ~detail.open /\ met \in BOOLEAN
  BY DEF OpenGame
<1>3. met <=> Moving # {}
  BY DEF Moving
<1> HIDE DEF new, met
<1>4. /\ detail' \in [game : GameRecords, shown : LibraryGames \cup {NoGame}, open : BOOLEAN, crossed : BOOLEAN]
      /\ detail'.game = detail.game /\ detail'.crossed = met /\ ~detail'.open
  BY <1>0, <1>2
<1>5. RecordsNamed' /\ GamesKept'
  BY <1>1, <1>2, NothingWritten DEF Writing
<1>6. CoverIsForTheGame'
  BY <1>1, <1>2, <1>4 DEF LibraryInv, CoverIsForTheGame
<1>7. DetailFits'
  <2>1. ASSUME ~met PROVE Moving' = {new} /\ Opening' = {new} /\ \A c \in calls' : c.kind # "show"
    BY <1>1, <1>2, <1>3, <2>1 DEF Moving, Opening
  <2> QED BY <1>4, <2>1 DEF DetailFits
<1> QED BY <1>0, <1>1, <1>2, <1>4, <1>5, <1>6, <1>7 DEF LibraryInv, LibraryType

LEMMA ReadKeeps ==
    ASSUME LibraryInv, marks.spoiled = {}, ~detail.crossed, NEW c \in calls, GameRead(c)
    PROVE  LibraryInv'
<1> DEFINE new == Call("show", c.game, NoRecord)
           next == IF c.game \in Kept THEN {new} ELSE {}
           covering == {other.game : other \in {o \in calls : o.kind = "cover"}}
<1>0. /\ detail \in [game : GameRecords, shown : LibraryGames \cup {NoGame}, open : BOOLEAN, crossed : BOOLEAN]
      /\ calls \in SUBSET PageCalls /\ c.game \in LibraryGames /\ db.record[c.game] \in GameRecords
      /\ marks \in [clock : Nat, plays : [LibraryGames -> Nat], spoiled : SUBSET LibraryGames]
  BY DEF LibraryInv, LibraryType, PageCalls
<1>1. new \in PageCalls /\ new.kind = "show" /\ new.game = c.game
  BY <1>0, CallTyped, NoRecordTyped
<1>2. /\ c.kind = "open" /\ detail' = [detail EXCEPT !.game = db.record[c.game]]
      /\ calls' = (calls \ {c}) \cup next /\ db' = db
      /\ marks' = [marks EXCEPT !.spoiled = marks.spoiled \cup covering]
  BY DEF GameRead
<1>3. next = {} \/ (next = {new} /\ db.record[c.game] # NoRecord)
  <2>1. c.game \in Kept => db.record[c.game] # NoRecord
    BY DEF Kept
  <2> HIDE DEF new
  <2>2. CASE c.game \in Kept
    BY <2>1, <2>2
  <2>3. CASE c.game \notin Kept
    BY <2>3
  <2> QED BY <2>2, <2>3
<1>4. covering \in SUBSET LibraryGames
  BY <1>0 DEF PageCalls
<1>5. (covering = {}) => \A o \in calls : o.kind # "cover"
  OBVIOUS
<1> HIDE DEF new, next, covering
<1>6. /\ detail' \in [game : GameRecords, shown : LibraryGames \cup {NoGame}, open : BOOLEAN, crossed : BOOLEAN]
      /\ detail'.game = db.record[c.game] /\ detail'.crossed = detail.crossed
      /\ detail'.open = detail.open /\ detail'.shown = detail.shown
  BY <1>0, <1>2
<1>7. /\ marks' \in [clock : Nat, plays : [LibraryGames -> Nat], spoiled : SUBSET LibraryGames]
      /\ marks'.plays = marks.plays /\ marks'.spoiled = covering
  BY <1>0, <1>2, <1>4
<1>8. calls' \in SUBSET PageCalls
  BY <1>0, <1>1, <1>2, <1>3
<1>9. \A g \in LibraryGames : CallsOn(calls', g) = CallsOn(calls, g)
  BY <1>1, <1>2, <1>3 DEF CallsOn, Writing
<1>10. GamesKept'
  BY <1>2, <1>7, <1>9, OtherGames DEF LibraryInv, GamesKept
<1>11. RecordsNamed'
  BY <1>1, <1>2, <1>3 DEF LibraryInv, RecordsNamed
<1>12. CoverIsForTheGame'
  BY <1>1, <1>2, <1>3, <1>5, <1>7 DEF CoverIsForTheGame
<1>13. DetailFits'
  <2>1. Moving = {c} /\ ~detail.open
    BY <1>2 DEF LibraryInv, DetailFits, Opening
  <2>2. Moving' = next /\ Opening' = next
    BY <1>1, <1>2, <1>3, <2>1 DEF Moving, Opening
  <2>3. \A o \in calls' : o.kind = "show" => o = new /\ next = {new}
    BY <1>1, <1>2, <1>3, <2>1 DEF Moving
  <2>4. next = {new} => detail'.game.id = c.game
    BY <1>3, <1>6, <1>0 DEF LibraryInv, RecordsNamed
  <2>5. \A o \in Opening' : Moving' = {o}
    BY <1>3, <2>2
  <2> QED BY <1>1, <1>6, <2>1, <2>2, <2>3, <2>4, <2>5 DEF DetailFits
<1> QED BY <1>2, <1>6, <1>7, <1>8, <1>10, <1>11, <1>12, <1>13 DEF LibraryInv, LibraryType

LEMMA ShowKeeps ==
    ASSUME LibraryInv, marks.spoiled = {}, ~detail.crossed, NEW c \in calls, ShowDetail(c)
    PROVE  LibraryInv'
<1>0. /\ detail \in [game : GameRecords, shown : LibraryGames \cup {NoGame}, open : BOOLEAN, crossed : BOOLEAN]
      /\ calls \in SUBSET PageCalls /\ c.game \in LibraryGames
  BY DEF LibraryInv, LibraryType, PageCalls
<1>1. /\ c.kind = "show" /\ detail' = [detail EXCEPT !.shown = c.game, !.open = TRUE]
      /\ calls' = calls \ {c} /\ db' = db /\ marks' = marks
  BY DEF ShowDetail, DetailShown
<1>2. /\ detail' \in [game : GameRecords, shown : LibraryGames \cup {NoGame}, open : BOOLEAN, crossed : BOOLEAN]
      /\ detail'.game = detail.game /\ detail'.shown = c.game
  BY <1>0, <1>1
<1>3. RecordsNamed' /\ GamesKept'
  BY <1>1, NothingWritten DEF Writing
<1>4. CoverIsForTheGame'
  BY <1>1, <1>2 DEF LibraryInv, CoverIsForTheGame
<1>5. DetailFits'
  <2>1. Moving = {c} /\ detail.game.id = c.game
    BY <1>1 DEF LibraryInv, DetailFits, Opening
  <2>2. Moving' = {} /\ Opening' = {}
    BY <1>1, <2>1 DEF Moving, Opening
  <2>3. \A o \in calls' : o.kind # "show"
    BY <2>2 DEF Moving
  <2> QED BY <1>2, <2>1, <2>2, <2>3 DEF DetailFits
<1> QED BY <1>0, <1>1, <1>2, <1>3, <1>4, <1>5 DEF LibraryInv, LibraryType

LEMMA BackKeeps ==
    ASSUME LibraryInv, marks.spoiled = {}, BackToLibrary
    PROVE  LibraryInv'
<1>0. detail \in [game : GameRecords, shown : LibraryGames \cup {NoGame}, open : BOOLEAN, crossed : BOOLEAN]
  BY DEF LibraryInv, LibraryType
<1>1. detail' = [detail EXCEPT !.open = FALSE] /\ calls' = calls /\ db' = db /\ marks' = marks
  BY DEF BackToLibrary
<1>2. /\ detail' \in [game : GameRecords, shown : LibraryGames \cup {NoGame}, open : BOOLEAN, crossed : BOOLEAN]
      /\ detail'.game = detail.game /\ detail'.crossed = detail.crossed /\ ~detail'.open
  BY <1>0, <1>1
<1>3. RecordsNamed' /\ GamesKept'
  BY <1>1, NothingWritten
<1>4. CoverIsForTheGame'
  BY <1>1, <1>2 DEF LibraryInv, CoverIsForTheGame
<1>5. Moving' = Moving /\ Opening' = Opening
  BY <1>1 DEF Moving, Opening
<1>6. DetailFits'
  BY <1>1, <1>2, <1>5 DEF LibraryInv, DetailFits
<1> QED BY <1>1, <1>2, <1>3, <1>4, <1>6 DEF LibraryInv, LibraryType

\* A call that writes is the only one on its game.
LEMMA OnlyCall ==
    ASSUME LibraryInv, marks.spoiled = {}, NEW c \in calls, c.kind \in Writing
    PROVE  /\ c.game \in LibraryGames /\ c.record \in GameRecords /\ CallsOn(calls, c.game) = {c}
           /\ db.record[c.game] \in GameRecords
           /\ GameIsKept(db.record[c.game], c.game \in db.covers, {c}, marks.plays[c.game])
<1>1. c.game \in LibraryGames /\ c.record \in GameRecords
  BY DEF LibraryInv, LibraryType, PageCalls
<1>2. GameIsKept(db.record[c.game], c.game \in db.covers, CallsOn(calls, c.game), marks.plays[c.game])
  BY <1>1 DEF LibraryInv, GamesKept
<1>3. c \in CallsOn(calls, c.game)
  BY DEF CallsOn
<1>4. \A d \in CallsOn(calls, c.game) : d = c
  BY <1>2, <1>3 DEF GameIsKept
<1>5. CallsOn(calls, c.game) = {c}
  BY <1>3, <1>4
<1> QED BY <1>1, <1>2, <1>5 DEF LibraryInv, LibraryType

LEMMA PlayedKeeps ==
    ASSUME LibraryInv, marks.spoiled = {}, NEW c \in calls, MarkPlayed(c)
    PROVE  LibraryInv'
<1> DEFINE g == c.game
           stamp == marks.clock + 1
           record == Played(c.record)
<1>0. c.kind = "play" /\ calls' = calls \ {c} /\ detail' = detail
  BY DEF MarkPlayed
<1>1. /\ g \in LibraryGames /\ c.record \in GameRecords /\ CallsOn(calls, g) = {c}
      /\ GameIsKept(db.record[g], g \in db.covers, {c}, marks.plays[g])
  BY <1>0, OnlyCall DEF Writing
<1>2. /\ db \in [record : [LibraryGames -> GameRecords], covers : SUBSET LibraryGames]
      /\ marks \in [clock : Nat, plays : [LibraryGames -> Nat], spoiled : SUBSET LibraryGames]
      /\ calls' \in SUBSET PageCalls
  BY <1>0 DEF LibraryInv, LibraryType
<1>3. c.record = db.record[g] /\ (c.record # NoRecord => c.record.id = g)
  BY <1>0, <1>1 DEF GameIsKept, LibraryInv, RecordsNamed
<1>4. /\ record \in GameRecords /\ record.id = c.record.id /\ record.cover = c.record.cover
      /\ record.played = stamp /\ stamp \in Nat
  BY <1>1, <1>2 DEF Played, GameRecords
<1>5. CallsOn(calls', g) = {}
  BY <1>0, <1>1 DEF CallsOn
<1>6. \A h \in LibraryGames : h # g => CallsOn(calls', h) = CallsOn(calls, h)
  BY <1>0 DEF CallsOn
<1>7. CoverIsForTheGame' /\ DetailFits'
  <2>1. Moving' = Moving /\ Opening' = Opening
    BY <1>0 DEF Moving, Opening
  <2>2. DetailFits'
    BY <1>0, <2>1 DEF LibraryInv, DetailFits
  <2> QED BY <1>0, <2>2 DEF LibraryInv, CoverIsForTheGame
<1>8. CASE c.record = NoRecord
  <2>1. db' = db /\ marks' = marks
    BY <1>8 DEF MarkPlayed
  <2>2. GameIsKept(db.record[g], g \in db.covers, {}, marks.plays[g])
    BY <1>0, <1>1, <1>3, <1>8 DEF GameIsKept
  <2>3. GamesKept'
    BY <1>5, <1>6, <2>1, <2>2, OtherGames DEF LibraryInv, GamesKept
  <2>4. RecordsNamed'
    BY <1>0, <2>1 DEF LibraryInv, RecordsNamed
  <2> QED BY <1>0, <1>2, <1>7, <2>1, <2>3, <2>4 DEF LibraryInv, LibraryType
<1>9. CASE c.record # NoRecord
  <2> DEFINE records == [db.record EXCEPT ![g] = record]
             plays == [marks.plays EXCEPT ![g] = stamp]
  <2>1. db' = [db EXCEPT !.record = records] /\ marks' = [marks EXCEPT !.clock = stamp, !.plays = plays]
    BY <1>9 DEF MarkPlayed
  <2> HIDE DEF record, stamp
  <2>2. records \in [LibraryGames -> GameRecords] /\ plays \in [LibraryGames -> Nat]
    BY <1>2, <1>4
  <2>3. /\ records[g] = record /\ plays[g] = stamp
        /\ \A h \in LibraryGames : h # g => records[h] = db.record[h] /\ plays[h] = marks.plays[h]
    BY <1>1, <1>2
  <2> HIDE DEF records, plays, g
  <2>4. /\ db' \in [record : [LibraryGames -> GameRecords], covers : SUBSET LibraryGames]
        /\ db'.record = records /\ db'.covers = db.covers
    BY <1>2, <2>1, <2>2
  <2>5. /\ marks' \in [clock : Nat, plays : [LibraryGames -> Nat], spoiled : SUBSET LibraryGames]
        /\ marks'.plays = plays /\ marks'.spoiled = marks.spoiled
    BY <1>2, <1>4, <2>1, <2>2
  <2>6. GameIsKept(record, g \in db.covers, {}, stamp)
    BY <1>0, <1>1, <1>3, <1>4, <1>9, LibraryAssumption DEF GameIsKept, NoRecord
  <2>7. ASSUME NEW h \in LibraryGames \ marks'.spoiled
        PROVE  GameIsKept(db'.record[h], h \in db'.covers, CallsOn(calls', h), marks'.plays[h])
    <3>1. CASE h = g
      BY <1>5, <2>3, <2>4, <2>5, <2>6, <3>1
    <3>2. CASE h # g
      BY <1>6, <2>3, <2>4, <2>5, <3>2, OtherGames DEF LibraryInv
    <3> QED BY <3>1, <3>2
  <2>8. GamesKept'
    BY <2>7 DEF GamesKept
  <2>9. RecordsNamed'
    BY <1>0, <1>3, <1>4, <1>9, <2>3, <2>4 DEF LibraryInv, RecordsNamed
  <2> QED BY <1>0, <1>2, <1>7, <2>4, <2>5, <2>8, <2>9 DEF LibraryInv, LibraryType
<1> QED BY <1>8, <1>9

LEMMA CoverStoredKeeps ==
    ASSUME LibraryInv, marks.spoiled = {}, NEW c \in calls, CoverStored(c)
    PROVE  LibraryInv'
<1> DEFINE held == detail.game
           g == held.id
           record == IF g = c.game THEN [held EXCEPT !.cover = TRUE] ELSE held
           next == IF g = NoGame THEN {} ELSE {Call("put", g, record)}
           spoiled == marks.spoiled \cup (IF g = c.game THEN {} ELSE {c.game} \cup Spoils(g))
                         \cup (IF g # NoGame /\ record.played # marks.plays[g] THEN {g} ELSE {})
           covers == db.covers \cup {c.game}
<1>0. /\ c.kind = "cover" /\ db' = [db EXCEPT !.covers = covers]
      /\ detail' = [detail EXCEPT !.game = record] /\ calls' = (calls \ {c}) \cup next
      /\ marks' = [marks EXCEPT !.spoiled = spoiled]
  BY DEF CoverStored
<1>1. /\ c.game \in LibraryGames /\ CallsOn(calls, c.game) = {c}
      /\ GameIsKept(db.record[c.game], c.game \in db.covers, {c}, marks.plays[c.game])
  BY <1>0, OnlyCall DEF Writing
<1>2. /\ db \in [record : [LibraryGames -> GameRecords], covers : SUBSET LibraryGames]
      /\ marks \in [clock : Nat, plays : [LibraryGames -> Nat], spoiled : SUBSET LibraryGames]
      /\ detail \in [game : GameRecords, shown : LibraryGames \cup {NoGame}, open : BOOLEAN, crossed : BOOLEAN]
      /\ calls \in SUBSET PageCalls
  BY DEF LibraryInv, LibraryType
<1>3. g \in {c.game, NoGame} /\ held \in GameRecords /\ NoGame \notin LibraryGames
  BY <1>0, <1>2, LibraryAssumption DEF LibraryInv, CoverIsForTheGame
<1>4. record \in GameRecords /\ record.id = g /\ (g = c.game => record.cover)
  BY <1>3 DEF GameRecords
<1>5. /\ covers \in SUBSET LibraryGames /\ spoiled \in SUBSET LibraryGames
      /\ \A h \in LibraryGames : h # c.game => (h \in covers <=> h \in db.covers)
  <2>1. /\ covers \in SUBSET LibraryGames
        /\ \A h \in LibraryGames : h # c.game => (h \in covers <=> h \in db.covers)
    BY <1>1, <1>2
  <2>2. Spoils(g) \subseteq {g} /\ marks.spoiled = {}
    BY DEF Spoils
  <2> HIDE DEF g, record, held
  <2>3. ASSUME g = c.game PROVE spoiled \in SUBSET LibraryGames
    BY <1>1, <2>2, <2>3
  <2>4. ASSUME g = NoGame, g # c.game PROVE spoiled \in SUBSET LibraryGames
    <3>1. Spoils(g) = {}
      <4>1. \A d \in calls : d.game \in LibraryGames
        BY <1>2 DEF PageCalls
      <4> QED BY <1>3, <2>4, <4>1 DEF Spoils
    <3> QED BY <1>1, <2>2, <2>4, <3>1
  <2>5. spoiled \in SUBSET LibraryGames
    BY <1>3, <2>3, <2>4
  <2> QED BY <2>1, <2>5
<1>6. ASSUME c.game \notin spoiled
      PROVE  g = c.game /\ record.played = marks.plays[g]
  BY <1>1, <1>3, <1>6
<1> HIDE DEF record, spoiled, covers
<1>7. next \subseteq PageCalls /\ \A d \in next : d.kind = "put" /\ d.game = c.game /\ d.game = g /\ d.record = record
  <2>1. CASE g = NoGame
    BY <2>1
  <2>2. CASE g = c.game
    <3>1. /\ Call("put", g, record) \in PageCalls /\ Call("put", g, record).kind = "put"
          /\ Call("put", g, record).game = g /\ Call("put", g, record).record = record
      BY <1>1, <1>4, <2>2, CallTyped
    <3>2. \A d \in next : d = Call("put", g, record)
      BY <2>2
    <3> HIDE DEF next, g
    <3> QED BY <2>2, <3>1, <3>2
  <2> QED BY <1>3, <2>1, <2>2
<1>8. g = c.game => \E d \in next : TRUE
  BY <1>1, <1>3
<1>9. \A d, e \in next : d = e
  OBVIOUS
<1>10. g = detail.game.id
  OBVIOUS
<1> HIDE DEF next, held, g
<1>11. /\ db' \in [record : [LibraryGames -> GameRecords], covers : SUBSET LibraryGames]
       /\ db'.record = db.record /\ db'.covers = covers
  BY <1>0, <1>2, <1>5
<1>12. /\ marks' \in [clock : Nat, plays : [LibraryGames -> Nat], spoiled : SUBSET LibraryGames]
       /\ marks'.plays = marks.plays /\ marks'.spoiled = spoiled
  BY <1>0, <1>2, <1>5
<1>13. /\ detail' \in [game : GameRecords, shown : LibraryGames \cup {NoGame}, open : BOOLEAN, crossed : BOOLEAN]
       /\ detail'.game = record /\ detail'.open = detail.open /\ detail'.crossed = detail.crossed
       /\ detail'.shown = detail.shown
  BY <1>0, <1>2, <1>4
<1>14. calls' \in SUBSET PageCalls
  BY <1>0, <1>2, <1>7
<1>15. CallsOn(calls', c.game) = next
  BY <1>0, <1>1, <1>7 DEF CallsOn, Writing
<1>16. \A h \in LibraryGames : h # c.game => CallsOn(calls', h) = CallsOn(calls, h)
  BY <1>0, <1>7 DEF CallsOn
<1>17. ASSUME NEW h \in LibraryGames \ marks'.spoiled
       PROVE  GameIsKept(db'.record[h], h \in db'.covers, CallsOn(calls', h), marks'.plays[h])
  <2>1. CASE h = c.game
    <3>1. g = c.game /\ record.played = marks.plays[c.game] /\ record.cover
      BY <1>4, <1>6, <1>12, <1>17, <2>1
    <3>2. GameIsKept(db.record[c.game], c.game \in covers, next, marks.plays[c.game])
      BY <1>1, <1>7, <1>8, <1>9, <3>1 DEF GameIsKept
    <3> QED BY <1>11, <1>12, <1>15, <2>1, <3>2
  <2>2. CASE h # c.game
    BY <1>5, <1>11, <1>12, <1>16, <1>17, <2>2, OtherGames DEF LibraryInv
  <2> QED BY <2>1, <2>2
<1>18. GamesKept'
  BY <1>17 DEF GamesKept
<1>19. RecordsNamed'
  BY <1>0, <1>4, <1>7, <1>11 DEF LibraryInv, RecordsNamed
<1>20. CoverIsForTheGame'
  BY <1>0, <1>4, <1>7, <1>10, <1>13 DEF LibraryInv, CoverIsForTheGame
<1>21. Moving' = Moving /\ Opening' = Opening
  BY <1>0, <1>7 DEF Moving, Opening
<1>22. \A d \in calls' : d.kind = "show" => d \in calls
  BY <1>0, <1>7
<1>23. DetailFits'
  BY <1>4, <1>10, <1>13, <1>21, <1>22 DEF LibraryInv, DetailFits
<1> QED BY <1>11, <1>12, <1>13, <1>14, <1>18, <1>19, <1>20, <1>23 DEF LibraryInv, LibraryType

LEMMA CoverChosenKeeps ==
    ASSUME LibraryInv, marks.spoiled = {}, NEW c \in calls, CoverChosen(c)
    PROVE  LibraryInv'
<1> DEFINE g == c.game
           new == Call("refresh", g, NoRecord)
           records == [db.record EXCEPT ![g] = c.record]
<1>0. /\ c.kind = "put" /\ db' = [db EXCEPT !.record = records]
      /\ calls' = (calls \ {c}) \cup {new} /\ detail' = detail /\ marks' = marks
  BY DEF CoverChosen
<1>1. /\ g \in LibraryGames /\ c.record \in GameRecords /\ CallsOn(calls, g) = {c}
      /\ GameIsKept(db.record[g], g \in db.covers, {c}, marks.plays[g])
  BY <1>0, OnlyCall DEF Writing
<1>2. /\ db \in [record : [LibraryGames -> GameRecords], covers : SUBSET LibraryGames]
      /\ calls \in SUBSET PageCalls
  BY DEF LibraryInv, LibraryType
<1>3. new \in PageCalls /\ new.kind = "refresh" /\ new.game = g
  BY <1>1, CallTyped, NoRecordTyped
<1>4. c.record.id = g /\ c.record.played = marks.plays[g] /\ c.record.cover /\ c.record # NoRecord
  BY <1>0, <1>1, NoRecordTyped DEF GameIsKept, LibraryInv, RecordsNamed
<1>5. /\ records \in [LibraryGames -> GameRecords] /\ records[g] = c.record
      /\ \A h \in LibraryGames : h # g => records[h] = db.record[h]
  BY <1>1, <1>2
<1> HIDE DEF new, records, g
<1>6. /\ db' \in [record : [LibraryGames -> GameRecords], covers : SUBSET LibraryGames]
      /\ db'.record = records /\ db'.covers = db.covers
  BY <1>0, <1>2, <1>5
<1>7. CallsOn(calls', g) = {new}
  BY <1>0, <1>1, <1>3 DEF CallsOn, Writing
<1>8. \A h \in LibraryGames : h # g => CallsOn(calls', h) = CallsOn(calls, h)
  BY <1>0, <1>3 DEF CallsOn, g
<1>9. ASSUME NEW h \in LibraryGames \ marks'.spoiled
      PROVE  GameIsKept(db'.record[h], h \in db'.covers, CallsOn(calls', h), marks'.plays[h])
  <2>1. CASE h = g
    <3>1. GameIsKept(c.record, g \in db.covers, {new}, marks.plays[g])
      BY <1>3, <1>4 DEF GameIsKept
    <3> QED BY <1>0, <1>5, <1>6, <1>7, <2>1, <3>1
  <2>2. CASE h # g
    BY <1>0, <1>5, <1>6, <1>8, <1>9, <2>2, OtherGames DEF LibraryInv
  <2> QED BY <2>1, <2>2
<1>10. GamesKept'
  BY <1>9 DEF GamesKept
<1>11. RecordsNamed'
  BY <1>0, <1>3, <1>4, <1>5, <1>6 DEF LibraryInv, RecordsNamed
<1>12. Moving' = Moving /\ Opening' = Opening
  BY <1>0, <1>3 DEF Moving, Opening
<1>13. DetailFits'
  BY <1>0, <1>3, <1>12 DEF LibraryInv, DetailFits
<1>14. CoverIsForTheGame'
  BY <1>0, <1>3 DEF LibraryInv, CoverIsForTheGame
<1> QED BY <1>0, <1>2, <1>3, <1>6, <1>10, <1>11, <1>13, <1>14 DEF LibraryInv, LibraryType

LEMMA RemovedKeeps ==
    ASSUME LibraryInv, marks.spoiled = {}, NEW c \in calls, GameRemoved(c)
    PROVE  LibraryInv'
<1> DEFINE g == c.game
           new == Call("close", g, NoRecord)
           records == [db.record EXCEPT ![g] = NoRecord]
           covers == IF c.record.cover THEN db.covers \ {g} ELSE db.covers
<1>0. /\ c.kind = "remove" /\ db' = [db EXCEPT !.record = records, !.covers = covers]
      /\ calls' = (calls \ {c}) \cup {new} /\ detail' = [detail EXCEPT !.game = NoRecord] /\ marks' = marks
  BY DEF GameRemoved, Deleted
<1>1. /\ g \in LibraryGames /\ c.record \in GameRecords /\ CallsOn(calls, g) = {c}
      /\ GameIsKept(db.record[g], g \in db.covers, {c}, marks.plays[g])
  BY <1>0, OnlyCall DEF Writing
<1>2. /\ db \in [record : [LibraryGames -> GameRecords], covers : SUBSET LibraryGames]
      /\ detail \in [game : GameRecords, shown : LibraryGames \cup {NoGame}, open : BOOLEAN, crossed : BOOLEAN]
      /\ calls \in SUBSET PageCalls
  BY DEF LibraryInv, LibraryType
<1>3. new \in PageCalls /\ new.kind = "close" /\ new.game = g
  BY <1>1, CallTyped, NoRecordTyped
<1>4. g \in db.covers => c.record.cover
  BY <1>0, <1>1 DEF GameIsKept
<1>5. /\ records \in [LibraryGames -> GameRecords] /\ records[g] = NoRecord
      /\ \A h \in LibraryGames : h # g => records[h] = db.record[h]
  BY <1>1, <1>2, NoRecordTyped
<1>6. /\ covers \in SUBSET LibraryGames /\ g \notin covers
      /\ \A h \in LibraryGames : h # g => (h \in covers <=> h \in db.covers)
  BY <1>2, <1>4
<1> HIDE DEF new, records, covers, g
<1>7. /\ db' \in [record : [LibraryGames -> GameRecords], covers : SUBSET LibraryGames]
      /\ db'.record = records /\ db'.covers = covers
  BY <1>0, <1>2, <1>5, <1>6
<1>8. CallsOn(calls', g) = {new}
  BY <1>0, <1>1, <1>3 DEF CallsOn, Writing
<1>9. \A h \in LibraryGames : h # g => CallsOn(calls', h) = CallsOn(calls, h)
  BY <1>0, <1>3 DEF CallsOn, g
<1>10. ASSUME NEW h \in LibraryGames \ marks'.spoiled
       PROVE  GameIsKept(db'.record[h], h \in db'.covers, CallsOn(calls', h), marks'.plays[h])
  <2>1. CASE h = g
    <3>1. GameIsKept(NoRecord, g \in covers, {new}, marks.plays[g])
      BY <1>3, <1>6 DEF GameIsKept
    <3> QED BY <1>0, <1>5, <1>7, <1>8, <2>1, <3>1
  <2>2. CASE h # g
    BY <1>0, <1>5, <1>6, <1>7, <1>9, <1>10, <2>2, OtherGames DEF LibraryInv
  <2> QED BY <2>1, <2>2
<1>11. GamesKept'
  BY <1>10 DEF GamesKept
<1>12. RecordsNamed'
  BY <1>0, <1>3, <1>5, <1>7 DEF LibraryInv, RecordsNamed
<1>13. /\ detail' \in [game : GameRecords, shown : LibraryGames \cup {NoGame}, open : BOOLEAN, crossed : BOOLEAN]
       /\ detail'.game = NoRecord /\ detail'.open = detail.open /\ detail'.crossed = detail.crossed
  BY <1>0, <1>2, NoRecordTyped
<1>14. CoverIsForTheGame'
  BY <1>13, NoRecordTyped DEF CoverIsForTheGame
<1>15. DetailFits'
  <2>1. ASSUME ~detail.crossed PROVE Opening = {}
    <3>1. ASSUME NEW d \in Opening PROVE FALSE
      <4>1. Moving = {d}
        BY <2>1, <3>1 DEF LibraryInv, DetailFits
      <4>2. c \in Moving /\ c \notin Opening
        BY <1>0 DEF Moving, Opening
      <4> QED BY <3>1, <4>1, <4>2
    <3> QED BY <3>1
  <2>2. Opening' = Opening /\ new \in Moving'
    BY <1>0, <1>3 DEF Moving, Opening
  <2>3. ~detail.crossed => \A d \in calls' : d.kind # "show"
    BY <2>1, <2>2 DEF Opening
  <2> QED BY <1>13, <2>1, <2>2, <2>3 DEF DetailFits
<1> QED BY <1>0, <1>2, <1>3, <1>7, <1>11, <1>12, <1>13, <1>14, <1>15 DEF LibraryInv, LibraryType

LEMMA ListKeeps ==
    ASSUME LibraryInv, marks.spoiled = {}, NEW c \in calls, ListAgain(c)
    PROVE  LibraryInv'
<1>0. /\ c.kind \in {"refresh", "close"} /\ calls' = calls \ {c} /\ db' = db /\ marks' = marks
      /\ detail' = DetailAfter(c)
  BY DEF ListAgain
<1>1. /\ detail \in [game : GameRecords, shown : LibraryGames \cup {NoGame}, open : BOOLEAN, crossed : BOOLEAN]
      /\ calls \in SUBSET PageCalls
  BY DEF LibraryInv, LibraryType
<1>2. /\ CallsOn(calls, c.game) = {c} /\ c.game \in LibraryGames
      /\ GameIsKept(db.record[c.game], c.game \in db.covers, {c}, marks.plays[c.game])
  BY <1>0, OnlyCall DEF Writing
<1>3. GameIsKept(db.record[c.game], c.game \in db.covers, {}, marks.plays[c.game])
  BY <1>0, <1>2 DEF GameIsKept
<1>4. CallsOn(calls', c.game) = {}
  BY <1>0, <1>2 DEF CallsOn
<1>5. \A h \in LibraryGames : h # c.game => CallsOn(calls', h) = CallsOn(calls, h)
  BY <1>0 DEF CallsOn
<1>6. GamesKept'
  BY <1>0, <1>3, <1>4, <1>5, OtherGames DEF LibraryInv, GamesKept
<1>7. RecordsNamed'
  BY <1>0 DEF LibraryInv, RecordsNamed
<1>8. /\ detail' \in [game : GameRecords, shown : LibraryGames \cup {NoGame}, open : BOOLEAN, crossed : BOOLEAN]
      /\ detail'.game = detail.game /\ detail'.crossed = detail.crossed /\ detail'.shown = detail.shown
      /\ detail'.open => detail.open /\ c.kind = "refresh"
  BY <1>0, <1>1 DEF DetailAfter
<1>9. CoverIsForTheGame'
  BY <1>0, <1>8 DEF LibraryInv, CoverIsForTheGame
<1>10. DetailFits'
  <2>1. Opening' = Opening /\ Moving' = Moving \ {c} /\ c \notin Opening
    BY <1>0 DEF Moving, Opening
  <2>2. c.kind = "refresh" => Moving' = Moving
    BY <1>0 DEF Moving
  <2>3. \A d \in calls' : d.kind = "show" => d \in calls
    BY <1>0
  <2>4. ASSUME ~detail.crossed, NEW d \in Opening PROVE Moving' = {d} /\ ~detail.open
    <3>1. Moving = {d} /\ ~detail.open
      BY <2>4 DEF LibraryInv, DetailFits
    <3> QED BY <2>1, <2>4, <3>1
  <2> QED BY <1>8, <2>1, <2>2, <2>3, <2>4 DEF LibraryInv, DetailFits
<1> QED BY <1>0, <1>1, <1>6, <1>7, <1>8, <1>9, <1>10 DEF LibraryInv, LibraryType

LEMMA LibraryStarts == LibraryInit => LibraryInv
<1> SUFFICES ASSUME LibraryInit PROVE LibraryInv
  OBVIOUS
<1> DEFINE entry(g) == [id |-> g, played |-> 0, cover |-> FALSE]
<1>1. /\ db = [record |-> [g \in LibraryGames |-> entry(g)], covers |-> {}] /\ calls = {}
      /\ detail = [game |-> NoRecord, shown |-> NoGame, open |-> FALSE, crossed |-> FALSE]
      /\ marks = [clock |-> 0, plays |-> [g \in LibraryGames |-> 0], spoiled |-> {}]
  BY DEF LibraryInit
<1>2. \A g \in LibraryGames : entry(g) \in GameRecords /\ entry(g).id = g /\ entry(g).played = 0
  BY DEF GameRecords
<1> HIDE DEF entry
<1>3. LibraryType
  <2>1. [g \in LibraryGames |-> entry(g)] \in [LibraryGames -> GameRecords]
    BY <1>2
  <2>2. [g \in LibraryGames |-> 0] \in [LibraryGames -> Nat]
    OBVIOUS
  <2>3. db \in [record : [LibraryGames -> GameRecords], covers : SUBSET LibraryGames]
    BY <1>1, <2>1
  <2>4. marks \in [clock : Nat, plays : [LibraryGames -> Nat], spoiled : SUBSET LibraryGames]
    BY <1>1, <2>2
  <2>5. detail \in [game : GameRecords, shown : LibraryGames \cup {NoGame}, open : BOOLEAN, crossed : BOOLEAN]
    BY <1>1, NoRecordTyped
  <2> QED BY <1>1, <2>3, <2>4, <2>5 DEF LibraryType
<1>4. RecordsNamed
  BY <1>1, <1>2 DEF RecordsNamed
<1>5. GamesKept
  <2> SUFFICES ASSUME NEW g \in LibraryGames
               PROVE  GameIsKept(db.record[g], g \in db.covers, CallsOn(calls, g), marks.plays[g])
    BY DEF GamesKept
  <2>1. CallsOn(calls, g) = {} /\ db.record[g].played = 0 /\ marks.plays[g] = 0 /\ g \notin db.covers
    BY <1>1, <1>2 DEF CallsOn
  <2> QED BY <2>1 DEF GameIsKept
<1>6. CoverIsForTheGame /\ DetailFits
  BY <1>1 DEF CoverIsForTheGame, DetailFits, Opening, Moving
<1> QED BY <1>3, <1>4, <1>5, <1>6 DEF LibraryInv

LEMMA LibraryKeeps == LibraryInv /\ [LibraryNext]_libraryVars => LibraryInv'
<1> SUFFICES ASSUME LibraryInv, [LibraryNext]_libraryVars PROVE LibraryInv'
  OBVIOUS
<1>1. CASE UNCHANGED libraryVars
  BY <1>1, GridMoves DEF libraryVars
<1>2. CASE LibraryNext
  <2>0. marks.spoiled = {} /\ ~detail.crossed
    BY <1>2 DEF LibraryNext
  <2>1. ASSUME NEW todo \in grid.drawing, DrawTile(todo) PROVE LibraryInv'
    BY <2>1, GridMoves DEF DrawTile
  <2>2. ASSUME NEW text \in {Everything} \cup LibraryGames, Search(text) PROVE LibraryInv'
    BY <2>2, GridMoves DEF Search
  <2>3. CASE FirstList
    BY <2>3, GridMoves DEF FirstList
  <2>4. ASSUME NEW g \in LibraryGames, OpenGame(g) PROVE LibraryInv'
    BY <2>0, <2>4, OpenKeeps
  <2>5. CASE PlayCurrent \/ ChooseCover \/ RemoveCurrent \/ BackToLibrary
    BY <2>0, <2>5, PlayBegins, CoverBegins, RemoveBegins, BackKeeps
  <2>6. ASSUME NEW c \in calls,
               GameRead(c) \/ ShowDetail(c) \/ MarkPlayed(c) \/ CoverStored(c) \/ CoverChosen(c)
                  \/ GameRemoved(c) \/ ListAgain(c)
        PROVE  LibraryInv'
    BY <2>0, <2>6, ReadKeeps, ShowKeeps, PlayedKeeps, CoverStoredKeeps, CoverChosenKeeps, RemovedKeeps, ListKeeps
  <2> QED BY <1>2, <2>1, <2>2, <2>3, <2>4, <2>5, <2>6 DEF LibraryNext
<1> QED BY <1>1, <1>2

-----------------------------------------------------------------------------
(* The grid *)

Tiles == Seq(LibraryGames)
Grids == [list : Tiles, search : {Everything} \cup LibraryGames, tiles : Tiles, drawing : SUBSET Tiles,
          crossed : BOOLEAN]

\* What is drawn and what one drawing has left are together what matches.
DrawsTheSearch(g) ==
    \/ g.drawing = {} /\ g.tiles = Matching(g.list, g.search)
    \/ \E todo \in g.drawing :
          g.drawing = {todo} /\ todo # <<>> /\ g.tiles \o todo = Matching(g.list, g.search)

GridInv ==
    /\ grid \in Grids /\ <<>> \notin grid.drawing
    /\ ~grid.crossed => DrawsTheSearch(grid)

LEMMA MatchingTyped ==
    ASSUME NEW list \in Tiles, NEW search
    PROVE  Matching(list, search) \in Tiles
<1>1. ASSUME search \in ToSet(list) PROVE <<search>> \in Tiles
  <2>1. search \in LibraryGames
    BY <1>1 DEF ToSet, Tiles
  <2> QED BY <2>1 DEF Tiles
<1>2. <<>> \in Tiles
  BY DEF Tiles
<1> QED BY <1>1, <1>2 DEF Matching

LEMMA ListTyped == \A list \in ListGames : list \in Tiles
<1> SUFFICES ASSUME NEW list \in ListGames PROVE list \in Tiles
  OBVIOUS
<1>1. IsFiniteSet(Kept) /\ Kept \subseteq LibraryGames
  BY LibraryAssumption, FS_Subset DEF Kept
<1>2. Cardinality(Kept) \in Nat
  BY <1>1, FS_CardinalityType
<1>3. list \in [1 .. Cardinality(Kept) -> Kept]
  BY DEF ListGames, SetToSeqs
<1>4. list \in Seq(Kept)
  BY <1>2, <1>3, FunctionIsSeq
<1> QED BY <1>1, <1>4 DEF Tiles

\* A new drawing is the only one, unless it crosses another.
LEMMA DrawnKeeps ==
    ASSUME GridInv, NEW list \in Tiles, NEW search \in {Everything} \cup LibraryGames,
           grid' = Drawn(grid, list, search)
    PROVE  GridInv'
<1> DEFINE match == Matching(list, search)
           drawing == {todo \in grid.drawing \cup {match} : todo # <<>>}
           crossed == grid.drawing # {}
<1>0. grid \in Grids
  BY DEF GridInv
<1>1. match \in Tiles /\ <<>> \in Tiles
  BY MatchingTyped DEF Tiles
<1>2. grid' = [grid EXCEPT !.list = list, !.search = search, !.tiles = <<>>, !.drawing = drawing,
                           !.crossed = crossed]
  BY DEF Drawn
<1>3. match = Matching(list, search)
  OBVIOUS
<1> HIDE DEF match
<1>4. /\ drawing \in SUBSET Tiles /\ <<>> \notin drawing /\ crossed \in BOOLEAN
      /\ ~crossed => drawing = {match} \ {<<>>}
  BY <1>0, <1>1 DEF Grids
<1> HIDE DEF drawing, crossed
<1>5. /\ grid' \in Grids /\ grid'.list = list /\ grid'.search = search /\ grid'.tiles = <<>>
      /\ grid'.drawing = drawing /\ grid'.crossed = crossed
  BY <1>0, <1>1, <1>2, <1>4 DEF Grids
<1>6. ASSUME ~crossed PROVE DrawsTheSearch(grid')
  <2>1. CASE match = <<>>
    BY <1>3, <1>4, <1>5, <1>6, <2>1 DEF DrawsTheSearch
  <2>2. CASE match # <<>>
    <3>1. <<>> \o match = match
      BY <1>1 DEF Tiles
    <3> QED BY <1>3, <1>4, <1>5, <1>6, <2>2, <3>1 DEF DrawsTheSearch
  <2> QED BY <2>1, <2>2
<1> QED BY <1>4, <1>5, <1>6 DEF GridInv

LEMMA TileKeeps ==
    ASSUME GridInv, NEW todo \in grid.drawing, DrawTile(todo)
    PROVE  GridInv'
<1> DEFINE tiles == Append(grid.tiles, Head(todo))
           drawing == {rest \in (grid.drawing \ {todo}) \cup {Tail(todo)} : rest # <<>>}
<1>0. grid \in Grids /\ todo \in Tiles /\ todo # <<>> /\ grid.tiles \in Tiles
  BY DEF GridInv, Grids
<1>1. grid' = [grid EXCEPT !.tiles = tiles, !.drawing = drawing]
  BY DEF DrawTile
<1>2. tiles \in Tiles /\ Tail(todo) \in Tiles
  BY <1>0 DEF Tiles
<1>3. drawing \in SUBSET Tiles /\ <<>> \notin drawing
  BY <1>0, <1>2 DEF Grids
<1>4. tiles \o Tail(todo) = grid.tiles \o todo
  BY <1>0, <1>2 DEF Tiles
<1>5. grid.drawing = {todo} => drawing = {Tail(todo)} \ {<<>>}
  OBVIOUS
<1>6. tiles \o <<>> = tiles
  BY <1>2 DEF Tiles
<1> HIDE DEF tiles, drawing
<1>7. /\ grid' \in Grids /\ grid'.list = grid.list /\ grid'.search = grid.search /\ grid'.tiles = tiles
      /\ grid'.drawing = drawing /\ grid'.crossed = grid.crossed
  BY <1>0, <1>1, <1>2, <1>3 DEF Grids
<1>8. ASSUME ~grid.crossed PROVE DrawsTheSearch(grid')
  <2>1. grid.drawing = {todo} /\ grid.tiles \o todo = Matching(grid.list, grid.search)
    BY <1>8 DEF GridInv, DrawsTheSearch
  <2>2. drawing = {Tail(todo)} \ {<<>>} /\ tiles \o Tail(todo) = Matching(grid.list, grid.search)
    BY <1>4, <1>5, <2>1
  <2>3. CASE Tail(todo) = <<>>
    BY <1>6, <1>7, <2>2, <2>3 DEF DrawsTheSearch
  <2>4. CASE Tail(todo) # <<>>
    BY <1>7, <2>2, <2>4 DEF DrawsTheSearch
  <2> QED BY <2>3, <2>4
<1> QED BY <1>3, <1>7, <1>8 DEF GridInv

LEMMA GridStarts == LibraryInit => GridInv
<1> SUFFICES ASSUME LibraryInit PROVE GridInv
  OBVIOUS
<1>1. /\ grid.list = <<>> /\ grid.search = Everything /\ grid.tiles = <<>> /\ grid.drawing = {}
      /\ grid \in Grids
  BY DEF LibraryInit, Grids, Tiles
<1>2. Matching(<<>>, Everything) = <<>>
  BY DEF Matching
<1> QED BY <1>1, <1>2 DEF GridInv, DrawsTheSearch

LEMMA GridKeeps == GridInv /\ [LibraryNext]_libraryVars => GridInv'
<1> SUFFICES ASSUME GridInv, [LibraryNext]_libraryVars PROVE GridInv'
  OBVIOUS
<1>0. grid.list \in Tiles /\ grid.search \in {Everything} \cup LibraryGames
  BY DEF GridInv, Grids
<1>1. ASSUME NEW todo \in grid.drawing, DrawTile(todo) PROVE GridInv'
  BY <1>1, TileKeeps
<1>2. ASSUME NEW text \in {Everything} \cup LibraryGames, Search(text) PROVE GridInv'
  BY <1>0, <1>2, DrawnKeeps DEF Search
<1>3. CASE Refreshed
  <2>1. PICK list \in ListGames : grid' = Drawn(grid, list, grid.search)
    BY <1>3 DEF Refreshed
  <2>2. list \in Tiles
    BY ListTyped
  <2> QED BY <1>0, <2>1, <2>2, DrawnKeeps
<1>4. CASE BackToLibrary
  BY <1>0, <1>4, DrawnKeeps DEF BackToLibrary
<1>5. CASE UNCHANGED grid
  BY <1>5 DEF GridInv, DrawsTheSearch
<1>6. CASE LibraryNext
  <2>1. ASSUME NEW c \in calls,
               GameRead(c) \/ ShowDetail(c) \/ MarkPlayed(c) \/ CoverStored(c) \/ CoverChosen(c)
               \/ GameRemoved(c) \/ ListAgain(c)
        PROVE  Refreshed \/ UNCHANGED grid
    BY <2>1 DEF GameRead, ShowDetail, MarkPlayed, CoverStored, CoverChosen, GameRemoved, ListAgain
  <2>2. ASSUME NEW g \in LibraryGames, OpenGame(g) PROVE UNCHANGED grid
    BY <2>2 DEF OpenGame
  <2>3. FirstList => Refreshed
    BY DEF FirstList
  <2>4. PlayCurrent \/ ChooseCover \/ RemoveCurrent => UNCHANGED grid
    BY DEF PlayCurrent, ChooseCover, RemoveCurrent
  <2> QED BY <1>1, <1>2, <1>3, <1>4, <1>5, <1>6, <2>1, <2>2, <2>3, <2>4 DEF LibraryNext
<1> QED BY <1>5, <1>6 DEF libraryVars

(* When every drawing has ended, the tiles are the games that match.        *)
LEMMA GridHolds == GridInv => GridShowsTheSearch
BY DEF GridInv, DrawsTheSearch, GridShowsTheSearch

(* The page shows the games that match, plays what it shows, and keeps     *)
(* plays and covers with their games (app.js, library/game-library.js).     *)
THEOREM LibraryHolds == LibrarySpec => []LibraryIsTrue
<1>1. LibraryInv /\ GridInv => LibraryIsTrue
  <2> SUFFICES ASSUME LibraryInv, GridInv
               PROVE  GridShowsTheSearch /\ PlaysWhatItShows /\ PlaysAreKept /\ CoversAreOwned
    BY DEF LibraryIsTrue
  <2>1. PlaysWhatItShows
    BY DEF LibraryInv, DetailFits, Moving, PlaysWhatItShows
  <2>2. PlaysAreKept
    BY DEF LibraryInv, GamesKept, GameIsKept, PlaysAreKept, Kept
  <2>3. CoversAreOwned
    <3> SUFFICES ASSUME NEW g \in db.covers \ marks.spoiled, \A c \in calls : c.game # g
                 PROVE  g \in Kept /\ db.record[g].cover
      BY DEF CoversAreOwned
    <3>1. g \in LibraryGames
      BY DEF LibraryInv, LibraryType
    <3>2. GameIsKept(db.record[g], g \in db.covers, CallsOn(calls, g), marks.plays[g])
      BY <3>1 DEF LibraryInv, GamesKept
    <3> QED BY <3>1, <3>2 DEF GameIsKept, CallsOn, Kept
  <2> QED BY <2>1, <2>2, <2>3, GridHolds
<1> QED BY <1>1, LibraryStarts, LibraryKeeps, GridStarts, GridKeeps, PTL DEF LibrarySpec

-----------------------------------------------------------------------------
(* The files of a title (GuestFiles)                                         *)

FilesSpec ==
    /\ BootInit /\ [][BootSteps]_boot
    /\ RangeInit /\ [][RangeSteps]_rangeCache
    /\ TreeInit /\ [][TreeSteps]_tree
    /\ ChainInit /\ [][ChainSteps]_chain

Extents == [offset : Nat, length : Nat]
BootRuns == [source : Sources \cup {"none"}, at : {"idle", "run", "fetch", "ended"}, attempt : Nat,
          stop : Nat, last : Nat, attached : BOOLEAN, cache : SUBSET Extents, bytes : Nat,
          cleared : BOOLEAN]

\* Until the cache is dropped every read before the one the guest stopped at
\* has its bytes, and once they are fetched so has that one.
BootInv ==
    /\ boot \in BootRuns
    /\ boot.stop \in {0} \cup DOMAIN Script /\ boot.last \in {0} \cup DOMAIN Script
    /\ boot.at = "idle" => boot.stop = 0
    /\ boot.at = "fetch" => boot.stop # 0
    /\ ~boot.cleared =>
          /\ \A i \in DOMAIN Script : i < boot.stop => Covered(boot, Script[i])
          /\ boot.at = "run" /\ boot.stop # 0 => Covered(boot, Script[boot.stop])
          /\ boot.at \in {"fetch", "ended"} /\ boot.last # 0 => boot.stop = 0 \/ boot.stop > boot.last

LEMMA ScriptReads ==
    ASSUME NEW i \in DOMAIN Script
    PROVE  Script[i] \in [offset : Nat, length : Nat \ {0}]
<1>1. Script \in Seq([offset : Nat, length : Nat \ {0}])
  BY FilesAssumption
<1> HIDE FilesAssumption
<1>2. i \in 1 .. Len(Script)
  BY <1>1
<1> QED BY <1>1, <1>2, ElementOfSeq

LEMMA FirstBlocked ==
    ASSUME NEW b
    PROVE  /\ StopsAt(b) \in {0} \cup DOMAIN Script
           /\ StopsAt(b) = 0 => \A i \in DOMAIN Script : Covered(b, Script[i])
           /\ StopsAt(b) # 0 => /\ ~Covered(b, Script[StopsAt(b)])
                                /\ \A i \in DOMAIN Script : i < StopsAt(b) => Covered(b, Script[i])
<1> DEFINE blocked == {i \in DOMAIN Script : ~Covered(b, Script[i])}
<1>1. DOMAIN Script \subseteq Nat \ {0}
  BY FilesAssumption
<1>2. CASE blocked = {}
  BY <1>2 DEF StopsAt
<1>3. CASE blocked # {}
  <2>1. \E x \in blocked : \A y \in blocked : x <= y
    BY <1>1, <1>3, LeastExists
  <2>2. StopsAt(b) = Min(blocked)
    BY <1>3 DEF StopsAt
  <2>3. Min(blocked) \in blocked /\ \A y \in blocked : Min(blocked) <= y
    BY <2>1 DEF Min
  <2>4. \A i \in DOMAIN Script : i < Min(blocked) => i \notin blocked
    BY <1>1, <2>3
  <2> QED BY <1>1, <2>2, <2>3, <2>4
<1> QED BY <1>2, <1>3

\* The extent of a disc is that of the read.
LEMMA ExtentCovers ==
    ASSUME NEW i \in DOMAIN Script
    PROVE  /\ Extent(Script[i]) \in Extents
           /\ Extent(Script[i]).offset = Script[i].offset /\ Extent(Script[i]).length = Script[i].length
<1> DEFINE o == Script[i].offset
           n == Script[i].length
<1>1. o \in Nat /\ n \in Nat \ {0} /\ o + n <= ScriptSize /\ ScriptSize \in Nat
  <2>1. Script[i] \in [offset : Nat, length : Nat \ {0}]
    BY ScriptReads
  <2> QED BY <2>1, FilesAssumption
<1>2. Extent(Script[i]) =
        LET start == IF o < ScriptSize THEN o ELSE ScriptSize
            wanted == IF n > 1 THEN n ELSE 1
        IN  [offset |-> start, length |-> IF ScriptSize - start < wanted THEN ScriptSize - start ELSE wanted]
  BY DEF Extent
<1> HIDE DEF o, n
<1>3. Extent(Script[i]) = [offset |-> o, length |-> n]
  BY <1>1, <1>2
<1>4. Extent(Script[i]).offset = o /\ Extent(Script[i]).length = n
  BY <1>3
<1>5. Extent(Script[i]) \in Extents
  BY <1>1, <1>3 DEF Extents
<1>6. o = Script[i].offset /\ n = Script[i].length
  BY DEF o, n
<1> QED BY <1>4, <1>5, <1>6

LEMMA BootStarts == BootInit => BootInv
<1>1. DOMAIN Script \subseteq Nat \ {0}
  BY FilesAssumption
<1>2. \A i \in DOMAIN Script : ~(i < 0)
  BY <1>1
<1>3. BootInit => boot \in BootRuns
  BY DEF BootInit, BootRuns, Sources
<1> QED BY <1>2, <1>3 DEF BootInit, BootInv

LEMMA BootKeeps == BootInv /\ [BootSteps]_boot => BootInv'
<1> SUFFICES ASSUME BootInv, [BootSteps]_boot PROVE BootInv'
  OBVIOUS
<1>0. /\ boot \in BootRuns /\ boot.stop \in {0} \cup DOMAIN Script /\ boot.last \in {0} \cup DOMAIN Script
      /\ boot.at = "fetch" => boot.stop # 0
  BY DEF BootInv
<1>d. DOMAIN Script \subseteq Nat \ {0}
  BY FilesAssumption
<1>n. boot.attempt + 1 \in Nat
  BY <1>0 DEF BootRuns
<1>1. CASE UNCHANGED boot
  BY <1>1 DEF BootInv, Covered
<1>2. ASSUME NEW source \in Sources, PrepareFiles(source) PROVE BootInv'
  <2>1. boot.at = "idle" /\ boot' = [boot EXCEPT !.source = source, !.at = "run"] /\ boot.stop = 0
    BY <1>2 DEF PrepareFiles, BootInv
  <2>2. /\ boot' \in BootRuns /\ boot'.at = "run" /\ boot'.stop = 0 /\ boot'.last = boot.last
    BY <1>0, <2>1 DEF BootRuns
  <2> QED BY <1>0, <1>d, <2>2 DEF BootInv
<1>3. CASE RunOnce
  <2> DEFINE s == StopsAt(boot)
             at == IF s = 0 \/ boot.attempt >= MaxRetries THEN "ended" ELSE "fetch"
  <2>1. boot.at = "run" /\ boot' = [boot EXCEPT !.stop = s, !.last = boot.stop, !.at = at]
    BY <1>3 DEF RunOnce
  <2>2. /\ s \in {0} \cup DOMAIN Script
        /\ s # 0 => ~Covered(boot, Script[s]) /\ \A i \in DOMAIN Script : i < s => Covered(boot, Script[i])
    BY FirstBlocked
  <2> HIDE DEF s
  <2>3. s \in Nat /\ at \in {"fetch", "ended"} /\ (at = "fetch" => s # 0)
    BY <1>d, <2>2
  <2> HIDE DEF at
  <2>4. /\ boot' \in BootRuns /\ boot'.at = at /\ boot'.stop = s /\ boot'.last = boot.stop
        /\ boot'.source = boot.source /\ boot'.attached = boot.attached /\ boot'.cache = boot.cache
        /\ boot'.cleared = boot.cleared
    BY <1>0, <2>1, <2>3 DEF BootRuns
  <2>5. \A read : Covered(boot', read) <=> Covered(boot, read)
    BY <2>4 DEF Covered
  <2>6. ASSUME ~boot.cleared, boot.stop # 0, s # 0 PROVE s > boot.stop
    <3>1. /\ \A i \in DOMAIN Script : i < boot.stop => Covered(boot, Script[i])
          /\ Covered(boot, Script[boot.stop])
      BY <2>1, <2>6 DEF BootInv
    <3>2. s \in DOMAIN Script /\ s \in Nat /\ boot.stop \in Nat /\ s # boot.stop /\ ~(s < boot.stop)
      BY <1>0, <1>d, <2>2, <2>6, <3>1
    <3> QED BY <3>2
  <2>7. s = 0 => \A i \in DOMAIN Script : ~(i < s)
    BY <1>d
  <2> QED BY <1>0, <2>2, <2>3, <2>4, <2>5, <2>6, <2>7 DEF BootInv
<1>4. CASE FetchPending
  <2>1. boot.at = "fetch" /\ boot.stop \in DOMAIN Script
    BY <1>0, <1>4 DEF FetchPending
  <2>2. CASE boot.source = "xex"
    <3>1. boot' = [boot EXCEPT !.at = "ended"]
      BY <1>4, <2>2 DEF FetchPending
    <3>2. /\ boot' \in BootRuns /\ boot'.at = "ended" /\ boot'.stop = boot.stop /\ boot'.last = boot.last
          /\ boot'.source = boot.source /\ boot'.attached = boot.attached /\ boot'.cache = boot.cache
          /\ boot'.cleared = boot.cleared
      BY <1>0, <3>1 DEF BootRuns
    <3>3. \A read : Covered(boot', read) <=> Covered(boot, read)
      BY <3>2 DEF Covered
    <3> QED BY <2>1, <3>2, <3>3 DEF BootInv
  <2>3. CASE boot.source = "stfs"
    <3>1. boot' = [boot EXCEPT !.at = "run", !.attempt = boot.attempt + 1, !.attached = TRUE]
      BY <1>4, <2>3 DEF FetchPending
    <3>2. /\ boot' \in BootRuns /\ boot'.at = "run" /\ boot'.stop = boot.stop /\ boot'.last = boot.last
          /\ boot'.attached
      BY <1>0, <1>n, <3>1 DEF BootRuns
    <3>3. \A read : Covered(boot', read)
      BY <3>2 DEF Covered
    <3> QED BY <1>0, <3>2, <3>3 DEF BootInv
  <2>4. CASE boot.source \notin {"xex", "stfs"}
    <3> DEFINE read == Script[boot.stop]
               e == Extent(read)
               drop == boot.bytes + e.length > MaxCache
               extents == IF drop THEN {e} ELSE boot.cache \cup {e}
               bytes == IF drop THEN e.length ELSE boot.bytes + e.length
               cleared == boot.cleared \/ drop
    <3>1. boot' = [boot EXCEPT !.cache = extents, !.bytes = bytes, !.cleared = cleared,
                               !.at = "run", !.attempt = boot.attempt + 1]
      <4>1. Ensure(boot, e) = [boot EXCEPT !.cache = extents, !.bytes = bytes, !.cleared = cleared]
        BY DEF Ensure
      <4>2. boot' = [Ensure(boot, e) EXCEPT !.at = "run", !.attempt = @ + 1]
        BY <1>4, <2>4 DEF FetchPending
      <4> HIDE DEF extents, bytes, cleared, e
      <4>3. Ensure(boot, e).attempt = boot.attempt
        BY <1>0, <4>1 DEF BootRuns
      <4> QED BY <1>0, <4>1, <4>2, <4>3 DEF BootRuns
    <3>2. e \in Extents /\ e.length \in Nat /\ e.offset = read.offset /\ e.length = read.length
      BY <2>1, ExtentCovers DEF Extents
    <3>3. /\ extents \in SUBSET Extents /\ e \in extents /\ bytes \in Nat /\ cleared \in BOOLEAN
          /\ ~cleared => ~boot.cleared /\ boot.cache \subseteq extents
      BY <1>0, <3>2 DEF BootRuns
    <3> HIDE DEF e, drop, extents, bytes, cleared
    <3>4. /\ boot' \in BootRuns /\ boot'.at = "run" /\ boot'.stop = boot.stop /\ boot'.last = boot.last
          /\ boot'.source = boot.source /\ boot'.attached = boot.attached /\ boot'.cache = extents
          /\ boot'.cleared = cleared
      BY <1>0, <1>n, <3>1, <3>3 DEF BootRuns
    <3>5. ASSUME ~cleared, NEW r, Covered(boot, r) PROVE Covered(boot', r)
      BY <3>3, <3>4, <3>5 DEF Covered
    <3>6. Covered(boot', read)
      <4>1. read.offset \in Nat /\ read.length \in Nat
        <5>1. read \in [offset : Nat, length : Nat \ {0}]
          BY <2>1, ScriptReads
        <5> QED BY <5>1
      <4>2. e.offset <= read.offset /\ read.offset + read.length <= e.offset + e.length
        BY <3>2, <4>1
      <4> QED BY <3>3, <3>4, <4>2 DEF Covered
    <3> HIDE DEF read
    <3>7. ~cleared => \A i \in DOMAIN Script : i < boot'.stop => Covered(boot', Script[i])
      BY <3>3, <3>4, <3>5 DEF BootInv
    <3> QED BY <1>0, <3>4, <3>6, <3>7 DEF BootInv, read
  <2> QED BY <2>2, <2>3, <2>4
<1> QED BY <1>1, <1>2, <1>3, <1>4 DEF BootSteps

RangeCaches == [held : Seq(CacheBlocks), pending : SUBSET CacheBlocks,
                flights : SUBSET [reader : BlockReaders, block : CacheBlocks], cleared : BOOLEAN]

\* Until the cache is cleared, what is pending is on its way, once.
RangeInv ==
    /\ rangeCache \in RangeCaches
    /\ BlocksReadOnce
    /\ ~rangeCache.cleared => rangeCache.pending = {f.block : f \in rangeCache.flights}

\* A block held goes once, one that is not held changes nothing.
LEMMA BlockGoes ==
    ASSUME NEW S, NEW held \in Seq(S), NEW b
    PROVE  /\ RemoveFirst(held, b) \in Seq(S) /\ Len(RemoveFirst(held, b)) <= Len(held)
           /\ Contains(held, b) => Len(RemoveFirst(held, b)) = Len(held) - 1
<1>1. CASE ~Contains(held, b)
  BY <1>1 DEF Contains, RemoveFirst
<1>2. CASE Contains(held, b)
  <2> DEFINE places == {i \in 1 .. Len(held) : held[i] = b}
             k == Min(places)
             n == Len(held)
  <2>1. places # {} /\ places \in SUBSET Nat
    BY <1>2 DEF Contains
  <2>2. \E x \in places : \A y \in places : x <= y
    BY <2>1, LeastExists
  <2>3. k \in places
    BY <2>2 DEF Min
  <2>4. RemoveFirst(held, b) = RemoveAt(held, k)
    BY <1>2, <2>1 DEF Contains, RemoveFirst, SelectInSeq
  <2>5. k \in 1 .. n /\ n \in Nat
    BY <2>3
  <2> HIDE DEF k, places
  <2>6. RemoveFirst(held, b) = SubSeq(held, 1, k - 1) \o SubSeq(held, k + 1, n)
    BY <2>4 DEF RemoveAt
  <2> DEFINE u == SubSeq(held, 1, k - 1)
             v == SubSeq(held, k + 1, n)
  <2>7. u \in Seq(S) /\ Len(u) = k - 1
    BY <2>5
  <2>8. v \in Seq(S) /\ Len(v) = n - k
    BY <2>5
  <2> HIDE DEF u, v
  <2>9. u \o v \in Seq(S) /\ Len(u \o v) = (k - 1) + (n - k)
    BY <2>7, <2>8
  <2> HIDE DEF n
  <2>10. (k - 1) + (n - k) = n - 1 /\ n - 1 <= n
    BY <2>5
  <2> QED BY <1>2, <2>6, <2>9, <2>10 DEF n, u, v
<1> QED BY <1>1, <1>2

LEMMA RangeStarts == RangeInit => RangeInv
BY FilesAssumption DEF RangeInit, RangeInv, RangeCaches, BlocksReadOnce

LEMMA RangeKeeps == RangeInv /\ [RangeSteps]_rangeCache => RangeInv'
<1> SUFFICES ASSUME RangeInv, [RangeSteps]_rangeCache PROVE RangeInv'
  OBVIOUS
<1>0. /\ rangeCache \in RangeCaches /\ BlocksReadOnce
      /\ rangeCache.held \in Seq(CacheBlocks) /\ Len(rangeCache.held) \in Nat
      /\ Len(rangeCache.held) <= MaxBlocks /\ MaxBlocks \in Nat \ {0}
      /\ rangeCache.pending \in SUBSET CacheBlocks
      /\ rangeCache.flights \in SUBSET [reader : BlockReaders, block : CacheBlocks]
      /\ rangeCache.cleared \in BOOLEAN
  BY FilesAssumption DEF RangeInv, RangeCaches, BlocksReadOnce
<1>1. CASE UNCHANGED rangeCache
  BY <1>1 DEF RangeInv, BlocksReadOnce
<1>2. ASSUME NEW r \in BlockReaders, NEW b \in CacheBlocks, BlockWanted(r, b) PROVE RangeInv'
  <2>1. CASE Contains(rangeCache.held, b)
    <3> DEFINE held == Append(RemoveFirst(rangeCache.held, b), b)
    <3>1. rangeCache' = [rangeCache EXCEPT !.held = held]
      BY <1>2, <2>1 DEF BlockWanted
    <3>2. held \in Seq(CacheBlocks) /\ Len(held) = Len(rangeCache.held)
      <4> DEFINE less == RemoveFirst(rangeCache.held, b)
      <4>1. less \in Seq(CacheBlocks) /\ Len(less) = Len(rangeCache.held) - 1
        BY <1>0, <2>1, BlockGoes
      <4> HIDE DEF less
      <4>2. Append(less, b) \in Seq(CacheBlocks) /\ Len(Append(less, b)) = Len(less) + 1
        BY <4>1
      <4> QED BY <1>0, <4>1, <4>2 DEF less
    <3> HIDE DEF held
    <3>3. /\ rangeCache' \in RangeCaches /\ rangeCache'.held = held
          /\ rangeCache'.pending = rangeCache.pending /\ rangeCache'.flights = rangeCache.flights
          /\ rangeCache'.cleared = rangeCache.cleared
      BY <1>0, <3>1, <3>2 DEF RangeCaches
    <3> QED BY <1>0, <3>2, <3>3 DEF RangeInv, BlocksReadOnce
  <2>2. CASE ~Contains(rangeCache.held, b) /\ b \in rangeCache.pending
    BY <1>2, <2>2 DEF BlockWanted, RangeInv, BlocksReadOnce
  <2>3. CASE ~Contains(rangeCache.held, b) /\ b \notin rangeCache.pending
    <3> DEFINE flight == [reader |-> r, block |-> b]
               pending == rangeCache.pending \cup {b}
               flights == rangeCache.flights \cup {flight}
    <3>1. rangeCache' = [rangeCache EXCEPT !.pending = pending, !.flights = flights]
      BY <1>2, <2>3 DEF BlockWanted, Pending
    <3>2. flight \in [reader : BlockReaders, block : CacheBlocks] /\ flight.block = b
      OBVIOUS
    <3> HIDE DEF flight
    <3>3. pending \in SUBSET CacheBlocks /\ flights \in SUBSET [reader : BlockReaders, block : CacheBlocks]
      BY <1>0, <3>2
    <3>4. ASSUME ~rangeCache.cleared
          PROVE  /\ pending = {f.block : f \in flights}
                 /\ \A f, g \in flights : f.block = g.block => f = g
      <4>1. /\ rangeCache.pending = {f.block : f \in rangeCache.flights}
            /\ \A f, g \in rangeCache.flights : f.block = g.block => f = g
        BY <3>4 DEF RangeInv, BlocksReadOnce
      <4>2. \A f \in rangeCache.flights : f.block # b
        BY <2>3, <4>1
      <4> QED BY <3>2, <4>1, <4>2
    <3> HIDE DEF pending, flights
    <3>5. /\ rangeCache' \in RangeCaches /\ rangeCache'.held = rangeCache.held
          /\ rangeCache'.pending = pending /\ rangeCache'.flights = flights
          /\ rangeCache'.cleared = rangeCache.cleared
      BY <1>0, <3>1, <3>3 DEF RangeCaches
    <3> QED BY <1>0, <3>4, <3>5 DEF RangeInv, BlocksReadOnce
  <2> QED BY <2>1, <2>2, <2>3
<1>3. ASSUME NEW f \in rangeCache.flights, BlockRead(f) PROVE RangeInv'
  <2> DEFINE pending == rangeCache.pending \ {f.block}
             flights == rangeCache.flights \ {f}
             less == RemoveFirst(rangeCache.held, f.block)
             more == Append(less, f.block)
             kept == KeptBlocks(more)
  <2>1. PICK held \in {rangeCache.held, kept} :
            rangeCache' = [rangeCache EXCEPT !.pending = pending, !.flights = flights, !.held = held]
    <3> DEFINE arrived == [rangeCache EXCEPT !.pending = pending, !.flights = flights]
    <3>1. rangeCache' \in {arrived, [arrived EXCEPT !.held = KeptBlocks(Append(RemoveFirst(@, f.block), f.block))]}
      BY <1>3 DEF BlockRead
    <3>2. arrived.held = rangeCache.held
      BY <1>0 DEF RangeCaches
    <3>3. arrived = [rangeCache EXCEPT !.pending = pending, !.flights = flights, !.held = rangeCache.held]
      BY <1>0 DEF RangeCaches
    <3> HIDE DEF pending, flights
    <3>4. [arrived EXCEPT !.held = kept] = [rangeCache EXCEPT !.pending = pending, !.flights = flights, !.held = kept]
      BY <1>0 DEF RangeCaches
    <3>5. [arrived EXCEPT !.held = KeptBlocks(Append(RemoveFirst(@, f.block), f.block))] = [arrived EXCEPT !.held = kept]
      BY <3>2
    <3> HIDE DEF arrived, kept
    <3> QED BY <3>1, <3>3, <3>4, <3>5
  <2>2. f.block \in CacheBlocks
    BY <1>0
  <2>3. kept \in Seq(CacheBlocks) /\ Len(kept) <= MaxBlocks
    <3>1. less \in Seq(CacheBlocks) /\ Len(less) <= Len(rangeCache.held) /\ Len(less) \in Nat
      BY <1>0, BlockGoes
    <3> HIDE DEF less
    <3>2. more \in Seq(CacheBlocks) /\ Len(more) = Len(less) + 1
      BY <2>2, <3>1
    <3> HIDE DEF more
    <3>3. Len(more) <= MaxBlocks + 1 /\ Len(more) \in Nat \ {0} /\ more # <<>>
      BY <1>0, <3>1, <3>2
    <3>4. CASE Len(more) > MaxBlocks
      <4>1. kept = Tail(more) /\ Len(more) = MaxBlocks + 1
        BY <1>0, <3>3, <3>4 DEF KeptBlocks
      <4>2. Tail(more) \in Seq(CacheBlocks) /\ Len(Tail(more)) = Len(more) - 1
        BY <3>2, <3>3
      <4> QED BY <1>0, <4>1, <4>2
    <3>5. CASE ~(Len(more) > MaxBlocks)
      BY <1>0, <3>2, <3>3, <3>5 DEF KeptBlocks
    <3> QED BY <3>4, <3>5
  <2>4. held \in Seq(CacheBlocks) /\ Len(held) <= MaxBlocks
    BY <1>0, <2>1, <2>3
  <2>5. ASSUME ~rangeCache.cleared
        PROVE  /\ pending = {g.block : g \in flights}
               /\ \A g, h \in flights : g.block = h.block => g = h
    <3>1. /\ rangeCache.pending = {g.block : g \in rangeCache.flights}
          /\ \A g, h \in rangeCache.flights : g.block = h.block => g = h
      BY <2>5 DEF RangeInv, BlocksReadOnce
    <3>2. \A g \in flights : g.block # f.block
      BY <3>1
    <3> QED BY <3>1, <3>2
  <2>6. pending \in SUBSET CacheBlocks /\ flights \in SUBSET [reader : BlockReaders, block : CacheBlocks]
    BY <1>0
  <2> HIDE DEF pending, flights, kept
  <2>7. /\ rangeCache' \in RangeCaches /\ rangeCache'.held = held
        /\ rangeCache'.pending = pending /\ rangeCache'.flights = flights
        /\ rangeCache'.cleared = rangeCache.cleared
    BY <1>0, <2>1, <2>4, <2>6 DEF RangeCaches
  <2> QED BY <2>4, <2>5, <2>7 DEF RangeInv, BlocksReadOnce
<1>4. CASE ClearBlocks
  <2>1. rangeCache' = [rangeCache EXCEPT !.held = <<>>, !.pending = {}, !.cleared = TRUE]
    BY <1>4 DEF ClearBlocks
  <2>0. <<>> \in Seq(CacheBlocks) /\ {} \in SUBSET CacheBlocks
    OBVIOUS
  <2>2. /\ rangeCache' \in RangeCaches /\ rangeCache'.held = <<>> /\ rangeCache'.cleared
    BY <1>0, <2>0, <2>1 DEF RangeCaches
  <2> QED BY <1>0, <2>2 DEF RangeInv, BlocksReadOnce
<1> QED BY <1>1, <1>2, <1>3, <1>4 DEF RangeSteps

Pointers == [TreeNodes -> TreeNodes \cup {0, -1}]
EntryTrees == [left : Pointers, right : Pointers, at : {"idle", "walk", "done", "error"},
               stack : Seq(TreeNodes), seen : SUBSET TreeNodes, out : Seq(TreeNodes)]
\* What is listed is what was seen, and below it is only what is listed, what
\* waits on the stack and the end of the table.
TreeInv ==
    /\ tree \in EntryTrees
    /\ tree.seen = Range(tree.out) /\ IsInjective(tree.out)
    /\ IsFiniteSet(tree.seen) /\ Cardinality(tree.seen) = Len(tree.out)
    /\ tree.at = "idle" => tree.seen = {}
    /\ tree.at # "error" => \A e \in tree.seen :
          {tree.left[e], tree.right[e]} \subseteq tree.seen \cup Range(tree.stack) \cup {0}
    /\ tree.at = "done" => tree.stack = <<>>

LEMMA TreeStarts == TreeInit => TreeInv
<1> SUFFICES ASSUME TreeInit PROVE TreeInv
  OBVIOUS
<1>1. /\ tree.left \in Pointers /\ tree.right \in Pointers /\ tree.at = "idle"
      /\ tree.stack = <<>> /\ tree.seen = {} /\ tree.out = <<>>
  BY DEF TreeInit, Pointers
<1>2. tree \in EntryTrees
  BY <1>1 DEF TreeInit, EntryTrees
<1>3. Range(<<>>) = {} /\ IsInjective(<<>>) /\ Len(<<>>) = 0
  BY DEF Range, IsInjective
<1>4. IsFiniteSet({}) /\ Cardinality({}) = 0
  BY FS_EmptySet
<1> QED BY <1>1, <1>2, <1>3, <1>4 DEF TreeInv

LEMMA RangeOfTwo ==
    ASSUME NEW S, NEW s \in Seq(S), NEW t \in Seq(S)
    PROVE  Range(s \o t) = Range(s) \cup Range(t)
<1> DEFINE m == Len(s)
           n == Len(t)
           both == s \o t
<1>1. /\ m \in Nat /\ n \in Nat /\ Len(both) = m + n /\ both \in Seq(S)
      /\ DOMAIN s = 1 .. m /\ DOMAIN t = 1 .. n
      /\ \A i \in 1 .. m : both[i] = s[i]
      /\ \A i \in m + 1 .. m + n : both[i] = t[i - m]
  OBVIOUS
<1>2. DOMAIN both = 1 .. m + n
  BY <1>1
<1> HIDE DEF m, n, both
<1>3. \A i \in 1 .. m + n : i \in 1 .. m \/ (i \in m + 1 .. m + n /\ i - m \in 1 .. n)
  BY <1>1
<1>4. /\ \A i \in 1 .. m : i \in 1 .. m + n
      /\ \A i \in 1 .. n : i + m \in m + 1 .. m + n /\ i + m \in 1 .. m + n /\ (i + m) - m = i
  BY <1>1
<1>5. \A i \in 1 .. n : both[i + m] = t[i]
  BY <1>1, <1>4
<1>6. \A x : (\E i \in 1 .. m + n : both[i] = x) <=> (\E i \in 1 .. m : s[i] = x) \/ (\E i \in 1 .. n : t[i] = x)
  BY <1>1, <1>3, <1>4, <1>5
<1> QED BY <1>1, <1>2, <1>6, ZenonT(60) DEF Range, both

LEMMA RangeOfOne ==
    ASSUME NEW x
    PROVE  Range(<<x>>) = {x}
<1>1. DOMAIN <<x>> = 1 .. 1 /\ <<x>>[1] = x /\ \A i : i \in 1 .. 1 <=> i = 1
  OBVIOUS
<1> DEFINE s == <<x>>
<1> HIDE DEF s
<1>2. DOMAIN s = 1 .. 1 /\ s[1] = x
  BY <1>1 DEF s
<1>3. Range(s) = {x}
  BY <1>1, <1>2 DEF Range
<1> QED BY <1>3 DEF s

\* The children of an entry, if none of them is outside the table.
LEMMA EntriesLeft ==
    ASSUME NEW l \in TreeNodes \cup {0, -1}, NEW r \in TreeNodes \cup {0, -1},
           ~Contains(Child(r) \o Child(l), -1)
    PROVE  /\ Child(r) \o Child(l) \in Seq(TreeNodes)
           /\ {l, r} \subseteq Range(Child(r) \o Child(l)) \cup {0}
<1>1. ASSUME NEW c \in {l, r}
      PROVE  /\ Child(c) \in Seq(TreeNodes \cup {-1})
             /\ Range(Child(c)) \cup {0} = {c, 0}
  <2>1. CASE c = 0
    <3>1. Child(c) = <<>> /\ Range(<<>>) = {}
      BY <2>1 DEF Child, Range
    <3>2. <<>> \in Seq(TreeNodes \cup {-1})
      OBVIOUS
    <3>3. Range(Child(c)) \cup {0} = {c, 0}
      BY <2>1, <3>1
    <3> QED BY <3>1, <3>2, <3>3
  <2>2. CASE c # 0
    <3>1. Child(c) = <<c>> /\ c \in TreeNodes \cup {-1}
      BY <2>2 DEF Child
    <3>2. <<c>> \in Seq(TreeNodes \cup {-1})
      BY <3>1
    <3> QED BY <3>1, <3>2, RangeOfOne
  <2> QED BY <2>1, <2>2
<1> DEFINE left == Child(l)
           right == Child(r)
           both == right \o left
<1>2. /\ left \in Seq(TreeNodes \cup {-1}) /\ right \in Seq(TreeNodes \cup {-1})
      /\ Range(left) \cup {0} = {l, 0} /\ Range(right) \cup {0} = {r, 0}
  BY <1>1
<1> HIDE DEF left, right
<1>3. Range(both) = Range(right) \cup Range(left) /\ both \in Seq(TreeNodes \cup {-1})
  BY <1>2, RangeOfTwo
<1>4. ~Contains(both, -1)
  BY DEF left, right
<1> HIDE DEF both
<1>5. \A i \in 1 .. Len(both) : both[i] \in TreeNodes
  <2> TAKE i \in 1 .. Len(both)
  <2>1. both[i] \in TreeNodes \cup {-1}
    BY <1>3, ElementOfSeq
  <2>2. both[i] # -1
    BY <1>4 DEF Contains
  <2> QED BY <2>1, <2>2
<1>6. Len(both) \in Nat /\ both \in [1 .. Len(both) -> TreeNodes]
  BY <1>3, <1>5
<1>7. both \in Seq(TreeNodes)
  BY <1>6, FunctionIsSeq
<1>8. {l, r} \subseteq Range(both) \cup {0}
  BY <1>2, <1>3
<1> QED BY <1>7, <1>8 DEF both, left, right

LEMMA TreeKeeps == TreeInv /\ [TreeSteps]_tree => TreeInv'
<1> SUFFICES ASSUME TreeInv, [TreeSteps]_tree PROVE TreeInv'
  OBVIOUS
<1>0. /\ tree \in EntryTrees /\ tree.left \in Pointers /\ tree.right \in Pointers
      /\ tree.stack \in Seq(TreeNodes) /\ tree.seen \in SUBSET TreeNodes /\ tree.out \in Seq(TreeNodes)
      /\ tree.seen = Range(tree.out) /\ IsInjective(tree.out)
      /\ IsFiniteSet(tree.seen) /\ Cardinality(tree.seen) = Len(tree.out)
  BY DEF TreeInv, EntryTrees
<1>1. CASE UNCHANGED tree
  BY <1>1 DEF TreeInv
<1>2. CASE ReadTable
  <2>1. PICK l \in Pointers, r \in Pointers :
            tree' = [tree EXCEPT !.left = l, !.right = r, !.at = "walk", !.stack = <<Min(TreeNodes)>>]
    BY <1>2 DEF ReadTable, Pointers
  <2>2. Min(TreeNodes) \in TreeNodes
    <3>1. \E x \in TreeNodes : \A y \in TreeNodes : x <= y
      BY FilesAssumption, LeastExists
    <3> QED BY <3>1 DEF Min
  <2> DEFINE stack == <<Min(TreeNodes)>>
  <2>3. stack \in Seq(TreeNodes)
    BY <2>2
  <2> HIDE DEF stack
  <2>4. tree' = [tree EXCEPT !.left = l, !.right = r, !.at = "walk", !.stack = stack]
    BY <2>1 DEF stack
  <2>5. /\ tree' \in EntryTrees /\ tree'.at = "walk" /\ tree'.seen = tree.seen /\ tree'.out = tree.out
    BY <1>0, <2>3, <2>4 DEF EntryTrees
  <2>6. tree.seen = {}
    BY <1>2 DEF ReadTable, TreeInv
  <2> QED BY <1>0, <2>5, <2>6 DEF TreeInv
<1>3. CASE WalkEntry
  <2>0. tree.at = "walk" /\ \A e \in tree.seen :
             {tree.left[e], tree.right[e]} \subseteq tree.seen \cup Range(tree.stack) \cup {0}
    BY <1>3 DEF WalkEntry, TreeInv
  <2>1. CASE tree.stack = <<>>
    <3>1. tree' = [tree EXCEPT !.at = "done"]
      BY <1>3, <2>1 DEF WalkEntry
    <3>2. /\ tree' \in EntryTrees /\ tree'.at = "done" /\ tree'.seen = tree.seen /\ tree'.out = tree.out
          /\ tree'.stack = tree.stack /\ tree'.left = tree.left /\ tree'.right = tree.right
      BY <1>0, <3>1 DEF EntryTrees
    <3> QED BY <1>0, <2>0, <2>1, <3>2 DEF TreeInv
  <2>2. CASE tree.stack # <<>>
    <3> DEFINE e == Last(tree.stack)
               rest == Front(tree.stack)
               children == Child(tree.right[e]) \o Child(tree.left[e])
               stack == rest \o children
               seen == tree.seen \cup {e}
               out == Append(tree.out, e)
    <3>1. /\ e \in TreeNodes /\ rest \in Seq(TreeNodes)
          /\ Range(tree.stack) = Range(rest) \cup {e}
      <4> DEFINE n == Len(tree.stack)
      <4>1. n \in Nat \ {0} /\ tree.stack \in Seq(TreeNodes)
        <5>1. Len(tree.stack) \in Nat /\ Len(tree.stack) # 0
          BY <1>0, <2>2
        <5> QED BY <1>0, <5>1
      <4>2. e = tree.stack[n] /\ rest = SubSeq(tree.stack, 1, n - 1)
        BY DEF Last, Front
      <4>3. tree.stack[n] \in TreeNodes
        BY <4>1, ElementOfSeq
      <4> HIDE DEF e, rest, n
      <4>4. DOMAIN tree.stack = 1 .. n
        BY <4>1 DEF n
      <4>5. /\ rest \in Seq(TreeNodes) /\ DOMAIN rest = 1 .. n - 1
            /\ \A i \in 1 .. n - 1 : rest[i] = tree.stack[i]
        BY <4>1, <4>2, <4>4
      <4>6. \A i : i \in 1 .. n <=> i \in 1 .. n - 1 \/ i = n
        BY <4>1
      <4>7. Range(tree.stack) = Range(rest) \cup {e}
        BY <4>2, <4>4, <4>5, <4>6 DEF Range
      <4> QED BY <4>2, <4>3, <4>5, <4>7
    <3>2. tree' = IF e \in tree.seen \/ Contains(children, -1) THEN [tree EXCEPT !.at = "error"]
                  ELSE [tree EXCEPT !.seen = seen, !.out = out, !.stack = stack]
      BY <1>3, <2>2 DEF WalkEntry, Seen
    <3> HIDE DEF e, rest
    <3>3. CASE e \in tree.seen \/ Contains(children, -1)
      <4>1. tree' = [tree EXCEPT !.at = "error"]
        BY <3>2, <3>3
      <4>2. /\ tree' \in EntryTrees /\ tree'.at = "error" /\ tree'.seen = tree.seen /\ tree'.out = tree.out
        BY <1>0, <4>1 DEF EntryTrees
      <4> QED BY <1>0, <4>2 DEF TreeInv
    <3>4. CASE e \notin tree.seen /\ ~Contains(children, -1)
      <4>1. tree' = [tree EXCEPT !.seen = seen, !.out = out, !.stack = stack]
        BY <3>2, <3>4
      <4>2. /\ children \in Seq(TreeNodes)
            /\ {tree.left[e], tree.right[e]} \subseteq Range(children) \cup {0}
        <5>1. tree.left[e] \in TreeNodes \cup {0, -1} /\ tree.right[e] \in TreeNodes \cup {0, -1}
          BY <1>0, <3>1 DEF Pointers
        <5> QED BY <3>4, <5>1, EntriesLeft
      <4> HIDE DEF children
      <4>3. stack \in Seq(TreeNodes) /\ Range(stack) = Range(rest) \cup Range(children)
        BY <3>1, <4>2, RangeOfTwo
      <4>4. seen \in SUBSET TreeNodes /\ IsFiniteSet(seen) /\ Cardinality(seen) = Len(tree.out) + 1
        BY <1>0, <3>1, <3>4, FS_AddElement
      <4>5. /\ out \in Seq(TreeNodes) /\ Len(out) = Len(tree.out) + 1
            /\ Range(out) = seen /\ IsInjective(out)
        <5> DEFINE n == Len(tree.out)
        <5>1. /\ out \in Seq(TreeNodes) /\ n \in Nat /\ Len(out) = n + 1 /\ DOMAIN out = 1 .. n + 1
              /\ \A i \in 1 .. n : out[i] = tree.out[i]
              /\ out[n + 1] = e /\ DOMAIN tree.out = 1 .. n
          BY <1>0, <3>1
        <5> HIDE DEF out, n
        <5>2. \A i : i \in 1 .. n + 1 <=> i \in 1 .. n \/ i = n + 1
          BY <5>1
        <5>3. Range(out) = Range(tree.out) \cup {e}
          BY <5>1, <5>2 DEF Range
        <5>4. \A i \in 1 .. n : tree.out[i] # e
          BY <1>0, <3>4, <5>1 DEF Range
        <5>5. \A i, j \in 1 .. n : tree.out[i] = tree.out[j] => i = j
          BY <1>0, <5>1 DEF IsInjective
        <5>6. \A i, j \in 1 .. n + 1 : out[i] = out[j] => i = j
          BY <5>1, <5>2, <5>4, <5>5
        <5>7. IsInjective(out)
          BY <5>1, <5>6 DEF IsInjective
        <5> QED BY <1>0, <5>1, <5>3, <5>7 DEF n
      <4> HIDE DEF stack, out, seen
      <4>6. /\ tree' \in EntryTrees /\ tree'.at = "walk" /\ tree'.seen = seen /\ tree'.out = out
            /\ tree'.stack = stack /\ tree'.left = tree.left /\ tree'.right = tree.right
        BY <1>0, <2>0, <4>1, <4>3, <4>4, <4>5 DEF EntryTrees
      <4>7. \A d \in seen : {tree.left[d], tree.right[d]} \subseteq seen \cup Range(stack) \cup {0}
        BY <2>0, <3>1, <4>2, <4>3 DEF seen
      <4> QED BY <4>4, <4>5, <4>6, <4>7 DEF TreeInv
    <3> QED BY <3>3, <3>4
  <2> QED BY <2>1, <2>2
<1> QED BY <1>1, <1>2, <1>3 DEF TreeSteps

LEMMA TreeShows == TreeInv => ListingIsTheTree
<1> SUFFICES ASSUME TreeInv PROVE ListingIsTheTree
  OBVIOUS
<1>1. Len(tree.out) <= Cardinality(TreeNodes)
  <2>1. tree.seen \in SUBSET TreeNodes /\ Cardinality(tree.seen) = Len(tree.out)
    BY DEF TreeInv, EntryTrees
  <2> QED BY <2>1, FilesAssumption, FS_Subset
<1>2. ASSUME tree.at = "done"
      PROVE  \A e \in Range(tree.out) : {tree.left[e], tree.right[e]} \subseteq Range(tree.out) \cup {0}
  <2>1. Range(<<>>) = {}
    BY DEF Range
  <2> QED BY <1>2, <2>1 DEF TreeInv
<1> QED BY <1>1, <1>2 DEF ListingIsTheTree, TreeInv

Chains == [next : [ChainBlocks -> ChainBlocks \cup {-1}], at : {"idle", "copy", "done", "error", "located"},
           current : ChainBlocks, visited : SUBSET ChainBlocks, size : Nat, left : Nat,
           block : Nat, tables : 1 .. 2]

\* What is left to copy and what was visited make up the file.
ChainInv ==
    /\ chain \in Chains
    /\ chain.at = "copy" => /\ IsFiniteSet(chain.visited) /\ chain.left > 0
                            /\ Cardinality(chain.visited) + chain.left = chain.size + 1
    /\ BlocksAreDistinct
    /\ chain.at = "located" => chain.block \in StfsSample

LEMMA ChainStarts == ChainInit => ChainInv
BY FilesAssumption DEF ChainInit, ChainInv, Chains, BlocksAreDistinct

LEMMA ChainKeeps == ChainInv /\ [ChainSteps]_chain => ChainInv'
<1> SUFFICES ASSUME ChainInv, [ChainSteps]_chain PROVE ChainInv'
  OBVIOUS
<1>0. /\ chain \in Chains /\ chain.next \in [ChainBlocks -> ChainBlocks \cup {-1}]
      /\ chain.current \in ChainBlocks /\ chain.visited \in SUBSET ChainBlocks
      /\ chain.size \in Nat /\ chain.left \in Nat
  BY DEF ChainInv, Chains
<1>1. CASE UNCHANGED chain
  BY <1>1 DEF ChainInv, BlocksAreDistinct
<1>2. CASE ExtractStarts
  <2>1. PICK next \in [ChainBlocks -> ChainBlocks \cup {-1}], n \in 1 .. Cardinality(ChainBlocks) :
            chain' = [chain EXCEPT !.next = next, !.at = "copy", !.visited = {0}, !.size = n, !.left = n]
    BY <1>2 DEF ExtractStarts
  <2>2. n \in Nat /\ n > 0 /\ 1 + n = n + 1 /\ {0} \in SUBSET ChainBlocks
    BY FilesAssumption
  <2>3. /\ chain' \in Chains /\ chain'.at = "copy" /\ chain'.visited = {0}
        /\ chain'.size = n /\ chain'.left = n
    BY <1>0, <2>1, <2>2 DEF Chains
  <2>4. IsFiniteSet({0}) /\ Cardinality({0}) = 1
    BY FS_Singleton
  <2> QED BY <2>2, <2>3, <2>4 DEF ChainInv, BlocksAreDistinct
<1>3. CASE CopyBlock
  <2> DEFINE next == chain.next[chain.current]
             left == chain.left - 1
             visited == chain.visited \cup {next}
  <2>0. /\ chain.at = "copy" /\ IsFiniteSet(chain.visited) /\ chain.left > 0
        /\ Cardinality(chain.visited) + chain.left = chain.size + 1
    BY <1>3 DEF CopyBlock, ChainInv
  <2>c. Cardinality(chain.visited) \in Nat
    BY <2>0, FS_CardinalityType
  <2>1. CASE chain.left = 1
    <3>1. chain' = [chain EXCEPT !.left = 0, !.at = "done"]
      BY <1>3, <2>1 DEF CopyBlock
    <3>2. /\ chain' \in Chains /\ chain'.at = "done" /\ chain'.visited = chain.visited
          /\ chain'.size = chain.size
      BY <1>0, <3>1 DEF Chains
    <3>3. Cardinality(chain.visited) = chain.size
      BY <1>0, <2>0, <2>1, <2>c
    <3> QED BY <3>2, <3>3 DEF ChainInv, BlocksAreDistinct
  <2>2. CASE chain.left # 1 /\ ~MayVisit(next)
    <3>1. chain' = [chain EXCEPT !.at = "error"]
      BY <1>3, <2>2 DEF CopyBlock
    <3>2. chain' \in Chains /\ chain'.at = "error"
      BY <1>0, <3>1 DEF Chains
    <3> QED BY <3>2 DEF ChainInv, BlocksAreDistinct
  <2>3. CASE chain.left # 1 /\ MayVisit(next)
    <3>1. chain' = [chain EXCEPT !.left = left, !.current = next, !.visited = visited]
      BY <1>3, <2>3 DEF CopyBlock
    <3>2. next \in ChainBlocks /\ next \notin chain.visited
      BY <1>0, <2>3 DEF MayVisit
    <3>3. IsFiniteSet(visited) /\ Cardinality(visited) = Cardinality(chain.visited) + 1
      BY <2>0, <3>2, FS_AddElement
    <3>4. left \in Nat /\ left > 0 /\ Cardinality(visited) + left = chain.size + 1
      BY <1>0, <2>0, <2>3, <2>c, <3>3
    <3>5. visited \in SUBSET ChainBlocks
      BY <1>0, <3>2
    <3> HIDE DEF left, visited, next
    <3>6. /\ chain' \in Chains /\ chain'.at = "copy" /\ chain'.visited = visited
          /\ chain'.size = chain.size /\ chain'.left = left
      BY <1>0, <2>0, <3>1, <3>2, <3>4, <3>5 DEF Chains
    <3> QED BY <3>3, <3>4, <3>6 DEF ChainInv, BlocksAreDistinct
  <2> QED BY <2>1, <2>2, <2>3
<1>4. CASE LocateBlock
  <2>1. PICK i \in StfsSample, b \in 1 .. 2 :
            chain' = [chain EXCEPT !.at = "located", !.block = i, !.tables = b]
    BY <1>4 DEF LocateBlock
  <2>2. i \in Nat
    BY FilesAssumption
  <2>3. chain' \in Chains /\ chain'.at = "located" /\ chain'.block = i
    BY <1>0, <2>1, <2>2 DEF Chains
  <2> QED BY <2>1, <2>3 DEF ChainInv, BlocksAreDistinct
<1> QED BY <1>1, <1>2, <1>3, <1>4 DEF ChainSteps

\* Tables of 170 entries of 170 entries: where block i has its own, counted in
\* blocks, and how many pages of the first and second level come before it.
LEMMA Levels ==
    ASSUME NEW i \in Nat, i < 170 * 170 * 170
    PROVE  /\ i \div L0 \in Nat /\ 170 * (i \div L0) <= i /\ i < 170 * (i \div L0) + 170
           /\ i \div L1 \in Nat /\ 28900 * (i \div L1) <= i /\ i < 28900 * (i \div L1) + 28900
           /\ (i + L0) \div L0 = i \div L0 + 1 /\ (i + L1) \div L1 = i \div L1 + 1
           /\ (i + L0 * L1) \div (L0 * L1) = 1
           /\ L0 = 170 /\ L1 = 28900
<1>1. L0 = 170 /\ L1 = 28900 /\ L0 * L1 = 4913000 /\ 170 * 170 * 170 = 4913000
  BY DEF L0, L1
<1>2. i \div 170 \in Nat /\ 170 * (i \div 170) <= i /\ i < 170 * (i \div 170) + 170
  OBVIOUS
<1>3. i \div 28900 \in Nat /\ 28900 * (i \div 28900) <= i /\ i < 28900 * (i \div 28900) + 28900
  OBVIOUS
<1>4. (i + 170) \div 170 = i \div 170 + 1
  OBVIOUS
<1>5. (i + 28900) \div 28900 = i \div 28900 + 1
  OBVIOUS
<1>6. (i + 4913000) \div 4913000 = 1
  BY <1>1
<1> QED BY <1>1, <1>2, <1>3, <1>4, <1>5, <1>6

\* q pages of 170 blocks and a of 28900 come before a block; its data are behind
\* the tables of its pages and before those of the next ones.
Table(q, a, b) == IF q = 0 THEN 0 ELSE 170 * q + q * b + (a + 1) * b + (IF a = 0 THEN 0 ELSE b)

DataPlaced(i, b) ==
    \E q, a, d \in Nat :
        /\ d < 170 /\ 170 * a <= q /\ q < 170 * a + 170
        /\ DataBlock(i, b) = Table(q, a, b) + b + d
TablesPlaced(j, b) ==
    \E p, c \in Nat :
        /\ 170 * c <= p /\ p < 170 * c + 170
        /\ HashBlock(j, 0, b) = Table(p, c, b)
        /\ HashBlock(j, 1, b) = (IF c = 0 THEN 170 + b ELSE 28900 * c + 171 * (c * b) + b)
        /\ HashBlock(j, 2, b) = 28900 + 171 * b

LEMMA DataBehindTables ==
    ASSUME NEW i \in Nat, i < 170 * 170 * 170, NEW b \in 1 .. 2
    PROVE  DataPlaced(i, b)
<1> DEFINE q == i \div L0
           a == i \div L1
           d == i - 170 * q
<1>1. /\ q \in Nat /\ a \in Nat /\ 170 * q <= i /\ i < 170 * q + 170
      /\ 28900 * a <= i /\ i < 28900 * a + 28900
      /\ (i + L0) \div L0 = q + 1 /\ (i + L1) \div L1 = a + 1
      /\ (i + L0 * L1) \div (L0 * L1) = 1 /\ L0 = 170 /\ L1 = 28900
  BY Levels
<1>2. DataBlock(i, b) = i + (q + 1) * b + (IF i >= 170 THEN (a + 1) * b ELSE 0)
                          + (IF i >= 28900 THEN 1 * b ELSE 0)
  BY <1>1 DEF DataBlock
<1> HIDE DEF q, a
<1>3. d \in Nat /\ d < 170 /\ i = 170 * q + d /\ 170 * a <= q /\ q < 170 * a + 170
  BY <1>1
<1> HIDE DEF d
<1>4. i >= 170 <=> q # 0
  BY <1>1, <1>3
<1>5. i >= 28900 <=> a # 0
  BY <1>1, <1>3
<1>6. DataBlock(i, b) = Table(q, a, b) + b + d
  <2>1. CASE b = 1
    BY <1>1, <1>2, <1>3, <1>4, <1>5, <2>1 DEF Table
  <2>2. CASE b = 2
    BY <1>1, <1>2, <1>3, <1>4, <1>5, <2>2 DEF Table
  <2> QED BY <2>1, <2>2
<1> QED BY <1>1, <1>3, <1>6 DEF DataPlaced

LEMMA TableOfBlock ==
    ASSUME NEW j \in Nat, j < 170 * 170 * 170, NEW b \in 1 .. 2
    PROVE  TablesPlaced(j, b)
<1> DEFINE p == j \div L0
           c == j \div L1
<1>1. /\ p \in Nat /\ c \in Nat /\ 170 * p <= j /\ j < 170 * p + 170
      /\ 28900 * c <= j /\ j < 28900 * c + 28900 /\ L0 = 170 /\ L1 = 28900
  BY Levels
<1>2. /\ HashBlock(j, 0, b) = IF j < 170 THEN 0 ELSE p * (170 + b) + (c + 1) * b + (IF j < 28900 THEN 0 ELSE b)
      /\ HashBlock(j, 1, b) = IF j < 28900 THEN 170 + b ELSE c * (28900 + (170 + 1) * b) + b
      /\ HashBlock(j, 2, b) = 28900 + (170 + 1) * b
  BY <1>1 DEF HashBlock, Step0, Step1
<1> HIDE DEF p, c
<1>3. 170 * c <= p /\ p < 170 * c + 170 /\ (j < 170 <=> p = 0) /\ (j < 28900 <=> c = 0)
  BY <1>1
<1>4. CASE b = 1
  <2>1. HashBlock(j, 0, b) = Table(p, c, b)
    BY <1>1, <1>2, <1>3, <1>4 DEF Table
  <2>2. HashBlock(j, 1, b) = (IF c = 0 THEN 170 + b ELSE 28900 * c + 171 * (c * b) + b)
    BY <1>1, <1>2, <1>3, <1>4
  <2>3. HashBlock(j, 2, b) = 28900 + 171 * b
    BY <1>2, <1>4
  <2> QED BY <1>1, <1>3, <2>1, <2>2, <2>3 DEF TablesPlaced
<1>5. CASE b = 2
  <2>1. HashBlock(j, 0, b) = Table(p, c, b)
    BY <1>1, <1>2, <1>3, <1>5 DEF Table
  <2>2. HashBlock(j, 1, b) = (IF c = 0 THEN 170 + b ELSE 28900 * c + 171 * (c * b) + b)
    BY <1>1, <1>2, <1>3, <1>5
  <2>3. HashBlock(j, 2, b) = 28900 + 171 * b
    BY <1>2, <1>5
  <2> QED BY <1>1, <1>3, <2>1, <2>2, <2>3 DEF TablesPlaced
<1> QED BY <1>4, <1>5

LEMMA DataApart ==
    ASSUME NEW i \in Nat, i < 170 * 170 * 170, NEW j \in Nat, j < 170 * 170 * 170,
           NEW b \in 1 .. 2, NEW level \in 0 .. 2
    PROVE  DataBlock(i, b) \notin HashBlock(j, level, b) .. HashBlock(j, level, b) + b - 1
<1>1. PICK q, a, d \in Nat :
         /\ d < 170 /\ 170 * a <= q /\ q < 170 * a + 170
         /\ DataBlock(i, b) = Table(q, a, b) + b + d
  <2>1. DataPlaced(i, b)
    BY DataBehindTables
  <2> QED BY ONLY <2>1 DEF DataPlaced
<1>2. PICK p, c \in Nat :
         /\ 170 * c <= p /\ p < 170 * c + 170
         /\ HashBlock(j, 0, b) = Table(p, c, b)
         /\ HashBlock(j, 1, b) = (IF c = 0 THEN 170 + b ELSE 28900 * c + 171 * (c * b) + b)
         /\ HashBlock(j, 2, b) = 28900 + 171 * b
  <2>1. TablesPlaced(j, b)
    BY TableOfBlock
  <2> QED BY ONLY <2>1, b \in 1 .. 2, j \in Nat DEF TablesPlaced
<1>3. level = 0 \/ level = 1 \/ level = 2
  OBVIOUS
<1> DEFINE D == DataBlock(i, b)
           H == HashBlock(j, level, b)
<1>4. D \in Nat /\ H \in Nat /\ (H + b <= D \/ D < H)
  <2>1. CASE b = 1
    <3>1. CASE level = 0
      BY <1>1, <1>2, <2>1, <3>1 DEF Table
    <3>2. CASE level = 1
      BY <1>1, <1>2, <2>1, <3>2 DEF Table
    <3>3. CASE level = 2
      BY <1>1, <1>2, <2>1, <3>3 DEF Table
    <3> QED BY <1>3, <3>1, <3>2, <3>3
  <2>2. CASE b = 2
    <3>1. CASE level = 0
      BY <1>1, <1>2, <2>2, <3>1 DEF Table
    <3>2. CASE level = 1
      BY <1>1, <1>2, <2>2, <3>2 DEF Table
    <3>3. CASE level = 2
      BY <1>1, <1>2, <2>2, <3>3 DEF Table
    <3> QED BY <1>3, <3>1, <3>2, <3>3
  <2> QED BY <2>1, <2>2
<1> HIDE DEF D, H
<1>5. D \notin H .. H + b - 1
  BY <1>4
<1> QED BY <1>5 DEF D, H

LEMMA ChainShows == ChainInv => BlocksAreDistinct /\ TablesAndDataDisjoint
<1> SUFFICES ASSUME ChainInv, chain.at = "located", NEW j \in StfsSample, NEW level \in 0 .. 2
             PROVE  DataBlock(chain.block, chain.tables) \notin
                        HashBlock(j, level, chain.tables) .. HashBlock(j, level, chain.tables) + chain.tables - 1
  BY DEF ChainInv, TablesAndDataDisjoint
<1>1. chain.block \in StfsSample /\ chain.tables \in 1 .. 2
  BY DEF ChainInv, Chains
<1>2. \A i \in StfsSample : i \in Nat /\ i < 170 * 170 * 170
  BY FilesAssumption
<1>3. /\ chain.block \in Nat /\ chain.block < 170 * 170 * 170
      /\ j \in Nat /\ j < 170 * 170 * 170
  BY <1>1, <1>2
<1> QED BY <1>1, <1>3, DataApart

\* A title that waits for its data gets on, and nothing is read twice
\* (render360-guest-vfs.mjs, render360-streaming-source.mjs).
THEOREM ReadsGetOnHolds == FilesSpec => []ReadsGetOn
<1>1. BootInv => RetriesAdvance
  BY DEF BootInv, RetriesAdvance
<1>2. RangeInv => BlocksReadOnce
  BY DEF RangeInv
<1> QED BY <1>1, <1>2, BootStarts, BootKeeps, RangeStarts, RangeKeeps, PTL DEF FilesSpec, ReadsGetOn

\* Whatever a directory or a block table says, walking it takes each entry and
\* each block for what it is (render360-xdvdfs.mjs,
\* render360-stfs-browser-extractor.mjs).
THEOREM TablesAreTreesHolds == FilesSpec => []TablesAreTrees
BY TreeStarts, TreeKeeps, TreeShows, ChainStarts, ChainKeeps, ChainShows, PTL DEF FilesSpec, TablesAreTrees
=============================================================================
