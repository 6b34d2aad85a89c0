--------------------------- MODULE BrowserFeatures ---------------------------
(***************************************************************************)
(* What the page asks of the browser while a game runs                     *)
(* (src/render360-browser-features.mjs): a screen wake lock, the service   *)
(* worker, full screen and orientation.  Every request is answered later,  *)
(* when the player may have moved on; nothing numbers the requests.        *)
(***************************************************************************)
EXTENDS Integers, FiniteSets

CONSTANTS
    MaxLocks,    \* bound on the wake lock requests
    MaxToggles   \* bound on the changes of a setting and on the reloads

VARIABLES
    page,    \* what the player sees and has set
    wake,    \* the wake locks, and the one the page knows
    worker,  \* the service worker's registration, and what the page knows of it
    screen   \* the full screen and orientation requests of the play button

featureVars == <<page, wake, worker, screen>>

NoLock == 0
WorkerJob(kind) == [kind |-> kind, at |-> "asked"]

FeaturesInit ==
    /\ page \in [active : {FALSE}, visible : {TRUE}, keepAwake : BOOLEAN, serviceWorker : BOOLEAN,
                 changes : {0}]
    /\ wake = [tracked |-> NoLock, held |-> {}, asking |-> {}, releasing |-> {}, made |-> 0,
               crossed |-> FALSE]
    /\ worker = [registered |-> page.serviceWorker, tracked |-> FALSE, shown |-> FALSE,
                 jobs |-> IF page.serviceWorker THEN {WorkerJob("ensure")} ELSE {}, crossed |-> FALSE]
    /\ screen = [full |-> "no", landscape |-> "no"]

-----------------------------------------------------------------------------
(* The wake lock *)

(* acquireWakeLock: the page knows the lock it was given, not the one it    *)
(* has asked for.  A request that meets another one, or a release, has      *)
(* crossed it.                                                              *)
Acquire(w, p) ==
    IF ~p.keepAwake \/ ~p.visible \/ w.made = MaxLocks THEN w
    ELSE IF w.tracked # NoLock THEN [w EXCEPT !.crossed = @ \/ w.releasing # {}]
    ELSE [w EXCEPT !.made = @ + 1, !.asking = @ \cup {w.made + 1},
                   !.crossed = @ \/ w.asking # {} \/ w.releasing # {}]

(* releaseWakeLock *)
Release(w) ==
    [w EXCEPT !.releasing = @ \cup ({w.tracked} \ {NoLock}), !.crossed = @ \/ w.asking # {}]

(* The release listener of any lock, and releaseWakeLock after its await,   *)
(* forget the lock the page knows.                                          *)
SentinelReleased(id) ==
    /\ wake' = [wake EXCEPT !.releasing = @ \ {id}, !.held = @ \ {id}, !.tracked = NoLock]
    /\ UNCHANGED <<page, worker, screen>>

SentinelAnswered(id, granted) ==
    /\ wake' = IF granted
               THEN [wake EXCEPT !.asking = @ \ {id}, !.held = @ \cup {id}, !.tracked = id]
               ELSE [wake EXCEPT !.asking = @ \ {id}]
    /\ UNCHANGED <<page, worker, screen>>

-----------------------------------------------------------------------------
(* The service worker *)

Started(w, kind) ==
    [w EXCEPT !.jobs = @ \cup {WorkerJob(kind)}, !.crossed = @ \/ w.jobs # {}]

(* ensureServiceWorker *)
Ensured(w, ok) == IF ok THEN [w EXCEPT !.registered = TRUE, !.tracked = TRUE] ELSE w

(* unregisterRender360ServiceWorkers *)
Unregistered(w) == [w EXCEPT !.registered = FALSE, !.tracked = FALSE]

WorkerAnswers(job, ok) ==
    /\ job.at = "asked"
    /\ worker' = [(IF job.kind = "ensure" THEN Ensured(worker, ok) ELSE Unregistered(worker))
                    EXCEPT !.jobs = (@ \ {job}) \cup {[job EXCEPT !.at = "done"]}]
    /\ UNCHANGED <<page, wake, screen>>

(* probeCapabilities: what the settings show of the registration.           *)
Probed(w) == [w EXCEPT !.shown = w.tracked]

WorkerProbed(job) ==
    /\ job.at = "done"
    /\ worker' = Probed([worker EXCEPT !.jobs = @ \ {job}])
    /\ UNCHANGED <<page, wake, screen>>

-----------------------------------------------------------------------------
(* The player *)

(* The change handler of a switch: a lock is given back, never asked for.   *)
Toggle(pref) ==
    /\ page.changes < MaxToggles
    /\ page' = [page EXCEPT ![pref] = ~@, !.changes = @ + 1]
    /\ IF pref = "serviceWorker"
       THEN /\ worker' = Started(worker, IF page'.serviceWorker THEN "ensure" ELSE "unregister")
            /\ UNCHANGED wake
       ELSE /\ wake' = IF page'.keepAwake THEN wake ELSE Release(wake)
            /\ worker' = Probed(worker)
    /\ UNCHANGED screen

(* The play button: full screen first, the orientation once it is settled.  *)
Asked == [full |-> "first", landscape |-> "waits"]

(* The button's own listener asks for a lock; the state the same click puts *)
(* the page in is observed before the browser has answered.                 *)
Play ==
    /\ ~page.active
    /\ page' = [page EXCEPT !.active = TRUE]
    /\ wake' = Acquire(Acquire(wake, page), page)
    /\ screen' = Asked
    /\ UNCHANGED worker

(* requestFullscreenForGame: with options, then without.                    *)
FullscreenAnswers(ok) ==
    /\ screen.full \in {"first", "second"}
    /\ screen' = IF ok \/ screen.full = "second"
                 THEN [full |-> IF ok THEN "yes" ELSE "no", landscape |-> "asked"]
                 ELSE [screen EXCEPT !.full = "second"]
    /\ UNCHANGED <<page, wake, worker>>

FaultyObserved(w, p) == Acquire(w, p)
(* The observer of the page's state *)
Observed(w, p) == IF p.active THEN Acquire(w, p) ELSE Release(w)

GameChanges(active) ==
    /\ page.active
    /\ page' = [page EXCEPT !.active = active]
    /\ wake' = Observed(wake, page')
    /\ UNCHANGED <<worker, screen>>

(* The visibilitychange listener.  The browser takes every lock of a hidden *)
(* page and refuses what it asked for; nothing is left to cross.            *)
Hide ==
    /\ page.visible
    /\ page' = [page EXCEPT !.visible = FALSE]
    /\ wake' = [wake EXCEPT !.tracked = NoLock, !.held = {}, !.releasing = {}, !.asking = {},
                            !.crossed = FALSE]
    /\ UNCHANGED <<worker, screen>>

Show ==
    /\ ~page.visible
    /\ page' = [page EXCEPT !.visible = TRUE]
    /\ wake' = IF page.active THEN Acquire(wake, page') ELSE wake
    /\ worker' = Probed(worker)
    /\ UNCHANGED screen

(* The page is loaded again: boot.                                          *)
Reload ==
    /\ page.changes < MaxToggles
    /\ page' = [page EXCEPT !.active = FALSE, !.visible = TRUE, !.changes = @ + 1]
    /\ wake' = [wake EXCEPT !.tracked = NoLock, !.held = {}, !.asking = {}, !.releasing = {},
                            !.crossed = FALSE]
    /\ worker' = [worker EXCEPT !.tracked = FALSE, !.shown = FALSE, !.crossed = @ \/ worker.jobs # {},
                                !.jobs = IF page.serviceWorker THEN {WorkerJob("ensure")} ELSE {}]
    /\ screen' = [full |-> "no", landscape |-> "no"]

FeaturesNext ==
    \/ \E id \in wake.releasing : SentinelReleased(id)
    \/ \E id \in wake.asking, granted \in BOOLEAN : SentinelAnswered(id, granted)
    \/ \E job \in worker.jobs : WorkerProbed(job) \/ \E ok \in BOOLEAN : WorkerAnswers(job, ok)
    \/ \E pref \in {"keepAwake", "serviceWorker"} : Toggle(pref)
    \/ Play
    \/ \E ok \in BOOLEAN : FullscreenAnswers(ok)
    \/ \E active \in BOOLEAN : GameChanges(active)
    \/ Hide \/ Show \/ Reload

-----------------------------------------------------------------------------
(* Out of a game, or when the player does not want it, no lock keeps the    *)
(* screen on, once the browser has answered and unless, since the page was  *)
(* last hidden, one request crossed another or a release.                   *)
ScreenMaySleep ==
    /\ wake.asking = {} /\ wake.releasing = {} /\ ~wake.crossed
    /\ ~page.active \/ ~page.keepAwake
    => wake.held = {}

(* A service worker stays registered only if the player wants it, and the   *)
(* settings show what the page knows, once every change has taken effect    *)
(* and unless one was made while another still had to.                      *)
SettingIsApplied ==
    worker.jobs = {} /\ ~worker.crossed =>
        /\ worker.registered => page.serviceWorker
        /\ worker.tracked => worker.registered
        /\ worker.shown = worker.tracked

(* The orientation is locked when the full screen request is settled, which *)
(* some browsers require.                                                   *)
LandscapeAfterFullscreen ==
    screen.landscape = "asked" => screen.full \notin {"first", "second"}

\* The browser does what the player wanted last, once it has answered.
BrowserFollows == ScreenMaySleep /\ SettingIsApplied /\ LandscapeAfterFullscreen
=============================================================================
