---------------------------- MODULE OfflineCache ----------------------------
(***************************************************************************)
(* The service worker of the deployed page (runtime/sw.js).  The site is    *)
(* redeployed release by release, the link goes down and comes back, the    *)
(* server may answer with an error, and the browser stops a worker whenever *)
(* no event holds it.  A response is the release it comes from and whether  *)
(* it is a good one.                                                        *)
(***************************************************************************)
EXTENDS Naturals, Sequences, FiniteSets, SequencesExt

CONSTANTS
  SHELL,        \* the files that are stored with a worker
  AppFiles,     \* those a page opened at "./" asks for: itself, its scripts
  Others,       \* other files of the site
  Fallback,     \* "./index.html"
  ScriptOf,     \* release -> its sw.js
  CacheOf,      \* release -> CACHE in that sw.js
  NoResponse,
  MaxLate,      \* bound of the model: responses waiting to be stored
  MaxFaults     \* bound of the model: outages, errors, lost work

Releases  == DOMAIN CacheOf
CacheNames == {CacheOf[r] : r \in Releases}
SiteFiles  == SHELL \cup Others
Responses  == [from : Releases, ok : BOOLEAN]

(* The name of the cache is part of the script. *)
ASSUME OfflineAssumption ==
  /\ Fallback \in SHELL /\ AppFiles \subseteq SHELL
  /\ CacheOf \in Seq(STRING) /\ CacheOf # <<>> /\ DOMAIN ScriptOf = Releases
  /\ NoResponse \notin Responses
  /\ \A i, j \in Releases : ScriptOf[i] = ScriptOf[j] => CacheOf[i] = CacheOf[j]

VARIABLES
  site,      \* the release the server has
  online,
  active,    \* the release whose worker is in control, 0 before there is one
  coming,    \* the release whose worker is being installed, 0 if none is
  fetched,   \* what addAll has: file -> release
  stored,    \* addAll is done
  caches,    \* names of the caches, in the order they were opened
  held,      \* cache -> file -> response, or NoResponse
  late,      \* responses still to be put: [cache, file, response]
  faults

offlineVars == <<site, online, active, coming, fetched, stored, caches, held, late, faults>>
workerVars == <<active, coming, fetched, stored>>

Good(release) == [from |-> release, ok |-> TRUE]
Bad(release)  == [from |-> release, ok |-> FALSE]
Nothing == [f \in SiteFiles |-> NoResponse]
NoFiles == [f \in {} |-> 0]

Fault == faults < MaxFaults /\ faults' = faults + 1
NoFault == UNCHANGED faults

(* caches.open(name) *)
Opened(name) == IF Contains(caches, name) THEN caches ELSE Append(caches, name)

(* caches.match(f): the oldest cache that has it. *)
Match(f) ==
  LET having == {i \in DOMAIN caches : held[caches[i]][f] # NoResponse}
  IN IF having = {} THEN NoResponse ELSE held[caches[Min(having)]][f]

(* What a page under the worker gets without a network. *)
OfflineAnswer(f) == IF Match(f) # NoResponse THEN Match(f) ELSE Match(Fallback)

OfflineInit ==
  /\ site = 1 /\ online = TRUE
  /\ active = 0 /\ coming = 0 /\ fetched = NoFiles /\ stored = FALSE
  /\ caches = <<>> /\ held = [n \in CacheNames |-> Nothing]
  /\ late = {} /\ faults = 0

----------------------------------------------------------------------------
(* The surroundings *)

Deploy ==
  /\ site < Len(CacheOf) /\ site' = site + 1
  /\ UNCHANGED <<online, workerVars, caches, held, late, faults>>

GoOffline ==
  /\ online /\ online' = FALSE /\ Fault
  /\ UNCHANGED <<site, workerVars, caches, held, late>>

GoOnline ==
  /\ ~online /\ online' = TRUE /\ NoFault
  /\ UNCHANGED <<site, workerVars, caches, held, late>>

----------------------------------------------------------------------------
(* install *)

(* register, or the browser finds that a byte of sw.js has changed: the      *)
(* worker's cache is opened, which may be that of the worker in control, and *)
(* addAll begins.                                                           *)
Register ==
  /\ online /\ coming = 0
  /\ active # 0 => ScriptOf[active] # ScriptOf[site]
  /\ coming' = site /\ fetched' = NoFiles
  /\ caches' = Opened(CacheOf[site])
  /\ UNCHANGED <<site, online, active, stored, held, late>> /\ NoFault

(* addAll gets one of its files. *)
FetchForShell(f) ==
  /\ coming # 0 /\ ~stored /\ online /\ f \notin DOMAIN fetched
  /\ fetched' = [g \in DOMAIN fetched \cup {f} |-> IF g = f THEN site ELSE fetched[g]]
  /\ UNCHANGED <<site, online, active, coming, stored, caches, held, late>> /\ NoFault

(* One file does not come, or comes with an error: addAll rejects, the       *)
(* install fails and the worker is thrown away.                             *)
InstallFails(f) ==
  /\ coming # 0 /\ ~stored /\ f \notin DOMAIN fetched
  /\ IF online THEN Fault ELSE NoFault
  /\ coming' = 0 /\ fetched' = NoFiles
  /\ UNCHANGED <<site, online, active, stored, caches, held, late>>

(* The files are stored together, and skipWaiting is called. *)
Install ==
  /\ coming # 0 /\ ~stored /\ DOMAIN fetched = SHELL
  /\ stored' = TRUE
  /\ held' = [held EXCEPT ![CacheOf[coming]] =
                [f \in SiteFiles |-> IF f \in SHELL THEN Good(fetched[f]) ELSE @[f]]]
  /\ UNCHANGED <<site, online, active, coming, fetched, caches, late>> /\ NoFault

(* Mutant: the other caches stay. *)
ActivateKeepsAll ==
  /\ coming # 0 /\ stored
  /\ active' = coming /\ coming' = 0 /\ fetched' = NoFiles /\ stored' = FALSE
  /\ UNCHANGED <<site, online, caches, held, late>> /\ NoFault

(* activate: the other caches are deleted and the open pages taken over. *)
Activate ==
  /\ coming # 0 /\ stored
  /\ active' = coming /\ coming' = 0 /\ fetched' = NoFiles /\ stored' = FALSE
  /\ caches' = <<CacheOf[coming]>>
  /\ held' = [n \in CacheNames |-> IF n = CacheOf[coming] THEN held[n] ELSE Nothing]
  /\ UNCHANGED <<site, online, late>> /\ NoFault

----------------------------------------------------------------------------
(* fetch *)

(* Mutant: what is in the cache is answered from it. *)
FetchIfMissing(f, response) ==
  /\ active # 0 /\ online
  /\ Cardinality(late) < MaxLate
  /\ IF Match(f) = NoResponse
     THEN /\ late' = late \cup {[cache |-> CacheOf[active], file |-> f, response |-> response]}
          /\ IF response.ok THEN NoFault ELSE Fault
     ELSE UNCHANGED <<late, faults>>
  /\ UNCHANGED <<site, online, workerVars, caches, held>>

(* The server answers a page's GET: the page has the answer, an error page   *)
(* included, and a copy of it is on its way into the worker's cache.         *)
Fetch(f, response) ==
  /\ active # 0 /\ online
  /\ Cardinality(late) < MaxLate
  /\ late' = late \cup {[cache |-> CacheOf[active], file |-> f, response |-> response]}
  /\ IF response.ok THEN NoFault ELSE Fault
  /\ UNCHANGED <<site, online, workerVars, caches, held>>

(* caches.open(CACHE).then(put): nobody waits for it, so that it may come    *)
(* after a newer response, or after the cache was deleted.                   *)
Put(p) ==
  /\ p \in late /\ late' = late \ {p}
  /\ caches' = Opened(p.cache)
  /\ held' = [held EXCEPT ![p.cache][p.file] = p.response]
  /\ UNCHANGED <<site, online, workerVars>> /\ NoFault

(* The worker is stopped before. *)
Lose(p) ==
  /\ p \in late /\ late' = late \ {p} /\ Fault
  /\ UNCHANGED <<site, online, workerVars, caches, held>>

OfflineNext ==
  \/ Deploy \/ GoOffline \/ GoOnline
  \/ Register \/ Install \/ Activate
  \/ \E f \in SHELL : FetchForShell(f) \/ InstallFails(f)
  \/ \E f \in SiteFiles : Fetch(f, Good(site)) \/ Fetch(f, Bad(site))
  \/ \E p \in late : Put(p) \/ Lose(p)

(* The link comes back, the browser does its part of an installation and     *)
(* looks for a new worker, and the app is opened again and again at "./",    *)
(* where the manifest starts it.                                            *)
OfflineFairness ==
  /\ WF_offlineVars(GoOnline)
  /\ WF_offlineVars(Register) /\ WF_offlineVars(Install) /\ WF_offlineVars(Activate)
  /\ \A f \in SHELL : WF_offlineVars(FetchForShell(f))
  /\ \A f \in AppFiles : SF_offlineVars(Fetch(f, Good(site)))
  /\ \A f \in SiteFiles : WF_offlineVars(\E p \in late : p.file = f /\ Put(p))

OfflineSpec == OfflineInit /\ [][OfflineNext]_offlineVars /\ OfflineFairness

----------------------------------------------------------------------------
(* Once a worker is in control, every file of the app has an answer without  *)
(* a network, and none from before the first release whose cache has the     *)
(* name of this worker's: neither a failed installation, nor an installation *)
(* over the cache in use, nor a response of the worker before that is stored *)
(* after its cache was deleted, nor the order of the caches brings an older  *)
(* file back.                                                               *)
ShellIsAnswered ==
  active # 0 => \A f \in SHELL :
    /\ Match(f) # NoResponse
    /\ \E r \in 1..Match(f).from : CacheOf[r] = CacheOf[active]

(* "no stale caching" (sw.js:2): once the deployments and the faults are     *)
(* over, what the app that is opened at "./" has for the next time without a *)
(* network is the last release, whole and without errors.  It is not said of *)
(* "./index.html", which nothing asks for.                                   *)
EventuallyCurrent ==
  <>[](active # 0 /\ \A f \in AppFiles : Match(f) = Good(site))

(* "fully usable offline after the first visit" (sw.js:2-3): no file of the  *)
(* app is answered with an error.                                            *)
UsableOffline ==
  active # 0 => \A f \in SHELL : OfflineAnswer(f).ok

=============================================================================
