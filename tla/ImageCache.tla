----------------------------- MODULE ImageCache -----------------------------
(***************************************************************************)
(* api.ImageCache: concurrent create requests resolve an image reference   *)
(* to a digest and get the directory that holds its extracted root file    *)
(* system, from disk when it is there and through one extraction per       *)
(* digest otherwise; machine.Manager.Create then clones it.  Directories   *)
(* survive a crash of the server, requests and flights do not.             *)
(***************************************************************************)
EXTENDS Naturals, FiniteSets

CONSTANTS
  Procs,    \* goroutines that serve create requests
  Names,    \* imageName(ref): the repository basename of a reference
  Digests,  \* image digests; a reference may resolve to any (tags move)
  None

ASSUME CacheAssumption == None \notin Procs

Dirs == Names \X Digests

VARIABLES
  pc,        \* where each request is
  dir,       \* the cache directory it computed, <<name, digest>>
  ok,        \* what Ensure is about to return: was there no error?
  flight,    \* singleflight.Group: the goroutine that runs a digest's call
  content,   \* what each cache directory holds
  cloned     \* contents that machines were created from

vars == <<pc, dir, ok, flight, content, cloned>>

(* A partial directory that a crash or a failing RemoveAll left behind is  *)
(* "abandoned"; the code cannot tell it from a complete one.               *)
Contents == {"absent", "partial", "complete", "abandoned"}

(* fn, the body of the call that group.Do makes, and the part of it that   *)
(* writes to the directory.                                                *)
Writing == {"extract", "inject", "resolv", "remove"}
FnPCs == {"recheck", "pull", "mkdir", "finish"} \cup Writing
PCs == {"idle", "resolve", "stat", "join", "follow", "clone"} \cup FnPCs

Goto(p, l) == pc' = [pc EXCEPT ![p] = l]

Exists(d) == content[d] # "absent"

Write(p, c) == content' = [content EXCEPT ![dir[p]] = c]

-----------------------------------------------------------------------------

(* POST /v1/machines with a valid body.                                    *)
CreateMachine(p) ==
  /\ pc[p] = "idle"
  /\ Goto(p, "resolve")
  /\ UNCHANGED <<dir, ok, flight, content, cloned>>

Answer(p) ==
  /\ pc' = [pc EXCEPT ![p] = "idle"]
  /\ dir' = [dir EXCEPT ![p] = None]
  /\ ok' = [ok EXCEPT ![p] = FALSE]

ResolveFailed(p) ==
  /\ pc[p] = "resolve"
  /\ Answer(p)
  /\ UNCHANGED <<flight, content, cloned>>

Resolve(p) ==
  /\ pc[p] = "resolve"
  /\ \E d \in Dirs : dir' = [dir EXCEPT ![p] = d]
  /\ Goto(p, "stat")
  /\ UNCHANGED <<ok, flight, content, cloned>>

(* The look at the directory that takes no lock.                           *)
CacheHit(p) ==
  /\ pc[p] = "stat"
  /\ Exists(dir[p])
  /\ ok' = [ok EXCEPT ![p] = TRUE]
  /\ Goto(p, "clone")
  /\ UNCHANGED <<dir, flight, content, cloned>>

CacheMiss(p) ==
  /\ pc[p] = "stat"
  /\ ~Exists(dir[p])
  /\ Goto(p, "join")
  /\ UNCHANGED <<dir, ok, flight, content, cloned>>

-----------------------------------------------------------------------------
(* group.Do: the first caller of a digest leads, the others wait for it    *)

(* Ensure without its singleflight group.                                  *)
EveryoneLeads(p) ==
  /\ pc[p] = "join"
  /\ flight' = [flight EXCEPT ![dir[p][2]] = p]
  /\ Goto(p, "recheck")
  /\ UNCHANGED <<dir, ok, content, cloned>>

Lead(p) ==
  /\ pc[p] = "join"
  /\ flight[dir[p][2]] = None
  /\ flight' = [flight EXCEPT ![dir[p][2]] = p]
  /\ Goto(p, "recheck")
  /\ UNCHANGED <<dir, ok, content, cloned>>

Follow(p) ==
  /\ pc[p] = "join"
  /\ flight[dir[p][2]] # None
  /\ Goto(p, "follow")
  /\ UNCHANGED <<dir, ok, flight, content, cloned>>

(* fn returns: the flight is over and its error, or nil, goes to all.  A   *)
(* caller without error returns the directory it computed for itself.      *)
Served(p) == {p} \cup {q \in Procs : pc[q] = "follow" /\ dir[q][2] = dir[p][2]}

(* A call that answers its own caller only.                                *)
AnswerLeader(p) ==
  /\ pc[p] = "finish"
  /\ flight' = [flight EXCEPT ![dir[p][2]] = None]
  /\ pc' = [pc EXCEPT ![p] = "clone"]
  /\ UNCHANGED <<dir, ok, content, cloned>>

Finish(p) ==
  /\ pc[p] = "finish"
  /\ flight' = [flight EXCEPT ![dir[p][2]] = None]
  /\ pc' = [q \in Procs |-> IF q \in Served(p) THEN "clone" ELSE pc[q]]
  /\ ok' = [q \in Procs |-> IF q \in Served(p) THEN ok[p] ELSE ok[q]]
  /\ UNCHANGED <<dir, content, cloned>>

-----------------------------------------------------------------------------
(* fn                                                                      *)

Succeed(p) == Goto(p, "finish") /\ ok' = [ok EXCEPT ![p] = TRUE]
Fail(p) == Goto(p, "finish") /\ UNCHANGED ok

RecheckHit(p) ==
  /\ pc[p] = "recheck"
  /\ Exists(dir[p])
  /\ Succeed(p)
  /\ UNCHANGED <<dir, flight, content, cloned>>

(* fn that trusts the look made before group.Do.                           *)
NoRecheck(p) ==
  /\ pc[p] = "recheck"
  /\ Goto(p, "pull")
  /\ UNCHANGED <<dir, ok, flight, content, cloned>>

RecheckMiss(p) ==
  /\ pc[p] = "recheck"
  /\ ~Exists(dir[p])
  /\ Goto(p, "pull")
  /\ UNCHANGED <<dir, ok, flight, content, cloned>>

Pull(p) ==
  /\ pc[p] = "pull"
  /\ \E next \in {"mkdir", "finish"} : Goto(p, next)
  /\ UNCHANGED <<dir, ok, flight, content, cloned>>

(* MkdirAll leaves a directory that exists as it is.                       *)
Mkdir(p) ==
  /\ pc[p] = "mkdir"
  /\ \/ /\ Goto(p, "extract")
        /\ IF Exists(dir[p]) THEN UNCHANGED content ELSE Write(p, "partial")
     \/ Goto(p, "finish") /\ UNCHANGED content
  /\ UNCHANGED <<dir, ok, flight, cloned>>

(* A stage that fills the directory, or fails and leads to RemoveAll.      *)
Stage(p, here, after) ==
  /\ pc[p] = here
  /\ \E next \in {after, "remove"} : Goto(p, next)
  /\ Write(p, "partial")
  /\ UNCHANGED <<dir, ok, flight, cloned>>

(* Directories and links that cannot be made are no errors to extractTar:  *)
(* "complete" is what it took for done.                                    *)
Extract(p) == Stage(p, "extract", "inject")

(* A failed injection that leaves the directory behind.                    *)
InjectWithoutCleanup(p) ==
  /\ pc[p] = "inject"
  /\ \E next \in {"resolv", "finish"} : Goto(p, next)
  /\ UNCHANGED <<dir, ok, flight, content, cloned>>

InjectInit(p) == Stage(p, "inject", "resolv")

FixResolvConf(p) ==
  /\ pc[p] = "resolv"
  /\ \/ Succeed(p) /\ Write(p, "complete")
     \/ Goto(p, "remove") /\ UNCHANGED <<ok, content>>
  /\ UNCHANGED <<dir, flight, cloned>>

(* A failure that is not returned.                                         *)
RemoveAndSucceed(p) ==
  /\ pc[p] = "remove"
  /\ \E c \in {"absent", "abandoned"} : Write(p, c)
  /\ Succeed(p)
  /\ UNCHANGED <<dir, flight, cloned>>

(* RemoveAll's error is not looked at: a directory that the image made     *)
(* read-only stays.                                                        *)
RemoveAll(p) ==
  /\ pc[p] = "remove"
  /\ \E c \in {"absent", "abandoned"} : Write(p, c)
  /\ Fail(p)
  /\ UNCHANGED <<dir, flight, cloned>>

-----------------------------------------------------------------------------

(* Create clones what the directory holds; without one clonefile fails.    *)
Clone(p) ==
  /\ pc[p] = "clone"
  /\ cloned' = IF ok[p] /\ Exists(dir[p])
                 THEN cloned \cup {content[dir[p]]} ELSE cloned
  /\ Answer(p)
  /\ UNCHANGED <<flight, content>>

(* The server dies and is started again on the same cache directory.       *)
Crash ==
  /\ pc' = [p \in Procs |-> "idle"]
  /\ dir' = [p \in Procs |-> None]
  /\ ok' = [p \in Procs |-> FALSE]
  /\ flight' = [d \in Digests |-> None]
  /\ content' = [d \in Dirs |->
                   IF content[d] = "partial" THEN "abandoned" ELSE content[d]]
  /\ UNCHANGED cloned

-----------------------------------------------------------------------------

Init ==
  /\ pc = [p \in Procs |-> "idle"]
  /\ dir = [p \in Procs |-> None]
  /\ ok = [p \in Procs |-> FALSE]
  /\ flight = [d \in Digests |-> None]
  /\ content = [d \in Dirs |-> "absent"]
  /\ cloned = {}

Ensure(p) ==
  \/ Resolve(p) \/ ResolveFailed(p) \/ CacheHit(p) \/ CacheMiss(p)
  \/ Lead(p) \/ Follow(p) \/ Finish(p)
  \/ RecheckHit(p) \/ RecheckMiss(p) \/ Pull(p) \/ Mkdir(p)
  \/ Extract(p) \/ InjectInit(p) \/ FixResolvConf(p) \/ RemoveAll(p)

Next == Crash \/ \E p \in Procs : CreateMachine(p) \/ Ensure(p) \/ Clone(p)

Spec == Init /\ [][Next]_vars

(* Registry, disk and pipe answer or fail: every step of fn ends.          *)
Fairness == \A p \in Procs : WF_vars(Ensure(p) \/ Clone(p))

FairSpec == Spec /\ Fairness

-----------------------------------------------------------------------------

(* Values keep their types; a request past the registry has a directory;   *)
(* and singleflight's table names the one goroutine inside fn per digest,  *)
(* so that no two requests write to one directory.                         *)
TypeOK ==
  /\ pc \in [Procs -> PCs]
  /\ dir \in [Procs -> Dirs \cup {None}]
  /\ ok \in [Procs -> BOOLEAN]
  /\ flight \in [Digests -> Procs \cup {None}]
  /\ content \in [Dirs -> Contents]
  /\ cloned \subseteq Contents
  /\ \A p \in Procs : pc[p] \notin {"idle", "resolve"} => dir[p] \in Dirs
  /\ \A p \in Procs, d \in Digests :
       flight[d] = p <=> pc[p] \in FnPCs /\ dir[p][2] = d

(* image_cache.go:26, "the cached directory is never modified": a complete *)
(* directory stays complete, also when a request that missed it on disk    *)
(* leads a second flight for its digest.                                   *)
CompleteIsFinal ==
  [][\A d \in Dirs : content[d] = "complete" => content'[d] = "complete"]_vars

(* A directory that is not complete is being written by a flight: failures *)
(* leave nothing behind but what a crash or a failing RemoveAll abandons.  *)
PartialIsInFlight ==
  \A d \in Dirs : content[d] = "partial" =>
    \E p \in Procs : pc[p] \in Writing /\ dir[p] = d

(* A follower that is told of a success finds its directory as the flight  *)
(* leaves it, not removed and not half written -- if the leader's is the   *)
(* same one: the flight goes by digest alone, the directory also by name   *)
(* (image_cache.go:58,63).                                                 *)
FollowersGetTheImage ==
  [][\A p, q \in Procs :
       pc[p] = "follow" /\ pc[q] = "finish" /\ dir[q] = dir[p]
       /\ pc'[p] = "clone" /\ ok'[p]
         => content'[dir[p]] \in {"complete", "abandoned"}]_vars

(* Every create request is answered: followers are woken.                  *)
RequestsAnswered == \A p \in Procs : pc[p] # "idle" ~> pc[p] = "idle"

-----------------------------------------------------------------------------

(* image_cache.go:49-50: Ensure returns "the cached rootfs directory",     *)
(* "extracting it if not already present".                                 *)
MachinesGetWholeImages == cloned \subseteq {"complete"}

=============================================================================
