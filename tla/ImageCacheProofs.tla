-------------------------- MODULE ImageCacheProofs --------------------------
(***************************************************************************)
(* For any number of requests, names and digests, with crashes and failing *)
(* RemoveAll: one writer per directory, a complete directory stays         *)
(* complete, and a partial one is in flight.                               *)
(***************************************************************************)
EXTENDS ImageCache, TLAPS

(* What the re-check inside the flight is for: the stages of fn know what  *)
(* the directory holds, since nobody else writes to it.                    *)
Stages ==
  \A p \in Procs :
    /\ pc[p] \in {"pull", "mkdir"} => content[dir[p]] = "absent"
    /\ pc[p] \in Writing => content[dir[p]] = "partial"

IInv == TypeOK /\ Stages

USE CacheAssumption

(* Two requests inside fn for one digest are the same request, so a write  *)
(* to one's directory is not seen by another.                              *)
LEMMA Exclusive ==
  ASSUME TypeOK, NEW p \in Procs, NEW q \in Procs,
         pc[p] \in FnPCs, pc[q] \in FnPCs, dir[p] = dir[q]
  PROVE  p = q
<1>1. dir[p] \in Dirs
  BY DEF TypeOK, FnPCs, Writing
<1>2. dir[p][2] \in Digests
  BY <1>1 DEF Dirs
<1>. QED
  BY <1>2 DEF TypeOK

LEMMA InitInv == Init => IInv
BY DEF Init, IInv, TypeOK, Stages, PCs, FnPCs, Writing, Contents, Dirs

-----------------------------------------------------------------------------

(* Steps that neither enter nor leave fn and write nothing.                *)
LEMMA RequestSteps ==
  ASSUME IInv, NEW p \in Procs,
         \/ CreateMachine(p) \/ ResolveFailed(p) \/ Resolve(p)
         \/ CacheHit(p) \/ CacheMiss(p) \/ Follow(p) \/ Clone(p)
  PROVE  IInv'
<1>. USE DEF IInv, TypeOK, Stages, Goto, Answer, PCs, FnPCs, Writing
<1>1. CASE CreateMachine(p)
  BY <1>1 DEF CreateMachine
<1>2. CASE ResolveFailed(p)
  BY <1>2 DEF ResolveFailed
<1>3. CASE Resolve(p)
  BY <1>3 DEF Resolve
<1>4. CASE CacheHit(p)
  BY <1>4 DEF CacheHit
<1>5. CASE CacheMiss(p)
  BY <1>5 DEF CacheMiss
<1>6. CASE Follow(p)
  BY <1>6 DEF Follow
<1>7. CASE Clone(p)
  <2>1. content[dir[p]] \in Contents
    BY <1>7 DEF Clone
  <2>2. cloned' \subseteq Contents
    BY <1>7, <2>1 DEF Clone
  <2>. QED
    BY <1>7, <2>2 DEF Clone
<1>. QED
  BY <1>1, <1>2, <1>3, <1>4, <1>5, <1>6, <1>7

(* Entering and leaving fn.                                                *)
LEMMA FlightSteps ==
  ASSUME IInv, NEW p \in Procs,
         Lead(p) \/ Finish(p) \/ RecheckHit(p) \/ RecheckMiss(p) \/ Pull(p)
  PROVE  IInv'
<1>. USE DEF IInv, TypeOK, Stages, Goto, PCs, FnPCs, Writing
<1>0. pc[p] \notin {"idle", "resolve"} /\ dir[p] \in Dirs /\ dir[p][2] \in Digests
  BY DEF Lead, Finish, RecheckHit, RecheckMiss, Pull, Dirs
<1>1. CASE Lead(p)
  BY <1>0, <1>1 DEF Lead
<1>2. CASE Finish(p)
  BY <1>0, <1>2 DEF Finish, Served
<1>3. CASE RecheckHit(p)
  BY <1>0, <1>3 DEF RecheckHit, Succeed
<1>4. CASE RecheckMiss(p)
  BY <1>0, <1>4 DEF RecheckMiss, Exists
<1>5. CASE Pull(p)
  BY <1>0, <1>5 DEF Pull
<1>. QED
  BY <1>1, <1>2, <1>3, <1>4, <1>5

(* The stages that write: by Exclusive, no other request inside fn has     *)
(* this directory.                                                         *)
LEMMA WriteSteps ==
  ASSUME IInv, NEW p \in Procs,
         Mkdir(p) \/ Extract(p) \/ InjectInit(p) \/ FixResolvConf(p)
           \/ RemoveAll(p)
  PROVE  IInv'
<1>. DEFINE d == dir[p]
<1>1. /\ pc[p] \in {"mkdir"} \cup Writing
      /\ pc' \in [Procs -> PCs]
      /\ \A q \in Procs \ {p} : pc'[q] = pc[q]
      /\ pc'[p] \in FnPCs
      /\ UNCHANGED <<dir, flight, cloned>>
  BY DEF Mkdir, Extract, InjectInit, FixResolvConf, RemoveAll, Stage, Goto,
         Succeed, Fail, IInv, TypeOK, PCs, FnPCs, Writing
<1>2. d \in Dirs
  BY <1>1 DEF IInv, TypeOK, Writing
<1>3. /\ content' \in [Dirs -> Contents]
      /\ \A e \in Dirs \ {d} : content'[e] = content[e]
      /\ pc'[p] \in Writing => content'[d] = "partial"
      /\ pc'[p] \notin {"pull", "mkdir"}
  BY <1>2 DEF Mkdir, Extract, InjectInit, FixResolvConf, RemoveAll, Stage, Goto,
         Succeed, Fail, Write, Exists, IInv, TypeOK, Stages, Contents, Writing
<1>4. ok' \in [Procs -> BOOLEAN]
  <2>1. ok' = ok \/ \E b \in BOOLEAN : ok' = [ok EXCEPT ![p] = b]
    BY Zenon DEF Mkdir, Extract, InjectInit, FixResolvConf, RemoveAll, Stage,
                 Succeed, Fail
  <2>. QED BY <2>1 DEF IInv, TypeOK
<1>5. TypeOK'
  BY <1>1, <1>3, <1>4 DEF IInv, TypeOK, FnPCs, Writing
<1>6. ASSUME NEW q \in Procs \ {p}, pc[q] \in {"pull", "mkdir"} \cup Writing
      PROVE  dir[q] \in Dirs \ {d}
  BY <1>1, <1>6, Exclusive DEF IInv, TypeOK, FnPCs, Writing
<1>7. Stages'
  BY <1>1, <1>3, <1>6 DEF IInv, Stages, Writing
<1>. QED
  BY <1>5, <1>7 DEF IInv

LEMMA NextInv == IInv /\ [Next]_vars => IInv'
<1>. SUFFICES ASSUME IInv, [Next]_vars PROVE IInv'
  OBVIOUS
<1>1. CASE Crash
  BY <1>1 DEF Crash, IInv, TypeOK, Stages, PCs, FnPCs, Writing, Contents
<1>2. ASSUME NEW p \in Procs, CreateMachine(p) \/ Ensure(p) \/ Clone(p)
      PROVE  IInv'
  BY <1>2, RequestSteps, FlightSteps, WriteSteps DEF Ensure
<1>3. CASE UNCHANGED vars
  BY <1>3 DEF vars, IInv, TypeOK, Stages
<1>. QED
  BY <1>1, <1>2, <1>3 DEF Next

-----------------------------------------------------------------------------

(* Types, and singleflight's table names the one goroutine inside fn.      *)
THEOREM TypeCorrect == Spec => []TypeOK
<1>1. IInv => TypeOK
  BY DEF IInv
<1>. QED
  BY <1>1, InitInv, NextInv, PTL DEF Spec

(* A complete cache directory is never modified (image_cache.go:26).       *)
THEOREM CompleteStays == Spec => CompleteIsFinal
<1>1. IInv /\ [Next]_vars =>
        \A d \in Dirs : content[d] = "complete" => content'[d] = "complete"
  <2>. SUFFICES ASSUME IInv, [Next]_vars, NEW d \in Dirs, content[d] = "complete"
                PROVE  content'[d] = "complete"
    OBVIOUS
  <2>1. ASSUME NEW p \in Procs, pc[p] \in {"mkdir"} \cup Writing
        PROVE  dir[p] # d
    BY <2>1 DEF IInv, Stages
  <2>2. ASSUME NEW p \in Procs, CreateMachine(p) \/ Ensure(p) \/ Clone(p)
        PROVE  content'[d] = "complete"
    BY <2>1, <2>2
       DEF IInv, TypeOK, CreateMachine, Clone, Answer, Ensure, Resolve,
           ResolveFailed, CacheHit, CacheMiss, Lead, Follow, Finish, RecheckHit,
           RecheckMiss, Pull, Mkdir, Extract, InjectInit, FixResolvConf,
           RemoveAll, Stage, Write, Writing
  <2>. QED
    BY <2>2 DEF Next, Crash, vars
<1>. QED
  BY <1>1, InitInv, NextInv, PTL DEF Spec, CompleteIsFinal

(* A directory that is not complete has a request that is writing it:      *)
(* failures tidy up after themselves (image_cache.go:82-95), and leave     *)
(* nothing but what a crash or a failing RemoveAll abandons.               *)
THEOREM FailuresTidyUp == Spec => []PartialIsInFlight
<1>1. Init => PartialIsInFlight
  BY DEF Init, PartialIsInFlight
<1>2. ASSUME IInv, PartialIsInFlight, [Next]_vars PROVE PartialIsInFlight'
  <2>. SUFFICES ASSUME NEW d \in Dirs, content'[d] = "partial"
                PROVE  \E q \in Procs : pc'[q] \in Writing /\ dir'[q] = d
    BY DEF PartialIsInFlight
  <2>1. CASE content[d] = "partial"
    <3>1. PICK q \in Procs : pc[q] \in Writing /\ dir[q] = d
      BY <1>2, <2>1 DEF PartialIsInFlight
    <3>2. SUFFICES ASSUME pc'[q] \notin Writing \/ dir'[q] # d PROVE FALSE
      OBVIOUS
    <3>3. PICK p \in Procs : CreateMachine(p) \/ Ensure(p) \/ Clone(p)
      BY <1>2, <3>1, <3>2 DEF Next, Crash, vars
    <3>4. p = q
      BY <1>2, <3>1, <3>2, <3>3
         DEF IInv, TypeOK, Goto, Answer, CreateMachine, Clone, Ensure, Resolve,
             ResolveFailed, CacheHit, CacheMiss, Lead, Follow, Finish, Served,
             RecheckHit, RecheckMiss, Pull, Mkdir, Extract, InjectInit,
             FixResolvConf, RemoveAll, Stage, Succeed, Fail, Writing
    <3>5. content'[d] # "partial"
      BY <1>2, <3>1, <3>2, <3>3, <3>4
         DEF IInv, TypeOK, Goto, Answer, CreateMachine, Clone, Ensure, Resolve,
             ResolveFailed, CacheHit, CacheMiss, Lead, Follow, Finish, Served,
             RecheckHit, RecheckMiss, Pull, Mkdir, Extract, InjectInit, Write,
             FixResolvConf, RemoveAll, Stage, Succeed, Fail, Writing
    <3>. QED
      BY <3>5
  <2>2. CASE content[d] # "partial"
    <3>1. PICK p \in Procs : /\ Mkdir(p) \/ Extract(p) \/ InjectInit(p)
                              \/ FixResolvConf(p) \/ RemoveAll(p)
                             /\ content' # content
      BY <1>2, <2>2
         DEF Next, Crash, vars, CreateMachine, Clone, Ensure, Resolve,
             ResolveFailed, CacheHit, CacheMiss, Lead, Follow, Finish,
             RecheckHit, RecheckMiss, Pull
    <3>2. content[dir[p]] = "partial" \/ pc[p] = "mkdir"
      BY <1>2, <3>1 DEF IInv, Stages, Writing, Extract, InjectInit,
         FixResolvConf, RemoveAll, Mkdir, Stage
    <3>3. dir[p] = d /\ pc[p] = "mkdir"
      BY <1>2, <2>2, <3>1, <3>2 DEF IInv, TypeOK, Mkdir, Extract, InjectInit,
         FixResolvConf, RemoveAll, Stage, Write
    <3>. QED
      BY <1>2, <3>1, <3>3 DEF IInv, TypeOK, Mkdir, Extract, InjectInit,
         FixResolvConf, RemoveAll, Stage, Goto, Writing
  <2>. QED
    BY <2>1, <2>2
<1>3. IInv /\ PartialIsInFlight /\ [Next]_vars => PartialIsInFlight'
  BY <1>2
<1>. QED
  BY <1>1, <1>3, InitInv, NextInv, PTL DEF Spec

(* fn returns no error only for a directory that it found or completed.    *)
Outcome ==
  \A p \in Procs :
    /\ pc[p] \notin {"finish", "clone"} => ok[p] = FALSE
    /\ pc[p] = "finish" /\ ok[p] = TRUE =>
         content[dir[p]] \in {"complete", "abandoned"}

LEMMA Found ==
  ASSUME IInv, PartialIsInFlight, NEW p \in Procs, RecheckHit(p)
  PROVE  content[dir[p]] \in {"complete", "abandoned"}
<1>1. dir[p] \in Dirs /\ pc[p] \in FnPCs \ Writing
  BY DEF IInv, TypeOK, RecheckHit, FnPCs, Writing
<1>2. content[dir[p]] # "partial"
  BY <1>1, Exclusive DEF IInv, PartialIsInFlight, FnPCs
<1>. QED
  BY <1>1, <1>2 DEF IInv, TypeOK, RecheckHit, Exists, Contents

LEMMA OutcomeInv ==
  IInv /\ PartialIsInFlight /\ Outcome /\ [Next]_vars => Outcome'
<1>. SUFFICES ASSUME IInv, PartialIsInFlight, Outcome, [Next]_vars, NEW q \in Procs
              PROVE  /\ pc'[q] \notin {"finish", "clone"} => ok'[q] = FALSE
                     /\ pc'[q] = "finish" /\ ok'[q] = TRUE =>
                          content'[dir'[q]] \in {"complete", "abandoned"}
  BY DEF Outcome
<1>. USE DEF IInv, TypeOK, Outcome
<1>1. CASE Crash \/ UNCHANGED vars
  BY <1>1 DEF Crash, vars
<1>2. ASSUME NEW p \in Procs,
             \/ CreateMachine(p) \/ ResolveFailed(p) \/ Resolve(p)
             \/ CacheHit(p) \/ CacheMiss(p) \/ Follow(p) \/ Clone(p)
             \/ Lead(p) \/ Finish(p) \/ RecheckMiss(p) \/ Pull(p)
      PROVE  /\ pc'[q] \notin {"finish", "clone"} => ok'[q] = FALSE
             /\ pc'[q] = "finish" /\ ok'[q] = TRUE =>
                  content'[dir'[q]] \in {"complete", "abandoned"}
  BY <1>2 DEF CreateMachine, ResolveFailed, Resolve, CacheHit, CacheMiss, Follow,
     Clone, Lead, Finish, Served, RecheckMiss, Pull, Goto, Answer
<1>3. ASSUME NEW p \in Procs,
             \/ RecheckHit(p) \/ Mkdir(p) \/ Extract(p) \/ InjectInit(p)
             \/ FixResolvConf(p) \/ RemoveAll(p)
      PROVE  /\ pc'[q] \notin {"finish", "clone"} => ok'[q] = FALSE
             /\ pc'[q] = "finish" /\ ok'[q] = TRUE =>
                  content'[dir'[q]] \in {"complete", "abandoned"}
  <2>1. CASE q = p
    BY <1>3, <2>1, Found DEF RecheckHit, Mkdir, Extract, InjectInit, FixResolvConf,
       RemoveAll, Stage, Goto, Succeed, Fail, Write
  <2>2. CASE q # p
    <3>1. pc'[q] = pc[q] /\ ok'[q] = ok[q] /\ dir' = dir
      BY <1>3, <2>2 DEF RecheckHit, Mkdir, Extract, InjectInit, FixResolvConf,
         RemoveAll, Stage, Goto, Succeed, Fail
    <3>2. CASE pc[q] = "finish" /\ ok[q] = TRUE
      <4>1. pc[p] \in FnPCs
        BY <1>3 DEF RecheckHit, Mkdir, Extract, InjectInit, FixResolvConf,
           RemoveAll, Stage, FnPCs, Writing
      <4>2. dir[q] # dir[p]
        BY <2>2, <3>2, <4>1, Exclusive DEF FnPCs
      <4>3. dir[q] \in Dirs
        BY <3>2
      <4>4. content'[dir[q]] = content[dir[q]]
        BY <1>3, <4>2, <4>3 DEF RecheckHit, Mkdir, Extract, InjectInit,
           FixResolvConf, RemoveAll, Stage, Write
      <4>. QED
        BY <3>1, <3>2, <4>4
    <3>. QED
      BY <3>1, <3>2
  <2>. QED
    BY <2>1, <2>2
<1>. QED
  BY <1>1, <1>2, <1>3 DEF Next, Ensure

(* Followers get the directory that the flight they waited for has left    *)
(* (image_cache.go:63-103).                                                *)
THEOREM FollowersShare == Spec => FollowersGetTheImage
<1>1. Init => Outcome
  BY DEF Init, Outcome
<1>2. Spec => []Outcome
  BY <1>1, OutcomeInv, InitInv, NextInv, FailuresTidyUp, PTL DEF Spec
<1>3. IInv /\ Outcome /\ [Next]_vars =>
        \A p, q \in Procs :
          pc[p] = "follow" /\ pc[q] = "finish" /\ dir[q] = dir[p]
          /\ pc'[p] = "clone" /\ ok'[p]
            => content'[dir[p]] \in {"complete", "abandoned"}
  <2>. SUFFICES ASSUME IInv, Outcome, [Next]_vars, NEW p \in Procs, NEW q \in Procs,
                       pc[p] = "follow", pc[q] = "finish", dir[q] = dir[p],
                       pc'[p] = "clone", ok'[p]
                PROVE  content'[dir[p]] \in {"complete", "abandoned"}
    OBVIOUS
  <2>1. PICK r \in Procs : Finish(r) /\ p \in Served(r)
    BY DEF IInv, TypeOK, Next, vars, Crash, Ensure, CreateMachine,
       ResolveFailed, Resolve, CacheHit, CacheMiss, Follow, Clone, Lead, Finish,
       RecheckHit, RecheckMiss, Pull, Mkdir, Extract, InjectInit, FixResolvConf,
       RemoveAll, Stage, Goto, Answer, Succeed, Fail
  <2>2. ok[r] = TRUE /\ content' = content
    BY <2>1 DEF Finish, IInv, TypeOK
  <2>3. dir[r][2] = dir[q][2] /\ dir[q] \in Dirs
    BY <2>1 DEF Served, Finish, IInv, TypeOK
  <2>4. r = q
    BY <2>1, <2>3 DEF Finish, IInv, TypeOK, FnPCs, Dirs
  <2>. QED
    BY <2>2, <2>4 DEF Outcome
<1>. QED
  BY <1>2, <1>3, InitInv, NextInv, PTL DEF Spec, FollowersGetTheImage

=============================================================================
