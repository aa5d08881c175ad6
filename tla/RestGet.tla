------------------------------ MODULE RestGet ------------------------------
(***************************************************************************)
(* vbr.Get (client.go) and the per-session cache and single-flight table   *)
(* it uses (session.go): the only way the explorer reads a VBR server.     *)
(*                                                                         *)
(* Getters are the goroutines inside Get at the same time: HTTP handlers   *)
(* and the lanes they fan out.  A body is abstracted to the version of the *)
(* resource it shows; VBR (outside the program) moves a resource from one  *)
(* version to the next.  fetchOnce is one exchange that ends with a body   *)
(* or an error; TokenRenewal models what happens inside it.                *)
(*                                                                         *)
(* Time passes in ticks.  Instead of time stamps the model keeps ages, so  *)
(* the state is finite: cache[p].age is time.Since(e.at).                  *)
(***************************************************************************)
EXTENDS Naturals

CONSTANTS
  Getters,      \* goroutines that call Get
  Paths,        \* REST paths
  Cacheable,    \* the paths cacheable() accepts
  NoGetter,     \* no call in flight for a path
  NoPath,       \* the path of a getter outside Get
  CacheTTL,     \* cacheTTL, in ticks
  StaleTTL,     \* staleTTL, in ticks
  Budget,       \* budgetFor(path), in ticks
  MaxVersion    \* bound: VBR changes a resource at most MaxVersion - 1 times

ASSUME PathsAssumption == Cacheable \subseteq Paths /\ NoPath \notin Paths
ASSUME GettersAssumption == NoGetter \notin Getters
ASSUME TimesAssumption ==
  /\ CacheTTL \in Nat /\ StaleTTL \in Nat /\ Budget \in Nat \ {0}
  /\ CacheTTL <= StaleTTL
ASSUME VersionsAssumption == MaxVersion \in Nat \ {0}

VARIABLES
  pc,        \* where each getter is in Get
  path,      \* the path it asks for
  call,      \* the leader whose result a waiting getter will take
  reply,     \* what the getter is about to return
  waited,    \* ticks the running doGet has used of its budget
  cache,     \* Session.cache: the last body put and its age
  inflight,  \* Session.inflight: the getter that leads the call, if any
  version,   \* what VBR holds (external)
  seen,      \* history: the newest version a finished Get has returned
  floor,     \* history: seen[path] when the Get began
  got        \* history: what the last Get of each getter returned, 0 if it failed

vars == <<pc, path, call, reply, waited, cache, inflight, version, seen, floor, got>>

Versions == 1..MaxVersion
Errors == {"timeout", "failed"}

\* Ages stop counting beyond every bound anything is compared with.
AgeCap == StaleTTL + Budget + 1
Ages == 0..AgeCap
Older(a) == IF a < AgeCap THEN a + 1 ELSE a

\* ver = 0 is "no entry".  age counts from cachePut; data counts from the
\* moment VBR read the resource, the age of the information itself.
Entry == [ver : 0..MaxVersion, age : Ages, data : Ages]
NoEntry == [ver |-> 0, age |-> 0, data |-> 0]

\* cause: the error a stale copy was served in place of, or "none".
Reply == [err : {"ok"} \cup Errors, ver : 0..MaxVersion, data : Ages,
          cause : {"none"} \cup Errors]
NoReply == [err |-> "ok", ver |-> 0, data |-> 0, cause |-> "none"]

Newer(v, w) == IF v < w THEN w ELSE v

Answered(v) == [err |-> "ok", ver |-> v, data |-> 0, cause |-> "none"]
Failed(e) == [err |-> e, ver |-> 0, data |-> 0, cause |-> "none"]
Copied(e, cause) == [err |-> "ok", ver |-> e.ver, data |-> e.data, cause |-> cause]

\* doGet has sent its request: the first one, or the one after a renewal.
Asking == {"fetch", "retry"}

\* The leader of a path, from joinOrLead until leadDone removes its call.
Flying == Asking \cup {"transit", "settle", "delete"}

PCs == Flying \cup {"idle", "check", "join", "close", "wait", "return"}

Init ==
  /\ pc = [g \in Getters |-> "idle"]
  /\ path = [g \in Getters |-> NoPath]
  /\ call = [g \in Getters |-> NoGetter]
  /\ reply = [g \in Getters |-> NoReply]
  /\ waited = [g \in Getters |-> 0]
  /\ cache = [p \in Paths |-> NoEntry]
  /\ inflight = [p \in Paths |-> NoGetter]
  /\ version = [p \in Paths |-> 1]
  /\ seen = [p \in Paths |-> 0]
  /\ floor = [g \in Getters |-> 0]
  /\ got = [g \in Getters |-> 0]

GoTo(g, l) == pc' = [pc EXCEPT ![g] = l]

-----------------------------------------------------------------------------
(* The caller *)

\* cacheable()
IsCacheable(p) == p \in Cacheable

\* A handler or a lane calls Get(ctx, s, p).
Begin(g, p) ==
  /\ pc[g] = "idle"
  /\ GoTo(g, IF IsCacheable(p) THEN "check" ELSE "join")
  /\ path' = [path EXCEPT ![g] = p]
  /\ floor' = [floor EXCEPT ![g] = seen[p]]
  /\ got' = [got EXCEPT ![g] = 0]
  /\ UNCHANGED <<call, reply, waited, cache, inflight, version, seen>>

\* Get returns to its caller, which sees the body.
Return(g) ==
  /\ pc[g] = "return"
  /\ GoTo(g, "idle")
  /\ IF reply[g].err = "ok"
     THEN /\ seen' = [seen EXCEPT ![path[g]] = Newer(@, reply[g].ver)]
          /\ got' = [got EXCEPT ![g] = reply[g].ver]
     ELSE UNCHANGED <<seen, got>>
  /\ path' = [path EXCEPT ![g] = NoPath]
  /\ reply' = [reply EXCEPT ![g] = NoReply]
  /\ floor' = [floor EXCEPT ![g] = 0]
  /\ UNCHANGED <<call, waited, cache, inflight, version>>

-----------------------------------------------------------------------------
(* Session: cache and single flight *)

Fresh(p) == cache[p].ver # 0 /\ cache[p].age <= CacheTTL
Usable(p) == cache[p].ver # 0 /\ cache[p].age <= StaleTTL

\* A hit returns the copy as it is: its age goes on counting.
CacheGet(g) ==
  /\ pc[g] = "check"
  /\ IF Fresh(path[g])
     THEN /\ GoTo(g, "return")
          /\ reply' = [reply EXCEPT ![g] = Copied(cache[path[g]], "none")]
     ELSE /\ GoTo(g, "join")
          /\ UNCHANGED reply
  /\ UNCHANGED <<path, call, waited, cache, inflight, version, seen, floor, got>>

\* joinOrLead: under inflightMu, join the call in flight or become its leader.
\* Slip: everybody leads.
MayLeadAlways(p) == TRUE
MayLead(p) == inflight[p] = NoGetter

JoinOrLead(g) ==
  /\ pc[g] = "join"
  /\ IF MayLead(path[g])
     THEN /\ GoTo(g, "fetch")
          /\ inflight' = [inflight EXCEPT ![path[g]] = g]
          /\ UNCHANGED call
     ELSE /\ GoTo(g, "wait")
          /\ call' = [call EXCEPT ![g] = inflight[path[g]]]
          /\ UNCHANGED inflight
  /\ UNCHANGED <<path, reply, waited, cache, version, seen, floor, got>>

-----------------------------------------------------------------------------
(* fetchOnce: one exchange with VBR, bounded by the budget of doGet *)

\* VBR answers 401: the token is renewed and the request repeated, once, with a
\* budget of its own.
Retry(g) ==
  /\ pc[g] = "fetch"
  /\ GoTo(g, "retry")
  /\ waited' = [waited EXCEPT ![g] = 0]
  /\ UNCHANGED <<path, call, reply, cache, inflight, version, seen, floor, got>>

\* VBR reads the resource and sends the body back.
Answer(g) ==
  /\ pc[g] \in Asking
  /\ GoTo(g, "transit")
  /\ reply' = [reply EXCEPT ![g] = Answered(version[path[g]])]
  /\ UNCHANGED <<path, call, waited, cache, inflight, version, seen, floor, got>>

\* The whole body has arrived: fetchOnce returns it.
\* Slip: the path is already freed here, before cachePut.
ReceiveReleasing(g) ==
  /\ pc[g] = "transit"
  /\ GoTo(g, "settle")
  /\ waited' = [waited EXCEPT ![g] = 0]
  /\ inflight' = [inflight EXCEPT ![path[g]] = NoGetter]
  /\ UNCHANGED <<path, call, reply, cache, version, seen, floor, got>>

Receive(g) ==
  /\ pc[g] = "transit"
  /\ GoTo(g, "settle")
  /\ waited' = [waited EXCEPT ![g] = 0]
  /\ UNCHANGED <<path, call, reply, cache, inflight, version, seen, floor, got>>

FetchFails(g, e) ==
  /\ pc[g] \in Asking \cup {"transit"}
  /\ GoTo(g, "settle")
  /\ reply' = [reply EXCEPT ![g] = Failed(e)]
  /\ waited' = [waited EXCEPT ![g] = 0]
  /\ UNCHANGED <<path, call, cache, inflight, version, seen, floor, got>>

\* context.WithTimeout in doGet fires.  Slip: no budget.
TimeoutNever(g) == FALSE
Timeout(g) == waited[g] = Budget /\ FetchFails(g, "timeout")

\* Any other failure: no connection, an HTTP status other than 200, a body that
\* is not JSON, a token that could not be renewed, or the context of the leader
\* cancelled because its own client went away.
Fail(g) == FetchFails(g, "failed")

-----------------------------------------------------------------------------
(* The leader publishes *)

\* cachePut replaces whatever was there.
Put(p, r) == [cache EXCEPT ![p] = [ver |-> r.ver, age |-> 0, data |-> r.data]]

\* After a failure the previous copy is returned, and stays as old as it was.
\* Slip: the copy served is put again.
AfterFallbackPut(p) == [cache EXCEPT ![p].age = 0]
AfterFallback(p) == cache

\* Between fetchOnce and leadDone: cachePut on success, cacheGetStale on error.
Settle(g) ==
  LET p == path[g]
      ok == reply[g].err = "ok"
      fallback == ~ok /\ Usable(p)
  IN /\ pc[g] = "settle"
     /\ GoTo(g, "delete")
     /\ CASE IsCacheable(p) /\ ok ->
               cache' = Put(p, reply[g]) /\ UNCHANGED reply
          [] IsCacheable(p) /\ fallback ->
               /\ reply' = [reply EXCEPT ![g] = Copied(cache[p], reply[g].err)]
               /\ cache' = AfterFallback(p)
          [] OTHER -> UNCHANGED <<cache, reply>>
     /\ UNCHANGED <<path, call, waited, inflight, version, seen, floor, got>>

\* leadDone, under inflightMu: the path is free for another leader.
Delete(g) ==
  /\ pc[g] = "delete"
  /\ GoTo(g, "close")
  /\ inflight' = [inflight EXCEPT ![path[g]] = NoGetter]
  /\ UNCHANGED <<path, call, reply, waited, cache, version, seen, floor, got>>

Followers(g) == {f \in Getters : pc[f] = "wait" /\ call[f] = g}

\* leadDone, close(c.done): every follower wakes up with the leader's result.
Close(g) ==
  LET woken == Followers(g) \cup {g}
  IN /\ pc[g] = "close"
     /\ pc' = [f \in Getters |-> IF f \in woken THEN "return" ELSE pc[f]]
     /\ reply' = [f \in Getters |-> IF f \in woken THEN reply[g] ELSE reply[f]]
     /\ call' = [f \in Getters |-> IF f \in woken THEN NoGetter ELSE call[f]]
     /\ UNCHANGED <<path, waited, cache, inflight, version, seen, floor, got>>

-----------------------------------------------------------------------------
(* The environment *)

\* VBR changes a resource: a job is edited, a backup grows a file.
Change(p) ==
  /\ version[p] < MaxVersion
  /\ version' = [version EXCEPT ![p] = @ + 1]
  /\ UNCHANGED <<pc, path, call, reply, waited, cache, inflight, seen, floor, got>>

\* Time passes.  A doGet whose budget is used up is cut before the next tick,
\* and the few instructions between a body and its cachePut take no time.
Waiting == {g \in Getters : pc[g] \in Asking \cup {"transit"}}

Aged(e) == IF e.ver = 0 THEN e
           ELSE [ver |-> e.ver, age |-> Older(e.age), data |-> Older(e.data)]
Delayed(r) == [err |-> r.err, ver |-> r.ver, data |-> Older(r.data), cause |-> r.cause]

Tick ==
  /\ \A g \in Getters : pc[g] # "settle"
  /\ \A g \in Waiting : waited[g] < Budget
  /\ waited' = [g \in Getters |-> IF g \in Waiting THEN waited[g] + 1 ELSE waited[g]]
  /\ cache' = [p \in Paths |-> Aged(cache[p])]
  /\ reply' = [g \in Getters |-> IF pc[g] = "transit" THEN Delayed(reply[g])
                                 ELSE reply[g]]
  /\ UNCHANGED <<pc, path, call, inflight, version, seen, floor, got>>

-----------------------------------------------------------------------------
Step(g) ==
  \/ CacheGet(g) \/ JoinOrLead(g)
  \/ Receive(g) \/ Timeout(g)
  \/ Settle(g) \/ Delete(g) \/ Close(g) \/ Return(g)

Next ==
  \/ \E g \in Getters, p \in Paths : Begin(g, p)
  \/ \E g \in Getters : Step(g)
  \/ \E g \in Getters : Retry(g) \/ Answer(g) \/ Fail(g)
  \/ \E p \in Paths : Change(p)
  \/ Tick

Spec == Init /\ [][Next]_vars

\* A goroutine that can run does run, and time passes: no number of Gets fits
\* between two ticks for ever.  VBR may never answer.
FairSpec == Spec /\ SF_vars(Tick) /\ \A g \in Getters : WF_vars(Step(g))

-----------------------------------------------------------------------------
(* Properties *)

TypeOK ==
  /\ pc \in [Getters -> PCs]
  /\ path \in [Getters -> Paths \cup {NoPath}]
  /\ call \in [Getters -> Getters \cup {NoGetter}]
  /\ reply \in [Getters -> Reply]
  /\ waited \in [Getters -> 0..Budget]
  /\ cache \in [Paths -> Entry]
  /\ inflight \in [Paths -> Getters \cup {NoGetter}]
  /\ version \in [Paths -> Versions]
  /\ seen \in [Paths -> 0..MaxVersion]
  /\ floor \in [Getters -> 0..MaxVersion]
  /\ got \in [Getters -> 0..MaxVersion]

\* A path is never asked for twice at the same time, whoever joins, leads,
\* fails or retries (joinOrLead and leadDone).
SingleFlight ==
  \A g, h \in Getters :
    pc[g] \in Flying /\ pc[h] \in Flying /\ path[g] = path[h] => g = h

\* Once a Get has shown a resource to its caller, no Get that begins later
\* shows an older state of it: not from the cache, not from the call of
\* somebody else, not from the fallback copy.
NoGoingBack ==
  \A g \in Getters :
    pc[g] = "return" /\ reply[g].err = "ok" => floor[g] <= reply[g].ver

\* How old the information in a result can be.  The age of a cached copy counts
\* from cachePut, so the budget of the fetch that filled it comes on top of the
\* TTL; a path that is not cacheable is at most one budget behind, also for the
\* callers that joined a call already answered.
DataBound(p, r) ==
  Budget + (IF p \notin Cacheable THEN 0
            ELSE IF r.cause = "none" THEN CacheTTL ELSE StaleTTL)

AgeOfInformation ==
  \A g \in Getters :
    pc[g] \in {"delete", "close", "return"} /\ reply[g].err = "ok" =>
      reply[g].data <= DataBound(path[g], reply[g])

\* Every Get returns, leader or follower, even if VBR never answers: the budget
\* ends the fetch and leadDone wakes everybody who joined it.
EveryGetReturns == \A g \in Getters : pc[g] # "idle" ~> pc[g] = "idle"

\* What the callers may rely on, whatever the cache does: VbrReads.  Its reads
\* are the calls of Get from Begin to Return.
Reads == INSTANCE VbrReads WITH
           path <- path, floor <- floor, version <- version, seen <- seen, got <- got
ReadsSpec == Reads!Spec

-----------------------------------------------------------------------------
(* The inductive invariant behind SingleFlight, NoGoingBack and              *)
(* AgeOfInformation: who is where, which copies are older than which, and    *)
(* what the ages say.                                                        *)

\* The call of a path belongs to its leader, and a follower waits for a leader
\* of its own path that has not closed the call yet.
Calls ==
  /\ \A g \in Getters : (pc[g] = "idle") <=> (path[g] = NoPath)
  /\ \A g \in Getters : pc[g] = "check" => path[g] \in Cacheable
  /\ \A g \in Getters : pc[g] \in Flying => inflight[path[g]] = g
  /\ \A p \in Paths : inflight[p] # NoGetter =>
       pc[inflight[p]] \in Flying /\ path[inflight[p]] = p
  /\ \A g \in Getters : pc[g] = "wait" =>
       /\ call[g] \in Getters
       /\ pc[call[g]] \in Flying \cup {"close"}
       /\ path[call[g]] = path[g]

Landing == {"transit", "settle", "delete"}
Landed == {"close", "return"}
Holds(g, where) == pc[g] \in where /\ reply[g].err = "ok"

\* Everything known of a path is a version VBR has held.
Held ==
  /\ \A p \in Paths : seen[p] <= version[p] /\ cache[p].ver <= version[p]
  /\ \A g \in Getters : Holds(g, Landing \cup Landed) =>
       reply[g].ver \in 1..version[path[g]]

\* The cache is ahead of every body that was handed out ...
CacheAhead ==
  \A p \in Cacheable :
    /\ seen[p] <= cache[p].ver
    /\ \A g \in Getters : path[g] = p =>
         /\ Holds(g, Landed) => reply[g].ver <= cache[p].ver
         /\ Holds(g, {"transit", "settle"}) => cache[p].ver <= reply[g].ver
         /\ Holds(g, {"delete"}) => reply[g].ver = cache[p].ver

\* ... and the body of the call in flight is ahead of those too.
FlightAhead ==
  \A l \in Getters : Holds(l, Landing) =>
    /\ seen[path[l]] <= reply[l].ver
    /\ \A g \in Getters :
         path[g] = path[l] /\ Holds(g, Landed) => reply[g].ver <= reply[l].ver

\* No getter holds, or waits for, a body older than what it has to beat.
Floors ==
  \A g \in Getters :
    /\ pc[g] # "idle" => floor[g] <= seen[path[g]]
    /\ Holds(g, Landing \cup Landed) => floor[g] <= reply[g].ver
    /\ pc[g] = "wait" /\ Holds(call[g], Landing \cup Landed) =>
         floor[g] <= reply[call[g]].ver

DataAges ==
  /\ \A p \in Paths : cache[p].data <= cache[p].age + Budget
  /\ \A g \in Getters : Holds(g, {"transit"}) => reply[g].data <= waited[g]
  /\ \A g \in Getters : Holds(g, {"settle"}) => reply[g].data <= Budget

IInv ==
  /\ TypeOK /\ Calls /\ Held /\ CacheAhead /\ FlightAhead /\ Floors
  /\ DataAges /\ AgeOfInformation
=============================================================================
