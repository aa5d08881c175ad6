--------------------------- MODULE RestGetProofs ---------------------------
(***************************************************************************)
(* Proofs about RestGet for any number of getters, paths, versions and any *)
(* TTLs: the invariant IInv is inductive, hence SingleFlight, NoGoingBack  *)
(* and AgeOfInformation, and RestGet implements VbrReads.                  *)
(***************************************************************************)
EXTENDS RestGet, TLAPS

USE PathsAssumption, GettersAssumption, TimesAssumption, VersionsAssumption

-----------------------------------------------------------------------------
(* The records *)

LEMMA CopiedType ==
  ASSUME NEW e \in Entry, NEW c \in {"none"} \cup Errors
  PROVE  /\ Copied(e, c) \in Reply
         /\ Copied(e, c).err = "ok" /\ Copied(e, c).ver = e.ver
         /\ Copied(e, c).data = e.data /\ Copied(e, c).cause = c
  BY DEF Copied, Entry, Reply

LEMMA AgedType ==
  ASSUME NEW e \in Entry
  PROVE  /\ Aged(e) \in Entry
         /\ Aged(e).ver = e.ver
         /\ e.data <= e.age + Budget => Aged(e).data <= Aged(e).age + Budget
  BY DEF Aged, Older, Entry, Ages, AgeCap

LEMMA DelayedType ==
  ASSUME NEW r \in Reply
  PROVE  /\ Delayed(r) \in Reply
         /\ Delayed(r).err = r.err /\ Delayed(r).ver = r.ver
         /\ Delayed(r).data <= r.data + 1
  BY DEF Delayed, Older, Reply, Ages, AgeCap

LEMMA AnsweredType ==
  ASSUME NEW v \in Versions
  PROVE  /\ Answered(v) \in Reply
         /\ Answered(v).err = "ok" /\ Answered(v).ver = v /\ Answered(v).data = 0
  BY DEF Answered, Reply, Versions, Ages, AgeCap

LEMMA FailedType ==
  ASSUME NEW e \in Errors
  PROVE  Failed(e) \in Reply /\ Failed(e).err # "ok"
  BY DEF Failed, Errors, Reply, Ages, AgeCap

LEMMA NoReplyType == NoReply \in Reply
  BY DEF NoReply, Reply, Ages, AgeCap

LEMMA PutType ==
  ASSUME NEW p \in Paths, NEW r \in Reply, cache \in [Paths -> Entry]
  PROVE  /\ Put(p, r) \in [Paths -> Entry]
         /\ Put(p, r)[p].ver = r.ver
         /\ Put(p, r)[p].age = 0 /\ Put(p, r)[p].data = r.data
         /\ \A q \in Paths : q # p => Put(p, r)[q] = cache[q]
  BY DEF Put, Entry, Reply, Ages, AgeCap

-----------------------------------------------------------------------------
(* One lemma per action: it keeps the inductive invariant *)

LEMMA BeginKeeps ==
  ASSUME IInv, NEW g \in Getters, NEW p \in Paths, Begin(g, p)
  PROVE  IInv'
<1> USE DEF IInv, Begin, GoTo, IsCacheable, TypeOK
<1>1. TypeOK'
  BY DEF PCs
<1>2. Calls'
  BY DEF Calls, Flying, Asking
<1>3. Held' /\ CacheAhead' /\ FlightAhead'
  BY DEF Held, CacheAhead, FlightAhead, Calls, Holds, Landing, Landed
<1>4. Floors'
  BY DEF Floors, Calls, Holds, Landing, Landed, Flying
<1>5. DataAges' /\ AgeOfInformation'
  BY DEF DataAges, AgeOfInformation, DataBound, Calls, Holds
<1> QED BY <1>1, <1>2, <1>3, <1>4, <1>5

LEMMA ReturnKeeps ==
  ASSUME IInv, NEW g \in Getters, Return(g)
  PROVE  IInv'
<1> USE DEF IInv, Return, GoTo, TypeOK
<1>1. path[g] \in Paths
  BY DEF Calls
<1>2. seen' \in [Paths -> 0..MaxVersion]
      /\ \A p \in Paths : /\ seen[p] <= seen'[p]
                          /\ seen'[p] = seen[p] \/ (Holds(g, Landed) /\ path[g] = p /\ seen'[p] = reply[g].ver)
  BY <1>1 DEF Newer, Holds, Landed, Reply
<1>3. TypeOK'
  BY <1>2, NoReplyType DEF PCs, Reply
<1>4. Calls'
  BY DEF Calls, Flying, Asking
<1>5. Held'
  <2>1. Holds(g, Landed) => reply[g].ver <= version[path[g]]
    BY DEF Held, Holds, Landed
  <2>2. \A p \in Paths : seen'[p] <= version'[p] /\ cache'[p].ver <= version'[p]
    BY <1>1, <1>2, <2>1 DEF Held
  <2>3. ASSUME NEW h \in Getters, pc'[h] \in Landing \cup Landed, reply'[h].err = "ok"
        PROVE  reply'[h].ver \in 1..version'[path'[h]]
    <3>1. h # g /\ pc'[h] = pc[h] /\ path'[h] = path[h] /\ reply'[h] = reply[h]
      BY <2>3 DEF Landing, Landed
    <3> QED BY <2>3, <3>1 DEF Held, Holds
  <2> QED BY <2>2, <2>3 DEF Held, Holds, Landing, Landed
<1>6. CacheAhead'
  BY <1>1, <1>2 DEF CacheAhead, Calls, Holds, Landing, Landed
<1>7. FlightAhead'
  BY <1>1, <1>2 DEF FlightAhead, Calls, Holds, Landing, Landed
<1>8. Floors'
  BY <1>1, <1>2 DEF Floors, Calls, Holds, Landing, Landed, Flying, Asking, Reply
<1>9. DataAges' /\ AgeOfInformation'
  BY DEF DataAges, AgeOfInformation, DataBound, Calls, Holds
<1> QED BY <1>3, <1>4, <1>5, <1>6, <1>7, <1>8, <1>9

\* A hit hands out the newest body there is.
LEMMA CacheGetKeeps ==
  ASSUME IInv, NEW g \in Getters, CacheGet(g)
  PROVE  IInv'
<1> DEFINE p == path[g]
<1> USE DEF IInv, CacheGet, GoTo, TypeOK
<1>1. p \in Paths /\ p \in Cacheable
  BY DEF Calls
<1>2. CASE ~Fresh(p)
  <2>1. TypeOK'
    BY <1>2 DEF PCs
  <2>2. Calls'
    BY <1>2 DEF Calls, Flying, Asking
  <2>3. Held' /\ CacheAhead' /\ FlightAhead'
    BY <1>2 DEF Held, CacheAhead, FlightAhead, Holds, Landing, Landed
  <2>4. Floors'
    BY <1>2 DEF Floors, Calls, Holds, Landing, Landed, Flying, Asking
  <2>5. DataAges' /\ AgeOfInformation'
    BY <1>2 DEF DataAges, AgeOfInformation, DataBound, Holds
  <2> QED BY <2>1, <2>2, <2>3, <2>4, <2>5
<1>3. CASE Fresh(p)
  <2> DEFINE r == Copied(cache[p], "none")
  <2>1. /\ pc' = [pc EXCEPT ![g] = "return"]
        /\ reply' = [reply EXCEPT ![g] = r]
        /\ UNCHANGED <<path, call, waited, cache, inflight, version, seen, floor, got>>
    BY <1>3
  <2>2. cache[p] \in Entry
    BY <1>1
  <2>3. r \in Reply /\ r.err = "ok" /\ r.ver = cache[p].ver
        /\ r.data = cache[p].data /\ r.cause = "none"
    BY <2>2, CopiedType
  <2>4. r.ver \in 1..version[p]
    BY <1>1, <1>3, <2>2, <2>3 DEF Held, Fresh, Entry
  <2> HIDE DEF r, CacheGet
  <2>5. TypeOK'
    BY <2>1, <2>3 DEF PCs
  <2>6. Calls'
    BY <2>1 DEF Calls, Flying, Asking, CacheGet
  <2>7. Held'
    BY <2>1, <2>3, <2>4 DEF Held, Holds, Landing, Landed
  <2>8. CacheAhead'
    BY <1>1, <2>1, <2>3 DEF CacheAhead, Holds, Landing, Landed, Entry
  <2>9. FlightAhead'
    BY <1>1, <2>1, <2>3 DEF FlightAhead, CacheAhead, Holds, Landing, Landed, Entry
  <2>10. Floors'
    BY <1>1, <2>1, <2>3 DEF Floors, CacheAhead, Calls, Holds, Landing, Landed, Flying, Asking, CacheGet, Entry
  <2>11. DataAges'
    BY <2>1 DEF DataAges, Holds
  <2>12. AgeOfInformation'
    BY <1>1, <1>3, <2>1, <2>2, <2>3 DEF AgeOfInformation, DataBound, DataAges, Fresh, Entry, Ages, AgeCap
  <2> QED BY <2>5, <2>6, <2>7, <2>8, <2>9, <2>10, <2>11, <2>12
<1> QED BY <1>2, <1>3

LEMMA JoinOrLeadKeeps ==
  ASSUME IInv, NEW g \in Getters, JoinOrLead(g)
  PROVE  IInv'
<1> USE DEF IInv, JoinOrLead, GoTo, MayLead, TypeOK
<1>1. path[g] \in Paths
  BY DEF Calls
<1>2. TypeOK'
  BY <1>1 DEF PCs, Flying, Asking
<1>3. Calls'
  <2>1. CASE inflight[path[g]] = NoGetter
    BY <1>1, <2>1 DEF Calls, Flying, Asking
  <2>2. CASE inflight[path[g]] # NoGetter
    BY <1>1, <2>2 DEF Calls, Flying, Asking
  <2> QED BY <2>1, <2>2
<1>4. Held' /\ CacheAhead' /\ FlightAhead'
  BY DEF Held, CacheAhead, FlightAhead, Holds, Landing, Landed
<1>5. Floors'
  <2>1. CASE inflight[path[g]] = NoGetter
    BY <1>1, <2>1 DEF Floors, Calls, Holds, Landing, Landed, Flying, Asking
  <2>2. CASE inflight[path[g]] # NoGetter
    <3> DEFINE l == inflight[path[g]]
    <3>1. l \in Getters /\ pc[l] \in Flying /\ path[l] = path[g]
      BY <1>1, <2>2 DEF Calls
    <3>2. Holds(l, Landing \cup Landed) => floor[g] <= reply[l].ver
      BY <1>1, <3>1 DEF Floors, FlightAhead, Holds, Landing, Landed, Flying, Asking, Reply
    <3> QED BY <1>1, <2>2, <3>1, <3>2 DEF Floors, Calls, Holds, Landing, Landed, Flying, Asking
  <2> QED BY <2>1, <2>2
<1>6. DataAges' /\ AgeOfInformation'
  BY DEF DataAges, AgeOfInformation, DataBound, Holds
<1> QED BY <1>2, <1>3, <1>4, <1>5, <1>6

LEMMA RetryKeeps ==
  ASSUME IInv, NEW g \in Getters, Retry(g)
  PROVE  IInv'
<1> USE DEF IInv, Retry, GoTo, TypeOK
<1>1. TypeOK' /\ Calls'
  BY DEF Calls, PCs, Flying, Asking
<1>2. Held' /\ CacheAhead' /\ FlightAhead' /\ Floors'
  BY DEF Held, CacheAhead, FlightAhead, Floors, Holds, Landing, Landed
<1>3. DataAges' /\ AgeOfInformation'
  BY DEF DataAges, AgeOfInformation, DataBound, Holds
<1> QED BY <1>1, <1>2, <1>3

\* What VBR answers now is at least as new as anything known of the path.
LEMMA AnswerKeeps ==
  ASSUME IInv, NEW g \in Getters, Answer(g)
  PROVE  IInv'
<1> DEFINE p == path[g]
           r == Answered(version[p])
<1> USE DEF IInv, Answer, GoTo, TypeOK
<1>1. p \in Paths
  BY DEF Calls, Asking
<1>2. r \in Reply /\ r.err = "ok" /\ r.ver = version[p] /\ r.data = 0
  BY <1>1, AnsweredType
<1> HIDE DEF r
<1>3. TypeOK'
  BY <1>2 DEF PCs, Flying, r
<1>4. Calls'
  BY DEF Calls, Flying, Asking
<1>5. Held'
  BY <1>1, <1>2 DEF Held, Holds, Landing, Landed, Versions, r
<1>6. CacheAhead'
  BY <1>1, <1>2 DEF CacheAhead, Held, Calls, Holds, Landing, Landed, r
<1>7. FlightAhead'
  BY <1>1, <1>2 DEF FlightAhead, Held, Calls, Holds, Landing, Landed, Asking, r
<1>8. Floors'
  BY <1>1, <1>2 DEF Floors, Held, Calls, Holds, Landing, Landed, Flying, Asking, Versions, r
<1>9. DataAges' /\ AgeOfInformation'
  BY <1>2 DEF DataAges, AgeOfInformation, DataBound, Holds, r
<1> QED BY <1>3, <1>4, <1>5, <1>6, <1>7, <1>8, <1>9

LEMMA ReceiveKeeps ==
  ASSUME IInv, NEW g \in Getters, Receive(g)
  PROVE  IInv'
<1> USE DEF IInv, Receive, GoTo, TypeOK
<1>1. TypeOK' /\ Calls'
  BY DEF Calls, PCs, Flying, Asking
<1>2. Held' /\ CacheAhead'
  BY DEF Held, CacheAhead, Holds, Landing, Landed
<1>3. FlightAhead' /\ Floors'
  BY DEF FlightAhead, Floors, Holds, Landing, Landed
<1>4. DataAges' /\ AgeOfInformation'
  BY DEF DataAges, AgeOfInformation, DataBound, Holds, Reply, Ages
<1> QED BY <1>1, <1>2, <1>3, <1>4

LEMMA FetchFailsKeeps ==
  ASSUME IInv, NEW g \in Getters, NEW e \in Errors, FetchFails(g, e)
  PROVE  IInv'
<1> USE DEF IInv, FetchFails, GoTo, TypeOK
<1>1. Failed(e) \in Reply /\ Failed(e).err # "ok"
  BY FailedType
<1>2. TypeOK' /\ Calls'
  BY <1>1 DEF Calls, PCs, Flying, Asking
<1>3. Held' /\ CacheAhead' /\ FlightAhead'
  BY <1>1 DEF Held, CacheAhead, FlightAhead, Holds, Landing, Landed
<1>4. Floors'
  BY <1>1 DEF Floors, Calls, Holds, Landing, Landed, Asking
<1>5. DataAges' /\ AgeOfInformation'
  BY <1>1 DEF DataAges, AgeOfInformation, DataBound, Holds
<1> QED BY <1>2, <1>3, <1>4, <1>5

\* Whatever the leader ends with, put or copied, is the newest body there is.
LEMMA SettleKeeps ==
  ASSUME IInv, NEW g \in Getters, Settle(g)
  PROVE  IInv'
<1> DEFINE p == path[g]
           ok == reply[g].err = "ok"
<1> USE DEF IInv, TypeOK
<1>1. p \in Paths /\ pc[g] = "settle" /\ pc' = [pc EXCEPT ![g] = "delete"]
      /\ UNCHANGED <<path, call, waited, inflight, version, seen, floor, got>>
  BY DEF Calls, Settle, GoTo
<1>2. Calls'
  BY <1>1 DEF Calls, Flying, Asking
<1>3. CASE p \in Cacheable /\ ok
  <2>1. reply' = reply /\ cache' = Put(p, reply[g])
    BY <1>3 DEF Settle, IsCacheable
  <2>2. /\ cache' \in [Paths -> Entry]
        /\ cache'[p].ver = reply[g].ver
        /\ cache'[p].age = 0 /\ cache'[p].data = reply[g].data
        /\ \A q \in Paths : q # p => cache'[q] = cache[q]
    BY <1>1, <2>1, PutType
  <2>3. cache[p].ver <= reply[g].ver /\ reply[g].ver \in 1..version[p]
        /\ reply[g].data <= Budget
    BY <1>1, <1>3 DEF CacheAhead, Held, DataAges, Holds, Landing, Landed
  <2>4. TypeOK'
    BY <1>1, <2>1, <2>2 DEF PCs, Flying
  <2>5. Held'
    BY <1>1, <2>1, <2>2, <2>3 DEF Held, Holds, Landing, Landed, Versions
  <2>6. CacheAhead'
    BY <1>1, <1>3, <2>1, <2>2, <2>3 DEF CacheAhead, FlightAhead, Calls, Holds, Landing, Landed, Flying, Reply, Entry
  <2>7. FlightAhead' /\ Floors'
    BY <1>1, <1>3, <2>1 DEF FlightAhead, Floors, Holds, Landing, Landed
  <2>8. DataAges'
    BY <1>1, <2>1, <2>2, <2>3 DEF DataAges, Holds, Reply
  <2>9. AgeOfInformation'
    BY <1>1, <2>1, <2>3 DEF AgeOfInformation, DataBound, Reply, Ages
  <2> QED BY <1>2, <2>4, <2>5, <2>6, <2>7, <2>8, <2>9
<1>4. CASE p \in Cacheable /\ ~ok /\ Usable(p)
  <2> DEFINE r == Copied(cache[p], reply[g].err)
  <2>1. reply' = [reply EXCEPT ![g] = r] /\ cache' = cache
    BY <1>4 DEF Settle, IsCacheable, AfterFallback
  <2>2. r \in Reply /\ r.err = "ok" /\ r.ver = cache[p].ver
        /\ r.data = cache[p].data /\ r.cause # "none"
    BY <1>1, <1>4, CopiedType DEF Reply, Errors
  <2>3. r.ver \in 1..version[p] /\ seen[p] <= r.ver /\ floor[g] <= seen[p]
    BY <1>1, <1>4, <2>2 DEF Held, CacheAhead, Floors, Usable, Entry
  <2>4. r.data <= StaleTTL + Budget
    BY <1>1, <1>4, <2>2 DEF DataAges, Usable, Entry, Ages, AgeCap
  <2> HIDE DEF r
  <2>5. TypeOK'
    BY <1>1, <2>1, <2>2 DEF PCs, Flying
  <2>6. Held'
    BY <1>1, <2>1, <2>2, <2>3 DEF Held, Holds, Landing, Landed
  <2>7. CacheAhead'
    BY <1>1, <2>1, <2>2 DEF CacheAhead, Holds, Landing, Landed
  <2>8. FlightAhead'
    BY <1>1, <1>4, <2>1, <2>2, <2>3 DEF FlightAhead, CacheAhead, Holds, Landing, Landed
  <2>9. Floors'
    <3>1. \A f \in Getters : pc[f] = "wait" /\ call[f] = g => floor[f] <= r.ver
      BY <1>1, <2>2, <2>3 DEF Floors, Calls, Versions, Reply
    <3> QED BY <1>1, <2>1, <2>2, <2>3, <3>1 DEF Floors, Holds, Landing, Landed, Versions, Reply
  <2>10. DataAges'
    BY <1>1, <2>1 DEF DataAges, Holds
  <2>11. AgeOfInformation'
    BY <1>1, <1>4, <2>1, <2>2, <2>4 DEF AgeOfInformation, DataBound
  <2> QED BY <1>2, <2>5, <2>6, <2>7, <2>8, <2>9, <2>10, <2>11
<1>5. CASE (p \notin Cacheable /\ ok) \/ (~ok /\ (p \notin Cacheable \/ ~Usable(p)))
  <2>1. UNCHANGED <<reply, cache>>
    BY <1>5 DEF Settle, IsCacheable
  <2>2. TypeOK'
    BY <1>1, <2>1 DEF PCs, Flying
  <2>3. Held' /\ CacheAhead' /\ FlightAhead' /\ Floors'
    BY <1>1, <1>5, <2>1 DEF Held, CacheAhead, FlightAhead, Floors, Holds, Landing, Landed
  <2>4. DataAges' /\ AgeOfInformation'
    BY <1>1, <1>5, <2>1 DEF DataAges, AgeOfInformation, DataBound, Holds, Reply, Ages
  <2> QED BY <1>2, <2>1, <2>2, <2>3, <2>4
<1> QED BY <1>3, <1>4, <1>5

\* Nobody else flies on the path, so nothing newer is overtaken.
LEMMA DeleteKeeps ==
  ASSUME IInv, NEW g \in Getters, Delete(g)
  PROVE  IInv'
<1> USE DEF IInv, Delete, GoTo, TypeOK
<1>1. path[g] \in Paths
  BY DEF Calls
<1>2. TypeOK' /\ Calls'
  BY <1>1 DEF Calls, PCs, Flying, Asking
<1>3. Held' /\ CacheAhead' /\ Floors'
  BY <1>1 DEF Held, CacheAhead, Floors, Holds, Landing, Landed, Entry, Reply
<1>4. FlightAhead'
  BY <1>1 DEF FlightAhead, Calls, Holds, Landing, Landed, Flying
<1>5. DataAges' /\ AgeOfInformation'
  BY DEF DataAges, AgeOfInformation, DataBound, Holds
<1> QED BY <1>2, <1>3, <1>4, <1>5

LEMMA CloseKeeps ==
  ASSUME IInv, NEW g \in Getters, Close(g)
  PROVE  IInv'
<1> DEFINE woken == Followers(g) \cup {g}
<1> USE DEF IInv, TypeOK
<1>1. /\ pc[g] = "close"
      /\ pc' = [f \in Getters |-> IF f \in woken THEN "return" ELSE pc[f]]
      /\ reply' = [f \in Getters |-> IF f \in woken THEN reply[g] ELSE reply[f]]
      /\ call' = [f \in Getters |-> IF f \in woken THEN NoGetter ELSE call[f]]
      /\ UNCHANGED <<path, waited, cache, inflight, version, seen, floor, got>>
  BY DEF Close
<1>2. /\ woken \subseteq Getters
      /\ \A f \in woken : path[f] = path[g] /\ path[f] \in Paths /\ (f = g \/ pc[f] = "wait")
      /\ \A f \in Getters : pc[f] = "wait" /\ call[f] = g => f \in woken
  BY <1>1 DEF Followers, Calls
<1>3. \A f \in woken : reply[g].err = "ok" => floor[f] <= reply[g].ver
  BY <1>1, <1>2 DEF Followers, Floors, Holds, Landing, Landed
<1> HIDE DEF woken
<1>4. TypeOK'
  BY <1>1 DEF PCs
<1>5. Calls'
  BY <1>1, <1>2 DEF Calls, Flying, Asking
<1>6. Held'
  BY <1>1, <1>2 DEF Held, Holds, Landing, Landed
<1>7. CacheAhead'
  BY <1>1, <1>2 DEF CacheAhead, Holds, Landing, Landed
<1>8. FlightAhead'
  BY <1>1, <1>2 DEF FlightAhead, Holds, Landing, Landed
<1>9. Floors'
  BY <1>1, <1>2, <1>3 DEF Floors, Calls, Holds, Landing, Landed, Flying, Asking
<1>10. DataAges'
  BY <1>1, <1>2 DEF DataAges, Holds
<1>11. AgeOfInformation'
  BY <1>1, <1>2 DEF AgeOfInformation, DataBound
<1> QED BY <1>4, <1>5, <1>6, <1>7, <1>8, <1>9, <1>10, <1>11

LEMMA ChangeKeeps ==
  ASSUME IInv, NEW p \in Paths, Change(p)
  PROVE  IInv'
<1> USE DEF IInv, Change, TypeOK
<1>1. TypeOK' /\ Held'
  BY DEF Held, Holds, Landing, Landed, Versions, Entry, Reply
<1>2. Calls' /\ CacheAhead' /\ FlightAhead' /\ Floors'
  BY DEF Calls, CacheAhead, FlightAhead, Floors, Holds
<1>3. DataAges' /\ AgeOfInformation'
  BY DEF DataAges, AgeOfInformation, DataBound, Holds
<1> QED BY <1>1, <1>2, <1>3

\* Only ages move, and the cached copy and its information age together.
LEMMA TickKeeps ==
  ASSUME IInv, Tick
  PROVE  IInv'
<1> USE DEF IInv, TypeOK
<1>1. UNCHANGED <<pc, path, call, inflight, version, seen, floor, got>>
  BY DEF Tick
<1>2. /\ cache' \in [Paths -> Entry]
      /\ \A p \in Paths : /\ cache'[p].ver = cache[p].ver
                          /\ cache'[p].data <= cache'[p].age + Budget
  BY AgedType DEF Tick, DataAges
<1>3. /\ reply' \in [Getters -> Reply]
      /\ \A g \in Getters : /\ reply'[g].err = reply[g].err
                            /\ reply'[g].ver = reply[g].ver
                            /\ pc[g] = "transit" => reply'[g].data <= reply[g].data + 1
                            /\ pc[g] # "transit" => reply'[g] = reply[g]
  BY DelayedType DEF Tick
<1>4. /\ waited' \in [Getters -> 0..Budget]
      /\ \A g \in Getters : pc[g] = "transit" => waited'[g] = waited[g] + 1
  BY DEF Tick, Waiting, Asking
<1>5. TypeOK' /\ Calls'
  BY <1>1, <1>2, <1>3, <1>4 DEF Calls
<1>6. Held'
  BY <1>1, <1>2, <1>3 DEF Held, Holds
<1>7. CacheAhead' /\ FlightAhead'
  <2>1. \A p \in Cacheable : p \in Paths
    OBVIOUS
  <2>2. \A g \in Getters : \A where : Holds(g, where)' <=> Holds(g, where)
    BY <1>1, <1>3 DEF Holds
  <2> QED BY <1>1, <1>2, <1>3, <2>1, <2>2 DEF CacheAhead, FlightAhead
<1>8. Floors'
  BY <1>1, <1>3 DEF Floors, Calls, Holds
<1>9. DataAges'
  BY <1>1, <1>2, <1>3, <1>4 DEF DataAges, Holds, Reply, Ages, AgeCap
<1>10. AgeOfInformation'
  BY <1>1, <1>3 DEF AgeOfInformation, DataBound
<1> QED BY <1>5, <1>6, <1>7, <1>8, <1>9, <1>10

-----------------------------------------------------------------------------
(* The theorems *)

LEMMA InitIInv == Init => IInv
<1> SUFFICES ASSUME Init PROVE IInv
  OBVIOUS
<1> USE DEF Init, NoReply, NoEntry
<1>1. TypeOK
  BY DEF TypeOK, PCs, Reply, Entry, Ages, AgeCap, Versions
<1>2. Calls /\ Held /\ CacheAhead /\ FlightAhead /\ Floors
  BY DEF Calls, Held, CacheAhead, FlightAhead, Floors, Flying, Asking, Holds, Landing, Landed
<1>3. DataAges /\ AgeOfInformation
  BY DEF DataAges, AgeOfInformation, Holds
<1> QED BY <1>1, <1>2, <1>3 DEF IInv

LEMMA NextKeepsIInv == IInv /\ [Next]_vars => IInv'
<1> SUFFICES ASSUME IInv, [Next]_vars PROVE IInv'
  OBVIOUS
<1>1. ASSUME NEW g \in Getters, NEW p \in Paths, Begin(g, p) PROVE IInv'
  BY <1>1, BeginKeeps
<1>2. ASSUME NEW g \in Getters, Step(g) PROVE IInv'
  <2>1. "timeout" \in Errors
    BY DEF Errors
  <2> QED
    BY <1>2, <2>1, CacheGetKeeps, JoinOrLeadKeeps, ReceiveKeeps, FetchFailsKeeps,
       SettleKeeps, DeleteKeeps, CloseKeeps, ReturnKeeps DEF Step, Timeout
<1>3. ASSUME NEW g \in Getters, Retry(g) \/ Answer(g) \/ Fail(g) PROVE IInv'
  <2>1. "failed" \in Errors
    BY DEF Errors
  <2> QED BY <1>3, <2>1, RetryKeeps, AnswerKeeps, FetchFailsKeeps DEF Fail
<1>4. ASSUME NEW p \in Paths, Change(p) PROVE IInv'
  BY <1>4, ChangeKeeps
<1>5. CASE Tick
  BY <1>5, TickKeeps
<1>6. CASE UNCHANGED vars
  BY <1>6 DEF vars, IInv, TypeOK, Calls, Held, CacheAhead, FlightAhead, Floors,
              DataAges, AgeOfInformation, DataBound, Holds
<1> QED BY <1>1, <1>2, <1>3, <1>4, <1>5, <1>6 DEF Next

LEMMA SpecIInv == Spec => []IInv
  BY InitIInv, NextKeepsIInv, PTL DEF Spec

\* The types of RestGet's state hold for every number of getters and paths.
THEOREM TypeCorrect == Spec => []TypeOK
<1>1. IInv => TypeOK
  BY DEF IInv
<1> QED BY <1>1, SpecIInv, PTL

\* joinOrLead and leadDone keep every path to one exchange with VBR at a time.
THEOREM OneFetchAtATime == Spec => []SingleFlight
<1>1. IInv => SingleFlight
  BY DEF IInv, Calls, SingleFlight
<1> QED BY <1>1, SpecIInv, PTL

\* No Get shows a resource older than an earlier Get has shown it.
THEOREM ReadsNeverGoBack == Spec => []NoGoingBack
<1>1. IInv => NoGoingBack
  BY DEF IInv, Floors, Holds, Landed, NoGoingBack
<1> QED BY <1>1, SpecIInv, PTL

\* The bound on the age of what a Get shows, for any TTLs and budget.
THEOREM InformationAgeBounded == Spec => []AgeOfInformation
<1>1. IInv => AgeOfInformation
  BY DEF IInv
<1> QED BY <1>1, SpecIInv, PTL

\* RestGet implements VbrReads: cache, joining and fallback are invisible to a
\* caller who only knows that its reads do not go back.
THEOREM ImplementsReads == Spec => ReadsSpec
<1>1. Init => Reads!Init
  BY DEF Init, Reads!Init
<1>2. IInv /\ [Next]_vars => [Reads!Next]_Reads!vars
  <2> SUFFICES ASSUME IInv, [Next]_vars PROVE [Reads!Next]_Reads!vars
    OBVIOUS
  <2> USE DEF Reads!vars
  <2>1. ASSUME NEW g \in Getters, NEW p \in Paths, Begin(g, p) PROVE Reads!Begin(g, p)
    BY <2>1 DEF Begin, Reads!Begin, IInv, Calls
  <2>2. ASSUME NEW g \in Getters, Return(g), reply[g].err = "ok"
        PROVE  Reads!Read(g, reply[g].ver) /\ reply[g].ver \in 1..MaxVersion
    <3>1. path[g] \in Paths /\ reply[g].ver \in floor[g]..version[path[g]]
          /\ reply[g].ver \in 1..MaxVersion
      BY <2>2 DEF Return, IInv, TypeOK, Calls, Held, Floors, Holds, Landing, Landed, Versions, Reply
    <3> QED BY <2>2, <3>1 DEF Return, Newer, Reads!Read, Reads!End, IInv, Calls
  <2>3. ASSUME NEW g \in Getters, Return(g), reply[g].err # "ok" PROVE Reads!Fail(g)
    BY <2>3 DEF Return, Reads!Fail, Reads!End, IInv, Calls
  <2>4. ASSUME NEW g \in Getters,
               CacheGet(g) \/ JoinOrLead(g) \/ Receive(g) \/ Timeout(g) \/ Settle(g)
               \/ Delete(g) \/ Close(g) \/ Retry(g) \/ Answer(g) \/ Fail(g)
        PROVE  UNCHANGED Reads!vars
    BY <2>4 DEF CacheGet, JoinOrLead, Receive, Timeout, Settle, Delete, Close, Retry,
                Answer, Fail, FetchFails
  <2>5. ASSUME NEW p \in Paths, Change(p) PROVE Reads!Change(p)
    BY <2>5 DEF Change, Reads!Change
  <2>6. CASE Tick
    BY <2>6 DEF Tick
  <2>7. CASE UNCHANGED vars
    BY <2>7 DEF vars
  <2> QED
    BY <2>1, <2>2, <2>3, <2>4, <2>5, <2>6, <2>7 DEF Next, Step, Reads!Next
<1> QED BY <1>1, <1>2, SpecIInv, PTL DEF Spec, ReadsSpec, Reads!Spec
=============================================================================
