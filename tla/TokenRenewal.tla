---------------------------- MODULE TokenRenewal ----------------------------
(***************************************************************************)
(* fetchOnce, doGet, renewToken and tokenGrant (client.go) over the token   *)
(* pair of a Session (session.go): how the goroutines that fetch at the     *)
(* same time share, renew and retry with one pair of OAuth2 tokens.         *)
(*                                                                         *)
(* The n-th pair VBR issues to the session is access token n and refresh    *)
(* token n; 0 is the empty string.  VBR and the network are external.       *)
(***************************************************************************)
EXTENDS Naturals

CONSTANTS
  Fetchers,     \* goroutines inside fetchOnce
  NoFetcher,    \* renewMu is free
  MaxPair,      \* bound: VBR issues at most MaxPair pairs
  Lives,        \* expires_in of a new pair: subset of {"long", "short", "unknown"}
  Faults        \* what else may go wrong: subset of {"network", "refuse", "omit"}

ASSUME FetchersAssumption == NoFetcher \notin Fetchers
ASSUME MaxPairAssumption == MaxPair \in Nat \ {0}
ASSUME LivesAssumption == Lives \subseteq {"long", "short", "unknown"} /\ Lives # {}

VARIABLES
  pc,          \* where each goroutine is in fetchOnce
  attempt,     \* its attempt: "first", or "retry" from the first 401 on
  tok,         \* the access token it uses
  renewMu,     \* the goroutine that holds renewMu
  access,      \* Session.accessToken
  refresh,     \* Session.refreshToken
  life,        \* time left: "long", "short" (under a minute), "unknown" (expiresAt zero)
  coming,      \* the pair in the grant response on its way to each goroutine
  issued,      \* VBR: pairs issued so far
  liveAccess,  \* VBR: access tokens it accepts
  liveRefresh, \* VBR: refresh tokens it accepts
  refused,     \* history: the tokens each goroutine got a 401 for
  posts,       \* history: refresh grants posted per access token to be replaced (0, 1, 2 or more)
  faulty       \* history: something outside the program went wrong

session == <<access, refresh, life>>
vbr == <<issued, liveAccess, liveRefresh>>
history == <<refused, posts, faulty>>
vars == <<pc, attempt, tok, renewMu, coming, session, vbr, history>>

Pairs == 1..MaxPair
Tokens == 0..MaxPair
NoPair == [access |-> 0, refresh |-> 0]

\* "lock" to "reread" are the steps of renewToken, called in either attempt.
Renewing == {"lock", "renew", "post", "reply", "reread"}
Outcomes == {"ok", "error", "expired"}
PCs == {"token", "send"} \cup Renewing \cup Outcomes

GoTo(g, l) == pc' = [pc EXCEPT ![g] = l]

Init ==
  /\ pc = [g \in Fetchers |-> "token"]
  /\ attempt = [g \in Fetchers |-> "first"]
  /\ tok = [g \in Fetchers |-> 0]
  /\ renewMu = NoFetcher
  /\ access = 1
  /\ life \in Lives
  /\ coming = [g \in Fetchers |-> NoPair]
  /\ issued = 1
  /\ liveAccess = {1}
  /\ liveRefresh = {1}
  /\ refused = [g \in Fetchers |-> {}]
  /\ posts = [n \in Pairs |-> 0]
  /\ \/ refresh = 1 /\ faulty = FALSE
     \/ refresh = 0 /\ faulty = TRUE /\ "omit" \in Faults

Fault(f) == f \in Faults /\ faulty' = TRUE

-----------------------------------------------------------------------------
(* fetchOnce *)

\* s.token(): use the token, or renew it first when it is about to expire.
ReadToken(g) ==
  /\ pc[g] = "token"
  /\ tok' = [tok EXCEPT ![g] = access]
  /\ GoTo(g, IF life = "short" THEN "lock" ELSE "send")
  /\ UNCHANGED <<attempt, renewMu, coming, session, vbr, history>>

\* doGet: no answer within the budget, no connection, or a status other than
\* 401, which does not depend on the token.
Answered(g) ==
  /\ pc[g] = "send"
  /\ \/ GoTo(g, "error")
     \/ tok[g] \in liveAccess /\ GoTo(g, "ok")
  /\ UNCHANGED <<attempt, tok, renewMu, coming, session, vbr, history>>

\* doGet: 401, because VBR does not accept the token any more.  The second one
\* is "Session expired".
Rejected(g) ==
  /\ pc[g] = "send"
  /\ tok[g] \notin liveAccess
  /\ refused' = [refused EXCEPT ![g] = @ \cup {tok[g]}]
  /\ attempt' = [attempt EXCEPT ![g] = "retry"]
  /\ GoTo(g, IF attempt[g] = "first" THEN "lock" ELSE "expired")
  /\ UNCHANGED <<tok, renewMu, coming, session, vbr, posts, faulty>>

\* fetchOnce reads the token again after renewToken returned nil.
Reread(g) ==
  /\ pc[g] = "reread"
  /\ tok' = [tok EXCEPT ![g] = access]
  /\ GoTo(g, IF attempt[g] = "first" \/ access # tok[g] THEN "send" ELSE "expired")
  /\ UNCHANGED <<attempt, renewMu, coming, session, vbr, history>>

\* fetchOnce returned; the goroutine fetches something else.
Again(g) ==
  /\ pc[g] \in Outcomes
  /\ GoTo(g, "token")
  /\ attempt' = [attempt EXCEPT ![g] = "first"]
  /\ tok' = [tok EXCEPT ![g] = 0]
  /\ refused' = [refused EXCEPT ![g] = {}]
  /\ UNCHANGED <<renewMu, coming, session, vbr, posts, faulty>>

-----------------------------------------------------------------------------
(* renewToken, called with used = tok[g] *)

\* Slip: no mutex.
MayLockAlways == TRUE
MayLock == renewMu = NoFetcher

Lock(g) ==
  /\ pc[g] = "lock"
  /\ MayLock
  /\ renewMu' = g
  /\ GoTo(g, "renew")
  /\ UNCHANGED <<attempt, tok, coming, session, vbr, history>>

\* Another goroutine renewed while this one waited for the lock.
\* Slip: not checked again under the lock.
RenewedUnchecked(g) == FALSE
RenewedMeanwhile(g) == access # tok[g]

\* Under the lock: nothing to do, nothing to renew with, or post the grant.
Renew(g) ==
  /\ pc[g] = "renew"
  /\ \/ /\ RenewedMeanwhile(g)
        /\ renewMu' = NoFetcher
        /\ GoTo(g, "reread")
        /\ UNCHANGED posts
     \/ /\ ~RenewedMeanwhile(g) /\ refresh = 0
        /\ renewMu' = NoFetcher
        /\ GoTo(g, "expired")
        /\ UNCHANGED posts
     \/ /\ ~RenewedMeanwhile(g) /\ refresh # 0
        /\ posts' = [posts EXCEPT ![tok[g]] = IF @ = 2 THEN 2 ELSE @ + 1]
        /\ GoTo(g, "post")
        /\ UNCHANGED renewMu
  /\ UNCHANGED <<attempt, tok, coming, session, vbr, refused, faulty>>

\* VBR grants: a new pair, after which it may or may not go on accepting the
\* old tokens.  The response may lack a refresh token.
Grant(g) ==
  /\ pc[g] = "post"
  /\ refresh \in liveRefresh /\ issued < MaxPair
  /\ GoTo(g, "reply")
  /\ issued' = issued + 1
  /\ \E old \in SUBSET {access} : liveAccess' = (liveAccess \ old) \cup {issued'}
  /\ \E old \in SUBSET {refresh} : liveRefresh' = (liveRefresh \ old) \cup {issued'}
  /\ \/ coming' = [coming EXCEPT ![g] = [access |-> issued', refresh |-> issued']]
        /\ UNCHANGED faulty
     \/ coming' = [coming EXCEPT ![g] = [access |-> issued', refresh |-> 0]]
        /\ Fault("omit")
  /\ UNCHANGED <<attempt, tok, renewMu, session, refused, posts>>

\* The session keeps the pair it has.
KeepPair == UNCHANGED session

\* Any error of the grant becomes "Session expired".
GrantFails(g) ==
  /\ GoTo(g, "expired")
  /\ renewMu' = NoFetcher
  /\ coming' = [coming EXCEPT ![g] = NoPair]
  /\ KeepPair
  /\ UNCHANGED <<attempt, tok, vbr, refused, posts>>

\* VBR rejects the refresh token.
GrantRefused(g) ==
  /\ pc[g] = "post"
  /\ \/ refresh \notin liveRefresh /\ UNCHANGED faulty
     \/ Fault("refuse")
  /\ GrantFails(g)

\* The timeout of httpClient, or the connection, ends the grant.  Slip: neither.
GrantNeverTimesOut == FALSE
GrantTimesOut == Fault("network")

\* The request or its response is lost.
GrantLost(g) ==
  /\ pc[g] \in {"post", "reply"}
  /\ GrantTimesOut
  /\ GrantFails(g)

\* The whole pair of the response.  Slip: the refresh token is kept.
StoreAccess(g) == access' = coming[g].access /\ UNCHANGED refresh
StorePair(g) == access' = coming[g].access /\ refresh' = coming[g].refresh

\* s.SetTokens(access, refresh, expiresIn), and renewToken unlocks.  The last
\* pair of the model never ends, so that nobody needs one more.
SetTokens(g) ==
  /\ pc[g] = "reply"
  /\ GoTo(g, "reread")
  /\ StorePair(g)
  /\ life' \in IF access' = MaxPair THEN {"unknown"} ELSE Lives
  /\ renewMu' = NoFetcher
  /\ coming' = [coming EXCEPT ![g] = NoPair]
  /\ UNCHANGED <<attempt, tok, vbr, history>>

-----------------------------------------------------------------------------
(* Time and VBR *)

\* Less than a minute is left.
NearExpiry ==
  /\ life = "long"
  /\ life' = "short"
  /\ UNCHANGED <<pc, attempt, tok, renewMu, coming, access, refresh, vbr, history>>

\* An access token ends, at its time or earlier (VBR restarted, the token was
\* revoked): a 401 is the only sign.
Expire(n) ==
  /\ n \in liveAccess \ {MaxPair}
  /\ liveAccess' = liveAccess \ {n}
  /\ UNCHANGED <<pc, attempt, tok, renewMu, coming, session, issued, liveRefresh, history>>

-----------------------------------------------------------------------------
Step(g) ==
  \/ ReadToken(g) \/ Answered(g) \/ Rejected(g) \/ Reread(g)
  \/ Renew(g) \/ GrantLost(g) \/ SetTokens(g)

Next ==
  \/ \E g \in Fetchers : Step(g) \/ Lock(g) \/ Grant(g) \/ GrantRefused(g) \/ Again(g)
  \/ NearExpiry
  \/ \E n \in Pairs : Expire(n)

Spec == Init /\ [][Next]_vars

\* Goroutines run, sync.Mutex does not starve a waiter, and every request ends,
\* whether VBR answers or not: doGet by its budget, tokenGrant by the timeout of
\* httpClient.  Nothing makes VBR answer a grant.
FairSpec == Spec /\ \A g \in Fetchers : WF_vars(Step(g)) /\ SF_vars(Lock(g))

-----------------------------------------------------------------------------
(* Properties *)

TypeOK ==
  /\ pc \in [Fetchers -> PCs]
  /\ attempt \in [Fetchers -> {"first", "retry"}]
  /\ tok \in [Fetchers -> Tokens]
  /\ renewMu \in Fetchers \cup {NoFetcher}
  /\ access \in Pairs /\ refresh \in Tokens
  /\ life \in {"long", "short", "unknown"}
  /\ coming \in [Fetchers -> [access : Tokens, refresh : Tokens]]
  /\ issued \in Pairs
  /\ liveAccess \subseteq Pairs /\ liveRefresh \subseteq Pairs
  /\ refused \in [Fetchers -> SUBSET Tokens]
  /\ posts \in [Pairs -> 0..2]
  /\ faulty \in BOOLEAN

\* However many goroutines meet the same dead or dying token, the grant for it
\* is posted once (renewToken compares the token under renewMu), unless the
\* grant itself goes wrong.
RenewedOnce == ~faulty => \A n \in Pairs : posts[n] <= 1

\* Between renewals the session holds the pair VBR issued last, so its
\* concurrency alone never leaves it with a refresh token VBR has retired.
NewestPair ==
  ~faulty /\ renewMu = NoFetcher =>
    access = issued /\ refresh = issued /\ refresh \in liveRefresh

\* "Session expired. Reconnect." is never the doing of the other goroutines:
\* something outside failed, or VBR refused two different tokens to this one.
ExpiredHasCause ==
  \A g \in Fetchers :
    pc[g] = "expired" =>
      faulty \/ \E m, n \in refused[g] : m # n

\* Every fetch ends, also for those that wait for renewMu.
EveryFetchEnds ==
  \A g \in Fetchers : pc[g] = "token" ~> pc[g] \in Outcomes

-----------------------------------------------------------------------------
(* The inductive invariant behind RenewedOnce, NewestPair, ExpiredHasCause *)

Holding(g) == pc[g] \in {"renew", "post", "reply"}
Replying(g) == pc[g] = "reply"
Posting(g) == pc[g] \in {"post", "reply"}

\* renewMu protects the part of renewToken from the check to SetTokens.
Mutex == \A g \in Fetchers : Holding(g) <=> renewMu = g

\* The token posted for is the one the session still has; a granted pair that
\* has not been stored yet is the last one, and newer than the session's.
Exchange ==
  /\ access <= issued
  /\ \A g \in Fetchers : Posting(g) => tok[g] = access
  /\ \A g \in Fetchers : Replying(g) =>
       /\ coming[g].access = issued /\ access < issued
       /\ ~faulty => coming[g].refresh = issued

Sound ==
  ~faulty =>
    /\ issued \in liveRefresh
    /\ (\A g \in Fetchers : ~Replying(g)) => access = issued /\ refresh = issued

Counted ==
  ~faulty =>
    \A n \in Pairs :
      /\ posts[n] <= 1
      /\ n > access => posts[n] = 0
      /\ (\A g \in Fetchers : ~Posting(g)) => posts[access] = 0

\* What each goroutine has been refused, and that a retry uses a newer token.
Refusals ==
  \A g \in Fetchers :
    /\ tok[g] <= access
    /\ pc[g] = "token" => attempt[g] = "first"
    /\ attempt[g] = "retry" /\ pc[g] \in Renewing => tok[g] \in refused[g]
    /\ attempt[g] = "retry" /\ pc[g] = "reread" => tok[g] < access
    /\ attempt[g] = "retry" /\ pc[g] = "send" => \E n \in refused[g] : n < tok[g]

IInv ==
  /\ TypeOK /\ Mutex /\ Exchange /\ Sound /\ Counted /\ Refusals /\ ExpiredHasCause
=============================================================================
