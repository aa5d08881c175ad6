------------------------- MODULE TokenRenewalProofs -------------------------
(***************************************************************************)
(* Proofs about TokenRenewal for any number of goroutines and of token     *)
(* pairs, any token lives and any set of faults: IInv is inductive, hence  *)
(* RenewedOnce, NewestPair and ExpiredHasCause.                            *)
(***************************************************************************)
EXTENDS TokenRenewal, TLAPS

USE FetchersAssumption, MaxPairAssumption, LivesAssumption

-----------------------------------------------------------------------------
(* fetchOnce outside renewToken: the token pair does not change *)

LEMMA ReadTokenKeeps ==
  ASSUME IInv, NEW g \in Fetchers, ReadToken(g)
  PROVE  IInv'
<1> USE DEF IInv, ReadToken, GoTo, TypeOK, session, vbr, history
<1>1. TypeOK'
  BY DEF PCs, Renewing, Tokens, Pairs
<1>2. Mutex' /\ Exchange'
  BY DEF Mutex, Exchange, Holding, Replying, Posting
<1>3. Sound' /\ Counted'
  BY DEF Sound, Counted, Replying, Posting
<1>4. Refusals'
  BY DEF Refusals, Renewing, Pairs
<1>5. ExpiredHasCause'
  BY DEF ExpiredHasCause
<1> QED BY <1>1, <1>2, <1>3, <1>4, <1>5

LEMMA AnsweredKeeps ==
  ASSUME IInv, NEW g \in Fetchers, Answered(g)
  PROVE  IInv'
<1> USE DEF IInv, Answered, GoTo, TypeOK, session, vbr, history
<1>1. TypeOK'
  BY DEF PCs, Outcomes
<1>2. Mutex' /\ Exchange'
  BY DEF Mutex, Exchange, Holding, Replying, Posting
<1>3. Sound' /\ Counted'
  BY DEF Sound, Counted, Replying, Posting
<1>4. Refusals'
  BY DEF Refusals, Renewing
<1>5. ExpiredHasCause'
  BY DEF ExpiredHasCause
<1> QED BY <1>1, <1>2, <1>3, <1>4, <1>5

\* The second 401 is for a token newer than the one of the first.
LEMMA RejectedKeeps ==
  ASSUME IInv, NEW g \in Fetchers, Rejected(g)
  PROVE  IInv'
<1> USE DEF IInv, Rejected, GoTo, TypeOK, session, vbr
<1>1. TypeOK'
  BY DEF PCs, Renewing, Outcomes
<1>2. Mutex' /\ Exchange'
  BY DEF Mutex, Exchange, Holding, Replying, Posting
<1>3. Sound' /\ Counted'
  BY DEF Sound, Counted, Replying, Posting
<1>4. Refusals'
  BY DEF Refusals, Renewing
<1>5. ExpiredHasCause'
  <2>1. CASE attempt[g] = "retry"
    <3>1. PICK n \in refused[g] : n < tok[g]
      BY <2>1 DEF Refusals
    <3>2. n \in refused'[g] /\ tok[g] \in refused'[g] /\ n # tok[g]
      BY <3>1 DEF Tokens
    <3> QED BY <3>2 DEF ExpiredHasCause
  <2>2. CASE attempt[g] = "first"
    BY <2>2 DEF ExpiredHasCause
  <2> QED BY <2>1, <2>2
<1> QED BY <1>1, <1>2, <1>3, <1>4, <1>5

LEMMA RereadKeeps ==
  ASSUME IInv, NEW g \in Fetchers, Reread(g)
  PROVE  IInv'
<1> USE DEF IInv, Reread, GoTo, TypeOK, session, vbr, history
<1>1. TypeOK'
  BY DEF PCs, Outcomes, Tokens, Pairs
<1>2. Mutex' /\ Exchange'
  BY DEF Mutex, Exchange, Holding, Replying, Posting
<1>3. Sound' /\ Counted'
  BY DEF Sound, Counted, Replying, Posting
<1>4. Refusals'
  BY DEF Refusals, Renewing, Pairs
<1>5. ExpiredHasCause'
  BY DEF ExpiredHasCause, Refusals, Tokens, Pairs
<1> QED BY <1>1, <1>2, <1>3, <1>4, <1>5

LEMMA AgainKeeps ==
  ASSUME IInv, NEW g \in Fetchers, Again(g)
  PROVE  IInv'
<1> USE DEF IInv, Again, GoTo, TypeOK, Outcomes, session, vbr
<1>1. TypeOK'
  BY DEF PCs, Tokens
<1>2. Mutex' /\ Exchange'
  BY DEF Mutex, Exchange, Holding, Replying, Posting
<1>3. Sound' /\ Counted'
  BY DEF Sound, Counted, Replying, Posting
<1>4. Refusals'
  BY DEF Refusals, Renewing, Pairs
<1>5. ExpiredHasCause'
  BY DEF ExpiredHasCause
<1> QED BY <1>1, <1>2, <1>3, <1>4, <1>5

-----------------------------------------------------------------------------
(* renewToken *)

LEMMA LockKeeps ==
  ASSUME IInv, NEW g \in Fetchers, Lock(g)
  PROVE  IInv'
<1> USE DEF IInv, Lock, MayLock, GoTo, TypeOK, session, vbr, history
<1>1. TypeOK'
  BY DEF PCs, Renewing
<1>2. Mutex' /\ Exchange'
  BY DEF Mutex, Exchange, Holding, Replying, Posting
<1>3. Sound' /\ Counted'
  BY DEF Sound, Counted, Replying, Posting
<1>4. Refusals'
  BY DEF Refusals, Renewing
<1>5. ExpiredHasCause'
  BY DEF ExpiredHasCause
<1> QED BY <1>1, <1>2, <1>3, <1>4, <1>5

\* Under the lock nobody holds a reply, so a session without fault has a
\* refresh token.
LEMMA RenewKeeps ==
  ASSUME IInv, NEW g \in Fetchers, Renew(g)
  PROVE  IInv'
<1> USE DEF IInv, GoTo, TypeOK, session, vbr
<1>1. \A h \in Fetchers : ~Replying(h) /\ ~Posting(h)
  BY DEF Renew, Mutex, Holding, Replying, Posting
<1>2. pc[g] = "renew" /\ UNCHANGED <<attempt, tok, coming, session, vbr, refused, faulty>>
  BY DEF Renew
<1>3. CASE pc' = [pc EXCEPT ![g] = "reread"] /\ access # tok[g] /\ renewMu' = NoFetcher /\ posts' = posts
  <2>1. TypeOK'
    BY <1>2, <1>3 DEF PCs, Renewing
  <2>2. Mutex' /\ Exchange'
    BY <1>2, <1>3 DEF Mutex, Exchange, Holding, Replying, Posting
  <2>3. Sound' /\ Counted' /\ ExpiredHasCause'
    BY <1>2, <1>3 DEF Sound, Counted, Replying, Posting, ExpiredHasCause
  <2>4. Refusals'
    BY <1>2, <1>3 DEF Refusals, Renewing, Tokens, Pairs
  <2> QED BY <2>1, <2>2, <2>3, <2>4
<1>4. CASE pc' = [pc EXCEPT ![g] = "expired"] /\ refresh = 0 /\ renewMu' = NoFetcher /\ posts' = posts
  <2>1. TypeOK'
    BY <1>2, <1>4 DEF PCs, Outcomes
  <2>2. Mutex' /\ Exchange'
    BY <1>2, <1>4 DEF Mutex, Exchange, Holding, Replying, Posting
  <2>3. faulty
    BY <1>1, <1>4 DEF Sound, Pairs
  <2>4. Sound' /\ Counted' /\ ExpiredHasCause'
    BY <1>2, <1>4, <2>3 DEF Sound, Counted, ExpiredHasCause
  <2>5. Refusals'
    BY <1>2, <1>4 DEF Refusals, Renewing
  <2> QED BY <2>1, <2>2, <2>4, <2>5
<1>5. CASE /\ pc' = [pc EXCEPT ![g] = "post"] /\ access = tok[g] /\ renewMu' = renewMu
           /\ posts' = [posts EXCEPT ![tok[g]] = IF @ = 2 THEN 2 ELSE @ + 1]
  <2>1. posts' \in [Pairs -> 0..2]
    BY <1>5
  <2>2. TypeOK'
    BY <1>2, <1>5, <2>1 DEF PCs, Renewing
  <2>3. Mutex' /\ Exchange'
    BY <1>2, <1>5 DEF Mutex, Exchange, Holding, Replying, Posting
  <2>4. Sound' /\ ExpiredHasCause'
    BY <1>2, <1>5 DEF Sound, Replying, ExpiredHasCause
  <2>5. Counted'
    <3>1. SUFFICES ASSUME ~faulty
                   PROVE  \A n \in Pairs : posts'[n] <= 1 /\ (n > access => posts'[n] = 0)
      BY <1>2, <1>5, <3>1 DEF Counted, Posting
    <3>2. posts[access] = 0 /\ \A n \in Pairs : posts[n] <= 1 /\ (n > access => posts[n] = 0)
      BY <1>1, <3>1 DEF Counted
    <3>3. posts' = [posts EXCEPT ![access] = 1]
      BY <1>5, <3>2
    <3> QED BY <3>2, <3>3 DEF Pairs
  <2>6. Refusals'
    BY <1>2, <1>5 DEF Refusals, Renewing
  <2> QED BY <2>2, <2>3, <2>4, <2>5, <2>6
<1> QED BY <1>3, <1>4, <1>5 DEF Renew, RenewedMeanwhile

LEMMA GrantKeeps ==
  ASSUME IInv, NEW g \in Fetchers, Grant(g)
  PROVE  IInv'
<1> USE DEF IInv, GoTo, TypeOK, session
<1>1. /\ pc[g] = "post" /\ pc' = [pc EXCEPT ![g] = "reply"]
      /\ refresh \in liveRefresh /\ issued < MaxPair /\ issued' = issued + 1
      /\ liveAccess' \subseteq liveAccess \cup {issued'}
      /\ liveRefresh' \subseteq liveRefresh \cup {issued'} /\ issued' \in liveRefresh'
      /\ UNCHANGED <<attempt, tok, renewMu, session, refused, posts>>
  BY DEF Grant
<1>2. tok[g] = access /\ \A h \in Fetchers : ~Replying(h) /\ (Replying(h)' <=> h = g)
  BY <1>1 DEF Exchange, Mutex, Holding, Replying, Posting
<1>3. issued' \in Pairs /\ liveAccess' \subseteq Pairs /\ liveRefresh' \subseteq Pairs
  <2>1. issued + 1 \in Pairs
    BY <1>1 DEF Pairs
  <2> QED BY <1>1, <2>1
<1>4. \E r \in Tokens :
        /\ coming' = [coming EXCEPT ![g] = [access |-> issued', refresh |-> r]]
        /\ (r = issued' /\ faulty' = faulty) \/ faulty' = TRUE
  BY <1>3 DEF Grant, Fault, Tokens, Pairs
<1>5. TypeOK'
  <2>1. coming' \in [Fetchers -> [access : Tokens, refresh : Tokens]] /\ faulty' \in BOOLEAN
    <3>1. PICK r \in Tokens :
            /\ coming' = [coming EXCEPT ![g] = [access |-> issued', refresh |-> r]]
            /\ faulty' = faulty \/ faulty' = TRUE
      BY <1>4
    <3>2. issued' \in Tokens
      BY <1>3 DEF Tokens, Pairs
    <3> QED BY <3>1, <3>2
  <2> QED BY <1>1, <1>3, <2>1 DEF PCs, Renewing
<1>6. Mutex'
  BY <1>1 DEF Mutex, Holding
<1>7. Exchange'
  <2>1. access <= issued /\ access < issued'
    BY <1>1 DEF Exchange, Pairs
  <2>2. coming'[g].access = issued' /\ (~faulty' => coming'[g].refresh = issued')
    BY <1>4
  <2>3. \A h \in Fetchers : Posting(h)' => h = g
    BY <1>1 DEF Mutex, Holding, Posting
  <2>4. \A h \in Fetchers : Replying(h)' => h = g
    BY <1>2
  <2>5. access' <= issued'
    BY <1>1, <2>1 DEF Pairs
  <2> QED BY <1>1, <1>2, <2>1, <2>2, <2>3, <2>4, <2>5 DEF Exchange
<1>8. Sound' /\ Counted'
  <2>1. \A h \in Fetchers : Posting(h)' <=> Posting(h)
    BY <1>1 DEF Posting
  <2> QED BY <1>1, <1>2, <1>4, <2>1 DEF Sound, Counted, Pairs
<1>9. Refusals' /\ ExpiredHasCause'
  BY <1>1, <1>4 DEF Refusals, ExpiredHasCause, Renewing
<1> QED BY <1>5, <1>6, <1>7, <1>8, <1>9

\* The refresh token of a session without fault is live, so only a fault makes
\* the grant fail.
LEMMA GrantFailsKeeps ==
  ASSUME IInv, NEW g \in Fetchers, GrantRefused(g) \/ GrantLost(g)
  PROVE  IInv'
<1> USE DEF IInv, GoTo, TypeOK, session, vbr
<1>1. /\ pc[g] \in {"post", "reply"} /\ pc' = [pc EXCEPT ![g] = "expired"]
      /\ renewMu' = NoFetcher /\ coming' = [coming EXCEPT ![g] = NoPair]
      /\ UNCHANGED <<attempt, tok, session, vbr, refused, posts>>
  BY DEF GrantRefused, GrantLost, GrantFails, KeepPair
<1>2. faulty' = TRUE
  <2>1. CASE pc[g] = "post" /\ refresh \notin liveRefresh /\ UNCHANGED faulty
    <3>1. \A h \in Fetchers : ~Replying(h)
      BY <2>1 DEF Mutex, Holding, Replying, Posting
    <3> QED BY <2>1, <3>1 DEF Sound
  <2> QED BY <2>1 DEF GrantRefused, GrantLost, GrantTimesOut, Fault
<1>3. TypeOK'
  BY <1>1, <1>2 DEF PCs, Outcomes, NoPair, Tokens
<1>4. Mutex' /\ Exchange'
  BY <1>1, <1>2 DEF Mutex, Exchange, Holding, Replying, Posting
<1>5. Sound' /\ Counted' /\ ExpiredHasCause'
  BY <1>2 DEF Sound, Counted, ExpiredHasCause
<1>6. Refusals'
  BY <1>1 DEF Refusals, Renewing
<1> QED BY <1>3, <1>4, <1>5, <1>6

\* The session moves on to the pair VBR issued last.
LEMMA SetTokensKeeps ==
  ASSUME IInv, NEW g \in Fetchers, SetTokens(g)
  PROVE  IInv'
<1> USE DEF IInv, GoTo, TypeOK, vbr, history
<1>1. /\ pc[g] = "reply" /\ pc' = [pc EXCEPT ![g] = "reread"]
      /\ access' = coming[g].access /\ refresh' = coming[g].refresh
      /\ renewMu' = NoFetcher /\ coming' = [coming EXCEPT ![g] = NoPair]
      /\ UNCHANGED <<attempt, tok, vbr, history>>
  BY DEF SetTokens, StorePair
<1>2. access' = issued /\ access < access' /\ tok[g] = access
      /\ (~faulty => refresh' = issued)
  BY <1>1 DEF Exchange, Replying, Posting
<1>3. TypeOK'
  <2>1. life' \in {"long", "short", "unknown"}
    <3>1. life' \in IF access' = MaxPair THEN {"unknown"} ELSE Lives
      BY DEF SetTokens
    <3> QED BY <3>1, LivesAssumption
  <2> QED BY <1>1, <1>2, <2>1 DEF PCs, Renewing, NoPair, Tokens
<1>4. Mutex' /\ Exchange'
  BY <1>1, <1>2 DEF Mutex, Exchange, Holding, Replying, Posting, Pairs
<1>5. Sound' /\ Counted' /\ ExpiredHasCause'
  BY <1>1, <1>2 DEF Sound, Counted, Replying, Posting, ExpiredHasCause, Pairs
<1>6. Refusals'
  BY <1>1, <1>2 DEF Refusals, Renewing, Tokens, Pairs
<1> QED BY <1>3, <1>4, <1>5, <1>6

-----------------------------------------------------------------------------
(* The theorems *)

LEMMA InitIInv == Init => IInv
<1> SUFFICES ASSUME Init PROVE IInv
  OBVIOUS
<1> USE DEF Init
<1>1. TypeOK
  <2>1. 0 \in Tokens /\ 1 \in Tokens /\ 1 \in Pairs
    BY MaxPairAssumption DEF Pairs, Tokens
  <2>2. coming \in [Fetchers -> [access : Tokens, refresh : Tokens]]
    BY <2>1 DEF NoPair
  <2>3. life \in {"long", "short", "unknown"} /\ pc \in [Fetchers -> PCs]
    BY LivesAssumption DEF PCs
  <2>4. refused \in [Fetchers -> SUBSET Tokens]
    OBVIOUS
  <2>5. posts \in [Pairs -> 0..2]
    OBVIOUS
  <2>6. access \in Pairs /\ issued \in Pairs /\ liveAccess \subseteq Pairs /\ liveRefresh \subseteq Pairs
    BY <2>1
  <2>7. refresh \in Tokens /\ faulty \in BOOLEAN
    BY <2>1
  <2>8. /\ attempt \in [Fetchers -> {"first", "retry"}] /\ tok \in [Fetchers -> Tokens]
        /\ renewMu \in Fetchers \cup {NoFetcher}
    BY <2>1
  <2> QED BY <2>2, <2>3, <2>4, <2>5, <2>6, <2>7, <2>8 DEF TypeOK
<1>2. Mutex /\ Exchange
  BY DEF Mutex, Exchange, Holding, Replying, Posting
<1>3. Sound /\ Counted /\ Refusals /\ ExpiredHasCause
  BY DEF Sound, Counted, Refusals, ExpiredHasCause, Renewing, Pairs
<1> QED BY <1>1, <1>2, <1>3 DEF IInv

LEMMA NextKeepsIInv == IInv /\ [Next]_vars => IInv'
<1> SUFFICES ASSUME IInv, [Next]_vars PROVE IInv'
  OBVIOUS
<1>1. ASSUME NEW g \in Fetchers, Step(g) \/ Lock(g) \/ Grant(g) \/ GrantRefused(g) \/ Again(g) PROVE IInv'
  BY <1>1, ReadTokenKeeps, AnsweredKeeps, RejectedKeeps, RereadKeeps, AgainKeeps, LockKeeps,
     RenewKeeps, GrantKeeps, GrantFailsKeeps, SetTokensKeeps DEF Step
<1>2. CASE NearExpiry \/ (\E n \in Pairs : Expire(n)) \/ UNCHANGED vars
  <2>1. /\ UNCHANGED <<pc, attempt, tok, renewMu, coming, access, refresh, issued,
                      liveRefresh, refused, posts, faulty>>
        /\ life' \in {"long", "short", "unknown"} /\ liveAccess' \subseteq Pairs
    BY <1>2 DEF NearExpiry, Expire, vars, session, vbr, history, IInv, TypeOK
  <2>2. TypeOK' /\ Mutex' /\ Exchange'
    BY <2>1 DEF IInv, TypeOK, Mutex, Exchange, Holding, Replying, Posting
  <2>3. Sound' /\ Counted' /\ Refusals' /\ ExpiredHasCause'
    BY <2>1 DEF IInv, Sound, Counted, Refusals, ExpiredHasCause, Replying, Posting
  <2> QED BY <2>2, <2>3 DEF IInv
<1> QED BY <1>1, <1>2 DEF Next

LEMMA SpecIInv == Spec => []IInv
  BY InitIInv, NextKeepsIInv, PTL DEF Spec

\* The variables of fetchOnce, of the session and of VBR stay in their types: the
\* session always has an access token, and no grant is posted a third time.
THEOREM TokensTypeCorrect == Spec => []TypeOK
<1>1. IInv => TypeOK
  BY DEF IInv
<1> QED BY <1>1, SpecIInv, PTL

\* The grant for a token is not posted twice, however many goroutines find it
\* dead: the comparison in renewToken under renewMu is enough.
THEOREM TokenRenewedOnce == Spec => []RenewedOnce
<1>1. IInv => RenewedOnce
  BY DEF IInv, Counted, RenewedOnce
<1> QED BY <1>1, SpecIInv, PTL

\* A session nothing outside has failed holds the newest pair, refresh token
\* included, whenever renewMu is free.
THEOREM SessionHoldsNewestPair == Spec => []NewestPair
<1>1. IInv => NewestPair
  BY DEF IInv, TypeOK, Mutex, Holding, Replying, Posting, Sound, NewestPair
<1> QED BY <1>1, SpecIInv, PTL

\* Nobody is told "Session expired" because of what other goroutines did.
THEOREM ExpiryIsNotSelfMade == Spec => []ExpiredHasCause
<1>1. IInv => ExpiredHasCause
  BY DEF IInv
<1> QED BY <1>1, SpecIInv, PTL
=============================================================================
