--------------------------- MODULE ConsoleProofs ---------------------------
(***************************************************************************)
(* Proofs about Console for any kinds of items, any number of sessions, of *)
(* refreshes and of clicks on disconnect: IInv is inductive, hence         *)
(* RowsOfSelection, and no step breaks the action properties.              *)
(***************************************************************************)
EXTENDS Console, TLAPS

USE JobAssumption, MaxSessionsAssumption

\* The running loop asks its pages of the session whose inventory is shown.
OwnRows ==
  "app" \in shown /\ inv.sess = sessionId /\ Draws(pivot, inv.lists) =>
    /\ rows \subseteq {<<sessionId, sel>>}
    /\ loop # "off" => page.sess = sessionId

\* doConnect holds a session when it will need one.  The page has none before the
\* answer, and no other than that one after it.
Holds ==
  /\ conn.at \in {"opened", "inv", "bye"} => conn.sess # NoSession
  /\ conn.at \in {"asked", "opened"} => sessionId = NoSession
  /\ loop = "conn" => conn.at = "page"
  /\ conn.at = "bye" => sessionId \in {conn.sess, NoSession}

\* A rail that can be drawn is the pivot's.
OwnRail == "app" \in shown /\ Draws(pivot, inv.lists) => rail = pivot

IInv == TypeOK /\ FormIffNoSession /\ Holds /\ OwnRows /\ OwnRail

-----------------------------------------------------------------------------
(* Each action keeps IInv *)

LEMMA ConnectKeeps ==
  ASSUME IInv, Connect
  PROVE  IInv'
<1> USE DEF IInv, Connect, choice, list
<1>1. TypeOK'
  BY DEF TypeOK, Ids, Sessions, NoSession, NoKind, NoInv, NoPage, Idle
<1>2. FormIffNoSession'
  BY DEF FormIffNoSession, Holds, TypeOK, NoSession
<1>3. Holds'
  BY DEF Holds, TypeOK, FormIffNoSession, Idle, NoSession, Sessions
<1>4. OwnRows'
  BY DEF OwnRows, TypeOK, Draws, NoInv, NoKind
<1>5. OwnRail'
  BY DEF OwnRail, Draws, NoInv, TypeOK
<1> QED BY <1>1, <1>2, <1>3, <1>4, <1>5

LEMMA OpenKeeps ==
  ASSUME IInv, Open
  PROVE  IInv'
<1> USE DEF IInv, Open, choice, list
<1>1. TypeOK'
  BY DEF TypeOK, Ids, Sessions, NoSession, NoKind, NoInv, NoPage, Idle
<1>2. FormIffNoSession'
  BY DEF FormIffNoSession, Holds, TypeOK, NoSession
<1>3. Holds'
  BY DEF Holds, TypeOK, FormIffNoSession, Idle, NoSession, Sessions
<1>4. OwnRows'
  BY DEF OwnRows, TypeOK, Draws, NoInv, NoKind
<1>5. OwnRail'
  BY DEF OwnRail, Draws, NoInv, TypeOK
<1> QED BY <1>1, <1>2, <1>3, <1>4, <1>5

LEMMA ConnectFailsKeeps ==
  ASSUME IInv, ConnectFails
  PROVE  IInv'
<1> USE DEF IInv, ConnectFails, choice, list, Catch
<1>1. TypeOK'
  BY DEF TypeOK, Ids, Sessions, NoSession, NoKind, NoInv, NoPage, Idle
<1>2. FormIffNoSession'
  BY DEF FormIffNoSession, Holds, TypeOK, NoSession
<1>3. Holds'
  BY DEF Holds, TypeOK, FormIffNoSession, Idle, NoSession, Sessions
<1>4. OwnRows'
  BY DEF OwnRows, TypeOK, Draws, NoInv, NoKind
<1>5. OwnRail'
  BY DEF OwnRail, Draws, NoInv, TypeOK
<1> QED BY <1>1, <1>2, <1>3, <1>4, <1>5

LEMMA ConnectedKeeps ==
  ASSUME IInv, Connected
  PROVE  IInv'
<1> USE DEF IInv, Connected, choice, list, ViewsConnected
<1>1. TypeOK'
  BY DEF TypeOK, Ids, Sessions, NoSession, NoKind, NoInv, NoPage, Idle
<1>2. FormIffNoSession'
  BY DEF FormIffNoSession, Holds, TypeOK, NoSession
<1>3. Holds'
  BY DEF Holds, TypeOK, FormIffNoSession, Idle, NoSession, Sessions
<1>4. OwnRows'
  BY DEF OwnRows, TypeOK, Draws, NoInv, NoKind
<1>5. OwnRail'
  BY DEF OwnRail, Draws, NoInv, TypeOK
<1> QED BY <1>1, <1>2, <1>3, <1>4, <1>5

LEMMA InventoryComesKeeps ==
  ASSUME IInv, NEW lists \in SUBSET Kinds, InventoryComes(lists)
  PROVE  IInv'
<1> USE DEF IInv, InventoryComes, choice, list, Arrives, Catch, SelectAndLoad, Draws
<1>1. TypeOK'
  BY DEF TypeOK, Ids, Sessions, NoSession, NoKind, NoInv, NoPage, Idle
<1>2. FormIffNoSession'
  BY DEF FormIffNoSession, Holds, TypeOK, NoSession
<1>3. Holds'
  BY DEF Holds, TypeOK, FormIffNoSession, Idle, NoSession, Sessions
<1>4. OwnRows'
  BY DEF OwnRows, TypeOK, Draws, NoInv, NoKind
<1>5. OwnRail'
  BY DEF OwnRail, Draws, NoInv, TypeOK
<1> QED BY <1>1, <1>2, <1>3, <1>4, <1>5

LEMMA InventoryFailsKeeps ==
  ASSUME IInv, InventoryFails
  PROVE  IInv'
<1> USE DEF IInv, InventoryFails, choice, list, Catch
<1>1. TypeOK'
  BY DEF TypeOK, Ids, Sessions, NoSession, NoKind, NoInv, NoPage, Idle
<1>2. FormIffNoSession'
  BY DEF FormIffNoSession, Holds, TypeOK, NoSession
<1>3. Holds'
  BY DEF Holds, TypeOK, FormIffNoSession, Idle, NoSession, Sessions
<1>4. OwnRows'
  BY DEF OwnRows, TypeOK, Draws, NoInv, NoKind
<1>5. OwnRail'
  BY DEF OwnRail, Draws, NoInv, TypeOK
<1> QED BY <1>1, <1>2, <1>3, <1>4, <1>5

LEMMA ConnectEndsKeeps ==
  ASSUME IInv, ConnectEnds
  PROVE  IInv'
<1> USE DEF IInv, ConnectEnds, choice, list
<1>1. TypeOK'
  BY DEF TypeOK, Ids, Sessions, NoSession, NoKind, NoInv, NoPage, Idle
<1>2. FormIffNoSession'
  BY DEF FormIffNoSession, Holds, TypeOK, NoSession
<1>3. Holds'
  BY DEF Holds, TypeOK, FormIffNoSession, Idle, NoSession, Sessions
<1>4. OwnRows'
  BY DEF OwnRows, TypeOK, Draws, NoInv, NoKind
<1>5. OwnRail'
  BY DEF OwnRail, Draws, NoInv, TypeOK
<1> QED BY <1>1, <1>2, <1>3, <1>4, <1>5

LEMMA ConnectUndoneKeeps ==
  ASSUME IInv, ConnectUndone
  PROVE  IInv'
<1> USE DEF IInv, ConnectUndone, choice, list, Ended
<1>1. TypeOK'
  BY DEF TypeOK, Ids, Sessions, NoSession, NoKind, NoInv, NoPage, Idle
<1>2. FormIffNoSession'
  BY DEF FormIffNoSession, Holds, TypeOK, NoSession
<1>3. Holds'
  BY DEF Holds, TypeOK, FormIffNoSession, Idle, NoSession, Sessions
<1>4. OwnRows'
  BY DEF OwnRows, TypeOK, Draws, NoInv, NoKind
<1>5. OwnRail'
  BY DEF OwnRail, Draws, NoInv, TypeOK
<1> QED BY <1>1, <1>2, <1>3, <1>4, <1>5

LEMMA DisconnectKeeps ==
  ASSUME IInv, NEW b \in Disconnects, Disconnect(b)
  PROVE  IInv'
<1> USE DEF IInv, Disconnect, choice, list
<1>1. TypeOK'
  BY DEF TypeOK, Ids, Sessions, NoSession, NoKind, NoInv, NoPage, Idle
<1>2. FormIffNoSession'
  BY DEF FormIffNoSession, Holds, TypeOK, NoSession
<1>3. Holds'
  BY DEF Holds, TypeOK, FormIffNoSession, Idle, NoSession, Sessions
<1>4. OwnRows'
  BY DEF OwnRows, TypeOK, Draws, NoInv, NoKind
<1>5. OwnRail'
  BY DEF OwnRail, Draws, NoInv, TypeOK
<1> QED BY <1>1, <1>2, <1>3, <1>4, <1>5

LEMMA DisconnectedKeeps ==
  ASSUME IInv, NEW b \in Disconnects, Disconnected(b)
  PROVE  IInv'
<1> USE DEF IInv, Disconnected, choice, list, Ended
<1>1. TypeOK'
  BY DEF TypeOK, Ids, Sessions, NoSession, NoKind, NoInv, NoPage, Idle
<1>2. FormIffNoSession'
  BY DEF FormIffNoSession, Holds, TypeOK, NoSession
<1>3. Holds'
  BY DEF Holds, TypeOK, FormIffNoSession, Idle, NoSession, Sessions
<1>4. OwnRows'
  BY DEF OwnRows, TypeOK, Draws, NoInv, NoKind
<1>5. OwnRail'
  BY DEF OwnRail, Draws, NoInv, TypeOK
<1> QED BY <1>1, <1>2, <1>3, <1>4, <1>5

LEMMA RefreshKeeps ==
  ASSUME IInv, NEW r \in Refreshes, Refresh(r)
  PROVE  IInv'
<1> USE DEF IInv, Refresh, choice, list
<1>1. TypeOK'
  BY DEF TypeOK, Ids, Sessions, NoSession, NoKind, NoInv, NoPage, Idle
<1>2. FormIffNoSession'
  BY DEF FormIffNoSession, Holds, TypeOK, NoSession
<1>3. Holds'
  BY DEF Holds, TypeOK, FormIffNoSession, Idle, NoSession, Sessions
<1>4. OwnRows'
  BY DEF OwnRows, TypeOK, Draws, NoInv, NoKind
<1>5. OwnRail'
  BY DEF OwnRail, Draws, NoInv, TypeOK
<1> QED BY <1>1, <1>2, <1>3, <1>4, <1>5

LEMMA RefreshedKeeps ==
  ASSUME IInv, NEW r \in Refreshes, Refreshed(r)
  PROVE  IInv'
<1> USE DEF IInv, Refreshed, choice, list
<1>1. TypeOK'
  BY DEF TypeOK, Ids, Sessions, NoSession, NoKind, NoInv, NoPage, Idle
<1>2. FormIffNoSession'
  BY DEF FormIffNoSession, Holds, TypeOK, NoSession
<1>3. Holds'
  BY DEF Holds, TypeOK, FormIffNoSession, Idle, NoSession, Sessions
<1>4. OwnRows'
  BY DEF OwnRows, TypeOK, Draws, NoInv, NoKind
<1>5. OwnRail'
  BY DEF OwnRail, Draws, NoInv, TypeOK
<1> QED BY <1>1, <1>2, <1>3, <1>4, <1>5

LEMMA RefreshFailsKeeps ==
  ASSUME IInv, NEW r \in Refreshes, RefreshFails(r)
  PROVE  IInv'
<1> USE DEF IInv, RefreshFails, choice, list
<1>1. TypeOK'
  BY DEF TypeOK, Ids, Sessions, NoSession, NoKind, NoInv, NoPage, Idle
<1>2. FormIffNoSession'
  BY DEF FormIffNoSession, Holds, TypeOK, NoSession
<1>3. Holds'
  BY DEF Holds, TypeOK, FormIffNoSession, Idle, NoSession, Sessions
<1>4. OwnRows'
  BY DEF OwnRows, TypeOK, Draws, NoInv, NoKind
<1>5. OwnRail'
  BY DEF OwnRail, Draws, NoInv, TypeOK
<1> QED BY <1>1, <1>2, <1>3, <1>4, <1>5

LEMMA RefreshComesKeeps ==
  ASSUME IInv, NEW r \in Refreshes, NEW lists \in SUBSET Kinds, RefreshComes(r, lists)
  PROVE  IInv'
<1> USE DEF IInv, RefreshComes, choice, list, Arrives, SelectAndLoad, Draws
<1>1. TypeOK'
  BY DEF TypeOK, Ids, Sessions, NoSession, NoKind, NoInv, NoPage, Idle
<1>2. FormIffNoSession'
  BY DEF FormIffNoSession, Holds, TypeOK, NoSession
<1>3. Holds'
  BY DEF Holds, TypeOK, FormIffNoSession, Idle, NoSession, Sessions
<1>4. OwnRows'
  BY DEF OwnRows, TypeOK, Draws, NoInv, NoKind
<1>5. OwnRail'
  BY DEF OwnRail, Draws, NoInv, TypeOK
<1> QED BY <1>1, <1>2, <1>3, <1>4, <1>5

LEMMA PivotKeeps ==
  ASSUME IInv, NEW k \in Kinds, Pivot(k)
  PROVE  IInv'
<1> USE DEF IInv, Pivot, choice, list, SelectAndLoad, Draws
<1>1. TypeOK'
  BY DEF TypeOK, Ids, Sessions, NoSession, NoKind, NoInv, NoPage, Idle
<1>2. FormIffNoSession'
  BY DEF FormIffNoSession, Holds, TypeOK, NoSession
<1>3. Holds'
  BY DEF Holds, TypeOK, FormIffNoSession, Idle, NoSession, Sessions
<1>4. OwnRows'
  BY DEF OwnRows, TypeOK, Draws, NoInv, NoKind
<1>5. OwnRail'
  BY DEF OwnRail, Draws, NoInv, TypeOK
<1> QED BY <1>1, <1>2, <1>3, <1>4, <1>5

LEMMA ItemKeeps ==
  ASSUME IInv, Item
  PROVE  IInv'
<1> USE DEF IInv, Item, choice, list, SelectAndLoad, Draws
<1>1. TypeOK'
  BY DEF TypeOK, Ids, Sessions, NoSession, NoKind, NoInv, NoPage, Idle
<1>2. FormIffNoSession'
  BY DEF FormIffNoSession, Holds, TypeOK, NoSession
<1>3. Holds'
  BY DEF Holds, TypeOK, FormIffNoSession, Idle, NoSession, Sessions
<1>4. OwnRows'
  BY DEF OwnRows, TypeOK, Draws, NoInv, NoKind
<1>5. OwnRail'
  BY DEF OwnRail, Draws, NoInv, TypeOK
<1> QED BY <1>1, <1>2, <1>3, <1>4, <1>5

LEMMA AgainKeeps ==
  ASSUME IInv, Again
  PROVE  IInv'
<1> USE DEF IInv, Again, choice, list, SelectAndLoad, Draws
<1>1. TypeOK'
  BY DEF TypeOK, Ids, Sessions, NoSession, NoKind, NoInv, NoPage, Idle
<1>2. FormIffNoSession'
  BY DEF FormIffNoSession, Holds, TypeOK, NoSession
<1>3. Holds'
  BY DEF Holds, TypeOK, FormIffNoSession, Idle, NoSession, Sessions
<1>4. OwnRows'
  BY DEF OwnRows, TypeOK, Draws, NoInv, NoKind
<1>5. OwnRail'
  BY DEF OwnRail, Draws, NoInv, TypeOK
<1> QED BY <1>1, <1>2, <1>3, <1>4, <1>5

LEMMA PageComesKeeps ==
  ASSUME IInv, PageComes
  PROVE  IInv'
<1> USE DEF IInv, PageComes, choice, list, LoopEnds
<1>1. TypeOK'
  BY DEF TypeOK, Ids, Sessions, NoSession, NoKind, NoInv, NoPage, Idle
<1>2. FormIffNoSession'
  BY DEF FormIffNoSession, Holds, TypeOK, NoSession
<1>3. Holds'
  BY DEF Holds, TypeOK, FormIffNoSession, Idle, NoSession, Sessions
<1>4. OwnRows'
  BY DEF OwnRows, TypeOK, Draws, NoInv, NoKind
<1>5. OwnRail'
  BY DEF OwnRail, Draws, NoInv, TypeOK
<1> QED BY <1>1, <1>2, <1>3, <1>4, <1>5

LEMMA PageFailsKeeps ==
  ASSUME IInv, PageFails
  PROVE  IInv'
<1> USE DEF IInv, PageFails, choice, list, LoopEnds
<1>1. TypeOK'
  BY DEF TypeOK, Ids, Sessions, NoSession, NoKind, NoInv, NoPage, Idle
<1>2. FormIffNoSession'
  BY DEF FormIffNoSession, Holds, TypeOK, NoSession
<1>3. Holds'
  BY DEF Holds, TypeOK, FormIffNoSession, Idle, NoSession, Sessions
<1>4. OwnRows'
  BY DEF OwnRows, TypeOK, Draws, NoInv, NoKind
<1>5. OwnRail'
  BY DEF OwnRail, Draws, NoInv, TypeOK
<1> QED BY <1>1, <1>2, <1>3, <1>4, <1>5

LEMMA InitIInv == Init => IInv
<1> SUFFICES ASSUME Init PROVE IInv
  OBVIOUS
<1> USE DEF Init
<1>1. TypeOK
  BY DEF TypeOK, Ids, Sessions, NoSession, NoKind, NoInv, NoPage, Idle
<1>2. FormIffNoSession /\ Holds /\ OwnRows /\ OwnRail
  BY DEF FormIffNoSession, Holds, OwnRows, OwnRail, Idle
<1> QED BY <1>1, <1>2 DEF IInv

LEMMA StutterKeeps == IInv /\ UNCHANGED vars => IInv'
<1> SUFFICES ASSUME IInv, UNCHANGED vars PROVE IInv'
  OBVIOUS
<1> USE DEF IInv, vars, choice, list
<1>1. TypeOK'
  BY DEF TypeOK
<1>2. FormIffNoSession' /\ Holds' /\ OwnRows' /\ OwnRail'
  BY DEF FormIffNoSession, Holds, OwnRows, OwnRail
<1> QED BY <1>1, <1>2

LEMMA NextKeepsIInv == IInv /\ [Next]_vars => IInv'
BY StutterKeeps, ConnectKeeps, OpenKeeps, ConnectFailsKeeps, ConnectedKeeps,
     InventoryComesKeeps, InventoryFailsKeeps, ConnectEndsKeeps,
     ConnectUndoneKeeps, DisconnectKeeps, DisconnectedKeeps, RefreshKeeps,
     RefreshedKeeps, RefreshFailsKeeps, RefreshComesKeeps, PivotKeeps,
     ItemKeeps, AgainKeeps, PageComesKeeps, PageFailsKeeps DEF Next

LEMMA SpecIInv == Spec => []IInv
  BY InitIInv, NextKeepsIInv, PTL DEF Spec

-----------------------------------------------------------------------------
(* What follows *)

\* The variables of the page and of the server stay in their types: every id the page
\* or one of its calls holds was made by the store.
THEOREM ConsoleTypeCorrect == Spec => []TypeOK
<1>1. IInv => TypeOK
  BY DEF IInv
<1> QED BY <1>1, SpecIInv, PTL

\* The connection form is shown exactly when there is no session.
THEOREM FormShownWithoutSession == Spec => []FormIffNoSession
<1>1. IInv => FormIffNoSession
  BY DEF IInv
<1> QED BY <1>1, SpecIInv, PTL

\* No page that arrives late gets between the rows of the selection: comparing
\* loadSeq is enough, though disconnect does not advance it.
THEOREM RowsAreOfSelection == Spec => []RowsOfSelection
<1>1. IInv => RowsOfSelection
  BY DEF IInv, OwnRows, RowsOfSelection
<1> QED BY <1>1, SpecIInv, PTL
\* An inventory of another session is shown only when it comes late.
LEMMA MixStep ==
  ASSUME IInv, [Next]_vars, OwnInventory, ~OwnInventory'
  PROVE  LateInventory
<1> USE DEF OwnInventory, LateInventory
<1>1. (\E lists \in SUBSET Kinds : InventoryComes(lists)) => LateInventory
  BY DEF InventoryComes, Arrives, Catch, Idle, IInv, TypeOK
<1>2. (\E r \in Refreshes, lists \in SUBSET Kinds : RefreshComes(r, lists)) => LateInventory
  <2> SUFFICES ASSUME NEW r \in Refreshes, NEW lists \in SUBSET Kinds, RefreshComes(r, lists)
               PROVE  LateInventory
    OBVIOUS
  <2>1. refresh[r].at = "get" /\ refresh'[r] = Idle
    BY DEF RefreshComes, IInv, TypeOK
  <2>2. refresh[r].sess # sessionId
    BY DEF RefreshComes, Arrives, IInv, TypeOK
  <2> QED BY <2>1, <2>2
<1>3. ~Connected /\ ~ConnectUndone /\ ~(\E b \in Disconnects : Disconnected(b))
  BY DEF Connected, ViewsConnected, ConnectUndone, Disconnected, Ended, NoInv, NoSession
<1>4. ASSUME shown' \intersect {"app"} \subseteq shown, inv' = inv, sessionId' = sessionId
      PROVE  FALSE
  BY <1>4
<1>5. (\E r \in Refreshes : Refreshed(r)) => FALSE
  BY <1>4 DEF Refreshed
<1>6. UNCHANGED <<shown, inv, sessionId>> => FALSE
  BY <1>4
<1> QED
  BY <1>1, <1>2, <1>3, <1>5, <1>6
  DEF Next, vars, Connect, Open, ConnectFails, InventoryFails, ConnectEnds, Disconnect, Refresh,
      RefreshFails, Pivot, Item, Again, PageComes, PageFails

\* The inventory of another session is shown only after a late answer.
THEOREM OnlyLateInventory == Spec => OnlyLateInventoryMixes
<1>1. IInv /\ [Next]_vars => [OwnInventory /\ ~OwnInventory' => LateInventory]_vars
  BY MixStep
<1> QED BY <1>1, SpecIInv, PTL DEF Spec, OnlyLateInventoryMixes

LEMMA OrphanStep ==
  ASSUME IInv, [Next]_vars, ~(Orphans' \subseteq Orphans)
  PROVE  IdLost \/ CallLost \/ LateCall
<1> PICK s \in Orphans' : s \notin Orphans
  OBVIOUS
<1> USE DEF Orphans, Known
<1>0. s \in Sessions /\ s # NoSession
  <2>1. IInv'
    BY NextKeepsIInv
  <2> QED BY <2>1 DEF IInv, TypeOK, Sessions, NoSession
<1>1. ASSUME store' = store, sessionId' = sessionId, byes' = byes,
             conn.at \in {"opened", "bye"} => conn'.at \in {"opened", "bye"} /\ conn'.sess = conn.sess
      PROVE  FALSE
  BY <1>1
<1>2. Open => FALSE
  BY DEF Open
<1>3. ConnectFails => IdLost
  BY <1>0, <1>1 DEF ConnectFails, Catch, IdLost, IInv, TypeOK, Holds, Idle
<1>4. Connected => FALSE
  BY <1>0 DEF Connected, IInv, TypeOK, Holds
<1>5. ConnectUndone => CallLost
  BY <1>0 DEF ConnectUndone, Ended, CallLost, IInv, TypeOK, Holds
<1>6. ASSUME NEW b \in Disconnects, Disconnect(b)
      PROVE  FALSE
  BY <1>0, <1>6 DEF Disconnect, IInv, TypeOK
<1>7. ASSUME NEW b \in Disconnects, Disconnected(b)
      PROVE  CallLost \/ LateCall
  <2>1. byes[b] # NoSession /\ byes'[b] = NoSession
    BY <1>7 DEF Disconnected, IInv, TypeOK
  <2>2. CASE byes[b] # sessionId
    BY <2>1, <2>2 DEF LateCall
  <2>3. CASE byes[b] = sessionId
    <3>1. s = sessionId
      BY <1>7, <2>3 DEF Disconnected, Ended, IInv, TypeOK
    <3> QED BY <2>1, <2>3, <3>1 DEF CallLost
  <2> QED BY <2>2, <2>3
<1>8. ASSUME NEW lists \in SUBSET Kinds, InventoryComes(lists)
      PROVE  FALSE
  BY <1>8, <1>0, <1>1 DEF InventoryComes, Catch, IInv, TypeOK, Holds
<1>9. InventoryFails \/ ConnectEnds \/ Connect \/ PageComes \/ PageFails => FALSE
  BY <1>1 DEF InventoryFails, Catch, ConnectEnds, Connect, PageComes, PageFails, LoopEnds, Idle,
             IInv, TypeOK, Holds
<1>10. ASSUME UNCHANGED <<store, sessionId, byes, conn>>
       PROVE  FALSE
  BY <1>10, <1>1
<1> QED
  BY <1>2, <1>3, <1>4, <1>5, <1>6, <1>7, <1>8, <1>9, <1>10
  DEF Next, vars, Refresh, Refreshed, RefreshFails, RefreshComes, Pivot, Item, Again

\* A session of the server is forgotten only with a lost answer, a lost disconnect or
\* a second disconnect that is answered late.
THEOREM SessionsForgottenOnlyByLoss == Spec => OrphanedOnlyByLoss
<1>1. IInv /\ [Next]_vars => [~(Orphans' \subseteq Orphans) => IdLost \/ CallLost \/ LateCall]_vars
  BY OrphanStep
<1> QED BY <1>1, SpecIInv, PTL DEF Spec, OrphanedOnlyByLoss

LEMMA FollowStep ==
  ASSUME IInv, [Next]_vars, FollowsPivot, ~FollowsPivot'
  PROVE  conn.at = "inv" \/ ~Draws(pivot', inv.lists)
<1> USE DEF FollowsPivot
<1>1. ASSUME NEW lists \in SUBSET Kinds, InventoryComes(lists)
      PROVE  conn.at = "inv"
  BY <1>1 DEF InventoryComes
<1>2. ASSUME NEW r \in Refreshes, NEW lists \in SUBSET Kinds, RefreshComes(r, lists)
      PROVE  FALSE
  BY <1>2 DEF RefreshComes
<1>3. ASSUME NEW k \in Kinds, Pivot(k)
      PROVE  ~Draws(pivot', inv.lists)
  BY <1>3 DEF Pivot, Draws
<1>4. Item => ~Draws(pivot', inv.lists)
  BY DEF Item, IInv, OwnRail
<1>5. UNCHANGED <<pivot, sel>> => FALSE
  OBVIOUS
<1> QED
  BY <1>1, <1>2, <1>3, <1>4, <1>5
  DEF Next, vars, choice, Connect, Open, ConnectFails, Connected, InventoryFails, ConnectEnds,
      ConnectUndone, Disconnect, Disconnected, Ended, Refresh, Refreshed, RefreshFails, Again,
      PageComes, PageFails

\* The selection leaves the kind of the pivot only with a new connection, or where a
\* list is missing.
THEOREM SelectionIsOfPivot == Spec => SelectionFollowsPivot
<1>1. IInv /\ [Next]_vars =>
        [FollowsPivot /\ ~FollowsPivot' => conn.at = "inv" \/ ~Draws(pivot', inv.lists)]_vars
  BY FollowStep
<1> QED BY <1>1, SpecIInv, PTL DEF Spec, SelectionFollowsPivot

LEMMA StuckStep ==
  ASSUME IInv, [Next]_vars, ~Stuck, Stuck'
  PROVE  \E r \in Refreshes : refresh[r].at = "get" /\ refresh'[r] = Idle
<1> USE DEF Stuck
<1>1. ASSUME NEW r \in Refreshes, RefreshFails(r)
      PROVE  refresh[r].at = "get" /\ refresh'[r] = Idle
  BY <1>1 DEF RefreshFails, IInv, TypeOK
<1>2. ASSUME NEW r \in Refreshes, Refreshed(r)
      PROVE  FALSE
  BY <1>2 DEF Refreshed, IInv, TypeOK
<1>3. ASSUME NEW r \in Refreshes, Refresh(r)
      PROVE  FALSE
  BY <1>3 DEF Refresh, Idle, IInv, TypeOK
<1>4. "load" \in shown' /\ \A r \in Refreshes : refresh'[r].at # "get"
  OBVIOUS
<1>5. ASSUME NEW lists \in SUBSET Kinds,
             InventoryComes(lists) \/ \E r \in Refreshes : RefreshComes(r, lists)
      PROVE  FALSE
  BY <1>4, <1>5 DEF InventoryComes, RefreshComes, Arrives
<1>6. ConnectUndone \/ (\E b \in Disconnects : Disconnected(b)) => FALSE
  BY <1>4 DEF ConnectUndone, Disconnected, Ended
<1>7. Connected \/ InventoryFails => FALSE
  BY DEF Connected, InventoryFails, Catch, IInv, TypeOK, Holds
<1>8. ASSUME UNCHANGED <<shown, refresh, sessionId>>, conn.at \notin {"inv", "bye"} \/ conn' = conn
      PROVE  FALSE
  BY <1>8
<1>9. ConnectFails \/ ConnectEnds \/ PageComes \/ PageFails \/ Connect \/ Open => FALSE
  BY <1>8 DEF ConnectFails, ConnectEnds, PageComes, PageFails, LoopEnds, Connect, Open, IInv, Holds
<1>10. UNCHANGED <<shown, refresh, sessionId, conn>> => FALSE
  BY <1>8
<1> QED
  BY <1>1, <1>2, <1>3, <1>5, <1>6, <1>7, <1>9, <1>10
  DEF Next, vars, Disconnect, Pivot, Item, Again

\* The loading view is left without anybody who loads only by a refresh that fails.
THEOREM LoadingEndsButForRefresh == Spec => StuckOnlyByRefresh
<1>1. IInv /\ [Next]_vars =>
        [~Stuck /\ Stuck' => \E r \in Refreshes : refresh[r].at = "get" /\ refresh'[r] = Idle]_vars
  BY StuckStep
<1> QED BY <1>1, SpecIInv, PTL DEF Spec, StuckOnlyByRefresh
=============================================================================
