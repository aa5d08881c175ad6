------------------------------ MODULE Console ------------------------------
(***************************************************************************)
(* The web console (index.html) and the session store of the server        *)
(* (session.go), as one user sees them.  The functions of the page are     *)
(* asynchronous: while one waits for an answer the user may click again,   *)
(* and the global state (sessionId, S, the views that are shown) belongs   *)
(* to whichever function continues next.                                   *)
(*                                                                         *)
(* A restore point loop that another one has superseded (loadSeq) changes  *)
(* nothing, so only the current loop is here; it is told apart whether     *)
(* doConnect or a click runs it, because the connect buttons are disabled  *)
(* until doConnect ends.  Retention, details and the search box are left   *)
(* out; RestorePointDetail has the detail pane.  One item for each kind    *)
(* (job, vm, repo) is enough: another item of the same list behaves as the *)
(* first item of another list.                                             *)
(*                                                                         *)
(* The inventory leaves a list of Go out of a JSON array when nothing was  *)
(* appended to it: it is null, and S.inv.jobs[0] or .map throw.  lists is  *)
(* the set of the kinds that are not null.                                 *)
(***************************************************************************)
EXTENDS Naturals

CONSTANTS
  Kinds,        \* kinds of items, one of them is Job
  Job,
  Refreshes,    \* bound: refreshes of the inventory at the same time
  Disconnects,  \* bound: clicks on disconnect that wait at the same time
  MaxSessions   \* bound: sessions the store ever makes

ASSUME JobAssumption == Job \in Kinds
ASSUME MaxSessionsAssumption == MaxSessions \in Nat

VARIABLES
  store,        \* Store.sessions: the sessions the server knows
  made,         \* sessions made so far
  sessionId,    \* sessionId of the page
  shown,        \* the views that are displayed
  inv,          \* S.inv: the session it was read in, and the lists that are not null
  pivot,        \* S.pivot
  sel,          \* the kind of S.selectedId
  rail,         \* the kind of the items that renderList drew last
  rows,         \* S.rps: of which session and which item
  loop,         \* who runs the current loop of selectAndLoad: "off", "user" or "conn"
  page,         \* the page it waits for: session and pivot of the request
  conn,         \* where doConnect is, and its session
  refresh,      \* where each refreshInventory is, and its session
  byes          \* disconnect: the session each call wants to end

choice == <<pivot, sel, rail>>
list   == <<rows, loop, page>>
vars   == <<store, made, sessionId, shown, inv, choice, list, conn, refresh, byes>>

Sessions  == 1..MaxSessions
NoSession == 0
Ids       == Sessions \union {NoSession}
NoInv     == [sess |-> NoSession, lists |-> {}]
NoKind    == "none"
Idle      == [at |-> "off", sess |-> NoSession]
NoPage    == [sess |-> NoSession, pivot |-> Job]

Init ==
  /\ store = {}
  /\ made = 0
  /\ sessionId = NoSession
  /\ shown = {"connect"}
  /\ inv = NoInv
  /\ pivot = Job
  /\ sel = NoKind
  /\ rail = NoKind
  /\ rows = {}
  /\ loop = "off"
  /\ page = NoPage
  /\ conn = Idle
  /\ refresh = [r \in Refreshes |-> Idle]
  /\ byes = [b \in Disconnects |-> NoSession]

-----------------------------------------------------------------------------
(* selectAndLoad *)

\* What renderList and renderTimeline need of the lists.
Draws(p, lists) == {Job, p} \subseteq lists

\* Slip: the rows of the last selection stay until the first page.
SelectAndLoadKeep(who, p, k, lists) ==
  /\ rail' = IF p \in lists THEN p ELSE rail
  /\ rows' = rows
  /\ IF Draws(p, lists) /\ k # NoKind
     THEN loop' = who /\ page' = [sess |-> sessionId, pivot |-> p]
     ELSE loop' = "off" /\ page' = NoPage

\* selectAndLoad for item k of pivot p.  The last loop is superseded in any case.
SelectAndLoad(who, p, k, lists) ==
  /\ rail' = IF p \in lists THEN p ELSE rail
  /\ rows' = {}
  /\ IF Draws(p, lists) /\ k # NoKind
     THEN loop' = who /\ page' = [sess |-> sessionId, pivot |-> p]
     ELSE loop' = "off" /\ page' = NoPage

LoopEnds ==
  /\ loop' = "off"
  /\ page' = NoPage
  /\ conn' = IF loop = "conn" THEN Idle ELSE conn

\* A page arrives.  The next one is asked of the session the page has by then.  An
\* item that is not of the pivot is unknown to the server: it has no points.
PageComes ==
  /\ loop # "off"
  /\ page.sess # NoSession
  /\ rows' \in {rows, rows \union (IF page.pivot = sel THEN {<<page.sess, sel>>} ELSE {})}
  /\ \/ LoopEnds
     \/ /\ page' = [sess |-> sessionId, pivot |-> pivot]
        /\ UNCHANGED <<loop, conn>>
  /\ UNCHANGED <<store, made, sessionId, shown, inv, choice, refresh, byes>>

PageFails ==
  /\ loop # "off"
  /\ LoopEnds
  /\ UNCHANGED <<store, made, sessionId, shown, inv, choice, rows, refresh, byes>>

-----------------------------------------------------------------------------
(* doConnect *)

Connect ==
  /\ "connect" \in shown
  /\ conn.at = "off"
  /\ conn' = [conn EXCEPT !.at = "asked"]
  /\ UNCHANGED <<store, made, sessionId, shown, inv, choice, list, refresh, byes>>

\* The server: connect has logged in and puts the session into the store.
Open ==
  /\ conn.at = "asked"
  /\ made < MaxSessions
  /\ made' = made + 1
  /\ store' = store \union {made'}
  /\ conn' = [at |-> "opened", sess |-> made']
  /\ UNCHANGED <<sessionId, shown, inv, choice, list, refresh, byes>>

\* Slip: the catch of doConnect does not disconnect.
CatchOnly == conn' = Idle

\* The catch of doConnect.
Catch == conn' = IF sessionId # NoSession
                 THEN [at |-> "bye", sess |-> sessionId]
                 ELSE Idle

\* No session, or its id is lost on the way.
ConnectFails ==
  /\ conn.at \in {"asked", "opened"}
  /\ Catch
  /\ UNCHANGED <<store, made, sessionId, shown, inv, choice, list, refresh, byes>>

\* Slip: the form stays.
ViewsConnectedBoth == (shown \ {"app"}) \union {"load"}
ViewsConnected == (shown \ {"connect", "app"}) \union {"load"}

\* The answer to connect; the inventory is asked.
Connected ==
  /\ conn.at = "opened"
  /\ sessionId' = conn.sess
  /\ shown' = ViewsConnected
  /\ conn' = [conn EXCEPT !.at = "inv"]
  /\ UNCHANGED <<store, made, inv, choice, list, refresh, byes>>

Arrives(s, lists) ==
  /\ inv' = [sess |-> s, lists |-> lists]
  /\ shown' = (shown \ {"load"}) \union {"app"}

\* The inventory of doConnect: the first job is selected, whatever the pivot.
InventoryComes(lists) ==
  /\ conn.at = "inv"
  /\ Arrives(conn.sess, lists)
  /\ IF Job \in lists
     THEN /\ sel' = Job
          /\ SelectAndLoad("conn", pivot, Job, lists)
          /\ IF Draws(pivot, lists) THEN conn' = [conn EXCEPT !.at = "page"] ELSE Catch
     ELSE Catch /\ UNCHANGED <<sel, rail, list>>
  /\ UNCHANGED <<store, made, sessionId, pivot, refresh, byes>>

InventoryFails ==
  /\ conn.at = "inv"
  /\ Catch
  /\ UNCHANGED <<store, made, sessionId, shown, inv, choice, list, refresh, byes>>

\* The loop of doConnect was superseded; its last page ends it.
ConnectEnds ==
  /\ conn.at = "page"
  /\ loop # "conn"
  /\ conn' = Idle
  /\ UNCHANGED <<store, made, sessionId, shown, inv, choice, list, refresh, byes>>

-----------------------------------------------------------------------------
(* disconnect *)

Disconnect(b) ==
  /\ sessionId # NoSession
  /\ byes[b] = NoSession
  /\ byes' = [byes EXCEPT ![b] = sessionId]
  /\ UNCHANGED <<store, made, sessionId, shown, inv, choice, list, conn, refresh>>

\* Slip: the inventory and its view stay.
EndedForgets(s) ==
  /\ store' \in {store, store \ {s}}
  /\ sessionId' = NoSession
  /\ rows' = {}
  /\ shown' = shown \union {"connect"}
  /\ UNCHANGED <<made, inv, choice, loop, page, refresh>>

\* The answer, or the error that stands for it.  loadSeq is not advanced: the loop
\* goes on.
Ended(s) ==
  /\ store' \in {store, store \ {s}}
  /\ sessionId' = NoSession
  /\ inv' = NoInv
  /\ rows' = {}
  /\ shown' = {"connect"}
  /\ UNCHANGED <<made, choice, loop, page, refresh>>

Disconnected(b) ==
  /\ byes[b] # NoSession
  /\ Ended(byes[b])
  /\ byes' = [byes EXCEPT ![b] = NoSession]
  /\ UNCHANGED conn

ConnectUndone ==
  /\ conn.at = "bye"
  /\ Ended(conn.sess)
  /\ conn' = Idle
  /\ UNCHANGED byes

-----------------------------------------------------------------------------
(* refreshInventory *)

Refresh(r) ==
  /\ "app" \in shown
  /\ sessionId # NoSession
  /\ refresh[r] = Idle
  /\ refresh' = [refresh EXCEPT ![r] = [at |-> "post", sess |-> sessionId]]
  /\ UNCHANGED <<store, made, sessionId, shown, inv, choice, list, conn, byes>>

\* The post is over, one way or the other: the inventory is asked of the session the
\* page has by now.
Refreshed(r) ==
  /\ refresh[r].at = "post"
  /\ refresh' = [refresh EXCEPT ![r] = [at |-> "get", sess |-> sessionId]]
  /\ shown' = (shown \ {"app"}) \union {"load"}
  /\ UNCHANGED <<store, made, sessionId, inv, choice, list, conn, byes>>

RefreshComes(r, lists) ==
  /\ refresh[r].at = "get"
  /\ refresh[r].sess # NoSession
  /\ Arrives(refresh[r].sess, lists)
  /\ refresh' = [refresh EXCEPT ![r] = Idle]
  /\ IF pivot \in lists
     THEN sel' = pivot /\ SelectAndLoad("user", pivot, pivot, lists)
     ELSE UNCHANGED <<sel, rail, list>>
  /\ UNCHANGED <<store, made, sessionId, pivot, conn, byes>>

RefreshFails(r) ==
  /\ refresh[r].at = "get"
  /\ refresh' = [refresh EXCEPT ![r] = Idle]
  /\ UNCHANGED <<store, made, sessionId, shown, inv, choice, list, conn, byes>>

-----------------------------------------------------------------------------
(* The rest of the clicks *)

\* A pivot button: the first item of its list.
Pivot(k) ==
  /\ "app" \in shown
  /\ pivot' = k
  /\ IF k \in inv.lists
     THEN sel' = k /\ SelectAndLoad("user", k, k, inv.lists)
     ELSE UNCHANGED <<sel, rail, list>>
  /\ UNCHANGED <<store, made, sessionId, shown, inv, conn, refresh, byes>>

\* An item of the rail, as it was drawn last.
Item ==
  /\ "app" \in shown
  /\ rail # NoKind
  /\ sel' = rail
  /\ SelectAndLoad("user", pivot, rail, inv.lists)
  /\ UNCHANGED <<store, made, sessionId, shown, inv, pivot, conn, refresh, byes>>

\* Days, or the mode that shows the application: the same selection again.
Again ==
  /\ "app" \in shown
  /\ SelectAndLoad("user", pivot, sel, inv.lists)
  /\ UNCHANGED <<store, made, sessionId, shown, inv, pivot, sel, conn, refresh, byes>>

Next ==
  \/ Connect \/ Open \/ ConnectFails \/ Connected
  \/ \E lists \in SUBSET Kinds : InventoryComes(lists)
  \/ InventoryFails \/ ConnectEnds \/ ConnectUndone
  \/ \E b \in Disconnects : Disconnect(b) \/ Disconnected(b)
  \/ \E r \in Refreshes :
       \/ Refresh(r) \/ Refreshed(r) \/ RefreshFails(r)
       \/ \E lists \in SUBSET Kinds : RefreshComes(r, lists)
  \/ \E k \in Kinds : Pivot(k)
  \/ Item \/ Again
  \/ PageComes \/ PageFails

Spec == Init /\ [][Next]_vars

-----------------------------------------------------------------------------
(* Properties *)

TypeOK ==
  /\ store \subseteq Sessions /\ made \in 0..MaxSessions
  /\ sessionId \in Ids
  /\ shown \subseteq {"connect", "load", "app"}
  /\ inv \in [sess : Ids, lists : SUBSET Kinds]
  /\ pivot \in Kinds /\ sel \in Kinds \union {NoKind} /\ rail \in Kinds \union {NoKind}
  /\ rows \subseteq Sessions \X (Kinds \union {NoKind})
  /\ loop \in {"off", "user", "conn"}
  /\ page \in [sess : Ids, pivot : Kinds]
  /\ conn \in [at : {"off", "asked", "opened", "inv", "page", "bye"}, sess : Ids]
  /\ refresh \in [Refreshes -> [at : {"off", "post", "get"}, sess : Ids]]
  /\ byes \in [Disconnects -> Ids]

\* The form is shown exactly when the page has no session: nobody opens a second
\* session over a live one, and nobody without a session is kept from connecting.
FormIffNoSession == ("connect" \in shown) <=> (sessionId = NoSession)

\* The inventory that is shown is the one of the session.
OwnInventory == "app" \in shown => inv.sess = sessionId

\* An inventory arrives and its session has ended meanwhile.
LateInventory ==
  \/ conn.at = "inv" /\ conn' # conn /\ conn.sess # sessionId
  \/ \E r \in Refreshes :
       refresh[r].at = "get" /\ refresh'[r] = Idle /\ refresh[r].sess # sessionId

\* It stops being so only when a late inventory arrives (nobody compares the session).
OnlyLateInventoryMixes == [][OwnInventory /\ ~OwnInventory' => LateInventory]_vars

\* The rows that are shown with it are the selection's, of this session: a page that
\* arrives after another selection, or after a disconnect, never gets between them.
\* Without the list of the jobs or of the pivot the old rows may stay, as selectAndLoad
\* is not reached.
RowsOfSelection ==
  "app" \in shown /\ inv.sess = sessionId /\ Draws(pivot, inv.lists) =>
    rows \subseteq {<<sessionId, sel>>}

\* The loading view is shown and nobody loads who would hide it: no refresh, and no
\* connection of the session (one whose session has ended hides nothing if it fails).
Stuck ==
  /\ "load" \in shown
  /\ ~(conn.at \in {"inv", "bye"} /\ conn.sess = sessionId)
  /\ \A r \in Refreshes : refresh[r].at # "get"

\* The page is left with it only by a refresh that fails, never by a connection.
StuckOnlyByRefresh ==
  [][~Stuck /\ Stuck' => \E r \in Refreshes : refresh[r].at = "get" /\ refresh'[r] = Idle]_vars

\* Sessions of the server that nobody knows any more: they stay, with their tokens.
Known ==
  {sessionId} \union {byes[b] : b \in Disconnects}
    \union (IF conn.at \in {"opened", "bye"} THEN {conn.sess} ELSE {})
Orphans == store \ Known

\* The ways to lose a session: the answer that names it, the call that ends it, or a
\* second click on disconnect, which is answered when there is a new session.
IdLost == conn.at = "opened" /\ conn' = Idle
CallLost ==
  \/ conn.at = "bye" /\ conn' = Idle /\ conn.sess \in store'
  \/ \E b \in Disconnects : byes[b] # NoSession /\ byes'[b] = NoSession /\ byes[b] \in store'
LateCall == \E b \in Disconnects : byes[b] \notin {NoSession, sessionId} /\ byes'[b] = NoSession

\* A session of the server becomes unknown to the page only in those ways: not by a
\* new connection, and not by a connection or a refresh that fails.
OrphanedOnlyByLoss ==
  [][~(Orphans' \subseteq Orphans) => IdLost \/ CallLost \/ LateCall]_vars

\* The selection is of the kind of the pivot.
FollowsPivot == sel \in {pivot, NoKind}

\* It stops being so only when a connection selects a job under the pivot of the
\* session before, or when the list of the jobs or of the pivot is missing.
SelectionFollowsPivot ==
  [][FollowsPivot /\ ~FollowsPivot' => conn.at = "inv" \/ ~Draws(pivot', inv.lists)]_vars

\* README.md:112: when a VBR has no jobs and no backups, "the console says so instead
\* of showing an empty screen".  So the inventory a connection has read is shown.
ConnectShowsInventory ==
  [][conn.at = "inv" /\ conn' # conn /\ inv'.sess = sessionId => conn'.at = "page"]_vars
=============================================================================
