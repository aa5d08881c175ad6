------------------------- MODULE RestorePointPaging -------------------------
(***************************************************************************)
(* The timeline of the console: selectAndLoad (index.html) asks for the      *)
(* restore points of a selection page by page, and the restorePoints         *)
(* handler (handlers.go) computes the whole list for page 0, keeps it in the *)
(* session and serves the later pages from it.                               *)
(*                                                                         *)
(* A list is abstracted to the number of the computation that read it from   *)
(* VBR and its length; row i of list n is <<key, n, i>>.  The console never  *)
(* cancels a request: one that belongs to an abandoned load goes on in the   *)
(* server, and its answer is looked at when it arrives.                      *)
(***************************************************************************)
EXTENDS Naturals, Sequences, FiniteSets

CONSTANTS
  Requests,   \* HTTP requests of the console at the same time
  Keys,       \* selections: pivot, id and days
  NoKey,      \* nothing selected yet
  Limit,      \* rows per page
  MaxLength,  \* bound: restore points of one selection
  MaxLoads,   \* bound: selections made
  MaxLists    \* bound: lists computed

ASSUME KeysAssumption == NoKey \notin Keys
ASSUME LimitAssumption == Limit \in Nat \ {0}
ASSUME PagingBounds == MaxLength \in Nat /\ MaxLoads \in Nat /\ MaxLists \in Nat

VARIABLES
  pc,        \* where each request is in the handler
  asked,     \* what each request asks for: key, skip, and the load it belongs to
  list,      \* the list it has in hand
  stored,    \* Session.data["rps:..."] per key
  lists,     \* lists computed so far
  loadSeq,   \* S.loadSeq
  key,       \* S.pivot, S.selectedId, S.days
  rows,      \* S.rps
  skip,      \* skip of the running load
  total,     \* S.total
  ui,        \* the running load: "none", "loading", "done" or "failed"
  sources,   \* history: the lists that the pages of the running load came from
  overlaps   \* history: a request of an older load was running when it began

server == <<pc, asked, list, stored, lists>>
console == <<loadSeq, key, rows, skip, total, ui, sources, overlaps>>
vars == <<server, console>>

NoList == [num |-> 0, len |-> 0]
Lists == [num : Nat, len : Nat]
NoAsk == [key |-> NoKey, skip |-> 0, seq |-> 0]
PCs == {"free", "lookup", "compute", "store", "page", "error"}

Init ==
  /\ pc = [r \in Requests |-> "free"]
  /\ asked = [r \in Requests |-> NoAsk]
  /\ list = [r \in Requests |-> NoList]
  /\ stored = [k \in Keys |-> NoList]
  /\ lists = 0
  /\ loadSeq = 0 /\ key = NoKey
  /\ rows = <<>> /\ skip = 0 /\ total = 0
  /\ ui = "none"
  /\ sources = {} /\ overlaps = FALSE

GoTo(r, l) == pc' = [pc EXCEPT ![r] = l]

Send(r, ask) ==
  /\ GoTo(r, "lookup")
  /\ asked' = [asked EXCEPT ![r] = ask]
  /\ list' = [list EXCEPT ![r] = NoList]

Free(r) ==
  /\ GoTo(r, "free")
  /\ asked' = [asked EXCEPT ![r] = NoAsk]
  /\ list' = [list EXCEPT ![r] = NoList]

-----------------------------------------------------------------------------
(* The handler *)

\* Pages after the first one come from the session, if it has the list.
FromSession(r) == asked[r].skip > 0 /\ stored[asked[r].key] # NoList

Lookup(r) ==
  /\ pc[r] = "lookup"
  /\ IF FromSession(r)
     THEN GoTo(r, "page") /\ list' = [list EXCEPT ![r] = stored[asked[r].key]]
     ELSE GoTo(r, "compute") /\ UNCHANGED list
  /\ UNCHANGED <<asked, stored, lists, console>>

\* chain.RestorePoints: what VBR has now.
Compute(r) ==
  /\ pc[r] = "compute" /\ lists < MaxLists
  /\ GoTo(r, "store")
  /\ lists' = lists + 1
  /\ \E n \in 0..MaxLength : list' = [list EXCEPT ![r] = [num |-> lists', len |-> n]]
  /\ UNCHANGED <<asked, stored, console>>

\* LoadInventory or RestorePoints fails.
ComputeFails(r) ==
  /\ pc[r] \in {"lookup", "compute"}
  /\ GoTo(r, "error")
  /\ UNCHANGED <<asked, list, stored, lists, console>>

\* sess.Set(key, rps).  A list without rows may be nil, the same as none.
Store(r) ==
  /\ pc[r] = "store"
  /\ GoTo(r, "page")
  /\ \E l \in {list[r]} \cup (IF list[r].len = 0 THEN {NoList} ELSE {}) :
       stored' = [stored EXCEPT ![asked[r].key] = l]
  /\ UNCHANGED <<asked, list, lists, console>>

Lesser(a, b) == IF a < b THEN a ELSE b

\* rps[skip:end], both cut to the length of the list.
End(n, from) == Lesser(from + Limit, n)
Page(r) ==
  LET n == list[r].len
      from == Lesser(asked[r].skip, n)
      end == End(n, asked[r].skip)
  IN [i \in 1..(end - from) |-> <<asked[r].key, list[r].num, from + i>>]

-----------------------------------------------------------------------------
(* The console *)

\* A click, a change of days or of mode, a refresh: selectAndLoad.
Select(k) ==
  /\ loadSeq < MaxLoads
  /\ loadSeq' = loadSeq + 1
  /\ key' = k
  /\ rows' = <<>> /\ skip' = 0 /\ total' = 0
  /\ ui' = "loading"
  /\ sources' = {}
  /\ overlaps' = \E r \in Requests : pc[r] # "free"
  /\ \E r \in Requests :
       pc[r] = "free" /\ Send(r, [key |-> k, skip |-> 0, seq |-> loadSeq'])
  /\ UNCHANGED <<stored, lists>>

\* "The user changed the selection while it loaded".
\* Slips: no load is abandoned; one is only for another selection.
IsOldNever(r) == FALSE
IsOldKey(r) == asked[r].key # key
IsOld(r) == asked[r].seq # loadSeq

Discard(r) ==
  /\ pc[r] \in {"page", "error"} /\ IsOld(r)
  /\ Free(r)
  /\ UNCHANGED <<stored, lists, console>>

\* while (skip < total), unless the page was empty.
\* Slips: one page too few; until a page after the last one is empty.
MoreUntilLast(s, n, all) == n > 0 /\ s + 1 < all
MoreInclusive(s, n, all) == s <= all
More(s, n, all) == n > 0 /\ s < all

\* A page of the running load arrives: it is appended, and the next one asked for.
AppendPage(r) ==
  LET n == Len(Page(r))
      next == skip + n
  IN /\ pc[r] = "page" /\ ~IsOld(r)
     /\ rows' = rows \o Page(r)
     /\ skip' = next
     /\ total' = list[r].len
     /\ sources' = sources \cup {list[r].num}
     /\ \/ /\ More(next, n, list[r].len)
           /\ Send(r, [key |-> key, skip |-> next, seq |-> loadSeq])
           /\ UNCHANGED ui
        \/ /\ ~More(next, n, list[r].len)
           /\ Free(r)
           /\ ui' = "done"
     /\ UNCHANGED <<stored, lists, loadSeq, key, overlaps>>

\* An error answer ends the running load; the rows so far stay.
Failed(r) ==
  /\ pc[r] = "error" /\ ~IsOld(r)
  /\ Free(r)
  /\ ui' = "failed"
  /\ UNCHANGED <<stored, lists, loadSeq, key, rows, skip, total, sources, overlaps>>

-----------------------------------------------------------------------------
Step(r) ==
  \/ Lookup(r) \/ Compute(r) \/ ComputeFails(r) \/ Store(r)
  \/ Discard(r) \/ AppendPage(r) \/ Failed(r)

Next ==
  \/ \E k \in Keys : Select(k)
  \/ \E r \in Requests : Step(r)

Spec == Init /\ [][Next]_vars

\* A handler runs and its REST calls end; its answer reaches the console.
FairSpec == Spec /\ \A r \in Requests : WF_vars(Step(r))

-----------------------------------------------------------------------------
(* Properties *)

Typed ==
  /\ pc \in [Requests -> PCs]
  /\ asked \in [Requests -> [key : Keys \cup {NoKey}, skip : Nat, seq : Nat]]
  /\ list \in [Requests -> Lists]
  /\ stored \in [Keys -> Lists]
  /\ lists \in Nat /\ loadSeq \in Nat /\ skip \in Nat /\ total \in Nat
  /\ key \in Keys \cup {NoKey}
  /\ rows \in Seq(Keys \X Nat \X Nat)
  /\ ui \in {"none", "loading", "done", "failed"}
  /\ sources \subseteq Nat /\ overlaps \in BOOLEAN

\* The type, and that a page never has more rows than were asked for.
TypeOK == Typed /\ \A r \in Requests : pc[r] = "page" => Len(Page(r)) <= Limit

\* The timeline shows rows of what is selected now, whichever answers of older
\* loads are still under way.
OneSelection == \A i \in 1..Len(rows) : rows[i][1] = key

\* No position of the list is shown twice or left out, even when the list
\* changes between two pages.
InPlace == skip = Len(rows) /\ \A i \in 1..Len(rows) : rows[i][3] = i

\* A load that ended shows all of one list, if its pages are of one list; they are
\* when no older request was running when it began.  (handlers.go:196 says the
\* list is computed once; a first page asked for again under a load replaces it.)
WholeList ==
  ui = "done" /\ (Cardinality(sources) = 1 \/ ~overlaps) =>
    Cardinality(sources) = 1 /\ Len(rows) = total

\* Every load ends, also when lists grow and shrink under it.
EveryLoadSettles == ui = "loading" ~> ui \in {"done", "failed"}
-----------------------------------------------------------------------------
(* The inductive invariant behind OneSelection and InPlace *)

Current(r) == pc[r] # "free" /\ asked[r].seq = loadSeq

\* The running load has one request, for the page that comes next; the requests
\* of abandoned loads have a smaller number.
OneRequest ==
  /\ \A r \in Requests : pc[r] # "free" =>
       asked[r].key \in Keys /\ asked[r].seq <= loadSeq
  /\ \A r \in Requests : Current(r) => asked[r].key = key /\ asked[r].skip = skip
  /\ \A r, q \in Requests : Current(r) /\ Current(q) => r = q

IInv == Typed /\ OneRequest /\ OneSelection /\ InPlace
=============================================================================
