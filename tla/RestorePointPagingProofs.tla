---------------------- MODULE RestorePointPagingProofs ----------------------
(***************************************************************************)
(* Proofs about RestorePointPaging, for every number of requests, selections *)
(* and rows: what the timeline shows belongs to the selection, and each row  *)
(* is at its place.  IInv is inductive; OneRequest is what makes the answer  *)
(* that is appended the one that comes next.                                 *)
(***************************************************************************)
EXTENDS RestorePointPaging, FiniteSetTheorems, SequenceTheorems, TLAPS

-----------------------------------------------------------------------------
(* A page *)

\* A page is cut out of its list: it starts at skip, and is empty beyond the end.
LEMMA PageIs ==
  ASSUME Typed, NEW r \in Requests, asked[r].key \in Keys
  PROVE  /\ Page(r) \in Seq(Keys \X Nat \X Nat)
         /\ Len(Page(r)) <= Limit
         /\ Len(Page(r)) = End(list[r].len, asked[r].skip) - Lesser(asked[r].skip, list[r].len)
         /\ \A i \in 1..Len(Page(r)) :
              Page(r)[i] = <<asked[r].key, list[r].num, asked[r].skip + i>>
<1> DEFINE n == list[r].len
           s == asked[r].skip
           from == Lesser(s, n)
           end == End(n, s)
           m == end - from
<1>1. n \in Nat /\ s \in Nat /\ list[r].num \in Nat /\ Limit \in Nat
  BY LimitAssumption DEF Typed, Lists
<1>2. from \in Nat /\ end \in Nat /\ m \in Nat /\ m <= Limit /\ (m > 0 => from = s)
  BY <1>1, LimitAssumption DEF Lesser, End
<1>3. Page(r) = [i \in 1..m |-> <<asked[r].key, list[r].num, from + i>>]
  BY DEF Page
<1> HIDE DEF n, s, from, end, m
<1>4. \A i \in 1..m : <<asked[r].key, list[r].num, from + i>> \in Keys \X Nat \X Nat
  BY <1>1, <1>2
<1>5. Page(r) \in Seq(Keys \X Nat \X Nat) /\ Len(Page(r)) = m
  BY <1>2, <1>3, <1>4, LenProperties
<1>6. \A i \in 1..m : Page(r)[i] = <<asked[r].key, list[r].num, s + i>>
  BY <1>2, <1>3
<1> QED BY <1>2, <1>5, <1>6 DEF n, s, from, end, m

-----------------------------------------------------------------------------
(* The steps *)

\* The steps of the handler that neither end a request nor touch the console.
LEMMA HandlerKeeps ==
  ASSUME IInv, NEW r \in Requests,
         Lookup(r) \/ Compute(r) \/ ComputeFails(r) \/ Store(r)
  PROVE  IInv'
<1> USE DEF IInv, GoTo, console
<1>1. /\ pc[r] # "free"
      /\ \E l \in PCs \ {"free"} : pc' = [pc EXCEPT ![r] = l]
      /\ UNCHANGED <<asked, loadSeq, key, rows, skip, total, ui, sources, overlaps>>
  BY DEF Lookup, Compute, ComputeFails, Store, PCs
<1>2. pc \in [Requests -> PCs] /\ asked \in [Requests -> [key : Keys \cup {NoKey}, skip : Nat, seq : Nat]]
  BY DEF Typed
<1>3. asked[r].key \in Keys
  BY <1>1 DEF OneRequest
<1>4. list' \in [Requests -> Lists] /\ stored' \in [Keys -> Lists] /\ lists' \in Nat
  <2>1. CASE Lookup(r)
    BY <1>3, <2>1 DEF Lookup, Typed
  <2>2. CASE Compute(r)
    BY <2>2, PagingBounds DEF Compute, Typed, Lists
  <2>3. CASE ComputeFails(r)
    BY <2>3 DEF ComputeFails, Typed
  <2>4. CASE Store(r)
    BY <1>3, <2>4 DEF Store, Typed, Lists, NoList
  <2> QED BY <2>1, <2>2, <2>3, <2>4
<1>5. Typed'
  BY <1>1, <1>4 DEF Typed
<1>6. OneRequest'
  BY <1>1, <1>2 DEF OneRequest, Current
<1>7. OneSelection' /\ InPlace'
  BY <1>1 DEF OneSelection, InPlace
<1> QED BY <1>5, <1>6, <1>7

\* A new load has a number that no request has, and starts without rows.
LEMMA SelectKeeps ==
  ASSUME IInv, NEW k \in Keys, Select(k)
  PROVE  IInv'
<1> USE DEF IInv
<1>1. PICK r \in Requests :
        /\ pc[r] = "free" /\ pc' = [pc EXCEPT ![r] = "lookup"]
        /\ asked' = [asked EXCEPT ![r] = [key |-> k, skip |-> 0, seq |-> loadSeq + 1]]
        /\ list' = [list EXCEPT ![r] = NoList]
  BY DEF Select, Send, GoTo
<1>2. /\ loadSeq' = loadSeq + 1 /\ key' = k /\ rows' = <<>> /\ skip' = 0 /\ total' = 0
      /\ ui' = "loading" /\ sources' = {} /\ overlaps' \in BOOLEAN
      /\ UNCHANGED <<stored, lists>>
  BY DEF Select
<1>3. Typed'
  <2>1. pc' \in [Requests -> PCs] /\ list' \in [Requests -> Lists]
    BY <1>1 DEF Typed, PCs, Lists, NoList
  <2>2. asked' \in [Requests -> [key : Keys \cup {NoKey}, skip : Nat, seq : Nat]]
    BY <1>1 DEF Typed
  <2> QED BY <1>2, <2>1, <2>2 DEF Typed
<1>4. OneRequest'
  BY <1>1, <1>2 DEF OneRequest, Current, Typed
<1>5. OneSelection' /\ InPlace'
  BY <1>2 DEF OneSelection, InPlace
<1> QED BY <1>3, <1>4, <1>5

\* A request that ends without adding rows.
LEMMA EndingKeeps ==
  ASSUME IInv, NEW r \in Requests, Discard(r) \/ Failed(r)
  PROVE  IInv'
<1> USE DEF IInv
<1>1. /\ pc' = [pc EXCEPT ![r] = "free"] /\ asked' = [asked EXCEPT ![r] = NoAsk]
      /\ list' = [list EXCEPT ![r] = NoList]
      /\ UNCHANGED <<stored, lists, loadSeq, key, rows, skip, total, sources, overlaps>>
      /\ ui' \in {ui, "failed"}
  BY DEF Discard, Failed, Free, GoTo, console
<1>2. Typed'
  <2>1. pc' \in [Requests -> PCs] /\ list' \in [Requests -> Lists]
    BY <1>1 DEF Typed, PCs, Lists, NoList
  <2>2. asked' \in [Requests -> [key : Keys \cup {NoKey}, skip : Nat, seq : Nat]]
    BY <1>1 DEF Typed, NoAsk
  <2> QED BY <1>1, <2>1, <2>2 DEF Typed
<1>3. OneRequest'
  BY <1>1 DEF OneRequest, Current, Typed
<1>4. OneSelection' /\ InPlace'
  BY <1>1 DEF OneSelection, InPlace
<1> QED BY <1>2, <1>3, <1>4

\* The answer of the running load is the page that starts at Len(rows).
LEMMA AppendPageKeeps ==
  ASSUME IInv, NEW r \in Requests, AppendPage(r)
  PROVE  IInv'
<1> USE DEF IInv
<1> DEFINE page == Page(r)
           Rows == Keys \X Nat \X Nat
<1>1. /\ pc[r] = "page" /\ Current(r) /\ asked[r].key = key /\ asked[r].skip = skip
      /\ asked[r].key \in Keys
  BY DEF AppendPage, IsOld, Current, OneRequest
<1>2. /\ page \in Seq(Rows) /\ rows \in Seq(Rows)
      /\ \A i \in 1..Len(page) : page[i] = <<key, list[r].num, skip + i>>
  BY <1>1, PageIs DEF Typed
<1>3. /\ rows' = rows \o page /\ skip' = skip + Len(page)
      /\ total' = list[r].len /\ sources' = sources \cup {list[r].num}
      /\ UNCHANGED <<stored, lists, loadSeq, key, overlaps>> /\ ui' \in {ui, "done"}
  BY DEF AppendPage
<1>4. \/ /\ pc' = [pc EXCEPT ![r] = "free"] /\ asked' = [asked EXCEPT ![r] = NoAsk]
      \/ /\ pc' = [pc EXCEPT ![r] = "lookup"]
         /\ asked' = [asked EXCEPT ![r] = [key |-> key, skip |-> skip', seq |-> loadSeq]]
  BY <1>3 DEF AppendPage, Free, Send, GoTo
<1>5. list' = [list EXCEPT ![r] = NoList]
  BY DEF AppendPage, Free, Send
<1> HIDE DEF page, Rows
<1>6. /\ rows' \in Seq(Rows) /\ Len(rows') = Len(rows) + Len(page)
      /\ Len(rows) \in Nat /\ Len(page) \in Nat
      /\ \A i \in 1..Len(rows') :
           rows'[i] = IF i <= Len(rows) THEN rows[i] ELSE page[i - Len(rows)]
  BY <1>2, <1>3, ConcatProperties, LenProperties
<1>7. skip = Len(rows) /\ skip' = Len(rows')
  BY <1>3, <1>6 DEF InPlace
<1>8. Typed'
  <2>1. pc' \in [Requests -> PCs] /\ list' \in [Requests -> Lists]
    BY <1>4, <1>5 DEF Typed, PCs, Lists, NoList
  <2>2. /\ skip' \in Nat /\ loadSeq \in Nat /\ key \in Keys
        /\ asked \in [Requests -> [key : Keys \cup {NoKey}, skip : Nat, seq : Nat]]
    BY <1>1, <1>6, <1>7 DEF Typed
  <2>3. asked' \in [Requests -> [key : Keys \cup {NoKey}, skip : Nat, seq : Nat]]
    BY <1>4, <2>2 DEF NoAsk
  <2>4. list[r].len \in Nat /\ list[r].num \in Nat /\ sources \subseteq Nat
    BY DEF Typed, Lists
  <2>5. total' \in Nat /\ sources' \subseteq Nat
    BY <1>3, <2>4
  <2> QED BY <1>3, <1>6, <2>1, <2>2, <2>3, <2>5 DEF Typed, Rows
<1>9. OneRequest'
  <2>1. /\ pc \in [Requests -> PCs] /\ loadSeq \in Nat /\ loadSeq' = loadSeq /\ key' = key
        /\ asked \in [Requests -> [key : Keys \cup {NoKey}, skip : Nat, seq : Nat]]
    BY <1>3 DEF Typed
  <2>2. \A q \in Requests \ {r} :
          pc'[q] = pc[q] /\ asked'[q] = asked[q] /\ ~Current(q)
    BY <1>1, <1>4, <2>1 DEF OneRequest
  <2>3. \A q \in Requests \ {r} :
          pc[q] # "free" => asked[q].key \in Keys /\ asked[q].seq <= loadSeq
    BY DEF OneRequest
  <2>4. pc'[r] # "free" =>
          asked'[r].key = key /\ asked'[r].skip = skip' /\ asked'[r].seq = loadSeq
    BY <1>4, <2>1
  <2> QED BY <1>1, <2>1, <2>2, <2>3, <2>4 DEF OneRequest, Current
<1>10. ASSUME NEW i \in 1..Len(rows') PROVE rows'[i][1] = key' /\ rows'[i][3] = i
  <2>1. CASE i <= Len(rows)
    BY <1>3, <1>6, <2>1 DEF OneSelection, InPlace
  <2>2. CASE i > Len(rows)
    <3>1. i - Len(rows) \in 1..Len(page) /\ rows'[i] = page[i - Len(rows)]
      BY <1>6, <2>2
    <3>2. rows'[i] = <<key, list[r].num, skip + (i - Len(rows))>>
      BY <1>2, <3>1
    <3> QED BY <1>3, <1>6, <1>7, <3>2
  <2> QED BY <1>6, <2>1, <2>2
<1>11. OneSelection' /\ InPlace'
  BY <1>7, <1>10 DEF OneSelection, InPlace
<1> QED BY <1>8, <1>9, <1>11

-----------------------------------------------------------------------------
(* The theorems *)

LEMMA InitIInv == Init => IInv
<1> SUFFICES ASSUME Init PROVE IInv
  OBVIOUS
<1>1. Typed
  <2>1. rows \in Seq(Keys \X Nat \X Nat)
    BY EmptySeq DEF Init
  <2>2. NoList \in Lists /\ NoAsk \in [key : Keys \cup {NoKey}, skip : Nat, seq : Nat]
    BY DEF NoList, Lists, NoAsk
  <2> QED BY <2>1, <2>2 DEF Init, Typed, PCs
<1>2. OneRequest
  BY DEF Init, OneRequest, Current
<1>3. OneSelection /\ InPlace
  BY DEF Init, OneSelection, InPlace
<1> QED BY <1>1, <1>2, <1>3 DEF IInv

LEMMA SpecIInv == Spec => []IInv
<1>2. IInv /\ [Next]_vars => IInv'
  <2> SUFFICES ASSUME IInv, [Next]_vars PROVE IInv'
    OBVIOUS
  <2>1. CASE UNCHANGED vars
    BY <2>1 DEF vars, server, console, IInv, Typed, OneRequest, OneSelection, InPlace, Current
  <2>2. ASSUME NEW k \in Keys, Select(k) PROVE IInv'
    BY <2>2, SelectKeeps
  <2>3. ASSUME NEW r \in Requests, Step(r) PROVE IInv'
    BY <2>3, HandlerKeeps, EndingKeeps, AppendPageKeeps DEF Step
  <2> QED BY <2>1, <2>2, <2>3 DEF Next
<1> QED BY InitIInv, <1>2, PTL DEF Spec

\* The state is well typed, and no page has more rows than the limit.
THEOREM PagingTypeCorrect == Spec => []TypeOK
<1>1. IInv => TypeOK
  <2> SUFFICES ASSUME IInv PROVE TypeOK
    OBVIOUS
  <2>1. ASSUME NEW r \in Requests, pc[r] = "page" PROVE Len(Page(r)) <= Limit
    BY <2>1, PageIs DEF IInv, OneRequest
  <2> QED BY <2>1 DEF IInv, TypeOK
<1> QED BY SpecIInv, <1>1, PTL

\* Every row of the timeline belongs to what is selected, although the answers of
\* older loads go on arriving.
THEOREM TimelineOfSelection == Spec => []OneSelection
<1>1. IInv => OneSelection
  BY DEF IInv
<1> QED BY SpecIInv, <1>1, PTL

\* No position of the list is shown twice or skipped.
THEOREM TimelineInPlace == Spec => []InPlace
<1>1. IInv => InPlace
  BY DEF IInv
<1> QED BY SpecIInv, <1>1, PTL
-----------------------------------------------------------------------------
(* A load that ended shows all of one list *)

\* The lists requests have in hand and the session keeps.
InPlay == {list[r] : r \in Requests} \cup {stored[k] : k \in Keys}

\* A computation has made one list; 0 is the number of none.
Copies ==
  /\ \A v, w \in InPlay : v.num = w.num => v = w
  /\ \A v \in InPlay : v.num <= lists /\ (v.num = 0 => v = NoList)
  /\ \A r \in Requests : pc[r] \in {"store", "page"} => list[r].num > 0

\* As long as all pages are of one list, that list is as long as the total says, and
\* the rows so far are not more.
OneList ==
  /\ sources \subseteq 1..lists
  /\ ui = "loading" /\ skip = 0 => sources = {}
  /\ sources = {} => skip = 0
  /\ \A n \in sources : sources = {n} =>
       skip <= total /\ \A v \in InPlay : v.num = n => v.len = total

\* A load that began when no request was running: the only request is its own, and
\* after the first page it finds the list of that page in the session.
Alone ==
  ~overlaps =>
    /\ \A r \in Requests : pc[r] # "free" => Current(r) /\ ui = "loading"
    /\ ui = "loading" /\ skip > 0 =>
         /\ stored[key].num > 0 /\ sources = {stored[key].num}
         /\ \A r \in Requests : pc[r] # "free" => pc[r] \in {"lookup", "page", "error"}
    /\ \A r \in Requests : pc[r] = "page" =>
         list[r] = stored[key] \/ (skip = 0 /\ list[r].len = 0)

\* A request of the last load is one it waits for.
Running == \A r \in Requests : Current(r) => ui = "loading"

Ended ==
  ui = "done" =>
    /\ sources # {}
    /\ \A n \in sources : sources = {n} => skip = total
    /\ ~overlaps => \E n \in sources : sources = {n}

WInv == IInv /\ Copies /\ OneList /\ Alone /\ Running /\ Ended
\* What the steps of the handler do to the lists in play: one is copied, or dropped, or
\* a new one comes with the next number.
LEMMA CopiesKeep ==
  ASSUME IInv, Copies, [Next]_vars
  PROVE  Copies' /\ lists' \in {lists, lists + 1}
         /\ \A v \in InPlay' : v \in InPlay \/ v = NoList \/ v.num = lists + 1
<1> USE DEF IInv
<1>1. /\ list \in [Requests -> Lists] /\ stored \in [Keys -> Lists] /\ pc \in [Requests -> PCs]
      /\ lists \in Nat
  BY DEF Typed
<1>2. ASSUME UNCHANGED <<stored, lists>>,
             \A r \in Requests : \/ list'[r] = list[r] /\ (pc'[r] = pc[r] \/ pc'[r] \notin {"store", "page"})
                                 \/ list'[r] = NoList /\ pc'[r] \notin {"store", "page"}
      PROVE  Copies' /\ \A v \in InPlay' : v \in InPlay \/ v = NoList
  <2>1. \A v \in InPlay' : v \in InPlay \/ v = NoList
    BY <1>2 DEF InPlay
  <2>2. \A v, w \in InPlay' : v.num = w.num => v = w
    <3>1. \A v \in InPlay : v.num = 0 => v = NoList
      BY DEF Copies
    <3>2. NoList.num = 0
      BY DEF NoList
    <3> QED BY <2>1, <3>1, <3>2 DEF Copies
  <2>3. \A v \in InPlay' : v.num <= lists' /\ (v.num = 0 => v = NoList)
    BY <1>1, <1>2, <2>1 DEF Copies, NoList
  <2>4. \A r \in Requests : pc'[r] \in {"store", "page"} => list'[r].num > 0
    BY <1>2 DEF Copies
  <2> QED BY <2>1, <2>2, <2>3, <2>4 DEF Copies
<1>3. CASE UNCHANGED vars
  BY <1>1, <1>2, <1>3 DEF vars, server
<1>4. ASSUME NEW k \in Keys, Select(k) PROVE Copies' /\ lists' = lists /\ \A v \in InPlay' : v \in InPlay \/ v = NoList
  <2>1. PICK r \in Requests :
          pc' = [pc EXCEPT ![r] = "lookup"] /\ list' = [list EXCEPT ![r] = NoList]
    BY <1>4 DEF Select, Send, GoTo
  <2>2. UNCHANGED <<stored, lists>>
    BY <1>4 DEF Select
  <2> QED BY <1>1, <1>2, <2>1, <2>2
<1>5. ASSUME NEW r \in Requests, Discard(r) \/ Failed(r) \/ AppendPage(r) \/ ComputeFails(r)
      PROVE  Copies' /\ lists' = lists /\ \A v \in InPlay' : v \in InPlay \/ v = NoList
  <2>1. UNCHANGED <<stored, lists>>
    BY <1>5 DEF Discard, Failed, AppendPage, ComputeFails
  <2>2. \E l \in {"free", "lookup", "error"} : pc' = [pc EXCEPT ![r] = l]
    BY <1>5 DEF Discard, Failed, AppendPage, ComputeFails, Free, Send, GoTo
  <2>3. list' = [list EXCEPT ![r] = NoList] \/ list' = list
    BY <1>5 DEF Discard, Failed, AppendPage, ComputeFails, Free, Send
  <2> QED BY <1>1, <1>2, <2>1, <2>2, <2>3
<1>6. ASSUME NEW r \in Requests, Lookup(r)
      PROVE  Copies' /\ lists' = lists /\ \A v \in InPlay' : v \in InPlay
  <2>1. asked[r].key \in Keys /\ UNCHANGED <<stored, lists>>
    BY <1>6 DEF Lookup, OneRequest
  <2>2. \/ /\ list' = [list EXCEPT ![r] = stored[asked[r].key]] /\ stored[asked[r].key] # NoList
           /\ pc' = [pc EXCEPT ![r] = "page"]
        \/ list' = list /\ pc' = [pc EXCEPT ![r] = "compute"]
    BY <1>6 DEF Lookup, FromSession, GoTo
  <2>3. \A v \in InPlay' : v \in InPlay
    BY <1>1, <2>1, <2>2 DEF InPlay
  <2>4. stored[asked[r].key] \in InPlay /\ stored[asked[r].key].num \in Nat
    BY <1>1, <2>1 DEF InPlay, Lists
  <2>5. \A q \in Requests : pc'[q] \in {"store", "page"} => list'[q].num > 0
    BY <1>1, <2>2, <2>4 DEF Copies
  <2> QED BY <2>1, <2>3, <2>5 DEF Copies
<1>7. ASSUME NEW r \in Requests, Store(r)
      PROVE  Copies' /\ lists' = lists /\ \A v \in InPlay' : v \in InPlay \/ v = NoList
  <2>1. /\ asked[r].key \in Keys /\ UNCHANGED <<list, lists>> /\ pc[r] = "store"
        /\ pc' = [pc EXCEPT ![r] = "page"]
    BY <1>7 DEF Store, OneRequest, GoTo
  <2>2. PICK l \in {list[r], NoList} : stored' = [stored EXCEPT ![asked[r].key] = l]
    BY <1>7 DEF Store
  <2>3. \A v \in InPlay' : v \in InPlay \/ v = NoList
    BY <1>1, <2>1, <2>2 DEF InPlay
  <2>4. \A v \in InPlay : v.num = 0 => v = NoList
    BY DEF Copies
  <2>5. \A v, w \in InPlay' : v.num = w.num => v = w
    BY <2>3, <2>4 DEF Copies, NoList
  <2>6. \A v \in InPlay' : v.num <= lists' /\ (v.num = 0 => v = NoList)
    BY <1>1, <2>1, <2>3 DEF Copies, NoList
  <2>7. \A q \in Requests : pc'[q] \in {"store", "page"} => list'[q].num > 0
    BY <1>1, <2>1 DEF Copies
  <2> QED BY <2>1, <2>3, <2>5, <2>6, <2>7 DEF Copies
<1>8. ASSUME NEW r \in Requests, Compute(r)
      PROVE  Copies' /\ lists' = lists + 1 /\ \A v \in InPlay' : v \in InPlay \/ v.num = lists + 1
  <2>1. /\ stored' = stored /\ lists' = lists + 1 /\ pc' = [pc EXCEPT ![r] = "store"]
    BY <1>8 DEF Compute, GoTo
  <2>2. PICK n \in 0..MaxLength : list' = [list EXCEPT ![r] = [num |-> lists + 1, len |-> n]]
    BY <1>8, <2>1 DEF Compute
  <2> DEFINE l == [num |-> lists + 1, len |-> n]
  <2>3. \A v \in InPlay' : v \in InPlay \/ v = l
    BY <1>1, <2>1, <2>2 DEF InPlay
  <2>4. \A v \in InPlay : v.num \in Nat /\ v.num <= lists
    BY <1>1 DEF Copies, InPlay, Lists
  <2>5. l.num = lists + 1
    OBVIOUS
  <2>6. \A q \in Requests : pc'[q] \in {"store", "page"} => list'[q].num > 0
    BY <1>1, <2>1, <2>2 DEF Copies
  <2> HIDE DEF l
  <2>7. \A v, w \in InPlay' : v.num = w.num => v = w
    BY <1>1, <2>3, <2>4, <2>5 DEF Copies
  <2>8. \A v \in InPlay' : v.num <= lists' /\ (v.num = 0 => v = NoList)
    BY <1>1, <2>1, <2>3, <2>4, <2>5 DEF Copies
  <2> QED BY <2>1, <2>3, <2>5, <2>6, <2>7, <2>8 DEF Copies
<1> QED BY <1>1, <1>3, <1>4, <1>5, <1>6, <1>7, <1>8 DEF Next, Step, vars, server
\* The steps that leave the console's load alone.
LEMMA OneListKeeps ==
  ASSUME IInv, Copies, OneList, Ended, [Next]_vars,
         UNCHANGED <<sources, skip, total, rows>>,
         ui' = ui \/ ui' = "failed"
  PROVE  OneList' /\ (UNCHANGED <<ui, overlaps>> \/ ui' = "failed" => Ended')
<1>1. sources \subseteq 1..lists /\ lists \in Nat /\ lists' \in {lists, lists + 1}
  BY CopiesKeep DEF OneList, IInv, Typed
<1>2. sources' \subseteq 1..lists'
  BY <1>1
<1>3. ASSUME NEW n \in sources, sources = {n}, NEW v \in InPlay', v.num = n PROVE v.len = total
  <2>1. n \in 1..lists
    BY <1>1
  <2>2. v \in InPlay
    BY <1>1, <1>3, <2>1, CopiesKeep DEF NoList
  <2> QED BY <1>3, <2>2 DEF OneList
<1>4. OneList'
  BY <1>2, <1>3 DEF OneList
<1> QED BY <1>4 DEF Ended

LEMMA RunningKeeps == ASSUME IInv, Running, [Next]_vars PROVE Running'
<1> USE DEF IInv
<1>1. /\ pc \in [Requests -> PCs] /\ loadSeq \in Nat
      /\ asked \in [Requests -> [key : Keys \cup {NoKey}, skip : Nat, seq : Nat]]
      /\ \A r, q \in Requests : Current(r) /\ Current(q) => r = q
  BY DEF Typed, OneRequest
<1>2. CASE UNCHANGED vars
  BY <1>2 DEF vars, server, console, Running, Current
<1>3. ASSUME NEW k \in Keys, Select(k) PROVE Running'
  BY <1>3 DEF Select, Running
<1>4. ASSUME NEW r \in Requests, Lookup(r) \/ Compute(r) \/ ComputeFails(r) \/ Store(r)
      PROVE  Running'
  <2>1. /\ pc[r] # "free" /\ asked' = asked /\ loadSeq' = loadSeq /\ ui' = ui
        /\ \E l \in PCs \ {"free"} : pc' = [pc EXCEPT ![r] = l]
    BY <1>4 DEF Lookup, Compute, ComputeFails, Store, console, GoTo, PCs
  <2> QED BY <1>1, <2>1 DEF Running, Current
<1>5. ASSUME NEW r \in Requests, Discard(r) \/ Failed(r) PROVE Running'
  <2>1. /\ pc' = [pc EXCEPT ![r] = "free"] /\ asked' = [asked EXCEPT ![r] = NoAsk]
        /\ loadSeq' = loadSeq /\ (ui' = ui \/ Current(r))
    BY <1>5 DEF Discard, Failed, Free, GoTo, console, IsOld, Current
  <2> QED BY <1>1, <2>1 DEF Running, Current
<1>6. ASSUME NEW r \in Requests, AppendPage(r) PROVE Running'
  <2>1. Current(r) /\ loadSeq' = loadSeq
    BY <1>6 DEF AppendPage, IsOld, Current
  <2>2. \/ pc' = [pc EXCEPT ![r] = "free"] /\ asked' = [asked EXCEPT ![r] = NoAsk]
        \/ \E ask : asked' = [asked EXCEPT ![r] = ask] /\ pc' = [pc EXCEPT ![r] = "lookup"] /\ ui' = ui
    BY <1>6 DEF AppendPage, Send, Free, GoTo
  <2> QED BY <1>1, <2>1, <2>2 DEF Running, Current
<1> QED BY <1>2, <1>3, <1>4, <1>5, <1>6 DEF Next, Step

\* A new load has no page yet.
LEMMA SelectStarts ==
  ASSUME IInv, Copies, NEW k \in Keys, Select(k)
  PROVE  OneList' /\ Alone' /\ Ended'
<1>1. PICK r \in Requests :
        /\ pc[r] = "free" /\ pc' = [pc EXCEPT ![r] = "lookup"]
        /\ asked' = [asked EXCEPT ![r] = [key |-> k, skip |-> 0, seq |-> loadSeq + 1]]
  BY DEF Select, Send, GoTo
<1>2. /\ loadSeq' = loadSeq + 1 /\ skip' = 0 /\ ui' = "loading" /\ sources' = {}
      /\ lists' = lists /\ overlaps' = \E q \in Requests : pc[q] # "free"
  BY DEF Select
<1>3. OneList' /\ Ended'
  BY <1>2 DEF OneList, Ended
<1>4. ASSUME ~overlaps', NEW q \in Requests, pc'[q] # "free" PROVE q = r /\ Current(q)'
  <2>1. pc[q] = "free" /\ pc \in [Requests -> PCs]
    BY <1>2, <1>4 DEF IInv, Typed
  <2>2. q = r
    BY <1>1, <1>4, <2>1
  <2>3. asked'[r].seq = loadSeq'
    BY <1>1, <1>2 DEF IInv, Typed
  <2> QED BY <1>4, <2>2, <2>3 DEF Current
<1>5. pc'[r] = "lookup"
  BY <1>1 DEF IInv, Typed
<1>6. Alone'
  BY <1>2, <1>4, <1>5 DEF Alone
<1> QED BY <1>3, <1>6

\* The handler serves the next pages of a load that is alone from the session.
LEMMA HandlerAlone ==
  ASSUME IInv, Copies, OneList, Alone, NEW r \in Requests,
         Lookup(r) \/ Compute(r) \/ ComputeFails(r) \/ Store(r)
  PROVE  Alone'
<1> USE DEF IInv
<1>1. /\ pc[r] # "free" /\ UNCHANGED console
      /\ \E l \in PCs \ {"free"} : pc' = [pc EXCEPT ![r] = l]
      /\ asked' = asked
  BY DEF Lookup, Compute, ComputeFails, Store, PCs, GoTo
<1>2. /\ list \in [Requests -> Lists] /\ stored \in [Keys -> Lists] /\ pc \in [Requests -> PCs]
  BY DEF Typed
<1> SUFFICES ASSUME ~overlaps PROVE Alone'
  BY <1>1 DEF Alone, console
<1>3. /\ \A q \in Requests : pc[q] # "free" => q = r
      /\ Current(r) /\ ui = "loading" /\ asked[r].key = key /\ asked[r].skip = skip /\ key \in Keys
  BY <1>1 DEF Alone, OneRequest
<1>4. /\ UNCHANGED <<loadSeq, key, skip, ui, sources, overlaps>>
      /\ \A q \in Requests : pc'[q] # "free" => q = r
  BY <1>1, <1>2, <1>3 DEF console
<1>5. \A q \in Requests : pc'[q] # "free" => Current(q)' /\ ui' = "loading"
  BY <1>1, <1>3, <1>4 DEF Current
<1>6. CASE Lookup(r)
  <2>1. stored' = stored
    BY <1>6 DEF Lookup
  <2>2. pc'[r] = "page" => list'[r] = stored[key]
    BY <1>2, <1>3, <1>6 DEF Lookup, FromSession, GoTo
  <2>3. skip > 0 => pc'[r] = "page" \/ stored[key] = NoList
    BY <1>2, <1>3, <1>6 DEF Lookup, FromSession, GoTo
  <2>4. skip > 0 => stored[key].num > 0 /\ sources = {stored[key].num}
    BY <1>3 DEF Alone
  <2>5. NoList.num = 0
    BY DEF NoList
  <2> QED BY <1>4, <1>5, <2>1, <2>2, <2>3, <2>4, <2>5 DEF Alone
<1>7. CASE Compute(r)
  <2>1. stored' = stored /\ pc'[r] = "store" /\ pc[r] = "compute"
    BY <1>2, <1>7 DEF Compute, GoTo
  <2> QED BY <1>3, <1>4, <1>5, <2>1 DEF Alone
<1>8. CASE ComputeFails(r)
  <2>1. stored' = stored /\ pc'[r] = "error"
    BY <1>2, <1>8 DEF ComputeFails, GoTo
  <2> QED BY <1>3, <1>4, <1>5, <2>1 DEF Alone
<1>9. CASE Store(r)
  <2>1. pc[r] = "store" /\ list' = list
    BY <1>9 DEF Store
  <2>2. stored'[key] = list[r] \/ list[r].len = 0
    BY <1>2, <1>3, <1>9 DEF Store
  <2>3. ~(skip > 0) /\ skip \in Nat
    <3>1. ~(skip > 0)
      BY <1>3, <2>1 DEF Alone
    <3> QED BY <3>1 DEF Typed
  <2>4. skip = 0
    BY <2>3
  <2> QED BY <1>4, <1>5, <2>1, <2>2, <2>4 DEF Alone
<1> QED BY <1>6, <1>7, <1>8, <1>9

\* A request that ends without rows is not one of a load that is alone and goes on.
LEMMA EndingAlone ==
  ASSUME IInv, Alone, NEW r \in Requests, Discard(r) \/ Failed(r)
  PROVE  Alone'
<1> USE DEF IInv
<1>1. /\ pc' = [pc EXCEPT ![r] = "free"]
      /\ asked' = [asked EXCEPT ![r] = NoAsk] /\ list' = [list EXCEPT ![r] = NoList]
      /\ UNCHANGED <<stored, loadSeq, key, skip, sources, overlaps>>
      /\ ui' = "failed" \/ (ui' = ui /\ ~Current(r) /\ pc[r] # "free")
  BY DEF Discard, Failed, Free, GoTo, console, IsOld, Current
<1> SUFFICES ASSUME ~overlaps PROVE Alone'
  BY <1>1 DEF Alone
<1>2. ui' = "failed" /\ Current(r)
  BY <1>1 DEF Alone, Discard, Failed, IsOld, Current
<1>3. \A q \in Requests : pc'[q] = "free"
  BY <1>1, <1>2 DEF Alone, OneRequest, Typed
<1> QED BY <1>1, <1>2, <1>3 DEF Alone

\* A page of the running load.
LEMMA AppendPageWhole ==
  ASSUME IInv, Copies, OneList, Alone, Running, IInv', Copies', NEW r \in Requests, AppendPage(r)
  PROVE  OneList' /\ Alone' /\ Ended'
<1> USE DEF IInv
<1> DEFINE l == list[r]
           n == Len(Page(r))
<1>1. /\ pc[r] = "page" /\ Current(r) /\ asked[r].key = key /\ asked[r].skip = skip
      /\ key \in Keys
  BY DEF AppendPage, IsOld, Current, OneRequest
<1>2. /\ l \in Lists /\ l.num > 0 /\ l \in InPlay /\ l.num <= lists /\ lists \in Nat
      /\ skip \in Nat /\ total \in Nat /\ Limit \in Nat \ {0}
  BY <1>1, LimitAssumption DEF Copies, InPlay, Typed
<1>3. n = End(l.len, skip) - Lesser(skip, l.len) /\ n \in Nat
  BY <1>1, PageIs DEF Typed
<1>4. /\ skip' = skip + n /\ total' = l.len /\ sources' = sources \cup {l.num}
      /\ UNCHANGED <<stored, lists, loadSeq, key, overlaps>>
  BY DEF AppendPage
<1>5. \/ /\ More(skip + n, n, l.len) /\ ui' = ui /\ pc' = [pc EXCEPT ![r] = "lookup"]
         /\ asked' = [asked EXCEPT ![r] = [key |-> key, skip |-> skip + n, seq |-> loadSeq]]
      \/ /\ ~More(skip + n, n, l.len) /\ ui' = "done" /\ pc' = [pc EXCEPT ![r] = "free"]
         /\ asked' = [asked EXCEPT ![r] = NoAsk]
  BY DEF AppendPage, Send, Free, GoTo
<1>6. /\ pc \in [Requests -> PCs]
      /\ asked \in [Requests -> [key : Keys \cup {NoKey}, skip : Nat, seq : Nat]]
      /\ list' = [list EXCEPT ![r] = NoList]
  BY DEF Typed, AppendPage, Send, Free
<1> HIDE DEF n
<1>7. ASSUME skip <= l.len
      PROVE  skip + n <= l.len /\ (~More(skip + n, n, l.len) => skip + n = l.len)
  BY <1>2, <1>3, <1>7 DEF Lists, End, Lesser, More
<1>8. ASSUME sources' = {l.num} PROVE skip <= l.len
  <2>1. CASE sources = {}
    BY <1>2, <2>1 DEF OneList, Lists
  <2>2. CASE sources = {l.num}
    <3>1. skip <= total /\ l.len = total
      BY <1>2, <2>2 DEF OneList
    <3> QED BY <3>1
  <2> QED BY <1>4, <1>8, <2>1, <2>2
<1>9. \A v \in InPlay' : v.num = l.num => v.len = l.len
  <2>1. \A v \in InPlay' : v \in InPlay \/ v = NoList
    BY <1>4, <1>6 DEF InPlay, Typed
  <2> QED BY <1>2, <2>1 DEF Copies, NoList
<1>10. OneList'
  <2>1. sources' \subseteq 1..lists'
    <3>1. l.num \in 1..lists
      BY <1>2 DEF Lists
    <3> QED BY <1>4, <3>1 DEF OneList
  <2>2. skip' > 0 \/ ui' # "loading"
    BY <1>2, <1>3, <1>4, <1>5 DEF More
  <2>3. ASSUME NEW m \in sources', sources' = {m}
        PROVE  skip' <= total' /\ \A v \in InPlay' : v.num = m => v.len = total'
    BY <1>4, <1>7, <1>8, <1>9, <2>3
  <2> QED BY <1>4, <2>1, <2>2, <2>3 DEF OneList
<1>11. ~overlaps => sources' = {l.num}
  <2> SUFFICES ASSUME ~overlaps PROVE sources' = {l.num}
    OBVIOUS
  <2>1. ui = "loading"
    BY <1>1 DEF Alone
  <2>2. CASE skip = 0
    BY <1>4, <2>1, <2>2 DEF OneList
  <2>3. CASE skip > 0
    <3>1. sources = {stored[key].num} /\ l = stored[key]
      BY <1>1, <2>1, <2>3 DEF Alone
    <3> QED BY <1>4, <3>1
  <2> QED BY <1>2, <2>2, <2>3
<1>12. Ended'
  <2> SUFFICES ASSUME ui' = "done" PROVE Ended'
    BY DEF Ended
  <2>1. ~More(skip + n, n, l.len)
    BY <1>1, <1>5 DEF Running
  <2>2. l.num \in sources'
    BY <1>4
  <2>3. sources' = {l.num} => skip' = total'
    BY <1>4, <1>7, <1>8, <2>1
  <2> QED BY <1>4, <1>11, <2>2, <2>3 DEF Ended
<1>13. Alone'
  <2> SUFFICES ASSUME ~overlaps PROVE Alone'
    BY <1>4 DEF Alone
  <2>1. ui = "loading" /\ \A q \in Requests : pc[q] # "free" => q = r
    BY <1>1 DEF Alone, OneRequest
  <2>2. CASE ~More(skip + n, n, l.len)
    <3>1. \A q \in Requests : pc'[q] = "free"
      BY <1>5, <1>6, <2>1, <2>2
    <3> QED BY <1>5, <2>2, <3>1 DEF Alone
  <2>3. CASE More(skip + n, n, l.len)
    <3>1. n > 0 /\ l.len > 0
      BY <1>2, <1>3, <2>3 DEF More, Lists
    <3>2. l = stored[key]
      BY <1>1, <3>1, <1>2 DEF Alone
    <3>3. stored'[key'].num > 0 /\ sources' = {stored'[key'].num}
      BY <1>2, <1>4, <1>11, <3>2
    <3>4. pc'[r] = "lookup" /\ asked'[r].seq = loadSeq' /\ \A q \in Requests \ {r} : pc'[q] = "free"
      BY <1>4, <1>5, <1>6, <2>1, <2>3
    <3>5. ui' = "loading"
      BY <1>5, <2>1, <2>3
    <3> QED BY <3>3, <3>4, <3>5 DEF Alone, Current
  <2> QED BY <2>2, <2>3
<1> QED BY <1>10, <1>12, <1>13

\* A load that ended shows all of one list, if its pages are of one list or no older
\* request was running when it began: nothing else can replace the list in between.
THEOREM TimelineIsWhole == Spec => []WholeList
<1>1. Init => WInv
  <2> SUFFICES ASSUME Init PROVE WInv
    OBVIOUS
  <2>1. IInv
    BY InitIInv
  <2>2. \A v \in InPlay : v = NoList
    BY DEF Init, InPlay
  <2> QED BY <2>1, <2>2 DEF Init, WInv, Copies, OneList, Alone, Running, Current, Ended, NoList
<1>2. WInv /\ IInv' /\ [Next]_vars => WInv'
  <2> SUFFICES ASSUME WInv, IInv', [Next]_vars PROVE WInv'
    OBVIOUS
  <2> USE DEF WInv
  <2>1. Copies'
    BY CopiesKeep
  <2>2. ASSUME NEW k \in Keys, Select(k) PROVE OneList' /\ Alone' /\ Ended'
    BY <2>2, SelectStarts
  <2>3. ASSUME NEW r \in Requests, Lookup(r) \/ Compute(r) \/ ComputeFails(r) \/ Store(r)
        PROVE  OneList' /\ Alone' /\ Ended'
    <3>1. UNCHANGED console
      BY <2>3 DEF Lookup, Compute, ComputeFails, Store
    <3> QED BY <2>3, <3>1, OneListKeeps, HandlerAlone DEF console
  <2>4. ASSUME NEW r \in Requests, Discard(r) \/ Failed(r) PROVE OneList' /\ Alone' /\ Ended'
    <3>1. UNCHANGED <<sources, skip, total, rows>> /\ (UNCHANGED <<ui, overlaps>> \/ ui' = "failed")
      BY <2>4 DEF Discard, Failed, console
    <3> QED BY <2>4, <3>1, OneListKeeps, EndingAlone
  <2>5. ASSUME NEW r \in Requests, AppendPage(r) PROVE OneList' /\ Alone' /\ Ended'
    BY <2>1, <2>5, AppendPageWhole
  <2>6. ASSUME UNCHANGED vars PROVE OneList' /\ Alone' /\ Ended'
    <3>1. Alone'
      BY <2>6 DEF vars, server, console, Alone, Current
    <3>2. UNCHANGED <<sources, skip, total, rows>> /\ UNCHANGED <<ui, overlaps>> /\ ui' = ui
      BY <2>6 DEF vars, console
    <3> QED BY <2>1, <3>1, <3>2, OneListKeeps
  <2>7. Running'
    BY RunningKeeps
  <2> QED BY <2>1, <2>2, <2>3, <2>4, <2>5, <2>6, <2>7 DEF Next, Step
<1>3. WInv => WholeList
  <2> SUFFICES ASSUME WInv, ui = "done", Cardinality(sources) = 1 \/ ~overlaps
               PROVE  Cardinality(sources) = 1 /\ Len(rows) = total
    BY DEF WholeList
  <2>1. IsFiniteSet(sources)
    <3>1. sources \subseteq 1..lists /\ lists \in Nat
      BY DEF WInv, OneList, IInv, Typed
    <3>2. IsFiniteSet(1..lists)
      BY <3>1, FS_Interval
    <3> QED BY <3>1, <3>2, FS_Subset
  <2>2. PICK n : sources = {n}
    BY <2>1, FS_Singleton DEF WInv, Ended
  <2>3. skip = total
    BY <2>2 DEF WInv, Ended
  <2> QED BY <2>2, <2>3, FS_Singleton DEF WInv, IInv, InPlace
<1> QED BY <1>1, <1>2, <1>3, SpecIInv, PTL DEF Spec
=============================================================================
