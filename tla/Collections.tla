----------------------------- MODULE Collections -----------------------------
(***************************************************************************)
(* getAll of rest.go: a collection of VBR is read page by page, with one   *)
(* Get after the other, until a page is not full.  Meanwhile VBR inserts   *)
(* and removes items, and each page may come out of the cache of the       *)
(* session (RestGet), where every page has an age of its own.  So a later  *)
(* page may show a newer or an older state of the collection than the one  *)
(* before it.  How much older is AgeOfInformation of RestGet; here it is   *)
(* any state the collection has had.                                       *)
(*                                                                         *)
(* Which order VBR gives a collection is not known to the program: an item *)
(* may be inserted anywhere.  VBR fills its pages: it does not cut them    *)
(* below the limit that was asked for.                                     *)
(***************************************************************************)
EXTENDS Naturals, SequencesExt

CONSTANTS
  Items,       \* what a collection may hold
  PageSize,    \* pageSize
  MaxStates    \* bound: the collection has at most MaxStates states

ASSUME PageSizeAssumption == PageSize \in Nat \ {0}
ASSUME MaxStatesAssumption == MaxStates \in Nat \ {0}

VARIABLES
  states,      \* the states the collection has had, the last one is the present (external)
  pc,          \* where getAll is
  skip,        \* the position the next page begins after
  out,         \* the items collected so far
  from         \* history: for each page read, the number of the state it shows

vars == <<states, pc, skip, out, from>>

Lists == {c \in UNION {[1..n -> Items] : n \in 0..Cardinality(Items)} : IsInjective(c)}

Init ==
  /\ \E c \in Lists : states = <<c>>
  /\ pc = "idle"
  /\ skip = 0
  /\ out = <<>>
  /\ from = <<>>

-----------------------------------------------------------------------------
(* getAll *)

Begin ==
  /\ pc # "ask"
  /\ pc' = "ask"
  /\ skip' = 0
  /\ out' = <<>>
  /\ from' = <<>>
  /\ UNCHANGED states

\* What VBR sends for skip and limit, of one state of the collection.
Lesser(a, b) == IF a < b THEN a ELSE b
Page(c) == SubSeq(c, skip + 1, Lesser(skip + PageSize, Len(c)))

\* Slip: a page that is just full is taken for the last.
IsLastFull(n) == n <= PageSize
IsLast(n) == n < PageSize

\* Slip: skip is taken for the number of the last item read.
NextSkipLess == skip + PageSize - 1
NextSkip == skip + PageSize

\* getObj returns a page, as VBR or the cache has it.
Read(v) ==
  LET data == Page(states[v])
  IN /\ pc = "ask"
     /\ out' = out \o data
     /\ from' = Append(from, v)
     /\ IF IsLast(Len(data))
        THEN pc' = "done" /\ UNCHANGED skip
        ELSE skip' = NextSkip /\ UNCHANGED pc
     /\ UNCHANGED states

\* getObj fails: what was read so far is returned with the error.
Fail ==
  /\ pc = "ask"
  /\ pc' = "failed"
  /\ UNCHANGED <<states, skip, out, from>>

-----------------------------------------------------------------------------
(* VBR *)

Present == Last(states)

Become(c) ==
  /\ Len(states) < MaxStates
  /\ states' = Append(states, c)
  /\ UNCHANGED <<pc, skip, out, from>>

Insert(x, i) == x \notin ToSet(Present) /\ Become(InsertAt(Present, i, x))

Delete(i) == Become(RemoveAt(Present, i))

Next ==
  \/ Begin
  \/ \E v \in 1..Len(states) : Read(v)
  \/ Fail
  \/ \E x \in Items, i \in 1..(Len(Present) + 1) : Insert(x, i)
  \/ \E i \in 1..Len(Present) : Delete(i)

Spec == Init /\ [][Next]_vars

-----------------------------------------------------------------------------
(* Properties *)

TypeOK ==
  /\ states \in Seq(Seq(Items)) /\ Len(states) \in 1..MaxStates
  /\ \A k \in DOMAIN states : IsInjective(states[k])
  /\ pc \in {"idle", "ask", "done", "failed"}
  /\ skip \in {PageSize * n : n \in 0..Len(from)}
  /\ out \in Seq(Items)
  /\ from \in Seq(1..Len(states))

\* The items before x in the state page k was read from.
Before(x, k) ==
  LET c == states[from[k]] IN {c[i] : i \in 1..(CHOOSE j \in DOMAIN c : c[j] = x)} \ {x}

\* x was there in every state a page was read from.
Steady(x) == \A k \in DOMAIN from : x \in ToSet(states[from[k]])

\* An item that was there all the time is missing from a complete answer only if,
\* from one page to the next, an item before it went away: it was removed, or the
\* later page is the older one and does not have it yet.  Neither a full last page
\* nor one that was short in an older copy ends the reading too early.
LostOnlyByRemoval ==
  pc = "done" =>
    \A x \in Items :
      Steady(x) /\ x \notin ToSet(out) =>
        \E k \in 1..(Len(from) - 1) : ~(Before(x, k) \subseteq Before(x, k + 1))

\* It is there twice only if, from one page to the next, an item came before it:
\* it was inserted, or the later page is the older one and still has it.
TwiceOnlyByInsertion ==
  \A x \in Items, i, j \in DOMAIN out :
    i < j /\ out[i] = x /\ out[j] = x /\ Steady(x) =>
      \E k \in 1..(Len(from) - 1) : ~(Before(x, k + 1) \subseteq Before(x, k))
=============================================================================
