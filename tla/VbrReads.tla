------------------------------ MODULE VbrReads ------------------------------
(***************************************************************************)
(* What a caller of vbr.Get is promised about the bodies it reads, without *)
(* cache, single flight, budgets or clock: reads of one resource never go  *)
(* back in time.  A read returns some version VBR has held, no older than  *)
(* the newest version any earlier read of that resource had returned when  *)
(* this one began, or it fails.                                            *)
(***************************************************************************)
EXTENDS Naturals

CONSTANTS Getters, Paths, NoPath, MaxVersion

VARIABLES
  path,      \* the resource each getter is reading, or NoPath
  floor,     \* the newest version read before the read began
  version,   \* what VBR holds
  seen,      \* the newest version read so far
  got        \* what the last read of each getter returned, 0 if it failed

vars == <<path, floor, version, seen, got>>

Init ==
  /\ path = [g \in Getters |-> NoPath]
  /\ floor = [g \in Getters |-> 0]
  /\ version = [p \in Paths |-> 1]
  /\ seen = [p \in Paths |-> 0]
  /\ got = [g \in Getters |-> 0]

Begin(g, p) ==
  /\ path[g] = NoPath
  /\ path' = [path EXCEPT ![g] = p]
  /\ floor' = [floor EXCEPT ![g] = seen[p]]
  /\ got' = [got EXCEPT ![g] = 0]
  /\ UNCHANGED <<version, seen>>

End(g) ==
  /\ path[g] # NoPath
  /\ path' = [path EXCEPT ![g] = NoPath]
  /\ floor' = [floor EXCEPT ![g] = 0]
  /\ UNCHANGED version

\* The caller gets version v, which is remembered if it is news.
Read(g, v) ==
  /\ End(g)
  /\ v \in floor[g] .. version[path[g]]
  /\ seen' = [seen EXCEPT ![path[g]] = IF @ < v THEN v ELSE @]
  /\ got' = [got EXCEPT ![g] = v]

Fail(g) == End(g) /\ UNCHANGED <<seen, got>>

Change(p) ==
  /\ version[p] < MaxVersion
  /\ version' = [version EXCEPT ![p] = @ + 1]
  /\ UNCHANGED <<path, floor, seen, got>>

Next ==
  \/ \E g \in Getters, p \in Paths : Begin(g, p)
  \/ \E g \in Getters : Fail(g) \/ \E v \in 1..MaxVersion : Read(g, v)
  \/ \E p \in Paths : Change(p)

Spec == Init /\ [][Next]_vars
=============================================================================
