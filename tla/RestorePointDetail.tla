------------------------- MODULE RestorePointDetail -------------------------
(***************************************************************************)
(* The detail of a restore point: the console's pane (selectRp, setLang and  *)
(* selectAndLoad of index.html) and the requests it makes (LoadDetail,        *)
(* detail.go; GetRestorePoint, restorepoints.go; Aaip, aaip.go).             *)
(*                                                                         *)
(* A request reads VBR several times, and VBR makes and retires points in    *)
(* between.  The console does not cancel requests, so several are on their   *)
(* way at once and end in any order.  A point is a record: its backup, its    *)
(* workload (vm), the workloads its backup file names (named), its date (in    *)
(* hours), whether it was made as a full (start), and whether it is the        *)
(* backup file of a plug-in (file).  Sizes, types, labels and the history      *)
(* beyond ten years are left out.                                          *)
(*                                                                         *)
(* What is read is not what there is: the files of a backup come from a        *)
(* cache, and a list of points may be the answer VBR gave to an earlier        *)
(* request for the same.                                                   *)
(***************************************************************************)
EXTENDS FiniteSets, Integers, Sequences, FiniteSetsExt

CONSTANTS
  Requests,   \* requests for a detail that may be on their way at once
  Points,     \* restore points and plug-in files
  NoPoint,
  NoVm,       \* "", the workload is not known
  NoJob,      \* "", the backup has no job
  Clicked,    \* points that are not files, but whose files are rows of the timeline
  JobOf,      \* Inventory.backupJob
  VmsOf,      \* the workloads of the objects of a backup (objectBackup, objectVM)
  AaipOn,     \* Job.Aaip.On: "on", "off" or "unset"
  Tasks,      \* tasks of the session of a point: records of point and log
  NoSession,  \* points without a session
  Expiring,   \* points that retention may remove
  MaxNews,    \* bound on the rows that come or go while a list is read
  MaxFailed   \* bound on the backups whose objects fail while a list is read

\* What a row is selected by: the id of a point, or "bf:" and that of its file, which
\* is all there is of a plug-in's.
FileOf(p) == IF p.file THEN p ELSE [point |-> p, file |-> TRUE]
Ids == Points \cup {FileOf(p) : p \in Clicked}

ASSUME PointsAssumption ==
  /\ Clicked \subseteq Points /\ NoPoint \notin Ids
  /\ \A p \in Points : p.date \in Nat /\ p.start \in BOOLEAN /\ p.file \in BOOLEAN

Backups == DOMAIN JobOf
Job(p) == JobOf[p.backup]
SameChain(p, q) == p.backup = q.backup /\ p.vm = q.vm

\* The chains of VBR: a point that is not made as a full has one before it; of a
\* workload, a job makes one point at a time, and in one backup at a time (backups
\* without a job may well take turns); a workload of a plug-in has files only.
ASSUME ChainsAssumption ==
  /\ \A p \in Points : ~p.start => \E q \in Points : SameChain(p, q) /\ q.start /\ q.date < p.date
  /\ \A p, q \in Points : SameChain(p, q) /\ p.date = q.date => p = q
  /\ \A p, q, s \in Points :
       SameChain(p, s) /\ p.vm = q.vm /\ Job(p) = Job(q) /\ Job(p) # NoJob /\ p.date <= q.date /\ q.date <= s.date
       => SameChain(p, q)
  /\ \A p, q \in Points : p.vm = q.vm => p.file = q.file

\* The inventory is not older than the points: it has the workload of each.
ASSUME InventoryAssumption ==
  \A p \in Points :
    /\ p.backup \in Backups /\ p.vm \in VmsOf[p.backup] /\ IsFiniteSet(VmsOf[p.backup])
    /\ IsFiniteSet(p.named) /\ (p.named # {} => p.vm \in p.named)

\* A log is a list.
ASSUME TasksAssumption ==
  \A p \in Points : \A t \in Tasks[p] : Len(t.log) \in Nat /\ DOMAIN t.log = 1..Len(t.log)

VARIABLES
  selected,  \* console: S.selectedRp
  detail,    \* console: S.detail, whom it is of and whether it is an error
  drawn,     \* console: what renderDetail drew last
  call,      \* the requests
  answer,    \* what is made of an answer in this step, the verdict or the rest
  made,      \* VBR: points there are or were
  held,      \* VBR: points there are
  fulls      \* VBR: those that need no other, which includes tape

console == <<selected, detail, drawn>>
vbr == <<made, held, fulls>>
detailVars == <<console, call, answer, vbr>>

NoDetail == [of |-> NoPoint, ok |-> FALSE]
NoVerdict == [verdict |-> "", line |-> 0]
NoAnswer == [of |-> NoPoint, ok |-> FALSE, aaip |-> NoVerdict,
             chain |-> {}, needed |-> {}, locations |-> {}, lost |-> FALSE]

\* full and vm are what was read of the point; steady and fleeting are the rows of
\* the workload that were there all the time since the list was asked for, by this
\* request or the one it joined, or at some time of it.
Idle == [at |-> "off", asked |-> NoPoint, full |-> FALSE, vm |-> NoVm,
         steady |-> {}, fleeting |-> {}]

DetailInit ==
  /\ selected = NoPoint /\ detail = NoDetail
  /\ drawn = [kind |-> "empty", of |-> NoPoint]
  /\ call = [r \in Requests |-> Idle]
  /\ answer = NoAnswer
  /\ made = {} /\ held = {} /\ fulls = {}

-----------------------------------------------------------------------------
(* The console *)

\* renderDetail.  Slip: it takes no detail for no selection.
RenderEmpty(p, d) ==
  [kind |-> CASE d = NoDetail -> "empty" [] OTHER -> IF d.ok THEN "detail" ELSE "error",
   of |-> d.of]
Render(p, d) ==
  [kind |-> CASE p = NoPoint -> "empty"
              [] p # NoPoint /\ d = NoDetail -> "loading"
              [] OTHER -> IF d.ok THEN "detail" ELSE "error",
   of |-> IF p = NoPoint THEN NoPoint ELSE d.of]

\* selectRp up to its await
Select(r, p) ==
  /\ call[r].at = "off"
  /\ selected' = p /\ detail' = NoDetail
  /\ drawn' = Render(p, NoDetail)
  /\ call' = [call EXCEPT ![r] = [Idle EXCEPT !.at = "point", !.asked = p]]
  /\ answer' = NoAnswer
  /\ UNCHANGED vbr

\* S.detail = what came, or the error.  Slip: an error is not caught.
Uncaught(a) == IF a.ok THEN [of |-> a.of, ok |-> TRUE] ELSE NoDetail
Stored(a) == [of |-> a.of, ok |-> a.ok]

\* if (S.selectedRp === id).  Slip: the check is forgotten.
DrawsAlways(a) == TRUE
Draws(a) == selected = a.of

\* The handler answers, and selectRp goes on after its await: the time the answer
\* is on its way may as well pass before it is made, for all the console can tell.
Deliver(r, a) ==
  /\ answer' = a
  /\ detail' = Stored(a)
  /\ drawn' = IF Draws(a) THEN Render(selected, detail') ELSE drawn
  /\ call' = [call EXCEPT ![r] = Idle]
  /\ UNCHANGED <<selected, vbr>>

\* setLang draws again what there is.
SwitchLang ==
  /\ drawn' = Render(selected, detail)
  /\ answer' = NoAnswer
  /\ UNCHANGED <<selected, detail, call, vbr>>

\* selectAndLoad, first lines: another job, workload, repository or period.
SelectAndLoad ==
  /\ selected' = NoPoint /\ detail' = NoDetail
  /\ drawn' = Render(NoPoint, NoDetail)
  /\ answer' = NoAnswer
  /\ UNCHANGED <<call, vbr>>

-----------------------------------------------------------------------------
(* VBR *)

ChainOf(p) == {q \in held : SameChain(p, q)}

RowsOf(vm, h, fs) ==
  {[point |-> p, full |-> p \in fs, file |-> FALSE] : p \in {q \in h : q.vm = vm /\ ~q.file}}

\* What the lists that are being read may have of the change.
Notice(c) ==
  LET now == RowsOf(c.vm, held', fulls')
  IN IF c.at # "reading" THEN c
     ELSE [c EXCEPT !.steady = @ \cap now,
                    !.fleeting = @ \cup (c.steady \ now) \cup (now \ c.steady)]
News ==
  /\ call' = [r \in Requests |-> Notice(call[r])]
  /\ \A r \in Requests : Cardinality(call'[r].fleeting) <= MaxNews
  /\ answer' = NoAnswer
  /\ UNCHANGED console

\* A job makes its next point.
Make ==
  \E p \in Points \ made :
    /\ \A q \in Points \ made : p.date <= q.date
    /\ made' = made \cup {p} /\ held' = held \cup {p}
    /\ fulls' = IF p.start THEN fulls \cup {p} ELSE fulls
    /\ News

\* The oldest point of a chain goes; the next one, if it was an increment, takes
\* its blocks over and is a full.  An increment is never left without its full.
Retire(p) ==
  LET rest == ChainOf(p) \ {p}
  IN /\ p \in held \cap Expiring /\ \A q \in rest : p.date < q.date
     /\ rest = {} => \A q \in Points \ made : SameChain(p, q) => q.start
     /\ held' = held \ {p}
     /\ fulls' = (fulls \ {p}) \cup {q \in rest : \A s \in rest : q.date <= s.date}
     /\ News /\ UNCHANGED made

-----------------------------------------------------------------------------
(* LoadDetail: the point *)

Goes(r, c) ==
  /\ call' = [call EXCEPT ![r] = c] /\ answer' = NoAnswer
  /\ UNCHANGED <<console, vbr>>

\* The session, the inventory, the point or the file cannot be had.
Refused(r) ==
  /\ call[r].at = "point"
  /\ Deliver(r, [NoAnswer EXCEPT !.of = call[r].asked])

\* inv.objectVM over objectIds of the file, the last one known wins.  The files
\* cannot be read, or their copy in the cache is older than the point: "".
Owner(p) == IF p.named = {} THEN {NoVm} ELSE p.named

\* The other requests at the same place: a GET of the same path joins theirs, and
\* gets what VBR may have answered before it was made (single flight).
Others(r, at) == {c \in {call[q] : q \in Requests \ {r}} : c.at = at}

\* If the backup has objects of one workload only, it is that one.
OnlyVm(p, vm) ==
  IF vm = NoVm /\ Cardinality(VmsOf[p.backup]) = 1 THEN CHOOSE v \in VmsOf[p.backup] : TRUE ELSE vm

GetRestorePoint(r) ==
  LET c == call[r]
      joined == {d \in Others(r, "aaip") : d.asked = c.asked}
  IN /\ c.at = "point" /\ ~c.asked.file
     /\ \E full \in BOOLEAN, vm \in Owner(c.asked) \cup {NoVm} :
          /\ \/ c.asked \in held /\ full = (c.asked \in fulls)
             \/ \E d \in joined : full = d.full
          /\ Goes(r, [c EXCEPT !.at = "aaip", !.full = full, !.vm = OnlyVm(c.asked, vm)])

-----------------------------------------------------------------------------
(* Aaip: two calls whose failures are tolerated.  Nothing else looks at what it   *)
(* leaves in the point.                                                     *)

Guest(log, status) == {i \in DOMAIN log : log[i].guest /\ log[i].status = status}

\* classifyGuestLogs: the first failure ends the search, of the warnings the last
\* counts.  Slip: a later warning outdoes a failure.
ClassifyLast(log) ==
  IF Guest(log, "Warning") # {} THEN [verdict |-> "warn", line |-> Max(Guest(log, "Warning"))]
  ELSE IF Guest(log, "Failed") # {} THEN [verdict |-> "fail", line |-> Min(Guest(log, "Failed"))]
  ELSE [verdict |-> "ok", line |-> 0]
Classify(log) ==
  LET failed == Guest(log, "Failed") warned == Guest(log, "Warning") fine == Guest(log, "Success")
  IN CASE failed # {} -> [verdict |-> "fail", line |-> Min(failed)]
       [] failed = {} /\ warned # {} -> [verdict |-> "warn", line |-> Max(warned)]
       [] OTHER -> [verdict |-> "ok", line |-> IF fine = {} THEN 0 ELSE Min(fine)]

\* The task of the point, or the only one there is.
TasksFor(p) ==
  IF \E t \in Tasks[p] : t.point = p THEN {t \in Tasks[p] : t.point = p}
  ELSE IF Cardinality(Tasks[p]) = 1 THEN Tasks[p] ELSE {}

AaipOf(p) == IF Job(p) = NoJob THEN "unset" ELSE AaipOn[Job(p)]

\* What Aaip leaves in the point; the calls are made only if they can tell.
Aaip(p) ==
  CASE AaipOf(p) = "unset" -> {NoVerdict}
    [] AaipOf(p) = "off" -> {[NoVerdict EXCEPT !.verdict = "off"]}
    [] AaipOf(p) = "on" /\ p \in NoSession -> {NoVerdict}
    [] OTHER -> {NoVerdict} \cup
         IF TasksFor(p) = {} THEN {[NoVerdict EXCEPT !.verdict = "ok"]}
         ELSE {Classify(t.log) : t \in TasksFor(p)}

\* The point alone: its list is not asked for, or does not have it.
Alone(c) ==
  LET own == [point |-> c.asked, full |-> c.full, file |-> FALSE]
  IN [NoAnswer EXCEPT !.of = c.asked, !.ok = TRUE, !.chain = {own}, !.needed = {own}]

\* The workload is known: its list is asked for, of ten years up to the point.
AskList(r) ==
  LET c == call[r]
      joined == {d \in Others(r, "reading") : d.vm = c.vm /\ d.asked.date = c.asked.date}
      asked == [c EXCEPT !.at = "reading", !.steady = RowsOf(c.vm, held, fulls)]
  IN /\ c.at = "aaip" /\ c.vm # NoVm
     /\ \E d \in {asked} \cup joined :
          call' = [call EXCEPT ![r] = [asked EXCEPT !.steady = d.steady, !.fleeting = d.fleeting]]
     /\ \E v \in Aaip(c.asked) : answer' = [NoAnswer EXCEPT !.of = c.asked, !.aaip = v]
     /\ UNCHANGED <<console, vbr>>

\* It is not: the chain is limited to the point itself.
NoWorkload(r) ==
  LET c == call[r] IN
  /\ c.at = "aaip" /\ c.vm = NoVm
  /\ \E v \in Aaip(c.asked) : Deliver(r, [Alone(c) EXCEPT !.aaip = v])

-----------------------------------------------------------------------------
(* The chain and the locations *)

\* The place of the last full that is not after the point, or of the oldest point.
\* same is sorted by date.
Opens(same, p) ==
  LET opening == {x.point.date : x \in {y \in same : y.full /\ y.point.date <= p.date}}
  IN IF opening # {} THEN Max(opening) ELSE Min({x.point.date : x \in same})

\* Before the next full.  Slip: that one is taken in.
ClosesAfter(same, x, p) ==
  \A y \in same : y.full /\ p.date < y.point.date => x.point.date <= y.point.date
Closes(same, x, p) ==
  \A y \in same : y.full /\ p.date < y.point.date => x.point.date < y.point.date

Chain(same, p) == {x \in same : Opens(same, p) <= x.point.date /\ Closes(same, x, p)}

\* same[a:idx+1]
NeededFor(chain, p) == {x \in chain : x.point.date <= p.date}

\* math.Abs.  Slip: without it, whatever is older counts.
NearLater(p, q) == q.date - p.date <= 18
Near(p, q) == p.date - q.date <= 18 /\ q.date - p.date <= 18

Detail(c, list) ==
  LET p == c.asked
      same == {x \in list : Job(x.point) = Job(p)}
      elsewhere == {x \in list \ same : Near(x.point, p)}
      alone == [Alone(c) EXCEPT !.locations = elsewhere]
      chain == Chain(same, p)
  IN IF \E x \in same : x.point = p /\ ~x.file
     THEN [alone EXCEPT !.chain = chain, !.needed = NeededFor(chain, p)]
     ELSE alone

\* backupFiles, of now or from the cache: any of the files the backup had, each as
\* the full or the increment it was.
FileRows(b) ==
  {x \in [point : {p \in made : p.backup = b}, full : BOOLEAN, file : {TRUE}] :
     IF x.point.start THEN x.full ELSE x.full => x.point \in fulls \cup (made \ held)}

OncePerPoint(rows) == \A x, y \in rows : x.point = y.point => x = y

\* RestorePoints of the workload.  What an object that failed would have shown is
\* there only if another one reports it too (one that has nothing to show is as
\* good as failed); a backup that showed nothing is shown through its files, of
\* whichever workload (steps 3 and 4 of RestorePoints).  No row is there twice.
ListAnswered(r) ==
  LET c == call[r]
      scope == {b \in Backups : c.vm \in VmsOf[b]}
  IN /\ c.at = "reading"
     /\ \E failed \in SUBSET {x.point.backup : x \in c.steady \cup c.fleeting} :
        \E more \in SUBSET (c.fleeting \cup {x \in c.steady : x.point.backup \in failed}) :
          LET rows == {x \in c.steady : x.point.backup \notin failed} \cup more
              unseen == {b \in scope : \A x \in rows : x.point.backup # b}
          IN /\ Cardinality(failed) <= MaxFailed /\ OncePerPoint(rows)
             /\ \E files \in SUBSET UNION {FileRows(b) : b \in unseen} :
                  /\ OncePerPoint(files)
                  /\ Deliver(r, [Detail(c, rows \cup files) EXCEPT !.lost = failed # {} \/ files # {}])

\* fileDetail: the backups are read in the order of a Go map, until one has the
\* file.  Its chain is what the list of the files, or a copy of it, has.
FileFound(r) ==
  LET c == call[r] IN
  /\ c.at = "point" /\ c.asked.file
  /\ \E p \in {q \in made : FileOf(q) = c.asked} : \E chain \in SUBSET FileRows(p.backup) :
       /\ OncePerPoint(chain)
       /\ \E own \in {x \in chain : x.point = p} :
            Deliver(r, [Alone(c) EXCEPT !.chain = chain, !.needed = {own}])

-----------------------------------------------------------------------------
Step(r) ==
  \/ Refused(r) \/ GetRestorePoint(r) \/ AskList(r) \/ NoWorkload(r)
  \/ ListAnswered(r) \/ FileFound(r)

DetailNext ==
  \/ \E r \in Requests : Step(r) \/ \E p \in made \cup {FileOf(q) : q \in made \cap Clicked} : Select(r, p)
  \/ SwitchLang \/ SelectAndLoad
  \/ Make \/ \E p \in held : Retire(p)

DetailSpec == DetailInit /\ [][DetailNext]_detailVars

-----------------------------------------------------------------------------
(* Properties *)

Rows == [point : Points, full : BOOLEAN, file : BOOLEAN]

DetailTypeOK ==
  /\ selected \in Ids \cup {NoPoint}
  /\ detail \in [of : Ids \cup {NoPoint}, ok : BOOLEAN]
  /\ drawn \in [kind : {"empty", "loading", "error", "detail"}, of : Ids \cup {NoPoint}]
  /\ drawn.kind = "empty" <=> selected = NoPoint
  /\ fulls \subseteq held /\ held \subseteq made /\ made \subseteq Points
  /\ \A p \in held : \E q \in ChainOf(p) \cap fulls : q.date <= p.date
  /\ \A r \in Requests :
       /\ call[r].at \in {"off", "point", "aaip", "reading"}
       /\ call[r].asked \in Ids \cup {NoPoint}
       /\ call[r].steady \subseteq Rows /\ call[r].fleeting \subseteq Rows
  /\ answer.of \in Ids \cup {NoPoint}
  /\ answer.chain \subseteq Rows /\ answer.locations \subseteq Rows

\* However many answers are late, and in whatever order they come, none makes the
\* pane show a point that is not selected.  Only the redrawing of setLang does:
\* selectRp stores an answer before it looks whom it is for (index.html:851).
PaneOfSelection == drawn.kind \in {"detail", "error"} => drawn.of = selected
OnlyLangMixesPanes == [][PaneOfSelection /\ ~PaneOfSelection' => SwitchLang]_detailVars

\* Points come and go, and lists are old or incomplete: still a chain is of one job (or of
\* all the backups without one), has no full but its first (chain_test.go:95), and the files
\* needed for the point are those of the chain up to the point, which is the last of them.
\* No restore point of another workload is in the chain or among the locations, unless the
\* backup file of the point holds several.
OneChain ==
  answer.ok /\ ~answer.of.file =>
    /\ \A x \in answer.chain :
         /\ Job(x.point) = Job(answer.of)
         /\ x.full => \A y \in answer.chain : x.point.date <= y.point.date
    /\ \E x \in answer.needed : x.point = answer.of /\ ~x.file
    /\ \A x \in answer.chain : x \in answer.needed <=> x.point.date <= answer.of.date
    /\ Cardinality(answer.of.named) <= 1 =>
         \A x \in answer.chain \cup answer.locations : x.file \/ x.point.vm = answer.of.vm

\* The full VBR needs to restore a point.
BaseOf(p) ==
  CHOOSE q \in ChainOf(p) \cap fulls :
    /\ q.date <= p.date
    /\ \A s \in ChainOf(p) \cap fulls : s.date <= p.date => s.date <= q.date

\* Nothing failed, and nothing came or went since VBR was first asked for what is in
\* the list, no backup is shown through its files (which may be those of half an hour
\* ago), and the workload of the point was recognised.  Then the copies that other jobs
\* made within 18 hours are all there; and if the backup has a job, the chain is what
\* stands on the same full in VBR, though the code looks at jobs and dates and not at
\* backups, and the files it says a restore reads are those it reads.
DetailIsTrue ==
  [][\A r \in Requests :
       LET c == call[r] p == c.asked IN
       /\ c.at = "reading" /\ call'[r].at = "off" /\ ~answer'.lost
       /\ p \in held /\ c.vm = p.vm /\ c.fleeting = {}
       => /\ {x.point : x \in answer'.locations} =
               {q \in held : q.vm = p.vm /\ Job(q) # Job(p)
                             /\ q.date \in p.date - 18 .. p.date + 18}
          /\ Job(p) # NoJob =>
               /\ {x.point : x \in answer'.chain} = {q \in ChainOf(p) : BaseOf(q) = BaseOf(p)}
               /\ {x.point : x \in answer'.needed} =
                    {q \in ChainOf(p) : BaseOf(p).date <= q.date /\ q.date <= p.date}]_detailVars

\* The line that is quoted for a verdict is about the guest and is as bad as the
\* verdict, and no other of that log about the guest is worse.
VerdictOfItsLog ==
  answer.aaip.line # 0 =>
    \E t \in TasksFor(answer.of) :
      LET line == t.log[answer.aaip.line]
          worse == CASE line.status = "Success" -> {"Warning", "Failed"}
                     [] line.status = "Warning" -> {"Failed"}
                     [] OTHER -> {}
      IN /\ line.guest
         /\ <<answer.aaip.verdict, line.status>> \in
              {<<"ok", "Success">>, <<"warn", "Warning">>, <<"fail", "Failed">>}
         /\ \A i \in DOMAIN t.log : t.log[i].guest => t.log[i].status \notin worse

\* A pane at "loading" waits for a request about the point it is for: an error, a
\* late answer to another click or a point that is gone meanwhile do not leave it
\* there with nothing under way.
LoadingIsAwaited ==
  drawn.kind = "loading" =>
    \E r \in Requests : call[r].at # "off" /\ call[r].asked = selected
=============================================================================
