-------------------------- MODULE UpdateFlowProofs --------------------------
(***************************************************************************)
(* UpdateFlow for any number of releases, downloads and installations: the   *)
(* transaction lock, what is offered, and where a helper has its files from. *)
(***************************************************************************)
EXTENDS UpdateFlow, SequenceTheorems, TLAPS

-----------------------------------------------------------------------------
(* What the helpers of the actions return *)

LEMMA NothingType == Nothing \in Updates
BY UpdateAssumption DEF Nothing, Updates, Versions

LEMMA ShowType ==
  ASSUME NEW ws \in Seq(Windows) PROVE Show(ws) \in Seq(Windows)
<1>1. Window("dialog", Nothing, "ok") \in Windows
  BY NothingType DEF Window, Windows
<1> QED
  BY <1>1, AppendProperties DEF Show

LEMMA DialogType ==
  ASSUME TypeOK, NEW v \in Versions, NEW s, ShowDialog(v, s)
  PROVE  dialog' \in Looks /\ shown' \in Versions /\ windows' \in Seq(Windows)
<1>1. windows' \in Seq(Windows)
  BY ShowType DEF ShowDialog, TypeOK
<1> QED
  BY <1>1 DEF ShowDialog, Looks

LEMMA PoppedType ==
  ASSUME TypeOK, windows # <<>>
  PROVE  Popped \in Seq(Windows) /\ TopUpdate \in Updates
         /\ windows[Len(windows)] \in Windows
<1>1. windows \in Seq(Windows) /\ Len(windows) \in Nat /\ Len(windows) > 0
  BY LenProperties, EmptySeq DEF TypeOK
<1>2. windows[Len(windows)] \in Windows
  BY <1>1, ElementOfSeq
<1>3. Popped \in Seq(Windows)
  BY <1>1, SubSeqProperties DEF Popped
<1> QED
  BY <1>2, <1>3 DEF TopUpdate, Windows

LEMMA ActiveType ==
  ASSUME TypeOK, jobs # <<>>
  PROVE  /\ Active \in Jobs /\ Active.upd \in Updates /\ Active.upd.txn \in Nat
         /\ Active.id \in 0..MaxDownloads
         /\ Tail(jobs) \in Seq(Jobs)
<1>1. Active \in Jobs /\ Tail(jobs) \in Seq(Jobs)
  BY HeadTailProperties DEF TypeOK, Active
<1> QED
  BY <1>1 DEF Jobs, Updates

LEMMA ContinueType ==
  ASSUME TypeOK, jobs # <<>>, NEW t \in Nat,
         NEW p \in {"queued", "fetching", "fetched", "staging", "verified", "planned"},
         Continue(p, t)
  PROVE  jobs' \in Seq(Jobs) /\ events' \in Seq(Events)
<1> DEFINE j == [Active EXCEPT !.phase = p, !.upd.txn = t]
<1>1. Active \in Jobs /\ Active.upd \in Updates /\ Tail(jobs) \in Seq(Jobs)
  BY ActiveType
<1>2. [Active.upd EXCEPT !.txn = t] \in Updates
  BY <1>1 DEF Updates
<1>3. j \in Jobs
  BY <1>1, <1>2 DEF Jobs
<1>4. <<j>> \in Seq(Jobs)
  BY <1>3
<1>5. jobs' = <<j>> \o Tail(jobs)
  BY DEF Continue
<1> HIDE DEF j
<1>6. jobs' \in Seq(Jobs)
  BY <1>1, <1>4, <1>5, ConcatProperties
<1> QED
  BY <1>6 DEF Continue, TypeOK

LEMMA EndType ==
  ASSUME TypeOK, jobs # <<>>, NEW u \in Updates,
         NEW outcome \in {"ok", "error", "tampered"}, End(u, outcome)
  PROVE  jobs' \in Seq(Jobs) /\ events' \in Seq(Events)
<1> DEFINE first == Event(ResultOf[Active.kind], Active.id, u, outcome)
           last  == Event(OverOf[Active.kind], Active.id, Nothing, "ok")
<1>1. Active \in Jobs /\ Active.id \in 0..MaxDownloads /\ Tail(jobs) \in Seq(Jobs)
  BY ActiveType
<1>2. Active.kind \in {"check", "download", "install"}
  BY <1>1 DEF Jobs
<1>3. /\ ResultOf[Active.kind] \in {"checked", "downloaded", "installed"}
      /\ OverOf[Active.kind] \in {"checkOver", "downloadOver", "installOver"}
  BY <1>2 DEF ResultOf, OverOf
<1>4. first \in Events
  BY <1>1, <1>3 DEF Event, Events
<1>5. last \in Events
  BY <1>1, <1>3, NothingType DEF Event, Events
<1>6. events' = events \o <<first, last>> /\ jobs' = Tail(jobs)
  BY DEF End
<1> HIDE DEF first, last
<1>7. <<first, last>> \in Seq(Events)
  BY <1>4, <1>5
<1>8. events' \in Seq(Events)
  BY <1>6, <1>7, ConcatProperties DEF TypeOK
<1> QED
  BY <1>1, <1>6, <1>8

LEMMA EventType ==
  ASSUME TypeOK, events # <<>>
  PROVE  /\ Arrived \in Events /\ Arrived.upd \in Updates /\ Arrived.upd.ver \in Versions
         /\ Arrived.outcome \in {"ok", "error", "tampered"}
         /\ Tail(events) \in Seq(Events)
<1>1. Arrived \in Events /\ Tail(events) \in Seq(Events)
  BY HeadTailProperties DEF TypeOK, Arrived
<1> QED
  BY <1>1 DEF Events, Updates

\* What the operations on the lock leave of it.
LockType == txns' \in Nat /\ txn' \in 0..txns' /\ other' \in BOOLEAN

LEMMA LockTypes ==
  ASSUME TypeOK, AcquireLock \/ ReleaseLock \/ KeepLock \/ Refused \/ LoseLock \/ Holds
  PROVE  LockType /\ Current \in Nat
<1>1. txns \in Nat /\ txn \in 0..txns /\ other \in BOOLEAN
  BY DEF TypeOK
<1> QED
  BY <1>1 DEF AcquireLock, ReleaseLock, KeepLock, Refused, LoseLock, Holds, lock, LockType,
     Current, MadeIds, HasLock

-----------------------------------------------------------------------------
(* Types *)

LEMMA InitType == Init => TypeOK
<1> SUFFICES ASSUME Init PROVE TypeOK OBVIOUS
<1>1. Check \in Jobs
  BY NothingType, UpdateAssumption DEF Check, Job, Jobs
<1>2. jobs \in Seq(Jobs)
  BY <1>1 DEF Init
<1>3. windows \in Seq(Windows) /\ events \in Seq(Events)
  BY EmptySeq DEF Init
<1>4. /\ checking = TRUE /\ manual = FALSE /\ cancelled = FALSE /\ installing = FALSE
      /\ button = FALSE /\ other \in BOOLEAN /\ quit = FALSE /\ undercut = FALSE
  BY DEF Init
<1>5. /\ latest \in Versions /\ info \in Versions /\ identity \in Versions
      /\ skipped \in Versions /\ shown \in Versions /\ staged \in Updates
      /\ dialog \in Looks /\ roots = {} /\ helpers = {}
  BY NothingType, UpdateAssumption DEF Init, Versions, Looks
<1>6. /\ operation \in 0..MaxDownloads /\ txns \in Nat /\ txn \in 0..txns
      /\ downloads \in 0..MaxDownloads /\ installs \in 0..MaxInstalls
  BY UpdateAssumption DEF Init
<1> QED
  BY <1>2, <1>3, <1>4, <1>5, <1>6 DEF TypeOK

\* The actions of other processes and of the project.
LEMMA OutsideType ==
  ASSUME TypeOK, Release \/ OtherTakes \/ OtherLeaves \/ Exit
  PROVE  TypeOK'
<1>1. CASE Release
  BY <1>1, UpdateAssumption DEF Release, books, workers, view, lock, counts, TypeOK, Versions
<1>2. CASE OtherTakes
  BY <1>2 DEF OtherTakes, books, workers, view, counts, TypeOK
<1>3. CASE OtherLeaves
  BY <1>3 DEF OtherLeaves, books, workers, view, counts, TypeOK
<1>4. CASE Exit
  BY <1>4 DEF Exit, ReleaseLock, poolOnly, books, workers, view, counts, TypeOK
<1> QED
  BY <1>1, <1>2, <1>3, <1>4

LEMMA AskCheckType == ASSUME TypeOK, AskCheck PROVE TypeOK'
<1>1. dialog' \in Looks /\ shown' \in Versions /\ windows' \in Seq(Windows)
  <2>1. CASE operation # 0 /\ info # 0
    BY <2>1, DialogType DEF AskCheck, TypeOK
  <2>2. CASE ~(operation # 0 /\ info # 0)
    BY <2>2 DEF AskCheck, TypeOK
  <2> QED
    BY <2>1, <2>2
<1>2. jobs' \in Seq(Jobs)
  <2>1. Check \in Jobs
    BY NothingType, UpdateAssumption DEF Check, Job, Jobs
  <2>2. Append(jobs, Check) \in Seq(Jobs)
    BY <2>1, AppendProperties DEF TypeOK
  <2> QED
    BY <2>2 DEF AskCheck, TypeOK
<1>3. checking' \in BOOLEAN /\ manual' \in BOOLEAN
  BY DEF AskCheck, TypeOK
<1> QED
  BY <1>1, <1>2, <1>3 DEF AskCheck, books, lock, counts, TypeOK

\* The buttons of the dialog and of the question.
LEMMA DialogButtonsType ==
  ASSUME TypeOK, OpenDialog \/ CloseDialog \/ Skip \/ AskInstall \/ AnswerNo \/ Close
  PROVE  TypeOK'
<1>1. CASE OpenDialog
  <2>1. dialog' \in Looks /\ shown' \in Versions /\ windows' \in Seq(Windows)
    BY <1>1, DialogType DEF OpenDialog, TypeOK
  <2> QED
    BY <1>1, <2>1 DEF OpenDialog, books, workers, lock, counts, TypeOK
<1>2. CASE CloseDialog
  <2>1. windows' \in Seq(Windows)
    BY <1>2, PoppedType DEF CloseDialog, Top
  <2> QED
    BY <1>2, <2>1 DEF CloseDialog, books, workers, lock, counts, TypeOK
<1>3. CASE Skip
  <2>1. windows' \in Seq(Windows)
    BY <1>3, PoppedType DEF Skip, Top
  <2> QED
    BY <1>3, <2>1 DEF Skip, workers, lock, counts, TypeOK
<1>4. CASE AskInstall
  <2>1. Window("question", staged, "ok") \in Windows
    BY DEF Window, Windows, TypeOK
  <2>2. Append(windows, Window("question", staged, "ok")) \in Seq(Windows)
    BY <2>1, AppendProperties DEF TypeOK
  <2>3. windows' \in Seq(Windows) /\ dialog' \in Looks
    BY <1>4, <2>2 DEF AskInstall, TypeOK, Looks
  <2> QED
    BY <1>4, <2>3 DEF AskInstall, books, workers, lock, counts, TypeOK
<1>5. CASE AnswerNo
  <2>1. windows' \in Seq(Windows)
    BY <1>5, PoppedType DEF AnswerNo, Top
  <2> QED
    BY <1>5, <2>1 DEF AnswerNo, books, workers, lock, counts, TypeOK, Looks
<1>6. CASE Close
  BY <1>6 DEF Close, books, view, lock, counts, TypeOK
<1> QED
  BY <1>1, <1>2, <1>3, <1>4, <1>5, <1>6

LEMMA StartDownloadType == ASSUME TypeOK, StartDownload PROVE TypeOK'
<1> DEFINE u == [ver |-> info, txn |-> 0]
           j == Job("download", downloads + 1, u, "queued")
<1>1. dialog' \in Looks
  BY DEF StartDownload, Looks
<1>2. CASE info # 0 /\ shown = info /\ operation = 0
  <2>1. downloads + 1 \in 0..MaxDownloads
    BY <1>2, UpdateAssumption DEF StartDownload, TypeOK
  <2>2. u \in Updates
    BY DEF Updates, TypeOK
  <2>3. j \in Jobs
    BY <2>1, <2>2 DEF Job, Jobs
  <2>4. jobs' = Append(jobs, j)
    BY <1>2 DEF StartDownload
  <2> HIDE DEF j
  <2>5. jobs' \in Seq(Jobs)
    BY <2>3, <2>4, AppendProperties DEF TypeOK
  <2>6. /\ downloads' = downloads + 1 /\ operation' = downloads + 1 /\ cancelled' = FALSE
        /\ identity' = info /\ button' = TRUE
    BY <1>2 DEF StartDownload
  <2>7. UNCHANGED <<latest, info, staged, skipped, checking, manual, installing, shown, windows,
                    events, lock, roots, helpers, quit, installs, undercut>>
    BY DEF StartDownload
  <2> QED
    BY <1>1, <2>1, <2>5, <2>6, <2>7 DEF lock, TypeOK
<1>3. CASE ~(info # 0 /\ shown = info /\ operation = 0)
  BY <1>1, <1>3 DEF StartDownload, lock, TypeOK
<1> QED
  BY <1>2, <1>3

LEMMA AnswerYesType == ASSUME TypeOK, AnswerYes PROVE TypeOK'
<1> DEFINE j == Job("install", 0, TopUpdate, "queued")
<1>1. Popped \in Seq(Windows) /\ TopUpdate \in Updates
  BY PoppedType DEF AnswerYes, Top
<1>2. j \in Jobs
  BY <1>1, UpdateAssumption DEF Job, Jobs
<1>3. jobs' = jobs \/ jobs' = Append(jobs, j)
  BY DEF AnswerYes
<1>4. jobs' \in Seq(Jobs)
  <2> HIDE DEF j
  <2>1. jobs \in Seq(Jobs)
    BY DEF TypeOK
  <2>2. Append(jobs, j) \in Seq(Jobs)
    BY <1>2, <2>1, AppendProperties
  <2> QED
    BY <1>3, <2>1, <2>2
<1>5. installs' \in 0..MaxInstalls
  BY UpdateAssumption DEF AnswerYes, TypeOK
<1>6. windows' \in Seq(Windows) /\ dialog' \in Looks /\ installing' \in BOOLEAN
  BY <1>1 DEF AnswerYes, Looks
<1>7. UNCHANGED <<latest, books, checking, manual, operation, cancelled, button, shown, events, lock,
                  roots, helpers, quit, downloads, undercut>>
  BY DEF AnswerYes
<1> QED
  BY <1>4, <1>5, <1>6, <1>7 DEF books, lock, TypeOK

LEMMA DismissType == ASSUME TypeOK, DismissWarning PROVE TypeOK'
<1>1. windows' \in Seq(Windows)
  BY PoppedType DEF DismissWarning, Top
<1>2. /\ roots' \subseteq Updates /\ staged' \in Updates /\ identity' \in Versions
      /\ button' \in BOOLEAN /\ dialog' \in Looks
  <2>1. CASE windows[Len(windows)].outcome = "tampered"
    <3>1. /\ roots' = roots \ Discarded(TopUpdate) /\ staged' = Nothing /\ identity' = 0
          /\ dialog' = "error" /\ button' = TRUE
      BY <2>1 DEF DismissWarning, Forget
    <3> QED
      BY <3>1, NothingType, UpdateAssumption DEF TypeOK, Looks, Versions
  <2>2. CASE ~(windows[Len(windows)].outcome = "tampered")
    <3>1. dialog' = "ready" /\ UNCHANGED <<roots, staged, identity, button>>
      BY <2>2 DEF DismissWarning
    <3> QED
      BY <3>1 DEF TypeOK, Looks
  <2> QED
    BY <2>1, <2>2
<1>3. txns' \in Nat /\ txn' \in 0..txns' /\ other' \in BOOLEAN
  BY DEF DismissWarning, ReleaseLock, lock, TypeOK
<1>4. undercut' \in BOOLEAN
  BY DEF DismissWarning, TypeOK
<1>5. UNCHANGED <<latest, info, skipped, workers, shown, jobs, events, helpers, quit, downloads,
                  installs>>
  BY DEF DismissWarning
<1> QED
  BY <1>1, <1>2, <1>3, <1>4, <1>5 DEF workers, TypeOK

\* A job goes on.
LEMMA PoolContinues ==
  ASSUME TypeOK, jobs # <<>>, NEW p, Continue(p, Active.upd.txn) \/ Continue(p, Current),
         p \in {"fetching", "fetched", "staging", "verified", "planned"},
         LockType, Current \in Nat,
         UNCHANGED <<latest, books, workers, view, quit, counts>>, UNCHANGED <<roots, helpers>>
  PROVE  TypeOK'
<1>1. Active.upd.txn \in Nat
  BY ActiveType
<1>2. jobs' \in Seq(Jobs) /\ events' \in Seq(Events)
  BY <1>1, ContinueType
<1> QED
  BY <1>2 DEF LockType, books, workers, view, counts, TypeOK

\* A job ends.
LEMMA PoolEnds ==
  ASSUME TypeOK, jobs # <<>>, NEW u \in Updates,
         NEW outcome \in {"ok", "error", "tampered"}, End(u, outcome), LockType,
         roots' \subseteq Updates, helpers' \subseteq Updates,
         UNCHANGED <<latest, books, workers, view, quit, counts>>
  PROVE  TypeOK'
<1>1. jobs' \in Seq(Jobs) /\ events' \in Seq(Events)
  BY EndType
<1> QED
  BY <1>1 DEF LockType, books, workers, view, counts, TypeOK

LEMMA PoolType == ASSUME TypeOK, Pool PROVE TypeOK'
<1>1. jobs # <<>>
  BY DEF Pool, RunCheck, BeginDownload, EndFetch, BeginStage, EndStage, VerifyStaged, PlanInstall,
     LaunchInstaller, Running
<1>2. UNCHANGED <<latest, books, workers, view, quit, counts>>
  BY DEF Pool, RunCheck, BeginDownload, EndFetch, BeginStage, EndStage, VerifyStaged, PlanInstall,
     LaunchInstaller, poolOnly
<1>3. Active.upd \in Updates
  BY <1>1, ActiveType
<1>4. LockType /\ Current \in Nat
  <2>1. AcquireLock \/ ReleaseLock \/ KeepLock \/ Refused \/ LoseLock \/ Holds
    BY DEF Pool, RunCheck, BeginDownload, EndFetch, BeginStage, EndStage, VerifyStaged, PlanInstall,
       LaunchInstaller, KeepLock
  <2> QED
    BY <2>1, LockTypes
<1>5. roots' \subseteq Updates /\ helpers' \subseteq Updates
  BY <1>3 DEF Pool, RunCheck, BeginDownload, EndFetch, BeginStage, EndStage, VerifyStaged,
     PlanInstall, LaunchInstaller, TypeOK
<1> DEFINE Ends == \E u \in Updates, outcome \in {"ok", "error", "tampered"} : End(u, outcome)
           Goes == /\ UNCHANGED <<roots, helpers>>
                   /\ \E p \in {"fetching", "fetched", "staging", "verified", "planned"} :
                        Continue(p, Active.upd.txn) \/ Continue(p, Current)
<1>6. CASE Ends
  BY <1>1, <1>2, <1>4, <1>5, <1>6, PoolEnds
<1>7. CASE Goes
  BY <1>1, <1>2, <1>4, <1>7, PoolContinues
<1>8. Ends \/ Goes
  <2>1. Nothing \in Updates
    BY NothingType
  <2>2. CASE RunCheck
    <3>1. [ver |-> latest, txn |-> 0] \in Updates
      BY DEF Updates, TypeOK
    <3> QED
      BY <2>1, <2>2, <3>1 DEF RunCheck
  <2>3. CASE BeginDownload
    BY <2>1, <2>3 DEF BeginDownload
  <2>4. CASE EndFetch
    BY <2>1, <2>4 DEF EndFetch
  <2>5. CASE BeginStage
    BY <2>1, <2>5 DEF BeginStage
  <2>6. CASE EndStage
    BY <2>1, <2>6, <1>3 DEF EndStage
  <2>7. CASE VerifyStaged
    BY <2>1, <2>7 DEF VerifyStaged
  <2>8. CASE PlanInstall
    BY <2>1, <2>8 DEF PlanInstall
  <2>9. CASE LaunchInstaller
    BY <2>1, <2>9, <1>3 DEF LaunchInstaller
  <2> QED
    BY <2>2, <2>3, <2>4, <2>5, <2>6, <2>7, <2>8, <2>9 DEF Pool
<1> QED
  BY <1>6, <1>7, <1>8

LEMMA HandleType == ASSUME TypeOK, Handle PROVE TypeOK'
<1>1. events # <<>> /\ events' = Tail(events)
  BY DEF Handle, HandleChecked, HandleCheckOver, HandleDownloaded, HandleDownloadOver,
     HandleInstalled, HandleInstallOver, Signal, Handled
<1>2. events' \in Seq(Events) /\ Arrived.upd \in Updates /\ Arrived.upd.ver \in Versions
      /\ Arrived.outcome \in {"ok", "error", "tampered"}
  BY <1>1, EventType
<1>3. CASE HandleChecked
  <2> DEFINE v == Arrived.upd.ver
  <2>1. info' \in Versions /\ staged' \in Updates /\ button' \in BOOLEAN
    BY <1>2, <1>3, NothingType, UpdateAssumption DEF HandleChecked, view, TypeOK, Versions
  <2>2. dialog' \in Looks /\ shown' \in Versions /\ windows' \in Seq(Windows)
    <3>1. CASE ShowDialog(v, staged')
      BY <1>2, <3>1, DialogType
    <3>2. CASE UNCHANGED <<dialog, shown, windows>>
      BY <3>2 DEF TypeOK
    <3> QED
      BY <1>3, <3>1, <3>2 DEF HandleChecked, view
  <2>3. UNCHANGED <<latest, identity, skipped, workers, jobs, lock, roots, helpers, quit, counts>>
    BY <1>3 DEF HandleChecked
  <2> QED
    BY <1>2, <2>1, <2>2, <2>3 DEF workers, lock, counts, TypeOK
<1>4. CASE HandleCheckOver
  BY <1>2, <1>4 DEF HandleCheckOver, books, view, lock, counts, TypeOK
<1>5. CASE HandleDownloaded
  <2>1. Show(windows) \in Seq(Windows)
    BY ShowType DEF TypeOK
  <2>2. /\ staged' \in Updates /\ dialog' \in Looks /\ windows' \in Seq(Windows)
        /\ button' \in BOOLEAN /\ shown' = shown
    BY <1>2, <1>5, <2>1 DEF HandleDownloaded, view, TypeOK, Looks
  <2>3. UNCHANGED <<latest, info, identity, skipped, workers, jobs, lock, roots, helpers, quit, counts>>
    BY <1>5 DEF HandleDownloaded
  <2> QED
    BY <1>2, <2>2, <2>3 DEF workers, lock, counts, TypeOK
<1>6. CASE HandleDownloadOver
  <2>1. operation' \in 0..MaxDownloads
    BY <1>6, UpdateAssumption DEF HandleDownloadOver, TypeOK
  <2> QED
    BY <1>2, <1>6, <2>1 DEF HandleDownloadOver, books, view, lock, counts, TypeOK
<1>7. CASE HandleInstalled
  <2>1. Window("warning", staged, Arrived.outcome) \in Windows
    BY <1>2 DEF Window, Windows, TypeOK
  <2>2. /\ Append(windows, Window("warning", staged, Arrived.outcome)) \in Seq(Windows)
        /\ <<>> \in Seq(Windows)
    BY <2>1, AppendProperties, EmptySeq DEF TypeOK
  <2>3. windows' \in Seq(Windows) /\ quit' \in BOOLEAN /\ cancelled' \in BOOLEAN
    BY <1>7, <2>2 DEF HandleInstalled, TypeOK
  <2>4. UNCHANGED <<latest, books, checking, manual, operation, installing, button, dialog, shown,
                    jobs, lock, roots, helpers, counts>>
    BY <1>7 DEF HandleInstalled
  <2> QED
    BY <1>2, <2>3, <2>4 DEF books, lock, counts, TypeOK
<1>8. CASE HandleInstallOver
  BY <1>2, <1>8 DEF HandleInstallOver, Gone, books, view, lock, counts, TypeOK
<1> QED
  BY <1>3, <1>4, <1>5, <1>6, <1>7, <1>8 DEF Handle

LEMMA NextType == TypeOK /\ [Next]_vars => TypeOK'
<1> SUFFICES ASSUME TypeOK, [Next]_vars PROVE TypeOK' OBVIOUS
<1>1. CASE UNCHANGED vars
  BY <1>1 DEF vars, books, workers, view, lock, counts, TypeOK
<1>2. CASE User
  BY <1>2, AskCheckType, DialogButtonsType, StartDownloadType, AnswerYesType, DismissType DEF User
<1>3. CASE Pool
  BY <1>3, PoolType
<1>4. CASE Handle
  BY <1>4, HandleType
<1> QED
  BY <1>1, <1>2, <1>3, <1>4, OutsideType DEF Next

\* Every variable keeps its type.
THEOREM TypeCorrect == Spec => []TypeOK
BY InitType, NextType, PTL DEF Spec

-----------------------------------------------------------------------------
(* The lock *)

\* Only the job at the head has begun, a check has no second phase, and a
\* download that has begun is what the lock was taken for.
OneBegun     == \A i \in DOMAIN jobs : i # 1 => jobs[i].phase = "queued"
ChecksQueued == \A i \in DOMAIN jobs : jobs[i].kind = "check" => jobs[i].phase = "queued"
Covered      == Working /\ ~undercut => txn = Active.upd.txn /\ txn # 0
LockInv      == OneBegun /\ ChecksQueued /\ Covered

\* A new job waits behind the others.
LEMMA QueueKeepsLock ==
  ASSUME TypeOK, LockInv, NEW j \in Jobs, j.phase = "queued", jobs' = Append(jobs, j),
         UNCHANGED <<txn, undercut>>
  PROVE  LockInv'
<1>1. /\ jobs \in Seq(Jobs) /\ Len(jobs) \in Nat
      /\ Len(jobs') = Len(jobs) + 1 /\ jobs' \in Seq(Jobs)
      /\ \A i \in 1..Len(jobs) : jobs'[i] = jobs[i]
      /\ jobs'[Len(jobs) + 1] = j
  BY AppendProperties, LenProperties DEF TypeOK
<1>2. DOMAIN jobs = 1..Len(jobs) /\ DOMAIN jobs' = 1..(Len(jobs) + 1)
  BY <1>1, LenProperties
<1>3. OneBegun' /\ ChecksQueued'
  BY <1>1, <1>2 DEF LockInv, OneBegun, ChecksQueued
<1>4. Covered'
  <2>1. CASE jobs = <<>>
    <3>1. Len(jobs) = 0
      BY <2>1, EmptySeq
    <3>2. Head(jobs') = j
      BY <1>1, <3>1
    <3> QED
      BY <3>2 DEF Covered, Working, Active
  <2>2. CASE jobs # <<>>
    <3>1. Len(jobs) > 0
      BY <1>1, <2>2, EmptySeq
    <3>2. Head(jobs') = Head(jobs)
      BY <1>1, <3>1
    <3> QED
      BY <2>2, <3>2 DEF LockInv, Covered, Working, Active
  <2> QED
    BY <2>1, <2>2
<1> QED
  BY <1>3, <1>4 DEF LockInv

\* A job that ends leaves one at the head that has not begun.
LEMMA EndKeepsLock ==
  ASSUME TypeOK, LockInv, jobs # <<>>, jobs' = Tail(jobs)
  PROVE  LockInv'
<1>1. /\ jobs \in Seq(Jobs) /\ Len(jobs) \in Nat /\ Len(jobs) > 0
      /\ Len(jobs') = Len(jobs) - 1 /\ jobs' \in Seq(Jobs)
  BY HeadTailProperties, LenProperties, EmptySeq DEF TypeOK
<1>2. \A i \in 1..Len(jobs') : jobs'[i] = jobs[i + 1]
  BY <1>1
<1>3. DOMAIN jobs = 1..Len(jobs) /\ DOMAIN jobs' = 1..(Len(jobs) - 1)
  BY <1>1, LenProperties
<1>4. \A i \in DOMAIN jobs' : jobs'[i].phase = "queued"
  <2> SUFFICES ASSUME NEW i \in DOMAIN jobs' PROVE jobs'[i].phase = "queued"
    OBVIOUS
  <2>1. i + 1 \in DOMAIN jobs /\ i + 1 # 1 /\ jobs'[i] = jobs[i + 1]
    BY <1>1, <1>2, <1>3
  <2> QED
    BY <2>1 DEF LockInv, OneBegun
<1>5. Covered'
  <2>1. CASE jobs' = <<>>
    BY <2>1 DEF Covered, Working
  <2>2. CASE jobs' # <<>>
    <3>1. 1 \in DOMAIN jobs' /\ Head(jobs') = jobs'[1]
      BY <1>1, <1>3, <2>2, EmptySeq
    <3> QED
      BY <1>4, <3>1 DEF Covered, Working
  <2> QED
    BY <2>1, <2>2
<1> QED
  BY <1>4, <1>5 DEF LockInv, OneBegun, ChecksQueued

\* A job that goes on stays at the head.
LEMMA ContinueKeepsLock ==
  ASSUME TypeOK, LockInv, jobs # <<>>, NEW t \in Nat, Active.kind # "check",
         NEW p \in {"queued", "fetching", "fetched", "staging", "verified", "planned"},
         Continue(p, t), p \in {"fetching", "fetched", "staging"} /\ ~undercut' => txn' = t /\ t # 0
  PROVE  LockInv'
<1> DEFINE j == [Active EXCEPT !.phase = p, !.upd.txn = t]
<1>1. /\ jobs \in Seq(Jobs) /\ Len(jobs) \in Nat /\ Len(jobs) > 0
      /\ Active \in Jobs /\ Tail(jobs) \in Seq(Jobs) /\ Len(Tail(jobs)) = Len(jobs) - 1
  BY ActiveType, HeadTailProperties, LenProperties, EmptySeq DEF TypeOK
<1>2. Active.upd \in Updates
  BY ActiveType
<1>3. [Active.upd EXCEPT !.txn = t] \in Updates /\ [Active.upd EXCEPT !.txn = t].txn = t
  BY <1>2 DEF Updates
<1>4. /\ j \in Jobs /\ j.phase = p /\ j.kind = Active.kind
      /\ j.upd = [Active.upd EXCEPT !.txn = t]
  BY <1>1, <1>3 DEF Jobs
<1>5. jobs' = <<j>> \o Tail(jobs)
  BY DEF Continue
<1> HIDE DEF j
<1>6. /\ <<j>> \in Seq(Jobs) /\ Len(<<j>>) = 1 /\ <<j>>[1] = j
  BY <1>4
<1>7. jobs' \in Seq(Jobs) /\ Len(jobs') = Len(jobs) /\ jobs' # <<>>
  BY <1>1, <1>5, <1>6, ConcatProperties, EmptySeq
<1>8. /\ jobs'[1] = j
      /\ \A i \in 2..Len(jobs) : jobs'[i] = Tail(jobs)[i - 1]
  BY <1>1, <1>5, <1>6
<1>9. \A i \in 2..Len(jobs) : jobs'[i] = jobs[i]
  <2> SUFFICES ASSUME NEW i \in 2..Len(jobs) PROVE jobs'[i] = jobs[i]
    OBVIOUS
  <2>1. i - 1 \in 1..Len(Tail(jobs)) /\ (i - 1) + 1 = i
    BY <1>1
  <2>2. Tail(jobs)[i - 1] = jobs[i]
    BY <1>1, <2>1
  <2> QED
    BY <1>8, <2>2
<1>10. DOMAIN jobs = 1..Len(jobs) /\ DOMAIN jobs' = 1..Len(jobs)
  BY <1>1, <1>7, LenProperties
<1>11. OneBegun' /\ ChecksQueued'
  <2>1. \A i \in DOMAIN jobs' : i # 1 => i \in 2..Len(jobs) /\ i \in DOMAIN jobs /\ jobs'[i] = jobs[i]
    BY <1>1, <1>9, <1>10
  <2>2. jobs'[1].kind # "check"
    BY <1>4, <1>8
  <2> QED
    BY <2>1, <2>2 DEF LockInv, OneBegun, ChecksQueued
<1>12. Head(jobs') = j
  BY <1>7, <1>8
<1>13. Covered'
  BY <1>3, <1>4, <1>12 DEF Covered, Working, Active
<1> QED
  BY <1>11, <1>13 DEF LockInv

\* A step that leaves the pool and the lock alone.
LEMMA SameKeepsLock ==
  ASSUME LockInv, UNCHANGED <<jobs, txn>>, undercut => undercut'
  PROVE  LockInv'
BY DEF LockInv, OneBegun, ChecksQueued, Covered, Working, Active

LEMMA InitLock == Init => LockInv
<1> SUFFICES ASSUME Init PROVE LockInv OBVIOUS
<1>1. jobs = <<Check>> /\ DOMAIN jobs = {1} /\ jobs[1] = Check /\ Head(jobs) = Check
  BY DEF Init
<1>2. Check.phase = "queued"
  BY DEF Check, Job
<1> QED
  BY <1>1, <1>2 DEF LockInv, OneBegun, ChecksQueued, Covered, Working

LEMMA CurrentIsNew == TypeOK => Current \in Nat /\ Current # 0
BY DEF TypeOK, Current, HasLock

\* What the user does: jobs only grow at the end, and the lock is released only
\* behind a warning, which the ghost undercut records.
LEMMA UserKeepsLock == ASSUME TypeOK, LockInv, User PROVE LockInv'
<1>1. CASE AskCheck
  <2>1. UNCHANGED <<txn, undercut>>
    BY <1>1 DEF AskCheck, lock, counts
  <2>2. CASE jobs' = Append(jobs, Check)
    <3>1. Check \in Jobs /\ Check.phase = "queued"
      BY NothingType, UpdateAssumption DEF Check, Job, Jobs
    <3> HIDE DEF Check
    <3> QED
      BY <2>1, <2>2, <3>1, QueueKeepsLock
  <2>3. CASE jobs' = jobs
    BY <2>1, <2>3, SameKeepsLock
  <2> QED
    BY <1>1, <2>2, <2>3 DEF AskCheck
<1>2. CASE StartDownload
  <2> DEFINE u == [ver |-> info, txn |-> 0]
             j == Job("download", downloads + 1, u, "queued")
  <2>1. UNCHANGED <<txn, undercut>>
    BY <1>2 DEF StartDownload, lock
  <2>2. CASE info # 0 /\ shown = info /\ operation = 0
    <3>1. downloads + 1 \in 0..MaxDownloads /\ jobs' = Append(jobs, j)
      BY <1>2, <2>2, UpdateAssumption DEF StartDownload, TypeOK
    <3>2. u \in Updates
      BY DEF Updates, TypeOK
    <3>3. j \in Jobs /\ j.phase = "queued"
      BY <3>1, <3>2 DEF Job, Jobs
    <3> HIDE DEF j
    <3> QED
      BY <2>1, <3>1, <3>3, QueueKeepsLock
  <2>3. CASE ~(info # 0 /\ shown = info /\ operation = 0)
    BY <1>2, <2>1, <2>3, SameKeepsLock DEF StartDownload
  <2> QED
    BY <2>2, <2>3
<1>3. CASE AnswerYes
  <2> DEFINE j == Job("install", 0, TopUpdate, "queued")
  <2>1. UNCHANGED <<txn, undercut>>
    BY <1>3 DEF AnswerYes, lock
  <2>2. TopUpdate \in Updates
    BY <1>3, PoppedType DEF AnswerYes, Top
  <2>3. j \in Jobs /\ j.phase = "queued"
    BY <2>2, UpdateAssumption DEF Job, Jobs
  <2>4. jobs' = jobs \/ jobs' = Append(jobs, j)
    BY <1>3 DEF AnswerYes
  <2> HIDE DEF j
  <2> QED
    BY <2>1, <2>3, <2>4, QueueKeepsLock, SameKeepsLock
<1>4. CASE DismissWarning
  <2>1. jobs' = jobs
    BY <1>4 DEF DismissWarning
  <2>2. CASE windows[Len(windows)].outcome = "tampered"
    <3>1. undercut' = (undercut \/ Pending)
      BY <1>4, <2>2 DEF DismissWarning
    <3>2. Working => Pending
      <4> SUFFICES ASSUME Working PROVE Pending OBVIOUS
      <4>1. 1 \in DOMAIN jobs /\ Head(jobs) = jobs[1]
        BY EmptySeq, LenProperties DEF Working, TypeOK
      <4>2. jobs[1].kind # "check"
        BY <4>1 DEF LockInv, ChecksQueued, Working
      <4> QED
        BY <4>1, <4>2 DEF Pending
    <3>3. Working' = Working
      BY <2>1 DEF Working
    <3>4. Covered'
      BY <3>1, <3>2, <3>3 DEF Covered
    <3> QED
      BY <2>1, <3>4 DEF LockInv, OneBegun, ChecksQueued
  <2>3. CASE ~(windows[Len(windows)].outcome = "tampered")
    BY <1>4, <2>1, <2>3, SameKeepsLock DEF DismissWarning, lock
  <2> QED
    BY <2>2, <2>3
<1>5. CASE OpenDialog \/ CloseDialog \/ Skip \/ AskInstall \/ AnswerNo \/ Close
  <2>1. UNCHANGED <<jobs, txn, undercut>>
    BY <1>5 DEF OpenDialog, CloseDialog, Skip, AskInstall, AnswerNo, Close, lock, counts
  <2> QED
    BY <2>1, SameKeepsLock
<1> QED
  BY <1>1, <1>2, <1>3, <1>4, <1>5 DEF User

\* The thread of the pool: a job that goes on holds the lock under its own id.
LEMMA PoolKeepsLock == ASSUME TypeOK, LockInv, Pool PROVE LockInv'
<1>1. jobs # <<>> /\ UNCHANGED undercut
  BY DEF Pool, RunCheck, BeginDownload, EndFetch, BeginStage, EndStage, VerifyStaged, PlanInstall,
     LaunchInstaller, Running, poolOnly, counts
<1>2. ASSUME NEW u, NEW outcome, End(u, outcome) PROVE LockInv'
  BY <1>1, <1>2, EndKeepsLock DEF End
<1>3. Active.upd.txn \in Nat
  BY <1>1, ActiveType
<1>4. CASE RunCheck
  BY <1>2, <1>4 DEF RunCheck
<1>5. CASE BeginDownload
  <2>1. CASE AcquireLock /\ Continue("fetching", Current)
    <3>1. Current \in Nat /\ Current # 0 /\ txn' = Current
      BY <2>1, CurrentIsNew DEF AcquireLock
    <3>2. Active.kind # "check"
      BY <1>5 DEF BeginDownload, Running, Active
    <3> QED
      BY <1>1, <2>1, <3>1, <3>2, ContinueKeepsLock
  <2> QED
    BY <1>2, <1>5, <2>1 DEF BeginDownload
<1>6. CASE EndFetch
  <2>1. CASE Continue("fetched", Active.upd.txn) /\ Holds
    <3>1. Active.kind # "check" /\ Working
      BY <1>6 DEF EndFetch, Running, Active, Working
    <3>2. ~undercut => txn' = Active.upd.txn /\ Active.upd.txn # 0
      BY <2>1, <3>1 DEF LockInv, Covered, Holds, KeepLock, lock
    <3> QED
      BY <1>1, <1>3, <2>1, <3>1, <3>2, ContinueKeepsLock
  <2> QED
    BY <1>2, <1>6, <2>1 DEF EndFetch
<1>7. CASE BeginStage
  <2>1. CASE AcquireLock /\ Matching(Current) /\ Continue("staging", Active.upd.txn)
    <3>1. txn' = Active.upd.txn /\ Active.upd.txn # 0
      BY <2>1, CurrentIsNew DEF AcquireLock, Matching
    <3>2. Active.kind # "check"
      BY <1>7 DEF BeginStage, Running, Active
    <3> QED
      BY <1>1, <1>3, <2>1, <3>1, <3>2, ContinueKeepsLock
  <2> QED
    BY <1>2, <1>7, <2>1 DEF BeginStage
<1>8. CASE EndStage
  BY <1>2, <1>8 DEF EndStage
<1>9. CASE VerifyStaged
  <2>1. Active.kind # "check"
    BY <1>9 DEF VerifyStaged, Running, Active
  <2>2. CASE Continue("verified", Active.upd.txn)
    BY <1>1, <1>3, <2>1, <2>2, ContinueKeepsLock
  <2> QED
    BY <1>2, <1>9, <2>2 DEF VerifyStaged
<1>10. CASE PlanInstall
  <2>1. Active.kind # "check"
    BY <1>10 DEF PlanInstall, Running, Active
  <2>2. CASE Continue("planned", Active.upd.txn)
    BY <1>1, <1>3, <2>1, <2>2, ContinueKeepsLock
  <2> QED
    BY <1>2, <1>10, <2>2 DEF PlanInstall
<1>11. CASE LaunchInstaller
  BY <1>2, <1>11 DEF LaunchInstaller
<1> QED
  BY <1>4, <1>5, <1>6, <1>7, <1>8, <1>9, <1>10, <1>11 DEF Pool

LEMMA NextKeepsLock == TypeOK /\ LockInv /\ [Next]_vars => LockInv'
<1> SUFFICES ASSUME TypeOK, LockInv, [Next]_vars PROVE LockInv' OBVIOUS
<1>1. CASE Release \/ OtherTakes \/ OtherLeaves \/ Handle \/ UNCHANGED vars
  <2>1. UNCHANGED <<jobs, txn, undercut>>
    BY <1>1 DEF Release, OtherTakes, OtherLeaves, Handle, HandleChecked, HandleCheckOver,
       HandleDownloaded, HandleDownloadOver, HandleInstalled, HandleInstallOver, lock, counts, vars
  <2> QED
    BY <2>1, SameKeepsLock
<1>2. CASE Exit
  <2>1. jobs = <<>> /\ UNCHANGED <<jobs, undercut>>
    BY <1>2 DEF Exit, poolOnly, counts
  <2> QED
    BY <2>1 DEF LockInv, OneBegun, ChecksQueued, Covered, Working
<1> QED
  BY <1>1, <1>2, UserKeepsLock, PoolKeepsLock DEF Next

\* While an update is transferred and staged its process holds the lock under
\* the id the work began with, unless the user undercut it.
THEOREM LockHolds == Spec => []LockedWhileWorking
<1>1. LockInv => LockedWhileWorking
  BY DEF LockInv, Covered, LockedWhileWorking, Active
<1> QED
  BY InitType, NextType, InitLock, NextKeepsLock, <1>1, PTL DEF Spec

-----------------------------------------------------------------------------
(***************************************************************************)
(* Jobs and their signals: the pool has at most one job of each kind, and    *)
(* its two signals follow it, the result before the end.                     *)
(***************************************************************************)
Kinds     == {"check", "download", "install"}
Queued    == [k \in Kinds |-> {i \in DOMAIN jobs : jobs[i].kind = k}]
Told      == [k \in Kinds |-> {i \in DOMAIN events : events[i].kind = ResultOf[k]}]
Ending    == [k \in Kinds |-> {i \in DOMAIN events : events[i].kind = OverOf[k]}]
Idle      == {k \in Kinds : Queued[k] = {} /\ Told[k] = {} /\ Ending[k] = {}}

Once(k) ==
  /\ \A i, j \in Queued[k] : i = j
  /\ \A i, j \in Told[k] : i = j
  /\ \A i, j \in Ending[k] : i = j
  /\ Queued[k] # {} => Told[k] = {} /\ Ending[k] = {}
  /\ \A i \in Told[k], j \in Ending[k] : i < j
OnceEach == \A k \in Kinds : Once(k)

JobSet    == {jobs[i] : i \in DOMAIN jobs}
EventSet  == {events[i] : i \in DOMAIN events}
WindowSet == {windows[i] : i \in DOMAIN windows}

\* The names of the signals tell the kinds and the two signals apart.
LEMMA SignalNames ==
  \A k, l \in Kinds : /\ ResultOf[k] # OverOf[l]
                      /\ k # l => ResultOf[k] # ResultOf[l] /\ OverOf[k] # OverOf[l]
BY DEF Kinds, ResultOf, OverOf

LEMMA Appended ==
  ASSUME NEW S, NEW s \in Seq(S), NEW e \in S, NEW t, t = Append(s, e)
  PROVE  /\ t \in Seq(S) /\ Len(s) \in Nat
         /\ DOMAIN s = 1..Len(s) /\ DOMAIN t = 1..(Len(s) + 1)
         /\ \A i \in DOMAIN s : t[i] = s[i]
         /\ t[Len(s) + 1] = e
BY AppendProperties, LenProperties

LEMMA FirstGone ==
  ASSUME NEW S, NEW s \in Seq(S), s # <<>>, NEW t, t = Tail(s)
  PROVE  /\ t \in Seq(S) /\ Len(s) \in Nat \ {0} /\ 1 \in DOMAIN s /\ Head(s) = s[1]
         /\ DOMAIN s = 1..Len(s) /\ DOMAIN t = 1..(Len(s) - 1)
         /\ \A i \in DOMAIN t : i + 1 \in DOMAIN s /\ t[i] = s[i + 1]
<1>1. t \in Seq(S) /\ Len(s) \in Nat /\ Len(s) > 0 /\ Len(t) = Len(s) - 1
  BY HeadTailProperties, LenProperties, EmptySeq
<1>2. DOMAIN s = 1..Len(s) /\ DOMAIN t = 1..(Len(s) - 1)
  BY <1>1, LenProperties
<1> QED
  BY <1>1, <1>2

LEMMA TwoAppended ==
  ASSUME NEW S, NEW s \in Seq(S), NEW a \in S, NEW b \in S, NEW t, t = s \o <<a, b>>
  PROVE  /\ t \in Seq(S) /\ Len(s) \in Nat
         /\ DOMAIN s = 1..Len(s) /\ DOMAIN t = 1..(Len(s) + 2)
         /\ \A i \in DOMAIN s : t[i] = s[i]
         /\ t[Len(s) + 1] = a /\ t[Len(s) + 2] = b
<1>1. <<a, b>> \in Seq(S) /\ Len(<<a, b>>) = 2
  OBVIOUS
<1>2. t \in Seq(S) /\ Len(t) = Len(s) + 2 /\ Len(s) \in Nat
  BY <1>1, ConcatProperties, LenProperties
<1>3. DOMAIN s = 1..Len(s) /\ DOMAIN t = 1..(Len(s) + 2)
  BY <1>2, LenProperties
<1> QED
  BY <1>1, <1>2, <1>3

\* The job at the head goes on: it stays there and the others do, too.
LEMMA HeadReplaced ==
  ASSUME TypeOK, jobs # <<>>, NEW p, NEW t, Continue(p, t), jobs' \in Seq(Jobs)
  PROVE  /\ DOMAIN jobs' = DOMAIN jobs /\ 1 \in DOMAIN jobs /\ jobs[1] = Active
         /\ jobs'[1] = [Active EXCEPT !.phase = p, !.upd.txn = t]
         /\ \A i \in DOMAIN jobs : i # 1 => jobs'[i] = jobs[i]
         /\ UNCHANGED events
<1> DEFINE j == [Active EXCEPT !.phase = p, !.upd.txn = t]
<1>1. jobs \in Seq(Jobs)
  BY DEF TypeOK
<1>2. /\ Len(jobs) \in Nat \ {0} /\ Tail(jobs) \in Seq(Jobs) /\ Active = jobs[1]
      /\ DOMAIN jobs = 1..Len(jobs) /\ DOMAIN Tail(jobs) = 1..(Len(jobs) - 1)
      /\ \A i \in DOMAIN Tail(jobs) : Tail(jobs)[i] = jobs[i + 1]
  BY <1>1, FirstGone DEF Active
<1>3. jobs' = <<j>> \o Tail(jobs) /\ UNCHANGED events
  BY DEF Continue
<1> HIDE DEF j
<1>4. Len(<<j>>) = 1 /\ <<j>>[1] = j /\ Len(Tail(jobs)) = Len(jobs) - 1
  BY <1>1, HeadTailProperties
<1>5. /\ DOMAIN jobs' = 1..Len(jobs) /\ jobs'[1] = j
      /\ \A i \in 2..Len(jobs) : jobs'[i] = Tail(jobs)[i - 1]
  BY <1>2, <1>3, <1>4
<1>6. \A i \in 2..Len(jobs) : i - 1 \in DOMAIN Tail(jobs) /\ (i - 1) + 1 = i
  BY <1>2
<1>7. \A i \in 2..Len(jobs) : jobs'[i] = jobs[i]
  BY <1>2, <1>5, <1>6
<1> QED
  BY <1>2, <1>3, <1>5, <1>7 DEF j

\* A job is queued, and no other of its kind is about.
LEMMA QueueOnce ==
  ASSUME TypeOK, OnceEach, NEW j \in Jobs, j.kind \in Idle, jobs' = Append(jobs, j), UNCHANGED events
  PROVE  /\ OnceEach' /\ JobSet' = JobSet \cup {j}
         /\ \A k \in Kinds : k # j.kind => Queued'[k] = Queued[k]
         /\ \A k \in Kinds : Told'[k] = Told[k] /\ Ending'[k] = Ending[k]
<1>1. /\ Len(jobs) \in Nat /\ DOMAIN jobs = 1..Len(jobs) /\ DOMAIN jobs' = 1..(Len(jobs) + 1)
      /\ \A i \in DOMAIN jobs : jobs'[i] = jobs[i]
      /\ jobs'[Len(jobs) + 1] = j
  BY Appended DEF TypeOK
<1>2. \A k \in Kinds : Told'[k] = Told[k] /\ Ending'[k] = Ending[k]
  BY DEF Told, Ending
<1>3. \A k \in Kinds : Queued'[k] = IF k = j.kind THEN Queued[k] \cup {Len(jobs) + 1} ELSE Queued[k]
  BY <1>1 DEF Queued
<1>4. OnceEach'
  <2> SUFFICES ASSUME NEW k \in Kinds PROVE Once(k)'
    BY DEF OnceEach
  <2>1. CASE k = j.kind
    <3>1. Queued[k] = {} /\ Told'[k] = {} /\ Ending'[k] = {}
      BY <1>2, <2>1 DEF Idle
    <3>2. Queued'[k] = {Len(jobs) + 1}
      BY <1>3, <2>1, <3>1
    <3> QED
      BY <3>1, <3>2 DEF Once
  <2>2. CASE k # j.kind
    <3>1. Once(k)
      BY DEF OnceEach
    <3>2. Queued'[k] = Queued[k] /\ Told'[k] = Told[k] /\ Ending'[k] = Ending[k]
      BY <1>2, <1>3, <2>2
    <3> QED
      BY <3>1, <3>2 DEF Once
  <2> QED
    BY <2>1, <2>2
<1>5. JobSet' = JobSet \cup {j}
  BY <1>1 DEF JobSet
<1> QED
  BY <1>2, <1>3, <1>4, <1>5 DEF Idle

\* The job at the head goes on.
LEMMA ContinueOnce ==
  ASSUME TypeOK, OnceEach, jobs # <<>>, NEW p, NEW t, Continue(p, t), jobs' \in Seq(Jobs)
  PROVE  /\ OnceEach' /\ \A k \in Kinds : Queued'[k] = Queued[k] /\ Told'[k] = Told[k] /\ Ending'[k] = Ending[k]
         /\ Active \in JobSet
         /\ JobSet' \subseteq JobSet \cup {[Active EXCEPT !.phase = p, !.upd.txn = t]}
         /\ EventSet' = EventSet
<1> DEFINE j == [Active EXCEPT !.phase = p, !.upd.txn = t]
<1>1. /\ DOMAIN jobs' = DOMAIN jobs /\ 1 \in DOMAIN jobs /\ jobs[1] = Active
      /\ jobs'[1] = j /\ \A i \in DOMAIN jobs : i # 1 => jobs'[i] = jobs[i]
      /\ UNCHANGED events
  BY HeadReplaced
<1>2. j.kind = Active.kind
  BY ActiveType DEF Jobs
<1> HIDE DEF j
<1>3. \A k \in Kinds : Queued'[k] = Queued[k] /\ Told'[k] = Told[k] /\ Ending'[k] = Ending[k]
  BY <1>1, <1>2 DEF Queued, Told, Ending
<1>4. OnceEach'
  BY <1>3 DEF OnceEach, Once
<1>5. Active \in JobSet /\ JobSet' \subseteq JobSet \cup {j} /\ EventSet' = EventSet
  BY <1>1 DEF JobSet, EventSet
<1> QED
  BY <1>3, <1>4, <1>5 DEF j

\* The job at the head ends and its two signals are sent.
Signals(u, outcome) == {Event(ResultOf[Active.kind], Active.id, u, outcome),
                        Event(OverOf[Active.kind], Active.id, Nothing, "ok")}

LEMMA EndOnce ==
  ASSUME TypeOK, OnceEach, jobs # <<>>, NEW u \in Updates, NEW outcome \in {"ok", "error", "tampered"},
         End(u, outcome)
  PROVE  /\ OnceEach' /\ Active \in JobSet /\ Active.kind \in Kinds
         /\ \A k \in Kinds : k # Active.kind => Told'[k] = Told[k] /\ Ending'[k] = Ending[k]
         /\ \A k \in Kinds : /\ k # Active.kind /\ Queued'[k] = {} => Queued[k] = {}
                             /\ Queued[k] = {} => Queued'[k] = {}
         /\ Queued[Active.kind] # {}
         /\ Queued'[Active.kind] = {}
         /\ JobSet' \subseteq JobSet
         /\ EventSet' = EventSet \cup Signals(u, outcome)
<1> DEFINE a == Event(ResultOf[Active.kind], Active.id, u, outcome)
           b == Event(OverOf[Active.kind], Active.id, Nothing, "ok")
<1>1. /\ Len(jobs) \in Nat \ {0} /\ 1 \in DOMAIN jobs /\ Active = jobs[1]
      /\ DOMAIN jobs = 1..Len(jobs) /\ DOMAIN jobs' = 1..(Len(jobs) - 1)
      /\ \A i \in DOMAIN jobs' : i + 1 \in DOMAIN jobs /\ jobs'[i] = jobs[i + 1]
  BY FirstGone DEF TypeOK, End, Active
<1>2. Active \in Jobs /\ Active.kind \in Kinds /\ Active.id \in 0..MaxDownloads
  BY ActiveType DEF Jobs, Kinds
<1>3. a \in Events /\ b \in Events
  <2>1. /\ ResultOf[Active.kind] \in {"checked", "downloaded", "installed"}
        /\ OverOf[Active.kind] \in {"checkOver", "downloadOver", "installOver"}
    BY <1>2 DEF ResultOf, OverOf, Kinds
  <2> QED
    BY <1>2, <2>1, NothingType DEF Event, Events
<1>4. a.kind = ResultOf[Active.kind] /\ b.kind = OverOf[Active.kind]
  BY DEF Event
<1>5. events' = events \o <<a, b>>
  BY DEF End
<1> HIDE DEF a, b
<1>6. /\ Len(events) \in Nat /\ DOMAIN events = 1..Len(events) /\ DOMAIN events' = 1..(Len(events) + 2)
      /\ \A i \in DOMAIN events : events'[i] = events[i]
      /\ events'[Len(events) + 1] = a /\ events'[Len(events) + 2] = b
  BY <1>3, <1>5, TwoAppended DEF TypeOK
<1>7. 1 \in Queued[Active.kind] /\ Once(Active.kind)
  BY <1>1, <1>2 DEF Queued, OnceEach
<1>8. Told[Active.kind] = {} /\ Ending[Active.kind] = {} /\ \A i \in Queued[Active.kind] : i = 1
  BY <1>7 DEF Once
<1>9. \A k \in Kinds : Queued'[k] = {i \in DOMAIN jobs' : i + 1 \in Queued[k]}
  BY <1>1 DEF Queued
<1>10. \A k \in Kinds : k # Active.kind => Told'[k] = Told[k] /\ Ending'[k] = Ending[k]
  <2> SUFFICES ASSUME NEW k \in Kinds, k # Active.kind PROVE Told'[k] = Told[k] /\ Ending'[k] = Ending[k]
    OBVIOUS
  <2>1. /\ a.kind # ResultOf[k] /\ a.kind # OverOf[k] /\ b.kind # ResultOf[k] /\ b.kind # OverOf[k]
    BY <1>2, <1>4, SignalNames
  <2>2. \A i \in DOMAIN events' : i \in DOMAIN events \/ i = Len(events) + 1 \/ i = Len(events) + 2
    BY <1>6
  <2>3. DOMAIN events \subseteq DOMAIN events'
    BY <1>6
  <2> QED
    BY <1>6, <2>1, <2>2, <2>3 DEF Told, Ending
<1>11. Told'[Active.kind] = {Len(events) + 1} /\ Ending'[Active.kind] = {Len(events) + 2}
  <2>1. a.kind # OverOf[Active.kind] /\ b.kind # ResultOf[Active.kind]
    BY <1>2, <1>4, SignalNames
  <2>2. \A i \in DOMAIN events' : i \in DOMAIN events \/ i = Len(events) + 1 \/ i = Len(events) + 2
    BY <1>6
  <2>3. \A i \in DOMAIN events : events[i].kind # ResultOf[Active.kind] /\ events[i].kind # OverOf[Active.kind]
    BY <1>2, <1>8 DEF Told, Ending
  <2>4. Len(events) + 1 \in DOMAIN events' /\ Len(events) + 2 \in DOMAIN events'
    BY <1>6
  <2> QED
    BY <1>2, <1>4, <1>6, <2>1, <2>2, <2>3, <2>4 DEF Told, Ending
<1>12. Queued'[Active.kind] = {}
  BY <1>1, <1>2, <1>8, <1>9
<1>13. \A k \in Kinds : \A i \in Queued[k] : k # Active.kind => i - 1 \in Queued'[k] /\ (i - 1) + 1 = i
  <2> SUFFICES ASSUME NEW k \in Kinds, NEW i \in Queued[k], k # Active.kind
               PROVE  i - 1 \in Queued'[k] /\ (i - 1) + 1 = i
    OBVIOUS
  <2>1. i \in DOMAIN jobs /\ i # 1
    BY <1>1 DEF Queued
  <2>2. i - 1 \in DOMAIN jobs' /\ (i - 1) + 1 = i
    BY <1>1, <2>1
  <2> QED
    BY <1>9, <2>2
<1>14. OnceEach'
  <2> SUFFICES ASSUME NEW k \in Kinds PROVE Once(k)'
    BY DEF OnceEach
  <2>1. CASE k = Active.kind
    BY <1>6, <1>11, <1>12, <2>1 DEF Once
  <2>2. CASE k # Active.kind
    <3>1. Once(k) /\ Told'[k] = Told[k] /\ Ending'[k] = Ending[k]
      BY <1>10, <2>2 DEF OnceEach
    <3>2. \A i, j \in Queued'[k] : i = j
      <4> SUFFICES ASSUME NEW i \in Queued'[k], NEW j \in Queued'[k] PROVE i = j
        OBVIOUS
      <4>1. i + 1 \in Queued[k] /\ j + 1 \in Queued[k] /\ i \in Int /\ j \in Int
        BY <1>1, <1>9
      <4>2. i + 1 = j + 1
        BY <3>1, <4>1 DEF Once
      <4> QED
        BY <4>1, <4>2
    <3>3. Queued'[k] # {} => Queued[k] # {}
      BY <1>9
    <3> QED
      BY <3>1, <3>2, <3>3 DEF Once
  <2> QED
    BY <2>1, <2>2
<1>15. JobSet' \subseteq JobSet /\ Active \in JobSet
  BY <1>1 DEF JobSet
<1>16. EventSet' = EventSet \cup {a, b}
  <2>1. \A i \in DOMAIN events' : i \in DOMAIN events \/ i = Len(events) + 1 \/ i = Len(events) + 2
    BY <1>6
  <2>2. Len(events) + 1 \in DOMAIN events' /\ Len(events) + 2 \in DOMAIN events' /\ DOMAIN events \subseteq DOMAIN events'
    BY <1>6
  <2> QED
    BY <1>6, <2>1, <2>2 DEF EventSet
<1>17. \A k \in Kinds : (k # Active.kind /\ Queued'[k] = {} => Queued[k] = {})
                        /\ (Queued[k] = {} => Queued'[k] = {})
  BY <1>9, <1>13
<1>18. Queued[Active.kind] # {}
  BY <1>7
<1>19. EventSet' = EventSet \cup Signals(u, outcome)
  BY <1>16 DEF a, b, Signals
<1> QED
  BY <1>2, <1>10, <1>12, <1>14, <1>15, <1>17, <1>18, <1>19

\* The main thread handles a signal.
LEMMA HandleOnce ==
  ASSUME TypeOK, OnceEach, events # <<>>, events' = Tail(events), UNCHANGED jobs
  PROVE  /\ OnceEach' /\ JobSet' = JobSet /\ EventSet' \subseteq EventSet /\ Arrived \in EventSet
         /\ \A k \in Kinds : /\ Queued'[k] = Queued[k]
                             /\ k \in Idle => k \in Idle'
                             /\ Told[k] = {} => Told'[k] = {}
                             /\ Arrived.kind = ResultOf[k] => Queued[k] = {} /\ Told[k] # {} /\ Told'[k] = {}
                             /\ Arrived.kind = OverOf[k] => Ending[k] # {} /\ k \in Idle'
<1>1. /\ Len(events) \in Nat \ {0} /\ 1 \in DOMAIN events /\ Arrived = events[1]
      /\ DOMAIN events = 1..Len(events) /\ DOMAIN events' = 1..(Len(events) - 1)
      /\ \A i \in DOMAIN events' : i + 1 \in DOMAIN events /\ events'[i] = events[i + 1]
  BY FirstGone DEF TypeOK, Arrived
<1>2. \A k \in Kinds : /\ \A i \in Told'[k] : i \in Int /\ i >= 1 /\ i + 1 \in Told[k]
                     /\ \A i \in Ending'[k] : i \in Int /\ i >= 1 /\ i + 1 \in Ending[k]
  BY <1>1 DEF Told, Ending
<1>3. \A k \in Kinds : Queued'[k] = Queued[k]
  BY DEF Queued
<1>4. ASSUME NEW k \in Kinds PROVE Once(k)'
  <2>1. Once(k)
    BY DEF OnceEach
  <2>2. \A i, j \in Told'[k] : i = j
    <3> SUFFICES ASSUME NEW i \in Told'[k], NEW j \in Told'[k] PROVE i = j
      OBVIOUS
    <3>1. i \in Int /\ j \in Int /\ i + 1 = j + 1
      BY <1>2, <2>1 DEF Once
    <3> QED
      BY <3>1
  <2>3. \A i, j \in Ending'[k] : i = j
    <3> SUFFICES ASSUME NEW i \in Ending'[k], NEW j \in Ending'[k] PROVE i = j
      OBVIOUS
    <3>1. i \in Int /\ j \in Int /\ i + 1 = j + 1
      BY <1>2, <2>1 DEF Once
    <3> QED
      BY <3>1
  <2>4. \A i \in Told'[k], j \in Ending'[k] : i < j
    <3> SUFFICES ASSUME NEW i \in Told'[k], NEW j \in Ending'[k] PROVE i < j
      OBVIOUS
    <3>1. i \in Int /\ j \in Int /\ i + 1 < j + 1
      BY <1>2, <2>1 DEF Once
    <3> QED
      BY <3>1
  <2>5. Queued'[k] # {} => Told'[k] = {} /\ Ending'[k] = {}
    BY <1>2, <1>3, <2>1 DEF Once
  <2> QED
    BY <1>3, <2>1, <2>2, <2>3, <2>4, <2>5 DEF Once
<1>5. ASSUME NEW k \in Kinds, Arrived.kind = ResultOf[k]
      PROVE  Queued[k] = {} /\ Told[k] # {} /\ Told'[k] = {}
  <2>1. 1 \in Told[k] /\ Once(k)
    BY <1>1, <1>5 DEF Told, OnceEach
  <2> QED
    BY <1>2, <2>1 DEF Once
<1>6. ASSUME NEW k \in Kinds, Arrived.kind = OverOf[k]
      PROVE  Ending[k] # {} /\ k \in Idle'
  <2>1. 1 \in Ending[k] /\ Once(k)
    BY <1>1, <1>6 DEF Ending, OnceEach
  <2>2. Queued[k] = {} /\ \A i \in Ending[k] : i = 1
    BY <2>1 DEF Once
  <2>3. Ending'[k] = {}
    BY <1>2, <2>2
  <2>4. Told'[k] = {}
    <3> SUFFICES ASSUME NEW i \in Told'[k] PROVE FALSE
      OBVIOUS
    <3>1. i \in Int /\ i >= 1 /\ i + 1 \in Told[k]
      BY <1>2
    <3>2. i + 1 < 1
      BY <2>1, <3>1 DEF Once
    <3> QED
      BY <3>1, <3>2
  <2> QED
    BY <1>3, <2>1, <2>2, <2>3, <2>4 DEF Idle
<1>7. JobSet' = JobSet /\ EventSet' \subseteq EventSet /\ Arrived \in EventSet
  BY <1>1 DEF JobSet, EventSet
<1>8. \A k \in Kinds : (k \in Idle => k \in Idle') /\ (Told[k] = {} => Told'[k] = {})
  BY <1>2, <1>3 DEF Idle
<1> QED
  BY <1>3, <1>4, <1>5, <1>6, <1>7, <1>8 DEF OnceEach

-----------------------------------------------------------------------------
(* The window knows of what is under way *)

Flags == /\ ~checking => "check" \in Idle
         /\ operation = 0 => "download" \in Idle
         /\ ~installing => "install" \in Idle
FlowInv == OnceEach /\ Flags

LEMMA KindNames ==
  /\ Kinds = {"check", "download", "install"}
  /\ ResultOf["check"] = "checked" /\ ResultOf["download"] = "downloaded" /\ ResultOf["install"] = "installed"
  /\ OverOf["check"] = "checkOver" /\ OverOf["download"] = "downloadOver" /\ OverOf["install"] = "installOver"
BY DEF Kinds, ResultOf, OverOf

LEMMA CheckJob == Check \in Jobs /\ Check.kind = "check" /\ Check.phase = "queued" /\ Check.upd = Nothing
BY NothingType, UpdateAssumption DEF Check, Job, Jobs

LEMMA InitFlow == Init => FlowInv /\ JobSet = {Check} /\ EventSet = {} /\ WindowSet = {}
<1> SUFFICES ASSUME Init PROVE FlowInv /\ JobSet = {Check} /\ EventSet = {} /\ WindowSet = {}
  OBVIOUS
<1>1. jobs = <<Check>> /\ DOMAIN jobs = {1} /\ jobs[1] = Check /\ events = <<>> /\ windows = <<>>
  BY DEF Init
<1>2. DOMAIN events = {} /\ DOMAIN windows = {}
  BY <1>1
<1>3. JobSet = {Check} /\ EventSet = {} /\ WindowSet = {}
  BY <1>1, <1>2 DEF JobSet, EventSet, WindowSet
<1>4. \A k \in Kinds : Told[k] = {} /\ Ending[k] = {}
  BY <1>2 DEF Told, Ending
<1>5. \A k \in Kinds : Queued[k] = {i \in {1} : Check.kind = k}
  BY <1>1 DEF Queued
<1>6. OnceEach
  BY <1>4, <1>5 DEF OnceEach, Once
<1>7. Flags
  <2>1. "download" \in Idle /\ "install" \in Idle
    BY <1>4, <1>5, CheckJob, KindNames DEF Idle
  <2> QED
    BY <2>1 DEF Flags, Init
<1> QED
  BY <1>3, <1>6, <1>7 DEF FlowInv

\* A step that leaves jobs and signals alone, and with them whether a kind is idle.
LEMMA SameFlow ==
  ASSUME OnceEach, UNCHANGED <<jobs, events>>
  PROVE  /\ OnceEach' /\ JobSet' = JobSet /\ EventSet' = EventSet /\ Idle' = Idle
         /\ Queued' = Queued /\ Told' = Told /\ Ending' = Ending
<1>1. Queued' = Queued /\ Told' = Told /\ Ending' = Ending
  BY DEF Queued, Told, Ending
<1> QED
  BY <1>1 DEF OnceEach, Once, JobSet, EventSet, Idle

\* What the user queues, and when: nothing else of the kind is about.
LEMMA UserQueues ==
  ASSUME TypeOK, FlowInv, User
  PROVE  /\ UNCHANGED events
         /\ \/ UNCHANGED jobs
            \/ AskCheck /\ "check" \in Idle /\ checking' /\ jobs' = Append(jobs, Check)
            \/ /\ StartDownload /\ "download" \in Idle /\ info # 0 /\ shown = info /\ operation = 0
               /\ operation' = downloads + 1 /\ downloads + 1 \in 0..MaxDownloads
               /\ jobs' = Append(jobs, Job("download", downloads + 1, [ver |-> info, txn |-> 0], "queued"))
            \/ /\ AnswerYes /\ "install" \in Idle /\ installing'
               /\ jobs' = Append(jobs, Job("install", 0, TopUpdate, "queued"))
<1>1. CASE AskCheck
  <2>1. CASE operation = 0 /\ ~checking
    BY <1>1, <2>1 DEF AskCheck, FlowInv, Flags
  <2>2. CASE ~(operation = 0 /\ ~checking)
    BY <1>1, <2>2 DEF AskCheck
  <2> QED
    BY <2>1, <2>2
<1>2. CASE StartDownload
  <2>1. UNCHANGED events
    BY <1>2 DEF StartDownload
  <2>2. CASE info # 0 /\ shown = info /\ operation = 0
    <3>1. /\ downloads < MaxDownloads /\ operation' = downloads + 1
          /\ jobs' = Append(jobs, Job("download", downloads + 1, [ver |-> info, txn |-> 0], "queued"))
      BY <1>2, <2>2 DEF StartDownload
    <3>2. downloads + 1 \in 0..MaxDownloads
      BY <3>1, UpdateAssumption DEF TypeOK
    <3> QED
      BY <1>2, <2>1, <2>2, <3>1, <3>2 DEF FlowInv, Flags
  <2>3. CASE ~(info # 0 /\ shown = info /\ operation = 0)
    BY <1>2, <2>1, <2>3 DEF StartDownload
  <2> QED
    BY <2>2, <2>3
<1>3. CASE AnswerYes
  <2>1. UNCHANGED events /\ installing'
    BY <1>3 DEF AnswerYes
  <2> QED
    BY <1>3, <2>1 DEF AnswerYes, FlowInv, Flags
<1>4. CASE OpenDialog \/ CloseDialog \/ Skip \/ AskInstall \/ AnswerNo \/ DismissWarning \/ Close
  BY <1>4 DEF OpenDialog, CloseDialog, Skip, AskInstall, AnswerNo, DismissWarning, Close
<1> QED
  BY <1>1, <1>2, <1>3, <1>4 DEF User

LEMMA UserFlags ==
  ASSUME TypeOK, User
  PROVE  (checking => checking') /\ (operation # 0 => operation' # 0) /\ (installing => installing')
<1>1. CASE StartDownload
  <2>1. operation' = downloads + 1 \/ operation' = operation
    BY <1>1 DEF StartDownload
  <2>2. downloads + 1 # 0
    BY UpdateAssumption DEF TypeOK
  <2> QED
    BY <1>1, <2>1, <2>2 DEF StartDownload
<1>2. CASE AskCheck \/ AnswerYes
  BY <1>2 DEF AskCheck, AnswerYes
<1>3. CASE OpenDialog \/ CloseDialog \/ Skip \/ AskInstall \/ AnswerNo \/ DismissWarning \/ Close
  BY <1>3 DEF OpenDialog, CloseDialog, Skip, AskInstall, AnswerNo, DismissWarning, Close, workers
<1> QED
  BY <1>1, <1>2, <1>3 DEF User

LEMMA FlagsStay ==
  ASSUME Flags, (checking => checking') /\ (operation # 0 => operation' # 0) /\ (installing => installing'),
         NEW j \in Kinds, Idle \ {j} \subseteq Idle',
         j = "check" => checking', j = "download" => operation' # 0, j = "install" => installing'
  PROVE  Flags'
BY DEF Flags

LEMMA UserFlow == ASSUME TypeOK, FlowInv, User PROVE FlowInv'
<1>1. UNCHANGED events /\ OnceEach /\ Flags
  BY UserQueues DEF FlowInv
<1>2. CASE UNCHANGED jobs
  <2>1. OnceEach' /\ Idle' = Idle
    BY <1>1, <1>2, SameFlow
  <2> QED
    BY <1>1, <2>1, UserFlags DEF FlowInv, Flags
<1>3. ASSUME NEW j \in Jobs, j.kind \in Idle, jobs' = Append(jobs, j),
             j.kind = "check" => checking', j.kind = "download" => operation' # 0,
             j.kind = "install" => installing'
      PROVE  FlowInv'
  <2>1. /\ OnceEach' /\ \A k \in Kinds : k # j.kind => Queued'[k] = Queued[k]
        /\ \A k \in Kinds : Told'[k] = Told[k] /\ Ending'[k] = Ending[k]
    BY <1>1, <1>3, QueueOnce
  <2>2. Idle \ {j.kind} \subseteq Idle' /\ j.kind \in Kinds
    BY <1>3, <2>1 DEF Idle
  <2>3. Flags'
    BY <1>1, <1>3, <2>2, FlagsStay, UserFlags
  <2> QED
    BY <2>1, <2>3 DEF FlowInv
<1>4. CASE AskCheck /\ "check" \in Idle /\ checking' /\ jobs' = Append(jobs, Check)
  BY <1>3, <1>4, CheckJob
<1>5. CASE /\ "download" \in Idle /\ operation' = downloads + 1 /\ downloads + 1 \in 0..MaxDownloads
           /\ jobs' = Append(jobs, Job("download", downloads + 1, [ver |-> info, txn |-> 0], "queued"))
  <2> DEFINE j == Job("download", downloads + 1, [ver |-> info, txn |-> 0], "queued")
  <2>1. [ver |-> info, txn |-> 0] \in Updates
    BY DEF Updates, TypeOK
  <2>2. j \in Jobs /\ j.kind = "download" /\ operation' # 0
    BY <1>5, <2>1, UpdateAssumption DEF Job, Jobs, TypeOK
  <2>3. jobs' = Append(jobs, j) /\ j.kind \in Idle
    BY <1>5, <2>2
  <2> HIDE DEF j
  <2> QED
    BY <1>3, <2>2, <2>3
<1>6. CASE /\ AnswerYes /\ "install" \in Idle /\ installing'
           /\ jobs' = Append(jobs, Job("install", 0, TopUpdate, "queued"))
  <2> DEFINE j == Job("install", 0, TopUpdate, "queued")
  <2>1. TopUpdate \in Updates
    BY <1>6, PoppedType DEF AnswerYes, Top
  <2>2. j \in Jobs /\ j.kind = "install"
    BY <2>1, UpdateAssumption DEF Job, Jobs
  <2>3. jobs' = Append(jobs, j) /\ j.kind \in Idle
    BY <1>6, <2>2
  <2> HIDE DEF j
  <2> QED
    BY <1>3, <1>6, <2>2, <2>3
<1> QED
  BY <1>2, <1>4, <1>5, <1>6, UserQueues

\* The two ways a step of the pool goes, with what the job and its signals carry.
Ends(u, outcome) ==
  /\ End(u, outcome) /\ u \in Updates /\ outcome \in {"ok", "error", "tampered"}
  /\ Active.kind = "check" => outcome # "tampered" /\ (outcome = "ok" => u.ver = latest)
  /\ Active.kind = "download" => outcome # "tampered" /\ (outcome = "ok" => u = Active.upd)
  /\ Active.kind = "install" /\ outcome = "ok" =>
       u = Active.upd /\ Active.phase = "planned" /\ helpers' = helpers \cup {u}
  /\ ~(Active.kind = "install" /\ outcome = "ok") => helpers' = helpers
Goes(p, t) ==
  /\ Continue(p, t) /\ t \in Nat
  /\ p \in {"fetching", "fetched", "staging", "verified", "planned"}
  /\ Active.kind = "install" =>
       t = Active.upd.txn /\ (p = "verified" => Active.upd \in roots) /\ (p = "planned" => Active.phase = "verified")
  /\ UNCHANGED <<roots, helpers>>

LEMMA PoolMoves ==
  ASSUME TypeOK, Pool
  PROVE  /\ jobs # <<>> /\ UNCHANGED <<latest, books, workers, view, quit, counts>>
         /\ roots \subseteq roots' /\ Active.kind \in Kinds
         /\ (\E u, outcome : Ends(u, outcome)) \/ (\E p, t : Goes(p, t))
<1>1. jobs # <<>>
  BY DEF Pool, RunCheck, BeginDownload, EndFetch, BeginStage, EndStage, VerifyStaged, PlanInstall,
     LaunchInstaller, Running
<1>2. UNCHANGED <<latest, books, workers, view, quit, counts>>
  BY DEF Pool, RunCheck, BeginDownload, EndFetch, BeginStage, EndStage, VerifyStaged, PlanInstall,
     LaunchInstaller, poolOnly
<1>3. Active \in Jobs /\ Active.upd \in Updates /\ Active.upd.txn \in Nat
  BY <1>1, ActiveType
<1>4. Nothing \in Updates /\ Current \in Nat
  BY NothingType, CurrentIsNew
<1> USE DEF Ends, Goes
<1>5. CASE RunCheck
  <2>1. Active.kind = "check" /\ UNCHANGED <<roots, helpers>>
    BY <1>5 DEF RunCheck, Running, Active
  <2>2. [ver |-> latest, txn |-> 0] \in Updates
    BY DEF Updates, TypeOK
  <2> QED
    BY <1>1, <1>2, <1>4, <1>5, <2>1, <2>2, KindNames DEF RunCheck
<1>6. CASE BeginDownload \/ EndFetch \/ BeginStage
  <2>1. Active.kind = "download" /\ UNCHANGED <<roots, helpers>>
    BY <1>6 DEF BeginDownload, EndFetch, BeginStage, Running, Active
  <2>2. \/ End(Nothing, "error")
        \/ \E p \in {"fetching", "fetched", "staging"} : Continue(p, Active.upd.txn) \/ Continue(p, Current)
    BY <1>6 DEF BeginDownload, EndFetch, BeginStage
  <2> QED
    BY <1>1, <1>2, <1>3, <1>4, <2>1, <2>2, KindNames
<1>7. CASE EndStage
  <2>1. Active.kind = "download" /\ UNCHANGED helpers /\ roots \subseteq roots'
    BY <1>7 DEF EndStage, Running, Active
  <2>2. End(Active.upd, "ok") \/ End(Nothing, "error")
    BY <1>7 DEF EndStage
  <2> QED
    BY <1>1, <1>2, <1>3, <1>4, <2>1, <2>2, KindNames
<1>8. CASE VerifyStaged
  <2>1. Active.kind = "install" /\ UNCHANGED <<roots, helpers>>
    BY <1>8 DEF VerifyStaged, Running, Active
  <2>2. \/ Active.upd \in roots /\ Continue("verified", Active.upd.txn)
        \/ \E outcome \in {"error", "tampered"} : End(Nothing, outcome)
    BY <1>8 DEF VerifyStaged
  <2> QED
    BY <1>1, <1>2, <1>3, <1>4, <2>1, <2>2, KindNames
<1>9. CASE PlanInstall
  <2>1. Active.kind = "install" /\ Active.phase = "verified" /\ UNCHANGED <<roots, helpers>>
    BY <1>9 DEF PlanInstall, Running, Active
  <2>2. Continue("planned", Active.upd.txn) \/ End(Nothing, "error")
    BY <1>9 DEF PlanInstall
  <2> QED
    BY <1>1, <1>2, <1>3, <1>4, <2>1, <2>2, KindNames
<1>10. CASE LaunchInstaller
  <2>1. Active.kind = "install" /\ Active.phase = "planned" /\ UNCHANGED roots
    BY <1>10 DEF LaunchInstaller, Running, Active
  <2>2. \/ helpers' = helpers \cup {Active.upd} /\ End(Active.upd, "ok")
        \/ UNCHANGED helpers /\ End(Nothing, "error")
    BY <1>10 DEF LaunchInstaller
  <2> QED
    BY <1>1, <1>2, <1>3, <1>4, <2>1, <2>2, KindNames
<1> QED
  BY <1>5, <1>6, <1>7, <1>8, <1>9, <1>10 DEF Pool

LEMMA GoesOnce ==
  ASSUME TypeOK, OnceEach, jobs # <<>>, NEW p, NEW t, Goes(p, t)
  PROVE  /\ OnceEach' /\ \A k \in Kinds : Queued'[k] = Queued[k] /\ Told'[k] = Told[k] /\ Ending'[k] = Ending[k]
         /\ Active \in JobSet
         /\ JobSet' \subseteq JobSet \cup {[Active EXCEPT !.phase = p, !.upd.txn = t]}
         /\ EventSet' = EventSet
<1>1. jobs' \in Seq(Jobs)
  BY ContinueType DEF Goes
<1> QED
  BY <1>1, ContinueOnce DEF Goes

LEMMA PoolFlow == ASSUME TypeOK, FlowInv, Pool PROVE FlowInv'
<1>1. jobs # <<>> /\ UNCHANGED workers /\ OnceEach /\ Flags
  BY PoolMoves DEF FlowInv
<1>2. ASSUME NEW u, NEW outcome, Ends(u, outcome) PROVE FlowInv'
  <2>1. /\ OnceEach' /\ Active.kind \in Kinds /\ Queued[Active.kind] # {}
        /\ \A k \in Kinds : k # Active.kind => Told'[k] = Told[k] /\ Ending'[k] = Ending[k]
        /\ \A k \in Kinds : Queued[k] = {} => Queued'[k] = {}
    BY <1>1, <1>2, EndOnce DEF Ends
  <2>2. Idle \subseteq Idle'
    BY <2>1 DEF Idle
  <2> QED
    BY <1>1, <2>1, <2>2 DEF FlowInv, Flags, workers
<1>3. ASSUME NEW p, NEW t, Goes(p, t) PROVE FlowInv'
  <2>1. OnceEach' /\ \A k \in Kinds : Queued'[k] = Queued[k] /\ Told'[k] = Told[k] /\ Ending'[k] = Ending[k]
    BY <1>1, <1>3, GoesOnce
  <2>2. Idle' = Idle
    BY <2>1 DEF Idle
  <2> QED
    BY <1>1, <2>1, <2>2 DEF FlowInv, Flags, workers
<1> QED
  BY <1>2, <1>3, PoolMoves

\* A signal is handled: one of the six.
LEMMA SignalHandled ==
  ASSUME TypeOK, FlowInv, Handle
  PROVE  /\ ~quit /\ events # <<>> /\ events' = Tail(events) /\ UNCHANGED <<jobs, latest, roots, helpers, lock, counts>>
         /\ OnceEach' /\ JobSet' = JobSet /\ EventSet' \subseteq EventSet /\ Arrived \in EventSet
         /\ Queued' = Queued /\ Idle \subseteq Idle'
         /\ \A k \in Kinds : Told[k] = {} => Told'[k] = {}
         /\ Arrived.kind = "checked" => Queued["check"] = {} /\ Told["check"] # {} /\ Told'["check"] = {}
         /\ Arrived.kind = "downloaded" => Queued["download"] = {} /\ Told["download"] # {} /\ Told'["download"] = {}
         /\ Arrived.kind = "installed" => Queued["install"] = {} /\ Told["install"] # {} /\ Told'["install"] = {}
         /\ Arrived.kind = "checkOver" => Ending["check"] # {} /\ "check" \in Idle'
         /\ Arrived.kind = "downloadOver" => Ending["download"] # {} /\ "download" \in Idle'
         /\ Arrived.kind = "installOver" => Ending["install"] # {} /\ "install" \in Idle'
<1>1. ~quit /\ events # <<>> /\ events' = Tail(events) /\ UNCHANGED <<jobs, latest, roots, helpers, lock, counts>>
  BY DEF Handle, HandleChecked, HandleCheckOver, HandleDownloaded, HandleDownloadOver, HandleInstalled,
     HandleInstallOver, Signal, Handled
<1>2. /\ OnceEach' /\ JobSet' = JobSet /\ EventSet' \subseteq EventSet /\ Arrived \in EventSet
      /\ \A k \in Kinds : Queued'[k] = Queued[k]
      /\ \A k \in Kinds : k \in Idle => k \in Idle'
      /\ \A k \in Kinds : Told[k] = {} => Told'[k] = {}
      /\ \A k \in Kinds : Arrived.kind = ResultOf[k] => Queued[k] = {} /\ Told[k] # {} /\ Told'[k] = {}
      /\ \A k \in Kinds : Arrived.kind = OverOf[k] => Ending[k] # {} /\ k \in Idle'
  BY <1>1, HandleOnce DEF FlowInv
<1>3. Queued' = Queued
  BY <1>1 DEF Queued
<1>4. Idle \subseteq Idle'
  BY <1>2 DEF Idle
<1> QED
  BY <1>1, <1>2, <1>3, <1>4, KindNames

LEMMA HandleFlow == ASSUME TypeOK, FlowInv, Handle PROVE FlowInv'
<1>1. OnceEach' /\ Idle \subseteq Idle' /\ Flags
  BY SignalHandled DEF FlowInv
<1>2. CASE HandleCheckOver
  <2>1. "check" \in Idle'
    BY <1>2, SignalHandled DEF HandleCheckOver, Signal, Arrived
  <2> QED
    BY <1>1, <1>2, <2>1 DEF HandleCheckOver, FlowInv, Flags
<1>3. CASE HandleDownloadOver
  <2>1. "download" \in Idle'
    BY <1>3, SignalHandled DEF HandleDownloadOver, Signal, Arrived
  <2> QED
    BY <1>1, <1>3, <2>1 DEF HandleDownloadOver, FlowInv, Flags
<1>4. CASE HandleInstallOver
  <2>1. "install" \in Idle'
    BY <1>4, SignalHandled DEF HandleInstallOver, Signal, Arrived
  <2> QED
    BY <1>1, <1>4, <2>1 DEF HandleInstallOver, FlowInv, Flags
<1>5. CASE HandleChecked \/ HandleDownloaded \/ HandleInstalled
  <2>1. UNCHANGED <<checking, operation, installing>>
    BY <1>5 DEF HandleChecked, HandleDownloaded, HandleInstalled, workers
  <2> QED
    BY <1>1, <2>1 DEF FlowInv, Flags
<1> QED
  BY <1>2, <1>3, <1>4, <1>5 DEF Handle

\* The steps outside the pool, the window and its user.
LEMMA OutsideStays ==
  ASSUME Release \/ OtherTakes \/ OtherLeaves \/ Exit \/ UNCHANGED vars
  PROVE  /\ UNCHANGED <<books, workers, view, jobs, events, roots, helpers, quit, counts>>
         /\ latest' = latest \/ (latest' = latest + 1)
BY DEF Release, OtherTakes, OtherLeaves, Exit, poolOnly, vars

LEMMA NextFlow == ASSUME TypeOK, FlowInv, [Next]_vars PROVE FlowInv'
<1>1. CASE Release \/ OtherTakes \/ OtherLeaves \/ Exit \/ UNCHANGED vars
  <2>1. UNCHANGED <<workers, jobs, events>>
    BY <1>1, OutsideStays
  <2>2. OnceEach' /\ Idle' = Idle
    BY <2>1, SameFlow DEF FlowInv
  <2> QED
    BY <2>1, <2>2 DEF FlowInv, Flags, workers
<1> QED
  BY <1>1, UserFlow, PoolFlow, HandleFlow DEF Next

-----------------------------------------------------------------------------
(***************************************************************************)
(* What is offered: a staged update is the release the window shows, and no  *)
(* other download is on its way to replace it.                               *)
(***************************************************************************)
\* A check can only bring a release at least as new as the known one.
Fresh == /\ info <= latest
         /\ \A e \in EventSet : e.kind = "checked" =>
              e.outcome # "tampered" /\ (e.outcome = "ok" => info <= e.upd.ver /\ e.upd.ver <= latest)

Fetched(x) == x.id = operation /\ staged = Nothing
Loading ==
  /\ \A j \in JobSet : j.kind = "download" => Fetched(j) /\ j.upd.ver = info
  /\ \A e \in EventSet : e.kind = "downloaded" =>
       Fetched(e) /\ e.outcome # "tampered" /\ (e.outcome = "ok" => e.upd.ver = info)
  /\ operation # 0 => info # 0

Offered == staged # Nothing =>
             /\ staged.ver = info /\ staged.ver = identity /\ info # 0
             /\ dialog \in {"available", "error"} => shown # info

OfferInv == Fresh /\ Loading /\ Offered

LEMMA InitOffer == Init => OfferInv
<1> SUFFICES ASSUME Init PROVE OfferInv
  OBVIOUS
<1>1. JobSet = {Check} /\ EventSet = {}
  BY InitFlow
<1>2. info = 0 /\ latest \in Nat /\ operation = 0 /\ staged = Nothing
  BY UpdateAssumption DEF Init, Versions
<1> QED
  BY <1>1, <1>2, CheckJob DEF OfferInv, Fresh, Loading, Offered

LEMMA Numbers ==
  ASSUME TypeOK
  PROVE  /\ latest \in Nat /\ info \in Nat /\ shown \in Nat /\ identity \in Nat /\ downloads \in Nat
         /\ \A e \in EventSet : e \in Events /\ e.upd \in Updates /\ e.upd.ver \in Nat
         /\ \A j \in JobSet : j \in Jobs /\ j.upd \in Updates /\ j.upd.ver \in Nat
<1>1. \A e \in EventSet : e \in Events
  BY DEF EventSet, TypeOK
<1>2. \A j \in JobSet : j \in Jobs
  BY DEF JobSet, TypeOK
<1> QED
  BY <1>1, <1>2, UpdateAssumption DEF TypeOK, Versions, Events, Jobs, Updates

\* What is in a set is not idle.
LEMMA NotIdle ==
  /\ \A j \in JobSet : j.kind \in Kinds => Queued[j.kind] # {} /\ j.kind \notin Idle
  /\ \A e \in EventSet : /\ e.kind = "checked" => Told["check"] # {} /\ "check" \notin Idle
                         /\ e.kind = "downloaded" => Told["download"] # {} /\ "download" \notin Idle
                         /\ e.kind = "installed" => Told["install"] # {} /\ "install" \notin Idle
<1>1. ASSUME NEW j \in JobSet, j.kind \in Kinds PROVE Queued[j.kind] # {} /\ j.kind \notin Idle
  <2>1. PICK i \in DOMAIN jobs : jobs[i] = j
    BY DEF JobSet
  <2>2. i \in Queued[j.kind]
    BY <1>1, <2>1 DEF Queued
  <2> QED
    BY <2>2 DEF Idle
<1>2. ASSUME NEW e \in EventSet, NEW k \in Kinds, e.kind = ResultOf[k] PROVE Told[k] # {} /\ k \notin Idle
  <2>1. PICK i \in DOMAIN events : events[i] = e
    BY DEF EventSet
  <2>2. i \in Told[k]
    BY <1>2, <2>1 DEF Told
  <2> QED
    BY <2>2 DEF Idle
<1> QED
  BY <1>1, <1>2, KindNames

\* The pool reports the release as it is, and a download for what it was started.
LEMMA PoolOffer == ASSUME TypeOK, FlowInv, OfferInv, Pool PROVE OfferInv'
<1>1. jobs # <<>> /\ UNCHANGED <<latest, books, workers, view>> /\ Active.kind \in Kinds
  BY PoolMoves
<1>2. UNCHANGED <<info, staged, identity, operation, dialog, shown>>
  BY <1>1 DEF books, workers, view
<1>3. Offered'
  BY <1>2 DEF OfferInv, Offered
<1>4. ASSUME NEW u, NEW outcome, Ends(u, outcome) PROVE Fresh' /\ Loading'
  <2>1. Active \in JobSet /\ JobSet' \subseteq JobSet /\ EventSet' = EventSet \cup Signals(u, outcome)
    BY <1>1, <1>4, EndOnce DEF Ends, FlowInv
  <2>2. /\ Active.kind = "check" => outcome # "tampered" /\ (outcome = "ok" => u.ver = latest)
        /\ Active.kind = "download" => outcome # "tampered" /\ (outcome = "ok" => u = Active.upd)
    BY <1>4 DEF Ends
  <2>3. ASSUME NEW e \in Signals(u, outcome), e.kind = "checked"
        PROVE  e.outcome # "tampered" /\ (e.outcome = "ok" => e.upd.ver = latest)
    BY <1>1, <2>2, <2>3, KindNames DEF Signals, Event
  <2>4. ASSUME NEW e \in Signals(u, outcome), e.kind = "downloaded"
        PROVE  Fetched(e) /\ e.outcome # "tampered" /\ (e.outcome = "ok" => e.upd.ver = info)
    <3>1. Active.kind = "download" /\ e.id = Active.id /\ e.upd = u /\ e.outcome = outcome
      BY <1>1, <2>4, KindNames DEF Signals, Event
    <3> QED
      BY <2>1, <2>2, <3>1 DEF OfferInv, Loading, Fetched
  <2>5. Fresh'
    BY <1>1, <1>2, <2>1, <2>3, Numbers DEF OfferInv, Fresh
  <2>6. Loading'
    BY <1>2, <2>1, <2>4 DEF OfferInv, Loading, Fetched
  <2> QED
    BY <2>5, <2>6
<1>5. ASSUME NEW p, NEW t, Goes(p, t) PROVE Fresh' /\ Loading'
  <2> DEFINE j == [Active EXCEPT !.phase = p, !.upd.txn = t]
  <2>1. Active \in JobSet /\ JobSet' \subseteq JobSet \cup {j} /\ EventSet' = EventSet
    BY <1>1, <1>5, GoesOnce DEF FlowInv
  <2>2. j.kind = Active.kind /\ j.id = Active.id /\ j.upd.ver = Active.upd.ver
    BY <1>1, ActiveType DEF Jobs, Updates
  <2> HIDE DEF j
  <2>3. Fresh'
    BY <1>1, <1>2, <2>1 DEF OfferInv, Fresh
  <2>4. Loading'
    BY <1>2, <2>1, <2>2 DEF OfferInv, Loading, Fetched
  <2> QED
    BY <2>3, <2>4
<1> QED
  BY <1>3, <1>4, <1>5, PoolMoves DEF OfferInv

\* The dialog never offers to download what is staged.
LEMMA DialogOffer ==
  ASSUME TypeOK, Offered, ShowDialog(info, staged), UNCHANGED <<info, staged, identity>>
  PROVE  Offered'
BY DEF Offered, ShowDialog

LEMMA UserOffer == ASSUME TypeOK, FlowInv, OfferInv, User PROVE OfferInv'
<1>1. /\ UNCHANGED <<latest, info>> /\ UNCHANGED events
      /\ EventSet' = EventSet
  BY UserQueues DEF EventSet, User, AskCheck, OpenDialog, CloseDialog, Skip, StartDownload, AskInstall, AnswerNo,
     AnswerYes, DismissWarning, Close, books
<1>2. Fresh'
  BY <1>1 DEF OfferInv, Fresh
<1>3. CASE StartDownload
  <2>1. dialog' = "downloading" /\ UNCHANGED <<info, staged, shown>> /\ dialog \in {"available", "error"}
    BY <1>3 DEF StartDownload
  <2>2. CASE info # 0 /\ shown = info /\ operation = 0
    <3> DEFINE j == Job("download", downloads + 1, [ver |-> info, txn |-> 0], "queued")
    <3>1. staged = Nothing
      BY <2>1, <2>2 DEF OfferInv, Offered
    <3>2. jobs' = Append(jobs, j) /\ operation' = downloads + 1 /\ "download" \in Idle /\ downloads + 1 \in 0..MaxDownloads
      <4>1. jobs' = Append(jobs, j) /\ operation' = downloads + 1 /\ downloads < MaxDownloads
        BY <1>3, <2>2 DEF StartDownload
      <4>2. "download" \in Idle
        BY <2>2 DEF FlowInv, Flags
      <4>3. downloads + 1 \in 0..MaxDownloads
        BY <4>1, UpdateAssumption DEF TypeOK
      <4> QED
        BY <4>1, <4>2, <4>3
    <3>3. [ver |-> info, txn |-> 0] \in Updates
      BY DEF Updates, TypeOK
    <3>4. j \in Jobs /\ j.kind = "download" /\ j.id = operation' /\ j.upd.ver = info
      BY <3>2, <3>3 DEF Job, Jobs
    <3> HIDE DEF j
    <3>5. JobSet' = JobSet \cup {j}
      BY <1>1, <3>2, <3>4, QueueOnce DEF FlowInv
    <3>6. /\ \A x \in JobSet : x.kind # "download"
          /\ \A e \in EventSet : e.kind # "downloaded"
      BY <3>2, NotIdle, KindNames
    <3>7. Loading'
      BY <1>1, <2>1, <2>2, <3>1, <3>4, <3>5, <3>6 DEF Loading, Fetched
    <3> QED
      BY <1>2, <2>1, <3>1, <3>7 DEF OfferInv, Offered
  <2>3. CASE ~(info # 0 /\ shown = info /\ operation = 0)
    <3>1. UNCHANGED <<operation, identity, jobs>>
      BY <1>3, <2>3 DEF StartDownload
    <3>2. JobSet' = JobSet
      BY <3>1 DEF JobSet
    <3> QED
      BY <1>1, <1>2, <2>1, <3>1, <3>2 DEF OfferInv, Loading, Offered, Fetched
  <2> QED
    BY <2>2, <2>3
<1>4. CASE ~StartDownload
  <2>1. UNCHANGED operation /\ (staged' = staged \/ staged' = Nothing)
    BY <1>4 DEF User, AskCheck, OpenDialog, CloseDialog, Skip, AskInstall, AnswerNo, AnswerYes, DismissWarning, Close,
       books, workers, Forget
  <2>2. \A j \in JobSet' : j.kind = "download" => j \in JobSet
    <3>1. CASE jobs' = jobs
      BY <3>1 DEF JobSet
    <3>2. CASE "check" \in Idle /\ jobs' = Append(jobs, Check)
      <4>1. JobSet' = JobSet \cup {Check}
        BY <1>1, <3>2, CheckJob, QueueOnce DEF FlowInv
      <4> QED
        BY <4>1, CheckJob
    <3>3. CASE AnswerYes /\ "install" \in Idle /\ jobs' = Append(jobs, Job("install", 0, TopUpdate, "queued"))
      <4> DEFINE j == Job("install", 0, TopUpdate, "queued")
      <4>1. TopUpdate \in Updates
        BY <3>3, PoppedType DEF AnswerYes, Top
      <4>2. j \in Jobs /\ j.kind = "install"
        BY <4>1, UpdateAssumption DEF Job, Jobs
      <4>3. jobs' = Append(jobs, j) /\ j.kind \in Idle
        BY <3>3, <4>2
      <4> HIDE DEF j
      <4>4. JobSet' = JobSet \cup {j}
        BY <1>1, <4>2, <4>3, QueueOnce DEF FlowInv
      <4> QED
        BY <4>2, <4>4
    <3> QED
      BY <1>4, <3>1, <3>2, <3>3, UserQueues
  <2>3. Loading'
    BY <1>1, <2>1, <2>2 DEF OfferInv, Loading, Fetched
  <2>4. Offered'
    <3>1. CASE AskCheck \/ OpenDialog
      <4>1. UNCHANGED <<info, staged, identity>>
        BY <3>1 DEF AskCheck, OpenDialog, books
      <4>2. ShowDialog(info, staged) \/ UNCHANGED <<dialog, shown>>
        BY <3>1 DEF AskCheck, OpenDialog
      <4> QED
        BY <4>1, <4>2, DialogOffer DEF OfferInv, Offered
    <3>2. CASE CloseDialog \/ Skip \/ Close
      BY <3>2 DEF CloseDialog, Skip, Close, books, view, OfferInv, Offered
    <3>3. CASE AskInstall
      BY <3>3 DEF AskInstall, books, OfferInv, Offered
    <3>4. CASE AnswerNo \/ AnswerYes
      BY <3>4 DEF AnswerNo, AnswerYes, books, OfferInv, Offered
    <3>5. CASE DismissWarning
      BY <3>5 DEF DismissWarning, Forget, OfferInv, Offered
    <3> QED
      BY <1>4, <3>1, <3>2, <3>3, <3>4, <3>5 DEF User
  <2> QED
    BY <1>2, <2>3, <2>4 DEF OfferInv
<1> QED
  BY <1>3, <1>4

\* A check that comes back shows a release that is at least as new and takes an
\* older staged update away; nothing is downloaded then.
LEMMA CheckedOffer == ASSUME TypeOK, FlowInv, OfferInv, HandleChecked PROVE OfferInv'
<1> DEFINE v == Arrived.upd.ver
<1>1. /\ JobSet' = JobSet /\ EventSet' \subseteq EventSet /\ Arrived \in EventSet /\ Arrived.kind = "checked"
      /\ Told'["check"] = {}
  BY SignalHandled DEF Handle, HandleChecked, Signal, Arrived
<1>2. UNCHANGED <<latest, identity, operation, installing>>
  BY DEF HandleChecked, workers
<1>3. \A e \in EventSet' : e.kind # "checked"
  <2> SUFFICES ASSUME NEW e \in EventSet', e.kind = "checked" PROVE FALSE
    OBVIOUS
  <2>1. PICK i \in DOMAIN events' : events'[i] = e
    BY DEF EventSet
  <2>2. i \in Told'["check"]
    BY <2>1, KindNames DEF Told
  <2> QED
    BY <1>1, <2>2
<1>4. v \in Nat /\ info \in Nat /\ latest \in Nat
  BY <1>1, Numbers
<1>5. Arrived.outcome = "ok" => info <= v /\ v <= latest
  BY <1>1 DEF OfferInv, Fresh
<1>6. CASE UNCHANGED <<info, staged, dialog, shown>>
  BY <1>1, <1>2, <1>3, <1>6 DEF OfferInv, Fresh, Loading, Offered, Fetched
<1>7. CASE Arrived.outcome = "ok" /\ v = 0 /\ staged = Nothing /\ info' = 0 /\ UNCHANGED <<staged, dialog, shown>>
  <2>1. info = 0
    BY <1>4, <1>5, <1>7
  <2> QED
    BY <1>6, <1>7, <2>1
<1>8. CASE /\ Arrived.outcome = "ok" /\ v # 0 /\ operation = 0 /\ info' = v
           /\ staged' = IF Outdated(v) THEN Nothing ELSE staged
           /\ UNCHANGED <<dialog, shown>> \/ ShowDialog(v, staged')
  <2>1. Fresh'
    BY <1>2, <1>3, <1>5, <1>8 DEF Fresh
  <2>2. "download" \in Idle
    BY <1>8 DEF FlowInv, Flags
  <2>3. (\A j \in JobSet' : j.kind # "download") /\ (\A e \in EventSet' : e.kind # "downloaded")
    BY <1>1, <2>2, NotIdle, KindNames
  <2>4. Loading'
    BY <1>2, <1>8, <2>3 DEF Loading
  <2>5. Offered'
    <3>1. CASE staged' = Nothing
      BY <3>1 DEF Offered
    <3>2. CASE staged' # Nothing
      <4>1. staged' = staged /\ staged.ver = v
        BY <1>8, <3>2 DEF Outdated
      <4>2. info' = info /\ staged.ver = info /\ staged.ver = identity /\ info # 0
        BY <1>8, <3>2, <4>1 DEF OfferInv, Offered
      <4>3. CASE UNCHANGED <<dialog, shown>>
        BY <1>2, <4>1, <4>2, <4>3 DEF OfferInv, Offered
      <4>4. CASE ShowDialog(v, staged')
        <5>1. dialog' \notin {"available", "error"}
          BY <3>2, <4>4 DEF ShowDialog
        <5> QED
          BY <1>2, <4>1, <4>2, <5>1 DEF Offered
      <4> QED
        BY <1>8, <4>3, <4>4
    <3> QED
      BY <3>1, <3>2
  <2> QED
    BY <2>1, <2>4, <2>5 DEF OfferInv
<1>9. \/ UNCHANGED <<info, staged, dialog, shown>>
      \/ Arrived.outcome = "ok" /\ v = 0 /\ staged = Nothing /\ info' = 0 /\ UNCHANGED <<staged, dialog, shown>>
      \/ /\ Arrived.outcome = "ok" /\ v # 0 /\ operation = 0 /\ info' = v
         /\ staged' = IF Outdated(v) THEN Nothing ELSE staged
         /\ UNCHANGED <<dialog, shown>> \/ ShowDialog(v, staged')
  <2> HIDE DEF v
  <2>1. Arrived.outcome \in {"ok", "error", "tampered"}
    BY <1>1, Numbers DEF Events
  <2>2. Arrived.outcome # "tampered"
    BY <1>1 DEF OfferInv, Fresh
  <2>3. CASE Arrived.outcome = "error"
    BY <2>3 DEF HandleChecked, view
  <2>4. CASE Arrived.outcome = "ok" /\ v = 0
    BY <2>4 DEF HandleChecked, v
  <2>5. CASE Arrived.outcome = "ok" /\ v # 0 /\ operation # 0
    BY <2>5 DEF HandleChecked, view, v
  <2>6. CASE Arrived.outcome = "ok" /\ v # 0 /\ operation = 0
    BY <2>6 DEF HandleChecked, v
  <2> QED
    BY <2>1, <2>2, <2>3, <2>4, <2>5, <2>6
<1> QED
  BY <1>6, <1>7, <1>8, <1>9

\* A finished download is staged when it is the release of the window.
LEMMA DownloadedOffer == ASSUME TypeOK, FlowInv, OfferInv, HandleDownloaded PROVE OfferInv'
<1>1. /\ JobSet' = JobSet /\ EventSet' \subseteq EventSet /\ Arrived \in EventSet /\ Arrived.kind = "downloaded"
      /\ Told'["download"] = {} /\ Queued["download"] = {}
  BY SignalHandled DEF Handle, HandleDownloaded, Signal, Arrived
<1>2. UNCHANGED <<latest, info, identity, operation, shown>>
  BY DEF HandleDownloaded, workers, view
<1>3. \A e \in EventSet' : e.kind # "downloaded"
  <2> SUFFICES ASSUME NEW e \in EventSet', e.kind = "downloaded" PROVE FALSE
    OBVIOUS
  <2>1. PICK i \in DOMAIN events' : events'[i] = e
    BY DEF EventSet
  <2>2. i \in Told'["download"]
    BY <2>1, KindNames DEF Told
  <2> QED
    BY <1>1, <2>2
<1>4. \A j \in JobSet' : j.kind # "download"
  BY <1>1, NotIdle, KindNames
<1>5. Fresh' /\ Loading'
  BY <1>1, <1>2, <1>3, <1>4 DEF OfferInv, Fresh, Loading
<1>6. /\ Arrived.id = operation /\ staged = Nothing /\ Arrived.outcome # "tampered"
      /\ Arrived.outcome = "ok" => Arrived.upd.ver = info
  BY <1>1 DEF OfferInv, Loading, Fetched
<1>7. Arrived.outcome \in {"ok", "error"}
  BY <1>1, <1>6, Numbers DEF Events
<1>8. operation # 0 => info # 0
  BY DEF OfferInv, Loading
<1>9. operation # 0
  <2>1. "download" \notin Idle
    BY <1>1, NotIdle
  <2> QED
    BY <2>1 DEF FlowInv, Flags
<1>10. Offered'
  <2>1. CASE Arrived.outcome = "error" \/ Arrived.upd.ver # identity
    <3>1. staged' = Nothing
      BY <1>6, <1>7, <2>1 DEF HandleDownloaded
    <3> QED
      BY <3>1 DEF Offered
  <2>2. CASE Arrived.outcome = "ok" /\ Arrived.upd.ver = identity
    <3>1. staged' = Arrived.upd /\ dialog' = "ready"
      BY <1>6, <2>2 DEF HandleDownloaded
    <3> QED
      BY <1>2, <1>6, <1>8, <1>9, <2>2, <3>1 DEF Offered
  <2> QED
    BY <1>7, <2>1, <2>2
<1> QED
  BY <1>5, <1>10 DEF OfferInv

LEMMA HandleOffer == ASSUME TypeOK, FlowInv, OfferInv, Handle PROVE OfferInv'
<1>1. JobSet' = JobSet /\ EventSet' \subseteq EventSet
  BY SignalHandled
<1>2. CASE HandleDownloadOver
  <2>1. Arrived.kind = "downloadOver" /\ UNCHANGED <<latest, info, staged, identity, dialog, shown>>
    BY <1>2 DEF HandleDownloadOver, Signal, Arrived, books, view
  <2>2. operation' = operation \/ operation' = 0
    BY <1>2 DEF HandleDownloadOver
  <2>3. "download" \in Idle'
    BY <2>1, SignalHandled
  <2>4. JobSet' = JobSet /\ Queued' = Queued
    BY SignalHandled
  <2>5. Queued["download"] = {} /\ Told'["download"] = {}
    BY <2>3, <2>4 DEF Idle
  <2>6. (\A j \in JobSet' : j.kind # "download") /\ (\A e \in EventSet' : e.kind # "downloaded")
    <3>1. \A j \in JobSet' : j.kind # "download"
      BY <2>4, <2>5, NotIdle, KindNames
    <3>2. ASSUME NEW e \in EventSet', e.kind = "downloaded" PROVE FALSE
      <4>1. PICK i \in DOMAIN events' : events'[i] = e
        BY DEF EventSet
      <4>2. i \in Told'["download"]
        BY <3>2, <4>1, KindNames DEF Told
      <4> QED
        BY <2>5, <4>2
    <3> QED
      BY <3>1, <3>2
  <2> QED
    BY <1>1, <2>1, <2>2, <2>6 DEF OfferInv, Fresh, Loading, Offered
<1>3. CASE HandleCheckOver \/ HandleInstalled \/ HandleInstallOver
  <2>1. UNCHANGED <<latest, info, staged, identity, operation, dialog, shown>>
    BY <1>3 DEF HandleCheckOver, HandleInstalled, HandleInstallOver, books, view
  <2> QED
    BY <1>1, <2>1 DEF OfferInv, Fresh, Loading, Offered, Fetched
<1> QED
  BY <1>2, <1>3, CheckedOffer, DownloadedOffer DEF Handle

LEMMA NextOffer == ASSUME TypeOK, FlowInv, OfferInv, [Next]_vars PROVE OfferInv'
<1>1. CASE Release \/ OtherTakes \/ OtherLeaves \/ Exit \/ UNCHANGED vars
  <2>1. UNCHANGED <<books, workers, view, jobs, events>> /\ latest \in Nat /\ info \in Nat
        /\ (latest' = latest \/ latest' = latest + 1)
    BY <1>1, OutsideStays, Numbers
  <2>2. JobSet' = JobSet /\ EventSet' = EventSet
    BY <2>1 DEF JobSet, EventSet
  <2>3. Fresh'
    <3>1. info' = info /\ latest <= latest' /\ latest' \in Nat
      BY <2>1 DEF books
    <3>2. \A e \in EventSet : e.upd.ver \in Nat
      BY Numbers
    <3> QED
      BY <2>1, <2>2, <3>1, <3>2 DEF OfferInv, Fresh
  <2> QED
    BY <2>1, <2>2, <2>3 DEF OfferInv, Loading, Offered, Fetched, books, workers, view
<1> QED
  BY <1>1, UserOffer, PoolOffer, HandleOffer DEF Next

FlowAndOffer == TypeOK /\ FlowInv /\ OfferInv

LEMMA NextFlowAndOffer == FlowAndOffer /\ [Next]_vars => FlowAndOffer'
BY NextType, NextFlow, NextOffer DEF FlowAndOffer

LEMMA AlwaysFlowAndOffer == Spec => []FlowAndOffer
<1>1. Init => FlowAndOffer
  BY InitType, InitFlow, InitOffer DEF FlowAndOffer
<1> QED
  BY <1>1, NextFlowAndOffer, PTL DEF Spec

(***************************************************************************)
(* As long as a staged update is offered no download is queued or running:   *)
(* StartDownload, HandleDownloaded and HandleChecked together see to it, for *)
(* any number of downloads and releases.                                     *)
(***************************************************************************)
THEOREM OfferHolds == Spec => []NoDownloadOverStaged
<1>1. FlowAndOffer => NoDownloadOverStaged
  BY DEF FlowAndOffer, OfferInv, Loading, Fetched, JobSet, NoDownloadOverStaged
<1> QED
  BY <1>1, AlwaysFlowAndOffer, PTL

-----------------------------------------------------------------------------
(***************************************************************************)
(* Windows: a question is on top of everything, no check is under way where  *)
(* the dialog stands above a warning or a download runs behind one.          *)
(***************************************************************************)
Busy  == {k \in Kinds : Queued[k] # {} \/ Told[k] # {}}
Boxes == [k \in {"dialog", "question", "warning"} |-> {i \in DOMAIN windows : windows[i].kind = k}]

QuestionTop   == \A i \in Boxes["question"] : i = Len(windows) /\ ~installing /\ Boxes["dialog"] # {}
Above         == (\E i \in Boxes["warning"], j \in Boxes["dialog"] : i < j) => "check" \notin Busy
DownloadAlone == Boxes["warning"] # {} /\ "download" \in Busy => "check" \notin Busy
BoxInv == QuestionTop /\ Above /\ DownloadAlone

LEMMA InitBoxes == Init => BoxInv /\ WindowSet = {}
<1> SUFFICES ASSUME Init PROVE BoxInv /\ WindowSet = {}
  OBVIOUS
<1>1. windows = <<>> /\ DOMAIN windows = {}
  BY DEF Init
<1>2. Boxes["question"] = {} /\ Boxes["warning"] = {}
  BY <1>1 DEF Boxes
<1> QED
  BY <1>1, <1>2 DEF BoxInv, QuestionTop, Above, DownloadAlone, WindowSet

\* No window.
LEMMA NoBoxes ==
  ASSUME windows = <<>>
  PROVE  /\ Boxes["question"] = {} /\ Boxes["warning"] = {} /\ Boxes["dialog"] = {} /\ WindowSet = {}
BY DEF Boxes, WindowSet

\* The windows as they are.
LEMMA SameBoxes ==
  ASSUME UNCHANGED windows
  PROVE  Boxes' = Boxes /\ WindowSet' = WindowSet
BY DEF Boxes, WindowSet

\* A window comes on top.
LEMMA PushedBoxes ==
  ASSUME TypeOK, NEW w \in Windows, windows' = Append(windows, w)
  PROVE  /\ Len(windows) \in Nat /\ Len(windows)' = Len(windows) + 1
         /\ \A k \in {"dialog", "question", "warning"} :
              /\ Boxes[k] \subseteq 1..Len(windows)
              /\ w.kind = k => Boxes'[k] = Boxes[k] \cup {Len(windows) + 1}
              /\ w.kind # k => Boxes'[k] = Boxes[k]
         /\ WindowSet' = WindowSet \cup {w}
<1>1. /\ Len(windows) \in Nat /\ DOMAIN windows = 1..Len(windows) /\ DOMAIN windows' = 1..(Len(windows) + 1)
      /\ \A i \in DOMAIN windows : windows'[i] = windows[i]
      /\ windows'[Len(windows) + 1] = w
  BY Appended DEF TypeOK
<1>2. Len(windows') = Len(windows) + 1
  BY AppendProperties DEF TypeOK
<1>3. \A i \in DOMAIN windows' : i \in DOMAIN windows \/ i = Len(windows) + 1
  BY <1>1
<1>4. DOMAIN windows \subseteq DOMAIN windows' /\ Len(windows) + 1 \in DOMAIN windows'
  BY <1>1
<1>5. WindowSet' = WindowSet \cup {w}
  BY <1>1, <1>3, <1>4 DEF WindowSet
<1>6. ASSUME NEW k \in {"dialog", "question", "warning"}
      PROVE  /\ Boxes[k] \subseteq 1..Len(windows)
             /\ w.kind = k => Boxes'[k] = Boxes[k] \cup {Len(windows) + 1}
             /\ w.kind # k => Boxes'[k] = Boxes[k]
  BY <1>1, <1>3, <1>4 DEF Boxes
<1> QED
  BY <1>1, <1>2, <1>5, <1>6

\* The top one goes.
LEMMA PoppedBoxes ==
  ASSUME TypeOK, NEW kind \in {"dialog", "question", "warning"}, Top(kind), windows' = Popped
  PROVE  /\ Len(windows) \in Nat \ {0} /\ Len(windows) \in Boxes[kind]
         /\ \A k \in {"dialog", "question", "warning"} :
              /\ Boxes'[k] = Boxes[k] \ {Len(windows)}
              /\ k # kind => Len(windows) \notin Boxes[k]
         /\ WindowSet' \subseteq WindowSet /\ windows[Len(windows)] \in WindowSet
<1>1. windows \in Seq(Windows) /\ windows # <<>> /\ windows[Len(windows)].kind = kind
  BY DEF TypeOK, Top
<1>2. /\ Len(windows) \in Nat \ {0} /\ DOMAIN windows = 1..Len(windows)
  BY <1>1, LenProperties, EmptySeq
<1>3. Len(windows) \in DOMAIN windows
  BY <1>2
<1>4. /\ windows' \in Seq(Windows) /\ DOMAIN windows' = 1..(Len(windows) - 1)
      /\ \A i \in 1..(Len(windows) - 1) : windows'[i] = windows[i]
  BY <1>1, <1>2, SubSeqProperties DEF Popped
<1>5. DOMAIN windows' = DOMAIN windows \ {Len(windows)}
  BY <1>2, <1>4
<1>6. \A i \in DOMAIN windows' : windows'[i] = windows[i]
  BY <1>4
<1>7. WindowSet' \subseteq WindowSet /\ windows[Len(windows)] \in WindowSet
  BY <1>3, <1>5, <1>6 DEF WindowSet
<1>8. ASSUME NEW k \in {"dialog", "question", "warning"}
      PROVE  Boxes'[k] = Boxes[k] \ {Len(windows)} /\ (k # kind => Len(windows) \notin Boxes[k])
  BY <1>1, <1>5, <1>6 DEF Boxes
<1>9. Len(windows) \in Boxes[kind]
  BY <1>1, <1>3 DEF Boxes
<1> QED
  BY <1>2, <1>7, <1>8, <1>9

\* dialog.show.
LEMMA ShownBoxes ==
  ASSUME TypeOK, windows' = Show(windows)
  PROVE  /\ Boxes'["question"] = Boxes["question"] /\ Boxes'["warning"] = Boxes["warning"]
         /\ \/ UNCHANGED windows
            \/ Boxes["dialog"] = {} /\ Len(windows) \in Nat /\ Boxes["warning"] \subseteq 1..Len(windows)
         /\ \A w \in WindowSet' : w.kind # "dialog" => w \in WindowSet
<1> DEFINE d == Window("dialog", Nothing, "ok")
<1>1. d \in Windows /\ d.kind = "dialog"
  BY NothingType DEF Window, Windows
<1>2. CASE \E i \in DOMAIN windows : windows[i].kind = "dialog"
  <2>1. UNCHANGED windows
    BY <1>2 DEF Show
  <2> QED
    BY <2>1, SameBoxes
<1>3. CASE ~ \E i \in DOMAIN windows : windows[i].kind = "dialog"
  <2>1. windows' = Append(windows, d)
    BY <1>3 DEF Show
  <2>2. Boxes["dialog"] = {}
    BY <1>3 DEF Boxes
  <2> HIDE DEF d
  <2> QED
    BY <1>1, <2>1, <2>2, PushedBoxes
<1> QED
  BY <1>2, <1>3

\* What is under way after a step of the user, the pool and the window.
LEMMA UserBusy ==
  ASSUME TypeOK, FlowInv, User
  PROVE  /\ EventSet' = EventSet
         /\ ~AskCheck /\ ~StartDownload /\ ~AnswerYes => Busy' = Busy /\ JobSet' = JobSet
         /\ AskCheck => /\ Busy' \subseteq Busy \cup {"check"}
                        /\ JobSet' \subseteq JobSet \cup {Check}
         /\ StartDownload => /\ Busy' \subseteq Busy \cup {"download"}
                             /\ \A j \in JobSet' : j.kind = "install" => j \in JobSet
         /\ AnswerYes => /\ Busy' \subseteq Busy \cup {"install"}
                         /\ JobSet' \subseteq JobSet \cup {Job("install", 0, TopUpdate, "queued")}
<1>1. UNCHANGED events /\ OnceEach /\ EventSet' = EventSet /\ Told' = Told
  BY UserQueues DEF FlowInv, EventSet, Told
<1>2. CASE UNCHANGED jobs
  <2>1. Busy' = Busy /\ JobSet' = JobSet
    BY <1>1, <1>2 DEF Busy, Queued, JobSet
  <2> QED
    BY <1>1, <2>1
<1>3. ASSUME NEW j \in Jobs, j.kind \in Idle, jobs' = Append(jobs, j)
      PROVE  Busy' \subseteq Busy \cup {j.kind} /\ JobSet' = JobSet \cup {j}
  <2>1. JobSet' = JobSet \cup {j} /\ \A k \in Kinds : k # j.kind => Queued'[k] = Queued[k]
    BY <1>1, <1>3, QueueOnce
  <2> QED
    BY <1>1, <2>1 DEF Busy
<1>4. CASE AskCheck /\ "check" \in Idle /\ jobs' = Append(jobs, Check)
  <2>1. Busy' \subseteq Busy \cup {"check"} /\ JobSet' = JobSet \cup {Check}
    BY <1>3, <1>4, CheckJob
  <2>2. ~StartDownload /\ ~AnswerYes
    BY <1>4 DEF AskCheck, StartDownload, AnswerYes, Free, Top
  <2> QED
    BY <1>1, <1>4, <2>1, <2>2
<1>5. CASE /\ StartDownload /\ "download" \in Idle /\ downloads + 1 \in 0..MaxDownloads
           /\ jobs' = Append(jobs, Job("download", downloads + 1, [ver |-> info, txn |-> 0], "queued"))
  <2> DEFINE j == Job("download", downloads + 1, [ver |-> info, txn |-> 0], "queued")
  <2>1. [ver |-> info, txn |-> 0] \in Updates
    BY DEF Updates, TypeOK
  <2>2. j \in Jobs /\ j.kind = "download"
    BY <1>5, <2>1 DEF Job, Jobs
  <2>3. jobs' = Append(jobs, j) /\ j.kind \in Idle
    BY <1>5, <2>2
  <2>4. Top("dialog")
    BY <1>5 DEF StartDownload
  <2>5. ~AskCheck /\ ~AnswerYes
    BY <2>4 DEF AskCheck, AnswerYes, Free, Top
  <2> HIDE DEF j
  <2> QED
    BY <1>1, <1>3, <1>5, <2>2, <2>3, <2>5
<1>6. CASE AnswerYes /\ "install" \in Idle /\ jobs' = Append(jobs, Job("install", 0, TopUpdate, "queued"))
  <2> DEFINE j == Job("install", 0, TopUpdate, "queued")
  <2>1. TopUpdate \in Updates
    BY <1>6, PoppedType DEF AnswerYes, Top
  <2>2. j \in Jobs /\ j.kind = "install"
    BY <2>1, UpdateAssumption DEF Job, Jobs
  <2>3. jobs' = Append(jobs, j) /\ j.kind \in Idle
    BY <1>6, <2>2
  <2> HIDE DEF j
  <2>4. Busy' \subseteq Busy \cup {"install"} /\ JobSet' = JobSet \cup {j}
    BY <1>3, <2>2, <2>3
  <2>5. Top("question")
    BY <1>6 DEF AnswerYes
  <2>6. ~AskCheck /\ ~StartDownload
    BY <2>5 DEF AskCheck, StartDownload, Free, Top
  <2> QED
    BY <1>1, <1>6, <2>4, <2>6 DEF j
<1> QED
  BY <1>2, <1>4, <1>5, <1>6, UserQueues

LEMMA PoolBusy == ASSUME TypeOK, FlowInv, Pool PROVE Busy' \subseteq Busy
<1>1. jobs # <<>> /\ OnceEach
  BY PoolMoves DEF FlowInv
<1>2. ASSUME NEW u, NEW outcome, Ends(u, outcome) PROVE Busy' \subseteq Busy
  <2>1. /\ Active.kind \in Kinds /\ Queued[Active.kind] # {}
        /\ \A k \in Kinds : k # Active.kind => Told'[k] = Told[k]
        /\ \A k \in Kinds : Queued[k] = {} => Queued'[k] = {}
    BY <1>1, <1>2, EndOnce DEF Ends
  <2> QED
    BY <2>1 DEF Busy
<1>3. ASSUME NEW p, NEW t, Goes(p, t) PROVE Busy' \subseteq Busy
  <2>1. \A k \in Kinds : Queued'[k] = Queued[k] /\ Told'[k] = Told[k]
    BY <1>1, <1>3, GoesOnce
  <2> QED
    BY <2>1 DEF Busy
<1> QED
  BY <1>2, <1>3, PoolMoves

LEMMA HandleBusy ==
  ASSUME TypeOK, FlowInv, Handle
  PROVE  /\ Busy' \subseteq Busy /\ Idle \cap Busy = {}
         /\ Arrived.kind = "checked" => "check" \notin Busy' /\ "check" \in Busy
         /\ Arrived.kind = "downloaded" => "download" \notin Busy' /\ "download" \in Busy
         /\ Arrived.kind = "installed" => "install" \notin Busy' /\ "install" \in Busy
         /\ EventSet \subseteq EventSet' \cup {Arrived}
<1>1. /\ Len(events) \in Nat \ {0} /\ Arrived = events[1]
      /\ DOMAIN events = 1..Len(events) /\ DOMAIN events' = 1..(Len(events) - 1)
      /\ \A i \in DOMAIN events' : i + 1 \in DOMAIN events /\ events'[i] = events[i + 1]
  BY SignalHandled, FirstGone DEF TypeOK, Arrived
<1>2. EventSet \subseteq EventSet' \cup {Arrived}
  <2> SUFFICES ASSUME NEW i \in DOMAIN events, i # 1 PROVE events[i] \in EventSet'
    BY <1>1 DEF EventSet
  <2>1. i - 1 \in DOMAIN events' /\ (i - 1) + 1 = i
    BY <1>1
  <2>2. events'[i - 1] = events[i]
    BY <1>1, <2>1
  <2> QED
    BY <2>1, <2>2 DEF EventSet
<1>3. Idle \cap Busy = {}
  BY DEF Idle, Busy
<1>4. /\ Queued' = Queued /\ \A k \in Kinds : Told[k] = {} => Told'[k] = {}
  BY SignalHandled
<1>5. Busy' \subseteq Busy
  BY <1>4 DEF Busy
<1>6. Arrived.kind = "checked" => "check" \notin Busy' /\ "check" \in Busy
  BY <1>4, SignalHandled, KindNames DEF Busy
<1>7. Arrived.kind = "downloaded" => "download" \notin Busy' /\ "download" \in Busy
  BY <1>4, SignalHandled, KindNames DEF Busy
<1>8. Arrived.kind = "installed" => "install" \notin Busy' /\ "install" \in Busy
  BY <1>4, SignalHandled, KindNames DEF Busy
<1> QED
  BY <1>2, <1>3, <1>5, <1>6, <1>7, <1>8

LEMMA UserBoxes == ASSUME TypeOK, FlowInv, BoxInv, User PROVE BoxInv'
<1> USE DEF BoxInv
<1>1. CASE AskCheck \/ OpenDialog
  <2>1. windows = <<>> /\ (windows' = windows \/ windows' = Show(windows))
    BY <1>1 DEF AskCheck, OpenDialog, ShowDialog, Free
  <2>2. Boxes'["question"] = {} /\ Boxes'["warning"] = {}
    BY <2>1, NoBoxes, SameBoxes, ShownBoxes
  <2> QED
    BY <2>2 DEF QuestionTop, Above, DownloadAlone
<1>2. ASSUME NEW kind \in {"dialog", "question", "warning"}, Top(kind), windows' = Popped,
             Busy' \subseteq Busy \cup {"install"}
      PROVE  BoxInv'
  <2>1. /\ Len(windows) \in Nat \ {0} /\ Len(windows) \in Boxes[kind]
        /\ \A k \in {"dialog", "question", "warning"} :
             /\ Boxes'[k] = Boxes[k] \ {Len(windows)}
             /\ k # kind => Len(windows) \notin Boxes[k]
    BY <1>2, PoppedBoxes
  <2>2. Boxes'["question"] = {}
    BY <2>1 DEF QuestionTop
  <2>3. "check" \in Busy' => "check" \in Busy
    BY <1>2
  <2>4. "download" \in Busy' => "download" \in Busy
    BY <1>2
  <2>5. Boxes'["warning"] \subseteq Boxes["warning"] /\ Boxes'["dialog"] \subseteq Boxes["dialog"]
    BY <2>1
  <2> QED
    BY <2>2, <2>3, <2>4, <2>5 DEF QuestionTop, Above, DownloadAlone
<1>3. CASE CloseDialog \/ Skip
  <2>1. Top("dialog") /\ windows' = Popped /\ UNCHANGED <<jobs, events>>
    BY <1>3 DEF CloseDialog, Skip
  <2>2. Busy' = Busy
    BY <2>1 DEF Busy, Queued, Told
  <2> QED
    BY <1>2, <2>1, <2>2
<1>4. CASE AnswerNo \/ DismissWarning
  <2>1. \E kind \in {"question", "warning"} : Top(kind) /\ windows' = Popped
    BY <1>4 DEF AnswerNo, DismissWarning
  <2>2. UNCHANGED <<jobs, events>>
    BY <1>4 DEF AnswerNo, DismissWarning
  <2>3. Busy' = Busy
    BY <2>2 DEF Busy, Queued, Told
  <2> QED
    BY <1>2, <2>1, <2>3
<1>5. CASE AnswerYes
  <2>1. Top("question") /\ windows' = Popped
    BY <1>5 DEF AnswerYes
  <2> QED
    BY <1>2, <1>5, <2>1, UserBusy
<1>6. CASE StartDownload
  <2>1. Top("dialog") /\ UNCHANGED <<windows, installing>>
    BY <1>6 DEF StartDownload
  <2>2. Boxes' = Boxes
    BY <2>1, SameBoxes
  <2>3. windows \in Seq(Windows) /\ windows # <<>> /\ windows[Len(windows)].kind = "dialog"
    BY <2>1 DEF TypeOK, Top
  <2>4. Len(windows) \in Nat \ {0} /\ DOMAIN windows = 1..Len(windows)
    BY <2>3, LenProperties, EmptySeq
  <2>5. Len(windows) \in Boxes["dialog"]
    BY <2>3, <2>4 DEF Boxes
  <2>6. \A i \in Boxes["warning"] : i < Len(windows)
    BY <2>3, <2>4 DEF Boxes
  <2>7. Boxes["warning"] # {} => "check" \notin Busy
    BY <2>5, <2>6 DEF Above
  <2>8. "check" \in Busy' => "check" \in Busy
    BY <1>6, UserBusy
  <2> QED
    BY <2>1, <2>2, <2>7, <2>8 DEF QuestionTop, Above, DownloadAlone
<1>7. CASE AskInstall \/ Close
  <2>1. UNCHANGED <<jobs, events, installing>>
    BY <1>7 DEF AskInstall, Close, workers
  <2>2. Busy' = Busy
    BY <2>1 DEF Busy, Queued, Told
  <2>3. CASE windows' = windows
    BY <2>1, <2>2, <2>3, SameBoxes DEF QuestionTop, Above, DownloadAlone
  <2>4. CASE AskInstall /\ ~installing /\ windows' = Append(windows, Window("question", staged, "ok"))
    <3> DEFINE w == Window("question", staged, "ok")
    <3>1. w \in Windows /\ w.kind = "question"
      BY DEF Window, Windows, TypeOK
    <3>2. windows' = Append(windows, w)
      BY <2>4
    <3> HIDE DEF w
    <3>3. /\ Len(windows) \in Nat /\ Len(windows') = Len(windows) + 1
          /\ Boxes'["question"] = Boxes["question"] \cup {Len(windows) + 1}
          /\ Boxes'["warning"] = Boxes["warning"] /\ Boxes'["dialog"] = Boxes["dialog"]
      BY <3>1, <3>2, PushedBoxes
    <3>4. Top("dialog")
      BY <2>4 DEF AskInstall
    <3>5. windows \in Seq(Windows) /\ windows # <<>> /\ windows[Len(windows)].kind = "dialog"
      BY <3>4 DEF TypeOK, Top
    <3>6. Len(windows) \in DOMAIN windows
      BY <3>5, LenProperties, EmptySeq
    <3>7. Boxes["question"] = {} /\ Boxes["dialog"] # {}
      <4>1. Len(windows) \in Boxes["dialog"] /\ Len(windows) \notin Boxes["question"]
        BY <3>5, <3>6 DEF Boxes
      <4> QED
        BY <4>1 DEF QuestionTop
    <3> QED
      BY <2>1, <2>2, <2>4, <3>3, <3>7 DEF QuestionTop, Above, DownloadAlone
  <2>5. windows' = windows \/ (AskInstall /\ ~installing /\ windows' = Append(windows, Window("question", staged, "ok")))
    BY <1>7 DEF AskInstall, Close, view
  <2> QED
    BY <2>3, <2>4, <2>5
<1> QED
  BY <1>1, <1>3, <1>4, <1>5, <1>6, <1>7 DEF User

LEMMA HandleBoxes == ASSUME TypeOK, FlowInv, OfferInv, BoxInv, Handle PROVE BoxInv'
<1> USE DEF BoxInv
<1>1. Busy' \subseteq Busy
  BY HandleBusy
<1>2. CASE UNCHANGED windows /\ (installing' => installing)
  BY <1>1, <1>2, SameBoxes DEF QuestionTop, Above, DownloadAlone
<1>3. CASE /\ windows' = Show(windows) /\ UNCHANGED installing
           /\ "check" \notin Busy' \/ "download" \in Busy
  <2>1. /\ Boxes'["question"] = Boxes["question"] /\ Boxes'["warning"] = Boxes["warning"]
        /\ UNCHANGED windows \/ Boxes["dialog"] = {}
    BY <1>3, ShownBoxes
  <2>2. CASE Boxes["dialog"] = {}
    <3>1. Boxes'["question"] = {}
      BY <2>1, <2>2 DEF QuestionTop
    <3>2. "check" \notin Busy' \/ Boxes["warning"] = {}
      BY <1>1, <1>3 DEF DownloadAlone
    <3> QED
      BY <2>1, <3>1, <3>2 DEF QuestionTop, Above, DownloadAlone
  <2> QED
    BY <1>2, <1>3, <2>1, <2>2
<1>4. CASE HandleChecked
  <2>1. Arrived.kind = "checked" /\ UNCHANGED installing
    BY <1>4 DEF HandleChecked, Signal, Arrived, workers
  <2>2. UNCHANGED windows \/ windows' = Show(windows)
    <3>1. Arrived.outcome \in {"ok", "error"}
      <4>1. Arrived \in EventSet
        BY SignalHandled
      <4> QED
        BY <2>1, <4>1, Numbers DEF Events, OfferInv, Fresh
    <3>2. CASE Arrived.outcome = "error"
      BY <1>4, <3>2 DEF HandleChecked, view
    <3>3. CASE Arrived.outcome = "ok" /\ Arrived.upd.ver = 0
      BY <1>4, <3>3 DEF HandleChecked
    <3>4. CASE Arrived.outcome = "ok" /\ Arrived.upd.ver # 0 /\ operation # 0
      BY <1>4, <3>4 DEF HandleChecked, view
    <3>5. CASE Arrived.outcome = "ok" /\ Arrived.upd.ver # 0 /\ operation = 0
      BY <1>4, <3>5 DEF HandleChecked, ShowDialog
    <3> QED
      BY <3>1, <3>2, <3>3, <3>4, <3>5
  <2> QED
    BY <1>2, <1>3, <2>1, <2>2, HandleBusy
<1>5. CASE HandleDownloaded
  <2>1. Arrived.kind = "downloaded" /\ UNCHANGED installing
    BY <1>5 DEF HandleDownloaded, Signal, Arrived, workers
  <2>2. UNCHANGED windows \/ windows' = Show(windows)
    <3>1. CASE Arrived.id # operation
      BY <1>5, <3>1 DEF HandleDownloaded, view
    <3>2. CASE Arrived.id = operation /\ Arrived.outcome = "error"
      BY <1>5, <3>2 DEF HandleDownloaded
    <3>3. CASE Arrived.id = operation /\ Arrived.outcome = "ok" /\ Arrived.upd.ver # identity
      BY <1>5, <3>3 DEF HandleDownloaded
    <3>4. CASE Arrived.id = operation /\ Arrived.outcome # "error" /\ ~(Arrived.outcome = "ok" /\ Arrived.upd.ver # identity)
      BY <1>5, <3>4 DEF HandleDownloaded
    <3> QED
      BY <3>1, <3>2, <3>3, <3>4
  <2> QED
    BY <1>2, <1>3, <2>1, <2>2, HandleBusy
<1>6. CASE HandleInstalled
  <2>1. Arrived.kind = "installed" /\ UNCHANGED installing
    BY <1>6 DEF HandleInstalled, Signal, Arrived
  <2>2. CASE windows' = <<>>
    <3>1. Boxes'["question"] = {} /\ Boxes'["warning"] = {}
      BY <2>2, NoBoxes DEF Boxes
    <3> QED
      BY <3>1 DEF QuestionTop, Above, DownloadAlone
  <2>3. CASE staged # Nothing /\ windows' = Append(windows, Window("warning", staged, Arrived.outcome))
    <3> DEFINE w == Window("warning", staged, Arrived.outcome)
    <3>1. Arrived.outcome \in {"ok", "error", "tampered"}
      BY SignalHandled, Numbers DEF Events
    <3>2. w \in Windows /\ w.kind = "warning"
      BY <3>1 DEF Window, Windows, TypeOK
    <3>3. windows' = Append(windows, w)
      BY <2>3
    <3> HIDE DEF w
    <3>4. /\ Len(windows) \in Nat
          /\ Boxes'["question"] = Boxes["question"] /\ Boxes'["dialog"] = Boxes["dialog"]
          /\ Boxes["dialog"] \subseteq 1..Len(windows)
          /\ Boxes'["warning"] = Boxes["warning"] \cup {Len(windows) + 1}
      BY <3>2, <3>3, PushedBoxes
    <3>5. Boxes["question"] = {}
      <4>1. "install" \notin Idle
        BY <2>1, HandleBusy
      <4>2. installing
        BY <4>1 DEF FlowInv, Flags
      <4> QED
        BY <4>2 DEF QuestionTop
    <3>6. "download" \notin Busy
      <4>1. (\A j \in JobSet : j.kind # "download") /\ (\A e \in EventSet : e.kind # "downloaded")
        BY <2>3 DEF OfferInv, Loading, Fetched
      <4> QED
        BY <4>1, KindNames DEF Busy, Queued, Told, JobSet, EventSet
    <3>7. \A i \in Boxes'["warning"], j \in Boxes'["dialog"] : i < j => i \in Boxes["warning"]
      BY <3>4
    <3> QED
      BY <1>1, <3>4, <3>5, <3>6, <3>7 DEF QuestionTop, Above, DownloadAlone
  <2>4. \/ UNCHANGED windows \/ windows' = <<>>
        \/ staged # Nothing /\ windows' = Append(windows, Window("warning", staged, Arrived.outcome))
    BY <1>6 DEF HandleInstalled
  <2> QED
    BY <1>2, <2>1, <2>2, <2>3, <2>4
<1>7. CASE HandleCheckOver \/ HandleDownloadOver \/ HandleInstallOver
  <2>1. UNCHANGED windows /\ (installing' => installing)
    BY <1>7 DEF HandleCheckOver, HandleDownloadOver, HandleInstallOver, view, Gone
  <2> QED
    BY <1>2, <2>1
<1> QED
  BY <1>4, <1>5, <1>6, <1>7 DEF Handle

LEMMA NextBoxes == ASSUME TypeOK, FlowInv, OfferInv, BoxInv, [Next]_vars PROVE BoxInv'
<1>1. CASE Pool
  <2>1. UNCHANGED <<windows, installing>> /\ Busy' \subseteq Busy
    BY <1>1, PoolMoves, PoolBusy DEF view, workers
  <2> QED
    BY <2>1, SameBoxes DEF BoxInv, QuestionTop, Above, DownloadAlone
<1>2. CASE Release \/ OtherTakes \/ OtherLeaves \/ Exit \/ UNCHANGED vars
  <2>1. UNCHANGED <<windows, installing, jobs, events>>
    BY <1>2, OutsideStays DEF view, workers
  <2>2. Busy' = Busy
    BY <2>1 DEF Busy, Queued, Told
  <2> QED
    BY <2>1, <2>2, SameBoxes DEF BoxInv, QuestionTop, Above, DownloadAlone
<1> QED
  BY <1>1, <1>2, UserBoxes, HandleBoxes DEF Next

-----------------------------------------------------------------------------
(***************************************************************************)
(* Where a helper takes its files from. An update that an installation was   *)
(* asked for is the staged one or older than the release of the window, and  *)
(* a helper's own is discarded by no warning: its hand-over quits the window *)
(* first.                                                                   *)
(***************************************************************************)
Known     == {u \in Updates : u.ver # 0 /\ (u.ver < info \/ u = staged)}
Installed == {j.upd : j \in {x \in JobSet : x.kind = "install"}}
Asked     == {w.upd : w \in {x \in WindowSet : x.kind = "question"}}
Warned    == {w.upd : w \in {x \in WindowSet : x.kind = "warning"}}
Reported  == {e.upd : e \in {x \in EventSet : x.kind = "installed" /\ x.outcome = "ok"}}
InstallPending == "install" \in Busy \/ Boxes["question"] # {}

WantedKnown   == Installed \subseteq Known /\ Asked \subseteq Known /\ Reported \subseteq Known
TookOver      == helpers \subseteq Known /\ (staged \in helpers => staged \in Reported)
WarnedEarly   == Warned \cap helpers \subseteq Reported
BehindWarning == Boxes["warning"] # {} /\ InstallPending => "check" \notin Busy /\ staged # Nothing
Source    == WantedKnown /\ TookOver /\ WarnedEarly /\ BehindWarning
SourceInv == ~undercut /\ ~quit => Source

Verified == \A j \in JobSet : j.kind = "install" /\ j.phase \in {"verified", "planned"} => j.upd \in roots
RootInv  == ~undercut => Verified /\ helpers \subseteq roots

LEMMA InitSource == Init => SourceInv /\ RootInv
<1> SUFFICES ASSUME Init PROVE SourceInv /\ RootInv
  OBVIOUS
<1>1. JobSet = {Check} /\ EventSet = {} /\ WindowSet = {} /\ helpers = {} /\ windows = <<>>
  BY InitFlow DEF Init
<1>2. Boxes["warning"] = {}
  BY <1>1, NoBoxes
<1>3. Installed = {} /\ Asked = {} /\ Warned = {} /\ Reported = {}
  BY <1>1, CheckJob DEF Installed, Asked, Warned, Reported
<1>4. Source
  BY <1>1, <1>2, <1>3 DEF Source, WantedKnown, TookOver, WarnedEarly, BehindWarning
<1>5. Verified
  BY <1>1, CheckJob DEF Verified
<1> QED
  BY <1>1, <1>4, <1>5 DEF SourceInv, RootInv

\* A step that starts no helper and takes no report away.
LEMMA SourceKept ==
  ASSUME Source, Known \subseteq Known', Installed' \cup Asked' \cup Reported' \subseteq Installed \cup Asked \cup Reported \cup Known',
         UNCHANGED helpers, Reported \subseteq Reported', staged' \in helpers => staged' = staged,
         Warned' \subseteq Warned, BehindWarning'
  PROVE  Source'
BY DEF Source, WantedKnown, TookOver, WarnedEarly

\* The parts of Source that follow from jobs, signals and windows that stay.
LEMMA SameParts ==
  /\ JobSet' = JobSet => Installed' = Installed
  /\ EventSet' = EventSet => Reported' = Reported
  /\ WindowSet' \subseteq WindowSet => Asked' \subseteq Asked /\ Warned' \subseteq Warned
  /\ UNCHANGED <<info, staged>> => Known' = Known
<1>1. JobSet' = JobSet => Installed' = Installed
  BY DEF Installed
<1>2. EventSet' = EventSet => Reported' = Reported
  BY DEF Reported
<1>3. WindowSet' \subseteq WindowSet => Asked' \subseteq Asked /\ Warned' \subseteq Warned
  BY DEF Asked, Warned
<1>4. UNCHANGED <<info, staged>> => Known' = Known
  BY DEF Known
<1> QED
  BY <1>1, <1>2, <1>3, <1>4

LEMMA PoolSource == ASSUME TypeOK, FlowInv, SourceInv, Pool PROVE SourceInv'
<1> SUFFICES ASSUME ~undercut', ~quit' PROVE Source'
  BY DEF SourceInv
<1>1. jobs # <<>> /\ UNCHANGED <<books, view, quit, counts>> /\ OnceEach /\ Active.kind \in Kinds
  BY PoolMoves DEF FlowInv
<1>2. Source
  BY <1>1 DEF SourceInv, counts
<1>3. UNCHANGED <<info, staged, windows>>
  BY <1>1 DEF books, view
<1>4. Known' = Known /\ Boxes' = Boxes /\ Asked' = Asked /\ Warned' = Warned
  <2>1. Boxes' = Boxes /\ WindowSet' = WindowSet
    BY <1>3, SameBoxes
  <2> QED
    BY <1>3, <2>1, SameParts DEF Asked, Warned
<1>5. BehindWarning'
  BY <1>2, <1>3, <1>4, PoolBusy DEF Source, BehindWarning, InstallPending
<1>6. ASSUME NEW u, NEW outcome, Ends(u, outcome) PROVE Source'
  <2>1. Active \in JobSet /\ JobSet' \subseteq JobSet /\ EventSet' = EventSet \cup Signals(u, outcome)
    BY <1>1, <1>6, EndOnce DEF Ends
  <2>2. Installed' \subseteq Installed
    BY <2>1 DEF Installed
  <2>3. CASE Active.kind = "install" /\ outcome = "ok"
    <3>1. u = Active.upd /\ helpers' = helpers \cup {u}
      BY <1>6, <2>3 DEF Ends
    <3>2. u \in Installed
      BY <2>1, <2>3, <3>1 DEF Installed
    <3>3. Reported' = Reported \cup {u}
      <4> DEFINE a == Event("installed", Active.id, u, "ok")
                 b == Event("installOver", Active.id, Nothing, "ok")
      <4>1. Signals(u, outcome) = {a, b}
        BY <2>3, KindNames DEF Signals
      <4>2. a.kind = "installed" /\ a.outcome = "ok" /\ a.upd = u /\ b.kind = "installOver"
        BY DEF Event
      <4> HIDE DEF a, b
      <4>3. EventSet' = EventSet \cup {a, b}
        BY <2>1, <4>1
      <4>4. Reported \subseteq Reported' /\ u \in Reported'
        BY <4>2, <4>3 DEF Reported
      <4>5. Reported' \subseteq Reported \cup {u}
        BY <4>2, <4>3 DEF Reported
      <4> QED
        BY <4>4, <4>5
    <3> QED
      BY <1>2, <1>3, <1>4, <1>5, <2>2, <3>1, <3>2, <3>3 DEF Source, WantedKnown, TookOver, WarnedEarly
  <2>4. CASE ~(Active.kind = "install" /\ outcome = "ok")
    <3>1. UNCHANGED helpers
      BY <1>6, <2>4 DEF Ends
    <3>2. \A e \in Signals(u, outcome) : ~(e.kind = "installed" /\ e.outcome = "ok")
      BY <1>1, <2>4, KindNames DEF Signals, Event
    <3>3. Reported' = Reported
      BY <2>1, <3>2 DEF Reported
    <3> QED
      BY <1>2, <1>3, <1>4, <1>5, <2>2, <3>1, <3>3 DEF Source, WantedKnown, TookOver, WarnedEarly
  <2> QED
    BY <2>3, <2>4
<1>7. ASSUME NEW p, NEW t, Goes(p, t) PROVE Source'
  <2> DEFINE j == [Active EXCEPT !.phase = p, !.upd.txn = t]
  <2>1. Active \in JobSet /\ JobSet' \subseteq JobSet \cup {j} /\ EventSet' = EventSet /\ UNCHANGED helpers
    BY <1>1, <1>7, GoesOnce DEF Goes
  <2>2. j.kind = Active.kind /\ (Active.kind = "install" => j.upd = Active.upd)
    BY <1>1, <1>7, ActiveType DEF Goes, Jobs, Updates
  <2> HIDE DEF j
  <2>3. Installed' \subseteq Installed
    BY <2>1, <2>2 DEF Installed
  <2>4. Reported' = Reported
    BY <2>1 DEF Reported
  <2> QED
    BY <1>2, <1>3, <1>4, <1>5, <2>1, <2>3, <2>4 DEF Source, WantedKnown, TookOver, WarnedEarly
<1> QED
  BY <1>6, <1>7, PoolMoves

LEMMA PoolRoots == ASSUME TypeOK, FlowInv, RootInv, Pool PROVE RootInv'
<1> SUFFICES ASSUME ~undercut' PROVE Verified' /\ helpers' \subseteq roots'
  BY DEF RootInv
<1>1. jobs # <<>> /\ UNCHANGED counts /\ roots \subseteq roots' /\ OnceEach
  BY PoolMoves DEF FlowInv
<1>2. Verified /\ helpers \subseteq roots
  BY <1>1 DEF RootInv, counts
<1>3. ASSUME NEW u, NEW outcome, Ends(u, outcome) PROVE Verified' /\ helpers' \subseteq roots'
  <2>1. Active \in JobSet /\ JobSet' \subseteq JobSet
    BY <1>1, <1>3, EndOnce DEF Ends
  <2>2. Verified'
    BY <1>1, <1>2, <2>1 DEF Verified
  <2>3. CASE Active.kind = "install" /\ outcome = "ok"
    <3>1. u = Active.upd /\ Active.phase = "planned" /\ helpers' = helpers \cup {u}
      BY <1>3, <2>3 DEF Ends
    <3> QED
      BY <1>1, <1>2, <2>1, <2>2, <2>3, <3>1 DEF Verified
  <2>4. CASE ~(Active.kind = "install" /\ outcome = "ok")
    BY <1>1, <1>2, <1>3, <2>2, <2>4 DEF Ends
  <2> QED
    BY <2>3, <2>4
<1>4. ASSUME NEW p, NEW t, Goes(p, t) PROVE Verified' /\ helpers' \subseteq roots'
  <2> DEFINE j == [Active EXCEPT !.phase = p, !.upd.txn = t]
  <2>1. Active \in JobSet /\ JobSet' \subseteq JobSet \cup {j} /\ UNCHANGED <<roots, helpers>>
    BY <1>1, <1>4, GoesOnce DEF Goes
  <2>2. j.kind = Active.kind /\ j.phase = p /\ (Active.kind = "install" => j.upd = Active.upd)
    BY <1>1, <1>4, ActiveType DEF Goes, Jobs, Updates
  <2> HIDE DEF j
  <2>3. Active.kind = "install" /\ p \in {"verified", "planned"} => Active.upd \in roots
    BY <1>2, <1>4, <2>1 DEF Goes, Verified
  <2>4. Verified'
    BY <1>2, <2>1, <2>2, <2>3 DEF Verified
  <2> QED
    BY <1>2, <2>1, <2>4
<1> QED
  BY <1>3, <1>4, PoolMoves

\* The user's steps but the end of a warning: what is staged stays.
LEMMA UserSource ==
  ASSUME TypeOK, FlowInv, OfferInv, BoxInv, SourceInv, User, ~DismissWarning
  PROVE  SourceInv'
<1> SUFFICES ASSUME ~undercut', ~quit' PROVE Source'
  BY DEF SourceInv
<1>1. UNCHANGED <<info, staged, helpers, undercut, roots>> /\ EventSet' = EventSet
  BY UserBusy DEF User, AskCheck, OpenDialog, CloseDialog, Skip, StartDownload, AskInstall, AnswerNo, AnswerYes,
     Close, books, counts
<1>2. ~quit
  BY DEF User, AskCheck, OpenDialog, CloseDialog, Skip, StartDownload, AskInstall, AnswerNo, AnswerYes, Close, Free, Top
<1>3. Source /\ Known' = Known /\ Reported' = Reported
  BY <1>1, <1>2, SameParts DEF SourceInv
<1>4. ASSUME Installed' \cup Asked' \subseteq Installed \cup Asked \cup Known, Warned' \subseteq Warned, BehindWarning'
      PROVE  Source'
  BY <1>1, <1>3, <1>4, SourceKept
<1>5. CASE AskCheck \/ OpenDialog
  <2>1. windows = <<>> /\ (windows' = windows \/ windows' = Show(windows))
    BY <1>5 DEF AskCheck, OpenDialog, ShowDialog, Free
  <2>2. Boxes'["warning"] = {} /\ \A w \in WindowSet' : w.kind = "dialog"
    BY <2>1, NoBoxes, SameBoxes, ShownBoxes
  <2>3. Asked' = {} /\ Warned' = {}
    BY <2>2 DEF Asked, Warned
  <2>4. JobSet' \subseteq JobSet \cup {Check}
    <3>1. CASE AskCheck
      BY <3>1, UserBusy
    <3>2. CASE OpenDialog
      BY <3>2 DEF OpenDialog, JobSet
    <3> QED
      BY <1>5, <3>1, <3>2
  <2>5. Installed' \subseteq Installed
    BY <2>4, CheckJob DEF Installed
  <2> QED
    BY <1>4, <2>2, <2>3, <2>5 DEF BehindWarning
<1>6. ASSUME NEW kind \in {"dialog", "question"}, Top(kind), windows' = Popped,
             Installed' \subseteq Installed \cup Known, "check" \in Busy' => "check" \in Busy,
             InstallPending' => InstallPending
      PROVE  Source'
  <2>1. /\ Boxes'["warning"] \subseteq Boxes["warning"] /\ WindowSet' \subseteq WindowSet
    BY <1>6, PoppedBoxes
  <2>2. Asked' \subseteq Asked /\ Warned' \subseteq Warned
    BY <2>1, SameParts
  <2>3. BehindWarning'
    BY <1>1, <1>3, <1>6, <2>1 DEF Source, BehindWarning
  <2> QED
    BY <1>4, <1>6, <2>2, <2>3
<1>7. CASE CloseDialog \/ Skip \/ AnswerNo
  <2>1. (\E kind \in {"dialog", "question"} : Top(kind) /\ windows' = Popped) /\ UNCHANGED <<jobs, events>>
    BY <1>7 DEF CloseDialog, Skip, AnswerNo
  <2>2. Busy' = Busy /\ Installed' = Installed
    BY <2>1 DEF Busy, Queued, Told, Installed, JobSet
  <2>3. InstallPending' => InstallPending
    BY <2>1, <2>2, PoppedBoxes DEF InstallPending
  <2> QED
    BY <1>6, <2>1, <2>2, <2>3
<1>8. CASE AnswerYes
  <2>1. Top("question") /\ windows' = Popped
    BY <1>8 DEF AnswerYes
  <2>2. InstallPending
    BY <2>1, PoppedBoxes DEF InstallPending
  <2>3. windows[Len(windows)] \in WindowSet /\ windows[Len(windows)].kind = "question"
    BY <2>1, PoppedBoxes DEF Top
  <2>4. TopUpdate \in Known
    <3>1. TopUpdate \in Asked
      BY <2>3 DEF Asked, TopUpdate
    <3> QED
      BY <1>3, <3>1 DEF Source, WantedKnown
  <2>5. Busy' \subseteq Busy \cup {"install"} /\ JobSet' \subseteq JobSet \cup {Job("install", 0, TopUpdate, "queued")}
    BY <1>8, UserBusy
  <2>6. Installed' \subseteq Installed \cup Known
    BY <2>4, <2>5 DEF Installed, Job
  <2> QED
    BY <1>6, <2>1, <2>2, <2>5, <2>6
<1>9. CASE StartDownload
  <2>1. UNCHANGED windows
    BY <1>9 DEF StartDownload
  <2>2. Boxes' = Boxes /\ WindowSet' = WindowSet
    BY <2>1, SameBoxes
  <2>3. Busy' \subseteq Busy \cup {"download"} /\ \A j \in JobSet' : j.kind = "install" => j \in JobSet
    BY <1>9, UserBusy
  <2>4. Installed' \subseteq Installed /\ Asked' \subseteq Asked /\ Warned' \subseteq Warned
    BY <2>2, <2>3, SameParts DEF Installed
  <2>5. BehindWarning'
    BY <1>1, <1>3, <2>2, <2>3 DEF Source, BehindWarning, InstallPending
  <2> QED
    BY <1>4, <2>4, <2>5
<1>10. CASE AskInstall
  <2>1. UNCHANGED <<jobs, events>>
    BY <1>10 DEF AskInstall
  <2>2. Busy' = Busy /\ Installed' = Installed
    BY <2>1 DEF Busy, Queued, Told, Installed, JobSet
  <2>3. CASE UNCHANGED windows
    <3>1. Boxes' = Boxes /\ WindowSet' = WindowSet
      BY <2>3, SameBoxes
    <3>2. Asked' \subseteq Asked /\ Warned' \subseteq Warned
      BY <3>1, SameParts
    <3>3. BehindWarning'
      BY <1>1, <1>3, <2>2, <3>1 DEF Source, BehindWarning, InstallPending
    <3> QED
      BY <1>4, <2>2, <3>2, <3>3
  <2>4. CASE staged # Nothing /\ windows' = Append(windows, Window("question", staged, "ok"))
    <3> DEFINE w == Window("question", staged, "ok")
    <3>1. w \in Windows /\ w.kind = "question" /\ w.upd = staged /\ staged \in Updates
      BY DEF Window, Windows, TypeOK
    <3>2. windows' = Append(windows, w)
      BY <2>4
    <3> HIDE DEF w
    <3>3. Boxes'["warning"] = Boxes["warning"] /\ WindowSet' = WindowSet \cup {w}
      BY <3>1, <3>2, PushedBoxes
    <3>4. staged \in Known
      BY <2>4, <3>1 DEF OfferInv, Offered, Known
    <3>5. Asked' \subseteq Asked \cup Known /\ Warned' \subseteq Warned
      BY <3>1, <3>3, <3>4 DEF Asked, Warned
    <3>6. Boxes["warning"] # {} => "check" \notin Busy
      <4>1. windows \in Seq(Windows) /\ windows # <<>> /\ windows[Len(windows)].kind = "dialog"
        BY <1>10 DEF TypeOK, AskInstall, Top
      <4>2. Len(windows) \in Nat \ {0} /\ DOMAIN windows = 1..Len(windows)
        BY <4>1, LenProperties, EmptySeq
      <4>3. Len(windows) \in Boxes["dialog"] /\ \A i \in Boxes["warning"] : i < Len(windows)
        BY <4>1, <4>2 DEF Boxes
      <4> QED
        BY <4>3 DEF BoxInv, Above
    <3>7. BehindWarning'
      BY <1>1, <2>2, <2>4, <3>3, <3>6 DEF BehindWarning
    <3> QED
      BY <1>4, <2>2, <3>5, <3>7
  <2> QED
    BY <1>10, <2>3, <2>4 DEF AskInstall
<1>11. CASE Close
  BY <1>11 DEF Close
<1> QED
  BY <1>5, <1>7, <1>8, <1>9, <1>10, <1>11 DEF User

\* The end of a warning: what it discards nothing installs and no helper uses.
LEMMA DismissSource ==
  ASSUME TypeOK, FlowInv, BoxInv, SourceInv, RootInv, DismissWarning
  PROVE  SourceInv' /\ RootInv'
<1>1. /\ Top("warning") /\ windows' = Popped /\ ~quit
      /\ UNCHANGED <<info, jobs, events, helpers, quit>>
  BY DEF DismissWarning, Top
<1>2. /\ Len(windows) \in Boxes["warning"] /\ Boxes'["question"] \subseteq Boxes["question"]
      /\ Boxes'["warning"] \subseteq Boxes["warning"] /\ WindowSet' \subseteq WindowSet
      /\ Len(windows) \notin Boxes["question"] /\ windows[Len(windows)] \in WindowSet
  BY <1>1, PoppedBoxes
<1>3. Boxes["question"] = {} /\ Boxes'["question"] = {}
  BY <1>2 DEF BoxInv, QuestionTop
<1>4. JobSet' = JobSet /\ EventSet' = EventSet /\ Busy' = Busy
  BY <1>1 DEF JobSet, EventSet, Busy, Queued, Told
<1>5. Installed' = Installed /\ Reported' = Reported /\ Asked' \subseteq Asked /\ Warned' \subseteq Warned
  BY <1>2, <1>4, SameParts
<1>6. CASE windows[Len(windows)].outcome = "tampered"
  <2>1. /\ roots' = roots \ {TopUpdate} /\ staged' = Nothing
        /\ undercut' = (undercut \/ Pending)
    BY <1>6 DEF DismissWarning, Discarded, Forget
  <2> SUFFICES ASSUME ~undercut' PROVE Source' /\ Verified' /\ helpers' \subseteq roots'
    BY DEF SourceInv, RootInv
  <2>2. ~Pending /\ ~undercut
    BY <2>1
  <2>3. Source /\ Verified /\ helpers \subseteq roots
    BY <1>1, <2>2 DEF SourceInv, RootInv
  <2>4. (\A j \in JobSet : j.kind = "check") /\ (\A e \in EventSet : e.kind # "installed")
    BY <2>2 DEF Pending, JobSet, EventSet
  <2>5. Installed = {} /\ Reported = {} /\ "install" \notin Busy
    <3>1. Installed = {} /\ Reported = {}
      BY <2>4 DEF Installed, Reported
    <3>2. "install" \notin Busy
      BY <2>4, KindNames DEF Busy, Queued, Told, JobSet, EventSet
    <3> QED
      BY <3>1, <3>2
  <2>6. Asked = {}
    BY <1>3 DEF Asked, WindowSet, Boxes
  <2>7. staged \notin helpers /\ TopUpdate \notin helpers
    <3>1. TopUpdate \in Warned
      BY <1>1, <1>2 DEF Warned, TopUpdate, Top
    <3> QED
      BY <2>3, <2>5, <3>1 DEF Source, TookOver, WarnedEarly
  <2>8. helpers \subseteq Known' /\ Nothing \notin helpers
    BY <1>1, <2>1, <2>3, <2>7 DEF Source, TookOver, Known, Nothing
  <2>9. Source'
    BY <1>1, <1>3, <1>4, <1>5, <2>1, <2>3, <2>5, <2>6, <2>8
       DEF Source, WantedKnown, TookOver, WarnedEarly, BehindWarning, InstallPending
  <2>10. Verified'
    BY <1>4, <2>4 DEF Verified
  <2> QED
    BY <1>1, <2>1, <2>3, <2>7, <2>9, <2>10
<1>7. CASE windows[Len(windows)].outcome # "tampered"
  <2>1. UNCHANGED <<roots, staged, undercut>>
    BY <1>7 DEF DismissWarning
  <2>2. RootInv'
    BY <1>1, <1>4, <2>1 DEF RootInv, Verified
  <2>3. Known' = Known
    BY <1>1, <2>1, SameParts
  <2>4. ASSUME ~undercut PROVE Source'
    <3>1. Source
      BY <1>1, <2>4 DEF SourceInv
    <3>2. BehindWarning'
      BY <1>2, <1>3, <1>4, <2>1, <3>1 DEF Source, BehindWarning, InstallPending
    <3> QED
      BY <1>1, <1>5, <2>1, <2>3, <3>1, <3>2, SourceKept
  <2> QED
    BY <2>1, <2>2, <2>4 DEF SourceInv
<1> QED
  BY <1>6, <1>7

\* A signal: a hand-over that is reported while its update is staged quits.
LEMMA HandleSource ==
  ASSUME TypeOK, FlowInv, OfferInv, BoxInv, SourceInv, Handle
  PROVE  SourceInv'
<1> SUFFICES ASSUME ~undercut', ~quit' PROVE Source'
  BY DEF SourceInv
<1>1. /\ UNCHANGED <<helpers, undercut, counts>> /\ ~quit /\ JobSet' = JobSet /\ EventSet' \subseteq EventSet
      /\ EventSet \subseteq EventSet' \cup {Arrived} /\ Arrived \in EventSet
  BY SignalHandled, HandleBusy DEF counts
<1>2. Source /\ Installed' = Installed /\ Reported' \subseteq Reported /\ Busy' \subseteq Busy
  BY <1>1, HandleBusy DEF SourceInv, Installed, Reported
<1>3. ~(Arrived.kind = "installed" /\ Arrived.outcome = "ok") => Reported' = Reported
  BY <1>1 DEF Reported
<1>4. ASSUME Known \subseteq Known', Asked' \subseteq Asked, Warned' \subseteq Warned, Reported \subseteq Reported',
             staged' \in helpers => staged' = staged, BehindWarning'
      PROVE  Source'
  BY <1>1, <1>2, <1>4, SourceKept
<1>5. CASE HandleChecked
  <2>1. Arrived.kind = "checked" /\ Reported' = Reported
    BY <1>3, <1>5 DEF HandleChecked, Signal, Arrived
  <2>2. /\ windows' = windows \/ windows' = Show(windows)
        /\ \/ UNCHANGED <<info, staged>>
           \/ /\ Arrived.outcome = "ok" /\ info' = Arrived.upd.ver
              /\ staged' = staged \/ (staged' = Nothing /\ staged.ver # Arrived.upd.ver)
    <3>1. Arrived.outcome \in {"ok", "error"}
      BY <1>1, <2>1, Numbers DEF Events, OfferInv, Fresh
    <3>2. CASE Arrived.outcome = "error"
      BY <1>5, <3>2 DEF HandleChecked, view
    <3>3. CASE Arrived.outcome = "ok" /\ Arrived.upd.ver = 0
      BY <1>5, <3>3 DEF HandleChecked
    <3>4. CASE Arrived.outcome = "ok" /\ Arrived.upd.ver # 0 /\ operation # 0
      BY <1>5, <3>4 DEF HandleChecked, view
    <3>5. CASE Arrived.outcome = "ok" /\ Arrived.upd.ver # 0 /\ operation = 0
      <4>1. info' = Arrived.upd.ver /\ staged' = IF Outdated(Arrived.upd.ver) THEN Nothing ELSE staged
        BY <1>5, <3>5 DEF HandleChecked
      <4>2. windows' = windows \/ windows' = Show(windows)
        BY <1>5, <3>5 DEF HandleChecked, ShowDialog
      <4> QED
        BY <3>5, <4>1, <4>2 DEF Outdated
    <3> QED
      BY <3>1, <3>2, <3>3, <3>4, <3>5
  <2>3. Arrived.outcome = "ok" => info <= Arrived.upd.ver /\ info \in Nat /\ Arrived.upd.ver \in Nat
    BY <1>1, <2>1, Numbers DEF OfferInv, Fresh
  <2>4. Known \subseteq Known'
    <3> SUFFICES ASSUME NEW u \in Known PROVE u \in Known'
      OBVIOUS
    <3>1. u \in Updates /\ u.ver \in Nat /\ u.ver # 0 /\ (u.ver < info \/ u = staged)
      BY UpdateAssumption DEF Known, Updates, Versions
    <3>2. u = staged => staged # Nothing /\ u.ver = info
      BY <3>1 DEF Nothing, OfferInv, Offered
    <3>3. u.ver < info' \/ u = staged'
      <4>1. CASE UNCHANGED <<info, staged>>
        BY <3>1, <4>1
      <4>2. CASE Arrived.outcome = "ok" /\ info' = Arrived.upd.ver /\ u.ver < info
        BY <2>3, <3>1, <4>2
      <4>3. CASE Arrived.outcome = "ok" /\ info' = Arrived.upd.ver /\ u = staged /\ u.ver # Arrived.upd.ver
        BY <2>3, <3>1, <3>2, <4>3
      <4>4. CASE u = staged /\ staged' = staged
        BY <4>4
      <4> QED
        BY <2>2, <3>1, <4>1, <4>2, <4>3, <4>4
    <3> QED
      BY <3>1, <3>3 DEF Known
  <2>5. staged' = staged \/ staged' = Nothing
    BY <2>2
  <2>6. Nothing \notin helpers
    BY <1>2 DEF Source, TookOver, Known, Nothing
  <2>7. /\ Boxes'["question"] = Boxes["question"] /\ Boxes'["warning"] = Boxes["warning"]
        /\ \A w \in WindowSet' : w.kind # "dialog" => w \in WindowSet
    BY <2>2, SameBoxes, ShownBoxes
  <2>8. Asked' \subseteq Asked /\ Warned' \subseteq Warned
    BY <2>7 DEF Asked, Warned
  <2>9. BehindWarning'
    <3>1. "check" \in Busy
      BY <2>1, HandleBusy
    <3> QED
      BY <1>2, <2>7, <3>1 DEF Source, BehindWarning, InstallPending
  <2> QED
    BY <1>4, <2>1, <2>4, <2>5, <2>6, <2>8, <2>9
<1>6. CASE HandleDownloaded
  <2>1. Arrived.kind = "downloaded" /\ Reported' = Reported /\ UNCHANGED info
    BY <1>3, <1>6 DEF HandleDownloaded, Signal, Arrived
  <2>2. /\ windows' = windows \/ windows' = Show(windows)
        /\ staged' = staged \/ staged' = Arrived.upd
    <3>1. CASE Arrived.id # operation
      BY <1>6, <3>1 DEF HandleDownloaded, view
    <3>2. CASE Arrived.id = operation /\ Arrived.outcome = "error"
      BY <1>6, <3>2 DEF HandleDownloaded
    <3>3. CASE Arrived.id = operation /\ Arrived.outcome = "ok" /\ Arrived.upd.ver # identity
      BY <1>6, <3>3 DEF HandleDownloaded
    <3>4. CASE Arrived.id = operation /\ Arrived.outcome # "error" /\ ~(Arrived.outcome = "ok" /\ Arrived.upd.ver # identity)
      BY <1>6, <3>4 DEF HandleDownloaded
    <3> QED
      BY <3>1, <3>2, <3>3, <3>4
  <2>3. staged = Nothing /\ Arrived.outcome # "tampered" /\ (Arrived.outcome = "ok" => Arrived.upd.ver = info)
    BY <1>1, <2>1 DEF OfferInv, Loading, Fetched
  <2>4. Nothing \notin Known
    BY DEF Known, Nothing
  <2>5. Known \subseteq Known'
    BY <2>1, <2>3, <2>4 DEF Known
  <2>6. staged' \in helpers => staged' = staged
    <3> SUFFICES ASSUME staged' \in helpers, staged' # Nothing PROVE FALSE
      BY <2>3
    <3>1. Arrived.id = operation /\ Arrived.outcome # "error"
      BY <1>6, <2>3 DEF HandleDownloaded
    <3>2. staged'.ver = info
      <4>1. Arrived.outcome = "ok"
        BY <1>1, <2>3, <3>1, Numbers DEF Events
      <4> QED
        BY <2>2, <2>3, <4>1
    <3>3. staged' \in Known
      BY <1>2 DEF Source, TookOver
    <3>4. staged'.ver < info /\ info \in Nat
      BY <2>3, <3>3, Numbers DEF Known
    <3> QED
      BY <3>2, <3>4
  <2>7. /\ Boxes'["question"] = Boxes["question"] /\ Boxes'["warning"] = Boxes["warning"]
        /\ \A w \in WindowSet' : w.kind # "dialog" => w \in WindowSet
    BY <2>2, SameBoxes, ShownBoxes
  <2>8. Asked' \subseteq Asked /\ Warned' \subseteq Warned
    BY <2>7 DEF Asked, Warned
  <2>9. BehindWarning'
    BY <1>2, <2>3, <2>7 DEF Source, BehindWarning, InstallPending
  <2> QED
    BY <1>4, <2>1, <2>5, <2>6, <2>8, <2>9
<1>7. CASE HandleInstalled
  <2>1. /\ Arrived.kind = "installed" /\ UNCHANGED <<info, staged>>
        /\ "install" \in Busy /\ "install" \notin Busy' /\ "install" \notin Idle
    BY <1>7, HandleBusy DEF HandleInstalled, Signal, Arrived, books
  <2>2. Known' = Known
    BY <2>1, SameParts
  <2>3. Boxes["question"] = {}
    BY <2>1 DEF BoxInv, QuestionTop, FlowInv, Flags
  <2>4. CASE staged = Nothing
    <3>1. UNCHANGED windows
      BY <1>7, <2>4 DEF HandleInstalled
    <3>2. Boxes' = Boxes /\ WindowSet' = WindowSet
      BY <3>1, SameBoxes
    <3>3. Asked' \subseteq Asked /\ Warned' \subseteq Warned
      BY <3>2, SameParts
    <3>4. Boxes["warning"] = {}
      BY <1>2, <2>1, <2>4 DEF Source, BehindWarning, InstallPending
    <3>5. Warned = {}
      BY <3>4 DEF Warned, WindowSet, Boxes
    <3>6. staged' \notin helpers
      BY <1>2, <2>1, <2>4 DEF Source, TookOver, Known, Nothing
    <3> QED
      BY <1>1, <1>2, <2>2, <3>2, <3>3, <3>4, <3>5, <3>6
         DEF Source, WantedKnown, TookOver, WarnedEarly, BehindWarning
  <2>5. CASE staged # Nothing /\ Arrived.outcome = "ok"
    BY <1>7, <2>5 DEF HandleInstalled
  <2>6. CASE staged # Nothing /\ Arrived.outcome # "ok"
    <3> DEFINE w == Window("warning", staged, Arrived.outcome)
    <3>1. w \in Windows /\ w.kind = "warning" /\ w.upd = staged
      <4>1. Arrived.outcome \in {"ok", "error", "tampered"}
        BY <1>1, Numbers DEF Events
      <4> QED
        BY <4>1 DEF Window, Windows, TypeOK
    <3>2. windows' = Append(windows, w)
      BY <1>7, <2>6 DEF HandleInstalled
    <3> HIDE DEF w
    <3>3. Boxes'["question"] = {} /\ WindowSet' = WindowSet \cup {w}
      BY <2>3, <3>1, <3>2, PushedBoxes
    <3>4. Asked' \subseteq Asked /\ Warned' \subseteq Warned \cup {staged}
      BY <3>1, <3>3 DEF Asked, Warned
    <3>5. Reported' = Reported
      BY <1>3, <2>6
    <3>6. BehindWarning'
      BY <2>1, <3>3 DEF BehindWarning, InstallPending
    <3> QED
      BY <1>1, <1>2, <2>1, <2>2, <3>4, <3>5, <3>6 DEF Source, WantedKnown, TookOver, WarnedEarly
  <2> QED
    BY <2>4, <2>5, <2>6
<1>8. CASE HandleCheckOver \/ HandleDownloadOver \/ HandleInstallOver
  <2>1. UNCHANGED <<info, staged, windows>> /\ Arrived.kind \in {"checkOver", "downloadOver", "installOver"}
    BY <1>8 DEF HandleCheckOver, HandleDownloadOver, HandleInstallOver, books, view, Signal, Arrived
  <2>2. Boxes' = Boxes /\ WindowSet' = WindowSet /\ Reported' = Reported /\ Known' = Known
    BY <1>3, <2>1, SameBoxes, SameParts
  <2>3. Asked' \subseteq Asked /\ Warned' \subseteq Warned
    BY <2>2, SameParts
  <2>4. BehindWarning'
    BY <1>2, <2>1, <2>2 DEF Source, BehindWarning, InstallPending
  <2> QED
    BY <1>4, <2>1, <2>2, <2>3, <2>4
<1> QED
  BY <1>5, <1>6, <1>7, <1>8 DEF Handle

\* Nothing else touches the directories.
LEMMA OtherRoots ==
  ASSUME TypeOK, FlowInv, RootInv, (User /\ ~DismissWarning) \/ Handle
  PROVE  RootInv'
<1>1. UNCHANGED <<roots, helpers, undercut>>
  <2>1. CASE Handle
    BY <2>1, SignalHandled DEF counts
  <2>2. CASE User /\ ~DismissWarning
    BY <2>2 DEF User, AskCheck, OpenDialog, CloseDialog, Skip, StartDownload, AskInstall, AnswerNo, AnswerYes, Close,
       counts
  <2> QED
    BY <2>1, <2>2
<1>2. \A j \in JobSet' : j.kind = "install" /\ j.phase # "queued" => j \in JobSet
  <2>1. CASE Handle
    BY <2>1, SignalHandled
  <2>2. CASE User
    BY <2>2, UserBusy, CheckJob DEF Job
  <2> QED
    BY <2>1, <2>2
<1> QED
  BY <1>1, <1>2 DEF RootInv, Verified

UpdateInv == FlowAndOffer /\ BoxInv /\ SourceInv /\ RootInv

LEMMA NextSource == UpdateInv /\ [Next]_vars => SourceInv' /\ RootInv'
<1> SUFFICES ASSUME UpdateInv, [Next]_vars PROVE SourceInv' /\ RootInv'
  OBVIOUS
<1> USE DEF UpdateInv, FlowAndOffer
<1>1. CASE Release \/ OtherTakes \/ OtherLeaves \/ Exit \/ UNCHANGED vars
  <2>1. UNCHANGED <<info, staged, windows, jobs, events, roots, helpers, quit, undercut>>
    BY <1>1, OutsideStays DEF books, view, counts
  <2>2. /\ Boxes' = Boxes /\ WindowSet' = WindowSet /\ JobSet' = JobSet /\ EventSet' = EventSet
        /\ Busy' = Busy
    BY <2>1, SameBoxes DEF JobSet, EventSet, Busy, Queued, Told
  <2>3. Installed' = Installed /\ Reported' = Reported /\ Known' = Known /\ Asked' = Asked /\ Warned' = Warned
    BY <2>1, <2>2, SameParts DEF Asked, Warned
  <2>4. SourceInv'
    BY <2>1, <2>2, <2>3 DEF SourceInv, Source, WantedKnown, TookOver, WarnedEarly, BehindWarning, InstallPending
  <2>5. RootInv'
    BY <2>1, <2>2 DEF RootInv, Verified
  <2> QED
    BY <2>4, <2>5
<1>2. CASE Pool
  BY <1>2, PoolSource, PoolRoots
<1>3. CASE Handle
  BY <1>3, HandleSource, OtherRoots
<1>4. CASE DismissWarning
  BY <1>4, DismissSource
<1>5. CASE User /\ ~DismissWarning
  BY <1>5, UserSource, OtherRoots
<1> QED
  BY <1>1, <1>2, <1>3, <1>4, <1>5 DEF Next

(***************************************************************************)
(* The files of a helper that took over are there, whatever the user answers *)
(* and however the signals come, as long as no staged update was discarded   *)
(* while a worker was busy with one.                                        *)
(***************************************************************************)
THEOREM SourceHolds == Spec => []HelperHasSource
<1>1. Init => UpdateInv
  BY InitType, InitFlow, InitOffer, InitBoxes, InitSource DEF UpdateInv, FlowAndOffer
<1>2. UpdateInv /\ [Next]_vars => UpdateInv'
  BY NextFlowAndOffer, NextBoxes, NextSource DEF UpdateInv, FlowAndOffer
<1>3. UpdateInv => HelperHasSource
  BY DEF UpdateInv, RootInv, HelperHasSource
<1> QED
  BY <1>1, <1>2, <1>3, PTL DEF Spec
=============================================================================
