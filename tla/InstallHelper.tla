--------------------------- MODULE InstallHelper ---------------------------
(***************************************************************************)
(* The external install helpers of update_service.py (a zsh script on       *)
(* macOS, a PowerShell script on Windows): they wait for the running        *)
(* program to quit, swap the program at TargetPath for the staged release   *)
(* and keep or undo the swap after watching the new version start.  A       *)
(* helper is named after the release it installs.  The update lock of the   *)
(* process is re-entrant and a launched helper can be forgotten by the      *)
(* main window, so several helpers may wait for the same process to quit.   *)
(***************************************************************************)
EXTENDS Naturals, FiniteSets

CONSTANTS Helpers,    \* the releases, each with its helper
          Platforms,  \* subset of {"macos", "windows"}
          Faults      \* pairs <<platform, operation>> that may fail although
                      \* the script goes on: "result" a result cannot be
                      \* written, "rollback" a path cannot be removed or moved

ASSUME HelperAssumption ==
  /\ Platforms \subseteq {"macos", "windows"}
  /\ Faults \subseteq Platforms \X {"result", "rollback"}
  /\ Helpers \cap {"old", "none", "wreck", "free"} = {}

VARIABLES
  platform,  \* the script that runs, fixed
  parent,    \* the process ParentPid runs
  target,    \* what lies at TargetPath
  backup,    \* what lies at a helper's BackupPath
  incoming,  \* what lies at a helper's IncomingPath
  lock,      \* holder of the helper lock: a directory on macOS, a file on Windows
  pc,        \* where a helper is
  moved,     \* OriginalMoved
  child,     \* the process a helper has started the new version in
  result,    \* ResultPath: what was written there last, and by whom
  opened,    \* the program a helper has started for the user to go on with and
             \* not seen to end, "none" without one
  proven,    \* versions seen to start
  found      \* what lay at TargetPath when a helper got the lock (proven is no
             \* variable of the scripts, found is $HadOriginal on Windows)

files == <<target, backup, incoming>>
notes == <<proven, found>>
vars  == <<platform, parent, files, lock, pc, moved, child, result, opened, notes>>

Versions == Helpers \cup {"old"}
Contents == Versions \cup {"none", "wreck"}  \* wreck: part of a program
Outcomes == {"none", "success", "parent_exit_timeout", "transaction_lock_failed",
             "failed_and_rolled_back", "failed_rollback_incomplete"}
Inside   == {"verify", "staged", "away", "switched", "probing", "settling", "cleanup",
             "failing", "removing", "restoring", "reporting", "reopening", "releasing", "giving up"}
Places   == Inside \cup {"idle", "waiting", "late", "exiting", "done", "crashed"}
NoResult == [what |-> "none", by |-> "none"]

MayFail(op) == <<platform, op>> \in Faults
Alive(h)    == child[h] \in {"starting", "healthy"}
HadOriginal(h) == found[h] # "none"

\* Windows refuses to remove or rename a directory a program runs from.
Pinned == platform = "windows" /\ \E h \in Helpers : Alive(h) /\ target = h

TypeOK ==
  /\ platform \in Platforms /\ parent \in BOOLEAN
  /\ target \in Contents
  /\ backup \in [Helpers -> Contents] /\ incoming \in [Helpers -> Contents]
  /\ lock \in Helpers \cup {"free"}
  /\ pc \in [Helpers -> Places]
  /\ moved \in [Helpers -> BOOLEAN]
  /\ child \in [Helpers -> {"none", "starting", "healthy", "gone"}]
  /\ result \in [what : Outcomes, by : Helpers \cup {"none"}]
  /\ opened \in [Helpers -> Contents] /\ proven \subseteq Versions
  /\ found \in [Helpers -> Contents]

Init ==
  /\ platform \in Platforms /\ parent = TRUE
  /\ target = "old"
  /\ backup = [h \in Helpers |-> "none"] /\ incoming = [h \in Helpers |-> "none"]
  /\ lock = "free"
  /\ pc = [h \in Helpers |-> "idle"]
  /\ moved = [h \in Helpers |-> FALSE]
  /\ child = [h \in Helpers |-> "none"]
  /\ result = NoResult
  /\ opened = [h \in Helpers |-> "none"] /\ proven = {"old"}
  /\ found = [h \in Helpers |-> "none"]

Goto(h, place) == pc' = [pc EXCEPT ![h] = place]

\* A result is written, or the script goes on without it.
Write(h, what) ==
  \/ result' = [what |-> what, by |-> h]
  \/ MayFail("result") /\ UNCHANGED result

\* The program at TargetPath is started if its executable is there.
ReopenForgotten(h) == UNCHANGED opened                    \* slip: no restart
Reopen(h) ==
  \/ target # "none" /\ opened' = [opened EXCEPT ![h] = target]
  \/ target \notin Versions /\ UNCHANGED opened

\* The new version has ended or is stopped.
Drop(h) == opened' = [opened EXCEPT ![h] = "none"]

-----------------------------------------------------------------------------
(* Launch, the wait for the parent and the lock *)

\* create_installer_plan removes an old result, launch_installer starts the
\* helper and reads back its ready token.
LaunchHelper(h) ==
  /\ parent /\ pc[h] = "idle"
  /\ Goto(h, "waiting")
  /\ result' = NoResult
  /\ UNCHANGED <<platform, parent, files, lock, moved, child, opened, notes>>

ParentQuits ==
  /\ parent
  /\ parent' = FALSE
  /\ UNCHANGED <<platform, files, lock, pc, moved, child, result, opened, notes>>

\* 120 seconds are over and the parent still runs.  When PowerShell cannot write
\* that, the catch clause meant for a vanished parent lets the script go on.
GiveUpWaiting(h) ==
  /\ pc[h] = "waiting" /\ parent
  /\ \/ /\ result' = [what |-> "parent_exit_timeout", by |-> h]
        /\ Goto(h, "done")
     \/ /\ MayFail("result")
        /\ Goto(h, IF platform = "windows" THEN "late" ELSE "done")
        /\ UNCHANGED result
  /\ UNCHANGED <<platform, parent, files, lock, moved, child, opened, notes>>

\* The lock file of the Windows script is the update lock of the program itself.
LockIgnored == TRUE                                       \* slip: mkdir -p
LockFree == lock = "free" /\ ~(platform = "windows" /\ parent)

\* Without the lock the program is started again, by PowerShell only when the
\* result could be written.
TakeLock(h) ==
  /\ pc[h] = "late" \/ (pc[h] = "waiting" /\ ~parent)
  /\ \/ /\ LockFree
        /\ lock' = h
        /\ found' = [found EXCEPT ![h] = target]
        /\ Goto(h, "verify")
        /\ UNCHANGED <<files, result, opened>>
     \/ /\ ~LockFree
        /\ Goto(h, "done")
        /\ UNCHANGED <<files, lock, found>>
        /\ \/ Write(h, "transaction_lock_failed") /\ Reopen(h)
           \/ MayFail("result") /\ platform = "windows" /\ UNCHANGED <<result, opened>>
  /\ UNCHANGED <<platform, parent, moved, child, proven>>

-----------------------------------------------------------------------------
(* The swap *)

Fail(h) == Goto(h, "failing")

\* The staged content is checked against its manifest and copied to
\* IncomingPath; a copy that breaks off leaves part of the program there.
Stage(h) ==
  /\ pc[h] = "verify"
  /\ \/ /\ incoming' = [incoming EXCEPT ![h] = h]
        /\ Goto(h, "staged")
     \/ /\ \E rest \in {"none", "wreck"} : incoming' = [incoming EXCEPT ![h] = rest]
        /\ Fail(h)
  /\ UNCHANGED <<platform, parent, target, backup, lock, moved, child, result, opened, notes>>

\* The installed program is renamed to BackupPath.  Without one the macOS
\* script fails and the Windows script goes on.
MoveAway(h) ==
  /\ pc[h] = "staged"
  /\ \/ /\ target # "none" /\ ~Pinned
        /\ backup' = [backup EXCEPT ![h] = target]
        /\ target' = "none"
        /\ moved' = [moved EXCEPT ![h] = TRUE]
        /\ Goto(h, "away")
     \/ /\ ~HadOriginal(h) /\ platform = "windows"
        /\ Goto(h, "away")
        /\ UNCHANGED <<target, backup, moved>>
     \/ /\ target # "none" \/ platform = "macos"
        /\ Fail(h)
        /\ UNCHANGED <<target, backup, moved>>
  /\ UNCHANGED <<platform, parent, incoming, lock, child, result, opened, notes>>

\* The copy is renamed to TargetPath.
Switch(h) ==
  /\ pc[h] = "away"
  /\ \/ /\ target' = incoming[h]
        /\ incoming' = [incoming EXCEPT ![h] = "none"]
        /\ Goto(h, "switched")
     \/ /\ Fail(h)
        /\ UNCHANGED <<target, incoming>>
  /\ UNCHANGED <<platform, parent, backup, lock, moved, child, result, opened, notes>>

-----------------------------------------------------------------------------
(* Watching the new version start *)

StartNew(h) ==
  /\ pc[h] = "switched"
  /\ \/ /\ child' = [child EXCEPT ![h] = "starting"]
        /\ Goto(h, "probing")
        /\ opened' = [opened EXCEPT ![h] = target]
     \/ /\ Fail(h)
        /\ child' = [child EXCEPT ![h] = "gone"]
        /\ UNCHANGED opened
  /\ UNCHANGED <<platform, parent, files, lock, moved, result, notes>>

\* app.py reports its health before it migrates data, takes the instance lock
\* and builds its window; it may end at any moment.
ChildRuns(h) ==
  /\ \/ child[h] = "starting" /\ child' = [child EXCEPT ![h] = "healthy"]
     \/ Alive(h) /\ child' = [child EXCEPT ![h] = "gone"]
  /\ UNCHANGED <<platform, parent, files, lock, pc, moved, result, opened, notes>>

NeverLate(h) == child[h] = "gone"                         \* slip: no deadline
NotHealthy(h) == child[h] \in {"starting", "gone"}

\* The poll loop: the health token, the end of the process, or 120 seconds.  On
\* Windows a process that is not healthy in time is stopped here.
Probe(h) ==
  /\ pc[h] = "probing"
  /\ \/ /\ child[h] = "healthy"
        /\ Goto(h, "settling")
        /\ UNCHANGED <<child, opened>>
     \/ /\ NotHealthy(h)
        /\ Fail(h)
        /\ child' = [child EXCEPT ![h] = IF platform = "windows" THEN "gone" ELSE @]
        /\ IF child'[h] = "gone" THEN Drop(h) ELSE UNCHANGED opened
  /\ UNCHANGED <<platform, parent, files, lock, moved, result, notes>>

Assumed(h) == TRUE                                        \* slip: no second look
StillThere(h) == Alive(h)

\* Three seconds later the process must still be there.  The macOS script
\* carries on when "success" cannot be written, the Windows script fails.
Settle(h) ==
  /\ pc[h] = "settling"
  /\ \/ /\ StillThere(h)
        /\ proven' = proven \cup {target}
        /\ \/ /\ result' = [what |-> "success", by |-> h]
              /\ Goto(h, "cleanup")
           \/ /\ MayFail("result")
              /\ IF platform = "macos" THEN Goto(h, "cleanup") ELSE Fail(h)
              /\ UNCHANGED result
        /\ UNCHANGED opened
     \/ /\ ~StillThere(h)
        /\ Fail(h)
        /\ Drop(h)
        /\ UNCHANGED <<result, proven>>
  /\ UNCHANGED <<platform, parent, files, lock, moved, child, found>>

\* The backup goes, in full or in part, and the lock is given back.
Cleanup(h) ==
  /\ pc[h] = "cleanup"
  /\ \E rest \in {"none", "wreck", backup[h]} : backup' = [backup EXCEPT ![h] = rest]
  /\ lock' = "free"
  /\ Goto(h, IF platform = "macos" THEN "exiting" ELSE "done")
  /\ UNCHANGED <<platform, parent, target, incoming, moved, child, result, opened, notes>>

\* zsh runs the EXIT trap: the lock directory is removed once more, whoever has
\* made it meanwhile.
ExitTrap(h) ==
  /\ pc[h] = "exiting"
  /\ lock' = "free"
  /\ Goto(h, "done")
  /\ UNCHANGED <<platform, parent, files, moved, child, result, opened, notes>>

-----------------------------------------------------------------------------
(* Undoing it: rollback_update and fail_update, the catch block on Windows *)

\* The new process is killed (on macOS) and the copy removed.  An error is
\* ignored on macOS and ends the rollback on Windows; so below.
RemoveIncoming(h) ==
  /\ pc[h] = "failing"
  /\ child' = [child EXCEPT ![h] = IF platform = "macos" /\ Alive(h) THEN "gone" ELSE @]
  /\ \/ /\ incoming' = [incoming EXCEPT ![h] = "none"]
        /\ Goto(h, "removing")
     \/ /\ MayFail("rollback") /\ incoming[h] # "none"
        /\ \E rest \in {incoming[h], "wreck"} : incoming' = [incoming EXCEPT ![h] = rest]
        /\ Goto(h, IF platform = "macos" THEN "removing" ELSE "giving up")
  /\ IF platform = "macos" THEN Drop(h) ELSE UNCHANGED opened
  /\ UNCHANGED <<platform, parent, target, backup, lock, moved, result, notes>>

\* The program at TargetPath is the new one: the old one had been moved away or,
\* on Windows, had not been there.
AnyTarget(h) == TRUE                                      \* slip: rm in any case
OwnTarget(h) == moved[h] \/ (platform = "windows" /\ ~HadOriginal(h))

\* The new program is removed.
RemoveTarget(h) ==
  /\ pc[h] = "removing"
  /\ IF target # "none" /\ OwnTarget(h)
       THEN \/ /\ ~Pinned
               /\ target' = "none"
               /\ Goto(h, "restoring")
            \/ /\ MayFail("rollback") \/ Pinned
               /\ target' \in {target, "wreck"}
               /\ Goto(h, IF platform = "macos" THEN "restoring" ELSE "giving up")
       ELSE Goto(h, "restoring") /\ UNCHANGED target
  /\ UNCHANGED <<platform, parent, backup, incoming, lock, moved, child, result, opened, notes>>

\* The backup is renamed back.  mv into a directory that is still there puts
\* the old program inside it, where nothing looks for it.
Restore(h) ==
  /\ pc[h] = "restoring"
  /\ \/ /\ moved[h] /\ target = "none" /\ backup[h] # "none"
        /\ target' = backup[h]
        /\ backup' = [backup EXCEPT ![h] = "none"]
        /\ Goto(h, "reporting")
     \/ /\ moved[h] /\ target # "none" /\ backup[h] # "none"
        /\ backup' = [backup EXCEPT ![h] = "none"]
        /\ Goto(h, "reporting")
        /\ UNCHANGED target
     \/ /\ moved[h] /\ MayFail("rollback")
        /\ Goto(h, IF platform = "macos" THEN "reporting" ELSE "giving up")
        /\ UNCHANGED <<target, backup>>
     \/ /\ ~moved[h]
        /\ Goto(h, "reporting")
        /\ UNCHANGED <<target, backup>>
  /\ UNCHANGED <<platform, parent, incoming, lock, moved, child, result, opened, notes>>

\* The result is written, then the program at TargetPath is started and only
\* then the lock given back: a helper that waits for it may start the program
\* once more.
ReportFailure(h) ==
  /\ pc[h] = "reporting"
  /\ Write(h, "failed_and_rolled_back")
  /\ Goto(h, "reopening")
  /\ UNCHANGED <<platform, parent, files, lock, moved, child, opened, notes>>

RestartOld(h) ==
  /\ pc[h] = "reopening"
  /\ Reopen(h)
  /\ Goto(h, IF platform = "macos" THEN "releasing" ELSE "giving up")
  /\ UNCHANGED <<platform, parent, files, lock, moved, child, result, notes>>

ReleaseLock(h) ==
  /\ pc[h] = "releasing"
  /\ lock' = "free"
  /\ Goto(h, "exiting")
  /\ UNCHANGED <<platform, parent, files, moved, child, result, opened, notes>>

\* Windows ends with a look for a missing result.
GiveUp(h) ==
  /\ pc[h] = "giving up"
  /\ IF result.what = "none" THEN Write(h, "failed_rollback_incomplete")
                             ELSE UNCHANGED result
  /\ lock' = "free"
  /\ Goto(h, "done")
  /\ UNCHANGED <<platform, parent, files, moved, child, opened, notes>>

\* A helper is killed.  The system gives a Windows file lock back, the lock
\* directory of macOS stays.
Crash(h) ==
  /\ pc[h] \notin {"idle", "done", "crashed"}
  /\ Goto(h, "crashed")
  /\ lock' = IF platform = "windows" /\ lock = h THEN "free" ELSE lock
  /\ UNCHANGED <<platform, parent, files, moved, child, result, opened, notes>>

-----------------------------------------------------------------------------
Script(h) == GiveUpWaiting(h) \/ TakeLock(h) \/ Stage(h) \/ MoveAway(h) \/ Switch(h)
               \/ StartNew(h) \/ Probe(h) \/ Settle(h) \/ Cleanup(h) \/ ExitTrap(h)
               \/ RemoveIncoming(h) \/ RemoveTarget(h) \/ Restore(h)
               \/ ReportFailure(h) \/ RestartOld(h) \/ ReleaseLock(h) \/ GiveUp(h)

Next == \/ ParentQuits
        \/ \E h \in Helpers : LaunchHelper(h) \/ Script(h) \/ ChildRuns(h) \/ Crash(h)

\* Every wait of the scripts has a deadline, so a helper keeps stepping.
Spec == Init /\ [][Next]_vars /\ \A h \in Helpers : WF_vars(Script(h))

-----------------------------------------------------------------------------
(* Properties *)

\* The complete programs on the disk.
Copies == {v \in Versions : \/ target = v
                            \/ \E h \in Helpers : v \in {backup[h], incoming[h]}}

\* The swap keeps the documented promise: a version goes only while another one
\* that has been seen to start is still there, also when a helper is killed at
\* any point and with two helpers waiting for the same process.
Promise == INSTANCE Replacement
             WITH Original <- "old", Releases <- Helpers, copies <- Copies, proven <- proven
KeepsPromise == Promise!Spec

\* The lock admits one helper at a time.  (It takes a third helper to get past
\* the second removal of the lock directory by the EXIT trap.)
OneInside == Cardinality({h \in Helpers : pc[h] \in Inside}) <= 1

\* What the next start of the program reads in the result file is true when it
\* is written: "success" means the release is the program and still runs,
\* "failed_and_rolled_back" that the program is again what the helper had found.
ResultsTruthful ==
  [][\A h \in Helpers : result' # result /\ result'.by = h =>
       /\ result'.what = "success" => target' = h /\ Alive(h)
       /\ result'.what = "failed_and_rolled_back" => target' = found[h]]_vars

\* Whatever a helper reports when it ends, it has itself left the user a program:
\* the new version it watched, the very one it had found and put back, or, turned
\* away at the lock, the one at the path, unless the helper inside has that away.
ProgramReopened ==
  \A h \in Helpers : pc[h] \in {"exiting", "done"} /\ result.by = h =>
    /\ result.what = "success" => opened[h] = h
    /\ result.what = "failed_and_rolled_back" /\ found[h] \in Versions => opened[h] = found[h]
    /\ result.what = "transaction_lock_failed" => opened[h] # "none" \/ \E g \in Helpers : moved[g]

\* A launched helper comes to an end, or is killed, whether or not the program
\* quits and whatever the new version does.
HelperEnds == \A h \in Helpers : (pc[h] = "waiting") ~> (pc[h] \in {"done", "crashed"})

=============================================================================
