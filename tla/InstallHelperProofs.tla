------------------------ MODULE InstallHelperProofs ------------------------
(***************************************************************************)
(* The swap of the program keeps the promise of Replacement, lets one       *)
(* helper in at a time and tells the truth in its result, wherever helpers *)
(* are killed: proved for any number of helpers of the Windows script, and *)
(* for two of the macOS script if its rollback meets no error.  With three *)
(* helpers, or an rm or mv that fails, the macOS script does not keep it.  *)
(***************************************************************************)
EXTENDS InstallHelper, FiniteSetTheorems, TLAPS

Contained == /\ <<"macos", "rollback">> \notin Faults
             /\ Platforms \subseteq {"windows"} \/ \E a, b : Helpers \subseteq {a, b}

-----------------------------------------------------------------------------
(***************************************************************************)
(* Types of what the argument is about.                                    *)
(***************************************************************************)
Typed ==
  /\ platform \in Platforms /\ target \in Contents
  /\ backup \in [Helpers -> Contents] /\ incoming \in [Helpers -> Contents]
  /\ lock \in Helpers \cup {"free"}
  /\ pc \in [Helpers -> Places] /\ moved \in [Helpers -> BOOLEAN]
  /\ child \in [Helpers -> {"none", "starting", "healthy", "gone"}]
  /\ found \in [Helpers -> Contents]

LEMMA InitTyped == Init => Typed
BY HelperAssumption DEF Init, Typed, Contents, Versions, Places

\* What a helper does outside and what its child does.
LEMMA WaitTyped ==
  ASSUME Typed, NEW h \in Helpers,
         LaunchHelper(h) \/ GiveUpWaiting(h) \/ TakeLock(h) \/ ExitTrap(h) \/ ChildRuns(h) \/ Crash(h)
  PROVE  Typed'
<1> USE DEF files, notes, Goto, Places, Inside
<1>1. CASE LaunchHelper(h)
  BY <1>1 DEF LaunchHelper, Typed
<1>2. CASE GiveUpWaiting(h)
  BY <1>2 DEF GiveUpWaiting, Typed
<1>3. CASE TakeLock(h)
  BY <1>3 DEF TakeLock, Typed
<1>4. CASE ExitTrap(h)
  BY <1>4 DEF ExitTrap, Typed
<1>5. CASE ChildRuns(h)
  BY <1>5 DEF ChildRuns, Typed
<1>6. CASE Crash(h)
  BY <1>6 DEF Crash, Typed
<1> QED BY <1>1, <1>2, <1>3, <1>4, <1>5, <1>6

LEMMA SwapTyped ==
  ASSUME Typed, NEW h \in Helpers,
         Stage(h) \/ MoveAway(h) \/ Switch(h) \/ StartNew(h) \/ Probe(h) \/ Settle(h) \/ Cleanup(h)
  PROVE  Typed'
<1> USE DEF files, notes, Fail, Goto, Places, Inside
<1>1. CASE Stage(h)
  <2>1. incoming' \in [Helpers -> Contents] /\ pc' \in [Helpers -> Places]
    <3>1. PICK x \in Contents : incoming' = [incoming EXCEPT ![h] = x]
      BY <1>1 DEF Stage, Contents, Versions
    <3>2. incoming' \in [Helpers -> Contents]
      BY <3>1 DEF Typed
    <3> QED BY <1>1, <3>2 DEF Stage, Typed
  <2> QED BY <1>1, <2>1 DEF Stage, Typed
<1>2. CASE MoveAway(h)
  <2>1. target' \in Contents /\ backup' \in [Helpers -> Contents] /\ moved' \in [Helpers -> BOOLEAN]
    BY <1>2 DEF MoveAway, Typed, Contents
  <2>2. pc' \in [Helpers -> Places]
    BY <1>2 DEF MoveAway, Typed
  <2> QED BY <1>2, <2>1, <2>2 DEF MoveAway, Typed
<1>3. CASE Switch(h)
  <2>1. target' \in Contents /\ incoming' \in [Helpers -> Contents]
    BY <1>3 DEF Switch, Typed, Contents
  <2>2. pc' \in [Helpers -> Places]
    BY <1>3 DEF Switch, Typed
  <2> QED BY <1>3, <2>1, <2>2 DEF Switch, Typed
<1>4. CASE StartNew(h)
  BY <1>4 DEF StartNew, Typed
<1>5. CASE Probe(h)
  BY <1>5 DEF Probe, Typed
<1>6. CASE Settle(h)
  BY <1>6 DEF Settle, Typed
<1>7. CASE Cleanup(h)
  <2>1. PICK x \in Contents : backup' = [backup EXCEPT ![h] = x]
    BY <1>7 DEF Cleanup, Typed, Contents
  <2>2. backup' \in [Helpers -> Contents]
    BY <2>1 DEF Typed
  <2> QED BY <1>7, <2>2 DEF Cleanup, Typed
<1> QED BY <1>1, <1>2, <1>3, <1>4, <1>5, <1>6, <1>7

LEMMA UndoTyped ==
  ASSUME Typed, NEW h \in Helpers,
         RemoveIncoming(h) \/ RemoveTarget(h) \/ Restore(h) \/ ReportFailure(h) \/ RestartOld(h)
           \/ ReleaseLock(h) \/ GiveUp(h)
  PROVE  Typed'
<1> USE DEF files, notes, Goto, Places, Inside
<1>1. CASE RemoveIncoming(h)
  <2>1. PICK x \in Contents : incoming' = [incoming EXCEPT ![h] = x]
    BY <1>1 DEF RemoveIncoming, Typed, Contents
  <2>2. incoming' \in [Helpers -> Contents]
    BY <2>1 DEF Typed
  <2>3. child' \in [Helpers -> {"none", "starting", "healthy", "gone"}] /\ pc' \in [Helpers -> Places]
    BY <1>1 DEF RemoveIncoming, Typed
  <2> QED BY <1>1, <2>2, <2>3 DEF RemoveIncoming, Typed
<1>2. CASE RemoveTarget(h)
  <2>1. target' \in Contents
    BY <1>2 DEF RemoveTarget, Typed, Contents
  <2>2. pc' \in [Helpers -> Places]
    BY <1>2 DEF RemoveTarget, Typed
  <2> QED BY <1>2, <2>1, <2>2 DEF RemoveTarget, Typed
<1>3. CASE Restore(h)
  <2>1. target' \in Contents /\ backup' \in [Helpers -> Contents]
    BY <1>3 DEF Restore, Typed, Contents
  <2>2. pc' \in [Helpers -> Places]
    BY <1>3 DEF Restore, Typed
  <2> QED BY <1>3, <2>1, <2>2 DEF Restore, Typed
<1>4. CASE ReportFailure(h)
  BY <1>4 DEF ReportFailure, Typed
<1>5. CASE GiveUp(h)
  BY <1>5 DEF GiveUp, Typed
<1>6. CASE RestartOld(h)
  BY <1>6 DEF RestartOld, Typed
<1>7. CASE ReleaseLock(h)
  BY <1>7 DEF ReleaseLock, Typed
<1> QED BY <1>1, <1>2, <1>3, <1>4, <1>5, <1>6, <1>7

-----------------------------------------------------------------------------
(***************************************************************************)
(* The lock.                                                               *)
(***************************************************************************)
\* A helper inside is alone there; if the lock is not its own, a second macOS
\* helper has given it back twice, and nobody is left who could take it.
Over(h)  == pc[h] \in {"exiting", "done", "crashed"}
Sole(h)  == pc[h] \in Inside =>
              \A k \in Helpers \ {h} : pc[k] \notin Inside /\ (lock = h \/ (platform = "macos" /\ Over(k)))
AloneInv == /\ \A h \in Helpers : Sole(h)
            /\ platform = "windows" => \A h \in Helpers : pc[h] \in Inside => lock = h
            /\ platform = "windows" => \A h \in Helpers : pc[h] \notin {"releasing", "exiting"}

LEMMA InitAlone == Init => AloneInv
BY DEF Init, AloneInv, Sole, Inside

\* Who is inside stays there, or leaves it for good.
LEMMA GoesOn ==
  ASSUME Typed, AloneInv, UNCHANGED <<platform, lock>>, NEW h \in Helpers, NEW p, Goto(h, p),
         p \in Inside => pc[h] \in Inside,
         Over(h) => p \in {"done", "crashed"},
         p \in {"releasing", "exiting"} => platform = "macos"
  PROVE  AloneInv'
<1>1. pc' = [pc EXCEPT ![h] = p] /\ pc \in [Helpers -> Places]
  BY DEF Goto, Typed
<1>2. \A k \in Helpers : pc'[k] = IF k = h THEN p ELSE pc[k]
  BY <1>1
<1>3. ASSUME NEW k \in Helpers PROVE Sole(k)'
  BY <1>2 DEF AloneInv, Sole, Over
<1> QED BY <1>2, <1>3 DEF AloneInv

\* It leaves and gives the lock back.
LEMMA GivesBack ==
  ASSUME Typed, AloneInv, Contained, UNCHANGED platform, lock' = "free",
         NEW h \in Helpers, NEW p, Goto(h, p),
         pc[h] \in Inside \/ (platform = "macos" /\ pc[h] = "exiting"),
         p \in {"exiting", "done", "crashed"}, p = "exiting" => platform = "macos"
  PROVE  AloneInv'
<1>1. pc' = [pc EXCEPT ![h] = p] /\ pc \in [Helpers -> Places]
  BY DEF Goto, Typed
<1>2. \A k \in Helpers : pc'[k] = IF k = h THEN p ELSE pc[k]
  BY <1>1
<1>3. p \notin Inside
  BY DEF Inside
<1>4. ASSUME NEW k \in Helpers, pc'[k] \in Inside PROVE k # h /\ pc[k] \in Inside /\ platform = "macos"
  BY <1>2, <1>3, <1>4 DEF AloneInv, Sole
<1>5. ASSUME NEW k \in Helpers PROVE Sole(k)'
  <2> SUFFICES ASSUME pc'[k] \in Inside, NEW l \in Helpers \ {k}
               PROVE  pc'[l] \notin Inside /\ platform' = "macos" /\ Over(l)'
    BY DEF Sole
  <2>1. k # h /\ platform = "macos"
    BY <1>4
  <2>2. ~(Platforms \subseteq {"windows"})
    BY <2>1 DEF Typed
  <2>3. l = h
    BY <2>1, <2>2 DEF Contained
  <2> QED BY <1>2, <1>3, <2>1, <2>3 DEF Over
<1> QED BY <1>2, <1>3, <1>4, <1>5 DEF AloneInv

LEMMA AloneStep ==
  ASSUME Typed, AloneInv, Contained, NEW h \in Helpers,
         LaunchHelper(h) \/ Script(h) \/ ChildRuns(h) \/ Crash(h)
  PROVE  AloneInv'
<1> USE DEF Inside, Over
<1>1. CASE LaunchHelper(h)
  BY <1>1, GoesOn DEF LaunchHelper
<1>2. CASE GiveUpWaiting(h)
  BY <1>2, GoesOn DEF GiveUpWaiting
<1>3. CASE TakeLock(h)
  <2>1. CASE LockFree /\ lock' = h /\ Goto(h, "verify")
    <3>1. pc[h] \in {"late", "waiting"} /\ lock = "free" /\ UNCHANGED platform
      BY <1>3, <2>1 DEF TakeLock, LockFree
    <3>2. \A k \in Helpers : pc[k] \notin Inside
      <4> SUFFICES ASSUME NEW k \in Helpers, pc[k] \in Inside PROVE FALSE
        OBVIOUS
      <4>1. k # h /\ lock # k
        BY <3>1, HelperAssumption DEF Typed
      <4> QED BY <3>1, <4>1 DEF AloneInv, Sole
    <3>3. \A k \in Helpers : pc'[k] = IF k = h THEN "verify" ELSE pc[k]
      BY <2>1 DEF Goto, Typed
    <3>4. \A k \in Helpers : pc'[k] \in Inside => k = h /\ lock' = h
      BY <2>1, <3>2, <3>3
    <3>5. \A k \in Helpers : Sole(k)'
      BY <3>4 DEF Sole
    <3>6. platform = "windows" => \A k \in Helpers : pc'[k] \notin {"releasing", "exiting"}
      BY <3>3 DEF AloneInv
    <3> QED BY <3>1, <3>4, <3>5, <3>6 DEF AloneInv
  <2>2. CASE Goto(h, "done") /\ UNCHANGED lock
    BY <1>3, <2>2, GoesOn DEF TakeLock
  <2> QED BY <1>3, <2>1, <2>2 DEF TakeLock
<1>4. CASE Stage(h) \/ MoveAway(h) \/ Switch(h) \/ StartNew(h) \/ Probe(h) \/ Settle(h)
  <2>1. UNCHANGED <<platform, lock>> /\ pc[h] \in Inside
    BY <1>4 DEF Stage, MoveAway, Switch, StartNew, Probe, Settle
  <2>2. \E p \in Inside \ {"releasing"} : Goto(h, p)
    BY <1>4 DEF Stage, MoveAway, Switch, StartNew, Probe, Settle, Fail
  <2> QED BY <2>1, <2>2, GoesOn
<1>5. CASE RemoveIncoming(h) \/ RemoveTarget(h) \/ Restore(h) \/ ReportFailure(h) \/ RestartOld(h)
  <2>1. UNCHANGED <<platform, lock>> /\ pc[h] \in Inside
    BY <1>5 DEF RemoveIncoming, RemoveTarget, Restore, ReportFailure, RestartOld
  <2>2. \E p \in Inside : Goto(h, p) /\ (p = "releasing" => platform = "macos")
    BY <1>5 DEF RemoveIncoming, RemoveTarget, Restore, ReportFailure, RestartOld
  <2> QED BY <2>1, <2>2, GoesOn
<1>6. CASE Cleanup(h)
  BY <1>6, GivesBack DEF Cleanup
<1>7. CASE ExitTrap(h)
  <2>1. platform = "macos"
    BY <1>7, HelperAssumption DEF ExitTrap, AloneInv, Typed
  <2> QED BY <1>7, <2>1, GivesBack DEF ExitTrap
<1>8. CASE ReleaseLock(h)
  <2>1. platform = "macos"
    BY <1>8, HelperAssumption DEF ReleaseLock, AloneInv, Typed
  <2> QED BY <1>8, <2>1, GivesBack DEF ReleaseLock
<1>9. CASE GiveUp(h)
  BY <1>9, GivesBack DEF GiveUp
<1>10. CASE ChildRuns(h)
  BY <1>10 DEF ChildRuns, AloneInv, Sole
<1>11. CASE Crash(h)
  <2>1. CASE lock' = lock
    BY <1>11, <2>1, GoesOn DEF Crash
  <2>2. CASE platform = "windows" /\ lock = h /\ lock' = "free"
    <3>1. \A k \in Helpers : pc'[k] = IF k = h THEN "crashed" ELSE pc[k]
      BY <1>11 DEF Crash, Goto, Typed
    <3>2. \A k \in Helpers : pc'[k] \notin Inside
      BY <2>2, <3>1 DEF AloneInv
    <3> QED BY <1>11, <3>1, <3>2 DEF Crash, AloneInv, Sole
  <2> QED BY <1>11, <2>1, <2>2 DEF Crash
<1> QED BY <1>1, <1>2, <1>3, <1>4, <1>5, <1>6, <1>7, <1>8, <1>9, <1>10, <1>11 DEF Script

-----------------------------------------------------------------------------
(***************************************************************************)
(* How far a helper has brought the swap.                                  *)
(***************************************************************************)
Untouched(h) == backup[h] = "none" /\ incoming[h] = "none" /\ ~moved[h] /\ h \notin proven

\* What lay at the target is beside it, or nothing lay there.
Saved(h)    == \/ moved[h] /\ found[h] # "none" /\ backup[h] = found[h]
               \/ ~moved[h] /\ found[h] = "none" /\ platform = "windows"
Undoable(h) == \/ Saved(h) /\ target \in {h, "none"}
               \/ ~moved[h] /\ target = found[h]

At(h) ==
  /\ incoming[h] \in {h, "none", "wreck"}
  /\ pc[h] \in {"idle", "waiting", "late", "verify"} => Untouched(h)
  /\ pc[h] \in {"verify", "staged"} => target = found[h]
  /\ pc[h] = "staged" => incoming[h] = h /\ backup[h] = "none" /\ ~moved[h]
  /\ pc[h] = "away" => incoming[h] = h /\ target = "none" /\ Saved(h)
  /\ pc[h] \in {"switched", "probing", "settling"} => target = h /\ Saved(h)
  /\ pc[h] = "cleanup" => target = h /\ h \in proven
  /\ pc[h] \in {"failing", "removing"} => Undoable(h)
  /\ pc[h] = "restoring" => \/ moved[h] /\ target = "none" /\ found[h] # "none" /\ backup[h] = found[h]
                            \/ ~moved[h] /\ target = found[h]
  /\ pc[h] \in {"reporting", "reopening"} => target = found[h]

AtInv == \A h \in Helpers : At(h)

LEMMA InitAt == Init => AtInv
BY HelperAssumption DEF Init, AtInv, At, Untouched

\* A helper inside leaves the others where they are.
LEMMA OthersStay ==
  ASSUME Typed, AtInv, NEW h \in Helpers, NEW p, Goto(h, p), At(h)',
         \A k \in Helpers \ {h} : pc[k] \notin Inside,
         \A k \in Helpers \ {h} : /\ backup'[k] = backup[k] /\ incoming'[k] = incoming[k]
                                  /\ moved'[k] = moved[k],
         proven' \subseteq proven \cup {h}
  PROVE  AtInv'
<1> SUFFICES ASSUME NEW k \in Helpers \ {h} PROVE At(k)'
  BY DEF AtInv
<1>1. pc'[k] = pc[k] /\ pc[k] \notin Inside
  BY DEF Goto, Typed
<1>2. /\ backup'[k] = backup[k] /\ incoming'[k] = incoming[k] /\ moved'[k] = moved[k]
      /\ incoming[k] \in {k, "none", "wreck"}
      /\ pc[k] \in {"idle", "waiting", "late"} => Untouched(k)
  BY DEF AtInv, At
<1>3. pc'[k] \in {"idle", "waiting", "late"} => Untouched(k)'
  BY <1>1, <1>2 DEF Untouched
<1> QED BY <1>1, <1>2, <1>3 DEF At, Inside

\* Outside, and on its way out, a helper touches nothing.
LEMMA NothingMoves ==
  ASSUME Typed, AtInv, NEW h \in Helpers, NEW p, Goto(h, p),
         p \in {"waiting", "late", "exiting", "done", "crashed", "reopening", "releasing",
               "giving up"},
         p \in {"waiting", "late"} => pc[h] \in {"idle", "waiting", "late"},
         p = "reopening" => pc[h] = "reporting",
         UNCHANGED <<platform, target, backup, incoming, moved, proven, found>>
  PROVE  AtInv'
<1> SUFFICES ASSUME NEW k \in Helpers PROVE At(k)'
  BY DEF AtInv
<1>1. pc'[k] = IF k = h THEN p ELSE pc[k]
  BY DEF Goto, Typed
<1>2. CASE k = h
  BY <1>1, <1>2 DEF AtInv, At, Untouched
<1>3. CASE k # h
  <2>1. pc'[k] = pc[k]
    BY <1>1, <1>3
  <2>2. /\ Untouched(k)' <=> Untouched(k)
        /\ Saved(k)' <=> Saved(k)
    BY DEF Untouched, Saved
  <2>3. Undoable(k)' <=> Undoable(k)
    BY <2>2 DEF Undoable
  <2>4. At(k)
    BY DEF AtInv
  <2> QED BY <2>1, <2>2, <2>3, <2>4 DEF At
<1> QED BY <1>2, <1>3

-----------------------------------------------------------------------------
(***************************************************************************)
(* The versions on the disk.                                               *)
(***************************************************************************)
Rest(h) == {v \in Versions : \E k \in Helpers \ {h} : v \in {backup[k], incoming[k]}}

LEMMA CopiesSplit ==
  ASSUME NEW h \in Helpers
  PROVE  /\ Copies = Rest(h) \cup (Versions \cap {target, backup[h], incoming[h]})
         /\ Copies' = Rest(h)' \cup (Versions \cap {target', backup'[h], incoming'[h]})
BY DEF Copies, Rest

LEMMA RestStays ==
  ASSUME NEW h \in Helpers,
         \A k \in Helpers \ {h} : backup'[k] = backup[k] /\ incoming'[k] = incoming[k]
  PROVE  Rest(h)' = Rest(h)
BY DEF Rest

\* A proven version is there, and while a helper works one that is not its own.
Busy == {"verify", "staged", "away", "switched", "probing", "settling", "failing", "removing"}
Guarded == /\ proven \subseteq Versions /\ proven \cap Copies # {}
           /\ \A h \in Helpers : pc[h] \in Busy => (proven \cap Copies) \ {h} # {}

LEMMA InitCopies == Init => Copies = {"old"} /\ Guarded
<1> SUFFICES ASSUME Init PROVE Copies = {"old"} /\ Guarded
  OBVIOUS
<1>1. Copies = {"old"}
  <2>1. \A v \in Versions : v \in Copies <=> v = "old"
    BY HelperAssumption DEF Init, Copies, Versions
  <2> QED BY <2>1 DEF Copies, Versions
<1> QED BY <1>1 DEF Init, Guarded, Busy, Versions

Promised == [Promise!Next]_<<Copies, proven>>

\* A version may come, and nothing goes.
LEMMA GuardStays ==
  ASSUME Typed, Guarded, NEW h \in Helpers, NEW p, Goto(h, p),
         p \in Busy => pc[h] \in Busy \/ h \notin proven,
         Copies \subseteq Copies', proven' = proven
  PROVE  Guarded'
<1>1. \A k \in Helpers : pc'[k] = IF k = h THEN p ELSE pc[k]
  BY DEF Goto, Typed
<1>2. ASSUME NEW k \in Helpers, pc'[k] \in Busy PROVE (proven' \cap Copies') \ {k} # {}
  <2>1. CASE pc[k] \in Busy
    BY <2>1 DEF Guarded
  <2>2. CASE k = h /\ h \notin proven
    BY <2>2 DEF Guarded
  <2> QED BY <1>1, <1>2, <2>1, <2>2
<1> QED BY <1>2 DEF Guarded

\* The release of a helper goes: the promise is kept by what guards it.
LEMMA OwnGoes ==
  ASSUME Typed, Guarded, NEW h \in Helpers, NEW p, Goto(h, p), pc[h] \in Busy,
         \A k \in Helpers \ {h} : pc[k] \notin Inside,
         Copies \ {h} \subseteq Copies', Copies' \subseteq Copies, proven' = proven
  PROVE  Guarded' /\ Promised
<1>1. PICK v \in proven \cap Copies : v # h
  BY DEF Guarded
<1>2. v \in Copies' /\ v # h
  BY <1>1
<1>3. \A k \in Helpers \ {h} : pc'[k] \notin Busy
  BY DEF Goto, Typed, Inside, Busy
<1>4. Guarded'
  BY <1>1, <1>2, <1>3 DEF Guarded
<1>5. CASE Copies' = Copies
  BY <1>4, <1>5 DEF Promised
<1>6. CASE Copies' # Copies
  <2>1. h \in Copies /\ Copies' = Copies \ {h}
    BY <1>6
  <2>2. Promise!Discard(h)
    BY <1>1, <2>1 DEF Promise!Discard
  <2> QED BY <1>4, <2>2 DEF Promised, Promise!Next, Promise!Versions
<1> QED BY <1>4, <1>5, <1>6

-----------------------------------------------------------------------------
(***************************************************************************)
(* The steps.                                                              *)
(***************************************************************************)
HelperInv == Typed /\ AloneInv /\ AtInv /\ Guarded
Kept      == AtInv' /\ Guarded' /\ Promised

\* Who is inside is the only one.
LEMMA Lonely ==
  ASSUME HelperInv, NEW h \in Helpers, pc[h] \in Inside
  PROVE  \A k \in Helpers \ {h} : pc[k] \notin Inside
BY DEF HelperInv, AloneInv, Sole

LEMMA Names ==
  ASSUME NEW h \in Helpers
  PROVE  h \in Versions /\ h \notin {"old", "none", "wreck"} /\ {"none", "wreck"} \cap Versions = {}
BY HelperAssumption DEF Versions

\* No file changes and nothing is proven.
LEMMA QuietKept ==
  ASSUME HelperInv, NEW h \in Helpers, NEW p, Goto(h, p), AtInv',
         p \in Busy => pc[h] \in Busy \/ h \notin proven,
         UNCHANGED <<files, proven>>
  PROVE  Kept
<1>1. Copies' = Copies
  BY DEF Copies, files
<1>2. Guarded'
  BY <1>1, GuardStays DEF HelperInv
<1> QED BY <1>1, <1>2 DEF Kept, Promised

LEMMA WaitKept ==
  ASSUME HelperInv, NEW h \in Helpers,
         LaunchHelper(h) \/ GiveUpWaiting(h) \/ TakeLock(h) \/ ExitTrap(h) \/ Crash(h)
  PROVE  Kept
<1> USE DEF files, notes
<1>1. CASE LaunchHelper(h) \/ GiveUpWaiting(h) \/ ExitTrap(h) \/ Crash(h)
  <2>1. UNCHANGED <<platform, target, backup, incoming, moved, proven, found>>
    BY <1>1 DEF LaunchHelper, GiveUpWaiting, ExitTrap, Crash
  <2>2. \E p \in {"waiting", "late", "done", "crashed"} :
          Goto(h, p) /\ (p \in {"waiting", "late"} => pc[h] \in {"idle", "waiting", "late"})
    BY <1>1 DEF LaunchHelper, GiveUpWaiting, ExitTrap, Crash
  <2>3. AtInv'
    BY <2>1, <2>2, NothingMoves DEF HelperInv
  <2> QED BY <2>1, <2>2, <2>3, QuietKept DEF Busy
<1>2. CASE TakeLock(h)
  <2>1. UNCHANGED <<platform, target, backup, incoming, moved, proven>> /\ pc[h] \in {"waiting", "late"}
    BY <1>2 DEF TakeLock
  <2>2. CASE LockFree /\ found' = [found EXCEPT ![h] = target] /\ Goto(h, "verify")
    <3>1. Untouched(h) /\ incoming[h] \in {h, "none", "wreck"}
      BY <2>1 DEF HelperInv, AtInv, At
    <3>2. found'[h] = target /\ pc'[h] = "verify"
      BY <2>2 DEF HelperInv, Typed, Goto
    <3>3. At(h)' /\ h \notin proven
      BY <2>1, <3>1, <3>2 DEF At, Untouched
    <3>4. \A k \in Helpers \ {h} : pc[k] \notin Inside
      <4> SUFFICES ASSUME NEW k \in Helpers \ {h}, pc[k] \in Inside PROVE FALSE
        OBVIOUS
      <4>1. lock # k
        BY <2>2, HelperAssumption DEF LockFree
      <4> QED BY <2>1, <4>1 DEF HelperInv, AloneInv, Sole, Over
    <3>5. AtInv'
      BY <2>1, <2>2, <3>3, <3>4, OthersStay DEF HelperInv
    <3> QED BY <2>1, <2>2, <3>3, <3>5, QuietKept
  <2>3. CASE Goto(h, "done") /\ UNCHANGED found
    <3>1. AtInv'
      BY <2>1, <2>3, NothingMoves DEF HelperInv
    <3> QED BY <2>1, <2>3, <3>1, QuietKept DEF Busy
  <2> QED BY <1>2, <2>2, <2>3 DEF TakeLock
<1> QED BY <1>1, <1>2

LEMMA StageKept == ASSUME HelperInv, NEW h \in Helpers, Stage(h) PROVE Kept
<1> USE DEF files, notes
<1>1. /\ pc[h] = "verify" /\ pc[h] \in Inside /\ Untouched(h) /\ target = found[h]
      /\ UNCHANGED <<platform, target, backup, moved, proven, found>>
  BY DEF Stage, HelperInv, AtInv, At, Inside
<1>2. PICK p, x : /\ Goto(h, p) /\ incoming' = [incoming EXCEPT ![h] = x]
                  /\ \/ p = "staged" /\ x = h
                     \/ p = "failing" /\ x \in {"none", "wreck"}
  BY DEF Stage, Fail
<1>3. pc'[h] = p /\ incoming'[h] = x /\ \A k \in Helpers \ {h} : incoming'[k] = incoming[k]
  BY <1>2 DEF Goto, HelperInv, Typed
<1>4. At(h)'
  BY <1>1, <1>2, <1>3 DEF At, Untouched, Undoable
<1>5. AtInv'
  BY <1>1, <1>2, <1>3, <1>4, Lonely, OthersStay DEF HelperInv
<1>6. Copies' = Copies \cup (Versions \cap {x})
  BY <1>1, <1>3, CopiesSplit, RestStays, Names DEF Untouched
<1>7. Guarded'
  BY <1>1, <1>2, <1>6, GuardStays DEF HelperInv, Busy
<1>8. Promised
  <2>1. CASE x = h
    <3>1. Promise!Bring(h)
      BY <2>1, <1>1, <1>6, Names DEF Promise!Bring
    <3> QED BY <3>1 DEF Promised, Promise!Next, Promise!Versions
  <2>2. CASE x \in {"none", "wreck"}
    BY <2>2, <1>1, <1>6, Names DEF Promised
  <2> QED BY <1>2, <2>1, <2>2
<1> QED BY <1>5, <1>7, <1>8 DEF Kept

\* A rename changes where a version lies.
LEMMA Renamed ==
  ASSUME HelperInv, NEW h \in Helpers, NEW p, Goto(h, p), pc[h] \in Inside, At(h)',
         p \in Busy => pc[h] \in Busy, UNCHANGED proven,
         \A k \in Helpers \ {h} : /\ backup'[k] = backup[k] /\ incoming'[k] = incoming[k]
                                  /\ moved'[k] = moved[k],
         Versions \cap {target', backup'[h], incoming'[h]} = Versions \cap {target, backup[h], incoming[h]}
  PROVE  Kept
<1>1. AtInv'
  BY Lonely, OthersStay DEF HelperInv
<1>2. Rest(h)' = Rest(h)
  BY RestStays
<1>3. Copies' = Copies
  BY <1>2, CopiesSplit
<1>4. Guarded'
  BY <1>3, GuardStays DEF HelperInv
<1> QED BY <1>1, <1>3, <1>4 DEF Kept, Promised

LEMMA MoveAwayKept == ASSUME HelperInv, NEW h \in Helpers, MoveAway(h) PROVE Kept
<1> USE DEF files, notes
<1>1. /\ pc[h] = "staged" /\ At(h) /\ UNCHANGED <<platform, proven, found, incoming>>
      /\ incoming[h] = h /\ backup[h] = "none" /\ ~moved[h] /\ target = found[h]
  BY DEF MoveAway, HelperInv, AtInv, At
<1>2. CASE /\ target # "none" /\ target' = "none" /\ backup' = [backup EXCEPT ![h] = target]
           /\ moved' = [moved EXCEPT ![h] = TRUE] /\ Goto(h, "away")
  <2>1. /\ backup'[h] = target /\ moved'[h] /\ pc'[h] = "away"
        /\ \A k \in Helpers \ {h} : backup'[k] = backup[k] /\ moved'[k] = moved[k]
    BY <1>2 DEF HelperInv, Typed, Goto
  <2>2. At(h)'
    BY <1>1, <1>2, <2>1 DEF At, Saved
  <2>3. Versions \cap {target', backup'[h], incoming'[h]} = Versions \cap {target, backup[h], incoming[h]}
    BY <1>1, <1>2, <2>1
  <2> QED BY <1>1, <1>2, <2>1, <2>2, <2>3, Renamed DEF Inside, Busy
<1>3. CASE /\ UNCHANGED <<target, backup, moved>>
           /\ \/ found[h] = "none" /\ platform = "windows" /\ Goto(h, "away")
              \/ Goto(h, "failing")
  <2>1. PICK p : Goto(h, p) /\ (p = "failing" \/ (p = "away" /\ found[h] = "none" /\ platform = "windows"))
    BY <1>3
  <2>2. pc'[h] = p
    BY <2>1 DEF HelperInv, Typed, Goto
  <2>3. At(h)'
    BY <1>1, <1>3, <2>1, <2>2 DEF At, Saved, Undoable
  <2> QED BY <1>1, <1>3, <2>1, <2>3, Renamed DEF Inside, Busy
<1> QED BY <1>2, <1>3 DEF MoveAway, HadOriginal, Fail

LEMMA SwitchKept == ASSUME HelperInv, NEW h \in Helpers, Switch(h) PROVE Kept
<1> USE DEF files, notes
<1>1. /\ pc[h] = "away" /\ At(h) /\ UNCHANGED <<platform, proven, found, backup, moved>>
      /\ incoming[h] = h /\ target = "none" /\ Saved(h)
  BY DEF Switch, HelperInv, AtInv, At
<1>2. CASE target' = h /\ incoming' = [incoming EXCEPT ![h] = "none"] /\ Goto(h, "switched")
  <2>1. /\ incoming'[h] = "none" /\ pc'[h] = "switched"
        /\ \A k \in Helpers \ {h} : incoming'[k] = incoming[k]
    BY <1>2 DEF HelperInv, Typed, Goto
  <2>2. At(h)'
    BY <1>1, <1>2, <2>1 DEF At, Saved
  <2>3. Versions \cap {target', backup'[h], incoming'[h]} = Versions \cap {target, backup[h], incoming[h]}
    BY <1>1, <1>2, <2>1
  <2> QED BY <1>1, <1>2, <2>1, <2>2, <2>3, Renamed DEF Inside, Busy
<1>3. CASE UNCHANGED <<target, incoming>> /\ Goto(h, "failing")
  <2>1. pc'[h] = "failing"
    BY <1>3 DEF HelperInv, Typed, Goto
  <2>2. At(h)'
    BY <1>1, <1>3, <2>1 DEF At, Saved, Undoable
  <2> QED BY <1>1, <1>3, <2>2, Renamed DEF Inside, Busy
<1> QED BY <1>1, <1>2, <1>3 DEF Switch, Fail

LEMMA RestoreKept == ASSUME HelperInv, NEW h \in Helpers, Restore(h), Contained PROVE Kept
<1> USE DEF files, notes
<1>1. /\ pc[h] = "restoring" /\ At(h) /\ UNCHANGED <<platform, proven, found, incoming, moved>>
      /\ \/ moved[h] /\ target = "none" /\ found[h] # "none" /\ backup[h] = found[h]
         \/ ~moved[h] /\ target = found[h]
  BY DEF Restore, HelperInv, AtInv, At
<1>2. CASE /\ moved[h] /\ target = "none" /\ target' = backup[h]
           /\ backup' = [backup EXCEPT ![h] = "none"] /\ Goto(h, "reporting")
  <2>1. /\ backup'[h] = "none" /\ pc'[h] = "reporting"
        /\ \A k \in Helpers \ {h} : backup'[k] = backup[k]
    BY <1>2 DEF HelperInv, Typed, Goto
  <2>2. At(h)'
    BY <1>1, <1>2, <2>1 DEF At
  <2>3. Versions \cap {target', backup'[h], incoming'[h]} = Versions \cap {target, backup[h], incoming[h]}
    BY <1>1, <1>2, <2>1
  <2> QED BY <1>1, <1>2, <2>1, <2>2, <2>3, Renamed DEF Inside, Busy
<1>3. CASE /\ UNCHANGED <<target, backup>>
           /\ (~moved[h] /\ Goto(h, "reporting")) \/ Goto(h, "giving up")
  <2>1. PICK p : Goto(h, p) /\ (p = "giving up" \/ (p = "reporting" /\ ~moved[h]))
    BY <1>3
  <2>2. pc'[h] = p
    BY <2>1 DEF HelperInv, Typed, Goto
  <2>3. At(h)'
    BY <1>1, <1>3, <2>1, <2>2 DEF At
  <2> QED BY <1>1, <1>3, <2>1, <2>3, Renamed DEF Inside, Busy
<1>4. platform = "macos" => ~MayFail("rollback")
  BY DEF Contained, MayFail
<1> QED BY <1>1, <1>2, <1>3, <1>4 DEF Restore

\* The new version is started and watched; nothing moves.
LEMMA WatchKept ==
  ASSUME HelperInv, NEW h \in Helpers, StartNew(h) \/ Probe(h) PROVE Kept
<1> USE DEF files, notes
<1>1. /\ pc[h] \in {"switched", "probing"} /\ At(h) /\ target = h /\ Saved(h)
      /\ UNCHANGED <<platform, target, backup, incoming, moved, proven, found>>
  BY DEF StartNew, Probe, HelperInv, AtInv, At
<1>2. PICK p \in {"probing", "settling", "failing"} : Goto(h, p)
  BY DEF StartNew, Probe, Fail
<1>3. pc'[h] = p
  BY <1>2 DEF Goto, HelperInv, Typed
<1>4. At(h)'
  BY <1>1, <1>2, <1>3 DEF At, Saved, Undoable
<1> QED BY <1>1, <1>2, <1>4, Renamed DEF Inside, Busy

LEMMA SettleKept == ASSUME HelperInv, NEW h \in Helpers, Settle(h) PROVE Kept
<1> USE DEF files, notes
<1>1. /\ pc[h] = "settling" /\ At(h) /\ target = h /\ Saved(h)
      /\ UNCHANGED <<platform, target, backup, incoming, moved, found>>
  BY DEF Settle, HelperInv, AtInv, At
<1>2. CASE UNCHANGED proven /\ Goto(h, "failing")
  <2>1. pc'[h] = "failing"
    BY <1>2 DEF Goto, HelperInv, Typed
  <2>2. At(h)'
    BY <1>1, <1>2, <2>1 DEF At, Saved, Undoable
  <2> QED BY <1>1, <1>2, <2>2, Renamed DEF Inside, Busy
<1>3. CASE proven' = proven \cup {h} /\ (Goto(h, "cleanup") \/ Goto(h, "failing"))
  <2>1. PICK p \in {"cleanup", "failing"} : Goto(h, p)
    BY <1>3
  <2>2. pc'[h] = p
    BY <2>1 DEF Goto, HelperInv, Typed
  <2>3. At(h)'
    BY <1>1, <1>3, <2>1, <2>2 DEF At, Saved, Undoable
  <2>4. AtInv'
    BY <1>1, <1>3, <2>1, <2>3, Lonely, OthersStay DEF HelperInv, Inside
  <2>5. Copies' = Copies /\ h \in Copies /\ h \in Versions
    BY <1>1, Names DEF Copies
  <2>6. \A k \in Helpers : pc'[k] \in Busy => pc[k] \in Busy
    BY <1>1, <2>1 DEF Goto, HelperInv, Typed, Busy
  <2>7. Guarded'
    BY <1>3, <2>5, <2>6 DEF HelperInv, Guarded
  <2>8. Promise!Prove(h)
    BY <1>3, <2>5 DEF Promise!Prove
  <2> QED BY <2>4, <2>5, <2>7, <2>8 DEF Kept, Promised, Promise!Next, Promise!Versions, Versions
<1> QED BY <1>1, <1>2, <1>3 DEF Settle, Fail

LEMMA CleanupKept == ASSUME HelperInv, NEW h \in Helpers, Cleanup(h) PROVE Kept
<1> USE DEF files, notes
<1>1. /\ pc[h] = "cleanup" /\ pc[h] \in Inside /\ At(h) /\ target = h /\ h \in proven
      /\ UNCHANGED <<platform, target, incoming, moved, proven, found>>
  BY DEF Cleanup, HelperInv, AtInv, At, Inside
<1>2. PICK p \in {"exiting", "done"} : Goto(h, p)
  BY DEF Cleanup
<1>3. PICK x \in {"none", "wreck", backup[h]} : backup' = [backup EXCEPT ![h] = x]
  BY DEF Cleanup
<1>4. /\ pc'[h] = p /\ backup'[h] = x
      /\ \A k \in Helpers \ {h} : backup'[k] = backup[k] /\ pc'[k] = pc[k] /\ pc[k] \notin Inside
  BY <1>1, <1>2, <1>3, Lonely DEF Goto, HelperInv, Typed
<1>5. At(h)'
  BY <1>1, <1>2, <1>4 DEF At
<1>6. AtInv'
  BY <1>1, <1>2, <1>4, <1>5, OthersStay DEF HelperInv
<1>7. /\ Copies = Rest(h) \cup (Versions \cap {h, backup[h], incoming[h]})
      /\ Copies' = Rest(h) \cup (Versions \cap {h, x, incoming[h]})
  BY <1>1, <1>4, CopiesSplit, RestStays
<1>8. h \in Copies' /\ Copies' \subseteq Copies /\ Copies \ {backup[h]} \subseteq Copies'
  BY <1>3, <1>7, Names
<1>9. Guarded'
  <2>1. \A k \in Helpers : pc'[k] \notin Busy
    BY <1>2, <1>4 DEF Inside, Busy
  <2> QED BY <1>1, <1>8, <2>1 DEF HelperInv, Guarded
<1>10. Promised
  <2>1. CASE Copies' = Copies
    BY <1>1, <2>1 DEF Promised
  <2>2. CASE Copies' # Copies
    <3>1. backup[h] \in Copies /\ Copies' = Copies \ {backup[h]}
      BY <1>8, <2>2
    <3>2. Promise!Discard(backup[h])
      BY <1>1, <1>8, <3>1 DEF Promise!Discard
    <3>3. backup[h] \in Versions
      BY <3>1 DEF Copies
    <3> QED BY <3>2, <3>3 DEF Promised, Promise!Next, Promise!Versions, Versions
  <2> QED BY <2>1, <2>2
<1> QED BY <1>6, <1>9, <1>10 DEF Kept

LEMMA RemoveIncomingKept ==
  ASSUME HelperInv, NEW h \in Helpers, RemoveIncoming(h), Contained PROVE Kept
<1> USE DEF files, notes
<1>1. /\ pc[h] = "failing" /\ pc[h] \in Inside /\ pc[h] \in Busy /\ At(h) /\ Undoable(h)
      /\ incoming[h] \in {h, "none", "wreck"}
      /\ UNCHANGED <<platform, target, backup, moved, proven, found>>
  BY DEF RemoveIncoming, HelperInv, AtInv, At, Inside, Busy
<1>2. PICK p \in {"removing", "giving up"} : Goto(h, p)
  BY DEF RemoveIncoming
<1>3. PICK x \in {"none", "wreck", incoming[h]} : incoming' = [incoming EXCEPT ![h] = x]
  BY DEF RemoveIncoming
<1>4. pc'[h] = p /\ incoming'[h] = x /\ \A k \in Helpers \ {h} : incoming'[k] = incoming[k]
  BY <1>2, <1>3 DEF Goto, HelperInv, Typed
<1>5. At(h)'
  BY <1>1, <1>2, <1>3, <1>4 DEF At, Undoable, Saved
<1>6. AtInv'
  BY <1>1, <1>2, <1>4, <1>5, Lonely, OthersStay DEF HelperInv
<1>7. /\ Copies = Rest(h) \cup (Versions \cap {target, backup[h], incoming[h]})
      /\ Copies' = Rest(h) \cup (Versions \cap {target, backup[h], x})
  BY <1>1, <1>4, CopiesSplit, RestStays
<1>8. Copies' \subseteq Copies /\ Copies \ {h} \subseteq Copies'
  BY <1>1, <1>3, <1>7, Names
<1> QED BY <1>1, <1>2, <1>6, <1>8, OwnGoes, Lonely DEF Kept, HelperInv

LEMMA RemoveTargetKept ==
  ASSUME HelperInv, NEW h \in Helpers, RemoveTarget(h), Contained PROVE Kept
<1> USE DEF files, notes
<1>1. /\ pc[h] = "removing" /\ pc[h] \in Inside /\ pc[h] \in Busy /\ At(h) /\ Undoable(h)
      /\ UNCHANGED <<platform, incoming, backup, moved, proven, found>>
  BY DEF RemoveTarget, HelperInv, AtInv, At, Inside, Busy
<1>2. CASE target # "none" /\ OwnTarget(h)
  <2>1. target = h
    BY <1>1, <1>2 DEF OwnTarget, HadOriginal, Undoable, Saved
  <2>2. CASE target' = "none" /\ Goto(h, "restoring")
    <3>1. pc'[h] = "restoring"
      BY <2>2 DEF Goto, HelperInv, Typed
    <3>2. At(h)'
      BY <1>1, <1>2, <2>2, <3>1 DEF At, Undoable, Saved, OwnTarget, HadOriginal
    <3>3. AtInv'
      BY <1>1, <2>2, <3>2, Lonely, OthersStay DEF HelperInv
    <3>4. Copies' \subseteq Copies /\ Copies \ {h} \subseteq Copies'
      BY <1>1, <2>1, <2>2, CopiesSplit, RestStays, Names
    <3> QED BY <1>1, <2>2, <3>3, <3>4, OwnGoes, Lonely DEF Kept, HelperInv
  <2>3. CASE target' \in {target, "wreck"} /\ Goto(h, "giving up")
    <3>1. pc'[h] = "giving up"
      BY <2>3 DEF Goto, HelperInv, Typed
    <3>2. At(h)'
      BY <1>1, <3>1 DEF At
    <3>3. AtInv'
      BY <1>1, <2>3, <3>2, Lonely, OthersStay DEF HelperInv
    <3>4. CASE target' = target
      <4>1. Copies' = Copies
        BY <1>1, <3>4 DEF Copies
      <4> QED BY <1>1, <2>3, <3>3, <4>1, OwnGoes, Lonely DEF Kept, HelperInv
    <3>5. CASE target' = "wreck"
      <4>1. /\ Copies = Rest(h) \cup (Versions \cap {target, backup[h], incoming[h]})
            /\ Copies' = Rest(h)' \cup (Versions \cap {target, backup[h], incoming[h]})'
        BY CopiesSplit
      <4>2. Rest(h)' = Rest(h)
        BY <1>1, RestStays
      <4>3. (Versions \cap {target, backup[h], incoming[h]})'
              = Versions \cap {backup[h], incoming[h]}
        BY <1>1, <3>5, Names
      <4>4. Copies' \subseteq Copies /\ Copies \ {h} \subseteq Copies'
        BY <2>1, <4>1, <4>2, <4>3
      <4> QED BY <1>1, <2>3, <3>3, <4>4, OwnGoes, Lonely DEF Kept, HelperInv
    <3> QED BY <2>3, <3>4, <3>5
  <2>4. platform = "macos" => ~MayFail("rollback") /\ ~Pinned
    BY DEF Contained, MayFail, Pinned
  <2> QED BY <1>1, <1>2, <2>2, <2>3, <2>4 DEF RemoveTarget
<1>3. CASE ~(target # "none" /\ OwnTarget(h))
  <2>1. Goto(h, "restoring") /\ UNCHANGED target
    BY <1>3 DEF RemoveTarget
  <2>2. pc'[h] = "restoring"
    BY <2>1 DEF Goto, HelperInv, Typed
  <2>3. At(h)'
    BY <1>1, <1>3, <2>1, <2>2 DEF At, Undoable, Saved, OwnTarget, HadOriginal
  <2> QED BY <1>1, <2>1, <2>3, Renamed DEF Busy
<1> QED BY <1>2, <1>3

LEMMA EndKept ==
  ASSUME HelperInv, NEW h \in Helpers, ReportFailure(h) \/ RestartOld(h) \/ ReleaseLock(h) \/ GiveUp(h)
  PROVE  Kept
<1>1. UNCHANGED <<platform, target, backup, incoming, moved, proven, found>>
  BY DEF ReportFailure, RestartOld, ReleaseLock, GiveUp, files, notes
<1>2. PICK p \in {"reopening", "releasing", "exiting", "giving up", "done"} :
        Goto(h, p) /\ (p = "reopening" => pc[h] = "reporting")
  BY DEF ReportFailure, RestartOld, ReleaseLock, GiveUp
<1>3. AtInv'
  BY <1>1, <1>2, NothingMoves DEF HelperInv
<1> QED BY <1>1, <1>2, <1>3, QuietKept DEF Busy, files

\* The program and its new version move nothing either.
LEMMA StillKept ==
  ASSUME HelperInv, UNCHANGED <<platform, files, pc, moved, notes, lock>> PROVE Kept /\ AloneInv'
<1>1. Copies' = Copies /\ UNCHANGED <<target, backup, incoming, proven, found>>
  BY DEF Copies, files, notes
<1>2. AtInv'
  BY <1>1 DEF HelperInv, AtInv, At, Untouched, Undoable, Saved
<1>3. Guarded'
  BY <1>1 DEF HelperInv, Guarded
<1>4. AloneInv'
  BY DEF HelperInv, AloneInv, Sole, Over
<1> QED BY <1>1, <1>2, <1>3, <1>4 DEF Kept, Promised

LEMMA HelperNext == ASSUME Contained, HelperInv, [Next]_vars PROVE HelperInv' /\ Promised
<1>1. CASE ParentQuits \/ UNCHANGED vars
  <2>1. UNCHANGED <<platform, files, pc, moved, notes, lock, child>>
    BY <1>1 DEF ParentQuits, vars
  <2>2. Typed'
    BY <2>1 DEF HelperInv, Typed, files, notes
  <2> QED BY <2>1, <2>2, StillKept DEF HelperInv, Kept
<1>2. ASSUME NEW h \in Helpers, LaunchHelper(h) \/ Script(h) \/ ChildRuns(h) \/ Crash(h)
      PROVE  HelperInv' /\ Promised
  <2>1. Typed'
    BY <1>2, WaitTyped, SwapTyped, UndoTyped DEF HelperInv, Script
  <2>2. AloneInv'
    BY <1>2, AloneStep DEF HelperInv
  <2>3. CASE ChildRuns(h)
    BY <2>1, <2>2, <2>3, StillKept DEF ChildRuns, HelperInv, Kept
  <2>4. CASE LaunchHelper(h) \/ Crash(h) \/ Script(h)
    <3>1. Kept
      BY <2>4, WaitKept, StageKept, MoveAwayKept, SwitchKept, WatchKept, SettleKept, CleanupKept,
         RemoveIncomingKept, RemoveTargetKept, RestoreKept, EndKept DEF Script
    <3> QED BY <2>1, <2>2, <3>1 DEF HelperInv, Kept
  <2> QED BY <1>2, <2>3, <2>4
<1> QED BY <1>1, <1>2 DEF Next

LEMMA HelperInit == Init => HelperInv /\ Promise!Init
<1>1. Init => Promise!Init
  BY InitCopies DEF Init, Promise!Init
<1> QED BY <1>1, InitTyped, InitAlone, InitAt, InitCopies DEF HelperInv

-----------------------------------------------------------------------------
\* Whoever is killed and whatever fails, a version of the program goes only while
\* another one that has been seen to start is there: the scripts implement
\* Replacement.
THEOREM PromiseKept == ASSUME Contained PROVE Spec => KeepsPromise
<1>1. HelperInv /\ [Next]_vars => HelperInv' /\ [Promise!Next]_<<Copies, proven>>
  BY HelperNext DEF Promised
<1> QED BY HelperInit, <1>1, PTL DEF Spec, KeepsPromise, Promise!Spec

\* The helper lock: $updateLock, the lock directory with its EXIT trap.
THEOREM OneHolds == ASSUME Contained PROVE Spec => []OneInside
<1>1. HelperInv /\ [Next]_vars => HelperInv'
  BY HelperNext
<1>2. HelperInv => OneInside
  <2> SUFFICES ASSUME HelperInv PROVE OneInside
    OBVIOUS
  <2> DEFINE I == {h \in Helpers : pc[h] \in Inside}
  <2>1. CASE I = {}
    BY <2>1, FS_EmptySet DEF OneInside
  <2>2. ASSUME NEW h \in I PROVE OneInside
    <3>1. I = {h}
      BY Lonely
    <3> QED BY <3>1, FS_Singleton DEF OneInside
  <2> QED BY <2>1, <2>2
<1> QED BY HelperInit, <1>1, <1>2, PTL DEF Spec

\* What a helper reports of a swap that succeeded or was undone is true.
THEOREM TruthHolds == ASSUME Contained PROVE Spec => ResultsTruthful
<1>1. HelperInv /\ [Next]_vars => HelperInv'
  BY HelperNext
<1> DEFINE Truth == \A h \in Helpers : result' # result /\ result'.by = h =>
                      /\ result'.what = "success" => target' = h /\ Alive(h)
                      /\ result'.what = "failed_and_rolled_back" => target' = found[h]
<1>2. HelperInv /\ [Next]_vars => [Truth]_vars
  <2> SUFFICES ASSUME HelperInv, Next, NEW h \in Helpers, result' # result, result'.by = h
               PROVE  /\ result'.what = "success" => target' = h /\ Alive(h)
                      /\ result'.what = "failed_and_rolled_back" => target' = found[h]
    OBVIOUS
  <2>1. PICK k \in Helpers : LaunchHelper(k) \/ Script(k)
    BY DEF Next, ParentQuits, ChildRuns, Crash
  <2>2. CASE LaunchHelper(k)
    BY <2>2, Names DEF LaunchHelper, NoResult
  <2>3. CASE Settle(k)
    BY <2>3 DEF Settle, StillThere, HelperInv, AtInv, At, files
  <2>4. CASE ReportFailure(k)
    <3>1. pc[k] = "reporting" /\ target' = target /\ Write(k, "failed_and_rolled_back")
      BY <2>4 DEF ReportFailure, files
    <3>2. result' = [what |-> "failed_and_rolled_back", by |-> k]
      BY <3>1 DEF Write
    <3>3. k = h
      BY <3>2
    <3>4. target = found[h]
      BY <3>1, <3>3 DEF HelperInv, AtInv, At
    <3> QED BY <3>1, <3>2, <3>4
  <2>5. CASE GiveUpWaiting(k)
    <3>1. result' = [what |-> "parent_exit_timeout", by |-> k]
      BY <2>5 DEF GiveUpWaiting
    <3> QED BY <3>1
  <2>6. CASE TakeLock(k)
    <3>1. result' = [what |-> "transaction_lock_failed", by |-> k]
      BY <2>6 DEF TakeLock, Write
    <3> QED BY <3>1
  <2>7. CASE GiveUp(k)
    <3>1. result' = [what |-> "failed_rollback_incomplete", by |-> k]
      BY <2>7 DEF GiveUp, Write
    <3> QED BY <3>1
  <2> QED BY <2>1, <2>2, <2>3, <2>4, <2>5, <2>6, <2>7 DEF Script, Stage, MoveAway, Switch, StartNew, Probe,
                 Cleanup, ExitTrap, RemoveIncoming, RemoveTarget, Restore, RestartOld, ReleaseLock
<1> QED BY HelperInit, <1>1, <1>2, PTL DEF Spec, ResultsTruthful

-----------------------------------------------------------------------------
(***************************************************************************)
(* What was started for the user.                                          *)
(***************************************************************************)
\* Until a helper moves it away the old program is at the path.
Whole == \/ \E h \in Helpers : moved[h]
         \/ target = "old" /\ \A h \in Helpers : pc[h] \in Inside => found[h] = "old"

LEMMA WholeStep ==
  ASSUME HelperInv, Whole, NEW h \in Helpers, LaunchHelper(h) \/ Script(h) \/ ChildRuns(h) \/ Crash(h)
  PROVE  Whole'
<1> USE DEF HelperInv, files, notes, Fail
<1>1. \A k \in Helpers : moved[k] => moved'[k]
  BY DEF Script, LaunchHelper, ChildRuns, Crash, GiveUpWaiting, TakeLock, Stage, MoveAway, Switch, StartNew,
         Probe, Settle, Cleanup, ExitTrap, RemoveIncoming, RemoveTarget, Restore, ReportFailure,
         RestartOld, ReleaseLock, GiveUp, Typed
<1>2. CASE \E k \in Helpers : moved[k]
  BY <1>1, <1>2 DEF Whole
<1>3. CASE \A k \in Helpers : ~moved[k]
  <2> USE <1>3
  <2>1. target = "old" /\ \A k \in Helpers : pc[k] \in Inside => found[k] = "old"
    BY DEF Whole
  <2>2. CASE TakeLock(h)
    <3>1. UNCHANGED <<target, moved>> /\ \A k \in Helpers : pc'[k] \in Inside => pc[k] \in Inside \/ k = h
      BY <2>2 DEF TakeLock, Goto, Typed
    <3>2. \A k \in Helpers : pc'[k] \in Inside => found'[k] = "old"
      BY <2>1, <2>2, <3>1 DEF TakeLock, Goto, Typed, Inside
    <3> QED BY <2>1, <3>1, <3>2 DEF Whole
  <2>3. CASE MoveAway(h) /\ target' # target
    <3>1. moved'[h]
      BY <2>3 DEF MoveAway, Typed
    <3> QED BY <3>1 DEF Whole
  <2>4. CASE ~TakeLock(h) /\ ~(MoveAway(h) /\ target' # target)
    <3>1. UNCHANGED found
      BY <2>4 DEF Script, LaunchHelper, ChildRuns, Crash, GiveUpWaiting, Stage, MoveAway, Switch, StartNew,
         Probe, Settle, Cleanup, ExitTrap, RemoveIncoming, RemoveTarget, Restore, ReportFailure,
         RestartOld, ReleaseLock, GiveUp
    <3>2. ~Switch(h)
      <4>1. SUFFICES ASSUME Switch(h) PROVE FALSE
        OBVIOUS
      <4>2. pc[h] = "away" /\ Saved(h)
        BY <4>1 DEF Switch, AtInv, At
      <4> QED BY <2>1, <4>2 DEF Saved, Inside
    <3>3. RemoveTarget(h) => UNCHANGED target
      BY <2>1 DEF RemoveTarget, OwnTarget, HadOriginal, Inside
    <3>4. Restore(h) => UNCHANGED target
      BY DEF Restore
    <3>5. UNCHANGED target
      BY <2>4, <3>2, <3>3, <3>4 DEF Script, LaunchHelper, ChildRuns, Crash, GiveUpWaiting, Stage, StartNew,
         Probe, Settle, Cleanup, ExitTrap, RemoveIncoming, ReportFailure, RestartOld, ReleaseLock, GiveUp
    <3>6. \A k \in Helpers : pc'[k] \in Inside => pc[k] \in Inside
      BY <2>4 DEF Script, LaunchHelper, ChildRuns, Crash, GiveUpWaiting, Stage, MoveAway, Switch, StartNew,
         Probe, Settle, Cleanup, ExitTrap, RemoveIncoming, RemoveTarget, Restore, ReportFailure,
         RestartOld, ReleaseLock, GiveUp, Goto, Typed, Inside
    <3> QED BY <2>1, <3>1, <3>5, <3>6 DEF Whole
  <2> QED BY <2>2, <2>3, <2>4
<1> QED BY <1>2, <1>3

\* Who watches a version has started it and not seen it end, and so has who
\* reports a success; who reports an undone swap starts what it had found before it
\* gives the lock back, and no helper takes the lock again, so that stays as noted.
Watching(h) == pc[h] \in {"probing", "settling", "cleanup"} => opened[h] = h
Told(h) ==
  result.by = h =>
    /\ result.what = "success" => /\ pc[h] \in {"cleanup", "exiting", "done", "crashed"}
                                  /\ opened[h] = h
    /\ result.what = "failed_and_rolled_back" =>
         /\ pc[h] \in {"reopening", "releasing", "giving up", "exiting", "done", "crashed"}
         /\ pc[h] \in {"releasing", "giving up", "exiting", "done"} /\ found[h] \in Versions
              => opened[h] = found[h]
    /\ result.what = "transaction_lock_failed" =>
         pc[h] = "done" /\ (opened[h] # "none" \/ \E g \in Helpers : moved[g])
OpenInv == /\ Whole /\ opened \in [Helpers -> Contents]
           /\ \A h \in Helpers : Watching(h) /\ Told(h)

LEMMA InitOpen == Init => OpenInv
BY HelperAssumption DEF Init, OpenInv, Watching, Told, NoResult, Whole, Inside, Contents

LEMMA OpenTyped ==
  ASSUME HelperInv, OpenInv, NEW h \in Helpers, LaunchHelper(h) \/ Script(h) \/ ChildRuns(h) \/ Crash(h)
  PROVE  opened' \in [Helpers -> Contents] /\ \A k \in Helpers \ {h} : opened'[k] = opened[k]
<1>1. UNCHANGED opened \/ \E x \in Contents : opened' = [opened EXCEPT ![h] = x]
  BY DEF Script, LaunchHelper, ChildRuns, Crash, GiveUpWaiting, TakeLock, Stage, MoveAway, Switch, StartNew,
         Probe, Settle, Cleanup, ExitTrap, RemoveIncoming, RemoveTarget, Restore, ReportFailure,
         RestartOld, ReleaseLock, GiveUp, Reopen, Drop, Contents, HelperInv, Typed
<1> QED BY <1>1 DEF OpenInv

LEMMA MovedStays ==
  ASSUME Typed, NEW h \in Helpers, LaunchHelper(h) \/ Script(h) \/ ChildRuns(h) \/ Crash(h),
         NEW k \in Helpers, moved[k]
  PROVE  moved'[k]
BY DEF Script, LaunchHelper, ChildRuns, Crash, GiveUpWaiting, TakeLock, Stage, MoveAway, Switch, StartNew,
       Probe, Settle, Cleanup, ExitTrap, RemoveIncoming, RemoveTarget, Restore, ReportFailure,
       RestartOld, ReleaseLock, GiveUp, Typed

\* A step that says nothing of an end: the others are as they were, and it is
\* enough to look at the helper itself.
LEMMA OpenKept ==
  ASSUME HelperInv, OpenInv, NEW h \in Helpers, LaunchHelper(h) \/ Script(h) \/ ChildRuns(h) \/ Crash(h),
         NEW p, Goto(h, p), Watching(h)', Told(h)',
         UNCHANGED result \/ result'.by \in {h, "none"},
         \A k \in Helpers \ {h} : found'[k] = found[k]
  PROVE  OpenInv'
<1>1. Whole' /\ opened' \in [Helpers -> Contents]
  BY WholeStep, OpenTyped DEF OpenInv
<1>2. ASSUME NEW k \in Helpers \ {h} PROVE Watching(k)' /\ Told(k)'
  <2>1. pc'[k] = pc[k] /\ opened'[k] = opened[k] /\ found'[k] = found[k]
    BY OpenTyped DEF Goto, HelperInv, Typed
  <2>2. Watching(k)'
    BY <2>1 DEF OpenInv, Watching
  <2>3. (\E g \in Helpers : moved[g]) => \E g \in Helpers : moved'[g]
    BY MovedStays DEF HelperInv
  <2>4. UNCHANGED result => Told(k)'
    BY <2>1, <2>3 DEF OpenInv, Told
  <2>5. result'.by \in {h, "none"} => Told(k)'
    BY HelperAssumption DEF Told
  <2> QED BY <2>2, <2>4, <2>5
<1> QED BY <1>1, <1>2 DEF OpenInv

\* Places where a helper has reported nothing yet.
Silent == {"idle", "waiting", "late", "verify", "staged", "away", "switched", "probing", "settling",
           "failing", "removing", "restoring", "reporting"}

LEMMA OpenStep ==
  ASSUME HelperInv, OpenInv, NEW h \in Helpers, LaunchHelper(h) \/ Script(h) \/ ChildRuns(h) \/ Crash(h)
  PROVE  OpenInv'
<1> USE DEF HelperInv, notes, Fail
<1>0. pc \in [Helpers -> Places] /\ opened \in [Helpers -> Contents] /\ Watching(h) /\ Told(h)
  BY DEF Typed, OpenInv
<1>1. CASE LaunchHelper(h)
  <2>1. Goto(h, "waiting") /\ result' = NoResult /\ UNCHANGED found
    BY <1>1 DEF LaunchHelper
  <2>2. Watching(h)' /\ Told(h)'
    BY <1>0, <2>1 DEF Watching, Told, Goto, NoResult
  <2> QED BY <2>1, <2>2, OpenKept DEF NoResult
<1>2. CASE GiveUpWaiting(h)
  <2>1. pc[h] = "waiting" /\ UNCHANGED <<opened, found>>
    BY <1>2 DEF GiveUpWaiting
  <2>2. PICK p \in {"late", "done"} : Goto(h, p)
    BY <1>2 DEF GiveUpWaiting
  <2>3. UNCHANGED result \/ result' = [what |-> "parent_exit_timeout", by |-> h]
    BY <1>2 DEF GiveUpWaiting
  <2>4. pc'[h] = p
    BY <1>0, <2>2 DEF Goto
  <2>5. Watching(h)'
    BY <2>4 DEF Watching
  <2>6. CASE UNCHANGED result
    <3>1. Told(h)'
      BY <1>0, <2>1, <2>6 DEF Told
    <3> QED BY <2>1, <2>2, <2>5, <2>6, <3>1, OpenKept
  <2>7. CASE result' = [what |-> "parent_exit_timeout", by |-> h]
    <3>1. Told(h)'
      BY <2>7 DEF Told
    <3> QED BY <2>1, <2>2, <2>5, <2>7, <3>1, OpenKept
  <2> QED BY <2>3, <2>6, <2>7
<1>3. CASE TakeLock(h)
  <2>1. pc[h] \in {"waiting", "late"} /\ UNCHANGED moved /\ \A k \in Helpers \ {h} : found'[k] = found[k]
    BY <1>3 DEF TakeLock, Typed
  <2>2. CASE Goto(h, "verify") /\ UNCHANGED result
    <3>1. Watching(h)' /\ Told(h)'
      BY <1>0, <2>1, <2>2 DEF Watching, Told, Goto
    <3> QED BY <2>1, <2>2, <3>1, OpenKept
  <2>3. CASE Goto(h, "done") /\ UNCHANGED result
    <3>1. Watching(h)' /\ Told(h)'
      BY <1>0, <2>1, <2>3 DEF Watching, Told, Goto
    <3> QED BY <2>1, <2>3, <3>1, OpenKept
  <2>4. CASE Goto(h, "done") /\ result' = [what |-> "transaction_lock_failed", by |-> h] /\ Reopen(h)
    <3>1. pc'[h] = "done"
      BY <1>0, <2>4 DEF Goto
    <3>2. opened'[h] # "none" \/ \E g \in Helpers : moved[g]
      BY <1>0, <2>4 DEF Reopen, OpenInv, Whole, Versions
    <3>3. Watching(h)' /\ Told(h)'
      BY <2>1, <2>4, <3>1, <3>2 DEF Watching, Told
    <3> QED BY <2>1, <2>4, <3>3, OpenKept
  <2> QED BY <1>3, <2>2, <2>3, <2>4 DEF TakeLock, Write
<1>4. CASE Stage(h) \/ MoveAway(h) \/ Switch(h) \/ RemoveIncoming(h) \/ RemoveTarget(h) \/ Restore(h)
  <2>1. UNCHANGED <<result, found>> /\ pc[h] \in Silent \ {"settling"}
    BY <1>4 DEF Stage, MoveAway, Switch, RemoveIncoming, RemoveTarget, Restore, Silent
  <2>2. PICK p \in {"staged", "failing", "away", "switched", "removing", "restoring", "reporting",
                    "giving up"} : Goto(h, p)
    BY <1>4 DEF Stage, MoveAway, Switch, RemoveIncoming, RemoveTarget, Restore
  <2>3. Watching(h)' /\ Told(h)'
    BY <1>0, <2>1, <2>2 DEF Watching, Told, Goto, Silent
  <2> QED BY <2>1, <2>2, <2>3, OpenKept
<1>5. CASE StartNew(h)
  <2>1. UNCHANGED <<result, found>> /\ pc[h] = "switched" /\ target = h
    BY <1>5 DEF StartNew, AtInv, At
  <2>2. PICK p \in {"probing", "failing"} : Goto(h, p)
    BY <1>5 DEF StartNew
  <2>3. p = "probing" => opened'[h] = h
    BY <1>0, <1>5, <2>1, <2>2 DEF StartNew, Goto
  <2>4. Watching(h)' /\ Told(h)'
    BY <1>0, <2>1, <2>2, <2>3 DEF Watching, Told, Goto
  <2> QED BY <2>1, <2>2, <2>4, OpenKept
<1>6. CASE Probe(h)
  <2>1. UNCHANGED <<result, found>> /\ pc[h] = "probing"
    BY <1>6 DEF Probe
  <2>2. (Goto(h, "settling") /\ UNCHANGED opened) \/ Goto(h, "failing")
    BY <1>6 DEF Probe
  <2>3. Watching(h)' /\ Told(h)'
    BY <1>0, <2>1, <2>2 DEF Watching, Told, Goto
  <2> QED BY <2>1, <2>2, <2>3, OpenKept
<1>7. CASE Settle(h)
  <2>1. UNCHANGED found /\ pc[h] = "settling" /\ opened[h] = h
    BY <1>0, <1>7 DEF Settle, Watching
  <2>2. CASE Goto(h, "cleanup") /\ UNCHANGED opened /\ result' \in {result, [what |-> "success", by |-> h]}
    <3>1. Watching(h)' /\ Told(h)'
      BY <1>0, <2>1, <2>2 DEF Watching, Told, Goto
    <3> QED BY <2>1, <2>2, <3>1, OpenKept
  <2>3. CASE Goto(h, "failing") /\ UNCHANGED result
    <3>1. Watching(h)' /\ Told(h)'
      BY <1>0, <2>1, <2>3 DEF Watching, Told, Goto
    <3> QED BY <2>1, <2>3, <3>1, OpenKept
  <2> QED BY <1>7, <2>2, <2>3 DEF Settle
<1>8. CASE Cleanup(h) \/ ExitTrap(h) \/ ReleaseLock(h) \/ Crash(h)
  <2>1. UNCHANGED <<opened, result, found, moved>> /\ pc[h] \notin {"idle", "done", "crashed"}
    BY <1>8 DEF Cleanup, ExitTrap, ReleaseLock, Crash
  <2>2. PICK p \in {"exiting", "done", "crashed"} : Goto(h, p)
    BY <1>8 DEF Cleanup, ExitTrap, ReleaseLock, Crash
  <2>3. p # "crashed" => pc[h] \in {"cleanup", "exiting", "releasing"}
    <3>1. Crash(h) => pc'[h] = "crashed" /\ pc'[h] = p
      BY <1>0, <2>2 DEF Crash, Goto
    <3> QED BY <1>8, <3>1 DEF Cleanup, ExitTrap, ReleaseLock
  <2>4. pc'[h] = p
    BY <1>0, <2>2 DEF Goto
  <2>5. Watching(h)' /\ Told(h)'
    BY <1>0, <2>1, <2>3, <2>4 DEF Watching, Told
  <2> QED BY <2>1, <2>2, <2>5, OpenKept
<1>9. CASE ReportFailure(h)
  <2>1. pc[h] = "reporting" /\ Write(h, "failed_and_rolled_back") /\ UNCHANGED found /\ Goto(h, "reopening")
    BY <1>9 DEF ReportFailure
  <2>2. result' \in {result, [what |-> "failed_and_rolled_back", by |-> h]}
    BY <2>1 DEF Write
  <2>3. Watching(h)' /\ Told(h)'
    BY <1>0, <2>1, <2>2 DEF Watching, Told, Goto
  <2> QED BY <2>1, <2>2, <2>3, OpenKept
<1>10. CASE RestartOld(h)
  <2>1. pc[h] = "reopening" /\ UNCHANGED <<result, found>> /\ target = found[h] /\ Reopen(h)
    BY <1>10 DEF RestartOld, AtInv, At
  <2>2. PICK p \in {"releasing", "giving up"} : Goto(h, p)
    BY <1>10 DEF RestartOld
  <2>3. found[h] \in Versions => opened'[h] = found[h]
    BY <1>0, <2>1 DEF Reopen
  <2>4. pc'[h] = p
    BY <1>0, <2>2 DEF Goto
  <2>5. Watching(h)' /\ Told(h)'
    BY <1>0, <2>1, <2>2, <2>3, <2>4 DEF Watching, Told
  <2> QED BY <2>1, <2>2, <2>5, OpenKept
<1>11. CASE GiveUp(h)
  <2>1. pc[h] = "giving up" /\ Goto(h, "done") /\ UNCHANGED <<opened, found, moved>>
    BY <1>11 DEF GiveUp
  <2>2. UNCHANGED result \/ result' = [what |-> "failed_rollback_incomplete", by |-> h]
    BY <1>11 DEF GiveUp, Write
  <2>3. pc'[h] = "done"
    BY <1>0, <2>1 DEF Goto
  <2>4. Watching(h)'
    BY <2>3 DEF Watching
  <2>5. CASE UNCHANGED result
    <3>1. Told(h)'
      BY <1>0, <2>1, <2>3, <2>5 DEF Told
    <3> QED BY <2>1, <2>4, <2>5, <3>1, OpenKept
  <2>6. CASE result' = [what |-> "failed_rollback_incomplete", by |-> h]
    <3>1. Told(h)'
      BY <2>6 DEF Told
    <3> QED BY <2>1, <2>4, <2>6, <3>1, OpenKept
  <2> QED BY <2>2, <2>5, <2>6
<1>12. CASE ChildRuns(h)
  <2>1. Whole' /\ opened' \in [Helpers -> Contents] /\ UNCHANGED <<pc, opened, result, found, moved>>
    BY <1>12, WholeStep, OpenTyped DEF ChildRuns, OpenInv
  <2> QED BY <2>1 DEF OpenInv, Watching, Told
<1> QED BY <1>1, <1>2, <1>3, <1>4, <1>5, <1>6, <1>7, <1>8, <1>9, <1>10, <1>11, <1>12 DEF Script

\* Whatever a helper reports in the end, it has itself started a program for the
\* user: the release it watched, or again the very program it had found, or, turned
\* away at the lock, the one at the path.
THEOREM ReopenedHolds == ASSUME Contained PROVE Spec => []ProgramReopened
<1>1. HelperInv /\ [Next]_vars => HelperInv'
  BY HelperNext
<1>2. HelperInv /\ OpenInv /\ [Next]_vars => OpenInv'
  <2>1. HelperInv /\ OpenInv /\ (ParentQuits \/ UNCHANGED vars) => OpenInv'
    <3> SUFFICES ASSUME OpenInv, ParentQuits \/ UNCHANGED vars PROVE OpenInv'
      OBVIOUS
    <3>1. UNCHANGED <<target, pc, moved, result, opened, found>>
      BY DEF ParentQuits, vars, files, notes
    <3>2. Whole' /\ opened' \in [Helpers -> Contents]
      BY <3>1 DEF OpenInv, Whole
    <3>3. ASSUME NEW h \in Helpers PROVE Watching(h)' /\ Told(h)'
      BY <3>1 DEF OpenInv, Watching, Told
    <3> QED BY <3>2, <3>3 DEF OpenInv
  <2> QED BY <2>1, OpenStep DEF Next
<1>3. OpenInv => ProgramReopened
  BY DEF OpenInv, Told, ProgramReopened
<1> QED BY HelperInit, InitOpen, <1>1, <1>2, <1>3, PTL DEF Spec
=============================================================================
