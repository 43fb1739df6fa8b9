--------------------------- MODULE StartupProofs ---------------------------
(***************************************************************************)
(* Three properties of the start-up and of the migration of the legacy     *)
(* profile, proved for any folders, any processes and any number of saves, *)
(* keys and starts: processes keep out of one another's data, whatever     *)
(* crashes nothing that was saved before a hand-over is lost, and data     *)
(* keeps the key it was saved under.                                       *)
(***************************************************************************)
EXTENDS Startup, TLAPS

-----------------------------------------------------------------------------
(***************************************************************************)
(* The locks.                                                              *)
(***************************************************************************)
USE DEF own

Migrating == {"copying", "copied", "switched"}

LockTyped == /\ pc \in [Procs -> Steps] /\ lock \in [Roots -> Procs \cup {Nobody}]
             /\ DOMAIN dir = Roots

\* Who has got that far in its start holds the lock it asked for.
HoldsLock(p) ==
  /\ pc[p] \in {"opening", "keying", "running"} => lock[RootOf[p]] = p
  /\ pc[p] \in Migrating \cup {"unlocking"} => lock["legacy"] = p
  /\ pc[p] \in Migrating => RootOf[p] # "legacy"

LockInv == LockTyped /\ \A p \in Procs : HoldsLock(p)

LEMMA LockInit == Init => LockInv
<1> SUFFICES ASSUME Init PROVE LockInv
  OBVIOUS
<1>1. LockTyped
  BY DEF Init, LockTyped, Steps, Roots
<1>2. ASSUME NEW p \in Procs PROVE HoldsLock(p)
  BY DEF Init, HoldsLock, Migrating
<1> QED BY <1>1, <1>2 DEF LockInv

\* A process that moves on, its locks being what its new place asks for, while no
\* other loses a lock.
LEMMA LockMoves ==
  ASSUME LockInv, NEW p \in Procs, NEW step \in Steps, Goto(p, step), DOMAIN dir' = Roots,
         lock' \in [Roots -> Procs \cup {Nobody}],
         \A r \in Roots : lock[r] \in Procs \ {p} => lock'[r] = lock[r],
         HoldsLock(p)'
  PROVE  LockInv'
<1>1. pc' \in [Procs -> Steps]
  BY DEF Goto, LockInv, LockTyped
<1>2. ASSUME NEW q \in Procs PROVE HoldsLock(q)'
  <2>1. CASE q = p
    BY <2>1
  <2>2. CASE q # p
    <3>1. pc'[q] = pc[q]
      BY <2>2 DEF Goto, LockInv, LockTyped
    <3>2. HoldsLock(q) /\ RootOf[q] \in Roots /\ "legacy" \in Roots
      BY StartupAssumption DEF LockInv, Roots
    <3> QED BY <2>2, <3>1, <3>2 DEF HoldsLock
  <2> QED BY <2>1, <2>2
<1> QED BY <1>1, <1>2 DEF LockInv, LockTyped

LEMMA UnlockedGives ==
  ASSUME LockInv, NEW p \in Procs
  PROVE  /\ Unlocked(p) \in [Roots -> Procs \cup {Nobody}]
         /\ \A r \in Roots : lock[r] \in Procs \ {p} => Unlocked(p)[r] = lock[r]
  BY DEF Unlocked, LockInv, LockTyped

\* However a process ends.
LEMMA LockLeave == ASSUME LockInv, NEW p \in Procs, Leave(p) PROVE LockInv'
<1>1. Goto(p, "off") /\ "off" \in Steps /\ lock' = Unlocked(p) /\ UNCHANGED dir
  BY DEF Leave, Steps
<1>2. pc'[p] = "off"
  BY <1>1 DEF Goto, LockInv, LockTyped
<1>3. HoldsLock(p)'
  BY <1>2 DEF HoldsLock, Migrating
<1>4. DOMAIN dir' = Roots
  BY <1>1 DEF LockInv, LockTyped
<1> QED BY <1>1, <1>3, <1>4, UnlockedGives, LockMoves

LEMMA LockStep ==
  ASSUME LockInv, NEW p \in Procs, Start(p) \/ Step(p) \/ RemoveFails(p)
  PROVE  LockInv'
<1>0. /\ pc \in [Procs -> Steps] /\ lock \in [Roots -> Procs \cup {Nobody}] /\ DOMAIN dir = Roots
      /\ HoldsLock(p) /\ RootOf[p] \in Roots /\ "legacy" \in Roots
  BY StartupAssumption DEF LockInv, LockTyped, Roots
<1>1. ASSUME NEW step \in Steps \ (Migrating \cup {"opening", "keying", "running", "unlocking"}),
             Goto(p, step), UNCHANGED lock, DOMAIN dir' = Roots
      PROVE  LockInv'
  <2>1. pc'[p] = step
    BY <1>0, <1>1 DEF Goto
  <2>2. HoldsLock(p)'
    BY <1>1, <2>1 DEF HoldsLock
  <2> QED BY <1>0, <1>1, <2>2, LockMoves
<1>2. CASE Start(p) \/ NothingToMigrate(p) \/ Clean(p) \/ ConfigureLogging(p) \/ RemoveFails(p)
  <2>1. /\ UNCHANGED lock /\ DOMAIN dir' = Roots
        /\ \E step \in {"started", "logging", "removing", "locking"} : Goto(p, step)
    BY <1>0, <1>2 DEF Start, NothingToMigrate, Clean, ConfigureLogging, RemoveFails, made
  <2>2. {"started", "logging", "removing", "locking"}
          \subseteq Steps \ (Migrating \cup {"opening", "keying", "running", "unlocking"})
    BY DEF Steps, Migrating
  <2> QED BY <1>1, <2>1, <2>2
<1>3. CASE LegacyInUse(p) \/ AlreadyRunning(p)
  BY <1>3, LockLeave DEF LegacyInUse, AlreadyRunning
<1>4. CASE LockLegacy(p)
  <2>1. PICK step \in {"unlocking", "copying"} : Goto(p, step)
    BY <1>4 DEF LockLegacy
  <2>2. /\ RootOf[p] # "legacy" /\ lock["legacy"] = Nobody
        /\ lock' = [lock EXCEPT !["legacy"] = p] /\ UNCHANGED dir
    BY <1>4 DEF LockLegacy, ToMigrate
  <2>3. pc'[p] = step /\ step \in Steps
    BY <1>0, <2>1 DEF Goto, Steps
  <2>4. HoldsLock(p)'
    BY <1>0, <2>1, <2>2, <2>3 DEF HoldsLock, Migrating
  <2> QED BY <1>0, <2>1, <2>2, <2>3, <2>4, StartupAssumption, LockMoves
<1>5. CASE Copy(p) \/ Switch(p) \/ Mark(p)
  <2>1. PICK step \in {"copied", "switched", "unlocking"} : Goto(p, step)
    BY <1>5 DEF Copy, Switch, Mark
  <2>2. pc[p] \in Migrating /\ UNCHANGED lock /\ DOMAIN dir' = Roots
    BY <1>0, <1>5 DEF Copy, Switch, Mark, Migrating
  <2>3. pc'[p] = step /\ step \in Steps
    BY <1>0, <2>1 DEF Goto, Steps
  <2>4. HoldsLock(p)'
    BY <1>0, <2>1, <2>2, <2>3 DEF HoldsLock, Migrating
  <2> QED BY <1>0, <2>1, <2>2, <2>3, <2>4, LockMoves
<1>6. CASE Unlock(p)
  <2>1. PICK step \in {"cleaning", "logging"} : Goto(p, step)
    BY <1>6 DEF Unlock
  <2>2. lock' = Unlocked(p) /\ UNCHANGED dir
    BY <1>6 DEF Unlock
  <2>3. pc'[p] = step /\ step \in Steps
    BY <1>0, <2>1 DEF Goto, Steps
  <2>4. HoldsLock(p)'
    BY <2>1, <2>3 DEF HoldsLock, Migrating
  <2> QED BY <1>0, <2>1, <2>2, <2>3, <2>4, UnlockedGives, LockMoves
<1>7. CASE Remove(p)
  <2>1. UNCHANGED lock /\ DOMAIN dir' = Roots
    BY <1>0, <1>7 DEF Remove
  <2>2. CASE UNCHANGED pc
    BY <1>0, <2>1, <2>2 DEF LockInv, LockTyped, HoldsLock
  <2>3. CASE Goto(p, "logging")
    BY <1>1, <2>1, <2>3 DEF Steps, Migrating
  <2> QED BY <1>7, <2>2, <2>3 DEF Remove
<1>8. CASE AcquireInstanceLock(p)
  <2>1. /\ Goto(p, "opening") /\ lock[RootOf[p]] = Nobody
        /\ lock' = [lock EXCEPT ![RootOf[p]] = p] /\ DOMAIN dir' = Roots
    BY <1>0, <1>8 DEF AcquireInstanceLock
  <2>2. pc'[p] = "opening" /\ "opening" \in Steps
    BY <1>0, <2>1 DEF Goto, Steps
  <2>3. HoldsLock(p)'
    BY <1>0, <2>1, <2>2 DEF HoldsLock, Migrating
  <2> QED BY <1>0, <2>1, <2>2, <2>3, StartupAssumption, LockMoves
<1>9. CASE Initialize(p) \/ CreateMainWindow(p)
  <2>1. PICK step \in {"keying", "running"} : Goto(p, step)
    BY <1>9 DEF Initialize, CreateMainWindow
  <2>2. pc[p] \in {"opening", "keying"} /\ UNCHANGED lock /\ DOMAIN dir' = Roots
    BY <1>0, <1>9 DEF Initialize, CreateMainWindow, LoadKey, MakeKey
  <2>3. pc'[p] = step /\ step \in Steps
    BY <1>0, <2>1 DEF Goto, Steps
  <2>4. HoldsLock(p)'
    BY <1>0, <2>1, <2>2, <2>3 DEF HoldsLock, Migrating
  <2> QED BY <1>0, <2>1, <2>2, <2>3, <2>4, LockMoves
<1>10. CASE KeyRefused(p)
  BY <1>10, LockLeave DEF KeyRefused
<1> QED BY <1>2, <1>3, <1>4, <1>5, <1>6, <1>7, <1>8, <1>9, <1>10 DEF Step

LEMMA LockNext == LockInv /\ [Next]_vars => LockInv'
<1> SUFFICES ASSUME LockInv, [Next]_vars PROVE LockInv'
  OBVIOUS
<1>1. ASSUME NEW p \in Procs, Start(p) \/ Step(p) \/ RemoveFails(p) PROVE LockInv'
  BY <1>1, LockStep
<1>2. ASSUME NEW p \in Procs, MigrationFails(p) \/ Quit(p) \/ Crash(p) PROVE LockInv'
  BY <1>2, LockLeave DEF MigrationFails, Quit, Crash
<1>3. ASSUME NEW p \in Procs, Save(p) PROVE LockInv'
  BY <1>3 DEF Save, LockInv, LockTyped, HoldsLock
<1>4. CASE UNCHANGED vars
  BY <1>4 DEF vars, LockInv, LockTyped, HoldsLock
<1> QED BY <1>1, <1>2, <1>3, <1>4 DEF Next

\* acquire_instance_lock and the lock of the legacy root in
\* migrate_legacy_data_for_startup: one process on a root, and none on a profile
\* that another copies.
THEOREM AloneHolds == Spec => []Alone
<1>1. LockInv => Alone
  BY StartupAssumption DEF LockInv, LockTyped, HoldsLock, Migrating, Alone
<1> QED BY LockInit, LockNext, <1>1, PTL DEF Spec
-----------------------------------------------------------------------------
(***************************************************************************)
(* The shape of a profile.                                                 *)
(***************************************************************************)
Formed(d) == DOMAIN d = {"there", "files", "data", "key", "marker", "torn"}

Shaped == /\ dir = [r \in Roots |-> dir[r]] /\ temp = [p \in Procs |-> temp[p]]
          /\ \A r \in Roots : Formed(dir[r])
          /\ \A p \in Procs : Formed(temp[p])

LEMMA AbsentFormed == Formed(Absent) /\ Formed(OldProfile)
  BY DEF Absent, OldProfile, Formed

LEMMA ShapedInit == Init => Shaped
  BY AbsentFormed DEF Init, Shaped

\* One root is written, with a profile, or the profile of one process.
LEMMA ShapedWrite ==
  ASSUME Shaped, NEW r \in Roots, NEW d, Formed(d), dir' = [dir EXCEPT ![r] = d],
         UNCHANGED temp \/ (\E p \in Procs : temp' = [temp EXCEPT ![p] = Absent])
  PROVE  Shaped'
  BY AbsentFormed DEF Shaped

LEMMA ShapedNext == LockInv /\ Shaped /\ [Next]_vars => Shaped'
<1> SUFFICES ASSUME LockInv, Shaped, [Next]_vars PROVE Shaped'
  OBVIOUS
<1> USE DEF made
<1>0. /\ dir = [r \in Roots |-> dir[r]] /\ temp = [p \in Procs |-> temp[p]]
      /\ \A r \in Roots : Formed(dir[r])
      /\ "legacy" \in Roots /\ \A p \in Procs : RootOf[p] \in Roots /\ Formed(temp[p])
  BY StartupAssumption DEF Shaped, Roots
<1>1. ASSUME NEW p \in Procs, Leave(p) PROVE Shaped'
  BY <1>0, <1>1, AbsentFormed DEF Leave, Shaped
<1>2. ASSUME NEW p \in Procs,
             Start(p) \/ NothingToMigrate(p) \/ LockLegacy(p) \/ Unlock(p) \/ Clean(p) \/ RemoveFails(p)
      PROVE  Shaped'
  BY <1>0, <1>2 DEF Start, NothingToMigrate, LockLegacy, Unlock, Clean, RemoveFails, Shaped
<1>3. ASSUME NEW p \in Procs, Copy(p) PROVE Shaped'
  <2>1. Formed(Profile)
    BY <1>0 DEF Profile, Legacy, Formed
  <2> QED BY <1>0, <1>3, <2>1 DEF Copy, Shaped
<1>4. ASSUME NEW p \in Procs, Switch(p) PROVE Shaped'
  BY <1>0, <1>4, ShapedWrite DEF Switch
<1>5. ASSUME NEW p \in Procs, Mark(p) PROVE Shaped'
  <2> DEFINE d == [Legacy EXCEPT !.files = @ \cup {"marker"}, !.marker = RootOf[p]]
  <2>1. Formed(d)
    BY <1>0 DEF Formed, Legacy
  <2>2. dir' = [dir EXCEPT !["legacy"] = d] /\ UNCHANGED temp
    BY <1>0, <1>5 DEF Mark, Legacy
  <2> QED BY <1>0, <2>1, <2>2, ShapedWrite
<1>6. ASSUME NEW p \in Procs, Remove(p) PROVE Shaped'
  <2>1. ASSUME NEW f PROVE Formed(Without(Legacy, f))
    BY <1>0 DEF Without, Legacy, Formed
  <2>2. PICK d : Formed(d) /\ dir' = [dir EXCEPT !["legacy"] = d]
    BY <1>0, <1>6, <2>1, AbsentFormed DEF Remove, Legacy
  <2> QED BY <1>0, <1>6, <2>2, ShapedWrite DEF Remove
<1>7. ASSUME NEW p \in Procs, ConfigureLogging(p) PROVE Shaped'
  <2> DEFINE d == [Portable(p) EXCEPT !.there = TRUE, !.files = @ \cup {"logs"}]
  <2>1. Formed(d)
    BY <1>0 DEF Formed, Portable
  <2>2. dir' = [dir EXCEPT ![RootOf[p]] = d] /\ UNCHANGED temp
    BY <1>0, <1>7 DEF ConfigureLogging, Portable
  <2> QED BY <1>0, <2>1, <2>2, ShapedWrite
<1>8. ASSUME NEW p \in Procs, AcquireInstanceLock(p) PROVE Shaped'
  <2> DEFINE d == [Portable(p) EXCEPT !.there = TRUE]
  <2>1. Formed(d)
    BY <1>0 DEF Formed, Portable
  <2>2. dir' = [dir EXCEPT ![RootOf[p]] = d] /\ UNCHANGED temp
    BY <1>0, <1>8 DEF AcquireInstanceLock, Portable
  <2> QED BY <1>0, <2>1, <2>2, ShapedWrite
<1>9. ASSUME NEW p \in Procs, Initialize(p) \/ CreateMainWindow(p) PROVE Shaped'
  <2> DEFINE r == RootOf[p]
             i == [dir[r] EXCEPT !.there = TRUE, !.files = @ \cup {"db"}]
             k == [dir[r] EXCEPT !.there = TRUE, !.files = @ \cup {"key"},
                                 !.key = [path |-> r, id |-> keys + 1]]
  <2>1. Formed(i) /\ Formed(k) /\ UNCHANGED temp
    BY <1>0, <1>9 DEF Formed, Initialize, CreateMainWindow
  <2>2. UNCHANGED dir \/ dir' = [dir EXCEPT ![r] = i] \/ dir' = [dir EXCEPT ![r] = k]
    BY <1>0, <1>9 DEF Initialize, CreateMainWindow, LoadKey, MakeKey
  <2>3. CASE UNCHANGED dir
    BY <2>1, <2>3 DEF Shaped
  <2>4. CASE \E d : Formed(d) /\ dir' = [dir EXCEPT ![r] = d]
    BY <1>0, <2>1, <2>4, ShapedWrite
  <2> HIDE DEF i, k
  <2> QED BY <2>1, <2>2, <2>3, <2>4
<1>10. ASSUME NEW p \in Procs, Save(p) PROVE Shaped'
  <2> DEFINE r == RootOf[p]
             d == [dir[r] EXCEPT !.data = @ \cup {[id |-> saves + 1, key |-> cipher[p]]}]
  <2>1. Formed(d)
    BY <1>0 DEF Formed
  <2>2. dir' = [dir EXCEPT ![r] = d] /\ UNCHANGED temp
    BY <1>0, <1>10 DEF Save
  <2> QED BY <1>0, <2>1, <2>2, ShapedWrite
<1>11. CASE UNCHANGED vars
  BY <1>11 DEF vars, Shaped
<1> QED BY <1>1, <1>2, <1>3, <1>4, <1>5, <1>6, <1>7, <1>8, <1>9, <1>10, <1>11
        DEF Next, Step, LegacyInUse, AlreadyRunning, KeyRefused, MigrationFails, Quit, Crash
-----------------------------------------------------------------------------
(***************************************************************************)
(* What was saved.                                                         *)
(***************************************************************************)
\* A save the removal of the legacy profile may take: it is in a portable root, or
\* was made in a profile that had been handed over.
Elsewhere(s) == s.id \in late \/ \E r \in Installs : s \in dir[r].data
Backed       == \A s \in Legacy.data : Elsewhere(s)

\* Data needs a database.
Housed == /\ \A r \in Roots : "db" \notin dir[r].files => dir[r].data = {}
          /\ \A p \in Procs : "db" \notin temp[p].files => temp[p].data = {}

\* How far the migration has brought the data, and who may take the original.
Brought == /\ Legacy.marker # Nobody => handed /\ Backed
           /\ \A p \in Procs :
                /\ pc[p] \in {"removing", "switched"} => Backed
                /\ pc[p] = "copied" => \A s \in Legacy.data : s \in temp[p].data \/ Elsewhere(s)

SaveInv == saves \in Nat /\ Housed /\ Brought /\ NothingLost
IInv    == LockInv /\ Shaped /\ SaveInv

LEMMA SaveInit == Init => SaveInv
<1> SUFFICES ASSUME Init PROVE SaveInv
  OBVIOUS
<1>1. CASE dir = [r \in Roots |-> Absent] /\ saves = 0
  BY <1>1, StartupAssumption
     DEF Init, Absent, SaveInv, Housed, Brought, NothingLost, Legacy, Roots
<1>2. CASE dir = [r \in Roots |-> IF r = "legacy" THEN OldProfile ELSE Absent] /\ saves = 1
  <2>1. /\ dir["legacy"] = OldProfile /\ OldProfile.data = {[id |-> 1, key |-> 1]}
        /\ OldProfile.marker = Nobody /\ "db" \in OldProfile.files /\ "legacy" \in Roots
    BY <1>2 DEF OldProfile, Absent, Roots
  <2>2. Housed
    BY <1>2, <2>1 DEF Init, Housed, Absent
  <2>3. Brought
    BY <2>1 DEF Init, Brought, Legacy
  <2>4. NothingLost
    <3>1. \A i \in 1..saves : i = 1
      BY <1>2
    <3>2. \E s \in dir["legacy"].data : s.id = 1
      BY <2>1
    <3> QED BY <2>1, <3>1, <3>2 DEF NothingLost
  <2> QED BY <1>2, <2>2, <2>3, <2>4 DEF SaveInv
<1> QED BY <1>1, <1>2 DEF Init

\* A step that keeps all data where it is, and takes nobody further in a migration.
LEMMA SavesKept ==
  ASSUME SaveInv, UNCHANGED <<saves, late, handed>>,
         \A r \in Roots : dir'[r].data = dir[r].data /\ dir[r].files \subseteq dir'[r].files,
         dir'["legacy"].marker = dir["legacy"].marker,
         \A p \in Procs : /\ pc'[p] \in {"removing", "switched", "copied"} => pc'[p] = pc[p]
                          /\ \/ temp'[p] = temp[p]
                             \/ temp'[p] = Absent /\ pc'[p] # "copied"
  PROVE  SaveInv'
<1>1. Housed'
  BY DEF SaveInv, Housed, Absent
<1>2. \A s : Elsewhere(s) => Elsewhere(s)'
  BY DEF Elsewhere, Roots
<1>3. Legacy'.data = Legacy.data /\ Legacy'.marker = Legacy.marker
  BY DEF Legacy, Roots
<1>4. Backed => Backed'
  BY <1>2, <1>3 DEF Backed
<1>5. Brought'
  BY <1>2, <1>3, <1>4 DEF SaveInv, Brought
<1>6. NothingLost'
  BY DEF SaveInv, NothingLost
<1> QED BY <1>1, <1>5, <1>6 DEF SaveInv

LEMMA SaveLeave == ASSUME IInv, NEW p \in Procs, Leave(p) PROVE SaveInv'
<1>1. pc' = [pc EXCEPT ![p] = "off"] /\ temp' = [temp EXCEPT ![p] = Absent]
        /\ UNCHANGED <<dir, saves, late, handed>>
  BY DEF Leave, Goto, made
<1>2. \A q \in Procs : /\ pc'[q] \in {"removing", "switched", "copied"} => pc'[q] = pc[q]
                       /\ temp'[q] = temp[q] \/ (temp'[q] = Absent /\ pc'[q] # "copied")
  BY <1>1 DEF IInv, LockInv, LockTyped, Shaped
<1> QED BY <1>1, <1>2, SavesKept DEF IInv

\* The steps of a start that only move on, and those that only add files.
LEMMA SaveMoves ==
  ASSUME IInv, NEW p \in Procs,
         \/ Start(p) \/ NothingToMigrate(p) \/ LockLegacy(p) \/ Unlock(p) \/ RemoveFails(p)
         \/ ConfigureLogging(p) \/ AcquireInstanceLock(p) \/ Initialize(p) \/ CreateMainWindow(p)
  PROVE  SaveInv'
<1>0. /\ dir = [r \in Roots |-> dir[r]] /\ \A r \in Roots : Formed(dir[r])
      /\ RootOf[p] \in Roots
  BY StartupAssumption DEF IInv, Shaped
<1>1. UNCHANGED <<saves, late, handed, temp>>
  BY DEF Start, NothingToMigrate, LockLegacy, Unlock, RemoveFails, ConfigureLogging,
         AcquireInstanceLock, Initialize, CreateMainWindow, made
<1>2. PICK step \in {"started", "logging", "unlocking", "copying", "cleaning", "locking",
                     "opening", "keying", "running"} : Goto(p, step)
  BY DEF Start, NothingToMigrate, LockLegacy, Unlock, RemoveFails, ConfigureLogging,
         AcquireInstanceLock, Initialize, CreateMainWindow
<1>3. \A q \in Procs : pc'[q] \in {"removing", "switched", "copied"} => pc'[q] = pc[q]
  BY <1>2 DEF Goto, IInv, LockInv, LockTyped
<1>4. CASE UNCHANGED dir
  BY <1>1, <1>3, <1>4, SavesKept DEF IInv
<1>5. ASSUME NEW d, dir' = [dir EXCEPT ![RootOf[p]] = d], d.data = Portable(p).data,
             Portable(p).files \subseteq d.files, d.marker = Portable(p).marker
      PROVE  SaveInv'
  <2>1. \A r \in Roots : dir'[r].data = dir[r].data /\ dir[r].files \subseteq dir'[r].files
    BY <1>0, <1>5 DEF Portable
  <2>2. dir'["legacy"].marker = dir["legacy"].marker
    BY <1>0, <1>5 DEF Portable, Roots
  <2> QED BY <1>1, <1>3, <2>1, <2>2, SavesKept DEF IInv
<1>6. CASE ConfigureLogging(p) \/ AcquireInstanceLock(p)
  <2>1. Formed(Portable(p))
    BY <1>0 DEF Portable
  <2>2. CASE ConfigureLogging(p)
    <3> DEFINE d == [Portable(p) EXCEPT !.there = TRUE, !.files = @ \cup {"logs"}]
    <3>1. dir' = [dir EXCEPT ![RootOf[p]] = d]
      BY <1>0, <2>2 DEF ConfigureLogging, Portable
    <3>2. d.data = Portable(p).data /\ Portable(p).files \subseteq d.files
            /\ d.marker = Portable(p).marker
      BY <2>1 DEF Formed
    <3> QED BY <1>5, <3>1, <3>2
  <2>3. CASE AcquireInstanceLock(p)
    <3> DEFINE d == [Portable(p) EXCEPT !.there = TRUE]
    <3>1. dir' = [dir EXCEPT ![RootOf[p]] = d]
      BY <1>0, <2>3 DEF AcquireInstanceLock, Portable
    <3>2. d.data = Portable(p).data /\ Portable(p).files \subseteq d.files
            /\ d.marker = Portable(p).marker
      BY <2>1 DEF Formed
    <3> QED BY <1>5, <3>1, <3>2
  <2> QED BY <1>6, <2>2, <2>3
<1>7. CASE Initialize(p) \/ CreateMainWindow(p)
  <2> DEFINE i == [Portable(p) EXCEPT !.there = TRUE, !.files = @ \cup {"db"}]
             k == [Portable(p) EXCEPT !.there = TRUE, !.files = @ \cup {"key"},
                                      !.key = [path |-> RootOf[p], id |-> keys + 1]]
  <2>1. Formed(Portable(p))
    BY <1>0 DEF Portable
  <2>2. /\ i.data = Portable(p).data /\ Portable(p).files \subseteq i.files /\ i.marker = Portable(p).marker
        /\ k.data = Portable(p).data /\ Portable(p).files \subseteq k.files /\ k.marker = Portable(p).marker
    BY <2>1 DEF Formed
  <2>3. UNCHANGED dir \/ dir' = [dir EXCEPT ![RootOf[p]] = i] \/ dir' = [dir EXCEPT ![RootOf[p]] = k]
    BY <1>0, <1>7 DEF Initialize, CreateMainWindow, LoadKey, MakeKey, Portable
  <2> HIDE DEF i, k
  <2> QED BY <1>4, <1>5, <2>2, <2>3
<1> QED BY <1>4, <1>6, <1>7
        DEF Start, NothingToMigrate, LockLegacy, Unlock, RemoveFails, made

\* The copy holds what the profile held.
LEMMA SaveCopy == ASSUME IInv, NEW p \in Procs, Copy(p) PROVE SaveInv'
<1>0. /\ pc' = [pc EXCEPT ![p] = "copied"] /\ temp' = [temp EXCEPT ![p] = Profile]
      /\ UNCHANGED <<dir, saves, late, handed>>
  BY DEF Copy, Goto, made
<1>1. Formed(Legacy) /\ "legacy" \in Roots
  BY DEF IInv, Shaped, Legacy, Roots
<1>2. Profile.data = Legacy.data /\ ("db" \in Legacy.files => "db" \in Profile.files)
  BY <1>1 DEF Profile, Formed
<1>3. /\ pc'[p] = "copied" /\ temp'[p] = Profile
      /\ \A q \in Procs \ {p} : pc'[q] = pc[q] /\ temp'[q] = temp[q]
  BY <1>0 DEF IInv, LockInv, LockTyped, Shaped
<1>4. Housed'
  BY <1>0, <1>1, <1>2, <1>3 DEF IInv, SaveInv, Housed, Legacy
<1>5. Legacy' = Legacy /\ (\A s : Elsewhere(s)' <=> Elsewhere(s)) /\ (Backed' <=> Backed)
  BY <1>0 DEF Legacy, Elsewhere, Backed
<1>6. Brought'
  BY <1>0, <1>2, <1>3, <1>5 DEF IInv, SaveInv, Brought
<1>7. NothingLost'
  BY <1>0 DEF IInv, SaveInv, NothingLost
<1> QED BY <1>0, <1>4, <1>6, <1>7 DEF IInv, SaveInv

\* Only an empty root is replaced, so that data of a portable root never goes.
LEMMA SaveSwitch == ASSUME IInv, NEW p \in Procs, Switch(p) PROVE SaveInv'
<1>0. /\ pc' = [pc EXCEPT ![p] = "switched"] /\ temp' = [temp EXCEPT ![p] = Absent]
      /\ dir' = [dir EXCEPT ![RootOf[p]] = temp[p]] /\ UNCHANGED <<saves, late, handed>>
      /\ pc[p] = "copied" /\ dir[RootOf[p]].files = {}
  BY DEF Switch, Goto, made, Portable
<1>1. RootOf[p] \in Installs /\ RootOf[p] # "legacy" /\ RootOf[p] \in Roots
  BY <1>0, StartupAssumption DEF IInv, LockInv, HoldsLock, Migrating, Roots
<1>2. dir[RootOf[p]].data = {}
  BY <1>0, <1>1 DEF IInv, SaveInv, Housed
<1>3. /\ dir'[RootOf[p]] = temp[p]
      /\ \A r \in Roots \ {RootOf[p]} : dir'[r] = dir[r]
      /\ Legacy' = Legacy
  BY <1>0, <1>1 DEF IInv, Shaped, Legacy, Roots
<1>4. /\ pc'[p] = "switched" /\ temp'[p] = Absent
      /\ \A q \in Procs \ {p} : pc'[q] = pc[q] /\ temp'[q] = temp[q]
  BY <1>0 DEF IInv, LockInv, LockTyped, Shaped
<1>5. \A s : Elsewhere(s) => Elsewhere(s)'
  BY <1>0, <1>2, <1>3 DEF Elsewhere, Roots
<1>6. \A s \in temp[p].data : Elsewhere(s)'
  BY <1>1, <1>3 DEF Elsewhere
<1>7. Housed'
  BY <1>3, <1>4 DEF IInv, SaveInv, Housed, Absent
<1>8. Backed'
  BY <1>0, <1>3, <1>5, <1>6 DEF IInv, SaveInv, Brought, Backed
<1>9. Brought'
  BY <1>0, <1>3, <1>4, <1>5, <1>8 DEF IInv, SaveInv, Brought
<1>10. NothingLost'
  <2> SUFFICES ASSUME NEW i \in (1..saves) \ late
               PROVE  \E r \in Roots : \E s \in dir'[r].data : s.id = i
    BY <1>0 DEF NothingLost
  <2>0. PICK r \in Roots : \E s \in dir[r].data : s.id = i
    BY DEF IInv, SaveInv, NothingLost
  <2>1. PICK s \in dir[r].data : s.id = i
    BY <2>0
  <2> QED BY <1>2, <1>3, <2>1
<1> QED BY <1>0, <1>7, <1>9, <1>10 DEF IInv, SaveInv

\* The marker is written when all is across, and the profile is handed over.
LEMMA SaveMark == ASSUME IInv, NEW p \in Procs, Mark(p) PROVE SaveInv'
<1>0. /\ pc' = [pc EXCEPT ![p] = "unlocking"] /\ pc[p] = "switched"
      /\ handed' = TRUE /\ UNCHANGED <<saves, late, temp>>
      /\ dir' = [dir EXCEPT !["legacy"].files = @ \cup {"marker"}, !["legacy"].marker = RootOf[p]]
  BY DEF Mark, Goto
<1>1. Formed(dir["legacy"]) /\ "legacy" \in Roots /\ "legacy" \notin Installs
  BY StartupAssumption DEF IInv, Shaped, Roots
<1>2. /\ dir'["legacy"].data = dir["legacy"].data /\ dir["legacy"].files \subseteq dir'["legacy"].files
      /\ \A r \in Roots \ {"legacy"} : dir'[r] = dir[r]
  BY <1>0, <1>1 DEF IInv, Shaped, Formed
<1>3. \A q \in Procs : pc'[q] = IF q = p THEN "unlocking" ELSE pc[q]
  BY <1>0 DEF IInv, LockInv, LockTyped
<1>4. \A s : Elsewhere(s) <=> Elsewhere(s)'
  BY <1>0, <1>1, <1>2 DEF Elsewhere, Roots
<1>5. Backed /\ Backed'
  BY <1>0, <1>2, <1>4 DEF IInv, SaveInv, Brought, Backed, Legacy
<1>6. Brought'
  BY <1>0, <1>3, <1>5 DEF IInv, SaveInv, Brought, Backed, Legacy
<1>7. Housed'
  BY <1>0, <1>2 DEF IInv, SaveInv, Housed
<1>8. NothingLost'
  <2>1. \A r \in Roots : dir'[r].data = dir[r].data
    BY <1>2
  <2> QED BY <1>0, <2>1 DEF IInv, SaveInv, NothingLost
<1> QED BY <1>0, <1>6, <1>7, <1>8 DEF IInv, SaveInv

\* The cleaner removes what the marker says is its own.
LEMMA SaveClean == ASSUME IInv, NEW p \in Procs, Clean(p) PROVE SaveInv'
<1>0. UNCHANGED <<dir, temp, saves, late, handed>>
  BY DEF Clean, made
<1>1. PICK step \in {"removing", "logging"} :
        pc' = [pc EXCEPT ![p] = step] /\ (step = "removing" => Marked(p))
  BY DEF Clean, Goto
<1>2. Marked(p) => Backed
  BY StartupAssumption DEF Marked, IInv, SaveInv, Brought
<1>3. \A q \in Procs : pc'[q] = IF q = p THEN step ELSE pc[q]
  BY <1>1 DEF IInv, LockInv, LockTyped
<1>4. Legacy' = Legacy /\ (\A s : Elsewhere(s)' <=> Elsewhere(s)) /\ (Backed' <=> Backed)
  BY <1>0 DEF Legacy, Elsewhere, Backed
<1>5. Brought'
  BY <1>0, <1>1, <1>2, <1>3, <1>4 DEF IInv, SaveInv, Brought
<1>6. Housed' /\ NothingLost'
  BY <1>0 DEF IInv, SaveInv, Housed, NothingLost
<1> QED BY <1>0, <1>5, <1>6 DEF IInv, SaveInv

\* What is removed is backed.
LEMMA SaveRemove == ASSUME IInv, NEW p \in Procs, Remove(p) PROVE SaveInv'
<1>0. /\ pc[p] = "removing" /\ Backed /\ UNCHANGED <<saves, late, temp>>
      /\ "legacy" \in Roots /\ "legacy" \notin Installs /\ Formed(Legacy)
  BY StartupAssumption DEF Remove, IInv, SaveInv, Brought, Shaped, Legacy, Roots
<1>1. PICK d : /\ dir' = [dir EXCEPT !["legacy"] = d]
               /\ d.data \subseteq Legacy.data /\ ("db" \notin d.files => d.data = {})
               /\ d.marker # Nobody => d.marker = Legacy.marker /\ handed' = handed
  <2>1. CASE \E f \in Legacy.files : dir' = [dir EXCEPT !["legacy"] = Without(@, f)]
                                    /\ UNCHANGED handed
    <3>1. PICK f \in Legacy.files : dir' = [dir EXCEPT !["legacy"] = Without(Legacy, f)]
      BY <2>1 DEF Legacy
    <3>2. "db" \notin Legacy.files => Legacy.data = {}
      BY <1>0 DEF IInv, SaveInv, Housed, Legacy
    <3> DEFINE d == Without(Legacy, f)
    <3>3. /\ d.data = (IF f = "db" THEN {} ELSE Legacy.data) /\ d.files = Legacy.files \ {f}
          /\ d.marker = (IF f = "marker" THEN Nobody ELSE Legacy.marker)
      BY <1>0 DEF Without, Formed
    <3> QED BY <2>1, <3>1, <3>2, <3>3
  <2>2. CASE dir' = [dir EXCEPT !["legacy"] = Absent]
    <3>1. Absent.data = {} /\ Absent.marker = Nobody
      BY DEF Absent
    <3> QED BY <2>2, <3>1
  <2> QED BY <2>1, <2>2 DEF Remove
<1>2. dir'["legacy"] = d /\ \A r \in Roots \ {"legacy"} : dir'[r] = dir[r]
  BY <1>0, <1>1 DEF IInv, Shaped
<1>3. \A q \in Procs : pc'[q] \in {"removing", "switched", "copied"} => pc'[q] = pc[q]
  BY DEF Remove, Goto, IInv, LockInv, LockTyped
<1>4. \A s : Elsewhere(s) <=> Elsewhere(s)'
  BY <1>0, <1>2 DEF Elsewhere, Roots
<1>5. Backed'
  BY <1>0, <1>1, <1>2, <1>4 DEF Backed, Legacy
<1>6. Brought'
  BY <1>0, <1>1, <1>2, <1>3, <1>4, <1>5 DEF IInv, SaveInv, Brought, Legacy, Backed
<1>7. Housed'
  BY <1>0, <1>1, <1>2 DEF IInv, SaveInv, Housed
<1>8. NothingLost'
  <2> SUFFICES ASSUME NEW i \in (1..saves) \ late
               PROVE  \E r \in Roots : \E s \in dir'[r].data : s.id = i
    BY <1>0 DEF NothingLost
  <2>0. PICK r \in Roots : \E s \in dir[r].data : s.id = i
    BY DEF IInv, SaveInv, NothingLost
  <2>1. PICK s \in dir[r].data : s.id = i
    BY <2>0
  <2>2. CASE r # "legacy"
    BY <1>2, <2>1, <2>2
  <2>3. CASE r = "legacy"
    <3>1. PICK t \in Installs : s \in dir[t].data
      BY <1>0, <2>1, <2>3 DEF Backed, Elsewhere, Legacy
    <3> QED BY <1>0, <1>2, <2>1, <3>1 DEF Roots
  <2> QED BY <2>2, <2>3
<1> QED BY <1>0, <1>6, <1>7, <1>8 DEF IInv, SaveInv

\* Nobody saves in a profile that is copied; a save in one handed over is late.
LEMMA SaveSave == ASSUME IInv, NEW p \in Procs, Save(p) PROVE SaveInv'
<1> DEFINE r == RootOf[p]
<1>9. PICK new : new = [id |-> saves + 1, key |-> cipher[p]]
  OBVIOUS
<1>0. /\ pc[p] = "running" /\ saves' = saves + 1 /\ "db" \in dir[r].files
      /\ new.id = saves + 1
      /\ dir' = [dir EXCEPT ![r].data = @ \cup {new}]
      /\ late' = IF r = "legacy" /\ HandedOver THEN late \cup {saves + 1} ELSE late
      /\ UNCHANGED <<pc, temp, handed>>
  BY <1>9 DEF Save, Holds
<1>1. Formed(dir[r]) /\ r \in Roots /\ "legacy" \in Roots /\ "legacy" \notin Installs
  BY StartupAssumption DEF IInv, Shaped, Roots
<1> HIDE DEF r
<1>2. /\ dir'[r].data = dir[r].data \cup {new} /\ dir'[r].files = dir[r].files
      /\ dir'[r].marker = dir[r].marker
      /\ \A q \in Roots \ {r} : dir'[q] = dir[q]
  BY <1>0, <1>1 DEF IInv, Shaped, Formed
<1>3. \A s : Elsewhere(s) => Elsewhere(s)'
  BY <1>0, <1>2 DEF Elsewhere, Roots
<1>4. Housed'
  BY <1>0, <1>2 DEF IInv, SaveInv, Housed
<1>5. Brought'
  <2>1. CASE r # "legacy"
    <3>1. Legacy' = Legacy
      BY <1>1, <1>2, <2>1 DEF Legacy
    <3>2. Backed => Backed'
      BY <1>3, <3>1 DEF Backed
    <3> QED BY <1>0, <1>3, <3>1, <3>2 DEF IInv, SaveInv, Brought
  <2>2. CASE r = "legacy"
    <3>1. ASSUME NEW q \in Procs PROVE pc[q] \notin {"copied", "switched"}
      BY <1>0, <2>2, StartupAssumption DEF r, IInv, LockInv, LockTyped, HoldsLock, Migrating
    <3>2. Legacy'.data = Legacy.data \cup {new} /\ Legacy'.marker = Legacy.marker
      BY <1>2, <2>2 DEF Legacy
    <3>3. HandedOver => Elsewhere(new)'
      BY <1>0, <2>2 DEF Elsewhere
    <3>4. Backed /\ HandedOver => Backed'
      BY <1>3, <3>2, <3>3 DEF Backed
    <3> QED BY <1>0, <3>1, <3>2, <3>4 DEF IInv, SaveInv, Brought, HandedOver
  <2> QED BY <2>1, <2>2
<1>6. NothingLost'
  <2> SUFFICES ASSUME NEW i \in (1..saves') \ late'
               PROVE  \E q \in Roots : \E s \in dir'[q].data : s.id = i
    BY DEF NothingLost
  <2>1. i = saves + 1 \/ i \in (1..saves) \ late
    BY <1>0 DEF IInv, SaveInv
  <2>2. CASE i = saves + 1
    <3>1. new \in dir'[r].data /\ new.id = i /\ r \in Roots
      BY <1>0, <1>1, <1>2, <2>2
    <3> QED BY <3>1
  <2>3. CASE i \in (1..saves) \ late
    BY <1>2, <2>3 DEF IInv, SaveInv, NothingLost
  <2> QED BY <2>1, <2>2, <2>3
<1> QED BY <1>0, <1>4, <1>5, <1>6 DEF IInv, SaveInv

LEMMA SaveNext == IInv /\ [Next]_vars => SaveInv'
<1> SUFFICES ASSUME IInv, [Next]_vars PROVE SaveInv'
  OBVIOUS
<1>1. ASSUME NEW p \in Procs,
             LegacyInUse(p) \/ AlreadyRunning(p) \/ KeyRefused(p) \/ MigrationFails(p) \/ Quit(p) \/ Crash(p)
      PROVE  SaveInv'
  BY <1>1, SaveLeave DEF LegacyInUse, AlreadyRunning, KeyRefused, MigrationFails, Quit, Crash
<1>2. CASE UNCHANGED vars
  BY <1>2 DEF vars, made, IInv, SaveInv, Housed, Brought, Backed, Elsewhere, Legacy, NothingLost
<1> QED BY <1>1, <1>2, SaveMoves, SaveCopy, SaveSwitch, SaveMark, SaveClean, SaveRemove, SaveSave
        DEF Next, Step

\* migrate_legacy_data and cleanup_deferred_legacy_data: whatever ends, fails or runs
\* beside it between any two steps, what was saved before a hand-over stays.
THEOREM NothingLostHolds == Spec => []NothingLost
<1>1. Init => IInv
  BY LockInit, ShapedInit, SaveInit DEF IInv
<1>2. IInv /\ [Next]_vars => IInv'
  BY LockNext, ShapedNext, SaveNext DEF IInv
<1>3. IInv => NothingLost
  BY DEF IInv, SaveInv
<1> QED BY <1>1, <1>2, <1>3, PTL DEF Spec

-----------------------------------------------------------------------------
(***************************************************************************)
(* Which key the data needs.                                               *)
(***************************************************************************)
\* A whole profile with data has a database and the one key that all its data was
\* saved under.
Keyed(d) == ~d.torn => /\ d.data # {} => {"db", "key"} \subseteq d.files
                       /\ \A s \in d.data : s.key = d.key.id

\* The key a running program has loaded is the one its profile has, as long as that
\* has a database and is whole; only a legacy profile ever loses its database.
Fits(p) ==
  /\ pc[p] \in {"keying", "running"} /\ RootOf[p] # "legacy" => "db" \in Portable(p).files
  /\ pc[p] = "running" /\ ~Portable(p).torn /\ "db" \in Portable(p).files
       => "key" \in Portable(p).files /\ Portable(p).key.id = cipher[p]

KeyInv == /\ \A r \in Roots : Keyed(dir[r])
          /\ \A p \in Procs : Keyed(temp[p]) /\ Fits(p)
          /\ cipher = [p \in Procs |-> cipher[p]]

LEMMA AbsentKeyed == Keyed(Absent) /\ Keyed(OldProfile)
  BY DEF Absent, OldProfile, Keyed

LEMMA KeyInit == Init => KeyInv
  BY AbsentKeyed DEF Init, KeyInv, Fits

\* A write that leaves data, key and the file of the key alone.
LEMMA SameKey ==
  ASSUME NEW c, Keyed(c), NEW d, d.torn = c.torn, d.data = c.data, d.key = c.key,
         {"db", "key"} \cap c.files \subseteq d.files
  PROVE  Keyed(d)
  BY DEF Keyed

\* The steps that write no root.
LEMMA KeyStays ==
  ASSUME LockInv, Shaped, KeyInv, UNCHANGED dir,
         UNCHANGED cipher \/ (\E p \in Procs : pc'[p] = "off" /\ cipher' = [cipher EXCEPT ![p] = 0]),
         \A p \in Procs : /\ pc'[p] = pc[p] \/ pc'[p] \notin {"keying", "running"}
                          /\ Keyed(temp'[p])
  PROVE  KeyInv'
<1>1. cipher' = [p \in Procs |-> cipher'[p]]
  BY DEF KeyInv
<1>2. ASSUME NEW p \in Procs PROVE Fits(p)'
  BY DEF KeyInv, Fits, Portable
<1> QED BY <1>1, <1>2 DEF KeyInv

\* One root is written, with a keyed profile, or the profile of one process; who
\* runs on that root finds its key there still.
LEMMA KeyWrite ==
  ASSUME LockInv, Shaped, KeyInv, NEW r \in Roots, NEW d, Keyed(d), dir' = [dir EXCEPT ![r] = d],
         \A q \in Procs : Keyed(temp'[q]), UNCHANGED cipher,
         \A q \in Procs : pc'[q] = pc[q] \/ pc'[q] \notin {"keying", "running"},
         \A q \in Procs : RootOf[q] = r /\ pc[q] \in {"keying", "running"} =>
            /\ r # "legacy" => "db" \in d.files
            /\ pc[q] = "running" /\ ~d.torn /\ "db" \in d.files =>
                 /\ ~dir[r].torn /\ "db" \in dir[r].files
                 /\ "key" \in dir[r].files => "key" \in d.files /\ d.key.id = dir[r].key.id
  PROVE  KeyInv'
<1>1. ASSUME NEW q \in Procs PROVE Fits(q)'
  <2>1. RootOf[q] \in Roots /\ Fits(q)
    BY StartupAssumption DEF KeyInv
  <2>2. dir'[RootOf[q]] = IF RootOf[q] = r THEN d ELSE dir[RootOf[q]]
    BY <2>1 DEF Shaped
  <2>3. CASE RootOf[q] # r
    BY <2>1, <2>2, <2>3 DEF Fits, Portable
  <2>4. CASE RootOf[q] = r
    BY <2>1, <2>2, <2>4 DEF Fits, Portable
  <2> QED BY <2>3, <2>4
<1>2. \A q \in Roots : Keyed(dir'[q])
  BY DEF Shaped, KeyInv
<1> QED BY <1>1, <1>2 DEF KeyInv

\* A write that adds files.
LEMMA KeyAdds ==
  ASSUME LockInv, Shaped, KeyInv, NEW r \in Roots, NEW d, dir' = [dir EXCEPT ![r] = d],
         d.torn = dir[r].torn, d.data = dir[r].data, d.key = dir[r].key, dir[r].files \subseteq d.files,
         "db" \in d.files => "db" \in dir[r].files,
         UNCHANGED <<temp, cipher>>,
         \A q \in Procs : pc'[q] = pc[q] \/ pc'[q] \notin {"keying", "running"}
  PROVE  KeyInv'
<1>1. Keyed(d)
  BY SameKey DEF KeyInv
<1>2. \A q \in Procs : RootOf[q] = r /\ pc[q] \in {"keying", "running"} =>
        /\ r # "legacy" => "db" \in d.files
        /\ pc[q] = "running" /\ ~d.torn /\ "db" \in d.files =>
             /\ ~dir[r].torn /\ "db" \in dir[r].files
             /\ "key" \in dir[r].files => "key" \in d.files /\ d.key.id = dir[r].key.id
  BY DEF KeyInv, Fits, Portable
<1>3. \A q \in Procs : Keyed(temp'[q])
  BY DEF KeyInv
<1> QED BY <1>1, <1>2, <1>3, KeyWrite

\* The root is opened: only its own process is that far on it.
LEMMA KeyOpens ==
  ASSUME LockInv, Shaped, KeyInv, NEW p \in Procs, Initialize(p) \/ CreateMainWindow(p)
  PROVE  KeyInv'
<1> DEFINE r == RootOf[p]
           c == dir[r]
           i == [c EXCEPT !.there = TRUE, !.files = @ \cup {"db"}]
           k == [c EXCEPT !.there = TRUE, !.files = @ \cup {"key"}, !.key = [path |-> r, id |-> keys + 1]]
<1>0. /\ r \in Roots /\ Formed(c) /\ Keyed(c) /\ Fits(p) /\ UNCHANGED temp
      /\ cipher = [q \in Procs |-> cipher[q]] /\ pc \in [Procs -> Steps]
  BY StartupAssumption DEF LockInv, LockTyped, Shaped, KeyInv, Initialize, CreateMainWindow
<1>1. \A q \in Procs \ {p} : RootOf[q] = r => pc[q] \notin {"keying", "running"}
  BY StartupAssumption DEF LockInv, LockTyped, HoldsLock, Initialize, CreateMainWindow
<1>2. /\ i.torn = c.torn /\ i.data = c.data /\ i.key = c.key /\ i.files = c.files \cup {"db"}
      /\ k.torn = c.torn /\ k.data = c.data /\ k.key.id = keys + 1 /\ k.files = c.files \cup {"key"}
  BY <1>0 DEF Formed
<1>3. Keyed(i)
  BY <1>0, <1>2, SameKey
<1>4. "key" \notin c.files => Keyed(k)
  BY <1>0, <1>2 DEF Keyed
<1>5. PICK d : /\ Keyed(d)
               /\ dir' = [dir EXCEPT ![r] = d]
               /\ pc'[p] \in {"keying", "running"} /\ \A q \in Procs \ {p} : pc'[q] = pc[q]
               /\ \A q \in Procs \ {p} : cipher'[q] = cipher[q]
               /\ cipher' = [q \in Procs |-> cipher'[q]]
               /\ r # "legacy" => "db" \in d.files
               /\ pc'[p] = "running" => "key" \in d.files /\ d.key.id = cipher'[p]
  <2>1. CASE Initialize(p)
    <3>1. dir' = [dir EXCEPT ![r] = i] /\ UNCHANGED cipher /\ pc' = [pc EXCEPT ![p] = "keying"]
      BY <1>0, <2>1 DEF Initialize, Goto, Shaped
    <3> QED BY <1>0, <1>2, <1>3, <3>1
  <2>2. CASE CreateMainWindow(p) /\ LoadKey(p)
    <3>1. /\ dir' = dir /\ pc[p] = "keying" /\ pc' = [pc EXCEPT ![p] = "running"]
          /\ "key" \in c.files /\ cipher' = [cipher EXCEPT ![p] = c.key.id]
      BY <2>2 DEF CreateMainWindow, LoadKey, Goto, Holds, Portable
    <3>2. dir' = [dir EXCEPT ![r] = c] /\ (r # "legacy" => "db" \in c.files)
      BY <1>0, <3>1 DEF Shaped, Fits, Portable
    <3> QED BY <1>0, <3>1, <3>2
  <2>3. CASE CreateMainWindow(p) /\ MakeKey(p)
    <3>1. /\ dir' = [dir EXCEPT ![r] = k] /\ pc[p] = "keying" /\ pc' = [pc EXCEPT ![p] = "running"]
          /\ "key" \notin c.files /\ cipher' = [cipher EXCEPT ![p] = keys + 1]
      BY <1>0, <2>3 DEF CreateMainWindow, MakeKey, Goto, Holds, Shaped
    <3>2. r # "legacy" => "db" \in k.files
      BY <1>0, <1>2, <3>1 DEF Fits, Portable
    <3> QED BY <1>0, <1>2, <1>4, <3>1, <3>2
  <2> QED BY <2>1, <2>2, <2>3 DEF CreateMainWindow
<1>6. ASSUME NEW q \in Procs PROVE Fits(q)'
  <2>1. RootOf[q] \in Roots /\ Fits(q)
    BY StartupAssumption DEF KeyInv
  <2>2. dir'[RootOf[q]] = IF RootOf[q] = r THEN d ELSE dir[RootOf[q]]
    BY <1>5, <2>1 DEF Shaped
  <2>3. CASE q = p
    BY <1>5, <2>2, <2>3 DEF Fits, Portable
  <2>4. CASE q # p /\ RootOf[q] = r
    BY <1>1, <1>5, <2>4 DEF Fits
  <2>5. CASE q # p /\ RootOf[q] # r
    BY <1>5, <2>1, <2>2, <2>5 DEF Fits, Portable
  <2> QED BY <2>3, <2>4, <2>5
<1>7. \A q \in Roots : Keyed(dir'[q])
  BY <1>5 DEF Shaped, KeyInv
<1> QED BY <1>0, <1>5, <1>6, <1>7 DEF KeyInv

LEMMA KeyNext == LockInv /\ Shaped /\ KeyInv /\ [Next]_vars => KeyInv'
<1> SUFFICES ASSUME LockInv, Shaped, KeyInv, [Next]_vars PROVE KeyInv'
  OBVIOUS
<1> USE DEF made
<1>0. /\ dir = [r \in Roots |-> dir[r]] /\ temp = [p \in Procs |-> temp[p]]
      /\ \A r \in Roots : Formed(dir[r]) /\ Keyed(dir[r])
      /\ "legacy" \in Roots /\ \A p \in Procs : RootOf[p] \in Roots /\ Formed(temp[p]) /\ Keyed(temp[p])
      /\ pc \in [Procs -> Steps]
  BY StartupAssumption DEF Shaped, KeyInv, Roots, LockInv, LockTyped
<1>1. ASSUME NEW p \in Procs, Leave(p) PROVE KeyInv'
  <2>1. /\ UNCHANGED dir /\ cipher' = [cipher EXCEPT ![p] = 0] /\ pc' = [pc EXCEPT ![p] = "off"]
        /\ temp' = [temp EXCEPT ![p] = Absent]
    BY <1>1 DEF Leave, Goto
  <2>2. pc'[p] = "off" /\ \A q \in Procs : pc'[q] = pc[q] \/ pc'[q] \notin {"keying", "running"}
    BY <1>0, <2>1
  <2>3. \A q \in Procs : Keyed(temp'[q])
    BY <1>0, <2>1, AbsentKeyed
  <2> QED BY <2>1, <2>2, <2>3, KeyStays
<1>2. ASSUME NEW p \in Procs,
             Start(p) \/ NothingToMigrate(p) \/ LockLegacy(p) \/ Unlock(p) \/ Clean(p) \/ RemoveFails(p)
      PROVE  KeyInv'
  <2>1. UNCHANGED <<dir, cipher, temp>>
    BY <1>2 DEF Start, NothingToMigrate, LockLegacy, Unlock, Clean, RemoveFails
  <2>2. PICK step \in {"started", "logging", "unlocking", "copying", "cleaning", "removing"} : Goto(p, step)
    BY <1>2 DEF Start, NothingToMigrate, LockLegacy, Unlock, Clean, RemoveFails
  <2>3. \A q \in Procs : pc'[q] = pc[q] \/ pc'[q] \notin {"keying", "running"}
    BY <1>0, <2>2 DEF Goto
  <2> QED BY <1>0, <2>1, <2>3, KeyStays
<1>3. ASSUME NEW p \in Procs, Copy(p) PROVE KeyInv'
  <2>1. /\ Profile.torn = Legacy.torn /\ Profile.data = Legacy.data /\ Profile.key = Legacy.key
        /\ {"db", "key"} \cap Legacy.files \subseteq Profile.files
    BY <1>0 DEF Profile, Legacy, Formed
  <2>2. Keyed(Profile)
    BY <1>0, <2>1, SameKey DEF Legacy
  <2>3. UNCHANGED <<dir, cipher>> /\ temp' = [temp EXCEPT ![p] = Profile] /\ Goto(p, "copied")
    BY <1>3 DEF Copy
  <2>4. \A q \in Procs : pc'[q] = pc[q] \/ pc'[q] \notin {"keying", "running"}
    BY <1>0, <2>3 DEF Goto
  <2>5. \A q \in Procs : Keyed(temp'[q])
    BY <1>0, <2>2, <2>3
  <2> QED BY <2>3, <2>4, <2>5, KeyStays
<1>4. ASSUME NEW p \in Procs, Switch(p) PROVE KeyInv'
  <2>1. /\ dir' = [dir EXCEPT ![RootOf[p]] = temp[p]] /\ temp' = [temp EXCEPT ![p] = Absent]
        /\ UNCHANGED cipher /\ Goto(p, "switched") /\ pc[p] = "copied" /\ dir[RootOf[p]].files = {}
    BY <1>4 DEF Switch, Portable
  <2>2. RootOf[p] # "legacy"
    BY <2>1 DEF LockInv, HoldsLock, Migrating
  <2>3. \A q \in Procs : RootOf[q] = RootOf[p] => pc[q] \notin {"keying", "running"}
    BY <2>1, <2>2 DEF KeyInv, Fits, Portable
  <2>4. \A q \in Procs : pc'[q] = pc[q] \/ pc'[q] \notin {"keying", "running"}
    BY <1>0, <2>1 DEF Goto
  <2>5. \A q \in Procs : Keyed(temp'[q])
    BY <1>0, <2>1, AbsentKeyed
  <2> QED BY <1>0, <2>1, <2>3, <2>4, <2>5, KeyWrite
<1>5. ASSUME NEW p \in Procs, Mark(p) PROVE KeyInv'
  <2> DEFINE d == [dir["legacy"] EXCEPT !.files = @ \cup {"marker"}, !.marker = RootOf[p]]
  <2>1. /\ d.torn = dir["legacy"].torn /\ d.data = dir["legacy"].data /\ d.key = dir["legacy"].key
        /\ d.files = dir["legacy"].files \cup {"marker"}
    BY <1>0 DEF Formed
  <2>2. dir' = [dir EXCEPT !["legacy"] = d] /\ UNCHANGED <<temp, cipher>> /\ Goto(p, "unlocking")
    BY <1>0, <1>5 DEF Mark
  <2>3. \A q \in Procs : pc'[q] = pc[q] \/ pc'[q] \notin {"keying", "running"}
    BY <1>0, <2>2 DEF Goto
  <2> HIDE DEF d
  <2> QED BY <1>0, <2>1, <2>2, <2>3, KeyAdds
<1>6. ASSUME NEW p \in Procs, Remove(p) PROVE KeyInv'
  <2>1. ASSUME NEW f PROVE Without(Legacy, f).torn = TRUE
    BY <1>0 DEF Without, Legacy, Formed
  <2>2. Absent.files = {}
    BY DEF Absent
  <2>3. PICK d : /\ Keyed(d) /\ dir' = [dir EXCEPT !["legacy"] = d]
                 /\ d.torn \/ d.files = {}
    <3>1. CASE \E f \in Legacy.files : dir' = [dir EXCEPT !["legacy"] = Without(@, f)]
      <4>1. PICK f \in Legacy.files : dir' = [dir EXCEPT !["legacy"] = Without(Legacy, f)]
        BY <1>0, <3>1 DEF Legacy
      <4>2. Keyed(Without(Legacy, f)) /\ Without(Legacy, f).torn
        BY <2>1 DEF Keyed
      <4> QED BY <4>1, <4>2
    <3>2. CASE dir' = [dir EXCEPT !["legacy"] = Absent]
      BY <2>2, <3>2, AbsentKeyed
    <3> QED BY <1>6, <3>1, <3>2 DEF Remove
  <2>4. UNCHANGED <<temp, cipher>> /\ (UNCHANGED pc \/ Goto(p, "logging"))
    BY <1>6 DEF Remove
  <2>5. \A q \in Procs : pc'[q] = pc[q] \/ pc'[q] \notin {"keying", "running"}
    BY <1>0, <2>4 DEF Goto
  <2>6. \A q \in Procs : Keyed(temp'[q])
    BY <1>0, <2>4
  <2>7. /\ "legacy" # "legacy" => "db" \in d.files
        /\ ~(~d.torn /\ "db" \in d.files)
    BY <2>3
  <2> QED BY <1>0, <2>3, <2>4, <2>5, <2>6, <2>7, KeyWrite
<1>7. ASSUME NEW p \in Procs, ConfigureLogging(p) \/ AcquireInstanceLock(p) PROVE KeyInv'
  <2> DEFINE c == dir[RootOf[p]]
             l == [c EXCEPT !.there = TRUE, !.files = @ \cup {"logs"}]
             t == [c EXCEPT !.there = TRUE]
  <2>1. /\ l.torn = c.torn /\ l.data = c.data /\ l.key = c.key /\ l.files = c.files \cup {"logs"}
        /\ t.torn = c.torn /\ t.data = c.data /\ t.key = c.key /\ t.files = c.files
    BY <1>0 DEF Formed
  <2>2. dir' = [dir EXCEPT ![RootOf[p]] = l] \/ dir' = [dir EXCEPT ![RootOf[p]] = t]
    BY <1>0, <1>7 DEF ConfigureLogging, AcquireInstanceLock
  <2>3. UNCHANGED <<temp, cipher>> /\ (Goto(p, "locking") \/ Goto(p, "opening"))
    BY <1>7 DEF ConfigureLogging, AcquireInstanceLock
  <2>4. \A q \in Procs : pc'[q] = pc[q] \/ pc'[q] \notin {"keying", "running"}
    BY <1>0, <2>3 DEF Goto
  <2>5. RootOf[p] \in Roots /\ ("db" \in l.files \/ "db" \in t.files => "db" \in c.files)
    BY <1>0, <2>1
  <2> HIDE DEF l, t
  <2>6. CASE dir' = [dir EXCEPT ![RootOf[p]] = l]
    BY <2>1, <2>3, <2>4, <2>5, <2>6, KeyAdds
  <2>7. CASE dir' = [dir EXCEPT ![RootOf[p]] = t]
    BY <2>1, <2>3, <2>4, <2>5, <2>7, KeyAdds
  <2> QED BY <2>2, <2>6, <2>7
<1>8. ASSUME NEW p \in Procs, Initialize(p) \/ CreateMainWindow(p) PROVE KeyInv'
  BY <1>8, KeyOpens
<1>9. ASSUME NEW p \in Procs, Save(p) PROVE KeyInv'
  <2> DEFINE r == RootOf[p]
  <2>0. PICK new : new = [id |-> saves + 1, key |-> cipher[p]]
    OBVIOUS
  <2> DEFINE d == [dir[r] EXCEPT !.data = @ \cup {new}]
  <2>1. /\ d.torn = dir[r].torn /\ d.data = dir[r].data \cup {new}
        /\ d.key = dir[r].key /\ d.files = dir[r].files /\ new.key = cipher[p]
    BY <1>0, <2>0 DEF Formed
  <2>2. dir' = [dir EXCEPT ![r] = d] /\ UNCHANGED <<temp, cipher, pc>> /\ "db" \in dir[r].files /\ pc[p] = "running"
    BY <1>0, <1>9, <2>0 DEF Save, Holds
  <2> HIDE DEF d
  <2>3. ~dir[r].torn => "key" \in dir[r].files /\ dir[r].key.id = cipher[p]
    BY <2>2 DEF KeyInv, Fits, Portable
  <2>4. Keyed(d)
    BY <1>0, <2>1, <2>2, <2>3 DEF Keyed
  <2>5. \A q \in Procs : RootOf[q] = r /\ pc[q] \in {"keying", "running"} =>
          /\ r # "legacy" => "db" \in d.files
          /\ pc[q] = "running" /\ ~d.torn /\ "db" \in d.files =>
               /\ ~dir[r].torn /\ "db" \in dir[r].files
               /\ "key" \in dir[r].files => "key" \in d.files /\ d.key.id = dir[r].key.id
    BY <2>1, <2>2
  <2>6. r \in Roots /\ \A q \in Procs : Keyed(temp'[q])
    BY <1>0, <2>2
  <2> HIDE DEF r
  <2> QED BY <2>2, <2>4, <2>5, <2>6, KeyWrite
<1>10. CASE UNCHANGED vars
  BY <1>0, <1>10, KeyStays DEF vars
<1> QED BY <1>1, <1>2, <1>3, <1>4, <1>5, <1>6, <1>7, <1>8, <1>9, <1>10
        DEF Next, Step, LegacyInUse, AlreadyRunning, KeyRefused, MigrationFails, Quit, Crash

\* CredentialCipher.load_or_create never makes a key beside data it would not open,
\* also after a start that ended between the database and the key, and a migration
\* takes the key along: the program that runs opens what it has with the key it has
\* loaded, unless its profile was copied from one whose removal had begun.
THEOREM CredentialsHold == Spec => []CredentialsOpen
<1>1. Init => LockInv /\ Shaped /\ KeyInv
  BY LockInit, ShapedInit, KeyInit
<1>2. LockInv /\ Shaped /\ KeyInv /\ [Next]_vars => (LockInv /\ Shaped /\ KeyInv)'
  BY LockNext, ShapedNext, KeyNext
<1>3. KeyInv => CredentialsOpen
  <2>1. \A p \in Procs : RootOf[p] \in Roots
    BY StartupAssumption
  <2> SUFFICES ASSUME KeyInv, NEW p \in Procs, pc[p] = "running", ~Portable(p).torn,
                      NEW s \in Portable(p).data
               PROVE  s.key = cipher[p]
    BY DEF CredentialsOpen
  <2>2. Keyed(Portable(p)) /\ Fits(p)
    BY <2>1 DEF KeyInv, Portable
  <2> QED BY <2>2 DEF Keyed, Fits
<1> QED BY <1>1, <1>2, <1>3, PTL DEF Spec
=============================================================================
