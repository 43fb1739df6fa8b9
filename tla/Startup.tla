------------------------------ MODULE Startup -------------------------------
(***************************************************************************)
(* The start of the program: the health report to the install helper, the    *)
(* migration of the legacy profile into the portable data directory beside   *)
(* the program, the instance lock and the opening of the database and of the *)
(* credential key.  A release keeps its data beside itself; a run from the   *)
(* source tree, like the releases before the portable layout, works on the   *)
(* legacy root itself.  Processes may crash between any two steps.           *)
(***************************************************************************)
EXTENDS Naturals, FiniteSets

CONSTANTS Installs,    \* the folders the release is installed in
          Procs, RootOf, \* the processes and the data root each works on
          Nobody,
          MaxSaves,    \* bound: what the user saves
          MaxKeys,     \* bound: credential keys made
          MaxStarts    \* bound: starts of the program

Roots == Installs \cup {"legacy"}

ASSUME StartupAssumption ==
  /\ RootOf \in [Procs -> Roots] /\ Nobody \notin Procs \cup Roots /\ "legacy" \notin Installs
  /\ MaxSaves \in Nat /\ MaxKeys \in Nat /\ MaxStarts \in Nat

VARIABLES
  system,   \* platform.system()
  dir,      \* the data roots
  lock,     \* who holds .instance.lock of a root
  pc,       \* how far the start of a process is
  defer,    \* defer_legacy_cleanup of that start
  cleanup,  \* its cleanup_after_unlock
  temp,     \* its .migrating directory
  cipher,   \* the key its CredentialCipher holds, 0 before it is loaded
  keys, saves, starts, \* made so far
  handed,   \* the legacy profile was handed over: its marker has been written
  late      \* what was saved in a profile that was handed over or is being removed

vars == <<system, dir, lock, pc, defer, cleanup, temp, cipher, keys, saves, starts, handed, late>>
made == <<keys, saves, starts, handed, late>>
own  == <<defer, cleanup, temp, cipher>>

\* A protected key: where it was made (the Keychain account) and which key it is.
NoKey == [path |-> Nobody, id |-> 0]
Absent == [there |-> FALSE, files |-> {}, data |-> {}, key |-> NoKey, marker |-> Nobody, torn |-> FALSE]
Files  == {"db", "key", "logs", "marker"}
Saved  == [id : 1..MaxSaves, key : 1..MaxKeys]
Dirs   == [there : BOOLEAN, files : SUBSET Files, data : SUBSET Saved,
           key : {NoKey} \cup [path : Roots, id : 1..MaxKeys],
           marker : Installs \cup {Nobody}, torn : BOOLEAN]
Steps  == {"off", "started", "copying", "copied", "switched", "unlocking", "cleaning", "removing",
           "logging", "locking", "opening", "keying", "running"}

TypeOK ==
  /\ system \in {"Windows", "Darwin"}
  /\ dir \in [Roots -> Dirs] /\ lock \in [Roots -> Procs \cup {Nobody}]
  /\ pc \in [Procs -> Steps] /\ defer \in [Procs -> BOOLEAN] /\ cleanup \in [Procs -> BOOLEAN]
  /\ temp \in [Procs -> Dirs] /\ cipher \in [Procs -> 0..MaxKeys]
  /\ keys \in 0..MaxKeys /\ saves \in 0..MaxSaves /\ starts \in 0..MaxStarts /\ handed \in BOOLEAN
  /\ late \subseteq 1..MaxSaves

\* Nothing is installed yet, or an older release has left its profile.
OldProfile == [Absent EXCEPT !.there = TRUE, !.files = {"db", "key", "logs"},
                             !.data = {[id |-> 1, key |-> 1]},
                             !.key = [path |-> "legacy", id |-> 1]]
Init ==
  /\ system \in {"Windows", "Darwin"}
  /\ \/ dir = [r \in Roots |-> Absent] /\ keys = 0 /\ saves = 0
     \/ dir = [r \in Roots |-> IF r = "legacy" THEN OldProfile ELSE Absent] /\ keys = 1 /\ saves = 1
  /\ lock = [r \in Roots |-> Nobody] /\ pc = [p \in Procs |-> "off"]
  /\ defer = [p \in Procs |-> FALSE] /\ cleanup = [p \in Procs |-> FALSE]
  /\ temp = [p \in Procs |-> Absent] /\ cipher = [p \in Procs |-> 0]
  /\ starts = 0 /\ handed = FALSE /\ late = {}

-----------------------------------------------------------------------------
Legacy == dir["legacy"]
Portable(p) == dir[RootOf[p]]
Holds(r, f) == f \in dir[r].files
Goto(p, step) == pc' = [pc EXCEPT ![p] = step]
Unlocked(p) == [r \in Roots |-> IF lock[r] = p THEN Nobody ELSE lock[r]]

\* The process ends: by an error box, by the user, or by a crash.  QLockFile
\* takes over the lock file of a process that is gone.  A crash leaves the
\* .migrating directory behind; its name is never used again.
Leave(p) ==
  /\ Goto(p, "off") /\ lock' = Unlocked(p) /\ temp' = [temp EXCEPT ![p] = Absent]
  /\ defer' = [defer EXCEPT ![p] = FALSE] /\ cleanup' = [cleanup EXCEPT ![p] = FALSE]
  /\ cipher' = [cipher EXCEPT ![p] = 0]
  /\ UNCHANGED <<system, dir, made>>

Crash(p) == pc[p] # "off" /\ Leave(p)
Quit(p)  == pc[p] = "running" /\ Leave(p)

\* report_update_health: the helper of a release before the portable layout waits
\* for the report in the legacy root's updates directory.
LegacyHandoff(p) == Legacy.there /\ RootOf[p] # "legacy"

\* run up to the migration.
Start(p) ==
  /\ pc[p] = "off" /\ starts < MaxStarts /\ starts' = starts + 1
  /\ Goto(p, "started")
  /\ \E reported \in BOOLEAN : defer' = [defer EXCEPT ![p] = reported /\ LegacyHandoff(p)]
  /\ UNCHANGED <<system, dir, lock, cleanup, temp, cipher, keys, saves, handed, late>>

-----------------------------------------------------------------------------
(* migrate_legacy_data_for_startup and migrate_legacy_data *)

ToMigrate(p) == RootOf[p] # "legacy" /\ Legacy.there

NothingToMigrate(p) ==
  /\ pc[p] = "started" /\ ~ToMigrate(p) /\ Goto(p, "logging")
  /\ UNCHANGED <<system, dir, lock, own, made>>

LegacyInUse(p) == pc[p] = "started" /\ ToMigrate(p) /\ lock["legacy"] # Nobody /\ Leave(p)

\* slip: the lock of the legacy root is not asked for.
Barges(p) ==
  /\ pc[p] = "started" /\ ToMigrate(p) /\ ~Holds(RootOf[p], "db") /\ Goto(p, "copying")
  /\ UNCHANGED <<system, dir, lock, own, made>>

LockLegacy(p) ==
  /\ pc[p] = "started" /\ ToMigrate(p) /\ lock["legacy"] = Nobody
  /\ lock' = [lock EXCEPT !["legacy"] = p]
  /\ cleanup' = [cleanup EXCEPT ![p] = Holds(RootOf[p], "db")]
  /\ Goto(p, IF Holds(RootOf[p], "db") THEN "unlocking" ELSE "copying")
  /\ UNCHANGED <<system, dir, defer, temp, cipher, made>>

Forgetful == [Legacy EXCEPT !.files = @ \ {"key", "marker"}, !.key = NoKey, !.marker = Nobody]  \* slip
Profile   == [Legacy EXCEPT !.files = @ \ {"marker"}, !.marker = Nobody]  \* what is copied

Copy(p) ==
  /\ pc[p] = "copying" /\ temp' = [temp EXCEPT ![p] = Profile] /\ Goto(p, "copied")
  /\ UNCHANGED <<system, dir, lock, defer, cleanup, cipher, made>>

\* A file cannot be copied or written, quick_check fails, before the removal too,
\* or the portable root holds something: the start is refused.
MigrationFails(p) == pc[p] \in {"copying", "copied", "switched", "cleaning"} /\ Leave(p)

Switch(p) ==
  /\ pc[p] = "copied" /\ Portable(p).files = {}
  /\ dir' = [dir EXCEPT ![RootOf[p]] = temp[p]] /\ temp' = [temp EXCEPT ![p] = Absent]
  /\ Goto(p, "switched")
  /\ UNCHANGED <<system, lock, defer, cleanup, cipher, made>>

Mark(p) ==
  /\ pc[p] = "switched" /\ Goto(p, "unlocking")
  /\ dir' = [dir EXCEPT !["legacy"].files = @ \cup {"marker"}, !["legacy"].marker = RootOf[p]]
  /\ cleanup' = [cleanup EXCEPT ![p] = ~defer[p]] /\ handed' = TRUE
  /\ UNCHANGED <<system, lock, defer, temp, cipher, keys, saves, starts, late>>

Unlock(p) ==
  /\ pc[p] = "unlocking" /\ lock' = Unlocked(p)
  /\ Goto(p, IF cleanup[p] THEN "cleaning" ELSE "logging")
  /\ UNCHANGED <<system, dir, own, made>>

-----------------------------------------------------------------------------
(* cleanup_deferred_legacy_data *)

AnyProfile(p) == Legacy.there /\ Holds(RootOf[p], "db")  \* slip: the marker is not read
Marked(p) == Legacy.there /\ Legacy.marker = RootOf[p] /\ Holds(RootOf[p], "db")

Clean(p) ==
  /\ pc[p] = "cleaning" /\ Goto(p, IF Marked(p) THEN "removing" ELSE "logging")
  /\ UNCHANGED <<system, dir, lock, own, made>>

\* rmtree takes the files in the order of the directory; what is gone stays gone.
Without(d, f) ==
  [d EXCEPT !.files = @ \ {f}, !.torn = TRUE, !.data = IF f = "db" THEN {} ELSE @,
            !.key = IF f = "key" THEN NoKey ELSE @, !.marker = IF f = "marker" THEN Nobody ELSE @]

Remove(p) ==
  /\ pc[p] = "removing"
  /\ \/ \E f \in Legacy.files : /\ dir' = [dir EXCEPT !["legacy"] = Without(@, f)]
                                /\ UNCHANGED <<pc, handed>>
     \/ Legacy.files = {} /\ dir' = [dir EXCEPT !["legacy"] = Absent] /\ handed' = FALSE
        /\ Goto(p, "logging")
  /\ UNCHANGED <<system, lock, own, keys, saves, starts, late>>

\* An OSError, as that of an open file on Windows, is left to the next start.
RemoveFails(p) ==
  /\ pc[p] = "removing" /\ Goto(p, "logging")
  /\ UNCHANGED <<system, dir, lock, own, made>>

-----------------------------------------------------------------------------
(* run from the log to the window *)

ConfigureLogging(p) ==
  /\ pc[p] = "logging" /\ Goto(p, "locking")
  /\ dir' = [dir EXCEPT ![RootOf[p]].there = TRUE, ![RootOf[p]].files = @ \cup {"logs"}]
  /\ UNCHANGED <<system, lock, own, made>>

AcquireInstanceLock(p) ==
  /\ pc[p] = "locking" /\ lock[RootOf[p]] = Nobody
  /\ lock' = [lock EXCEPT ![RootOf[p]] = p] /\ Goto(p, "opening")
  /\ dir' = [dir EXCEPT ![RootOf[p]].there = TRUE]
  /\ UNCHANGED <<system, own, made>>

AlreadyRunning(p) == pc[p] = "locking" /\ lock[RootOf[p]] # Nobody /\ Leave(p)

\* Database.initialize.  The directories are there, the database may be new.
Initialize(p) ==
  /\ pc[p] = "opening" /\ Goto(p, "keying")
  /\ dir' = [dir EXCEPT ![RootOf[p]].there = TRUE, ![RootOf[p]].files = @ \cup {"db"}]
  /\ UNCHANGED <<system, lock, own, made>>

\* CredentialCipher.load_or_create: a key file is opened, a missing one is made.
\* On macOS the key lies in the Keychain under the path of its file.
Unprotects(d, r) == system = "Darwin" => d.key.path = r

LoadKey(p) ==
  /\ Holds(RootOf[p], "key") /\ Unprotects(Portable(p), RootOf[p])
  /\ cipher' = [cipher EXCEPT ![p] = Portable(p).key.id]
  /\ UNCHANGED <<dir, keys>>

MakeKey(p) ==
  /\ ~Holds(RootOf[p], "key") /\ keys < MaxKeys /\ keys' = keys + 1
  /\ cipher' = [cipher EXCEPT ![p] = keys + 1]
  /\ dir' = [dir EXCEPT ![RootOf[p]].there = TRUE, ![RootOf[p]].files = @ \cup {"key"},
                        ![RootOf[p]].key = [path |-> RootOf[p], id |-> keys + 1]]

\* The rest of create_main_window, with the cipher for every repository.
CreateMainWindow(p) ==
  /\ pc[p] = "keying" /\ Goto(p, "running")
  /\ LoadKey(p) \/ MakeKey(p)
  /\ UNCHANGED <<system, lock, defer, cleanup, temp, saves, starts, handed, late>>

KeyRefused(p) ==
  /\ pc[p] = "keying" /\ Holds(RootOf[p], "key") /\ ~Unprotects(Portable(p), RootOf[p])
  /\ Leave(p)

HandedOver == handed \/ \E p \in Procs : pc[p] = "removing"

\* The user saves an account with its credentials, under the key that was loaded at
\* the start; every write opens the file of the database anew.
Save(p) ==
  LET r == RootOf[p]
  IN /\ pc[p] = "running" /\ saves < MaxSaves /\ saves' = saves + 1
     /\ Holds(r, "db")
     /\ dir' = [dir EXCEPT ![r].data = @ \cup {[id |-> saves + 1, key |-> cipher[p]]}]
     /\ late' = IF r = "legacy" /\ HandedOver THEN late \cup {saves + 1} ELSE late
     /\ UNCHANGED <<system, lock, pc, own, keys, starts, handed>>

Step(p) == \/ NothingToMigrate(p) \/ LegacyInUse(p) \/ LockLegacy(p) \/ Copy(p) \/ Switch(p)
           \/ Mark(p) \/ Unlock(p) \/ Clean(p) \/ Remove(p) \/ ConfigureLogging(p)
           \/ AcquireInstanceLock(p) \/ AlreadyRunning(p) \/ Initialize(p) \/ CreateMainWindow(p)
           \/ KeyRefused(p)

Next == \E p \in Procs : \/ Start(p) \/ Step(p) \/ MigrationFails(p) \/ RemoveFails(p)
                         \/ Save(p) \/ Quit(p) \/ Crash(p)

Spec == Init /\ [][Next]_vars

-----------------------------------------------------------------------------
\* Whatever crashes, fails or runs beside it, a migration loses nothing the user
\* saved before it: every save is in a root that is still there.  (Saves an old
\* version makes in a profile that was already handed over are not covered.)
NothingLost == \A i \in (1..saves) \ late : \E r \in Roots : \E s \in dir[r].data : s.id = i

\* The program that runs can open every credential of its database with the key it
\* has loaded, unless its profile was copied from a legacy root whose removal had begun.
CredentialsOpen == \A p \in Procs :
  pc[p] = "running" /\ ~Portable(p).torn
    => \A s \in Portable(p).data : s.key = cipher[p]

\* One process works on a root at a time, and nobody works on the legacy profile
\* while another process copies it and hands it over.
Alone == \A p, q \in Procs : p # q =>
  /\ ~(pc[p] = "running" /\ pc[q] = "running" /\ RootOf[p] = RootOf[q])
  /\ ~(pc[p] \in {"copying", "copied", "switched"} /\ pc[q] = "running" /\ RootOf[q] = "legacy")

\* README: the first start safely migrates the profile under ~/Library, with its
\* key.  The key of a migrated profile can be opened where the profile now lies.
MigratedKeyOpens == \A r \in Installs : Holds(r, "key") => Unprotects(dir[r], r)
=============================================================================
