----------------------------- MODULE Replacement -----------------------------
(***************************************************************************)
(* What the update documentation promises of replacing the installed        *)
(* program, whatever the platform and whoever is interrupted: a version is  *)
(* given up only while another version that has been seen to start is       *)
(* still there in full.                                                     *)
(***************************************************************************)
CONSTANTS Original,  \* the version installed by hand
          Releases   \* versions the updater may install

Versions == Releases \cup {Original}

VARIABLES copies,  \* versions of which a complete copy lies on the disk
          proven   \* versions that have been seen to start

Init == copies = {Original} /\ proven = {Original}

\* A release is copied next to the installed program.
Bring(v) ==
  /\ copies' = copies \cup {v}
  /\ UNCHANGED proven

\* A copy has started, reported its health and kept running.
Prove(v) ==
  /\ v \in copies
  /\ proven' = proven \cup {v}
  /\ UNCHANGED copies

\* A copy is removed, with a proven one left.
Discard(v) ==
  /\ v \in copies
  /\ (copies \ {v}) \cap proven # {}
  /\ copies' = copies \ {v}
  /\ UNCHANGED proven

Next == \E v \in Versions : Bring(v) \/ Prove(v) \/ Discard(v)

Spec == Init /\ [][Next]_<<copies, proven>>
=============================================================================
