---------------------------- MODULE AccountJobs ----------------------------
(***************************************************************************)
(* The jobs the context menu of an account starts, beside the registry     *)
(* they read and write: the SMTP self-test, the discovery of IMAP servers, *)
(* the read-only audit of Outlook rules, and the consent of Microsoft by   *)
(* device code that an audit may ask for.  Sources: gui/workers,           *)
(* gui/main_window 2928-3103, services/discovery_service, security_audit,  *)
(* security_authorization.                                                 *)
(*                                                                         *)
(* A job runs in a thread of the pool with the account as it was when the  *)
(* job was started; its signals queue for the thread of the window, which  *)
(* also handles them while a message box is open.  The jobs know their     *)
(* account by its rowid, and only fetch workers keep it from deletion.     *)
(***************************************************************************)
EXTENDS Registry

CONSTANTS MaxPolls,  \* bound: answers within the life of a device code
          MaxJobs    \* bound: jobs at a time

ASSUME JobsAssumption == MaxPolls \in Nat /\ MaxJobs \in Nat

VARIABLES
  jobs,      \* running jobs
  inbox,     \* signals for the window, in the order of their emission
  consents,  \* _security_consent_workers: rowids with a registered worker
  dialogs,   \* _security_consent_dialogs: rowids with a device code
  windows,   \* message boxes the window goes on after, device codes; the newest last
  reused     \* rowids deleted while a job was about them

jobVars == <<jobs, inbox, consents, dialogs, windows, reused>>
vars    == <<regVars, jobVars>>

Kinds == {"probe", "discovery", "audit", "consent"}
\* A consent asks for a code, sleeps between its requests, or has one under way;
\* cancelled tells in which of these the user took it back.  Nothing keeps an account
\* from a second job of the same kind: copy tells them apart.
Stages == {"run", "ask", "sleep", "request"}
Job    == [kind: Kinds, id: Ids, box: Boxes, stage: Stages, polls: 0..MaxPolls,
           cancelled: Stages \cup {None}, copy: Nat \ {0}]
Signal == [kind: Kinds, id: Ids, box: Boxes,
           news: {"challenge", "found", "denied", "token", "nothing", "finished"},
           cancelled: Stages \cup {None}]
Modal  == [about: {"permission", "saved", "code"}, id: Ids]

JobsInit == /\ Init
            /\ jobs = {} /\ inbox = <<>> /\ consents = {} /\ dialogs = {}
            /\ windows = <<>> /\ reused = {}

\* The newest box or code keeps the user from the others and from the main window.
Free == windows = <<>>
Open(about, i) == Append(windows, [about |-> about, id |-> i])
Codes == {w.id : w \in {windows[k] : k \in {k \in DOMAIN windows : windows[k].about = "code"}}}

InFlight == {j.id : j \in jobs} \cup {inbox[i].id : i \in DOMAIN inbox}

\* The context menu offers an audit for Graph, a discovery for the others.
Offered(kind, row) == CASE kind = "audit"     -> row.proto = "graph"
                        [] kind = "discovery" -> row.proto # "graph"
                        [] OTHER              -> TRUE

Copies(kind, i) == {j.copy : j \in {k \in jobs : k.kind = kind /\ k.id = i}}

NewJob(kind, i) == [kind |-> kind, id |-> i, box |-> accounts[i].box,
                    stage |-> IF kind = "consent" THEN "ask" ELSE "run",
                    polls |-> 0, cancelled |-> None,
                    copy |-> CHOOSE n \in 1..(Cardinality(jobs) + 1) : n \notin Copies(kind, i)]

StartJob ==
  /\ Free
  /\ \E kind \in {"probe", "discovery", "audit"}, i \in DOMAIN accounts :
       /\ Offered(kind, accounts[i])
       /\ jobs' = jobs \cup {NewJob(kind, i)} /\ Cardinality(jobs') <= MaxJobs
  /\ Edit("jobs")
  /\ UNCHANGED <<store, switch, gui, workers, missed, inbox, consents, dialogs, windows, reused>>

Delete ==
  /\ Free
  /\ \E S \in Ticked : DeleteRows(S) /\ reused' = reused \cup (S \cap InFlight)
  /\ UNCHANGED <<jobs, inbox, consents, dialogs, windows>>
-----------------------------------------------------------------------------
(***************************************************************************)
(* In the threads of the pool.                                             *)
(***************************************************************************)
Says(j, news) == [kind |-> j.kind, id |-> j.id, box |-> j.box, news |-> news,
                  cancelled |-> j.cancelled]

\* The result and, in the finally, the finished signal: no slot of the window can
\* tell them apart in time, but a box opened by the first lets the second in.
Ends(j, news) == /\ jobs' = jobs \ {j}
                 /\ inbox' = inbox \o <<Says(j, news), Says(j, "finished")>>

\* Up to four servers are tried in order, each with its own timeout.
DiscoveryNews == {"found", "nothing"}
\* Token and rules are asked for; the permission alone may be missing.
AuditNews     == {"denied", "nothing"}
\* A mail to oneself; its outcome is only written to the log.
ProbeNews     == {"nothing"}

Outcomes(kind) == CASE kind = "discovery" -> DiscoveryNews
                    [] kind = "audit"     -> AuditNews
                    [] kind = "probe"     -> ProbeNews

RunJob(j) == /\ j.stage = "run"
             /\ \E news \in Outcomes(j.kind) : Ends(j, news)

Becomes(j, next) == jobs' = (jobs \ {j}) \cup {next}

\* request_challenge
AskForCode(j) ==
  /\ j.stage = "ask"
  /\ \/ /\ Becomes(j, [j EXCEPT !.stage = "sleep"])
        /\ inbox' = Append(inbox, Says(j, "challenge"))
     \/ Ends(j, "nothing")

\* wait_for_refresh_token: the deadline before the sleep, the cancellation before
\* and after it, then the request.
\* Slips: no deadline; a cancellation that is looked for only before the first sleep.
Endless(j)      == FALSE
HeededEarly(j)  == j.cancelled = "ask"

Expired(j) == j.polls = MaxPolls
Heeded(j)  == j.cancelled # None

Wake(j) ==
  /\ j.stage = "sleep"
  /\ IF Expired(j) \/ Heeded(j) THEN Ends(j, "nothing")
     ELSE Becomes(j, [j EXCEPT !.stage = "request"]) /\ UNCHANGED inbox

\* The user has signed in, or the answer is still pending, or it is an error.
Reply(j) ==
  /\ j.stage = "request"
  /\ \/ Ends(j, "token")
     \/ /\ Becomes(j, [j EXCEPT !.stage = "sleep", !.polls = IF @ < MaxPolls THEN @ + 1 ELSE @])
        /\ UNCHANGED inbox
     \/ Ends(j, "nothing")

JobStep(j) == /\ RunJob(j) \/ AskForCode(j) \/ Wake(j) \/ Reply(j)
              /\ UNCHANGED <<regVars, consents, dialogs, windows, reused>>
-----------------------------------------------------------------------------
(***************************************************************************)
(* In the thread of the window.                                            *)
(***************************************************************************)
\* _start_security_consent: one for an account at a time, the account read anew.
StartConsent(i) ==
  IF i \in DOMAIN accounts /\ i \notin consents
  THEN jobs' = jobs \cup {NewJob("consent", i)} /\ consents' = consents \cup {i}
  ELSE UNCHANGED <<jobs, consents>>

\* Slip: the update has lost its WHERE.
Everywhere(i, changed) ==
  accounts' = [a \in DOMAIN accounts |->
                 [accounts[a] EXCEPT !.host = changed.host, !.token = changed.token]]

SetRow(i, changed) == accounts' = [accounts EXCEPT ![i] = changed]

\* update_connection writes host and protocol whatever the row has become; the
\* unique index refuses a second IMAP row of the address, a row gone is no error.
SaveConnection(s) ==
  IF s.id \in DOMAIN accounts
     /\ \A b \in DOMAIN accounts \ {s.id} :
          ~(accounts[b].box = accounts[s.id].box /\ accounts[b].proto = "imap")
  THEN SetRow(s.id, [accounts[s.id] EXCEPT !.host = s.box, !.proto = "imap"])
  ELSE UNCHANGED accounts

\* update_refresh_token raises for a row that is gone; else a box, then a new audit.
SaveToken(s, left) ==
  IF s.id \in DOMAIN accounts
  THEN /\ SetRow(s.id, [accounts[s.id] EXCEPT !.token = s.box])
       /\ windows' = Append(left, [about |-> "saved", id |-> s.id])
  ELSE UNCHANGED accounts /\ windows' = left

\* Slip: a consent without a token returns before the dialog is closed.
TokensOnly(s) == IF s.news = "token" THEN {s.id} ELSE {}

\* The dialog is closed first, whatever the result; a cancelled consent ends there.
ClosedBy(s) == {s.id}
WithoutCodes(S) == SelectSeq(windows, LAMBDA w : w.about # "code" \/ w.id \notin S)

Discovered(s) == /\ s.kind = "discovery" /\ s.news # "finished"
                 /\ IF s.news = "found" THEN SaveConnection(s) ELSE UNCHANGED accounts
                 /\ UNCHANGED <<consents, dialogs, windows>>

Audited(s) == /\ s.kind = "audit" /\ s.news # "finished"
              /\ windows' = IF s.news = "denied" THEN Open("permission", s.id) ELSE windows
              /\ UNCHANGED <<accounts, consents, dialogs>>

Challenged(s) == /\ s.kind = "consent" /\ s.news = "challenge"
                 /\ dialogs' = dialogs \cup {s.id} /\ windows' = Open("code", s.id)
                 /\ UNCHANGED <<accounts, consents>>

Consented(s) == /\ s.kind = "consent" /\ s.news \in {"token", "nothing"}
                /\ dialogs' = dialogs \ ClosedBy(s)
                /\ LET left == WithoutCodes(ClosedBy(s))
                   IN  IF s.news = "token" THEN SaveToken(s, left)
                       ELSE UNCHANGED accounts /\ windows' = left
                /\ UNCHANGED consents

Finished(s) == /\ s.news = "finished" \/ s.kind = "probe"
               /\ consents' = IF s.kind = "consent" THEN consents \ {s.id} ELSE consents
               /\ UNCHANGED <<accounts, dialogs, windows>>

HandleSignal ==
  /\ saving = None
  /\ inbox # <<>> /\ inbox' = Tail(inbox)
  /\ LET s == Head(inbox)
     IN  Discovered(s) \/ Audited(s) \/ Challenged(s) \/ Consented(s) \/ Finished(s)
  /\ UNCHANGED <<groups, proxies, tags, hooks, rules, schedules, switch, gui, workers, missed,
                 session, edits, jobs, reused>>

\* The user answers the newest window: a box is closed and its slot goes on.
AnswerBox ==
  /\ saving = None
  /\ windows # <<>> /\ windows' = Front(windows)
  /\ LET b == Last(windows)
     IN  \/ b.about = "permission" /\ StartConsent(b.id)
         \/ b.about = "permission" /\ UNCHANGED <<jobs, consents>>
         \/ /\ b.about = "saved" /\ UNCHANGED consents
            /\ jobs' = jobs \cup (IF b.id \in DOMAIN accounts THEN {NewJob("audit", b.id)} ELSE {})
  /\ UNCHANGED <<regVars, inbox, dialogs, reused>>

\* A device code is closed, but stays registered until the result comes.
CancelConsent ==
  /\ saving = None
  /\ windows # <<>> /\ windows' = Front(windows)
  /\ LET w == Last(windows)
     IN  /\ w.about = "code"
         /\ jobs' = {IF j.kind = "consent" /\ j.id = w.id /\ j.id \in consents
                     THEN [j EXCEPT !.cancelled = j.stage] ELSE j : j \in jobs}
  /\ UNCHANGED <<regVars, inbox, consents, dialogs, reused>>
-----------------------------------------------------------------------------
Next ==
  \/ Free /\ UserEdits /\ UNCHANGED jobVars
  \/ Background /\ UNCHANGED jobVars
  \/ StartJob \/ Delete \/ HandleSignal \/ AnswerBox \/ CancelConsent
  \/ \E j \in jobs : JobStep(j)

\* The threads run, the event loop turns; the user owes nothing.
Consenting(i) == \E j \in jobs : j.kind = "consent" /\ j.id = i /\ JobStep(j)

Spec == /\ JobsInit /\ [][Next]_vars
        /\ WF_vars(HandleSignal) /\ \A i \in Ids : WF_vars(Consenting(i))
-----------------------------------------------------------------------------
JobsTypeOK ==
  /\ TypeOK
  /\ jobs \subseteq Job /\ inbox \in Seq(Signal) /\ windows \in Seq(Modal)
  /\ consents \subseteq Ids /\ Codes \subseteq dialogs /\ dialogs \subseteq Ids
  /\ reused \subseteq Ids

(***************************************************************************)
(* A server found, or a token given, for one mailbox is never stored for   *)
(* another: the next fetch would offer the password or the mail of the one *)
(* to the other.  Rowids are used again, so the account must not have been *)
(* deleted while the job was about it; nothing but the fetch workers keeps *)
(* the user from that.                                                     *)
(***************************************************************************)
ResultsKeepTheirAccount ==
  \A i \in DOMAIN accounts \ reused :
    accounts[i].host = accounts[i].box /\ accounts[i].token = accounts[i].box

(***************************************************************************)
(* An open device code belongs to a consent that is still under way, so    *)
(* cancelling it reaches that one's worker and its result closes it.       *)
(***************************************************************************)
NoOrphanDialog ==
  \A i \in dialogs :
    /\ i \in consents
    /\ \/ \E j \in jobs : j.kind = "consent" /\ j.id = i
       \/ \E k \in DOMAIN inbox : inbox[k].kind = "consent" /\ inbox[k].id = i
                                    /\ inbox[k].news \in {"token", "nothing"}

(***************************************************************************)
(* A consent that is taken back while it sleeps brings no token; only a    *)
(* request already under way may still be granted.                         *)
(***************************************************************************)
CancelledInTime ==
  \A k \in DOMAIN inbox : inbox[k].news = "token" => inbox[k].cancelled \in {None, "request"}

(***************************************************************************)
(* The device code keeps the main window from the user, and ends with or   *)
(* without an answer of Microsoft.                                         *)
(***************************************************************************)
WindowComesBack == \A i \in Ids : i \in Codes ~> i \notin Codes
=============================================================================
