------------------------------- MODULE Outbox -------------------------------
(***************************************************************************)
(* Writing and sending mail: the compose dialog with its attachments and its *)
(* question, the worker that sends the draft from every chosen account, the  *)
(* SMTP and Graph clients with the errors they classify, the audit and the   *)
(* slots of the main window.                                                 *)
(***************************************************************************)
EXTENDS Naturals, Sequences, FiniteSets, FiniteSetsExt

CONSTANTS
  Accounts, Graph,     \* the senders, and those that send through Graph
  Spellings, BoxOf,    \* what the user types for an address and the address it means
  Malformed,           \* ... or that it means none
  Paths,               \* files on the disk
  Sizes,               \* their sizes
  Forms, Selections,   \* what the user fills in, and the accounts selected
  MaxRecipients, MaxFiles, MaxFile, MaxTotal, MaxGraph,  \* limits of the code
  MaxBatches, MaxChanges,  \* bounds: mails sent, changes of a file
  None

Fields == {"to", "cc", "bcc"}
Boxes  == {BoxOf[s] : s \in Spellings} \ {Malformed}

ASSUME OutboxAssumption ==
  /\ Graph \subseteq Accounts /\ BoxOf \in [Spellings -> Boxes \cup {Malformed}]
  /\ Sizes \subseteq Nat /\ None \notin Accounts
  /\ Forms \subseteq [to : [Fields -> SUBSET Spellings], text : BOOLEAN, agreed : BOOLEAN]
  /\ Selections \subseteq Seq(Accounts) /\ IsFiniteSet(Boxes)
  /\ \A s \in Selections : \A i, j \in DOMAIN s : s[i] = s[j] => i = j
  /\ MaxRecipients \in Nat

VARIABLES
  disk,      \* the sizes of the files
  dialog,    \* the compose dialog: none, editing, or asking the question
  form,      \* what its fields hold
  paths,     \* the attachments chosen
  draft,     \* dialog.draft
  senders,   \* the accounts of the dialog, then of the worker
  worker,    \* _send_worker: none, queued, running or done
  at,        \* the place of the account it sends from
  client,    \* its client: none, made, connected
  results,   \* the results so far
  events,    \* the worker's signals not handled yet
  served,    \* at the servers: the recipients of the mail of this batch
  copies,    \* ... and how often each account handed it in
  confirmed, \* what the user said yes to
  told,      \* the summary shown last
  batches, changes

ui   == <<dialog, form, paths, draft>>
job  == <<worker, at, client, results>>
mail == <<served, copies>>
vars == <<disk, ui, senders, job, events, mail, confirmed, told, batches, changes>>

Files  == [path : Paths, size : Sizes]
Drafts == [to : [Fields -> SUBSET Boxes], files : SUBSET Files]
Status == {"success", "partial", "config", "auth", "timeout", "network", "rejected", "blocked",
           "large", "limited", "provider", "validation", "unknown"}
Result(s, gone) == [status |-> s, rejected |-> gone]
Results == [status : Status, rejected : SUBSET Boxes]
Blank  == [to |-> [f \in Fields |-> {}], text |-> FALSE, agreed |-> FALSE]
NoMail == [to |-> Blank.to, files |-> {}]

TypeOK ==
  /\ disk \in [Paths -> Sizes] /\ dialog \in {"none", "editing", "asking"}
  /\ form \in Forms \cup {Blank} /\ paths \subseteq Paths /\ draft \in Drafts
  /\ senders \in Selections \cup {<<>>} /\ worker \in {"none", "queued", "running", "done"}
  /\ at \in Nat /\ client \in {"none", "made", "connected"}
  /\ results \in Seq(Results) /\ events \in Seq({"result", "failure", "finished"})
  /\ served \in [Accounts -> SUBSET Boxes] /\ copies \in [Accounts -> Nat]
  /\ confirmed \in [draft : Drafts, senders : Selections \cup {<<>>}]
  /\ told \in [ok : Nat, failed : Nat] \cup {None}
  /\ batches \in 0..MaxBatches
  /\ changes \in 0..MaxChanges

Init ==
  /\ disk \in [Paths -> Sizes] /\ dialog = "none" /\ form = Blank /\ paths = {} /\ draft = NoMail
  /\ senders = <<>> /\ worker = "none" /\ at = 0 /\ client = "none" /\ results = <<>>
  /\ events = <<>> /\ served = [a \in Accounts |-> {}] /\ copies = [a \in Accounts |-> 0]
  /\ confirmed = [draft |-> NoMail, senders |-> <<>>] /\ told = None
  /\ batches = 0 /\ changes = 0

\* Another program writes an attachment anew.
FileChanges ==
  /\ changes < MaxChanges /\ changes' = changes + 1 /\ \E p \in Paths, n \in Sizes : disk' = [disk EXCEPT ![p] = n]
  /\ UNCHANGED <<ui, senders, job, events, mail, confirmed, told, batches>>

-----------------------------------------------------------------------------
(* The compose dialog *)

Size(files)   == MapThenSumSet(LAMBDA f : f.size, files)
Recipients(d) == UNION {d.to[f] : f \in Fields}
Count(d)      == Cardinality(d.to["to"]) + Cardinality(d.to["cc"]) + Cardinality(d.to["bcc"])

\* _normalize_recipients, field by field, and OutgoingAttachment.from_path.
Draft(f, chosen) == [to    |-> [x \in Fields |-> {BoxOf[s] : s \in f.to[x]} \ {Malformed}],
                     files |-> {[path |-> p, size |-> disk[p]] : p \in chosen}]

FitsTogether(files) == Size(files) <= MaxTotal
Trusting(f, chosen) ==  \* slip: sizes were looked at when the files were chosen
  /\ \A x \in Fields : Malformed \notin {BoxOf[s] : s \in f.to[x]}
  /\ Count(Draft(f, chosen)) \in 1..MaxRecipients /\ f.text

\* OutgoingDraft.__post_init__ and OutgoingAttachment.__post_init__
Valid(f, chosen) ==
  /\ \A x \in Fields : Malformed \notin {BoxOf[s] : s \in f.to[x]}
  /\ Count(Draft(f, chosen)) \in 1..MaxRecipients
  /\ f.text
  /\ Cardinality(chosen) <= MaxFiles
  /\ \A p \in chosen : disk[p] <= MaxFile
  /\ FitsTogether(Draft(f, chosen).files)

\* show_compose_dialog, from the tool bar or for the account of an open mail.
Compose(chosen) ==
  /\ worker = "none" /\ dialog = "none" /\ batches < MaxBatches /\ chosen # <<>>
  /\ dialog' = "editing" /\ form' = Blank /\ paths' = {} /\ draft' = NoMail /\ senders' = chosen
  /\ UNCHANGED <<disk, job, events, mail, confirmed, told, batches, changes>>

Edit ==
  /\ dialog = "editing" /\ form' \in Forms
  /\ UNCHANGED <<disk, dialog, paths, draft, senders, job, events, mail, confirmed, told, batches, changes>>

ChooseAttachment ==
  /\ dialog = "editing"
  /\ \E p \in Paths : \/ p \notin paths /\ disk[p] <= MaxFile /\ paths' = paths \cup {p}
                      \/ p \in paths /\ paths' = paths \ {p}
  /\ UNCHANGED <<disk, dialog, form, draft, senders, job, events, mail, confirmed, told, batches, changes>>

\* accept: the draft is kept before the confirmation of a batch is looked at.
Agreed == Len(senders) > 1 => form.agreed
Accept ==
  /\ dialog = "editing" /\ Valid(form, paths) /\ draft' = Draft(form, paths)
  /\ dialog' = IF Agreed THEN "asking" ELSE "editing"
  /\ UNCHANGED <<disk, form, paths, senders, job, events, mail, confirmed, told, batches, changes>>

Decline ==
  /\ \/ dialog = "asking" /\ dialog' = "editing"
        /\ UNCHANGED <<form, paths, draft, senders>>
     \/ dialog = "editing" /\ dialog' = "none"
        /\ form' = Blank /\ paths' = {} /\ draft' = NoMail /\ senders' = <<>>
  /\ UNCHANGED <<disk, job, events, mail, confirmed, told, batches, changes>>

\* Yes: the dialog is accepted and the worker is queued in the pool.
Confirm ==
  /\ dialog = "asking" /\ dialog' = "none"
  /\ confirmed' = [draft |-> draft, senders |-> senders]
  /\ worker' = "queued" /\ at' = 1 /\ results' = <<>> /\ batches' = batches + 1
  /\ served' = [a \in Accounts |-> {}] /\ copies' = [a \in Accounts |-> 0]
  /\ form' = Blank /\ paths' = {} /\ told' = None
  /\ UNCHANGED <<disk, draft, senders, client, events, changes>>

-----------------------------------------------------------------------------
(* SendBatchWorker, send_batch, send_account and the clients *)

Sender == senders[at]
Sending(c) == worker = "running" /\ at <= Len(senders) /\ client = c
Quiet == UNCHANGED <<disk, ui, senders, worker, events, confirmed, told, batches, changes>>

Begin == /\ worker = "queued" /\ worker' = "running"
         /\ UNCHANGED <<disk, ui, senders, at, client, results, events, mail, confirmed, told,
                        batches, changes>>

\* The result of one account; its client is closed, and what the audit does is
\* without a consequence.
Answer(r) == results' = Append(results, r) /\ at' = at + 1 /\ client' = "none"

\* default_send_client_factory: the settings, or the exchange of the refresh token.
MakeClient ==
  /\ Sending("none")
  /\ \/ client' = "made" /\ UNCHANGED <<at, results>>
     \/ Sender \notin Graph /\ \E s \in {"config", "timeout", "network", "auth", "unknown"} : Answer(Result(s, {}))
  /\ Quiet /\ UNCHANGED mail

\* _classify_smtp_send_error, by what went wrong.
SmtpStatus == [recipients |-> "rejected", authentication |-> "auth", sender |-> "blocked",
               timedOut |-> "timeout", disconnected |-> "network", code421 |-> "limited", code530 |-> "auth",
               code552 |-> "large", code550 |-> "rejected", code5xx |-> "blocked", codeOther |-> "provider",
               os |-> "network", value |-> "validation", smtp |-> "provider", other |-> "unknown"]

\* Lost on the way: the server may have taken the mail already.
Lost == {"timedOut", "disconnected", "os"}

\* The connection and the login, with a mail built before; the envelope comes later.
Connect ==
  /\ Sending("made") /\ Sender \notin Graph
  /\ \/ client' = "connected" /\ UNCHANGED <<at, results>>
     \/ \E e \in DOMAIN SmtpStatus \ {"recipients", "sender"} : Answer(Result(SmtpStatus[e], {}))
  /\ Quiet /\ UNCHANGED mail

Deliver(gone) ==
  /\ served' = [served EXCEPT ![Sender] = Recipients(draft) \ gone]
  /\ copies' = [copies EXCEPT ![Sender] = @ + 1]

SmtpOk(gone) == Result("success", {})  \* slip: what the server refused is not looked at
Accepted(gone) == IF gone = {} THEN Result("success", {}) ELSE Result("partial", gone)

Submit ==
  /\ Sending("connected")
  /\ \/ \E gone \in (SUBSET Recipients(draft)) \ {Recipients(draft)} :
          Deliver(gone) /\ \/ Answer(Accepted(gone))
                           \/ \E e \in Lost : Answer(Result(SmtpStatus[e], {}))
     \/ /\ \E e \in DOMAIN SmtpStatus :
             Answer(Result(SmtpStatus[e], IF e = "recipients" THEN Recipients(draft) ELSE {}))
        /\ UNCHANGED mail
  /\ Quiet

\* OutlookGraphClient.send_message: one request, or none for what is too large.
GraphSubmit ==
  /\ Sending("made") /\ Sender \in Graph
  /\ \/ /\ Size(draft.files) > MaxGraph /\ Answer(Result("large", {})) /\ UNCHANGED mail
     \/ /\ Size(draft.files) <= MaxGraph
        /\ \/ Deliver({}) /\ \E s \in {"success", "timeout", "network"} : Answer(Result(s, {}))
           \/ /\ \E s \in {"large", "auth", "validation", "limited", "provider", "timeout", "network", "unknown"} :
                   Answer(Result(s, {}))
              /\ UNCHANGED mail
  /\ Quiet

Ended     == at > Len(senders)
OnlyResult == <<"result">>  \* slip: no finally
Signals    == <<"result", "finished">>

Report ==
  /\ worker = "running" /\ Ended /\ worker' = "done" /\ events' = Signals
  /\ UNCHANGED <<disk, ui, senders, at, client, results, mail, confirmed, told, batches, changes>>

-----------------------------------------------------------------------------
(* The slots of the main window *)

Good == {i \in DOMAIN results : results[i].status \in {"success", "partial"}}

SendBatchResult ==
  /\ events # <<>> /\ Head(events) = "result" /\ events' = Tail(events)
  /\ told' = [ok |-> Cardinality(Good), failed |-> Len(results) - Cardinality(Good)]
  /\ UNCHANGED <<disk, ui, senders, job, mail, confirmed, batches, changes>>

SendBatchFinished ==
  /\ events # <<>> /\ Head(events) = "finished" /\ events' = Tail(events)
  /\ worker' = "none" /\ results' = <<>>
  /\ UNCHANGED <<disk, ui, senders, at, client, mail, confirmed, told, batches, changes>>

User == FileChanges \/ (\E s \in Selections : Compose(s)) \/ Edit \/ ChooseAttachment \/ Accept \/ Decline \/ Confirm
Run  == Begin \/ MakeClient \/ Connect \/ Submit \/ GraphSubmit \/ Report
Slot == SendBatchResult \/ SendBatchFinished

Next == User \/ Run \/ Slot
Spec == Init /\ [][Next]_vars /\ WF_vars(Run) /\ WF_vars(Slot)

-----------------------------------------------------------------------------
\* Nothing leaves an account but the mail the user said yes to, from the accounts
\* named then, within the limits, and once per account, whatever changes meanwhile.
SentAsConfirmed ==
  \A a \in Accounts :
    /\ copies[a] <= 1
    /\ served[a] # {} => /\ \E i \in DOMAIN confirmed.senders : confirmed.senders[i] = a
                         /\ served[a] \subseteq Recipients(confirmed.draft)
                         /\ Size(confirmed.draft.files) <= IF a \in Graph THEN MaxGraph ELSE MaxTotal
                         /\ \A f \in confirmed.draft.files : f.size <= MaxFile
                         /\ Cardinality(Recipients(confirmed.draft)) <= MaxRecipients

\* A result says what happened at the server: a success that everybody but the
\* addresses it names got the mail, a failure that nobody did, unless the answer
\* was lost on the way.
ResultsTruthful ==
  \A i \in DOMAIN results :
    LET r == results[i]
        got == served[confirmed.senders[i]]
    IN /\ r.status \in {"success", "partial"} =>
            got = Recipients(confirmed.draft) \ r.rejected /\ got # {}
       /\ r.status \notin {"success", "partial", "timeout", "network"} => got = {}

\* Every batch ends and gives the send button back.
BatchReported == [](worker = "queued" => <>(worker = "none"))
=============================================================================
