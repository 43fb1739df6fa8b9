----------------------------- MODULE FetchBatch -----------------------------
(***************************************************************************)
(* One "fetch batch" of MailDesk: the main window registers one FetchWorker *)
(* per account, a thread pool runs FetchService.fetch_account in worker     *)
(* threads, and the workers' Qt signals come back to the main thread, which *)
(* keeps the books (workers, results, totals, toolbar state) and writes     *)
(* some statuses to SQLite itself.  Accounts are imported and deleted by    *)
(* the same main thread while batches run, and a timer starts scheduled     *)
(* batches, also from inside the event loop of an open message box.         *)
(*                                                                         *)
(* Account ids are SQLite rowids without AUTOINCREMENT: an id freed by a    *)
(* deletion is given to a later account.  A mailbox is therefore a number   *)
(* of its own (box), and owner[a] says which mailbox the row a is.          *)
(***************************************************************************)
EXTENDS Naturals, Sequences, FiniteSets

CONSTANTS Ids,        \* account rowids the model may hand out
          PoolSize,   \* concurrency_spin.value(): worker threads of the pool
          MaxBoxes,   \* bound: mailboxes ever imported
          MaxBatches, \* bound: batches ever started
          MaxFaults   \* bound: SQLite or file-system errors ever raised

ASSUME BatchAssumption ==
  /\ IsFiniteSet(Ids) /\ Ids \subseteq Nat \ {0}
  /\ PoolSize \in Nat \ {0}
  /\ MaxBoxes \in Nat /\ MaxBatches \in Nat /\ MaxFaults \in Nat

VARIABLES
  owner,      \* accounts table: the mailbox of each row, 0 where there is none
  status,     \* accounts.status
  stored,     \* messages table: the mailboxes whose mail is filed under an id
  eml,        \* EML directory: the mailboxes whose originals lie under an id
  boxes,      \* mailboxes imported so far
  workers,    \* MainWindow._workers: ids of the registered workers
  task,       \* the QRunnable of each id, with the locals of fetch_account
  inbox,      \* signals of an id's worker that the main thread has not handled
  stopEvent,  \* MainWindow._stop_event
  stopping,   \* MainWindow._fetch_stop_requested
  ui,         \* state shown by _set_fetch_ui_state
  total,      \* MainWindow._fetch_total
  results,    \* MainWindow._fetch_results
  summary,    \* the counts of the last summary shown
  asking,     \* ids the open "delete?" message box is about
  batches,    \* batches started so far
  faults,     \* errors raised so far
  raced,      \* ids deleted while a worker of theirs was registered
  leftover,   \* ids whose EML directory the log asks the user to remove
  lastRun     \* per id: the mailbox of its worker in the last batch, and the
              \* status that worker reported at its end

store == <<owner, status, stored, eml, boxes>>
books == <<workers, total, results, summary, stopping, ui>>
notes == <<raced, leftover>>
vars  == <<store, books, task, inbox, stopEvent, asking, batches, faults, notes, lastRun>>

-----------------------------------------------------------------------------
(* Types *)

Boxes    == 0..MaxBoxes  \* 0: no mailbox
Terminal == {"success", "network_error", "unknown_error", "cancelled"}
Statuses == Terminal \cup {"disconnected", "connecting"}
Phases   == {"none", "queued", "connecting", "fetched", "saved", "added", "failed"}
Mail     == {"none", "some"}
Tasks    == [pc : Phases, box : Boxes, outcome : Terminal, mail : Mail]
Counts   == [total : Nat, success : Nat, cancelled : Nat, failed : Nat]
Runs     == [box : Boxes, outcome : Terminal \cup {"unreported"}]
Signals  == [kind : {"status"}, status : Terminal \cup {"connecting"}]
              \cup [kind : {"finished"}, status : {"cancelled"}]

StatusSignal(s) == [kind |-> "status", status |-> s]
Finished        == [kind |-> "finished", status |-> "cancelled"]
NoSummary       == [total |-> 0, success |-> 0, cancelled |-> 0, failed |-> 0]
Idle            == [pc |-> "none", box |-> 0, outcome |-> "cancelled", mail |-> "none"]

Rows == {a \in Ids : owner[a] # 0}
Live == {a \in Ids : task[a].pc # "none"}
Busy == {a \in Ids : task[a].pc \notin {"none", "queued"}}

TypeOK ==
  /\ owner \in [Ids -> Boxes]
  /\ status \in [Ids -> Statuses]
  /\ stored \in [Ids -> SUBSET Boxes]
  /\ eml \in [Ids -> SUBSET Boxes]
  /\ boxes \in Boxes
  /\ workers \subseteq Ids
  /\ task \in [Ids -> Tasks]
  /\ inbox \in [Ids -> Seq(Signals)]
  /\ stopEvent \in BOOLEAN /\ stopping \in BOOLEAN
  /\ ui \in {"idle", "running", "stopping"}
  /\ total \in Nat
  /\ results \in [Ids -> Terminal \cup {"unreported"}]
  /\ summary \in Counts
  /\ asking \subseteq Ids
  /\ batches \in 0..MaxBatches /\ faults \in 0..MaxFaults
  /\ raced \subseteq Ids /\ leftover \subseteq Ids
  /\ lastRun \in [Ids -> Runs]

Init ==
  /\ owner = [a \in Ids |-> 0]
  /\ status = [a \in Ids |-> "disconnected"]
  /\ stored = [a \in Ids |-> {}]
  /\ eml = [a \in Ids |-> {}]
  /\ boxes = 0
  /\ workers = {}
  /\ task = [a \in Ids |-> Idle]
  /\ inbox = [a \in Ids |-> <<>>]
  /\ stopEvent = FALSE /\ stopping = FALSE /\ ui = "idle"
  /\ total = 0
  /\ results = [a \in Ids |-> "unreported"]
  /\ summary = NoSummary
  /\ asking = {}
  /\ batches = 0 /\ faults = 0
  /\ raced = {} /\ leftover = {}
  /\ lastRun = [a \in Ids |-> [box |-> 0, outcome |-> "unreported"]]

-----------------------------------------------------------------------------
(* Main thread: importing and deleting accounts *)

\* The rowid SQLite gives to a new row of a table without AUTOINCREMENT: one
\* more than the largest id in the table.
IsNextRowid(a) ==
  IF Rows = {} THEN a = 1
               ELSE /\ a - 1 \in Rows
                    /\ \A b \in Rows : b < a

\* Accept an import: AccountRepository.add_many inserts a row in state
\* "disconnected".  The message box of a deletion is modal, so not meanwhile.
Import ==
  /\ asking = {}
  /\ boxes < MaxBoxes
  /\ boxes' = boxes + 1
  /\ \E a \in Ids :
       /\ IsNextRowid(a)
       /\ owner' = [owner EXCEPT ![a] = boxes + 1]
       /\ status' = [status EXCEPT ![a] = "disconnected"]
  /\ UNCHANGED <<stored, eml, books, task, inbox, stopEvent, asking, batches, faults, notes, lastRun>>

\* delete_selected_accounts up to its message box: refused when one of the
\* checked accounts has a registered worker.
AskDelete ==
  /\ asking = {}
  /\ \E chosen \in (SUBSET Rows) \ {{}} :
       /\ chosen \cap workers = {}
       /\ asking' = chosen
  /\ UNCHANGED <<store, books, task, inbox, stopEvent, batches, faults, notes, lastRun>>

CancelDelete ==
  /\ asking # {}
  /\ asking' = {}
  /\ UNCHANGED <<store, books, task, inbox, stopEvent, batches, faults, notes, lastRun>>

NoCascade      == stored                       \* slip: foreign keys not enabled
MessagesGone   == [a \in Ids |-> IF a \in asking THEN {} ELSE stored[a]]

\* The user confirmed: the rows go (messages by ON DELETE CASCADE), then the
\* EML directories; a directory that cannot be removed is named in the log.
ConfirmDelete ==
  /\ asking # {}
  /\ asking' = {}
  /\ owner' = [a \in Ids |-> IF a \in asking THEN 0 ELSE owner[a]]
  /\ status' = [a \in Ids |-> IF a \in asking THEN "disconnected" ELSE status[a]]
  /\ stored' = MessagesGone
  /\ raced' = raced \cup (asking \cap workers)
  /\ \E kept \in SUBSET {a \in asking : eml[a] # {}} :
       /\ faults + Cardinality(kept) <= MaxFaults
       /\ faults' = faults + Cardinality(kept)
       /\ eml' = [a \in Ids |-> IF a \in asking \ kept THEN {} ELSE eml[a]]
       /\ leftover' = leftover \cup kept
  /\ UNCHANGED <<boxes, books, task, inbox, stopEvent, batches, lastRun>>

-----------------------------------------------------------------------------
(* Main thread: starting and stopping a batch *)

AnyTime      == TRUE                           \* slip: no test of _workers
NoBatchRuns  == workers = {}

\* _queue_fetch: nothing happens while a worker is registered; otherwise the
\* stop event of the previous batch is cleared and one worker per account is
\* registered and handed to the pool with a copy of its account.
QueueFetch(chosen) ==
  /\ NoBatchRuns
  /\ batches < MaxBatches
  /\ batches' = batches + 1
  /\ stopEvent' = FALSE
  /\ stopping' = FALSE
  /\ ui' = "running"
  /\ workers' = chosen
  /\ task' = [a \in Ids |-> IF a \in chosen
                              THEN [Idle EXCEPT !.pc = "queued", !.box = owner[a]]
                              ELSE task[a]]
  /\ total' = Cardinality(chosen)
  /\ results' = [a \in Ids |-> "unreported"]
  /\ lastRun' = [a \in Ids |-> [box |-> IF a \in chosen THEN owner[a] ELSE 0,
                                outcome |-> "unreported"]]
  /\ summary' = NoSummary
  /\ UNCHANGED <<store, inbox, asking, faults, notes>>

\* start_fetch (the checked accounts) and fetch_active_account (a single one).
StartFetch ==
  /\ asking = {}
  /\ \E chosen \in (SUBSET Rows) \ {{}} : QueueFetch(chosen)

\* _run_due_schedules, for a schedule whose group holds the chosen accounts.
\* It is a QTimer callback: the nested event loop of a message box runs it too.
ScheduleTick == \E group \in (SUBSET Rows) \ {{}} : QueueFetch(group)

\* stop_fetch.
StopFetch ==
  /\ asking = {}
  /\ stopEvent' = TRUE
  /\ stopping' = (stopping \/ workers # {})
  /\ ui' = IF workers # {} THEN "stopping" ELSE ui
  /\ UNCHANGED <<store, workers, total, results, summary, task, inbox,
                 asking, batches, faults, notes, lastRun>>

-----------------------------------------------------------------------------
(* Worker threads: FetchWorker.run and FetchService.fetch_account *)

Advance(a, pc) == task' = [task EXCEPT ![a].pc = pc]
Emit(a, sigs)  == inbox' = [inbox EXCEPT ![a] = @ \o sigs]
Raise          == faults < MaxFaults /\ faults' = faults + 1

\* The last signals of a worker, after which its run is over.
StatusOnly(s)  == <<StatusSignal(s)>>          \* slip: no finished.emit
LastSignals(s) == <<StatusSignal(s), Finished>>

Report(a, s) ==
  /\ task' = [task EXCEPT ![a] = Idle]
  /\ Emit(a, LastSignals(s))
  /\ lastRun' = [lastRun EXCEPT ![a].outcome = s]

\* run: the stop event is read once, before anything else.
BeginRun(a) ==
  /\ task[a].pc = "queued"
  /\ Cardinality(Busy) < PoolSize
  /\ IF stopEvent
       THEN Report(a, "cancelled")
       ELSE /\ Advance(a, "connecting")
            /\ Emit(a, <<StatusSignal("connecting")>>)
            /\ UNCHANGED lastRun
  /\ UNCHANGED <<store, books, stopEvent, asking, batches, faults, notes>>

\* client.fetch_messages returned a FetchResult: success or a classified
\* error, with the messages it managed to read, or it raised.
ClientReturns(a) ==
  /\ task[a].pc = "connecting"
  /\ \/ \E outcome \in {"success", "network_error"}, mail \in Mail :
          task' = [task EXCEPT ![a].pc = "fetched",
                               ![a].outcome = outcome, ![a].mail = mail]
     \/ Advance(a, "failed")
  /\ UNCHANGED <<store, books, inbox, stopEvent, asking, batches, faults, notes, lastRun>>

\* EmlStore.save: a message carries its original only when save_eml was on.
SaveOriginals(a) ==
  /\ task[a].pc = "fetched"
  /\ \/ /\ \/ UNCHANGED eml
           \/ /\ task[a].mail = "some"
              /\ eml' = [eml EXCEPT ![a] = @ \cup {task[a].box}]
        /\ Advance(a, "saved")
        /\ UNCHANGED faults
     \/ /\ task[a].mail = "some"
        /\ Raise
        /\ Advance(a, "failed")
        /\ UNCHANGED eml
  /\ UNCHANGED <<owner, status, stored, boxes, books, inbox, stopEvent, asking,
                 batches, notes, lastRun>>

\* MessageRepository.add_many: the foreign key refuses mail for a missing row.
StoreMessages(a) ==
  /\ task[a].pc = "saved"
  /\ \/ /\ task[a].mail = "none"
        /\ Advance(a, "added")
        /\ UNCHANGED <<stored, faults>>
     \/ /\ task[a].mail # "none" /\ owner[a] # 0
        /\ stored' = [stored EXCEPT ![a] = @ \cup {task[a].box}]
        /\ Advance(a, "added")
        /\ UNCHANGED faults
     \/ /\ task[a].mail # "none" /\ owner[a] = 0
        /\ Advance(a, "failed")
        /\ UNCHANGED <<stored, faults>>
     \/ /\ task[a].mail # "none" /\ Raise
        /\ Advance(a, "failed")
        /\ UNCHANGED stored
  /\ UNCHANGED <<owner, status, eml, boxes, books, inbox, stopEvent, asking,
                 batches, notes, lastRun>>

\* accounts.update_status and the audit record that follows it, each committed
\* for itself.  Without a row the UPDATE matches nothing and the audit record
\* breaks its foreign key; that error, like a database error in either, leaves
\* fetch_account and the worker reports unknown_error.
FinishWith(a, s) ==
  \/ /\ owner[a] # 0
     /\ status' = [status EXCEPT ![a] = s]
     /\ Report(a, s)
     /\ UNCHANGED faults
  \/ /\ \/ owner[a] = 0 /\ UNCHANGED <<status, faults>>
        \/ Raise /\ UNCHANGED status
        \/ Raise /\ owner[a] # 0 /\ status' = [status EXCEPT ![a] = s]
     /\ Report(a, "unknown_error")

\* The routed proxy is missing or disabled: ProxyRouteError before any network
\* call.
RouteFails(a) ==
  /\ task[a].pc = "connecting"
  /\ FinishWith(a, "network_error")
  /\ UNCHANGED <<owner, stored, eml, boxes, books, stopEvent, asking, batches, notes>>

\* The normal end of fetch_account.  An error here is handled once more by the
\* except clause of the same call.
FinishFetch(a) ==
  /\ task[a].pc = "added"
  /\ \/ /\ owner[a] # 0
        /\ status' = [status EXCEPT ![a] = task[a].outcome]
        /\ Report(a, task[a].outcome)
        /\ UNCHANGED faults
     \/ /\ owner[a] = 0
        /\ Advance(a, "failed")
        /\ UNCHANGED <<status, inbox, faults, lastRun>>
     \/ /\ Raise
        /\ \/ UNCHANGED status
           \/ owner[a] # 0 /\ status' = [status EXCEPT ![a] = task[a].outcome]
        /\ Advance(a, "failed")
        /\ UNCHANGED <<inbox, lastRun>>
  /\ UNCHANGED <<owner, stored, eml, boxes, books, stopEvent, asking, batches, notes>>

\* The "except Exception" clause of fetch_account.
FinishFailed(a) ==
  /\ task[a].pc = "failed"
  /\ FinishWith(a, "unknown_error")
  /\ UNCHANGED <<owner, stored, eml, boxes, books, stopEvent, asking, batches, notes>>

-----------------------------------------------------------------------------
(* Main thread: the slots of the workers' signals *)

Counted(s) == s # "connecting"

\* _worker_status: connecting, cancelled and unknown_error are written to the
\* database from here, every status but connecting enters _fetch_results.  A
\* database error ends the slot.
HandleStatus(a) ==
  /\ inbox[a] # <<>> /\ Head(inbox[a]).kind = "status"
  /\ inbox' = [inbox EXCEPT ![a] = Tail(@)]
  /\ LET s == Head(inbox[a]).status
         persists == s \in {"connecting", "cancelled", "unknown_error"}
     IN \/ /\ status' = IF persists /\ owner[a] # 0
                          THEN [status EXCEPT ![a] = s] ELSE status
           /\ results' = IF Counted(s)
                           THEN [results EXCEPT ![a] = s] ELSE results
           /\ UNCHANGED faults
        \/ /\ persists /\ Raise
           /\ UNCHANGED <<status, results>>
  /\ UNCHANGED <<owner, stored, eml, boxes, workers, total, summary, stopping,
                 ui, task, stopEvent, asking, batches, notes, lastRun>>

Forgotten(reported)  == 0                      \* slip: only reported accounts
Unreported(reported) == IF reported < total THEN total - reported ELSE 0

\* The counts _worker_finished shows when the last worker is gone.
Summary ==
  LET success   == Cardinality({a \in Ids : results[a] = "success"})
      cancelled == Cardinality({a \in Ids : results[a] = "cancelled"})
      failed    == Cardinality({a \in Ids : results[a] \in {"network_error", "unknown_error"}})
      reported  == success + cancelled + failed
      unreported == Unreported(reported)
  IN IF stopping
       THEN [total |-> total, success |-> success,
             cancelled |-> cancelled + unreported, failed |-> failed]
       ELSE [total |-> total, success |-> success,
             cancelled |-> cancelled, failed |-> failed + unreported]

BatchOver(a)   == workers \ {a} = {}

\* _worker_finished.
HandleFinished(a) ==
  /\ inbox[a] # <<>> /\ Head(inbox[a]).kind = "finished"
  /\ inbox' = [inbox EXCEPT ![a] = Tail(@)]
  /\ workers' = workers \ {a}
  /\ IF BatchOver(a)
       THEN /\ summary' = Summary
            /\ ui' = "idle"
            /\ stopping' = FALSE
       ELSE UNCHANGED <<summary, ui, stopping>>
  /\ UNCHANGED <<store, total, results, task, stopEvent, asking, batches, faults, notes, lastRun>>

-----------------------------------------------------------------------------
User == Import \/ AskDelete \/ CancelDelete \/ ConfirmDelete \/ StartFetch
          \/ ScheduleTick \/ StopFetch

Worker(a) == BeginRun(a) \/ ClientReturns(a) \/ RouteFails(a) \/ SaveOriginals(a)
               \/ StoreMessages(a) \/ FinishFetch(a) \/ FinishFailed(a)

MainLoop(a) == HandleStatus(a) \/ HandleFinished(a)

Next == User \/ \E a \in Ids : Worker(a) \/ MainLoop(a)

\* Every socket of the protocol clients has a timeout, so a worker always takes
\* its next step; the main thread always returns to its event loop.
Fairness == \A a \in Ids : WF_vars(Worker(a)) /\ WF_vars(MainLoop(a))

Spec == Init /\ [][Next]_vars /\ Fairness

-----------------------------------------------------------------------------
(* Properties *)

\* The dictionary _workers holds exactly the ids whose worker is queued or
\* running in a pool thread or whose "finished" signal is still on its way.
\* Every guard of the main window (start, schedule, delete) reads only that
\* dictionary, so an id missing from it would let a second worker start on the
\* account, and one left in it would refuse every later batch.
WorkersRegistered ==
  \A a \in Ids :
    a \in workers <=>
      \/ task[a].pc # "none"
      \/ \E i \in 1..Len(inbox[a]) : inbox[a][i].kind = "finished"

\* When no worker is registered no signal of the old batch is pending, so the
\* next batch starts with clean books: a late status cannot be counted twice.
QuietWhenIdle == workers = {} => \A a \in Ids : inbox[a] = <<>>

\* The stop event is shared by all batches and only ever cleared when a batch
\* starts.  It is never cleared while a worker that should honour it is left:
\* otherwise a stopped account would connect after all.
StopNeverRevoked ==
  [][stopEvent /\ ~stopEvent' => Live = {} /\ \A a \in Ids : inbox[a] = <<>>]_vars

\* The toolbar follows the books: idle exactly when no worker is registered,
\* "stopping" only while the stop event is really set.  A toolbar stuck in
\* "stopping" has its start button disabled for good.
ToolbarFollowsWorkers ==
  /\ (ui = "idle") <=> (workers = {})
  /\ (ui = "stopping") => stopEvent /\ stopping
  /\ (ui = "idle") => ~stopping

\* The summary shown when the last worker is gone tells what happened: as many
\* successes as fetch_account calls that ended in success, no cancellation
\* that did not happen unless a stop was asked for, and every account of the
\* batch in exactly one of the three counts.
SummaryTruthful ==
  [][workers # {} /\ workers' = {} =>
       /\ summary'.success = Cardinality({a \in Ids : lastRun[a].outcome = "success"})
       /\ summary'.total = summary'.success + summary'.cancelled + summary'.failed
       /\ ~stopping => summary'.cancelled = 0]_vars

\* Mail and originals filed under an id belong to the mailbox that has the id
\* now.  Ids are reused, so mail of a deleted mailbox that comes back would be
\* shown as another mailbox's.  The exceptions are the ids deleted while a
\* scheduled batch had started on them behind the open message box, and the
\* directories the log asked the user to remove.
ForeignOnlyByRace ==
  \A a \in Ids :
    /\ stored[a] \subseteq {owner[a]} \/ a \in raced
    /\ eml[a] \subseteq {owner[a]} \/ a \in raced \cup leftover

\* Every batch comes to an end and gives the toolbar back, stopped or not.
BatchEnds == (ui # "idle") ~> (ui = "idle")

-----------------------------------------------------------------------------
(* What the documentation says and the code does not do *)

\* main_window.py asks before a deletion and promises that the stored mail and
\* the saved originals go with the account: nothing of a mailbox is left under
\* an id that is not its own.
DeletionIsComplete == \A a \in Ids : stored[a] \cup eml[a] \subseteq {owner[a]}

\* The status a fetch stored for the account is the one it returned: once the
\* batch is over the row still shows it.
StoredStatusFinal ==
  \A a \in Ids :
    (/\ workers = {}
     /\ lastRun[a].box = owner[a] /\ lastRun[a].box # 0
     /\ lastRun[a].outcome \in {"success", "network_error"})
      => status[a] = lastRun[a].outcome
=============================================================================
