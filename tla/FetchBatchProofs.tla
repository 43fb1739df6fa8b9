-------------------------- MODULE FetchBatchProofs --------------------------
(***************************************************************************)
(* The books of the main window agree with the workers, what lies under an *)
(* id is its own mail and the summary tells what happened, for every set   *)
(* of account ids, pool size and bound.                                    *)
(***************************************************************************)
EXTENDS FetchBatch, FiniteSetTheorems, SequenceTheorems, TLAPS

\* A "finished" signal is the last one of an inbox and only there once the
\* worker's run is over; an inbox left behind by a finished run ends with it.
WellEnded(q, pc) ==
  /\ \A i \in 1..Len(q) : q[i].kind = "finished" => i = Len(q) /\ pc = "none"
  /\ (pc = "none" /\ q # <<>>) => q[Len(q)].kind = "finished"

FinishedIsLast == \A a \in Ids : WellEnded(inbox[a], task[a].pc)

\* An id is registered as long as its worker runs or has something to say.
RegisteredWhileActive ==
  \A a \in Ids : a \in workers <=> (task[a].pc # "none" \/ inbox[a] # <<>>)

\* The toolbar invariant, with the flag _fetch_stop_requested pinned down.
Toolbar ==
  /\ (ui = "idle") <=> (workers = {})
  /\ (ui = "stopping") => stopEvent
  /\ stopping <=> (ui = "stopping")

Books == FinishedIsLast /\ RegisteredWhileActive

IInv == TypeOK /\ Books /\ Toolbar

-----------------------------------------------------------------------------
(* Type correctness *)

\* Sets of account ids are finite, so what the main window counts is a number.
LEMMA CountIsNat == ASSUME NEW S \in SUBSET Ids PROVE Cardinality(S) \in Nat
  BY BatchAssumption, FS_Subset, FS_CardinalityType

\* The counts of the summary are natural numbers: the number of unreported
\* accounts is cut off at zero as in the code.
LEMMA SummaryType ==
  ASSUME TypeOK
  PROVE  Summary \in Counts
<1> DEFINE success   == Cardinality({a \in Ids : results[a] = "success"})
           cancelled == Cardinality({a \in Ids : results[a] = "cancelled"})
           failed    == Cardinality({a \in Ids : results[a] \in {"network_error", "unknown_error"}})
           reported  == success + cancelled + failed
           unreported == Unreported(reported)
<1>1. success \in Nat /\ cancelled \in Nat /\ failed \in Nat
  <2>1. {a \in Ids : results[a] = "success"} \in SUBSET Ids OBVIOUS
  <2>2. {a \in Ids : results[a] = "cancelled"} \in SUBSET Ids OBVIOUS
  <2>3. {a \in Ids : results[a] \in {"network_error", "unknown_error"}} \in SUBSET Ids OBVIOUS
  <2> QED BY <2>1, <2>2, <2>3, CountIsNat
<1>2. total \in Nat BY DEF TypeOK
<1> HIDE DEF success, cancelled, failed
<1>3. unreported \in Nat BY <1>1, <1>2 DEF Unreported
<1>4. cancelled + unreported \in Nat /\ failed + unreported \in Nat BY <1>1, <1>3
<1> HIDE DEF unreported, reported
<1>5. Summary = IF stopping
                  THEN [total |-> total, success |-> success,
                        cancelled |-> cancelled + unreported, failed |-> failed]
                  ELSE [total |-> total, success |-> success,
                        cancelled |-> cancelled, failed |-> failed + unreported]
  BY DEF Summary, success, cancelled, failed, reported, unreported
<1> QED BY <1>1, <1>2, <1>3, <1>4, <1>5 DEF Counts

\* The signals the workers emit are signals.
LEMMA SignalTypes ==
  /\ \A s \in Terminal \cup {"connecting"} : StatusSignal(s) \in Signals
  /\ Finished \in Signals
  BY DEF StatusSignal, Finished, Signals

\* A worker that moves to another phase is still a worker.
LEMMA AdvanceType ==
  ASSUME TypeOK, NEW a \in Ids, NEW pc \in Phases, Advance(a, pc)
  PROVE  task' \in [Ids -> Tasks]
  BY DEF TypeOK, Advance, Tasks

\* Signals are appended to an inbox and taken from its front.
LEMMA EmitType ==
  ASSUME TypeOK, NEW a \in Ids, NEW sigs \in Seq(Signals), Emit(a, sigs)
  PROVE  inbox' \in [Ids -> Seq(Signals)]
  BY DEF TypeOK, Emit

LEMMA ReceiveType ==
  ASSUME TypeOK, NEW a \in Ids, inbox[a] # <<>>, inbox' = [inbox EXCEPT ![a] = Tail(@)]
  PROVE  inbox' \in [Ids -> Seq(Signals)] /\ Head(inbox[a]) \in Signals
  BY DEF TypeOK

\* The last report of a worker.
LEMMA ReportType ==
  ASSUME TypeOK, NEW a \in Ids, NEW s \in Terminal, Report(a, s)
  PROVE  /\ task' \in [Ids -> Tasks]
         /\ inbox' \in [Ids -> Seq(Signals)]
         /\ lastRun' \in [Ids -> Runs]
<1>1. Idle \in Tasks
  BY BatchAssumption DEF Idle, Tasks, Phases, Terminal, Mail, Boxes
<1>2. task' \in [Ids -> Tasks]
  BY <1>1 DEF Report, TypeOK
<1>3. <<StatusSignal(s), Finished>> \in Seq(Signals)
  BY SignalTypes DEF Statuses
<1>4. inbox' \in [Ids -> Seq(Signals)]
  BY <1>3, EmitType DEF Report, LastSignals
<1>5. lastRun' \in [Ids -> Runs]
  BY DEF Report, TypeOK, Runs
<1> QED BY <1>2, <1>4, <1>5

\* An injected error keeps to the bound.
LEMMA RaiseType == TypeOK /\ Raise => faults' \in 0..MaxFaults
  BY BatchAssumption DEF TypeOK, Raise

\* The status a failed fetch leaves in the table and reports.
LEMMA FinishWithType ==
  ASSUME TypeOK, NEW a \in Ids, NEW s \in Terminal, FinishWith(a, s)
  PROVE  /\ task' \in [Ids -> Tasks]
         /\ inbox' \in [Ids -> Seq(Signals)]
         /\ lastRun' \in [Ids -> Runs]
         /\ status' \in [Ids -> Statuses]
         /\ faults' \in 0..MaxFaults
<1>1. "unknown_error" \in Terminal
  BY DEF Terminal
<1>2. Report(a, s) \/ Report(a, "unknown_error")
  BY DEF FinishWith
<1>3. /\ task' \in [Ids -> Tasks]
      /\ inbox' \in [Ids -> Seq(Signals)]
      /\ lastRun' \in [Ids -> Runs]
  BY <1>1, <1>2, ReportType
<1>4. status' \in [Ids -> Statuses]
  BY DEF FinishWith, TypeOK, Statuses
<1>5. faults' \in 0..MaxFaults
  BY RaiseType DEF FinishWith, TypeOK
<1> QED BY <1>3, <1>4, <1>5

\* Every variable has its type in the initial state.
LEMMA InitType == Init => TypeOK
<1> SUFFICES ASSUME Init PROVE TypeOK
  OBVIOUS
<1>1. /\ Idle \in Tasks
      /\ NoSummary \in Counts
      /\ [box |-> 0, outcome |-> "unreported"] \in Runs
  BY BatchAssumption DEF Idle, Tasks, NoSummary, Counts, Runs, Phases, Terminal, Mail, Boxes
<1>2. /\ owner \in [Ids -> Boxes] /\ status \in [Ids -> Statuses]
      /\ stored \in [Ids -> SUBSET Boxes] /\ eml \in [Ids -> SUBSET Boxes]
      /\ boxes \in Boxes
  BY BatchAssumption DEF Init, Statuses, Boxes
<1>3. /\ workers \subseteq Ids /\ task \in [Ids -> Tasks] /\ total \in Nat
      /\ results \in [Ids -> Terminal \cup {"unreported"}] /\ summary \in Counts
  BY <1>1 DEF Init
<1>4. inbox \in [Ids -> Seq(Signals)]
  BY DEF Init
<1>5. /\ stopEvent \in BOOLEAN /\ stopping \in BOOLEAN
      /\ ui \in {"idle", "running", "stopping"}
      /\ asking \subseteq Ids /\ raced \subseteq Ids /\ leftover \subseteq Ids
  BY DEF Init
<1>6. batches \in 0..MaxBatches /\ faults \in 0..MaxFaults
  BY BatchAssumption DEF Init
<1>7. lastRun \in [Ids -> Runs]
  BY <1>1 DEF Init
<1> QED BY <1>2, <1>3, <1>4, <1>5, <1>6, <1>7 DEF TypeOK

\* Every step keeps the types, one step of the proof per action.
LEMMA NextType == TypeOK /\ [Next]_vars => TypeOK'
<1> SUFFICES ASSUME TypeOK, [Next]_vars PROVE TypeOK'
  OBVIOUS
<1>1. CASE Import
  <2>1. UNCHANGED <<stored, eml, workers, total, results, summary, stopping, ui,
                    task, inbox, stopEvent, asking, batches, faults, raced,
                    leftover, lastRun>>
    BY <1>1 DEF Import, books, notes
  <2>2. /\ owner' \in [Ids -> Boxes] /\ status' \in [Ids -> Statuses]
        /\ boxes' \in Boxes
    BY <1>1, BatchAssumption DEF Import, TypeOK, Statuses, Boxes
  <2> QED BY <2>1, <2>2 DEF TypeOK
<1>2. CASE AskDelete
  <2>1. UNCHANGED <<owner, status, stored, eml, boxes, workers, total, results,
                    summary, stopping, ui, task, inbox, stopEvent, batches,
                    faults, raced, leftover, lastRun>>
    BY <1>2 DEF AskDelete, store, books, notes
  <2>2. asking' \subseteq Ids
    BY <1>2 DEF AskDelete, Rows
  <2> QED BY <2>1, <2>2 DEF TypeOK
<1>3. CASE CancelDelete
  <2>1. UNCHANGED <<owner, status, stored, eml, boxes, workers, total, results,
                    summary, stopping, ui, task, inbox, stopEvent, batches,
                    faults, raced, leftover, lastRun>>
    BY <1>3 DEF CancelDelete, store, books, notes
  <2> QED BY <1>3, <2>1 DEF TypeOK, CancelDelete
<1>4. CASE ConfirmDelete
  <2>1. UNCHANGED <<boxes, workers, total, results, summary, stopping, ui, task,
                    inbox, stopEvent, batches, lastRun>>
    BY <1>4 DEF ConfirmDelete, books
  <2>2. /\ owner' \in [Ids -> Boxes] /\ status' \in [Ids -> Statuses]
        /\ stored' \in [Ids -> SUBSET Boxes] /\ asking' \subseteq Ids
        /\ raced' \subseteq Ids
    BY <1>4, BatchAssumption DEF ConfirmDelete, MessagesGone, TypeOK, Statuses, Boxes
  <2>3. PICK kept \in SUBSET {a \in asking : eml[a] # {}} :
          /\ faults + Cardinality(kept) <= MaxFaults
          /\ faults' = faults + Cardinality(kept)
          /\ eml' = [a \in Ids |-> IF a \in asking \ kept THEN {} ELSE eml[a]]
          /\ leftover' = leftover \cup kept
    BY <1>4 DEF ConfirmDelete
  <2>4. kept \in SUBSET Ids
    BY DEF TypeOK
  <2>5. /\ eml' \in [Ids -> SUBSET Boxes] /\ leftover' \subseteq Ids
    BY <2>3, <2>4 DEF TypeOK
  <2>6. faults' \in 0..MaxFaults
    BY <2>3, <2>4, CountIsNat, BatchAssumption DEF TypeOK
  <2> QED BY <2>1, <2>2, <2>5, <2>6 DEF TypeOK
<1>5. ASSUME NEW chosen \in SUBSET Rows, QueueFetch(chosen) PROVE TypeOK'
  <2>1. chosen \in SUBSET Ids
    BY DEF Rows
  <2>2. UNCHANGED <<owner, status, stored, eml, boxes, inbox, asking, faults,
                    raced, leftover>>
    BY <1>5 DEF QueueFetch, store, notes
  <2>3. /\ batches' \in 0..MaxBatches /\ stopEvent' \in BOOLEAN
        /\ stopping' \in BOOLEAN /\ ui' \in {"idle", "running", "stopping"}
        /\ workers' \subseteq Ids
        /\ results' \in [Ids -> Terminal \cup {"unreported"}]
    <3>1. batches < MaxBatches /\ batches' = batches + 1
      BY <1>5 DEF QueueFetch
    <3>2. batches' \in 0..MaxBatches
      BY <3>1, BatchAssumption DEF TypeOK
    <3> QED BY <1>5, <2>1, <3>2 DEF QueueFetch
  <2>4. total' \in Nat
    BY <1>5, <2>1, CountIsNat DEF QueueFetch
  <2>5. summary' \in Counts
    BY <1>5 DEF QueueFetch, NoSummary, Counts
  <2>6. task' \in [Ids -> Tasks]
    <3>1. \A a \in Ids : [Idle EXCEPT !.pc = "queued", !.box = owner[a]] \in Tasks
      BY DEF TypeOK, Idle, Tasks, Phases, Terminal, Mail
    <3> QED BY <1>5, <3>1 DEF QueueFetch, TypeOK
  <2>7. lastRun' \in [Ids -> Runs]
    <3>1. \A a \in Ids :
            [box |-> IF a \in chosen THEN owner[a] ELSE 0, outcome |-> "unreported"] \in Runs
      BY BatchAssumption DEF TypeOK, Runs, Boxes
    <3> QED BY <1>5, <3>1 DEF QueueFetch
  <2> QED BY <2>2, <2>3, <2>4, <2>5, <2>6, <2>7 DEF TypeOK
<1>6. CASE StopFetch
  <2>1. UNCHANGED <<owner, status, stored, eml, boxes, workers, total, results,
                    summary, task, inbox, asking, batches, faults, raced,
                    leftover, lastRun>>
    BY <1>6 DEF StopFetch, store, notes
  <2>2. /\ stopEvent' \in BOOLEAN /\ stopping' \in BOOLEAN
        /\ ui' \in {"idle", "running", "stopping"}
    BY <1>6 DEF StopFetch, TypeOK
  <2> QED BY <2>1, <2>2 DEF TypeOK
<1>7. ASSUME NEW a \in Ids, Worker(a) PROVE TypeOK'
  <2>1. CASE BeginRun(a)
    <3>1. UNCHANGED <<owner, status, stored, eml, boxes, workers, total, results,
                      summary, stopping, ui, stopEvent, asking, batches, faults,
                      raced, leftover>>
      BY <2>1 DEF BeginRun, store, books, notes
    <3>2. task' \in [Ids -> Tasks] /\ inbox' \in [Ids -> Seq(Signals)] /\ lastRun' \in [Ids -> Runs]
      <4>1. CASE stopEvent
        BY <2>1, <4>1, ReportType DEF BeginRun, Terminal
      <4>2. CASE ~stopEvent
        <5>1. Advance(a, "connecting") /\ Emit(a, <<StatusSignal("connecting")>>) /\ UNCHANGED lastRun
          BY <2>1, <4>2 DEF BeginRun
        <5>2. <<StatusSignal("connecting")>> \in Seq(Signals)
          BY SignalTypes DEF Statuses
        <5> QED BY <5>1, <5>2, AdvanceType, EmitType DEF Phases, TypeOK
      <4> QED BY <4>1, <4>2
    <3> QED BY <3>1, <3>2 DEF TypeOK
  <2>2. CASE ClientReturns(a)
    <3>1. UNCHANGED <<owner, status, stored, eml, boxes, workers, total, results,
                      summary, stopping, ui, inbox, stopEvent, asking, batches,
                      faults, raced, leftover, lastRun>>
      BY <2>2 DEF ClientReturns, store, books, notes
    <3>2. task' \in [Ids -> Tasks]
      <4>1. CASE Advance(a, "failed")
        BY <4>1, AdvanceType DEF Phases
      <4>2. ASSUME NEW outcome \in {"success", "network_error"}, NEW mail \in Mail,
                   task' = [task EXCEPT ![a].pc = "fetched",
                                        ![a].outcome = outcome, ![a].mail = mail]
            PROVE  task' \in [Ids -> Tasks]
        <5>1. "fetched" \in Phases /\ outcome \in Terminal
          BY DEF Phases, Terminal
        <5>2. task \in [Ids -> Tasks]
          BY DEF TypeOK
        <5> QED BY <4>2, <5>1, <5>2 DEF Tasks
      <4> QED BY <2>2, <4>1, <4>2 DEF ClientReturns
    <3> QED BY <3>1, <3>2 DEF TypeOK
  <2>3. CASE RouteFails(a)
    <3>1. UNCHANGED <<owner, stored, eml, boxes, workers, total, results, summary,
                      stopping, ui, stopEvent, asking, batches, raced, leftover>>
      BY <2>3 DEF RouteFails, books, notes
    <3>2. FinishWith(a, "network_error") /\ "network_error" \in Terminal
      BY <2>3 DEF RouteFails, Terminal
    <3> QED BY <3>1, <3>2, FinishWithType DEF TypeOK
  <2>4. CASE SaveOriginals(a)
    <3>1. UNCHANGED <<owner, status, stored, boxes, workers, total, results, summary,
                      stopping, ui, inbox, stopEvent, asking, batches, raced,
                      leftover, lastRun>>
      BY <2>4 DEF SaveOriginals, books, notes
    <3>2. Advance(a, "saved") \/ Advance(a, "failed")
      BY <2>4 DEF SaveOriginals
    <3>3. task' \in [Ids -> Tasks]
      BY <3>2, AdvanceType DEF Phases
    <3>4. faults' \in 0..MaxFaults
      BY <2>4, RaiseType DEF SaveOriginals, TypeOK
    <3>5. eml' \in [Ids -> SUBSET Boxes]
      <4>1. eml[a] \cup {task[a].box} \in SUBSET Boxes
        BY DEF TypeOK, Tasks
      <4>2. eml' = eml \/ eml' = [eml EXCEPT ![a] = @ \cup {task[a].box}]
        BY <2>4 DEF SaveOriginals
      <4> QED BY <4>1, <4>2 DEF TypeOK
    <3> QED BY <3>1, <3>3, <3>4, <3>5 DEF TypeOK
  <2>5. CASE StoreMessages(a)
    <3>1. UNCHANGED <<owner, status, eml, boxes, workers, total, results, summary,
                      stopping, ui, inbox, stopEvent, asking, batches, raced,
                      leftover, lastRun>>
      BY <2>5 DEF StoreMessages, books, notes
    <3>2. Advance(a, "added") \/ Advance(a, "failed")
      BY <2>5 DEF StoreMessages
    <3>3. task' \in [Ids -> Tasks]
      BY <3>2, AdvanceType DEF Phases
    <3>4. faults' \in 0..MaxFaults
      BY <2>5, RaiseType DEF StoreMessages, TypeOK
    <3>5. stored' \in [Ids -> SUBSET Boxes]
      <4>1. stored[a] \cup {task[a].box} \in SUBSET Boxes
        BY DEF TypeOK, Tasks
      <4>2. stored' = stored \/ stored' = [stored EXCEPT ![a] = @ \cup {task[a].box}]
        BY <2>5 DEF StoreMessages
      <4> QED BY <4>1, <4>2 DEF TypeOK
    <3> QED BY <3>1, <3>3, <3>4, <3>5 DEF TypeOK
  <2>6. CASE FinishFetch(a)
    <3>1. UNCHANGED <<owner, stored, eml, boxes, workers, total, results, summary,
                      stopping, ui, stopEvent, asking, batches, raced, leftover>>
      BY <2>6 DEF FinishFetch, books, notes
    <3>2. task[a].outcome \in Terminal
      BY DEF TypeOK, Tasks
    <3>3. \/ Report(a, task[a].outcome)
          \/ Advance(a, "failed") /\ UNCHANGED <<inbox, lastRun>>
      BY <2>6 DEF FinishFetch
    <3>4. /\ task' \in [Ids -> Tasks] /\ inbox' \in [Ids -> Seq(Signals)]
          /\ lastRun' \in [Ids -> Runs]
      <4>1. CASE Report(a, task[a].outcome)
        BY <3>2, <4>1, ReportType
      <4>2. CASE Advance(a, "failed") /\ UNCHANGED <<inbox, lastRun>>
        BY <4>2, AdvanceType DEF Phases, TypeOK
      <4> QED BY <3>3, <4>1, <4>2
    <3>5. status' \in [Ids -> Statuses]
      BY <2>6, <3>2 DEF FinishFetch, TypeOK, Statuses
    <3>6. faults' \in 0..MaxFaults
      BY <2>6, RaiseType DEF FinishFetch, TypeOK
    <3> QED BY <3>1, <3>4, <3>5, <3>6 DEF TypeOK
  <2>7. CASE FinishFailed(a)
    <3>1. UNCHANGED <<owner, stored, eml, boxes, workers, total, results, summary,
                      stopping, ui, stopEvent, asking, batches, raced, leftover>>
      BY <2>7 DEF FinishFailed, books, notes
    <3>2. FinishWith(a, "unknown_error") /\ "unknown_error" \in Terminal
      BY <2>7 DEF FinishFailed, Terminal
    <3> QED BY <3>1, <3>2, FinishWithType DEF TypeOK
  <2> QED BY <1>7, <2>1, <2>2, <2>3, <2>4, <2>5, <2>6, <2>7 DEF Worker
<1>8. ASSUME NEW a \in Ids, HandleStatus(a) PROVE TypeOK'
  <2>1. UNCHANGED <<owner, stored, eml, boxes, workers, total, summary, stopping,
                    ui, task, stopEvent, asking, batches, raced, leftover, lastRun>>
    BY <1>8 DEF HandleStatus, notes
  <2>2. inbox' \in [Ids -> Seq(Signals)] /\ Head(inbox[a]) \in Signals
    BY <1>8, ReceiveType DEF HandleStatus
  <2>3. Head(inbox[a]).status \in Terminal \cup {"connecting"}
    BY <2>2 DEF Signals, Terminal
  <2>4. status' \in [Ids -> Statuses]
    BY <1>8, <2>3 DEF HandleStatus, TypeOK, Statuses
  <2>5. results' \in [Ids -> Terminal \cup {"unreported"}]
    <3> DEFINE s == Head(inbox[a]).status
    <3>1. results' = results \/ (s # "connecting" /\ results' = [results EXCEPT ![a] = s])
      BY <1>8 DEF HandleStatus, Counted
    <3> HIDE DEF s
    <3>2. s # "connecting" => s \in Terminal
      BY <2>3 DEF s
    <3> QED BY <3>1, <3>2 DEF TypeOK
  <2>6. faults' \in 0..MaxFaults
    BY <1>8, RaiseType DEF HandleStatus, TypeOK
  <2> QED BY <2>1, <2>2, <2>4, <2>5, <2>6 DEF TypeOK
<1>9. ASSUME NEW a \in Ids, HandleFinished(a) PROVE TypeOK'
  <2>1. UNCHANGED <<owner, status, stored, eml, boxes, total, results, task,
                    stopEvent, asking, batches, faults, raced, leftover, lastRun>>
    BY <1>9 DEF HandleFinished, store, notes
  <2>2. inbox' \in [Ids -> Seq(Signals)]
    BY <1>9, ReceiveType DEF HandleFinished
  <2>3. /\ workers' \subseteq Ids /\ summary' \in Counts
        /\ ui' \in {"idle", "running", "stopping"} /\ stopping' \in BOOLEAN
    BY <1>9, SummaryType DEF HandleFinished, TypeOK
  <2> QED BY <2>1, <2>2, <2>3 DEF TypeOK
<1>10. CASE UNCHANGED vars
  BY <1>10 DEF TypeOK, vars, store, books, notes
<1> QED
  BY <1>1, <1>2, <1>3, <1>4, <1>5, <1>6, <1>7, <1>8, <1>9, <1>10
     DEF Next, User, StartFetch, ScheduleTick, MainLoop

-----------------------------------------------------------------------------
(* The books: one lemma per kind of step, then the invariant *)

\* A worker that takes a step was not done, and afterwards it is still not done
\* and has said nothing or "connecting", or it has made its last report.
LEMMA WorkerShape ==
  ASSUME TypeOK, NEW a \in Ids, Worker(a)
  PROVE  /\ task[a].pc # "none"
         /\ UNCHANGED <<workers, total, results, summary, stopping, ui, stopEvent>>
         /\ \/ /\ \A b \in Ids \ {a} : task'[b] = task[b]
               /\ task'[a].pc # "none"
               /\ UNCHANGED inbox
            \/ /\ \A b \in Ids \ {a} : task'[b] = task[b]
               /\ task'[a].pc # "none"
               /\ inbox' = [inbox EXCEPT ![a] = @ \o <<StatusSignal("connecting")>>]
            \/ \E s \in Terminal : Report(a, s)
<1>1. UNCHANGED <<workers, total, results, summary, stopping, ui, stopEvent>>
  BY DEF Worker, BeginRun, ClientReturns, RouteFails, SaveOriginals, StoreMessages,
         FinishFetch, FinishFailed, books
<1>2. task[a].pc # "none"
  BY DEF Worker, BeginRun, ClientReturns, RouteFails, SaveOriginals, StoreMessages,
         FinishFetch, FinishFailed
<1>3. ASSUME NEW pc \in Phases \ {"none"}, Advance(a, pc)
      PROVE  (\A b \in Ids \ {a} : task'[b] = task[b]) /\ task'[a].pc # "none"
  BY <1>3 DEF Advance, TypeOK, Tasks
<1>4. ASSUME NEW s \in Terminal, FinishWith(a, s)
      PROVE  \E r \in Terminal : Report(a, r)
  BY <1>4 DEF FinishWith, Terminal
<1>5. CASE BeginRun(a)
  BY <1>1, <1>2, <1>3, <1>5 DEF BeginRun, Emit, Phases, Terminal
<1>6. CASE ClientReturns(a)
  <2>1. UNCHANGED inbox
    BY <1>6 DEF ClientReturns
  <2>2. CASE Advance(a, "failed")
    BY <1>1, <1>2, <1>3, <2>1, <2>2 DEF Phases
  <2>3. ASSUME NEW outcome \in {"success", "network_error"}, NEW mail \in Mail,
               task' = [task EXCEPT ![a].pc = "fetched",
                                    ![a].outcome = outcome, ![a].mail = mail]
        PROVE  (\A b \in Ids \ {a} : task'[b] = task[b]) /\ task'[a].pc # "none"
    BY <2>3 DEF TypeOK, Tasks
  <2> QED BY <1>1, <1>2, <1>6, <2>1, <2>2, <2>3 DEF ClientReturns
<1>7. CASE RouteFails(a)
  BY <1>1, <1>2, <1>4, <1>7 DEF RouteFails, Terminal
<1>8. CASE SaveOriginals(a)
  BY <1>1, <1>2, <1>3, <1>8 DEF SaveOriginals, Phases
<1>9. CASE StoreMessages(a)
  BY <1>1, <1>2, <1>3, <1>9 DEF StoreMessages, Phases
<1>10. CASE FinishFetch(a)
  <2>1. task[a].outcome \in Terminal
    BY DEF TypeOK, Tasks
  <2>2. Report(a, task[a].outcome) \/ (Advance(a, "failed") /\ UNCHANGED inbox)
    BY <1>10 DEF FinishFetch
  <2> QED BY <1>1, <1>2, <1>3, <2>1, <2>2 DEF Phases
<1>11. CASE FinishFailed(a)
  BY <1>1, <1>2, <1>4, <1>11 DEF FinishFailed, Terminal
<1> QED
  BY <1>5, <1>6, <1>7, <1>8, <1>9, <1>10, <1>11 DEF Worker

\* What a running worker says leaves its inbox well ended.
LEMMA SayConnecting ==
  ASSUME NEW q \in Seq(Signals), NEW pc, NEW pc2, pc # "none", pc2 # "none",
         WellEnded(q, pc)
  PROVE  WellEnded(q \o <<StatusSignal("connecting")>>, pc2)
  BY SignalTypes DEF WellEnded, StatusSignal

LEMMA SayLast ==
  ASSUME NEW q \in Seq(Signals), NEW pc, pc # "none", WellEnded(q, pc), NEW s \in Terminal
  PROVE  /\ WellEnded(q \o <<StatusSignal(s), Finished>>, "none")
         /\ q \o <<StatusSignal(s), Finished>> # <<>>
<1> DEFINE r == q \o <<StatusSignal(s), Finished>>
<1>1. /\ Len(r) = Len(q) + 2 /\ Len(q) \in Nat
      /\ \A i \in 1..Len(q) : r[i] = q[i]
      /\ r[Len(q) + 1] = StatusSignal(s)
      /\ r[Len(q) + 2] = Finished
  BY SignalTypes
<1>2. StatusSignal(s).kind = "status" /\ Finished.kind = "finished"
  BY DEF StatusSignal, Finished
<1> HIDE DEF r
<1>3. r # <<>>
  BY <1>1
<1>4. ASSUME NEW i \in 1..Len(r), r[i].kind = "finished"
      PROVE  i = Len(r)
  <2>1. i \in 1..Len(q) \/ i = Len(q) + 1 \/ i = Len(q) + 2
    BY <1>1
  <2> QED BY <1>1, <1>2, <1>4, <2>1 DEF WellEnded
<1>5. WellEnded(r, "none")
  BY <1>1, <1>2, <1>4 DEF WellEnded
<1> QED BY <1>3, <1>5 DEF r

\* Handling a status leaves the "finished" signal behind, handling "finished"
\* leaves nothing.
LEMMA HearStatus ==
  ASSUME NEW q \in Seq(Signals), NEW pc, WellEnded(q, pc), q # <<>>, Head(q).kind = "status"
  PROVE  WellEnded(Tail(q), pc) /\ (pc = "none" => Tail(q) # <<>>)
<1> DEFINE t == Tail(q)
<1>1. /\ Len(q) \in Nat \ {0} /\ Len(t) = Len(q) - 1
      /\ \A i \in 1..Len(t) : t[i] = q[i + 1]
      /\ t \in Seq(Signals)
  BY EmptySeq, HeadTailProperties
<1>2. q[1].kind # "finished"
  <2>1. q[1].kind = "status"
    OBVIOUS
  <2> QED BY <2>1
<1>3. /\ \A i \in 1..Len(q) : q[i].kind = "finished" => i = Len(q) /\ pc = "none"
      /\ pc = "none" => q[Len(q)].kind = "finished"
  BY DEF WellEnded
<1>4. t # <<>> => Len(t) \in Nat \ {0}
  BY <1>1, EmptySeq
<1>5. t = <<>> => Len(t) = 0
  BY EmptySeq
<1> HIDE DEF t
<1>6. pc = "none" => t # <<>>
  <2>1. pc = "none" => Len(q) # 1
    BY <1>2, <1>3
  <2> QED BY <1>1, <1>5, <2>1
<1>7. ASSUME NEW i \in 1..Len(t), t[i].kind = "finished"
      PROVE  i = Len(t) /\ pc = "none"
  <2>1. i + 1 \in 1..Len(q) /\ q[i + 1].kind = "finished"
    BY <1>1, <1>7
  <2>2. i + 1 = Len(q) /\ pc = "none"
    BY <1>3, <2>1, Zenon
  <2> QED BY <1>1, <2>2
<1>8. ASSUME pc = "none", t # <<>>
      PROVE  t[Len(t)].kind = "finished"
  <2>1. Len(t) \in 1..Len(t) /\ Len(t) + 1 = Len(q)
    BY <1>1, <1>4, <1>8
  <2>2. t[Len(t)] = q[Len(q)]
    BY <1>1, <2>1
  <2> QED BY <1>3, <1>8, <2>2
<1> QED BY <1>6, <1>7, <1>8 DEF WellEnded, t

LEMMA HearFinished ==
  ASSUME NEW q \in Seq(Signals), NEW pc, WellEnded(q, pc), q # <<>>, Head(q).kind = "finished"
  PROVE  pc = "none" /\ Tail(q) = <<>>
<1>1. Len(q) \in Nat \ {0}
  BY EmptySeq
<1>2. Len(Tail(q)) = Len(q) - 1 /\ Tail(q) \in Seq(Signals)
  BY HeadTailProperties
<1>3. q[1].kind = "finished" /\ 1 \in 1..Len(q)
  BY <1>1
<1>4. \A i \in 1..Len(q) : q[i].kind = "finished" => i = Len(q) /\ pc = "none"
  BY DEF WellEnded
<1>5. pc = "none" /\ 1 = Len(q)
  BY <1>3, <1>4, Zenon
<1>6. Tail(q) # <<>> => Len(Tail(q)) \in Nat \ {0}
  BY <1>2, EmptySeq
<1> DEFINE n == Len(q)
           m == Len(Tail(q))
<1>7. m = 0
  <2>1. n = 1 /\ m = n - 1
    BY <1>2, <1>5
  <2> HIDE DEF n, m
  <2> QED BY <2>1
<1> QED BY <1>5, <1>6, <1>7

\* A worker's step keeps the books in order.
LEMMA WorkerBooks ==
  ASSUME TypeOK, Books, NEW a \in Ids, Worker(a)
  PROVE  Books'
<1>1. /\ task[a].pc # "none" /\ workers' = workers /\ inbox[a] \in Seq(Signals)
      /\ WellEnded(inbox[a], task[a].pc)
  BY WorkerShape DEF TypeOK, Books, FinishedIsLast
<1>2. a \in workers
  BY <1>1 DEF Books, RegisteredWhileActive
<1>3. /\ \A b \in Ids \ {a} : task'[b] = task[b] /\ inbox'[b] = inbox[b]
      /\ WellEnded(inbox'[a], task'[a].pc)
      /\ task'[a].pc # "none" \/ inbox'[a] # <<>>
  <2>1. CASE /\ \A b \in Ids \ {a} : task'[b] = task[b]
             /\ task'[a].pc # "none"
             /\ UNCHANGED inbox
    BY <1>1, <2>1 DEF WellEnded
  <2>2. CASE /\ \A b \in Ids \ {a} : task'[b] = task[b]
             /\ task'[a].pc # "none"
             /\ inbox' = [inbox EXCEPT ![a] = @ \o <<StatusSignal("connecting")>>]
    <3>1. /\ inbox'[a] = inbox[a] \o <<StatusSignal("connecting")>>
          /\ \A b \in Ids \ {a} : inbox'[b] = inbox[b]
      BY <2>2 DEF TypeOK
    <3> QED BY <1>1, <2>2, <3>1, SayConnecting
  <2>3. ASSUME NEW s \in Terminal, Report(a, s)
        PROVE  /\ \A b \in Ids \ {a} : task'[b] = task[b] /\ inbox'[b] = inbox[b]
               /\ WellEnded(inbox'[a], task'[a].pc)
               /\ task'[a].pc # "none" \/ inbox'[a] # <<>>
    <3>1. /\ inbox'[a] = inbox[a] \o <<StatusSignal(s), Finished>>
          /\ \A b \in Ids \ {a} : inbox'[b] = inbox[b] /\ task'[b] = task[b]
          /\ task'[a].pc = "none"
      BY <2>3 DEF Report, Emit, LastSignals, TypeOK, Idle
    <3> QED BY <1>1, <3>1, SayLast
  <2> QED BY <2>1, <2>2, <2>3, WorkerShape
<1> QED BY <1>1, <1>2, <1>3 DEF Books, FinishedIsLast, RegisteredWhileActive

\* The main thread handles a signal: the books stay in order, and a handled
\* "finished" closes the account's entry.
LEMMA HandleBooks ==
  ASSUME TypeOK, Books, NEW a \in Ids, MainLoop(a)
  PROVE  Books'
<1>1. /\ inbox[a] \in Seq(Signals) /\ inbox[a] # <<>>
      /\ WellEnded(inbox[a], task[a].pc)
      /\ task' = task
      /\ inbox'[a] = Tail(inbox[a])
      /\ \A b \in Ids \ {a} : inbox'[b] = inbox[b]
  BY DEF MainLoop, HandleStatus, HandleFinished, TypeOK, Books, FinishedIsLast
<1>2. CASE HandleStatus(a)
  <2>1. Head(inbox[a]).kind = "status" /\ workers' = workers
    BY <1>2 DEF HandleStatus
  <2>2. WellEnded(inbox'[a], task[a].pc) /\ (task[a].pc = "none" => inbox'[a] # <<>>)
    BY <1>1, <2>1, HearStatus
  <2> QED BY <1>1, <2>1, <2>2 DEF Books, FinishedIsLast, RegisteredWhileActive
<1>3. CASE HandleFinished(a)
  <2>1. Head(inbox[a]).kind = "finished" /\ workers' = workers \ {a}
    BY <1>3 DEF HandleFinished
  <2>2. task[a].pc = "none" /\ inbox'[a] = <<>>
    BY <1>1, <2>1, HearFinished
  <2>3. WellEnded(<<>>, "none")
    BY EmptySeq DEF WellEnded
  <2> QED BY <1>1, <2>1, <2>2, <2>3 DEF Books, FinishedIsLast, RegisteredWhileActive
<1> QED BY <1>2, <1>3 DEF MainLoop

\* A batch starts with clean books: nobody is registered, so nobody is active.
LEMMA QueueBooks ==
  ASSUME TypeOK, Books, NEW chosen \in SUBSET Rows, chosen # {}, QueueFetch(chosen)
  PROVE  /\ Books' /\ Toolbar'
         /\ Live = {} /\ \A a \in Ids : inbox[a] = <<>>
<1>1. \A a \in Ids : task[a].pc = "none" /\ inbox[a] = <<>>
  BY DEF QueueFetch, NoBatchRuns, Books, RegisteredWhileActive
<1>2. inbox' = inbox /\ workers' = chosen /\ ui' = "running" /\ ~stopping'
  BY DEF QueueFetch
<1>3. \A a \in Ids : task'[a].pc = IF a \in chosen THEN "queued" ELSE "none"
  BY <1>1 DEF QueueFetch, Idle
<1>4. \A a \in Ids : inbox'[a] = <<>> /\ WellEnded(<<>>, task'[a].pc)
  BY <1>1, <1>2, EmptySeq DEF WellEnded
<1>5. FinishedIsLast' /\ RegisteredWhileActive'
  BY <1>2, <1>3, <1>4 DEF FinishedIsLast, RegisteredWhileActive
<1>6. Toolbar'
  BY <1>2 DEF Toolbar
<1> QED BY <1>1, <1>5, <1>6 DEF Books, Live

-----------------------------------------------------------------------------
(* The inductive invariant *)

LEMMA InitInv == Init => IInv
<1> SUFFICES ASSUME Init PROVE IInv
  OBVIOUS
<1>1. \A a \in Ids : WellEnded(inbox[a], task[a].pc)
  BY EmptySeq DEF Init, WellEnded
<1>2. RegisteredWhileActive /\ Toolbar
  BY DEF Init, RegisteredWhileActive, Toolbar, Idle
<1> QED BY <1>1, <1>2, InitType DEF IInv, Books, FinishedIsLast

LEMMA NextInv == IInv /\ [Next]_vars => IInv'
<1> SUFFICES ASSUME IInv, [Next]_vars PROVE Books' /\ Toolbar'
  BY NextType DEF IInv
<1> USE DEF IInv
<1>1. ASSUME UNCHANGED <<workers, stopping, ui, task, inbox, stopEvent>>
      PROVE  Books' /\ Toolbar'
  BY <1>1 DEF Books, FinishedIsLast, RegisteredWhileActive, Toolbar
<1>2. CASE Import \/ AskDelete \/ CancelDelete \/ ConfirmDelete
  BY <1>1, <1>2 DEF Import, AskDelete, CancelDelete, ConfirmDelete, books
<1>3. CASE StartFetch \/ ScheduleTick
  BY <1>3, QueueBooks DEF StartFetch, ScheduleTick
<1>4. CASE StopFetch
  <2>1. UNCHANGED <<workers, task, inbox>>
    BY <1>4 DEF StopFetch
  <2>2. Books'
    BY <2>1 DEF Books, FinishedIsLast, RegisteredWhileActive
  <2>3. Toolbar'
    BY <1>4 DEF StopFetch, Toolbar
  <2> QED BY <2>2, <2>3
<1>5. ASSUME NEW a \in Ids, Worker(a)
      PROVE  Books' /\ Toolbar'
  BY <1>5, WorkerBooks, WorkerShape DEF Toolbar
<1>6. ASSUME NEW a \in Ids, MainLoop(a)
      PROVE  Books' /\ Toolbar'
  <2>1. Books'
    BY <1>6, HandleBooks
  <2>2. CASE HandleStatus(a)
    <3>1. UNCHANGED <<workers, ui, stopping, stopEvent>>
      BY <2>2 DEF HandleStatus
    <3> QED BY <2>1, <3>1 DEF Toolbar
  <2>3. CASE HandleFinished(a)
    <3>1. a \in workers
      <4>1. inbox[a] # <<>>
        BY <2>3 DEF HandleFinished
      <4> QED BY <4>1 DEF Books, RegisteredWhileActive
    <3>2. /\ stopEvent' = stopEvent
          /\ \/ workers' = {} /\ ui' = "idle" /\ ~stopping'
             \/ workers' # {} /\ UNCHANGED <<ui, stopping>>
      BY <2>3 DEF HandleFinished, BatchOver
    <3> QED BY <2>1, <3>1, <3>2 DEF Toolbar
  <2> QED BY <1>6, <2>1, <2>2, <2>3 DEF MainLoop
<1>7. CASE UNCHANGED vars
  BY <1>1, <1>7 DEF vars, books
<1> QED BY <1>2, <1>3, <1>4, <1>5, <1>6, <1>7 DEF Next, User

\* The books always agree with the workers and the toolbar with the books.
THEOREM BooksInvariant == Spec => []IInv
  BY InitInv, NextInv, PTL DEF Spec

-----------------------------------------------------------------------------
(* What the runs check, for every instance *)

\* TypeOK holds in every reachable state.
THEOREM TypeCorrect == Spec => []TypeOK
<1>1. IInv => TypeOK
  BY DEF IInv
<1> QED BY <1>1, BooksInvariant, PTL

\* WorkersRegistered: the dictionary _workers holds exactly the ids that are
\* queued, running or about to report "finished".
THEOREM Registered == Spec => []WorkersRegistered
<1>1. IInv => WorkersRegistered
  <2> SUFFICES ASSUME IInv, NEW a \in Ids
               PROVE  a \in workers <=>
                        \/ task[a].pc # "none"
                        \/ \E i \in 1..Len(inbox[a]) : inbox[a][i].kind = "finished"
    BY DEF WorkersRegistered
  <2>1. WellEnded(inbox[a], task[a].pc) /\ inbox[a] \in Seq(Signals)
    BY DEF IInv, Books, FinishedIsLast, TypeOK
  <2>2. inbox[a] # <<>> => Len(inbox[a]) \in 1..Len(inbox[a])
    BY <2>1, EmptySeq
  <2>3. task[a].pc = "none" /\ inbox[a] # <<>> => inbox[a][Len(inbox[a])].kind = "finished"
    BY <2>1 DEF WellEnded
  <2>4. inbox[a] = <<>> => Len(inbox[a]) = 0
    BY EmptySeq
  <2>5. a \in workers <=> (task[a].pc # "none" \/ inbox[a] # <<>>)
    BY DEF IInv, Books, RegisteredWhileActive
  <2>6. CASE inbox[a] = <<>>
    BY <2>4, <2>5, <2>6
  <2>7. CASE inbox[a] # <<>>
    BY <2>2, <2>3, <2>5, <2>7
  <2> QED BY <2>6, <2>7
<1> QED BY <1>1, BooksInvariant, PTL

\* QuietWhenIdle: no signal of an old batch is pending when none is registered.
THEOREM Quiet == Spec => []QuietWhenIdle
<1>1. IInv => QuietWhenIdle
  BY DEF IInv, Books, RegisteredWhileActive, QuietWhenIdle
<1> QED BY <1>1, BooksInvariant, PTL

\* ToolbarFollowsWorkers: the toolbar is idle exactly when no worker is
\* registered, and shows "stopping" only while the stop event is set.
THEOREM ToolbarCorrect == Spec => []ToolbarFollowsWorkers
<1>1. IInv => ToolbarFollowsWorkers
  BY DEF IInv, Toolbar, ToolbarFollowsWorkers
<1> QED BY <1>1, BooksInvariant, PTL

\* StopNeverRevoked: the stop event is cleared only when no worker is left that
\* should have honoured it.
THEOREM StopHolds == Spec => StopNeverRevoked
<1> DEFINE A == stopEvent /\ ~stopEvent' => Live = {} /\ \A a \in Ids : inbox[a] = <<>>
<1>1. IInv /\ [Next]_vars => [A]_vars
  <2> SUFFICES ASSUME IInv, Next PROVE A
    OBVIOUS
  <2>1. CASE StartFetch \/ ScheduleTick
    <3>1. PICK chosen \in (SUBSET Rows) \ {{}} : QueueFetch(chosen)
      BY <2>1 DEF StartFetch, ScheduleTick
    <3> QED BY <3>1, QueueBooks DEF IInv
  <2>2. CASE Import \/ AskDelete \/ CancelDelete \/ ConfirmDelete
    BY <2>2 DEF Import, AskDelete, CancelDelete, ConfirmDelete
  <2>3. CASE StopFetch
    BY <2>3 DEF StopFetch
  <2>4. ASSUME NEW a \in Ids, Worker(a) PROVE UNCHANGED stopEvent
    BY <2>4, WorkerShape DEF IInv
  <2>5. ASSUME NEW a \in Ids, MainLoop(a) PROVE UNCHANGED stopEvent
    BY <2>5 DEF MainLoop, HandleStatus, HandleFinished
  <2> QED BY <2>1, <2>2, <2>3, <2>4, <2>5 DEF Next, User
<1> QED BY <1>1, BooksInvariant, PTL DEF Spec, StopNeverRevoked

-----------------------------------------------------------------------------
(* Whose mail lies under an id *)

\* Unless an id was deleted under a registered worker, its worker is fetching
\* for the row's own mailbox, and only mail of that mailbox lies under the id.
FiledUnder(a) ==
  /\ task[a].pc # "none" => task[a].box = owner[a] /\ owner[a] # 0
  /\ stored[a] \subseteq {owner[a]} \ {0}
  /\ a \in leftover \/ eml[a] \subseteq {owner[a]} \ {0}

Filing == \A a \in Ids : a \in raced \/ FiledUnder(a)

\* The step of a worker: it files under its own id only, and only its box.
LEMMA WorkerFiling ==
  ASSUME TypeOK, Filing, NEW a \in Ids, Worker(a)
  PROVE  Filing'
<1>1. UNCHANGED <<owner, raced, leftover>>
  BY DEF Worker, BeginRun, ClientReturns, RouteFails, SaveOriginals, StoreMessages,
         FinishFetch, FinishFailed, store, notes
<1>2. task[a].pc # "none"
  BY WorkerShape
<1>3. /\ \A b \in Ids \ {a} : task'[b] = task[b]
      /\ task'[a].pc = "none" \/ task'[a].box = task[a].box
  <2>1. ASSUME NEW s, Report(a, s)
        PROVE  (\A b \in Ids \ {a} : task'[b] = task[b]) /\ task'[a].pc = "none"
    BY <2>1 DEF Report, TypeOK, Idle
  <2>2. ASSUME NEW pc, Advance(a, pc)
        PROVE  (\A b \in Ids \ {a} : task'[b] = task[b]) /\ task'[a].box = task[a].box
    BY <2>2 DEF Advance, TypeOK, Tasks
  <2>3. ASSUME NEW outcome, NEW mail,
               task' = [task EXCEPT ![a].pc = "fetched",
                                    ![a].outcome = outcome, ![a].mail = mail]
        PROVE  (\A b \in Ids \ {a} : task'[b] = task[b]) /\ task'[a].box = task[a].box
    BY <2>3 DEF TypeOK, Tasks
  <2>4. CASE ClientReturns(a)
    BY <2>2, <2>3, <2>4 DEF ClientReturns
  <2>5. CASE ~ClientReturns(a)
    BY <2>1, <2>2, <2>5
       DEF Worker, BeginRun, RouteFails, SaveOriginals, StoreMessages,
           FinishFetch, FinishFailed, FinishWith
  <2> QED BY <2>4, <2>5
<1>4. /\ \A b \in Ids \ {a} : stored'[b] = stored[b]
      /\ stored'[a] \subseteq stored[a] \cup {task[a].box}
  <2>1. stored' = stored \/ stored' = [stored EXCEPT ![a] = @ \cup {task[a].box}]
    BY DEF Worker, BeginRun, ClientReturns, RouteFails, SaveOriginals, StoreMessages,
           FinishFetch, FinishFailed, store
  <2> QED BY <2>1 DEF TypeOK
<1>5. /\ \A b \in Ids \ {a} : eml'[b] = eml[b]
      /\ eml'[a] \subseteq eml[a] \cup {task[a].box}
  <2>1. eml' = eml \/ eml' = [eml EXCEPT ![a] = @ \cup {task[a].box}]
    BY DEF Worker, BeginRun, ClientReturns, RouteFails, SaveOriginals, StoreMessages,
           FinishFetch, FinishFailed, store
  <2> QED BY <2>1 DEF TypeOK
<1>6. a \in raced' \/ FiledUnder(a)'
  BY <1>1, <1>2, <1>3, <1>4, <1>5 DEF Filing, FiledUnder
<1>7. ASSUME NEW b \in Ids \ {a}
      PROVE  b \in raced' \/ FiledUnder(b)'
  BY <1>1, <1>3, <1>4, <1>5 DEF Filing, FiledUnder
<1> QED BY <1>6, <1>7 DEF Filing

\* A freed id comes back only with nothing under it.
LEMMA ImportFiling == TypeOK /\ Filing /\ Import => Filing'
<1> SUFFICES ASSUME TypeOK, Filing, Import, NEW b \in Ids
             PROVE  b \in raced' \/ FiledUnder(b)'
  BY DEF Filing
<1>1. UNCHANGED <<stored, eml, task, raced, leftover>>
  BY DEF Import, notes
<1>2. PICK a \in Ids : IsNextRowid(a) /\ owner' = [owner EXCEPT ![a] = boxes + 1]
  BY DEF Import
<1>3. owner[a] = 0
  <2>1. a \notin Rows
    <3>1. a \in Nat
      BY BatchAssumption
    <3> QED BY <1>2, <3>1 DEF IsNextRowid
  <2> QED BY <2>1 DEF Rows
<1>4. CASE b = a
  BY <1>1, <1>3, <1>4 DEF Filing, FiledUnder
<1>5. CASE b # a
  <2>1. owner'[b] = owner[b]
    BY <1>2, <1>5 DEF TypeOK
  <2> QED BY <1>1, <2>1 DEF Filing, FiledUnder
<1> QED BY <1>4, <1>5

\* A deletion empties the id, or names the directory that stays; a worker that
\* is still registered makes it a race.
LEMMA DeleteFiling == TypeOK /\ Books /\ Filing /\ ConfirmDelete => Filing'
<1> SUFFICES ASSUME TypeOK, Books, Filing, ConfirmDelete, NEW b \in Ids
             PROVE  b \in raced' \/ FiledUnder(b)'
  BY DEF Filing
<1>1. /\ task' = task /\ raced' = raced \cup (asking \cap workers)
      /\ owner'[b] = IF b \in asking THEN 0 ELSE owner[b]
      /\ stored'[b] = IF b \in asking THEN {} ELSE stored[b]
  BY DEF ConfirmDelete, MessagesGone
<1>2. PICK kept \in SUBSET {a \in asking : eml[a] # {}} :
        /\ eml'[b] = IF b \in asking \ kept THEN {} ELSE eml[b]
        /\ leftover' = leftover \cup kept
  BY DEF ConfirmDelete
<1>3. CASE b \in asking /\ b \in workers
  BY <1>1, <1>3
<1>4. CASE b \in asking /\ b \notin workers
  <2>1. task[b].pc = "none"
    BY <1>4 DEF Books, RegisteredWhileActive
  <2> QED BY <1>1, <1>2, <1>4, <2>1 DEF FiledUnder
<1>5. CASE b \notin asking
  BY <1>1, <1>2, <1>5 DEF Filing, FiledUnder
<1> QED BY <1>3, <1>4, <1>5

LEMMA NextFiling == IInv /\ Filing /\ [Next]_vars => Filing'
<1> SUFFICES ASSUME IInv, Filing, [Next]_vars PROVE Filing'
  OBVIOUS
<1>1. TypeOK /\ Books
  BY DEF IInv
<1>2. ASSUME UNCHANGED <<owner, stored, eml, task, raced, leftover>>
      PROVE  Filing'
  BY <1>2 DEF Filing, FiledUnder
<1>3. CASE Import
  BY <1>1, <1>3, ImportFiling
<1>4. CASE ConfirmDelete
  BY <1>1, <1>4, DeleteFiling
<1>5. CASE AskDelete \/ CancelDelete \/ StopFetch
  BY <1>2, <1>5 DEF AskDelete, CancelDelete, StopFetch, store, notes
<1>6. CASE StartFetch \/ ScheduleTick
  <2>1. PICK chosen \in SUBSET Rows : QueueFetch(chosen)
    BY <1>6 DEF StartFetch, ScheduleTick
  <2>2. UNCHANGED <<owner, stored, eml, raced, leftover>>
    BY <2>1 DEF QueueFetch, store, notes
  <2>3. \A a \in Ids : IF a \in chosen THEN task'[a].box = owner[a] /\ owner[a] # 0
                                       ELSE task'[a] = task[a]
    BY <2>1 DEF QueueFetch, Idle, Rows
  <2> QED BY <2>2, <2>3 DEF Filing, FiledUnder
<1>7. ASSUME NEW a \in Ids, Worker(a) PROVE Filing'
  BY <1>1, <1>7, WorkerFiling
<1>8. ASSUME NEW a \in Ids, MainLoop(a) PROVE Filing'
  BY <1>2, <1>8 DEF MainLoop, HandleStatus, HandleFinished, store, notes
<1>9. CASE UNCHANGED vars
  BY <1>2, <1>9 DEF vars, store, notes
<1> QED BY <1>3, <1>4, <1>5, <1>6, <1>7, <1>8, <1>9 DEF Next, User

\* ForeignOnlyByRace: mail and originals under an id are the row's own, except
\* where the account was deleted while its worker was registered or the log
\* named a directory that could not be removed.
THEOREM OwnMailOnly == Spec => []ForeignOnlyByRace
<1>1. Init => Filing
  BY DEF Init, Filing, FiledUnder, Idle
<1>2. Filing => ForeignOnlyByRace
  BY DEF Filing, FiledUnder, ForeignOnlyByRace
<1> QED BY <1>1, <1>2, NextFiling, BooksInvariant, PTL DEF Spec

-----------------------------------------------------------------------------
(* What the summary counts *)

Said(q) == {q[i] : i \in 1..Len(q)}

\* A running worker has reported nothing; of one that is over, the books have its
\* outcome or nothing yet, and a success is never lost on the way.
Heard(q, pc, outcome, result) ==
  /\ pc # "none" => /\ outcome = "unreported" /\ result = "unreported"
                    /\ \A m \in Said(q) : m = StatusSignal("connecting")
  /\ pc = "none" => /\ result \in {"unreported", outcome}
                    /\ \A m \in Said(q) : m.kind = "status" => m.status \in {"connecting", outcome}
                    /\ outcome = "success" => result = "success" \/ StatusSignal("success") \in Said(q)

AllHeard == \A a \in Ids : Heard(inbox[a], task[a].pc, lastRun[a].outcome, results[a])

\* What a client returned is no cancellation, and a cancelled worker has seen the
\* stop event, which the toolbar shows while a worker is left.
Stopped ==
  /\ \A a \in Ids : task[a].pc \in {"fetched", "saved", "added"} => task[a].outcome # "cancelled"
  /\ \A a \in Ids : lastRun[a].outcome = "cancelled" => stopEvent
  /\ stopEvent /\ workers # {} => stopping

\* The total is that of the accounts of the batch, and only they have results.
InBatch(C) == /\ workers \subseteq C /\ total = Cardinality(C)
              /\ \A a \in Ids : results[a] # "unreported" => a \in C
Totalled == \E C \in SUBSET Ids : InBatch(C)

CountInv == AllHeard /\ Stopped /\ Totalled

\* The signals of a longer and of a shorter inbox.
LEMMA SaidMore ==
  ASSUME NEW q \in Seq(Signals), NEW r \in Seq(Signals)
  PROVE  Said(q \o r) = Said(q) \cup Said(r)
<1> DEFINE s == q \o r
<1>1. /\ Len(q) \in Nat /\ Len(r) \in Nat /\ Len(s) = Len(q) + Len(r)
      /\ \A i \in 1..Len(s) : s[i] = IF i <= Len(q) THEN q[i] ELSE r[i - Len(q)]
  OBVIOUS
<1> HIDE DEF s
<1>2. ASSUME NEW m \in Said(s) PROVE m \in Said(q) \cup Said(r)
  <2>1. PICK i \in 1..Len(s) : m = s[i]
    BY DEF Said
  <2>2. i \in 1..Len(q) \/ i - Len(q) \in 1..Len(r)
    BY <1>1
  <2> QED BY <1>1, <2>1, <2>2 DEF Said
<1>3. ASSUME NEW m \in Said(q) PROVE m \in Said(s)
  <2>1. PICK i \in 1..Len(q) : m = q[i]
    BY DEF Said
  <2>2. i \in 1..Len(s) /\ s[i] = q[i]
    BY <1>1
  <2> QED BY <2>1, <2>2 DEF Said
<1>4. ASSUME NEW m \in Said(r) PROVE m \in Said(s)
  <2>1. PICK i \in 1..Len(r) : m = r[i]
    BY DEF Said
  <2>2. PICK k \in 1..Len(s) : k = Len(q) + i
    BY <1>1
  <2>3. s[k] = r[i]
    BY <1>1, <2>2
  <2> QED BY <2>1, <2>3 DEF Said
<1> QED BY <1>2, <1>3, <1>4 DEF s

LEMMA SaidLess ==
  ASSUME NEW q \in Seq(Signals), q # <<>>
  PROVE  Said(q) = {Head(q)} \cup Said(Tail(q))
<1>1. <<Head(q)>> \in Seq(Signals) /\ Tail(q) \in Seq(Signals) /\ q = <<Head(q)>> \o Tail(q)
  OBVIOUS
<1>2. Said(<<Head(q)>>) = {Head(q)}
  BY DEF Said
<1> QED BY <1>1, <1>2, SaidMore

LEMMA SaidNothing == Said(<<>>) = {}
  BY DEF Said

\* A worker is silent, says that it connects, or reports; a cancellation only when
\* it was told to stop.
LEMMA WorkerSays ==
  ASSUME TypeOK, Stopped, NEW a \in Ids, Worker(a)
  PROVE  /\ \A b \in Ids \ {a} : task'[b] = task[b]
         /\ task'[a].pc \in {"fetched", "saved", "added"} => task'[a].outcome # "cancelled"
         /\ \/ task'[a].pc # "none" /\ UNCHANGED <<inbox, lastRun>>
            \/ /\ task'[a].pc # "none" /\ UNCHANGED lastRun
               /\ inbox' = [inbox EXCEPT ![a] = @ \o <<StatusSignal("connecting")>>]
            \/ \E s \in Terminal : Report(a, s) /\ (s = "cancelled" => stopEvent)
<1>1. task[a] \in Tasks /\ DOMAIN task = Ids /\ task = [b \in Ids |-> task[b]]
  BY DEF TypeOK
<1>2. ASSUME NEW pc \in Phases \ {"none"}, Advance(a, pc)
      PROVE  /\ \A b \in Ids \ {a} : task'[b] = task[b]
             /\ task'[a].pc = pc /\ task'[a].outcome = task[a].outcome
  BY <1>1, <1>2 DEF Advance, Tasks
<1>3. ASSUME NEW s \in Terminal, Report(a, s)
      PROVE  (\A b \in Ids \ {a} : task'[b] = task[b]) /\ task'[a].pc = "none"
  BY <1>1, <1>3 DEF Report, Idle
<1>4. ASSUME NEW s \in Terminal \ {"cancelled"}, FinishWith(a, s)
      PROVE  \E r \in Terminal \ {"cancelled"} : Report(a, r)
  BY <1>4 DEF FinishWith, Terminal
<1>5. CASE BeginRun(a)
  <2>1. CASE stopEvent
    <3>1. Report(a, "cancelled") /\ "cancelled" \in Terminal
      BY <1>5, <2>1 DEF BeginRun, Terminal
    <3> QED BY <1>3, <2>1, <3>1
  <2>2. CASE ~stopEvent
    <3>1. Advance(a, "connecting") /\ Emit(a, <<StatusSignal("connecting")>>) /\ UNCHANGED lastRun
      BY <1>5, <2>2 DEF BeginRun
    <3> QED BY <1>2, <3>1 DEF Emit, Phases
  <2> QED BY <2>1, <2>2
<1>6. CASE ClientReturns(a)
  <2>1. UNCHANGED <<inbox, lastRun>>
    BY <1>6 DEF ClientReturns
  <2>2. CASE Advance(a, "failed")
    BY <1>2, <2>1, <2>2 DEF Phases
  <2>3. ASSUME NEW outcome \in {"success", "network_error"}, NEW mail \in Mail,
               task' = [task EXCEPT ![a].pc = "fetched",
                                    ![a].outcome = outcome, ![a].mail = mail]
        PROVE  /\ \A b \in Ids \ {a} : task'[b] = task[b]
               /\ task'[a].pc = "fetched" /\ task'[a].outcome # "cancelled"
    BY <1>1, <2>3 DEF Tasks
  <2> QED BY <1>6, <2>1, <2>2, <2>3 DEF ClientReturns
<1>7. CASE RouteFails(a) \/ FinishFailed(a)
  <2>1. PICK r \in Terminal \ {"cancelled"} : Report(a, r)
    BY <1>4, <1>7 DEF RouteFails, FinishFailed, Terminal
  <2> QED BY <1>3, <2>1
<1>8. CASE SaveOriginals(a)
  <2>1. task[a].outcome # "cancelled" /\ UNCHANGED <<inbox, lastRun>>
    BY <1>8 DEF SaveOriginals, Stopped
  <2>2. Advance(a, "saved") \/ Advance(a, "failed")
    BY <1>8 DEF SaveOriginals
  <2> QED BY <1>2, <2>1, <2>2 DEF Phases
<1>9. CASE StoreMessages(a)
  <2>1. task[a].outcome # "cancelled" /\ UNCHANGED <<inbox, lastRun>>
    BY <1>9 DEF StoreMessages, Stopped
  <2>2. Advance(a, "added") \/ Advance(a, "failed")
    BY <1>9 DEF StoreMessages
  <2> QED BY <1>2, <2>1, <2>2 DEF Phases
<1>10. CASE FinishFetch(a)
  <2>1. task[a].outcome \in Terminal /\ task[a].outcome # "cancelled"
    BY <1>1, <1>10 DEF Tasks, FinishFetch, Stopped
  <2>2. Report(a, task[a].outcome) \/ (Advance(a, "failed") /\ UNCHANGED <<inbox, lastRun>>)
    BY <1>10 DEF FinishFetch
  <2> QED BY <1>2, <1>3, <2>1, <2>2 DEF Phases
<1> QED
  BY <1>5, <1>6, <1>7, <1>8, <1>9, <1>10 DEF Worker

LEMMA WorkerCounts ==
  ASSUME IInv, CountInv, NEW a \in Ids, Worker(a)
  PROVE  CountInv'
<1>1. /\ TypeOK /\ task[a].pc # "none"
      /\ UNCHANGED <<workers, total, results, stopping, stopEvent>>
  BY WorkerShape DEF IInv
<1>2. /\ \A b \in Ids \ {a} : task'[b] = task[b]
      /\ task'[a].pc \in {"fetched", "saved", "added"} => task'[a].outcome # "cancelled"
      /\ \/ task'[a].pc # "none" /\ UNCHANGED <<inbox, lastRun>>
         \/ /\ task'[a].pc # "none" /\ UNCHANGED lastRun
            /\ inbox' = [inbox EXCEPT ![a] = @ \o <<StatusSignal("connecting")>>]
         \/ \E s \in Terminal : Report(a, s) /\ (s = "cancelled" => stopEvent)
  BY <1>1, WorkerSays DEF CountInv
<1>3. /\ inbox[a] \in Seq(Signals) /\ inbox = [b \in Ids |-> inbox[b]]
      /\ lastRun = [b \in Ids |-> lastRun[b]] /\ DOMAIN lastRun[a] = {"box", "outcome"}
      /\ lastRun[a].outcome = "unreported" /\ results[a] = "unreported"
      /\ \A m \in Said(inbox[a]) : m = StatusSignal("connecting")
  BY <1>1 DEF TypeOK, Runs, CountInv, AllHeard, Heard
<1>4. /\ \A b \in Ids \ {a} : inbox'[b] = inbox[b] /\ lastRun'[b] = lastRun[b]
      /\ Heard(inbox'[a], task'[a].pc, lastRun'[a].outcome, results[a])
      /\ lastRun'[a].outcome = "cancelled" => stopEvent
  <2>1. CASE task'[a].pc # "none" /\ UNCHANGED <<inbox, lastRun>>
    BY <1>3, <2>1 DEF Heard
  <2>2. CASE /\ task'[a].pc # "none" /\ UNCHANGED lastRun
             /\ inbox' = [inbox EXCEPT ![a] = @ \o <<StatusSignal("connecting")>>]
    <3>1. /\ inbox'[a] = inbox[a] \o <<StatusSignal("connecting")>>
          /\ \A b \in Ids \ {a} : inbox'[b] = inbox[b]
      BY <1>3, <2>2
    <3>2. <<StatusSignal("connecting")>> \in Seq(Signals)
      BY SignalTypes
    <3>3. Said(<<StatusSignal("connecting")>>) = {StatusSignal("connecting")}
      BY DEF Said
    <3>4. \A m \in Said(inbox'[a]) : m = StatusSignal("connecting")
      <4>1. PICK one \in Seq(Signals) : one = <<StatusSignal("connecting")>>
        BY <3>2
      <4>2. Said(inbox'[a]) = Said(inbox[a]) \cup {StatusSignal("connecting")}
        <5>1. Said(inbox[a] \o one) = Said(inbox[a]) \cup Said(one)
          BY <1>3, SaidMore
        <5>2. inbox'[a] = inbox[a] \o one
          BY <3>1, <4>1
        <5>3. Said(one) = {StatusSignal("connecting")}
          BY <3>3, <4>1
        <5> QED BY <5>1, <5>2, <5>3
      <4> QED BY <1>3, <4>2
    <3> QED BY <1>3, <2>2, <3>1, <3>4 DEF Heard
  <2>3. ASSUME NEW s \in Terminal, Report(a, s), s = "cancelled" => stopEvent
        PROVE  /\ \A b \in Ids \ {a} : inbox'[b] = inbox[b] /\ lastRun'[b] = lastRun[b]
               /\ Heard(inbox'[a], task'[a].pc, lastRun'[a].outcome, results[a])
               /\ lastRun'[a].outcome = "cancelled" => stopEvent
    <3> DEFINE last == <<StatusSignal(s), Finished>>
    <3>1. /\ inbox'[a] = inbox[a] \o last /\ task'[a].pc = "none" /\ lastRun'[a].outcome = s
          /\ \A b \in Ids \ {a} : inbox'[b] = inbox[b] /\ lastRun'[b] = lastRun[b]
      BY <1>1, <1>3, <2>3 DEF Report, Emit, LastSignals, Idle, TypeOK
    <3>2. last \in Seq(Signals)
      BY SignalTypes
    <3>3. Said(last) = {StatusSignal(s), Finished}
      <4>1. Len(last) = 2 /\ last[1] = StatusSignal(s) /\ last[2] = Finished /\ 1..2 = {1, 2}
        OBVIOUS
      <4> HIDE DEF last
      <4> QED BY <4>1 DEF Said
    <3> HIDE DEF last
    <3>4. Said(inbox'[a]) = Said(inbox[a]) \cup {StatusSignal(s), Finished}
      BY <1>3, <3>1, <3>2, <3>3, SaidMore
    <3>5. \A m \in Said(inbox'[a]) : m.kind = "status" => m.status \in {"connecting", s}
      BY <1>3, <3>4 DEF StatusSignal, Finished
    <3>6. s = "success" => StatusSignal("success") \in Said(inbox'[a])
      BY <3>4
    <3> QED BY <1>3, <2>3, <3>1, <3>5, <3>6 DEF Heard
  <2> QED BY <1>2, <2>1, <2>2, <2>3
<1>5. AllHeard'
  BY <1>1, <1>2, <1>4 DEF CountInv, AllHeard
<1>6. Stopped'
  BY <1>1, <1>2, <1>4 DEF CountInv, Stopped
<1>7. Totalled'
  BY <1>1 DEF CountInv, Totalled, InBatch
<1> QED BY <1>5, <1>6, <1>7 DEF CountInv

\* A signal that is handled: a result is the outcome, and only one that is not a
\* success can get lost in a database error.
LEMMA HandleCounts ==
  ASSUME IInv, CountInv, NEW a \in Ids, MainLoop(a)
  PROVE  CountInv'
<1> DEFINE q == inbox[a]
           o == lastRun[a].outcome
<1>1. /\ q \in Seq(Signals) /\ q # <<>> /\ Head(q) \in Signals
      /\ UNCHANGED <<task, lastRun, total, stopEvent>>
      /\ inbox'[a] = Tail(q) /\ \A b \in Ids \ {a} : inbox'[b] = inbox[b]
  BY ReceiveType DEF MainLoop, HandleStatus, HandleFinished, IInv, TypeOK
<1>2. Said(q) = {Head(q)} \cup Said(Tail(q))
  BY <1>1, SaidLess
<1>3. a \in workers /\ Heard(q, task[a].pc, o, results[a])
  BY <1>1 DEF IInv, Books, RegisteredWhileActive, CountInv, AllHeard
<1> HIDE DEF q, o
<1>4. CASE HandleStatus(a)
  <2> DEFINE s == Head(q).status
  <2>1. /\ Head(q).kind = "status" /\ UNCHANGED <<workers, stopping>>
        /\ \/ results' = results /\ (s = "success" => FALSE)
           \/ results' = IF s # "connecting" THEN [results EXCEPT ![a] = s] ELSE results
    BY <1>4 DEF HandleStatus, Counted, q
  <2>2. Head(q) = StatusSignal(s)
    BY <1>1, <2>1 DEF Signals, StatusSignal
  <2> HIDE DEF s
  <2>3. /\ \A b \in Ids \ {a} : results'[b] = results[b]
        /\ results'[a] \in {results[a], s}
        /\ s = "connecting" => results'[a] = results[a]
        /\ s = "success" => results'[a] = s
    BY <2>1 DEF IInv, TypeOK
  <2>4. Heard(Tail(q), task[a].pc, o, results'[a])
    <3>1. StatusSignal(s).kind = "status" /\ StatusSignal(s).status = s
      BY DEF StatusSignal
    <3>2. CASE task[a].pc # "none"
      <4>1. s = "connecting"
        BY <1>2, <1>3, <2>2, <3>1, <3>2 DEF Heard, StatusSignal
      <4> QED BY <1>2, <1>3, <2>3, <3>2, <4>1 DEF Heard
    <3>3. CASE task[a].pc = "none"
      <4>1. s \in {"connecting", o} /\ results[a] \in {"unreported", o}
        BY <1>2, <1>3, <2>2, <3>1, <3>3 DEF Heard
      <4>2. results'[a] \in {"unreported", o}
        BY <2>3, <4>1
      <4>3. \A m \in Said(Tail(q)) : m.kind = "status" => m.status \in {"connecting", o}
        BY <1>2, <1>3, <3>3 DEF Heard
      <4>4. ASSUME o = "success"
            PROVE  results'[a] = "success" \/ StatusSignal("success") \in Said(Tail(q))
        <5>1. CASE results[a] = "success"
          BY <2>3, <4>1, <4>4, <5>1
        <5>2. CASE StatusSignal("success") \in Said(q)
          BY <1>2, <2>2, <2>3, <3>1, <5>2 DEF StatusSignal
        <5> QED BY <1>3, <3>3, <4>4, <5>1, <5>2 DEF Heard
      <4> QED BY <3>3, <4>2, <4>3, <4>4 DEF Heard
    <3> QED BY <3>2, <3>3
  <2>5. AllHeard'
    BY <1>1, <2>3, <2>4 DEF CountInv, AllHeard, o
  <2>6. Stopped'
    BY <1>1, <2>1 DEF CountInv, Stopped
  <2>7. Totalled'
    <3>1. PICK C \in SUBSET Ids : InBatch(C)
      BY DEF CountInv, Totalled
    <3>2. InBatch(C)'
      BY <1>1, <1>3, <2>1, <2>3, <3>1 DEF InBatch
    <3> QED BY <3>2 DEF Totalled
  <2> QED BY <2>5, <2>6, <2>7 DEF CountInv
<1>5. CASE HandleFinished(a)
  <2>1. /\ Head(q).kind = "finished" /\ results' = results /\ workers' = workers \ {a}
        /\ workers' # {} => stopping' = stopping
    BY <1>5 DEF HandleFinished, BatchOver, q
  <2>2. Head(q) # StatusSignal("success") /\ Head(q) # StatusSignal("connecting")
    BY <2>1 DEF StatusSignal
  <2>3. Heard(Tail(q), task[a].pc, o, results[a])
    BY <1>2, <1>3, <2>2 DEF Heard
  <2>4. AllHeard'
    BY <1>1, <2>1, <2>3 DEF CountInv, AllHeard, o
  <2>5. Stopped'
    BY <1>1, <2>1 DEF CountInv, Stopped
  <2>6. Totalled'
    BY <1>1, <2>1 DEF CountInv, Totalled, InBatch
  <2> QED BY <2>4, <2>5, <2>6 DEF CountInv
<1> QED BY <1>4, <1>5 DEF MainLoop

\* A batch starts with nothing reported.
LEMMA QueueCounts ==
  ASSUME IInv, CountInv, NEW chosen \in SUBSET Rows, chosen # {}, QueueFetch(chosen)
  PROVE  CountInv'
<1>1. /\ \A a \in Ids : inbox'[a] = <<>>
      /\ ~stopEvent' /\ workers' = chosen /\ total' = Cardinality(chosen)
      /\ \A a \in Ids : results'[a] = "unreported" /\ lastRun'[a].outcome = "unreported"
      /\ \A a \in Ids : task'[a].pc \in {"queued", "none"}
  <2>1. \A a \in Ids : inbox[a] = <<>> /\ task[a].pc = "none"
    BY QueueBooks DEF IInv, Live
  <2> QED BY <2>1 DEF QueueFetch, Idle
<1>2. AllHeard'
  BY <1>1, SaidNothing DEF AllHeard, Heard
<1>3. Stopped'
  BY <1>1 DEF Stopped
<1>4. chosen \in SUBSET Ids
  BY DEF Rows
<1>5. InBatch(chosen)'
  BY <1>1 DEF InBatch
<1> QED BY <1>2, <1>3, <1>4, <1>5 DEF CountInv, Totalled

LEMMA InitCounts == Init => CountInv
<1> SUFFICES ASSUME Init PROVE CountInv
  OBVIOUS
<1>1. AllHeard
  BY SaidNothing DEF Init, AllHeard, Heard, Idle
<1>2. Stopped
  BY DEF Init, Stopped, Idle
<1>3. InBatch({})
  BY FS_EmptySet DEF Init, InBatch
<1> QED BY <1>1, <1>2, <1>3 DEF CountInv, Totalled

LEMMA NextCounts == IInv /\ CountInv /\ [Next]_vars => CountInv'
<1> SUFFICES ASSUME IInv, CountInv, [Next]_vars PROVE CountInv'
  OBVIOUS
<1>1. ASSUME UNCHANGED <<workers, task, inbox, lastRun, results, total>>,
             Stopped'
      PROVE  CountInv'
  BY <1>1 DEF CountInv, AllHeard, Totalled, InBatch
<1>2. CASE Import \/ AskDelete \/ CancelDelete \/ ConfirmDelete \/ UNCHANGED vars
  <2>1. UNCHANGED <<workers, task, inbox, lastRun, results, total, stopEvent, stopping>>
    BY <1>2 DEF Import, AskDelete, CancelDelete, ConfirmDelete, books, vars
  <2> QED BY <1>1, <2>1 DEF CountInv, Stopped
<1>3. CASE StartFetch \/ ScheduleTick
  BY <1>3, QueueCounts DEF StartFetch, ScheduleTick
<1>4. CASE StopFetch
  <2>1. /\ UNCHANGED <<workers, task, inbox, lastRun, results, total>>
        /\ stopEvent' = TRUE /\ (workers # {} => stopping')
    BY <1>4 DEF StopFetch
  <2> QED BY <1>1, <2>1 DEF CountInv, Stopped
<1> QED BY <1>2, <1>3, <1>4, WorkerCounts, HandleCounts DEF Next, User

LEMMA DisjointUnion ==
  ASSUME NEW S, NEW T, IsFiniteSet(S), IsFiniteSet(T), S \cap T = {}
  PROVE  IsFiniteSet(S \cup T) /\ Cardinality(S \cup T) = Cardinality(S) + Cardinality(T)
<1>1. /\ IsFiniteSet(S \cup T)
      /\ Cardinality(S \cup T) = Cardinality(S) + Cardinality(T) - Cardinality(S \cap T)
  BY FS_Union
<1>2. Cardinality(S \cap T) = 0
  BY FS_EmptySet
<1>3. Cardinality(S) \in Nat /\ Cardinality(T) \in Nat
  BY FS_CardinalityType
<1> QED BY <1>1, <1>2, <1>3

\* The three counts of the books are apart, and together no more than the total.
LEMMA CountsApart ==
  ASSUME IInv, CountInv
  PROVE  LET success   == {a \in Ids : results[a] = "success"}
             cancelled == {a \in Ids : results[a] = "cancelled"}
             failed    == {a \in Ids : results[a] \in {"network_error", "unknown_error"}}
         IN  Cardinality(success) + Cardinality(cancelled) + Cardinality(failed) <= total
<1> DEFINE success   == {a \in Ids : results[a] = "success"}
           cancelled == {a \in Ids : results[a] = "cancelled"}
           failed    == {a \in Ids : results[a] \in {"network_error", "unknown_error"}}
<1>1. PICK C \in SUBSET Ids : InBatch(C)
  BY DEF CountInv, Totalled
<1>2. /\ success \subseteq C /\ cancelled \subseteq C /\ failed \subseteq C
      /\ success \cap cancelled = {} /\ (success \cup cancelled) \cap failed = {}
  BY <1>1 DEF InBatch
<1> HIDE DEF success, cancelled, failed
<1>3. IsFiniteSet(C) /\ Cardinality(C) \in Nat
  BY BatchAssumption, FS_Subset, FS_CardinalityType
<1>4. IsFiniteSet(success) /\ IsFiniteSet(cancelled) /\ IsFiniteSet(failed)
  BY <1>2, <1>3, FS_Subset
<1>5. /\ Cardinality(success) \in Nat /\ Cardinality(cancelled) \in Nat
      /\ Cardinality(failed) \in Nat
  BY <1>4, FS_CardinalityType
<1>6. /\ IsFiniteSet(success \cup cancelled)
      /\ Cardinality(success \cup cancelled) = Cardinality(success) + Cardinality(cancelled)
  BY <1>2, <1>4, DisjointUnion
<1>7. Cardinality((success \cup cancelled) \cup failed)
        = Cardinality(success) + Cardinality(cancelled) + Cardinality(failed)
  BY <1>2, <1>4, <1>6, DisjointUnion
<1>8. Cardinality((success \cup cancelled) \cup failed) <= Cardinality(C)
  <2>1. (success \cup cancelled) \cup failed \in SUBSET C
    BY <1>2
  <2> QED BY <1>3, <2>1, FS_Subset
<1> QED BY <1>1, <1>7, <1>8 DEF InBatch, success, cancelled, failed

\* The counts of _worker_finished for the last worker of a batch: as many successes
\* as fetches that succeeded, every account in one count, and no cancellation that
\* nobody asked for; whatever database errors the slots met.
THEOREM SummaryHolds == Spec => SummaryTruthful
<1> DEFINE A == workers # {} /\ workers' = {} =>
       /\ summary'.success = Cardinality({a \in Ids : lastRun[a].outcome = "success"})
       /\ summary'.total = summary'.success + summary'.cancelled + summary'.failed
       /\ ~stopping => summary'.cancelled = 0
<1>1. IInv /\ CountInv /\ [Next]_vars => [A]_vars
  <2> SUFFICES ASSUME IInv, CountInv, Next, workers # {}, workers' = {}
               PROVE  /\ summary'.success = Cardinality({a \in Ids : lastRun[a].outcome = "success"})
                      /\ summary'.total = summary'.success + summary'.cancelled + summary'.failed
                      /\ ~stopping => summary'.cancelled = 0
    OBVIOUS
  <2>1. PICK a \in Ids : HandleFinished(a)
    <3>1. ~(Import \/ AskDelete \/ CancelDelete \/ ConfirmDelete \/ StopFetch)
      BY DEF Import, AskDelete, CancelDelete, ConfirmDelete, StopFetch, books
    <3>2. ~(StartFetch \/ ScheduleTick)
      BY DEF StartFetch, ScheduleTick, QueueFetch, NoBatchRuns
    <3>3. \A b \in Ids : ~Worker(b) /\ ~HandleStatus(b)
      BY WorkerShape DEF IInv, HandleStatus
    <3> QED BY <3>1, <3>2, <3>3 DEF Next, User, MainLoop
  <2>2. summary' = Summary /\ UNCHANGED <<results, lastRun>>
    BY <2>1 DEF HandleFinished, BatchOver
  <2>3. IInv' /\ CountInv'
    BY NextInv, NextCounts
  <2>4. ASSUME NEW b \in Ids
        PROVE  results[b] \in {"unreported", lastRun[b].outcome}
               /\ (lastRun[b].outcome = "success" => results[b] = "success")
    <3>1. inbox'[b] = <<>> /\ task'[b].pc = "none"
      BY <2>3 DEF IInv, Books, RegisteredWhileActive
    <3>2. Heard(inbox'[b], task'[b].pc, lastRun'[b].outcome, results'[b])
      BY <2>3 DEF CountInv, AllHeard
    <3> QED BY <2>2, <3>1, <3>2, SaidNothing DEF Heard
  <2> DEFINE success   == Cardinality({b \in Ids : results[b] = "success"})
             cancelled == Cardinality({b \in Ids : results[b] = "cancelled"})
             failed    == Cardinality({b \in Ids : results[b] \in {"network_error", "unknown_error"}})
             unreported == Unreported(success + cancelled + failed)
  <2>5. success = Cardinality({b \in Ids : lastRun[b].outcome = "success"})
    <3>1. {b \in Ids : results[b] = "success"} = {b \in Ids : lastRun[b].outcome = "success"}
      BY <2>4
    <3> QED BY <3>1
  <2>6. ~stopping => cancelled = 0
    <3>1. ASSUME NEW b \in Ids, results[b] = "cancelled" PROVE stopping
      <4>1. lastRun[b].outcome = "cancelled"
        BY <2>4, <3>1
      <4> QED BY <4>1 DEF CountInv, Stopped
    <3>2. ~stopping => {b \in Ids : results[b] = "cancelled"} = {}
      BY <3>1
    <3> QED BY <3>2, FS_EmptySet
  <2>7. success + cancelled + failed <= total
    BY CountsApart
  <2>8. total \in Nat /\ success \in Nat /\ cancelled \in Nat /\ failed \in Nat
    <3>1. /\ {b \in Ids : results[b] = "success"} \in SUBSET Ids
          /\ {b \in Ids : results[b] = "cancelled"} \in SUBSET Ids
          /\ {b \in Ids : results[b] \in {"network_error", "unknown_error"}} \in SUBSET Ids
      OBVIOUS
    <3> QED BY <3>1, CountIsNat DEF IInv, TypeOK
  <2>9. Summary = IF stopping
                    THEN [total |-> total, success |-> success,
                          cancelled |-> cancelled + unreported, failed |-> failed]
                    ELSE [total |-> total, success |-> success,
                          cancelled |-> cancelled, failed |-> failed + unreported]
    BY DEF Summary
  <2> HIDE DEF success, cancelled, failed
  <2>10. success + cancelled + failed + unreported = total /\ unreported \in Nat
    BY <2>7, <2>8 DEF Unreported
  <2> HIDE DEF unreported
  <2>11. /\ summary'.success = success /\ summary'.total = total
         /\ ~stopping => summary'.cancelled = cancelled
    BY <2>2, <2>9
  <2>12. total = summary'.success + summary'.cancelled + summary'.failed
    BY <2>2, <2>8, <2>9, <2>10
  <2> QED BY <2>5, <2>6, <2>11, <2>12
<1>2. Init => IInv /\ CountInv
  BY InitInv, InitCounts
<1>3. IInv /\ CountInv /\ [Next]_vars => (IInv /\ CountInv)'
  BY NextInv, NextCounts
<1> QED BY <1>1, <1>2, <1>3, PTL DEF Spec, SummaryTruthful
=============================================================================
