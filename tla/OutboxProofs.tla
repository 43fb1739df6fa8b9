---------------------------- MODULE OutboxProofs ----------------------------
(***************************************************************************)
(* What leaves an account is what the user said yes to: proved for any     *)
(* accounts, addresses, files, forms, selections and limits, whatever      *)
(* fails and however the files change on the disk meanwhile; and each      *)
(* result the window lists agrees with what the server got.                *)
(***************************************************************************)
EXTENDS Outbox, FiniteSetTheorems, TLAPS

-----------------------------------------------------------------------------
(***************************************************************************)
(* The limits.                                                             *)
(***************************************************************************)
Within(d) == /\ Size(d.files) <= MaxTotal
             /\ \A f \in d.files : f.size <= MaxFile
             /\ Cardinality(Recipients(d)) <= MaxRecipients

\* Three fields have together no more addresses than one after the other.
LEMMA FieldsTogether ==
  ASSUME NEW A, NEW B, NEW C, IsFiniteSet(A), IsFiniteSet(B), IsFiniteSet(C)
  PROVE  Cardinality(A \cup B \cup C) <= Cardinality(A) + Cardinality(B) + Cardinality(C)
<1>1. /\ IsFiniteSet(A \cup B)
      /\ Cardinality(A \cup B) = Cardinality(A) + Cardinality(B) - Cardinality(A \cap B)
  BY FS_Union
<1>2. Cardinality((A \cup B) \cup C)
        = Cardinality(A \cup B) + Cardinality(C) - Cardinality((A \cup B) \cap C)
  BY <1>1, FS_Union
<1>3. /\ Cardinality(A) \in Nat /\ Cardinality(B) \in Nat /\ Cardinality(C) \in Nat
      /\ Cardinality(A \cap B) \in Nat /\ Cardinality((A \cup B) \cap C) \in Nat
  BY <1>1, FS_CardinalityType, FS_Intersection
<1> QED BY <1>1, <1>2, <1>3

\* The addresses of a form are finitely many.
LEMMA AddressesFinite ==
  ASSUME NEW f \in Forms, NEW x \in Fields, NEW chosen
  PROVE  IsFiniteSet(Draft(f, chosen).to[x])
<1>1. f.to[x] \subseteq Spellings
  BY OutboxAssumption
<1>2. Draft(f, chosen).to[x] = {BoxOf[s] : s \in f.to[x]} \ {Malformed}
  BY DEF Draft
<1>3. Draft(f, chosen).to[x] \subseteq Boxes
  BY <1>1, <1>2 DEF Boxes
<1> QED BY <1>3, OutboxAssumption, FS_Subset

\* What the dialog accepts is within the limits.
LEMMA AcceptedWithin ==
  ASSUME NEW f \in Forms, NEW chosen, Valid(f, chosen)
  PROVE  Within(Draft(f, chosen))
<1> DEFINE d == Draft(f, chosen)
<1>1. Size(d.files) <= MaxTotal
  BY DEF Valid, FitsTogether
<1>2. \A g \in d.files : g.size <= MaxFile
  BY DEF Valid, Draft
<1>3. Cardinality(Recipients(d)) <= MaxRecipients
  <2>1. Recipients(d) = d.to["to"] \cup d.to["cc"] \cup d.to["bcc"]
    BY DEF Recipients, Fields
  <2>2. IsFiniteSet(d.to["to"]) /\ IsFiniteSet(d.to["cc"]) /\ IsFiniteSet(d.to["bcc"])
    BY AddressesFinite DEF Fields
  <2>3. Count(d) \in 1..MaxRecipients
    BY DEF Valid
  <2> HIDE DEF d
  <2>4. Cardinality(Recipients(d)) <= Count(d)
    BY <2>1, <2>2, FieldsTogether DEF Count
  <2>5. Cardinality(Recipients(d)) \in Nat
    BY <2>1, <2>2, FS_Union, FS_CardinalityType
  <2> QED BY <2>3, <2>4, <2>5, OutboxAssumption
<1> QED BY <1>1, <1>2, <1>3 DEF Within

-----------------------------------------------------------------------------
(***************************************************************************)
(* The batch.                                                              *)
(***************************************************************************)
Typed == /\ form \in Forms \cup {Blank} /\ senders \in Selections \cup {<<>>} /\ at \in Nat
         /\ DOMAIN served = Accounts /\ copies \in [Accounts -> Nat]

\* The dialog is open only while no worker sends, and its question is about a draft
\* within the limits.
Asked == /\ dialog # "none" => worker = "none"
         /\ dialog = "asking" => Within(draft)

\* A worker sends what was confirmed, with the right client, and an account it has
\* not come to has handed nothing in.
Bound == worker # "none" =>
  /\ confirmed = [draft |-> draft, senders |-> senders] /\ Within(draft) /\ at > 0
  /\ \A a \in Accounts : copies[a] > 0 => \E i \in DOMAIN senders : i < at /\ senders[i] = a

\* Only the SMTP client of the account it has come to is connected, and a worker
\* has signals out when it is done.
Matched == /\ client = "connected" =>
                worker = "running" /\ at <= Len(senders) /\ Sender \notin Graph
           /\ events \in {<<>>, <<"result", "finished">>, <<"finished">>}
           /\ events # <<>> => worker = "done"

Counted == \A a \in Accounts : served[a] # {} => copies[a] > 0

OutboxInv == Typed /\ Asked /\ Bound /\ Matched /\ Counted /\ SentAsConfirmed

LEMMA OutboxInit == Init => OutboxInv
BY DEF Init, OutboxInv, Typed, Asked, Bound, Matched, Counted, SentAsConfirmed

\* Nothing is handed in, and a batch under way stays what it is.
LEMMA OutboxKept ==
  ASSUME OutboxInv, UNCHANGED <<mail, confirmed>>, Typed', Asked', Matched',
         worker' = "none" \/ (worker # "none" /\ at <= at' /\ UNCHANGED <<draft, senders>>)
  PROVE  OutboxInv'
<1>1. Counted' /\ SentAsConfirmed'
  BY DEF OutboxInv, Counted, SentAsConfirmed, mail
<1>2. Bound'
  <2>1. CASE worker' = "none"
    BY <2>1 DEF Bound
  <2>2. CASE worker # "none" /\ at <= at' /\ UNCHANGED <<draft, senders>>
    <3>1. Within(draft)' /\ at' > 0 /\ at \in Nat /\ at' \in Nat
      BY <2>2 DEF OutboxInv, Bound, Typed, Within
    <3>2. ASSUME NEW a \in Accounts, copies'[a] > 0
          PROVE  \E i \in DOMAIN senders : i < at' /\ senders[i] = a
      <4>1. PICK i \in DOMAIN senders : i < at /\ senders[i] = a
        BY <2>2, <3>2 DEF OutboxInv, Bound, mail
      <4>2. i \in Nat
        BY OutboxAssumption DEF OutboxInv, Typed
      <4> QED BY <2>2, <3>1, <4>1, <4>2
    <3> QED BY <2>2, <3>1, <3>2 DEF OutboxInv, Bound
  <2> QED BY <2>1, <2>2
<1> QED BY <1>1, <1>2 DEF OutboxInv

\* The dialog: no worker sends while it is open, so that nothing is connected.
LEMMA OutboxUser == ASSUME OutboxInv, User PROVE OutboxInv'
<1> USE DEF ui, job
<1>0. ASSUME UNCHANGED <<worker, at, client, senders, events>> PROVE Matched'
  BY <1>0 DEF OutboxInv, Matched, Sender
<1>1. CASE FileChanges
  BY <1>0, <1>1, OutboxKept DEF FileChanges, OutboxInv, Typed, Asked, Within, mail
<1>2. ASSUME NEW s \in Selections, Compose(s) PROVE OutboxInv'
  BY <1>2, OutboxKept DEF Compose, OutboxInv, Typed, Asked, Matched, mail
<1>3. CASE Edit \/ ChooseAttachment
  BY <1>0, <1>3, OutboxKept DEF Edit, ChooseAttachment, OutboxInv, Typed, Asked, mail
<1>4. CASE Accept
  <2>1. form \in Forms
    BY <1>4 DEF Accept, Valid, Blank, OutboxInv, Typed
  <2>2. Within(draft')
    BY <1>4, <2>1, AcceptedWithin DEF Accept
  <2> QED BY <1>0, <1>4, <2>2, OutboxKept DEF Accept, OutboxInv, Typed, Asked, Within, mail
<1>5. CASE Decline
  <2>1. worker = "none" /\ worker' = "none" /\ Matched'
    BY <1>5 DEF Decline, OutboxInv, Asked, Matched
  <2> QED BY <1>5, <2>1, OutboxKept DEF Decline, OutboxInv, Typed, Asked, mail
<1>6. CASE Confirm
  <2>1. Typed' /\ Asked' /\ Counted'
    BY <1>6 DEF Confirm, OutboxInv, Typed, Asked, Counted
  <2>2. SentAsConfirmed'
    BY <1>6 DEF Confirm, SentAsConfirmed
  <2>3. \A a \in Accounts : copies'[a] = 0
    BY <1>6 DEF Confirm
  <2>4. Matched' /\ worker = "none"
    BY <1>6 DEF Confirm, OutboxInv, Asked, Matched
  <2>5. Within(draft) /\ draft' = draft /\ Within(draft')
    BY <1>6 DEF Confirm, OutboxInv, Asked, Within
  <2>6. Bound'
    BY <1>6, <2>3, <2>5 DEF Confirm, Bound
  <2> QED BY <2>1, <2>2, <2>4, <2>6 DEF OutboxInv
<1> QED BY <1>1, <1>2, <1>3, <1>4, <1>5, <1>6 DEF User

\* The account the worker has come to has handed nothing in, since no account is
\* named twice.
LEMMA SenderFresh ==
  ASSUME OutboxInv, worker = "running", at <= Len(senders)
  PROVE  /\ Sender \in Accounts /\ copies[Sender] = 0 /\ served[Sender] = {}
         /\ \E i \in DOMAIN senders : senders[i] = Sender
<1>1. senders \in Seq(Accounts) /\ at \in 1..Len(senders)
  BY OutboxAssumption DEF OutboxInv, Typed, Bound
<1>2. \A i, j \in DOMAIN senders : senders[i] = senders[j] => i = j
  BY OutboxAssumption DEF OutboxInv, Typed
<1>3. DOMAIN senders = 1..Len(senders)
  BY <1>1
<1>4. Sender \in Accounts /\ at \in DOMAIN senders /\ Sender = senders[at]
  BY <1>1, <1>3 DEF Sender
<1>5. copies[Sender] = 0
  BY <1>1, <1>2, <1>3, <1>4 DEF OutboxInv, Bound, Typed
<1> QED BY <1>4, <1>5 DEF OutboxInv, Counted

\* The mail is handed in from the account the worker has come to.
LEMMA OutboxDelivers ==
  ASSUME OutboxInv, worker = "running", at <= Len(senders),
         NEW gone, Deliver(gone), NEW r, Answer(r), Quiet,
         Sender \in Graph => Size(draft.files) <= MaxGraph
  PROVE  OutboxInv'
<1>1. /\ Sender \in Accounts /\ copies[Sender] = 0
      /\ \E i \in DOMAIN senders : senders[i] = Sender
  BY SenderFresh
<1>2. /\ served'[Sender] = Recipients(draft) \ gone /\ copies'[Sender] = 1
      /\ \A a \in Accounts \ {Sender} : served'[a] = served[a] /\ copies'[a] = copies[a]
  BY <1>1 DEF Deliver, OutboxInv, Typed
<1>3. Typed'
  <2>1. DOMAIN served' = Accounts /\ copies' \in [Accounts -> Nat]
    BY <1>1 DEF Deliver, OutboxInv, Typed
  <2>2. UNCHANGED <<form, senders>> /\ at' \in Nat
    BY DEF Answer, Quiet, ui, OutboxInv, Typed
  <2> QED BY <2>1, <2>2 DEF OutboxInv, Typed
<1>4. UNCHANGED <<draft, senders, worker, confirmed, dialog, form, events>> /\ at' = at + 1 /\ client' = "none"
  BY DEF Quiet, Answer, ui
<1>5. Asked' /\ Matched'
  BY <1>4 DEF OutboxInv, Asked, Matched, Within
<1>6. Counted'
  BY <1>2 DEF OutboxInv, Counted
<1>7. Bound'
  <2> SUFFICES ASSUME NEW a \in Accounts, copies'[a] > 0
               PROVE  \E i \in DOMAIN senders : i < at + 1 /\ senders[i] = a
    <3>1. Within(draft)' /\ at' > 0
      BY <1>4 DEF OutboxInv, Bound, Typed, Within
    <3> QED BY <1>4, <3>1 DEF OutboxInv, Bound
  <2>1. CASE a = Sender
    <3>1. at \in DOMAIN senders /\ senders[at] = a /\ at < at + 1
      BY <2>1, OutboxAssumption DEF OutboxInv, Typed, Bound, Sender
    <3> QED BY <3>1
  <2>2. CASE a # Sender
    <3>1. PICK i \in DOMAIN senders : i < at /\ senders[i] = a
      BY <1>2, <2>2 DEF OutboxInv, Bound
    <3>2. i < at + 1
      BY <3>1, OutboxAssumption DEF OutboxInv, Typed
    <3> QED BY <3>1, <3>2
  <2> QED BY <2>1, <2>2
<1>8. SentAsConfirmed'
  <2>1. confirmed.draft = draft /\ confirmed.senders = senders /\ Within(draft)
    BY DEF OutboxInv, Bound
  <2>2. ASSUME NEW a \in Accounts, a # Sender
        PROVE  /\ copies'[a] <= 1
               /\ served'[a] # {} =>
                    /\ \E i \in DOMAIN confirmed.senders : confirmed.senders[i] = a
                    /\ served'[a] \subseteq Recipients(confirmed.draft)
                    /\ Size(confirmed.draft.files) <= IF a \in Graph THEN MaxGraph ELSE MaxTotal
                    /\ \A f \in confirmed.draft.files : f.size <= MaxFile
                    /\ Cardinality(Recipients(confirmed.draft)) <= MaxRecipients
    BY <1>2, <2>2 DEF OutboxInv, SentAsConfirmed
  <2>3. /\ copies'[Sender] <= 1
        /\ \E i \in DOMAIN confirmed.senders : confirmed.senders[i] = Sender
        /\ served'[Sender] \subseteq Recipients(confirmed.draft)
        /\ Size(confirmed.draft.files) <= IF Sender \in Graph THEN MaxGraph ELSE MaxTotal
        /\ \A f \in confirmed.draft.files : f.size <= MaxFile
        /\ Cardinality(Recipients(confirmed.draft)) <= MaxRecipients
    BY <1>1, <1>2, <2>1 DEF Within
  <2>4. confirmed' = confirmed
    BY <1>4
  <2> QED BY <2>2, <2>3, <2>4 DEF SentAsConfirmed
<1> QED BY <1>3, <1>5, <1>6, <1>7, <1>8 DEF OutboxInv

LEMMA OutboxRun == ASSUME OutboxInv, Run PROVE OutboxInv'
<1> USE DEF ui, job
<1>1. CASE Begin
  <2>1. Matched'
    BY <1>1 DEF Begin, OutboxInv, Matched
  <2> QED BY <1>1, <2>1, OutboxKept DEF Begin, OutboxInv, Typed, Asked, Within, mail
<1>2. ASSUME NEW r, Answer(r), Quiet, UNCHANGED mail, worker = "running" PROVE OutboxInv'
  <2>1. Typed' /\ Asked' /\ Matched' /\ at <= at'
    BY <1>2 DEF Answer, Quiet, OutboxInv, Typed, Asked, Matched, Within, mail
  <2> QED BY <1>2, <2>1, OutboxKept DEF Quiet
<1>3. ASSUME NEW c, client' = c, UNCHANGED <<at, results>>, Quiet, UNCHANGED mail, worker = "running",
             at <= Len(senders), c = "connected" => Sender \notin Graph
      PROVE  OutboxInv'
  <2>1. Typed' /\ Asked' /\ Matched' /\ at <= at'
    BY <1>3 DEF Quiet, OutboxInv, Typed, Asked, Matched, Within, mail, Sender
  <2> QED BY <1>3, <2>1, OutboxKept DEF Quiet
<1>4. CASE MakeClient
  BY <1>2, <1>3, <1>4 DEF MakeClient, Sending
<1>5. CASE Connect
  BY <1>2, <1>3, <1>5 DEF Connect, Sending
<1>6. CASE Submit
  BY <1>2, <1>6, OutboxDelivers DEF Submit, Sending, OutboxInv, Matched
<1>7. CASE GraphSubmit
  BY <1>2, <1>7, OutboxDelivers DEF GraphSubmit, Sending
<1>8. CASE Report
  <2>1. Matched'
    BY <1>8, OutboxAssumption DEF Report, Ended, Signals, OutboxInv, Matched, Typed
  <2> QED BY <1>8, <2>1, OutboxKept DEF Report, OutboxInv, Typed, Asked, Within, mail
<1> QED BY <1>1, <1>4, <1>5, <1>6, <1>7, <1>8 DEF Run

LEMMA OutboxSlot == ASSUME OutboxInv, Slot PROVE OutboxInv'
<1> USE DEF ui, job
<1>1. /\ events = <<"result", "finished">> \/ events = <<"finished">>
      /\ Head(events) = "finished" => events = <<"finished">>
      /\ events' = Tail(events) /\ worker = "done"
  <2>1. events \in {<<>>, <<"result", "finished">>, <<"finished">>} /\ events # <<>>
    BY DEF Slot, SendBatchResult, SendBatchFinished, OutboxInv, Matched
  <2>2. Head(<<"result", "finished">>) = "result"
    OBVIOUS
  <2> QED BY <2>1, <2>2 DEF Slot, SendBatchResult, SendBatchFinished, OutboxInv, Matched
<1>2. Tail(<<"result", "finished">>) = <<"finished">> /\ Tail(<<"finished">>) = <<>>
  OBVIOUS
<1>3. events' \in {<<>>, <<"finished">>} /\ (Head(events) = "finished" => events' = <<>>)
  BY <1>1, <1>2
<1>4. client # "connected"
  BY <1>1 DEF OutboxInv, Matched
<1>5. CASE SendBatchResult
  <2>1. Matched'
    BY <1>1, <1>3, <1>4, <1>5 DEF SendBatchResult, Matched
  <2> QED BY <1>5, <2>1, OutboxKept DEF SendBatchResult, OutboxInv, Typed, Asked, Within, mail
<1>6. CASE SendBatchFinished
  <2>1. Matched'
    BY <1>3, <1>4, <1>6 DEF SendBatchFinished, Matched
  <2> QED BY <1>6, <2>1, OutboxKept DEF SendBatchFinished, OutboxInv, Typed, Asked, Within, mail
<1> QED BY <1>5, <1>6 DEF Slot

\* send_batch: nothing leaves an account but the draft of the dialog, from the
\* accounts that were named, within the limits and once.
THEOREM SentHolds == Spec => []SentAsConfirmed
<1>1. OutboxInv /\ [Next]_vars => OutboxInv'
  <2>1. ASSUME OutboxInv, UNCHANGED vars PROVE OutboxInv'
    BY <2>1 DEF vars, ui, job, mail, OutboxInv, Typed, Asked, Bound, Matched, Counted,
                SentAsConfirmed, Within, Sender
  <2> QED BY <2>1, OutboxUser, OutboxRun, OutboxSlot DEF Next
<1>2. OutboxInv => SentAsConfirmed
  BY DEF OutboxInv
<1> QED BY OutboxInit, <1>1, <1>2, PTL DEF Spec

-----------------------------------------------------------------------------
(***************************************************************************)
(* What the results say.                                                   *)
(***************************************************************************)
\* The mail of the question and of the worker has recipients, addresses all of them.
Addressed == dialog = "asking" \/ worker # "none" => Recipients(draft) # {} /\ Recipients(draft) \subseteq Boxes

\* The worker has one result for every account it is through with.
Listed == /\ results \in Seq(Results)
          /\ worker = "none" => results = <<>>
          /\ worker # "none" => Len(results) = at - 1 /\ at <= Len(senders) + 1

ResultInv == Addressed /\ Listed /\ ResultsTruthful

\* A result r holds of what the server got.
Holds(r, got) ==
  /\ r.status \in {"success", "partial"} => got = Recipients(draft) \ r.rejected /\ got # {}
  /\ r.status \notin {"success", "partial", "timeout", "network"} => got = {}

LEMMA InitResults == Init => ResultInv
BY OutboxAssumption DEF Init, ResultInv, Addressed, Listed, ResultsTruthful

\* The draft of a form that is accepted is for somebody.
LEMMA AcceptedAddressed ==
  ASSUME NEW f \in Forms, NEW chosen, Valid(f, chosen)
  PROVE  Recipients(Draft(f, chosen)) # {} /\ Recipients(Draft(f, chosen)) \subseteq Boxes
<1> DEFINE d == Draft(f, chosen)
<1>1. Recipients(d) = d.to["to"] \cup d.to["cc"] \cup d.to["bcc"]
  BY DEF Recipients, Fields
<1>2. \A x \in Fields : d.to[x] \subseteq Boxes
  BY OutboxAssumption DEF Draft, Boxes
<1>3. Count(d) \in 1..MaxRecipients
  BY DEF Valid
<1> HIDE DEF d
<1>4. Recipients(d) # {}
  <2> SUFFICES ASSUME Recipients(d) = {} PROVE FALSE
    OBVIOUS
  <2>1. d.to["to"] = {} /\ d.to["cc"] = {} /\ d.to["bcc"] = {}
    BY <1>1
  <2>2. Count(d) = 0
    BY <2>1, FS_EmptySet DEF Count
  <2> QED BY <1>3, <2>2
<1> QED BY <1>1, <1>2, <1>4 DEF Fields, d

\* Nothing is added to the results.
LEMMA ResultsKept ==
  ASSUME ResultInv, UNCHANGED <<mail, confirmed>>, Addressed',
         \/ UNCHANGED results /\ (worker = "none" <=> worker' = "none")
            /\ (worker' = "none" \/ UNCHANGED <<at, senders>>)
         \/ results' = <<>> /\ worker' = "none"
  PROVE  ResultInv'
<1>1. results' = results \/ results' = <<>>
  OBVIOUS
<1>2. ResultsTruthful'
  BY <1>1 DEF ResultInv, ResultsTruthful, mail
<1>3. Listed'
  <2>1. <<>> \in Seq(Results)
    OBVIOUS
  <2>2. CASE UNCHANGED results /\ worker' = "none"
    BY <2>2 DEF ResultInv, Listed
  <2>3. CASE UNCHANGED <<results, at, senders>> /\ worker # "none" /\ worker' # "none"
    BY <2>3 DEF ResultInv, Listed
  <2>4. CASE results' = <<>> /\ worker' = "none"
    BY <2>1, <2>4 DEF Listed
  <2> QED BY <2>2, <2>3, <2>4
<1> QED BY <1>2, <1>3 DEF ResultInv

LEMMA UserResults == ASSUME OutboxInv, ResultInv, User PROVE ResultInv'
<1> USE DEF ui, job
<1>1. CASE FileChanges
  BY <1>1, ResultsKept DEF FileChanges, ResultInv, Addressed, mail
<1>2. ASSUME NEW s \in Selections, Compose(s) PROVE ResultInv'
  BY <1>2, ResultsKept DEF Compose, ResultInv, Addressed, mail
<1>3. CASE Edit \/ ChooseAttachment
  BY <1>3, ResultsKept DEF Edit, ChooseAttachment, ResultInv, Addressed, mail
<1>4. CASE Accept
  <2>1. form \in Forms /\ worker = "none"
    BY <1>4 DEF Accept, Valid, Blank, OutboxInv, Typed, Asked
  <2>2. Addressed'
    BY <1>4, <2>1, AcceptedAddressed DEF Accept, Addressed
  <2> QED BY <1>4, <2>1, <2>2, ResultsKept DEF Accept, mail
<1>5. CASE Decline
  <2>1. worker = "none" /\ Addressed'
    BY <1>5 DEF Decline, OutboxInv, Asked, ResultInv, Addressed
  <2> QED BY <1>5, <2>1, ResultsKept DEF Decline, mail
<1>6. CASE Confirm
  <2>1. Addressed' /\ results' = <<>> /\ at' = 1 /\ worker' = "queued" /\ senders' = senders
    BY <1>6 DEF Confirm, ResultInv, Addressed
  <2>2. Len(senders) \in Nat
    BY OutboxAssumption DEF OutboxInv, Typed
  <2> QED BY <2>1, <2>2 DEF ResultInv, Listed, ResultsTruthful
<1> QED BY <1>1, <1>2, <1>3, <1>4, <1>5, <1>6 DEF User

\* A result is added for the account the worker has come to, and the others' mail
\* is as it was.
LEMMA AnswerTrue ==
  ASSUME OutboxInv, ResultInv, worker = "running", at <= Len(senders),
         NEW r \in Results, Answer(r), Quiet, DOMAIN served' = Accounts,
         \A a \in Accounts \ {Sender} : served'[a] = served[a], Holds(r, served'[Sender])
  PROVE  ResultInv'
<1>1. senders \in Seq(Accounts) /\ at \in 1..Len(senders) /\ Len(senders) \in Nat
  BY OutboxAssumption DEF OutboxInv, Typed, Bound
<1>2. \A i, j \in DOMAIN senders : senders[i] = senders[j] => i = j
  BY OutboxAssumption DEF OutboxInv, Typed
<1>3. DOMAIN senders = 1..Len(senders) /\ Sender = senders[at]
  BY <1>1 DEF Sender
<1>4. confirmed = [draft |-> draft, senders |-> senders]
  BY DEF OutboxInv, Bound
<1>5. UNCHANGED <<dialog, worker, draft, senders, confirmed>> /\ at' = at + 1 /\ results' = Append(results, r)
  BY DEF Quiet, Answer, ui
<1>6. results \in Seq(Results) /\ Len(results) = at - 1
  BY DEF ResultInv, Listed
<1>7. /\ results' \in Seq(Results) /\ Len(results') = at /\ results'[at] = r
      /\ DOMAIN results' = 1..at /\ DOMAIN results = 1..(at - 1)
      /\ \A i \in 1..(at - 1) : results'[i] = results[i]
  BY <1>1, <1>5, <1>6
<1>8. Addressed'
  BY <1>5 DEF ResultInv, Addressed
<1>9. Listed'
  BY <1>1, <1>5, <1>7 DEF Listed
<1>10. ASSUME NEW i \in DOMAIN results' PROVE Holds(results'[i], served'[senders[i]])
  <2>1. CASE i = at
    BY <1>3, <1>7, <2>1
  <2>2. CASE i # at
    <3>1. i \in 1..(at - 1) /\ i \in DOMAIN senders /\ at \in DOMAIN senders
      BY <1>1, <1>3, <1>7, <2>2
    <3>2. senders[i] \in Accounts \ {Sender}
      BY <1>1, <1>2, <1>3, <2>2, <3>1
    <3>3. Holds(results[i], served[senders[i]])
      BY <1>4, <1>7, <3>1 DEF ResultInv, ResultsTruthful, Holds
    <3> QED BY <1>7, <3>1, <3>2, <3>3
  <2> QED BY <2>1, <2>2
<1>11. ResultsTruthful'
  BY <1>4, <1>5, <1>10 DEF ResultsTruthful, Holds
<1> QED BY <1>8, <1>9, <1>11 DEF ResultInv

\* No mail, and a result that claims none.
LEMMA FailureTrue ==
  ASSUME OutboxInv, ResultInv, worker = "running", at <= Len(senders),
         NEW r \in Results, r.status \notin {"success", "partial"}, Answer(r), Quiet, UNCHANGED mail
  PROVE  ResultInv'
<1>1. served[Sender] = {} /\ DOMAIN served = Accounts
  BY SenderFresh DEF OutboxInv, Typed
<1>2. Holds(r, served[Sender])
  BY <1>1 DEF Holds
<1> QED BY <1>1, <1>2, AnswerTrue DEF mail

\* The mail to those who are not refused, and a result that names them or says
\* that the answer was lost.
LEMMA DeliveryTrue ==
  ASSUME OutboxInv, ResultInv, worker = "running", at <= Len(senders),
         NEW gone \in SUBSET Recipients(draft), gone # Recipients(draft), Deliver(gone),
         NEW r \in Results, Answer(r), Quiet,
         \/ r.status \in {"success", "partial"} /\ r.rejected = gone
         \/ r.status \in {"timeout", "network"}
  PROVE  ResultInv'
<1>1. Sender \in Accounts /\ DOMAIN served = Accounts
  BY SenderFresh DEF OutboxInv, Typed
<1>2. /\ DOMAIN served' = Accounts /\ served'[Sender] = Recipients(draft) \ gone
      /\ \A a \in Accounts \ {Sender} : served'[a] = served[a]
  BY <1>1 DEF Deliver
<1>3. Holds(r, served'[Sender])
  BY <1>2 DEF Holds
<1> QED BY <1>2, <1>3, AnswerTrue

LEMMA RunResults == ASSUME OutboxInv, ResultInv, Run PROVE ResultInv'
<1> USE DEF ui, job
<1>1. Recipients(draft) \subseteq Boxes /\ Recipients(draft) # {}
  <2>1. worker # "none"
    BY DEF Run, Begin, MakeClient, Connect, Submit, GraphSubmit, Report, Sending
  <2> QED BY <2>1 DEF ResultInv, Addressed
<1>2. \A s \in Status : \A gone \in SUBSET Recipients(draft) :
        Result(s, gone) \in Results /\ Result(s, gone).status = s /\ Result(s, gone).rejected = gone
  BY <1>1 DEF Result, Results
<1>3. ASSUME UNCHANGED <<mail, confirmed, results, at, senders, dialog, draft>>, worker # "none", worker' # "none"
      PROVE  ResultInv'
  BY <1>3, ResultsKept DEF ResultInv, Addressed
<1>4. CASE Begin \/ Report
  BY <1>3, <1>4 DEF Begin, Report
<1>5. CASE MakeClient
  <2>1. worker = "running" /\ at <= Len(senders) /\ Quiet /\ UNCHANGED mail
    BY <1>5 DEF MakeClient, Sending
  <2>2. CASE UNCHANGED <<at, results>>
    BY <1>3, <2>1, <2>2 DEF Quiet
  <2>3. ASSUME NEW s \in {"config", "timeout", "network", "auth", "unknown"}, Answer(Result(s, {})) PROVE ResultInv'
    <3>1. s \in Status /\ s \notin {"success", "partial"}
      BY <2>3 DEF Status
    <3> QED BY <1>2, <2>1, <2>3, <3>1, FailureTrue
  <2> QED BY <1>5, <2>2, <2>3 DEF MakeClient
<1>6. \A e \in DOMAIN SmtpStatus : SmtpStatus[e] \in Status /\ SmtpStatus[e] \notin {"success", "partial"}
  BY DEF SmtpStatus, Status
<1>7. Lost \subseteq DOMAIN SmtpStatus /\ \A e \in Lost : SmtpStatus[e] \in {"timeout", "network"}
  BY DEF SmtpStatus, Lost
<1>8. CASE Connect
  <2>1. worker = "running" /\ at <= Len(senders) /\ Quiet /\ UNCHANGED mail
    BY <1>8 DEF Connect, Sending
  <2>2. CASE UNCHANGED <<at, results>>
    BY <1>3, <2>1, <2>2 DEF Quiet
  <2>3. ASSUME NEW e \in DOMAIN SmtpStatus \ {"recipients", "sender"},
               Answer(Result(SmtpStatus[e], {}))
        PROVE  ResultInv'
    BY <1>2, <1>6, <2>1, <2>3, FailureTrue
  <2> QED BY <1>8, <2>2, <2>3 DEF Connect
<1>9. CASE Submit
  <2>1. worker = "running" /\ at <= Len(senders) /\ Quiet
    BY <1>9 DEF Submit, Sending
  <2>2. ASSUME NEW gone \in (SUBSET Recipients(draft)) \ {Recipients(draft)}, Deliver(gone), Answer(Accepted(gone))
        PROVE  ResultInv'
    <3>1. \E s \in {"success", "partial"} : Accepted(gone) = Result(s, gone)
      BY DEF Accepted
    <3>2. PICK s \in {"success", "partial"} : Accepted(gone) = Result(s, gone)
      BY <3>1
    <3>3. s \in Status
      BY DEF Status
    <3> QED BY <1>2, <2>1, <2>2, <3>2, <3>3, DeliveryTrue
  <2>3. ASSUME NEW gone \in (SUBSET Recipients(draft)) \ {Recipients(draft)}, Deliver(gone),
               NEW e \in Lost, Answer(Result(SmtpStatus[e], {}))
        PROVE  ResultInv'
    BY <1>2, <1>6, <1>7, <2>1, <2>3, DeliveryTrue
  <2>4. ASSUME NEW e \in DOMAIN SmtpStatus, UNCHANGED mail,
               Answer(Result(SmtpStatus[e], IF e = "recipients" THEN Recipients(draft) ELSE {}))
        PROVE  ResultInv'
    BY <1>2, <1>6, <2>1, <2>4, FailureTrue
  <2> QED BY <1>9, <2>2, <2>3, <2>4 DEF Submit
<1>10. CASE GraphSubmit
  <2>1. worker = "running" /\ at <= Len(senders) /\ Quiet
    BY <1>10 DEF GraphSubmit, Sending
  <2>2. CASE Answer(Result("large", {})) /\ UNCHANGED mail
    BY <1>2, <2>1, <2>2, FailureTrue DEF Status
  <2>3. ASSUME Deliver({}), NEW s \in {"success", "timeout", "network"}, Answer(Result(s, {})) PROVE ResultInv'
    <3>1. s \in Status
      BY DEF Status
    <3> QED BY <1>1, <1>2, <2>1, <2>3, <3>1, DeliveryTrue
  <2>4. ASSUME NEW s \in {"large", "auth", "validation", "limited", "provider", "timeout", "network", "unknown"},
               UNCHANGED mail, Answer(Result(s, {}))
        PROVE  ResultInv'
    <3>1. s \in Status /\ s \notin {"success", "partial"}
      BY DEF Status
    <3> QED BY <1>2, <2>1, <2>4, <3>1, FailureTrue
  <2> QED BY <1>10, <2>2, <2>3, <2>4 DEF GraphSubmit
<1> QED BY <1>4, <1>5, <1>8, <1>9, <1>10 DEF Run

LEMMA SlotResults == ASSUME OutboxInv, ResultInv, Slot PROVE ResultInv'
<1> USE DEF ui, job
<1>1. worker = "done"
  BY DEF Slot, SendBatchResult, SendBatchFinished, OutboxInv, Matched
<1>2. CASE SendBatchResult
  BY <1>1, <1>2, ResultsKept DEF SendBatchResult, ResultInv, Addressed
<1>3. CASE SendBatchFinished
  BY <1>1, <1>3, ResultsKept DEF SendBatchFinished, ResultInv, Addressed
<1> QED BY <1>2, <1>3 DEF Slot

LEMMA NextOutbox == OutboxInv /\ [Next]_vars => OutboxInv'
<1>1. ASSUME OutboxInv, UNCHANGED vars PROVE OutboxInv'
  BY <1>1 DEF vars, ui, job, mail, OutboxInv, Typed, Asked, Bound, Matched, Counted,
              SentAsConfirmed, Within, Sender
<1> QED BY <1>1, OutboxUser, OutboxRun, OutboxSlot DEF Next

\* send_account and the errors the clients classify: a success or a partial one
\* names exactly who did not get the mail, and any failure but a lost answer means
\* that nobody got it.
THEOREM ResultsHold == Spec => []ResultsTruthful
<1>1. OutboxInv /\ ResultInv /\ [Next]_vars => ResultInv'
  <2>1. ASSUME ResultInv, UNCHANGED vars PROVE ResultInv'
    BY <2>1, ResultsKept DEF vars, ui, job, ResultInv, Addressed
  <2> QED BY <2>1, UserResults, RunResults, SlotResults DEF Next
<1>2. ResultInv => ResultsTruthful
  BY DEF ResultInv
<1> QED BY OutboxInit, InitResults, NextOutbox, <1>1, <1>2, PTL DEF Spec
=============================================================================
