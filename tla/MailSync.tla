------------------------------ MODULE MailSync ------------------------------
(***************************************************************************)
(* One account's mail on its way from the server to the store, fetch after  *)
(* fetch: FetchService.fetch_account with the three clients' fetch_messages, *)
(* the automation rules in between and MessageRepository at the end.  Mail  *)
(* arrives and other programs delete mail meanwhile; connections break and   *)
(* the program is killed.                                                   *)
(*                                                                         *)
(* A mail is its number in the order of arrival, which is also its IMAP UID, *)
(* its POP3 UIDL or its Graph id, and its place in Graph's newest-first      *)
(* listing.  A fetch goes through its folders in order; the folder mail is   *)
(* moved to by an action is not one of them.                                *)
(***************************************************************************)
EXTENDS Integers, Sequences, SequencesExt, FiniteSets

CONSTANTS NMails,     \* bound: mails that ever arrive
          NFolders,   \* bound: folders of a request
          Page,       \* messages of a Graph page (50 in the code)
          Matched,    \* mails that match the request's patterns
          Ruled,      \* mails that match the automation rule
          Setups,     \* records [protocol, folders, limit, post, rule, message]
          MaxFaults   \* bound: connections broken, errors raised, crashes

Mails   == 1..NMails
Folders == 1..NFolders

Protocols == {"imap", "pop3", "pop3 numbers", "graph"}
Actions   == {"none", "read", "move", "delete"}

ASSUME SyncAssumption ==
  /\ NMails \in Nat \ {0} /\ NFolders \in Nat \ {0} /\ Page \in Nat \ {0}
  /\ MaxFaults \in Nat
  /\ Matched \subseteq Mails /\ Ruled \subseteq Mails
  /\ Setups \subseteq [protocol : Protocols, folders : Folders, limit : Nat,
                       post : Actions, rule : Actions, message : [Mails -> Mails]]
  /\ \A s \in Setups : s.protocol \in {"pop3", "pop3 numbers"} => s.folders = 1

VARIABLES
  setup,    \* protocol, number of folders, limit (0: unlimited), post action of
            \* the request, action of the rule, Message-ID of each mail
  server,   \* mails in the scanned folders of the server
  folder,   \* the folder of each mail that has arrived, 0 before
  rows,     \* the table `messages`
  pc,       \* where fetch_account is
  place,    \* the folder being fetched
  older,    \* Graph: the next page lists mails older than this one; 0: no page
  todo,     \* what is listed and not downloaded yet
  got,      \* messages of the FetchResult
  done,     \* how many of them the rules have seen
  marked,   \* POP3: deletions the server commits at QUIT
  attempt,  \* of _fetch_messages_once
  faults,   \* counts towards MaxFaults
  tried,    \* history: mails of Ruled the rule was applied to
  notified, \* history: how often a webhook told of a mail
  deleted,  \* history: mails the program deleted on the server
  lost      \* history: how often a downloaded mail was thrown away by a crash, an
            \* exception in fetch_account or an error of IMAP

listing == <<place, older, todo>>
history == <<tried, notified, deleted, lost>>
vars == <<setup, server, folder, rows, pc, listing, got, done, marked, attempt,
          faults, history>>

IsPop      == setup.protocol \in {"pop3", "pop3 numbers"}
Newest     == NMails + 1
NoteCap    == MaxFaults + 2   \* `notified` counts up to here

Rows == [folder : Folders, message : Mails, tid : Mails]

TypeOK ==
  /\ setup \in Setups
  /\ server \subseteq Mails /\ folder \in [Mails -> 0..NFolders]
  /\ rows \subseteq Rows
  /\ pc \in {"idle", "listing", "downloading", "rules", "closing"}
  /\ place \in Folders /\ older \in 0..Newest
  /\ todo \in Seq(Mails) /\ got \in Seq(Mails) /\ done \in 0..Len(got)
  /\ marked \subseteq server
  /\ attempt \in {1, 2} /\ faults \in 0..MaxFaults
  /\ tried \subseteq Ruled /\ notified \in [Mails -> 0..NoteCap]
  /\ deleted \subseteq Mails /\ lost \in [Mails -> 0..MaxFaults]

Init ==
  /\ setup \in Setups
  /\ server = {} /\ folder = [m \in Mails |-> 0] /\ rows = {}
  /\ pc = "idle" /\ place = 1 /\ older = 0 /\ todo = <<>>
  /\ got = <<>> /\ done = 0 /\ marked = {} /\ attempt = 1 /\ faults = 0
  /\ tried = {} /\ notified = [m \in Mails |-> 0]
  /\ deleted = {} /\ lost = [m \in Mails |-> 0]

-----------------------------------------------------------------------------
(* The server.                                                              *)

Fault == faults < MaxFaults /\ faults' = faults + 1

\* Mails arrive in the order of their numbers.
Arrive ==
  \E m \in Mails, f \in 1..setup.folders :
    /\ folder[m] = 0 /\ \A n \in 1..(m - 1) : folder[n] # 0
    /\ folder' = [folder EXCEPT ![m] = f]
    /\ server' = server \cup {m}
    /\ UNCHANGED <<setup, rows, pc, listing, got, done, marked, attempt, faults, history>>

\* Another mail program deletes; a POP3 session keeps the mailbox locked.
OtherDeletes ==
  /\ IsPop => pc = "idle"
  /\ \E m \in server : server' = server \ {m}
  /\ UNCHANGED <<setup, folder, rows, pc, listing, got, done, marked, attempt, faults, history>>

-----------------------------------------------------------------------------
(* What the store knows.                                                    *)

\* transport_id: without UIDL a POP3 client uses the number in the session.
Tid(m) == IF setup.protocol = "pop3 numbers"
          THEN Cardinality({n \in server : n <= m}) ELSE m

NeverKnown(m) == FALSE  \* slip: the identifiers are not handed to the request
\* known_transport_ids, read once when the client is made; nothing but the
\* end of the fetch writes the rows of its account.
IsKnown(m) == \E r \in rows : r.folder = folder[m] /\ r.tid = Tid(m)

\* The rows after add_many(got): a message is its folder and its Message-ID,
\* and the last one with the same overwrites the transport id.
SameRow(m, n) == folder[m] = folder[n] /\ setup.message[m] = setup.message[n]
Upserted ==
  LET last == {i \in DOMAIN got : \A j \in DOMAIN got : j > i => ~SameRow(got[i], got[j])}
      new  == {[folder |-> folder[got[i]], message |-> setup.message[got[i]],
                tid |-> Tid(got[i])] : i \in last}
  IN  new \cup {r \in rows : \A n \in new : r.folder # n.folder \/ r.message # n.message}

Stored(m) == \E r \in rows : r.folder = folder[m] /\ r.message = setup.message[m]

-----------------------------------------------------------------------------
(* fetch_messages of the clients.                                           *)

Begin ==
  /\ pc = "idle"
  /\ pc' = "listing" /\ place' = 1 /\ older' = Newest
  /\ UNCHANGED <<setup, server, folder, rows, todo, attempt, got, done, marked, faults, history>>

Limited == setup.limit > 0
Left    == setup.limit - Len(got)
Room    == Limited => Left > 0

NewestFirst(S) ==
  [i \in 1..Cardinality(S) |-> CHOOSE m \in S : Cardinality({n \in S : n >= m}) = i]
FirstOf(s, n)  == SubSeq(s, 1, IF n < Len(s) THEN n ELSE Len(s))
Allowed(s)     == IF Limited THEN FirstOf(s, Left) ELSE s

InFolder == {m \in server : folder[m] = place}

SliceFirst == SelectSeq(Allowed(NewestFirst(InFolder)),
                        LAMBDA m : ~IsKnown(m))  \* slip: slices, then filters
UnknownNewest == Allowed(NewestFirst({m \in InFolder : ~IsKnown(m)}))

\* IMAP and POP3 list everything, drop what is known and take the newest.
ListUnknown ==
  /\ pc = "listing" /\ setup.protocol # "graph"
  /\ todo' = UnknownNewest /\ older' = 0 /\ pc' = "downloading"
  /\ UNCHANGED <<setup, server, folder, rows, place, got, done, marked, attempt, faults, history>>

\* Graph lists page by page; $top is min(remaining, 50) on the first page and
\* the next link keeps it.  A page holds its messages' contents.
PageSize == IF older = Newest /\ Limited /\ Left < Page THEN Left ELSE Page
Older    == {m \in InFolder : m < older}
PageNow  == FirstOf(NewestFirst(Older), PageSize)

HasKnown(page) == \E i \in DOMAIN page : IsKnown(page[i])

ListPage ==
  /\ pc = "listing" /\ setup.protocol = "graph"
  /\ todo' = Allowed(NewestFirst({m \in Range(PageNow) : ~IsKnown(m)}))
  /\ older' = IF HasKnown(PageNow) \/ Len(PageNow) = Cardinality(Older)
              THEN 0 ELSE PageNow[Len(PageNow)]
  /\ pc' = "downloading"
  /\ UNCHANGED <<setup, server, folder, rows, place, got, done, marked, attempt, faults, history>>

\* SELECT or SEARCH refused, or the listing of the special folders failed.
SkipFolder ==
  /\ pc = "listing"
  /\ setup.protocol = "imap" \/ (setup.protocol = "graph" /\ place > 1)
  /\ Fault
  /\ todo' = <<>> /\ older' = 0 /\ pc' = "downloading"
  /\ UNCHANGED <<setup, server, folder, rows, place, got, done, marked, attempt, history>>

Acts(m)    == m \in Matched /\ setup.post # "none"
Removes(a) == a \in {"move", "delete"}

\* An IMAP or Graph action on mail m is carried out.
Applied(a, m) ==
  /\ server'  = IF Removes(a) THEN server \ {m} ELSE server
  /\ deleted' = IF a = "delete" /\ m \in server THEN deleted \cup {m} ELSE deleted
NotApplied == UNCHANGED <<server, deleted>>

\* POP3 carries out deletions only, at QUIT.  IMAP does not look at the answer.
PostAction(m) ==
  \/ ~Acts(m) /\ NotApplied /\ UNCHANGED marked
  \/ /\ Acts(m) /\ IsPop /\ NotApplied
     /\ marked' = IF setup.post = "delete" THEN marked \cup {m} ELSE marked
  \/ Acts(m) /\ ~IsPop /\ m \in server /\ Applied(setup.post, m) /\ UNCHANGED marked
  \/ Acts(m) /\ setup.protocol = "imap" /\ NotApplied /\ UNCHANGED marked

\* Graph has the contents from the page and IMAP from the batch, even of a message
\* that another client has deleted since.
Download ==
  /\ pc = "downloading" /\ todo # <<>>
  /\ Head(todo) \in server \/ ~IsPop
  /\ got' = Append(got, Head(todo)) /\ todo' = Tail(todo)
  /\ PostAction(Head(todo))
  /\ UNCHANGED <<setup, folder, rows, pc, place, older, done, attempt, faults, tried, notified, lost>>

\* IMAP leaves out a message the server does not send: deleted or refused.
SkipMail ==
  /\ pc = "downloading" /\ todo # <<>> /\ setup.protocol = "imap"
  /\ IF Head(todo) \in server THEN Fault ELSE UNCHANGED faults
  /\ todo' = Tail(todo)
  /\ UNCHANGED <<setup, server, folder, rows, pc, place, older, got, done, marked, attempt, history>>

-----------------------------------------------------------------------------
(* The end of fetch_messages.                                               *)

\* fetch_messages returns, and its local variables are gone.
Return == place' = 1 /\ older' = 0 /\ todo' = <<>> /\ attempt' = 1


NextListing ==
  /\ pc = "downloading" /\ todo = <<>>
  /\ \/ /\ Room /\ older > 0
        /\ pc' = "listing" /\ UNCHANGED <<listing, attempt>>
     \/ /\ Room /\ older = 0 /\ place < setup.folders
        /\ pc' = "listing" /\ place' = place + 1 /\ older' = Newest
        /\ UNCHANGED <<todo, attempt>>
     \/ /\ ~Room \/ (older = 0 /\ place = setup.folders)
        /\ pc' = IF got = <<>> THEN "closing" ELSE "rules"
        /\ Return
  /\ UNCHANGED <<setup, server, folder, rows, got, done, marked, faults, history>>

\* Downloaded messages are thrown away.
Throw == lost' = [m \in Mails |-> IF m \in Range(got) THEN lost[m] + 1 ELSE lost[m]]

\* A timeout without a post action: IMAP starts over, once.
Retry ==
  /\ pc \in {"listing", "downloading"} /\ setup.protocol = "imap"
  /\ setup.post = "none" /\ attempt = 1 /\ Fault
  /\ attempt' = 2 /\ pc' = "listing" /\ place' = 1 /\ older' = Newest
  /\ todo' = <<>> /\ got' = <<>>
  /\ UNCHANGED <<setup, server, folder, rows, done, marked, history>>

\* Any other error ends the fetch: POP3 and Graph return what they have, IMAP
\* returns no messages.
Nothing == <<>>  \* slip: the result of an error never has messages
Partial == IF setup.protocol = "imap" THEN <<>> ELSE got

Break ==
  /\ pc \in {"listing", "downloading"} /\ Fault
  /\ got' = Partial
  /\ IF setup.protocol = "imap" THEN Throw ELSE UNCHANGED lost
  /\ pc' = IF Partial = <<>> THEN "closing" ELSE "rules"
  /\ Return
  /\ UNCHANGED <<setup, server, folder, rows, done, marked, tried, notified, deleted>>

\* Graph refuses an action, always when the mail is gone: the fetch ends with
\* what it has, this mail included.
GraphRefuses ==
  /\ pc = "downloading" /\ todo # <<>> /\ setup.protocol = "graph"
  /\ Acts(Head(todo))
  /\ IF Head(todo) \in server THEN Fault ELSE UNCHANGED faults
  /\ got' = Append(got, Head(todo)) /\ Return /\ pc' = "rules"
  /\ UNCHANGED <<setup, server, folder, rows, done, marked, history>>

-----------------------------------------------------------------------------
(* fetch_account after fetch_messages.                                      *)

\* AutomationService.process on one message with one rule: its action, then its
\* webhook; an exception of the action skips the webhook.  POP3 has no actions.
RunRules ==
  /\ pc = "rules" /\ done < Len(got)
  /\ done' = done + 1
  /\ LET m == got[done + 1]
     IN  \/ m \notin Ruled /\ NotApplied /\ UNCHANGED <<tried, notified>>
         \/ /\ m \in Ruled
            /\ tried' = tried \cup {m}
            /\ NotApplied \/ (~IsPop /\ m \in server /\ Applied(setup.rule, m))
            /\ \/ UNCHANGED notified
               \/ notified' = [notified EXCEPT ![m] = IF @ < NoteCap THEN @ + 1 ELSE @]
  /\ UNCHANGED <<setup, folder, rows, pc, listing, got, marked, attempt, faults, lost>>

FirstSeen == done > 0  \* slip: a failed rule ends the loop over the messages
AllSeen   == done = Len(got)

Store ==
  /\ pc = "rules" /\ AllSeen
  /\ rows' = Upserted
  /\ pc' = "closing" /\ got' = <<>> /\ done' = 0
  /\ UNCHANGED <<setup, server, folder, listing, marked, attempt, faults, history>>

\* The EML store, the rules' settings or the database raise: nothing is stored.
Raise ==
  /\ pc = "rules" /\ Fault
  /\ Throw /\ got' = <<>> /\ done' = 0 /\ pc' = "closing"
  /\ UNCHANGED <<setup, server, folder, rows, listing, marked, attempt, tried, notified, deleted>>

\* client.close in the finally: POP3's QUIT commits the deletions, or is lost.
Close ==
  /\ pc = "closing"
  /\ pc' = "idle"
  /\ \/ server' = server \ marked /\ deleted' = deleted \cup marked
     \/ NotApplied
  /\ marked' = {}
  /\ UNCHANGED <<setup, folder, rows, listing, got, done, attempt, faults, tried, notified, lost>>

\* The program is killed; a POP3 server forgets a session without QUIT.
Crash ==
  /\ pc # "idle" /\ Fault
  /\ Throw /\ got' = <<>> /\ Return /\ pc' = "idle" /\ done' = 0 /\ marked' = {}
  /\ UNCHANGED <<setup, server, folder, rows, tried, notified, deleted>>

-----------------------------------------------------------------------------
Fetch == \/ Begin \/ ListUnknown \/ ListPage \/ Download \/ SkipMail \/ NextListing
         \/ GraphRefuses \/ RunRules \/ Store \/ Close
World == Arrive \/ OtherDeletes
Fail  == SkipFolder \/ Retry \/ Break \/ Raise \/ Crash

Next == Fetch \/ World \/ Fail

\* Schedules and users fetch again and again, and every socket has a timeout.
Spec == Init /\ [][Next]_vars /\ WF_vars(Fetch)

-----------------------------------------------------------------------------
(* Properties.                                                              *)

\* The server gave the mail an identity of its own, so the store can know it.
Distinct(m) ==
  /\ setup.protocol # "pop3 numbers"
  /\ \A n \in Mails \ {m} : folder[n] = folder[m] => setup.message[n] # setup.message[m]

\* Every stored mail the rule is about was put to the rule: a stored mail is
\* known and never comes back, so what is stored before its rules ran is
\* forgotten by them (fetch_account runs process before add_many).
NoRuleForgotten == \A m \in Ruled : folder[m] # 0 /\ Distinct(m) /\ Stored(m) => m \in tried

\* The webhook tells of a mail once, and once more only for every time the mail was
\* thrown away between the rules and the store (known_transport_ids).
NotifiedOnce == \A m \in Mails : Distinct(m) => notified[m] <= 1 + lost[m]

\* A mail the program has deleted on the server is stored, or on its way to the
\* store, unless a crash, an exception in fetch_account or an error of IMAP threw
\* it away: the actions run before add_many (_apply_post_action, close).  An error
\* of POP3 or Graph keeps what was downloaded.
DeletedMailKept ==
  \A m \in deleted : Stored(m) \/ m \in Range(got) \/ lost[m] > 0

\* Fetched again and again, a mail that stays on the server is stored at last,
\* limited or not.  IMAP and POP3 take the newest of the unknown ones, so each
\* fetch eats into the rest; copies of one Message-ID can hold up a limited
\* fetch for ever.  Graph needs an unlimited request and no fault, because it
\* stops at the first known message.
Drains == setup.protocol \in {"imap", "pop3"}
          /\ (Limited => \A m \in Mails : setup.message[m] = m)
BacklogDrains ==
  Drains \/ [](setup.protocol = "graph" /\ ~Limited /\ faults = 0) =>
    \A m \in Mails : m \in server ~> Stored(m) \/ m \notin server

\* outlook_graph.py: once a known message appears in a newest-first page, the
\* older pages hold nothing that is not stored.
OlderPagesCached ==
  [][ListPage /\ HasKnown(PageNow) =>
       \A m \in Older : m \notin Range(PageNow) => Stored(m)]_vars
=============================================================================
