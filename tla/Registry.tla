------------------------------ MODULE Registry ------------------------------
(***************************************************************************)
(* The registry of MailDesk: the accounts, groups, tags, proxies,          *)
(* webhooks, rules, schedules and settings of the SQLite store, the main   *)
(* window that edits them, the schedules that book batches and the router  *)
(* that gives each booked account its route.  Sources: storage/repositories*)
(* and storage/enterprise_repositories, services/scheduler_service and     *)
(* services/client_factory, gui/main_window and the dialogs it opens.      *)
(*                                                                         *)
(* Every repository call is one transaction; a handler of the main window  *)
(* that makes several calls makes them one after another, and the ones     *)
(* before an exception stay.  Identifiers are rowids without AUTOINCREMENT.*)
(* The batch of accounts that is fetched is kept to what the registry      *)
(* shares with it: who is booked, with which binding, over which route.    *)
(* FetchBatch has the rest.                                                *)
(***************************************************************************)
EXTENDS Naturals, FiniteSets, Sequences, FiniteSetsExt, SequencesExt

CONSTANTS Boxes,     \* mail addresses
          Configs,   \* what an import says about a mailbox: secrets, ports, names
          Misread,   \* the configurations that took a client id for a password
          Files,     \* the texts an import reads, as sequences of lines
          Provider,  \* of a box: Outlook, another preset, or an own server
          Tags, Proxies, Hooks, Rules,
          Forms,     \* what the settings dialog may be filled with
          MaxId,     \* bound: rowids of accounts and of groups
          Sessions,  \* bound: the store a session opens, the operations it uses, and how many
          None, All, Direct

VARIABLES
  groups,     \* rowid -> parent or None
  accounts,   \* rowid -> row
  proxies, tags, hooks,
  rules,      \* name -> webhook or None
  schedules,  \* rowid of a group or All -> enabled, due
  pool,       \* proxy_fetch_enabled as it is stored
  asked,      \* as the user last had it stored
  shown,      \* _proxy_fetch_enabled of the window and its dashboard
  saving,     \* the handler of settings that has the window's thread: its form and its next step
  selected,   \* current item of the group tree, All the root, None the ungrouped
  workers,    \* booked account -> binding it was booked with, what its thread read, its route
  missed,     \* accounts of schedules marked as run that were not booked
  session, edits  \* the session under way, its operations so far

store  == <<groups, accounts, proxies, tags, hooks, rules, schedules>>
switch == <<pool, asked>>
gui    == <<shown, saving, selected>>
regVars == <<store, switch, gui, workers, missed, session, edits>>

Ids     == 1..MaxId
Protos  == {"imap", "pop3", "graph"}
\* EmailAccount as a row: host and token are the mailbox they belong to.
Row     == [box: Boxes, proto: Protos, config: Configs, host: Boxes, token: Boxes,
            group: Ids \cup {None}, proxy: Proxies \cup {None}, tags: SUBSET Tags]
\* What a line or the add dialog becomes.
Entry   == [box: Boxes, proto: Protos, config: Configs]
\* A line of fields: its address, how many fields it has, the protocol its fourth
\* field means when that is a port, and whose client id comes with a token.
Line    == [box: Boxes \cup {None}, fields: 1..5, server: {None, "imap", "pop3"},
            grant: {None, "microsoft", "google"}, config: Configs]
Form    == [pool: BOOLEAN, list: Proxies \cup {"none", "malformed"}, hook: Hooks \cup {None},
            rule: Rules \cup {None}, ruleHook: Hooks \cup {None, "new"}, schedule: BOOLEAN]
\* The transactions of show_settings after the first.
Steps   == {"proxies", "hook", "rule", "schedule", "show"}
Partial(f, S, T) == DOMAIN f \subseteq S /\ \A x \in DOMAIN f : f[x] \in T

\* A group is older than those below it.
Forest(gs) == \A g \in DOMAIN gs : gs[g] = None \/ (gs[g] \in DOMAIN gs /\ gs[g] < g)

\* The unique index on address and protocol.
OneEach(rows) ==
  \A a, b \in DOMAIN rows : rows[a].box = rows[b].box /\ rows[a].proto = rows[b].proto => a = b

ASSUME RegistryAssumption ==
  /\ MaxId \in Nat /\ Files \subseteq Seq(Line) /\ Forms \subseteq Form
  /\ Provider \in [Boxes -> {"outlook", "preset", "own"}]
  /\ Misread \subseteq Configs
  /\ None \notin Proxies \cup Hooks \cup Rules \cup 1..MaxId /\ All \notin 1..MaxId
  /\ Direct \notin Proxies \cup {None}

\* A session opens a store that others have left.
ASSUME SessionsAssumption ==
  \A s \in Sessions :
    /\ s.groups \in [DOMAIN s.groups -> Ids \cup {None}] /\ DOMAIN s.groups \subseteq Ids
    /\ Forest(s.groups)
    /\ DOMAIN s.schedules \subseteq DOMAIN s.groups \cup {All} /\ s.proxies \subseteq Proxies
    /\ Partial(s.accounts, Ids, Row) /\ OneEach(s.accounts)
    /\ \A a \in DOMAIN s.accounts :
         s.accounts[a].host = s.accounts[a].box /\ s.accounts[a].token = s.accounts[a].box

\* What the window finds when the program starts.
Init ==
  /\ session \in Sessions
  /\ groups = session.groups /\ accounts = session.accounts
  /\ proxies = session.proxies /\ schedules = session.schedules
  /\ tags = {} /\ hooks = {} /\ rules = <<>>
  /\ pool = FALSE /\ asked = pool /\ shown = pool /\ saving = None /\ selected = All
  /\ workers = <<>> /\ missed = {} /\ edits = 0

\* The user acts while no handler has the thread of the window.
Edit(use) == /\ saving = None
             /\ use \in session.uses /\ edits < session.edits
             /\ edits' = edits + 1 /\ UNCHANGED session
-----------------------------------------------------------------------------
(***************************************************************************)
(* Groups.                                                                 *)
(***************************************************************************)
\* The next rowid: one more than the largest in use.
Follows(i, f) == (\A j \in DOMAIN f : j < i) /\ (i = 1 \/ i - 1 \in DOMAIN f)
Fresh(f)      == 1 + Max({0} \cup DOMAIN f)
With(f, i, v) == [j \in DOMAIN f \cup {i} |-> IF j = i THEN v ELSE f[j]]

\* A group with all its descendants: what every closed set around it holds.
Closed(S) == \A c \in DOMAIN groups : groups[c] \in S => c \in S
Below(g)  == {c \in DOMAIN groups :
                \A S \in SUBSET DOMAIN groups : g \in S /\ Closed(S) => c \in S}

\* The accounts a view or a schedule takes in.
Members(g) ==
  CASE g = All  -> DOMAIN accounts
    [] g = None -> {a \in DOMAIN accounts : accounts[a].group = None}
    [] OTHER    -> {a \in DOMAIN accounts : accounts[a].group \in Below(g)}

\* The table of accounts, before its search and filters.
Viewed == Members(selected)

Without(f, S) == [x \in DOMAIN f \ S |-> f[x]]

\* Slip: the tree keeps its current rowid.
KeptItem(left) == selected

\* The tree is filled anew and falls back to its root when the item is gone.
Reselected(left) == IF selected \in left \cup {All, None} THEN selected ELSE All

SelectGroup ==
  /\ \E g \in DOMAIN groups \cup {All, None} : g # selected /\ selected' = g
  /\ Edit("groups") /\ UNCHANGED <<store, switch, shown, saving, workers, missed>>

\* The context menu of the tree: a group under the item, or under the root.
CreateGroup ==
  /\ \E i \in Ids, p \in DOMAIN groups \cup {None} :
       Follows(i, groups) /\ groups' = With(groups, i, p)
  /\ Edit("groups")
  /\ UNCHANGED <<accounts, proxies, tags, hooks, rules, schedules, switch, gui, workers, missed>>

\* Foreign keys: subgroups and schedules go with the group, accounts stay.
Unfiled(gone) == [a \in DOMAIN accounts |->
  IF accounts[a].group \in gone THEN [accounts[a] EXCEPT !.group = None] ELSE accounts[a]]

DeleteGroup ==
  /\ \E g \in DOMAIN groups :
       LET gone == Below(g)
       IN  /\ groups' = Without(groups, gone)
           /\ schedules' = Without(schedules, gone)
           /\ accounts' = Unfiled(gone)
           /\ selected' = Reselected(DOMAIN groups \ gone)
  /\ Edit("groups") /\ UNCHANGED <<proxies, tags, hooks, rules, switch, shown, saving, workers, missed>>
-----------------------------------------------------------------------------
(***************************************************************************)
(* Accounts: import, filing, deletion.                                     *)
(***************************************************************************)
\* _account_from_parts: server and port, else a client id with its token, else the
\* password of a known provider, or of an own domain whose servers are then tried.
HasServer(l) == l.fields >= 4 /\ l.server # None
Parsed(l) ==
  [box |-> l.box, config |-> l.config,
   proto |-> IF HasServer(l) THEN l.server ELSE IF l.grant = "microsoft" THEN "graph" ELSE "imap"]

Unreadable(l) ==
  \/ l.box = None
  \/ /\ ~HasServer(l) /\ l.grant = None
     /\ \/ l.fields < 2
        \/ Provider[l.box] = "outlook" /\ l.fields >= 4
        \/ Provider[l.box] = "own" /\ l.fields # 2

\* The preview has a row for each line; a line that cannot be read is one that
\* cannot be ticked, and spoils no other.
Preview(file) == {i \in DOMAIN file : ~Unreadable(file[i])}
Kept(file)    == (SUBSET Preview(file)) \ {{}}

\* The row of the same address and protocol; for a Graph account, failing
\* that, an Outlook row of IMAP whose password is a client id.
Existing(rows, e) ==
  LET Of(p) == {i \in DOMAIN rows : rows[i].box = e.box /\ rows[i].proto = p}
  IN  IF Of(e.proto) # {} \/ e.proto # "graph" THEN Of(e.proto)
      ELSE {i \in Of("imap") : rows[i].config \in Misread}

Same(row, e) == /\ row.proto = e.proto /\ row.config = e.config
                /\ row.host = e.box /\ row.token = e.box

Inserted(e) == [box |-> e.box, proto |-> e.proto, config |-> e.config, host |-> e.box,
                token |-> e.box, group |-> None, proxy |-> None, tags |-> {}]

\* Slip: the known row is replaced.
Replaced(row, e) == Inserted(e)

\* Group, proxy and tags of a known account stay what the user made them.
Updated(row, e) ==
  [row EXCEPT !.proto = e.proto, !.config = e.config, !.host = e.box, !.token = e.box]

AddOne(rows, e) ==
  IF Existing(rows, e) = {} THEN With(rows, Fresh(rows), Inserted(e))
  ELSE LET i == CHOOSE i \in Existing(rows, e) : TRUE
       IN  IF Same(rows[i], e) THEN rows ELSE [rows EXCEPT ![i] = Updated(@, e)]

\* A file, a pasted text or the add dialog, confirmed: one transaction, after which
\* the tree goes to its root.
AddMany ==
  /\ \E file \in Files : \E kept \in Kept(file) :
       LET Take(rows, i) == IF i \in kept THEN AddOne(rows, Parsed(file[i])) ELSE rows
           rows == FoldLeftDomain(Take, accounts, file)
       IN  DOMAIN rows \subseteq Ids /\ accounts' = rows
  /\ selected' = All
  /\ Edit("accounts")
  /\ UNCHANGED <<groups, proxies, tags, hooks, rules, schedules, switch, shown, saving,
                 workers, missed>>

\* Accounts moved or bound together.
File(S, field, value) ==
  accounts' = [a \in DOMAIN accounts |->
    IF a \in S THEN [accounts[a] EXCEPT ![field] = value] ELSE accounts[a]]

\* Every refresh of the table takes the ticks off the rows that left it.
Ticked == (SUBSET Viewed) \ {{}}

MoveAccounts ==
  /\ \E S \in Ticked, g \in DOMAIN groups \cup {None} : File(S, "group", g)
  /\ Edit("filing")
  /\ UNCHANGED <<groups, proxies, tags, hooks, rules, schedules, switch, gui, workers, missed>>

BindProxy ==
  /\ \E S \in Ticked, p \in proxies \cup {None} : File(S, "proxy", p)
  /\ Edit("filing")
  /\ UNCHANGED <<groups, proxies, tags, hooks, rules, schedules, switch, gui, workers, missed>>

\* A new tag is assigned at once; a known one by its tick mark on each account.
Tagged(row, t, on) == [row EXCEPT !.tags = IF on THEN @ \cup {t} ELSE @ \ {t}]

TagAccounts ==
  /\ \E S \in Ticked, t \in Tags, on \in BOOLEAN :
       /\ t \notin tags => on
       /\ tags' = tags \cup {t}
       /\ accounts' = [a \in DOMAIN accounts |->
                         IF a \in S THEN Tagged(accounts[a], t, on) ELSE accounts[a]]
  /\ Edit("filing")
  /\ UNCHANGED <<groups, proxies, hooks, rules, schedules, switch, gui, workers, missed>>

\* Refused while one of them is booked.  (FetchBatch has the confirmation box
\* between the test and the deletion.)
DeleteRows(S) ==
  /\ S \cap DOMAIN workers = {}
  /\ accounts' = Without(accounts, S)
  /\ Edit("accounts")
  /\ UNCHANGED <<groups, proxies, tags, hooks, rules, schedules, switch, gui, workers, missed>>
-----------------------------------------------------------------------------
(***************************************************************************)
(* Settings.                                                               *)
(***************************************************************************)
\* The workers that have no route yet, and every answer about the switch a user may
\* expect of theirs: as it was when they were booked, and whatever it became since.
Tell(on) == workers' = [a \in DOMAIN workers |->
  IF workers[a].via = None THEN [workers[a] EXCEPT !.told = @ \cup {on}] ELSE workers[a]]

\* Every call of a handler is a transaction, and the threads of the pool go on
\* between them.
Saves(on, form, step) == saving' = [on |-> on, form |-> form, step |-> step]
At(step)   == saving # None /\ saving.step = step
GoOn(step) == /\ saving' = [saving EXCEPT !.step = step]
              /\ UNCHANGED <<switch, shown, selected, workers, missed, session, edits>>

\* The switch of the dashboard is stored, then shown; when the store fails nothing changes.
TogglePool ==
  /\ pool' = ~shown /\ asked' = ~shown /\ Tell(~shown) /\ Saves(~shown, None, "show")
  /\ Edit("settings") /\ UNCHANGED <<store, shown, selected, missed>>

\* The dialog for one proxy, reached from the settings or the dashboard: it lets
\* only a complete one through, and the store refuses one it has.
Entered == Proxies \ proxies

AddProxy ==
  /\ \E p \in Entered : proxies' = proxies \cup {p}
  /\ Edit("settings")
  /\ UNCHANGED <<groups, accounts, tags, hooks, rules, schedules, switch, gui, workers, missed>>

\* EnterpriseSettingsDialog.accept: what the dialog lets through.
Accepts(v) == /\ v.ruleHook = "new" => v.hook # None
              /\ v.ruleHook \in Hooks => v.ruleHook \in hooks

\* show_settings: the values are stored and the throttle is replaced, then come the
\* proxies, the webhook, the rule and the schedule, and the window is given the
\* values only at the very end.
StoreSettings(v) ==
  /\ Accepts(v)
  /\ pool' = v.pool /\ asked' = v.pool /\ Tell(v.pool) /\ Saves(v.pool, v, "proxies")
  /\ Edit("settings") /\ UNCHANGED <<store, shown, selected, missed>>

\* A list that is malformed raises; a proxy the store refuses is skipped.
SaveProxies ==
  /\ At("proxies") /\ saving.form.list # "malformed"
  /\ proxies' \in {proxies, proxies \cup ({saving.form.list} \cap Proxies)}
  /\ GoOn("hook")
  /\ UNCHANGED <<groups, accounts, tags, hooks, rules, schedules>>

\* Names are unique: the second webhook or rule of a name raises.
SaveHook ==
  /\ At("hook") /\ saving.form.hook \notin hooks
  /\ hooks' = hooks \cup ({saving.form.hook} \ {None})
  /\ GoOn("rule")
  /\ UNCHANGED <<groups, accounts, proxies, tags, rules, schedules>>

SaveRule ==
  /\ At("rule") /\ saving.form.rule \notin DOMAIN rules
  /\ rules' = IF saving.form.rule = None THEN rules
              ELSE With(rules, saving.form.rule,
                        IF saving.form.ruleHook = "new" THEN saving.form.hook ELSE saving.form.ruleHook)
  /\ GoOn("schedule")
  /\ UNCHANGED <<groups, accounts, proxies, tags, hooks, schedules>>

\* One schedule for a group, or for all accounts when no group is selected; every
\* save puts its next run off.
Scheduled == IF selected = None THEN All ELSE selected
Upserted(g, on) == With(schedules, g, [enabled |-> on, due |-> FALSE])

SaveSchedule ==
  /\ At("schedule")
  /\ schedules' = Upserted(Scheduled, saving.form.schedule)
  /\ GoOn("show")
  /\ UNCHANGED <<groups, accounts, proxies, tags, hooks, rules>>

\* The handler ends with the window showing the switch.
ShowSwitch ==
  /\ At("show")
  /\ shown' = saving.on /\ saving' = None
  /\ UNCHANGED <<store, switch, selected, workers, missed, session, edits>>

\* Any step of show_settings may raise: a box, and what is stored stays stored.
SaveFails ==
  /\ saving # None /\ saving.form # None
  /\ saving' = None
  /\ UNCHANGED <<store, switch, shown, selected, workers, missed, session, edits>>
-----------------------------------------------------------------------------
(***************************************************************************)
(* Booking and routes.                                                     *)
(***************************************************************************)
Booked(S) == [a \in S |-> [bound |-> accounts[a].proxy, asks |-> FALSE, via |-> None,
                           told |-> {asked}]]

\* The user fetches those ticked, without any those of the table, or the one shown.
StartFetch ==
  /\ workers = <<>>
  /\ \E S \in Ticked : workers' = Booked(S)
  /\ Edit("fetch") /\ UNCHANGED <<store, switch, gui, missed>>

\* The time of an enabled schedule comes.
Elapse ==
  /\ \E s \in DOMAIN schedules : /\ schedules[s].enabled /\ ~schedules[s].due
                                 /\ schedules' = [schedules EXCEPT ![s].due = TRUE]
  /\ UNCHANGED <<groups, accounts, proxies, tags, hooks, rules, switch, gui, workers, missed, session, edits>>

\* _run_due_schedules, every 30 seconds: the first due schedule with accounts books
\* them, the others find workers registered and book nothing, all are marked.
Due == {s \in DOMAIN schedules : schedules[s].enabled /\ schedules[s].due}

Marked(S) == [s \in DOMAIN schedules |->
                IF s \in S THEN [schedules[s] EXCEPT !.due = FALSE] ELSE schedules[s]]

RunDue ==
  /\ saving = None /\ workers = <<>> /\ Due # {}
  /\ LET wanting == {s \in Due : Members(s) # {}}
     IN  \/ wanting = {} /\ UNCHANGED workers
         \/ \E s \in wanting : workers' = Booked(Members(s))
  /\ schedules' = Marked(Due)
  /\ missed' = UNION {Members(s) : s \in Due} \ DOMAIN workers'
  /\ UNCHANGED <<groups, accounts, proxies, tags, hooks, rules, switch, gui, session, edits>>

\* Slip: the router asks the window.
WindowSwitch == shown

global_proxy_enabled == pool

\* resolve_route, in a thread of the pool: the binding the account was booked with;
\* else the stored switch and then, in another transaction, the list of proxies.
\* Without a proxy the pool means the local network.
Chooses(a, r) == workers' = [workers EXCEPT ![a].via = r, ![a].told = {}]

FixedRoute(a) == /\ workers[a].bound \in proxies
                 /\ Chooses(a, workers[a].bound)

ReadSwitch(a) == /\ workers[a].bound = None /\ ~workers[a].asks
                 /\ IF global_proxy_enabled THEN workers' = [workers EXCEPT ![a].asks = TRUE]
                    ELSE Chooses(a, Direct)

PooledRoute(a) == /\ workers[a].asks
                  /\ \E r \in IF proxies = {} THEN {Direct} ELSE proxies : Chooses(a, r)

ResolveRoute(a) ==
  /\ workers[a].via = None
  /\ FixedRoute(a) \/ ReadSwitch(a) \/ PooledRoute(a)
  /\ UNCHANGED <<store, switch, gui, missed, session, edits>>

\* The fetch is over: the rest of it is in FetchBatch.
FetchEnds(a) ==
  /\ saving = None /\ workers[a].via # None
  /\ workers' = Without(workers, {a})
  /\ UNCHANGED <<store, switch, gui, missed, session, edits>>
-----------------------------------------------------------------------------
UserEdits ==
  \/ SelectGroup \/ CreateGroup \/ DeleteGroup \/ AddMany \/ MoveAccounts \/ BindProxy \/ TagAccounts
  \/ TogglePool \/ AddProxy \/ StartFetch
  \/ \E v \in Forms : StoreSettings(v)

\* What show_settings goes on with, in the same turn of the event loop.
Handler == SaveProxies \/ SaveHook \/ SaveRule \/ SaveSchedule \/ ShowSwitch \/ SaveFails

Background ==
  \/ Handler
  \/ Elapse \/ RunDue
  \/ \E a \in DOMAIN workers : ResolveRoute(a) \/ FetchEnds(a)
-----------------------------------------------------------------------------
TypeOK ==
  /\ Partial(groups, Ids, Ids \cup {None})
  /\ Partial(accounts, Ids, Row)
  /\ \A a \in DOMAIN accounts : accounts[a].group \in DOMAIN groups \cup {None}
  /\ proxies \subseteq Proxies /\ tags \subseteq Tags /\ hooks \subseteq Hooks
  /\ Partial(rules, Rules, Hooks \cup {None})
  /\ Partial(schedules, Ids \cup {All}, [enabled: BOOLEAN, due: BOOLEAN])
  /\ {pool, asked, shown} \subseteq BOOLEAN /\ selected \in Ids \cup {All, None}
  /\ saving # None => saving \in [on: BOOLEAN, form: Forms \cup {None}, step: Steps]
  /\ Partial(workers, Ids, [bound: Proxies \cup {None}, asks: BOOLEAN,
                            via: Proxies \cup {None, Direct}, told: SUBSET BOOLEAN])
  /\ missed \subseteq Ids /\ edits \in 0..session.edits

(***************************************************************************)
(* Whatever is deleted and however rowids are used again, the groups form  *)
(* a forest, and schedules and the selection of the tree name only groups  *)
(* that exist: one left over would fetch or save for a group created later *)
(* under the same rowid.                                                   *)
(***************************************************************************)
TreeIntact ==
  /\ Forest(groups)
  /\ DOMAIN schedules \subseteq DOMAIN groups \cup {All}
  /\ selected \in DOMAIN groups \cup {All, None}

(***************************************************************************)
(* A route is the one the user has asked for: over the proxy the account   *)
(* was bound to when it was booked and over no other; without one, direct  *)
(* only if the switch of the pool was off, or there was no proxy, and over *)
(* a proxy only if it was on, as the user had it when the account was      *)
(* booked or has put it since.  A save that fails half-way is no           *)
(* exception: the routes follow what was stored, whatever is shown.        *)
(***************************************************************************)
ChosenAsAsked ==
  \A a \in DOMAIN workers \cap DOMAIN workers' :
    LET w == workers[a]  via == workers'[a].via
    IN  w.via = None /\ via # None =>
          IF w.bound # None THEN via = w.bound
          ELSE IF via = Direct THEN FALSE \in w.told \/ proxies = {}
          ELSE via \in proxies /\ TRUE \in w.told

RoutesAsAsked == [][ChosenAsAsked]_regVars

(***************************************************************************)
(* What gives an account another configuration, an import or a discovery,  *)
(* never takes it out of its group, off its proxy or off its tags, and     *)
(* never leaves a mailbox with two rows of one protocol.                   *)
(***************************************************************************)
ImportKeepsFiling ==
  [][/\ \A a \in DOMAIN accounts \cap DOMAIN accounts' :
          LET old == accounts[a]  new == accounts'[a]
          IN  <<old.proto, old.config, old.host, old.token>>
                # <<new.proto, new.config, new.host, new.token>>
              => \A k \in {"box", "group", "proxy", "tags"} : old[k] = new[k]
     /\ OneEach(accounts')]_regVars

(***************************************************************************)
(* A schedule that is marked as run has had its accounts fetched: the      *)
(* settings page promises periodic fetching for each group that has one.   *)
(* Two groups due in one tick of the timer break it.                       *)
(***************************************************************************)
EveryScheduleServed == missed = {}
=============================================================================
