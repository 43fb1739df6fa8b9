------------------------- MODULE AccountJobsProofs -------------------------
(***************************************************************************)
(* The safety of the jobs and the registry beside them, proved for any     *)
(* store a session opens, any files, forms, boxes and bounds: the tree of  *)
(* groups with what refers to it stays whole, a fetch takes the route the  *)
(* user asked for, a consent taken back in time brings no token, a device  *)
(* code that is open has its worker, an import keeps how accounts are      *)
(* filed, and what was found for one mailbox is stored for no other.       *)
(***************************************************************************)
EXTENDS AccountJobs, WellFoundedInduction, TLAPS

-----------------------------------------------------------------------------
(***************************************************************************)
(* The tree of groups.                                                     *)
(***************************************************************************)
\* The groups are rowids with a parent each.
GroupsTyped == groups \in [DOMAIN groups -> Ids \cup {None}] /\ DOMAIN groups \subseteq Ids

TreeInv == GroupsTyped /\ TreeIntact

\* What a group is deleted with holds it and every child of what it holds.
LEMMA BelowClosed ==
  ASSUME NEW g \in DOMAIN groups
  PROVE  /\ g \in Below(g) /\ Below(g) \subseteq DOMAIN groups
         /\ Closed(Below(g))
  BY DEF Below, Closed

\* A session opens a whole tree.
LEMMA TreeInit == JobsInit => TreeInv
  BY SessionsAssumption DEF JobsInit, Init, TreeInv, GroupsTyped, TreeIntact

\* A step that leaves groups, schedules and selection alone, or changes the
\* schedules of the same groups and selects the root, keeps the tree whole.
LEMMA TreeKept ==
  ASSUME TreeInv, UNCHANGED groups, DOMAIN schedules' \subseteq DOMAIN groups \cup {All},
         selected' \in DOMAIN groups \cup {All, None}
  PROVE  TreeInv'
  BY DEF TreeInv, GroupsTyped, TreeIntact

\* A new group is younger than its parent.
LEMMA TreeCreate == TreeInv /\ CreateGroup => TreeInv'
<1> SUFFICES ASSUME TreeInv, CreateGroup PROVE TreeInv'
  OBVIOUS
<1>1. PICK i \in Ids, p \in DOMAIN groups \cup {None} :
        Follows(i, groups) /\ groups' = With(groups, i, p)
  BY DEF CreateGroup
<1>2. UNCHANGED <<schedules, selected>>
  BY DEF CreateGroup, gui
<1>3. DOMAIN groups' = DOMAIN groups \cup {i} /\ i \notin DOMAIN groups
  BY <1>1, RegistryAssumption DEF Follows, With, Ids, TreeInv, GroupsTyped
<1>4. groups'[i] = p /\ \A g \in DOMAIN groups : groups'[g] = groups[g]
  BY <1>1, <1>3 DEF With
<1>5. GroupsTyped'
  BY <1>1, <1>3, <1>4 DEF With, GroupsTyped, TreeInv
<1>6. Forest(groups')
  <2> SUFFICES ASSUME NEW g \in DOMAIN groups'
               PROVE  groups'[g] = None \/ (groups'[g] \in DOMAIN groups' /\ groups'[g] < g)
    BY DEF Forest
  <2>1. CASE g = i
    BY <2>1, <1>1, <1>3, <1>4 DEF Follows
  <2>2. CASE g # i
    BY <2>2, <1>3, <1>4 DEF TreeInv, TreeIntact, Forest
  <2> QED BY <2>1, <2>2
<1> QED BY <1>2, <1>3, <1>5, <1>6 DEF TreeInv, TreeIntact

\* Nothing is left below a group that is deleted, nor a schedule or a selection of it.
LEMMA TreeDelete == TreeInv /\ DeleteGroup => TreeInv'
<1> SUFFICES ASSUME TreeInv, DeleteGroup PROVE TreeInv'
  OBVIOUS
<1>1. PICK g \in DOMAIN groups :
        /\ groups' = Without(groups, Below(g)) /\ schedules' = Without(schedules, Below(g))
        /\ selected' = Reselected(DOMAIN groups \ Below(g))
  BY DEF DeleteGroup
<1>2. Closed(Below(g)) /\ Below(g) \subseteq DOMAIN groups
  BY BelowClosed
<1>3. /\ DOMAIN groups' = DOMAIN groups \ Below(g)
      /\ \A h \in DOMAIN groups' : groups'[h] = groups[h]
      /\ DOMAIN schedules' = DOMAIN schedules \ Below(g)
  BY <1>1 DEF Without
<1>4. GroupsTyped'
  BY <1>1, <1>3 DEF Without, GroupsTyped, TreeInv
<1>5. Forest(groups')
  BY <1>2, <1>3 DEF Closed, Forest, TreeInv, TreeIntact
<1>6. selected' \in DOMAIN groups' \cup {All, None}
  BY <1>1, <1>3 DEF Reselected
<1>7. DOMAIN schedules' \subseteq DOMAIN groups' \cup {All}
  BY <1>3 DEF TreeInv, TreeIntact
<1> QED BY <1>4, <1>5, <1>6, <1>7 DEF TreeInv, TreeIntact

\* The settings give a schedule to the selected group, or to all accounts.
LEMMA TreeHandler == TreeInv /\ Handler => TreeInv'
<1> SUFFICES ASSUME TreeInv, Handler PROVE TreeInv'
  OBVIOUS
<1> USE DEF store
<1>1. CASE SaveProxies \/ SaveHook \/ SaveRule \/ ShowSwitch \/ SaveFails
  <2>1. UNCHANGED <<groups, schedules, selected>>
    BY <1>1 DEF SaveProxies, SaveHook, SaveRule, ShowSwitch, SaveFails, GoOn
  <2> QED BY <2>1, TreeKept DEF TreeInv, TreeIntact
<1>2. CASE SaveSchedule
  <2>1. UNCHANGED <<groups, selected>>
    BY <1>2 DEF SaveSchedule, GoOn
  <2>2. DOMAIN schedules' \subseteq DOMAIN schedules \cup {Scheduled}
    BY <1>2 DEF SaveSchedule, Upserted, With
  <2>3. Scheduled \in DOMAIN groups \cup {All}
    BY DEF Scheduled, TreeInv, TreeIntact
  <2> QED BY <2>1, <2>2, <2>3, TreeKept DEF TreeInv, TreeIntact
<1> QED BY <1>1, <1>2 DEF Handler

\* Any other operation of the user.
LEMMA TreeEdits == TreeInv /\ UserEdits => TreeInv'
<1> SUFFICES ASSUME TreeInv, UserEdits PROVE TreeInv'
  OBVIOUS
<1> USE DEF store, gui
<1>1. CASE SelectGroup
  BY <1>1, TreeKept DEF SelectGroup, TreeInv, TreeIntact
<1>2. CASE AddMany
  BY <1>2, TreeKept DEF AddMany, TreeInv, TreeIntact
<1>3. CASE MoveAccounts
  BY <1>3, TreeKept DEF MoveAccounts, TreeInv, TreeIntact
<1>4. CASE BindProxy
  BY <1>4, TreeKept DEF BindProxy, TreeInv, TreeIntact
<1>5. CASE TagAccounts
  BY <1>5, TreeKept DEF TagAccounts, TreeInv, TreeIntact
<1>6. CASE TogglePool
  BY <1>6, TreeKept DEF TogglePool, TreeInv, TreeIntact
<1>7. CASE AddProxy
  BY <1>7, TreeKept DEF AddProxy, TreeInv, TreeIntact
<1>8. CASE StartFetch
  BY <1>8, TreeKept DEF StartFetch, TreeInv, TreeIntact
<1>9. ASSUME NEW v \in Forms, StoreSettings(v) PROVE TreeInv'
  BY <1>9, TreeKept DEF StoreSettings, TreeInv, TreeIntact
<1> QED BY <1>1, <1>2, <1>3, <1>4, <1>5, <1>6, <1>7, <1>8, <1>9, TreeCreate, TreeDelete
        DEF UserEdits

\* The timer marks schedules and removes none.
LEMMA TreeBackground == TreeInv /\ Background => TreeInv'
<1> SUFFICES ASSUME TreeInv, Background PROVE TreeInv'
  OBVIOUS
<1> USE DEF store, gui
<1>1. CASE Elapse
  BY <1>1, TreeKept DEF Elapse, TreeInv, TreeIntact
<1>2. CASE RunDue
  BY <1>2, TreeKept DEF RunDue, Marked, TreeInv, TreeIntact
<1>3. ASSUME NEW a \in DOMAIN workers, ResolveRoute(a) \/ FetchEnds(a) PROVE TreeInv'
  BY <1>3, TreeKept DEF ResolveRoute, FetchEnds, TreeInv, TreeIntact
<1> QED BY <1>1, <1>2, <1>3, TreeHandler DEF Background

\* The jobs write accounts only.
LEMMA TreeJobs ==
  TreeInv /\ (StartJob \/ Delete \/ HandleSignal \/ AnswerBox \/ CancelConsent
              \/ (\E j \in jobs : JobStep(j)) \/ UNCHANGED vars) => TreeInv'
<1> SUFFICES ASSUME TreeInv, StartJob \/ Delete \/ HandleSignal \/ AnswerBox \/ CancelConsent
                      \/ (\E j \in jobs : JobStep(j)) \/ UNCHANGED vars
             PROVE  TreeInv'
  OBVIOUS
<1>1. UNCHANGED <<groups, schedules, selected>>
  <2> USE DEF store, gui, regVars
  <2>1. CASE StartJob
    BY <2>1 DEF StartJob
  <2>2. CASE Delete
    BY <2>2 DEF Delete, DeleteRows
  <2>3. CASE HandleSignal
    BY <2>3 DEF HandleSignal
  <2>4. CASE AnswerBox \/ CancelConsent
    BY <2>4 DEF AnswerBox, CancelConsent
  <2>5. ASSUME NEW j \in jobs, JobStep(j) PROVE UNCHANGED <<groups, schedules, selected>>
    BY <2>5 DEF JobStep
  <2>6. CASE UNCHANGED vars
    BY <2>6 DEF vars
  <2> QED BY <2>1, <2>2, <2>3, <2>4, <2>5, <2>6
<1> QED BY <1>1, TreeKept DEF TreeInv, TreeIntact

\* The groups form a forest, and schedules and the selection name groups that
\* exist, whatever is created and deleted: GroupRepository, _populate_groups.
THEOREM TreeWhole == Spec => []TreeIntact
<1>1. TreeInv /\ [Next]_vars => TreeInv'
  BY TreeEdits, TreeBackground, TreeJobs DEF Next
<1>2. TreeInv => TreeIntact
  BY DEF TreeInv
<1> QED BY TreeInit, <1>1, <1>2, PTL DEF Spec
-----------------------------------------------------------------------------
(***************************************************************************)
(* Routes.                                                                 *)
(***************************************************************************)
\* The stored switch is the one last asked for, and the threads that have no route yet
\* know it; one that read the switch as on was told so, and the others were unbound.
SwitchKept == {pool, asked} \subseteq BOOLEAN /\ pool = asked
Typed(w)   == DOMAIN w = {"bound", "asks", "via", "told"}
Booking    == \A a \in DOMAIN workers :
                /\ Typed(workers[a])
                /\ workers[a].via = None =>
                     /\ asked \in workers[a].told
                     /\ workers[a].asks = TRUE => workers[a].bound = None /\ TRUE \in workers[a].told

RouteInv == SwitchKept /\ Booking /\ proxies \subseteq Proxies

LEMMA RouteInit == JobsInit => RouteInv
<1> SUFFICES ASSUME JobsInit PROVE RouteInv
  OBVIOUS
<1>1. SwitchKept
  BY DEF JobsInit, Init, SwitchKept
<1>2. Booking
  BY DEF JobsInit, Init, Booking
<1>3. proxies \subseteq Proxies
  BY SessionsAssumption DEF JobsInit, Init
<1> QED BY <1>1, <1>2, <1>3 DEF RouteInv

\* A step that touches neither books nor switch, and takes no proxy away.
LEMMA RouteKept ==
  ASSUME RouteInv, UNCHANGED <<switch, workers>>, proxies' \subseteq Proxies
  PROVE  RouteInv' /\ ChosenAsAsked
BY DEF RouteInv, SwitchKept, Booking, ChosenAsAsked, switch

\* A switch that is stored is told to every thread without a route.
LEMMA RouteTold ==
  ASSUME RouteInv, NEW on \in BOOLEAN, pool' = on, asked' = on, Tell(on), UNCHANGED proxies
  PROVE  RouteInv' /\ ChosenAsAsked
<1>1. DOMAIN workers' = DOMAIN workers
  BY DEF Tell
<1>2. ASSUME NEW a \in DOMAIN workers
      PROVE  /\ Typed(workers'[a]) /\ workers'[a].via = workers[a].via
             /\ workers'[a].bound = workers[a].bound /\ workers'[a].asks = workers[a].asks
             /\ workers[a].via = None => workers'[a].told = workers[a].told \cup {on}
  <2>1. Typed(workers[a])
    BY DEF RouteInv, Booking
  <2>2. CASE workers[a].via = None
    <3>1. workers'[a] = [workers[a] EXCEPT !.told = @ \cup {on}]
      BY <2>2 DEF Tell
    <3> QED BY <2>1, <3>1 DEF Typed
  <2>3. CASE workers[a].via # None
    BY <2>1, <2>3 DEF Tell
  <2> QED BY <2>2, <2>3
<1>3. Booking'
  BY <1>1, <1>2 DEF RouteInv, Booking
<1>4. ChosenAsAsked
  BY <1>1, <1>2 DEF ChosenAsAsked
<1> QED BY <1>3, <1>4 DEF RouteInv, SwitchKept

\* The handlers of the settings store the switch first, and nothing after it
\* touches the switch.
LEMMA RouteHandler == RouteInv /\ Handler => RouteInv' /\ ChosenAsAsked
<1> SUFFICES ASSUME RouteInv, Handler PROVE RouteInv' /\ ChosenAsAsked
  OBVIOUS
<1>1. UNCHANGED <<switch, workers>>
  BY DEF Handler, SaveProxies, SaveHook, SaveRule, SaveSchedule, ShowSwitch, SaveFails, GoOn
<1>2. UNCHANGED proxies \/ proxies' \subseteq proxies \cup Proxies
  BY DEF Handler, SaveProxies, SaveHook, SaveRule, SaveSchedule, ShowSwitch, SaveFails, store
<1> QED BY <1>1, <1>2, RouteKept DEF RouteInv

\* No batch is booked while accounts of another are; a booking has no route yet.
LEMMA RouteBooked ==
  ASSUME RouteInv, workers = <<>>, UNCHANGED <<switch, proxies>>,
         UNCHANGED workers \/ (\E S : workers' = Booked(S))
  PROVE  RouteInv' /\ ChosenAsAsked
<1>1. SwitchKept' /\ proxies' \subseteq Proxies
  BY DEF RouteInv, SwitchKept, switch
<1>2. Booking'
  <2>1. CASE UNCHANGED workers
    BY <2>1 DEF Booking, RouteInv
  <2>2. ASSUME NEW S, workers' = Booked(S) PROVE Booking'
    <3>1. ASSUME NEW a \in DOMAIN workers'
          PROVE  Typed(workers'[a]) /\ workers'[a].asks = FALSE /\ workers'[a].told = {asked}
      BY <2>2, <3>1 DEF Booked, Typed
    <3> QED BY <3>1 DEF Booking, switch
  <2> QED BY <2>1, <2>2
<1>3. ChosenAsAsked
  BY DEF ChosenAsAsked
<1> QED BY <1>1, <1>2, <1>3 DEF RouteInv

\* The router takes the binding of the booking; or it reads the switch as off, or on
\* and then the list.
LEMMA RouteResolved ==
  ASSUME RouteInv, NEW a \in DOMAIN workers, ResolveRoute(a)
  PROVE  RouteInv' /\ ChosenAsAsked
<1>1. UNCHANGED <<switch, proxies>> /\ workers[a].via = None
  BY DEF ResolveRoute, store
<1>2. SwitchKept' /\ proxies' \subseteq Proxies
  BY <1>1 DEF RouteInv, SwitchKept, switch
<1>3. Typed(workers[a]) /\ pool \in workers[a].told
      /\ (workers[a].asks = TRUE => workers[a].bound = None /\ TRUE \in workers[a].told)
  BY <1>1 DEF RouteInv, Booking, SwitchKept
<1>4. ASSUME NEW r, Chooses(a, r), r # None,
             IF workers[a].bound # None THEN r = workers[a].bound
             ELSE IF r = Direct THEN FALSE \in workers[a].told \/ proxies = {}
             ELSE r \in proxies /\ TRUE \in workers[a].told
      PROVE  Booking' /\ ChosenAsAsked
  <2>1. /\ DOMAIN workers' = DOMAIN workers
        /\ workers'[a] = [workers[a] EXCEPT !.via = r, !.told = {}]
        /\ \A b \in DOMAIN workers : b # a => workers'[b] = workers[b]
    BY <1>4 DEF Chooses
  <2>2. Typed(workers'[a]) /\ workers'[a].via = r
    BY <1>3, <2>1 DEF Typed
  <2>3. Booking'
    <3>1. UNCHANGED asked /\ Booking
      BY <1>1 DEF RouteInv, switch
    <3>2. ASSUME NEW b \in DOMAIN workers'
          PROVE  /\ Typed(workers'[b])
                 /\ workers'[b].via = None =>
                      /\ asked \in workers'[b].told
                      /\ workers'[b].asks = TRUE =>
                           workers'[b].bound = None /\ TRUE \in workers'[b].told
      <4>1. CASE b = a
        BY <1>4, <2>2, <4>1
      <4>2. CASE b # a
        <5>1. b \in DOMAIN workers /\ workers'[b] = workers[b]
          BY <2>1, <4>2
        <5> QED BY <3>1, <5>1 DEF Booking
      <4> QED BY <4>1, <4>2
    <3> QED BY <3>1, <3>2 DEF Booking
  <2>4. ChosenAsAsked
    <3> SUFFICES ASSUME NEW b \in DOMAIN workers, workers[b].via = None, workers'[b].via # None
                 PROVE  IF workers[b].bound # None THEN workers'[b].via = workers[b].bound
                        ELSE IF workers'[b].via = Direct
                             THEN FALSE \in workers[b].told \/ proxies = {}
                        ELSE workers'[b].via \in proxies /\ TRUE \in workers[b].told
      BY DEF ChosenAsAsked
    <3>1. b = a
      BY <2>1
    <3> QED BY <1>4, <2>2, <3>1
  <2> QED BY <2>3, <2>4
<1>5. None \notin proxies /\ Direct \notin proxies /\ Direct # None
  BY RegistryAssumption DEF RouteInv
<1>6. CASE FixedRoute(a)
  BY <1>2, <1>4, <1>5, <1>6 DEF FixedRoute, RouteInv
<1>7. CASE ReadSwitch(a)
  <2>1. CASE pool
    <3>1. workers' = [workers EXCEPT ![a].asks = TRUE]
      BY <1>7, <2>1 DEF ReadSwitch, global_proxy_enabled
    <3>2. /\ DOMAIN workers' = DOMAIN workers
          /\ workers'[a] = [workers[a] EXCEPT !.asks = TRUE]
          /\ \A b \in DOMAIN workers : b # a => workers'[b] = workers[b]
      BY <3>1
    <3>3. /\ Typed(workers'[a]) /\ workers'[a].via = None /\ workers'[a].bound = None
          /\ workers'[a].told = workers[a].told
      BY <1>1, <1>3, <1>7, <3>2 DEF Typed, ReadSwitch
    <3>4. TRUE \in workers[a].told
      BY <1>3, <2>1 DEF RouteInv, SwitchKept
    <3>5. Booking'
      BY <1>1, <3>2, <3>3, <3>4 DEF RouteInv, Booking, switch
    <3>6. ChosenAsAsked
      BY <3>2, <3>3 DEF ChosenAsAsked
    <3> QED BY <1>2, <3>5, <3>6 DEF RouteInv
  <2>2. CASE ~pool
    <3>1. Chooses(a, Direct) /\ workers[a].bound = None
      BY <1>7, <2>2 DEF ReadSwitch, global_proxy_enabled
    <3>2. FALSE \in workers[a].told
      BY <1>3, <2>2 DEF RouteInv, SwitchKept
    <3> QED BY <1>2, <1>4, <1>5, <3>1, <3>2 DEF RouteInv
  <2> QED BY <2>1, <2>2
<1>8. CASE PooledRoute(a)
  <2>1. PICK r : r \in (IF proxies = {} THEN {Direct} ELSE proxies) /\ Chooses(a, r)
    BY <1>8 DEF PooledRoute
  <2>2. workers[a].bound = None /\ TRUE \in workers[a].told
    <3>1. workers[a].asks
      BY <1>8 DEF PooledRoute
    <3> QED BY <1>3, <3>1
  <2>3. CASE proxies = {}
    BY <1>2, <1>4, <1>5, <2>1, <2>2, <2>3 DEF RouteInv
  <2>4. CASE proxies # {}
    <3>1. r \in proxies /\ r # None /\ r # Direct
      BY <1>5, <2>1, <2>4
    <3> QED BY <1>2, <1>4, <2>1, <2>2, <3>1 DEF RouteInv
  <2> QED BY <2>3, <2>4
<1> QED BY <1>6, <1>7, <1>8 DEF ResolveRoute

LEMMA RouteBackground == RouteInv /\ Background => RouteInv' /\ ChosenAsAsked
<1> SUFFICES ASSUME RouteInv, Background PROVE RouteInv' /\ ChosenAsAsked
  OBVIOUS
<1> USE DEF store
<1>0. proxies \subseteq Proxies
  BY DEF RouteInv
<1>1. CASE Elapse
  BY <1>0, <1>1, RouteKept DEF Elapse
<1>2. CASE RunDue
  BY <1>2, RouteBooked DEF RunDue
<1>3. ASSUME NEW a \in DOMAIN workers, ResolveRoute(a) PROVE RouteInv' /\ ChosenAsAsked
  BY <1>3, RouteResolved
<1>4. ASSUME NEW a \in DOMAIN workers, FetchEnds(a) PROVE RouteInv' /\ ChosenAsAsked
  <2>1. UNCHANGED <<switch, proxies>>
    BY <1>4 DEF FetchEnds
  <2>2. DOMAIN workers' \subseteq DOMAIN workers
          /\ \A b \in DOMAIN workers' : workers'[b] = workers[b]
    BY <1>4 DEF FetchEnds, Without
  <2> QED BY <2>1, <2>2 DEF RouteInv, SwitchKept, Booking, ChosenAsAsked, switch
<1> QED BY <1>1, <1>2, <1>3, <1>4, RouteHandler DEF Background

LEMMA RouteEdits == RouteInv /\ UserEdits => RouteInv' /\ ChosenAsAsked
<1> SUFFICES ASSUME RouteInv, UserEdits PROVE RouteInv' /\ ChosenAsAsked
  OBVIOUS
<1> USE DEF store
<1>0. proxies \subseteq Proxies
  BY DEF RouteInv
<1>1. CASE SelectGroup
  BY <1>0, <1>1, RouteKept DEF SelectGroup
<1>2. CASE CreateGroup \/ DeleteGroup
  BY <1>0, <1>2, RouteKept DEF CreateGroup, DeleteGroup
<1>3. CASE AddMany
  BY <1>0, <1>3, RouteKept DEF AddMany
<1>4. CASE MoveAccounts \/ BindProxy \/ TagAccounts
  BY <1>0, <1>4, RouteKept DEF MoveAccounts, BindProxy, TagAccounts
<1>5. CASE StartFetch
  BY <1>5, RouteBooked DEF StartFetch
<1>6. CASE AddProxy
  BY <1>0, <1>6, RouteKept DEF AddProxy, Entered
<1>7. CASE TogglePool
  <2>1. PICK on \in BOOLEAN : on = ~shown
    OBVIOUS
  <2> QED BY <1>7, <2>1, RouteTold DEF TogglePool
<1>8. ASSUME NEW v \in Forms, StoreSettings(v) PROVE RouteInv' /\ ChosenAsAsked
  <2>1. v.pool \in BOOLEAN
    BY RegistryAssumption DEF Form
  <2> QED BY <1>8, <2>1, RouteTold DEF StoreSettings
<1> QED BY <1>1, <1>2, <1>3, <1>4, <1>5, <1>6, <1>7, <1>8 DEF UserEdits

LEMMA RouteJobs ==
  RouteInv /\ (StartJob \/ Delete \/ HandleSignal \/ AnswerBox \/ CancelConsent
               \/ (\E j \in jobs : JobStep(j)) \/ UNCHANGED vars) => RouteInv' /\ ChosenAsAsked
<1> SUFFICES ASSUME RouteInv, StartJob \/ Delete \/ HandleSignal \/ AnswerBox \/ CancelConsent
                      \/ (\E j \in jobs : JobStep(j)) \/ UNCHANGED vars
             PROVE  RouteInv' /\ ChosenAsAsked
  OBVIOUS
<1> USE DEF store, regVars
<1>0. proxies \subseteq Proxies
  BY DEF RouteInv
<1>1. CASE StartJob
  BY <1>0, <1>1, RouteKept DEF StartJob
<1>2. CASE Delete
  BY <1>0, <1>2, RouteKept DEF Delete, DeleteRows
<1>3. CASE HandleSignal
  BY <1>0, <1>3, RouteKept DEF HandleSignal
<1>4. CASE AnswerBox \/ CancelConsent
  BY <1>0, <1>4, RouteKept DEF AnswerBox, CancelConsent
<1>5. ASSUME NEW j \in jobs, JobStep(j) PROVE RouteInv' /\ ChosenAsAsked
  BY <1>0, <1>5, RouteKept DEF JobStep
<1>6. CASE UNCHANGED vars
  BY <1>0, <1>6, RouteKept DEF vars
<1> QED BY <1>1, <1>2, <1>3, <1>4, <1>5, <1>6

\* _set_proxy_fetch_enabled, show_settings and resolve_route: whichever step of a save
\* a thread of the pool meets, and whichever fails, the thread takes no other proxy than
\* the one that is bound, and without one a switch the user has asked for.
THEOREM RoutesHold == Spec => RoutesAsAsked
<1>1. RouteInv /\ [Next]_vars => RouteInv' /\ ChosenAsAsked
  BY RouteEdits, RouteBackground, RouteJobs DEF Next
<1>2. RouteInv /\ [Next]_vars => RouteInv' /\ [ChosenAsAsked]_regVars
  BY <1>1
<1> QED BY RouteInit, <1>2, PTL DEF Spec, RoutesAsAsked
-----------------------------------------------------------------------------
(***************************************************************************)
(* Consents.                                                               *)
(***************************************************************************)
\* A request is under way only for a job that was not taken back before it, and
\* only consents have requests.
Asks(j) == /\ DOMAIN j = {"kind", "id", "box", "stage", "polls", "cancelled", "copy"}
           /\ j.stage = "run" => j.kind \in {"probe", "discovery", "audit"}
           /\ j.stage = "request" => j.cancelled \in {None, "request"}

InTime(s) == s.news = "token" => s.cancelled \in {None, "request"}

ConsentInv == /\ \A j \in jobs : Asks(j)
              /\ \E S : inbox \in Seq(S) /\ \A s \in S : InTime(s)

LEMMA ConsentInit == JobsInit => ConsentInv
<1> SUFFICES ASSUME JobsInit PROVE ConsentInv
  OBVIOUS
<1>1. inbox \in Seq({}) /\ jobs = {}
  BY DEF JobsInit
<1> QED BY <1>1 DEF ConsentInv

\* What a job says, whatever was said before it.
LEMMA ConsentEnds ==
  ASSUME ConsentInv, NEW j \in jobs, NEW news, Ends(j, news), InTime(Says(j, news))
  PROVE  ConsentInv'
<1>1. PICK S : inbox \in Seq(S) /\ \A s \in S : InTime(s)
  BY DEF ConsentInv
<1> DEFINE a == Says(j, news)
           b == Says(j, "finished")
           T == S \cup {a, b}
<1>2. InTime(b)
  BY DEF Says, InTime
<1> HIDE DEF a, b
<1>3. inbox \in Seq(T) /\ <<a, b>> \in Seq(T)
  BY <1>1
<1>4. inbox' = inbox \o <<a, b>> /\ jobs' = jobs \ {j}
  BY DEF Ends, a, b
<1>5. inbox' \in Seq(T)
  BY <1>3, <1>4
<1>6. \A s \in T : InTime(s)
  BY <1>1, <1>2 DEF a
<1> QED BY <1>4, <1>5, <1>6 DEF ConsentInv

LEMMA ConsentStep == ASSUME ConsentInv, NEW j \in jobs, JobStep(j) PROVE ConsentInv'
<1>0. Asks(j)
  BY DEF ConsentInv
<1>1. ASSUME NEW k, Becomes(j, k), Asks(k), UNCHANGED inbox PROVE ConsentInv'
  BY <1>1 DEF Becomes, ConsentInv
<1>2. CASE RunJob(j)
  <2>1. PICK news \in Outcomes(j.kind) : Ends(j, news)
    BY <1>2 DEF RunJob
  <2>2. news # "token"
    BY <1>0, <1>2, <2>1 DEF RunJob, Asks, Outcomes, DiscoveryNews, AuditNews, ProbeNews
  <2> QED BY <2>1, <2>2, ConsentEnds DEF Says, InTime
<1>3. ASSUME Ends(j, "nothing") PROVE ConsentInv'
  BY <1>3, ConsentEnds DEF Says, InTime
<1>4. CASE AskForCode(j)
  <2>1. CASE /\ Becomes(j, [j EXCEPT !.stage = "sleep"])
             /\ inbox' = Append(inbox, Says(j, "challenge"))
    <3>1. PICK S : inbox \in Seq(S) /\ \A s \in S : InTime(s)
      BY DEF ConsentInv
    <3> DEFINE a == Says(j, "challenge")
               T == S \cup {a}
    <3>2. InTime(a)
      BY DEF Says, InTime
    <3> HIDE DEF a
    <3>3. inbox \in Seq(T) /\ a \in T
      BY <3>1
    <3>4. inbox' = Append(inbox, a)
      BY <2>1 DEF a
    <3>5. inbox' \in Seq(T)
      BY <3>3, <3>4
    <3>6. \A s \in T : InTime(s)
      BY <3>1, <3>2
    <3>7. Asks([j EXCEPT !.stage = "sleep"])
      BY <1>0 DEF Asks
    <3> QED BY <2>1, <3>5, <3>6, <3>7 DEF Becomes, ConsentInv
  <2> QED BY <1>3, <1>4, <2>1 DEF AskForCode
<1>5. CASE Wake(j)
  <2>1. CASE Becomes(j, [j EXCEPT !.stage = "request"]) /\ UNCHANGED inbox /\ ~Heeded(j)
    <3>1. Asks([j EXCEPT !.stage = "request"])
      BY <1>0, <2>1 DEF Asks, Heeded
    <3> QED BY <1>1, <2>1, <3>1
  <2> QED BY <1>3, <1>5, <2>1 DEF Wake
<1>6. CASE Reply(j)
  <2>1. CASE Ends(j, "token")
    BY <1>0, <1>6, <2>1, ConsentEnds DEF Reply, Asks, Says, InTime
  <2>2. ASSUME NEW n, Becomes(j, [j EXCEPT !.stage = "sleep", !.polls = n]), UNCHANGED inbox
        PROVE  ConsentInv'
    <3>1. Asks([j EXCEPT !.stage = "sleep", !.polls = n])
      BY <1>0 DEF Asks
    <3> QED BY <1>1, <2>2, <3>1
  <2> QED BY <1>3, <1>6, <2>1, <2>2 DEF Reply
<1> QED BY <1>2, <1>4, <1>5, <1>6 DEF JobStep

\* The window takes signals off the queue, starts jobs and takes consents back.
LEMMA ConsentWindow ==
  ConsentInv /\ (StartJob \/ Delete \/ HandleSignal \/ AnswerBox \/ CancelConsent
                 \/ UNCHANGED jobVars) => ConsentInv'
<1> SUFFICES ASSUME ConsentInv, StartJob \/ Delete \/ HandleSignal \/ AnswerBox
                      \/ CancelConsent \/ UNCHANGED jobVars
             PROVE  ConsentInv'
  OBVIOUS
<1>1. ASSUME NEW kind \in Kinds, NEW i PROVE Asks(NewJob(kind, i))
  BY <1>1 DEF Asks, NewJob, Kinds
<1>2. ASSUME UNCHANGED inbox, \A j \in jobs' : Asks(j) PROVE ConsentInv'
  BY <1>2 DEF ConsentInv
<1>3. CASE StartJob
  BY <1>1, <1>2, <1>3 DEF StartJob, ConsentInv, Kinds
<1>4. CASE Delete \/ UNCHANGED jobVars
  BY <1>2, <1>4 DEF Delete, ConsentInv, jobVars
<1>5. CASE HandleSignal
  <2>1. \A j \in jobs' : Asks(j)
    BY <1>5 DEF HandleSignal, ConsentInv
  <2>2. PICK S : inbox \in Seq(S) /\ \A s \in S : InTime(s)
    BY DEF ConsentInv
  <2>3. inbox' \in Seq(S)
    BY <1>5, <2>2 DEF HandleSignal
  <2> QED BY <2>1, <2>2, <2>3 DEF ConsentInv
<1>6. CASE AnswerBox
  <2>1. UNCHANGED inbox
    BY <1>6 DEF AnswerBox
  <2>2. ASSUME NEW j \in jobs' PROVE Asks(j)
    <3>1. j \in jobs \/ \E kind \in Kinds, i \in {Last(windows).id} : j = NewJob(kind, i)
      BY <1>6, <2>2 DEF AnswerBox, StartConsent, Kinds
    <3> QED BY <1>1, <3>1 DEF ConsentInv
  <2> QED BY <1>2, <2>1, <2>2
<1>7. CASE CancelConsent
  <2>1. ASSUME NEW j \in jobs' PROVE Asks(j)
    <3>1. PICK k \in jobs : j = k \/ j = [k EXCEPT !.cancelled = k.stage]
      BY <1>7, <2>1 DEF CancelConsent
    <3>2. Asks(k)
      BY DEF ConsentInv
    <3> QED BY <3>1, <3>2 DEF Asks
  <2> QED BY <1>2, <1>7, <2>1 DEF CancelConsent
<1> QED BY <1>3, <1>4, <1>5, <1>6, <1>7

\* wait_for_refresh_token: a cancellation seen by any of its checks ends it, so no
\* token is reported for a consent that was taken back while it slept.
THEOREM CancelHolds == Spec => []CancelledInTime
<1>1. ConsentInv /\ [Next]_vars => ConsentInv'
  BY ConsentStep, ConsentWindow DEF Next, vars
<1>2. ConsentInv => CancelledInTime
  <2> SUFFICES ASSUME ConsentInv, NEW k \in DOMAIN inbox PROVE InTime(inbox[k])
    BY DEF CancelledInTime, InTime
  <2>1. PICK S : inbox \in Seq(S) /\ \A s \in S : InTime(s)
    BY DEF ConsentInv
  <2> QED BY <2>1
<1> QED BY ConsentInit, <1>1, <1>2, PTL DEF Spec
-----------------------------------------------------------------------------
(***************************************************************************)
(* Device codes.                                                           *)
(***************************************************************************)
\* The signals of the consent about i, and its jobs.
Talk(q, i)   == {k \in DOMAIN q : q[k].kind = "consent" /\ q[k].id = i}
Doing(js, i) == {j \in js : j.kind = "consent" /\ j.id = i}
Result(s)    == s.news \in {"token", "nothing"}

\* A consent is idle, asks for its code, waits for an answer, has ended with a result
\* the window does not know yet, or has been closed and is only to be forgotten.
Idle(q, js, cs, ds, i)    == i \notin cs /\ i \notin ds /\ Talk(q, i) = {} /\ Doing(js, i) = {}
Asking(q, js, cs, ds, i)  == /\ i \in cs /\ i \notin ds /\ Talk(q, i) = {}
                             /\ \E j \in js : Doing(js, i) = {j} /\ j.stage = "ask"
Waiting(q, js, cs, i)     == /\ i \in cs /\ \A k \in Talk(q, i) : q[k].news = "challenge"
                             /\ \E j \in js : Doing(js, i) = {j} /\ j.stage # "ask"
Ended(q, js, cs, i)       == /\ i \in cs /\ Doing(js, i) = {}
                             /\ \E k \in Talk(q, i) :
                                  /\ Result(q[k]) /\ k + 1 \in Talk(q, i) /\ q[k + 1].news = "finished"
                                  /\ \A m \in Talk(q, i) \ {k, k + 1} : m < k /\ q[m].news = "challenge"
Closing(q, js, cs, ds, i) == /\ i \in cs /\ i \notin ds /\ Doing(js, i) = {}
                             /\ \E k \in Talk(q, i) : Talk(q, i) = {k} /\ q[k].news = "finished"

Phase(q, js, cs, ds, i) ==
  \/ Idle(q, js, cs, ds, i) \/ Asking(q, js, cs, ds, i) \/ Waiting(q, js, cs, i)
  \/ Ended(q, js, cs, i) \/ Closing(q, js, cs, ds, i)

PhaseInv  == \A i : Phase(inbox, jobs, consents, dialogs, i)
OrphanInv == ConsentInv /\ PhaseInv

\* Nothing about i is changed.
LEMMA PhaseKept ==
  ASSUME NEW q, NEW js, NEW cs, NEW ds, NEW i, Phase(q, js, cs, ds, i),
         NEW q2, NEW js2, NEW cs2, NEW ds2,
         Talk(q2, i) = Talk(q, i), \A k \in Talk(q, i) : q2[k] = q[k],
         Doing(js2, i) = Doing(js, i), i \in cs2 <=> i \in cs, i \in ds2 <=> i \in ds
  PROVE  Phase(q2, js2, cs2, ds2, i)
<1>1. CASE Idle(q, js, cs, ds, i)
  BY <1>1 DEF Idle, Phase
<1>2. CASE Asking(q, js, cs, ds, i)
  <2>1. PICK j \in js : Doing(js, i) = {j} /\ j.stage = "ask"
    BY <1>2 DEF Asking
  <2>2. j \in js2
    BY <2>1 DEF Doing
  <2> QED BY <1>2, <2>1, <2>2 DEF Asking, Phase
<1>3. CASE Waiting(q, js, cs, i)
  <2>1. PICK j \in js : Doing(js, i) = {j} /\ j.stage # "ask"
    BY <1>3 DEF Waiting
  <2>2. j \in js2
    BY <2>1 DEF Doing
  <2> QED BY <1>3, <2>1, <2>2 DEF Waiting, Phase
<1>4. CASE Ended(q, js, cs, i)
  <2>1. PICK k \in Talk(q, i) :
          /\ Result(q[k]) /\ k + 1 \in Talk(q, i) /\ q[k + 1].news = "finished"
          /\ \A m \in Talk(q, i) \ {k, k + 1} : m < k /\ q[m].news = "challenge"
    BY <1>4 DEF Ended
  <2>2. k \in Talk(q2, i) /\ Result(q2[k]) /\ k + 1 \in Talk(q2, i) /\ q2[k + 1].news = "finished"
    BY <2>1
  <2>3. \A m \in Talk(q2, i) \ {k, k + 1} : m < k /\ q2[m].news = "challenge"
    BY <2>1
  <2> QED BY <1>4, <2>2, <2>3 DEF Ended, Phase
<1>5. CASE Closing(q, js, cs, ds, i)
  BY <1>5 DEF Closing, Phase
<1> QED BY <1>1, <1>2, <1>3, <1>4, <1>5 DEF Phase

\* The queue with what is said later.
LEMMA TalkMore ==
  ASSUME NEW S, NEW q \in Seq(S), NEW T, NEW r \in Seq(T), NEW i
  PROVE  /\ Talk(q, i) \subseteq 1..Len(q)
         /\ \A k \in Talk(q, i) : k \in Talk(q \o r, i) /\ (q \o r)[k] = q[k]
         /\ \A k \in Talk(r, i) : Len(q) + k \in Talk(q \o r, i) /\ (q \o r)[Len(q) + k] = r[k]
         /\ \A k \in Talk(q \o r, i) : k \in Talk(q, i) \/ (\E m \in Talk(r, i) : k = Len(q) + m)
<1>1. /\ Len(q) \in Nat /\ DOMAIN q = 1..Len(q) /\ Len(r) \in Nat /\ DOMAIN r = 1..Len(r)
      /\ DOMAIN (q \o r) = 1..(Len(q) + Len(r))
      /\ \A k \in 1..Len(q) : (q \o r)[k] = q[k]
      /\ \A k \in 1..Len(r) : (q \o r)[Len(q) + k] = r[k]
  OBVIOUS
<1>2. \A k \in 1..(Len(q) + Len(r)) : k \in 1..Len(q) \/ (k - Len(q) \in 1..Len(r) /\ k = Len(q) + (k - Len(q)))
  BY <1>1
<1>3. \A k \in 1..Len(q) : k \in 1..(Len(q) + Len(r))
  BY <1>1
<1>4. \A k \in 1..Len(r) : Len(q) + k \in 1..(Len(q) + Len(r))
  BY <1>1
<1> QED BY <1>1, <1>2, <1>3, <1>4 DEF Talk

\* The queue behind its first signal.
LEMMA TalkTail ==
  ASSUME NEW S, NEW q \in Seq(S), q # <<>>, NEW i
  PROVE  /\ \A k \in Talk(Tail(q), i) : k + 1 \in Talk(q, i) /\ Tail(q)[k] = q[k + 1]
         /\ \A k \in Talk(q, i) : k = 1 \/ (k - 1 \in Talk(Tail(q), i) /\ Tail(q)[k - 1] = q[k])
         /\ Talk(q, i) \subseteq Nat \ {0} /\ Talk(Tail(q), i) \subseteq Nat \ {0}
<1>1. /\ Len(q) \in Nat /\ DOMAIN q = 1..Len(q) /\ Len(q) > 0
      /\ DOMAIN Tail(q) = 1..(Len(q) - 1)
      /\ \A k \in 1..(Len(q) - 1) : Tail(q)[k] = q[k + 1]
  OBVIOUS
<1>2. \A k \in 1..Len(q) : k = 1 \/ (k - 1 \in 1..(Len(q) - 1) /\ q[(k - 1) + 1] = q[k])
  BY <1>1
<1> QED BY <1>1, <1>2 DEF Talk

\* The queue loses a signal that was not the consent of i's.
LEMMA PhaseTail ==
  ASSUME NEW S, NEW q \in Seq(S), q # <<>>, NEW i, NEW js, NEW cs, NEW ds,
         Phase(q, js, cs, ds, i), 1 \notin Talk(q, i)
  PROVE  Phase(Tail(q), js, cs, ds, i)
<1>1. /\ \A k \in Talk(Tail(q), i) : k + 1 \in Talk(q, i) /\ Tail(q)[k] = q[k + 1]
      /\ \A k \in Talk(q, i) : k - 1 \in Talk(Tail(q), i) /\ Tail(q)[k - 1] = q[k]
      /\ Talk(q, i) \subseteq Nat \ {0} /\ Talk(Tail(q), i) \subseteq Nat \ {0}
  BY TalkTail
<1>2. CASE Idle(q, js, cs, ds, i)
  BY <1>1, <1>2 DEF Idle, Phase
<1>3. CASE Asking(q, js, cs, ds, i)
  BY <1>1, <1>3 DEF Asking, Phase
<1>4. CASE Waiting(q, js, cs, i)
  BY <1>1, <1>4 DEF Waiting, Phase
<1>5. CASE Ended(q, js, cs, i)
  <2>1. PICK k \in Talk(q, i) :
          /\ Result(q[k]) /\ k + 1 \in Talk(q, i) /\ q[k + 1].news = "finished"
          /\ \A m \in Talk(q, i) \ {k, k + 1} : m < k /\ q[m].news = "challenge"
    BY <1>5 DEF Ended
  <2>2. PICK h \in Nat : h \in Talk(Tail(q), i) /\ Tail(q)[h] = q[k] /\ k = h + 1
    <3>1. k \in Nat \ {0} /\ k - 1 \in Talk(Tail(q), i) /\ Tail(q)[k - 1] = q[k]
      BY <1>1
    <3>2. k - 1 \in Nat /\ k = (k - 1) + 1
      BY <3>1
    <3> QED BY <3>1, <3>2
  <2>3. h + 1 \in Talk(Tail(q), i) /\ Tail(q)[h + 1] = q[k + 1]
    <3>1. (k + 1) - 1 = h + 1
      BY <2>2
    <3> QED BY <1>1, <2>1, <3>1
  <2>4. ASSUME NEW m \in Talk(Tail(q), i) \ {h, h + 1} PROVE m < h /\ Tail(q)[m].news = "challenge"
    <3>1. m \in Nat /\ m + 1 \in Talk(q, i) /\ Tail(q)[m] = q[m + 1]
      BY <1>1
    <3>2. m + 1 \notin {k, k + 1}
      BY <2>2, <3>1
    <3>3. m + 1 < k /\ q[m + 1].news = "challenge"
      BY <2>1, <3>1, <3>2
    <3>4. Tail(q)[m].news = "challenge"
      BY <3>1, <3>3
    <3>5. m < h
      <4>1. m + 1 < h + 1
        BY <2>2, <3>3
      <4>2. m \in Nat
        BY <3>1
      <4> QED BY <4>1, <4>2
    <3> QED BY <3>4, <3>5
  <2> QED BY <1>5, <2>1, <2>2, <2>3, <2>4 DEF Ended, Phase
<1>6. CASE Closing(q, js, cs, ds, i)
  <2>1. PICK k \in Talk(q, i) : Talk(q, i) = {k} /\ q[k].news = "finished"
    BY <1>6 DEF Closing
  <2>2. k - 1 \in Talk(Tail(q), i) /\ Tail(q)[k - 1] = q[k] /\ k \in Nat
    BY <1>1
  <2>3. \A m \in Talk(Tail(q), i) : m = k - 1
    BY <1>1, <2>1, <2>2
  <2> QED BY <1>6, <2>1, <2>2, <2>3 DEF Closing, Phase
<1> QED BY <1>2, <1>3, <1>4, <1>5, <1>6 DEF Phase

LEMMA PhaseInit == JobsInit => PhaseInv
BY DEF JobsInit, PhaseInv, Phase, Idle, Talk, Doing

\* The phases of the others while a job goes on or ends.
LEMMA PhaseOthers ==
  ASSUME OrphanInv, NEW j \in jobs, NEW js, NEW q,
         js = jobs \ {j} \/ (\E k : js = (jobs \ {j}) \cup {k} /\ k.kind = j.kind /\ k.id = j.id),
         \/ q = inbox
         \/ \E news : q = inbox \o <<Says(j, news)>> \/ q = inbox \o <<Says(j, news), Says(j, "finished")>>,
         NEW i, j.kind # "consent" \/ j.id # i
  PROVE  Phase(q, js, consents, dialogs, i)
<1>1. PICK S : inbox \in Seq(S)
  BY DEF OrphanInv, ConsentInv
<1>2. Talk(q, i) = Talk(inbox, i) /\ \A k \in Talk(inbox, i) : q[k] = inbox[k]
  <2>1. CASE q = inbox
    BY <2>1
  <2>2. ASSUME NEW news, q = inbox \o <<Says(j, news)>> \/ q = inbox \o <<Says(j, news), Says(j, "finished")>>
        PROVE  Talk(q, i) = Talk(inbox, i) /\ \A k \in Talk(inbox, i) : q[k] = inbox[k]
    <3>1. PICK a, b : a = Says(j, news) /\ b = Says(j, "finished")
      OBVIOUS
    <3>2. ~(a.kind = "consent" /\ a.id = i) /\ ~(b.kind = "consent" /\ b.id = i)
      BY <3>1 DEF Says
    <3>3. PICK T : /\ \A s \in T : s = a \/ s = b
                   /\ <<a>> \in Seq(T) /\ <<a, b>> \in Seq(T)
      <4>1. <<a>> \in Seq({a, b}) /\ <<a, b>> \in Seq({a, b})
        OBVIOUS
      <4> QED BY <4>1
    <3>4. PICK r \in Seq(T) : q = inbox \o r
      <4>1. CASE q = inbox \o <<a>>
        BY <3>3, <4>1
      <4>2. CASE q = inbox \o <<a, b>>
        BY <3>3, <4>2
      <4> QED BY <2>2, <3>1, <4>1, <4>2
    <3>5. Talk(r, i) = {}
      <4>1. \A k \in DOMAIN r : r[k] \in T
        BY <3>4
      <4> QED BY <3>2, <3>3, <4>1 DEF Talk
    <3>6. /\ \A k \in Talk(inbox, i) : k \in Talk(inbox \o r, i) /\ (inbox \o r)[k] = inbox[k]
          /\ \A k \in Talk(inbox \o r, i) :
               k \in Talk(inbox, i) \/ (\E m \in Talk(r, i) : k = Len(inbox) + m)
      BY <1>1, <3>4, TalkMore
    <3> QED BY <3>4, <3>5, <3>6
  <2> QED BY <2>1, <2>2
<1>3. Doing(js, i) = Doing(jobs, i)
  BY DEF Doing
<1>4. Phase(inbox, jobs, consents, dialogs, i)
  BY DEF OrphanInv, PhaseInv
<1> QED BY <1>2, <1>3, <1>4, PhaseKept

\* A consent that is under way has its only job, and has said at most its code.
LEMMA PhaseDoing ==
  ASSUME OrphanInv, NEW j \in jobs, j.kind = "consent"
  PROVE  /\ Doing(jobs, j.id) = {j} /\ j.id \in consents
         /\ \A k \in Talk(inbox, j.id) : inbox[k].news = "challenge"
         /\ j.stage = "ask" => j.id \notin dialogs /\ Talk(inbox, j.id) = {}
<1>1. j \in Doing(jobs, j.id)
  BY DEF Doing
<1>2. Phase(inbox, jobs, consents, dialogs, j.id)
  BY DEF OrphanInv, PhaseInv
<1>3. CASE Asking(inbox, jobs, consents, dialogs, j.id)
  BY <1>1, <1>3 DEF Asking
<1>4. CASE Waiting(inbox, jobs, consents, j.id)
  BY <1>1, <1>4 DEF Waiting
<1> QED BY <1>1, <1>2, <1>3, <1>4 DEF Phase, Idle, Ended, Closing

\* It goes on.
LEMMA PhaseOn ==
  ASSUME OrphanInv, NEW j \in jobs, j.kind = "consent", NEW k, k.kind = "consent", k.id = j.id,
         k.stage # "ask", NEW q,
         q = inbox \/ q = inbox \o <<Says(j, "challenge")>>
  PROVE  Phase(q, (jobs \ {j}) \cup {k}, consents, dialogs, j.id)
<1> DEFINE i == j.id
           js == (jobs \ {j}) \cup {k}
<1>1. PICK S : inbox \in Seq(S)
  BY DEF OrphanInv, ConsentInv
<1>2. /\ Doing(jobs, i) = {j} /\ i \in consents
      /\ \A n \in Talk(inbox, i) : inbox[n].news = "challenge"
  BY PhaseDoing
<1>3. Doing(js, i) = {k}
  BY <1>2 DEF Doing
<1>4. ASSUME NEW n \in Talk(q, i) PROVE q[n].news = "challenge"
  <2>1. CASE q = inbox
    BY <1>2, <2>1
  <2>2. CASE q = inbox \o <<Says(j, "challenge")>>
    <3>1. PICK a : a = Says(j, "challenge")
      OBVIOUS
    <3>2. PICK r : r = <<a>>
      OBVIOUS
    <3>3. /\ r \in Seq({a}) /\ \A m \in DOMAIN r : r[m].news = "challenge"
          /\ q = inbox \o r
      BY <2>2, <3>1, <3>2 DEF Says
    <3>4. CASE n \in Talk(inbox, i)
      BY <1>1, <1>2, <3>3, <3>4, TalkMore
    <3>5. ASSUME NEW m \in Talk(r, i), n = Len(inbox) + m PROVE q[n].news = "challenge"
      <4>1. q[n] = r[m]
        BY <1>1, <3>3, <3>5, TalkMore
      <4> QED BY <3>3, <3>5, <4>1 DEF Talk
    <3>6. n \in Talk(inbox, i) \/ \E m \in Talk(r, i) : n = Len(inbox) + m
      BY <1>1, <3>3, TalkMore
    <3> QED BY <3>4, <3>5, <3>6
  <2> QED BY <2>1, <2>2
<1>5. Waiting(q, js, consents, i)
  BY <1>2, <1>3, <1>4 DEF Waiting
<1> QED BY <1>5 DEF Phase

\* It ends with its result.
LEMMA PhaseOver ==
  ASSUME OrphanInv, NEW j \in jobs, j.kind = "consent", NEW news \in {"token", "nothing"}
  PROVE  Phase(inbox \o <<Says(j, news), Says(j, "finished")>>, jobs \ {j}, consents, dialogs, j.id)
<1> DEFINE i == j.id
           js == jobs \ {j}
<1>1. PICK S : inbox \in Seq(S)
  BY DEF OrphanInv, ConsentInv
<1>2. /\ Doing(jobs, i) = {j} /\ i \in consents
      /\ \A n \in Talk(inbox, i) : inbox[n].news = "challenge"
  BY PhaseDoing
<1>3. Doing(js, i) = {}
  BY <1>2 DEF Doing
<1>4. PICK a, b : a = Says(j, news) /\ b = Says(j, "finished")
  OBVIOUS
<1>5. /\ a.kind = "consent" /\ a.id = i /\ a.news = news
      /\ b.kind = "consent" /\ b.id = i /\ b.news = "finished"
  BY <1>4 DEF Says
<1>6. PICK r : r = <<a, b>>
  OBVIOUS
<1>7. r \in Seq({a, b}) /\ DOMAIN r = {1, 2} /\ r[1] = a /\ r[2] = b
  BY <1>6
<1>8. Talk(r, i) = {1, 2}
  BY <1>5, <1>7 DEF Talk
<1>9. PICK l \in Nat : l = Len(inbox)
  BY <1>1
<1> DEFINE q == inbox \o r
<1> HIDE DEF js, i
<1>10. /\ Talk(inbox, i) \subseteq 1..l /\ \A k \in Talk(inbox, i) : k \in Talk(q, i) /\ q[k] = inbox[k]
       /\ \A k \in {1, 2} : l + k \in Talk(q, i) /\ q[l + k] = r[k]
       /\ \A k \in Talk(q, i) : k \in Talk(inbox, i) \/ \E m \in {1, 2} : k = l + m
  <2>1. /\ Talk(inbox, i) \subseteq 1..Len(inbox)
        /\ \A k \in Talk(inbox, i) : k \in Talk(q, i) /\ q[k] = inbox[k]
        /\ \A k \in Talk(r, i) : Len(inbox) + k \in Talk(q, i) /\ q[Len(inbox) + k] = r[k]
        /\ \A k \in Talk(q, i) : k \in Talk(inbox, i) \/ (\E m \in Talk(r, i) : k = Len(inbox) + m)
    BY <1>1, <1>7, TalkMore
  <2> HIDE DEF q
  <2> QED BY <1>8, <1>9, <2>1
<1> HIDE DEF q
<1>11. Talk(q, i) = Talk(inbox, i) \cup {l + 1, l + 2}
  BY <1>10
<1>12. Result(q[l + 1]) /\ l + 1 \in Talk(q, i) /\ (l + 1) + 1 \in Talk(q, i) /\ q[(l + 1) + 1].news = "finished"
  <2>1. (l + 1) + 1 = l + 2
    BY <1>9
  <2> QED BY <1>5, <1>7, <1>10, <2>1 DEF Result
<1>13. ASSUME NEW m \in Talk(q, i) \ {l + 1, (l + 1) + 1} PROVE m < l + 1 /\ q[m].news = "challenge"
  <2>1. m \in Talk(inbox, i)
    BY <1>9, <1>11
  <2>2. m \in 1..l
    BY <1>10, <2>1
  <2>3. m < l + 1
    BY <1>9, <2>2
  <2> QED BY <1>2, <1>10, <2>1, <2>3
<1>14. Ended(q, js, consents, i)
  BY <1>2, <1>3, <1>12, <1>13 DEF Ended
<1>15. Phase(q, js, consents, dialogs, i)
  BY <1>14 DEF Phase
<1>16. q = inbox \o <<Says(j, news), Says(j, "finished")>>
  BY <1>4, <1>6 DEF q
<1> QED BY <1>15, <1>16 DEF js, i

LEMMA PhaseStep == ASSUME OrphanInv, NEW j \in jobs, JobStep(j) PROVE PhaseInv'
<1>1. Asks(j) /\ UNCHANGED <<consents, dialogs>>
  BY DEF OrphanInv, ConsentInv, JobStep
<1>2. ASSUME NEW news, Ends(j, news), j.kind = "consent" => news \in {"token", "nothing"}
      PROVE  PhaseInv'
  <2>1. /\ jobs' = jobs \ {j}
        /\ inbox' = inbox \o <<Says(j, news), Says(j, "finished")>>
    BY <1>2 DEF Ends
  <2>2. ASSUME NEW i PROVE Phase(inbox', jobs', consents', dialogs', i)
    <3>1. CASE j.kind # "consent" \/ j.id # i
      BY <1>1, <2>1, <3>1, PhaseOthers
    <3>2. CASE j.kind = "consent" /\ j.id = i
      BY <1>1, <1>2, <2>1, <3>2, PhaseOver
    <3> QED BY <3>1, <3>2
  <2> QED BY <2>2 DEF PhaseInv
<1>3. ASSUME NEW k, Becomes(j, k), k.kind = j.kind, k.id = j.id, k.stage # "ask",
             inbox' = inbox \/ inbox' = inbox \o <<Says(j, "challenge")>>
      PROVE  PhaseInv'
  <2>1. jobs' = (jobs \ {j}) \cup {k}
    BY <1>3 DEF Becomes
  <2>2. ASSUME NEW i PROVE Phase(inbox', jobs', consents', dialogs', i)
    <3>1. CASE j.kind # "consent" \/ j.id # i
      BY <1>1, <1>3, <2>1, <3>1, PhaseOthers
    <3>2. CASE j.kind = "consent" /\ j.id = i
      BY <1>1, <1>3, <2>1, <3>2, PhaseOn
    <3> QED BY <3>1, <3>2
  <2> QED BY <2>2 DEF PhaseInv
<1>4. DOMAIN j = {"kind", "id", "box", "stage", "polls", "cancelled", "copy"}
  BY <1>1 DEF Asks
<1>5. CASE RunJob(j)
  <2>1. j.kind # "consent"
    BY <1>1, <1>5 DEF RunJob, Asks
  <2> QED BY <1>2, <1>5, <2>1 DEF RunJob
<1>6. CASE AskForCode(j)
  <2>1. CASE Becomes(j, [j EXCEPT !.stage = "sleep"]) /\ inbox' = Append(inbox, Says(j, "challenge"))
    <3>1. PICK k : k = [j EXCEPT !.stage = "sleep"]
      OBVIOUS
    <3>2. k.kind = j.kind /\ k.id = j.id /\ k.stage # "ask"
      BY <1>4, <3>1
    <3>3. inbox' = inbox \o <<Says(j, "challenge")>>
      <4>1. PICK S : inbox \in Seq(S)
        BY DEF OrphanInv, ConsentInv
      <4>2. PICK a : a = Says(j, "challenge")
        OBVIOUS
      <4>3. Append(inbox, a) = inbox \o <<a>>
        <5>1. inbox \in Seq(S \cup {a})
          BY <4>1
        <5> QED BY <5>1
      <4> QED BY <2>1, <4>2, <4>3
    <3> QED BY <1>3, <2>1, <3>1, <3>2, <3>3
  <2> QED BY <1>2, <1>6, <2>1 DEF AskForCode
<1>7. CASE Wake(j)
  <2>1. CASE Becomes(j, [j EXCEPT !.stage = "request"]) /\ UNCHANGED inbox
    <3>1. PICK k : k = [j EXCEPT !.stage = "request"]
      OBVIOUS
    <3>2. k.kind = j.kind /\ k.id = j.id /\ k.stage # "ask"
      BY <1>4, <3>1
    <3> QED BY <1>3, <2>1, <3>1, <3>2
  <2> QED BY <1>2, <1>7, <2>1 DEF Wake
<1>8. CASE Reply(j)
  <2>1. ASSUME NEW n, Becomes(j, [j EXCEPT !.stage = "sleep", !.polls = n]), UNCHANGED inbox
        PROVE  PhaseInv'
    <3>1. PICK k : k = [j EXCEPT !.stage = "sleep", !.polls = n]
      OBVIOUS
    <3>2. k.kind = j.kind /\ k.id = j.id /\ k.stage # "ask"
      BY <1>4, <3>1
    <3> QED BY <1>3, <2>1, <3>1, <3>2
  <2> QED BY <1>2, <1>8, <2>1 DEF Reply
<1> QED BY <1>5, <1>6, <1>7, <1>8 DEF JobStep

\* The window takes the first signal: a result closes the code it is about, the
\* end of a worker forgets it.
LEMMA PhaseSignal == ASSUME OrphanInv, HandleSignal PROVE PhaseInv'
<1>1. PICK S : inbox \in Seq(S)
  BY DEF OrphanInv, ConsentInv
<1>2. PICK s : s = Head(inbox) /\ inbox # <<>> /\ inbox' = Tail(inbox) /\ UNCHANGED jobs
               /\ (Discovered(s) \/ Audited(s) \/ Challenged(s) \/ Consented(s) \/ Finished(s))
  BY DEF HandleSignal
<1>3. s = inbox[1] /\ 1 \in DOMAIN inbox
  BY <1>1, <1>2
<1>4. /\ consents' = consents \/ (s.news = "finished" /\ s.kind = "consent" /\ consents' = consents \ {s.id})
      /\ \/ dialogs' = dialogs
         \/ s.kind = "consent" /\ s.news = "challenge" /\ dialogs' = dialogs \cup {s.id}
         \/ s.kind = "consent" /\ Result(s) /\ dialogs' = dialogs \ {s.id}
  <2>1. CASE Discovered(s) \/ Audited(s)
    BY <2>1 DEF Discovered, Audited
  <2>2. CASE Challenged(s)
    BY <2>2 DEF Challenged
  <2>3. CASE Consented(s)
    BY <2>3 DEF Consented, ClosedBy, Result
  <2>4. CASE Finished(s)
    <3>1. s.kind = "consent" => s.news = "finished"
      BY <2>4 DEF Finished
    <3> QED BY <2>4, <3>1 DEF Finished
  <2> QED BY <1>2, <2>1, <2>2, <2>3, <2>4
<1>5. ASSUME s.kind = "consent"
      PROVE  /\ s.news = "finished" => consents' = consents \ {s.id} /\ dialogs' = dialogs
             /\ Result(s) => dialogs' = dialogs \ {s.id} /\ consents' = consents
             /\ s.news = "challenge" => consents' = consents
  <2>1. CASE Discovered(s) \/ Audited(s)
    BY <1>5, <2>1 DEF Discovered, Audited
  <2>2. CASE Challenged(s)
    BY <2>2 DEF Challenged, Result
  <2>3. CASE Consented(s)
    BY <2>3 DEF Consented, ClosedBy, Result
  <2>4. CASE Finished(s)
    BY <1>5, <2>4 DEF Finished, Result
  <2> QED BY <1>2, <2>1, <2>2, <2>3, <2>4
<1>6. ASSUME NEW i PROVE Phase(inbox', jobs', consents', dialogs', i)
  <2>1. Phase(inbox, jobs, consents, dialogs, i)
    BY DEF OrphanInv, PhaseInv
  <2>2. /\ \A k \in Talk(inbox', i) : k + 1 \in Talk(inbox, i) /\ inbox'[k] = inbox[k + 1]
        /\ \A k \in Talk(inbox, i) : k = 1 \/ (k - 1 \in Talk(inbox', i) /\ inbox'[k - 1] = inbox[k])
        /\ Talk(inbox, i) \subseteq Nat \ {0} /\ Talk(inbox', i) \subseteq Nat \ {0}
    BY <1>1, <1>2, TalkTail
  <2>3. CASE 1 \notin Talk(inbox, i)
    <3>1. ~(s.kind = "consent" /\ s.id = i)
      BY <1>3, <2>3 DEF Talk
    <3>2. (i \in consents' <=> i \in consents) /\ (i \in dialogs' <=> i \in dialogs)
      BY <1>4, <3>1
    <3>3. Phase(inbox', jobs, consents, dialogs, i)
      BY <1>1, <1>2, <2>1, <2>3, PhaseTail
    <3> QED BY <1>2, <3>2, <3>3, PhaseKept
  <2>4. CASE 1 \in Talk(inbox, i)
    <3>1. s.kind = "consent" /\ s.id = i
      BY <1>3, <2>4 DEF Talk
    <3>2. CASE Waiting(inbox, jobs, consents, i)
      <4>1. s.news = "challenge" /\ consents' = consents
        BY <1>3, <1>5, <2>4, <3>1, <3>2 DEF Waiting
      <4>2. Waiting(inbox', jobs, consents, i)
        BY <2>2, <3>2 DEF Waiting
      <4> QED BY <1>2, <4>1, <4>2 DEF Phase
    <3>3. CASE Closing(inbox, jobs, consents, dialogs, i)
      <4>1. Talk(inbox, i) = {1} /\ s.news = "finished"
        BY <1>3, <2>4, <3>3 DEF Closing
      <4>2. Talk(inbox', i) = {}
        <5> SUFFICES ASSUME NEW k \in Talk(inbox', i) PROVE FALSE
          OBVIOUS
        <5>1. k + 1 = 1 /\ k \in Nat \ {0}
          BY <2>2, <4>1
        <5> QED BY <5>1
      <4>3. i \notin consents' /\ i \notin dialogs'
        BY <1>5, <3>1, <3>3, <4>1 DEF Closing
      <4>4. Doing(jobs', i) = {}
        BY <1>2, <3>3 DEF Closing
      <4> QED BY <4>2, <4>3, <4>4 DEF Idle, Phase
    <3>4. CASE Ended(inbox, jobs, consents, i)
      <4>1. PICK k \in Talk(inbox, i) :
              /\ Result(inbox[k]) /\ k + 1 \in Talk(inbox, i) /\ inbox[k + 1].news = "finished"
              /\ \A m \in Talk(inbox, i) \ {k, k + 1} : m < k /\ inbox[m].news = "challenge"
        BY <3>4 DEF Ended
      <4>2. k \in Nat \ {0}
        BY <2>2
      <4>3. CASE k = 1
        <5>1. consents' = consents /\ i \notin dialogs'
          BY <1>3, <1>5, <3>1, <4>1, <4>3
        <5>2. Talk(inbox, i) = {1, 2} /\ inbox[2].news = "finished"
          <6>1. \A m \in Talk(inbox, i) \ {1, 2} : m < 1 /\ m \in Nat \ {0}
            BY <2>2, <4>1, <4>3
          <6>2. 2 \in Talk(inbox, i) /\ inbox[2].news = "finished"
            BY <4>1, <4>3
          <6> QED BY <2>4, <6>1, <6>2
        <5>3. 1 \in Talk(inbox', i) /\ inbox'[1].news = "finished"
          <6>1. 2 - 1 = 1 /\ 2 \in Talk(inbox, i)
            BY <5>2
          <6> QED BY <2>2, <5>2, <6>1
        <5>4. ASSUME NEW m \in Talk(inbox', i) PROVE m = 1
          <6>1. m + 1 \in {1, 2} /\ m \in Nat \ {0}
            BY <2>2, <5>2
          <6> QED BY <6>1
        <5>5. i \in consents /\ Doing(jobs, i) = {}
          BY <3>4 DEF Ended
        <5> QED BY <1>2, <5>1, <5>3, <5>4, <5>5 DEF Closing, Phase
      <4>4. CASE k # 1
        <5>1. 1 \notin {k, k + 1}
          BY <4>2, <4>4
        <5>2. s.news = "challenge" /\ consents' = consents
          BY <1>3, <1>5, <2>4, <3>1, <4>1, <5>1
        <5>3. PICK h \in Nat \ {0} : h = k - 1 /\ k = h + 1
          BY <4>2, <4>4
        <5>4. h \in Talk(inbox', i) /\ inbox'[h] = inbox[k]
          BY <2>2, <4>4, <5>3
        <5>5. h + 1 \in Talk(inbox', i) /\ inbox'[h + 1] = inbox[k + 1]
          <6>1. (k + 1) - 1 = h + 1 /\ k + 1 # 1
            BY <4>2, <5>3
          <6> QED BY <2>2, <4>1, <6>1
        <5>6. ASSUME NEW m \in Talk(inbox', i) \ {h, h + 1}
              PROVE  m < h /\ inbox'[m].news = "challenge"
          <6>1. m \in Nat /\ m + 1 \in Talk(inbox, i) /\ inbox'[m] = inbox[m + 1]
            BY <2>2
          <6>2. m + 1 \notin {k, k + 1}
            BY <5>3, <6>1
          <6>3. m + 1 < k /\ inbox[m + 1].news = "challenge"
            BY <4>1, <6>1, <6>2
          <6>4. inbox'[m].news = "challenge"
            BY <6>1, <6>3
          <6>5. m < h
            <7>1. m + 1 < h + 1
              BY <5>3, <6>3
            <7>2. m \in Nat
              BY <6>1
            <7> QED BY <7>1, <7>2
          <6> QED BY <6>4, <6>5
        <5>7. i \in consents /\ Doing(jobs, i) = {}
          BY <3>4 DEF Ended
        <5>8. Ended(inbox', jobs, consents, i)
          BY <4>1, <5>4, <5>5, <5>6, <5>7 DEF Ended
        <5> QED BY <1>2, <5>2, <5>8 DEF Phase
      <4> QED BY <4>3, <4>4
    <3> QED BY <2>1, <2>4, <3>2, <3>3, <3>4 DEF Phase, Idle, Asking
  <2> QED BY <2>3, <2>4
<1> QED BY <1>6 DEF PhaseInv

\* What else the window does: start jobs, and take consents back.
LEMMA PhaseWindow ==
  OrphanInv /\ (StartJob \/ Delete \/ AnswerBox \/ CancelConsent \/ UNCHANGED jobVars) => PhaseInv'
<1> SUFFICES ASSUME OrphanInv, StartJob \/ Delete \/ AnswerBox \/ CancelConsent \/ UNCHANGED jobVars
             PROVE  PhaseInv'
  OBVIOUS
<1>1. UNCHANGED <<inbox, dialogs>>
  <2>1. CASE StartJob
    BY <2>1 DEF StartJob
  <2>2. CASE Delete
    BY <2>2 DEF Delete
  <2>3. CASE AnswerBox
    BY <2>3 DEF AnswerBox
  <2>4. CASE CancelConsent
    BY <2>4 DEF CancelConsent
  <2>5. CASE UNCHANGED jobVars
    BY <2>5 DEF jobVars
  <2> QED BY <2>1, <2>2, <2>3, <2>4, <2>5
<1>2. ASSUME NEW i, Doing(jobs', i) = Doing(jobs, i), i \in consents' <=> i \in consents
      PROVE  Phase(inbox', jobs', consents', dialogs', i)
  <2>1. Phase(inbox, jobs, consents, dialogs, i)
    BY DEF OrphanInv, PhaseInv
  <2> QED BY <1>1, <1>2, <2>1, PhaseKept
<1>3. ASSUME NEW kind, kind # "consent", NEW i, jobs' = jobs \cup {NewJob(kind, i)} \/ jobs' = jobs,
             UNCHANGED consents
      PROVE  PhaseInv'
  <2>1. NewJob(kind, i).kind # "consent"
    BY <1>3 DEF NewJob
  <2>2. \A k : Doing(jobs', k) = Doing(jobs, k)
    BY <1>3, <2>1 DEF Doing
  <2> QED BY <1>2, <1>3, <2>2 DEF PhaseInv
<1>4. CASE StartJob
  BY <1>3, <1>4 DEF StartJob
<1>5. CASE Delete \/ UNCHANGED jobVars
  <2>1. UNCHANGED <<jobs, consents>>
    BY <1>5 DEF Delete, jobVars
  <2> QED BY <1>2, <2>1 DEF PhaseInv
<1>6. CASE AnswerBox
  <2>1. CASE UNCHANGED <<jobs, consents>>
    BY <1>2, <2>1 DEF PhaseInv
  <2>2. ASSUME NEW n, n \notin consents, jobs' = jobs \cup {NewJob("consent", n)},
               consents' = consents \cup {n}
        PROVE  PhaseInv'
    <3>1. ASSUME NEW i, i # n PROVE Phase(inbox', jobs', consents', dialogs', i)
      <4>1. NewJob("consent", n).id = n
        BY DEF NewJob
      <4>2. Doing(jobs', i) = Doing(jobs, i)
        BY <2>2, <3>1, <4>1 DEF Doing
      <4> QED BY <1>2, <2>2, <3>1, <4>2
    <3>2. Phase(inbox', jobs', consents', dialogs', n)
      <4>1. Idle(inbox, jobs, consents, dialogs, n)
        BY <2>2 DEF OrphanInv, PhaseInv, Phase, Asking, Waiting, Ended, Closing
      <4>2. PICK j : j = NewJob("consent", n)
        OBVIOUS
      <4>3. j.kind = "consent" /\ j.id = n /\ j.stage = "ask"
        BY <4>2 DEF NewJob
      <4>4. Doing(jobs', n) = {j} /\ j \in jobs'
        BY <2>2, <4>1, <4>2, <4>3 DEF Idle, Doing
      <4>5. Asking(inbox', jobs', consents', dialogs', n)
        BY <1>1, <2>2, <4>1, <4>3, <4>4 DEF Idle, Asking
      <4> QED BY <4>5 DEF Phase
    <3> QED BY <3>1, <3>2 DEF PhaseInv
  <2>3. PICK b : \/ b.about = "permission" /\ StartConsent(b.id)
                 \/ b.about = "permission" /\ UNCHANGED <<jobs, consents>>
                 \/ /\ b.about = "saved" /\ UNCHANGED consents
                    /\ jobs' = jobs \cup (IF b.id \in DOMAIN accounts THEN {NewJob("audit", b.id)} ELSE {})
    BY <1>6 DEF AnswerBox
  <2>4. CASE StartConsent(b.id)
    BY <2>1, <2>2, <2>4 DEF StartConsent
  <2>5. CASE /\ UNCHANGED consents
             /\ jobs' = jobs \cup (IF b.id \in DOMAIN accounts THEN {NewJob("audit", b.id)} ELSE {})
    <3>1. jobs' = jobs \cup {NewJob("audit", b.id)} \/ jobs' = jobs
      BY <2>5
    <3> QED BY <1>3, <2>5, <3>1
  <2> QED BY <2>1, <2>3, <2>4, <2>5
<1>7. CASE CancelConsent
  <2>1. PICK n : /\ n = Last(windows).id
                 /\ jobs' = {IF j.kind = "consent" /\ j.id = n /\ j.id \in consents
                             THEN [j EXCEPT !.cancelled = j.stage] ELSE j : j \in jobs}
    BY <1>7 DEF CancelConsent
  <2>2. UNCHANGED consents
    BY <1>7 DEF CancelConsent
  <2> DEFINE T(j) == IF j.kind = "consent" /\ j.id = n /\ j.id \in consents
                     THEN [j EXCEPT !.cancelled = j.stage] ELSE j
  <2>3. \A j \in jobs : T(j).kind = j.kind /\ T(j).id = j.id /\ T(j).stage = j.stage
    <3> SUFFICES ASSUME NEW j \in jobs PROVE T(j).kind = j.kind /\ T(j).id = j.id /\ T(j).stage = j.stage
      OBVIOUS
    <3>1. DOMAIN j = {"kind", "id", "box", "stage", "polls", "cancelled", "copy"}
      BY DEF OrphanInv, ConsentInv, Asks
    <3> QED BY <3>1
  <2>4. jobs' = {T(j) : j \in jobs}
    BY <2>1
  <2> HIDE DEF T
  <2>5. ASSUME NEW i PROVE Doing(jobs', i) = {T(j) : j \in Doing(jobs, i)}
    BY <2>3, <2>4 DEF Doing
  <2>6. ASSUME NEW i PROVE Phase(inbox', jobs', consents', dialogs', i)
    <3>1. Phase(inbox, jobs, consents, dialogs, i)
      BY DEF OrphanInv, PhaseInv
    <3>2. CASE Doing(jobs, i) = {}
      <4>1. Doing(jobs', i) = Doing(jobs, i)
        BY <2>5, <3>2
      <4> QED BY <1>2, <2>2, <4>1
    <3>3. ASSUME NEW j \in jobs, Doing(jobs, i) = {j} PROVE Phase(inbox', jobs', consents', dialogs', i)
      <4>1. Doing(jobs', i) = {T(j)} /\ T(j) \in jobs'
        BY <2>4, <2>5, <3>3
      <4>2. CASE Asking(inbox, jobs, consents, dialogs, i)
        <5>1. j.stage = "ask"
          BY <3>3, <4>2 DEF Asking
        <5>2. Asking(inbox', jobs', consents', dialogs', i)
          BY <1>1, <2>2, <2>3, <4>1, <4>2, <5>1 DEF Asking
        <5> QED BY <5>2 DEF Phase
      <4>3. CASE Waiting(inbox, jobs, consents, i)
        <5>1. j.stage # "ask"
          BY <3>3, <4>3 DEF Waiting
        <5>2. Waiting(inbox', jobs', consents', i)
          BY <1>1, <2>2, <2>3, <4>1, <4>3, <5>1 DEF Waiting
        <5> QED BY <5>2 DEF Phase
      <4> QED BY <3>1, <3>3, <4>2, <4>3 DEF Phase, Idle, Ended, Closing
    <3> QED BY <3>1, <3>2, <3>3 DEF Phase, Idle, Asking, Waiting, Ended, Closing
  <2> QED BY <2>6 DEF PhaseInv
<1> QED BY <1>4, <1>5, <1>6, <1>7

\* _start_security_consent to _security_consent_finished: a device code that is open
\* has its worker, or a result on the way that closes it.
THEOREM CodesHold == Spec => []NoOrphanDialog
<1>1. JobsInit => OrphanInv
  BY ConsentInit, PhaseInit DEF OrphanInv
<1>2. OrphanInv /\ [Next]_vars => OrphanInv'
  <2> SUFFICES ASSUME OrphanInv, [Next]_vars PROVE OrphanInv'
    OBVIOUS
  <2>1. ConsentInv'
    BY ConsentStep, ConsentWindow DEF OrphanInv, Next, vars
  <2>2. PhaseInv'
    BY PhaseStep, PhaseSignal, PhaseWindow DEF Next, vars
  <2> QED BY <2>1, <2>2 DEF OrphanInv
<1>3. OrphanInv => NoOrphanDialog
  <2> SUFFICES ASSUME OrphanInv, NEW i \in dialogs
               PROVE  /\ i \in consents
                      /\ \/ \E j \in jobs : j.kind = "consent" /\ j.id = i
                         \/ \E k \in DOMAIN inbox : inbox[k].kind = "consent" /\ inbox[k].id = i
                                                      /\ inbox[k].news \in {"token", "nothing"}
    BY DEF NoOrphanDialog
  <2>1. Waiting(inbox, jobs, consents, i) \/ Ended(inbox, jobs, consents, i)
    BY DEF OrphanInv, PhaseInv, Phase, Idle, Asking, Closing
  <2>2. CASE Waiting(inbox, jobs, consents, i)
    BY <2>2 DEF Waiting, Doing
  <2>3. CASE Ended(inbox, jobs, consents, i)
    BY <2>3 DEF Ended, Talk, Result
  <2> QED BY <2>1, <2>2, <2>3
<1> QED BY <1>1, <1>2, <1>3, PTL DEF Spec

-----------------------------------------------------------------------------
(***************************************************************************)
(* Induction along a file.                                                 *)
(***************************************************************************)
\* The numbers from 0 on are all reached one by one.
LEMMA Upwards ==
  ASSUME NEW T, 0 \in T, \A n \in Nat : n \in T => n + 1 \in T
  PROVE  Nat \subseteq T
<1> SUFFICES ASSUME ~(Nat \subseteq T) PROVE FALSE
  OBVIOUS
<1> DEFINE U == Nat \ T
<1>1. U \subseteq Nat /\ U # {}
  OBVIOUS
<1>2. PICK x \in U : \A y \in U : <<y, x>> \notin OpToRel(<, Nat)
  BY <1>1, NatLessThanWellFounded, WFMin
<1>3. x \in Nat /\ x \notin T /\ x # 0
  BY <1>2
<1>4. x - 1 \in Nat /\ x - 1 < x /\ (x - 1) + 1 = x
  BY <1>3
<1>5. <<x - 1, x>> \in OpToRel(<, Nat)
  BY <1>3, <1>4 DEF OpToRel
<1>6. x - 1 \in T
  BY <1>2, <1>4, <1>5
<1> QED BY <1>3, <1>4, <1>6

\* Of finitely many numbers one is the largest.
LEMMA Largest ==
  ASSUME NEW n \in Nat, NEW s \in SUBSET (0..n), s # {}
  PROVE  Max(s) \in s /\ \A y \in s : y <= Max(s)
<1> DEFINE T == {k \in Nat : \A r \in SUBSET (0..k) : r # {} => \E x \in r : \A y \in r : x >= y}
<1>1. 0 \in T
  <2>1. ASSUME NEW r \in SUBSET (0..0), r # {} PROVE \E x \in r : \A y \in r : x >= y
    <3>1. \A y \in r : y = 0
      OBVIOUS
    <3>2. 0 \in r
      BY <2>1, <3>1
    <3> QED BY <3>1, <3>2
  <2> QED BY <2>1
<1>2. ASSUME NEW k \in Nat, k \in T PROVE k + 1 \in T
  <2> SUFFICES ASSUME NEW r \in SUBSET (0..(k + 1)), r # {}
               PROVE  \E x \in r : \A y \in r : x >= y
    OBVIOUS
  <2>1. CASE k + 1 \in r
    BY <2>1
  <2>2. CASE k + 1 \notin r
    <3>1. r \in SUBSET (0..k)
      BY <2>2
    <3> QED BY <1>2, <3>1
  <2> QED BY <2>1, <2>2
<1> HIDE DEF T
<1>3. n \in T
  BY <1>1, <1>2, Upwards
<1>4. \E x \in s : \A y \in s : x >= y
  BY <1>3 DEF T
<1>5. Max(s) \in s /\ \A y \in s : Max(s) >= y
  BY <1>4 DEF Max
<1>6. \A y \in s : y \in Nat
  OBVIOUS
<1> QED BY <1>5, <1>6

\* What is left of a set of numbers up to k + 1 without its largest.
LEMMA WithoutLargest ==
  ASSUME NEW k \in Nat, NEW s \in SUBSET (1..(k + 1)), s # {}
  PROVE  Max(s) \in s /\ s \ {Max(s)} \in SUBSET (1..k)
<1>1. PICK n \in Nat : n = k + 1 /\ s \in SUBSET (0..n)
  OBVIOUS
<1>2. Max(s) \in s /\ \A y \in s : y <= Max(s)
  BY <1>1, Largest
<1>3. ASSUME NEW y \in s, y # Max(s) PROVE y \in 1..k
  <2>1. y \in 1..(k + 1) /\ Max(s) \in 1..(k + 1) /\ y <= Max(s)
    BY <1>2
  <2>2. y < k + 1
    BY <1>3, <2>1
  <2> QED BY <2>1, <2>2
<1> QED BY <1>2, <1>3

-----------------------------------------------------------------------------
(***************************************************************************)
(* An import, line by line.                                                *)
(***************************************************************************)
\* What the line i of the file makes of the rows, and all lines one after another.
Taken(kept, file, rows, i) == IF i \in kept THEN AddOne(rows, Parsed(file[i])) ELSE rows

Imported(kept, file, rows) ==
  LET Take(r, i) == IF i \in kept THEN AddOne(r, Parsed(file[i])) ELSE r
  IN  FoldLeftDomain(Take, rows, file)

\* g is the fold over the lines of s.
Folds(g, n, kept, file, rows) ==
  g = [s \in SUBSET (1..n) |-> IF s = {} THEN rows
                               ELSE Taken(kept, file, g[s \ {Max(s)}], Max(s))]

LEMMA FoldExists ==
  ASSUME NEW n \in Nat, NEW kept, NEW file, NEW rows
  PROVE  \E g : Folds(g, n, kept, file, rows)
<1> DEFINE T == {k \in Nat : \E g : Folds(g, k, kept, file, rows)}
<1>1. 0 \in T
  <2>1. SUBSET (1..0) = {{}}
    OBVIOUS
  <2>2. PICK g : g = [s \in SUBSET (1..0) |-> rows]
    OBVIOUS
  <2>3. Folds(g, 0, kept, file, rows)
    BY <2>1, <2>2 DEF Folds
  <2> QED BY <2>3
<1>2. ASSUME NEW k \in Nat, k \in T PROVE k + 1 \in T
  <2>1. PICK g : Folds(g, k, kept, file, rows)
    BY <1>2
  <2>2. PICK h : h = [s \in SUBSET (1..(k + 1)) |->
                        IF s = {} THEN rows ELSE Taken(kept, file, g[s \ {Max(s)}], Max(s))]
    OBVIOUS
  <2>3. ASSUME NEW s \in SUBSET (1..k) PROVE h[s] = g[s]
    <3>1. s \in SUBSET (1..(k + 1))
      OBVIOUS
    <3>2. g[s] = IF s = {} THEN rows ELSE Taken(kept, file, g[s \ {Max(s)}], Max(s))
      BY <2>1 DEF Folds
    <3>3. h[s] = IF s = {} THEN rows ELSE Taken(kept, file, g[s \ {Max(s)}], Max(s))
      BY <2>2, <3>1
    <3> QED BY <3>2, <3>3
  <2>4. ASSUME NEW s \in SUBSET (1..(k + 1))
        PROVE  h[s] = IF s = {} THEN rows ELSE Taken(kept, file, h[s \ {Max(s)}], Max(s))
    <3>1. CASE s = {}
      BY <2>2, <3>1
    <3>2. CASE s # {}
      <4>1. s \ {Max(s)} \in SUBSET (1..k)
        BY <3>2, WithoutLargest
      <4>2. h[s \ {Max(s)}] = g[s \ {Max(s)}]
        BY <2>3, <4>1
      <4>3. h[s] = Taken(kept, file, g[s \ {Max(s)}], Max(s))
        BY <2>2, <3>2
      <4> QED BY <3>2, <4>2, <4>3
    <3> QED BY <3>1, <3>2
  <2>5. h = [s \in SUBSET (1..(k + 1)) |->
               IF s = {} THEN rows ELSE Taken(kept, file, h[s \ {Max(s)}], Max(s))]
    <3>1. \A s \in SUBSET (1..(k + 1)) :
            h[s] = IF s = {} THEN rows ELSE Taken(kept, file, h[s \ {Max(s)}], Max(s))
      BY <2>4
    <3> QED BY <2>2, <3>1
  <2>6. Folds(h, k + 1, kept, file, rows)
    BY <2>5 DEF Folds
  <2> QED BY <2>6
<1> HIDE DEF T
<1>3. n \in T
  BY <1>1, <1>2, Upwards
<1> QED BY <1>3 DEF T

\* An import takes the kept lines in order.
LEMMA ImportSteps ==
  ASSUME NEW S, NEW file \in Seq(S), NEW kept, NEW rows
  PROVE  \E f : /\ f[0] = rows /\ f[Len(file)] = Imported(kept, file, rows)
                /\ \A k \in Nat : k < Len(file) => f[k + 1] = Taken(kept, file, f[k], k + 1)
<1> DEFINE n == Len(file)
           E(g) == g = [s \in SUBSET DOMAIN [i \in DOMAIN file |-> i] |->
                          IF s = {} THEN rows
                          ELSE IF [i \in DOMAIN file |-> i][Max(s)] \in kept
                               THEN AddOne(g[s \ {Max(s)}], Parsed(file[[i \in DOMAIN file |-> i][Max(s)]]))
                               ELSE g[s \ {Max(s)}]]
<1>1. Imported(kept, file, rows) = (CHOOSE g : E(g))[DOMAIN [i \in DOMAIN file |-> i]]
  BY DEF Imported, FoldLeftDomain, FoldLeft, MapThenFoldSet
<1>2. n \in Nat /\ DOMAIN file = 1..n /\ DOMAIN [i \in DOMAIN file |-> i] = 1..n
  OBVIOUS
<1>3. PICK g : Folds(g, n, kept, file, rows)
  BY <1>2, FoldExists
<1>4. ASSUME NEW s \in SUBSET (1..n), s # {} PROVE [i \in DOMAIN file |-> i][Max(s)] = Max(s)
  <2>1. s \in SUBSET (0..n)
    OBVIOUS
  <2> QED BY <1>2, <1>4, <2>1, Largest
<1>5. ASSUME NEW h PROVE E(h) <=> Folds(h, n, kept, file, rows)
  <2> DEFINE L(s) == IF s = {} THEN rows
                     ELSE IF [i \in DOMAIN file |-> i][Max(s)] \in kept
                          THEN AddOne(h[s \ {Max(s)}], Parsed(file[[i \in DOMAIN file |-> i][Max(s)]]))
                          ELSE h[s \ {Max(s)}]
             R(s) == IF s = {} THEN rows ELSE Taken(kept, file, h[s \ {Max(s)}], Max(s))
  <2>1. ASSUME NEW s \in SUBSET (1..n) PROVE L(s) = R(s)
    BY <1>4 DEF Taken
  <2>2. E(h) <=> h = [s \in SUBSET (1..n) |-> L(s)]
    BY <1>2
  <2>3. Folds(h, n, kept, file, rows) <=> h = [s \in SUBSET (1..n) |-> R(s)]
    BY DEF Folds
  <2> HIDE DEF L, R
  <2>4. [s \in SUBSET (1..n) |-> L(s)] = [s \in SUBSET (1..n) |-> R(s)]
    BY <2>1
  <2> HIDE DEF E
  <2> QED BY <2>2, <2>3, <2>4
<1>6. PICK c : Folds(c, n, kept, file, rows) /\ Imported(kept, file, rows) = c[1..n]
  <2>1. E(g)
    BY <1>3, <1>5
  <2> HIDE DEF E
  <2>2. E(CHOOSE h : E(h))
    BY <2>1
  <2>3. Folds(CHOOSE h : E(h), n, kept, file, rows)
    BY <1>5, <2>2
  <2> QED BY <1>1, <1>2, <2>3
<1>7. PICK f : f = [k \in Nat |-> c[1..k]]
  OBVIOUS
<1>8. f[0] = rows /\ f[n] = Imported(kept, file, rows)
  <2>1. 1..0 = {} /\ {} \in SUBSET (1..n)
    OBVIOUS
  <2>2. c[{}] = rows
    BY <1>6, <2>1 DEF Folds
  <2> QED BY <1>2, <1>6, <1>7, <2>1, <2>2
<1>9. ASSUME NEW k \in Nat, k < n PROVE f[k + 1] = Taken(kept, file, f[k], k + 1)
  <2> DEFINE s == 1..(k + 1)
  <2>1. s \in SUBSET (1..n) /\ s # {} /\ k + 1 \in s /\ k + 1 \in Nat
    <3>1. k + 1 \in Nat /\ k + 1 <= n /\ k + 1 \in s
      BY <1>2, <1>9
    <3>2. \A y \in 1..(k + 1) : y \in 1..n
      BY <1>2, <3>1
    <3> QED BY <3>1, <3>2
  <2>2. Max(s) \in s /\ k + 1 <= Max(s)
    <3>1. s \in SUBSET (0..n)
      BY <2>1
    <3> QED BY <1>2, <2>1, <3>1, Largest
  <2>3. Max(s) = k + 1
    BY <2>2
  <2>4. s \ {k + 1} = 1..k
    OBVIOUS
  <2> HIDE DEF s
  <2>5. c[s] = Taken(kept, file, c[s \ {Max(s)}], Max(s))
    BY <1>6, <2>1 DEF Folds
  <2>6. f[k + 1] = c[s] /\ f[k] = c[1..k]
    BY <1>7, <2>1 DEF s
  <2> QED BY <2>3, <2>4, <2>5, <2>6
<1> HIDE DEF n
<1> QED BY <1>8, <1>9 DEF n

\* A table of rows with rowids up to some number, one row of each address and protocol.
Fields == {"box", "proto", "config", "host", "token", "group", "proxy", "tags"}

Table(rows) == /\ \E n \in Nat : DOMAIN rows \subseteq 1..n
               /\ \A a \in DOMAIN rows : DOMAIN rows[a] = Fields
               /\ OneEach(rows)

\* What an import may do to a table.
Own(row)     == row.host = row.box /\ row.token = row.box
Refiled(o, n) == n.box = o.box /\ n.group = o.group /\ n.proxy = o.proxy /\ n.tags = o.tags
Imports(old, new) ==
  /\ \A a \in DOMAIN old : a \in DOMAIN new /\ Refiled(old[a], new[a]) /\ (new[a] = old[a] \/ Own(new[a]))
  /\ \A a \in DOMAIN new \ DOMAIN old : Own(new[a])

LEMMA ImportsOn ==
  ASSUME NEW r1, NEW r2, NEW r3, Imports(r1, r2), Imports(r2, r3)
  PROVE  Imports(r1, r3)
BY DEF Imports, Refiled

\* The next rowid is not in use.
LEMMA FreshRowid ==
  ASSUME NEW rows, NEW n \in Nat, DOMAIN rows \subseteq 1..n
  PROVE  Fresh(rows) \notin DOMAIN rows /\ Fresh(rows) \in 1..(n + 1)
<1> DEFINE s == {0} \cup DOMAIN rows
<1>1. s \in SUBSET (0..n) /\ s # {}
  OBVIOUS
<1>2. Max(s) \in s /\ \A y \in s : y <= Max(s)
  BY <1>1, Largest
<1>3. Fresh(rows) = 1 + Max(s)
  BY DEF Fresh
<1> HIDE DEF s
<1>4. Max(s) \in 0..n
  BY <1>1, <1>2
<1>5. Fresh(rows) \notin s
  BY <1>2, <1>3, <1>4
<1> QED BY <1>3, <1>4, <1>5 DEF s

\* A line adds a row to the table, or changes the row it is about.
LEMMA OneLine ==
  ASSUME NEW rows, Table(rows), NEW e
  PROVE  Table(AddOne(rows, e)) /\ Imports(rows, AddOne(rows, e))
<1> DEFINE Of(p) == {a \in DOMAIN rows : rows[a].box = e.box /\ rows[a].proto = p}
<1>1. /\ Existing(rows, e) \subseteq DOMAIN rows
      /\ \A a \in Existing(rows, e) : rows[a].box = e.box /\ (rows[a].proto = e.proto \/ Of(e.proto) = {})
      /\ Existing(rows, e) = {} => Of(e.proto) = {}
  BY DEF Existing
<1> HIDE DEF Of
<1>2. ASSUME NEW a \in DOMAIN rows, rows[a].box = e.box, rows[a].proto = e.proto PROVE a \in Of(e.proto)
  BY <1>2 DEF Of
<1>3. PICK n \in Nat : DOMAIN rows \subseteq 1..n
  BY DEF Table
<1>4. Imports(rows, rows)
  BY DEF Imports, Refiled
<1>5. CASE Existing(rows, e) = {}
  <2>1. PICK i : i = Fresh(rows) /\ i \notin DOMAIN rows /\ i \in 1..(n + 1)
    BY <1>3, FreshRowid
  <2>2. PICK new : new = With(rows, i, Inserted(e)) /\ AddOne(rows, e) = new
    BY <1>5, <2>1 DEF AddOne
  <2>3. PICK row : row = Inserted(e)
    OBVIOUS
  <2>4. DOMAIN row = Fields /\ Own(row) /\ row.box = e.box /\ row.proto = e.proto
    BY <2>3 DEF Inserted, Own, Fields
  <2>5. /\ DOMAIN new = DOMAIN rows \cup {i} /\ new[i] = row
        /\ \A a \in DOMAIN rows : new[a] = rows[a]
    BY <2>1, <2>2, <2>3 DEF With
  <2>6. DOMAIN new \subseteq 1..(n + 1) /\ n + 1 \in Nat
    BY <1>3, <2>1, <2>5
  <2>7. OneEach(new)
    <3> SUFFICES ASSUME NEW a \in DOMAIN new, NEW b \in DOMAIN new,
                        new[a].box = new[b].box, new[a].proto = new[b].proto
                 PROVE  a = b
      BY DEF OneEach
    <3>1. CASE a = i /\ b = i
      BY <3>1
    <3>2. CASE a # i /\ b # i
      BY <2>5, <3>2 DEF Table, OneEach
    <3>3. CASE (a = i /\ b # i) \/ (a # i /\ b = i)
      BY <1>1, <1>2, <1>5, <2>4, <2>5, <3>3
    <3> QED BY <3>1, <3>2, <3>3
  <2>8. Table(new)
    BY <2>4, <2>5, <2>6, <2>7 DEF Table
  <2>9. Imports(rows, new)
    BY <2>4, <2>5 DEF Imports, Refiled
  <2> QED BY <2>2, <2>8, <2>9
<1>6. CASE Existing(rows, e) # {}
  <2>1. PICK i : i \in Existing(rows, e) /\ i = (CHOOSE x \in Existing(rows, e) : TRUE)
    BY <1>6
  <2>2. CASE Same(rows[i], e)
    <3>1. AddOne(rows, e) = rows
      BY <1>6, <2>1, <2>2 DEF AddOne
    <3> QED BY <1>4, <3>1
  <2>3. CASE ~Same(rows[i], e)
    <3>1. PICK new : new = [rows EXCEPT ![i] = Updated(@, e)] /\ AddOne(rows, e) = new
      BY <1>6, <2>1, <2>3 DEF AddOne
    <3>2. DOMAIN rows[i] = Fields /\ i \in DOMAIN rows
      BY <1>1, <2>1 DEF Table
    <3>3. PICK row : row = Updated(rows[i], e)
      OBVIOUS
    <3>4. /\ DOMAIN row = Fields /\ row.box = rows[i].box /\ row.proto = e.proto /\ Refiled(rows[i], row)
          /\ row.host = e.box /\ row.token = e.box
      BY <3>2, <3>3 DEF Updated, Refiled, Fields
    <3>5. DOMAIN new = DOMAIN rows /\ new[i] = row /\ \A a \in DOMAIN rows : a # i => new[a] = rows[a]
      BY <3>1, <3>2, <3>3
    <3>6. rows[i].box = e.box /\ (rows[i].proto = e.proto \/ Of(e.proto) = {})
      BY <1>1, <2>1
    <3>7. Own(row)
      BY <3>4, <3>6 DEF Own
    <3>8. ASSUME NEW b \in DOMAIN rows, b # i, rows[b].box = e.box, rows[b].proto = e.proto PROVE FALSE
      <4>1. rows[i].proto = e.proto
        BY <1>2, <3>6, <3>8
      <4> QED BY <3>2, <3>6, <3>8, <4>1 DEF Table, OneEach
    <3>9. OneEach(new)
      <4> SUFFICES ASSUME NEW a \in DOMAIN new, NEW b \in DOMAIN new,
                          new[a].box = new[b].box, new[a].proto = new[b].proto
                   PROVE  a = b
        BY DEF OneEach
      <4>1. CASE a = i /\ b = i
        BY <4>1
      <4>2. CASE a # i /\ b # i
        BY <3>5, <4>2 DEF Table, OneEach
      <4>3. CASE (a = i /\ b # i) \/ (a # i /\ b = i)
        BY <3>4, <3>5, <3>6, <3>8, <4>3
      <4> QED BY <4>1, <4>2, <4>3
    <3>10. Table(new)
      BY <3>4, <3>5, <3>9 DEF Table
    <3>11. Imports(rows, new)
      BY <3>4, <3>5, <3>7 DEF Imports, Refiled
    <3> QED BY <3>1, <3>10, <3>11
  <2> QED BY <2>2, <2>3
<1> QED BY <1>5, <1>6

\* So does a file, by induction along its lines.
LEMMA WholeFile ==
  ASSUME NEW S, NEW file \in Seq(S), NEW kept, NEW rows, Table(rows)
  PROVE  Table(Imported(kept, file, rows)) /\ Imports(rows, Imported(kept, file, rows))
<1>1. PICK f : /\ f[0] = rows /\ f[Len(file)] = Imported(kept, file, rows)
               /\ \A k \in Nat : k < Len(file) => f[k + 1] = Taken(kept, file, f[k], k + 1)
  BY ImportSteps
<1> DEFINE T == {k \in Nat : k <= Len(file) => Table(f[k]) /\ Imports(rows, f[k])}
<1>2. Imports(rows, rows)
  BY DEF Imports, Refiled
<1>3. 0 \in T
  BY <1>1, <1>2
<1>4. ASSUME NEW k \in Nat, k \in T PROVE k + 1 \in T
  <2> SUFFICES ASSUME k + 1 <= Len(file) PROVE Table(f[k + 1]) /\ Imports(rows, f[k + 1])
    OBVIOUS
  <2>0. Len(file) \in Nat
    OBVIOUS
  <2>1. k < Len(file) /\ Table(f[k]) /\ Imports(rows, f[k])
    BY <1>4, <2>0
  <2> HIDE DEF T
  <2>2. f[k + 1] = Taken(kept, file, f[k], k + 1)
    BY <1>1, <2>1
  <2>3. CASE k + 1 \in kept
    <3>1. f[k + 1] = AddOne(f[k], Parsed(file[k + 1]))
      BY <2>2, <2>3 DEF Taken
    <3>2. Table(f[k + 1]) /\ Imports(f[k], f[k + 1])
      BY <2>1, <3>1, OneLine
    <3> QED BY <2>1, <3>2, ImportsOn
  <2>4. CASE k + 1 \notin kept
    <3>1. f[k + 1] = f[k]
      BY <2>2, <2>4 DEF Taken
    <3> QED BY <2>1, <3>1
  <2> QED BY <2>3, <2>4
<1> HIDE DEF T
<1>5. Len(file) \in T
  BY <1>3, <1>4, Upwards
<1> QED BY <1>1, <1>5 DEF T

-----------------------------------------------------------------------------
(***************************************************************************)
(* Whose the results are, and how the accounts are filed.                  *)
(***************************************************************************)
\* What is under way about an account that was not deleted meanwhile is about its mailbox.
About(i, box) == i \in reused \/ (i \in DOMAIN accounts /\ accounts[i].box = box)

Whose == /\ \A j \in jobs : About(j.id, j.box)
         /\ \A k \in DOMAIN inbox : About(inbox[k].id, inbox[k].box)

RowsInv == ConsentInv /\ Table(accounts) /\ ResultsKeepTheirAccount /\ Whose

\* What a step may do to the accounts.
ChangedAlone ==
  \A a \in DOMAIN accounts \cap DOMAIN accounts' :
    LET old == accounts[a]  new == accounts'[a]
    IN  <<old.proto, old.config, old.host, old.token>>
          # <<new.proto, new.config, new.host, new.token>>
        => \A k \in {"box", "group", "proxy", "tags"} : old[k] = new[k]

\* The jobs' own share of RowsInv and the accounts' one, apart.
Rows == Table(accounts) /\ ResultsKeepTheirAccount /\ Whose

LEMMA RowsInit == JobsInit => RowsInv
<1> SUFFICES ASSUME JobsInit PROVE RowsInv
  OBVIOUS
<1>1. /\ accounts = session.accounts /\ session \in Sessions
      /\ jobs = {} /\ inbox = <<>>
  BY DEF JobsInit, Init
<1>2. /\ DOMAIN accounts \subseteq 1..MaxId /\ OneEach(accounts) /\ \A a \in DOMAIN accounts : accounts[a] \in Row
      /\ \A a \in DOMAIN accounts : accounts[a].host = accounts[a].box /\ accounts[a].token = accounts[a].box
  BY <1>1, SessionsAssumption DEF Partial, Ids
<1>3. MaxId \in Nat
  BY RegistryAssumption
<1>4. \A a \in DOMAIN accounts : DOMAIN accounts[a] = Fields
  BY <1>2 DEF Row, Fields
<1>5. Table(accounts)
  BY <1>2, <1>3, <1>4 DEF Table
<1>6. ResultsKeepTheirAccount
  BY <1>2 DEF ResultsKeepTheirAccount
<1>7. Whose
  BY <1>1 DEF Whose
<1> QED BY <1>5, <1>6, <1>7, ConsentInit DEF RowsInv

\* The accounts are left alone, or only filed elsewhere.
LEMMA RowsFiled ==
  ASSUME RowsInv, UNCHANGED <<jobs, inbox, reused>>,
         DOMAIN accounts' = DOMAIN accounts,
         \A a \in DOMAIN accounts :
           /\ DOMAIN accounts'[a] = DOMAIN accounts[a]
           /\ \A k \in {"box", "proto", "config", "host", "token"} : accounts'[a][k] = accounts[a][k]
  PROVE  Rows' /\ ChangedAlone
<1>1. Table(accounts')
  BY DEF RowsInv, Table, OneEach
<1>2. ResultsKeepTheirAccount'
  BY DEF RowsInv, ResultsKeepTheirAccount
<1>3. Whose'
  BY DEF RowsInv, Whose, About
<1>4. ChangedAlone
  BY DEF ChangedAlone
<1> QED BY <1>1, <1>2, <1>3, <1>4 DEF Rows

\* One row keeps its rowid, its mailbox and its filing.
LEMMA RowsSet ==
  ASSUME RowsInv, UNCHANGED <<jobs, reused>>, \A k \in DOMAIN inbox' : \E m \in DOMAIN inbox : inbox'[k] = inbox[m],
         NEW i \in DOMAIN accounts, NEW row, accounts' = [accounts EXCEPT ![i] = row],
         DOMAIN row = Fields, Refiled(accounts[i], row), OneEach(accounts'),
         i \notin reused => Own(row)
  PROVE  Rows' /\ ChangedAlone
<1>1. DOMAIN accounts' = DOMAIN accounts /\ accounts'[i] = row
      /\ \A a \in DOMAIN accounts : a # i => accounts'[a] = accounts[a]
  OBVIOUS
<1>2. Table(accounts')
  BY <1>1 DEF RowsInv, Table
<1>3. ResultsKeepTheirAccount'
  BY <1>1 DEF RowsInv, ResultsKeepTheirAccount, Own
<1>4. \A a \in DOMAIN accounts : accounts'[a].box = accounts[a].box
  BY <1>1 DEF Refiled
<1>5. Whose'
  BY <1>1, <1>4 DEF RowsInv, Whose, About
<1>6. ChangedAlone
  BY <1>1 DEF ChangedAlone, Refiled
<1> QED BY <1>2, <1>3, <1>5, <1>6 DEF Rows

\* An import keeps what is under way about a row.
LEMMA RowsImport ==
  ASSUME RowsInv, UNCHANGED <<jobs, inbox, reused>>, AddMany
  PROVE  Rows' /\ ChangedAlone
<1>1. PICK file \in Files : \E kept : accounts' = Imported(kept, file, accounts)
  <2>1. \E file \in Files : \E kept \in Kept(file) : accounts' = Imported(kept, file, accounts)
    BY DEF AddMany, Imported
  <2> QED BY <2>1
<1>2. file \in Seq(Line)
  BY RegistryAssumption
<1>3. Table(accounts') /\ Imports(accounts, accounts')
  BY <1>1, <1>2, WholeFile DEF RowsInv
<1>4. ResultsKeepTheirAccount'
  BY <1>3 DEF RowsInv, ResultsKeepTheirAccount, Imports, Own
<1>5. Whose'
  BY <1>3 DEF RowsInv, Whose, About, Imports, Refiled
<1>6. ChangedAlone
  BY <1>3 DEF ChangedAlone, Imports, Refiled
<1> QED BY <1>3, <1>4, <1>5, <1>6 DEF Rows

LEMMA RowsEdits ==
  ASSUME RowsInv, UserEdits, UNCHANGED jobVars
  PROVE  Rows' /\ ChangedAlone
<1> USE DEF store, gui, jobVars
<1>1. ASSUME UNCHANGED accounts PROVE Rows' /\ ChangedAlone
  BY <1>1, RowsFiled
<1>2. \A a \in DOMAIN accounts : DOMAIN accounts[a] = Fields
  BY DEF RowsInv, Table
<1>3. CASE SelectGroup \/ CreateGroup \/ TogglePool \/ AddProxy \/ StartFetch
  BY <1>1, <1>3 DEF SelectGroup, CreateGroup, TogglePool, AddProxy, StartFetch
<1>4. ASSUME NEW v \in Forms, StoreSettings(v) PROVE Rows' /\ ChangedAlone
  BY <1>1, <1>4 DEF StoreSettings
<1>5. CASE DeleteGroup
  <2>1. PICK gone : accounts' = Unfiled(gone)
    BY <1>5 DEF DeleteGroup
  <2> QED BY <1>2, <2>1, RowsFiled DEF Unfiled, Fields
<1>6. CASE MoveAccounts
  <2>1. PICK S, g : File(S, "group", g)
    BY <1>6 DEF MoveAccounts
  <2> QED BY <1>2, <2>1, RowsFiled DEF File, Fields
<1>7. CASE BindProxy
  <2>1. PICK S, p : File(S, "proxy", p)
    BY <1>7 DEF BindProxy
  <2> QED BY <1>2, <2>1, RowsFiled DEF File, Fields
<1>8. CASE TagAccounts
  <2>1. PICK S, t, on : accounts' = [a \in DOMAIN accounts |->
                          IF a \in S THEN Tagged(accounts[a], t, on) ELSE accounts[a]]
    BY <1>8 DEF TagAccounts
  <2> QED BY <1>2, <2>1, RowsFiled DEF Tagged, Fields
<1>9. CASE AddMany
  BY <1>9, RowsImport
<1> QED BY <1>3, <1>4, <1>5, <1>6, <1>7, <1>8, <1>9 DEF UserEdits

\* An account that is deleted while something is under way about it is remembered.
LEMMA RowsDelete ==
  ASSUME RowsInv, Delete
  PROVE  Rows' /\ ChangedAlone
<1>1. PICK S : accounts' = Without(accounts, S) /\ reused' = reused \cup (S \cap InFlight)
  BY DEF Delete, DeleteRows
<1>2. UNCHANGED <<jobs, inbox>>
  BY DEF Delete
<1>3. DOMAIN accounts' = DOMAIN accounts \ S /\ \A a \in DOMAIN accounts' : accounts'[a] = accounts[a]
  BY <1>1 DEF Without
<1>4. Table(accounts')
  BY <1>3 DEF RowsInv, Table, OneEach
<1>5. ResultsKeepTheirAccount'
  BY <1>1, <1>3 DEF RowsInv, ResultsKeepTheirAccount
<1>6. ASSUME NEW i \in InFlight, NEW box, About(i, box)
      PROVE  i \in reused' \/ (i \in DOMAIN accounts' /\ accounts'[i].box = box)
  BY <1>1, <1>3, <1>6 DEF About
<1>7. /\ \A j \in jobs : j.id \in InFlight
      /\ \A k \in DOMAIN inbox : inbox[k].id \in InFlight
  BY DEF InFlight
<1>8. Whose'
  BY <1>2, <1>6, <1>7 DEF RowsInv, Whose, About
<1>9. ChangedAlone
  BY <1>3 DEF ChangedAlone
<1> QED BY <1>4, <1>5, <1>8, <1>9 DEF Rows

\* Jobs are started for accounts as they are, and go on with the account they have.
LEMMA RowsJobs ==
  ASSUME RowsInv, UNCHANGED <<accounts, reused>>,
         \A j \in jobs' : \/ \E k \in jobs : j.id = k.id /\ j.box = k.box
                          \/ j.id \in DOMAIN accounts /\ j.box = accounts[j.id].box,
         \A k \in DOMAIN inbox' : \/ \E m \in DOMAIN inbox : inbox'[k] = inbox[m]
                                  \/ \E j \in jobs : inbox'[k].id = j.id /\ inbox'[k].box = j.box
  PROVE  Rows' /\ ChangedAlone
<1>1. Table(accounts') /\ ChangedAlone
  BY DEF RowsInv, ChangedAlone
<1>2. ResultsKeepTheirAccount'
  BY DEF RowsInv, ResultsKeepTheirAccount
<1>3. Whose'
  BY DEF RowsInv, Whose, About
<1> QED BY <1>1, <1>2, <1>3 DEF Rows

LEMMA RowsStep ==
  ASSUME RowsInv, NEW j \in jobs, JobStep(j)
  PROVE  Rows' /\ ChangedAlone
<1> USE DEF regVars, store
<1>1. UNCHANGED <<accounts, reused>>
  BY DEF JobStep
<1>2. PICK S : inbox \in Seq(S)
  BY DEF RowsInv, ConsentInv
<1>3. DOMAIN j = {"kind", "id", "box", "stage", "polls", "cancelled", "copy"}
  BY DEF RowsInv, ConsentInv, Asks
<1>4. ASSUME NEW news, Ends(j, news) PROVE Rows' /\ ChangedAlone
  <2>1. PICK a, b : a = Says(j, news) /\ b = Says(j, "finished")
    OBVIOUS
  <2>2. a.id = j.id /\ a.box = j.box /\ b.id = j.id /\ b.box = j.box
    BY <2>1 DEF Says
  <2>3. inbox' = inbox \o <<a, b>> /\ jobs' \subseteq jobs
    BY <1>4, <2>1 DEF Ends
  <2>4. ASSUME NEW k \in DOMAIN inbox' PROVE (k \in DOMAIN inbox /\ inbox'[k] = inbox[k]) \/ inbox'[k] \in {a, b}
    BY <1>2, <2>3, <2>4
  <2> QED BY <1>1, <2>2, <2>3, <2>4, RowsJobs
<1>5. ASSUME NEW k, Becomes(j, k), k.id = j.id, k.box = j.box,
             inbox' = inbox \/ inbox' = Append(inbox, Says(j, "challenge"))
      PROVE  Rows' /\ ChangedAlone
  <2>1. PICK a : a = Says(j, "challenge")
    OBVIOUS
  <2>2. a.id = j.id /\ a.box = j.box
    BY <2>1 DEF Says
  <2>3. ASSUME NEW n \in DOMAIN inbox' PROVE (n \in DOMAIN inbox /\ inbox'[n] = inbox[n]) \/ inbox'[n] = a
    <3>1. CASE inbox' = inbox
      BY <2>3, <3>1
    <3>2. CASE inbox' = Append(inbox, a)
      BY <1>2, <2>3, <3>2
    <3> QED BY <1>5, <2>1, <3>1, <3>2
  <2>4. \A i \in jobs' : i \in jobs \/ i = k
    BY <1>5 DEF Becomes
  <2> QED BY <1>1, <1>5, <2>2, <2>3, <2>4, RowsJobs
<1>6. ASSUME NEW s, NEW n PROVE /\ [j EXCEPT !.stage = s].id = j.id /\ [j EXCEPT !.stage = s].box = j.box
                                /\ [j EXCEPT !.stage = s, !.polls = n].id = j.id
                                /\ [j EXCEPT !.stage = s, !.polls = n].box = j.box
  BY <1>3
<1>7. CASE RunJob(j)
  BY <1>4, <1>7 DEF RunJob
<1>8. CASE AskForCode(j)
  <2>1. PICK k : k = [j EXCEPT !.stage = "sleep"]
    OBVIOUS
  <2>2. k.id = j.id /\ k.box = j.box
    BY <1>6, <2>1
  <2> QED BY <1>4, <1>5, <1>8, <2>1, <2>2 DEF AskForCode
<1>9. CASE Wake(j)
  <2>1. PICK k : k = [j EXCEPT !.stage = "request"]
    OBVIOUS
  <2>2. k.id = j.id /\ k.box = j.box
    BY <1>6, <2>1
  <2> QED BY <1>4, <1>5, <1>9, <2>1, <2>2 DEF Wake
<1>10. CASE Reply(j)
  <2>1. ASSUME NEW n, Becomes(j, [j EXCEPT !.stage = "sleep", !.polls = n]), UNCHANGED inbox
        PROVE  Rows' /\ ChangedAlone
    <3>1. PICK k : k = [j EXCEPT !.stage = "sleep", !.polls = n]
      OBVIOUS
    <3>2. k.id = j.id /\ k.box = j.box
      BY <1>6, <3>1
    <3> QED BY <1>5, <2>1, <3>1, <3>2
  <2> QED BY <1>4, <1>10, <2>1 DEF Reply
<1> QED BY <1>7, <1>8, <1>9, <1>10 DEF JobStep

\* A result is stored in the row of its mailbox.
LEMMA RowsSignal ==
  ASSUME RowsInv, HandleSignal
  PROVE  Rows' /\ ChangedAlone
<1>1. PICK S : inbox \in Seq(S)
  BY DEF RowsInv, ConsentInv
<1>2. PICK s : s = Head(inbox) /\ inbox # <<>> /\ inbox' = Tail(inbox) /\ UNCHANGED <<jobs, reused>>
               /\ (Discovered(s) \/ Audited(s) \/ Challenged(s) \/ Consented(s) \/ Finished(s))
  BY DEF HandleSignal
<1>3. About(s.id, s.box)
  <2>1. s = inbox[1] /\ 1 \in DOMAIN inbox
    BY <1>1, <1>2
  <2> QED BY <2>1 DEF RowsInv, Whose
<1>4. \A k \in DOMAIN inbox' : \E m \in DOMAIN inbox : inbox'[k] = inbox[m]
  <2>1. /\ Len(inbox) \in Nat /\ DOMAIN inbox = 1..Len(inbox) /\ DOMAIN inbox' = 1..(Len(inbox) - 1)
        /\ \A k \in 1..(Len(inbox) - 1) : inbox'[k] = inbox[k + 1]
    BY <1>1, <1>2
  <2>2. \A k \in 1..(Len(inbox) - 1) : k + 1 \in 1..Len(inbox)
    BY <2>1
  <2> QED BY <2>1, <2>2
<1>5. ASSUME UNCHANGED accounts PROVE Rows' /\ ChangedAlone
  BY <1>2, <1>4, <1>5, RowsJobs
<1>6. CASE Audited(s) \/ Challenged(s) \/ Finished(s)
  BY <1>5, <1>6 DEF Audited, Challenged, Finished
<1>7. CASE Discovered(s)
  <2>1. CASE UNCHANGED accounts
    BY <1>5, <2>1
  <2>2. CASE s.news = "found" /\ SaveConnection(s) /\ accounts' # accounts
    <3>1. /\ s.id \in DOMAIN accounts
          /\ \A b \in DOMAIN accounts \ {s.id} : ~(accounts[b].box = accounts[s.id].box /\ accounts[b].proto = "imap")
      BY <2>2 DEF SaveConnection
    <3>2. PICK row : row = [accounts[s.id] EXCEPT !.host = s.box, !.proto = "imap"]
      OBVIOUS
    <3>3. accounts' = [accounts EXCEPT ![s.id] = row]
      BY <2>2, <3>2 DEF SaveConnection, SetRow
    <3>4. DOMAIN accounts[s.id] = Fields
      BY <3>1 DEF RowsInv, Table
    <3>5. /\ DOMAIN row = Fields /\ Refiled(accounts[s.id], row) /\ row.host = s.box /\ row.proto = "imap"
          /\ row.token = accounts[s.id].token
      BY <3>2, <3>4 DEF Fields, Refiled
    <3>6. s.id \notin reused => Own(row)
      BY <1>3, <3>1, <3>5 DEF About, RowsInv, ResultsKeepTheirAccount, Refiled, Own
    <3>7. OneEach(accounts')
      <4>1. /\ DOMAIN accounts' = DOMAIN accounts /\ accounts'[s.id] = row
            /\ \A a \in DOMAIN accounts : a # s.id => accounts'[a] = accounts[a]
        BY <3>1, <3>3
      <4> QED BY <3>1, <3>5, <4>1 DEF RowsInv, Table, OneEach, Refiled
    <3> QED BY <1>2, <1>4, <3>1, <3>3, <3>5, <3>6, <3>7, RowsSet
  <2> QED BY <1>7, <2>1, <2>2 DEF Discovered
<1>8. CASE Consented(s)
  <2>1. CASE UNCHANGED accounts
    BY <1>5, <2>1
  <2>2. CASE s.news = "token" /\ (\E left : SaveToken(s, left)) /\ accounts' # accounts
    <3>1. s.id \in DOMAIN accounts
      BY <2>2 DEF SaveToken
    <3>2. PICK row : row = [accounts[s.id] EXCEPT !.token = s.box]
      OBVIOUS
    <3>3. accounts' = [accounts EXCEPT ![s.id] = row]
      BY <2>2, <3>1, <3>2 DEF SaveToken, SetRow
    <3>4. DOMAIN accounts[s.id] = Fields
      BY <3>1 DEF RowsInv, Table
    <3>5. /\ DOMAIN row = Fields /\ Refiled(accounts[s.id], row) /\ row.token = s.box
          /\ row.host = accounts[s.id].host /\ row.proto = accounts[s.id].proto
      BY <3>2, <3>4 DEF Fields, Refiled
    <3>6. s.id \notin reused => Own(row)
      BY <1>3, <3>1, <3>5 DEF About, RowsInv, ResultsKeepTheirAccount, Refiled, Own
    <3>7. OneEach(accounts')
      <4>1. /\ DOMAIN accounts' = DOMAIN accounts /\ accounts'[s.id] = row
            /\ \A a \in DOMAIN accounts : a # s.id => accounts'[a] = accounts[a]
        BY <3>1, <3>3
      <4> QED BY <3>5, <4>1 DEF RowsInv, Table, OneEach, Refiled
    <3> QED BY <1>2, <1>4, <3>1, <3>3, <3>5, <3>6, <3>7, RowsSet
  <2> QED BY <1>8, <2>1, <2>2 DEF Consented
<1> QED BY <1>2, <1>6, <1>7, <1>8

LEMMA RowsWindow ==
  ASSUME RowsInv, StartJob \/ AnswerBox \/ CancelConsent
  PROVE  Rows' /\ ChangedAlone
<1> USE DEF regVars, store
<1>1. UNCHANGED <<accounts, reused, inbox>>
  <2>1. CASE StartJob
    BY <2>1 DEF StartJob
  <2>2. CASE AnswerBox
    BY <2>2 DEF AnswerBox
  <2>3. CASE CancelConsent
    BY <2>3 DEF CancelConsent
  <2> QED BY <2>1, <2>2, <2>3
<1>2. ASSUME NEW kind, NEW i \in DOMAIN accounts, NEW j, j = NewJob(kind, i)
      PROVE  j.id = i /\ j.box = accounts[i].box
  BY <1>2 DEF NewJob
<1>3. ASSUME \A j \in jobs' : \/ \E k \in jobs : j.id = k.id /\ j.box = k.box
                              \/ \E kind : \E i \in DOMAIN accounts : j = NewJob(kind, i)
      PROVE  Rows' /\ ChangedAlone
  <2>1. ASSUME NEW j \in jobs'
        PROVE  \/ \E k \in jobs : j.id = k.id /\ j.box = k.box
               \/ j.id \in DOMAIN accounts /\ j.box = accounts[j.id].box
    <3>1. ASSUME NEW kind, NEW i \in DOMAIN accounts, j = NewJob(kind, i)
          PROVE  j.id \in DOMAIN accounts /\ j.box = accounts[j.id].box
      BY <1>2, <3>1
    <3> QED BY <1>3, <3>1
  <2> QED BY <1>1, <2>1, RowsJobs
<1>4. CASE StartJob
  <2>1. \E kind : \E i \in DOMAIN accounts : jobs' = jobs \cup {NewJob(kind, i)}
    BY <1>4 DEF StartJob
  <2> QED BY <1>3, <2>1
<1>5. CASE AnswerBox
  <2>1. PICK b : \/ StartConsent(b.id)
                 \/ UNCHANGED jobs
                 \/ jobs' = jobs \cup (IF b.id \in DOMAIN accounts THEN {NewJob("audit", b.id)} ELSE {})
    BY <1>5 DEF AnswerBox
  <2>2. jobs' = jobs \/ \E kind : \E i \in DOMAIN accounts : jobs' = jobs \cup {NewJob(kind, i)}
    BY <2>1 DEF StartConsent
  <2> QED BY <1>3, <2>2
<1>6. CASE CancelConsent
  <2>1. ASSUME NEW j \in jobs' PROVE \E k \in jobs : j.id = k.id /\ j.box = k.box
    <3>1. PICK k \in jobs : j = k \/ j = [k EXCEPT !.cancelled = k.stage]
      BY <1>6, <2>1 DEF CancelConsent
    <3>2. DOMAIN k = {"kind", "id", "box", "stage", "polls", "cancelled", "copy"}
      BY <3>1 DEF RowsInv, ConsentInv, Asks
    <3> QED BY <3>1, <3>2
  <2> QED BY <1>3, <2>1
<1> QED BY <1>4, <1>5, <1>6

LEMMA RowsNext ==
  ASSUME RowsInv, [Next]_vars
  PROVE  RowsInv' /\ ChangedAlone /\ OneEach(accounts')
<1>1. ConsentInv'
  BY ConsentStep, ConsentWindow DEF RowsInv, Next, vars
<1>2. ASSUME (Background /\ UNCHANGED jobVars) \/ UNCHANGED vars
      PROVE  Rows' /\ ChangedAlone
  <2>1. UNCHANGED <<accounts, jobs, inbox, reused>>
    <3>1. CASE Background /\ UNCHANGED jobVars
      <4>1. CASE Handler
        BY <3>1, <4>1 DEF Handler, SaveProxies, SaveHook, SaveRule, SaveSchedule, ShowSwitch,
                          SaveFails, store, jobVars
      <4> QED BY <3>1, <4>1 DEF Background, Elapse, RunDue, ResolveRoute, FetchEnds, store, jobVars
    <3>2. CASE UNCHANGED vars
      BY <3>2 DEF vars, regVars, store, jobVars
    <3> QED BY <1>2, <3>1, <3>2
  <2>2. /\ DOMAIN accounts' = DOMAIN accounts
        /\ \A a \in DOMAIN accounts :
             /\ DOMAIN accounts'[a] = DOMAIN accounts[a]
             /\ \A k \in {"box", "proto", "config", "host", "token"} : accounts'[a][k] = accounts[a][k]
    BY <2>1
  <2> QED BY <2>1, <2>2, RowsFiled
<1>3. Rows' /\ ChangedAlone
  BY <1>2, RowsEdits, RowsDelete, RowsSignal, RowsStep, RowsWindow DEF Next
<1> QED BY <1>1, <1>3 DEF Rows, RowsInv, Table

\* _discovery_loaded and _security_consent_result: what a server or Microsoft gave
\* for one mailbox is stored for no other, unless the rowid was used again.
THEOREM WhoseHolds == Spec => []ResultsKeepTheirAccount
<1>1. RowsInv /\ [Next]_vars => RowsInv'
  BY RowsNext
<1>2. RowsInv => ResultsKeepTheirAccount
  BY DEF RowsInv
<1> QED BY RowsInit, <1>1, <1>2, PTL DEF Spec

\* AccountRepository.add_many and update_connection: whatever a file holds, the
\* accounts known before keep their group, proxy and tags, and have one row each.
THEOREM FilingHolds == Spec => ImportKeepsFiling
<1>1. RowsInv /\ [Next]_vars => RowsInv' /\ [ChangedAlone /\ OneEach(accounts')]_regVars
  BY RowsNext
<1>2. [ChangedAlone /\ OneEach(accounts')]_regVars <=>
      [/\ \A a \in DOMAIN accounts \cap DOMAIN accounts' :
            LET old == accounts[a]  new == accounts'[a]
            IN  <<old.proto, old.config, old.host, old.token>>
                  # <<new.proto, new.config, new.host, new.token>>
                => \A k \in {"box", "group", "proxy", "tags"} : old[k] = new[k]
       /\ OneEach(accounts')]_regVars
  BY DEF ChangedAlone
<1> QED BY RowsInit, <1>1, <1>2, PTL DEF Spec, ImportKeepsFiling
=============================================================================
