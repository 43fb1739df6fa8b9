--------------------------- MODULE MCAccountJobs ---------------------------
EXTENDS AccountJobs, TLC
CONSTANTS ann, bob, p1, hook, rule, tag

\* A line of each kind that parses, and one without an address.
Signed(b)  == [box |-> b, fields |-> 3, server |-> None, grant |-> "microsoft", config |-> "new"]
Own(b)     == [box |-> b, fields |-> 4, server |-> "pop3", grant |-> None, config |-> "new"]
Secret(b)  == [box |-> b, fields |-> 2, server |-> None, grant |-> None, config |-> "new"]
MCFiles    == {<<Signed(bob)>>, <<Secret(None), Secret(ann), Signed(ann)>>, <<Own(bob)>>}
MCProvider == bob :> "outlook" @@ ann :> "own"

Account(b, p, c, g) ==
  [box |-> b, proto |-> p, config |-> c, host |-> b, token |-> b, group |-> g,
   proxy |-> None, tags |-> {}]
Schedule(on, due) == [enabled |-> on, due |-> due]
\* Sessions that file accounts, that change groups or fetch beside saves of the
\* settings, and that run jobs.
Store(rows, ps, ss) == [groups |-> <<None, 1>>, accounts |-> rows, proxies |-> ps, schedules |-> ss]
Session(st, uses, n) ==
  [groups |-> st.groups, accounts |-> st.accounts, proxies |-> st.proxies,
   schedules |-> st.schedules, uses |-> uses, edits |-> n]
Filed == Store(<<Account(ann, "graph", "old", 1), Account(bob, "imap", "misread", 2)>>, {},
               1 :> Schedule(TRUE, FALSE) @@ 2 :> Schedule(TRUE, TRUE))
Lone  == Store(<<Account(bob, "imap", "misread", 2)>>, {}, 2 :> Schedule(TRUE, TRUE))
Mixed == Store(<<Account(ann, "graph", "old", 1), Account(bob, "pop3", "old", None)>>, {p1}, <<>>)
MCSessions == {Session(Filed, {"groups", "accounts", "filing"}, 3),
               Session(Lone, {"groups", "settings"}, 3),
               Session(Filed, {"settings", "fetch"}, 3),
               Session(Mixed, {"accounts", "jobs"}, 4)}

Filled(on, list, h, r, rh) ==
  [pool |-> on, list |-> list, hook |-> h, rule |-> r, ruleHook |-> rh, schedule |-> on]
MCForms == {Filled(TRUE, p1, None, None, None), Filled(FALSE, "none", hook, rule, "new"),
            Filled(TRUE, "malformed", hook, None, None), Filled(TRUE, "none", None, rule, "new")}
=============================================================================
