------------------------ MODULE ComplianceThrottle ------------------------
(***************************************************************************)
(* ComplianceThrottle.slot as the worker threads of a fetch use it: per     *)
(* network identity a semaphore bounds the fetches at a time, and a         *)
(* reservation table spaces their starts by a random interval.  Saving the  *)
(* settings replaces the throttle object (set_throttle) while threads are   *)
(* inside the old one.                                                      *)
(***************************************************************************)
EXTENDS Integers, Sequences, FiniteSets

CONSTANTS Threads,       \* worker threads, each with one account
          Identities,    \* "direct" and the identities of the proxies
          Settings,      \* records [limit, low, high] the user may save
          MaxThrottles,  \* bound: throttle objects ever made
          Horizon        \* bound: seconds a start is remembered

ASSUME ThrottleAssumption ==
  /\ IsFiniteSet(Threads)
  /\ MaxThrottles \in Nat \ {0}
  /\ Settings \subseteq [limit : Nat \ {0}, low : Nat, high : Nat]
  /\ \A s \in Settings : s.low <= s.high /\ s.high <= Horizon
  /\ Horizon \in Nat \ {0}
  /\ Identities # {}

VARIABLES
  made,   \* the arguments of the throttles made so far; the last one is in use
  taken,  \* permits taken of the semaphore of each throttle and identity
  next,   \* _next_start of each throttle and identity
  at,     \* where a thread is in fetch_account
  slot,   \* the throttle and identity of its with statement
  start   \* reserved_start of the thread

throttleVars == <<made, taken, next, at, slot, start>>

(* Times are seconds from now: they fall while time passes, next to 0, where  *)
(* it no longer matters, and a start to -Horizon, where it is forgotten.      *)

Slots          == (1..MaxThrottles) \X Identities
ThrottlePhases == {"idle", "acquiring", "reserving", "sleeping", "inside", "done"}
Holding        == {"reserving", "sleeping", "inside"}

Setting(s)  == made[s[1]]
Holders(s)  == {t \in Threads : slot[t] = s /\ at[t] \in Holding}
Started     == {"sleeping", "inside", "done"}
Reserved(s) == {t \in Threads : slot[t] = s /\ at[t] \in Started}

ThrottleTypeOK ==
  /\ made \in Seq(Settings) /\ Len(made) \in 1..MaxThrottles
  /\ taken \in [Slots -> Int]
  /\ next \in [Slots -> Nat]
  /\ at \in [Threads -> ThrottlePhases]
  /\ slot \in [Threads -> Slots]
  /\ \A t \in Threads : at[t] # "idle" => slot[t][1] <= Len(made)
  /\ start \in [Threads -> Int]

\* The dictionaries get their entries on first use: a semaphore with all its
\* permits and no reservation.
ThrottleInit ==
  /\ \E s \in Settings : made = <<s>>
  /\ taken = [s \in Slots |-> 0]
  /\ next = [s \in Slots |-> 0]
  /\ at = [t \in Threads |-> "idle"]
  /\ slot = [t \in Threads |-> <<1, CHOOSE i \in Identities : TRUE>>]
  /\ start = [t \in Threads |-> 0]

-----------------------------------------------------------------------------
\* show_settings: a new object, without anything of the old one.
SetThrottle ==
  /\ Len(made) < MaxThrottles
  /\ \E s \in Settings : made' = Append(made, s)
  /\ UNCHANGED <<taken, next, at, slot, start>>

\* fetch_account resolves the route and enters the slot of the throttle that
\* is in use, for the identity of the route.
EnterSlot(t) ==
  /\ at[t] = "idle"
  /\ \E i \in Identities : slot' = [slot EXCEPT ![t] = <<Len(made), i>>]
  /\ at' = [at EXCEPT ![t] = "acquiring"]
  /\ UNCHANGED <<made, taken, next, start>>

Available(s)   == taken[s] < Setting(s).limit

NewSemaphore(s) == 1                           \* slip: not setdefault
OneMore(s)      == taken[s] + 1

Acquire(t) ==
  /\ at[t] = "acquiring"
  /\ Available(slot[t])
  /\ taken' = [taken EXCEPT ![slot[t]] = OneMore(slot[t])]
  /\ at' = [at EXCEPT ![t] = "reserving"]
  /\ UNCHANGED <<made, next, slot, start>>

FromNow(s, interval)   == interval             \* slip: not after the reservation
Following(s, interval) == next[s] + interval

\* Under _lock: reserve the next start, which is not before now, and say when
\* the one after it may be.
Reserve(t) ==
  /\ at[t] = "reserving"
  /\ start' = [start EXCEPT ![t] = next[slot[t]]]
  /\ \E interval \in Setting(slot[t]).low..Setting(slot[t]).high :
       next' = [next EXCEPT ![slot[t]] = Following(slot[t], interval)]
  /\ at' = [at EXCEPT ![t] = "sleeping"]
  /\ UNCHANGED <<made, taken, slot>>

\* time.sleep returns at the reserved start or later.
Wake(t) ==
  /\ at[t] = "sleeping" /\ start[t] <= 0
  /\ at' = [at EXCEPT ![t] = "inside"]
  /\ UNCHANGED <<made, taken, next, slot, start>>

NotReleased(s) == taken[s]                     \* slip: no finally
OneLess(s)     == taken[s] - 1

\* The fetch returned or raised: finally releases the semaphore.
LeaveSlot(t) ==
  /\ at[t] = "inside"
  /\ taken' = [taken EXCEPT ![slot[t]] = OneLess(slot[t])]
  /\ at' = [at EXCEPT ![t] = "done"]
  /\ UNCHANGED <<made, next, slot, start>>

NotBeforeNow(s) == IF next[s] > 0 THEN next[s] - 1 ELSE 0

\* A second passes.
Tick ==
  /\ next' = [s \in Slots |-> NotBeforeNow(s)]
  /\ start' = [t \in Threads |->
                 IF at[t] \in Started /\ start[t] > -Horizon
                   THEN start[t] - 1 ELSE start[t]]
  /\ UNCHANGED <<made, taken, at, slot>>

Step(t) == EnterSlot(t) \/ Acquire(t) \/ Reserve(t) \/ Wake(t) \/ LeaveSlot(t)

ThrottleNext == SetThrottle \/ Tick \/ \E t \in Threads : Step(t)

\* A permit that is given back goes to some waiting thread; since the others
\* come to an end, weak fairness of each thread is enough.
ThrottleSpec ==
  /\ ThrottleInit /\ [][ThrottleNext]_throttleVars
  /\ WF_throttleVars(Tick) /\ \A t \in Threads : WF_throttleVars(Step(t))

-----------------------------------------------------------------------------
(* Properties *)

\* One throttle never has more fetches of an identity under way than its limit,
\* those that sleep before their start included.
WithinLimit ==
  \A s \in Slots : s[1] <= Len(made) => Cardinality(Holders(s)) <= Setting(s).limit

\* Two accounts of one identity get starts that are at least the smallest
\* configured interval apart, in whatever order the threads asked.
StartsSpaced ==
  \A s \in Slots : \A t, u \in Reserved(s) :
    (t # u /\ start[t] > -Horizon /\ start[u] > -Horizon) =>
      \/ start[t] + Setting(s).low <= start[u]
      \/ start[u] + Setting(s).low <= start[t]

\* Every account gets its turn.
EverybodyServed == \A t \in Threads : (at[t] = "acquiring") ~> (at[t] = "done")

-----------------------------------------------------------------------------
(* What the documentation says and the code does not do *)

\* README.md: the limit is a limit of the network identity.  As long as the user
\* saves the same settings no identity has more fetches inside than they allow.
IdentityLimited ==
  (\A n \in 1..Len(made) : made[n] = made[1]) =>
     \A i \in Identities :
       Cardinality({t \in Threads : slot[t][2] = i /\ at[t] = "inside"}) <= made[1].limit
=============================================================================
