------------------------ MODULE FetchAccountProofs ------------------------
(***************************************************************************)
(* What a worker thread goes through in fetch_account: the slot of the      *)
(* throttle, then the mails of the account.  First the limit and the        *)
(* spacing of ComplianceThrottle, for any number of threads, identities and *)
(* throttles and any settings.  Then MailSync, for any number of mails,     *)
(* folders and faults and any requests: rules forget no mail, webhooks tell *)
(* of it once, deleted mail is kept.                                        *)
(***************************************************************************)
EXTENDS ComplianceThrottle, MailSync, FiniteSetTheorems, SequenceTheorems,
        WellFoundedInduction, TLAPS

\* A semaphore counts its holders and stays in its limit, and every start lies
\* the smallest interval before the start that is reserved next.
PermitsCounted ==
  \A s \in Slots : taken[s] = Cardinality(Holders(s))

InLimit == \A s \in Slots : s[1] <= Len(made) => taken[s] <= Setting(s).limit

Ahead ==
  \A s \in Slots : \A t \in Reserved(s) :
    start[t] > -Horizon => start[t] + Setting(s).low <= next[s]

-----------------------------------------------------------------------------
(* Types *)

LEMMA SettingType ==
  ASSUME ThrottleTypeOK, NEW s \in Slots, s[1] <= Len(made)
  PROVE  /\ Setting(s) \in Settings
         /\ Setting(s).limit \in Nat \ {0}
         /\ Setting(s).low \in Nat /\ Setting(s).high \in Nat
BY ThrottleAssumption DEF ThrottleTypeOK, Setting, Slots

LEMMA UsedSlot ==
  ASSUME ThrottleTypeOK, NEW t \in Threads, at[t] # "idle"
  PROVE  /\ slot[t] \in Slots
         /\ slot[t][1] <= Len(made)
BY DEF ThrottleTypeOK

LEMMA SlotInitType == ThrottleInit => ThrottleTypeOK
<1> SUFFICES ASSUME ThrottleInit PROVE ThrottleTypeOK OBVIOUS
<1>1. made \in Seq(Settings) /\ Len(made) = 1
  BY DEF ThrottleInit
<1>2. (CHOOSE i \in Identities : TRUE) \in Identities
  BY ThrottleAssumption
<1>3. slot \in [Threads -> Slots]
  BY <1>2, ThrottleAssumption DEF ThrottleInit, Slots
<1>4. \A t \in Threads : at[t] = "idle"
  BY DEF ThrottleInit
<1> QED
  BY <1>1, <1>3, <1>4, ThrottleAssumption DEF ThrottleInit, ThrottleTypeOK, ThrottlePhases

LEMMA SlotNextType == ThrottleTypeOK /\ [ThrottleNext]_throttleVars => ThrottleTypeOK'
<1> SUFFICES ASSUME ThrottleTypeOK, [ThrottleNext]_throttleVars PROVE ThrottleTypeOK' OBVIOUS
<1>1. CASE SetThrottle
  <2>1. made' \in Seq(Settings) /\ Len(made') = Len(made) + 1
    BY <1>1 DEF SetThrottle, ThrottleTypeOK
  <2>2. Len(made) \in Nat /\ 1 <= Len(made) /\ Len(made) < MaxThrottles
    BY <1>1 DEF SetThrottle, ThrottleTypeOK
  <2>3. Len(made') \in 1..MaxThrottles
    BY <2>1, <2>2, ThrottleAssumption
  <2>4. UNCHANGED <<taken, next, at, slot, start>>
    BY <1>1 DEF SetThrottle
  <2>5. \A t \in Threads : at[t] # "idle" => slot[t][1] <= Len(made')
    <3> SUFFICES ASSUME NEW t \in Threads, at[t] # "idle"
                 PROVE  slot[t][1] <= Len(made')
      OBVIOUS
    <3>1. slot[t][1] \in Nat /\ slot[t][1] <= Len(made)
      BY UsedSlot DEF Slots
    <3> QED
      BY <2>1, <2>2, <3>1
  <2> QED
    BY <2>1, <2>3, <2>4, <2>5 DEF ThrottleTypeOK
<1>2. CASE Tick
  <2>1. next' \in [Slots -> Nat]
    BY <1>2 DEF Tick, NotBeforeNow, ThrottleTypeOK
  <2>2. start' \in [Threads -> Int]
    BY <1>2, ThrottleAssumption DEF Tick, ThrottleTypeOK
  <2> QED
    BY <1>2, <2>1, <2>2 DEF Tick, ThrottleTypeOK
<1>3. ASSUME NEW t \in Threads, EnterSlot(t) PROVE ThrottleTypeOK'
  <2>1. PICK i \in Identities : slot' = [slot EXCEPT ![t] = <<Len(made), i>>]
    BY <1>3 DEF EnterSlot
  <2>2. <<Len(made), i>> \in Slots
    BY DEF Slots, ThrottleTypeOK
  <2>3. slot' \in [Threads -> Slots]
    BY <2>1, <2>2 DEF ThrottleTypeOK
  <2>4. at' \in [Threads -> ThrottlePhases]
    BY <1>3 DEF EnterSlot, ThrottleTypeOK, ThrottlePhases
  <2>5. \A u \in Threads : at'[u] # "idle" => slot'[u][1] <= Len(made)
    BY <1>3, <2>1 DEF EnterSlot, ThrottleTypeOK
  <2> QED
    BY <1>3, <2>3, <2>4, <2>5 DEF EnterSlot, ThrottleTypeOK
<1>4. ASSUME NEW t \in Threads, Acquire(t) PROVE ThrottleTypeOK'
  <2>1. taken' \in [Slots -> Int]
    BY <1>4 DEF Acquire, OneMore, ThrottleTypeOK
  <2>2. at' \in [Threads -> ThrottlePhases]
    BY <1>4 DEF Acquire, ThrottleTypeOK, ThrottlePhases
  <2>3. \A u \in Threads : at'[u] # "idle" => slot[u][1] <= Len(made)
    BY <1>4 DEF Acquire, ThrottleTypeOK
  <2> QED
    BY <1>4, <2>1, <2>2, <2>3 DEF Acquire, ThrottleTypeOK
<1>5. ASSUME NEW t \in Threads, Reserve(t) PROVE ThrottleTypeOK'
  <2>1. slot[t] \in Slots /\ slot[t][1] <= Len(made)
    BY <1>5, UsedSlot DEF Reserve
  <2>2. PICK interval \in Setting(slot[t]).low..Setting(slot[t]).high :
          next' = [next EXCEPT ![slot[t]] = Following(slot[t], interval)]
    BY <1>5 DEF Reserve
  <2>3. interval \in Nat
    BY <2>1, SettingType
  <2>4. next' \in [Slots -> Nat]
    BY <2>1, <2>2, <2>3 DEF Following, ThrottleTypeOK
  <2>5. start' \in [Threads -> Int]
    BY <1>5, <2>1 DEF Reserve, ThrottleTypeOK
  <2>6. at' \in [Threads -> ThrottlePhases]
    BY <1>5 DEF Reserve, ThrottleTypeOK, ThrottlePhases
  <2>7. \A u \in Threads : at'[u] # "idle" => slot[u][1] <= Len(made)
    BY <1>5 DEF Reserve, ThrottleTypeOK
  <2> QED
    BY <1>5, <2>4, <2>5, <2>6, <2>7 DEF Reserve, ThrottleTypeOK
<1>6. ASSUME NEW t \in Threads, Wake(t) PROVE ThrottleTypeOK'
  <2>1. at' \in [Threads -> ThrottlePhases]
    BY <1>6 DEF Wake, ThrottleTypeOK, ThrottlePhases
  <2>2. \A u \in Threads : at'[u] # "idle" => slot[u][1] <= Len(made)
    BY <1>6 DEF Wake, ThrottleTypeOK
  <2> QED
    BY <1>6, <2>1, <2>2 DEF Wake, ThrottleTypeOK
<1>7. ASSUME NEW t \in Threads, LeaveSlot(t) PROVE ThrottleTypeOK'
  <2>1. taken' \in [Slots -> Int]
    BY <1>7 DEF LeaveSlot, OneLess, ThrottleTypeOK
  <2>2. at' \in [Threads -> ThrottlePhases]
    BY <1>7 DEF LeaveSlot, ThrottleTypeOK, ThrottlePhases
  <2>3. \A u \in Threads : at'[u] # "idle" => slot[u][1] <= Len(made)
    BY <1>7 DEF LeaveSlot, ThrottleTypeOK
  <2> QED
    BY <1>7, <2>1, <2>2, <2>3 DEF LeaveSlot, ThrottleTypeOK
<1>8. CASE UNCHANGED throttleVars
  BY <1>8 DEF throttleVars, ThrottleTypeOK
<1> QED
  BY <1>1, <1>2, <1>3, <1>4, <1>5, <1>6, <1>7, <1>8 DEF ThrottleNext, Step

\* Every variable keeps its type.
THEOREM ThrottleTypes == ThrottleSpec => []ThrottleTypeOK
BY SlotInitType, SlotNextType, PTL DEF ThrottleSpec

-----------------------------------------------------------------------------
(* The semaphore *)

LEMMA FiniteHolders ==
  ASSUME NEW s PROVE IsFiniteSet(Holders(s)) /\ Cardinality(Holders(s)) \in Nat
<1>1. IsFiniteSet(Holders(s))
  BY ThrottleAssumption, FS_Subset DEF Holders
<1> QED
  BY <1>1, FS_CardinalityType

\* A step that moves no thread into or out of the with statement.
LEMMA SameHolders ==
  ASSUME PermitsCounted, taken' = taken,
         \A t \in Threads : (at'[t] \in Holding) <=> (at[t] \in Holding),
         \A t \in Threads : at[t] \in Holding => slot'[t] = slot[t]
  PROVE  PermitsCounted'
<1>1. \A s \in Slots : Holders(s)' = Holders(s)
  BY DEF Holders
<1> QED
  BY <1>1 DEF PermitsCounted

LEMMA AcquireCounts ==
  ASSUME ThrottleTypeOK, PermitsCounted, NEW t \in Threads, Acquire(t)
  PROVE  PermitsCounted'
<1>1. ASSUME NEW s \in Slots PROVE taken'[s] = Cardinality(Holders(s)')
  <2>1. CASE s = slot[t]
    <3>1. Holders(s)' = Holders(s) \cup {t}
      BY <2>1 DEF Acquire, Holders, Holding, ThrottleTypeOK
    <3>2. t \notin Holders(s)
      BY DEF Acquire, Holders, Holding
    <3>3. Cardinality(Holders(s)') = Cardinality(Holders(s)) + 1
      BY <3>1, <3>2, FiniteHolders, FS_AddElement
    <3>4. taken'[s] = taken[s] + 1
      BY <2>1 DEF Acquire, OneMore, ThrottleTypeOK
    <3> QED
      BY <3>3, <3>4 DEF PermitsCounted
  <2>2. CASE s # slot[t]
    <3>1. Holders(s)' = Holders(s)
      BY <2>2 DEF Acquire, Holders, Holding, ThrottleTypeOK
    <3>2. taken'[s] = taken[s]
      BY <2>2 DEF Acquire, ThrottleTypeOK
    <3> QED
      BY <3>1, <3>2 DEF PermitsCounted
  <2> QED
    BY <2>1, <2>2
<1> QED
  BY <1>1 DEF PermitsCounted

LEMMA LeaveCounts ==
  ASSUME ThrottleTypeOK, PermitsCounted, NEW t \in Threads, LeaveSlot(t)
  PROVE  PermitsCounted'
<1>1. ASSUME NEW s \in Slots PROVE taken'[s] = Cardinality(Holders(s)')
  <2>1. CASE s = slot[t]
    <3>1. Holders(s)' = Holders(s) \ {t}
      BY <2>1 DEF LeaveSlot, Holders, Holding, ThrottleTypeOK
    <3>2. t \in Holders(s)
      BY <2>1 DEF LeaveSlot, Holders, Holding
    <3>3. Cardinality(Holders(s)') = Cardinality(Holders(s)) - 1
      BY <3>1, <3>2, FiniteHolders, FS_RemoveElement
    <3>4. taken'[s] = taken[s] - 1
      BY <2>1 DEF LeaveSlot, OneLess, ThrottleTypeOK
    <3> QED
      BY <3>3, <3>4 DEF PermitsCounted
  <2>2. CASE s # slot[t]
    <3>1. Holders(s)' = Holders(s)
      BY <2>2 DEF LeaveSlot, Holders, Holding, ThrottleTypeOK
    <3>2. taken'[s] = taken[s]
      BY <2>2 DEF LeaveSlot, ThrottleTypeOK
    <3> QED
      BY <3>1, <3>2 DEF PermitsCounted
  <2> QED
    BY <2>1, <2>2
<1> QED
  BY <1>1 DEF PermitsCounted

LEMMA SlotInitCounts == ThrottleInit => PermitsCounted /\ InLimit
<1> SUFFICES ASSUME ThrottleInit PROVE PermitsCounted /\ InLimit OBVIOUS
<1>1. ThrottleTypeOK
  BY SlotInitType
<1>2. ASSUME NEW s \in Slots PROVE taken[s] = 0 /\ Cardinality(Holders(s)) = 0
  <2>1. Holders(s) = {}
    BY DEF ThrottleInit, Holders, Holding
  <2> QED
    BY <2>1, FS_EmptySet DEF ThrottleInit
<1>3. InLimit
  BY <1>1, <1>2, SettingType DEF InLimit
<1> QED
  BY <1>2, <1>3 DEF PermitsCounted

LEMMA SlotNextCounts ==
  ASSUME ThrottleTypeOK, PermitsCounted, InLimit, [ThrottleNext]_throttleVars
  PROVE  PermitsCounted' /\ InLimit'
<1>1. CASE SetThrottle
  <2>1. PermitsCounted'
    BY <1>1, SameHolders DEF SetThrottle
  <2>2. ASSUME NEW s \in Slots, s[1] <= Len(made') PROVE taken'[s] <= Setting(s)'.limit
    <3>1. CASE s[1] <= Len(made)
      <4>1. Setting(s)' = Setting(s)
        BY <1>1, <3>1 DEF SetThrottle, Setting, ThrottleTypeOK, Slots
      <4> QED
        BY <1>1, <3>1, <4>1 DEF SetThrottle, InLimit
    <3>2. CASE ~(s[1] <= Len(made))
      <4>1. Holders(s) = {}
        BY <3>2, UsedSlot DEF Holders, Holding
      <4>2. taken[s] = 0
        BY <4>1, FS_EmptySet DEF PermitsCounted
      <4>3. ThrottleTypeOK'
        BY SlotNextType
      <4>4. made' \in Seq(Settings) /\ s[1] \in 1..Len(made')
        BY <2>2, <4>3 DEF ThrottleTypeOK, Slots
      <4>5. made'[s[1]] \in Settings
        BY <4>4, ElementOfSeq
      <4>6. Setting(s)'.limit \in Nat
        BY <4>5, ThrottleAssumption DEF Setting
      <4> QED
        BY <1>1, <4>2, <4>6 DEF SetThrottle
    <3> QED
      BY <3>1, <3>2
  <2> QED
    BY <2>1, <2>2 DEF InLimit
<1>2. CASE Tick
  <2>1. PermitsCounted'
    BY <1>2, SameHolders DEF Tick
  <2> QED
    BY <1>2, <2>1 DEF Tick, InLimit, Setting
<1>3. ASSUME NEW t \in Threads, EnterSlot(t) PROVE PermitsCounted' /\ InLimit'
  <2>1. PermitsCounted'
    BY <1>3, SameHolders DEF EnterSlot, Holding, ThrottleTypeOK
  <2> QED
    BY <1>3, <2>1 DEF EnterSlot, InLimit, Setting
<1>4. ASSUME NEW t \in Threads, Acquire(t) PROVE PermitsCounted' /\ InLimit'
  <2>1. PermitsCounted'
    BY <1>4, AcquireCounts
  <2>2. slot[t] \in Slots /\ slot[t][1] <= Len(made)
    BY <1>4, UsedSlot DEF Acquire
  <2>3. taken[slot[t]] < Setting(slot[t]).limit /\ Setting(slot[t]).limit \in Nat
    BY <1>4, <2>2, SettingType DEF Acquire, Available
  <2>4. taken[slot[t]] \in Int /\ taken'[slot[t]] = taken[slot[t]] + 1
    BY <1>4, <2>2 DEF Acquire, OneMore, ThrottleTypeOK
  <2>5. taken'[slot[t]] <= Setting(slot[t]).limit
    BY <2>3, <2>4
  <2>6. \A s \in Slots : s # slot[t] => taken'[s] = taken[s]
    BY <1>4 DEF Acquire, ThrottleTypeOK
  <2>7. UNCHANGED made
    BY <1>4 DEF Acquire
  <2> QED
    BY <2>1, <2>5, <2>6, <2>7 DEF InLimit, Setting
<1>5. ASSUME NEW t \in Threads, Reserve(t) PROVE PermitsCounted' /\ InLimit'
  <2>1. PermitsCounted'
    BY <1>5, SameHolders DEF Reserve, Holding, ThrottleTypeOK
  <2> QED
    BY <1>5, <2>1 DEF Reserve, InLimit, Setting
<1>6. ASSUME NEW t \in Threads, Wake(t) PROVE PermitsCounted' /\ InLimit'
  <2>1. PermitsCounted'
    BY <1>6, SameHolders DEF Wake, Holding, ThrottleTypeOK
  <2> QED
    BY <1>6, <2>1 DEF Wake, InLimit, Setting
<1>7. ASSUME NEW t \in Threads, LeaveSlot(t) PROVE PermitsCounted' /\ InLimit'
  <2>1. PermitsCounted'
    BY <1>7, LeaveCounts
  <2>2. \A s \in Slots : taken'[s] <= taken[s] /\ taken'[s] \in Int /\ taken[s] \in Int
    BY <1>7 DEF LeaveSlot, OneLess, ThrottleTypeOK
  <2>3. UNCHANGED made
    BY <1>7 DEF LeaveSlot
  <2>4. ASSUME NEW s \in Slots, s[1] <= Len(made) PROVE taken'[s] <= Setting(s).limit
    <3>1. Setting(s).limit \in Nat
      BY <2>4, SettingType
    <3> QED
      BY <2>2, <2>4, <3>1 DEF InLimit
  <2> QED
    BY <2>1, <2>3, <2>4 DEF InLimit, Setting
<1>8. CASE UNCHANGED throttleVars
  <2>1. PermitsCounted'
    BY <1>8, SameHolders DEF throttleVars
  <2> QED
    BY <1>8, <2>1 DEF throttleVars, InLimit, Setting
<1> QED
  BY <1>1, <1>2, <1>3, <1>4, <1>5, <1>6, <1>7, <1>8 DEF ThrottleNext, Step

\* A throttle never has more fetches of an identity under way than its limit,
\* however many threads use it and whenever the settings are saved.
THEOREM LimitHolds == ThrottleSpec => []WithinLimit
<1>1. ThrottleTypeOK /\ PermitsCounted /\ InLimit => WithinLimit
  BY DEF PermitsCounted, InLimit, WithinLimit
<1>2. ThrottleInit => ThrottleTypeOK /\ PermitsCounted /\ InLimit
  BY SlotInitType, SlotInitCounts
<1> DEFINE I == ThrottleTypeOK /\ PermitsCounted /\ InLimit
<1>3. I /\ [ThrottleNext]_throttleVars => I'
  BY SlotNextType, SlotNextCounts
<1> QED
  BY <1>1, <1>2, <1>3, PTL DEF ThrottleSpec

-----------------------------------------------------------------------------
(* The reservations *)

\* A step that reserves nothing and lets no time pass.
LEMMA SameStarts ==
  ASSUME ThrottleTypeOK, Ahead, StartsSpaced, UNCHANGED <<next, start>>,
         \A s \in Slots : Reserved(s)' = Reserved(s),
         \A s \in Slots : Reserved(s) # {} => Setting(s)' = Setting(s)
  PROVE  Ahead' /\ StartsSpaced'
<1>1. ASSUME NEW s \in Slots, NEW t \in Reserved(s)', start'[t] > -Horizon
      PROVE  start'[t] + Setting(s)'.low <= next'[s]
  BY <1>1 DEF Ahead
<1>2. ASSUME NEW s \in Slots, NEW t \in Reserved(s)', NEW u \in Reserved(s)', t # u,
             start'[t] > -Horizon, start'[u] > -Horizon
      PROVE  \/ start'[t] + Setting(s)'.low <= start'[u]
             \/ start'[u] + Setting(s)'.low <= start'[t]
  BY <1>2 DEF StartsSpaced
<1> QED
  BY <1>1, <1>2 DEF Ahead, StartsSpaced

LEMMA SetThrottleKeepsStarts ==
  ASSUME ThrottleTypeOK, Ahead, StartsSpaced, SetThrottle
  PROVE  Ahead' /\ StartsSpaced'
<1>1. \A s \in Slots : Reserved(s)' = Reserved(s)
  BY DEF SetThrottle, Reserved
<1>2. ASSUME NEW s \in Slots, Reserved(s) # {} PROVE Setting(s)' = Setting(s)
  <2>1. s[1] <= Len(made)
    BY <1>2, UsedSlot DEF Reserved, Started
  <2> QED
    BY <2>1 DEF SetThrottle, Setting, ThrottleTypeOK, Slots
<1> QED
  BY <1>1, <1>2, SameStarts DEF SetThrottle

\* Only the thread that asks gets a start: the next one, which then moves on.
LEMMA ReserveKeepsStarts ==
  ASSUME ThrottleTypeOK, Ahead, StartsSpaced, NEW t \in Threads, Reserve(t)
  PROVE  Ahead' /\ StartsSpaced'
<1> DEFINE mine == slot[t]
<1>1. mine \in Slots /\ mine[1] <= Len(made)
  BY UsedSlot DEF Reserve
<1>2. Setting(mine).low \in Nat /\ next[mine] \in Nat
  BY <1>1, SettingType DEF ThrottleTypeOK
<1>3. PICK interval \in Setting(mine).low..Setting(mine).high :
        next' = [next EXCEPT ![mine] = Following(mine, interval)]
  BY DEF Reserve
<1>4. next'[mine] = next[mine] + interval /\ Setting(mine).low <= interval /\ interval \in Int
  BY <1>1, <1>2, <1>3, SettingType DEF Following, ThrottleTypeOK
<1>5. start'[t] = next[mine]
  BY DEF Reserve, ThrottleTypeOK
<1>6. \A u \in Threads : u # t => start'[u] = start[u]
  BY DEF Reserve, ThrottleTypeOK
<1>7. \A s \in Slots : s # mine => next'[s] = next[s] /\ Reserved(s)' = Reserved(s)
  BY <1>1, <1>3 DEF Reserve, Reserved, Started, ThrottleTypeOK
<1>8. \A s \in Slots : s = mine => Reserved(s)' = Reserved(s) \cup {t}
  BY DEF Reserve, Reserved, Started, ThrottleTypeOK
<1>9. \A s \in Slots : Setting(s)' = Setting(s)
  BY DEF Reserve, Setting
<1>10. \A s \in Slots : s # mine => t \notin Reserved(s)
  BY DEF Reserved
<1>11. \A s \in Slots : Reserved(s) \subseteq Threads
  BY DEF Reserved
<1>12. \A u \in Threads : start[u] \in Int
  BY DEF ThrottleTypeOK
<1>13. \A u \in Reserved(mine) : start[u] > -Horizon => start[u] + Setting(mine).low <= next[mine]
  BY <1>1 DEF Ahead
<1> HIDE DEF mine
<1>14. ASSUME NEW s \in Slots, NEW u \in Reserved(s)', start'[u] > -Horizon
       PROVE  start'[u] + Setting(s).low <= next'[s]
  <2>1. CASE s # mine
    <3>1. u \in Reserved(s) /\ u \in Threads /\ u # t
      BY <1>7, <1>10, <1>11, <2>1
    <3> QED
      BY <1>6, <1>7, <1>14, <2>1, <3>1 DEF Ahead
  <2>2. CASE s = mine /\ u = t
    BY <1>2, <1>4, <1>5, <2>2
  <2>3. CASE s = mine /\ u # t
    <3>1. u \in Reserved(mine) /\ u \in Threads
      BY <1>8, <1>11, <2>3
    <3>2. start'[u] = start[u] /\ start[u] \in Int
      BY <1>6, <1>12, <2>3, <3>1
    <3>3. start[u] + Setting(mine).low <= next[mine]
      BY <1>13, <1>14, <3>1, <3>2
    <3>4. next[mine] <= next'[mine]
      BY <1>2, <1>4
    <3> QED
      BY <1>2, <1>4, <2>3, <3>2, <3>3, <3>4
  <2> QED
    BY <2>1, <2>2, <2>3
<1>15. ASSUME NEW s \in Slots, NEW u \in Reserved(s)', NEW v \in Reserved(s)', u # v,
              start'[u] > -Horizon, start'[v] > -Horizon
       PROVE  \/ start'[u] + Setting(s).low <= start'[v]
              \/ start'[v] + Setting(s).low <= start'[u]
  <2>1. CASE s # mine
    <3>1. u \in Reserved(s) /\ v \in Reserved(s) /\ u \in Threads /\ v \in Threads
          /\ u # t /\ v # t
      BY <1>7, <1>10, <1>11, <2>1
    <3> QED
      BY <1>6, <1>15, <3>1 DEF StartsSpaced
  <2>2. CASE s = mine /\ u # t /\ v # t
    <3>1. u \in Reserved(s) /\ v \in Reserved(s) /\ u \in Threads /\ v \in Threads
      BY <1>8, <1>11, <2>2
    <3> QED
      BY <1>6, <1>15, <2>2, <3>1 DEF StartsSpaced
  <2>3. CASE s = mine /\ u = t
    <3>1. v \in Reserved(mine) /\ v \in Threads /\ v # t
      BY <1>8, <1>11, <1>15, <2>3
    <3> QED
      BY <1>5, <1>6, <1>13, <1>15, <2>3, <3>1
  <2>4. CASE s = mine /\ v = t
    <3>1. u \in Reserved(mine) /\ u \in Threads /\ u # t
      BY <1>8, <1>11, <1>15, <2>4
    <3> QED
      BY <1>5, <1>6, <1>13, <1>15, <2>4, <3>1
  <2> QED
    BY <2>1, <2>2, <2>3, <2>4
<1> QED
  BY <1>9, <1>14, <1>15 DEF Ahead, StartsSpaced

\* Time moves the starts that are remembered together, and never past the next.
LEMMA TickKeepsStarts ==
  ASSUME ThrottleTypeOK, Ahead, StartsSpaced, Tick
  PROVE  Ahead' /\ StartsSpaced'
<1>1. \A s \in Slots : Reserved(s)' = Reserved(s) /\ Setting(s)' = Setting(s)
  BY DEF Tick, Reserved, Setting
<1>2. ASSUME NEW s \in Slots, NEW t \in Reserved(s), start'[t] > -Horizon
      PROVE  /\ start'[t] = start[t] - 1 /\ start[t] > -Horizon
             /\ start[t] \in Int
             /\ s[1] <= Len(made)
  <2>1. t \in Threads /\ at[t] \in Started /\ slot[t] = s
    BY DEF Reserved
  <2>2. start[t] \in Int /\ Horizon \in Nat
    BY <2>1, ThrottleAssumption DEF ThrottleTypeOK
  <2>3. start'[t] = IF start[t] > -Horizon THEN start[t] - 1 ELSE start[t]
    BY <2>1 DEF Tick
  <2>4. s[1] <= Len(made)
    BY <2>1, UsedSlot DEF Started
  <2> QED
    BY <1>2, <2>2, <2>3, <2>4
<1>3. ASSUME NEW s \in Slots, NEW t \in Reserved(s), start'[t] > -Horizon
      PROVE  start'[t] + Setting(s).low <= next'[s]
  <2>1. start'[t] = start[t] - 1 /\ start[t] \in Int /\ s[1] <= Len(made)
    BY <1>2, <1>3
  <2>2. start[t] + Setting(s).low <= next[s]
    BY <1>2, <1>3 DEF Ahead
  <2>3. next[s] \in Nat /\ next'[s] = IF next[s] > 0 THEN next[s] - 1 ELSE 0
    BY DEF Tick, NotBeforeNow, ThrottleTypeOK
  <2>4. Setting(s).low \in Nat
    BY <2>1, SettingType
  <2> QED
    BY <2>1, <2>2, <2>3, <2>4
<1>4. ASSUME NEW s \in Slots, NEW t \in Reserved(s), NEW u \in Reserved(s), t # u,
             start'[t] > -Horizon, start'[u] > -Horizon
      PROVE  \/ start'[t] + Setting(s).low <= start'[u]
             \/ start'[u] + Setting(s).low <= start'[t]
  <2>1. start'[t] = start[t] - 1 /\ start[t] \in Int /\ start[t] > -Horizon /\ s[1] <= Len(made)
    BY <1>2, <1>4
  <2>2. start'[u] = start[u] - 1 /\ start[u] \in Int /\ start[u] > -Horizon
    BY <1>2, <1>4
  <2>3. Setting(s).low \in Nat
    BY <2>1, SettingType
  <2>4. \/ start[t] + Setting(s).low <= start[u]
        \/ start[u] + Setting(s).low <= start[t]
    BY <1>4, <2>1, <2>2 DEF StartsSpaced
  <2> QED
    BY <2>1, <2>2, <2>3, <2>4
<1> QED
  BY <1>1, <1>3, <1>4 DEF Ahead, StartsSpaced

LEMMA NextKeepsStarts ==
  ASSUME ThrottleTypeOK, Ahead, StartsSpaced, [ThrottleNext]_throttleVars
  PROVE  Ahead' /\ StartsSpaced'
<1>1. ASSUME NEW t \in Threads, EnterSlot(t) PROVE Ahead' /\ StartsSpaced'
  <2>1. \A s \in Slots : Reserved(s)' = Reserved(s)
    BY <1>1 DEF EnterSlot, Reserved, Started, ThrottleTypeOK
  <2> QED
    BY <1>1, <2>1, SameStarts DEF EnterSlot, Setting
<1>2. ASSUME NEW t \in Threads, Acquire(t) PROVE Ahead' /\ StartsSpaced'
  <2>1. \A s \in Slots : Reserved(s)' = Reserved(s)
    BY <1>2 DEF Acquire, Reserved, Started, ThrottleTypeOK
  <2> QED
    BY <1>2, <2>1, SameStarts DEF Acquire, Setting
<1>3. ASSUME NEW t \in Threads, Wake(t) PROVE Ahead' /\ StartsSpaced'
  <2>1. \A s \in Slots : Reserved(s)' = Reserved(s)
    BY <1>3 DEF Wake, Reserved, Started, ThrottleTypeOK
  <2> QED
    BY <1>3, <2>1, SameStarts DEF Wake, Setting
<1>4. ASSUME NEW t \in Threads, LeaveSlot(t) PROVE Ahead' /\ StartsSpaced'
  <2>1. \A s \in Slots : Reserved(s)' = Reserved(s)
    BY <1>4 DEF LeaveSlot, Reserved, Started, ThrottleTypeOK
  <2> QED
    BY <1>4, <2>1, SameStarts DEF LeaveSlot, Setting
<1>5. CASE UNCHANGED throttleVars
  <2>1. \A s \in Slots : Reserved(s)' = Reserved(s)
    BY <1>5 DEF throttleVars, Reserved
  <2> QED
    BY <1>5, <2>1, SameStarts DEF throttleVars, Setting
<1> QED
  BY <1>1, <1>2, <1>3, <1>4, <1>5, SetThrottleKeepsStarts, ReserveKeepsStarts,
     TickKeepsStarts DEF ThrottleNext, Step

\* Two accounts of one identity start at least the smallest configured interval
\* apart, whatever the threads do between the reservation and the sleep.
THEOREM SpacingHolds == ThrottleSpec => []StartsSpaced
<1>1. ThrottleInit => ThrottleTypeOK /\ Ahead /\ StartsSpaced
  BY SlotInitType DEF ThrottleInit, Ahead, StartsSpaced, Reserved, Started
<1> DEFINE I == ThrottleTypeOK /\ Ahead /\ StartsSpaced
<1>2. I /\ [ThrottleNext]_throttleVars => I'
  BY SlotNextType, NextKeepsStarts
<1> QED
  BY <1>1, <1>2, PTL DEF ThrottleSpec

-----------------------------------------------------------------------------
(***************************************************************************)
(* The mails.                                                              *)
(***************************************************************************)
(* The constants *)

LEMMA Numbers ==
  /\ NMails \in Nat \ {0} /\ Page \in Nat \ {0} /\ NFolders \in Nat \ {0} /\ MaxFaults \in Nat
  /\ Mails = 1..NMails /\ Folders = 1..NFolders
  /\ Newest \in Nat /\ 1 < Newest
<1>1. NMails \in Nat \ {0} /\ Page \in Nat \ {0} /\ NFolders \in Nat \ {0} /\ MaxFaults \in Nat
  BY SyncAssumption
<1> QED BY <1>1 DEF Mails, Folders, Newest

LEMMA MailNumber == \A m \in Mails : m \in Nat /\ 1 <= m /\ m < Newest /\ m <= m
<1>1. NMails \in Nat /\ Mails = 1..NMails /\ Newest = NMails + 1
  BY Numbers DEF Newest
<1> QED BY <1>1

LEMMA SetupType ==
  ASSUME NEW s \in Setups
  PROVE  /\ s.protocol \in Protocols /\ s.folders \in Folders /\ s.limit \in Nat
         /\ s.post \in Actions /\ s.rule \in Actions /\ s.message \in [Mails -> Mails]
<1>1. s \in [protocol : Protocols, folders : Folders, limit : Nat,
             post : Actions, rule : Actions, message : [Mails -> Mails]]
  BY SyncAssumption
<1> QED BY <1>1

-----------------------------------------------------------------------------
(* Listings *)

\* s lists mails of S, newest first.
Lists(s, S) ==
  /\ s \in Seq(Mails)
  /\ \A i \in 1..Len(s) : s[i] \in S
  /\ \A i, j \in 1..Len(s) : i < j => s[j] < s[i]

\* How many mails of S are as new as m.
Rank(S, m) == Cardinality({n \in S : n >= m})

LEMMA FiniteMails ==
  ASSUME NEW S \in SUBSET Mails
  PROVE  IsFiniteSet(S) /\ Cardinality(S) \in 0..NMails
<1>1. NMails \in Nat \ {0}
  BY Numbers
<1>2. IsFiniteSet(Mails) /\ Cardinality(Mails) = NMails
  BY <1>1, FS_Interval DEF Mails
<1>3. IsFiniteSet(S) /\ Cardinality(S) <= NMails
  BY <1>2, FS_Subset
<1>4. Cardinality(S) \in Nat
  BY <1>3, FS_CardinalityType
<1> QED BY <1>1, <1>3, <1>4

LEMMA RankInSet ==
  ASSUME NEW S \in SUBSET Mails, NEW m \in S
  PROVE  Rank(S, m) \in 1..Cardinality(S)
<1> DEFINE above == {n \in S : n >= m}
<1>1. above \in SUBSET Mails /\ above \in SUBSET S
  OBVIOUS
<1>2. IsFiniteSet(S) /\ Cardinality(S) \in Nat
  BY FiniteMails
<1>3. IsFiniteSet(above) /\ Cardinality(above) \in Nat /\ Cardinality(above) <= Cardinality(S)
  BY <1>1, <1>2, FiniteMails, FS_Subset
<1>4. m \in above
  BY Numbers
<1>5. Cardinality(above) # 0
  BY <1>3, <1>4, FS_EmptySet
<1> QED BY <1>2, <1>3, <1>5 DEF Rank

LEMMA RankFalls ==
  ASSUME NEW S \in SUBSET Mails, NEW m \in S, NEW n \in S, m < n
  PROVE  Rank(S, n) < Rank(S, m)
<1> DEFINE high == {k \in S : k >= n}
           low  == {k \in S : k >= m}
<1>1. m \in Int /\ n \in Int /\ \A k \in S : k \in Int
  <2>1. \A k \in S : k \in Mails
    OBVIOUS
  <2>2. \A k \in Mails : k \in Int
    BY MailNumber
  <2> QED BY <2>1, <2>2
<1>2. high \in SUBSET low /\ m \in low /\ m \notin high
  <2>1. ASSUME NEW k \in high PROVE k \in low
    BY <1>1
  <2>2. m \in low
    BY <1>1
  <2>3. m \notin high
    BY <1>1
  <2> QED BY <2>1, <2>2, <2>3
<1>3. IsFiniteSet(low) /\ Cardinality(low) \in Nat
  BY FiniteMails
<1>4. Cardinality(high) \in Nat
  BY FiniteMails
<1>5. Cardinality(high) <= Cardinality(low) /\ Cardinality(high) # Cardinality(low)
  BY <1>2, <1>3, FS_Subset
<1> QED BY <1>3, <1>4, <1>5 DEF Rank

LEMMA EveryRank ==
  ASSUME NEW S \in SUBSET Mails, NEW i \in 1..Cardinality(S)
  PROVE  \E m \in S : Rank(S, m) = i
<1> SUFFICES ASSUME \A m \in S : Rank(S, m) # i PROVE FALSE
  OBVIOUS
<1> DEFINE c == Cardinality(S)
           T == (1..c) \ {i}
           f == [m \in S |-> Rank(S, m)]
<1>1. IsFiniteSet(S) /\ c \in Nat
  BY FiniteMails
<1>2. IsFiniteSet(1..c) /\ Cardinality(1..c) = c
  BY <1>1, FS_Interval
<1>3. IsFiniteSet(T) /\ Cardinality(T) = c - 1
  BY <1>2, FS_RemoveElement
<1>4. f \in [S -> T]
  BY RankInSet
<1> HIDE DEF f, T
<1>5. \E x, y \in S : x # y /\ f[x] = f[y]
  BY <1>1, <1>3, <1>4, FS_PigeonHole DEF c
<1>6. PICK x \in S, y \in S : x # y /\ f[x] = f[y]
  BY <1>5
<1>7. x \in Int /\ y \in Int
  BY Numbers
<1>8. Rank(S, x) = Rank(S, y)
  BY <1>6 DEF f
<1>9. Rank(S, x) \in Int /\ Rank(S, y) \in Int
  BY RankInSet
<1>10. CASE x < y
  BY <1>8, <1>9, <1>10, RankFalls
<1>11. CASE y < x
  BY <1>8, <1>9, <1>11, RankFalls
<1> QED BY <1>6, <1>7, <1>10, <1>11

\* NewestFirst lists its set, all of it, the newest mail first.
LEMMA NewestFirstLists ==
  ASSUME NEW S \in SUBSET Mails
  PROVE  /\ Lists(NewestFirst(S), S)
         /\ Len(NewestFirst(S)) = Cardinality(S)
<1> DEFINE c == Cardinality(S)
           pick(i) == CHOOSE m \in S : Rank(S, m) = i
<1>1. c \in Nat
  BY FiniteMails
<1>2. ASSUME NEW i \in 1..c PROVE pick(i) \in S /\ Rank(S, pick(i)) = i
  BY EveryRank
<1>3. NewestFirst(S) = [i \in 1..c |-> pick(i)]
  BY DEF NewestFirst, Rank
<1> HIDE DEF pick
<1>4. PICK s : s = NewestFirst(S)
  OBVIOUS
<1>5. s \in Seq(Mails) /\ Len(s) = c
  BY <1>1, <1>2, <1>3, <1>4
<1>6. \A i \in 1..c : s[i] = pick(i)
  BY <1>3, <1>4
<1>7. ASSUME NEW i \in 1..c, NEW j \in 1..c, i < j PROVE s[j] < s[i]
  <2>1. s[i] \in S /\ s[j] \in S /\ Rank(S, s[i]) = i /\ Rank(S, s[j]) = j
    BY <1>2, <1>6
  <2>2. s[i] \in Int /\ s[j] \in Int /\ i \in Int /\ j \in Int
    <3>1. s[i] \in Mails /\ s[j] \in Mails
      BY <2>1
    <3>2. \A k \in Mails : k \in Int
      BY MailNumber
    <3> QED BY <1>1, <3>1, <3>2
  <2>3. CASE s[i] < s[j]
    BY <1>7, <2>1, <2>2, <2>3, RankFalls
  <2> QED BY <1>7, <2>1, <2>2, <2>3
<1> HIDE DEF c
<1> QED BY <1>2, <1>4, <1>5, <1>6, <1>7 DEF Lists, c

LEMMA FirstOfLists ==
  ASSUME NEW S, NEW s, Lists(s, S), NEW n \in Nat
  PROVE  /\ Lists(FirstOf(s, n), S)
         /\ Len(FirstOf(s, n)) = IF n < Len(s) THEN n ELSE Len(s)
         /\ \A i \in 1..Len(FirstOf(s, n)) : FirstOf(s, n)[i] = s[i]
<1> DEFINE k == IF n < Len(s) THEN n ELSE Len(s)
<1>1. s \in Seq(Mails) /\ Len(s) \in Nat
  BY DEF Lists
<1>2. k \in Nat /\ k <= Len(s)
  BY <1>1
<1>3. PICK t : t = SubSeq(s, 1, k)
  OBVIOUS
<1>4. \A i \in 1..k : s[i] \in Mails
  BY <1>1, <1>2
<1>5. t \in Seq(Mails) /\ Len(t) = k /\ \A i \in 1..k : t[i] = s[i]
  <2> HIDE DEF k
  <2>1. /\ SubSeq(s, 1, k) \in Seq(Mails)
        /\ Len(SubSeq(s, 1, k)) = IF 1 <= k THEN k - 1 + 1 ELSE 0
        /\ \A i \in 1..(k - 1 + 1) : SubSeq(s, 1, k)[i] = s[1 + i - 1]
    BY <1>2, <1>4, SubSeqProperties
  <2>2. \A i \in 1..k : 1 + i - 1 = i /\ i \in 1..(k - 1 + 1)
    BY <1>2
  <2> QED BY <1>2, <1>3, <2>1, <2>2
<1>6. t = FirstOf(s, n)
  BY <1>3 DEF FirstOf
<1> HIDE DEF k
<1>7. Lists(t, S)
  BY <1>1, <1>2, <1>5 DEF Lists
<1> QED BY <1>5, <1>6, <1>7 DEF k

\* Room is left for the mails of a request, so its limit cuts the list off.
LEMMA AllowedLists ==
  ASSUME TypeOK, Room, NEW S, NEW s, Lists(s, S)
  PROVE  Lists(Allowed(s), S)
<1>1. CASE ~Limited
  BY <1>1 DEF Allowed
<1>2. CASE Limited
  <2>1. setup.limit \in Nat /\ Len(got) \in Nat
    BY SetupType DEF TypeOK
  <2>2. Left \in Nat
    BY <1>2, <2>1 DEF Room, Left
  <2> QED BY <1>2, <2>2, FirstOfLists DEF Allowed
<1> QED BY <1>1, <1>2

-----------------------------------------------------------------------------
(* The invariant *)

\* A mail is stored; its server tells it from every other mail.
InStore(r, f, s, m) == \E x \in r : x.folder = f[m] /\ x.message = s.message[m]
Alone(f, s, m) ==
  /\ s.protocol # "pop3 numbers"
  /\ \A n \in Mails \ {m} : f[n] = f[m] => s.message[n] # s.message[m]

\* What each place in fetch_account leaves empty.
Phases ==
  /\ pc \in {"idle", "closing"} => got = <<>>
  /\ pc # "rules" => done = 0
  /\ pc # "downloading" => todo = <<>>
  /\ pc = "listing" => older > 0 /\ Room
  /\ setup.protocol # "graph" =>
       /\ pc = "listing" => older = Newest
       /\ pc = "downloading" => older = 0

\* A POP3 session keeps its mails on the server, and marks are for it alone.
Sessions ==
  /\ pc = "idle" \/ ~IsPop => marked = {}
  /\ IsPop => \A i \in DOMAIN got : got[i] \in server

\* The mails of a fetch come folder by folder and newest first, each of them once.
Ordered ==
  /\ \A i, j \in DOMAIN todo : i < j => todo[j] < todo[i]
  /\ \A i \in DOMAIN todo : folder[todo[i]] = place /\ older <= todo[i]
  /\ \A i, j \in DOMAIN got : i # j => got[i] # got[j]
  /\ \A i \in DOMAIN got : folder[got[i]] # 0
  /\ pc \in {"listing", "downloading"} =>
       \A i \in DOMAIN got :
         \/ folder[got[i]] < place
         \/ /\ folder[got[i]] = place /\ older <= got[i]
            /\ \A j \in DOMAIN todo : todo[j] < got[i]

\* A mail the store can know is not fetched again.
Fresh ==
  /\ \A i \in DOMAIN todo : Alone(folder, setup, todo[i]) => ~InStore(rows, folder, setup, todo[i])
  /\ \A i \in DOMAIN got : Alone(folder, setup, got[i]) => ~InStore(rows, folder, setup, got[i])

\* Each row comes from a mail that was put to the rule.
Comes(r, f, s, t) ==
  \E n \in Mails : /\ f[n] = r.folder /\ s.message[n] = r.message
                   /\ s.protocol # "pop3 numbers" => r.tid = n
                   /\ n \in Ruled => n \in t
Witnessed == \A r \in rows : Comes(r, folder, setup, tried)
Heard == \A i \in 1..done : got[i] \in Ruled => got[i] \in tried

\* A webhook told of a mail: it is stored, or among those the rules have seen.
Told(r, f, s, g, d, m) == InStore(r, f, s, m) \/ \E i \in 1..d : g[i] = m
CountedOnce ==
  /\ \A m \in Mails : lost[m] <= faults
  /\ \A m \in Mails : notified[m] # 0 => folder[m] # 0
  /\ \A m \in Mails : Alone(folder, setup, m) =>
       notified[m] <= lost[m] + (IF Told(rows, folder, setup, got, done, m) THEN 1 ELSE 0)

\* A mail that is deleted, or marked for QUIT, is stored, was thrown away, or is
\* on its way; an attempt without a post action has deleted none of its mails.
OnItsWay(g, p, s, m) ==
  m \in Range(g) /\ ~(p \in {"listing", "downloading"} /\ s.post = "none")
Kept ==
  \A m \in deleted \cup marked :
     \/ InStore(rows, folder, setup, m) \/ lost[m] > 0
     \/ OnItsWay(got, pc, setup, m)

Inv ==
  /\ TypeOK /\ Phases /\ Sessions /\ Ordered /\ Fresh /\ Witnessed /\ Heard
  /\ CountedOnce /\ Kept

-----------------------------------------------------------------------------
(* The folders *)

\* A mail that has arrived stays in its folder.
Steady(f, g) == \A m \in Mails : f[m] # 0 => g[m] = f[m]

LEMMA AloneKept ==
  ASSUME NEW f, NEW g, Steady(f, g), NEW s, NEW m \in Mails, f[m] # 0, Alone(g, s, m)
  PROVE  Alone(f, s, m)
BY DEF Alone, Steady

LEMMA InStoreKept ==
  ASSUME NEW f, NEW g, Steady(f, g), NEW s, NEW r, NEW m \in Mails, f[m] # 0
  PROVE  InStore(r, g, s, m) <=> InStore(r, f, s, m)
BY DEF InStore, Steady

\* Only mails that have arrived are stored.
LEMMA StoredArrived ==
  ASSUME TypeOK, NEW m, InStore(rows, folder, setup, m)
  PROVE  folder[m] # 0
<1>1. PICK r \in rows : r.folder = folder[m]
  BY DEF InStore
<1>2. r.folder \in Folders
  BY <1>1 DEF TypeOK, Rows
<1>3. NFolders \in Nat /\ Folders = 1..NFolders
  BY Numbers
<1> QED BY <1>1, <1>2, <1>3

LEMMA FoldersKept ==
  ASSUME TypeOK, [Next]_vars
  PROVE  /\ Steady(folder, folder')
         /\ setup' = setup
         /\ folder' \in [Mails -> 0..NFolders]
<1>1. CASE Arrive
  <2>1. PICK m \in Mails : \E f \in 1..setup.folders :
          folder[m] = 0 /\ folder' = [folder EXCEPT ![m] = f] /\ setup' = setup
    BY <1>1 DEF Arrive
  <2>2. PICK f \in 1..setup.folders :
          folder[m] = 0 /\ folder' = [folder EXCEPT ![m] = f] /\ setup' = setup
    BY <2>1
  <2>3. f \in 0..NFolders
    <3>1. setup.folders \in Folders
      BY SetupType DEF TypeOK
    <3>2. NFolders \in Nat /\ Folders = 1..NFolders
      BY Numbers
    <3> QED BY <3>1, <3>2
  <2> QED BY <2>2, <2>3 DEF Steady, TypeOK
<1>2. CASE ~Arrive
  <2>1. folder' = folder /\ setup' = setup
    <3>1. CASE Fetch
      BY <3>1 DEF Fetch, Begin, ListUnknown, ListPage, Download, SkipMail, NextListing,
         GraphRefuses, RunRules, Store, Close
    <3>2. CASE OtherDeletes
      BY <3>2 DEF OtherDeletes
    <3>3. CASE Fail
      BY <3>3 DEF Fail, SkipFolder, Retry, Break, Raise, Crash
    <3>4. CASE UNCHANGED vars
      BY <3>4 DEF vars
    <3> QED BY <1>2, <3>1, <3>2, <3>3, <3>4 DEF Next, World
  <2> QED BY <2>1 DEF Steady, TypeOK
<1> QED BY <1>1, <1>2

-----------------------------------------------------------------------------
(* The store *)

\* Of the messages with the row of one message one is the last.
LEMMA LastOfRow ==
  ASSUME TypeOK, NEW i \in DOMAIN got
  PROVE  \E k \in DOMAIN got :
           /\ SameRow(got[i], got[k])
           /\ \A j \in DOMAIN got : j > k => ~SameRow(got[k], got[j])
<1>1. PICK n : n = Len(got) /\ n \in Nat /\ DOMAIN got = 1..n
  <2>1. Len(got) \in Nat /\ DOMAIN got = 1..Len(got)
    BY DEF TypeOK
  <2> QED BY <2>1
<1> DEFINE U == {d \in Nat : n - d \in 1..n /\ SameRow(got[i], got[n - d])}
<1>2. n - i \in Nat /\ n - (n - i) = i /\ i \in 1..n
  BY <1>1
<1>3. n - i \in U
  BY <1>2 DEF SameRow
<1>4. PICK d \in U : \A e \in U : <<e, d>> \notin OpToRel(<, Nat)
  <2>1. U \subseteq Nat /\ U # {}
    BY <1>3
  <2> HIDE DEF U
  <2> QED BY <2>1, NatLessThanWellFounded, WFMin
<1>5. PICK k : k = n - d /\ k \in 1..n /\ d \in Nat /\ SameRow(got[i], got[k])
  BY <1>4
<1>6. ASSUME NEW j \in 1..n, j > k, SameRow(got[k], got[j]) PROVE FALSE
  <2>1. SameRow(got[i], got[j])
    BY <1>5, <1>6 DEF SameRow
  <2>2. n - j \in Nat /\ n - (n - j) = j /\ n - j < d
    BY <1>1, <1>5, <1>6
  <2>3. n - j \in U
    BY <2>1, <2>2
  <2>4. <<n - j, d>> \in OpToRel(<, Nat)
    BY <1>5, <2>2 DEF OpToRel
  <2> QED BY <1>4, <2>3, <2>4
<1> QED BY <1>1, <1>5, <1>6

RowOf(i) == [folder |-> folder[got[i]], message |-> setup.message[got[i]], tid |-> Tid(got[i])]

\* A row is an old one, or that of a message.
LEMMA UpsertedFrom ==
  ASSUME NEW r \in Upserted
  PROVE  r \in rows \/ \E i \in DOMAIN got : r = RowOf(i)
BY DEF Upserted, RowOf

\* What was stored is stored, and so is every message.
LEMMA UpsertedHolds ==
  ASSUME TypeOK, NEW m,
         InStore(rows, folder, setup, m) \/ m \in Range(got)
  PROVE  InStore(Upserted, folder, setup, m)
<1> DEFINE last == {i \in DOMAIN got : \A j \in DOMAIN got : j > i => ~SameRow(got[i], got[j])}
           new  == {RowOf(i) : i \in last}
<1>1. Upserted = new \cup {r \in rows : \A n \in new : r.folder # n.folder \/ r.message # n.message}
  BY DEF Upserted, RowOf
<1>2. CASE m \in Range(got)
  <2>1. PICK i \in DOMAIN got : got[i] = m
    BY <1>2 DEF Range
  <2>2. PICK k \in DOMAIN got : /\ SameRow(got[i], got[k])
                                /\ \A j \in DOMAIN got : j > k => ~SameRow(got[k], got[j])
    BY LastOfRow
  <2>3. RowOf(k) \in Upserted
    BY <1>1, <2>2
  <2>4. RowOf(k).folder = folder[m] /\ RowOf(k).message = setup.message[m]
    BY <2>1, <2>2 DEF RowOf, SameRow
  <2> QED BY <2>3, <2>4 DEF InStore
<1>3. CASE InStore(rows, folder, setup, m)
  <2>1. PICK r \in rows : r.folder = folder[m] /\ r.message = setup.message[m]
    BY <1>3 DEF InStore
  <2>2. CASE \A n \in new : r.folder # n.folder \/ r.message # n.message
    <3>1. r \in Upserted
      BY <1>1, <2>2
    <3> QED BY <2>1, <3>1 DEF InStore
  <2>3. CASE ~\A n \in new : r.folder # n.folder \/ r.message # n.message
    <3>1. PICK n \in new : r.folder = n.folder /\ r.message = n.message
      BY <2>3
    <3>2. n \in Upserted
      BY <1>1
    <3> QED BY <2>1, <3>1, <3>2 DEF InStore
  <2> QED BY <2>2, <2>3
<1> QED BY <1>2, <1>3

LEMMA CountOfMails ==
  ASSUME NEW S \in SUBSET Mails, NEW m \in S
  PROVE  Cardinality(S) \in Mails
<1>1. IsFiniteSet(S) /\ Cardinality(S) \in 0..NMails
  BY FiniteMails
<1>2. Cardinality(S) # 0
  BY <1>1, FS_EmptySet
<1>3. \A c \in 0..NMails : c # 0 => c \in Mails
  BY Numbers
<1> QED BY <1>1, <1>2, <1>3

LEMMA TidType ==
  ASSUME TypeOK, NEW m \in Mails, setup.protocol = "pop3 numbers" => m \in server
  PROVE  Tid(m) \in Mails /\ (setup.protocol # "pop3 numbers" => Tid(m) = m)
<1>1. CASE setup.protocol # "pop3 numbers"
  BY <1>1 DEF Tid
<1>2. CASE setup.protocol = "pop3 numbers"
  <2> DEFINE low == {n \in server : n <= m}
  <2>1. low \in SUBSET Mails
    BY DEF TypeOK
  <2>2. m \in low
    BY <1>2, MailNumber
  <2>3. Tid(m) = Cardinality(low)
    BY <1>2 DEF Tid
  <2> HIDE DEF low
  <2> QED BY <1>2, <2>1, <2>2, <2>3, CountOfMails
<1> QED BY <1>1, <1>2

LEMMA FolderType ==
  ASSUME TypeOK, NEW m \in Mails
  PROVE  folder[m] \in 0..NFolders /\ (folder[m] # 0 => folder[m] \in Folders)
<1>1. NFolders \in Nat /\ Folders = 1..NFolders
  BY Numbers
<1>2. folder[m] \in 0..NFolders
  BY DEF TypeOK
<1> QED BY <1>1, <1>2

LEMMA UpsertedType ==
  ASSUME TypeOK, Sessions, Ordered
  PROVE  Upserted \subseteq Rows
<1>1. ASSUME NEW i \in DOMAIN got PROVE RowOf(i) \in Rows
  <2>1. got[i] \in Mails
    BY DEF TypeOK
  <2>2. folder[got[i]] \in Folders
    BY <2>1, FolderType DEF Ordered
  <2>3. setup.message[got[i]] \in Mails
    BY <2>1, SetupType DEF TypeOK
  <2>4. Tid(got[i]) \in Mails
    BY <2>1, TidType DEF Sessions, IsPop
  <2> QED BY <2>2, <2>3, <2>4 DEF RowOf, Rows
<1> QED BY <1>1, UpsertedFrom DEF TypeOK

-----------------------------------------------------------------------------
(* What a listing brings *)

LEMMA UnknownLists ==
  ASSUME TypeOK, Room
  PROVE  Lists(UnknownNewest, {m \in InFolder : ~IsKnown(m)})
<1>1. {m \in InFolder : ~IsKnown(m)} \in SUBSET Mails
  BY DEF InFolder, TypeOK
<1>2. Lists(NewestFirst({m \in InFolder : ~IsKnown(m)}), {m \in InFolder : ~IsKnown(m)})
  BY <1>1, NewestFirstLists
<1> QED BY <1>2, AllowedLists DEF UnknownNewest

LEMMA PageLists ==
  ASSUME TypeOK, Room
  PROVE  /\ Lists(PageNow, Older)
         /\ Len(PageNow) # Cardinality(Older) => Len(PageNow) \in Nat \ {0}
<1>1. Older \in SUBSET Mails
  BY DEF Older, InFolder, TypeOK
<1>2. PageSize \in Nat \ {0}
  <2>1. setup.limit \in Nat /\ Len(got) \in Nat
    BY SetupType DEF TypeOK
  <2>2. Limited => Left \in Nat \ {0}
    BY <2>1 DEF Room, Left
  <2> QED BY <2>2, Numbers DEF PageSize
<1>3. Lists(NewestFirst(Older), Older) /\ Len(NewestFirst(Older)) = Cardinality(Older)
  BY <1>1, NewestFirstLists
<1>4. Lists(PageNow, Older)
  BY <1>2, <1>3, FirstOfLists DEF PageNow
<1>5. Len(PageNow) = IF PageSize < Cardinality(Older) THEN PageSize ELSE Cardinality(Older)
  BY <1>2, <1>3, FirstOfLists DEF PageNow
<1> QED BY <1>2, <1>4, <1>5

LEMMA PageBrings ==
  ASSUME TypeOK, Room, ListPage
  PROVE  /\ Lists(todo', {m \in Older : ~IsKnown(m)})
         /\ older' \in 0..Newest
         /\ \A i \in 1..Len(todo') : older' <= todo'[i]
         /\ older' # 0 => older' \in Older
<1>1. PICK p : p = PageNow
  OBVIOUS
<1>2. Lists(p, Older) /\ (Len(p) # Cardinality(Older) => Len(p) \in Nat \ {0})
  BY <1>1, PageLists
<1> DEFINE U == {m \in Range(p) : ~IsKnown(m)}
<1>3. p \in Seq(Mails) /\ \A i \in 1..Len(p) : p[i] \in Older
  BY <1>2 DEF Lists
<1>4. \A m \in Range(p) : m \in Older /\ m \in Mails /\ \E i \in 1..Len(p) : p[i] = m
  BY <1>3 DEF Range
<1>5. U \in SUBSET Mails
  BY <1>4
<1>6. Lists(NewestFirst(U), U)
  BY <1>5, NewestFirstLists
<1>7. todo' = Allowed(NewestFirst(U))
  BY <1>1 DEF ListPage
<1>8. Lists(todo', U)
  BY <1>6, <1>7, AllowedLists
<1>9. Lists(todo', {m \in Older : ~IsKnown(m)})
  BY <1>4, <1>8 DEF Lists
<1>10. older' = IF HasKnown(p) \/ Len(p) = Cardinality(Older) THEN 0 ELSE p[Len(p)]
  BY <1>1 DEF ListPage
<1>11. CASE older' = 0
  <2>1. \A i \in 1..Len(todo') : todo'[i] \in Mails
    BY <1>5, <1>8 DEF Lists
  <2>2. \A i \in 1..Len(todo') : 0 <= todo'[i]
    BY <2>1, MailNumber
  <2> QED BY <1>9, <1>11, <2>2, Numbers
<1>12. CASE older' # 0
  <2>1. Len(p) \in Nat \ {0} /\ older' = p[Len(p)]
    BY <1>2, <1>10, <1>12
  <2>2. older' \in Older /\ older' \in Mails
    BY <1>3, <2>1
  <2>3. older' \in 0..Newest
    BY <2>2, MailNumber, Numbers
  <2>4. ASSUME NEW i \in 1..Len(todo') PROVE older' <= todo'[i]
    <3>1. todo'[i] \in U
      BY <1>8 DEF Lists
    <3>2. PICK k \in 1..Len(p) : p[k] = todo'[i]
      BY <1>4, <3>1
    <3>3. p[k] \in Nat /\ older' \in Nat
      BY <1>3, <2>2, MailNumber
    <3>4. CASE k = Len(p)
      BY <2>1, <3>2, <3>3, <3>4
    <3>5. CASE k < Len(p)
      <4>1. p[Len(p)] < p[k]
        BY <1>2, <2>1, <3>5 DEF Lists
      <4> QED BY <2>1, <3>2, <3>3, <4>1
    <3> QED BY <2>1, <3>4, <3>5
  <2> QED BY <1>9, <2>2, <2>3, <2>4
<1> QED BY <1>11, <1>12

-----------------------------------------------------------------------------
(* Messages *)

\* The first mail that is listed becomes the last message.
LEMMA Downloaded ==
  ASSUME TypeOK, todo # <<>>
  PROVE  /\ Head(todo) \in Mails /\ Head(todo) = todo[1]
         /\ Len(todo) \in Nat \ {0}
         /\ Tail(todo) \in Seq(Mails)
         /\ Len(Tail(todo)) = Len(todo) - 1
         /\ \A i \in 1..Len(Tail(todo)) : Tail(todo)[i] = todo[i + 1]
         /\ Append(got, Head(todo)) \in Seq(Mails)
         /\ Len(got) \in Nat
         /\ Len(Append(got, Head(todo))) = Len(got) + 1
         /\ \A i \in 1..Len(got) : Append(got, Head(todo))[i] = got[i]
         /\ Append(got, Head(todo))[Len(got) + 1] = Head(todo)
<1>1. todo \in Seq(Mails) /\ got \in Seq(Mails)
  BY DEF TypeOK
<1>2. /\ Head(todo) \in Mails
      /\ Tail(todo) \in Seq(Mails)
      /\ Len(Tail(todo)) = Len(todo) - 1
      /\ \A i \in 1..Len(Tail(todo)) : Tail(todo)[i] = todo[i + 1]
  BY <1>1, HeadTailProperties
<1>3. Head(todo) = todo[1] /\ Len(todo) \in Nat \ {0}
  BY <1>1
<1>4. /\ Append(got, Head(todo)) \in Seq(Mails)
      /\ Len(Append(got, Head(todo))) = Len(got) + 1
      /\ \A i \in 1..Len(got) : Append(got, Head(todo))[i] = got[i]
      /\ Append(got, Head(todo))[Len(got) + 1] = Head(todo)
  BY <1>1, <1>2, AppendProperties
<1> QED BY <1>1, <1>2, <1>3, <1>4

\* What an action does to the server.
LEMMA PostActionType ==
  ASSUME TypeOK, Sessions, NEW m \in Mails, PostAction(m), IsPop => m \in server
  PROVE  /\ server' \subseteq Mails /\ marked' \subseteq server' /\ deleted' \subseteq Mails
         /\ IsPop => server' = server
         /\ ~IsPop => marked' = {}
<1>1. CASE ~Acts(m) /\ NotApplied /\ UNCHANGED marked
  BY <1>1 DEF NotApplied, TypeOK, Sessions
<1>2. CASE /\ Acts(m) /\ IsPop /\ NotApplied
           /\ marked' = IF setup.post = "delete" THEN marked \cup {m} ELSE marked
  BY <1>2 DEF NotApplied, TypeOK
<1>3. CASE Acts(m) /\ ~IsPop /\ m \in server /\ Applied(setup.post, m) /\ UNCHANGED marked
  BY <1>3 DEF Applied, TypeOK, Sessions
<1>4. CASE Acts(m) /\ setup.protocol = "imap" /\ NotApplied /\ UNCHANGED marked
  BY <1>4 DEF NotApplied, TypeOK, Sessions, IsPop
<1> QED BY <1>1, <1>2, <1>3, <1>4 DEF PostAction

-----------------------------------------------------------------------------
(* Types *)

LEMMA Starts ==
  /\ 1 \in Folders /\ 0 \in 0..Newest /\ Newest \in 0..Newest
  /\ <<>> \in Seq(Mails) /\ 0 \in 0..Len(<<>>) /\ 0 \in 0..MaxFaults
<1>1. NFolders \in Nat \ {0} /\ Folders = 1..NFolders /\ Newest \in Nat /\ MaxFaults \in Nat
  BY Numbers
<1> QED BY <1>1

LEMMA InitType == Init => TypeOK
<1> SUFFICES ASSUME Init PROVE TypeOK
  OBVIOUS
<1>1. setup \in Setups /\ server \subseteq Mails /\ rows \subseteq Rows
  BY DEF Init
<1>2. folder \in [Mails -> 0..NFolders] /\ place \in Folders /\ older \in 0..Newest
  BY Numbers DEF Init
<1>3. todo \in Seq(Mails) /\ got \in Seq(Mails) /\ done \in 0..Len(got)
  BY DEF Init
<1>4. attempt \in {1, 2} /\ faults \in 0..MaxFaults /\ lost \in [Mails -> 0..MaxFaults]
  BY Numbers DEF Init
<1>5. notified \in [Mails -> 0..NoteCap]
  BY Numbers DEF Init, NoteCap
<1> QED BY <1>1, <1>2, <1>3, <1>4, <1>5 DEF Init, TypeOK

\* A fault counts one step further, and so may everything that is thrown away.
LEMMA FaultType ==
  ASSUME TypeOK, CountedOnce
  PROVE  /\ Fault => faults' \in 0..MaxFaults /\ faults' = faults + 1
         /\ Fault /\ Throw => lost' \in [Mails -> 0..MaxFaults]
<1>1. faults \in Nat /\ MaxFaults \in Nat
  BY Numbers DEF TypeOK
<1>2. Fault => faults' \in 0..MaxFaults /\ faults' = faults + 1
  BY <1>1 DEF Fault
<1>3. ASSUME Fault, Throw, NEW m \in Mails
      PROVE  (IF m \in Range(got) THEN lost[m] + 1 ELSE lost[m]) \in 0..MaxFaults
  <2>1. lost[m] \in 0..MaxFaults /\ lost[m] <= faults
    BY DEF TypeOK, CountedOnce
  <2>2. faults < MaxFaults
    BY <1>3 DEF Fault
  <2> QED BY <1>1, <2>1, <2>2
<1> QED BY <1>2, <1>3 DEF Throw

LEMMA NextType ==
  ASSUME TypeOK, Phases, Sessions, Ordered, CountedOnce, [Next]_vars
  PROVE  TypeOK'
<1> USE DEF listing, history
<1>1. CASE Arrive
  <2>1. PICK m \in Mails : \E f \in 1..setup.folders : server' = server \cup {m}
    BY <1>1 DEF Arrive
  <2>2. folder' \in [Mails -> 0..NFolders]
    BY FoldersKept
  <2> QED BY <1>1, <2>1, <2>2 DEF Arrive, TypeOK
<1>2. CASE OtherDeletes
  <2>1. marked = {}
    BY <1>2 DEF OtherDeletes, Sessions
  <2> QED BY <1>2, <2>1 DEF OtherDeletes, TypeOK
<1>3. CASE Begin
  BY <1>3, Starts DEF Begin, TypeOK
<1>4. CASE ListUnknown
  <2>1. Lists(todo', {m \in InFolder : ~IsKnown(m)})
    BY <1>4, UnknownLists DEF ListUnknown, Phases
  <2> QED BY <1>4, <2>1, Starts DEF ListUnknown, Lists, TypeOK
<1>5. CASE ListPage
  <2>1. todo' \in Seq(Mails) /\ older' \in 0..Newest
    BY <1>5, PageBrings DEF ListPage, Phases, Lists
  <2> QED BY <1>5, <2>1 DEF ListPage, TypeOK
<1>6. CASE SkipFolder
  BY <1>6, FaultType, Starts DEF SkipFolder, TypeOK
<1>7. CASE Download
  <2>1. todo # <<>> /\ (IsPop => Head(todo) \in server)
    BY <1>7 DEF Download, IsPop
  <2>2. got' \in Seq(Mails) /\ todo' \in Seq(Mails) /\ Len(got') = Len(got) + 1 /\ Len(got) \in Nat
    BY <1>7, <2>1, Downloaded DEF Download
  <2>3. server' \subseteq Mails /\ marked' \subseteq server' /\ deleted' \subseteq Mails
    BY <1>7, <2>1, Downloaded, PostActionType DEF Download
  <2>4. done' \in 0..Len(got')
    BY <1>7, <2>2 DEF Download, TypeOK
  <2> QED BY <1>7, <2>2, <2>3, <2>4 DEF Download, TypeOK
<1>8. CASE SkipMail
  <2>1. todo' \in Seq(Mails)
    BY <1>8, Downloaded DEF SkipMail
  <2>2. faults' \in 0..MaxFaults
    BY <1>8, FaultType DEF SkipMail, TypeOK
  <2> QED BY <1>8, <2>1, <2>2 DEF SkipMail, TypeOK
<1>9. CASE NextListing
  <2>1. place' \in Folders /\ older' \in 0..Newest
    <3>1. CASE place' = place + 1 /\ older' = Newest /\ place < setup.folders
      <4>1. setup.folders \in Folders /\ place \in Folders
        BY SetupType DEF TypeOK
      <4> QED BY <3>1, <4>1, Numbers
    <3>2. CASE UNCHANGED listing
      BY <3>2 DEF TypeOK
    <3>3. CASE Return
      BY <3>3, Starts DEF Return
    <3> QED BY <1>9, <3>1, <3>2, <3>3 DEF NextListing
  <2>2. todo' \in Seq(Mails) /\ attempt' \in {1, 2}
    BY <1>9 DEF NextListing, Return, TypeOK
  <2>3. pc' \in {"listing", "closing", "rules"}
    BY <1>9 DEF NextListing
  <2> QED BY <1>9, <2>1, <2>2, <2>3 DEF NextListing, TypeOK
<1>10. CASE GraphRefuses
  <2>1. got' \in Seq(Mails) /\ Len(got') = Len(got) + 1 /\ Len(got) \in Nat
    BY <1>10, Downloaded DEF GraphRefuses
  <2>2. done' \in 0..Len(got')
    BY <1>10, <2>1 DEF GraphRefuses, TypeOK
  <2>3. faults' \in 0..MaxFaults
    BY <1>10, FaultType DEF GraphRefuses, TypeOK
  <2> QED BY <1>10, <2>1, <2>2, <2>3, Starts DEF GraphRefuses, Return, TypeOK
<1>11. CASE RunRules
  <2>1. done' \in 0..Len(got) /\ got[done + 1] \in Mails
    <3>1. done \in 0..Len(got) /\ Len(got) \in Nat /\ got \in Seq(Mails)
      BY DEF TypeOK
    <3>2. done < Len(got) /\ done' = done + 1
      BY <1>11 DEF RunRules
    <3>3. done + 1 \in 1..Len(got)
      BY <3>1, <3>2
    <3> QED BY <3>1, <3>2, <3>3
  <2>2. server' \subseteq Mails /\ marked \subseteq server' /\ deleted' \subseteq Mails
    <3>1. CASE NotApplied
      BY <3>1 DEF NotApplied, TypeOK
    <3>2. CASE ~IsPop /\ Applied(setup.rule, got[done + 1])
      BY <2>1, <3>2 DEF Applied, TypeOK, Sessions
    <3> QED BY <1>11, <3>1, <3>2 DEF RunRules
  <2>3. tried' \subseteq Ruled
    BY <1>11 DEF RunRules, TypeOK
  <2>4. notified' \in [Mails -> 0..NoteCap]
    <3>1. NoteCap \in Nat
      BY Numbers DEF NoteCap
    <3>2. CASE UNCHANGED notified
      BY <3>2 DEF TypeOK
    <3>3. PICK m : m = got[done + 1]
      OBVIOUS
    <3>4. CASE notified' = [notified EXCEPT ![m] = IF @ < NoteCap THEN @ + 1 ELSE @]
      <4>1. notified[m] \in 0..NoteCap
        BY <2>1, <3>3 DEF TypeOK
      <4>2. (IF notified[m] < NoteCap THEN notified[m] + 1 ELSE notified[m]) \in 0..NoteCap
        BY <3>1, <4>1
      <4> QED BY <3>4, <4>2 DEF TypeOK
    <3> QED BY <1>11, <3>2, <3>3, <3>4 DEF RunRules
  <2> QED BY <1>11, <2>1, <2>2, <2>3, <2>4 DEF RunRules, TypeOK
<1>12. CASE Store
  <2>1. rows' \subseteq Rows
    BY <1>12, UpsertedType DEF Store
  <2> QED BY <1>12, <2>1, Starts DEF Store, TypeOK
<1>13. CASE Close
  <2>1. server' \subseteq Mails /\ deleted' \subseteq Mails
    BY <1>13 DEF Close, NotApplied, TypeOK
  <2> QED BY <1>13, <2>1 DEF Close, TypeOK
<1>14. CASE Retry
  <2>1. done = 0
    BY <1>14 DEF Retry, Phases
  <2> QED BY <1>14, <2>1, FaultType, Starts DEF Retry, TypeOK
<1>15. CASE Break
  <2>1. done = 0
    BY <1>15 DEF Break, Phases
  <2>2. got' \in Seq(Mails) /\ done' \in 0..Len(got')
    <3>1. got' = got \/ got' = <<>>
      BY <1>15 DEF Break, Partial
    <3> QED BY <1>15, <2>1, <3>1, Starts DEF Break, TypeOK
  <2>3. faults' \in 0..MaxFaults /\ lost' \in [Mails -> 0..MaxFaults]
    BY <1>15, FaultType DEF Break, TypeOK
  <2>4. pc' \in {"closing", "rules"}
    BY <1>15 DEF Break
  <2> QED BY <1>15, <2>2, <2>3, <2>4, Starts DEF Break, Return, TypeOK
<1>16. CASE Raise
  <2>1. faults' \in 0..MaxFaults /\ lost' \in [Mails -> 0..MaxFaults]
    BY <1>16, FaultType DEF Raise
  <2> QED BY <1>16, <2>1, Starts DEF Raise, TypeOK
<1>17. CASE Crash
  <2>1. faults' \in 0..MaxFaults /\ lost' \in [Mails -> 0..MaxFaults]
    BY <1>17, FaultType DEF Crash
  <2> QED BY <1>17, <2>1, Starts DEF Crash, Return, TypeOK
<1>18. CASE UNCHANGED vars
  BY <1>18 DEF vars, TypeOK
<1> QED
  BY <1>1, <1>2, <1>3, <1>4, <1>5, <1>6, <1>7, <1>8, <1>9, <1>10, <1>11, <1>12, <1>13,
     <1>14, <1>15, <1>16, <1>17, <1>18 DEF Next, Fetch, World, Fail

-----------------------------------------------------------------------------
(* Places and sessions *)

LEMMA NextPhases ==
  ASSUME TypeOK, Phases, [Next]_vars
  PROVE  Phases'
<1> USE DEF listing, history
<1>1. CASE Arrive \/ OtherDeletes
  BY <1>1 DEF Arrive, OtherDeletes, Phases, Room, Limited, Left
<1>2. CASE Begin
  <2>1. setup.limit \in Nat
    BY SetupType DEF TypeOK
  <2>2. got = <<>> /\ Len(got) = 0
    BY <1>2 DEF Begin, Phases
  <2>3. Room'
    BY <1>2, <2>1, <2>2 DEF Begin, Room, Limited, Left
  <2>4. Newest > 0
    BY Numbers
  <2>5. UNCHANGED <<todo, got, done, setup>> /\ pc = "idle" /\ pc' = "listing" /\ older' = Newest
    BY <1>2 DEF Begin
  <2>6. done' = 0 /\ todo' = <<>>
    BY <2>5 DEF Phases
  <2> QED BY <2>3, <2>4, <2>5, <2>6 DEF Phases, Newest
<1>3. CASE ListUnknown \/ ListPage \/ SkipFolder
  BY <1>3 DEF ListUnknown, ListPage, SkipFolder, Phases
<1>4. CASE Download \/ SkipMail
  BY <1>4 DEF Download, SkipMail, Phases
<1>5. CASE NextListing
  <2>1. pc = "downloading" /\ done = 0 /\ todo = <<>> /\ UNCHANGED <<setup, got, done>>
    BY <1>5 DEF NextListing, Phases
  <2>2. CASE Room /\ older > 0 /\ pc' = "listing" /\ UNCHANGED <<listing, attempt>>
    <3>1. Room'
      BY <2>1, <2>2 DEF Room, Limited, Left
    <3>2. setup.protocol = "graph"
      BY <2>1, <2>2, Numbers DEF Phases
    <3> QED BY <2>1, <2>2, <3>1, <3>2 DEF Phases
  <2>3. CASE Room /\ pc' = "listing" /\ older' = Newest /\ UNCHANGED <<todo, attempt>>
    <3>1. Room'
      BY <2>1, <2>3 DEF Room, Limited, Left
    <3>2. Newest > 0
      BY Numbers
    <3> QED BY <2>1, <2>3, <3>1, <3>2 DEF Phases, Newest
  <2>4. CASE pc' = (IF got = <<>> THEN "closing" ELSE "rules") /\ Return
    BY <2>1, <2>4 DEF Phases, Return
  <2> QED BY <1>5, <2>2, <2>3, <2>4 DEF NextListing
<1>6. CASE GraphRefuses
  BY <1>6 DEF GraphRefuses, Return, Phases
<1>7. CASE RunRules
  BY <1>7 DEF RunRules, Phases
<1>8. CASE Store \/ Raise
  BY <1>8 DEF Store, Raise, Phases
<1>9. CASE Close
  BY <1>9 DEF Close, Phases
<1>10. CASE Retry
  <2>1. setup.limit \in Nat
    BY SetupType DEF TypeOK
  <2>2. Room'
    BY <1>10, <2>1 DEF Retry, Room, Limited, Left
  <2>3. Newest > 0
    BY Numbers
  <2>4. UNCHANGED <<done, setup>> /\ pc # "rules" /\ pc' = "listing" /\ older' = Newest /\ todo' = <<>>
    BY <1>10 DEF Retry
  <2> QED BY <2>2, <2>3, <2>4 DEF Phases, Newest
<1>11. CASE Break
  BY <1>11 DEF Break, Return, Phases
<1>12. CASE Crash
  BY <1>12 DEF Crash, Return, Phases
<1>13. CASE UNCHANGED vars
  BY <1>13 DEF vars, Phases, Room, Limited, Left
<1> QED
  BY <1>1, <1>2, <1>3, <1>4, <1>5, <1>6, <1>7, <1>8, <1>9, <1>10, <1>11, <1>12, <1>13
     DEF Next, Fetch, World, Fail

LEMMA NextSessions ==
  ASSUME TypeOK, Phases, Sessions, [Next]_vars
  PROVE  Sessions'
<1> USE DEF listing, history
<1>0. setup' = setup /\ IsPop' = IsPop
  BY FoldersKept DEF IsPop
<1>1. CASE Arrive
  BY <1>0, <1>1 DEF Arrive, Sessions
<1>2. CASE OtherDeletes
  <2>1. IsPop => got = <<>>
    BY <1>2 DEF OtherDeletes, Phases
  <2> QED BY <1>0, <1>2, <2>1 DEF OtherDeletes, Sessions
<1>3. CASE Begin \/ ListUnknown \/ ListPage \/ SkipFolder \/ SkipMail \/ NextListing
  BY <1>0, <1>3 DEF Begin, ListUnknown, ListPage, SkipFolder, SkipMail, NextListing,
     Sessions
<1>4. CASE Download
  <2>1. todo # <<>> /\ (IsPop => Head(todo) \in server)
    BY <1>4 DEF Download, IsPop
  <2>2. (IsPop => server' = server) /\ (~IsPop => marked' = {})
    BY <1>4, <2>1, Downloaded, PostActionType DEF Download
  <2>3. PICK n : n = Len(got) /\ n \in Nat
    BY <2>1, Downloaded
  <2>4. /\ got' \in Seq(Mails) /\ Len(got') = n + 1
        /\ \A i \in 1..n : got'[i] = got[i]
        /\ got'[n + 1] = Head(todo)
    BY <1>4, <2>1, <2>3, Downloaded DEF Download
  <2>5. DOMAIN got' = 1..(n + 1) /\ DOMAIN got = 1..n
    BY <2>3, <2>4 DEF TypeOK
  <2>6. ASSUME IsPop, NEW i \in DOMAIN got' PROVE got'[i] \in server'
    <3>1. CASE i = n + 1
      BY <2>1, <2>2, <2>4, <2>6, <3>1
    <3>2. CASE i # n + 1
      <4>1. i \in 1..n
        BY <2>3, <2>5, <3>2
      <4> QED BY <2>2, <2>4, <2>5, <2>6, <4>1 DEF Sessions
    <3> QED BY <3>1, <3>2
  <2>7. pc' # "idle"
    BY <1>4 DEF Download
  <2> QED BY <1>0, <2>2, <2>6, <2>7 DEF Sessions
<1>5. CASE GraphRefuses
  <2>1. ~IsPop
    BY <1>5 DEF GraphRefuses, IsPop
  <2> QED BY <1>0, <1>5, <2>1 DEF GraphRefuses, Return, Sessions
<1>6. CASE RunRules
  <2>1. IsPop => server' = server
    BY <1>6 DEF RunRules, NotApplied
  <2> QED BY <1>0, <1>6, <2>1 DEF RunRules, Sessions
<1>7. CASE Store \/ Raise \/ Retry \/ Crash
  BY <1>0, <1>7 DEF Store, Raise, Retry, Crash, Sessions
<1>8. CASE Close
  <2>1. got' = <<>> /\ marked' = {}
    BY <1>8 DEF Close, Phases
  <2> QED BY <2>1 DEF Sessions
<1>9. CASE Break
  <2>1. got' = got \/ got' = <<>>
    BY <1>9 DEF Break, Partial
  <2> QED BY <1>0, <1>9, <2>1 DEF Break, Sessions
<1>10. CASE UNCHANGED vars
  BY <1>0, <1>10 DEF vars, Sessions
<1> QED
  BY <1>1, <1>2, <1>3, <1>4, <1>5, <1>6, <1>7, <1>8, <1>9, <1>10
     DEF Next, Fetch, World, Fail

-----------------------------------------------------------------------------
(* The order of the mails *)

Walking == {"listing", "downloading"}

LEMMA Domains ==
  ASSUME TypeOK
  PROVE  /\ DOMAIN got = 1..Len(got) /\ DOMAIN todo = 1..Len(todo)
         /\ Len(got) \in Nat /\ Len(todo) \in Nat
         /\ \A i \in DOMAIN got : got[i] \in Mails
         /\ \A i \in DOMAIN todo : todo[i] \in Mails
BY DEF TypeOK

\* The numbers that the order compares.
LEMMA OrderTypes ==
  ASSUME TypeOK
  PROVE  /\ place \in Nat \ {0} /\ older \in Nat /\ Newest \in Nat
         /\ \A m \in Mails : m \in Nat /\ m < Newest /\ folder[m] \in Nat
<1>1. place \in Nat \ {0} /\ older \in Nat /\ Newest \in Nat
  BY Numbers DEF TypeOK
<1>2. \A m \in Mails : m \in Nat /\ m < Newest
  BY MailNumber
<1>3. \A m \in Mails : folder[m] \in Nat
  BY FolderType
<1> QED BY <1>1, <1>2, <1>3

\* A step of the world, or one that leaves the mails of the fetch alone.
LEMMA SameOrder ==
  ASSUME TypeOK, Ordered, Steady(folder, folder'), UNCHANGED <<todo, got, place, older>>,
         pc' \in Walking => pc \in Walking
  PROVE  Ordered'
<1>1. \A i \in DOMAIN todo : folder'[todo[i]] = folder[todo[i]]
  BY Domains, OrderTypes DEF Ordered, Steady
<1>2. \A i \in DOMAIN got : folder'[got[i]] = folder[got[i]]
  BY Domains DEF Ordered, Steady
<1> QED BY <1>1, <1>2 DEF Ordered, Walking

LEMMA EmptyOrder ==
  ASSUME todo' = <<>>, got' = <<>>
  PROVE  Ordered'
BY DEF Ordered

\* The end of fetch_messages.
LEMMA RestOrder ==
  ASSUME Ordered, todo' = <<>>, got' = got, folder' = folder, pc' \notin Walking
  PROVE  Ordered'
BY DEF Ordered, Walking

\* A listing brings mails of the folder that are older than those before.
LEMMA ListedOrder ==
  ASSUME TypeOK, Ordered, pc = "listing", todo = <<>>,
         UNCHANGED <<folder, got, place>>,
         Lists(todo', {m \in InFolder : m < older}),
         \A i \in 1..Len(todo') : older' <= todo'[i],
         older' \in Nat, older' # 0 => older' <= older
  PROVE  Ordered'
<1>1. DOMAIN todo' = 1..Len(todo') /\ Len(todo') \in Nat
  BY DEF Lists
<1>2. \A i \in DOMAIN todo' : todo'[i] \in InFolder /\ todo'[i] < older /\ todo'[i] \in Mails
  BY <1>1 DEF Lists
<1>3. \A i, j \in DOMAIN todo' : i < j => todo'[j] < todo'[i]
  BY <1>1 DEF Lists
<1>4. \A i \in DOMAIN todo' : folder[todo'[i]] = place
  BY <1>2 DEF InFolder
<1>5. ASSUME NEW i \in DOMAIN got, ~(folder[got[i]] < place)
      PROVE  /\ folder[got[i]] = place /\ older' <= got[i]
             /\ \A j \in DOMAIN todo' : todo'[j] < got[i]
  <2>1. folder[got[i]] = place /\ older <= got[i]
    BY <1>5 DEF Ordered
  <2>2. got[i] \in Nat /\ older \in Nat
    BY Domains, OrderTypes
  <2>3. ASSUME NEW j \in DOMAIN todo' PROVE todo'[j] < got[i]
    <3>1. todo'[j] \in Nat /\ todo'[j] < older
      BY <1>2, OrderTypes
    <3> QED BY <2>1, <2>2, <3>1
  <2>4. older' <= got[i]
    BY <2>1, <2>2
  <2> QED BY <2>1, <2>3, <2>4
<1> QED BY <1>1, <1>3, <1>4, <1>5 DEF Ordered

\* The first mail of the list goes, to the messages or nowhere.
LEMMA ShorterOrder ==
  ASSUME TypeOK, Ordered, todo # <<>>, todo' = Tail(todo), got' = got,
         UNCHANGED <<folder, place, older, pc>>
  PROVE  Ordered'
<1>1. PICK n : n = Len(todo) /\ n \in Nat \ {0} /\ DOMAIN todo = 1..n
  <2>1. Len(todo) \in Nat \ {0} /\ DOMAIN todo = 1..Len(todo)
    BY Downloaded, Domains
  <2> QED BY <2>1
<1>2. DOMAIN todo' = 1..(n - 1) /\ \A i \in 1..(n - 1) : todo'[i] = todo[i + 1]
  BY <1>1, Downloaded
<1>3. \A i \in 1..(n - 1) : i + 1 \in 1..n
  BY <1>1
<1>4. \A i, j \in DOMAIN todo' : i < j => todo'[j] < todo'[i]
  <2>1. \A i, j \in 1..(n - 1) : i < j => i + 1 < j + 1
    BY <1>1
  <2> QED BY <1>1, <1>2, <1>3, <2>1 DEF Ordered
<1>5. \A i \in DOMAIN todo' : folder[todo'[i]] = place /\ older <= todo'[i]
  BY <1>1, <1>2, <1>3 DEF Ordered
<1>6. ASSUME pc \in Walking, NEW i \in DOMAIN got
      PROVE  \/ folder[got[i]] < place
             \/ /\ folder[got[i]] = place /\ older <= got[i]
                /\ \A j \in DOMAIN todo' : todo'[j] < got[i]
  BY <1>1, <1>2, <1>3, <1>6 DEF Ordered, Walking
<1> QED BY <1>4, <1>5, <1>6 DEF Ordered, Walking

LEMMA LongerOrder ==
  ASSUME TypeOK, Ordered, pc \in Walking, todo # <<>>, got' = Append(got, Head(todo)),
         folder' = folder,
         \/ todo' = Tail(todo) /\ UNCHANGED <<place, older, pc>>
         \/ todo' = <<>> /\ pc' \notin Walking
  PROVE  Ordered'
<1>1. PICK n : n = Len(todo) /\ n \in Nat \ {0} /\ DOMAIN todo = 1..n
  <2>1. Len(todo) \in Nat \ {0} /\ DOMAIN todo = 1..Len(todo)
    BY Downloaded, Domains
  <2> QED BY <2>1
<1>2. PICK k : k = Len(got) /\ k \in Nat /\ DOMAIN got = 1..k
  <2>1. Len(got) \in Nat /\ DOMAIN got = 1..Len(got)
    BY Domains
  <2> QED BY <2>1
<1>3. PICK h : h = Head(todo) /\ h = todo[1] /\ h \in Mails
  BY Downloaded
<1>4. 1 \in 1..n
  BY <1>1
<1>5. folder[h] = place /\ older <= h /\ folder[h] # 0
  BY <1>1, <1>3, <1>4, OrderTypes DEF Ordered
<1>6. DOMAIN got' = 1..(k + 1) /\ got'[k + 1] = h /\ \A i \in 1..k : got'[i] = got[i]
  <2>1. /\ got' \in Seq(Mails) /\ Len(got') = k + 1
        /\ got'[k + 1] = h /\ \A i \in 1..k : got'[i] = got[i]
    BY <1>2, <1>3, Downloaded
  <2> QED BY <1>2, <2>1
<1>7. ASSUME NEW i \in 1..k PROVE got[i] # h /\ got[i] \in Mails
  <2>1. folder[got[i]] < place \/ (folder[got[i]] = place /\ h < got[i])
    BY <1>1, <1>2, <1>3, <1>4 DEF Ordered, Walking
  <2>2. got[i] \in Mails
    BY <1>2, Domains
  <2>3. got[i] \in Nat /\ h \in Nat /\ place \in Nat /\ folder[got[i]] \in Nat
    BY <1>3, <2>2, OrderTypes
  <2> QED BY <1>5, <2>1, <2>2, <2>3
<1>8. \A i, j \in DOMAIN got' : i # j => got'[i] # got'[j]
  <2>1. \A i \in 1..(k + 1) : i # k + 1 => i \in 1..k
    BY <1>2
  <2>2. \A i, j \in 1..k : i # j => got[i] # got[j]
    BY <1>2 DEF Ordered
  <2>3. ASSUME NEW i \in 1..(k + 1), NEW j \in 1..(k + 1), i # j PROVE got'[i] # got'[j]
    <3>1. CASE i = k + 1
      <4>1. got'[i] = h /\ j \in 1..k /\ got'[j] = got[j]
        BY <1>6, <2>1, <2>3, <3>1
      <4> QED BY <1>7, <4>1
    <3>2. CASE j = k + 1
      <4>1. got'[j] = h /\ i \in 1..k /\ got'[i] = got[i]
        BY <1>6, <2>1, <2>3, <3>2
      <4> QED BY <1>7, <4>1
    <3>3. CASE i # k + 1 /\ j # k + 1
      <4>1. i \in 1..k /\ j \in 1..k /\ got'[i] = got[i] /\ got'[j] = got[j]
        BY <1>6, <2>1, <3>3
      <4> QED BY <2>2, <2>3, <4>1
    <3> QED BY <3>1, <3>2, <3>3
  <2> QED BY <1>6, <2>3
<1>9. \A i \in DOMAIN got' : folder[got'[i]] # 0
  <2>1. \A i \in 1..(k + 1) : i # k + 1 => i \in 1..k
    BY <1>2
  <2>2. \A i \in 1..k : folder[got[i]] # 0
    BY <1>2 DEF Ordered
  <2> QED BY <1>5, <1>6, <2>1, <2>2
<1>10. CASE todo' = <<>> /\ pc' \notin Walking
  BY <1>8, <1>9, <1>10 DEF Ordered, Walking
<1>11. CASE todo' = Tail(todo) /\ UNCHANGED <<place, older, pc>>
  <2>1. DOMAIN todo' = 1..(n - 1) /\ \A i \in 1..(n - 1) : todo'[i] = todo[i + 1] /\ i + 1 \in 1..n
    <3>1. DOMAIN todo' = 1..(n - 1) /\ \A i \in 1..(n - 1) : todo'[i] = todo[i + 1]
      BY <1>1, <1>11, Downloaded
    <3>2. \A i \in 1..(n - 1) : i + 1 \in 1..n
      BY <1>1
    <3> QED BY <3>1, <3>2
  <2>2. \A i, j \in DOMAIN todo' : i < j => todo'[j] < todo'[i]
    <3>1. \A i, j \in 1..(n - 1) : i < j => i + 1 < j + 1
      BY <1>1
    <3> QED BY <1>1, <2>1, <3>1 DEF Ordered
  <2>3. \A i \in DOMAIN todo' : folder[todo'[i]] = place /\ older <= todo'[i]
    BY <1>1, <2>1 DEF Ordered
  <2>4. \A j \in DOMAIN todo' : todo'[j] < h
    <3>1. \A j \in 1..(n - 1) : 1 < j + 1
      BY <1>1
    <3> QED BY <1>1, <1>3, <1>4, <2>1, <3>1 DEF Ordered
  <2>5. ASSUME NEW i \in 1..k
        PROVE  \/ folder[got[i]] < place
               \/ /\ folder[got[i]] = place /\ older <= got[i]
                  /\ \A j \in DOMAIN todo' : todo'[j] < got[i]
    BY <1>1, <1>2, <2>1 DEF Ordered, Walking
  <2>6. \A i \in 1..(k + 1) : i # k + 1 => i \in 1..k
    BY <1>2
  <2>7. ASSUME NEW i \in DOMAIN got'
        PROVE  \/ folder[got'[i]] < place
               \/ /\ folder[got'[i]] = place /\ older <= got'[i]
                  /\ \A j \in DOMAIN todo' : todo'[j] < got'[i]
    <3>1. CASE i = k + 1
      BY <1>5, <1>6, <2>4, <3>1
    <3>2. CASE i # k + 1
      <4>1. i \in 1..k /\ got'[i] = got[i]
        BY <1>6, <2>6, <3>2
      <4> QED BY <2>5, <4>1
    <3> QED BY <3>1, <3>2
  <2> QED BY <1>8, <1>9, <1>11, <2>2, <2>3, <2>7 DEF Ordered
<1> QED BY <1>10, <1>11
LEMMA NextOrder ==
  ASSUME TypeOK, Phases, Ordered, [Next]_vars
  PROVE  Ordered'
<1> USE DEF listing, history
<1>1. Steady(folder, folder')
  BY FoldersKept
<1>2. CASE Arrive \/ OtherDeletes
  <2>1. UNCHANGED <<todo, got, place, older, pc>>
    BY <1>2 DEF Arrive, OtherDeletes
  <2> QED BY <1>1, <2>1, SameOrder
<1>3. CASE Begin
  <2>1. todo' = <<>> /\ got' = <<>>
    BY <1>3 DEF Begin, Phases
  <2> QED BY <2>1, EmptyOrder
<1>4. CASE ListUnknown
  <2>1. Lists(todo', {m \in InFolder : ~IsKnown(m)})
    BY <1>4, UnknownLists DEF ListUnknown, Phases
  <2>2. older = Newest
    BY <1>4 DEF ListUnknown, Phases
  <2>3. \A m \in InFolder : m < older /\ 0 <= m
    BY <2>2, OrderTypes DEF InFolder, TypeOK
  <2>4. Lists(todo', {m \in InFolder : m < older})
    BY <2>1, <2>3 DEF Lists
  <2>5. \A i \in 1..Len(todo') : 0 <= todo'[i]
    BY <2>1, <2>3 DEF Lists
  <2>6. UNCHANGED <<folder, got, place>> /\ older' = 0 /\ pc = "listing" /\ todo = <<>>
    BY <1>4 DEF ListUnknown, Phases
  <2> QED BY <2>4, <2>5, <2>6, ListedOrder
<1>5. CASE ListPage
  <2>1. Lists(todo', {m \in Older : ~IsKnown(m)}) /\ older' \in 0..Newest
        /\ (\A i \in 1..Len(todo') : older' <= todo'[i]) /\ (older' # 0 => older' \in Older)
    BY <1>5, PageBrings DEF ListPage, Phases
  <2>2. Lists(todo', {m \in InFolder : m < older})
    BY <2>1 DEF Lists, Older
  <2>3. older' \in Nat /\ older \in Nat
    BY <2>1, OrderTypes
  <2>4. older' # 0 => older' <= older
    BY <2>1, <2>3 DEF Older
  <2>5. UNCHANGED <<folder, got, place>> /\ pc = "listing" /\ todo = <<>>
    BY <1>5 DEF ListPage, Phases
  <2> QED BY <2>1, <2>2, <2>3, <2>4, <2>5, ListedOrder
<1>6. CASE SkipFolder
  <2>1. UNCHANGED <<folder, got, place>> /\ todo' = <<>> /\ older' = 0 /\ pc \in Walking
    BY <1>6 DEF SkipFolder, Walking
  <2>2. \A i \in DOMAIN got : 0 <= got[i]
    BY Domains, OrderTypes
  <2> QED BY <2>1, <2>2 DEF Ordered, Walking
<1>7. CASE Download
  <2>1. todo # <<>> /\ todo' = Tail(todo) /\ got' = Append(got, Head(todo))
        /\ UNCHANGED <<folder, place, older, pc>> /\ pc \in Walking
    BY <1>7 DEF Download, Walking
  <2> QED BY <2>1, LongerOrder
<1>8. CASE SkipMail
  <2>1. todo # <<>> /\ todo' = Tail(todo) /\ got' = got /\ UNCHANGED <<folder, place, older, pc>>
    BY <1>8 DEF SkipMail
  <2> QED BY <2>1, ShorterOrder
<1>9. CASE GraphRefuses
  <2>1. todo # <<>> /\ todo' = <<>> /\ got' = Append(got, Head(todo)) /\ folder' = folder
        /\ pc \in Walking /\ pc' \notin Walking
    BY <1>9 DEF GraphRefuses, Return, Walking
  <2> QED BY <2>1, LongerOrder
<1>10. CASE NextListing
  <2>1. pc = "downloading" /\ todo = <<>> /\ UNCHANGED <<folder, got>>
    BY <1>10 DEF NextListing
  <2>2. CASE UNCHANGED listing
    <3>1. UNCHANGED <<todo, got, place, older>> /\ pc \in Walking
      BY <2>1, <2>2 DEF Walking
    <3> QED BY <1>1, <3>1, SameOrder
  <2>3. CASE place' = place + 1 /\ UNCHANGED todo
    <3>1. ASSUME NEW i \in DOMAIN got PROVE folder[got[i]] < place + 1
      <4>1. folder[got[i]] < place \/ folder[got[i]] = place
        BY <2>1 DEF Ordered
      <4>2. folder[got[i]] \in Nat /\ place \in Nat
        BY Domains, OrderTypes
      <4> QED BY <4>1, <4>2
    <3> QED BY <2>1, <2>3, <3>1 DEF Ordered
  <2>4. CASE Return /\ pc' \in {"closing", "rules"}
    <3>1. todo' = <<>> /\ pc' \notin Walking
      BY <2>4 DEF Return, Walking
    <3> QED BY <2>1, <3>1, RestOrder
  <2> QED BY <1>10, <2>2, <2>3, <2>4 DEF NextListing
<1>11. CASE Break
  <2>1. todo' = <<>> /\ pc' \notin Walking /\ folder' = folder
    BY <1>11 DEF Break, Return, Walking
  <2>2. got' = got \/ got' = <<>>
    BY <1>11 DEF Break, Partial
  <2> QED BY <2>1, <2>2, RestOrder, EmptyOrder
<1>12. CASE RunRules \/ Close
  <2>1. UNCHANGED <<todo, got, place, older>> /\ pc' \notin Walking
    BY <1>12 DEF RunRules, Close, Walking
  <2> QED BY <1>1, <2>1, SameOrder
<1>13. CASE Store \/ Raise \/ Retry \/ Crash
  <2>1. todo' = <<>> /\ got' = <<>>
    BY <1>13 DEF Store, Raise, Retry, Crash, Return, Phases
  <2> QED BY <2>1, EmptyOrder
<1>14. CASE UNCHANGED vars
  <2>1. UNCHANGED <<todo, got, place, older, pc>>
    BY <1>14 DEF vars
  <2> QED BY <1>1, <2>1, SameOrder
<1> QED
  BY <1>2, <1>3, <1>4, <1>5, <1>6, <1>7, <1>8, <1>9, <1>10, <1>11, <1>12, <1>13, <1>14
     DEF Next, Fetch, World, Fail

-----------------------------------------------------------------------------
(* What the store knows *)

\* A mail that the store can know and does not know is not stored.
LEMMA UnknownFresh ==
  ASSUME Witnessed, NEW m \in Mails, ~IsKnown(m), Alone(folder, setup, m)
  PROVE  ~InStore(rows, folder, setup, m)
<1> SUFFICES ASSUME InStore(rows, folder, setup, m) PROVE FALSE
  OBVIOUS
<1>1. PICK r \in rows : r.folder = folder[m] /\ r.message = setup.message[m]
  BY DEF InStore
<1>2. PICK n \in Mails : /\ folder[n] = r.folder /\ setup.message[n] = r.message
                         /\ setup.protocol # "pop3 numbers" => r.tid = n
  BY <1>1 DEF Witnessed, Comes
<1>3. n = m /\ r.tid = m
  BY <1>1, <1>2 DEF Alone
<1>4. Tid(m) = m
  BY DEF Tid, Alone
<1> QED BY <1>1, <1>3, <1>4 DEF IsKnown

\* Mails that were listed or downloaded before stay fresh while no row changes.
LEMMA SameFresh ==
  ASSUME TypeOK, Ordered, Fresh, Steady(folder, folder'), UNCHANGED <<setup, rows>>,
         \A i \in DOMAIN todo' : \E j \in DOMAIN todo : todo'[i] = todo[j],
         \A i \in DOMAIN got' : \/ \E j \in DOMAIN got : got'[i] = got[j]
                                \/ \E j \in DOMAIN todo : got'[i] = todo[j]
  PROVE  Fresh'
<1>1. ASSUME NEW m \in Mails, folder[m] # 0,
             Alone(folder, setup, m) => ~InStore(rows, folder, setup, m),
             Alone(folder', setup, m)
      PROVE  ~InStore(rows, folder', setup, m)
  BY <1>1, AloneKept, InStoreKept
<1>2. ASSUME NEW j \in DOMAIN todo
      PROVE  /\ todo[j] \in Mails /\ folder[todo[j]] # 0
             /\ Alone(folder, setup, todo[j]) => ~InStore(rows, folder, setup, todo[j])
  <2>1. todo[j] \in Mails /\ folder[todo[j]] = place
    BY Domains DEF Ordered
  <2> QED BY <2>1, OrderTypes DEF Fresh
<1>3. ASSUME NEW j \in DOMAIN got
      PROVE  /\ got[j] \in Mails /\ folder[got[j]] # 0
             /\ Alone(folder, setup, got[j]) => ~InStore(rows, folder, setup, got[j])
  BY Domains DEF Ordered, Fresh
<1>4. ASSUME NEW i \in DOMAIN todo', Alone(folder', setup, todo'[i])
      PROVE  ~InStore(rows, folder', setup, todo'[i])
  <2>1. PICK j \in DOMAIN todo : todo'[i] = todo[j]
    OBVIOUS
  <2> QED BY <1>1, <1>2, <1>4, <2>1
<1>5. ASSUME NEW i \in DOMAIN got', Alone(folder', setup, got'[i])
      PROVE  ~InStore(rows, folder', setup, got'[i])
  <2>1. CASE \E j \in DOMAIN got : got'[i] = got[j]
    BY <1>1, <1>3, <1>5, <2>1
  <2>2. CASE \E j \in DOMAIN todo : got'[i] = todo[j]
    BY <1>1, <1>2, <1>5, <2>2
  <2> QED BY <2>1, <2>2
<1> QED BY <1>4, <1>5 DEF Fresh

LEMMA ListedFresh ==
  ASSUME TypeOK, Fresh, Witnessed, UNCHANGED <<folder, setup, rows, got>>,
         NEW S, Lists(todo', S), \A m \in S : ~IsKnown(m)
  PROVE  Fresh'
<1>1. \A i \in DOMAIN todo' : todo'[i] \in Mails /\ ~IsKnown(todo'[i])
  BY DEF Lists
<1>2. \A i \in DOMAIN todo' :
        Alone(folder, setup, todo'[i]) => ~InStore(rows, folder, setup, todo'[i])
  BY <1>1, UnknownFresh
<1> QED BY <1>2 DEF Fresh

LEMMA NextFresh ==
  ASSUME TypeOK, Phases, Ordered, Fresh, Witnessed, [Next]_vars
  PROVE  Fresh'
<1> USE DEF listing, history
<1>1. Steady(folder, folder') /\ setup' = setup
  BY FoldersKept
<1>2. CASE ListUnknown
  <2>1. Lists(todo', {m \in InFolder : ~IsKnown(m)})
    BY <1>2, UnknownLists DEF ListUnknown, Phases
  <2>2. UNCHANGED <<folder, setup, rows, got>>
    BY <1>2 DEF ListUnknown
  <2> QED BY <2>1, <2>2, ListedFresh
<1>3. CASE ListPage
  <2>1. Lists(todo', {m \in Older : ~IsKnown(m)})
    BY <1>3, PageBrings DEF ListPage, Phases
  <2>2. UNCHANGED <<folder, setup, rows, got>>
    BY <1>3 DEF ListPage
  <2> QED BY <2>1, <2>2, ListedFresh
<1>4. CASE Download \/ GraphRefuses
  <2>1. todo # <<>> /\ got' = Append(got, Head(todo)) /\ rows' = rows
        /\ (todo' = Tail(todo) \/ todo' = <<>>)
    BY <1>4 DEF Download, GraphRefuses, Return
  <2>2. PICK n : n = Len(todo) /\ n \in Nat \ {0} /\ DOMAIN todo = 1..n
    <3>1. Len(todo) \in Nat \ {0} /\ DOMAIN todo = 1..Len(todo)
      BY <2>1, Downloaded, Domains
    <3> QED BY <3>1
  <2>3. PICK k : k = Len(got) /\ k \in Nat /\ DOMAIN got = 1..k
    <3>1. Len(got) \in Nat /\ DOMAIN got = 1..Len(got)
      BY Domains
    <3> QED BY <3>1
  <2>4. /\ got' \in Seq(Mails) /\ Len(got') = k + 1
        /\ got'[k + 1] = todo[1] /\ \A i \in 1..k : got'[i] = got[i]
    BY <2>1, <2>3, Downloaded
  <2>5. DOMAIN got' = 1..(k + 1)
    BY <2>3, <2>4
  <2>6. ASSUME NEW i \in DOMAIN got'
        PROVE  \/ \E j \in DOMAIN got : got'[i] = got[j]
               \/ \E j \in DOMAIN todo : got'[i] = todo[j]
    <3>1. CASE i = k + 1
      <4>1. 1 \in DOMAIN todo /\ got'[i] = todo[1]
        BY <2>2, <2>4, <3>1
      <4> QED BY <4>1
    <3>2. CASE i # k + 1
      <4>1. i \in DOMAIN got /\ got'[i] = got[i]
        BY <2>3, <2>4, <2>5, <3>2
      <4> QED BY <4>1
    <3> QED BY <3>1, <3>2
  <2>7. ASSUME NEW i \in DOMAIN todo' PROVE \E j \in DOMAIN todo : todo'[i] = todo[j]
    <3>1. CASE todo' = Tail(todo)
      <4>1. DOMAIN todo' = 1..(n - 1) /\ todo'[i] = todo[i + 1]
        BY <2>1, <2>2, <2>7, <3>1, Downloaded
      <4>2. i + 1 \in 1..n
        BY <2>2, <2>7, <4>1
      <4> QED BY <2>2, <4>1, <4>2
    <3>2. CASE todo' = <<>>
      BY <3>2
    <3> QED BY <2>1, <3>1, <3>2
  <2> QED BY <1>1, <2>1, <2>6, <2>7, SameFresh
<1>5. CASE SkipMail
  <2>1. todo # <<>> /\ got' = got /\ rows' = rows /\ todo' = Tail(todo)
    BY <1>5 DEF SkipMail
  <2>2. PICK n : n = Len(todo) /\ n \in Nat \ {0} /\ DOMAIN todo = 1..n
    <3>1. Len(todo) \in Nat \ {0} /\ DOMAIN todo = 1..Len(todo)
      BY <2>1, Downloaded, Domains
    <3> QED BY <3>1
  <2>3. ASSUME NEW i \in DOMAIN todo' PROVE \E j \in DOMAIN todo : todo'[i] = todo[j]
    <3>1. DOMAIN todo' = 1..(n - 1) /\ todo'[i] = todo[i + 1]
      BY <2>1, <2>2, <2>3, Downloaded
    <3>2. i + 1 \in 1..n
      BY <2>2, <2>3, <3>1
    <3> QED BY <2>2, <3>1, <3>2
  <2> QED BY <1>1, <2>1, <2>3, SameFresh
<1>6. CASE Store \/ Raise \/ Crash \/ Retry
  <2>1. todo' = <<>> /\ got' = <<>>
    BY <1>6 DEF Store, Raise, Crash, Retry, Return, Phases
  <2> QED BY <2>1 DEF Fresh
<1>7. CASE Arrive \/ OtherDeletes \/ Begin \/ SkipFolder \/ NextListing \/ RunRules \/ Close
           \/ Break \/ UNCHANGED vars
  <2>1. rows' = rows
    BY <1>7 DEF Arrive, OtherDeletes, Begin, SkipFolder, NextListing, RunRules, Close,
       Break, vars
  <2>2. todo' = todo \/ todo' = <<>>
    BY <1>7 DEF Arrive, OtherDeletes, Begin, SkipFolder, NextListing, RunRules, Close,
       Break,
       Return, vars
  <2>3. got' = got \/ got' = <<>>
    BY <1>7 DEF Arrive, OtherDeletes, Begin, SkipFolder, NextListing, RunRules, Close,
       Break,
       Partial, vars
  <2> QED BY <1>1, <2>1, <2>2, <2>3, SameFresh
<1> QED
  BY <1>2, <1>3, <1>4, <1>5, <1>6, <1>7 DEF Next, Fetch, World, Fail

-----------------------------------------------------------------------------
(* The rules and the rows *)

LEMMA NextHeard ==
  ASSUME TypeOK, Phases, Heard, [Next]_vars
  PROVE  Heard' /\ tried \subseteq tried'
<1> USE DEF listing, history
<1>1. CASE RunRules
  <2>2. done' = done + 1 /\ got' = got /\ tried \subseteq tried'
        /\ (got[done + 1] \in Ruled => got[done + 1] \in tried')
    BY <1>1 DEF RunRules
  <2>3. ASSUME NEW i \in 1..done', got[i] \in Ruled PROVE got[i] \in tried'
    <3>1. done \in Nat
      BY DEF TypeOK
    <3>2. CASE i = done + 1
      BY <2>2, <2>3, <3>2
    <3>3. CASE i # done + 1
      <4>1. i \in 1..done
        BY <2>2, <3>1, <3>3
      <4> QED BY <2>2, <2>3, <4>1 DEF Heard
    <3> QED BY <3>2, <3>3
  <2> QED BY <2>2, <2>3 DEF Heard
<1>2. CASE ~RunRules
  <2>1. tried' = tried /\ (done' = 0 \/ (got' = got /\ done' = done))
    <3>1. CASE Arrive \/ OtherDeletes \/ Begin \/ ListUnknown \/ ListPage \/ SkipFolder
               \/ SkipMail \/ NextListing \/ Close \/ UNCHANGED vars
      BY <3>1 DEF Arrive, OtherDeletes, Begin, ListUnknown, ListPage, SkipFolder,
         SkipMail,
         NextListing, Close, vars
    <3>2. CASE Download \/ GraphRefuses
      BY <3>2 DEF Download, GraphRefuses, Phases
    <3>3. CASE Store \/ Raise \/ Retry \/ Break \/ Crash
      BY <3>3 DEF Store, Raise, Retry, Break, Crash, Phases
    <3> QED BY <1>2, <3>1, <3>2, <3>3 DEF Next, Fetch, World, Fail
  <2> QED BY <2>1 DEF Heard
<1> QED BY <1>1, <1>2

LEMMA NextWitnessed ==
  ASSUME TypeOK, Phases, Ordered, Witnessed, Heard, Sessions, [Next]_vars
  PROVE  Witnessed'
<1> USE DEF listing, history
<1>1. Steady(folder, folder') /\ setup' = setup /\ tried \subseteq tried'
  BY FoldersKept, NextHeard
<1>2. ASSUME NEW r \in rows PROVE Comes(r, folder', setup', tried')
  <2>1. PICK n \in Mails : /\ folder[n] = r.folder /\ setup.message[n] = r.message
                           /\ setup.protocol # "pop3 numbers" => r.tid = n
                           /\ n \in Ruled => n \in tried
    BY DEF Witnessed, Comes
  <2>2. r.folder \in Folders
    BY DEF TypeOK, Rows
  <2>3. r.folder # 0
    BY <2>2, Numbers
  <2>4. folder'[n] = r.folder
    BY <1>1, <2>1, <2>3 DEF Steady
  <2> QED BY <1>1, <2>1, <2>4 DEF Comes
<1>3. CASE Store
  <2>1. folder' = folder /\ tried' = tried /\ rows' = Upserted /\ done = Len(got)
    BY <1>3 DEF Store, AllSeen
  <2>2. ASSUME NEW r \in Upserted PROVE Comes(r, folder', setup', tried')
    <3>1. CASE r \in rows
      BY <1>2, <3>1
    <3>2. CASE \E i \in DOMAIN got : r = RowOf(i)
      <4>1. PICK i \in DOMAIN got : r = RowOf(i)
        BY <3>2
      <4>2. got[i] \in Mails /\ i \in 1..done
        BY <2>1, Domains
      <4>3. got[i] \in Ruled => got[i] \in tried
        BY <4>2 DEF Heard
      <4>4. setup.protocol # "pop3 numbers" => Tid(got[i]) = got[i]
        BY DEF Tid
      <4>5. r.folder = folder[got[i]] /\ r.message = setup.message[got[i]] /\ r.tid = Tid(got[i])
        BY <4>1 DEF RowOf
      <4> QED BY <1>1, <2>1, <4>2, <4>3, <4>4, <4>5 DEF Comes
    <3> QED BY <3>1, <3>2, UpsertedFrom
  <2> QED BY <2>1, <2>2 DEF Witnessed
<1>4. CASE ~Store
  <2>1. rows' = rows
    <3>1. CASE Fetch
      BY <1>4, <3>1 DEF Fetch, Begin, ListUnknown, ListPage, Download, SkipMail,
         NextListing,
         GraphRefuses, RunRules, Close
    <3>2. CASE World
      BY <3>2 DEF World, Arrive, OtherDeletes
    <3>3. CASE Fail
      BY <3>3 DEF Fail, SkipFolder, Retry, Break, Raise, Crash
    <3>4. CASE UNCHANGED vars
      BY <3>4 DEF vars
    <3> QED BY <3>1, <3>2, <3>3, <3>4 DEF Next
  <2> QED BY <1>2, <2>1 DEF Witnessed
<1> QED BY <1>3, <1>4

-----------------------------------------------------------------------------
(* The webhooks *)

LEMMA RowsKept ==
  ASSUME TypeOK, [Next]_vars
  PROVE  rows' = rows \/ (Store /\ rows' = Upserted /\ folder' = folder)
<1>1. CASE Fetch
  BY <1>1 DEF Fetch, Begin, ListUnknown, ListPage, Download, SkipMail, NextListing,
     GraphRefuses, RunRules, Store, Close
<1>2. CASE World
  BY <1>2 DEF World, Arrive, OtherDeletes
<1>3. CASE Fail
  BY <1>3 DEF Fail, SkipFolder, Retry, Break, Raise, Crash
<1>4. CASE UNCHANGED vars
  BY <1>4 DEF vars
<1> QED BY <1>1, <1>2, <1>3, <1>4 DEF Next

\* What is stored stays stored.
LEMMA StaysStored ==
  ASSUME TypeOK, [Next]_vars, NEW m \in Mails, InStore(rows, folder, setup, m)
  PROVE  InStore(rows', folder', setup', m)
<1>1. folder[m] # 0
  BY StoredArrived
<1>2. Steady(folder, folder') /\ setup' = setup
  BY FoldersKept
<1>3. InStore(rows, folder', setup, m)
  BY <1>1, <1>2, InStoreKept
<1>4. CASE rows' = rows
  BY <1>2, <1>3, <1>4
<1>5. CASE rows' = Upserted /\ folder' = folder
  BY <1>2, <1>5, UpsertedHolds
<1> QED BY <1>4, <1>5, RowsKept

\* Nothing is lost but by a fault, and then only what was downloaded.
LEMMA LostGrows ==
  ASSUME TypeOK, CountedOnce, [Next]_vars, NEW m \in Mails
  PROVE  /\ lost[m] \in Nat /\ lost'[m] \in Nat /\ lost[m] <= lost'[m] /\ lost'[m] <= faults'
         /\ Throw => (m \in Range(got) => lost'[m] = lost[m] + 1)
<1> USE DEF listing, history
<1>1. lost[m] \in Nat /\ lost[m] <= faults /\ faults \in Nat
  BY DEF TypeOK, CountedOnce
<1>2. Throw => lost'[m] = IF m \in Range(got) THEN lost[m] + 1 ELSE lost[m]
  BY DEF Throw
<1>3. CASE Throw /\ Fault
  BY <1>1, <1>2, <1>3 DEF Fault
<1>4. CASE lost' = lost /\ (faults' = faults \/ Fault)
  BY <1>1, <1>2, <1>4 DEF Fault
<1>5. (Throw /\ Fault) \/ (lost' = lost /\ (faults' = faults \/ Fault))
  <2>1. CASE Fetch
    BY <2>1 DEF Fetch, Begin, ListUnknown, ListPage, Download, SkipMail, NextListing,
       GraphRefuses, RunRules, Store, Close
  <2>2. CASE World
    BY <2>2 DEF World, Arrive, OtherDeletes
  <2>3. CASE Fail
    BY <2>3 DEF Fail, SkipFolder, Retry, Break, Raise, Crash
  <2>4. CASE UNCHANGED vars
    BY <2>4 DEF vars
  <2> QED BY <2>1, <2>2, <2>3, <2>4 DEF Next
<1> QED BY <1>3, <1>4, <1>5

\* A mail the webhook told of is told of after the step, or thrown away by it.
LEMMA StaysTold ==
  ASSUME TypeOK, Phases, CountedOnce, [Next]_vars, NEW m \in Mails,
         Told(rows, folder, setup, got, done, m)
  PROVE  Told(rows', folder', setup', got', done', m) \/ lost'[m] = lost[m] + 1
<1> USE DEF listing, history
<1>1. CASE InStore(rows, folder, setup, m)
  BY <1>1, StaysStored DEF Told
<1>2. CASE \E i \in 1..done : got[i] = m
  <2>1. PICK i \in 1..done : got[i] = m
    BY <1>2
  <2>2. i \in DOMAIN got /\ m \in Range(got) /\ done \in Nat /\ done # 0 /\ pc = "rules"
    <3>1. done \in 0..Len(got) /\ DOMAIN got = 1..Len(got) /\ Len(got) \in Nat
      BY Domains DEF TypeOK
    <3>2. i \in DOMAIN got /\ done \in Nat /\ done # 0
      BY <3>1
    <3> QED BY <2>1, <3>2 DEF Range, Phases
  <2>3. CASE RunRules
    <3>1. got' = got /\ i \in 1..done'
      BY <2>2, <2>3 DEF RunRules
    <3> QED BY <2>1, <3>1 DEF Told
  <2>4. CASE Store
    <3>1. InStore(Upserted, folder, setup, m)
      BY <2>2, UpsertedHolds
    <3>2. rows' = Upserted /\ folder' = folder /\ setup' = setup
      BY <2>4 DEF Store
    <3> QED BY <3>1, <3>2 DEF Told
  <2>5. CASE Raise \/ Crash
    BY <2>2, <2>5, LostGrows DEF Raise, Crash
  <2>6. CASE Arrive \/ OtherDeletes \/ UNCHANGED vars
    <3>1. got' = got /\ done' = done
      BY <2>6 DEF Arrive, OtherDeletes, vars
    <3> QED BY <2>1, <3>1 DEF Told
  <2>7. CASE Begin \/ ListUnknown \/ ListPage \/ SkipFolder \/ Download \/ SkipMail \/ NextListing
             \/ GraphRefuses \/ Close \/ Retry \/ Break
    BY <2>2, <2>7 DEF Begin, ListUnknown, ListPage, SkipFolder, Download, SkipMail,
       NextListing,
       GraphRefuses, Close, Retry, Break
  <2> QED BY <2>3, <2>4, <2>5, <2>6, <2>7 DEF Next, Fetch, World, Fail
<1> QED BY <1>1, <1>2 DEF Told

LEMMA NextCounted ==
  ASSUME TypeOK, Phases, Ordered, Fresh, CountedOnce, [Next]_vars
  PROVE  CountedOnce'
<1> USE DEF listing, history
<1>1. Steady(folder, folder') /\ setup' = setup
  BY FoldersKept
<1>2. ASSUME NEW m \in Mails, notified'[m] = notified[m]
      PROVE  /\ notified'[m] # 0 => folder'[m] # 0
             /\ Alone(folder', setup, m) =>
                  notified'[m] <= lost'[m]
                    + (IF Told(rows', folder', setup', got', done', m) THEN 1 ELSE 0)
  <2>1. notified[m] \in Nat
    BY Numbers DEF TypeOK, NoteCap
  <2>2. lost[m] \in Nat /\ lost'[m] \in Nat /\ lost[m] <= lost'[m]
    BY LostGrows
  <2>3. CASE notified[m] = 0
    BY <1>2, <2>2, <2>3
  <2>4. CASE notified[m] # 0
    <3>1. folder[m] # 0 /\ folder'[m] = folder[m]
      BY <1>1, <2>4 DEF CountedOnce, Steady
    <3>2. ASSUME Alone(folder', setup, m)
          PROVE  notified[m] <= lost'[m]
                   + (IF Told(rows', folder', setup', got', done', m) THEN 1 ELSE 0)
      <4>1. Alone(folder, setup, m)
        BY <1>1, <3>1, <3>2, AloneKept
      <4>2. notified[m] <= lost[m] + (IF Told(rows, folder, setup, got, done, m) THEN 1 ELSE 0)
        BY <4>1 DEF CountedOnce
      <4>3. CASE Told(rows, folder, setup, got, done, m)
        <5>1. Told(rows', folder', setup', got', done', m) \/ lost'[m] = lost[m] + 1
          BY <4>3, StaysTold
        <5> QED BY <2>1, <2>2, <4>2, <4>3, <5>1
      <4>4. CASE ~Told(rows, folder, setup, got, done, m)
        BY <2>1, <2>2, <4>2, <4>4
      <4> QED BY <4>3, <4>4
    <3> QED BY <1>2, <3>1, <3>2
  <2> QED BY <2>3, <2>4
<1>3. ASSUME NEW m \in Mails, RunRules, m = got[done + 1],
             notified'[m] <= notified[m] + 1, notified'[m] \in Nat
      PROVE  /\ folder'[m] # 0
             /\ Alone(folder', setup, m) =>
                  notified'[m] <= lost'[m]
                    + (IF Told(rows', folder', setup', got', done', m) THEN 1 ELSE 0)
  <2>1. done \in Nat /\ done + 1 \in DOMAIN got /\ 1..done \subseteq DOMAIN got
    <3>1. done \in 0..Len(got) /\ DOMAIN got = 1..Len(got) /\ Len(got) \in Nat
      BY Domains DEF TypeOK
    <3> QED BY <1>3, <3>1 DEF RunRules
  <2>2. folder' = folder /\ got' = got /\ done' = done + 1 /\ lost' = lost
    BY <1>3 DEF RunRules
  <2>3. folder[m] # 0
    BY <1>3, <2>1 DEF Ordered
  <2>4. ASSUME Alone(folder, setup, m)
        PROVE  notified[m] <= lost[m]
    <3>1. ~InStore(rows, folder, setup, m)
      BY <1>3, <2>1, <2>4 DEF Fresh
    <3>2. \A i \in 1..done : got[i] # m
      <4>1. \A i \in 1..done : i # done + 1
        BY <2>1
      <4> QED BY <1>3, <2>1, <4>1 DEF Ordered
    <3>3. ~Told(rows, folder, setup, got, done, m)
      BY <3>1, <3>2 DEF Told
    <3>4. notified[m] <= lost[m] + 0
      BY <2>4, <3>3 DEF CountedOnce
    <3>5. lost[m] \in Nat
      BY LostGrows
    <3> QED BY <3>4, <3>5
  <2>5. Told(rows', folder', setup', got', done', m)
    <3>1. done' \in 1..done'
      BY <2>1, <2>2
    <3> QED BY <1>3, <2>2, <3>1 DEF Told
  <2>6. lost[m] \in Nat /\ notified[m] \in Nat
    <3>1. lost[m] \in Nat
      BY LostGrows
    <3>2. notified[m] \in Nat
      BY Numbers DEF TypeOK, NoteCap
    <3> QED BY <3>1, <3>2
  <2> QED BY <1>3, <2>2, <2>3, <2>4, <2>5, <2>6
<1>4. ASSUME NEW m \in Mails
      PROVE  \/ notified'[m] = notified[m]
             \/ /\ RunRules /\ m = got[done + 1]
                /\ notified'[m] <= notified[m] + 1 /\ notified'[m] \in Nat
  <2>1. CASE RunRules
    <3>1. PICK n : n = got[done + 1]
      OBVIOUS
    <3>2. CASE notified' = notified
      BY <3>2
    <3>3. CASE notified' = [notified EXCEPT ![n] = IF @ < NoteCap THEN @ + 1 ELSE @]
      <4>1. notified[m] \in Nat
        BY Numbers DEF TypeOK, NoteCap
      <4>2. m # n => notified'[m] = notified[m]
        BY <3>3 DEF TypeOK
      <4>3. m = n => notified'[m] = IF notified[m] < NoteCap THEN notified[m] + 1 ELSE notified[m]
        BY <3>3 DEF TypeOK
      <4> QED BY <2>1, <3>1, <4>1, <4>2, <4>3
    <3> QED BY <2>1, <3>1, <3>2, <3>3 DEF RunRules
  <2>2. CASE ~RunRules
    <3>1. notified' = notified
      <4>1. CASE Fetch
        BY <2>2, <4>1 DEF Fetch, Begin, ListUnknown, ListPage, Download, SkipMail,
           NextListing,
           GraphRefuses, Store, Close
      <4>2. CASE World
        BY <4>2 DEF World, Arrive, OtherDeletes
      <4>3. CASE Fail
        BY <4>3 DEF Fail, SkipFolder, Retry, Break, Raise, Crash
      <4>4. CASE UNCHANGED vars
        BY <4>4 DEF vars
      <4> QED BY <4>1, <4>2, <4>3, <4>4 DEF Next
    <3> QED BY <3>1
  <2> QED BY <2>1, <2>2
<1>5. \A m \in Mails : lost'[m] <= faults'
  BY LostGrows
<1>6. ASSUME NEW m \in Mails
      PROVE  /\ notified'[m] # 0 => folder'[m] # 0
             /\ Alone(folder', setup', m) =>
                  notified'[m] <= lost'[m]
                    + (IF Told(rows', folder', setup', got', done', m) THEN 1 ELSE 0)
  <2>1. CASE notified'[m] = notified[m]
    BY <1>1, <1>2, <2>1
  <2>2. CASE /\ RunRules /\ m = got[done + 1]
             /\ notified'[m] <= notified[m] + 1 /\ notified'[m] \in Nat
    BY <1>1, <1>3, <2>2
  <2> QED BY <1>4, <2>1, <2>2
<1> QED BY <1>5, <1>6 DEF CountedOnce
-----------------------------------------------------------------------------
(* The deletions *)

LEMMA AppendRange ==
  ASSUME TypeOK, todo # <<>>, got' = Append(got, Head(todo))
  PROVE  Range(got') = Range(got) \cup {Head(todo)}
<1>1. PICK k : k = Len(got) /\ k \in Nat /\ DOMAIN got = 1..k
  <2>1. Len(got) \in Nat /\ DOMAIN got = 1..Len(got)
    BY Domains
  <2> QED BY <2>1
<1>2. /\ got' \in Seq(Mails) /\ Len(got') = k + 1
      /\ got'[k + 1] = Head(todo) /\ \A i \in 1..k : got'[i] = got[i]
  BY <1>1, Downloaded
<1>3. DOMAIN got' = 1..(k + 1)
  BY <1>1, <1>2
<1>4. \A i \in 1..(k + 1) : i = k + 1 \/ i \in 1..k
  BY <1>1
<1>5. k + 1 \in DOMAIN got' /\ \A i \in 1..k : i \in DOMAIN got'
  BY <1>1, <1>3
<1> QED BY <1>1, <1>2, <1>3, <1>4, <1>5 DEF Range

\* Only the fetch deletes: what a request or a rule is about, and what is marked.
LEMMA Deleting ==
  ASSUME TypeOK, [Next]_vars, NEW m \in deleted' \cup marked'
  PROVE  \/ m \in deleted \cup marked
         \/ Download /\ m = Head(todo) /\ setup.post # "none"
         \/ RunRules /\ m = got[done + 1]
<1> USE DEF listing, history
<1>1. CASE Download
  BY <1>1 DEF Download, PostAction, Acts, Applied, NotApplied
<1>2. CASE RunRules
  BY <1>2 DEF RunRules, Applied, NotApplied
<1>3. CASE Close
  BY <1>3 DEF Close, NotApplied
<1>4. CASE Crash
  BY <1>4 DEF Crash
<1>5. CASE Begin \/ ListUnknown \/ ListPage \/ SkipMail \/ NextListing \/ GraphRefuses \/ Store
  BY <1>5 DEF Begin, ListUnknown, ListPage, SkipMail, NextListing, GraphRefuses, Store
<1>6. CASE Arrive \/ OtherDeletes \/ SkipFolder \/ Retry \/ Break \/ Raise \/ UNCHANGED vars
  BY <1>6 DEF Arrive, OtherDeletes, SkipFolder, Retry, Break, Raise, vars
<1> QED BY <1>1, <1>2, <1>3, <1>4, <1>5, <1>6 DEF Next, Fetch, World, Fail

\* A mail on its way stays on it, arrives or is thrown away.
LEMMA StaysOnItsWay ==
  ASSUME TypeOK, Phases, CountedOnce, [Next]_vars, NEW m \in Mails, OnItsWay(got, pc,
         setup, m)
  PROVE  \/ OnItsWay(got', pc', setup', m)
         \/ InStore(rows', folder', setup', m)
         \/ lost'[m] > 0
<1> USE DEF listing, history
<1>1. setup' = setup /\ m \in Range(got) /\ got # <<>> /\ pc \notin {"idle", "closing"}
  <2>1. Range(<<>>) = {}
    BY DEF Range
  <2> QED BY <2>1, FoldersKept DEF OnItsWay, Phases
<1>2. Throw => lost'[m] > 0
  BY <1>1, LostGrows
<1>3. CASE Arrive \/ OtherDeletes \/ UNCHANGED vars
  BY <1>1, <1>3 DEF Arrive, OtherDeletes, vars, OnItsWay
<1>4. CASE ListUnknown \/ ListPage \/ SkipFolder \/ SkipMail \/ NextListing
  BY <1>1, <1>4 DEF ListUnknown, ListPage, SkipFolder, SkipMail, NextListing, OnItsWay
<1>5. CASE Download \/ GraphRefuses
  <2>1. m \in Range(got')
    BY <1>1, <1>5, AppendRange DEF Download, GraphRefuses
  <2>2. pc' = pc \/ pc' = "rules"
    BY <1>5 DEF Download, GraphRefuses
  <2> QED BY <1>1, <2>1, <2>2 DEF OnItsWay
<1>6. CASE RunRules
  BY <1>1, <1>6 DEF RunRules, OnItsWay
<1>7. CASE Store
  <2>1. InStore(Upserted, folder, setup, m)
    BY <1>1, UpsertedHolds
  <2> QED BY <1>7, <2>1 DEF Store
<1>8. CASE Retry
  BY <1>8 DEF Retry, OnItsWay
<1>9. CASE Break
  <2>1. CASE setup.protocol = "imap"
    BY <1>2, <1>9, <2>1 DEF Break
  <2>2. CASE setup.protocol # "imap"
    <3>1. got' = got /\ pc' = "rules"
      BY <1>1, <1>9, <2>2 DEF Break, Partial
    <3> QED BY <1>1, <3>1 DEF OnItsWay
  <2> QED BY <2>1, <2>2
<1>10. CASE Raise \/ Crash
  BY <1>2, <1>10 DEF Raise, Crash
<1>11. CASE Begin \/ Close
  BY <1>1, <1>11 DEF Begin, Close
<1> QED
  BY <1>3, <1>4, <1>5, <1>6, <1>7, <1>8, <1>9, <1>10, <1>11 DEF Next, Fetch, World, Fail

LEMMA NextKept ==
  ASSUME TypeOK, Phases, CountedOnce, Kept, [Next]_vars
  PROVE  Kept'
<1>1. ASSUME NEW m \in Mails, m \in deleted \cup marked
      PROVE  \/ InStore(rows', folder', setup', m) \/ lost'[m] > 0
             \/ OnItsWay(got', pc', setup', m)
  <2>1. CASE InStore(rows, folder, setup, m)
    BY <2>1, StaysStored
  <2>2. CASE lost[m] > 0
    <3>1. lost[m] \in Nat /\ lost'[m] \in Nat /\ lost[m] <= lost'[m]
      BY LostGrows
    <3> QED BY <2>2, <3>1
  <2>3. CASE OnItsWay(got, pc, setup, m)
    BY <2>3, StaysOnItsWay
  <2> QED BY <1>1, <2>1, <2>2, <2>3 DEF Kept
<1>2. ASSUME NEW m \in deleted' \cup marked'
      PROVE  \/ InStore(rows', folder', setup', m) \/ lost'[m] > 0
             \/ OnItsWay(got', pc', setup', m)
  <2>1. CASE m \in deleted \cup marked
    <3>1. m \in Mails
      BY <2>1 DEF TypeOK
    <3> QED BY <1>1, <2>1, <3>1
  <2>2. CASE Download /\ m = Head(todo) /\ setup.post # "none"
    <3>1. m \in Range(got')
      BY <2>2, AppendRange DEF Download
    <3>2. setup' = setup
      BY FoldersKept
    <3> QED BY <2>2, <3>1, <3>2 DEF OnItsWay
  <2>3. CASE RunRules /\ m = got[done + 1]
    <3>1. done \in 0..Len(got) /\ DOMAIN got = 1..Len(got) /\ Len(got) \in Nat
      BY Domains DEF TypeOK
    <3>2. done + 1 \in DOMAIN got /\ got' = got /\ pc' = "rules"
      BY <2>3, <3>1 DEF RunRules
    <3>3. m \in Range(got')
      BY <2>3, <3>2 DEF Range
    <3> QED BY <3>2, <3>3 DEF OnItsWay
  <2> QED BY <2>1, <2>2, <2>3, Deleting
<1> QED BY <1>2 DEF Kept

-----------------------------------------------------------------------------
(* The theorems *)

LEMMA InitInv == Init => Inv
<1> SUFFICES ASSUME Init PROVE Inv
  OBVIOUS
<1>1. TypeOK
  BY InitType
<1>2. Phases /\ Sessions /\ Ordered /\ Fresh /\ Heard /\ Witnessed
  BY DEF Init, Phases, Sessions, Ordered, Fresh, Heard, Witnessed
<1>3. CountedOnce
  <2>1. \A m \in Mails : lost[m] = 0 /\ notified[m] = 0
    BY DEF Init
  <2>2. faults = 0
    BY DEF Init
  <2> QED BY <2>1, <2>2 DEF CountedOnce
<1>4. Kept
  BY DEF Init, Kept
<1> QED BY <1>1, <1>2, <1>3, <1>4 DEF Inv

LEMMA NextInv == Inv /\ [Next]_vars => Inv'
<1> SUFFICES ASSUME Inv, [Next]_vars PROVE Inv'
  OBVIOUS
<1>1. TypeOK /\ Phases /\ Sessions /\ Ordered /\ Fresh /\ Witnessed /\ Heard /\ CountedOnce /\ Kept
  BY DEF Inv
<1>2. TypeOK' /\ Phases' /\ Sessions' /\ Ordered'
  BY <1>1, NextType, NextPhases, NextSessions, NextOrder
<1>3. Fresh' /\ Heard' /\ Witnessed'
  BY <1>1, NextFresh, NextHeard, NextWitnessed
<1>4. CountedOnce' /\ Kept'
  BY <1>1, NextCounted, NextKept
<1> QED BY <1>2, <1>3, <1>4 DEF Inv

\* What the three properties of the mails need holds together.
THEOREM InvHolds == Spec => []Inv
BY InitInv, NextInv, PTL DEF Spec

\* Every variable of the fetch keeps its type.
THEOREM MailTypes == Spec => []TypeOK
<1>1. Inv => TypeOK
  BY DEF Inv
<1> QED BY <1>1, InvHolds, PTL

\* Every stored mail a rule is about was put to the rule, because a row comes from
\* a message that process has seen, and a mail of its own from no other.
THEOREM RulesHold == Spec => []NoRuleForgotten
<1>1. Inv => NoRuleForgotten
  <2> SUFFICES ASSUME Inv, NEW m \in Ruled, folder[m] # 0, Distinct(m), Stored(m)
               PROVE  m \in tried
    BY DEF NoRuleForgotten
  <2>1. m \in Mails
    BY SyncAssumption
  <2>2. PICK r \in rows : r.folder = folder[m] /\ r.message = setup.message[m]
    BY DEF Stored
  <2>3. PICK n \in Mails : /\ folder[n] = r.folder /\ setup.message[n] = r.message
                           /\ n \in Ruled => n \in tried
    BY <2>2 DEF Inv, Witnessed, Comes
  <2>4. n = m
    BY <2>1, <2>2, <2>3 DEF Distinct
  <2> QED BY <2>3, <2>4
<1> QED BY <1>1, InvHolds, PTL

\* A webhook tells of a mail once, and once more for each time the mail was thrown
\* away, because what the store can know is not downloaded again.
THEOREM NotesHold == Spec => []NotifiedOnce
<1>1. Inv => NotifiedOnce
  <2> SUFFICES ASSUME Inv, NEW m \in Mails, Distinct(m)
               PROVE  notified[m] <= 1 + lost[m]
    BY DEF NotifiedOnce
  <2>1. Alone(folder, setup, m)
    BY DEF Alone, Distinct
  <2>2. notified[m] <= lost[m] + (IF Told(rows, folder, setup, got, done, m) THEN 1 ELSE 0)
    BY <2>1 DEF Inv, CountedOnce
  <2>3. lost[m] \in Nat /\ notified[m] \in Nat
    BY Numbers DEF Inv, TypeOK, NoteCap
  <2> QED BY <2>2, <2>3
<1> QED BY <1>1, InvHolds, PTL

\* A mail the program has deleted is stored, on its way to the store, or was thrown
\* away by a crash, an exception of fetch_account or an error of IMAP.
THEOREM DeletionsHold == Spec => []DeletedMailKept
<1>1. Inv => DeletedMailKept
  BY DEF Inv, Kept, OnItsWay, InStore, Stored, DeletedMailKept
<1> QED BY <1>1, InvHolds, PTL
=============================================================================
