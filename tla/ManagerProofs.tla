---------------------------- MODULE ManagerProofs ----------------------------
(***************************************************************************)
(* Two managers lead at once only if one of them is late, for any number   *)
(* of managers and any durations NewLeaderElector accepts.                 *)
(***************************************************************************)
EXTENDS Manager, TLAPS

LEMMA DurationFacts ==
    /\ LeaseDuration \in Nat /\ LeaseDuration > 0
    /\ Deadline \in Nat /\ Deadline > 0
    /\ RetryPeriod \in 0..Deadline
BY ManagerAssumption DEF Deadline

(* While a manager leads in time nobody has seen its lease expire.         *)
LEMMA PunctualIsYoung ==
    ASSUME LeaseInv, NEW p \in Managers, Leads(p), p \notin late
    PROVE  holder = p /\ leaseAge < LeaseDuration
<1>1. /\ holder = p /\ leaseAge + Deadline < clock[p] + LeaseDuration
      /\ leaseAge \in 0..LeaseDuration /\ clock[p] \in 0..Deadline
  BY DEF LeaseInv, PunctualLeaderHolds, TypeOK
<1> QED BY <1>1, DurationFacts

-----------------------------------------------------------------------------
(* Types.  Every action leaves well-formed values.                         *)
LEMMA DownType ==
    ASSUME TypeOK, NEW p \in Managers, Down(p),
           exits' \in 0..MaxExits
    PROVE  TypeOK'
<1>1. holder' \in Managers \cup {Nobody, Gone}
  BY DEF Down, TypeOK
<1>2. 0 \in 0..LeaseDuration /\ 0 \in 0..Deadline
  BY DurationFacts
<1> QED BY <1>1, <1>2 DEF Down, Goto, TypeOK

LEMMA WriteOrRefuseType ==
    ASSUME TypeOK, NEW p \in Managers,
           Write(p) \/ Refuse(p),
           UNCHANGED <<state, expired, believes, age, clock, late, faults, exits>>
    PROVE  TypeOK'
<1>1. 0 \in 0..LeaseDuration
  BY DurationFacts
<1>2. CASE Write(p)
  BY <1>1, <1>2 DEF Write, Goto, TypeOK
<1>3. CASE Refuse(p)
  BY <1>3 DEF Refuse, Goto, leaseVars, TypeOK
<1> QED BY <1>2, <1>3

LEMMA OlderType ==
    ASSUME NEW limit \in Nat, NEW t \in 0..limit
    PROVE  /\ Older(t, limit) \in 0..limit
           /\ t <= Older(t, limit) /\ Older(t, limit) <= t + 1
           /\ t < limit => Older(t, limit) = t + 1
           /\ t = limit => Older(t, limit) = limit
BY DEF Older

LEMMA TickType ==
    ASSUME TypeOK, Tick
    PROVE  TypeOK'
<1>1. leaseAge' \in 0..LeaseDuration
  BY OlderType, DurationFacts DEF Tick, TypeOK
<1>2. age' \in [Managers -> 0..LeaseDuration]
  <2>1. ASSUME NEW p \in Managers
        PROVE  (IF observed[p] THEN Older(age[p], LeaseDuration) ELSE age[p])
                    \in 0..LeaseDuration
    <3>1. age[p] \in 0..LeaseDuration
      BY DEF TypeOK
    <3> QED BY <3>1, OlderType, DurationFacts
  <2> QED BY <2>1 DEF Tick
<1>3. clock' \in [Managers -> 0..Deadline]
  <2>1. ASSUME NEW p \in Managers
        PROVE  (IF Leads(p) THEN Older(clock[p], Deadline) ELSE clock[p])
                    \in 0..Deadline
    <3>1. clock[p] \in 0..Deadline
      BY DEF TypeOK
    <3> QED BY <3>1, OlderType, DurationFacts
  <2> QED BY <2>1 DEF Tick
<1>4. late' \subseteq Managers
  BY DEF Tick, TypeOK
<1> QED BY <1>1, <1>2, <1>3, <1>4 DEF Tick, TypeOK

LEMMA StepType ==
    ASSUME TypeOK, NEW p \in Managers, Process(p) \/ Exit(p) \/ Fail(p)
    PROVE  TypeOK'
<1> USE ManagerAssumption
<1>1. CASE Start(p)
  BY <1>1 DEF Start, TypeOK, leaseVars, recordVars
<1>2. CASE Attempt(p)
  BY <1>2 DEF Attempt, Goto, TypeOK, leaseVars, recordVars
<1>3. CASE GetLease(p)
  <2>1. /\ step' \in [Managers -> {"wait", "Get", "Create", "Update", "reply"}]
        /\ seen' \in [Managers -> BOOLEAN]
    BY <1>3 DEF GetLease, Goto, TypeOK
  <2>2. /\ observed' \in [Managers -> BOOLEAN]
        /\ believes' \in [Managers -> BOOLEAN]
    BY <1>3 DEF GetLease, Observe, TypeOK, recordVars
  <2>3. age' \in [Managers -> 0..LeaseDuration]
    BY <1>3, DurationFacts DEF GetLease, Observe, TypeOK, recordVars
  <2> QED BY <1>3, <2>1, <2>2, <2>3 DEF GetLease, TypeOK, leaseVars
<1>4. CASE CreateLease(p) \/ UpdateLease(p)
  BY <1>4, WriteOrRefuseType DEF CreateLease, UpdateLease
<1>5. CASE Reply(p)
  <2>1. late' \subseteq Managers
    BY <1>5 DEF Reply, TypeOK
  <2>2. 0 \in 0..LeaseDuration /\ 0 \in 0..Deadline
    BY DurationFacts
  <2>3. RetryPeriod \in 0..Deadline
    BY DurationFacts
  <2> QED BY <1>5, <2>1, <2>2, <2>3 DEF Reply, Goto, TypeOK, leaseVars
<1>6. CASE GiveUp(p)
  BY <1>6, DownType DEF GiveUp, TypeOK
<1>7. CASE Exit(p)
  <2>1. exits' \in 0..MaxExits
    BY <1>7 DEF Exit, TypeOK
  <2> QED BY <1>7, <2>1, DownType DEF Exit
<1>8. CASE Fail(p)
  BY <1>8 DEF Fail, Goto, TypeOK, leaseVars, recordVars
<1> QED BY <1>1, <1>2, <1>3, <1>4, <1>5, <1>6, <1>7, <1>8 DEF Process

-----------------------------------------------------------------------------
(* The rest of the invariant, for the steps that leave the lease alone.    *)
Kept == RecordInv' /\ TakeoverInv' /\ PunctualLeaderHolds'

LEMMA StartKeeps ==
    ASSUME LeaseInv, NEW p \in Managers, Start(p)
    PROVE  Kept
<1> USE DEF LeaseInv
<1>1. RecordInv' /\ TakeoverInv'
  BY DEF Start, RecordInv, TakeoverInv, leaseVars, recordVars
<1>2. ASSUME NEW q \in Managers, Leads(q)'
      PROVE  Leads(q)
  BY <1>2 DEF Start, Leads, TypeOK
<1>3. PunctualLeaderHolds'
  BY <1>2 DEF Start, PunctualLeaderHolds, leaseVars
<1> QED BY <1>1, <1>3 DEF Kept

LEMMA AttemptKeeps ==
    ASSUME LeaseInv, NEW p \in Managers, Attempt(p)
    PROVE  Kept
<1> USE DEF LeaseInv
<1>1. RecordInv'
  BY DEF Attempt, Goto, RecordInv, TypeOK, leaseVars, recordVars
<1>2. TakeoverInv'
  <2> SUFFICES ASSUME NEW q \in Managers
               PROVE  /\ step'[q] = "Get" /\ expired'[q] /\ observed'[q]
                            => leaseAge' = LeaseDuration
                      /\ step'[q] = "Update" /\ seen'[q]
                            => holder' = q \/ leaseAge' = LeaseDuration
    BY DEF TakeoverInv
  <2>1. CASE q # p
    BY <2>1 DEF Attempt, Goto, TakeoverInv, TypeOK, leaseVars, recordVars
  <2>2. CASE q = p
    <3>1. step'[p] = "Get" /\ expired'[p] = (age[p] = LeaseDuration)
      BY DEF Attempt, Goto, TypeOK
    <3>2. observed'[p] = observed[p] /\ leaseAge' = leaseAge
      BY DEF Attempt, leaseVars, recordVars
    <3>3. observed[p] => age[p] <= leaseAge
      BY DEF RecordInv
    <3>4. leaseAge \in 0..LeaseDuration
      BY DEF TypeOK
    <3>5. ASSUME expired'[p], observed'[p]
          PROVE  leaseAge' = LeaseDuration
      <4>1. age[p] = LeaseDuration /\ age[p] <= leaseAge
        BY <3>1, <3>2, <3>3, <3>5
      <4> QED BY <3>2, <3>4, <4>1, DurationFacts
    <3> QED BY <2>2, <3>1, <3>5
  <2> QED BY <2>1, <2>2
<1>3. PunctualLeaderHolds'
  BY DEF Attempt, PunctualLeaderHolds, Leads, leaseVars
<1> QED BY <1>1, <1>2, <1>3 DEF Kept

LEMMA GetLeaseKeeps ==
    ASSUME LeaseInv, NEW p \in Managers, GetLease(p)
    PROVE  Kept
<1> USE DEF LeaseInv
<1>1. CASE holder = Nobody /\ Goto(p, "Create") /\ UNCHANGED <<recordVars, seen>>
  BY <1>1 DEF GetLease, Goto, RecordInv, TakeoverInv, PunctualLeaderHolds,
              Leads, TypeOK, Kept, leaseVars, recordVars
<1>2. CASE /\ holder # Nobody
           /\ Observe(p)
           /\ IF believes'[p] \/ (expired[p] /\ observed[p])
              THEN Goto(p, "Update") /\ seen' = [seen EXCEPT ![p] = TRUE]
              ELSE Goto(p, "wait") /\ UNCHANGED seen
  <2>1. holder' = holder /\ leaseAge' = leaseAge /\ expired' = expired
        /\ leaseAge \in 0..LeaseDuration
    BY DEF GetLease, leaseVars, TypeOK
  <2>2. /\ believes'[p] = (holder = p)
        /\ age'[p] = IF observed[p] THEN age[p] ELSE 0
        /\ \A q \in Managers \ {p} : /\ observed'[q] = observed[q]
                                     /\ believes'[q] = believes[q]
                                     /\ age'[q] = age[q]
    BY <1>2 DEF Observe, TypeOK
  <2>3. RecordInv'
    <3>1. \A q \in Managers : step'[q] = "reply" => q # p /\ step[q] = "reply"
      BY <1>2 DEF Goto, TypeOK
    <3>2. ASSUME NEW q \in Managers, observed'[q]
          PROVE  holder' # Nobody /\ step'[q] # "reply"
                 /\ age'[q] <= leaseAge' /\ believes'[q] = (holder' = q)
      <4>1. CASE q # p
        BY <1>2, <2>1, <2>2, <3>1, <3>2, <4>1 DEF RecordInv
      <4>2. CASE q = p
        <5>1. age'[p] <= leaseAge
          BY <2>1, <2>2 DEF RecordInv
        <5> QED BY <1>2, <2>1, <2>2, <3>1, <4>2, <5>1
      <4> QED BY <4>1, <4>2
    <3> QED BY <3>2 DEF RecordInv
  <2>4. TakeoverInv'
    <3>1. ASSUME NEW q \in Managers, q # p
          PROVE  /\ step'[q] = "Get" /\ expired'[q] /\ observed'[q]
                        => leaseAge' = LeaseDuration
                 /\ step'[q] = "Update" /\ seen'[q]
                        => holder' = q \/ leaseAge' = LeaseDuration
      <4>1. step'[q] = step[q] /\ seen'[q] = seen[q]
        BY <1>2, <3>1 DEF Goto, TypeOK
      <4> QED BY <2>1, <2>2, <3>1, <4>1 DEF TakeoverInv
    <3>2. step'[p] # "Get"
      BY <1>2 DEF Goto, TypeOK
    <3>3. step'[p] = "Update" => holder = p \/ leaseAge = LeaseDuration
      BY <1>2, <2>2 DEF GetLease, Goto, TakeoverInv, TypeOK
    <3> QED BY <2>1, <3>1, <3>2, <3>3 DEF TakeoverInv
  <2>5. PunctualLeaderHolds'
    BY <2>1 DEF GetLease, PunctualLeaderHolds, Leads
  <2> QED BY <2>3, <2>4, <2>5 DEF Kept
<1> QED BY <1>1, <1>2 DEF GetLease

LEMMA ReplyKeeps ==
    ASSUME LeaseInv, NEW p \in Managers, Reply(p)
    PROVE  Kept
<1> USE DEF LeaseInv
<1>1. /\ ~observed[p] /\ step'[p] = "wait"
      /\ holder' = holder /\ leaseAge' = leaseAge
      /\ observed' = observed /\ expired' = expired /\ seen' = seen
      /\ \A q \in Managers \ {p} : /\ age'[q] = age[q] /\ step'[q] = step[q]
                                   /\ believes'[q] = believes[q]
  BY DEF Reply, Goto, RecordInv, TypeOK, leaseVars
<1>2. RecordInv'
  BY <1>1 DEF RecordInv
<1>3. TakeoverInv'
  BY <1>1 DEF TakeoverInv
<1>4. PunctualLeaderHolds'
  <2> SUFFICES ASSUME NEW q \in Managers, Leads(q)', q \notin late'
               PROVE  holder' = q
                      /\ leaseAge' + Deadline < clock'[q] + LeaseDuration
    BY DEF PunctualLeaderHolds
  <2>1. CASE q = p
    <3>1. holder = p /\ leaseAge + Deadline < clock'[p] + LeaseDuration
      BY <2>1 DEF Reply
    <3> QED BY <1>1, <2>1, <3>1
  <2>2. CASE q # p
    <3>1. Leads(q) /\ q \notin late /\ clock'[q] = clock[q]
      BY <2>2 DEF Reply, Leads, TypeOK
    <3> QED BY <1>1, <3>1 DEF PunctualLeaderHolds
  <2> QED BY <2>1, <2>2
<1> QED BY <1>2, <1>3, <1>4 DEF Kept

LEMMA FailKeeps ==
    ASSUME LeaseInv, NEW p \in Managers, Fail(p)
    PROVE  Kept
<1> USE DEF LeaseInv
<1>1. /\ step'[p] = "wait"
      /\ \A q \in Managers \ {p} : step'[q] = step[q]
  BY DEF Fail, Goto, TypeOK
<1>2. RecordInv' /\ TakeoverInv'
  BY <1>1 DEF Fail, RecordInv, TakeoverInv, leaseVars, recordVars
<1>3. PunctualLeaderHolds'
  BY DEF Fail, PunctualLeaderHolds, Leads, leaseVars
<1> QED BY <1>2, <1>3 DEF Kept

(* A process that goes down takes nothing from the others but the name     *)
(* in the lease.                                                           *)
LEMMA DownKeeps ==
    ASSUME LeaseInv, NEW p \in Managers, Down(p)
    PROVE  Kept
<1> USE DEF LeaseInv
<1>1. /\ ~observed'[p] /\ step'[p] = "wait" /\ state'[p] = "down"
      /\ leaseAge' = leaseAge /\ holder' # p
  BY ManagerAssumption DEF Down, Goto, TypeOK
<1>2. ASSUME NEW q \in Managers, q # p
      PROVE  /\ observed'[q] = observed[q] /\ age'[q] = age[q]
             /\ believes'[q] = believes[q] /\ step'[q] = step[q]
             /\ expired'[q] = expired[q] /\ seen'[q] = seen[q]
             /\ state'[q] = state[q] /\ clock'[q] = clock[q]
             /\ (q \in late' <=> q \in late)
             /\ (holder' = q <=> holder = q)
             /\ (holder' = Nobody <=> holder = Nobody)
  <2>1. (holder' = q <=> holder = q) /\ (holder' = Nobody <=> holder = Nobody)
    BY <1>2, ManagerAssumption DEF Down
  <2> QED BY <1>2, <2>1 DEF Down, Goto, TypeOK
<1>3. RecordInv'
  BY <1>1, <1>2 DEF RecordInv
<1>4. TakeoverInv'
  BY <1>1, <1>2 DEF TakeoverInv
<1>5. PunctualLeaderHolds'
  BY <1>1, <1>2 DEF PunctualLeaderHolds, Leads
<1> QED BY <1>3, <1>4, <1>5 DEF Kept

-----------------------------------------------------------------------------
(* The steps that write the lease: only a punctual leader itself can.      *)
LEMMA WriteKeeps ==
    ASSUME LeaseInv, NEW p \in Managers, Write(p),
           UNCHANGED <<state, expired, believes, age, clock, late>>,
           holder = Nobody \/ holder = p \/ leaseAge = LeaseDuration
    PROVE  Kept
<1> USE DEF LeaseInv
<1>1. RecordInv' /\ TakeoverInv'
  <2>1. \A q \in Managers : ~observed'[q] /\ ~seen'[q]
    BY DEF Write
  <2> QED BY <2>1 DEF RecordInv, TakeoverInv
<1>2. PunctualLeaderHolds'
  <2> SUFFICES ASSUME NEW q \in Managers, Leads(q)', q \notin late'
               PROVE  holder' = q
                      /\ leaseAge' + Deadline < clock'[q] + LeaseDuration
    BY DEF PunctualLeaderHolds
  <2>1. Leads(q) /\ q \notin late /\ clock'[q] = clock[q]
    BY DEF Leads
  <2>2. holder = q /\ leaseAge < LeaseDuration
    BY <2>1, PunctualIsYoung
  <2>3. q = p
    BY <2>2, ManagerAssumption, DurationFacts
  <2>4. leaseAge + Deadline < clock[q] + LeaseDuration
        /\ leaseAge \in 0..LeaseDuration /\ clock[q] \in 0..Deadline
    BY <2>1 DEF PunctualLeaderHolds, TypeOK
  <2>5. holder' = p /\ leaseAge' = 0
    BY DEF Write
  <2> QED BY <2>1, <2>3, <2>4, <2>5, DurationFacts
<1> QED BY <1>1, <1>2 DEF Kept

LEMMA RefuseKeeps ==
    ASSUME LeaseInv, NEW p \in Managers, Refuse(p),
           UNCHANGED <<state, expired, believes, age, clock, late>>
    PROVE  Kept
<1> USE DEF LeaseInv
<1>1. /\ step'[p] = "wait"
      /\ \A q \in Managers \ {p} : step'[q] = step[q]
  BY DEF Refuse, Goto, TypeOK
<1>2. RecordInv' /\ TakeoverInv'
  BY <1>1 DEF Refuse, RecordInv, TakeoverInv, leaseVars
<1>3. PunctualLeaderHolds'
  BY DEF Refuse, PunctualLeaderHolds, Leads, leaseVars
<1> QED BY <1>2, <1>3 DEF Kept

LEMMA CreateOrUpdateKeeps ==
    ASSUME LeaseInv, NEW p \in Managers, CreateLease(p) \/ UpdateLease(p)
    PROVE  Kept
<1>1. CASE CreateLease(p)
  BY <1>1, WriteKeeps, RefuseKeeps DEF CreateLease
<1>2. CASE UpdateLease(p)
  <2>1. CASE seen[p] /\ Write(p)
    <3>1. holder = p \/ leaseAge = LeaseDuration
      BY <1>2, <2>1 DEF UpdateLease, LeaseInv, TakeoverInv
    <3> QED BY <1>2, <2>1, <3>1, WriteKeeps DEF UpdateLease
  <2>2. CASE ~seen[p] /\ Refuse(p)
    BY <1>2, <2>2, RefuseKeeps DEF UpdateLease
  <2> QED BY <1>2, <2>1, <2>2 DEF UpdateLease
<1> QED BY <1>1, <1>2

-----------------------------------------------------------------------------
(* Time: the lease ages no faster than what managers know of it, and than  *)
(* the clock of whoever leads.                                             *)
LEMMA TickKeeps ==
    ASSUME LeaseInv, Tick
    PROVE  Kept
<1> USE DEF LeaseInv
<1>1. leaseAge \in 0..LeaseDuration
      /\ \A p \in Managers : /\ age[p] \in 0..LeaseDuration
                            /\ clock[p] \in 0..Deadline
  BY DEF TypeOK
<1>2. /\ holder # Nobody => leaseAge' = Older(leaseAge, LeaseDuration)
      /\ holder' = holder /\ observed' = observed /\ believes' = believes
      /\ step' = step /\ expired' = expired /\ seen' = seen
      /\ \A p \in Managers : observed[p] => age'[p] = Older(age[p], LeaseDuration)
  BY DEF Tick
<1>3. RecordInv'
  <2>1. ASSUME NEW p \in Managers, observed[p]
        PROVE  age'[p] <= leaseAge'
    <3>1. age[p] <= leaseAge /\ holder # Nobody
      BY <2>1 DEF RecordInv
    <3>2. Older(age[p], LeaseDuration) <= Older(leaseAge, LeaseDuration)
      BY <1>1, <3>1, DurationFacts DEF Older
    <3> QED BY <1>2, <2>1, <3>1, <3>2
  <2> QED BY <1>2, <2>1 DEF RecordInv
<1>4. TakeoverInv'
  <2>1. leaseAge = LeaseDuration => leaseAge' = LeaseDuration
    BY <1>1, DurationFacts DEF Tick, Older
  <2> QED BY <1>2, <2>1 DEF TakeoverInv
<1>5. PunctualLeaderHolds'
  <2> SUFFICES ASSUME NEW p \in Managers, Leads(p)', p \notin late'
               PROVE  holder' = p
                      /\ leaseAge' + Deadline < clock'[p] + LeaseDuration
    BY DEF PunctualLeaderHolds
  <2>1. Leads(p) /\ p \notin late /\ clock[p] # Deadline
        /\ clock'[p] = Older(clock[p], Deadline)
    BY DEF Tick, Leads
  <2>2. holder = p /\ leaseAge + Deadline < clock[p] + LeaseDuration
    BY <2>1 DEF PunctualLeaderHolds
  <2>3. clock'[p] = clock[p] + 1
    BY <1>1, <2>1, OlderType, DurationFacts
  <2>4. leaseAge' <= leaseAge + 1 /\ leaseAge' \in Nat
    <3>1. leaseAge' = Older(leaseAge, LeaseDuration)
      BY <1>2, <2>2, ManagerAssumption
    <3> QED BY <1>1, <3>1, DurationFacts DEF Older
  <2> QED BY <1>1, <1>2, <2>2, <2>3, <2>4, DurationFacts
<1> QED BY <1>3, <1>4, <1>5 DEF Kept

-----------------------------------------------------------------------------
LEMMA LeaseInit == Init => LeaseInv
<1> SUFFICES ASSUME Init PROVE LeaseInv
  OBVIOUS
<1>1. TypeOK
  BY ManagerAssumption, DurationFacts DEF Init, TypeOK
<1>2. RecordInv /\ TakeoverInv /\ PunctualLeaderHolds
  BY DEF Init, RecordInv, TakeoverInv, PunctualLeaderHolds, Leads
<1> QED BY <1>1, <1>2 DEF LeaseInv

LEMMA LeaseStep == LeaseInv /\ [Next]_vars => LeaseInv'
<1> SUFFICES ASSUME LeaseInv, [Next]_vars PROVE LeaseInv'
  OBVIOUS
<1>1. CASE Tick
  BY <1>1, TickType, TickKeeps DEF LeaseInv, Kept
<1>2. ASSUME NEW p \in Managers, Process(p) \/ Exit(p) \/ Fail(p)
      PROVE  LeaseInv'
  <2>1. TypeOK'
    BY <1>2, StepType DEF LeaseInv
  <2>2. Kept
    BY <1>2, StartKeeps, AttemptKeeps, GetLeaseKeeps, CreateOrUpdateKeeps,
       ReplyKeeps, FailKeeps, DownKeeps DEF Process, GiveUp, Exit
  <2> QED BY <2>1, <2>2 DEF LeaseInv, Kept
<1>3. CASE UNCHANGED vars
  BY <1>3 DEF vars, leaseVars, recordVars, LeaseInv, TypeOK, RecordInv,
              TakeoverInv, PunctualLeaderHolds, Leads
<1> QED BY <1>1, <1>2, <1>3 DEF Next

(* Lease, records and clocks fit together in every reachable state: the    *)
(* inductive invariant.  (leaderelection.go:317-380)                       *)
THEOREM LeaseInvariant == Spec => []LeaseInv
<1> QED BY LeaseInit, LeaseStep, PTL DEF Spec

(* Two managers that compete run their controllers at once only if one of  *)
(* them is late.  (main.go:83-85, 108)                                     *)
THEOREM OverlapNeedsLateness == Spec => []OverlapOnlyIfLate
<1>1. LeaseInv => OverlapOnlyIfLate
  BY PunctualIsYoung DEF OverlapOnlyIfLate
<1> QED BY <1>1, LeaseInvariant, PTL
=============================================================================
