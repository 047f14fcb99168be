------------------------------- MODULE Manager -------------------------------
(***************************************************************************)
(* The life of the operator's processes: main loads the settings, starts   *)
(* the manager and, with --leader-elect, competes for the lease that says  *)
(* whose controller runs.  A lease is renewed by writing to it, and every  *)
(* manager measures its age from when it saw it change, on its own clock.  *)
(*                                                                         *)
(* Nothing fences a leader that lost the lease.  The question is therefore *)
(* when two managers that take part can run their controllers at once.     *)
(***************************************************************************)
EXTENDS Naturals

CONSTANTS
    Managers,       \* the processes, one for each replica
    Electing,       \* those started with --leader-elect
    Required,       \* the environment variables Settings.Load looks up
    EnvOf,          \* the environment variables each process has
    LeaseDuration,  \* 15 s
    RenewDeadline,  \* 10 s
    RetryPeriod,    \* 2 s
    MaxFaults,      \* bound on the requests that fail
    MaxExits,       \* bound on the processes that are stopped or die
    Nobody,         \* there is no lease yet
    Gone            \* the lease names a process that does not exist any more

(* What NewLeaderElector insists on, for times in units of the clock.      *)
ASSUME ManagerAssumption ==
    /\ Electing \subseteq Managers
    /\ LeaseDuration \in Nat /\ RenewDeadline \in Nat /\ RetryPeriod \in Nat
    /\ LeaseDuration > RenewDeadline /\ RenewDeadline > RetryPeriod
    /\ RetryPeriod > 0
    /\ MaxFaults \in Nat /\ MaxExits \in Nat
    /\ Nobody \notin Managers /\ Gone \notin Managers /\ Nobody # Gone

VARIABLES
    holder,         \* whose identity the lease has
    leaseAge,       \* time since the lease was written
    state,          \* what each process is
    step,           \* the request of its tryAcquireOrRenew under way
    expired,        \* had the lease it knew of expired when that began?
    observed,       \* is the record it knows that of the server?
    believes,       \* does the record it knows name itself?
    seen,           \* is the resourceVersion of its Get the server's?
    age,            \* time since it saw the record change
    clock,          \* time since its last success, see Reply, if it leads
    late,           \* history: leaders whose knowledge is too old, see Reply
    faults, exits   \* failing requests and exits still to come

leaseVars  == <<holder, leaseAge>>
recordVars == <<observed, believes, age>>
vars == <<leaseVars, state, step, expired, recordVars, seen, clock, late,
          faults, exits>>

-----------------------------------------------------------------------------
(* Its controllers run because it was elected.                             *)
Leads(p) == p \in Electing /\ state[p] = "active"

(* A leader's round of renewals starts RetryPeriod after its last success, *)
(* the first one when it is elected, and ends RenewDeadline later.         *)
Deadline == RetryPeriod + RenewDeadline

TypeOK ==
    /\ holder \in Managers \cup {Nobody, Gone}
    /\ leaseAge \in 0..LeaseDuration
    /\ state \in [Managers -> {"down", "standby", "active"}]
    /\ step \in [Managers -> {"wait", "Get", "Create", "Update", "reply"}]
    /\ expired \in [Managers -> BOOLEAN]
    /\ observed \in [Managers -> BOOLEAN]
    /\ believes \in [Managers -> BOOLEAN]
    /\ seen \in [Managers -> BOOLEAN]
    /\ age \in [Managers -> 0..LeaseDuration]
    /\ clock \in [Managers -> 0..Deadline]
    /\ late \subseteq Managers
    /\ faults \in 0..MaxFaults /\ exits \in 0..MaxExits

Init ==
    /\ holder = Nobody /\ leaseAge = 0
    /\ state = [p \in Managers |-> "down"]
    /\ step = [p \in Managers |-> "wait"]
    /\ expired = [p \in Managers |-> FALSE]
    /\ observed = [p \in Managers |-> FALSE]
    /\ believes = [p \in Managers |-> FALSE]
    /\ seen = [p \in Managers |-> FALSE]
    /\ age = [p \in Managers |-> 0]
    /\ clock = [p \in Managers |-> 0]
    /\ late = {}
    /\ faults = MaxFaults /\ exits = MaxExits

Goto(p, s) == step' = [step EXCEPT ![p] = s]

-----------------------------------------------------------------------------
(* Settings.Load looks all variables up before it fails, and takes one     *)
(* that is set and empty.                                                  *)
Load(env) == Required \subseteq env

(* main up to mgr.Start.  A process whose settings are incomplete exits    *)
(* before that; not taking part in the election counts as being elected.   *)
Start(p) ==
    /\ state[p] = "down"
    /\ Load(EnvOf[p])
    /\ state' = [state EXCEPT ![p] = IF p \in Electing THEN "standby"
                                                       ELSE "active"]
    /\ UNCHANGED <<leaseVars, step, expired, recordVars, seen, clock, late,
                   faults, exits>>

(* The process is gone, and what it knew: a new one has a new identity.    *)
(* The lease stays as it is.                                               *)
Down(p) ==
    /\ state' = [state EXCEPT ![p] = "down"]
    /\ Goto(p, "wait")
    /\ holder' = IF holder = p THEN Gone ELSE holder
    /\ expired' = [expired EXCEPT ![p] = FALSE]
    /\ observed' = [observed EXCEPT ![p] = FALSE]
    /\ believes' = [believes EXCEPT ![p] = FALSE]
    /\ seen' = [seen EXCEPT ![p] = FALSE]
    /\ age' = [age EXCEPT ![p] = 0]
    /\ clock' = [clock EXCEPT ![p] = 0]
    /\ late' = late \ {p}
    /\ UNCHANGED <<leaseAge, faults>>

(* A crash, or a signal: the manager stops its controllers at once and     *)
(* does not release the lease.                                             *)
Exit(p) ==
    /\ state[p] # "down"
    /\ exits > 0 /\ exits' = exits - 1
    /\ Down(p)

-----------------------------------------------------------------------------
(* tryAcquireOrRenew, called again and again by acquire while on standby,  *)
(* and by renew once in the lead.  The time of the call is taken first.    *)
Attempt(p) ==
    /\ p \in Electing /\ state[p] # "down" /\ step[p] = "wait"
    /\ state[p] = "active" => clock[p] >= RetryPeriod
    /\ expired' = [expired EXCEPT ![p] = age[p] = LeaseDuration]
    /\ Goto(p, "Get")
    /\ UNCHANGED <<leaseVars, state, recordVars, seen, clock, late, faults,
                   exits>>

(* Mutant of Observe: the age is that of the first record ever seen.       *)
ObserveKeepingAge(p) ==
    /\ observed' = [observed EXCEPT ![p] = TRUE]
    /\ believes' = [believes EXCEPT ![p] = holder = p]
    /\ UNCHANGED age

(* Mutant of Observe: every Get starts a new age.                          *)
ObserveAfresh(p) ==
    /\ observed' = [observed EXCEPT ![p] = TRUE]
    /\ believes' = [believes EXCEPT ![p] = holder = p]
    /\ age' = [age EXCEPT ![p] = 0]

(* A record that is not the one known starts a new age.                    *)
Observe(p) ==
    /\ observed' = [observed EXCEPT ![p] = TRUE]
    /\ believes' = [believes EXCEPT ![p] = holder = p]
    /\ age' = [age EXCEPT ![p] = IF observed[p] THEN age[p] ELSE 0]

(* The server's answer to the Get, and what is decided with it.            *)
GetLease(p) ==
    /\ step[p] = "Get"
    /\ \/ /\ holder = Nobody
          /\ Goto(p, "Create")
          /\ UNCHANGED <<recordVars, seen>>
       \/ /\ holder # Nobody
          /\ Observe(p)
          /\ IF believes'[p] \/ (expired[p] /\ observed[p])
             THEN Goto(p, "Update") /\ seen' = [seen EXCEPT ![p] = TRUE]
             ELSE Goto(p, "wait") /\ UNCHANGED seen
    /\ UNCHANGED <<leaseVars, state, expired, clock, late, faults, exits>>

(* The server writes the lease: what the others know of it is old.         *)
Write(p) ==
    /\ holder' = p /\ leaseAge' = 0
    /\ observed' = [q \in Managers |-> FALSE]
    /\ seen' = [q \in Managers |-> FALSE]
    /\ Goto(p, "reply")

Refuse(p) == Goto(p, "wait") /\ UNCHANGED <<leaseVars, observed, seen>>

CreateLease(p) ==
    /\ step[p] = "Create"
    /\ \/ holder = Nobody /\ Write(p)
       \/ holder # Nobody /\ Refuse(p)
    /\ UNCHANGED <<state, expired, believes, age, clock, late, faults, exits>>

(* Mutant of UpdateLease: the resourceVersion is not compared.             *)
UpdateLeaseBlindly(p) ==
    /\ step[p] = "Update"
    /\ Write(p)
    /\ UNCHANGED <<state, expired, believes, age, clock, late, faults, exits>>

UpdateLease(p) ==
    /\ step[p] = "Update"
    /\ \/ seen[p] /\ Write(p)
       \/ ~seen[p] /\ Refuse(p)
    /\ UNCHANGED <<state, expired, believes, age, clock, late, faults, exits>>

(* The answer to the write arrives: the manager leads, or goes on leading. *)
(* A new leader's first round of renewals has begun with it, so its clock  *)
(* starts where that of the others does when a round begins.  It is late   *)
(* if the lease was written so long ago that the manager, which counts     *)
(* from now, will give up after the lease has expired for others.          *)
Reply(p) ==
    /\ step[p] = "reply"
    /\ Goto(p, "wait")
    /\ believes' = [believes EXCEPT ![p] = TRUE]
    /\ age' = [age EXCEPT ![p] = 0]
    /\ state' = [state EXCEPT ![p] = "active"]
    /\ clock' = [clock EXCEPT ![p] = IF Leads(p) THEN 0 ELSE RetryPeriod]
    /\ late' = IF holder = p /\ leaseAge + Deadline < clock'[p] + LeaseDuration
               THEN late \ {p}
               ELSE late \cup {p}
    /\ UNCHANGED <<leaseVars, expired, observed, seen, faults, exits>>

(* A request fails, or its answer is lost.                                 *)
Fail(p) ==
    /\ step[p] # "wait"
    /\ faults > 0 /\ faults' = faults - 1
    /\ Goto(p, "wait")
    /\ UNCHANGED <<leaseVars, state, expired, recordVars, seen, clock, late,
                   exits>>

(* The round ends without a success: "leader election lost", and the       *)
(* process exits without waiting for its controllers.                      *)
GiveUp(p) ==
    /\ Leads(p)
    /\ clock[p] = Deadline
    /\ Down(p)
    /\ UNCHANGED exits

-----------------------------------------------------------------------------
(* Time passes, for the ages as far as anyone looks.  A process that does  *)
(* not run for a while may find itself past its deadline: it is late.      *)
Older(t, limit) == IF t < limit THEN t + 1 ELSE t

Tick ==
    /\ leaseAge' = IF holder = Nobody THEN leaseAge
                                      ELSE Older(leaseAge, LeaseDuration)
    /\ age' = [p \in Managers |->
                IF observed[p] THEN Older(age[p], LeaseDuration) ELSE age[p]]
    /\ clock' = [p \in Managers |->
                IF Leads(p) THEN Older(clock[p], Deadline) ELSE clock[p]]
    /\ late' = late \cup {p \in Managers : Leads(p) /\ clock[p] = Deadline}
    /\ UNCHANGED <<holder, state, step, expired, observed, believes, seen,
                   faults, exits>>

Process(p) ==
    \/ Start(p) \/ Attempt(p) \/ GetLease(p) \/ CreateLease(p)
    \/ UpdateLease(p) \/ Reply(p) \/ GiveUp(p)

Next == Tick \/ \E p \in Managers : Process(p) \/ Exit(p) \/ Fail(p)

Spec == Init /\ [][Next]_vars

(* Clocks run, a container that exited is started again, and a process     *)
(* gets on with its loop; its deadline is an event of its own.             *)
FairSpec ==
    /\ Spec
    /\ WF_vars(Tick)
    /\ \A p \in Managers : WF_vars(Process(p)) /\ WF_vars(GiveUp(p))

-----------------------------------------------------------------------------
(* Two managers that compete for the lease run their controllers at the    *)
(* same time only if one of them acts on an answer that came too late, or  *)
(* did not run when its deadline passed.  (main.go:83-85, 108)             *)
OverlapOnlyIfLate ==
    \A p, q \in Managers :
        p # q /\ Leads(p) /\ Leads(q) => p \in late \/ q \in late

(* Why: the lease of a leader that is not late is its own, and too young   *)
(* to have expired for anyone.                                             *)
PunctualLeaderHolds ==
    \A p \in Managers : Leads(p) /\ p \notin late =>
        holder = p /\ leaseAge + Deadline < clock[p] + LeaseDuration

(* A record known to be the server's is not older than the lease, and      *)
(* names who the lease names.                                              *)
RecordInv ==
    \A p \in Managers : observed[p] =>
        /\ holder # Nobody /\ step[p] # "reply"
        /\ age[p] <= leaseAge
        /\ believes[p] = (holder = p)

(* Who goes for the lease of another one has seen it expire.               *)
TakeoverInv ==
    \A p \in Managers :
        /\ step[p] = "Get" /\ expired[p] /\ observed[p]
            => leaseAge = LeaseDuration
        /\ step[p] = "Update" /\ seen[p]
            => holder = p \/ leaseAge = LeaseDuration

(* Who leads after a crash, an exit or a lost lease: as long as processes  *)
(* are started again, sooner or later someone does.  (main.go:103-115)     *)
SomeoneLeads == []<>(\E p \in Managers : Leads(p))

LeaseInv ==
    TypeOK /\ RecordInv /\ TakeoverInv /\ PunctualLeaderHolds
=============================================================================
