------------------------------ MODULE Startup ------------------------------
(***************************************************************************)
(* How user-service, product-service and order-service start: they connect *)
(* with retries (pkg/database/connect.go), migrate the schema under one    *)
(* named lock of MySQL (pkg/database/migrate.go) and serve.  Time passes   *)
(* in units of MinDelay.  A process that ends is started again by Docker   *)
(* Compose or Kubernetes.                                                  *)
(***************************************************************************)
EXTENDS Naturals

CONSTANTS Services,
          NoOne,
          MaxWait, MaxDelay,   \* of ConnectConfig, in units of MinDelay
          LockWait,            \* how long GET_LOCK waits
          MaxFaults            \* bound on outages, lost connections and stops

ASSUME StartupAssumption ==
    /\ MaxWait \in Nat \ {0} /\ MaxDelay \in Nat \ {0} /\ LockWait \in Nat
    /\ MaxFaults \in Nat /\ NoOne \notin Services

VARIABLES up,       \* MySQL accepts connections
          holder,   \* whose connection holds the migration lock
          proc,     \* service -> where it is, and its timers
          faults

vars == <<up, holder, proc, faults>>

\* left: until the deadline of the retries; rest: of the current sleep or of
\* GET_LOCK; delay: the next sleep; lost: the connection of the lock broke.
Starting == [step |-> "connect", left |-> MaxWait, rest |-> 0, delay |-> 1, lost |-> FALSE]
Dead == [Starting EXCEPT !.step = "dead"]
At(s, step) == proc[s].step = step
To(s, p) == proc' = [proc EXCEPT ![s] = p]
Least(m, n) == IF m < n THEN m ELSE n

StartupInit ==
    /\ up \in BOOLEAN /\ holder = NoOne
    /\ proc = [s \in Services |-> Starting]
    /\ faults = 0

Enter(s, step) == To(s, [proc[s] EXCEPT !.step = step, !.rest = 0])

\* One turn of ConnectWithRetry; open() has failed when MySQL is down.
Connected(s) ==
    /\ At(s, "connect") /\ up
    /\ To(s, [proc[s] EXCEPT !.step = "lock", !.rest = LockWait])
    /\ UNCHANGED <<up, holder, faults>>

RetryLater(s) ==
    /\ At(s, "connect") /\ ~up /\ proc[s].left > 0
    /\ To(s, [proc[s] EXCEPT !.step = "sleep",
                             !.rest = Least(proc[s].delay, proc[s].left),
                             !.delay = Least(2 * @, MaxDelay)])
    /\ UNCHANGED <<up, holder, faults>>

GiveUp(s) ==
    /\ At(s, "connect") /\ ~up /\ proc[s].left = 0
    /\ To(s, Dead)
    /\ UNCHANGED <<up, holder, faults>>

Wake(s) ==
    /\ At(s, "sleep") /\ proc[s].rest = 0
    /\ Enter(s, "connect")
    /\ UNCHANGED <<up, holder, faults>>

\* GET_LOCK answers 1, or 0 when its wait is over.
GotLock(s) ==
    /\ At(s, "lock") /\ up /\ holder = NoOne
    /\ holder' = s
    /\ Enter(s, "migrate")
    /\ UNCHANGED <<up, faults>>

MigrateAnyway(s) == Enter(s, "migrate")
LockTimedOut(s) == To(s, Dead)

NoLock(s) ==
    /\ At(s, "lock") /\ proc[s].rest = 0 /\ holder # NoOne
    /\ LockTimedOut(s)
    /\ UNCHANGED <<up, holder, faults>>

\* RELEASE_LOCK gives back only a lock of one's own connection.
ReleaseNothing(s) == UNCHANGED holder
Release(s) == holder' = IF holder = s THEN NoOne ELSE holder

\* AutoMigrate ends; a service whose migration failed exits.
Migrated(s) ==
    /\ At(s, "migrate") /\ up
    /\ Release(s)
    /\ To(s, [Starting EXCEPT !.step = "serve"])
    /\ UNCHANGED <<up, faults>>

MigrateFails(s) ==
    /\ At(s, "migrate") /\ (~up \/ proc[s].lost)
    /\ Release(s)
    /\ To(s, Dead)
    /\ UNCHANGED <<up, faults>>

Restart(s) == At(s, "dead") /\ To(s, Starting) /\ UNCHANGED <<up, holder, faults>>

\* The connection that holds the lock breaks, alone or with the server; MySQL
\* frees the lock.  The pool opens another one, and AutoMigrate goes on with it;
\* GET_LOCK fails.
Broken(p) == CASE p.step = "migrate" -> [p EXCEPT !.lost = TRUE]
               [] p.step = "lock" -> Dead
               [] OTHER -> p

LoseConnection(s) ==
    /\ faults < MaxFaults /\ faults' = faults + 1
    /\ holder = s /\ holder' = NoOne
    /\ To(s, Broken(proc[s]))
    /\ UNCHANGED up

Outage ==
    /\ faults < MaxFaults /\ faults' = faults + 1
    /\ up /\ up' = FALSE /\ holder' = NoOne
    /\ proc' = [s \in Services |-> Broken(proc[s])]

Recover == ~up /\ up' = TRUE /\ UNCHANGED <<holder, proc, faults>>

\* A signal or a kill: a sleep is cut short, and a session's lock goes with it.
Stop(s) ==
    /\ faults < MaxFaults /\ faults' = faults + 1
    /\ ~At(s, "dead") /\ To(s, Dead)
    /\ Release(s)
    /\ UNCHANGED up

\* A unit of time.
Less(n) == IF n > 0 THEN n - 1 ELSE 0
Timed(p) == CASE p.step = "sleep" -> [p EXCEPT !.left = Less(@), !.rest = Less(@)]
              [] p.step = "lock" -> [p EXCEPT !.rest = Less(@)]
              [] OTHER -> p

Tick ==
    /\ \A s \in Services : ~(At(s, "sleep") /\ proc[s].rest = 0)
    /\ proc' = [s \in Services |-> Timed(proc[s])]
    /\ UNCHANGED <<up, holder, faults>>

Advance(s) == \/ Connected(s) \/ RetryLater(s) \/ GiveUp(s) \/ Wake(s)
              \/ GotLock(s) \/ NoLock(s) \/ Migrated(s) \/ MigrateFails(s) \/ Restart(s)

StartupNext ==
    \/ \E s \in Services : Advance(s) \/ LoseConnection(s) \/ Stop(s)
    \/ Outage \/ Recover \/ Tick

StartupSpec == StartupInit /\ [][StartupNext]_vars

\* Processes run, containers are restarted, MySQL comes back, time passes.
StartupFairSpec ==
    /\ StartupSpec
    /\ \A s \in Services : WF_vars(Advance(s))
    /\ WF_vars(Recover) /\ WF_vars(Tick)

-----------------------------------------------------------------------------
Migrators == {s \in Services : At(s, "migrate")}

\* Two services migrate at the same time only when the connection of the first
\* broke: the lock excludes, its wait never ends in a migration, and a lock is
\* never given back by someone else (migrate.go:15-33).
OverlapNeedsLoss ==
    \A s, t \in Migrators : s # t => proc[s].lost \/ proc[t].lost

\* Whatever fails for a while, every service ends up serving: no lock is left
\* behind and no retry loop hangs (ConnectWithRetry, Migrate, the restart policy).
EveryoneServes == \A s \in Services : <>[]At(s, "serve")
=============================================================================
