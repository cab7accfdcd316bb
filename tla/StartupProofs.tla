--------------------------- MODULE StartupProofs ----------------------------
(***************************************************************************)
(* The migration lock: for any number of services, whatever connections    *)
(* break and whoever is stopped, two of them migrate at the same time only *)
(* when the connection of one of them broke while it held the lock.        *)
(***************************************************************************)
EXTENDS Startup, TLAPS

Steps == {"connect", "sleep", "lock", "migrate", "serve", "dead"}

Proc == [step : Steps, left : Nat, rest : Nat, delay : Nat, lost : BOOLEAN]

StartupTypeOK ==
  /\ up \in BOOLEAN
  /\ holder \in Services \cup {NoOne}
  /\ proc \in [Services -> Proc]
  /\ faults \in 0..MaxFaults

\* A service migrates on a connection that holds the lock, until that connection
\* breaks: the step from GET_LOCK to RELEASE_LOCK is covered.
MigratorHolds == \A s \in Services : At(s, "migrate") /\ ~proc[s].lost => holder = s

StartupInv == StartupTypeOK /\ MigratorHolds
-----------------------------------------------------------------------------
(* What the steps do to the record of a service *)

LEMMA FreshRecords ==
  /\ Starting \in Proc /\ Dead \in Proc /\ [Starting EXCEPT !.step = "serve"] \in Proc
  /\ Starting.step = "connect" /\ Dead.step = "dead"
  /\ [Starting EXCEPT !.step = "serve"].step = "serve"
BY StartupAssumption DEF Starting, Dead, Proc, Steps

\* A connection that breaks is forgotten by everyone but the service that migrates on.
LEMMA BrokenRecord ==
  ASSUME NEW p \in Proc
  PROVE  /\ Broken(p) \in Proc
         /\ Broken(p).step = "migrate" => Broken(p).lost
<1>1. CASE p.step = "migrate"
  BY <1>1 DEF Broken, Proc
<1>2. CASE p.step = "lock"
  BY <1>2, FreshRecords DEF Broken
<1>3. CASE p.step \notin {"migrate", "lock"}
  BY <1>3 DEF Broken
<1> QED BY <1>1, <1>2, <1>3

\* The passing of time moves timers only.
LEMMA TimedRecord ==
  ASSUME NEW p \in Proc
  PROVE  Timed(p) \in Proc /\ Timed(p).step = p.step /\ Timed(p).lost = p.lost
<1>1. \A n \in Nat : Less(n) \in Nat
  BY DEF Less
<1>2. CASE p.step = "sleep"
  BY <1>1, <1>2 DEF Timed, Proc
<1>3. CASE p.step = "lock"
  BY <1>1, <1>3 DEF Timed, Proc
<1>4. CASE p.step \notin {"sleep", "lock"}
  BY <1>4 DEF Timed
<1> QED BY <1>2, <1>3, <1>4

\* A service that moves to a step other than "migrate" has no claim to the lock, and its
\* leaving takes the lock from nobody else.
LEMMA MoveKeepsInv ==
  ASSUME StartupInv, NEW s \in Services, NEW p \in Proc, To(s, p),
         p.step = "migrate" => p.lost \/ holder' = s,
         holder' \in Services \cup {NoOne},
         \A t \in Services \ {s} : holder = t => holder' = t,
         up' \in BOOLEAN, faults' \in 0..MaxFaults
  PROVE  StartupInv'
<1>1. proc' = [proc EXCEPT ![s] = p] /\ proc \in [Services -> Proc]
  BY DEF To, StartupInv, StartupTypeOK
<1>2. StartupTypeOK'
  BY <1>1 DEF StartupTypeOK
<1>3. MigratorHolds'
  <2> SUFFICES ASSUME NEW t \in Services, proc'[t].step = "migrate", ~proc'[t].lost
               PROVE  holder' = t
    BY DEF MigratorHolds, At
  <2>1. CASE t = s
    BY <1>1, <2>1
  <2>2. CASE t # s
    <3>1. proc'[t] = proc[t]
      BY <1>1, <2>2
    <3>2. holder = t
      BY <3>1 DEF StartupInv, MigratorHolds, At
    <3> QED BY <2>2, <3>2
  <2> QED BY <2>1, <2>2
<1> QED BY <1>2, <1>3 DEF StartupInv
-----------------------------------------------------------------------------
(* The steps *)

\* Connecting, sleeping and restarting: nobody's lock is touched.
LEMMA UnlockedStep ==
  ASSUME StartupInv, NEW s \in Services,
         \/ Connected(s) \/ RetryLater(s) \/ GiveUp(s) \/ Wake(s) \/ NoLock(s) \/ Restart(s)
  PROVE  StartupInv'
<1>1. proc[s] \in Proc /\ up \in BOOLEAN /\ faults \in 0..MaxFaults
      /\ holder \in Services \cup {NoOne}
  BY DEF StartupInv, StartupTypeOK
<1>2. UNCHANGED <<up, holder, faults>>
  BY DEF Connected, RetryLater, GiveUp, Wake, NoLock, Restart
<1>3. PICK p \in Proc : To(s, p) /\ p.step # "migrate"
  <2>1. CASE Connected(s)
    <3>1. [proc[s] EXCEPT !.step = "lock", !.rest = LockWait] \in Proc
      BY <1>1, StartupAssumption DEF Proc, Steps
    <3>2. [proc[s] EXCEPT !.step = "lock", !.rest = LockWait].step = "lock"
      BY <1>1 DEF Proc
    <3> QED BY <2>1, <3>1, <3>2 DEF Connected
  <2>2. CASE RetryLater(s)
    <3> DEFINE q == [proc[s] EXCEPT !.step = "sleep",
                                    !.rest = Least(proc[s].delay, proc[s].left),
                                    !.delay = Least(2 * @, MaxDelay)]
    <3>1. \A m, n \in Nat : Least(m, n) \in Nat
      BY DEF Least
    <3>2. /\ Least(proc[s].delay, proc[s].left) \in Nat
          /\ Least(2 * proc[s].delay, MaxDelay) \in Nat
      <4>1. /\ proc[s].delay \in Nat /\ proc[s].left \in Nat
            /\ 2 * proc[s].delay \in Nat /\ MaxDelay \in Nat
        BY <1>1, StartupAssumption DEF Proc
      <4> QED BY <3>1, <4>1, Zenon
    <3>3. q \in Proc /\ q.step = "sleep"
      BY <1>1, <3>2 DEF Proc, Steps
    <3> QED BY <2>2, <3>3 DEF RetryLater
  <2>3. CASE GiveUp(s) \/ NoLock(s) \/ Restart(s)
    BY <2>3, FreshRecords DEF GiveUp, NoLock, LockTimedOut, Restart
  <2>4. CASE Wake(s)
    <3>1. /\ [proc[s] EXCEPT !.step = "connect", !.rest = 0] \in Proc
          /\ [proc[s] EXCEPT !.step = "connect", !.rest = 0].step = "connect"
      BY <1>1 DEF Proc, Steps
    <3> QED BY <2>4, <3>1 DEF Wake, Enter
  <2> QED BY <2>1, <2>2, <2>3, <2>4
<1> QED BY <1>1, <1>2, <1>3, MoveKeepsInv

\* Only a lock that nobody holds is taken.
LEMMA GotLockStep ==
  ASSUME StartupInv, NEW s \in Services, GotLock(s)
  PROVE  StartupInv'
<1>1. proc[s] \in Proc /\ up \in BOOLEAN /\ faults \in 0..MaxFaults
  BY DEF StartupInv, StartupTypeOK
<1>2. [proc[s] EXCEPT !.step = "migrate", !.rest = 0] \in Proc
  BY <1>1 DEF Proc, Steps
<1>3. holder = NoOne /\ holder' = s /\ UNCHANGED <<up, faults>>
  BY DEF GotLock
<1>4. To(s, [proc[s] EXCEPT !.step = "migrate", !.rest = 0])
  BY DEF GotLock, Enter
<1> QED BY <1>1, <1>2, <1>3, <1>4, StartupAssumption, MoveKeepsInv

\* Whoever ends gives back no lock but his own.
LEMMA ReleaseStep ==
  ASSUME StartupInv, NEW s \in Services, Migrated(s) \/ MigrateFails(s) \/ Stop(s)
  PROVE  StartupInv'
<1>1. /\ up \in BOOLEAN /\ faults \in 0..MaxFaults /\ holder \in Services \cup {NoOne}
      /\ MaxFaults \in Nat
  BY StartupAssumption DEF StartupInv, StartupTypeOK
<1>2. up' \in BOOLEAN /\ faults' \in 0..MaxFaults
  BY <1>1 DEF Migrated, MigrateFails, Stop
<1>3. holder' = IF holder = s THEN NoOne ELSE holder
  BY DEF Migrated, MigrateFails, Stop, Release
<1>4. PICK p \in Proc : To(s, p) /\ p.step # "migrate"
  BY FreshRecords DEF Migrated, MigrateFails, Stop
<1> QED BY <1>1, <1>2, <1>3, <1>4, MoveKeepsInv

\* The connection that holds the lock breaks.
LEMMA LoseConnectionStep ==
  ASSUME StartupInv, NEW s \in Services, LoseConnection(s)
  PROVE  StartupInv'
<1>1. /\ proc[s] \in Proc /\ up \in BOOLEAN /\ faults \in 0..MaxFaults /\ MaxFaults \in Nat
  BY StartupAssumption DEF StartupInv, StartupTypeOK
<1>2. /\ up' = up /\ faults < MaxFaults /\ faults' = faults + 1
      /\ holder = s /\ holder' = NoOne /\ To(s, Broken(proc[s]))
  BY DEF LoseConnection
<1> QED BY <1>1, <1>2, BrokenRecord, MoveKeepsInv

\* The server goes down, and every connection with it.
LEMMA OutageStep ==
  ASSUME StartupInv, Outage
  PROVE  StartupInv'
<1>1. \A s \in Services : proc[s] \in Proc /\ proc'[s] = Broken(proc[s])
  BY DEF StartupInv, StartupTypeOK, Outage
<1>2. StartupTypeOK'
  <2>1. proc' = [s \in Services |-> Broken(proc[s])]
    BY DEF Outage
  <2>2. proc' \in [Services -> Proc]
    BY <1>1, <2>1, BrokenRecord
  <2>3. holder' = NoOne /\ faults' \in 0..MaxFaults
    BY StartupAssumption DEF StartupInv, StartupTypeOK, Outage
  <2>4. up' \in BOOLEAN
    BY Zenon DEF Outage
  <2> QED BY <2>2, <2>3, <2>4 DEF StartupTypeOK
<1>3. MigratorHolds'
  BY <1>1, BrokenRecord DEF MigratorHolds, At
<1> QED BY <1>2, <1>3 DEF StartupInv

\* Time passes.
LEMMA TickStep ==
  ASSUME StartupInv, Tick
  PROVE  StartupInv'
<1>1. \A s \in Services : proc[s] \in Proc /\ proc'[s] = Timed(proc[s])
  BY DEF StartupInv, StartupTypeOK, Tick
<1>2. StartupTypeOK'
  BY <1>1, TimedRecord DEF StartupInv, StartupTypeOK, Tick
<1>3. MigratorHolds'
  BY <1>1, TimedRecord DEF StartupInv, MigratorHolds, At, Tick
<1> QED BY <1>2, <1>3 DEF StartupInv
-----------------------------------------------------------------------------
(* What it is for *)

LEMMA StartupHolds == StartupSpec => []StartupInv
<1>1. ASSUME StartupInit PROVE StartupInv
  <2>1. StartupTypeOK
    BY <1>1, FreshRecords, StartupAssumption DEF StartupInit, StartupTypeOK
  <2>2. MigratorHolds
    BY <1>1, FreshRecords DEF StartupInit, MigratorHolds, At
  <2> QED BY <2>1, <2>2 DEF StartupInv
<1>2. ASSUME StartupInv, [StartupNext]_vars PROVE StartupInv'
  <2>1. ASSUME NEW s \in Services, Advance(s) \/ LoseConnection(s) \/ Stop(s)
        PROVE  StartupInv'
    BY <1>2, <2>1, UnlockedStep, GotLockStep, ReleaseStep, LoseConnectionStep DEF Advance
  <2>2. CASE Recover
    BY <1>2, <2>2 DEF Recover, StartupInv, StartupTypeOK, MigratorHolds, At
  <2>3. CASE UNCHANGED vars
    BY <1>2, <2>3 DEF vars, StartupInv, StartupTypeOK, MigratorHolds, At
  <2> QED BY <1>2, <2>1, <2>2, <2>3, OutageStep, TickStep DEF StartupNext
<1> QED BY <1>1, <1>2, PTL DEF StartupSpec

\* In every reachable state each variable has its type; the timers never go negative.
THEOREM StartupTypesHold == StartupSpec => []StartupTypeOK
<1>1. StartupInv => StartupTypeOK
  BY DEF StartupInv
<1> QED BY <1>1, StartupHolds, PTL

\* In every reachable state two services migrate together only when the connection of
\* one of them broke (Migrate: GET_LOCK, AutoMigrate and RELEASE_LOCK on one session).
THEOREM MigrationsExclude == StartupSpec => []OverlapNeedsLoss
<1>1. StartupInv => OverlapNeedsLoss
  BY DEF StartupInv, MigratorHolds, OverlapNeedsLoss, Migrators
<1> QED BY <1>1, StartupHolds, PTL
=============================================================================
