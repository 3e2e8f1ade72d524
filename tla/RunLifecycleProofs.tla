------------------------- MODULE RunLifecycleProofs -------------------------
(***************************************************************************)
(* Theorems about RunLifecycle, for any numbers of runs, series, ranges,   *)
(* workers, clients and exits.  The first part needs no assumption on      *)
(* leases; the second one holds when leases outlive every silence of a     *)
(* live worker.                                                            *)
(***************************************************************************)
EXTENDS RunLifecycle, TLAPS

\* The steps of _execute_scope after the scope has been loaded.
ScopeStep(w) ==
    \/ LockScope(w)
    \/ StartScope(w) \/ StartRefused(w) \/ SkipScope(w) \/ RejectScope(w)
    \/ FetchEnds(w) \/ ProcessFails(w) \/ CompleteScope(w) \/ FailScope(w)

InScope == {"loaded", "free", "conflict", "fetching", "processing", "failing"}

\* A command that commits a run of some trigger.
NewRun(r, t, d) ==
    /\ AddRun(r, t, d)
    /\ \/ t # "manual" /\ UNCHANGED asked
       \/ t = "manual" /\ \E c \in Clients : asked[c] = d /\ asked' = [asked EXCEPT ![c] = NoRange]

\* A worker executes a run exactly between claiming and leaving it, and holds
\* rows for recovery only while it recovers.
Control ==
    \A w \in Workers :
        /\ pc[w] \in Executing <=> claimed[w] # 0
        /\ pc[w] # "recovering" => locked[w] = {} /\ toFail[w] = {}

Base == TypeOK /\ Control

LEMMA DeriveIsTerminal ==
    ASSUME NEW st
    PROVE  DeriveStatus(st) \in TerminalRun
BY DEF DeriveStatus, TerminalRun

LEMMA InitBase == Init => Base
<1> SUFFICES ASSUME Init PROVE Base
  OBVIOUS
<1>1. (CHOOSE d \in Ranges : TRUE) \in Ranges
  BY LifecycleAssumption
<1>2. (CHOOSE s \in Series : TRUE) \in Series
  BY LifecycleAssumption
<1>3. TypeOK
  BY <1>1, <1>2, LifecycleAssumption DEF Init, TypeOK, ScopeStatus, ActiveScope
<1>4. Control
  BY DEF Init, Control, Executing
<1> QED
  BY <1>3, <1>4 DEF Base

\* What a scope step may change: where its worker is, and the status of the
\* scope it executes, of the run it claimed.
LEMMA ScopeStepFacts ==
    ASSUME Base, NEW w \in Workers, ScopeStep(w)
    PROVE  /\ UNCHANGED <<runStatus, trigger, range, leaseExpired, asked, claimed, todo,
                          scope, view, locked, toFail, exits>>
           /\ pc[w] \in InScope
           /\ claimed[w] \in Runs
           /\ pc' \in [Workers -> {"down", "recovering", "polling"} \cup Executing]
           /\ pc'[w] \in (InScope \ {"loaded"}) \cup {"beating"}
           /\ \A v \in Workers \ {w} : pc'[v] = pc[v]
           /\ \A r \in Runs, s \in Series :
                r # claimed[w] \/ s # scope[w] => scopeStatus'[r][s] = scopeStatus[r][s]
           /\ scopeStatus'[claimed[w]][scope[w]] \in
                {scopeStatus[claimed[w]][scope[w]],
                 "running", "succeeded", "failed", "skipped_conflict"}
           /\ scopeStatus' \in [Runs -> [Series -> ScopeStatus]]
<1> USE DEF Base, TypeOK
<1>1. pc[w] \in InScope
  BY DEF ScopeStep, LockScope, StartScope, StartRefused, SkipScope, RejectScope, FetchEnds,
         ProcessFails, CompleteScope, FailScope, InScope
<1>2. claimed[w] \in Runs
  BY <1>1 DEF Control, Executing, InScope
<1>3. PICK p \in (InScope \ {"loaded"}) \cup {"beating"} : Goto(w, p)
  BY DEF ScopeStep, LockScope, StartScope, StartRefused, SkipScope, RejectScope, FetchEnds,
         ProcessFails, CompleteScope, FailScope, InScope
<1>4. \/ UNCHANGED scopeStatus
      \/ \E st \in {"running", "succeeded", "failed", "skipped_conflict"} : SetScope(w, st)
  BY DEF ScopeStep, LockScope, StartScope, StartRefused, SkipScope, RejectScope, FetchEnds,
         ProcessFails, CompleteScope, FailScope
<1>5. /\ UNCHANGED <<runStatus, trigger, range, leaseExpired, asked, claimed, todo,
                     scope, view, locked, toFail, exits>>
      /\ pc' = [pc EXCEPT ![w] = p]
  BY <1>3 DEF Goto, workVars, recoveryVars
<1>6. /\ \A r \in Runs, s \in Series :
            r # claimed[w] \/ s # scope[w] => scopeStatus'[r][s] = scopeStatus[r][s]
      /\ scopeStatus'[claimed[w]][scope[w]] \in
            {scopeStatus[claimed[w]][scope[w]],
             "running", "succeeded", "failed", "skipped_conflict"}
      /\ scopeStatus' \in [Runs -> [Series -> ScopeStatus]]
  <2>1. CASE UNCHANGED scopeStatus
    BY <2>1
  <2>2. CASE \E st \in {"running", "succeeded", "failed", "skipped_conflict"} : SetScope(w, st)
    BY <2>2, <1>2 DEF SetScope, ScopeStatus, ActiveScope
  <2> QED
    BY <2>1, <2>2, <1>4
<1>7. /\ pc'[w] = p
      /\ \A v \in Workers \ {w} : pc'[v] = pc[v]
      /\ pc' \in [Workers -> {"down", "recovering", "polling"} \cup Executing]
  BY <1>5 DEF Executing, InScope
<1> QED
  BY <1>1, <1>2, <1>5, <1>6, <1>7

\* A worker that leaves its run changes nothing of the others.
LEMMA LeaveFacts ==
    ASSUME Base, NEW w \in Workers, NEW where \in {"down", "polling"}, Leave(w, where)
    PROVE  /\ pc' \in [Workers -> {"down", "recovering", "polling"} \cup Executing]
           /\ claimed' \in [Workers -> Runs \cup {0}]
           /\ todo' \in [Workers -> SUBSET Series]
           /\ scope' \in [Workers -> Series]
           /\ view' \in [Workers -> ScopeStatus]
           /\ claimed'[w] = 0 /\ pc'[w] = where
           /\ \A v \in Workers \ {w} :
                /\ claimed'[v] = claimed[v] /\ pc'[v] = pc[v] /\ todo'[v] = todo[v]
                /\ scope'[v] = scope[v] /\ view'[v] = view[v]
<1>1. (CHOOSE s \in Series : TRUE) \in Series
  BY LifecycleAssumption
<1> QED
  BY <1>1 DEF Leave, Base, TypeOK, ScopeStatus

\* The steps of the system, the scope steps and the commands taken together.
LEMMA StepCases ==
    ASSUME Base, [Next]_vars
    PROVE  \/ \E r \in Runs, d \in Ranges, t \in {"manual", "scheduled", "retry"} : NewRun(r, t, d)
           \/ \E c \in Clients, d \in Ranges : CheckManual(c, d)
           \/ \E w \in Workers : \/ RecoverBegin(w) \/ RecoverCommit(w) \/ Beat(w)
                                 \/ BackgroundBeat(w) \/ ScopeStep(w) \/ Finalize(w) \/ Crash(w)
                                 \/ \E r \in Runs : ClaimNext(w, r)
                                 \/ \E s \in Series : LoadScope(w, s)
           \/ \E r \in Runs : LeaseExpires(r)
           \/ UNCHANGED vars
<1> SUFFICES ASSUME Command
             PROVE  \/ \E r \in Runs, d \in Ranges, t \in {"manual", "scheduled", "retry"} :
                        NewRun(r, t, d)
                    \/ \E c \in Clients, d \in Ranges : CheckManual(c, d)
  BY DEF Next, WorkerStep, ScopeStep
<1>1. PICK r \in Runs, d \in Ranges :
        \/ CreateScheduled(r, d)
        \/ CreateRetry(r, d)
        \/ \E c \in Clients : CheckManual(c, d) \/ CommitManual(c, r)
  BY DEF Command
<1>2. CASE CreateScheduled(r, d) \/ CreateRetry(r, d)
  BY <1>2 DEF CreateScheduled, CreateRetry, NewRun
<1>3. ASSUME NEW c \in Clients, CommitManual(c, r)
      PROVE  NewRun(r, "manual", asked[c]) /\ asked[c] \in Ranges
  BY <1>3 DEF CommitManual, NewRun, Base, TypeOK
<1> QED
  BY <1>1, <1>2, <1>3

LEMMA StepBase == Base /\ [Next]_vars => Base'
<1> SUFFICES ASSUME Base, [Next]_vars PROVE Base'
  OBVIOUS
<1> USE DEF Base, TypeOK, Control, TerminalRun
<1>1. ASSUME NEW r \in Runs, NEW d \in Ranges, NEW t \in {"manual", "scheduled", "retry"},
             NewRun(r, t, d)
      PROVE  Base'
  BY <1>1 DEF NewRun, AddRun, workVars, recoveryVars, ScopeStatus, ActiveScope
<1>2. ASSUME NEW c \in Clients, NEW d \in Ranges, CheckManual(c, d)
      PROVE  Base'
  BY <1>2 DEF CheckManual, workVars, recoveryVars
<1>3. ASSUME NEW w \in Workers, RecoverBegin(w)
      PROVE  Base'
  BY <1>3 DEF RecoverBegin, commandVars, workVars, Executing
<1>4. ASSUME NEW w \in Workers, RecoverCommit(w)
      PROVE  Base'
  BY <1>4, DeriveIsTerminal DEF RecoverCommit, RecoverScopes, workVars, Executing, ScopeStatus
<1>5. ASSUME NEW w \in Workers, NEW r \in Runs, ClaimNext(w, r)
      PROVE  Base'
  BY <1>5 DEF ClaimNext, recoveryVars, Executing, Runs
<1>6. ASSUME NEW w \in Workers, Beat(w)
      PROVE  Base'
  <2>1. CASE Leave(w, "down") /\ UNCHANGED leaseExpired
    <3>1. /\ pc[w] = "beating"
          /\ UNCHANGED <<runStatus, trigger, range, scopeStatus, asked, locked, toFail, exits>>
      BY <1>6 DEF Beat, commandVars, recoveryVars
    <3>2. TypeOK'
      BY <2>1, <3>1, LeaveFacts
    <3>3. Control'
      BY <2>1, <3>1, LeaveFacts DEF Executing
    <3> QED
      BY <3>2, <3>3
  <2>2. CASE /\ leaseExpired' = [leaseExpired EXCEPT ![claimed[w]] = FALSE]
             /\ pc' = [pc EXCEPT ![w] = IF todo[w] = {} THEN "finalizing" ELSE "next"]
             /\ UNCHANGED workVars
    <3>1. PICK where \in {"finalizing", "next"} : pc' = [pc EXCEPT ![w] = where]
      <4>1. CASE todo[w] = {}
        BY <2>2, <4>1
      <4>2. CASE todo[w] # {}
        BY <2>2, <4>2
      <4> QED
        BY <4>1, <4>2
    <3>2. /\ pc[w] = "beating"
          /\ UNCHANGED <<runStatus, trigger, range, scopeStatus, asked, claimed, todo, scope,
                         view, locked, toFail, exits>>
      BY <1>6, <2>2 DEF Beat, commandVars, workVars, recoveryVars
    <3>3. TypeOK'
      BY <2>2, <3>1, <3>2 DEF Executing
    <3>4. Control'
      BY <3>1, <3>2 DEF Executing
    <3> QED
      BY <3>3, <3>4
  <2> QED
    BY <1>6, <2>1, <2>2 DEF Beat
<1>7. ASSUME NEW w \in Workers, BackgroundBeat(w)
      PROVE  Base'
  BY <1>7 DEF BackgroundBeat, commandVars, workVars, recoveryVars
<1>8. ASSUME NEW w \in Workers, NEW s \in Series, LoadScope(w, s)
      PROVE  Base'
  BY <1>8 DEF LoadScope, commandVars, recoveryVars, Executing
<1>9. ASSUME NEW w \in Workers, ScopeStep(w)
      PROVE  Base'
  BY <1>9, ScopeStepFacts DEF InScope, Executing
<1>10. ASSUME NEW w \in Workers, Finalize(w)
       PROVE  Base'
  <2>1. PICK where \in {"down", "polling"} : Leave(w, where)
    BY <1>10 DEF Finalize
  <2>2. \/ UNCHANGED <<runStatus, leaseExpired>>
        \/ \E st \in TerminalRun :
            /\ runStatus' = [runStatus EXCEPT ![claimed[w]] = st]
            /\ leaseExpired' = [leaseExpired EXCEPT ![claimed[w]] = FALSE]
    <3> HIDE DEF TerminalRun
    <3> QED
      BY <1>10, DeriveIsTerminal DEF Finalize
  <2>3. /\ runStatus' \in [Runs -> {"absent", "pending", "running"} \cup TerminalRun]
        /\ leaseExpired' \in [Runs -> BOOLEAN]
    <3>1. claimed[w] \in Runs
      BY <1>10 DEF Finalize, Executing
    <3>2. CASE UNCHANGED <<runStatus, leaseExpired>>
      BY <3>2
    <3>3. ASSUME NEW st \in TerminalRun,
                 runStatus' = [runStatus EXCEPT ![claimed[w]] = st],
                 leaseExpired' = [leaseExpired EXCEPT ![claimed[w]] = FALSE]
          PROVE  /\ runStatus' \in [Runs -> {"absent", "pending", "running"} \cup TerminalRun]
                 /\ leaseExpired' \in [Runs -> BOOLEAN]
      BY <3>1, <3>3
    <3> QED
      BY <2>2, <3>2, <3>3
  <2>4. UNCHANGED <<trigger, range, scopeStatus, asked, locked, toFail, exits>>
    BY <1>10 DEF Finalize, recoveryVars
  <2>5. pc[w] = "finalizing"
    BY <1>10 DEF Finalize
  <2>6. TypeOK'
    BY <2>1, <2>3, <2>4, LeaveFacts
  <2>7. Control'
    BY <2>1, <2>4, <2>5, LeaveFacts DEF Executing
  <2> QED
    BY <2>6, <2>7
<1>11. ASSUME NEW w \in Workers, Crash(w)
       PROVE  Base'
  <2>1. /\ Leave(w, "down")
        /\ UNCHANGED <<runStatus, trigger, range, leaseExpired, scopeStatus, asked>>
    BY <1>11 DEF Crash, commandVars
  <2>2. exits' \in 0..MaxExits
    BY <1>11, LifecycleAssumption DEF Crash
  <2>3. /\ locked' = [locked EXCEPT ![w] = {}]
        /\ toFail' = [toFail EXCEPT ![w] = {}]
    BY <1>11 DEF Crash
  <2>4. TypeOK'
    BY <2>1, <2>2, <2>3, LeaveFacts
  <2>5. Control'
    BY <2>1, <2>3, LeaveFacts DEF Executing
  <2> QED
    BY <2>4, <2>5
<1>12. ASSUME NEW r \in Runs, LeaseExpires(r)
       PROVE  Base'
  BY <1>12 DEF LeaseExpires, commandVars, workVars, recoveryVars
<1>13. CASE UNCHANGED vars
  BY <1>13 DEF vars, ScopeStatus
<1> HIDE DEF Base, Control, TypeOK, TerminalRun
<1>14. ASSUME NEW w \in Workers,
              \/ RecoverBegin(w) \/ RecoverCommit(w) \/ Beat(w)
              \/ BackgroundBeat(w) \/ ScopeStep(w) \/ Finalize(w) \/ Crash(w)
              \/ \E r \in Runs : ClaimNext(w, r)
              \/ \E s \in Series : LoadScope(w, s)
       PROVE  Base'
  BY <1>3, <1>4, <1>5, <1>6, <1>7, <1>8, <1>9, <1>10, <1>11, <1>14
<1> QED
  BY <1>1, <1>2, <1>12, <1>13, <1>14, StepCases

\* The state of the lifecycle keeps its types, whatever the interleaving of
\* commands, workers, recoveries, crashes and expiring leases.
THEOREM TypeCorrect == Spec => []TypeOK
<1>1. Base => TypeOK
  BY DEF Base
<1> QED
  BY <1>1, InitBase, StepBase, PTL DEF Spec

-----------------------------------------------------------------------------
(***************************************************************************)
(* What each step changes, worker by worker and run by run.                *)
(***************************************************************************)
\* The other workers stay where they are.
Others(w) ==
    \A v \in Workers \ {w} :
        /\ pc'[v] = pc[v] /\ claimed'[v] = claimed[v] /\ todo'[v] = todo[v]
        /\ scope'[v] = scope[v] /\ view'[v] = view[v]
        /\ locked'[v] = locked[v] /\ toFail'[v] = toFail[v]

\* So do the other runs.
OtherRuns(r) ==
    \A q \in Runs \ {r} :
        runStatus'[q] = runStatus[q] /\ leaseExpired'[q] = leaseExpired[q]

LEMMA NewRunFacts ==
    ASSUME Base, NEW r \in Runs, NEW d \in Ranges, NEW t \in {"manual", "scheduled", "retry"},
           NewRun(r, t, d)
    PROVE  /\ UNCHANGED <<leaseExpired, pc, claimed, todo, scope, view, locked, toFail, exits>>
           /\ runStatus[r] = "absent" /\ runStatus'[r] = "pending"
           /\ trigger'[r] = t /\ range'[r] = d
           /\ \A s \in Series : scopeStatus'[r][s] = "pending"
           /\ OtherRuns(r)
           /\ \A q \in Runs \ {r} : /\ trigger'[q] = trigger[q] /\ range'[q] = range[q]
                                    /\ scopeStatus'[q] = scopeStatus[q]
BY DEF Base, TypeOK, NewRun, AddRun, IsNext, workVars, recoveryVars, OtherRuns

LEMMA ScopeStepOthers ==
    ASSUME Base, NEW w \in Workers, ScopeStep(w)
    PROVE  Others(w)
BY ScopeStepFacts DEF Others

LEMMA RecoverBeginFacts ==
    ASSUME Base, NEW w \in Workers, RecoverBegin(w)
    PROVE  /\ UNCHANGED <<runStatus, trigger, range, leaseExpired, scopeStatus, asked, claimed,
                          todo, scope, view, exits>>
           /\ pc[w] = "down" /\ pc'[w] = "recovering"
           /\ locked'[w] =
                {r \in Runs : runStatus[r] = "running" /\ leaseExpired[r] /\ ~RunRowLocked(r)}
           /\ toFail'[w] = {x \in locked'[w] \X Series : scopeStatus[x[1]][x[2]] \in ActiveScope}
           /\ Others(w)
BY DEF Base, TypeOK, RecoverBegin, commandVars, workVars, Others

LEMMA RecoverCommitFacts ==
    ASSUME Base, NEW w \in Workers, RecoverCommit(w)
    PROVE  /\ UNCHANGED <<trigger, range, asked, claimed, todo, scope, view, exits>>
           /\ pc[w] = "recovering" /\ pc'[w] = "polling"
           /\ locked'[w] = {} /\ toFail'[w] = {}
           /\ \A r \in Runs \ locked[w] :
                runStatus'[r] = runStatus[r] /\ leaseExpired'[r] = leaseExpired[r]
           /\ \A r \in locked[w] : /\ runStatus'[r] = DeriveStatus(scopeStatus'[r])
                                   /\ runStatus'[r] \in TerminalRun /\ ~leaseExpired'[r]
           /\ \A r \in Runs, s \in Series :
                scopeStatus'[r][s] = IF <<r, s>> \in toFail[w] THEN "failed" ELSE scopeStatus[r][s]
           /\ Others(w)
<1> USE DEF Base, TypeOK
<1>1. /\ UNCHANGED <<trigger, range, asked, claimed, todo, scope, view, exits>>
      /\ pc[w] = "recovering" /\ pc'[w] = "polling"
      /\ locked'[w] = {} /\ toFail'[w] = {}
      /\ Others(w)
  BY DEF RecoverCommit, workVars, Others
<1>2. /\ \A r \in Runs \ locked[w] :
            runStatus'[r] = runStatus[r] /\ leaseExpired'[r] = leaseExpired[r]
      /\ \A r \in locked[w] : ~leaseExpired'[r]
  BY DEF RecoverCommit
<1>3. \A r \in Runs, s \in Series :
        scopeStatus'[r][s] = IF <<r, s>> \in toFail[w] THEN "failed" ELSE scopeStatus[r][s]
  BY DEF RecoverCommit, RecoverScopes
<1>4. \A r \in locked[w] : runStatus'[r] = DeriveStatus(scopeStatus'[r])
  BY DEF RecoverCommit
<1>5. \A r \in locked[w] : runStatus'[r] \in TerminalRun
  BY <1>4, DeriveIsTerminal
<1> QED
  BY <1>1, <1>2, <1>3, <1>4, <1>5

LEMMA RecoverCommitScopes ==
    ASSUME Base, NEW w \in Workers, RecoverCommit(w), NEW r \in Runs, NEW s \in Series
    PROVE  scopeStatus'[r][s] \in {"failed", scopeStatus[r][s]}
<1>1. scopeStatus'[r][s] = IF <<r, s>> \in toFail[w] THEN "failed" ELSE scopeStatus[r][s]
  BY RecoverCommitFacts
<1> QED
  BY <1>1

LEMMA ClaimNextFacts ==
    ASSUME Base, NEW w \in Workers, NEW r \in Runs, ClaimNext(w, r)
    PROVE  /\ UNCHANGED <<trigger, range, scopeStatus, asked, scope, view, locked, toFail, exits>>
           /\ pc[w] = "polling" /\ pc'[w] = "beating"
           /\ claimed[w] = 0 /\ claimed'[w] = r /\ todo'[w] = Series
           /\ runStatus[r] = "pending" /\ runStatus'[r] = "running" /\ ~leaseExpired'[r]
           /\ OtherRuns(r)
           /\ Others(w)
BY DEF Base, TypeOK, Control, ClaimNext, recoveryVars, Executing, Runs, OtherRuns, Others

LEMMA BeatFacts ==
    ASSUME Base, NEW w \in Workers, Beat(w)
    PROVE  /\ UNCHANGED <<runStatus, trigger, range, scopeStatus, asked, locked, toFail, exits>>
           /\ pc[w] = "beating" /\ claimed[w] \in Runs /\ ~RunRowLocked(claimed[w])
           /\ \/ /\ UNCHANGED <<claimed, todo, scope, view>>
                 /\ runStatus[claimed[w]] = "running"
                 /\ \/ pc'[w] = "finalizing" /\ todo[w] = {}
                    \/ pc'[w] = "next"
              \/ /\ runStatus[claimed[w]] # "running"
                 /\ pc'[w] = "down" /\ claimed'[w] = 0
           /\ \A r \in Runs : leaseExpired'[r] => leaseExpired[r]
           /\ \A r \in Runs \ {claimed[w]} : leaseExpired'[r] = leaseExpired[r]
           /\ Others(w)
<1> USE DEF Base, TypeOK
<1>1. /\ UNCHANGED <<runStatus, trigger, range, scopeStatus, asked, locked, toFail, exits>>
      /\ pc[w] = "beating" /\ claimed[w] \in Runs /\ ~RunRowLocked(claimed[w])
  BY DEF Beat, commandVars, recoveryVars, Control, Executing
<1>2. CASE /\ runStatus[claimed[w]] = "running"
           /\ leaseExpired' = [leaseExpired EXCEPT ![claimed[w]] = FALSE]
           /\ pc' = [pc EXCEPT ![w] = IF todo[w] = {} THEN "finalizing" ELSE "next"]
           /\ UNCHANGED workVars
  <2>1. /\ \A r \in Runs : leaseExpired'[r] => leaseExpired[r]
        /\ \A r \in Runs \ {claimed[w]} : leaseExpired'[r] = leaseExpired[r]
    BY <1>1, <1>2
  <2>2. (pc'[w] = "finalizing" /\ todo[w] = {}) \/ pc'[w] = "next"
    BY <1>2
  <2>3. Others(w) /\ UNCHANGED <<claimed, todo, scope, view>>
    BY <1>1, <1>2 DEF Others, workVars
  <2> QED
    BY <1>1, <1>2, <2>1, <2>2, <2>3
<1>3. CASE runStatus[claimed[w]] # "running" /\ Leave(w, "down") /\ UNCHANGED leaseExpired
  BY <1>1, <1>3, LeaveFacts DEF Others
<1> QED
  BY <1>2, <1>3 DEF Beat

LEMMA BackgroundBeatFacts ==
    ASSUME Base, NEW w \in Workers, BackgroundBeat(w)
    PROVE  /\ UNCHANGED <<runStatus, trigger, range, scopeStatus, asked, pc, claimed, todo, scope,
                          view, locked, toFail, exits>>
           /\ claimed[w] \in Runs /\ ~RunRowLocked(claimed[w])
           /\ \A r \in Runs : leaseExpired'[r] => leaseExpired[r]
           /\ \A r \in Runs \ {claimed[w]} : leaseExpired'[r] = leaseExpired[r]
<1>1. claimed[w] \in Runs
  BY DEF Base, TypeOK, Control, BackgroundBeat, Executing
<1> QED
  BY <1>1 DEF Base, TypeOK, BackgroundBeat, commandVars, workVars, recoveryVars

LEMMA LoadScopeFacts ==
    ASSUME Base, NEW w \in Workers, NEW s \in Series, LoadScope(w, s)
    PROVE  /\ UNCHANGED <<runStatus, trigger, range, leaseExpired, scopeStatus, asked, claimed,
                          locked, toFail, exits>>
           /\ pc[w] = "next" /\ pc'[w] = "loaded" /\ claimed[w] \in Runs
           /\ s \in todo[w] /\ todo'[w] = todo[w] \ {s}
           /\ scope'[w] = s /\ view'[w] = scopeStatus[claimed[w]][s]
           /\ Others(w)
BY DEF Base, TypeOK, Control, LoadScope, commandVars, recoveryVars, Executing, Others

LEMMA FinalizeFacts ==
    ASSUME Base, NEW w \in Workers, Finalize(w)
    PROVE  /\ UNCHANGED <<trigger, range, scopeStatus, asked, locked, toFail, exits>>
           /\ pc[w] = "finalizing" /\ claimed[w] \in Runs /\ ~RunRowLocked(claimed[w])
           /\ pc'[w] \in {"down", "polling"} /\ claimed'[w] = 0
           /\ \/ /\ runStatus[claimed[w]] = "running" /\ AllScopesTerminal(claimed[w])
                 /\ runStatus'[claimed[w]] = DeriveStatus(scopeStatus[claimed[w]])
                 /\ runStatus'[claimed[w]] \in TerminalRun /\ ~leaseExpired'[claimed[w]]
                 /\ OtherRuns(claimed[w])
              \/ /\ runStatus[claimed[w]] # "running" \/ ~AllScopesTerminal(claimed[w])
                 /\ UNCHANGED <<runStatus, leaseExpired>>
           /\ Others(w)
<1> USE DEF Base, TypeOK
<1>1. /\ UNCHANGED <<trigger, range, scopeStatus, asked, locked, toFail, exits>>
      /\ pc[w] = "finalizing" /\ claimed[w] \in Runs /\ ~RunRowLocked(claimed[w])
  BY DEF Finalize, recoveryVars, Control, Executing
<1>2. PICK where \in {"down", "polling"} : Leave(w, where)
  BY DEF Finalize
<1>3. pc'[w] \in {"down", "polling"} /\ claimed'[w] = 0 /\ Others(w)
  BY <1>1, <1>2, LeaveFacts DEF Others
<1>4. CASE /\ runStatus[claimed[w]] = "running"
           /\ AllScopesTerminal(claimed[w])
           /\ runStatus' = [runStatus EXCEPT ![claimed[w]] = DeriveStatus(scopeStatus[claimed[w]])]
           /\ leaseExpired' = [leaseExpired EXCEPT ![claimed[w]] = FALSE]
  <2>1. runStatus'[claimed[w]] = DeriveStatus(scopeStatus[claimed[w]])
    BY <1>1, <1>4
  <2>2. ~leaseExpired'[claimed[w]]
    BY <1>1, <1>4
  <2>3. OtherRuns(claimed[w])
    BY <1>1, <1>4 DEF OtherRuns
  <2> QED
    BY <1>1, <1>3, <1>4, <2>1, <2>2, <2>3, DeriveIsTerminal
<1>5. CASE /\ runStatus[claimed[w]] # "running" \/ ~AllScopesTerminal(claimed[w])
           /\ UNCHANGED <<runStatus, leaseExpired>>
  BY <1>1, <1>3, <1>5
<1> QED
  BY <1>4, <1>5 DEF Finalize

LEMMA CrashFacts ==
    ASSUME Base, NEW w \in Workers, Crash(w)
    PROVE  /\ UNCHANGED <<runStatus, trigger, range, leaseExpired, scopeStatus, asked>>
           /\ exits' = exits + 1
           /\ pc'[w] = "down" /\ claimed'[w] = 0 /\ locked'[w] = {} /\ toFail'[w] = {}
           /\ Others(w)
<1>1. Leave(w, "down")
  BY DEF Crash
<1>2. /\ locked'[w] = {} /\ toFail'[w] = {}
      /\ \A v \in Workers \ {w} : locked'[v] = locked[v] /\ toFail'[v] = toFail[v]
  BY DEF Crash, Base, TypeOK
<1> QED
  BY <1>1, <1>2, LeaveFacts DEF Crash, commandVars, Others

LEMMA LeaseExpiresFacts ==
    ASSUME Base, NEW r \in Runs, LeaseExpires(r)
    PROVE  /\ UNCHANGED <<runStatus, trigger, range, scopeStatus, asked, pc, claimed, todo, scope,
                          view, locked, toFail, exits>>
           /\ runStatus[r] = "running"
           /\ LeaseOutlivesWork => ~Owned(r)
           /\ \A q \in Runs \ {r} : leaseExpired'[q] = leaseExpired[q]
           /\ leaseExpired[r] => leaseExpired'[r]
BY DEF Base, TypeOK, LeaseExpires, commandVars, workVars, recoveryVars


-----------------------------------------------------------------------------
(***************************************************************************)
(* Who may change a run.                                                   *)
(***************************************************************************)
\* Rows locked for recovery are those of running runs and of one recovery, and
\* a run has scopes as soon as it exists.
Locking ==
    /\ \A w \in Workers :
        /\ \A r \in locked[w] : runStatus[r] = "running"
        /\ toFail[w] \subseteq locked[w] \X Series
    /\ \A v, w \in Workers : v # w => locked[v] \cap locked[w] = {}

Existence ==
    \A r \in Runs, s \in Series : runStatus[r] = "absent" <=> scopeStatus[r][s] = "absent"

Ownership == RunHasOneWorker /\ Locking /\ Existence

LEMMA InitOwnership == Init => Ownership
BY DEF Init, Ownership, RunHasOneWorker, Locking, Existence

LEMMA StepOneWorker == Base /\ Ownership /\ [Next]_vars => RunHasOneWorker'
<1> SUFFICES ASSUME Base, Ownership, [Next]_vars PROVE RunHasOneWorker'
  OBVIOUS
<1> USE DEF Ownership, RunHasOneWorker, TerminalRun
<1>0. claimed \in [Workers -> Runs \cup {0}] /\ scope \in [Workers -> Series] /\ 0 \notin Runs
  BY DEF Base, TypeOK, Runs
<1>1. ASSUME NEW r \in Runs, NEW d \in Ranges, NEW t \in {"manual", "scheduled", "retry"},
             NewRun(r, t, d)
      PROVE  RunHasOneWorker'
  BY <1>1, <1>0, NewRunFacts DEF OtherRuns
<1>2. ASSUME NEW c \in Clients, NEW d \in Ranges, CheckManual(c, d)
      PROVE  RunHasOneWorker'
  BY <1>2, <1>0 DEF CheckManual, workVars, recoveryVars
<1>3. ASSUME NEW w \in Workers, RecoverBegin(w)
      PROVE  RunHasOneWorker'
  BY <1>3, <1>0, RecoverBeginFacts DEF Others
<1>4. ASSUME NEW w \in Workers, RecoverCommit(w)
      PROVE  RunHasOneWorker'
  BY <1>4, <1>0, RecoverCommitFacts DEF Others
<1>5. ASSUME NEW w \in Workers, NEW r \in Runs, ClaimNext(w, r)
      PROVE  RunHasOneWorker'
  BY <1>5, <1>0, ClaimNextFacts DEF Others, OtherRuns
<1>6. ASSUME NEW w \in Workers, Beat(w)
      PROVE  RunHasOneWorker'
  BY <1>6, <1>0, BeatFacts DEF Others
<1>7. ASSUME NEW w \in Workers, BackgroundBeat(w)
      PROVE  RunHasOneWorker'
  BY <1>7, <1>0, BackgroundBeatFacts
<1>8. ASSUME NEW w \in Workers, NEW s \in Series, LoadScope(w, s)
      PROVE  RunHasOneWorker'
  BY <1>8, <1>0, LoadScopeFacts DEF Others
<1>9. ASSUME NEW w \in Workers, ScopeStep(w)
      PROVE  RunHasOneWorker'
  BY <1>9, <1>0, ScopeStepFacts, ScopeStepOthers DEF Others
<1>10. ASSUME NEW w \in Workers, Finalize(w)
      PROVE  RunHasOneWorker'
  BY <1>10, <1>0, FinalizeFacts DEF Others, OtherRuns
<1>11. ASSUME NEW w \in Workers, Crash(w)
      PROVE  RunHasOneWorker'
  BY <1>11, <1>0, CrashFacts DEF Others
<1>12. ASSUME NEW r \in Runs, LeaseExpires(r)
      PROVE  RunHasOneWorker'
  BY <1>12, <1>0, LeaseExpiresFacts
<1>13. CASE UNCHANGED vars
  BY <1>13 DEF vars
<1> QED
  BY <1>1, <1>2, <1>3, <1>4, <1>5, <1>6, <1>7, <1>8, <1>9, <1>10, <1>11, <1>12, <1>13, StepCases

LEMMA StepLocking == Base /\ Ownership /\ [Next]_vars => Locking'
<1> SUFFICES ASSUME Base, Ownership, [Next]_vars PROVE Locking'
  OBVIOUS
<1> USE DEF Ownership, RunHasOneWorker, Locking
<1>0. locked \in [Workers -> SUBSET Runs]
  BY DEF Base, TypeOK, Runs
<1>1. ASSUME NEW r \in Runs, NEW d \in Ranges, NEW t \in {"manual", "scheduled", "retry"},
             NewRun(r, t, d)
      PROVE  Locking'
  BY <1>1, <1>0, NewRunFacts DEF OtherRuns
<1>2. ASSUME NEW c \in Clients, NEW d \in Ranges, CheckManual(c, d)
      PROVE  Locking'
  BY <1>2, <1>0 DEF CheckManual, workVars, recoveryVars
<1>3. ASSUME NEW w \in Workers, RecoverBegin(w)
      PROVE  Locking'
  BY <1>3, <1>0, RecoverBeginFacts DEF Others, RunRowLocked
<1>4. ASSUME NEW w \in Workers, RecoverCommit(w)
      PROVE  Locking'
  BY <1>4, <1>0, RecoverCommitFacts DEF Others
<1>5. ASSUME NEW w \in Workers, NEW r \in Runs, ClaimNext(w, r)
      PROVE  Locking'
  BY <1>5, <1>0, ClaimNextFacts DEF Others, OtherRuns
<1>6. ASSUME NEW w \in Workers, Beat(w)
      PROVE  Locking'
  BY <1>6, <1>0, BeatFacts DEF Others
<1>7. ASSUME NEW w \in Workers, BackgroundBeat(w)
      PROVE  Locking'
  BY <1>7, <1>0, BackgroundBeatFacts
<1>8. ASSUME NEW w \in Workers, NEW s \in Series, LoadScope(w, s)
      PROVE  Locking'
  BY <1>8, <1>0, LoadScopeFacts DEF Others
<1>9. ASSUME NEW w \in Workers, ScopeStep(w)
      PROVE  Locking'
  BY <1>9, <1>0, ScopeStepFacts, ScopeStepOthers DEF Others
<1>10. ASSUME NEW w \in Workers, Finalize(w)
      PROVE  Locking'
  BY <1>10, <1>0, FinalizeFacts DEF Others, OtherRuns, RunRowLocked
<1>11. ASSUME NEW w \in Workers, Crash(w)
      PROVE  Locking'
  BY <1>11, <1>0, CrashFacts DEF Others
<1>12. ASSUME NEW r \in Runs, LeaseExpires(r)
      PROVE  Locking'
  BY <1>12, <1>0, LeaseExpiresFacts
<1>13. CASE UNCHANGED vars
  BY <1>13 DEF vars
<1> QED
  BY <1>1, <1>2, <1>3, <1>4, <1>5, <1>6, <1>7, <1>8, <1>9, <1>10, <1>11, <1>12, <1>13, StepCases

LEMMA StepExistence == Base /\ Ownership /\ [Next]_vars => Existence'
<1> SUFFICES ASSUME Base, Ownership, [Next]_vars PROVE Existence'
  OBVIOUS
<1> USE DEF Ownership, RunHasOneWorker, Locking, Existence, TerminalRun
<1>0. /\ locked \in [Workers -> SUBSET Runs]
      /\ 0 \notin Runs
      /\ claimed \in [Workers -> Runs \cup {0}]
      /\ scope \in [Workers -> Series]
  BY DEF Base, TypeOK, Runs
<1>1. ASSUME NEW r \in Runs, NEW d \in Ranges, NEW t \in {"manual", "scheduled", "retry"},
             NewRun(r, t, d)
      PROVE  Existence'
  BY <1>1, <1>0, NewRunFacts DEF OtherRuns
<1>2. ASSUME NEW c \in Clients, NEW d \in Ranges, CheckManual(c, d)
      PROVE  Existence'
  BY <1>2, <1>0 DEF CheckManual, workVars, recoveryVars
<1>3. ASSUME NEW w \in Workers, RecoverBegin(w)
      PROVE  Existence'
  BY <1>3, <1>0, RecoverBeginFacts DEF Others
<1>4. ASSUME NEW w \in Workers, RecoverCommit(w)
      PROVE  Existence'
  <2>1. \A r \in Runs, s \in Series : <<r, s>> \in toFail[w] => scopeStatus[r][s] # "absent"
    BY <1>0
  <2>2. \A r \in Runs, s \in Series : scopeStatus'[r][s] = "absent" <=> scopeStatus[r][s] = "absent"
    <3> TAKE r \in Runs, s \in Series
    <3>1. scopeStatus'[r][s] = IF <<r, s>> \in toFail[w] THEN "failed" ELSE scopeStatus[r][s]
      BY <1>4, RecoverCommitFacts
    <3> QED
      BY <2>1, <3>1
  <2>3. \A r \in Runs : runStatus'[r] = "absent" <=> runStatus[r] = "absent"
    BY <1>4, RecoverCommitFacts
  <2> QED
    BY <2>2, <2>3
<1>5. ASSUME NEW w \in Workers, NEW r \in Runs, ClaimNext(w, r)
      PROVE  Existence'
  BY <1>5, <1>0, ClaimNextFacts DEF Others, OtherRuns
<1>6. ASSUME NEW w \in Workers, Beat(w)
      PROVE  Existence'
  BY <1>6, <1>0, BeatFacts DEF Others
<1>7. ASSUME NEW w \in Workers, BackgroundBeat(w)
      PROVE  Existence'
  BY <1>7, <1>0, BackgroundBeatFacts
<1>8. ASSUME NEW w \in Workers, NEW s \in Series, LoadScope(w, s)
      PROVE  Existence'
  BY <1>8, <1>0, LoadScopeFacts DEF Others
<1>9. ASSUME NEW w \in Workers, ScopeStep(w)
      PROVE  Existence'
  <2>1. scopeStatus[claimed[w]][scope[w]] # "absent"
    BY <1>9, <1>0, ScopeStepFacts
  <2>2. \A r \in Runs, s \in Series : scopeStatus'[r][s] = "absent" <=> scopeStatus[r][s] = "absent"
    BY <1>9, <2>1, ScopeStepFacts
  <2> QED
    BY <1>9, <2>2, ScopeStepFacts
<1>10. ASSUME NEW w \in Workers, Finalize(w)
      PROVE  Existence'
  BY <1>10, <1>0, FinalizeFacts DEF Others, OtherRuns
<1>11. ASSUME NEW w \in Workers, Crash(w)
      PROVE  Existence'
  BY <1>11, <1>0, CrashFacts DEF Others
<1>12. ASSUME NEW r \in Runs, LeaseExpires(r)
      PROVE  Existence'
  BY <1>12, <1>0, LeaseExpiresFacts
<1>13. CASE UNCHANGED vars
  BY <1>13 DEF vars
<1> QED
  BY <1>1, <1>2, <1>3, <1>4, <1>5, <1>6, <1>7, <1>8, <1>9, <1>10, <1>11, <1>12, <1>13, StepCases

LEMMA OwnershipAlways == Spec => [](Base /\ Ownership)
<1>1. Init => Base /\ Ownership
  BY InitBase, InitOwnership
<1>2. Base /\ Ownership /\ [Next]_vars => Base' /\ Ownership'
  BY StepBase, StepOneWorker, StepLocking, StepExistence DEF Ownership
<1> QED
  BY <1>1, <1>2, PTL DEF Spec

\* At most one live worker executes a run, for any number of workers and of
\* expired leases: recovery ends runs, it never hands them to another worker.
THEOREM OneWorker == Spec => []RunHasOneWorker
<1>1. Ownership => RunHasOneWorker
  BY DEF Ownership
<1> QED
  BY <1>1, OwnershipAlways, PTL

TerminalKept == \A q \in Runs : runStatus[q] \in TerminalRun => runStatus'[q] = runStatus[q]

LEMMA StepTerminalKept == Base /\ Ownership /\ [Next]_vars => TerminalKept
<1> SUFFICES ASSUME Base, Ownership, [Next]_vars PROVE TerminalKept
  OBVIOUS
<1> USE DEF Ownership, RunHasOneWorker, Locking, TerminalRun, TerminalKept
<1>0. locked \in [Workers -> SUBSET Runs] /\ 0 \notin Runs /\ claimed \in [Workers -> Runs \cup {0}]
  BY DEF Base, TypeOK, Runs
<1>1. ASSUME NEW r \in Runs, NEW d \in Ranges, NEW t \in {"manual", "scheduled", "retry"},
             NewRun(r, t, d)
      PROVE  TerminalKept
  BY <1>1, <1>0, NewRunFacts DEF OtherRuns
<1>2. ASSUME NEW c \in Clients, NEW d \in Ranges, CheckManual(c, d)
      PROVE  TerminalKept
  BY <1>2, <1>0 DEF CheckManual, workVars, recoveryVars
<1>3. ASSUME NEW w \in Workers, RecoverBegin(w)
      PROVE  TerminalKept
  BY <1>3, <1>0, RecoverBeginFacts DEF Others
<1>4. ASSUME NEW w \in Workers, RecoverCommit(w)
      PROVE  TerminalKept
  BY <1>4, <1>0, RecoverCommitFacts DEF Others
<1>5. ASSUME NEW w \in Workers, NEW r \in Runs, ClaimNext(w, r)
      PROVE  TerminalKept
  BY <1>5, <1>0, ClaimNextFacts DEF Others, OtherRuns
<1>6. ASSUME NEW w \in Workers, Beat(w)
      PROVE  TerminalKept
  BY <1>6, <1>0, BeatFacts DEF Others
<1>7. ASSUME NEW w \in Workers, BackgroundBeat(w)
      PROVE  TerminalKept
  BY <1>7, <1>0, BackgroundBeatFacts
<1>8. ASSUME NEW w \in Workers, NEW s \in Series, LoadScope(w, s)
      PROVE  TerminalKept
  BY <1>8, <1>0, LoadScopeFacts DEF Others
<1>9. ASSUME NEW w \in Workers, ScopeStep(w)
      PROVE  TerminalKept
  BY <1>9, <1>0, ScopeStepFacts, ScopeStepOthers DEF Others
<1>10. ASSUME NEW w \in Workers, Finalize(w)
      PROVE  TerminalKept
  BY <1>10, <1>0, FinalizeFacts DEF Others, OtherRuns
<1>11. ASSUME NEW w \in Workers, Crash(w)
      PROVE  TerminalKept
  BY <1>11, <1>0, CrashFacts DEF Others
<1>12. ASSUME NEW r \in Runs, LeaseExpires(r)
      PROVE  TerminalKept
  BY <1>12, <1>0, LeaseExpiresFacts
<1>13. CASE UNCHANGED vars
  BY <1>13 DEF vars
<1> QED
  BY <1>1, <1>2, <1>3, <1>4, <1>5, <1>6, <1>7, <1>8, <1>9, <1>10, <1>11, <1>12, <1>13, StepCases

\* The status a run ended with stays: recovery holds the rows it ends, and a
\* worker that lost its lease finds its run no longer running.
THEOREM TerminalFinal == Spec => TerminalRunsAreFinal
<1>1. Base /\ Ownership /\ [Next]_vars =>
        [\A r \in Runs : runStatus[r] \in TerminalRun => runStatus'[r] = runStatus[r]]_vars
  BY StepTerminalKept DEF TerminalKept
<1> QED
  BY <1>1, OwnershipAlways, PTL DEF Spec, TerminalRunsAreFinal

-----------------------------------------------------------------------------
(***************************************************************************)
(* Workers let go of runs that have ended.                                 *)
(***************************************************************************)
\* The scopes a worker has executed are no longer active, and it has executed
\* all of them when it finalizes their run.
Passed ==
    \A w \in Workers : claimed[w] # 0 =>
        /\ pc[w] = "finalizing" => todo[w] = {}
        /\ \A s \in Series \ todo[w] :
            s # scope[w] \/ pc[w] \in {"beating", "next", "finalizing"} =>
                scopeStatus[claimed[w]][s] \notin ActiveScope

LEMMA ScopeEnds ==
    ASSUME Base, NEW w \in Workers, ScopeStep(w), pc'[w] = "beating"
    PROVE  scopeStatus'[claimed[w]][scope[w]] \notin ActiveScope
<1>1. /\ claimed[w] \in Runs
      /\ scope[w] \in Series
      /\ pc \in [Workers -> {"down", "recovering", "polling"} \cup Executing]
  BY ScopeStepFacts DEF Base, TypeOK
<1>2. \/ \E st \in {"skipped_conflict", "succeeded", "failed"} : SetScope(w, st)
      \/ UNCHANGED scopeStatus /\ FreshScope(w) \notin ActiveScope
  BY <1>1 DEF ScopeStep, LockScope, StartScope, StartRefused, SkipScope, RejectScope, FetchEnds,
         ProcessFails, CompleteScope, FailScope, Goto
<1> QED
  BY <1>1, <1>2 DEF Base, TypeOK, SetScope, FreshScope, ActiveScope

LEMMA StepPassed == Base /\ Ownership /\ Passed /\ [Next]_vars => Passed'
<1> SUFFICES ASSUME Base, Ownership, Passed, [Next]_vars PROVE Passed'
  OBVIOUS
<1> USE DEF Ownership, RunHasOneWorker, Passed
<1>0. /\ claimed \in [Workers -> Runs \cup {0}] /\ 0 \notin Runs
      /\ scope \in [Workers -> Series] /\ todo \in [Workers -> SUBSET Series]
      /\ locked \in [Workers -> SUBSET Runs]
  BY LifecycleAssumption DEF Base, TypeOK, Runs
<1>1. ASSUME NEW r \in Runs, NEW d \in Ranges, NEW t \in {"manual", "scheduled", "retry"},
             NewRun(r, t, d)
      PROVE  Passed'
  BY <1>1, <1>0, NewRunFacts DEF OtherRuns
<1>2. ASSUME NEW c \in Clients, NEW d \in Ranges, CheckManual(c, d)
      PROVE  Passed'
  BY <1>2, <1>0 DEF CheckManual, workVars, recoveryVars
<1>3. ASSUME NEW w \in Workers, RecoverBegin(w)
      PROVE  Passed'
  BY <1>3, <1>0, RecoverBeginFacts DEF Others
<1>4. ASSUME NEW w \in Workers, RecoverCommit(w)
      PROVE  Passed'
  <2>1. ASSUME NEW r \in Runs, NEW s \in Series, scopeStatus[r][s] \notin ActiveScope
        PROVE  scopeStatus'[r][s] \notin ActiveScope
    <3>1. scopeStatus'[r][s] \in {"failed", scopeStatus[r][s]}
      BY <1>4, RecoverCommitScopes
    <3> QED
      BY <2>1, <3>1 DEF ActiveScope
  <2>2. \A v \in Workers : claimed'[v] # 0 => pc'[v] = pc[v]
    BY <1>4, <1>0, RecoverCommitFacts DEF Others, Base, Control, Executing
  <2> QED
    BY <1>4, <1>0, <2>1, <2>2, RecoverCommitFacts
<1>5. ASSUME NEW w \in Workers, NEW r \in Runs, ClaimNext(w, r)
      PROVE  Passed'
  BY <1>5, <1>0, ClaimNextFacts DEF Others, OtherRuns
<1>6. ASSUME NEW w \in Workers, Beat(w)
      PROVE  Passed'
  BY <1>6, <1>0, BeatFacts DEF Others
<1>7. ASSUME NEW w \in Workers, BackgroundBeat(w)
      PROVE  Passed'
  BY <1>7, <1>0, BackgroundBeatFacts
<1>8. ASSUME NEW w \in Workers, NEW s \in Series, LoadScope(w, s)
      PROVE  Passed'
  BY <1>8, <1>0, LoadScopeFacts DEF Others
<1>9. ASSUME NEW w \in Workers, ScopeStep(w)
      PROVE  Passed'
  BY <1>9, <1>0, ScopeStepFacts, ScopeStepOthers, ScopeEnds DEF Others, InScope
<1>10. ASSUME NEW w \in Workers, Finalize(w)
      PROVE  Passed'
  BY <1>10, <1>0, FinalizeFacts DEF Others, OtherRuns
<1>11. ASSUME NEW w \in Workers, Crash(w)
      PROVE  Passed'
  BY <1>11, <1>0, CrashFacts DEF Others
<1>12. ASSUME NEW r \in Runs, LeaseExpires(r)
      PROVE  Passed'
  BY <1>12, <1>0, LeaseExpiresFacts
<1>13. CASE UNCHANGED vars
  BY <1>13 DEF vars
<1> QED
  BY <1>1, <1>2, <1>3, <1>4, <1>5, <1>6, <1>7, <1>8, <1>9, <1>10, <1>11, <1>12, <1>13, StepCases

LEMMA PassedAlways == Spec => [](Base /\ Ownership /\ Passed)
<1>1. Init => Passed
  BY DEF Init, Passed
<1> QED
  BY <1>1, StepPassed, OwnershipAlways, PTL DEF Spec

Holds ==
    \A v \in Workers : claimed[v] # 0 /\ claimed'[v] = 0 =>
        runStatus'[claimed[v]] \in TerminalRun \/ exits' > exits

LEMMA StepHolds == Base /\ Ownership /\ Passed /\ [Next]_vars => Holds
<1> SUFFICES ASSUME Base, Ownership, Passed, [Next]_vars PROVE Holds
  OBVIOUS
<1> USE DEF Holds, Ownership, RunHasOneWorker, Passed, TerminalRun
<1>0. /\ claimed \in [Workers -> Runs \cup {0}] /\ 0 \notin Runs /\ exits \in Int
      /\ runStatus \in [Runs -> {"absent", "pending", "running"} \cup TerminalRun]
  BY LifecycleAssumption DEF Base, TypeOK, Runs
<1>1. ASSUME NEW r \in Runs, NEW d \in Ranges, NEW t \in {"manual", "scheduled", "retry"},
             NewRun(r, t, d)
      PROVE  Holds
  BY <1>1, <1>0, NewRunFacts DEF OtherRuns
<1>2. ASSUME NEW c \in Clients, NEW d \in Ranges, CheckManual(c, d)
      PROVE  Holds
  BY <1>2, <1>0 DEF CheckManual, workVars, recoveryVars
<1>3. ASSUME NEW w \in Workers, RecoverBegin(w)
      PROVE  Holds
  BY <1>3, <1>0, RecoverBeginFacts DEF Others
<1>4. ASSUME NEW w \in Workers, RecoverCommit(w)
      PROVE  Holds
  BY <1>4, <1>0, RecoverCommitFacts DEF Others
<1>5. ASSUME NEW w \in Workers, NEW r \in Runs, ClaimNext(w, r)
      PROVE  Holds
  BY <1>5, <1>0, ClaimNextFacts DEF Others, OtherRuns
<1>6. ASSUME NEW w \in Workers, Beat(w)
      PROVE  Holds
  BY <1>6, <1>0, BeatFacts DEF Others
<1>7. ASSUME NEW w \in Workers, BackgroundBeat(w)
      PROVE  Holds
  BY <1>7, <1>0, BackgroundBeatFacts
<1>8. ASSUME NEW w \in Workers, NEW s \in Series, LoadScope(w, s)
      PROVE  Holds
  BY <1>8, <1>0, LoadScopeFacts DEF Others
<1>9. ASSUME NEW w \in Workers, ScopeStep(w)
      PROVE  Holds
  BY <1>9, <1>0, ScopeStepFacts, ScopeStepOthers DEF Others
<1>10. ASSUME NEW w \in Workers, Finalize(w)
      PROVE  Holds
  BY <1>10, <1>0, FinalizeFacts DEF Others, OtherRuns, AllScopesTerminal
<1>11. ASSUME NEW w \in Workers, Crash(w)
      PROVE  Holds
  BY <1>11, <1>0, CrashFacts DEF Others
<1>12. ASSUME NEW r \in Runs, LeaseExpires(r)
      PROVE  Holds
  BY <1>12, <1>0, LeaseExpiresFacts
<1>13. CASE UNCHANGED vars
  BY <1>13 DEF vars
<1> QED
  BY <1>1, <1>2, <1>3, <1>4, <1>5, <1>6, <1>7, <1>8, <1>9, <1>10, <1>11, <1>12, <1>13, StepCases

\* Only the death of its process makes a worker abandon a run: neither an error
\* in a scope nor a lost lease leaves a run behind that still runs.
THEOREM ExitsAbandonRuns == Spec => OnlyExitsAbandonRuns
<1>1. Base /\ Ownership /\ Passed /\ [Next]_vars =>
        [\A w \in Workers : claimed[w] # 0 /\ claimed'[w] = 0 =>
            runStatus'[claimed[w]] \in TerminalRun \/ exits' > exits]_vars
  BY StepHolds DEF Holds
<1> QED
  BY <1>1, PassedAlways, PTL DEF Spec, OnlyExitsAbandonRuns

-----------------------------------------------------------------------------
(***************************************************************************)
(* Skipped scopes give way to one that was not skipped.                    *)
(***************************************************************************)
LEMMA OverlapSharesADay ==
    ASSUME Base, NEW q \in Runs, NEW r \in Runs
    PROVE  Overlap(range[q], range[r]) <=> ShareADay(q, r)
<1> DEFINE a == range[q]  b == range[r]
<1>1. /\ a \in [start : Int, end : Int]
      /\ b \in [start : Int, end : Int]
      /\ a.start <= a.end
      /\ b.start <= b.end
  BY LifecycleAssumption DEF Base, TypeOK
<1>2. ASSUME Overlap(a, b) PROVE ShareADay(q, r)
  <2>1. CASE a.start <= b.start
    <3>1. b.start \in a.start..a.end /\ b.start \in b.start..b.end
      BY <1>1, <1>2, <2>1 DEF Overlap
    <3> QED
      BY <3>1 DEF ShareADay
  <2>2. CASE b.start <= a.start
    <3>1. a.start \in a.start..a.end /\ a.start \in b.start..b.end
      BY <1>1, <1>2, <2>2 DEF Overlap
    <3> QED
      BY <3>1 DEF ShareADay
  <2> QED
    BY <1>1, <2>1, <2>2
<1>3. ASSUME ShareADay(q, r) PROVE Overlap(a, b)
  <2>1. PICK day \in a.start..a.end : day \in b.start..b.end
    BY <1>3 DEF ShareADay
  <2> QED
    BY <1>1, <2>1 DEF Overlap
<1> QED
  BY <1>2, <1>3

\* One transaction at a time holds the advisory lock of a series.
LockHolder(w) == pc[w] \in {"free", "conflict"}

LockExclusive ==
    \A v, w \in Workers : LockHolder(v) /\ LockHolder(w) /\ scope[v] = scope[w] => v = w

LEMMA LockScopeFacts ==
    ASSUME Base, NEW w \in Workers, ScopeStep(w), pc'[w] \in {"free", "conflict"}
    PROVE  /\ LockScope(w) /\ UNCHANGED scopeStatus
           /\ pc[w] = "loaded" /\ ~ClaimLocked(scope[w])
           /\ pc'[w] = "conflict" <=> ActiveOverlap(claimed[w], scope[w], range[claimed[w]])
<1>1. pc \in [Workers -> {"down", "recovering", "polling"} \cup Executing]
  BY DEF Base, TypeOK
<1>2. LockScope(w)
  BY <1>1 DEF ScopeStep, StartScope, StartRefused, SkipScope, RejectScope, FetchEnds,
         ProcessFails, CompleteScope, FailScope, Goto
<1> QED
  BY <1>1, <1>2 DEF LockScope, Goto

LEMMA StepLockExclusive == Base /\ LockExclusive /\ [Next]_vars => LockExclusive'
<1> SUFFICES ASSUME Base, LockExclusive, [Next]_vars PROVE LockExclusive'
  OBVIOUS
<1> USE DEF LockExclusive, LockHolder
<1>0. /\ claimed \in [Workers -> Runs \cup {0}] /\ 0 \notin Runs
      /\ scope \in [Workers -> Series]
  BY LifecycleAssumption DEF Base, TypeOK, Runs
<1>1. ASSUME NEW r \in Runs, NEW d \in Ranges, NEW t \in {"manual", "scheduled", "retry"},
             NewRun(r, t, d)
      PROVE  LockExclusive'
  BY <1>1, <1>0, NewRunFacts DEF OtherRuns
<1>2. ASSUME NEW c \in Clients, NEW d \in Ranges, CheckManual(c, d)
      PROVE  LockExclusive'
  BY <1>2, <1>0 DEF CheckManual, workVars, recoveryVars
<1>3. ASSUME NEW w \in Workers, RecoverBegin(w)
      PROVE  LockExclusive'
  BY <1>3, <1>0, RecoverBeginFacts DEF Others
<1>4. ASSUME NEW w \in Workers, RecoverCommit(w)
      PROVE  LockExclusive'
  BY <1>4, <1>0, RecoverCommitFacts DEF Others
<1>5. ASSUME NEW w \in Workers, NEW r \in Runs, ClaimNext(w, r)
      PROVE  LockExclusive'
  BY <1>5, <1>0, ClaimNextFacts DEF Others, OtherRuns
<1>6. ASSUME NEW w \in Workers, Beat(w)
      PROVE  LockExclusive'
  BY <1>6, <1>0, BeatFacts DEF Others
<1>7. ASSUME NEW w \in Workers, BackgroundBeat(w)
      PROVE  LockExclusive'
  BY <1>7, <1>0, BackgroundBeatFacts
<1>8. ASSUME NEW w \in Workers, NEW s \in Series, LoadScope(w, s)
      PROVE  LockExclusive'
  BY <1>8, <1>0, LoadScopeFacts DEF Others
<1>9. ASSUME NEW w \in Workers, ScopeStep(w)
      PROVE  LockExclusive'
  BY <1>9, <1>0, ScopeStepFacts, ScopeStepOthers, LockScopeFacts DEF Others, ClaimLocked
<1>10. ASSUME NEW w \in Workers, Finalize(w)
      PROVE  LockExclusive'
  BY <1>10, <1>0, FinalizeFacts DEF Others, OtherRuns
<1>11. ASSUME NEW w \in Workers, Crash(w)
      PROVE  LockExclusive'
  BY <1>11, <1>0, CrashFacts DEF Others
<1>12. ASSUME NEW r \in Runs, LeaseExpires(r)
      PROVE  LockExclusive'
  BY <1>12, <1>0, LeaseExpiresFacts
<1>13. CASE UNCHANGED vars
  BY <1>13 DEF vars
<1> QED
  BY <1>1, <1>2, <1>3, <1>4, <1>5, <1>6, <1>7, <1>8, <1>9, <1>10, <1>11, <1>12, <1>13, StepCases

\* A scope status that keeps another scope from starting.
Conflicting(r, s, q) ==
    scopeStatus[q][s] \notin {"absent", "skipped_conflict"} /\ Overlap(range[q], range[r])

\* The run that a worker found in conflict with its own is not skipped while
\* the worker holds the lock: whoever would skip it needs the same lock.
ConflictHolds ==
    \A w \in Workers : pc[w] = "conflict" =>
        \E q \in Runs \ {claimed[w]} : Conflicting(claimed[w], scope[w], q)

LEMMA ScopeSkipped ==
    ASSUME Base, NEW w \in Workers, ScopeStep(w),
           scopeStatus'[claimed[w]][scope[w]] = "skipped_conflict",
           scopeStatus[claimed[w]][scope[w]] # "skipped_conflict"
    PROVE  pc[w] = "conflict"
<1>1. /\ claimed[w] \in Runs
      /\ scope[w] \in Series
      /\ scopeStatus \in [Runs -> [Series -> ScopeStatus]]
  BY ScopeStepFacts DEF Base, TypeOK
<1>2. SkipScope(w)
  BY <1>1 DEF ScopeStep, LockScope, StartScope, StartRefused, SetScope, RejectScope, FetchEnds,
         ProcessFails, CompleteScope, FailScope
<1> QED
  BY <1>2 DEF SkipScope

\* What a step leaves of the conflict with a run: it changes neither its range
\* nor, unless it skips the scope, that the scope conflicts.
ConflictsKept ==
    \A r, q \in Runs, s \in Series :
        Conflicting(r, s, q) /\ runStatus[r] # "absent" =>
            \/ Conflicting(r, s, q)'
            \/ \E w \in Workers :
                pc[w] = "conflict" /\ claimed[w] = q /\ scope[w] = s /\ ScopeStep(w)

LEMMA StepConflictsKept == Base /\ Ownership /\ [Next]_vars => ConflictsKept
<1> SUFFICES ASSUME Base, Ownership, [Next]_vars PROVE ConflictsKept
  OBVIOUS
<1> USE DEF ConflictsKept, Conflicting, Ownership, Existence
<1>0. /\ claimed \in [Workers -> Runs \cup {0}] /\ 0 \notin Runs
      /\ scope \in [Workers -> Series]
  BY LifecycleAssumption DEF Base, TypeOK, Runs
<1>1. ASSUME NEW r \in Runs, NEW d \in Ranges, NEW t \in {"manual", "scheduled", "retry"},
             NewRun(r, t, d)
      PROVE  ConflictsKept
  BY <1>1, <1>0, NewRunFacts DEF OtherRuns
<1>2. ASSUME NEW c \in Clients, NEW d \in Ranges, CheckManual(c, d)
      PROVE  ConflictsKept
  BY <1>2, <1>0 DEF CheckManual, workVars, recoveryVars
<1>3. ASSUME NEW w \in Workers, RecoverBegin(w)
      PROVE  ConflictsKept
  BY <1>3, <1>0, RecoverBeginFacts DEF Others
<1>4. ASSUME NEW w \in Workers, RecoverCommit(w)
      PROVE  ConflictsKept
  <2>1. ASSUME NEW q \in Runs, NEW s \in Series,
               scopeStatus[q][s] \notin {"absent", "skipped_conflict"}
        PROVE  scopeStatus'[q][s] \notin {"absent", "skipped_conflict"}
    <3>1. scopeStatus'[q][s] \in {"failed", scopeStatus[q][s]}
      BY <1>4, RecoverCommitScopes
    <3> QED
      BY <2>1, <3>1
  <2> QED
    BY <1>4, <2>1, RecoverCommitFacts DEF Overlap
<1>5. ASSUME NEW w \in Workers, NEW r \in Runs, ClaimNext(w, r)
      PROVE  ConflictsKept
  BY <1>5, <1>0, ClaimNextFacts DEF Others, OtherRuns
<1>6. ASSUME NEW w \in Workers, Beat(w)
      PROVE  ConflictsKept
  BY <1>6, <1>0, BeatFacts DEF Others
<1>7. ASSUME NEW w \in Workers, BackgroundBeat(w)
      PROVE  ConflictsKept
  BY <1>7, <1>0, BackgroundBeatFacts
<1>8. ASSUME NEW w \in Workers, NEW s \in Series, LoadScope(w, s)
      PROVE  ConflictsKept
  BY <1>8, <1>0, LoadScopeFacts DEF Others
<1>9. ASSUME NEW w \in Workers, ScopeStep(w)
      PROVE  ConflictsKept
  BY <1>9, <1>0, ScopeStepFacts, ScopeStepOthers, ScopeSkipped DEF Others
<1>10. ASSUME NEW w \in Workers, Finalize(w)
      PROVE  ConflictsKept
  BY <1>10, <1>0, FinalizeFacts DEF Others, OtherRuns
<1>11. ASSUME NEW w \in Workers, Crash(w)
      PROVE  ConflictsKept
  BY <1>11, <1>0, CrashFacts DEF Others
<1>12. ASSUME NEW r \in Runs, LeaseExpires(r)
      PROVE  ConflictsKept
  BY <1>12, <1>0, LeaseExpiresFacts
<1>13. CASE UNCHANGED vars
  BY <1>13 DEF vars
<1> QED
  BY <1>1, <1>2, <1>3, <1>4, <1>5, <1>6, <1>7, <1>8, <1>9, <1>10, <1>11, <1>12, <1>13, StepCases

\* A worker in conflict stays with its scope, or has just taken the lock.
ConflictEntered ==
    \A w \in Workers : pc'[w] = "conflict" =>
        /\ claimed'[w] = claimed[w] /\ scope'[w] = scope[w]
        /\ pc[w] = "conflict" \/ ScopeStep(w)

LEMMA StepConflictEntered == Base /\ [Next]_vars => ConflictEntered
<1> SUFFICES ASSUME Base, [Next]_vars PROVE ConflictEntered
  OBVIOUS
<1> USE DEF ConflictEntered
<1>1. ASSUME NEW r \in Runs, NEW d \in Ranges, NEW t \in {"manual", "scheduled", "retry"},
             NewRun(r, t, d)
      PROVE  ConflictEntered
  BY <1>1, NewRunFacts DEF OtherRuns
<1>2. ASSUME NEW c \in Clients, NEW d \in Ranges, CheckManual(c, d)
      PROVE  ConflictEntered
  BY <1>2 DEF CheckManual, workVars, recoveryVars
<1>3. ASSUME NEW w \in Workers, RecoverBegin(w)
      PROVE  ConflictEntered
  BY <1>3, RecoverBeginFacts DEF Others
<1>4. ASSUME NEW w \in Workers, RecoverCommit(w)
      PROVE  ConflictEntered
  BY <1>4, RecoverCommitFacts DEF Others
<1>5. ASSUME NEW w \in Workers, NEW r \in Runs, ClaimNext(w, r)
      PROVE  ConflictEntered
  BY <1>5, ClaimNextFacts DEF Others, OtherRuns
<1>6. ASSUME NEW w \in Workers, Beat(w)
      PROVE  ConflictEntered
  BY <1>6, BeatFacts DEF Others
<1>7. ASSUME NEW w \in Workers, BackgroundBeat(w)
      PROVE  ConflictEntered
  BY <1>7, BackgroundBeatFacts
<1>8. ASSUME NEW w \in Workers, NEW s \in Series, LoadScope(w, s)
      PROVE  ConflictEntered
  BY <1>8, LoadScopeFacts DEF Others
<1>9. ASSUME NEW w \in Workers, ScopeStep(w)
      PROVE  ConflictEntered
  BY <1>9, ScopeStepFacts, ScopeStepOthers DEF Others
<1>10. ASSUME NEW w \in Workers, Finalize(w)
      PROVE  ConflictEntered
  BY <1>10, FinalizeFacts DEF Others, OtherRuns
<1>11. ASSUME NEW w \in Workers, Crash(w)
      PROVE  ConflictEntered
  BY <1>11, CrashFacts DEF Others
<1>12. ASSUME NEW r \in Runs, LeaseExpires(r)
      PROVE  ConflictEntered
  BY <1>12, LeaseExpiresFacts
<1>13. CASE UNCHANGED vars
  BY <1>13 DEF vars
<1> QED
  BY <1>1, <1>2, <1>3, <1>4, <1>5, <1>6, <1>7, <1>8, <1>9, <1>10, <1>11, <1>12, <1>13, StepCases

LEMMA StepConflictHolds ==
    Base /\ Ownership /\ LockExclusive /\ ConflictHolds /\ [Next]_vars => ConflictHolds'
<1> SUFFICES ASSUME Base, Ownership, LockExclusive, ConflictHolds, [Next]_vars,
                    NEW w \in Workers, pc'[w] = "conflict"
             PROVE  \E q \in Runs \ {claimed[w]} : Conflicting(claimed[w], scope[w], q)'
  BY StepConflictEntered DEF ConflictHolds, ConflictEntered
<1>1. /\ claimed'[w] = claimed[w] /\ scope'[w] = scope[w]
      /\ pc[w] = "conflict" \/ ScopeStep(w)
  BY StepConflictEntered DEF ConflictEntered
<1>2. CASE pc[w] = "conflict"
  <2>1. claimed[w] \in Runs /\ runStatus[claimed[w]] # "absent" /\ scope[w] \in Series
    BY <1>2 DEF Base, TypeOK, Control, Executing, Ownership, RunHasOneWorker
  <2>2. PICK q \in Runs \ {claimed[w]} : Conflicting(claimed[w], scope[w], q)
    BY <1>2 DEF ConflictHolds
  <2>3. ~\E v \in Workers : pc[v] = "conflict" /\ claimed[v] = q /\ scope[v] = scope[w]
    BY <1>2, <2>2 DEF LockExclusive, LockHolder
  <2>4. Conflicting(claimed[w], scope[w], q)'
    BY <1>1, <2>1, <2>2, <2>3, StepConflictsKept DEF ConflictsKept
  <2> QED
    BY <2>2, <2>4
<1>3. CASE ScopeStep(w)
  <2>1. ActiveOverlap(claimed[w], scope[w], range[claimed[w]]) /\ UNCHANGED <<scopeStatus, range>>
    BY <1>3, LockScopeFacts, ScopeStepFacts
  <2>2. PICK q \in Runs \ {claimed[w]} :
            scopeStatus[q][scope[w]] \in ActiveScope /\ Overlap(range[q], range[claimed[w]])
    BY <2>1 DEF ActiveOverlap
  <2> QED
    BY <1>1, <2>1, <2>2 DEF Conflicting, ActiveScope, Overlap
<1> QED
  BY <1>1, <1>2, <1>3

-----------------------------------------------------------------------------
\* Steps that skip add the scope of a worker in conflict, others add none.
SkippedKept ==
    \A q \in Runs, s \in Series :
        /\ scopeStatus[q][s] # "absent" => scopeStatus'[q][s] # "absent" /\ range'[q] = range[q]
        /\ scopeStatus'[q][s] = "skipped_conflict" =>
            \/ scopeStatus[q][s] = "skipped_conflict"
            \/ \E w \in Workers :
                pc[w] = "conflict" /\ ScopeStep(w) /\ claimed[w] = q /\ scope[w] = s

LEMMA StepSkippedKept == Base /\ Ownership /\ [Next]_vars => SkippedKept
<1> SUFFICES ASSUME Base, Ownership, [Next]_vars PROVE SkippedKept
  OBVIOUS
<1> USE DEF SkippedKept, Ownership, Existence
<1>0. /\ claimed \in [Workers -> Runs \cup {0}] /\ 0 \notin Runs
      /\ scope \in [Workers -> Series]
  BY LifecycleAssumption DEF Base, TypeOK, Runs
<1>1. ASSUME NEW r \in Runs, NEW d \in Ranges, NEW t \in {"manual", "scheduled", "retry"},
             NewRun(r, t, d)
      PROVE  SkippedKept
  BY <1>1, <1>0, NewRunFacts DEF OtherRuns
<1>2. ASSUME NEW c \in Clients, NEW d \in Ranges, CheckManual(c, d)
      PROVE  SkippedKept
  BY <1>2, <1>0 DEF CheckManual, workVars, recoveryVars
<1>3. ASSUME NEW w \in Workers, RecoverBegin(w)
      PROVE  SkippedKept
  BY <1>3, <1>0, RecoverBeginFacts DEF Others
<1>4. ASSUME NEW w \in Workers, RecoverCommit(w)
      PROVE  SkippedKept
  <2>1. \A q \in Runs, s \in Series : scopeStatus'[q][s] \in {"failed", scopeStatus[q][s]}
    BY <1>4, RecoverCommitScopes
  <2> QED
    BY <1>4, <2>1, RecoverCommitFacts
<1>5. ASSUME NEW w \in Workers, NEW r \in Runs, ClaimNext(w, r)
      PROVE  SkippedKept
  BY <1>5, <1>0, ClaimNextFacts DEF Others, OtherRuns
<1>6. ASSUME NEW w \in Workers, Beat(w)
      PROVE  SkippedKept
  BY <1>6, <1>0, BeatFacts DEF Others
<1>7. ASSUME NEW w \in Workers, BackgroundBeat(w)
      PROVE  SkippedKept
  BY <1>7, <1>0, BackgroundBeatFacts
<1>8. ASSUME NEW w \in Workers, NEW s \in Series, LoadScope(w, s)
      PROVE  SkippedKept
  BY <1>8, <1>0, LoadScopeFacts DEF Others
<1>9. ASSUME NEW w \in Workers, ScopeStep(w)
      PROVE  SkippedKept
  BY <1>9, <1>0, ScopeStepFacts, ScopeStepOthers, ScopeSkipped DEF Others
<1>10. ASSUME NEW w \in Workers, Finalize(w)
      PROVE  SkippedKept
  BY <1>10, <1>0, FinalizeFacts DEF Others, OtherRuns
<1>11. ASSUME NEW w \in Workers, Crash(w)
      PROVE  SkippedKept
  BY <1>11, <1>0, CrashFacts DEF Others
<1>12. ASSUME NEW r \in Runs, LeaseExpires(r)
      PROVE  SkippedKept
  BY <1>12, <1>0, LeaseExpiresFacts
<1>13. CASE UNCHANGED vars
  BY <1>13 DEF vars
<1> QED
  BY <1>1, <1>2, <1>3, <1>4, <1>5, <1>6, <1>7, <1>8, <1>9, <1>10, <1>11, <1>12, <1>13, StepCases

\* Skipped scopes of a series always overlap another scope that was not skipped,
\* although that one may be the scope of a manual run that is being rejected.
SkipsLeaveOne ==
    \A s \in Series : \A G \in SUBSET {r \in Runs : scopeStatus[r][s] = "skipped_conflict"} :
        G # {} => \E q \in Runs \ G, r \in G :
                        scopeStatus[q][s] # "absent" /\ ShareADay(q, r)

LEMMA StepSkips ==
    Base /\ Ownership /\ ConflictHolds /\ SkipsLeaveOne /\ [Next]_vars => SkipsLeaveOne'
<1> DEFINE Skipped(s) == {r \in Runs : scopeStatus[r][s] = "skipped_conflict"}
<1> SUFFICES ASSUME Base, Ownership, ConflictHolds, SkipsLeaveOne, [Next]_vars,
                    NEW s \in Series, NEW G \in SUBSET Skipped(s)', G # {}
             PROVE  \E q \in Runs \ G, r \in G :
                        scopeStatus'[q][s] # "absent" /\ ShareADay(q, r)'
  BY DEF SkipsLeaveOne
<1>1. SkippedKept
  BY StepSkippedKept
<1>2. CASE G \subseteq Skipped(s)
  <2>1. PICK q \in Runs \ G, r \in G : scopeStatus[q][s] # "absent" /\ ShareADay(q, r)
    BY <1>2 DEF SkipsLeaveOne
  <2>2. scopeStatus[r][s] # "absent" /\ r \in Runs
    BY <1>2
  <2>3. scopeStatus'[q][s] # "absent" /\ range'[q] = range[q] /\ range'[r] = range[r]
    BY <1>1, <2>1, <2>2 DEF SkippedKept
  <2> QED
    BY <2>1, <2>3 DEF ShareADay
<1>3. CASE ~(G \subseteq Skipped(s))
  <2>1. PICK r \in G : r \in Runs /\ scopeStatus'[r][s] = "skipped_conflict"
                       /\ scopeStatus[r][s] # "skipped_conflict"
    BY <1>3
  <2>2. PICK w \in Workers : pc[w] = "conflict" /\ ScopeStep(w) /\ claimed[w] = r /\ scope[w] = s
    BY <1>1, <2>1 DEF SkippedKept
  <2>3. PICK q \in Runs \ {r} : Conflicting(r, s, q)
    BY <2>2 DEF ConflictHolds
  <2>4. scopeStatus'[q][s] = scopeStatus[q][s] /\ UNCHANGED range
    BY <2>2, <2>3, ScopeStepFacts
  <2>5. q \notin G /\ scopeStatus'[q][s] # "absent"
    BY <2>3, <2>4 DEF Conflicting
  <2>6. ShareADay(q, r)'
    BY <2>1, <2>3, <2>4, OverlapSharesADay DEF Conflicting, ShareADay
  <2> QED
    BY <2>5, <2>6
<1> QED
  BY <1>2, <1>3

\* Where no manual run is involved, scheduled and retried scopes never all give
\* way to one another, for any chain of overlapping runs: one of them was not
\* skipped, and workers reject manual scopes only.
THEOREM SkipsSpare == Spec => []SkipsSpareOne
<1>1. Init => LockExclusive /\ ConflictHolds /\ SkipsLeaveOne
  BY DEF Init, LockExclusive, LockHolder, ConflictHolds, SkipsLeaveOne
<1>2. ASSUME SkipsLeaveOne PROVE SkipsSpareOne
  <2> SUFFICES ASSUME NEW s \in Series,
                      NEW G \in SUBSET {r \in Runs : scopeStatus[r][s] = "skipped_conflict"},
                      G # {},
                      \A m \in Runs, r \in G : Manual(m, s) => ~ShareADay(m, r)
               PROVE  \E q \in Runs \ G, r \in G :
                          scopeStatus[q][s] # "absent" /\ ~Manual(q, s) /\ ShareADay(q, r)
    BY DEF SkipsSpareOne
  <2> QED
    BY <1>2 DEF SkipsLeaveOne
<1> QED
  BY <1>1, <1>2, StepLockExclusive, StepConflictHolds, StepSkips, OwnershipAlways, PTL DEF Spec

-----------------------------------------------------------------------------
(***************************************************************************)
(* When leases outlive every silence of a live worker.                     *)
(***************************************************************************)
\* The run of a live worker is running and its lease has not expired, and only
\* runs whose lease has expired are locked for recovery.
Leases ==
    /\ \A r \in Runs : leaseExpired[r] => runStatus[r] = "running"
    /\ \A w \in Workers : claimed[w] # 0 =>
        runStatus[claimed[w]] = "running" /\ ~leaseExpired[claimed[w]]
    /\ \A w \in Workers : \A r \in locked[w] : leaseExpired[r]

\* Recovery holds the scopes of its runs as they are.
Loaded ==
    \A w \in Workers : \A r \in locked[w], s \in Series :
        <<r, s>> \in toFail[w] <=> scopeStatus[r][s] \in ActiveScope

LEMMA StepLeases == LeaseOutlivesWork /\ Base /\ Ownership /\ Leases /\ [Next]_vars => Leases'
<1> SUFFICES ASSUME LeaseOutlivesWork, Base, Ownership, Leases, [Next]_vars PROVE Leases'
  OBVIOUS
<1> USE DEF Leases, Ownership, RunHasOneWorker, Locking, TerminalRun
<1>0. /\ claimed \in [Workers -> Runs \cup {0}] /\ 0 \notin Runs
      /\ scope \in [Workers -> Series] /\ locked \in [Workers -> SUBSET Runs]
      /\ leaseExpired \in [Runs -> BOOLEAN]
  BY LifecycleAssumption DEF Base, TypeOK, Runs
<1>1. ASSUME NEW r \in Runs, NEW d \in Ranges, NEW t \in {"manual", "scheduled", "retry"},
             NewRun(r, t, d)
      PROVE  Leases'
  BY <1>1, <1>0, NewRunFacts DEF OtherRuns
<1>2. ASSUME NEW c \in Clients, NEW d \in Ranges, CheckManual(c, d)
      PROVE  Leases'
  BY <1>2, <1>0 DEF CheckManual, workVars, recoveryVars
<1>3. ASSUME NEW w \in Workers, RecoverBegin(w)
      PROVE  Leases'
  BY <1>3, <1>0, RecoverBeginFacts DEF Others
<1>4. ASSUME NEW w \in Workers, RecoverCommit(w)
      PROVE  Leases'
  BY <1>4, <1>0, RecoverCommitFacts DEF Others
<1>5. ASSUME NEW w \in Workers, NEW r \in Runs, ClaimNext(w, r)
      PROVE  Leases'
  BY <1>5, <1>0, ClaimNextFacts DEF Others, OtherRuns
<1>6. ASSUME NEW w \in Workers, Beat(w)
      PROVE  Leases'
  BY <1>6, <1>0, BeatFacts DEF Others, RunRowLocked
<1>7. ASSUME NEW w \in Workers, BackgroundBeat(w)
      PROVE  Leases'
  BY <1>7, <1>0, BackgroundBeatFacts DEF RunRowLocked
<1>8. ASSUME NEW w \in Workers, NEW s \in Series, LoadScope(w, s)
      PROVE  Leases'
  BY <1>8, <1>0, LoadScopeFacts DEF Others
<1>9. ASSUME NEW w \in Workers, ScopeStep(w)
      PROVE  Leases'
  BY <1>9, <1>0, ScopeStepFacts, ScopeStepOthers DEF Others
<1>10. ASSUME NEW w \in Workers, Finalize(w)
      PROVE  Leases'
  BY <1>10, <1>0, FinalizeFacts DEF Others, OtherRuns, RunRowLocked
<1>11. ASSUME NEW w \in Workers, Crash(w)
      PROVE  Leases'
  BY <1>11, <1>0, CrashFacts DEF Others
<1>12. ASSUME NEW r \in Runs, LeaseExpires(r)
      PROVE  Leases'
  BY <1>12, <1>0, LeaseExpiresFacts DEF Owned
<1>13. CASE UNCHANGED vars
  BY <1>13 DEF vars
<1> QED
  BY <1>1, <1>2, <1>3, <1>4, <1>5, <1>6, <1>7, <1>8, <1>9, <1>10, <1>11, <1>12, <1>13, StepCases

LEMMA StepLoaded ==
    LeaseOutlivesWork /\ Base /\ Ownership /\ Leases /\ Loaded /\ [Next]_vars => Loaded'
<1> SUFFICES ASSUME LeaseOutlivesWork, Base, Ownership, Leases, Loaded, [Next]_vars,
                    NEW v \in Workers, NEW q, q \in locked'[v], NEW x \in Series
             PROVE  <<q, x>> \in toFail'[v] <=> scopeStatus'[q][x] \in ActiveScope
  BY DEF Loaded
<1> DEFINE Goal == <<q, x>> \in toFail'[v] <=> scopeStatus'[q][x] \in ActiveScope
<1>0. locked \in [Workers -> SUBSET Runs] /\ 0 \notin Runs
  BY LifecycleAssumption DEF Base, TypeOK, Runs
<1>1. ASSUME NEW r \in Runs, NEW d \in Ranges, NEW t \in {"manual", "scheduled", "retry"},
             NewRun(r, t, d)
      PROVE  Goal
  <2>1. q \in locked[v] /\ q # r /\ UNCHANGED toFail
    BY <1>1, NewRunFacts DEF Ownership, Locking
  <2>2. scopeStatus'[q] = scopeStatus[q]
    BY <1>0, <1>1, <2>1, NewRunFacts
  <2> QED
    BY <2>1, <2>2 DEF Loaded, Goal
<1>2. ASSUME NEW c \in Clients, NEW d \in Ranges, CheckManual(c, d)
      PROVE  Goal
  BY <1>2 DEF CheckManual, workVars, recoveryVars, Loaded, Goal
<1>3. ASSUME NEW w \in Workers, RecoverBegin(w)
      PROVE  Goal
  <2>1. CASE v = w
    <3>1. <<q, x>> \in toFail'[w] <=> scopeStatus[q][x] \in ActiveScope
      BY <1>3, <2>1, RecoverBeginFacts
    <3> QED
      BY <1>3, <2>1, <3>1, RecoverBeginFacts DEF Goal
  <2>2. CASE v # w
    BY <1>3, <2>2, RecoverBeginFacts DEF Others, Loaded, Goal
  <2> QED
    BY <2>1, <2>2
<1>4. ASSUME NEW w \in Workers, RecoverCommit(w)
      PROVE  Goal
  <2>1. v # w /\ locked'[v] = locked[v] /\ toFail'[v] = toFail[v]
    BY <1>4, RecoverCommitFacts DEF Others
  <2>2. <<q, x>> \notin toFail[w]
    BY <2>1 DEF Ownership, Locking
  <2>3. scopeStatus'[q][x] = scopeStatus[q][x]
    <3>1. scopeStatus'[q][x] = IF <<q, x>> \in toFail[w] THEN "failed" ELSE scopeStatus[q][x]
      BY <1>0, <1>4, <2>1, RecoverCommitFacts
    <3> QED
      BY <2>2, <3>1
  <2> QED
    BY <2>1, <2>3 DEF Loaded, Goal
<1>5. ASSUME NEW w \in Workers, NEW r \in Runs, ClaimNext(w, r)
      PROVE  Goal
  BY <1>5, ClaimNextFacts DEF Others, OtherRuns, Loaded, Goal
<1>6. ASSUME NEW w \in Workers, Beat(w)
      PROVE  Goal
  BY <1>6, BeatFacts DEF Others, Loaded, Goal
<1>7. ASSUME NEW w \in Workers, BackgroundBeat(w)
      PROVE  Goal
  BY <1>7, BackgroundBeatFacts DEF Loaded, Goal
<1>8. ASSUME NEW w \in Workers, NEW s \in Series, LoadScope(w, s)
      PROVE  Goal
  BY <1>8, LoadScopeFacts DEF Others, Loaded, Goal
<1>9. ASSUME NEW w \in Workers, ScopeStep(w)
      PROVE  Goal
  <2>1. UNCHANGED <<locked, toFail>>
    BY <1>9, ScopeStepFacts
  <2>2. q # claimed[w]
    BY <1>0, <1>9, <2>1, ScopeStepFacts DEF Leases
  <2>3. scopeStatus'[q][x] = scopeStatus[q][x]
    BY <1>0, <1>9, <2>1, <2>2, ScopeStepFacts
  <2> QED
    BY <2>1, <2>3 DEF Loaded, Goal
<1>10. ASSUME NEW w \in Workers, Finalize(w)
      PROVE  Goal
  BY <1>10, FinalizeFacts DEF Others, OtherRuns, Loaded, Goal
<1>11. ASSUME NEW w \in Workers, Crash(w)
      PROVE  Goal
  BY <1>11, CrashFacts DEF Others, Loaded, Goal
<1>12. ASSUME NEW r \in Runs, LeaseExpires(r)
      PROVE  Goal
  BY <1>12, LeaseExpiresFacts DEF Loaded, Goal
<1>13. CASE UNCHANGED vars
  BY <1>13 DEF vars, Loaded, Goal
<1> QED
  BY <1>1, <1>2, <1>3, <1>4, <1>5, <1>6, <1>7, <1>8, <1>9, <1>10, <1>11, <1>12, <1>13, StepCases

LEMMA LeasesAlways ==
    ASSUME LeaseOutlivesWork
    PROVE  Spec => [](Base /\ Ownership /\ Leases /\ Loaded)
<1>1. Init => Leases /\ Loaded
  BY DEF Init, Leases, Loaded
<1>2. Base /\ Ownership /\ Leases /\ Loaded /\ [Next]_vars => Leases' /\ Loaded'
  BY StepLeases, StepLoaded
<1> QED
  BY <1>1, <1>2, OwnershipAlways, PTL DEF Spec

-----------------------------------------------------------------------------
(***************************************************************************)
(* The scopes of a run are its worker's.                                   *)
(***************************************************************************)
ClaimedKept ==
    \A v \in Workers : claimed[v] # 0 =>
        \A x \in Series : scopeStatus'[claimed[v]][x] = scopeStatus[claimed[v]][x]
                          \/ (ScopeStep(v) /\ x = scope[v])

LEMMA StepClaimedKept ==
    LeaseOutlivesWork /\ Base /\ Ownership /\ Leases /\ Loaded /\ [Next]_vars
        => ClaimedKept
<1> SUFFICES ASSUME LeaseOutlivesWork, Base, Ownership, Leases, Loaded, [Next]_vars
             PROVE  ClaimedKept
  OBVIOUS
<1> USE DEF ClaimedKept, Ownership, RunHasOneWorker, Locking, Leases
<1>0. /\ claimed \in [Workers -> Runs \cup {0}] /\ 0 \notin Runs
      /\ scope \in [Workers -> Series] /\ locked \in [Workers -> SUBSET Runs]
  BY LifecycleAssumption DEF Base, TypeOK, Runs
<1>1. ASSUME NEW r \in Runs, NEW d \in Ranges, NEW t \in {"manual", "scheduled", "retry"},
             NewRun(r, t, d)
      PROVE  ClaimedKept
  BY <1>1, <1>0, NewRunFacts DEF OtherRuns
<1>2. ASSUME NEW c \in Clients, NEW d \in Ranges, CheckManual(c, d)
      PROVE  ClaimedKept
  BY <1>2, <1>0 DEF CheckManual, workVars, recoveryVars
<1>3. ASSUME NEW w \in Workers, RecoverBegin(w)
      PROVE  ClaimedKept
  BY <1>3, <1>0, RecoverBeginFacts DEF Others
<1>4. ASSUME NEW w \in Workers, RecoverCommit(w)
      PROVE  ClaimedKept
  <2> SUFFICES ASSUME NEW v \in Workers, claimed[v] # 0, NEW x \in Series
               PROVE  scopeStatus'[claimed[v]][x] = scopeStatus[claimed[v]][x]
    OBVIOUS
  <2>1. <<claimed[v], x>> \notin toFail[w]
    BY <1>0
  <2>2. scopeStatus'[claimed[v]][x] =
            IF <<claimed[v], x>> \in toFail[w] THEN "failed" ELSE scopeStatus[claimed[v]][x]
    BY <1>4, <1>0, RecoverCommitFacts
  <2> QED
    BY <2>1, <2>2
<1>5. ASSUME NEW w \in Workers, NEW r \in Runs, ClaimNext(w, r)
      PROVE  ClaimedKept
  BY <1>5, <1>0, ClaimNextFacts DEF Others, OtherRuns
<1>6. ASSUME NEW w \in Workers, Beat(w)
      PROVE  ClaimedKept
  BY <1>6, <1>0, BeatFacts DEF Others
<1>7. ASSUME NEW w \in Workers, BackgroundBeat(w)
      PROVE  ClaimedKept
  BY <1>7, <1>0, BackgroundBeatFacts
<1>8. ASSUME NEW w \in Workers, NEW s \in Series, LoadScope(w, s)
      PROVE  ClaimedKept
  BY <1>8, <1>0, LoadScopeFacts DEF Others
<1>9. ASSUME NEW w \in Workers, ScopeStep(w)
      PROVE  ClaimedKept
  BY <1>9, <1>0, ScopeStepFacts, ScopeStepOthers DEF Others
<1>10. ASSUME NEW w \in Workers, Finalize(w)
      PROVE  ClaimedKept
  BY <1>10, <1>0, FinalizeFacts DEF Others, OtherRuns
<1>11. ASSUME NEW w \in Workers, Crash(w)
      PROVE  ClaimedKept
  BY <1>11, <1>0, CrashFacts DEF Others
<1>12. ASSUME NEW r \in Runs, LeaseExpires(r)
      PROVE  ClaimedKept
  BY <1>12, <1>0, LeaseExpiresFacts
<1>13. CASE UNCHANGED vars
  BY <1>13 DEF vars
<1> QED
  BY <1>1, <1>2, <1>3, <1>4, <1>5, <1>6, <1>7, <1>8, <1>9, <1>10, <1>11, <1>12, <1>13, StepCases

\* A worker decides on the current status of its scope, and the scope it works
\* on is running.
Fresh ==
    \A w \in Workers :
        /\ pc[w] \in {"loaded", "free", "conflict"} => view[w] = FreshScope(w)
        /\ Works(w) => FreshScope(w) = "running"

\* The scope a worker starts, skips, completes or fails is active.
LEMMA ScopeStepActive ==
    ASSUME Base, Fresh, NEW w \in Workers, ScopeStep(w)
    PROVE  /\ FreshScope(w)' = FreshScope(w) \/ FreshScope(w) \in ActiveScope
           /\ pc'[w] # "loaded"
           /\ pc'[w] \in {"free", "conflict"} => FreshScope(w)' = FreshScope(w)
           /\ Works(w)' => FreshScope(w)' = "running"
<1>1. /\ claimed[w] \in Runs /\ scope[w] \in Series
      /\ pc \in [Workers -> {"down", "recovering", "polling"} \cup Executing]
      /\ claimed'[w] = claimed[w] /\ scope'[w] = scope[w]
      /\ scopeStatus \in [Runs -> [Series -> ScopeStatus]]
  BY ScopeStepFacts DEF Base, TypeOK
<1>2. CASE LockScope(w) \/ StartRefused(w) \/ RejectScope(w) \/ ProcessFails(w)
  BY <1>1, <1>2 DEF LockScope, StartRefused, RejectScope, ProcessFails, Goto, FreshScope, Works
<1>3. CASE StartScope(w)
  BY <1>1, <1>3 DEF StartScope, Goto, SetScope, Fresh, FreshScope, ActiveScope, Works
<1>4. CASE SkipScope(w)
  BY <1>1, <1>4 DEF SkipScope, Goto, SetScope, Fresh, FreshScope, ActiveScope, Works
<1>5. CASE FetchEnds(w)
  BY <1>1, <1>5 DEF FetchEnds, Goto, Fresh, FreshScope, Works
<1>6. CASE CompleteScope(w) \/ FailScope(w)
  BY <1>1, <1>6 DEF CompleteScope, FailScope, Goto, SetScope, FreshScope, ActiveScope, Works
<1> QED
  BY <1>2, <1>3, <1>4, <1>5, <1>6 DEF ScopeStep

\* Where a worker may come from.
Entered ==
    \A v \in Workers :
        \/ ScopeStep(v)
        \/ pc'[v] = "loaded" /\ claimed'[v] # 0 /\ view'[v] = FreshScope(v)'
        \/ /\ pc'[v] = pc[v] /\ claimed'[v] = claimed[v]
           /\ pc[v] \in InScope => scope'[v] = scope[v] /\ view'[v] = view[v]
        \/ pc'[v] \notin InScope

LEMMA StepEntered ==
    LeaseOutlivesWork /\ Base /\ Ownership /\ Leases /\ Loaded /\ [Next]_vars
        => Entered
<1> SUFFICES ASSUME LeaseOutlivesWork, Base, Ownership, Leases, Loaded, [Next]_vars PROVE Entered
  OBVIOUS
<1> USE DEF Entered
<1>0. /\ claimed \in [Workers -> Runs \cup {0}] /\ 0 \notin Runs
      /\ scope \in [Workers -> Series] /\ locked \in [Workers -> SUBSET Runs]
  BY LifecycleAssumption DEF Base, TypeOK, Runs
<1>1. ASSUME NEW r \in Runs, NEW d \in Ranges, NEW t \in {"manual", "scheduled", "retry"},
             NewRun(r, t, d)
      PROVE  Entered
  BY <1>1, <1>0, NewRunFacts DEF OtherRuns
<1>2. ASSUME NEW c \in Clients, NEW d \in Ranges, CheckManual(c, d)
      PROVE  Entered
  BY <1>2, <1>0 DEF CheckManual, workVars, recoveryVars
<1>3. ASSUME NEW w \in Workers, RecoverBegin(w)
      PROVE  Entered
  BY <1>3, <1>0, RecoverBeginFacts DEF Others, InScope
<1>4. ASSUME NEW w \in Workers, RecoverCommit(w)
      PROVE  Entered
  BY <1>4, <1>0, RecoverCommitFacts DEF Others, InScope
<1>5. ASSUME NEW w \in Workers, NEW r \in Runs, ClaimNext(w, r)
      PROVE  Entered
  BY <1>5, <1>0, ClaimNextFacts DEF Others, OtherRuns, InScope
<1>6. ASSUME NEW w \in Workers, Beat(w)
      PROVE  Entered
  BY <1>6, <1>0, BeatFacts DEF Others, InScope
<1>7. ASSUME NEW w \in Workers, BackgroundBeat(w)
      PROVE  Entered
  BY <1>7, <1>0, BackgroundBeatFacts
<1>8. ASSUME NEW w \in Workers, NEW s \in Series, LoadScope(w, s)
      PROVE  Entered
  BY <1>8, <1>0, LoadScopeFacts DEF Others, FreshScope
<1>9. ASSUME NEW w \in Workers, ScopeStep(w)
      PROVE  Entered
  BY <1>9, <1>0, ScopeStepFacts, ScopeStepOthers DEF Others
<1>10. ASSUME NEW w \in Workers, Finalize(w)
      PROVE  Entered
  BY <1>10, <1>0, FinalizeFacts DEF Others, OtherRuns, InScope
<1>11. ASSUME NEW w \in Workers, Crash(w)
      PROVE  Entered
  BY <1>11, <1>0, CrashFacts DEF Others, InScope
<1>12. ASSUME NEW r \in Runs, LeaseExpires(r)
      PROVE  Entered
  BY <1>12, <1>0, LeaseExpiresFacts
<1>13. CASE UNCHANGED vars
  BY <1>13 DEF vars
<1> QED
  BY <1>1, <1>2, <1>3, <1>4, <1>5, <1>6, <1>7, <1>8, <1>9, <1>10, <1>11, <1>12, <1>13, StepCases

LEMMA StepFresh ==
    LeaseOutlivesWork /\ Base /\ Ownership /\ Leases /\ Loaded /\ Fresh /\ [Next]_vars => Fresh'
<1> SUFFICES ASSUME LeaseOutlivesWork, Base, Ownership, Leases, Loaded, Fresh, [Next]_vars,
                    NEW w \in Workers
             PROVE  /\ pc'[w] \in {"loaded", "free", "conflict"} => view'[w] = FreshScope(w)'
                    /\ Works(w)' => FreshScope(w)' = "running"
  BY DEF Fresh
<1>1. CASE ScopeStep(w)
  <2>1. view'[w] = view[w] /\ scope'[w] = scope[w] /\ claimed'[w] = claimed[w]
    BY <1>1, ScopeStepFacts
  <2>2. pc'[w] \in {"free", "conflict"} => view[w] = FreshScope(w)
    BY <1>1, LockScopeFacts DEF Fresh
  <2> QED
    BY <1>1, <2>1, <2>2, ScopeStepActive
<1>2. CASE pc'[w] = "loaded" /\ claimed'[w] # 0 /\ view'[w] = FreshScope(w)'
  BY <1>2 DEF Works
<1>3. CASE /\ pc'[w] = pc[w] /\ claimed'[w] = claimed[w]
           /\ pc[w] \in InScope => scope'[w] = scope[w] /\ view'[w] = view[w]
           /\ ~ScopeStep(w)
  <2>1. CASE pc[w] \in InScope
    <3>1. claimed[w] # 0 /\ scope[w] \in Series
      BY <2>1 DEF Base, TypeOK, Control, Executing, InScope
    <3>2. FreshScope(w)' = FreshScope(w)
      BY <1>3, <2>1, <3>1, StepClaimedKept DEF ClaimedKept, FreshScope
    <3> QED
      BY <1>3, <2>1, <3>2 DEF Fresh, Works
  <2>2. CASE pc[w] \notin InScope
    BY <1>3, <2>2 DEF InScope, Works
  <2> QED
    BY <2>1, <2>2
<1>4. CASE pc'[w] \notin InScope
  BY <1>4 DEF InScope, Works
<1> QED
  BY <1>1, <1>2, <1>3, <1>4, StepEntered DEF Entered

LEMMA FreshAlways ==
    ASSUME LeaseOutlivesWork
    PROVE  Spec => [](Base /\ Ownership /\ Leases /\ Loaded /\ Fresh)
<1>1. Init => Fresh
  BY DEF Init, Fresh, Works
<1>2. Base /\ Ownership /\ Leases /\ Loaded /\ Fresh /\ [Next]_vars => Fresh'
  BY StepFresh
<1> QED
  BY <1>1, <1>2, LeasesAlways, PTL DEF Spec

\* What became of a scope stays; as a step, of every run and series.
EndedKept ==
    \A q \in Runs, s \in Series :
        scopeStatus[q][s] \notin ActiveScope \cup {"absent"} =>
            scopeStatus'[q][s] = scopeStatus[q][s]

LEMMA StepEndedKept ==
    LeaseOutlivesWork /\ Base /\ Ownership /\ Leases /\ Loaded /\ Fresh /\ [Next]_vars
        => EndedKept
<1> SUFFICES ASSUME LeaseOutlivesWork, Base, Ownership, Leases, Loaded, Fresh, [Next]_vars
             PROVE  EndedKept
  OBVIOUS
<1> USE DEF EndedKept, Ownership, Existence, Locking, Loaded
<1>0. /\ claimed \in [Workers -> Runs \cup {0}] /\ 0 \notin Runs
      /\ scope \in [Workers -> Series] /\ locked \in [Workers -> SUBSET Runs]
  BY LifecycleAssumption DEF Base, TypeOK, Runs
<1>1. ASSUME NEW r \in Runs, NEW d \in Ranges, NEW t \in {"manual", "scheduled", "retry"},
             NewRun(r, t, d)
      PROVE  EndedKept
  BY <1>1, <1>0, NewRunFacts DEF OtherRuns
<1>2. ASSUME NEW c \in Clients, NEW d \in Ranges, CheckManual(c, d)
      PROVE  EndedKept
  BY <1>2, <1>0 DEF CheckManual, workVars, recoveryVars
<1>3. ASSUME NEW w \in Workers, RecoverBegin(w)
      PROVE  EndedKept
  BY <1>3, <1>0, RecoverBeginFacts DEF Others
<1>4. ASSUME NEW w \in Workers, RecoverCommit(w)
      PROVE  EndedKept
  <2> SUFFICES ASSUME NEW q \in Runs, NEW s \in Series,
                      scopeStatus[q][s] \notin ActiveScope \cup {"absent"}
               PROVE  scopeStatus'[q][s] = scopeStatus[q][s]
    OBVIOUS
  <2>1. <<q, s>> \notin toFail[w]
    BY <1>0
  <2>2. scopeStatus'[q][s] = IF <<q, s>> \in toFail[w] THEN "failed" ELSE scopeStatus[q][s]
    BY <1>4, RecoverCommitFacts
  <2> QED
    BY <2>1, <2>2
<1>5. ASSUME NEW w \in Workers, NEW r \in Runs, ClaimNext(w, r)
      PROVE  EndedKept
  BY <1>5, <1>0, ClaimNextFacts DEF Others, OtherRuns
<1>6. ASSUME NEW w \in Workers, Beat(w)
      PROVE  EndedKept
  BY <1>6, <1>0, BeatFacts DEF Others
<1>7. ASSUME NEW w \in Workers, BackgroundBeat(w)
      PROVE  EndedKept
  BY <1>7, <1>0, BackgroundBeatFacts
<1>8. ASSUME NEW w \in Workers, NEW s \in Series, LoadScope(w, s)
      PROVE  EndedKept
  BY <1>8, <1>0, LoadScopeFacts DEF Others
<1>9. ASSUME NEW w \in Workers, ScopeStep(w)
      PROVE  EndedKept
  BY <1>9, <1>0, ScopeStepFacts, ScopeStepOthers, ScopeStepActive DEF Others, FreshScope
<1>10. ASSUME NEW w \in Workers, Finalize(w)
      PROVE  EndedKept
  BY <1>10, <1>0, FinalizeFacts DEF Others, OtherRuns
<1>11. ASSUME NEW w \in Workers, Crash(w)
      PROVE  EndedKept
  BY <1>11, <1>0, CrashFacts DEF Others
<1>12. ASSUME NEW r \in Runs, LeaseExpires(r)
      PROVE  EndedKept
  BY <1>12, <1>0, LeaseExpiresFacts
<1>13. CASE UNCHANGED vars
  BY <1>13 DEF vars
<1> QED
  BY <1>1, <1>2, <1>3, <1>4, <1>5, <1>6, <1>7, <1>8, <1>9, <1>10, <1>11, <1>12, <1>13, StepCases

\* Neither recovery nor a worker that decides on what its session loaded before
\* it waited for the advisory lock revives or rewrites an ended scope.
THEOREM EndedFinal ==
    ASSUME LeaseOutlivesWork
    PROVE  Spec => EndedScopesAreFinal
<1>1. Base /\ Ownership /\ Leases /\ Loaded /\ Fresh /\ [Next]_vars =>
        [\A r \in Runs, s \in Series :
            scopeStatus[r][s] \notin ActiveScope \cup {"absent"} =>
                scopeStatus'[r][s] = scopeStatus[r][s]]_vars
  BY StepEndedKept DEF EndedKept
<1> QED
  BY <1>1, FreshAlways, PTL DEF Spec, EndedScopesAreFinal

-----------------------------------------------------------------------------
(***************************************************************************)
(* The status of a run says what became of its scopes.                     *)
(***************************************************************************)
LEMMA DeriveIsHonest ==
    ASSUME NEW st, \A s \in Series : st[s] \in {"succeeded", "failed", "skipped_conflict"}
    PROVE  LET ingested == {s \in Series : st[s] = "succeeded"}
           IN  /\ DeriveStatus(st) = "succeeded" <=> ingested = Series
               /\ DeriveStatus(st) = "failed" <=> ingested = {}
<1> DEFINE some(x) == \E s \in Series : st[s] = x
<1>1. CASE some("succeeded") /\ (some("failed") \/ some("skipped_conflict"))
  <2>1. DeriveStatus(st) = "partially_succeeded"
    BY <1>1 DEF DeriveStatus
  <2> QED
    BY <1>1, <2>1
<1>2. CASE ~some("succeeded")
  <2>1. PICK s \in Series : TRUE
    BY LifecycleAssumption
  <2>2. some("failed") \/ some("skipped_conflict")
    BY <1>2, <2>1
  <2>3. DeriveStatus(st) = "failed"
    BY <1>2, <2>2 DEF DeriveStatus
  <2> QED
    BY <1>2, <2>1, <2>3
<1>3. CASE some("succeeded") /\ ~(some("failed") \/ some("skipped_conflict"))
  <2>1. DeriveStatus(st) = "succeeded"
    BY <1>3 DEF DeriveStatus
  <2>2. \A s \in Series : st[s] = "succeeded"
    BY <1>3
  <2> QED
    BY <1>3, <2>1, <2>2
<1> QED
  BY <1>1, <1>2, <1>3

\* A run ends with all its scopes ended, and the status derived from them.
TerminalEntered ==
    \A q \in Runs : runStatus[q] \notin TerminalRun /\ runStatus'[q] \in TerminalRun =>
        AllScopesTerminal(q)' /\ runStatus'[q] = DeriveStatus(scopeStatus'[q])

LEMMA StepTerminalEntered ==
    LeaseOutlivesWork /\ Base /\ Ownership /\ Leases /\ Loaded /\ [Next]_vars
        => TerminalEntered
<1> SUFFICES ASSUME LeaseOutlivesWork, Base, Ownership, Leases, Loaded, [Next]_vars
             PROVE  TerminalEntered
  OBVIOUS
<1> USE DEF TerminalEntered, TerminalRun, Loaded
<1>0. /\ claimed \in [Workers -> Runs \cup {0}] /\ 0 \notin Runs
      /\ scope \in [Workers -> Series] /\ locked \in [Workers -> SUBSET Runs]
  BY LifecycleAssumption DEF Base, TypeOK, Runs
<1>1. ASSUME NEW r \in Runs, NEW d \in Ranges, NEW t \in {"manual", "scheduled", "retry"},
             NewRun(r, t, d)
      PROVE  TerminalEntered
  BY <1>1, <1>0, NewRunFacts DEF OtherRuns
<1>2. ASSUME NEW c \in Clients, NEW d \in Ranges, CheckManual(c, d)
      PROVE  TerminalEntered
  BY <1>2, <1>0 DEF CheckManual, workVars, recoveryVars
<1>3. ASSUME NEW w \in Workers, RecoverBegin(w)
      PROVE  TerminalEntered
  BY <1>3, <1>0, RecoverBeginFacts DEF Others
<1>4. ASSUME NEW w \in Workers, RecoverCommit(w)
      PROVE  TerminalEntered
  <2> SUFFICES ASSUME NEW q \in Runs, runStatus[q] \notin TerminalRun, runStatus'[q] \in TerminalRun
               PROVE  AllScopesTerminal(q)' /\ runStatus'[q] = DeriveStatus(scopeStatus'[q])
    OBVIOUS
  <2>1. q \in locked[w]
    BY <1>4, RecoverCommitFacts
  <2>2. ASSUME NEW s \in Series PROVE scopeStatus'[q][s] \notin ActiveScope
    <3>1. scopeStatus'[q][s] = IF <<q, s>> \in toFail[w] THEN "failed" ELSE scopeStatus[q][s]
      BY <1>4, RecoverCommitFacts
    <3> QED
      BY <2>1, <3>1 DEF ActiveScope
  <2> QED
    BY <1>4, <2>1, <2>2, RecoverCommitFacts DEF AllScopesTerminal
<1>5. ASSUME NEW w \in Workers, NEW r \in Runs, ClaimNext(w, r)
      PROVE  TerminalEntered
  BY <1>5, <1>0, ClaimNextFacts DEF Others, OtherRuns
<1>6. ASSUME NEW w \in Workers, Beat(w)
      PROVE  TerminalEntered
  BY <1>6, <1>0, BeatFacts DEF Others
<1>7. ASSUME NEW w \in Workers, BackgroundBeat(w)
      PROVE  TerminalEntered
  BY <1>7, <1>0, BackgroundBeatFacts
<1>8. ASSUME NEW w \in Workers, NEW s \in Series, LoadScope(w, s)
      PROVE  TerminalEntered
  BY <1>8, <1>0, LoadScopeFacts DEF Others
<1>9. ASSUME NEW w \in Workers, ScopeStep(w)
      PROVE  TerminalEntered
  BY <1>9, <1>0, ScopeStepFacts, ScopeStepOthers DEF Others
<1>10. ASSUME NEW w \in Workers, Finalize(w)
      PROVE  TerminalEntered
  BY <1>10, <1>0, FinalizeFacts DEF Others, OtherRuns, AllScopesTerminal
<1>11. ASSUME NEW w \in Workers, Crash(w)
      PROVE  TerminalEntered
  BY <1>11, <1>0, CrashFacts DEF Others
<1>12. ASSUME NEW r \in Runs, LeaseExpires(r)
      PROVE  TerminalEntered
  BY <1>12, <1>0, LeaseExpiresFacts
<1>13. CASE UNCHANGED vars
  BY <1>13 DEF vars
<1> QED
  BY <1>1, <1>2, <1>3, <1>4, <1>5, <1>6, <1>7, <1>8, <1>9, <1>10, <1>11, <1>12, <1>13, StepCases

\* The status that derive_status computes, for a worker and for recovery alike,
\* says exactly what was ingested.
StatusIsExact ==
    \A r \in Runs : runStatus[r] \in TerminalRun =>
        LET ingested == {s \in Series : scopeStatus[r][s] = "succeeded"}
        IN  /\ AllScopesTerminal(r)
            /\ runStatus[r] = "succeeded" <=> ingested = Series
            /\ runStatus[r] = "failed" <=> ingested = {}

LEMMA StepHonest ==
    LeaseOutlivesWork /\ Base /\ Ownership /\ Leases /\ Loaded /\ Fresh
        /\ StatusIsExact /\ [Next]_vars => StatusIsExact'
<1> SUFFICES ASSUME LeaseOutlivesWork, Base, Ownership, Leases, Loaded, Fresh,
                    StatusIsExact, [Next]_vars,
                    NEW r \in Runs, runStatus'[r] \in TerminalRun
             PROVE  LET ingested == {s \in Series : scopeStatus'[r][s] = "succeeded"}
                    IN  /\ AllScopesTerminal(r)'
                        /\ runStatus'[r] = "succeeded" <=> ingested = Series
                        /\ runStatus'[r] = "failed" <=> ingested = {}
  BY DEF StatusIsExact
<1>1. \A s \in Series : scopeStatus'[r][s] # "absent"
  <2>1. Existence'
    BY StepExistence
  <2> QED
    BY <2>1 DEF Existence, TerminalRun
<1>2. CASE runStatus[r] \in TerminalRun
  <2>1. runStatus'[r] = runStatus[r]
    BY <1>2, StepTerminalKept DEF TerminalKept
  <2>2. \A s \in Series : scopeStatus[r][s] \notin ActiveScope \cup {"absent"}
    BY <1>2 DEF StatusIsExact, AllScopesTerminal, Ownership, Existence, TerminalRun
  <2>3. \A s \in Series : scopeStatus'[r][s] = scopeStatus[r][s]
    BY <2>2, StepEndedKept DEF EndedKept
  <2> QED
    BY <1>2, <2>1, <2>3 DEF StatusIsExact, AllScopesTerminal
<1>3. CASE runStatus[r] \notin TerminalRun
  <2>1. AllScopesTerminal(r)' /\ runStatus'[r] = DeriveStatus(scopeStatus'[r])
    BY <1>3, StepTerminalEntered DEF TerminalEntered
  <2>2. \A s \in Series : scopeStatus'[r][s] \in {"succeeded", "failed", "skipped_conflict"}
    <3>1. TypeOK'
      BY StepBase DEF Base
    <3> QED
      BY <1>1, <2>1, <3>1 DEF TypeOK, ScopeStatus, AllScopesTerminal, ActiveScope
  <2> QED
    BY <2>1, <2>2, DeriveIsHonest
<1> QED
  BY <1>2, <1>3

\* A run that ended has no active scope left, and its status never claims more
\* than was ingested, whoever ended it.
THEOREM HonestStatus ==
    ASSUME LeaseOutlivesWork
    PROVE  Spec => []TerminalStatusIsHonest
<1>1. Init => StatusIsExact
  BY DEF Init, StatusIsExact, TerminalRun
<1>2. Base /\ Ownership /\ Leases /\ Loaded /\ Fresh /\ StatusIsExact /\ [Next]_vars
        => StatusIsExact'
  BY StepHonest
<1>3. StatusIsExact => TerminalStatusIsHonest
  BY DEF StatusIsExact, TerminalStatusIsHonest, TerminalRun
<1> QED
  BY <1>1, <1>2, <1>3, FreshAlways, PTL DEF Spec

-----------------------------------------------------------------------------
(***************************************************************************)
(* Overlapping scopes are not processed at the same time.                  *)
(***************************************************************************)
LEMMA OverlapSymmetric ==
    ASSUME NEW a \in Ranges, NEW b \in Ranges
    PROVE  Overlap(a, b) <=> Overlap(b, a)
<1>1. a \in [start : Int, end : Int] /\ b \in [start : Int, end : Int]
  BY LifecycleAssumption
<1> QED
  BY <1>1 DEF Overlap

\* From the moment a worker found its scope free, until the end of its work.
Engaged(w) == pc[w] = "free" \/ Works(w)

\* Workers at work are apart from those engaged after them: they found the
\* scopes at work running when they looked for overlaps.
Apart ==
    \A v, w \in Workers : v # w /\ scope[v] = scope[w] /\ Engaged(v) /\ Works(w) =>
        ~Overlap(range[claimed[v]], range[claimed[w]])

\* How a worker becomes engaged, and starts to work.
EngagedFrom ==
    \A v \in Workers : Engaged(v)' =>
        /\ claimed'[v] = claimed[v] /\ scope'[v] = scope[v] /\ claimed[v] \in Runs
        /\ Engaged(v) \/ ( /\ pc'[v] = "free" /\ Others(v)
                           /\ ~ActiveOverlap(claimed[v], scope[v], range[claimed[v]]) )
        /\ Works(v)' => Engaged(v)

LEMMA ScopeStepEngaged ==
    ASSUME Base, NEW w \in Workers, ScopeStep(w), Engaged(w)'
    PROVE  /\ Engaged(w) \/ ( /\ pc'[w] = "free" /\ Others(w)
                              /\ ~ActiveOverlap(claimed[w], scope[w], range[claimed[w]]) )
           /\ Works(w)' => Engaged(w)
<1>1. pc \in [Workers -> {"down", "recovering", "polling"} \cup Executing]
  BY DEF Base, TypeOK
<1>2. CASE pc'[w] = "free"
  BY <1>2, LockScopeFacts, ScopeStepOthers DEF Works
<1>3. CASE pc'[w] # "free"
  BY <1>1, <1>3 DEF ScopeStep, LockScope, StartScope, StartRefused, SkipScope, RejectScope,
         FetchEnds, ProcessFails, CompleteScope, FailScope, Goto, Engaged, Works
<1> QED
  BY <1>2, <1>3

LEMMA StepEngagedFrom == Base /\ [Next]_vars => EngagedFrom
<1> SUFFICES ASSUME Base, [Next]_vars PROVE EngagedFrom
  OBVIOUS
<1> USE DEF EngagedFrom, Engaged, Works
<1>0. /\ claimed \in [Workers -> Runs \cup {0}] /\ 0 \notin Runs
      /\ scope \in [Workers -> Series] /\ locked \in [Workers -> SUBSET Runs]
      /\ \A w \in Workers : Engaged(w) => claimed[w] # 0
  BY LifecycleAssumption DEF Base, TypeOK, Runs, Control, Executing
<1>1. ASSUME NEW r \in Runs, NEW d \in Ranges, NEW t \in {"manual", "scheduled", "retry"},
             NewRun(r, t, d)
      PROVE  EngagedFrom
  BY <1>1, <1>0, NewRunFacts DEF OtherRuns
<1>2. ASSUME NEW c \in Clients, NEW d \in Ranges, CheckManual(c, d)
      PROVE  EngagedFrom
  BY <1>2, <1>0 DEF CheckManual, workVars, recoveryVars
<1>3. ASSUME NEW w \in Workers, RecoverBegin(w)
      PROVE  EngagedFrom
  BY <1>3, <1>0, RecoverBeginFacts DEF Others
<1>4. ASSUME NEW w \in Workers, RecoverCommit(w)
      PROVE  EngagedFrom
  BY <1>4, <1>0, RecoverCommitFacts DEF Others
<1>5. ASSUME NEW w \in Workers, NEW r \in Runs, ClaimNext(w, r)
      PROVE  EngagedFrom
  BY <1>5, <1>0, ClaimNextFacts DEF Others, OtherRuns
<1>6. ASSUME NEW w \in Workers, Beat(w)
      PROVE  EngagedFrom
  BY <1>6, <1>0, BeatFacts DEF Others
<1>7. ASSUME NEW w \in Workers, BackgroundBeat(w)
      PROVE  EngagedFrom
  BY <1>7, <1>0, BackgroundBeatFacts
<1>8. ASSUME NEW w \in Workers, NEW s \in Series, LoadScope(w, s)
      PROVE  EngagedFrom
  BY <1>8, <1>0, LoadScopeFacts DEF Others
<1>9. ASSUME NEW w \in Workers, ScopeStep(w)
      PROVE  EngagedFrom
  BY <1>9, <1>0, ScopeStepFacts, ScopeStepOthers, ScopeStepEngaged DEF Others
<1>10. ASSUME NEW w \in Workers, Finalize(w)
      PROVE  EngagedFrom
  BY <1>10, <1>0, FinalizeFacts DEF Others, OtherRuns
<1>11. ASSUME NEW w \in Workers, Crash(w)
      PROVE  EngagedFrom
  BY <1>11, <1>0, CrashFacts DEF Others
<1>12. ASSUME NEW r \in Runs, LeaseExpires(r)
      PROVE  EngagedFrom
  BY <1>12, <1>0, LeaseExpiresFacts
<1>13. CASE UNCHANGED vars
  BY <1>13, <1>0 DEF vars
<1> QED
  BY <1>1, <1>2, <1>3, <1>4, <1>5, <1>6, <1>7, <1>8, <1>9, <1>10, <1>11, <1>12, <1>13, StepCases

LEMMA StepApart ==
    Base /\ Ownership /\ LockExclusive /\ Fresh /\ Apart /\ [Next]_vars => Apart'
<1> SUFFICES ASSUME Base, Ownership, LockExclusive, Fresh, Apart, [Next]_vars,
                    NEW v \in Workers, NEW w \in Workers, v # w, scope'[v] = scope'[w],
                    Engaged(v)', Works(w)'
             PROVE  ~Overlap(range'[claimed'[v]], range'[claimed'[w]])
  BY DEF Apart, Overlap
<1>1. /\ claimed'[v] = claimed[v] /\ scope'[v] = scope[v] /\ claimed[v] \in Runs
      /\ claimed'[w] = claimed[w] /\ scope'[w] = scope[w] /\ claimed[w] \in Runs
      /\ Engaged(w)
  BY StepEngagedFrom DEF EngagedFrom, Engaged
<1>2. range'[claimed[v]] = range[claimed[v]] /\ range'[claimed[w]] = range[claimed[w]]
  <2>1. \A x \in Workers : claimed[x] \in Runs => range'[claimed[x]] = range[claimed[x]]
    <3> SUFFICES ASSUME NEW x \in Workers, claimed[x] \in Runs
                 PROVE  range'[claimed[x]] = range[claimed[x]]
      OBVIOUS
    <3>1. runStatus[claimed[x]] # "absent" /\ scope[x] \in Series
      BY LifecycleAssumption DEF Ownership, RunHasOneWorker, Runs, Base, TypeOK
    <3> QED
      BY <3>1, StepSkippedKept DEF SkippedKept, Ownership, Existence
  <2> QED
    BY <1>1, <2>1
<1>3. range[claimed[v]] \in Ranges /\ range[claimed[w]] \in Ranges
  BY <1>1 DEF Base, TypeOK
<1>4. CASE Engaged(v) /\ Works(w)
  BY <1>1, <1>2, <1>4 DEF Apart
<1>5. CASE Engaged(v) /\ ~Works(w)
  <2>1. pc[w] = "free"
    BY <1>1, <1>5 DEF Engaged
  <2>2. Works(v)
    BY <1>1, <1>5, <2>1 DEF LockExclusive, LockHolder, Engaged
  <2>3. ~Overlap(range[claimed[w]], range[claimed[v]])
    BY <1>1, <2>2 DEF Apart
  <2> QED
    BY <1>1, <1>2, <1>3, <2>3, OverlapSymmetric
<1>6. CASE ~Engaged(v)
  <2>1. Others(v) /\ ~ActiveOverlap(claimed[v], scope[v], range[claimed[v]])
    BY <1>6, StepEngagedFrom DEF EngagedFrom
  <2>2. Works(w)
    BY <2>1 DEF Others, Works
  <2>3. scopeStatus[claimed[w]][scope[v]] \in ActiveScope
    BY <1>1, <2>2 DEF Fresh, FreshScope, ActiveScope
  <2>4. claimed[w] # claimed[v]
    BY <1>1, LifecycleAssumption DEF Ownership, RunHasOneWorker, Runs
  <2>5. ~Overlap(range[claimed[w]], range[claimed[v]])
    BY <1>1, <2>1, <2>3, <2>4 DEF ActiveOverlap
  <2> QED
    BY <1>1, <1>2, <1>3, <2>5, OverlapSymmetric
<1> QED
  BY <1>4, <1>5, <1>6

\* Two workers never fetch and persist overlapping scopes of one series at the
\* same time: the advisory lock covers the look for overlaps and the start.
THEOREM NoConcurrent ==
    ASSUME LeaseOutlivesWork
    PROVE  Spec => []NoConcurrentProcessing
<1>1. Init => LockExclusive /\ Apart
  BY DEF Init, LockExclusive, LockHolder, Apart, Engaged, Works
<1>2. Base /\ Apart => NoConcurrentProcessing
  <2> SUFFICES ASSUME Base, Apart, NEW v \in Workers, NEW w \in Workers, v # w, Works(v), Works(w),
                      scope[v] = scope[w]
               PROVE  ~ShareADay(claimed[v], claimed[w])
    BY DEF NoConcurrentProcessing
  <2>1. claimed[v] \in Runs /\ claimed[w] \in Runs
    BY DEF Base, TypeOK, Control, Executing, Works
  <2>2. ~Overlap(range[claimed[v]], range[claimed[w]])
    BY DEF Apart, Engaged
  <2> QED
    BY <2>1, <2>2, OverlapSharesADay
<1> QED
  BY <1>1, <1>2, StepLockExclusive, StepApart, FreshAlways, PTL DEF Spec

-----------------------------------------------------------------------------
(***************************************************************************)
(* Overlapping manual runs are not active together.                        *)
(***************************************************************************)
ManualActive(q, s) == trigger[q] = "manual" /\ scopeStatus[q][s] \in ActiveScope

\* One client at a time is enqueueing, and no manual run has become active in
\* its range since it looked.
ManualAsked ==
    /\ \A c, e \in Clients : asked[c] # NoRange /\ asked[e] # NoRange => c = e
    /\ \A c \in Clients, q \in Runs, s \in Series :
        asked[c] # NoRange /\ ManualActive(q, s) => ~Overlap(range[q], asked[c])

ManualApart ==
    \A q, r \in Runs, s \in Series :
        q # r /\ ManualActive(q, s) /\ ManualActive(r, s) => ~Overlap(range[q], range[r])

\* A scope is active since its run exists, or becomes active with it; a client
\* asks for what it asked for before, or has just looked for overlaps.
ActiveFrom ==
    /\ \A q \in Runs, s \in Series : ManualActive(q, s)' =>
        \/ ManualActive(q, s) /\ range'[q] = range[q]
        \/ \E d \in Ranges : NewRun(q, "manual", d)
    /\ \A c \in Clients : asked'[c] # NoRange =>
        asked'[c] = asked[c] \/ \E d \in Ranges : CheckManual(c, d)

LEMMA NewRunActive ==
    ASSUME Base, Ownership, NEW r \in Runs, NEW d \in Ranges,
           NEW t \in {"manual", "scheduled", "retry"}, NewRun(r, t, d)
    PROVE  ActiveFrom
<1>1. ASSUME NEW q \in Runs, NEW s \in Series, ManualActive(q, s)'
      PROVE  \/ ManualActive(q, s) /\ range'[q] = range[q]
             \/ \E e \in Ranges : NewRun(q, "manual", e)
  BY <1>1, NewRunFacts DEF ManualActive
<1>2. ASSUME NEW c \in Clients, asked'[c] # NoRange
      PROVE  asked'[c] = asked[c]
  BY <1>2 DEF NewRun, Base, TypeOK
<1> QED
  BY <1>1, <1>2 DEF ActiveFrom

LEMMA CheckManualActive ==
    ASSUME Base, NEW c \in Clients, NEW d \in Ranges, CheckManual(c, d)
    PROVE  ActiveFrom
<1>1. ASSUME NEW e \in Clients, asked'[e] # NoRange
      PROVE  asked'[e] = asked[e] \/ \E f \in Ranges : CheckManual(e, f)
  BY <1>1 DEF CheckManual, Base, TypeOK
<1> QED
  BY <1>1 DEF ActiveFrom, ManualActive, CheckManual

LEMMA StepActiveFrom ==
    LeaseOutlivesWork /\ Base /\ Ownership /\ Leases /\ Loaded /\ Fresh /\ [Next]_vars
        => ActiveFrom
<1> SUFFICES ASSUME LeaseOutlivesWork, Base, Ownership, Leases, Loaded, Fresh, [Next]_vars
             PROVE  ActiveFrom
  OBVIOUS
<1> USE DEF ActiveFrom, ManualActive
<1>0. /\ claimed \in [Workers -> Runs \cup {0}] /\ 0 \notin Runs
      /\ scope \in [Workers -> Series] /\ locked \in [Workers -> SUBSET Runs]
  BY LifecycleAssumption DEF Base, TypeOK, Runs
<1>1. ASSUME NEW r \in Runs, NEW d \in Ranges, NEW t \in {"manual", "scheduled", "retry"},
             NewRun(r, t, d)
      PROVE  ActiveFrom
  BY <1>1, NewRunActive
<1>2. ASSUME NEW c \in Clients, NEW d \in Ranges, CheckManual(c, d)
      PROVE  ActiveFrom
  BY <1>2, CheckManualActive
<1>3. ASSUME NEW w \in Workers, RecoverBegin(w)
      PROVE  ActiveFrom
  BY <1>3, <1>0, RecoverBeginFacts DEF Others
<1>4. ASSUME NEW w \in Workers, RecoverCommit(w)
      PROVE  ActiveFrom
  <2>1. \A q \in Runs, s \in Series : scopeStatus'[q][s] \in {"failed", scopeStatus[q][s]}
    BY <1>4, RecoverCommitScopes
  <2> QED
    BY <1>4, <2>1, RecoverCommitFacts DEF ActiveScope
<1>5. ASSUME NEW w \in Workers, NEW r \in Runs, ClaimNext(w, r)
      PROVE  ActiveFrom
  BY <1>5, <1>0, ClaimNextFacts DEF Others, OtherRuns
<1>6. ASSUME NEW w \in Workers, Beat(w)
      PROVE  ActiveFrom
  BY <1>6, <1>0, BeatFacts DEF Others
<1>7. ASSUME NEW w \in Workers, BackgroundBeat(w)
      PROVE  ActiveFrom
  BY <1>7, <1>0, BackgroundBeatFacts
<1>8. ASSUME NEW w \in Workers, NEW s \in Series, LoadScope(w, s)
      PROVE  ActiveFrom
  BY <1>8, <1>0, LoadScopeFacts DEF Others
<1>9. ASSUME NEW w \in Workers, ScopeStep(w)
      PROVE  ActiveFrom
  BY <1>9, <1>0, ScopeStepFacts, ScopeStepOthers, ScopeStepActive DEF Others, FreshScope
<1>10. ASSUME NEW w \in Workers, Finalize(w)
      PROVE  ActiveFrom
  BY <1>10, <1>0, FinalizeFacts DEF Others, OtherRuns
<1>11. ASSUME NEW w \in Workers, Crash(w)
      PROVE  ActiveFrom
  BY <1>11, <1>0, CrashFacts DEF Others
<1>12. ASSUME NEW r \in Runs, LeaseExpires(r)
      PROVE  ActiveFrom
  BY <1>12, <1>0, LeaseExpiresFacts
<1>13. CASE UNCHANGED vars
  BY <1>13 DEF vars
<1> QED
  BY <1>1, <1>2, <1>3, <1>4, <1>5, <1>6, <1>7, <1>8, <1>9, <1>10, <1>11, <1>12, <1>13, StepCases

LEMMA NewRunAsked ==
    ASSUME Base, Ownership, ManualAsked, NEW r \in Runs, NEW d \in Ranges, NewRun(r, "manual", d)
    PROVE  /\ \A c \in Clients : asked'[c] = NoRange
           /\ \A q \in Runs, s \in Series : ManualActive(q, s) => ~Overlap(range[q], d)
<1>1. PICK c \in Clients : asked[c] = d /\ asked' = [asked EXCEPT ![c] = NoRange]
  BY DEF NewRun
<1>2. asked[c] # NoRange
  BY <1>1, LifecycleAssumption
<1> QED
  BY <1>1, <1>2 DEF ManualAsked, Base, TypeOK

LEMMA StepManualAsked ==
    ActiveFrom /\ Base /\ Ownership /\ ManualAsked => ManualAsked'
<1> SUFFICES ASSUME ActiveFrom, Base, Ownership, ManualAsked
             PROVE  ManualAsked'
  OBVIOUS
<1>1. ASSUME NEW c \in Clients, NEW e \in Clients, asked'[c] # NoRange, asked'[e] # NoRange
      PROVE  c = e
  <2>1. ASSUME NEW x \in Clients, NEW d \in Ranges, CheckManual(x, d)
        PROVE  \A y \in Clients : asked'[y] # NoRange => y = x
    BY <2>1 DEF CheckManual, EnqueueLocked, Base, TypeOK
  <2> QED
    BY <1>1, <2>1 DEF ActiveFrom, ManualAsked
<1>2. ASSUME NEW c \in Clients, NEW q \in Runs, NEW s \in Series, asked'[c] # NoRange,
             ManualActive(q, s)'
      PROVE  ~Overlap(range'[q], asked'[c])
  <2>1. ManualActive(q, s) /\ range'[q] = range[q]
    BY <1>2, NewRunAsked DEF ActiveFrom
  <2>2. CASE asked'[c] = asked[c]
    BY <1>2, <2>1, <2>2 DEF ManualAsked
  <2>3. ASSUME NEW d \in Ranges, CheckManual(c, d)
        PROVE  ~Overlap(range'[q], asked'[c])
    <3>1. asked'[c] = d /\ q \in Runs \ {0}
      BY <2>3, LifecycleAssumption DEF CheckManual, Base, TypeOK, Runs
    <3> QED
      BY <2>1, <2>3, <3>1 DEF CheckManual, ActiveOverlap, ManualActive
  <2> QED
    BY <1>2, <2>2, <2>3 DEF ActiveFrom
<1> QED
  BY <1>1, <1>2 DEF ManualAsked, Overlap

LEMMA StepManualApart ==
    ActiveFrom /\ Base /\ Ownership /\ ManualAsked /\ ManualApart => ManualApart'
<1> SUFFICES ASSUME ActiveFrom, Base, Ownership, ManualAsked, ManualApart,
                    NEW q \in Runs, NEW r \in Runs, NEW s \in Series, q # r,
                    ManualActive(q, s)', ManualActive(r, s)'
             PROVE  ~Overlap(range'[q], range'[r])
  BY DEF ManualApart, Overlap
<1>1. CASE /\ ManualActive(q, s) /\ range'[q] = range[q]
           /\ ManualActive(r, s) /\ range'[r] = range[r]
  BY <1>1 DEF ManualApart
<1>2. ASSUME NEW x \in Runs, NEW y \in Runs, x # y, NEW d \in Ranges, NewRun(x, "manual", d),
             ManualActive(y, s)'
      PROVE  ~Overlap(range'[y], range'[x]) /\ ~Overlap(range'[x], range'[y])
  <2>1. /\ range'[x] = d /\ range'[y] = range[y] /\ ManualActive(y, s)
        /\ range[y] \in Ranges
    BY <1>2, NewRunFacts DEF ManualActive, Base, TypeOK
  <2> QED
    BY <1>2, <2>1, NewRunAsked, OverlapSymmetric
<1> QED
  BY <1>1, <1>2 DEF ActiveFrom

\* The second of two overlapping manual requests is refused while scopes of the
\* first are active: no interleaving of checks, commits, workers and recoveries
\* leaves both of them active.
THEOREM ManualExclusive ==
    ASSUME LeaseOutlivesWork
    PROVE  Spec => []ManualRunsExclusive
<1>1. Init => ManualAsked /\ ManualApart
  BY DEF Init, ManualAsked, ManualApart, ManualActive, ActiveScope
<1>2. Base /\ Ownership /\ Leases /\ Loaded /\ Fresh /\ ManualAsked /\ ManualApart /\ [Next]_vars
        => ManualAsked' /\ ManualApart'
  BY StepActiveFrom, StepManualAsked, StepManualApart
<1>3. Base /\ ManualApart => ManualRunsExclusive
  BY OverlapSharesADay DEF ManualApart, ManualActive, ManualRunsExclusive
<1> QED
  BY <1>1, <1>2, <1>3, FreshAlways, PTL DEF Spec
=============================================================================
