--------------------------- MODULE RouterAgentProofs ---------------------------
(***************************************************************************)
(* What the router agent's transaction engine guarantees, for every set of *)
(* plans, grants and sections, every deadline and every number of faults:  *)
(* a committed change is always somebody's to settle, and then how a       *)
(* transaction ends: along the contract of the journal, with a verdict     *)
(* that stays and means what it says, without an operator when nobody      *)
(* interferes, and leaving nothing behind.  All of it is about routers on  *)
(* which no apply is admitted while an operator's --clear runs, which      *)
(* would unlink the journal that the apply armed (ApplyDuringClear).       *)
(***************************************************************************)
EXTENDS RouterAgent, TLAPS

\* A delta on top of a configuration is a configuration, a delta on top of a
\* delta is a delta.
LEMMA OverConfig ==
  ASSUME NEW d \in Deltas, NEW c \in Configs
  PROVE  Over(d, c) \in Configs
BY DEF Deltas, Configs, Over

\* A delta laid over a delta is one.
LEMMA OverDelta ==
  ASSUME NEW d \in Deltas, NEW e \in Deltas
  PROVE  Over(d, e) \in Deltas
<1> DEFINE S == DOMAIN d \cup DOMAIN e
<1>1. S \in SUBSET Sections
  BY DEF Deltas
<1>2. \A s \in S : (IF s \in DOMAIN d THEN d[s] ELSE e[s]) \in Contents
  BY DEF Deltas
<1>3. Over(d, e) \in [S -> Contents]
  BY <1>2 DEF Over
<1> QED
  BY <1>1, <1>3 DEF Deltas

\* So are the empty one and the operations of a plan ...
LEMMA SmallDeltas ==
  /\ NoDelta \in Deltas
  /\ \A p \in Plans : Operations[p] \in Deltas
<1>1. NoDelta \in Deltas
  <2>1. {} \in SUBSET Sections /\ NoDelta \in [{} -> Contents]
    BY DEF NoDelta
  <2> QED
    BY <2>1 DEF Deltas
<1>2. ASSUME NEW p \in Plans
      PROVE  Operations[p] \in Deltas
  <2>1. PICK S \in SUBSET Sections :
          Operations[p] \in [S -> Owned \cup {Absent}]
    BY ConfigurationAssumption
  <2>2. Operations[p] \in [S -> Contents]
    BY <2>1 DEF Contents
  <2> QED
    BY <2>2 DEF Deltas
<1> QED
  BY <1>1, <1>2

\* ... and what somebody else writes into one section.
LEMMA OneSection ==
  ASSUME NEW s \in Sections, NEW c \in Foreign \cup {Absent}
  PROVE  [x \in {s} |-> c] \in Deltas
<1>1. {s} \in SUBSET Sections /\ [x \in {s} |-> c] \in [{s} -> Contents]
  BY DEF Contents
<1> QED
  BY <1>1 DEF Deltas

\* An invocation that starts on active.json.
LEMMA WorkingType ==
  ASSUME TypeOK, active # Null, NEW op \in {"confirm", "rollback", "tick"},
         NEW at \in {"rollback", "archive"}
  PROVE  /\ active \in Journals /\ active.plan \in Plans
         /\ Working(op, at) \in Invocations
<1>1. active \in Journals /\ active.plan \in Plans
  BY DEF TypeOK, Journals
<1> QED
  BY <1>1 DEF Working, Invocations, Steps, RollbackSteps

\* A fault is counted, and never beyond the bound.
LEMMA FaultCount ==
  ASSUME TypeOK, NEW kind, Fault(kind)
  PROVE  faults' \in 0 .. MaxFaults
BY TimingAssumption DEF TypeOK, Fault

\* Every step keeps the types, given what the invocation is known to hold.
LEMMA TypeStep ==
  ASSUME TypeOK, Grounded, [Next]_vars
  PROVE  TypeOK'
<1> USE ConfigurationAssumption, TimingAssumption
    DEF TypeOK, Invocations, Steps, UnarmedSteps, ArmedSteps, RollbackSteps,
        config, journal
<1>1. ASSUME NEW p \in Plans, Plan(p)
      PROVE  TypeOK'
  BY <1>1 DEF Plan
<1>2. ASSUME NEW p \in Plans, Confirm(p)
      PROVE  TypeOK'
  BY <1>2, WorkingType DEF Confirm, LockFree, Verdicts
<1>3. ASSUME NEW p \in Plans, Rollback(p)
      PROVE  TypeOK'
  BY <1>3, WorkingType DEF Rollback, LockFree
<1>4. ASSUME NEW p \in Plans, Validate(p)
      PROVE  TypeOK'
  BY <1>4, SmallDeltas DEF Validate, LockFree, Idle
<1>5. ASSUME NEW g \in Grants, ApplyAdmit(g)
      PROVE  TypeOK'
  BY <1>5 DEF ApplyAdmit, LockFree, Idle
<1>6. CASE ApplyCheck
  BY <1>6 DEF ApplyCheck, ApplyAllowed, Idle
<1>7. CASE ApplyBackUp
  BY <1>7 DEF ApplyBackUp, Grounded
<1>8. CASE ApplyArm
  <2>1. active' \in Journals
    BY <1>8 DEF ApplyArm, Journals, OpenStates, Grounded
  <2>2. left' \in 0 .. (Deadline + ApplyBudget)
    BY <1>8 DEF ApplyArm
  <2> QED
    BY <1>8, <2>1, <2>2 DEF ApplyArm
<1>9. CASE ApplyStage
  <2>1. agent.plan \in Plans
    BY <1>9 DEF ApplyStage, Grounded
  <2>2. staged' \in Deltas
    BY <1>9, <2>1, OverDelta, SmallDeltas DEF ApplyStage
  <2> QED
    BY <1>9, <2>2 DEF ApplyStage, Idle
<1>10. CASE ApplyCommit
  <2>1. conf' \in Configs /\ staged' \in Deltas
    BY <1>10, OverConfig, SmallDeltas DEF ApplyCommit
  <2>2. unsettled' \in Plans
    BY <1>10 DEF ApplyCommit, Grounded
  <2> QED
    BY <1>10, <2>1, <2>2 DEF ApplyCommit
<1>11. CASE ApplyRecord
  BY <1>11 DEF ApplyRecord, Journals, OpenStates, Grounded
<1>12. CASE ApplyCheckPasses
  BY <1>12 DEF ApplyCheckPasses
<1>13. CASE ApplyCheckRejects
  BY <1>13, SmallDeltas DEF ApplyCheckRejects, Verdicts, Grounded
<1>14. CASE ApplyReload
  BY <1>14 DEF ApplyReload
<1>15. CASE ApplyReloadFails
  BY <1>15 DEF ApplyReloadFails
<1>16. CASE ApplyFinish
  <2>1. active' \in Journals
    BY <1>16 DEF ApplyFinish, Journals, OpenStates, Grounded
  <2>2. left' \in 0 .. (Deadline + ApplyBudget)
    BY <1>16 DEF ApplyFinish
  <2> QED
    BY <1>16, <2>1, <2>2 DEF ApplyFinish, Idle
<1>17. CASE RollbackRefused
  BY <1>17 DEF RollbackRefused, Journals, OpenStates, Idle, WatchdogAfter, Grounded
<1>18. CASE RollbackNothing
  BY <1>18 DEF RollbackNothing, Verdicts
<1>19. CASE RollbackNeeded
  BY <1>19 DEF RollbackNeeded
<1>20. CASE RollbackRestore
  BY <1>20 DEF RollbackRestore, Grounded
<1>21. CASE RollbackReload
  BY <1>21, SmallDeltas DEF RollbackReload, Verdicts
<1>22. CASE ArchiveWrite
  BY <1>22 DEF ArchiveWrite, Archives, DecidedSteps, Grounded
<1>23. CASE ArchiveUnlink
  BY <1>23 DEF ArchiveUnlink, Idle, WatchdogAfter, Grounded
<1>24. CASE ValidateRevert
  BY <1>24, SmallDeltas DEF ValidateRevert, Idle
<1>25. CASE WatchdogBeat
  BY <1>25 DEF WatchdogBeat
<1>26. CASE WatchdogTick
  BY <1>26, WorkingType DEF WatchdogTick, Due
<1>27. CASE WatchdogPass
  BY <1>27 DEF WatchdogPass
<1>28. CASE WatchdogRespawn
  BY <1>28 DEF WatchdogRespawn
<1>29. CASE Tick
  BY <1>29 DEF Tick
<1>30. CASE AgentKilled
  BY <1>30, FaultCount DEF AgentKilled, Idle, WatchdogAfter
<1>31. CASE WatchdogKilled
  BY <1>31, FaultCount DEF WatchdogKilled
<1>32. CASE Reboot
  BY <1>32, FaultCount, SmallDeltas DEF Reboot, Idle, Journals, NotClearing
<1>33. CASE ApplyCheckRejectsUnrestored
  BY <1>33, FaultCount, SmallDeltas DEF ApplyCheckRejectsUnrestored, Verdicts
<1>34. CASE RollbackRestoreFails
  BY <1>34, FaultCount DEF RollbackRestoreFails, Idle, WatchdogAfter
<1>35. ASSUME NEW s \in Sections, NEW c \in Foreign \cup {Absent}, AdminEdit(s, c)
      PROVE  TypeOK'
  <2>1. conf' \in Configs
    BY <1>35 DEF AdminEdit, Configs, Contents
  <2>2. faults' \in 0 .. MaxFaults
    BY <1>35, FaultCount DEF AdminEdit
  <2>3. loaded' \in Configs
    BY <1>35, <2>1 DEF AdminEdit
  <2>4. UNCHANGED <<staged, precond, clearing, used, journal, heartbeat, agent,
                    watchdog, unsettled>>
    BY <1>35 DEF AdminEdit
  <2> QED
    BY <2>1, <2>2, <2>3, <2>4
<1>36. ASSUME NEW s \in Sections, NEW c \in Foreign \cup {Absent}, AdminStage(s, c)
      PROVE  TypeOK'
  <2>1. [x \in {s} |-> c] \in Deltas
    BY OneSection, Zenon
  <2>2. Over([x \in {s} |-> c], staged) \in Deltas
    BY <2>1, OverDelta
  <2>3. staged' \in Deltas
    BY <1>36, <2>2 DEF AdminStage
  <2>4. faults' \in 0 .. MaxFaults
    BY <1>36, FaultCount DEF AdminStage
  <2> QED
    BY <1>36, <2>3, <2>4 DEF AdminStage
<1>37. CASE AdminCommit
  BY <1>37, OverConfig, SmallDeltas DEF AdminCommit
<1>38. CASE AdminRestore
  <2>1. active.plan \in Plans /\ backup[active.plan] # Null
    BY <1>38 DEF AdminRestore, Journals, Grounded
  <2> QED
    BY <1>38, <2>1 DEF AdminRestore
<1>39. CASE ClearStep \/ ClearKilled
  <2>1. CASE ClearRead
    BY <2>1 DEF ClearRead, Journals
  <2>2. CASE ClearWrite
    <3>1. clearing.plan \in Plans
      BY <2>2 DEF ClearWrite, Grounded, Cleared
    <3>2. last' \in Archives
      BY <2>2, <3>1 DEF ClearWrite, Archives, Verdicts
    <3> QED
      BY <2>2, <3>2 DEF ClearWrite
  <2>3. CASE ClearUnlink
    BY <2>3 DEF ClearUnlink, NotClearing
  <2>4. CASE ClearKilled
    BY <2>4, FaultCount DEF ClearKilled, NotClearing
  <2> QED
    BY <1>39, <2>1, <2>2, <2>3, <2>4 DEF ClearStep
<1>40. CASE UNCHANGED vars
  BY <1>40 DEF vars
<1> QED
  BY <1>1, <1>2, <1>3, <1>4, <1>5, <1>6, <1>7, <1>8, <1>9, <1>10, <1>11,
     <1>12, <1>13, <1>14, <1>15, <1>16, <1>17, <1>18, <1>19, <1>20, <1>21,
     <1>22, <1>23, <1>24, <1>25, <1>26, <1>27, <1>28, <1>29, <1>30, <1>31,
     <1>32, <1>33, <1>34, <1>35, <1>36, <1>37, <1>38, <1>39, <1>40
     DEF Next, Request, AgentStep, ApplyStep, RollbackStep, WatchdogStep,
         Failure, Admin

\* Every step leaves the invocation that holds the lock with what it needs.
LEMMA GroundedStep ==
  ASSUME TypeOK, Grounded, [Next]_vars, ApplyDuringClear = FALSE
  PROVE  Grounded'
<1> USE ConfigurationAssumption, NullAssumption
    DEF TypeOK, Grounded, Invocations, Journals, OpenStates, LockFree, Idle,
        NotClearing, Cleared, Steps, UnarmedSteps, ArmedSteps, RollbackSteps, DecidedSteps, config,
        journal
<1>1. ASSUME NEW p \in Plans, Plan(p)
      PROVE  Grounded'
  BY <1>1 DEF Plan
<1>2. ASSUME NEW p \in Plans, Confirm(p)
      PROVE  Grounded'
  BY <1>2 DEF Confirm, Working, Verdicts
<1>3. ASSUME NEW p \in Plans, Rollback(p)
      PROVE  Grounded'
  BY <1>3 DEF Rollback, Working
<1>4. ASSUME NEW p \in Plans, Validate(p)
      PROVE  Grounded'
  BY <1>4 DEF Validate
<1>5. ASSUME NEW g \in Grants, ApplyAdmit(g)
      PROVE  Grounded'
  BY <1>5 DEF ApplyAdmit
<1>6. CASE ApplyCheck
  BY <1>6 DEF ApplyCheck
<1>7. CASE ApplyBackUp
  BY <1>7 DEF ApplyBackUp
<1>8. CASE ApplyArm
  <2>1. /\ active' # Null /\ active'.plan = agent.plan
        /\ active'.state = "armed" /\ agent'.j = active'
        /\ agent'.plan = agent.plan /\ agent'.at = "armed"
    BY <1>8 DEF ApplyArm
  <2> QED
    BY <1>8, <2>1 DEF ApplyArm
<1>9. CASE ApplyStage
  BY <1>9 DEF ApplyStage
<1>10. CASE ApplyCommit
  BY <1>10 DEF ApplyCommit
<1>11. CASE ApplyRecord
  <2>1. agent.j \in Journals /\ agent.j.plan = agent.plan
    BY <1>11 DEF ApplyRecord
  <2>2. /\ active' # Null /\ active'.plan = agent.plan
        /\ active'.state = "armed" /\ agent'.j = active'
        /\ agent'.plan = agent.plan /\ agent'.at = "recorded"
    BY <1>11, <2>1 DEF ApplyRecord
  <2> QED
    BY <1>11, <2>2 DEF ApplyRecord
<1>12. CASE ApplyCheckPasses
  BY <1>12 DEF ApplyCheckPasses
<1>13. CASE ApplyCheckRejects
  BY <1>13 DEF ApplyCheckRejects, Verdicts
<1>14. CASE ApplyReload
  BY <1>14 DEF ApplyReload
<1>15. CASE ApplyReloadFails
  BY <1>15 DEF ApplyReloadFails
<1>16. CASE ApplyFinish
  BY <1>16 DEF ApplyFinish
<1>17. CASE RollbackRefused
  BY <1>17 DEF RollbackRefused, WatchdogAfter
<1>18. CASE RollbackNothing
  BY <1>18 DEF RollbackNothing, Verdicts
<1>19. CASE RollbackNeeded
  BY <1>19 DEF RollbackNeeded
<1>20. CASE RollbackRestore
  BY <1>20 DEF RollbackRestore
<1>21. CASE RollbackReload
  BY <1>21 DEF RollbackReload, Verdicts
<1>22. CASE ArchiveWrite
  BY <1>22 DEF ArchiveWrite
<1>23. CASE ArchiveUnlink
  BY <1>23 DEF ArchiveUnlink, WatchdogAfter
<1>24. CASE ValidateRevert
  BY <1>24 DEF ValidateRevert
<1>25. CASE WatchdogBeat
  BY <1>25 DEF WatchdogBeat
<1>26. CASE WatchdogTick
  BY <1>26 DEF WatchdogTick, Due, Working
<1>27. CASE WatchdogPass
  BY <1>27 DEF WatchdogPass
<1>28. CASE WatchdogRespawn
  BY <1>28 DEF WatchdogRespawn
<1>29. CASE Tick
  BY <1>29 DEF Tick
<1>30. CASE AgentKilled
  BY <1>30 DEF AgentKilled
<1>31. CASE WatchdogKilled
  BY <1>31 DEF WatchdogKilled
<1>32. CASE Reboot
  BY <1>32 DEF Reboot
<1>33. CASE ApplyCheckRejectsUnrestored
  BY <1>33 DEF ApplyCheckRejectsUnrestored, Verdicts
<1>34. CASE RollbackRestoreFails
  BY <1>34 DEF RollbackRestoreFails
<1>35. ASSUME NEW s \in Sections, NEW c \in Foreign \cup {Absent}, AdminEdit(s, c)
      PROVE  Grounded'
  BY <1>35 DEF AdminEdit
<1>36. ASSUME NEW s \in Sections, NEW c \in Foreign \cup {Absent}, AdminStage(s, c)
      PROVE  Grounded'
  BY <1>36 DEF AdminStage
<1>37. CASE AdminCommit
  BY <1>37 DEF AdminCommit
<1>38. CASE AdminRestore
  BY <1>38 DEF AdminRestore
<1>39. CASE ClearStep \/ ClearKilled
  BY <1>39 DEF ClearStep, ClearRead, ClearWrite, ClearUnlink, ClearKilled
<1>40. CASE UNCHANGED vars
  BY <1>40 DEF vars
<1> QED
  BY <1>1, <1>2, <1>3, <1>4, <1>5, <1>6, <1>7, <1>8, <1>9, <1>10, <1>11,
     <1>12, <1>13, <1>14, <1>15, <1>16, <1>17, <1>18, <1>19, <1>20, <1>21,
     <1>22, <1>23, <1>24, <1>25, <1>26, <1>27, <1>28, <1>29, <1>30, <1>31,
     <1>32, <1>33, <1>34, <1>35, <1>36, <1>37, <1>38, <1>39, <1>40
     DEF Next, Request, AgentStep, ApplyStep, RollbackStep, WatchdogStep,
         Failure, Admin

\* As long as the restore of a rejected change succeeds, an unsettled change
\* stays with the journal of its plan.
LEMMA AccountedStep ==
  ASSUME TypeOK, Grounded, Accounted, [Next]_vars,
         "reject_restore" \notin FaultKinds
  PROVE  Accounted'
<1> USE ConfigurationAssumption, NullAssumption
    DEF TypeOK, Grounded, Accounted, Journalled, Invocations, Journals,
        OpenStates, LockFree, Idle, NotClearing, Cleared, Steps, UnarmedSteps,
        ArmedSteps, RollbackSteps, DecidedSteps, config, journal
<1>1. ASSUME NEW p \in Plans, Plan(p)
      PROVE  Accounted'
  BY <1>1 DEF Plan
<1>2. ASSUME NEW p \in Plans, Confirm(p)
      PROVE  Accounted'
  BY <1>2 DEF Confirm, Working
<1>3. ASSUME NEW p \in Plans, Rollback(p)
      PROVE  Accounted'
  BY <1>3 DEF Rollback, Working
<1>4. ASSUME NEW p \in Plans, Validate(p)
      PROVE  Accounted'
  BY <1>4 DEF Validate
<1>5. ASSUME NEW g \in Grants, ApplyAdmit(g)
      PROVE  Accounted'
  BY <1>5 DEF ApplyAdmit
<1>6. CASE ApplyCheck
  BY <1>6 DEF ApplyCheck
<1>7. CASE ApplyBackUp
  BY <1>7 DEF ApplyBackUp
<1>8. CASE ApplyArm
  BY <1>8 DEF ApplyArm
<1>9. CASE ApplyStage
  BY <1>9 DEF ApplyStage
<1>10. CASE ApplyCommit
  BY <1>10 DEF ApplyCommit
<1>11. CASE ApplyRecord
  BY <1>11 DEF ApplyRecord
<1>12. CASE ApplyCheckPasses
  BY <1>12 DEF ApplyCheckPasses
<1>13. CASE ApplyCheckRejects
  BY <1>13 DEF ApplyCheckRejects
<1>14. CASE ApplyReload
  BY <1>14 DEF ApplyReload
<1>15. CASE ApplyReloadFails
  BY <1>15 DEF ApplyReloadFails
<1>16. CASE ApplyFinish
  <2>0. active \in Journals /\ agent.j = active
    BY <1>16 DEF ApplyFinish
  <2>1. active' \in Journals /\ active'.plan = active.plan
    BY <1>16, <2>0 DEF ApplyFinish
  <2>2. agent' = Idle /\ unsettled' = unsettled /\ backup' = backup
    BY <1>16 DEF ApplyFinish
  <2> QED
    BY <2>0, <2>1, <2>2
<1>17. CASE RollbackRefused
  BY <1>17 DEF RollbackRefused
<1>18. CASE RollbackNothing
  BY <1>18 DEF RollbackNothing
<1>19. CASE RollbackNeeded
  BY <1>19 DEF RollbackNeeded
<1>20. CASE RollbackRestore
  BY <1>20 DEF RollbackRestore
<1>21. CASE RollbackReload
  BY <1>21 DEF RollbackReload
<1>22. CASE ArchiveWrite
  BY <1>22 DEF ArchiveWrite
<1>23. CASE ArchiveUnlink
  BY <1>23 DEF ArchiveUnlink
<1>24. CASE ValidateRevert
  BY <1>24 DEF ValidateRevert
<1>25. CASE WatchdogBeat
  BY <1>25 DEF WatchdogBeat
<1>26. CASE WatchdogTick
  BY <1>26 DEF WatchdogTick, Due, Working
<1>27. CASE WatchdogPass
  BY <1>27 DEF WatchdogPass
<1>28. CASE WatchdogRespawn
  BY <1>28 DEF WatchdogRespawn
<1>29. CASE Tick
  BY <1>29 DEF Tick
<1>30. CASE AgentKilled
  BY <1>30 DEF AgentKilled
<1>31. CASE WatchdogKilled
  BY <1>31 DEF WatchdogKilled
<1>32. CASE Reboot
  BY <1>32 DEF Reboot
<1>33. CASE ApplyCheckRejectsUnrestored
  BY <1>33 DEF ApplyCheckRejectsUnrestored, Fault
<1>34. CASE RollbackRestoreFails
  BY <1>34 DEF RollbackRestoreFails
<1>35. ASSUME NEW s \in Sections, NEW c \in Foreign \cup {Absent}, AdminEdit(s, c)
      PROVE  Accounted'
  BY <1>35 DEF AdminEdit
<1>36. ASSUME NEW s \in Sections, NEW c \in Foreign \cup {Absent}, AdminStage(s, c)
      PROVE  Accounted'
  BY <1>36 DEF AdminStage
<1>37. CASE AdminCommit
  BY <1>37 DEF AdminCommit
<1>38. CASE AdminRestore
  BY <1>38 DEF AdminRestore
<1>39. CASE ClearStep \/ ClearKilled
  BY <1>39 DEF ClearStep, ClearRead, ClearWrite, ClearUnlink, ClearKilled
<1>40. CASE UNCHANGED vars
  BY <1>40 DEF vars
<1> QED
  BY <1>1, <1>2, <1>3, <1>4, <1>5, <1>6, <1>7, <1>8, <1>9, <1>10, <1>11,
     <1>12, <1>13, <1>14, <1>15, <1>16, <1>17, <1>18, <1>19, <1>20, <1>21,
     <1>22, <1>23, <1>24, <1>25, <1>26, <1>27, <1>28, <1>29, <1>30, <1>31,
     <1>32, <1>33, <1>34, <1>35, <1>36, <1>37, <1>38, <1>39, <1>40
     DEF Next, Request, AgentStep, ApplyStep, RollbackStep, WatchdogStep,
         Failure, Admin

-------------------------------------------------------------------------------
\* The state of the router's transaction engine is always well formed, and the
\* invocation that holds the lock always has the journal and the backup that
\* its step works with.
THEOREM TypeCorrect ==
  ASSUME ApplyDuringClear = FALSE
  PROVE  Spec => [](TypeOK /\ Grounded)
<1>1. Init => TypeOK /\ Grounded
  <2> SUFFICES ASSUME Init PROVE TypeOK /\ Grounded
    OBVIOUS
  <2>1. conf \in Configs
    BY DEF Init, Configs, Contents
  <2>2. TypeOK
    BY <2>1, SmallDeltas, ConfigurationAssumption, TimingAssumption
       DEF Init, TypeOK, Idle, NotClearing, Invocations, Steps
  <2>3. Grounded
    BY DEF Init, Grounded, Idle, LockFree, NotClearing, UnarmedSteps, ArmedSteps,
           RollbackSteps, DecidedSteps
  <2> QED
    BY <2>2, <2>3
<1>2. TypeOK /\ Grounded /\ [Next]_vars => (TypeOK /\ Grounded)'
  BY TypeStep, GroundedStep
<1> QED
  BY <1>1, <1>2, PTL DEF Spec

\* A committed change is never orphaned: until somebody settles it, the journal
\* of its plan is active and its backup exists.  Assumed: the one write whose
\* failure the agent ignores, the restore after fw4 check, does not fail.
THEOREM ChangesAreJournalled ==
  ASSUME ApplyDuringClear = FALSE, "reject_restore" \notin FaultKinds
  PROVE  Spec => []Journalled
<1>1. Init => Accounted
  BY ConfigurationAssumption
     DEF Init, Accounted, Journalled, Idle, UnarmedSteps
<1>2. TypeOK /\ Grounded /\ Accounted /\ [Next]_vars => Accounted'
  BY AccountedStep
<1>3. Accounted => Journalled
  BY DEF Accounted
<1> QED
  BY <1>1, <1>2, <1>3, TypeCorrect, PTL DEF Spec

-------------------------------------------------------------------------------
(* The steps that leave the configuration and the journal alone.           *)

Quiet ==
  UNCHANGED <<config, precond, clearing, used, backup, active, last, agent>>

\* The steps of the clock and the watchdog that start nothing are quiet.
LEMMA QuietSteps ==
  ASSUME \/ WatchdogBeat \/ WatchdogPass \/ WatchdogRespawn \/ Tick
         \/ WatchdogKilled \/ UNCHANGED vars
  PROVE  Quiet
BY DEF WatchdogBeat, WatchdogPass, WatchdogRespawn, Tick, WatchdogKilled, Quiet,
       vars, config, journal

-------------------------------------------------------------------------------
(* The journal goes along its contract.                                    *)

\* What the journal files hold is never mistaken for a missing file.
LEMMA Visible ==
  ASSUME NEW p \in Plans
  PROVE  /\ \A st \in OpenStates \cup {"needs_manual"} :
              [plan |-> p, state |-> st] # Null
         /\ \A st \in Verdicts : [plan |-> p, state |-> st] # Null
BY NullAssumption DEF Archives

\* What is known of a verdict that is about to be given, or has been: only an
\* applied change is confirmed, and what is about to be unlinked is archived,
\* with the verdict of the invocation unless a --clear has given its own.
Decided ==
  /\ agent.at \in DecidedSteps => agent.verdict \in {"confirmed", "rolled_back"}
  /\ agent.at \in DecidedSteps /\ agent.verdict = "confirmed" =>
       agent.j.state = "applied_unconfirmed"
  /\ agent.at = "unlink" =>
       /\ last # Null /\ last.plan = agent.plan
       /\ agent.j.state # "needs_manual" => last.state = agent.verdict
  /\ clearing.at = "unlink" => last # Null /\ last.plan = clearing.plan

\* Every step keeps it, given the types and what an invocation holds.
LEMMA DecidedStep ==
  ASSUME TypeOK, Grounded, Decided, [Next]_vars
  PROVE  Decided'
<1> USE ConfigurationAssumption, NullAssumption
    DEF TypeOK, Grounded, Decided, Invocations, Journals, OpenStates, LockFree,
        Idle, NotClearing, Cleared, Steps, UnarmedSteps, ArmedSteps,
        RollbackSteps, DecidedSteps, config, journal
<1>1. ASSUME NEW p \in Plans, Plan(p)
      PROVE  Decided'
  BY <1>1 DEF Plan
<1>2. ASSUME NEW p \in Plans, Confirm(p)
      PROVE  Decided'
  BY <1>2 DEF Confirm, Working
<1>3. ASSUME NEW p \in Plans, Rollback(p)
      PROVE  Decided'
  BY <1>3 DEF Rollback, Working
<1>4. ASSUME NEW p \in Plans, Validate(p)
      PROVE  Decided'
  BY <1>4 DEF Validate
<1>5. ASSUME NEW g \in Grants, ApplyAdmit(g)
      PROVE  Decided'
  BY <1>5 DEF ApplyAdmit
<1>6. CASE ApplyCheck
  BY <1>6 DEF ApplyCheck
<1>7. CASE ApplyBackUp
  BY <1>7 DEF ApplyBackUp
<1>8. CASE ApplyArm
  BY <1>8 DEF ApplyArm
<1>9. CASE ApplyStage
  BY <1>9 DEF ApplyStage
<1>10. CASE ApplyCommit
  BY <1>10 DEF ApplyCommit
<1>11. CASE ApplyRecord
  BY <1>11 DEF ApplyRecord
<1>12. CASE ApplyCheckPasses
  BY <1>12 DEF ApplyCheckPasses
<1>13. CASE ApplyCheckRejects
  BY <1>13 DEF ApplyCheckRejects
<1>14. CASE ApplyReload
  BY <1>14 DEF ApplyReload
<1>15. CASE ApplyReloadFails
  BY <1>15 DEF ApplyReloadFails
<1>16. CASE ApplyFinish
  BY <1>16 DEF ApplyFinish
<1>17. CASE RollbackRefused
  BY <1>17 DEF RollbackRefused
<1>18. CASE RollbackNothing
  BY <1>18 DEF RollbackNothing
<1>19. CASE RollbackNeeded
  BY <1>19 DEF RollbackNeeded
<1>20. CASE RollbackRestore
  BY <1>20 DEF RollbackRestore
<1>21. CASE RollbackReload
  BY <1>21 DEF RollbackReload
<1>22. CASE ArchiveWrite
  <2>1. agent.plan \in Plans /\ agent.verdict \in Verdicts
    BY <1>22 DEF ArchiveWrite
  <2>2. last' = [plan |-> agent.plan, state |-> agent.verdict] /\ last' # Null
    BY <1>22, <2>1, Visible DEF ArchiveWrite
  <2>3. last'.plan = agent.plan /\ last'.state = agent.verdict
    BY <2>2
  <2>4. /\ agent'.at = "unlink" /\ agent'.plan = agent.plan
        /\ agent'.verdict = agent.verdict /\ agent'.j = agent.j
    BY <1>22 DEF ArchiveWrite
  <2>5. /\ agent.verdict \in {"confirmed", "rolled_back"}
        /\ agent.verdict = "confirmed" => agent.j.state = "applied_unconfirmed"
    BY <1>22 DEF ArchiveWrite
  <2>6. clearing'.at = "unlink" => agent.plan = clearing'.plan
    BY <1>22 DEF ArchiveWrite
  <2> QED
    BY <2>2, <2>3, <2>4, <2>5, <2>6
<1>23. CASE ArchiveUnlink
  BY <1>23 DEF ArchiveUnlink
<1>24. CASE ValidateRevert
  BY <1>24 DEF ValidateRevert
<1>25. CASE WatchdogTick
  BY <1>25 DEF WatchdogTick, Due, Working
<1>26. CASE AgentKilled
  BY <1>26 DEF AgentKilled
<1>27. CASE Reboot
  BY <1>27 DEF Reboot
<1>28. CASE ApplyCheckRejectsUnrestored
  BY <1>28 DEF ApplyCheckRejectsUnrestored
<1>29. CASE RollbackRestoreFails
  BY <1>29 DEF RollbackRestoreFails
<1>30. CASE AdminCommit
  BY <1>30 DEF AdminCommit
<1>31. CASE AdminRestore
  BY <1>31 DEF AdminRestore
<1>32. CASE ClearStep \/ ClearKilled
  <2>1. CASE ClearRead
    BY <2>1 DEF ClearRead
  <2>2. CASE ClearWrite
    <3>1. clearing.plan \in Plans
      BY <2>2 DEF ClearWrite
    <3>2. last' # Null /\ last'.plan = clearing.plan
      BY <2>2, <3>1, Visible DEF ClearWrite, Verdicts
    <3>3. agent.at = "unlink" =>
            agent.plan = clearing.plan /\ agent.j.state = "needs_manual"
      BY <2>2 DEF ClearWrite
    <3>4. agent' = agent /\ clearing'.plan = clearing.plan
      BY <2>2 DEF ClearWrite
    <3> QED
      BY <3>2, <3>3, <3>4
  <2>3. CASE ClearUnlink \/ ClearKilled
    BY <2>3 DEF ClearUnlink, ClearKilled
  <2> QED
    BY <1>32, <2>1, <2>2, <2>3 DEF ClearStep
<1>33. ASSUME NEW s \in Sections, NEW c \in Foreign \cup {Absent}, AdminEdit(s, c)
      PROVE  Decided'
  BY <1>33 DEF AdminEdit
<1>34. ASSUME NEW s \in Sections, NEW c \in Foreign \cup {Absent}, AdminStage(s, c)
      PROVE  Decided'
  BY <1>34 DEF AdminStage
<1>35. CASE Quiet
  BY <1>35 DEF Quiet
<1> QED
  BY <1>1, <1>2, <1>3, <1>4, <1>5, <1>6, <1>7, <1>8, <1>9, <1>10, <1>11,
     <1>12, <1>13, <1>14, <1>15, <1>16, <1>17, <1>18, <1>19, <1>20, <1>21,
     <1>22, <1>23, <1>24, <1>25, <1>26, <1>27, <1>28, <1>29, <1>30, <1>31,
     <1>32, <1>33, <1>34, <1>35, QuietSteps
     DEF Next, Request, AgentStep, ApplyStep, RollbackStep, WatchdogStep,
         Failure, Admin

\* Only archiving a journal writes the archive.
LEMMA LastWriters ==
  ASSUME Next
  PROVE  ArchiveWrite \/ ClearWrite \/ UNCHANGED last
BY QuietSteps
   DEF Next, Request, AgentStep, ApplyStep, RollbackStep, WatchdogStep,
       Failure, Admin, journal, Plan, Confirm, Rollback, Validate,
       ApplyAdmit, ApplyCheck, ApplyBackUp, ApplyStage, ApplyCommit,
       ApplyCheckPasses, ApplyCheckRejects, ApplyReload, ApplyReloadFails,
       RollbackNothing, RollbackNeeded, RollbackRestore, RollbackReload,
       ValidateRevert, WatchdogTick, AgentKilled,
       ApplyCheckRejectsUnrestored, RollbackRestoreFails, AdminEdit,
       AdminStage, AdminCommit, AdminRestore, Quiet, ApplyArm, ApplyRecord,
       ApplyFinish, RollbackRefused, ArchiveUnlink, Reboot, ClearStep, ClearRead,
       ClearUnlink, ClearKilled

\* A journal that is there is one of a plan, and is seen as its state.
LEMMA OpenJournal ==
  ASSUME TypeOK, active # Null
  PROVE  /\ active \in Journals /\ active.plan \in Plans
         /\ [plan |-> active.plan, state |-> active.state] # Null
BY Visible DEF TypeOK, Journals

\* A journal written again keeps what is not written.
LEMMA Rewritten ==
  ASSUME NEW j \in Journals, NEW new \in Configs,
         NEW st \in OpenStates \cup {"needs_manual"}
  PROVE  /\ [j EXCEPT !.new = new] \in Journals
         /\ [j EXCEPT !.new = new].plan = j.plan
         /\ [j EXCEPT !.new = new].state = j.state
         /\ [j EXCEPT !.state = st] \in Journals
         /\ [j EXCEPT !.state = st].plan = j.plan
         /\ [j EXCEPT !.state = st].state = st
         /\ [j EXCEPT !.boot = "earlier"] \in Journals
         /\ [j EXCEPT !.boot = "earlier"].plan = j.plan
         /\ [j EXCEPT !.boot = "earlier"].state = j.state
BY DEF Journals

\* Whether somebody attends to a transaction that needs an operator.
LEMMA AttendedIs ==
  ASSUME TypeOK, Grounded
  PROVE  /\ agent.at \in RollbackSteps \cup DecidedSteps =>
              Attended = IF agent.j.state = "needs_manual" THEN agent.plan ELSE Null
         /\ agent.at \in UnarmedSteps \cup ArmedSteps => Attended = Null
         /\ clearing.at # "idle" => Attended = clearing.plan /\ Attended # Null
         /\ Attended # Null => Attended \in Plans
BY ConfigurationAssumption
   DEF TypeOK, Grounded, Cleared, Attended, NotClearing, UnarmedSteps, ArmedSteps,
       RollbackSteps, DecidedSteps

\* No step makes somebody attend but one that reads the journal of such a
\* transaction.
LEMMA AttendedStep ==
  ASSUME TypeOK, Grounded, [Next]_vars, ApplyDuringClear = FALSE
  PROVE  \/ Attended' \in {Attended, Null}
         \/ /\ active # Null /\ active.state = "needs_manual" /\ Attended' = active.plan
            /\ UNCHANGED <<active, last>>
<1> USE DEF Attended, RollbackSteps, DecidedSteps, Idle, LockFree, config, journal
<1>1. ASSUME NEW p \in Plans, Plan(p) \/ Validate(p)
      PROVE  Attended' \in {Attended, Null}
  BY <1>1 DEF Plan, Validate
<1>2. ASSUME NEW p \in Plans, Confirm(p) \/ Rollback(p)
      PROVE  \/ Attended' \in {Attended, Null}
             \/ /\ active # Null /\ active.state = "needs_manual" /\ Attended' = active.plan
                /\ UNCHANGED <<active, last>>
  BY <1>2 DEF Confirm, Rollback, Working
<1>3. ASSUME NEW g \in Grants, ApplyAdmit(g)
      PROVE  Attended' \in {Attended, Null}
  BY <1>3 DEF ApplyAdmit
<1>4. CASE ApplyStep
  <2> USE DEF TypeOK, Invocations
  <2>1. agent.at \in UnarmedSteps \cup ArmedSteps
    BY <1>4 DEF ApplyStep, ApplyCheck, ApplyBackUp, ApplyArm, ApplyStage, ApplyCommit,
                ApplyRecord, ApplyCheckPasses, ApplyCheckRejects, ApplyReload,
                ApplyReloadFails, ApplyFinish, UnarmedSteps, ArmedSteps
  <2>2. clearing = NotClearing /\ clearing' = clearing
    BY <1>4, <2>1
       DEF Grounded, Cleared, ApplyStep, ApplyCheck, ApplyBackUp, ApplyArm, ApplyStage,
           ApplyCommit, ApplyRecord, ApplyCheckPasses, ApplyCheckRejects, ApplyReload,
           ApplyReloadFails, ApplyFinish
  <2>3. agent'.at \notin RollbackSteps \cup DecidedSteps \/ agent'.j.state # "needs_manual"
    <3>1. CASE ApplyCheckRejects \/ ApplyReloadFails
      <4>1. agent.j.state = "armed"
        BY <3>1 DEF Grounded, ApplyCheckRejects, ApplyReloadFails, ArmedSteps
      <4>2. agent'.j = agent.j
        BY <3>1 DEF ApplyCheckRejects, ApplyReloadFails
      <4> QED
        BY <4>1, <4>2
    <3>2. CASE ApplyCheck
      <4>1. agent'.at \in {"checked", "idle"}
        BY <3>2 DEF ApplyCheck
      <4> QED
        BY <4>1
    <3>3. CASE ApplyBackUp
      <4>1. agent'.at \in {"backed_up"}
        BY <3>3 DEF ApplyBackUp
      <4> QED
        BY <4>1
    <3>4. CASE ApplyArm
      <4>1. agent'.at \in {"armed"}
        BY <3>4 DEF ApplyArm
      <4> QED
        BY <4>1
    <3>5. CASE ApplyStage
      <4>1. agent'.at \in {"saved", "idle"}
        BY <3>5 DEF ApplyStage
      <4> QED
        BY <4>1
    <3>6. CASE ApplyCommit
      <4>1. agent'.at \in {"committed"}
        BY <3>6 DEF ApplyCommit
      <4> QED
        BY <4>1
    <3>7. CASE ApplyRecord
      <4>1. agent'.at \in {"recorded"}
        BY <3>7 DEF ApplyRecord
      <4> QED
        BY <4>1
    <3>8. CASE ApplyCheckPasses
      <4>1. agent'.at \in {"validated"}
        BY <3>8 DEF ApplyCheckPasses
      <4> QED
        BY <4>1
    <3>9. CASE ApplyReload
      <4>1. agent'.at \in {"reloaded"}
        BY <3>9 DEF ApplyReload
      <4> QED
        BY <4>1
    <3>10. CASE ApplyFinish
      <4>1. agent'.at \in {"idle"}
        BY <3>10 DEF ApplyFinish
      <4> QED
        BY <4>1
    <3> QED
      BY <1>4, <3>1, <3>2, <3>3, <3>4, <3>5, <3>6, <3>7, <3>8, <3>9, <3>10
         DEF ApplyStep
  <2> QED
    BY <2>2, <2>3 DEF NotClearing
<1>5. CASE RollbackStep
  <2> USE DEF TypeOK, Invocations
  <2>1. /\ agent.at \in RollbackSteps \cup DecidedSteps /\ clearing' = clearing
        /\ \/ agent' = Idle
           \/ agent'.plan = agent.plan /\ agent'.j = agent.j
    BY <1>5 DEF RollbackStep, RollbackRefused, RollbackNothing, RollbackNeeded,
                RollbackRestore, RollbackReload, ArchiveWrite, ArchiveUnlink
  <2> QED
    BY <2>1
<1>6. CASE ApplyCheckRejectsUnrestored
  BY <1>6 DEF ApplyCheckRejectsUnrestored, Grounded, Cleared, TypeOK, Invocations,
              ArmedSteps, NotClearing
<1>7. CASE ValidateRevert
  BY <1>7 DEF ValidateRevert
<1>8. CASE WatchdogTick
  BY <1>8 DEF WatchdogTick, Due, Working, OpenStates
<1>9. CASE AgentKilled \/ Reboot \/ RollbackRestoreFails
  BY <1>9 DEF AgentKilled, Reboot, RollbackRestoreFails, NotClearing
<1>10. CASE AdminCommit \/ AdminRestore
  BY <1>10 DEF AdminCommit, AdminRestore
<1>11. ASSUME NEW s \in Sections, NEW c \in Foreign \cup {Absent},
              AdminEdit(s, c) \/ AdminStage(s, c)
       PROVE  Attended' = Attended
  BY <1>11 DEF AdminEdit, AdminStage
<1>12. CASE ClearRead
  BY <1>12 DEF ClearRead
<1>13. CASE ClearWrite
  BY <1>13 DEF ClearWrite
<1>14. CASE ClearUnlink \/ ClearKilled
  BY <1>14 DEF ClearUnlink, ClearKilled, Grounded, Cleared, NotClearing
<1>15. CASE Quiet
  BY <1>15 DEF Quiet
<1> QED
  BY <1>1, <1>2, <1>3, <1>4, <1>5, <1>6, <1>7, <1>8, <1>9, <1>10, <1>11, <1>12, <1>13,
     <1>14, <1>15, QuietSteps
     DEF Next, Request, AgentStep, WatchdogStep, Failure, Admin, ClearStep

\* Every step of the router is a step of the contract, or none at all.
LEMMA ContractStep ==
  ASSUME TypeOK, Grounded, Decided, [Next]_vars, ApplyDuringClear = FALSE
  PROVE  [Contract!Next]_(Contract!vars)
<1> DEFINE Goal == [Contract!Next]_(Contract!vars)
           Txn == IF active = Null THEN Null
                  ELSE [plan |-> active.plan, state |-> active.state]
           Same == Txn' = Txn /\ last' = last
<1>0. Grounded' /\ TypeOK'
  BY TypeStep, GroundedStep
<1>1. ASSUME Same
      PROVE  Goal
  <2>1. CASE Attended' = Attended
    BY <1>1, <2>1 DEF Contract!vars
  <2>2. CASE Attended' = Null
    <3>1. Contract!Leave
      BY <1>1, <2>2 DEF Contract!Leave
    <3> QED
      BY <3>1 DEF Contract!Next
  <2>3. CASE active # Null /\ active.state = "needs_manual" /\ Attended' = active.plan
    <3>1. Contract!Attend
      BY <1>1, <2>3, OpenJournal DEF Contract!Attend
    <3> QED
      BY <3>1 DEF Contract!Next
  <2> QED
    BY <2>1, <2>2, <2>3, AttendedStep
<1>2. CASE ApplyArm
  <2>1. active = Null /\ agent.plan \in Plans /\ last' = last
    BY <1>2 DEF ApplyArm, Grounded, UnarmedSteps
  <2>2. active'.plan = agent.plan /\ active'.state = "armed"
    BY <1>2 DEF ApplyArm
  <2>3. active' # Null
    BY <1>2, <2>1, ConfigurationAssumption, NullAssumption
       DEF ApplyArm, Journals, OpenStates, Grounded, UnarmedSteps, TypeOK
  <2>4. Attended = Null /\ Attended' = Null
    <3>1. Attended = Null
      BY <1>2, AttendedIs DEF ApplyArm, UnarmedSteps
    <3> QED
      BY <2>1, <3>1, AttendedStep
  <2>5. Contract!Arm(agent.plan)
    BY <2>1, <2>2, <2>3, <2>4 DEF Contract!Arm
  <2> QED
    BY <2>1, <2>5 DEF Contract!Next
<1>3. CASE ApplyRecord
  <2>1. active \in Journals /\ active # Null /\ agent.j = active
    BY <1>3 DEF ApplyRecord, Grounded, ArmedSteps, TypeOK
  <2>2. /\ active' \in Journals /\ active'.plan = active.plan
        /\ active'.state = active.state /\ last' = last
    BY <1>3, <2>1, Rewritten DEF ApplyRecord, TypeOK
  <2> QED
    BY <1>1, <2>1, <2>2, NullAssumption
<1>4. CASE ApplyFinish
  <2>1. /\ active \in Journals /\ active # Null /\ agent.j = active
        /\ active.state = "armed"
    BY <1>4 DEF ApplyFinish, Grounded, ArmedSteps, TypeOK
  <2>2. /\ active' \in Journals /\ active'.plan = active.plan
        /\ active'.state = "applied_unconfirmed" /\ last' = last
    <3>1. conf \in Configs
      BY DEF TypeOK
    <3> DEFINE j == [active EXCEPT !.new = conf,
                                   !.state = "applied_unconfirmed"]
    <3>2. /\ j \in Journals /\ j.plan = active.plan
          /\ j.state = "applied_unconfirmed"
      BY <2>1, <3>1 DEF Journals, OpenStates
    <3>3. active' = j /\ last' = last
      BY <1>4, <2>1 DEF ApplyFinish
    <3> HIDE DEF j
    <3> QED
      BY <3>2, <3>3
  <2>3. Attended = Null /\ Attended' = Null
    <3>1. Attended = Null
      BY <1>4, AttendedIs DEF ApplyFinish, ArmedSteps
    <3> QED
      BY <2>1, <3>1, AttendedStep
  <2>4. Contract!Applied
    BY <2>1, <2>2, <2>3, NullAssumption, OpenJournal
       DEF Contract!Applied, Contract!Open, Contract!OpenStates
  <2> QED
    BY <2>4 DEF Contract!Next
<1>5. CASE RollbackRefused
  <2>1. /\ agent.j \in Journals /\ agent.j # Null /\ agent.j.plan = agent.plan
        /\ agent.plan \in Plans
        /\ \/ active = Null
           \/ active \in Journals /\ active # Null /\ active.plan = agent.plan
    BY <1>5 DEF RollbackRefused, Grounded, RollbackSteps, TypeOK, Invocations
  <2>2. /\ active' \in Journals /\ active' # Null /\ active'.plan = agent.plan
        /\ active'.state = "needs_manual" /\ last' = last
    <3>1. active' = [agent.j EXCEPT !.state = "needs_manual"] /\ last' = last
      BY <1>5 DEF RollbackRefused
    <3>2. "needs_manual" \in OpenStates \cup {"needs_manual"}
      OBVIOUS
    <3>3. conf \in Configs
      BY DEF TypeOK
    <3> QED
      BY <2>1, <3>1, <3>2, <3>3, Rewritten, NullAssumption
  <2>3. Attended = IF agent.j.state = "needs_manual" THEN agent.plan ELSE Null
    BY <1>5, AttendedIs DEF RollbackRefused, RollbackSteps
  <2>4. Attended' \in {Attended, Null}
    <3>1. SUFFICES ASSUME active # Null, active.state = "needs_manual",
                          Attended' = active.plan
                   PROVE  Attended' = Attended
      BY AttendedStep
    <3>2. agent.j.state = "needs_manual"
      BY <1>5, <3>1 DEF RollbackRefused, Grounded, RollbackSteps
    <3> QED
      BY <2>1, <2>3, <3>1, <3>2
  <2>5. CASE agent.j.state = "needs_manual"
    <3>1. Contract!Return
      BY <2>1, <2>2, <2>3, <2>4, <2>5, ConfigurationAssumption
         DEF Contract!Return, Contract!Through
    <3> QED
      BY <3>1 DEF Contract!Next
  <2>6. CASE agent.j.state # "needs_manual"
    <3>1. active = agent.j
      BY <1>5, <2>6 DEF RollbackRefused, Grounded, RollbackSteps
    <3>2. active.state \in Contract!OpenStates
      BY <2>1, <2>6, <3>1 DEF Journals, OpenStates, Contract!OpenStates
    <3>3. Contract!Escalate
      BY <2>1, <2>2, <2>3, <2>4, <2>6, <3>1, <3>2, OpenJournal, NullAssumption
         DEF Contract!Escalate, Contract!Open
    <3> QED
      BY <3>3 DEF Contract!Next
  <2> QED
    BY <2>5, <2>6
<1>6. CASE ArchiveWrite
  <2>1. /\ last' = [plan |-> agent.plan, state |-> agent.verdict]
        /\ active' = active
        /\ agent.verdict \in {"confirmed", "rolled_back"}
        /\ agent.plan \in Plans /\ agent.j # Null /\ agent.j.plan = agent.plan
    BY <1>6 DEF ArchiveWrite, Decided, DecidedSteps, Grounded
  <2>2. Attended = IF agent.j.state = "needs_manual" THEN agent.plan ELSE Null
    BY <1>6, AttendedIs DEF ArchiveWrite, DecidedSteps
  <2>3. Attended' \in {Attended, Null}
    <3>1. last' # last \/ Attended' = Attended
      BY <1>6 DEF ArchiveWrite, Attended, RollbackSteps, DecidedSteps, TypeOK, Invocations
    <3> QED
      BY <3>1, AttendedStep
  <2>4. CASE agent.j.state = "needs_manual"
    <3>1. agent.verdict = "rolled_back"
      BY <1>6, <2>1, <2>4 DEF ArchiveWrite, Decided, DecidedSteps
    <3>2. Contract!Judge("rolled_back")
      BY <2>1, <2>2, <2>3, <2>4, <3>1, ConfigurationAssumption
         DEF Contract!Judge, Contract!Through
    <3> QED
      BY <3>2 DEF Contract!Next
  <2>5. CASE agent.j.state # "needs_manual"
    <3>1. active = agent.j /\ active \in Journals
      BY <1>6, <2>1, <2>5 DEF ArchiveWrite, Grounded, DecidedSteps, TypeOK, Invocations
    <3>2. agent.verdict = "confirmed" => active.state = "applied_unconfirmed"
      BY <1>6, <3>1 DEF ArchiveWrite, Decided, DecidedSteps
    <3>3. active.state \in Contract!OpenStates
      BY <2>5, <3>1 DEF Journals, OpenStates, Contract!OpenStates
    <3>4. Contract!Record(agent.verdict)
      BY <2>1, <2>2, <2>3, <2>5, <3>1, <3>2, <3>3, OpenJournal
         DEF Contract!Record, Contract!Open
    <3> QED
      BY <2>1, <3>4 DEF Contract!Next
  <2> QED
    BY <2>4, <2>5
<1>7. CASE ArchiveUnlink
  <2>1. /\ active' = Null /\ last' = last
        /\ last # Null /\ last.plan = agent.plan /\ agent.plan \in Plans
        /\ agent.j # Null /\ agent.j.plan = agent.plan
    BY <1>7 DEF ArchiveUnlink, Decided, Grounded, DecidedSteps
  <2>2. Attended = IF agent.j.state = "needs_manual" THEN agent.plan ELSE Null
    BY <1>7, AttendedIs DEF ArchiveUnlink, DecidedSteps
  <2>3. Attended' \in {Attended, Null}
    BY <1>7, <2>1, AttendedStep
  <2>4. CASE agent.j.state = "needs_manual"
    <3>1. Contract!Remove
      BY <2>1, <2>2, <2>3, <2>4, ConfigurationAssumption
         DEF Contract!Remove, Contract!Through
    <3> QED
      BY <3>1 DEF Contract!Next
  <2>5. CASE agent.j.state # "needs_manual"
    <3>1. active = agent.j /\ active \in Journals
      BY <1>7, <2>1, <2>5 DEF ArchiveUnlink, Grounded, DecidedSteps, TypeOK, Invocations
    <3>2. active.state \in Contract!OpenStates
      BY <2>5, <3>1 DEF Journals, OpenStates, Contract!OpenStates
    <3>3. last.state \in {"confirmed", "rolled_back"}
      BY <1>7, <2>5 DEF ArchiveUnlink, Decided, DecidedSteps
    <3>4. Contract!Close
      BY <2>1, <2>2, <2>3, <2>5, <3>1, <3>2, <3>3, OpenJournal
         DEF Contract!Close, Contract!Open
    <3> QED
      BY <3>4 DEF Contract!Next
  <2> QED
    BY <2>4, <2>5
<1>8. CASE ClearWrite
  <2>1. /\ last' = [plan |-> clearing.plan, state |-> "cleared_manually"]
        /\ active' = active
        /\ Attended' = clearing.plan
    BY <1>8 DEF ClearWrite, Attended, TypeOK
  <2>2. Contract!Judge("cleared_manually")
    BY <1>8, <2>1, AttendedIs DEF ClearWrite, Contract!Judge, Contract!Through
  <2> QED
    BY <2>2 DEF Contract!Next
<1>9. CASE ClearUnlink
  <2>1. active' = Null /\ last' = last /\ last # Null /\ last.plan = clearing.plan
    BY <1>9 DEF ClearUnlink, Decided
  <2>2. Attended = clearing.plan /\ Attended # Null
    BY <1>9, AttendedIs DEF ClearUnlink
  <2>3. Attended' \in {Attended, Null}
    BY <2>1, AttendedStep
  <2>4. Contract!Remove
    BY <2>1, <2>2, <2>3 DEF Contract!Remove, Contract!Through
  <2> QED
    BY <2>4 DEF Contract!Next
<1>10. CASE Reboot
  <2>1. CASE active = Null
    BY <1>1, <1>10, <2>1 DEF Reboot
  <2>2. CASE active # Null
    <3>1. active \in Journals
      BY <2>2 DEF TypeOK
    <3>2. /\ active' \in Journals /\ active'.plan = active.plan
          /\ active'.state = active.state /\ last' = last
      BY <1>10, <2>2, <3>1, Rewritten DEF Reboot, TypeOK
    <3> QED
      BY <1>1, <2>2, <3>2, NullAssumption
  <2> QED
    BY <2>1, <2>2
<1>11. \/ UNCHANGED <<active, last>>
       \/ ApplyArm \/ ApplyRecord \/ ApplyFinish \/ RollbackRefused
       \/ ArchiveWrite \/ ArchiveUnlink \/ ClearWrite \/ ClearUnlink \/ Reboot
  BY QuietSteps
     DEF Next, Request, AgentStep, ApplyStep, RollbackStep, WatchdogStep,
         Failure, Admin, journal, Plan, Confirm, Rollback, Validate,
         ApplyAdmit, ApplyCheck, ApplyBackUp, ApplyStage, ApplyCommit,
         ApplyCheckPasses, ApplyCheckRejects, ApplyReload, ApplyReloadFails,
         RollbackNothing, RollbackNeeded, RollbackRestore, RollbackReload,
         ValidateRevert, WatchdogTick, AgentKilled,
         ApplyCheckRejectsUnrestored, RollbackRestoreFails, AdminEdit,
         AdminStage, AdminCommit, AdminRestore, Quiet, ClearStep, ClearRead,
         ClearKilled
<1> QED
  BY <1>1, <1>2, <1>3, <1>4, <1>5, <1>6, <1>7, <1>8, <1>9, <1>10, <1>11

\* The journal files only ever go through the state machine that the contract
\* gives them, write by write, whatever is killed, rebooted or edited in between,
\* and beside a --clear whose writes come between those of an invocation.
\* Assumed: no apply is admitted while a --clear runs.
THEOREM JournalKeepsContract ==
  ASSUME ApplyDuringClear = FALSE
  PROVE  Spec => ImplementsContract
<1>1. Init => Decided
  BY DEF Init, Decided, Idle, RollbackSteps, DecidedSteps, NotClearing
<1>2. TypeOK /\ Grounded /\ Decided /\ [Next]_vars => Decided'
  BY DecidedStep
<1>3. Init => Contract!Init
  BY DEF Init, Contract!Init, Attended, Idle, NotClearing, RollbackSteps, DecidedSteps
<1>4. TypeOK /\ Grounded /\ Decided /\ [Next]_vars
        => [Contract!Next]_(Contract!vars)
  BY ContractStep
<1> QED
  BY <1>1, <1>2, <1>3, <1>4, TypeCorrect, PTL
     DEF Spec, ImplementsContract, Contract!Spec

-------------------------------------------------------------------------------
(* A confirmed plan stays confirmed.                                       *)

\* No grant is left for the plan, so that it cannot be applied again.
Spent(p) == \A g \in Grants : PlanOf[g] = p => g \in used

\* A transaction spends the grant of its plan before there is anything of it.
SpentOnce ==
  /\ active # Null => Spent(active.plan)
  /\ last # Null => Spent(last.plan)
  /\ clearing.at # "idle" => Spent(clearing.plan)
  /\ agent.at \in UnarmedSteps \cup ArmedSteps \cup RollbackSteps
                       \cup DecidedSteps => Spent(agent.plan)

\* Of a confirmed plan there is no journal and no invocation left, but the
\* invocation that is about to remove the journal it confirmed.
Settled ==
  last # Null /\ last.state = "confirmed" =>
    /\ agent.at \in UnarmedSteps \cup ArmedSteps \cup RollbackSteps
                         \cup {"archive"} => agent.plan # last.plan
    /\ active # Null /\ active.plan = last.plan =>
         agent.at = "unlink" /\ agent.plan = last.plan

OneGrantAPlan == \A g, h \in Grants : PlanOf[g] = PlanOf[h] => g = h

\* Every step keeps it, when no plan is granted twice.
LEMMA SpentStep ==
  ASSUME TypeOK, Grounded, SpentOnce, OneGrantAPlan, [Next]_vars
  PROVE  SpentOnce'
<1> USE ConfigurationAssumption, NullAssumption
    DEF TypeOK, Grounded, SpentOnce, Spent, Invocations, Journals, Archives, OpenStates,
        LockFree, Idle, NotClearing, Cleared, Steps, UnarmedSteps, ArmedSteps,
        RollbackSteps, DecidedSteps, config, journal
<1>1. ASSUME NEW p \in Plans, Plan(p)
      PROVE  SpentOnce'
  BY <1>1 DEF Plan
<1>2. ASSUME NEW p \in Plans, Confirm(p)
      PROVE  SpentOnce'
  BY <1>2 DEF Confirm, Working
<1>3. ASSUME NEW p \in Plans, Rollback(p)
      PROVE  SpentOnce'
  BY <1>3 DEF Rollback, Working
<1>4. ASSUME NEW p \in Plans, Validate(p)
      PROVE  SpentOnce'
  BY <1>4 DEF Validate
<1>5. ASSUME NEW g \in Grants, ApplyAdmit(g)
      PROVE  SpentOnce'
  BY <1>5 DEF ApplyAdmit, OneGrantAPlan
<1>6. CASE ApplyCheck
  BY <1>6 DEF ApplyCheck
<1>7. CASE ApplyBackUp
  BY <1>7 DEF ApplyBackUp
<1>8. CASE ApplyArm
  BY <1>8 DEF ApplyArm
<1>9. CASE ApplyStage
  BY <1>9 DEF ApplyStage
<1>10. CASE ApplyCommit
  BY <1>10 DEF ApplyCommit
<1>11. CASE ApplyRecord
  BY <1>11 DEF ApplyRecord
<1>12. CASE ApplyCheckPasses
  BY <1>12 DEF ApplyCheckPasses
<1>13. CASE ApplyCheckRejects
  BY <1>13 DEF ApplyCheckRejects
<1>14. CASE ApplyReload
  BY <1>14 DEF ApplyReload
<1>15. CASE ApplyReloadFails
  BY <1>15 DEF ApplyReloadFails
<1>16. CASE ApplyFinish
  BY <1>16 DEF ApplyFinish
<1>17. CASE RollbackRefused
  BY <1>17 DEF RollbackRefused
<1>18. CASE RollbackNothing
  BY <1>18 DEF RollbackNothing
<1>19. CASE RollbackNeeded
  BY <1>19 DEF RollbackNeeded
<1>20. CASE RollbackRestore
  BY <1>20 DEF RollbackRestore
<1>21. CASE RollbackReload
  BY <1>21 DEF RollbackReload
<1>22. CASE ArchiveWrite
  BY <1>22 DEF ArchiveWrite
<1>23. CASE ArchiveUnlink
  BY <1>23 DEF ArchiveUnlink
<1>24. CASE ValidateRevert
  BY <1>24 DEF ValidateRevert
<1>25. CASE WatchdogTick
  BY <1>25 DEF WatchdogTick, Due, Working
<1>26. CASE AgentKilled
  BY <1>26 DEF AgentKilled
<1>27. CASE Reboot
  BY <1>27 DEF Reboot
<1>28. CASE ApplyCheckRejectsUnrestored
  BY <1>28 DEF ApplyCheckRejectsUnrestored
<1>29. CASE RollbackRestoreFails
  BY <1>29 DEF RollbackRestoreFails
<1>30. CASE AdminCommit
  BY <1>30 DEF AdminCommit
<1>31. CASE AdminRestore
  BY <1>31 DEF AdminRestore
<1>32. CASE ClearStep \/ ClearKilled
  BY <1>32 DEF ClearStep, ClearRead, ClearWrite, ClearUnlink, ClearKilled
<1>33. ASSUME NEW s \in Sections, NEW c \in Foreign \cup {Absent}, AdminEdit(s, c)
      PROVE  SpentOnce'
  BY <1>33 DEF AdminEdit
<1>34. ASSUME NEW s \in Sections, NEW c \in Foreign \cup {Absent}, AdminStage(s, c)
      PROVE  SpentOnce'
  BY <1>34 DEF AdminStage
<1>35. CASE Quiet
  BY <1>35 DEF Quiet
<1> QED
  BY <1>1, <1>2, <1>3, <1>4, <1>5, <1>6, <1>7, <1>8, <1>9, <1>10, <1>11,
     <1>12, <1>13, <1>14, <1>15, <1>16, <1>17, <1>18, <1>19, <1>20, <1>21,
     <1>22, <1>23, <1>24, <1>25, <1>26, <1>27, <1>28, <1>29, <1>30, <1>31,
     <1>32, <1>33, <1>34, <1>35, QuietSteps
     DEF Next, Request, AgentStep, ApplyStep, RollbackStep, WatchdogStep,
         Failure, Admin

\* Every step keeps it, when nothing is killed and the router is not rebooted.
LEMMA SettledStep ==
  ASSUME TypeOK, Grounded, SpentOnce, Decided, Settled, [Next]_vars,
         "kill" \notin FaultKinds, "reboot" \notin FaultKinds
  PROVE  Settled'
<1> USE ConfigurationAssumption, NullAssumption
    DEF TypeOK, Grounded, Settled, Invocations, Journals, Archives, OpenStates,
        LockFree, Idle, NotClearing, Cleared, Steps, UnarmedSteps, ArmedSteps,
        RollbackSteps, DecidedSteps, config, journal
<1>1. ASSUME NEW p \in Plans, Plan(p)
      PROVE  Settled'
  BY <1>1 DEF Plan
<1>2. ASSUME NEW p \in Plans, Confirm(p)
      PROVE  Settled'
  BY <1>2 DEF Confirm, Working
<1>3. ASSUME NEW p \in Plans, Rollback(p)
      PROVE  Settled'
  BY <1>3 DEF Rollback, Working
<1>4. ASSUME NEW p \in Plans, Validate(p)
      PROVE  Settled'
  BY <1>4 DEF Validate
<1>5. ASSUME NEW g \in Grants, ApplyAdmit(g)
      PROVE  Settled'
  BY <1>5 DEF ApplyAdmit, SpentOnce, Spent
<1>6. CASE ApplyCheck
  BY <1>6 DEF ApplyCheck
<1>7. CASE ApplyBackUp
  BY <1>7 DEF ApplyBackUp
<1>8. CASE ApplyArm
  BY <1>8 DEF ApplyArm
<1>9. CASE ApplyStage
  BY <1>9 DEF ApplyStage
<1>10. CASE ApplyCommit
  BY <1>10 DEF ApplyCommit
<1>11. CASE ApplyRecord
  BY <1>11 DEF ApplyRecord
<1>12. CASE ApplyCheckPasses
  BY <1>12 DEF ApplyCheckPasses
<1>13. CASE ApplyCheckRejects
  BY <1>13 DEF ApplyCheckRejects
<1>14. CASE ApplyReload
  BY <1>14 DEF ApplyReload
<1>15. CASE ApplyReloadFails
  BY <1>15 DEF ApplyReloadFails
<1>16. CASE ApplyFinish
  BY <1>16 DEF ApplyFinish
<1>17. CASE RollbackRefused
  BY <1>17 DEF RollbackRefused
<1>18. CASE RollbackNothing
  BY <1>18 DEF RollbackNothing
<1>19. CASE RollbackNeeded
  BY <1>19 DEF RollbackNeeded
<1>20. CASE RollbackRestore
  BY <1>20 DEF RollbackRestore
<1>21. CASE RollbackReload
  BY <1>21 DEF RollbackReload
<1>22. CASE ArchiveWrite
  BY <1>22 DEF ArchiveWrite, Decided
<1>23. CASE ArchiveUnlink
  BY <1>23 DEF ArchiveUnlink
<1>24. CASE ValidateRevert
  BY <1>24 DEF ValidateRevert
<1>25. CASE WatchdogTick
  BY <1>25 DEF WatchdogTick, Due, Working
<1>26. CASE AgentKilled
  BY <1>26 DEF AgentKilled, Fault
<1>27. CASE Reboot
  BY <1>27 DEF Reboot, Fault
<1>28. CASE ApplyCheckRejectsUnrestored
  BY <1>28 DEF ApplyCheckRejectsUnrestored
<1>29. CASE RollbackRestoreFails
  BY <1>29 DEF RollbackRestoreFails
<1>30. CASE AdminCommit
  BY <1>30 DEF AdminCommit
<1>31. CASE AdminRestore
  BY <1>31 DEF AdminRestore
<1>32. CASE ClearStep \/ ClearKilled
  BY <1>32 DEF ClearStep, ClearRead, ClearWrite, ClearUnlink, ClearKilled
<1>33. ASSUME NEW s \in Sections, NEW c \in Foreign \cup {Absent}, AdminEdit(s, c)
      PROVE  Settled'
  BY <1>33 DEF AdminEdit
<1>34. ASSUME NEW s \in Sections, NEW c \in Foreign \cup {Absent}, AdminStage(s, c)
      PROVE  Settled'
  BY <1>34 DEF AdminStage
<1>35. CASE Quiet
  BY <1>35 DEF Quiet
<1> QED
  BY <1>1, <1>2, <1>3, <1>4, <1>5, <1>6, <1>7, <1>8, <1>9, <1>10, <1>11,
     <1>12, <1>13, <1>14, <1>15, <1>16, <1>17, <1>18, <1>19, <1>20, <1>21,
     <1>22, <1>23, <1>24, <1>25, <1>26, <1>27, <1>28, <1>29, <1>30, <1>31,
     <1>32, <1>33, <1>34, <1>35, QuietSteps
     DEF Next, Request, AgentStep, ApplyStep, RollbackStep, WatchdogStep,
         Failure, Admin

\* A plan that has been confirmed is never recorded as rolled back: neither the
\* watchdog nor a late rollback finds anything left of it.  Assumed: a plan is
\* granted once, and nothing ends an invocation between its two writes.
THEOREM ConfirmedStaysConfirmed ==
  ASSUME ApplyDuringClear = FALSE, OneGrantAPlan,
         "kill" \notin FaultKinds, "reboot" \notin FaultKinds
  PROVE  Spec => ConfirmedIsFinal
<1> DEFINE Final ==
      last # Null /\ last.state = "confirmed" =>
        ~(last'.plan = last.plan /\ last'.state = "rolled_back")
<1>1. Init => Decided /\ SpentOnce /\ Settled
  BY DEF Init, Decided, SpentOnce, Settled, Idle, UnarmedSteps, ArmedSteps,
         RollbackSteps, DecidedSteps, NotClearing
<1>2. TypeOK /\ Grounded /\ Decided /\ SpentOnce /\ Settled /\ [Next]_vars
        => (Decided /\ SpentOnce /\ Settled)'
  BY DecidedStep, SpentStep, SettledStep
<1>3. TypeOK /\ Grounded /\ Decided /\ Settled /\ [Next]_vars => [Final]_vars
  <2> SUFFICES ASSUME TypeOK, Grounded, Decided, Settled, Next
               PROVE  Final
    OBVIOUS
  <2>1. CASE ArchiveWrite
    BY <2>1 DEF ArchiveWrite, Settled
  <2>2. CASE ClearWrite
    BY <2>2 DEF ClearWrite
  <2>3. CASE UNCHANGED last
    BY <2>3
  <2> QED
    BY <2>1, <2>2, <2>3, LastWriters
<1> QED
  BY <1>1, <1>2, <1>3, TypeCorrect, PTL DEF Spec, ConfirmedIsFinal

-------------------------------------------------------------------------------
(* The agent alone never needs an operator.                                *)

\* When nobody edits the file or ends an invocation, the file holds, at every
\* step but the one between the commit and the record of it, one of the two
\* revisions that the journal knows, and the backup is the first of them.
Undisturbed ==
  /\ clearing.at = "idle"
  /\ agent.at \in {"checked", "backed_up"} => conf = precond[agent.plan]
  /\ agent.at = "backed_up" => backup[agent.plan] = conf
  /\ agent.at \in {"armed", "saved"} => conf = agent.j.pre
  /\ agent.at \in RollbackSteps \cup DecidedSteps => active # Null
  /\ agent.at \in RollbackSteps => agent.j = active
  /\ active # Null =>
       /\ active.state # "needs_manual"
       /\ backup[active.plan] = active.pre
       /\ agent.at = "committed" \/ conf \in {active.pre, active.new}

\* Every step keeps it, when the agent is alone with the router and lives.
LEMMA UndisturbedStep ==
  ASSUME TypeOK, Grounded, Undisturbed, [Next]_vars,
         FaultKinds \cap {"kill", "reboot", "edit", "stage"} = {}
  PROVE  Undisturbed'
<1> USE ConfigurationAssumption, NullAssumption
    DEF TypeOK, Grounded, Undisturbed, Invocations, Journals, Archives, OpenStates,
        LockFree, Idle, NotClearing, Cleared, Steps, UnarmedSteps, ArmedSteps,
        RollbackSteps, DecidedSteps, config, journal
<1>1. ASSUME NEW p \in Plans, Plan(p)
      PROVE  Undisturbed'
  BY <1>1 DEF Plan
<1>2. ASSUME NEW p \in Plans, Confirm(p)
      PROVE  Undisturbed'
  BY <1>2 DEF Confirm, Working
<1>3. ASSUME NEW p \in Plans, Rollback(p)
      PROVE  Undisturbed'
  BY <1>3 DEF Rollback, Working
<1>4. ASSUME NEW p \in Plans, Validate(p)
      PROVE  Undisturbed'
  BY <1>4 DEF Validate
<1>5. ASSUME NEW g \in Grants, ApplyAdmit(g)
      PROVE  Undisturbed'
  BY <1>5 DEF ApplyAdmit
<1>6. CASE ApplyCheck
  BY <1>6 DEF ApplyCheck, ApplyAllowed
<1>7. CASE ApplyBackUp
  BY <1>7 DEF ApplyBackUp
<1>8. CASE ApplyArm
  BY <1>8 DEF ApplyArm
<1>9. CASE ApplyStage
  BY <1>9 DEF ApplyStage
<1>10. CASE ApplyCommit
  BY <1>10 DEF ApplyCommit
<1>11. CASE ApplyRecord
  BY <1>11 DEF ApplyRecord
<1>12. CASE ApplyCheckPasses
  BY <1>12 DEF ApplyCheckPasses
<1>13. CASE ApplyCheckRejects
  BY <1>13 DEF ApplyCheckRejects
<1>14. CASE ApplyReload
  BY <1>14 DEF ApplyReload
<1>15. CASE ApplyReloadFails
  BY <1>15 DEF ApplyReloadFails
<1>16. CASE ApplyFinish
  BY <1>16 DEF ApplyFinish
<1>17. CASE RollbackRefused
  BY <1>17 DEF RollbackRefused, Drifted
<1>18. CASE RollbackNothing
  BY <1>18 DEF RollbackNothing
<1>19. CASE RollbackNeeded
  BY <1>19 DEF RollbackNeeded
<1>20. CASE RollbackRestore
  BY <1>20 DEF RollbackRestore
<1>21. CASE RollbackReload
  BY <1>21 DEF RollbackReload
<1>22. CASE ArchiveWrite
  BY <1>22 DEF ArchiveWrite
<1>23. CASE ArchiveUnlink
  BY <1>23 DEF ArchiveUnlink
<1>24. CASE ValidateRevert
  BY <1>24 DEF ValidateRevert
<1>25. CASE WatchdogTick
  BY <1>25 DEF WatchdogTick, Due, Working
<1>26. CASE AgentKilled
  BY <1>26 DEF AgentKilled, Fault
<1>27. CASE Reboot
  BY <1>27 DEF Reboot, Fault
<1>28. CASE ApplyCheckRejectsUnrestored
  BY <1>28 DEF ApplyCheckRejectsUnrestored
<1>29. CASE RollbackRestoreFails
  BY <1>29 DEF RollbackRestoreFails
<1>30. CASE AdminCommit
  BY <1>30 DEF AdminCommit
<1>31. CASE AdminRestore
  BY <1>31 DEF AdminRestore
<1>32. CASE ClearStep \/ ClearKilled
  BY <1>32 DEF ClearStep, ClearRead, ClearWrite, ClearUnlink, ClearKilled
<1>33. ASSUME NEW s \in Sections, NEW c \in Foreign \cup {Absent}, AdminEdit(s, c)
      PROVE  Undisturbed'
  BY <1>33 DEF AdminEdit, Fault
<1>34. ASSUME NEW s \in Sections, NEW c \in Foreign \cup {Absent}, AdminStage(s, c)
      PROVE  Undisturbed'
  BY <1>34 DEF AdminStage, Fault
<1>35. CASE Quiet
  BY <1>35 DEF Quiet
<1> QED
  BY <1>1, <1>2, <1>3, <1>4, <1>5, <1>6, <1>7, <1>8, <1>9, <1>10, <1>11,
     <1>12, <1>13, <1>14, <1>15, <1>16, <1>17, <1>18, <1>19, <1>20, <1>21,
     <1>22, <1>23, <1>24, <1>25, <1>26, <1>27, <1>28, <1>29, <1>30, <1>31,
     <1>32, <1>33, <1>34, <1>35, QuietSteps
     DEF Next, Request, AgentStep, ApplyStep, RollbackStep, WatchdogStep,
         Failure, Admin

\* Without kills, reboots and edits no rollback ever asks for an operator.
THEOREM AgentNeedsNoOperator ==
  ASSUME ApplyDuringClear = FALSE,
         FaultKinds \cap {"kill", "reboot", "edit", "stage"} = {}
  PROVE  Spec => []NeverNeedsManual
<1>1. Init => Undisturbed
  BY DEF Init, Undisturbed, Idle, NotClearing, RollbackSteps, DecidedSteps
<1>2. TypeOK /\ Grounded /\ Undisturbed /\ [Next]_vars => Undisturbed'
  BY UndisturbedStep
<1>3. Undisturbed => NeverNeedsManual
  BY DEF Undisturbed, NeverNeedsManual
<1> QED
  BY <1>1, <1>2, <1>3, TypeCorrect, PTL DEF Spec

-------------------------------------------------------------------------------
(* No invocation leaves a delta behind.                                    *)

\* Something of a plan is staged between the save and the commit of an apply
\* and during a validation, and at no other time.
Clean ==
  agent.at \notin {"saved", "validating"} =>
    \A s \in DOMAIN staged : staged[s] \notin Owned

\* Every step keeps it, when nothing is killed.
LEMMA CleanStep ==
  ASSUME TypeOK, Grounded, Clean, [Next]_vars, "kill" \notin FaultKinds
  PROVE  Clean'
<1> USE ConfigurationAssumption, NullAssumption
    DEF TypeOK, Grounded, Clean, Invocations, Journals, Archives, OpenStates,
        LockFree, Idle, NotClearing, Cleared, Steps, UnarmedSteps, ArmedSteps,
        RollbackSteps, DecidedSteps, config, journal
<1>1. ASSUME NEW p \in Plans, Plan(p)
      PROVE  Clean'
  BY <1>1 DEF Plan
<1>2. ASSUME NEW p \in Plans, Confirm(p)
      PROVE  Clean'
  BY <1>2 DEF Confirm, Working
<1>3. ASSUME NEW p \in Plans, Rollback(p)
      PROVE  Clean'
  BY <1>3 DEF Rollback, Working
<1>4. ASSUME NEW p \in Plans, Validate(p)
      PROVE  Clean'
  BY <1>4 DEF Validate
<1>5. ASSUME NEW g \in Grants, ApplyAdmit(g)
      PROVE  Clean'
  BY <1>5 DEF ApplyAdmit
<1>6. CASE ApplyCheck
  BY <1>6 DEF ApplyCheck
<1>7. CASE ApplyBackUp
  BY <1>7 DEF ApplyBackUp
<1>8. CASE ApplyArm
  BY <1>8 DEF ApplyArm
<1>9. CASE ApplyStage
  BY <1>9 DEF ApplyStage
<1>10. CASE ApplyCommit
  BY <1>10 DEF ApplyCommit, NoDelta
<1>11. CASE ApplyRecord
  BY <1>11 DEF ApplyRecord
<1>12. CASE ApplyCheckPasses
  BY <1>12 DEF ApplyCheckPasses
<1>13. CASE ApplyCheckRejects
  BY <1>13 DEF ApplyCheckRejects, NoDelta
<1>14. CASE ApplyReload
  BY <1>14 DEF ApplyReload
<1>15. CASE ApplyReloadFails
  BY <1>15 DEF ApplyReloadFails
<1>16. CASE ApplyFinish
  BY <1>16 DEF ApplyFinish
<1>17. CASE RollbackRefused
  BY <1>17 DEF RollbackRefused
<1>18. CASE RollbackNothing
  BY <1>18 DEF RollbackNothing
<1>19. CASE RollbackNeeded
  BY <1>19 DEF RollbackNeeded
<1>20. CASE RollbackRestore
  BY <1>20 DEF RollbackRestore
<1>21. CASE RollbackReload
  BY <1>21 DEF RollbackReload, NoDelta
<1>22. CASE ArchiveWrite
  BY <1>22 DEF ArchiveWrite
<1>23. CASE ArchiveUnlink
  BY <1>23 DEF ArchiveUnlink
<1>24. CASE ValidateRevert
  BY <1>24 DEF ValidateRevert, NoDelta
<1>25. CASE WatchdogTick
  BY <1>25 DEF WatchdogTick, Due, Working
<1>26. CASE AgentKilled
  BY <1>26 DEF AgentKilled, Fault
<1>27. CASE Reboot
  BY <1>27 DEF Reboot, NoDelta
<1>28. CASE ApplyCheckRejectsUnrestored
  BY <1>28 DEF ApplyCheckRejectsUnrestored, NoDelta
<1>29. CASE RollbackRestoreFails
  BY <1>29 DEF RollbackRestoreFails
<1>30. CASE AdminCommit
  BY <1>30 DEF AdminCommit, NoDelta
<1>31. CASE AdminRestore
  BY <1>31 DEF AdminRestore
<1>32. CASE ClearStep \/ ClearKilled
  BY <1>32 DEF ClearStep, ClearRead, ClearWrite, ClearUnlink, ClearKilled
<1>33. ASSUME NEW s \in Sections, NEW c \in Foreign \cup {Absent}, AdminEdit(s, c)
      PROVE  Clean'
  BY <1>33 DEF AdminEdit
<1>34. ASSUME NEW s \in Sections, NEW c \in Foreign \cup {Absent}, AdminStage(s, c)
      PROVE  Clean'
  BY <1>34 DEF AdminStage, Over, Contents
<1>35. CASE Quiet
  BY <1>35 DEF Quiet
<1> QED
  BY <1>1, <1>2, <1>3, <1>4, <1>5, <1>6, <1>7, <1>8, <1>9, <1>10, <1>11,
     <1>12, <1>13, <1>14, <1>15, <1>16, <1>17, <1>18, <1>19, <1>20, <1>21,
     <1>22, <1>23, <1>24, <1>25, <1>26, <1>27, <1>28, <1>29, <1>30, <1>31,
     <1>32, <1>33, <1>34, <1>35, QuietSteps
     DEF Next, Request, AgentStep, ApplyStep, RollbackStep, WatchdogStep,
         Failure, Admin

\* Outside an invocation nothing of a plan is staged, where an administrator's
\* next commit would take it along.  Assumed: no invocation is killed; what it
\* had staged would stay behind.
THEOREM NothingLeftStaged ==
  ASSUME ApplyDuringClear = FALSE, "kill" \notin FaultKinds
  PROVE  Spec => []NoStrayDelta
<1>1. Init => Clean
  BY DEF Init, Clean, NoDelta
<1>2. TypeOK /\ Grounded /\ Clean /\ [Next]_vars => Clean'
  BY CleanStep
<1>3. Clean => NoStrayDelta
  BY DEF Clean, NoStrayDelta, LockFree, Idle
<1> QED
  BY <1>1, <1>2, <1>3, TypeCorrect, PTL DEF Spec

-------------------------------------------------------------------------------
(* What a rollback undoes.                                                 *)

\* Two revisions that differ in the sections of a plan only.
Elsewhere(c, d, p) == \A s \in Sections \ DOMAIN Operations[p] : c[s] = d[s]

\* The backup of a journal is the revision it was armed with, and the new
\* revision it records differs from that one by the plan's own sections.
Faithful(j) ==
  /\ backup[j.plan] = j.pre
  /\ j.new # Null => Elsewhere(j.new, j.pre, j.plan)

\* The file on its way through an apply and a rollback: what was checked is
\* what is backed up, staged upon and committed, and a restore starts from the
\* recorded revision.
Backed ==
  /\ active # Null => Faithful(active)
  /\ agent.at \in {"checked", "backed_up"} =>
       staged = NoDelta /\ conf = precond[agent.plan]
  /\ agent.at = "backed_up" => backup[agent.plan] = conf
  /\ agent.at \in ArmedSteps \cup RollbackSteps => Faithful(agent.j)
  /\ agent.at \in {"armed", "saved"} => conf = agent.j.pre
  /\ agent.at = "armed" => staged = NoDelta
  /\ agent.at = "saved" => staged = Operations[agent.plan]
  /\ agent.at \in {"committed", "recorded", "validated", "reloaded"} =>
       Elsewhere(conf, agent.j.pre, agent.plan)
  /\ agent.at = "restore" => conf = agent.j.new

\* Where a rollback has put the backup back, or found it there.
Undone ==
  /\ agent.at = "reload" => conf = backup[agent.plan]
  /\ agent.at \in DecidedSteps /\ agent.verdict = "rolled_back" =>
       conf = backup[agent.plan]

\* What a plan stages on an empty delta is the plan ...
LEMMA StagedAlone ==
  ASSUME NEW p \in Plans
  PROVE  Over(Operations[p], NoDelta) = Operations[p]
BY SmallDeltas DEF Over, NoDelta, Deltas

\* ... and what it commits touches its own sections only.
LEMMA CommittedAlone ==
  ASSUME NEW p \in Plans, NEW c \in Configs
  PROVE  Elsewhere(Over(Operations[p], c), c, p)
BY SmallDeltas DEF Over, Elsewhere, Configs, Deltas

\* Every step keeps it, when nobody edits while the lock is held.
LEMMA BackedStep ==
  ASSUME TypeOK, Grounded, Backed, [Next]_vars, EditsWhileBusy = FALSE
  PROVE  Backed'
<1> USE ConfigurationAssumption, NullAssumption
    DEF TypeOK, Grounded, Backed, Faithful, Invocations, Journals, Archives, OpenStates,
        LockFree, Idle, NotClearing, Cleared, Steps, UnarmedSteps, ArmedSteps,
        RollbackSteps, DecidedSteps, config, journal
<1>1. ASSUME NEW p \in Plans, Plan(p)
      PROVE  Backed'
  BY <1>1 DEF Plan
<1>2. ASSUME NEW p \in Plans, Confirm(p)
      PROVE  Backed'
  BY <1>2 DEF Confirm, Working
<1>3. ASSUME NEW p \in Plans, Rollback(p)
      PROVE  Backed'
  BY <1>3 DEF Rollback, Working
<1>4. ASSUME NEW p \in Plans, Validate(p)
      PROVE  Backed'
  BY <1>4 DEF Validate
<1>5. ASSUME NEW g \in Grants, ApplyAdmit(g)
      PROVE  Backed'
  BY <1>5 DEF ApplyAdmit
<1>6. CASE ApplyCheck
  BY <1>6 DEF ApplyCheck, ApplyAllowed
<1>7. CASE ApplyBackUp
  BY <1>7 DEF ApplyBackUp
<1>8. CASE ApplyArm
  BY <1>8 DEF ApplyArm
<1>9. CASE ApplyStage
  BY <1>9, StagedAlone DEF ApplyStage
<1>10. CASE ApplyCommit
  BY <1>10, CommittedAlone DEF ApplyCommit
<1>11. CASE ApplyRecord
  BY <1>11 DEF ApplyRecord
<1>12. CASE ApplyCheckPasses
  BY <1>12 DEF ApplyCheckPasses
<1>13. CASE ApplyCheckRejects
  BY <1>13 DEF ApplyCheckRejects
<1>14. CASE ApplyReload
  BY <1>14 DEF ApplyReload
<1>15. CASE ApplyReloadFails
  BY <1>15 DEF ApplyReloadFails
<1>16. CASE ApplyFinish
  BY <1>16 DEF ApplyFinish
<1>17. CASE RollbackRefused
  BY <1>17 DEF RollbackRefused
<1>18. CASE RollbackNothing
  BY <1>18 DEF RollbackNothing
<1>19. CASE RollbackNeeded
  BY <1>19 DEF RollbackNeeded, Drifted
<1>20. CASE RollbackRestore
  BY <1>20 DEF RollbackRestore
<1>21. CASE RollbackReload
  BY <1>21 DEF RollbackReload
<1>22. CASE ArchiveWrite
  BY <1>22 DEF ArchiveWrite
<1>23. CASE ArchiveUnlink
  BY <1>23 DEF ArchiveUnlink
<1>24. CASE ValidateRevert
  BY <1>24 DEF ValidateRevert
<1>25. CASE WatchdogTick
  BY <1>25 DEF WatchdogTick, Due, Working
<1>26. CASE AgentKilled
  BY <1>26 DEF AgentKilled
<1>27. CASE Reboot
  BY <1>27 DEF Reboot
<1>28. CASE ApplyCheckRejectsUnrestored
  BY <1>28 DEF ApplyCheckRejectsUnrestored
<1>29. CASE RollbackRestoreFails
  BY <1>29 DEF RollbackRestoreFails
<1>30. CASE AdminCommit
  BY <1>30 DEF AdminCommit, AdminMayWrite
<1>31. CASE AdminRestore
  BY <1>31 DEF AdminRestore
<1>32. CASE ClearStep \/ ClearKilled
  BY <1>32 DEF ClearStep, ClearRead, ClearWrite, ClearUnlink, ClearKilled
<1>33. ASSUME NEW s \in Sections, NEW c \in Foreign \cup {Absent}, AdminEdit(s, c)
      PROVE  Backed'
  BY <1>33 DEF AdminEdit, AdminMayWrite
<1>34. ASSUME NEW s \in Sections, NEW c \in Foreign \cup {Absent}, AdminStage(s, c)
      PROVE  Backed'
  BY <1>34 DEF AdminStage, AdminMayWrite
<1>35. CASE Quiet
  BY <1>35 DEF Quiet
<1> QED
  BY <1>1, <1>2, <1>3, <1>4, <1>5, <1>6, <1>7, <1>8, <1>9, <1>10, <1>11,
     <1>12, <1>13, <1>14, <1>15, <1>16, <1>17, <1>18, <1>19, <1>20, <1>21,
     <1>22, <1>23, <1>24, <1>25, <1>26, <1>27, <1>28, <1>29, <1>30, <1>31,
     <1>32, <1>33, <1>34, <1>35, QuietSteps
     DEF Next, Request, AgentStep, ApplyStep, RollbackStep, WatchdogStep,
         Failure, Admin

\* Every step keeps it, when also the backup is never rejected.
LEMMA UndoneStep ==
  ASSUME TypeOK, Grounded, Decided, Backed, Undone, [Next]_vars,
         EditsWhileBusy = FALSE, "reject_restore" \notin FaultKinds
  PROVE  Undone'
<1> USE ConfigurationAssumption, NullAssumption
    DEF TypeOK, Grounded, Undone, Invocations, Journals, Archives, OpenStates,
        LockFree, Idle, NotClearing, Cleared, Steps, UnarmedSteps, ArmedSteps,
        RollbackSteps, DecidedSteps, config, journal
<1>1. ASSUME NEW p \in Plans, Plan(p)
      PROVE  Undone'
  BY <1>1 DEF Plan
<1>2. ASSUME NEW p \in Plans, Confirm(p)
      PROVE  Undone'
  BY <1>2 DEF Confirm, Working
<1>3. ASSUME NEW p \in Plans, Rollback(p)
      PROVE  Undone'
  BY <1>3 DEF Rollback, Working
<1>4. ASSUME NEW p \in Plans, Validate(p)
      PROVE  Undone'
  BY <1>4 DEF Validate
<1>5. ASSUME NEW g \in Grants, ApplyAdmit(g)
      PROVE  Undone'
  BY <1>5 DEF ApplyAdmit
<1>6. CASE ApplyCheck
  BY <1>6 DEF ApplyCheck
<1>7. CASE ApplyBackUp
  BY <1>7 DEF ApplyBackUp
<1>8. CASE ApplyArm
  BY <1>8 DEF ApplyArm
<1>9. CASE ApplyStage
  BY <1>9 DEF ApplyStage
<1>10. CASE ApplyCommit
  BY <1>10 DEF ApplyCommit
<1>11. CASE ApplyRecord
  BY <1>11 DEF ApplyRecord
<1>12. CASE ApplyCheckPasses
  BY <1>12 DEF ApplyCheckPasses
<1>13. CASE ApplyCheckRejects
  BY <1>13 DEF ApplyCheckRejects
<1>14. CASE ApplyReload
  BY <1>14 DEF ApplyReload
<1>15. CASE ApplyReloadFails
  BY <1>15 DEF ApplyReloadFails
<1>16. CASE ApplyFinish
  BY <1>16 DEF ApplyFinish
<1>17. CASE RollbackRefused
  BY <1>17 DEF RollbackRefused
<1>18. CASE RollbackNothing
  BY <1>18 DEF RollbackNothing, Backed, Faithful
<1>19. CASE RollbackNeeded
  BY <1>19 DEF RollbackNeeded
<1>20. CASE RollbackRestore
  BY <1>20 DEF RollbackRestore
<1>21. CASE RollbackReload
  BY <1>21 DEF RollbackReload
<1>22. CASE ArchiveWrite
  BY <1>22 DEF ArchiveWrite
<1>23. CASE ArchiveUnlink
  BY <1>23 DEF ArchiveUnlink
<1>24. CASE ValidateRevert
  BY <1>24 DEF ValidateRevert
<1>25. CASE WatchdogTick
  BY <1>25 DEF WatchdogTick, Due, Working
<1>26. CASE AgentKilled
  BY <1>26 DEF AgentKilled
<1>27. CASE Reboot
  BY <1>27 DEF Reboot
<1>28. CASE ApplyCheckRejectsUnrestored
  BY <1>28 DEF ApplyCheckRejectsUnrestored, Fault
<1>29. CASE RollbackRestoreFails
  BY <1>29 DEF RollbackRestoreFails
<1>30. CASE AdminCommit
  BY <1>30 DEF AdminCommit, AdminMayWrite
<1>31. CASE AdminRestore
  BY <1>31 DEF AdminRestore
<1>32. CASE ClearStep \/ ClearKilled
  BY <1>32 DEF ClearStep, ClearRead, ClearWrite, ClearUnlink, ClearKilled
<1>33. ASSUME NEW s \in Sections, NEW c \in Foreign \cup {Absent}, AdminEdit(s, c)
      PROVE  Undone'
  BY <1>33 DEF AdminEdit, AdminMayWrite
<1>34. ASSUME NEW s \in Sections, NEW c \in Foreign \cup {Absent}, AdminStage(s, c)
      PROVE  Undone'
  BY <1>34 DEF AdminStage, AdminMayWrite
<1>35. CASE Quiet
  BY <1>35 DEF Quiet
<1> QED
  BY <1>1, <1>2, <1>3, <1>4, <1>5, <1>6, <1>7, <1>8, <1>9, <1>10, <1>11,
     <1>12, <1>13, <1>14, <1>15, <1>16, <1>17, <1>18, <1>19, <1>20, <1>21,
     <1>22, <1>23, <1>24, <1>25, <1>26, <1>27, <1>28, <1>29, <1>30, <1>31,
     <1>32, <1>33, <1>34, <1>35, QuietSteps
     DEF Next, Request, AgentStep, ApplyStep, RollbackStep, WatchdogStep,
         Failure, Admin

\* While an invocation restores or has just recorded its change, only it writes.
LEMMA BusySteps ==
  ASSUME Next, EditsWhileBusy = FALSE, agent.at \in {"restore", "recorded"}
  PROVE  conf' = conf \/ conf' = backup[agent.plan]
<1>1. ~LockFree
  BY DEF LockFree, Idle
<1> QED
  BY <1>1, QuietSteps
     DEF Next, Request, AgentStep, ApplyStep, RollbackStep, WatchdogStep,
         Failure, Admin, config, journal, AdminMayWrite, Plan, Confirm,
         Rollback, Validate, ApplyAdmit, ApplyCheck, ApplyBackUp, ApplyStage,
         ApplyCommit, ApplyCheckPasses, ApplyCheckRejects, ApplyReload,
         ApplyReloadFails, RollbackNothing, RollbackNeeded, RollbackRestore,
         RollbackReload, ValidateRevert, WatchdogTick, AgentKilled,
         ApplyCheckRejectsUnrestored, RollbackRestoreFails, AdminEdit,
         AdminStage, AdminCommit, AdminRestore, Quiet, ApplyArm, ApplyRecord,
         ApplyFinish, RollbackRefused, ArchiveUnlink, Reboot, ArchiveWrite,
         ClearStep, ClearRead, ClearWrite, ClearUnlink, ClearKilled

\* A journal goes by the unlink that ends an invocation or by a clear.
LEMMA Closers ==
  ASSUME TypeOK, Grounded, Next, active # Null, active' = Null
  PROVE  ArchiveUnlink \/ ClearUnlink
<1>1. ApplyArm \/ ApplyRecord \/ ApplyFinish \/ RollbackRefused \/ Reboot
        \/ ArchiveUnlink \/ ClearUnlink
  BY QuietSteps, NullAssumption
     DEF Next, Request, AgentStep, ApplyStep, RollbackStep, WatchdogStep,
         Failure, Admin, config, journal, Plan, Confirm, Rollback, Validate,
         ApplyAdmit, ApplyCheck, ApplyBackUp, ApplyStage, ApplyCommit,
         ApplyCheckPasses, ApplyCheckRejects, ApplyReload, ApplyReloadFails,
         RollbackNothing, RollbackNeeded, RollbackRestore, RollbackReload,
         ValidateRevert, WatchdogTick, AgentKilled,
         ApplyCheckRejectsUnrestored, RollbackRestoreFails, AdminEdit,
         AdminStage, AdminCommit, AdminRestore, Quiet, ApplyArm, ApplyRecord,
         ApplyFinish, RollbackRefused, ArchiveUnlink, Reboot, ArchiveWrite,
         ClearStep, ClearRead, ClearWrite, ClearUnlink, ClearKilled
<1>2. ~ApplyArm
  BY DEF ApplyArm, Grounded, UnarmedSteps
<1>3. ~Reboot
  <2>1. active \in Journals
    BY OpenJournal
  <2>2. [active EXCEPT !.boot = "earlier"] \in Journals
    BY <2>1 DEF Journals
  <2> QED
    BY <2>2, NullAssumption DEF Reboot
<1>4. ~ApplyRecord /\ ~ApplyFinish /\ ~RollbackRefused
  <2>1. agent.j \in Journals \cup {Null} /\ conf \in Configs
    BY DEF TypeOK, Invocations
  <2>2. ASSUME ApplyRecord \/ ApplyFinish \/ RollbackRefused
        PROVE  agent.j \in Journals
    BY <2>1, <2>2 DEF ApplyRecord, ApplyFinish, RollbackRefused, Grounded,
                      ArmedSteps, RollbackSteps
  <2>3. ASSUME ApplyRecord \/ ApplyFinish \/ RollbackRefused
        PROVE  active' \in Journals
    BY <2>1, <2>2, <2>3
       DEF ApplyRecord, ApplyFinish, RollbackRefused, Journals, OpenStates
  <2> QED
    BY <2>3, NullAssumption
<1> QED
  BY <1>1, <1>2, <1>3, <1>4

\* Both hold at first: no journal is open.
LEMMA BackedInit == Init => Backed /\ Undone
BY DEF Init, Backed, Undone, Idle, ArmedSteps, RollbackSteps, DecidedSteps

\* Putting a backup back changes nothing but the sections that the plan wrote.
\* Assumed: nobody commits to the file while an invocation holds the lock
\* (RouterAgent_drift.cfg shows what happens otherwise).
THEOREM UndoTouchesNothingElse ==
  ASSUME ApplyDuringClear = FALSE, EditsWhileBusy = FALSE
  PROVE  Spec => UndoTouchesOnlyThePlan
<1> DEFINE Careful ==
      agent.at \in {"restore", "recorded"} /\ agent' # agent =>
        \A s \in Sections \ DOMAIN Operations[agent.plan] : conf'[s] = conf[s]
<1>1. TypeOK /\ Grounded /\ Backed /\ [Next]_vars => Backed'
  BY BackedStep
<1>2. TypeOK /\ Grounded /\ Backed /\ [Next]_vars => [Careful]_vars
  <2> SUFFICES ASSUME TypeOK, Grounded, Backed, Next,
                      agent.at \in {"restore", "recorded"}, agent' # agent
               PROVE  Elsewhere(conf', conf, agent.plan)
    BY DEF Elsewhere
  <2>1. /\ backup[agent.plan] = agent.j.pre
        /\ Elsewhere(conf, agent.j.pre, agent.plan)
    BY NullAssumption, ConfigurationAssumption
       DEF Backed, Faithful, ArmedSteps, RollbackSteps, Grounded, TypeOK
  <2>2. conf' = conf \/ conf' = backup[agent.plan]
    BY BusySteps DEF LockFree, Idle
  <2> QED
    BY <2>1, <2>2 DEF Elsewhere
<1> QED
  BY <1>1, <1>2, BackedInit, TypeCorrect, PTL DEF Spec, UndoTouchesOnlyThePlan

\* A journal closed as rolled_back leaves the revision that its plan was made
\* for, by every path to that verdict.  Assumed: the same, and that the restore
\* of a rejected change, whose result the agent ignores, does not fail.
THEOREM RolledBackMeansUndone ==
  ASSUME ApplyDuringClear = FALSE, EditsWhileBusy = FALSE,
         "reject_restore" \notin FaultKinds
  PROVE  Spec => RolledBackIsUndone
<1> DEFINE Restored ==
      active # Null /\ active' = Null /\ agent' # agent
        /\ last'.state = "rolled_back" => conf' = active.pre
<1>1. Init => Decided /\ Backed /\ Undone
  BY BackedInit DEF Init, Decided, Idle, NotClearing, RollbackSteps, DecidedSteps
<1>2. TypeOK /\ Grounded /\ Decided /\ Backed /\ Undone /\ [Next]_vars
        => (Decided /\ Backed /\ Undone)'
  BY DecidedStep, BackedStep, UndoneStep
<1>3. TypeOK /\ Grounded /\ Decided /\ Backed /\ Undone /\ [Next]_vars
        => [Restored]_vars
  <2> SUFFICES ASSUME TypeOK, Grounded, Decided, Backed, Undone, Next,
                      active # Null, active' = Null, agent' # agent,
                      last'.state = "rolled_back"
               PROVE  conf' = active.pre
    OBVIOUS
  <2>1. ArchiveUnlink \/ ClearUnlink
    BY Closers
  <2>2. CASE ArchiveUnlink
    <3>1. /\ agent.at = "unlink" /\ conf' = conf /\ last' = last
          /\ active.plan = agent.plan
      BY <2>2 DEF ArchiveUnlink, Grounded, DecidedSteps, config
    <3>2. agent.verdict = "rolled_back"
      <4>1. agent.verdict = "confirmed" => agent.j.state = "applied_unconfirmed"
        BY <3>1 DEF Decided, DecidedSteps
      <4> QED
        BY <3>1, <4>1 DEF Decided, DecidedSteps
    <3>3. conf = backup[agent.plan]
      BY <3>1, <3>2 DEF Undone, DecidedSteps
    <3> QED
      BY <3>1, <3>3 DEF Backed, Faithful
  <2>3. CASE ClearUnlink
    BY <2>3 DEF ClearUnlink
  <2> QED
    BY <2>1, <2>2, <2>3
<1> QED
  BY <1>1, <1>2, <1>3, TypeCorrect, PTL DEF Spec, RolledBackIsUndone
================================================================================
