---------------------------- MODULE Deletion_proofs ----------------------------
(***************************************************************************)
(* The theorem that a Service is not let go while a firewall rule of its   *)
(* is left, or an operation that could still bring one up.  The proof      *)
(* follows an operation from the request that submits it, through the      *)
(* annotation that records it and the rule it makes, to the deletion that  *)
(* has to find it, by the id of the rule, by the operation, or by name.    *)
(* The cache may be behind by any number of versions.                      *)
(***************************************************************************)
EXTENDS Rules_proofs

\* It has made a rule for the Service there is, or still could.
Active(o) == fws[o].owner = stored.uid /\ (fws[o].op = "IN_PROGRESS" \/ fws[o].rule)

NoActive == \A o \in 1..MaxOps : ~Active(o)

\* Submitted for the Service there is, before its deletion was requested.
Early(o) == fws[o].owner = stored.uid /\ ~fws[o].late

InFlight(o) == Early(o) /\ fws[o].op = "IN_PROGRESS"

\* Operations are submitted for Services there are or were, and only for ones
\* with a managed rule.
OwnersInv ==
    /\ \A o \in 1..MaxOps : /\ fws[o].owner <= uids
                            /\ fws[o].op # "unused" => Managed /\ fws[o].owner # 0
    /\ pc \in {"adoptFirewallRule", "createFirewallRule"} => Managed

\* At the hold limit nothing that was submitted in time is in flight.
HoldInv == expired => stored.deleting /\ \A o \in 1..MaxOps : ~InFlight(o)

\* A rule was made by an operation that has succeeded.
RuleIsMade == \A o \in 1..MaxOps : fws[o].rule => Done(o)

\* A pass that deletes works on the Service that is there, if that one has the
\* finalizer.
HeldByPass == pc \in DeletePoints /\ stored.finalizer => svc.uid = stored.uid

\* What holds whatever has failed.
Sound ==
    /\ History /\ OwnInv /\ NoLaterUid /\ OperationInv /\ AddsToNoDeletion
    /\ OwnersInv /\ HoldInv /\ RuleIsMade /\ HeldByPass

-----------------------------------------------------------------------------
(* Operations and rules *)

LEMMA ResultIsOneOf ==
    ASSUME TypeInv, NEW o \in 1..MaxOps
    PROVE  fws[o] \in FirewallRule /\ fws[o].owner \in Nat /\ fws[o].late \in BOOLEAN
<1>1. fws[o] \in FirewallRule /\ MaxUid \in Nat
  BY Objects, BoundsType
<1>2. fws[o].owner \in 0..MaxUid /\ fws[o].late \in BOOLEAN
  BY <1>1 DEF FirewallRule
<1>3. QED
  BY <1>1, <1>2

LEMMA OwnersStep ==
    ASSUME History, LivesInOrder, NoLaterUid, OwnersInv, [Next]_vars
    PROVE  OwnersInv'
<1>1. TypeInv /\ uids \in Nat /\ uids' \in {uids, uids + 1} /\ svc.uid \in Nat
  <2>1. TypeInv /\ uids' \in {uids, uids + 1}
    BY LifeGoesOn DEF History
  <2>2. uids \in 0..MaxUid /\ svc.uid \in 0..MaxUid /\ MaxUid \in Nat
    BY <2>1, Objects, ServiceFields, BoundsType
  <2>3. QED
    BY <2>1, <2>2
<1>2. ASSUME NEW o \in 1..MaxOps
      PROVE  fws'[o].owner <= uids' /\ (fws'[o].op # "unused" => Managed /\ fws'[o].owner # 0)
  <2>1. fws[o].owner \in Nat
    BY <1>1, ResultIsOneOf
  <2>2. CASE FwKept(o)
    BY <1>1, <2>1, <2>2 DEF FwKept, SameRequest, OwnersInv
  <2>3. CASE FwCreated(o)
    <3>1. fws'[o].owner = svc.uid /\ pc = "createFirewallRule"
      BY <2>3 DEF FwCreated, CreateFirewallRule
    <3>2. svc.uid # 0 /\ svc.uid <= uids /\ Managed
      BY <3>1 DEF History, BlankInv, NoLaterUid, OwnersInv
    <3>3. QED
      BY <1>1, <3>1, <3>2
  <2>4. QED
    BY <1>1, <2>2, <2>3, KeptUnlessCreated
<1>3. pc' \in {"adoptFirewallRule", "createFirewallRule"} => Managed
  BY RuleMoves DEF WantsRule, OwnersInv, reconcileVars
<1>4. QED
  BY <1>2, <1>3 DEF OwnersInv

\* A rule stays until it is deleted.
LEMMA RuleStays ==
    ASSUME ~OperatorActs, TypeInv, FreshIds, [Next]_vars, NEW o \in 1..MaxOps, fws[o].rule
    PROVE  fws'[o].rule \/ (DeleteRule /\ rule = o)
BY EachFirewallRule
DEF FwMoves, FwPatched, FwRemoved, FwSucceeded, FwClashed, FwFailed, FwCooled, FwAged, FwStuck,
    FwCreated, FreshIds, OperatorRemoves

LEMMA RuleIsMadeStep ==
    ASSUME TypeInv, FreshIds, RuleIsMade, [Next]_vars
    PROVE  RuleIsMade'
<1> SUFFICES ASSUME NEW o \in 1..MaxOps, fws'[o].rule PROVE Done(o)'
  BY DEF RuleIsMade
<1>1. CASE fws[o].rule
  BY <1>1, ResultStays DEF RuleIsMade
<1>2. CASE ~fws[o].rule
  <2>1. FwSucceeded(o)
    BY <1>2, EachFirewallRule
    DEF FwMoves, FwPatched, FwRemoved, FwClashed, FwFailed, FwCooled, FwAged, FwStuck, FwCreated
  <2>2. QED
    BY <2>1 DEF FwSucceeded, Done
<1>3. QED
  BY <1>1, <1>2

LEMMA SubmissionIsNew ==
    ASSUME TypeInv, [Next]_vars, CreateFirewallRule, pc' = "recordOperation"
    PROVE  rule' \in 1..MaxOps /\ FwCreated(rule')
<1>1. rule' \in 1..MaxOps /\ fws'[rule'].op = "IN_PROGRESS"
  BY CreatedIsOwn
<1>2. fws[rule'].op = "unused"
  BY DEF CreateFirewallRule, NextOperationId, Finish, DropLocals
<1>3. QED
  BY <1>1, <1>2, EachFirewallRule
  DEF FwMoves, FwPatched, FwRemoved, FwSucceeded, FwClashed, FwFailed, FwCooled, FwAged, FwStuck

-----------------------------------------------------------------------------
(* What is written *)

LEMMA RecordWritten ==
    ASSUME TypeInv, NEW new \in Service, Write(new)
    PROVE  /\ stored'.uid = new.uid /\ stored'.deleting = new.deleting
           /\ stored'.opId = new.opId /\ stored'.ruleId = new.ruleId
BY NextVersionFields DEF Write

\* The ids of the rule and its operation, after each step that writes them.
LEMMA RuleRecords ==
    ASSUME TypeInv, Exists(stored)
    PROVE  /\ RecordRule => stored'.opId = stored.opId /\ stored'.ruleId = rule
           /\ RecordAdoptedRule => stored'.opId = 0 /\ stored'.ruleId = rule
           /\ RecordOperation => /\ stored'.opId = rule
                                 /\ stored'.ruleId = IF svc.ruleId # 0 THEN 0 ELSE stored.ruleId
           /\ ClearRule => /\ stored'.opId = IF svc.opId # 0 THEN 0 ELSE stored.opId
                           /\ stored'.ruleId = IF svc.ruleId # 0 THEN 0 ELSE stored.ruleId
<1>1. /\ stored \in Service /\ svc \in Service
      /\ [stored EXCEPT !.ruleId = rule] \in Service
      /\ [stored EXCEPT !.ruleId = rule, !.opId = 0] \in Service
      /\ WithOperation(stored, rule) \in Service
      /\ WithoutRule(stored) \in Service
  BY Objects, WrittenByReconcile
<1>2. ASSUME RecordRule
      PROVE  stored'.opId = stored.opId /\ stored'.ruleId = rule
  <2>1. Write([stored EXCEPT !.ruleId = rule])
    BY <1>2 DEF RecordRule, PatchAndFinish
  <2>2. /\ [stored EXCEPT !.ruleId = rule].opId = stored.opId
        /\ [stored EXCEPT !.ruleId = rule].ruleId = rule
    BY <1>1 DEF Service
  <2>3. QED
    BY <1>1, <2>1, <2>2, RecordWritten
<1>3. ASSUME RecordAdoptedRule
      PROVE  stored'.opId = 0 /\ stored'.ruleId = rule
  <2>1. Write([stored EXCEPT !.ruleId = rule, !.opId = 0])
    BY <1>3 DEF RecordAdoptedRule, PatchAndFinish
  <2>2. /\ [stored EXCEPT !.ruleId = rule, !.opId = 0].opId = 0
        /\ [stored EXCEPT !.ruleId = rule, !.opId = 0].ruleId = rule
    BY <1>1 DEF Service
  <2>3. QED
    BY <1>1, <2>1, <2>2, RecordWritten
<1>4. ASSUME RecordOperation
      PROVE  /\ stored'.opId = rule
             /\ stored'.ruleId = IF svc.ruleId # 0 THEN 0 ELSE stored.ruleId
  <2>1. Write(WithOperation(stored, rule))
    BY <1>4 DEF RecordOperation, PatchAndFinish
  <2>2. /\ WithOperation(stored, rule).opId = rule
        /\ WithOperation(stored, rule).ruleId = IF svc.ruleId # 0 THEN 0 ELSE stored.ruleId
    BY <1>1 DEF WithOperation, Service
  <2>3. QED
    BY <1>1, <2>1, <2>2, RecordWritten
<1>5. ASSUME ClearRule
      PROVE  /\ stored'.opId = IF svc.opId # 0 THEN 0 ELSE stored.opId
             /\ stored'.ruleId = IF svc.ruleId # 0 THEN 0 ELSE stored.ruleId
  <2>1. Write(WithoutRule(stored))
    BY <1>5 DEF ClearRule, Patch
  <2>2. /\ WithoutRule(stored).opId = IF svc.opId # 0 THEN 0 ELSE stored.opId
        /\ WithoutRule(stored).ruleId = IF svc.ruleId # 0 THEN 0 ELSE stored.ruleId
    BY <1>1 DEF WithoutRule, Service
  <2>3. QED
    BY <1>1, <2>1, <2>2, RecordWritten
<1>6. QED
  BY <1>2, <1>3, <1>4, <1>5

-----------------------------------------------------------------------------
(* The hold limit *)

\* What is early was so before, unless it has just been submitted.
LEMMA EarlyStays ==
    ASSUME History, LivesInOrder, OwnersInv, [Next]_vars, NEW o \in 1..MaxOps,
           Early(o)', fws'[o].op # "unused", ~FwCreated(o)
    PROVE  stored'.uid = stored.uid /\ stored.uid # 0 /\ Early(o)
<1>1. /\ fws'[o].owner = fws[o].owner /\ ~fws[o].late /\ fws[o].op # "unused"
      /\ fws'[o].owner = stored'.uid
  BY KeptUnlessCreated DEF FwKept, SameRequest, History, Early
<1>2. fws[o].owner # 0 /\ fws[o].owner <= uids
  BY <1>1 DEF OwnersInv
<1>3. stored'.uid # uids + 1
  <2>1. uids \in 0..MaxUid /\ MaxUid \in Nat /\ fws[o].owner \in Nat
    BY Objects, BoundsType, ResultIsOneOf DEF History
  <2>2. QED
    BY <1>1, <1>2, <2>1
<1>4. QED
  BY <1>1, <1>2, <1>3, LifeGoesOn DEF Early

LEMMA FlightsStay ==
    ASSUME History, LivesInOrder, OwnersInv, [Next]_vars, NEW o \in 1..MaxOps,
           InFlight(o)', ~FwCreated(o)
    PROVE  stored'.uid = stored.uid /\ stored.uid # 0 /\ InFlight(o)
<1>1. fws'[o].op = "IN_PROGRESS" /\ Early(o)'
  BY DEF InFlight, Early
<1>2. stored'.uid = stored.uid /\ stored.uid # 0 /\ Early(o)
  BY <1>1, EarlyStays
<1>3. fws[o].op = "IN_PROGRESS"
  BY <1>1, EachFirewallRule
  DEF FwMoves, FwPatched, FwRemoved, FwSucceeded, FwClashed, FwFailed, FwCooled, FwAged, FwStuck,
      History
<1>4. QED
  BY <1>2, <1>3 DEF InFlight

LEMMA HoldStep ==
    ASSUME ~OperatorActs, History, LivesInOrder, OwnersInv, HoldInv, [Next]_vars
    PROVE  HoldInv'
<1> SUFFICES ASSUME expired'
             PROVE  stored'.deleting /\ \A o \in 1..MaxOps : ~InFlight(o)'
  BY DEF HoldInv
<1>1. CASE HoldExpires
  <2>1. stored' = stored /\ stored.deleting
    BY <1>1 DEF HoldExpires, kubeVars
  <2>2. ASSUME NEW o \in 1..MaxOps, InFlight(o)'
        PROVE  FALSE
    <3>1. fws[o] \in FirewallRule
      BY ResultIsOneOf DEF History
    <3>2. fws'[o] = IF fws[o].owner = stored.uid /\ fws[o].op = "IN_PROGRESS" /\ ~fws[o].late
                    THEN [fws[o] EXCEPT !.op = "STUCK"]
                    ELSE fws[o]
      BY <1>1 DEF HoldExpires, OperationsStuckAtHoldLimit
    <3>3. [fws[o] EXCEPT !.op = "STUCK"].op = "STUCK"
      BY <3>1 DEF FirewallRule
    <3>4. QED
      BY <2>1, <2>2, <3>2, <3>3 DEF InFlight, Early
  <2>3. QED
    BY <2>1, <2>2
<1>2. CASE expired /\ ~HoldExpires
  <2>1. stored.deleting /\ \A o \in 1..MaxOps : ~InFlight(o)
    BY <1>2 DEF HoldInv
  <2>2. stored'.deleting
    <3>1. ~Appears /\ ~LosesFinalizer /\ ~Goes
      BY <2>1
      DEF Appears, LosesFinalizer, Goes, OperatorReleases, RemoveFinalizer, UpdateConflicts,
          History, BlankInv, Blank
    <3>2. QED
      BY <2>1, <3>1, EveryChange
      DEF Changes, IsRecorded, IsPublished, GetsRule, KeepsRecords, KeepsCare, History
  <2>3. ASSUME NEW o \in 1..MaxOps, InFlight(o)'
        PROVE  FALSE
    <3>1. ~FwCreated(o)
      BY <2>1, <2>3 DEF FwCreated, InFlight, Early
    <3>2. QED
      BY <2>1, <2>3, <3>1, FlightsStay
  <2>4. QED
    BY <2>2, <2>3
<1>3. expired \/ HoldExpires
  <2>1. CASE Worker
    BY <2>1
    DEF Worker, Reconcile, AddFinalizer, HandleCreate, LookUp, CreateLoadBalancer, CreateRefused,
        WaitForOperation, RecordLoadBalancer, SetLoadBalancerIngress, EnsureLoadBalancerIngress,
        RestoreIngress, UpdateLoadBalancer, EnsureFirewallRule, PatchFirewallRule,
        AdoptFirewallRule, RecordRule, RecordAdoptedRule, PatchAndFinish, CreateFirewallRule,
        RecordOperation, DeleteFirewallRule, FindRule, DeleteRule, ClearRule, DeleteLoadBalancer,
        RemoveFinalizer, KubeUnchanged, OutsideUnchanged
  <2>2. CASE \/ CallFails \/ Crash \/ User \/ DeliverEvent \/ Timer \/ NodeChanges
             \/ \E i \in 1..MaxLbs : LbProgress(i)
             \/ \E o \in 1..MaxOps : FwProgress(o)
             \/ CloudFault \/ OperatorRemoves \/ OperatorReleases \/ UNCHANGED vars
    BY <2>2
    DEF CallFails, Crash, User, DeliverEvent, Timer, NodeChanges, LbProgress, FwProgress,
        CloudFault, OperatorRemoves, OperatorReleases, vars
  <2>3. QED
    BY <2>1, <2>2 DEF Next
<1>4. QED
  BY <1>1, <1>2, <1>3

-----------------------------------------------------------------------------
(* What holds whatever has failed *)

LEMMA HeldByPassStep ==
    ASSUME ~OperatorActs, History, OwnInv, HeldByPass, [Next]_vars
    PROVE  HeldByPass'
<1> SUFFICES ASSUME pc' \in DeletePoints, stored'.finalizer
             PROVE  svc'.uid = stored'.uid
  BY DEF HeldByPass
<1>1. CASE Begins
  <2>1. stored' = stored /\ svc' = cached
    BY <1>1 DEF Begins, Reconcile
  <2>2. QED
    BY <2>1 DEF OwnInv, CareInv, SeenByCache
<1>2. CASE pc \in DeletePoints /\ svc' = svc
  <2>1. ~(AddFinalizer /\ ~UpdateConflicts(svc))
    BY <1>2 DEF AddFinalizer, DeletePoints
  <2>2. stored.finalizer /\ stored'.uid = stored.uid
    BY <2>1, FinalizerStays
    DEF Appears, Goes, Blank, IsRecorded, IsPublished, GetsRule, KeepsRecords, KeepsCare
  <2>3. QED
    BY <1>2, <2>2 DEF HeldByPass
<1>3. UNCHANGED reconcileVars => pc' = pc /\ svc' = svc
  BY DEF reconcileVars, locals
<1>4. DeleteAdvances => pc \in DeletePoints /\ (svc' = svc \/ svc' = stored')
  <2> SUFFICES ASSUME DeleteAdvances
               PROVE  pc \in DeletePoints /\ (svc' = svc \/ svc' = stored')
    OBVIOUS
  <2>1. pc \in DeletePoints /\ pc # "idle" /\ ~Begins /\ pc' # "idle"
    BY DEF DeleteAdvances, DeletePoints, Begins, Reconcile
  <2>2. QED
    BY <1>3, <2>1, PassMoves DEF Advances
<1>5. QED
  BY <1>1, <1>2, <1>3, <1>4, DeleteMoves

LEMMA SoundInit == Init => Sound
<1> SUFFICES ASSUME Init PROVE Sound
  OBVIOUS
<1>1. NoLaterUid /\ History /\ OwnInv /\ OperationInv
  BY AddressInit, HistoryInit, OwnInit, OperationInit DEF AddressInv
<1>2. pc = "idle" /\ expired = FALSE /\ uids = 0
  BY DEF Init, KubeInit
<1>3. \A o \in 1..MaxOps : fws[o].owner = 0 /\ fws[o].op = "unused" /\ ~fws[o].rule
  BY DEF Init, CloudInit, NoFirewallRule
<1>4. QED
  BY <1>1, <1>2, <1>3
  DEF Sound, AddsToNoDeletion, OwnersInv, HoldInv, RuleIsMade, HeldByPass, DeletePoints

LEMMA SoundStep ==
    ASSUME ~OperatorActs, Sound, [Next]_vars
    PROVE  Sound'
<1>1. NoSuccessor /\ TypeInv /\ FreshIds /\ LivesInOrder
  BY DEF NoSuccessor, Sound, History, OwnInv
<1>2. History' /\ OwnInv' /\ NoLaterUid' /\ OperationInv' /\ AddsToNoDeletion'
  BY <1>1, HistoryStep, OwnStep, NoLaterUidStep, OperationStep, AddsStep DEF Sound
<1>3. OwnersInv' /\ HoldInv' /\ RuleIsMade' /\ HeldByPass'
  BY <1>1, OwnersStep, HoldStep, RuleIsMadeStep, HeldByPassStep DEF Sound
<1>4. QED
  BY <1>2, <1>3 DEF Sound

-----------------------------------------------------------------------------
(* How a deletion finds what it has to remove *)

\* The operation has no result yet, or its rule is there.
MadeRule(o) == fws[o].op = "SUCCEEDED" => fws[o].rule

\* It made no rule and never will.
Spent(o) == fws[o].op \in {"FAILED", "GONE"} /\ ~fws[o].rule

OneActive == \A o, p \in 1..MaxOps : Active(o) /\ Active(p) => o = p

ActiveIsRecorded ==
    \A o \in 1..MaxOps :
       Active(o) => o \in {stored.opId, stored.ruleId} \/ (pc = "recordOperation" /\ rule = o)

ActiveIsHeld == \A o \in 1..MaxOps : Active(o) => stored.finalizer

\* The rule this version of the Service shows is there.
RulesUp(v) ==
    v.uid = stored.uid /\ v.uid # 0 => /\ v.ruleId # 0 => fws[v.ruleId].rule
                                       /\ v.opId # 0 => MadeRule(v.opId)

CopiesUp ==
    RulesUp(stored) /\ RulesUp(cached) /\ RulesUp(svc) /\ \A i \in DOMAIN watch : RulesUp(watch[i])

\* A deletion has removed the rule, and no pass to come will ask for another.
TidiedUp == stored.deleting /\ NoLiveCopy /\ pc \notin LivePoints /\ NoActive

\* What ensureFirewallRule knows after each of its steps.
HandFacts ==
    /\ pc \in {"adoptFirewallRule", "createFirewallRule"} => svc.ruleId = 0
    /\ pc = "createFirewallRule" /\ svc.opId # 0 => Spent(svc.opId)
    /\ pc = "recordOperation" => MadeRule(rule) /\ \A o \in 1..MaxOps : Active(o) => o = rule
    /\ pc \in {"recordRule", "recordAdopted"} => fws[rule].rule

\* What deleteFirewallRule knows after each of its steps; where nothing has
\* refreshed its copy, only if the Update of the finalizer is going to succeed.
DeletionFacts ==
    /\ pc = "findRule" /\ svc.rv = stored.rv => \A o \in 1..MaxOps : ~InFlight(o)
    /\ pc = "deleteRule" => \A o \in 1..MaxOps : Active(o) => o = rule /\ fws[o].rule
    /\ pc = "clearRule" => NoActive
    /\ pc \in {"deleteLoadBalancer", "removeFinalizer"} /\ svc.rv = stored.rv
          => \A o \in 1..MaxOps : Active(o) => fws[o].late

Found ==
    /\ OneActive /\ ActiveIsRecorded /\ ActiveIsHeld
    /\ TidiedUp \/ CopiesUp
    /\ HandFacts /\ DeletionFacts

\* No call has failed, no restart has cut a pass off, and none has submitted
\* from a copy that misses what is recorded.
Untroubled == faults = 0 /\ NoneIsBlind

FoundInv == Untroubled => Found

LEMMA NoFaultBefore ==
    ASSUME TypeInv, [Next]_vars, faults' = 0
    PROVE  faults = 0 /\ ~CallFails /\ ~Crash
<1>1. faults \in Nat
  BY BoundsType DEF TypeInv, TypeOK
<1>2. ASSUME CallFails \/ Crash
      PROVE  FALSE
  <2>1. faults' = faults + 1
    BY <1>2 DEF CallFails, Crash
  <2>2. QED
    BY <1>1, <2>1
<1>3. ASSUME Worker
      PROVE  faults' = faults
  BY <1>3
  DEF Worker, Reconcile, AddFinalizer, HandleCreate, LookUp, CreateLoadBalancer, CreateRefused,
      WaitForOperation, RecordLoadBalancer, SetLoadBalancerIngress, EnsureLoadBalancerIngress,
      RestoreIngress, UpdateLoadBalancer, EnsureFirewallRule, PatchFirewallRule,
      AdoptFirewallRule, RecordRule, RecordAdoptedRule, PatchAndFinish, CreateFirewallRule,
      RecordOperation, DeleteFirewallRule, FindRule, DeleteRule, ClearRule, DeleteLoadBalancer,
      RemoveFinalizer, KubeUnchanged, OutsideUnchanged
<1>4. ASSUME \/ User \/ DeliverEvent \/ Timer \/ NodeChanges
             \/ \E i \in 1..MaxLbs : LbProgress(i)
             \/ \E o \in 1..MaxOps : FwProgress(o)
             \/ CloudFault \/ OperatorRemoves \/ OperatorReleases \/ HoldExpires
             \/ UNCHANGED vars
      PROVE  faults' = faults
  BY <1>4
  DEF User, DeliverEvent, Timer, NodeChanges, LbProgress, FwProgress, CloudFault,
      OperatorRemoves, OperatorReleases, HoldExpires, vars
<1>5. QED
  BY <1>2, <1>3, <1>4 DEF Next

LEMMA UntroubledBefore ==
    ASSUME Sound, [Next]_vars, Untroubled'
    PROVE  /\ Untroubled /\ ~CallFails /\ ~Crash
           /\ CreateFirewallRule /\ pc' = "recordOperation" => ~MissesRecord(svc)
<1>1. TypeInv /\ FreshIds
  BY DEF Sound, History, OwnInv
<1>2. faults = 0 /\ ~CallFails /\ ~Crash
  BY <1>1, NoFaultBefore DEF Untroubled
<1>3. \A o \in 1..MaxOps : ~fws'[o].blind
  BY DEF Untroubled, NoneIsBlind
<1>4. NoneIsBlind
  BY <1>1, <1>3, KeptUnlessCreated DEF NoneIsBlind, FwKept, SameRequest, FwCreated, FreshIds
<1>5. CreateFirewallRule /\ pc' = "recordOperation" => ~MissesRecord(svc)
  BY <1>1, <1>3, SubmissionIsNew DEF FwCreated
<1>6. QED
  BY <1>2, <1>4, <1>5 DEF Untroubled

\* A pass that is not cut off takes the step of the point it has reached.
LEMMA PassTakesItsStep ==
    ASSUME [Next]_vars, ~CallFails, ~Crash, ~UNCHANGED reconcileVars
    PROVE  /\ pc = "recordOperation" => RecordOperation
           /\ pc = "clearRule" => ClearRule
<1>1. Worker
  BY DEF Next, User, DeliverEvent, Timer, NodeChanges, LbProgress, FwProgress, CloudFault,
         OperatorRemoves, OperatorReleases, HoldExpires, vars, reconcileVars
<1>2. ASSUME Worker, pc = "recordOperation"
      PROVE  RecordOperation
  BY <1>2
  DEF Worker, Reconcile, AddFinalizer, HandleCreate, LookUp, CreateLoadBalancer, CreateRefused,
      WaitForOperation, RecordLoadBalancer, SetLoadBalancerIngress, EnsureLoadBalancerIngress,
      RestoreIngress, UpdateLoadBalancer, EnsureFirewallRule, PatchFirewallRule,
      AdoptFirewallRule, RecordRule, RecordAdoptedRule, CreateFirewallRule, DeleteFirewallRule,
      FindRule, DeleteRule, ClearRule, DeleteLoadBalancer, RemoveFinalizer
<1>3. ASSUME Worker, pc = "clearRule"
      PROVE  ClearRule
  BY <1>3
  DEF Worker, Reconcile, AddFinalizer, HandleCreate, LookUp, CreateLoadBalancer, CreateRefused,
      WaitForOperation, RecordLoadBalancer, SetLoadBalancerIngress, EnsureLoadBalancerIngress,
      RestoreIngress, UpdateLoadBalancer, EnsureFirewallRule, PatchFirewallRule,
      AdoptFirewallRule, RecordRule, RecordAdoptedRule, CreateFirewallRule, RecordOperation,
      DeleteFirewallRule, FindRule, DeleteRule, DeleteLoadBalancer, RemoveFinalizer
<1>4. QED
  BY <1>1, <1>2, <1>3

\* What is active was so before, unless it has just been submitted.
LEMMA ActiveStays ==
    ASSUME Sound, [Next]_vars, NEW o \in 1..MaxOps, Active(o)', ~FwCreated(o)
    PROVE  Active(o) /\ stored.uid # 0 /\ stored'.uid = stored.uid /\ fws'[o].late = fws[o].late
<1>1. TypeInv /\ FreshIds /\ LivesInOrder /\ History
  BY DEF Sound, History, OwnInv
<1>2. fws[o].op = "IN_PROGRESS" \/ fws[o].rule
  BY <1>1, EachFirewallRule
  DEF FwMoves, FwPatched, FwRemoved, FwSucceeded, FwClashed, FwFailed, FwCooled, FwAged, FwStuck,
      Active
<1>3. /\ fws'[o].owner = fws[o].owner /\ fws'[o].owner = stored'.uid
      /\ fws'[o].late = fws[o].late /\ fws[o].op # "unused"
  BY <1>1, <1>2, KeptUnlessCreated DEF FwKept, SameRequest, FreshIds, Active
<1>4. fws[o].owner # 0 /\ fws[o].owner <= uids
  BY <1>3 DEF Sound, OwnersInv
<1>5. stored'.uid # uids + 1
  <2>1. uids \in 0..MaxUid /\ MaxUid \in Nat /\ fws[o].owner \in Nat
    BY <1>1, Objects, BoundsType, ResultIsOneOf
  <2>2. QED
    BY <1>3, <1>4, <2>1
<1>6. QED
  BY <1>1, <1>2, <1>3, <1>4, <1>5, LifeGoesOn DEF Active

LEMMA RuleOfItsOwn ==
    ASSUME Sound, NEW v \in Service, OwnRecord(v), v.uid = stored.uid, v.uid # 0, RulesUp(v)
    PROVE  /\ v.ruleId # 0 => v.ruleId \in 1..MaxOps /\ Active(v.ruleId)
           /\ v.opId # 0 => /\ v.opId \in 1..MaxOps
                            /\ fws[v.opId].op = "SUCCEEDED" => Active(v.opId)
<1>1. v.ruleId \in 0..MaxOps /\ v.opId \in 0..MaxOps /\ MaxOps \in Nat
  BY ServiceFields, BoundsType
<1>2. QED
  BY <1>1 DEF OwnRecord, RulesUp, MadeRule, Active

\* Nothing that could make a rule is left when the next operation is submitted.
LEMMA SubmitsAfterTheLast ==
    ASSUME Sound, Found, CreateFirewallRule, ~MissesRecord(svc)
    PROVE  NoActive
<1>1. /\ pc = "createFirewallRule" /\ svc.ruleId = 0 /\ stored.ruleId = 0
      /\ svc.opId = stored.opId
      /\ svc.opId # 0 => Spent(svc.opId)
  BY DEF CreateFirewallRule, MissesRecord, Found, HandFacts
<1>2. ASSUME NEW o \in 1..MaxOps, Active(o)
      PROVE  FALSE
  <2>1. o = stored.opId /\ o # 0
    BY <1>1, <1>2 DEF Found, ActiveIsRecorded
  <2>2. QED
    BY <1>1, <1>2, <2>1 DEF Spent, Active
<1>3. QED
  BY <1>2 DEF NoActive

LEMMA OneActiveStep ==
    ASSUME Sound, Found, [Next]_vars, Untroubled'
    PROVE  OneActive'
<1> SUFFICES ASSUME NEW o \in 1..MaxOps, NEW p \in 1..MaxOps, o # p, Active(o)', Active(p)'
             PROVE  FALSE
  BY DEF OneActive
<1>1. \A q \in {o, p} : FwCreated(q) => NoActive
  <2>1. \A q \in {o, p} : FwCreated(q) => CreateFirewallRule /\ pc' = "recordOperation"
    BY DEF FwCreated, CreateFirewallRule, Goto, NextOperationId
  <2>2. QED
    BY <2>1, UntroubledBefore, SubmitsAfterTheLast
<1>2. ~(FwCreated(o) /\ FwCreated(p))
  BY DEF FwCreated
<1>3. \A q \in {o, p} : FwCreated(q) \/ Active(q)
  BY ActiveStays
<1>4. QED
  BY <1>1, <1>2, <1>3 DEF NoActive, Found, OneActive

LEMMA ActiveIsHeldStep ==
    ASSUME ~OperatorActs, Sound, Found, [Next]_vars
    PROVE  ActiveIsHeld'
<1> SUFFICES ASSUME NEW o \in 1..MaxOps, Active(o)' PROVE stored'.finalizer
  BY DEF ActiveIsHeld
<1>1. CASE FwCreated(o)
  BY <1>1
  DEF FwCreated, CreateFirewallRule, KubeUnchanged, Sound, OwnInv, CareInv, PassIsOnItsService,
      LivePoints
<1>2. CASE ~FwCreated(o)
  <2>1. stored.finalizer /\ stored.uid # 0 /\ stored'.uid = stored.uid
    BY <1>2, ActiveStays DEF Found, ActiveIsHeld
  <2>2. QED
    BY <2>1, FinalizerStays
    DEF Sound, Appears, Goes, Blank, IsRecorded, IsPublished, GetsRule, KeepsRecords, KeepsCare
<1>3. QED
  BY <1>1, <1>2

LEMMA ActiveIsRecordedStep ==
    ASSUME ~OperatorActs, Sound, Found, [Next]_vars, Untroubled'
    PROVE  ActiveIsRecorded'
<1> SUFFICES ASSUME NEW o \in 1..MaxOps, Active(o)'
             PROVE  \/ o \in {stored'.opId, stored'.ruleId}
                    \/ pc' = "recordOperation" /\ rule' = o
  BY DEF ActiveIsRecorded
<1>1. TypeInv /\ ~CallFails /\ ~Crash
  BY UntroubledBefore DEF Sound, History
<1>2. CASE FwCreated(o)
  BY <1>2 DEF FwCreated, CreateFirewallRule, Goto, NextOperationId
<1>3. CASE ~FwCreated(o)
  <2>1. Active(o) /\ stored.uid # 0 /\ stored'.uid = stored.uid /\ Exists(stored)
    BY <1>3, ActiveStays DEF Exists
  <2>2. CASE pc = "recordOperation" /\ rule = o
    <3>1. RecordOperation => stored'.opId = o
      BY <1>1, <2>1, <2>2, RuleRecords
    <3>2. UNCHANGED reconcileVars => pc' = pc /\ rule' = rule
      BY DEF reconcileVars, locals
    <3>3. QED
      BY <1>1, <2>2, <3>1, <3>2, PassTakesItsStep
  <2>3. CASE o \in {stored.opId, stored.ruleId}
    <3>1. CASE RecordRule \/ RecordAdoptedRule
      <4>1. pc \in {"recordRule", "recordAdopted"} /\ stored.uid = svc.uid
        BY <3>1
        DEF RecordRule, RecordAdoptedRule, Sound, OwnInv, CareInv, PassIsOnItsService, LivePoints
      <4>2. rule \in 1..MaxOps /\ Active(rule)
        <5>1. rule # 0 /\ rule \in 0..MaxOps /\ MaxOps \in Nat
          BY <1>1, <4>1, Objects, BoundsType DEF Sound, OwnInv, HandOwn
        <5>2. fws[rule].owner = stored.uid /\ fws[rule].rule
          BY <4>1 DEF Sound, OwnInv, HandOwn, Found, HandFacts
        <5>3. QED
          BY <5>1, <5>2 DEF Active
      <4>3. o = rule
        BY <2>1, <4>2 DEF Found, OneActive
      <4>4. QED
        BY <1>1, <2>1, <3>1, <4>3, RuleRecords
    <3>2. CASE RecordOperation
      <4>1. o = rule
        BY <2>1, <3>2 DEF RecordOperation, Found, HandFacts
      <4>2. QED
        BY <1>1, <2>1, <3>2, <4>1, RuleRecords
    <3>3. CASE ClearRule
      BY <2>1, <3>3 DEF ClearRule, Found, DeletionFacts, NoActive
    <3>4. CASE KeepsRule \/ UNCHANGED stored
      BY <2>3, <3>4 DEF KeepsRule
    <3>5. ~Appears /\ ~Goes
      BY <2>1 DEF Appears, Goes, Blank
    <3>6. QED
      BY <3>1, <3>2, <3>3, <3>4, <3>5, EveryChange
      DEF Changes, LosesFinalizer, IsRecorded, IsPublished, GetsRule, KeepsRecords, Sound, History
  <2>4. QED
    BY <2>1, <2>2, <2>3 DEF Found, ActiveIsRecorded
<1>4. QED
  BY <1>2, <1>3

\* A deletion leaves nothing behind that it knows of.
LEMMA RemovedRuleIsLast ==
    ASSUME Sound, Found, [Next]_vars, DeleteRule
    PROVE  NoActive'
<1>1. pc = "deleteRule" /\ TypeInv
  BY DEF DeleteRule, Sound, History
<1> SUFFICES ASSUME NEW o \in 1..MaxOps, Active(o)' PROVE FALSE
  BY DEF NoActive
<1>2. ~FwCreated(o)
  BY <1>1 DEF FwCreated, CreateFirewallRule
<1>3. Active(o) /\ o = rule /\ fws[o].rule
  BY <1>1, <1>2, ActiveStays DEF Found, DeletionFacts
<1>4. Done(o)
  BY <1>3 DEF Sound, RuleIsMade
<1>5. fws \in [1..MaxOps -> FirewallRule] /\ fws[o] \in FirewallRule
  BY <1>1, Objects
<1>6. fws'[o] = [fws[o] EXCEPT !.rule = FALSE]
  BY <1>3, <1>5 DEF DeleteRule, RemoveRule
<1>7. ~fws'[o].rule /\ fws'[o].op = fws[o].op
  BY <1>5, <1>6 DEF FirewallRule
<1>8. QED
  BY <1>4, <1>7 DEF Active, Done

-----------------------------------------------------------------------------
(* The copies of the Service *)

\* Once tidied up, it stays so until the Service goes.
LEMMA StaysTidiedUp ==
    ASSUME ~OperatorActs, Sound, [Next]_vars, TidiedUp
    PROVE  TidiedUp' \/ stored'.uid = 0
<1>1. History /\ TypeInv /\ VersionInv /\ BlankInv /\ stored.uid # 0
  BY DEF Sound, History, BlankInv, Blank, TidiedUp
<1>2. stored'.uid = 0 \/ stored'.deleting
  BY <1>1, FinalizerStays
  DEF Sound, Appears, Goes, Blank, IsRecorded, IsPublished, GetsRule, KeepsRecords, KeepsCare,
      TidiedUp
<1>3. ASSUME stored'.deleting
      PROVE  NoLiveCopy'
  <2>1. ~Live(stored) /\ ~Live(stored') /\ ~Live(cached) /\ \A i \in DOMAIN watch : ~Live(watch[i])
    BY <1>3 DEF TidiedUp, NoLiveCopy, Live
  <2>2. QED
    BY <1>1, <2>1, CopiesComeFrom DEF NoLiveCopy, Live
<1>4. pc' \notin LivePoints
  <2>1. CASE Begins
    BY <2>1 DEF Begins, FirstStep, TidiedUp, NoLiveCopy, Live, LivePoints
  <2>2. CASE pc = "addFinalizer" /\ ~UpdateConflicts(svc)
    BY <1>1, <2>2 DEF UpdateConflicts, VersionInv, CurrentWith, TidiedUp, Sound, AddsToNoDeletion
  <2>3. CASE pc \in DeletePoints /\ pc' \in DeletePoints
    BY <2>3 DEF DeletePoints, LivePoints
  <2>4. QED
    BY <2>1, <2>2, <2>3, PassMoves DEF Advances, TidiedUp, LivePoints, reconcileVars
<1>5. NoActive'
  <2>1. \A o \in 1..MaxOps : ~FwCreated(o)
    BY DEF FwCreated, CreateFirewallRule, TidiedUp, LivePoints
  <2>2. QED
    BY <2>1, ActiveStays DEF TidiedUp, NoActive
<1>6. QED
  BY <1>2, <1>3, <1>4, <1>5 DEF TidiedUp

\* A deletion that removes the rule the Service had has tidied up.
LEMMA TidiesUp ==
    ASSUME ~OperatorActs, Sound, Found, [Next]_vars, DeleteRule,
           NEW o \in 1..MaxOps, rule = o, Active(o)
    PROVE  TidiedUp'
<1>1. pc = "deleteRule" /\ pc' = "clearRule" /\ UNCHANGED <<stored, watch, cached>>
  BY DEF DeleteRule, Goto, KubeUnchanged, OutsideUnchanged
<1>2. stored.deleting /\ NoLiveCopy
  BY <1>1
  DEF Found, ActiveIsHeld, Sound, OwnInv, CareInv, PassIsOnItsService, DeletePoints
<1>3. NoActive'
  BY RemovedRuleIsLast
<1>4. QED
  BY <1>1, <1>2, <1>3 DEF TidiedUp, NoLiveCopy, LivePoints

\* Any other step leaves the Service's rule where it is.
LEMMA OwnRuleStays ==
    ASSUME ~OperatorActs, Sound, [Next]_vars,
           \A p \in 1..MaxOps : DeleteRule /\ rule = p => ~Active(p)
    PROVE  \A o \in 1..MaxOps :
              fws[o].owner = stored.uid => /\ fws[o].rule => fws'[o].rule
                                           /\ MadeRule(o) => MadeRule(o)'
<1> SUFFICES ASSUME NEW o \in 1..MaxOps, fws[o].owner = stored.uid
             PROVE  (fws[o].rule => fws'[o].rule) /\ (MadeRule(o) => MadeRule(o)')
  OBVIOUS
<1>1. TypeInv /\ FreshIds
  BY DEF Sound, History, OwnInv
<1>2. fws[o].rule => fws'[o].rule
  BY <1>1, RuleStays DEF Active
<1>3. ASSUME MadeRule(o), fws'[o].op = "SUCCEEDED"
      PROVE  fws'[o].rule
  <2>1. fws[o].op = "SUCCEEDED" \/ FwSucceeded(o)
    BY <1>1, <1>3, EachFirewallRule
    DEF FwMoves, FwPatched, FwRemoved, FwClashed, FwFailed, FwCooled, FwAged, FwStuck, FwCreated
  <2>2. QED
    BY <1>2, <1>3, <2>1 DEF FwSucceeded, MadeRule
<1>4. QED
  BY <1>2, <1>3 DEF MadeRule

LEMMA CopyStaysUp ==
    ASSUME ~OperatorActs, Sound, [Next]_vars,
           \A p \in 1..MaxOps : DeleteRule /\ rule = p => ~Active(p),
           NEW v \in Service, OwnRecord(v), v.uid <= uids, RulesUp(v)
    PROVE  RulesUp(v)'
<1> SUFFICES ASSUME v.uid = stored'.uid, v.uid # 0
             PROVE  /\ v.ruleId # 0 => fws'[v.ruleId].rule
                    /\ v.opId # 0 => MadeRule(v.opId)'
  BY DEF RulesUp, MadeRule
<1>1. v.uid = stored.uid
  <2>1. v.uid \in 0..MaxUid /\ uids \in 0..MaxUid /\ MaxUid \in Nat
    BY ServiceFields, Objects, BoundsType DEF Sound, History
  <2>2. v.uid # uids + 1
    BY <2>1
  <2>3. QED
    BY <2>2, LifeGoesOn DEF Sound, OwnInv
<1>2. /\ v.ruleId # 0 => v.ruleId \in 1..MaxOps /\ fws[v.ruleId].owner = stored.uid
      /\ v.opId # 0 => v.opId \in 1..MaxOps /\ fws[v.opId].owner = stored.uid
  <2>1. v.ruleId \in 0..MaxOps /\ v.opId \in 0..MaxOps /\ MaxOps \in Nat
    BY ServiceFields, BoundsType
  <2>2. QED
    BY <1>1, <2>1 DEF OwnRecord
<1>3. QED
  BY <1>1, <1>2, OwnRuleStays DEF RulesUp, MadeRule

LEMMA StoredStaysUp ==
    ASSUME ~OperatorActs, Sound, Found, [Next]_vars, ~CallFails, ~Crash, CopiesUp,
           \A p \in 1..MaxOps : DeleteRule /\ rule = p => ~Active(p)
    PROVE  RulesUp(stored)'
<1>1. TypeInv /\ stored \in Service /\ stored.uid <= uids /\ OwnRecord(stored)
  BY Objects DEF Sound, History, OwnInv, CopiesOwn, LivesInOrder
<1>2. CASE stored'.uid = stored.uid /\ stored.uid # 0
  <2>1. /\ stored.ruleId # 0 => fws'[stored.ruleId].rule
        /\ stored.opId # 0 => (fws'[stored.opId].op = "SUCCEEDED" => fws'[stored.opId].rule)
    <3>1. /\ stored.ruleId \in 0..MaxOps /\ stored.opId \in 0..MaxOps /\ MaxOps \in Nat
          /\ RulesUp(stored)
      BY <1>1, ServiceFields, BoundsType DEF CopiesUp
    <3>2. QED
      BY <1>1, <1>2, <3>1, OwnRuleStays DEF OwnRecord, RulesUp, MadeRule
  <2>2. CASE stored'.opId \in {0, stored.opId} /\ stored'.ruleId \in {0, stored.ruleId}
    BY <2>1, <2>2 DEF RulesUp, MadeRule
  <2>3. CASE RecordRule \/ RecordAdoptedRule \/ RecordOperation
    <3>1. UNCHANGED fws /\ Exists(stored)
      BY <1>2, <2>3
      DEF RecordRule, RecordAdoptedRule, RecordOperation, PatchAndFinish, cloudVars, Exists
    <3>2. /\ pc \in {"recordRule", "recordAdopted"} => fws[rule].rule
          /\ pc = "recordOperation" => MadeRule(rule)
      BY DEF Found, HandFacts
    <3>3. /\ stored'.opId # 0 => MadeRule(stored'.opId)
          /\ stored'.ruleId # 0 => fws[stored'.ruleId].rule
      BY <1>1, <1>2, <2>1, <2>3, <3>1, <3>2, RuleRecords
      DEF RecordRule, RecordAdoptedRule, RecordOperation, MadeRule
    <3>4. QED
      BY <3>1, <3>3 DEF RulesUp, MadeRule
  <2>4. KeepsRule \/ UNCHANGED stored => stored'.opId = stored.opId /\ stored'.ruleId = stored.ruleId
    BY DEF KeepsRule
  <2>5. QED
    BY <1>2, <2>2, <2>3, <2>4, EveryChange
    DEF Changes, Appears, Goes, Blank, LosesFinalizer, IsRecorded, IsPublished, GetsRule,
        KeepsRecords, Sound, History
<1>3. CASE stored'.uid # stored.uid \/ stored.uid = 0
  BY <1>3, EveryChange
  DEF Changes, Appears, Goes, Blank, LosesFinalizer, IsRecorded, IsPublished, GetsRule,
      KeepsRecords, KeepsCare, RulesUp, Sound, History
<1>4. QED
  BY <1>2, <1>3

LEMMA CopiesStayUp ==
    ASSUME ~OperatorActs, Sound, Found, [Next]_vars, ~CallFails, ~Crash, CopiesUp,
           \A p \in 1..MaxOps : DeleteRule /\ rule = p => ~Active(p)
    PROVE  CopiesUp'
<1>1. TypeInv
  BY DEF Sound, History
<1>2. RulesUp(stored)'
  BY StoredStaysUp
<1>3. ASSUME NEW v \in {cached, svc} \cup {watch[i] : i \in DOMAIN watch}
      PROVE  RulesUp(v)'
  <2>1. v \in Service
    BY <1>1, Objects
  <2>2. v.uid <= uids /\ OwnRecord(v) /\ RulesUp(v)
    BY DEF Sound, OwnInv, CopiesOwn, LivesInOrder, NoLaterUid, CopiesUp
  <2>3. QED
    BY <2>1, <2>2, CopyStaysUp
<1>4. RulesUp(cached)'
  <2>1. CASE cached' = stored /\ UNCHANGED stored
    BY <1>2, <2>1 DEF RulesUp, MadeRule
  <2>2. CASE cached' = cached \/ \E j \in DOMAIN watch : cached' = watch[j]
    BY <1>3, <2>2 DEF RulesUp, MadeRule
  <2>3. QED
    BY <1>1, <2>1, <2>2, CopiesComeFrom
<1>5. RulesUp(svc)'
  <2>1. CASE svc' = stored'
    BY <1>2, <2>1 DEF RulesUp, MadeRule
  <2>2. CASE svc' \in {svc, cached}
    BY <1>3, <2>2 DEF RulesUp, MadeRule
  <2>3. CASE svc' = NoService(0)
    <3>1. svc'.uid = 0
      BY <2>3 DEF NoService
    <3>2. QED
      BY <3>1 DEF RulesUp
  <2>4. QED
    BY <1>1, <2>1, <2>2, <2>3, CopiesComeFrom DEF SvcIsSome
<1>6. ASSUME NEW i \in DOMAIN watch'
      PROVE  RulesUp(watch[i])'
  <2>1. CASE watch'[i] = stored'
    BY <1>2, <2>1 DEF RulesUp, MadeRule
  <2>2. CASE \E j \in DOMAIN watch : watch'[i] = watch[j]
    BY <1>3, <2>2 DEF RulesUp, MadeRule
  <2>3. QED
    BY <1>1, <2>1, <2>2, CopiesComeFrom
<1>7. QED
  BY <1>2, <1>4, <1>5, <1>6 DEF CopiesUp

-----------------------------------------------------------------------------
(* What the steps of a pass know *)

LEMMA HandFactsStep ==
    ASSUME ~OperatorActs, Sound, Found, [Next]_vars, Untroubled'
    PROVE  HandFacts'
<1>1. /\ TypeInv /\ FreshIds /\ ~CallFails /\ ~Crash
      /\ CreateFirewallRule /\ pc' = "recordOperation" => ~MissesRecord(svc)
  BY UntroubledBefore DEF Sound, History, OwnInv
<1>2. pc \in LivePoints => RulesUp(svc) /\ svc.uid = stored.uid /\ svc.uid # 0
  BY DEF Found, TidiedUp, CopiesUp, Sound, OwnInv, CareInv, PassIsOnItsService, History, BlankInv,
         LivePoints
<1>3. /\ svc.opId \in 0..MaxOps /\ rule \in 0..MaxOps
      /\ \A o \in 0..MaxOps : o # 0 => o \in 1..MaxOps
      /\ OwnRecord(svc)
  <2>1. \A o \in 0..MaxOps : o # 0 => o \in 1..MaxOps
    BY BoundsType
  <2>2. QED
    BY <1>1, <2>1, Objects, ServiceFields DEF Sound, OwnInv, CopiesOwn
<1>4. \A o \in 1..MaxOps : Spent(o) => Spent(o)'
  BY <1>1, EachFirewallRule
  DEF FwMoves, FwPatched, FwRemoved, FwSucceeded, FwClashed, FwFailed, FwCooled, FwAged, FwStuck,
      FwCreated, Spent
<1>5. ASSUME pc' \in {"adoptFirewallRule", "createFirewallRule"}
      PROVE  svc'.ruleId = 0
  BY <1>2, <1>5, RuleMoves
  DEF Found, HandFacts, RulesUp, LivePoints, reconcileVars, locals
<1>6. ASSUME pc' = "createFirewallRule", svc'.opId # 0
      PROVE  Spent(svc.opId)'
  <2>1. CASE UNCHANGED reconcileVars
    <3>1. svc' = svc /\ svc.opId # 0 /\ Spent(svc.opId)
      BY <1>6, <2>1 DEF reconcileVars, locals, Found, HandFacts
    <3>2. QED
      BY <1>3, <1>4, <3>1 DEF Spent
  <2>2. CASE /\ pc = "ensureFirewallRule" /\ svc' = svc /\ UNCHANGED fws
             /\ svc.opId # 0 /\ fws[svc.opId].op = "FAILED"
    BY <1>3, <2>2 DEF Spent, Sound, RuleIsMade, Done
  <2>3. CASE pc = "ensureFirewallRule" /\ svc.ruleId # 0 /\ ~fws[svc.ruleId].rule
    BY <1>2, <2>3 DEF RulesUp, LivePoints
  <2>4. CASE /\ pc = "adoptFirewallRule" /\ svc' = svc /\ UNCHANGED fws
             /\ RulesNamed(svc.uid) = {}
    <3>1. svc.opId \in 1..MaxOps /\ fws[svc.opId].owner = svc.uid /\ Undone(svc.opId)
      BY <1>3, <1>6, <2>4 DEF OwnRecord, Sound, OperationInv, OperationFacts
    <3>2. QED
      BY <2>4, <3>1 DEF RulesNamed, Undone, Spent
  <2>5. QED
    BY <1>6, <2>1, <2>2, <2>3, <2>4, RuleMoves
<1>7. ASSUME pc' = "recordOperation"
      PROVE  /\ MadeRule(rule)'
             /\ \A o \in 1..MaxOps : Active(o)' => o = rule'
  <2>1. CASE UNCHANGED reconcileVars
    <3>1. pc = "recordOperation" /\ rule' = rule /\ rule \in 1..MaxOps
      BY <1>3, <1>7, <2>1 DEF reconcileVars, locals, Sound, OwnInv, HandOwn
    <3>2. MadeRule(rule) /\ \A o \in 1..MaxOps : Active(o) => o = rule
      BY <3>1 DEF Found, HandFacts
    <3>3. fws[rule].owner = stored.uid
      BY <1>2, <3>1 DEF Sound, OwnInv, HandOwn, LivePoints
    <3>4. ~DeleteRule /\ \A o \in 1..MaxOps : ~FwCreated(o)
      BY <3>1 DEF DeleteRule, FwCreated, CreateFirewallRule
    <3>5. QED
      BY <3>1, <3>2, <3>3, <3>4, OwnRuleStays, ActiveStays DEF MadeRule
  <2>2. CASE CreateFirewallRule
    <3>1. rule' \in 1..MaxOps /\ FwCreated(rule') /\ NoActive
      BY <1>1, <1>7, <2>2, SubmissionIsNew, SubmitsAfterTheLast
    <3>2. \A o \in 1..MaxOps : FwCreated(o) => o = rule'
      BY DEF FwCreated
    <3>3. QED
      BY <3>1, <3>2, ActiveStays DEF FwCreated, MadeRule, NoActive
  <2>3. QED
    BY <1>7, <2>1, <2>2, RuleInHandMoves
<1>8. ASSUME pc' \in {"recordRule", "recordAdopted"}
      PROVE  fws'[rule'].rule
  <2>1. CASE UNCHANGED reconcileVars
    <3>1. pc \in {"recordRule", "recordAdopted"} /\ rule' = rule /\ rule \in 1..MaxOps
      BY <1>3, <1>8, <2>1 DEF reconcileVars, locals, Sound, OwnInv, HandOwn
    <3>2. fws[rule].rule /\ ~DeleteRule
      BY <3>1 DEF Found, HandFacts, DeleteRule
    <3>3. QED
      BY <1>1, <3>1, <3>2, RuleStays
  <2>2. CASE rule' \in RulesNamed(svc.uid) /\ UNCHANGED fws
    BY <2>2 DEF RulesNamed
  <2>3. CASE /\ pc = "ensureFirewallRule" /\ UNCHANGED fws
             /\ rule' = svc.opId /\ svc.opId # 0 /\ fws[svc.opId].op = "SUCCEEDED"
    BY <1>2, <2>3 DEF RulesUp, MadeRule, LivePoints
  <2>4. QED
    BY <1>8, <2>1, <2>2, <2>3, RuleMoves
<1>9. QED
  BY <1>5, <1>6, <1>7, <1>8 DEF HandFacts

\* The steps of handleDelete that lead on to another.
LEMMA DeletionMoves ==
    ASSUME [Next]_vars, pc' \in DeletePoints \ {"deleteFirewallRule"}
    PROVE  \/ UNCHANGED reconcileVars
           \/ /\ svc' = svc /\ UNCHANGED <<fws, stored>>
              /\ \/ /\ pc = "deleteFirewallRule" /\ pc' = "deleteLoadBalancer"
                    /\ ~Managed
                 \/ /\ pc = "deleteFirewallRule" /\ pc' = "deleteRule"
                    /\ rule' = svc.ruleId /\ svc.ruleId # 0
                 \/ /\ pc = "deleteFirewallRule" /\ pc' = "deleteRule"
                    /\ rule' = svc.opId /\ svc.opId # 0 /\ fws[svc.opId].op = "SUCCEEDED"
                 \/ /\ pc = "deleteFirewallRule" /\ pc' = "findRule"
                    /\ svc.ruleId = 0 /\ (svc.opId # 0 => ~HoldsDeletion(svc))
                 \/ /\ pc = "findRule" /\ pc' = "deleteRule"
                    /\ rule' \in RulesNamed(svc.uid)
                 \/ /\ pc = "findRule" /\ pc' = "deleteLoadBalancer"
                    /\ RulesNamed(svc.uid) = {}
                 \/ pc = "deleteLoadBalancer" /\ pc' = "removeFinalizer"
           \/ pc = "deleteRule" /\ pc' = "clearRule" /\ DeleteRule
           \/ pc = "clearRule" /\ pc' = "deleteLoadBalancer" /\ UNCHANGED fws
<1>1. /\ \A retry : ~Finish(retry)
      /\ \A point : Goto(point) => pc' = point
  <2>1. pc' # "idle"
    BY DEF DeletePoints
  <2>2. QED
    BY <2>1 DEF Finish, DropLocals, Goto
<1>2. CASE Reconcile
  BY <1>2, ReconcileMoves DEF Begins, FirstStep, Operation, DeletePoints
<1>3. CASE DeleteFirewallRule
  BY <1>1, <1>3 DEF DeleteFirewallRule, locals, cloudVars, KubeUnchanged
<1>4. CASE FindRule
  BY <1>1, <1>4 DEF FindRule, locals, cloudVars, KubeUnchanged
<1>5. CASE DeleteRule \/ ClearRule \/ DeleteLoadBalancer
  BY <1>1, <1>5 DEF DeleteRule, ClearRule, DeleteLoadBalancer, locals, cloudVars, KubeUnchanged
<1>6. ASSUME Worker, ~Reconcile, ~DeleteFirewallRule, ~FindRule, ~DeleteRule, ~ClearRule,
             ~DeleteLoadBalancer
      PROVE  FALSE
  BY <1>1, <1>6
  DEF Worker, AddFinalizer, Operation, HandleCreate, LookUp, CreateLoadBalancer, CreateRefused,
      WaitForOperation, RecordLoadBalancer, SetLoadBalancerIngress, EnsureLoadBalancerIngress,
      RestoreIngress, UpdateLoadBalancer, EnsureFirewallRule, NoFirewallRuleWanted,
      CheckFirewallRule, ResolveOperation, PatchFirewallRule, AdoptFirewallRule, RecordRule,
      RecordAdoptedRule, PatchAndFinish, CreateFirewallRule, RecordOperation, RemoveFinalizer,
      DeletePoints
<1>7. ASSUME CallFails \/ Crash
      PROVE  FALSE
  BY <1>1, <1>7 DEF CallFails, Crash, DropLocals, DeletePoints
<1>8. CASE \/ User \/ DeliverEvent \/ Timer \/ NodeChanges
           \/ \E i \in 1..MaxLbs : LbProgress(i)
           \/ \E o \in 1..MaxOps : FwProgress(o)
           \/ CloudFault \/ OperatorRemoves \/ OperatorReleases \/ HoldExpires
           \/ UNCHANGED vars
  BY <1>8 DEF User, DeliverEvent, Timer, NodeChanges, LbProgress, FwProgress, CloudFault,
              OperatorRemoves, OperatorReleases, HoldExpires, vars, reconcileVars
<1>9. QED
  BY <1>2, <1>3, <1>4, <1>5, <1>6, <1>7, <1>8 DEF Next

\* An up-to-date copy is the Service there is.
LEMMA CopyIsStored ==
    ASSUME Sound, [Next]_vars, svc'.rv = stored'.rv, svc' = svc
    PROVE  stored' = stored /\ svc = stored
<1>1. TypeInv /\ CurrentWith(svc, stored)
  BY DEF Sound, History, VersionInv
<1>2. stored.rv \in Nat /\ svc.rv \in Nat
  BY <1>1, Objects
<1>3. stored' = stored \/ stored'.rv = stored.rv + 1
  BY <1>1, EveryStoreStep, WrittenVersion DEF StoreStep, Deliver, Resync
<1>4. stored' = stored
  BY <1>1, <1>2, <1>3 DEF CurrentWith
<1>5. QED
  BY <1>1, <1>4 DEF CurrentWith

\* The rule that a deletion goes on to remove is the only one.
LEMMA RuleToDelete ==
    ASSUME Sound, Found, pc \in DeletePoints, NEW r \in 0..MaxOps,
           \/ r = svc.ruleId /\ svc.ruleId # 0
           \/ r = svc.opId /\ svc.opId # 0 /\ fws[svc.opId].op = "SUCCEEDED"
           \/ r \in RulesNamed(svc.uid),
           NEW o \in 1..MaxOps, Active(o)
    PROVE  o = r /\ fws[o].rule
<1>1. svc.uid = stored.uid /\ svc.uid # 0
  BY DEF Found, ActiveIsHeld, Sound, HeldByPass, History, BlankInv, DeletePoints
<1>2. RulesUp(svc) /\ OwnRecord(svc) /\ svc \in Service
  BY Objects DEF Found, TidiedUp, NoActive, CopiesUp, Sound, OwnInv, CopiesOwn, History
<1>3. r \in 1..MaxOps /\ Active(r) /\ fws[r].rule
  <2>1. CASE r \in RulesNamed(svc.uid)
    BY <1>1, <2>1 DEF RulesNamed, Active
  <2>2. CASE r = svc.ruleId /\ svc.ruleId # 0
    BY <1>1, <1>2, <2>2, RuleOfItsOwn DEF RulesUp
  <2>3. CASE r = svc.opId /\ svc.opId # 0 /\ fws[svc.opId].op = "SUCCEEDED"
    BY <1>1, <1>2, <2>3, RuleOfItsOwn DEF RulesUp, MadeRule
  <2>4. QED
    BY <2>1, <2>2, <2>3
<1>4. o = r
  BY <1>3 DEF Found, OneActive
<1>5. QED
  BY <1>3, <1>4

LEMMA DeletionFactsStep ==
    ASSUME ~OperatorActs, Sound, Found, [Next]_vars
    PROVE  DeletionFacts'
<1>1. TypeInv /\ FreshIds /\ History /\ LivesInOrder /\ OwnersInv
  BY DEF Sound, History, OwnInv
<1>2. CASE pc' \notin DeletePoints \ {"deleteFirewallRule"}
  BY <1>2 DEF DeletionFacts, DeletePoints
<1>3. CASE pc' \in DeletePoints \ {"deleteFirewallRule"}
  <2>1. pc \in DeletePoints
    BY <1>3, DeletionMoves DEF DeletePoints, reconcileVars
  <2>2. \A o \in 1..MaxOps : ~FwCreated(o)
    BY <2>1 DEF FwCreated, CreateFirewallRule, DeletePoints
  <2>3. \A o \in 1..MaxOps : Active(o)' => Active(o) /\ fws'[o].late = fws[o].late
    BY <2>2, ActiveStays
  <2>4. \A o \in 1..MaxOps : InFlight(o)' => InFlight(o)
    BY <1>1, <2>2, FlightsStay
  <2>5. UNCHANGED reconcileVars => pc' = pc /\ svc' = svc /\ rule' = rule
    BY DEF reconcileVars, locals
  <2>6. ASSUME pc' = "findRule", svc'.rv = stored'.rv, NEW o \in 1..MaxOps, InFlight(o)'
        PROVE  FALSE
    <3>1. svc' = svc /\ (UNCHANGED reconcileVars \/ pc = "deleteFirewallRule")
      BY <2>5, <2>6, DeletionMoves DEF DeletePoints
    <3>2. svc = stored /\ InFlight(o)
      BY <2>4, <2>6, <3>1, CopyIsStored
    <3>3. CASE UNCHANGED reconcileVars
      BY <2>5, <2>6, <3>2, <3>3 DEF Found, DeletionFacts
    <3>4. CASE pc = "deleteFirewallRule"
      <4>1. svc.ruleId = 0 /\ (svc.opId # 0 => ~HoldsDeletion(svc))
        BY <2>5, <2>6, <3>4, DeletionMoves DEF DeletePoints
      <4>2. o = svc.opId /\ o # 0
        BY <3>2, <3>4, <4>1 DEF InFlight, Early, Active, Found, ActiveIsRecorded
      <4>3. Pending(svc.opId) /\ ~expired
        BY <3>2, <4>2 DEF InFlight, Pending, Sound, HoldInv
      <4>4. QED
        BY <4>1, <4>2, <4>3 DEF HoldsDeletion
    <3>5. QED
      BY <3>1, <3>3, <3>4
  <2>7. ASSUME pc' = "deleteRule", NEW o \in 1..MaxOps, Active(o)'
        PROVE  o = rule' /\ fws'[o].rule
    <3>1. Active(o)
      BY <2>3, <2>7
    <3>2. CASE UNCHANGED reconcileVars
      <4>1. o = rule /\ fws[o].rule /\ pc' = pc
        BY <2>5, <2>7, <3>1, <3>2 DEF Found, DeletionFacts
      <4>2. ~DeleteRule
        BY <2>7, <4>1 DEF DeleteRule, Goto
      <4>3. QED
        BY <1>1, <2>5, <3>2, <4>1, <4>2, RuleStays
    <3>3. CASE ~UNCHANGED reconcileVars
      <4>1. /\ UNCHANGED fws
            /\ \/ rule' = svc.ruleId /\ svc.ruleId # 0
               \/ rule' = svc.opId /\ svc.opId # 0 /\ fws[svc.opId].op = "SUCCEEDED"
               \/ rule' \in RulesNamed(svc.uid)
        BY <2>7, <3>3, DeletionMoves DEF DeletePoints
      <4>2. rule' \in 0..MaxOps
        <5>1. svc.ruleId \in 0..MaxOps /\ svc.opId \in 0..MaxOps
          BY <1>1, Objects, ServiceFields
        <5>2. RulesNamed(svc.uid) \subseteq 0..MaxOps
          BY DEF RulesNamed
        <5>3. QED
          BY <4>1, <5>1, <5>2
      <4>3. QED
        BY <2>1, <3>1, <4>1, <4>2, RuleToDelete
    <3>4. QED
      BY <3>2, <3>3
  <2>8. ASSUME pc' = "clearRule"
        PROVE  NoActive'
    <3>1. CASE UNCHANGED reconcileVars
      BY <2>3, <2>5, <2>8, <3>1 DEF Found, DeletionFacts, NoActive
    <3>2. CASE DeleteRule
      BY <3>2, RemovedRuleIsLast
    <3>3. QED
      BY <2>8, <3>1, <3>2, DeletionMoves DEF DeletePoints
  <2>9. ASSUME pc' \in {"deleteLoadBalancer", "removeFinalizer"}, svc'.rv = stored'.rv,
               NEW o \in 1..MaxOps, Active(o)'
        PROVE  fws'[o].late
    <3>1. Active(o) /\ fws'[o].late = fws[o].late
      BY <2>3, <2>9
    <3>2. Managed
      <4>1. fws[o].op # "unused"
        BY <1>1, <3>1 DEF FreshIds, Active
      <4>2. QED
        BY <1>1, <4>1 DEF OwnersInv
    <3>3. pc # "clearRule"
      BY <3>1 DEF Found, DeletionFacts, NoActive
    <3>4. svc' = svc /\ pc \in {"findRule", "deleteLoadBalancer", "removeFinalizer"}
          /\ (pc = "findRule" => RulesNamed(svc.uid) = {})
      BY <1>3, <2>5, <2>9, <3>2, <3>3, DeletionMoves DEF DeletePoints
    <3>5. svc = stored
      BY <2>9, <3>4, CopyIsStored
    <3>6. CASE pc = "findRule"
      <4>1. ~fws[o].rule /\ ~InFlight(o)
        BY <3>1, <3>4, <3>5, <3>6 DEF RulesNamed, Active, Found, DeletionFacts
      <4>2. QED
        BY <3>1, <4>1 DEF InFlight, Early, Active, Sound, History
    <3>7. CASE pc \in {"deleteLoadBalancer", "removeFinalizer"}
      BY <3>1, <3>5, <3>7 DEF Found, DeletionFacts
    <3>8. QED
      BY <3>4, <3>6, <3>7
  <2>10. QED
    BY <2>6, <2>7, <2>8, <2>9 DEF DeletionFacts
<1>4. QED
  BY <1>2, <1>3

LEMMA FoundInit == Init => Found
<1> SUFFICES ASSUME Init PROVE Found
  OBVIOUS
<1>1. pc = "idle" /\ stored = NoService(0) /\ NoService(0).uid = 0
  BY DEF Init, KubeInit, NoService
<1>2. cached = NoService(0) /\ svc = NoService(0) /\ watch = <<>>
  BY DEF Init, KubeInit, LocalsInit
<1>3. \A o \in 1..MaxOps : fws[o].op = "unused" /\ ~fws[o].rule
  BY DEF Init, CloudInit, NoFirewallRule
<1>4. CopiesUp
  BY <1>1, <1>2 DEF CopiesUp, RulesUp
<1>5. QED
  BY <1>1, <1>3, <1>4
  DEF Found, OneActive, ActiveIsRecorded, ActiveIsHeld, Active, HandFacts, DeletionFacts

LEMMA FoundStep ==
    ASSUME ~OperatorActs, Sound, FoundInv, [Next]_vars
    PROVE  FoundInv'
<1> SUFFICES ASSUME Untroubled' PROVE Found'
  BY DEF FoundInv
<1>1. Found /\ ~CallFails /\ ~Crash
  BY UntroubledBefore DEF FoundInv
<1>2. (TidiedUp \/ CopiesUp)'
  <2>1. CASE TidiedUp
    <3>1. stored'.uid = 0 => CopiesUp'
      BY DEF CopiesUp, RulesUp
    <3>2. QED
      BY <2>1, <3>1, StaysTidiedUp
  <2>2. CASE CopiesUp /\ \E p \in 1..MaxOps : DeleteRule /\ rule = p /\ Active(p)
    BY <1>1, <2>2, TidiesUp
  <2>3. CASE CopiesUp /\ \A p \in 1..MaxOps : DeleteRule /\ rule = p => ~Active(p)
    BY <1>1, <2>3, CopiesStayUp
  <2>4. QED
    BY <1>1, <2>1, <2>2, <2>3 DEF Found
<1>3. OneActive' /\ ActiveIsRecorded' /\ ActiveIsHeld'
  BY <1>1, OneActiveStep, ActiveIsRecordedStep, ActiveIsHeldStep
<1>4. HandFacts' /\ DeletionFacts'
  BY <1>1, HandFactsStep, DeletionFactsStep
<1>5. QED
  BY <1>2, <1>3, <1>4 DEF Found

(***************************************************************************)
(* When the finalizer goes, no firewall rule of the Service is left, and   *)
(* no create operation that could still bring one up, but for the ones     *)
(* that NoEarlierRuleIsLeft excepts, however far the cache is behind.  At  *)
(* any time one operation or rule at most is active, and the Service has   *)
(* its id.  A deletion whose copy does not is refused the Update of the    *)
(* finalizer; one whose copy does is held by the operation, or finds the   *)
(* rule, and its patch of the annotations then goes to a Service that no   *)
(* pass will ask another rule for.                                         *)
(***************************************************************************)
THEOREM EarlierRulesAreRemoved ==
    ASSUME ~OperatorActs
    PROVE  Spec => NoEarlierRuleIsLeft
<1>1. Init => Sound /\ FoundInv
  BY SoundInit, FoundInit DEF FoundInv
<1>2. Sound /\ FoundInv /\ [Next]_vars => (Sound /\ FoundInv)'
  BY SoundStep, FoundStep
<1>3. Sound /\ FoundInv /\ [Next]_vars
         => (IsReleased /\ faults = 0 /\ NoneIsBlind
               => \A o \in OperationsOf(stored.uid) :
                     \/ fws[o].late
                     \/ ~fws[o].rule /\ fws[o].op # "IN_PROGRESS")
  <2> SUFFICES ASSUME Sound, FoundInv, [Next]_vars, IsReleased, Untroubled,
                      NEW o \in OperationsOf(stored.uid)
               PROVE  fws[o].late \/ (~fws[o].rule /\ fws[o].op # "IN_PROGRESS")
    BY DEF Untroubled
  <2>1. pc = "removeFinalizer" /\ svc = stored
    BY ReleasedByPass DEF IsReleased, Sound
  <2>2. o \in 1..MaxOps /\ fws[o].owner = stored.uid
    BY DEF OperationsOf
  <2>3. QED
    BY <2>1, <2>2 DEF FoundInv, Found, DeletionFacts, Active
<1>4. QED
  BY <1>1, <1>2, <1>3, PTL DEF Spec, NoEarlierRuleIsLeft
================================================================================
