----------------------------- MODULE Rules_proofs -----------------------------
(***************************************************************************)
(* The theorem about when another create operation for the firewall rule   *)
(* of a Service may be submitted.  Nothing is assumed: the cache may be    *)
(* behind, calls fail, operators act by hand and the Service be created    *)
(* anew.                                                                   *)
(***************************************************************************)
EXTENDS Records_proofs

\* The operation made its rule, for as long as there is a record of it.
Done(o) == fws[o].op \in {"SUCCEEDED", "GONE"}

\* The operation made none.
Undone(o) == fws[o].op \in {"FAILED", "GONE"}

\* Another operation may follow this one.
MayFollow(o) == Done(o) \/ (fws[o].op = "FAILED" /\ fws[o].cooled)

ClashHasFailed == \A o \in 1..MaxOps : fws[o].clash => Undone(o)

\* What a pass knows about the operation on its copy.
OperationFacts ==
    /\ pc = "adoptFirewallRule" => svc.opId # 0 /\ Undone(svc.opId)
    /\ pc = "createFirewallRule" /\ svc.ruleId = 0 /\ svc.opId # 0 => MayFollow(svc.opId)

OperationInv == ClashHasFailed /\ OperationFacts

-----------------------------------------------------------------------------
(* How a pass gets to the steps that deal with the rule *)

\* The steps of ensureFirewallRule that lead on to another.
LEMMA RuleMoves ==
    ASSUME [Next]_vars,
           pc' \in {"adoptFirewallRule", "recordAdopted", "createFirewallRule", "recordRule"}
    PROVE  \/ UNCHANGED reconcileVars
           \/ /\ svc' = svc /\ UNCHANGED fws
              /\ \/ /\ pc' = "adoptFirewallRule"
                    /\ pc = "ensureFirewallRule" /\ WantsRule(svc)
                    /\ svc.ruleId = 0 /\ svc.opId # 0
                    /\ fws[svc.opId].op = "GONE" \/ fws[svc.opId].clash
                 \/ /\ pc' = "recordAdopted" /\ pc = "adoptFirewallRule"
                    /\ rule' \in RulesNamed(svc.uid)
                 \/ /\ pc' = "recordRule"
                    /\ pc = "ensureFirewallRule" /\ WantsRule(svc)
                    /\ rule' = svc.opId /\ svc.opId # 0 /\ fws[svc.opId].op = "SUCCEEDED"
                 \/ /\ pc' = "createFirewallRule"
                    /\ pc = "ensureFirewallRule" /\ WantsRule(svc)
                    /\ \/ svc.ruleId # 0 /\ ~fws[svc.ruleId].rule
                       \/ svc.ruleId = 0 /\ svc.opId = 0
                       \/ /\ svc.ruleId = 0 /\ svc.opId # 0
                          /\ fws[svc.opId].op = "FAILED"
                          /\ firewallRuleRetryWaitIsOver(svc.opId)
                 \/ /\ pc' = "createFirewallRule" /\ pc = "adoptFirewallRule"
                    /\ firewallRuleRetryWaitIsOver(svc.opId)
                    /\ RulesNamed(svc.uid) = {}
<1>1. /\ \A retry : ~Finish(retry)
      /\ \A point : Goto(point) => pc' = point
  <2>1. pc' # "idle"
    OBVIOUS
  <2>2. QED
    BY <2>1 DEF Finish, DropLocals, Goto
<1>2. CASE EnsureFirewallRule
  <2>1. pc = "ensureFirewallRule" /\ svc' = svc /\ UNCHANGED fws /\ ~NoFirewallRuleWanted
    BY <1>1, <1>2
    DEF EnsureFirewallRule, NoFirewallRuleWanted, CheckFirewallRule, ResolveOperation, locals,
        cloudVars
  <2>2. CASE CheckFirewallRule
    BY <1>1, <2>1, <2>2 DEF CheckFirewallRule
  <2>3. CASE ResolveOperation
    BY <1>1, <2>1, <2>3 DEF ResolveOperation
  <2>4. CASE WantsRule(svc) /\ svc.ruleId = 0 /\ svc.opId = 0 /\ Goto("createFirewallRule")
    BY <1>1, <2>1, <2>4
  <2>5. QED
    BY <1>2, <2>1, <2>2, <2>3, <2>4 DEF EnsureFirewallRule
<1>3. CASE AdoptFirewallRule
  BY <1>1, <1>3 DEF AdoptFirewallRule, cloudVars, locals
<1>4. CASE Reconcile
  BY <1>4, ReconcileMoves DEF Begins, FirstStep, Operation
<1>5. ASSUME Worker, ~Reconcile, ~EnsureFirewallRule, ~AdoptFirewallRule
      PROVE  FALSE
  BY <1>1, <1>5
  DEF Worker, AddFinalizer, Operation, HandleCreate, LookUp, CreateLoadBalancer, CreateRefused,
      WaitForOperation, RecordLoadBalancer, SetLoadBalancerIngress, EnsureLoadBalancerIngress,
      RestoreIngress, UpdateLoadBalancer, PatchFirewallRule, RecordRule, RecordAdoptedRule,
      PatchAndFinish, CreateFirewallRule, RecordOperation, DeleteFirewallRule, FindRule,
      DeleteRule, ClearRule, DeleteLoadBalancer, RemoveFinalizer
<1>6. ASSUME CallFails \/ Crash
      PROVE  FALSE
  BY <1>1, <1>6 DEF CallFails, Crash, DropLocals
<1>7. CASE \/ User \/ DeliverEvent \/ Timer \/ NodeChanges
           \/ \E i \in 1..MaxLbs : LbProgress(i)
           \/ \E o \in 1..MaxOps : FwProgress(o)
           \/ CloudFault \/ OperatorRemoves \/ OperatorReleases \/ HoldExpires
           \/ UNCHANGED vars
  BY <1>7 DEF User, DeliverEvent, Timer, NodeChanges, LbProgress, FwProgress, CloudFault,
              OperatorRemoves, OperatorReleases, HoldExpires, vars, reconcileVars
<1>8. QED
  BY <1>2, <1>3, <1>4, <1>5, <1>6, <1>7 DEF Next

-----------------------------------------------------------------------------
(* Operations *)

\* What is known of an operation's result stays so.
LEMMA ResultStays ==
    ASSUME TypeInv, [Next]_vars, NEW o \in 1..MaxOps
    PROVE  /\ Done(o) => Done(o)'
           /\ Undone(o) => Undone(o)'
           /\ MayFollow(o) => MayFollow(o)'
BY EachFirewallRule
DEF FwMoves, FwPatched, FwRemoved, FwSucceeded, FwClashed, FwFailed, FwCooled, FwAged, FwStuck,
    FwCreated, SameResult, Done, Undone, MayFollow

LEMMA ClashHasFailedStep ==
    ASSUME TypeInv, ClashHasFailed, [Next]_vars
    PROVE  ClashHasFailed'
<1> SUFFICES ASSUME NEW o \in 1..MaxOps, fws'[o].clash PROVE Undone(o)'
  BY DEF ClashHasFailed
<1>1. CASE fws[o].clash
  BY <1>1, ResultStays DEF ClashHasFailed
<1>2. CASE ~fws[o].clash
  <2>1. FwClashed(o)
    BY <1>2, EachFirewallRule
    DEF FwMoves, FwPatched, FwRemoved, FwSucceeded, FwFailed, FwCooled, FwAged, FwStuck,
        FwCreated, SameResult
  <2>2. QED
    BY <2>1 DEF FwClashed, Undone
<1>3. QED
  BY <1>1, <1>2

LEMMA OperationFactsStep ==
    ASSUME TypeInv, OperationInv, [Next]_vars
    PROVE  OperationFacts'
<1>1. svc.opId \in 0..MaxOps
  BY Objects, ServiceFields
<1>2. svc.opId # 0 => svc.opId \in 1..MaxOps
  BY <1>1, BoundsType
<1>3. \A o \in 1..MaxOps : (Undone(o) => Undone(o)') /\ (MayFollow(o) => MayFollow(o)')
  BY ResultStays
<1>4. CASE UNCHANGED reconcileVars
  <2>1. pc' = pc /\ svc' = svc
    BY <1>4 DEF reconcileVars, locals
  <2>2. svc.opId # 0 => /\ Undone(svc.opId) => Undone(svc.opId)'
                        /\ MayFollow(svc.opId) => MayFollow(svc.opId)'
    BY <1>2, <1>3, <2>1 DEF Done, Undone, MayFollow
  <2>3. QED
    BY <2>1, <2>2 DEF OperationInv, OperationFacts
<1>5. CASE svc' = svc /\ fws' = fws
  <2>1. fws'[svc'.opId] = fws[svc.opId]
    BY <1>5
  <2>2. CASE /\ pc' = "adoptFirewallRule"
             /\ svc.opId # 0 /\ (fws[svc.opId].op = "GONE" \/ fws[svc.opId].clash)
    BY <1>2, <1>5, <2>1, <2>2 DEF OperationInv, OperationFacts, ClashHasFailed, Undone
  <2>3. CASE pc' = "createFirewallRule" /\ (svc.ruleId # 0 \/ svc.opId = 0)
    BY <1>5, <2>3 DEF OperationFacts
  <2>4. CASE /\ pc' = "createFirewallRule"
             /\ fws[svc.opId].op = "FAILED" /\ firewallRuleRetryWaitIsOver(svc.opId)
    BY <1>5, <2>1, <2>4 DEF OperationFacts, MayFollow, firewallRuleRetryWaitIsOver
  <2>5. CASE /\ pc' = "createFirewallRule" /\ pc = "adoptFirewallRule"
             /\ firewallRuleRetryWaitIsOver(svc.opId)
    BY <1>5, <2>1, <2>5
    DEF OperationInv, OperationFacts, MayFollow, Done, Undone, firewallRuleRetryWaitIsOver
  <2>6. CASE pc' \notin {"adoptFirewallRule", "createFirewallRule"}
    BY <2>6 DEF OperationFacts
  <2>7. QED
    BY <1>4, <2>2, <2>3, <2>4, <2>5, <2>6, RuleMoves
<1>6. CASE pc' \notin {"adoptFirewallRule", "createFirewallRule"}
  BY <1>6 DEF OperationFacts
<1>7. QED
  BY <1>4, <1>5, <1>6, RuleMoves

LEMMA OperationInit == Init => OperationInv
<1> SUFFICES ASSUME Init PROVE OperationInv
  OBVIOUS
<1>1. pc = "idle"
  BY DEF Init
<1>2. \A o \in 1..MaxOps : ~fws[o].clash
  BY DEF Init, CloudInit, NoFirewallRule
<1>3. QED
  BY <1>1, <1>2 DEF OperationInv, ClashHasFailed, OperationFacts

LEMMA OperationStep ==
    ASSUME TypeInv, OperationInv, [Next]_vars
    PROVE  OperationInv'
BY ClashHasFailedStep, OperationFactsStep DEF OperationInv

(***************************************************************************)
(* No firewall rule is submitted while the operation recorded on the       *)
(* Service is pending, or failed less than the retry delay ago, by a pass  *)
(* whose copy has what is recorded.  There are two ways from a recorded    *)
(* operation to the create request: it failed, and                         *)
(* firewallRuleCreateRetryDelay has passed; or its record is gone or the   *)
(* name was taken, and no rule of that name is there.  What the pass has   *)
(* seen of the operation is still true when the request goes out.          *)
(***************************************************************************)
THEOREM NoCreateBeforeRetryDelay == Spec => CooldownIsKept
<1>1. Init => TypeInv /\ OperationInv
  BY TypeInit, OperationInit
<1>2. TypeInv /\ OperationInv /\ [Next]_vars => (TypeInv /\ OperationInv)'
  BY TypeStep, OperationStep
<1>3. TypeInv /\ OperationInv /\ [Next]_vars
         => \A o \in 1..MaxOps :
               Submitted(o) /\ stored.opId # 0 /\ stored.ruleId = 0 /\ ~MissesRecord(svc)
                  => /\ ~Pending(stored.opId)
                     /\ fws[stored.opId].op = "FAILED" => fws[stored.opId].cooled
  <2> SUFFICES ASSUME TypeInv, OperationInv, [Next]_vars,
                      stored.opId # 0, stored.ruleId = 0, ~MissesRecord(svc),
                      NEW o \in 1..MaxOps, Submitted(o)
               PROVE  /\ ~Pending(stored.opId)
                      /\ fws[stored.opId].op = "FAILED" => fws[stored.opId].cooled
    OBVIOUS
  <2>1. FwCreated(o)
    BY KeptUnlessCreated DEF FwKept, Submitted
  <2>2. MayFollow(stored.opId)
    BY <2>1 DEF FwCreated, CreateFirewallRule, MissesRecord, OperationInv, OperationFacts
  <2>3. QED
    BY <2>2 DEF MayFollow, Done, Pending
<1>4. QED
  BY <1>1, <1>2, <1>3, PTL DEF Spec, CooldownIsKept
================================================================================
