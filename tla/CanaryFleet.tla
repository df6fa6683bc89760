---------------------------- MODULE CanaryFleet ----------------------------
(***************************************************************************)
(* The fleet with a canary lifecycle: the canary controller takes the      *)
(* decision service's place (src/coalmine/fleet/services.py:315-354),      *)
(* publishes the share of traffic the challenger is to serve on the        *)
(* control stream, and the router reads that stream beside the requests    *)
(* (157-182).                                                              *)
(***************************************************************************)
EXTENDS Fleet

CONSTANTS
  GateAt,      \* the <<wins, losses>> at which a stage's gate rejects
  Draw         \* Draw[i]: the least share at which the challenger serves request i

ASSUME DrawAssumption == Draw \in [1 .. N -> 1 .. 4]
ASSUME RampedAssumption == Ramped

L == INSTANCE Lifecycle

VARIABLES
  lifecycle,   \* the controller's CanaryLifecycle
  userShare    \* user_share of the router

canaryVars == <<lifecycle, userShare>>
allVars == <<vars, canaryVars>>

CanaryInit ==
  /\ InitWith("start")
  /\ lifecycle = L!NewLifecycle
  /\ userShare = 0
-----------------------------------------------------------------------------
(* RouterService.run: who serves the request, and the share's update.      *)
(* A draw on the edge of a share is the next stage's.                      *)
BugServedBy(i) == IF Draw[i] <= userShare + 1 THEN "challenger" ELSE "champion"

ServedBy(i) == IF Draw[i] <= userShare THEN "challenger" ELSE "champion"

CanaryRouterRequest == RouterServe(ServedBy(Payload("router"))) /\ UNCHANGED canaryVars

RouterControl ==
  /\ At("router", "request")
  /\ Kind("router") = "share_update"
  /\ userShare' = Payload("router")
  /\ UNCHANGED <<busVars, sinkVars, chaosVars, decisionVars, runnerVars, sent, lifecycle>>
  /\ GoTo("router", "ack")

(* CanaryController.run announces the first share before it consumes.      *)
ControllerStart ==
  /\ At("decision", "start")
  /\ PublishAndGo("decision", "control", "share_update", L!Share(lifecycle), "next")
  /\ UNCHANGED <<decisionVars, canaryVars, sent>>

ControllerReceive == DecisionReceive /\ UNCHANGED canaryVars

(* The stage a transition leads to: its share's, or none.                  *)
StageName(t) ==
  IF t.kind = "rolled_back" THEN "rolled-back"
  ELSE <<"canary-1", "canary-5", "canary-25", "full">>[t.share]

(* A tie only counts.  The published share is that of the transition.      *)
ControllerUpdate ==
  /\ At("decision", "decide")
  /\ processed' = processed + 1
  /\ LET i    == Payload("decision")
         next == IF Winner[i] = "tie" THEN lifecycle ELSE L!Update(lifecycle, Winner[i] = "b", i)
     IN /\ lifecycle' = next
        /\ IF next.transitions # lifecycle.transitions
           THEN EmitAndGo("decision", "decision",
                          Event(i, 9, StageName(next.transitions[Len(next.transitions)])), "control")
           ELSE /\ UNCHANGED <<busVars, sinkVars, chaosVars, runnerVars, sent>>
                /\ GoTo("decision", "ack")
  /\ UNCHANGED <<detectors, alarmAt, promotedAt, userShare>>

(* The share of the stage just left.                                       *)
BugControllerPublish ==
  /\ At("decision", "control")
  /\ PublishAndGo("decision", "control", "share_update",
                  IF Len(lifecycle.transitions) = 1 THEN 0
                  ELSE lifecycle.transitions[Len(lifecycle.transitions) - 1].share, "ack")
  /\ UNCHANGED <<decisionVars, canaryVars, sent>>

ControllerPublish ==
  /\ At("decision", "control")
  /\ PublishAndGo("decision", "control", "share_update",
                  lifecycle.transitions[Len(lifecycle.transitions)].share, "ack")
  /\ UNCHANGED <<decisionVars, canaryVars, sent>>

ControllerAcknowledge == Acknowledge("decision") /\ UNCHANGED canaryVars
ControllerPoll == Poll("decision") /\ UNCHANGED canaryVars
-----------------------------------------------------------------------------
Controller ==
  \/ ControllerStart \/ ControllerReceive \/ ControllerUpdate \/ ControllerPublish
  \/ ControllerAcknowledge \/ ControllerPoll

CanaryNext ==
  \/ Rest /\ UNCHANGED canaryVars
  \/ CanaryRouterRequest
  \/ RouterControl
  \/ Controller

CanarySpec == CanaryInit /\ [][CanaryNext]_allVars
-----------------------------------------------------------------------------
(* _run and _share_steps: the transitions as the experiment reads them     *)
(* back, sorted by the request of the verdict that brought each, and the   *)
(* staircase of shares it draws from them.                                 *)
TransitionRows ==
  {[index |-> q[1], stage |-> rows[q]] : q \in {p \in DOMAIN rows : p[2] = 9}}

ReadBack ==
  CHOOSE s \in [1 .. Cardinality(TransitionRows) -> TransitionRows] :
    \A j, k \in DOMAIN s : j < k => s[j].index < s[k].index

StageLevel(stage) ==
  CASE stage = "canary-1" -> 1 [] stage = "canary-5" -> 2 [] stage = "canary-25" -> 3
    [] stage = "full" -> 4 [] OTHER -> 0

ShareSteps == [k \in DOMAIN ReadBack |-> StageLevel(ReadBack[k].stage)]

(* The decisive verdicts the controller read after the one on request i,   *)
(* up to the one on request j, as a gate counts them.                      *)
Position(i) == CHOOSE k \in DOMAIN log["verdicts"] : log["verdicts"][k][2] = i

Evidence(from, to) ==
  LET cast(w) == {k \in from + 1 .. to : Winner[log["verdicts"][k][2]] = w}
  IN <<Cardinality(cast("b")), Cardinality(cast("a"))>>

(* "each ramp step is gated by a fresh non-inferiority test"               *)
(* (src/coalmine/canary/lifecycle.py:4-5): whatever the order in which     *)
(* verdicts arrive, and whoever judged them, a step is taken exactly on    *)
(* the evidence of the verdicts since the step before it.                  *)
FreshGates ==
  LET t == lifecycle.transitions
      before(k) == IF k = 1 THEN 0 ELSE Position(t[k - 1].index)
  IN \A k \in DOMAIN t :
       t[k].kind # "rolled_back" => Evidence(before(k), Position(t[k].index)) \in GateAt

(* The audit trail: a transition has a row of its own, on its way while    *)
(* the fleet runs and stored when it is done, and the control stream and   *)
(* the log tell the same story.  The chart of the ramp is in the order of  *)
(* the requests, so it is the ramp that was driven if and only if the      *)
(* verdicts that moved it came in that order                               *)
(* (src/coalmine/experiments/canary_lifecycle.py:86).                      *)
Audited ==
  LET t == lifecycle.transitions
      inOrder == \A j, k \in DOMAIN t : j < k => t[j].index < t[k].index
  IN /\ \A k \in DOMAIN t : S!Kept(<<t[k].index, 9>>)
     /\ phase = "done" =>
          /\ TransitionRows = {[index |-> t[k].index, stage |-> StageName(t[k])] : k \in DOMAIN t}
          /\ ShareSteps = [k \in DOMAIN t |-> t[k].share] <=> inOrder
     /\ \A k \in DOMAIN log["control"] \ {1} : log["control"][k][2] = t[k - 1].share

(* The lifecycle is rolled back, and the router was handed every share     *)
(* there is to be told, the rollback's included.                           *)
RollbackTold ==
  /\ lifecycle.state = "rolled_back"
  /\ cursor[<<"control", "router">>] = Len(lifecycle.transitions) + 1

(* Requests that the log has, or is to have, as served by the challenger.  *)
Victims ==
  {i \in 1 .. N :
     \/ <<i, 0>> \in DOMAIN rows /\ rows[<<i, 0>>] = "challenger"
     \/ \E e \in S!InFlight : e.seq = <<i, 0>> /\ e.body = "challenger"}

(* "After the rollback's share update reaches the router, the challenger   *)
(* never serves another user"                                              *)
(* (src/coalmine/experiments/canary_lifecycle.py:11-12): that update takes *)
(* the share to nothing, no other one follows, and no request is routed to *)
(* the challenger from then on; until then the share is raised by one      *)
(* stage at a time, none skipped and none told twice.                      *)
NeverServesAgain ==
  [][/\ userShare' # userShare =>
          userShare' = IF RollbackTold THEN 0 ELSE userShare + 1
     /\ RollbackTold => Victims' \subseteq Victims]_allVars

(* The controller "publishes share updates on the control stream; the      *)
(* router applies them to user routing" (src/docs/DESIGN.md:149-150): the  *)
(* share by which a request is about to be routed is the one last          *)
(* published.                                                              *)
RoutedAsTold ==
  LET told == log["control"] IN
    /\ held["router"] # Nothing /\ pc["router"] = "request"
    /\ Kind("router") = "request"
    /\ told # <<>>
    => userShare = told[Len(told)][2]
=============================================================================
