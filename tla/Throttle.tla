------------------------------ MODULE Throttle ------------------------------
(***************************************************************************)
(* How a migration comes to be throttled: the throttle check thread        *)
(* (Migrator::RunThrottleCheck with Throttler::CheckAllConditions) and the *)
(* user's commands write the same two fields of MigrationContext,          *)
(* throttled_ and throttle_reason_, one after the other and without a      *)
(* lock.  The row copy of Migrator stops while throttled_ is TRUE.         *)
(*                                                                         *)
(* The load, the lag and the result of the query are the environment's: a  *)
(* condition is exceeded or it is not, and that changes at any time, also  *)
(* between two checks of one round.                                        *)
(***************************************************************************)
CONSTANT Configured     \* the conditions with a threshold or a query

Conditions == {"critical", "max", "lag", "query"}

ASSUME ThrottleAssumption == Configured \subseteq Conditions

VARIABLES
    exceeded,         \* the conditions that are exceeded now
    throttled,        \* MigrationContext::throttled_
    throttle_reason,  \* MigrationContext::throttle_reason_
    reason,           \* Throttler::reason_
    checker,          \* what the throttle check thread does next
    user,             \* what the user's thread does next
    request           \* the user's last command

vars == <<exceeded, throttled, throttle_reason, reason, checker, user, request>>

\* The order of CheckAllConditions; a round begins with "critical".
NextCheck == [critical |-> "max", max |-> "lag", lag |-> "query", query |-> "user"]

ReasonOf == [critical |-> "CriticalLoad", max |-> "MaxLoad", lag |-> "ReplicationLag"]

Init ==
    /\ exceeded = {}
    /\ throttled = FALSE
    /\ throttle_reason = "None" /\ reason = "None"
    /\ checker = "critical"
    /\ user = "idle" /\ request = "never"

-----------------------------------------------------------------------------
(* The throttle check thread.                                              *)

\* Mutation: a round ends with the first condition that is not exceeded.
CheckConditionLazy(c) ==
    /\ checker = c
    /\ IF c \in exceeded
         THEN /\ checker' = "apply"
              /\ reason' = IF c = "query" THEN reason ELSE ReasonOf[c]
         ELSE /\ checker' = "user"
              /\ UNCHANGED reason
    /\ UNCHANGED <<exceeded, throttled, throttle_reason, user, request>>

\* Mutation: the query leaves the reason of another kind of throttling.
CheckConditionHeartbeat(c) ==
    /\ checker = c
    /\ IF c \in exceeded
         THEN /\ checker' = "apply"
              /\ reason' = IF c = "query" THEN "Heartbeat" ELSE ReasonOf[c]
         ELSE /\ checker' = NextCheck[c]
              /\ UNCHANGED reason
    /\ UNCHANGED <<exceeded, throttled, throttle_reason, user, request>>

\* The custom query throttles without leaving a reason.
CheckCondition(c) ==
    /\ checker = c
    /\ IF c \in exceeded
         THEN /\ checker' = "apply"
              /\ reason' = IF c = "query" THEN reason ELSE ReasonOf[c]
         ELSE /\ checker' = NextCheck[c]
              /\ UNCHANGED reason
    /\ UNCHANGED <<exceeded, throttled, throttle_reason, user, request>>

\* Mutation: any throttling is taken for the user's.
CheckUserAnyReason ==
    /\ checker = "user"
    /\ IF throttled
         THEN checker' = "apply" /\ reason' = "UserCommand"
         ELSE checker' = "release" /\ UNCHANGED reason
    /\ UNCHANGED <<exceeded, throttled, throttle_reason, user, request>>

\* Mutation: only the conditions count.
CheckUserNot ==
    /\ checker = "user"
    /\ checker' = "release"
    /\ UNCHANGED <<exceeded, throttled, throttle_reason, reason, user, request>>

\* What the user has asked for lasts, unless something else got in between.
CheckUser ==
    /\ checker = "user"
    /\ IF throttled /\ throttle_reason = "UserCommand"
         THEN checker' = "apply" /\ reason' = "UserCommand"
         ELSE checker' = "release" /\ UNCHANGED reason
    /\ UNCHANGED <<exceeded, throttled, throttle_reason, user, request>>

\* SetThrottled(true), then SetThrottleReason(reason_).
ApplyThrottle ==
    /\ \/ /\ checker = "apply" /\ checker' = "applyReason"
          /\ throttled' = TRUE
          /\ UNCHANGED throttle_reason
       \/ /\ checker = "applyReason" /\ checker' = "critical"
          /\ throttle_reason' = reason
          /\ UNCHANGED throttled
    /\ UNCHANGED <<exceeded, reason, user, request>>

\* SetThrottled(false), then SetThrottleReason(None).
ReleaseThrottle ==
    /\ \/ /\ checker = "release" /\ checker' = "releaseReason"
          /\ throttled' = FALSE
          /\ UNCHANGED throttle_reason
       \/ /\ checker = "releaseReason" /\ checker' = "critical"
          /\ throttle_reason' = "None"
          /\ UNCHANGED throttled
    /\ UNCHANGED <<exceeded, reason, user, request>>

-----------------------------------------------------------------------------
(* The user's commands, each in two assignments, and the environment.      *)

Throttle ==
    /\ \/ /\ user = "idle" /\ user' = "throttle"
          /\ throttled' = TRUE /\ request' = "throttle"
          /\ UNCHANGED throttle_reason
       \/ /\ user = "throttle" /\ user' = "idle"
          /\ throttle_reason' = "UserCommand"
          /\ UNCHANGED <<throttled, request>>
    /\ UNCHANGED <<exceeded, reason, checker>>

Unthrottle ==
    /\ \/ /\ user = "idle" /\ user' = "unthrottle"
          /\ throttled' = FALSE /\ request' = "unthrottle"
          /\ UNCHANGED throttle_reason
       \/ /\ user = "unthrottle" /\ user' = "idle"
          /\ throttle_reason' = "None"
          /\ UNCHANGED <<throttled, request>>
    /\ UNCHANGED <<exceeded, reason, checker>>

ConditionsChange ==
    /\ exceeded' \in SUBSET Configured
    /\ UNCHANGED <<throttled, throttle_reason, reason, checker, user, request>>

-----------------------------------------------------------------------------
RunThrottleCheck ==
    \/ \E c \in Conditions : CheckCondition(c)
    \/ CheckUser \/ ApplyThrottle \/ ReleaseThrottle

Next == RunThrottleCheck \/ Throttle \/ Unthrottle \/ ConditionsChange

Spec == Init /\ [][Next]_vars

(* The check thread repeats its round every throttle_interval_millis, and  *)
(* a command that has begun is finished; nothing obliges the user to give  *)
(* one or the load to change.                                              *)
FairSpec ==
    /\ Spec
    /\ WF_vars(RunThrottleCheck)
    /\ WF_vars(user # "idle" /\ (Throttle \/ Unthrottle))

-----------------------------------------------------------------------------
Reasons == {"None", "CriticalLoad", "MaxLoad", "ReplicationLag", "UserCommand"}

(* Every variable has its type; in particular no reason is shown that is   *)
(* not one of the throttler's or the user's.                               *)
TypeOK ==
    /\ exceeded \subseteq Configured
    /\ throttled \in BOOLEAN
    /\ throttle_reason \in Reasons /\ reason \in Reasons
    /\ checker \in Conditions \union {"user", "apply", "applyReason", "release", "releaseReason"}
    /\ user \in {"idle", "throttle", "unthrottle"}
    /\ request \in {"never", "throttle", "unthrottle"}

(* While a condition stays exceeded, and once the user has stopped giving  *)
(* commands, the migration stays throttled, however the other conditions   *)
(* come and go.                                                            *)
ConditionKeepsThrottled ==
    \A c \in Conditions :
        <>[](c \in exceeded /\ user = "idle") => <>[]throttled

(* A user's throttle that the present round has taken over, or has still   *)
(* to look at, is ended only by the user's next command or by a check that *)
(* finds its condition exceeded.  One that is commanded after the round    *)
(* has looked, when it is about to release, is not kept by the code.       *)
UserThrottleSettled ==
    /\ throttled /\ throttle_reason = "UserCommand"
    /\ \/ checker \in Conditions \union {"user"}
       \/ checker \in {"apply", "applyReason"} /\ reason = "UserCommand"
UserThrottleHolds ==
    [][UserThrottleSettled /\ ~UserThrottleSettled' =>
        user' # user \/ checker \in exceeded]_vars

(* Without a user's command the migration is not throttled for longer than *)
(* the conditions: when they are over it is released for good.             *)
ReleasedAfterConditions ==
    <>[](exceeded = {} /\ request = "never") => <>[]~throttled

(* The command answers "Throttle released" (interactive_commands.cpp:124): *)
(* if nothing is exceeded any more, the migration goes on.                 *)
UnthrottleReleases ==
    <>[](exceeded = {} /\ user = "idle" /\ request = "unthrottle") => <>[]~throttled

=============================================================================
