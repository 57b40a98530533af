--------------------------- MODULE ThrottleProofs ---------------------------
(* Theorems about Throttle, whichever conditions are configured.           *)
EXTENDS Throttle, TLAPS

\* The check thread goes through the conditions to the user's throttle.
LEMMA NextCheckType ==
    ASSUME NEW c \in Conditions
    PROVE  NextCheck[c] \in Conditions \union {"user"}
BY DEF Conditions, NextCheck

LEMMA ReasonType ==
    ASSUME NEW c \in Conditions, c # "query"
    PROVE  ReasonOf[c] \in Reasons
BY DEF Conditions, ReasonOf, Reasons

LEMMA CheckConditionTyped ==
    ASSUME TypeOK, NEW c \in Conditions, CheckCondition(c)
    PROVE  TypeOK'
<1>1. checker' \in Conditions \union {"user", "apply"}
  BY NextCheckType DEF CheckCondition
<1>2. reason' \in Reasons
  BY ReasonType DEF CheckCondition, TypeOK
<1> QED  BY <1>1, <1>2 DEF CheckCondition, TypeOK

LEMMA InitTyped == Init => TypeOK
BY DEF Init, TypeOK, Reasons, Conditions

LEMMA NextTyped == TypeOK /\ [Next]_vars => TypeOK'
<1> SUFFICES ASSUME TypeOK, [Next]_vars PROVE TypeOK'
  OBVIOUS
<1>1. CASE CheckUser
  BY <1>1 DEF CheckUser, TypeOK, Reasons
<1>2. CASE ApplyThrottle \/ ReleaseThrottle
  BY <1>2 DEF ApplyThrottle, ReleaseThrottle, TypeOK, Reasons, Conditions
<1>3. CASE Throttle \/ Unthrottle
  BY <1>3 DEF Throttle, Unthrottle, TypeOK, Reasons
<1>4. CASE ConditionsChange
  BY <1>4 DEF ConditionsChange, TypeOK
<1>5. CASE UNCHANGED vars
  BY <1>5 DEF vars, TypeOK
<1> QED
  BY <1>1, <1>2, <1>3, <1>4, <1>5, CheckConditionTyped DEF Next, RunThrottleCheck

(* The two fields, and the throttler's reason, always have their types.    *)
THEOREM TypeCorrect == Spec => []TypeOK
BY InitTyped, NextTyped, PTL DEF Spec

LEMMA SettledStays ==
    ASSUME TypeOK, [Next]_vars, UserThrottleSettled
    PROVE  UserThrottleSettled' \/ user' # user \/ checker \in exceeded
<1>1. ASSUME NEW c \in Conditions, CheckCondition(c)
      PROVE  UserThrottleSettled' \/ checker \in exceeded
  BY <1>1, NextCheckType DEF CheckCondition, UserThrottleSettled
<1>2. CASE CheckUser
  BY <1>2 DEF CheckUser, UserThrottleSettled
<1>3. CASE ApplyThrottle
  BY <1>3 DEF ApplyThrottle, UserThrottleSettled, Conditions
<1>4. CASE ReleaseThrottle
  BY <1>4 DEF ReleaseThrottle, UserThrottleSettled, Conditions
<1>5. CASE Throttle \/ Unthrottle
  BY <1>5 DEF Throttle, Unthrottle
<1>6. CASE ConditionsChange \/ UNCHANGED vars
  BY <1>6 DEF ConditionsChange, vars, UserThrottleSettled
<1> QED
  BY <1>1, <1>2, <1>3, <1>4, <1>5, <1>6 DEF Next, RunThrottleCheck

(* A user's throttle that was commanded before the round of the check      *)
(* thread looks at it is ended by nothing but the user's next command or   *)
(* a condition that a check finds exceeded.                                *)
THEOREM UserThrottleIsKept == Spec => UserThrottleHolds
<1>1. TypeOK /\ [Next]_vars =>
          [UserThrottleSettled /\ ~UserThrottleSettled' => user' # user \/ checker \in exceeded]_vars
  BY SettledStays
<1> QED  BY <1>1, TypeCorrect, PTL DEF Spec, UserThrottleHolds
=============================================================================
