----------------------------- MODULE AlertRules -----------------------------
(***************************************************************************)
(* Which rules apply to what, and when one matches: AlertRule.matches and    *)
(* the queries of evaluate_device_readings and evaluate_threshold_alerts, as *)
(* pure operators.  A rule is a record of the columns they read; a sensor is *)
(* an id with its type.                                                      *)
(***************************************************************************)
EXTENDS Integers

CONSTANT None   \* NULL

Source == {"sensor", "battery", "offline", "health"}
Operator == {"gt", "gte", "lt", "lte", "eq", "neq"}

\* AlertRule, for the given sets of the rows its columns refer to.
AlertRule(orgs, devices, sensors, types, numbers) ==
    [organization : orgs, is_active : BOOLEAN, source : Source,
     device : devices \union {None}, sensor : sensors \union {None},
     sensor_type : types \union {""}, operator : Operator,
     threshold : numbers \union {None}]

\* The ops table; an unknown operator never holds.
Holds(op, value, threshold) ==
    \/ op = "gt" /\ value > threshold
    \/ op = "gte" /\ value >= threshold
    \/ op = "lt" /\ value < threshold
    \/ op = "lte" /\ value <= threshold
    \/ op = "eq" /\ value = threshold
    \/ op = "neq" /\ value # threshold

Matches(rule, value) ==
    /\ rule.threshold # None
    /\ value # None
    /\ Holds(rule.operator, value, rule.threshold)

\* Faulty form: organization-wide rules on a type of sensor are forgotten.
RuleScopeNoTypes(rule, d, ids) ==
    \/ rule.sensor \in ids
    \/ rule.device = d /\ rule.sensor = None
    \/ rule.device = None /\ rule.sensor_type = ""

\* _rule_scope_q: the rules a payload of device d with these sensors can touch.
RuleScope(rule, d, ids) ==
    \/ rule.sensor \in ids
    \/ rule.device = d /\ rule.sensor = None
    \/ rule.device = None /\ (rule.sensor_type = "" \/ rule.sensor = None)

Selected(rule, org, d, ids) ==
    /\ rule.organization = org
    /\ rule.is_active
    /\ rule.source = "sensor"
    /\ RuleScope(rule, d, ids)

\* _sensors_for_rule
SensorsForRule(rule, sensors) ==
    IF rule.sensor # None THEN {s \in sensors : s.id = rule.sensor}
    ELSE IF rule.sensor_type # "" THEN {s \in sensors : s.sensor_type = rule.sensor_type}
    ELSE sensors

\* The sensors of a payload that a rule is evaluated on.
Evaluated(rule, org, d, sensors) ==
    IF Selected(rule, org, d, {s.id : s \in sensors})
    THEN SensorsForRule(rule, sensors) ELSE {}

\* What the two filters amount to: a rule that names a sensor applies to that
\* one, any other to the sensors of its type (or all) on its device (or all).
InScope(rule, d, s) ==
    \/ rule.sensor = s.id
    \/ /\ rule.sensor = None
       /\ rule.device \in {None, d}
       /\ rule.sensor_type \in {"", s.sensor_type}

\* Faulty form: the devices of every organization.
BackstopAppliesEverywhere(rule, source, org) == rule.is_active /\ rule.source = source

\* evaluate_threshold_alerts: active rules of one source, the device's
\* organization, and no other part of the rule's scope.
BackstopApplies(rule, source, org) ==
    rule.is_active /\ rule.source = source /\ rule.organization = org
=============================================================================
