----------------------------- MODULE NetworkMonitor -----------------------------
(***************************************************************************)
(* The network monitor of the SDK (src/sdk/src/networkMonitor.ts):         *)
(* transactions are counted in periods of one sampling interval, metrics   *)
(* are compared with thresholds and with a window of earlier values, and   *)
(* alerts go to every enabled channel, at most one per cooldown.           *)
(*                                                                         *)
(* Rates are in thousandths.  The sampling timer only reads, the delivery  *)
(* of an alert changes nothing here, the interval is never changed, and    *)
(* every transaction comes with its contract and operation.                *)
(***************************************************************************)
EXTENDS Integers, SequencesExt

CONSTANTS
    Channel,            \* the types of alert channels, "console" among them
    Interval,           \* samplingIntervalMs
    Window,             \* anomalyWindowSize
    Deviation,          \* maxAnomalyDeviation
    Cooldown,           \* cooldownMs of the thresholds of each severity
    Limit,              \* the bounds of the four thresholds
    MaxStateChanges,    \* entries of stateChanges kept
    Fee, Gas,           \* inputs
    MaxTransactions, MaxClock, MaxControls    \* bounds

ASSUME MonitorAssumption ==
    /\ "console" \in Channel
    /\ {Interval, Window, MaxStateChanges} \subseteq Nat \ {0}
    /\ Deviation \in Nat
    /\ Fee \subseteq Int /\ Gas \subseteq Int
    /\ Cooldown \in [{"warning", "critical"} -> Nat] /\ MaxClock \in Nat

Severity == {"warning", "critical"}
Metric == {"successRate", "avgGasCost", "failureRate", "totalFees"}

VARIABLES
    now,                \* Date.now()
    running,            \* isRunning
    monitorEnabled,     \* monitorConfig.enabled
    channelOn,          \* channels: which are set and enabled
    severityOf,         \* thresholds: the severity of the one of each metric
    periods,            \* transactionMetrics
    stateChanges,       \* stateChanges: the times of the last ones
    baseline,           \* baselineMetrics
    alerts,             \* alertHistory, the entries of one alert for its channels in one
    lastAlert,          \* lastAlertTimestamps
    alertCounter,       \* alertCounter
    controls,           \* bound: calls made but recordTransaction
    recorded,           \* ghost: the transactions recorded since the last reset
    hushed              \* ghost: the console was switched off since the last reset

monitorVars == <<now, running, monitorEnabled, channelOn, severityOf, periods, stateChanges,
                 baseline, alerts, lastAlert, alertCounter, controls, recorded, hushed>>

NoBaseline == [m \in Metric \ {"failureRate"} |-> <<>>]
NeverAlerted == [k \in Metric \X Severity |-> 0]

LongestCooldown == Max({Cooldown[s] : s \in Severity})

\* The clock starts far from zero, which stands for "no alert yet".
MonitorInit ==
    /\ now = Interval * LongestCooldown
    /\ running = FALSE /\ monitorEnabled = TRUE
    /\ channelOn = [c \in Channel |-> c = "console"]
    /\ severityOf = [m \in Metric |-> IF m = "failureRate" THEN "critical" ELSE "warning"]
    /\ periods = <<>> /\ stateChanges = <<>> /\ baseline = NoBaseline
    /\ alerts = {} /\ lastAlert = NeverAlerted
    /\ alertCounter = 0 /\ controls = 0
    /\ recorded = <<>> /\ hushed = FALSE

-----------------------------------------------------------------------------
(* Anomalies: how far a value is from the mean of the window, in standard deviations. *)

LastOf(s, n) == SubSeq(s, Len(s) - n + 1, Len(s))
LastKept(s, n) == IF Len(s) > n THEN LastOf(s, n) ELSE s

\* |value - mean| > Deviation * std, with both sides times the length and squared.
Anomalous(values, value) ==
    LET n == Len(values)
        sum == SumFunction(values)
        spread == n * SumFunction([i \in DOMAIN values |-> values[i] * values[i]]) - sum * sum
    IN  /\ n >= 3 /\ spread # 0
        /\ (n * value - sum) * (n * value - sum) > Deviation * Deviation * spread

-----------------------------------------------------------------------------
(* recordTransaction. *)

PeriodOf(t) == (t \div Interval) * Interval

\* Fault: the period of the last transaction goes on for a full interval after it
\* (MonitorHonest).
PeriodOver_Late(period) == period.end + Interval < PeriodOf(now)
PeriodOver(period) == period.end < PeriodOf(now)

NewPeriod == [start |-> PeriodOf(now), end |-> PeriodOf(now) + Interval,
              total |-> 0, ok |-> 0, fees |-> 0, gas |-> 0]

\* The periods with the one the transaction falls into as the last: the one before it is
\* ended now if its last transaction was in the interval before.
Opened ==
    IF periods = <<>> THEN <<NewPeriod>>
    ELSE LET n == Len(periods)
         IN  IF ~PeriodOver(periods[n]) THEN periods
             ELSE IF periods[n].end >= PeriodOf(now) - Interval
             THEN Append([periods EXCEPT ![n].end = now], NewPeriod)
             ELSE Append(periods, NewPeriod)

Adding(p, success, fee, gas) ==
    [p EXCEPT !.total = @ + 1, !.ok = IF success THEN @ + 1 ELSE @,
              !.fees = @ + fee, !.gas = @ + gas, !.end = now]

Counted(success, fee, gas) ==
    [Opened EXCEPT ![Len(Opened)] = Adding(@, success, fee, gas)]

Value(p) == [successRate |-> (1000 * p.ok) \div p.total,
             avgGasCost  |-> (1000 * p.gas) \div p.total,
             failureRate |-> (1000 * (p.total - p.ok)) \div p.total,
             totalFees   |-> 1000 * p.fees]

\* updateBaseline: the window of a metric after a value.
Windowed(p) == [m \in DOMAIN baseline |-> LastKept(Append(baseline[m], Value(p)[m]), Window)]

Breached(m, p) == IF m = "successRate" THEN Value(p)[m] < Limit[m] ELSE Value(p)[m] > Limit[m]

CooledDown(m) == now - lastAlert[<<m, severityOf[m]>>] >= Cooldown[severityOf[m]]

Alerting(p) == {m \in Metric : Breached(m, p) /\ CooledDown(m)}

\* detectAnomaly, for what is in the window already; failureRate has none.
Anomaly(m, p) ==
    IF m \in DOMAIN baseline /\ Anomalous(Windowed(p)[m], Value(p)[m]) THEN "detected" ELSE "none"

\* emitAlert: an entry for every enabled channel, with one id, so that only the first of them
\* can be acknowledged.  It is sent there as well, which nobody waits for: a delivery that
\* fails is only logged.  Of the alerts of one transaction the metric is the id.
Emitted(m, p) ==
    [id |-> <<alertCounter, m>>, at |-> now, metric |-> m, severity |-> severityOf[m],
     channels |-> {c \in Channel : channelOn[c]}, acknowledged |-> FALSE,
     anomaly |-> Anomaly(m, p)]

RecordTransaction(success, fee, gas) ==
    LET after == Counted(success, fee, gas)
        p == after[Len(after)]
        ms == Alerting(p)
        emitted == {Emitted(m, p) : m \in ms}
    IN  /\ Len(recorded) < MaxTransactions
        /\ periods' = after
        /\ baseline' = Windowed(p)
        /\ alerts' = alerts \cup {a \in emitted : a.channels # {}}
        /\ alertCounter' = alertCounter + Cardinality(ms)
        /\ lastAlert' = [k \in Metric \X Severity |->
              IF k[1] \in ms /\ k[2] = severityOf[k[1]] THEN now ELSE lastAlert[k]]
        /\ stateChanges' = LastKept(Append(stateChanges, now), MaxStateChanges)
        /\ recorded' = Append(recorded,
              [at |-> now, ok |-> success, fee |-> fee, gas |-> gas])
        /\ UNCHANGED <<now, running, monitorEnabled, channelOn, severityOf, controls, hushed>>

-----------------------------------------------------------------------------
(* The other calls. *)

Controlled == controls < MaxControls /\ controls' = controls + 1

StartMonitor ==
    /\ Controlled /\ ~running /\ monitorEnabled
    /\ running' = TRUE
    /\ UNCHANGED <<now, monitorEnabled, channelOn, severityOf, periods, stateChanges, baseline,
                   alerts, lastAlert, alertCounter, recorded, hushed>>

StopMonitor ==
    /\ Controlled
    /\ running' = FALSE
    /\ UNCHANGED <<now, monitorEnabled, channelOn, severityOf, periods, stateChanges, baseline,
                   alerts, lastAlert, alertCounter, recorded, hushed>>

\* updateMonitorConfig does not stop a monitor that runs.
UpdateMonitorConfig ==
    /\ Controlled
    /\ monitorEnabled' = ~monitorEnabled
    /\ UNCHANGED <<now, running, channelOn, severityOf, periods, stateChanges, baseline, alerts,
                   lastAlert, alertCounter, recorded, hushed>>

ConfigureChannel(c) ==
    /\ Controlled
    /\ channelOn' = [channelOn EXCEPT ![c] = ~@]
    /\ hushed' = (hushed \/ ~channelOn'["console"])
    /\ UNCHANGED <<now, running, monitorEnabled, severityOf, periods, stateChanges, baseline,
                   alerts, lastAlert, alertCounter, recorded>>

\* configureThresholds replaces the threshold of the metric.
ConfigureThreshold(m, severity) ==
    /\ Controlled
    /\ severityOf' = [severityOf EXCEPT ![m] = severity]
    /\ UNCHANGED <<now, running, monitorEnabled, channelOn, periods, stateChanges, baseline,
                   alerts, lastAlert, alertCounter, recorded, hushed>>

AcknowledgeAlert(a) ==
    /\ Controlled
    /\ ~a.acknowledged
    /\ alerts' = (alerts \ {a}) \cup {[a EXCEPT !.acknowledged = TRUE]}
    /\ UNCHANGED <<now, running, monitorEnabled, channelOn, severityOf, periods, stateChanges,
                   baseline, lastAlert, alertCounter, recorded, hushed>>

ResetMetrics ==
    /\ recorded # <<>> /\ Controlled
    /\ periods' = <<>> /\ stateChanges' = <<>> /\ baseline' = NoBaseline
    /\ alerts' = {} /\ lastAlert' = NeverAlerted
    /\ recorded' = <<>> /\ hushed' = ~channelOn["console"]
    /\ UNCHANGED <<now, running, monitorEnabled, channelOn, severityOf, alertCounter>>

ClockAdvances ==
    /\ now < MaxClock /\ now' = now + 1
    /\ UNCHANGED <<running, monitorEnabled, channelOn, severityOf, periods, stateChanges,
                   baseline, alerts, lastAlert, alertCounter, controls, recorded, hushed>>

MonitorNext ==
    \/ \E success \in BOOLEAN, fee \in Fee, gas \in Gas :
          RecordTransaction(success, fee, gas)
    \/ StartMonitor \/ StopMonitor \/ UpdateMonitorConfig
    \/ \E c \in Channel : ConfigureChannel(c)
    \/ \E m \in Metric, s \in Severity : ConfigureThreshold(m, s)
    \/ \E a \in alerts : AcknowledgeAlert(a)
    \/ ResetMetrics \/ ClockAdvances

-----------------------------------------------------------------------------
\* A period holds what was recorded in its interval, neither more nor less.
PeriodExact(p) ==
    LET mine == {i \in DOMAIN recorded : PeriodOf(recorded[i].at) = p.start}
    IN  /\ p.total = Cardinality(mine)
        /\ p.ok = Cardinality({i \in mine : recorded[i].ok})
        /\ p.fees = SumFunctionOnSet([i \in DOMAIN recorded |-> recorded[i].fee], mine)
        /\ p.gas = SumFunctionOnSet([i \in DOMAIN recorded |-> recorded[i].gas], mine)

\* The console, if it was never off, has an alert of the last cooldown on every breach.
BreachReported(m) ==
    \/ hushed \/ recorded = <<>> \/ recorded[Len(recorded)].at # now
    \/ ~Breached(m, periods[Len(periods)])
    \/ \E a \in alerts : /\ a.metric = m /\ "console" \in a.channels
                         /\ a.at = now \/ now - a.at < LongestCooldown

\* What the monitor reports is so: every period counts exactly the transactions of its
\* interval, whatever the gaps between them; alerts of one kind keep the cooldown, and a breach with the console on has been reported there within it; and a window
\* of at most Deviation^2 + 1 values, the current one among them, finds no anomaly at all
\* (recordTransaction, evaluateThresholds, emitAlert, detectAnomaly, resetMetrics).
MonitorHonest ==
    /\ \A i \in DOMAIN periods : PeriodExact(periods[i])
    /\ \A i \in DOMAIN recorded : \E j \in DOMAIN periods :
          periods[j].start = PeriodOf(recorded[i].at)
    /\ \A a, b \in alerts :
          a.id # b.id /\ a.metric = b.metric /\ a.severity = b.severity =>
              a.at - b.at >= Cooldown[a.severity] \/ b.at - a.at >= Cooldown[a.severity]
    /\ \A m \in Metric : BreachReported(m)
    /\ Window <= Deviation * Deviation + 1 =>
          \A a \in alerts : a.anomaly = "none"
=============================================================================
