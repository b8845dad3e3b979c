-------------------------------- MODULE MCFront --------------------------------
(***************************************************************************)
(* The command line, the web interface, and the services of the SDK they   *)
(* use, checked side by side.  They share no state, so one of them, chosen *)
(* at the start, takes all the steps: the states of the run are those of   *)
(* one module or another, never their product.                             *)
(***************************************************************************)
EXTENDS CliConfig, CliSession, ServiceClients, RecoveryWizard, IdentityPanels,
        NetworkMonitor, ErrorHub, LoggerTree, PayloadBatches, ErrorMapping, SdkSetup,
        Screening, PaymentApp

\* The monitor: its cooldowns and the bounds of its thresholds, in thousandths.
CooldownDef == [warning |-> 3, critical |-> 2]
LimitDef == [successRate |-> 950, avgGasCost |-> 2000, failureRate |-> 50, totalFees |-> 2000]

VARIABLE active         \* the module that takes the steps

frontVars == <<active, configVars, sessionVars, serviceVars, wizardVars, panelVars,
               monitorVars, hubVars, loggerVars, batchVars, mappingVars, setupVars,
               screenVars, payVars>>

InitFront ==
    /\ active \in {"config", "session", "services", "wizard", "panels", "monitor", "hub",
                    "loggers", "batches", "mapping", "setup", "screening", "payments"}
    /\ ConfigInit /\ SessionInit /\ ServicesInit /\ WizardInit
    /\ PanelsInit /\ MonitorInit /\ HubInit /\ LoggersInit
    /\ BatchesInit /\ MappingInit /\ SetupInit /\ ScreenInit
    /\ PayInit
    \* What the others could choose is fixed.
    /\ active # "config" => keysMade = 0
    /\ active # "panels" => panel = "useDID" /\ ~autoConnect
    /\ active # "batches" => items = [i \in Index |-> "json"] /\ streams /\ workers = 0

NextFront ==
    /\ UNCHANGED active
    /\ \/ /\ active = "config" /\ ConfigNext
          /\ UNCHANGED <<sessionVars, serviceVars, wizardVars, panelVars, monitorVars,
                         hubVars, loggerVars, batchVars, mappingVars, setupVars, screenVars,
                         payVars>>
       \/ /\ active = "session" /\ SessionNext
          /\ UNCHANGED <<configVars, serviceVars, wizardVars, panelVars, monitorVars,
                         hubVars, loggerVars, batchVars, mappingVars, setupVars, screenVars,
                         payVars>>
       \/ /\ active = "services" /\ ServicesNext
          /\ UNCHANGED <<configVars, sessionVars, wizardVars, panelVars, monitorVars,
                         hubVars, loggerVars, batchVars, mappingVars, setupVars, screenVars,
                         payVars>>
       \/ /\ active = "wizard" /\ WizardNext
          /\ UNCHANGED <<configVars, sessionVars, serviceVars, panelVars, monitorVars,
                         hubVars, loggerVars, batchVars, mappingVars, setupVars, screenVars,
                         payVars>>
       \/ /\ active = "panels" /\ PanelsNext
          /\ UNCHANGED <<configVars, sessionVars, serviceVars, wizardVars, monitorVars,
                         hubVars, loggerVars, batchVars, mappingVars, setupVars, screenVars,
                         payVars>>
       \/ /\ active = "monitor" /\ MonitorNext
          /\ UNCHANGED <<configVars, sessionVars, serviceVars, wizardVars, panelVars,
                         hubVars, loggerVars, batchVars, mappingVars, setupVars, screenVars,
                         payVars>>
       \/ /\ active = "hub" /\ HubNext
          /\ UNCHANGED <<configVars, sessionVars, serviceVars, wizardVars, panelVars,
                         monitorVars, loggerVars, batchVars, mappingVars, setupVars,
                         screenVars, payVars>>
       \/ /\ active = "loggers" /\ LoggersNext
          /\ UNCHANGED <<configVars, sessionVars, serviceVars, wizardVars, panelVars,
                         monitorVars, hubVars, batchVars, mappingVars, setupVars,
                         screenVars, payVars>>
       \/ /\ active = "batches" /\ BatchesNext
          /\ UNCHANGED <<configVars, sessionVars, serviceVars, wizardVars, panelVars,
                         monitorVars, hubVars, loggerVars, mappingVars, setupVars,
                         screenVars, payVars>>
       \/ /\ active = "mapping" /\ MappingNext
          /\ UNCHANGED <<configVars, sessionVars, serviceVars, wizardVars, panelVars,
                         monitorVars, hubVars, loggerVars, batchVars, setupVars, screenVars,
                         payVars>>
       \/ /\ active = "setup" /\ SetupNext
          /\ UNCHANGED <<configVars, sessionVars, serviceVars, wizardVars, panelVars,
                         monitorVars, hubVars, loggerVars, batchVars, mappingVars,
                         screenVars, payVars>>
       \/ /\ active = "screening" /\ ScreenNext
          /\ UNCHANGED <<configVars, sessionVars, serviceVars, wizardVars, panelVars,
                         monitorVars, hubVars, loggerVars, batchVars, mappingVars,
                         setupVars, payVars>>
       \/ /\ active = "payments" /\ PayNext
          /\ UNCHANGED <<configVars, sessionVars, serviceVars, wizardVars, panelVars,
                         monitorVars, hubVars, loggerVars, batchVars, mappingVars,
                         setupVars, screenVars>>

SpecFront == InitFront /\ [][NextFront]_frontVars
=============================================================================
