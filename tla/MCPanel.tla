------------------------------ MODULE MCPanel ------------------------------
(* What runs by itself in the master: scheduled backups, the schedule of   *)
(* container updates, the health poller, the container monitor and the     *)
(* browser hub.  They share no variable; an execution is one of a single   *)
(* part, chosen at the start, while the others stay where they begin.      *)
EXTENDS MCBackupBatch, UpdateSchedule, HealthAlert, ContainerMonitor, BrowserHub

VARIABLE part
panelParts == <<vars, uVars, hVars, mVars, browserVars, part>>

OnBatches == part = "batches" /\ UNCHANGED <<uVars, hVars, mVars, browserVars, part>>
OnUpdates == part = "updates" /\ UNCHANGED <<vars, hVars, mVars, browserVars, part>>
OnHealth == part = "health" /\ UNCHANGED <<vars, uVars, mVars, browserVars, part>>
OnMonitor == part = "monitor" /\ UNCHANGED <<vars, uVars, hVars, browserVars, part>>
OnBrowsers == part = "browsers" /\ UNCHANGED <<vars, uVars, hVars, mVars, part>>

PanelInit ==
    /\ part \in {"batches", "updates", "health", "monitor", "browsers"}
    /\ Init /\ UpdInit /\ HealthInit /\ MonitorInit /\ BrowserInit
    /\ part # "batches" => \A n \in Nodes : online[n]
    /\ part # "monitor" => shown = CHOOSE f \in [Watched -> Shown] : \A c, d \in Watched : f[c] = f[d] => c = d

PanelNext ==
    \/ OnBatches /\ Next
    \/ OnUpdates /\ UpdNext
    \/ OnHealth /\ HealthNext
    \/ OnMonitor /\ MonitorNext
    \/ OnBrowsers /\ BrowserNext

PanelSpec == PanelInit /\ [][PanelNext]_panelParts

\* The fairness of the parts, each where its part runs.
PanelFairness ==
    /\ \A b \in Batches :
        /\ WF_vars(part = "batches" /\ BatchSteps(b))
        /\ WF_vars(part = "batches" /\ WindowElapses(b))
        /\ WF_vars(part = "batches" /\ TimerFires(b))
        /\ WF_vars(part = "batches" /\ flushBackupReports(b))
    /\ WF_uVars(part = "updates" /\ RebuildStop)
    /\ WF_uVars(part = "updates" /\ RebuildStart)
    /\ WF_uVars(part = "updates" /\ (ScanNode \/ Persist))
    /\ WF_hVars(part = "health" /\ PollSteps)
    /\ WF_hVars(part = "health" /\ RequestSteps)
    /\ WF_hVars(part = "health" /\ HealthTick)
    /\ WF_mVars(part = "monitor" /\ (MonitorScan \/ NotifyBad))
    /\ \A b \in Browsers : WF_browserVars(part = "browsers" /\ ServeSteps(b))

PanelLiveSpec == PanelSpec /\ PanelFairness
=============================================================================
