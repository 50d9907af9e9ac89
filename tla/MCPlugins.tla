----------------------------- MODULE MCPlugins -----------------------------
(***************************************************************************)
(* Small instances of the plugin manager, of the time trigger, a plugin it *)
(* loads, and of the event loop of a script.  They share no state: a       *)
(* behaviour is one of the manager, of the plugin or of a script, and part *)
(* tells which.                                                            *)
(***************************************************************************)
EXTENDS PluginManager, TimeTrigger, EventLoop, TLC

CONSTANTS p1, p2, x, h1, h2, h3, s1, s2, t1, t2, i1, i2

TwoPlugins == {p1, p2}
OneCall == {x}
ThreeHandlers == {h1, h2, h3}
TwoSchedules == {s1, s2}
TwoTimers == {t1, t2}
TwoIntervals == {i1, i2}

VARIABLE part

allVars == <<part, pluginVars, vars, engineVars>>

MCInit ==
    /\ part \in {"manager", "trigger", "script"}
    /\ PluginsInit /\ (part # "manager" => \A p \in Plugins : row[p].enabled)
    /\ Init /\ (part # "trigger" => \A h \in Handlers : schedule[h] = s1)
    /\ LoopInit

ManagerStep(A) == part = "manager" /\ A /\ UNCHANGED <<part, vars, engineVars>>

MCNext ==
    \/ ManagerStep(PluginsNext)
    \/ part = "trigger" /\ Next /\ UNCHANGED <<part, pluginVars, engineVars>>
    \/ part = "script" /\ LoopNext /\ UNCHANGED <<part, pluginVars, vars>>

\* Every goroutine of the manager runs; nobody has to ask.
MCFairness ==
    /\ \A w \in Workers : WF_allVars(ManagerStep(Step(w)))
    /\ WF_allVars(ManagerStep(Stop))

MCSpec == MCInit /\ [][MCNext]_allVars /\ MCFairness /\ LoopFairness
=============================================================================
