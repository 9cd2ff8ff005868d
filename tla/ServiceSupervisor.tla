------------------------- MODULE ServiceSupervisor -------------------------
(***************************************************************************)
(* internal/service: the Manager and the supervisors of its instances, for *)
(* the components of one package, with                                     *)
(*                                                                         *)
(*   - the calls of pkgregistry, which come one at a time (its mutex):     *)
(*     upgrade, uninstall, enable and disable (`task');                    *)
(*   - EnsureStarted, for whoever launches or resolves a component;        *)
(*   - Manager.Stop (`life');                                              *)
(*   - systemd, which runs one process per unit name, that is, per         *)
(*     component, and may fail as Faulty says.                             *)
(*                                                                         *)
(* sandboxReloadMu is `lock'; what happens under Manager.mu is one step.   *)
(* Setting a terminal state, tripping Safety for a Vital component and     *)
(* closing done are one step too: the supervisor does nothing in between.  *)
(***************************************************************************)
EXTENDS Integers, Sequences, Functions

CONSTANTS
    Component,
    AlwaysOn, Vital,        \* launch mode, effective criticality
    MaxInst,
    Window, Threshold,      \* crashWindow, crashThreshold
    BackoffMin, BackoffMax,
    Faulty                  \* "start": a unit does not come up
                            \* "cut": it does, but too late for the 30 s
                            \* "stop": a unit cannot be stopped
                            \* "wait": a unit cannot be watched
                            \* "caller": a caller's context expires

ASSUME ServiceAssumption ==
    /\ AlwaysOn \subseteq Component /\ Vital \subseteq Component
    /\ MaxInst \in Nat
    /\ Window \in Nat /\ Threshold \in Nat \ {0}
    /\ BackoffMin \in Nat /\ BackoffMax \in Nat /\ BackoffMin <= BackoffMax
    /\ Faulty \subseteq {"start", "cut", "stop", "wait", "caller"}

Inst == 1 .. MaxInst
None == 0

VARIABLES
    app,                    \* which components are apps; the rest, services
    package,                \* in the Registry, being removed, or out
    disabled,
    inst,                   \* the instances
    byKey,
    proc,                   \* the instance whose process the unit runs
    lock, task, life,
    tripped,
    toStop,                 \* the components Manager.Stop has yet to ask
    owed                    \* history: components whose last stop was given up

vars == <<app, package, disabled, inst, byKey, proc, lock, task, life, toStop,
          tripped, owed>>
registry == <<app, package, disabled>>
calls == <<lock, task, owed>>

NoInst == [comp |-> None, current |-> FALSE, state |-> "Stopped", pc |-> "none",
           handle |-> FALSE, stop |-> FALSE, crashes |-> << >>,
           backoff |-> 0, due |-> 0,
           ended |-> "no",      \* how its process has ended
           exit |-> "no"]       \* what is in exitCh

Fresh(c) == [NoInst EXCEPT !.comp = c, !.current = TRUE,
                           !.state = "Starting", !.pc = "start",
                           !.backoff = BackoffMin]

Idle == [op |-> "none", pc |-> "idle", comps |-> {}, olds |-> {},
         failed |-> FALSE]

Init ==
    /\ app \in SUBSET Component /\ package = "in"
    /\ disabled \in SUBSET Component
    /\ inst = [i \in Inst |-> NoInst]
    /\ byKey = [c \in Component |-> None]
    /\ proc = [c \in Component |-> None]
    /\ lock = "free" /\ task = Idle /\ life = "boot"
    /\ toStop = {} /\ tripped = FALSE /\ owed = {}

stopped == life \notin {"boot", "up"}
cancelled == life \notin {"boot", "up", "marked"}

Done(i) == inst[i].pc = "done"
Undone == {i \in Inst : inst[i].pc \notin {"none", "done"}}
Active(i) == inst[i].state \in {"Starting", "Running"}

----------------------------------------------------------------------------
(* startLocked for each of S, the other keys being those of `keys'. An     *)
(* instance nobody can reach any more is gone, and its place is free.      *)
Startable(keys, S) == {c \in S : keys[c] = None \/ ~Active(keys[c])}

Garbage(keys) == {i \in Inst : /\ inst[i].pc \in {"none", "done"}
                               /\ i \notin Range(keys) /\ i \notin Range(proc)}

Launch(keys, S) ==
    LET new == Startable(keys, S)
        kept == [c \in Component |-> IF c \in new THEN None ELSE keys[c]]
        places == Injection(new, Garbage(kept))
        place == CHOOSE f \in places : TRUE
    IN /\ places # {}
       /\ byKey' = [c \in Component |-> IF c \in new THEN place[c] ELSE keys[c]]
       /\ inst' = [i \in Inst |->
                     IF i \notin Garbage(kept) THEN inst[i]
                     ELSE IF \E c \in new : place[c] = i
                     THEN Fresh(CHOOSE c \in new : place[c] = i)
                     ELSE NoInst]

Startup == AlwaysOn \ disabled

(* Start: before anything can call the other operations. *)
Boot ==
    /\ life = "boot" /\ life' = "up"
    /\ Launch(byKey, Startup)
    /\ UNCHANGED <<registry, proc, calls, toStop, tripped>>

EnsureStarted(c) ==
    /\ life = "up" /\ lock = "free"
    /\ byKey[c] # None => ~Active(byKey[c])
    /\ package = "in" /\ c \notin disabled
    /\ Launch(byKey, {c})
    /\ UNCHANGED <<registry, proc, calls, life, toStop, tripped>>

----------------------------------------------------------------------------
(* systemd. A process ends on its own, well or not, or by StopUnit, which  *)
(* goes by the unit's name.                                                *)
Ended(in, c, how) ==
    IF proc[c] = None THEN in ELSE [in EXCEPT ![proc[c]].ended = how]

ProcessEnds(c, how) ==
    /\ proc[c] # None
    /\ inst' = Ended(inst, c, how)
    /\ proc' = [proc EXCEPT ![c] = None]
    /\ UNCHANGED <<registry, byKey, calls, life, toStop, tripped>>

(* The outcomes of StopUnit(c), the rest of the step being `in'.           *)
UnitStops(in, c) ==
    inst' = Ended(in, c, "well") /\ proc' = [proc EXCEPT ![c] = None]
UnitRemains(in) == "stop" \in Faulty /\ inst' = in /\ UNCHANGED proc
StopUnit(in, c) == UnitStops(in, c) \/ UnitRemains(in)

----------------------------------------------------------------------------
(* supervise.                                                              *)
others == <<registry, byKey, lock, task, life, toStop, owed>>

Finish(i, state) ==
    [inst EXCEPT ![i] = [NoInst EXCEPT !.comp = inst[i].comp, !.state = state,
                           !.pc = "done", !.handle = inst[i].handle,
                           !.stop = inst[i].stop]]

(* The unit name is taken while a process of it runs.                      *)
StartUnit(i) ==
    LET c == inst[i].comp IN
    /\ inst[i].pc = "start" /\ proc[c] = None
    /\ inst' = [inst EXCEPT ![i].pc = "confirm", ![i].ended = "no"]
    /\ proc' = [proc EXCEPT ![c] = i]
    /\ UNCHANGED <<others, tripped>>

(* StartSandboxedProcess fails: refused; the job failed; or it is given up *)
(* by the 30 s or by the cancelled context, and then the process may be    *)
(* running.                                                                *)
StartError(i) ==
    \/ inst[i].pc = "start"
       /\ (proc[inst[i].comp] # None \/ "start" \in Faulty \/ cancelled)
    \/ inst[i].pc = "confirm"
       /\ (inst[i].ended = "badly" \/ "cut" \in Faulty \/ cancelled)

NextBackoff(b) == IF b * 2 <= BackoffMax THEN b * 2 ELSE BackoffMax

(* recordCrashAndContinue, then onCircuitBreak or backoffWait.             *)
Crashed(i) ==
    LET crashes == Append(inst[i].crashes, 0)
    IN IF Len(crashes) < Threshold
       THEN /\ inst' = [inst EXCEPT ![i].crashes = crashes, ![i].pc = "backoff",
                                    ![i].due = inst[i].backoff,
                                    ![i].backoff = NextBackoff(@)]
            /\ UNCHANGED tripped
       ELSE /\ inst' = Finish(i, "Failed")
            /\ tripped' = (tripped \/ inst[i].comp \in Vital)

StartFails(i) ==
    /\ StartError(i)
    /\ IF cancelled THEN inst' = Finish(i, "Stopped") /\ UNCHANGED tripped
       ELSE Crashed(i)
    /\ UNCHANGED <<others, proc>>

(* onStarted, and the goroutine that waits for the exit. A unit that is    *)
(* gone again counts as started.                                           *)
Started(i) ==
    /\ inst[i].pc = "confirm"
    /\ inst' = [inst EXCEPT ![i].pc = "run", ![i].handle = TRUE,
                            ![i].state = "Running", ![i].backoff = BackoffMin,
                            ![i].exit = "no"]
    /\ UNCHANGED <<others, proc, tripped>>

(* WaitProcess. It polls, and systemd forgets a unit that has ended, so    *)
(* that what it last saw may be the running unit, which looks like success.*)
(* With an error there is no ExitInfo, which also reads as success.        *)
WaitReturns(i) ==
    /\ inst[i].pc \in {"run", "drain"} /\ inst[i].exit = "no"
    /\ \E exit \in {"well", "badly"} :
          /\ \/ inst[i].ended # "no" /\ exit \in {inst[i].ended, "well"}
             \/ (cancelled \/ "wait" \in Faulty) /\ exit = "well"
          /\ inst' = [inst EXCEPT ![i].exit = exit, ![i].ended = "no"]
    /\ UNCHANGED <<others, proc, tripped>>

(* The select of stopCh, m.ctx and exitCh; what is ready at the same time  *)
(* is picked at random.                                                    *)
ToldToStop_ByShutdown(i) == cancelled
ToldToStop(i) == inst[i].stop \/ cancelled

Halted(i) ==
    /\ inst[i].pc = "run" /\ ToldToStop(i)
    /\ StopUnit([inst EXCEPT ![i].pc = "drain"], inst[i].comp)
    /\ UNCHANGED <<others, tripped>>

Gone_Assumed(i) == TRUE
Gone(i) == inst[i].exit # "no" \/ cancelled

Drained(i) ==
    /\ inst[i].pc = "drain" /\ Gone(i)
    /\ inst' = Finish(i, "Stopped")
    /\ UNCHANGED <<others, proc, tripped>>

UserClosed_AnyType(i) == inst[i].exit = "well"
UserClosed(i) == inst[i].comp \in app /\ inst[i].exit = "well"

Exited(i) ==
    /\ inst[i].pc = "run" /\ inst[i].exit # "no"
    /\ IF ToldToStop(i) \/ UserClosed(i)
       THEN inst' = Finish(i, "Stopped") /\ UNCHANGED tripped
       ELSE Crashed(i)
    /\ UNCHANGED <<others, proc>>

WakeUp(i) ==
    /\ inst[i].pc = "backoff" /\ inst[i].due = 0
    /\ inst' = [inst EXCEPT ![i].pc = "start", ![i].state = "Starting",
                            ![i].ended = "no", ![i].exit = "no"]
    /\ UNCHANGED <<others, proc, tripped>>

GiveUp(i) ==
    /\ inst[i].pc = "backoff" /\ ToldToStop(i)
    /\ inst' = Finish(i, "Stopped")
    /\ UNCHANGED <<others, proc, tripped>>

Supervise(i) ==
    \/ StartUnit(i) \/ StartFails(i) \/ Started(i) \/ WaitReturns(i)
    \/ Halted(i) \/ Drained(i) \/ Exited(i)
    \/ WakeUp(i) \/ GiveUp(i)

(* A tick; the crashes that leave the window are dropped now rather than at*)
(* the next crash.                                                         *)
Recent(crashes) == SelectSeq(crashes, LAMBDA age : age <= Window)
Tick ==
    LET later == [i \in Inst |->
                    [inst[i] EXCEPT
                        !.crashes = Recent([k \in DOMAIN @ |-> @[k] + 1]),
                        !.due = IF @ > 0 THEN @ - 1 ELSE 0]]
    IN /\ later # inst /\ inst' = later
       /\ UNCHANGED <<others, proc, tripped>>

----------------------------------------------------------------------------
(* pkgregistry's calls. The Registry changes first; a package that loses   *)
(* perm.storage.user is told to stop at once, by a call that does not wait *)
(* (RevokeInstallGrant); then ReloadPackage, or StopComponent for each     *)
(* component.                                                              *)
Instances == Range(byKey) \ {None}
AskStop(S) == [i \in Inst |-> [inst[i] EXCEPT !.stop = @ \/ i \in S]]

Outdated == [i \in Inst |-> [inst[i] EXCEPT !.current = FALSE]]

Upgrade ==
    /\ life = "up" /\ task = Idle /\ package = "in"
    /\ inst' = Outdated
    /\ task' = [Idle EXCEPT !.op = "reload", !.pc = "project"]
    /\ UNCHANGED <<registry, byKey, proc, lock, life, toStop, tripped, owed>>

(* Until every component has been stopped without an error the package is  *)
(* only being removed: it can be uninstalled again but not installed.      *)
Uninstall ==
    /\ life = "up" /\ task = Idle /\ package # "out"
    /\ package' = "removing" /\ inst' = Outdated
    /\ task' = [Idle EXCEPT !.op = "stop", !.pc = "project",
                            !.comps = Component]
    /\ UNCHANGED <<app, disabled, byKey, proc, lock, life, toStop, tripped,
                   owed>>

(* With no previous version there is nothing to reload.                    *)
Install ==
    /\ life = "up" /\ task = Idle /\ package = "out"
    /\ package' = "in" /\ disabled' = {}
    /\ UNCHANGED <<app, inst, byKey, proc, calls, life, toStop, tripped>>

ProjectGrants(revoked) ==
    /\ task.pc = "project"
    /\ inst' = IF revoked THEN AskStop({i \in Instances : Active(i)})
               ELSE inst
    /\ task' = [task EXCEPT !.pc = "lock"]
    /\ UNCHANGED <<registry, byKey, proc, lock, life, toStop, tripped, owed>>

Enable(c) ==
    /\ life = "up" /\ task = Idle /\ package = "in"
    /\ disabled' = disabled \ {c}
    /\ UNCHANGED <<app, package, inst, byKey, proc, calls, life, toStop, tripped>>

Disable(c) ==
    /\ life = "up" /\ task = Idle /\ package = "in"
    /\ disabled' = disabled \cup {c}
    /\ task' = [Idle EXCEPT !.op = "stop", !.pc = "lock", !.comps = {c}]
    /\ UNCHANGED <<app, package, inst, byKey, proc, lock, life, toStop,
                   tripped, owed>>

(* A call returns. What it did not see stopped, it owes.                   *)
Return(gone, left) ==
    /\ lock' = "free"
    /\ owed' = (owed \ gone) \cup left
    /\ task' = [task EXCEPT !.comps = @ \ (gone \cup left), !.olds = {},
                            !.pc = "lock", !.failed = @ \/ left # {}]

AllStopped_Anyway == TRUE
AllStopped == ~task.failed

Returned ==
    /\ task.pc = "lock" /\ task.op = "stop" /\ task.comps = {}
    /\ task' = Idle
    /\ package' = IF package = "removing" /\ AllStopped THEN "out" ELSE package
    /\ UNCHANGED <<app, disabled, inst, byKey, proc, lock, life, toStop,
                   tripped, owed>>

Reload ==
    /\ task.op = "reload" /\ task.pc = "lock" /\ lock = "free" /\ ~stopped
    /\ lock' = "task"
    /\ task' = [task EXCEPT !.pc = "waiting", !.olds = Instances]
    /\ inst' = AskStop(Instances)
    /\ UNCHANGED <<registry, byKey, proc, life, toStop, tripped, owed>>

OldsGone == \A i \in task.olds : Done(i)

Reloaded ==
    /\ task.op = "reload" /\ task.pc = "waiting" /\ OldsGone
    /\ LET keys == [c \in Component |-> None]
       IN IF stopped THEN byKey' = keys /\ UNCHANGED inst
          ELSE Launch(keys, Startup)
    /\ lock' = "free" /\ task' = Idle /\ owed' = {}
    /\ UNCHANGED <<registry, proc, life, toStop, tripped>>

ReloadStops ==
    /\ task.op = "reload"
    /\ \/ task.pc = "lock" /\ lock = "free" /\ stopped
       \/ task.pc = "waiting" /\ cancelled
    /\ lock' = "free" /\ task' = Idle /\ owed' = Component
    /\ UNCHANGED <<registry, inst, byKey, proc, life, toStop, tripped>>

(* StopComponent: if it sees a handle it stops the unit itself.            *)
StopComponent(c) ==
    /\ task.op = "stop" /\ task.pc = "lock" /\ lock = "free" /\ c \in task.comps
    /\ IF byKey[c] = None
       THEN Return({c}, {}) /\ UNCHANGED inst
       ELSE /\ lock' = "task" /\ inst' = AskStop({byKey[c]})
            /\ task' = [task EXCEPT !.olds = {byKey[c]},
                          !.pc = IF inst[byKey[c]].handle THEN "stopping"
                                 ELSE "waiting"]
            /\ UNCHANGED owed
    /\ UNCHANGED <<registry, byKey, proc, life, toStop, tripped>>

StopsUnit ==
    /\ task.pc = "stopping"
    /\ \/ /\ \E i \in task.olds : UnitStops(inst, inst[i].comp)
          /\ task' = [task EXCEPT !.pc = "waiting"]
       \/ /\ UnitRemains(inst)
          /\ task' = [task EXCEPT !.pc = "waiting", !.failed = TRUE]
    /\ UNCHANGED <<registry, byKey, lock, life, toStop, tripped, owed>>

ComponentStopped ==
    /\ task.op = "stop" /\ task.pc = "waiting" /\ OldsGone
    /\ Return({inst[i].comp : i \in task.olds}, {})
    /\ UNCHANGED <<registry, inst, byKey, proc, life, toStop, tripped>>

(* The caller's context expires first.                                     *)
CallerGivesUp ==
    /\ task.pc = "waiting" /\ "caller" \in Faulty
    /\ IF task.op = "stop" THEN Return({}, {inst[i].comp : i \in task.olds})
       ELSE lock' = "free" /\ task' = Idle /\ owed' = Component
    /\ UNCHANGED <<registry, inst, byKey, proc, life, toStop, tripped>>

TaskStep ==
    \/ ProjectGrants(FALSE) \/ ProjectGrants(TRUE) \/ Returned
    \/ Reload \/ Reloaded \/ ReloadStops
    \/ \E c \in Component : StopComponent(c)
    \/ StopsUnit \/ ComponentStopped

----------------------------------------------------------------------------
(* Manager.Stop: the terminal state, the cancellation, and only then the   *)
(* lock; each instance is asked and, with a handle, stopped; then all      *)
(* supervisors are awaited.                                                *)
unchanged == <<registry, byKey, task, tripped, owed>>
MarkStopped ==
    /\ life = "up" /\ life' = "marked"
    /\ UNCHANGED <<unchanged, inst, proc, lock, toStop>>

Cancel ==
    /\ life = "marked" /\ life' = "cancelled"
    /\ UNCHANGED <<unchanged, inst, proc, lock, toStop>>

LockShutdown ==
    /\ life = "cancelled" /\ lock = "free"
    /\ lock' = "stop" /\ life' = "stopping"
    /\ toStop' = {c \in Component : byKey[c] # None}
    /\ UNCHANGED <<unchanged, inst, proc>>

ShutDown(c) ==
    /\ c \in toStop /\ toStop' = toStop \ {c}
    /\ IF inst[byKey[c]].handle THEN StopUnit(AskStop({byKey[c]}), c)
       ELSE inst' = AskStop({byKey[c]}) /\ UNCHANGED proc
    /\ UNCHANGED <<unchanged, lock, life>>

Join ==
    /\ life = "stopping" /\ toStop = {} /\ Undone = {}
    /\ lock' = "free" /\ life' = "stopped"
    /\ UNCHANGED <<unchanged, inst, proc, toStop>>

LifeStep == Cancel \/ LockShutdown \/ (\E c \in Component : ShutDown(c)) \/ Join

----------------------------------------------------------------------------
Next ==
    \/ Boot \/ Upgrade \/ Uninstall \/ Install \/ MarkStopped \/ Tick
    \/ \E c \in Component :
          \/ EnsureStarted(c) \/ Enable(c) \/ Disable(c)
          \/ \E how \in {"well", "badly"} : ProcessEnds(c, how)
    \/ \E i \in Inst : Supervise(i)
    \/ TaskStep \/ CallerGivesUp \/ LifeStep

Spec == Init /\ [][Next]_vars

(* Goroutines run, time passes, and systemd answers (by the 30 s at the    *)
(* latest). A mutex is handed on in the end, and a select does not ignore  *)
(* a closed channel for ever.                                              *)
Fairness ==
    /\ \A i \in Inst :
          /\ WF_vars(StartUnit(i)) /\ WF_vars(StartFails(i) \/ Started(i))
          /\ WF_vars(WaitReturns(i)) /\ WF_vars(Halted(i) \/ Exited(i))
          /\ WF_vars(Drained(i)) /\ WF_vars(WakeUp(i)) /\ SF_vars(GiveUp(i))
    /\ WF_vars(Tick) /\ SF_vars(TaskStep) /\ SF_vars(LifeStep)
FairSpec == Spec /\ Fairness

----------------------------------------------------------------------------
TypeOK ==
    /\ app \subseteq Component /\ package \in {"in", "removing", "out"}
    /\ disabled \subseteq Component /\ toStop \subseteq Component
    /\ inst \in [Inst -> [comp: Component \cup {None}, current: BOOLEAN,
          state: {"Stopped", "Starting", "Running", "Failed"},
          pc: {"none", "start", "confirm", "run", "drain", "backoff", "done"},
          handle: BOOLEAN, stop: BOOLEAN, crashes: Seq(0 .. Window),
          backoff: 0 .. BackoffMax, due: 0 .. BackoffMax,
          ended: {"no", "well", "badly"}, exit: {"no", "well", "badly"}]]
    /\ \A i \in Inst : Len(inst[i].crashes) <= Threshold
    /\ byKey \in [Component -> 0 .. MaxInst]
    /\ proc \in [Component -> 0 .. MaxInst]
    /\ lock \in {"free", "task", "stop"}
    /\ task \in [op: {"none", "reload", "stop"},
                 pc: {"idle", "project", "lock", "stopping", "waiting"},
                 comps: SUBSET Component, olds: SUBSET Inst, failed: BOOLEAN]
    /\ life \in {"boot", "up", "marked", "cancelled", "stopping", "stopped"}
    /\ tripped \in BOOLEAN /\ owed \subseteq Component

(* At most one supervisor at a time works for a component, the one byKey   *)
(* names (an instance is only replaced in a terminal state, supervise.go    *)
(* 105-112); and before shutdown no process is left without its            *)
(* supervisor: whoever asked for the stop, and wherever the start was then.*)
NoOrphan ==
    ~cancelled =>
        \A c \in Component : proc[c] # None => ~Done(proc[c])
OneSupervisor == (\A i \in Undone : byKey[inst[i].comp] = i) /\ NoOrphan

(* Once the Registry's change has been carried out, only what it now says  *)
(* runs: no instance of an older version, of a disabled component or of an *)
(* uninstalled package, but for those whose stop the caller gave up. And a *)
(* package is out only when nothing of it runs, whichever stops failed or  *)
(* were given up on the way and however often it was tried.                *)
UninstalledIsGone ==
    package = "out" /\ ~cancelled =>
        Undone = {} /\ \A c \in Component : proc[c] = None
RegistryHolds ==
    /\ task = Idle /\ ~stopped =>
          \A i \in Undone :
              \/ inst[i].comp \in owed
              \/ /\ package = "in" /\ inst[i].current
                 /\ inst[i].comp \notin disabled
    /\ UninstalledIsGone

(* A Vital service that nobody stopped is running, being restarted, or has *)
(* stopped the machine.                                                    *)
VitalNeverSilent ==
    ~cancelled =>
        \A i \in Inst :
            Done(i) /\ inst[i].comp \in Vital \ app /\ ~inst[i].stop => tripped

(* A stop is obeyed, in whatever state it finds the instance, and so the   *)
(* call that waits for it returns, unless systemd cannot stop the process. *)
(* Shutdown ends even while a reload waits for such a process: the         *)
(* supervisors are cancelled before the lock is asked for.                 *)
Survives(i) == inst[i].pc = "drain" /\ proc[inst[i].comp] # None
ShutdownCompletes == stopped ~> life = "stopped"
StopIsObeyed ==
    /\ \A i \in Inst :
          i \in Undone /\ inst[i].stop ~> i \notin Undone \/ Survives(i)
    /\ task # Idle ~> task = Idle \/ \E i \in task.olds : Survives(i)
    /\ ShutdownCompletes
=============================================================================
