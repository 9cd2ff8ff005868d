---------------------- MODULE ServiceSupervisorProofs ----------------------
(***************************************************************************)
(* The safety of ServiceSupervisor, proved for any components, instances,  *)
(* windows, thresholds and back-off.                                       *)
(***************************************************************************)
EXTENDS ServiceSupervisor, TLAPS

----------------------------------------------------------------------------
(* Types: of what the properties are about; the crash window and the       *)
(* back-off may be anything.                                               *)
InstType(x) ==
    [comp : Component \cup {None}, current : BOOLEAN,
     state : {"Stopped", "Starting", "Running", "Failed"},
     pc : {"none", "start", "confirm", "run", "drain", "backoff", "done"},
     handle : BOOLEAN, stop : BOOLEAN, crashes : {x.crashes},
     backoff : {x.backoff}, due : {x.due},
     ended : {"no", "well", "badly"}, exit : {"no", "well", "badly"}]
TaskType ==
    [op : {"none", "reload", "stop"},
     pc : {"idle", "project", "lock", "stopping", "waiting"},
     comps : SUBSET Component, olds : SUBSET Inst, failed : BOOLEAN]

InstancesTyped(f) ==
    /\ f = [i \in Inst |-> f[i]]
    /\ \A i \in Inst : f[i] \in InstType(f[i])
InstTyped == InstancesTyped(inst)
KeysTyped ==
    /\ byKey \in [Component -> Inst \cup {None}]
    /\ proc \in [Component -> Inst \cup {None}]
CallsTyped ==
    /\ app \subseteq Component /\ package \in {"in", "removing", "out"}
    /\ disabled \subseteq Component /\ toStop \subseteq Component
    /\ lock \in {"free", "task", "stop"} /\ task \in TaskType
    /\ life \in {"boot", "up", "marked", "cancelled", "stopping", "stopped"}
    /\ tripped \in BOOLEAN /\ owed \subseteq Component
Typed == InstTyped /\ KeysTyped /\ CallsTyped

(* A supervisor at work is the one the key names, and shows as active.     *)
KeysHold ==
    /\ \A i \in Undone : /\ inst[i].comp \in Component /\ byKey[inst[i].comp] = i
                         /\ Active(i)
    /\ \A c \in Component : byKey[c] # None => inst[byKey[c]].comp = c
    /\ toStop \subseteq {c \in Component : byKey[c] # None}

(* Who has the lock, and what a call keeps still by it.                    *)
LockHolds ==
    /\ lock = "task" <=> task.pc \in {"stopping", "waiting"}
    /\ lock = "stop" <=> life = "stopping"
    /\ toStop # {} => lock = "stop"
TaskHolds ==
    /\ task.op = "none" <=> task.pc = "idle"
    /\ task.op = "none" => task = Idle
    /\ task.pc = "stopping" => task.op = "stop"
    /\ task.op = "reload" => package = "in"
    /\ task.op = "reload" /\ task.pc = "waiting" => Instances \subseteq task.olds
    /\ task.op = "stop" /\ task.pc \in {"stopping", "waiting"} =>
          \E c \in task.comps : byKey[c] # None /\ task.olds = {byKey[c]}
    /\ life = "boot" => task = Idle /\ package = "in"

(* What runs is what the Registry says, or is owed, or is what the call in *)
(* progress has yet to come to.                                            *)
Rightful(i) ==
    package = "in" /\ inst[i].current /\ inst[i].comp \notin disabled
Awaited(i) ==
    task.op = "reload" \/ (task.op = "stop" /\ inst[i].comp \in task.comps)
Accounted ==
    /\ ~stopped =>
          \A i \in Undone : inst[i].comp \in owed \/ Rightful(i) \/ Awaited(i)
    /\ package = "removing" /\ task.op = "stop" /\ ~task.failed =>
          \A i \in Undone : Awaited(i)
    /\ package = "out" => Undone = {}

(* Whose process runs.                                                     *)
SystemdAnswers == "cut" \notin Faulty /\ "wait" \notin Faulty
ProcessHeld ==
    \A i \in Inst :
        /\ inst[i].pc \in {"start", "confirm"} => inst[i].exit = "no"
        /\ ~cancelled =>
              \A c \in Component : proc[c] = i =>
                  /\ inst[i].comp = c /\ inst[i].ended = "no" /\ inst[i].exit = "no"
                  /\ inst[i].pc \in {"confirm", "run", "drain"}

VitalInv ==
    /\ ~cancelled => \A i \in Inst : inst[i].pc = "drain" => inst[i].stop
    /\ VitalNeverSilent

KeyInv == KeysHold /\ LockHolds /\ TaskHolds


----------------------------------------------------------------------------
(* One instance is put in the place of another, or of its earlier self.    *)
LEMMA Put ==
    ASSUME InstTyped, NEW i \in Inst, NEW r, r \in InstType(r),
           inst' = [inst EXCEPT ![i] = r]
    PROVE  InstTyped' /\ inst'[i] = r /\ \A j \in Inst \ {i} : inst'[j] = inst[j]
BY DEF InstTyped, InstancesTyped

LEMMA FinishPuts ==
    ASSUME InstTyped, NEW i \in Inst, NEW state \in {"Stopped", "Failed"},
           inst' = Finish(i, state)
    PROVE  /\ InstTyped'
           /\ \A j \in Inst \ {i} : inst'[j] = inst[j]
           /\ inst'[i].comp = inst[i].comp /\ inst'[i].stop = inst[i].stop
           /\ inst'[i].pc = "done"
<1> DEFINE r == [NoInst EXCEPT !.comp = inst[i].comp, !.state = state,
                               !.pc = "done", !.handle = inst[i].handle,
                               !.stop = inst[i].stop]
<1>1. inst[i] \in InstType(inst[i])
  BY DEF InstTyped, InstancesTyped
<1>2. NoInst \in InstType(NoInst)
  BY DEF NoInst, InstType
<1>3. r \in InstType(NoInst) /\ r.comp = inst[i].comp /\ r.stop = inst[i].stop
      /\ r.pc = "done"
  BY <1>1, <1>2 DEF InstType
<1>4. inst' = [inst EXCEPT ![i] = r]
  BY DEF Finish
<1> HIDE DEF r
<1>6. r \in InstType(r)
  BY <1>3 DEF InstType
<1>5. InstTyped' /\ inst'[i] = r /\ \A j \in Inst \ {i} : inst'[j] = inst[j]
  BY <1>4, <1>6, Put
<1> QED
  BY <1>3, <1>5

(* Two instances in nothing but how their process has ended.               *)
Alike(x, y) ==
    /\ x.comp = y.comp /\ x.current = y.current /\ x.stop = y.stop
    /\ x.state = y.state /\ x.pc = y.pc /\ x.exit = y.exit

LEMMA EndedTyped ==
    ASSUME KeysTyped, NEW f, InstancesTyped(f), NEW c \in Component,
           NEW how \in {"well", "badly"}
    PROVE  /\ InstancesTyped(Ended(f, c, how))
           /\ \A j \in Inst : /\ Alike(Ended(f, c, how)[j], f[j])
                              /\ j # proc[c] => Ended(f, c, how)[j] = f[j]
<1>1. CASE proc[c] = None
  BY <1>1 DEF Ended, Alike
<1>2. CASE proc[c] \in Inst
  <2> DEFINE r == [f[proc[c]] EXCEPT !.ended = how]
  <2>1. f[proc[c]] \in InstType(f[proc[c]])
    BY <1>2 DEF InstancesTyped
  <2>2. r \in InstType(r) /\ Alike(r, f[proc[c]])
    BY <2>1 DEF InstType, Alike
  <2>3. Ended(f, c, how) = [f EXCEPT ![proc[c]] = r]
    BY <1>2 DEF Ended, InstancesTyped, Inst, None
  <2> HIDE DEF r
  <2> QED
    BY <1>2, <2>2, <2>3 DEF InstancesTyped, Alike
<1> QED
  BY <1>1, <1>2 DEF KeysTyped

LEMMA AskedTyped ==
    ASSUME InstTyped, NEW S
    PROVE  /\ InstancesTyped(AskStop(S))
           /\ \A j \in Inst :
                 AskStop(S)[j] = [inst[j] EXCEPT !.stop = inst[j].stop \/ j \in S]
<1>1. ASSUME NEW j \in Inst
      PROVE  /\ AskStop(S)[j] = [inst[j] EXCEPT !.stop = inst[j].stop \/ j \in S]
             /\ AskStop(S)[j] \in InstType(AskStop(S)[j])
  <2> DEFINE b == inst[j].stop \/ j \in S
  <2>1. AskStop(S)[j] = [inst[j] EXCEPT !.stop = b]
    BY DEF AskStop
  <2>2. b \in BOOLEAN
    OBVIOUS
  <2> HIDE DEF b
  <2>3. inst[j] \in InstType(inst[j])
    BY DEF InstTyped, InstancesTyped
  <2> QED
    BY <2>1, <2>2, <2>3 DEF InstType, b
<1>2. AskStop(S) = [j \in Inst |-> AskStop(S)[j]]
  BY DEF AskStop
<1> QED
  BY <1>1, <1>2 DEF InstancesTyped


(* What a supervisor's own step does to its instance and to the others.    *)
Rest(i) == \A j \in Inst \ {i} : inst'[j] = inst[j]
SameOwner(i) ==
    inst'[i].comp = inst[i].comp /\ inst'[i].stop = inst[i].stop
Goes(i, pc) ==
    SameOwner(i) /\ inst'[i].current = inst[i].current /\ inst'[i].pc = pc
Ends(i) == SameOwner(i) /\ inst'[i].pc = "done"

LEMMA FinishEnds ==
    ASSUME InstTyped, NEW i \in Inst, NEW state \in {"Stopped", "Failed"},
           inst' = Finish(i, state)
    PROVE  InstTyped' /\ Rest(i) /\ Ends(i)
BY FinishPuts DEF Rest, SameOwner, Ends

LEMMA StartUnitPuts ==
    ASSUME Typed, NEW i \in Inst, StartUnit(i)
    PROVE  /\ InstTyped' /\ Rest(i)
           /\ Goes(i, "confirm") /\ inst'[i].state = inst[i].state
           /\ inst'[i].ended = "no" /\ inst'[i].exit = inst[i].exit
<1> DEFINE r == [inst[i] EXCEPT !.pc = "confirm", !.ended = "no"]
<1>1. inst[i] \in InstType(inst[i])
  BY DEF Typed, InstTyped, InstancesTyped
<1>2. r \in InstType(r) /\ r.comp = inst[i].comp /\ r.stop = inst[i].stop
      /\ r.current = inst[i].current /\ r.pc = "confirm" /\ r.state = inst[i].state
      /\ r.ended = "no" /\ r.exit = inst[i].exit
  BY <1>1 DEF InstType
<1>3. inst' = [j \in Inst |-> inst'[j]] /\ Rest(i)
  BY DEF StartUnit, Typed, InstTyped, InstancesTyped, Rest
<1>4. inst'[i] = r
  BY <1>1 DEF StartUnit, Typed, InstTyped, InstancesTyped
<1> HIDE DEF r
<1> QED
  BY <1>2, <1>3, <1>4 DEF Typed, InstTyped, InstancesTyped, Rest, Goes, SameOwner

LEMMA CrashedPuts ==
    ASSUME Typed, NEW i \in Inst, Crashed(i)
    PROVE  /\ InstTyped' /\ Rest(i) /\ (tripped => tripped') /\ tripped' \in BOOLEAN
           /\ \/ Goes(i, "backoff") /\ inst'[i].state = inst[i].state
              \/ Ends(i) /\ (inst[i].comp \in Vital => tripped')
<1> DEFINE crashes == Append(inst[i].crashes, 0)
<1>1. CASE Len(crashes) < Threshold
  <2> DEFINE r == [inst[i] EXCEPT !.crashes = crashes, !.pc = "backoff",
                                  !.due = inst[i].backoff,
                                  !.backoff = NextBackoff(inst[i].backoff)]
  <2>1. inst[i] \in InstType(inst[i])
    BY DEF Typed, InstTyped, InstancesTyped
  <2> HIDE DEF crashes
  <2>2. r \in InstType(r) /\ r.comp = inst[i].comp /\ r.stop = inst[i].stop
        /\ r.current = inst[i].current /\ r.pc = "backoff"
        /\ r.state = inst[i].state
    BY <2>1 DEF InstType
  <2>3. inst' = [inst EXCEPT ![i].crashes = crashes, ![i].pc = "backoff",
                             ![i].due = inst[i].backoff,
                             ![i].backoff = NextBackoff(@)]
        /\ UNCHANGED tripped
    BY <1>1 DEF Crashed, crashes
  <2>4. inst' = [j \in Inst |-> inst'[j]] /\ Rest(i)
    BY <2>3 DEF Typed, InstTyped, InstancesTyped, Rest
  <2>5. inst'[i] = r
    BY <2>1, <2>3 DEF Typed, InstTyped, InstancesTyped
  <2> HIDE DEF r
  <2> QED
    BY <2>2, <2>3, <2>4, <2>5
       DEF Typed, InstTyped, InstancesTyped, Rest, Goes, SameOwner, CallsTyped
<1>2. CASE ~(Len(crashes) < Threshold)
  <2>1. inst' = Finish(i, "Failed") /\ tripped' = (tripped \/ inst[i].comp \in Vital)
    BY <1>2 DEF Crashed
  <2>2. InstTyped' /\ Rest(i) /\ Ends(i)
    BY <2>1, FinishEnds DEF Typed
  <2> QED
    BY <2>1, <2>2
<1> QED
  BY <1>1, <1>2

LEMMA StartedPuts ==
    ASSUME Typed, NEW i \in Inst, Started(i)
    PROVE  /\ InstTyped' /\ Rest(i)
           /\ Goes(i, "run") /\ inst'[i].state = "Running"
           /\ inst'[i].ended = inst[i].ended /\ inst'[i].exit = "no"
<1> DEFINE r == [inst[i] EXCEPT !.pc = "run", !.handle = TRUE,
                                !.state = "Running", !.backoff = BackoffMin,
                                !.exit = "no"]
<1>1. inst[i] \in InstType(inst[i])
  BY DEF Typed, InstTyped, InstancesTyped
<1>2. r \in InstType(r) /\ r.comp = inst[i].comp /\ r.stop = inst[i].stop
      /\ r.current = inst[i].current /\ r.pc = "run" /\ r.state = "Running"
      /\ r.ended = inst[i].ended /\ r.exit = "no"
  BY <1>1 DEF InstType
<1>3. inst' = [j \in Inst |-> inst'[j]] /\ Rest(i)
  BY DEF Started, Typed, InstTyped, InstancesTyped, Rest
<1>4. inst'[i] = r
  BY <1>1 DEF Started, Typed, InstTyped, InstancesTyped
<1> HIDE DEF r
<1> QED
  BY <1>2, <1>3, <1>4 DEF Typed, InstTyped, InstancesTyped, Rest, Goes, SameOwner

LEMMA WaitPuts ==
    ASSUME Typed, NEW i \in Inst, WaitReturns(i)
    PROVE  /\ InstTyped' /\ Rest(i)
           /\ Goes(i, inst[i].pc) /\ inst'[i].state = inst[i].state
           /\ inst[i].ended # "no" \/ cancelled \/ "wait" \in Faulty
<1>1. PICK exit \in {"well", "badly"} :
          /\ \/ inst[i].ended # "no" /\ exit \in {inst[i].ended, "well"}
             \/ (cancelled \/ "wait" \in Faulty) /\ exit = "well"
          /\ inst' = [inst EXCEPT ![i].exit = exit, ![i].ended = "no"]
  BY DEF WaitReturns
<1> DEFINE r == [inst[i] EXCEPT !.exit = exit, !.ended = "no"]
<1>2. inst[i] \in InstType(inst[i])
  BY DEF Typed, InstTyped, InstancesTyped
<1>3. r \in InstType(r) /\ r.comp = inst[i].comp /\ r.stop = inst[i].stop
      /\ r.current = inst[i].current /\ r.pc = inst[i].pc
      /\ r.state = inst[i].state
  BY <1>2 DEF InstType
<1>4. inst' = [j \in Inst |-> inst'[j]] /\ Rest(i)
  BY <1>1 DEF Typed, InstTyped, InstancesTyped, Rest
<1>5. inst'[i] = r
  BY <1>1, <1>2 DEF Typed, InstTyped, InstancesTyped
<1> HIDE DEF r
<1> QED
  BY <1>1, <1>3, <1>4, <1>5
     DEF Typed, InstTyped, InstancesTyped, Rest, Goes, SameOwner

LEMMA WakeUpPuts ==
    ASSUME Typed, NEW i \in Inst, WakeUp(i)
    PROVE  /\ InstTyped' /\ Rest(i)
           /\ Goes(i, "start") /\ inst'[i].state = "Starting"
           /\ inst'[i].ended = "no" /\ inst'[i].exit = "no"
<1> DEFINE r == [inst[i] EXCEPT !.pc = "start", !.state = "Starting",
                                !.ended = "no", !.exit = "no"]
<1>1. inst[i] \in InstType(inst[i])
  BY DEF Typed, InstTyped, InstancesTyped
<1>2. r \in InstType(r) /\ r.comp = inst[i].comp /\ r.stop = inst[i].stop
      /\ r.current = inst[i].current /\ r.pc = "start" /\ r.state = "Starting"
      /\ r.ended = "no" /\ r.exit = "no"
  BY <1>1 DEF InstType
<1>3. inst' = [j \in Inst |-> inst'[j]] /\ Rest(i)
  BY DEF WakeUp, Typed, InstTyped, InstancesTyped, Rest
<1>4. inst'[i] = r
  BY <1>1 DEF WakeUp, Typed, InstTyped, InstancesTyped
<1> HIDE DEF r
<1> QED
  BY <1>2, <1>3, <1>4 DEF Typed, InstTyped, InstancesTyped, Rest, Goes, SameOwner

LEMMA UnitPuts ==
    ASSUME KeysTyped, NEW f, InstancesTyped(f), NEW c \in Component,
           StopUnit(f, c)
    PROVE  /\ InstTyped' /\ proc' \in [Component -> Inst \cup {None}]
           /\ \A j \in Inst : Alike(inst'[j], f[j])
           /\ \/ proc' = proc /\ inst' = f
              \/ /\ proc' = [proc EXCEPT ![c] = None]
                 /\ \A j \in Inst : j # proc[c] => inst'[j] = f[j]
<1>1. CASE UnitStops(f, c)
  <2> DEFINE g == Ended(f, c, "well")
  <2>1. /\ InstancesTyped(g)
        /\ \A j \in Inst : Alike(g[j], f[j]) /\ (j # proc[c] => g[j] = f[j])
    BY EndedTyped
  <2>2. inst' = g /\ proc' = [proc EXCEPT ![c] = None]
    BY <1>1 DEF UnitStops
  <2> HIDE DEF g
  <2>3. InstTyped'
    BY <2>1, <2>2 DEF InstTyped, InstancesTyped, InstType
  <2> QED
    BY <2>1, <2>2, <2>3 DEF KeysTyped
<1>2. CASE UnitRemains(f)
  BY <1>2 DEF UnitRemains, KeysTyped, InstTyped, InstancesTyped, InstType, Alike
<1> QED
  BY <1>1, <1>2 DEF StopUnit

LEMMA HaltedPuts ==
    ASSUME Typed, NEW i \in Inst, Halted(i), inst[i].comp \in Component
    PROVE  /\ InstTyped' /\ proc' \in [Component -> Inst \cup {None}]
           /\ \A j \in Inst \ {i} : Alike(inst'[j], inst[j])
           /\ Goes(i, "drain") /\ inst'[i].state = inst[i].state
           /\ inst'[i].exit = inst[i].exit
           /\ \/ proc' = proc /\ \A j \in Inst : inst'[j].ended = inst[j].ended
              \/ /\ proc' = [proc EXCEPT ![inst[i].comp] = None]
                 /\ \A j \in Inst : j # proc[inst[i].comp]
                                       => inst'[j].ended = inst[j].ended
<1> DEFINE f == [inst EXCEPT ![i].pc = "drain"]
           r == [inst[i] EXCEPT !.pc = "drain"]
<1>1. inst[i] \in InstType(inst[i])
  BY DEF Typed, InstTyped, InstancesTyped
<1>2. r \in InstType(r) /\ r.comp = inst[i].comp /\ r.stop = inst[i].stop
      /\ r.current = inst[i].current /\ r.pc = "drain"
      /\ r.state = inst[i].state /\ r.ended = inst[i].ended
      /\ r.exit = inst[i].exit
  BY <1>1 DEF InstType
<1>3. f = [j \in Inst |-> f[j]] /\ \A j \in Inst \ {i} : f[j] = inst[j]
  BY DEF Typed, InstTyped, InstancesTyped
<1>4. f[i] = r
  BY <1>1 DEF Typed, InstTyped, InstancesTyped
<1>5. StopUnit(f, inst[i].comp)
  BY DEF Halted
<1> HIDE DEF r, f
<1>6. InstancesTyped(f)
  BY <1>2, <1>3, <1>4 DEF Typed, InstTyped, InstancesTyped
<1>7. /\ InstTyped' /\ proc' \in [Component -> Inst \cup {None}]
      /\ \A j \in Inst : Alike(inst'[j], f[j])
      /\ \/ proc' = proc /\ inst' = f
         \/ /\ proc' = [proc EXCEPT ![inst[i].comp] = None]
            /\ \A j \in Inst : j # proc[inst[i].comp] => inst'[j] = f[j]
  BY <1>5, <1>6, UnitPuts DEF Typed
<1>8. \A j \in Inst : f[j].ended = inst[j].ended
  BY <1>2, <1>3, <1>4
<1> QED
  BY <1>2, <1>3, <1>4, <1>7, <1>8 DEF Goes, SameOwner, Alike

(* A supervisor's step, as the registry of instances sees it.              *)
SameKey(j) ==
    /\ inst'[j].comp = inst[j].comp /\ inst'[j].current = inst[j].current
    /\ inst'[j].stop = inst[j].stop /\ inst'[j].state = inst[j].state
    /\ inst'[j].pc = inst[j].pc
Worked(i) ==
    /\ \A j \in Inst \ {i} : SameKey(j)
    /\ i \in Undone
    /\ \/ Ends(i)
       \/ /\ SameOwner(i) /\ inst'[i].current = inst[i].current
          /\ i \in Undone' /\ (Active(i) => Active(i)')

LEMMA SuperviseWorks ==
    ASSUME Typed, KeysHold, NEW i \in Inst, Supervise(i)
    PROVE  Typed' /\ Worked(i) /\ (tripped => tripped') /\ UNCHANGED others
<1>1. ASSUME StartUnit(i)
      PROVE  Typed' /\ Worked(i) /\ (tripped => tripped') /\ UNCHANGED others
  <2>1. /\ UNCHANGED <<others, tripped>> /\ inst[i].pc = "start"
        /\ proc' = [proc EXCEPT ![inst[i].comp] = i]
    BY <1>1 DEF StartUnit
  <2> QED
    BY <1>1, <2>1, StartUnitPuts
       DEF others, registry, Typed, KeysTyped, CallsTyped, Worked, Rest, SameKey, Goes,
           Undone, Active
<1>2. ASSUME StartFails(i)
      PROVE  Typed' /\ Worked(i) /\ (tripped => tripped') /\ UNCHANGED others
  <2>1. UNCHANGED <<others, proc>> /\ i \in Undone
    BY <1>2 DEF StartFails, StartError, Undone
  <2>2. CASE Crashed(i)
    BY <2>1, <2>2, CrashedPuts
       DEF others, registry, Typed, KeysTyped, CallsTyped, Worked, Rest, SameKey, Goes,
           Undone, Active
  <2>3. CASE inst' = Finish(i, "Stopped") /\ UNCHANGED tripped
    BY <2>1, <2>3, FinishEnds
       DEF others, registry, Typed, KeysTyped, CallsTyped, Worked, Rest, SameKey
  <2> QED
    BY <1>2, <2>2, <2>3 DEF StartFails
<1>3. ASSUME Started(i)
      PROVE  Typed' /\ Worked(i) /\ (tripped => tripped') /\ UNCHANGED others
  <2>1. UNCHANGED <<others, tripped, proc>> /\ inst[i].pc = "confirm"
    BY <1>3 DEF Started
  <2> QED
    BY <1>3, <2>1, StartedPuts
       DEF others, registry, Typed, KeysTyped, CallsTyped, Worked, Rest, SameKey, Goes,
           Undone, Active
<1>4. ASSUME WaitReturns(i)
      PROVE  Typed' /\ Worked(i) /\ (tripped => tripped') /\ UNCHANGED others
  <2>1. UNCHANGED <<others, tripped, proc>> /\ inst[i].pc \in {"run", "drain"}
    BY <1>4 DEF WaitReturns
  <2> QED
    BY <1>4, <2>1, WaitPuts
       DEF others, registry, Typed, KeysTyped, CallsTyped, Worked, Rest, SameKey, Goes,
           Undone, Active
<1>5. ASSUME Halted(i)
      PROVE  Typed' /\ Worked(i) /\ (tripped => tripped') /\ UNCHANGED others
  <2>1. UNCHANGED <<others, tripped>> /\ inst[i].pc = "run"
    BY <1>5 DEF Halted
  <2>2. i \in Undone /\ inst[i].comp \in Component
    BY <2>1 DEF Undone, KeysHold
  <2> QED
    BY <1>5, <2>1, <2>2, HaltedPuts
       DEF others, registry, Typed, KeysTyped, CallsTyped, Worked, Alike, SameKey, Goes,
           Undone, Active
<1>6. ASSUME Drained(i) \/ GiveUp(i)
      PROVE  Typed' /\ Worked(i) /\ (tripped => tripped') /\ UNCHANGED others
  <2>1. UNCHANGED <<others, tripped, proc>> /\ i \in Undone
        /\ inst' = Finish(i, "Stopped")
    BY <1>6 DEF Drained, GiveUp, Undone
  <2> QED
    BY <2>1, FinishEnds
       DEF others, registry, Typed, KeysTyped, CallsTyped, Worked, Rest, SameKey
<1>7. ASSUME Exited(i)
      PROVE  Typed' /\ Worked(i) /\ (tripped => tripped') /\ UNCHANGED others
  <2>1. UNCHANGED <<others, proc>> /\ i \in Undone
    BY <1>7 DEF Exited, Undone
  <2>2. CASE Crashed(i)
    BY <2>1, <2>2, CrashedPuts
       DEF others, registry, Typed, KeysTyped, CallsTyped, Worked, Rest, SameKey, Goes,
           Undone, Active
  <2>3. CASE inst' = Finish(i, "Stopped") /\ UNCHANGED tripped
    BY <2>1, <2>3, FinishEnds
       DEF others, registry, Typed, KeysTyped, CallsTyped, Worked, Rest, SameKey
  <2> QED
    BY <1>7, <2>2, <2>3 DEF Exited
<1>8. ASSUME WakeUp(i)
      PROVE  Typed' /\ Worked(i) /\ (tripped => tripped') /\ UNCHANGED others
  <2>1. UNCHANGED <<others, tripped, proc>> /\ inst[i].pc = "backoff"
    BY <1>8 DEF WakeUp
  <2> QED
    BY <1>8, <2>1, WakeUpPuts
       DEF others, registry, Typed, KeysTyped, CallsTyped, Worked, Rest, SameKey, Goes,
           Undone, Active
<1> QED
  BY <1>1, <1>2, <1>3, <1>4, <1>5, <1>6, <1>7, <1>8 DEF Supervise

----------------------------------------------------------------------------
(* startLocked: new instances, in places that nobody holds.                *)
LEMMA FreshIs ==
    ASSUME NEW c \in Component
    PROVE  /\ Fresh(c) \in InstType(Fresh(c))
           /\ Fresh(c).comp = c /\ Fresh(c).current /\ Fresh(c).state = "Starting"
           /\ Fresh(c).pc = "start" /\ ~Fresh(c).stop
           /\ Fresh(c).ended = "no" /\ Fresh(c).exit = "no"
<1>1. NoInst \in InstType(NoInst) /\ ~NoInst.stop /\ NoInst.ended = "no"
      /\ NoInst.exit = "no"
  BY DEF NoInst, InstType
<1> QED
  BY <1>1 DEF Fresh, InstType

Free(i) == inst[i].pc \in {"none", "done"} /\ \A c \in Component : proc[c] # i

LEMMA LaunchPuts ==
    ASSUME Typed, NEW keys \in [Component -> Inst \cup {None}], NEW S,
           S \subseteq Component, Launch(keys, S)
    PROVE  /\ InstTyped' /\ byKey' \in [Component -> Inst \cup {None}]
           /\ \A c \in Component : c \notin Startable(keys, S) =>
                 /\ byKey'[c] = keys[c]
                 /\ keys[c] # None => inst'[keys[c]] = inst[keys[c]]
           /\ \A c \in Startable(keys, S) :
                 byKey'[c] \in Inst /\ inst'[byKey'[c]] = Fresh(c)
           /\ \A i \in Inst :
                 \/ inst'[i] = inst[i]
                 \/ Free(i) /\ inst'[i] = NoInst
                 \/ /\ Free(i)
                    /\ \E c \in Startable(keys, S) :
                          byKey'[c] = i /\ inst'[i] = Fresh(c)
<1> DEFINE new == Startable(keys, S)
           kept == [c \in Component |-> IF c \in new THEN None ELSE keys[c]]
           free == Garbage(kept)
           places == Injection(new, free)
           place == CHOOSE f \in places : TRUE
<1>1. new \subseteq Component
  BY DEF Startable
<1>2. /\ places # {}
      /\ byKey' = [c \in Component |-> IF c \in new THEN place[c] ELSE keys[c]]
      /\ inst' = [i \in Inst |->
                     IF i \notin free THEN inst[i]
                     ELSE IF \E c \in new : place[c] = i
                     THEN Fresh(CHOOSE c \in new : place[c] = i)
                     ELSE NoInst]
  BY DEF Launch
<1>3. place \in [new -> free] /\ \A a, b \in new : place[a] = place[b] => a = b
  <2>1. place \in places
    BY <1>2
  <2> HIDE DEF place
  <2> QED
    BY <2>1 DEF Injection, IsInjective
<1>4. \A i \in free : i \in Inst /\ Free(i) /\ \A c \in Component : kept[c] # i
  BY DEF Garbage, Free, Range, Typed, KeysTyped
<1>5. \A c \in Component : c \notin new => kept[c] = keys[c]
  OBVIOUS
<1> HIDE DEF place, free, kept, new, places
<1>6. \A c \in new : (CHOOSE d \in new : place[d] = place[c]) = c
  BY <1>3
<1>7. \A c \in new : place[c] \in Inst /\ inst'[place[c]] = Fresh(c)
  <2> TAKE c \in new
  <2>1. place[c] \in free /\ place[c] \in Inst /\ \E d \in new : place[d] = place[c]
    BY <1>3, <1>4
  <2>2. inst'[place[c]] = Fresh(CHOOSE d \in new : place[d] = place[c])
    BY <1>2, <2>1
  <2> QED
    BY <1>6, <2>1, <2>2
<1>8. \A i \in Inst :
          \/ inst'[i] = inst[i]
          \/ Free(i) /\ inst'[i] = NoInst
          \/ Free(i) /\ \E c \in new : byKey'[c] = i /\ inst'[i] = Fresh(c)
  <2> TAKE i \in Inst
  <2>1. CASE i \notin free
    BY <1>2, <2>1
  <2>2. CASE i \in free /\ \E c \in new : place[c] = i
    BY <1>1, <1>2, <1>4, <1>7, <2>2
  <2>3. CASE i \in free /\ ~\E c \in new : place[c] = i
    BY <1>2, <1>4, <2>3
  <2> QED
    BY <2>1, <2>2, <2>3
<1>9. InstTyped'
  <2>1. inst' = [i \in Inst |-> inst'[i]]
    BY <1>2
  <2>2. NoInst \in InstType(NoInst)
    BY DEF NoInst, InstType
  <2>3. ASSUME NEW i \in Inst PROVE inst'[i] \in InstType(inst'[i])
    BY <1>1, <1>8, <2>2, FreshIs DEF Typed, InstTyped, InstancesTyped
  <2> QED
    BY <2>1, <2>3 DEF InstTyped, InstancesTyped, InstType
<1>10. byKey' \in [Component -> Inst \cup {None}]
  BY <1>1, <1>2, <1>7
<1>11. ASSUME NEW c \in Component, c \notin new
       PROVE  byKey'[c] = keys[c] /\ (keys[c] # None => inst'[keys[c]] = inst[keys[c]])
  <2>1. byKey'[c] = keys[c]
    BY <1>2, <1>11
  <2>2. keys[c] # None => keys[c] \in Inst /\ keys[c] \notin free
    BY <1>4, <1>5, <1>11
  <2> QED
    BY <1>2, <2>1, <2>2
<1>12. \A c \in new : byKey'[c] \in Inst /\ inst'[byKey'[c]] = Fresh(c)
  BY <1>1, <1>2, <1>7
<1> QED
  BY <1>8, <1>9, <1>10, <1>11, <1>12 DEF new

----------------------------------------------------------------------------
(* The other steps leave every supervisor where it is.                     *)
Quiet(j) ==
    /\ inst'[j].comp = inst[j].comp /\ inst'[j].state = inst[j].state
    /\ inst'[j].pc = inst[j].pc /\ (inst[j].stop => inst'[j].stop)
Unaged(j) == inst'[j].current = inst[j].current

LEMMA SameIsQuiet ==
    ASSUME UNCHANGED inst PROVE \A j \in Inst : Quiet(j) /\ Unaged(j)
BY DEF Quiet, Unaged

LEMMA EndIsQuiet ==
    ASSUME Typed, NEW c \in Component, NEW how, ProcessEnds(c, how),
           how \in {"well", "badly"}
    PROVE  /\ Typed' /\ proc' = [proc EXCEPT ![c] = None]
           /\ \A j \in Inst : /\ Quiet(j) /\ Unaged(j)
                              /\ inst'[j].exit = inst[j].exit
                              /\ j # proc[c] => inst'[j].ended = inst[j].ended
<1>1. inst' = Ended(inst, c, how) /\ proc' = [proc EXCEPT ![c] = None]
      /\ UNCHANGED <<registry, byKey, calls, life, toStop, tripped>>
  BY DEF ProcessEnds
<1> DEFINE g == Ended(inst, c, how)
<1>2. /\ InstancesTyped(g)
      /\ \A j \in Inst : Alike(g[j], inst[j]) /\ (j # proc[c] => g[j] = inst[j])
  BY EndedTyped DEF Typed, InstTyped
<1>3. inst' = g
  BY <1>1
<1> HIDE DEF g
<1>4. InstTyped'
  BY <1>2, <1>3 DEF InstTyped, InstancesTyped, InstType
<1> QED
  BY <1>1, <1>2, <1>3, <1>4
     DEF Typed, KeysTyped, CallsTyped, registry, calls, Alike, Quiet, Unaged

LEMMA TickIsQuiet ==
    ASSUME Typed, Tick
    PROVE  /\ Typed' /\ UNCHANGED <<others, proc, tripped>>
           /\ \A j \in Inst : Quiet(j) /\ Unaged(j) /\ Alike(inst'[j], inst[j])
                              /\ inst'[j].ended = inst[j].ended
<1> DEFINE Older(x) ==
               [x EXCEPT !.crashes = Recent([k \in DOMAIN @ |-> @[k] + 1]),
                         !.due = IF @ > 0 THEN @ - 1 ELSE 0]
<1>1. inst' = [i \in Inst |-> Older(inst[i])] /\ UNCHANGED <<others, proc, tripped>>
  BY DEF Tick
<1>2. ASSUME NEW i \in Inst
      PROVE  /\ Older(inst[i]) \in InstType(Older(inst[i]))
             /\ Alike(Older(inst[i]), inst[i])
             /\ Older(inst[i]).ended = inst[i].ended
  <2> DEFINE a == Recent([k \in DOMAIN inst[i].crashes |-> inst[i].crashes[k] + 1])
             d == IF inst[i].due > 0 THEN inst[i].due - 1 ELSE 0
             r == [inst[i] EXCEPT !.crashes = a, !.due = d]
  <2>1. Older(inst[i]) = r
    OBVIOUS
  <2>2. inst[i] \in InstType(inst[i])
    BY DEF Typed, InstTyped, InstancesTyped
  <2> HIDE DEF Older, a, d
  <2>3. r \in InstType(r) /\ Alike(r, inst[i]) /\ r.ended = inst[i].ended
    BY <2>2 DEF InstType, Alike
  <2> QED
    BY <2>1, <2>3
<1> HIDE DEF Older
<1>3. \A i \in Inst : inst'[i] = Older(inst[i])
  BY <1>1
<1>4. InstTyped'
  BY <1>1, <1>2, <1>3 DEF InstTyped, InstancesTyped, InstType
<1> QED
  BY <1>1, <1>2, <1>3, <1>4
     DEF Typed, KeysTyped, CallsTyped, registry, others, Alike, Quiet, Unaged

LEMMA AskIsQuiet ==
    ASSUME Typed, NEW S, inst' = AskStop(S)
    PROVE  /\ InstTyped'
           /\ \A j \in Inst : /\ Quiet(j) /\ Unaged(j)
                              /\ inst'[j].ended = inst[j].ended
                              /\ inst'[j].exit = inst[j].exit
<1> DEFINE g == AskStop(S)
<1>1. /\ InstancesTyped(g)
      /\ \A j \in Inst : g[j] = [inst[j] EXCEPT !.stop = inst[j].stop \/ j \in S]
  BY AskedTyped DEF Typed
<1>2. inst' = g
  OBVIOUS
<1> HIDE DEF g
<1>3. InstTyped'
  BY <1>1, <1>2 DEF InstTyped, InstancesTyped, InstType
<1>4. ASSUME NEW j \in Inst
      PROVE  /\ Quiet(j) /\ Unaged(j) /\ inst'[j].ended = inst[j].ended
             /\ inst'[j].exit = inst[j].exit
  <2> DEFINE b == inst[j].stop \/ j \in S
  <2>1. inst[j] \in InstType(inst[j])
    BY DEF Typed, InstTyped, InstancesTyped
  <2>2. inst'[j] = [inst[j] EXCEPT !.stop = b]
    BY <1>1, <1>2
  <2>3. inst[j].stop => b
    OBVIOUS
  <2> HIDE DEF b
  <2> QED
    BY <2>1, <2>2, <2>3 DEF InstType, Quiet, Unaged
<1> QED
  BY <1>3, <1>4

LEMMA OutdatedIsQuiet ==
    ASSUME Typed, inst' = Outdated
    PROVE  /\ InstTyped'
           /\ \A j \in Inst : /\ Quiet(j) /\ inst'[j].ended = inst[j].ended
                              /\ inst'[j].exit = inst[j].exit
                              /\ inst'[j].stop = inst[j].stop
<1>1. ASSUME NEW j \in Inst
      PROVE  /\ inst'[j] \in InstType(inst'[j])
             /\ Quiet(j) /\ inst'[j].ended = inst[j].ended
             /\ inst'[j].exit = inst[j].exit /\ inst'[j].stop = inst[j].stop
  <2>1. inst[j] \in InstType(inst[j])
    BY DEF Typed, InstTyped, InstancesTyped
  <2>2. inst'[j] = [inst[j] EXCEPT !.current = FALSE]
    BY DEF Outdated
  <2> QED
    BY <2>1, <2>2 DEF InstType, Quiet
<1>2. inst' = [j \in Inst |-> inst'[j]]
  BY DEF Outdated
<1> QED
  BY <1>1, <1>2 DEF InstTyped, InstancesTyped, InstType

LEMMA UnitIsQuiet ==
    ASSUME Typed, NEW S, NEW c \in Component, StopUnit(AskStop(S), c)
    PROVE  /\ InstTyped' /\ proc' \in [Component -> Inst \cup {None}]
           /\ \A j \in Inst : /\ Quiet(j) /\ Unaged(j)
                              /\ inst'[j].exit = inst[j].exit
           /\ \/ proc' = proc /\ \A j \in Inst : inst'[j].ended = inst[j].ended
              \/ /\ proc' = [proc EXCEPT ![c] = None]
                 /\ \A j \in Inst : j # proc[c] => inst'[j].ended = inst[j].ended
<1> DEFINE f == AskStop(S)
<1>1. /\ InstancesTyped(f)
      /\ \A j \in Inst : f[j] = [inst[j] EXCEPT !.stop = inst[j].stop \/ j \in S]
  BY AskedTyped DEF Typed
<1>2. StopUnit(f, c)
  OBVIOUS
<1> HIDE DEF f
<1>3. /\ InstTyped' /\ proc' \in [Component -> Inst \cup {None}]
      /\ \A j \in Inst : Alike(inst'[j], f[j])
      /\ \/ proc' = proc /\ inst' = f
         \/ /\ proc' = [proc EXCEPT ![c] = None]
            /\ \A j \in Inst : j # proc[c] => inst'[j] = f[j]
  BY <1>1, <1>2, UnitPuts DEF Typed
<1>4. ASSUME NEW j \in Inst
      PROVE  /\ f[j].comp = inst[j].comp /\ f[j].current = inst[j].current
             /\ f[j].state = inst[j].state /\ f[j].pc = inst[j].pc
             /\ f[j].ended = inst[j].ended /\ f[j].exit = inst[j].exit
             /\ inst[j].stop => f[j].stop
  <2> DEFINE b == inst[j].stop \/ j \in S
  <2>1. inst[j] \in InstType(inst[j])
    BY DEF Typed, InstTyped, InstancesTyped
  <2>2. f[j] = [inst[j] EXCEPT !.stop = b]
    BY <1>1
  <2>3. inst[j].stop => b
    OBVIOUS
  <2> HIDE DEF b
  <2> QED
    BY <2>1, <2>2, <2>3 DEF InstType
<1> QED
  BY <1>3, <1>4 DEF Alike, Quiet, Unaged

LEMMA UnitOfIsQuiet ==
    ASSUME Typed, NEW c \in Component, StopUnit(inst, c)
    PROVE  /\ InstTyped' /\ proc' \in [Component -> Inst \cup {None}]
           /\ \A j \in Inst : /\ Quiet(j) /\ Unaged(j)
                              /\ inst'[j].exit = inst[j].exit
           /\ \/ proc' = proc /\ \A j \in Inst : inst'[j].ended = inst[j].ended
              \/ /\ proc' = [proc EXCEPT ![c] = None]
                 /\ \A j \in Inst : j # proc[c] => inst'[j].ended = inst[j].ended
<1>1. /\ InstTyped' /\ proc' \in [Component -> Inst \cup {None}]
      /\ \A j \in Inst : Alike(inst'[j], inst[j])
      /\ \/ proc' = proc /\ inst' = inst
         \/ /\ proc' = [proc EXCEPT ![c] = None]
            /\ \A j \in Inst : j # proc[c] => inst'[j] = inst[j]
  BY UnitPuts DEF Typed, InstTyped
<1> QED
  BY <1>1 DEF Alike, Quiet, Unaged

----------------------------------------------------------------------------
(* What each kind of step does to the keys.                                *)
LEMMA KeysQuiet ==
    ASSUME Typed, KeysHold, \A j \in Inst : Quiet(j), byKey' = byKey,
           toStop' \subseteq toStop
    PROVE  KeysHold' /\ Undone' = Undone /\ Instances' = Instances
<1>1. Undone' = Undone
  BY DEF Undone, Quiet
<1>2. Instances' = Instances
  BY DEF Instances, Range
<1>3. \A i \in Undone : /\ inst'[i].comp \in Component /\ byKey'[inst'[i].comp] = i
                        /\ Active(i)'
  BY DEF KeysHold, Quiet, Active, Undone
<1>4. \A c \in Component : byKey'[c] # None => inst'[byKey'[c]].comp = c
  BY DEF KeysHold, Quiet, Typed, KeysTyped
<1> QED
  BY <1>1, <1>2, <1>3, <1>4 DEF KeysHold

LEMMA KeysWorked ==
    ASSUME Typed, KeysHold, NEW i \in Inst, Worked(i), byKey' = byKey,
           toStop' = toStop
    PROVE  /\ KeysHold' /\ Undone' \subseteq Undone /\ Instances' = Instances
           /\ \A j \in Undone' : /\ inst'[j].comp = inst[j].comp
                                 /\ inst'[j].current = inst[j].current
<1>1. Undone' \subseteq Undone
  BY DEF Undone, Worked, SameKey
<1>2. Instances' = Instances
  BY DEF Instances, Range
<1>3. \A j \in Undone' : /\ inst'[j].comp = inst[j].comp
                         /\ inst'[j].current = inst[j].current
                         /\ Active(j) => Active(j)'
  BY <1>1 DEF Worked, SameKey, SameOwner, Undone, Ends, Active
<1>4. \A j \in Inst : inst'[j].comp = inst[j].comp
  BY DEF Worked, SameKey, SameOwner, Ends
<1> QED
  BY <1>1, <1>2, <1>3, <1>4 DEF KeysHold, Undone, Typed, KeysTyped

LEMMA KeysLaunch ==
    ASSUME Typed, KeysHold, NEW S, S \subseteq Component, Launch(byKey, S),
           toStop' = toStop
    PROVE  /\ InstTyped' /\ byKey' \in [Component -> Inst \cup {None}]
           /\ KeysHold'
           /\ \A i \in Undone' :
                 \/ i \in Undone /\ inst'[i] = inst[i]
                 \/ inst'[i].comp \in S /\ inst'[i].current
           /\ \A i \in Inst : inst'[i] # inst[i] => Free(i)
<1>1. byKey \in [Component -> Inst \cup {None}]
  BY DEF Typed, KeysTyped
<1> DEFINE new == Startable(byKey, S)
<1>2. /\ InstTyped' /\ byKey' \in [Component -> Inst \cup {None}]
      /\ \A c \in Component : c \notin new =>
            /\ byKey'[c] = byKey[c]
            /\ byKey[c] # None => inst'[byKey[c]] = inst[byKey[c]]
      /\ \A c \in new : byKey'[c] \in Inst /\ inst'[byKey'[c]] = Fresh(c)
      /\ \A i \in Inst :
            \/ inst'[i] = inst[i]
            \/ Free(i) /\ inst'[i] = NoInst
            \/ Free(i) /\ \E c \in new : byKey'[c] = i /\ inst'[i] = Fresh(c)
  BY <1>1, LaunchPuts
<1>3. /\ new \subseteq S
      /\ \A c \in new : byKey[c] = None \/ ~Active(byKey[c])
  BY DEF Startable
<1> HIDE DEF new
<1>4. NoInst.pc = "none"
  BY DEF NoInst
<1>5. \A i \in Undone' : \/ i \in Undone /\ inst'[i] = inst[i]
                         \/ \E c \in new : byKey'[c] = i /\ inst'[i] = Fresh(c)
  BY <1>2, <1>4 DEF Undone
<1>6. ASSUME NEW i \in Undone'
      PROVE  /\ inst'[i].comp \in Component /\ byKey'[inst'[i].comp] = i
             /\ Active(i)'
             /\ \/ i \in Undone /\ inst'[i] = inst[i]
                \/ inst'[i].comp \in S /\ inst'[i].current
  <2>1. CASE i \in Undone /\ inst'[i] = inst[i]
    <3>1. inst[i].comp \in Component /\ byKey[inst[i].comp] = i /\ Active(i)
      BY <2>1 DEF KeysHold
    <3>2. inst[i].comp \notin new
      BY <1>3, <3>1, <2>1 DEF Undone, Inst, None
    <3> QED
      BY <1>2, <2>1, <3>1, <3>2 DEF Active
  <2>2. CASE \E c \in new : byKey'[c] = i /\ inst'[i] = Fresh(c)
    BY <1>3, <2>2, FreshIs DEF Active
  <2> QED
    BY <1>5, <2>1, <2>2
<1>7. ASSUME NEW c \in Component, byKey'[c] # None PROVE inst'[byKey'[c]].comp = c
  BY <1>2, <1>7, FreshIs DEF KeysHold
<1>8. toStop' \subseteq {c \in Component : byKey'[c] # None}
  BY <1>2 DEF KeysHold, Inst, None
<1> QED
  BY <1>2, <1>6, <1>7, <1>8 DEF KeysHold

RegistryInv == Typed /\ KeyInv /\ Accounted

LEMMA InitRegistry == Init => RegistryInv
<1> SUFFICES ASSUME Init PROVE RegistryInv
  OBVIOUS
<1>1. Undone = {} /\ \A i \in Inst : inst[i] \in InstType(inst[i])
  BY DEF Init, Undone, NoInst, InstType
<1>2. Typed
  BY <1>1, ServiceAssumption
     DEF ServiceAssumption, Init, Typed, InstTyped, InstancesTyped, KeysTyped,
         CallsTyped, TaskType, Idle
<1>3. KeyInv
  BY <1>1 DEF Init, KeyInv, KeysHold, LockHolds, TaskHolds, Idle
<1>4. Accounted
  BY <1>1 DEF Init, Accounted
<1> QED
  BY <1>2, <1>3, <1>4 DEF RegistryInv

(* A step that asks nothing new of anybody.                                *)
LEMMA AccountedStays ==
    ASSUME Accounted, Undone' \subseteq Undone,
           \A i \in Undone' : /\ inst'[i].comp = inst[i].comp
                              /\ inst'[i].current = inst[i].current,
           UNCHANGED <<package, disabled, owed>>,
           task'.op = task.op, task'.comps = task.comps,
           task.failed => task'.failed, stopped => stopped'
    PROVE  Accounted'
<1>1. \A i \in Undone' : Rightful(i)' = Rightful(i) /\ Awaited(i)' = Awaited(i)
  BY DEF Rightful, Awaited
<1> QED
  BY <1>1 DEF Accounted

LEMMA SuperviseKeeps ==
    ASSUME RegistryInv, NEW i \in Inst, Supervise(i)
    PROVE  RegistryInv'
<1>1. Typed' /\ Worked(i) /\ UNCHANGED others
  BY SuperviseWorks DEF RegistryInv, KeyInv
<1>2. /\ KeysHold' /\ Undone' \subseteq Undone /\ Instances' = Instances
      /\ \A j \in Undone' : /\ inst'[j].comp = inst[j].comp
                            /\ inst'[j].current = inst[j].current
  BY <1>1, KeysWorked DEF RegistryInv, KeyInv, others
<1>3. LockHolds' /\ TaskHolds'
  BY <1>1, <1>2 DEF RegistryInv, KeyInv, others, registry, LockHolds, TaskHolds, Idle
<1>4. Accounted'
  BY <1>1, <1>2, AccountedStays DEF RegistryInv, others, registry, stopped
<1> QED
  BY <1>1, <1>2, <1>3, <1>4 DEF RegistryInv, KeyInv

LEMMA BootKeeps ==
    ASSUME RegistryInv, Boot PROVE RegistryInv'
<1>1. /\ life = "boot" /\ life' = "up" /\ Launch(byKey, Startup)
      /\ UNCHANGED <<registry, proc, calls, toStop, tripped>>
  BY DEF Boot
<1>2. Startup \subseteq Component \ disabled
  BY ServiceAssumption DEF ServiceAssumption, Startup
<1>3. /\ InstTyped' /\ byKey' \in [Component -> Inst \cup {None}] /\ KeysHold'
      /\ \A i \in Undone' : \/ i \in Undone /\ inst'[i] = inst[i]
                            \/ inst'[i].comp \in Startup /\ inst'[i].current
  BY <1>1, <1>2, KeysLaunch DEF RegistryInv, KeyInv
<1>4. Typed'
  BY <1>1, <1>3 DEF RegistryInv, Typed, KeysTyped, CallsTyped, registry, calls
<1>5. LockHolds' /\ TaskHolds'
  BY <1>1 DEF RegistryInv, KeyInv, registry, calls, LockHolds, TaskHolds, Idle
<1>6. package = "in" /\ task = Idle
  BY <1>1 DEF RegistryInv, KeyInv, TaskHolds
<1>7. Accounted'
  BY <1>1, <1>2, <1>3, <1>6
     DEF RegistryInv, Accounted, Rightful, Awaited, stopped, registry, calls, Idle
<1> QED
  BY <1>3, <1>4, <1>5, <1>7 DEF RegistryInv, KeyInv

LEMMA EnsureKeeps ==
    ASSUME RegistryInv, NEW c \in Component, EnsureStarted(c) PROVE RegistryInv'
<1>1. /\ life = "up" /\ lock = "free" /\ package = "in" /\ c \notin disabled
      /\ Launch(byKey, {c})
      /\ UNCHANGED <<registry, proc, calls, life, toStop, tripped>>
  BY DEF EnsureStarted
<1>2. /\ InstTyped' /\ byKey' \in [Component -> Inst \cup {None}] /\ KeysHold'
      /\ \A i \in Undone' : \/ i \in Undone /\ inst'[i] = inst[i]
                            \/ inst'[i].comp \in {c} /\ inst'[i].current
  BY <1>1, KeysLaunch DEF RegistryInv, KeyInv
<1>3. Typed'
  BY <1>1, <1>2 DEF RegistryInv, Typed, KeysTyped, CallsTyped, registry, calls
<1>4. LockHolds' /\ TaskHolds'
  BY <1>1 DEF RegistryInv, KeyInv, registry, calls, LockHolds, TaskHolds, Idle
<1>5. Accounted'
  BY <1>1, <1>2
     DEF RegistryInv, Accounted, Rightful, Awaited, stopped, registry, calls
<1> QED
  BY <1>2, <1>3, <1>4, <1>5 DEF RegistryInv, KeyInv

LEMMA ReloadedKeeps ==
    ASSUME RegistryInv, Reloaded PROVE RegistryInv'
<1>1. /\ task.op = "reload" /\ task.pc = "waiting" /\ OldsGone
      /\ lock' = "free" /\ task' = Idle /\ owed' = {}
      /\ UNCHANGED <<registry, proc, life, toStop, tripped>>
  BY DEF Reloaded
<1> DEFINE keys == [c \in Component |-> None]
<1>2. IF stopped THEN byKey' = keys /\ UNCHANGED inst ELSE Launch(keys, Startup)
  BY DEF Reloaded
<1>3. Undone = {}
  <2>1. \A i \in Undone : i \in Instances
    BY DEF RegistryInv, KeyInv, KeysHold, Instances, Range, Typed, KeysTyped, Undone,
           Inst, None
  <2> QED
    BY <1>1, <2>1 DEF RegistryInv, KeyInv, TaskHolds, OldsGone, Done, Undone
<1>4. package = "in" /\ lock = "task" /\ toStop = {} /\ life # "boot"
  BY <1>1 DEF RegistryInv, KeyInv, LockHolds, TaskHolds, Idle
<1>5. LockHolds' /\ TaskHolds'
  BY <1>1, <1>4 DEF RegistryInv, KeyInv, registry, LockHolds, TaskHolds, Idle
<1>6. CASE stopped
  <2>1. byKey' = keys /\ inst' = inst
    BY <1>2, <1>6
  <2>2. Typed'
    BY <1>1, <2>1 DEF RegistryInv, Typed, InstTyped, InstancesTyped, InstType, KeysTyped,
                      CallsTyped, TaskType, registry, Idle
  <2>3. Undone' = {}
    BY <1>3, <2>1 DEF Undone
  <2>4. KeysHold' /\ Accounted'
    BY <1>1, <1>4, <2>1, <2>3 DEF KeysHold, Accounted
  <2> QED
    BY <1>5, <2>2, <2>4 DEF RegistryInv, KeyInv
<1>7. CASE ~stopped
  <2>1. Startup \subseteq Component \ disabled /\ keys \in [Component -> Inst \cup {None}]
    BY ServiceAssumption DEF ServiceAssumption, Startup
  <2>2. Startable(keys, Startup) = Startup
    BY <2>1 DEF Startable
  <2>3. Launch(keys, Startup)
    BY <1>2, <1>7
  <2>4. \A c \in Component : keys[c] = None
    OBVIOUS
  <2> HIDE DEF keys
  <2>5. /\ InstTyped' /\ byKey' \in [Component -> Inst \cup {None}]
        /\ \A c \in Component : c \notin Startup => byKey'[c] = keys[c]
        /\ \A c \in Startup : byKey'[c] \in Inst /\ inst'[byKey'[c]] = Fresh(c)
        /\ \A i \in Inst :
              \/ inst'[i] = inst[i]
              \/ Free(i) /\ inst'[i] = NoInst
              \/ Free(i) /\ \E c \in Startup : byKey'[c] = i /\ inst'[i] = Fresh(c)
    BY <2>1, <2>2, <2>3, LaunchPuts DEF RegistryInv
  <2>6. NoInst.pc = "none"
    BY DEF NoInst
  <2>7. \A i \in Undone' : \E c \in Startup : byKey'[c] = i /\ inst'[i] = Fresh(c)
    BY <1>3, <2>5, <2>6 DEF Undone
  <2>8. KeysHold'
    <3>1. \A i \in Undone' : /\ inst'[i].comp \in Component /\ byKey'[inst'[i].comp] = i
                             /\ Active(i)'
      BY <2>1, <2>7, FreshIs DEF Active
    <3>2. \A c \in Component : byKey'[c] # None => inst'[byKey'[c]].comp = c
      BY <2>4, <2>5, FreshIs
    <3> QED
      BY <1>1, <1>4, <3>1, <3>2 DEF KeysHold
  <2>9. Typed'
    BY <1>1, <2>5 DEF RegistryInv, Typed, KeysTyped, CallsTyped, TaskType, registry, Idle
  <2>10. \A i \in Undone' : Rightful(i)'
    BY <1>1, <1>4, <2>1, <2>7, FreshIs DEF Rightful, registry
  <2>11. Accounted'
    BY <1>1, <1>4, <2>10 DEF Accounted, registry
  <2> QED
    BY <1>5, <2>8, <2>9, <2>11 DEF RegistryInv, KeyInv
<1> QED
  BY <1>6, <1>7

(* The calls that say what is to be so.                                    *)
LEMMA SayingKeeps ==
    ASSUME RegistryInv,
           \/ Upgrade \/ Uninstall \/ Install
           \/ \E c \in Component : Enable(c) \/ Disable(c)
    PROVE  RegistryInv'
<1>1. CASE Upgrade
  <2>1. /\ life = "up" /\ task = Idle /\ package = "in" /\ inst' = Outdated
        /\ task' = [Idle EXCEPT !.op = "reload", !.pc = "project"]
        /\ UNCHANGED <<registry, byKey, proc, lock, life, toStop, tripped, owed>>
    BY <1>1 DEF Upgrade
  <2>2. InstTyped' /\ \A j \in Inst : Quiet(j)
    BY <2>1, OutdatedIsQuiet DEF RegistryInv
  <2>3. KeysHold' /\ Undone' = Undone
    BY <2>1, <2>2, KeysQuiet DEF RegistryInv, KeyInv
  <2>4. Typed'
    BY <2>1, <2>2 DEF RegistryInv, Typed, KeysTyped, CallsTyped, TaskType, registry, Idle
  <2>5. LockHolds' /\ TaskHolds'
    BY <2>1 DEF RegistryInv, KeyInv, registry, LockHolds, TaskHolds, Idle
  <2>6. Accounted'
    BY <2>1, <2>3 DEF RegistryInv, Accounted, Awaited, registry, Idle
  <2> QED
    BY <2>3, <2>4, <2>5, <2>6 DEF RegistryInv, KeyInv
<1>2. CASE Uninstall
  <2>1. /\ life = "up" /\ task = Idle /\ package # "out" /\ inst' = Outdated
        /\ package' = "removing"
        /\ task' = [Idle EXCEPT !.op = "stop", !.pc = "project", !.comps = Component]
        /\ UNCHANGED <<app, disabled, byKey, proc, lock, life, toStop, tripped, owed>>
    BY <1>2 DEF Uninstall
  <2>2. InstTyped' /\ \A j \in Inst : Quiet(j)
    BY <2>1, OutdatedIsQuiet DEF RegistryInv
  <2>3. KeysHold' /\ Undone' = Undone
    BY <2>1, <2>2, KeysQuiet DEF RegistryInv, KeyInv
  <2>4. Typed'
    BY <2>1, <2>2 DEF RegistryInv, Typed, KeysTyped, CallsTyped, TaskType, Idle
  <2>5. LockHolds' /\ TaskHolds'
    BY <2>1 DEF RegistryInv, KeyInv, LockHolds, TaskHolds, Idle
  <2>6. Accounted'
    BY <2>1, <2>3 DEF RegistryInv, Accounted, Awaited, KeysHold, Idle
  <2> QED
    BY <2>3, <2>4, <2>5, <2>6 DEF RegistryInv, KeyInv
<1>3. CASE Install
  <2>1. /\ life = "up" /\ task = Idle /\ package = "out" /\ package' = "in"
        /\ disabled' = {}
        /\ UNCHANGED <<app, inst, byKey, proc, calls, life, toStop, tripped>>
    BY <1>3 DEF Install
  <2>2. KeysHold' /\ Undone' = Undone
    BY <2>1, SameIsQuiet, KeysQuiet DEF RegistryInv, KeyInv
  <2>3. Typed'
    BY <2>1 DEF RegistryInv, Typed, InstTyped, InstancesTyped, InstType, KeysTyped,
                CallsTyped, calls
  <2>4. LockHolds' /\ TaskHolds'
    BY <2>1 DEF RegistryInv, KeyInv, calls, LockHolds, TaskHolds, Idle
  <2>5. Accounted'
    BY <2>1, <2>2 DEF RegistryInv, Accounted, calls
  <2> QED
    BY <2>2, <2>3, <2>4, <2>5 DEF RegistryInv, KeyInv
<1>4. ASSUME NEW c \in Component, Enable(c) PROVE RegistryInv'
  <2>1. /\ life = "up" /\ task = Idle /\ package = "in" /\ disabled' = disabled \ {c}
        /\ UNCHANGED <<app, package, inst, byKey, proc, calls, life, toStop, tripped>>
    BY <1>4 DEF Enable
  <2>2. KeysHold' /\ Undone' = Undone
    BY <2>1, SameIsQuiet, KeysQuiet DEF RegistryInv, KeyInv
  <2>3. Typed'
    BY <2>1 DEF RegistryInv, Typed, InstTyped, InstancesTyped, InstType, KeysTyped,
                CallsTyped, calls
  <2>4. LockHolds' /\ TaskHolds'
    BY <2>1 DEF RegistryInv, KeyInv, calls, LockHolds, TaskHolds, Idle
  <2>5. Accounted'
    BY <2>1, <2>2 DEF RegistryInv, Accounted, Rightful, Awaited, stopped, calls
  <2> QED
    BY <2>2, <2>3, <2>4, <2>5 DEF RegistryInv, KeyInv
<1>5. ASSUME NEW c \in Component, Disable(c) PROVE RegistryInv'
  <2>1. /\ life = "up" /\ task = Idle /\ package = "in"
        /\ disabled' = disabled \cup {c}
        /\ task' = [Idle EXCEPT !.op = "stop", !.pc = "lock", !.comps = {c}]
        /\ UNCHANGED <<app, package, inst, byKey, proc, lock, life, toStop, tripped,
                       owed>>
    BY <1>5 DEF Disable
  <2>2. KeysHold' /\ Undone' = Undone
    BY <2>1, SameIsQuiet, KeysQuiet DEF RegistryInv, KeyInv
  <2>3. Typed'
    BY <2>1 DEF RegistryInv, Typed, InstTyped, InstancesTyped, InstType, KeysTyped,
                CallsTyped, TaskType, Idle
  <2>4. LockHolds' /\ TaskHolds'
    BY <2>1 DEF RegistryInv, KeyInv, LockHolds, TaskHolds, Idle
  <2>5. task'.op = "stop" /\ task'.comps = {c} /\ task.op = "none"
    BY <2>1 DEF Idle
  <2>6. Accounted'
    BY <2>1, <2>2, <2>5 DEF RegistryInv, Accounted, Rightful, Awaited, stopped
  <2> QED
    BY <2>2, <2>3, <2>4, <2>6 DEF RegistryInv, KeyInv
<1> QED
  BY <1>1, <1>2, <1>3, <1>4, <1>5

(* The steps of the call that carries it out.                              *)
LEMMA ReturnIs ==
    ASSUME NEW gone, NEW left, Return(gone, left), task \in TaskType
    PROVE  /\ lock' = "free" /\ owed' = (owed \ gone) \cup left
           /\ task'.op = task.op /\ task'.pc = "lock" /\ task'.olds = {}
           /\ task'.comps = task.comps \ (gone \cup left)
           /\ task.failed \/ left # {} => task'.failed
           /\ task' \in TaskType
<1> DEFINE b == task.failed \/ left # {}
<1>1. task' = [task EXCEPT !.comps = @ \ (gone \cup left), !.olds = {}, !.pc = "lock",
                           !.failed = b]
      /\ lock' = "free" /\ owed' = (owed \ gone) \cup left
  BY DEF Return
<1>2. b \in BOOLEAN
  BY DEF TaskType
<1> HIDE DEF b
<1>3. /\ task'.op = task.op /\ task'.pc = "lock" /\ task'.olds = {}
      /\ task'.comps = task.comps \ (gone \cup left) /\ task'.failed = b
      /\ task' \in TaskType
  BY <1>1, <1>2 DEF TaskType
<1> QED
  BY <1>1, <1>3 DEF b

(* A component whose instance is seen to be done has none at work.         *)
LEMMA SeenDone ==
    ASSUME RegistryInv, NEW c \in Component, byKey[c] = None \/ Done(byKey[c])
    PROVE  \A i \in Undone : inst[i].comp # c
BY DEF RegistryInv, KeyInv, KeysHold, Undone, Done, Inst, None

LEMMA ReturnKeeps ==
    ASSUME RegistryInv, task.op = "stop", lock # "stop",
           NEW gone, gone \subseteq Component, NEW left, left \subseteq Component,
           Return(gone, left), \A i \in Undone : inst[i].comp \notin gone,
           UNCHANGED <<registry, inst, byKey, proc, life, toStop, tripped>>
    PROVE  RegistryInv'
<1>1. /\ lock' = "free" /\ owed' = (owed \ gone) \cup left
      /\ task'.op = task.op /\ task'.pc = "lock"
      /\ task'.comps = task.comps \ (gone \cup left)
      /\ task.failed \/ left # {} => task'.failed
      /\ task' \in TaskType
  BY ReturnIs DEF RegistryInv, Typed, CallsTyped
<1>2. KeysHold' /\ Undone' = Undone
  BY SameIsQuiet, KeysQuiet DEF RegistryInv, KeyInv
<1>3. Typed'
  BY <1>1 DEF RegistryInv, Typed, InstTyped, InstancesTyped, InstType, KeysTyped,
              CallsTyped, registry
<1>4. LockHolds' /\ TaskHolds'
  BY <1>1 DEF RegistryInv, KeyInv, registry, LockHolds, TaskHolds, Idle
<1>5. \A i \in Undone : Rightful(i)' = Rightful(i) /\ inst'[i].comp = inst[i].comp
  BY DEF Rightful, registry
<1>6. stopped' = stopped /\ package' = package
  BY DEF stopped, registry
<1>7. Accounted'
  BY <1>1, <1>2, <1>5, <1>6 DEF RegistryInv, Accounted, Awaited
<1> QED
  BY <1>2, <1>3, <1>4, <1>7 DEF RegistryInv, KeyInv

LEMMA TaskKeeps ==
    ASSUME RegistryInv, TaskStep \/ CallerGivesUp
    PROVE  RegistryInv'
<1>1. ASSUME NEW revoked, ProjectGrants(revoked) PROVE RegistryInv'
  <2>1. /\ task.pc = "project" /\ task' = [task EXCEPT !.pc = "lock"]
        /\ \/ inst' = AskStop({i \in Instances : Active(i)})
           \/ UNCHANGED inst
        /\ UNCHANGED <<registry, byKey, proc, lock, life, toStop, tripped, owed>>
    BY <1>1 DEF ProjectGrants
  <2>2. InstTyped' /\ \A j \in Inst : Quiet(j) /\ Unaged(j)
    <3>1. CASE UNCHANGED inst
      BY <3>1, SameIsQuiet DEF RegistryInv, Typed, InstTyped, InstancesTyped, InstType
    <3>2. CASE inst' = AskStop({i \in Instances : Active(i)})
      BY <3>2, AskIsQuiet DEF RegistryInv
    <3> QED
      BY <2>1, <3>1, <3>2
  <2>3. KeysHold' /\ Undone' = Undone
    BY <2>1, <2>2, KeysQuiet DEF RegistryInv, KeyInv
  <2>4. /\ task'.op = task.op /\ task'.pc = "lock" /\ task'.comps = task.comps
        /\ task'.failed = task.failed /\ task' \in TaskType /\ task.op # "none"
    BY <2>1 DEF RegistryInv, Typed, CallsTyped, TaskType, KeyInv, TaskHolds
  <2>5. Typed'
    BY <2>1, <2>2, <2>4 DEF RegistryInv, Typed, KeysTyped, CallsTyped, registry
  <2>6. LockHolds' /\ TaskHolds'
    BY <2>1, <2>4 DEF RegistryInv, KeyInv, registry, LockHolds, TaskHolds, Idle
  <2>7. Accounted'
    BY <2>1, <2>2, <2>3, <2>4, AccountedStays
       DEF RegistryInv, Quiet, Unaged, stopped, registry, Undone
  <2> QED
    BY <2>3, <2>5, <2>6, <2>7 DEF RegistryInv, KeyInv
<1>2. CASE Returned
  <2>1. /\ task.pc = "lock" /\ task.op = "stop" /\ task.comps = {} /\ task' = Idle
        /\ package' = IF package = "removing" /\ ~task.failed THEN "out" ELSE package
        /\ UNCHANGED <<app, disabled, inst, byKey, proc, lock, life, toStop, tripped,
                       owed>>
    BY <1>2 DEF Returned, AllStopped
  <2>2. KeysHold' /\ Undone' = Undone
    BY <2>1, SameIsQuiet, KeysQuiet DEF RegistryInv, KeyInv
  <2>3. Typed'
    BY <2>1 DEF RegistryInv, Typed, InstTyped, InstancesTyped, InstType, KeysTyped,
                CallsTyped, TaskType, Idle
  <2>4. LockHolds' /\ TaskHolds'
    BY <2>1 DEF RegistryInv, KeyInv, LockHolds, TaskHolds, Idle
  <2>5. \A i \in Undone : ~Awaited(i)
    BY <2>1 DEF Awaited
  <2>6. Accounted'
    <3>1. ASSUME ~stopped', NEW i \in Undone
          PROVE  (inst[i].comp \in owed \/ Rightful(i) \/ Awaited(i))'
      BY <2>1, <2>5, <3>1 DEF RegistryInv, Accounted, Rightful, stopped
    <3>2. package' = "out" => Undone = {}
      BY <2>1, <2>5 DEF RegistryInv, Accounted
    <3>3. task'.op # "stop"
      BY <2>1 DEF Idle
    <3> QED
      BY <2>2, <3>1, <3>2, <3>3 DEF Accounted
  <2> QED
    BY <2>2, <2>3, <2>4, <2>6 DEF RegistryInv, KeyInv
<1>3. CASE Reload
  <2>1. /\ task.op = "reload" /\ task.pc = "lock" /\ lock = "free" /\ ~stopped
        /\ lock' = "task" /\ inst' = AskStop(Instances)
        /\ task' = [task EXCEPT !.pc = "waiting", !.olds = Instances]
        /\ UNCHANGED <<registry, byKey, proc, life, toStop, tripped, owed>>
    BY <1>3 DEF Reload
  <2>2. InstTyped' /\ \A j \in Inst : Quiet(j) /\ Unaged(j)
    BY <2>1, AskIsQuiet DEF RegistryInv
  <2>3. KeysHold' /\ Undone' = Undone /\ Instances' = Instances
    BY <2>1, <2>2, KeysQuiet DEF RegistryInv, KeyInv
  <2>4. Instances \subseteq Inst
    BY DEF Instances, Range, RegistryInv, Typed, KeysTyped
  <2>5. /\ task'.op = task.op /\ task'.pc = "waiting" /\ task'.comps = task.comps
        /\ task'.failed = task.failed /\ task'.olds = Instances
        /\ task' \in TaskType
    BY <2>1, <2>4 DEF RegistryInv, Typed, CallsTyped, TaskType
  <2>6. Typed'
    BY <2>1, <2>2, <2>5 DEF RegistryInv, Typed, KeysTyped, CallsTyped, registry
  <2>7. LockHolds' /\ TaskHolds'
    BY <2>1, <2>3, <2>5 DEF RegistryInv, KeyInv, registry, LockHolds, TaskHolds, Idle
  <2>8. Accounted'
    BY <2>1, <2>2, <2>3, <2>5, AccountedStays
       DEF RegistryInv, Quiet, Unaged, stopped, registry, Undone
  <2> QED
    BY <2>3, <2>6, <2>7, <2>8 DEF RegistryInv, KeyInv
<1>4. CASE Reloaded
  BY <1>4, ReloadedKeeps
<1>5. CASE ReloadStops \/ (CallerGivesUp /\ task.op # "stop")
  <2>1. /\ task.op # "stop" /\ task.op # "none" /\ lock # "stop"
        /\ lock' = "free" /\ task' = Idle /\ owed' = Component
        /\ UNCHANGED <<registry, inst, byKey, proc, life, toStop, tripped>>
    BY <1>5 DEF ReloadStops, CallerGivesUp, RegistryInv, KeyInv, LockHolds, TaskHolds,
                Idle
  <2>2. KeysHold' /\ Undone' = Undone
    BY <2>1, SameIsQuiet, KeysQuiet DEF RegistryInv, KeyInv
  <2>3. Typed'
    BY <2>1 DEF RegistryInv, Typed, InstTyped, InstancesTyped, InstType, KeysTyped,
                CallsTyped, TaskType, registry, Idle
  <2>4. LockHolds' /\ TaskHolds'
    BY <2>1 DEF RegistryInv, KeyInv, registry, LockHolds, TaskHolds, Idle
  <2>5. task'.op # "stop" /\ \A i \in Undone : inst[i].comp \in Component
    BY <2>1 DEF RegistryInv, KeyInv, KeysHold, Idle
  <2>6. Accounted'
    BY <2>1, <2>2, <2>5 DEF RegistryInv, Accounted, registry
  <2> QED
    BY <2>2, <2>3, <2>4, <2>6 DEF RegistryInv, KeyInv
<1>6. ASSUME NEW c \in Component, StopComponent(c) PROVE RegistryInv'
  <2>1. /\ task.op = "stop" /\ task.pc = "lock" /\ lock = "free" /\ c \in task.comps
        /\ UNCHANGED <<registry, byKey, proc, life, toStop, tripped>>
    BY <1>6 DEF StopComponent
  <2>2. CASE byKey[c] = None
    <3>1. Return({c}, {}) /\ UNCHANGED inst
      BY <1>6, <2>2 DEF StopComponent
    <3>2. \A i \in Undone : inst[i].comp \notin {c}
      BY <2>2, SeenDone
    <3> QED
      BY <2>1, <3>1, <3>2, ReturnKeeps
  <2>3. CASE byKey[c] # None
    <3>1. /\ lock' = "task" /\ inst' = AskStop({byKey[c]}) /\ UNCHANGED owed
          /\ task' = [task EXCEPT !.olds = {byKey[c]},
                        !.pc = IF inst[byKey[c]].handle THEN "stopping" ELSE "waiting"]
      BY <1>6, <2>3 DEF StopComponent
    <3>2. InstTyped' /\ \A j \in Inst : Quiet(j) /\ Unaged(j)
      BY <3>1, AskIsQuiet DEF RegistryInv
    <3>3. KeysHold' /\ Undone' = Undone
      BY <2>1, <3>2, KeysQuiet DEF RegistryInv, KeyInv
    <3>4. byKey[c] \in Inst
      BY <2>3 DEF RegistryInv, Typed, KeysTyped
    <3>5. /\ task'.op = "stop" /\ task'.pc \in {"stopping", "waiting"}
          /\ task'.comps = task.comps /\ task'.failed = task.failed
          /\ task'.olds = {byKey[c]} /\ task' \in TaskType
      BY <2>1, <3>1, <3>4 DEF RegistryInv, Typed, CallsTyped, TaskType
    <3>6. Typed'
      BY <2>1, <3>1, <3>2, <3>5 DEF RegistryInv, Typed, KeysTyped, CallsTyped, registry
    <3>7. LockHolds' /\ TaskHolds'
      <4>1. task' # Idle /\ task # Idle
        BY <2>1, <3>5 DEF Idle
      <4> QED
        BY <2>1, <2>3, <3>1, <3>5, <4>1
           DEF RegistryInv, KeyInv, registry, LockHolds, TaskHolds
    <3>8. Accounted'
      BY <2>1, <3>1, <3>2, <3>3, <3>5, AccountedStays
         DEF RegistryInv, Quiet, Unaged, stopped, registry, Undone
    <3> QED
      BY <3>3, <3>6, <3>7, <3>8 DEF RegistryInv, KeyInv
  <2> QED
    BY <2>2, <2>3
<1>7. CASE StopsUnit
  <2>1. /\ task.pc = "stopping" /\ task.op = "stop"
        /\ UNCHANGED <<registry, byKey, lock, life, toStop, tripped, owed>>
    BY <1>7 DEF StopsUnit, RegistryInv, KeyInv, TaskHolds
  <2>2. PICK o \in Component : byKey[o] # None /\ task.olds = {byKey[o]}
    BY <2>1 DEF RegistryInv, KeyInv, TaskHolds, Typed, CallsTyped, TaskType
  <2>3. inst[byKey[o]].comp = o
    BY <2>2 DEF RegistryInv, KeyInv, KeysHold
  <2>4. /\ StopUnit(inst, o)
        /\ \/ task' = [task EXCEPT !.pc = "waiting"]
           \/ task' = [task EXCEPT !.pc = "waiting", !.failed = TRUE]
    BY <1>7, <2>2, <2>3 DEF StopsUnit, StopUnit
  <2>5. InstTyped' /\ proc' \in [Component -> Inst \cup {None}]
        /\ \A j \in Inst : Quiet(j) /\ Unaged(j)
    BY <2>4, UnitOfIsQuiet DEF RegistryInv
  <2>6. KeysHold' /\ Undone' = Undone
    BY <2>1, <2>5, KeysQuiet DEF RegistryInv, KeyInv
  <2>7. /\ task'.op = task.op /\ task'.pc = "waiting" /\ task'.comps = task.comps
        /\ (task.failed => task'.failed) /\ task'.olds = task.olds
        /\ task' \in TaskType
    BY <2>4 DEF RegistryInv, Typed, CallsTyped, TaskType
  <2>8. Typed'
    BY <2>1, <2>5, <2>7 DEF RegistryInv, Typed, KeysTyped, CallsTyped, registry
  <2>9. LockHolds' /\ TaskHolds'
    <3>1. task' # Idle /\ task # Idle
      BY <2>1, <2>7 DEF Idle
    <3> QED
      BY <2>1, <2>7, <3>1 DEF RegistryInv, KeyInv, registry, LockHolds, TaskHolds
  <2>10. Accounted'
    BY <2>1, <2>5, <2>6, <2>7, AccountedStays
       DEF RegistryInv, Quiet, Unaged, stopped, registry, Undone
  <2> QED
    BY <2>6, <2>8, <2>9, <2>10 DEF RegistryInv, KeyInv
<1>8. CASE ComponentStopped \/ (CallerGivesUp /\ task.op = "stop")
  <2>1. /\ task.op = "stop" /\ task.pc = "waiting"
        /\ UNCHANGED <<registry, inst, byKey, proc, life, toStop, tripped>>
    BY <1>8 DEF ComponentStopped, CallerGivesUp
  <2>2. PICK o \in Component : byKey[o] # None /\ task.olds = {byKey[o]}
    BY <2>1 DEF RegistryInv, KeyInv, TaskHolds, Typed, CallsTyped, TaskType
  <2>3. {inst[i].comp : i \in task.olds} = {o}
    BY <2>2 DEF RegistryInv, KeyInv, KeysHold
  <2>4. lock # "stop"
    BY <2>1 DEF RegistryInv, KeyInv, LockHolds
  <2>5. CASE ComponentStopped
    <3>1. Return({o}, {}) /\ Done(byKey[o])
      BY <2>2, <2>3, <2>5 DEF ComponentStopped, OldsGone
    <3>2. \A i \in Undone : inst[i].comp \notin {o}
      BY <3>1, SeenDone
    <3> QED
      BY <2>1, <2>4, <3>1, <3>2, ReturnKeeps
  <2>6. CASE CallerGivesUp /\ task.op = "stop"
    <3>1. Return({}, {o})
      BY <2>3, <2>6 DEF CallerGivesUp
    <3> QED
      BY <2>1, <2>4, <3>1, ReturnKeeps
  <2> QED
    BY <1>8, <2>5, <2>6
<1> QED
  BY <1>1, <1>2, <1>3, <1>4, <1>5, <1>6, <1>7, <1>8 DEF TaskStep

LEMMA LifeKeeps ==
    ASSUME RegistryInv, MarkStopped \/ LifeStep
    PROVE  RegistryInv'
<1>1. CASE MarkStopped \/ Cancel \/ Join
  <2>1. /\ life # "boot" /\ life' \in {"marked", "cancelled", "stopped"}
        /\ stopped => stopped'
        /\ \/ lock' = lock /\ life # "stopping"
           \/ life = "stopping" /\ toStop = {} /\ lock' = "free"
        /\ UNCHANGED <<unchanged, inst, proc, toStop>>
    BY <1>1 DEF MarkStopped, Cancel, Join, stopped
  <2>2. KeysHold' /\ Undone' = Undone
    BY <2>1, SameIsQuiet, KeysQuiet DEF RegistryInv, KeyInv, unchanged
  <2>3. Typed'
    BY <2>1 DEF RegistryInv, Typed, InstTyped, InstancesTyped, InstType, KeysTyped,
                CallsTyped, unchanged, registry
  <2>4. LockHolds'
    BY <2>1 DEF RegistryInv, KeyInv, unchanged, LockHolds
  <2>6. TaskHolds'
    BY <2>1, <2>2 DEF RegistryInv, KeyInv, unchanged, registry, TaskHolds, Instances,
                      Range
  <2>5. Accounted'
    BY <2>1, <2>2, AccountedStays DEF RegistryInv, unchanged, registry
  <2> QED
    BY <2>2, <2>3, <2>4, <2>5, <2>6 DEF RegistryInv, KeyInv
<1>2. CASE LockShutdown
  <2>1. /\ life = "cancelled" /\ lock = "free" /\ lock' = "stop" /\ life' = "stopping"
        /\ toStop' = {c \in Component : byKey[c] # None}
        /\ UNCHANGED <<unchanged, inst, proc>>
    BY <1>2 DEF LockShutdown
  <2>2. KeysHold' /\ Undone' = Undone
    BY <2>1 DEF RegistryInv, KeyInv, unchanged, KeysHold, Undone, Active
  <2>3. Typed'
    BY <2>1 DEF RegistryInv, Typed, InstTyped, InstancesTyped, InstType, KeysTyped,
                CallsTyped, unchanged, registry
  <2>4. LockHolds' /\ TaskHolds'
    BY <2>1 DEF RegistryInv, KeyInv, unchanged, registry, LockHolds, TaskHolds, Idle
  <2>5. Accounted'
    BY <2>1, <2>2, AccountedStays DEF RegistryInv, unchanged, registry, stopped
  <2> QED
    BY <2>2, <2>3, <2>4, <2>5 DEF RegistryInv, KeyInv
<1>3. ASSUME NEW c \in Component, ShutDown(c) PROVE RegistryInv'
  <2>1. /\ c \in toStop /\ toStop' = toStop \ {c}
        /\ \/ StopUnit(AskStop({byKey[c]}), c)
           \/ inst' = AskStop({byKey[c]}) /\ UNCHANGED proc
        /\ UNCHANGED <<unchanged, lock, life>>
    BY <1>3 DEF ShutDown
  <2>2. InstTyped' /\ proc' \in [Component -> Inst \cup {None}]
        /\ \A j \in Inst : Quiet(j) /\ Unaged(j)
    BY <2>1, AskIsQuiet, UnitIsQuiet DEF RegistryInv, Typed, KeysTyped
  <2>3. KeysHold' /\ Undone' = Undone
    BY <2>1, <2>2, KeysQuiet DEF RegistryInv, KeyInv, unchanged
  <2>4. Typed'
    BY <2>1, <2>2 DEF RegistryInv, Typed, KeysTyped, CallsTyped, unchanged, registry
  <2>5. LockHolds' /\ TaskHolds'
    BY <2>1 DEF RegistryInv, KeyInv, unchanged, registry, LockHolds, TaskHolds, Idle
  <2>6. Accounted'
    BY <2>1, <2>2, <2>3, AccountedStays
       DEF RegistryInv, Quiet, Unaged, stopped, unchanged, registry, Undone
  <2> QED
    BY <2>3, <2>4, <2>5, <2>6 DEF RegistryInv, KeyInv
<1> QED
  BY <1>1, <1>2, <1>3 DEF LifeStep

LEMMA OutsideKeeps ==
    ASSUME RegistryInv,
           Tick \/ \E c \in Component, how \in {"well", "badly"} : ProcessEnds(c, how)
    PROVE  RegistryInv'
<1>1. /\ Typed' /\ UNCHANGED <<registry, byKey, calls, life, toStop>>
      /\ \A j \in Inst : Quiet(j) /\ Unaged(j)
  <2>1. CASE Tick
    BY <2>1, TickIsQuiet DEF RegistryInv, others, calls
  <2>2. ASSUME NEW c \in Component, NEW how \in {"well", "badly"}, ProcessEnds(c, how)
        PROVE  /\ Typed' /\ UNCHANGED <<registry, byKey, calls, life, toStop>>
               /\ \A j \in Inst : Quiet(j) /\ Unaged(j)
    <3>1. UNCHANGED <<registry, byKey, calls, life, toStop>>
      BY <2>2 DEF ProcessEnds
    <3> QED
      BY <2>2, <3>1, EndIsQuiet DEF RegistryInv
  <2> QED
    BY <2>1, <2>2
<1>2. KeysHold' /\ Undone' = Undone
  BY <1>1, KeysQuiet DEF RegistryInv, KeyInv
<1>3. LockHolds' /\ TaskHolds'
  BY <1>1, KeysQuiet
     DEF RegistryInv, KeyInv, registry, calls, LockHolds, TaskHolds, Idle
<1>4. Accounted'
  BY <1>1, <1>2, AccountedStays
     DEF RegistryInv, Quiet, Unaged, stopped, registry, calls, Undone
<1> QED
  BY <1>1, <1>2, <1>3, <1>4 DEF RegistryInv, KeyInv

LEMMA NextCases ==
    ASSUME Next
    PROVE  \/ Boot \/ MarkStopped \/ LifeStep \/ TaskStep \/ CallerGivesUp
           \/ Tick \/ \E c \in Component, how \in {"well", "badly"} : ProcessEnds(c, how)
           \/ \E i \in Inst : Supervise(i)
           \/ \E c \in Component : EnsureStarted(c)
           \/ Upgrade \/ Uninstall \/ Install
           \/ \E c \in Component : Enable(c) \/ Disable(c)
BY DEF Next

LEMMA RegistryStep ==
    ASSUME RegistryInv, [Next]_vars PROVE RegistryInv'
<1>1. CASE UNCHANGED vars
  <2>1. KeysHold' /\ Undone' = Undone
    BY <1>1, SameIsQuiet, KeysQuiet DEF vars, RegistryInv, KeyInv
  <2>2. Typed'
    BY <1>1 DEF vars, RegistryInv, Typed, InstTyped, InstancesTyped, InstType, KeysTyped,
                CallsTyped
  <2>3. LockHolds' /\ TaskHolds'
    BY <1>1 DEF vars, RegistryInv, KeyInv, LockHolds, TaskHolds, Instances, Range, Idle
  <2>4. Accounted'
    BY <1>1, <2>1, AccountedStays DEF vars, RegistryInv, stopped
  <2> QED
    BY <2>1, <2>2, <2>3, <2>4 DEF RegistryInv, KeyInv
<1> QED
  BY <1>1, NextCases, BootKeeps, EnsureKeeps, SuperviseKeeps, SayingKeeps, TaskKeeps,
     LifeKeeps, OutsideKeeps


----------------------------------------------------------------------------
(* Of the steps that are not the supervisors' own.                         *)
Anew(j) ==
    /\ Free(j) /\ \A d \in Component : proc'[d] # j
    /\ inst'[j] = NoInst \/ \E c \in Component : inst'[j] = Fresh(c)
Bystander(j) ==
    /\ Quiet(j) /\ inst'[j].exit = inst[j].exit
    /\ \A d \in Component : proc'[d] = j => proc[d] = j
    /\ \/ inst'[j].ended = inst[j].ended
       \/ \E d \in Component : proc[d] = j /\ proc'[d] = None

LEMMA SameBystands ==
    ASSUME UNCHANGED <<inst, proc>> PROVE \A j \in Inst : Bystander(j)
BY DEF Bystander, Quiet

LEMMA AskBystands ==
    ASSUME Typed, NEW S, inst' = AskStop(S), UNCHANGED proc
    PROVE  \A j \in Inst : Bystander(j)
BY AskIsQuiet DEF Bystander

LEMMA LaunchBystands ==
    ASSUME Typed, NEW keys \in [Component -> Inst \cup {None}], NEW S,
           S \subseteq Component, Launch(keys, S), UNCHANGED proc
    PROVE  \A j \in Inst : Bystander(j) \/ Anew(j)
<1>1. \A j \in Inst :
          \/ inst'[j] = inst[j]
          \/ Free(j) /\ inst'[j] = NoInst
          \/ Free(j) /\ \E c \in Startable(keys, S) : inst'[j] = Fresh(c)
  BY LaunchPuts
<1>2. Startable(keys, S) \subseteq Component
  BY DEF Startable
<1> QED
  BY <1>1, <1>2 DEF Bystander, Quiet, Anew, Free

LEMMA OthersBystand ==
    ASSUME RegistryInv, [Next]_vars
    PROVE  \/ \E i \in Inst : Supervise(i)
           \/ \A j \in Inst : Bystander(j) \/ Anew(j)
<1>1. CASE \/ Upgrade \/ Uninstall
  <2>1. inst' = Outdated /\ UNCHANGED proc
    BY <1>1 DEF Upgrade, Uninstall
  <2> QED
    BY <2>1, OutdatedIsQuiet DEF RegistryInv, Bystander
<1>2. CASE \/ Install \/ Returned \/ ReloadStops \/ ComponentStopped \/ CallerGivesUp
           \/ MarkStopped \/ Cancel \/ LockShutdown \/ Join \/ UNCHANGED vars
           \/ \E c \in Component : Enable(c) \/ Disable(c)
  <2>1. UNCHANGED <<inst, proc>>
    BY <1>2 DEF Install, Returned, ReloadStops, ComponentStopped, CallerGivesUp,
                MarkStopped, Cancel, LockShutdown, Join, Enable, Disable, vars
  <2> QED
    BY <2>1, SameBystands
<1>3. CASE ProjectGrants(TRUE) \/ ProjectGrants(FALSE)
  <2>1. UNCHANGED proc /\ (UNCHANGED inst
                           \/ inst' = AskStop({i \in Instances : Active(i)}))
    BY <1>3 DEF ProjectGrants
  <2> QED
    BY <2>1, SameBystands, AskBystands DEF RegistryInv
<1>4. CASE Reload \/ \E c \in Component : StopComponent(c)
  <2>1. UNCHANGED proc /\ (UNCHANGED inst \/ \E S : inst' = AskStop(S))
    BY <1>4 DEF Reload, StopComponent
  <2> QED
    BY <2>1, SameBystands, AskBystands DEF RegistryInv
<1>5. CASE Boot \/ Reloaded \/ \E c \in Component : EnsureStarted(c)
  <2>1. /\ UNCHANGED proc
        /\ \/ UNCHANGED inst
           \/ Launch([c \in Component |-> None], Startup)
           \/ Launch(byKey, Startup)
           \/ \E c \in Component : Launch(byKey, {c})
    BY <1>5 DEF Boot, Reloaded, EnsureStarted
  <2>2. Startup \subseteq Component
    BY ServiceAssumption DEF ServiceAssumption, Startup
  <2>3. /\ [c \in Component |-> None] \in [Component -> Inst \cup {None}]
        /\ byKey \in [Component -> Inst \cup {None}]
    BY DEF RegistryInv, Typed, KeysTyped
  <2>4. CASE UNCHANGED inst
    BY <2>1, <2>4, SameBystands
  <2>5. CASE Launch([c \in Component |-> None], Startup)
    BY <2>1, <2>2, <2>3, <2>5, LaunchBystands DEF RegistryInv
  <2>6. CASE Launch(byKey, Startup)
    BY <2>1, <2>2, <2>3, <2>6, LaunchBystands DEF RegistryInv
  <2>7. ASSUME NEW c \in Component, Launch(byKey, {c})
        PROVE  \A j \in Inst : Bystander(j) \/ Anew(j)
    BY <2>1, <2>3, <2>7, LaunchBystands DEF RegistryInv
  <2> QED
    BY <2>1, <2>4, <2>5, <2>6, <2>7
<1>6. CASE StopsUnit
  <2>1. task.pc = "stopping" /\ task.op = "stop"
    BY <1>6 DEF StopsUnit, RegistryInv, KeyInv, TaskHolds
  <2>2. PICK o \in Component : byKey[o] # None /\ task.olds = {byKey[o]}
    BY <2>1 DEF RegistryInv, KeyInv, TaskHolds, Typed, CallsTyped, TaskType
  <2>3. StopUnit(inst, o)
    BY <1>6, <2>2 DEF StopsUnit, StopUnit, RegistryInv, KeyInv, KeysHold
  <2> QED
    BY <2>3, UnitOfIsQuiet DEF RegistryInv, Bystander, Typed, KeysTyped, Inst, None
<1>7. ASSUME NEW c \in Component, ShutDown(c)
      PROVE  \A j \in Inst : Bystander(j) \/ Anew(j)
  <2>1. \/ StopUnit(AskStop({byKey[c]}), c)
        \/ inst' = AskStop({byKey[c]}) /\ UNCHANGED proc
    BY <1>7 DEF ShutDown
  <2>2. CASE StopUnit(AskStop({byKey[c]}), c)
    BY <2>2, UnitIsQuiet DEF RegistryInv, Bystander, Typed, KeysTyped, Inst, None
  <2> QED
    BY <2>1, <2>2, AskBystands DEF RegistryInv
<1>8. CASE Tick
  BY <1>8, TickIsQuiet DEF RegistryInv, Bystander, Alike
<1>9. ASSUME NEW c \in Component, NEW how \in {"well", "badly"}, ProcessEnds(c, how)
      PROVE  \A j \in Inst : Bystander(j) \/ Anew(j)
  BY <1>9, EndIsQuiet DEF RegistryInv, Bystander, Typed, KeysTyped, Inst, None
<1> QED
  BY <1>1, <1>2, <1>3, <1>4, <1>5, <1>6, <1>7, <1>8, <1>9 DEF Next, TaskStep, LifeStep

LEMMA Steady ==
    ASSUME RegistryInv, [Next]_vars
    PROVE  app' = app /\ (cancelled => cancelled') /\ (tripped => tripped')
<1>1. ASSUME NEW i \in Inst, Supervise(i)
      PROVE  app' = app /\ (cancelled => cancelled') /\ (tripped => tripped')
  BY <1>1, SuperviseWorks DEF RegistryInv, KeyInv, others, registry, cancelled
<1>2. CASE UNCHANGED <<app, life, tripped>>
  BY <1>2 DEF cancelled
<1>3. Upgrade \/ Uninstall \/ Install \/ UNCHANGED vars
      => UNCHANGED <<app, life, tripped>>
  BY DEF Upgrade, Uninstall, Install, registry, vars
<1>4. Tick => UNCHANGED <<app, life, tripped>>
  BY TickIsQuiet DEF others, registry, RegistryInv
<1>5. (\E c \in Component : EnsureStarted(c) \/ Enable(c) \/ Disable(c))
      => UNCHANGED <<app, life, tripped>>
  BY DEF EnsureStarted, Enable, Disable, registry
<1>6. (\E c \in Component, how \in {"well", "badly"} : ProcessEnds(c, how))
      => UNCHANGED <<app, life, tripped>>
  BY DEF ProcessEnds, registry
<1>7. CASE Boot
  BY <1>7 DEF Boot, registry, cancelled
<1>8. (\E revoked \in BOOLEAN : ProjectGrants(revoked)) \/ Returned \/ Reload
      => UNCHANGED <<app, life, tripped>>
  BY DEF ProjectGrants, Returned, Reload, registry
<1>9. Reloaded \/ ReloadStops \/ StopsUnit => UNCHANGED <<app, life, tripped>>
  BY DEF Reloaded, ReloadStops, StopsUnit, registry
<1>10. (\E c \in Component : StopComponent(c)) \/ ComponentStopped \/ CallerGivesUp
       => UNCHANGED <<app, life, tripped>>
  BY DEF StopComponent, ComponentStopped, CallerGivesUp, registry
<1>11. ASSUME MarkStopped \/ LifeStep
       PROVE  app' = app /\ (cancelled => cancelled') /\ (tripped => tripped')
  <2>1. UNCHANGED unchanged /\ (cancelled => cancelled')
    BY <1>11 DEF MarkStopped, LifeStep, Cancel, LockShutdown, ShutDown, Join, cancelled
  <2> QED
    BY <2>1 DEF unchanged, registry
<1> QED
  BY <1>1, <1>2, <1>3, <1>4, <1>5, <1>6, <1>7, <1>8, <1>9, <1>10, <1>11, NextCases
     DEF TaskStep


----------------------------------------------------------------------------
(* A Vital service that ends unasked has tripped Safety.                   *)
Excused(i) ==
    inst[i].stop \/ inst[i].comp \notin Vital \ app

LEMMA VitalWorks ==
    ASSUME RegistryInv, VitalInv, NEW i \in Inst, Supervise(i), ~cancelled
    PROVE  /\ \A j \in Inst \ {i} : SameKey(j)
           /\ inst'[i].pc = "drain" => inst'[i].stop
           /\ inst'[i].pc = "done" => Excused(i) \/ tripped'
           /\ SameOwner(i)
<1>1. Worked(i)
  BY SuperviseWorks DEF RegistryInv, KeyInv
<1>2. (\A j \in Inst \ {i} : SameKey(j)) /\ SameOwner(i)
  BY <1>1 DEF Worked, Ends
<1>3. CASE StartUnit(i) \/ Started(i) \/ WakeUp(i)
  BY <1>2, <1>3, StartUnitPuts, StartedPuts, WakeUpPuts DEF RegistryInv, Goes
<1>4. CASE WaitReturns(i)
  <2>1. inst'[i].pc = inst[i].pc /\ inst[i].pc \in {"run", "drain"}
    BY <1>4, WaitPuts DEF RegistryInv, Goes, WaitReturns
  <2> QED
    BY <1>2, <2>1 DEF VitalInv, SameOwner
<1>5. CASE Crashed(i)
  BY <1>2, <1>5, CrashedPuts DEF RegistryInv, Goes, Ends, Excused
<1>6. CASE StartFails(i)
  BY <1>5, <1>6 DEF StartFails
<1>7. CASE Halted(i)
  <2>1. inst[i].stop /\ inst[i].pc = "run"
    BY <1>7 DEF Halted, ToldToStop
  <2>2. inst[i].comp \in Component
    BY <2>1 DEF RegistryInv, KeyInv, KeysHold, Undone
  <2>3. inst'[i].pc = "drain"
    BY <1>7, <2>2, HaltedPuts DEF RegistryInv, Goes
  <2> QED
    BY <1>2, <2>1, <2>3 DEF SameOwner
<1>8. CASE Drained(i) \/ GiveUp(i)
  <2>1. inst[i].stop /\ inst' = Finish(i, "Stopped")
    BY <1>8 DEF Drained, GiveUp, ToldToStop, VitalInv
  <2> QED
    BY <1>2, <2>1, FinishEnds DEF RegistryInv, Typed, Ends, Excused
<1>9. CASE Exited(i)
  <2>1. CASE ToldToStop(i) \/ UserClosed(i)
    <3>1. Excused(i) /\ inst' = Finish(i, "Stopped")
      BY <1>9, <2>1 DEF Exited, ToldToStop, UserClosed, Excused
    <3> QED
      BY <1>2, <3>1, FinishEnds DEF RegistryInv, Typed, Ends
  <2>2. CASE ~(ToldToStop(i) \/ UserClosed(i))
    BY <1>5, <1>9, <2>2 DEF Exited
  <2> QED
    BY <2>1, <2>2
<1> QED
  BY <1>3, <1>4, <1>6, <1>7, <1>8, <1>9 DEF Supervise

LEMMA VitalStep ==
    ASSUME RegistryInv, VitalInv, [Next]_vars PROVE VitalInv'
<1> SUFFICES ASSUME ~cancelled'
             PROVE  \A j \in Inst : /\ inst'[j].pc = "drain" => inst'[j].stop
                                    /\ (Done(j) => Excused(j) \/ tripped)'
  BY DEF VitalInv, VitalNeverSilent, Excused
<1>1. app' = app /\ ~cancelled /\ (tripped => tripped')
  BY Steady
<1>2. \A j \in Inst : /\ inst[j].pc = "drain" => inst[j].stop
                      /\ inst[j].pc = "done" => Excused(j) \/ tripped
  BY <1>1 DEF VitalInv, VitalNeverSilent, Excused, Done
<1>3. ASSUME NEW i \in Inst, Supervise(i), NEW j \in Inst
      PROVE  /\ inst'[j].pc = "drain" => inst'[j].stop
             /\ inst'[j].pc = "done" => Excused(j)' \/ tripped'
  BY <1>1, <1>2, <1>3, VitalWorks DEF SameKey, SameOwner, Excused
<1>4. NoInst.pc = "none"
  BY DEF NoInst
<1>5. ASSUME NEW j \in Inst, Bystander(j) \/ Anew(j)
      PROVE  /\ inst'[j].pc = "drain" => inst'[j].stop
             /\ inst'[j].pc = "done" => Excused(j)' \/ tripped'
  BY <1>1, <1>2, <1>4, <1>5, FreshIs DEF Bystander, Anew, Quiet, Excused
<1> QED
  BY <1>3, <1>5, OthersBystand DEF Done

----------------------------------------------------------------------------
(* Whoever's process runs is there to see it end.                          *)
LEMMA ProcessBystands ==
    ASSUME RegistryInv, ProcessHeld, \A j \in Inst : Bystander(j) \/ Anew(j),
           cancelled => cancelled'
    PROVE  ProcessHeld'
<1> SUFFICES ASSUME NEW j \in Inst
             PROVE  /\ inst'[j].pc \in {"start", "confirm"} => inst'[j].exit = "no"
                    /\ ~cancelled' =>
                          \A d \in Component : proc'[d] = j =>
                              /\ inst'[j].comp = d /\ inst'[j].ended = "no"
                              /\ inst'[j].exit = "no"
                              /\ inst'[j].pc \in {"confirm", "run", "drain"}
  BY DEF ProcessHeld
<1>1. CASE Bystander(j)
  <2>1. inst'[j].pc \in {"start", "confirm"} => inst'[j].exit = "no"
    BY <1>1 DEF ProcessHeld, Bystander, Quiet
  <2>2. ASSUME ~cancelled', NEW d \in Component, proc'[d] = j
        PROVE  /\ inst'[j].comp = d /\ inst'[j].ended = "no"
               /\ inst'[j].exit = "no"
               /\ inst'[j].pc \in {"confirm", "run", "drain"}
    <3>1. proc[d] = j /\ ~cancelled
      BY <1>1, <2>2 DEF Bystander
    <3>2. inst'[j].ended = inst[j].ended
      BY <1>1, <2>2, <3>1 DEF Bystander, ProcessHeld, Inst, None
    <3> QED
      BY <1>1, <3>1, <3>2 DEF Bystander, Quiet, ProcessHeld
  <2> QED
    BY <2>1, <2>2
<1>2. CASE Anew(j)
  <2>1. NoInst.pc = "none"
    BY DEF NoInst
  <2> QED
    BY <1>2, <2>1, FreshIs DEF Anew
<1> QED
  BY <1>1, <1>2

(* A supervisor's step that leaves the others and their processes alone.   *)
LEMMA ProcessWorked ==
    ASSUME ProcessHeld, NEW i \in Inst, Rest(i), cancelled' = cancelled,
           inst'[i].pc \in {"start", "confirm"} => inst'[i].exit = "no",
           ~cancelled =>
               \A d \in Component : proc'[d] = i =>
                   /\ inst'[i].comp = d /\ inst'[i].ended = "no"
                   /\ inst'[i].exit = "no"
                   /\ inst'[i].pc \in {"confirm", "run", "drain"},
           \A d \in Component : proc'[d] # i => proc'[d] = proc[d]
    PROVE  ProcessHeld'
BY DEF ProcessHeld, Rest

LEMMA ProcessWorks ==
    ASSUME SystemdAnswers, RegistryInv, ProcessHeld, NEW i \in Inst, Supervise(i)
    PROVE  ProcessHeld'
<1>1. cancelled' = cancelled
  BY SuperviseWorks DEF RegistryInv, KeyInv, others, cancelled
<1>2. ~cancelled =>
          \A d \in Component : proc[d] = i =>
              /\ inst[i].comp = d /\ inst[i].ended = "no" /\ inst[i].exit = "no"
              /\ inst[i].pc \in {"confirm", "run", "drain"}
  BY DEF ProcessHeld
<1>3. inst[i].pc \in {"start", "confirm"} => inst[i].exit = "no"
  BY DEF ProcessHeld
<1>4. CASE StartUnit(i)
  <2>1. /\ inst[i].pc = "start" /\ proc' = [proc EXCEPT ![inst[i].comp] = i]
        /\ proc[inst[i].comp] = None
    BY <1>4 DEF StartUnit
  <2>2. inst[i].comp \in Component
    BY <2>1 DEF RegistryInv, KeyInv, KeysHold, Undone
  <2>3. /\ Rest(i) /\ inst'[i].comp = inst[i].comp /\ inst'[i].pc = "confirm"
        /\ inst'[i].ended = "no" /\ inst'[i].exit = "no"
    BY <1>3, <1>4, <2>1, StartUnitPuts DEF RegistryInv, Goes, SameOwner
  <2>4. ~cancelled => \A d \in Component : proc'[d] = i => inst[i].comp = d
    BY <1>2, <2>1, <2>2 DEF RegistryInv, Typed, KeysTyped
  <2>5. \A d \in Component : proc'[d] # i => proc'[d] = proc[d]
    BY <2>1, <2>2 DEF RegistryInv, Typed, KeysTyped
  <2> QED
    BY <1>1, <2>3, <2>4, <2>5, ProcessWorked
<1>5. ASSUME UNCHANGED proc, ~cancelled => \A d \in Component : proc[d] # i,
             \/ Crashed(i)
             \/ \E state \in {"Stopped", "Failed"} : inst' = Finish(i, state)
      PROVE  ProcessHeld'
  <2>1. Rest(i) /\ inst'[i].pc \in {"backoff", "done"}
    BY <1>5, CrashedPuts, FinishEnds DEF RegistryInv, Typed, Goes, Ends
  <2> QED
    BY <1>1, <1>5, <2>1, ProcessWorked
<1>6. CASE StartFails(i)
  <2>1. /\ UNCHANGED proc
        /\ Crashed(i) \/ inst' = Finish(i, "Stopped")
    BY <1>6 DEF StartFails
  <2>2. ~cancelled => inst[i].pc = "start" \/ inst[i].ended = "badly"
    BY <1>6 DEF StartFails, StartError, SystemdAnswers
  <2> QED
    BY <1>2, <1>5, <2>1, <2>2
<1>7. CASE Drained(i)
  <2>1. UNCHANGED proc /\ inst' = Finish(i, "Stopped") /\ Gone(i)
    BY <1>7 DEF Drained
  <2> QED
    BY <1>2, <1>5, <2>1 DEF Gone
<1>8. CASE Exited(i)
  <2>1. /\ UNCHANGED proc /\ inst[i].exit # "no"
        /\ Crashed(i) \/ inst' = Finish(i, "Stopped")
    BY <1>8 DEF Exited
  <2> QED
    BY <1>2, <1>5, <2>1
<1>9. CASE GiveUp(i)
  <2>1. UNCHANGED proc /\ inst' = Finish(i, "Stopped") /\ inst[i].pc = "backoff"
    BY <1>9 DEF GiveUp
  <2> QED
    BY <1>2, <1>5, <2>1
<1>10. CASE Started(i)
  <2>1. UNCHANGED proc
    BY <1>10 DEF Started
  <2>2. /\ Rest(i) /\ inst'[i].comp = inst[i].comp /\ inst'[i].pc = "run"
        /\ inst'[i].ended = inst[i].ended /\ inst'[i].exit = "no"
    BY <1>10, StartedPuts DEF RegistryInv, Goes, SameOwner
  <2> QED
    BY <1>1, <1>2, <2>1, <2>2, ProcessWorked
<1>11. CASE WaitReturns(i)
  <2>1. UNCHANGED proc /\ inst[i].pc \in {"run", "drain"}
    BY <1>11 DEF WaitReturns
  <2>2. /\ Rest(i) /\ inst'[i].pc = inst[i].pc
        /\ inst[i].ended # "no" \/ cancelled
    BY <1>11, WaitPuts DEF RegistryInv, Goes, SystemdAnswers
  <2> QED
    BY <1>1, <1>2, <2>1, <2>2, ProcessWorked
<1>12. CASE WakeUp(i)
  <2>1. UNCHANGED proc /\ inst[i].pc = "backoff"
    BY <1>12 DEF WakeUp
  <2>2. Rest(i) /\ inst'[i].pc = "start" /\ inst'[i].exit = "no"
    BY <1>12, WakeUpPuts DEF RegistryInv, Goes
  <2> QED
    BY <1>1, <1>2, <2>1, <2>2, ProcessWorked
<1>13. CASE Halted(i)
  <2>1. inst[i].pc = "run" /\ inst[i].comp \in Component
    BY <1>13 DEF Halted, RegistryInv, KeyInv, KeysHold, Undone
  <2> DEFINE c == inst[i].comp
  <2>2. /\ proc' \in [Component -> Inst \cup {None}]
        /\ \A j \in Inst \ {i} : Alike(inst'[j], inst[j])
        /\ inst'[i].comp = inst[i].comp /\ inst'[i].pc = "drain"
        /\ inst'[i].exit = inst[i].exit
        /\ \/ proc' = proc /\ \A j \in Inst : inst'[j].ended = inst[j].ended
           \/ /\ proc' = [proc EXCEPT ![inst[i].comp] = None]
              /\ \A j \in Inst : j # proc[inst[i].comp]
                                    => inst'[j].ended = inst[j].ended
    BY <1>13, <2>1, HaltedPuts DEF RegistryInv, Goes, SameOwner
  <2>3. ASSUME NEW j \in Inst
        PROVE  inst'[j].pc \in {"start", "confirm"} => inst'[j].exit = "no"
    BY <2>2 DEF ProcessHeld, Alike
  <2>4. ASSUME NEW j \in Inst, ~cancelled, NEW d \in Component, proc'[d] = j
        PROVE  /\ inst'[j].comp = d /\ inst'[j].ended = "no"
               /\ inst'[j].exit = "no"
               /\ inst'[j].pc \in {"confirm", "run", "drain"}
    <3>1. proc[d] = j
      BY <2>1, <2>2, <2>4 DEF RegistryInv, Typed, KeysTyped, Inst, None
    <3>2. /\ inst[j].comp = d /\ inst[j].ended = "no" /\ inst[j].exit = "no"
          /\ inst[j].pc \in {"confirm", "run", "drain"}
      BY <2>4, <3>1 DEF ProcessHeld
    <3>3. inst'[j].ended = inst[j].ended
      <4>1. CASE proc' = proc
        BY <2>1, <2>2, <4>1, <3>1, <3>2 DEF RegistryInv, Typed, KeysTyped, Inst, None
      <4>2. CASE proc' # proc
        <5>1. d # inst[i].comp
          BY <2>1, <2>2, <2>4, <4>2 DEF RegistryInv, Typed, KeysTyped, Inst, None
        <5>2. proc[inst[i].comp] # j
          BY <2>1, <2>4, <3>2, <5>1 DEF ProcessHeld
        <5> QED
          BY <2>2, <4>2, <5>2
      <4> QED
        BY <4>1, <4>2
    <3> QED
      BY <2>2, <3>2, <3>3 DEF Alike
  <2> QED
    BY <1>1, <2>3, <2>4 DEF ProcessHeld
<1> QED
  BY <1>4, <1>6, <1>7, <1>8, <1>9, <1>10, <1>11, <1>12, <1>13 DEF Supervise

LEMMA ProcessStep ==
    ASSUME SystemdAnswers, RegistryInv, ProcessHeld, [Next]_vars PROVE ProcessHeld'
<1>1. CASE \E i \in Inst : Supervise(i)
  BY <1>1, ProcessWorks
<1>2. CASE \A j \in Inst : Bystander(j) \/ Anew(j)
  BY <1>2, ProcessBystands, Steady
<1> QED
  BY <1>1, <1>2, OthersBystand

----------------------------------------------------------------------------
(* Whatever fails, and however stops, upgrades, on-demand starts and       *)
(* shutdown meet, at most one supervisor works for a component, the one    *)
(* its key names (supervise.go's startLocked, which replaces an instance   *)
(* only when its state is terminal).                                       *)
THEOREM OneAtWork == Spec => [](\A i \in Undone : byKey[inst[i].comp] = i)
<1>1. Init => RegistryInv
  BY InitRegistry
<1>2. RegistryInv /\ [Next]_vars => RegistryInv'
  BY RegistryStep
<1>3. RegistryInv => \A i \in Undone : byKey[inst[i].comp] = i
  BY DEF RegistryInv, KeyInv, KeysHold
<1> QED
  BY <1>1, <1>2, <1>3, PTL DEF Spec

(* If systemd reports what happened in time, then besides that no process  *)
(* is left running whose supervisor has gone, before shutdown             *)
(* (supervise.go, where stopProc and drain come before the terminal state).*)
THEOREM NoneIsOrphaned == SystemdAnswers /\ Spec => []OneSupervisor
<1>1. Init => RegistryInv /\ ProcessHeld
  <2>1. Init => ProcessHeld
    BY DEF Init, ProcessHeld, Inst, None, NoInst
  <2> QED
    BY <2>1, InitRegistry
<1>2. CASE SystemdAnswers
  <2>1. RegistryInv /\ ProcessHeld /\ [Next]_vars => (RegistryInv /\ ProcessHeld)'
    BY <1>2, RegistryStep, ProcessStep
  <2>2. RegistryInv /\ ProcessHeld => OneSupervisor
    BY DEF RegistryInv, KeyInv, KeysHold, Typed, KeysTyped, ProcessHeld, OneSupervisor,
           NoOrphan, Done
  <2> QED
    BY <1>1, <2>1, <2>2, PTL DEF Spec
<1> QED
  BY <1>2

(* Once a change of the Registry has been carried out only what it now     *)
(* says is at work, except what a caller gave up on, and a package is out  *)
(* only when nothing of it runs (pkgregistry's Uninstall and Install with  *)
(* service.go's ReloadPackage and StopComponent).                          *)
THEOREM RegistryIsCarriedOut == SystemdAnswers /\ Spec => []RegistryHolds
<1>1. Init => RegistryInv /\ ProcessHeld
  <2>1. Init => ProcessHeld
    BY DEF Init, ProcessHeld, Inst, None, NoInst
  <2> QED
    BY <2>1, InitRegistry
<1>2. CASE SystemdAnswers
  <2>1. RegistryInv /\ ProcessHeld /\ [Next]_vars => (RegistryInv /\ ProcessHeld)'
    BY <1>2, RegistryStep, ProcessStep
  <2>2. RegistryInv /\ ProcessHeld => RegistryHolds
    <3> SUFFICES ASSUME RegistryInv, ProcessHeld PROVE RegistryHolds
      OBVIOUS
    <3>1. UninstalledIsGone
      BY DEF RegistryInv, Accounted, Typed, KeysTyped, ProcessHeld, UninstalledIsGone,
             Undone
    <3>2. task = Idle /\ ~stopped =>
              \A i \in Undone : inst[i].comp \in owed \/ Rightful(i)
      BY DEF RegistryInv, Accounted, Awaited, Idle
    <3> QED
      BY <3>1, <3>2 DEF RegistryHolds, Rightful
  <2> QED
    BY <1>1, <2>1, <2>2, PTL DEF Spec
<1> QED
  BY <1>2

(* A Vital service that ends without having been told to has tripped       *)
(* Safety, whatever systemd fails at or reports (supervise.go's            *)
(* onCircuitBreak and cleanExit).                                          *)
THEOREM VitalTrips == Spec => []VitalNeverSilent
<1>1. Init => RegistryInv /\ VitalInv
  <2>1. Init => VitalInv
    BY DEF Init, VitalInv, VitalNeverSilent, Done, NoInst
  <2> QED
    BY <2>1, InitRegistry
<1>2. RegistryInv /\ VitalInv /\ [Next]_vars => (RegistryInv /\ VitalInv)'
  BY RegistryStep, VitalStep
<1>3. VitalInv => VitalNeverSilent
  BY DEF VitalInv
<1> QED
  BY <1>1, <1>2, <1>3, PTL DEF Spec
=============================================================================
