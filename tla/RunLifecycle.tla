---------------------------- MODULE RunLifecycle ----------------------------
(***************************************************************************)
(* The lifecycle of one workflow id: its runs, the processes that carry    *)
(* them, and everybody who writes its history (crates/aion/src/lifecycle,  *)
(* engine/startup.rs, registry/table.rs).                                  *)
(*                                                                         *)
(*  - a workflow process exits or continues as new;                        *)
(*  - the exit monitor of each process records what nobody has recorded,   *)
(*    rings the completion doorbell, reconciles the registry and starts    *)
(*    the successor of a continued run;                                    *)
(*  - callers cancel, pause, resume, reopen and continue runs;             *)
(*  - after a crash, startup respawns the active run and its sweep starts  *)
(*    a successor that the crash cut off.                                  *)
(*                                                                         *)
(* They run concurrently.  What serializes them is, per handle, the        *)
(* recorder lock, and across handles the expected-sequence check of the    *)
(* store: an append succeeds only if the recorder's head is still the head *)
(* of the history.  A locked section (check and append) is one action;     *)
(* what happens between two awaits outside a lock is one action each.      *)
(*                                                                         *)
(* Abstracted: events that are not lifecycle events, payloads, visibility  *)
(* records, and timers: the runs declare no timeout, so no deadline has to *)
(* be retired with a terminal.  Store errors other than a sequence         *)
(* conflict are left out.                                                  *)
(***************************************************************************)
EXTENDS Integers, Sequences, FiniteSets

CONSTANTS
    Callers,     \* concurrent callers of the engine's API
    Sweeper,     \* the startup sweep for continued runs
    Ops,         \* the operations the callers use
    MaxOps,      \* bound on operations begun
    MaxRuns,     \* bound on the runs of the chain
    MaxCrashes   \* bound on engine crashes

AllOps == {"cancel", "pause", "resume", "reopen", "continue"}

ASSUME OpsAssumption == Ops \subseteq AllOps
ASSUME BoundsAssumption == MaxOps \in Nat /\ MaxRuns \in Nat \ {0} /\ MaxCrashes \in Nat

Runs == 1 .. MaxRuns
\* Every spawn belongs to a crash, an operation or a run: enough handles.
Handles == 1 .. (MaxCrashes + MaxOps + MaxRuns)
Agents == Callers \cup {Sweeper} \cup Handles

ASSUME AgentsAssumption ==
    /\ IsFiniteSet(Callers)
    /\ Sweeper \notin Callers
    /\ (Callers \cup {Sweeper}) \cap Handles = {}

(***************************************************************************)
(* Lifecycle events.  A WorkflowStarted names its parent run, 0 for none.  *)
(***************************************************************************)
Terminals == {"Completed", "Failed", "Cancelled", "ContinuedAsNew"}
Resets == {"Started", "Reopened"}
Event(type, run, parent) == [type |-> type, run |-> run, parent |-> parent]
Events == [type : Terminals \cup Resets \cup {"Paused", "Resumed"},
           run : Runs, parent : 0 .. MaxRuns]

(***************************************************************************)
(* A handle: the process it stands for, the head of its recorder and the   *)
(* outcome its completion channel last published.                          *)
(***************************************************************************)
Handle(run, head, proc, told) == [run |-> run, head |-> head, proc |-> proc, told |-> told]
NewHandle(run, head) == Handle(run, head, "alive", "None")
HandleType == [run : Runs, head : Nat, proc : {"alive", "Completed", "Failed", "killed"},
               told : Terminals \cup {"None"}]

\* A registry entry: the handle with its cached status and residency.
Entry(h, status, residency) == [handle |-> h, status |-> status, residency |-> residency]
NoEntry == Entry(0, "None", "None")
EntryType == [handle : {0} \cup Handles, status : Terminals \cup {"None", "Running", "Paused"},
              residency : {"None", "Resident", "Suspended"}]

\* What an agent has read and has left to do.
Agent(at, op, run, handle, head, seen) ==
    [at |-> at, op |-> op, run |-> run, handle |-> handle, head |-> head, seen |-> seen]
AgentType ==
    [at : {"idle", "read", "reconcile", "check", "head", "start", "publish", "done", "record",
           "kill", "deregister", "hold", "release", "evict", "append", "respawn", "query"},
     op : Ops \cup {"none", "monitor", "sweep"}, run : 0 .. MaxRuns,
     handle : {0} \cup Handles, head : Nat, seen : Terminals \cup {"None"}]
Idle == Agent("idle", "none", 0, 0, 0, "None")
Done == Agent("done", "none", 0, 0, 0, "None")

VARIABLES
    history,   \* durable: the workflow's lifecycle events
    up,        \* an engine process is running
    handles,   \* the handles of this engine epoch, by number
    registry,  \* Registry: run -> entry
    index,     \* the live-pid index: handle of the newest run, 0 if none
    held,      \* whether PausedRuns contains the workflow
    agent,     \* monitors, callers and the startup sweep
    ops, crashes

vars == <<history, up, handles, registry, index, held, agent, ops, crashes>>

-----------------------------------------------------------------------------
(***************************************************************************)
(* Projections of a history (aion-core/src/status.rs).                     *)
(***************************************************************************)
Last(positions) == CHOOSE i \in positions : \A j \in positions : j <= i

StartOf(run) ==
    {i \in 1 .. Len(history) : history[i].type = "Started" /\ history[i].run = run}

\* run_segment: from the run's start up to the next start of any run.
run_segment(run) ==
    {i \in 1 .. Len(history) :
        \E s \in StartOf(run) :
            /\ s <= i
            /\ \A j \in s + 1 .. i : history[j].type # "Started"}

StatusOf(type) ==
    IF type \in {"Started", "Reopened", "Resumed"} THEN "Running" ELSE type

\* status_from_events over a segment, and over the whole history.
SegmentStatus(run) == StatusOf(history[Last(run_segment(run))].type)
Status == StatusOf(history[Len(history)].type)

\* current_lease_terminal: the last event that is terminal or resets the lease.
current_lease_terminal(run) ==
    LET decisive == {i \in run_segment(run) : history[i].type \in Terminals \cup Resets}
    IN  IF history[Last(decisive)].type \in Terminals
        THEN history[Last(decisive)].type ELSE "None"

StartedRuns == {history[i].run : i \in 1 .. Len(history)}

CurrentRun == history[Last({i \in 1 .. Len(history) : history[i].type = "Started"})].run

\* Run ids are fresh; here they count.
NextRun == CurrentRun + 1

already_started(run) ==
    \E i \in 1 .. Len(history) : history[i].type = "Started" /\ history[i].parent = run

-----------------------------------------------------------------------------
Init ==
    /\ history = <<Event("Started", 1, 0)>>
    /\ up = TRUE
    /\ handles = <<NewHandle(1, 1)>>
    /\ registry = [r \in Runs |-> IF r = 1 THEN Entry(1, "Running", "Resident") ELSE NoEntry]
    /\ index = 1
    /\ held = FALSE
    /\ agent = [a \in Agents |-> Idle]
    /\ ops = 0
    /\ crashes = 0

(***************************************************************************)
(* Recorder::append_one through a handle's recorder, under its lock.       *)
(***************************************************************************)
HeadIsCurrent(head) == head = Len(history)

AppendThrough(h, type) ==
    /\ history' = Append(history, Event(type, handles[h].run, 0))
    /\ handles' = [handles EXCEPT ![h].head = Len(history) + 1]

\* Registry::insert and Registry::remove, with the compare-and-delete of the index.
Insert(run, h, status) ==
    /\ registry' = [registry EXCEPT ![run] = Entry(h, status, "Resident")]
    /\ index' = h
Remove(run) ==
    /\ registry' = [registry EXCEPT ![run] = NoEntry]
    /\ index' = IF index # 0 /\ handles[index].run = run THEN 0 ELSE index

Goto(a, at) == agent' = [agent EXCEPT ![a].at = at]
GotoAt(a, at, head) ==
    agent' = [agent EXCEPT ![a] = Agent(at, @.op, @.run, @.handle, head, @.seen)]
Finish(a) == agent' = [agent EXCEPT ![a] = Idle]

-----------------------------------------------------------------------------
(***************************************************************************)
(* Workflow processes.                                                     *)
(***************************************************************************)
Alive(h) == up /\ h \in DOMAIN handles /\ handles[h].proc = "alive"

ProcessExits(h, why) ==
    /\ Alive(h)
    /\ handles' = [handles EXCEPT ![h].proc = why]
    /\ UNCHANGED <<history, up, registry, index, held, agent, ops, crashes>>

\* The continue_as_new NIF: resolve the handle by pid, record under the lock
\* unless the run has a terminal, then kill the calling process.
NifContinueAsNew(h) ==
    /\ Alive(h)
    /\ \E r \in Runs : registry[r].handle = h
    /\ NextRun <= MaxRuns
    /\ current_lease_terminal(handles[h].run) = "None"
    /\ HeadIsCurrent(handles[h].head)
    /\ history' = Append(history, Event("ContinuedAsNew", handles[h].run, 0))
    /\ handles' = [handles EXCEPT ![h] = Handle(@.run, Len(history) + 1, "killed", @.told)]
    /\ UNCHANGED <<up, registry, index, held, agent, ops, crashes>>

-----------------------------------------------------------------------------
(***************************************************************************)
(* handle_process_exit_async, the monitor of handle h.                     *)
(***************************************************************************)
ExitRecord(h) == IF handles[h].proc = "Completed" THEN "Completed" ELSE "Failed"

\* The monitor records without asking what is recorded.
MutantMonitorTerminal(h) == "None"

\* The terminal the monitor finds under the recorder lock.
MonitorTerminal(h) == current_lease_terminal(handles[h].run)

\* A monitor that publishes how its process ended, whatever is recorded.
MutantPublished(h, existing) == ExitRecord(h)

\* A monitor that leaves the doorbell to whoever recorded the terminal.
MutantSilent(h, existing) ==
    IF existing = "None" THEN ExitRecord(h) ELSE handles[h].told

\* The outcome the doorbell carries: the recorded one, if there is one.
Published(h, existing) == IF existing = "None" THEN ExitRecord(h) ELSE existing

\* Check and record under the lock, then ring the doorbell at once.
MonitorRecords(h) ==
    /\ up /\ h \in DOMAIN handles
    /\ agent[h].at = "idle" /\ handles[h].proc # "alive"
    /\ LET existing == MonitorTerminal(h)
       IN  IF existing # "None"
           THEN /\ handles' = [handles EXCEPT ![h].told = Published(h, existing)]
                /\ agent' = [agent EXCEPT ![h] =
                               Agent("read", "monitor", handles[h].run, h, 0, existing)]
                /\ UNCHANGED history
           ELSE IF HeadIsCurrent(handles[h].head)
           THEN /\ history' = Append(history, Event(ExitRecord(h), handles[h].run, 0))
                /\ handles' = [handles EXCEPT ![h] =
                       Handle(@.run, Len(history) + 1, @.proc, Published(h, existing))]
                /\ agent' = [agent EXCEPT ![h] =
                               Agent("read", "monitor", handles[h].run, h, 0, ExitRecord(h))]
           ELSE /\ agent' = [agent EXCEPT ![h] = Done]
                /\ UNCHANGED <<history, handles>>
    /\ UNCHANGED <<up, registry, index, held, ops, crashes>>

\* reconcile_terminal_registry: read the history, then update the entry of
\* the run, whichever handle it now holds.  A continued run goes on.
MonitorReads(h) ==
    /\ up /\ agent[h].at = "read"
    /\ GotoAt(h, "reconcile", Len(history))
    /\ UNCHANGED <<history, up, handles, registry, index, held, ops, crashes>>

MonitorReconciles(h) ==
    /\ up /\ agent[h].at = "reconcile"
    /\ registry' = [registry EXCEPT ![agent[h].run] =
                      IF @.handle = 0 THEN @
                      ELSE Entry(@.handle, StatusOf(history[agent[h].head].type), "Suspended")]
    /\ IF agent[h].seen = "ContinuedAsNew" THEN Goto(h, "check")
       ELSE agent' = [agent EXCEPT ![h] = Done]
    /\ UNCHANGED <<history, up, handles, index, held, ops, crashes>>

\* start_continuation_replacement: the duplicate check on a first read.
MonitorChecks(h) ==
    /\ up /\ agent[h].at = "check"
    /\ IF already_started(agent[h].run) THEN agent' = [agent EXCEPT ![h] = Done]
       ELSE Goto(h, "head")
    /\ UNCHANGED <<history, up, handles, registry, index, held, ops, crashes>>

-----------------------------------------------------------------------------
(***************************************************************************)
(* start_workflow_with_options for the successor of run agent[a].run: read *)
(* the head, append WorkflowStarted at that head, spawn and publish.       *)
(***************************************************************************)
StartReadsHead(a) ==
    /\ up /\ agent[a].at = "head"
    /\ GotoAt(a, "start", Len(history))
    /\ UNCHANGED <<history, up, handles, registry, index, held, ops, crashes>>

\* Where an agent goes when its start fails, or after it.
AfterStart(a, ok) ==
    IF a \in Handles THEN Done
    ELSE IF ok /\ agent[a].op = "continue" THEN [agent[a] EXCEPT !.at = "deregister"]
    ELSE Idle

StartAppends(a) ==
    /\ up /\ agent[a].at = "start"
    /\ IF HeadIsCurrent(agent[a].head)
       THEN /\ NextRun <= MaxRuns
            /\ history' = Append(history, Event("Started", NextRun, agent[a].run))
            /\ GotoAt(a, "publish", Len(history) + 1)
       ELSE /\ agent' = [agent EXCEPT ![a] = AfterStart(a, FALSE)]
            /\ UNCHANGED history
    /\ UNCHANGED <<up, handles, registry, index, held, ops, crashes>>

StartPublishes(a) ==
    /\ up /\ agent[a].at = "publish"
    /\ LET run == history[agent[a].head].run
       IN  /\ handles' = Append(handles, NewHandle(run, agent[a].head))
           /\ Insert(run, Len(handles) + 1, "Running")
    /\ agent' = [agent EXCEPT ![a] = AfterStart(a, TRUE)]
    /\ UNCHANGED <<history, up, held, ops, crashes>>

-----------------------------------------------------------------------------
(***************************************************************************)
(* The engine's API.  The unlocked validation and the registry lookup of   *)
(* an operation are its first step; an operation that is refused there     *)
(* changes nothing and is not a step.                                      *)
(***************************************************************************)
\* terminal-`Failed` or terminal-`Cancelled`.
Reopenable(run) == current_lease_terminal(run) \in {"Failed", "Cancelled"}

FirstStep(op, run) ==
    IF op = "reopen" THEN "evict"
    ELSE IF op = "resume" /\ registry[run].handle = 0 THEN "append"
    ELSE "record"

Admits(op, run) ==
    \/ op \in {"cancel", "continue"} /\ registry[run].handle # 0
    \/ op = "pause" /\ SegmentStatus(run) = "Running" /\ registry[run].handle # 0
    \/ op = "resume" /\ SegmentStatus(run) = "Paused"
    \/ op = "reopen" /\ Reopenable(run)

Begin(c, op, run) ==
    /\ up
    /\ agent[c] = Idle
    /\ agent[Sweeper] = Idle
    /\ ops < MaxOps
    /\ ops' = ops + 1
    /\ Admits(op, run)
    /\ agent' = [agent EXCEPT ![c] = Agent(FirstStep(op, run), op, run,
                                           registry[run].handle, Len(history), "None")]
    /\ UNCHANGED <<history, up, handles, registry, index, held, crashes>>

(***************************************************************************)
(* The locked section of cancel, pause, resume of a resident run, and      *)
(* continue: re-validate on the history read under the lock, append.       *)
(***************************************************************************)
Records(op) ==
    CASE op = "cancel" -> "Cancelled"
      [] op = "pause" -> "Paused"
      [] op = "resume" -> "Resumed"
      [] op = "continue" -> "ContinuedAsNew"

\* The re-validation under the recorder lock.
Revalidates(op, run) ==
    \/ op \in {"cancel", "continue"} /\ current_lease_terminal(run) = "None"
    \/ op = "pause" /\ SegmentStatus(run) = "Running"
    \/ op = "resume" /\ SegmentStatus(run) = "Paused"

AfterRecord(op) ==
    CASE op = "cancel" -> "kill"
      [] op = "pause" -> "hold"
      [] op = "resume" -> "release"
      [] op = "continue" -> "head"

CallRecords(c) ==
    /\ up /\ agent[c].at = "record"
    /\ LET op == agent[c].op
           h == agent[c].handle
       IN  IF Revalidates(op, agent[c].run) /\ HeadIsCurrent(handles[h].head)
           THEN /\ op = "continue" => NextRun <= MaxRuns
                /\ AppendThrough(h, Records(op))
                /\ Goto(c, AfterRecord(op))
           ELSE Finish(c) /\ UNCHANGED <<history, handles>>
    /\ UNCHANGED <<up, registry, index, held, ops, crashes>>

\* cancel: kill the process after the cancellation is durable.
CancelKills(c) ==
    /\ up /\ agent[c].at = "kill"
    /\ handles' = [handles EXCEPT ![agent[c].handle].proc =
                     IF @ = "alive" THEN "killed" ELSE @]
    /\ Goto(c, "deregister")
    /\ UNCHANGED <<history, up, registry, index, held, ops, crashes>>

\* The end of cancel and continue: notify, and remove the run's entry.
CallDeregisters(c) ==
    /\ up /\ agent[c].at = "deregister"
    /\ handles' = [handles EXCEPT ![agent[c].handle].told = Records(agent[c].op)]
    /\ Remove(agent[c].run)
    /\ IF agent[c].op = "cancel" THEN Goto(c, "release") ELSE Finish(c)
    /\ UNCHANGED <<history, up, held, ops, crashes>>

PauseHolds(c) ==
    /\ up /\ agent[c].at = "hold"
    /\ held' = TRUE
    /\ Finish(c)
    /\ UNCHANGED <<history, up, handles, registry, index, ops, crashes>>

\* A resume that leaves the process to the next restart.
MutantNeedsRespawn(c) == FALSE

\* A resumed run that was not resident.
NeedsRespawn(c) == agent[c].op = "resume" /\ agent[c].handle = 0

\* cancel and resume release the hold.
CallReleases(c) ==
    /\ up /\ agent[c].at = "release"
    /\ held' = FALSE
    /\ IF NeedsRespawn(c) THEN Goto(c, "respawn") ELSE Finish(c)
    /\ UNCHANGED <<history, up, handles, registry, index, ops, crashes>>

\* reopen: an entry with a terminal cached status is a leftover and is
\* removed; any other means that the run was reopened already.
ReopenEvicts(c) ==
    /\ up /\ agent[c].at = "evict"
    /\ LET entry == registry[agent[c].run]
       IN  IF entry.handle = 0
           THEN Goto(c, "append") /\ UNCHANGED <<registry, index>>
           ELSE IF entry.status \in Terminals
           THEN Remove(agent[c].run) /\ Goto(c, "append")
           ELSE Finish(c) /\ UNCHANGED <<registry, index>>
    /\ UNCHANGED <<history, up, handles, held, ops, crashes>>

\* A reopen whose append does not check the head it was validated at.
MutantFreshHead(c) == Len(history)

\* The head of the history the operation was validated on.
ValidatedHead(c) == agent[c].head

\* reopen, and resume of a run that is not resident: one recorder at the
\* head of the history that was validated.
CallAppends(c) ==
    /\ up /\ agent[c].at = "append"
    /\ IF HeadIsCurrent(ValidatedHead(c))
       THEN /\ history' = Append(history, Event(
                 IF agent[c].op = "reopen" THEN "Reopened" ELSE "Resumed", agent[c].run, 0))
            /\ GotoAt(c, IF agent[c].op = "reopen" THEN "respawn" ELSE "release",
                      Len(history) + 1)
       ELSE Finish(c) /\ UNCHANGED history
    /\ UNCHANGED <<up, handles, registry, index, held, ops, crashes>>

\* respawn_and_register: a new process and handle under the same recorder.
CallRespawns(c) ==
    /\ up /\ agent[c].at = "respawn"
    /\ handles' = Append(handles, NewHandle(agent[c].run, agent[c].head))
    /\ Insert(agent[c].run, Len(handles) + 1, Status)
    /\ Finish(c)
    /\ UNCHANGED <<history, up, held, ops, crashes>>

-----------------------------------------------------------------------------
(***************************************************************************)
(* Crash, startup and its sweep.                                           *)
(***************************************************************************)
Crash ==
    /\ up
    /\ crashes < MaxCrashes
    /\ crashes' = crashes + 1
    /\ up' = FALSE
    /\ handles' = <<>>
    /\ registry' = [r \in Runs |-> NoEntry]
    /\ index' = 0
    /\ held' = FALSE
    /\ agent' = [a \in Agents |-> Idle]
    /\ UNCHANGED <<history, ops>>

\* A startup without the sweep.
MutantSweepStart == Idle

\* The sweep's first step.
SweepStart == Agent("query", "sweep", 0, 0, 0, "None")

\* repopulate_active_workflows respawns a Running workflow; rebuild_paused_runs
\* restores the hold of a Paused one.
Startup ==
    /\ ~up
    /\ up' = TRUE
    /\ IF Status = "Running"
       THEN /\ handles' = <<NewHandle(CurrentRun, Len(history))>>
            /\ Insert(CurrentRun, 1, "Running")
       ELSE UNCHANGED <<handles, registry, index>>
    /\ held' = (Status = "Paused")
    /\ agent' = [agent EXCEPT ![Sweeper] = SweepStart]
    /\ UNCHANGED <<history, ops, crashes>>

\* sweep_continued_as_new_replacements: query and duplicate check.
SweepQueries ==
    /\ up /\ agent[Sweeper].at = "query"
    /\ agent' = [agent EXCEPT ![Sweeper] =
                   IF Status = "ContinuedAsNew"
                   THEN Agent("head", "sweep", CurrentRun, 0, 0, "None") ELSE Idle]
    /\ UNCHANGED <<history, up, handles, registry, index, held, ops, crashes>>

-----------------------------------------------------------------------------
Monitor(h) ==
    MonitorRecords(h) \/ MonitorReads(h) \/ MonitorReconciles(h) \/ MonitorChecks(h)

Start(a) == StartReadsHead(a) \/ StartAppends(a) \/ StartPublishes(a)

Call(c) ==
    \/ CallRecords(c) \/ CancelKills(c) \/ CallDeregisters(c)
    \/ PauseHolds(c) \/ CallReleases(c)
    \/ ReopenEvicts(c) \/ CallAppends(c) \/ CallRespawns(c)

Next ==
    \/ \E h \in Handles :
          \/ \E why \in {"Completed", "Failed"} : ProcessExits(h, why)
          \/ NifContinueAsNew(h)
          \/ Monitor(h)
    \/ \E c \in Callers : Call(c) \/ \E op \in Ops, run \in StartedRuns : Begin(c, op, run)
    \/ \E a \in Agents : Start(a)
    \/ Crash
    \/ Startup
    \/ SweepQueries

Spec == Init /\ [][Next]_vars

(***************************************************************************)
(* Fairness: the monitor threads, the callers' tasks and the startup sweep *)
(* run to their end, and a supervisor restarts the engine.  Nothing forces *)
(* a process to exit or a caller to call.                                  *)
(***************************************************************************)
Fairness ==
    /\ \A a \in Agents : WF_vars(Start(a))
    /\ \A h \in Handles : WF_vars(Monitor(h))
    /\ \A c \in Callers : WF_vars(Call(c))
    /\ WF_vars(SweepQueries)
    /\ WF_vars(Startup)

FairSpec == Spec /\ Fairness

-----------------------------------------------------------------------------
(***************************************************************************)
(* Properties.                                                             *)
(***************************************************************************)

\* Every variable keeps its type.
TypeOK ==
    /\ history \in Seq(Events)
    /\ up \in BOOLEAN
    /\ handles \in Seq(HandleType)
    /\ registry \in [Runs -> EntryType]
    /\ index \in {0} \cup Handles
    /\ held \in BOOLEAN
    /\ agent \in [Agents -> AgentType]
    /\ ops \in 0 .. MaxOps
    /\ crashes \in 0 .. MaxCrashes

\* startup_sweeps.rs:119-121: the successor start is idempotent, "the
\* in-history parent_run_id guard mirrors start_continuation_replacement's own
\* duplicate check".  A continued run has at most one successor.
OneSuccessor ==
    \A i, j \in 1 .. Len(history) :
        (history[i].type = "Started" /\ history[j].type = "Started"
           /\ history[i].parent = history[j].parent) => i = j

\* status.rs:113-114: "a run holds exactly one terminal event per lease".
\* However the exit monitor, the callers and a restarted engine interleave,
\* two terminals of a workflow are always separated by a start or a reopen.
\* In a chain that forked (see OneSuccessor) a superseded run can be paused,
\* resumed behind the newer start and then ended twice: its segment, where
\* the terminal is looked up, ends at that start.
OneTerminalPerLease ==
    OneSuccessor => \A i, j \in 1 .. Len(history) :
        (i < j /\ history[i].type \in Terminals /\ history[j].type \in Terminals) =>
            \E k \in i + 1 .. j - 1 : history[k].type \in Resets

\* Pauses, resumes and reopens are recorded only over the status they were
\* validated against, whatever other writers did in between (pause.rs and
\* reopen.rs reject everything else): a pause over a running run, a resume
\* over a paused one, a reopen over a failed or cancelled one.  In a chain
\* that forked (see OneSuccessor) run segments overlap and this is lost.
TransitionsAreLegal ==
    OneSuccessor => \A i \in 2 .. Len(history) :
        /\ history[i].type = "Paused" => StatusOf(history[i - 1].type) = "Running"
        /\ history[i].type = "Resumed" => history[i - 1].type = "Paused"
        /\ history[i].type = "Reopened" => history[i - 1].type \in {"Failed", "Cancelled"}

\* completion.rs: subscribers "resolve from the recorded store truth".  An
\* outcome published on a handle's channel is a recorded terminal, and one of
\* its own run.  In a chain that forked (see OneSuccessor) a superseded run
\* can end behind the newer start, and the monitor of the newer run takes the
\* terminal it finds in its segment for its own.
ToldIsRecorded ==
    \A h \in DOMAIN handles :
        handles[h].told # "None" =>
            \E i \in 1 .. Len(history) :
                /\ history[i].type = handles[h].told
                /\ OneSuccessor => history[i].run = handles[h].run

\* Types, and no doorbell that rings an outcome nobody recorded.
Inv == TypeOK /\ ToldIsRecorded

Quiet ==
    /\ up
    /\ agent[Sweeper] = Idle
    /\ \A c \in Callers : agent[c] = Idle
    /\ \A h \in DOMAIN handles : agent[h] = Done \/ handles[h].proc = "alive"

\* When nothing is in progress, a workflow that its history calls Running has
\* a registered resident process that the live-pid index points to: signals,
\* queries and outbox completions reach it.  In a chain that forked (see
\* OneSuccessor) the two successors can be published in the order opposite to
\* their starts, and the index then points to the older one.
RunningIsReachable ==
    (OneSuccessor /\ Quiet /\ Status = "Running") =>
        LET entry == registry[CurrentRun]
        IN  /\ entry.handle # 0
            /\ handles[entry.handle].proc = "alive"
            /\ entry.residency = "Resident"
            /\ index = entry.handle

\* completion.rs:135-141: "a watcher parked on a doorbell that never rings
\* strands the awaiting parent for the whole epoch".  Every exit of a process
\* is eventually published on its handle, unless the engine crashes.
DoorbellRings ==
    \A h \in Handles :
        (h \in DOMAIN handles /\ handles[h].proc # "alive")
          ~> (h \in DOMAIN handles => handles[h].told # "None")

\* startup_sweeps.rs:104-117: a chain is never left wedged at a continued
\* run, neither by a crash between the two records nor by a lost race.
SuccessorStarts == (Status = "ContinuedAsNew") ~> (Status # "ContinuedAsNew")

=============================================================================
