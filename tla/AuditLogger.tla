---------------------------- MODULE AuditLogger ----------------------------
(***************************************************************************)
(* The sequence numbers and timestamps of task-scoped audit events         *)
(* (src/audit_vault/logger.py): stage_event and lifecycle_event read the   *)
(* clock, reserve their metadata under a lock and emit after releasing it. *)
(* Threads share one logger; its counters are in memory, so a restarted    *)
(* process numbers the events of a task from zero again.                   *)
(***************************************************************************)
EXTENDS Naturals, Sequences, FiniteSets

CONSTANTS
    Threads,        \* callers of stage_event and lifecycle_event
    Tasks,
    Stages,
    MaxClock,       \* bound: the clock moves within 0..MaxClock
    MaxCalls,       \* bound: calls one thread makes
    MaxRestarts,    \* bound: restarts of the process
    NONE

VARIABLES
    clock,              \* the wall clock, which may be set back
    epoch,              \* how often the process has been restarted
    seq_counters,
    last_timestamps,
    calls,              \* the call each thread is in, and how many it has made
    trail               \* what has been emitted, in order of emission

vars == <<clock, epoch, seq_counters, last_timestamps, calls, trail>>

ASSUME BoundsAssumption == MaxClock \in Nat /\ MaxCalls \in Nat /\ MaxRestarts \in Nat
ASSUME NoneAssumption == NONE \notin Nat

Clock == 0..MaxClock

\* "warning" is the number reserved for an audit.clock_skew_warning.
Call ==
    [at : {"idle", "reserve", "warn", "emit"}, made : Nat,
     task : Tasks, stage : Stages, override : BOOLEAN, timestamp : Clock,
     sequence_number : Nat, warning : Nat \cup {NONE}]

NoCall ==
    [at : {"idle"}, made : {0}, task : Tasks, stage : Stages, override : {FALSE},
     timestamp : {0}, sequence_number : {0}, warning : {NONE}]

Entry == [epoch : Nat, task : Tasks, stage : Stages, sequence_number : Nat, timestamp : Clock]

TypeOK ==
    /\ clock \in Clock
    /\ epoch \in Nat
    /\ seq_counters \in [Tasks -> Nat]
    /\ last_timestamps \in [Tasks -> Clock \cup {NONE}]
    /\ calls \in [Threads -> Call]
    /\ trail \in Seq(Entry)

Init ==
    /\ clock \in Clock
    /\ epoch = 0
    /\ seq_counters = [k \in Tasks |-> 0]
    /\ last_timestamps = [k \in Tasks |-> NONE]
    /\ calls \in [Threads -> NoCall]
    /\ trail = <<>>

-----------------------------------------------------------------------------
\* stage_event or lifecycle_event, up to the lock: the candidate timestamp is the
\* caller's or that of the clock, read before the lock is taken.
StageEvent(t) ==
    /\ calls[t].at = "idle"
    /\ calls[t].made < MaxCalls
    /\ \E k \in Tasks, s \in Stages, override \in BOOLEAN, candidate \in Clock :
        /\ ~ override => candidate = clock
        /\ calls' = [calls EXCEPT ![t] =
              [at |-> "reserve", made |-> calls[t].made + 1, task |-> k, stage |-> s,
               override |-> override, timestamp |-> candidate,
               sequence_number |-> 0, warning |-> NONE]]
    /\ UNCHANGED <<clock, epoch, seq_counters, last_timestamps, trail>>

Late(c) == last_timestamps[c.task] # NONE /\ c.timestamp < last_timestamps[c.task]

\* Mutant of RefuseOverride: the number is taken before the timestamp is checked.
RefuseOverrideCounted(t) ==
    /\ calls[t].at = "reserve"
    /\ calls[t].override /\ Late(calls[t])
    /\ calls' = [calls EXCEPT ![t].at = "idle"]
    /\ seq_counters' = [seq_counters EXCEPT ![calls[t].task] = @ + 1]
    /\ UNCHANGED <<clock, epoch, last_timestamps, trail>>

\* _reserve_task_event_metadata, the body of the lock: AuditOrderingError ...
RefuseOverride(t) ==
    /\ calls[t].at = "reserve"
    /\ calls[t].override /\ Late(calls[t])
    /\ calls' = [calls EXCEPT ![t].at = "idle"]
    /\ UNCHANGED <<clock, epoch, seq_counters, last_timestamps, trail>>

\* Mutants of ReserveClamped: warning and event share a number; a timestamp not clamped.
ReserveClampedOnce(t) ==
    LET k == calls[t].task IN
    /\ calls[t].at = "reserve"
    /\ ~ calls[t].override /\ Late(calls[t])
    /\ calls' = [calls EXCEPT ![t].at = "warn",
                              ![t].warning = seq_counters[k],
                              ![t].sequence_number = seq_counters[k],
                              ![t].timestamp = last_timestamps[k]]
    /\ seq_counters' = [seq_counters EXCEPT ![k] = @ + 1]
    /\ UNCHANGED <<clock, epoch, last_timestamps, trail>>
ReserveUnclamped(t) ==
    LET k == calls[t].task IN
    /\ calls[t].at = "reserve"
    /\ ~ calls[t].override /\ Late(calls[t])
    /\ calls' = [calls EXCEPT ![t].at = "warn",
                              ![t].warning = seq_counters[k],
                              ![t].sequence_number = seq_counters[k] + 1]
    /\ seq_counters' = [seq_counters EXCEPT ![k] = @ + 2]
    /\ UNCHANGED <<clock, epoch, last_timestamps, trail>>

\* ... the clock has been set back: a number for the warning, one for the event, and
\* the timestamp of the previous event ...
ReserveClamped(t) ==
    LET k == calls[t].task IN
    /\ calls[t].at = "reserve"
    /\ ~ calls[t].override /\ Late(calls[t])
    /\ calls' = [calls EXCEPT ![t].at = "warn",
                              ![t].warning = seq_counters[k],
                              ![t].sequence_number = seq_counters[k] + 1,
                              ![t].timestamp = last_timestamps[k]]
    /\ seq_counters' = [seq_counters EXCEPT ![k] = @ + 2]
    /\ UNCHANGED <<clock, epoch, last_timestamps, trail>>

\* ... or the next number and the candidate.
Reserve(t) ==
    LET k == calls[t].task IN
    /\ calls[t].at = "reserve"
    /\ ~ Late(calls[t])
    /\ calls' = [calls EXCEPT ![t].at = "emit", ![t].sequence_number = seq_counters[k]]
    /\ seq_counters' = [seq_counters EXCEPT ![k] = @ + 1]
    /\ last_timestamps' = [last_timestamps EXCEPT ![k] = calls[t].timestamp]
    /\ UNCHANGED <<clock, epoch, trail>>

EntryOf(c, n) ==
    [epoch |-> epoch, task |-> c.task, stage |-> c.stage,
     sequence_number |-> n, timestamp |-> c.timestamp]

EmitClockSkewWarning(t) ==
    /\ calls[t].at = "warn"
    /\ trail' = Append(trail, EntryOf(calls[t], calls[t].warning))
    /\ calls' = [calls EXCEPT ![t].at = "emit", ![t].warning = NONE]
    /\ UNCHANGED <<clock, epoch, seq_counters, last_timestamps>>

\* Mutant of Emit: the event is emitted under the number of the warning.
EmitWarningNumber(t) ==
    /\ calls[t].at = "emit"
    /\ trail' = Append(trail, EntryOf(calls[t], calls[t].warning))
    /\ calls' = [calls EXCEPT ![t].at = "idle"]
    /\ UNCHANGED <<clock, epoch, seq_counters, last_timestamps>>

Emit(t) ==
    /\ calls[t].at = "emit"
    /\ trail' = Append(trail, EntryOf(calls[t], calls[t].sequence_number))
    /\ calls' = [calls EXCEPT ![t].at = "idle"]
    /\ UNCHANGED <<clock, epoch, seq_counters, last_timestamps>>

\* The clock advances, or is set back.
SetClock ==
    /\ clock' \in Clock
    /\ UNCHANGED <<epoch, seq_counters, last_timestamps, calls, trail>>

\* The process dies and a new one starts: AuditLogger.__init__.
Restart ==
    /\ epoch < MaxRestarts
    /\ epoch' = epoch + 1
    /\ seq_counters' = [k \in Tasks |-> 0]
    /\ last_timestamps' = [k \in Tasks |-> NONE]
    /\ calls' = [t \in Threads |-> [calls[t] EXCEPT !.at = "idle"]]
    /\ UNCHANGED <<clock, trail>>

ThreadStep(t) ==
    \/ StageEvent(t) \/ RefuseOverride(t) \/ ReserveClamped(t) \/ Reserve(t)
    \/ EmitClockSkewWarning(t) \/ Emit(t)

Next == SetClock \/ Restart \/ \E t \in Threads : ThreadStep(t)

Spec == Init /\ [][Next]_vars

-----------------------------------------------------------------------------
\* The numbers of task k the running process has reserved and not yet emitted.
Pending(k) ==
    {calls[t].sequence_number : t \in {u \in Threads : calls[u].task = k /\ calls[u].at \in {"warn", "emit"}}}
    \cup {calls[t].warning : t \in {u \in Threads : calls[u].task = k /\ calls[u].at = "warn"}}

Emitted(e, k) == {trail[i].sequence_number : i \in {j \in DOMAIN trail : trail[j].epoch = e /\ trail[j].task = k}}

\* No number is emitted twice by a process, and none is emitted while another call
\* still holds it: the lock makes the two increments of a clamped reservation atomic.
NumbersUnique ==
    /\ \A i, j \in DOMAIN trail :
          /\ i # j
          /\ trail[i].epoch = trail[j].epoch
          /\ trail[i].task = trail[j].task
          => trail[i].sequence_number # trail[j].sequence_number
    /\ \A k \in Tasks : Pending(k) \cap Emitted(epoch, k) = {}

\* A missing number means an event that has not been emitted yet, or was lost with its
\* process: an AuditOrderingError uses none up, a clamped event uses two and emits two.
Gapless == \A k \in Tasks : Pending(k) \cup Emitted(epoch, k) = 0..(seq_counters[k] - 1)

\* In the order of its numbers the trail of a task never goes back in time, though the
\* clock may, and though a thread may reserve long after it read the clock.
TimestampsFollowNumbers ==
    \A i, j \in DOMAIN trail :
        /\ trail[i].epoch = trail[j].epoch
        /\ trail[i].task = trail[j].task
        /\ trail[i].sequence_number < trail[j].sequence_number
        => trail[i].timestamp <= trail[j].timestamp
=============================================================================
