------------------------- MODULE AuditLoggerProofs -------------------------
(***************************************************************************)
(* Theorems about AuditLogger, for any number of threads, tasks, calls and *)
(* restarts, and a clock that moves in any way.                            *)
(***************************************************************************)
EXTENDS AuditLogger, TLAPS

\* The provers, and their seconds, for a leaf that does not name one.
USE ZenonT(3), SMTT(60), ZenonT(60), SMTT(61)

\* Thread t has reserved number n of its task and not emitted it yet.
Holds(t, n) ==
    \/ calls[t].at \in {"warn", "emit"} /\ n = calls[t].sequence_number
    \/ calls[t].at = "warn" /\ n = calls[t].warning

\* Entry i was emitted for task k by the running process.
Current(i, k) == trail[i].epoch = epoch /\ trail[i].task = k

\* What is reserved or emitted lies below the counter and not after the last timestamp.
BelowCounter ==
    /\ \A i \in DOMAIN trail : trail[i].epoch <= epoch
    /\ \A i \in DOMAIN trail, k \in Tasks : Current(i, k) =>
          /\ trail[i].sequence_number < seq_counters[k]
          /\ last_timestamps[k] # NONE /\ trail[i].timestamp <= last_timestamps[k]
    /\ \A t \in Threads, n \in Nat : Holds(t, n) =>
          /\ n < seq_counters[calls[t].task]
          /\ last_timestamps[calls[t].task] # NONE
          /\ calls[t].timestamp <= last_timestamps[calls[t].task]
    /\ \A t \in Threads : calls[t].at = "warn" =>
          calls[t].warning \in Nat /\ calls[t].warning < calls[t].sequence_number

\* Two reservations of a task differ, and the later one has the later timestamp.
HeldApart ==
    \A t, u \in Threads, n, m \in Nat :
        t # u /\ calls[t].task = calls[u].task /\ Holds(t, n) /\ Holds(u, m) =>
            /\ n # m
            /\ n < m => calls[t].timestamp <= calls[u].timestamp

\* So do a reservation and an entry of a task ...
HeldNotEmitted ==
    \A t \in Threads, n \in Nat, i \in DOMAIN trail :
        Holds(t, n) /\ Current(i, calls[t].task) =>
            /\ n # trail[i].sequence_number
            /\ n < trail[i].sequence_number => calls[t].timestamp <= trail[i].timestamp
            /\ trail[i].sequence_number < n => trail[i].timestamp <= calls[t].timestamp

\* ... and two entries of a task that the same process emitted.
EmittedApart ==
    \A i, j \in DOMAIN trail :
        i # j /\ trail[i].epoch = trail[j].epoch /\ trail[i].task = trail[j].task =>
            /\ trail[i].sequence_number # trail[j].sequence_number
            /\ trail[i].sequence_number < trail[j].sequence_number
                  => trail[i].timestamp <= trail[j].timestamp

\* Every number below the counter is held or has been emitted.
Accounted ==
    \A k \in Tasks, n \in Nat : n < seq_counters[k] =>
        \/ \E t \in Threads : calls[t].task = k /\ Holds(t, n)
        \/ \E i \in DOMAIN trail : Current(i, k) /\ trail[i].sequence_number = n

IInv == TypeOK /\ BelowCounter /\ HeldApart /\ HeldNotEmitted /\ EmittedApart /\ Accounted

-----------------------------------------------------------------------------
\* A step in which no thread comes to hold, or ceases to hold, a number.
LEMMA QuietStep ==
    ASSUME IInv, TypeOK', UNCHANGED <<epoch, seq_counters, last_timestamps, trail>>,
           \A t \in Threads, n \in Nat : Holds(t, n)' => /\ Holds(t, n)
                                                         /\ calls'[t].task = calls[t].task
                                                         /\ calls'[t].timestamp = calls[t].timestamp,
           \A t \in Threads, n \in Nat : Holds(t, n) => Holds(t, n)' /\ calls'[t].task = calls[t].task,
           \A t \in Threads : calls'[t].at = "warn" => calls'[t] = calls[t]
    PROVE  IInv'
<1>1. BelowCounter'
  BY DEF IInv, BelowCounter, Current
<1>2. HeldApart'
  BY DEF IInv, HeldApart
<1>3. HeldNotEmitted'
  BY DEF IInv, HeldNotEmitted, Current
<1>4. EmittedApart'
  BY DEF IInv, EmittedApart
<1>5. Accounted'
  BY DEF IInv, Accounted, Current
<1> QED  BY <1>1, <1>2, <1>3, <1>4, <1>5 DEF IInv

\* StageEvent preserves the inductive invariant.
LEMMA StageEventPreserves == ASSUME IInv, NEW t \in Threads, StageEvent(t) PROVE IInv'
<1>1. PICK k \in Tasks, s \in Stages, override \in BOOLEAN, candidate \in Clock :
        calls' = [calls EXCEPT ![t] =
              [at |-> "reserve", made |-> calls[t].made + 1, task |-> k, stage |-> s,
               override |-> override, timestamp |-> candidate,
               sequence_number |-> 0, warning |-> NONE]]
  BY ZenonT(60) DEF StageEvent
<1>2. calls \in [Threads -> Call] /\ calls[t] \in Call
  BY DEF IInv, TypeOK
<1>3. calls'[t].at = "reserve" /\ \A u \in Threads : u # t => calls'[u] = calls[u]
  BY <1>1, <1>2
<1>4. calls'[t] \in Call
  BY <1>1, <1>2 DEF Call
<1>5. TypeOK'
  BY <1>1, <1>2, <1>4 DEF IInv, TypeOK, StageEvent
<1> QED  BY <1>3, <1>5, QuietStep DEF StageEvent, Holds

\* RefuseOverride preserves the inductive invariant.
LEMMA RefuseOverridePreserves == ASSUME IInv, NEW t \in Threads, RefuseOverride(t) PROVE IInv'
<1>1. calls \in [Threads -> Call] /\ calls[t] \in Call
  BY DEF IInv, TypeOK
<1>2. calls'[t].at = "idle" /\ \A u \in Threads : u # t => calls'[u] = calls[u]
  BY <1>1 DEF RefuseOverride, Call
<1>3. calls'[t] \in Call
  BY <1>1 DEF RefuseOverride, Call
<1>4. TypeOK'
  BY <1>1, <1>3 DEF IInv, TypeOK, RefuseOverride
<1> QED  BY <1>2, <1>4, QuietStep DEF RefuseOverride, Holds

\* A reservation: thread t gets the numbers from the counter on, and the timestamp
\* that is the last one from now on.
LEMMA ReservationStep ==
    ASSUME IInv, TypeOK', NEW t \in Threads, NEW k \in Tasks,
           calls[t].at = "reserve", calls'[t].task = k, UNCHANGED <<epoch, trail>>,
           \A u \in Threads : u # t => calls'[u] = calls[u],
           \A j \in Tasks : j # k => /\ seq_counters'[j] = seq_counters[j]
                                     /\ last_timestamps'[j] = last_timestamps[j],
           last_timestamps'[k] # NONE,
           last_timestamps[k] # NONE => last_timestamps[k] <= last_timestamps'[k],
           calls'[t].timestamp = last_timestamps'[k],
           \A n \in Nat : Holds(t, n)' <=> seq_counters[k] <= n /\ n < seq_counters'[k],
           seq_counters[k] <= seq_counters'[k],
           calls'[t].at = "warn" =>
              calls'[t].warning \in Nat /\ calls'[t].warning < calls'[t].sequence_number
    PROVE  IInv'
<1>1. /\ calls \in [Threads -> Call] /\ trail \in Seq(Entry) /\ calls' \in [Threads -> Call]
      /\ seq_counters \in [Tasks -> Nat] /\ seq_counters' \in [Tasks -> Nat]
      /\ last_timestamps \in [Tasks -> Clock \cup {NONE}]
      /\ last_timestamps' \in [Tasks -> Clock \cup {NONE}]
  BY DEF IInv, TypeOK
<1>2. /\ \A u \in Threads : calls[u].timestamp \in Nat /\ calls[u].task \in Tasks
      /\ \A i \in DOMAIN trail : /\ trail[i].timestamp \in Nat /\ trail[i].task \in Tasks
                                 /\ trail[i].sequence_number \in Nat
      /\ \A j \in Tasks : /\ seq_counters[j] \in Nat /\ seq_counters'[j] \in Nat
                          /\ last_timestamps[j] # NONE => last_timestamps[j] \in Nat
                          /\ last_timestamps'[j] # NONE => last_timestamps'[j] \in Nat
  <2>1. \A x \in Clock : x \in Nat
    BY BoundsAssumption DEF Clock
  <2>2. \A u \in Threads : calls[u].timestamp \in Nat /\ calls[u].task \in Tasks
    BY <1>1, <2>1, ZenonT(60) DEF Call
  <2>3. \A i \in DOMAIN trail : trail[i] \in Entry
    BY <1>1
  <2>4. \A i \in DOMAIN trail : /\ trail[i].timestamp \in Nat /\ trail[i].task \in Tasks
                                 /\ trail[i].sequence_number \in Nat
    BY <2>1, <2>3 DEF Entry
  <2> QED  BY <1>1, <2>1, <2>2, <2>4
<1>3. \A n \in Nat : ~ Holds(t, n)
  BY DEF Holds
<1>4. \A u \in Threads, n \in Nat : u # t => (Holds(u, n)' <=> Holds(u, n))
  BY DEF Holds
<1>5. \A i \in DOMAIN trail, j \in Tasks : Current(i, j)' <=> Current(i, j)
  BY DEF Current
<1>6. BelowCounter'
  BY <1>2, <1>4, <1>5 DEF IInv, BelowCounter
<1>7. HeldApart'
  BY <1>2, <1>3, <1>4 DEF IInv, HeldApart, BelowCounter
<1>8. HeldNotEmitted'
  BY <1>2, <1>4, <1>5 DEF IInv, HeldNotEmitted, BelowCounter
<1>9. EmittedApart'
  BY DEF IInv, EmittedApart
<1>10. Accounted'
  BY <1>2, <1>3, <1>4, <1>5 DEF IInv, Accounted
<1> QED  BY <1>6, <1>7, <1>8, <1>9, <1>10 DEF IInv

\* Reserve preserves the inductive invariant.
LEMMA ReservePreserves == ASSUME IInv, NEW t \in Threads, Reserve(t) PROVE IInv'
<1> DEFINE k == calls[t].task
<1>1. /\ calls \in [Threads -> Call] /\ calls[t] \in Call /\ k \in Tasks
      /\ seq_counters \in [Tasks -> Nat] /\ seq_counters[k] \in Nat
      /\ last_timestamps \in [Tasks -> Clock \cup {NONE}]
      /\ calls[t].timestamp \in Clock
  BY DEF IInv, TypeOK, Call
<1>2. Clock \subseteq Nat /\ NONE \notin Clock
  BY BoundsAssumption, NoneAssumption DEF Clock
<1>3. /\ calls'[t] = [calls[t] EXCEPT !.at = "emit", !.sequence_number = seq_counters[k]]
      /\ \A u \in Threads : u # t => calls'[u] = calls[u]
      /\ DOMAIN calls' = Threads
  BY <1>1 DEF Reserve
<1>4. /\ calls'[t] \in Call
      /\ calls'[t].at = "emit" /\ calls'[t].sequence_number = seq_counters[k]
      /\ calls'[t].task = k /\ calls'[t].timestamp = calls[t].timestamp
  BY <1>1, <1>3, ZenonT(60) DEF Call
<1>5. /\ seq_counters' = [seq_counters EXCEPT ![k] = @ + 1]
      /\ last_timestamps' = [last_timestamps EXCEPT ![k] = calls[t].timestamp]
      /\ UNCHANGED <<clock, epoch, trail>> /\ calls[t].at = "reserve"
      /\ last_timestamps[k] # NONE => ~ (calls[t].timestamp < last_timestamps[k])
      /\ calls' = [calls EXCEPT ![t].at = "emit", ![t].sequence_number = seq_counters[k]]
  BY DEF Reserve, Late
<1>6. TypeOK'
  <2>1. calls' \in [Threads -> Call]
    BY <1>1, <1>3, <1>4, <1>5
  <2> QED  BY <1>1, <1>5, <2>1 DEF IInv, TypeOK
<1>7. \A n \in Nat : Holds(t, n)' <=> seq_counters[k] <= n /\ n < seq_counters'[k]
  BY <1>1, <1>4, <1>5 DEF Holds
<1>8. last_timestamps[k] # NONE => last_timestamps[k] <= calls[t].timestamp
  BY <1>1, <1>2, <1>5
<1>9. /\ last_timestamps'[k] = calls[t].timestamp /\ last_timestamps'[k] # NONE
      /\ seq_counters'[k] = seq_counters[k] + 1
      /\ \A j \in Tasks : j # k => /\ seq_counters'[j] = seq_counters[j]
                                    /\ last_timestamps'[j] = last_timestamps[j]
  BY <1>1, <1>2, <1>5
<1> HIDE DEF k
<1> QED  BY <1>1, <1>3, <1>4, <1>5, <1>6, <1>7, <1>8, <1>9, ReservationStep

\* ReserveClamped preserves the inductive invariant.
LEMMA ReserveClampedPreserves == ASSUME IInv, NEW t \in Threads, ReserveClamped(t) PROVE IInv'
<1> DEFINE k == calls[t].task
<1> DEFINE n0 == seq_counters[k]
<1>1. /\ calls \in [Threads -> Call] /\ calls[t] \in Call /\ k \in Tasks
      /\ seq_counters \in [Tasks -> Nat] /\ n0 \in Nat
      /\ last_timestamps \in [Tasks -> Clock \cup {NONE}]
  BY DEF IInv, TypeOK, Call
<1>2. Clock \subseteq Nat
  BY BoundsAssumption DEF Clock
<1>3. /\ calls' = [calls EXCEPT ![t].at = "warn", ![t].warning = n0,
                                ![t].sequence_number = n0 + 1, ![t].timestamp = last_timestamps[k]]
      /\ seq_counters' = [seq_counters EXCEPT ![k] = @ + 2]
      /\ UNCHANGED <<clock, epoch, last_timestamps, trail>> /\ calls[t].at = "reserve"
      /\ last_timestamps[k] # NONE
  BY DEF ReserveClamped, Late
<1>4. /\ calls'[t] = [calls[t] EXCEPT !.at = "warn", !.warning = n0, !.sequence_number = n0 + 1,
                                      !.timestamp = last_timestamps[k]]
      /\ \A u \in Threads : u # t => calls'[u] = calls[u]
  BY <1>1, <1>3
<1>5. last_timestamps[k] \in Clock /\ last_timestamps[k] \in Nat
  BY <1>1, <1>2, <1>3
<1> HIDE DEF k, n0
<1>6. /\ calls'[t] \in Call
      /\ calls'[t].at = "warn" /\ calls'[t].sequence_number = n0 + 1 /\ calls'[t].warning = n0
      /\ calls'[t].task = k /\ calls'[t].timestamp = last_timestamps[k]
  <2>1. calls[t].task = k
    BY DEF k
  <2>2. DOMAIN calls[t] = {"at", "made", "task", "stage", "override", "timestamp",
                           "sequence_number", "warning"}
    BY <1>1 DEF Call
  <2>3. /\ calls'[t].at = "warn" /\ calls'[t].sequence_number = n0 + 1 /\ calls'[t].warning = n0
        /\ calls'[t].task = k /\ calls'[t].timestamp = last_timestamps[k]
    BY <1>4, <2>1, <2>2
  <2>4. calls'[t] \in Call
    <3>1. n0 + 1 \in Nat /\ n0 \in Nat \cup {NONE} /\ last_timestamps[k] \in Clock
      BY <1>1, <1>5
    <3> QED  BY <1>1, <1>4, <3>1, ZenonT(60) DEF Call
  <2> QED  BY <2>3, <2>4
<1>7. TypeOK'
  <2>1. calls' \in [Threads -> Call]
    BY <1>1, <1>3, <1>4, <1>6
  <2> QED  BY <1>1, <1>3, <2>1 DEF IInv, TypeOK
<1>8. /\ seq_counters'[k] = n0 + 2
      /\ \A j \in Tasks : j # k => seq_counters'[j] = seq_counters[j]
  BY <1>1, <1>3 DEF n0
<1>9. \A n \in Nat : Holds(t, n)' <=> n0 <= n /\ n < seq_counters'[k]
  BY <1>1, <1>6, <1>8 DEF Holds
<1>10. /\ seq_counters[k] <= seq_counters'[k]
       /\ \A n \in Nat : Holds(t, n)' <=> seq_counters[k] <= n /\ n < seq_counters'[k]
  <2>1. n0 <= n0 + 2
    BY <1>1
  <2> QED  BY <1>8, <1>9, <2>1 DEF n0
<1>11. calls'[t].warning \in Nat /\ calls'[t].warning < calls'[t].sequence_number
  <2>1. n0 < n0 + 1
    BY <1>1
  <2> QED  BY <1>1, <1>6, <2>1
<1>12. /\ last_timestamps'[k] = last_timestamps[k] /\ last_timestamps[k] <= last_timestamps[k]
       /\ \A j \in Tasks : last_timestamps'[j] = last_timestamps[j]
  BY <1>3, <1>5
<1>13. last_timestamps[k] # NONE /\ calls[t].at = "reserve" /\ UNCHANGED <<epoch, trail>>
  BY <1>3
<1> QED  BY <1>1, <1>4, <1>6, <1>7, <1>8, <1>10, <1>11, <1>12, <1>13, ReservationStep,
         ZenonT(60)

\* An emission: a number thread t holds goes into the trail.
LEMMA EmissionStep ==
    ASSUME IInv, TypeOK', NEW t \in Threads, NEW n \in Nat, Holds(t, n),
           trail' = Append(trail, EntryOf(calls[t], n)),
           UNCHANGED <<epoch, seq_counters, last_timestamps>>,
           calls'[t].task = calls[t].task, calls'[t].timestamp = calls[t].timestamp,
           \A u \in Threads : u # t => calls'[u] = calls[u],
           \A m \in Nat : Holds(t, m)' <=> Holds(t, m) /\ m # n,
           \A m \in Nat : Holds(t, m)' => n < m,
           calls'[t].at # "warn"
    PROVE  IInv'
<1> DEFINE k == calls[t].task
<1>0. PICK new : new = Len(trail) + 1
  OBVIOUS
<1>1. /\ calls \in [Threads -> Call] /\ trail \in Seq(Entry) /\ trail' \in Seq(Entry)
      /\ k \in Tasks /\ epoch \in Nat
      /\ \A u \in Threads : calls[u].task \in Tasks /\ calls[u].timestamp \in Clock
  BY DEF IInv, TypeOK, Call
<1>2. Clock \subseteq Nat
  BY BoundsAssumption DEF Clock
<1>3. /\ DOMAIN trail' = DOMAIN trail \cup {new} /\ new \notin DOMAIN trail
      /\ \A i \in DOMAIN trail : trail'[i] = trail[i]
      /\ trail'[new] = EntryOf(calls[t], n)
  BY <1>0, <1>1
<1>4. /\ trail'[new].epoch = epoch /\ trail'[new].task = k
      /\ trail'[new].sequence_number = n /\ trail'[new].timestamp = calls[t].timestamp
  BY <1>3 DEF EntryOf
<1>5. \A i \in DOMAIN trail : trail[i] \in Entry
  BY <1>1
<1>6. \A i \in DOMAIN trail : /\ trail[i].timestamp \in Nat /\ trail[i].task \in Tasks
                               /\ trail[i].sequence_number \in Nat /\ trail[i].epoch \in Nat
  BY <1>2, <1>5, ZenonT(60) DEF Entry
<1>7. \A u \in Threads, m \in Nat : u # t => (Holds(u, m)' <=> Holds(u, m))
  BY DEF Holds
<1>8. /\ \A i \in DOMAIN trail, j \in Tasks : Current(i, j)' <=> Current(i, j)
      /\ \A j \in Tasks : Current(new, j)' <=> j = k
  BY <1>3, <1>4 DEF Current
<1>9. /\ \A u \in Threads : calls'[u].task = calls[u].task /\ calls'[u].timestamp = calls[u].timestamp
      /\ \A u \in Threads, m \in Nat : Holds(u, m)' => Holds(u, m)
  BY <1>7
<1> HIDE DEF k
<1>10. BelowCounter'
  <2>1. n < seq_counters[k] /\ last_timestamps[k] # NONE /\ calls[t].timestamp <= last_timestamps[k]
    BY DEF IInv, BelowCounter, k
  <2>2. \A i \in DOMAIN trail', j \in Tasks : Current(i, j)' =>
          /\ trail'[i].sequence_number < seq_counters[j]
          /\ last_timestamps[j] # NONE /\ trail'[i].timestamp <= last_timestamps[j]
    BY <1>3, <1>4, <1>8, <2>1 DEF IInv, BelowCounter
  <2>3. \A i \in DOMAIN trail' : trail'[i].epoch <= epoch'
    BY <1>1, <1>3, <1>4 DEF IInv, BelowCounter
  <2> QED  BY <1>9, <2>2, <2>3 DEF IInv, BelowCounter
<1>11. HeldApart'
  BY <1>9 DEF IInv, HeldApart
<1>12. HeldNotEmitted'
  <2> SUFFICES ASSUME NEW u \in Threads, NEW m \in Nat, NEW i \in DOMAIN trail',
                      Holds(u, m)', trail'[i].epoch = epoch, trail'[i].task = calls[u].task
               PROVE  /\ m # trail'[i].sequence_number
                      /\ m < trail'[i].sequence_number => calls[u].timestamp <= trail'[i].timestamp
                      /\ trail'[i].sequence_number < m => trail'[i].timestamp <= calls[u].timestamp
    BY <1>9 DEF HeldNotEmitted, Current
  <2>1. CASE i \in DOMAIN trail
    BY <1>3, <1>9, <2>1 DEF IInv, HeldNotEmitted, Current
  <2>2. CASE i = new /\ u = t
    <3>1. n < m
      BY <2>2
    <3>2. calls[t].timestamp \in Nat
      BY <1>1, <1>2, ZenonT(60)
    <3> QED  BY <1>4, <2>2, <3>1, <3>2
  <2>3. CASE i = new /\ u # t
    <3>1. calls[u].task = k /\ Holds(u, m)
      BY <1>4, <1>9, <2>3
    <3> QED  BY <1>4, <2>3, <3>1 DEF IInv, HeldApart, k
  <2> QED  BY <1>3, <2>1, <2>2, <2>3
<1>13. EmittedApart'
  <2>1. ASSUME NEW i \in DOMAIN trail, trail[i].epoch = epoch, trail[i].task = k
        PROVE  /\ n # trail[i].sequence_number
               /\ n < trail[i].sequence_number => calls[t].timestamp <= trail[i].timestamp
               /\ trail[i].sequence_number < n => trail[i].timestamp <= calls[t].timestamp
    BY <2>1 DEF IInv, HeldNotEmitted, Current, k
  <2> SUFFICES ASSUME NEW i \in DOMAIN trail', NEW j \in DOMAIN trail', i # j,
                      trail'[i].epoch = trail'[j].epoch, trail'[i].task = trail'[j].task
               PROVE  /\ trail'[i].sequence_number # trail'[j].sequence_number
                      /\ trail'[i].sequence_number < trail'[j].sequence_number
                            => trail'[i].timestamp <= trail'[j].timestamp
    BY DEF EmittedApart
  <2>2. CASE i \in DOMAIN trail /\ j \in DOMAIN trail
    BY <1>3, <2>2 DEF IInv, EmittedApart
  <2>3. CASE i = new /\ j \in DOMAIN trail
    BY <1>3, <1>4, <2>1, <2>3
  <2>4. CASE i \in DOMAIN trail /\ j = new
    BY <1>3, <1>4, <2>1, <2>4
  <2> QED  BY <1>3, <2>2, <2>3, <2>4
<1>14. Accounted'
  <2> SUFFICES ASSUME NEW j \in Tasks, NEW m \in Nat, m < seq_counters[j]
               PROVE  \/ \E u \in Threads : calls'[u].task = j /\ Holds(u, m)'
                      \/ \E i \in DOMAIN trail' : Current(i, j)' /\ trail'[i].sequence_number = m
    BY DEF Accounted
  <2>1. CASE \E i \in DOMAIN trail : Current(i, j) /\ trail[i].sequence_number = m
    BY <1>3, <1>8, <2>1
  <2>2. ASSUME NEW u \in Threads, calls[u].task = j, Holds(u, m), ~ Holds(u, m)'
        PROVE  Current(new, j)' /\ trail'[new].sequence_number = m
    BY <1>4, <1>7, <1>8, <2>2 DEF k
  <2>3. CASE \E u \in Threads : calls[u].task = j /\ Holds(u, m)
    BY <1>3, <1>9, <2>2, <2>3
  <2> QED  BY <2>1, <2>3 DEF IInv, Accounted
<1> QED  BY <1>10, <1>11, <1>12, <1>13, <1>14 DEF IInv

\* Emit preserves the inductive invariant.
LEMMA EmitPreserves == ASSUME IInv, NEW t \in Threads, Emit(t) PROVE IInv'
<1> DEFINE n == calls[t].sequence_number
<1>1. /\ calls \in [Threads -> Call] /\ calls[t] \in Call /\ n \in Nat /\ epoch \in Nat
      /\ trail \in Seq(Entry)
  BY DEF IInv, TypeOK, Call
<1>2. /\ calls[t].at = "emit" /\ trail' = Append(trail, EntryOf(calls[t], n))
      /\ calls' = [calls EXCEPT ![t].at = "idle"]
      /\ UNCHANGED <<clock, epoch, seq_counters, last_timestamps>>
  BY DEF Emit
<1>3. /\ calls'[t] \in Call /\ calls'[t].at = "idle"
      /\ calls'[t].task = calls[t].task /\ calls'[t].timestamp = calls[t].timestamp
      /\ \A u \in Threads : u # t => calls'[u] = calls[u]
  BY <1>1, <1>2, ZenonT(60) DEF Call
<1>4. EntryOf(calls[t], n) \in Entry
  BY <1>1 DEF EntryOf, Entry, Call
<1>5. TypeOK'
  BY <1>1, <1>2, <1>3, <1>4 DEF IInv, TypeOK
<1>6. Holds(t, n) /\ \A m \in Nat : (Holds(t, m) => m = n) /\ ~ Holds(t, m)'
  BY <1>2, <1>3 DEF Holds
<1> HIDE DEF n
<1> QED  BY <1>1, <1>2, <1>3, <1>5, <1>6, EmissionStep

\* EmitWarning preserves the inductive invariant.
LEMMA EmitWarningPreserves ==
    ASSUME IInv, NEW t \in Threads, EmitClockSkewWarning(t)
    PROVE  IInv'
<1> DEFINE n == calls[t].warning
<1>1. /\ calls \in [Threads -> Call] /\ calls[t] \in Call /\ epoch \in Nat
      /\ trail \in Seq(Entry)
  BY DEF IInv, TypeOK
<1>2. /\ calls[t].at = "warn" /\ trail' = Append(trail, EntryOf(calls[t], n))
      /\ calls' = [calls EXCEPT ![t].at = "emit", ![t].warning = NONE]
      /\ UNCHANGED <<clock, epoch, seq_counters, last_timestamps>>
  BY DEF EmitClockSkewWarning
<1>3. n \in Nat /\ n < calls[t].sequence_number
  BY <1>2 DEF IInv, BelowCounter
<1>4. /\ calls'[t] \in Call /\ calls'[t].at = "emit"
      /\ calls'[t].task = calls[t].task /\ calls'[t].timestamp = calls[t].timestamp
      /\ calls'[t].sequence_number = calls[t].sequence_number
      /\ \A u \in Threads : u # t => calls'[u] = calls[u]
  BY <1>1, <1>2, ZenonT(60) DEF Call
<1>5. EntryOf(calls[t], n) \in Entry
  BY <1>1, <1>3 DEF EntryOf, Entry, Call
<1>6. TypeOK'
  BY <1>1, <1>2, <1>4, <1>5 DEF IInv, TypeOK
<1>7. /\ Holds(t, n) /\ calls[t].sequence_number \in Nat
      /\ \A m \in Nat : Holds(t, m)' <=> m = calls[t].sequence_number
      /\ \A m \in Nat : Holds(t, m) <=> m = n \/ m = calls[t].sequence_number
  BY <1>1, <1>2, <1>4 DEF Holds, Call
<1> HIDE DEF n
<1>8. \A m \in Nat : (Holds(t, m)' <=> Holds(t, m) /\ m # n) /\ (Holds(t, m)' => n < m)
  BY <1>3, <1>7
<1> QED  BY <1>1, <1>2, <1>3, <1>4, <1>6, <1>7, <1>8, EmissionStep, ZenonT(60)

\* SetClock preserves the inductive invariant.
LEMMA SetClockPreserves == ASSUME IInv, SetClock PROVE IInv'
<1>1. TypeOK'
  BY DEF IInv, TypeOK, SetClock
<1> QED  BY <1>1, QuietStep DEF SetClock, Holds

\* Restart preserves the inductive invariant.
LEMMA RestartPreserves == ASSUME IInv, Restart PROVE IInv'
<1>1. /\ calls \in [Threads -> Call] /\ epoch \in Nat /\ trail \in Seq(Entry)
      /\ epoch' = epoch + 1 /\ UNCHANGED <<clock, trail>>
      /\ seq_counters' = [k \in Tasks |-> 0] /\ last_timestamps' = [k \in Tasks |-> NONE]
      /\ calls' = [t \in Threads |-> [calls[t] EXCEPT !.at = "idle"]]
  BY DEF IInv, TypeOK, Restart
<1>2. \A t \in Threads : calls'[t] \in Call /\ calls'[t].at = "idle"
  <2> SUFFICES ASSUME NEW t \in Threads PROVE calls'[t] \in Call /\ calls'[t].at = "idle"
    OBVIOUS
  <2>1. calls'[t] = [calls[t] EXCEPT !.at = "idle"] /\ calls[t] \in Call
    BY <1>1
  <2> QED  BY <2>1 DEF Call
<1>3. TypeOK'
  BY <1>1, <1>2 DEF IInv, TypeOK
<1>4. \A i \in DOMAIN trail : trail[i].epoch \in Nat /\ trail[i].epoch <= epoch
  <2>1. \A i \in DOMAIN trail : trail[i] \in Entry
    BY <1>1
  <2> QED  BY <2>1 DEF IInv, BelowCounter, Entry
<1>5. /\ \A t \in Threads, n \in Nat : ~ Holds(t, n)'
      /\ \A i \in DOMAIN trail, k \in Tasks : ~ Current(i, k)'
  BY <1>1, <1>2, <1>4 DEF Holds, Current
<1>6. BelowCounter'
  BY <1>1, <1>2, <1>4, <1>5 DEF BelowCounter
<1>7. HeldApart' /\ Accounted'
  BY <1>1, <1>5 DEF HeldApart, Accounted
<1>8. HeldNotEmitted'
  BY <1>5 DEF HeldNotEmitted
<1>9. EmittedApart'
  BY <1>1 DEF IInv, EmittedApart
<1> QED  BY <1>3, <1>6, <1>7, <1>8, <1>9 DEF IInv

-----------------------------------------------------------------------------
\* The initial states satisfy the inductive invariant.
LEMMA InitEstablishes == Init => IInv
<1> SUFFICES ASSUME Init PROVE IInv
  OBVIOUS
<1>1. TypeOK
  <2>1. 0 \in Clock
    BY BoundsAssumption DEF Clock
  <2>2. NoCall \subseteq Call
    <3>1. /\ {"idle"} \subseteq {"idle", "reserve", "warn", "emit"} /\ {0} \subseteq Nat
          /\ {0} \subseteq Clock /\ {NONE} \subseteq Nat \cup {NONE}
      BY <2>1
    <3>2. {FALSE} \subseteq BOOLEAN
      OBVIOUS
    <3> QED  BY <3>1, <3>2, ZenonT(60) DEF NoCall, Call
  <2>3. calls \in [Threads -> Call]
    BY <2>2 DEF Init
  <2> QED  BY <2>3 DEF Init, TypeOK
<1>2. DOMAIN trail = {} /\ \A t \in Threads : calls[t].at = "idle"
  <2>1. \A c \in NoCall : c.at = "idle"
    BY DEF NoCall
  <2> QED  BY <2>1 DEF Init
<1>3. \A t \in Threads, n \in Nat : ~ Holds(t, n)
  BY <1>2 DEF Holds
<1>4. BelowCounter /\ HeldApart /\ HeldNotEmitted /\ EmittedApart
  BY <1>2, <1>3 DEF BelowCounter, HeldApart, HeldNotEmitted, EmittedApart
<1>5. Accounted
  BY DEF Init, Accounted
<1> QED  BY <1>1, <1>4, <1>5 DEF IInv

\* Every step, and stuttering, preserves the inductive invariant.
LEMMA NextPreserves == IInv /\ [Next]_vars => IInv'
<1> SUFFICES ASSUME IInv, [Next]_vars PROVE IInv'
  OBVIOUS
<1>1. CASE SetClock  BY <1>1, SetClockPreserves
<1>2. CASE Restart  BY <1>2, RestartPreserves
<1>3. ASSUME NEW t \in Threads, ThreadStep(t) PROVE IInv'
  BY <1>3, StageEventPreserves, RefuseOverridePreserves, ReserveClampedPreserves,
     ReservePreserves, EmitWarningPreserves, EmitPreserves DEF ThreadStep
<1>4. CASE UNCHANGED vars
  <2>1. TypeOK'
    BY <1>4 DEF IInv, TypeOK, vars
  <2> QED  BY <1>4, <2>1, QuietStep DEF vars, Holds
<1> QED  BY <1>1, <1>2, <1>3, <1>4 DEF Next

\* The inductive invariant holds at every step of AuditLogger.
THEOREM Invariance == Spec => []IInv
BY InitEstablishes, NextPreserves, PTL DEF Spec

\* The state of AuditLogger and the entries of the trail keep their types.
THEOREM TypeCorrectness == Spec => []TypeOK
<1>1. IInv => TypeOK
  BY DEF IInv
<1> QED  BY Invariance, <1>1, PTL

\* AuditLogger gives no number of a task out twice while a process runs.
THEOREM NumbersAreUnique == Spec => []NumbersUnique
<1>1. IInv => NumbersUnique
  <2> SUFFICES ASSUME IInv PROVE NumbersUnique
    OBVIOUS
  <2>1. ASSUME NEW k \in Tasks, NEW n \in Pending(k) \cap Emitted(epoch, k) PROVE FALSE
    <3>1. PICK i \in DOMAIN trail : Current(i, k) /\ trail[i].sequence_number = n
      BY <2>1 DEF Emitted, Current
    <3>2. PICK t \in Threads : calls[t].task = k /\ Holds(t, n)
      BY <2>1 DEF Pending, Holds
    <3>3. n \in Nat
      <4>1. trail[i] \in Entry
        BY DEF IInv, TypeOK
      <4> QED  BY <3>1, <4>1 DEF Entry
    <3> QED  BY <3>1, <3>2, <3>3 DEF IInv, HeldNotEmitted
  <2> QED  BY <2>1 DEF NumbersUnique, IInv, EmittedApart
<1> QED  BY Invariance, <1>1, PTL

\* AuditLogger loses no number: what is below the counter is in the trail, or about to be.
THEOREM NumbersAreGapless == Spec => []Gapless
<1>1. IInv => Gapless
  <2> SUFFICES ASSUME IInv, NEW k \in Tasks
               PROVE  Pending(k) \cup Emitted(epoch, k) = 0..(seq_counters[k] - 1)
    BY DEF Gapless
  <2>1. /\ calls \in [Threads -> Call] /\ seq_counters[k] \in Nat
        /\ \A i \in DOMAIN trail : trail[i] \in Entry
    BY DEF IInv, TypeOK
  <2>2. ASSUME NEW n \in 0..(seq_counters[k] - 1) PROVE n \in Pending(k) \cup Emitted(epoch, k)
    <3>1. n \in Nat /\ n < seq_counters[k]
      BY <2>1
    <3>2. CASE \E t \in Threads : calls[t].task = k /\ Holds(t, n)
      BY <3>2 DEF Pending, Holds
    <3>3. CASE \E i \in DOMAIN trail : Current(i, k) /\ trail[i].sequence_number = n
      BY <3>3 DEF Emitted, Current
    <3> QED  BY <3>1, <3>2, <3>3 DEF IInv, Accounted
  <2>3. ASSUME NEW n \in Emitted(epoch, k) PROVE n \in 0..(seq_counters[k] - 1)
    <3>1. PICK i \in DOMAIN trail : Current(i, k) /\ trail[i].sequence_number = n
      BY <2>3 DEF Emitted, Current
    <3>2. n \in Nat /\ n < seq_counters[k]
      BY <2>1, <3>1 DEF IInv, BelowCounter, Entry
    <3> QED  BY <2>1, <3>2
  <2>4. ASSUME NEW n \in Pending(k) PROVE n \in 0..(seq_counters[k] - 1)
    <3>1. PICK t \in Threads : calls[t].task = k /\ Holds(t, n)
      BY <2>4 DEF Pending, Holds
    <3>2. n \in Nat
      BY <2>1, <3>1 DEF Holds, Call, IInv, BelowCounter
    <3>3. n < seq_counters[k]
      BY <3>1, <3>2 DEF IInv, BelowCounter
    <3> QED  BY <2>1, <3>2, <3>3
  <2> QED  BY <2>2, <2>3, <2>4
<1> QED  BY Invariance, <1>1, PTL

\* AuditLogger's clamp keeps the timestamps of a task in the order of its numbers.
THEOREM TimestampsAreOrdered == Spec => []TimestampsFollowNumbers
<1>1. IInv => TimestampsFollowNumbers
  <2> SUFFICES ASSUME IInv, NEW i \in DOMAIN trail, NEW j \in DOMAIN trail,
                      trail[i].epoch = trail[j].epoch, trail[i].task = trail[j].task,
                      trail[i].sequence_number < trail[j].sequence_number
               PROVE  trail[i].timestamp <= trail[j].timestamp
    BY DEF TimestampsFollowNumbers
  <2>1. trail[i] \in Entry
    BY DEF IInv, TypeOK
  <2>2. i # j
    BY <2>1 DEF Entry
  <2> QED  BY <2>2 DEF IInv, EmittedApart
<1> QED  BY Invariance, <1>1, PTL
=============================================================================
