------------------------------ MODULE Telemetry ------------------------------
(***************************************************************************)
(* The Agent's telemetry: the protected buffer of records that wait for    *)
(* the Hub, the diagnostic leases under which detailed (debug) records may *)
(* be written, and the channel that sends batches and reads their answers. *)
(*                                                                         *)
(*   telemetry.rs  TelemetryState: a bounded queue, the claim that ties    *)
(*                 every debug record to its lease and digest, the lease   *)
(*                 receipts, all written to one file by persist            *)
(*   runtime.rs    run_telemetry_forever: one connection after another,    *)
(*                 one batch in flight, a tick of 100 ms                   *)
(*                                                                         *)
(* Every error inside run_telemetry_once ends the connection, and with it  *)
(* every active lease (cancel_detail_on_disconnect). Gauge metrics, bytes  *)
(* (the queue is bounded by records only) and the contents of a log chunk  *)
(* are left out; the names of the dropped and rejected counters are merged *)
(* into one count. An answer that names an old batch is ignored and is     *)
(* therefore not a step.                                                   *)
(***************************************************************************)
EXTENDS Naturals, FiniteSets, Sequences

CONSTANTS Leases,       \* lease instances the Hub may send
          AgentLeases,  \* those that target the Agent; the others, a task run
          LongLeases,   \* those that last longer than MAX_AGE, which no check forbids
          NoLease,      \* the lease of a record that is not detailed
          Capacity,     \* MAX_RECORDS
          BatchSize,    \* hello.max_batch_records
          MaxEvents,    \* bound: events and commands recorded
          MaxMishaps    \* bound: restarts, lost connections, failed writes, waits,
                        \* refusals, log reads

VARIABLES
  buffer,      \* records, claims, receipts, source_sequence, dropped + rejected
  saved,       \* telemetry-buffer.json
  rooted,      \* is there a protected directory (root) to write to?
  active,      \* active_leases
  lapsed,      \* leases whose deadline has passed
  generation,  \* process_generation_id, counted
  link,        \* is the telemetry channel open?
  wire,        \* the batch in flight, or the Hub's answer to it
  log,         \* active_log_request and pending_log_chunks
  events, mishaps

vars == <<buffer, saved, rooted, active, lapsed, generation, link, wire, log, events, mishaps>>

NoReceipt == [disposition |-> "none", boundary |-> 0, generation |-> 0, old |-> FALSE]

IdleLog == [busy |-> FALSE, chunks |-> 0]

EmptyBuffer == [records |-> {}, claims |-> {}, receipts |-> [l \in Leases |-> NoReceipt],
                sequence |-> 0, uncounted |-> 0]

-----------------------------------------------------------------------------
(* The buffer. Its records are in the order of their ids: a record takes   *)
(* the next sequence of the newest process and goes to the end. A claim is *)
(* made when the record is queued and again when the record's digest       *)
(* changes; it names the digest, here the delayed flag.                    *)

Before(r, s) == r.id[1] < s.id[1] \/ (r.id[1] = s.id[1] /\ r.id[2] < s.id[2])

First(records) == CHOOSE r \in records : \A s \in records : ~Before(s, r)

ClaimOf(r) == [id |-> r.id, lease |-> r.lease, delayed |-> r.delayed]

RemoveClaim(claims, r) == {c \in claims : c.lease # r.lease \/ c.id # r.id}

\* Mutant: as Enqueue, with the queue allowed to grow.
EnqueueUnbounded(b, r) ==
  [b EXCEPT !.records = b.records \cup {r},
            !.claims = IF r.lease = NoLease THEN b.claims ELSE b.claims \cup {ClaimOf(r)}]

\* Queues a record; a full queue evicts its first detailed or unimportant one.
Enqueue(b, r) ==
  LET queued  == b.records \cup {r}
      claimed == IF r.lease = NoLease THEN b.claims ELSE b.claims \cup {ClaimOf(r)}
      minor   == {x \in queued : x.lease # NoLease \/ x.severity # "warn"}
      evicted == First(IF minor = {} THEN queued ELSE minor)
  IN IF Cardinality(queued) <= Capacity
     THEN [b EXCEPT !.records = queued, !.claims = claimed]
     ELSE [b EXCEPT !.records = queued \ {evicted},
                    !.claims = RemoveClaim(claimed, evicted),
                    !.uncounted = b.uncounted + 1]

\* A new record takes the next source sequence of this process.
Record(b, process, severity, lease) ==
  Enqueue([b EXCEPT !.sequence = b.sequence + 1],
          [id |-> <<process, b.sequence + 1>>, severity |-> severity, lease |-> lease,
           delayed |-> FALSE, age |-> 0])

\* Drops what is older than MAX_AGE, and every claim without its record.
Prune(b) ==
  LET young == {r \in b.records : r.age < 2}
  IN [b EXCEPT !.records = young,
               !.receipts = [l \in Leases |-> IF b.receipts[l].old THEN NoReceipt
                                                                   ELSE b.receipts[l]],
               !.claims = {c \in b.claims : \E r \in young : c = ClaimOf(r)},
               !.uncounted = b.uncounted + Cardinality(b.records \ young)]

\* The records lost since the last counter metric are reported by a new one.
FlushCounters(b) ==
  IF b.uncounted = 0 THEN b
  ELSE LET counted == Record(b, generation, "info", NoLease)
       IN [counted EXCEPT !.uncounted = counted.uncounted - b.uncounted]

Delayed(r) == [r EXCEPT !.delayed = TRUE]

\* Mutant: as MarkDelayed, with the claims left as they were.
MarkDelayedOnly(b) ==
  LET late == {r \in b.records : r.age > 0 /\ ~r.delayed}
  IN [b EXCEPT !.records = (b.records \ late) \cup {Delayed(r) : r \in late}]

\* Records that waited 5 s are marked, which changes their digest and claim.
MarkDelayed(b) ==
  LET late    == {r \in b.records : r.age > 0 /\ ~r.delayed}
      claimed == {r \in late : r.lease # NoLease}
  IN [b EXCEPT !.records = (b.records \ late) \cup {Delayed(r) : r \in late},
               !.claims = {c \in b.claims : \A r \in claimed : c \in RemoveClaim({c}, r)}
                            \cup {ClaimOf(Delayed(r)) : r \in claimed}]

ClaimsValid(b) == \A r \in b.records : r.lease # NoLease => ClaimOf(r) \in b.claims

\* What one persist writes; without a protected directory it writes nothing.
Persisted(b) ==
  IF rooted THEN [records |-> b.records, claims |-> b.claims, receipts |-> b.receipts]
            ELSE saved

\* A write may fail, but only where there is a file to write.
MayFail(fails) == fails => rooted /\ mishaps < MaxMishaps

Write(b, fails) == /\ MayFail(fails)
                   /\ buffer' = b
                   /\ saved' = IF fails THEN saved ELSE Persisted(b)

Mishap(happens) == mishaps' = IF happens THEN mishaps + 1 ELSE mishaps

-----------------------------------------------------------------------------
(* Leases.                                                                 *)

Live == active \ lapsed

\* The lease a record is written under: a task run's own before the Agent's.
MatchingLeases(forTask) ==
  LET own == IF forTask THEN Live \ AgentLeases ELSE {}
  IN IF own # {} THEN own ELSE Live \cap AgentLeases

ReceiptNow(b, disposition) ==
  [disposition |-> disposition, boundary |-> b.sequence + 1, generation |-> generation,
   old |-> FALSE]

Remember(b, l, disposition) == [b EXCEPT !.receipts[l] = ReceiptNow(b, disposition)]

\* Any error ends the connection; its leases, batch and log read go with it.
LinkLost == /\ link' = "down"
            /\ wire' = <<>>
            /\ log' = IdleLog
            /\ active' = {}

-----------------------------------------------------------------------------
(* What the rest of the Agent records.                                     *)

\* An event: a session established, a local shutdown, an enrolment.
RecordEvent(severity, fails) ==
  /\ events < MaxEvents
  /\ Write(Record(buffer, generation, severity, NoLease), fails)
  /\ events' = events + 1
  /\ Mishap(fails)
  /\ UNCHANGED <<rooted, active, lapsed, generation, link, wire, log>>

\* A command's span, and before it a debug record when a lease asks for detail.
RecordCommandSpan(forTask, fails) ==
  /\ events < MaxEvents
  /\ LET matching == MatchingLeases(forTask)
     IN IF matching = {}
        THEN Write(Record(buffer, generation, "info", NoLease), fails)
        ELSE \E l \in matching :
               LET detailed == Record(buffer, generation, "debug", l)
               IN \/ fails /\ Write(detailed, TRUE)
                  \/ ~fails /\ Write(Record(detailed, generation, "info", NoLease), FALSE)
  /\ events' = events + 1
  /\ Mishap(fails)
  /\ UNCHANGED <<rooted, active, lapsed, generation, link, wire, log>>

-----------------------------------------------------------------------------
(* The channel.                                                            *)

Connect ==
  /\ link = "down"
  /\ link' = "up"
  /\ UNCHANGED <<buffer, saved, rooted, active, lapsed, generation, wire, log, events, mishaps>>

Disconnect ==
  /\ link = "up" /\ mishaps < MaxMishaps
  /\ LinkLost
  /\ Mishap(TRUE)
  /\ UNCHANGED <<buffer, saved, rooted, lapsed, generation, events>>

\* A lease that is already known is answered from its receipt and not applied.
HandleLease(l, fails) ==
  /\ link = "up"
  /\ buffer.receipts[l].disposition = "none"
  /\ MayFail(fails)
  /\ LET valid == rooted /\ l \notin lapsed
     IN IF fails
        THEN LinkLost /\ UNCHANGED <<buffer, saved>>
        ELSE /\ buffer' = Remember(buffer, l, IF valid THEN "applied" ELSE "rejected")
             /\ saved' = Persisted(buffer')
             /\ active' = IF valid THEN active \cup {l} ELSE active
             /\ UNCHANGED <<link, wire, log>>
  /\ Mishap(fails)
  /\ UNCHANGED <<rooted, lapsed, generation, events>>

\* Mutant: as HandleRevoke, with the revoked lease still among the active ones.
HandleRevokeKeeps(l, matches, fails) ==
  /\ link = "up" /\ ~fails
  /\ buffer.receipts[l].disposition # "revoked"
  /\ buffer' = Remember(buffer, l, "revoked")
  /\ saved' = Persisted(buffer')
  /\ UNCHANGED <<rooted, active, lapsed, generation, link, wire, log, events, mishaps>>

\* "matches" says whether the revoke names the lease as it was applied.
HandleRevoke(l, matches, fails) ==
  /\ link = "up"
  /\ buffer.receipts[l].disposition # "revoked"
  /\ MayFail(fails)
  /\ LET known == l \in active \/ buffer.receipts[l].disposition = "applied"
         valid == matches /\ known
     IN IF fails
        THEN LinkLost /\ UNCHANGED <<buffer, saved>>
        ELSE /\ buffer' = Remember(buffer, l, IF valid THEN "revoked" ELSE "rejected")
             /\ saved' = Persisted(buffer')
             /\ active' = IF valid THEN active \ {l} ELSE active
             /\ log' = CASE l \notin AgentLeases -> log
                         [] valid -> IdleLog
                         [] OTHER -> [log EXCEPT !.busy = FALSE]
             /\ UNCHANGED <<link, wire>>
  /\ Mishap(fails)
  /\ UNCHANGED <<rooted, lapsed, generation, events>>

Lapse(l) ==
  /\ l \in active \ lapsed
  /\ lapsed' = lapsed \cup {l}
  /\ UNCHANGED <<buffer, saved, rooted, active, generation, link, wire, log, events, mishaps>>

\* The tick's first half: leases past their deadline end with a receipt.
ExpireLeases(fails) ==
  /\ link = "up"
  /\ active \cap lapsed # {}
  /\ MayFail(fails)
  /\ LET over    == active \cap lapsed
         expired == [buffer EXCEPT !.receipts =
                       [l \in Leases |-> IF l \in over THEN ReceiptNow(buffer, "expired")
                                                       ELSE buffer.receipts[l]]]
     IN IF fails
        THEN LinkLost /\ UNCHANGED <<buffer, saved>>
        ELSE /\ buffer' = expired
             /\ saved' = Persisted(expired)
             /\ active' = active \ over
             /\ log' = IF over \cap AgentLeases # {} THEN IdleLog ELSE log
             /\ UNCHANGED <<link, wire>>
  /\ Mishap(fails)
  /\ UNCHANGED <<rooted, lapsed, generation, events>>

\* The first records that fit; their answer is still to come.
BatchOf(records) ==
  LET first == {r \in records : Cardinality({s \in records : Before(s, r)}) < BatchSize}
  IN [answer |-> "none", ids |-> {r.id : r \in first}]

\* The tick's second half: next_batch, when no log chunk and no batch waits.
BatchDue == link = "up" /\ wire = <<>> /\ log.chunks = 0 /\ active \cap lapsed = {}

SendBatch ==
  /\ BatchDue
  /\ \E flushed \in {FlushCounters(Prune(buffer))} : buffer' = MarkDelayed(flushed)
  /\ saved' = IF buffer' = buffer THEN saved ELSE Persisted(buffer')
  /\ IF ClaimsValid(buffer')
     THEN /\ wire' = IF buffer'.records = {} THEN <<>> ELSE <<BatchOf(buffer'.records)>>
          /\ UNCHANGED <<active, link, log>>
     ELSE LinkLost
  /\ UNCHANGED <<rooted, lapsed, generation, events, mishaps>>

\* next_batch gives up at the first stage whose write fails; the stages before it
\* are in the file, this one only in memory.
BatchWriteFails ==
  /\ BatchDue
  /\ MayFail(TRUE)
  /\ \E pruned \in {Prune(buffer)} : \E flushed \in {FlushCounters(pruned)} :
       LET stage(before, after, left) ==
             /\ after # before
             /\ buffer' = left
             /\ saved' = IF before = buffer THEN saved ELSE Persisted(before)
       IN \/ stage(buffer, pruned, pruned)
          \/ stage(pruned, flushed,
                   [flushed EXCEPT !.uncounted = flushed.uncounted + pruned.uncounted])
          \/ stage(flushed, MarkDelayed(flushed), MarkDelayed(flushed))
  /\ LinkLost
  /\ Mishap(TRUE)
  /\ UNCHANGED <<rooted, lapsed, generation, events>>

\* The Hub answers a batch: accepted or duplicate, rejected for good, or later.
HubAnswers(disposition) ==
  /\ wire # <<>> /\ wire[1].answer = "none"
  /\ disposition # "accepted" => mishaps < MaxMishaps
  /\ wire' = <<[wire[1] EXCEPT !.answer = disposition]>>
  /\ Mishap(disposition # "accepted")
  /\ UNCHANGED <<buffer, saved, rooted, active, lapsed, generation, link, log, events>>

Settled(b, ids, disposition) ==
  LET gone == {r \in b.records : r.id \in ids}
  IN IF disposition = "retry" THEN b
     ELSE [b EXCEPT !.records = b.records \ gone,
                    !.claims = {c \in b.claims : c.id \notin ids},
                    !.uncounted = IF disposition = "rejected"
                                  THEN b.uncounted + Cardinality(gone) ELSE b.uncounted]

\* The receipts of the batch in flight free what they settle.
ApplyReceipts(fails) ==
  /\ wire # <<>> /\ wire[1].answer # "none"
  /\ Write(Settled(buffer, wire[1].ids, wire[1].answer), fails)
  /\ IF fails THEN LinkLost ELSE wire' = <<>> /\ UNCHANGED <<link, log, active>>
  /\ Mishap(fails)
  /\ UNCHANGED <<rooted, lapsed, generation, events>>

-----------------------------------------------------------------------------
(* Reading the Agent's log: one request at a time, data only under an      *)
(* active lease on the Agent, and no batch is sent while chunks wait.      *)

LogRead ==
  /\ link = "up" /\ ~log.busy /\ mishaps < MaxMishaps
  /\ log' = [busy |-> TRUE, chunks |-> log.chunks + IF Live \cap AgentLeases # {} THEN 2 ELSE 1]
  /\ Mishap(TRUE)
  /\ UNCHANGED <<buffer, saved, rooted, active, lapsed, generation, link, wire, events>>

CancelLogRead ==
  /\ link = "up" /\ log # IdleLog
  /\ log' = IdleLog
  /\ UNCHANGED <<buffer, saved, rooted, active, lapsed, generation, link, wire, events, mishaps>>

SendLogChunk ==
  /\ link = "up" /\ log.chunks > 0
  /\ log' = [busy |-> log.busy /\ log.chunks > 1, chunks |-> log.chunks - 1]
  /\ UNCHANGED <<buffer, saved, rooted, active, lapsed, generation, link, wire, events, mishaps>>

-----------------------------------------------------------------------------
(* Time and the process.                                                   *)

\* Five seconds pass (age 1) or seven days (age 2), for the file as for the queue.
Later(records, age) ==
  {[r EXCEPT !.age = IF age > r.age THEN age ELSE r.age] : r \in records}

Outdated(receipts, age) ==
  [l \in Leases |-> [receipts[l] EXCEPT !.old = receipts[l] # NoReceipt
                                               /\ (age = 2 \/ receipts[l].old)]]

Aged(b, age) == [b EXCEPT !.records = Later(b.records, age),
                          !.receipts = Outdated(b.receipts, age)]

Wait(age) ==
  /\ mishaps < MaxMishaps
  /\ Aged(buffer, age) # buffer
  /\ buffer' = Aged(buffer, age)
  /\ saved' = Aged(saved, age)
  /\ lapsed' = IF age = 2 THEN lapsed \cup (Leases \ LongLeases) ELSE lapsed
  /\ Mishap(TRUE)
  /\ UNCHANGED <<rooted, active, generation, link, wire, log, events>>

\* A new process reads the buffer, and notes a predecessor that did not clear
\* its running marker; without the file it goes on in memory.
Restart(clean, readable) ==
  /\ mishaps < MaxMishaps
  /\ generation' = generation + 1
  /\ LET loaded  == Prune([records |-> saved.records, claims |-> saved.claims,
                           receipts |-> saved.receipts, sequence |-> 0, uncounted |-> 0])
         noted   == IF clean THEN loaded
                             ELSE Record(loaded, generation + 1, "warn", NoLease)
         started == Record(noted, generation + 1, "info", NoLease)
     IN /\ rooted' = (readable /\ ClaimsValid(loaded))
        /\ IF rooted'
           THEN /\ buffer' = started
                /\ saved' = [records |-> started.records, claims |-> started.claims,
                             receipts |-> started.receipts]
           ELSE buffer' = EmptyBuffer /\ UNCHANGED saved
  /\ LinkLost
  /\ Mishap(TRUE)
  /\ UNCHANGED <<lapsed, events>>

-----------------------------------------------------------------------------
Init ==
  /\ buffer = EmptyBuffer
  /\ saved = [records |-> {}, claims |-> {}, receipts |-> EmptyBuffer.receipts]
  /\ rooted = TRUE
  /\ active = {} /\ lapsed = {}
  /\ generation = 1
  /\ link = "down" /\ wire = <<>> /\ log = IdleLog
  /\ events = 0 /\ mishaps = 0

Next ==
  \/ \E severity \in {"info", "warn"}, fails \in BOOLEAN : RecordEvent(severity, fails)
  \/ \E forTask, fails \in BOOLEAN : RecordCommandSpan(forTask, fails)
  \/ Connect
  \/ Disconnect
  \/ \E l \in Leases, fails \in BOOLEAN : HandleLease(l, fails)
  \/ \E l \in Leases, matches, fails \in BOOLEAN : HandleRevoke(l, matches, fails)
  \/ \E l \in Leases : Lapse(l)
  \/ \E fails \in BOOLEAN : ExpireLeases(fails)
  \/ SendBatch
  \/ BatchWriteFails
  \/ \E disposition \in {"accepted", "rejected", "retry"} : HubAnswers(disposition)
  \/ \E fails \in BOOLEAN : ApplyReceipts(fails)
  \/ LogRead
  \/ CancelLogRead
  \/ SendLogChunk
  \/ \E age \in 1..2 : Wait(age)
  \/ \E clean, readable \in BOOLEAN : Restart(clean, readable)

Spec == Init /\ [][Next]_vars

\* What the channel's one loop does by itself - it reconnects every 2 s, sends what
\* waits at its ticks and applies the Hub's answers - and the answers themselves.
Progress ==
  \/ Connect \/ ExpireLeases(FALSE) \/ SendBatch \/ SendLogChunk
  \/ HubAnswers("accepted") \/ ApplyReceipts(FALSE)

\* Everything else that may happen is bounded, so this drives all of them.
Fairness == WF_vars(Progress)

FairSpec == Spec /\ Fairness

-----------------------------------------------------------------------------
Records == [id : Nat \X Nat, severity : {"debug", "info", "warn"},
            lease : Leases \cup {NoLease}, delayed : BOOLEAN, age : 0..2]

Claims == [id : Nat \X Nat, lease : Leases, delayed : BOOLEAN]

Receipts == [Leases -> [disposition : {"none", "applied", "rejected", "revoked", "expired"},
                        boundary : Nat, generation : Nat, old : BOOLEAN]]

Buffers == [records : SUBSET Records, claims : SUBSET Claims, receipts : Receipts,
            sequence : Nat, uncounted : Nat]

Files == [records : SUBSET Records, claims : SUBSET Claims, receipts : Receipts]

\* The queue never outgrows its bound, and every claim is for one lease's record.
TypeOK ==
  /\ buffer \in Buffers /\ saved \in Files
  /\ \A b \in {buffer, saved} : IsFiniteSet(b.records) /\ Cardinality(b.records) <= Capacity
  /\ rooted \in BOOLEAN
  /\ active \subseteq Leases /\ lapsed \subseteq Leases
  /\ link \in {"down", "up"}
  /\ link = "down" => active = {} /\ wire = <<>> /\ log = IdleLog
  /\ Len(wire) <= 1

\* A detailed record lies within its lease: not before the sequence its applied
\* receipt names, and before the one its terminal receipt names - whatever was
\* revoked, expired, disconnected, re-sent or restarted in between. A lease that outlives
\* MAX_AGE is excepted: prune forgets its receipt, and sent again it is applied anew.
Within(b) ==
  \A r \in b.records :
    LET c == b.receipts[r.lease]
    IN r.lease \notin LongLeases \cup {NoLease} /\ c.generation = r.id[1] =>
         /\ c.disposition = "applied" => r.id[2] >= c.boundary
         /\ c.disposition \in {"revoked", "expired"} => r.id[2] < c.boundary

DetailWithinLease == Within(buffer)

\* The queue drains: once nothing new is recorded, every record is settled by the
\* Hub or counted as dropped, across lost connections and answers, refused and
\* failed writes, restarts, and the re-claiming of records that waited.
QueueDrains == <>[](buffer.records = {})

-----------------------------------------------------------------------------
(* The inductive invariant.                                                *)

\* What is in memory is of this process or of one before it, and what is of this one has
\* a sequence that has been given out.
NumberedInv ==
  /\ generation \in Nat
  /\ \A r \in buffer.records :
       r.id[1] <= generation /\ (r.id[1] = generation => r.id[2] <= buffer.sequence)
  /\ \A l \in Leases :
       /\ buffer.receipts[l].generation <= generation
       /\ buffer.receipts[l].generation = generation
            => buffer.receipts[l].boundary <= buffer.sequence + 1

\* What is in the file is of this process or of one before it, and lies within its lease.
SavedInv ==
  /\ \A r \in saved.records : r.id[1] <= generation
  /\ \A l \in Leases : saved.receipts[l].generation <= generation
  /\ Within(saved)

\* A lease under which detail is written has its receipt, and no other end than a refused
\* revoke. One without a receipt that could still be applied has no detail of this process.
LeaseInv ==
  /\ \A l \in Live \ LongLeases : buffer.receipts[l].disposition \in {"applied", "rejected"}
  /\ \A l \in Leases \ (lapsed \cup LongLeases) :
       /\ ~buffer.receipts[l].old /\ ~saved.receipts[l].old
       /\ buffer.receipts[l].disposition = "none" =>
            \A r \in buffer.records : ~(r.lease = l /\ r.id[1] = generation)

IInv == TypeOK /\ NumberedInv /\ SavedInv /\ LeaseInv /\ DetailWithinLease

=============================================================================
