----------------------------- MODULE MusicProgram -----------------------------
(***************************************************************************)
(* A realtime program of the Win32 Worker: the music engine                *)
(* (crates/fairypam-agent-realtime/src/music_engine.rs), its batch of      *)
(* physical keys (input_batch.rs) and the monitor of local input           *)
(* (local_input_monitor.rs).                                               *)
(*                                                                         *)
(* Two threads: the sampler watches a row of pixels and sends a transition *)
(* for every lane that changes, into a channel that is bounded; the engine *)
(* turns transitions into keys, and in every round looks first whether it  *)
(* may go on.  A transition that has waited too long is dropped.           *)
(***************************************************************************)
EXTENDS Naturals, Sequences, FiniteSets, Functions

CONSTANTS LaneCount, MaximumQueueDepth

VARIABLES
    seen,     \* LaneState of the sampler: the lanes that are pressed on the screen
    queue,    \* the channel, with whether a transition is still fresh
    held,     \* WindowsPhysicalInputBatch.held
    mirror,   \* held_action_ids, which the Worker reports as the keys of the program
    down,     \* the keys that are down
    engine,   \* "running", or how the program has ended
    signals,  \* stop, supervision, target and interference, as the engine finds them
    overflow, \* sampler_error
    stale     \* metrics.stale_events is above zero

vars == <<seen, queue, held, mirror, down, engine, signals, overflow, stale>>

Lanes == 1 .. LaneCount

\* A signal that ends the program: the Worker or the sampler stops it, its time or its
\* supervision lease is over, the window is lost or the user touches keyboard or mouse.
Signals == {"stop", "maximum", "supervision", "interfered"}

Transitions == [lane : Lanes, pressed : BOOLEAN, fresh : BOOLEAN]

\* Waiting for more than this many transitions is impossible: the channel is bounded.
Queues == UNION {[1 .. n -> Transitions] : n \in 0 .. MaximumQueueDepth}

Ends == {"running", "done", "failed", "uncertain"}

\* start: the probe has answered that it is ready.
Init ==
    /\ seen = {} /\ queue = <<>> /\ held = {} /\ mirror = {} /\ down = {}
    /\ engine = "running" /\ signals = {} /\ overflow = FALSE /\ stale = FALSE

-------------------------------------------------------------------------------
\* LaneState.observe: the transition of a lane that has changed.
Observe(lane) == [lane |-> lane, pressed |-> lane \notin seen, fresh |-> TRUE]

\* The members of S one after the other.
Sorted(S, Before(_, _)) ==
    {p \in Bijection(1 .. Cardinality(S), S) :
        \A i, j \in 1 .. Cardinality(S) : i < j => Before(p[i], p[j])}

\* try_send for one lane after the other, in the order of the lanes.
Sent(changed) ==
    {[i \in 1 .. Cardinality(changed) |-> Observe(p[i])] :
        p \in Sorted(changed, LAMBDA a, b : a < b)}

Room == MaximumQueueDepth - Len(queue)

Toggled(lanes, changed) == (lanes \ changed) \cup (changed \ lanes)

\* The channel takes the first transitions, as many as it has room for.
Takes(sent) ==
    queue' = queue \o IF Len(sent) > Room THEN SubSeq(sent, 1, Room) ELSE sent

\* Mutant: what does not fit into the channel is lost, and the program goes on.
SampleLossy ==
    /\ engine = "running" /\ "stop" \notin signals
    /\ \E changed \in SUBSET Lanes \ {{}} :
        /\ \E sent \in Sent(changed) : Takes(sent)
        /\ seen' = Toggled(seen, changed)
    /\ UNCHANGED <<held, mirror, down, engine, signals, overflow, stale>>

\* row_loop: one sample.  The first transition that finds the channel full stops the program.
Sample ==
    /\ engine = "running" /\ "stop" \notin signals
    /\ \E changed \in SUBSET Lanes \ {{}} :
        LET full == Cardinality(changed) > Room
        IN  /\ \E sent \in Sent(changed) : Takes(sent)
            /\ seen' = Toggled(seen, changed)
            /\ overflow' = (overflow \/ full)
            /\ signals' = IF full THEN signals \cup {"stop"} ELSE signals
    /\ UNCHANGED <<held, mirror, down, engine, stale>>

\* The oldest transitions have waited for event_freshness_us.
Ages ==
    /\ engine = "running"
    /\ \E n \in 1 .. Len(queue) :
        /\ queue[n].fresh
        /\ queue' = [i \in DOMAIN queue |-> [queue[i] EXCEPT !.fresh = @ /\ i > n]]
    /\ UNCHANGED <<seen, held, mirror, down, engine, signals, overflow, stale>>

\* The hooks of the monitor, the clock, the window, and stop of the Worker.
Signal(s) ==
    /\ engine = "running" /\ s \notin signals
    /\ signals' = signals \cup {s}
    /\ UNCHANGED <<seen, queue, held, mirror, down, engine, overflow, stale>>

\* renew gives a new lease, even after the old one has run out, as long as the engine has
\* not seen it.
Renew ==
    /\ engine = "running" /\ "supervision" \in signals
    /\ signals' = signals \ {"supervision"}
    /\ UNCHANGED <<seen, queue, held, mirror, down, engine, overflow, stale>>

-------------------------------------------------------------------------------
\* The fresh transitions, by lane; those of one lane stay in order.
Batches ==
    LET Before(i, j) ==
            queue[i].lane < queue[j].lane \/ (queue[i].lane = queue[j].lane /\ i < j)
        fresh == {i \in DOMAIN queue : queue[i].fresh}
    IN  {[k \in 1 .. Cardinality(fresh) |-> queue[p[k]]] : p \in Sorted(fresh, Before)}

\* apply: the last transition of a lane decides, and every one has to change the state
\* that those before it have left.
Decides(batch, i) == \A j \in DOMAIN batch : j > i => batch[j].lane # batch[i].lane

Applied(h, batch) ==
    {lane \in Lanes :
        \/ \E i \in DOMAIN batch :
              batch[i].lane = lane /\ batch[i].pressed /\ Decides(batch, i)
        \/ lane \in h /\ \A i \in DOMAIN batch : batch[i].lane # lane}

Applicable(batch) ==
    \A i \in DOMAIN batch :
        batch[i].pressed = (batch[i].lane \notin Applied(held, SubSeq(batch, 1, i - 1)))

\* release_all: a key up for every key of the program.
ReleaseAll(d) == d \ Lanes

\* The end of run_genshin_music with the keys d down: both threads stop, and all keys go
\* up unless SendInput fails.
EndWith(d, error) ==
    \/ /\ engine' = IF error \/ overflow THEN "failed" ELSE "done"
       /\ down' = ReleaseAll(d) /\ mirror' = {} /\ held' = {}
    \/ /\ engine' = "uncertain"
       /\ down' \in SUBSET d /\ UNCHANGED <<held, mirror>>

\* The checks at the head of a round.
Ending ==
    /\ engine = "running" /\ signals # {}
    /\ EndWith(down, signals \cap {"stop", "maximum"} = {})
    /\ signals' = signals \cup {"stop"}
    /\ UNCHANGED <<seen, queue, overflow, stale>>

\* The rest of a round.  An input that fails has pressed some of the keys.
Round ==
    /\ engine = "running" /\ queue # <<>>
    /\ queue' = <<>>
    /\ stale' = (stale \/ \E i \in DOMAIN queue : ~queue[i].fresh)
    /\ \E batch \in Batches :
        \/ /\ Applicable(batch)
           /\ held' = Applied(held, batch) /\ down' = held' /\ mirror' = held'
           /\ UNCHANGED <<engine, signals>>
        \/ /\ Applicable(batch)
           /\ \E n \in 0 .. Len(batch) - 1 : EndWith(Applied(down, SubSeq(batch, 1, n)), TRUE)
           /\ signals' = signals \cup {"stop"}
        \/ /\ ~Applicable(batch)
           /\ EndWith(down, TRUE)
           /\ signals' = signals \cup {"stop"}
    /\ UNCHANGED <<seen, overflow>>

Next ==
    \/ Sample \/ Ages \/ Renew \/ Ending \/ Round
    \/ \E s \in Signals : Signal(s)

Spec == Init /\ [][Next]_vars

-------------------------------------------------------------------------------
TypeOK ==
    /\ {seen, held, mirror, down} \subseteq SUBSET Lanes
    /\ queue \in Queues /\ engine \in Ends /\ signals \subseteq Signals
    /\ {overflow, stale} \subseteq BOOLEAN

\* While the program runs, and nothing has been dropped as too old, the keys that are down
\* and the transitions that wait add up to what the sampler sees: no transition is lost
\* without the program ending (try_send, queue_overflow).
FollowsTheScreen ==
    (engine = "running" /\ ~overflow /\ ~stale) => Applied(down, queue) = seen

\* The inductive invariant: while the program runs, the keys that are down are those the
\* engine holds.
HoldsDown == engine = "running" => held = down

IInv == TypeOK /\ HoldsDown /\ FollowsTheScreen

===============================================================================
