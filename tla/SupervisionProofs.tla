-------------------------- MODULE SupervisionProofs ---------------------------
(***************************************************************************)
(* What TLAPS proves of module Supervision, for any number of Agent        *)
(* processes, keys, catalogs and crashes of the Guardian.                  *)
(*                                                                         *)
(* Most steps of an Agent change its own process only and let go of keys:  *)
(* AgentStep proves IInv for all of them at once, from what Follows says   *)
(* of the process before and after.  A stop of the Guardian is StopStep.   *)
(***************************************************************************)
EXTENDS Supervision, TLAPS

(***************************************************************************)
(* Steps of one Agent                                                      *)
(***************************************************************************)
\* A process p may follow the process q of its slot, as far as the Guardian can
\* tell.
Follows(q, p) ==
    /\ q.run # "dead"
    /\ p.run \in {"dead", "boot", "loaded"} => p.thread = "off" /\ p.pipe \notin OpenPipe
    /\ p.thread \in {"connect", "intent", "commit"} => p.run = "start"
    /\ p.thread = "release" => p.run = "bye"
    /\ p.pipe \in OpenPipe \ {"quiet"} => p.thread \in Waiting
    /\ p.pipe \in OpenPipe => q.pipe \in OpenPipe
    /\ p.run \in Fresh => q.run \in Fresh
    /\ p.run = "bye" => q.run \in {"run", "bye"}
    /\ p.covers = q.covers \/ p.run \in Fresh
    /\ Committed(p) => Committed(q) /\ p.covers = q.covers
    /\ Asked(p) => Asked(q) /\ p.covers = q.covers

\* A step that replaces the process of one Agent by one that may follow it, and
\* lets go of keys, keeps the invariant.
LEMMA AgentStep ==
    ASSUME IInv, NEW s \in Slots, NEW p \in Processes,
           agents' = [agents EXCEPT ![s] = p],
           Follows(agents[s], p),
           pressed' \in [Slots -> SUBSET Keys],
           \A t \in Slots : pressed'[t] \subseteq pressed[t],
           disk' \in Versions, UNCHANGED <<guardian, crashes>>
    PROVE  IInv'
<1> USE DEF Child
<1>1. agents[s] \in Processes /\ agents'[s] = p
  BY DEF IInv, TypeOK
<1>2. \A t \in Slots : t # s => agents'[t] = agents[t]
  BY DEF IInv, TypeOK
<1>3. TypeOK'
  BY DEF IInv, TypeOK
<1>4. PipeInv'
  BY <1>1, <1>2 DEF IInv, PipeInv, Follows
<1>5. ProcessInv'
  <2>1. \A t \in Slots :
          /\ agents'[t].run \in {"dead", "boot", "loaded"} =>
                agents'[t].thread = "off" /\ agents'[t].pipe \notin OpenPipe
          /\ agents'[t].thread \in {"connect", "intent", "commit"} => agents'[t].run = "start"
          /\ agents'[t].thread = "release" => agents'[t].run = "bye"
          /\ agents'[t].pipe \in OpenPipe \ {"quiet"} => agents'[t].thread \in Waiting
          /\ agents'[t].run \in Fresh => pressed'[t] = {}
    BY <1>1, <1>2 DEF IInv, ProcessInv, Follows
  <2>2. ASSUME guardian.phase = "connect"
        PROVE  agents'[Child].run \in {"dead"} \cup Fresh /\ pressed'[Child] = {}
    <3>1. Child \in Slots /\ pressed'[Child] = {}
      BY <2>2 DEF IInv, TypeOK, PipeInv, ProcessInv, Guardians
    <3>2. p.run \in {"dead", "run", "bye"} \cup Fresh
      BY DEF Processes, Running, Fresh
    <3>3. CASE s = Child
      <4>1. agents[s].run \in Fresh /\ agents[s].pipe \notin OpenPipe
        BY <2>2, <3>3 DEF IInv, ProcessInv, PipeInv, Follows
      <4>2. ~Committed(agents[s])
        BY <4>1 DEF Committed, OpenPipe, Fresh
      <4>3. p.run # "run" /\ p.run # "bye"
        BY <4>1, <4>2 DEF Follows, Committed, Fresh
      <4> QED
        BY <3>1, <3>2, <3>3, <4>3, <1>1
    <3> QED
      BY <3>1, <3>3, <1>2, <2>2 DEF IInv, ProcessInv
  <2> QED
    BY <2>1, <2>2 DEF ProcessInv
<1>6. GuardInv'
  BY <1>1, <1>2 DEF IInv, TypeOK, Guardians, PipeInv, GuardInv, Guarded, Follows
<1>7. HeldKeysGuarded'
  BY <1>1, <1>2 DEF IInv, TypeOK, Guardians, PipeInv, ProcessInv, HeldKeysGuarded, Follows
<1>8. HandedBackClean'
  BY <1>1, <1>2 DEF IInv, TypeOK, Guardians, HandedBackClean, LetGo, Follows
<1>9. NoAgentLeftBehind'
  BY <1>1, <1>2 DEF IInv, NoAgentLeftBehind, Follows
<1> QED
  BY <1>3, <1>4, <1>5, <1>6, <1>7, <1>8, <1>9 DEF IInv

\* The process of an Agent that has ended.
LEMMA DeadFacts ==
    ASSUME NEW covers \in SUBSET Keys
    PROVE  /\ Dead(covers) \in Processes
           /\ Dead(covers).run = "dead" /\ Dead(covers).thread = "off"
           /\ Dead(covers).pipe = "closed" /\ Dead(covers).covers = covers
  BY SupervisionAssumption DEF Dead, Processes, Running, Waiting

\* An Agent that ends.
LEMMA ExitStep ==
    ASSUME IInv, NEW s \in Slots, agents[s].run # "dead", Exit(s),
           UNCHANGED <<guardian, disk, pressed, crashes>>
    PROVE  IInv'
<1>1. agents[s] \in Processes /\ agents[s].covers \in SUBSET Keys
  BY DEF IInv, TypeOK, Processes
<1> DEFINE p == Dead(agents[s].covers)
<1>2. agents' = [agents EXCEPT ![s] = p]
  BY DEF Exit
<1>3. p \in Processes /\ Follows(agents[s], p)
  BY <1>1, DeadFacts DEF Follows, OpenPipe, Fresh, Committed, Asked
<1> HIDE DEF p
<1> QED
  BY <1>2, <1>3, AgentStep DEF IInv, TypeOK

\* What has to be shown of a step of the Agent of slot s that keeps its run, its
\* thread and its pipe: nothing else of the process matters to the Guardian.
LEMMA InnerStep ==
    ASSUME IInv, NEW s \in Slots, NEW p \in Processes,
           agents' = [agents EXCEPT ![s] = p],
           agents[s].run = "run", p.run \in {"run", "bye"},
           p.thread = agents[s].thread, p.pipe = agents[s].pipe,
           p.covers = agents[s].covers,
           pressed' \in [Slots -> SUBSET Keys],
           \A t \in Slots : pressed'[t] \subseteq pressed[t],
           disk' \in Versions, UNCHANGED <<guardian, crashes>>
    PROVE  IInv'
<1>1. /\ agents[s].thread \notin {"connect", "intent", "commit", "release"}
      /\ agents[s].pipe \in OpenPipe \ {"quiet"} => agents[s].thread \in Waiting
  BY DEF IInv, ProcessInv
<1>2. Follows(agents[s], p)
  BY <1>1 DEF Follows, Fresh, Committed, Asked, OpenPipe
<1> QED
  BY <1>2, AgentStep

\* Letting go of keys.
LEMMA WithoutFacts ==
    ASSUME TypeOK, NEW held
    PROVE  /\ Without(held) \in [Slots -> SUBSET Keys]
           /\ \A t \in Slots : Without(held)[t] = pressed[t] \ held
  BY DEF TypeOK, Without

\* What the configuration on disk makes of a process.
LEMMA ReloadedFacts ==
    ASSUME TypeOK, NEW p \in Processes
    PROVE  /\ Reloaded(p) \in Processes
           /\ Reloaded(p).run = p.run /\ Reloaded(p).thread = p.thread
           /\ Reloaded(p).pipe = p.pipe /\ Reloaded(p).covers = p.covers
  BY SupervisionAssumption DEF Reloaded, Processes, TypeOK

\* Boot: the profiles are read, nothing else.
LEMMA BootStep == ASSUME IInv, NEW s \in Slots, Boot(s) PROVE IInv'
<1> PICK enrolled \in BOOLEAN :
        agents' = [agents EXCEPT ![s] =
            [(IF enrolled THEN Reloaded(agents[s]) ELSE agents[s]) EXCEPT !.run = "loaded"]]
  BY DEF Boot, IInv, TypeOK
<1> DEFINE r == IF enrolled THEN Reloaded(agents[s]) ELSE agents[s]
           p == [r EXCEPT !.run = "loaded"]
<1>1. agents[s] \in Processes /\ agents[s].run = "boot"
  BY DEF IInv, TypeOK, Boot
<1>2. /\ r \in Processes
      /\ r.thread = agents[s].thread /\ r.pipe = agents[s].pipe /\ r.covers = agents[s].covers
  BY <1>1, ReloadedFacts DEF IInv
<1>3. agents' = [agents EXCEPT ![s] = p]
  OBVIOUS
<1> HIDE DEF r
<1>4. /\ p \in Processes /\ p.run = "loaded"
      /\ p.thread = r.thread /\ p.pipe = r.pipe /\ p.covers = r.covers
  BY <1>2 DEF Processes
<1> HIDE DEF p
<1>5. agents[s].thread = "off" /\ agents[s].pipe \notin OpenPipe
  BY <1>1 DEF IInv, ProcessInv
<1>6. Follows(agents[s], p)
  BY <1>1, <1>2, <1>4, <1>5 DEF Follows, Fresh, Committed, Asked, OpenPipe
<1> QED
  BY <1>3, <1>4, <1>6, AgentStep DEF Boot, IInv, TypeOK

\* InstanceTaken, StartFails, Leave and AgentCrash: the Agent ends.
LEMMA EndStep ==
    ASSUME IInv, NEW s \in Slots,
           InstanceTaken(s) \/ StartFails(s) \/ Leave(s) \/ AgentCrash(s)
    PROVE  IInv'
  BY ExitStep DEF InstanceTaken, StartFails, Leave, AgentCrash

\* StartChannel: the release set is fixed before anything is pressed.
LEMMA StartChannelStep == ASSUME IInv, NEW s \in Slots, StartChannel(s) PROVE IInv'
<1> DEFINE p == [agents[s] EXCEPT !.run = "start", !.thread = "connect",
                                  !.covers = CatalogKeys[agents[s].profiles] \cup Buttons]
<1>1. agents[s] \in Processes /\ agents[s].run = "loaded"
  BY DEF IInv, TypeOK, StartChannel
<1>2. agents[s].profiles \in Versions /\ agents[s].pipe \notin OpenPipe
  <2>1. agents[s].pipe \notin OpenPipe
    BY <1>1 DEF IInv, ProcessInv
  <2> QED
    BY <1>1, <2>1 DEF Processes
<1>3. CatalogKeys[agents[s].profiles] \cup Buttons \in SUBSET Keys
  BY <1>2, SupervisionAssumption
<1>4. agents' = [agents EXCEPT ![s] = p]
  BY DEF StartChannel, IInv, TypeOK
<1>5. p \in Processes /\ p.run = "start" /\ p.thread = "connect" /\ p.pipe = agents[s].pipe
  BY <1>1, <1>3 DEF Processes, Running
<1> HIDE DEF p
<1>6. Follows(agents[s], p)
  BY <1>1, <1>2, <1>5 DEF Follows, Fresh, Committed, Asked, OpenPipe
<1> QED
  BY <1>4, <1>5, <1>6, AgentStep DEF StartChannel, IInv, TypeOK

\* Sent: a request on its way.
LEMMA SentFacts ==
    ASSUME NEW p \in Processes, NEW request \in Waiting
    PROVE  /\ Sent(p, request) \in Processes
           /\ Sent(p, request).thread = request /\ Sent(p, request).run = p.run
           /\ Sent(p, request).covers = p.covers
           /\ Sent(p, request).pipe = IF p.pipe = "quiet" THEN "request" ELSE p.pipe
  BY DEF Sent, Processes, Waiting

\* Beat, ReportHealth and AskRelease: a request to the Guardian.
LEMMA RequestStep ==
    ASSUME IInv, NEW s \in Slots, Beat(s) \/ ReportHealth(s) \/ AskRelease(s)
    PROVE  IInv'
<1>1. PICK request \in {"beat", "health", "release"} :
         /\ agents' = [agents EXCEPT ![s] = Sent(agents[s], request)]
         /\ request = "release" => agents[s].run = "bye"
  BY DEF Beat, ReportHealth, AskRelease, IInv, TypeOK
<1>2. agents[s] \in Processes /\ agents[s].thread = "loop" /\ agents[s].run \in {"run", "bye"}
  BY DEF IInv, TypeOK, Beat, ReportHealth, AskRelease
<1> DEFINE p == Sent(agents[s], request)
<1>3. /\ p \in Processes /\ p.thread = request /\ p.run = agents[s].run
      /\ p.covers = agents[s].covers
      /\ p.pipe = IF agents[s].pipe = "quiet" THEN "request" ELSE agents[s].pipe
  BY <1>2, SentFacts DEF Waiting
<1> HIDE DEF p
<1>4. Follows(agents[s], p)
  BY <1>1, <1>2, <1>3 DEF Follows, Fresh, Committed, Asked, OpenPipe, Waiting
<1> QED
  BY <1>1, <1>3, <1>4, AgentStep
     DEF Beat, ReportHealth, AskRelease, IInv, TypeOK, p

\* Answered: the answer moves the thread on; the one to CommitHolds makes the
\* Agent ready, and the Guardian means to release its release set by then.
LEMMA AnsweredStep == ASSUME IInv, NEW s \in Slots, Answered(s) PROVE IInv'
<1> DEFINE q == agents[s]
           served == guardian.phase = "watch" /\ Child = s
           open == [q EXCEPT !.pipe = IF served THEN "quiet" ELSE "closed"]
           ready == [open EXCEPT !.thread = "loop", !.run = "run",
                                 !.connected = q.enrolled, !.candidate = guardian.candidate]
           beaten == [open EXCEPT !.thread = "loop", !.candidate = guardian.candidate]
           reported == [open EXCEPT !.thread = "loop"]
           ended == [open EXCEPT !.thread = "ended"]
<1>1. /\ q \in Processes /\ q.pipe = "reply" /\ q.thread \in Waiting
      /\ q.run \in {"start", "run", "bye"} /\ guardian.candidate \in BOOLEAN
      /\ q.thread = "intent" => q.run = "start"
      /\ q.thread = "release" => q.run = "bye"
  <2>1. q \in Processes /\ q.pipe = "reply" /\ guardian.candidate \in BOOLEAN
    BY DEF Answered, IInv, TypeOK, Guardians
  <2>2. q.thread \in Waiting
    BY <2>1 DEF IInv, ProcessInv, OpenPipe
  <2> QED
    BY <2>1, <2>2 DEF IInv, ProcessInv, Waiting, Processes, Running
<1>2. /\ open \in Processes /\ open.run = q.run /\ open.covers = q.covers
      /\ open.thread = q.thread /\ open.pipe = IF served THEN "quiet" ELSE "closed"
  BY <1>1 DEF Processes
<1> HIDE DEF open
<1>3. UNCHANGED <<guardian, disk, pressed, crashes>>
  BY DEF Answered
<1>4. CASE q.thread = "intent"
  <2> DEFINE p == Sent(open, "commit")
  <2>1. /\ p \in Processes /\ p.thread = "commit" /\ p.run = "start" /\ p.covers = q.covers
        /\ p.pipe = IF served THEN "request" ELSE "closed"
    BY <1>1, <1>2, <1>4, SentFacts DEF Waiting
  <2>2. agents' = [agents EXCEPT ![s] = p]
    BY <1>4 DEF Answered, open
  <2> HIDE DEF p
  <2>3. Follows(q, p)
    BY <1>1, <1>4, <2>1 DEF Follows, Fresh, Committed, Asked, OpenPipe, Waiting
  <2> QED
    BY <1>3, <2>1, <2>2, <2>3, AgentStep DEF IInv, TypeOK
<1>5. CASE q.thread = "commit"
  <2>1. ready \in Processes /\ ready.thread = "loop" /\ ready.run = "run"
        /\ ready.covers = q.covers /\ ready.pipe = open.pipe
    BY <1>1, <1>2 DEF Processes, Running
  <2>2. agents' = [agents EXCEPT ![s] = ready]
    BY <1>5 DEF Answered, open
  <2> HIDE DEF ready
  <2>3. Follows(q, ready)
    BY <1>1, <1>2, <1>5, <2>1 DEF Follows, Fresh, Committed, Asked, OpenPipe
  <2> QED
    BY <1>3, <2>1, <2>2, <2>3, AgentStep DEF IInv, TypeOK
<1>6. CASE q.thread \in {"beat", "health", "release"}
  <2> DEFINE p == CASE q.thread = "beat" -> beaten
                    [] q.thread = "health" -> reported
                    [] q.thread = "release" -> ended
  <2>1. /\ p \in Processes /\ p.thread \in {"loop", "ended"} /\ p.run = q.run
        /\ p.covers = q.covers /\ p.pipe = open.pipe
    BY <1>1, <1>2, <1>6 DEF Processes
  <2>2. agents' = [agents EXCEPT ![s] = p]
    BY <1>6 DEF Answered, open
  <2> HIDE DEF p
  <2>3. Follows(q, p)
    BY <1>1, <1>2, <1>6, <2>1 DEF Follows, Fresh, Committed, Asked, OpenPipe
  <2> QED
    BY <1>3, <2>1, <2>2, <2>3, AgentStep DEF IInv, TypeOK
<1> QED
  BY <1>1, <1>4, <1>5, <1>6 DEF Waiting

\* Refused: the Agent ends, or its Guardian thread does.
LEMMA RefusedStep == ASSUME IInv, NEW s \in Slots, Refused(s) PROVE IInv'
<1> DEFINE q == agents[s]
           p == [q EXCEPT !.thread = "lost", !.pipe = "closed",
                          !.cancelled = @ \/ q.thread = "beat"]
<1>1. /\ q \in Processes /\ q.thread \in Waiting
      /\ q.run \notin {"dead", "boot", "loaded"}
      /\ UNCHANGED <<guardian, disk, pressed, crashes>>
  BY DEF Refused, IInv, TypeOK, ProcessInv, Waiting
<1>2. CASE q.thread \in {"intent", "commit"}
  BY <1>1, <1>2, ExitStep DEF Refused
<1>3. CASE q.thread \notin {"intent", "commit"}
  <2>1. agents' = [agents EXCEPT ![s] = p]
    BY <1>3 DEF Refused, IInv, TypeOK
  <2>2. /\ p \in Processes /\ p.thread = "lost" /\ p.pipe = "closed"
        /\ p.run = q.run /\ p.covers = q.covers
    <3>1. (q.cancelled \/ q.thread = "beat") \in BOOLEAN
      OBVIOUS
    <3> QED
      BY <1>1, <3>1 DEF Processes
  <2> HIDE DEF p
  <2>3. Follows(q, p)
    BY <1>1, <2>2 DEF Follows, Fresh, Committed, Asked, OpenPipe
  <2> QED
    BY <1>1, <2>1, <2>2, <2>3, AgentStep DEF IInv, TypeOK
<1> QED
  BY <1>2, <1>3

\* BeginTask, EndTask, SessionEnds, Cancel and ShutDown: the runtime of a ready
\* Agent starts, ends or stops.
LEMMA RuntimeStep ==
    ASSUME IInv, NEW s \in Slots,
           BeginTask(s) \/ EndTask(s) \/ SessionEnds(s) \/ Cancel(s) \/ ShutDown(s)
    PROVE  IInv'
<1>1. agents[s] \in Processes /\ agents[s].run = "run"
  BY DEF BeginTask, EndTask, SessionEnds, Cancel, ShutDown, Online, IInv, TypeOK
<1> DEFINE May(p) == /\ p \in Processes
                     /\ agents' = [agents EXCEPT ![s] = p]
                     /\ p.run \in {"run", "bye"} /\ p.thread = agents[s].thread
                     /\ p.pipe = agents[s].pipe /\ p.covers = agents[s].covers
<1>2. \E p : May(p)
  <2>1. CASE BeginTask(s)
    <3> DEFINE p == [agents[s] EXCEPT !.busy = TRUE]
    <3>1. May(p)
      BY <1>1, <2>1 DEF BeginTask, Processes
    <3> QED BY <3>1
  <2>2. CASE EndTask(s)
    <3> DEFINE p == [agents[s] EXCEPT !.busy = FALSE]
    <3>1. May(p)
      BY <1>1, <2>2 DEF EndTask, Processes
    <3> QED BY <3>1
  <2>3. CASE SessionEnds(s)
    <3> DEFINE p == [agents[s] EXCEPT !.connected = FALSE]
    <3>1. May(p)
      BY <1>1, <2>3 DEF SessionEnds, Processes
    <3> QED BY <3>1
  <2>4. CASE Cancel(s)
    <3> DEFINE p == [agents[s] EXCEPT !.cancelled = TRUE]
    <3>1. May(p)
      BY <1>1, <2>4 DEF Cancel, Processes
    <3> QED BY <3>1
  <2>5. CASE ShutDown(s)
    <3> DEFINE p == [agents[s] EXCEPT !.run = "bye", !.busy = FALSE, !.connected = FALSE]
    <3>1. May(p)
      BY <1>1, <2>5 DEF ShutDown, Processes, Running
    <3> QED BY <3>1
  <2> QED
    BY <2>1, <2>2, <2>3, <2>4, <2>5
<1>3. /\ disk' = disk /\ UNCHANGED <<guardian, crashes>>
      /\ pressed' = pressed \/ pressed' = Without(pressed[s])
  BY DEF BeginTask, EndTask, SessionEnds, Cancel, ShutDown
<1>4. pressed' \in [Slots -> SUBSET Keys] /\ \A t \in Slots : pressed'[t] \subseteq pressed[t]
  BY <1>3, WithoutFacts DEF IInv, TypeOK
<1> QED
  BY <1>1, <1>2, <1>3, <1>4, InnerStep DEF IInv, TypeOK

\* What the Guardian can tell of a process p that may follow a running q.
Like(q, p) ==
    /\ p \in Processes
    /\ p.run = q.run /\ p.thread = q.thread /\ p.pipe = q.pipe /\ p.covers = q.covers

\* The activation of a catalog, which changes nothing the Guardian can tell.
LEMMA ActivatedStep ==
    ASSUME IInv, NEW s \in Slots, agents[s].run = "run",
           NEW p, Like(agents[s], p), Activated(s, p), UNCHANGED <<guardian, crashes>>
    PROVE  IInv'
<1> DEFINE new == [p EXCEPT !.active = p.staged, !.staged = 0]
<1>1. new \in Processes /\ p.staged \in Versions /\ Like(agents[s], new)
  BY SupervisionAssumption DEF Like, Processes
<1> DEFINE told(b) == [new EXCEPT !.cancelled = @ \/ b, !.connected = b]
           quiet == [new EXCEPT !.connected = FALSE]
<1> HIDE DEF new
<1>2. \E n : Like(agents[s], n) /\ agents' = [agents EXCEPT ![s] = n]
  <2>1. ASSUME NEW b \in BOOLEAN, agents' = [agents EXCEPT ![s] = told(b)]
        PROVE  \E n : Like(agents[s], n) /\ agents' = [agents EXCEPT ![s] = n]
    <3>1. (new.cancelled \/ b) \in BOOLEAN
      OBVIOUS
    <3>2. Like(agents[s], told(b))
      BY <1>1, <3>1 DEF Like, Processes
    <3> QED
      BY <2>1, <3>2
  <2>2. ASSUME agents' = [agents EXCEPT ![s] = quiet]
        PROVE  \E n : Like(agents[s], n) /\ agents' = [agents EXCEPT ![s] = n]
    <3>1. Like(agents[s], quiet)
      BY <1>1 DEF Like, Processes
    <3> QED
      BY <2>2, <3>1
  <2> QED
    BY <2>1, <2>2 DEF Activated, new
<1>3. pressed' = pressed \/ pressed' = Without(pressed[s])
  BY DEF Activated
<1>4. pressed' \in [Slots -> SUBSET Keys] /\ \A t \in Slots : pressed'[t] \subseteq pressed[t]
  BY <1>3, WithoutFacts DEF IInv, TypeOK
<1>5. disk' \in Versions
  BY <1>1 DEF Activated
<1> QED
  BY <1>2, <1>4, <1>5, InnerStep DEF Like

\* ReceiveCatalog and ActivateCatalog.
LEMMA CatalogStep ==
    ASSUME IInv, NEW s \in Slots, ReceiveCatalog(s) \/ ActivateCatalog(s)
    PROVE  IInv'
<1> DEFINE q == agents[s]
<1>1. q \in Processes /\ q.run = "run" /\ UNCHANGED <<guardian, crashes>> /\ Like(q, q)
  BY DEF ReceiveCatalog, ActivateCatalog, Online, IInv, TypeOK, Like
<1>2. CASE ActivateCatalog(s)
  BY <1>1, <1>2, ActivatedStep DEF ActivateCatalog
<1>3. CASE ReceiveCatalog(s)
  <2> PICK v \in Versions \ {0} :
        LET p == [q EXCEPT !.blocked = TRUE, !.staged = v]
        IN  \/ /\ v > q.active /\ v >= q.staged
               /\ IF p.busy
                  THEN /\ agents' = [agents EXCEPT ![s] = p]
                       /\ UNCHANGED <<disk, pressed>>
                  ELSE Activated(s, p)
            \/ /\ v > q.active /\ v >= q.staged
               /\ agents' = [agents EXCEPT ![s] = [p EXCEPT !.connected = FALSE]]
               /\ UNCHANGED <<disk, pressed>>
            \/ /\ v <= q.active \/ v < q.staged
               /\ agents' = [agents EXCEPT ![s].blocked = (v # q.active)]
               /\ UNCHANGED <<disk, pressed>>
    BY <1>3 DEF ReceiveCatalog
  <2> DEFINE p == [q EXCEPT !.blocked = TRUE, !.staged = v]
             unsent == [p EXCEPT !.connected = FALSE]
             refused == [q EXCEPT !.blocked = (v # q.active)]
  <2>1. Like(q, p) /\ Like(q, unsent) /\ Like(q, refused)
    BY <1>1 DEF Like, Processes
  <2>2. \/ Activated(s, p)
        \/ /\ agents' = [agents EXCEPT ![s] = p] \/ agents' = [agents EXCEPT ![s] = unsent]
              \/ agents' = [agents EXCEPT ![s] = refused]
           /\ UNCHANGED <<disk, pressed>>
    OBVIOUS
  <2> HIDE DEF p, unsent, refused
  <2>3. CASE Activated(s, p)
    BY <1>1, <2>1, <2>3, ActivatedStep
  <2>4. CASE ~Activated(s, p)
    BY <1>1, <2>1, <2>2, <2>4, InnerStep DEF Like, IInv, TypeOK
  <2> QED
    BY <2>3, <2>4
<1> QED
  BY <1>2, <1>3

\* Register and CleanUp: the configuration on disk is read again.
LEMMA ReloadStep ==
    ASSUME IInv, NEW s \in Slots, Register(s) \/ CleanUp(s)
    PROVE  IInv'
<1> DEFINE q == agents[s]
<1>1. q \in Processes /\ q.run = "run" /\ UNCHANGED <<guardian, disk, crashes>>
  BY DEF Register, CleanUp, IInv, TypeOK
<1>2. Like(q, q) /\ Like(q, Reloaded(q))
  BY <1>1, ReloadedFacts DEF Like, IInv
<1>3. CASE Register(s)
  <2> DEFINE r == Reloaded(q)
             p == [r EXCEPT !.connected = @ \/ ~q.enrolled]
  <2>1. agents' = [agents EXCEPT ![s] = p]
    BY <1>3 DEF Register, IInv, TypeOK
  <2>2. Like(q, r)
    BY <1>2
  <2> HIDE DEF r
  <2>3. (r.connected \/ ~q.enrolled) \in BOOLEAN
    OBVIOUS
  <2>4. Like(q, p)
    BY <2>2, <2>3 DEF Like, Processes
  <2>5. UNCHANGED pressed
    BY <1>3 DEF Register
  <2> HIDE DEF p
  <2> QED
    BY <1>1, <2>1, <2>4, <2>5, InnerStep DEF Like, IInv, TypeOK
<1>4. CASE CleanUp(s)
  <2> PICK reloads \in BOOLEAN, released \in BOOLEAN, busy \in {FALSE, q.busy} :
        LET p == [(IF reloads THEN Reloaded(q) ELSE q) EXCEPT !.busy = busy]
        IN  /\ pressed' = IF released THEN Without(pressed[s]) ELSE pressed
            /\ agents' = [agents EXCEPT ![s] =
                   IF released THEN [p EXCEPT !.connected = TRUE] ELSE [p EXCEPT !.run = "bye"]]
    BY <1>4 DEF CleanUp
  <2> DEFINE r == IF reloads THEN Reloaded(q) ELSE q
             p == [r EXCEPT !.busy = busy]
             n == IF released THEN [p EXCEPT !.connected = TRUE] ELSE [p EXCEPT !.run = "bye"]
  <2>1. agents' = [agents EXCEPT ![s] = n]
    OBVIOUS
  <2>2. Like(q, r)
    BY <1>2
  <2> HIDE DEF r
  <2>3. busy \in BOOLEAN
    BY <1>1 DEF Processes
  <2>4. Like(q, p)
    BY <2>2, <2>3 DEF Like, Processes
  <2> HIDE DEF p
  <2>5. /\ n \in Processes /\ n.run \in {"run", "bye"} /\ n.thread = q.thread
        /\ n.pipe = q.pipe /\ n.covers = q.covers
    BY <1>1, <2>4 DEF Like, Processes, Running
  <2> HIDE DEF n
  <2>6. pressed' \in [Slots -> SUBSET Keys] /\ \A t \in Slots : pressed'[t] \subseteq pressed[t]
    BY WithoutFacts DEF IInv, TypeOK
  <2> QED
    BY <1>1, <2>1, <2>5, <2>6, InnerStep DEF IInv, TypeOK
<1> QED
  BY <1>3, <1>4

\* Press: an Agent that presses keys is ready, so the Guardian means to release
\* its whole release set.
LEMMA PressStep == ASSUME IInv, NEW s \in Slots, Press(s) PROVE IInv'
<1> USE DEF Child
<1>1. PICK k \in Pressable(s) : pressed' = [pressed EXCEPT ![s] = @ \cup {k}]
  BY DEF Press
<1>2. /\ agents[s] \in Processes /\ agents[s].run = "run"
      /\ UNCHANGED <<agents, guardian, disk, crashes>>
  BY DEF Press, Online, IInv, TypeOK
<1>3. k \in Keys
  BY <1>2, SupervisionAssumption DEF Pressable, Processes
<1>4. pressed' \in [Slots -> SUBSET Keys] /\ \A t \in Slots : t # s => pressed'[t] = pressed[t]
  BY <1>1, <1>3 DEF IInv, TypeOK
<1>5. TypeOK'
  BY <1>2, <1>4 DEF IInv, TypeOK
<1>6. PipeInv'
  BY <1>2 DEF IInv, PipeInv
<1>7. ProcessInv'
  <2>1. \A t \in Slots : agents[t].run \in Fresh => pressed'[t] = {}
    BY <1>2, <1>4 DEF IInv, ProcessInv, Fresh
  <2>2. guardian.phase = "connect" => pressed'[Child] = {}
    BY <1>2, <1>4 DEF IInv, TypeOK, Guardians, PipeInv, ProcessInv, Fresh
  <2> QED
    BY <1>2, <2>1, <2>2 DEF IInv, ProcessInv
<1>8. GuardInv'
  BY <1>2 DEF IInv, GuardInv, Guarded
<1>9. HeldKeysGuarded'
  <2> SUFFICES ASSUME guardian.phase \in {"connect", "watch", "grace"}, ~guardian.late
               PROVE  pressed'[Child] \cap agents[Child].covers
                          \subseteq ReleaseHolds(guardian.monitor) \cup guardian.snapshot
    BY <1>2 DEF HeldKeysGuarded
  <2>1. Child \in Slots
    BY DEF IInv, TypeOK, Guardians, PipeInv
  <2>2. CASE Child = s
    <3>1. guardian.phase # "connect" /\ Committed(agents[s])
      BY <1>2, <2>2 DEF IInv, ProcessInv, Fresh, Committed
    <3> QED
      BY <2>2, <3>1 DEF IInv, GuardInv, Guarded
  <2> QED
    BY <1>4, <2>1, <2>2 DEF IInv, HeldKeysGuarded
<1>10. HandedBackClean'
  BY <1>2, <1>4 DEF IInv, TypeOK, Guardians, HandedBackClean, LetGo
<1>11. NoAgentLeftBehind'
  BY <1>2 DEF IInv, NoAgentLeftBehind
<1> QED
  BY <1>5, <1>6, <1>7, <1>8, <1>9, <1>10, <1>11 DEF IInv

\* Connect: the thread has a connection and nothing is pressed.
LEMMA ConnectStep == ASSUME IInv, NEW s \in Slots, Connect(s) PROVE IInv'
<1> USE DEF Child
<1> DEFINE p == [agents[s] EXCEPT !.thread = "intent", !.pipe = "request"]
<1>1. /\ agents[s] \in Processes /\ agents[s].run = "start" /\ Child = s
      /\ guardian.phase = "connect" /\ UNCHANGED <<disk, pressed, crashes>>
  BY DEF Connect, IInv, TypeOK, ProcessInv
<1>2. agents' = [agents EXCEPT ![s] = p]
  BY DEF Connect, IInv, TypeOK
<1>3. /\ p \in Processes /\ p.run = "start" /\ p.thread = "intent" /\ p.pipe = "request"
      /\ p.covers = agents[s].covers
  BY <1>1 DEF Processes, Waiting
<1> HIDE DEF p
<1>4. agents'[s] = p /\ \A t \in Slots : t # s => agents'[t] = agents[t]
  BY <1>2 DEF IInv, TypeOK
<1>5. /\ guardian' \in Guardians /\ guardian'.phase = "watch" /\ guardian'.child = s
      /\ guardian'.monitor = guardian.monitor /\ guardian'.snapshot = guardian.snapshot
  BY <1>1 DEF Connect, IInv, TypeOK, Guardians
<1>6. TypeOK'
  BY <1>1, <1>2, <1>3, <1>5 DEF IInv, TypeOK
<1>7. PipeInv'
  BY <1>1, <1>4, <1>5, SupervisionAssumption DEF IInv, PipeInv
<1>8. ProcessInv'
  BY <1>1, <1>3, <1>4, <1>5 DEF IInv, ProcessInv, Waiting, Fresh
<1>9. GuardInv'
  BY <1>3, <1>4, <1>5 DEF GuardInv, Asked, Committed
<1>10. HeldKeysGuarded'
  BY <1>1, <1>5 DEF IInv, ProcessInv, HeldKeysGuarded, Fresh
<1>11. HandedBackClean' /\ NoAgentLeftBehind'
  BY <1>1, <1>3, <1>4, <1>5 DEF IInv, HandedBackClean, NoAgentLeftBehind
<1> QED
  BY <1>6, <1>7, <1>8, <1>9, <1>10, <1>11 DEF IInv

\* The Agents keep the invariant.
LEMMA AgentKeepsIInv == ASSUME IInv, NEW s \in Slots, Agent(s) PROVE IInv'
  BY BootStep, EndStep, StartChannelStep, ConnectStep, AnsweredStep, RefusedStep,
     RequestStep, RuntimeStep, PressStep, CatalogStep, ReloadStep
     DEF Agent

(***************************************************************************)
(* Steps of the Guardian                                                   *)
(***************************************************************************)
\* The monitor stays one, and a release empties it.
LEMMA MonitorFacts ==
    ASSUME NEW m \in Monitors
    PROVE  /\ NewMonitor \in Monitors /\ RegisterAgent(NewMonitor) \in Monitors
           /\ ReleaseHolds(m) \in SUBSET Keys
           /\ \A reason \in Reasons :
                 Released(m, reason) \in Monitors /\ ReleaseHolds(Released(m, reason)) = {}
           /\ \A holds \in SUBSET Keys :
                 /\ RegisterIntent(m, 1, holds) \in Monitors
                 /\ RegisterIntent(m, 1, holds).pending = [sequence |-> 1, holds |-> holds]
                 /\ ReleaseHolds(RegisterIntent(m, 1, holds)) = m.committed \cup holds
           /\ CommitHolds(m, 1) \in Monitors
           /\ ReleaseHolds(CommitHolds(m, 1)) = m.pending.holds
  BY DEF Monitors, Intents, NoIntent, NewMonitor, RegisterAgent, ReleaseHolds, Released,
         RegisterIntent, CommitHolds, Reasons

\* A Guardian that has no Agent, whatever has become of the one it had.
LEMMA OffStep ==
    ASSUME IInv, guardian' \in Guardians, guardian'.phase \in {"off", "idle"},
           guardian'.snapshot = {},
           agents' \in [Slots -> Processes],
           \A t \in Slots :
              /\ agents'[t].pipe \notin OpenPipe
              /\ \/ agents'[t].run = "dead" /\ agents'[t].thread = "off"
                 \/ agents'[t].run = agents[t].run /\ agents'[t].thread = agents[t].thread,
           pressed' \in [Slots -> SUBSET Keys],
           \A t \in Slots : pressed'[t] \subseteq pressed[t],
           disk' = disk, crashes' \in 0 .. MaxCrashes,
           HandedBackClean', NoAgentLeftBehind'
    PROVE  IInv'
<1>1. TypeOK' /\ PipeInv'
  BY DEF IInv, TypeOK, PipeInv
<1>2. ProcessInv'
  <2>1. \A t \in Slots : agents'[t].run \in Fresh => pressed'[t] = {}
    BY DEF IInv, ProcessInv, Fresh
  <2> QED
    BY <2>1 DEF IInv, ProcessInv, Fresh
<1>3. GuardInv' /\ HeldKeysGuarded'
  BY DEF GuardInv, HeldKeysGuarded
<1> QED
  BY <1>1, <1>2, <1>3 DEF IInv

\* Between two Agents no pipe is open.
LEMMA IdleFacts ==
    ASSUME IInv, guardian.phase \in {"off", "idle"}
    PROVE  /\ guardian.snapshot = {}
           /\ \A t \in Slots : agents[t].pipe \notin OpenPipe
           /\ crashes = 0 => \A t \in Slots : agents[t].run = "dead"
  BY DEF IInv, PipeInv, NoAgentLeftBehind

\* The ends of the Guardian.
LEMMA EndedFacts ==
    ASSUME NEW g \in Guardians, NEW exit \in {"clean", "error"}
    PROVE  /\ Ended(g, exit) \in Guardians /\ HandedBack(g) \in Guardians
           /\ Ended(g, exit).phase = "off" /\ HandedBack(g).phase \in {"off", "idle"}
           /\ Ended(g, exit).exit = exit
           /\ Ended(g, exit).snapshot = {} /\ HandedBack(g).snapshot = {}
           /\ Ended(g, exit).child = g.child /\ HandedBack(g).child = g.child
           /\ Ended(g, exit).late = g.late /\ HandedBack(g).late = g.late
<1> g.monitor \in Monitors /\ NewMonitor \in Monitors
  BY MonitorFacts DEF Guardians
<1> (g.candidate /\ g.then = "owner" /\ exit = "clean") \in BOOLEAN
  OBVIOUS
<1> (g.candidate /\ g.then = "owner") \in BOOLEAN
  OBVIOUS
<1>1. \A e \in {"clean", "error"} :
         /\ Ended(g, e) \in Guardians /\ Ended(g, e).phase = "off" /\ Ended(g, e).exit = e
         /\ Ended(g, e).snapshot = {} /\ Ended(g, e).child = g.child
         /\ Ended(g, e).late = g.late
  <2> TAKE e \in {"clean", "error"}
  <2> (g.candidate /\ g.then = "owner" /\ e = "clean") \in BOOLEAN
    OBVIOUS
  <2> QED
    BY DEF Ended, Guardians
<1>2. CASE g.then = "owner" \/ g.candidate
  BY <1>1, <1>2 DEF HandedBack
<1>3. CASE ~(g.then = "owner" \/ g.candidate)
  BY <1>1, <1>3 DEF HandedBack, Guardians
<1> QED
  BY <1>2, <1>3

\* StartGuardian, SpawnFails and OwnerStopsIdle: there is no Agent to care for.
LEMMA IdleStep ==
    ASSUME IInv, StartGuardian \/ SpawnFails \/ OwnerStopsIdle
    PROVE  IInv'
<1> USE DEF Child
<1>1. /\ guardian \in Guardians /\ guardian.phase \in {"off", "idle"}
      /\ UNCHANGED <<agents, disk, pressed, crashes>>
  BY DEF StartGuardian, SpawnFails, OwnerStopsIdle, IInv, TypeOK
<1>2. /\ guardian' \in Guardians /\ guardian'.phase \in {"off", "idle"}
      /\ guardian'.snapshot = {}
      /\ \/ guardian'.child = NoSlot
         \/ /\ guardian.phase = "idle"
            /\ guardian'.child = Child /\ guardian'.late = guardian.late
  <2>1. CASE StartGuardian
    BY <1>1, <2>1, IdleFacts DEF StartGuardian, Guardians
  <2>2. CASE SpawnFails
    <3> DEFINE g == [guardian EXCEPT !.then = "restart"]
               exit == IF guardian.candidate THEN "clean" ELSE "error"
    <3>1. g \in Guardians /\ g.child = Child /\ g.late = guardian.late
      BY <1>1 DEF Guardians
    <3>2. guardian' = Ended(g, exit) /\ exit \in {"clean", "error"} /\ guardian.phase = "idle"
      BY <2>2 DEF SpawnFails
    <3> HIDE DEF g, exit
    <3> QED
      BY <3>1, <3>2, EndedFacts
  <2>3. CASE OwnerStopsIdle
    <3> DEFINE g == [guardian EXCEPT !.then = "owner"]
    <3>1. g \in Guardians /\ g.child = Child /\ g.late = guardian.late
      BY <1>1 DEF Guardians
    <3>2. guardian' = Ended(g, "clean") /\ guardian.phase = "idle"
      BY <2>3 DEF OwnerStopsIdle
    <3> HIDE DEF g
    <3> QED
      BY <3>1, <3>2, EndedFacts
  <2> QED
    BY <2>1, <2>2, <2>3
<1>3. HandedBackClean'
  BY <1>1, <1>2 DEF IInv, HandedBackClean, LetGo
<1>4. NoAgentLeftBehind'
  BY <1>1, IdleFacts DEF NoAgentLeftBehind
<1> QED
  BY <1>1, <1>2, <1>3, <1>4, IdleFacts, OffStep DEF IInv, TypeOK

\* SpawnAgent: a process that has pressed nothing and has no connection.
LEMMA SpawnStep == ASSUME IInv, SpawnAgent PROVE IInv'
<1> USE DEF Child
<1>1. PICK s \in Slots :
         /\ agents[s].run = "dead"
         /\ agents' = [agents EXCEPT ![s] = Spawned]
         /\ pressed' = [pressed EXCEPT ![s] = {}]
         /\ guardian' = [guardian EXCEPT !.phase = "connect", !.child = s, !.late = FALSE,
                                         !.monitor = RegisterAgent(NewMonitor)]
  BY DEF SpawnAgent
<1>2. guardian \in Guardians /\ guardian.phase = "idle" /\ UNCHANGED <<disk, crashes>>
  BY DEF SpawnAgent, IInv, TypeOK
<1>3. /\ Spawned \in Processes /\ Spawned.run = "boot" /\ Spawned.thread = "off"
      /\ Spawned.pipe = "none"
  <2>1. Dead({}) \in Processes /\ Dead({}).thread = "off"
    BY DeadFacts
  <2> QED
    BY <2>1 DEF Spawned, Processes
<1>4. RegisterAgent(NewMonitor) \in Monitors
  <2>1. guardian.monitor \in Monitors
    BY <1>2 DEF Guardians
  <2> QED
    BY <2>1, MonitorFacts
<1>5. /\ guardian' \in Guardians /\ guardian'.phase = "connect" /\ guardian'.child = s
      /\ guardian'.snapshot = guardian.snapshot
  BY <1>1, <1>2, <1>4 DEF Guardians
<1>6. agents'[s] = Spawned /\ \A t \in Slots : t # s => agents'[t] = agents[t]
  BY <1>1 DEF IInv, TypeOK
<1>7. pressed'[s] = {} /\ \A t \in Slots : t # s => pressed'[t] = pressed[t]
  BY <1>1 DEF IInv, TypeOK
<1>8. TypeOK'
  BY <1>1, <1>2, <1>3, <1>5 DEF IInv, TypeOK
<1>9. PipeInv'
  BY <1>2, <1>3, <1>5, <1>6, IdleFacts, SupervisionAssumption DEF PipeInv, OpenPipe
<1>10. ProcessInv'
  BY <1>3, <1>5, <1>6, <1>7 DEF IInv, ProcessInv, OpenPipe, Fresh
<1>11. GuardInv' /\ HeldKeysGuarded' /\ HandedBackClean'
  BY <1>5, <1>7 DEF GuardInv, HeldKeysGuarded, HandedBackClean
<1>12. NoAgentLeftBehind'
  BY <1>2, <1>5, <1>6, IdleFacts DEF NoAgentLeftBehind
<1> QED
  BY <1>8, <1>9, <1>10, <1>11, <1>12 DEF IInv

\* A stop that begins: what the monitor held is noted, or the heartbeat was late.
LEMMA GraceStep ==
    ASSUME IInv, Supervising, NEW p \in Processes,
           agents' = [agents EXCEPT ![Child] = p],
           p.run = agents[Child].run, p.thread = agents[Child].thread,
           p.covers = agents[Child].covers,
           p.pipe = "closed" \/ (p.pipe = "reply" /\ p.thread \in Waiting /\
               (agents[Child].pipe = "reply" \/ p.thread = "health")),
           guardian' \in Guardians, guardian'.phase = "grace", guardian'.child = Child,
           ReleaseHolds(guardian'.monitor) \subseteq guardian'.snapshot,
           \/ guardian'.late
           \/ /\ guardian'.late = guardian.late
              /\ guardian'.snapshot = ReleaseHolds(guardian.monitor),
           pressed' \in [Slots -> SUBSET Keys],
           \A t \in Slots : pressed'[t] \subseteq pressed[t],
           UNCHANGED <<disk, crashes>>
    PROVE  IInv'
<1> USE DEF Child
<1>1. /\ guardian.phase \in {"connect", "watch"} /\ Child \in Slots
      /\ guardian.snapshot = {}
  BY DEF Supervising, IInv, TypeOK, PipeInv, Guardians
<1>2. agents'[Child] = p /\ \A t \in Slots : t # Child => agents'[t] = agents[t]
  BY <1>1 DEF IInv, TypeOK
<1>3. TypeOK'
  BY <1>1 DEF IInv, TypeOK
<1>4. PipeInv'
  BY <1>1, <1>2, SupervisionAssumption DEF IInv, PipeInv
<1>5. ProcessInv'
  <2>1. \A t \in Slots : agents'[t].run \in Fresh => pressed'[t] = {}
    BY <1>2 DEF IInv, ProcessInv
  <2>2. p.pipe \in OpenPipe \ {"quiet"} => p.thread \in Waiting
    BY DEF OpenPipe
  <2>3. p.run \in {"dead", "boot", "loaded"} => p.thread = "off" /\ p.pipe \notin OpenPipe
    BY <1>1 DEF IInv, ProcessInv, OpenPipe, Waiting
  <2> QED
    BY <1>1, <1>2, <2>1, <2>2, <2>3 DEF IInv, ProcessInv
<1>6. GuardInv'
  <2> SUFFICES ASSUME ~guardian'.late, Committed(p)
               PROVE  p.covers \subseteq guardian'.snapshot
    BY <1>2 DEF GuardInv, Guarded
  <2>1. Committed(agents[Child])
    BY DEF Committed
  <2>2. guardian.phase = "watch"
    BY <1>1, <2>1 DEF IInv, ProcessInv, PipeInv, Committed, Fresh, OpenPipe
  <2> QED
    BY <1>1, <2>1, <2>2 DEF IInv, GuardInv, Guarded
<1>7. HeldKeysGuarded'
  BY <1>1, <1>2 DEF IInv, HeldKeysGuarded
<1>8. HandedBackClean' /\ NoAgentLeftBehind'
  BY <1>1, <1>2 DEF IInv, HandedBackClean, NoAgentLeftBehind
<1> QED
  BY <1>3, <1>4, <1>5, <1>6, <1>7, <1>8 DEF IInv

\* StopAgent notes what the monitor held.
LEMMA StopFacts ==
    ASSUME TypeOK, NEW reason \in Reasons, NEW then \in {"owner", "restart"},
           StopAgent(guardian, reason, then)
    PROVE  /\ guardian' \in Guardians /\ guardian'.phase = "grace"
           /\ guardian'.child = Child /\ guardian'.late = guardian.late
           /\ guardian'.snapshot = ReleaseHolds(guardian.monitor)
           /\ ReleaseHolds(guardian'.monitor) \subseteq guardian'.snapshot
           /\ pressed' \in [Slots -> SUBSET Keys]
           /\ \A t \in Slots : pressed'[t] \subseteq pressed[t]
<1> USE DEF Child
<1> DEFINE m == guardian.monitor
           holds == ReleaseHolds(m)
<1>1. guardian \in Guardians /\ m \in Monitors
  BY DEF TypeOK, Guardians
<1>2. PICK ok \in DriverResults(holds) :
         /\ pressed' = Without(IF ok THEN holds ELSE {})
         /\ guardian' = [guardian EXCEPT !.phase = "grace", !.snapshot = holds, !.then = then,
                                  !.monitor = IF ok THEN Released(@, reason) ELSE @]
  BY DEF StopAgent
<1> DEFINE n == IF ok THEN Released(m, reason) ELSE m
<1>3. holds \in SUBSET Keys /\ n \in Monitors /\ ReleaseHolds(n) \subseteq holds
  BY <1>1, MonitorFacts
<1>4. guardian' = [guardian EXCEPT !.phase = "grace", !.snapshot = holds, !.then = then,
                                   !.monitor = n]
  BY <1>2
<1> HIDE DEF n, holds
<1>5. /\ guardian' \in Guardians /\ guardian'.phase = "grace" /\ guardian'.child = Child
      /\ guardian'.late = guardian.late /\ guardian'.snapshot = holds
      /\ guardian'.monitor = n
  BY <1>1, <1>3, <1>4 DEF Guardians
<1>6. pressed' \in [Slots -> SUBSET Keys] /\ \A t \in Slots : pressed'[t] \subseteq pressed[t]
  BY <1>2, WithoutFacts
<1> QED
  BY <1>3, <1>5, <1>6 DEF holds

\* The supervisor takes no more requests.
LEMMA HungFacts ==
    ASSUME IInv, Supervising
    PROVE  \E p \in Processes :
              /\ Hung = [agents EXCEPT ![Child] = p]
              /\ p.run = agents[Child].run /\ p.thread = agents[Child].thread
              /\ p.covers = agents[Child].covers
              /\ p.pipe = "closed" \/ (p.pipe = "reply" /\ p.thread \in Waiting
                                       /\ agents[Child].pipe = "reply")
<1> DEFINE q == agents[Child]
           p == [q EXCEPT !.pipe = IF @ = "reply" THEN @ ELSE "closed"]
<1>1. Child \in Slots /\ q \in Processes
  BY DEF Supervising, IInv, TypeOK, PipeInv, Guardians, Child
<1>2. p \in Processes /\ p.run = q.run /\ p.thread = q.thread /\ p.covers = q.covers
  BY <1>1 DEF Processes
<1>3. p.pipe = "closed" \/ (p.pipe = "reply" /\ q.pipe = "reply")
  BY <1>1 DEF Processes
<1>4. q.pipe = "reply" => q.thread \in Waiting
  BY <1>1 DEF IInv, ProcessInv, OpenPipe
<1>5. Hung = [agents EXCEPT ![Child] = p]
  BY DEF Hung
<1> QED
  BY <1>2, <1>3, <1>4, <1>5

\* OwnerStops, ConnectTimeout, AgentDisconnects, HealthStale.
LEMMA StopStep ==
    ASSUME IInv, OwnerStops \/ ConnectTimeout \/ AgentDisconnects \/ HealthStale
    PROVE  IInv'
<1>1. Supervising /\ agents' = Hung /\ UNCHANGED <<disk, crashes>> /\ TypeOK
  BY DEF OwnerStops, ConnectTimeout, AgentDisconnects, HealthStale, Supervising, IInv
<1>2. \E reason \in Reasons, then \in {"owner", "restart"} : StopAgent(guardian, reason, then)
  BY DEF OwnerStops, ConnectTimeout, AgentDisconnects, HealthStale, Reasons
<1> QED
  BY <1>1, <1>2, StopFacts, HungFacts, GraceStep

\* The Agent of the Guardian is dead.
LEMMA BuriedFacts ==
    ASSUME TypeOK, Child \in Slots, NEW Buried,
           Buried = [agents EXCEPT ![Child] = Dead(@.covers)]
    PROVE  /\ Buried \in [Slots -> Processes]
           /\ Buried[Child].run = "dead" /\ Buried[Child].thread = "off"
           /\ Buried[Child].pipe = "closed" /\ Buried[Child].covers = agents[Child].covers
           /\ \A t \in Slots : t # Child => Buried[t] = agents[t]
<1>1. agents[Child] \in Processes /\ agents[Child].covers \in SUBSET Keys
  BY DEF TypeOK, Processes
<1> DEFINE p == Dead(agents[Child].covers)
<1>2. /\ p \in Processes /\ p.run = "dead" /\ p.thread = "off" /\ p.pipe = "closed"
      /\ p.covers = agents[Child].covers
  BY <1>1, DeadFacts
<1>3. Buried = [agents EXCEPT ![Child] = p]
  OBVIOUS
<1> HIDE DEF p
<1> QED
  BY <1>2, <1>3 DEF TypeOK

\* While the Guardian has an Agent, it is the only one, unless the Guardian has died
\* before, and the only one with a connection.
LEMMA ChildFacts ==
    ASSUME IInv, guardian.phase \in {"connect", "watch", "grace"}
    PROVE  /\ Child \in Slots /\ agents[Child] \in Processes /\ Child # NoSlot
           /\ guardian \in Guardians /\ guardian.monitor \in Monitors
           /\ \A t \in Slots : t # Child =>
                 agents[t].pipe \notin OpenPipe /\ (crashes = 0 => agents[t].run = "dead")
  BY DEF IInv, TypeOK, Guardians, PipeInv, NoAgentLeftBehind, Child

\* Supervision that ends in an error: the Agent is killed.
LEMMA FinalizedStep ==
    ASSUME IInv, guardian.phase \in {"connect", "watch", "grace"},
           NEW g \in Guardians, g.child = Child, NEW held,
           Finalized(g, held), UNCHANGED <<disk, crashes>>
    PROVE  IInv'
<1> USE DEF Child
<1>1. /\ agents' \in [Slots -> Processes]
      /\ agents'[Child].run = "dead" /\ agents'[Child].thread = "off"
      /\ agents'[Child].pipe = "closed"
      /\ \A t \in Slots : t # Child => agents'[t] = agents[t]
  BY ChildFacts, BuriedFacts DEF Finalized, IInv
<1>2. /\ guardian' \in Guardians /\ guardian'.phase = "off" /\ guardian'.exit = "error"
      /\ guardian'.snapshot = {} /\ guardian'.child = Child
  BY EndedFacts DEF Finalized
<1>3. pressed' \in [Slots -> SUBSET Keys] /\ \A t \in Slots : pressed'[t] \subseteq pressed[t]
  BY WithoutFacts DEF Finalized, IInv
<1>4. HandedBackClean'
  BY <1>2 DEF HandedBackClean
<1>5. NoAgentLeftBehind'
  BY <1>1, ChildFacts DEF NoAgentLeftBehind
<1>6. crashes' \in 0 .. MaxCrashes
  BY DEF IInv, TypeOK
<1> HIDE DEF Child
<1>7. \A t \in Slots :
         /\ agents'[t].pipe \notin OpenPipe
         /\ \/ agents'[t].run = "dead" /\ agents'[t].thread = "off"
            \/ agents'[t].run = agents[t].run /\ agents'[t].thread = agents[t].thread
  BY <1>1, ChildFacts DEF OpenPipe
<1> QED
  BY <1>1, <1>2, <1>3, <1>4, <1>5, <1>6, <1>7, OffStep

\* Supervision that ends well: the Agent is dead, and what it held is let go of.
LEMMA HandedBackStep ==
    ASSUME IInv, guardian.phase \in {"connect", "watch", "grace"},
           NEW g \in Guardians, g.child = Child, g.late = guardian.late,
           guardian' = HandedBack(g),
           agents' \in [Slots -> Processes],
           agents'[Child].run = "dead", agents'[Child].thread = "off",
           agents'[Child].pipe \notin OpenPipe,
           agents'[Child].covers = agents[Child].covers,
           \A t \in Slots : t # Child => agents'[t] = agents[t],
           pressed' = Without(ReleaseHolds(guardian.monitor) \cup guardian.snapshot),
           UNCHANGED <<disk, crashes>>
    PROVE  IInv'
<1>1. /\ guardian' \in Guardians /\ guardian'.phase \in {"off", "idle"}
      /\ guardian'.snapshot = {} /\ guardian'.child = Child /\ guardian'.late = guardian.late
  BY EndedFacts
<1>2. /\ pressed' \in [Slots -> SUBSET Keys] /\ \A t \in Slots : pressed'[t] \subseteq pressed[t]
      /\ \A t \in Slots :
            pressed'[t] = pressed[t] \ (ReleaseHolds(guardian.monitor) \cup guardian.snapshot)
  BY WithoutFacts DEF IInv
<1>3. HandedBackClean'
  <2> SUFFICES ASSUME ~guardian.late
               PROVE  pressed'[Child] \cap agents[Child].covers = {}
    BY <1>1 DEF HandedBackClean, LetGo, Child
  <2> QED
    BY <1>2, ChildFacts DEF IInv, HeldKeysGuarded
<1>4. NoAgentLeftBehind'
  BY <1>1, ChildFacts DEF NoAgentLeftBehind
<1>5. crashes' \in 0 .. MaxCrashes
  BY DEF IInv, TypeOK
<1>6. \A t \in Slots :
         /\ agents'[t].pipe \notin OpenPipe
         /\ \/ agents'[t].run = "dead" /\ agents'[t].thread = "off"
            \/ agents'[t].run = agents[t].run /\ agents'[t].thread = agents[t].thread
  BY ChildFacts
<1> QED
  BY <1>1, <1>2, <1>3, <1>4, <1>5, <1>6, OffStep

\* HeartbeatExpires: late is noted, and the holds are released or the Agent killed.
LEMMA HeartbeatStep == ASSUME IInv, HeartbeatExpires PROVE IInv'
<1> DEFINE m == guardian.monitor
           holds == ReleaseHolds(m)
           n == Released(m, "HeartbeatExpired")
           g == [guardian EXCEPT !.late = TRUE]
<1>1. guardian.phase = "watch" /\ UNCHANGED <<disk, crashes>>
  BY DEF HeartbeatExpires
<1>2. guardian \in Guardians /\ m \in Monitors
  BY <1>1, ChildFacts
<1>3. CASE /\ pressed' = Without(holds)
           /\ guardian' = [guardian EXCEPT !.phase = "grace", !.snapshot = {},
                               !.then = "restart", !.late = TRUE, !.monitor = n]
           /\ agents' = Hung
  <2>1. n \in Monitors /\ ReleaseHolds(n) = {}
    BY <1>2, MonitorFacts DEF Reasons
  <2> HIDE DEF n
  <2>2. /\ guardian' \in Guardians /\ guardian'.phase = "grace" /\ guardian'.child = Child
        /\ guardian'.late /\ guardian'.monitor = n
    BY <1>2, <1>3, <2>1 DEF Guardians, Child
  <2>3. pressed' \in [Slots -> SUBSET Keys] /\ \A t \in Slots : pressed'[t] \subseteq pressed[t]
    BY <1>3, WithoutFacts DEF IInv
  <2>4. Supervising
    BY <1>1 DEF Supervising
  <2> QED
    BY <1>1, <1>3, <2>1, <2>2, <2>3, <2>4, HungFacts, GraceStep
<1>4. CASE Finalized(g, {})
  <2>1. g \in Guardians /\ g.child = Child
    BY <1>2 DEF Guardians, Child
  <2> HIDE DEF g
  <2> QED
    BY <1>1, <1>4, <2>1, FinalizedStep
<1> QED
  BY <1>3, <1>4 DEF HeartbeatExpires

\* ChildExits: what the monitor held is released, or the Guardian ends in an error.
LEMMA ChildExitsStep == ASSUME IInv, ChildExits PROVE IInv'
<1> DEFINE g == [guardian EXCEPT !.then = "restart"]
           holds == ReleaseHolds(guardian.monitor)
<1>1. /\ guardian.phase \in {"connect", "watch"} /\ agents[Child].run = "dead"
      /\ UNCHANGED <<disk, crashes>> /\ guardian.snapshot = {}
  BY DEF ChildExits, Supervising, IInv, PipeInv
<1>2. g \in Guardians /\ g.child = Child /\ g.late = guardian.late
  BY <1>1, ChildFacts DEF Guardians, Child
<1>3. CASE pressed' = Without(holds) /\ guardian' = HandedBack(g) /\ UNCHANGED agents
  <2>1. Child \in Slots
    BY <1>1, ChildFacts
  <2>2. agents[Child].thread = "off" /\ agents[Child].pipe \notin OpenPipe
    BY <1>1, <2>1 DEF IInv, ProcessInv
  <2>3. Without(holds) = Without(holds \cup guardian.snapshot)
    BY <1>1
  <2> HIDE DEF g
  <2> QED
    BY <1>1, <1>2, <1>3, <2>1, <2>2, <2>3, HandedBackStep DEF IInv, TypeOK
<1>4. CASE Finalized(g, {})
  <2> HIDE DEF g
  <2> QED
    BY <1>1, <1>2, <1>4, FinalizedStep
<1> QED
  BY <1>3, <1>4 DEF ChildExits

\* Reap: what was noted is released once the Agent is gone.
LEMMA ReapStep == ASSUME IInv, Reap PROVE IInv'
<1> DEFINE holds == ReleaseHolds(guardian.monitor)
<1>1. /\ guardian.phase = "grace" /\ UNCHANGED <<disk, crashes>>
      /\ holds \subseteq guardian.snapshot
  BY DEF Reap, IInv, PipeInv
<1>2. guardian \in Guardians /\ Child \in Slots /\ guardian.child = Child
  BY <1>1, ChildFacts DEF Child
<1>3. CASE /\ agents' = [agents EXCEPT ![Child] = Dead(@.covers)]
           /\ pressed' = Without(guardian.snapshot)
           /\ guardian' = HandedBack(guardian)
  <2>1. guardian.snapshot = holds \cup guardian.snapshot
    BY <1>1
  <2>2. /\ agents' \in [Slots -> Processes]
        /\ agents'[Child].run = "dead" /\ agents'[Child].thread = "off"
        /\ agents'[Child].pipe = "closed" /\ agents'[Child].covers = agents[Child].covers
        /\ \A t \in Slots : t # Child => agents'[t] = agents[t]
    BY <1>2, <1>3, BuriedFacts DEF IInv
  <2>3. agents'[Child].pipe \notin OpenPipe
    BY <2>2 DEF OpenPipe
  <2> QED
    BY <1>1, <1>2, <1>3, <2>1, <2>2, <2>3, HandedBackStep
<1>4. CASE Finalized(guardian, {})
  BY <1>1, <1>2, <1>4, FinalizedStep
<1> QED
  BY <1>3, <1>4 DEF Reap

\* An answer to a request while the Guardian goes on watching.
LEMMA AnswerStep ==
    ASSUME IInv, guardian.phase = "watch", agents[Child].pipe = "request",
           NEW answer \in {"reply", "refused"},
           agents' = [agents EXCEPT ![Child].pipe = answer],
           guardian' \in Guardians, guardian'.phase = "watch", guardian'.child = Child,
           guardian'.late = guardian.late, guardian'.snapshot = {},
           agents[Child].thread = "intent" /\ answer = "reply" =>
               guardian'.monitor.pending = [sequence |-> 1, holds |-> agents[Child].covers],
           agents[Child].thread = "commit" /\ answer = "reply" =>
               agents[Child].covers \subseteq ReleaseHolds(guardian'.monitor),
           agents[Child].run = "run" => guardian'.monitor = guardian.monitor,
           pressed' \in [Slots -> SUBSET Keys],
           \A t \in Slots : pressed'[t] \subseteq pressed[t],
           ~guardian.late => pressed'[Child] \cap agents[Child].covers
                                 \subseteq ReleaseHolds(guardian'.monitor),
           UNCHANGED <<disk, crashes>>
    PROVE  IInv'
<1> USE DEF Child
<1> DEFINE q == agents[Child]
           p == [q EXCEPT !.pipe = answer]
<1>1. /\ Child \in Slots /\ q \in Processes /\ Child # NoSlot /\ guardian.snapshot = {}
      /\ q.thread \in Waiting /\ q.run \notin {"dead", "boot", "loaded"}
  BY ChildFacts DEF IInv, PipeInv, ProcessInv, OpenPipe, Waiting
<1>2. agents' = [agents EXCEPT ![Child] = p]
  OBVIOUS
<1>3. /\ p \in Processes /\ p.run = q.run /\ p.thread = q.thread /\ p.covers = q.covers
      /\ p.pipe = answer
  BY <1>1 DEF Processes
<1> HIDE DEF p
<1>4. agents'[Child] = p /\ \A t \in Slots : t # Child => agents'[t] = agents[t]
  BY <1>1, <1>2 DEF IInv, TypeOK
<1>5. TypeOK'
  BY <1>2, <1>3 DEF IInv, TypeOK
<1>6. PipeInv'
  BY <1>1, <1>4 DEF IInv, PipeInv
<1>7. ProcessInv'
  <2>1. \A t \in Slots : agents'[t].run \in Fresh => pressed'[t] = {}
    BY <1>3, <1>4 DEF IInv, ProcessInv
  <2> QED
    BY <1>1, <1>3, <1>4, <2>1 DEF IInv, ProcessInv
<1>8. GuardInv'
  <2>1. Asked(p) => guardian'.monitor.pending = [sequence |-> 1, holds |-> p.covers]
    BY <1>3 DEF Asked
  <2>2. ~guardian.late /\ Committed(p) => p.covers \subseteq ReleaseHolds(guardian'.monitor)
    BY <1>1, <1>3 DEF Committed, IInv, GuardInv, Guarded
  <2> QED
    BY <1>4, <2>1, <2>2 DEF GuardInv, Guarded
<1>9. HeldKeysGuarded'
  BY <1>3, <1>4 DEF HeldKeysGuarded
<1>10. HandedBackClean' /\ NoAgentLeftBehind'
  BY <1>3, <1>4 DEF IInv, HandedBackClean, NoAgentLeftBehind
<1> QED
  BY <1>5, <1>6, <1>7, <1>8, <1>9, <1>10 DEF IInv

\* Handle: a release set that is registered is pending, one that is committed is
\* guarded, and a release the Agent asks for comes after its last key.
LEMMA HandleStep == ASSUME IInv, Handle PROVE IInv'
<1> DEFINE m == guardian.monitor
           q == agents[Child]
<1>1. /\ guardian.phase = "watch" /\ q.pipe = "request" /\ UNCHANGED <<disk, crashes>>
      /\ Child \in Slots /\ q \in Processes /\ guardian \in Guardians /\ m \in Monitors
      /\ guardian.snapshot = {} /\ q.covers \in SUBSET Keys
  BY ChildFacts DEF Handle, IInv, PipeInv, Processes
<1>2. /\ pressed \in [Slots -> SUBSET Keys]
      /\ ~guardian.late => pressed[Child] \cap q.covers \subseteq ReleaseHolds(m)
  BY <1>1 DEF IInv, TypeOK, HeldKeysGuarded
<1>3. ASSUME NEW n \in Monitors, NEW answer \in {"reply", "refused"}, Reply(n, answer)
      PROVE  /\ guardian' \in Guardians /\ guardian'.phase = "watch"
             /\ guardian'.child = Child /\ guardian'.late = guardian.late
             /\ guardian'.snapshot = {} /\ guardian'.monitor = n
             /\ agents' = [agents EXCEPT ![Child].pipe = answer]
  BY <1>1, <1>3 DEF Reply, Guardians, Child
<1>4. CASE q.thread = "intent"
  <2>1. UNCHANGED pressed /\ q.run # "run"
    BY <1>1, <1>4 DEF Handle, IInv, ProcessInv
  <2>2. CASE AcceptsIntent(m, 1)
    <3> DEFINE n == RegisterIntent(m, 1, q.covers)
    <3>1. /\ n \in Monitors /\ n.pending = [sequence |-> 1, holds |-> q.covers]
          /\ ReleaseHolds(n) = m.committed \cup q.covers
      BY <1>1, MonitorFacts
    <3>2. ReleaseHolds(m) \subseteq ReleaseHolds(n)
      BY <2>2, <3>1 DEF AcceptsIntent, ReleaseHolds, NoIntent
    <3>3. Reply(n, "reply")
      BY <1>4, <2>2 DEF Handle
    <3> HIDE DEF n
    <3> QED
      BY <1>1, <1>2, <1>3, <1>4, <2>1, <3>1, <3>2, <3>3, AnswerStep
  <2>3. CASE ~AcceptsIntent(m, 1)
    <3>1. Reply(m, "refused")
      BY <1>4, <2>3 DEF Handle
    <3> QED
      BY <1>1, <1>2, <1>3, <2>1, <3>1, AnswerStep
  <2> QED
    BY <2>2, <2>3
<1>5. CASE q.thread = "commit"
  <2>1. UNCHANGED pressed /\ q.run # "run"
    BY <1>1, <1>5 DEF Handle, IInv, ProcessInv
  <2>2. CASE AcceptsCommit(m, 1)
    <3> DEFINE n == CommitHolds(m, 1)
    <3>1. m.pending = [sequence |-> 1, holds |-> q.covers]
      BY <1>1, <1>5 DEF IInv, GuardInv, Asked
    <3>2. n \in Monitors /\ ReleaseHolds(n) = q.covers
      BY <1>1, <3>1, MonitorFacts
    <3>3. Reply(n, "reply")
      BY <1>5, <2>2 DEF Handle
    <3> HIDE DEF n
    <3> QED
      BY <1>1, <1>2, <1>3, <1>5, <2>1, <3>2, <3>3, AnswerStep
  <2>3. CASE ~AcceptsCommit(m, 1)
    <3>1. Reply(m, "refused")
      BY <1>5, <2>3 DEF Handle
    <3> QED
      BY <1>1, <1>2, <1>3, <2>1, <3>1, AnswerStep
  <2> QED
    BY <2>2, <2>3
<1>6. CASE q.thread = "beat"
  <2>1. PICK answer \in {"reply", "refused"} : Reply(m, answer) /\ UNCHANGED pressed
    BY <1>6 DEF Handle
  <2> QED
    BY <1>1, <1>2, <1>3, <1>6, <2>1, AnswerStep
<1>7. CASE q.thread = "release"
  <2>1. PICK ok \in BOOLEAN :
           /\ pressed' = Without(IF ok THEN ReleaseHolds(m) ELSE {})
           /\ IF ok THEN Reply(Released(m, "AgentExited"), "reply") ELSE Reply(m, "refused")
    BY <1>7 DEF Handle, DriverResults
  <2>2. /\ pressed' \in [Slots -> SUBSET Keys]
        /\ \A t \in Slots : pressed'[t] \subseteq pressed[t]
        /\ ok => pressed'[Child] = pressed[Child] \ ReleaseHolds(m)
    BY <1>1, <2>1, WithoutFacts DEF IInv
  <2>3. q.run # "run"
    BY <1>1, <1>7 DEF IInv, ProcessInv
  <2>4. CASE ok
    <3> DEFINE n == Released(m, "AgentExited")
    <3>1. n \in Monitors
      BY <1>1, MonitorFacts DEF Reasons
    <3>2. Reply(n, "reply")
      BY <2>1, <2>4
    <3>3. ~guardian.late => pressed'[Child] \cap q.covers \subseteq ReleaseHolds(n)
      BY <1>2, <2>2, <2>4
    <3> HIDE DEF n
    <3> QED
      BY <1>1, <1>3, <1>7, <2>2, <2>3, <3>1, <3>2, <3>3, AnswerStep
  <2>5. CASE ~ok
    <3>1. Reply(m, "refused")
      BY <2>1, <2>5
    <3>2. ~guardian.late => pressed'[Child] \cap q.covers \subseteq ReleaseHolds(m)
      BY <1>1, <1>2, <2>2
    <3> QED
      BY <1>1, <1>3, <2>2, <2>3, <3>1, <3>2, AnswerStep
  <2> QED
    BY <2>4, <2>5
<1> QED
  BY <1>4, <1>5, <1>6, <1>7 DEF Handle

\* HandleHealth: the answer, and for an unhealthy Worker the stop.
LEMMA HandleHealthStep == ASSUME IInv, HandleHealth PROVE IInv'
<1> DEFINE m == guardian.monitor
           q == agents[Child]
           p == [q EXCEPT !.pipe = "reply"]
<1>1. /\ guardian.phase = "watch" /\ q.pipe = "request" /\ q.thread = "health"
      /\ UNCHANGED <<disk, crashes>> /\ agents' = [agents EXCEPT ![Child].pipe = "reply"]
      /\ Child \in Slots /\ q \in Processes /\ guardian \in Guardians /\ m \in Monitors
      /\ guardian.snapshot = {} /\ TypeOK
  BY ChildFacts DEF HandleHealth, IInv, PipeInv
<1>2. CASE /\ \E due \in BOOLEAN :
                 guardian' = [guardian EXCEPT !.candidate = @ /\ ~due]
           /\ UNCHANGED pressed
  <2>1. PICK due \in BOOLEAN : guardian' = [guardian EXCEPT !.candidate = @ /\ ~due]
    BY <1>2
  <2>2. (guardian.candidate /\ ~due) \in BOOLEAN
    OBVIOUS
  <2>3. /\ guardian' \in Guardians /\ guardian'.phase = "watch" /\ guardian'.child = Child
        /\ guardian'.late = guardian.late /\ guardian'.snapshot = {}
        /\ guardian'.monitor = m
    BY <1>1, <2>1, <2>2 DEF Guardians, Child
  <2>4. /\ pressed' \in [Slots -> SUBSET Keys] /\ \A t \in Slots : pressed'[t] \subseteq pressed[t]
        /\ ~guardian.late => pressed'[Child] \cap q.covers \subseteq ReleaseHolds(m)
    BY <1>1, <1>2 DEF IInv, TypeOK, HeldKeysGuarded
  <2> QED
    BY <1>1, <2>3, <2>4, AnswerStep
<1>3. CASE StopAgent(guardian, "PlatformFailure", "restart")
  <2>1. /\ p \in Processes /\ p.run = q.run /\ p.thread = q.thread /\ p.covers = q.covers
        /\ p.pipe = "reply" /\ p.thread \in Waiting
    BY <1>1 DEF Processes, Waiting
  <2>2. agents' = [agents EXCEPT ![Child] = p]
    BY <1>1
  <2> HIDE DEF p
  <2>3. Supervising /\ "PlatformFailure" \in Reasons
    BY <1>1 DEF Supervising, Reasons
  <2> QED
    BY <1>1, <1>3, <2>1, <2>2, <2>3, StopFacts, GraceStep
<1> QED
  BY <1>2, <1>3 DEF HandleHealth

\* GuardianCrash: the connection ends and nobody guards anything.
LEMMA CrashStep == ASSUME IInv, GuardianCrash PROVE IInv'
<1>1. /\ guardian' = [guardian EXCEPT !.phase = "off", !.exit = "crash", !.child = NoSlot,
                                      !.monitor = NewMonitor, !.snapshot = {}]
      /\ crashes \in Nat /\ crashes < MaxCrashes /\ crashes' = crashes + 1
      /\ UNCHANGED <<disk, pressed>> /\ guardian \in Guardians
  BY SupervisionAssumption DEF GuardianCrash, IInv, TypeOK
<1>2. NewMonitor \in Monitors
  BY <1>1, MonitorFacts DEF Guardians
<1>3. /\ guardian' \in Guardians /\ guardian'.phase = "off" /\ guardian'.snapshot = {}
      /\ guardian'.exit = "crash" /\ guardian'.child = NoSlot
  BY <1>1, <1>2 DEF Guardians
<1>4. \A t \in Slots : agents'[t] \in Processes /\ agents'[t].pipe \notin OpenPipe
                       /\ agents'[t].run = agents[t].run /\ agents'[t].thread = agents[t].thread
  <2> TAKE t \in Slots
  <2>1. agents[t] \in Processes
    BY DEF IInv, TypeOK
  <2>2. CASE t = Child
    BY <2>1, <2>2 DEF GuardianCrash, Processes, OpenPipe
  <2>3. CASE t # Child
    BY <2>1, <2>3 DEF GuardianCrash, IInv, PipeInv
  <2> QED
    BY <2>2, <2>3
<1>5. agents' \in [Slots -> Processes]
  BY <1>4 DEF GuardianCrash
<1>6. crashes' \in 0 .. MaxCrashes /\ crashes' # 0
  BY <1>1, SupervisionAssumption
<1>7. HandedBackClean' /\ NoAgentLeftBehind'
  BY <1>3, <1>6 DEF HandedBackClean, NoAgentLeftBehind, Child
<1> QED
  BY <1>1, <1>3, <1>4, <1>5, <1>6, <1>7, OffStep DEF IInv, TypeOK

\* The Guardian keeps the invariant.
LEMMA GuardianKeepsIInv == ASSUME IInv, Guardian PROVE IInv'
  BY IdleStep, SpawnStep, StopStep, HeartbeatStep, ChildExitsStep, ReapStep, HandleStep,
     HandleHealthStep, CrashStep
     DEF Guardian

-------------------------------------------------------------------------------
(***************************************************************************)
(* The theorems                                                            *)
(***************************************************************************)
\* The initial states satisfy the invariant.
LEMMA InitIInv == Init => IInv
<1> SUFFICES ASSUME Init PROVE IInv
  OBVIOUS
<1> USE DEF Child
<1>1. Dead({}) \in Processes /\ Dead({}).run = "dead" /\ Dead({}).thread = "off"
      /\ Dead({}).pipe = "closed"
  BY DeadFacts
<1>2. NewMonitor \in Monitors
  BY DEF NewMonitor, NoIntent, Monitors, Intents, Reasons
<1>3. /\ guardian \in Guardians /\ guardian.phase = "idle" /\ guardian.child = NoSlot
      /\ guardian.snapshot = {}
  BY <1>2 DEF Init, Guardians
<1>4. \A s \in Slots : agents[s] = Dead({})
  BY DEF Init
<1>5. TypeOK
  BY <1>1, <1>3, SupervisionAssumption DEF Init, TypeOK
<1>6. PipeInv
  BY <1>1, <1>3, <1>4 DEF PipeInv, OpenPipe
<1>7. ProcessInv
  BY <1>1, <1>3, <1>4 DEF ProcessInv, OpenPipe, Fresh
<1>8. GuardInv /\ HeldKeysGuarded /\ HandedBackClean /\ NoAgentLeftBehind
  BY <1>1, <1>3, <1>4 DEF GuardInv, HeldKeysGuarded, HandedBackClean, NoAgentLeftBehind
<1> QED
  BY <1>5, <1>6, <1>7, <1>8 DEF IInv

\* Every state the Guardian and its Agents can reach satisfies IInv, for any
\* number of Agent processes, keys, catalogs and crashes of the Guardian.
THEOREM Invariance == Spec => []IInv
<1>1. IInv /\ UNCHANGED vars => IInv'
  BY DEF vars, IInv, TypeOK, PipeInv, ProcessInv, GuardInv, Guarded, HeldKeysGuarded,
         HandedBackClean, LetGo, NoAgentLeftBehind, Child
<1>2. IInv /\ [Next]_vars => IInv'
  BY <1>1, AgentKeepsIInv, GuardianKeepsIInv DEF Next
<1> QED
  BY <1>2, InitIInv, PTL DEF Spec

\* When the Guardian is done with an Agent and reports no error, that Agent is dead
\* and nothing of its release set is down unless its heartbeat had expired
\* (stop_agent_with_grace, release_on_exit, finalize_supervision).
THEOREM HandOver == Spec => []HandedBackClean
<1>1. IInv => HandedBackClean
  BY DEF IInv
<1> QED
  BY <1>1, Invariance, PTL

\* Every key of the release set that the Agent holds down is one the Guardian still
\* means to release (GuardianMonitor, stop_agent_with_grace).
THEOREM Guarding == Spec => []HeldKeysGuarded
<1>1. IInv => HeldKeysGuarded
  BY DEF IInv
<1> QED
  BY <1>1, Invariance, PTL

\* A Guardian that does not die leaves no Agent behind (finalize_supervision).
THEOREM NoOrphans == Spec => []NoAgentLeftBehind
<1>1. IInv => NoAgentLeftBehind
  BY DEF IInv
<1> QED
  BY <1>1, Invariance, PTL

\* The variables keep their types.
THEOREM TypeCorrect == Spec => []TypeOK
<1>1. IInv => TypeOK
  BY DEF IInv
<1> QED
  BY <1>1, Invariance, PTL

===============================================================================
