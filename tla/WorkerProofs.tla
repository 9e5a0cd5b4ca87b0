----------------------------- MODULE WorkerProofs -----------------------------
(***************************************************************************)
(* The Worker platform and the realtime program that plays on it keep      *)
(* their inductive invariants, for any keys, windows and lanes, a queue of *)
(* any depth and any number of faults.  AgentProofs draws the theorems     *)
(* from them.                                                              *)
(***************************************************************************)
EXTENDS MCAgent, Sequences, FiniteSetTheorems, TLAPS

\* What the operations work on.
Works == [server : W!Servers, down : SUBSET Holds, agent : W!Agents, faults : Nat,
          answer : {"applied", "busy", "refused"}]

\* The states an operation may be in: a process that is gone runs no program.
Sound(x) == x \in Works /\ (~x.server.alive => x.server.program = "off")

\* No key is down, and nothing can press one.
Calm(x) == x.down = {} /\ x.server.program # "on"

LEMMA ServerFacts ==
  /\ W!NewServer \in W!Servers /\ W!NewServer.program = "off" /\ W!NewServer.alive
  /\ W!Dead \in W!Servers /\ W!Dead.program = "off" /\ ~W!Dead.alive
BY DEF W!NewServer, W!Dead, W!Servers

LEMMA IdleFacts == ASSUME NEW a \in W!Agents PROVE W!Idle(a) \in W!Agents
BY DEF W!Agents, W!Idle

LEMMA FaultyFacts ==
  ASSUME NEW x, Sound(x)
  PROVE  Sound(W!Faulty(x)) /\ (Calm(x) => Calm(W!Faulty(x)))
BY DEF Sound, Calm, W!Faulty, Works

LEMMA KilledFacts ==
  ASSUME NEW x, Sound(x)
  PROVE  /\ Sound(W!Killed(x)) /\ W!Killed(x).server = W!Dead /\ W!Killed(x).down = x.down
         /\ W!Killed(x).agent.target = x.agent.target
         /\ x.down = {} => Calm(W!Killed(x))
BY ServerFacts DEF Sound, Calm, W!Killed, Works, W!Agents

LEMMA SpawnedFacts ==
  ASSUME NEW x, Sound(x)
  PROVE  /\ Sound(W!Spawned(x)) /\ W!Spawned(x).server.alive /\ W!Spawned(x).down = x.down
         /\ Calm(x) => Calm(W!Spawned(x))
<1>1. CASE x.server.alive
  BY <1>1 DEF W!Spawned
<1>2. CASE ~x.server.alive
  <2>1. W!Spawned(x) = [x EXCEPT !.server = W!NewServer, !.agent.attached = FALSE]
    BY <1>2 DEF W!Spawned
  <2>2. x.agent \in W!Agents /\ [x.agent EXCEPT !.attached = FALSE] \in W!Agents
    BY DEF Sound, Works, W!Agents
  <2> QED
    BY <2>1, <2>2, ServerFacts DEF Sound, Calm, Works
<1> QED
  BY <1>1, <1>2

LEMMA AnsweredFacts ==
  ASSUME NEW x, Sound(x), NEW answer \in {"applied", "busy", "refused"}
  PROVE  /\ Sound(W!Answered(x, answer)) /\ W!Answered(x, answer).answer = answer
         /\ Calm(x) => Calm(W!Answered(x, answer))
<1> DEFINE b == x.agent.terminal \/ x.server.event # "none"
           A(c) == [x.agent EXCEPT !.held = x.server.held, !.terminal = c]
           S == [x.server EXCEPT !.behind = FALSE, !.event = "none"]
<1>1. b \in BOOLEAN
  OBVIOUS
<1>2. \A c \in BOOLEAN : A(c) \in W!Agents
  BY DEF Sound, Works, W!Agents, W!Servers
<1>3. S \in W!Servers /\ S.alive = x.server.alive /\ S.program = x.server.program
  BY DEF Sound, Works, W!Servers
<1>4. W!Answered(x, answer) = [x EXCEPT !.answer = answer, !.agent = A(b), !.server = S]
  BY DEF Sound, Works, W!Agents, W!Servers, W!Answered
<1>5. A(b) \in W!Agents
  BY <1>1, <1>2
<1> HIDE DEF A, S, b
<1> QED
  BY <1>3, <1>4, <1>5 DEF Sound, Calm, Works

LEMMA HereFacts ==
  ASSUME W!IInv
  PROVE  /\ Sound(W!Here) /\ W!Here.server = workerServer /\ W!Here.down = workerDown
         /\ W!Here.agent = workerAgent
         /\ W!Here.faults = workerFaults /\ (workerReleased => Calm(W!Here))
BY DEF W!IInv, W!TypeOK, W!GoneRunsNothing, W!ReleaseProven, W!Here, Sound, Calm, Works

------------------------------------------------------------------------------
\* What a step leaves, if it works on x.
Kept ==
  /\ workerServer \in W!Servers /\ workerDown \subseteq Holds /\ workerAgent \in W!Agents
  /\ workerFaults \in 0 .. MaxFaults /\ W!GoneRunsNothing

LEMMA BecomesFacts ==
  ASSUME NEW x, Sound(x), W!Becomes(x)
  PROVE  /\ Kept' /\ workerServer' = x.server /\ workerDown' = x.down
         /\ Calm(x) <=> (workerDown' = {} /\ workerServer'.program # "on")
BY MCAgentAssumption DEF MCAgentAssumption, Sound, Calm, Works, W!Becomes, Kept, W!GoneRunsNothing

LEMMA EmptiedFacts ==
  ASSUME NEW s \in W!Servers
  PROVE  /\ W!Emptied(s) \in W!Servers /\ W!Emptied(s).program = "off"
         /\ W!Emptied(s).alive = s.alive
BY DEF W!Servers, W!Emptied

\* The part of the Worker, if it reports that it is done, leaves no program.
LEMMA WorkerReleaseFacts ==
  ASSUME NEW x, Sound(x), NEW c
  PROVE  /\ Sound(W!ReleasedByWorker(x, c))
         /\ W!ReleasedByWorker(x, c).agent.target = x.agent.target
         /\ W!ReleasedByWorker(x, c).answer = "applied" =>
              W!ReleasedByWorker(x, c).server.program # "on"
<1>1. CASE ~x.server.alive
  BY <1>1 DEF W!ReleasedByWorker, Sound, Works
<1>2. CASE x.server.alive /\ c.busy
  BY <1>2 DEF W!ReleasedByWorker, Sound, Works
<1>3. CASE x.server.alive /\ ~c.busy /\ W!CanRelease(x.server) /\ c.worker
  BY <1>3, EmptiedFacts DEF W!ReleasedByWorker, Sound, Works
<1>4. CASE x.server.alive /\ ~c.busy /\ ~(W!CanRelease(x.server) /\ c.worker)
  BY <1>4, KilledFacts DEF W!ReleasedByWorker, Sound, Works
<1> QED
  BY <1>1, <1>2, <1>3, <1>4

LEMMA AgentReleaseFacts ==
  ASSUME NEW x, Sound(x), NEW c
  PROVE  /\ Sound(W!ReleasedByAgent(x, c)) /\ W!ReleasedByAgent(x, c).server = x.server
         /\ W!ReleasedByAgent(x, c).answer = x.answer
         /\ x.agent.target # NoTarget /\ c.keys => W!ReleasedByAgent(x, c).down = {}
BY DEF Sound, Works, W!ReleasedByAgent

\* Both parts: a release that is proven leaves no key down and nothing that presses one.
LEMMA ReleaseFacts ==
  ASSUME NEW x, Sound(x), NEW c
  PROVE  /\ Sound(W!Release(x, c))
         /\ W!Succeeded(x, c) => Calm(W!Release(x, c))
<1> DEFINE w == W!ReleasedByWorker(x, c)
           y == W!ReleasedByAgent(w, c)
           z == IF c.worker /\ c.keys THEN y ELSE W!Faulty(y)
           r == IF y.answer = "applied" /\ c.keys THEN [z EXCEPT !.agent = W!Idle(@)] ELSE z
<1>1. /\ Sound(w) /\ w.agent.target = x.agent.target
      /\ w.answer = "applied" => w.server.program # "on"
  BY WorkerReleaseFacts
<1>2. /\ Sound(y) /\ y.server = w.server /\ y.answer = w.answer
      /\ x.agent.target # NoTarget /\ c.keys => y.down = {}
  BY <1>1, AgentReleaseFacts
<1>3. W!Release(x, c) = r
  BY DEF W!Release
<1>4. W!Succeeded(x, c) => w.answer = "applied" /\ c.keys /\ x.agent.target # NoTarget
  BY DEF W!Succeeded, W!Reported
<1> HIDE DEF w, y
<1>5. Sound(z) /\ (Calm(y) => Calm(z))
  BY <1>2, FaultyFacts
<1>6. W!Succeeded(x, c) => Calm(y)
  BY <1>1, <1>2, <1>4 DEF Calm
<1> HIDE DEF z
<1>7. Sound(r) /\ (Calm(z) => Calm(r))
  <2>1. z.agent \in W!Agents
    BY <1>5 DEF Sound, Works
  <2>2. W!Idle(z.agent) \in W!Agents
    BY <2>1, IdleFacts
  <2> QED
    BY <1>5, <2>2 DEF Sound, Calm, Works
<1> HIDE DEF r
<1> QED
  BY <1>3, <1>5, <1>6, <1>7

\* The target a release is about is that of the Agent as it was.
LEMMA ReleasingStep ==
  ASSUME NEW x, Sound(x), W!Releasing(x)
  PROVE  Kept' /\ {workerReleased', workerBlocked'} \subseteq BOOLEAN /\ W!ReleaseProven'
<1>1. PICK c \in W!Ways(x) : /\ W!Becomes(W!Release(x, c))
                           /\ workerReleased' = W!Succeeded(x, c)
                           /\ workerBlocked' = ~W!Reported(x, c)
  BY DEF W!Releasing
<1>2. workerReleased' \in BOOLEAN
  BY ONLY <1>1, Zenon DEF W!Succeeded, W!Reported
<1>3. workerBlocked' \in BOOLEAN
  BY ONLY <1>1, Zenon DEF W!Reported
<1>4. Kept' /\ (workerReleased' => workerDown' = {} /\ workerServer'.program # "on")
  BY <1>1, ReleaseFacts, BecomesFacts
<1> QED
  BY <1>2, <1>3, <1>4 DEF W!ReleaseProven

LEMMA UncertainStep ==
  ASSUME NEW x, Sound(x), W!Uncertain(x)
  PROVE  Kept' /\ {workerReleased', workerBlocked'} \subseteq BOOLEAN /\ W!ReleaseProven'
<1> DEFINE y == [x EXCEPT !.agent.faulted = TRUE]
<1>1. PICK c \in W!Ways(y) : W!Becomes(W!Release(y, c)) /\ workerReleased' = W!Succeeded(y, c)
  BY DEF W!Uncertain
<1>2. workerBlocked' = TRUE
  BY DEF W!Uncertain
<1>3. workerReleased' \in BOOLEAN
  BY ONLY <1>1, Zenon DEF W!Succeeded, W!Reported
<1>4. Sound(y)
  BY DEF Sound, Works, W!Agents
<1> HIDE DEF y
<1>5. Kept' /\ (workerReleased' => workerDown' = {} /\ workerServer'.program # "on")
  BY <1>1, <1>4, ReleaseFacts, BecomesFacts
<1> QED
  BY <1>2, <1>3, <1>5 DEF W!ReleaseProven

\* A request that was refused leaves a release proven, if what it asked of is as before.
LEMMA SettleStep ==
  ASSUME W!IInv, NEW x, Sound(x), W!Settle(x),
         workerReleased /\ x.answer = "refused" => Calm(x)
  PROVE  Kept' /\ {workerReleased', workerBlocked'} \subseteq BOOLEAN /\ W!ReleaseProven'
<1>1. /\ W!Becomes(x) /\ workerReleased' = (workerReleased /\ x.answer = "refused")
      /\ workerBlocked' = workerBlocked
  BY DEF W!Settle
<1>2. workerReleased' \in BOOLEAN
  BY ONLY <1>1, Zenon
<1>3. Kept' /\ (workerReleased' => workerDown' = {} /\ workerServer'.program # "on")
  BY <1>1, BecomesFacts
<1> QED
  BY <1>1, <1>2, <1>3 DEF W!IInv, W!TypeOK, W!ReleaseProven

------------------------------------------------------------------------------
\* What a request leaves.

LEMMA SettledFacts ==
  ASSUME NEW x, Sound(x), NEW done, Sound(done), NEW y \in W!Settled(x, done)
  PROVE  /\ Sound(y) /\ y.answer \in {"applied", "refused"}
         /\ Calm(x) /\ y.answer = "refused" => Calm(y)
         /\ Calm(x) /\ Calm(done) => Calm(y)
BY SpawnedFacts, AnsweredFacts DEF W!Settled

LEMMA UnsettledFacts ==
  ASSUME NEW x, Sound(x), NEW done, Sound(done), NEW y \in W!Unsettled(x, done)
  PROVE  Sound(y)
<1>1. \A z : Sound(z) => Sound(W!Faulty([z EXCEPT !.server.usable = FALSE]))
  <2>1. ASSUME NEW z, Sound(z) PROVE Sound([z EXCEPT !.server.usable = FALSE])
    BY <2>1 DEF Sound, Works, W!Servers
  <2> QED
    BY <2>1, FaultyFacts
<1>2. Sound(W!Spawned(x)) /\ Sound(W!Answered(W!Spawned(x), "refused"))
  BY SpawnedFacts, AnsweredFacts
<1>3. \/ y = W!Spawned(x) \/ y = W!Answered(W!Spawned(x), "refused")
      \/ \E z \in {W!Spawned(x), done} : y = W!Faulty([z EXCEPT !.server.usable = FALSE])
  BY DEF W!Unsettled
<1> QED
  BY <1>1, <1>2, <1>3

LEMMA DetachedFacts ==
  ASSUME NEW x, Sound(x)
  PROVE  /\ Sound(W!Detached(x)) /\ W!Detached(x).server = W!Dead
         /\ x.down = {} => Calm(W!Detached(x))
<1> DEFINE y == IF x.server.alive /\ W!CanRelease(x.server) THEN [x EXCEPT !.down = {}] ELSE x
<1>1. Sound(y) /\ (x.down = {} => y.down = {})
  BY DEF Sound, Works
<1>2. W!Detached(x) = W!Killed(y)
  BY DEF W!Detached
<1> HIDE DEF y
<1> QED
  BY <1>1, <1>2, KilledFacts

LEMMA AttachedFacts ==
  ASSUME NEW x, Sound(x), NEW t \in Targets
  PROVE  Sound(W!Attached(x, t)) /\ (x.down = {} => Calm(W!Attached(x, t)))
<1> DEFINE s == [W!NewServer EXCEPT !.mode = "generic"]
           a == [x.agent EXCEPT !.target = t, !.attached = TRUE]
<1>1. s \in W!Servers /\ s.alive /\ s.program = "off"
  BY DEF W!Servers, W!NewServer
<1>2. a \in W!Agents
  BY DEF Sound, Works, W!Agents
<1>3. W!Attached(x, t) = [x EXCEPT !.server = s, !.agent = a]
  BY DEF W!Attached, Sound, Works, W!Agents
<1> HIDE DEF s, a
<1> QED
  BY <1>1, <1>2, <1>3 DEF Sound, Calm, Works

LEMMA AttachmentsFacts ==
  ASSUME NEW x, Sound(x), NEW t \in Targets, NEW o \in W!Attachments(x, t)
  PROVE  Sound(o) /\ (Calm(x) => Calm(o))
<1> DEFINE y == IF x.agent.target = t THEN x ELSE W!Detached(x)
<1>1. Sound(y) /\ (Calm(x) => y.down = {})
  BY DetachedFacts DEF Calm
<1>2. \A z, answer : Sound(z) /\ answer \in {"applied", "refused"} =>
        Sound([z EXCEPT !.answer = answer]) /\ (Calm(z) => Calm([z EXCEPT !.answer = answer]))
  BY DEF Sound, Calm, Works
<1>3. \/ o = [x EXCEPT !.answer = "applied"]
      \/ o = [W!Attached(y, t) EXCEPT !.answer = "applied"]
      \/ o = W!Faulty([W!Killed(y) EXCEPT !.answer = "refused"])
  BY DEF W!Attachments
<1> HIDE DEF y
<1>4. CASE o = [x EXCEPT !.answer = "applied"]
  BY <1>2, <1>4
<1>5. CASE o = [W!Attached(y, t) EXCEPT !.answer = "applied"]
  <2>1. Sound(W!Attached(y, t)) /\ (Calm(x) => Calm(W!Attached(y, t)))
    BY <1>1, AttachedFacts
  <2> QED
    BY <1>2, <1>5, <2>1
<1>6. CASE o = W!Faulty([W!Killed(y) EXCEPT !.answer = "refused"])
  <2>1. Sound(W!Killed(y)) /\ (Calm(x) => Calm(W!Killed(y)))
    BY <1>1, KilledFacts
  <2>2. /\ Sound([W!Killed(y) EXCEPT !.answer = "refused"])
        /\ Calm(x) => Calm([W!Killed(y) EXCEPT !.answer = "refused"])
    BY <1>2, <2>1
  <2> QED
    BY <1>6, <2>2, FaultyFacts
<1> QED
  BY <1>3, <1>4, <1>5, <1>6

LEMMA SessionFacts ==
  ASSUME NEW x, Sound(x)
  PROVE  Sound(W!InSession(x)) /\ (Calm(x) => Calm(W!InSession(x)))
<1> DEFINE a == [x.agent EXCEPT !.session = TRUE, !.expires = "set"]
<1>1. a \in W!Agents
  BY DEF Sound, Works, W!Agents
<1>2. W!InSession(x) = [x EXCEPT !.agent = a]
  BY DEF W!InSession, Sound, Works, W!Agents
<1> HIDE DEF a
<1> QED
  BY <1>1, <1>2 DEF Sound, Calm, Works

LEMMA AgentOnly ==
  ASSUME NEW x, Sound(x), NEW a \in W!Agents
  PROVE  Sound([x EXCEPT !.agent = a]) /\ (Calm(x) => Calm([x EXCEPT !.agent = a]))
BY DEF Sound, Calm, Works

LEMMA RefusedFacts ==
  ASSUME NEW x, Sound(x)
  PROVE  /\ Sound([x EXCEPT !.answer = "refused"])
         /\ [x EXCEPT !.answer = "refused"].answer = "refused"
         /\ Calm(x) => Calm([x EXCEPT !.answer = "refused"])
BY DEF Sound, Calm, Works

LEMMA RetainedFacts ==
  ASSUME NEW x, Sound(x)
  PROVE  /\ Sound(W!Retained(x)) /\ (Calm(x) => Calm(W!Retained(x)))
         /\ W!Retained(x).answer = x.answer
<1>1. [x.agent EXCEPT !.expires = "none"] \in W!Agents
  BY DEF Sound, Works, W!Agents
<1> QED
  BY <1>1, AgentOnly DEF W!Retained, Sound, Works

LEMMA NoProgramFacts ==
  ASSUME NEW x, Sound(x)
  PROVE  /\ Sound(W!NoProgram(x)) /\ (Calm(x) => Calm(W!NoProgram(x)))
         /\ W!NoProgram(x).answer = x.answer
<1> DEFINE a == [x.agent EXCEPT !.program = FALSE, !.terminal = FALSE]
<1>1. a \in W!Agents
  BY DEF Sound, Works, W!Agents
<1>2. W!NoProgram(x) = [x EXCEPT !.agent = a]
  BY DEF W!NoProgram, Sound, Works, W!Agents
<1> HIDE DEF a
<1> QED
  BY <1>1, <1>2, AgentOnly DEF Sound, Works

\* A request that leaves nothing else, as far as releasing goes.
LEMMA RestFacts ==
  ASSUME Kept', {workerReleased', workerBlocked'} \subseteq BOOLEAN, W!ReleaseProven',
         workerCapturing' \in BOOLEAN
  PROVE  W!IInv'
BY DEF W!IInv, W!TypeOK, Kept, W!GoneRunsNothing

\* A step that works on x and reports no release.
LEMMA PlainStep ==
  ASSUME W!IInv, NEW x, Sound(x), W!Becomes(x), UNCHANGED workerReleased,
         workerBlocked' \in BOOLEAN,
         workerReleased => Calm(x), workerCapturing' \in BOOLEAN
  PROVE  W!IInv'
<1>1. Kept' /\ (workerReleased' => workerDown' = {} /\ workerServer'.program # "on")
  BY BecomesFacts
<1> QED
  BY <1>1, RestFacts DEF W!ReleaseProven, W!IInv, W!TypeOK

------------------------------------------------------------------------------
\* The steps.

LEMMA WorkerBindStep == ASSUME W!IInv, NEW t \in Targets, W!Bind(t) PROVE W!IInv'
<1>1. PICK x \in W!Attachments(W!Here, t) : W!Becomes(x)
  BY DEF W!Bind
<1>2. Sound(x) /\ (workerReleased => Calm(x))
  BY HereFacts, AttachmentsFacts
<1> QED
  BY <1>1, <1>2, PlainStep DEF W!Bind, W!IInv, W!TypeOK

LEMMA LeaseExpiresStep == ASSUME W!IInv, W!LeaseExpires PROVE W!IInv'
<1>1. workerAgent' \in W!Agents
  BY DEF W!LeaseExpires, W!IInv, W!TypeOK, W!Agents
<1> QED
  BY <1>1 DEF W!LeaseExpires, W!IInv, W!TypeOK, W!GoneRunsNothing, W!ReleaseProven

LEMMA ReleaseStep == ASSUME W!IInv, W!TickInputSafety \/ W!ReleaseTaskInput PROVE W!IInv'
BY HereFacts, ReleasingStep, RestFacts DEF W!TickInputSafety, W!ReleaseTaskInput, W!IInv, W!TypeOK

LEMMA WorkerCloseStep == ASSUME W!IInv, W!Close PROVE W!IInv'
<1>1. PICK c \in W!Ways(W!Here) :
        /\ W!Becomes([W!Detached(W!Release(W!Here, c)) EXCEPT !.agent.target = NoTarget,
                                                      !.agent.faulted = FALSE])
        /\ workerReleased' = W!Succeeded(W!Here, c) /\ workerBlocked' = ~W!Reported(W!Here, c)
  BY DEF W!Close
<1> DEFINE x == W!Detached(W!Release(W!Here, c))
           a == [x.agent EXCEPT !.target = NoTarget, !.faulted = FALSE]
<1>2. workerReleased' \in BOOLEAN
  BY ONLY <1>1, Zenon DEF W!Succeeded, W!Reported
<1>3. workerBlocked' \in BOOLEAN
  BY ONLY <1>1, Zenon DEF W!Reported
<1>4. Sound(x) /\ (W!Succeeded(W!Here, c) => Calm(x))
  BY HereFacts, ReleaseFacts, DetachedFacts DEF Calm
<1>5. /\ [x EXCEPT !.agent.target = NoTarget, !.agent.faulted = FALSE] = [x EXCEPT !.agent = a]
      /\ a \in W!Agents
  BY <1>4 DEF Sound, Works, W!Agents
<1> HIDE DEF x, a
<1>6. Sound([x EXCEPT !.agent = a]) /\ (W!Succeeded(W!Here, c) => Calm([x EXCEPT !.agent = a]))
  BY <1>4, <1>5, AgentOnly
<1>7. W!Becomes([x EXCEPT !.agent = a])
  BY <1>1, <1>5 DEF x
<1>8. Kept' /\ (workerReleased' => workerDown' = {} /\ workerServer'.program # "on")
  BY <1>1, <1>6, <1>7, BecomesFacts
<1>9. workerCapturing' \in BOOLEAN
  BY DEF W!Close, W!IInv, W!TypeOK
<1> QED
  BY <1>2, <1>3, <1>8, <1>9, RestFacts DEF W!ReleaseProven

LEMMA WorkerConfigureStep == ASSUME W!IInv, W!Configure PROVE W!IInv'
<1> DEFINE a == [W!Idle(W!Killed(W!Here).agent) EXCEPT !.target = NoTarget]
<1>1. Sound(W!Killed(W!Here)) /\ (workerReleased => Calm(W!Killed(W!Here)))
  BY HereFacts, KilledFacts DEF Calm
<1>2. a \in W!Agents
  <2>1. W!Killed(W!Here).agent \in W!Agents
    BY <1>1 DEF Sound, Works
  <2> QED
    BY <2>1, IdleFacts DEF W!Agents
<1>3. W!Becomes([W!Killed(W!Here) EXCEPT !.agent = a])
  BY DEF W!Configure
<1> HIDE DEF a
<1>4. /\ Sound([W!Killed(W!Here) EXCEPT !.agent = a])
      /\ (workerReleased => Calm([W!Killed(W!Here) EXCEPT !.agent = a]))
  BY <1>1, <1>2, AgentOnly
<1> QED
  BY <1>3, <1>4, PlainStep DEF W!Configure, W!IInv, W!TypeOK

LEMMA EnsureReadyStep == ASSUME W!IInv, W!EnsureReady PROVE W!IInv'
<1>1. CASE /\ W!Becomes(W!Spawned(W!Here))
           /\ UNCHANGED <<workerReleased, workerBlocked, workerCapturing>>
  BY <1>1, HereFacts, SpawnedFacts, PlainStep DEF W!IInv, W!TypeOK
<1>2. CASE W!NotReady(W!Here) /\ UNCHANGED workerCapturing
  BY <1>2, HereFacts, KilledFacts, UncertainStep, RestFacts DEF W!NotReady, W!IInv, W!TypeOK
<1>3. CASE W!NotReady(W!Faulty(W!Here)) /\ UNCHANGED workerCapturing
  BY <1>3, HereFacts, FaultyFacts, KilledFacts, UncertainStep, RestFacts
     DEF W!NotReady, W!IInv, W!TypeOK
<1> QED
  BY <1>1, <1>2, <1>3 DEF W!EnsureReady

\* The program presses keys only while it runs, and then no release is proven.
LEMMA ProgramStep ==
  ASSUME W!IInv, W!ProgramPresses \/ W!ProgramEnds \/ W!FinishProgram
  PROVE  W!IInv'
<1>1. CASE W!ProgramPresses
  BY <1>1 DEF W!ProgramPresses, W!IInv, W!TypeOK, W!GoneRunsNothing, W!ReleaseProven
<1>2. CASE W!ProgramEnds
  BY <1>2, MCAgentAssumption
     DEF W!ProgramEnds, W!IInv, W!TypeOK, W!GoneRunsNothing, W!ReleaseProven, W!Servers,
         MCAgentAssumption
<1>3. CASE W!FinishProgram
  BY <1>3 DEF W!FinishProgram, W!IInv, W!TypeOK, W!GoneRunsNothing, W!ReleaseProven, W!Servers
<1> QED
  BY <1>1, <1>2, <1>3

LEMMA WorkerStreamStep == ASSUME W!IInv, W!FrameArrives \/ W!StreamFails PROVE W!IInv'
<1>1. CASE W!FrameArrives
  BY <1>1 DEF W!FrameArrives, W!IInv, W!TypeOK, W!GoneRunsNothing, W!ReleaseProven, W!Agents
<1>2. CASE W!StreamFails
  BY <1>2, MCAgentAssumption
     DEF W!StreamFails, W!IInv, W!TypeOK, W!GoneRunsNothing, W!ReleaseProven, W!Servers,
         MCAgentAssumption
<1> QED
  BY <1>1, <1>2

LEMMA PollStep == ASSUME W!IInv, W!PollProgram PROVE W!IInv'
<1>1. Sound(W!Here) /\ Sound(W!Spawned(W!Here)) /\ (workerReleased => Calm(W!Here))
  BY HereFacts, SpawnedFacts
<1>2. ASSUME NEW y \in W!Settled(W!Here, W!Spawned(W!Here)), W!Settle(y) PROVE W!IInv'
  BY <1>1, <1>2, SettledFacts, SettleStep, RestFacts DEF W!PollProgram, W!IInv, W!TypeOK
<1>3. ASSUME NEW y \in W!Unsettled(W!Here, W!Spawned(W!Here)), W!Uncertain(y) PROVE W!IInv'
  BY <1>1, <1>3, UnsettledFacts, UncertainStep, RestFacts DEF W!PollProgram, W!IInv, W!TypeOK
<1> QED
  BY <1>2, <1>3 DEF W!PollProgram

LEMMA StopStep == ASSUME W!IInv, W!StopProgram PROVE W!IInv'
<1> DEFINE stops == workerServer.alive /\ workerServer.mode = "realtime"
           ended == [W!Here EXCEPT !.server = W!Emptied([@ EXCEPT !.stream = "off"]), !.down = {}]
           done == IF stops THEN ended ELSE W!Spawned(W!Here)
<1>0. /\ Sound(W!Here) /\ (workerReleased => Calm(W!Here)) /\ W!Here.server = workerServer
      /\ workerServer \in W!Servers
  BY HereFacts DEF W!IInv, W!TypeOK
<1>1. Sound(done)
  <2>1. [workerServer EXCEPT !.stream = "off"] \in W!Servers
    BY <1>0 DEF W!Servers
  <2>2. /\ W!Emptied([workerServer EXCEPT !.stream = "off"]) \in W!Servers
        /\ W!Emptied([workerServer EXCEPT !.stream = "off"]).program = "off"
    BY <2>1, EmptiedFacts
  <2>3. Sound(ended)
    BY <1>0, <2>2 DEF Sound, Works
  <2> QED
    BY <1>0, <2>3, SpawnedFacts
<1>2. CASE workerAgent.terminal
  <2>1. /\ W!Becomes(W!NoProgram(W!Here))
        /\ UNCHANGED <<workerReleased, workerBlocked, workerCapturing>>
    BY <1>2 DEF W!StopProgram
  <2> QED
    BY <1>0, <2>1, NoProgramFacts, PlainStep DEF W!IInv, W!TypeOK
<1>3. CASE ~workerAgent.terminal
  <2>1. \/ \E y \in W!Settled(W!Here, done) :
             IF stops /\ y.answer = "applied"
               THEN W!Settle(W!NoProgram(y)) ELSE W!Settle([y EXCEPT !.answer = "refused"])
        \/ \E y \in W!Unsettled(W!Here, done) : W!Uncertain(y)
    BY <1>3 DEF W!StopProgram
  <2>2. workerCapturing' \in BOOLEAN
    BY DEF W!StopProgram, W!IInv, W!TypeOK
  <2>3. ASSUME ~stops, workerReleased PROVE Calm(done)
    BY <1>0, <2>3, SpawnedFacts
  <2> HIDE DEF stops, done
  <2>4. ASSUME NEW y \in W!Settled(W!Here, done), stops /\ y.answer = "applied",
               W!Settle(W!NoProgram(y))
        PROVE  W!IInv'
    <3>1. Sound(W!NoProgram(y)) /\ W!NoProgram(y).answer = "applied"
      BY <1>0, <1>1, <2>4, SettledFacts, NoProgramFacts
    <3> QED
      BY <2>2, <2>4, <3>1, SettleStep, RestFacts
  <2>5. ASSUME NEW y \in W!Settled(W!Here, done), ~(stops /\ y.answer = "applied"),
               W!Settle([y EXCEPT !.answer = "refused"])
        PROVE  W!IInv'
    <3>1. Sound(y) /\ (workerReleased => Calm(y))
      BY <1>0, <1>1, <2>3, <2>5, SettledFacts
    <3> QED
      BY <2>2, <2>5, <3>1, RefusedFacts, SettleStep, RestFacts
  <2>6. ASSUME NEW y \in W!Unsettled(W!Here, done), W!Uncertain(y) PROVE W!IInv'
    BY <1>0, <1>1, <2>2, <2>6, UnsettledFacts, UncertainStep, RestFacts
  <2> QED
    BY <2>1, <2>4, <2>5, <2>6
<1> QED
  BY <1>2, <1>3

LEMMA PressedFacts ==
  ASSUME NEW x, Sound(x), NEW h \in SUBSET Holds
  PROVE  Sound(W!PressedTo(x, h)) /\ \A y \in W!Partway(x, h) : Sound(y)
<1> DEFINE d == (x.down \ (x.agent.held \ h)) \cup (h \ x.server.held)
           e == x.down \ (x.agent.held \ h)
           s == [x.server EXCEPT !.held = h]
<1>1. d \in SUBSET Holds /\ e \in SUBSET Holds
  BY DEF Sound, Works
<1>2. s \in W!Servers /\ s.alive = x.server.alive /\ s.program = x.server.program
  BY DEF Sound, Works, W!Servers
<1>3. W!PressedTo(x, h) = [x EXCEPT !.down = d, !.server = s]
  BY DEF W!PressedTo, Sound, Works, W!Servers
<1>4. \A y \in W!Partway(x, h) : y = W!PressedTo(x, h) \/ y = [x EXCEPT !.down = e]
  BY DEF W!Partway
<1> HIDE DEF d, e, s
<1>5. Sound(W!PressedTo(x, h)) /\ Sound([x EXCEPT !.down = e])
  BY <1>1, <1>2, <1>3 DEF Sound, Works
<1> QED
  BY <1>4, <1>5

LEMMA MaaFacts ==
  ASSUME NEW x, Sound(x)
  PROVE  Sound(W!MaaFails(x))
<1> DEFINE s == [x.server EXCEPT !.mode = "faulted", !.held = {}]
<1>1. s \in W!Servers /\ s.alive = x.server.alive /\ s.program = x.server.program
  BY DEF Sound, Works, W!Servers
<1>2. W!MaaFails(x) = W!Faulty([x EXCEPT !.server = s])
  BY DEF W!MaaFails, Sound, Works, W!Servers
<1> HIDE DEF s
<1>3. Sound([x EXCEPT !.server = s])
  BY <1>1 DEF Sound, Works
<1> QED
  BY <1>2, <1>3, FaultyFacts

LEMMA ApplyInputStep == ASSUME W!IInv, NEW h \in SUBSET Holds, W!ApplyInputFrame(h) PROVE W!IInv'
<1>0. /\ Sound(W!Here) /\ (workerReleased => Calm(W!Here)) /\ workerCapturing' \in BOOLEAN
      /\ workerAgent.target \in Targets
  BY HereFacts DEF W!ApplyInputFrame, W!IInv, W!TypeOK, W!Agents
<1>1. PICK o \in W!Opened :
        IF o.answer = "refused" THEN W!Becomes(o) /\ UNCHANGED <<workerReleased, workerBlocked>>
        ELSE LET x == W!InSession(o) IN
             \/ /\ h = x.agent.held
                /\ W!Becomes(W!Retained(x)) /\ workerReleased' = FALSE /\ UNCHANGED workerBlocked
             \/ /\ h # x.agent.held
                /\ \/ LET done == IF W!InputAllowed(x) THEN W!PressedTo(W!Spawned(x), h)
                                                     ELSE W!Spawned(x)
                      IN  \/ \E y \in W!Settled(x, done) :
                               IF W!InputAllowed(x) /\ y.answer = "applied"
                                 THEN W!Settle(W!Retained(y))
                                 ELSE W!Settle([y EXCEPT !.answer = "refused"])
                          \/ \E y \in W!Unsettled(x, done) : W!Uncertain(y)
                   \/ /\ W!InputAllowed(x) /\ x.server.usable /\ ~x.server.behind
                      /\ x.faults < MaxFaults
                      /\ \E y \in W!Partway(x, h) : W!Uncertain(W!MaaFails(y))
  BY DEF W!ApplyInputFrame
<1>2. Sound(o) /\ (workerReleased => Calm(o))
  BY <1>0, AttachmentsFacts DEF W!Opened
<1>3. CASE o.answer = "refused"
  BY <1>0, <1>1, <1>2, <1>3, PlainStep DEF W!IInv, W!TypeOK
<1>4. CASE o.answer # "refused"
  <2> DEFINE x == W!InSession(o)
             done == IF W!InputAllowed(x) THEN W!PressedTo(W!Spawned(x), h) ELSE W!Spawned(x)
  <2>1. Sound(x) /\ (workerReleased => Calm(x))
    BY <1>2, SessionFacts
  <2>2. Sound(done) /\ (workerReleased /\ ~W!InputAllowed(x) => Calm(done))
    BY <2>1, SpawnedFacts, PressedFacts
  <2>3. \/ W!Becomes(W!Retained(x)) /\ workerReleased' = FALSE /\ UNCHANGED workerBlocked
        \/ \E y \in W!Settled(x, done) :
             IF W!InputAllowed(x) /\ y.answer = "applied"
               THEN W!Settle(W!Retained(y)) ELSE W!Settle([y EXCEPT !.answer = "refused"])
        \/ \E y \in W!Unsettled(x, done) : W!Uncertain(y)
        \/ \E y \in W!Partway(x, h) : W!Uncertain(W!MaaFails(y))
    BY <1>1, <1>4
  <2> HIDE DEF x, done
  <2>4. CASE W!Becomes(W!Retained(x)) /\ workerReleased' = FALSE /\ UNCHANGED workerBlocked
    <3>1. workerReleased' \in BOOLEAN
      BY ONLY <2>4, Zenon
    <3> QED
      BY <1>0, <2>1, <2>4, <3>1, RetainedFacts, BecomesFacts, RestFacts
         DEF W!ReleaseProven, W!IInv, W!TypeOK
  <2>5. ASSUME NEW y \in W!Settled(x, done), W!InputAllowed(x) /\ y.answer = "applied",
               W!Settle(W!Retained(y))
        PROVE  W!IInv'
    <3>1. Sound(W!Retained(y)) /\ W!Retained(y).answer = "applied"
      BY <2>1, <2>2, <2>5, SettledFacts, RetainedFacts
    <3> QED
      BY <1>0, <2>5, <3>1, SettleStep, RestFacts
  <2>6. ASSUME NEW y \in W!Settled(x, done), ~(W!InputAllowed(x) /\ y.answer = "applied"),
               W!Settle([y EXCEPT !.answer = "refused"])
        PROVE  W!IInv'
    <3>1. Sound(y) /\ (workerReleased => Calm(y))
      BY <2>1, <2>2, <2>6, SettledFacts
    <3> QED
      BY <1>0, <2>6, <3>1, RefusedFacts, SettleStep, RestFacts
  <2>7. ASSUME NEW y \in W!Unsettled(x, done), W!Uncertain(y) PROVE W!IInv'
    BY <1>0, <2>1, <2>2, <2>7, UnsettledFacts, UncertainStep, RestFacts
  <2>8. ASSUME NEW y \in W!Partway(x, h), W!Uncertain(W!MaaFails(y)) PROVE W!IInv'
    BY <1>0, <2>1, <2>8, PressedFacts, MaaFacts, UncertainStep, RestFacts
  <2> QED
    BY <2>3, <2>4, <2>5, <2>6, <2>7, <2>8
<1> QED
  BY <1>3, <1>4

LEMMA StartedFacts ==
  ASSUME NEW x, Sound(x), x.server.alive
  PROVE  Sound(W!StartedProgram(x))
<1> DEFINE s == [x.server EXCEPT !.program = "on", !.mode = "realtime", !.stream = "off"]
<1>1. s \in W!Servers /\ s.alive
  BY DEF Sound, Works, W!Servers
<1>2. W!StartedProgram(x) = [x EXCEPT !.server = s, !.down = {}]
  BY DEF W!StartedProgram, Sound, Works, W!Servers
<1> HIDE DEF s
<1> QED
  BY <1>1, <1>2 DEF Sound, Works

\* A release leaves nothing down where nothing was, and nothing that presses.
LEMMA CalmReleaseFacts ==
  ASSUME NEW x, Sound(x), NEW c, Calm(x)
  PROVE  Calm(W!Release(x, c))
<1> DEFINE w == W!ReleasedByWorker(x, c)
           y == W!ReleasedByAgent(w, c)
<1>1. Calm(w)
  BY EmptiedFacts, KilledFacts DEF W!ReleasedByWorker, Sound, Calm, Works
<1>2. Calm(y) /\ Sound(y)
  BY <1>1, WorkerReleaseFacts, AgentReleaseFacts DEF W!ReleasedByAgent, Calm, Sound, Works
<1>3. W!Release(x, c) \in
        {y, W!Faulty(y), [y EXCEPT !.agent = W!Idle(@)], [W!Faulty(y) EXCEPT !.agent = W!Idle(@)]}
  BY DEF W!Release
<1> HIDE DEF w, y
<1> QED
  BY <1>2, <1>3, FaultyFacts DEF Calm, Sound, Works

LEMMA HandsFreeFacts ==
  ASSUME NEW x, Sound(x), NEW r \in W!HandsFree(x)
  PROVE  Sound(r) /\ (Calm(x) => Calm(r))
<1>1. CASE r = x
  BY <1>1
<1>2. ASSUME NEW c, r = [W!Release(x, c) EXCEPT !.agent.session = TRUE]
      PROVE  Sound(r) /\ (Calm(x) => Calm(r))
  <2> DEFINE y == W!Release(x, c)
             a == [y.agent EXCEPT !.session = TRUE]
  <2>1. Sound(y) /\ (Calm(x) => Calm(y))
    BY ReleaseFacts, CalmReleaseFacts
  <2>2. r = [y EXCEPT !.agent = a] /\ a \in W!Agents
    BY <1>2, <2>1 DEF Sound, Works, W!Agents
  <2> HIDE DEF y, a
  <2> QED
    BY <2>1, <2>2, AgentOnly
<1> QED
  BY <1>1, <1>2 DEF W!HandsFree

\* A release that is refused proves nothing.
LEMMA ReleaseRefusedStep ==
  ASSUME NEW x, Sound(x), W!ReleaseRefused(x), workerCapturing' \in BOOLEAN
  PROVE  W!IInv'
<1>1. PICK c : W!Becomes(W!Release(x, c))
  BY DEF W!ReleaseRefused
<1>2. workerReleased' = FALSE /\ workerBlocked' = TRUE
  BY DEF W!ReleaseRefused
<1>3. {workerReleased', workerBlocked'} \subseteq BOOLEAN
  BY ONLY <1>2, Zenon
<1> QED
  BY <1>1, <1>2, <1>3, ReleaseFacts, BecomesFacts, RestFacts DEF W!ReleaseProven

LEMMA StartsStep ==
  ASSUME W!IInv, NEW r, Sound(r), workerReleased => Calm(r), W!Starts(r),
         workerCapturing' \in BOOLEAN
  PROVE  W!IInv'
<1> DEFINE x == [r EXCEPT !.agent.program = TRUE, !.agent.terminal = FALSE]
           done == IF W!CanStart(x.server) THEN W!StartedProgram(W!Spawned(x)) ELSE W!Spawned(x)
<1>1. Sound(x) /\ (workerReleased => Calm(x))
  <2> DEFINE a == [r.agent EXCEPT !.program = TRUE, !.terminal = FALSE]
  <2>1. a \in W!Agents /\ x = [r EXCEPT !.agent = a]
    BY DEF Sound, Works, W!Agents
  <2> HIDE DEF a, x
  <2> QED
    BY <2>1, AgentOnly
<1>2. \/ \E y \in W!Settled(x, done) :
           IF W!CanStart(x.server) /\ y.answer = "applied"
             THEN W!Settle([y EXCEPT !.agent.expires = "none"])
             ELSE W!Settle(W!NoProgram([y EXCEPT !.answer = "refused"]))
      \/ \E y \in W!Unsettled(x, done) : W!Uncertain(y)
  BY DEF W!Starts
<1> HIDE DEF x
<1>3. Sound(done) /\ (workerReleased /\ ~W!CanStart(x.server) => Calm(done))
  BY <1>1, SpawnedFacts, StartedFacts
<1> HIDE DEF done
<1>4. ASSUME NEW y \in W!Settled(x, done), W!CanStart(x.server) /\ y.answer = "applied",
             W!Settle([y EXCEPT !.agent.expires = "none"])
      PROVE  W!IInv'
  <2> DEFINE a == [y.agent EXCEPT !.expires = "none"]
  <2>1. Sound(y)
    BY <1>1, <1>3, <1>4, SettledFacts
  <2>2. a \in W!Agents /\ [y EXCEPT !.agent.expires = "none"] = [y EXCEPT !.agent = a]
    BY <2>1 DEF Sound, Works, W!Agents
  <2>3. /\ Sound([y EXCEPT !.agent.expires = "none"])
        /\ [y EXCEPT !.agent.expires = "none"].answer = "applied"
    BY <1>4, <2>1, <2>2, AgentOnly DEF Sound, Works
  <2> QED
    BY <1>4, <2>3, SettleStep, RestFacts
<1>5. ASSUME NEW y \in W!Settled(x, done), ~(W!CanStart(x.server) /\ y.answer = "applied"),
             W!Settle(W!NoProgram([y EXCEPT !.answer = "refused"]))
      PROVE  W!IInv'
  <2>1. Sound(y) /\ (workerReleased => Calm(y))
    BY <1>1, <1>3, <1>5, SettledFacts
  <2> QED
    BY <1>5, <2>1, RefusedFacts, NoProgramFacts, SettleStep, RestFacts
<1>6. ASSUME NEW y \in W!Unsettled(x, done), W!Uncertain(y) PROVE W!IInv'
  BY <1>1, <1>3, <1>6, UnsettledFacts, UncertainStep, RestFacts
<1> QED
  BY <1>2, <1>4, <1>5, <1>6

LEMMA StartProgramStep == ASSUME W!IInv, W!StartProgram PROVE W!IInv'
<1>0. /\ Sound(W!Here) /\ (workerReleased => Calm(W!Here)) /\ workerCapturing' \in BOOLEAN
      /\ workerAgent.target \in Targets
  BY HereFacts DEF W!StartProgram, W!IInv, W!TypeOK, W!Agents
<1>1. PICK o \in W!Attachments(W!Here, workerAgent.target) :
        IF o.answer = "refused" THEN W!Becomes(o) /\ UNCHANGED <<workerReleased, workerBlocked>>
        ELSE \/ W!ReleaseRefused(W!InSession(o))
             \/ \E r \in W!HandsFree(W!InSession(o)) : W!Starts(r)
  BY DEF W!StartProgram
<1>2. /\ Sound(o) /\ (workerReleased => Calm(o))
      /\ Sound(W!InSession(o)) /\ (workerReleased => Calm(W!InSession(o)))
  BY <1>0, AttachmentsFacts, SessionFacts
<1>3. CASE o.answer = "refused"
  BY <1>0, <1>1, <1>2, <1>3, PlainStep DEF W!IInv, W!TypeOK
<1>4. CASE W!ReleaseRefused(W!InSession(o))
  BY <1>0, <1>2, <1>4, ReleaseRefusedStep
<1>5. ASSUME NEW r \in W!HandsFree(W!InSession(o)), W!Starts(r) PROVE W!IInv'
  BY <1>0, <1>2, <1>5, HandsFreeFacts, StartsStep
<1> QED
  BY <1>1, <1>3, <1>4, <1>5

LEMMA StartCaptureStep == ASSUME W!IInv, W!StartCapture PROVE W!IInv'
<1> DEFINE S(o) == o.server.mode = "generic" /\ o.server.stream = "off"
           D(o) == IF S(o) THEN [W!Spawned(o) EXCEPT !.server.stream = "on"] ELSE W!Spawned(o)
<1>0. Sound(W!Here) /\ (workerReleased => Calm(W!Here)) /\ workerAgent.target \in Targets
  BY HereFacts DEF W!StartCapture, W!IInv, W!TypeOK, W!Agents
<1>1. PICK o \in W!Attachments(W!Here, workerAgent.target) :
        IF o.answer = "refused"
        THEN W!Becomes(o) /\ UNCHANGED <<workerCapturing, workerReleased, workerBlocked>>
        ELSE /\ \/ \E y \in W!Settled(o, D(o)) :
                     W!Becomes(y) /\ UNCHANGED <<workerReleased, workerBlocked>>
                \/ \E y \in W!Unsettled(o, D(o)) : W!Uncertain(y)
             /\ workerCapturing' = (S(o) /\ workerServer'.stream = "on" /\ workerServer'.usable)
  BY DEF W!StartCapture
<1>2. Sound(o) /\ (workerReleased => Calm(o))
  BY <1>0, AttachmentsFacts
<1>3. CASE o.answer = "refused"
  BY <1>1, <1>2, <1>3, PlainStep DEF W!IInv, W!TypeOK
<1>4. CASE o.answer # "refused"
  <2>1. workerCapturing' = (S(o) /\ workerServer'.stream = "on" /\ workerServer'.usable)
    BY <1>1, <1>4
  <2>2. workerCapturing' \in BOOLEAN
    BY ONLY <2>1, Zenon
  <2>3. Sound(D(o)) /\ (workerReleased => Calm(D(o)))
    <3>1. Sound(W!Spawned(o)) /\ (workerReleased => Calm(W!Spawned(o)))
      BY <1>2, SpawnedFacts
    <3> QED
      BY <3>1 DEF Sound, Calm, Works, W!Servers
  <2> HIDE DEF S, D
  <2>4. ASSUME NEW y \in W!Settled(o, D(o)), W!Becomes(y),
               UNCHANGED <<workerReleased, workerBlocked>>
        PROVE  W!IInv'
    BY <1>2, <2>2, <2>3, <2>4, SettledFacts, PlainStep DEF W!IInv, W!TypeOK
  <2>5. ASSUME NEW y \in W!Unsettled(o, D(o)), W!Uncertain(y) PROVE W!IInv'
    BY <1>2, <2>2, <2>3, <2>5, UnsettledFacts, UncertainStep, RestFacts
  <2> QED
    BY <1>1, <1>4, <2>4, <2>5
<1> QED
  BY <1>3, <1>4

\* What invalidate leaves, whether its own release works or not.
LEMMA InvalidatedFacts ==
  ASSUME NEW x, Sound(x), NEW c \in BOOLEAN
  PROVE  Sound(W!Invalidated(x, c)) /\ (Calm(x) => Calm(W!Invalidated(x, c)))
<1> DEFINE y == W!Killed([x EXCEPT !.agent.faulted = TRUE])
<1>1. Sound([x EXCEPT !.agent.faulted = TRUE]) /\ (Calm(x) => Calm([x EXCEPT !.agent.faulted = TRUE]))
  BY DEF Sound, Calm, Works, W!Agents
<1>2. Sound(y) /\ (Calm(x) => Calm(y))
  BY <1>1, KilledFacts DEF Calm
<1>3. W!Invalidated(x, c) = IF c THEN [y EXCEPT !.down = {}] ELSE W!Faulty(y)
  BY DEF W!Invalidated
<1> HIDE DEF y
<1>4. Sound([y EXCEPT !.down = {}]) /\ (Calm(x) => Calm([y EXCEPT !.down = {}]))
  BY <1>2 DEF Sound, Calm, Works
<1> QED
  BY <1>2, <1>3, <1>4, FaultyFacts

LEMMA CaptureEndsStep == ASSUME W!IInv, W!CaptureEnds PROVE W!IInv'
<1>0. /\ Sound(W!Here) /\ (workerReleased => Calm(W!Here)) /\ workerCapturing' = FALSE
      /\ UNCHANGED workerReleased
  BY HereFacts DEF W!CaptureEnds
<1>1. workerCapturing' \in BOOLEAN
  BY ONLY <1>0, Zenon
<1>2. ASSUME NEW c \in BOOLEAN, W!Becomes(W!Invalidated(W!Here, c)), workerBlocked' = TRUE
      PROVE  W!IInv'
  <2>1. workerBlocked' \in BOOLEAN
    BY ONLY <1>2, Zenon
  <2>2. Sound(W!Invalidated(W!Here, c)) /\ (workerReleased => Calm(W!Invalidated(W!Here, c)))
    BY <1>0, InvalidatedFacts
  <2> QED
    BY <1>0, <1>1, <1>2, <2>1, <2>2, PlainStep
<1>3. ASSUME W!Becomes([W!Here EXCEPT !.server.stream = "off"]), UNCHANGED workerBlocked
      PROVE  W!IInv'
  <2>1. /\ Sound([W!Here EXCEPT !.server.stream = "off"])
        /\ workerReleased => Calm([W!Here EXCEPT !.server.stream = "off"])
    BY <1>0 DEF Sound, Calm, Works, W!Servers
  <2> QED
    BY <1>0, <1>1, <1>3, <2>1, PlainStep DEF W!IInv, W!TypeOK
<1> QED
  BY <1>2, <1>3 DEF W!CaptureEnds

LEMMA CaptureOnceStep == ASSUME W!IInv, W!CaptureOnce PROVE W!IInv'
<1> DEFINE D(o) == [W!Spawned(o) EXCEPT !.agent.faulted = FALSE]
<1>0. /\ Sound(W!Here) /\ (workerReleased => Calm(W!Here)) /\ workerCapturing' \in BOOLEAN
      /\ workerAgent.target \in Targets
  BY HereFacts DEF W!CaptureOnce, W!IInv, W!TypeOK, W!Agents
<1>1. PICK o \in W!Attachments(W!Here, workerAgent.target) :
        \/ W!Becomes(o) /\ UNCHANGED <<workerReleased, workerBlocked>>
        \/ \E y \in W!Settled(o, D(o)) :
              W!Becomes(y) /\ UNCHANGED <<workerReleased, workerBlocked>>
        \/ \E y \in W!Unsettled(o, D(o)) : W!Uncertain(y)
        \/ W!Releasing(W!Faulty(W!Killed([o EXCEPT !.agent.faulted = TRUE])))
        \/ \E c \in BOOLEAN : W!Releasing(W!Faulty(W!Invalidated(o, c)))
  BY DEF W!CaptureOnce
<1>2. Sound(o) /\ (workerReleased => Calm(o))
  BY <1>0, AttachmentsFacts
<1>3. Sound(D(o)) /\ (workerReleased => Calm(D(o)))
  <2>1. Sound(W!Spawned(o)) /\ (workerReleased => Calm(W!Spawned(o)))
    BY <1>2, SpawnedFacts
  <2> QED
    BY <2>1 DEF Sound, Calm, Works, W!Agents
<1>4. Sound([o EXCEPT !.agent.faulted = TRUE])
  BY <1>2 DEF Sound, Works, W!Agents
<1> HIDE DEF D
<1>5. CASE W!Becomes(o) /\ UNCHANGED <<workerReleased, workerBlocked>>
  BY <1>0, <1>2, <1>5, PlainStep DEF W!IInv, W!TypeOK
<1>6. ASSUME NEW y \in W!Settled(o, D(o)), W!Becomes(y),
             UNCHANGED <<workerReleased, workerBlocked>>
      PROVE  W!IInv'
  BY <1>0, <1>2, <1>3, <1>6, SettledFacts, PlainStep DEF W!IInv, W!TypeOK
<1>7. ASSUME NEW y \in W!Unsettled(o, D(o)), W!Uncertain(y) PROVE W!IInv'
  BY <1>0, <1>2, <1>3, <1>7, UnsettledFacts, UncertainStep, RestFacts
<1>8. CASE W!Releasing(W!Faulty(W!Killed([o EXCEPT !.agent.faulted = TRUE])))
  BY <1>0, <1>4, <1>8, KilledFacts, FaultyFacts, ReleasingStep, RestFacts
<1>9. ASSUME NEW c \in BOOLEAN, W!Releasing(W!Faulty(W!Invalidated(o, c))) PROVE W!IInv'
  BY <1>0, <1>2, <1>9, InvalidatedFacts, FaultyFacts, ReleasingStep, RestFacts
<1> QED
  BY <1>1, <1>5, <1>6, <1>7, <1>8, <1>9

\* Every operation of the platform, and every step of the Worker, keeps the invariant.
LEMMA WorkerStep == W!IInv /\ W!Next => W!IInv'
BY WorkerBindStep, ApplyInputStep, LeaseExpiresStep, ReleaseStep, WorkerCloseStep,
   WorkerConfigureStep,
   EnsureReadyStep, StartProgramStep, ProgramStep, PollStep, StopStep, StartCaptureStep,
   WorkerStreamStep, CaptureEndsStep, CaptureOnceStep DEF W!Next

LEMMA WorkerStutter == W!IInv /\ UNCHANGED workerVars => W!IInv'
BY DEF workerVars, W!IInv, W!TypeOK, W!GoneRunsNothing, W!ReleaseProven

LEMMA WorkerInit == W!Init => W!IInv
<1> SUFFICES ASSUME W!Init PROVE W!IInv
  OBVIOUS
<1>1. workerCapturing = FALSE /\ workerReleased = FALSE /\ workerBlocked = FALSE
  BY DEF W!Init
<1>2. {workerCapturing, workerReleased, workerBlocked} \subseteq BOOLEAN
  BY ONLY <1>1, Zenon
<1>3. workerAgent \in W!Agents
  BY DEF W!Init, W!Agents, W!NewAgent
<1> QED
  BY <1>1, <1>2, <1>3, ServerFacts, MCAgentAssumption
     DEF W!Init, W!IInv, W!TypeOK, W!GoneRunsNothing, W!ReleaseProven, MCAgentAssumption

------------------------------------------------------------------------------
(***************************************************************************)
(* MusicProgram: the keys and the channel add up to what the sampler sees  *)
(***************************************************************************)
LEMMA MusicBounds == LaneCount \in Nat /\ MaximumQueueDepth \in Nat
<1>1. {LaneCount, MaximumQueueDepth} \subseteq Nat
  BY MCAgentAssumption DEF MCAgentAssumption
<1> QED
  BY <1>1

\* A transition that names no lane is not in the channel.
Channels == Seq(M!Transitions)

\* The instance counts as the prover's theorems do.
LEMMA SameCount == ASSUME NEW S PROVE M!Cardinality(S) = Cardinality(S)
  BY DEF M!Cardinality, Cardinality

LEMMA LanesFinite ==
  ASSUME NEW S \in SUBSET M!Lanes
  PROVE  IsFiniteSet(S) /\ Cardinality(S) \in Nat
<1>1. IsFiniteSet(M!Lanes)
  BY MusicBounds, FS_Interval DEF M!Lanes
<1> QED
  BY <1>1, FS_Subset, FS_CardinalityType

\* What comes after is applied to what the transitions before it have left.
LEMMA AppliedTogether ==
  ASSUME NEW h, NEW q \in Channels, NEW s \in Channels
  PROVE  M!Applied(h, q \o s) = M!Applied(M!Applied(h, q), s)
<1> DEFINE both == q \o s
<1>1. /\ both \in Channels /\ Len(both) = Len(q) + Len(s)
      /\ Len(q) \in Nat /\ Len(s) \in Nat
      /\ DOMAIN q = 1 .. Len(q) /\ DOMAIN s = 1 .. Len(s) /\ DOMAIN both = 1 .. Len(both)
  BY DEF Channels
<1>2. /\ \A i \in DOMAIN q : i \in DOMAIN both /\ both[i] = q[i]
      /\ \A i \in DOMAIN s : i + Len(q) \in DOMAIN both /\ both[i + Len(q)] = s[i]
  BY <1>1 DEF Channels
<1>3. \A k \in DOMAIN both : k \in DOMAIN q \/ (k - Len(q) \in DOMAIN s /\ k > Len(q))
  BY <1>1
<1>4. ASSUME NEW lane \in M!Lanes, \A i \in DOMAIN s : s[i].lane # lane
      PROVE  lane \in M!Applied(h, both) <=> lane \in M!Applied(h, q)
  <2>1. \A k \in DOMAIN both : both[k].lane = lane => k \in DOMAIN q
    BY <1>2, <1>3, <1>4, <1>1
  <2>2. \A i \in DOMAIN q : q[i].lane = lane => (M!Decides(both, i) <=> M!Decides(q, i))
    BY <2>1, <1>2 DEF M!Decides
  <2>3. (\E i \in DOMAIN both : both[i].lane = lane /\ both[i].pressed /\ M!Decides(both, i))
            <=> \E i \in DOMAIN q : q[i].lane = lane /\ q[i].pressed /\ M!Decides(q, i)
    BY <2>1, <2>2, <1>2
  <2>4. (\A i \in DOMAIN both : both[i].lane # lane) <=> \A i \in DOMAIN q : q[i].lane # lane
    BY <2>1, <1>2
  <2> QED
    BY <2>3, <2>4 DEF M!Applied
<1>5. ASSUME NEW lane \in M!Lanes, NEW n \in DOMAIN s, s[n].lane = lane
      PROVE  lane \in M!Applied(h, both) <=>
                 \E i \in DOMAIN s : s[i].lane = lane /\ s[i].pressed /\ M!Decides(s, i)
  <2>1. \A i \in DOMAIN q : q[i].lane = lane => ~M!Decides(both, i)
    <3>1. n + Len(q) \in DOMAIN both /\ both[n + Len(q)].lane = lane
      BY <1>2, <1>5
    <3>2. \A i \in DOMAIN q : n + Len(q) > i
      BY <1>1, <1>5
    <3> QED
      BY <3>1, <3>2, <1>2 DEF M!Decides
  <2>2. \A i \in DOMAIN s : M!Decides(both, i + Len(q)) <=> M!Decides(s, i)
    <3> TAKE i \in DOMAIN s
    <3>1. ASSUME M!Decides(both, i + Len(q)), NEW j \in DOMAIN s, j > i
          PROVE  s[j].lane # s[i].lane
      <4>1. j + Len(q) \in DOMAIN both /\ j + Len(q) > i + Len(q)
        BY <1>1, <1>2, <3>1
      <4> QED
        BY <4>1, <1>2, <3>1 DEF M!Decides
    <3>2. ASSUME M!Decides(s, i), NEW k \in DOMAIN both, k > i + Len(q)
          PROVE  both[k].lane # both[i + Len(q)].lane
      <4>1. k - Len(q) \in DOMAIN s /\ k - Len(q) > i /\ (k - Len(q)) + Len(q) = k
        BY <1>1, <3>2
      <4> QED
        BY <4>1, <1>2, <3>2 DEF M!Decides
    <3> QED
      BY <3>1, <3>2 DEF M!Decides
  <2>3. (\E i \in DOMAIN both : both[i].lane = lane /\ both[i].pressed /\ M!Decides(both, i))
            <=> \E i \in DOMAIN s : s[i].lane = lane /\ s[i].pressed /\ M!Decides(s, i)
    <3>1. ASSUME NEW k \in DOMAIN both, both[k].lane = lane, both[k].pressed, M!Decides(both, k)
          PROVE  \E i \in DOMAIN s : s[i].lane = lane /\ s[i].pressed /\ M!Decides(s, i)
      <4>1. k \notin DOMAIN q
        BY <2>1, <3>1, <1>2
      <4>2. k - Len(q) \in DOMAIN s /\ (k - Len(q)) + Len(q) = k
        BY <4>1, <1>3, <1>1
      <4>3. both[k] = s[k - Len(q)]
        BY <4>2, <1>2
      <4>4. M!Decides(s, k - Len(q))
        BY <4>2, <2>2, <3>1
      <4> QED
        BY <4>2, <4>3, <4>4, <3>1
    <3> QED
      BY <3>1, <2>2, <1>2
  <2>4. ~\A i \in DOMAIN both : both[i].lane # lane
    BY <1>2, <1>5
  <2> QED
    BY <2>3, <2>4 DEF M!Applied
<1>6. ASSUME NEW lane \in M!Lanes
      PROVE  lane \in M!Applied(h, both) <=> lane \in M!Applied(M!Applied(h, q), s)
  <2>1. CASE \A i \in DOMAIN s : s[i].lane # lane
    BY <2>1, <1>4, <1>6 DEF M!Applied
  <2>2. CASE \E n \in DOMAIN s : s[n].lane = lane
    BY <2>2, <1>5, <1>6 DEF M!Applied
  <2> QED
    BY <2>1, <2>2
<1> QED
  BY <1>6 DEF M!Applied

\* A sample changes every lane that it sends a transition of.
LEMMA SentApplied ==
  ASSUME NEW k, NEW changed \in SUBSET M!Lanes, NEW sent \in M!Sent(changed),
         k = musicSeen, musicSeen \subseteq M!Lanes
  PROVE  /\ sent \in Channels /\ Len(sent) = Cardinality(changed)
         /\ M!Applied(k, sent) = M!Toggled(musicSeen, changed)
<1> DEFINE n == Cardinality(changed)
<1>1. n \in Nat
  BY LanesFinite
<1>2. PICK p \in M!Bijection(1 .. n, changed) : sent = [i \in 1 .. n |-> M!Observe(p[i])]
  BY SameCount DEF M!Sent, M!Sorted
<1>3. /\ p \in [1 .. n -> changed] /\ \A i, j \in 1 .. n : p[i] = p[j] => i = j
      /\ \A lane \in changed : \E i \in 1 .. n : p[i] = lane
  BY <1>2 DEF M!Bijection, M!Injection, M!IsInjective, M!Surjection
<1>4. /\ sent \in [1 .. n -> M!Transitions]
      /\ \A i \in 1 .. n : /\ sent[i].lane = p[i]
                           /\ sent[i].pressed <=> p[i] \notin musicSeen
  BY <1>2, <1>3 DEF M!Observe, M!Transitions
<1>5. sent \in Channels /\ Len(sent) = n /\ DOMAIN sent = 1 .. n
  BY <1>1, <1>4 DEF Channels
<1>6. ASSUME NEW lane \in M!Lanes
      PROVE  lane \in M!Applied(k, sent) <=> lane \in M!Toggled(musicSeen, changed)
  <2>1. CASE lane \notin changed
    <3>1. \A i \in DOMAIN sent : sent[i].lane # lane
      BY <2>1, <1>3, <1>4, <1>5
    <3> QED
      BY <2>1, <3>1 DEF M!Applied, M!Toggled
  <2>2. CASE lane \in changed
    <3>1. PICK i \in 1 .. n : p[i] = lane
      BY <2>2, <1>3
    <3>2. \A j \in DOMAIN sent : sent[j].lane = lane => j = i
      BY <3>1, <1>3, <1>4, <1>5
    <3>3. M!Decides(sent, i)
      BY <3>1, <3>2, <1>4, <1>5, <1>1 DEF M!Decides
    <3>4. lane \in M!Applied(k, sent) <=> sent[i].pressed
      BY <3>1, <3>2, <3>3, <1>4, <1>5 DEF M!Applied
    <3> QED
      BY <2>2, <3>1, <3>4, <1>4 DEF M!Toggled
  <2> QED
    BY <2>1, <2>2
<1>7. M!Toggled(musicSeen, changed) \subseteq M!Lanes
  BY DEF M!Toggled
<1> QED
  BY <1>5, <1>6, <1>7 DEF M!Applied

LEMMA QueueFacts ==
  ASSUME M!TypeOK
  PROVE  /\ musicQueue \in Channels /\ Len(musicQueue) \in 0 .. MaximumQueueDepth
         /\ DOMAIN musicQueue = 1 .. Len(musicQueue)
         /\ \A i \in DOMAIN musicQueue : musicQueue[i].lane \in Int /\ i \in Int
         /\ musicSeen \subseteq M!Lanes /\ musicDown \subseteq M!Lanes
         /\ musicHeld \subseteq M!Lanes /\ musicMirror \subseteq M!Lanes
<1>1. PICK n \in 0 .. MaximumQueueDepth : musicQueue \in [1 .. n -> M!Transitions]
  BY DEF M!TypeOK, M!Queues
<1>2. n \in Nat
  BY MusicBounds
<1>3. \A i \in DOMAIN musicQueue : musicQueue[i].lane \in M!Lanes /\ i \in 1 .. n
  BY <1>1 DEF M!Transitions
<1>5. /\ musicQueue \in Channels /\ Len(musicQueue) \in 0 .. MaximumQueueDepth
      /\ DOMAIN musicQueue = 1 .. Len(musicQueue)
  BY <1>1, <1>2 DEF Channels
<1>6. \A i \in DOMAIN musicQueue : musicQueue[i].lane \in Int /\ i \in Int
  <2> TAKE i \in DOMAIN musicQueue
  <2>1. musicQueue[i].lane \in 1 .. LaneCount
    BY <1>3 DEF M!Lanes
  <2>2. i \in 1 .. n
    BY <1>3
  <2> QED
    BY <2>1, <2>2, <1>2, MusicBounds
<1> QED
  BY <1>5, <1>6 DEF M!TypeOK

\* A batch has the fresh transitions of every lane in their order, so that nothing changes
\* for it when all of them are fresh.
LEMMA BatchApplied ==
  ASSUME M!TypeOK, NEW batch \in M!Batches, NEW h
  PROVE  /\ batch \in Channels
         /\ (\A i \in DOMAIN musicQueue : musicQueue[i].fresh) =>
                M!Applied(h, batch) = M!Applied(h, musicQueue)
<1> DEFINE fresh == {i \in DOMAIN musicQueue : musicQueue[i].fresh}
           n == Cardinality(fresh)
           Before(i, j) == \/ musicQueue[i].lane < musicQueue[j].lane
                           \/ musicQueue[i].lane = musicQueue[j].lane /\ i < j
<1>1. /\ musicQueue \in Channels /\ DOMAIN musicQueue = 1 .. Len(musicQueue)
      /\ Len(musicQueue) \in Nat
  BY QueueFacts
<1>2. n \in Nat
  <2>1. IsFiniteSet(1 .. Len(musicQueue))
    BY <1>1, FS_Interval
  <2>2. fresh \subseteq 1 .. Len(musicQueue)
    BY <1>1
  <2> QED
    BY <2>1, <2>2, FS_Subset, FS_CardinalityType
<1>3. PICK p \in M!Bijection(1 .. n, fresh) :
          /\ \A i, j \in 1 .. n : i < j => Before(p[i], p[j])
          /\ batch = [k \in 1 .. n |-> musicQueue[p[k]]]
  BY SameCount DEF M!Batches, M!Sorted
<1>4. /\ p \in [1 .. n -> fresh]
      /\ \A i \in fresh : \E k \in 1 .. n : p[k] = i
  BY <1>3 DEF M!Bijection, M!Injection, M!Surjection
<1>5. /\ batch \in [1 .. n -> M!Transitions]
      /\ \A k \in 1 .. n : batch[k] = musicQueue[p[k]]
  BY <1>1, <1>3, <1>4 DEF Channels
<1>6. batch \in Channels /\ DOMAIN batch = 1 .. n
  BY <1>2, <1>5 DEF Channels
<1>7. ASSUME fresh = DOMAIN musicQueue
      PROVE  M!Applied(h, batch) = M!Applied(h, musicQueue)
  <2>1. \A i, j \in DOMAIN musicQueue : musicQueue[i].lane \in Int /\ i \in Int
    BY QueueFacts
  <2>2. ASSUME NEW k \in 1 .. n, NEW m \in 1 .. n, batch[k].lane = batch[m].lane
        PROVE  k < m <=> p[k] < p[m]
    <3>1. /\ p[k] \in DOMAIN musicQueue /\ p[m] \in DOMAIN musicQueue
          /\ musicQueue[p[k]].lane = musicQueue[p[m]].lane
          /\ musicQueue[p[k]].lane \in Int /\ p[k] \in Int /\ p[m] \in Int
      BY <1>4, <1>5, <1>7, <2>1, <2>2
    <3>2. CASE k < m
      BY <3>1, <3>2, <1>3
    <3>3. CASE m < k
      BY <3>1, <3>3, <1>3
    <3>4. CASE k = m
      BY <3>1, <3>4
    <3> QED
      BY <3>2, <3>3, <3>4, <1>2
  <2>3. \A k \in 1 .. n : M!Decides(batch, k) <=> M!Decides(musicQueue, p[k])
    <3> TAKE k \in 1 .. n
    <3>1. ASSUME M!Decides(batch, k), NEW j \in DOMAIN musicQueue, j > p[k]
          PROVE  musicQueue[j].lane # musicQueue[p[k]].lane
      <4>1. PICK m \in 1 .. n : p[m] = j
        BY <1>4, <1>7
      <4>2. batch[m].lane = musicQueue[j].lane /\ batch[k].lane = musicQueue[p[k]].lane
        BY <4>1, <1>5
      <4>3. ~(k < m) => ~(p[k] < p[m]) \/ batch[k].lane # batch[m].lane
        BY <2>2
      <4>4. m > k => batch[m].lane # batch[k].lane
        BY <3>1, <1>6 DEF M!Decides
      <4>5. p[k] \in Int /\ j \in Int /\ p[k] < p[m]
        <5>1. p[k] \in DOMAIN musicQueue
          BY <1>4, <1>7
        <5> QED
          BY <5>1, <2>1, <3>1, <4>1
      <4>6. m \in Int /\ k \in Int
        OBVIOUS
      <4> QED
        BY <4>2, <4>3, <4>4, <4>5, <4>6
    <3>2. ASSUME M!Decides(musicQueue, p[k]), NEW m \in DOMAIN batch, m > k
          PROVE  batch[m].lane # batch[k].lane
      <4>1. m \in 1 .. n /\ p[m] \in DOMAIN musicQueue /\ p[k] \in DOMAIN musicQueue
        BY <1>4, <1>6, <1>7
      <4> QED
        BY <4>1, <2>2, <3>2, <1>5, <2>1 DEF M!Decides
    <3> QED
      BY <3>1, <3>2, <1>5, <1>6, <1>4, <1>7 DEF M!Decides
  <2>4. ASSUME NEW lane \in M!Lanes
        PROVE  lane \in M!Applied(h, batch) <=> lane \in M!Applied(h, musicQueue)
    <3>1. (\E i \in DOMAIN batch : batch[i].lane = lane /\ batch[i].pressed /\ M!Decides(batch, i))
              <=> \E i \in DOMAIN musicQueue : /\ musicQueue[i].lane = lane
                                               /\ musicQueue[i].pressed
                                               /\ M!Decides(musicQueue, i)
      BY <1>4, <1>5, <1>6, <1>7, <2>3
    <3>2. (\A i \in DOMAIN batch : batch[i].lane # lane)
              <=> \A i \in DOMAIN musicQueue : musicQueue[i].lane # lane
      BY <1>4, <1>5, <1>6, <1>7
    <3> QED
      BY <3>1, <3>2 DEF M!Applied
  <2> QED
    BY <2>4 DEF M!Applied
<1> QED
  BY <1>6, <1>7

LEMMA MusicInit == M!Init => M!IInv
<1> SUFFICES ASSUME M!Init
             PROVE  M!IInv
  OBVIOUS
<1>1. <<>> \in M!Queues
  <2>1. <<>> \in [1 .. 0 -> M!Transitions] /\ 0 \in 0 .. MaximumQueueDepth
    BY MusicBounds
  <2> QED
    BY <2>1 DEF M!Queues
<1>2. M!TypeOK
  BY <1>1 DEF M!Init, M!TypeOK, M!Ends
<1>3. M!Applied({}, <<>>) = {}
  BY DEF M!Applied
<1> QED
  BY <1>2, <1>3 DEF M!Init, M!IInv, M!HoldsDown, M!FollowsTheScreen

LEMMA MusicStutter == M!IInv /\ UNCHANGED musicVars => M!IInv'
BY DEF musicVars, M!IInv, M!TypeOK, M!HoldsDown, M!FollowsTheScreen, M!Applied, M!Decides

\* What the end of the program leaves: no more keys than were down.
LEMMA EndFacts ==
  ASSUME M!TypeOK, NEW d \in SUBSET M!Lanes, NEW error \in BOOLEAN, M!EndWith(d, error)
  PROVE  /\ musicEngine' \in {"failed", "done", "uncertain"}
         /\ musicDown' \subseteq M!Lanes /\ musicHeld' \subseteq M!Lanes
         /\ musicMirror' \subseteq M!Lanes
BY DEF M!EndWith, M!ReleaseAll, M!TypeOK

LEMMA SampleKeeps ==
  ASSUME M!IInv, M!Sample
  PROVE  M!IInv'
<1>1. PICK changed \in SUBSET M!Lanes :
          /\ \E sent \in M!Sent(changed) : M!Takes(sent)
          /\ musicSeen' = M!Toggled(musicSeen, changed)
          /\ musicOverflow' = (musicOverflow \/ Cardinality(changed) > M!Room)
          /\ musicSignals' = IF Cardinality(changed) > M!Room THEN musicSignals \cup {"stop"}
                                                              ELSE musicSignals
  BY SameCount DEF M!Sample
<1>2. PICK sent \in M!Sent(changed) : M!Takes(sent)
  BY <1>1
<1>3. M!TypeOK /\ UNCHANGED <<musicHeld, musicMirror, musicDown, musicEngine, musicStale>>
  BY DEF M!IInv, M!Sample
<1>4. /\ musicQueue \in Channels /\ Len(musicQueue) \in 0 .. MaximumQueueDepth
      /\ musicSeen \subseteq M!Lanes
  BY <1>3, QueueFacts
<1>5. /\ sent \in Channels /\ Len(sent) = Cardinality(changed)
      /\ M!Applied(musicSeen, sent) = M!Toggled(musicSeen, changed)
  BY <1>4, SentApplied
<1>6. M!Room \in Nat /\ Len(musicQueue) + M!Room = MaximumQueueDepth /\ Len(sent) \in Nat
  BY <1>4, <1>5, MusicBounds DEF M!Room, Channels
<1>7. musicQueue' \in Channels /\ Len(musicQueue') \in 0 .. MaximumQueueDepth
  <2>1. CASE Len(sent) > M!Room
    <3>1. SubSeq(sent, 1, M!Room) \in Channels /\ Len(SubSeq(sent, 1, M!Room)) = M!Room
      BY <2>1, <1>5, <1>6 DEF Channels
    <3>2. musicQueue' = musicQueue \o SubSeq(sent, 1, M!Room)
      BY <2>1, <1>2 DEF M!Takes
    <3> QED
      BY <3>1, <3>2, <1>4, <1>6 DEF Channels
  <2>2. CASE ~(Len(sent) > M!Room)
    BY <2>2, <1>2, <1>4, <1>5, <1>6 DEF M!Takes, Channels
  <2> QED
    BY <2>1, <2>2
<1>8. musicQueue' \in M!Queues
  BY <1>7 DEF M!Queues, Channels
<1>9. M!TypeOK'
  BY <1>1, <1>3, <1>8 DEF M!TypeOK, M!Toggled, M!Signals
<1>10. M!FollowsTheScreen'
  <2>1. CASE musicEngine = "running" /\ ~musicOverflow' /\ ~musicStale
    <3>1. M!Applied(musicDown, musicQueue) = musicSeen
      BY <2>1, <1>1, <1>3 DEF M!IInv, M!FollowsTheScreen, M!TypeOK
    <3>2. musicQueue' = musicQueue \o sent
      BY <2>1, <1>1, <1>2, <1>5, <1>3 DEF M!Takes, M!TypeOK
    <3>3. M!Applied(musicDown, musicQueue') = M!Toggled(musicSeen, changed)
      BY <3>1, <3>2, <1>4, <1>5, AppliedTogether
    <3> QED
      BY <3>3, <1>1, <1>3 DEF M!FollowsTheScreen, M!Applied, M!Decides
  <2> QED
    BY <2>1, <1>3 DEF M!FollowsTheScreen
<1> QED
  BY <1>3, <1>9, <1>10 DEF M!IInv, M!HoldsDown

LEMMA AgesKeeps ==
  ASSUME M!IInv, M!Ages
  PROVE  M!IInv'
<1>1. PICK n \in 1 .. Len(musicQueue) :
          musicQueue' = [i \in DOMAIN musicQueue |->
                            [musicQueue[i] EXCEPT !.fresh = @ /\ i > n]]
  BY DEF M!Ages
<1>2. M!TypeOK /\ UNCHANGED <<musicSeen, musicHeld, musicMirror, musicDown, musicEngine,
          musicSignals, musicOverflow, musicStale>>
  BY DEF M!IInv, M!Ages
<1>3. PICK depth \in 0 .. MaximumQueueDepth : musicQueue \in [1 .. depth -> M!Transitions]
  BY <1>2 DEF M!TypeOK, M!Queues
<1>4. musicQueue' \in [1 .. depth -> M!Transitions]
  BY <1>1, <1>3 DEF M!Transitions
<1>5. /\ DOMAIN musicQueue' = DOMAIN musicQueue
      /\ \A i \in DOMAIN musicQueue : /\ musicQueue'[i].lane = musicQueue[i].lane
                                      /\ musicQueue'[i].pressed = musicQueue[i].pressed
  BY <1>1, <1>3 DEF M!Transitions
<1>6. \A i \in DOMAIN musicQueue : M!Decides(musicQueue', i) <=> M!Decides(musicQueue, i)
  BY <1>5 DEF M!Decides
<1>7. M!Applied(musicDown, musicQueue') = M!Applied(musicDown, musicQueue)
  BY <1>5, <1>6 DEF M!Applied
<1>8. M!TypeOK'
  BY <1>2, <1>4 DEF M!TypeOK, M!Queues
<1> QED
  BY <1>2, <1>7, <1>8
  DEF M!IInv, M!HoldsDown, M!FollowsTheScreen, M!Applied, M!Decides

\* A round that ends with no key or with some of the batch.
LEMMA RoundKeeps ==
  ASSUME M!IInv, M!Round
  PROVE  M!IInv'
<1>1. PICK batch \in M!Batches :
          \/ /\ musicHeld' = M!Applied(musicHeld, batch) /\ musicDown' = musicHeld'
             /\ musicMirror' = musicHeld' /\ UNCHANGED <<musicEngine, musicSignals>>
          \/ /\ \E d \in SUBSET M!Lanes : M!EndWith(d, TRUE)
             /\ musicSignals' = musicSignals \cup {"stop"}
  <2>1. M!TypeOK /\ musicDown \subseteq M!Lanes
    BY QueueFacts DEF M!IInv
  <2>2. \A h, s : M!Applied(h, s) \in SUBSET M!Lanes
    BY DEF M!Applied
  <2> QED
    BY <2>1, <2>2 DEF M!Round
<1>2. /\ M!TypeOK /\ musicQueue' = <<>> /\ musicSeen' = musicSeen
      /\ musicOverflow' = musicOverflow /\ musicEngine = "running"
      /\ musicStale' = (musicStale \/ \E i \in DOMAIN musicQueue : ~musicQueue[i].fresh)
  BY DEF M!IInv, M!Round
<1>3. musicQueue' \in M!Queues
  <2>1. <<>> \in [1 .. 0 -> M!Transitions] /\ 0 \in 0 .. MaximumQueueDepth
    BY MusicBounds
  <2> QED
    BY <1>2, <2>1 DEF M!Queues
<1>4. CASE \E d \in SUBSET M!Lanes : M!EndWith(d, TRUE)
  <2>1. /\ musicEngine' \in {"failed", "done", "uncertain"}
        /\ musicDown' \subseteq M!Lanes /\ musicHeld' \subseteq M!Lanes
        /\ musicMirror' \subseteq M!Lanes
    BY <1>2, <1>4, EndFacts
  <2>2. musicSignals' \subseteq M!Signals
    BY <1>1, <1>2 DEF M!TypeOK, M!Signals
  <2> QED
    BY <2>1, <2>2, <1>2, <1>3
    DEF M!IInv, M!TypeOK, M!HoldsDown, M!FollowsTheScreen, M!Ends
<1>5. CASE /\ musicHeld' = M!Applied(musicHeld, batch) /\ musicDown' = musicHeld'
           /\ musicMirror' = musicHeld' /\ UNCHANGED <<musicEngine, musicSignals>>
  <2>1. M!TypeOK'
    BY <1>2, <1>3, <1>5 DEF M!TypeOK, M!Applied
  <2>2. ASSUME ~musicOverflow, ~musicStale, \A i \in DOMAIN musicQueue : musicQueue[i].fresh
        PROVE  M!Applied(musicDown', musicQueue') = musicSeen
    <3>1. M!Applied(musicDown, musicQueue) = musicSeen /\ musicHeld = musicDown
      BY <2>2, <1>2 DEF M!IInv, M!FollowsTheScreen, M!HoldsDown
    <3>2. musicDown' = musicSeen
      BY <3>1, <2>2, <1>2, <1>5, BatchApplied
    <3>3. musicSeen \subseteq M!Lanes
      BY <1>2, QueueFacts
    <3> QED
      BY <3>2, <3>3, <1>2 DEF M!Applied
  <2>3. M!FollowsTheScreen'
    BY <2>2, <1>2, <1>5 DEF M!FollowsTheScreen, M!Applied, M!Decides, M!TypeOK
  <2> QED
    BY <2>1, <2>3, <1>5 DEF M!IInv, M!HoldsDown
<1> QED
  BY <1>1, <1>4, <1>5

LEMMA MusicStep == M!IInv /\ M!Next => M!IInv'
<1> SUFFICES ASSUME M!IInv, M!Next
             PROVE  M!IInv'
  OBVIOUS
<1>1. CASE M!Renew \/ \E s \in M!Signals : M!Signal(s)
  BY <1>1 DEF M!Renew, M!Signal, M!IInv, M!TypeOK, M!HoldsDown, M!FollowsTheScreen, M!Applied,
      M!Decides
<1>2. CASE M!Ending
  <2>1. /\ M!TypeOK /\ \E error \in BOOLEAN : M!EndWith(musicDown, error)
        /\ musicSignals' = musicSignals \cup {"stop"}
        /\ UNCHANGED <<musicSeen, musicQueue, musicOverflow, musicStale>>
    BY <1>2 DEF M!Ending, M!IInv
  <2>2. /\ musicEngine' \in {"failed", "done", "uncertain"}
        /\ musicDown' \subseteq M!Lanes /\ musicHeld' \subseteq M!Lanes
        /\ musicMirror' \subseteq M!Lanes
    BY <2>1, QueueFacts, EndFacts
  <2> QED
    BY <2>1, <2>2
    DEF M!IInv, M!TypeOK, M!HoldsDown, M!FollowsTheScreen, M!Ends, M!Signals
<1> QED
  BY <1>1, <1>2, SampleKeeps, AgesKeeps, RoundKeeps DEF M!Next

==============================================================================
