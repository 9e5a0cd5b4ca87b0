------------------------------ MODULE HubSession ------------------------------
(***************************************************************************)
(* The session with the Hub and the credentials it uses: the loop of the   *)
(* SessionSupervisor (crates/fairypam-agent-core/src/supervisor.rs), the   *)
(* driver it drives and the hooks it cleans up with (runtime.rs), and the  *)
(* registration worker that enrols the Agent again (enrollment.rs).        *)
(*                                                                         *)
(* Three actors: the supervisor, the registration thread, and processes    *)
(* that start beside this one.  They share the enrolment directory, in     *)
(* which current.json names a generation, and the installed configuration. *)
(***************************************************************************)
EXTENDS Naturals

CONSTANT MaxGenerations  \* bound on the enrolments of a behaviour

VARIABLES
    pointer,      \* the generation current.json names, 0 without one
    whole,        \* the generations whose directory is complete
    used,         \* how many generations have been made
    registration, \* the step of the registration worker
    wasWaiting,   \* read by the worker when it starts
    config,       \* the generation of the installed RuntimeConfig, 0 while awaiting
    wanted,       \* the permit of reconnect_requested
    phase,        \* of the supervisor
    session,      \* the generation whose credentials the session has, 0 without one
    frame,        \* the frame session
    live,         \* an attempt of this session is unfinished
    taken         \* the validated candidates that somebody has tidied away

vars == <<pointer, whole, used, registration, wasWaiting, config, wanted, phase, session,
          frame, live, taken>>

disk == <<pointer, whole, used>>
supervisor == <<phase, session, frame, live>>
worker == <<registration, wasWaiting>>

Generations == 1 .. MaxGenerations

Phases == {"waiting", "connecting", "running", "joining", "failing", "ending", "down"}

Init ==
    /\ pointer = 0 /\ whole = {} /\ used = 0
    /\ registration = "idle" /\ wasWaiting = TRUE
    /\ config = 0 /\ wanted = FALSE
    /\ phase = "waiting" /\ session = 0 /\ frame = "off" /\ live = FALSE
    /\ taken = {}

-------------------------------------------------------------------------------
(***************************************************************************)
(* The enrolment directory                                                 *)
(***************************************************************************)

\* cleanup_retired_generations
Tidied(w) == w \cap {pointer}

\* Whoever tidies the directory beside a registration takes its validated candidate away.
Overtakes ==
    taken' = IF registration = "validated" THEN taken \cup ({used + 1} \ whole') ELSE taken

\* from_enrollment_state_at: what is installed, if it can be read, and only then is the
\* directory tidied.
Readable == pointer \in whole

\* register_hub: one registration at a time; the thread of the last one has been joined.
\* register_before tidies the directory before it claims anything.
RegisterHub ==
    /\ phase # "down" /\ registration = "idle" /\ used < MaxGenerations
    /\ registration' = "claiming" /\ wasWaiting' = (config = 0)
    /\ whole' = Tidied(whole)
    /\ UNCHANGED <<pointer, used, config, wanted, supervisor, taken>>

\* claim fails, or something in persist does; what was written is removed.
RegistrationFails ==
    /\ registration \in {"claiming", "validated"}
    /\ registration' = "idle" /\ whole' = whole \ {used + 1}
    /\ UNCHANGED <<pointer, used, wasWaiting, config, wanted, supervisor, taken>>

\* persist up to validate_enrollment_candidate
WriteCandidate ==
    /\ registration = "claiming"
    /\ registration' = "validated" /\ whole' = whole \cup {used + 1}
    /\ taken' = taken \ {used + 1}
    /\ UNCHANGED <<pointer, used, wasWaiting, config, wanted, supervisor>>

\* The end of persist: current.json is replaced by a rename.
ReplacePointer ==
    /\ registration = "validated"
    /\ pointer' = used + 1 /\ used' = used + 1
    /\ registration' = "published"
    /\ UNCHANGED <<whole, wasWaiting, config, wanted, supervisor, taken>>

\* register_before tidies again, if it can; then from_enrollment_state_at and
\* activate_enrollment of the worker.
Activate ==
    /\ registration = "published"
    /\ \/ /\ Readable
          /\ config' = pointer /\ whole' = Tidied(whole)
          /\ registration' = "activated"
       \/ /\ registration' = "idle" /\ whole' \in {whole, Tidied(whole)}
          /\ UNCHANGED config
    /\ UNCHANGED <<pointer, used, wasWaiting, wanted, supervisor, taken>>

\* Mutant: a session is taken to notice the new generation by itself.
RequestReconnectNever ==
    /\ registration = "activated" /\ registration' = "idle"
    /\ UNCHANGED <<disk, wasWaiting, config, wanted, supervisor, taken>>

\* The end of finish_registration: a session, if there may be one, is asked to reconnect.
RequestReconnect ==
    /\ registration = "activated" /\ registration' = "idle"
    /\ wanted' = (wanted \/ ~wasWaiting)
    /\ UNCHANGED <<disk, wasWaiting, config, supervisor, taken>>

-------------------------------------------------------------------------------
(***************************************************************************)
(* The supervisor                                                          *)
(***************************************************************************)

\* establish_session up to the connection, with the configuration as it is now; what is
\* left of the last session has to be finished first.
Connect ==
    /\ phase = "waiting" /\ config # 0
    /\ \/ phase' = "connecting" /\ session' = config /\ live' = FALSE
       \/ phase' = "joining" /\ UNCHANGED <<session, live>>
    /\ UNCHANGED <<disk, worker, config, wanted, frame, taken>>

\* The Hub answers, or it does not.
Establish ==
    /\ phase = "connecting"
    /\ \/ phase' = "running" /\ frame' = "attaching" /\ UNCHANGED session
       \/ phase' \in {"joining", "failing"} /\ session' = 0 /\ UNCHANGED frame
    /\ UNCHANGED <<disk, worker, config, wanted, live, taken>>

\* While the supervisor waits to attach the frame session again it polls nothing else.
Polled == phase = "running" /\ frame # "lost"

TaskBegins ==
    /\ Polled /\ live' = TRUE
    /\ UNCHANGED <<disk, worker, config, wanted, phase, session, frame, taken>>

\* begin_control_failure: input is released, or the cleanup is to fail.
Ends ==
    /\ phase' \in {"joining", "failing"}
    /\ session' = 0 /\ frame' = "off"
    /\ UNCHANGED live

\* wait_for_reconnect
ReconnectWanted ==
    /\ Polled /\ wanted /\ wanted' = FALSE
    /\ Ends
    /\ UNCHANGED <<disk, worker, config, taken>>

\* enrollment_changed: the generation on disk is not the installed one.
EnrollmentWatch ==
    /\ Polled /\ pointer # config
    /\ Ends
    /\ UNCHANGED <<disk, worker, config, wanted, taken>>

\* The Hub closes the stream, or a message cannot be sent.
ControlLost ==
    /\ Polled /\ Ends
    /\ UNCHANGED <<disk, worker, config, wanted, taken>>

\* handle_frame_failure; the next attachment waits for the back-off.
FrameLost ==
    /\ phase = "running" /\ frame \in {"attaching", "on"}
    /\ frame' = "lost"
    /\ UNCHANGED <<disk, worker, config, wanted, phase, session, live, taken>>

FrameAttaches ==
    /\ phase = "running"
    /\ \/ frame = "lost" /\ frame' = "attaching"
       \/ frame = "attaching" /\ frame' = "on"
    /\ UNCHANGED <<disk, worker, config, wanted, phase, session, live, taken>>

\* Mutant: the cleanup does not wait for the registration.
JoinedAlways == TRUE

\* join_registration_worker
Joined == registration = "idle"

\* finish_control_failure after the join: clear_target_session reads the enrolment again and
\* resets the executor, and neither of them may stop it.
ClearTargetSession ==
    /\ \/ pointer # 0 /\ Readable /\ config' = pointer /\ whole' = Tidied(whole)
       \/ UNCHANGED <<config, whole>>
    /\ live' \in {live, FALSE}

CleanUp ==
    /\ phase \in {"joining", "failing"} /\ Joined
    /\ ClearTargetSession
    /\ phase' = IF phase = "joining" THEN "waiting" ELSE "ending"
    /\ UNCHANGED <<pointer, used, worker, wanted, session, frame, taken>>

\* The registration takes longer than the cleanup waits, which then goes on without it: the
\* supervisor ends with an error, and the thread runs on until the process does (Crash).
JoinTimesOut ==
    /\ phase \in {"joining", "failing"} /\ ~Joined
    /\ ClearTargetSession
    /\ phase' = "ending"
    /\ Overtakes
    /\ UNCHANGED <<pointer, used, worker, wanted, session, frame>>

-------------------------------------------------------------------------------
(***************************************************************************)
(* Processes                                                               *)
(***************************************************************************)

\* The registration ends with the process, wherever it is.
Crash ==
    /\ phase # "down" /\ phase' = "down"
    /\ session' = 0 /\ frame' = "off" /\ registration' = "idle"
    /\ UNCHANGED <<disk, wasWaiting, config, wanted, live, taken>>

\* from_production: the directory is tidied; what cannot be read counts as no enrolment.
Start ==
    /\ phase = "down" /\ phase' = "waiting"
    /\ whole' = Tidied(whole) /\ config' = IF Readable THEN pointer ELSE 0
    /\ wanted' = FALSE /\ live' = FALSE
    /\ used' = IF used < MaxGenerations /\ used + 1 \in whole THEN used + 1 ELSE used
    /\ UNCHANGED <<pointer, worker, session, frame, taken>>

\* Another Agent process starts and tidies the directory, before it finds that it is not alone.
SecondAgent ==
    /\ phase # "down"
    /\ whole' = Tidied(whole) /\ Overtakes
    /\ UNCHANGED <<pointer, used, worker, config, wanted, supervisor>>

Next ==
    \/ RegisterHub \/ RegistrationFails \/ WriteCandidate \/ ReplacePointer
    \/ Activate \/ RequestReconnect
    \/ Connect \/ Establish \/ TaskBegins \/ ReconnectWanted \/ EnrollmentWatch
    \/ ControlLost \/ FrameLost \/ FrameAttaches \/ CleanUp \/ JoinTimesOut
    \/ Crash \/ Start \/ SecondAgent

Spec == Init /\ [][Next]_vars

-------------------------------------------------------------------------------
TypeOK ==
    /\ {pointer, config, session, used} \subseteq 0 .. MaxGenerations
    /\ whole \subseteq Generations
    /\ registration \in {"idle", "claiming", "validated", "published", "activated"}
    /\ phase \in Phases /\ frame \in {"off", "attaching", "on", "lost"}
    /\ {wasWaiting, wanted, live} \subseteq BOOLEAN /\ taken \subseteq Generations

\* current.json names a generation that is complete, through crashes and while sessions and
\* other processes tidy the directory; the one exception is a candidate that was tidied away
\* between its validation and the replacement of the pointer, and such a generation is never
\* installed (persist, cleanup_retired_generations, from_enrollment_state_at).
PointerNamesWhole ==
    /\ pointer # 0 => pointer \in whole \cup taken
    /\ config \notin taken

\* The threads run and the back-off of the frame session ends.  The loop looks at the
\* control session before the frame session, so that a tick that is due or a permit that
\* waits is taken in the end, however often the frame session is lost.
Fairness ==
    /\ SF_vars(ReconnectWanted) /\ SF_vars(EnrollmentWatch)
    /\ WF_vars(FrameAttaches \/ Establish) /\ WF_vars(Activate \/ RequestReconnect)

FairSpec == Spec /\ Fairness

\* A session does not go on with credentials that have been replaced: the worker asks it to
\* reconnect, or it sees that the generation on disk is not the installed one
\* (finish_registration, wait_for_reconnect, enrollment_changed).
ReplacedSessionEnds ==
    (session # 0 /\ session # pointer) ~> (session = 0 \/ session = pointer)

-------------------------------------------------------------------------------
(***************************************************************************)
(* The inductive invariant                                                 *)
(***************************************************************************)

\* A registration has a generation left, and no process goes on with one that has ended.
RegistrationInv ==
    /\ registration \in {"claiming", "validated"} => used < MaxGenerations
    /\ phase = "down" => registration = "idle"

\* The candidate that was validated is complete until it is taken away, and newer than what
\* the pointer names and what is installed.
CandidateInv ==
    /\ pointer <= used /\ config <= used
    /\ registration = "validated" => used + 1 \in whole \cup taken
    /\ whole \cap taken = {}

IInv == TypeOK /\ RegistrationInv /\ CandidateInv /\ PointerNamesWhole

===============================================================================
