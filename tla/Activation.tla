------------------------------ MODULE Activation ------------------------------
(***************************************************************************)
(* How a build of the suite becomes the active one: the install            *)
(* transaction (bins/fairypam-agent-installer/src/main.rs), the watch that *)
(* a Guardian keeps over a fresh candidate                                 *)
(* (bins/fairypam-agent-guardian/src/main.rs), and the files they share    *)
(* (crates/fairypam-agent-suite/src/lib.rs): current.json, the pointer,    *)
(* and rollback-pending.json.                                              *)
(*                                                                         *)
(* A mutex lets one installer run at a time.  The Guardians take no part   *)
(* in it: the installer waits for the window of the Shell to close and not *)
(* for the Guardian behind it, and a Shell that dies leaves a Guardian     *)
(* that its successor does not wait for.  Each file is replaced            *)
(* atomically; a process may die between any two of its steps.             *)
(*                                                                         *)
(* The members of a build, their digests and signatures are abstracted to  *)
(* a check that may fail.                                                  *)
(***************************************************************************)
EXTENDS Naturals, FiniteSets

CONSTANTS
    Suites,       \* the builds, by build id
    None,         \* no pointer, no pending activation, no watch
    Guardians,    \* the Guardian processes that may be alive at once
    MaxInstalls,  \* how often the installer is run
    MaxMishaps    \* how many calls fail and processes die or are closed

ASSUME ActivationAssumption ==
    /\ None \notin Suites
    /\ None \notin [candidate : Suites, previous : Suites]
    /\ IsFiniteSet(Suites)
    /\ Guardians # {}
    /\ MaxInstalls \in Nat /\ MaxMishaps \in Nat

VARIABLES
    pointer,    \* current.json: the active build
    pending,    \* rollback-pending.json
    versions,   \* the directories versions/<build>
    staged,     \* the directories versions/<build>.pending
    installer,  \* the install transaction
    guardians,  \* the Guardian processes
    installs,   \* how often the installer has been run
    mishaps,    \* how many mishaps there have been
    torn        \* a mishap has parted pointer and pending activation

files == <<pointer, pending, versions, staged>>

vars == <<files, installer, guardians, installs, mishaps, torn>>

-------------------------------------------------------------------------------
(***************************************************************************)
(* Types and the initial state                                             *)
(***************************************************************************)

\* A pending activation names two different builds (parse_rollback_pending).
Pending == {p \in [candidate : Suites, previous : Suites] : p.candidate # p.previous}

Steps ==
    {"idle", "stage", "protect", "read", "announce", "point", "disarm",
     "verify", "commit", "clear", "restore", "remove"}

\* InstallActivation, the step it has come to, and how the last install ended.
\* before and moved are kept for the properties only: the active build when the
\* install began, and whether a Guardian has moved the pointer since.
Installs ==
    [step : Steps,
     suite : Suites \cup {None},
     previous : Suites \cup {None},
     armed : BOOLEAN,
     created : BOOLEAN,
     outcome : {"none", "done", "failed", "stuck"},
     before : Suites \cup {None},
     moved : BOOLEAN]

\* A Guardian, the build it was started from, the activation it watches, and
\* whether the Shell that started it still holds its lifetime pipe.
Processes ==
    [step : {"off", "load", "plain", "watch", "promote", "rollback", "clear"},
     suite : Suites \cup {None},
     watch : Pending \cup {None},
     owned : BOOLEAN]

TypeOK ==
    /\ pointer \in Suites \cup {None}
    /\ pending \in Pending \cup {None}
    /\ versions \subseteq Suites
    /\ staged \subseteq Suites
    /\ installer \in Installs
    /\ guardians \in [Guardians -> Processes]
    /\ installs \in 0..MaxInstalls
    /\ mishaps \in 0..MaxMishaps
    /\ torn \in BOOLEAN

Gone == [step |-> "off", suite |-> None, watch |-> None, owned |-> FALSE]

\* A machine without FairyPam.
Init ==
    /\ pointer = None
    /\ pending = None
    /\ versions = {}
    /\ staged = {}
    /\ installer = [step |-> "idle", suite |-> None, previous |-> None,
                    armed |-> FALSE, created |-> FALSE, outcome |-> "none",
                    before |-> None, moved |-> FALSE]
    /\ guardians = [g \in Guardians |-> Gone]
    /\ installs = 0
    /\ mishaps = 0
    /\ torn = FALSE

Mishap ==
    /\ mishaps < MaxMishaps
    /\ mishaps' = mishaps + 1

-------------------------------------------------------------------------------
(***************************************************************************)
(* The installer.  An error path is an action of its own, whose name says  *)
(* which call has failed; it costs a mishap.                               *)
(***************************************************************************)

InstallerUnchanged == UNCHANGED <<guardians, installs>>

At(step) == installer.step = step

\* Goes on to the next step of the transaction.
GoTo(step) == installer' = [installer EXCEPT !.step = step]

\* The transaction ends and drops the mutex.
End(outcome) == installer' = [installer EXCEPT !.step = "idle", !.outcome = outcome]

\* The window of the Shell is closed first (stop_shell): from then on its Guardian
\* is to stop.  A build that is installed already is only checked again; one whose
\* staging directory was left behind is refused, which changes no file.
Begin(s) ==
    /\ At("idle") /\ installs < MaxInstalls
    /\ s \in versions \/ s \notin staged
    /\ installer' = [installer EXCEPT !.step = IF s \in versions THEN "protect" ELSE "stage",
                                      !.suite = s, !.created = FALSE, !.armed = FALSE,
                                      !.previous = None, !.outcome = "none",
                                      !.before = pointer, !.moved = FALSE]
    /\ staged' = IF s \in versions THEN staged ELSE staged \cup {s}
    /\ guardians' = [g \in Guardians |-> [guardians[g] EXCEPT !.owned = FALSE]]
    /\ installs' = installs + 1
    /\ UNCHANGED <<pointer, pending, versions, mishaps, torn>>

\* The members have been copied and checked: the directory gets its name.
Stage ==
    /\ At("stage")
    /\ staged' = staged \ {installer.suite}
    /\ versions' = versions \cup {installer.suite}
    /\ installer' = [installer EXCEPT !.step = "protect", !.created = TRUE]
    /\ UNCHANGED <<pointer, pending, mishaps, torn>> /\ InstallerUnchanged

\* A copy that fails removes what it has staged, if it can; a rename that fails
\* leaves it.
StageFails ==
    /\ At("stage") /\ Mishap
    /\ staged' \in {staged, staged \ {installer.suite}}
    /\ End("failed")
    /\ UNCHANGED <<pointer, pending, versions, torn>> /\ InstallerUnchanged

Protect ==
    /\ At("protect")
    /\ GoTo("read")
    /\ UNCHANGED <<files, mishaps, torn>> /\ InstallerUnchanged

\* protect_manifest_directories takes a new version away again, if it can;
\* verify_active_runtime leaves it.
ProtectFails ==
    /\ At("protect") /\ Mishap
    /\ versions' \in {versions, IF installer.created THEN versions \ {installer.suite}
                                                     ELSE versions}
    /\ End("failed")
    /\ UNCHANGED <<pointer, pending, staged, torn>> /\ InstallerUnchanged

\* Mutant: a reinstalled build becomes its own fallback.
ReadPointerArmed ==
    /\ At("read")
    /\ LET armed == pointer # None
       IN installer' = [installer EXCEPT !.previous = pointer, !.armed = armed,
                                         !.step = IF armed THEN "announce" ELSE "point"]
    /\ UNCHANGED <<files, mishaps, torn>> /\ InstallerUnchanged

\* The rollback is armed when another build was active.
ReadPointer ==
    /\ At("read")
    /\ LET armed == pointer \notin {None, installer.suite}
       IN installer' = [installer EXCEPT !.previous = pointer, !.armed = armed,
                                         !.step = IF armed THEN "announce" ELSE "point"]
    /\ UNCHANGED <<files, mishaps, torn>> /\ InstallerUnchanged

WritePending ==
    /\ At("announce")
    /\ pending' = [candidate |-> installer.suite, previous |-> installer.previous]
    /\ GoTo("point")
    /\ UNCHANGED <<pointer, versions, staged, mishaps, torn>> /\ InstallerUnchanged

\* The new version stays.
WritePendingFails ==
    /\ At("announce") /\ Mishap
    /\ End("failed")
    /\ UNCHANGED <<files, torn>> /\ InstallerUnchanged

ReplacePointer ==
    /\ At("point")
    /\ pointer' = installer.suite
    /\ GoTo("verify")
    /\ UNCHANGED <<pending, versions, staged, mishaps, torn>> /\ InstallerUnchanged

\* Mutant: the pending activation stays armed.
ReplacePointerFailsArmed ==
    /\ At("point") /\ Mishap
    /\ End("failed")
    /\ UNCHANGED <<files, torn>> /\ InstallerUnchanged

\* The new version stays; an armed rollback is to be disarmed.
ReplacePointerFails ==
    /\ At("point") /\ Mishap
    /\ IF installer.armed THEN GoTo("disarm") ELSE End("failed")
    /\ UNCHANGED <<files, torn>> /\ InstallerUnchanged

Disarm ==
    /\ At("disarm")
    /\ pending' = None
    /\ End("failed")
    /\ UNCHANGED <<pointer, versions, staged, mishaps, torn>> /\ InstallerUnchanged

\* Its error is dropped.
DisarmFails ==
    /\ At("disarm") /\ Mishap
    /\ End("failed")
    /\ torn' = TRUE
    /\ UNCHANGED files /\ InstallerUnchanged

\* verify_install_tree, active_suite, and the data directories of provision.
Verify ==
    /\ At("verify")
    /\ GoTo("commit")
    /\ UNCHANGED <<files, mishaps, torn>> /\ InstallerUnchanged

\* The tree is checked before the transaction has a value to roll back: the
\* pending activation is cleared whoever wrote it.
VerifyFails ==
    /\ At("verify") /\ Mishap
    /\ GoTo("clear")
    /\ UNCHANGED <<files, torn>> /\ InstallerUnchanged

\* Mutant: the version that was active before is tidied up.
CommitTidies ==
    /\ At("commit")
    /\ versions' = (versions \ {installer.previous}) \cup {installer.suite}
    /\ End("done")
    /\ UNCHANGED <<pointer, pending, staged, mishaps, torn>> /\ InstallerUnchanged

\* The flat payload is removed.
Commit ==
    /\ At("commit")
    /\ End("done")
    /\ UNCHANGED <<files, mishaps, torn>> /\ InstallerUnchanged

\* Mutant: the new version is removed before the pointer is restored.
CommitFailsRemoving ==
    /\ At("commit") /\ Mishap
    /\ versions' = IF installer.created THEN versions \ {installer.suite} ELSE versions
    /\ GoTo(IF installer.armed THEN "clear" ELSE "restore")
    /\ UNCHANGED <<pointer, pending, staged, torn>> /\ InstallerUnchanged

\* Mutant: only an armed rollback is carried out.
CommitFailsUnarmed ==
    /\ At("commit") /\ Mishap
    /\ IF installer.armed THEN GoTo("clear") ELSE End("failed")
    /\ UNCHANGED <<files, torn>> /\ InstallerUnchanged

CommitFails ==
    /\ At("commit") /\ Mishap
    /\ GoTo(IF installer.armed THEN "clear" ELSE "restore")
    /\ UNCHANGED <<files, torn>> /\ InstallerUnchanged

ClearForUndo ==
    /\ At("clear")
    /\ pending' = None
    /\ GoTo("restore")
    /\ UNCHANGED <<pointer, versions, staged, mishaps, torn>> /\ InstallerUnchanged

\* The next step of an undo whose pointer is back.
AfterRestore == IF installer.created THEN GoTo("remove") ELSE End("failed")

RestorePointer ==
    /\ At("restore")
    /\ pointer' = installer.previous
    /\ AfterRestore
    /\ UNCHANGED <<pending, versions, staged, mishaps, torn>> /\ InstallerUnchanged

RemoveVersion ==
    /\ At("remove")
    /\ versions' = versions \ {installer.suite}
    /\ End("failed")
    /\ UNCHANGED <<pointer, pending, staged, mishaps, torn>> /\ InstallerUnchanged

\* ProvisionFailure::Rollback: the undo stops where it is.
UndoFails ==
    /\ installer.step \in {"clear", "restore", "remove"} /\ Mishap
    /\ End("stuck")
    /\ UNCHANGED <<files, torn>> /\ InstallerUnchanged

\* The pending activation may be on disk and its pointer not, or not any more.
InstallerDies ==
    /\ ~At("idle") /\ Mishap
    /\ End("stuck")
    /\ torn' = (torn \/ At("disarm") \/ (At("point") /\ installer.armed))
    /\ UNCHANGED files /\ InstallerUnchanged

InstallerStep ==
    \/ Stage \/ Protect \/ ReadPointer \/ WritePending \/ ReplacePointer
    \/ Disarm \/ Verify \/ Commit \/ ClearForUndo \/ RestorePointer \/ RemoveVersion

InstallerMishap ==
    \/ StageFails \/ ProtectFails \/ WritePendingFails \/ ReplacePointerFails
    \/ DisarmFails \/ VerifyFails \/ CommitFails \/ UndoFails \/ InstallerDies

-------------------------------------------------------------------------------
(***************************************************************************)
(* The Guardians                                                           *)
(***************************************************************************)

Rest == UNCHANGED <<versions, staged, installs>>

Moves(g, step) == guardians' = [guardians EXCEPT ![g].step = step]

Exits(g) == guardians' = [guardians EXCEPT ![g] = Gone]

\* The one Shell of the session, started from the active build, spawns a Guardian
\* (GuardianProcess::spawn, ensure_guardian) that reads rollback-pending.json.
\* A Guardian whose Shell has died may still be there.
StartGuardian(g) ==
    /\ guardians[g].step = "off"
    /\ \A h \in Guardians : ~guardians[h].owned
    /\ pointer \in versions
    /\ guardians' = [guardians EXCEPT ![g] =
          [step |-> IF pending = None THEN "plain" ELSE "load",
           suite |-> pointer, watch |-> pending, owned |-> TRUE]]
    /\ UNCHANGED <<pointer, pending, installer, mishaps, torn>> /\ Rest

\* ActivationWatch::load resolves the active build after it has read the pending
\* activation, and refuses to start when the two disagree.
Load(g) ==
    /\ guardians[g].step = "load"
    /\ IF guardians[g].watch.candidate = pointer THEN Moves(g, "watch") ELSE Exits(g)
    /\ UNCHANGED <<pointer, pending, installer, mishaps, torn>> /\ Rest

\* promote_if_due, at the first healthy answer after 30 s.  An error rolls back.
Judge(g) ==
    /\ guardians[g].step = "watch"
    /\ Moves(g, IF guardians[g].watch.candidate = pointer THEN "promote" ELSE "rollback")
    /\ UNCHANGED <<pointer, pending, installer, mishaps, torn>> /\ Rest

\* Mutant: the candidate is promoted in memory only.
PromoteInMemory(g) ==
    /\ guardians[g].step = "promote"
    /\ guardians' = [guardians EXCEPT ![g].step = "plain", ![g].watch = None]
    /\ UNCHANGED <<pointer, pending, installer, mishaps, torn>> /\ Rest

Promote(g) ==
    /\ guardians[g].step = "promote"
    /\ pending' = None
    /\ guardians' = [guardians EXCEPT ![g].step = "plain", ![g].watch = None]
    /\ UNCHANGED <<pointer, installer, mishaps, torn>> /\ Rest

PromoteFails(g) ==
    /\ guardians[g].step = "promote" /\ Mishap
    /\ Moves(g, "rollback")
    /\ UNCHANGED <<pointer, pending, installer, torn>> /\ Rest

\* The candidate exits, is unhealthy or silent for 12 s, or cannot be started.
CandidateFails(g) ==
    /\ guardians[g].step = "watch"
    /\ Moves(g, "rollback")
    /\ UNCHANGED <<pointer, pending, installer, mishaps, torn>> /\ Rest

\* ActivationWatch::rollback, which resolves the previous build first and does not
\* look which build is active now.
RollBack(g) ==
    /\ guardians[g].step = "rollback"
    /\ guardians[g].watch.previous \in versions
    /\ pointer' = guardians[g].watch.previous
    /\ installer' = [installer EXCEPT !.moved = TRUE]
    /\ Moves(g, "clear")
    /\ UNCHANGED <<pending, mishaps, torn>> /\ Rest

RollBackFails(g) ==
    /\ guardians[g].step = "rollback" /\ Mishap
    /\ Exits(g)
    /\ UNCHANGED <<pointer, pending, installer, torn>> /\ Rest

ClearPending(g) ==
    /\ guardians[g].step = "clear"
    /\ pending' = None
    /\ Exits(g)
    /\ UNCHANGED <<pointer, installer, mishaps, torn>> /\ Rest

\* A Guardian that dies or fails between the two files parts them.
GuardianDies(g) ==
    /\ guardians[g].step # "off" /\ Mishap
    /\ torn' = (torn \/ guardians[g].step = "clear")
    /\ Exits(g)
    /\ UNCHANGED <<pointer, pending, installer>> /\ Rest

\* The lifetime pipe is closed: the Shell was closed, or its timer has found another
\* build active.  The Guardian stops its Agent and leaves the activation undecided.
OwnerStops(g) ==
    /\ guardians[g].step \in {"plain", "watch"}
    /\ ~guardians[g].owned \/ pointer # guardians[g].suite
    /\ Exits(g)
    /\ UNCHANGED <<pointer, pending, installer, mishaps, torn>> /\ Rest

\* The user closes the Shell, or it dies.
ShellCloses(g) ==
    /\ guardians[g].owned /\ Mishap
    /\ guardians' = [guardians EXCEPT ![g].owned = FALSE]
    /\ UNCHANGED <<pointer, pending, installer, torn>> /\ Rest

GuardianStep(g) ==
    \/ StartGuardian(g) \/ Load(g) \/ Judge(g) \/ Promote(g)
    \/ RollBack(g) \/ ClearPending(g) \/ OwnerStops(g)

\* Nobody relies on any of these; CandidateFails costs no mishap.
GuardianMishap(g) ==
    \/ PromoteFails(g) \/ CandidateFails(g) \/ RollBackFails(g)
    \/ GuardianDies(g) \/ ShellCloses(g)

-------------------------------------------------------------------------------
(***************************************************************************)
(* The specification                                                       *)
(***************************************************************************)

Next ==
    \/ \E s \in Suites : Begin(s)
    \/ InstallerStep
    \/ InstallerMishap
    \/ \E g \in Guardians : GuardianStep(g) \/ GuardianMishap(g)

Spec == Init /\ [][Next]_vars

\* A running process goes on; the Shell is started again after it was closed.
FairSpec ==
    /\ Spec
    /\ WF_vars(InstallerStep)
    /\ \A g \in Guardians : WF_vars(GuardianStep(g))

-------------------------------------------------------------------------------
(***************************************************************************)
(* Properties                                                              *)
(***************************************************************************)

\* The active build is there: no order of install, undo, rollback and crash removes
\* the version that current.json names (from_flat_payload, InstallActivation::
\* rollback, ActivationWatch::rollback).
ActiveInstalled == pointer \in versions \cup {None}

\* Every build that somebody may still roll back to is there, and so is every
\* candidate: pending activation, running watch, and the undo of an install.
FallbackInstalled ==
    /\ pending # None => {pending.candidate, pending.previous} \subseteq versions
    /\ \A g \in Guardians :
          guardians[g].watch # None => guardians[g].watch.previous \in versions
    /\ installer.step # "idle" => installer.previous \in versions \cup {None}

\* Unless a mishap struck between the two files, they agree whenever nobody is at
\* work on them, so that a Guardian can load the activation (ActivationWatch::load
\* refuses to start otherwise, every time the Shell tries).
AtRest ==
    /\ installer.step = "idle"
    /\ \A g \in Guardians : guardians[g].step # "clear"

PendingMatches == AtRest /\ ~torn /\ pending # None => pending.candidate = pointer

\* An install that has failed leaves the build active that was active before,
\* unless a Guardian has rolled that one back in the meantime.
FailedInstallUndone ==
    installer.outcome = "failed" /\ ~installer.moved => pointer = installer.before

\* A pending activation is decided: some Guardian promotes the candidate or rolls
\* it back, or an installer takes it away.  Not promised once a Guardian has moved
\* the pointer under an installer: when it rolls back to the very build that is
\* being installed, a Shell may start on that build before the activation is
\* written, and its Guardian watches nothing.
Decided == pending # None ~> (pending = None \/ torn \/ installer.moved)

-------------------------------------------------------------------------------
(***************************************************************************)
(* The inductive invariant                                                 *)
(***************************************************************************)

Active == installer.step # "idle"

\* The steps that know the previous build.
AfterRead == installer.step \in Steps \ {"idle", "stage", "protect", "read"}

Clearing == \E g \in Guardians : guardians[g].step = "clear"

\* What a transaction has found out stays true while it runs.
InstallInv ==
    /\ At("stage") => ~installer.created /\ installer.suite \notin versions
    /\ Active => installer.suite # None /\ installer.outcome = "none"
    /\ Active /\ ~At("stage") => installer.suite \in versions
    /\ Active /\ ~AfterRead => installer.previous = None /\ ~installer.armed
    /\ AfterRead => (installer.armed <=> installer.previous \notin {None, installer.suite})
    /\ installer.step \in {"announce", "disarm"} => installer.armed
    /\ At("remove") => installer.created
    /\ Active /\ installer.armed => pointer # None

\* Where no build is active, none is pending, nor once an undo has cleared the file.
EmptyInv ==
    /\ pointer = None => pending = None
    /\ AfterRead /\ installer.previous = None => pending = None
    /\ installer.step \in {"restore", "remove"} /\ installer.armed => pending = None

\* A version that the running install has created is nobody's fallback, is not
\* active before the pointer is replaced nor after it is restored, and is not
\* pending while the install may still take it away.
FreshInv ==
    Active /\ installer.created =>
        /\ installer.previous # installer.suite
        /\ \A g \in Guardians :
              guardians[g].watch # None => guardians[g].watch.previous # installer.suite
        /\ pending # None => pending.previous # installer.suite
        /\ installer.step \in {"protect", "read", "announce", "point", "disarm", "remove"} =>
              pointer # installer.suite
        /\ installer.step \in {"protect", "read", "announce"} /\ pending # None =>
              pending.candidate # installer.suite
        /\ installer.step \in {"restore", "remove"} => pending = None

\* A Guardian that is to judge has an activation to judge.
WatchInv ==
    \A g \in Guardians :
        /\ guardians[g].step \in {"load", "watch", "promote", "rollback", "clear"} =>
              guardians[g].watch # None
        /\ guardians[g].step = "off" => guardians[g].watch = None

\* While they are at work on the two files, the installer and the Guardians know
\* where pointer and pending activation disagree.
MatchInv ==
    ~torn /\ ~Clearing /\ pending # None =>
        /\ \/ pending.candidate = pointer
           \/ installer.step \in {"point", "disarm"} /\ installer.armed
        /\ AfterRead /\ ~At("announce") => pending.candidate = installer.suite

\* The way back of an install that nobody has interfered with.
UndoInv ==
    Active /\ ~installer.moved =>
        /\ AfterRead => installer.previous = installer.before
        /\ installer.step \in {"stage", "protect", "read", "announce", "point",
                               "disarm", "remove"} => pointer = installer.before

IInv ==
    /\ TypeOK
    /\ InstallInv
    /\ EmptyInv
    /\ FreshInv
    /\ WatchInv
    /\ MatchInv
    /\ UndoInv
    /\ ActiveInstalled
    /\ FallbackInstalled
    /\ FailedInstallUndone

===============================================================================
