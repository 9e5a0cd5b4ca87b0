------------------------------ MODULE MCLease ------------------------------
(***************************************************************************)
(* The lease executor with the Agent's machine and the Guardian's monitor: *)
(* one key that is held, one that is pulsed and one mouse button, two      *)
(* sessions, and two windows of which one fits the profile.                *)
(***************************************************************************)
EXTENDS LeaseExecutor

CONSTANTS k, p, b, profile, game, other

MCFits == {<<profile, game>>}

=============================================================================
