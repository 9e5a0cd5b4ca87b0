---------------------------- MODULE MCTaskAttempt -----------------------------
(***************************************************************************)
(* Small instances of TaskAttempt.  A payload is named for its kind.       *)
(***************************************************************************)
EXTENDS TaskAttempt, TLC

InputPayloads == {"begin", "frame"}
InputKindOf == [p \in InputPayloads |-> p]

NamedPayloads == {"begin", "frame", "inspect"}
NamedKindOf == [p \in NamedPayloads |-> p]

FinishPayloads == {"begin", "start", "finish"}
FinishKindOf == [p \in FinishPayloads |-> p]

CleanupPayloads == Kinds \ {"frame", "inspect"}
CleanupKindOf == [p \in CleanupPayloads |-> p]

LimitPayloads == {"begin", "frame", "inspect", "release", "finish"}
LimitKindOf == [p \in LimitPayloads |-> p]

Symmetry == Permutations(Attempts) \cup Permutations(CommandIds)

===============================================================================
