---------------------------- MODULE SideEffectGate ----------------------------
(***************************************************************************)
(* What the attempt journal promises the device: a logical command is let  *)
(* through to the device at most once.  One command at a time is admitted; *)
(* it is then carried out, or dropped and perhaps admitted again later.    *)
(***************************************************************************)
CONSTANT Effects

VARIABLES
    pending,  \* the command that has been admitted, if there is one
    done      \* the commands the device has carried out

vars == <<pending, done>>

Init == pending = {} /\ done = {}

Admit(c) ==
    /\ pending = {}
    /\ c \notin done
    /\ pending' = {c}
    /\ done' = done

CarryOut ==
    /\ pending # {}
    /\ done' = done \cup pending
    /\ pending' = {}

Drop ==
    /\ pending # {}
    /\ pending' = {}
    /\ done' = done

Next == (\E c \in Effects : Admit(c)) \/ CarryOut \/ Drop

Spec == Init /\ [][Next]_vars

===============================================================================
