--------------------------- MODULE CommandPromise ---------------------------
(***************************************************************************)
(* What an invocation of notifyctl promises: its remote call takes effect  *)
(* at most once; OK is reported only for a call that took effect; after a  *)
(* definite refusal the call never takes effect, neither before nor later; *)
(* after any other error it may have, or may still; and an invocation that *)
(* asks nothing of anybody exits with 0 only if it reported OK.            *)
(* CommandLine implements it.                                              *)
(***************************************************************************)
CONSTANTS
    Sessions,
    Definite   \* reports of a call that was refused

VARIABLES
    unattended,  \* invocations that ask and show nothing
    effect,      \* invocations whose call took effect
    told,        \* told[c]: what c reported, or "nothing"
    exit         \* exit[c]: "no", "zero", "one" or "killed"

vars == <<unattended, effect, told, exit>>

Init ==
    /\ unattended = {}
    /\ effect = {}
    /\ told = [c \in Sessions |-> "nothing"]
    /\ exit = [c \in Sessions |-> "no"]

Start(c) ==
    /\ told[c] = "nothing"
    /\ exit[c] = "no"
    /\ unattended' = unattended \cup {c}
    /\ UNCHANGED <<effect, told, exit>>

Act(c) ==
    /\ c \notin effect
    /\ told[c] \notin Definite
    /\ effect' = effect \cup {c}
    /\ UNCHANGED <<unattended, told, exit>>

\* An invocation with a screen goes on after its report.
Tell(c, code) ==
    /\ told[c] = "nothing"
    /\ exit[c] = "no"
    /\ code = "OK" => c \in effect
    /\ code \in Definite => c \notin effect
    /\ told' = [told EXCEPT ![c] = code]
    /\ \/ UNCHANGED exit
       \/ exit' = [exit EXCEPT ![c] = IF code = "OK" THEN "zero" ELSE "one"]
    /\ UNCHANGED <<unattended, effect>>

Leave(c, status) ==
    /\ exit[c] = "no"
    /\ status = "zero" => c \notin unattended
    /\ exit' = [exit EXCEPT ![c] = status]
    /\ UNCHANGED <<unattended, effect, told>>

Next ==
    \E c \in Sessions :
        \/ Start(c)
        \/ Act(c)
        \/ \E code \in Definite \cup {"OK", "Error"} : Tell(c, code)
        \/ \E status \in {"zero", "one", "killed"} : Leave(c, status)

Spec == Init /\ [][Next]_vars
=============================================================================
