---------------------------- MODULE EditService -----------------------------
(***************************************************************************)
(* What the tag-edit endpoint promises to its clients, and nothing of how: *)
(* an edit is applied at most once, or given up for good, and the answer a *)
(* client gets is an answer about that.                                    *)
(***************************************************************************)
CONSTANTS
    Req,    \* the edits
    None    \* no answer yet

VARIABLES
    fate,   \* per edit: open, applied or dropped
    answer  \* per edit, what its client was told

Promised == {"ok"}                                   \* it is in the catalog
Denied   == {"bad", "busy", "not_found", "expired"}  \* it is not and will not be
Vague    == {"timeout", "error"}                     \* it may be either

TypeOK ==
    /\ fate \in [Req -> {"open", "applied", "dropped"}]
    /\ answer \in [Req -> Promised \cup Denied \cup Vague \cup {None}]

Init ==
    /\ fate = [r \in Req |-> "open"]
    /\ answer = [r \in Req |-> None]

\* The catalog changes, or will not change: decided once.
Settle(r, f) ==
    /\ fate[r] = "open"
    /\ fate' = [fate EXCEPT ![r] = f]

Apply(r) == Settle(r, "applied") /\ UNCHANGED answer
Drop(r)  == Settle(r, "dropped") /\ UNCHANGED answer

Tell(r, a) ==
    /\ answer[r] = None
    /\ answer' = [answer EXCEPT ![r] = a]

Confirm(r) == fate[r] = "applied" /\ (\E a \in Promised : Tell(r, a)) /\ UNCHANGED fate
Deny(r)    == fate[r] = "dropped" /\ (\E a \in Denied : Tell(r, a)) /\ UNCHANGED fate
Shrug(r)   == (\E a \in Vague : Tell(r, a)) /\ UNCHANGED fate

\* Turned away at the door.
Refuse(r) == Settle(r, "dropped") /\ \E a \in Denied : Tell(r, a)

Next == \E r \in Req : \/ Apply(r) \/ Drop(r) \/ Confirm(r) \/ Deny(r)
                       \/ Shrug(r) \/ Refuse(r)
Spec == Init /\ [][Next]_<<fate, answer>>
=============================================================================
