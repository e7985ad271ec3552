------------------------------- MODULE Lease -------------------------------
(***************************************************************************)
(* What a lock with an expiry promises, without messages, scripts, tokens  *)
(* or renewal goroutines: a lease that is granted when it is free, to one  *)
(* who has asked for it; that its owner alone prolongs; that nobody ends   *)
(* while its owner uses it, but time; and that time ends otherwise.        *)
(***************************************************************************)
EXTENDS Naturals

CONSTANTS Clients, NoOne, Term

VARIABLES
    owner,      \* who has the lease
    left,       \* how long it lasts
    use         \* whether each client is yet to ask, asks or works, or is done

vars == <<owner, left, use>>

Init ==
    /\ owner = NoOne
    /\ left = 0
    /\ use = [c \in Clients |-> "before"]

Begin(c) ==
    /\ use[c] = "before"
    /\ use' = [use EXCEPT ![c] = "during"]
    /\ UNCHANGED <<owner, left>>

End(c) ==
    /\ use[c] = "during"
    /\ use' = [use EXCEPT ![c] = "after"]
    /\ UNCHANGED <<owner, left>>

\* A request may be granted late, when its client has given up.
Grant(c) ==
    /\ owner = NoOne /\ use[c] # "before"
    /\ owner' = c /\ left' = Term
    /\ UNCHANGED use

Prolong(c) ==
    /\ owner = c /\ use[c] # "before"
    /\ left' = Term
    /\ UNCHANGED <<owner, use>>

Release(c) ==
    /\ owner = c /\ use[c] = "after"
    /\ owner' = NoOne /\ left' = 0
    /\ UNCHANGED use

Age ==
    /\ owner # NoOne
    /\ left' = left - 1
    /\ owner' = IF left = 1 THEN NoOne ELSE owner
    /\ UNCHANGED use

Next ==
    \/ \E c \in Clients : Begin(c) \/ End(c) \/ Grant(c) \/ Prolong(c) \/ Release(c)
    \/ Age

Spec == Init /\ [][Next]_vars
=============================================================================
