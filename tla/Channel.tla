------------------------------ MODULE Channel -------------------------------
(***************************************************************************)
(* What an FMT or RFS channel promises the two ends: messages arrive whole *)
(* and in the order they were sent, and one that does not arrive was lost  *)
(* by a call that returned -1.                                             *)
(*                                                                         *)
(*   - A send puts its message on its way, or returns -1; a message that   *)
(*     it had already begun is then withdrawn.                             *)
(*   - A receive returns the oldest message on its way, or returns -1 and  *)
(*     loses that one or none.                                             *)
(*   - A channel may break, which no receive shows; nothing is promised of *)
(*     a broken channel.                                                   *)
(***************************************************************************)
EXTENDS Naturals, Sequences

CONSTANT Messages

VARIABLES
    sent,      \* messages given to the send function
    inflight,  \* those of them, by their place in sent, on their way
    received,  \* messages returned by the receive function
    failed,    \* a call returned -1
    broken

vars == <<sent, inflight, received, failed, broken>>

Init ==
    /\ sent = <<>> /\ inflight = {} /\ received = <<>>
    /\ failed = FALSE /\ broken = FALSE

Oldest(m) == m \in inflight /\ \A k \in inflight : m <= k

Accept(x) ==
    /\ sent' = Append(sent, x)
    /\ inflight' = inflight \cup {Len(sent) + 1}
    /\ UNCHANGED <<received, failed>>

Refuse(x) ==
    /\ sent' = Append(sent, x)
    /\ failed' = TRUE
    /\ UNCHANGED <<inflight, received>>

Withdraw ==
    /\ Len(sent) \in inflight
    /\ inflight' = inflight \ {Len(sent)}
    /\ failed' = TRUE
    /\ UNCHANGED <<sent, received>>

Deliver(m) ==
    /\ Oldest(m)
    /\ received' = Append(received, sent[m])
    /\ inflight' = inflight \ {m}
    /\ UNCHANGED <<sent, failed>>

Drop(m) ==
    /\ Oldest(m)
    /\ inflight' = inflight \ {m}
    /\ failed' = TRUE
    /\ UNCHANGED <<sent, received>>

Fail ==
    /\ failed' = TRUE
    /\ UNCHANGED <<sent, inflight, received>>

Works ==
    /\ broken = FALSE /\ broken' = FALSE
    /\ \/ \E x \in Messages : Accept(x) \/ Refuse(x)
       \/ Withdraw
       \/ \E m \in inflight : Deliver(m) \/ Drop(m)
       \/ Fail

Break ==
    /\ broken = FALSE /\ broken' = TRUE
    /\ UNCHANGED received

StaysBroken == broken = TRUE /\ broken' = TRUE

Next == Works \/ Break \/ StaysBroken

Spec == Init /\ [][Next]_vars
=============================================================================
