---------------------------- MODULE ReplyChannel ----------------------------
(***************************************************************************)
(* What outbound delivery promises the person at the other end of an       *)
(* external channel: the parts of a reply arrive in order, none twice, and *)
(* what the service records about a part is true of the channel, except    *)
(* that a part recorded as unknown may or may not have arrived and may     *)
(* still arrive.  Delivery.tla is shown to implement this module.          *)
(***************************************************************************)
EXTENDS Naturals, Sequences

CONSTANTS
    Replies,    \* replies the agent commits
    MaxParts    \* largest number of parts a reply is split into

VARIABLES
    status,     \* what is recorded of each part
    arrived     \* the parts the channel has taken, in the order it took them

channelVars == <<status, arrived>>

\* A part of a reply, and the parts of the same reply after and before it.
Parts == Replies \X (1..MaxParts)

Later(d) == {e \in Parts : e[1] = d[1] /\ e[2] > d[2]}

Earlier(d) == {e \in Parts : e[1] = d[1] /\ e[2] < d[2]}

Statuses == {"absent", "pending", "sending", "delivered", "failed", "unknown"}

HasArrived(d) == \E i \in 1..Len(arrived) : arrived[i] = d

ChannelInit ==
    /\ status = [d \in Parts |-> "absent"]
    /\ arrived = <<>>

\* A reply of n parts is committed; all of it waits, or all of it has failed.
Commit(r, n, s) ==
    /\ s \in {"pending", "failed"}
    /\ \A d \in Parts : d[1] = r => status[d] = "absent"
    /\ status' = [d \in Parts |-> IF d[1] = r /\ d[2] <= n THEN s ELSE status[d]]
    /\ UNCHANGED arrived

\* A part is sent only after every earlier part was delivered.
Send(d) ==
    /\ status[d] = "pending"
    /\ \A e \in Earlier(d) : status[e] = "delivered"
    /\ status' = [status EXCEPT ![d] = "sending"]
    /\ UNCHANGED arrived

\* The channel takes a part: once, and only while somebody may be sending it.
Arrive(d) ==
    /\ status[d] \in {"sending", "unknown"}
    /\ ~HasArrived(d)
    /\ arrived' = Append(arrived, d)
    /\ UNCHANGED status

\* A part is recorded as delivered only if it arrived.
Confirm(d) ==
    /\ status[d] = "sending"
    /\ HasArrived(d)
    /\ status' = [status EXCEPT ![d] = "delivered"]
    /\ UNCHANGED arrived

\* A part waits again only if it did not arrive.
Postpone(d) ==
    /\ status[d] = "sending"
    /\ ~HasArrived(d)
    /\ status' = [status EXCEPT ![d] = "pending"]
    /\ UNCHANGED arrived

\* Giving up on a part gives up on the parts after it; a part that may have
\* arrived is given up as unknown.
GiveUp(d, s) ==
    /\ \/ s = "failed" /\ status[d] \in {"pending", "sending"} /\ ~HasArrived(d)
       \/ s = "unknown" /\ status[d] = "sending"
    /\ status' = [e \in Parts |->
                    IF e = d THEN s
                    ELSE IF e \in Later(d) /\ status[e] = "pending" THEN "failed"
                    ELSE status[e]]
    /\ UNCHANGED arrived

ChannelNext ==
    \/ \E r \in Replies, n \in 1..MaxParts, s \in {"pending", "failed"} : Commit(r, n, s)
    \/ \E d \in Parts :
          \/ Send(d)
          \/ Arrive(d)
          \/ Confirm(d)
          \/ Postpone(d)
          \/ \E s \in {"failed", "unknown"} : GiveUp(d, s)

ChannelSpec == ChannelInit /\ [][ChannelNext]_channelVars
=============================================================================
