----------------------------- MODULE GossipList -----------------------------
(***************************************************************************)
(* What one device's node list promises, without bytes: a list of nodes    *)
(* without duplicates that starts with the device itself, takes the        *)
(* entries of a message one by one, and is announced as it is.             *)
(***************************************************************************)
EXTENDS Sequences, Naturals

CONSTANTS
    Ids,       \* the nodes
    Local,     \* this device
    Messages   \* the lists other devices may announce

VARIABLES
    known,     \* the list
    pending,   \* what is still to be taken from the message being handled
    sent       \* the list announced last

gvars == <<known, pending, sent>>

GInit == known = <<Local>> /\ pending = << >> /\ sent = << >>

Hear ==
    /\ pending = << >>
    /\ pending' \in Messages
    /\ UNCHANGED <<known, sent>>

Take ==
    /\ pending # << >>
    /\ pending' = Tail(pending)
    /\ known' = IF \E k \in 1..Len(known) : known[k] = Head(pending)
                THEN known ELSE Append(known, Head(pending))
    /\ UNCHANGED sent

Announce ==
    /\ pending = << >>
    /\ sent' = known
    /\ UNCHANGED <<known, pending>>

GNext == Hear \/ Take \/ Announce

GSpec == GInit /\ [][GNext]_gvars
=============================================================================
