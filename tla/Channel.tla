------------------------------- MODULE Channel -------------------------------
(***************************************************************************)
(* What MissionTransport promises of a channel: a reader is given what is  *)
(* published after it joined, in the order of publication, each message    *)
(* once, without a gap, until it is gone. Delivery is best effort: a       *)
(* reader may leave behind what it has not read.                           *)
(***************************************************************************)
EXTENDS Naturals, Sequences

CONSTANTS Readers, Envelopes

VARIABLES
    log,        \* everything published
    from,       \* from[r]: how much of the log came before r joined
    got         \* got[r]: what r was given

ChannelInit ==
    /\ log = <<>>
    /\ from = [r \in Readers |-> 0]
    /\ got = [r \in Readers |-> <<>>]

Append1(e) == log' = Append(log, e) /\ UNCHANGED <<from, got>>

\* A reader joins at the end of the log.
Join(r) ==
    /\ got[r] = <<>>
    /\ from' = [from EXCEPT ![r] = Len(log)]
    /\ UNCHANGED <<log, got>>

Give(r) ==
    /\ from[r] + Len(got[r]) < Len(log)
    /\ got' = [got EXCEPT ![r] = Append(@, log[from[r] + Len(@) + 1])]
    /\ UNCHANGED <<log, from>>

ChannelNext ==
    \/ \E e \in Envelopes : Append1(e)
    \/ \E r \in Readers : Join(r) \/ Give(r)

ChannelSpec == ChannelInit /\ [][ChannelNext]_<<log, from, got>>
=============================================================================
