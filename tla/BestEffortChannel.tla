-------------------------- MODULE BestEffortChannel --------------------------
(***************************************************************************)
(* What one subscriber of the bus is promised, said without the bus and    *)
(* without the other subscribers: a bounded FIFO channel that may refuse   *)
(* an event only when its own backlog is full, never reorders, never       *)
(* repeats and never delivers what was offered before it was opened.       *)
(*                                                                         *)
(* Events are identified by their ordinal in the order of publication.     *)
(***************************************************************************)
EXTENDS Integers, Sequences

CONSTANT Room          \* how many undelivered events the channel holds

VARIABLES open,        \* is the channel receiving events
          latest,      \* ordinal of the latest event published anywhere
          backlog,     \* accepted, not yet taken
          taken,       \* what the reader took, in order
          missed       \* events refused because the backlog was full

channelVars == <<open, latest, backlog, taken, missed>>

ChannelInit ==
    /\ open = FALSE
    /\ latest = 0
    /\ backlog = <<>>
    /\ taken = <<>>
    /\ missed = {}

\* A closed channel hears nothing of what is published.
Pass ==
    /\ ~open
    /\ latest' = latest + 1
    /\ UNCHANGED <<open, backlog, taken, missed>>

Accept ==
    /\ open
    /\ Len(backlog) < Room
    /\ latest' = latest + 1
    /\ backlog' = Append(backlog, latest + 1)
    /\ UNCHANGED <<open, taken, missed>>

Refuse ==
    /\ open
    /\ Len(backlog) = Room
    /\ latest' = latest + 1
    /\ missed' = missed \cup {latest + 1}
    /\ UNCHANGED <<open, backlog, taken>>

Take ==
    /\ backlog # <<>>
    /\ taken' = Append(taken, Head(backlog))
    /\ backlog' = Tail(backlog)
    /\ UNCHANGED <<open, latest, missed>>

Open ==
    /\ ~open
    /\ open' = TRUE
    /\ backlog' = <<>>
    /\ taken' = <<>>
    /\ missed' = {}
    /\ UNCHANGED latest

Close ==
    /\ open
    /\ open' = FALSE
    /\ UNCHANGED <<latest, backlog, taken, missed>>

ChannelNext == Pass \/ Accept \/ Refuse \/ Take \/ Open \/ Close

Channel == ChannelInit /\ [][ChannelNext]_channelVars
=============================================================================
