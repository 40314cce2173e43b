----------------------------- MODULE Connection -----------------------------
(***************************************************************************)
(* SSH connections: the login of Accounts and, on a connection that is     *)
(* admitted, the telnet options of Telnet.  `session_started` makes the    *)
(* offers and starts `interact`, so that the client negotiates while the   *)
(* user is asked for a universe; both read the same bytes, and the answer  *)
(* to the question is what the parser passes on as text.                   *)
(***************************************************************************)
EXTENDS Accounts, Sequences

CONSTANTS Line,      \* the connection whose bytes are modelled
          Clients,   \* see Telnet
          Chunks,
          Calls      \* the situations with the client that calls in them

ASSUME LineAssumption == Line \in Conn
ASSUME ClientsAssumption == \A c \in Clients : c.names # <<>>
ASSUME ChunksAssumption == Chunks \subseteq Nat \ {0} /\ Chunks # {}

VARIABLES who, down, up, parser, neg, lets, has, waits, next, left, owed, garbled, typed

Options == INSTANCE Telnet WITH
    Clients <- Clients, Chunks <- Chunks, who <- who, down <- down, up <- up,
    parser <- parser, neg <- neg, lets <- lets, has <- has, waits <- waits,
    next <- next, left <- left, owed <- owed, garbled <- garbled, typed <- typed

options == <<who, down, up, parser, neg, lets, has, waits, next, left,
             owed, garbled, typed>>

allVars == <<vars, options>>

\* The channel of the line is open.
Open == conn[Line].stage \in {"picking", "in"}

\* _pick_site asks only when there is a choice, and then needs a line of text.
PickOnLine ==
    /\ Cardinality(Available(conn[Line].user)) > 1 => typed
    /\ Pick(Line)

Login ==
    \/ \E c \in Conn : LoginStep(c) \/ Leave(c)
    \/ \E c \in Conn \ {Line} : Pick(c)
    \/ PickOnLine
    \/ \E c \in Conn, u \in User, s \in Site \cup {None} : Authenticate(c, u, s)

Staff == (\E t \in Task : Load(t) \/ TaskStep(t)) \/ ProvisionGuest

Receive == Open /\ Options!DataReceived /\ UNCHANGED vars

Hear == Open /\ Options!Hear /\ UNCHANGED vars

Speak == Open /\ Options!Speak /\ UNCHANGED vars

\* The negotiator and the parser are made, and the offers written, when the
\* session starts; nobody looks at them before.
ConnectionInit == Init /\ Options!Init /\ <<setup, who>> \in Calls

ConnectionNext ==
    \/ (Login \/ Staff \/ Tick) /\ UNCHANGED options
    \/ Receive \/ Hear \/ Speak

\* While the channel is open both sides read what has arrived.
ConnectionSpec ==
    ConnectionInit /\ [][ConnectionNext]_allVars /\ WF_allVars(Receive) /\ WF_allVars(Hear)

-----------------------------------------------------------------------------
\* Properties.

\* The variables of both parts hold values of their kinds.
ConnectionTypeOK == TypeOK /\ Options!TypeOK

\* However the bytes are split, the server sees the commands, requests and text
\* the client sent, in order and none of it twice (docstring of IacParser).
ParsedAsSent == Options!ParsedAsSent

\* The negotiation ends on every line that stays open, no answer being answered
\* for ever; then the capabilities are what the client last wanted, and a client
\* that has TTYPE has been asked for its names to the end.
NegotiationSettles == <>[](~ Open \/ (Options!Quiet /\ Options!CapabilitiesSettle))
=============================================================================
