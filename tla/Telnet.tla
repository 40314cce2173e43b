------------------------------- MODULE Telnet -------------------------------
(***************************************************************************)
(* Telnet options inside an SSH channel (moo/shell/iac.py, fed by          *)
(* `data_received` of moo/shell/server.py).  The server makes its offers,  *)
(* takes bytes in chunks of any size through `IacParser`, answers each     *)
(* event by `IacNegotiator`, and passes the other bytes on as text.        *)
(* Options, names and letters stand for one byte each.  The client is a    *)
(* telnet client by the rules of RFC 1143: it answers what would change an *)
(* option and nothing else, and after a change of its own mind it waits    *)
(* for the answer before the next one about that option.                   *)
(***************************************************************************)
EXTENDS Naturals, Sequences, FiniteSets, SequencesExt

CONSTANTS Clients,   \* the clients of an instance, see ClientType
          Chunks     \* the sizes in which a channel delivers bytes

OFFER == {"GMCP", "MSSP", "MSP", "EOR", "CHARSET"}      \* _WE_OFFER

ACCEPT_CLIENT == {"TTYPE", "NAWS", "CHARSET"}           \* _WE_ACCEPT_CLIENT

Option == OFFER \cup ACCEPT_CLIENT \cup {"SGA"}

Command == {"WILL", "WONT", "DO", "DONT"}

(***************************************************************************)
(* likes: what it lets the server enable; does: what it enables itself;    *)
(* names: its answers to TTYPE SEND, the last one repeated; says: what it  *)
(* sends of itself, each at most once, in any order.                       *)
(***************************************************************************)
ClientType == [likes : SUBSET OFFER, does : SUBSET Option,
               names : Seq(STRING), says : SUBSET Seq(STRING)]

VARIABLES who,      \* the client, chosen once
          down,     \* frames to the client
          up,       \* bytes to the server
          parser,   \* IacParser
          neg,      \* IacNegotiator
          lets,     \* lets[o]: the client's last word on the server's option o
          has,      \* the options the client has enabled itself
          waits,    \* its changes of mind that have not been answered
          next,     \* position in names of its next answer
          left,     \* what it has not said yet of itself
          owed,     \* ghost: events and text that were sent and are not parsed yet
          garbled,  \* ghost: something else was parsed
          typed     \* text has been passed on

server == <<parser, neg>>
client == <<lets, has, waits, next, left>>
ghosts == <<owed, garbled, typed>>
vars == <<who, down, up, server, client, ghosts>>

-----------------------------------------------------------------------------
\* Frames, and the bytes they are encoded in.  255 in data is doubled.

Cmd(c, o) == [kind |-> "cmd", cmd |-> c, opt |-> o, data |-> <<>>]

Sb(o, data) == [kind |-> "sb", cmd |-> "SB", opt |-> o, data |-> data]

Escaped(data) == FlattenSeq([i \in DOMAIN data |->
                    IF data[i] = "IAC" THEN <<"IAC", "IAC">> ELSE <<data[i]>>])

EncodeCmd(f) == <<"IAC", f.cmd, f.opt>>

EncodeSb(f) == <<"IAC", "SB", f.opt>> \o Escaped(f.data) \o <<"IAC", "SE">>

Encode(f) == IF f.kind = "cmd" THEN EncodeCmd(f) ELSE EncodeSb(f)

-----------------------------------------------------------------------------
\* IacParser.feed, one byte.

NewParser == [state |-> "NORMAL", cmd |-> "", opt |-> "", buf |-> <<>>]

Parsing(p, events, text) == [parser |-> p, events |-> events, text |-> text]

\* The byte after IAC outside of a payload.
AfterIac(r, byte) ==
    LET to(state) == [r EXCEPT !.parser.state = state]
    IN  IF byte = "IAC" THEN [to("NORMAL") EXCEPT !.text = Append(@, "IAC")]
        ELSE IF byte \in Command THEN [to("IAC_CMD") EXCEPT !.parser.cmd = byte]
        ELSE IF byte = "SB" THEN to("SB_OPT")
        ELSE to("NORMAL")   \* GA, EOR and the like mean nothing to the negotiator

\* Mutant of AfterSbIac: a doubled 255 ends the payload.
AfterSbIacAborting(r, byte) ==
    [r EXCEPT !.parser = NewParser,
              !.events = IF byte = "SE" THEN Append(@, Sb(r.parser.opt, r.parser.buf)) ELSE @]

\* The byte after IAC in a payload: a doubled 255, the end, or an aborted frame.
AfterSbIac(r, byte) ==
    IF byte = "IAC"
    THEN [r EXCEPT !.parser.buf = Append(@, "IAC"), !.parser.state = "SB_PAYLOAD"]
    ELSE [r EXCEPT !.parser = NewParser,
                   !.events = IF byte = "SE" THEN Append(@, Sb(r.parser.opt, r.parser.buf)) ELSE @]

ParseByte(r, byte) ==
    CASE r.parser.state = "NORMAL" ->
            IF byte = "IAC" THEN [r EXCEPT !.parser.state = "IAC"]
                            ELSE [r EXCEPT !.text = Append(@, byte)]
      [] r.parser.state = "IAC" -> AfterIac(r, byte)
      [] r.parser.state = "IAC_CMD" ->
            [r EXCEPT !.events = Append(@, Cmd(r.parser.cmd, byte)), !.parser = NewParser]
      [] r.parser.state = "SB_OPT" ->
            [r EXCEPT !.parser.opt = byte, !.parser.buf = <<>>, !.parser.state = "SB_PAYLOAD"]
      [] r.parser.state = "SB_PAYLOAD" ->
            IF byte = "IAC" THEN [r EXCEPT !.parser.state = "SB_IAC"]
                            ELSE [r EXCEPT !.parser.buf = Append(@, byte)]
      [] r.parser.state = "SB_IAC" -> AfterSbIac(r, byte)

Parse(p, bytes) == FoldLeft(ParseByte, Parsing(p, <<>>, <<>>), bytes)

-----------------------------------------------------------------------------
\* IacNegotiator.handle: the negotiator after an event, and its reply.

NewNegotiator == [caps |-> {}, stage |-> 0, last |-> "", name |-> "", reply |-> <<>>]

Reply(n, frames) == [n EXCEPT !.reply = @ \o frames]

\* Mutant of HandleCmd: a DO or DONT is confirmed although the offer was made.
HandleCmdConfirming(n, c, o) ==
    CASE c = "DO" -> [Reply(n, <<Cmd("WILL", o)>>) EXCEPT !.caps = @ \cup {o} ]
      [] c = "DONT" -> Reply(n, <<Cmd("WONT", o)>>)
      [] c = "WILL" -> Reply([n EXCEPT !.stage = 1], <<Cmd("DO", o), Sb("TTYPE", <<"SEND">>)>>)
      [] c = "WONT" -> Reply(n, <<Cmd("DONT", o)>>)

HandleCmd(n, c, o) ==
    CASE c = "DO" ->
            IF o \in OFFER THEN [n EXCEPT !.caps = @ \cup {o}] ELSE Reply(n, <<Cmd("WONT", o)>>)
      [] c = "DONT" ->
            Reply([n EXCEPT !.caps = @ \ ({o} \cap OFFER)],
                  IF o \in OFFER THEN <<Cmd("WONT", o)>> ELSE <<>>)
      [] c = "WILL" ->
            IF o = "TTYPE"
            THEN Reply([n EXCEPT !.stage = 1], <<Cmd("DO", o), Sb("TTYPE", <<"SEND">>)>>)
            ELSE Reply(n, <<Cmd(IF o \in ACCEPT_CLIENT THEN "DO" ELSE "DONT", o)>>)
      [] c = "WONT" -> Reply(n, <<Cmd("DONT", o)>>)

Finalized(n) == [n EXCEPT !.caps = @ \cup {"TTYPE"}, !.stage = 0]

\* Mutant of HandleTtype: a repeated name is not taken as the last one.
HandleTtypeAsking(n, data) ==
    CASE data = <<>> \/ Head(data) # "IS" -> n
      [] OTHER -> Reply([n EXCEPT !.name = IF n.stage = 1 THEN Last(data) ELSE @,
                                  !.stage = 2], <<Sb("TTYPE", <<"SEND">>)>>)

\* The three stages of MTTS: name, terminal, bitfield.
HandleTtype(n, data) ==
    LET value == Last(data)
        ask(stage) == Reply([n EXCEPT !.last = value, !.stage = stage],
                            <<Sb("TTYPE", <<"SEND">>)>>)
    IN  CASE data = <<>> \/ Head(data) # "IS" -> n
          [] n.stage = 1 -> [ask(2) EXCEPT !.name = value]
          [] n.stage = 2 -> IF value = n.last THEN Finalized(n) ELSE ask(3)
          [] n.stage = 3 -> Finalized(n)
          [] OTHER -> n

HandleCharset(n, data) ==
    CASE data = <<>> \/ Head(data) # "REQUEST" -> n
      [] "UTF-8" \in ToSet(data) ->
            Reply([n EXCEPT !.caps = @ \cup {"CHARSET"}], <<Sb("CHARSET", <<"ACCEPTED">>)>>)
      [] OTHER -> Reply(n, <<Sb("CHARSET", <<"REJECTED">>)>>)

\* GMCP goes to the shell and has no reply.
HandleSb(n, o, data) ==
    CASE o = "TTYPE" -> HandleTtype(n, data)
      [] o = "MSSP" -> Reply(n, <<Sb("MSSP", <<"VALUES">>)>>)
      [] o = "CHARSET" -> HandleCharset(n, data)
      [] OTHER -> n

Handle(n, f) == IF f.kind = "cmd" THEN HandleCmd(n, f.cmd, f.opt) ELSE HandleSb(n, f.opt, f.data)

-----------------------------------------------------------------------------
\* The server's steps.

InitialOffers ==
    <<Cmd("WILL", "GMCP"), Cmd("WILL", "MSSP"), Cmd("WILL", "MSP"), Cmd("WILL", "EOR"),
      Cmd("WILL", "CHARSET"), Cmd("WONT", "SGA"), Cmd("DO", "TTYPE"), Cmd("DO", "NAWS")>>

\* Ghost: what is parsed must be what is owed next.
Settle(r) ==
    /\ owed' = [events |-> SubSeq(owed.events, Len(r.events) + 1, Len(owed.events)),
                text |-> SubSeq(owed.text, Len(r.text) + 1, Len(owed.text))]
    /\ garbled' = \/ garbled
                  \/ ~ IsPrefix(r.events, owed.events)
                  \/ ~ IsPrefix(r.text, owed.text)

\* data_received: a chunk of what has arrived.
DataReceived ==
    /\ up # <<>>
    /\ \E size \in Chunks :
          LET n == IF size < Len(up) THEN size ELSE Len(up)
              r == Parse(parser, SubSeq(up, 1, n))
              m == FoldLeft(Handle, neg, r.events)
          IN  /\ parser' = r.parser
              /\ neg' = [m EXCEPT !.reply = <<>>]
              /\ down' = down \o m.reply
              /\ typed' = (typed \/ r.text # <<>>)
              /\ Settle(r)
              /\ up' = SubSeq(up, n + 1, Len(up))
    /\ UNCHANGED <<who, client>>

-----------------------------------------------------------------------------
\* The client.

Send(frames) ==
    /\ up' = up \o FlattenSeq([i \in DOMAIN frames |-> Encode(frames[i])])
    /\ owed' = [owed EXCEPT !.events = @ \o frames]

Lets(o, word) == lets' = [lets EXCEPT ![o] = word]

\* An offer is taken or refused once, a withdrawal is confirmed.
HearOffer(f) ==
    /\ f.kind = "cmd" /\ f.cmd \in {"WILL", "WONT"}
    /\ waits' = waits \ {<<"peer", f.opt>>}
    /\ \/ /\ f.cmd = "WILL" /\ lets[f.opt] # "DO"
          /\ LET word == IF f.opt \in who.likes THEN "DO" ELSE "DONT"
             IN  Lets(f.opt, word) /\ Send(<<Cmd(word, f.opt)>>)
       \/ /\ f.cmd = "WONT" /\ lets[f.opt] = "DO" /\ <<"peer", f.opt>> \notin waits
          /\ Lets(f.opt, "DONT") /\ Send(<<Cmd("DONT", f.opt)>>)
       \/ /\ \/ (f.cmd = "WILL") = (lets[f.opt] = "DO")
             \/ <<"peer", f.opt>> \in waits
          /\ UNCHANGED <<lets, up, owed>>
    /\ UNCHANGED <<has, next>>

\* A demand is followed or refused, a prohibition obeyed.
HearDemand(f) ==
    /\ f.kind = "cmd" /\ f.cmd \in {"DO", "DONT"}
    /\ <<"own", f.opt>> \notin waits
    /\ \/ /\ f.cmd = "DO" /\ f.opt \in who.does \ has
          /\ has' = has \cup {f.opt} /\ next' = 1 /\ Send(<<Cmd("WILL", f.opt)>>)
       \/ /\ f.cmd = "DO" /\ f.opt \notin who.does \cup has
          /\ UNCHANGED <<has, next>> /\ Send(<<Cmd("WONT", f.opt)>>)
       \/ /\ f.cmd = "DONT" /\ f.opt \in has
          /\ has' = has \ {f.opt} /\ UNCHANGED next /\ Send(<<Cmd("WONT", f.opt)>>)
       \/ /\ (f.cmd = "DO") = (f.opt \in has)
          /\ UNCHANGED <<has, next, up, owed>>
    /\ UNCHANGED <<lets, waits>>

HearAnswer(f) ==
    /\ f.kind = "cmd" /\ f.cmd \in {"DO", "DONT"}
    /\ <<"own", f.opt>> \in waits
    /\ waits' = waits \ {<<"own", f.opt>>}
    /\ has' = IF f.cmd = "DONT" THEN has \ {f.opt} ELSE has
    /\ UNCHANGED <<lets, next, up, owed>>

HearRequest(f) ==
    /\ f.kind = "sb"
    /\ IF f.opt = "TTYPE" /\ "TTYPE" \in has
       THEN /\ Send(<<Sb("TTYPE", <<"IS", who.names[next]>>)>>)
            /\ next' = IF next < Len(who.names) THEN next + 1 ELSE next
       ELSE UNCHANGED <<up, owed, next>>
    /\ UNCHANGED <<lets, has, waits>>

Hear ==
    /\ down # <<>>
    /\ down' = Tail(down)
    /\ \/ HearOffer(Head(down)) \/ HearDemand(Head(down))
       \/ HearAnswer(Head(down)) \/ HearRequest(Head(down))
    /\ UNCHANGED <<who, server, left, garbled, typed>>

\* It changes its mind about an option of the server,
Say(word, o) ==
    /\ word \in {"DO", "DONT"} /\ lets[o] \notin {word, "none"}
    /\ <<"peer", o>> \notin waits /\ waits' = waits \cup {<<"peer", o>>}
    /\ Lets(o, word)
    /\ Send(<<Cmd(word, o)>>)
    /\ UNCHANGED <<has, next>>

\* or about one of its own,
Announce(word, o) ==
    /\ word \in {"WILL", "WONT"} /\ (o \in has) # (word = "WILL")
    /\ <<"own", o>> \notin waits /\ waits' = waits \cup {<<"own", o>>}
    /\ has' = IF word = "WILL" THEN has \cup {o} ELSE has \ {o}
    /\ next' = 1
    /\ Send(<<Cmd(word, o)>>)
    /\ UNCHANGED lets

\* asks for MSSP values or a character set, sends GMCP,
Ask(o, data) ==
    /\ o \in OFFER /\ lets[o] = "DO"
    /\ Send(<<Sb(o, data)>>)
    /\ UNCHANGED <<lets, has, waits, next>>

\* or has something typed.
TypeText(data) ==
    /\ up' = up \o Escaped(data)
    /\ owed' = [owed EXCEPT !.text = @ \o data]
    /\ UNCHANGED <<lets, has, waits, next>>

Speak ==
    /\ \E w \in left :
          /\ left' = left \ {w}
          /\ \/ w[1] \in Command /\ (Say(w[1], w[2]) \/ Announce(w[1], w[2]))
             \/ w[1] \in OFFER /\ Ask(w[1], Tail(w))
             \/ w[1] = "text" /\ TypeText(Tail(w))
    /\ UNCHANGED <<who, down, server, garbled, typed>>

-----------------------------------------------------------------------------

Init ==
    /\ who \in Clients
    /\ down = InitialOffers
    /\ up = <<>>
    /\ parser = NewParser
    /\ neg = NewNegotiator
    /\ lets = [o \in Option |-> "none"]
    /\ has = {}
    /\ waits = {}
    /\ next = 1
    /\ left = who.says
    /\ owed = [events |-> <<>>, text |-> <<>>]
    /\ garbled = FALSE
    /\ typed = FALSE

Next == DataReceived \/ Hear \/ Speak

Spec == Init /\ [][Next]_vars

-----------------------------------------------------------------------------
\* Properties.

\* The variables hold values of their kinds.
TypeOK ==
    /\ who \in Clients
    /\ parser.state \in {"NORMAL", "IAC", "IAC_CMD", "SB_OPT", "SB_PAYLOAD", "SB_IAC"}
    /\ neg.caps \subseteq OFFER \cup {"TTYPE"}
    /\ neg.stage \in 0..3
    /\ lets \in [Option -> {"none", "DO", "DONT"}]
    /\ has \subseteq Option
    /\ waits \subseteq {"own", "peer"} \X Option
    /\ next \in 1..Len(who.names)

Quiet == down = <<>> /\ up = <<>>

\* However the bytes are split, the server sees the commands, requests and text
\* the client sent, in order and none of it twice, a 255 included; when all is
\* read nothing is missing (docstring of IacParser: partial frames are buffered).
ParsedAsSent ==
    /\ ~ garbled
    /\ up = <<>> => owed = [events |-> <<>>, text |-> <<>>]

\* When nothing is under way, the capabilities are the options on which the
\* client's last word was DO, and a client that has TTYPE has been asked for its
\* names to the end.
CapabilitiesSettle ==
    Quiet => /\ \A o \in OFFER : o \in neg.caps <=> lets[o] = "DO"
             /\ "TTYPE" \in has => /\ "TTYPE" \in neg.caps
                                   /\ neg.stage = 0
                                   /\ neg.name = who.names[1]
=============================================================================
