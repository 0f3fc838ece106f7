----------------------------- MODULE SmtpSession -----------------------------
(***************************************************************************)
(* A session of the SMTP server: ServerProtocol::startSession              *)
(* (libs/network/src/smtp/protocol.cpp) reads a command, a line or a piece *)
(* of a message, as Session::state asks for, and gives it to ServerContext *)
(* (libs/network/src/smtp/context.cpp). The virtual handlers of the context *)
(* accept, refuse or throw. Commands that only reply are left out: NOOP,   *)
(* VRFY, EXPN, ETRN, ATRN, STARTTLS, unknown ones, and any command in a    *)
(* state that does not expect it (expectState replies 503).                *)
(***************************************************************************)
EXTENDS Integers, Sequences, FiniteSets, SequencesExt

CONSTANTS Addresses,  \* mail addresses
          Bytes,      \* the bytes that messages are made of
          Bodies,     \* messages, dots stuffed: sequences of bytes
          MaxRcpts,   \* bound: recipients of the session
          MaxMails    \* bound: messages of the session

CR == "r"
LF == "n"
Terminator == <<CR, LF, ".", CR, LF>>

Ends(s) == {i \in 5 .. Len(s) : SubSeq(s, i - 4, i) = Terminator}

(* A client stuffs dots: a line that is a dot, the first one too, is where *)
(* the message ends, only.                                                 *)
ASSUME SmtpAssumption ==
    /\ {CR, LF, "."} \subseteq Bytes /\ Bodies \subseteq Seq(Bytes)
    /\ \A b \in Bodies : Ends(<<CR, LF>> \o b \o Terminator) = {Len(b) + 7}
    /\ {MaxRcpts, MaxMails} \subseteq Nat

VARIABLES
    state,     \* Session::state
    live,      \* startSession has not ended
    from,      \* Session::from
    rcpts,     \* Session::recipients
    term,      \* Session::term, the last bytes received as data
    stored,    \* the file of the message that was begun last
    received,  \* history: the bytes of it that were read
    lost,      \* history: a write of it failed or was short
    message,   \* that message as the client sends it
    wire,      \* the part of it the server has not read
    mails,     \* messages begun
    longest,   \* history: the longest read of data so far, 5 at most
    authed,    \* history: the last answer to a password was 235
    agreed     \* history: the envelope that 250 replies acknowledged

vars == <<state, live, from, rcpts, term, stored, received, lost, message, wire, mails,
          longest, authed, agreed>>

data     == <<term, stored, received, lost, message, wire, mails, longest>>
envelope == <<from, rcpts, agreed>>

NoOne == "none"
NoEnvelope == [from |-> NoOne, to |-> {}]

Init == /\ state = "ExpectHello" /\ live = TRUE
        /\ from = NoOne /\ rcpts = <<>>
        /\ term = <<>> /\ message = <<>> /\ wire = <<>>
        /\ stored = <<>> /\ received = <<>> /\ lost = FALSE
        /\ mails = 0 /\ longest = 0
        /\ authed = FALSE /\ agreed = NoEnvelope

----------------------------------------------------------------------------
(* getNextState: what the server reads next.                               *)

ExpectsCommand ==
    live /\ state \in {"ExpectHello", "ExpectAuth", "ExpectMail", "ExpectRecipient"}
ExpectsLine == live /\ state \in {"AuthExpectUsername", "AuthExpectPassword"}
ExpectsData == live /\ state = "ExpectData"

GoTo(s) == state' = s /\ live' = (live /\ s # "Quit")

(* Session::reset                                                          *)
ClearEnvelope == from' = NoOne /\ rcpts' = <<>> /\ agreed' = NoEnvelope

(* HELO, EHLO: a domain that is missing or not valid ends the session.     *)
Hello ==
    /\ ExpectsCommand
    /\ \/ GoTo("Quit") /\ UNCHANGED envelope
       \/ /\ GoTo(IF state = "ExpectHello" THEN "ExpectAuth" ELSE state)
          /\ ClearEnvelope
    /\ UNCHANGED <<data, authed>>

(* QUIT without an argument.                                               *)
Quit == /\ ExpectsCommand
        /\ ClearEnvelope /\ GoTo("Quit")
        /\ UNCHANGED <<data, authed>>

(* RSET keeps the state: after it, ExpectRecipient has no sender.          *)
Reset == /\ ExpectsCommand
         /\ ClearEnvelope
         /\ UNCHANGED <<state, live, data, authed>>

----------------------------------------------------------------------------
(* AUTH                                                                    *)

(* PLAIN or LOGIN: the name and the password, or one of them, are asked    *)
(* for. With both in the command (PLAIN) the answer to it, 235 or not, is  *)
(* all that happens: the state stays ExpectAuth.                           *)
StartAuth ==
    /\ ExpectsCommand /\ state = "ExpectAuth"
    /\ \/ /\ \/ GoTo("AuthExpectUsername") \/ GoTo("AuthExpectPassword")
          /\ UNCHANGED authed
       \/ authed' \in BOOLEAN /\ UNCHANGED <<state, live>>
    /\ UNCHANGED <<data, envelope>>

Username == /\ ExpectsLine /\ state = "AuthExpectUsername"
            /\ GoTo("AuthExpectPassword")
            /\ UNCHANGED <<data, envelope, authed>>

\* the outcome is not looked at
Password_any ==
    /\ ExpectsLine /\ state = "AuthExpectPassword"
    /\ authed' \in BOOLEAN
    /\ GoTo("ExpectMail")
    /\ UNCHANGED <<data, envelope>>

Password == /\ ExpectsLine /\ state = "AuthExpectPassword"
            /\ authed' \in BOOLEAN
            /\ GoTo(IF authed' THEN "ExpectMail" ELSE "ExpectAuth")
            /\ UNCHANGED <<data, envelope>>

----------------------------------------------------------------------------
(* The envelope. A malformed MAIL FROM line replies, no more.              *)

(* MAIL FROM: onMailFrom accepts, refuses (the sender stays) or throws.    *)
(* The recipients of the message before stay.                              *)
MailFrom(a) ==
    /\ ExpectsCommand /\ state = "ExpectMail" /\ mails < MaxMails
    /\ \/ /\ from' = a /\ GoTo("ExpectRecipient")
          /\ agreed' = [from |-> a, to |-> {}]
       \/ from' \in {a, NoOne} /\ agreed' = NoEnvelope /\ UNCHANGED <<state, live>>
    /\ UNCHANGED <<rcpts, data, authed>>

\* whatever onMailRcpt says, the address that was there before is dropped
RcptTo_replaces(a) ==
    /\ ExpectsCommand /\ state = "ExpectRecipient" /\ Len(rcpts) < MaxRcpts
    /\ rcpts' = <<a>>
    /\ agreed' = [agreed EXCEPT !.to = @ \cup {a}]
    /\ UNCHANGED <<state, live, from, data, authed>>

(* RCPT TO: the line is refused when something follows the address, and    *)
(* taken, with no address, when there is no valid one. The recipient stays *)
(* also when onMailRcpt refuses it, and goes when it throws.               *)
RcptTo(a) ==
    /\ ExpectsCommand /\ state = "ExpectRecipient" /\ Len(rcpts) < MaxRcpts
    /\ rcpts' = Append(rcpts, a)
    /\ agreed' \in {agreed, [agreed EXCEPT !.to = @ \cup {a}]}
    /\ UNCHANGED <<state, live, from, data, authed>>

----------------------------------------------------------------------------
(* The message                                                             *)

(* DATA, answered with 354: no sender and no recipient is required, and    *)
(* the file too may be missing: onDataStart drops what open throws, and it *)
(* is tried again with each part.                                          *)
StartData ==
    /\ ExpectsCommand /\ state = "ExpectRecipient" /\ mails < MaxMails
    /\ GoTo("ExpectData")
    /\ \E b \in Bodies : message' = b \o Terminator /\ wire' = b \o Terminator
    /\ stored' = <<>> /\ received' = <<>> /\ lost' = FALSE
    /\ mails' = mails + 1
    /\ UNCHANGED <<envelope, term, longest, authed>>

LastOf(s, k) == SubSeq(s, Len(s) - k + 1, Len(s))

\* looks at the bytes of the last read only
Window_lastRead(t, chunk) == LastOf(chunk, Min({Len(chunk), 5}))

(* isTermination: as many bytes leave the window as come in, so that it is *)
(* as long as the longest read so far, 5 bytes at most.                    *)
Window(t, chunk) ==
    LET pick == Min({Len(chunk), 5})
    IN  SubSeq(t, pick + 1, Len(t)) \o LastOf(chunk, pick)

Ended(t) == t = Terminator

(* onDataPart appends to the file, the terminator too: all of the part, or *)
(* less of it, when it cannot be opened, the write throws or writes less   *)
(* than it is asked to. None of that is looked at.                         *)
Store(part) ==
    \E n \in 0 .. Len(part) :
        /\ stored' = stored \o SubSeq(part, 1, n)
        /\ lost' = (lost \/ n < Len(part))

(* onData, for a read of any number of bytes. The end of the message is    *)
(* answered with 250, whatever was stored of it.                           *)
ReceiveData(k) ==
    /\ ExpectsData /\ k \in 1 .. Len(wire)
    /\ LET chunk == SubSeq(wire, 1, k)
       IN  /\ term' = Window(term, chunk)
           /\ received' = received \o chunk
           /\ Store(chunk)
    /\ wire' = SubSeq(wire, k + 1, Len(wire))
    /\ longest' = Max({longest, Min({k, 5})})
    /\ GoTo(IF Ended(term') THEN "ExpectMail" ELSE "ExpectData")
    /\ UNCHANGED <<envelope, message, mails, authed>>

(* A read fails or times out (KeepAliveExceeded), or a reply cannot be     *)
(* sent (SmtpProtocolError).                                               *)
Disconnect ==
    /\ live /\ live' = FALSE
    /\ UNCHANGED <<state, envelope, data, authed>>

Next == \/ Hello \/ Quit \/ Reset \/ StartAuth \/ Username \/ Password
        \/ \E a \in Addresses : MailFrom(a) \/ RcptTo(a)
        \/ RcptTo("")
        \/ StartData \/ \E k \in 1 .. Len(wire) : ReceiveData(k)
        \/ Disconnect

Spec == Init /\ [][Next]_vars

----------------------------------------------------------------------------

TypeOK ==
    /\ state \in {"ExpectHello", "ExpectAuth", "AuthExpectUsername", "AuthExpectPassword",
                  "ExpectMail", "ExpectRecipient", "ExpectData", "Quit"}
    /\ state = "Quit" => ~ live
    /\ from \in Addresses \cup {NoOne}
    /\ rcpts \in Seq(Addresses \cup {""}) /\ Len(rcpts) <= MaxRcpts
    /\ Len(term) <= 5 /\ longest \in 0 .. 5
    /\ mails \in 0 .. MaxMails /\ lost \in BOOLEAN

(* Mail is taken from a client only that has given a password which was    *)
(* accepted, whatever greetings and resets came before.                    *)
AuthBeforeMail ==
    state \in {"ExpectMail", "ExpectRecipient", "ExpectData"} => authed

(* However the message is cut into reads, each of its bytes is taken for   *)
(* data once and in order, and the session goes back to commands when      *)
(* there is no byte of it left that would be read as a command.            *)
ReadAsSent ==
    /\ received \o wire = message
    /\ ExpectsCommand => wire = <<>>

(* The file holds what was read, byte for byte, as long as the writes do   *)
(* what they are asked to, also when they failed for a message before.     *)
StoredAsRead == ~ lost => stored = received

(* A message that was received completely is over, unless every read of    *)
(* the session so far was shorter than the terminator.                     *)
StuckOnlyIfShort ==
    (state = "ExpectData" /\ wire = <<>>) => longest < 5

(* Messages are told apart from commands: the state is well-formed, what   *)
(* is read as data is what was sent, it is stored unless a write failed,   *)
(* and the end of a message is missed only if all reads were short.        *)
MessageFramed == TypeOK /\ ReadAsSent /\ StoredAsRead /\ StuckOnlyIfShort

(* The message is handed over with the sender and all the recipients that  *)
(* were acknowledged for it (and, as the list is never cleared after a     *)
(* message, with those of the messages before).                            *)
EnvelopeKept ==
    state \in {"ExpectRecipient", "ExpectData"} =>
        /\ from = agreed.from
        /\ agreed.to \subseteq ToSet(rcpts)
==============================================================================
