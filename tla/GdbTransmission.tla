-------------------------- MODULE GdbTransmission --------------------------
(***************************************************************************)
(* The connection to gdb, character by character: the rules of scanner.l,  *)
(* gdb_packet_analysis and gdb_send_buffer with their checksums,           *)
(* acknowledgements and retransmissions, and rio_writen, which writes a    *)
(* packet in pieces.  What a handler does is left to Answer.  gdb, which   *)
(* follows the same protocol, and the line between the two, which garbles  *)
(* characters, are the environment.                                        *)
(***************************************************************************)
EXTENDS Naturals, Sequences, SequencesExt

CONSTANTS Requests,          \* the contents of the packets that gdb sends
          Handlers,          \* the letters that have a handler
          Answer(_),         \* what the last of a sequence of executions answers
          Garbles,           \* what the line turns a character into
          MAX_PACKET_SIZE,   \* 1024 in gdb_protocol.c
          MAX_ERROR_SIZE,    \* 1024 in scanner.l
          MaxRequests,       \* bound: requests asked
          MaxFaults,         \* bound: garbled packets
          MaxStrays          \* bound: characters outside of every packet

(* The characters of the protocol, by their codes.                         *)
Dollar == 36
Hash   == 35
Ack    == 43
Nak    == 45
Stray  == 3      \* the interrupt of gdb, which the scanner does not know

HexChar(d) == IF d < 10 THEN 48 + d ELSE 87 + d
HexDigits  == 48..57 \cup 97..102 \cup 65..70
HexValue(c) == CASE c \in 48..57 -> c - 48 [] c \in 97..102 -> c - 87 [] OTHER -> c - 55

(* The characters of the content of a packet.                              *)
Plain == {c \in Nat : c < 256} \ {Dollar, Hash}

ASSUME TransmissionAssumption ==
    /\ Requests \subseteq Seq(Plain) \ {<<>>}
    /\ Garbles \subseteq HexDigits
    /\ MAX_PACKET_SIZE \in Nat /\ MAX_ERROR_SIZE \in Nat \ {0, 1}
    /\ MaxRequests \in Nat /\ MaxFaults \in Nat /\ MaxStrays \in Nat

VARIABLES toServer, toClient,      \* the two directions of the connection
          server, request, left,   \* the gdb thread: place, packet, what is left to write
          errors,                  \* parser_data.len
          packet,                  \* the last packet sent, up to its NUL
          asked, executed, answered,
          client, sent,            \* gdb: place, the packet it may have to repeat
          faults, strays, ended

lineVars   == <<toServer, toClient>>
serverVars == <<server, request, left, errors, packet, executed, ended>>
clientVars == <<client, sent, asked, answered, strays>>
txVars     == <<lineVars, serverVars, clientVars, faults>>

TxInit ==
    /\ toServer = <<>> /\ toClient = <<>>
    /\ server = "scan" /\ request = <<>> /\ left = <<>> /\ errors = 0 /\ packet = <<>>
    /\ asked = <<>> /\ executed = <<>> /\ answered = <<>>
    /\ client = "idle" /\ sent = <<>>
    /\ faults = 0 /\ strays = 0 /\ ended = FALSE

----------------------------------------------------------------------------
(* Packets. *)

(* unsigned char check, after each character.                              *)
Sums(data) ==
    LET check[i \in 0..Len(data)] == IF i = 0 THEN 0 ELSE (check[i - 1] + data[i]) % 256
    IN  check

Check(data) == Sums(data)[Len(data)]

gdb_send_buffer(data) ==
    LET check == Check(data)
    IN  <<Dollar>> \o data \o <<Hash, HexChar(check \div 16), HexChar(check % 16)>>

(* The content of a packet, and whether its checksum is the given one.     *)
Content(p) == SubSeq(p, 2, Len(p) - 3)
CheckOk(p) == Check(Content(p)) = 16 * HexValue(p[Len(p) - 1]) + HexValue(p[Len(p)])

(* The first token of s, by the rules of scanner.l: its kind and length.   *)
(* "more" is the text that may still become a packet.  (A newline outside  *)
(* of a packet, which gdb never sends, matches no rule: flex echoes it.)   *)
Token(s, eof) ==
    LET mark == 1 + SelectInSeq(Tail(s), LAMBDA c : c \in {Dollar, Hash})
        hash == mark > 1 /\ s[mark] = Hash
        hex(i) == i <= Len(s) => s[i] \in HexDigits
        of(kind, n) == [kind |-> kind, length |-> n]
    IN  CASE s[1] = Ack    -> of("ack", 1)
          [] s[1] = Nak    -> of("nak", 1)
          [] s[1] \notin {Ack, Nak, Dollar} -> of("junk", 1)
          [] OTHER ->
             IF hash /\ mark + 2 <= Len(s) /\ hex(mark + 1) /\ hex(mark + 2)
             THEN of("packet", mark + 2)
             ELSE IF ~eof /\ (mark = 1 \/ (hash /\ hex(mark + 1) /\ hex(mark + 2)))
             THEN of("more", 0)
             ELSE of("junk", 1)

----------------------------------------------------------------------------
(* The gdb thread. *)

(* mutant: the characters that a short write left are forgotten *)
RioWritenOnce ==
    /\ ~ended /\ left # <<>>
    /\ \E n \in 1..Len(left) :
          /\ left' = <<>>
          /\ toClient' = IF client = "closed" THEN toClient ELSE toClient \o SubSeq(left, 1, n)
    /\ UNCHANGED <<toServer, server, request, errors, packet, executed, ended, clientVars, faults>>

(* One turn of the loop of rio_writen; a write that is interrupted changes *)
(* nothing and is tried again.                                             *)
rio_writen ==
    /\ ~ended /\ left # <<>>
    /\ \E n \in 1..Len(left) :
          /\ left' = SubSeq(left, n + 1, Len(left))
          /\ toClient' = IF client = "closed" THEN toClient ELSE toClient \o SubSeq(left, 1, n)
    /\ UNCHANGED <<toServer, server, request, errors, packet, executed, ended, clientVars, faults>>

(* Once gdb has gone, a write may fail: Rio_writen, unix_error, exit.      *)
WriteFails ==
    /\ ~ended /\ left # <<>> /\ client = "closed"
    /\ ended' = TRUE
    /\ UNCHANGED <<lineVars, server, request, left, errors, packet, executed, clientVars, faults>>

Eof == client = "closed"

handle_error == IF errors > 0 THEN <<Nak>> ELSE <<>>

(* The scanner, which has nothing left to write, takes a token.            *)
Scan(kind) ==
    /\ ~ended /\ server = "scan" /\ left = <<>> /\ toServer # <<>>
    /\ Token(toServer, Eof).kind = kind
    /\ toServer' = SubSeq(toServer, Token(toServer, Eof).length + 1, Len(toServer))
    /\ UNCHANGED <<toClient, packet, executed, ended, clientVars, faults>>

Taken == SubSeq(toServer, 1, Token(toServer, Eof).length)

ScanAck ==
    /\ Scan("ack") /\ left' = handle_error /\ errors' = 0
    /\ UNCHANGED <<server, request>>

(* mutant: the request for retransmission runs the handler again *)
NakExecutesAgain ==
    /\ Scan("nak") /\ left' = handle_error /\ errors' = 0 /\ server' = "handle"
    /\ UNCHANGED request

(* mutant: the repeated packet is acknowledged like a new one *)
NakAcknowledges ==
    /\ Scan("nak") /\ left' = handle_error \o <<Ack>> \o packet /\ errors' = 0
    /\ UNCHANGED <<server, request>>

ScanNak ==
    /\ Scan("nak") /\ left' = handle_error \o packet /\ errors' = 0
    /\ UNCHANGED <<server, request>>

add_character_to_error ==
    /\ Scan("junk")
    /\ IF errors > MAX_ERROR_SIZE - 2
       THEN left' = handle_error /\ errors' = 1
       ELSE left' = <<>> /\ errors' = errors + 1
    /\ UNCHANGED <<server, request>>

gdb_packet_analysis ==
    /\ Scan("packet") /\ errors' = 0
    /\ IF CheckOk(Taken)
       THEN left' = handle_error \o <<Ack>> /\ server' = "handle" /\ request' = Content(Taken)
       ELSE left' = handle_error \o <<Nak>> /\ UNCHANGED <<server, request>>

(* What is sent after the last of a sequence of executions: the empty      *)
(* answer if there is no handler.                                          *)
Reply(executions) ==
    IF Head(Last(executions)) \in Handlers THEN Answer(executions) ELSE <<>>

(* The answer is left in the buffer as a packet, and sent.                 *)
Handle ==
    /\ ~ended /\ server = "handle" /\ left = <<>>
    /\ executed' = Append(executed, request)
    /\ packet' = gdb_send_buffer(Reply(executed'))
    /\ left' = packet' /\ server' = "scan"
    /\ UNCHANGED <<lineVars, request, errors, ended, clientVars, faults>>

ScanEof ==
    /\ ~ended /\ server = "scan" /\ left = <<>> /\ toServer = <<>> /\ Eof
    /\ left' = handle_error /\ errors' = 0 /\ server' = "exited"
    /\ UNCHANGED <<lineVars, request, packet, executed, ended, clientVars, faults>>

(* The packet and its NUL are inside the buffer.  Nothing in the code sees *)
(* to it (Simulator, PacketFits); what comes after an overrun is not       *)
(* followed.                                                               *)
Intact == Len(packet) + 1 <= MAX_PACKET_SIZE

gdb_scanner ==
    /\ Intact
    /\ \/ rio_writen \/ WriteFails
       \/ ScanAck \/ ScanNak \/ add_character_to_error \/ gdb_packet_analysis \/ Handle \/ ScanEof

----------------------------------------------------------------------------
(* The environment. *)

(* What the line may make of a packet: one character of its content or of  *)
(* its checksum garbled.                                                   *)
Garbled(p) ==
    {[p EXCEPT ![i] = c] : i \in 2..Len(p) \ {Len(p) - 2}, c \in Garbles} \ {p}

(* Packet p arrives as seen.                                               *)
Arrives(p, seen) ==
    \/ seen = p /\ UNCHANGED faults
    \/ faults < MaxFaults /\ seen \in Garbled(p) /\ faults' = faults + 1

SendPacket(p) ==
    \E seen \in {p} \cup Garbled(p) : Arrives(p, seen) /\ toServer' = toServer \o seen

ClientAsks(r) ==
    /\ client = "idle" /\ Len(asked) < MaxRequests
    /\ asked' = Append(asked, r) /\ sent' = gdb_send_buffer(r) /\ client' = "acking"
    /\ SendPacket(sent')
    /\ UNCHANGED <<toClient, serverVars, answered, strays>>

ClientTakesAck ==
    /\ client = "acking" /\ toClient # <<>> /\ Head(toClient) = Ack
    /\ toClient' = Tail(toClient) /\ client' = "waiting"
    /\ UNCHANGED <<toServer, serverVars, sent, asked, answered, strays, faults>>

ClientRepeats ==
    /\ client = "acking" /\ toClient # <<>> /\ Head(toClient) = Nak
    /\ toClient' = Tail(toClient) /\ SendPacket(sent)
    /\ UNCHANGED <<serverVars, clientVars>>

(* gdb takes a whole packet from the connection.                           *)
TakesPacket(p) ==
    /\ toClient # <<>> /\ Head(toClient) = Dollar
    /\ Token(toClient, FALSE).kind = "packet"
    /\ p = SubSeq(toClient, 1, Token(toClient, FALSE).length)
    /\ toClient' = SubSeq(toClient, Len(p) + 1, Len(toClient))

ClientTakesAnswer ==
    /\ client = "waiting"
    /\ \E p \in {SubSeq(toClient, 1, n) : n \in 1..Len(toClient)} :
          /\ TakesPacket(p)
          /\ \E seen \in {p} \cup Garbled(p) :
                /\ Arrives(p, seen)
                /\ IF CheckOk(seen)
                   THEN /\ toServer' = Append(toServer, Ack) /\ client' = "idle"
                        /\ answered' = Append(answered, Content(seen))
                   ELSE toServer' = Append(toServer, Nak) /\ UNCHANGED <<client, answered>>
    /\ UNCHANGED <<serverVars, sent, asked, strays>>

(* Waiting for an answer gdb passes over what is not a packet; waiting for *)
(* an acknowledgement it acknowledges and drops a packet.                  *)
ClientSkips ==
    /\ client = "waiting" /\ toClient # <<>> /\ Head(toClient) # Dollar
    /\ toClient' = Tail(toClient)
    /\ UNCHANGED <<toServer, serverVars, clientVars, faults>>

ClientDrops ==
    /\ client = "acking"
    /\ \E p \in {SubSeq(toClient, 1, n) : n \in 1..Len(toClient)} : TakesPacket(p)
    /\ toServer' = Append(toServer, Ack)
    /\ UNCHANGED <<serverVars, clientVars, faults>>

(* The user interrupts a command that takes long.                          *)
ClientInterrupts ==
    /\ client = "waiting" /\ strays < MaxStrays
    /\ toServer' = Append(toServer, Stray) /\ strays' = strays + 1
    /\ UNCHANGED <<toClient, serverVars, client, sent, asked, answered, faults>>

ClientCloses ==
    /\ client # "closed"
    /\ client' = "closed" /\ toClient' = <<>>
    /\ UNCHANGED <<toServer, serverVars, sent, asked, answered, strays, faults>>

ClientReads ==
    ClientTakesAck \/ ClientRepeats \/ ClientTakesAnswer \/ ClientSkips \/ ClientDrops

Client ==
    \/ \E r \in Requests : ClientAsks(r)
    \/ ClientReads \/ ClientInterrupts \/ ClientCloses

TxNext == gdb_scanner \/ Client

(* The gdb thread is scheduled, and gdb reads what has arrived.            *)
TxSpec == TxInit /\ [][TxNext]_txVars /\ WF_txVars(gdb_scanner) /\ WF_txVars(ClientReads)

----------------------------------------------------------------------------
(* However a packet is cut by short writes and repeated, what gdb finds on *)
(* the connection is what the protocol has it expect: nothing, an          *)
(* acknowledgement, or a packet that starts.                               *)
StreamIsUnderstood ==
    strays = 0 =>
        /\ client = "idle" => toClient = <<>>
        /\ client = "acking" /\ toClient # <<>> => Head(toClient) \in {Ack, Nak}
        /\ client = "waiting" /\ toClient # <<>> => Head(toClient) = Dollar

(* Whatever the line garbles, each request is executed once and answered   *)
(* with the result of that execution, as long as no stray character        *)
(* arrives.                                                                *)
Abstract == INSTANCE RequestReply WITH Answer <- Reply, disturbed <- (strays > 0)
ImplementsRequestReply == Abstract!RRSpec

(* Every request is answered: neither side waits for the other for ever.   *)
RequestsAnswered == (client \in {"acking", "waiting"}) ~> (client \in {"idle", "closed"})

(* scanner.l, handle_error: "gdb protocol error, invalid data : %s,        *)
(* requiring retransmission": only what was invalid is transmitted again.  *)
AcceptedOnce == Len(executed) <= Len(asked)
============================================================================
