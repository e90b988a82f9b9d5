------------------------ MODULE TransmissionProofs ------------------------
(***************************************************************************)
(* The dialogue with gdb, character by character, for every set of         *)
(* requests, whatever the handlers answer, and however often the line      *)
(* garbles a packet.                                                       *)
(***************************************************************************)
EXTENDS GdbTransmission, SequenceTheorems, WellFoundedInduction, TLAPS

(* The handlers answer with characters that do not look like a frame: hex  *)
(* digits and fixed texts.                                                 *)
AnswersArePlain == \A e \in Seq(Requests) \ {<<>>} : Answer(e) \in Seq(Plain)

(* A framed packet, whatever its checksum.                                 *)
IsPacket(p) ==
    /\ p \in Seq(Nat) /\ Len(p) >= 4
    /\ p[1] = Dollar /\ p[Len(p) - 2] = Hash
    /\ p[Len(p) - 1] \in HexDigits /\ p[Len(p)] \in HexDigits
    /\ \A i \in 2..(Len(p) - 3) : p[i] \notin {Dollar, Hash}

Line == toServer \in Seq(Nat) /\ toClient \in Seq(Nat) /\ left \in Seq(Nat)

(* The dialogue while gdb is there and has sent no stray character.        *)
Quiet ==
    /\ client = "idle" /\ server = "scan" /\ left = <<>> /\ toClient = <<>>
    /\ toServer \in {<<>>, <<Ack>>} /\ Len(asked) = Len(executed)

(* A request is on its way, perhaps behind the acknowledgement of the last *)
(* answer.                                                                 *)
Asking ==
    /\ client = "acking" /\ server = "scan" /\ left = <<>> /\ toClient = <<>>
    /\ IsPacket(sent) /\ Len(asked) = Len(executed) + 1
    /\ \/ IsPacket(toServer)
       \/ toServer # <<>> /\ Head(toServer) = Ack /\ IsPacket(Tail(toServer))

(* The checksum was wrong.                                                 *)
Rejecting ==
    /\ client = "acking" /\ server = "scan" /\ toServer = <<>> /\ IsPacket(sent)
    /\ toClient \o left = <<Nak>> /\ Len(asked) = Len(executed) + 1

Accepting ==
    /\ server = "handle" /\ toServer = <<>> /\ Len(asked) = Len(executed) + 1
    /\ \/ client = "acking" /\ toClient \o left = <<Ack>>
       \/ client = "waiting" /\ toClient = <<>> /\ left = <<>>

Answering ==
    /\ server = "scan" /\ toServer = <<>> /\ IsPacket(packet)
    /\ packet = gdb_send_buffer(Reply(executed)) /\ Len(asked) = Len(executed)
    /\ \/ client = "acking" /\ toClient \o left = <<Ack>> \o packet
       \/ client = "waiting" /\ toClient \o left = packet

(* The answer was garbled, and gdb wants it again.                         *)
Complaining ==
    /\ client = "waiting" /\ server = "scan" /\ toServer = <<Nak>> /\ IsPacket(packet)
    /\ packet = gdb_send_buffer(Reply(executed)) /\ Len(asked) = Len(executed)
    /\ toClient = <<>> /\ left = <<>>

Talk ==
    /\ errors = 0 /\ Line
    /\ Quiet \/ Asking \/ Rejecting \/ Accepting \/ Answering \/ Complaining

Undisturbed == strays = 0 /\ client # "closed"

(* Packet p is in s, from place i on.                                      *)
At(s, i, p) == i + Len(p) - 1 <= Len(s) /\ \A j \in 1..Len(p) : s[i + j - 1] = p[j]

(* Wherever a "$" is in s, a whole packet of P is.                         *)
Carries(s, P) ==
    /\ s \in Seq(Nat)
    /\ \A i \in 1..Len(s) : s[i] = Dollar => \E p \in P : At(s, i, p)

(* u is w without its first k characters.                                  *)
IsRest(u, w, k) ==
    /\ u \in Seq(Nat) /\ k \in 0..Len(w) /\ Len(u) = Len(w) - k
    /\ \A i \in 1..Len(u) : u[i] = w[i + k]

(* What may arrive of request r; the packets of all requests a, and those  *)
(* sent after each of the executions e.                                    *)
Arrivals(r) == {gdb_send_buffer(r)} \cup Garbled(gdb_send_buffer(r))
AskedPackets(a) == UNION {Arrivals(a[k]) : k \in 1..Len(a)}
SentPackets(e)  == {gdb_send_buffer(Reply(SubSeq(e, 1, n))) : n \in 1..Len(e)}

(* Requests, executions and answers.                                       *)
History ==
    /\ asked \in Seq(Requests) /\ executed \in Seq(Requests) /\ answered \in Seq(Seq(Plain))
    /\ client \in {"idle", "acking", "waiting", "closed"}
    /\ client = "idle" => Len(asked) = Len(answered)
    /\ client \in {"acking", "waiting"} =>
           Len(asked) = Len(answered) + 1 /\ sent = gdb_send_buffer(asked[Len(asked)])

(* What is on its way, also after a disturbance.                           *)
Streams ==
    /\ Line /\ Carries(toServer, AskedPackets(asked))
    /\ server = "handle" => \E k \in 1..Len(asked) : request = asked[k]
    /\ packet = <<>> \/ packet \in SentPackets(executed)
    /\ client # "closed" => Carries(toClient \o left, SentPackets(executed))

(* Without a disturbance at most one request is on its way or in the       *)
(* handler: the last one, which has neither been executed nor answered.    *)
HasDollar(s) == \E i \in 1..Len(s) : s[i] = Dollar
OneDollar(s) == \A i, j \in 1..Len(s) : s[i] = Dollar /\ s[j] = Dollar => i = j

Pending == Len(asked) = Len(executed) + 1 /\ Len(asked) = Len(answered) + 1

Single ==
    /\ OneDollar(toServer)
    /\ HasDollar(toServer) =>
           Pending /\ server # "handle" /\ Carries(toServer, Arrivals(asked[Len(asked)]))
    /\ server = "handle" => Pending /\ request = asked[Len(asked)]

TxInv ==
    /\ strays \in Nat /\ History /\ Streams
    /\ Undisturbed => Talk
    /\ strays = 0 => Single

----------------------------------------------------------------------------
(* Induction along the characters: what holds of a position whenever it    *)
(* holds of those before it holds of all positions up to n.                *)
LEMMA Along ==
    ASSUME NEW n \in Nat, NEW T,
           \A k \in 0..n : (\A j \in 0..(k - 1) : j \in T) => k \in T
    PROVE  \A k \in 0..n : k \in T
<1> DEFINE S == {k \in 0..n : k \notin T}
<1>1. PICK R : IsWellFoundedOn(R, Nat) /\ \A i, j \in Nat : i < j => <<i, j>> \in R
  <2>1. IsWellFoundedOn({ss \in Nat \X Nat : ss[1] < ss[2]}, Nat)
    BY NatLessThanWellFounded DEF OpToRel
  <2>2. \A i, j \in Nat : i < j => <<i, j>> \in {ss \in Nat \X Nat : ss[1] < ss[2]}
    OBVIOUS
  <2> QED
    BY <2>1, <2>2, Zenon
<1>2. S \subseteq Nat
  OBVIOUS
<1>3. CASE S # {}
  <2>1. PICK x \in S : \A y \in S : ~(<<y, x>> \in R)
    <3>1. IsWellFoundedOn(R, Nat)
      BY <1>1
    <3> QED
      BY <1>2, <1>3, <3>1, WFMin
  <2>2. \A j \in 0..(x - 1) : j \in 0..n /\ j < x
    BY <2>1
  <2>3. \A j \in 0..(x - 1) : j \in T
    BY <1>1, <1>2, <2>1, <2>2
  <2> QED
    BY <2>1, <2>3
<1> QED
  BY <1>3

(* The loop of gdb_send_buffer that sums the characters.                   *)
LEMMA SumsStepByStep ==
    ASSUME NEW data, Len(data) \in Nat
    PROVE  /\ Sums(data)[0] = 0
           /\ \A i \in 1..Len(data) : Sums(data)[i] = (Sums(data)[i - 1] + data[i]) % 256
<1> DEFINE Body(f, i) == IF i = 0 THEN 0 ELSE (f[i - 1] + data[i]) % 256
           n == Len(data)
           G(f) == [i \in 0..n |-> Body(f, i)]
<1>1. \A f, g : \A i \in Nat : (i # 0 => f[i - 1] = g[i - 1]) => Body(f, i) = Body(g, i)
  OBVIOUS
<1>2. Sums(data) = CHOOSE f : f = G(f)
  BY DEF Sums
<1>3. \A f : Body(f, 0) = 0 /\ \A i \in 1..n : Body(f, i) = (f[i - 1] + data[i]) % 256
  OBVIOUS
<1>4. n \in Nat
  OBVIOUS
<1> HIDE DEF Body, n
<1>5. \E f : f = G(f)
  <2> DEFINE T == {k \in Nat : \E f : \A i \in 0..k : f[i] = Body(f, i)}
  <2>1. ASSUME NEW k \in 0..n, \A j \in 0..(k - 1) : j \in T
        PROVE  k \in T
    <3>1. CASE k = 0
      <4>1. PICK f : f = [i \in {0} |-> 0]
        OBVIOUS
      <4>2. f[0] = Body(f, 0)
        BY <1>3, <4>1
      <4> QED
        BY <3>1, <4>2
    <3>2. CASE k # 0
      <4>1. k - 1 \in 0..(k - 1) /\ k \in Nat
        BY <1>4, <3>2
      <4>2. k - 1 \in T
        BY <2>1, <4>1
      <4>3. PICK f : \A i \in 0..(k - 1) : f[i] = Body(f, i)
        BY <4>2
      <4>4. PICK g : g = [i \in 0..k |-> IF i = k THEN Body(f, k) ELSE f[i]]
        OBVIOUS
      <4>5. g[k] = Body(f, k) /\ \A i \in 0..(k - 1) : g[i] = f[i]
        BY <4>1, <4>4
      <4>6. ASSUME NEW i \in 0..k PROVE g[i] = Body(g, i)
        <5>1. i # 0 => f[i - 1] = g[i - 1]
          BY <4>1, <4>5
        <5>2. Body(f, i) = Body(g, i)
          BY <1>1, <4>1, <5>1
        <5>3. i # k => g[i] = f[i] /\ f[i] = Body(f, i)
          BY <4>1, <4>3, <4>5
        <5> QED
          BY <4>5, <5>2, <5>3
      <4> QED
        BY <4>1, <4>6
    <3> QED
      BY <3>1, <3>2
  <2>2. n \in T
    <3>1. n \in 0..n
      BY <1>4
    <3> HIDE DEF T
    <3> QED
      BY <1>4, <2>1, <3>1, Along
  <2>3. PICK f : \A i \in 0..n : f[i] = Body(f, i)
    BY <2>2
  <2>4. PICK g : g = [i \in 0..n |-> f[i]]
    OBVIOUS
  <2>5. ASSUME NEW i \in 0..n PROVE g[i] = Body(g, i)
    <3>1. i # 0 => f[i - 1] = g[i - 1]
      BY <1>4, <2>4
    <3>2. Body(f, i) = Body(g, i)
      BY <1>1, <1>4, <3>1
    <3> QED
      BY <2>3, <2>4, <3>2
  <2>6. g = G(g)
    BY <2>4, <2>5
  <2> QED
    BY <2>6
<1>6. PICK h : h = G(h) /\ h = Sums(data)
  BY <1>2, <1>5, Zenon
<1>7. \A i \in 0..n : h[i] = Body(h, i)
  BY <1>6
<1>8. h[0] = 0 /\ \A i \in 1..n : h[i] = (h[i - 1] + data[i]) % 256
  BY <1>3, <1>4, <1>7
<1> QED
  BY <1>6, <1>8 DEF n

(* The checksum is a byte.                                                 *)
LEMMA ChecksumIsByte ==
    ASSUME NEW data \in Seq(Nat)
    PROVE  \A i \in 0..Len(data) : Sums(data)[i] \in Nat /\ Sums(data)[i] < 256
<1> DEFINE T == {k \in Nat : Sums(data)[k] \in Nat /\ Sums(data)[k] < 256}
           n == Len(data)
<1>1. n \in Nat
  OBVIOUS
<1>2. ASSUME NEW k \in 0..n, \A j \in 0..(k - 1) : j \in T PROVE k \in T
  <2>1. CASE k = 0
    BY <1>1, <2>1, SumsStepByStep
  <2>2. CASE k # 0
    <3>1. k \in 1..n /\ k - 1 \in 0..(k - 1)
      BY <1>1, <2>2
    <3>2. Sums(data)[k - 1] \in Nat /\ data[k] \in Nat
      BY <1>2, <3>1
    <3>3. PICK u, v : u = Sums(data)[k - 1] /\ v = data[k]
      OBVIOUS
    <3>4. Sums(data)[k] = (u + v) % 256
      BY <1>1, <3>1, <3>3, SumsStepByStep
    <3>5. u \in Nat /\ v \in Nat
      BY <3>2, <3>3
    <3>6. (u + v) % 256 \in Nat /\ (u + v) % 256 < 256
      BY <3>5
    <3> QED
      BY <1>1, <3>1, <3>4, <3>6
  <2> QED
    BY <2>1, <2>2
<1> HIDE DEF T, n
<1>3. \A k \in 0..n : k \in T
  BY <1>1, <1>2, Along
<1> QED
  BY <1>3 DEF T, n

(* gdb_send_buffer frames its content.                                     *)
LEMMA Framed ==
    ASSUME NEW data \in Seq(Plain)
    PROVE  IsPacket(gdb_send_buffer(data)) /\ Len(gdb_send_buffer(data)) = Len(data) + 4
<1>0. Plain \subseteq Nat
  BY DEF Plain
<1>1. data \in Seq(Nat) /\ Len(data) \in Nat /\ \A i \in 1..Len(data) : data[i] \in Plain
  BY <1>0, SeqMonotonic, ElementOfSeq, LenProperties
<1>2. PICK check \in Nat : check = Check(data) /\ check < 256
  <2>1. Len(data) \in 0..Len(data)
    BY <1>1
  <2> QED
    BY <1>1, <2>1, ChecksumIsByte DEF Check
<1>3. PICK x, y : x = HexChar(check \div 16) /\ y = HexChar(check % 16)
  OBVIOUS
<1>4. x \in HexDigits /\ y \in HexDigits /\ x \in Nat /\ y \in Nat
  <2>0. check < 256
    BY <1>2
  <2>1. check \div 16 \in 0..15
    BY <2>0
  <2>2. check % 16 \in 0..15
    OBVIOUS
  <2>3. \A d \in 0..15 : HexChar(d) \in HexDigits /\ HexChar(d) \in Nat
    BY DEF HexChar, HexDigits
  <2> QED
    BY <1>3, <2>1, <2>2, <2>3
<1>5. PICK p : p = <<Dollar>> \o data \o <<Hash, x, y>>
  OBVIOUS
<1>6. p = gdb_send_buffer(data)
  BY <1>2, <1>3, <1>5 DEF gdb_send_buffer
<1>7. /\ p \in Seq(Nat) /\ Len(p) = Len(data) + 4
      /\ p[1] = Dollar /\ p[Len(data) + 2] = Hash
      /\ p[Len(data) + 3] = x /\ p[Len(data) + 4] = y
      /\ \A i \in 2..(Len(data) + 1) : p[i] = data[i - 1]
  BY <1>1, <1>4, <1>5 DEF Dollar, Hash
<1>8. ASSUME NEW i \in 2..(Len(p) - 3) PROVE p[i] \notin {Dollar, Hash}
  <2>1. i \in 2..(Len(data) + 1) /\ i - 1 \in 1..Len(data)
    BY <1>1, <1>7
  <2> QED
    BY <1>1, <1>7, <2>1 DEF Plain
<1>9. Len(p) - 2 = Len(data) + 2 /\ Len(p) - 1 = Len(data) + 3 /\ Len(p) >= 4
  BY <1>1, <1>7
<1> QED
  BY <1>4, <1>6, <1>7, <1>8, <1>9 DEF IsPacket

(* A packet stays one when a character of its content or of its checksum   *)
(* is garbled.                                                             *)
LEMMA GarbledIsPacket ==
    ASSUME NEW p, IsPacket(p), NEW q \in Garbled(p)
    PROVE  IsPacket(q)
<1>1. p \in Seq(Nat) /\ Len(p) \in Nat /\ Len(p) >= 4
  BY DEF IsPacket
<1>2. PICK i \in 2..Len(p) \ {Len(p) - 2}, c \in Garbles : q = [p EXCEPT ![i] = c]
  BY DEF Garbled
<1>3. c \in HexDigits /\ c \in Nat /\ c \notin {Dollar, Hash}
  BY TransmissionAssumption DEF HexDigits, Dollar, Hash
<1>4. q \in Seq(Nat) /\ Len(q) = Len(p) /\ \A j \in 1..Len(p) : q[j] = IF j = i THEN c ELSE p[j]
  BY <1>1, <1>2, <1>3
<1>5. q[1] = Dollar /\ q[Len(q) - 2] = Hash
  BY <1>1, <1>2, <1>4 DEF IsPacket
<1>6. q[Len(q) - 1] \in HexDigits /\ q[Len(q)] \in HexDigits
  <2>1. Len(p) - 1 \in 1..Len(p) /\ Len(p) \in 1..Len(p)
    BY <1>1
  <2>2. p[Len(p) - 1] \in HexDigits /\ p[Len(p)] \in HexDigits /\ c \in HexDigits
    BY <1>3 DEF IsPacket
  <2> QED
    BY <1>4, <2>1, <2>2
<1>7. ASSUME NEW j \in 2..(Len(q) - 3) PROVE q[j] \notin {Dollar, Hash}
  <2>1. j \in 1..Len(p) /\ j \in 2..(Len(p) - 3)
    BY <1>1, <1>4
  <2> QED
    BY <1>3, <1>4, <2>1 DEF IsPacket
<1> QED
  BY <1>1, <1>4, <1>5, <1>6, <1>7 DEF IsPacket

(* The frame around a content, and that its checksum is the right one.     *)
LEMMA FrameParts ==
    ASSUME NEW data \in Seq(Plain), NEW p, p = gdb_send_buffer(data)
    PROVE  /\ Len(p) = Len(data) + 4 /\ Content(p) = data /\ CheckOk(p)
           /\ \A i \in 1..Len(data) : p[i + 1] = data[i]
<1>0. Plain \subseteq Nat
  BY DEF Plain
<1>1. data \in Seq(Nat) /\ \A i \in 1..Len(data) : data[i] \in Plain
  BY <1>0, SeqMonotonic, ElementOfSeq
<1>2. PICK l \in Nat : l = Len(data)
  BY LenProperties
<1>3. PICK check \in Nat : check = Check(data) /\ check < 256
  <2>1. Len(data) \in 0..Len(data)
    BY <1>2
  <2> QED
    BY <1>1, <2>1, ChecksumIsByte DEF Check
<1>4. PICK a \in 0..15, b \in 0..15 : a = check \div 16 /\ b = check % 16 /\ check = 16 * a + b
  <2>1. check < 256
    BY <1>3
  <2>2. check \div 16 \in 0..15 /\ check % 16 \in 0..15 /\ check = 16 * (check \div 16) + (check % 16)
    BY <2>1
  <2> QED
    BY <2>2
<1>5. PICK x \in Nat, y \in Nat : x = HexChar(a) /\ y = HexChar(b)
  <2>1. \A d \in 0..15 : HexChar(d) \in Nat
    BY DEF HexChar
  <2> QED
    BY <2>1
<1>6. HexValue(x) = a /\ HexValue(y) = b
  <2>1. ASSUME NEW d \in 0..15 PROVE HexValue(HexChar(d)) = d
    <3>1. CASE d < 10
      <4>1. /\ HexChar(d) = 48 + d /\ 48 + d \in 48..57 /\ 48 + d \notin 97..102
            /\ (48 + d) - 48 = d
        BY <3>1 DEF HexChar
      <4> QED
        BY <4>1 DEF HexValue
    <3>2. CASE ~(d < 10)
      <4>1. /\ HexChar(d) = 87 + d /\ 87 + d \in 97..102 /\ 87 + d \notin 48..57
            /\ (87 + d) - 87 = d
        BY <3>2 DEF HexChar
      <4> QED
        BY <4>1 DEF HexValue
    <3> QED
      BY <3>1, <3>2
  <2> QED
    BY <1>5, <2>1
<1>7. p = <<Dollar>> \o data \o <<Hash, x, y>>
  BY <1>3, <1>4, <1>5 DEF gdb_send_buffer
<1>8. /\ p \in Seq(Nat) /\ Len(p) = l + 4 /\ p[l + 3] = x /\ p[l + 4] = y
      /\ \A i \in 2..(l + 1) : p[i] = data[i - 1]
  BY <1>1, <1>2, <1>5, <1>7 DEF Dollar, Hash
<1>9. \A i \in 1..l : p[i + 1] = data[i]
  BY <1>8
<1>10. Content(p) = data
  <2>1. Content(p) = SubSeq(p, 2, l + 1)
    BY <1>8 DEF Content
  <2>2. SubSeq(p, 2, l + 1) \in Seq(Nat) /\ Len(SubSeq(p, 2, l + 1)) = l
        /\ \A i \in 1..l : SubSeq(p, 2, l + 1)[i] = p[i + 1]
    BY <1>8
  <2> QED
    BY <1>1, <1>2, <1>9, <2>1, <2>2, SeqEqual
<1>11. CheckOk(p)
  <2>1. Len(p) - 1 = l + 3 /\ Len(p) = l + 4
    BY <1>8
  <2> QED
    BY <1>3, <1>4, <1>6, <1>8, <1>10, <2>1 DEF CheckOk
<1> QED
  BY <1>2, <1>8, <1>9, <1>10, <1>11

(* Two different checksums stay different when the same is added to them.  *)
LEMMA StillDifferent ==
    ASSUME NEW x \in Nat, NEW y \in Nat, NEW c \in Nat, x < 256, y < 256, x # y
    PROVE  (x + c) % 256 # (y + c) % 256
<1>1. PICK m \in Nat, u \in Nat : x + c = 256 * m + u /\ u < 256 /\ u = (x + c) % 256
  <2>1. x + c \in Nat
    OBVIOUS
  <2>2. PICK z \in Nat : z = x + c
    BY <2>1
  <2>3. z = 256 * (z \div 256) + (z % 256) /\ z \div 256 \in Nat /\ z % 256 \in Nat /\ z % 256 < 256
    OBVIOUS
  <2> QED
    BY <2>2, <2>3
<1>2. PICK n \in Nat, v \in Nat : y + c = 256 * n + v /\ v < 256 /\ v = (y + c) % 256
  <2>1. y + c \in Nat
    OBVIOUS
  <2>2. PICK z \in Nat : z = y + c
    BY <2>1
  <2>3. z = 256 * (z \div 256) + (z % 256) /\ z \div 256 \in Nat /\ z % 256 \in Nat /\ z % 256 < 256
    OBVIOUS
  <2> QED
    BY <2>2, <2>3
<1>3. u # v
  BY <1>1, <1>2
<1> QED
  BY <1>1, <1>2, <1>3

(* One garbled character changes the checksum.                             *)
LEMMA OneGarbleShows ==
    ASSUME NEW data \in Seq(Nat), \A i \in 1..Len(data) : data[i] < 256,
           NEW other \in Seq(Nat), Len(other) = Len(data), NEW i \in 1..Len(data),
           \A j \in 1..Len(data) : j # i => other[j] = data[j],
           other[i] < 256, other[i] # data[i]
    PROVE  Check(other) # Check(data)
<1>1. PICK l \in Nat : l = Len(data)
  BY LenProperties
<1>2. PICK f, g : f = Sums(data) /\ g = Sums(other)
  OBVIOUS
<1>3. /\ f[0] = 0 /\ \A k \in 1..l : f[k] = (f[k - 1] + data[k]) % 256
      /\ g[0] = 0 /\ \A k \in 1..l : g[k] = (g[k - 1] + other[k]) % 256
  <2>1. Len(data) \in Nat /\ Len(other) \in Nat
    BY LenProperties
  <2>2. /\ f[0] = 0 /\ \A k \in 1..l : f[k] = (f[k - 1] + data[k]) % 256
    BY <1>1, <1>2, <2>1, SumsStepByStep
  <2>3. /\ g[0] = 0 /\ \A k \in 1..Len(other) : g[k] = (g[k - 1] + other[k]) % 256
    BY <1>1, <1>2, <2>1, SumsStepByStep
  <2> QED
    BY <1>1, <2>2, <2>3
<1>4. \A k \in 0..l : f[k] \in Nat /\ f[k] < 256 /\ g[k] \in Nat /\ g[k] < 256
  BY <1>1, <1>2, ChecksumIsByte
<1> DEFINE T == {k \in Nat : (k < i => f[k] = g[k]) /\ (k >= i => f[k] # g[k])}
<1>5. ASSUME NEW k \in 0..l, \A j \in 0..(k - 1) : j \in T PROVE k \in T
  <2>1. CASE k = 0
    BY <1>3, <2>1
  <2>2. CASE k # 0
    <3>1. k \in 1..l /\ k - 1 \in 0..(k - 1) /\ k - 1 \in 0..l /\ k - 1 \in Nat
      BY <2>2
    <3>2. k - 1 \in T
      BY <1>5, <3>1
    <3>3. PICK a \in Nat, b \in Nat : a = f[k - 1] /\ b = g[k - 1] /\ a < 256 /\ b < 256
      BY <1>4, <3>1
    <3>4. PICK c \in Nat, d \in Nat : c = data[k] /\ d = other[k]
      BY <1>1, <3>1
    <3>5. f[k] = (a + c) % 256 /\ g[k] = (b + d) % 256
      BY <1>3, <3>1, <3>3, <3>4
    <3>6. k - 1 < i => a = b
      BY <3>2, <3>3
    <3>7. k - 1 >= i => a # b
      BY <3>2, <3>3
    <3>8. CASE k < i
      <4>1. k - 1 < i /\ c = d
        BY <1>1, <3>1, <3>4, <3>8
      <4> QED
        BY <3>1, <3>5, <3>6, <3>8, <4>1
    <3>9. CASE k = i
      <4>1. k - 1 < i /\ c # d /\ c < 256 /\ d < 256
        BY <1>1, <3>1, <3>4, <3>9
      <4>2. a = b /\ c + a = a + c /\ d + a = a + d
        BY <3>6, <4>1
      <4>3. (c + a) % 256 # (d + a) % 256
        BY <4>1, StillDifferent
      <4>4. f[k] # g[k]
        BY <3>5, <4>2, <4>3
      <4> QED
        BY <3>1, <3>9, <4>4
    <3>10. CASE k > i
      <4>1. k - 1 >= i /\ c = d
        BY <1>1, <3>1, <3>4, <3>10
      <4>2. a # b
        BY <3>7, <4>1
      <4>3. (a + c) % 256 # (b + c) % 256
        <5>1. a < 256 /\ b < 256
          BY <3>3
        <5> QED
          BY <4>2, <5>1, StillDifferent
      <4>4. f[k] # g[k]
        BY <3>5, <4>1, <4>3
      <4> QED
        BY <3>1, <3>10, <4>4
    <3> QED
      BY <3>1, <3>8, <3>9, <3>10
  <2> QED
    BY <2>1, <2>2
<1>6. l \in T
  <2>1. l \in 0..l
    OBVIOUS
  <2> HIDE DEF T
  <2> QED
    BY <1>5, <2>1, Along
<1> QED
  BY <1>1, <1>2, <1>6 DEF Check

(* A packet with the right checksum carries what was sent, garbled or not. *)
LEMMA CheckedIsSent ==
    ASSUME NEW data \in Seq(Plain), NEW p, p = gdb_send_buffer(data),
           NEW q \in {p} \cup Garbled(p), CheckOk(q)
    PROVE  Content(q) = data
<1>1. /\ IsPacket(p) /\ Len(p) = Len(data) + 4 /\ Content(p) = data /\ CheckOk(p)
      /\ \A i \in 1..Len(data) : p[i + 1] = data[i]
  BY FrameParts, Framed
<1>2. CASE q \in Garbled(p)
  <2>1. PICK l \in Nat : l = Len(data) /\ Len(p) = l + 4
    BY <1>1, LenProperties
  <2>2. p \in Seq(Nat) /\ q # p
    BY <1>1, <1>2 DEF IsPacket, Garbled
  <2>3. PICK i \in 2..Len(p) \ {Len(p) - 2}, c \in Garbles : q = [p EXCEPT ![i] = c]
    BY <1>2 DEF Garbled
  <2>4. c \in Nat /\ c < 256
    BY TransmissionAssumption DEF HexDigits
  <2>5. q \in Seq(Nat) /\ Len(q) = l + 4 /\ \A j \in 1..(l + 4) : q[j] = IF j = i THEN c ELSE p[j]
    BY <2>1, <2>2, <2>3, <2>4
  <2>6. PICK r : r = Content(q)
    OBVIOUS
  <2>7. r \in Seq(Nat) /\ Len(r) = l /\ \A j \in 1..l : r[j] = q[j + 1]
    <3>1. r = SubSeq(q, 2, l + 1)
      BY <2>5, <2>6 DEF Content
    <3> QED
      BY <2>5, <3>1
  <2>8. data \in Seq(Nat) /\ \A j \in 1..l : data[j] < 256
    <3>1. Plain \subseteq Nat /\ \A x \in Plain : x < 256
      BY DEF Plain
    <3> QED
      BY <2>1, <3>1, SeqMonotonic, ElementOfSeq
  <2>9. CASE i <= l + 1
    <3>1. PICK k \in 1..l : i = k + 1
      <4>1. i - 1 \in 1..l /\ i = (i - 1) + 1
        BY <2>3, <2>9
      <4> QED
        BY <4>1
    <3>2. \A j \in 1..l : j # k => r[j] = data[j]
      <4>1. \A j \in 1..l : j # k => j + 1 # i /\ j + 1 \in 1..(l + 4)
        BY <3>1
      <4> QED
        BY <1>1, <2>1, <2>5, <2>7, <4>1
    <3>3. i \in 1..(l + 4) /\ r[k] = c
      BY <2>1, <2>5, <2>7, <3>1
    <3>4. c # data[k]
      <4>1. ASSUME c = data[k] PROVE q = p
        <5>1. p[i] = c
          BY <1>1, <2>1, <3>1, <4>1
        <5>2. \A j \in 1..(l + 4) : q[j] = p[j]
          BY <2>5, <5>1
        <5> QED
          BY <2>1, <2>2, <2>5, <5>2, SeqEqual
      <4> QED
        BY <2>2, <4>1
    <3>5. Check(r) # Check(data)
      BY <2>1, <2>4, <2>7, <2>8, <3>1, <3>2, <3>3, <3>4, OneGarbleShows
    <3>6. q[l + 3] = p[l + 3] /\ q[l + 4] = p[l + 4]
      BY <2>5, <2>9
    <3>7. Len(q) - 1 = l + 3 /\ Len(q) = l + 4 /\ Len(p) - 1 = l + 3 /\ Len(p) = l + 4
      BY <2>1, <2>5
    <3>8. Check(r) = 16 * HexValue(p[l + 3]) + HexValue(p[l + 4])
      BY <2>6, <3>6, <3>7 DEF CheckOk
    <3>9. Check(data) = 16 * HexValue(p[l + 3]) + HexValue(p[l + 4])
      BY <1>1, <3>7 DEF CheckOk
    <3> QED
      BY <3>5, <3>8, <3>9
  <2>10. CASE ~(i <= l + 1)
    <3>1. \A j \in 1..l : r[j] = data[j]
      <4>1. \A j \in 1..l : j + 1 \in 1..(l + 4) /\ j + 1 # i
        BY <2>3, <2>10
      <4> QED
        BY <1>1, <2>1, <2>5, <2>7, <4>1
    <3> QED
      BY <2>1, <2>6, <2>7, <2>8, <3>1, SeqEqual
  <2> QED
    BY <2>9, <2>10
<1> QED
  BY <1>1, <1>2

(* The scanner on an acknowledgement or a request for retransmission.      *)
LEMMA TokenOfAck ==
    ASSUME NEW s, NEW eof, s # <<>>
    PROVE  /\ s[1] = Ack => Token(s, eof) = [kind |-> "ack", length |-> 1]
           /\ s[1] = Nak => Token(s, eof) = [kind |-> "nak", length |-> 1]
BY DEF Token, Ack, Nak, Dollar

(* The place of the first mark behind the start of a text.                 *)
Mark(s) == 1 + SelectInSeq(Tail(s), LAMBDA c : c \in {Dollar, Hash})

(* The mark is the first one; there is none in a text without "$" and "#". *)
LEMMA MarkIsFirst ==
    ASSUME NEW s \in Seq(Nat), s # <<>>, NEW m \in 2..(Len(s) + 1),
           \A i \in 2..(m - 1) : s[i] \notin {Dollar, Hash}
    PROVE  /\ m = Len(s) + 1 => Mark(s) = 1
           /\ m <= Len(s) /\ s[m] \in {Dollar, Hash} => Mark(s) = m
<1> DEFINE t == Tail(s)
           I == {i \in 1..Len(t) : t[i] \in {Dollar, Hash}}
<1>1. /\ Len(s) \in Nat /\ Len(s) >= 1 /\ t \in Seq(Nat) /\ Len(t) = Len(s) - 1
      /\ \A i \in 1..(Len(s) - 1) : t[i] = s[i + 1]
  OBVIOUS
<1>2. Mark(s) = 1 + (IF I # {} THEN Min(I) ELSE 0)
  BY DEF Mark, SelectInSeq
<1> HIDE DEF t
<1>3. ASSUME NEW i \in I PROVE i \in Nat /\ i >= m - 1 /\ i + 1 <= Len(s)
  <2>1. i \in 1..(Len(s) - 1) /\ s[i + 1] \in {Dollar, Hash}
    BY <1>1, <1>3
  <2>2. ~(i + 1 \in 2..(m - 1))
    BY <2>1
  <2> QED
    BY <1>1, <2>1, <2>2
<1>4. CASE m = Len(s) + 1
  <2>1. ASSUME NEW i \in I PROVE FALSE
    BY <1>1, <1>3, <1>4
  <2> QED
    BY <1>1, <1>2, <1>4, <2>1
<1>5. CASE m <= Len(s) /\ s[m] \in {Dollar, Hash}
  <2>1. m - 1 \in 1..(Len(s) - 1) /\ t[m - 1] = s[m]
    BY <1>1, <1>5
  <2>2. m - 1 \in I
    BY <1>1, <1>5, <2>1
  <2> HIDE DEF I
  <2>3. Min(I) = m - 1
    <3>1. PICK k : k = m - 1
      OBVIOUS
    <3>2. k \in I /\ k \in Nat /\ \A i \in I : i \in Nat /\ k <= i
      BY <1>1, <1>3, <2>1, <2>2, <3>1
    <3>3. Min(I) = CHOOSE x \in I : \A y \in I : x <= y
      BY DEF Min
    <3>4. ASSUME NEW x \in I, \A y \in I : x <= y PROVE x = k
      BY <3>2, <3>4
    <3> QED
      BY <3>1, <3>2, <3>3, <3>4
  <2> QED
    BY <1>1, <1>2, <1>5, <2>1, <2>2, <2>3
<1> QED
  BY <1>4, <1>5

(* When the scanner takes a packet.                                        *)
LEMMA TokenByMark ==
    ASSUME NEW s, NEW eof, NEW m, m = Mark(s), s[1] = Dollar
    PROVE  LET whole == /\ m > 1 /\ s[m] = Hash /\ m + 2 <= Len(s)
                        /\ (m + 1 <= Len(s) => s[m + 1] \in HexDigits)
                        /\ (m + 2 <= Len(s) => s[m + 2] \in HexDigits)
           IN  /\ whole => Token(s, eof) = [kind |-> "packet", length |-> m + 2]
               /\ ~whole => Token(s, eof).kind # "packet"
<1>1. Dollar # Ack /\ Dollar # Nak
  BY DEF Dollar, Ack, Nak
<1> DEFINE hex(i) == i <= Len(s) => s[i] \in HexDigits
           whole == m > 1 /\ s[m] = Hash /\ m + 2 <= Len(s) /\ hex(m + 1) /\ hex(m + 2)
           more  == ~eof /\ (m = 1 \/ (m > 1 /\ s[m] = Hash /\ hex(m + 1) /\ hex(m + 2)))
<1>2. Token(s, eof) = IF whole THEN [kind |-> "packet", length |-> m + 2]
                      ELSE IF more THEN [kind |-> "more", length |-> 0]
                      ELSE [kind |-> "junk", length |-> 1]
  BY <1>1 DEF Token, Mark
<1> HIDE DEF more
<1> QED
  BY <1>2

(* A packet that has arrived is taken as a whole ...                       *)
LEMMA WholeAtHead ==
    ASSUME NEW s \in Seq(Nat), NEW p, IsPacket(p), At(s, 1, p), NEW eof
    PROVE  /\ Token(s, eof) = [kind |-> "packet", length |-> Len(p)]
           /\ Len(p) \in 1..Len(s) /\ SubSeq(s, 1, Len(p)) = p
<1>1. PICK n \in Nat, l \in Nat : n = Len(p) /\ l = Len(s) /\ n >= 4
  BY LenProperties DEF IsPacket
<1>2. /\ p \in Seq(Nat) /\ p[1] = Dollar /\ p[n - 2] = Hash
      /\ p[n - 1] \in HexDigits /\ p[n] \in HexDigits
      /\ \A i \in 2..(n - 3) : p[i] \notin {Dollar, Hash}
  BY <1>1 DEF IsPacket
<1>3. n <= l /\ \A i \in 1..n : s[i] = p[i]
  <2>1. 1 + n - 1 = n /\ \A i \in 1..n : 1 + i - 1 = i
    OBVIOUS
  <2> QED
    BY <1>1, <2>1 DEF At
<1>4. PICK m : m = n - 2 /\ m \in 2..(l + 1) /\ m <= l /\ m + 1 = n - 1 /\ m + 2 = n /\ m \in 1..n
  <2>1. /\ n - 2 \in 2..(l + 1) /\ n - 2 <= l /\ (n - 2) + 1 = n - 1 /\ (n - 2) + 2 = n
        /\ n - 2 \in 1..n
    BY <1>1, <1>3
  <2> QED
    BY <2>1
<1>5. s # <<>>
  BY <1>1, <1>3, EmptySeq
<1>6. \A i \in 2..(m - 1) : s[i] \notin {Dollar, Hash}
  <2>1. \A i \in 2..(m - 1) : i \in 2..(n - 3) /\ i \in 1..n
    BY <1>1, <1>4
  <2> QED
    BY <1>2, <1>3, <2>1
<1>7. s[m] = Hash /\ s[1] = Dollar /\ s[m + 1] \in HexDigits /\ s[m + 2] \in HexDigits
  <2>1. n - 1 \in 1..n /\ n \in 1..n /\ 1 \in 1..n
    BY <1>1
  <2> QED
    BY <1>2, <1>3, <1>4, <2>1
<1>8. Mark(s) = m
  BY <1>1, <1>4, <1>5, <1>6, <1>7, MarkIsFirst
<1>9. Token(s, eof) = [kind |-> "packet", length |-> m + 2]
  <2>1. m > 1 /\ m + 2 <= Len(s)
    BY <1>1, <1>3, <1>4
  <2> QED
    BY <1>7, <1>8, <2>1, TokenByMark
<1>10. SubSeq(s, 1, n) = p
  <2>1. PICK q : q = SubSeq(s, 1, n)
    OBVIOUS
  <2>2. q \in Seq(Nat) /\ Len(q) = n /\ \A i \in 1..n : q[i] = s[i]
    BY <1>1, <1>3, <2>1
  <2>3. Len(q) = Len(p) /\ \A i \in 1..Len(q) : q[i] = p[i]
    BY <1>1, <1>3, <2>2
  <2>4. q = p
    BY <1>2, <2>2, <2>3, SeqEqual
  <2> QED
    BY <2>1, <2>4
<1> QED
  BY <1>1, <1>3, <1>4, <1>9, <1>10

(* ... and not before its last character.                                  *)
LEMMA PartAtHead ==
    ASSUME NEW p, IsPacket(p), NEW s \in Seq(Nat), NEW t \in Seq(Nat), s # <<>>,
           At(s \o t, 1, p), NEW eof, Token(s, eof).kind = "packet"
    PROVE  At(s, 1, p)
<1>1. PICK n \in Nat, l \in Nat : n = Len(p) /\ l = Len(s) /\ n >= 4 /\ l >= 1
  <2>1. Len(p) \in Nat /\ Len(p) >= 4
    BY LenProperties DEF IsPacket
  <2>2. Len(s) \in Nat /\ Len(s) >= 1
    BY LenProperties, EmptySeq
  <2> QED
    BY <2>1, <2>2
<1>2. /\ p[1] = Dollar /\ p[n - 2] = Hash
      /\ \A i \in 2..(n - 3) : p[i] \notin {Dollar, Hash}
  BY <1>1 DEF IsPacket
<1>3. \A i \in 1..n : i <= l => s[i] = p[i]
  <2>0. PICK w : w = s \o t
    OBVIOUS
  <2>1. PICK k \in Nat : k = Len(t)
    BY LenProperties
  <2>2. Len(w) = l + k /\ \A i \in 1..(l + k) : i <= l => w[i] = s[i]
    BY <1>1, <2>0, <2>1, ConcatProperties
  <2>3. At(w, 1, p)
    BY <2>0
  <2>4. \A i \in 1..n : 1 + i - 1 = i /\ (i <= l => i \in 1..(l + k))
    OBVIOUS
  <2>5. \A i \in 1..n : w[i] = p[i]
    BY <1>1, <2>3, <2>4 DEF At
  <2> QED
    BY <2>2, <2>4, <2>5
<1>4. PICK m : m = Mark(s)
  OBVIOUS
<1>5. m > 1 /\ m + 2 <= l
  <2>1. s[1] = Dollar
    <3>1. 1 \in 1..n /\ 1 <= l
      BY <1>1
    <3> QED
      BY <1>2, <1>3, <3>1
  <2> QED
    BY <1>1, <1>4, <2>1, TokenByMark
<1>6. l >= n
  <2>1. CASE l < n - 2
    <3>1. l + 1 \in 2..(l + 1) /\ \A i \in 2..l : i \in 1..n /\ i \in 2..(n - 3)
      BY <1>1, <2>1
    <3>2. \A i \in 2..((l + 1) - 1) : s[i] \notin {Dollar, Hash}
      BY <1>1, <1>2, <1>3, <3>1
    <3>3. m = 1
      BY <1>1, <1>4, <3>1, <3>2, MarkIsFirst
    <3> QED
      BY <1>5, <3>3
  <2>2. CASE l >= n - 2
    <3>1. PICK k : k = n - 2 /\ k \in Nat
      <4>1. n - 2 \in Nat
        BY <1>1
      <4> QED
        BY <4>1
    <3>2. k \in 2..(l + 1) /\ k <= l /\ k \in 1..n
      BY <1>1, <2>2, <3>1
    <3>3. s[k] \in {Dollar, Hash}
      BY <1>2, <1>3, <3>1, <3>2
    <3>4. \A i \in 2..(k - 1) : s[i] \notin {Dollar, Hash}
      <4>1. \A i \in 2..(k - 1) : i \in 1..n /\ i <= l /\ i \in 2..(n - 3)
        BY <1>1, <3>1, <3>2
      <4> QED
        BY <1>2, <1>3, <4>1
    <3>5. m = n - 2
      BY <1>1, <1>4, <3>1, <3>2, <3>3, <3>4, MarkIsFirst
    <3> QED
      BY <1>1, <1>5, <3>5
  <2> QED
    BY <1>1, <2>1, <2>2
<1>7. \A i \in 1..n : 1 + i - 1 = i /\ i <= l
  BY <1>6
<1> QED
  BY <1>1, <1>3, <1>6, <1>7 DEF At

(* The scanner on a text that starts with anything else.                   *)
LEMMA TokenOfOther ==
    ASSUME NEW s \in Seq(Nat), s # <<>>, s[1] # Dollar, NEW eof
    PROVE  /\ Token(s, eof).length = 1
           /\ Token(s, eof).kind = IF s[1] = Ack THEN "ack" ELSE IF s[1] = Nak THEN "nak" ELSE "junk"
BY DEF Token, Ack, Nak

(* The same for a packet that is alone on the connection.                  *)
LEMMA TokenOfPacket ==
    ASSUME NEW p, IsPacket(p), NEW eof
    PROVE  Token(p, eof) = [kind |-> "packet", length |-> Len(p)]
<1>1. p \in Seq(Nat) /\ Len(p) \in Nat
  BY DEF IsPacket
<1>2. At(p, 1, p)
  <2>1. PICK l \in Nat : l = Len(p)
    BY <1>1
  <2>2. 1 + l - 1 <= l /\ \A j \in 1..l : 1 + j - 1 = j
    OBVIOUS
  <2> QED
    BY <2>1, <2>2 DEF At
<1> QED
  BY <1>1, <1>2, WholeAtHead

(* A part of it is no packet.                                              *)
LEMMA TokenOfPart ==
    ASSUME NEW p, IsPacket(p), NEW s \in Seq(Nat), NEW t \in Seq(Nat), s # <<>>, s \o t = p,
           NEW eof, Token(s, eof).kind = "packet"
    PROVE  s = p /\ t = <<>>
<1>1. PICK l \in Nat, k \in Nat : l = Len(s) /\ k = Len(t) /\ Len(p) = l + k
  BY LenProperties, ConcatProperties
<1>2. At(p, 1, p)
  <2>1. PICK n \in Nat : n = Len(p)
    BY <1>1
  <2>2. 1 + n - 1 <= n /\ \A j \in 1..n : 1 + j - 1 = j
    OBVIOUS
  <2> QED
    BY <2>1, <2>2 DEF At
<1>3. At(s, 1, p)
  BY <1>2, PartAtHead
<1>4. 1 + (l + k) - 1 <= l
  BY <1>1, <1>3 DEF At
<1>5. t = <<>>
  BY <1>1, <1>4, EmptySeq
<1> QED
  BY <1>5, ConcatEmptySeq

----------------------------------------------------------------------------
(* Texts that carry packets. *)

(* What is left when the first characters are taken ...                    *)
LEMMA RestOf ==
    ASSUME NEW s \in Seq(Nat), NEW k \in 0..Len(s)
    PROVE  IsRest(SubSeq(s, k + 1, Len(s)), s, k)
<1>1. PICK l \in Nat : l = Len(s)
  BY LenProperties
<1>2. PICK u : u = SubSeq(s, k + 1, l)
  OBVIOUS
<1>3. u \in Seq(Nat) /\ Len(u) = l - k /\ \A i \in 1..(l - k) : u[i] = s[i + k]
  BY <1>1, <1>2
<1> QED
  BY <1>1, <1>2, <1>3 DEF IsRest

(* ... and something else follows.                                         *)
LEMMA RestBefore ==
    ASSUME NEW s \in Seq(Nat), NEW t \in Seq(Nat), NEW u, NEW k, IsRest(u, s, k)
    PROVE  IsRest(u \o t, s \o t, k)
<1>1. PICK l \in Nat, m \in Nat : l = Len(s) /\ m = Len(t)
  BY LenProperties
<1>2. u \in Seq(Nat) /\ k \in 0..l /\ Len(u) = l - k /\ \A i \in 1..(l - k) : u[i] = s[i + k]
  BY <1>1 DEF IsRest
<1>3. PICK v, w : v = u \o t /\ w = s \o t
  OBVIOUS
<1>4. /\ v \in Seq(Nat) /\ Len(v) = (l - k) + m
      /\ \A i \in 1..((l - k) + m) : v[i] = IF i <= l - k THEN u[i] ELSE t[i - (l - k)]
  BY <1>1, <1>2, <1>3, ConcatProperties
<1>5. /\ w \in Seq(Nat) /\ Len(w) = l + m
      /\ \A i \in 1..(l + m) : w[i] = IF i <= l THEN s[i] ELSE t[i - l]
  BY <1>1, <1>3, ConcatProperties
<1>6. ASSUME NEW i \in 1..((l - k) + m) PROVE v[i] = w[i + k]
  <2>1. CASE i <= l - k
    <3>1. i \in 1..(l - k) /\ i + k \in 1..(l + m) /\ i + k <= l
      BY <1>2, <2>1
    <3> QED
      BY <1>2, <1>4, <1>5, <2>1, <3>1
  <2>2. CASE ~(i <= l - k)
    <3>1. PICK j : j = i - (l - k) /\ j = (i + k) - l
      BY <1>2
    <3>2. i + k \in 1..(l + m) /\ ~(i + k <= l)
      BY <1>2, <2>2
    <3>3. v[i] = t[j]
      BY <1>4, <2>2, <3>1
    <3>4. w[i + k] = t[j]
      BY <1>5, <3>1, <3>2
    <3> QED
      BY <3>3, <3>4
  <2> QED
    BY <2>1, <2>2
<1>7. k \in 0..(l + m) /\ Len(v) = Len(w) - k
  BY <1>2, <1>4, <1>5
<1> QED
  BY <1>3, <1>4, <1>5, <1>6, <1>7 DEF IsRest

(* The rest carries what the whole carried.                                *)
LEMMA RestCarries ==
    ASSUME NEW P, NEW w, NEW u, NEW k, Carries(w, P), IsRest(u, w, k), \A p \in P : Len(p) \in Nat
    PROVE  Carries(u, P)
<1>1. PICK l \in Nat, n \in Nat : l = Len(w) /\ n = Len(u)
  BY LenProperties DEF Carries, IsRest
<1>2. u \in Seq(Nat) /\ k \in 0..l /\ n = l - k /\ \A i \in 1..n : u[i] = w[i + k]
  BY <1>1 DEF IsRest
<1>3. ASSUME NEW i \in 1..n, u[i] = Dollar PROVE \E p \in P : At(u, i, p)
  <2>1. PICK j \in 1..l : j = i + k
    <3>1. i + k \in 1..l
      BY <1>2
    <3> QED
      BY <3>1
  <2>2. PICK p \in P : At(w, j, p)
    BY <1>1, <1>2, <1>3, <2>1 DEF Carries
  <2>3. PICK m \in Nat : m = Len(p)
    OBVIOUS
  <2>4. j + m - 1 <= l /\ \A x \in 1..m : w[j + x - 1] = p[x]
    BY <1>1, <2>2, <2>3 DEF At
  <2>5. i + m - 1 <= n
    BY <1>2, <2>1, <2>4
  <2>6. ASSUME NEW x \in 1..m PROVE u[i + x - 1] = p[x]
    <3>1. PICK y \in 1..n : y = i + x - 1
      <4>1. i + x - 1 \in 1..n
        BY <2>5
      <4> QED
        BY <4>1
    <3>2. y + k = j + x - 1
      BY <1>2, <2>1, <3>1
    <3> QED
      BY <1>2, <2>4, <3>1, <3>2
  <2> QED
    BY <1>1, <2>3, <2>5, <2>6 DEF At
<1> QED
  BY <1>1, <1>2, <1>3 DEF Carries

(* A text behind another one.                                              *)
LEMMA BothCarry ==
    ASSUME NEW P, NEW s, NEW t, Carries(s, P), Carries(t, P), \A p \in P : Len(p) \in Nat
    PROVE  Carries(s \o t, P)
<1>1. s \in Seq(Nat) /\ t \in Seq(Nat)
  BY DEF Carries
<1>2. PICK l \in Nat, m \in Nat : l = Len(s) /\ m = Len(t)
  BY <1>1, LenProperties
<1>3. PICK w : w = s \o t
  OBVIOUS
<1>4. /\ w \in Seq(Nat) /\ Len(w) = l + m
      /\ \A i \in 1..(l + m) : w[i] = IF i <= l THEN s[i] ELSE t[i - l]
  BY <1>1, <1>2, <1>3, ConcatProperties
<1>5. ASSUME NEW i \in 1..(l + m), w[i] = Dollar PROVE \E p \in P : At(w, i, p)
  <2>1. CASE i <= l
    <3>1. i \in 1..l /\ s[i] = Dollar
      BY <1>4, <1>5, <2>1
    <3>2. PICK p \in P : At(s, i, p)
      BY <1>2, <3>1 DEF Carries
    <3>3. PICK n \in Nat : n = Len(p)
      OBVIOUS
    <3>4. i + n - 1 <= l /\ \A x \in 1..n : s[i + x - 1] = p[x]
      BY <1>2, <3>2, <3>3 DEF At
    <3>5. ASSUME NEW x \in 1..n PROVE w[i + x - 1] = p[x]
      <4>1. i + x - 1 \in 1..(l + m) /\ i + x - 1 <= l
        BY <2>1, <3>4
      <4> QED
        BY <1>4, <3>4, <4>1
    <3>6. i + n - 1 <= l + m
      BY <3>4
    <3> QED
      BY <1>4, <3>3, <3>5, <3>6 DEF At
  <2>2. CASE ~(i <= l)
    <3>1. PICK j \in 1..m : j = i - l
      <4>1. i - l \in 1..m
        BY <2>2
      <4> QED
        BY <4>1
    <3>2. t[j] = Dollar
      BY <1>4, <1>5, <2>2, <3>1
    <3>3. PICK p \in P : At(t, j, p)
      BY <1>2, <3>2 DEF Carries
    <3>4. PICK n \in Nat : n = Len(p)
      OBVIOUS
    <3>5. j + n - 1 <= m /\ \A x \in 1..n : t[j + x - 1] = p[x]
      BY <1>2, <3>3, <3>4 DEF At
    <3>6. ASSUME NEW x \in 1..n PROVE w[i + x - 1] = p[x]
      <4>1. i + x - 1 \in 1..(l + m) /\ ~(i + x - 1 <= l)
        BY <2>2, <3>1, <3>5
      <4>2. PICK y : y = (i + x - 1) - l /\ y = j + x - 1
        BY <3>1
      <4>3. w[i + x - 1] = t[y]
        BY <1>4, <4>1, <4>2
      <4> QED
        BY <3>5, <4>2, <4>3
    <3>7. i + n - 1 <= l + m
      BY <3>1, <3>5
    <3> QED
      BY <1>4, <3>4, <3>6, <3>7 DEF At
  <2> QED
    BY <2>1, <2>2
<1> QED
  BY <1>3, <1>4, <1>5 DEF Carries

(* A packet starts with its only "$".                                      *)
LEMMA OnlyDollar ==
    ASSUME NEW p, IsPacket(p)
    PROVE  Len(p) \in Nat /\ p[1] = Dollar /\ \A i \in 1..Len(p) : p[i] = Dollar => i = 1
<1>1. PICK l \in Nat : l = Len(p) /\ l >= 4
  BY LenProperties DEF IsPacket
<1>2. \A c \in HexDigits : c # Dollar
  BY DEF HexDigits, Dollar
<1>3. Hash # Dollar
  BY DEF Hash, Dollar
<1>4. ASSUME NEW i \in 1..l, i # 1 PROVE p[i] # Dollar
  <2>1. i \in 2..(l - 3) \/ i = l - 2 \/ i = l - 1 \/ i = l
    BY <1>1, <1>4
  <2> QED
    BY <1>1, <1>2, <1>3, <2>1 DEF IsPacket
<1> QED
  BY <1>1, <1>4 DEF IsPacket

(* A packet carries itself.                                                *)
LEMMA PacketCarries == ASSUME NEW P, NEW p \in P, IsPacket(p) PROVE Carries(p, P)
<1>1. PICK l \in Nat : l = Len(p)
  BY OnlyDollar
<1>2. p \in Seq(Nat) /\ \A i \in 1..l : p[i] = Dollar => i = 1
  BY <1>1, OnlyDollar DEF IsPacket
<1>3. At(p, 1, p)
  <2>1. 1 + l - 1 <= l /\ \A j \in 1..l : 1 + j - 1 = j
    BY <1>1
  <2> QED
    BY <1>1, <2>1 DEF At
<1> QED
  BY <1>1, <1>2, <1>3 DEF Carries

(* A text without "$" carries nothing.                                     *)
LEMMA EmptyCarries ==
    ASSUME NEW P
    PROVE  Carries(<<>>, P) /\ \A c \in Nat : c # Dollar => Carries(<<c>>, P)
<1>1. Carries(<<>>, P)
  BY EmptySeq DEF Carries
<1>2. ASSUME NEW c \in Nat, c # Dollar PROVE Carries(<<c>>, P)
  <2>1. PICK s : s = <<c>>
    OBVIOUS
  <2>2. s \in Seq(Nat) /\ Len(s) = 1 /\ s[1] = c
    BY <2>1
  <2>3. \A i \in 1..Len(s) : s[i] # Dollar
    BY <1>2, <2>2
  <2> QED
    BY <2>1, <2>2, <2>3 DEF Carries
<1> QED
  BY <1>1, <1>2

(* More packets may be carried.                                            *)
LEMMA MoreCarried == ASSUME NEW P, NEW Q, NEW s, Carries(s, P), P \subseteq Q PROVE Carries(s, Q)
BY DEF Carries

----------------------------------------------------------------------------
(* What gdb takes from the connection, the rest being on its way.          *)
LEMMA Fronts ==
    ASSUME NEW s \in Seq(Nat), NEW t \in Seq(Nat), NEW w \in Seq(Nat), s \o t = w, s # <<>>
    PROVE  /\ Head(s) = s[1] /\ s[1] = w[1] /\ Tail(s) \in Seq(Nat)
           /\ Tail(s) \o t = Tail(w)
<1>1. Len(s) \in Nat /\ Len(s) >= 1 /\ Len(t) \in Nat
  BY LenProperties, EmptySeq
<1>2. Len(w) = Len(s) + Len(t) /\ \A i \in 1..Len(w) : w[i] = IF i <= Len(s) THEN s[i] ELSE t[i - Len(s)]
  BY ConcatProperties
<1>3. s[1] = w[1]
  BY <1>1, <1>2
<1>4. Head(s) = s[1] /\ Tail(s) \in Seq(Nat)
  BY <1>1
<1>5. Tail(s) \o t = Tail(w)
  <2>1. PICK u, v : u = Tail(s) \o t /\ v = Tail(w)
    OBVIOUS
  <2>2. PICK l \in Nat, k \in Nat : l = Len(s) /\ k = Len(t) /\ l >= 1
    BY <1>1
  <2>3. /\ Len(Tail(s)) = l - 1 /\ \A i \in 1..(l - 1) : Tail(s)[i] = s[i + 1]
    BY <2>2
  <2>4. /\ u \in Seq(Nat) /\ Len(u) = (l - 1) + k
        /\ \A i \in 1..((l - 1) + k) : u[i] = IF i <= l - 1 THEN Tail(s)[i] ELSE t[i - (l - 1)]
    BY <1>4, <2>1, <2>2, <2>3, ConcatProperties
  <2>5. /\ v \in Seq(Nat) /\ Len(v) = (l - 1) + k
        /\ \A i \in 1..((l - 1) + k) : v[i] = w[i + 1]
    <3>1. w # <<>> /\ Len(w) = l + k
      BY <1>2, <2>2, EmptySeq
    <3>2. /\ v \in Seq(Nat) /\ Len(v) = Len(w) - 1 /\ \A i \in 1..Len(v) : v[i] = w[i + 1]
      BY <2>1, <3>1, HeadTailProperties
    <3> QED
      BY <3>1, <3>2
  <2>6. ASSUME NEW i \in 1..((l - 1) + k) PROVE u[i] = v[i]
    <3>0. i + 1 \in 1..(l + k)
      BY <2>2
    <3>1. v[i] = w[i + 1]
      BY <2>5
    <3>2. w[i + 1] = IF i + 1 <= l THEN s[i + 1] ELSE t[(i + 1) - l]
      BY <1>2, <2>2, <3>0
    <3>3. (i + 1 <= l <=> i <= l - 1) /\ (i + 1) - l = i - (l - 1) /\ (i <= l - 1 => i \in 1..(l - 1))
      OBVIOUS
    <3> QED
      BY <2>3, <2>4, <3>1, <3>2, <3>3
  <2>7. u = v
    BY <2>4, <2>5, <2>6, SeqEqual
  <2> QED
    BY <2>1, <2>7
<1> QED
  BY <1>3, <1>4, <1>5

(* A single character is on one of the two sides.                          *)
LEMMA SingleFront ==
    ASSUME NEW s \in Seq(Nat), NEW t \in Seq(Nat), NEW x \in Nat, s \o t = <<x>>, s # <<>>
    PROVE  s = <<x>> /\ t = <<>>
<1>1. Len(s) \in Nat /\ Len(s) >= 1 /\ Len(t) \in Nat
  BY LenProperties, EmptySeq
<1>2. Len(s \o t) = Len(s) + Len(t)
  BY ConcatProperties
<1>3. Len(t) = 0
  BY <1>1, <1>2
<1>4. t = <<>>
  BY <1>3, EmptySeq
<1> QED
  BY <1>4, ConcatEmptySeq

(* An answer, in its frame, is a packet.                                   *)
LEMMA ReplyIsPacket ==
    ASSUME AnswersArePlain, NEW e \in Seq(Requests), e # <<>>
    PROVE  /\ Reply(e) \in Seq(Plain) /\ IsPacket(gdb_send_buffer(Reply(e)))
<1>1. PICK data : data = Reply(e)
  OBVIOUS
<1>2. data = Answer(e) \/ data = <<>>
  BY <1>1 DEF Reply
<1>3. data \in Seq(Plain)
  <2>1. CASE data = Answer(e)
    BY <2>1 DEF AnswersArePlain
  <2>2. CASE data = <<>>
    BY <2>2, EmptySeq
  <2> QED
    BY <1>2, <2>1, <2>2
<1>4. IsPacket(gdb_send_buffer(data))
  BY <1>3, Framed
<1> QED
  BY <1>1, <1>3, <1>4

(* What the handler leaves in the buffer.                                  *)
LEMMA HandleFrames ==
    ASSUME AnswersArePlain, History, Streams, Handle
    PROVE  /\ executed' = Append(executed, request) /\ request \in Requests
           /\ executed' \in Seq(Requests) /\ Len(executed') = Len(executed) + 1
           /\ packet' = gdb_send_buffer(Reply(executed')) /\ IsPacket(packet')
<1>1. server = "handle" /\ executed' = Append(executed, request)
      /\ packet' = gdb_send_buffer(Reply(executed'))
  BY DEF Handle
<1>2. request \in Requests
  <2>1. PICK k \in 1..Len(asked) : request = asked[k]
    BY <1>1 DEF Streams
  <2> QED
    BY <2>1, ElementOfSeq DEF History
<1>3. executed' \in Seq(Requests) /\ Len(executed') = Len(executed) + 1 /\ executed' # <<>>
  BY <1>1, <1>2, AppendProperties DEF History
<1>4. PICK e : e = executed'
  OBVIOUS
<1>5. IsPacket(gdb_send_buffer(Reply(e)))
  BY <1>3, <1>4, ReplyIsPacket
<1> QED
  BY <1>1, <1>2, <1>3, <1>4, <1>5

----------------------------------------------------------------------------
(* The dialogue, action by action.                                         *)

(* Bytes sent in two pieces are the bytes sent at once.                     *)
LEMMA Regrouped ==
    ASSUME NEW s \in Seq(Nat), NEW t \in Seq(Nat), NEW u \in Seq(Nat)
    PROVE  (s \o t) \o u = s \o (t \o u)
<1>1. PICK l \in Nat, m \in Nat, n \in Nat : l = Len(s) /\ m = Len(t) /\ n = Len(u)
  BY LenProperties
<1>2. /\ s \o t \in Seq(Nat) /\ Len(s \o t) = l + m
      /\ \A i \in 1..(l + m) : (s \o t)[i] = IF i <= l THEN s[i] ELSE t[i - l]
  BY <1>1, ConcatProperties
<1>3. /\ t \o u \in Seq(Nat) /\ Len(t \o u) = m + n
      /\ \A i \in 1..(m + n) : (t \o u)[i] = IF i <= m THEN t[i] ELSE u[i - m]
  BY <1>1, ConcatProperties
<1>4. PICK a, b : a = s \o t /\ b = t \o u
  OBVIOUS
<1>5. /\ a \o u \in Seq(Nat) /\ Len(a \o u) = l + m + n
      /\ \A i \in 1..(l + m + n) : (a \o u)[i] = IF i <= l + m THEN a[i] ELSE u[i - (l + m)]
  BY <1>1, <1>2, <1>4, ConcatProperties
<1>6. /\ s \o b \in Seq(Nat) /\ Len(s \o b) = l + m + n
      /\ \A i \in 1..(l + m + n) : (s \o b)[i] = IF i <= l THEN s[i] ELSE b[i - l]
  <2>1. l + (m + n) = l + m + n
    OBVIOUS
  <2> QED
    BY <1>1, <1>3, <1>4, <2>1, ConcatProperties
<1>7. ASSUME NEW i \in 1..(l + m + n) PROVE (a \o u)[i] = (s \o b)[i]
  <2>1. CASE i <= l
    BY <1>2, <1>4, <1>5, <1>6, <2>1
  <2>2. CASE l < i /\ i <= l + m
    <3>1. i - l \in 1..(m + n) /\ i - l <= m /\ i \in 1..(l + m)
      BY <2>2
    <3> QED
      BY <1>2, <1>3, <1>4, <1>5, <1>6, <2>2, <3>1
  <2>3. CASE l + m < i
    <3>1. PICK j \in 1..(m + n), k \in 1..n : j = i - l /\ k = i - (l + m) /\ k = j - m /\ ~(j <= m)
      BY <2>3
    <3>2. ~(i <= l) /\ ~(i <= l + m)
      BY <2>3
    <3>3. (a \o u)[i] = u[k]
      BY <1>5, <3>1, <3>2
    <3>4. (s \o b)[i] = b[j]
      BY <1>6, <3>1, <3>2
    <3>5. b[j] = u[k]
      BY <1>3, <1>4, <3>1
    <3> QED
      BY <3>3, <3>4, <3>5
  <2>4. i <= l \/ (l < i /\ i <= l + m) \/ l + m < i
    OBVIOUS
  <2> QED
    BY <2>1, <2>2, <2>3, <2>4
<1> QED
  BY <1>4, <1>5, <1>6, <1>7, SeqEqual

(* Short writes do not lose a character.                                   *)
LEMMA WriteStep ==
    ASSUME Line, rio_writen
    PROVE  Line' /\ (client # "closed" => toClient' \o left' = toClient \o left)
<1>1. PICK n \in 1..Len(left) :
        /\ left' = SubSeq(left, n + 1, Len(left))
        /\ toClient' = IF client = "closed" THEN toClient ELSE toClient \o SubSeq(left, 1, n)
  BY DEF rio_writen
<1>2. toClient \in Seq(Nat) /\ left \in Seq(Nat) /\ toServer \in Seq(Nat) /\ toServer' = toServer
  BY DEF rio_writen, Line
<1>3. PICK u, v : u = SubSeq(left, 1, n) /\ v = left'
  OBVIOUS
<1>4. u \in Seq(Nat) /\ v \in Seq(Nat) /\ u \o v = left
  <2>1. Len(left) \in Nat /\ n + 1 \in 1..(Len(left) + 1) /\ 1 \in 1..(Len(left) + 1)
        /\ n \in 0..Len(left) /\ Len(left) \in ((n + 1) - 1)..Len(left)
    BY <1>2, LenProperties
  <2>2. PICK l \in Nat : l = Len(left)
    BY <2>1
  <2>3. u \in Seq(Nat) /\ Len(u) = n /\ \A i \in 1..n : u[i] = left[i]
    BY <1>2, <1>3, <2>1
  <2>4. v \in Seq(Nat) /\ Len(v) = l - n /\ \A i \in 1..(l - n) : v[i] = left[i + n]
    <3>1. IsRest(v, left, n)
      BY <1>1, <1>2, <1>3, <2>1, RestOf
    <3> QED
      BY <2>2, <3>1 DEF IsRest
  <2>5. u \o v \in Seq(Nat) /\ Len(u \o v) = l
        /\ \A i \in 1..l : (u \o v)[i] = IF i <= n THEN u[i] ELSE v[i - n]
    <3>1. Len(u) + Len(v) = l
      BY <2>1, <2>2, <2>3, <2>4
    <3>2. u \in Seq(Nat) /\ v \in Seq(Nat) /\ Len(u) = n
      BY <2>3, <2>4
    <3>3. /\ u \o v \in Seq(Nat) /\ Len(u \o v) = Len(u) + Len(v)
          /\ \A i \in 1..(Len(u) + Len(v)) : (u \o v)[i] = IF i <= Len(u) THEN u[i] ELSE v[i - Len(u)]
      BY <3>2, ConcatProperties
    <3> QED
      BY <3>1, <3>2, <3>3
  <2>6. ASSUME NEW i \in 1..l PROVE (u \o v)[i] = left[i]
    <3>1. i <= n \/ (i - n \in 1..(l - n) /\ (i - n) + n = i)
      BY <2>2
    <3> QED
      BY <2>3, <2>4, <2>5, <3>1
  <2> QED
    BY <1>2, <2>2, <2>3, <2>4, <2>5, <2>6, SeqEqual
<1>5. toClient \o u \in Seq(Nat) /\ (toClient \o u) \o v = toClient \o left
  <2>1. toClient \o u \in Seq(Nat)
    BY <1>2, <1>4, ConcatProperties
  <2>2. (toClient \o u) \o v = toClient \o (u \o v)
    BY <1>2, <1>4, Regrouped
  <2> QED
    BY <1>4, <2>1, <2>2
<1>6. Line'
  BY <1>1, <1>2, <1>3, <1>4, <1>5 DEF Line
<1> QED
  BY <1>1, <1>3, <1>5, <1>6

(* They do not disturb the dialogue.                                       *)
LEMMA WriteTalks == ASSUME Talk, Undisturbed, rio_writen PROVE Talk'
<1>1. left # <<>> /\ UNCHANGED <<toServer, server, errors, packet, client, sent, asked, executed>>
  BY DEF rio_writen, clientVars
<1>2. Line' /\ toClient' \o left' = toClient \o left
  BY WriteStep DEF Talk, Undisturbed
<1>3. Rejecting \/ (Accepting /\ client = "acking") \/ Answering
  BY <1>1 DEF Talk, Quiet, Asking, Accepting, Complaining
<1>4. Rejecting' \/ Accepting' \/ Answering'
  BY <1>1, <1>2, <1>3 DEF Rejecting, Accepting, Answering
<1> QED
  BY <1>1, <1>2, <1>4 DEF Talk

(* What the scanner finds at the head of the connection.                   *)
LEMMA TokenTalks ==
    ASSUME Talk, Undisturbed, NEW kind, Scan(kind)
    PROVE  \/ kind = "ack" /\ toServer' = Tail(toServer) /\ (Quiet \/ Asking) /\ Head(toServer) = Ack
           \/ kind = "nak" /\ toServer' = <<>> /\ Complaining
           \/ kind = "packet" /\ toServer' = <<>> /\ Asking /\ IsPacket(toServer)
<1>1. /\ toServer # <<>> /\ toServer \in Seq(Nat) /\ left = <<>> /\ server = "scan"
      /\ Token(toServer, Eof).kind = kind
      /\ toServer' = SubSeq(toServer, Token(toServer, Eof).length + 1, Len(toServer))
  BY DEF Scan, Talk, Line
<1>2. Len(toServer) \in Nat /\ Len(toServer) >= 1 /\ Head(toServer) = toServer[1]
  BY <1>1, LenProperties, EmptySeq
<1>3. Quiet \/ Asking \/ Complaining
  BY <1>1 DEF Talk, Rejecting, Accepting, Answering
<1>4. CASE Head(toServer) = Ack
  <2>1. Token(toServer, Eof) = [kind |-> "ack", length |-> 1]
    BY <1>1, <1>2, <1>4, TokenOfAck
  <2>2. kind = "ack" /\ toServer' = SubSeq(toServer, 2, Len(toServer))
    BY <1>1, <2>1
  <2>3. toServer' = Tail(toServer)
    BY <1>1, <2>2, TailIsSubSeq
  <2>4. ~Complaining
    BY <1>4 DEF Complaining, Ack, Nak
  <2> QED
    BY <1>3, <1>4, <2>2, <2>3, <2>4
<1>5. CASE Complaining
  <2>1. toServer = <<Nak>> /\ toServer[1] = Nak /\ Len(toServer) = 1
    BY <1>5 DEF Complaining
  <2>2. Token(toServer, Eof) = [kind |-> "nak", length |-> 1]
    BY <1>1, <2>1, TokenOfAck
  <2>3. kind = "nak" /\ toServer' = SubSeq(toServer, 2, 1)
    BY <1>1, <2>1, <2>2
  <2>4. SubSeq(toServer, 2, 1) = <<>>
    BY SubSeqEmpty
  <2> QED
    BY <1>5, <2>3, <2>4
<1>6. CASE Head(toServer) # Ack /\ ~Complaining
  <2>1. Asking /\ IsPacket(toServer)
    <3>1. CASE Quiet
      BY <1>1, <1>6, <3>1 DEF Quiet
    <3>2. CASE Asking
      BY <1>6, <3>2 DEF Asking
    <3> QED
      BY <1>3, <1>6, <3>1, <3>2
  <2>2. Token(toServer, Eof) = [kind |-> "packet", length |-> Len(toServer)]
    BY <2>1, TokenOfPacket
  <2>3. kind = "packet" /\ toServer' = SubSeq(toServer, Len(toServer) + 1, Len(toServer))
    BY <1>1, <2>2
  <2>4. SubSeq(toServer, Len(toServer) + 1, Len(toServer)) = <<>>
    BY <1>2, SubSeqEmpty
  <2> QED
    BY <2>1, <2>3, <2>4
<1> QED
  BY <1>4, <1>5, <1>6

(* The scanner's actions.                                                  *)
LEMMA ScanTalks ==
    ASSUME Talk, Undisturbed,
           ScanAck \/ ScanNak \/ add_character_to_error \/ gdb_packet_analysis
    PROVE  Talk'
<1>0. errors = 0 /\ handle_error = <<>> /\ Line
  BY DEF Talk, handle_error
<1>e. \A q \in Seq(Nat) : <<>> \o q = q
  BY ConcatEmptySeq
<1>1. CASE ScanAck
  <2>1. /\ Scan("ack") /\ left' = <<>> /\ errors' = 0
        /\ UNCHANGED <<toClient, server, client, sent, asked, executed>>
    BY <1>0, <1>1 DEF ScanAck, Scan, clientVars
  <2>2. toServer' = Tail(toServer) /\ (Quiet \/ Asking) /\ Head(toServer) = Ack /\ toServer # <<>>
    BY <2>1, TokenTalks DEF Scan
  <2>3. Line'
    BY <1>0, <2>1, <2>2, HeadTailProperties DEF Line
  <2>4. CASE Quiet
    <3>1. toServer' = <<>>
      <4>1. toServer \in {<<>>, <<Ack>>}
        BY <2>4 DEF Quiet
      <4>2. toServer = <<Ack>>
        BY <2>2, <4>1
      <4> QED
        BY <2>2, <4>2
    <3>2. Quiet'
      <4>1. Len(asked') = Len(executed')
        BY <2>1, <2>4 DEF Quiet
      <4> QED
        BY <2>1, <2>4, <3>1, <4>1 DEF Quiet
    <3> QED
      BY <2>1, <2>3, <3>2 DEF Talk
  <2>5. CASE Asking
    <3>1. ~IsPacket(toServer)
      <4>1. toServer[1] = Ack
        BY <1>0, <2>2 DEF Line
      <4> QED
        BY <4>1 DEF IsPacket, Ack, Dollar
    <3>2. Asking'
      BY <2>1, <2>2, <2>5, <3>1 DEF Asking
    <3> QED
      BY <2>1, <2>3, <3>2 DEF Talk
  <2> QED
    BY <2>2, <2>4, <2>5
<1>2. CASE ScanNak
  <2>1. Scan("nak") /\ errors' = 0
        /\ UNCHANGED <<toClient, server, client, packet, asked, executed>>
    BY <1>2 DEF ScanNak, Scan, clientVars
  <2>2. toServer' = <<>> /\ Complaining
    BY <2>1, TokenTalks
  <2>3. packet \in Seq(Nat) /\ left' = packet
    BY <1>0, <1>2, <1>e, <2>2 DEF Complaining, IsPacket, ScanNak
  <2>4. Answering'
    BY <1>e, <2>1, <2>2, <2>3 DEF Complaining, Answering, IsPacket
  <2>5. Line'
    BY <1>0, <2>1, <2>2, <2>3 DEF Line
  <2> QED
    BY <2>1, <2>4, <2>5 DEF Talk
<1>3. CASE add_character_to_error
  <2>1. Scan("junk")
    BY <1>3 DEF add_character_to_error
  <2> QED
    BY <2>1, TokenTalks
<1>4. CASE gdb_packet_analysis
  <2>1. Scan("packet") /\ errors' = 0 /\ UNCHANGED <<toClient, client, sent, asked, executed>>
    BY <1>4 DEF gdb_packet_analysis, Scan, clientVars
  <2>2. toServer' = <<>> /\ Asking
    BY <2>1, TokenTalks
  <2>3. /\ toClient' = <<>> /\ client' = "acking" /\ IsPacket(sent)' /\ server = "scan"
        /\ Len(asked') = Len(executed') + 1
    BY <2>1, <2>2 DEF Asking
  <2>4. Ack \in Nat /\ Nak \in Nat
    BY DEF Ack, Nak
  <2>5. \/ left' = <<Ack>> /\ server' = "handle"
        \/ left' = <<Nak>> /\ server' = server
    <3>1. <<Ack>> \in Seq(Nat) /\ <<Nak>> \in Seq(Nat)
      BY <2>4
    <3> QED
      BY <1>0, <1>4, <1>e, <3>1 DEF gdb_packet_analysis
  <2>6. Line'
    <3>1. <<Ack>> \in Seq(Nat) /\ <<Nak>> \in Seq(Nat)
      BY <2>4
    <3>2. <<>> \in Seq(Nat)
      BY EmptySeq
    <3>3. left' \in Seq(Nat)
      BY <2>5, <3>1, Zenon
    <3> QED
      BY <2>2, <2>3, <3>2, <3>3 DEF Line
  <2>7. Rejecting' \/ Accepting'
    BY <1>e, <2>2, <2>3, <2>4, <2>5 DEF Rejecting, Accepting
  <2> QED
    BY <2>1, <2>6, <2>7 DEF Talk
<1> QED
  BY <1>1, <1>2, <1>3, <1>4

(* The handler answers.                                                    *)
LEMMA HandleTalks == ASSUME AnswersArePlain, History, Streams, Talk, Undisturbed, Handle PROVE Talk'
<1>1. IsPacket(packet') /\ packet' \in Seq(Nat) /\ Len(executed') = Len(executed) + 1
  BY HandleFrames DEF IsPacket
<1>2. /\ server = "handle" /\ left = <<>> /\ left' = packet' /\ server' = "scan"
      /\ UNCHANGED <<toServer, toClient, errors, client, asked>>
      /\ executed' = Append(executed, request) /\ packet' = gdb_send_buffer(Reply(executed'))
  BY DEF Handle, lineVars, clientVars
<1>3. Accepting /\ Line /\ errors = 0
  BY <1>2 DEF Talk, Quiet, Asking, Rejecting, Answering, Complaining
<1>4. Ack \in Nat
  BY DEF Ack
<1>5. toClient \o left = toClient
  BY <1>2, <1>3, ConcatEmptySeq DEF Line
<1>6. <<>> \o packet' = packet'
  BY <1>1, ConcatEmptySeq
<1>7. Len(asked') = Len(executed')
  BY <1>1, <1>2, <1>3 DEF Accepting
<1>8. Answering'
  BY <1>1, <1>2, <1>3, <1>5, <1>6, <1>7 DEF Accepting, Answering
<1>9. Line'
  BY <1>1, <1>2, <1>3 DEF Line
<1> QED
  BY <1>2, <1>3, <1>8, <1>9 DEF Talk

(* A packet that gdb sends is one, garbled or not.                         *)
LEMMA SendIsPacket ==
    ASSUME NEW p, IsPacket(p), SendPacket(p)
    PROVE  \E seen : IsPacket(seen) /\ toServer' = toServer \o seen
BY GarbledIsPacket DEF SendPacket

(* gdb asks.                                                               *)
LEMMA AskTalks == ASSUME History, Talk, Undisturbed, NEW r \in Requests, ClientAsks(r) PROVE Talk'
<1>1. /\ client = "idle" /\ client' = "acking" /\ sent' = gdb_send_buffer(r) /\ SendPacket(sent')
      /\ UNCHANGED <<toClient, server, left, errors, executed>> /\ asked' = Append(asked, r)
  BY DEF ClientAsks, serverVars
<1>2. Quiet /\ Line /\ errors = 0
  BY <1>1 DEF Talk, Asking, Rejecting, Accepting, Answering, Complaining
<1>3. IsPacket(sent') /\ Len(asked') = Len(executed') + 1
  <2>1. IsPacket(sent')
    BY <1>1, Framed, TransmissionAssumption
  <2> QED
    BY <1>1, <1>2, <2>1, AppendProperties DEF History, Quiet
<1>4. PICK seen : IsPacket(seen) /\ toServer' = toServer \o seen
  <2>1. PICK p : p = sent'
    OBVIOUS
  <2> QED
    BY <1>1, <1>3, <2>1, SendIsPacket
<1>5. seen \in Seq(Nat) /\ <<Ack>> \in Seq(Nat)
  BY <1>4 DEF IsPacket, Ack
<1>6. CASE toServer = <<>>
  <2>1. toServer' = seen
    BY <1>4, <1>5, <1>6, ConcatEmptySeq
  <2>2. Asking' /\ Line'
    BY <1>1, <1>2, <1>3, <1>4, <1>5, <2>1 DEF Quiet, Asking, Line
  <2> QED
    BY <1>1, <1>2, <2>2 DEF Talk
<1>7. CASE toServer = <<Ack>>
  <2>1. PICK t : t = <<Ack>> \o seen
    OBVIOUS
  <2>2. t \in Seq(Nat) /\ t # <<>> /\ Head(t) = Ack /\ Tail(t) = seen
    BY <1>5, <2>1
  <2>3. Asking' /\ Line'
    BY <1>1, <1>2, <1>3, <1>4, <1>7, <2>1, <2>2 DEF Quiet, Asking, Line
  <2> QED
    BY <1>1, <1>2, <2>3 DEF Talk
<1> QED
  BY <1>2, <1>6, <1>7 DEF Quiet

(* gdb is told that its packet has arrived, or has to repeat it.           *)
LEMMA AckTalks == ASSUME Talk, Undisturbed, ClientTakesAck \/ ClientRepeats PROVE Talk'
<1>0. /\ Line /\ errors = 0 /\ toClient # <<>> /\ client = "acking" /\ toClient' = Tail(toClient)
      /\ UNCHANGED <<server, left, errors, packet, asked, executed>>
  BY DEF Talk, ClientTakesAck, ClientRepeats, serverVars, clientVars
<1>1. Ack \in Nat /\ Nak \in Nat /\ Ack # Nak
  BY DEF Ack, Nak
<1>2. toClient \in Seq(Nat) /\ left \in Seq(Nat) /\ Head(toClient) = toClient[1]
  BY <1>0 DEF Line
<1>3. CASE Rejecting
  <2>1. toClient = <<Nak>> /\ left = <<>>
    BY <1>0, <1>1, <1>2, <1>3, SingleFront DEF Rejecting
  <2>2. ClientRepeats
    BY <1>1, <2>1 DEF ClientTakesAck
  <2>3. PICK seen : IsPacket(seen) /\ toServer' = toServer \o seen
    BY <1>3, <2>2, SendIsPacket DEF ClientRepeats, Rejecting
  <2>4. toServer' = seen
    BY <1>3, <2>3, ConcatEmptySeq DEF Rejecting, IsPacket
  <2>5. toClient' = <<>> /\ UNCHANGED <<sent, client>>
    BY <1>0, <2>1, <2>2 DEF ClientRepeats, clientVars
  <2>6. Asking' /\ Line'
    BY <1>0, <1>3, <2>1, <2>3, <2>4, <2>5 DEF Rejecting, Asking, Line, IsPacket
  <2> QED
    BY <1>0, <2>6 DEF Talk
<1>4. CASE Accepting
  <2>1. toClient = <<Ack>> /\ left = <<>>
    BY <1>0, <1>1, <1>2, <1>4, SingleFront DEF Accepting
  <2>2. ClientTakesAck
    BY <1>1, <2>1 DEF ClientRepeats
  <2>3. toClient' = <<>> /\ client' = "waiting" /\ toServer' = toServer
    BY <1>0, <2>1, <2>2 DEF ClientTakesAck
  <2>4. Accepting' /\ Line'
    BY <1>0, <1>4, <2>1, <2>3, EmptySeq DEF Accepting, Line
  <2> QED
    BY <1>0, <2>4 DEF Talk
<1>5. CASE Answering
  <2>1. PICK w : w = <<Ack>> \o packet
    OBVIOUS
  <2>2. packet \in Seq(Nat) /\ toClient \o left = w
    BY <1>0, <1>5, <2>1 DEF Answering, IsPacket
  <2>3. w \in Seq(Nat) /\ w[1] = Ack /\ Tail(w) = packet
    BY <1>1, <2>1, <2>2
  <2>4. Head(toClient) = Ack /\ Tail(toClient) \in Seq(Nat) /\ Tail(toClient) \o left = packet
    BY <1>0, <1>2, <2>2, <2>3, Fronts
  <2>5. ClientTakesAck
    BY <1>1, <2>4 DEF ClientRepeats
  <2>6. client' = "waiting" /\ toServer' = toServer
    BY <2>5 DEF ClientTakesAck
  <2>7. Answering' /\ Line'
    BY <1>0, <1>5, <2>4, <2>6 DEF Answering, Line
  <2> QED
    BY <1>0, <2>7 DEF Talk
<1> QED
  BY <1>0, <1>3, <1>4, <1>5 DEF Talk, Quiet, Asking, Complaining

(* gdb takes an answer, which is whole.                                    *)
LEMMA AnswerTalks == ASSUME Talk, Undisturbed, ClientTakesAnswer PROVE Talk'
<1>0. /\ Line /\ errors = 0 /\ client = "waiting"
      /\ UNCHANGED <<server, left, errors, packet, asked, executed>>
  BY DEF Talk, ClientTakesAnswer, serverVars
<1>1. PICK p : TakesPacket(p)
  BY DEF ClientTakesAnswer
<1>2. PICK no : no = FALSE
  OBVIOUS
<1>3. /\ toClient # <<>> /\ Token(toClient, no).kind = "packet"
      /\ p = SubSeq(toClient, 1, Token(toClient, no).length)
      /\ toClient' = SubSeq(toClient, Len(p) + 1, Len(toClient))
  BY <1>1, <1>2, Zenon DEF TakesPacket
<1>4. Answering
  BY <1>0, <1>3 DEF Talk, Quiet, Asking, Rejecting, Accepting, Complaining
<1>5. toClient = packet /\ left = <<>> /\ IsPacket(packet)
  BY <1>0, <1>3, <1>4, TokenOfPart DEF Answering, Line
<1>6. toClient' = <<>>
  <2>1. Token(toClient, no) = [kind |-> "packet", length |-> Len(toClient)]
    BY <1>5, TokenOfPacket
  <2>2. toClient \in Seq(Nat) /\ Len(toClient) \in Nat
    BY <1>0, LenProperties DEF Line
  <2>3. p = toClient
    BY <1>3, <2>1, <2>2, SubSeqFull
  <2>4. PICK l \in Int : l = Len(toClient)
    BY <2>2
  <2>5. l < l + 1 /\ l + 1 \in Int
    OBVIOUS
  <2>6. toClient' = SubSeq(toClient, l + 1, l)
    BY <1>3, <2>3, <2>4, Zenon
  <2> QED
    BY <2>5, <2>6, SubSeqEmpty, Zenon
<1>7. /\ toServer = <<>> /\ server = "scan" /\ Len(asked) = Len(executed)
      /\ packet = gdb_send_buffer(Reply(executed))
      /\ \/ toServer' = Append(toServer, Ack) /\ client' = "idle"
         \/ toServer' = Append(toServer, Nak) /\ client' = client
  BY <1>4 DEF Answering, ClientTakesAnswer
<1>8. Append(<<>>, Ack) = <<Ack>> /\ Append(<<>>, Nak) = <<Nak>>
  OBVIOUS
<1>9. Line'
  <2>1. <<Ack>> \in Seq(Nat) /\ <<Nak>> \in Seq(Nat)
    BY DEF Ack, Nak
  <2>2. toServer' \in Seq(Nat)
    BY <1>7, <1>8, <2>1, Zenon
  <2>3. <<>> \in Seq(Nat)
    BY EmptySeq
  <2> QED
    BY <1>0, <1>5, <1>6, <2>2, <2>3, Zenon DEF Line
<1>10. Quiet' \/ Complaining'
  BY <1>0, <1>5, <1>6, <1>7, <1>8 DEF Quiet, Complaining
<1> QED
  BY <1>0, <1>9, <1>10 DEF Talk

(* gdb finds nothing to pass over.                                         *)
LEMMA NothingSkipped == ASSUME Talk, Undisturbed, ClientSkips \/ ClientDrops PROVE FALSE
<1>0. Line /\ toClient # <<>>
  BY DEF Talk, ClientSkips, ClientDrops, TakesPacket
<1>1. Ack \in Nat /\ Nak \in Nat /\ Ack # Dollar /\ Nak # Dollar
  BY DEF Ack, Nak, Dollar
<1>2. toClient \in Seq(Nat) /\ left \in Seq(Nat) /\ Head(toClient) = toClient[1]
  BY <1>0 DEF Line
<1>3. CASE ClientSkips
  <2>1. client = "waiting" /\ Head(toClient) # Dollar
    BY <1>3 DEF ClientSkips
  <2>2. IsPacket(packet) /\ toClient \o left = packet
    BY <1>0, <2>1 DEF Talk, Quiet, Asking, Rejecting, Accepting, Answering, Complaining
  <2>3. packet \in Seq(Nat) /\ packet[1] = Dollar
    BY <2>2 DEF IsPacket
  <2> QED
    BY <1>0, <1>2, <2>1, <2>2, <2>3, Fronts
<1>4. CASE ClientDrops
  <2>1. client = "acking" /\ Head(toClient) = Dollar
    BY <1>4 DEF ClientDrops, TakesPacket
  <2>2. CASE Rejecting \/ Accepting
    <3>1. toClient = <<Nak>> \/ toClient = <<Ack>>
      BY <1>0, <1>1, <1>2, <2>1, <2>2, SingleFront DEF Rejecting, Accepting
    <3> QED
      BY <1>1, <2>1, <3>1
  <2>3. CASE Answering
    <3>1. PICK w : w = <<Ack>> \o packet
      OBVIOUS
    <3>2. packet \in Seq(Nat) /\ toClient \o left = w
      BY <2>1, <2>3, <3>1 DEF Answering, IsPacket
    <3>3. w \in Seq(Nat) /\ w[1] = Ack
      BY <1>1, <3>1, <3>2
    <3> QED
      BY <1>0, <1>1, <1>2, <2>1, <3>2, <3>3, Fronts
  <2> QED
    BY <1>0, <2>1, <2>2, <2>3 DEF Talk, Quiet, Asking, Complaining
<1> QED
  BY <1>3, <1>4

(* The dialogue goes on.                                                   *)
LEMMA TalkStep ==
    ASSUME AnswersArePlain, History, Streams, Talk, Undisturbed, TxNext, Undisturbed'
    PROVE  Talk'
<1>1. ~WriteFails /\ ~ScanEof /\ ~ClientCloses
  BY DEF Undisturbed, WriteFails, ScanEof, Eof, ClientCloses
<1>2. ~ClientInterrupts
  BY DEF Undisturbed, ClientInterrupts
<1>3. CASE gdb_scanner
  BY <1>1, <1>3, WriteTalks, ScanTalks, HandleTalks DEF gdb_scanner
<1>4. CASE Client
  BY <1>1, <1>2, <1>4, AskTalks, AckTalks, AnswerTalks, NothingSkipped DEF Client, ClientReads
<1> QED
  BY <1>3, <1>4 DEF TxNext

(* Nothing undoes a disturbance.                                           *)
LEMMA Before ==
    ASSUME strays \in Nat, [TxNext]_txVars
    PROVE  strays' \in Nat /\ (Undisturbed' => Undisturbed) /\ (strays' = 0 => strays = 0)
<1>1. strays' = strays \/ strays' = strays + 1
  BY DEF TxNext, gdb_scanner, Client, ClientReads, rio_writen, WriteFails, ScanAck, ScanNak,
         add_character_to_error, gdb_packet_analysis, Handle, ScanEof, Scan, ClientAsks,
         ClientTakesAck, ClientRepeats, ClientTakesAnswer, ClientSkips, ClientDrops,
         ClientInterrupts, ClientCloses, clientVars, txVars
<1>2. client = "closed" => client' = "closed"
  BY DEF TxNext, gdb_scanner, Client, ClientReads, rio_writen, WriteFails, ScanAck, ScanNak,
         add_character_to_error, gdb_packet_analysis, Handle, ScanEof, Scan, ClientAsks,
         ClientTakesAck, ClientRepeats, ClientTakesAnswer, ClientSkips, ClientDrops,
         ClientInterrupts, ClientCloses, clientVars, txVars
<1> QED
  BY <1>1, <1>2 DEF Undisturbed

----------------------------------------------------------------------------
(* The texts on the connection, whatever gdb sends. *)

(* The packets of the requests.                                            *)
LEMMA ArrivalsArePackets == ASSUME NEW r \in Requests, NEW p \in Arrivals(r) PROVE IsPacket(p)
<1>1. IsPacket(gdb_send_buffer(r))
  BY Framed, TransmissionAssumption
<1> QED
  BY <1>1, GarbledIsPacket DEF Arrivals

(* A request adds its own packets.                                         *)
LEMMA AskedGrow ==
    ASSUME NEW a \in Seq(Requests)
    PROVE  /\ \A p \in AskedPackets(a) : IsPacket(p)
           /\ \A k \in 1..Len(a) : Arrivals(a[k]) \subseteq AskedPackets(a)
           /\ \A r \in Requests : AskedPackets(a) \subseteq AskedPackets(Append(a, r))
<1>1. \A k \in 1..Len(a) : a[k] \in Requests
  BY ElementOfSeq
<1>2. \A p \in AskedPackets(a) : IsPacket(p)
  BY <1>1, ArrivalsArePackets DEF AskedPackets
<1>3. \A k \in 1..Len(a) : Arrivals(a[k]) \subseteq AskedPackets(a)
  BY DEF AskedPackets
<1>4. ASSUME NEW r \in Requests PROVE AskedPackets(a) \subseteq AskedPackets(Append(a, r))
  <2>1. PICK b : b = Append(a, r)
    OBVIOUS
  <2>2. Len(b) = Len(a) + 1 /\ Len(a) \in Nat /\ \A k \in 1..Len(a) : b[k] = a[k]
    BY <2>1, AppendProperties, LenProperties
  <2>3. \A k \in 1..Len(a) : k \in 1..Len(b)
    BY <2>2
  <2> QED
    BY <2>1, <2>2, <2>3 DEF AskedPackets
<1> QED
  BY <1>2, <1>3, <1>4

(* The packets of the answers, and that an execution adds its own.         *)
LEMMA SentGrow ==
    ASSUME AnswersArePlain, NEW e \in Seq(Requests)
    PROVE  /\ \A p \in SentPackets(e) : IsPacket(p)
           /\ \A r \in Requests :
                  /\ SentPackets(e) \subseteq SentPackets(Append(e, r))
                  /\ gdb_send_buffer(Reply(Append(e, r))) \in SentPackets(Append(e, r))
<1>1. PICK l \in Nat : l = Len(e)
  BY LenProperties
<1>2. ASSUME NEW n \in 1..l PROVE IsPacket(gdb_send_buffer(Reply(SubSeq(e, 1, n))))
  <2>1. PICK f : f = SubSeq(e, 1, n)
    OBVIOUS
  <2>2. f \in Seq(Requests) /\ Len(f) = n
    BY <1>1, <2>1
  <2>3. f # <<>>
    BY <2>2, EmptySeq
  <2> QED
    BY <2>1, <2>2, <2>3, ReplyIsPacket
<1>3. ASSUME NEW r \in Requests
      PROVE  /\ SentPackets(e) \subseteq SentPackets(Append(e, r))
             /\ gdb_send_buffer(Reply(Append(e, r))) \in SentPackets(Append(e, r))
  <2>1. PICK f : f = Append(e, r)
    OBVIOUS
  <2>2. f \in Seq(Requests) /\ Len(f) = l + 1 /\ \A i \in 1..l : f[i] = e[i]
    BY <1>1, <2>1, AppendProperties
  <2>3. ASSUME NEW n \in 1..l PROVE SubSeq(e, 1, n) = SubSeq(f, 1, n) /\ n \in 1..Len(f)
    <3>1. PICK u, v : u = SubSeq(e, 1, n) /\ v = SubSeq(f, 1, n)
      OBVIOUS
    <3>2. u \in Seq(Requests) /\ Len(u) = n /\ \A i \in 1..n : u[i] = e[i]
      BY <1>1, <3>1
    <3>3. v \in Seq(Requests) /\ Len(v) = n /\ \A i \in 1..n : v[i] = f[i]
      BY <2>2, <3>1
    <3>4. \A i \in 1..n : u[i] = v[i]
      BY <2>2, <3>2, <3>3
    <3>5. u = v
      BY <3>2, <3>3, <3>4, SeqEqual
    <3> QED
      BY <2>2, <3>1, <3>5
  <2>4. SubSeq(f, 1, Len(f)) = f /\ Len(f) \in 1..Len(f)
    BY <2>2, SubSeqFull
  <2> QED
    BY <1>1, <2>1, <2>3, <2>4 DEF SentPackets
<1> QED
  BY <1>1, <1>2, <1>3 DEF SentPackets

(* What the scanner takes from a text that carries packets.                *)
LEMMA ScanStep ==
    ASSUME NEW P, Carries(toServer, P), \A p \in P : IsPacket(p), NEW kind, Scan(kind)
    PROVE  \E k \in Nat :
               /\ IsRest(toServer', toServer, k) /\ k >= 1
               /\ kind = "packet" =>
                     toServer[1] = Dollar /\ Taken \in P /\ 1 \in 1..Len(toServer)
<1>1. /\ toServer # <<>> /\ toServer \in Seq(Nat)
      /\ Token(toServer, Eof).kind = kind
      /\ toServer' = SubSeq(toServer, Token(toServer, Eof).length + 1, Len(toServer))
  BY DEF Scan, Carries
<1>2. PICK l \in Nat : l = Len(toServer) /\ l >= 1
  <2>1. Len(toServer) \in Nat /\ Len(toServer) >= 1
    BY <1>1, LenProperties, EmptySeq
  <2> QED
    BY <2>1
<1>3. PICK end : end = Eof
  OBVIOUS
<1>4. CASE toServer[1] = Dollar
  <2>1. 1 \in 1..Len(toServer)
    BY <1>2
  <2>2. PICK p \in P : At(toServer, 1, p)
    BY <1>4, <2>1 DEF Carries
  <2>3. /\ Token(toServer, end) = [kind |-> "packet", length |-> Len(p)]
        /\ Len(p) \in 1..Len(toServer) /\ SubSeq(toServer, 1, Len(p)) = p
    BY <1>1, <2>2, WholeAtHead
  <2>4. Token(toServer, Eof).length = Len(p)
    BY <1>3, <2>3
  <2>5. Taken = p
    BY <2>3, <2>4 DEF Taken
  <2>6. PICK k \in Nat : k = Len(p) /\ k \in 1..l
    BY <1>2, <2>3
  <2>7. k \in 0..Len(toServer) /\ toServer' = SubSeq(toServer, k + 1, Len(toServer))
    BY <1>1, <1>2, <2>4, <2>6
  <2>8. IsRest(toServer', toServer, k)
    BY <1>1, <2>7, RestOf
  <2> QED
    BY <1>4, <2>1, <2>5, <2>6, <2>8
<1>5. CASE toServer[1] # Dollar
  <2>1. Token(toServer, end).length = 1 /\ Token(toServer, end).kind # "packet"
    BY <1>1, <1>5, TokenOfOther
  <2>2. Token(toServer, Eof).length = 1 /\ kind # "packet"
    BY <1>1, <1>3, <2>1
  <2>3. 1 \in 0..Len(toServer)
    BY <1>2
  <2>4. IsRest(toServer', toServer, 1)
    BY <1>1, <2>2, <2>3, RestOf
  <2> QED
    BY <2>2, <2>4
<1> QED
  BY <1>4, <1>5

(* What gdb takes as a packet from a text that carries packets.            *)
LEMMA TakeStep ==
    ASSUME NEW P, Carries(toClient \o left, P), Line, \A p \in P : IsPacket(p),
           NEW p, TakesPacket(p)
    PROVE  p \in P /\ \E k \in Nat : IsRest(toClient', toClient, k)
<1>1. PICK no : no = FALSE
  OBVIOUS
<1>2. /\ toClient # <<>> /\ Head(toClient) = Dollar /\ Token(toClient, no).kind = "packet"
      /\ p = SubSeq(toClient, 1, Token(toClient, no).length)
      /\ toClient' = SubSeq(toClient, Len(p) + 1, Len(toClient))
  BY <1>1, Zenon DEF TakesPacket
<1>3. toClient \in Seq(Nat) /\ left \in Seq(Nat) /\ Head(toClient) = toClient[1]
  BY <1>2 DEF Line
<1>4. PICK l \in Nat, m \in Nat : l = Len(toClient) /\ m = Len(left) /\ l >= 1
  <2>1. Len(toClient) \in Nat /\ Len(toClient) >= 1 /\ Len(left) \in Nat
    BY <1>2, <1>3, LenProperties, EmptySeq
  <2> QED
    BY <2>1
<1>5. PICK w : w = toClient \o left
  OBVIOUS
<1>6. Len(w) = l + m /\ w[1] = toClient[1] /\ 1 \in 1..Len(w)
  BY <1>3, <1>4, <1>5, ConcatProperties
<1>7. PICK q \in P : At(w, 1, q)
  BY <1>2, <1>3, <1>5, <1>6 DEF Carries
<1>8. At(toClient, 1, q)
  BY <1>2, <1>3, <1>5, <1>7, PartAtHead
<1>9. /\ Token(toClient, no) = [kind |-> "packet", length |-> Len(q)]
      /\ Len(q) \in 1..Len(toClient) /\ SubSeq(toClient, 1, Len(q)) = q
  BY <1>3, <1>7, <1>8, WholeAtHead
<1>10. p = q
  BY <1>2, <1>9
<1>11. PICK k \in Nat : k = Len(p) /\ k \in 0..Len(toClient)
  BY <1>4, <1>9, <1>10
<1>12. IsRest(toClient', toClient, k)
  BY <1>2, <1>3, <1>11, RestOf
<1> QED
  BY <1>7, <1>10, <1>12

(* gdb takes the answer of one of the executions, and knows when it was    *)
(* garbled; undisturbed, that is the last execution.                       *)
LEMMA AnswerStep ==
    ASSUME AnswersArePlain, History, Streams, Undisturbed => Talk, ClientTakesAnswer
    PROVE  /\ UNCHANGED <<server, request, left, packet, executed, sent, asked, strays>>
           /\ \E k \in Nat : IsRest(toClient', toClient, k)
           /\ \/ toServer' = toServer \o <<Nak>> /\ UNCHANGED <<client, answered>>
              \/ /\ toServer' = toServer \o <<Ack>> /\ client' = "idle"
                 /\ \E n \in 1..Len(executed) :
                       /\ Reply(SubSeq(executed, 1, n)) \in Seq(Plain)
                       /\ answered' = Append(answered, Reply(SubSeq(executed, 1, n)))
                       /\ strays = 0 => n = Len(executed) /\ Len(executed) = Len(asked)
<1>1. client = "waiting"
  BY DEF ClientTakesAnswer
<1>2. PICK p, seen :
        /\ TakesPacket(p) /\ seen \in {p} \cup Garbled(p)
        /\ IF CheckOk(seen)
           THEN /\ toServer' = Append(toServer, Ack) /\ client' = "idle"
                /\ answered' = Append(answered, Content(seen))
           ELSE toServer' = Append(toServer, Nak) /\ UNCHANGED <<client, answered>>
  BY DEF ClientTakesAnswer
<1>3. UNCHANGED <<server, request, left, packet, executed, sent, asked, strays>>
  BY DEF ClientTakesAnswer, serverVars
<1>4. p \in SentPackets(executed) /\ \E k \in Nat : IsRest(toClient', toClient, k)
  <2>1. Line /\ Carries(toClient \o left, SentPackets(executed)) /\ executed \in Seq(Requests)
    BY <1>1 DEF Streams, History
  <2> QED
    BY <1>2, <2>1, SentGrow, TakeStep
<1>5. Append(toServer, Ack) = toServer \o <<Ack>> /\ Append(toServer, Nak) = toServer \o <<Nak>>
  <2>1. toServer \in Seq(Nat) /\ Ack \in Nat /\ Nak \in Nat
    BY DEF Streams, Line, Ack, Nak
  <2> QED
    BY <2>1, AppendIsConcat
<1>6. CASE CheckOk(seen)
  <2>1. PICK l \in Nat : l = Len(executed)
    BY LenProperties DEF History
  <2>2. PICK n \in 1..l :
          /\ p = gdb_send_buffer(Reply(SubSeq(executed, 1, n)))
          /\ strays = 0 => n = l /\ l = Len(asked)
    <3>1. PICK m \in 1..l : p = gdb_send_buffer(Reply(SubSeq(executed, 1, m)))
      BY <1>4, <2>1 DEF SentPackets
    <3>2. CASE strays = 0
      <4>1. Undisturbed /\ Talk
        BY <1>1, <3>2 DEF Undisturbed
      <4>2. PICK no : no = FALSE
        OBVIOUS
      <4>3. /\ toClient # <<>> /\ Token(toClient, no).kind = "packet"
            /\ p = SubSeq(toClient, 1, Token(toClient, no).length)
        BY <1>2, <4>2, Zenon DEF TakesPacket
      <4>4. Answering /\ Line
        BY <1>1, <4>1, <4>3 DEF Talk, Quiet, Asking, Rejecting, Accepting, Complaining
      <4>5. toClient = packet /\ IsPacket(packet)
        BY <1>1, <4>3, <4>4, TokenOfPart DEF Answering, Line
      <4>6. Token(toClient, no) = [kind |-> "packet", length |-> Len(toClient)]
        BY <4>5, TokenOfPacket
      <4>7. p = packet
        BY <4>3, <4>4, <4>5, <4>6, SubSeqFull DEF Line
      <4>8. p = gdb_send_buffer(Reply(executed)) /\ l = Len(asked)
        BY <2>1, <4>4, <4>7 DEF Answering
      <4>9. SubSeq(executed, 1, l) = executed
        BY <2>1, SubSeqFull DEF History
      <4>10. l \in 1..l
        BY <3>1
      <4> QED
        BY <4>8, <4>9, <4>10
    <3>3. CASE strays # 0
      BY <3>1, <3>3
    <3> QED
      BY <3>2, <3>3
  <2>3. PICK f : f = SubSeq(executed, 1, n)
    OBVIOUS
  <2>4. f \in Seq(Requests) /\ Len(f) = n
    BY <2>1, <2>3 DEF History
  <2>5. f # <<>>
    BY <2>4, EmptySeq
  <2>6. Reply(f) \in Seq(Plain)
    BY <2>4, <2>5, ReplyIsPacket
  <2>7. Content(seen) = Reply(f)
    BY <1>2, <1>6, <2>2, <2>3, <2>6, CheckedIsSent
  <2> QED
    BY <1>2, <1>3, <1>4, <1>5, <1>6, <2>1, <2>2, <2>3, <2>6, <2>7
<1>7. CASE ~CheckOk(seen)
  BY <1>2, <1>3, <1>4, <1>5, <1>7
<1> QED
  BY <1>6, <1>7

(* The requests, the executions and the answers stay in step with gdb.     *)
LEMMA HistoryStep ==
    ASSUME AnswersArePlain, History, Streams, Undisturbed => Talk, [TxNext]_txVars
    PROVE  History'
<1>1. CASE \E r \in Requests : ClientAsks(r)
  <2>1. PICK r \in Requests : ClientAsks(r)
    BY <1>1
  <2>2. /\ client = "idle" /\ client' = "acking" /\ sent' = gdb_send_buffer(r)
        /\ asked' = Append(asked, r) /\ UNCHANGED <<executed, answered>>
    BY <2>1 DEF ClientAsks, serverVars
  <2>3. /\ asked' \in Seq(Requests) /\ Len(asked') = Len(asked) + 1
        /\ asked'[Len(asked')] = r
    BY <2>2, AppendProperties DEF History
  <2> QED
    BY <2>2, <2>3 DEF History
<1>2. CASE Handle
  <2>1. executed' \in Seq(Requests)
    BY <1>2, HandleFrames
  <2>2. UNCHANGED <<asked, answered, client, sent>>
    BY <1>2 DEF Handle, clientVars
  <2> QED
    BY <2>1, <2>2 DEF History
<1>3. CASE ClientTakesAnswer
  <2>1. UNCHANGED <<executed, sent, asked>> /\ client = "waiting"
    BY <1>3, AnswerStep DEF ClientTakesAnswer
  <2>2. CASE UNCHANGED <<client, answered>>
    BY <2>1, <2>2 DEF History
  <2>3. CASE ~UNCHANGED <<client, answered>>
    <3>1. PICK a \in Seq(Plain) : answered' = Append(answered, a) /\ client' = "idle"
      BY <1>3, <2>3, AnswerStep
    <3>2. answered' \in Seq(Seq(Plain)) /\ Len(answered') = Len(answered) + 1
      BY <3>1, AppendProperties DEF History
    <3> QED
      BY <2>1, <3>1, <3>2 DEF History
  <2> QED
    BY <2>2, <2>3
<1>4. CASE ClientTakesAck \/ ClientCloses
  BY <1>4 DEF ClientTakesAck, ClientCloses, History, serverVars
<1>5. ASSUME UNCHANGED <<asked, executed, answered, client, sent>> PROVE History'
  BY <1>5 DEF History
<1>6. CASE rio_writen \/ WriteFails \/ ScanAck \/ ScanNak \/ add_character_to_error
           \/ gdb_packet_analysis \/ ScanEof \/ ClientRepeats \/ ClientSkips \/ ClientDrops
           \/ ClientInterrupts \/ UNCHANGED txVars
  BY <1>5, <1>6 DEF rio_writen, WriteFails, ScanAck, ScanNak, add_character_to_error,
         gdb_packet_analysis, ScanEof, Scan, ClientRepeats, ClientSkips, ClientDrops,
         ClientInterrupts, txVars, clientVars, serverVars
<1> QED
  BY <1>1, <1>2, <1>3, <1>4, <1>6 DEF TxNext, gdb_scanner, Client, ClientReads

(* The first character is taken.                                           *)
LEMMA TailIsRest == ASSUME NEW s \in Seq(Nat), s # <<>> PROVE IsRest(Tail(s), s, 1)
<1>1. PICK l \in Nat : l = Len(s) /\ l >= 1
  <2>1. Len(s) \in Nat /\ Len(s) >= 1
    BY LenProperties, EmptySeq
  <2> QED
    BY <2>1
<1>2. Tail(s) \in Seq(Nat) /\ Len(Tail(s)) = l - 1 /\ \A i \in 1..(l - 1) : Tail(s)[i] = s[i + 1]
  BY <1>1
<1> QED
  BY <1>1, <1>2 DEF IsRest

(* The packets on either side are packets.                                 *)
LEMMA BothArePackets ==
    ASSUME AnswersArePlain, History
    PROVE  /\ \A p \in AskedPackets(asked) : IsPacket(p) /\ Len(p) \in Nat
           /\ \A p \in SentPackets(executed) : IsPacket(p) /\ Len(p) \in Nat
<1>1. /\ \A p \in AskedPackets(asked) : IsPacket(p)
      /\ \A p \in SentPackets(executed) : IsPacket(p)
  BY AskedGrow, SentGrow DEF History
<1> QED
  BY <1>1, OnlyDollar

(* The scanner takes a token and has something to write.                   *)
LEMMA ScanStreams ==
    ASSUME AnswersArePlain, History, Streams, NEW kind, Scan(kind),
           Carries(left', SentPackets(executed)),
           server' = "handle" => \E k \in 1..Len(asked) : request' = asked[k]
    PROVE  Streams'
<1>1. UNCHANGED <<toClient, packet, executed, client, asked>> /\ left = <<>>
  BY DEF Scan, clientVars
<1>2. /\ Line /\ Carries(toServer, AskedPackets(asked))
      /\ \A p \in AskedPackets(asked) : IsPacket(p) /\ Len(p) \in Nat
      /\ \A p \in SentPackets(executed) : Len(p) \in Nat
  BY BothArePackets DEF Streams
<1>3. PICK k \in Nat : IsRest(toServer', toServer, k)
  BY <1>2, ScanStep
<1>4. Carries(toServer', AskedPackets(asked))
  BY <1>2, <1>3, RestCarries
<1>5. Line'
  BY <1>1, <1>2, <1>4 DEF Line, Carries
<1>6. ASSUME client # "closed" PROVE Carries(toClient \o left', SentPackets(executed))
  <2>1. toClient \o left = toClient
    BY <1>1, <1>2, ConcatEmptySeq DEF Line
  <2>2. Carries(toClient, SentPackets(executed))
    BY <1>6, <2>1 DEF Streams
  <2> QED
    BY <1>2, <2>2, BothCarry
<1> QED
  BY <1>1, <1>4, <1>5, <1>6 DEF Streams

(* What handle_error writes.                                               *)
LEMMA ErrorCarries ==
    ASSUME NEW P, \A p \in P : Len(p) \in Nat
    PROVE  /\ Carries(handle_error, P)
           /\ \A q : Carries(q, P) => Carries(handle_error \o q, P)
<1>1. Nak \in Nat /\ Nak # Dollar
  BY DEF Nak, Dollar
<1>2. Carries(<<Nak>>, P) /\ Carries(<<>>, P)
  BY <1>1, EmptyCarries
<1>3. Carries(handle_error, P)
  BY <1>2 DEF handle_error
<1> QED
  BY <1>3, BothCarry

(* The scanner.                                                            *)
LEMMA ScannerStreams ==
    ASSUME AnswersArePlain, History, Streams,
           ScanAck \/ ScanNak \/ add_character_to_error \/ gdb_packet_analysis \/ ScanEof
    PROVE  Streams'
<1> DEFINE P == SentPackets(executed)
<1>1. \A p \in P : IsPacket(p) /\ Len(p) \in Nat
  BY BothArePackets
<1>2. Carries(<<>>, P) /\ Carries(<<Ack>>, P) /\ Carries(<<Nak>>, P)
  <2>1. Ack \in Nat /\ Ack # Dollar /\ Nak \in Nat /\ Nak # Dollar
    BY DEF Ack, Nak, Dollar
  <2> QED
    BY <2>1, EmptyCarries
<1>3. Carries(packet, P)
  BY <1>1, <1>2, PacketCarries DEF Streams
<1>4. Carries(handle_error, P) /\ \A q : Carries(q, P) => Carries(handle_error \o q, P)
  BY <1>1, ErrorCarries
<1>5. server = "handle" => \E k \in 1..Len(asked) : request = asked[k]
  BY DEF Streams
<1>6. CASE ScanAck
  <2>1. Scan("ack") /\ left' = handle_error /\ UNCHANGED <<server, request>>
    BY <1>6 DEF ScanAck
  <2> QED
    BY <1>4, <1>5, <2>1, ScanStreams
<1>7. CASE ScanNak
  <2>1. Scan("nak") /\ left' = handle_error \o packet /\ UNCHANGED <<server, request>>
    BY <1>7 DEF ScanNak
  <2> QED
    BY <1>3, <1>4, <1>5, <2>1, ScanStreams
<1>8. CASE add_character_to_error
  <2>1. Scan("junk") /\ left' \in {handle_error, <<>>} /\ UNCHANGED <<server, request>>
    BY <1>8 DEF add_character_to_error
  <2>2. Carries(left', P)
    BY <1>2, <1>4, <2>1
  <2> QED
    BY <1>5, <2>1, <2>2, ScanStreams
<1>9. CASE gdb_packet_analysis
  <2>1. /\ Scan("packet") /\ left' \in {handle_error \o <<Ack>>, handle_error \o <<Nak>>}
        /\ \/ CheckOk(Taken) /\ request' = Content(Taken)
           \/ UNCHANGED <<server, request>>
    BY <1>9 DEF gdb_packet_analysis
  <2>2. Carries(left', P)
    BY <1>2, <1>4, <2>1
  <2>3. ASSUME CheckOk(Taken), request' = Content(Taken)
        PROVE  \E k \in 1..Len(asked) : request' = asked[k]
    <3>1. /\ Carries(toServer, AskedPackets(asked))
          /\ \A p \in AskedPackets(asked) : IsPacket(p)
      BY BothArePackets DEF Streams
    <3>2. PICK kind : kind = "packet" /\ Scan(kind)
      BY <2>1
    <3>3. Taken \in AskedPackets(asked)
      BY <3>1, <3>2, ScanStep
    <3>4. PICK k \in 1..Len(asked) : Taken \in Arrivals(asked[k])
      BY <3>3 DEF AskedPackets
    <3>5. asked[k] \in Seq(Plain)
      BY ElementOfSeq, TransmissionAssumption DEF History
    <3>6. Content(Taken) = asked[k]
      BY <2>3, <3>4, <3>5, CheckedIsSent DEF Arrivals
    <3> QED
      BY <2>3, <3>6
  <2> QED
    BY <1>5, <2>1, <2>2, <2>3, ScanStreams
<1>10. CASE ScanEof
  <2>1. /\ client = "closed" /\ left' = handle_error /\ server' = "exited"
        /\ UNCHANGED <<toServer, toClient, packet, executed, client, asked>>
    BY <1>10 DEF ScanEof, Eof, lineVars, clientVars
  <2>2. left' \in Seq(Nat)
    BY <1>4, <2>1 DEF Carries
  <2> QED
    BY <2>1, <2>2 DEF Streams, Line
<1> QED
  BY <1>6, <1>7, <1>8, <1>9, <1>10

(* The handler.                                                            *)
LEMMA HandleStreams == ASSUME AnswersArePlain, History, Streams, Handle PROVE Streams'
<1>1. /\ server' # "handle" /\ left' = packet' /\ left = <<>>
      /\ UNCHANGED <<toServer, toClient, client, asked>>
  BY DEF Handle, lineVars, clientVars
<1>2. /\ executed' = Append(executed, request) /\ request \in Requests
      /\ packet' = gdb_send_buffer(Reply(executed')) /\ IsPacket(packet')
      /\ executed' \in Seq(Requests)
  BY HandleFrames
<1>3. packet' \in SentPackets(executed') /\ SentPackets(executed) \subseteq SentPackets(executed')
  BY <1>2, SentGrow DEF History
<1>4. \A p \in SentPackets(executed') : Len(p) \in Nat
  <2>1. PICK e \in Seq(Requests) : e = executed'
    BY <1>2
  <2>2. \A p \in SentPackets(e) : IsPacket(p)
    BY SentGrow
  <2> QED
    BY <2>1, <2>2, OnlyDollar
<1>5. Carries(left', SentPackets(executed'))
  BY <1>1, <1>2, <1>3, PacketCarries
<1>6. ASSUME client # "closed" PROVE Carries(toClient \o left', SentPackets(executed'))
  <2>1. toClient \o left = toClient
    BY <1>1, ConcatEmptySeq DEF Line, Streams
  <2>2. Carries(toClient, SentPackets(executed'))
    BY <1>3, <1>6, <2>1, MoreCarried DEF Streams
  <2> QED
    BY <1>4, <1>5, <2>2, BothCarry
<1>7. Line'
  BY <1>1, <1>5 DEF Streams, Line, Carries
<1> QED
  BY <1>1, <1>3, <1>6, <1>7 DEF Streams

(* gdb reads from the connection, and sends characters that the scanner    *)
(* can tell apart.                                                         *)
LEMMA ClientStreams ==
    ASSUME AnswersArePlain, History, Streams,
           UNCHANGED <<server, request, left, packet, executed>>,
           \/ UNCHANGED toClient
           \/ client # "closed" /\ \E k \in Nat : IsRest(toClient', toClient, k),
           client' # "closed" => client # "closed",
           Carries(toServer', AskedPackets(asked')),
           \A k \in 1..Len(asked) : k \in 1..Len(asked') /\ asked'[k] = asked[k]
    PROVE  Streams'
<1>1. Line /\ \A p \in SentPackets(executed) : Len(p) \in Nat
  BY BothArePackets DEF Streams
<1>2. Line'
  BY <1>1 DEF Line, Carries, IsRest
<1>3. ASSUME client # "closed" PROVE Carries(toClient' \o left', SentPackets(executed'))
  <2>1. Carries(toClient \o left, SentPackets(executed))
    BY <1>3 DEF Streams
  <2>2. CASE UNCHANGED toClient
    BY <2>1, <2>2
  <2>3. CASE ~UNCHANGED toClient
    <3>1. PICK k \in Nat : IsRest(toClient', toClient, k)
      BY <2>3
    <3>2. IsRest(toClient' \o left, toClient \o left, k)
      BY <1>1, <3>1, RestBefore DEF Line
    <3>3. Carries(toClient' \o left, SentPackets(executed))
      BY <1>1, <2>1, <3>2, RestCarries
    <3> QED
      BY <3>3
  <2> QED
    BY <2>2, <2>3
<1> QED
  BY <1>2, <1>3 DEF Streams

(* What gdb may add to the text behind it.                                 *)
LEMMA ServerCarries ==
    ASSUME AnswersArePlain, History, Streams
    PROVE  /\ Carries(toServer, AskedPackets(asked))
           /\ \A c \in {Ack, Nak, Stray} : Carries(toServer \o <<c>>, AskedPackets(asked))
<1>1. \A p \in AskedPackets(asked) : Len(p) \in Nat
  BY BothArePackets
<1>2. Carries(toServer, AskedPackets(asked))
  BY DEF Streams
<1>3. ASSUME NEW c \in {Ack, Nak, Stray} PROVE Carries(<<c>>, AskedPackets(asked))
  <2>1. c \in Nat /\ c # Dollar
    BY <1>3 DEF Ack, Nak, Stray, Dollar
  <2> QED
    BY <2>1, EmptyCarries
<1> QED
  BY <1>1, <1>2, <1>3, BothCarry

(* gdb asks, or repeats a request.                                         *)
LEMMA AskStreams ==
    ASSUME AnswersArePlain, History, Streams, NEW r \in Requests, ClientAsks(r)
    PROVE  Streams'
<1>1. /\ asked' = Append(asked, r) /\ sent' = gdb_send_buffer(r) /\ SendPacket(sent')
      /\ UNCHANGED <<toClient, server, request, left, packet, executed>>
      /\ client = "idle"
  BY DEF ClientAsks, serverVars
<1>2. PICK seen \in Arrivals(r) : toServer' = toServer \o seen
  BY <1>1 DEF SendPacket, Arrivals
<1>3. PICK a \in Seq(Requests) : a = asked' /\ Len(a) = Len(asked) + 1 /\ a[Len(a)] = r
                                 /\ \A k \in 1..Len(asked) : a[k] = asked[k]
  <2>1. PICK a : a = Append(asked, r)
    OBVIOUS
  <2>2. /\ a \in Seq(Requests) /\ Len(a) = Len(asked) + 1 /\ a[Len(asked) + 1] = r
        /\ \A k \in 1..Len(asked) : a[k] = asked[k]
    BY <2>1, AppendProperties DEF History
  <2> QED
    BY <1>1, <2>1, <2>2
<1>4. PICK l \in Nat : l = Len(asked)
  BY LenProperties DEF History
<1>5. Len(a) \in 1..Len(a) /\ \A k \in 1..Len(asked) : k \in 1..Len(a)
  BY <1>3, <1>4
<1>6. /\ AskedPackets(asked) \subseteq AskedPackets(a) /\ Arrivals(r) \subseteq AskedPackets(a)
      /\ \A p \in AskedPackets(a) : IsPacket(p)
  BY <1>1, <1>3, <1>5, AskedGrow DEF History
<1>7. Carries(toServer, AskedPackets(a)) /\ Carries(seen, AskedPackets(a))
  BY <1>2, <1>6, MoreCarried, PacketCarries DEF Streams
<1>8. Carries(toServer', AskedPackets(asked'))
  BY <1>2, <1>3, <1>6, <1>7, OnlyDollar, BothCarry
<1> QED
  BY <1>1, <1>3, <1>5, <1>8, ClientStreams

(* gdb repeats a request.                                                  *)
LEMMA RepeatStreams == ASSUME AnswersArePlain, History, Streams, ClientRepeats PROVE Streams'
<1>1. /\ client = "acking" /\ toClient # <<>> /\ toClient' = Tail(toClient) /\ SendPacket(sent)
      /\ UNCHANGED <<server, request, left, packet, executed, asked, client>>
  BY DEF ClientRepeats, serverVars, clientVars
<1>2. PICK l \in Nat : l = Len(asked) /\ sent = gdb_send_buffer(asked[l]) /\ l >= 1
  <2>1. /\ Len(asked) \in Nat /\ Len(answered) \in Nat /\ Len(asked) = Len(answered) + 1
        /\ sent = gdb_send_buffer(asked[Len(asked)])
    BY <1>1, LenProperties DEF History
  <2> QED
    BY <2>1
<1>3. PICK seen \in Arrivals(asked[l]) : toServer' = toServer \o seen
  BY <1>1, <1>2 DEF SendPacket, Arrivals
<1>4. seen \in AskedPackets(asked) /\ \A p \in AskedPackets(asked) : IsPacket(p) /\ Len(p) \in Nat
  <2>1. l \in 1..Len(asked)
    BY <1>2
  <2> QED
    BY <1>3, <2>1, AskedGrow, BothArePackets DEF History
<1>5. Carries(toServer', AskedPackets(asked))
  <2>1. Carries(seen, AskedPackets(asked)) /\ Carries(toServer, AskedPackets(asked))
    BY <1>4, PacketCarries DEF Streams
  <2> QED
    BY <1>3, <1>4, <2>1, BothCarry
<1>6. IsRest(toClient', toClient, 1)
  BY <1>1, TailIsRest DEF Streams, Line
<1> QED
  BY <1>1, <1>5, <1>6, ClientStreams

(* The two texts, whatever step is taken.                                  *)
LEMMA StreamsStep ==
    ASSUME AnswersArePlain, History, Streams, Undisturbed => Talk, [TxNext]_txVars
    PROVE  Streams'
<1>0. /\ Carries(toServer, AskedPackets(asked)) /\ Carries(toServer \o <<Ack>>, AskedPackets(asked))
      /\ Carries(toServer \o <<Nak>>, AskedPackets(asked))
      /\ Carries(toServer \o <<Stray>>, AskedPackets(asked))
  BY ServerCarries
<1>1. toServer \in Seq(Nat) /\ toClient \in Seq(Nat) /\ Ack \in Nat /\ Nak \in Nat /\ Stray \in Nat
  BY DEF Streams, Line, Ack, Nak, Stray
<1>2. CASE rio_writen
  <2>1. UNCHANGED <<toServer, server, request, packet, executed, client, asked>>
    BY <1>2 DEF rio_writen, clientVars
  <2> QED
    BY <1>2, <2>1, WriteStep DEF Streams
<1>3. CASE ClientTakesAck \/ ClientSkips
  <2>1. /\ client # "closed" /\ toClient # <<>> /\ toClient' = Tail(toClient)
        /\ UNCHANGED <<toServer, server, request, left, packet, executed, asked>>
    BY <1>3 DEF ClientTakesAck, ClientSkips, serverVars, clientVars
  <2>2. IsRest(toClient', toClient, 1)
    BY <1>1, <2>1, TailIsRest
  <2> QED
    BY <1>0, <2>1, <2>2, ClientStreams
<1>4. CASE ClientTakesAnswer
  <2>1. /\ UNCHANGED <<server, request, left, packet, executed, asked>> /\ client = "waiting"
        /\ toServer' \in {toServer \o <<Ack>>, toServer \o <<Nak>>}
        /\ \E k \in Nat : IsRest(toClient', toClient, k)
    BY <1>4, AnswerStep DEF ClientTakesAnswer
  <2>2. Carries(toServer', AskedPackets(asked'))
    BY <1>0, <2>1
  <2> QED
    BY <2>1, <2>2, ClientStreams
<1>5. CASE ClientDrops
  <2>1. /\ UNCHANGED <<server, request, left, packet, executed, asked>> /\ client = "acking"
        /\ toServer' = Append(toServer, Ack) /\ \E p : TakesPacket(p)
    BY <1>5 DEF ClientDrops, serverVars, clientVars
  <2>2. \E k \in Nat : IsRest(toClient', toClient, k)
    <3>1. /\ Carries(toClient \o left, SentPackets(executed)) /\ Line
          /\ \A p \in SentPackets(executed) : IsPacket(p)
      BY <2>1, BothArePackets DEF Streams
    <3> QED
      BY <2>1, <3>1, TakeStep
  <2>3. Carries(toServer', AskedPackets(asked'))
    BY <1>0, <1>1, <2>1, AppendIsConcat
  <2> QED
    BY <2>1, <2>2, <2>3, ClientStreams
<1>6. CASE ClientInterrupts
  <2>1. /\ UNCHANGED <<toClient, server, request, left, packet, executed, asked, client>>
        /\ toServer' = Append(toServer, Stray)
    BY <1>6 DEF ClientInterrupts, serverVars
  <2>2. Carries(toServer', AskedPackets(asked'))
    BY <1>0, <1>1, <2>1, AppendIsConcat
  <2> QED
    BY <2>1, <2>2, ClientStreams
<1>7. CASE ClientCloses
  <2>1. /\ UNCHANGED <<toServer, server, request, left, packet, executed, asked>>
        /\ client' = "closed" /\ toClient' = <<>>
    BY <1>7 DEF ClientCloses, serverVars
  <2>2. <<>> \in Seq(Nat)
    BY EmptySeq
  <2> QED
    BY <2>1, <2>2 DEF Streams, Line
<1>8. CASE WriteFails \/ UNCHANGED txVars
  BY <1>8 DEF WriteFails, txVars, lineVars, serverVars, clientVars, Streams, Line
<1> QED
  BY <1>2, <1>3, <1>4, <1>5, <1>6, <1>7, <1>8, ScannerStreams, HandleStreams, AskStreams,
     RepeatStreams DEF TxNext, gdb_scanner, Client, ClientReads

----------------------------------------------------------------------------
(* What is left of a text with one packet.                                 *)
LEMMA RestOneDollar ==
    ASSUME NEW w \in Seq(Nat), NEW u, NEW k, OneDollar(w), IsRest(u, w, k)
    PROVE  /\ OneDollar(u) /\ (HasDollar(u) => HasDollar(w))
           /\ w[1] = Dollar /\ k >= 1 => ~HasDollar(u)
<1>1. PICK l \in Nat, n \in Nat : l = Len(w) /\ n = Len(u)
  BY LenProperties DEF IsRest
<1>2. k \in 0..l /\ n = l - k /\ \A i \in 1..n : u[i] = w[i + k] /\ i + k \in 1..l
  BY <1>1 DEF IsRest
<1>3. \A i, j \in 1..l : w[i] = Dollar /\ w[j] = Dollar => i = j
  BY <1>1 DEF OneDollar
<1>4. ASSUME NEW i \in 1..n, NEW j \in 1..n, u[i] = Dollar, u[j] = Dollar PROVE i = j
  <2>1. i + k = j + k
    BY <1>2, <1>3, <1>4
  <2> QED
    BY <1>2, <2>1
<1>5. HasDollar(u) => HasDollar(w)
  BY <1>1, <1>2 DEF HasDollar
<1>6. ASSUME w[1] = Dollar, k >= 1, NEW i \in 1..n, u[i] = Dollar PROVE FALSE
  <2>1. 1 \in 1..l /\ i + k # 1
    BY <1>2, <1>6
  <2> QED
    BY <1>2, <1>3, <1>6, <2>1
<1> QED
  BY <1>1, <1>4, <1>5, <1>6 DEF OneDollar, HasDollar

(* A packet behind a text without one.                                     *)
LEMMA OneMore ==
    ASSUME NEW s \in Seq(Nat), ~HasDollar(s), NEW p, IsPacket(p)
    PROVE  OneDollar(s \o p)
<1>1. PICK l \in Nat, n \in Nat : l = Len(s) /\ n = Len(p)
  BY LenProperties, OnlyDollar
<1>2. p \in Seq(Nat) /\ \A i \in 1..n : p[i] = Dollar => i = 1
  BY <1>1, OnlyDollar DEF IsPacket
<1>3. \A i \in 1..l : s[i] # Dollar
  BY <1>1 DEF HasDollar
<1>4. PICK w : w = s \o p
  OBVIOUS
<1>5. Len(w) = l + n /\ \A i \in 1..(l + n) : w[i] = IF i <= l THEN s[i] ELSE p[i - l]
  BY <1>1, <1>2, <1>4, ConcatProperties
<1>6. ASSUME NEW i \in 1..(l + n), w[i] = Dollar PROVE i = l + 1
  <2>1. ~(i <= l)
    BY <1>3, <1>5, <1>6
  <2>2. i - l \in 1..n /\ p[i - l] = Dollar
    BY <1>5, <1>6, <2>1
  <2>3. i - l = 1
    BY <1>2, <2>2
  <2> QED
    BY <2>3
<1> QED
  BY <1>4, <1>5, <1>6 DEF OneDollar

(* A text of at most one character other than "$".                         *)
LEMMA NoDollar ==
    ASSUME NEW s \in {<<>>, <<Ack>>, <<Nak>>}
    PROVE  s \in Seq(Nat) /\ ~HasDollar(s) /\ OneDollar(s)
<1>1. Ack \in Nat /\ Nak \in Nat /\ Ack # Dollar /\ Nak # Dollar
  BY DEF Ack, Nak, Dollar
<1>2. CASE s = <<>>
  BY <1>2, EmptySeq DEF HasDollar, OneDollar
<1>3. CASE s # <<>>
  <2>1. PICK c \in Nat : s = <<c>> /\ c # Dollar
    BY <1>1, <1>3
  <2>2. s \in Seq(Nat) /\ Len(s) = 1 /\ s[1] = c
    BY <2>1
  <2>3. \A i \in 1..Len(s) : i = 1
    BY <2>2
  <2> QED
    BY <2>1, <2>2, <2>3 DEF HasDollar, OneDollar
<1> QED
  BY <1>2, <1>3

(* gdb repeats a request only when it was rejected.                        *)
LEMMA RepeatsRejected == ASSUME Talk, Undisturbed, ClientRepeats PROVE Rejecting
<1>1. Line /\ toClient # <<>> /\ client = "acking" /\ Head(toClient) = Nak
  BY DEF Talk, ClientRepeats
<1>2. Ack \in Nat /\ Nak \in Nat /\ Ack # Nak
  BY DEF Ack, Nak
<1>3. toClient \in Seq(Nat) /\ left \in Seq(Nat) /\ Head(toClient) = toClient[1]
  BY <1>1 DEF Line
<1>4. ~Accepting
  <2>1. ASSUME Accepting PROVE toClient = <<Ack>>
    BY <1>1, <1>2, <1>3, <2>1, SingleFront DEF Accepting
  <2> QED
    BY <1>1, <1>2, <2>1
<1>5. ~Answering
  <2> SUFFICES ASSUME Answering PROVE FALSE
    OBVIOUS
  <2>1. PICK w : w = <<Ack>> \o packet
    OBVIOUS
  <2>2. packet \in Seq(Nat) /\ toClient \o left = w
    BY <1>1, <2>1 DEF Answering, IsPacket
  <2>3. w \in Seq(Nat) /\ w[1] = Ack
    BY <1>2, <2>1, <2>2
  <2> QED
    BY <1>1, <1>2, <1>3, <2>2, <2>3, Fronts
<1> QED
  BY <1>1, <1>4, <1>5 DEF Talk, Quiet, Asking, Complaining

(* The scanner takes a token.                                              *)
LEMMA ScanSingle ==
    ASSUME History, Streams, Single,
           ScanAck \/ ScanNak \/ add_character_to_error \/ gdb_packet_analysis
    PROVE  Single'
<1>1. PICK kind :
        /\ Scan(kind)
        /\ UNCHANGED server \/ (kind = "packet" /\ CheckOk(Taken) /\ request' = Content(Taken))
  BY DEF ScanAck, ScanNak, add_character_to_error, gdb_packet_analysis
<1>2. server = "scan" /\ UNCHANGED <<asked, executed, answered>> /\ toServer \in Seq(Nat)
  BY <1>1 DEF Scan, clientVars, Streams, Line
<1>3. OneDollar(toServer)
  BY DEF Single
<1>4. CASE HasDollar(toServer)
  <2>1. Pending /\ Carries(toServer, Arrivals(asked[Len(asked)]))
    BY <1>4 DEF Single
  <2>2. PICK l \in Nat : l = Len(asked) /\ l >= 1
    <3>1. Len(asked) \in Nat /\ Len(executed) \in Nat
      BY LenProperties DEF History
    <3> QED
      BY <2>1, <3>1 DEF Pending
  <2>3. PICK r \in Requests : r = asked[Len(asked)]
    <3>1. Len(asked) \in 1..Len(asked)
      BY <2>2
    <3> QED
      BY <3>1, ElementOfSeq DEF History
  <2>4. \A p \in Arrivals(r) : IsPacket(p) /\ Len(p) \in Nat
    BY ArrivalsArePackets, OnlyDollar
  <2>5. PICK k \in Nat :
          /\ IsRest(toServer', toServer, k) /\ k >= 1
          /\ kind = "packet" => toServer[1] = Dollar /\ Taken \in Arrivals(r)
    BY <1>1, <2>1, <2>3, <2>4, ScanStep
  <2>6. Carries(toServer', Arrivals(r))
    BY <2>1, <2>3, <2>4, <2>5, RestCarries
  <2>7. OneDollar(toServer') /\ (kind = "packet" => ~HasDollar(toServer'))
    BY <1>2, <1>3, <2>5, RestOneDollar
  <2>8. kind = "packet" /\ CheckOk(Taken) => Content(Taken) = r
    BY <2>3, <2>5, CheckedIsSent, TransmissionAssumption DEF Arrivals
  <2>9. Pending'
    BY <1>2, <2>1 DEF Pending
  <2>10. server' = "handle" => request' = r /\ ~HasDollar(toServer')
    BY <1>1, <1>2, <2>7, <2>8
  <2> QED
    BY <1>2, <2>3, <2>6, <2>7, <2>9, <2>10 DEF Single
<1>5. CASE ~HasDollar(toServer)
  <2>1. /\ Carries(toServer, AskedPackets(asked))
        /\ \A p \in AskedPackets(asked) : IsPacket(p)
    BY AskedGrow DEF Streams, History
  <2>2. PICK k \in Nat :
          /\ IsRest(toServer', toServer, k)
          /\ kind = "packet" => toServer[1] = Dollar /\ 1 \in 1..Len(toServer)
    BY <1>1, <2>1, ScanStep
  <2>3. kind # "packet"
    BY <1>5, <2>2 DEF HasDollar
  <2>4. OneDollar(toServer') /\ ~HasDollar(toServer')
    BY <1>2, <1>3, <1>5, <2>2, RestOneDollar
  <2> QED
    BY <1>1, <1>2, <2>3, <2>4 DEF Single
<1> QED
  BY <1>4, <1>5

(* gdb asks when all is settled, and repeats what was rejected.            *)
LEMMA SendSingle ==
    ASSUME AnswersArePlain, History, Streams, Talk, Undisturbed, History',
           ClientRepeats \/ \E r \in Requests : ClientAsks(r)
    PROVE  Single'
<1>1. PICK l, r, seen :
        /\ l \in Nat /\ r \in Requests /\ seen \in Arrivals(r)
        /\ l = Len(asked') /\ r = asked'[l] /\ toServer' = toServer \o seen
        /\ toServer \in {<<>>, <<Ack>>, <<Nak>>} /\ server' = "scan" /\ Pending'
  <2>1. CASE ClientRepeats
    <3>1. Rejecting /\ client = "acking" /\ SendPacket(sent)
          /\ UNCHANGED <<server, asked, executed, answered>>
      BY <2>1, RepeatsRejected DEF ClientRepeats, serverVars, clientVars
    <3>2. /\ toServer = <<>> /\ server = "scan" /\ Len(asked) = Len(executed) + 1
          /\ Len(asked) = Len(answered) + 1 /\ sent = gdb_send_buffer(asked[Len(asked)])
      BY <3>1 DEF Rejecting, History
    <3>3. PICK l \in Nat : l = Len(asked) /\ l >= 1
      <4>1. Len(asked) \in Nat /\ Len(executed) \in Nat
        BY LenProperties DEF History
      <4> QED
        BY <3>2, <4>1
    <3>4. PICK r \in Requests : r = asked[l]
      <4>1. l \in 1..Len(asked)
        BY <3>3
      <4> QED
        BY <4>1, ElementOfSeq DEF History
    <3>5. PICK seen \in Arrivals(r) : toServer' = toServer \o seen
      BY <3>1, <3>2, <3>3, <3>4 DEF SendPacket, Arrivals
    <3>6. Pending'
      BY <3>1, <3>2 DEF Pending
    <3> QED
      BY <3>1, <3>2, <3>3, <3>4, <3>5, <3>6
  <2>2. ASSUME NEW r \in Requests, ClientAsks(r)
        PROVE  \E l \in Nat, seen \in Arrivals(r) :
                  /\ l = Len(asked') /\ r = asked'[l] /\ toServer' = toServer \o seen
                  /\ toServer \in {<<>>, <<Ack>>, <<Nak>>} /\ server' = "scan" /\ Pending'
    <3>1. /\ client = "idle" /\ asked' = Append(asked, r) /\ sent' = gdb_send_buffer(r)
          /\ SendPacket(sent') /\ UNCHANGED <<server, executed, answered>>
      BY <2>2 DEF ClientAsks, serverVars
    <3>2. Quiet
      BY <3>1 DEF Talk, Asking, Rejecting, Accepting, Answering, Complaining
    <3>3. PICK l \in Nat : l = Len(asked) + 1
      BY LenProperties DEF History
    <3>4. l = Len(asked') /\ r = asked'[l]
      BY <3>1, <3>3, AppendProperties DEF History
    <3>5. PICK seen \in Arrivals(r) : toServer' = toServer \o seen
      BY <3>1 DEF SendPacket, Arrivals
    <3>6. Len(asked) = Len(executed) /\ Len(asked) = Len(answered)
      BY <3>1, <3>2 DEF Quiet, History
    <3>7. Pending'
      BY <3>1, <3>3, <3>4, <3>6 DEF Pending
    <3> QED
      BY <3>1, <3>2, <3>4, <3>5, <3>7 DEF Quiet
  <2> QED
    BY <2>1, <2>2
<1>2. toServer \in Seq(Nat) /\ ~HasDollar(toServer) /\ OneDollar(toServer)
  BY <1>1, NoDollar
<1>3. \A p \in Arrivals(r) : IsPacket(p) /\ Len(p) \in Nat
  BY <1>1, ArrivalsArePackets, OnlyDollar
<1>4. OneDollar(toServer')
  BY <1>1, <1>2, <1>3, OneMore
<1>5. Carries(toServer, Arrivals(r)) /\ Carries(seen, Arrivals(r))
  <2>1. Ack \in Nat /\ Nak \in Nat /\ Ack # Dollar /\ Nak # Dollar
    BY DEF Ack, Nak, Dollar
  <2> QED
    BY <1>1, <1>3, <2>1, EmptyCarries, PacketCarries
<1>6. Carries(toServer', Arrivals(r))
  BY <1>1, <1>3, <1>5, BothCarry
<1> QED
  BY <1>1, <1>4, <1>6 DEF Single

(* A request on its way stays the only one.                                *)
LEMMA SingleStep ==
    ASSUME AnswersArePlain, History, Streams, Single, Undisturbed => Talk, strays = 0,
           [TxNext]_txVars, strays' = 0
    PROVE  Single'
<1>1. CASE ClientRepeats \/ \E r \in Requests : ClientAsks(r)
  <2>1. Undisturbed /\ Talk
    BY <1>1 DEF ClientRepeats, ClientAsks, Undisturbed
  <2>2. History'
    BY HistoryStep
  <2> QED
    BY <1>1, <2>1, <2>2, SendSingle
<1>2. CASE ScanAck \/ ScanNak \/ add_character_to_error \/ gdb_packet_analysis
  BY <1>2, ScanSingle
<1>3. CASE Handle
  <2>1. server = "handle" /\ server' = "scan" /\ toServer' = toServer
    BY <1>3 DEF Handle, lineVars
  <2> QED
    BY <2>1 DEF Single
<1>4. CASE ScanEof
  <2>1. server' = "exited" /\ toServer' = toServer /\ toServer = <<>>
    BY <1>4 DEF ScanEof, lineVars
  <2>2. ~HasDollar(toServer) /\ OneDollar(toServer)
    BY <2>1, NoDollar
  <2> QED
    BY <2>1, <2>2 DEF Single
<1>5. CASE ClientTakesAnswer
  <2>1. Undisturbed /\ Talk /\ Undisturbed' /\ TxNext
    BY <1>5, AnswerStep DEF ClientTakesAnswer, Undisturbed, TxNext, Client, ClientReads
  <2>2. Talk'
    BY <2>1, TalkStep
  <2>3. client' \in {"idle", "waiting"} /\ server' = server
    BY <1>5, AnswerStep DEF ClientTakesAnswer
  <2>4. server = "scan"
    <3>1. PICK p : TakesPacket(p)
      BY <1>5 DEF ClientTakesAnswer
    <3>2. toClient # <<>> /\ client = "waiting"
      BY <1>5, <3>1 DEF TakesPacket, ClientTakesAnswer
    <3> QED
      BY <2>1, <3>2 DEF Talk, Quiet, Asking, Rejecting, Accepting, Answering, Complaining
  <2>5. toServer' \in {<<>>, <<Ack>>, <<Nak>>}
    BY <2>2, <2>3, <2>4 DEF Talk, Quiet, Asking, Rejecting, Accepting, Answering, Complaining
  <2>6. ~HasDollar(toServer') /\ OneDollar(toServer')
    BY <2>5, NoDollar
  <2> QED
    BY <2>3, <2>4, <2>6 DEF Single
<1>6. CASE ClientSkips \/ ClientDrops
  <2>1. Undisturbed /\ Talk
    BY <1>6 DEF ClientSkips, ClientDrops, Undisturbed
  <2> QED
    BY <1>6, <2>1, NothingSkipped
<1>7. CASE ClientInterrupts
  BY <1>7 DEF ClientInterrupts
<1>8. ASSUME UNCHANGED <<toServer, server, request, asked, executed, answered>> PROVE Single'
  BY <1>8 DEF Single, Pending
<1>9. CASE rio_writen \/ WriteFails \/ ClientTakesAck \/ ClientCloses \/ UNCHANGED txVars
  BY <1>8, <1>9 DEF rio_writen, WriteFails, ClientTakesAck, ClientCloses, txVars, lineVars,
                    serverVars, clientVars
<1> QED
  BY <1>1, <1>2, <1>3, <1>4, <1>5, <1>6, <1>7, <1>9 DEF TxNext, gdb_scanner, Client, ClientReads

----------------------------------------------------------------------------
(* The inductive invariant.                                                *)
LEMMA TxInvAlways == ASSUME AnswersArePlain PROVE TxSpec => []TxInv
<1>1. TxInit => TxInv
  <2> SUFFICES ASSUME TxInit PROVE TxInv
    OBVIOUS
  <2>1. /\ toServer = <<>> /\ toClient = <<>> /\ left = <<>> /\ packet = <<>> /\ errors = 0
        /\ asked = <<>> /\ executed = <<>> /\ answered = <<>> /\ client = "idle"
        /\ server = "scan" /\ strays = 0
    BY DEF TxInit
  <2>2. <<>> \o <<>> = <<>>
    OBVIOUS
  <2>3. History
    BY <2>1, EmptySeq DEF History
  <2>4. Line /\ Quiet
    BY <2>1, EmptySeq DEF Line, Quiet
  <2>5. Streams
    BY <2>1, <2>2, <2>4, EmptyCarries DEF Streams
  <2>6. Single
    BY <2>1, NoDollar DEF Single
  <2> QED
    BY <2>1, <2>3, <2>4, <2>5, <2>6 DEF TxInv, Talk
<1>2. TxInv /\ [TxNext]_txVars => TxInv'
  <2> SUFFICES ASSUME TxInv, [TxNext]_txVars PROVE TxInv'
    OBVIOUS
  <2>1. strays' \in Nat /\ History' /\ Streams'
    BY Before, HistoryStep, StreamsStep DEF TxInv
  <2>2. ASSUME Undisturbed' PROVE Talk'
    <3>1. Undisturbed /\ Talk
      BY <2>2, Before DEF TxInv
    <3>2. CASE TxNext
      BY <2>2, <3>1, <3>2, TalkStep DEF TxInv
    <3>3. CASE UNCHANGED txVars
      BY <3>1, <3>3 DEF txVars, lineVars, serverVars, clientVars, Talk, Line, Quiet, Asking,
                        Rejecting, Accepting, Answering, Complaining
    <3> QED
      BY <3>2, <3>3
  <2>3. ASSUME strays' = 0 PROVE Single'
    <3>1. strays = 0 /\ Single
      BY <2>3, Before DEF TxInv
    <3> QED
      BY <2>3, <3>1, SingleStep DEF TxInv
  <2> QED
    BY <2>1, <2>2, <2>3 DEF TxInv
<1> QED
  BY <1>1, <1>2, PTL DEF TxSpec

(***************************************************************************)
(* However often packets are garbled in either direction, and however a    *)
(* write is cut, gdb finds on the connection what the protocol has it      *)
(* expect.                                                                 *)
(***************************************************************************)
THEOREM StreamAlwaysUnderstood == ASSUME AnswersArePlain PROVE TxSpec => []StreamIsUnderstood
<1>1. TxInv => StreamIsUnderstood
  <2> SUFFICES ASSUME TxInv, strays = 0
               PROVE  /\ client = "idle" => toClient = <<>>
                      /\ client = "acking" /\ toClient # <<>> => Head(toClient) \in {Ack, Nak}
                      /\ client = "waiting" /\ toClient # <<>> => Head(toClient) = Dollar
    BY DEF StreamIsUnderstood
  <2>1. CASE client = "closed"
    BY <2>1
  <2>2. CASE client # "closed"
    <3>1. Talk
      BY <2>2 DEF TxInv, Undisturbed
    <3>2. client = "idle" => toClient = <<>>
      BY <3>1 DEF Talk, Quiet, Asking, Rejecting, Accepting, Answering, Complaining
    <3>3. toClient \in Seq(Nat) /\ left \in Seq(Nat) /\ Ack \in Nat /\ Nak \in Nat
      BY <3>1 DEF Talk, Line, Ack, Nak
    <3>4. ASSUME client = "acking", toClient # <<>> PROVE Head(toClient) \in {Ack, Nak}
      <4>1. CASE Rejecting \/ Accepting
        <5>1. toClient = <<Nak>> \/ toClient = <<Ack>>
          BY <3>3, <3>4, <4>1, SingleFront DEF Rejecting, Accepting
        <5> QED
          BY <5>1
      <4>2. CASE Answering
        <5>1. PICK w : w = <<Ack>> \o packet
          OBVIOUS
        <5>2. packet \in Seq(Nat) /\ toClient \o left = w
          BY <3>4, <4>2, <5>1 DEF Answering, IsPacket
        <5>3. w \in Seq(Nat) /\ w[1] = Ack
          BY <3>3, <5>1, <5>2
        <5> QED
          BY <3>3, <3>4, <5>2, <5>3, Fronts
      <4> QED
        BY <3>1, <3>4, <4>1, <4>2 DEF Talk, Quiet, Asking, Complaining
    <3>5. ASSUME client = "waiting", toClient # <<>> PROVE Head(toClient) = Dollar
      <4>1. IsPacket(packet) /\ toClient \o left = packet
        BY <3>1, <3>5 DEF Talk, Quiet, Asking, Rejecting, Accepting, Answering, Complaining
      <4>2. packet \in Seq(Nat) /\ packet[1] = Dollar
        BY <4>1 DEF IsPacket
      <4> QED
        BY <3>3, <3>5, <4>1, <4>2, Fronts
    <3> QED
      BY <3>2, <3>4, <3>5
  <2> QED
    BY <2>1, <2>2
<1> QED
  BY <1>1, TxInvAlways, PTL

(***************************************************************************)
(* What the dialogue with its checksums, acknowledgements and repetitions  *)
(* amounts to: each request is executed once and answered with the result  *)
(* of that execution, however often packets are garbled, as long as no     *)
(* stray character arrives; after one, what is executed was asked, and     *)
(* what is answered was an answer.                                         *)
(***************************************************************************)
THEOREM TransmissionRefines == ASSUME AnswersArePlain PROVE TxSpec => ImplementsRequestReply
<1>1. TxInit => Abstract!RRInit
  BY DEF TxInit, Abstract!RRInit
<1>2. TxInv /\ [TxNext]_txVars => [Abstract!RRNext]_(Abstract!rrVars)
  <2> SUFFICES ASSUME TxInv, [TxNext]_txVars PROVE Abstract!RRNext \/ UNCHANGED Abstract!rrVars
    OBVIOUS
  <2>0. History /\ Streams /\ (Undisturbed => Talk) /\ strays \in Nat
    BY DEF TxInv
  <2>1. CASE \E r \in Requests : ClientAsks(r)
    <3>1. PICK r \in Requests : ClientAsks(r)
      BY <2>1
    <3>2. /\ client = "idle" /\ asked' = Append(asked, r)
          /\ UNCHANGED <<executed, answered, strays>>
      BY <3>1 DEF ClientAsks, serverVars
    <3>3. Len(answered) = Len(asked)
      BY <2>0, <3>2 DEF History
    <3> QED
      BY <3>2, <3>3 DEF Abstract!RRNext, Abstract!Ask
  <2>2. CASE Handle
    <3>1. /\ server = "handle" /\ executed' = Append(executed, request)
          /\ UNCHANGED <<asked, answered, strays>>
      BY <2>2 DEF Handle, clientVars
    <3>2. CASE strays = 0
      <4>1. Pending /\ request = asked[Len(asked)]
        BY <3>1, <3>2 DEF TxInv, Single
      <4> QED
        BY <3>1, <4>1 DEF Pending, Abstract!RRNext, Abstract!Execute
    <3>3. CASE strays # 0
      <4>1. PICK k \in 1..Len(asked) : request = asked[k]
        BY <2>0, <3>1 DEF Streams
      <4>2. strays > 0 /\ k \in DOMAIN asked
        BY <2>0, <3>3, LenProperties DEF History
      <4> QED
        BY <3>1, <4>1, <4>2 DEF Abstract!RRNext, Abstract!Execute
    <3> QED
      BY <3>2, <3>3
  <2>3. CASE ClientTakesAnswer
    <3>1. UNCHANGED <<executed, asked, strays>> /\ client = "waiting"
      BY <2>0, <2>3, AnswerStep DEF ClientTakesAnswer
    <3>2. CASE UNCHANGED answered
      BY <3>1, <3>2 DEF Abstract!rrVars
    <3>3. CASE ~UNCHANGED answered
      <4>1. PICK n \in 1..Len(executed) :
              /\ answered' = Append(answered, Reply(SubSeq(executed, 1, n)))
              /\ strays = 0 => n = Len(executed) /\ Len(executed) = Len(asked)
        BY <2>0, <2>3, <3>3, AnswerStep
      <4>2. Len(asked) = Len(answered) + 1
        BY <2>0, <3>1 DEF History
      <4>3. strays > 0 \/ (n = Len(executed) /\ n = Len(asked))
        BY <2>0, <4>1
      <4> QED
        BY <3>1, <4>1, <4>2, <4>3 DEF Abstract!RRNext, Abstract!Deliver
    <3> QED
      BY <3>2, <3>3
  <2>4. CASE ClientInterrupts
    <3>1. strays' = strays + 1 /\ UNCHANGED <<asked, executed, answered>>
      BY <2>4 DEF ClientInterrupts, serverVars
    <3>2. strays' > 0
      BY <2>0, <3>1
    <3> QED
      BY <3>1, <3>2 DEF Abstract!RRNext, Abstract!Disturb
  <2>5. ASSUME UNCHANGED <<asked, executed, answered, strays>> PROVE UNCHANGED Abstract!rrVars
    BY <2>5 DEF Abstract!rrVars
  <2>6. CASE rio_writen \/ WriteFails \/ ScanAck \/ ScanNak \/ add_character_to_error
             \/ gdb_packet_analysis \/ ScanEof \/ ClientTakesAck \/ ClientRepeats \/ ClientSkips
             \/ ClientDrops \/ ClientCloses \/ UNCHANGED txVars
    BY <2>5, <2>6 DEF rio_writen, WriteFails, ScanAck, ScanNak, add_character_to_error,
           gdb_packet_analysis, ScanEof, Scan, ClientTakesAck, ClientRepeats, ClientSkips,
           ClientDrops, ClientCloses, txVars, clientVars, serverVars
  <2> QED
    BY <2>1, <2>2, <2>3, <2>4, <2>6 DEF TxNext, gdb_scanner, Client, ClientReads
<1>3. TxSpec => []TxInv
  BY TxInvAlways
<1>4. TxSpec => Abstract!RRInit /\ [][Abstract!RRNext]_(Abstract!rrVars)
  BY <1>1, <1>2, <1>3, PTL DEF TxSpec
<1> QED
  BY <1>4 DEF ImplementsRequestReply, Abstract!RRSpec
============================================================================
