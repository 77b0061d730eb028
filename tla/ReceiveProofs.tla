--------------------------- MODULE ReceiveProofs ---------------------------
(***************************************************************************)
(* Proofs about Receive, for every script of messages, every page size and  *)
(* every way to cut the stream into records.  A frame with a 64-bit length   *)
(* is excluded: the code reads its length wrongly (WS_PAYLOAD_LEN64), and    *)
(* handles it before its payload has come.                                   *)
(***************************************************************************)
EXTENDS Receive, SequenceTheorems, NaturalsInduction, WellFoundedInduction, TLAPS

(* No frame of 64 KiB or more.                                               *)
NoLongFrames == \A s \in Scripts : \A m \in 1 .. Len(s) : s[m].hdr # 14

Types ==
  /\ script \in Scripts
  /\ sent \in Nat /\ net \in Seq(Nat) /\ pend \in Nat /\ read \in Nat
  /\ ws \in BOOLEAN
  /\ data \in Seq(Nat) /\ offset \in Nat /\ busy \in BOOLEAN
  /\ http \in [msg : Nat, body : Seq(Nat)]
  /\ pc \in {"wait", "parse"} /\ at \in Nat /\ len \in Nat
  /\ conn \in {"open", "hungup", "closed"}
  /\ handled \in Seq(Nat) /\ mangled \in SUBSET Nat /\ overrun \in BOOLEAN

(* The connection is open and its buffer was never overrun.                  *)
Serving == conn = "open" /\ ~overrun

(* The message that is to be handled next: its number, the byte it begins    *)
(* behind, its last byte; and the last byte of the script.                   *)
Current == Len(handled) + 1
Base    == Begin(Current)
Header  == script[Current].hdr
Payload == script[Current].len
Last    == End(Current)
Total   == Begin(Len(script) + 1)
Remains == Current <= Len(script)

Upgrades == \E u \in 1 .. Len(handled) : Kind(u) = "upgrade"

(* No more is handled than the script has.                                   *)
Prefix == Len(handled) <= Len(script)

(* The records in the socket follow what OpenSSL has, in order, up to what   *)
(* was sent.                                                                 *)
Stream ==
  /\ read + pend <= sent /\ sent <= Total
  /\ net = <<>> => read + pend = sent
  /\ net # <<>> => net[Len(net)] = sent
  /\ \A i \in 1 .. Len(net) : read + pend < net[i] /\ net[i] <= sent
  /\ \A i, j \in 1 .. Len(net) : i < j => net[i] < net[j]

(* What has come of the body of the current request.  If parse_http left it  *)
(* as it was, the body has come up to the last byte read; if not, it may be  *)
(* shorter, and then it is never complete.                                   *)
BodyUpTo ==
  /\ Remains /\ http.msg = Current
  /\ read <= Last /\ Len(http.body) < Payload
  /\ Base + Header + Len(http.body) <= read
  /\ Current \notin mangled =>
       /\ Base + Header + Len(http.body) = read
       /\ \A i \in 1 .. Len(http.body) : http.body[i] = Base + Header + i

(* Before the upgrade nothing is sent beyond the current request, and a      *)
(* request that has not been looked at is in the socket with its header in   *)
(* one record.                                                               *)
Request ==
  /\ data = <<>> /\ offset = 0 /\ busy = FALSE /\ pc = "wait"
  /\ Base <= read
  /\ Remains => sent <= Last
  /\ sent > Base => Remains /\ Kind(Current) \in HttpKinds
  /\ http = NoHttp =>
       /\ read = Base /\ pend = 0
       /\ net # <<>> => net[1] >= Base + Header
  /\ http # NoHttp => BodyUpTo

(* Between two events the buffer has what has come of the current frame,     *)
(* which is not all of it, and room for more.                                *)
Waiting ==
  /\ read = Base + offset
  /\ \A i \in 1 .. offset : data[i] = Base + i
  /\ busy <=> offset > 0
  /\ offset > 0 => offset < Header + Payload
  /\ data = <<>> => offset = 0
  /\ data # <<>> => offset < Len(data)

(* The parser stands at the beginning of the current frame; the bytes behind *)
(* it are the last that were read.                                           *)
Parsing ==
  /\ at < len /\ len <= Len(data)
  /\ read = Base + (len - at)
  /\ \A i \in at + 1 .. len : data[i] = read - len + i

Framing ==
  /\ http = NoHttp
  /\ Upgrades
  /\ pc = "wait" => Waiting
  /\ pc = "parse" => Parsing

(* The order of what is handled and the stream of records do not depend on   *)
(* what the parser makes of the bytes; the rest is said of a connection that *)
(* is open and was not overrun.                                              *)
IInv ==
  /\ Types /\ Stream /\ HandledInOrder
  /\ overrun => ws /\ http = NoHttp
  /\ pc = "parse" => at < len
  /\ ~overrun => Prefix
  /\ Serving => (~ws => Request) /\ (ws => Framing)

USE SizeAssumption

-----------------------------------------------------------------------------
(* The messages of a script follow one another.                              *)

(* A non-empty set of numbers has a least one.                               *)
LEMMA LeastNumber ==
  ASSUME NEW T \in SUBSET Nat, T # {}
  PROVE  \E x \in T : \A y \in T : x <= y
<1> DEFINE R == OpToRel(<, Nat)
<1>1. IsWellFoundedOn(R, Nat)  BY NatLessThanWellFounded
<1>2. \A x, y \in Nat : y < x => <<y, x>> \in R  BY DEF OpToRel
<1> HIDE DEF R
<1>3. PICK x \in T : \A y \in T : ~ (<<y, x>> \in R)  BY <1>1, WFMin
<1>4. \A y \in T : ~ (y < x)  BY <1>2, <1>3, Zenon
<1>5. QED  BY <1>4

LEMMA Layout ==
  ASSUME script \in Scripts
  PROVE  /\ Len(script) \in Nat
         /\ \A m \in 1 .. Len(script) :
              /\ script[m].hdr \in Nat \ {0} /\ script[m].len \in Nat
              /\ End(m) = Begin(m) + script[m].hdr + script[m].len
              /\ Begin(m + 1) = End(m) /\ End(m) \in Nat
         /\ \A m \in 1 .. Len(script) + 1 : Begin(m) \in Nat
<1>1. script \in Seq(Message) /\ Len(script) \in Nat  BY ScriptsAssumption
<1>2. \A m \in 1 .. Len(script) : script[m] \in Message  BY <1>1
<1>3. \A m \in 1 .. Len(script) :
        /\ script[m].kind \in HttpKinds \cup FrameKinds
        /\ script[m].hdr \in Nat /\ script[m].len \in Nat /\ script[m].end \in Nat
  BY <1>2 DEF Message
<1>4. \A m \in 1 .. Len(script) : script[m].hdr \in Nat \ {0}
  <2>1. \A m \in 1 .. Len(script) : script[m].hdr \in 1 .. Page \/ script[m].hdr \in HeaderSizes
    BY <1>3, ScriptsAssumption
  <2>2. QED  BY <1>3, <2>1 DEF HeaderSizes
<1>5. \A m \in 1 .. Len(script) :
        End(m) = Begin(m) + script[m].hdr + script[m].len
  BY ScriptsAssumption DEF End, Begin
<1>6. \A m \in 1 .. Len(script) : m + 1 # 1 /\ (m + 1) - 1 = m  BY <1>1
<1>7. \A m \in 1 .. Len(script) : Begin(m + 1) = End(m) /\ End(m) \in Nat
  BY <1>3, <1>6 DEF Begin, End
<1>8. \A m \in 1 .. Len(script) + 1 : m = 1 \/ m - 1 \in 1 .. Len(script)  BY <1>1
<1>9. \A m \in 1 .. Len(script) + 1 : Begin(m) \in Nat
  BY <1>3, <1>8 DEF Begin, End
<1>10. QED  BY <1>1, <1>3, <1>4, <1>5, <1>7, <1>9

(* A message begins behind the ones before it.                               *)
LEMMA Increasing ==
  ASSUME script \in Scripts, NEW i \in 1 .. Len(script) + 1, NEW j \in 1 .. Len(script) + 1,
         i < j
  PROVE  Begin(i) < Begin(j)
<1> SUFFICES ASSUME ~ (Begin(i) < Begin(j)) PROVE FALSE  OBVIOUS
<1>1. Len(script) \in Nat  BY Layout
<1> DEFINE T == {x \in Nat : /\ x \in 1 .. Len(script) + 1 /\ i < x
                             /\ ~ (Begin(i) < Begin(x))}
<1>2. T \in SUBSET Nat /\ j \in T  BY <1>1
<1>3. PICK x \in T : \A y \in T : x <= y  BY <1>2, LeastNumber
<1>4. x \in Nat /\ x \in 1 .. Len(script) + 1 /\ i < x /\ ~ (Begin(i) < Begin(x))
  BY <1>3
<1>5. PICK y \in Nat : y = x - 1  BY <1>1, <1>4
<1>6. y \in 1 .. Len(script) /\ y \in 1 .. Len(script) + 1 /\ x = y + 1 /\ i <= y
  BY <1>1, <1>4, <1>5
<1>7. Begin(y) < Begin(x) /\ Begin(y) \in Nat /\ Begin(x) \in Nat /\ Begin(i) \in Nat
  <2>1. Begin(y) \in Nat /\ Begin(x) \in Nat /\ Begin(i) \in Nat  BY <1>4, <1>6, Layout
  <2>2. /\ script[y].hdr \in Nat \ {0} /\ script[y].len \in Nat
        /\ Begin(x) = Begin(y) + script[y].hdr + script[y].len
    BY <1>6, Layout
  <2>3. \A a, b, h, n \in Nat : (h # 0 /\ b = a + h + n) => a < b  OBVIOUS
  <2>4. QED  BY <2>1, <2>2, <2>3
<1>8. CASE i = y  BY <1>4, <1>7, <1>8
<1>9. CASE i # y
  <2>1. i < y  BY <1>1, <1>6, <1>9
  <2>2. ~ (Begin(i) < Begin(y))  BY <1>4, <1>7
  <2>3. y \in T  BY <1>6, <2>1, <2>2
  <2>4. x <= y  BY <1>3, <2>3
  <2>5. QED  BY <1>6, <2>4
<1>10. QED  BY <1>8, <1>9

(* The first byte of a message says which message it is.                     *)
LEMMA FirstByte ==
  ASSUME script \in Scripts, NEW m \in 1 .. Len(script)
  PROVE  MessageAt(Begin(m) + 1) = m
<1>1. Len(script) \in Nat /\ m \in Nat  BY Layout
<1>2. DOMAIN script = 1 .. Len(script)  BY ScriptsAssumption
<1>3. \A x \in DOMAIN script : x \in 1 .. Len(script) + 1 /\ Begin(x) \in Nat
  BY <1>1, <1>2, Layout
<1>4. \A x \in DOMAIN script : Begin(m) + 1 = Begin(x) + 1 => x = m
  <2> SUFFICES ASSUME NEW x \in DOMAIN script, Begin(m) + 1 = Begin(x) + 1 PROVE x = m
    OBVIOUS
  <2>1. Begin(m) = Begin(x) /\ Begin(m) \in Nat  BY <1>2, <1>3
  <2>2. x \in 1 .. Len(script) + 1 /\ m \in 1 .. Len(script) + 1 /\ x \in Nat
    BY <1>1, <1>2, <1>3
  <2>3. ~ (x < m)  BY <2>1, <2>2, Increasing
  <2>4. ~ (m < x)  BY <2>1, <2>2, Increasing
  <2>5. QED  BY <1>1, <2>2, <2>3, <2>4
<1>5. m \in DOMAIN script  BY <1>2
<1>6. QED  BY <1>4, <1>5, Zenon DEF MessageAt

-----------------------------------------------------------------------------
(* Where the current message is.                                             *)

LEMMA Positions ==
  ASSUME Types, Prefix
  PROVE  /\ Current \in Nat /\ Base \in Nat /\ Total \in Nat /\ Base <= Total
         /\ Remains \/ Base = Total
         /\ Remains => /\ Current \in 1 .. Len(script)
                       /\ Header \in Nat \ {0} /\ Payload \in Nat /\ Last \in Nat
                       /\ Last = Base + Header + Payload /\ Last <= Total
                       /\ MessageAt(Base + 1) = Current
<1>1. script \in Scripts /\ Len(script) \in Nat /\ Len(handled) \in Nat
  BY Layout DEF Types
<1>2. /\ Current \in Nat /\ Current \in 1 .. Len(script) + 1
      /\ Len(script) + 1 \in 1 .. Len(script) + 1
      /\ Remains <=> Current \in 1 .. Len(script)
      /\ ~Remains => Current = Len(script) + 1
  BY <1>1 DEF Prefix, Current, Remains
<1>3. Base \in Nat /\ Total \in Nat /\ (Remains \/ Base = Total)
  BY <1>1, <1>2, Layout DEF Base, Total
<1>4. Remains => /\ Header \in Nat \ {0} /\ Payload \in Nat /\ Last \in Nat
                 /\ Last = Base + Header + Payload /\ Begin(Current + 1) = Last
                 /\ MessageAt(Base + 1) = Current
  BY <1>1, <1>2, Layout, FirstByte DEF Header, Payload, Last, Base
<1>5. Remains => Last <= Total
  <2> SUFFICES ASSUME Remains PROVE Last <= Total  OBVIOUS
  <2>1. CASE Current = Len(script)  BY <1>3, <1>4, <2>1 DEF Total
  <2>2. CASE Current # Len(script)
    <3>1. Current + 1 \in 1 .. Len(script) + 1 /\ Current + 1 < Len(script) + 1
      BY <1>1, <1>2, <2>2
    <3>2. Begin(Current + 1) < Total  BY <1>1, <1>2, <3>1, Increasing DEF Total
    <3>3. QED  BY <1>3, <1>4, <3>2
  <2>3. QED  BY <2>1, <2>2
<1>6. Base <= Total
  <2>1. \A b, h, n, t \in Nat : b + h + n <= t => b <= t  OBVIOUS
  <2>2. QED  BY <1>3, <1>4, <1>5, <2>1
<1>7. QED  BY <1>2, <1>3, <1>4, <1>5, <1>6

(* Behind an upgrade the current message is a frame.                         *)
LEMMA CurrentIsFrame ==
  ASSUME NoLongFrames, Types, Prefix, Remains, Upgrades
  PROVE  Header \in {6, 8}
<1>1. script \in Scripts /\ Len(script) \in Nat /\ Len(handled) \in Nat
  BY Layout DEF Types
<1>2. Current \in 1 .. Len(script) /\ Current - 1 = Len(handled)
  BY <1>1 DEF Current, Remains
<1>3. \E u \in 1 .. Current - 1 : script[u].kind = "upgrade"
  BY <1>2 DEF Upgrades, Kind
<1>4. script[Current].hdr \in HeaderSizes /\ script[Current].hdr # 14
  BY <1>1, <1>2, <1>3, ScriptsAssumption DEF NoLongFrames
<1>5. QED  BY <1>4 DEF HeaderSizes, Header

LEMMA RequestHeader ==
  ASSUME Types, Prefix, Remains, Kind(Current) \in HttpKinds
  PROVE  Header \in 1 .. Page
<1>1. script \in Scripts /\ Current \in 1 .. Len(script)  BY Positions DEF Types
<1>2. QED  BY <1>1, ScriptsAssumption DEF Header, Kind

(* Nothing is handled: the current message stays.                            *)
LEMMA SameCurrent ==
  ASSUME script' = script, handled' = handled
  PROVE  /\ Current' = Current /\ Base' = Base /\ Header' = Header /\ Payload' = Payload
         /\ Last' = Last /\ Total' = Total /\ Remains' = Remains /\ Upgrades' = Upgrades
         /\ Kind(Current)' = Kind(Current)
         /\ Prefix' = Prefix
BY DEF Current, Base, Header, Payload, Last, Total, Remains, Upgrades, Kind, Prefix,
       Begin, End

(* What is handled stays in order: if nothing is handled, or the current     *)
(* message is, or something else in one of the two situations.               *)
LEMMA SameOrder ==
  ASSUME HandledInOrder, handled' = handled, mangled \subseteq mangled', overrun => overrun'
  PROVE  HandledInOrder'
BY DEF HandledInOrder

LEMMA NextInOrder ==
  ASSUME Types, HandledInOrder, NEW x \in Nat, handled' = Append(handled, x),
         x = Current \/ (x = 0 /\ (Current \in mangled' \/ overrun')),
         mangled \subseteq mangled', overrun => overrun'
  PROVE  handled' \in Seq(Nat) /\ HandledInOrder'
<1>1. handled \in Seq(Nat) /\ Len(handled) \in Nat /\ DOMAIN handled = 1 .. Len(handled)
  BY DEF Types
<1>2. Current = Len(handled) + 1  BY DEF Current
<1>3. /\ handled' \in Seq(Nat) /\ Len(handled') = Len(handled) + 1
      /\ DOMAIN handled' = 1 .. Len(handled) + 1
      /\ \A i \in 1 .. Len(handled) : handled'[i] = handled[i]
      /\ handled'[Len(handled) + 1] = x
  BY <1>1
<1>4. \A i \in 1 .. Len(handled) + 1 : i \in 1 .. Len(handled) \/ i = Len(handled) + 1
  BY <1>1
<1>5. \A i \in 1 .. Len(handled) :
        handled'[i] = i \/ (handled'[i] = 0 /\ (i \in mangled' \/ overrun'))
  BY <1>1, <1>3 DEF HandledInOrder
<1>6. HandledInOrder'  BY <1>2, <1>3, <1>4, <1>5 DEF HandledInOrder
<1>7. QED  BY <1>3, <1>6

(* The current message is handled: the next one begins where it ends.        *)
LEMMA NextCurrent ==
  ASSUME Types, Prefix, Remains, script' = script,
         NEW x \in Nat, handled' = Append(handled, x)
  PROVE  /\ Prefix'
         /\ Base' = Last /\ Total' = Total
         /\ Remains' => Last' >= Last
         /\ Upgrades \/ Kind(Current) = "upgrade" => Upgrades'
<1>1. script \in Scripts /\ Len(script) \in Nat /\ Len(handled) \in Nat /\ handled \in Seq(Nat)
  BY Layout DEF Types
<1>2. Current \in Nat /\ Current \in 1 .. Len(script) /\ Current = Len(handled) + 1
  BY <1>1 DEF Current, Remains
<1>3. Len(handled') = Current  BY <1>1, <1>2
<1>5. \A i \in 1 .. Len(handled) : i \in 1 .. Current  BY <1>1, <1>2
<1>6. Prefix'  BY <1>2, <1>3 DEF Prefix
<1>7. Current' = Current + 1  BY <1>3 DEF Current
<1>8. Base' = Last /\ Total' = Total
  <2>1. Begin(Current + 1) = End(Current)  BY <1>1, <1>2, Layout
  <2>2. Base' = Begin(Current + 1)  BY <1>7 DEF Base, Begin, End
  <2>3. Total' = Total  BY DEF Total, Begin, End
  <2>4. QED  BY <2>1, <2>2, <2>3 DEF Last
<1>9. Remains' => Last' >= Last
  <2> SUFFICES ASSUME Remains' PROVE Last' >= Last  OBVIOUS
  <2>1. PICK k \in Nat : k = Current + 1  BY <1>2
  <2>2. k \in 1 .. Len(script)  BY <1>1, <1>2, <1>7, <2>1 DEF Remains
  <2>3. /\ End(k) = Begin(k) + script[k].hdr + script[k].len
        /\ Begin(k) = End(Current) /\ End(Current) \in Nat
        /\ script[k].hdr \in Nat /\ script[k].len \in Nat
    BY <1>1, <1>2, <2>1, <2>2, Layout
  <2>4. \A a, h, n \in Nat : a + h + n >= a  OBVIOUS
  <2>5. End(k) >= End(Current)  BY <2>3, <2>4
  <2>6. Last' = End(k)  BY <1>7, <2>1 DEF Last, End
  <2>7. QED  BY <2>5, <2>6 DEF Last
<1>10. Upgrades \/ Kind(Current) = "upgrade" => Upgrades'
  <2>1. Current \in 1 .. Current  BY <1>2
  <2>2. QED  BY <1>3, <1>5, <2>1 DEF Upgrades, Kind
<1>11. QED  BY <1>6, <1>8, <1>9, <1>10

-----------------------------------------------------------------------------
(* What a read gives.                                                        *)

LEMMA ReadStream ==
  ASSUME Types, Stream, net # <<>>, NEW room \in Nat \ {0}, NEW n \in Nat,
         SSL_read(room, n), sent' = sent, Total' = Total
  PROVE  /\ n >= 1 /\ n <= room /\ read' = read + n /\ read' \in Nat
         /\ pend' \in Nat /\ net' \in Seq(Nat) /\ Stream'
         /\ pend = 0 => n = room \/ n = net[1] - read
<1>1. /\ net \in Seq(Nat) /\ net[1] \in Nat /\ Len(net) \in Nat /\ Len(net) >= 1
      /\ 1 \in 1 .. Len(net) /\ Head(net) = net[1]
      /\ sent \in Nat /\ pend \in Nat /\ read \in Nat
  BY DEF Types
<1>2. read + pend < net[1]  BY <1>1 DEF Stream
<1>3. PICK avail \in Nat : avail = IF pend > 0 THEN pend ELSE net[1] - read
  BY <1>1, <1>2
<1>4. /\ avail >= 1 /\ n = (IF room < avail THEN room ELSE avail)
      /\ read' = read + n /\ pend' = avail - n
      /\ net' = IF pend > 0 THEN net ELSE Tail(net)
  BY <1>1, <1>2, <1>3 DEF SSL_read
<1>5. /\ n >= 1 /\ n <= room /\ n <= avail /\ read' \in Nat /\ pend' \in Nat
      /\ pend = 0 => n = room \/ n = net[1] - read
      /\ read' + pend' = read + avail
  <2>1. n \in Nat /\ n >= 1 /\ n <= room /\ n <= avail /\ (n = room \/ n = avail)
    BY <1>3, <1>4
  <2>2. pend = 0 => avail = net[1] - read  BY <1>3
  <2>3. read' = read + n /\ pend' = avail - n  BY <1>4
  <2>4. read' \in Nat /\ pend' \in Nat /\ read' + pend' = read + avail
    BY <1>1, <2>1, <2>3
  <2>5. pend = 0 => n = room \/ n = net[1] - read  BY <2>1, <2>2
  <2>6. QED  BY <2>1, <2>4, <2>5
<1>6. CASE pend > 0
  <2>1. read' + pend' = read + pend /\ net' = net  BY <1>1, <1>3, <1>4, <1>5, <1>6
  <2>2. Stream'  BY <2>1 DEF Stream
  <2>3. QED  BY <1>1, <1>4, <1>5, <2>1, <2>2
<1>7. CASE pend = 0
  <2>1. read' + pend' = net[1] /\ net' = Tail(net)  BY <1>1, <1>3, <1>4, <1>5, <1>7
  <2>2. PICK k \in Nat : k = Len(net)  BY <1>1
  <2>3. /\ net' \in Seq(Nat) /\ Len(net') = k - 1
        /\ \A i \in 1 .. k - 1 : net'[i] = net[i + 1]
    BY <1>1, <2>1, <2>2
  <2>4. \A i \in 1 .. k - 1 : i + 1 \in 1 .. k /\ 1 < i + 1  BY <2>2
  <2>5. \A i, j \in 1 .. k - 1 : i < j => i + 1 < j + 1  BY <2>2
  <2>6. /\ \A i \in 1 .. k : net[i] <= sent
        /\ \A i, j \in 1 .. k : i < j => net[i] < net[j]
        /\ net[k] = sent
    BY <2>2 DEF Stream
  <2>7. \A i \in 1 .. k - 1 : read' + pend' < net'[i] /\ net'[i] <= sent
    BY <1>1, <2>1, <2>2, <2>3, <2>4, <2>6
  <2>8. \A i, j \in 1 .. k - 1 : i < j => net'[i] < net'[j]
    BY <2>3, <2>4, <2>5, <2>6
  <2>9. read' + pend' <= sent' /\ sent' <= Total'
    BY <1>1, <2>1, <2>2, <2>6 DEF Stream
  <2>10. net' = <<>> => read' + pend' = sent'
    <3> SUFFICES ASSUME net' = <<>> PROVE read' + pend' = sent'  OBVIOUS
    <3>1. Len(net') = 0  OBVIOUS
    <3>2. \A x \in Nat : x - 1 = 0 => x = 1  OBVIOUS
    <3>3. k = 1  BY <2>2, <2>3, <3>1, <3>2
    <3>4. QED  BY <2>1, <2>6, <3>3
  <2>11. net' # <<>> => net'[Len(net')] = sent'
    <3> SUFFICES ASSUME net' # <<>> PROVE net'[k - 1] = sent  BY <2>3
    <3>1. k - 1 \in 1 .. k - 1 /\ (k - 1) + 1 = k  BY <2>2, <2>3
    <3>2. QED  BY <2>3, <2>6, <3>1
  <2>12. Stream'  BY <2>3, <2>7, <2>8, <2>9, <2>10, <2>11 DEF Stream
  <2>13. QED  BY <1>4, <1>5, <2>3, <2>12
<1>8. QED  BY <1>1, <1>6, <1>7

(* The bytes of a read put behind what has come.                             *)
LEMMA Joined ==
  ASSUME NEW s \in Seq(Nat), NEW b \in Nat, NEW r \in Nat, NEW n \in Nat, r = b + Len(s),
         \A i \in 1 .. Len(s) : s[i] = b + i
  PROVE  /\ s \o [i \in 1 .. n |-> r + i] \in Seq(Nat)
         /\ s \o [i \in 1 .. n |-> r + i] = [i \in 1 .. Len(s) + n |-> b + i]
<1>1. PICK t \in Seq(Nat) : t = [i \in 1 .. n |-> r + i] /\ Len(t) = n
  <2>1. [i \in 1 .. n |-> r + i] \in Seq(Nat) /\ Len([i \in 1 .. n |-> r + i]) = n
    <3>1. [i \in 1 .. n |-> r + i] \in [1 .. n -> Nat]  OBVIOUS
    <3>2. QED  BY <3>1
  <2>2. QED  BY <2>1
<1>2. PICK k \in Nat : k = Len(s)  OBVIOUS
<1>3. \A i \in 1 .. n : t[i] = r + i  BY <1>1
<1>4. /\ s \o t \in Seq(Nat) /\ Len(s \o t) = k + n
      /\ \A i \in 1 .. k + n : (s \o t)[i] = IF i <= k THEN s[i] ELSE t[i - k]
  BY <1>1, <1>2
<1>5. \A i \in 1 .. k + n : IF i <= k THEN i \in 1 .. k ELSE i - k \in 1 .. n
  BY <1>2
<1>6. \A i \in 1 .. k + n : (s \o t)[i] = b + i
  BY <1>2, <1>3, <1>4, <1>5
<1>7. s \o t = [i \in 1 .. k + n |-> b + i]
  <2>1. PICK c \in Seq(Nat) : c = s \o t  BY <1>4
  <2>2. c \in [1 .. Len(c) -> Nat] /\ Len(c) = k + n  BY <1>4, <2>1, LenProperties
  <2>3. c = [i \in 1 .. k + n |-> c[i]]  BY <2>2
  <2>4. QED  BY <1>6, <2>1, <2>3
<1>8. QED  BY <1>1, <1>2, <1>4, <1>7

-----------------------------------------------------------------------------
(* The invariant holds at first, and every action keeps it.                  *)

LEMMA InitHolds ==
  ASSUME Init
  PROVE  IInv
<1>1. /\ Types /\ handled = <<>> /\ ~overrun /\ pc = "wait" /\ ~ws
  <2>1. <<>> \in Seq(Nat)  OBVIOUS
  <2>2. NoHttp \in [msg : Nat, body : Seq(Nat)]  BY <2>1 DEF NoHttp
  <2>3. Types  BY <2>1, <2>2 DEF Init, Types
  <2>4. QED  BY <2>3 DEF Init
<1>2. Prefix /\ HandledInOrder
  <2>1. Len(script) \in Nat  BY <1>1, Layout DEF Types
  <2>2. QED  BY <1>1, <2>1 DEF Prefix, HandledInOrder
<1>3. Base = 0  BY <1>1 DEF Base, Begin, Current
<1>4. Stream /\ Request
  <2>1. /\ Base \in Nat /\ Total \in Nat /\ Base <= Total
        /\ Remains => Last \in Nat
    BY <1>1, <1>2, Positions
  <2>2. Stream  BY <2>1 DEF Stream, Init
  <2>3. Remains => sent <= Last  BY <2>1 DEF Init
  <2>4. Request  BY <1>3, <2>3 DEF Request, Init
  <2>5. QED  BY <2>2, <2>4
<1>5. QED  BY <1>1, <1>2, <1>4 DEF IInv

LEMMA ClientSendsHolds ==
  ASSUME IInv, ClientSends
  PROVE  IInv'
<1>1. Types /\ Stream /\ HandledInOrder  BY DEF IInv
<1>2. PICK n \in Records, m \in DOMAIN script :
        MaySend(m, n) /\ sent' = sent + n /\ net' = Append(net, sent + n)
  BY DEF ClientSends
<1>3. UNCHANGED <<script, pend, read, ws, data, offset, busy, http, pc, at, len, conn, handled,
                mangled, overrun>>
  BY DEF ClientSends, recv
<1>4. /\ n \in Nat /\ n >= 1 /\ sent \in Nat /\ read \in Nat /\ pend \in Nat
      /\ sent + n \in Nat /\ net \in Seq(Nat) /\ Len(net) \in Nat
  BY <1>1 DEF Types
<1>5. /\ Current' = Current /\ Base' = Base /\ Header' = Header /\ Last' = Last
      /\ Total' = Total /\ Remains' = Remains /\ Upgrades' = Upgrades
      /\ Payload' = Payload
      /\ Kind(Current)' = Kind(Current) /\ Prefix' = Prefix
  BY <1>3, SameCurrent
<1>6. /\ net' \in Seq(Nat) /\ Len(net') = Len(net) + 1
      /\ \A i \in 1 .. Len(net) : net'[i] = net[i]
      /\ net'[Len(net) + 1] = sent + n
  BY <1>2, <1>4
<1>7. Types'  BY <1>1, <1>2, <1>3, <1>4, <1>6 DEF Types
<1>8. script \in Scripts /\ m \in 1 .. Len(script) /\ Len(script) \in Nat
  <2>1. script \in Scripts /\ Len(script) \in Nat  BY <1>1, Layout DEF Types
  <2>2. DOMAIN script = 1 .. Len(script)  BY <2>1, ScriptsAssumption
  <2>3. QED  BY <2>1, <2>2
<1>9. Kind(m) \in HttpKinds =>
        /\ m = Current /\ Remains /\ sent + n <= Last /\ sent >= Base
        /\ sent = Base => n >= Header
  <2> SUFFICES ASSUME Kind(m) \in HttpKinds
               PROVE  /\ m = Current /\ Remains /\ sent + n <= Last /\ sent >= Base
                      /\ sent = Base => n >= Header
    OBVIOUS
  <2>1. /\ Len(handled) = m - 1 /\ sent >= Begin(m) /\ sent + n <= End(m)
        /\ sent = Begin(m) => n >= script[m].hdr
    BY <1>2 DEF MaySend
  <2>2. m = Current  BY <1>8, <2>1 DEF Current
  <2>3. QED  BY <1>8, <2>1, <2>2 DEF Remains, Last, Base, Header
<1>10. ~ws => Kind(m) \in HttpKinds  BY <1>2 DEF MaySend
<1>11. sent + n <= Total
  <2>1. CASE Kind(m) \in HttpKinds
    <3>1. sent + n <= Last /\ Prefix
      <4>1. Remains /\ Len(handled) \in Nat  BY <1>1, <1>9, <2>1 DEF Types
      <4>2. QED  BY <1>8, <1>9, <2>1, <4>1 DEF Prefix, Remains, Current
    <3>2. Last <= Total /\ Last \in Nat /\ Total \in Nat  BY <1>1, <1>9, <2>1, <3>1, Positions
    <3>3. QED  BY <1>4, <3>1, <3>2
  <2>2. CASE Kind(m) \notin HttpKinds
    <3>1. sent + n <= End(Len(script))  BY <1>2, <2>2 DEF MaySend
    <3>2. Len(script) \in 1 .. Len(script)  BY <1>8
    <3>3. QED  BY <1>8, <3>1, <3>2, Layout DEF Total
  <2>3. QED  BY <2>1, <2>2
<1>12. Stream'
  <2>1. PICK k \in Nat : k = Len(net)  BY <1>4
  <2>2. \A i \in 1 .. k : read + pend < net[i] /\ net[i] <= sent /\ net[i] \in Nat
    BY <1>1, <1>4, <2>1 DEF Stream
  <2>3. \A i \in 1 .. k + 1 : i \in 1 .. k \/ i = k + 1  BY <2>1
  <2>4. read + pend <= sent /\ sent < sent + n /\ read + pend < sent + n
    BY <1>1, <1>4 DEF Stream
  <2>5. \A i \in 1 .. k + 1 : read + pend < net'[i] /\ net'[i] <= sent + n
    <3>1. \A i \in 1 .. k : read + pend < net'[i] /\ net'[i] <= sent + n
      <4>1. \A x \in Nat : x <= sent => x <= sent + n  BY <1>4
      <4>2. QED  BY <1>6, <2>1, <2>2, <4>1
    <3>2. read + pend < net'[k + 1] /\ net'[k + 1] <= sent + n
      BY <1>4, <1>6, <2>1, <2>4
    <3>3. QED  BY <2>3, <3>1, <3>2
  <2>6. \A i, j \in 1 .. k + 1 : i < j => net'[i] < net'[j]
    <3> SUFFICES ASSUME NEW i \in 1 .. k + 1, NEW j \in 1 .. k + 1, i < j
                 PROVE  net'[i] < net'[j]
      OBVIOUS
    <3>1. i \in 1 .. k  BY <2>1
    <3>2. CASE j \in 1 .. k  BY <1>1, <1>6, <2>1, <3>1, <3>2 DEF Stream
    <3>3. CASE j = k + 1  BY <1>4, <1>6, <2>1, <2>2, <3>1, <3>3
    <3>4. QED  BY <2>3, <3>2, <3>3
  <2>7. net' # <<>> /\ net'[Len(net')] = sent'  BY <1>2, <1>4, <1>6
  <2>8. read' + pend' <= sent' /\ sent' <= Total'
    BY <1>2, <1>3, <1>4, <1>5, <1>11, <2>4
  <2>9. QED  BY <1>2, <1>3, <1>6, <2>1, <2>5, <2>6, <2>7, <2>8 DEF Stream
<1>13. ASSUME Serving, ~ws PROVE Request'
  <2>1. Request /\ Prefix /\ Remains /\ Kind(m) \in HttpKinds /\ m = Current
    BY <1>9, <1>10, <1>13 DEF IInv, Serving
  <2>2. sent' <= Last /\ (sent = Base => n >= Header)  BY <1>2, <1>9, <2>1
  <2>3. http = NoHttp => net'[1] >= Base + Header
    <3> SUFFICES ASSUME http = NoHttp PROVE net'[1] >= Base + Header  OBVIOUS
    <3>1. /\ read = Base /\ pend = 0 /\ Base \in Nat /\ Header \in Nat
          /\ net # <<>> => net[1] >= Base + Header
      BY <1>1, <2>1, Positions DEF Request
    <3>2. CASE net = <<>>
      <4>1. sent = Base  BY <1>1, <1>4, <3>1, <3>2 DEF Stream
      <4>2. net'[1] = sent + n  BY <1>6, <3>2
      <4>3. QED  BY <1>4, <2>2, <3>1, <4>1, <4>2
    <3>3. CASE net # <<>>
      <4>1. 1 \in 1 .. Len(net)  BY <1>4, <3>3
      <4>2. QED  BY <1>6, <3>1, <3>3, <4>1
    <3>4. QED  BY <3>2, <3>3
  <2>4. BodyUpTo' = BodyUpTo  BY <1>3, <1>5 DEF BodyUpTo
  <2>5. QED  BY <1>3, <1>5, <2>1, <2>2, <2>3, <2>4 DEF Request
<1>14. ASSUME Serving, ws PROVE Framing'
  <2>1. Framing  BY <1>14 DEF IInv
  <2>2. Waiting' = Waiting /\ Parsing' = Parsing  BY <1>3, <1>5 DEF Waiting, Parsing
  <2>3. QED  BY <1>3, <1>5, <2>1, <2>2 DEF Framing
<1>15. Serving' = Serving /\ ws' = ws  BY <1>3 DEF Serving
<1>16. HandledInOrder'  BY <1>1, <1>3, SameOrder
<1>17. /\ overrun' => ws' /\ http' = NoHttp
       /\ pc' = "parse" => at' < len'
       /\ ~overrun' => Prefix'
  BY <1>3, <1>5 DEF IInv
<1>18. QED  BY <1>7, <1>12, <1>13, <1>14, <1>15, <1>16, <1>17 DEF IInv

LEMMA ClientHangsUpHolds ==
  ASSUME IInv, ClientHangsUp
  PROVE  IInv'
<1>1. Types /\ Stream /\ HandledInOrder  BY DEF IInv
<1>2. /\ conn' = "hungup"
      /\ UNCHANGED <<script, sent, net, pend, read, ws, data, offset, busy, http, pc, at, len,
                     handled, mangled, overrun>>
  BY DEF ClientHangsUp, client, ssl, recv
<1>3. Total' = Total /\ Prefix' = Prefix  BY <1>2, SameCurrent
<1>4. Types'  BY <1>1, <1>2 DEF Types
<1>5. Stream'  BY <1>1, <1>2, <1>3 DEF Stream
<1>6. HandledInOrder'  BY <1>1, <1>2, SameOrder
<1>7. ~Serving'  BY <1>2 DEF Serving
<1>8. /\ overrun' => ws' /\ http' = NoHttp
      /\ pc' = "parse" => at' < len'
      /\ ~overrun' => Prefix'
  BY <1>2, <1>3 DEF IInv
<1>9. QED  BY <1>4, <1>5, <1>6, <1>7, <1>8 DEF IInv

(* The current request is complete: with its last byte everything is read,   *)
(* and what follows begins there.                                            *)
LEMMA RequestHandled ==
  ASSUME Types, Prefix, Request, Remains, ~ws,
         script' = script, sent' = sent, NEW x \in Nat, handled' = Append(handled, x),
         read' = Last, pend' \in Nat, net' \in Seq(Nat), Stream',
         http' = NoHttp, ws' = Upgraded(Current),
         UNCHANGED <<data, offset, busy, pc>>
  PROVE  (~ws' => Request') /\ (ws' => Framing')
<1>1. /\ Base' = Last /\ Total' = Total
      /\ Remains' => Last' >= Last
      /\ Kind(Current) = "upgrade" => Upgrades'
  BY NextCurrent
<1>2. Last \in Nat /\ sent \in Nat /\ sent <= Last  BY Positions DEF Request, Types
<1>3. read' + pend' <= sent'  BY DEF Stream
<1>4. pend' = 0 /\ sent' = Last
  <2>1. \A a, p, t \in Nat : a + p <= t /\ t <= a => p = 0 /\ t = a  OBVIOUS
  <2>2. QED  BY <1>2, <1>3, <2>1
<1>5. net' = <<>>
  <2> SUFFICES ASSUME net' # <<>> PROVE FALSE  OBVIOUS
  <2>1. 1 \in 1 .. Len(net')  OBVIOUS
  <2>2. read' + pend' < net'[1] /\ net'[1] <= sent' /\ net'[1] \in Nat  BY <2>1 DEF Stream
  <2>3. QED  BY <1>2, <1>4, <2>2
<1>6. data' = <<>> /\ offset' = 0 /\ busy' = FALSE /\ pc' = "wait"  BY DEF Request
<1>7. ~ws' => Request'
  <2>1. ~ (sent' > Base')  BY <1>1, <1>2, <1>4
  <2>2. Remains' => sent' <= Last'
    <3>1. QED  BY <1>1, <1>4
  <2>3. Base' <= read'  BY <1>1, <1>2
  <2>4. QED  BY <1>1, <1>4, <1>5, <1>6, <2>1, <2>2, <2>3 DEF Request
<1>8. ws' => Framing'
  <2> SUFFICES ASSUME ws' PROVE Framing'  OBVIOUS
  <2>1. Upgrades'  BY <1>1 DEF Upgraded
  <2>2. Waiting'  BY <1>1, <1>2, <1>6 DEF Waiting
  <2>3. QED  BY <1>6, <2>1, <2>2 DEF Framing
<1>9. QED  BY <1>7, <1>8

(* With the last byte of the current request the invariant is established    *)
(* again: the request is handled, or something that is no message if         *)
(* parse_http has changed the body.                                          *)
LEMMA RequestDone ==
  ASSUME IInv, Serving, Request, Remains, ~ws,
         UNCHANGED <<script, sent, data, offset, busy, pc, at, len, overrun>>,
         mangled \subseteq mangled', mangled' \in SUBSET Nat,
         NEW x \in Nat, handled' = Append(handled, x),
         x = Current \/ (x = 0 /\ Current \in mangled'),
         read' = Last, pend' \in Nat, net' \in Seq(Nat), Stream',
         http' = NoHttp, ws' = Upgraded(Current), conn' \in {"open", "hungup", "closed"}
  PROVE  IInv'
<1>1. Types /\ Prefix /\ HandledInOrder /\ ~overrun  BY DEF IInv, Serving
<1>2. (~ws' => Request') /\ (ws' => Framing')  BY <1>1, RequestHandled
<1>3. Prefix'  BY <1>1, NextCurrent
<1>4. handled' \in Seq(Nat) /\ HandledInOrder'  BY <1>1, NextInOrder
<1>5. Types'
  <2>1. ws' \in BOOLEAN  BY DEF Upgraded
  <2>2. <<>> \in Seq(Nat) /\ http' \in [msg : Nat, body : Seq(Nat)]  BY DEF NoHttp
  <2>3. read' \in Nat  BY <1>1, Positions
  <2>4. QED  BY <1>1, <1>4, <2>1, <2>2, <2>3 DEF Types
<1>6. pc' = "wait" /\ ~overrun'  BY <1>1 DEF Request
<1>7. QED  BY <1>2, <1>3, <1>4, <1>5, <1>6 DEF IInv

(* More of the current body has come: the invariant is established again.    *)
LEMMA RequestGoesOn ==
  ASSUME IInv, Serving, Request, Remains, ~ws,
         UNCHANGED <<script, sent, data, offset, busy, pc, at, len, overrun, conn, handled, ws>>,
         mangled \subseteq mangled', mangled' \in SUBSET Nat,
         read' \in Nat, pend' \in Nat, net' \in Seq(Nat), Stream', Base <= read',
         NEW body \in Seq(Nat), http' = [msg |-> Current, body |-> body],
         Base + Header + Len(body) <= read', Len(body) < Payload,
         Current \notin mangled' =>
           /\ Base + Header + Len(body) = read'
           /\ \A i \in 1 .. Len(body) : body[i] = Base + Header + i
  PROVE  IInv'
<1>1. Types /\ Prefix /\ HandledInOrder /\ ~overrun  BY DEF IInv, Serving
<1>2. Current \in Nat /\ Current # 0 /\ Last \in Nat /\ sent \in Nat /\ sent <= Last
  <2>1. Current \in 1 .. Len(script)  BY <1>1, Positions
  <2>2. QED  BY <1>1, <2>1, Positions DEF Types, Request
<1>3. /\ http' \in [msg : Nat, body : Seq(Nat)] /\ http'.msg = Current /\ http'.body = body
      /\ http' # NoHttp
  BY <1>2 DEF NoHttp
<1>4. /\ Base' = Base /\ Header' = Header /\ Payload' = Payload /\ Last' = Last
      /\ Remains' = Remains /\ Current' = Current /\ Kind(Current)' = Kind(Current)
      /\ Prefix' = Prefix
  BY SameCurrent
<1>5. Types'  BY <1>1, <1>3 DEF Types
<1>6. read' <= Last
  <2>1. read' + pend' <= sent  BY DEF Stream
  <2>2. \A a, p, t, l \in Nat : a + p <= t /\ t <= l => a <= l  OBVIOUS
  <2>3. QED  BY <1>2, <2>1, <2>2
<1>7. BodyUpTo'  BY <1>3, <1>4, <1>6 DEF BodyUpTo
<1>8. Request'
  <2>1. /\ data' = <<>> /\ offset' = 0 /\ busy' = FALSE /\ pc' = "wait"
        /\ Remains' => sent' <= Last'
        /\ sent' > Base' => Remains' /\ Kind(Current)' \in HttpKinds
    BY <1>4 DEF Request
  <2>2. QED  BY <1>3, <1>4, <1>7, <2>1 DEF Request
<1>9. HandledInOrder'  BY <1>1, SameOrder
<1>10. pc' = "wait" /\ ~overrun' /\ ~ws'  BY <1>1 DEF Request
<1>11. QED  BY <1>1, <1>4, <1>5, <1>8, <1>9, <1>10 DEF IInv

LEMMA ReadBodyHolds ==
  ASSUME IInv, ReadBody
  PROVE  IInv'
<1>1. /\ Types /\ Prefix /\ Stream /\ Serving /\ net # <<>> /\ http # NoHttp
      /\ ~ws /\ Request /\ BodyUpTo /\ Remains /\ http.msg = Current
  BY DEF IInv, ReadBody, Readable, Framing, Request, BodyUpTo, Serving
<1>2. UNCHANGED <<script, sent, data, offset, busy, pc, at, len, conn, mangled, overrun>>
  BY DEF ReadBody, client, recv
<1>3. /\ Base \in Nat /\ Header \in Nat /\ Payload \in Nat /\ Last \in Nat
      /\ Last = Base + Header + Payload
      /\ Current \in Nat /\ read \in Nat /\ sent \in Nat /\ http.body \in Seq(Nat)
      /\ Len(http.body) \in Nat /\ mangled \in SUBSET Nat
      /\ conn \in {"open", "hungup", "closed"}
  BY <1>1, Positions DEF Types
<1>4. PICK room : /\ room = Payload - Len(http.body)
                  /\ \E n \in 1 .. room :
                       /\ SSL_read(room, n)
                       /\ IF n >= room
                          THEN /\ handled' = HandledRequest(Current, http.body \o Received(n))
                               /\ ws' = Upgraded(Current) /\ http' = NoHttp
                          ELSE /\ http' = [http EXCEPT !.body = @ \o Received(n)]
                               /\ UNCHANGED <<handled, ws>>
  BY <1>1 DEF ReadBody, Payload
<1>5. PICK n \in 1 .. room :
        /\ SSL_read(room, n)
        /\ IF n >= room
           THEN /\ handled' = HandledRequest(Current, http.body \o Received(n))
                /\ ws' = Upgraded(Current) /\ http' = NoHttp
           ELSE /\ http' = [http EXCEPT !.body = @ \o Received(n)]
                /\ UNCHANGED <<handled, ws>>
  BY <1>4
<1>k. PICK k \in Nat : k = Len(http.body)  BY <1>3
<1>6. /\ room = Payload - k /\ Base + Header + k <= read /\ k < Payload
      /\ Current \notin mangled => Base + Header + k = read
  BY <1>1, <1>4, <1>k DEF BodyUpTo
<1>7. room \in Nat \ {0} /\ n \in Nat
  <2>1. room \in Nat \ {0}  BY <1>3, <1>6
  <2>2. QED  BY <1>5, <2>1
<1>8. Total' = Total  BY <1>2 DEF Total, Begin, End
<1>9. /\ n >= 1 /\ n <= room /\ read' = read + n /\ read' \in Nat
      /\ pend' \in Nat /\ net' \in Seq(Nat) /\ Stream'
  BY <1>1, <1>2, <1>5, <1>7, <1>8, ReadStream
<1>10. PICK body \in Seq(Nat) : body = http.body \o Received(n) /\ Len(body) = k + n
  <2>1. PICK t \in Seq(Nat) : t = Received(n) /\ Len(t) = n
    <3>1. Received(n) \in [1 .. n -> Nat]  BY <1>3, <1>7 DEF Received
    <3>2. Received(n) \in Seq(Nat) /\ Len(Received(n)) = n  BY <1>7, <3>1
    <3>3. QED  BY <3>2
  <2>2. PICK s \in Seq(Nat) : s = http.body /\ Len(s) = k  BY <1>3, <1>k
  <2>3. s \o t \in Seq(Nat) /\ Len(s \o t) = k + n  BY <2>1, <2>2
  <2>4. QED  BY <2>1, <2>2, <2>3
<1>11. Current \notin mangled => body = [i \in 1 .. k + n |-> (Base + Header) + i]
  <2> SUFFICES ASSUME Current \notin mangled
               PROVE  body = [i \in 1 .. k + n |-> (Base + Header) + i]
    OBVIOUS
  <2>1. PICK b \in Nat : b = Base + Header  BY <1>3
  <2>2. read = b + Len(http.body)  BY <1>k, <1>6, <2>1
  <2>3. \A i \in 1 .. Len(http.body) : http.body[i] = b + i
    BY <1>1, <2>1 DEF BodyUpTo
  <2>4. PICK s \in Seq(Nat) : s = http.body  BY <1>3
  <2>5. PICK r \in Nat : r = read  BY <1>3
  <2>6. s \o [i \in 1 .. n |-> r + i] = [i \in 1 .. Len(s) + n |-> b + i]
    BY <1>7, <2>2, <2>3, <2>4, <2>5, Joined
  <2>7. Received(n) = [i \in 1 .. n |-> r + i]  BY <2>5 DEF Received
  <2>8. QED  BY <1>k, <1>10, <2>1, <2>4, <2>6, <2>7
<1>12. read' <= Last
  <2>1. read' + pend' <= sent /\ sent <= Last  BY <1>1, <1>2, <1>9 DEF Stream, Request
  <2>2. \A a, p, t, l \in Nat : a + p <= t /\ t <= l => a <= l  OBVIOUS
  <2>3. QED  BY <1>3, <1>9, <2>1, <2>2
<1>13. CASE n >= room
  <2>1. read' = Last /\ k + n = Payload
    <3>1. n = room  BY <1>7, <1>9, <1>13
    <3>2. k + n = Payload  BY <1>3, <1>6, <3>1
    <3>3. read' >= Last  BY <1>3, <1>6, <1>7, <1>9, <3>2
    <3>4. QED  BY <1>3, <1>9, <1>12, <3>2, <3>3
  <2>2. PICK x \in Nat :
          handled' = Append(handled, x) /\ (x = Current \/ (x = 0 /\ Current \in mangled'))
    <3> DEFINE whole == [i \in 1 .. script[Current].len |-> Begin(Current) + script[Current].hdr + i]
    <3>1. handled' = Append(handled, IF body = whole THEN Current ELSE 0)
      BY <1>5, <1>10, <1>13 DEF HandledRequest
    <3>2. Current \notin mangled => body = whole
      BY <1>11, <2>1 DEF Base, Header, Payload
    <3> HIDE DEF whole
    <3>3. QED  BY <1>2, <1>3, <3>1, <3>2
  <2>3. ws' = Upgraded(Current) /\ http' = NoHttp  BY <1>5, <1>13
  <2>4. QED  BY <1>1, <1>2, <1>3, <1>9, <2>1, <2>2, <2>3, RequestDone
<1>14. CASE ~ (n >= room)
  <2>1. http' = [http EXCEPT !.body = body] /\ handled' = handled /\ ws' = ws
    BY <1>1, <1>5, <1>10, <1>14 DEF Types
  <2>2. http' = [msg |-> Current, body |-> body]
    BY <1>1, <2>1 DEF Types
  <2>3. Current \notin mangled => \A i \in 1 .. Len(body) : body[i] = Base + Header + i
    <3>1. k + n \in Nat /\ Len(body) = k + n  BY <1>7, <1>10
    <3>2. QED  BY <1>11, <3>1
  <2>4. /\ Base + Header + Len(body) <= read' /\ Len(body) < Payload /\ Base <= read'
        /\ Current \notin mangled => Base + Header + Len(body) = read'
    <3>1. n < room  BY <1>7, <1>14
    <3>2. QED  BY <1>3, <1>6, <1>7, <1>9, <1>10, <3>1
  <2>5. QED  BY <1>1, <1>2, <1>3, <1>9, <2>1, <2>2, <2>3, <2>4, RequestGoesOn
<1>15. QED  BY <1>13, <1>14

(* The bytes of a read behind a header.                                      *)
LEMMA BehindHeader ==
  ASSUME NEW r \in Nat, NEW n \in Nat, NEW h \in Nat, h <= n
  PROVE  /\ SubSeq([i \in 1 .. n |-> r + i], h + 1, n) \in Seq(Nat)
         /\ Len(SubSeq([i \in 1 .. n |-> r + i], h + 1, n)) = n - h
         /\ SubSeq([i \in 1 .. n |-> r + i], h + 1, n) = [i \in 1 .. n - h |-> r + h + i]
<1>1. PICK t \in Seq(Nat) : t = [i \in 1 .. n |-> r + i] /\ Len(t) = n
  <2>1. [i \in 1 .. n |-> r + i] \in [1 .. n -> Nat]  OBVIOUS
  <2>2. [i \in 1 .. n |-> r + i] \in Seq(Nat) /\ Len([i \in 1 .. n |-> r + i]) = n
    BY <2>1
  <2>3. QED  BY <2>2
<1>2. PICK k \in Nat : k = n - h  OBVIOUS
<1>3. (h + 1) + k - 1 = n /\ (h + 1) - 1 = h  BY <1>2
<1>4. \A i \in 1 .. k : (h + 1) + i - 1 \in 1 .. n /\ (h + 1) + i - 1 = h + i  BY <1>2
<1>5. SubSeq(t, h + 1, n) = [i \in 1 .. k |-> t[(h + 1) + i - 1]]
  BY <1>1, <1>2, SubSeqProperties, SMTT(40)
<1>6. \A i \in 1 .. k : t[(h + 1) + i - 1] = r + h + i  BY <1>1, <1>2, <1>4
<1>7. SubSeq(t, h + 1, n) = [i \in 1 .. k |-> r + h + i]  BY <1>5, <1>6
<1>8. [i \in 1 .. k |-> r + h + i] \in [1 .. k -> Nat]  OBVIOUS
<1>9. [i \in 1 .. k |-> r + h + i] \in Seq(Nat) /\ Len([i \in 1 .. k |-> r + h + i]) = k
  BY <1>8
<1>10. QED  BY <1>1, <1>2, <1>7, <1>9

(* parse_http takes no more for the body than what came behind the header.   *)
LEMMA Taken ==
  ASSUME NEW m, NEW part \in Seq(Nat)
  PROVE  BodyTaken(m, part) \in Seq(Nat) /\ Len(BodyTaken(m, part)) <= Len(part)
<1>1. PICK k \in Nat : k = Len(part)  OBVIOUS
<1>2. CASE script[m].nul
  <2>1. BodyTaken(m, part) = <<>>  BY <1>2 DEF BodyTaken
  <2>2. QED  BY <1>1, <2>1
<1>3. CASE ~script[m].nul
  <2>1. PICK Z : BodyTaken(m, part) = [i \in 1 .. k |-> IF i \in Z THEN 0 ELSE part[i]]
    BY <1>1, <1>3 DEF BodyTaken
  <2>2. BodyTaken(m, part) \in [1 .. k -> Nat]  BY <1>1, <2>1
  <2>3. BodyTaken(m, part) \in Seq(Nat) /\ Len(BodyTaken(m, part)) = k  BY <1>1, <2>2
  <2>4. QED  BY <1>1, <2>3
<1>4. QED  BY <1>2, <1>3

LEMMA ReadRequestHolds ==
  ASSUME IInv, ReadRequest
  PROVE  IInv'
<1>1. /\ Types /\ Prefix /\ Stream /\ Serving /\ net # <<>> /\ http = NoHttp /\ ~ws /\ Request
  BY DEF IInv, ReadRequest, Readable, Serving
<1>2. UNCHANGED <<script, sent, data, offset, busy, pc, at, len, overrun>>
  BY DEF ReadRequest, client, recv
<1>3. read = Base /\ pend = 0 /\ net[1] >= Base + Header  BY <1>1 DEF Request
<1>4. /\ net[1] \in Nat /\ read < net[1] /\ net[1] <= sent /\ sent \in Nat /\ read \in Nat
      /\ Base \in Nat
  <2>1. 1 \in 1 .. Len(net) /\ net[1] \in Nat /\ sent \in Nat /\ read \in Nat /\ pend \in Nat
    BY <1>1 DEF Types
  <2>2. read + pend < net[1] /\ net[1] <= sent  BY <1>1, <2>1 DEF Stream
  <2>3. QED  BY <1>3, <2>1, <2>2
<1>5. Remains /\ Kind(Current) \in HttpKinds /\ sent <= Last
  <2>1. sent > Base  BY <1>3, <1>4
  <2>2. QED  BY <1>1, <2>1 DEF Request
<1>6. /\ Header \in Nat /\ Payload \in Nat /\ Last \in Nat /\ Last = Base + Header + Payload
      /\ MessageAt(read + 1) = Current /\ Current \in Nat /\ Current # 0
  <2>1. Current \in 1 .. Len(script)  BY <1>1, <1>5, Positions
  <2>2. QED  BY <1>1, <1>3, <1>5, <2>1, Positions
<1>7. Header <= Page  BY <1>1, <1>5, RequestHeader
<1>8. PICK n \in 1 .. Page :
        SSL_read(Page, n) /\ server_http_parse(Current, Received(n), n)
  BY <1>6 DEF ReadRequest
<1>9. Total' = Total  BY <1>2 DEF Total, Begin, End
<1>10. /\ n \in Nat /\ n >= 1 /\ n <= Page /\ read' = read + n /\ read' \in Nat
       /\ pend' \in Nat /\ net' \in Seq(Nat) /\ Stream'
       /\ n = Page \/ n = net[1] - read
  <2>1. Page \in Nat \ {0} /\ n \in Nat  BY <1>8
  <2>2. QED  BY <1>1, <1>2, <1>3, <1>8, <1>9, <2>1, ReadStream
<1>11. Header <= n  BY <1>3, <1>4, <1>6, <1>7, <1>10
<1>12. read' <= Last
  <2>1. read' + pend' <= sent  BY <1>2, <1>10 DEF Stream
  <2>2. read' \in Nat /\ pend' \in Nat /\ sent \in Nat /\ Last \in Nat /\ sent <= Last
    BY <1>4, <1>5, <1>6, <1>10
  <2>3. \A a, p, t, l \in Nat : a + p <= t /\ t <= l => a <= l  OBVIOUS
  <2>4. QED  BY <2>1, <2>2, <2>3
<1>13. PICK k \in Nat : k = n - Header  BY <1>6, <1>10, <1>11
<1>14. PICK part \in Seq(Nat) :
         /\ part = SubSeq(Received(n), script[Current].hdr + 1, n)
         /\ Len(part) = k /\ part = [i \in 1 .. k |-> Base + Header + i]
  <2>1. PICK r \in Nat : r = read  BY <1>4
  <2>2. PICK h \in Nat : h = Header  BY <1>6
  <2>3. h <= n /\ n - h = k  BY <1>11, <1>13, <2>2
  <2>4. /\ SubSeq([i \in 1 .. n |-> r + i], h + 1, n) \in Seq(Nat)
        /\ Len(SubSeq([i \in 1 .. n |-> r + i], h + 1, n)) = k
        /\ SubSeq([i \in 1 .. n |-> r + i], h + 1, n) = [i \in 1 .. k |-> r + h + i]
    BY <1>10, <2>3, BehindHeader
  <2>5. Received(n) = [i \in 1 .. n |-> r + i]  BY <2>1 DEF Received
  <2>6. QED  BY <1>3, <2>1, <2>2, <2>4, <2>5 DEF Header
<1>15. PICK body \in Seq(Nat) : body = BodyTaken(Current, part) /\ Len(body) <= k
  BY <1>14, Taken
<1>16. /\ mangled' = IF body = part THEN mangled ELSE mangled \cup {Current}
       /\ IF Payload > Len(body)
          THEN /\ http' = [msg |-> Current, body |-> body]
               /\ UNCHANGED <<handled, ws, conn>>
          ELSE /\ server_handle_http(Current, body)
               /\ UNCHANGED http
  BY <1>8, <1>14, <1>15 DEF server_http_parse, Payload
<1>17. /\ mangled \subseteq mangled' /\ mangled' \in SUBSET Nat
       /\ Current \notin mangled' => body = part
  <2>1. mangled \in SUBSET Nat  BY <1>1 DEF Types
  <2>2. QED  BY <1>6, <1>16, <2>1
<1>18. Base + Header + k = read' /\ Base <= read'
  BY <1>3, <1>4, <1>6, <1>10, <1>13
<1>19. CASE Payload > Len(body)
  <2>1. http' = [msg |-> Current, body |-> body] /\ UNCHANGED <<handled, ws, conn>>
    BY <1>16, <1>19
  <2>2. Base + Header + Len(body) <= read' /\ Len(body) < Payload
    BY <1>4, <1>6, <1>15, <1>18, <1>19
  <2>3. Current \notin mangled' =>
          /\ Base + Header + Len(body) = read'
          /\ \A i \in 1 .. Len(body) : body[i] = Base + Header + i
    BY <1>14, <1>17, <1>18
  <2>4. QED  BY <1>1, <1>2, <1>5, <1>10, <1>17, <1>18, <2>1, <2>2, <2>3, RequestGoesOn
<1>20. CASE ~ (Payload > Len(body))
  <2>1. /\ handled' = HandledRequest(Current, body) /\ ws' = Upgraded(Current)
        /\ conn' = IF Kind(Current) = "put" THEN "closed" ELSE conn
        /\ http' = NoHttp
    BY <1>1, <1>16, <1>20 DEF server_handle_http
  <2>2. k = Payload /\ read' = Last
    <3>1. Len(body) \in Nat /\ Len(body) >= Payload  BY <1>6, <1>20
    <3>2. QED  BY <1>4, <1>6, <1>10, <1>12, <1>15, <1>18, <3>1
  <2>3. PICK x \in Nat :
          handled' = Append(handled, x) /\ (x = Current \/ (x = 0 /\ Current \in mangled'))
    <3> DEFINE whole == [i \in 1 .. script[Current].len |-> Begin(Current) + script[Current].hdr + i]
    <3>1. handled' = Append(handled, IF body = whole THEN Current ELSE 0)
      BY <2>1 DEF HandledRequest
    <3>2. Current \notin mangled' => body = whole
      BY <1>14, <1>17, <2>2 DEF Base, Header, Payload
    <3> HIDE DEF whole
    <3>3. QED  BY <1>6, <3>1, <3>2
  <2>4. conn' \in {"open", "hungup", "closed"}  BY <1>1, <2>1 DEF Types
  <2>5. QED  BY <1>1, <1>2, <1>5, <1>10, <1>17, <2>1, <2>2, <2>3, <2>4, RequestDone
<1>21. QED  BY <1>19, <1>20

LEMMA ReadFramesHolds ==
  ASSUME IInv, ReadFrames
  PROVE  IInv'
<1>1. /\ Types /\ Stream /\ HandledInOrder /\ (~overrun => Prefix)
      /\ net # <<>> /\ http = NoHttp /\ ws
      /\ ~overrun => Framing /\ Waiting
  BY DEF IInv, ReadFrames, Readable, Framing, Serving
<1>2. /\ UNCHANGED <<script, sent, ws, offset, busy, http, conn, handled, mangled, overrun>>
      /\ pc' = "parse" /\ at' = 0
  BY DEF ReadFrames, client
<1>3. PICK buf \in Seq(Nat) : /\ buf = IF data = <<>> THEN [i \in 1 .. Page |-> 0] ELSE data
                              /\ data = <<>> => Len(buf) = Page
  <2>1. [i \in 1 .. Page |-> 0] \in Seq(Nat) /\ Len([i \in 1 .. Page |-> 0]) = Page
    <3>1. [i \in 1 .. Page |-> 0] \in [1 .. Page -> Nat] /\ Page \in Nat  OBVIOUS
    <3>2. QED  BY <3>1
  <2>2. QED  BY <1>1, <2>1 DEF Types
<1>4. PICK size \in Nat : size = Len(buf)  OBVIOUS
<1>5. offset \in Nat /\ read \in Nat  BY <1>1 DEF Types
<1>6. PICK room \in Int : room = size - offset  BY <1>5
<1>7. PICK n \in 1 .. room :
        /\ SSL_read(room, n)
        /\ data' = [i \in 1 .. size |->
                      IF i \in offset + 1 .. offset + n THEN read + i - offset ELSE buf[i]]
        /\ len' = offset + n
  BY <1>3, <1>4, <1>6 DEF ReadFrames
<1>8. /\ Base' = Base /\ Total' = Total /\ Upgrades' = Upgrades /\ Prefix' = Prefix
  BY <1>2, SameCurrent
<1>9. n \in Nat /\ room \in Nat \ {0}  BY <1>6, <1>7
<1>10. /\ n >= 1 /\ n <= room /\ read' = read + n /\ read' \in Nat
       /\ pend' \in Nat /\ net' \in Seq(Nat) /\ Stream'
  BY <1>1, <1>2, <1>7, <1>8, <1>9, ReadStream
<1>11. data' \in Seq(Nat) /\ Len(data') = size
  <2>1. \A i \in 1 .. size : i \in offset + 1 .. offset + n => read + i - offset \in Nat
    BY <1>4, <1>5, <1>9
  <2>2. data' \in [1 .. size -> Nat]  BY <1>4, <1>7, <2>1
  <2>3. QED  BY <1>4, <2>2
<1>12. len' \in Nat /\ len' = offset + n /\ at' < len' /\ len' <= size
  BY <1>2, <1>4, <1>5, <1>6, <1>7, <1>9, <1>10
<1>13. Types'  BY <1>1, <1>2, <1>10, <1>11, <1>12 DEF Types
<1>14. HandledInOrder'  BY <1>1, <1>2, SameOrder
<1>15. ASSUME ~overrun PROVE Framing'
  <2>1. Base \in Nat /\ read = Base + offset  BY <1>1, <1>15, Positions DEF Waiting
  <2>2. \A i \in 1 .. size : i \in offset + 1 .. offset + n => read + i - offset = Base + i
    BY <1>4, <1>5, <1>9, <2>1
  <2>3. data' = [i \in 1 .. size |-> IF i \in offset + 1 .. offset + n THEN Base + i ELSE buf[i]]
    BY <1>7, <2>2
  <2>4. read' = Base + len' /\ len' - at' = len' /\ at' + 1 = 1
    BY <1>2, <1>5, <1>9, <1>10, <1>12, <2>1
  <2>5. \A i \in 1 .. len' : i \in 1 .. size /\ read' - len' + i = Base + i
    BY <1>4, <1>12, <2>1, <2>4
  <2>6. \A i \in 1 .. len' : data'[i] = Base + i
    <3> SUFFICES ASSUME NEW i \in 1 .. len' PROVE data'[i] = Base + i  OBVIOUS
    <3>1. i \in 1 .. size /\ (i \in offset + 1 .. offset + n \/ i \in 1 .. offset)
      BY <1>5, <1>9, <1>12, <2>5
    <3>2. i \in 1 .. offset => buf[i] = Base + i
      <4>1. i \in 1 .. offset => data # <<>>  BY <1>1, <1>5, <1>15 DEF Waiting
      <4>2. QED  BY <1>1, <1>3, <1>15, <4>1 DEF Waiting
    <3>3. QED  BY <2>3, <3>1, <3>2
  <2>7. Parsing'  BY <1>2, <1>8, <1>11, <1>12, <2>4, <2>5, <2>6 DEF Parsing
  <2>8. QED  BY <1>1, <1>2, <1>8, <1>15, <2>7 DEF Framing
<1>16. QED  BY <1>1, <1>2, <1>8, <1>10, <1>12, <1>13, <1>14, <1>15 DEF IInv, Serving

-----------------------------------------------------------------------------
(* The parser.                                                               *)

(* What the code takes for the size of the current frame: its size once the  *)
(* length has come, and more than what has come before that.                 *)
LEMMA SizeOfFrame ==
  ASSUME NoLongFrames, Types, Prefix, Remains, Upgrades, at < len,
         NEW total \in TotalSizes(Current)
  PROVE  /\ total \in Nat
         /\ total = Header + Payload \/ (total > Left /\ Left < Header + Payload)
<1>1. Header \in {6, 8}  BY CurrentIsFrame
<1>2. Header \in Nat /\ Payload \in Nat  BY Positions
<1>3. Left \in Nat /\ Left >= 1  BY DEF Left, Types
<1>4. CASE Left >= LengthBytes(Current)
  BY <1>1, <1>2, <1>4 DEF TotalSizes, PayloadLen, Header, Payload
<1>5. CASE ~ (Left >= LengthBytes(Current))
  <2>1. Header = 6 => LengthBytes(Current) = 2  BY DEF LengthBytes, Header
  <2>2. Header = 8 => LengthBytes(Current) = 4  BY DEF LengthBytes, Header
  <2>3. Garbage \subseteq Nat /\ Left < Header + Payload
    BY <1>1, <1>2, <1>3, <1>5, <2>1, <2>2
  <2>4. CASE Left >= 2
    <3>1. total \in {Header + g : g \in Garbage}  BY <1>5, <2>4 DEF TotalSizes, Header
    <3>2. PICK g \in Nat : total = Header + g  BY <2>3, <3>1
    <3>3. Header = 8 /\ Left < 4  BY <1>1, <1>3, <1>5, <2>1, <2>2, <2>4
    <3>4. QED  BY <1>3, <2>3, <3>2, <3>3
  <2>5. CASE ~ (Left >= 2)
    <3>1. total \in {h + g : h \in {2, 6}, g \in Garbage}  BY <1>5, <2>5 DEF TotalSizes
    <3>2. PICK h \in {2, 6}, g \in Nat : total = h + g  BY <2>3, <3>1
    <3>3. QED  BY <1>3, <2>3, <2>5, <3>2
  <2>6. QED  BY <2>4, <2>5
<1>6. QED  BY <1>4, <1>5

(* Whatever the parser takes for a frame, the types, the stream and the      *)
(* order of what is handled are kept.                                        *)
LEMMA PartialKeeps ==
  ASSUME Types, Stream, HandledInOrder, at < len, NEW total \in Nat, PartialFrame(total)
  PROVE  /\ Types' /\ Stream' /\ HandledInOrder' /\ pc' = "wait"
         /\ Len(data') = total
<1>1. /\ total > Left /\ data' = Realloc(total) /\ offset' = Left /\ busy' = TRUE
      /\ overrun' = (overrun \/ at > 0) /\ pc' = "wait"
      /\ UNCHANGED <<script, sent, net, pend, read, ws, http, at, len, conn, handled, mangled>>
  BY DEF PartialFrame, client, ssl
<1>2. at \in Nat /\ len \in Nat /\ data \in Seq(Nat) /\ Left \in Nat  BY DEF Types, Left
<1>3. Total' = Total  BY <1>1, SameCurrent
<1>4. PICK size \in Nat : size = Len(data)  BY <1>2
<1>5. data' = [i \in 1 .. total |-> IF i <= size THEN data[i] ELSE 0]
  BY <1>1, <1>4 DEF Realloc
<1>6. data' \in Seq(Nat) /\ Len(data') = total
  <2>1. \A i \in 1 .. total : i <= size => data[i] \in Nat  BY <1>2, <1>4
  <2>2. data' \in [1 .. total -> Nat]  BY <1>5, <2>1
  <2>3. QED  BY <2>2
<1>7. Types'
  <2>1. overrun' \in BOOLEAN /\ busy' \in BOOLEAN  BY <1>1
  <2>2. QED  BY <1>1, <1>2, <1>6, <2>1 DEF Types
<1>8. Stream'  BY <1>1, <1>3 DEF Stream
<1>9. overrun => overrun'  BY <1>1, Zenon
<1>10. HandledInOrder'  BY <1>1, <1>9, SameOrder
<1>11. QED  BY <1>1, <1>6, <1>7, <1>8, <1>10

LEMMA FrameKeeps ==
  ASSUME Types, Stream, HandledInOrder, at < len, NEW total \in Nat, NEW m \in Nat, NEW ends,
         FrameHandled(total, m, ends), m = Current \/ (m = 0 /\ overrun)
  PROVE  /\ Types' /\ Stream' /\ HandledInOrder'
         /\ pc' = "parse" => at' < len'
<1>1. /\ total <= Left /\ handled' = Append(handled, m)
      /\ conn' = IF ends THEN "closed" ELSE conn
      /\ IF total < Left /\ ~ends
         THEN at' = at + total /\ UNCHANGED <<pc, data, offset, busy>>
         ELSE /\ pc' = "wait" /\ data' = <<>> /\ offset' = 0 /\ busy' = FALSE
              /\ UNCHANGED at
      /\ UNCHANGED <<script, sent, net, pend, read, ws, http, len, mangled, overrun>>
  BY DEF FrameHandled, client, ssl, recv
<1>2. at \in Nat /\ len \in Nat /\ Left = len - at  BY DEF Types, Left
<1>3. Total' = Total  BY <1>1 DEF Total, Begin, End
<1>4. handled' \in Seq(Nat) /\ HandledInOrder'  BY <1>1, NextInOrder
<1>5. /\ at' \in Nat /\ data' \in Seq(Nat) /\ offset' \in Nat /\ pc' \in {"wait", "parse"}
      /\ busy' \in BOOLEAN
      /\ pc' = "parse" => at' < len'
  <2>1. at + total \in Nat /\ <<>> \in Seq(Nat)  BY <1>2
  <2>2. CASE total < Left /\ ~ends
    <3>1. at' = at + total /\ UNCHANGED <<pc, data, offset, busy>>  BY <1>1, <2>2
    <3>2. at' < len'  BY <1>1, <1>2, <2>2, <3>1
    <3>3. QED  BY <2>1, <3>1, <3>2 DEF Types
  <2>3. CASE ~ (total < Left /\ ~ends)
    <3>1. pc' = "wait" /\ data' = <<>> /\ offset' = 0 /\ busy' = FALSE /\ at' = at
      BY <1>1, <2>3
    <3>2. QED  BY <1>2, <2>1, <3>1
  <2>4. QED  BY <2>2, <2>3
<1>6. conn' \in {"open", "hungup", "closed"}  BY <1>1 DEF Types
<1>7. Types'  BY <1>1, <1>4, <1>5, <1>6 DEF Types
<1>8. Stream'  BY <1>1, <1>3 DEF Stream
<1>9. QED  BY <1>4, <1>5, <1>7, <1>8

LEMMA PartialFrameHolds ==
  ASSUME Types, Prefix, Stream, HandledInOrder, ws, Framing, Parsing, NEW total \in Nat,
         PartialFrame(total), ~overrun, Left < Header + Payload
  PROVE  IInv'
<1>1. /\ total > Left /\ data' = Realloc(total) /\ offset' = Left /\ busy' = TRUE
      /\ overrun' = (at > 0) /\ pc' = "wait"
      /\ UNCHANGED <<script, sent, net, pend, read, ws, http, at, len, conn, handled>>
  BY DEF PartialFrame, client, ssl
<1>2. /\ at \in Nat /\ len \in Nat /\ at < len /\ len <= Len(data) /\ data \in Seq(Nat)
      /\ read \in Nat /\ Left = len - at /\ Left \in Nat /\ Left >= 1
  BY DEF Types, Parsing, Left
<1>3. /\ Base' = Base /\ Total' = Total /\ Upgrades' = Upgrades /\ Prefix' = Prefix
      /\ Header' = Header /\ Payload' = Payload
  BY <1>1, SameCurrent
<1>4. PICK size \in Nat : size = Len(data)  BY <1>2
<1>5. data' = [i \in 1 .. total |-> IF i <= size THEN data[i] ELSE 0]
  BY <1>1, <1>4 DEF Realloc
<1>6. Types' /\ Stream' /\ HandledInOrder' /\ Len(data') = total
  BY <1>2, PartialKeeps
<1>7. Serving' => Waiting'
  <2> SUFFICES ASSUME Serving' PROVE Waiting'  OBVIOUS
  <2>a. at = 0
    <3>1. ~ (at > 0)  BY <1>1, Zenon DEF Serving
    <3>2. QED  BY <1>2, <3>1
  <2>1. Left = len  BY <1>2, <2>a
  <2>2. Base \in Nat /\ read = Base + len  BY <1>2, <2>a, Positions DEF Parsing
  <2>3. \A i \in 1 .. len : i \in 1 .. total /\ i <= size /\ data[i] = Base + i
    <3>1. \A i \in 1 .. len : i \in 1 .. total /\ i <= size  BY <1>1, <1>2, <1>4, <2>1
    <3>2. \A i \in 1 .. len : data[i] = read - len + i  BY <2>a DEF Parsing
    <3>3. \A i \in 1 .. len : read - len + i = Base + i  BY <1>2, <2>2
    <3>4. QED  BY <3>1, <3>2, <3>3
  <2>4. \A i \in 1 .. len : data'[i] = Base + i  BY <1>5, <2>3
  <2>5. data' # <<>>
    <3>1. total > 0  BY <1>1, <1>2
    <3>2. QED  BY <1>6, <3>1
  <2>6. offset' = len /\ offset' > 0 /\ offset' < Len(data')  BY <1>1, <1>2, <1>6, <2>1
  <2>7. offset' < Header' + Payload'  BY <1>1, <1>3
  <2>8. QED  BY <1>1, <1>3, <2>2, <2>4, <2>5, <2>6, <2>7 DEF Waiting
<1>8. Serving' => Framing'  BY <1>1, <1>3, <1>7 DEF Framing
<1>9. QED  BY <1>1, <1>3, <1>6, <1>8 DEF IInv, Framing

LEMMA WholeFrameHolds ==
  ASSUME Types, Prefix, Stream, HandledInOrder, ws, Framing, pc = "parse", Parsing, Remains,
         ~overrun, WholeFrame(Current, Header + Payload)
  PROVE  IInv'
<1>1. PICK total \in Nat : total = Header + Payload  BY Positions
<1>2. PICK ends : ends = Disconnects(Current)  OBVIOUS
<1>3. /\ at \in Nat /\ len \in Nat /\ at < len /\ len <= Len(data) /\ data \in Seq(Nat)
      /\ read \in Nat /\ Left = len - at /\ Left \in Nat
  BY DEF Types, Parsing, Left
<1>4. /\ Base \in Nat /\ Last \in Nat /\ Last = Base + total /\ read = Base + (len - at)
      /\ Current \in Nat
  BY <1>1, Positions DEF Parsing
<1>5. total <= Left  BY <1>1 DEF WholeFrame, FrameHandled
<1>6. IsWhole(Current)
  <2>1. \A i \in 1 .. total : at + i <= len /\ at + i \in at + 1 .. len
    BY <1>1, <1>3, <1>5
  <2>2. \A i \in 1 .. total : read - len + (at + i) = Base + i
    BY <1>1, <1>3, <1>4
  <2>3. \A i \in 1 .. total : at + i <= len /\ data[at + i] = Base + i
    BY <2>1, <2>2 DEF Parsing
  <2>4. QED  BY <1>1, <2>3 DEF IsWhole, Size, Header, Payload, Base
<1>7. FrameHandled(total, Current, ends)  BY <1>1, <1>2, <1>6 DEF WholeFrame
<1>8. /\ handled' = Append(handled, Current)
      /\ conn' = IF ends THEN "closed" ELSE conn
      /\ IF total < Left /\ ~ends
         THEN at' = at + total /\ UNCHANGED <<pc, data, offset, busy>>
         ELSE /\ pc' = "wait" /\ data' = <<>> /\ offset' = 0 /\ busy' = FALSE
              /\ UNCHANGED at
      /\ UNCHANGED <<script, sent, net, pend, read, ws, http, len, overrun>>
  BY <1>7 DEF FrameHandled, client, ssl, recv
<1>9. Prefix' /\ Base' = Last /\ Upgrades'  BY <1>4, <1>8, NextCurrent DEF Framing
<1>10. /\ Types' /\ Stream' /\ HandledInOrder'
       /\ pc' = "parse" => at' < len'
  BY <1>3, <1>4, <1>7, FrameKeeps
<1>11. Serving' => Framing'
  <2> SUFFICES ASSUME Serving' PROVE Framing'  OBVIOUS
  <2>1. ~ends  BY <1>8 DEF Serving
  <2>2. CASE total < Left
    <3>1. /\ at' = at + total /\ pc' = pc /\ data' = data
      BY <1>8, <2>1, <2>2
    <3>2. at' < len' /\ len' <= Len(data') /\ read' = Last + (len' - at')
      BY <1>1, <1>8, <1>3, <1>4, <2>2, <3>1
    <3>3. \A i \in at' + 1 .. len' : i \in at + 1 .. len
      BY <1>1, <1>8, <1>3, <3>1
    <3>4. Parsing'  BY <1>8, <1>9, <3>1, <3>2, <3>3 DEF Parsing
    <3>5. QED  BY <1>8, <1>9, <3>1, <3>4 DEF Framing
  <2>3. CASE ~ (total < Left)
    <3>1. pc' = "wait" /\ data' = <<>> /\ offset' = 0 /\ busy' = FALSE
      BY <1>8, <2>3
    <3>2. read' = Last
      <4>1. total = Left  BY <1>5, <1>3, <2>3
      <4>2. read' = Base + Left  BY <1>8, <1>3, <1>4
      <4>3. QED  BY <1>4, <4>1, <4>2
    <3>3. Waiting'  BY <1>4, <1>9, <3>1, <3>2 DEF Waiting
    <3>4. QED  BY <1>8, <1>9, <3>1, <3>3 DEF Framing
  <2>4. QED  BY <2>2, <2>3
<1>12. QED  BY <1>8, <1>9, <1>10, <1>11 DEF IInv

(* The parser looks at the current frame.                                    *)
LEMMA ParserAtCurrent ==
  ASSUME Types, Prefix, Stream, Parsing
  PROVE  Remains /\ FrameAt = Current
<1>1. /\ at \in Nat /\ len \in Nat /\ at < len /\ read \in Nat /\ pend \in Nat /\ sent \in Nat
      /\ Base \in Nat /\ Total \in Nat /\ read = Base + (len - at)
  BY Positions DEF Types, Parsing
<1>2. read <= Total
  <2>1. read + pend <= sent /\ sent <= Total  BY DEF Stream
  <2>2. \A a, p, t, l \in Nat : a + p <= t /\ t <= l => a <= l  OBVIOUS
  <2>3. QED  BY <1>1, <2>1, <2>2
<1>3. Base < Total  BY <1>1, <1>2
<1>4. Remains /\ MessageAt(Base + 1) = Current  BY <1>1, <1>3, Positions
<1>5. data[at + 1] = Base + 1
  <2>1. at + 1 \in at + 1 .. len /\ read - len + (at + 1) = Base + 1  BY <1>1
  <2>2. QED  BY <2>1 DEF Parsing
<1>6. QED  BY <1>4, <1>5 DEF FrameAt

LEMMA ParseHolds ==
  ASSUME NoLongFrames, IInv, server_ws_parse
  PROVE  IInv'
<1>1. Types /\ Stream /\ HandledInOrder /\ pc = "parse" /\ conn = "open" /\ at < len
  BY DEF IInv, server_ws_parse
<1>2. CASE ~overrun
  <2>1. Prefix /\ Serving /\ ws /\ Framing /\ Parsing
    BY <1>1, <1>2 DEF IInv, Serving, Request, Framing
  <2>2. Remains /\ FrameAt = Current  BY <1>1, <2>1, ParserAtCurrent
  <2>3. PICK total \in TotalSizes(Current) : PartialFrame(total) \/ WholeFrame(Current, total)
    BY <1>2, <2>2 DEF server_ws_parse
  <2>4. /\ total \in Nat /\ Left \in Nat
        /\ total = Header + Payload \/ (total > Left /\ Left < Header + Payload)
    BY <1>1, <2>1, <2>2, SizeOfFrame DEF Framing, Left, Types
  <2>5. CASE PartialFrame(total)
    <3>1. Left < Header + Payload  BY <2>4, <2>5 DEF PartialFrame
    <3>2. QED  BY <1>1, <1>2, <2>1, <2>4, <2>5, <3>1, PartialFrameHolds
  <2>6. CASE WholeFrame(Current, total)
    <3>1. total <= Left  BY <2>6 DEF WholeFrame, FrameHandled
    <3>2. total = Header + Payload  BY <2>4, <3>1
    <3>3. WholeFrame(Current, Header + Payload)  BY <2>6, <3>2
    <3>4. QED  BY <1>1, <1>2, <2>1, <2>2, <3>3, WholeFrameHolds
  <2>7. QED  BY <2>3, <2>5, <2>6
<1>3. CASE overrun
  <2>1. PICK total \in LostSizes : PartialFrame(total) \/ LostFrame(total)
    BY <1>3 DEF server_ws_parse
  <2>2. total \in Nat
    <3>1. script \in Scripts /\ DOMAIN script = 1 .. Len(script)
      BY <1>1, ScriptsAssumption DEF Types
    <3>2. \A m \in DOMAIN script : script[m].hdr \in Nat /\ script[m].len \in Nat
      BY <3>1, Layout
    <3>3. \A m \in DOMAIN script : script[m].hdr + PayloadLen(m) \in Nat
      BY <3>2 DEF PayloadLen
    <3>4. \A h \in {2, 6}, g \in Garbage : h + g \in Nat  OBVIOUS
    <3>5. QED  BY <2>1, <3>3, <3>4 DEF LostSizes
  <2>3. ws /\ http = NoHttp  BY <1>3 DEF IInv
  <2>4. CASE PartialFrame(total)
    <3>1. Types' /\ Stream' /\ HandledInOrder' /\ pc' = "wait"
      BY <1>1, <2>2, <2>4, PartialKeeps
    <3>2. overrun' /\ ws' = ws /\ http' = http  BY <1>3, <2>4, Zenon DEF PartialFrame
    <3>3. QED  BY <2>3, <3>1, <3>2 DEF IInv, Serving
  <2>5. CASE LostFrame(total)
    <3>1. PICK ends \in BOOLEAN : FrameHandled(total, 0, ends)  BY <2>5 DEF LostFrame
    <3>2. /\ Types' /\ Stream' /\ HandledInOrder'
          /\ pc' = "parse" => at' < len'
      BY <1>1, <1>3, <2>2, <3>1, FrameKeeps
    <3>3. overrun' /\ ws' = ws /\ http' = http  BY <1>3, <3>1 DEF FrameHandled
    <3>4. QED  BY <2>3, <3>2, <3>3 DEF IInv, Serving
  <2>6. QED  BY <2>1, <2>4, <2>5
<1>4. QED  BY <1>2, <1>3

-----------------------------------------------------------------------------
(* Theorems                                                                  *)

LEMMA Inductive ==
  ASSUME NoLongFrames
  PROVE  Spec => []IInv
<1>1. Init => IInv  BY InitHolds
<1>2. IInv /\ [Next]_vars => IInv'
  <2> SUFFICES ASSUME IInv, [Next]_vars PROVE IInv'  OBVIOUS
  <2>1. CASE ClientSends  BY <2>1, ClientSendsHolds
  <2>2. CASE ClientHangsUp  BY <2>2, ClientHangsUpHolds
  <2>3. CASE ReadBody  BY <2>3, ReadBodyHolds
  <2>4. CASE ReadRequest  BY <2>4, ReadRequestHolds
  <2>5. CASE ReadFrames  BY <2>5, ReadFramesHolds
  <2>6. CASE server_ws_parse  BY <2>6, ParseHolds
  <2>7. CASE UNCHANGED vars
    <3>1. UNCHANGED <<script, sent, net, pend, read, ws, data, offset, busy, http, pc, at, len,
                      conn, handled, mangled, overrun>>
      BY <2>7 DEF vars, client, ssl, recv
    <3>2. /\ Base' = Base /\ Header' = Header /\ Last' = Last /\ Remains' = Remains
          /\ Payload' = Payload /\ Total' = Total /\ Upgrades' = Upgrades
          /\ Current' = Current /\ Kind(Current)' = Kind(Current) /\ Prefix' = Prefix
      BY <3>1, SameCurrent
    <3>3. /\ Types' = Types /\ Serving' = Serving /\ Stream' = Stream
          /\ HandledInOrder' = HandledInOrder
      BY <3>1, <3>2 DEF Types, Serving, Stream, HandledInOrder
    <3>4. BodyUpTo' = BodyUpTo /\ Waiting' = Waiting /\ Parsing' = Parsing
      BY <3>1, <3>2 DEF BodyUpTo, Waiting, Parsing
    <3>5. Request' = Request  BY <3>1, <3>2, <3>4 DEF Request
    <3>6. Framing' = Framing  BY <3>1, <3>2, <3>4 DEF Framing
    <3>7. QED  BY <3>1, <3>2, <3>3, <3>5, <3>6 DEF IInv
  <2>8. QED  BY <2>1, <2>2, <2>3, <2>4, <2>5, <2>6, <2>7 DEF Next, Worker
<1>3. QED  BY <1>1, <1>2, PTL DEF Spec

(* However the stream is cut into records and reads, the requests and frames *)
(* that are handled are those that were sent, whole, in order and once       *)
(* (se_read_client, parse_http, server_ws_parse), except for a request whose *)
(* body parse_http has changed and for what is handled after an overrun, as  *)
(* long as no frame has a 64-bit length.                                     *)
THEOREM HandledInOrderHolds ==
  ASSUME NoLongFrames
  PROVE  Spec => []HandledInOrder
<1>1. IInv => HandledInOrder  BY DEF IInv
<1>2. QED  BY <1>1, Inductive, PTL

(* On an open connection that was not overrun, the parser always stands at   *)
(* the first byte of a frame that is not handled yet, with everything        *)
(* received since behind it; between two events recv.offset counts exactly   *)
(* what has come of an unfinished frame (se_read_client, server_ws_parse),   *)
(* as long as no frame has a 64-bit length.                                  *)
THEOREM BufferHoldsUnhandledHolds ==
  ASSUME NoLongFrames
  PROVE  Spec => []BufferHoldsUnhandled
<1>1. IInv => BufferHoldsUnhandled
  <2> SUFFICES ASSUME IInv, Serving PROVE
        /\ pc = "parse" =>
             /\ FrameAt = Len(handled) + 1
             /\ \A i \in at + 1 .. len : data[i] = read - len + i
        /\ (pc = "wait" /\ ws) =>
             /\ offset = read - Begin(Len(handled) + 1)
             /\ \A i \in 1 .. offset : data[i] = Begin(Len(handled) + 1) + i
             /\ busy <=> offset > 0
    BY DEF BufferHoldsUnhandled, Serving
  <2>1. Types /\ Prefix /\ Stream /\ (~ws => Request) /\ (ws => Framing)
    BY DEF IInv, Serving
  <2>2. ASSUME pc = "parse"
        PROVE  FrameAt = Len(handled) + 1 /\ \A i \in at + 1 .. len : data[i] = read - len + i
    <3>1. Parsing  BY <2>1, <2>2 DEF Request, Framing
    <3>2. FrameAt = Current  BY <2>1, <3>1, ParserAtCurrent
    <3>3. QED  BY <3>1, <3>2 DEF Parsing, Current
  <2>3. ASSUME pc = "wait", ws
        PROVE  /\ offset = read - Begin(Len(handled) + 1)
               /\ \A i \in 1 .. offset : data[i] = Begin(Len(handled) + 1) + i
               /\ busy <=> offset > 0
    <3>1. Waiting  BY <2>1, <2>3 DEF Framing
    <3>2. Base = Begin(Len(handled) + 1)  BY DEF Base, Current
    <3>3. Base \in Nat /\ offset \in Nat /\ read \in Nat  BY <2>1, Positions DEF Types
    <3>4. offset = read - Base  BY <3>1, <3>3 DEF Waiting
    <3>5. QED  BY <3>1, <3>2, <3>4 DEF Waiting
  <2>4. QED  BY <2>2, <2>3
<1>2. QED  BY <1>1, Inductive, PTL

(* A message that ends no later than the current one begins is handled.      *)
LEMMA EndedBefore ==
  ASSUME Types, Prefix, NEW m \in 1 .. Len(script), End(m) <= Base
  PROVE  m \in DOMAIN handled
<1>1. script \in Scripts /\ Len(script) \in Nat /\ handled \in Seq(Nat) /\ Len(handled) \in Nat
  BY Layout DEF Types
<1>2. /\ Current \in 1 .. Len(script) + 1 /\ m + 1 \in 1 .. Len(script) + 1
      /\ Current = Len(handled) + 1
  BY <1>1 DEF Prefix, Current
<1>3. Begin(m + 1) = End(m) /\ Begin(m + 1) \in Nat /\ Base \in Nat
  BY <1>1, <1>2, Layout DEF Base
<1>4. ~ (Current < m + 1)
  <2> SUFFICES ASSUME Current < m + 1 PROVE FALSE  OBVIOUS
  <2>1. Base < Begin(m + 1)  BY <1>1, <1>2, Increasing DEF Base
  <2>2. QED  BY <1>3, <2>1
<1>5. m \in 1 .. Len(handled)  BY <1>1, <1>2, <1>4
<1>6. QED  BY <1>1, <1>5

(* A message that ends before the current one does is handled.               *)
LEMMA EndedBeforeLast ==
  ASSUME Types, Prefix, Remains, NEW m \in 1 .. Len(script), End(m) <= Last, m # Current
  PROVE  m \in DOMAIN handled
<1>1. script \in Scripts /\ Len(script) \in Nat /\ handled \in Seq(Nat) /\ Len(handled) \in Nat
  BY Layout DEF Types
<1>2. Current \in 1 .. Len(script) /\ Current = Len(handled) + 1
  BY <1>1 DEF Remains, Current
<1>3. Current + 1 \in 1 .. Len(script) + 1 /\ m + 1 \in 1 .. Len(script) + 1  BY <1>1, <1>2
<1>4. /\ Begin(m + 1) = End(m) /\ Begin(m + 1) \in Nat
      /\ Begin(Current + 1) = Last /\ Last \in Nat
  BY <1>1, <1>2, Layout DEF Last
<1>5. ~ (Current + 1 < m + 1)
  <2> SUFFICES ASSUME Current + 1 < m + 1 PROVE FALSE  OBVIOUS
  <2>1. Begin(Current + 1) < Begin(m + 1)  BY <1>1, <1>3, Increasing
  <2>2. QED  BY <1>4, <2>1
<1>6. m \in 1 .. Len(handled)  BY <1>1, <1>2, <1>5
<1>7. QED  BY <1>1, <1>6

(* When a worker has left an open connection to epoll and the socket is      *)
(* empty, every message that was sent whole has been handled, unless bytes   *)
(* wait inside OpenSSL, the buffer was overrun, or parse_http has changed    *)
(* the request's body (se_read_client, server_http_parse, server_ws_parse),  *)
(* as long as no frame has a 64-bit length.                                  *)
THEOREM SentIsHandledOrPendingHolds ==
  ASSUME NoLongFrames
  PROVE  Spec => []SentIsHandledOrPending
<1>1. IInv => SentIsHandledOrPending
  <2> SUFFICES ASSUME IInv, pc = "wait", net = <<>>, conn = "open", ~ (pend > 0), ~overrun,
                      NEW m \in DOMAIN script, sent >= End(m)
               PROVE  IsHandled(m) \/ m \in mangled
    BY DEF SentIsHandledOrPending
  <2>1. /\ Types /\ Prefix /\ Stream /\ HandledInOrder
        /\ ~ws => Request
        /\ ws => Framing
    BY DEF IInv, Serving
  <2>2. m \in 1 .. Len(script)  BY <2>1, ScriptsAssumption DEF Types
  <2>3. sent = read /\ read \in Nat
    <3>1. read \in Nat /\ sent \in Nat /\ pend \in Nat  BY <2>1 DEF Types
    <3>2. read + pend = sent  BY <2>1 DEF Stream
    <3>3. QED  BY <3>1, <3>2
  <2>4. End(m) \in Nat /\ Base \in Nat /\ Total \in Nat
    BY <2>1, <2>2, Layout, Positions DEF Types
  <2>5. m \in DOMAIN handled => IsHandled(m) \/ m \in mangled
    BY <2>1 DEF HandledInOrder, IsHandled
  <2>6. CASE read <= Base
    <3>1. End(m) <= Base  BY <2>3, <2>4, <2>6
    <3>2. QED  BY <2>1, <2>2, <2>5, <3>1, EndedBefore
  <2>7. CASE ~ (read <= Base)
    <3>1. Remains
      <4>1. read <= Total  BY <2>1, <2>3 DEF Stream
      <4>2. QED  BY <2>1, <2>3, <2>4, <2>7, <4>1, Positions
    <3>2. /\ Header \in Nat /\ Payload \in Nat /\ Last \in Nat
          /\ Last = Base + Header + Payload
      BY <2>1, <3>1, Positions
    <3>3. read <= Last /\ (read < Last \/ Current \in mangled)
      <4>1. CASE ws
        <5>1. Waiting /\ offset \in Nat  BY <2>1, <4>1 DEF Framing, Types
        <5>2. read = Base + offset /\ offset < Header + Payload
          BY <2>4, <2>7, <5>1 DEF Waiting
        <5>3. QED  BY <2>3, <2>4, <3>2, <5>1, <5>2
      <4>2. CASE ~ws
        <5>1. BodyUpTo /\ Len(http.body) \in Nat  BY <2>1, <2>3, <2>7, <4>2 DEF Request, Types
        <5>2. PICK k \in Nat : k = Len(http.body)  BY <5>1
        <5>3. /\ read <= Last /\ k < Payload
              /\ Current \notin mangled => Base + Header + k = read
          BY <5>1, <5>2 DEF BodyUpTo
        <5>4. Current \notin mangled => read < Last
          <6> SUFFICES ASSUME Current \notin mangled PROVE read < Last  OBVIOUS
          <6>1. PICK b \in Nat, p \in Nat : b = Base + Header /\ p = Payload  BY <2>4, <3>2
          <6>2. Last = b + p /\ read = b + k /\ k < p  BY <3>2, <5>3, <6>1
          <6>3. QED  BY <5>2, <6>1, <6>2
        <5>5. QED  BY <5>3, <5>4
      <4>3. QED  BY <4>1, <4>2
    <3>4. CASE m = Current
      <4>1. End(m) = Last  BY <3>4 DEF Last
      <4>2. ~ (read < Last)  BY <2>3, <2>4, <4>1
      <4>3. QED  BY <3>3, <3>4, <4>2
    <3>5. CASE m # Current
      <4>1. End(m) <= Last  BY <2>3, <2>4, <3>2, <3>3
      <4>2. QED  BY <2>1, <2>2, <2>5, <3>1, <3>5, <4>1, EndedBeforeLast
    <3>6. QED  BY <3>4, <3>5
  <2>8. QED  BY <2>6, <2>7
<1>2. QED  BY <1>1, Inductive, PTL
=============================================================================
