----------------------------- MODULE FmtpFraming -----------------------------
(***************************************************************************)
(* Packets as bytes: what MakeFmtpPacket and ParceFmtpPacketHeader do with *)
(* the length field, and which messages the loop of StateController.Work   *)
(* gets out of its receive buffer when TCP hands it the stream in pieces   *)
(* of any size.                                                            *)
(*                                                                         *)
(* The bytes of the stream are numbered from 0.  A packet is the number of *)
(* its first byte and the length of its text; the receive buffer is the    *)
(* bytes from pos up to, and without, lim.  Five bytes that begin in the   *)
(* middle of a packet are never an acceptable header (a text would have to *)
(* hold control characters), and neither are fewer than five, filled up    *)
(* with zeros, as there is no packet of type 0.                            *)
(***************************************************************************)
EXTENDS Integers, Sequences

CONSTANTS
  LengthValues, \* how many values the length field has (2 ^ 16 in the code)
  Bodies,       \* lengths of texts
  ReadSize,     \* size of the buffer that receiveLoop reads into (1024 or 8192)
  MaxPackets    \* bound: packets sent

ASSUME FramingAssumption ==
  /\ LengthValues \in Nat /\ LengthValues >= 16 /\ Bodies \subseteq Nat
  /\ ReadSize \in Nat \ {0} /\ MaxPackets \in Nat

VARIABLES
  packets, \* the packets written
  end,     \* the length of the stream, as far as it is written
  pos,     \* the first byte in the receive buffer
  lim,     \* the first byte not yet read from TCP: the end of the receive buffer
  handed,  \* what processFmtpMessage was called with: numbers, and whether the text is the one sent
  cut,     \* packets in which a read ended (history)
  clear    \* packets read whole behind nothing but acceptable whole packets (history)

framingVars == <<packets, end, pos, lim, handed, cut, clear>>

FmtpHeaderLen         == 5
FmtpPackageMaxLength  == LengthValues - 1
FmtpPackageBodyMaxLen == FmtpPackageMaxLength - FmtpHeaderLen

\* The length field that the sender writes; the sum wraps.
PkgLen(p) == (p.body + FmtpHeaderLen) % LengthValues

\* A mutant: a text of one byte is refused.
IsValidLonger(len) == len < FmtpPackageBodyMaxLen /\ len > FmtpHeaderLen + 1

\* The limit is one for bodies, and compared with a length that counts the header.
IsValid(len) == len < FmtpPackageBodyMaxLen /\ len > FmtpHeaderLen

\* A mutant: the length field is taken for the length of the body.
BodyLenWithHeader(p) == PkgLen(p)

BodyLen(p) == IF PkgLen(p) = 0 THEN 0 ELSE PkgLen(p) - FmtpHeaderLen

Behind(p) == p.at + FmtpHeaderLen + p.body

\* The texts that pass: not empty, and five bytes shorter than the limit.
Acceptable(p) == p.body > 0 /\ FmtpHeaderLen + p.body < FmtpPackageBodyMaxLen

FramingInit ==
  /\ packets = <<>> /\ end = 0 /\ pos = 0 /\ lim = 0
  /\ handed = <<>> /\ cut = {} /\ clear = {}

\* MakeFmtpPacket and Write.
SendPacket ==
  /\ Len(packets) < MaxPackets
  /\ \E body \in Bodies :
       LET p == [at |-> end, body |-> body] IN
       packets' = Append(packets, p) /\ end' = Behind(p)
  /\ UNCHANGED <<pos, lim, handed, cut, clear>>

\* The packets from m to n are the first of the bytes from..to-1, whole and acceptable.
InStep(m, n, from, to) ==
  /\ packets[m].at = from /\ Behind(packets[n]) <= to
  /\ \A k \in m..n : Acceptable(packets[k])

\* What receiveLoop has read, whatever it ends in, goes to the loop, which has emptied
\* its buffer by then.
Read ==
  /\ pos = lim /\ lim < end
  /\ lim' \in (lim + 1)..(IF lim + ReadSize < end THEN lim + ReadSize ELSE end)
  /\ cut' = cut \cup {n \in DOMAIN packets : packets[n].at < lim' /\ lim' < Behind(packets[n])}
  /\ clear' = clear \cup {n \in DOMAIN packets : \E m \in 1..n : InStep(m, n, lim, lim')}
  /\ UNCHANGED <<packets, end, pos, handed>>

(***************************************************************************)
(* A turn of the loop.  bytes.Buffer.Read takes the n bytes asked for or   *)
(* what there is, and fails only if there is nothing.                      *)
(***************************************************************************)
\* The buffer after a read of n bytes.
Consume(n) == pos' = IF pos + n < lim THEN pos + n ELSE lim

\* The header of packet k is at the head of the buffer, with all of its bytes, and is accepted.
HeaderFound(k) ==
  packets[k].at = pos /\ pos + FmtpHeaderLen <= lim /\ IsValid(PkgLen(packets[k]))

\* What is no acceptable header is skipped.
SkipHeader ==
  /\ pos < lim /\ ~\E k \in DOMAIN packets : HeaderFound(k)
  /\ Consume(FmtpHeaderLen)
  /\ UNCHANGED <<packets, end, lim, handed, cut, clear>>

\* A header is all there is: the loop ends at the read of the text.
BodyMissing(k) ==
  /\ HeaderFound(k) /\ pos + FmtpHeaderLen = lim
  /\ Consume(FmtpHeaderLen)
  /\ UNCHANGED <<packets, end, lim, handed, cut, clear>>

\* processFmtpMessage is called; a text that ends early is filled up with zeros.
HandOver(k) ==
  LET p == packets[k] IN
  /\ HeaderFound(k) /\ pos + FmtpHeaderLen < lim
  /\ handed' = Append(handed, [n |-> k, whole |-> BodyLen(p) = p.body /\ Behind(p) <= lim])
  /\ Consume(FmtpHeaderLen + BodyLen(p))
  /\ UNCHANGED <<packets, end, lim, cut, clear>>

FramingNext ==
  SendPacket \/ Read \/ SkipHeader \/ \E k \in DOMAIN packets : BodyMissing(k) \/ HandOver(k)

FramingSpec == FramingInit /\ [][FramingNext]_framingVars

(***************************************************************************)
(* Properties.                                                             *)
(***************************************************************************)
\* A packet of an acceptable length that one read brings whole, behind whole and
\* acceptable packets only, is handed over once, with its text, by the time the loop has
\* emptied the buffer, whatever the earlier reads left behind: the loop is back in step
\* at the next such read.
AlignedHanded ==
  pos = lim =>
    \A n \in clear : \E i \in DOMAIN handed :
      handed[i] = [n |-> n, whole |-> TRUE] /\ \A j \in DOMAIN handed : handed[j].n = n => j = i

\* A text is handed over short, or filled up with zeros, only if a read ended in
\* its packet or its length did not fit the length field.
DamageExplained ==
  \A i \in DOMAIN handed :
    \/ handed[i].whole \/ handed[i].n \in cut
    \/ packets[handed[i].n].body > FmtpPackageBodyMaxLen
=============================================================================
