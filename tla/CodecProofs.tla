----------------------------- MODULE CodecProofs -----------------------------
(***************************************************************************)
(* The codec and the conversion of events, for every message, every slice  *)
(* of bytes and every event: Reached says of the states of MCCodec only    *)
(* that the slice is of bytes, that a message sent is a MIDI message with  *)
(* its encoding on the wire, and that an event is one ALSA's structs hold. *)
(* All the properties are about what the operators make of these.          *)
(*                                                                         *)
(* A message has one of four forms (TwoForm, OneForm, ValueForm, NoForm)   *)
(* and its status byte gives back kind, channel and length (KindFor,       *)
(* ChannelOf, DataLen); a slice is accepted if it is a Packet or a         *)
(* SysexPacket.  Named pairs the sequencer's event types with the kinds of *)
(* messages.                                                               *)
(***************************************************************************)
EXTENDS MCCodec, SequenceTheorems, TLAPS

USE MaxSysexAssumption, BoundsAssumption

-----------------------------------------------------------------------------
(* Short sequences.                                                        *)

LEMMA Joined ==
  ASSUME NEW a, NEW b, NEW c
  PROVE  /\ <<a>> \o <<>> = <<a>>
         /\ <<a>> \o <<b>> = <<a, b>>
         /\ <<a>> \o <<b, c>> = <<a, b, c>>
<1>1. <<a>> \o <<>> = <<a>>
  OBVIOUS
<1>2. <<a>> \o <<b>> = <<a, b>>
  <2> DEFINE s == <<a>> \o <<b>>
  <2>1. s \in Seq({a, b}) /\ <<a, b>> \in Seq({a, b})
    OBVIOUS
  <2>2. /\ Len(s) = 2 /\ s[1] = a /\ s[2] = b
        /\ \A i \in 1..2 : i = 1 \/ i = 2
    OBVIOUS
  <2>3. Len(<<a, b>>) = 2 /\ <<a, b>>[1] = a /\ <<a, b>>[2] = b
    OBVIOUS
  <2> HIDE DEF s
  <2>4. s = <<a, b>>
    BY <2>1, <2>2, <2>3, SeqEqual
  <2> QED BY <2>4 DEF s
<1>3. <<a>> \o <<b, c>> = <<a, b, c>>
  <2> DEFINE s == <<a>> \o <<b, c>>
  <2>1. s \in Seq({a, b, c}) /\ <<a, b, c>> \in Seq({a, b, c})
    OBVIOUS
  <2>2. /\ Len(s) = 3 /\ s[1] = a /\ s[2] = b /\ s[3] = c
        /\ \A i \in 1..3 : i = 1 \/ i = 2 \/ i = 3
    OBVIOUS
  <2>3. Len(<<a, b, c>>) = 3 /\ <<a, b, c>>[1] = a /\ <<a, b, c>>[2] = b /\ <<a, b, c>>[3] = c
    OBVIOUS
  <2> HIDE DEF s
  <2>4. s = <<a, b, c>>
    BY <2>1, <2>2, <2>3, SeqEqual
  <2> QED BY <2>4 DEF s
<1> QED BY <1>1, <1>2, <1>3

LEMMA ShortSeqs ==
  ASSUME NEW S, NEW s \in Seq(S)
  PROVE  /\ Len(s) = 1 => s = <<s[1]>> /\ s[1] \in S
         /\ Len(s) = 2 => s = <<s[1], s[2]>> /\ s[1] \in S /\ s[2] \in S
         /\ Len(s) = 3 => s = <<s[1], s[2], s[3]>> /\ s[1] \in S /\ s[2] \in S /\ s[3] \in S
OBVIOUS

\* The bounds are written as products: the provers are slow with large literals.
LEMMA Value14Is == \A v : v \in Value14 <=> v \in Int /\ 0 <= v /\ v < 128 * 128
<1>1. \h3FFF = 128 * 128 - 1
  OBVIOUS
<1> DEFINE top == 128 * 128 - 1
<1>2. Value14 = 0..top
  BY <1>1 DEF Value14
<1>3. top \in Int /\ \A v \in Int : v <= top <=> v < 128 * 128
  OBVIOUS
<1> HIDE DEF top
<1> QED BY <1>2, <1>3

LEMMA CenterIs == Center \in Int /\ Center = 64 * 128 /\ -Center = 0 - 64 * 128
BY DEF Center

\* A 14-bit value and its two halves.
LEMMA Split14 ==
  ASSUME NEW v \in Value14
  PROVE  /\ v % 128 \in DataByte /\ v \div 128 \in DataByte
         /\ From14(v \div 128, v % 128) = v
<1>1. v \in Int /\ 0 <= v /\ v < 128 * 128
  BY Value14Is
<1> DEFINE q == v \div 128
           r == v % 128
<1>2. q \in Int /\ r \in 0..127 /\ 128 * q + r = v
  BY <1>1
<1> HIDE DEF q, r
<1>3. q \in 0..127
  BY <1>1, <1>2
<1> QED BY <1>2, <1>3 DEF q, r, From14, DataByte

LEMMA Join14 ==
  ASSUME NEW a \in DataByte, NEW b \in DataByte
  PROVE  /\ From14(b, a) \in Value14
         /\ From14(b, a) % 128 = a
         /\ From14(b, a) \div 128 = b
<1>1. a \in 0..127 /\ b \in 0..127
  BY DEF DataByte
<1> DEFINE v == 128 * b + a
<1>2. v \in Int /\ 0 <= v /\ v < 128 * 128
  BY <1>1
<1>3. v % 128 = a
  BY <1>1
<1>4. v \div 128 = b
  BY <1>1
<1> HIDE DEF v
<1>5. v \in Value14
  BY <1>2, Value14Is
<1> QED BY <1>3, <1>4, <1>5 DEF v, From14

\* A signed pitch bend and its place on the wire.
LEMMA BendFits ==
  ASSUME NEW v \in Int
  PROVE  v \in -Center..Center - 1 <=> v + Center \in Value14
<1> DEFINE lo == -Center
           hi == Center - 1
           sum == v + Center
<1>1. /\ lo \in Int /\ hi \in Int /\ lo = 0 - 64 * 128 /\ hi = 64 * 128 - 1
      /\ sum \in Int /\ sum = v + 64 * 128
  BY CenterIs
<1> HIDE DEF lo, hi, sum
<1>2. ASSUME v \in lo..hi PROVE sum \in Value14
  <2>1. 0 <= sum /\ sum < 128 * 128
    BY <1>1, <1>2
  <2> QED BY <1>1, <2>1, Value14Is
<1>3. ASSUME sum \in Value14 PROVE v \in lo..hi
  <2>1. 0 <= sum /\ sum < 128 * 128
    BY <1>3, Value14Is
  <2>2. lo \in Int /\ hi \in Int /\ lo <= v /\ v <= hi
    BY <1>1, <2>1
  <2> QED BY <2>2
<1> QED BY <1>2, <1>3 DEF lo, hi, sum

-----------------------------------------------------------------------------
(* Kinds and status bytes.                                                 *)

SystemKinds == NoDataKinds \cup {"MtcQuarterFrame", "SongPositionPointer", "SongSelect"}
Kinds       == ChannelKinds \cup SystemKinds

\* How many data bytes a message of a kind has.
DataLen(kind) == IF kind \in TwoDataKinds \cup Value14Kinds THEN 2
                 ELSE IF kind \in NoDataKinds THEN 0 ELSE 1

LEMMA DataLenIs ==
  ASSUME NEW k
  PROVE  /\ DataLen(k) \in 0..2
         /\ DataLen(k) = 2 => k \in TwoDataKinds \cup Value14Kinds
         /\ DataLen(k) = 1 => k \notin TwoDataKinds \cup Value14Kinds /\ k \notin NoDataKinds
         /\ DataLen(k) = 0 => k \in NoDataKinds
BY DEF DataLen

LEMMA MessageForms ==
  ASSUME NEW m \in MidiMessage
  PROVE  /\ m = Message(m.kind, m.channel, m.data)
         /\ m.kind \in Kinds
         /\ m.kind \in ChannelKinds => m.channel \in Channel
         /\ m.kind \notin ChannelKinds => m.channel = 0
         /\ \/ /\ m.kind \in TwoDataKinds
               /\ \E a, b \in DataByte : m.data = <<a, b>>
            \/ /\ m.kind \in OneDataKinds \cup {"MtcQuarterFrame", "SongSelect"}
               /\ \E a \in DataByte : m.data = <<a>>
            \/ /\ m.kind \in Value14Kinds
               /\ \E v \in Value14 : m.data = <<v>>
            \/ m.kind \in NoDataKinds /\ m.data = <<>>
BY DEF MidiMessage, Message, Kinds, SystemKinds, ChannelKinds, TwoDataKinds, OneDataKinds,
       NoDataKinds, Value14Kinds

\* The message a status byte starts, before it is looked up.
KindFor(s) ==
  IF s \in \h80..\h8F      THEN "NoteOff"
  ELSE IF s \in \h90..\h9F THEN "NoteOn"
  ELSE IF s \in \hA0..\hAF THEN "PolyKeyPressure"
  ELSE IF s \in \hB0..\hBF THEN "ControlChange"
  ELSE IF s \in \hC0..\hCF THEN "ProgramChange"
  ELSE IF s \in \hD0..\hDF THEN "ChannelPressure"
  ELSE IF s \in \hE0..\hEF THEN "PitchBend"
  ELSE IF s = \hF1         THEN "MtcQuarterFrame"
  ELSE IF s = \hF2         THEN "SongPositionPointer"
  ELSE IF s = \hF3         THEN "SongSelect"
  ELSE IF s = \hF6         THEN "TuneRequest"
  ELSE IF s = \hF8         THEN "TimingClock"
  ELSE IF s = \hFA         THEN "Start"
  ELSE IF s = \hFB         THEN "Continue"
  ELSE IF s = \hFC         THEN "Stop"
  ELSE IF s = \hFE         THEN "ActiveSensing"
  ELSE "Reset"

ChannelOf(s) == IF s < \hF0 THEN s % 16 ELSE 0

LEMMA KindOfIs ==
  ASSUME NEW w
  PROVE  KindOf(w) = IF KindFor(w[1]) = "NoteOn" /\ w[3] = 0 THEN "NoteOff" ELSE KindFor(w[1])
BY DEF KindOf, KindFor

LEMMA ChannelStatusIs ==
  ASSUME NEW k \in ChannelKinds, NEW c \in Channel, NEW s, s = StatusByte(k) + c
  PROVE  /\ s \in \h80..\hEF
         /\ ChannelOf(s) = c /\ KindFor(s) = k /\ ExpectedLen(s) = DataLen(k) + 1
<1>0. c \in Int /\ 0 <= c /\ c <= 15
  BY DEF Channel
<1>1. \/ k = "NoteOff" /\ s = \h80 + c
      \/ k = "NoteOn" /\ s = \h90 + c
      \/ k = "PolyKeyPressure" /\ s = \hA0 + c
      \/ k = "ControlChange" /\ s = \hB0 + c
      \/ k = "ProgramChange" /\ s = \hC0 + c
      \/ k = "ChannelPressure" /\ s = \hD0 + c
      \/ k = "PitchBend" /\ s = \hE0 + c
  BY DEF ChannelKinds, TwoDataKinds, OneDataKinds, StatusByte
<1>2. s \in \h80..\hEF
  BY <1>0, <1>1
<1>3. ChannelOf(s) = c
  BY <1>0, <1>1 DEF ChannelOf
<1>4. KindFor(s) = k
  BY <1>0, <1>1 DEF KindFor
<1>5. DataLen(k) = IF k \in {"ProgramChange", "ChannelPressure"} THEN 1 ELSE 2
  BY <1>1 DEF DataLen, TwoDataKinds, Value14Kinds, NoDataKinds
<1>6. ExpectedLen(s) = IF k \in {"ProgramChange", "ChannelPressure"} THEN 2 ELSE 3
  BY <1>0, <1>1 DEF ExpectedLen
<1> QED BY <1>2, <1>3, <1>4, <1>5, <1>6

LEMMA SystemStatusIs ==
  ASSUME NEW k \in SystemKinds
  PROVE  /\ StatusByte(k) \in (\hF1..\hFF) \ {\hF7}
         /\ ChannelOf(StatusByte(k)) = 0 /\ KindFor(StatusByte(k)) = k
         /\ ExpectedLen(StatusByte(k)) = DataLen(k) + 1
BY DEF SystemKinds, StatusByte, ChannelOf, KindFor, ExpectedLen, DataLen, TwoDataKinds,
       Value14Kinds, NoDataKinds

-----------------------------------------------------------------------------
(* Encoding and decoding.                                                  *)

\* A slice that Decode takes for a message, and no other.
Packet(w) == /\ w # <<>>
             /\ ExpectedLen(w[1]) = Len(w)
             /\ \A i \in 2..Len(w) : w[i] \in DataByte

LEMMA DataBytes == /\ \A x \in DataByte : x \in Byte /\ ~(x > \h7F)
                   /\ \A x \in Byte : ~(x > \h7F) => x \in DataByte
BY DEF Byte, DataByte

LEMMA NoLength == ExpectedLen(\hF0) = 0 /\ ExpectedLen(\hF7) = 0
BY DEF ExpectedLen

LEMMA PacketDecodes ==
  ASSUME NEW w \in Seq(Byte), Packet(w)
  PROVE  Decode(w) = MessageEvent(ToMessage(w))
<1>1. Len(w) # 0 /\ ExpectedLen(w[1]) = Len(w)
  BY DEF Packet
<1>2. w[1] # \hF0 /\ w[1] # \hF7
  BY <1>1, NoLength
<1>3. \A i \in 2..Len(w) : ~(w[i] > \h7F)
  <2> SUFFICES ASSUME NEW i \in 2..Len(w) PROVE ~(w[i] > \h7F)
    OBVIOUS
  <2>1. w[i] \in DataByte
    BY DEF Packet
  <2> QED BY <2>1, DataBytes
<1> QED BY <1>1, <1>2, <1>3 DEF Packet, Decode

LEMMA MessageIsPacket ==
  ASSUME NEW w \in Seq(Byte), Decode(w).type = "Message"
  PROVE  Packet(w) /\ Decode(w) = MessageEvent(ToMessage(w))
<1>1. w # <<>> /\ w[1] # \hF0
  BY DEF Decode, DecodeSysex, ErrorEvent, SysexEvent
<1>2. /\ w[1] # \hF7 /\ ExpectedLen(w[1]) # 0
      /\ ~(Len(w) < ExpectedLen(w[1])) /\ ~(Len(w) > ExpectedLen(w[1]))
      /\ ~\E i \in 2..ExpectedLen(w[1]) : w[i] > \h7F
      /\ Decode(w) = MessageEvent(ToMessage(w))
  BY <1>1 DEF Decode, ErrorEvent
<1>3. ExpectedLen(w[1]) \in 1..3
  BY <1>2 DEF ExpectedLen
<1>4. ExpectedLen(w[1]) = Len(w)
  BY <1>2, <1>3
<1>5. \A i \in 2..Len(w) : w[i] \in Byte
  OBVIOUS
<1>6. \A i \in 2..Len(w) : w[i] \in DataByte
  <2> SUFFICES ASSUME NEW i \in 2..Len(w) PROVE w[i] \in DataByte
    OBVIOUS
  <2>1. w[i] \in Byte /\ ~(w[i] > \h7F)
    BY <1>2, <1>4, <1>5
  <2> QED BY <2>1, DataBytes
<1> QED BY <1>1, <1>2, <1>4, <1>6 DEF Packet

\* The bytes of a message, one form for each length and kind of data.
TwoForm(m, s) == /\ m.kind \in TwoDataKinds
                 /\ \E a, b \in DataByte : m.data = <<a, b>> /\ Encode(m) = <<s, a, b>>
OneForm(m, s) == /\ m.kind \in OneDataKinds \cup {"MtcQuarterFrame", "SongSelect"}
                 /\ \E a \in DataByte : m.data = <<a>> /\ Encode(m) = <<s, a>>
ValueForm(m, s) ==
  /\ m.kind \in Value14Kinds
  /\ \E a, b \in DataByte : m.data = <<From14(b, a)>> /\ Encode(m) = <<s, a, b>>
NoForm(m, s) == m.kind \in NoDataKinds /\ m.data = <<>> /\ Encode(m) = <<s>>

\* The bytes of a message, and what the first of them says.
LEMMA EncodeIs ==
  ASSUME NEW m \in MidiMessage, NEW s, s = StatusByte(m.kind) + m.channel
  PROVE  /\ s \in \h80..\hFF /\ s # \hF0 /\ s # \hF7
         /\ s < \hF0 <=> m.kind \in ChannelKinds
         /\ ChannelOf(s) = m.channel /\ KindFor(s) = m.kind
         /\ ExpectedLen(s) = DataLen(m.kind) + 1
         /\ TwoForm(m, s) \/ OneForm(m, s) \/ ValueForm(m, s) \/ NoForm(m, s)
<1>1. /\ s \in \h80..\hFF /\ s # \hF0 /\ s # \hF7
      /\ s < \hF0 <=> m.kind \in ChannelKinds
      /\ ChannelOf(s) = m.channel /\ KindFor(s) = m.kind
      /\ ExpectedLen(s) = DataLen(m.kind) + 1
  <2>1. CASE m.kind \in ChannelKinds
    <3>1. m.channel \in Channel
      BY <2>1, MessageForms
    <3>2. /\ s \in \h80..\hEF /\ ChannelOf(s) = m.channel /\ KindFor(s) = m.kind
          /\ ExpectedLen(s) = DataLen(m.kind) + 1
      BY <2>1, <3>1, ChannelStatusIs
    <3> QED BY <2>1, <3>2
  <2>2. CASE m.kind \notin ChannelKinds
    <3>1. m.kind \in SystemKinds /\ m.channel = 0
      BY <2>2, MessageForms DEF Kinds
    <3>2. StatusByte(m.kind) \in (\hF1..\hFF) \ {\hF7}
      BY <3>1, SystemStatusIs
    <3>3. s = StatusByte(m.kind)
      BY <3>1, <3>2
    <3> QED BY <2>2, <3>1, <3>2, <3>3, SystemStatusIs
  <2> QED BY <2>1, <2>2
<1>2. CASE m.kind \in TwoDataKinds
  <2>1. PICK a, b \in DataByte : m.data = <<a, b>>
    BY <1>2, MessageForms DEF TwoDataKinds, OneDataKinds, Value14Kinds, NoDataKinds
  <2>2. Encode(m) = <<s>> \o <<a, b>>
    BY <1>2, <2>1 DEF Encode, TwoDataKinds, Value14Kinds
  <2>3. Encode(m) = <<s, a, b>>
    BY <2>2, Joined
  <2> QED BY <1>1, <1>2, <2>1, <2>3, ZenonT(60) DEF TwoForm
<1>3. CASE m.kind \in OneDataKinds \cup {"MtcQuarterFrame", "SongSelect"}
  <2>1. PICK a \in DataByte : m.data = <<a>>
    BY <1>3, MessageForms DEF TwoDataKinds, OneDataKinds, Value14Kinds, NoDataKinds
  <2>2. Encode(m) = <<s>> \o <<a>>
    BY <1>3, <2>1 DEF Encode, OneDataKinds, Value14Kinds
  <2>3. Encode(m) = <<s, a>>
    BY <2>2, Joined
  <2> QED BY <1>1, <1>3, <2>1, <2>3, Zenon DEF OneForm
<1>4. CASE m.kind \in Value14Kinds
  <2>1. PICK v \in Value14 : m.data = <<v>>
    BY <1>4, MessageForms DEF TwoDataKinds, OneDataKinds, Value14Kinds, NoDataKinds
  <2>2. PICK a, b \in DataByte : a = v % 128 /\ b = v \div 128 /\ v = From14(b, a)
    BY Split14
  <2>3. Encode(m) = <<s>> \o <<a, b>>
    BY <1>4, <2>1, <2>2 DEF Encode
  <2>4. Encode(m) = <<s, a, b>>
    BY <2>3, Joined
  <2>5. m.data = <<From14(b, a)>>
    BY <2>1, <2>2
  <2> QED BY <1>1, <1>4, <2>4, <2>5, ZenonT(60) DEF ValueForm
<1>5. CASE m.kind \in NoDataKinds
  <2>1. m.data = <<>>
    BY <1>5, MessageForms DEF TwoDataKinds, OneDataKinds, Value14Kinds, NoDataKinds
  <2>2. Encode(m) = <<s>> \o <<>>
    BY <1>5, <2>1 DEF Encode, NoDataKinds, Value14Kinds
  <2>3. Encode(m) = <<s>>
    BY <2>2, Joined
  <2> QED BY <1>1, <1>5, <2>1, <2>3, Zenon DEF NoForm
<1>6. \/ m.kind \in TwoDataKinds \/ m.kind \in Value14Kinds \/ m.kind \in NoDataKinds
      \/ m.kind \in OneDataKinds \cup {"MtcQuarterFrame", "SongSelect"}
  BY MessageForms, Zenon
<1> QED BY <1>1, <1>2, <1>3, <1>4, <1>5, <1>6, Zenon

\* What an encoded message decodes to.
LEMMA EncodedDecodesTo ==
  ASSUME NEW m \in MidiMessage
  PROVE  Encode(m) \in Seq(Byte) /\ Decode(Encode(m)) = MessageEvent(Canonical(m))
<1> DEFINE s == StatusByte(m.kind) + m.channel
           w == Encode(m)
<1>1. /\ s \in \h80..\hFF /\ s # \hF0 /\ s # \hF7
      /\ s < \hF0 <=> m.kind \in ChannelKinds
      /\ ChannelOf(s) = m.channel /\ KindFor(s) = m.kind
      /\ ExpectedLen(s) = DataLen(m.kind) + 1
      /\ TwoForm(m, s) \/ OneForm(m, s) \/ ValueForm(m, s) \/ NoForm(m, s)
  BY EncodeIs
<1>2. s \in Byte /\ m = Message(m.kind, m.channel, m.data)
  BY <1>1, MessageForms DEF Byte
<1> HIDE DEF s
<1>3. CASE TwoForm(m, s)
  <2>1. PICK a, b \in DataByte : m.data = <<a, b>> /\ w = <<s, a, b>>
    BY <1>3 DEF TwoForm
  <2>2. m.kind \notin Value14Kinds /\ DataLen(m.kind) = 2
    BY <1>3 DEF TwoForm, TwoDataKinds, Value14Kinds, DataLen
  <2>3. w \in Seq(Byte) /\ Packet(w)
    BY <1>1, <1>2, <2>1, <2>2, DataBytes DEF Packet
  <2>4. KindOf(w) = IF m.kind = "NoteOn" /\ b = 0 THEN "NoteOff" ELSE m.kind
    BY <1>1, <2>1, KindOfIs
  <2>5. ToMessage(w) = Message(KindOf(w), m.channel, m.data)
    BY <1>1, <2>1, <2>2, <2>4 DEF ToMessage, ChannelOf, Value14Kinds
  <2>6. Canonical(m) = Message(KindOf(w), m.channel, m.data)
    BY <1>2, <2>1, <2>4 DEF Canonical, Message
  <2> QED BY <2>3, <2>5, <2>6, PacketDecodes
<1>4. CASE OneForm(m, s)
  <2>1. PICK a \in DataByte : m.data = <<a>> /\ w = <<s, a>>
    BY <1>4 DEF OneForm
  <2>2. m.kind # "NoteOn" /\ DataLen(m.kind) = 1
    BY <1>4 DEF OneForm, OneDataKinds, TwoDataKinds, Value14Kinds, NoDataKinds, DataLen
  <2>3. w \in Seq(Byte) /\ Packet(w)
    BY <1>1, <1>2, <2>1, <2>2, DataBytes DEF Packet
  <2>4. KindOf(w) = m.kind
    BY <1>1, <2>1, <2>2, KindOfIs
  <2>5. ToMessage(w) = Message(m.kind, m.channel, m.data)
    BY <1>1, <2>1, <2>4 DEF ToMessage, ChannelOf
  <2>6. Canonical(m) = m
    BY <2>2 DEF Canonical
  <2> QED BY <1>2, <2>3, <2>5, <2>6, PacketDecodes
<1>5. CASE ValueForm(m, s)
  <2>1. PICK a, b \in DataByte : m.data = <<From14(b, a)>> /\ w = <<s, a, b>>
    BY <1>5 DEF ValueForm
  <2>2. m.kind \in Value14Kinds /\ m.kind # "NoteOn" /\ DataLen(m.kind) = 2
    BY <1>5 DEF ValueForm, Value14Kinds, DataLen
  <2>3. w \in Seq(Byte) /\ Packet(w)
    BY <1>1, <1>2, <2>1, <2>2, DataBytes DEF Packet
  <2>4. KindOf(w) = m.kind
    BY <1>1, <2>1, <2>2, KindOfIs
  <2>5. ToMessage(w) = Message(m.kind, m.channel, m.data)
    BY <1>1, <2>1, <2>2, <2>4 DEF ToMessage, ChannelOf
  <2>6. Canonical(m) = m
    BY <2>2 DEF Canonical
  <2> QED BY <1>2, <2>3, <2>5, <2>6, PacketDecodes
<1>6. CASE NoForm(m, s)
  <2>1. m.data = <<>> /\ w = <<s>>
    BY <1>6 DEF NoForm
  <2>2. m.kind # "NoteOn" /\ DataLen(m.kind) = 0
    BY <1>6 DEF NoForm, TwoDataKinds, Value14Kinds, NoDataKinds, DataLen
  <2>3. w \in Seq(Byte) /\ Packet(w)
    BY <1>1, <1>2, <2>1, <2>2 DEF Packet
  <2>4. KindOf(w) = m.kind
    BY <1>1, <2>1, <2>2, KindOfIs
  <2>5. ToMessage(w) = Message(m.kind, m.channel, m.data)
    BY <1>1, <2>1, <2>4 DEF ToMessage, ChannelOf
  <2>6. Canonical(m) = m
    BY <2>2 DEF Canonical
  <2> QED BY <1>2, <2>3, <2>5, <2>6, PacketDecodes
<1> QED BY <1>1, <1>3, <1>4, <1>5, <1>6

\* What a status byte that starts a message says of it.
LEMMA KindForIs ==
  ASSUME NEW s \in Byte, ExpectedLen(s) # 0, NEW k, k = KindFor(s)
  PROVE  /\ k \in Kinds /\ (k \in ChannelKinds <=> s < \hF0)
         /\ ChannelOf(s) \in Channel /\ StatusByte(k) + ChannelOf(s) = s
         /\ ExpectedLen(s) = DataLen(k) + 1
<1>0. s \in 0..255
  BY DEF Byte
<1>1. CASE s < \hF0
  <2>1. s \in \h80..\hEF
    BY <1>0, <1>1 DEF ExpectedLen
  <2>2. /\ s % 16 \in 0..15
        /\ \/ k = "NoteOff" /\ s = \h80 + (s % 16) /\ ExpectedLen(s) = 3
           \/ k = "NoteOn" /\ s = \h90 + (s % 16) /\ ExpectedLen(s) = 3
           \/ k = "PolyKeyPressure" /\ s = \hA0 + (s % 16) /\ ExpectedLen(s) = 3
           \/ k = "ControlChange" /\ s = \hB0 + (s % 16) /\ ExpectedLen(s) = 3
           \/ k = "ProgramChange" /\ s = \hC0 + (s % 16) /\ ExpectedLen(s) = 2
           \/ k = "ChannelPressure" /\ s = \hD0 + (s % 16) /\ ExpectedLen(s) = 2
           \/ k = "PitchBend" /\ s = \hE0 + (s % 16) /\ ExpectedLen(s) = 3
    BY <2>1 DEF KindFor, ExpectedLen
  <2>3. ChannelOf(s) = s % 16
    BY <1>1 DEF ChannelOf
  <2>4. StatusByte(k) + (s % 16) = s
    BY <2>1, <2>2 DEF StatusByte
  <2>5. k \in ChannelKinds /\ k \in Kinds
    BY <2>2 DEF Kinds, ChannelKinds, TwoDataKinds, OneDataKinds
  <2>6. ExpectedLen(s) = DataLen(k) + 1
    BY <2>2 DEF DataLen, TwoDataKinds, Value14Kinds, NoDataKinds
  <2> QED BY <1>1, <2>2, <2>3, <2>4, <2>5, <2>6 DEF Channel
<1>2. CASE ~(s < \hF0)
  <2>1. s \in {\hF1, \hF2, \hF3, \hF6, \hF8, \hFA, \hFB, \hFC, \hFE, \hFF}
    BY <1>0, <1>2 DEF ExpectedLen
  <2>2. StatusByte(k) = s /\ k \in SystemKinds
    BY <2>1 DEF KindFor, StatusByte, SystemKinds, NoDataKinds
  <2>3. ExpectedLen(s) = DataLen(k) + 1
    BY <2>2, SystemStatusIs
  <2>4. k \in Kinds /\ k \notin ChannelKinds /\ ChannelOf(s) = 0
    BY <1>2, <2>2 DEF Kinds, SystemKinds, NoDataKinds, ChannelKinds, TwoDataKinds, OneDataKinds,
                      ChannelOf
  <2>5. ChannelOf(s) \in Channel /\ StatusByte(k) + ChannelOf(s) = s
    BY <1>0, <2>2, <2>4 DEF Channel
  <2> QED BY <1>2, <2>3, <2>4, <2>5
<1> QED BY <1>1, <1>2

\* What a slice decodes to, and what it encodes to again.
Reencodes(w, m) == \/ Encode(m) = w
                   \/ /\ w[1] \in \h90..\h9F /\ w[3] = 0
                      /\ Encode(m) = [w EXCEPT ![1] = @ - 16]

LEMMA PacketMessage ==
  ASSUME NEW w \in Seq(Byte), Packet(w)
  PROVE  ToMessage(w) \in MidiMessage /\ Reencodes(w, ToMessage(w))
<1> DEFINE s == w[1]
           m == ToMessage(w)
           k == KindFor(s)
           c == ChannelOf(s)
<1>1. Len(w) \in 1..3 /\ ExpectedLen(s) = Len(w) /\ s \in Byte
  <2>1. Len(w) \in Nat \ {0} /\ ExpectedLen(s) = Len(w) /\ s \in Byte
    BY DEF Packet
  <2>2. ExpectedLen(s) \in 0..3
    BY DEF ExpectedLen
  <2> QED BY <2>1, <2>2
<1>2. /\ k \in Kinds /\ (k \in ChannelKinds <=> s < \hF0)
      /\ c \in Channel /\ StatusByte(k) + c = s
      /\ Len(w) = DataLen(k) + 1
  BY <1>1, KindForIs
<1>3. c = IF s < \hF0 THEN s % 16 ELSE 0
  BY DEF ChannelOf
<1>4. KindOf(w) = IF k = "NoteOn" /\ w[3] = 0 THEN "NoteOff" ELSE k
  BY KindOfIs
<1>9. DataLen(k) = Len(w) - 1
  <2> DEFINE d == DataLen(k)
             l == Len(w)
  <2>1. d \in 0..2 /\ l = d + 1
    BY <1>2, DataLenIs
  <2> HIDE DEF d, l
  <2>2. d = l - 1
    BY <2>1
  <2> QED BY <2>2 DEF d, l
<1> HIDE DEF k, c
<1>5. CASE Len(w) = 1
  <2>1. w = <<s>>
    BY <1>5, ShortSeqs
  <2>2. k \in NoDataKinds
    BY <1>2, <1>5 DEF DataLen
  <2>3. k # "NoteOn" /\ k \notin ChannelKinds /\ k \notin Value14Kinds
    BY <2>2 DEF NoDataKinds, ChannelKinds, TwoDataKinds, OneDataKinds, Value14Kinds
  <2>4. m = Message(k, 0, <<>>)
    BY <1>2, <1>4, <1>5, <2>3 DEF ToMessage
  <2>5. m \in MidiMessage
    BY <2>2, <2>4 DEF MidiMessage, Message
  <2>6. StatusByte(k) + 0 = s
    BY <1>2, <1>3, <2>3
  <2>7. Encode(m) = <<s>> \o <<>>
    BY <2>3, <2>4, <2>6 DEF Encode, Message
  <2> QED BY <2>1, <2>5, <2>7, Joined DEF Reencodes
<1>6. CASE Len(w) = 2
  <2>1. w = <<s, w[2]>> /\ w[2] \in DataByte
    BY <1>6, ShortSeqs DEF Packet
  <2>2. k \in OneDataKinds \cup {"MtcQuarterFrame", "SongSelect"}
    <3>1. k \notin TwoDataKinds \cup Value14Kinds /\ k \notin NoDataKinds
      <4>1. DataLen(k) = 1
        BY <1>6, <1>9
      <4> QED BY <4>1, DataLenIs
    <3> QED BY <1>2, <3>1 DEF Kinds, SystemKinds, ChannelKinds, Value14Kinds
  <2>3. k # "NoteOn" /\ k \notin Value14Kinds /\ (k \in ChannelKinds <=> k \in OneDataKinds)
    BY <2>2 DEF ChannelKinds, TwoDataKinds, OneDataKinds, Value14Kinds
  <2>4. m = Message(k, c, <<w[2]>>)
    BY <1>3, <1>4, <1>6, <2>3 DEF ToMessage
  <2>5. m \in MidiMessage
    <3>1. CASE k \in OneDataKinds
      BY <1>2, <2>1, <2>4, <3>1 DEF MidiMessage, Message
    <3>2. CASE k \notin OneDataKinds
      <4>1. c = 0
        BY <1>2, <1>3, <2>3, <3>2
      <4> QED BY <2>1, <2>2, <2>4, <3>2, <4>1 DEF MidiMessage, Message
    <3> QED BY <3>1, <3>2
  <2>6. Encode(m) = <<s>> \o <<w[2]>>
    BY <1>2, <2>3, <2>4 DEF Encode, Message
  <2> QED BY <2>1, <2>5, <2>6, Joined DEF Reencodes
<1>7. CASE Len(w) = 3 /\ k \in Value14Kinds
  <2>1. w = <<s, w[2], w[3]>> /\ w[2] \in DataByte /\ w[3] \in DataByte
    BY <1>7, ShortSeqs DEF Packet
  <2>2. PICK v \in Value14 : /\ v = From14(w[3], w[2])
                             /\ v % 128 = w[2] /\ v \div 128 = w[3]
    BY <2>1, Join14
  <2>3. m = Message(k, c, <<v>>)
    BY <1>3, <1>4, <1>7, <2>2 DEF ToMessage, Value14Kinds
  <2>4. m \in MidiMessage
    <3>1. CASE k = "PitchBend"
      BY <1>2, <2>3, <3>1 DEF MidiMessage, Message
    <3>2. CASE k # "PitchBend"
      <4>1. k = "SongPositionPointer" /\ k \notin ChannelKinds
        BY <1>7, <3>2 DEF Value14Kinds, ChannelKinds, TwoDataKinds, OneDataKinds
      <4>2. c = 0
        BY <1>2, <1>3, <4>1
      <4> QED BY <2>3, <4>1, <4>2 DEF MidiMessage, Message
    <3> QED BY <3>1, <3>2
  <2>5. Encode(m) = <<s>> \o <<w[2], w[3]>>
    BY <1>2, <1>7, <2>2, <2>3 DEF Encode, Message
  <2> QED BY <2>1, <2>4, <2>5, Joined DEF Reencodes
<1>8. CASE Len(w) = 3 /\ k \notin Value14Kinds
  <2>1. w = <<s, w[2], w[3]>> /\ w[2] \in DataByte /\ w[3] \in DataByte
    BY <1>8, ShortSeqs DEF Packet
  <2>2. k \in TwoDataKinds /\ KindOf(w) \in TwoDataKinds
    <3>1. k \in TwoDataKinds \cup Value14Kinds
      <4>1. DataLen(k) = 2
        BY <1>8, <1>9
      <4> QED BY <4>1, DataLenIs
    <3>2. k \in TwoDataKinds
      BY <1>8, <3>1
    <3> QED BY <1>4, <3>2 DEF TwoDataKinds
  <2>3. s < \hF0 /\ KindOf(w) \notin Value14Kinds
    BY <1>2, <2>2 DEF ChannelKinds, TwoDataKinds, Value14Kinds
  <2>4. m = Message(KindOf(w), c, <<w[2], w[3]>>)
    BY <1>3, <1>8, <2>3 DEF ToMessage
  <2>5. m \in MidiMessage
    BY <1>2, <2>1, <2>2, <2>4 DEF MidiMessage, Message
  <2>6. Encode(m) = <<StatusByte(KindOf(w)) + c>> \o <<w[2], w[3]>>
    BY <2>3, <2>4 DEF Encode, Message
  <2>7. Encode(m) = <<StatusByte(KindOf(w)) + c, w[2], w[3]>>
    BY <2>6, Joined
  <2>8. CASE KindOf(w) = k
    BY <1>2, <2>1, <2>5, <2>7, <2>8 DEF Reencodes
  <2>9. CASE KindOf(w) # k
    <3>1. k = "NoteOn" /\ w[3] = 0 /\ KindOf(w) = "NoteOff"
      BY <1>4, <2>9
    <3>2. c \in 0..15 /\ \h90 + c = s
      BY <1>2, <3>1 DEF StatusByte, Channel
    <3>3. s \in \h90..\h9F /\ \h80 + c = s - 16
      <4> HIDE DEF s
      <4>1. s = \h90 + c /\ c \in 0..15
        BY <3>2
      <4> QED BY <4>1
    <3>4. Encode(m) = <<s - 16, w[2], w[3]>>
      BY <2>7, <3>1, <3>3 DEF StatusByte
    <3>5. [w EXCEPT ![1] = @ - 16] = <<s - 16, w[2], w[3]>>
      BY <1>8, <2>1
    <3> QED BY <2>5, <3>1, <3>3, <3>4, <3>5 DEF Reencodes
  <2> QED BY <2>8, <2>9
<1> QED BY <1>1, <1>5, <1>6, <1>7, <1>8

-----------------------------------------------------------------------------
(* SysEx.                                                                  *)

\* The slices that are taken for a SysEx.
SysexPacket(w) == /\ Len(w) > 2 /\ w[1] = \hF0 /\ w[Len(w)] = \hF7
                  /\ Len(w) - 2 <= MaxSysexBytes
                  /\ \A i \in 2..Len(w) - 1 : w[i] \in DataByte

Body(w) == SubSeq(w, 2, Len(w) - 1)

LEMMA BodyIs ==
  ASSUME NEW w \in Seq(Byte), Len(w) > 1
  PROVE  /\ Body(w) \in Seq(Byte) /\ Len(Body(w)) = Len(w) - 2
         /\ \A i \in 1..Len(w) - 2 : Body(w)[i] = w[i + 1]
<1>1. 2 \in 1..Len(w) + 1 /\ Len(w) - 1 \in 1..Len(w) /\ Len(w) \in Nat
  OBVIOUS
<1>2. \A i \in 2..Len(w) - 1 : w[i] \in Byte
  OBVIOUS
<1> DEFINE b == Body(w)
           l == Len(w)
<1>3. /\ b \in Seq(Byte)
      /\ Len(b) = IF 2 <= l - 1 THEN (l - 1) - 2 + 1 ELSE 0
      /\ \A i \in 1..(l - 1) - 2 + 1 : b[i] = w[2 + i - 1]
  BY <1>1, <1>2, SubSeqProperties DEF Body
<1>4. l \in Nat /\ l > 1
  BY <1>1
<1> HIDE DEF b, l
<1>5. Len(b) = l - 2
  BY <1>3, <1>4
<1>6. ASSUME NEW i \in 1..l - 2 PROVE b[i] = w[i + 1]
  <2>1. i \in 1..(l - 1) - 2 + 1 /\ 2 + i - 1 = i + 1
    BY <1>4
  <2> QED BY <1>3, <2>1
<1> QED BY <1>3, <1>5, <1>6 DEF b, l

LEMMA SysexDecodes ==
  ASSUME NEW w \in Seq(Byte), w # <<>>, w[1] = \hF0
  PROVE  /\ Decode(w) = DecodeSysex(w)
         /\ SysexPacket(w) => Decode(w) = SysexEvent(Body(w))
         /\ ~SysexPacket(w) => IsError(Decode(w))
         /\ Len(w) < 2 \/ w[Len(w)] # \hF7 => Decode(w) = ErrorEvent("UnterminatedSysex", w)
<1>1. Decode(w) = DecodeSysex(w)
  BY DEF Decode
<1> DEFINE b == Body(w)
<1>2. DecodeSysex(w) =
        IF Len(w) < 2 \/ w[Len(w)] # \hF7
        THEN ErrorEvent("UnterminatedSysex", w)
        ELSE IF b = <<>> THEN ErrorEvent("EmptySysex", w)
        ELSE IF Len(b) > MaxSysexBytes THEN ErrorEvent("SysexTooLong", <<>>)
        ELSE IF \E i \in DOMAIN b : b[i] > \h7F THEN ErrorEvent("SysexDataOutOfRange", w)
        ELSE SysexEvent(b)
  BY DEF DecodeSysex, Body
<1>3. ~(Len(w) < 2) => /\ b \in Seq(Byte) /\ Len(b) = Len(w) - 2 /\ DOMAIN b = 1..Len(w) - 2
                       /\ \A i \in 1..Len(w) - 2 : b[i] = w[i + 1]
  BY BodyIs
<1> HIDE DEF b
<1>4. SysexPacket(w) => DecodeSysex(w) = SysexEvent(b)
  <2> SUFFICES ASSUME SysexPacket(w) PROVE DecodeSysex(w) = SysexEvent(b)
    OBVIOUS
  <2>1. ~(Len(w) < 2) /\ w[Len(w)] = \hF7 /\ Len(w) > 2 /\ Len(w) - 2 <= MaxSysexBytes
    BY DEF SysexPacket
  <2>2. b # <<>> /\ ~(Len(b) > MaxSysexBytes)
    BY <1>3, <2>1
  <2>3. ASSUME NEW i \in DOMAIN b PROVE ~(b[i] > \h7F)
    <3>1. i + 1 \in 2..Len(w) - 1 /\ b[i] = w[i + 1]
      BY <1>3, <2>1
    <3> QED BY <3>1, DataBytes DEF SysexPacket
  <2> QED BY <1>2, <2>1, <2>2, <2>3
<1>5. ~SysexPacket(w) => IsError(DecodeSysex(w))
  <2> SUFFICES ASSUME ~IsError(DecodeSysex(w)) PROVE SysexPacket(w)
    OBVIOUS
  <2>1. /\ ~(Len(w) < 2) /\ w[Len(w)] = \hF7 /\ b # <<>> /\ ~(Len(b) > MaxSysexBytes)
        /\ ~\E i \in DOMAIN b : b[i] > \h7F
    BY <1>2 DEF IsError, ErrorEvent
  <2>2. Len(w) > 2 /\ Len(w) - 2 <= MaxSysexBytes
    BY <1>3, <2>1
  <2>3. ASSUME NEW i \in 2..Len(w) - 1 PROVE w[i] \in DataByte
    <3>1. i - 1 \in DOMAIN b /\ i - 1 \in 1..Len(w) - 2 /\ (i - 1) + 1 = i
      BY <1>3, <2>1
    <3>2. b[i - 1] = w[i] /\ w[i] \in Byte
      BY <1>3, <2>1, <3>1
    <3> QED BY <2>1, <3>1, <3>2, DataBytes
  <2> QED BY <2>1, <2>2, <2>3 DEF SysexPacket
<1> QED BY <1>1, <1>2, <1>4, <1>5 DEF b

LEMMA SysexReencodes ==
  ASSUME NEW w \in Seq(Byte), SysexPacket(w)
  PROVE  EncodeSysex(Body(w)) = w
<1>1. /\ Len(w) \in Nat /\ Len(w) > 2 /\ w[1] = \hF0 /\ w[Len(w)] = \hF7
  BY DEF SysexPacket
<1>2. /\ Body(w) \in Seq(Byte) /\ Len(Body(w)) = Len(w) - 2
      /\ \A i \in 1..Len(w) - 2 : Body(w)[i] = w[i + 1]
  BY <1>1, BodyIs
<1> DEFINE b == Body(w)
           x == <<\hF0>> \o b
           y == x \o <<\hF7>>
<1> HIDE DEF b
<1>3. \hF0 \in Byte /\ \hF7 \in Byte /\ b \in Seq(Byte) /\ Len(b) = Len(w) - 2
  BY <1>2 DEF Byte, b
<1>4. /\ x \in Seq(Byte) /\ Len(x) = Len(w) - 1 /\ x[1] = \hF0
      /\ \A i \in 2..Len(w) - 1 : x[i] = b[i - 1]
  BY <1>1, <1>3
<1> HIDE DEF x
<1>5. /\ y \in Seq(Byte) /\ Len(y) = Len(w) /\ y[Len(w)] = \hF7
      /\ \A i \in 1..Len(w) - 1 : y[i] = x[i]
  BY <1>1, <1>3, <1>4
<1> HIDE DEF y
<1>6. ASSUME NEW i \in 1..Len(w) PROVE y[i] = w[i]
  <2>1. CASE i = 1
    BY <1>1, <1>4, <1>5, <2>1
  <2>2. CASE i = Len(w)
    BY <1>1, <1>5, <2>2
  <2>3. CASE i # 1 /\ i # Len(w)
    <3>1. i \in 2..Len(w) - 1 /\ i - 1 \in 1..Len(w) - 2 /\ (i - 1) + 1 = i
      BY <1>1, <2>3
    <3>2. y[i] = x[i] /\ x[i] = b[i - 1]
      BY <1>4, <1>5, <3>1
    <3>3. b[i - 1] = w[i]
      BY <1>2, <3>1 DEF b
    <3> QED BY <3>2, <3>3
  <2> QED BY <2>1, <2>2, <2>3
<1>7. y = w
  BY <1>3, <1>5, <1>6, SeqEqual
<1> QED BY <1>7 DEF EncodeSysex, y, x, b

-----------------------------------------------------------------------------
(* The runs' states.                                                       *)

\* A slice that was received, or the encoding of a message that was sent.
WireOK == wire \in Seq(Byte)
SentOK == sent = <<>> \/ \E m \in MidiMessage : sent = <<m>> /\ wire = Encode(m)
EventOK == event = <<>> \/ \E ev \in SmallEvent : event = <<ev>>

Reached == WireOK /\ SentOK /\ EventOK

LEMMA InitReached == Init => Reached
BY DEF Init, Reached, WireOK, SentOK, EventOK

LEMMA NextReached == Reached /\ [Next]_vars => Reached'
<1> SUFFICES ASSUME Reached, [Next]_vars PROVE Reached'
  OBVIOUS
<1>1. CASE Receive
  BY <1>1 DEF Receive, Reached, WireOK, SentOK, EventOK
<1>2. CASE Send
  <2>1. PICK m \in MidiMessage : wire' = Encode(m) /\ sent' = <<m>>
    BY <1>2 DEF Send, SmallMessage
  <2>2. wire' \in Seq(Byte)
    BY <2>1, EncodedDecodesTo
  <2>3. SentOK'
    BY <2>1 DEF SentOK
  <2> QED BY <1>2, <2>2, <2>3 DEF Send, Reached, WireOK, EventOK
<1>3. CASE Deliver
  BY <1>3 DEF Deliver, Reached, WireOK, SentOK, EventOK
<1>4. CASE UNCHANGED vars
  BY <1>4 DEF vars, Reached, WireOK, SentOK, EventOK
<1> QED BY <1>1, <1>2, <1>3, <1>4 DEF Next

\* Every state is a slice of bytes, a message with its encoding, or an event in the
\* widths of ALSA's structs.
THEOREM ReachedAlways == Spec => []Reached
BY InitReached, NextReached, PTL DEF Spec

\* What is reached is decoded and encoded as RoundTrips says.
LEMMA RoundTripsReached == Reached => RoundTrips
<1> SUFFICES ASSUME Reached PROVE RoundTrips
  OBVIOUS
<1>1. wire \in Seq(Byte)
  BY DEF Reached, WireOK
<1>2. EncodedDecodes
  <2> SUFFICES ASSUME NEW i \in DOMAIN sent
               PROVE  Decode(wire) = MessageEvent(Canonical(sent[i]))
    BY DEF EncodedDecodes
  <2>1. PICK m \in MidiMessage : sent = <<m>> /\ wire = Encode(m)
    BY DEF Reached, SentOK
  <2>2. sent[i] = m
    BY <2>1
  <2> QED BY <2>1, <2>2, EncodedDecodesTo
<1>3. AcceptedReencodes
  <2> DEFINE d == Decode(wire)
  <2>1. ASSUME d.type = "Message"
        PROVE  \/ Encode(d.msg) = wire
               \/ wire[1] \in \h90..\h9F /\ wire[3] = 0
                  /\ Encode(d.msg) = [wire EXCEPT ![1] = @ - 16]
    <3>1. Packet(wire) /\ d = MessageEvent(ToMessage(wire))
      BY <1>1, <2>1, MessageIsPacket
    <3>2. Reencodes(wire, ToMessage(wire))
      BY <1>1, <3>1, PacketMessage
    <3>3. d.msg = ToMessage(wire)
      BY <3>1 DEF MessageEvent
    <3> QED BY <3>2, <3>3 DEF Reencodes
  <2>2. ASSUME d.type = "Sysex" PROVE EncodeSysex(d.body) = wire
    <3>1. wire # <<>> /\ wire[1] = \hF0
      BY <2>2 DEF Decode, ErrorEvent, MessageEvent
    <3>2. ~IsError(d)
      BY <2>2 DEF IsError
    <3>3. SysexPacket(wire) /\ d = SysexEvent(Body(wire))
      BY <1>1, <3>1, <3>2, SysexDecodes
    <3>4. d.body = Body(wire)
      BY <3>3 DEF SysexEvent
    <3> QED BY <1>1, <3>3, <3>4, SysexReencodes
  <2> QED BY <2>1, <2>2 DEF AcceptedReencodes
<1> QED BY <1>2, <1>3 DEF RoundTrips

\* Encode and decode are inverses of each other, for every message and every slice
\* (raw_message.rs From<&MidiMessage>, decode.rs decode, sys_ex.rs).
THEOREM RoundTripsAlways == Spec => []RoundTrips
BY ReachedAlways, RoundTripsReached, PTL

-----------------------------------------------------------------------------
(* One way to cut a stream.                                                *)

LEMMA UnambiguousReached == Reached => Unambiguous
<1> SUFFICES ASSUME Reached PROVE Unambiguous
  OBVIOUS
<1> DEFINE w == wire
           d == Decode(w)
<1>1. w \in Seq(Byte)
  BY DEF Reached, WireOK
<1>2. ASSUME ~IsError(d), NEW n \in 1..Len(w) - 1, NEW u, u = SubSeq(w, 1, n)
      PROVE  /\ IsError(Decode(u))
             /\ Decode(u).reason \in {"Truncated", "UnterminatedSysex"}
  <2>1. /\ u \in Seq(Byte) /\ Len(u) = n /\ u # <<>> /\ n < Len(w) /\ n \in Nat \ {0}
        /\ \A i \in 1..n : u[i] = w[i]
    BY <1>1, <1>2
  <2>2. u[1] = w[1] /\ w # <<>>
    BY <1>1, <2>1
  <2>3. CASE w[1] = \hF0
    <3>1. SysexPacket(w)
      BY <1>1, <1>2, <2>2, <2>3, SysexDecodes
    <3>2. Len(u) < 2 \/ u[Len(u)] # \hF7
      <4>1. CASE n < 2
        BY <2>1, <4>1
      <4>2. CASE n >= 2
        <5>1. n \in 2..Len(w) - 1
          BY <2>1, <4>2
        <5>2. w[n] \in DataByte
          BY <3>1, <5>1 DEF SysexPacket
        <5>3. u[Len(u)] = w[n]
          BY <2>1
        <5>4. w[n] # \hF7
          <6>1. ~(\hF7 \in DataByte)
            BY DEF DataByte
          <6> QED BY <5>2, <6>1, Zenon
        <5> QED BY <5>3, <5>4
      <4> QED BY <2>1, <4>1, <4>2
    <3>3. Decode(u) = ErrorEvent("UnterminatedSysex", u)
      BY <2>1, <2>2, <2>3, <3>2, SysexDecodes
    <3> QED BY <3>3 DEF IsError, ErrorEvent
  <2>4. CASE w[1] # \hF0
    <3>1. d.type = "Message"
      BY <1>2, <2>2, <2>4 DEF Decode, IsError, ErrorEvent, MessageEvent
    <3>2. Packet(w)
      BY <1>1, <3>1, MessageIsPacket
    <3>3. /\ ExpectedLen(u[1]) # 0 /\ Len(u) < ExpectedLen(u[1]) /\ u[1] # \hF0 /\ u[1] # \hF7
      BY <2>1, <2>2, <2>4, <3>2, NoLength DEF Packet
    <3>4. Decode(u) = ErrorEvent("Truncated", u)
      BY <2>1, <3>3 DEF Decode
    <3> QED BY <3>4 DEF IsError, ErrorEvent
  <2> QED BY <2>3, <2>4
<1>3. ASSUME IsError(d), d.reason = "Truncated", \A i \in 2..Len(w) : w[i] \in DataByte
      PROVE  \E n \in 1..2 : \E pad \in [1..n -> {0}] : ~IsError(Decode(w \o pad))
  <2>1. w # <<>> /\ w[1] # \hF0
    BY <1>3 DEF Decode, DecodeSysex, ErrorEvent, SysexEvent, IsError
  <2>2. ExpectedLen(w[1]) # 0 /\ Len(w) < ExpectedLen(w[1])
    BY <1>3, <2>1 DEF Decode, ErrorEvent, MessageEvent, IsError
  <2>3. ExpectedLen(w[1]) \in 0..3 /\ Len(w) \in Nat \ {0}
    BY <1>1, <2>1 DEF ExpectedLen
  <2> DEFINE n == ExpectedLen(w[1]) - Len(w)
             pad == [i \in 1..n |-> 0]
             x == w \o pad
  <2>4. n \in 1..2
    BY <2>2, <2>3
  <2>5. pad \in Seq(Byte) /\ Len(pad) = n /\ \A i \in 1..n : pad[i] = 0
    <3> HIDE DEF n
    <3> QED BY <2>4 DEF Byte
  <2>6. pad \in [1..n -> {0}]
    OBVIOUS
  <2> HIDE DEF pad
  <2>7. /\ x \in Seq(Byte) /\ Len(x) = Len(w) + n
        /\ \A i \in 1..Len(w) : x[i] = w[i]
        /\ \A i \in 1..n : x[Len(w) + i] = 0
    <3> HIDE DEF n
    <3> QED BY <1>1, <2>4, <2>5
  <2>8. x # <<>> /\ x[1] = w[1] /\ Len(x) = ExpectedLen(x[1])
    <3> HIDE DEF x, w
    <3>1. x[1] = w[1]
      BY <2>3, <2>7
    <3>2. Len(x) = ExpectedLen(w[1])
      BY <2>3, <2>7
    <3>3. x # <<>>
      BY <2>2, <3>2
    <3> QED BY <3>1, <3>2, <3>3
  <2>9. ASSUME NEW i \in 2..Len(x) PROVE x[i] \in DataByte
    <3>1. CASE i \in 2..Len(w)
      BY <1>3, <2>7, <3>1
    <3>2. CASE i \notin 2..Len(w)
      <4>1. i - Len(w) \in 1..n /\ Len(w) + (i - Len(w)) = i
        BY <2>3, <2>4, <2>7, <3>2
      <4> QED BY <2>7, <4>1 DEF DataByte
    <3> QED BY <3>1, <3>2
  <2>10. Packet(x)
    BY <2>8, <2>9 DEF Packet
  <2>11. ~IsError(Decode(x))
    <3> HIDE DEF x
    <3>1. Decode(x) = MessageEvent(ToMessage(x))
      BY <2>7, <2>10, PacketDecodes
    <3>2. MessageEvent(ToMessage(x)).type = "Message"
      BY DEF MessageEvent
    <3> QED BY <3>1, <3>2 DEF IsError
  <2> QED BY <2>4, <2>6, <2>11
<1> QED BY <1>2, <1>3 DEF Unambiguous

\* A stream can be cut into messages without looking ahead, whatever it holds
\* (decode.rs decode, sys_ex.rs try_from).
THEOREM UnambiguousAlways == Spec => []Unambiguous
BY ReachedAlways, UnambiguousReached, PTL

-----------------------------------------------------------------------------
(* Types of events and kinds of messages.                                  *)

\* The kind of the message that an event of a type stands for.
Named == [Noteoff |-> "NoteOff", Noteon |-> "NoteOn", Keypress |-> "PolyKeyPressure",
          Controller |-> "ControlChange", Pgmchange |-> "ProgramChange",
          Chanpress |-> "ChannelPressure", Pitchbend |-> "PitchBend",
          Qframe |-> "MtcQuarterFrame", Songpos |-> "SongPositionPointer",
          Songsel |-> "SongSelect", TuneRequest |-> "TuneRequest", Clock |-> "TimingClock",
          Start |-> "Start", Continue |-> "Continue", Stop |-> "Stop",
          Sensing |-> "ActiveSensing", Reset |-> "Reset"]

LEMMA PlainTypesAre ==
  PlainTypes = {"Noteoff", "Noteon", "Keypress", "Controller", "Pgmchange", "Chanpress",
                "Pitchbend", "Qframe", "Songpos", "Songsel", "TuneRequest", "Clock", "Start",
                "Continue", "Stop", "Sensing", "Reset"}
BY DEF PlainTypes, StatusOf

LEMMA NamedIs ==
  ASSUME NEW t \in PlainTypes
  PROVE  /\ Named[t] \in Kinds /\ StatusByte(Named[t]) = StatusOf[t]
         /\ StatusOf[t] \in \h80..\hFF
         /\ OfChannel(t) <=> Named[t] \in ChannelKinds
         /\ t \in PairTypes <=> Named[t] \in TwoDataKinds
         /\ StatusOf[t] > \hF3 <=> Named[t] \in NoDataKinds
         /\ t = "Pitchbend" \/ t = "Songpos" <=> Named[t] \in Value14Kinds
         /\ t = "Pitchbend" <=> Named[t] = "PitchBend"
         /\ t = "Noteon" <=> Named[t] = "NoteOn"
         /\ t \notin ControlTypes
BY PlainTypesAre DEF Named, StatusOf, StatusByte, Kinds, SystemKinds, ChannelKinds, TwoDataKinds,
   OneDataKinds,
   NoDataKinds, Value14Kinds, OfChannel, PairTypes, NoteTypes, ControlTypes, ParamTypes

LEMMA StatusOfInjective ==
  ASSUME NEW t \in PlainTypes, NEW u \in PlainTypes, StatusOf[t] = StatusOf[u]
  PROVE  t = u
BY PlainTypesAre DEF StatusOf

LEMMA NamedOnto ==
  ASSUME NEW k \in Kinds
  PROVE  \E t \in PlainTypes : Named[t] = k
BY PlainTypesAre DEF Named, Kinds, SystemKinds, ChannelKinds, TwoDataKinds, OneDataKinds,
   NoDataKinds

LEMMA StatusByteInjective ==
  ASSUME NEW k \in Kinds, NEW l \in Kinds, StatusByte(k) = StatusByte(l)
  PROVE  k = l
<1>1. ASSUME NEW j \in Kinds PROVE KindFor(StatusByte(j)) = j
  <2>1. CASE j \in ChannelKinds
    <3>1. 0 \in Channel /\ StatusByte(j) = StatusByte(j) + 0
      BY <2>1 DEF Channel, StatusByte
    <3> QED BY <2>1, <3>1, ChannelStatusIs
  <2>2. CASE j \in SystemKinds
    BY <2>2, SystemStatusIs
  <2> QED BY <2>1, <2>2 DEF Kinds
<1> QED BY <1>1

-----------------------------------------------------------------------------
(* Events and messages.                                                    *)

LEMMA MessageOfIs ==
  ASSUME NEW ev, ev.type \in PlainTypes
  PROVE  MessageOf(ev) =
           Message(IF ev.type = "Noteon" /\ ev.value = 0 THEN "NoteOff" ELSE Named[ev.type],
                   ev.channel,
                   IF ev.type = "Pitchbend" THEN <<ev.value + Center>> ELSE Fields(ev))
<1> DEFINE status == IF ev.type = "Noteon" /\ ev.value = 0 THEN \h80 ELSE StatusOf[ev.type]
           kind   == IF ev.type = "Noteon" /\ ev.value = 0 THEN "NoteOff" ELSE Named[ev.type]
           all    == ChannelKinds \cup NoDataKinds \cup
                     {"MtcQuarterFrame", "SongPositionPointer", "SongSelect"}
           chosen == CHOOSE k \in all : StatusByte(k) = status
<1>1. all = Kinds
  BY DEF Kinds, SystemKinds
<1>2. kind \in Kinds /\ StatusByte(kind) = status
  <2>1. "NoteOff" \in Kinds /\ StatusByte("NoteOff") = \h80
    BY DEF Kinds, ChannelKinds, TwoDataKinds, StatusByte
  <2> QED BY <2>1, NamedIs
<1>3. MessageOf(ev) = Message(chosen, ev.channel,
                              IF ev.type = "Pitchbend" THEN <<ev.value + Center>> ELSE Fields(ev))
  BY DEF MessageOf
<1> HIDE DEF status, kind, all
<1>4. chosen \in all /\ StatusByte(chosen) = status
  BY <1>1, <1>2
<1>5. chosen = kind
  BY <1>1, <1>2, <1>4, StatusByteInjective
<1> QED BY <1>3, <1>5 DEF kind

\* The fields that the coder gives to the event for a message.
ParamFor(m) == IF m.kind \in TwoDataKinds THEN m.data[1] ELSE 0
ValueFor(m) == IF m.kind \in TwoDataKinds THEN m.data[2]
               ELSE IF m.kind \in NoDataKinds THEN 0
               ELSE IF m.kind = "PitchBend" THEN m.data[1] - Center ELSE m.data[1]

LEMMA CodedIs ==
  ASSUME NEW m \in MidiMessage, NEW t \in PlainTypes, Named[t] = m.kind
  PROVE  Coded(Encode(m)) = SeqEvent(t, m.channel, ParamFor(m), ValueFor(m))
<1> DEFINE w == Encode(m)
           s == StatusByte(m.kind) + m.channel
<1>1. /\ s \in \h80..\hFF /\ (s < \hF0 <=> m.kind \in ChannelKinds)
      /\ ChannelOf(s) = m.channel
      /\ TwoForm(m, s) \/ OneForm(m, s) \/ ValueForm(m, s) \/ NoForm(m, s)
  BY EncodeIs
<1>2. /\ StatusByte(m.kind) = StatusOf[t] /\ StatusOf[t] \in \h80..\hFF
      /\ t \in PairTypes <=> m.kind \in TwoDataKinds
      /\ t = "Pitchbend" <=> m.kind = "PitchBend"
  BY NamedIs
<1>3. m.channel \in Int /\ StatusByte(m.kind) = s - m.channel
  <2>1. m.channel \in 0..15
    BY MessageForms DEF Channel
  <2> QED BY <1>2, <2>1
<1> DEFINE base == IF s < \hF0 THEN s - (s % 16) ELSE s
           type == CHOOSE u \in PlainTypes : StatusOf[u] = base
<1>4. base = StatusOf[t]
  <2> HIDE DEF s
  <2>1. CASE s < \hF0
    BY <1>1, <1>2, <1>3, <2>1 DEF ChannelOf
  <2>2. CASE ~(s < \hF0)
    <3>1. m.channel = 0
      BY <1>1, <2>2 DEF ChannelOf
    <3> QED BY <1>1, <1>2, <1>3, <2>2, <3>1
  <2> QED BY <2>1, <2>2
<1>5. type = t
  <2>1. type \in PlainTypes /\ StatusOf[type] = StatusOf[t]
    BY <1>4
  <2> QED BY <2>1, StatusOfInjective
<1>6. s - base = m.channel
  BY <1>1, <1>2, <1>3, <1>4
<1>7. ASSUME w[1] = s
      PROVE  Coded(w) =
               SeqEvent(t, m.channel, IF m.kind \in TwoDataKinds THEN w[2] ELSE 0,
                        IF Len(w) = 1 THEN 0
                        ELSE IF Len(w) = 2 THEN w[2]
                        ELSE IF m.kind \in TwoDataKinds THEN w[3]
                        ELSE IF m.kind = "PitchBend" THEN From14(w[3], w[2]) - Center
                        ELSE From14(w[3], w[2]))
  <2> HIDE DEF w, s
  <2>1. Coded(w) =
          SeqEvent(type, s - base, IF type \in PairTypes THEN w[2] ELSE 0,
                   IF Len(w) = 1 THEN 0
                   ELSE IF Len(w) = 2 THEN w[2]
                   ELSE IF type \in PairTypes THEN w[3]
                   ELSE IF type = "Pitchbend" THEN From14(w[3], w[2]) - Center
                   ELSE From14(w[3], w[2]))
    BY <1>7 DEF Coded
  <2> HIDE DEF type, base
  <2> QED BY <1>2, <1>5, <1>6, <2>1
<1> HIDE DEF s, w
<1>8. CASE TwoForm(m, s)
  <2>1. PICK a, b \in DataByte : m.data = <<a, b>> /\ w = <<s, a, b>>
    BY <1>8 DEF TwoForm, w
  <2>2. m.kind \in TwoDataKinds
    BY <1>8 DEF TwoForm
  <2>3. /\ w[1] = s /\ w[2] = a /\ w[3] = b /\ Len(w) = 3
        /\ ParamFor(m) = a /\ ValueFor(m) = b
    BY <2>1, <2>2 DEF ParamFor, ValueFor
  <2> QED BY <1>7, <2>2, <2>3 DEF w
<1>9. CASE OneForm(m, s)
  <2>1. PICK a \in DataByte : m.data = <<a>> /\ w = <<s, a>>
    BY <1>9 DEF OneForm, w
  <2>2. m.kind \notin TwoDataKinds /\ m.kind \notin NoDataKinds /\ m.kind # "PitchBend"
    BY <1>9 DEF OneForm, OneDataKinds, TwoDataKinds, NoDataKinds
  <2>3. /\ w[1] = s /\ w[2] = a /\ Len(w) = 2
        /\ ParamFor(m) = 0 /\ ValueFor(m) = a
    BY <2>1, <2>2 DEF ParamFor, ValueFor
  <2> QED BY <1>7, <2>2, <2>3 DEF w
<1>10. CASE ValueForm(m, s)
  <2>1. PICK a, b \in DataByte : m.data = <<From14(b, a)>> /\ w = <<s, a, b>>
    BY <1>10 DEF ValueForm, w
  <2>2. m.kind \notin TwoDataKinds /\ m.kind \notin NoDataKinds
    BY <1>10 DEF ValueForm, Value14Kinds, TwoDataKinds, NoDataKinds
  <2>3. w[1] = s /\ w[2] = a /\ w[3] = b /\ Len(w) = 3
    BY <2>1
  <2>4. /\ ParamFor(m) = 0
        /\ ValueFor(m) = IF m.kind = "PitchBend" THEN From14(b, a) - Center ELSE From14(b, a)
    BY <2>1, <2>2 DEF ParamFor, ValueFor
  <2> QED BY <1>7, <2>2, <2>3, <2>4 DEF w
<1>11. CASE NoForm(m, s)
  <2>1. w = <<s>>
    BY <1>11 DEF NoForm, w
  <2>2. m.kind \notin TwoDataKinds /\ m.kind \in NoDataKinds
    BY <1>11 DEF NoForm, TwoDataKinds, NoDataKinds
  <2>3. w[1] = s /\ Len(w) = 1 /\ ParamFor(m) = 0 /\ ValueFor(m) = 0
    BY <2>1, <2>2 DEF ParamFor, ValueFor
  <2> QED BY <1>7, <2>2, <2>3 DEF w
<1> QED BY <1>1, <1>8, <1>9, <1>10, <1>11 DEF w

LEMMA RoutedPlain ==
  ASSUME NEW ev, ev.type \in PlainTypes
  PROVE  Routed(ev) = <<MessageFromEvent(ev)>>
BY NamedIs DEF Routed, ControlTypes, ParamTypes

LEMMA SentArrivesReached == Reached => SentArrives
<1> SUFFICES ASSUME Reached, NEW i \in DOMAIN sent
             PROVE  Routed(Coded(wire)) = <<MessageEvent(Canonical(sent[i]))>>
  BY DEF SentArrives
<1>1. PICK m \in MidiMessage : sent = <<m>> /\ wire = Encode(m)
  BY DEF Reached, SentOK
<1>2. sent[i] = m
  BY <1>1
<1>3. PICK t \in PlainTypes : Named[t] = m.kind
  BY MessageForms, NamedOnto
<1> DEFINE ev == SeqEvent(t, m.channel, ParamFor(m), ValueFor(m))
<1>4. Coded(wire) = ev
  BY <1>1, <1>3, CodedIs
<1>5. /\ ev.type = t /\ ev.channel = m.channel
      /\ ev.param = ParamFor(m) /\ ev.value = ValueFor(m)
  BY DEF SeqEvent
<1>6. /\ t \in PairTypes <=> m.kind \in TwoDataKinds
      /\ StatusOf[t] > \hF3 <=> m.kind \in NoDataKinds
      /\ t = "Pitchbend" <=> m.kind = "PitchBend"
      /\ t = "Pitchbend" \/ t = "Songpos" <=> m.kind \in Value14Kinds
      /\ t = "Noteon" <=> m.kind = "NoteOn"
  BY <1>3, NamedIs
<1> HIDE DEF ev
<1>7. Fields(ev) = IF m.kind \in TwoDataKinds THEN <<ParamFor(m), ValueFor(m)>>
                   ELSE IF m.kind \in NoDataKinds THEN <<>> ELSE <<ValueFor(m)>>
  BY <1>5, <1>6 DEF Fields
<1> DEFINE data == IF t = "Pitchbend" THEN <<ev.value + Center>> ELSE Fields(ev)
<1>8. /\ data = m.data /\ FieldsFit(ev)
      /\ m.kind = "NoteOn" => ev.value = m.data[2]
  <2>1. CASE m.kind \in TwoDataKinds
    <3>1. PICK a, b \in DataByte : m.data = <<a, b>>
      BY <2>1, MessageForms DEF TwoDataKinds, OneDataKinds, Value14Kinds, NoDataKinds
    <3>2. ParamFor(m) = a /\ ValueFor(m) = b
      BY <2>1, <3>1 DEF ParamFor, ValueFor
    <3>3. Fields(ev) = <<a, b>> /\ t # "Pitchbend" /\ t # "Songpos"
      BY <1>6, <1>7, <2>1, <3>2 DEF TwoDataKinds, Value14Kinds
    <3>4. FieldsFit(ev)
      BY <1>5, <3>3 DEF FieldsFit
    <3> QED BY <1>5, <3>1, <3>2, <3>3, <3>4
  <2>2. CASE m.kind \in OneDataKinds \cup {"MtcQuarterFrame", "SongSelect"}
    <3>1. PICK a \in DataByte : m.data = <<a>>
      BY <2>2, MessageForms DEF TwoDataKinds, OneDataKinds, Value14Kinds, NoDataKinds
    <3>2. /\ m.kind \notin TwoDataKinds /\ m.kind \notin NoDataKinds /\ m.kind # "PitchBend"
          /\ m.kind \notin Value14Kinds /\ m.kind # "NoteOn"
      BY <2>2 DEF TwoDataKinds, OneDataKinds, NoDataKinds, Value14Kinds
    <3>3. ValueFor(m) = a
      BY <3>1, <3>2 DEF ValueFor
    <3>4. Fields(ev) = <<a>> /\ t # "Pitchbend" /\ t # "Songpos"
      BY <1>6, <1>7, <3>2, <3>3
    <3>5. FieldsFit(ev)
      BY <1>5, <3>4 DEF FieldsFit
    <3> QED BY <3>1, <3>2, <3>4, <3>5
  <2>3. CASE m.kind \in Value14Kinds
    <3>1. PICK v \in Value14 : m.data = <<v>>
      BY <2>3, MessageForms DEF TwoDataKinds, OneDataKinds, Value14Kinds, NoDataKinds
    <3>2. /\ m.kind \notin TwoDataKinds /\ m.kind \notin NoDataKinds /\ m.kind # "NoteOn"
      BY <2>3 DEF TwoDataKinds, NoDataKinds, Value14Kinds
    <3>3. v \in Int /\ v \in Value14
      BY Value14Is
    <3>4. CASE t = "Pitchbend"
      <4>1. ValueFor(m) = v - Center
        BY <1>6, <3>1, <3>2, <3>4 DEF ValueFor
      <4>2. v - Center \in -Center..Center - 1 /\ (v - Center) + Center = v
        <5> DEFINE x == v - Center
        <5>1. x \in Int /\ x + Center = v
          BY <3>3, CenterIs
        <5> HIDE DEF x
        <5>2. x \in -Center..Center - 1
          BY <3>3, <5>1, BendFits
        <5> QED BY <5>1, <5>2 DEF x
      <4>3. Fields(ev) = <<v - Center>> /\ data = <<v>>
        BY <1>5, <1>7, <3>2, <3>4, <4>1, <4>2
      <4>4. FieldsFit(ev)
        BY <1>5, <3>4, <4>2, <4>3 DEF FieldsFit
      <4> QED BY <3>1, <3>2, <4>3, <4>4
    <3>5. CASE t = "Songpos"
      <4>1. ValueFor(m) = v
        BY <1>6, <3>1, <3>2, <3>5 DEF ValueFor
      <4>2. Fields(ev) = <<v>> /\ data = <<v>>
        BY <1>5, <1>7, <3>2, <3>5, <4>1
      <4>3. FieldsFit(ev)
        BY <1>5, <3>5, <4>2 DEF FieldsFit
      <4> QED BY <3>1, <3>2, <4>2, <4>3
    <3> QED BY <1>6, <2>3, <3>4, <3>5
  <2>4. CASE m.kind \in NoDataKinds
    <3>1. m.data = <<>> /\ m.kind \notin TwoDataKinds /\ m.kind # "NoteOn"
          /\ m.kind # "PitchBend"
      BY <2>4, MessageForms DEF TwoDataKinds, OneDataKinds, Value14Kinds, NoDataKinds
    <3>2. Fields(ev) = <<>> /\ t # "Pitchbend"
      BY <1>6, <1>7, <2>4, <3>1
    <3>3. FieldsFit(ev)
      BY <3>2 DEF FieldsFit
    <3> QED BY <3>1, <3>2, <3>3
  <2> QED BY <2>1, <2>2, <2>3, <2>4, MessageForms
<1>9. m.channel \in Channel
  BY MessageForms DEF Channel
<1>10. MessageFromEvent(ev) = MessageEvent(MessageOf(ev))
  BY <1>5, <1>8, <1>9 DEF MessageFromEvent
<1>11. MessageOf(ev) = Message(IF t = "Noteon" /\ ev.value = 0 THEN "NoteOff" ELSE m.kind,
                               m.channel, m.data)
  BY <1>3, <1>5, <1>8, MessageOfIs
<1>12. MessageOf(ev) = Canonical(m)
  BY <1>6, <1>8, <1>11, MessageForms DEF Canonical, Message
<1> QED BY <1>1, <1>2, <1>4, <1>5, <1>10, <1>12, RoutedPlain

\* Sent through ALSA, every message arrives as itself (alsa.rs send_encoded,
\* message_from_event).
THEOREM SentArrivesAlways == Spec => []SentArrives
BY ReachedAlways, SentArrivesReached, PTL

\* The events that ALSA's structs can hold.
LEMMA SmallEventIs ==
  ASSUME NEW ev \in SmallEvent
  PROVE  /\ ev = SeqEvent(ev.type, ev.channel, ev.param, ev.value)
         /\ ev.type \in PlainTypes \cup ControlTypes
         /\ ev.channel \in Byte /\ ev.param \in Nat /\ ev.value \in Int
         /\ OfChannel(ev.type) \/ ev.channel = 0
         /\ ev.type \in PairTypes \cup ControlTypes \/ ev.param = 0
         /\ ev.type \in ControlTypes \/ Fields(ev) # <<>> \/ ev.value = 0
<1>1. /\ ev \in [type : PlainTypes \cup ControlTypes, channel : MCChannels,
                 param : MCFields, value : MCFields]
      /\ ev.param >= 0
      /\ OfChannel(ev.type) \/ ev.channel = 0
      /\ ev.type \in PairTypes \cup ControlTypes \/ ev.param = 0
      /\ ev.type \in ControlTypes \/ Fields(ev) # <<>> \/ ev.value = 0
  BY DEF SmallEvent
<1>2. ev.channel \in Byte /\ ev.param \in Int /\ ev.value \in Int
  BY <1>1, BoundsAssumption
<1>3. ev = SeqEvent(ev.type, ev.channel, ev.param, ev.value)
  BY <1>1 DEF SeqEvent
<1> QED BY <1>1, <1>2, <1>3

\* What is refused is no MIDI message, and what is accepted is one.
LEMMA AcceptedIsMessage ==
  ASSUME NEW ev, ev.type \in PlainTypes, OfChannel(ev.type) \/ ev.channel = 0, ev.value \in Int
  PROVE  MessageOf(ev) \in MidiMessage <=>
           (OfChannel(ev.type) => ev.channel \in Channel) /\ FieldsFit(ev)
<1> DEFINE t == ev.type
           k == IF t = "Noteon" /\ ev.value = 0 THEN "NoteOff" ELSE Named[t]
           data == IF t = "Pitchbend" THEN <<ev.value + Center>> ELSE Fields(ev)
           m == MessageOf(ev)
<1>1. m = Message(k, ev.channel, data)
  BY MessageOfIs
<1>2. /\ k \in Kinds
      /\ OfChannel(t) <=> k \in ChannelKinds
      /\ t \in PairTypes <=> k \in TwoDataKinds
      /\ StatusOf[t] > \hF3 <=> k \in NoDataKinds
      /\ t = "Pitchbend" \/ t = "Songpos" <=> k \in Value14Kinds
      /\ t = "Pitchbend" <=> k = "PitchBend"
  <2>1. CASE t = "Noteon" /\ ev.value = 0
    <3>1. Named[t] = "NoteOn" /\ k = "NoteOff"
      BY <2>1, NamedIs
    <3>2. /\ {"NoteOn", "NoteOff"} \subseteq Kinds \cap ChannelKinds \cap TwoDataKinds
          /\ {"NoteOn", "NoteOff"} \cap (NoDataKinds \cup Value14Kinds) = {}
      BY DEF Kinds, ChannelKinds, TwoDataKinds, NoDataKinds, Value14Kinds
    <3> QED BY <3>1, <3>2, NamedIs
  <2>2. CASE ~(t = "Noteon" /\ ev.value = 0)
    BY <2>2, NamedIs
  <2> QED BY <2>1, <2>2
<1>3. m.kind = k /\ m.channel = ev.channel /\ m.data = data
  BY <1>1 DEF Message
<1>4. Fields(ev) = IF k \in TwoDataKinds THEN <<ev.param, ev.value>>
                   ELSE IF k \in NoDataKinds THEN <<>> ELSE <<ev.value>>
  BY <1>2 DEF Fields
<1> HIDE DEF k, data, m
<1>5. CASE k \in TwoDataKinds
  <2>1. t # "Pitchbend" /\ t # "Songpos" /\ k \in ChannelKinds
    BY <1>2, <1>5 DEF TwoDataKinds, Value14Kinds, ChannelKinds
  <2>2. data = <<ev.param, ev.value>> /\ Fields(ev) = data
    BY <1>4, <1>5, <2>1 DEF data
  <2>3. FieldsFit(ev) <=> ev.param \in DataByte /\ ev.value \in DataByte
    BY <2>1, <2>2 DEF FieldsFit
  <2>4. m \in MidiMessage => ev.param \in DataByte /\ ev.value \in DataByte
    <3> SUFFICES ASSUME m \in MidiMessage PROVE ev.param \in DataByte /\ ev.value \in DataByte
      OBVIOUS
    <3>1. \E a, b \in DataByte : m.data = <<a, b>>
      BY <1>3, <1>5, MessageForms DEF TwoDataKinds, OneDataKinds, Value14Kinds, NoDataKinds
    <3> QED BY <1>3, <2>2, <3>1
  <2>5. m \in MidiMessage => ev.channel \in Channel
    BY <1>3, <2>1, MessageForms
  <2>6. ev.channel \in Channel /\ ev.param \in DataByte /\ ev.value \in DataByte
        => m \in MidiMessage
    BY <1>1, <1>5, <2>2 DEF MidiMessage, Message, m
  <2> QED BY <1>2, <2>1, <2>3, <2>4, <2>5, <2>6 DEF m
<1>6. CASE k \in OneDataKinds \cup {"MtcQuarterFrame", "SongSelect"}
  <2>1. /\ k \notin TwoDataKinds /\ k \notin NoDataKinds /\ k \notin Value14Kinds
        /\ k \in ChannelKinds <=> k \in OneDataKinds
    BY <1>6 DEF TwoDataKinds, OneDataKinds, NoDataKinds, Value14Kinds, ChannelKinds
  <2>2. t # "Pitchbend" /\ t # "Songpos"
    BY <1>2, <2>1
  <2>3. data = <<ev.value>> /\ Fields(ev) = data
    BY <1>4, <2>1, <2>2 DEF data
  <2>4. FieldsFit(ev) <=> ev.value \in DataByte
    BY <2>2, <2>3 DEF FieldsFit
  <2>5. m \in MidiMessage => ev.value \in DataByte
    <3> SUFFICES ASSUME m \in MidiMessage PROVE ev.value \in DataByte
      OBVIOUS
    <3>1. \E a \in DataByte : m.data = <<a>>
      BY <1>3, <1>6, MessageForms DEF TwoDataKinds, OneDataKinds, Value14Kinds, NoDataKinds
    <3> QED BY <1>3, <2>3, <3>1
  <2>6. m \in MidiMessage /\ k \in ChannelKinds => ev.channel \in Channel
    BY <1>3, MessageForms
  <2>7. CASE k \in OneDataKinds
    <3>1. ev.channel \in Channel /\ ev.value \in DataByte => m \in MidiMessage
      BY <1>1, <2>3, <2>7 DEF MidiMessage, Message, m
    <3> QED BY <1>2, <2>1, <2>4, <2>5, <2>6, <2>7, <3>1 DEF m
  <2>8. CASE k \notin OneDataKinds
    <3>1. ev.channel = 0 /\ ~OfChannel(t)
      BY <1>2, <2>1, <2>8
    <3>2. ev.value \in DataByte => m \in MidiMessage
      BY <1>1, <1>6, <2>3, <2>8, <3>1 DEF MidiMessage, Message, m
    <3> QED BY <2>4, <2>5, <3>1, <3>2 DEF m
  <2> QED BY <2>7, <2>8
<1>7. CASE k = "PitchBend"
  <2>1. /\ k \notin TwoDataKinds /\ k \notin NoDataKinds /\ k \in ChannelKinds
        /\ k \in Value14Kinds
    BY <1>7 DEF TwoDataKinds, NoDataKinds, ChannelKinds, Value14Kinds
  <2>2. t = "Pitchbend" /\ data = <<ev.value + Center>> /\ Fields(ev) = <<ev.value>>
    BY <1>2, <1>4, <1>7, <2>1 DEF data
  <2>3. FieldsFit(ev) <=> ev.value \in -Center..Center - 1
    BY <2>2 DEF FieldsFit
  <2>4. ev.value \in -Center..Center - 1 <=> ev.value + Center \in Value14
    BY BendFits
  <2>5. m \in MidiMessage => ev.value + Center \in Value14
    <3> SUFFICES ASSUME m \in MidiMessage PROVE ev.value + Center \in Value14
      OBVIOUS
    <3>1. \E v \in Value14 : m.data = <<v>>
      BY <1>3, <2>1, MessageForms DEF TwoDataKinds, OneDataKinds, Value14Kinds, NoDataKinds
    <3> QED BY <1>3, <2>2, <3>1
  <2>6. m \in MidiMessage => ev.channel \in Channel
    BY <1>3, <2>1, MessageForms
  <2>7. ev.channel \in Channel /\ ev.value + Center \in Value14 => m \in MidiMessage
    BY <1>1, <1>7, <2>2 DEF MidiMessage, Message, m
  <2> QED BY <1>2, <2>1, <2>3, <2>4, <2>5, <2>6, <2>7 DEF m
<1>8. CASE k = "SongPositionPointer"
  <2>1. /\ k \notin TwoDataKinds /\ k \notin NoDataKinds /\ k \notin ChannelKinds
        /\ k \in Value14Kinds /\ k # "PitchBend"
    BY <1>8 DEF TwoDataKinds, OneDataKinds, NoDataKinds, ChannelKinds, Value14Kinds
  <2>2. t = "Songpos" /\ data = <<ev.value>> /\ Fields(ev) = <<ev.value>>
    BY <1>2, <1>4, <2>1 DEF data
  <2>3. FieldsFit(ev) <=> ev.value \in Value14
    BY <2>2 DEF FieldsFit
  <2>4. ev.channel = 0 /\ ~OfChannel(t)
    BY <1>2, <2>1
  <2>5. m \in MidiMessage => ev.value \in Value14
    <3> SUFFICES ASSUME m \in MidiMessage PROVE ev.value \in Value14
      OBVIOUS
    <3>1. \E v \in Value14 : m.data = <<v>>
      BY <1>3, <2>1, MessageForms DEF TwoDataKinds, OneDataKinds, Value14Kinds, NoDataKinds
    <3> QED BY <1>3, <2>2, <3>1
  <2>6. ev.value \in Value14 => m \in MidiMessage
    BY <1>1, <1>8, <2>2, <2>4 DEF MidiMessage, Message, m
  <2> QED BY <2>3, <2>4, <2>5, <2>6 DEF m
<1>9. CASE k \in NoDataKinds
  <2>1. k \notin TwoDataKinds /\ k \notin ChannelKinds /\ k # "PitchBend"
    BY <1>9 DEF TwoDataKinds, OneDataKinds, NoDataKinds, ChannelKinds
  <2>2. data = <<>> /\ Fields(ev) = <<>> /\ ev.channel = 0 /\ ~OfChannel(t)
    BY <1>2, <1>4, <1>9, <2>1 DEF data
  <2>3. FieldsFit(ev)
    BY <2>2 DEF FieldsFit
  <2>4. m \in MidiMessage
    BY <1>1, <1>9, <2>2 DEF MidiMessage, Message, m
  <2> QED BY <2>2, <2>3, <2>4 DEF m
<1>10. \/ k \in TwoDataKinds \/ k \in OneDataKinds \cup {"MtcQuarterFrame", "SongSelect"}
       \/ k = "PitchBend" \/ k = "SongPositionPointer" \/ k \in NoDataKinds
  BY <1>2 DEF Kinds, ChannelKinds, SystemKinds
<1> QED BY <1>5, <1>6, <1>7, <1>8, <1>9, <1>10

LEMMA ClampedIsByte ==
  ASSUME NEW d \in Int
  PROVE  Clamped(d) \in Byte
BY DEF Clamped, Byte

\* An error's first byte is a status byte and the others are bytes.
StatusFirst(e) == /\ IsError(e)
                  /\ \A j \in DOMAIN e.bytes : e.bytes[j] \in Byte
                  /\ e.bytes[1] > \h7F

LEMMA ChannelOobIs ==
  ASSUME NEW s \in \h80..\hFF, NEW c \in Byte
  PROVE  StatusFirst(ChannelOob(s, c))
BY DEF StatusFirst, ChannelOob, ErrorEvent, IsError, Byte

LEMMA DataOobIs ==
  ASSUME NEW s \in \h80..\hFF, NEW data \in Seq(Int)
  PROVE  StatusFirst(DataOob(s, data))
<1> DEFINE rest == [i \in DOMAIN data |-> Clamped(data[i])]
           b    == <<s>> \o rest
<1>1. rest \in Seq(Byte)
  <2>1. \A i \in 1..Len(data) : Clamped(data[i]) \in Byte
    BY ClampedIsByte
  <2> QED BY <2>1
<1>2. s \in Byte /\ s > \h7F
  BY DEF Byte
<1> HIDE DEF rest
<1>3. b \in Seq(Byte) /\ b[1] = s
  BY <1>1, <1>2
<1>4. DataOob(s, data) = ErrorEvent("DataByteOutOfRange", b)
  BY DEF DataOob, rest
<1> HIDE DEF b
<1>5. \A j \in DOMAIN b : b[j] \in Byte
  BY <1>3
<1> QED BY <1>2, <1>3, <1>4, <1>5 DEF StatusFirst, IsError, ErrorEvent

LEMMA FromEventIs ==
  ASSUME NEW ev \in SmallEvent, ev.type \in PlainTypes
  PROVE  \/ /\ (OfChannel(ev.type) => ev.channel \in Channel) /\ FieldsFit(ev)
            /\ MessageFromEvent(ev) = MessageEvent(MessageOf(ev))
         \/ /\ ~((OfChannel(ev.type) => ev.channel \in Channel) /\ FieldsFit(ev))
            /\ StatusFirst(MessageFromEvent(ev))
<1>1. /\ ev.channel \in Byte /\ ev.param \in Int /\ ev.value \in Int
      /\ OfChannel(ev.type) \/ ev.channel = 0
  BY SmallEventIs
<1>2. /\ StatusOf[ev.type] \in \h80..\hFF
      /\ ev.type \notin ControlTypes
  BY NamedIs
<1>3. CASE OfChannel(ev.type) /\ ev.channel \notin Channel
  <2>1. MessageFromEvent(ev) = ChannelOob(StatusOf[ev.type], ev.channel)
    BY <1>3 DEF MessageFromEvent
  <2> QED BY <1>1, <1>2, <1>3, <2>1, ChannelOobIs
<1>4. CASE (OfChannel(ev.type) => ev.channel \in Channel) /\ ~FieldsFit(ev)
  <2>1. MessageFromEvent(ev) = DataOob(StatusOf[ev.type] + ev.channel, Fields(ev))
    BY <1>4 DEF MessageFromEvent
  <2>2. Fields(ev) \in Seq(Int)
    BY <1>1 DEF Fields
  <2>3. StatusOf[ev.type] + ev.channel \in \h80..\hFF
    <3>1. CASE OfChannel(ev.type)
      <4>1. ev.channel \in 0..15
        BY <1>4, <3>1 DEF Channel
      <4>2. StatusOf[ev.type] < \hF0
        BY <1>2, <3>1 DEF OfChannel
      <4> QED BY <1>2, <4>1, <4>2
    <3>2. CASE ~OfChannel(ev.type)
      <4>1. ev.channel = 0
        BY <1>1, <3>2
      <4> QED BY <1>2, <4>1
    <3> QED BY <3>1, <3>2
  <2>4. StatusFirst(MessageFromEvent(ev))
    BY <2>1, <2>2, <2>3, DataOobIs
  <2> QED BY <1>4, <2>4
<1>5. CASE (OfChannel(ev.type) => ev.channel \in Channel) /\ FieldsFit(ev)
  <2>1. MessageFromEvent(ev) = MessageEvent(MessageOf(ev))
    BY <1>5 DEF MessageFromEvent
  <2> QED BY <1>5, <2>1
<1> QED BY <1>3, <1>4, <1>5, Zenon

\* What an accepted event is when it is coded again.
LEMMA AcceptedRecodes ==
  ASSUME NEW ev \in SmallEvent, ev.type \in PlainTypes,
         MessageOf(ev) \in MidiMessage,
         ~(ev.type = "Noteon" /\ ev.value = 0)
  PROVE  Coded(Encode(MessageOf(ev))) = ev
<1> DEFINE t == ev.type
           m == MessageOf(ev)
           data == IF t = "Pitchbend" THEN <<ev.value + Center>> ELSE Fields(ev)
<1>1. m = Message(Named[t], ev.channel, data)
  BY MessageOfIs
<1>2. m.kind = Named[t] /\ m.channel = ev.channel /\ m.data = data
  BY <1>1 DEF Message
<1>3. Coded(Encode(m)) = SeqEvent(t, ev.channel, ParamFor(m), ValueFor(m))
  <2>1. Coded(Encode(m)) = SeqEvent(t, m.channel, ParamFor(m), ValueFor(m))
    BY <1>2, CodedIs
  <2> QED BY <1>2, <2>1
<1>4. /\ t \in PairTypes <=> m.kind \in TwoDataKinds
      /\ StatusOf[t] > \hF3 <=> m.kind \in NoDataKinds
      /\ t = "Pitchbend" <=> m.kind = "PitchBend"
      /\ t \notin ControlTypes
  BY <1>2, NamedIs
<1>5. /\ ev.value \in Int
      /\ t \in PairTypes \/ ev.param = 0
      /\ Fields(ev) # <<>> \/ ev.value = 0
      /\ ev = SeqEvent(t, ev.channel, ev.param, ev.value)
  BY <1>4, SmallEventIs
<1> HIDE DEF m
<1>6. /\ Fields(ev) = IF m.kind \in TwoDataKinds THEN <<ev.param, ev.value>>
                      ELSE IF m.kind \in NoDataKinds THEN <<>> ELSE <<ev.value>>
  BY <1>4 DEF Fields
<1>7. ParamFor(m) = ev.param /\ ValueFor(m) = ev.value
  <2>1. CASE m.kind \in TwoDataKinds
    <3>1. t # "Pitchbend"
      BY <1>4, <2>1 DEF TwoDataKinds
    <3>2. m.data = <<ev.param, ev.value>>
      BY <1>2, <1>6, <2>1, <3>1
    <3> QED BY <2>1, <3>2 DEF ParamFor, ValueFor
  <2>2. CASE m.kind \in NoDataKinds
    <3>1. m.kind \notin TwoDataKinds
      BY <2>2 DEF TwoDataKinds, NoDataKinds
    <3>2. ev.param = 0 /\ ev.value = 0
      BY <1>4, <1>5, <1>6, <2>2, <3>1
    <3> QED BY <2>2, <3>1, <3>2 DEF ParamFor, ValueFor
  <2>3. CASE m.kind \notin TwoDataKinds \cup NoDataKinds /\ m.kind # "PitchBend"
    <3>1. m.data = <<ev.value>> /\ ev.param = 0
      BY <1>2, <1>4, <1>5, <1>6, <2>3
    <3> QED BY <2>3, <3>1 DEF ParamFor, ValueFor
  <2>4. CASE m.kind = "PitchBend"
    <3>1. m.kind \notin TwoDataKinds /\ m.kind \notin NoDataKinds
      BY <2>4 DEF TwoDataKinds, NoDataKinds
    <3>2. m.data = <<ev.value + Center>> /\ ev.param = 0
      BY <1>2, <1>4, <1>5, <2>4, <3>1
    <3>3. (ev.value + Center) - Center = ev.value
      BY <1>5, CenterIs
    <3> QED BY <2>4, <3>1, <3>2, <3>3 DEF ParamFor, ValueFor
  <2> QED BY <2>1, <2>2, <2>3, <2>4
<1> QED BY <1>3, <1>5, <1>7 DEF m

LEMMA EventKeptOrRefusedReached == Reached => EventKeptOrRefused
<1> SUFFICES ASSUME Reached, NEW i \in DOMAIN event, NEW ev, ev = event[i],
                    ev.type \in PlainTypes, NEW e, e = MessageFromEvent(ev)
             PROVE  IF IsError(e)
                    THEN /\ MessageOf(ev) \notin MidiMessage
                         /\ \A j \in DOMAIN e.bytes : e.bytes[j] \in Byte
                         /\ e.bytes[1] > \h7F
                    ELSE /\ e.msg \in MidiMessage
                         /\ \/ Coded(Encode(e.msg)) = ev
                            \/ ev.type = "Noteon" /\ ev.value = 0
                               /\ e.msg.data = <<ev.param, 0>>
  BY DEF EventKeptOrRefused
<1>1. ev \in SmallEvent
  BY DEF Reached, EventOK
<1>2. MessageOf(ev) \in MidiMessage <=>
        (OfChannel(ev.type) => ev.channel \in Channel) /\ FieldsFit(ev)
  BY <1>1, SmallEventIs, AcceptedIsMessage
<1>3. CASE (OfChannel(ev.type) => ev.channel \in Channel) /\ FieldsFit(ev)
  <2>1. e = MessageEvent(MessageOf(ev)) /\ MessageOf(ev) \in MidiMessage
    BY <1>1, <1>2, <1>3, FromEventIs
  <2>2. ~IsError(e) /\ e.msg = MessageOf(ev)
    BY <2>1 DEF IsError, MessageEvent
  <2>3. CASE ev.type = "Noteon" /\ ev.value = 0
    <3>1. MessageOf(ev) = Message("NoteOff", ev.channel, Fields(ev))
      BY <2>3, MessageOfIs
    <3>2. Fields(ev) = <<ev.param, 0>>
      BY <2>3 DEF Fields, PairTypes, NoteTypes
    <3>3. MessageOf(ev).data = <<ev.param, 0>>
      BY <3>1, <3>2 DEF Message
    <3> QED BY <2>1, <2>2, <2>3, <3>3
  <2>4. CASE ~(ev.type = "Noteon" /\ ev.value = 0)
    BY <1>1, <2>1, <2>2, <2>4, AcceptedRecodes
  <2> QED BY <2>3, <2>4
<1>4. CASE ~((OfChannel(ev.type) => ev.channel \in Channel) /\ FieldsFit(ev))
  <2>1. StatusFirst(e) /\ MessageOf(ev) \notin MidiMessage
    BY <1>1, <1>2, <1>4, FromEventIs
  <2> QED BY <2>1 DEF StatusFirst
<1> QED BY <1>3, <1>4

\* An event becomes a message only if that stands for the event and no other,
\* and otherwise an error with a status byte and bytes (alsa.rs
\* message_from_event, channel_oob, data_oob).
THEOREM EventKeptOrRefusedAlways == Spec => []EventKeptOrRefused
BY ReachedAlways, EventKeptOrRefusedReached, PTL

\* A control change that is routed is what its bytes decode to.
Routable(e, c, controller, value) ==
  /\ e.type = "Message" /\ e.msg.channel = c
  /\ e.msg.data[1] = controller /\ e.msg.data[2] = value
  /\ Decode(Encode(e.msg)) = e

LEMMA ControlChangeIs ==
  ASSUME NEW c \in Channel, NEW n \in DataByte, NEW v \in DataByte
  PROVE  Routable(ControlChange(c, n, v), c, n, v)
<1> DEFINE m == Message("ControlChange", c, <<n, v>>)
<1>1. m \in MidiMessage /\ m.kind = "ControlChange" /\ m.channel = c /\ m.data = <<n, v>>
  BY DEF MidiMessage, Message, TwoDataKinds
<1>2. Canonical(m) = m
  BY <1>1 DEF Canonical
<1> HIDE DEF m
<1>3. Decode(Encode(m)) = MessageEvent(m)
  BY <1>1, <1>2, EncodedDecodesTo
<1>4. ControlChange(c, n, v) = MessageEvent(m)
  BY DEF ControlChange, m
<1> QED BY <1>1, <1>3, <1>4 DEF Routable, MessageEvent

\* With one message for a controller, its value is what is received.
LEMMA ReceivesIs ==
  ASSUME NEW out, NEW i \in DOMAIN out, i \in Int, NEW n, out[i].msg.data[1] = n,
         \A j \in DOMAIN out : out[j].msg.data[1] = n => j = i
  PROVE  Receives(out, n) = out[i].msg.data[2]
<1>1. {j \in DOMAIN out : out[j].msg.data[1] = n} = {i}
  OBVIOUS
<1>2. (CHOOSE k \in {i} : \A j \in {i} : j <= k) = i
  OBVIOUS
<1> QED BY <1>1, <1>2 DEF Receives

UpTo(max) == 0..max
Max14     == 128 * 128 - 1

LEMMA Max14Is == \h3FFF = Max14
BY DEF Max14

\* An event that is refused, and what is left of the others.
Refused(ev, out, max) ==
  /\ Len(out) = 1 /\ IsError(out[1])
  /\ ev.channel \notin Channel \/ ev.value \notin Value14 \/ ev.param > max

LEMMA CheckedIs ==
  ASSUME NEW ev \in SmallEvent, NEW max \in Nat, NEW messages, NEW out,
         out = Checked(ev, max, messages)
  PROVE  \/ Refused(ev, out, max)
         \/ /\ out = messages /\ ev.channel \in Channel /\ ev.value \in Value14
            /\ ev.param \in UpTo(max)
<1>1. ev.param \in Nat
  BY SmallEventIs
<1>2. CASE ev.channel \notin Channel
  BY <1>2 DEF Refused, Checked, ChannelOob, ErrorEvent, IsError
<1>3. CASE ev.channel \in Channel /\ (ev.param > max \/ ev.value \notin Value14)
  BY <1>3 DEF Refused, Checked, DataOob, ErrorEvent, IsError
<1>4. CASE ev.channel \in Channel /\ ~(ev.param > max) /\ ev.value \in Value14
  <2> DEFINE p == ev.param
  <2>1. p \in Nat /\ ~(p > max)
    BY <1>1, <1>4
  <2> HIDE DEF p
  <2>2. p \in UpTo(max)
    BY <2>1 DEF UpTo
  <2>3. out = messages
    BY <1>4 DEF Checked
  <2> QED BY <1>4, <2>2, <2>3 DEF p
<1> QED BY <1>2, <1>3, <1>4

\* What a receiver has of the messages.
Kept(out, ev) == \A j \in DOMAIN out : /\ out[j].type = "Message"
                                       /\ Decode(Encode(out[j].msg)) = out[j]
                                       /\ out[j].msg.channel = ev.channel
Whole(out, msb, lsb) == From14(Receives(out, msb), Receives(out, lsb))

\* What is made of an event that is not refused.
PairOf(ev) == <<ControlChange(ev.channel, ev.param, ev.value \div 128),
                ControlChange(ev.channel, ev.param + 32, ev.value % 128)>>
ParamOf(ev, s) == <<ControlChange(ev.channel, s[1], ev.param \div 128),
                    ControlChange(ev.channel, s[2], ev.param % 128),
                    ControlChange(ev.channel, 6, ev.value \div 128),
                    ControlChange(ev.channel, 38, ev.value % 128)>>

LEMMA PairArrives ==
  ASSUME NEW ev \in SmallEvent, ev.channel \in Channel, ev.value \in Value14,
         ev.param \in UpTo(31), NEW out, out = PairOf(ev)
  PROVE  Kept(out, ev) /\ Whole(out, ev.param, ev.param + 32) = ev.value
<1> DEFINE n == ev.param
           hi == ev.value \div 128
           lo == ev.value % 128
           c == ev.channel
<1>1. /\ n \in DataByte /\ n + 32 \in DataByte /\ n # n + 32
      /\ hi \in DataByte /\ lo \in DataByte /\ From14(hi, lo) = ev.value
  <2>1. n \in DataByte /\ n + 32 \in DataByte /\ n # n + 32
    <3>1. \A p : p \in UpTo(31) => p \in DataByte /\ p + 32 \in DataByte /\ p # p + 32
      BY DEF DataByte, UpTo
    <3> QED BY <3>1
  <2> QED BY <2>1, Split14
<1>2. /\ out = <<ControlChange(c, n, hi), ControlChange(c, n + 32, lo)>>
      /\ c \in Channel
  BY DEF PairOf
<1> HIDE DEF n, hi, lo, c
<1>3. /\ DOMAIN out = 1..2
      /\ Routable(out[1], c, n, hi) /\ Routable(out[2], c, n + 32, lo)
  BY <1>1, <1>2, ControlChangeIs
<1>4. Kept(out, ev)
  BY <1>3 DEF Kept, Routable, c
<1>5. Receives(out, n) = hi
  <2>1. \A j \in DOMAIN out : out[j].msg.data[1] = n => j = 1
    BY <1>1, <1>3 DEF Routable
  <2>2. 1 \in DOMAIN out /\ 1 \in Int /\ out[1].msg.data[1] = n
    BY <1>3 DEF Routable
  <2>3. Receives(out, n) = out[1].msg.data[2]
    BY <2>1, <2>2, ReceivesIs, ZenonT(60)
  <2> QED BY <1>3, <2>3, ZenonT(60) DEF Routable
<1>6. Receives(out, n + 32) = lo
  <2>1. \A j \in DOMAIN out : out[j].msg.data[1] = n + 32 => j = 2
    BY <1>1, <1>3 DEF Routable
  <2>2. 2 \in DOMAIN out /\ 2 \in Int /\ out[2].msg.data[1] = n + 32
    BY <1>3 DEF Routable
  <2>3. Receives(out, n + 32) = out[2].msg.data[2]
    BY <2>1, <2>2, ReceivesIs, ZenonT(60)
  <2> QED BY <1>3, <2>3, ZenonT(60) DEF Routable
<1> QED BY <1>1, <1>4, <1>5, <1>6 DEF Whole, n

SelectedFirst(out, s) ==
  LET entry == CHOOSE j \in DOMAIN out : out[j].msg.data[1] = 6
  IN \A k \in 1..2 : \E j \in 1..entry - 1 : out[j].msg.data[1] = s[k]

\* Of four messages for four controllers each is received.
LEMMA FourReceived ==
  ASSUME NEW out, DOMAIN out = 1..4, NEW a, NEW b, NEW c, NEW d,
         out[1].msg.data[1] = a, out[2].msg.data[1] = b,
         out[3].msg.data[1] = c, out[4].msg.data[1] = d,
         a # b, a # c, a # d, b # c, b # d, c # d
  PROVE  /\ Receives(out, a) = out[1].msg.data[2]
         /\ Receives(out, b) = out[2].msg.data[2]
         /\ Receives(out, c) = out[3].msg.data[2]
         /\ Receives(out, d) = out[4].msg.data[2]
         /\ (CHOOSE j \in DOMAIN out : out[j].msg.data[1] = c) = 3
<1>1. /\ \A j \in DOMAIN out : j = 1 \/ j = 2 \/ j = 3 \/ j = 4
      /\ 1 \in DOMAIN out /\ 2 \in DOMAIN out /\ 3 \in DOMAIN out /\ 4 \in DOMAIN out
  OBVIOUS
<1>2. \A j \in DOMAIN out : out[j].msg.data[1] = a => j = 1
  BY <1>1, Zenon
<1>3. \A j \in DOMAIN out : out[j].msg.data[1] = b => j = 2
  BY <1>1, Zenon
<1>4. \A j \in DOMAIN out : out[j].msg.data[1] = c => j = 3
  BY <1>1, Zenon
<1>5. \A j \in DOMAIN out : out[j].msg.data[1] = d => j = 4
  BY <1>1, Zenon
<1>6. Receives(out, a) = out[1].msg.data[2]
  BY <1>1, <1>2, ReceivesIs
<1>7. Receives(out, b) = out[2].msg.data[2]
  BY <1>1, <1>3, ReceivesIs
<1>8. Receives(out, c) = out[3].msg.data[2]
  BY <1>1, <1>4, ReceivesIs
<1>9. Receives(out, d) = out[4].msg.data[2]
  BY <1>1, <1>5, ReceivesIs
<1>10. (CHOOSE j \in DOMAIN out : out[j].msg.data[1] = c) = 3
  BY <1>1, <1>4
<1> QED BY <1>6, <1>7, <1>8, <1>9, <1>10

LEMMA ParamArrives ==
  ASSUME NEW ev \in SmallEvent, ev.channel \in Channel, ev.value \in Value14,
         ev.param \in Value14, NEW s \in DataByte \X DataByte,
         s[1] # s[2], s[1] \notin {6, 38}, s[2] \notin {6, 38}, NEW out,
         out = ParamOf(ev, s)
  PROVE  /\ Kept(out, ev)
         /\ Whole(out, 6, 38) = ev.value
         /\ SelectedFirst(out, s)
         /\ Whole(out, s[1], s[2]) = ev.param
<1> DEFINE a == s[1]
           b == s[2]
           phi == ev.param \div 128
           plo == ev.param % 128
           vhi == ev.value \div 128
           vlo == ev.value % 128
           c == ev.channel
<1>1. /\ a \in DataByte /\ b \in DataByte /\ 6 \in DataByte /\ 38 \in DataByte
      /\ a # b /\ a # 6 /\ a # 38 /\ b # 6 /\ b # 38
      /\ vhi \in DataByte /\ vlo \in DataByte /\ From14(vhi, vlo) = ev.value
      /\ phi \in DataByte /\ plo \in DataByte /\ From14(phi, plo) = ev.param
  <2>1. 6 \in DataByte /\ 38 \in DataByte
    BY DEF DataByte
  <2>2. a \in DataByte /\ b \in DataByte /\ a # b /\ a # 6 /\ a # 38 /\ b # 6 /\ b # 38
    OBVIOUS
  <2>3. vhi \in DataByte /\ vlo \in DataByte /\ From14(vhi, vlo) = ev.value
    BY Split14
  <2>4. phi \in DataByte /\ plo \in DataByte /\ From14(phi, plo) = ev.param
    BY Split14
  <2> QED BY <2>1, <2>2, <2>3, <2>4
<1>2. /\ out = <<ControlChange(c, a, phi), ControlChange(c, b, plo),
                 ControlChange(c, 6, vhi), ControlChange(c, 38, vlo)>>
      /\ c \in Channel
  BY DEF ParamOf
<1> HIDE DEF a, b, phi, plo, vhi, vlo, c
<1>3. /\ DOMAIN out = 1..4
      /\ Routable(out[1], c, a, phi) /\ Routable(out[2], c, b, plo)
      /\ Routable(out[3], c, 6, vhi) /\ Routable(out[4], c, 38, vlo)
  <2>1. /\ Routable(ControlChange(c, a, phi), c, a, phi)
        /\ Routable(ControlChange(c, b, plo), c, b, plo)
        /\ Routable(ControlChange(c, 6, vhi), c, 6, vhi)
        /\ Routable(ControlChange(c, 38, vlo), c, 38, vlo)
    BY <1>1, <1>2, ControlChangeIs
  <2>2. /\ DOMAIN out = 1..4
        /\ out[1] = ControlChange(c, a, phi) /\ out[2] = ControlChange(c, b, plo)
        /\ out[3] = ControlChange(c, 6, vhi) /\ out[4] = ControlChange(c, 38, vlo)
    BY <1>2
  <2> QED BY <2>1, <2>2
<1>4. /\ \A j \in DOMAIN out : j = 1 \/ j = 2 \/ j = 3 \/ j = 4
      /\ out[1].msg.data[1] = a /\ out[1].msg.data[2] = phi
      /\ out[2].msg.data[1] = b /\ out[2].msg.data[2] = plo
      /\ out[3].msg.data[1] = 6 /\ out[3].msg.data[2] = vhi
      /\ out[4].msg.data[1] = 38 /\ out[4].msg.data[2] = vlo
  <2>1. \A j \in DOMAIN out : j = 1 \/ j = 2 \/ j = 3 \/ j = 4
    BY <1>3
  <2>2. out[1].msg.data[1] = a /\ out[1].msg.data[2] = phi
    BY <1>3, ZenonT(60) DEF Routable
  <2>3. out[2].msg.data[1] = b /\ out[2].msg.data[2] = plo
    BY <1>3, ZenonT(60) DEF Routable
  <2>4. out[3].msg.data[1] = 6 /\ out[3].msg.data[2] = vhi
    BY <1>3, ZenonT(60) DEF Routable
  <2>5. out[4].msg.data[1] = 38 /\ out[4].msg.data[2] = vlo
    BY <1>3, ZenonT(60) DEF Routable
  <2> QED BY <2>1, <2>2, <2>3, <2>4, <2>5
<1>5. Kept(out, ev)
  <2> SUFFICES ASSUME NEW j \in DOMAIN out
               PROVE  /\ out[j].type = "Message"
                      /\ Decode(Encode(out[j].msg)) = out[j]
                      /\ out[j].msg.channel = ev.channel
    BY DEF Kept
  <2>1. \E n, v : Routable(out[j], c, n, v)
    BY <1>3, <1>4
  <2> QED BY <2>1 DEF Routable, c
<1>6. /\ Receives(out, a) = phi /\ Receives(out, b) = plo
      /\ Receives(out, 6) = vhi /\ Receives(out, 38) = vlo
      /\ (CHOOSE j \in DOMAIN out : out[j].msg.data[1] = 6) = 3
  <2> DEFINE msb == 6
             lsb == 38
  <2>1. DOMAIN out = 1..4 /\ msb # lsb
    BY <1>3
  <2>2. /\ a # b /\ a # msb /\ a # lsb /\ b # msb /\ b # lsb
        /\ out[1].msg.data[1] = a /\ out[2].msg.data[1] = b
        /\ out[3].msg.data[1] = msb /\ out[4].msg.data[1] = lsb
    BY <1>1, <1>4
  <2> HIDE DEF msb, lsb
  <2>3. /\ Receives(out, a) = out[1].msg.data[2] /\ Receives(out, b) = out[2].msg.data[2]
        /\ Receives(out, msb) = out[3].msg.data[2] /\ Receives(out, lsb) = out[4].msg.data[2]
        /\ (CHOOSE j \in DOMAIN out : out[j].msg.data[1] = msb) = 3
    BY <2>1, <2>2, FourReceived
  <2> QED BY <1>4, <2>3 DEF msb, lsb
<1>7. Whole(out, 6, 38) = ev.value /\ Whole(out, s[1], s[2]) = ev.param
  BY <1>1, <1>6, ZenonT(60) DEF Whole, a, b
<1>8. \A k \in 1..2 : \E j \in 1..2 : out[j].msg.data[1] = s[k]
  BY <1>4 DEF a, b
<1>9. SelectedFirst(out, s)
  <2> DEFINE entry == CHOOSE j \in DOMAIN out : out[j].msg.data[1] = 6
  <2>1. entry = 3
    BY <1>6
  <2>2. SelectedFirst(out, s) <=>
          \A k \in 1..2 : \E j \in 1..entry - 1 : out[j].msg.data[1] = s[k]
    BY DEF SelectedFirst
  <2> HIDE DEF entry
  <2>3. 1..entry - 1 = 1..2
    BY <2>1
  <2> QED BY <1>8, <2>2, <2>3, ZenonT(60)
<1> QED BY <1>5, <1>7, <1>9

PairKept(ev, out)     == Whole(out, ev.param, ev.param + 32) = ev.value
ParamKept(ev, out, s) == /\ Whole(out, 6, 38) = ev.value
                         /\ SelectedFirst(out, s)
                         /\ Whole(out, s[1], s[2]) = ev.param
Arrives(ev, out) ==
  \/ Refused(ev, out, IF ev.type = "Control14" THEN 31 ELSE Max14)
  \/ Kept(out, ev) /\ IF ev.type = "Control14" THEN PairKept(ev, out)
                      ELSE ParamKept(ev, out, Selectors[ev.type])

LEMMA RoutedArrives ==
  ASSUME NEW ev \in SmallEvent, ev.type \in ControlTypes, NEW out, out = Routed(ev)
  PROVE  Arrives(ev, out)
<1>1. CASE ev.type = "Control14"
  <2> DEFINE messages == PairOf(ev)
  <2>1. out = Checked(ev, 31, messages)
    BY <1>1 DEF Routed, Control14ToCcPair, PairOf
  <2>2. /\ out = messages /\ ev.channel \in Channel /\ ev.value \in Value14
        /\ ev.param \in UpTo(31)
        => Kept(out, ev) /\ PairKept(ev, out)
    BY PairArrives DEF PairKept
  <2> HIDE DEF messages
  <2>3. 31 \in Nat
    OBVIOUS
  <2>4. CASE Refused(ev, out, 31)
    BY <1>1, <2>4 DEF Arrives
  <2>5. CASE /\ out = messages /\ ev.channel \in Channel /\ ev.value \in Value14
             /\ ev.param \in UpTo(31)
    <3>1. Kept(out, ev) /\ PairKept(ev, out)
      BY <2>2, <2>5, Zenon
    <3> QED BY <1>1, <3>1 DEF Arrives
  <2>6. \/ Refused(ev, out, 31)
        \/ /\ out = messages /\ ev.channel \in Channel /\ ev.value \in Value14
           /\ ev.param \in UpTo(31)
    BY <2>1, <2>3, CheckedIs
  <2> QED BY <2>4, <2>5, <2>6
<1>2. CASE ev.type # "Control14"
  <2> DEFINE s == Selectors[ev.type]
             messages == ParamOf(ev, s)
  <2>1. /\ s \in DataByte \X DataByte /\ s[1] # s[2]
        /\ s[1] \notin {6, 38} /\ s[2] \notin {6, 38}
        /\ out = ParamCcMessages(ev, s)
    BY <1>2 DEF ControlTypes, ParamTypes, Selectors, DataByte, Routed
  <2> HIDE DEF s
  <2>2. out = Checked(ev, Max14, messages)
    BY <2>1, Max14Is DEF ParamCcMessages, ParamOf
  <2>3. /\ out = messages /\ ev.channel \in Channel /\ ev.value \in Value14
        /\ ev.param \in Value14
        => Kept(out, ev) /\ ParamKept(ev, out, s)
    BY <2>1, ParamArrives DEF ParamKept
  <2> HIDE DEF messages
  <2>4. /\ Max14 \in Nat
        /\ \A p : p \in UpTo(Max14) => p \in Value14
    <3>1. Max14 \in Nat /\ \A p \in Int : p <= Max14 => p < 128 * 128
      BY DEF Max14
    <3> QED BY <3>1, Value14Is DEF UpTo
  <2>5. CASE Refused(ev, out, Max14)
    BY <1>2, <2>5 DEF Arrives
  <2>6. CASE out = messages /\ ev.channel \in Channel /\ ev.value \in Value14
             /\ ev.param \in UpTo(Max14)
    <3>1. ev.param \in Value14
      BY <2>4, <2>6
    <3>2. Kept(out, ev) /\ ParamKept(ev, out, s)
      BY <2>3, <2>6, <3>1, Zenon
    <3> QED BY <1>2, <3>2 DEF Arrives, s
  <2> QED BY <2>2, <2>4, <2>5, <2>6, CheckedIs, Zenon
<1> QED BY <1>1, <1>2

LEMMA FourteenBitsArriveReached == Reached => FourteenBitsArrive
<1> SUFFICES ASSUME Reached PROVE FourteenBitsArrive
  OBVIOUS
<1>1. ASSUME NEW i \in DOMAIN event, event[i].type \in ControlTypes
      PROVE  Arrives(event[i], Routed(event[i]))
  <2>1. event[i] \in SmallEvent
    BY DEF Reached, EventOK
  <2> QED BY <1>1, <2>1, RoutedArrives
<1> QED BY <1>1, Max14Is DEF FourteenBitsArrive, Arrives, Refused, Kept, PairKept, ParamKept,
            Whole, SelectedFirst

\* A 14-bit value arrives whole or its refusal is told, once (alsa.rs
\* control14_to_cc_pair, param_cc_messages).
THEOREM FourteenBitsArriveAlways == Spec => []FourteenBitsArrive
BY ReachedAlways, FourteenBitsArriveReached, PTL

=============================================================================
