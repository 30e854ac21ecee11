-------------------------------- MODULE Codec --------------------------------
(***************************************************************************)
(* The MIDI codec of src/midi: what one complete message looks like on the *)
(* wire (RawMidiMessage, SysEx::to_wire_bytes) and what a slice of bytes   *)
(* decodes to (decode, SysEx::try_from).  Everything here is a function of *)
(* its arguments; StreamParser and the MC modules build on it.             *)
(*                                                                         *)
(* Bytes are numbers 0..255.  A message is a record: its kind, its channel *)
(* (0 for a system message, which has none) and its data: the data bytes,  *)
(* or the single 14-bit value of PitchBend and SongPositionPointer.        *)
(*                                                                         *)
(* Here and in the other modules a definition under a comment that starts  *)
(* with "Slip" is a wrong variant of the one that follows.  Nothing uses   *)
(* it: put in the place of the right one, it shows that a property notices.*)
(***************************************************************************)
EXTENDS Integers, Sequences

CONSTANT MaxSysexBytes      \* MAX_SYSEX_BYTES, 1 MiB in the code

ASSUME MaxSysexAssumption == MaxSysexBytes \in Nat \ {0}

Byte     == \h00..\hFF
DataByte == \h00..\h7F
Channel  == 0..15
Value14  == 0..\h3FFF       \* PitchBend, SongPosition

TwoDataKinds  == {"NoteOff", "NoteOn", "PolyKeyPressure", "ControlChange"}
OneDataKinds  == {"ProgramChange", "ChannelPressure"}
ChannelKinds  == TwoDataKinds \cup OneDataKinds \cup {"PitchBend"}
NoDataKinds   == {"TuneRequest", "TimingClock", "Start", "Continue", "Stop",
                  "ActiveSensing", "Reset"}

Value14Kinds  == {"PitchBend", "SongPositionPointer"}

MidiMessage ==
       [kind : TwoDataKinds, channel : Channel, data : DataByte \X DataByte]
  \cup [kind : OneDataKinds, channel : Channel, data : {<<d>> : d \in DataByte}]
  \cup [kind : {"PitchBend"}, channel : Channel, data : {<<v>> : v \in Value14}]
  \cup [kind : {"MtcQuarterFrame", "SongSelect"}, channel : {0},
        data : {<<d>> : d \in DataByte}]
  \cup [kind : {"SongPositionPointer"}, channel : {0},
        data : {<<v>> : v \in Value14}]
  \cup [kind : NoDataKinds, channel : {0}, data : {<<>>}]

Message(k, c, d) == [kind |-> k, channel |-> c, data |-> d]

-----------------------------------------------------------------------------
(* Results of decoding; the stream parser emits the same three shapes.     *)

MessageEvent(m)        == [type |-> "Message", msg |-> m]
SysexEvent(body)       == [type |-> "Sysex", body |-> body]
ErrorEvent(why, bytes) == [type |-> "Error", reason |-> why, bytes |-> bytes]
OrphanEvent(len, bytes) ==
  [type |-> "Error", reason |-> "OrphanedData", len |-> len, bytes |-> bytes]

-----------------------------------------------------------------------------
(* Encoding: 0x80 | channel and so on, lsb before msb for 14-bit values.   *)

StatusByte(kind) ==
  IF kind = "NoteOff"                  THEN \h80
  ELSE IF kind = "NoteOn"              THEN \h90
  ELSE IF kind = "PolyKeyPressure"     THEN \hA0
  ELSE IF kind = "ControlChange"       THEN \hB0
  ELSE IF kind = "ProgramChange"       THEN \hC0
  ELSE IF kind = "ChannelPressure"     THEN \hD0
  ELSE IF kind = "PitchBend"           THEN \hE0
  ELSE IF kind = "MtcQuarterFrame"     THEN \hF1
  ELSE IF kind = "SongPositionPointer" THEN \hF2
  ELSE IF kind = "SongSelect"          THEN \hF3
  ELSE IF kind = "TuneRequest"         THEN \hF6
  ELSE IF kind = "TimingClock"         THEN \hF8
  ELSE IF kind = "Start"               THEN \hFA
  ELSE IF kind = "Continue"            THEN \hFB
  ELSE IF kind = "Stop"                THEN \hFC
  ELSE IF kind = "ActiveSensing"       THEN \hFE
  ELSE \hFF                            \* Reset

Encode(m) ==
  <<StatusByte(m.kind) + m.channel>> \o
  (IF m.kind \in Value14Kinds
   THEN <<m.data[1] % 128, m.data[1] \div 128>>
   ELSE m.data)

EncodeSysex(body) == <<\hF0>> \o body \o <<\hF7>>

-----------------------------------------------------------------------------
(* Decoding.                                                               *)

\* Length of the message a status byte starts; 0 stands for None.
ExpectedLen(status) ==
  IF status \in {\hF6, \hF8, \hFA, \hFB, \hFC, \hFE, \hFF} THEN 1
  ELSE IF status \in (\hC0..\hDF) \cup {\hF1, \hF3} THEN 2
  ELSE IF status \in (\h80..\hBF) \cup (\hE0..\hEF) \cup {\hF2} THEN 3
  ELSE 0

\* Data bytes that complete it: expected_len(..).map_or(0, |total| total - 1).
Needed(status) == IF ExpectedLen(status) = 0 THEN 0 ELSE ExpectedLen(status) - 1

\* Slip: the two halves of a 14-bit value exchanged.
From14Swapped(msb, lsb) == 128 * lsb + msb

From14(msb, lsb) == 128 * msb + lsb

\* The kind a status byte with a length starts.  A note-on of velocity 0 is a
\* note-off.
KindOf(bytes) ==
  LET status == bytes[1]
  IN IF status \in \h80..\h8F      THEN "NoteOff"
     ELSE IF status \in \h90..\h9F THEN IF bytes[3] = 0 THEN "NoteOff" ELSE "NoteOn"
     ELSE IF status \in \hA0..\hAF THEN "PolyKeyPressure"
     ELSE IF status \in \hB0..\hBF THEN "ControlChange"
     ELSE IF status \in \hC0..\hCF THEN "ProgramChange"
     ELSE IF status \in \hD0..\hDF THEN "ChannelPressure"
     ELSE IF status \in \hE0..\hEF THEN "PitchBend"
     ELSE IF status = \hF1         THEN "MtcQuarterFrame"
     ELSE IF status = \hF2         THEN "SongPositionPointer"
     ELSE IF status = \hF3         THEN "SongSelect"
     ELSE IF status = \hF6         THEN "TuneRequest"
     ELSE IF status = \hF8         THEN "TimingClock"
     ELSE IF status = \hFA         THEN "Start"
     ELSE IF status = \hFB         THEN "Continue"
     ELSE IF status = \hFC         THEN "Stop"
     ELSE IF status = \hFE         THEN "ActiveSensing"
     ELSE "Reset"

\* A packet of the right length as a message: the low nibble is the channel.
ToMessage(bytes) ==
  LET kind == KindOf(bytes)
  IN Message(kind,
             IF bytes[1] < \hF0 THEN bytes[1] % 16 ELSE 0,
             IF Len(bytes) = 1 THEN <<>>
             ELSE IF Len(bytes) = 2 THEN <<bytes[2]>>
             ELSE IF kind \in Value14Kinds THEN <<From14(bytes[3], bytes[2])>>
             ELSE <<bytes[2], bytes[3]>>)

\* SysEx::try_from and SysEx::new, with sysex_decode_error's reasons.
DecodeSysex(wire) ==
  LET body == SubSeq(wire, 2, Len(wire) - 1)
  IN IF Len(wire) < 2 \/ wire[Len(wire)] # \hF7
     THEN ErrorEvent("UnterminatedSysex", wire)
     ELSE IF body = <<>> THEN ErrorEvent("EmptySysex", wire)
     ELSE IF Len(body) > MaxSysexBytes THEN ErrorEvent("SysexTooLong", <<>>)   \* lengths only
     ELSE IF \E i \in DOMAIN body : body[i] > \h7F
          THEN ErrorEvent("SysexDataOutOfRange", wire)
     ELSE SysexEvent(body)

\* Slip: surplus bytes ignored instead of refused.
DecodeLenient(bytes) ==
  IF bytes = <<>> THEN ErrorEvent("Empty", bytes)
  ELSE LET status == bytes[1]
           len    == ExpectedLen(status)
       IN IF status = \hF0 THEN DecodeSysex(bytes)
          ELSE IF status = \hF7 THEN ErrorEvent("StandaloneSysexEnd", bytes)
          ELSE IF len = 0 THEN ErrorEvent("UnrecognizedStatus", bytes)
          ELSE IF Len(bytes) < len THEN ErrorEvent("Truncated", bytes)
          ELSE IF \E i \in 2..len : bytes[i] > \h7F
               THEN ErrorEvent("DataByteOutOfRange", bytes)
          ELSE MessageEvent(ToMessage(bytes))

Decode(bytes) ==
  IF bytes = <<>> THEN ErrorEvent("Empty", bytes)
  ELSE LET status == bytes[1]
           len    == ExpectedLen(status)
       IN IF status = \hF0 THEN DecodeSysex(bytes)
          ELSE IF status = \hF7 THEN ErrorEvent("StandaloneSysexEnd", bytes)
          ELSE IF len = 0 THEN ErrorEvent("UnrecognizedStatus", bytes)
          ELSE IF Len(bytes) < len THEN ErrorEvent("Truncated", bytes)
          ELSE IF Len(bytes) > len THEN ErrorEvent("TrailingData", bytes)
          ELSE IF \E i \in 2..len : bytes[i] > \h7F
               THEN ErrorEvent("DataByteOutOfRange", bytes)
          ELSE MessageEvent(ToMessage(bytes))

IsError(e) == e.type = "Error"
=============================================================================
