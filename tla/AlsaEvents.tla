----------------------------- MODULE AlsaEvents -----------------------------
(***************************************************************************)
(* platform/alsa.rs: what the backend makes of the sequencer's typed       *)
(* events, and, from how it is used, what ALSA's coder makes of a message  *)
(* that is sent.  Both are functions of their arguments.                   *)
(*                                                                         *)
(* An event is a record: its type, channel, parameter and value; a note    *)
(* event has the note in "param" and the velocity in "value".  Fields are  *)
(* wider than MIDI's: a channel is a u8, so are note and velocity, a       *)
(* parameter is a u32 and a value an i32.  A field that a type does not    *)
(* use is 0.                                                               *)
(***************************************************************************)
EXTENDS Codec

SeqEvent(type, c, p, v) == [type |-> type, channel |-> c, param |-> p, value |-> v]

\* The first byte of the message that an event of the type stands for.
StatusOf == [Noteoff |-> \h80, Noteon |-> \h90, Keypress |-> \hA0, Controller |-> \hB0,
             Pgmchange |-> \hC0, Chanpress |-> \hD0, Pitchbend |-> \hE0,
             Qframe |-> \hF1, Songpos |-> \hF2, Songsel |-> \hF3, TuneRequest |-> \hF6,
             Clock |-> \hF8, Start |-> \hFA, Continue |-> \hFB, Stop |-> \hFC,
             Sensing |-> \hFE, Reset |-> \hFF]

PlainTypes   == DOMAIN StatusOf
ParamTypes   == {"Nonregparam", "Regparam"}
ControlTypes == {"Control14"} \cup ParamTypes
NoteTypes    == {"Noteoff", "Noteon", "Keypress"}
PairTypes    == NoteTypes \cup {"Controller"}     \* both fields count
OfChannel(type) == type \in ControlTypes \/ StatusOf[type] < \hF0

Center == 8192              \* PITCH_BEND_CENTER

-----------------------------------------------------------------------------
(* Errors keep what can be kept of the fields.                             *)

Clamped(d) == IF d < 0 THEN 0 ELSE IF d > \hFF THEN \hFF ELSE d

ChannelOob(base, c)   == ErrorEvent("ChannelOutOfRange", <<base, c>>)
DataOob(status, data) ==
  ErrorEvent("DataByteOutOfRange", <<status>> \o [i \in DOMAIN data |-> Clamped(data[i])])

-----------------------------------------------------------------------------
(* message_from_event and note_message.                                    *)

Fields(ev) == IF ev.type \in PairTypes THEN <<ev.param, ev.value>>
              ELSE IF StatusOf[ev.type] > \hF3 THEN <<>>
              ELSE <<ev.value>>

\* The values a message can carry.
FieldsFit(ev) ==
  LET values == IF ev.type = "Pitchbend" THEN -Center..Center - 1
                ELSE IF ev.type = "Songpos" THEN Value14
                ELSE DataByte
  IN \A i \in DOMAIN Fields(ev) : Fields(ev)[i] \in values

\* A note-on of velocity 0 is a note-off; a pitch bend is signed.
MessageOf(ev) ==
  LET status == IF ev.type = "Noteon" /\ ev.value = 0 THEN \h80 ELSE StatusOf[ev.type]
      kind   == CHOOSE k \in ChannelKinds \cup NoDataKinds \cup
                      {"MtcQuarterFrame", "SongPositionPointer", "SongSelect"} :
                   StatusByte(k) = status
  IN Message(kind, ev.channel,
             IF ev.type = "Pitchbend" THEN <<ev.value + Center>> ELSE Fields(ev))

\* Slip: a note-on is a note-on.
MessageFromEventNoteOn(ev) ==
  IF OfChannel(ev.type) /\ ev.channel \notin Channel
  THEN ChannelOob(StatusOf[ev.type], ev.channel)
  ELSE IF ~FieldsFit(ev) THEN DataOob(StatusOf[ev.type] + ev.channel, Fields(ev))
  ELSE IF ev.type = "Noteon"
       THEN MessageEvent(Message("NoteOn", ev.channel, Fields(ev)))
  ELSE MessageEvent(MessageOf(ev))

\* Slip: the fields not looked at when the channel is in range.
MessageFromEventUnchecked(ev) ==
  IF OfChannel(ev.type) /\ ev.channel \notin Channel
  THEN ChannelOob(StatusOf[ev.type], ev.channel)
  ELSE MessageEvent(MessageOf(ev))

MessageFromEvent(ev) ==
  IF OfChannel(ev.type) /\ ev.channel \notin Channel
  THEN ChannelOob(StatusOf[ev.type], ev.channel)
  ELSE IF ~FieldsFit(ev) THEN DataOob(StatusOf[ev.type] + ev.channel, Fields(ev))
  ELSE MessageEvent(MessageOf(ev))

-----------------------------------------------------------------------------
(* One event for a 14-bit controller or parameter is several messages.     *)

ControlChange(c, controller, value) ==
  MessageEvent(Message("ControlChange", c, <<controller, value>>))

\* The messages, unless the channel, the parameter or the value is too large.
Checked(ev, maxParam, messages) ==
  IF ev.channel \notin Channel THEN <<ChannelOob(\hB0, ev.channel)>>
  ELSE IF ev.param > maxParam \/ ev.value \notin Value14
       THEN <<DataOob(\hB0 + ev.channel, <<ev.param, ev.value>>)>>
  ELSE messages

Control14ToCcPair(ev) ==
  Checked(ev, 31, <<ControlChange(ev.channel, ev.param, ev.value \div 128),
                    ControlChange(ev.channel, ev.param + 32, ev.value % 128)>>)

\* Slip: the data entry before the parameter it is for.
ParamCcMessagesDataFirst(ev, controllers) ==
  LET cc(controller, value) == ControlChange(ev.channel, controller, value)
  IN Checked(ev, \h3FFF, <<cc(6, ev.value \div 128), cc(38, ev.value % 128),
                           cc(controllers[1], ev.param \div 128),
                           cc(controllers[2], ev.param % 128)>>)

ParamCcMessages(ev, controllers) ==
  LET cc(controller, value) == ControlChange(ev.channel, controller, value)
  IN Checked(ev, \h3FFF, <<cc(controllers[1], ev.param \div 128),
                           cc(controllers[2], ev.param % 128),
                           cc(6, ev.value \div 128), cc(38, ev.value % 128)>>)

\* What drain_seq_events routes for an event.
Routed(ev) == IF ev.type = "Control14" THEN Control14ToCcPair(ev)
              ELSE IF ev.type = "Nonregparam" THEN ParamCcMessages(ev, <<99, 98>>)
              ELSE IF ev.type = "Regparam" THEN ParamCcMessages(ev, <<101, 100>>)
              ELSE <<MessageFromEvent(ev)>>

-----------------------------------------------------------------------------
(* snd_midi_event_encode, which send_encoded calls with one message.       *)

Coded(bytes) ==
  LET base == IF bytes[1] < \hF0 THEN bytes[1] - (bytes[1] % 16) ELSE bytes[1]
      type == CHOOSE t \in PlainTypes : StatusOf[t] = base
  IN SeqEvent(type,
              bytes[1] - base,
              IF type \in PairTypes THEN bytes[2] ELSE 0,
              IF Len(bytes) = 1 THEN 0
              ELSE IF Len(bytes) = 2 THEN bytes[2]
              ELSE IF type \in PairTypes THEN bytes[3]
              ELSE IF type = "Pitchbend" THEN From14(bytes[3], bytes[2]) - Center
              ELSE From14(bytes[3], bytes[2]))
=============================================================================
