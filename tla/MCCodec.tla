------------------------------- MODULE MCCodec -------------------------------
(***************************************************************************)
(* Drives the codec with every short slice of bytes from a small alphabet, *)
(* with the encoding of every message built from a few data values, and    *)
(* the ALSA conversions with every event built from a few field values.    *)
(***************************************************************************)
EXTENDS AlsaEvents

CONSTANTS Alphabet,       \* bytes the slices are made of
          MaxWire,        \* bound: longest slice
          MCData,         \* data byte values of the encoded messages
          MCValues,       \* 14-bit values of the encoded messages
          MCChannels,     \* channels of the messages and of the sequencer's events
          MCFields        \* values of their other fields

ASSUME BoundsAssumption == /\ Alphabet \subseteq Byte
                           /\ MaxWire \in Nat
                           /\ MCChannels \subseteq Byte
                           /\ MCFields \subseteq Int

VARIABLES wire,           \* the slice given to decode
          sent,           \* <<m>> when wire is the encoding of m, else <<>>
          event           \* <<ev>> when the sequencer delivered ev, else <<>>

vars == <<wire, sent, event>>

SmallMessage ==
  {m \in MidiMessage :
     /\ m.channel \in MCChannels
     /\ \A i \in DOMAIN m.data :
          m.data[i] \in (IF m.kind \in {"PitchBend", "SongPositionPointer"}
                         THEN MCValues ELSE MCData)}

\* The fields a type uses, in their width: what ALSA's structs can hold.
SmallEvent ==
  {ev \in [type : PlainTypes \cup ControlTypes, channel : MCChannels,
           param : MCFields, value : MCFields] :
     /\ ev.type \in NoteTypes => ev.param \in Byte /\ ev.value \in Byte
     /\ ev.param >= 0
     /\ OfChannel(ev.type) \/ ev.channel = 0
     /\ ev.type \in PairTypes \cup ControlTypes \/ ev.param = 0
     /\ ev.type \in ControlTypes \/ Fields(ev) # <<>> \/ ev.value = 0}

Init == wire = <<>> /\ sent = <<>> /\ event = <<>>

Receive == /\ sent = <<>> /\ event = <<>>
           /\ Len(wire) < MaxWire
           /\ \E b \in Alphabet : wire' = Append(wire, b)
           /\ UNCHANGED <<sent, event>>

Send == /\ wire = <<>> /\ sent = <<>> /\ event = <<>>
        /\ \E m \in SmallMessage : wire' = Encode(m) /\ sent' = <<m>>
        /\ UNCHANGED event

Deliver == /\ wire = <<>> /\ sent = <<>> /\ event = <<>>
           /\ \E ev \in SmallEvent : event' = <<ev>>
           /\ UNCHANGED <<wire, sent>>

Next == Receive \/ Send \/ Deliver

Spec == Init /\ [][Next]_vars

-----------------------------------------------------------------------------
Canonical(m) == IF m.kind = "NoteOn" /\ m.data[2] = 0
                THEN [m EXCEPT !.kind = "NoteOff"] ELSE m

\* Whatever a RawMidiMessage is made from decodes back to it, a note-on of
\* velocity 0 as the note-off it means (raw_message.rs From<&MidiMessage>,
\* decode.rs decode).
EncodedDecodes ==
  \A i \in DOMAIN sent : Decode(wire) = MessageEvent(Canonical(sent[i]))

\* Re-encoding what decode accepts gives the same bytes, so no byte of an
\* accepted slice is ignored; only the status of a velocity-0 note-on changes.
AcceptedReencodes ==
  LET d == Decode(wire)
  IN /\ d.type = "Message" =>
          \/ Encode(d.msg) = wire
          \/ wire[1] \in \h90..\h9F /\ wire[3] = 0
             /\ Encode(d.msg) = [wire EXCEPT ![1] = @ - 16]
     /\ d.type = "Sysex" => EncodeSysex(d.body) = wire

\* Encode and decode are inverses of each other, on messages and on bytes.
RoundTrips == EncodedDecodes /\ AcceptedReencodes

\* A stream can be cut into messages without looking ahead: every proper prefix
\* of an accepted slice is reported as cut short, so never accepted and never
\* refused for another reason, and a slice of data bytes reported as Truncated
\* could be completed (decode.rs decode, sys_ex.rs try_from).
Unambiguous ==
  LET d == Decode(wire)
      completable ==
        \E n \in 1..2 : \E pad \in [1..n -> {0}] : ~IsError(Decode(wire \o pad))
      dataOnly == \A i \in 2..Len(wire) : wire[i] \in DataByte
  IN /\ ~IsError(d) =>
          \A n \in 1..Len(wire) - 1 :
             LET p == Decode(SubSeq(wire, 1, n))
             IN IsError(p) /\ p.reason \in {"Truncated", "UnterminatedSysex"}
     /\ IsError(d) /\ d.reason = "Truncated" /\ dataOnly => completable

\* A message sent through ALSA arrives as itself, a note-on of velocity 0 as the
\* note-off it means: the signed pitch bend and the split of the types on the way
\* are undone (alsa.rs send_encoded, then message_from_event).
SentArrives ==
  \A i \in DOMAIN sent : Routed(Coded(wire)) = <<MessageEvent(Canonical(sent[i]))>>

\* An event of another client becomes a message only if that is a MIDI message
\* that stands for this event and no other, so that no field is cut to fit; what
\* is refused would be no MIDI message, and its error has a status byte and bytes
\* (alsa.rs message_from_event, channel_oob, data_oob).
EventKeptOrRefused ==
  \A i \in DOMAIN event : event[i].type \in PlainTypes =>
    LET e == MessageFromEvent(event[i])
    IN IF IsError(e)
       THEN /\ MessageOf(event[i]) \notin MidiMessage
            /\ \A j \in DOMAIN e.bytes : e.bytes[j] \in Byte
            /\ e.bytes[1] > \h7F
       ELSE /\ e.msg \in MidiMessage
            /\ \/ Coded(Encode(e.msg)) = event[i]
               \/ event[i].type = "Noteon" /\ event[i].value = 0
                  /\ e.msg.data = <<event[i].param, 0>>

\* What a receiver of control changes makes of them, one after another: for each
\* controller the last value.
Receives(events, controller) ==
  LET set == {i \in DOMAIN events : events[i].msg.data[1] = controller}
  IN events[CHOOSE i \in set : \A j \in set : j <= i].msg.data[2]

\* The controllers that select what a data entry is for.
Selectors == [Nonregparam |-> <<99, 98>>, Regparam |-> <<101, 100>>]

\* A receiver of the messages made from a 14-bit event has the whole value, for
\* the parameter that is selected by the time the data entry arrives, on the
\* channel of the event; otherwise it is told of the refusal, once.
FourteenBitsArrive ==
  \A i \in DOMAIN event : event[i].type \in ControlTypes =>
    LET ev  == event[i]
        out == Routed(ev)
        Both(from, msb, lsb) == From14(Receives(from, msb), Receives(from, lsb))
    IN \/ Len(out) = 1 /\ IsError(out[1])
          /\ \/ ev.channel \notin Channel \/ ev.value \notin Value14
             \/ ev.param > (IF ev.type = "Control14" THEN 31 ELSE \h3FFF)
       \/ /\ \A j \in DOMAIN out : out[j].type = "Message"
                                   /\ Decode(Encode(out[j].msg)) = out[j]
                                   /\ out[j].msg.channel = ev.channel
          /\ IF ev.type = "Control14" THEN Both(out, ev.param, ev.param + 32) = ev.value
             ELSE /\ Both(out, 6, 38) = ev.value
                  /\ LET entry == CHOOSE j \in DOMAIN out : out[j].msg.data[1] = 6
                     IN \A k \in 1..2 : \E j \in 1..entry - 1 :
                          out[j].msg.data[1] = Selectors[ev.type][k]
                  /\ Both(out, Selectors[ev.type][1], Selectors[ev.type][2]) = ev.param

-----------------------------------------------------------------------------
MCAlphabet == {0, 1, \h7F, \h80, \h90, \h9F, \hA5, \hB0, \hC3, \hDF, \hE0, \hF0,
               \hF1, \hF2, \hF3, \hF4, \hF6, \hF7, \hF8, \hF9, \hFF}
MCEventFields == {-8193, -8192, -1, 0, 1, 6, 31, 32, 127, 128, 255, 8191, 8192, 16383,
                  16384}
=============================================================================
