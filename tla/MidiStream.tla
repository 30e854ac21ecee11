------------------------------ MODULE MidiStream ------------------------------
(***************************************************************************)
(* What the stream parser promises, without its buffers and flags: which   *)
(* events a byte causes is a function of the bytes that came before it.    *)
(* The meaning of a byte follows from the last status byte and the data    *)
(* bytes after it, so realtime bytes, which may fall anywhere, are left    *)
(* out of the history.                                                     *)
(***************************************************************************)
EXTENDS Codec

CONSTANTS OrphanPrefixBytes, Bytes,
          MaxWire             \* bound: bytes in the history

VARIABLES wire,               \* every byte so far, realtime bytes left out
          events              \* what the last byte caused

LastOf(n, w) == SubSeq(w, Len(w) - n + 1, Len(w))
FirstOf(n, w) == IF Len(w) <= n THEN w ELSE SubSeq(w, 1, n)

\* Where the last status byte is (0: there is none), what it is (0: none), and
\* the data bytes after it.
StatusPos(w) == CHOOSE i \in 0..Len(w) :
                  /\ i = 0 \/ w[i] >= \h80
                  /\ \A j \in i + 1..Len(w) : w[j] < \h80
Governing(w) == IF StatusPos(w) = 0 THEN 0 ELSE w[StatusPos(w)]
DataAfter(w) == SubSeq(w, StatusPos(w) + 1, Len(w))

InSysex(w) == Governing(w) = \hF0

\* Data bytes at the end of w that belong to no message: those after no status
\* or an end or undefined one, and those after a complete system common message.
Orphans(w) ==
  CASE Governing(w) \in {0} \cup \hF4..\hF7 -> DataAfter(w)
    [] Governing(w) \in \hF1..\hF3 ->
         SubSeq(DataAfter(w), Needed(Governing(w)) + 1, Len(DataAfter(w)))
    [] OTHER -> <<>>

-----------------------------------------------------------------------------
\* The event of data byte b after w: a channel message each time another
\* Needed bytes are complete (running status), a system common message once.
AfterData(w, b) ==
  LET status == Governing(w)
      data   == Append(DataAfter(w), b)
      whole  == <<Decode(<<status>> \o LastOf(Needed(status), data))>>
  IN CASE status \in \h80..\hEF ->
            IF Len(data) % Needed(status) = 0 THEN whole ELSE <<>>
       [] status \in \hF1..\hF3 ->
            IF Len(data) = Needed(status) THEN whole ELSE <<>>
       [] status = \hF0 ->
            IF Len(data) = MaxSysexBytes + 1
            THEN <<ErrorEvent("SysexTooLong", <<>>)>> ELSE <<>>
       [] OTHER -> <<>>

\* What status byte b ends: orphaned data (an end byte is counted with it), or
\* a sysex, complete, empty or cut short; one that was too long is already
\* reported.
EndedBy(w, b) ==
  LET orphans == IF b = \hF7 THEN Append(Orphans(w), b) ELSE Orphans(w)
      body    == DataAfter(w)
  IN IF Orphans(w) # <<>>
     THEN <<OrphanEvent(Len(orphans), FirstOf(OrphanPrefixBytes, orphans))>>
     ELSE IF ~InSysex(w) \/ Len(body) > MaxSysexBytes THEN <<>>
     ELSE IF b # \hF7
          THEN <<ErrorEvent("UnterminatedSysex", <<\hF0>> \o body)>>
     ELSE IF body = <<>> THEN <<ErrorEvent("EmptySysex", EncodeSysex(body))>>
     ELSE <<SysexEvent(body)>>

\* What status byte b causes by itself.
OwnEvent(w, b) ==
  CASE b = \hF6 -> <<Decode(<<b>>)>>
    [] b \in \hF4..\hF5 -> <<ErrorEvent("UnrecognizedStatus", <<b>>)>>
    [] b = \hF7 /\ ~InSysex(w) /\ Orphans(w) = <<>> ->
         <<ErrorEvent("StandaloneSysexEnd", <<b>>)>>
    [] OTHER -> <<>>

Meaning(w, b) == IF b < \h80 THEN AfterData(w, b)
                             ELSE EndedBy(w, b) \o OwnEvent(w, b)

Init == wire = <<>> /\ events = <<>>

RealtimeByte == /\ \E b \in Bytes \cap \hF8..\hFF : events' = <<Decode(<<b>>)>>
                /\ UNCHANGED wire

StreamByte == /\ Len(wire) < MaxWire
              /\ \E b \in Bytes \cap \h00..\hF7 :
                    /\ wire' = Append(wire, b)
                    /\ events' = Meaning(wire, b)

Next == RealtimeByte \/ StreamByte

Spec == Init /\ [][Next]_<<wire, events>>
=============================================================================
