---------------------------- MODULE ParserHistory ----------------------------
(***************************************************************************)
(* The parser with a history of the bytes it was given, to compare what it *)
(* emits with what MidiStream says those bytes mean.                       *)
(***************************************************************************)
EXTENDS StreamParser

CONSTANT MaxWire            \* bound: bytes in the history

VARIABLE wire               \* bytes pushed so far, realtime bytes left out

HInit == Init /\ wire = <<>>

HPush(b) == /\ Push(b)
            /\ IF b >= \hF8 THEN UNCHANGED wire
               ELSE Len(wire) < MaxWire /\ wire' = Append(wire, b)

HNext == \E b \in Bytes : HPush(b)

HSpec == HInit /\ [][HNext]_<<vars, wire>>

Promise == INSTANCE MidiStream WITH
             wire <- wire,
             events <- events

\* The kept prefix is exactly the first OrphanPrefixBytes of the orphaned data,
\* and the count counts all of it: handle_data keeps the two apart from the
\* limit on, and every status byte has to clear both.
OrphanPrefixExact ==
  LET orphans == Promise!Orphans(wire)
  IN /\ orphan_len = Len(orphans)
     /\ orphan_buf = Promise!FirstOf(OrphanPrefixBytes, orphans)

\* push implements MidiStream: for every sequence of bytes the running status,
\* the pending bytes, the sysex buffer with its overflow flag and the orphan
\* prefix together emit exactly what the bytes received so far mean.
ImplementsMidiStream == Promise!Spec
=============================================================================
