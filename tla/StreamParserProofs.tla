------------------------- MODULE StreamParserProofs -------------------------
(***************************************************************************)
(* Proofs about StreamParser and ParserHistory, for every alphabet of      *)
(* bytes and every value of the limits.                                    *)
(*                                                                         *)
(* The invariants of the parser hold each other up: that a message being   *)
(* collected is short of its last byte (NeverWedged) needs the types of    *)
(* the two statuses and that only one of them is set (OneMode); that the   *)
(* orphan prefix agrees with its count needs that a sysex starts with none *)
(* (OneMode again).  Their conjunction, Consistent, is inductive.  The     *)
(* types are split in two because the flags are Booleans used as values.   *)
(*                                                                         *)
(* The second half proves that the parser implements MidiStream: for every *)
(* history, the bytes so far alone decide what each byte emits.  Means     *)
(* says what the parser's variables stand for: the status byte that        *)
(* governs the history, the data after it and the orphans at its end, as   *)
(* MidiStream defines them.  Together with Consistent it is inductive, and *)
(* a step from a state where both hold is a step of MidiStream.  Two       *)
(* sections say how MidiStream's operators change with one more byte, the  *)
(* others go through the parser's actions: data bytes, status bytes,       *)
(* realtime bytes.                                                         *)
(***************************************************************************)
EXTENDS ParserHistory, SequenceTheorems, WellFoundedInduction, TLAPS

USE MaxSysexAssumption, ParserAssumption

FlagsOK == in_sysex \in BOOLEAN /\ sysex_overflow \in BOOLEAN

DataOK == /\ running_status \in ChannelStatus \cup {None}
          /\ system_common_status \in \hF1..\hF3 \cup {None}
          /\ sysex_buf \in Seq(DataByte)
          /\ pending \in Seq(DataByte)
          /\ orphan_buf \in Seq(DataByte)
          /\ orphan_len \in Nat

\* As many orphaned bytes are kept as the limit allows.
OrphanLength == Len(orphan_buf) = IF orphan_len <= OrphanPrefixBytes
                                  THEN orphan_len ELSE OrphanPrefixBytes

Consistent == /\ DataOK
              /\ OneMode
              /\ NeverWedged
              /\ SysexContained
              /\ OrphanLength

\* The statuses the parser resumes wait for one or two data bytes.
LEMMA NeededValues ==
  /\ \A s \in ChannelStatus : Needed(s) \in 1..2
  /\ \A s \in \hF1..\hF3 : Needed(s) \in 1..2
BY DEF Needed, ExpectedLen, ChannelStatus

\* A new parser is consistent.
LEMMA InitConsistent == Init => FlagsOK /\ Consistent
<1> SUFFICES ASSUME Init PROVE FlagsOK /\ Consistent
  OBVIOUS
<1>1. FlagsOK
  BY Zenon DEF Init, FlagsOK
<1>2. DataOK
  BY DEF Init, DataOK, None
<1>3. OneMode /\ NeverWedged /\ SysexContained /\ OrphanLength
  BY DEF Init, OneMode, NeverWedged, SysexContained, OrphanLength, None
<1> QED
  BY <1>1, <1>2, <1>3 DEF Consistent

-----------------------------------------------------------------------------
\* The two flags stay Booleans.
LEMMA FlagStep == FlagsOK /\ [Next]_vars => FlagsOK'
<1> SUFFICES ASSUME FlagsOK, [Next]_vars PROVE FlagsOK'
  OBVIOUS
<1> USE DEF FlagsOK
<1>1. ASSUME NEW b \in Bytes, Realtime(b) PROVE FlagsOK'
  BY <1>1, Zenon DEF Realtime, sysexVars
<1>2. ASSUME NEW b \in Bytes, SysexStart(b) PROVE FlagsOK'
  BY <1>2, Zenon DEF SysexStart, sysexVars
<1>3. ASSUME NEW b \in Bytes, SysexEnd(b) PROVE FlagsOK'
  BY <1>3, Zenon DEF SysexEnd, sysexVars
<1>4. ASSUME NEW b \in Bytes, SysexAbortedByChannel(b) PROVE FlagsOK'
  BY <1>4, Zenon DEF SysexAbortedByChannel, AbortSysex, sysexVars
<1>5. ASSUME NEW b \in Bytes, SysexAbortedBySystem(b) PROVE FlagsOK'
  BY <1>5, Zenon DEF SysexAbortedBySystem, AbortSysex, sysexVars
<1>6. ASSUME NEW b \in Bytes, SysexData(b) PROVE FlagsOK'
  BY <1>6, Zenon DEF SysexData, sysexVars
<1>7. ASSUME NEW b \in Bytes, SysexOverflow(b) PROVE FlagsOK'
  BY <1>7, Zenon DEF SysexOverflow, sysexVars
<1>8. ASSUME NEW b \in Bytes, SysexSkipped(b) PROVE FlagsOK'
  BY <1>8, Zenon DEF SysexSkipped, sysexVars
<1>9. ASSUME NEW b \in Bytes, OrphanEnd(b) PROVE FlagsOK'
  BY <1>9, Zenon DEF OrphanEnd, sysexVars
<1>10. ASSUME NEW b \in Bytes, ChannelStatusByte(b) PROVE FlagsOK'
  BY <1>10, Zenon DEF ChannelStatusByte, sysexVars
<1>11. ASSUME NEW b \in Bytes, SystemCommonByte(b) PROVE FlagsOK'
  BY <1>11, Zenon DEF SystemCommonByte, sysexVars
<1>12. ASSUME NEW b \in Bytes, SystemCommonData(b) PROVE FlagsOK'
  BY <1>12, Zenon DEF SystemCommonData, sysexVars
<1>13. ASSUME NEW b \in Bytes, RunningData(b) PROVE FlagsOK'
  BY <1>13, Zenon DEF RunningData, sysexVars
<1>14. ASSUME NEW b \in Bytes, OrphanData(b) PROVE FlagsOK'
  BY <1>14, Zenon DEF OrphanData, sysexVars
<1>15. CASE UNCHANGED vars
  BY <1>15, Zenon DEF vars, sysexVars
<1> QED
  BY <1>1, <1>2, <1>3, <1>4, <1>5, <1>6, <1>7, <1>8,
     <1>9, <1>10, <1>11, <1>12, <1>13, <1>14, <1>15 DEF Next, Push

-----------------------------------------------------------------------------
\* Every buffer holds data bytes and every status is one the parser can resume.
LEMMA DataOKStep == Consistent /\ [Next]_vars => DataOK'
<1> SUFFICES ASSUME Consistent, [Next]_vars PROVE DataOK'
  OBVIOUS
<1> USE DEF Consistent, DataOK, None, Byte, DataByte, ChannelStatus, SystemCommonStatus
<1>1. ASSUME NEW b \in Bytes, Realtime(b) PROVE DataOK'
  BY <1>1 DEF Realtime, statusVars, sysexVars, orphanVars
<1>2. ASSUME NEW b \in Bytes, SysexStart(b) PROVE DataOK'
  BY <1>2 DEF SysexStart, FlushOrphans
<1>3. ASSUME NEW b \in Bytes, SysexEnd(b) PROVE DataOK'
  <2>1. sysex_buf' \in Seq(DataByte)
    <3>1. <<>> \in Seq(DataByte)
      OBVIOUS
    <3>2. CASE sysex_overflow
      BY <1>3, <3>2 DEF SysexEnd
    <3>3. CASE ~sysex_overflow
      BY <1>3, <3>1, <3>3 DEF SysexEnd
    <3> QED
      BY <3>2, <3>3
  <2> QED
    BY <1>3, <2>1 DEF SysexEnd, statusVars, orphanVars
<1>4. ASSUME NEW b \in Bytes, SysexAbortedByChannel(b) PROVE DataOK'
  BY <1>4 DEF SysexAbortedByChannel, AbortSysex, StartStatus, orphanVars
<1>5. ASSUME NEW b \in Bytes, SysexAbortedBySystem(b) PROVE DataOK'
  BY <1>5 DEF SysexAbortedBySystem, AbortSysex, HandleSystemCommon, orphanVars
<1>6. ASSUME NEW b \in Bytes, SysexData(b) PROVE DataOK'
  BY <1>6 DEF SysexData, statusVars, orphanVars
<1>7. ASSUME NEW b \in Bytes, SysexOverflow(b) PROVE DataOK'
  BY <1>7 DEF SysexOverflow, statusVars, orphanVars
<1>8. ASSUME NEW b \in Bytes, SysexSkipped(b) PROVE DataOK'
  BY <1>8 DEF SysexSkipped, sysexVars, statusVars, orphanVars
<1>9. ASSUME NEW b \in Bytes, OrphanEnd(b) PROVE DataOK'
  BY <1>9 DEF OrphanEnd, statusVars, sysexVars
<1>10. ASSUME NEW b \in Bytes, ChannelStatusByte(b) PROVE DataOK'
  BY <1>10 DEF ChannelStatusByte, FlushOrphans, StartStatus, sysexVars
<1>11. ASSUME NEW b \in Bytes, SystemCommonByte(b) PROVE DataOK'
  <2>1. system_common_status' \in \hF1..\hF3 \cup {None}
    BY <1>11 DEF SystemCommonByte, HandleSystemCommon
  <2>2. orphan_buf' \in Seq(DataByte) /\ orphan_len' \in Nat
    BY <1>11 DEF SystemCommonByte, FlushOrphans
  <2> QED
    BY <1>11, <2>1, <2>2 DEF SystemCommonByte, HandleSystemCommon, sysexVars
<1>12. ASSUME NEW b \in Bytes, SystemCommonData(b) PROVE DataOK'
  <2> DEFINE data == Append(pending, b)
  <2>1. data \in Seq(DataByte)
    BY <1>12 DEF SystemCommonData
  <2>2. CASE Len(data) = Needed(system_common_status)
    BY <1>12, <2>1, <2>2 DEF SystemCommonData, sysexVars, orphanVars
  <2>3. CASE Len(data) # Needed(system_common_status)
    BY <1>12, <2>1, <2>3 DEF SystemCommonData, sysexVars, orphanVars
  <2> QED
    BY <2>2, <2>3
<1>13. ASSUME NEW b \in Bytes, RunningData(b) PROVE DataOK'
  <2> DEFINE data == Append(pending, b)
  <2>1. data \in Seq(DataByte)
    BY <1>13 DEF RunningData
  <2>2. CASE Len(data) = Needed(running_status)
    BY <1>13, <2>1, <2>2 DEF RunningData, sysexVars, orphanVars
  <2>3. CASE Len(data) # Needed(running_status)
    BY <1>13, <2>1, <2>3 DEF RunningData, sysexVars, orphanVars
  <2> QED
    BY <2>2, <2>3
<1>14. ASSUME NEW b \in Bytes, OrphanData(b) PROVE DataOK'
  <2>1. orphan_buf' \in Seq(DataByte)
    <3>1. Append(orphan_buf, b) \in Seq(DataByte)
      BY <1>14 DEF OrphanData
    <3> QED
      BY <1>14, <3>1 DEF OrphanData, OrphanPrefix
  <2>2. orphan_len' \in Nat
    BY <1>14 DEF OrphanData
  <2> QED
    BY <1>14, <2>1, <2>2 DEF OrphanData, statusVars, sysexVars
<1>15. CASE UNCHANGED vars
  BY <1>15 DEF vars, statusVars, sysexVars, orphanVars
<1> QED
  BY <1>1, <1>2, <1>3, <1>4, <1>5, <1>6, <1>7, <1>8,
     <1>9, <1>10, <1>11, <1>12, <1>13, <1>14, <1>15 DEF Next, Push

-----------------------------------------------------------------------------
\* One mode at a time.
LEMMA OneModeStep == Consistent /\ [Next]_vars => OneMode'
<1> SUFFICES ASSUME Consistent, [Next]_vars PROVE OneMode'
  OBVIOUS
<1> USE DEF Consistent, DataOK, OneMode, None, ChannelStatus
<1>1. ASSUME NEW b \in Bytes, Realtime(b) PROVE OneMode'
  BY <1>1 DEF Realtime, statusVars, sysexVars, orphanVars
<1>2. ASSUME NEW b \in Bytes, SysexStart(b) PROVE OneMode'
  BY <1>2 DEF SysexStart, FlushOrphans
<1>3. ASSUME NEW b \in Bytes, SysexEnd(b) PROVE OneMode'
  BY <1>3 DEF SysexEnd, statusVars, orphanVars
<1>4. ASSUME NEW b \in Bytes, SysexAbortedByChannel(b) PROVE OneMode'
  BY <1>4 DEF SysexAbortedByChannel, AbortSysex, StartStatus, orphanVars
<1>5. ASSUME NEW b \in Bytes, SysexAbortedBySystem(b) PROVE OneMode'
  BY <1>5 DEF SysexAbortedBySystem, AbortSysex, HandleSystemCommon, orphanVars
<1>6. ASSUME NEW b \in Bytes, SysexData(b) PROVE OneMode'
  BY <1>6 DEF SysexData, statusVars, orphanVars
<1>7. ASSUME NEW b \in Bytes, SysexOverflow(b) PROVE OneMode'
  BY <1>7 DEF SysexOverflow, statusVars, orphanVars
<1>8. ASSUME NEW b \in Bytes, SysexSkipped(b) PROVE OneMode'
  BY <1>8 DEF SysexSkipped, sysexVars, statusVars, orphanVars
<1>9. ASSUME NEW b \in Bytes, OrphanEnd(b) PROVE OneMode'
  BY <1>9 DEF OrphanEnd, statusVars, sysexVars
<1>10. ASSUME NEW b \in Bytes, ChannelStatusByte(b) PROVE OneMode'
  BY <1>10 DEF ChannelStatusByte, FlushOrphans, StartStatus, sysexVars
<1>11. ASSUME NEW b \in Bytes, SystemCommonByte(b) PROVE OneMode'
  BY <1>11 DEF SystemCommonByte, FlushOrphans, HandleSystemCommon, sysexVars
<1>12. ASSUME NEW b \in Bytes, SystemCommonData(b) PROVE OneMode'
  BY <1>12 DEF SystemCommonData, sysexVars, orphanVars
<1>13. ASSUME NEW b \in Bytes, RunningData(b) PROVE OneMode'
  BY <1>13 DEF RunningData, sysexVars, orphanVars
<1>14. ASSUME NEW b \in Bytes, OrphanData(b) PROVE OneMode'
  BY <1>14 DEF OrphanData, OrphanPrefix, statusVars, sysexVars
<1>15. CASE UNCHANGED vars
  BY <1>15 DEF vars, statusVars, sysexVars, orphanVars
<1> QED
  BY <1>1, <1>2, <1>3, <1>4, <1>5, <1>6, <1>7, <1>8,
     <1>9, <1>10, <1>11, <1>12, <1>13, <1>14, <1>15 DEF Next, Push

-----------------------------------------------------------------------------
\* A collected message stays short of its last byte.
LEMMA NeverWedgedStep == Consistent /\ [Next]_vars => NeverWedged'
<1> SUFFICES ASSUME Consistent, [Next]_vars PROVE NeverWedged'
  OBVIOUS
<1> USE DEF Consistent
<1>1. ASSUME NEW b \in Bytes, Realtime(b) PROVE NeverWedged'
  BY <1>1 DEF Realtime, statusVars, sysexVars, orphanVars, OneMode, NeverWedged, None
<1>2. ASSUME NEW b \in Bytes, SysexStart(b) PROVE NeverWedged'
  BY <1>2 DEF SysexStart, FlushOrphans, OneMode, NeverWedged, None
<1>3. ASSUME NEW b \in Bytes, SysexEnd(b) PROVE NeverWedged'
  BY <1>3 DEF SysexEnd, statusVars, orphanVars, OneMode, NeverWedged, None
<1>4. ASSUME NEW b \in Bytes, SysexAbortedByChannel(b) PROVE NeverWedged'
  <2>1. Needed(b) \in 1..2
    BY <1>4, NeededValues DEF SysexAbortedByChannel
  <2> QED
    BY <1>4, <2>1 DEF SysexAbortedByChannel, StartStatus, OneMode, NeverWedged, None
<1>5. ASSUME NEW b \in Bytes, SysexAbortedBySystem(b) PROVE NeverWedged'
  <2>1. running_status' = None /\ pending' = <<>>
    BY <1>5 DEF SysexAbortedBySystem, HandleSystemCommon
  <2>2. system_common_status' # None => system_common_status' \in \hF1..\hF3
    BY <1>5 DEF SysexAbortedBySystem, HandleSystemCommon, SystemCommonStatus
  <2>3. system_common_status' # None => Needed(system_common_status') \in 1..2
    BY <2>2, NeededValues
  <2> QED
    BY <2>1, <2>3 DEF NeverWedged
<1>6. ASSUME NEW b \in Bytes, SysexData(b) PROVE NeverWedged'
  BY <1>6 DEF SysexData, statusVars, orphanVars, OneMode, NeverWedged, None
<1>7. ASSUME NEW b \in Bytes, SysexOverflow(b) PROVE NeverWedged'
  BY <1>7 DEF SysexOverflow, statusVars, orphanVars, OneMode, NeverWedged, None
<1>8. ASSUME NEW b \in Bytes, SysexSkipped(b) PROVE NeverWedged'
  BY <1>8 DEF SysexSkipped, sysexVars, statusVars, orphanVars, OneMode, NeverWedged, None
<1>9. ASSUME NEW b \in Bytes, OrphanEnd(b) PROVE NeverWedged'
  BY <1>9 DEF OrphanEnd, statusVars, sysexVars, OneMode, NeverWedged, None
<1>10. ASSUME NEW b \in Bytes, ChannelStatusByte(b) PROVE NeverWedged'
  <2>1. Needed(b) \in 1..2
    BY <1>10, NeededValues DEF ChannelStatusByte
  <2> QED
    BY <1>10, <2>1 DEF ChannelStatusByte, StartStatus, OneMode, NeverWedged, None
<1>11. ASSUME NEW b \in Bytes, SystemCommonByte(b) PROVE NeverWedged'
  <2>1. running_status' = None /\ pending' = <<>>
    BY <1>11 DEF SystemCommonByte, HandleSystemCommon
  <2>2. system_common_status' # None => system_common_status' \in \hF1..\hF3
    BY <1>11 DEF SystemCommonByte, HandleSystemCommon, SystemCommonStatus
  <2>3. system_common_status' # None => Needed(system_common_status') \in 1..2
    BY <2>2, NeededValues
  <2> QED
    BY <2>1, <2>3 DEF NeverWedged
<1>12. ASSUME NEW b \in Bytes, SystemCommonData(b) PROVE NeverWedged'
  <2> DEFINE data == Append(pending, b)
  <2>1. Len(data) = Len(pending) + 1 /\ Len(pending) \in Nat
    BY <1>12 DEF SystemCommonData, DataOK
  <2>2. /\ Needed(system_common_status) \in 1..2
        /\ Len(pending) < Needed(system_common_status)
    <3>1. system_common_status \in \hF1..\hF3
      BY <1>12 DEF SystemCommonData, DataOK, None, ChannelStatus
    <3> QED
      BY <1>12, <3>1, NeededValues DEF SystemCommonData, NeverWedged
  <2>3. CASE Len(data) = Needed(system_common_status)
    BY <1>12, <2>2, <2>3 DEF SystemCommonData, OneMode, NeverWedged, None
  <2>4. CASE Len(data) # Needed(system_common_status)
    BY <1>12, <2>1, <2>2, <2>4 DEF SystemCommonData, OneMode, NeverWedged, None
  <2> QED
    BY <2>3, <2>4
<1>13. ASSUME NEW b \in Bytes, RunningData(b) PROVE NeverWedged'
  <2> DEFINE data == Append(pending, b)
  <2>1. Len(data) = Len(pending) + 1 /\ Len(pending) \in Nat
    BY <1>13 DEF RunningData, DataOK
  <2>2. /\ Needed(running_status) \in 1..2
        /\ Len(pending) < Needed(running_status)
    <3>1. running_status \in ChannelStatus
      BY <1>13 DEF RunningData, DataOK, None, ChannelStatus
    <3> QED
      BY <1>13, <3>1, NeededValues DEF RunningData, NeverWedged
  <2>3. CASE Len(data) = Needed(running_status)
    BY <1>13, <2>2, <2>3 DEF RunningData, OneMode, NeverWedged, None
  <2>4. CASE Len(data) # Needed(running_status)
    BY <1>13, <2>1, <2>2, <2>4 DEF RunningData, OneMode, NeverWedged, None
  <2> QED
    BY <2>3, <2>4
<1>14. ASSUME NEW b \in Bytes, OrphanData(b) PROVE NeverWedged'
  BY <1>14 DEF OrphanData, OrphanPrefix, statusVars, sysexVars, OneMode, NeverWedged, None
<1>15. CASE UNCHANGED vars
  BY <1>15 DEF vars, statusVars, sysexVars, orphanVars, NeverWedged
<1> QED
  BY <1>1, <1>2, <1>3, <1>4, <1>5, <1>6, <1>7, <1>8,
     <1>9, <1>10, <1>11, <1>12, <1>13, <1>14, <1>15 DEF Next, Push

-----------------------------------------------------------------------------
\* The sysex buffer and overflow flag stay within their message.
LEMMA SysexContainedStep == Consistent /\ [Next]_vars => SysexContained'
<1> SUFFICES ASSUME Consistent, [Next]_vars PROVE SysexContained'
  OBVIOUS
<1> USE DEF Consistent, DataOK, SysexContained
<1>1. ASSUME NEW b \in Bytes, Realtime(b) PROVE SysexContained'
  BY <1>1 DEF Realtime, statusVars, sysexVars, orphanVars
<1>2. ASSUME NEW b \in Bytes, SysexStart(b) PROVE SysexContained'
  BY <1>2 DEF SysexStart, FlushOrphans
<1>3. ASSUME NEW b \in Bytes, SysexEnd(b) PROVE SysexContained'
  BY <1>3 DEF SysexEnd, statusVars, orphanVars
<1>4. ASSUME NEW b \in Bytes, SysexAbortedByChannel(b) PROVE SysexContained'
  BY <1>4 DEF SysexAbortedByChannel, AbortSysex, StartStatus, orphanVars
<1>5. ASSUME NEW b \in Bytes, SysexAbortedBySystem(b) PROVE SysexContained'
  BY <1>5 DEF SysexAbortedBySystem, AbortSysex, HandleSystemCommon, orphanVars
<1>6. ASSUME NEW b \in Bytes, SysexData(b) PROVE SysexContained'
  BY <1>6 DEF SysexData, statusVars, orphanVars
<1>7. ASSUME NEW b \in Bytes, SysexOverflow(b) PROVE SysexContained'
  BY <1>7 DEF SysexOverflow, statusVars, orphanVars
<1>8. ASSUME NEW b \in Bytes, SysexSkipped(b) PROVE SysexContained'
  BY <1>8 DEF SysexSkipped, sysexVars, statusVars, orphanVars
<1>9. ASSUME NEW b \in Bytes, OrphanEnd(b) PROVE SysexContained'
  BY <1>9 DEF OrphanEnd, statusVars, sysexVars
<1>10. ASSUME NEW b \in Bytes, ChannelStatusByte(b) PROVE SysexContained'
  BY <1>10 DEF ChannelStatusByte, FlushOrphans, StartStatus, sysexVars
<1>11. ASSUME NEW b \in Bytes, SystemCommonByte(b) PROVE SysexContained'
  BY <1>11 DEF SystemCommonByte, FlushOrphans, HandleSystemCommon, sysexVars
<1>12. ASSUME NEW b \in Bytes, SystemCommonData(b) PROVE SysexContained'
  BY <1>12 DEF SystemCommonData, sysexVars, orphanVars
<1>13. ASSUME NEW b \in Bytes, RunningData(b) PROVE SysexContained'
  BY <1>13 DEF RunningData, sysexVars, orphanVars
<1>14. ASSUME NEW b \in Bytes, OrphanData(b) PROVE SysexContained'
  BY <1>14 DEF OrphanData, OrphanPrefix, statusVars, sysexVars
<1>15. CASE UNCHANGED vars
  BY <1>15 DEF vars, statusVars, sysexVars, orphanVars
<1> QED
  BY <1>1, <1>2, <1>3, <1>4, <1>5, <1>6, <1>7, <1>8,
     <1>9, <1>10, <1>11, <1>12, <1>13, <1>14, <1>15 DEF Next, Push

-----------------------------------------------------------------------------
\* The prefix and the count of orphaned data agree.
LEMMA OrphanLengthStep == Consistent /\ [Next]_vars => OrphanLength'
<1> SUFFICES ASSUME Consistent, [Next]_vars PROVE OrphanLength'
  OBVIOUS
<1> USE DEF Consistent, DataOK, OneMode, OrphanLength, None
<1>1. ASSUME NEW b \in Bytes, Realtime(b) PROVE OrphanLength'
  BY <1>1 DEF Realtime, statusVars, sysexVars, orphanVars
<1>2. ASSUME NEW b \in Bytes, SysexStart(b) PROVE OrphanLength'
  BY <1>2 DEF SysexStart, FlushOrphans
<1>3. ASSUME NEW b \in Bytes, SysexEnd(b) PROVE OrphanLength'
  BY <1>3 DEF SysexEnd, statusVars, orphanVars
<1>4. ASSUME NEW b \in Bytes, SysexAbortedByChannel(b) PROVE OrphanLength'
  BY <1>4 DEF SysexAbortedByChannel, AbortSysex, StartStatus, orphanVars
<1>5. ASSUME NEW b \in Bytes, SysexAbortedBySystem(b) PROVE OrphanLength'
  BY <1>5 DEF SysexAbortedBySystem, AbortSysex, HandleSystemCommon, orphanVars
<1>6. ASSUME NEW b \in Bytes, SysexData(b) PROVE OrphanLength'
  BY <1>6 DEF SysexData, statusVars, orphanVars
<1>7. ASSUME NEW b \in Bytes, SysexOverflow(b) PROVE OrphanLength'
  BY <1>7 DEF SysexOverflow, statusVars, orphanVars
<1>8. ASSUME NEW b \in Bytes, SysexSkipped(b) PROVE OrphanLength'
  BY <1>8 DEF SysexSkipped, sysexVars, statusVars, orphanVars
<1>9. ASSUME NEW b \in Bytes, OrphanEnd(b) PROVE OrphanLength'
  BY <1>9 DEF OrphanEnd, statusVars, sysexVars
<1>10. ASSUME NEW b \in Bytes, ChannelStatusByte(b) PROVE OrphanLength'
  BY <1>10 DEF ChannelStatusByte, FlushOrphans, StartStatus, sysexVars
<1>11. ASSUME NEW b \in Bytes, SystemCommonByte(b) PROVE OrphanLength'
  BY <1>11 DEF SystemCommonByte, FlushOrphans, HandleSystemCommon, sysexVars
<1>12. ASSUME NEW b \in Bytes, SystemCommonData(b) PROVE OrphanLength'
  BY <1>12 DEF SystemCommonData, sysexVars, orphanVars
<1>13. ASSUME NEW b \in Bytes, RunningData(b) PROVE OrphanLength'
  BY <1>13 DEF RunningData, sysexVars, orphanVars
<1>14. ASSUME NEW b \in Bytes, OrphanData(b) PROVE OrphanLength'
  BY <1>14 DEF OrphanData, OrphanPrefix, statusVars, sysexVars
<1>15. CASE UNCHANGED vars
  BY <1>15 DEF vars, statusVars, sysexVars, orphanVars
<1> QED
  BY <1>1, <1>2, <1>3, <1>4, <1>5, <1>6, <1>7, <1>8,
     <1>9, <1>10, <1>11, <1>12, <1>13, <1>14, <1>15 DEF Next, Push

-----------------------------------------------------------------------------
\* The invariant is inductive.
THEOREM ConsistentAlways == Spec => [](FlagsOK /\ Consistent)
<1>1. Init => FlagsOK /\ Consistent
  BY InitConsistent
<1>2. FlagsOK /\ Consistent /\ [Next]_vars => (FlagsOK /\ Consistent)'
  BY FlagStep, DataOKStep, OneModeStep, NeverWedgedStep, SysexContainedStep,
     OrphanLengthStep DEF Consistent
<1> QED
  BY <1>1, <1>2, PTL DEF Spec

\* Types: the running status is a channel status, the collected status one of
\* the three system common statuses with data, every buffer holds data bytes.
THEOREM TypeCorrect == Spec => []TypeOK
<1>1. FlagsOK /\ Consistent => TypeOK
  BY DEF FlagsOK, Consistent, DataOK, TypeOK
<1> QED
  BY <1>1, ConsistentAlways, PTL

\* The modes exclude each other, so that start_status inside a sysex may leave
\* system_common_status alone.
THEOREM OneModeAlways == Spec => []OneMode
BY ConsistentAlways, PTL DEF Consistent

\* Whatever bytes arrive, no connection gets stuck waiting past the length of a
\* message.
THEOREM NeverWedgedAlways == Spec => []NeverWedged
BY ConsistentAlways, PTL DEF Consistent

\* The sysex buffer never exceeds its limit and nothing of one sysex, neither
\* bytes nor the overflow flag, reaches the next.
THEOREM SysexContainedAlways == Spec => []SysexContained
BY ConsistentAlways, PTL DEF Consistent

-----------------------------------------------------------------------------
(* The parser implements MidiStream.                                       *)

\* Every byte but the realtime ones.
StreamBytes == \h00..\hF7

\* MidiStream's copy of the codec is the parser's.
LEMMA SameCodec ==
  /\ \A bytes : Promise!Decode(bytes) = Decode(bytes)
  /\ \A body : Promise!EncodeSysex(body) = EncodeSysex(body)
  /\ \A status : Promise!Needed(status) = Needed(status)
  /\ \A why, bytes : Promise!ErrorEvent(why, bytes) = ErrorEvent(why, bytes)
  /\ \A len, bytes : Promise!OrphanEvent(len, bytes) = OrphanEvent(len, bytes)
  /\ \A body : Promise!SysexEvent(body) = SysexEvent(body)
<1>1. \A status : Promise!ExpectedLen(status) = ExpectedLen(status)
  BY DEF Promise!ExpectedLen, ExpectedLen
<1>2. \A status : Promise!Needed(status) = Needed(status)
  BY <1>1 DEF Promise!Needed, Needed
<1>3. /\ \A why, bytes : Promise!ErrorEvent(why, bytes) = ErrorEvent(why, bytes)
      /\ \A len, bytes : Promise!OrphanEvent(len, bytes) = OrphanEvent(len, bytes)
      /\ \A body : Promise!SysexEvent(body) = SysexEvent(body)
      /\ \A m : Promise!MessageEvent(m) = MessageEvent(m)
      /\ \A body : Promise!EncodeSysex(body) = EncodeSysex(body)
      /\ \A k, c, d : Promise!Message(k, c, d) = Message(k, c, d)
      /\ \A a, b : Promise!From14(a, b) = From14(a, b)
  BY DEF Promise!ErrorEvent, ErrorEvent, Promise!OrphanEvent, OrphanEvent, Promise!SysexEvent,
         SysexEvent, Promise!MessageEvent, MessageEvent, Promise!EncodeSysex, EncodeSysex,
         Promise!Message, Message, Promise!From14, From14
<1>4. \A wir : Promise!DecodeSysex(wir) = DecodeSysex(wir)
  BY <1>3 DEF Promise!DecodeSysex, DecodeSysex
<1>5. \A bytes : Promise!KindOf(bytes) = KindOf(bytes)
  BY DEF Promise!KindOf, KindOf
<1>6. Promise!Value14Kinds = Value14Kinds
  BY DEF Promise!Value14Kinds, Value14Kinds
<1>7. \A bytes : Promise!ToMessage(bytes) = ToMessage(bytes)
  BY <1>3, <1>5, <1>6 DEF Promise!ToMessage, ToMessage
<1>8. \A bytes : Promise!Decode(bytes) = Decode(bytes)
  BY <1>1, <1>3, <1>4, <1>7 DEF Promise!Decode, Decode
<1> QED BY <1>2, <1>3, <1>8

-----------------------------------------------------------------------------
(* The last status byte and the data after it, one byte later.             *)

\* Every nonempty set of numbers has a least one.
LEMMA Least ==
  ASSUME NEW S, S \subseteq Nat, S # {}
  PROVE  \E k \in S : \A i \in S : k <= i
<1>1. PICK k \in S : \A i \in S : ~ (<<i, k>> \in OpToRel(<, Nat))
  BY NatLessThanWellFounded, WFMin
<1>2. ASSUME NEW i \in S, i < k PROVE FALSE
  BY <1>1, <1>2 DEF OpToRel
<1>3. \A i \in S : k <= i
  BY <1>2
<1> QED BY <1>3

LEMMA ByteSets ==
  /\ \A b \in StreamBytes : b \in Nat /\ b <= \hF7
  /\ \A b : b \in DataByte <=> b \in StreamBytes /\ b < \h80
  /\ \A b \in StreamBytes : b >= \h80 <=> b \in \h80..\hF7
BY DEF StreamBytes, DataByte

\* What StatusPos chooses, as a predicate; there is exactly one such position.
IsStatusPos(i, w) == /\ i \in 0..Len(w)
                     /\ i = 0 \/ w[i] >= \h80
                     /\ \A j \in i + 1..Len(w) : w[j] < \h80

LEMMA StatusPosIs ==
  ASSUME NEW w \in Seq(StreamBytes)
  PROVE  /\ IsStatusPos(Promise!StatusPos(w), w)
         /\ \A i : IsStatusPos(i, w) => i = Promise!StatusPos(w)
<1> DEFINE l == Len(w)
           S == {d \in 0..l : l - d = 0 \/ w[l - d] >= \h80}
<1>1. l \in Nat /\ \A i \in 1..l : w[i] \in Nat
  <2>1. l \in Nat /\ \A i \in 1..l : w[i] \in StreamBytes
    OBVIOUS
  <2> QED BY <2>1, ByteSets
<1>2. PICK d \in S : \A e \in S : d <= e
  <2>1. l \in S /\ S \subseteq Nat
    BY <1>1
  <2> HIDE DEF S
  <2> QED BY <2>1, Least
<1>3. IsStatusPos(l - d, w)
  <2>1. \A j \in (l - d) + 1..l : w[j] < \h80
    <3> SUFFICES ASSUME NEW j \in (l - d) + 1..l, ~(w[j] < \h80) PROVE FALSE
      OBVIOUS
    <3>1. l - (l - j) = j /\ l - j \in 0..l /\ w[j] >= \h80 /\ l - j < d
      BY <1>1, <1>2
    <3> QED BY <1>1, <1>2, <3>1
  <2> QED BY <1>1, <1>2, <2>1 DEF IsStatusPos
<1>4. \A i, j : IsStatusPos(i, w) /\ IsStatusPos(j, w) => i = j
  BY <1>1 DEF IsStatusPos
<1>5. IsStatusPos(Promise!StatusPos(w), w)
  <2>1. Promise!StatusPos(w) = CHOOSE i \in 0..Len(w) : IsStatusPos(i, w)
    BY DEF Promise!StatusPos, IsStatusPos
  <2> QED BY <1>3, <2>1 DEF IsStatusPos
<1> QED BY <1>4, <1>5

\* A status byte governs what follows; a data byte goes to the one there is.
LEMMA NextByte ==
  ASSUME NEW w \in Seq(StreamBytes), NEW b \in StreamBytes
  PROVE  LET v == Append(w, b)
         IN /\ v \in Seq(StreamBytes)
            /\ Promise!Governing(w) \in {0} \cup \h80..\hF7
            /\ Promise!DataAfter(w) \in Seq(DataByte)
            /\ b >= \h80 => Promise!Governing(v) = b /\ Promise!DataAfter(v) = <<>>
            /\ b < \h80 => /\ Promise!Governing(v) = Promise!Governing(w)
                           /\ Promise!DataAfter(v) = Append(Promise!DataAfter(w), b)
<1> DEFINE v == Append(w, b)
           p == Promise!StatusPos(w)
           q == Promise!StatusPos(v)
<1>1. /\ Len(w) \in Nat /\ v \in Seq(StreamBytes) /\ Len(v) = Len(w) + 1
      /\ \A i \in 1..Len(w) : v[i] = w[i] /\ w[i] \in StreamBytes
      /\ v[Len(w) + 1] = b
  OBVIOUS
<1> HIDE DEF v
<1>2. /\ p \in 0..Len(w) /\ (p = 0 \/ w[p] >= \h80)
      /\ \A j \in p + 1..Len(w) : w[j] < \h80
  BY StatusPosIs DEF IsStatusPos
<1>3. /\ Promise!Governing(w) = IF p = 0 THEN 0 ELSE w[p]
      /\ Promise!Governing(v) = IF q = 0 THEN 0 ELSE v[q]
      /\ Promise!DataAfter(w) = SubSeq(w, p + 1, Len(w))
      /\ Promise!DataAfter(v) = SubSeq(v, q + 1, Len(v))
  BY DEF Promise!Governing, Promise!DataAfter
<1>4. Promise!Governing(w) \in {0} \cup \h80..\hF7
  <2>1. p # 0 => p \in 1..Len(w) /\ w[p] \in StreamBytes /\ w[p] >= \h80
    BY <1>1, <1>2
  <2>2. p # 0 => w[p] \in \h80..\hF7
    BY <2>1, ByteSets
  <2> QED BY <1>3, <2>2
<1>5. \A i \in p + 1..Len(w) : w[i] \in DataByte
  BY <1>1, <1>2, ByteSets, SMTT(30)
<1>6. /\ Promise!DataAfter(w) \in Seq(DataByte)
      /\ Len(Promise!DataAfter(w)) = Len(w) - p
      /\ \A i \in 1..Len(w) - p : Promise!DataAfter(w)[i] = w[p + i]
  <2>1. p + 1 \in Int /\ Len(w) \in Int
    BY <1>1, <1>2
  <2>2. /\ SubSeq(w, p + 1, Len(w)) \in Seq(DataByte)
        /\ Len(SubSeq(w, p + 1, Len(w))) = IF p + 1 <= Len(w) THEN Len(w) - (p + 1) + 1 ELSE 0
        /\ \A i \in 1..Len(w) - (p + 1) + 1 : SubSeq(w, p + 1, Len(w))[i] = w[p + 1 + i - 1]
    BY <1>5, <2>1, SubSeqProperties
  <2> QED BY <1>1, <1>2, <1>3, <2>2
<1>7. ASSUME b >= \h80
      PROVE  Promise!Governing(v) = b /\ Promise!DataAfter(v) = <<>>
  <2>1. IsStatusPos(Len(v), v)
    BY <1>1, <1>7 DEF IsStatusPos
  <2>2. q = Len(v)
    BY <1>1, <2>1, StatusPosIs
  <2>3. SubSeq(v, q + 1, Len(v)) = <<>>
    BY <1>1, <2>2, SubSeqEmpty
  <2> QED BY <1>1, <1>3, <2>2, <2>3
<1>8. ASSUME b < \h80
      PROVE  /\ Promise!Governing(v) = Promise!Governing(w)
             /\ Promise!DataAfter(v) = Append(Promise!DataAfter(w), b)
  <2>1. IsStatusPos(p, v)
    BY <1>1, <1>2, <1>8 DEF IsStatusPos
  <2>2. q = p
    BY <1>1, <2>1, StatusPosIs
  <2>3. \A i \in p + 1..Len(v) : v[i] \in DataByte
    <3> SUFFICES ASSUME NEW i \in p + 1..Len(v) PROVE v[i] \in DataByte
      OBVIOUS
    <3>1. i \in p + 1..Len(w) \/ i = Len(w) + 1
      BY <1>1, <1>2
    <3>2. i \in p + 1..Len(w) => i \in 1..Len(w)
      BY <1>1, <1>2
    <3>3. b \in DataByte
      BY <1>8, ByteSets
    <3> QED BY <1>1, <1>5, <3>1, <3>2, <3>3
  <2>4. /\ SubSeq(v, p + 1, Len(v)) \in Seq(DataByte)
        /\ Len(SubSeq(v, p + 1, Len(v))) = IF p + 1 <= Len(v) THEN Len(v) - (p + 1) + 1 ELSE 0
        /\ \A i \in 1..Len(v) - (p + 1) + 1 : SubSeq(v, p + 1, Len(v))[i] = v[p + 1 + i - 1]
    <3>1. p + 1 \in Int /\ Len(v) \in Int
      BY <1>1, <1>2
    <3> QED BY <2>3, <3>1, SubSeqProperties
  <2> DEFINE s == Promise!DataAfter(v)
             t == Append(Promise!DataAfter(w), b)
  <2>5. /\ s \in Seq(DataByte) /\ Len(s) = Len(w) + 1 - p
        /\ \A i \in 1..Len(w) + 1 - p : s[i] = v[p + i]
    BY <1>1, <1>2, <1>3, <2>2, <2>4, SMTT(30)
  <2>6. /\ t \in Seq(DataByte) /\ Len(t) = Len(w) - p + 1
        /\ \A i \in 1..Len(w) - p : t[i] = Promise!DataAfter(w)[i]
        /\ t[Len(w) - p + 1] = b
    <3>1. b \in DataByte
      BY <1>8, ByteSets
    <3>2. Promise!DataAfter(w) \in Seq(DataByte) /\ Len(Promise!DataAfter(w)) = Len(w) - p
      BY <1>6
    <3> QED BY <3>1, <3>2
  <2> HIDE DEF s, t
  <2>7. \A i \in 1..Len(s) : s[i] = t[i]
    <3> SUFFICES ASSUME NEW i \in 1..Len(s) PROVE s[i] = t[i]
      OBVIOUS
    <3>0. p \in Nat /\ Len(w) \in Nat /\ p <= Len(w) /\ Len(s) = Len(w) + 1 - p
      BY <1>1, <1>2, <2>5
    <3>1. CASE i = Len(w) - p + 1
      <4>1. p + i = Len(w) + 1
        BY <3>0, <3>1
      <4> QED BY <1>1, <2>5, <2>6, <3>0, <3>1, <4>1
    <3>2. CASE i # Len(w) - p + 1
      <4>1. i \in 1..Len(w) - p /\ p + i \in 1..Len(w)
        BY <3>0, <3>2
      <4> QED BY <1>1, <1>6, <2>5, <2>6, <3>0, <4>1
    <3> QED BY <3>1, <3>2
  <2>8. s = t
    <3>1. Len(s) = Len(t)
      BY <1>1, <1>2, <2>5, <2>6
    <3> QED BY <2>5, <2>6, <2>7, <3>1, SeqEqual
  <2>9. Promise!Governing(v) = Promise!Governing(w)
    BY <1>1, <1>2, <1>3, <2>2
  <2> QED BY <2>8, <2>9 DEF s, t
<1> QED BY <1>1, <1>4, <1>6, <1>7, <1>8 DEF v

-----------------------------------------------------------------------------
(* What the abstract operators make of one more byte.                      *)

\* Status values after which data belongs to no message.
Unowned == {0} \cup \hF4..\hF7

\* The next data byte belongs to no message.
Idle(g, D) == \/ g \in Unowned
              \/ g \in \hF1..\hF3 /\ Len(D) >= Needed(g)

\* The part of the data after g that belongs to no message.
Left(g, D) == IF g \in Unowned THEN D
              ELSE IF g \in \hF1..\hF3 THEN SubSeq(D, Needed(g) + 1, Len(D))
              ELSE <<>>

LEMMA LeftSystem ==
  ASSUME NEW g \in \hF1..\hF3, NEW D
  PROVE  Left(g, D) = SubSeq(D, Needed(g) + 1, Len(D))
<1>1. g \notin Unowned /\ g \in \hF1..\hF3
  BY DEF Unowned
<1> QED BY <1>1, Zenon DEF Left

\* Data that belongs to no message grows while the parser is idle, and only then.
LEMMA OrphansIs ==
  ASSUME NEW w \in Seq(StreamBytes), NEW b \in StreamBytes
  PROVE  LET v == Append(w, b)
             g == Promise!Governing(w)
             D == Promise!DataAfter(w)
         IN /\ Promise!Orphans(w) \in Seq(DataByte)
            /\ ~Idle(g, D) => Promise!Orphans(w) = <<>>
            /\ b >= \h80 => Promise!Orphans(v) = <<>>
            /\ b < \h80 => Promise!Orphans(v) = IF Idle(g, D) THEN Append(Promise!Orphans(w), b)
                                                              ELSE <<>>
<1> DEFINE v == Append(w, b)
           g == Promise!Governing(w)
           D == Promise!DataAfter(w)
<1>1. /\ g \in {0} \cup \h80..\hF7 /\ D \in Seq(DataByte)
      /\ b >= \h80 => Promise!Governing(v) = b /\ Promise!DataAfter(v) = <<>>
      /\ b < \h80 => Promise!Governing(v) = g /\ Promise!DataAfter(v) = Append(D, b)
  BY NextByte
<1>2. /\ Promise!Orphans(w) = Left(g, D)
      /\ Promise!Orphans(v) = Left(Promise!Governing(v), Promise!DataAfter(v))
  BY SameCodec, SMTT(30) DEF Promise!Orphans, Left, Unowned
<1> HIDE DEF v, g, D
<1>3. /\ Left(g, D) \in Seq(DataByte)
      /\ ~Idle(g, D) => Left(g, D) = <<>>
  <2>1. CASE g \in \hF1..\hF3
    <3>1. Needed(g) \in 1..2 /\ Len(D) \in Nat /\ \A i \in 1..Len(D) : D[i] \in DataByte
      BY <1>1, <2>1, NeededValues
    <3>2. SubSeq(D, Needed(g) + 1, Len(D)) \in Seq(DataByte)
      <4>1. \A i \in Needed(g) + 1..Len(D) : D[i] \in DataByte
        BY <3>1
      <4> QED BY <3>1, <4>1, SubSeqProperties
    <3>3. Len(D) < Needed(g) => SubSeq(D, Needed(g) + 1, Len(D)) = <<>>
      BY <3>1, SubSeqEmpty
    <3>4. Left(g, D) = SubSeq(D, Needed(g) + 1, Len(D))
      BY <2>1, LeftSystem
    <3>5. ~Idle(g, D) => Len(D) < Needed(g)
      BY <2>1, <3>1 DEF Idle
    <3> QED BY <3>2, <3>3, <3>4, <3>5
  <2>2. CASE g \notin \hF1..\hF3 /\ g \in Unowned
    <3>1. Left(g, D) = D
      BY <2>2, Zenon DEF Left
    <3>2. Idle(g, D)
      BY <2>2 DEF Idle
    <3> QED BY <1>1, <3>1, <3>2
  <2>3. CASE g \notin \hF1..\hF3 /\ g \notin Unowned
    <3>1. Left(g, D) = <<>>
      BY <2>3, Zenon DEF Left
    <3> QED BY <3>1
  <2> QED BY <2>1, <2>2, <2>3
<1>4. ASSUME b >= \h80 PROVE Left(b, <<>>) = <<>>
  <2>1. CASE b \in \hF1..\hF3
    <3>1. Needed(b) \in 1..2
      BY <2>1, NeededValues
    <3>2. SubSeq(<<>>, Needed(b) + 1, 0) = <<>>
      BY <3>1, SubSeqEmpty
    <3>3. Len(<<>>) = 0
      OBVIOUS
    <3> QED BY <2>1, <3>2, <3>3, LeftSystem
  <2>2. CASE b \notin \hF1..\hF3
    BY <2>2, Zenon DEF Left
  <2> QED BY <2>1, <2>2
<1>5. ASSUME b < \h80
      PROVE  Left(g, Append(D, b)) = IF Idle(g, D) THEN Append(Left(g, D), b) ELSE <<>>
  <2>0. b \in DataByte
    BY <1>5, ByteSets
  <2>1. CASE g \in \hF1..\hF3
    <3> DEFINE E == Append(D, b)
               m == Needed(g)
    <3>1. /\ m \in 1..2 /\ Len(D) \in Nat /\ E \in Seq(DataByte) /\ Len(E) = Len(D) + 1
          /\ \A i \in 1..Len(D) : E[i] = D[i] /\ D[i] \in DataByte
          /\ E[Len(D) + 1] = b
      BY <1>1, <2>0, <2>1, NeededValues
    <3>a. E = Append(D, b) /\ m = Needed(g)
      OBVIOUS
    <3>c. Left(g, E) = SubSeq(E, m + 1, Len(E)) /\ Left(g, D) = SubSeq(D, m + 1, Len(D))
      BY <2>1, LeftSystem
    <3> HIDE DEF E, m
    <3>2. CASE Len(D) < m
      <4>1. SubSeq(E, m + 1, Len(E)) = <<>>
        BY <3>1, <3>2, SubSeqEmpty
      <4>2. ~Idle(g, D)
        BY <2>1, <3>a, <3>1, <3>2 DEF Idle, Unowned
      <4> QED BY <3>a, <3>c, <4>1, <4>2
    <3>3. CASE Len(D) >= m
      <4>1. /\ SubSeq(E, m + 1, Len(E)) \in Seq(DataByte)
            /\ Len(SubSeq(E, m + 1, Len(E))) = Len(D) + 1 - m
            /\ \A i \in 1..Len(D) + 1 - m : SubSeq(E, m + 1, Len(E))[i] = E[m + i]
        <5>1. \A i \in m + 1..Len(E) : E[i] \in DataByte
          BY <3>1
        <5>2. m + 1 \in Int /\ Len(E) \in Int /\ m + 1 <= Len(E)
          BY <3>1, <3>3
        <5>3. /\ SubSeq(E, m + 1, Len(E)) \in Seq(DataByte)
              /\ Len(SubSeq(E, m + 1, Len(E))) = IF m + 1 <= Len(E) THEN Len(E) - (m + 1) + 1 ELSE 0
              /\ \A i \in 1..Len(E) - (m + 1) + 1 : SubSeq(E, m + 1, Len(E))[i] = E[m + 1 + i - 1]
          BY <5>1, <5>2, SubSeqProperties
        <5> QED BY <3>1, <3>3, <5>2, <5>3
      <4>2. /\ SubSeq(D, m + 1, Len(D)) \in Seq(DataByte)
            /\ Len(SubSeq(D, m + 1, Len(D))) = Len(D) - m
            /\ \A i \in 1..Len(D) - m : SubSeq(D, m + 1, Len(D))[i] = D[m + i]
        <5>1. \A i \in m + 1..Len(D) : D[i] \in DataByte
          BY <3>1
        <5>2. m + 1 \in Int /\ Len(D) \in Int
          BY <3>1, <3>3
        <5>3. /\ SubSeq(D, m + 1, Len(D)) \in Seq(DataByte)
              /\ Len(SubSeq(D, m + 1, Len(D))) = IF m + 1 <= Len(D) THEN Len(D) - (m + 1) + 1 ELSE 0
              /\ \A i \in 1..Len(D) - (m + 1) + 1 : SubSeq(D, m + 1, Len(D))[i] = D[m + 1 + i - 1]
          BY <5>1, <5>2, SubSeqProperties
        <5> QED BY <3>1, <3>3, <5>2, <5>3
      <4> DEFINE s == SubSeq(E, m + 1, Len(E))
                 r == SubSeq(D, m + 1, Len(D))
                 t == Append(r, b)
      <4>3. /\ t \in Seq(DataByte) /\ Len(t) = Len(D) - m + 1 /\ t[Len(D) - m + 1] = b
            /\ \A i \in 1..Len(D) - m : t[i] = r[i]
        BY <2>0, <4>2
      <4>4. s = t
        <5>1. s \in Seq(DataByte) /\ Len(s) = Len(D) + 1 - m /\ r \in Seq(DataByte)
              /\ (\A i \in 1..Len(D) + 1 - m : s[i] = E[m + i])
              /\ (\A i \in 1..Len(D) - m : r[i] = D[m + i])
          BY <4>1, <4>2
        <5> HIDE DEF s, r, t
        <5>2. ASSUME NEW i \in 1..Len(s) PROVE s[i] = t[i]
          <6>1. CASE i = Len(D) + 1 - m
            <7>1. m + i = Len(D) + 1
              BY <3>1, <6>1
            <7> QED BY <3>1, <3>3, <4>3, <5>1, <6>1, <7>1
          <6>2. CASE i # Len(D) + 1 - m
            <7>1. i \in 1..Len(D) - m /\ m + i \in 1..Len(D) /\ i \in 1..Len(D) + 1 - m
              BY <3>1, <3>3, <5>1, <5>2, <6>2
            <7> QED BY <3>1, <4>3, <5>1, <7>1
          <6> QED BY <6>1, <6>2
        <5>3. Len(s) = Len(t)
          BY <3>1, <3>3, <4>3, <5>1
        <5> QED BY <4>3, <5>1, <5>2, <5>3, SeqEqual
      <4>5. Idle(g, D)
        BY <2>1, <3>a, <3>3 DEF Idle
      <4> QED BY <3>a, <3>c, <4>4, <4>5
    <3> QED BY <3>1, <3>2, <3>3
  <2>2. CASE g \notin \hF1..\hF3
    BY <1>1, <2>2 DEF Idle, Left, Unowned
  <2> QED BY <2>1, <2>2
<1>6. /\ Promise!Orphans(w) \in Seq(DataByte)
      /\ ~Idle(g, D) => Promise!Orphans(w) = <<>>
  BY <1>2, <1>3 DEF g, D
<1>7. b >= \h80 => Promise!Orphans(v) = <<>>
  BY <1>1, <1>2, <1>4
<1>8. b < \h80 => Promise!Orphans(v) = IF Idle(g, D) THEN Append(Promise!Orphans(w), b) ELSE <<>>
  <2>1. Promise!Orphans(w) = Left(g, D)
    BY <1>2 DEF g, D
  <2> QED BY <1>1, <1>2, <1>5, <2>1
<1> QED BY <1>6, <1>7, <1>8 DEF v, g, D

\* A prefix that is full stays what it is.
LEMMA FirstOfIs ==
  ASSUME NEW s \in Seq(StreamBytes), NEW b \in StreamBytes, NEW m \in Nat
  PROVE  /\ Promise!FirstOf(m, <<>>) = <<>>
         /\ Promise!FirstOf(m, s) \in Seq(StreamBytes)
         /\ Promise!FirstOf(m, Append(s, b)) =
              IF Len(Promise!FirstOf(m, s)) < m THEN Append(Promise!FirstOf(m, s), b)
                                                ELSE Promise!FirstOf(m, s)
<1> DEFINE t == Append(s, b)
<1>1. /\ Len(s) \in Nat /\ t \in Seq(StreamBytes) /\ Len(t) = Len(s) + 1
      /\ \A i \in 1..Len(s) : t[i] = s[i] /\ s[i] \in StreamBytes
  OBVIOUS
<1> HIDE DEF t
<1>2. /\ Promise!FirstOf(m, s) = IF Len(s) <= m THEN s ELSE SubSeq(s, 1, m)
      /\ Promise!FirstOf(m, t) = IF Len(t) <= m THEN t ELSE SubSeq(t, 1, m)
      /\ Promise!FirstOf(m, <<>>) = <<>>
  BY DEF Promise!FirstOf
<1>3. ASSUME m <= Len(s)
      PROVE  /\ SubSeq(s, 1, m) \in Seq(StreamBytes) /\ Len(SubSeq(s, 1, m)) = m
             /\ \A i \in 1..m : SubSeq(s, 1, m)[i] = s[i]
             /\ SubSeq(t, 1, m) = SubSeq(s, 1, m)
             /\ Len(s) = m => SubSeq(s, 1, m) = s
  <2>1. /\ SubSeq(s, 1, m) \in Seq(StreamBytes) /\ Len(SubSeq(s, 1, m)) = m
        /\ \A i \in 1..m : SubSeq(s, 1, m)[i] = s[i]
    BY <1>1, <1>3
  <2>2. /\ SubSeq(t, 1, m) \in Seq(StreamBytes) /\ Len(SubSeq(t, 1, m)) = m
        /\ \A i \in 1..m : SubSeq(t, 1, m)[i] = t[i]
    BY <1>1, <1>3
  <2>3. SubSeq(t, 1, m) = SubSeq(s, 1, m)
    <3> DEFINE x == SubSeq(t, 1, m)
               y == SubSeq(s, 1, m)
    <3>1. x \in Seq(StreamBytes) /\ y \in Seq(StreamBytes) /\ Len(x) = Len(y)
          /\ \A i \in 1..Len(x) : x[i] = y[i]
      BY <1>1, <1>3, <2>1, <2>2
    <3> HIDE DEF x, y
    <3>2. x = y
      BY <3>1, SeqEqual
    <3> QED BY <3>2 DEF x, y
  <2>4. Len(s) = m => SubSeq(s, 1, m) = s
    BY SubSeqFull
  <2> QED BY <2>1, <2>3, <2>4
<1>4. CASE Len(s) < m
  BY <1>1, <1>2, <1>4 DEF t
<1>5. CASE m <= Len(s)
  <2>1. Promise!FirstOf(m, s) = SubSeq(s, 1, m)
    BY <1>1, <1>2, <1>3, <1>5
  <2>2. Promise!FirstOf(m, t) = SubSeq(s, 1, m)
    BY <1>1, <1>2, <1>3, <1>5
  <2>3. SubSeq(s, 1, m) \in Seq(StreamBytes) /\ Len(SubSeq(s, 1, m)) = m
    BY <1>3, <1>5
  <2>4. Promise!FirstOf(m, t) = Promise!FirstOf(m, s) /\ ~(Len(Promise!FirstOf(m, s)) < m)
    BY <2>1, <2>2, <2>3
  <2> QED BY <1>2, <2>1, <2>3, <2>4 DEF t
<1> QED BY <1>1, <1>4, <1>5

\* A whole sysex decodes to its body.
LEMMA SysexDecodes ==
  ASSUME NEW body \in Seq(DataByte), Len(body) <= MaxSysexBytes
  PROVE  DecodeSysex(EncodeSysex(body)) =
           IF body = <<>> THEN ErrorEvent("EmptySysex", EncodeSysex(body)) ELSE SysexEvent(body)
<1> DEFINE x == EncodeSysex(body)
<1>1. /\ Len(body) \in Nat /\ Len(x) = Len(body) + 2 /\ x[Len(x)] = \hF7
      /\ \A i \in 1..Len(body) : x[1 + i] = body[i]
  BY DEF EncodeSysex
<1>2. SubSeq(x, 2, Len(x) - 1) = body
  <2> HIDE DEF x
  <2>1. /\ \A i \in 2..Len(x) - 1 : x[i] \in DataByte
        /\ 2 \in Int /\ Len(x) - 1 \in Int /\ 2 <= Len(x) - 1 <=> Len(body) > 0
    <3>1. ASSUME NEW i \in 2..Len(x) - 1 PROVE x[i] \in DataByte
      <4>1. PICK j \in 1..Len(body) : i = 1 + j
        BY <1>1
      <4>2. body[j] \in DataByte /\ x[1 + j] = body[j]
        BY <1>1
      <4> QED BY <4>1, <4>2
    <3> QED BY <1>1, <3>1
  <2> DEFINE y == SubSeq(x, 2, Len(x) - 1)
  <2>2. y \in Seq(DataByte) /\ Len(y) = Len(body) /\ \A i \in 1..Len(body) : y[i] = x[1 + i]
    <3>1. /\ y \in Seq(DataByte)
          /\ Len(y) = IF 2 <= Len(x) - 1 THEN Len(x) - 1 - 2 + 1 ELSE 0
          /\ \A i \in 1..Len(x) - 1 - 2 + 1 : y[i] = x[2 + i - 1]
      BY <2>1, SubSeqProperties
    <3> HIDE DEF y
    <3> QED BY <1>1, <2>1, <3>1
  <2> HIDE DEF y
  <2>3. y = body
    BY <1>1, <2>2, SeqEqual
  <2> QED BY <2>3 DEF y
<1>3. \A i \in DOMAIN body : ~(body[i] > \h7F)
  <2>1. \A i \in DOMAIN body : body[i] \in DataByte
    OBVIOUS
  <2> QED BY <2>1, ByteSets
<1> HIDE DEF x
<1>4. ~(Len(x) < 2 \/ x[Len(x)] # \hF7) /\ ~(Len(body) > MaxSysexBytes)
  BY <1>1
<1>5. DecodeSysex(x) = IF body = <<>> THEN ErrorEvent("EmptySysex", x) ELSE SysexEvent(body)
  BY <1>2, <1>3, <1>4 DEF DecodeSysex
<1> QED BY <1>5 DEF x

-----------------------------------------------------------------------------
(* What the parser's variables stand for.                                  *)

Gov  == Promise!Governing(wire)
Data == Promise!DataAfter(wire)
Orph == Promise!Orphans(wire)

\* The buffer is the data of the governing sysex while that fits.
SysexMeans == /\ in_sysex <=> Gov = \hF0
              /\ Gov = \hF0 => /\ sysex_overflow <=> Len(Data) > MaxSysexBytes
                               /\ ~sysex_overflow => sysex_buf = Data

\* A channel status runs on; a system common one lasts until its data is whole.
StatusMeans ==
  /\ running_status = IF Gov \in ChannelStatus THEN Gov ELSE None
  /\ system_common_status = IF Gov \in \hF1..\hF3 /\ Len(Data) < Needed(Gov) THEN Gov ELSE None

\* Pending is what the last whole message left over.
PendingMeans ==
  /\ Gov \in ChannelStatus =>
       pending = IF Len(Data) % Needed(Gov) = 0 THEN <<>> ELSE <<Data[Len(Data)]>>
  /\ Gov \in \hF1..\hF3 /\ Len(Data) < Needed(Gov) => pending = Data

\* The orphans are counted all and kept up to the limit.
OrphanMeans == /\ orphan_len = Len(Orph)
               /\ orphan_buf = Promise!FirstOf(OrphanPrefixBytes, Orph)

Means == wire \in Seq(StreamBytes) /\ SysexMeans /\ StatusMeans /\ PendingMeans /\ OrphanMeans

WireTypes == /\ Gov \in {0} \cup \h80..\hF7
             /\ Data \in Seq(DataByte)
             /\ Orph \in Seq(DataByte)

\* What the next byte does to the governing status, its data and the orphans.
LEMMA ByteStep ==
  ASSUME Means, NEW b \in StreamBytes, wire' = Append(wire, b)
  PROVE  /\ WireTypes
         /\ wire' \in Seq(StreamBytes)
         /\ b >= \h80 => Gov' = b /\ Data' = <<>> /\ Orph' = <<>>
         /\ b < \h80 => /\ Gov' = Gov
                        /\ Data' = Append(Data, b)
                        /\ Orph' = IF Idle(Gov, Data) THEN Append(Orph, b) ELSE <<>>
         /\ ~Idle(Gov, Data) => Orph = <<>>
<1>1. wire \in Seq(StreamBytes)
  BY DEF Means
<1> QED BY <1>1, NextByte, OrphansIs DEF Gov, Data, Orph, WireTypes

\* A new parser means the empty history.
LEMMA InitMeans == HInit => Means
<1> SUFFICES ASSUME HInit PROVE Means
  OBVIOUS
<1>1. wire = <<>> /\ wire \in Seq(StreamBytes)
  BY DEF HInit
<1>2. IsStatusPos(0, wire)
  BY <1>1 DEF IsStatusPos
<1>3. Promise!StatusPos(wire) = 0
  BY <1>1, <1>2, StatusPosIs
<1>4. Gov = 0 /\ Data = <<>>
  BY <1>1, <1>3, SubSeqEmpty DEF Gov, Data, Promise!Governing, Promise!DataAfter
<1>5. Orph = <<>>
  BY <1>4 DEF Orph, Data, Gov, Promise!Orphans
<1>6. Promise!FirstOf(OrphanPrefixBytes, <<>>) = <<>>
  BY DEF Promise!FirstOf
<1> QED BY <1>1, <1>4, <1>5, <1>6
     DEF HInit, Init, Means, SysexMeans, StatusMeans, PendingMeans, OrphanMeans, ChannelStatus, None

\* After a status byte the state is the one that status starts with.
Fresh(b) == /\ in_sysex' <=> b = \hF0
            /\ b = \hF0 => ~sysex_overflow' /\ sysex_buf' = <<>>
            /\ running_status' = IF b \in ChannelStatus THEN b ELSE None
            /\ system_common_status' = IF b \in \hF1..\hF3 THEN b ELSE None
            /\ pending' = <<>>
            /\ orphan_len' = 0
            /\ orphan_buf' = <<>>

\* A fresh state means the history that ends in its status byte.
LEMMA FreshMeans ==
  ASSUME Means, FlagsOK, FlagsOK',
         NEW b \in StreamBytes, b >= \h80, wire' = Append(wire, b), Fresh(b)
  PROVE  Means'
<1>1. /\ wire' \in Seq(StreamBytes)
      /\ Gov' = b /\ Data' = <<>> /\ Orph' = <<>>
  BY ByteStep
<1>2. SysexMeans'
  <2>1. ~(Len(<<>>) > MaxSysexBytes)
    OBVIOUS
  <2> QED BY <1>1, <2>1, Zenon DEF SysexMeans, Fresh
<1>3. StatusMeans'
  <2>1. b \in \hF1..\hF3 => Len(<<>>) < Needed(b)
    BY NeededValues
  <2> QED BY <1>1, <2>1 DEF StatusMeans, Fresh
<1>4. PendingMeans'
  <2>1. b \in ChannelStatus => Len(<<>>) % Needed(b) = 0
    BY NeededValues
  <2> QED BY <1>1, <2>1 DEF PendingMeans, Fresh
<1>5. OrphanMeans'
  <2>1. Promise!FirstOf(OrphanPrefixBytes, <<>>) = <<>>
    BY DEF Promise!FirstOf
  <2> QED BY <1>1, <2>1 DEF OrphanMeans, Fresh
<1> QED BY <1>1, <1>2, <1>3, <1>4, <1>5 DEF Means

\* No orphans are held while a message is collected, and none means no prefix.
LEMMA NoOrphans ==
  ASSUME Means, FlagsOK, Consistent
  PROVE  /\ in_sysex => orphan_len = 0
         /\ orphan_len = 0 => orphan_buf = <<>>
         /\ orphan_len > 0 => running_status = None /\ system_common_status = None
BY DEF Means, OrphanMeans, Consistent, DataOK, OneMode, OrphanLength

\* Every status byte leaves the state its message starts with.
LEMMA StatusFresh ==
  ASSUME Means, FlagsOK, Consistent, NEW b \in StreamBytes, b >= \h80, Push(b)
  PROVE  Fresh(b)
<1>0. /\ in_sysex => orphan_len = 0
      /\ orphan_len = 0 => orphan_buf = <<>>
      /\ in_sysex \in BOOLEAN /\ sysex_overflow \in BOOLEAN
      /\ orphan_len \in Nat
      /\ b \in \h80..\hF7 /\ ~(b \in DataByte)
  BY NoOrphans, ByteSets DEF FlagsOK, Consistent, DataOK
<1>1. CASE SysexStart(b)
  <2>1. sysex_overflow' = FALSE
    BY <1>0, <1>1, Zenon DEF SysexStart, Consistent, SysexContained
  <2>2. b = \hF0 /\ b \notin ChannelStatus /\ b \notin \hF1..\hF3
    BY <1>1 DEF SysexStart, ChannelStatus
  <2>3. in_sysex' = TRUE /\ sysex_buf' = <<>> /\ pending' = <<>> /\ running_status' = None
        /\ system_common_status' = None /\ orphan_len' = 0 /\ orphan_buf' = <<>>
    BY <1>0, <1>1 DEF SysexStart, FlushOrphans
  <2> QED BY <2>1, <2>2, <2>3, Zenon DEF Fresh
<1>2. CASE SysexEnd(b)
  <2>1. running_status = None /\ system_common_status = None /\ pending = <<>>
    BY <1>2 DEF SysexEnd, Consistent, OneMode, NeverWedged
  <2>2. b = \hF7 /\ b \notin ChannelStatus /\ b \notin \hF1..\hF3
    BY <1>2 DEF SysexEnd, ChannelStatus
  <2>3. in_sysex' = FALSE /\ pending' = pending /\ running_status' = running_status
        /\ system_common_status' = system_common_status
        /\ orphan_len' = orphan_len /\ orphan_buf' = orphan_buf /\ in_sysex
    BY <1>2, Zenon DEF SysexEnd, statusVars, orphanVars
  <2> QED BY <1>0, <2>1, <2>2, <2>3 DEF Fresh
<1>3. CASE SysexAbortedByChannel(b)
  <2>1. b \in ChannelStatus /\ b # \hF0 /\ b \notin \hF1..\hF3
    BY <1>3 DEF SysexAbortedByChannel, ChannelStatus
  <2>2. system_common_status = None
    BY <1>3 DEF SysexAbortedByChannel, Consistent, OneMode
  <2>3. in_sysex' = FALSE /\ pending' = <<>> /\ running_status' = b /\ in_sysex
        /\ system_common_status' = system_common_status
        /\ orphan_len' = orphan_len /\ orphan_buf' = orphan_buf
    BY <1>3, Zenon DEF SysexAbortedByChannel, AbortSysex, StartStatus, orphanVars
  <2> QED BY <1>0, <2>1, <2>2, <2>3 DEF Fresh
<1>4. CASE SysexAbortedBySystem(b)
  <2>1. b \notin ChannelStatus /\ b # \hF0 /\ (b <= \hF3 <=> b \in \hF1..\hF3)
    BY <1>4 DEF SysexAbortedBySystem, ChannelStatus, SystemCommonStatus
  <2>2. in_sysex' = FALSE /\ pending' = <<>> /\ running_status' = None /\ in_sysex
        /\ system_common_status' = (IF b <= \hF3 THEN b ELSE None)
        /\ orphan_len' = orphan_len /\ orphan_buf' = orphan_buf
    BY <1>4, Zenon DEF SysexAbortedBySystem, AbortSysex, HandleSystemCommon, orphanVars
  <2> QED BY <1>0, <2>1, <2>2 DEF Fresh
<1>5. CASE OrphanEnd(b)
  <2>1. b = \hF7 /\ b \notin ChannelStatus /\ b \notin \hF1..\hF3 /\ ~in_sysex /\ orphan_len > 0
    BY <1>5 DEF OrphanEnd, ChannelStatus
  <2>2. running_status = None /\ system_common_status = None /\ pending = <<>>
    BY <2>1, NoOrphans DEF Consistent, NeverWedged
  <2>3. in_sysex' = in_sysex /\ pending' = pending /\ running_status' = running_status
        /\ system_common_status' = system_common_status
        /\ orphan_len' = 0 /\ orphan_buf' = <<>>
    BY <1>5, Zenon DEF OrphanEnd, statusVars, sysexVars
  <2> QED BY <1>0, <2>1, <2>2, <2>3 DEF Fresh
<1>6. CASE ChannelStatusByte(b)
  <2>1. b \in ChannelStatus /\ b # \hF0 /\ b \notin \hF1..\hF3 /\ ~in_sysex
    BY <1>6 DEF ChannelStatusByte, ChannelStatus
  <2>2. in_sysex' = in_sysex /\ pending' = <<>> /\ running_status' = b
        /\ system_common_status' = None /\ orphan_len' = 0
        /\ orphan_buf' = IF orphan_len = 0 THEN orphan_buf ELSE <<>>
    BY <1>6, Zenon DEF ChannelStatusByte, StartStatus, FlushOrphans, sysexVars
  <2> QED BY <1>0, <2>1, <2>2 DEF Fresh
<1>7. CASE SystemCommonByte(b)
  <2>1. b \notin ChannelStatus /\ b # \hF0 /\ (b <= \hF3 <=> b \in \hF1..\hF3) /\ ~in_sysex
    BY <1>7 DEF SystemCommonByte, ChannelStatus, SystemCommonStatus
  <2>2. in_sysex' = in_sysex /\ pending' = <<>> /\ running_status' = None
        /\ system_common_status' = (IF b <= \hF3 THEN b ELSE None)
        /\ orphan_len' = 0 /\ orphan_buf' = IF orphan_len = 0 THEN orphan_buf ELSE <<>>
    BY <1>7, Zenon DEF SystemCommonByte, HandleSystemCommon, FlushOrphans, sysexVars
  <2> QED BY <1>0, <2>1, <2>2 DEF Fresh
<1>8. ~Realtime(b)
  BY <1>0 DEF Realtime
<1>9. ~SysexData(b) /\ ~SysexOverflow(b) /\ ~SysexSkipped(b) /\ ~SystemCommonData(b)
      /\ ~RunningData(b) /\ ~OrphanData(b)
  BY <1>0, Zenon DEF SysexData, SysexOverflow, SysexSkipped, SystemCommonData, RunningData,
                     OrphanData
<1> QED BY <1>1, <1>2, <1>3, <1>4, <1>5, <1>6, <1>7, <1>8, <1>9, Zenon DEF Push

-----------------------------------------------------------------------------
(* Data bytes.                                                             *)

\* The event of the message that status and the last data bytes complete.
Whole(status, data) == <<Decode(<<status>> \o Promise!LastOf(Needed(status), data))>>

\* MidiStream's event of a data byte, by governing status.
LEMMA AfterDataIs ==
  ASSUME NEW b
  PROVE  LET e    == Promise!AfterData(wire, b)
             data == Append(Data, b)
         IN /\ Gov \in ChannelStatus =>
                 e = IF Len(data) % Needed(Gov) = 0 THEN Whole(Gov, data) ELSE <<>>
            /\ Gov \in \hF1..\hF3 =>
                 e = IF Len(data) = Needed(Gov) THEN Whole(Gov, data) ELSE <<>>
            /\ Gov = \hF0 =>
                 e = IF Len(data) = MaxSysexBytes + 1
                     THEN <<ErrorEvent("SysexTooLong", <<>>)>> ELSE <<>>
            /\ Gov \in Unowned => e = <<>>
<1> DEFINE data == Append(Data, b)
           e == Promise!AfterData(wire, b)
<1>1. /\ ChannelStatus = \h80..\hEF
      /\ ~(Gov \in ChannelStatus /\ Gov \in \hF1..\hF3)
      /\ Gov = \hF0 => ~(Gov \in ChannelStatus) /\ ~(Gov \in \hF1..\hF3)
      /\ Gov \in Unowned => ~(Gov \in ChannelStatus) /\ ~(Gov \in \hF1..\hF3) /\ Gov # \hF0
  BY DEF ChannelStatus, Unowned
<1>2. e = CASE Gov \in ChannelStatus ->
                 IF Len(data) % Needed(Gov) = 0 THEN Whole(Gov, data) ELSE <<>>
            [] Gov \in \hF1..\hF3 -> IF Len(data) = Needed(Gov) THEN Whole(Gov, data) ELSE <<>>
            [] Gov = \hF0 -> IF Len(data) = MaxSysexBytes + 1
                             THEN <<ErrorEvent("SysexTooLong", <<>>)>> ELSE <<>>
            [] OTHER -> <<>>
  BY <1>1, SameCodec, Zenon DEF Promise!AfterData, Gov, Data, Whole
<1> HIDE DEF e, data
<1> DEFINE none  == <<>>
           each  == IF Len(data) % Needed(Gov) = 0 THEN Whole(Gov, data) ELSE <<>>
           once  == IF Len(data) = Needed(Gov) THEN Whole(Gov, data) ELSE <<>>
           long  == IF Len(data) = MaxSysexBytes + 1
                    THEN <<ErrorEvent("SysexTooLong", <<>>)>> ELSE <<>>
<1>3. e = CASE Gov \in ChannelStatus -> each
            [] Gov \in \hF1..\hF3 -> once
            [] Gov = \hF0 -> long
            [] OTHER -> none
  BY <1>2
<1> HIDE DEF none, each, once, long
<1>4. /\ Gov \in ChannelStatus => e = each
      /\ Gov \in \hF1..\hF3 => e = once
      /\ Gov = \hF0 => e = long
      /\ Gov \in Unowned => e = none
  BY <1>1, <1>3
<1> QED BY <1>4, Zenon DEF e, data, none, each, once, long

\* The one or two last bytes of a sequence.
LEMMA LastOfIs ==
  ASSUME NEW s \in Seq(DataByte), NEW b \in DataByte
  PROVE  LET t == Append(s, b)
         IN /\ Promise!LastOf(1, t) = <<b>>
            /\ Len(s) > 0 => Promise!LastOf(2, t) = Append(<<s[Len(s)]>>, b)
            /\ \A n \in Nat : Len(t) = n => Promise!LastOf(n, t) = t
<1> DEFINE t == Append(s, b)
<1>1. /\ Len(s) \in Nat /\ t \in Seq(DataByte) /\ Len(t) = Len(s) + 1
      /\ \A i \in 1..Len(s) : t[i] = s[i] /\ s[i] \in DataByte
      /\ t[Len(s) + 1] = b
  OBVIOUS
<1> HIDE DEF t
<1>3. Promise!LastOf(1, t) = <<b>>
  <2> DEFINE x == SubSeq(t, Len(t), Len(t))
  <2>1. x \in Seq(DataByte) /\ Len(x) = 1 /\ x[1] = b
    <3>1. \A i \in Len(t)..Len(t) : t[i] \in DataByte
      BY <1>1
    <3>2. Len(t) \in Int
      BY <1>1
    <3>3. /\ x \in Seq(DataByte) /\ Len(x) = IF Len(t) <= Len(t) THEN Len(t) - Len(t) + 1 ELSE 0
          /\ \A i \in 1..Len(t) - Len(t) + 1 : x[i] = t[Len(t) + i - 1]
      BY <3>1, <3>2, SubSeqProperties
    <3> HIDE DEF x
    <3> QED BY <1>1, <3>3
  <2> HIDE DEF x
  <2>2. <<b>> \in Seq(DataByte) /\ Len(<<b>>) = 1 /\ <<b>>[1] = b
    OBVIOUS
  <2>3. x = <<b>>
    BY <2>1, <2>2, SeqEqual
  <2>4. Len(t) - 1 + 1 = Len(t)
    BY <1>1
  <2>5. Promise!LastOf(1, t) = SubSeq(t, Len(t), Len(t))
    BY <2>4, Zenon DEF Promise!LastOf
  <2> QED BY <2>3, <2>5 DEF x
<1>4. ASSUME Len(s) > 0 PROVE Promise!LastOf(2, t) = Append(<<s[Len(s)]>>, b)
  <2> DEFINE x == SubSeq(t, Len(t) - 1, Len(t))
             y == Append(<<s[Len(s)]>>, b)
  <2>1. x \in Seq(DataByte) /\ Len(x) = 2 /\ x[1] = s[Len(s)] /\ x[2] = b
    <3>1. \A i \in Len(t) - 1..Len(t) : t[i] \in DataByte
      BY <1>1, <1>4
    <3>2. Len(t) \in Int /\ Len(t) - 1 \in Int
      BY <1>1
    <3>3. /\ x \in Seq(DataByte)
          /\ Len(x) = IF Len(t) - 1 <= Len(t) THEN Len(t) - (Len(t) - 1) + 1 ELSE 0
          /\ \A i \in 1..Len(t) - (Len(t) - 1) + 1 : x[i] = t[Len(t) - 1 + i - 1]
      BY <3>1, <3>2, SubSeqProperties
    <3> HIDE DEF x
    <3> QED BY <1>1, <1>4, <3>3
  <2>2. y \in Seq(DataByte) /\ Len(y) = 2 /\ y[1] = s[Len(s)] /\ y[2] = b
    <3>1. s[Len(s)] \in DataByte
      BY <1>1, <1>4
    <3> QED BY <3>1
  <2> HIDE DEF x, y
  <2>3. x = y
    <3>1. \A i \in 1..Len(x) : x[i] = y[i]
      BY <2>1, <2>2
    <3> QED BY <2>1, <2>2, <3>1, SeqEqual
  <2>4. Len(t) - 2 + 1 = Len(t) - 1
    BY <1>1
  <2>5. Promise!LastOf(2, t) = SubSeq(t, Len(t) - 1, Len(t))
    BY <2>4, Zenon DEF Promise!LastOf
  <2> QED BY <2>3, <2>5 DEF x, y
<1>5. ASSUME NEW n \in Nat, Len(t) = n PROVE Promise!LastOf(n, t) = t
  <2>1. Len(t) - n + 1 = 1
    BY <1>1, <1>5
  <2>2. Promise!LastOf(n, t) = SubSeq(t, 1, Len(t))
    BY <2>1, Zenon DEF Promise!LastOf
  <2> QED BY <1>1, <2>2, SubSeqFull
<1> QED BY <1>3, <1>4, <1>5 DEF t

\* The actions of status bytes take no data byte.
LEMMA StatusActions ==
  ASSUME NEW b \in DataByte
  PROVE  /\ ~Realtime(b) /\ ~SysexStart(b) /\ ~SysexEnd(b) /\ ~SysexAbortedByChannel(b)
         /\ ~SysexAbortedBySystem(b) /\ ~OrphanEnd(b) /\ ~ChannelStatusByte(b)
         /\ ~SystemCommonByte(b)
<1>1. /\ ~(b >= \hF8) /\ b # \hF0 /\ b # \hF7
      /\ ~(b \in ChannelStatus) /\ ~(b \in SystemCommonStatus)
  BY DEF DataByte, ChannelStatus, SystemCommonStatus
<1> QED BY <1>1, Zenon
     DEF Realtime, SysexStart, SysexEnd, SysexAbortedByChannel, SysexAbortedBySystem,
         OrphanEnd, ChannelStatusByte, SystemCommonByte

LEMMA Parity == \A n \in Nat : n % 2 = 0 => (n + 1) % 2 # 0
OBVIOUS

\* A data byte leaves what it means, and emits it.
LEMMA DataMeans ==
  ASSUME Means, FlagsOK, Consistent, FlagsOK',
         NEW b \in DataByte, wire' = Append(wire, b), Push(b)
  PROVE  Means' /\ events' = Promise!AfterData(wire, b)
<1>0. b \in StreamBytes /\ b < \h80 /\ b \in Nat
  BY ByteSets
<1>1. /\ Gov \in {0} \cup \h80..\hF7 /\ Data \in Seq(DataByte) /\ Orph \in Seq(DataByte)
      /\ wire' \in Seq(StreamBytes)
      /\ Gov' = Gov
      /\ Data' = Append(Data, b)
      /\ Orph' = IF Idle(Gov, Data) THEN Append(Orph, b) ELSE <<>>
      /\ ~Idle(Gov, Data) => Orph = <<>>
  BY <1>0, ByteStep DEF WireTypes
<1> DEFINE d == Append(Data, b)
<1>2. d \in Seq(DataByte) /\ Len(d) = Len(Data) + 1 /\ Len(Data) \in Nat /\ d[Len(d)] = b
      /\ Data' = d
  BY <1>1
<1> HIDE DEF d
<1>3. /\ SysexMeans /\ StatusMeans /\ PendingMeans /\ OrphanMeans
      /\ in_sysex \in BOOLEAN /\ sysex_overflow \in BOOLEAN
      /\ DataOK /\ OneMode /\ NeverWedged /\ SysexContained
  BY DEF Means, FlagsOK, Consistent
<1>4. /\ Gov \in ChannelStatus =>
           Promise!AfterData(wire, b) =
             IF Len(d) % Needed(Gov) = 0 THEN Whole(Gov, d) ELSE <<>>
      /\ Gov \in \hF1..\hF3 =>
           Promise!AfterData(wire, b) = IF Len(d) = Needed(Gov) THEN Whole(Gov, d) ELSE <<>>
      /\ Gov = \hF0 =>
           Promise!AfterData(wire, b) = IF Len(d) = MaxSysexBytes + 1
                                        THEN <<ErrorEvent("SysexTooLong", <<>>)>> ELSE <<>>
      /\ Gov \in Unowned => Promise!AfterData(wire, b) = <<>>
  BY AfterDataIs DEF d
\* A byte that is not an orphan leaves no orphans.
<1>5. ASSUME ~Idle(Gov, Data), orphan_len' = orphan_len, orphan_buf' = orphan_buf
      PROVE  OrphanMeans'
  <2>1. Orph = <<>> /\ Orph' = <<>>
    BY <1>1, <1>5
  <2> QED BY <1>3, <1>5, <2>1, Zenon DEF OrphanMeans
<1>6. CASE in_sysex
  <2>1. /\ Gov = \hF0 /\ ~(Gov \in ChannelStatus) /\ ~(Gov \in \hF1..\hF3)
        /\ ~Idle(Gov, Data)
        /\ sysex_overflow <=> Len(Data) > MaxSysexBytes
        /\ ~sysex_overflow => sysex_buf = Data
    BY <1>3, <1>6 DEF SysexMeans, ChannelStatus, Idle, Unowned
  <2>2. ~SystemCommonData(b) /\ ~RunningData(b) /\ ~OrphanData(b)
    BY <1>6, Zenon DEF SystemCommonData, RunningData, OrphanData
  <2>3. SysexData(b) \/ SysexOverflow(b) \/ SysexSkipped(b)
    <3>1. ~Realtime(b) /\ ~SysexStart(b) /\ ~SysexEnd(b) /\ ~SysexAbortedByChannel(b)
          /\ ~SysexAbortedBySystem(b) /\ ~OrphanEnd(b) /\ ~ChannelStatusByte(b)
          /\ ~SystemCommonByte(b)
      BY StatusActions
    <3> QED BY <2>2, <3>1, Zenon DEF Push
  <2>4. /\ in_sysex' = in_sysex
        /\ running_status' = running_status /\ system_common_status' = system_common_status
        /\ pending' = pending /\ orphan_len' = orphan_len /\ orphan_buf' = orphan_buf
    BY <2>3, Zenon DEF SysexData, SysexOverflow, SysexSkipped, sysexVars, statusVars, orphanVars
  <2>5. /\ sysex_overflow' <=> Len(d) > MaxSysexBytes
        /\ ~sysex_overflow' => sysex_buf' = d
        /\ events' = IF Len(d) = MaxSysexBytes + 1
                     THEN <<ErrorEvent("SysexTooLong", <<>>)>> ELSE <<>>
    <3>1. CASE SysexData(b)
      <4>1. /\ ~sysex_overflow /\ sysex_overflow' = sysex_overflow
            /\ sysex_buf' = Append(sysex_buf, b) /\ events' = <<>>
            /\ Len(sysex_buf) + 1 <= MaxSysexBytes
        BY <3>1, Zenon DEF SysexData
      <4>2. sysex_buf' = d
        BY <2>1, <4>1, Zenon DEF d
      <4>3. Len(d) <= MaxSysexBytes
        BY <1>2, <2>1, <4>1
      <4>4. ~(Len(d) > MaxSysexBytes) /\ ~(Len(d) = MaxSysexBytes + 1)
        BY <1>2, <4>3
      <4> QED BY <4>1, <4>2, <4>4, Zenon
    <3>2. CASE SysexOverflow(b)
      <4>1. /\ ~sysex_overflow /\ sysex_overflow' = TRUE
            /\ events' = <<ErrorEvent("SysexTooLong", <<>>)>>
            /\ Len(sysex_buf) + 1 > MaxSysexBytes
        BY <3>2, Zenon DEF SysexOverflow
      <4>2. Len(d) = MaxSysexBytes + 1 /\ Len(d) > MaxSysexBytes
        BY <1>2, <2>1, <4>1
      <4> QED BY <4>1, <4>2, Zenon
    <3>3. CASE SysexSkipped(b)
      <4>1. sysex_overflow /\ sysex_overflow' = sysex_overflow /\ events' = <<>>
        BY <3>3, Zenon DEF SysexSkipped, sysexVars
      <4>2. Len(d) > MaxSysexBytes /\ ~(Len(d) = MaxSysexBytes + 1)
        BY <1>2, <2>1, <4>1
      <4> QED BY <4>1, <4>2, Zenon
    <3> QED BY <2>3, <3>1, <3>2, <3>3
  <2>6. SysexMeans'
    <3>1. Gov' = \hF0 /\ Data' = d /\ in_sysex' = TRUE
      BY <1>1, <1>2, <1>3, <1>6, <2>1, <2>4, Zenon
    <3> QED BY <2>5, <3>1, Zenon DEF SysexMeans
  <2>7. StatusMeans' /\ PendingMeans'
    <3>1. running_status = None /\ system_common_status = None
      BY <1>3, <2>1, Zenon DEF StatusMeans
    <3>2. ~(Gov' \in ChannelStatus) /\ ~(Gov' \in \hF1..\hF3)
      BY <1>1, <2>1, Zenon
    <3> QED BY <2>4, <3>1, <3>2, Zenon DEF StatusMeans, PendingMeans
  <2>8. OrphanMeans'
    BY <1>5, <2>1, <2>4
  <2>9. events' = Promise!AfterData(wire, b)
    BY <1>4, <2>1, <2>5, Zenon
  <2> QED BY <1>1, <2>6, <2>7, <2>8, <2>9 DEF Means
<1>7. CASE ~in_sysex
  <2>1. Gov # \hF0
    BY <1>3, <1>7 DEF SysexMeans
  <2>2. SystemCommonData(b) \/ RunningData(b) \/ OrphanData(b)
    <3>1. ~Realtime(b) /\ ~SysexStart(b) /\ ~SysexEnd(b) /\ ~SysexAbortedByChannel(b)
          /\ ~SysexAbortedBySystem(b) /\ ~OrphanEnd(b) /\ ~ChannelStatusByte(b)
          /\ ~SystemCommonByte(b)
      BY StatusActions
    <3>2. ~SysexData(b) /\ ~SysexOverflow(b) /\ ~SysexSkipped(b)
      BY <1>7, Zenon DEF SysexData, SysexOverflow, SysexSkipped
    <3> QED BY <3>1, <3>2, Zenon DEF Push
  <2>3. in_sysex' = in_sysex
    BY <2>2, Zenon DEF SystemCommonData, RunningData, OrphanData, sysexVars
  <2>4. SysexMeans'
    BY <1>1, <1>7, <2>1, <2>3, Zenon DEF SysexMeans
  <2>5. CASE SystemCommonData(b)
    <3> DEFINE data == Append(pending, b)
               full == Len(data) = Needed(system_common_status)
    <3>1. /\ system_common_status # None
          /\ pending' = IF full THEN <<>> ELSE data
          /\ system_common_status' = IF full THEN None ELSE system_common_status
          /\ events' = IF full THEN <<Decode(<<system_common_status>> \o data)>> ELSE <<>>
          /\ running_status' = running_status
          /\ orphan_len' = orphan_len /\ orphan_buf' = orphan_buf
      BY <2>5, Zenon DEF SystemCommonData, orphanVars
    <3>2. /\ Gov \in \hF1..\hF3 /\ Len(Data) < Needed(Gov) /\ system_common_status = Gov
          /\ ~(Gov \in ChannelStatus) /\ Gov # None
      <4>1. Gov \in \hF1..\hF3 /\ Len(Data) < Needed(Gov) /\ system_common_status = Gov
        BY <1>3, <3>1, Zenon DEF StatusMeans
      <4> QED BY <4>1 DEF ChannelStatus, None
    <3>3. pending = Data /\ data = d /\ Needed(Gov) \in 1..2
      BY <1>3, <3>2, NeededValues DEF PendingMeans, d
    <3>4. ~Idle(Gov, Data)
      BY <1>2, <3>2, <3>3 DEF Idle, Unowned
    <3> HIDE DEF data
    <3>5. /\ full <=> Len(d) = Needed(Gov)
          /\ Len(d) < Needed(Gov) <=> ~full
      BY <1>2, <3>2, <3>3
    <3>6. full => Whole(Gov, d) = <<Decode(<<system_common_status>> \o data)>>
      <4>1. ASSUME full PROVE Promise!LastOf(Needed(Gov), d) = d
        <5>1. Needed(Gov) \in Nat
          BY <3>3
        <5> QED BY <1>1, <3>5, <4>1, <5>1, LastOfIs DEF d
      <4> QED BY <3>2, <3>3, <4>1, Zenon DEF Whole
    <3> HIDE DEF full
    <3>7. StatusMeans'
      BY <1>1, <1>2, <1>3, <3>1, <3>2, <3>5, Zenon DEF StatusMeans
    <3>8. PendingMeans'
      BY <1>1, <1>2, <3>1, <3>2, <3>3, <3>5, Zenon DEF PendingMeans
    <3>9. OrphanMeans'
      BY <1>5, <3>1, <3>4
    <3>10. events' = Promise!AfterData(wire, b)
      BY <1>4, <3>1, <3>2, <3>5, <3>6, Zenon
    <3> QED BY <1>1, <2>4, <3>7, <3>8, <3>9, <3>10 DEF Means
  <2>6. CASE RunningData(b)
    <3> DEFINE data == Append(pending, b)
               full == Needed(running_status) > 0 /\ Len(data) = Needed(running_status)
    <3>1. /\ running_status # None
          /\ pending' = IF full THEN <<>> ELSE data
          /\ system_common_status' = system_common_status
          /\ events' = IF full THEN <<Decode(<<running_status>> \o data)>> ELSE <<>>
          /\ running_status' = running_status
          /\ orphan_len' = orphan_len /\ orphan_buf' = orphan_buf
      BY <2>6, Zenon DEF RunningData, orphanVars
    <3>2. /\ Gov \in ChannelStatus /\ running_status = Gov /\ ~(Gov \in \hF1..\hF3)
          /\ Gov # None
      <4>1. Gov \in ChannelStatus /\ running_status = Gov
        BY <1>3, <3>1, Zenon DEF StatusMeans
      <4> QED BY <4>1 DEF ChannelStatus, None
    <3>3. Needed(Gov) \in 1..2 /\ ~Idle(Gov, Data)
      <4>1. Gov \notin Unowned
        BY <3>2 DEF Unowned, ChannelStatus
      <4> QED BY <3>2, <4>1, NeededValues DEF Idle
    <3>4. pending = IF Len(Data) % Needed(Gov) = 0 THEN <<>> ELSE <<Data[Len(Data)]>>
      BY <1>3, <3>2 DEF PendingMeans
    <3>5. /\ full <=> Len(d) % Needed(Gov) = 0
          /\ full => data = Promise!LastOf(Needed(Gov), d)
          /\ ~full => data = <<b>>
      <4>0. /\ Promise!LastOf(1, d) = <<b>>
            /\ Len(Data) > 0 => Promise!LastOf(2, d) = Append(<<Data[Len(Data)]>>, b)
        BY <1>1, LastOfIs DEF d
      <4>1. CASE Len(Data) % Needed(Gov) = 0
        <5>1. data = <<b>> /\ Len(data) = 1
          BY <3>4, <4>1
        <5> HIDE DEF data
        <5>2. CASE Needed(Gov) = 1
          <6>1. full /\ Len(d) % Needed(Gov) = 0
            BY <1>2, <3>2, <5>1, <5>2
          <6> QED BY <4>0, <5>1, <5>2, <6>1, Zenon
        <5>3. CASE Needed(Gov) = 2
          <6>1. ~full /\ Len(d) % Needed(Gov) # 0
            BY <1>2, <3>2, <4>1, <5>1, <5>3, Parity
          <6> QED BY <5>1, <6>1, Zenon
        <5> QED BY <3>3, <5>2, <5>3
      <4>2. CASE Len(Data) % Needed(Gov) # 0
        <5>1. Needed(Gov) = 2 /\ Len(Data) > 0 /\ Len(d) % Needed(Gov) = 0
          BY <1>2, <3>3, <4>2
        <5>2. data = Append(<<Data[Len(Data)]>>, b)
          BY <3>4, <4>2
        <5>3. Len(data) = 2
          BY <5>2
        <5> HIDE DEF data
        <5>4. full
          BY <3>2, <5>1, <5>3
        <5> QED BY <4>0, <5>1, <5>2, <5>4, Zenon
      <4> QED BY <4>1, <4>2
    <3> HIDE DEF data, full
    <3>6. StatusMeans'
      BY <1>1, <1>3, <3>1, <3>2, Zenon DEF StatusMeans
    <3>7. PendingMeans'
      <4>1. pending' = IF Len(d) % Needed(Gov) = 0 THEN <<>> ELSE <<d[Len(d)]>>
        BY <1>2, <3>1, <3>5, Zenon
      <4>2. Gov' = Gov /\ Data' = d
        BY <1>1, <1>2
      <4>3. /\ pending' = IF Len(Data') % Needed(Gov') = 0 THEN <<>> ELSE <<Data'[Len(Data')]>>
            /\ ~(Gov' \in \hF1..\hF3)
        BY <3>2, <4>1, <4>2, Zenon
      <4> QED BY <4>3, Zenon DEF PendingMeans
    <3>8. OrphanMeans'
      BY <1>5, <3>1, <3>3
    <3>9. events' = Promise!AfterData(wire, b)
      <4>1. full => Whole(Gov, d) = <<Decode(<<running_status>> \o data)>>
        BY <3>2, <3>5, Zenon DEF Whole
      <4> QED BY <1>4, <3>1, <3>2, <3>5, <4>1, Zenon
    <3> QED BY <1>1, <2>4, <3>6, <3>7, <3>8, <3>9 DEF Means
  <2>7. CASE OrphanData(b)
    <3>1. /\ running_status = None /\ system_common_status = None
          /\ orphan_buf' = OrphanPrefix(b) /\ orphan_len' = orphan_len + 1 /\ events' = <<>>
          /\ running_status' = running_status /\ system_common_status' = system_common_status
          /\ pending' = pending
      BY <2>7, Zenon DEF OrphanData, statusVars
    <3>2. /\ ~(Gov \in ChannelStatus)
          /\ Gov \in \hF1..\hF3 => ~(Len(Data) < Needed(Gov)) /\ Needed(Gov) \in 1..2
      <4>1. Gov \in \hF1..\hF3 => Needed(Gov) \in 1..2
        BY NeededValues
      <4> QED BY <1>3, <3>1, <4>1 DEF StatusMeans, ChannelStatus, None
    <3>3. Idle(Gov, Data) /\ (Gov \in Unowned \/ Gov \in \hF1..\hF3)
      BY <1>1, <1>2, <2>1, <3>2 DEF Idle, Unowned, ChannelStatus
    <3>4. Gov \in \hF1..\hF3 => ~(Len(d) < Needed(Gov)) /\ Len(d) # Needed(Gov)
      BY <1>2, <3>2
    <3>5. StatusMeans' /\ PendingMeans'
      BY <1>1, <1>2, <1>3, <3>1, <3>2, <3>4, Zenon DEF StatusMeans, PendingMeans
    <3>6. OrphanMeans'
      <4>1. Orph' = Append(Orph, b) /\ Orph \in Seq(DataByte) /\ orphan_len = Len(Orph)
            /\ orphan_buf = Promise!FirstOf(OrphanPrefixBytes, Orph)
        BY <1>1, <1>3, <3>3 DEF OrphanMeans
      <4>2. orphan_len' = Len(Orph')
        BY <3>1, <4>1
      <4>3. Orph \in Seq(StreamBytes) /\ OrphanPrefixBytes \in Nat
        BY <4>1, ByteSets
      <4>4. Promise!FirstOf(OrphanPrefixBytes, Append(Orph, b)) =
              IF Len(orphan_buf) < OrphanPrefixBytes THEN Append(orphan_buf, b) ELSE orphan_buf
        BY <1>0, <4>1, <4>3, FirstOfIs
      <4> QED BY <3>1, <4>1, <4>2, <4>4, Zenon DEF OrphanMeans, OrphanPrefix
    <3>7. events' = Promise!AfterData(wire, b)
      BY <1>4, <3>1, <3>3, <3>4, Zenon
    <3> QED BY <1>1, <2>4, <3>5, <3>6, <3>7 DEF Means
  <2> QED BY <2>2, <2>5, <2>6, <2>7
<1> QED BY <1>3, <1>6, <1>7

-----------------------------------------------------------------------------
(* Status bytes.                                                           *)

LEMMA NothingConcat ==
  /\ \A x : <<>> \o <<x>> = <<x>> /\ <<x>> \o <<>> = <<x>>
  /\ <<>> \o <<>> = <<>>
<1>1. ASSUME NEW x PROVE <<>> \o <<x>> = <<x>> /\ <<x>> \o <<>> = <<x>>
  <2>1. <<x>> \in Seq({x})
    OBVIOUS
  <2> QED BY <2>1, ConcatEmptySeq
<1>2. <<>> \o <<>> = <<>>
  <2>1. <<>> \in Seq({})
    OBVIOUS
  <2> QED BY <2>1, ConcatEmptySeq
<1> QED BY <1>1, <1>2

\* What a status byte ends, in the parser's own variables.
LEMMA EndedByIs ==
  ASSUME Means, FlagsOK, Consistent, NEW b \in StreamBytes
  PROVE  LET e == Promise!EndedBy(wire, b)
         IN /\ orphan_len > 0 /\ b # \hF7 => e = <<OrphanEvent(orphan_len, orphan_buf)>>
            /\ orphan_len > 0 /\ b = \hF7 =>
                 e = <<OrphanEvent(orphan_len + 1, OrphanPrefix(b))>>
            /\ orphan_len = 0 /\ ~in_sysex => e = <<>>
            /\ in_sysex /\ b # \hF7 => e = AbortEvents
            /\ in_sysex /\ b = \hF7 =>
                 e = IF sysex_overflow THEN <<>>
                     ELSE <<DecodeSysex(EncodeSysex(sysex_buf))>>
<1> DEFINE e == Promise!EndedBy(wire, b)
           plus == Append(Orph, b)
<1>1. /\ Data \in Seq(DataByte) /\ Orph \in Seq(DataByte) /\ Len(Data) \in Nat /\ Len(Orph) \in Nat
      /\ orphan_len = Len(Orph) /\ orphan_buf = Promise!FirstOf(OrphanPrefixBytes, Orph)
      /\ orphan_len > 0 <=> Orph # <<>>
  <2>1. wire \in Seq(StreamBytes) /\ OrphanMeans
    BY DEF Means
  <2>2. Data \in Seq(DataByte) /\ Orph \in Seq(DataByte)
    BY <2>1, NextByte, OrphansIs DEF Data, Orph
  <2> QED BY <2>1, <2>2 DEF OrphanMeans
<1>2. /\ in_sysex <=> Promise!InSysex(wire)
      /\ in_sysex => /\ sysex_overflow <=> Len(Data) > MaxSysexBytes
                     /\ ~sysex_overflow => sysex_buf = Data
  BY DEF Means, SysexMeans, Promise!InSysex, Gov
<1>3. in_sysex \in BOOLEAN /\ sysex_overflow \in BOOLEAN /\ (in_sysex => orphan_len = 0)
  BY NoOrphans DEF FlagsOK
<1>4. e = IF Orph # <<>>
          THEN <<OrphanEvent(Len(IF b = \hF7 THEN plus ELSE Orph),
                             Promise!FirstOf(OrphanPrefixBytes, IF b = \hF7 THEN plus ELSE Orph))>>
          ELSE IF ~Promise!InSysex(wire) \/ Len(Data) > MaxSysexBytes THEN <<>>
          ELSE IF b # \hF7 THEN <<ErrorEvent("UnterminatedSysex", <<\hF0>> \o Data)>>
          ELSE IF Data = <<>> THEN <<ErrorEvent("EmptySysex", EncodeSysex(Data))>>
          ELSE <<SysexEvent(Data)>>
  BY SameCodec, Zenon DEF Promise!EndedBy, Orph, Data
<1> HIDE DEF e
<1>5. ASSUME orphan_len > 0, b # \hF7 PROVE e = <<OrphanEvent(orphan_len, orphan_buf)>>
  BY <1>1, <1>4, <1>5, Zenon
<1>6. ASSUME orphan_len > 0, b = \hF7
      PROVE  e = <<OrphanEvent(orphan_len + 1, OrphanPrefix(b))>>
  <2>1. e = <<OrphanEvent(Len(plus), Promise!FirstOf(OrphanPrefixBytes, plus))>>
    BY <1>1, <1>4, <1>6, Zenon
  <2>2. Orph \in Seq(StreamBytes) /\ OrphanPrefixBytes \in Nat
    BY <1>1, ByteSets
  <2>3. Len(plus) = orphan_len + 1
    BY <1>1, <2>2
  <2>4. Promise!FirstOf(OrphanPrefixBytes, plus) = OrphanPrefix(b)
    BY <1>1, <2>2, FirstOfIs, ZenonT(60) DEF OrphanPrefix
  <2> QED BY <2>1, <2>3, <2>4, Zenon
<1>7. ASSUME orphan_len = 0, ~in_sysex PROVE e = <<>>
  <2>1. Orph = <<>>
    BY <1>1, <1>7
  <2> QED BY <1>2, <1>4, <1>7, <2>1, Zenon
<1>8. ASSUME in_sysex PROVE Orph = <<>>
  BY <1>1, <1>3, <1>8
<1>9. ASSUME in_sysex, b # \hF7 PROVE e = AbortEvents
  BY <1>2, <1>4, <1>8, <1>9, Zenon DEF AbortEvents
<1>10. ASSUME in_sysex, b = \hF7
       PROVE  e = IF sysex_overflow THEN <<>> ELSE <<DecodeSysex(EncodeSysex(sysex_buf))>>
  <2>1. CASE sysex_overflow
    BY <1>2, <1>4, <1>8, <1>10, <2>1, Zenon
  <2>2. CASE ~sysex_overflow
    <3>1. sysex_buf = Data /\ ~(Len(Data) > MaxSysexBytes) /\ Len(Data) <= MaxSysexBytes
      BY <1>1, <1>2, <1>10, <2>2
    <3>2. DecodeSysex(EncodeSysex(Data)) =
            IF Data = <<>> THEN ErrorEvent("EmptySysex", EncodeSysex(Data)) ELSE SysexEvent(Data)
      BY <1>1, <3>1, SysexDecodes
    <3>3. e = <<DecodeSysex(EncodeSysex(Data))>>
      BY <1>2, <1>4, <1>8, <1>10, <3>1, <3>2, Zenon
    <3> QED BY <2>2, <3>1, <3>3, Zenon
  <2> QED BY <1>3, <2>1, <2>2
<1> QED BY <1>5, <1>6, <1>7, <1>9, <1>10, ZenonT(60) DEF e

\* A status byte alone decodes to what handle_system_common emits for it.
LEMMA StatusAlone ==
  /\ Decode(<<\hF6>>) = MessageEvent(Message("TuneRequest", 0, <<>>))
  /\ \A b \in \hF4..\hF5 : Decode(<<b>>) = ErrorEvent("UnrecognizedStatus", <<b>>)
  /\ Decode(<<\hF7>>) = ErrorEvent("StandaloneSysexEnd", <<\hF7>>)
<1>1. \A b : <<b>> # <<>> /\ <<b>>[1] = b /\ Len(<<b>>) = 1
  OBVIOUS
<1>2. Decode(<<\hF7>>) = ErrorEvent("StandaloneSysexEnd", <<\hF7>>)
  BY <1>1 DEF Decode
<1>3. ASSUME NEW b \in \hF4..\hF5 PROVE Decode(<<b>>) = ErrorEvent("UnrecognizedStatus", <<b>>)
  <2>1. ExpectedLen(b) = 0 /\ b # \hF0 /\ b # \hF7
    BY DEF ExpectedLen
  <2> QED BY <1>1, <2>1, Zenon DEF Decode
<1>4. Decode(<<\hF6>>) = MessageEvent(Message("TuneRequest", 0, <<>>))
  <2> DEFINE x == <<\hF6>>
  <2>0. x # <<>> /\ x[1] = \hF6 /\ Len(x) = 1
    BY <1>1
  <2> HIDE DEF x
  <2>1. ExpectedLen(\hF6) = 1
    BY DEF ExpectedLen
  <2>2. KindOf(x) = "TuneRequest"
    BY <2>0 DEF KindOf
  <2>3. ToMessage(x) = Message("TuneRequest", 0, <<>>)
    BY <2>0, <2>2 DEF ToMessage
  <2>4. /\ ~(Len(x) < ExpectedLen(x[1])) /\ ~(Len(x) > ExpectedLen(x[1]))
        /\ ~(\E i \in 2..ExpectedLen(x[1]) : x[i] > \h7F)
        /\ ~(x[1] = \hF0) /\ ~(x[1] = \hF7) /\ ~(ExpectedLen(x[1]) = 0)
    BY <2>0, <2>1
  <2>5. Decode(x) = MessageEvent(ToMessage(x))
    BY <2>0, <2>4, Zenon DEF Decode
  <2> QED BY <2>3, <2>5, Zenon DEF x
<1> QED BY <1>2, <1>3, <1>4

\* What a status byte causes by itself, in the parser's own variables.
LEMMA OwnEventIs ==
  ASSUME Means, FlagsOK, Consistent, NEW b \in StreamBytes, b >= \h80
  PROVE  LET e == Promise!OwnEvent(wire, b)
             ends == b = \hF7 /\ (in_sysex \/ orphan_len > 0)
         IN /\ b \in ChannelStatus \cup {\hF0} \/ ends => e = <<>>
            /\ b \in SystemCommonStatus /\ ~ends => e = SystemCommonEvents(b)
<1> DEFINE e == Promise!OwnEvent(wire, b)
           ends == b = \hF7 /\ (in_sysex \/ orphan_len > 0)
<1>1. /\ in_sysex <=> Promise!InSysex(wire)
      /\ orphan_len > 0 <=> Orph # <<>>
      /\ in_sysex \in BOOLEAN
  <2>1. wire \in Seq(StreamBytes) /\ OrphanMeans
    BY DEF Means
  <2>2. Orph \in Seq(DataByte)
    BY <2>1, OrphansIs DEF Orph
  <2> QED BY <2>1, <2>2 DEF OrphanMeans, Means, SysexMeans, Promise!InSysex, Gov, FlagsOK
<1>2. e = CASE b = \hF6 -> <<Decode(<<b>>)>>
            [] b \in \hF4..\hF5 -> <<ErrorEvent("UnrecognizedStatus", <<b>>)>>
            [] b = \hF7 /\ ~Promise!InSysex(wire) /\ Orph = <<>> ->
                 <<ErrorEvent("StandaloneSysexEnd", <<b>>)>>
            [] OTHER -> <<>>
  BY SameCodec, Zenon DEF Promise!OwnEvent, Orph
<1> HIDE DEF e
<1>3. b \in \h80..\hF7
  BY ByteSets
<1>4. ASSUME b \in ChannelStatus \cup {\hF0} \/ ends PROVE e = <<>>
  <2>1. b # \hF6 /\ ~(b \in \hF4..\hF5)
    BY <1>4 DEF ChannelStatus
  <2>2. ~(b = \hF7 /\ ~Promise!InSysex(wire) /\ Orph = <<>>)
    <3>1. b \in ChannelStatus \cup {\hF0} => b # \hF7
      BY DEF ChannelStatus
    <3> QED BY <1>1, <1>4, <3>1, Zenon
  <2> QED BY <1>2, <2>1, <2>2
<1>5. ASSUME b \in SystemCommonStatus, ~ends PROVE e = SystemCommonEvents(b)
  <2>1. CASE b \in \hF1..\hF3
    <3>1. /\ b # \hF6 /\ ~(b \in \hF4..\hF5) /\ b <= \hF3
          /\ ~(b = \hF7 /\ ~Promise!InSysex(wire) /\ Orph = <<>>)
      BY <2>1
    <3>2. e = <<>>
      BY <1>2, <3>1
    <3> QED BY <3>1, <3>2, Zenon DEF SystemCommonEvents
  <2>2. CASE b = \hF6
    <3>1. e = <<Decode(<<b>>)>>
      BY <1>2, <2>2
    <3>2. Decode(<<b>>) = MessageEvent(Message("TuneRequest", 0, <<>>))
      BY <2>2, StatusAlone, Zenon
    <3> QED BY <2>2, <3>1, <3>2, Zenon DEF SystemCommonEvents
  <2>3. CASE b \in \hF4..\hF5
    <3>1. b # \hF6 /\ ~(b <= \hF3)
      BY <2>3
    <3>2. e = <<ErrorEvent("UnrecognizedStatus", <<b>>)>>
      BY <1>2, <2>3, <3>1
    <3>3. Decode(<<b>>) = ErrorEvent("UnrecognizedStatus", <<b>>)
      BY <2>3, StatusAlone
    <3>4. IsError(Decode(<<b>>))
      BY <3>3 DEF IsError, ErrorEvent
    <3> QED BY <3>1, <3>2, <3>3, <3>4, Zenon DEF SystemCommonEvents
  <2>4. CASE b = \hF7
    <3>1. b # \hF6 /\ ~(b <= \hF3)
      BY <2>4
    <3>2. e = <<ErrorEvent("StandaloneSysexEnd", <<b>>)>>
      <4>1. ~Promise!InSysex(wire) /\ Orph = <<>> /\ ~(b \in \hF4..\hF5)
        BY <1>1, <1>5, <2>4
      <4> QED BY <1>2, <2>4, <3>1, <4>1
    <3>3. Decode(<<b>>) = ErrorEvent("StandaloneSysexEnd", <<b>>)
      BY <2>4, StatusAlone
    <3>4. IsError(Decode(<<b>>))
      BY <3>3 DEF IsError, ErrorEvent
    <3> QED BY <3>1, <3>2, <3>3, <3>4, Zenon DEF SystemCommonEvents
  <2>5. b \in \hF1..\hF3 \/ b = \hF6 \/ b \in \hF4..\hF5 \/ b = \hF7
    <3>1. b \in SystemCommonStatus
      BY <1>5
    <3> QED BY <3>1 DEF SystemCommonStatus
  <2> QED BY <2>1, <2>2, <2>3, <2>4, <2>5, Zenon
<1> QED BY <1>4, <1>5, Zenon DEF e, ends

\* A status byte emits what it ends and then its own event.
LEMMA StatusEvents ==
  ASSUME Means, FlagsOK, Consistent, NEW b \in StreamBytes, b >= \h80, Push(b)
  PROVE  events' = Promise!EndedBy(wire, b) \o Promise!OwnEvent(wire, b)
<1> DEFINE ended == Promise!EndedBy(wire, b)
           own == Promise!OwnEvent(wire, b)
<1>0. /\ b \in \h80..\hF7 /\ ~(b \in DataByte)
      /\ in_sysex \in BOOLEAN /\ sysex_overflow \in BOOLEAN /\ orphan_len \in Nat
      /\ orphan_len = 0 \/ orphan_len > 0
      /\ in_sysex => orphan_len = 0
  BY ByteSets, NoOrphans DEF FlagsOK, Consistent, DataOK
<1>1. /\ orphan_len > 0 /\ b # \hF7 => ended = <<OrphanEvent(orphan_len, orphan_buf)>>
      /\ orphan_len > 0 /\ b = \hF7 => ended = <<OrphanEvent(orphan_len + 1, OrphanPrefix(b))>>
      /\ orphan_len = 0 /\ ~in_sysex => ended = <<>>
      /\ in_sysex /\ b # \hF7 => ended = AbortEvents
      /\ in_sysex /\ b = \hF7 =>
           ended = IF sysex_overflow THEN <<>> ELSE <<DecodeSysex(EncodeSysex(sysex_buf))>>
  BY EndedByIs
<1>2. /\ b \in ChannelStatus \cup {\hF0} => own = <<>>
      /\ b = \hF7 /\ (in_sysex \/ orphan_len > 0) => own = <<>>
      /\ b \in SystemCommonStatus /\ ~(b = \hF7 /\ (in_sysex \/ orphan_len > 0)) =>
           own = SystemCommonEvents(b)
  BY OwnEventIs
<1> HIDE DEF ended, own
<1>3. ~in_sysex /\ b # \hF7 => ended = FlushEvents
  <2>1. orphan_len > 0 => orphan_len # 0
    BY <1>0
  <2> QED BY <1>0, <1>1, <2>1, Zenon DEF FlushEvents
<1>4. /\ AbortEvents \o <<>> = AbortEvents
      /\ FlushEvents \o <<>> = FlushEvents
      /\ <<>> \o AbortEvents = AbortEvents
  BY NothingConcat, ZenonT(60) DEF AbortEvents, FlushEvents
<1>5. CASE SysexStart(b)
  <2>1. b = \hF0 /\ b # \hF7 /\ b \in ChannelStatus \cup {\hF0}
    BY <1>5 DEF SysexStart
  <2>2. events' = FlushEvents \o (IF in_sysex THEN AbortEvents ELSE <<>>)
    BY <1>5, Zenon DEF SysexStart
  <2>3. in_sysex => FlushEvents = <<>>
    BY <1>0, Zenon DEF FlushEvents
  <2>4. own = <<>> /\ events' = ended
    <3>1. own = <<>>
      BY <1>2, <2>1, Zenon
    <3>0. b # \hF7
      BY <2>1
    <3>2. CASE in_sysex
      <4>1. ended = AbortEvents
        BY <1>1, <3>0, <3>2, Zenon
      <4>2. events' = <<>> \o AbortEvents
        BY <2>2, <2>3, <3>2, Zenon
      <4> QED BY <1>4, <3>1, <4>1, <4>2, Zenon
    <3>3. CASE ~in_sysex
      <4>1. ended = FlushEvents
        BY <1>3, <3>0, <3>3, Zenon
      <4>2. events' = FlushEvents \o <<>>
        BY <2>2, <3>3, Zenon
      <4> QED BY <1>4, <3>1, <4>1, <4>2, Zenon
    <3> QED BY <1>0, <3>2, <3>3
  <2>5. ended = AbortEvents \/ ended = FlushEvents
    BY <1>0, <1>1, <1>3, <2>1, Zenon
  <2> QED BY <1>4, <2>4, <2>5, Zenon DEF ended, own
<1>6. CASE SysexEnd(b)
  <2>1. in_sysex /\ b = \hF7
        /\ events' = IF sysex_overflow THEN <<>> ELSE <<DecodeSysex(EncodeSysex(sysex_buf))>>
    BY <1>6, Zenon DEF SysexEnd
  <2>2. own = <<>> /\ events' = ended
    BY <1>1, <1>2, <2>1, Zenon
  <2>3. ended \o <<>> = ended
    BY <1>1, <2>1, NothingConcat, ZenonT(60)
  <2> QED BY <2>2, <2>3, Zenon DEF ended, own
<1>7. CASE SysexAbortedByChannel(b)
  <2>1. in_sysex /\ b \in ChannelStatus /\ b # \hF7 /\ events' = AbortEvents
    BY <1>7 DEF SysexAbortedByChannel, ChannelStatus
  <2>2. own = <<>> /\ ended = AbortEvents
    BY <1>1, <1>2, <2>1, Zenon
  <2> QED BY <1>4, <2>1, <2>2, Zenon DEF ended, own
<1>8. CASE SysexAbortedBySystem(b)
  <2>1. in_sysex /\ b \in SystemCommonStatus /\ b # \hF7
        /\ events' = AbortEvents \o SystemCommonEvents(b)
    BY <1>8, Zenon DEF SysexAbortedBySystem
  <2>2. own = SystemCommonEvents(b) /\ ended = AbortEvents
    BY <1>1, <1>2, <2>1, Zenon
  <2> QED BY <2>1, <2>2, Zenon DEF ended, own
<1>9. CASE OrphanEnd(b)
  <2>1. b = \hF7 /\ orphan_len > 0
        /\ events' = <<OrphanEvent(orphan_len + 1, OrphanPrefix(b))>>
    BY <1>9, Zenon DEF OrphanEnd
  <2>2. own = <<>> /\ ended = events'
    BY <1>1, <1>2, <2>1, Zenon
  <2>3. events' \o <<>> = events'
    BY <2>1, NothingConcat
  <2> QED BY <2>2, <2>3, Zenon DEF ended, own
<1>10. CASE ChannelStatusByte(b)
  <2>1. ~in_sysex /\ b \in ChannelStatus /\ b # \hF7 /\ events' = FlushEvents
    BY <1>10 DEF ChannelStatusByte, ChannelStatus
  <2>2. own = <<>> /\ ended = FlushEvents
    BY <1>2, <1>3, <2>1, Zenon
  <2> QED BY <1>4, <2>1, <2>2, Zenon DEF ended, own
<1>11. CASE SystemCommonByte(b)
  <2>1. ~in_sysex /\ b \in SystemCommonStatus /\ ~(b = \hF7 /\ orphan_len > 0)
        /\ events' = FlushEvents \o SystemCommonEvents(b)
    BY <1>11, Zenon DEF SystemCommonByte
  <2>2. own = SystemCommonEvents(b)
    BY <1>2, <2>1, Zenon
  <2>3. ended = FlushEvents
    <3>1. b = \hF7 => ended = <<>> /\ FlushEvents = <<>>
      BY <1>0, <1>1, <2>1, Zenon DEF FlushEvents
    <3> QED BY <1>3, <2>1, <3>1, Zenon
  <2> QED BY <2>1, <2>2, <2>3, Zenon DEF ended, own
<1>12. ~Realtime(b)
  BY <1>0 DEF Realtime
<1>13. ~SysexData(b) /\ ~SysexOverflow(b) /\ ~SysexSkipped(b) /\ ~SystemCommonData(b)
       /\ ~RunningData(b) /\ ~OrphanData(b)
  BY <1>0, Zenon DEF SysexData, SysexOverflow, SysexSkipped, SystemCommonData, RunningData,
                     OrphanData
<1> QED BY <1>5, <1>6, <1>7, <1>8, <1>9, <1>10, <1>11, <1>12, <1>13, Zenon DEF Push

\* A realtime byte is decoded by itself and leaves everything as it was.
LEMMA RealtimeStep ==
  ASSUME NEW b \in Bytes, b >= \hF8, Push(b), FlagsOK, Consistent
  PROVE  events' = <<Decode(<<b>>)>> /\ UNCHANGED <<statusVars, sysexVars, orphanVars>>
<1>1. Realtime(b)
  <2>1. b \in \hF8..\hFF
    BY DEF Byte
  <2>2. /\ b # \hF0 /\ b # \hF7 /\ ~(b \in ChannelStatus) /\ ~(b \in SystemCommonStatus)
        /\ ~(b \in DataByte)
    BY <2>1 DEF ChannelStatus, SystemCommonStatus, DataByte
  <2> QED BY <2>2, Zenon
       DEF Push, SysexStart, SysexEnd, SysexAbortedByChannel, SysexAbortedBySystem, SysexData,
           SysexOverflow, SysexSkipped, OrphanEnd, ChannelStatusByte, SystemCommonByte,
           SystemCommonData, RunningData, OrphanData
<1> QED BY <1>1, Zenon DEF Realtime

-----------------------------------------------------------------------------
\* Every step of the parser is a step of MidiStream and keeps Means.
LEMMA MeansStep ==
  ASSUME Means, FlagsOK, Consistent, [HNext]_<<vars, wire>>, FlagsOK'
  PROVE  Means' /\ [Promise!Next]_<<wire, events>>
<1>1. ASSUME NEW b \in Bytes, HPush(b), b >= \hF8
      PROVE  Means' /\ Promise!RealtimeByte
  <2>1. events' = <<Decode(<<b>>)>> /\ UNCHANGED <<statusVars, sysexVars, orphanVars>>
    BY <1>1, RealtimeStep DEF HPush
  <2>2. wire' = wire
    BY <1>1 DEF HPush
  <2>3. Gov' = Gov /\ Data' = Data /\ Orph' = Orph
    BY <2>2 DEF Gov, Data, Orph
  <2>4. Means'
    BY <2>1, <2>2, <2>3, Zenon
       DEF Means, SysexMeans, StatusMeans, PendingMeans, OrphanMeans,
           statusVars, sysexVars, orphanVars
  <2>5. b \in Bytes \cap \hF8..\hFF
    BY <1>1 DEF Byte
  <2> QED BY <2>1, <2>2, <2>4, <2>5, SameCodec, Zenon DEF Promise!RealtimeByte
<1>2. ASSUME NEW b \in Bytes, HPush(b), ~(b >= \hF8)
      PROVE  Means' /\ Promise!StreamByte
  <2>1. /\ Push(b) /\ Len(wire) < MaxWire /\ wire' = Append(wire, b)
    BY <1>2, Zenon DEF HPush
  <2>2. b \in StreamBytes /\ b \in Nat /\ b \in Bytes \cap \h00..\hF7
    BY <1>2 DEF StreamBytes, Byte
  <2>3. CASE b < \h80
    <3>1. b \in DataByte
      BY <2>2, <2>3, ByteSets
    <3>2. Means' /\ events' = Promise!AfterData(wire, b)
      BY <2>1, <3>1, DataMeans
    <3> QED BY <2>1, <2>2, <2>3, <3>2, Zenon DEF Promise!StreamByte, Promise!Meaning
  <2>4. CASE ~(b < \h80)
    <3>1. b >= \h80
      BY <2>2, <2>4
    <3>2. events' = Promise!EndedBy(wire, b) \o Promise!OwnEvent(wire, b)
      BY <2>1, <2>2, <3>1, StatusEvents
    <3>3. Means'
      BY <2>1, <2>2, <3>1, StatusFresh, FreshMeans
    <3> QED BY <2>1, <2>2, <2>4, <3>2, <3>3, Zenon DEF Promise!StreamByte, Promise!Meaning
  <2> QED BY <2>3, <2>4
<1>3. CASE UNCHANGED <<vars, wire>>
  <2>1. Gov' = Gov /\ Data' = Data /\ Orph' = Orph
    BY <1>3 DEF Gov, Data, Orph
  <2>2. Means'
    BY <1>3, <2>1, ZenonT(60)
       DEF Means, SysexMeans, StatusMeans, PendingMeans, OrphanMeans,
           vars, statusVars, sysexVars, orphanVars
  <2>3. UNCHANGED <<wire, events>>
    BY <1>3 DEF vars
  <2> QED BY <2>2, <2>3
<1> QED BY <1>1, <1>2, <1>3, Zenon DEF HNext, Promise!Next

\* The parser stays consistent and means what the history says, and what it does
\* with a byte is a step of MidiStream.
LEMMA MeansAlways ==
  /\ HSpec => [](FlagsOK /\ Consistent /\ Means)
  /\ HSpec => ImplementsMidiStream
<1>1. HInit => Init /\ Promise!Init
  BY DEF HInit, Init, Promise!Init
<1>2. [HNext]_<<vars, wire>> => [Next]_vars
  BY DEF HNext, HPush, Next
<1>3. HInit => FlagsOK /\ Consistent /\ Means
  BY <1>1, InitConsistent, InitMeans
<1>4. FlagsOK /\ Consistent /\ [HNext]_<<vars, wire>> => (FlagsOK /\ Consistent)'
  BY <1>2, FlagStep, DataOKStep, OneModeStep, NeverWedgedStep, SysexContainedStep,
     OrphanLengthStep DEF Consistent
<1>5. FlagsOK /\ Consistent /\ Means /\ [HNext]_<<vars, wire>>
        => (FlagsOK /\ Consistent /\ Means)' /\ [Promise!Next]_<<wire, events>>
  BY <1>4, MeansStep
<1> QED BY <1>1, <1>3, <1>5, PTL DEF HSpec, ImplementsMidiStream, Promise!Spec

\* push implements MidiStream, for every alphabet, every limit and histories of every length.
THEOREM ImplementsMidiStreamAlways == HSpec => ImplementsMidiStream
BY MeansAlways

\* The kept prefix is the first bytes of the orphaned data, whatever arrived before
\* it, and the count is of all of it.
THEOREM OrphanPrefixExactAlways == HSpec => []OrphanPrefixExact
<1>1. Means => OrphanPrefixExact
  BY DEF Means, OrphanMeans, Orph, OrphanPrefixExact
<1> QED BY <1>1, MeansAlways, PTL
=============================================================================
