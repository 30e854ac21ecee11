---------------------------- MODULE StreamParser ----------------------------
(***************************************************************************)
(* midi/stream_parser.rs: the incremental parser every backend feeds with  *)
(* the bytes of one connection.  push handles one byte after another and   *)
(* nothing observes it between two bytes of a slice, so a step is one byte.*)
(* There is one action per way through the loop body; "events" holds what  *)
(* that byte made the parser emit, in order.                               *)
(***************************************************************************)
EXTENDS Codec

CONSTANTS OrphanPrefixBytes,   \* ORPHAN_PREFIX_BYTES, 64 in the code
          Bytes,               \* the bytes the stream may carry
          MaxOrphans           \* bound: orphaned data bytes in a row

ASSUME ParserAssumption == /\ OrphanPrefixBytes \in Nat
                           /\ Bytes \subseteq Byte
                           /\ MaxOrphans \in Nat

VARIABLES running_status, system_common_status, sysex_buf, in_sysex,
          sysex_overflow, pending, orphan_buf, orphan_len,
          events

statusVars == <<running_status, system_common_status, pending>>
sysexVars  == <<in_sysex, sysex_buf, sysex_overflow>>
orphanVars == <<orphan_buf, orphan_len>>
vars       == <<statusVars, sysexVars, orphanVars, events>>

None == 0                       \* Option::None; no status byte is 0

ChannelStatus      == \h80..\hEF
SystemCommonStatus == \hF1..\hF7

Init == /\ running_status = None
        /\ system_common_status = None
        /\ sysex_buf = <<>>
        /\ in_sysex = FALSE
        /\ sysex_overflow = FALSE
        /\ pending = <<>>
        /\ orphan_buf = <<>>
        /\ orphan_len = 0
        /\ events = <<>>

-----------------------------------------------------------------------------
(* The private methods: what each emits and what it assigns.               *)

FlushEvents == IF orphan_len = 0 THEN <<>>
               ELSE <<OrphanEvent(orphan_len, orphan_buf)>>

FlushOrphans == /\ orphan_len' = 0
                /\ orphan_buf' = IF orphan_len = 0 THEN orphan_buf ELSE <<>>

\* Slip: the last bytes kept, not the first.
OrphanPrefixLatest(b) == IF Len(orphan_buf) < OrphanPrefixBytes
                         THEN Append(orphan_buf, b) ELSE Append(Tail(orphan_buf), b)

\* orphan_buf keeps a bounded prefix while orphan_len counts every byte.
OrphanPrefix(b) == IF Len(orphan_buf) < OrphanPrefixBytes
                   THEN Append(orphan_buf, b) ELSE orphan_buf

AbortEvents == IF sysex_overflow THEN <<>>
               ELSE <<ErrorEvent("UnterminatedSysex", <<\hF0>> \o sysex_buf)>>

\* Slip: the overflow flag survives the message it belongs to.
AbortSysexKeepsOverflow ==
  /\ in_sysex' = FALSE
  /\ UNCHANGED sysex_overflow
  /\ sysex_buf' = IF sysex_overflow THEN sysex_buf ELSE <<>>

AbortSysex == /\ in_sysex' = FALSE
              /\ sysex_overflow' = FALSE
              /\ sysex_buf' = IF sysex_overflow THEN sysex_buf ELSE <<>>

\* Slip: data of the interrupted message kept.
StartStatusKeepsPending(b) == pending' = pending /\ running_status' = b

StartStatus(b) == pending' = <<>> /\ running_status' = b

SystemCommonEvents(b) ==
  IF b = \hF6 THEN <<MessageEvent(Message("TuneRequest", 0, <<>>))>>
  ELSE IF b <= \hF3 \/ ~IsError(Decode(<<b>>)) THEN <<>>
  ELSE <<Decode(<<b>>)>>

\* Slip: the running status survives a system common message.
HandleSystemCommonKeepsRunning(b) ==
  /\ UNCHANGED running_status
  /\ pending' = <<>>
  /\ system_common_status' = IF b <= \hF3 THEN b ELSE None

HandleSystemCommon(b) ==
  /\ running_status' = None
  /\ pending' = <<>>
  /\ system_common_status' = IF b <= \hF3 THEN b ELSE None

-----------------------------------------------------------------------------
(* One action per path of the loop body of push.                           *)

\* Realtime bytes may fall anywhere and touch nothing.
Realtime(b) == /\ b >= \hF8
               /\ events' = <<Decode(<<b>>)>>
               /\ UNCHANGED <<statusVars, sysexVars, orphanVars>>

SysexStart(b) == /\ b = \hF0
                 /\ FlushOrphans
                 /\ events' = FlushEvents \o
                              (IF in_sysex THEN AbortEvents ELSE <<>>)
                 /\ in_sysex' = TRUE
                 /\ sysex_overflow' = IF in_sysex THEN FALSE ELSE sysex_overflow
                 /\ sysex_buf' = <<>>
                 /\ pending' = <<>>
                 /\ running_status' = None
                 /\ system_common_status' = None

SysexEnd(b) == /\ in_sysex
               /\ b = \hF7
               /\ in_sysex' = FALSE
               /\ IF sysex_overflow
                  THEN /\ sysex_overflow' = FALSE
                       /\ events' = <<>>
                       /\ UNCHANGED sysex_buf
                  ELSE /\ events' = <<DecodeSysex(EncodeSysex(sysex_buf))>>
                       /\ sysex_buf' = <<>>
                       /\ UNCHANGED sysex_overflow
               /\ UNCHANGED <<statusVars, orphanVars>>

\* Any other status byte ends the message early.
SysexAbortedByChannel(b) == /\ in_sysex
                            /\ b \in ChannelStatus
                            /\ AbortSysex
                            /\ StartStatus(b)
                            /\ events' = AbortEvents
                            /\ UNCHANGED <<system_common_status, orphanVars>>

SysexAbortedBySystem(b) == /\ in_sysex
                           /\ b \in SystemCommonStatus \ {\hF7}
                           /\ AbortSysex
                           /\ HandleSystemCommon(b)
                           /\ events' = AbortEvents \o SystemCommonEvents(b)
                           /\ UNCHANGED orphanVars

SysexData(b) == /\ in_sysex
                /\ b \in DataByte
                /\ ~sysex_overflow
                /\ Len(sysex_buf) + 1 <= MaxSysexBytes
                /\ sysex_buf' = Append(sysex_buf, b)
                /\ events' = <<>>
                /\ UNCHANGED <<in_sysex, sysex_overflow, statusVars, orphanVars>>

SysexOverflow(b) == /\ in_sysex
                    /\ b \in DataByte
                    /\ ~sysex_overflow
                    /\ Len(sysex_buf) + 1 > MaxSysexBytes
                    /\ events' = <<ErrorEvent("SysexTooLong", <<>>)>>
                    /\ sysex_overflow' = TRUE
                    /\ sysex_buf' = <<>>
                    /\ UNCHANGED <<in_sysex, statusVars, orphanVars>>

SysexSkipped(b) == /\ in_sysex
                   /\ b \in DataByte
                   /\ sysex_overflow
                   /\ events' = <<>>
                   /\ UNCHANGED <<sysexVars, statusVars, orphanVars>>

\* An end byte after orphaned data is reported with it.
OrphanEnd(b) == /\ ~in_sysex
                /\ b = \hF7
                /\ orphan_len > 0
                /\ events' = <<OrphanEvent(orphan_len + 1, OrphanPrefix(b))>>
                /\ orphan_len' = 0
                /\ orphan_buf' = <<>>
                /\ UNCHANGED <<statusVars, sysexVars>>

ChannelStatusByte(b) == /\ ~in_sysex
                        /\ b \in ChannelStatus
                        /\ FlushOrphans
                        /\ events' = FlushEvents
                        /\ system_common_status' = None
                        /\ StartStatus(b)
                        /\ UNCHANGED sysexVars

SystemCommonByte(b) == /\ ~in_sysex
                       /\ b \in SystemCommonStatus
                       /\ ~(b = \hF7 /\ orphan_len > 0)
                       /\ FlushOrphans
                       /\ events' = FlushEvents \o SystemCommonEvents(b)
                       /\ HandleSystemCommon(b)
                       /\ UNCHANGED sysexVars

\* Slip: a system common message repeats like a running status.
SystemCommonDataSticky(b) ==
  LET data == Append(pending, b)
      full == Len(data) = Needed(system_common_status)
  IN /\ ~in_sysex
     /\ b \in DataByte
     /\ system_common_status # None
     /\ pending' = IF full THEN <<>> ELSE data
     /\ events' = IF full THEN <<Decode(<<system_common_status>> \o data)>>
                          ELSE <<>>
     /\ UNCHANGED <<system_common_status, running_status, sysexVars, orphanVars>>

SystemCommonData(b) ==
  LET data == Append(pending, b)
      full == Len(data) = Needed(system_common_status)
  IN /\ ~in_sysex
     /\ b \in DataByte
     /\ system_common_status # None
     /\ pending' = IF full THEN <<>> ELSE data
     /\ system_common_status' = IF full THEN None ELSE system_common_status
     /\ events' = IF full THEN <<Decode(<<system_common_status>> \o data)>>
                          ELSE <<>>
     /\ UNCHANGED <<running_status, sysexVars, orphanVars>>

RunningData(b) ==
  LET data == Append(pending, b)
      full == Needed(running_status) > 0 /\ Len(data) = Needed(running_status)
  IN /\ ~in_sysex
     /\ b \in DataByte
     /\ system_common_status = None
     /\ running_status # None
     /\ pending' = IF full THEN <<>> ELSE data
     /\ events' = IF full THEN <<Decode(<<running_status>> \o data)>> ELSE <<>>
     /\ UNCHANGED <<running_status, system_common_status, sysexVars, orphanVars>>

OrphanData(b) == /\ ~in_sysex
                 /\ b \in DataByte
                 /\ system_common_status = None
                 /\ running_status = None
                 /\ orphan_len < MaxOrphans
                 /\ orphan_buf' = OrphanPrefix(b)
                 /\ orphan_len' = orphan_len + 1
                 /\ events' = <<>>
                 /\ UNCHANGED <<statusVars, sysexVars>>

Push(b) == \/ Realtime(b) \/ SysexStart(b) \/ SysexEnd(b)
           \/ SysexAbortedByChannel(b) \/ SysexAbortedBySystem(b)
           \/ SysexData(b) \/ SysexOverflow(b) \/ SysexSkipped(b)
           \/ OrphanEnd(b) \/ ChannelStatusByte(b) \/ SystemCommonByte(b)
           \/ SystemCommonData(b) \/ RunningData(b) \/ OrphanData(b)

Next == \E b \in Bytes : Push(b)

Spec == Init /\ [][Next]_vars

-----------------------------------------------------------------------------
(* Types.                                                                  *)

TypeOK == /\ running_status \in ChannelStatus \cup {None}
          /\ system_common_status \in \hF1..\hF3 \cup {None}
          /\ sysex_buf \in Seq(DataByte)
          /\ in_sysex \in BOOLEAN
          /\ sysex_overflow \in BOOLEAN
          /\ pending \in Seq(DataByte)
          /\ orphan_buf \in Seq(DataByte)
          /\ orphan_len \in Nat

-----------------------------------------------------------------------------
(* What must hold between two bytes.                                       *)

\* At most one of the four modes: a sysex being collected, a system common
\* message, a running status, orphaned data.  start_status inside a sysex
\* relies on it: that path does not clear system_common_status.
OneMode == /\ in_sysex => /\ running_status = None
                          /\ system_common_status = None
                          /\ orphan_len = 0
           /\ system_common_status # None => running_status = None
           /\ orphan_len > 0 => /\ running_status = None
                                /\ system_common_status = None

\* A message being collected is always short of its last byte.  push tests
\* pending.len() == needed, so one byte too many would never be noticed and
\* the connection would swallow every later data byte.
NeverWedged ==
  /\ system_common_status # None => Len(pending) < Needed(system_common_status)
  /\ running_status # None => Len(pending) < Needed(running_status)
  /\ running_status = None /\ system_common_status = None => pending = <<>>

\* The collected sysex stays within its limit; the overflow flag and leftovers
\* never outlive the message they belong to (abort_sysex, the 0xF7 path), so
\* the next sysex starts clean.
SysexContained == /\ Len(sysex_buf) <= MaxSysexBytes
                  /\ sysex_overflow => in_sysex /\ sysex_buf = <<>>
                  /\ ~in_sysex => sysex_buf = <<>>
=============================================================================
