------------------------------ MODULE LogExport ------------------------------
(***************************************************************************)
(* A log on the SD card and its export (main/storage/log_store.c; the      *)
(* rings of main/modbus/modbus_comm_log.c and main/web/web_server.c).      *)
(*                                                                         *)
(* A task adds an entry to a ring in RAM and then, in a second step, to a  *)
(* pending buffer.  The writer task swaps that buffer out and appends it   *)
(* to the active file, which it renames when it is full; when the card is  *)
(* nearly full it removes old files.  An export sends the files and then   *)
(* the entries of the ring that are newer than a watermark: the uptime of  *)
(* the newest entry on the card.                                           *)
(*                                                                         *)
(* An entry is its number and its uptime, in which several may be equal.   *)
(* The two streams of the code behave alike; this is one of them.  The     *)
(* card (mounted throughout), its file system and the HTTP client are      *)
(* external.                                                               *)
(***************************************************************************)
EXTENDS Integers, Sequences, FiniteSets

CONSTANTS Loggers,     \* tasks that log
          RingSize,    \* MODBUS_COMM_LOG_CAPACITY, WEB_LOG_MAX_ENTRIES
          PendingMax,  \* LOG_PENDING_CAP, in entries
          FileMax,     \* max_bytes, in entries
          CardMax,     \* entries on the card that leave LOG_MIN_FREE_BYTES
          MaxEntries, MaxCardFaults, MaxExports  \* bounds

ASSUME BuffersAssumption == RingSize \in Nat /\ PendingMax \in Nat

VARIABLES
  ring,     \* s_entries, oldest first
  logged,   \* the newest entry
  entry,    \* what each logger took from the ring to the stream
  pending,  \* s->pending
  writing,  \* s->flushing
  writerStep,  \* the writer: about to make room, or to write
  activeFile,  \* the active file
  old,      \* rotated files, oldest name first: [name, lines]
  flushed,  \* s->last_flushed_uptime
  export,   \* [at, mark, names, sent]: the export under way
  owed,     \* history: entries it found in no file and above the watermark
  cardFaults, exports

logVars == <<ring, logged, entry, pending, writing, writerStep, activeFile,
             old, flushed, export, owed, cardFaults, exports>>
stream  == <<pending, writing, writerStep, flushed>>
card    == <<activeFile, old>>
exporting == <<export, owed, exports>>

NoEntry == [n |-> 0, up |-> 0]
AtRest  == [at |-> "rest", mark |-> 0, names |-> <<>>, sent |-> {}]
Lines(s) == {s[i] : i \in DOMAIN s}
Latest(s) == s[Len(s)]

LogInit ==
  /\ ring = <<>> /\ logged = NoEntry
  /\ entry = [t \in Loggers |-> NoEntry]
  /\ pending = <<>> /\ writing = <<>> /\ writerStep = "rest"
  /\ activeFile = <<>> /\ old = <<>> /\ flushed = 0
  /\ export = AtRest /\ owed = {}
  /\ cardFaults = 0 /\ exports = 0
-----------------------------------------------------------------------------
\* modbus_comm_log_add(), web_server_add_log(): under the ring's mutex
AddEntry(t) ==
  /\ entry[t] = NoEntry /\ logged.n < MaxEntries
  /\ \E later \in {0, 1} :
       logged' = [n |-> logged.n + 1, up |-> logged.up + later]
  /\ logged'.up > 0
  /\ ring' = LET all == Append(ring, logged')
             IN IF Len(all) > RingSize THEN Tail(all) ELSE all
  /\ entry' = [entry EXCEPT ![t] = logged']
  /\ UNCHANGED <<stream, card, exporting, cardFaults>>

\* append_to_stream(): a full buffer drops the entry
AppendEntry(t) ==
  /\ entry[t] # NoEntry
  /\ pending' = IF Len(pending) >= PendingMax THEN pending
                ELSE Append(pending, entry[t])
  /\ entry' = [entry EXCEPT ![t] = NoEntry]
  /\ UNCHANGED <<ring, logged, writing, writerStep, flushed, card, exporting,
                 cardFaults>>
-----------------------------------------------------------------------------
\* flush_all(): swap the buffers
SwapBuffers ==
  /\ writerStep = "rest" /\ pending # <<>> /\ writing = <<>>
  /\ writing' = pending /\ pending' = <<>> /\ writerStep' = "room"
  /\ UNCHANGED <<ring, logged, entry, flushed, card, exporting, cardFaults>>

OnCard(files) ==
  LET upTo[i \in 0..Len(files)] ==
        IF i = 0 THEN Len(activeFile) ELSE upTo[i - 1] + Len(files[i].lines)
  IN upTo[Len(files)]

\* ensure_free_space(): the files that are left when enough is free
Spared(files) ==
  LET enough == {i \in 0..Len(files) :
                   OnCard(SubSeq(files, i + 1, Len(files))) <= CardMax}
      cut == IF enough = {} THEN Len(files)
             ELSE CHOOSE i \in enough : \A j \in enough : i <= j
  IN SubSeq(files, cut + 1, Len(files))

NewName(files) ==
  IF files = <<>> THEN 1 ELSE Latest(files).name + 1

(* write_pending(): make room on the card, then rotate_stream(), whose     *)
(* rename() may fail unseen: the active file is opened again and grows.    *)
MakeRoom ==
  /\ writerStep = "room" /\ writerStep' = "write"
  /\ \E renamed \in BOOLEAN :
       /\ ~renamed => cardFaults < MaxCardFaults
       /\ LET left == Spared(old)
              full == Len(activeFile) + Len(writing) > FileMax
          IN IF full /\ renamed
             THEN /\ old' = Append(left, [name |-> NewName(old),
                                          lines |-> activeFile])
                  /\ activeFile' = <<>>
             ELSE old' = left /\ UNCHANGED activeFile
       /\ cardFaults' = cardFaults + IF renamed THEN 0 ELSE 1
  /\ UNCHANGED <<ring, logged, entry, pending, writing, flushed, exporting>>

WriteOut ==
  /\ writerStep = "write" /\ writerStep' = "rest"
  /\ activeFile' = activeFile \o writing
  /\ flushed' = Latest(writing).up
  /\ writing' = <<>>
  /\ UNCHANGED <<ring, logged, entry, pending, old, exporting, cardFaults>>

\* "log write failed; will retry on next flush": part of the buffer may be
\* in the file, and the buffer is given back
CardWriteFails ==
  /\ writerStep = "write" /\ writerStep' = "rest"
  /\ cardFaults < MaxCardFaults /\ cardFaults' = cardFaults + 1
  /\ \E k \in 0..(Len(writing) - 1) :
       activeFile' = activeFile \o SubSeq(writing, 1, k)
  /\ writing' = <<>>
  /\ UNCHANGED <<ring, logged, entry, pending, old, flushed, exporting>>
-----------------------------------------------------------------------------
(* modbus_logs_export_handler(), system_logs_export_handler()              *)
Buffered == Lines(pending) \cup Lines(writing)
              \cup ({entry[t] : t \in Loggers} \ {NoEntry})

ExportBegins ==
  /\ export.at = "rest" /\ exports < MaxExports
  /\ exports' = exports + 1
  /\ export' = [AtRest EXCEPT !.at = "list", !.mark = flushed]
  /\ owed' = {e \in Buffered : e.up > flushed}
  /\ UNCHANGED <<ring, logged, entry, stream, card, cardFaults>>

Exporting(next) ==
  /\ export' = next
  /\ UNCHANGED <<ring, logged, entry, stream, card, owed, cardFaults,
                 exports>>

\* log_store_list_files(): the names of the rotated files, then the active
ListFiles ==
  /\ export.at = "list"
  /\ Exporting([export EXCEPT !.at = "read",
                  !.names = [i \in DOMAIN old |-> old[i].name]])

\* stream_sd_file_cb(): a file that is gone is skipped
ReadFile ==
  /\ export.at = "read" /\ export.names # <<>>
  /\ Exporting([export EXCEPT
       !.names = Tail(@),
       !.sent = @ \cup UNION {Lines(old[i].lines) : i \in
                  {k \in DOMAIN old : old[k].name = Head(export.names)}}])

ReadActive ==
  /\ export.at = "read" /\ export.names = <<>>
  /\ Exporting([export EXCEPT !.at = "tail",
                  !.sent = @ \cup Lines(activeFile)])

(* Mutant: the watermark of the moment, not that of the beginning. *)
SendTailLate ==
  /\ export.at = "tail"
  /\ Exporting([export EXCEPT !.at = "sent",
       !.sent = @ \cup {e \in Lines(ring) : e.up > flushed}])

\* modbus_comm_log_iterate_tail()
SendTail ==
  /\ export.at = "tail"
  /\ Exporting([export EXCEPT !.at = "sent",
       !.sent = @ \cup {e \in Lines(ring) : e.up > export.mark}])

(* The ring's mutex is not free within 100 ms, or the copy cannot be       *)
(* allocated: the tail is left out, and the export completes all the same. *)
LeaveTailOut ==
  /\ export.at = "tail"
  /\ Exporting([export EXCEPT !.at = "cut"])

\* complete, or given up because a chunk could not be sent
ExportEnds ==
  /\ export.at # "rest"
  /\ export' = AtRest /\ owed' = {}
  /\ UNCHANGED <<ring, logged, entry, stream, card, cardFaults, exports>>

LogNext ==
  \/ \E t \in Loggers : AddEntry(t) \/ AppendEntry(t)
  \/ SwapBuffers \/ MakeRoom \/ WriteOut \/ CardWriteFails
  \/ ExportBegins \/ ListFiles \/ ReadFile \/ ReadActive \/ SendTail
  \/ LeaveTailOut \/ ExportEnds
LogSpec == LogInit /\ [][LogNext]_logVars
-----------------------------------------------------------------------------
LogTypeOK ==
  /\ Len(ring) <= RingSize /\ Len(pending) <= PendingMax
  /\ Len(writing) <= PendingMax /\ (writerStep = "rest" => writing = <<>>)
  /\ \A i \in 1..Len(old) - 1 : old[i].name < old[i + 1].name
  /\ export.mark <= logged.up

Done == export.at = "sent"  \* with its tail

(* "Snapshot the watermark BEFORE streaming the card so that any entry     *)
(* flushed to SD during the stream is still appended from the RAM tail"    *)
(* (web_server.c): an entry that was in a buffer when the export began,    *)
(* above the watermark, and that the ring still has, is in the export,     *)
(* whatever the writer did with it meanwhile.  Excepted is an export whose *)
(* tail was left out (LeaveTailOut): it ends like any other, nothing tells *)
(* the client, and what was flushed after the files were read is missing.  *)
FlushedMeanwhileKept == Done => owed \cap Lines(ring) \subseteq export.sent

=============================================================================
