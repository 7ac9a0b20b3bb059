------------------------------- MODULE LogStream -------------------------------
(***************************************************************************)
(* MemoryLogger, and what the gateway sends of it: the event stream, to    *)
(* which loopTask sends what was added since its cursor, and GET /api/logs.*)
(*                                                                         *)
(* Every task appends lines, under a mutex that each read takes anew. The  *)
(* text is told apart by where it stands in everything ever logged, with   *)
(* one newline between lines: a byte is its number, a line the numbers of  *)
(* its first and last byte.                                                *)
(***************************************************************************)
EXTENDS Integers, Sequences, SequencesExt

CONSTANTS Clients,     \* of the event stream
          None,
          Capacity,    \* _maxLines
          ChunkBytes,  \* LOG_CHUNK_BYTES
          PageBytes,   \* MAX_LOG_BYTES of GET /api/logs
          MaxLength,   \* bound: of a line
          MaxText      \* bound: of everything ever logged

ASSUME LogAssumption == {Capacity, ChunkBytes, PageBytes, MaxLength, MaxText} \subseteq Nat \ {0}

VARIABLES
  lines,    \* _lines
  cursor,   \* g_lastLogCursor
  task,     \* loopTask in broadcastLogDelta, or None
  joining,  \* the AsyncTCP task in sendInitialLogsToClient, or None
  answer,     \* the answer to a GET /api/logs, or None
  sent,     \* what each client was sent by the stream, None if it is not connected
  origin    \* history: number of the byte before the ring when cursor was set

vars == <<lines, cursor, task, joining, answer, sent, origin>>

\* Stands for text that the ring dropped, unknown to the client.
Gap == 0

Init ==
  /\ lines = <<>>
  /\ cursor = 0
  /\ task = None
  /\ joining = None
  /\ answer = None
  /\ sent = [c \in Clients |-> None]
  /\ origin = 0
-------------------------------------------------------------------------------
(* MemoryLogger.                                                           *)

Count(line) == line.last + 1 - line.first

Base == IF lines = <<>> THEN 0 ELSE Head(lines).first - 1
End == IF lines = <<>> THEN 0 ELSE Last(lines).last

Logged(length) ==
  LET first == IF lines = <<>> THEN 1 ELSE End + 2
  IN Append(lines, [first |-> first, last |-> first + length - 1])

\* Slip: the ring keeps what it should drop.
LogUnbounded ==
  /\ \E length \in 1 .. MaxLength :
       /\ End + length + 1 <= MaxText
       /\ lines' = Logged(length)
  /\ UNCHANGED <<cursor, task, joining, answer, sent, origin>>

\* append(): the oldest line goes when there are too many.
Log ==
  /\ \E length \in 1 .. MaxLength :
       /\ End + length + 1 <= MaxText
       /\ lines' = IF Len(lines) = Capacity THEN Tail(Logged(length)) ELSE Logged(length)
  /\ UNCHANGED <<cursor, task, joining, answer, sent, origin>>

\* Where the text of a line begins. A newline follows every line but the last.
offsetOf[i \in 1 .. Len(lines) + 1] ==
  IF i = 1 THEN 0 ELSE offsetOf[i - 1] + Count(lines[i - 1]) + 1

\* flattenedSize().
Size == IF lines = <<>> THEN 0 ELSE offsetOf[Len(lines) + 1] - 1

Least(a, b) == IF a < b THEN a ELSE b
Surplus(size, most) == IF size > most THEN size - most ELSE 0

Numbers(first, count) == [i \in 1 .. count |-> first + i - 1]

\* copyAsText(): line by line, at most `most` bytes of the text from an offset on.
Copies(offset, most) ==
  LET copied[i \in 0 .. Len(lines)] ==
        IF i = 0 THEN <<>>
        ELSE LET line  == lines[i]
                 end   == offsetOf[i] + Count(line)
                 start == Surplus(offset, offsetOf[i])
                 room  == most - Len(copied[i - 1])
                 text  == IF offset < end
                          THEN copied[i - 1] \o Numbers(line.first + start, Least(Count(line) - start, room))
                          ELSE copied[i - 1]
             IN IF i < Len(lines) /\ Len(text) < most /\ offset <= end
                THEN Append(text, line.last + 1) ELSE text
  IN copied

CopyAsText(offset, most) == Copies(offset, most)[Len(lines)]
-------------------------------------------------------------------------------
(* The event stream. Its list of clients is locked while one joins and while an event *)
(* is sent to all.                                                                     *)

Connected == {c \in Clients : sent[c] # None}
Joining(c) == \E join \in {joining} \ {None} : join.client = c

\* A client is sent a window with "logs", which replaces what came before, and text with "log".
Window(text) == [window |-> text, rest |-> <<>>]
Extended(view, text) == [view EXCEPT !.rest = @ \o text]

\* onConnect: the size of the text now,
Join(c) ==
  /\ joining = None /\ sent[c] = None
  /\ sent' = [sent EXCEPT ![c] = Window(<<>>)]
  /\ joining' = IF Size = 0 THEN None ELSE [client |-> c, size |-> Size]
  /\ UNCHANGED <<lines, cursor, task, answer, origin>>

\* and as much of it, from the end.
SendInitialLogs ==
  /\ joining # None
  /\ LET start == Surplus(joining.size, ChunkBytes)
         text  == CopyAsText(start, joining.size - start)
     IN sent' = [sent EXCEPT ![joining.client] = Window(text)]
  /\ joining' = None
  /\ UNCHANGED <<lines, cursor, task, answer, origin>>

Disconnect(c) ==
  /\ sent[c] # None /\ ~Joining(c)
  /\ sent' = [sent EXCEPT ![c] = None]
  /\ UNCHANGED <<lines, cursor, task, joining, answer, origin>>

\* broadcastLogDelta, if there are clients: from the cursor to the end of the text, or
\* the latest window if the text has become shorter.
BroadcastStarts ==
  /\ task = None /\ Connected # {}
  /\ cursor # Size
  /\ LET start == IF cursor > Size THEN Surplus(Size, ChunkBytes) ELSE cursor
     IN task' = [event |-> IF cursor > Size THEN "logs" ELSE "log",
                 offset |-> start, left |-> Size - start, size |-> Size, base |-> Base,
                 text |-> None]
  /\ UNCHANGED <<lines, cursor, joining, answer, sent, origin>>

\* readLogChunk, under the mutex.
ReadChunk ==
  /\ task # None /\ task.text = None
  /\ task' = [task EXCEPT !.text =
       LET text == CopyAsText(task.offset, Least(task.left, ChunkBytes))
       IN IF text # <<>> /\ task.event = "log" /\ {origin, task.base, Base} # {Base}
          THEN <<Gap>> \o text ELSE text]
  /\ UNCHANGED <<lines, cursor, joining, answer, sent, origin>>

\* Slip: the cursor moves to the end of the text as it is now.
SendChunkMovesToEnd ==
  /\ task # None /\ task.text # None /\ joining = None
  /\ sent' = [c \in Clients |->
       IF sent[c] = None \/ task.text = <<>> THEN sent[c]
       ELSE IF task.event = "logs" THEN Window(task.text) ELSE Extended(sent[c], task.text)]
  /\ IF task.left > ChunkBytes
       THEN /\ task' = [task EXCEPT !.offset = @ + ChunkBytes, !.left = @ - ChunkBytes, !.text = None]
            /\ UNCHANGED <<cursor, origin>>
       ELSE /\ task' = None
            /\ cursor' = Size
            /\ origin' = Base
  /\ UNCHANGED <<lines, joining, answer>>

\* The chunk is sent to all, and after the last one the cursor set to where the text
\* ended at the beginning.
SendChunk ==
  /\ task # None /\ task.text # None /\ joining = None
  /\ sent' = [c \in Clients |->
       IF sent[c] = None \/ task.text = <<>> THEN sent[c]
       ELSE IF task.event = "logs" THEN Window(task.text) ELSE Extended(sent[c], task.text)]
  /\ IF task.left > ChunkBytes
       THEN /\ task' = [task EXCEPT !.offset = @ + ChunkBytes, !.left = @ - ChunkBytes, !.text = None]
            /\ UNCHANGED <<cursor, origin>>
       ELSE /\ task' = None
            /\ cursor' = task.size
            /\ origin' = task.base
  /\ UNCHANGED <<lines, joining, answer>>
-------------------------------------------------------------------------------
(* GET /api/logs: the size is fixed at the start, the text read as the client takes it. *)

GetLogs ==
  /\ answer = None
  /\ answer' = [offset |-> Surplus(Size, PageBytes), size |-> Least(Size, PageBytes), base |-> Base,
              text |-> <<>>]
  /\ UNCHANGED <<lines, cursor, task, joining, sent, origin>>

\* The filler: up to `most` bytes from where it left off.
Fill(most) ==
  LET chunk == Least(answer.size - Len(answer.text), most)
  IN CopyAsText(answer.offset + Len(answer.text), chunk)

SendAnswer ==
  /\ answer # None
  /\ \E most \in 1 .. PageBytes :
       answer' = IF Len(answer.text) = answer.size \/ Fill(most) = <<>> THEN None
               ELSE [answer EXCEPT !.text = @ \o Fill(most)]
  /\ UNCHANGED <<lines, cursor, task, joining, sent, origin>>

Next ==
  \/ Log
  \/ \E c \in Clients : Join(c) \/ Disconnect(c)
  \/ SendInitialLogs
  \/ BroadcastStarts \/ ReadChunk \/ SendChunk
  \/ GetLogs \/ SendAnswer

Spec == Init /\ [][Next]_vars
-------------------------------------------------------------------------------
Bytes == 1 .. MaxText
Text == Seq(Bytes \cup {Gap})

Views == [window : Seq(Bytes), rest : Text]
Joins == [client : Clients, size : Nat \ {0}]
Tasks == [event : {"log", "logs"}, offset : Nat, left : Nat \ {0}, size : Nat, base : Nat,
          text : Text \cup {None}]
Answers == [offset : Nat, size : Nat, base : Nat, text : Seq(Bytes)]

\* None is none of what it stands in for.
ASSUME NoneAssumption == None \notin Text \cup Views \cup Joins \cup Tasks \cup Answers

\* Types. The ring is one piece of everything logged, and nobody is at work with more than a
\* part of it.
TypeOK ==
  /\ lines \in Seq([first : Bytes, last : Bytes]) /\ Len(lines) <= Capacity
  /\ \A i \in DOMAIN lines : lines[i].first <= lines[i].last
  /\ \A i \in 2 .. Len(lines) : lines[i].first = lines[i - 1].last + 2
  /\ cursor \in 0 .. MaxText /\ origin \in 0 .. MaxText
  /\ task \in Tasks \cup {None}
  /\ task # None =>
       /\ task.offset + task.left = task.size /\ task.base + task.size <= End
       /\ task.event = "logs" =>
            task.left <= ChunkBytes /\ (task.text = None \/ task.text \in Seq(Bytes))
  /\ joining \in Joins \cup {None} /\ (joining # None => sent[joining.client] # None)
  /\ answer \in Answers \cup {None} /\ (answer # None => Len(answer.text) <= answer.size)
  /\ sent \in [Clients -> Views \cup {None}]

\* Each byte is followed by the next one, or there is a gap.
Runs(text) ==
  \A i \in 2 .. Len(text) : text[i] = text[i - 1] + 1 \/ Gap \in {text[i - 1], text[i]}

\* Where what a client was sent ends.
Reached(view) ==
  IF view.rest # <<>> THEN Last(view.rest) ELSE IF view.window # <<>> THEN Last(view.window) ELSE 0

\* What a client is sent is the log, without a byte missing or out of its place: after the
\* window it got when it joined come the bytes from the cursor on, some of them again. Only
\* lines that were dropped between two broadcasts, or during one, tear it. Between
\* broadcasts no client lags behind the cursor, so that none misses the next bytes. And the
\* answer to GET /api/logs is one piece of the log, unless lines are dropped under it.
SentHasNoGap ==
  /\ \A c \in Connected :
       LET view == sent[c]
       IN /\ Runs(view.window) /\ Runs(view.rest)
          /\ view.window # <<>> /\ view.rest # <<>> /\ Head(view.rest) # Gap
             => Head(view.rest) <= Last(view.window) + 1
  /\ task = None /\ origin = Base =>
       \A c \in Connected :
         Joining(c) \/ Reached(sent[c]) >= origin + cursor
  /\ answer # None /\ answer.base = Base => Runs(answer.text)

\* "Buffer rolled; send the latest window" (MBXServerHandlers.cpp:301): a client that was
\* not sent some text is sent a window instead of what comes after it.
RollIsNoticed ==
  \A c \in Connected :
    LET text == sent[c].window \o SelectSeq(sent[c].rest, LAMBDA byte : byte # Gap)
    IN \A i \in 2 .. Len(text) : text[i] <= text[i - 1] + 1
===============================================================================
