------------------------------- MODULE EventFile -------------------------------
(***************************************************************************)
(* How osmud cuts the event file into lines (readLine and pollDhcpFile),   *)
(* one read(2) at a time, while detect_new_device.sh appends to it.  Only  *)
(* where lines end matters: a line is modelled by its number and length,   *)
(* and its characters by the line and the place they stand at.             *)
(*                                                                         *)
(* Nothing keeps a store from passing the end of the buffer: `buffer' is   *)
(* all that has been stored, so that a store past the array makes it       *)
(* longer than MaxLine.  The one this code can make hits a neighbour of    *)
(* dhcpEventLine on the stack, which is none of the variables here.        *)
(***************************************************************************)
EXTENDS Naturals, Sequences, SequencesExt

CONSTANTS
    NL,        \* the newline character
    NUL,       \* the zero that ends a text, also stored when there is nothing to read
    MaxLine,   \* MAXLINE, the size of the buffer
    Lengths,   \* the lengths of the lines that may be written
    MaxLines,  \* bound: lines written
    MaxChars   \* bound: characters written

ASSUME LineAssumption ==
    /\ MaxLine \in Nat \ {0, 1}
    /\ Lengths \subseteq Nat
    /\ MaxLines \in Nat
    /\ MaxChars \in Nat
    /\ NL # NUL
    /\ NL \notin Nat \X Nat /\ NUL \notin Nat \X Nat

VARIABLES
    file,      \* the characters in the event file
    pending,   \* characters of the last line the writer has still to append
    written,   \* history: the lengths of the lines written
    whole,     \* history: every line appeared in the file at once
    reading,   \* inside readLine
    offset,    \* the file offset: characters read so far
    buffer,    \* what this call of readLine has stored, from buffer[0] on
    events     \* history: the texts handed to processDhcpEventFromLog

fileVars == <<file, pending, written, whole>>

vars == <<fileVars, reading, offset, buffer, events>>

Char == (1..MaxLines) \X Nat

Text == Seq(Char \cup {NUL})

(* No variable holds a value the program cannot store there: in the worst   *)
(* case readLine stores one character past its buffer.                     *)
TypeOK ==
    /\ file \in Seq(Char \cup {NL})
    /\ pending \in Seq(Char \cup {NL})
    /\ written \in Seq(Lengths)
    /\ whole \in BOOLEAN
    /\ reading \in BOOLEAN
    /\ offset \in 0..Len(file)
    /\ buffer \in Text
    /\ Len(buffer) <= MaxLine + 1
    /\ reading => Len(buffer) <= MaxLine
    /\ events \in Seq(Text)

Init ==
    /\ file = <<>>
    /\ pending = <<>>
    /\ written = <<>>
    /\ whole = TRUE
    /\ reading = FALSE
    /\ offset = 0
    /\ buffer = <<>>
    /\ events = <<>>

(* The text of the i-th line, without its newline. *)
LineText(i) == [j \in 1..written[i] |-> <<i, j>>]

-----------------------------------------------------------------------------

(* detect_new_device.sh: echo $msg >> file.  The line appears at once, or in *)
(* parts, as the shell and the file system make it.                         *)
WriteLine(n) ==
    /\ pending = <<>>
    /\ Len(written) < MaxLines
    /\ Len(file) + n < MaxChars
    /\ written' = Append(written, n)
    /\ LET line == Append([j \in 1..n |-> <<Len(written) + 1, j>>], NL)
       IN  \/ file' = file \o line /\ pending' = <<>> /\ whole' = whole
           \/ file' = file /\ pending' = line /\ whole' = FALSE
    /\ UNCHANGED <<reading, offset, buffer, events>>

(* A part of what the writer still has to append appears in the file. *)
AppendPart(n) ==
    /\ n \in 1..Len(pending)
    /\ file' = file \o SubSeq(pending, 1, n)
    /\ pending' = SubSeq(pending, n + 1, Len(pending))
    /\ UNCHANGED <<written, whole, reading, offset, buffer, events>>

(* Mutant: k is not reset. *)
PollKeepingBuffer ==
    /\ ~reading
    /\ reading' = TRUE
    /\ UNCHANGED <<fileVars, buffer, offset, events>>

(* select says at once that a regular file can be read. *)
Poll ==
    /\ ~reading
    /\ reading' = TRUE
    /\ buffer' = <<>>
    /\ UNCHANGED <<fileVars, offset, events>>

(* Mutant: whatever readLine returns is an event. *)
ReturnAny(text) ==
    /\ reading' = FALSE
    /\ events' = Append(events, text)

(* Mutant: a text of two characters is no event either. *)
ReturnOverTwo(text) ==
    /\ reading' = FALSE
    /\ events' = IF Len(text) > 2 THEN Append(events, text) ELSE events

(* readLine returns; a text of at most one character is no event. *)
Return(text) ==
    /\ reading' = FALSE
    /\ events' = IF Len(text) > 1 THEN Append(events, text) ELSE events

(* The end of the line.  The zero that ends the text is stored without a    *)
(* test for room: behind MaxLine characters it is past the array.          *)
ReadNewline ==
    /\ reading
    /\ offset < Len(file)
    /\ file[offset + 1] = NL
    /\ offset' = offset + 1
    /\ buffer' = Append(buffer, NUL)
    /\ Return(buffer)
    /\ UNCHANGED fileVars

(* Mutant: the test for room in the buffer lets one character too many in. *)
ReadCharTooMany ==
    /\ reading
    /\ offset < Len(file)
    /\ file[offset + 1] # NL
    /\ Len(buffer) <= MaxLine
    /\ offset' = offset + 1
    /\ buffer' = Append(buffer, file[offset + 1])
    /\ UNCHANGED <<fileVars, reading, events>>

(* A character of the line that fits the buffer. *)
ReadChar ==
    /\ reading
    /\ offset < Len(file)
    /\ file[offset + 1] # NL
    /\ Len(buffer) < MaxLine
    /\ offset' = offset + 1
    /\ buffer' = Append(buffer, file[offset + 1])
    /\ UNCHANGED <<fileVars, reading, events>>

(* One that does not is read, dropped, and ends the line, which is left     *)
(* without a zero at its end.                                              *)
ReadOverlong ==
    /\ reading
    /\ offset < Len(file)
    /\ file[offset + 1] # NL
    /\ Len(buffer) = MaxLine
    /\ offset' = offset + 1
    /\ Return(buffer)
    /\ UNCHANGED <<fileVars, buffer>>

(* Mutant: the end of the file does not end the line. *)
ReadNothingWaits ==
    /\ reading
    /\ offset = Len(file)
    /\ buffer' = IF Len(buffer) < MaxLine THEN Append(buffer, NUL) ELSE buffer
    /\ UNCHANGED <<fileVars, reading, offset, events>>

(* read returns 0: a NUL is stored as if it had been read, and the line ends *)
(* where the file does.                                                     *)
ReadNothing ==
    /\ reading
    /\ offset = Len(file)
    /\ buffer' = IF Len(buffer) < MaxLine THEN Append(buffer, NUL) ELSE buffer
    /\ Return(buffer')
    /\ UNCHANGED <<fileVars, offset>>

Read == ReadNewline \/ ReadChar \/ ReadOverlong \/ ReadNothing

Next ==
    \/ \E n \in Lengths : WriteLine(n)
    \/ \E n \in 1..Len(pending) : AppendPart(n)
    \/ Poll
    \/ Read

Spec == Init /\ [][Next]_vars

FairSpec == Spec /\ WF_vars(Poll \/ Read)

-----------------------------------------------------------------------------

(* The characters of one text, and those of two, stand in the file's order. *)
Before(c, d) == c[1] < d[1] \/ (c[1] = d[1] /\ c[2] < d[2])

InOrder(text) ==
    \A i, j \in DOMAIN text :
        i < j /\ text[i] # NUL /\ text[j] # NUL => Before(text[i], text[j])

AllBefore(text, later) ==
    \A i \in DOMAIN text, j \in DOMAIN later :
        text[i] # NUL /\ later[j] # NUL => Before(text[i], later[j])

(* However lines are written and cut, no character is handed over twice and *)
(* none before one that stands earlier in the file.                        *)
CharactersInOrder ==
    \A n \in DOMAIN events :
        InOrder(events[n]) /\ \A m \in 1..n - 1 : AllBefore(events[m], events[n])

(* The lines that are events: those of more than one character. *)
EventLines == {i \in DOMAIN written : written[i] > 1}

(* "OSMUD processes one event per line" (osmud.c:327): each event is a line, *)
(* whole; they come in the order of the lines, each once; and no line that   *)
(* comes before one of them is left out.                                    *)
OneEventPerLine ==
    /\ \A m \in DOMAIN events : \E i \in EventLines : events[m] = LineText(i)
    /\ \A m, n \in DOMAIN events, i, k \in EventLines :
          m < n /\ events[m] = LineText(i) /\ events[n] = LineText(k) => i < k
    /\ \A i, k \in EventLines :
          i < k /\ LineText(k) \in ToSet(events) => LineText(i) \in ToSet(events)

(* What the reader relies on: lines that fit the buffer and appear at once. *)
LinesFit == \A i \in 1..Len(written) : written[i] < MaxLine

WellWritten == whole /\ LinesFit

(* However lines are torn, and wherever the reader runs into the end of the *)
(* file: if each fits the buffer with the zero that ends it, no store goes  *)
(* past the buffer, and a text that is handed over has its end in it.  For  *)
(* a longer line neither is so (osmud.c:69, osmud.c:75).                   *)
TextEndsInBuffer ==
    LinesFit =>
        /\ Len(buffer) <= MaxLine
        /\ ~reading /\ buffer # <<>> => Last(buffer) = NUL

(* One event per line holds as long as nothing else has been written.       *)
WellWrittenIsCutIntoLines == WellWritten => OneEventPerLine

(* ... and every line of more than one character becomes an event, also if  *)
(* osmud was at the end of the file when the line was written.             *)
EveryLineIsAnEvent ==
    []WellWritten =>
        \A i \in 1..MaxLines :
            (i <= Len(written) /\ written[i] > 1)
                ~> (i <= Len(written) /\ LineText(i) \in ToSet(events))
===============================================================================
