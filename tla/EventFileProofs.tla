---------------------------- MODULE EventFileProofs ----------------------------
(* EventFile, for every size of the buffer and every length of a line: the   *)
(* type invariant, the order of the characters, the stores of the reader,   *)
(* and one event per line.                                                 *)
EXTENDS EventFile, SequenceTheorems, TLAPS

LEMMA EmptyText == \A S : <<>> \in Seq(S) /\ Len(<<>>) = 0
  OBVIOUS

LEMMA WrittenType ==
    ASSUME TypeOK
    PROVE  /\ written \in Seq(Nat) /\ Len(written) \in Nat /\ DOMAIN written = 1..Len(written)
           /\ \A i \in 1..Len(written) : written[i] \in Nat
  <1>1. written \in Seq(Lengths) /\ Lengths \subseteq Nat
    BY LineAssumption DEF TypeOK
  <1>2. Len(written) \in Nat /\ DOMAIN written = 1..Len(written)
    BY <1>1, LenProperties
  <1>3. \A i \in 1..Len(written) : written[i] \in Nat
    BY <1>1, ElementOfSeq
  <1>4. written \in Seq(Nat)
    BY <1>1, <1>2, <1>3, SeqDef
  <1> QED
    BY <1>2, <1>3, <1>4

LEMMA InitType == Init => TypeOK
  <1>1. 0 <= MaxLine + 1 /\ 0 \in 0..0
    BY LineAssumption
  <1> QED
    BY <1>1, EmptyText DEF Init, TypeOK, Text

(* What is handed over is what the buffer holds. *)
LEMMA ReturnType ==
    ASSUME NEW text \in Text, events \in Seq(Text), Return(text)
    PROVE  reading' \in BOOLEAN /\ events' \in Seq(Text)
  <1>1. Append(events, text) \in Seq(Text)
    BY AppendProperties
  <1> QED
    BY <1>1 DEF Return

(* A read moves the offset, inside the file, and fills the buffer at most.  *)
LEMMA ReadType ==
    ASSUME TypeOK, Read
    PROVE  TypeOK'
  <1>1. /\ offset \in Nat /\ Len(file) \in Nat /\ offset <= Len(file)
        /\ buffer \in Text /\ Len(buffer) \in Nat /\ MaxLine \in Nat
        /\ file \in Seq(Char \cup {NL}) /\ UNCHANGED fileVars
    BY LineAssumption, LenProperties
       DEF TypeOK, Text, Read, ReadNewline, ReadChar, ReadOverlong, ReadNothing
  <1>2. CASE ReadNewline \/ ReadOverlong
    <2>1. buffer' \in Text /\ Len(buffer') <= MaxLine + 1
      <3>1. CASE ReadNewline
        <4>1. buffer' \in Text /\ Len(buffer') = Len(buffer) + 1 /\ Len(buffer) <= MaxLine
          BY <1>1, <3>1, AppendProperties DEF ReadNewline, TypeOK, Text
        <4> QED
          BY <1>1, <4>1
      <3>2. CASE ReadOverlong
        BY <1>1, <3>2 DEF ReadOverlong
      <3> QED
        BY <1>2, <3>1, <3>2
    <2>2. reading' = FALSE /\ events' \in Seq(Text)
      BY <1>1, <1>2, ReturnType DEF ReadNewline, ReadOverlong, Return, TypeOK
    <2>3. offset' \in 0..Len(file)
      BY <1>1, <1>2 DEF ReadNewline, ReadOverlong
    <2>4. UNCHANGED <<file, pending, written, whole>>
      BY <1>1 DEF fileVars
    <2> HIDE DEF Text
    <2> QED
      BY <2>1, <2>2, <2>3, <2>4 DEF TypeOK
  <1>3. CASE ReadChar
    <2>1. file[offset + 1] \in Char
      <3>1. offset + 1 \in 1..Len(file) /\ file[offset + 1] # NL
        BY <1>1, <1>3 DEF ReadChar
      <3> QED
        BY <1>1, <3>1, ElementOfSeq
    <2>2. buffer' \in Text /\ Len(buffer') = Len(buffer) + 1
      BY <1>1, <1>3, <2>1, AppendProperties DEF ReadChar, Text
    <2> QED
      BY <1>1, <1>3, <2>2 DEF ReadChar, TypeOK, fileVars
  <1>4. CASE ReadNothing
    <2>1. buffer' \in Text /\ Len(buffer') \in Nat /\ Len(buffer') <= MaxLine
      BY <1>1, <1>4, AppendProperties DEF ReadNothing, TypeOK, Text
    <2>2. Len(buffer') <= MaxLine + 1
      BY <1>1, <2>1
    <2> QED
      BY <1>1, <1>4, <2>1, <2>2, ReturnType DEF ReadNothing, TypeOK, fileVars
  <1> QED
    BY <1>2, <1>3, <1>4 DEF Read

(* Writing only makes the file longer. *)
LEMMA WriteType ==
    ASSUME TypeOK, NEW n \in Lengths, WriteLine(n)
    PROVE  TypeOK'
  <1> DEFINE line == Append([j \in 1..n |-> <<Len(written) + 1, j>>], NL)
  <1>1. n \in Nat /\ Len(written) + 1 \in 1..MaxLines
    BY LineAssumption, LenProperties DEF TypeOK, WriteLine
  <1>2. line \in Seq(Char \cup {NL})
    <2>1. [j \in 1..n |-> <<Len(written) + 1, j>>] \in Seq(Char \cup {NL})
      BY <1>1 DEF Char
    <2> QED
      BY <2>1, AppendProperties
  <1>3. written' \in Seq(Lengths)
    BY AppendProperties DEF TypeOK, WriteLine
  <1> HIDE DEF line
  <1>4. file \o line \in Seq(Char \cup {NL}) /\ Len(file \o line) = Len(file) + Len(line)
    BY <1>2, ConcatProperties DEF TypeOK
  <1>5. /\ \/ file' = file \o line /\ pending' = <<>> /\ whole' = whole
           \/ file' = file /\ pending' = line /\ whole' = FALSE
        /\ UNCHANGED <<reading, offset, buffer, events>>
    BY DEF WriteLine, line
  <1>6. Len(file) \in Nat /\ Len(line) \in Nat
    BY <1>2, LenProperties DEF TypeOK
  <1>7. file' \in Seq(Char \cup {NL}) /\ Len(file') >= Len(file) /\ Len(file') \in Nat
    <2>1. file' = file \o line \/ file' = file
      BY <1>5
    <2>2. file \in Seq(Char \cup {NL})
      BY DEF TypeOK
    <2>3. CASE file' = file \o line
      <3>1. Len(file') = Len(file) + Len(line)
        BY <1>4, <2>3
      <3>2. Len(file') \in Nat /\ Len(file') >= Len(file)
        BY <1>6, <3>1
      <3> QED
        BY <1>4, <2>3, <3>2
    <2>4. CASE file' = file
      BY <1>6, <2>2, <2>4
    <2> QED
      BY <2>1, <2>3, <2>4
  <1>8. pending' \in Seq(Char \cup {NL})
    <2>1. <<>> \in Seq(Char \cup {NL})
      BY EmptyText
    <2>2. pending' = <<>> \/ pending' = line
      BY <1>5
    <2> QED
      BY <1>2, <2>1, <2>2
  <1>9. whole' \in BOOLEAN
    BY <1>5 DEF TypeOK
  <1> QED
    BY <1>3, <1>5, <1>6, <1>7, <1>8, <1>9 DEF TypeOK

LEMMA AppendPartType ==
    ASSUME TypeOK, NEW n \in 1..Len(pending), AppendPart(n)
    PROVE  TypeOK'
  <1>1. pending \in Seq(Char \cup {NL}) /\ Len(pending) \in Nat
    BY LenProperties DEF TypeOK
  <1>2. /\ SubSeq(pending, 1, n) \in Seq(Char \cup {NL})
        /\ SubSeq(pending, n + 1, Len(pending)) \in Seq(Char \cup {NL})
    BY <1>1, SubSeqProperties
  <1>3. file' \in Seq(Char \cup {NL}) /\ Len(file') >= Len(file)
    BY <1>2, ConcatProperties, LenProperties DEF TypeOK, AppendPart
  <1> QED
    BY <1>2, <1>3, LenProperties DEF TypeOK, AppendPart

LEMMA NextType == TypeOK /\ [Next]_vars => TypeOK'
  <1> SUFFICES ASSUME TypeOK, [Next]_vars
               PROVE  TypeOK'
    OBVIOUS
  <1>1. CASE Poll
    <2>1. <<>> \in Text /\ Len(<<>>) <= MaxLine /\ Len(<<>>) <= MaxLine + 1
      BY EmptyText, LineAssumption DEF Text
    <2>2. buffer' = <<>> /\ reading' = TRUE /\ UNCHANGED <<file, pending, written, whole, offset, events>>
      BY <1>1 DEF Poll, fileVars
    <2> QED
      BY <2>1, <2>2 DEF TypeOK
  <1>2. CASE UNCHANGED vars
    BY <1>2 DEF vars, fileVars, TypeOK
  <1> QED
    BY <1>1, <1>2, ReadType, WriteType, AppendPartType DEF Next

(* Whatever is written, and however it is cut, a call of readLine stores at  *)
(* most one character behind its buffer, and that only as it returns; and   *)
(* the offset stays within the file.                                       *)
THEOREM TypeCorrect == Spec => []TypeOK
  BY InitType, NextType, PTL DEF Spec

-----------------------------------------------------------------------------
(* The order of the characters.  What is in the file, and what the writer   *)
(* has still to append, is in order; what was handed over, and then what is *)
(* in the buffer, was read before the offset.                              *)

FileText == Seq(Char \cup {NL})

FileInOrder(f) ==
    \A a, b \in DOMAIN f : a < b /\ f[a] # NL /\ f[b] # NL => Before(f[a], f[b])

UpToLine(f, n) == \A a \in DOMAIN f : f[a] # NL => f[a][1] <= n

IsRead(text, f, o) ==
    \A i \in DOMAIN text : text[i] # NUL => \E a \in 1..o : f[a] = text[i] /\ f[a] # NL

OrderInv ==
    /\ TypeOK
    /\ FileInOrder(file \o pending)
    /\ UpToLine(file \o pending, Len(written))
    /\ \A m \in DOMAIN events : IsRead(events[m], file, offset)
    /\ reading =>
          /\ IsRead(buffer, file, offset)
          /\ InOrder(buffer)
          /\ \A m \in DOMAIN events : AllBefore(events[m], buffer)
    /\ CharactersInOrder

LEMMA InitOrder == Init => OrderInv
  <1> SUFFICES ASSUME Init
               PROVE  OrderInv
    OBVIOUS
  <1>1. file \o pending = <<>> /\ events = <<>> /\ ~reading
    BY DEF Init
  <1> QED
    BY <1>1, InitType DEF OrderInv, FileInOrder, UpToLine, CharactersInOrder

(* A line written after all others. *)
LEMMA LineInOrder ==
    ASSUME NEW f \in FileText, NEW w \in Nat, NEW n \in Nat, w + 1 \in 1..MaxLines,
           FileInOrder(f), UpToLine(f, w)
    PROVE  LET line == Append([j \in 1..n |-> <<w + 1, j>>], NL)
           IN  FileInOrder(f \o line) /\ UpToLine(f \o line, w + 1)
  <1> DEFINE text == [j \in 1..n |-> <<w + 1, j>>]
             line == Append(text, NL)
             new == f \o line
  <1>1. text \in FileText /\ Len(text) = n /\ \A j \in 1..n : text[j] = <<w + 1, j>>
    BY DEF FileText, Char
  <1>2. /\ line \in FileText /\ Len(line) = n + 1 /\ line[n + 1] = NL
        /\ \A j \in 1..n : line[j] = <<w + 1, j>>
    <2> HIDE DEF text
    <2> QED
      BY <1>1, AppendProperties DEF FileText
  <1>3. Len(f) \in Nat /\ DOMAIN f = 1..Len(f)
    BY LenProperties DEF FileText
  <1> HIDE DEF line
  <1>4. /\ new \in FileText /\ Len(new) = Len(f) + n + 1
        /\ \A i \in 1..Len(f) + n + 1 : new[i] = IF i <= Len(f) THEN f[i] ELSE line[i - Len(f)]
    <2>1. f \in Seq(Char \cup {NL}) /\ line \in Seq(Char \cup {NL})
      BY <1>2 DEF FileText
    <2>2. /\ new \in Seq(Char \cup {NL}) /\ Len(new) = Len(f) + Len(line)
          /\ \A i \in 1..Len(f) + Len(line) :
                new[i] = IF i <= Len(f) THEN f[i] ELSE line[i - Len(f)]
      BY <2>1, ConcatProperties
    <2>3. Len(f) + Len(line) = Len(f) + n + 1
      BY <1>2, <1>3
    <2> HIDE DEF new
    <2> QED
      BY <2>2, <2>3 DEF FileText
  <1>5. DOMAIN new = 1..Len(f) + n + 1
    BY <1>4, LenProperties DEF FileText
  <1>6. \A a \in DOMAIN new : new[a] # NL =>
           \/ a \in 1..Len(f) /\ new[a] = f[a]
           \/ a > Len(f) /\ new[a] = <<w + 1, a - Len(f)>>
    <2> SUFFICES ASSUME NEW a \in DOMAIN new, new[a] # NL, ~(a <= Len(f))
                 PROVE  a > Len(f) /\ new[a] = <<w + 1, a - Len(f)>>
      BY <1>3, <1>4, <1>5
    <2>1. new[a] = line[a - Len(f)] /\ a - Len(f) \in 1..n + 1
      BY <1>3, <1>4, <1>5
    <2>2. a - Len(f) \in 1..n
      BY <1>2, <2>1
    <2> QED
      BY <1>2, <1>3, <1>5, <2>1, <2>2
  <1> HIDE DEF new
  <1>7. \A a \in 1..Len(f) : f[a] # NL => f[a] \in Char /\ f[a][1] \in Nat /\ f[a][1] <= w
    BY <1>3, ElementOfSeq DEF FileText, UpToLine, Char
  <1>8. FileInOrder(new)
    <2> SUFFICES ASSUME NEW a \in DOMAIN new, NEW b \in DOMAIN new, a < b,
                        new[a] # NL, new[b] # NL
                 PROVE  Before(new[a], new[b])
      BY DEF FileInOrder
    <2>1. CASE a \in 1..Len(f) /\ b \in 1..Len(f)
      BY <1>3, <1>5, <1>6, <2>1 DEF FileInOrder
    <2>2. CASE a \in 1..Len(f) /\ b > Len(f)
      <3>1. new[a] = f[a] /\ f[a] # NL /\ new[b] = <<w + 1, b - Len(f)>>
        BY <1>3, <1>5, <1>6, <2>2
      <3>2. f[a][1] \in Nat /\ f[a][1] <= w
        BY <1>7, <2>2, <3>1
      <3> QED
        BY <3>1, <3>2 DEF Before
    <2>3. CASE a > Len(f)
      <3>1. new[a] = <<w + 1, a - Len(f)>> /\ new[b] = <<w + 1, b - Len(f)>>
        BY <1>3, <1>5, <1>6, <2>3
      <3>2. a - Len(f) < b - Len(f)
        BY <1>3, <1>5
      <3> QED
        BY <3>1, <3>2 DEF Before
    <2> QED
      BY <1>3, <1>5, <2>1, <2>2, <2>3
  <1>9. UpToLine(new, w + 1)
    BY <1>3, <1>6, <1>7 DEF UpToLine
  <1> QED
    BY <1>8, <1>9 DEF new, line

LEMMA WriteOrder ==
    ASSUME TypeOK, NEW n \in Lengths, WriteLine(n), FileInOrder(file \o pending),
           UpToLine(file \o pending, Len(written))
    PROVE  /\ FileInOrder(file' \o pending')
           /\ UpToLine(file' \o pending', Len(written'))
  <1> DEFINE line == Append([j \in 1..n |-> <<Len(written) + 1, j>>], NL)
  <1>1. /\ n \in Nat /\ Len(written) \in Nat /\ Len(written) + 1 \in 1..MaxLines
        /\ Len(written') = Len(written) + 1
    BY LineAssumption, LenProperties, AppendProperties DEF TypeOK, WriteLine
  <1>2. file \in FileText /\ file \o pending = file
    BY ConcatEmptySeq DEF TypeOK, WriteLine, FileText
  <1>3. FileInOrder(file \o line) /\ UpToLine(file \o line, Len(written) + 1)
    BY <1>1, <1>2, LineInOrder
  <1>4. \/ file' = file \o line /\ pending' = <<>>
        \/ file' = file /\ pending' = line
    BY DEF WriteLine
  <1> HIDE DEF line
  <1>5. file' \o pending' = file \o line
    <2>1. file' \in FileText
      BY WriteType DEF TypeOK, FileText
    <2> QED
      BY <1>4, <2>1, ConcatEmptySeq DEF FileText
  <1> QED
    BY <1>1, <1>3, <1>5

LEMMA AppendPartOrder ==
    ASSUME TypeOK, NEW n \in 1..Len(pending), AppendPart(n)
    PROVE  file' \o pending' = file \o pending
  <1>1. pending \in FileText /\ file \in FileText /\ Len(pending) \in Nat
    BY LenProperties DEF TypeOK, FileText
  <1>2. PICK s, t : s = SubSeq(pending, 1, n) /\ t = SubSeq(pending, n + 1, Len(pending))
    OBVIOUS
  <1>3. s \in FileText
    BY <1>1, <1>2, SubSeqProperties DEF FileText
  <1>4. t \in FileText
    BY <1>1, <1>2, SubSeqProperties DEF FileText
  <1>5. s \o t = pending
    <2>1. s \o t = SubSeq(pending, 1, Len(pending))
      BY <1>1, <1>2, ConcatAdjacentSubSeq DEF FileText
    <2> QED
      BY <1>1, <2>1, SubSeqFull DEF FileText
  <1>6. (file \o s) \o t = file \o (s \o t)
    <2>1. file \in Seq(Char \cup {NL}) /\ s \in Seq(Char \cup {NL}) /\ t \in Seq(Char \cup {NL})
      BY <1>1, <1>3, <1>4 DEF FileText
    <2> QED
      BY ONLY <2>1, ConcatAssociative
  <1> QED
    BY <1>2, <1>5, <1>6 DEF AppendPart

(* What has been read stays so. *)
LEMMA ReadStays ==
    ASSUME NEW f \in FileText, NEW g \in FileText, NEW o \in 0..Len(f), NEW p \in Nat, o <= p,
           NEW text, IsRead(text, f, o)
    PROVE  IsRead(text, f \o g, o) /\ IsRead(text, f, p)
  <1>1. Len(f) \in Nat
    BY LenProperties DEF FileText
  <1>2. \A a \in 1..o : (f \o g)[a] = f[a] /\ a \in 1..p
    BY <1>1, ConcatProperties, LenProperties DEF FileText
  <1> QED
    BY <1>2 DEF IsRead

(* The next character comes after all that have been read. *)
LEMMA NextIsLater ==
    ASSUME NEW f \in FileText, FileInOrder(f), NEW o \in 0..Len(f) - 1, f[o + 1] # NL,
           NEW text, IsRead(text, f, o)
    PROVE  \A i \in DOMAIN text : text[i] # NUL => Before(text[i], f[o + 1])
  <1>1. DOMAIN f = 1..Len(f) /\ Len(f) \in Nat
    BY LenProperties DEF FileText
  <1>2. o + 1 \in DOMAIN f /\ \A a \in 1..o : a \in DOMAIN f /\ a < o + 1
    BY <1>1
  <1> QED
    BY <1>2 DEF IsRead, FileInOrder

(* The text that is returned comes after those handed over before. *)
LEMMA ReturnOrder ==
    ASSUME NEW text \in Text, events \in Seq(Text), Return(text), CharactersInOrder,
           InOrder(text), \A m \in DOMAIN events : AllBefore(events[m], text),
           NEW f, NEW o, IsRead(text, f, o), \A m \in DOMAIN events : IsRead(events[m], f, o)
    PROVE  /\ CharactersInOrder'
           /\ \A m \in DOMAIN events' : IsRead(events'[m], f, o)
           /\ ~reading'
  <1>1. CASE events' = events
    BY <1>1 DEF CharactersInOrder, Return
  <1>2. CASE events' = Append(events, text)
    <2>1. /\ Len(events) \in Nat /\ DOMAIN events = 1..Len(events)
          /\ DOMAIN events' = 1..Len(events) + 1 /\ events'[Len(events) + 1] = text
          /\ \A m \in 1..Len(events) : events'[m] = events[m]
      BY <1>2, AppendProperties, LenProperties
    <2>2. \A m \in 1..Len(events) + 1 : m \in 1..Len(events) \/ m = Len(events) + 1
      BY <2>1
    <2>3. \A n \in DOMAIN events', m \in Int : m \in 1..n - 1 => m \in 1..Len(events)
      BY <2>1
    <2>4. CharactersInOrder'
      <3> SUFFICES ASSUME NEW n \in DOMAIN events'
                   PROVE  /\ InOrder(events'[n])
                          /\ \A m \in 1..n - 1 : AllBefore(events'[m], events'[n])
        BY DEF CharactersInOrder, InOrder, AllBefore
      <3>1. CASE n \in 1..Len(events)
        BY <2>1, <2>3, <3>1 DEF CharactersInOrder
      <3>2. CASE n = Len(events) + 1
        BY <2>1, <2>3, <3>2
      <3> QED
        BY <2>1, <2>2, <3>1, <3>2
    <2>5. \A m \in DOMAIN events' : IsRead(events'[m], f, o)
      BY <2>1, <2>2
    <2> QED
      BY <2>4, <2>5 DEF Return
  <1> QED
    BY <1>1, <1>2 DEF Return

LEMMA ReadOrder ==
    ASSUME OrderInv, Read
    PROVE  OrderInv'
  <1>1. TypeOK /\ TypeOK'
    BY ReadType DEF OrderInv
  <1>2. /\ file \in FileText /\ pending \in FileText /\ events \in Seq(Text) /\ buffer \in Text
        /\ offset \in 0..Len(file) /\ Len(file) \in Nat /\ buffer' \in Text
    BY <1>1, LenProperties DEF TypeOK, FileText
  <1>3. reading /\ UNCHANGED fileVars /\ offset' \in {offset, offset + 1}
    BY DEF Read, ReadNewline, ReadChar, ReadOverlong, ReadNothing
  <1>4. \A text : IsRead(text, file, offset) => IsRead(text, file', offset')
    <2>1. offset' \in Nat /\ offset <= offset' /\ file' = file
      BY <1>2, <1>3 DEF fileVars
    <2>2. <<>> \in FileText
      BY EmptyText DEF FileText
    <2> QED
      BY <1>2, <2>1, <2>2, ReadStays
  <1>5. FileInOrder(file' \o pending') /\ UpToLine(file' \o pending', Len(written'))
    BY <1>3 DEF OrderInv, fileVars
  <1>6. /\ \A m \in DOMAIN events : IsRead(events[m], file', offset')
        /\ IsRead(buffer, file', offset')
        /\ InOrder(buffer) /\ \A m \in DOMAIN events : AllBefore(events[m], buffer)
        /\ CharactersInOrder
    BY <1>3, <1>4 DEF OrderInv
  <1>7. CASE ReadNewline \/ ReadOverlong
    <2>1. Return(buffer)
      BY <1>7 DEF ReadNewline, ReadOverlong
    <2>2. CharactersInOrder' /\ ~reading' /\ \A m \in DOMAIN events' : IsRead(events'[m], file', offset')
      BY <1>2, <1>6, <2>1, ReturnOrder
    <2> QED
      BY <1>1, <1>5, <2>2 DEF OrderInv
  <1>8. CASE ReadNothing
    <2>1. Return(buffer') /\ (buffer' = buffer \/ buffer' = Append(buffer, NUL))
      BY <1>8 DEF ReadNothing
    <2>2. \A i \in DOMAIN buffer' : buffer'[i] # NUL => i \in DOMAIN buffer /\ buffer'[i] = buffer[i]
      <3>1. CASE buffer' = Append(buffer, NUL)
        <4>1. /\ Len(buffer) \in Nat /\ DOMAIN buffer = 1..Len(buffer)
              /\ DOMAIN buffer' = 1..Len(buffer) + 1 /\ buffer'[Len(buffer) + 1] = NUL
              /\ \A i \in 1..Len(buffer) : buffer'[i] = buffer[i]
          BY <1>2, <3>1, AppendProperties, LenProperties DEF Text
        <4> QED
          BY <4>1
      <3> QED
        BY <2>1, <3>1
    <2>3. /\ IsRead(buffer', file', offset')
          /\ InOrder(buffer') /\ \A m \in DOMAIN events : AllBefore(events[m], buffer')
      BY <1>6, <2>2 DEF IsRead, InOrder, AllBefore
    <2>4. CharactersInOrder' /\ ~reading' /\ \A m \in DOMAIN events' : IsRead(events'[m], file', offset')
      BY <1>2, <1>6, <2>1, <2>3, ReturnOrder
    <2> QED
      BY <1>1, <1>5, <2>4 DEF OrderInv
  <1>9. CASE ReadChar
    <2> DEFINE c == file[offset + 1]
    <2>1. /\ offset \in 0..Len(file) - 1 /\ offset' = offset + 1 /\ c # NL /\ file' = file
          /\ buffer' = Append(buffer, c) /\ events' = events
      BY <1>2, <1>9 DEF ReadChar, fileVars
    <2>2. c \in Char
      BY <1>2, <2>1, ElementOfSeq DEF FileText
    <2>3. FileInOrder(file)
      <3>1. \A a \in DOMAIN file : a \in DOMAIN (file \o pending) /\ (file \o pending)[a] = file[a]
        BY <1>2, ConcatProperties, LenProperties DEF FileText
      <3> QED
        BY <3>1 DEF OrderInv, FileInOrder
    <2>4. /\ Len(buffer) \in Nat /\ DOMAIN buffer = 1..Len(buffer)
          /\ DOMAIN buffer' = 1..Len(buffer) + 1 /\ buffer'[Len(buffer) + 1] = c
          /\ \A i \in 1..Len(buffer) : buffer'[i] = buffer[i]
      BY <1>2, <2>1, <2>2, AppendProperties, LenProperties DEF Text
    <2>5. \A i \in DOMAIN buffer' : i \in DOMAIN buffer \/ i = Len(buffer) + 1
      BY <2>4
    <2>6. /\ \A i \in DOMAIN buffer : buffer[i] # NUL => Before(buffer[i], c)
          /\ \A m \in DOMAIN events : \A i \in DOMAIN events[m] :
                events[m][i] # NUL => Before(events[m][i], c)
      BY <1>2, <1>3, <2>1, <2>3, NextIsLater DEF OrderInv
    <2> HIDE DEF c
    <2>7. IsRead(buffer', file', offset')
      <3>1. offset' \in 1..offset' /\ file'[offset'] = c
        BY <1>2, <2>1 DEF c
      <3> QED
        BY <1>6, <2>1, <2>4, <2>5, <3>1 DEF IsRead
    <2>8. InOrder(buffer')
      <3>1. \A i, j \in DOMAIN buffer' : i < j => i \in DOMAIN buffer
        BY <2>4
      <3> QED
        BY <1>6, <2>4, <2>5, <2>6, <3>1 DEF InOrder
    <2>9. \A m \in DOMAIN events : AllBefore(events[m], buffer')
      BY <1>6, <2>4, <2>5, <2>6 DEF AllBefore
    <2>10. CharactersInOrder'
      BY <1>6, <2>1 DEF CharactersInOrder
    <2> QED
      BY <1>1, <1>5, <1>6, <2>1, <2>7, <2>8, <2>9, <2>10 DEF OrderInv
  <1> QED
    BY <1>7, <1>8, <1>9 DEF Read

LEMMA NextOrder == OrderInv /\ [Next]_vars => OrderInv'
  <1> SUFFICES ASSUME OrderInv, [Next]_vars
               PROVE  OrderInv'
    OBVIOUS
  <1>1. TypeOK
    BY DEF OrderInv
  <1>2. /\ file \in FileText /\ offset \in 0..Len(file) /\ Len(file) \in Nat
        /\ pending \in FileText
    BY <1>1, LenProperties DEF TypeOK, FileText
  <1>3. ASSUME NEW g \in FileText, file' = file \o g, TypeOK',
               UNCHANGED <<reading, offset, buffer, events>>,
               FileInOrder(file' \o pending'), UpToLine(file' \o pending', Len(written'))
        PROVE  OrderInv'
    <2>1. \A text : IsRead(text, file, offset) => IsRead(text, file', offset')
      BY <1>2, <1>3, ReadStays
    <2>2. CharactersInOrder'
      BY <1>3 DEF OrderInv, CharactersInOrder
    <2> QED
      BY <1>3, <2>1, <2>2 DEF OrderInv
  <1>4. ASSUME NEW n \in Lengths, WriteLine(n)
        PROVE  OrderInv'
    <2> DEFINE line == Append([j \in 1..n |-> <<Len(written) + 1, j>>], NL)
    <2>1. TypeOK' /\ FileInOrder(file' \o pending') /\ UpToLine(file' \o pending', Len(written'))
      BY <1>1, <1>4, WriteType, WriteOrder DEF OrderInv
    <2>2. UNCHANGED <<reading, offset, buffer, events>>
      BY <1>4 DEF WriteLine
    <2>3. CASE file' = file \o line /\ pending' = <<>>
      <3>1. line \in FileText
        <4>1. n \in Nat /\ Len(written) + 1 \in 1..MaxLines
          BY <1>1, <1>4, LineAssumption, LenProperties DEF TypeOK, WriteLine
        <4>2. [j \in 1..n |-> <<Len(written) + 1, j>>] \in FileText
          BY <4>1 DEF FileText, Char
        <4> QED
          BY <4>2, AppendProperties DEF FileText
      <3> HIDE DEF line
      <3> QED
        BY <1>3, <2>1, <2>2, <2>3, <3>1
    <2>4. CASE file' = file
      <3>1. <<>> \in FileText /\ file = file \o <<>>
        BY <1>2, EmptyText, ConcatEmptySeq DEF FileText
      <3> QED
        BY <1>3, <2>1, <2>2, <2>4, <3>1
    <2> QED
      BY <1>4, <2>3, <2>4 DEF WriteLine
  <1>5. ASSUME NEW n \in 1..Len(pending), AppendPart(n)
        PROVE  OrderInv'
    <2>1. SubSeq(pending, 1, n) \in FileText
      BY <1>2, LenProperties, SubSeqProperties DEF FileText
    <2>2. TypeOK' /\ file' \o pending' = file \o pending
      BY <1>1, <1>5, AppendPartType, AppendPartOrder
    <2>3. /\ file' = file \o SubSeq(pending, 1, n) /\ written' = written
          /\ UNCHANGED <<reading, offset, buffer, events>>
      BY <1>5 DEF AppendPart
    <2>4. FileInOrder(file' \o pending') /\ UpToLine(file' \o pending', Len(written'))
      BY <2>2, <2>3 DEF OrderInv
    <2> QED
      BY <1>3, <2>1, <2>2, <2>3, <2>4
  <1>6. CASE Poll
    <2>1. TypeOK'
      BY <1>1, <1>6, NextType
    <2> QED
      BY <1>6, <2>1 DEF Poll, OrderInv, fileVars, IsRead, InOrder, AllBefore, CharactersInOrder
  <1>7. CASE UNCHANGED vars
    <2>1. TypeOK'
      BY <1>1, <1>7, NextType
    <2> QED
      BY <1>7, <2>1 DEF vars, OrderInv, fileVars, CharactersInOrder
  <1> QED
    BY <1>4, <1>5, <1>6, <1>7, ReadOrder DEF Next

(* However lines are written, torn and cut, and whatever the size of the    *)
(* buffer, no character reaches processDhcpEventFromLog twice, and none     *)
(* before one that stands earlier in the file.                             *)
THEOREM CharactersInOrderCorrect == Spec => []CharactersInOrder
  <1>1. OrderInv => CharactersInOrder
    BY DEF OrderInv
  <1> QED
    BY <1>1, InitOrder, NextOrder, PTL DEF Spec

-----------------------------------------------------------------------------
(* The stores of the reader, while every line fits the buffer.  Between two *)
(* newlines the places go up by one from a place below MaxLine, so the last *)
(* character in the buffer stands at a place no smaller than its index.    *)

Consecutive(f) ==
    /\ \A a \in DOMAIN f : f[a] # NL => f[a][2] \in 1..MaxLine - 1
    /\ \A a \in DOMAIN f :
          a + 1 \in DOMAIN f /\ f[a] # NL /\ f[a + 1] # NL => f[a + 1][2] = f[a][2] + 1
    /\ f # <<>> => f[Len(f)] = NL

LastRead ==
    buffer # <<>> => offset > 0 /\ file[offset] # NL /\ file[offset][2] >= Len(buffer)

StoreInv ==
    /\ TypeOK
    /\ LinesFit =>
          /\ Consecutive(file \o pending)
          /\ reading => LastRead
          /\ ~reading /\ buffer # <<>> => Len(buffer) <= MaxLine /\ Last(buffer) = NUL

(* Writing leaves what is in the file where it is. *)
LEMMA FileGrows ==
    ASSUME NEW f \in FileText, NEW g \in FileText
    PROVE  /\ f \o g \in FileText /\ Len(f \o g) = Len(f) + Len(g)
           /\ \A a \in 1..Len(f) : (f \o g)[a] = f[a] /\ a \in DOMAIN (f \o g)
           /\ \A b \in 1..Len(g) : (f \o g)[Len(f) + b] = g[b]
  <1>1. /\ Len(f) \in Nat /\ Len(g) \in Nat /\ f \o g \in FileText
        /\ Len(f \o g) = Len(f) + Len(g)
        /\ \A i \in 1..Len(f) + Len(g) : (f \o g)[i] = IF i <= Len(f) THEN f[i] ELSE g[i - Len(f)]
    BY ConcatProperties, LenProperties DEF FileText
  <1>2. DOMAIN (f \o g) = 1..Len(f) + Len(g)
    BY <1>1, LenProperties DEF FileText
  <1>3. \A a \in 1..Len(f) : a \in 1..Len(f) + Len(g) /\ a <= Len(f)
    BY <1>1
  <1>4. \A b \in 1..Len(g) : /\ Len(f) + b \in 1..Len(f) + Len(g)
                             /\ ~(Len(f) + b <= Len(f)) /\ (Len(f) + b) - Len(f) = b
    BY <1>1
  <1> QED
    BY <1>1, <1>2, <1>3, <1>4

LEMMA LineType ==
    ASSUME TypeOK, NEW n \in Lengths, WriteLine(n)
    PROVE  LET line == Append([j \in 1..n |-> <<Len(written) + 1, j>>], NL)
           IN  /\ line \in FileText /\ Len(line) = n + 1 /\ n \in Nat
               /\ line[n + 1] = NL /\ \A j \in 1..n : line[j] = <<Len(written) + 1, j>>
  <1> DEFINE text == [j \in 1..n |-> <<Len(written) + 1, j>>]
  <1>1. n \in Nat /\ Len(written) + 1 \in 1..MaxLines
    BY LineAssumption, LenProperties DEF TypeOK, WriteLine
  <1>2. text \in FileText /\ Len(text) = n /\ \A j \in 1..n : text[j] = <<Len(written) + 1, j>>
    BY <1>1 DEF FileText, Char
  <1> HIDE DEF text
  <1>3. /\ Append(text, NL) \in FileText /\ Len(Append(text, NL)) = n + 1
        /\ Append(text, NL)[n + 1] = NL
        /\ \A j \in 1..n : Append(text, NL)[j] = text[j]
    BY <1>2, AppendProperties DEF FileText
  <1> QED
    BY <1>1, <1>2, <1>3 DEF text

(* A line that fits, behind lines that fit and are complete. *)
LEMMA LineConsecutive ==
    ASSUME NEW f \in FileText, Consecutive(f), NEW w, NEW n \in Nat, n < MaxLine,
           NEW line \in FileText, Len(line) = n + 1, line[n + 1] = NL,
           \A j \in 1..n : line[j] = <<w, j>>
    PROVE  Consecutive(f \o line)
  <1> DEFINE new == f \o line
             l == Len(f)
  <1>1. /\ l \in Nat /\ MaxLine \in Nat /\ DOMAIN f = 1..l
        /\ Len(new) = l + n + 1 /\ DOMAIN new = 1..l + n + 1
    <2>1. Len(f) \in Nat /\ DOMAIN f = 1..Len(f) /\ Len(new) = Len(f) + Len(line)
          /\ DOMAIN new = 1..Len(new)
      BY FileGrows, LenProperties DEF FileText
    <2> HIDE DEF new
    <2> QED
      BY <2>1, LineAssumption
  <1>2. \A a \in 1..l : new[a] = f[a]
    BY FileGrows
  <1>3. \A b \in 1..n : new[l + b] = <<w, b>>
    <2>1. \A b \in 1..n : b \in 1..Len(line)
      OBVIOUS
    <2> QED
      BY <2>1, FileGrows
  <1>4. new[l + n + 1] = NL
    <2>1. n + 1 \in 1..Len(line)
      OBVIOUS
    <2>2. new[l + (n + 1)] = line[n + 1]
      BY <2>1, FileGrows
    <2>3. l + (n + 1) = l + n + 1
      BY <1>1
    <2> QED
      BY <2>2, <2>3
  <1>5. l \in 1..l => f[l] = NL
    <2>1. ASSUME l \in 1..l
          PROVE  f # <<>>
      BY <1>1, <2>1, EmptyText
    <2> QED
      BY <2>1 DEF Consecutive
  <1> HIDE DEF new, l
  <1>6. \A a \in DOMAIN new :
           \/ a \in 1..l
           \/ \E b \in 1..n : a = l + b
           \/ a = l + n + 1
    <2> SUFFICES ASSUME NEW a \in DOMAIN new, ~(a \in 1..l), ~(a = l + n + 1)
                 PROVE  \E b \in 1..n : a = l + b
      OBVIOUS
    <2>1. a - l \in 1..n /\ a = l + (a - l)
      BY <1>1
    <2> QED
      BY <2>1
  <1>7. ASSUME NEW a \in DOMAIN new, new[a] # NL
        PROVE  new[a][2] \in 1..MaxLine - 1
    <2>1. CASE a \in 1..l
      BY <1>1, <1>2, <1>7, <2>1 DEF Consecutive
    <2>2. ASSUME NEW b \in 1..n, a = l + b
          PROVE  new[a][2] \in 1..MaxLine - 1
      <3>1. new[a][2] = b
        BY <1>3, <2>2
      <3> QED
        BY <1>1, <3>1
    <2> QED
      BY <1>4, <1>6, <1>7, <2>1, <2>2
  <1>8. ASSUME NEW a \in DOMAIN new, a + 1 \in DOMAIN new, new[a] # NL, new[a + 1] # NL
        PROVE  new[a + 1][2] = new[a][2] + 1
    <2>1. CASE a \in 1..l
      <3>1. a # l
        BY <1>2, <1>5, <1>8, <2>1
      <3>2. a + 1 \in 1..l
        BY <1>1, <2>1, <3>1
      <3> QED
        BY <1>1, <1>2, <1>8, <2>1, <3>2 DEF Consecutive
    <2>2. ASSUME NEW b \in 1..n, a = l + b
          PROVE  new[a + 1][2] = new[a][2] + 1
      <3>1. b # n
        BY <1>4, <1>8, <2>2
      <3>2. b + 1 \in 1..n /\ a + 1 = l + (b + 1)
        BY <1>1, <2>2, <3>1
      <3> QED
        BY <1>3, <2>2, <3>2
    <2> QED
      BY <1>4, <1>6, <1>8, <2>1, <2>2
  <1>9. new[Len(new)] = NL
    BY <1>1, <1>4
  <1> QED
    BY <1>7, <1>8, <1>9 DEF Consecutive, new

LEMMA InitStore == Init => StoreInv
  <1> SUFFICES ASSUME Init
               PROVE  StoreInv
    OBVIOUS
  <1>1. file \o pending = <<>> /\ buffer = <<>> /\ ~reading
    BY DEF Init
  <1> QED
    BY <1>1, InitType DEF StoreInv, Consecutive

LEMMA ReadStore ==
    ASSUME StoreInv, Read
    PROVE  StoreInv'
  <1>1. TypeOK /\ TypeOK'
    BY ReadType DEF StoreInv
  <1>2. reading /\ UNCHANGED <<file, pending, written, whole>>
    BY DEF Read, ReadNewline, ReadChar, ReadOverlong, ReadNothing, fileVars
  <1> SUFFICES ASSUME LinesFit
               PROVE  /\ reading' => LastRead'
                      /\ ~reading' /\ buffer' # <<>> => Len(buffer') <= MaxLine /\ Last(buffer') = NUL
    BY <1>1, <1>2 DEF StoreInv, LinesFit, Consecutive
  <1>3. Consecutive(file \o pending) /\ LastRead
    BY <1>2 DEF StoreInv
  <1>4. /\ file \in FileText /\ pending \in FileText /\ Len(file) \in Nat /\ offset \in 0..Len(file)
        /\ buffer \in Text /\ Len(buffer) \in Nat /\ MaxLine \in Nat /\ MaxLine > 1
    BY <1>1, LineAssumption, LenProperties DEF TypeOK, FileText, Text
  <1>6. /\ \A a \in 1..Len(file) : file[a] # NL => file[a][2] \in 1..MaxLine - 1
        /\ \A a \in 1..Len(file) : a + 1 \in 1..Len(file) /\ file[a] # NL /\ file[a + 1] # NL
              => file[a + 1][2] = file[a][2] + 1
    BY <1>3, <1>4, FileGrows DEF Consecutive
  <1>7. Len(buffer) < MaxLine
    <2>1. CASE buffer = <<>>
      BY <1>4, <2>1, EmptyText
    <2>2. CASE buffer # <<>>
      <3>1. offset \in 1..Len(file) /\ file[offset] # NL /\ file[offset][2] >= Len(buffer)
        BY <1>3, <1>4, <2>2 DEF LastRead
      <3>2. file[offset][2] \in 1..MaxLine - 1
        BY <1>6, <3>1
      <3> QED
        BY <1>4, <3>1, <3>2
    <2> QED
      BY <2>1, <2>2
  <1>8. ASSUME buffer' = Append(buffer, NUL)
        PROVE  Len(buffer') <= MaxLine /\ Last(buffer') = NUL
    <2>1. Len(buffer') = Len(buffer) + 1 /\ buffer'[Len(buffer) + 1] = NUL
      BY <1>4, <1>8, AppendProperties DEF Text
    <2> QED
      BY <1>4, <1>7, <2>1 DEF Last
  <1>9. CASE ReadNewline
    BY <1>8, <1>9 DEF ReadNewline, Return
  <1>10. CASE ReadOverlong
    BY <1>4, <1>7, <1>10 DEF ReadOverlong
  <1>11. CASE ReadNothing
    BY <1>7, <1>8, <1>11 DEF ReadNothing, Return
  <1>12. CASE ReadChar
    <2> DEFINE c == file[offset + 1]
    <2>1. /\ offset \in 0..Len(file) - 1 /\ offset' = offset + 1 /\ c # NL
          /\ buffer' = Append(buffer, c) /\ reading' = reading
      BY <1>4, <1>12 DEF ReadChar
    <2>2. offset + 1 \in 1..Len(file) /\ c \in Char
      BY <1>4, <2>1, ElementOfSeq DEF FileText
    <2>3. Len(buffer') = Len(buffer) + 1
      BY <1>4, <2>1, <2>2, AppendProperties DEF Text
    <2>4. c[2] \in Nat /\ c[2] >= Len(buffer) + 1
      <3>1. c[2] \in 1..MaxLine - 1
        BY <1>6, <2>1, <2>2
      <3>2. CASE buffer = <<>>
        BY <1>4, <3>1, <3>2, EmptyText
      <3>3. CASE buffer # <<>>
        <4>1. offset \in 1..Len(file) /\ file[offset] # NL /\ file[offset][2] >= Len(buffer)
          BY <1>3, <1>4, <3>3 DEF LastRead
        <4>2. c[2] = file[offset][2] + 1 /\ file[offset][2] \in 1..MaxLine - 1
          BY <1>6, <2>1, <2>2, <4>1
        <4> QED
          BY <1>4, <3>1, <4>1, <4>2
      <3> QED
        BY <3>2, <3>3
    <2>5. offset' > 0 /\ file'[offset'] # NL /\ file'[offset'][2] >= Len(buffer')
      BY <1>2, <1>4, <2>1, <2>3, <2>4
    <2> QED
      BY <1>2, <2>1, <2>5 DEF LastRead
  <1> QED
    BY <1>9, <1>10, <1>11, <1>12 DEF Read

(* What has been read, and the buffer, are as they were after a write. *)
LEMMA WriteStore ==
    ASSUME StoreInv, LinesFit, TypeOK', NEW g \in FileText, file' = file \o g,
           UNCHANGED <<reading, offset, buffer>>, Consecutive(file' \o pending')
    PROVE  StoreInv'
  <1>1. file \in FileText /\ Len(file) \in Nat /\ offset \in 0..Len(file)
    BY LenProperties DEF StoreInv, TypeOK, FileText
  <1>2. reading => LastRead'
    <2> SUFFICES ASSUME reading, buffer # <<>>
                 PROVE  offset > 0 /\ file'[offset] # NL /\ file'[offset][2] >= Len(buffer)
      BY DEF LastRead
    <2>1. offset > 0 /\ file[offset] # NL /\ file[offset][2] >= Len(buffer)
      BY DEF StoreInv, LastRead
    <2>2. offset \in 1..Len(file)
      BY <1>1, <2>1
    <2> QED
      BY <1>1, <2>1, <2>2, FileGrows
  <1> QED
    BY <1>2 DEF StoreInv

LEMMA NextStore == StoreInv /\ [Next]_vars => StoreInv'
  <1> SUFFICES ASSUME StoreInv, [Next]_vars
               PROVE  StoreInv'
    OBVIOUS
  <1>1. TypeOK /\ TypeOK'
    BY NextType DEF StoreInv
  <1>2. file \in FileText /\ pending \in FileText /\ MaxLine \in Nat
    BY <1>1, LineAssumption DEF TypeOK, FileText
  <1>3. ASSUME NEW n \in Lengths, WriteLine(n)
        PROVE  StoreInv'
    <2> SUFFICES ASSUME LinesFit'
                 PROVE  StoreInv'
      BY <1>1 DEF StoreInv
    <2>1. LinesFit /\ n < MaxLine
      <3>1. /\ Len(written) \in Nat /\ Len(written') = Len(written) + 1
            /\ \A i \in 1..Len(written) : written'[i] = written[i]
            /\ written'[Len(written) + 1] = n
        BY <1>1, <1>3, LenProperties, AppendProperties DEF TypeOK, WriteLine
      <3>2. Len(written) + 1 \in 1..Len(written') /\ \A i \in 1..Len(written) : i \in 1..Len(written')
        BY <3>1
      <3> QED
        BY <3>1, <3>2 DEF LinesFit
    <2>2. PICK line : /\ line = Append([j \in 1..n |-> <<Len(written) + 1, j>>], NL)
                      /\ line \in FileText /\ Len(line) = n + 1 /\ n \in Nat
                      /\ line[n + 1] = NL /\ \A j \in 1..n : line[j] = <<Len(written) + 1, j>>
      BY <1>1, <1>3, LineType
    <2>3. /\ pending = <<>> /\ UNCHANGED <<reading, offset, buffer>>
          /\ \/ file' = file \o line /\ pending' = <<>>
             \/ file' = file /\ pending' = line
      BY <1>3, <2>2 DEF WriteLine
    <2>4. file \o pending = file /\ <<>> \in FileText /\ file \o <<>> = file
      BY <1>2, <2>3, EmptyText, ConcatEmptySeq DEF FileText
    <2>5. file' \o pending' = file \o line
      <3>1. file \o line \in FileText
        BY <1>2, <2>2, FileGrows
      <3>2. (file \o line) \o <<>> = file \o line
        BY <3>1, ConcatEmptySeq DEF FileText
      <3> QED
        BY <2>3, <3>2
    <2>6. Consecutive(file' \o pending')
      BY <1>2, <2>1, <2>2, <2>4, <2>5, LineConsecutive DEF StoreInv
    <2> QED
      BY <1>1, <2>1, <2>2, <2>3, <2>4, <2>6, WriteStore
  <1>4. ASSUME NEW n \in 1..Len(pending), AppendPart(n)
        PROVE  StoreInv'
    <2> SUFFICES ASSUME LinesFit
                 PROVE  StoreInv'
      BY <1>1, <1>4 DEF StoreInv, AppendPart, LinesFit
    <2>1. SubSeq(pending, 1, n) \in FileText
      BY <1>2, LenProperties, SubSeqProperties DEF FileText
    <2>2. file' \o pending' = file \o pending
      BY <1>1, <1>4, AppendPartOrder
    <2>3. file' = file \o SubSeq(pending, 1, n) /\ UNCHANGED <<reading, offset, buffer>>
      BY <1>4 DEF AppendPart
    <2> QED
      BY <1>1, <2>1, <2>2, <2>3, WriteStore DEF StoreInv
  <1>5. CASE Poll
    <2>1. buffer' = <<>> /\ reading' = TRUE /\ UNCHANGED <<file, pending, written>>
      BY <1>5 DEF Poll, fileVars
    <2> QED
      BY <1>1, <2>1 DEF StoreInv, LastRead, LinesFit, Consecutive
  <1>6. CASE UNCHANGED vars
    BY <1>1, <1>6 DEF vars, fileVars, StoreInv, LastRead, LinesFit, Consecutive
  <1> QED
    BY <1>3, <1>4, <1>5, <1>6, ReadStore DEF Next

(* Whatever the size of the buffer, and however lines are torn: if each     *)
(* fits it with the zero at its end, readLine stores nothing behind it, and *)
(* the text it hands over ends in it.  Nothing else protects osmud.c:69.    *)
THEOREM TextEndsInBufferCorrect == Spec => []TextEndsInBuffer
  <1>1. StoreInv => TextEndsInBuffer
    <2> SUFFICES ASSUME StoreInv, LinesFit
                 PROVE  /\ Len(buffer) <= MaxLine
                        /\ ~reading /\ buffer # <<>> => Last(buffer) = NUL
      BY DEF TextEndsInBuffer
    <2>1. MaxLine \in Nat /\ Len(<<>>) = 0
      BY LineAssumption
    <2> QED
      BY <2>1 DEF StoreInv, TypeOK
  <1> QED
    BY <1>1, InitStore, NextStore, PTL DEF Spec

-----------------------------------------------------------------------------
(* One event per line.  start[i] is the offset at which the i-th line begins; *)
(* the reader is at the p-th character of line c, has them all in the buffer, *)
(* and has handed over the lines before c.                                   *)

Line(w, i) == [j \in 1..w[i] |-> <<i, j>>]

IsLayout(start, f, w) ==
    /\ start \in [1..Len(w) + 1 -> Nat]
    /\ start[1] = 0
    /\ start[Len(w) + 1] = Len(f)
    /\ \A i \in 1..Len(w) :
          /\ start[i + 1] = start[i] + w[i] + 1
          /\ start[i] + w[i] + 1 <= Len(f)
          /\ \A j \in 1..w[i] : f[start[i] + j] = <<i, j>>
          /\ f[start[i] + w[i] + 1] = NL

EventsUpTo(ev, w, c) ==
    /\ \A m \in DOMAIN ev : \E i \in 1..c - 1 : w[i] > 1 /\ ev[m] = Line(w, i)
    /\ \A m, n \in DOMAIN ev, i, k \in 1..c - 1 :
          m < n /\ w[i] > 1 /\ w[k] > 1 /\ ev[m] = Line(w, i) /\ ev[n] = Line(w, k) => i < k
    /\ \A i \in 1..c - 1 : w[i] > 1 => \E m \in DOMAIN ev : ev[m] = Line(w, i)

(* The reader inside the file. *)
At(start, c, p, f, w, o, rd, buf, ev) ==
    /\ IsLayout(start, f, w)
    /\ c \in 1..Len(w) + 1
    /\ p \in Nat
    /\ c <= Len(w) => p <= w[c]
    /\ c = Len(w) + 1 => p = 0
    /\ o = start[c] + p
    /\ rd => buf = [j \in 1..p |-> <<c, j>>]
    /\ ~rd => p = 0
    /\ EventsUpTo(ev, w, c)

Cut ==
    /\ pending = <<>>
    /\ \E start, c, p : At(start, c, p, file, written, offset, reading, buffer, events)

CutInv == TypeOK /\ (WellWritten => Cut)

LEMMA InitCut == Init => CutInv
  <1> SUFFICES ASSUME Init
               PROVE  CutInv
    OBVIOUS
  <1> DEFINE start == [i \in 1..1 |-> 0]
  <1>1. IsLayout(start, <<>>, <<>>)
    BY DEF IsLayout
  <1>2. EventsUpTo(<<>>, <<>>, 1)
    BY DEF EventsUpTo
  <1> HIDE DEF start
  <1>3. start[1] = 0
    BY DEF start
  <1>4. At(start, 1, 0, <<>>, <<>>, 0, FALSE, <<>>, <<>>)
    BY <1>1, <1>2, <1>3 DEF At
  <1> QED
    BY <1>4, InitType DEF Init, CutInv, Cut

LEMMA LinesDiffer ==
    ASSUME NEW w, NEW i, NEW k, w[i] \in Nat, w[i] > 1, w[k] \in Nat, w[k] > 1,
           Line(w, i) = Line(w, k)
    PROVE  i = k
  <1>1. Line(w, i)[1] = <<i, 1>> /\ Line(w, k)[1] = <<k, 1>>
    BY DEF Line
  <1> QED
    BY <1>1

(* The lines that are handed over are those of the property. *)
LEMMA CutIsOneEventPerLine ==
    ASSUME written \in Seq(Nat), NEW c \in 1..Len(written) + 1, EventsUpTo(events, written, c)
    PROVE  OneEventPerLine
  <1>1. /\ DOMAIN written = 1..Len(written) /\ Len(written) \in Nat
        /\ \A i \in 1..Len(written) : written[i] \in Nat /\ LineText(i) = Line(written, i)
    BY LenProperties, ElementOfSeq DEF LineText, Line
  <1>2. \A i \in 1..c - 1 : i \in 1..Len(written)
    BY <1>1
  <1>3. \A m \in DOMAIN events, k \in EventLines : events[m] = LineText(k) => k \in 1..c - 1
    <2> SUFFICES ASSUME NEW m \in DOMAIN events, NEW k \in EventLines, events[m] = LineText(k)
                 PROVE  k \in 1..c - 1
      OBVIOUS
    <2>1. PICK i \in 1..c - 1 : written[i] > 1 /\ events[m] = Line(written, i)
      BY DEF EventsUpTo
    <2>2. k \in 1..Len(written) /\ written[k] > 1 /\ i \in 1..Len(written)
      BY <1>1, <1>2, <2>1 DEF EventLines
    <2>3. Line(written, i) = Line(written, k)
      BY <1>1, <2>1, <2>2
    <2>4. i = k
      BY <1>1, <2>1, <2>2, <2>3, LinesDiffer
    <2> QED
      BY <2>1, <2>4
  <1>4. \A m \in DOMAIN events : \E i \in EventLines : events[m] = LineText(i)
    BY <1>1, <1>2 DEF EventsUpTo, EventLines
  <1>5. \A m, n \in DOMAIN events, i, k \in EventLines :
           m < n /\ events[m] = LineText(i) /\ events[n] = LineText(k) => i < k
    <2> SUFFICES ASSUME NEW m \in DOMAIN events, NEW n \in DOMAIN events,
                        NEW i \in EventLines, NEW k \in EventLines,
                        m < n, events[m] = LineText(i), events[n] = LineText(k)
                 PROVE  i < k
      OBVIOUS
    <2>1. i \in 1..c - 1 /\ k \in 1..c - 1
      BY <1>3
    <2>2. /\ written[i] > 1 /\ written[k] > 1
          /\ LineText(i) = Line(written, i) /\ LineText(k) = Line(written, k)
      BY <1>1 DEF EventLines
    <2> QED
      BY <2>1, <2>2 DEF EventsUpTo
  <1>6. \A i, k \in EventLines :
           i < k /\ LineText(k) \in ToSet(events) => LineText(i) \in ToSet(events)
    <2> SUFFICES ASSUME NEW i \in EventLines, NEW k \in EventLines,
                        i < k, LineText(k) \in ToSet(events)
                 PROVE  LineText(i) \in ToSet(events)
      OBVIOUS
    <2>1. PICK m \in DOMAIN events : events[m] = LineText(k)
      BY DEF ToSet
    <2>2. k \in 1..c - 1
      BY <1>3, <2>1
    <2>3. i \in 1..Len(written) /\ written[i] > 1 /\ LineText(i) = Line(written, i)
      BY <1>1 DEF EventLines
    <2>4. i \in 1..c - 1
      BY <2>2, <2>3
    <2>5. PICK n \in DOMAIN events : events[n] = Line(written, i)
      BY <2>3, <2>4 DEF EventsUpTo
    <2> QED
      BY <2>3, <2>5 DEF ToSet
  <1> QED
    BY <1>4, <1>5, <1>6 DEF OneEventPerLine

(* One line more: an event, or no event if it is too short. *)
LEMMA NextLineUpTo ==
    ASSUME NEW S, NEW ev \in Seq(S), NEW w \in Seq(Nat), NEW c \in 1..Len(w),
           EventsUpTo(ev, w, c), Line(w, c) \in S
    PROVE  EventsUpTo(IF w[c] > 1 THEN Append(ev, Line(w, c)) ELSE ev, w, c + 1)
  <1>1. Len(w) \in Nat /\ \A i \in 1..Len(w) : w[i] \in Nat
    BY LenProperties, ElementOfSeq
  <1>2. \A i \in 1..(c + 1) - 1 : i \in 1..c - 1 \/ i = c
    BY <1>1
  <1>3. \A i \in 1..c - 1 : i \in 1..(c + 1) - 1 /\ i < c /\ i \in 1..Len(w)
    BY <1>1
  <1>4. CASE w[c] > 1
    <2> DEFINE new == Append(ev, Line(w, c))
    <2>1. /\ Len(ev) \in Nat /\ DOMAIN ev = 1..Len(ev) /\ DOMAIN new = 1..Len(ev) + 1
          /\ new[Len(ev) + 1] = Line(w, c) /\ \A m \in 1..Len(ev) : new[m] = ev[m]
      BY AppendProperties, LenProperties
    <2>2. \A m \in DOMAIN new : m \in DOMAIN ev \/ m = Len(ev) + 1
      BY <2>1
    <2>3. c \in 1..(c + 1) - 1 /\ Len(ev) + 1 \in DOMAIN new /\ w[c] \in Nat
      BY <1>1, <2>1
    <2> HIDE DEF new
    <2>4. \A m \in DOMAIN new : \E i \in 1..(c + 1) - 1 : w[i] > 1 /\ new[m] = Line(w, i)
      BY <1>3, <1>4, <2>1, <2>2, <2>3 DEF EventsUpTo
    <2>5. \A m \in DOMAIN ev, i \in 1..(c + 1) - 1 :
             w[i] > 1 /\ ev[m] = Line(w, i) => i \in 1..c - 1
      <3> SUFFICES ASSUME NEW m \in DOMAIN ev, w[c] > 1, ev[m] = Line(w, c)
                   PROVE  FALSE
        BY <1>2
      <3>1. PICK i \in 1..c - 1 : w[i] > 1 /\ ev[m] = Line(w, i)
        BY DEF EventsUpTo
      <3>2. i = c
        BY <1>1, <1>3, <3>1, LinesDiffer
      <3> QED
        BY <1>3, <3>1, <3>2
    <2>6. ASSUME NEW m \in DOMAIN new, NEW n \in DOMAIN new,
                 NEW i \in 1..(c + 1) - 1, NEW k \in 1..(c + 1) - 1, m < n, w[i] > 1, w[k] > 1,
                 new[m] = Line(w, i), new[n] = Line(w, k)
          PROVE  i < k
      <3>1. m \in DOMAIN ev /\ ev[m] = Line(w, i)
        BY <2>1, <2>6
      <3>2. i \in 1..c - 1
        BY <2>5, <2>6, <3>1
      <3>3. CASE n \in DOMAIN ev
        <4>1. k \in 1..c - 1 /\ ev[n] = Line(w, k)
          BY <2>1, <2>5, <2>6, <3>3
        <4> QED
          BY <2>6, <3>1, <3>2, <3>3, <4>1 DEF EventsUpTo
      <3>4. CASE n = Len(ev) + 1
        <4>1. Line(w, c) = Line(w, k) /\ w[k] \in Nat
          BY <1>1, <1>2, <1>3, <2>1, <2>6, <3>4
        <4>2. k = c
          BY <1>4, <2>3, <2>6, <4>1, LinesDiffer
        <4> QED
          BY <1>3, <3>2, <4>2
      <3> QED
        BY <2>2, <3>3, <3>4
    <2>7. \A i \in 1..(c + 1) - 1 : w[i] > 1 => \E m \in DOMAIN new : new[m] = Line(w, i)
      <3>1. \A m \in DOMAIN ev : m \in DOMAIN new /\ new[m] = ev[m]
        BY <2>1
      <3> QED
        BY <1>2, <2>1, <2>3, <3>1 DEF EventsUpTo
    <2>8. EventsUpTo(new, w, c + 1)
      BY <2>4, <2>6, <2>7 DEF EventsUpTo
    <2> QED
      BY <1>4, <2>8 DEF new
  <1>5. CASE ~(w[c] > 1)
    <2>1. EventsUpTo(ev, w, c + 1)
      BY <1>2, <1>3, <1>5 DEF EventsUpTo
    <2> QED
      BY <1>5, <2>1
  <1> QED
    BY <1>4, <1>5

(* A line written at once is one line more in the layout. *)
LEMMA WriteCut ==
    ASSUME TypeOK, NEW n \in Lengths, WriteLine(n), whole', Cut
    PROVE  Cut'
  <1> DEFINE text == [j \in 1..n |-> <<Len(written) + 1, j>>]
             line == Append(text, NL)
  <1>1. /\ n \in Nat /\ written \in Seq(Nat) /\ Len(written) \in Nat
        /\ \A i \in 1..Len(written) : written[i] \in Nat
    BY LineAssumption, WrittenType
  <1>2. /\ Len(written') = Len(written) + 1
        /\ \A i \in 1..Len(written) : written'[i] = written[i]
        /\ written'[Len(written) + 1] = n
    BY <1>1, AppendProperties DEF WriteLine
  <1>3. text \in FileText /\ Len(text) = n /\ \A j \in 1..n : text[j] = <<Len(written) + 1, j>>
    <2>1. Len(written) + 1 \in 1..MaxLines
      BY <1>1, LineAssumption DEF WriteLine
    <2> QED
      BY <1>1, <2>1 DEF FileText, Char
  <1>4. file' = file \o line /\ pending' = <<>> /\ UNCHANGED <<reading, offset, buffer, events>>
    BY DEF WriteLine
  <1>5. /\ line \in FileText /\ Len(line) = n + 1 /\ line[n + 1] = NL
        /\ \A j \in 1..n : line[j] = <<Len(written) + 1, j>>
    <2> HIDE DEF text
    <2> QED
      BY <1>3, AppendProperties DEF FileText
  <1> HIDE DEF line
  <1>6. file \in FileText /\ Len(file) \in Nat
    BY LenProperties DEF TypeOK, FileText
  <1>7. /\ Len(file') = Len(file) + n + 1
        /\ \A i \in 1..Len(file) + n + 1 :
              file'[i] = IF i <= Len(file) THEN file[i] ELSE line[i - Len(file)]
    <2>1. file \in Seq(Char \cup {NL}) /\ line \in Seq(Char \cup {NL})
      BY <1>5, <1>6 DEF FileText
    <2>2. /\ Len(file \o line) = Len(file) + Len(line)
          /\ \A i \in 1..Len(file) + Len(line) :
                (file \o line)[i] = IF i <= Len(file) THEN file[i] ELSE line[i - Len(file)]
      BY <2>1, ConcatProperties
    <2>3. Len(file) + Len(line) = Len(file) + n + 1
      BY <1>1, <1>5, <1>6
    <2> QED
      BY <1>4, <2>2, <2>3
  <1>8. PICK start, c, p : At(start, c, p, file, written, offset, reading, buffer, events)
    BY DEF Cut
  <1> DEFINE new == [i \in 1..Len(written) + 2 |->
                        IF i <= Len(written) + 1 THEN start[i] ELSE Len(file) + n + 1]
  <1>9. IsLayout(start, file, written) /\ c \in 1..Len(written) + 1
    BY <1>8 DEF At
  <1>10. /\ new \in [1..Len(written) + 2 -> Nat]
         /\ \A i \in 1..Len(written) + 1 : new[i] = start[i]
         /\ new[Len(written) + 2] = Len(file) + n + 1
    BY <1>1, <1>6, <1>9 DEF IsLayout
  <1> HIDE DEF new
  <1>11. IsLayout(new, file', written')
    <2>1. new \in [1..Len(written') + 1 -> Nat] /\ new[1] = 0 /\ new[Len(written') + 1] = Len(file')
      BY <1>1, <1>2, <1>7, <1>9, <1>10 DEF IsLayout
    <2>2. ASSUME NEW i \in 1..Len(written')
          PROVE  /\ new[i + 1] = new[i] + written'[i] + 1
                 /\ new[i] + written'[i] + 1 <= Len(file')
                 /\ \A j \in 1..written'[i] : file'[new[i] + j] = <<i, j>>
                 /\ file'[new[i] + written'[i] + 1] = NL
      <3>1. CASE i \in 1..Len(written)
        <4> DEFINE l == Len(written)
                   len == Len(file)
        <4>0. l \in Nat /\ i \in 1..l /\ i \in 1..l + 1 /\ i + 1 \in 1..l + 1
          BY <1>1, <3>1
        <4>1. /\ new[i] = start[i] /\ new[i + 1] = start[i + 1] /\ start[i] \in Nat
              /\ written'[i] = written[i] /\ written[i] \in Nat
          BY <1>1, <1>2, <1>9, <1>10, <4>0 DEF IsLayout
        <4>2. /\ start[i + 1] = start[i] + written[i] + 1
              /\ start[i] + written[i] + 1 <= Len(file)
              /\ \A j \in 1..written[i] : file[start[i] + j] = <<i, j>>
              /\ file[start[i] + written[i] + 1] = NL
          BY <1>9, <3>1 DEF IsLayout
        <4>3. \A j \in 1..written[i] + 1 : file'[start[i] + j] = file[start[i] + j]
          <5> SUFFICES ASSUME NEW j \in 1..written[i] + 1
                       PROVE  file'[start[i] + j] = file[start[i] + j]
            OBVIOUS
          <5>1. start[i] + j \in 1..Len(file) + n + 1 /\ start[i] + j <= Len(file)
            <6>1. n \in Nat /\ len \in Nat /\ start[i] \in Nat /\ written[i] \in Nat
                  /\ start[i] + written[i] + 1 <= len
              BY <1>1, <1>6, <4>1, <4>2
            <6> HIDE DEF len
            <6>2. start[i] + j \in 1..len + n + 1 /\ start[i] + j <= len
              BY <6>1
            <6> QED
              BY <6>2 DEF len
          <5> QED
            BY <1>7, <5>1
        <4>4. \A j \in 1..written[i] : j \in 1..written[i] + 1
          BY <4>1
        <4>5. written[i] + 1 \in 1..written[i] + 1
          BY <4>1
        <4>6. file'[start[i] + (written[i] + 1)] = NL
          BY <4>1, <4>2, <4>3, <4>5
        <4>7. start[i] + (written[i] + 1) = start[i] + written[i] + 1
          BY <4>1
        <4>8. start[i] + written[i] + 1 <= Len(file')
          <5>1. /\ n \in Nat /\ len \in Nat /\ start[i] \in Nat /\ written[i] \in Nat
                /\ start[i] + written[i] + 1 <= len /\ Len(file') = len + n + 1
            BY <1>1, <1>6, <1>7, <4>1, <4>2
          <5> HIDE DEF len
          <5> QED
            BY <5>1
        <4>9. \A j \in 1..written[i] : file'[start[i] + j] = <<i, j>>
          BY <4>2, <4>3, <4>4
        <4> QED
          BY <4>1, <4>2, <4>6, <4>7, <4>8, <4>9
      <3>2. CASE i = Len(written) + 1
        <4>0. Len(written) + 1 \in 1..Len(written) + 1 /\ i + 1 = Len(written) + 2
          BY <1>1, <3>2
        <4>1. /\ new[i] = Len(file) /\ new[i + 1] = Len(file) + n + 1 /\ written'[i] = n
          BY <1>2, <1>9, <1>10, <3>2, <4>0 DEF IsLayout
        <4>2. \A j \in 1..n + 1 : file'[Len(file) + j] = line[j]
          <5> SUFFICES ASSUME NEW j \in 1..n + 1
                       PROVE  file'[Len(file) + j] = line[j]
            OBVIOUS
          <5>1. /\ Len(file) + j \in 1..Len(file) + n + 1 /\ ~(Len(file) + j <= Len(file))
                /\ (Len(file) + j) - Len(file) = j
            BY <1>1, <1>6
          <5> QED
            BY <1>7, <5>1
        <4>3. \A j \in 1..n : j \in 1..n + 1
          BY <1>1
        <4>4. n + 1 \in 1..n + 1
          BY <1>1
        <4>5. file'[Len(file) + n + 1] = NL
          BY <1>1, <1>5, <1>6, <4>2, <4>4
        <4>6. \A j \in 1..n : file'[Len(file) + j] = <<i, j>>
          BY <1>5, <3>2, <4>2, <4>3
        <4> QED
          BY <1>1, <1>6, <1>7, <4>1, <4>5, <4>6
      <3>3. i \in 1..Len(written) \/ i = Len(written) + 1
        BY <1>1, <1>2, <2>2
      <3> QED
        BY <3>1, <3>2, <3>3
    <2> QED
      BY <2>1, <2>2 DEF IsLayout
  <1>12. EventsUpTo(events, written', c)
    <2>1. \A i \in 1..c - 1 : written'[i] = written[i]
      BY <1>1, <1>2, <1>9
    <2>2. \A i \in 1..c - 1 : Line(written', i) = Line(written, i)
      BY <2>1 DEF Line
    <2>3. EventsUpTo(events, written, c)
      BY <1>8 DEF At
    <2> QED
      BY <2>1, <2>2, <2>3 DEF EventsUpTo
  <1>13. c \in 1..Len(written') + 1 /\ c # Len(written') + 1 /\ new[c] = start[c]
    BY <1>1, <1>2, <1>9, <1>10
  <1>14. c <= Len(written') => p <= written'[c]
    <2>1. CASE c <= Len(written)
      BY <1>1, <1>2, <1>8, <1>9, <2>1 DEF At
    <2>2. CASE c = Len(written) + 1
      BY <1>1, <1>2, <1>8, <2>2 DEF At
    <2> QED
      BY <1>1, <1>9, <2>1, <2>2
  <1>15. At(new, c, p, file', written', offset', reading', buffer', events')
    BY <1>4, <1>8, <1>11, <1>12, <1>13, <1>14 DEF At
  <1> QED
    BY <1>4, <1>15 DEF Cut

(* A read takes one character of line c, or its newline, or finds the end.  *)
LEMMA ReadCut ==
    ASSUME TypeOK, WellWritten, Read, Cut
    PROVE  Cut'
  <1>1. /\ written \in Seq(Nat) /\ Len(written) \in Nat /\ DOMAIN written = 1..Len(written)
        /\ \A i \in 1..Len(written) : written[i] \in Nat /\ written[i] < MaxLine
    BY WrittenType DEF WellWritten, LinesFit
  <1>2. events \in Seq(Text) /\ file \in FileText /\ Len(file) \in Nat /\ MaxLine \in Nat /\ MaxLine > 1
    BY LineAssumption, LenProperties DEF TypeOK, FileText
  <1>3. reading /\ UNCHANGED fileVars
    BY DEF Read, ReadNewline, ReadChar, ReadOverlong, ReadNothing
  <1>4. PICK start, c, p : At(start, c, p, file, written, offset, reading, buffer, events)
    BY DEF Cut
  <1>5. /\ IsLayout(start, file, written) /\ c \in 1..Len(written) + 1 /\ p \in Nat
        /\ offset = start[c] + p /\ start[c] \in Nat
        /\ buffer = [j \in 1..p |-> <<c, j>>] /\ EventsUpTo(events, written, c)
    BY <1>3, <1>4 DEF At, IsLayout
  <1>6. Len(buffer) = p /\ buffer \in Seq({<<c, j>> : j \in Nat})
    BY <1>5
  <1>7. ASSUME offset < Len(file)
        PROVE  /\ c \in 1..Len(written) /\ p \in 0..written[c] /\ written[c] \in Nat
               /\ p < written[c] => file[offset + 1] = <<c, p + 1>>
               /\ p = written[c] => file[offset + 1] = NL
               /\ start[c + 1] = start[c] + written[c] + 1
    <2>1. c # Len(written) + 1
      BY <1>4, <1>5, <1>7 DEF At, IsLayout
    <2>2. c \in 1..Len(written) /\ c <= Len(written)
      BY <1>1, <1>5, <2>1
    <2>3. p <= written[c] /\ written[c] \in Nat
      BY <1>1, <1>4, <2>2 DEF At
    <2>4. /\ start[c + 1] = start[c] + written[c] + 1
          /\ \A j \in 1..written[c] : file[start[c] + j] = <<c, j>>
          /\ file[start[c] + written[c] + 1] = NL
      BY <1>5, <2>2 DEF IsLayout
    <2>5. ASSUME p < written[c]
          PROVE  file[offset + 1] = <<c, p + 1>>
      <3>1. p + 1 \in 1..written[c] /\ offset + 1 = start[c] + (p + 1)
        BY <1>5, <2>3, <2>5
      <3> QED
        BY <2>4, <3>1
    <2> QED
      BY <1>5, <2>2, <2>3, <2>4, <2>5
  <1>8. CASE ReadNewline
    <2>1. c \in 1..Len(written) /\ p = written[c] /\ start[c + 1] = offset + 1
      <3>1. /\ c \in 1..Len(written) /\ p \in 0..written[c] /\ written[c] \in Nat
            /\ p < written[c] => file[offset + 1] = <<c, p + 1>>
            /\ start[c + 1] = start[c] + written[c] + 1
        BY <1>7, <1>8 DEF ReadNewline
      <3>2. <<c, p + 1>> \in Nat \X Nat
        BY <1>5
      <3>3. ~(p < written[c])
        BY <1>8, <3>1, <3>2, LineAssumption DEF ReadNewline
      <3> QED
        BY <1>5, <3>1, <3>3
    <2>2. /\ buffer = Line(written, c) /\ Len(buffer) = written[c]
          /\ offset' = offset + 1 /\ ~reading'
          /\ events' = IF written[c] > 1 THEN Append(events, Line(written, c)) ELSE events
      BY <1>5, <1>6, <1>8, <2>1 DEF ReadNewline, Return, Line
    <2>3. Line(written, c) \in Text
      BY <2>2 DEF TypeOK
    <2>4. EventsUpTo(events', written, c + 1)
      BY <1>1, <1>2, <1>5, <2>1, <2>2, <2>3, NextLineUpTo
    <2>5. c + 1 \in 1..Len(written) + 1 /\ (c + 1 <= Len(written) => 0 <= written[c + 1])
      BY <1>1, <2>1
    <2>6. offset' = start[c + 1] + 0
      BY <1>5, <2>1, <2>2
    <2>7. At(start, c + 1, 0, file', written', offset', reading', buffer', events')
      BY <1>3, <1>5, <2>2, <2>4, <2>5, <2>6 DEF At, fileVars
    <2> QED
      BY <1>3, <2>7 DEF Cut, fileVars
  <1>9. CASE ReadChar
    <2>1. /\ c \in 1..Len(written) /\ p < written[c] /\ written[c] \in Nat
          /\ file[offset + 1] = <<c, p + 1>>
      BY <1>7, <1>9 DEF ReadChar
    <2>2. /\ buffer' = Append(buffer, <<c, p + 1>>) /\ offset' = offset + 1
          /\ reading' = reading /\ events' = events
      BY <1>9, <2>1 DEF ReadChar
    <2>3. buffer' = [j \in 1..p + 1 |-> <<c, j>>]
      <3>1. <<c, p + 1>> \in {<<c, j>> : j \in Nat}
        BY <1>5
      <3> HIDE DEF Cut
      <3>2. /\ buffer' \in Seq({<<c, j>> : j \in Nat}) /\ Len(buffer') = p + 1
            /\ buffer'[p + 1] = <<c, p + 1>> /\ \A j \in 1..p : buffer'[j] = buffer[j]
        BY <1>6, <2>2, <3>1, AppendProperties
      <3>3. buffer' = [j \in 1..p + 1 |-> buffer'[j]]
        BY <3>2
      <3>4. \A j \in 1..p + 1 : buffer'[j] = <<c, j>>
        <4>1. \A j \in 1..p + 1 : j \in 1..p \/ j = p + 1
          BY <1>5
        <4> QED
          BY <1>5, <3>2, <4>1
      <3> QED
        BY <3>3, <3>4
    <2>4. p + 1 \in Nat /\ p + 1 <= written[c] /\ c # Len(written) + 1 /\ offset' = start[c] + (p + 1)
      <3>1. c <= Len(written) /\ Len(written) \in Nat /\ c \in Nat
        BY <1>1, <2>1
      <3>2. p \in Nat /\ start[c] \in Nat /\ offset' = (start[c] + p) + 1 /\ written[c] \in Nat /\ p < written[c]
        BY <1>5, <2>1, <2>2
      <3> QED
        BY <3>1, <3>2
    <2>5. At(start, c, p + 1, file', written', offset', reading', buffer', events')
      BY <1>3, <1>5, <2>2, <2>3, <2>4 DEF At, fileVars
    <2> QED
      BY <1>3, <2>5 DEF Cut, fileVars
  <1>10. CASE ReadOverlong
    <2>1. c \in 1..Len(written) /\ p <= written[c] /\ p = MaxLine
      BY <1>6, <1>7, <1>10 DEF ReadOverlong
    <2> QED
      BY <1>1, <1>2, <2>1
  <1>11. CASE ReadNothing
    <2>1. offset = Len(file)
      BY <1>11 DEF ReadNothing
    <2>2. c = Len(written) + 1 /\ p = 0
      <3>1. CASE c \in 1..Len(written)
        <4>1. start[c] + written[c] + 1 <= Len(file) /\ p <= written[c] /\ written[c] \in Nat
          BY <1>1, <1>4, <1>5, <3>1 DEF At, IsLayout
        <4> QED
          BY <1>5, <2>1, <4>1
      <3> QED
        BY <1>1, <1>4, <1>5, <3>1 DEF At
    <2>3. events' = events /\ ~reading' /\ offset' = offset
      <3>1. Len(buffer') = 1
        BY <1>2, <1>6, <1>11, <2>2, AppendProperties DEF ReadNothing, TypeOK, Text
      <3>2. ~(Len(buffer') > 1)
        BY <3>1
      <3>3. Return(buffer')
        BY <1>11 DEF ReadNothing
      <3>4. events' = events /\ reading' = FALSE
        BY <3>2, <3>3 DEF Return
      <3> QED
        BY <1>11, <3>4 DEF ReadNothing
    <2>4. At(start, c, p, file', written', offset', reading', buffer', events')
      BY <1>3, <1>4, <2>2, <2>3 DEF At, fileVars
    <2> QED
      BY <1>3, <2>4 DEF Cut, fileVars
  <1> QED
    BY <1>8, <1>9, <1>10, <1>11 DEF Read

LEMMA NextCut == CutInv /\ [Next]_vars => CutInv'
  <1> SUFFICES ASSUME CutInv, [Next]_vars, WellWritten'
               PROVE  Cut'
    BY NextType DEF CutInv
  <1>1. TypeOK
    BY DEF CutInv
  <1>2. WellWritten
    <2>1. ASSUME NEW n \in Lengths, WriteLine(n)
          PROVE  WellWritten
      <3>1. /\ written \in Seq(Lengths) /\ Len(written) \in Nat
            /\ Len(written') = Len(written) + 1
            /\ \A i \in 1..Len(written) : written'[i] = written[i]
        BY <1>1, <2>1, LenProperties, AppendProperties DEF TypeOK, WriteLine
      <3>2. \A i \in 1..Len(written) : i \in 1..Len(written')
        BY <3>1
      <3>3. whole
        BY <2>1 DEF WriteLine, WellWritten
      <3> QED
        BY <3>1, <3>2, <3>3 DEF WellWritten, LinesFit
    <2>2. ASSUME UNCHANGED <<written, whole>>
          PROVE  WellWritten
      BY <2>2 DEF WellWritten, LinesFit
    <2> QED
      BY <2>1, <2>2 DEF Next, vars, fileVars, AppendPart, Poll, Read, ReadNewline, ReadChar,
                        ReadOverlong, ReadNothing
  <1>3. Cut
    BY <1>2 DEF CutInv
  <1>4. ASSUME NEW n \in 1..Len(pending), AppendPart(n)
        PROVE  FALSE
    BY <1>3, EmptyText DEF Cut
  <1>5. CASE Poll
    <2>1. PICK start, c, p : At(start, c, p, file, written, offset, reading, buffer, events)
      BY <1>3 DEF Cut
    <2>2. p = 0 /\ <<>> = [j \in 1..0 |-> <<c, j>>]
      BY <1>5, <2>1 DEF Poll, At
    <2>3. At(start, c, p, file', written', offset', reading', buffer', events')
      BY <1>5, <2>1, <2>2 DEF Poll, At, fileVars
    <2> QED
      BY <1>3, <1>5, <2>3 DEF Poll, Cut, fileVars
  <1>6. CASE UNCHANGED vars
    BY <1>3, <1>6 DEF vars, fileVars, Cut
  <1> QED
    BY <1>1, <1>2, <1>3, <1>4, <1>5, <1>6, WriteCut, ReadCut DEF Next, WellWritten, LinesFit

(* "OSMUD processes one event per line" (osmud.c:327), whatever MAXLINE is, *)
(* as long as every line appears in the file at once and fits the buffer.  *)
THEOREM WellWrittenIsCutIntoLinesCorrect == Spec => []WellWrittenIsCutIntoLines
  <1>1. CutInv => WellWrittenIsCutIntoLines
    <2> SUFFICES ASSUME CutInv, WellWritten
                 PROVE  OneEventPerLine
      BY DEF WellWrittenIsCutIntoLines
    <2>1. written \in Seq(Nat)
      BY WrittenType DEF CutInv
    <2>2. PICK start, c, p : At(start, c, p, file, written, offset, reading, buffer, events)
      BY DEF CutInv, Cut
    <2> QED
      BY <2>1, <2>2, CutIsOneEventPerLine DEF At
  <1> QED
    BY <1>1, InitCut, NextCut, PTL DEF Spec
===============================================================================
