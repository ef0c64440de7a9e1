-------------------------- MODULE SimplexTalkProofs --------------------------
(***************************************************************************)
(* The talk programs of the Mininet guide: every answer is to the line     *)
(* just sent, for lines of any length and buffers of any size, although    *)
(* the buffers are never cleared.                                          *)
(***************************************************************************)
EXTENDS SimplexTalk, SequenceTheorems, TLAPS

\* What fgets has still to read: nothing, or one line to its newline.
IsInput(input) ==
  /\ input \in Seq(Chars)
  /\ \A i \in 1..Len(input) : input[i] # NUL /\ (input[i] = Newline <=> i = Len(input))

\* A text that fits a buffer with its 0.
IsMessage(t) == t \in Seq(Chars) /\ Len(t) < MaxLine /\ \A i \in 1..Len(t) : t[i] # NUL

Terminate(t) == Append(t, NUL)
Answer(t) == t \o Stamp

\* The server has printed all the client has sent but the last "late" pieces, and the
\* client has printed the answers to all but the last "waiting" of them.
Counts(late, waiting) ==
  Len(heard) = Len(asked) - late /\ Len(shown) = Len(asked) - waiting

\* Nothing is on its way and nobody waits.
Idle ==
  /\ client \in {"start", "refused", "read", "gone"}
  /\ server \in {"start", "accept", "receive", "terminate"}
  /\ server = "start" => client \in {"start", "refused"}
  /\ server = "terminate" => client = "gone"
  /\ up = <<>> /\ down = <<>> /\ Counts(0, 0)

\* The client has read a line, and then sent it.
Asking ==
  /\ client = "send" /\ server \in {"accept", "receive"}
  /\ up = <<>> /\ down = <<>> /\ Counts(1, 1)
Asked ==
  /\ client = "receive" /\ server \in {"accept", "receive"}
  /\ up = Terminate(Last(asked)) /\ down = <<>> /\ Counts(1, 1)

\* The server has read it and its answer fits, and it has then sent that.
Answers ==
  /\ Len(Answer(Last(asked))) < MaxLine /\ ~SaysExit(Last(asked))
  /\ client = "receive" /\ up = <<>> /\ Counts(0, 1)
Answering == Answers /\ server = "send" /\ down = <<>> /\ Text(buf) = Answer(Last(asked))
Answered == Answers /\ server = "receive" /\ down = Terminate(Answer(Last(asked)))

\* The server has read "exit", or a line that leaves no room for the stamp.
Ending == /\ client = "receive" /\ server = "terminate"
          /\ up = <<>> /\ down = <<>> /\ Counts(1, 1)
Overrun == /\ client = "receive" /\ server = "overrun" /\ down = <<>>
           /\ Len(Last(asked)) + Len(Stamp) >= MaxLine

Phase == Idle \/ Asking \/ Asked \/ Answering \/ Answered \/ Ending \/ Overrun

Shapes ==
  /\ IsInput(stdin)
  /\ asked \in Seq(Seq(Chars)) /\ heard \in Seq(Seq(Chars)) /\ shown \in Seq(Seq(Chars))
  /\ buf \in [1..MaxLine -> Chars] /\ receiveBuf \in [1..MaxLine -> Chars]

Texts ==
  /\ \A i \in 1..Len(asked) : IsMessage(asked[i])
  /\ \A i \in 1..Len(heard) : heard[i] = asked[i]
  /\ \A i \in 1..Len(shown) : shown[i] = Answer(asked[i])

EndsOpen == downEnd = "open" /\ upEnd = IF client = "gone" THEN "fin" ELSE "open"

\* Step by step, as long as the server runs and every receipt brings all there is.
InStep == Shapes /\ Texts /\ EndsOpen /\ Phase
TalkInv == cuts \in Nat /\ (cuts = 0 /\ server # "gone" => InStep)

-----------------------------------------------------------------------------
(* Texts and buffers *)

LEMMA CharFacts == NUL \in Chars /\ Newline \in Chars /\ Newline # NUL
BY DEF Chars, NUL, Newline

LEMMA PutType ==
  ASSUME NEW bytes \in Seq(Chars), NEW buffer \in [1..MaxLine -> Chars]
  PROVE  Put(bytes, buffer) \in [1..MaxLine -> Chars]
BY DEF Put

\* A message is found again in whatever buffer it is written to.
LEMMA TextOfPut ==
  ASSUME NEW t, IsMessage(t), NEW buffer \in [1..MaxLine -> Chars]
  PROVE  Text(Put(Terminate(t), buffer)) = t
<1>. DEFINE b == Put(Terminate(t), buffer)
            n == Len(t) + 1
<1>1. t \in Seq(Chars) /\ Len(t) \in Nat /\ n \in 1..MaxLine /\ MaxLine \in Nat
  BY TalkAssumption DEF IsMessage
<1>2. /\ Terminate(t) \in Seq(Chars) /\ Len(Terminate(t)) = n /\ Terminate(t)[n] = NUL
      /\ \A i \in 1..Len(t) : Terminate(t)[i] = t[i]
  BY <1>1, CharFacts, AppendProperties DEF Terminate
<1>3. /\ DOMAIN b = 1..MaxLine /\ b[n] = NUL
      /\ \A i \in 1..Len(t) : b[i] = t[i] /\ b[i] # NUL
  BY <1>1, <1>2 DEF Put, IsMessage
<1>. HIDE DEF b
<1>4. \A e \in 1..(MaxLine + 1) :
        (e <= MaxLine => b[e] = NUL) /\ (\A i \in 1..(e - 1) : b[i] # NUL) <=> e = n
  <2>1. ASSUME NEW e \in 1..(MaxLine + 1), e <= MaxLine => b[e] = NUL,
               \A i \in 1..(e - 1) : b[i] # NUL
        PROVE  e = n
    <3>1. ~(e < n)
      BY <1>1, <1>3, <2>1
    <3>2. ~(e > n)
      BY <1>1, <1>3, <2>1
    <3>. QED
      BY <1>1, <3>1, <3>2
  <2>2. n \in 1..(MaxLine + 1) /\ \A i \in 1..(n - 1) : b[i] # NUL
    BY <1>1, <1>3
  <2>. QED
    BY <1>3, <2>1, <2>2
<1>5. Text(b) = SubSeq(b, 1, n - 1)
  <2>1. (CHOOSE e \in 1..(MaxLine + 1) :
           (e <= MaxLine => b[e] = NUL) /\ \A i \in 1..(e - 1) : b[i] # NUL) = n
    BY <1>1, <1>4
  <2>. QED
    BY <2>1 DEF Text
<1>6. SubSeq(b, 1, n - 1) = [i \in 1..Len(t) |-> b[i]]
  BY <1>1
<1>7. t = [i \in 1..Len(t) |-> t[i]]
  BY <1>1
<1>. QED
  BY <1>3, <1>5, <1>6, <1>7 DEF b

\* The stamp may be put behind a message that leaves room for it.
LEMMA AnswerFacts ==
  ASSUME NEW t, IsMessage(t)
  PROVE  /\ Answer(t) \in Seq(Chars) /\ Len(Answer(t)) = Len(t) + Len(Stamp)
         /\ Len(Answer(t)) < MaxLine => IsMessage(Answer(t))
         /\ Terminate(t) \in Seq(Chars) /\ Len(Terminate(t)) = Len(t) + 1
<1>1. /\ t \in Seq(Chars) /\ Len(t) \in Nat /\ Stamp \in Seq(Chars) /\ Len(Stamp) \in Nat
      /\ \A i \in 1..Len(Stamp) : Stamp[i] # NUL
  BY TalkAssumption DEF IsMessage, ToSet
<1>2. /\ Answer(t) \in Seq(Chars) /\ Len(Answer(t)) = Len(t) + Len(Stamp)
      /\ \A i \in 1..(Len(t) + Len(Stamp)) :
           Answer(t)[i] = IF i <= Len(t) THEN t[i] ELSE Stamp[i - Len(t)]
  BY <1>1, ConcatProperties DEF Answer
<1>3. \A i \in 1..Len(Answer(t)) : Answer(t)[i] # NUL
  BY <1>1, <1>2 DEF IsMessage
<1>. QED
  BY <1>1, <1>2, <1>3, CharFacts, AppendProperties DEF IsMessage, Terminate

LEMMA StartFacts ==
  ASSUME NEW s \in Seq(Chars), NEW n \in 0..Len(s)
  PROVE  /\ SubSeq(s, 1, n) \in Seq(Chars) /\ Len(SubSeq(s, 1, n)) = n
         /\ \A i \in 1..n : SubSeq(s, 1, n)[i] = s[i]
OBVIOUS

\* fgets takes a message, and leaves one line or nothing.
LEMMA PieceFacts ==
  ASSUME NEW input, IsInput(input), input # <<>>
  PROVE  /\ IsMessage(Piece(input)) /\ Piece(input) # <<>>
         /\ IsInput(Rest(input, Len(Piece(input))))
<1>. DEFINE Taken(piece) ==
              /\ Newline \notin ToSet(Front(piece))
              /\ Len(piece) < MaxLine /\ (Last(piece) = Newline \/ Len(piece) = MaxLine - 1)
            pieces == {SubSeq(input, 1, n) : n \in 1..Len(input)}
<1>1. /\ input \in Seq(Chars) /\ Len(input) \in Nat \ {0}
      /\ MaxLine - 1 \in Nat \ {0} /\ MaxLine \in Nat
  BY TalkAssumption, EmptySeq DEF IsInput
<1>2. ASSUME NEW n \in 1..Len(input), n < MaxLine, n = Len(input) \/ n = MaxLine - 1
      PROVE  Taken(SubSeq(input, 1, n))
  <2>. DEFINE piece == SubSeq(input, 1, n)
  <2>1. piece \in Seq(Chars) /\ Len(piece) = n /\ \A i \in 1..n : piece[i] = input[i]
    BY <1>1, StartFacts
  <2>. HIDE DEF piece
  <2>2. /\ Front(piece) \in Seq(Chars) /\ Len(Front(piece)) = n - 1
        /\ \A i \in 1..(n - 1) : Front(piece)[i] = piece[i]
    BY <1>1, <2>1, StartFacts DEF Front
  <2>3. \A i \in DOMAIN Front(piece) : Front(piece)[i] # Newline
    BY <1>1, <2>1, <2>2 DEF IsInput
  <2>4. n = Len(input) => Last(piece) = Newline
    BY <1>1, <2>1 DEF Last, IsInput
  <2>. QED
    BY <1>2, <2>1, <2>3, <2>4 DEF ToSet, piece
<1>. HIDE DEF Taken
<1>3. \E n \in 1..Len(input) : Taken(SubSeq(input, 1, n))
  <2>1. CASE Len(input) < MaxLine
    <3>1. Len(input) \in 1..Len(input)
      BY <1>1
    <3>. QED
      BY <1>2, <2>1, <3>1
  <2>2. CASE Len(input) >= MaxLine
    <3>1. MaxLine - 1 \in 1..Len(input) /\ MaxLine - 1 < MaxLine
      BY <1>1, <2>2
    <3>. QED
      BY <1>2, <3>1
  <2>. QED
    BY <1>1, <2>1, <2>2
<1>4. Piece(input) \in pieces /\ Taken(Piece(input))
  <2>1. \E piece \in pieces : Taken(piece)
    BY <1>3
  <2>2. Piece(input) = CHOOSE piece \in pieces : Taken(piece)
    BY DEF Piece, Taken
  <2>. QED
    BY <2>1, <2>2
<1>5. PICK n \in 1..Len(input) : Piece(input) = SubSeq(input, 1, n)
  BY <1>4
<1>6. /\ Piece(input) \in Seq(Chars) /\ Len(Piece(input)) = n
      /\ \A i \in 1..n : Piece(input)[i] = input[i]
  BY <1>1, <1>5, StartFacts
<1>7. IsMessage(Piece(input)) /\ Piece(input) # <<>>
  BY <1>1, <1>4, <1>6, EmptySeq DEF Taken, IsMessage, IsInput
<1>. DEFINE rest == SubSeq(input, n + 1, Len(input))
<1>8. /\ rest \in Seq(Chars) /\ Len(rest) = Len(input) - n
      /\ \A i \in 1..(Len(input) - n) : rest[i] = input[i + n]
  BY <1>1
<1>. HIDE DEF rest
<1>9. IsInput(rest)
  BY <1>1, <1>8 DEF IsInput
<1>10. Rest(input, n) = rest
  BY DEF Rest, rest
<1>. QED
  BY <1>6, <1>7, <1>9, <1>10

\* A receipt from an open connection waits for something, and brings all of it unless it
\* counts as a cut.
LEMMA ReadFacts ==
  ASSUME cuts \in Nat, NEW stream \in Seq(Chars), Len(stream) <= MaxLine,
         NEW k \in ReadCounts(stream, "open"),
         cuts' = (IF k > 0 /\ k < Len(stream) THEN cuts + 1 ELSE cuts), cuts' = 0
  PROVE  /\ cuts = 0 /\ stream # <<>> /\ k = Len(stream) /\ k # 0
         /\ SubSeq(stream, 1, k) = stream /\ Rest(stream, k) = <<>>
         /\ AfterRead(stream, "open") = "open"
<1>1. stream # <<>> /\ Len(stream) \in Nat \ {0} /\ MaxLine \in Nat
  BY TalkAssumption, EmptySeq DEF ReadCounts
<1>2. Min({MaxLine, Len(stream)}) = Len(stream)
  BY <1>1 DEF Min
<1>3. k \in 1..Len(stream)
  BY <1>1, <1>2 DEF ReadCounts
<1>4. k = Len(stream) /\ cuts = 0
  BY <1>1, <1>3
<1>5. SubSeq(stream, 1, k) = stream
  BY <1>4, SubSeqFull
<1>6. Rest(stream, k) = <<>>
  <2>1. Rest(stream, k) = SubSeq(stream, k + 1, Len(stream))
    BY <1>3 DEF Rest
  <2>. QED
    BY <1>1, <1>4, <2>1, SubSeqEmpty
<1>. QED
  BY <1>1, <1>3, <1>4, <1>5, <1>6 DEF AfterRead

-----------------------------------------------------------------------------
(* Every step *)

\* What was asked last, once anything was.
LEMMA LastAsked ==
  ASSUME InStep, asked # <<>>
  PROVE  /\ Len(asked) \in Nat \ {0} /\ Last(asked) = asked[Len(asked)]
         /\ IsMessage(Last(asked))
<1>1. asked \in Seq(Seq(Chars)) /\ Len(asked) \in Nat \ {0}
  BY EmptySeq DEF InStep, Shapes
<1>. QED
  BY <1>1 DEF InStep, Texts, Last

LEMMA CountFacts ==
  ASSUME Shapes
  PROVE  /\ Len(asked) \in Nat /\ Len(heard) \in Nat /\ Len(shown) \in Nat
         /\ \A late, waiting : late \in {0, 1} /\ waiting \in {0, 1} /\ Counts(late, waiting) =>
              (late = 1 \/ waiting = 1 => asked # <<>>)
<1>1. Len(asked) \in Nat /\ Len(heard) \in Nat /\ Len(shown) \in Nat
  BY DEF Shapes
<1>2. Len(<<>>) = 0
  OBVIOUS
<1>. QED
  BY <1>1, <1>2 DEF Counts

LEMMA ServerReads ==
  ASSUME InStep, cuts \in Nat, ServerReceive, cuts' = 0
  PROVE  InStep'
<1>. DEFINE got(k) == Put(SubSeq(up, 1, k), buf)
<1>1. PICK k \in ReadCounts(up, upEnd) :
        /\ up' = Rest(up, k) /\ upEnd' = AfterRead(up, upEnd)
        /\ cuts' = (IF k > 0 /\ k < Len(up) THEN cuts + 1 ELSE cuts)
        /\ IF k = 0 \/ SaysExit(Text(got(k)))
           THEN server' = "terminate" /\ buf' = got(k) /\ UNCHANGED heard
           ELSE /\ heard' = Append(heard, Text(got(k)))
                /\ IF Len(Text(got(k)) \o Stamp) < MaxLine
                   THEN /\ server' = "send"
                        /\ buf' = Put(Append(Text(got(k)) \o Stamp, NUL), got(k))
                   ELSE server' = "overrun" /\ buf' = got(k)
  BY DEF ServerReceive
<1>2. /\ server = "receive" /\ UNCHANGED <<client, stdin, asked, shown, receiveBuf, down, downEnd>>
      /\ Shapes /\ Texts /\ EndsOpen
  BY DEF ServerReceive, clientVars, InStep
<1>3. ASSUME up = <<>>, upEnd = "open" PROVE FALSE
  BY <1>1, <1>3 DEF ReadCounts
<1>4. CASE Idle
  <2>1. up = <<>> /\ client = "gone" /\ upEnd = "fin"
    BY <1>2, <1>3, <1>4 DEF Idle, EndsOpen
  <2>2. k = 0
    BY <1>1, <2>1 DEF ReadCounts
  <2>3. SubSeq(up, 1, 0) = <<>> /\ <<>> \in Seq(Chars) /\ buf \in [1..MaxLine -> Chars]
    BY <1>2, <2>1 DEF Shapes
  <2>4. buf' \in [1..MaxLine -> Chars]
    BY <1>1, <2>2, <2>3, PutType
  <2>5. up' = <<>> /\ upEnd' = "fin" /\ server' = "terminate" /\ heard' = heard
    BY <1>1, <2>1, <2>2 DEF Rest, AfterRead
  <2>6. Idle'
    BY <1>2, <1>4, <2>1, <2>5 DEF Idle, Counts
  <2>7. Shapes' /\ Texts' /\ EndsOpen'
    BY <1>2, <2>1, <2>4, <2>5 DEF Shapes, Texts, EndsOpen
  <2>. QED
    BY <2>6, <2>7 DEF InStep, Phase
<1>5. CASE Asked
  <2>. DEFINE text == Last(asked)
              answer == Answer(text)
              n == Len(asked)
  <2>1. /\ upEnd = "open" /\ client = "receive" /\ up = Terminate(text) /\ down = <<>>
        /\ Counts(1, 1) /\ asked # <<>>
    BY <1>2, <1>5, CountFacts DEF Asked, EndsOpen
  <2>2. IsMessage(text) /\ text = asked[n] /\ n \in Nat \ {0}
    BY <2>1, LastAsked
  <2>3. /\ text \in Seq(Chars) /\ Len(up) = Len(text) + 1 /\ Len(text) \in Nat /\ up \in Seq(Chars)
        /\ answer \in Seq(Chars) /\ Len(answer) = Len(text) + Len(Stamp)
        /\ Len(answer) < MaxLine => IsMessage(answer)
    BY <2>1, <2>2, AnswerFacts DEF IsMessage
  <2>4. Len(up) <= MaxLine
    BY <2>2, <2>3, TalkAssumption DEF IsMessage
  <2>5. k # 0 /\ SubSeq(up, 1, k) = up /\ up' = <<>> /\ upEnd' = "open"
    BY <1>1, <2>1, <2>3, <2>4, ReadFacts
  <2>6. got(k) \in [1..MaxLine -> Chars] /\ Text(got(k)) = text
    BY <1>2, <2>1, <2>2, <2>3, <2>5, PutType, TextOfPut DEF Shapes
  <2>. HIDE DEF got, text
  <2>7. Texts /\ heard \in Seq(Seq(Chars)) /\ Len(heard) = n - 1 /\ Len(shown) = n - 1
    BY <1>2, <2>1 DEF Shapes, Counts
  <2>8. CASE SaysExit(text)
    <3>1. server' = "terminate" /\ buf' = got(k) /\ heard' = heard
      BY <1>1, <2>5, <2>6, <2>8
    <3>2. Ending'
      BY <1>2, <2>1, <2>5, <3>1 DEF Ending, Counts
    <3>3. Shapes' /\ Texts' /\ EndsOpen'
      BY <1>2, <2>1, <2>5, <2>6, <3>1 DEF Shapes, Texts, EndsOpen
    <3>. QED
      BY <3>2, <3>3 DEF InStep, Phase
  <2>9. CASE ~SaysExit(text)
    <3>1. /\ heard' = Append(heard, text)
          /\ IF Len(answer) < MaxLine
             THEN server' = "send" /\ buf' = Put(Terminate(answer), got(k))
             ELSE server' = "overrun" /\ buf' = got(k)
      BY <1>1, <2>5, <2>6, <2>9 DEF Answer, Terminate
    <3>2. /\ heard' \in Seq(Seq(Chars)) /\ Len(heard') = n
          /\ \A i \in 1..Len(heard') : heard'[i] = asked[i]
      <4>1. /\ heard' \in Seq(Seq(Chars)) /\ Len(heard') = n /\ heard'[n] = text
            /\ \A i \in 1..(n - 1) : heard'[i] = heard[i]
        BY <2>2, <2>3, <2>7, <3>1, AppendProperties
      <4>2. \A i \in 1..(n - 1) : heard[i] = asked[i]
        BY <2>7 DEF Texts
      <4>3. \A i \in 1..n : i \in 1..(n - 1) \/ i = n
        BY <2>2
      <4>4. ASSUME NEW i \in 1..Len(heard') PROVE heard'[i] = asked[i]
        BY <2>2, <4>1, <4>2, <4>3
      <4>. QED
        BY <4>1, <4>4
    <3>3. buf' \in [1..MaxLine -> Chars]
      <4>1. Terminate(answer) \in Seq(Chars)
        BY <2>3, CharFacts, AppendProperties DEF Terminate
      <4>. QED
        BY <2>6, <3>1, <4>1, PutType
    <3>4. Shapes' /\ Texts' /\ EndsOpen'
      BY <1>2, <2>1, <2>5, <3>2, <3>3 DEF Shapes, Texts, EndsOpen
    <3>5. Last(asked)' = text /\ Counts(0, 1)'
      BY <1>2, <2>2, <2>7, <3>2 DEF Counts, Last, text
    <3>6. CASE Len(answer) < MaxLine
      <4>1. server' = "send" /\ Text(buf') = answer
        BY <2>3, <2>6, <3>1, <3>6, TextOfPut
      <4>2. Answering'
        BY <1>2, <2>1, <2>5, <2>9, <3>5, <3>6, <4>1 DEF Answering, Answers
      <4>. QED
        BY <3>4, <4>2 DEF InStep, Phase
    <3>7. CASE ~(Len(answer) < MaxLine)
      <4>1. server' = "overrun" /\ Len(text) + Len(Stamp) >= MaxLine
        BY <2>3, <3>1, <3>7, TalkAssumption
      <4>2. Overrun'
        BY <1>2, <2>1, <3>5, <4>1 DEF Overrun
      <4>. QED
        BY <3>4, <4>2 DEF InStep, Phase
    <3>. QED
      BY <3>6, <3>7
  <2>. QED
    BY <2>8, <2>9
<1>6. CASE Asking \/ Answered
  BY <1>2, <1>3, <1>6 DEF Asking, Answered, Answers, EndsOpen
<1>7. ~Answering /\ ~Ending /\ ~Overrun
  BY <1>2 DEF Answering, Ending, Overrun
<1>. QED
  BY <1>4, <1>5, <1>6, <1>7 DEF InStep, Phase

LEMMA ClientReads ==
  ASSUME InStep, cuts \in Nat, ClientReceive, cuts' = 0
  PROVE  InStep'
<1>. DEFINE got(k) == Put(SubSeq(down, 1, k), receiveBuf)
<1>1. PICK k \in ReadCounts(down, downEnd) :
        /\ down' = Rest(down, k) /\ downEnd' = AfterRead(down, downEnd)
        /\ cuts' = (IF k > 0 /\ k < Len(down) THEN cuts + 1 ELSE cuts)
        /\ receiveBuf' = got(k)
        /\ shown' = IF k = 0 THEN shown ELSE Append(shown, Text(got(k)))
  BY DEF ClientReceive
<1>2. /\ client = "receive" /\ client' = (IF SaysExit(Last(asked)) THEN "exit" ELSE "read")
      /\ UNCHANGED <<stdin, asked, server, heard, buf, up, upEnd>>
      /\ Shapes /\ Texts /\ EndsOpen /\ downEnd = "open"
  BY DEF ClientReceive, serverVars, InStep, EndsOpen
<1>3. Answered
  <2>1. down # <<>>
    BY <1>1, <1>2 DEF ReadCounts
  <2>. QED
    BY <1>2, <2>1 DEF InStep, Phase, Idle, Asking, Asked, Answering, Ending, Overrun
<1>. DEFINE text == Last(asked)
            answer == Answer(text)
            n == Len(asked)
<1>4. /\ server = "receive" /\ up = <<>> /\ Len(answer) < MaxLine /\ ~SaysExit(text)
      /\ down = Terminate(answer) /\ Counts(0, 1) /\ asked # <<>>
  BY <1>2, <1>3, CountFacts DEF Answered, Answers
<1>5. IsMessage(text) /\ text = asked[n] /\ n \in Nat \ {0}
  BY <1>4, LastAsked
<1>6. IsMessage(answer) /\ answer \in Seq(Chars)
  BY <1>4, <1>5, AnswerFacts
<1>7. Len(down) = Len(answer) + 1 /\ down \in Seq(Chars) /\ Len(answer) \in Nat
  BY <1>4, <1>6, AnswerFacts
<1>8. Len(down) <= MaxLine
  BY <1>4, <1>7, TalkAssumption
<1>9. k # 0 /\ SubSeq(down, 1, k) = down /\ down' = <<>> /\ downEnd' = "open"
  BY <1>1, <1>2, <1>7, <1>8, ReadFacts
<1>10. got(k) \in [1..MaxLine -> Chars] /\ Text(got(k)) = answer
  BY <1>2, <1>4, <1>6, <1>7, <1>9, PutType, TextOfPut DEF Shapes
<1>. HIDE DEF got
<1>11. shown' = Append(shown, answer) /\ receiveBuf' = got(k)
  BY <1>1, <1>9, <1>10
<1>12. answer = Answer(asked[n])
  BY <1>5
<1>. HIDE DEF answer
<1>13. /\ shown' \in Seq(Seq(Chars)) /\ Len(shown') = n
       /\ \A i \in 1..Len(shown') : shown'[i] = Answer(asked[i])
  <2>1. shown \in Seq(Seq(Chars)) /\ Len(shown) = n - 1
    BY <1>2, <1>4 DEF Shapes, Counts
  <2>2. /\ shown' \in Seq(Seq(Chars)) /\ Len(shown') = n /\ shown'[n] = answer
        /\ \A i \in 1..(n - 1) : shown'[i] = shown[i]
    BY <1>5, <1>6, <1>11, <2>1, AppendProperties
  <2>3. \A i \in 1..(n - 1) : shown[i] = Answer(asked[i])
    BY <1>2, <2>1 DEF Texts
  <2>4. \A i \in 1..n : i \in 1..(n - 1) \/ i = n
    BY <1>5
  <2>5. ASSUME NEW i \in 1..Len(shown') PROVE shown'[i] = Answer(asked[i])
    BY <1>12, <2>2, <2>3, <2>4
  <2>. QED
    BY <2>2, <2>5
<1>14. client' = "read"
  BY <1>2, <1>4
<1>15. Shapes' /\ Texts' /\ EndsOpen'
  BY <1>2, <1>9, <1>10, <1>11, <1>13, <1>14 DEF Shapes, Texts, EndsOpen
<1>16. Idle'
  BY <1>2, <1>4, <1>9, <1>13, <1>14 DEF Idle, Counts
<1>. QED
  BY <1>15, <1>16 DEF InStep, Phase

LEMMA ClientTakes ==
  ASSUME InStep, ClientRead
  PROVE  InStep'
<1>. DEFINE piece == Piece(stdin)
            n == Len(asked)
<1>1. /\ client = "read" /\ client' = "send" /\ stdin # <<>>
      /\ stdin' = Rest(stdin, Len(piece)) /\ asked' = Append(asked, piece)
      /\ UNCHANGED <<server, heard, shown, buf, receiveBuf, up, down, upEnd, downEnd>>
      /\ Shapes /\ Texts /\ EndsOpen
  BY DEF ClientRead, serverVars, InStep
<1>2. Idle
  BY <1>1 DEF InStep, Phase, Asking, Asked, Answering, Answered, Answers, Ending, Overrun
<1>3. IsMessage(piece) /\ piece \in Seq(Chars) /\ IsInput(stdin')
  BY <1>1, PieceFacts DEF Shapes, IsMessage
<1>. HIDE DEF piece
<1>4. /\ asked' \in Seq(Seq(Chars)) /\ Len(asked') = n + 1 /\ n \in Nat /\ asked'[n + 1] = piece
      /\ \A i \in 1..n : asked'[i] = asked[i]
  BY <1>1, <1>3, AppendProperties DEF Shapes
<1>5. Len(heard) = n /\ Len(shown) = n
  BY <1>2, <1>4 DEF Idle, Counts
<1>6. Texts'
  <2>1. \A i \in 1..(n + 1) : i \in 1..n \/ i = n + 1
    BY <1>4
  <2>2. \A i \in 1..Len(asked') : IsMessage(asked'[i])
    BY <1>1, <1>3, <1>4, <2>1 DEF Texts
  <2>3. /\ \A i \in 1..n : heard[i] = asked'[i] /\ shown[i] = Answer(asked'[i])
        /\ heard' = heard /\ shown' = shown
    BY <1>1, <1>4, <1>5 DEF Texts
  <2>. QED
    BY <1>5, <2>2, <2>3 DEF Texts
<1>7. Shapes' /\ EndsOpen'
  BY <1>1, <1>3, <1>4 DEF Shapes, EndsOpen
<1>8. Asking'
  BY <1>1, <1>2, <1>4, <1>5 DEF Asking, Idle, Counts
<1>. QED
  BY <1>6, <1>7, <1>8 DEF InStep, Phase

LEMMA ClientAsks ==
  ASSUME InStep, ClientSend
  PROVE  InStep'
<1>1. /\ client = "send" /\ client' = "receive"
      /\ up' = (IF downEnd = "open" THEN up \o Append(Last(asked), NUL) ELSE up)
      /\ downEnd' \in AfterSend(downEnd) /\ downEnd = "open"
      /\ UNCHANGED <<stdin, asked, server, heard, shown, buf, receiveBuf, down, upEnd>>
      /\ Shapes /\ Texts /\ EndsOpen
  BY DEF ClientSend, serverVars, InStep, EndsOpen
<1>2. Asking /\ asked # <<>>
  <2>1. Asking
    BY <1>1 DEF InStep, Phase, Idle, Asked, Answering, Answered, Answers, Ending, Overrun
  <2>. QED
    BY <1>1, <2>1, CountFacts DEF Asking
<1>3. up' = Terminate(Last(asked)) /\ downEnd' = "open"
  <2>1. Terminate(Last(asked)) \in Seq(Chars)
    BY <1>2, LastAsked, AnswerFacts
  <2>2. up' = <<>> \o Terminate(Last(asked))
    BY <1>1, <1>2 DEF Asking, Terminate
  <2>. QED
    BY <1>1, <2>1, <2>2, ConcatEmptySeq DEF AfterSend
<1>4. Shapes' /\ Texts' /\ EndsOpen'
  BY <1>1, <1>3 DEF Shapes, Texts, EndsOpen
<1>5. Asked'
  BY <1>1, <1>2, <1>3 DEF Asking, Asked, Counts
<1>. QED
  BY <1>4, <1>5 DEF InStep, Phase

LEMMA ServerAnswers ==
  ASSUME InStep, ServerSend
  PROVE  InStep'
<1>1. /\ server = "send" /\ server' = "receive" /\ upEnd' \in AfterSend(upEnd)
      /\ down' = (IF upEnd = "open" THEN down \o Append(Text(buf), NUL) ELSE down)
      /\ UNCHANGED <<client, stdin, asked, heard, shown, buf, receiveBuf, up, downEnd>>
      /\ Shapes /\ Texts /\ EndsOpen
  BY DEF ServerSend, clientVars, InStep
<1>2. Answering /\ asked # <<>>
  <2>1. Answering
    BY <1>1 DEF InStep, Phase, Idle, Asking, Asked, Answered, Ending, Overrun
  <2>. QED
    BY <1>1, <2>1, CountFacts DEF Answering, Answers
<1>3. upEnd = "open" /\ upEnd' = "open"
  BY <1>1, <1>2 DEF Answering, Answers, EndsOpen, AfterSend
<1>4. down' = Terminate(Answer(Last(asked)))
  <2>1. IsMessage(Answer(Last(asked)))
    BY <1>2, LastAsked, AnswerFacts DEF Answering, Answers
  <2>2. Terminate(Answer(Last(asked))) \in Seq(Chars)
    BY <2>1, AnswerFacts
  <2>3. down' = <<>> \o Terminate(Answer(Last(asked)))
    BY <1>1, <1>2, <1>3 DEF Answering, Terminate
  <2>. QED
    BY <2>2, <2>3, ConcatEmptySeq
<1>5. Shapes' /\ Texts' /\ EndsOpen'
  BY <1>1, <1>3 DEF Shapes, Texts, EndsOpen
<1>6. Answered'
  BY <1>1, <1>2, <1>4 DEF Answering, Answered, Answers, Counts
<1>. QED
  BY <1>5, <1>6 DEF InStep, Phase

\* The user types while nothing is left to read.
LEMMA UserTypes ==
  ASSUME InStep, NEW line \in Lines, Type(line)
  PROVE  InStep'
<1>1. /\ stdin' = Append(line, Newline)
      /\ UNCHANGED <<client, server, asked, heard, shown, buf, receiveBuf, up, down, upEnd, downEnd>>
      /\ line \in Seq(Chars) /\ Len(line) \in Nat
      /\ \A i \in 1..Len(line) : line[i] # NUL /\ line[i] # Newline
  BY TalkAssumption DEF Type, serverVars, ToSet
<1>2. IsInput(stdin')
  BY <1>1, CharFacts, AppendProperties DEF IsInput
<1>. QED
  BY <1>1, <1>2 DEF InStep, Shapes, Texts, EndsOpen, Phase, Idle, Asking, Asked, Answering, Answered,
                    Answers, Ending, Overrun, Counts

\* The programs start, connect and end.
LEMMA OthersInStep ==
  ASSUME InStep, server' # "gone",
         \/ ServerStart \/ ServerAccept \/ ServerSendDies \/ ServerTerminate
         \/ ClientConnect \/ ClientSendDies \/ ClientExit
  PROVE  InStep'
<1>1. ~ServerSendDies /\ ~ServerTerminate
  BY DEF ServerSendDies, ServerTerminate
<1>2. ~ClientSendDies
  BY DEF ClientSendDies, InStep, EndsOpen
<1>3. /\ UNCHANGED <<stdin, asked, heard, shown, buf, receiveBuf, up, down, downEnd>>
      /\ Shapes /\ Texts /\ EndsOpen
  BY <1>1, <1>2 DEF ServerStart, ServerAccept, ClientConnect, ClientExit, clientVars, serverVars, InStep
<1>4. Shapes' /\ Texts'
  BY <1>3 DEF Shapes, Texts
<1>5. CASE ServerStart
  <2>1. server = "start" /\ server' = "accept" /\ UNCHANGED <<client, upEnd>>
    BY <1>5 DEF ServerStart, clientVars
  <2>2. Idle
    BY <2>1 DEF InStep, Phase, Asking, Asked, Answering, Answered, Ending, Overrun
  <2>. QED
    BY <1>3, <1>4, <2>1, <2>2 DEF InStep, Phase, Idle, EndsOpen, Counts
<1>6. CASE ServerAccept
  <2>1. server = "accept" /\ server' = "receive" /\ UNCHANGED <<client, upEnd>>
    BY <1>6 DEF ServerAccept, clientVars
  <2>2. Idle \/ Asking \/ Asked
    BY <2>1 DEF InStep, Phase, Answering, Answered, Ending, Overrun
  <2>. QED
    BY <1>3, <1>4, <2>1, <2>2 DEF InStep, Phase, Idle, Asking, Asked, EndsOpen, Counts
<1>7. CASE ClientConnect
  <2>1. /\ client = "start" /\ UNCHANGED <<server, upEnd>>
        /\ client' = IF server = "accept" THEN "read" ELSE "refused"
    BY <1>7 DEF ClientConnect, serverVars
  <2>2. Idle
    BY <2>1 DEF InStep, Phase, Asking, Asked, Answering, Answered, Answers, Ending, Overrun
  <2>. QED
    BY <1>3, <1>4, <2>1, <2>2 DEF InStep, Phase, Idle, EndsOpen, Counts
<1>8. CASE ClientExit
  <2>1. client \in {"read", "exit"} /\ client' = "gone" /\ UNCHANGED server
        /\ upEnd' \in ClosedEnds(down)
    BY <1>8 DEF ClientExit, serverVars
  <2>2. Idle
    BY <2>1 DEF InStep, Phase, Asking, Asked, Answering, Answered, Answers, Ending, Overrun
  <2>3. upEnd' = "fin"
    BY <2>1, <2>2 DEF Idle, ClosedEnds
  <2>. QED
    BY <1>3, <1>4, <2>1, <2>2, <2>3 DEF InStep, Phase, Idle, EndsOpen, Counts
<1>. QED
  BY <1>1, <1>2, <1>5, <1>6, <1>7, <1>8

LEMMA TalkInvInit == TalkInit => TalkInv
<1>. SUFFICES ASSUME TalkInit PROVE TalkInv
  OBVIOUS
<1>1. /\ client = "start" /\ server = "start" /\ stdin = <<>> /\ asked = <<>> /\ heard = <<>>
      /\ shown = <<>> /\ up = <<>> /\ down = <<>> /\ upEnd = "open" /\ downEnd = "open" /\ cuts = 0
      /\ buf \in [1..MaxLine -> Chars] /\ receiveBuf \in [1..MaxLine -> Chars]
  BY TalkAssumption DEF TalkInit
<1>2. Len(<<>>) = 0 /\ 1..0 = {}
  OBVIOUS
<1>3. Shapes /\ Texts /\ EndsOpen
  BY <1>1, <1>2 DEF Shapes, IsInput, Texts, EndsOpen
<1>4. Idle
  BY <1>1, <1>2 DEF Idle, Counts
<1>. QED
  BY <1>1, <1>3, <1>4 DEF TalkInv, InStep, Phase

LEMMA TalkInvNext == TalkInv /\ [TalkNext]_talkVars => TalkInv'
<1>. SUFFICES ASSUME TalkInv, [TalkNext]_talkVars PROVE TalkInv'
  OBVIOUS
<1>1. cuts \in Nat /\ (cuts' = cuts \/ cuts' = cuts + 1)
  <2>1. cuts \in Nat
    BY DEF TalkInv
  <2>2. CASE ServerReceive
    <3>1. \E k \in ReadCounts(up, upEnd) :
            cuts' = IF k > 0 /\ k < Len(up) THEN cuts + 1 ELSE cuts
      BY <2>2 DEF ServerReceive
    <3>. DEFINE inPart(k) == k > 0 /\ k < Len(up)
    <3>2. PICK k \in ReadCounts(up, upEnd) : cuts' = IF inPart(k) THEN cuts + 1 ELSE cuts
      BY <3>1
    <3>. HIDE DEF inPart
    <3>. QED
      BY <2>1, <3>2
  <2>3. CASE ClientReceive
    <3>1. \E k \in ReadCounts(down, downEnd) :
            cuts' = IF k > 0 /\ k < Len(down) THEN cuts + 1 ELSE cuts
      BY <2>3 DEF ClientReceive
    <3>. DEFINE inPart(k) == k > 0 /\ k < Len(down)
    <3>2. PICK k \in ReadCounts(down, downEnd) : cuts' = IF inPart(k) THEN cuts + 1 ELSE cuts
      BY <3>1
    <3>. HIDE DEF inPart
    <3>. QED
      BY <2>1, <3>2
  <2>4. CASE \/ ServerStart \/ ServerAccept \/ ServerSend \/ ServerSendDies \/ ServerTerminate
             \/ UNCHANGED talkVars
    BY <2>1, <2>4 DEF ServerStart, ServerAccept, ServerSend, ServerSendDies, ServerTerminate, talkVars
  <2>5. CASE \/ ClientConnect \/ ClientRead \/ ClientSend \/ ClientSendDies \/ ClientExit
             \/ \E line \in Lines : Type(line)
    BY <2>1, <2>5 DEF ClientConnect, ClientRead, ClientSend, ClientSendDies, ClientExit, Type
  <2>. QED
    BY <2>1, <2>2, <2>3, <2>4, <2>5 DEF TalkNext, ServerStep, ClientStep
<1>2. server = "gone" => server' = "gone"
  BY DEF TalkNext, ServerStart, ServerStep, ServerAccept, ServerReceive, ServerSend, ServerSendDies,
         ServerTerminate, ClientConnect, ClientStep, ClientRead, ClientSend, ClientSendDies,
         ClientReceive, ClientExit, Type, talkVars, serverVars
<1>3. SUFFICES ASSUME cuts' = 0, server' # "gone" PROVE InStep'
  BY <1>1 DEF TalkInv
<1>4. InStep /\ cuts = 0
  BY <1>1, <1>2, <1>3 DEF TalkInv
<1>5. CASE UNCHANGED talkVars
  BY <1>4, <1>5 DEF talkVars, InStep, Shapes, Texts, EndsOpen, Phase, Idle, Asking, Asked, Answering,
                    Answered, Answers, Ending, Overrun, Counts
<1>6. CASE \/ ServerStart \/ ServerAccept \/ ServerSendDies \/ ServerTerminate
           \/ ClientConnect \/ ClientSendDies \/ ClientExit
  BY <1>3, <1>4, <1>6, OthersInStep
<1>. QED
  BY <1>1, <1>3, <1>4, <1>5, <1>6, ServerReads, ServerAnswers, ClientReads, ClientTakes, ClientAsks,
     UserTypes DEF TalkNext, ServerStep, ClientStep

LEMMA TalkInvariant == TalkSpec => []TalkInv
BY TalkInvInit, TalkInvNext, PTL DEF TalkSpec

-----------------------------------------------------------------------------
(* The promises *)

LEMMA SamePrefix ==
  ASSUME NEW S, NEW s \in Seq(S), NEW t \in Seq(S), Len(s) <= Len(t), \A i \in 1..Len(s) : s[i] = t[i]
  PROVE  IsPrefix(s, t)
<1>1. /\ SubSeq(s, 1, Len(s)) = [i \in 1..Len(s) |-> s[i]]
      /\ SubSeq(t, 1, Len(s)) = [i \in 1..Len(s) |-> t[i]]
  OBVIOUS
<1>. QED
  BY <1>1 DEF IsPrefix

\* guide_runPrograms.txt:68-70, for lines of any length and any characters, buffers of any size
\* with anything in them, and as many lines as the user types: each answer is to the line just
\* sent, in full, although neither program clears its buffer (client.c:52-93, server.c:55-85).
THEOREM AnswersAreInOrder == TalkSpec => []EchoesInOrder
<1>1. TalkInv => EchoesInOrder
  <2>. SUFFICES ASSUME TalkInv, server \in {"receive", "send", "terminate"}, cuts = 0
                PROVE  /\ IsPrefix(heard, asked)
                       /\ \A i \in 1..Len(shown) : shown[i] = asked[i] \o Stamp
                       /\ Len(heard) - Len(shown) \in {0, 1}
    BY DEF EchoesInOrder
  <2>1. Shapes /\ Texts /\ Phase /\ ~Overrun
    BY DEF TalkInv, InStep, Overrun
  <2>2. /\ Len(asked) \in Nat /\ Len(heard) \in Nat /\ Len(shown) \in Nat
        /\ Len(heard) <= Len(asked) /\ Len(heard) - Len(shown) \in {0, 1}
    BY <2>1, CountFacts DEF Phase, Idle, Asking, Asked, Answering, Answered, Answers, Ending, Counts
  <2>3. IsPrefix(heard, asked)
    BY <2>1, <2>2, SamePrefix DEF Shapes, Texts
  <2>. QED
    BY <2>1, <2>2, <2>3 DEF Texts, Answer
<1>. QED
  BY <1>1, TalkInvariant, PTL

\* server.c:72-73: whatever has been in the buffer before, only one line that leaves no room for
\* the stamp overruns it.
THEOREM OneLineOverruns == TalkSpec => []OnlyLongLinesOverrun
<1>1. TalkInv => OnlyLongLinesOverrun
  BY DEF TalkInv, InStep, Phase, Idle, Asking, Asked, Answering, Answered, Ending, Overrun,
         OnlyLongLinesOverrun
<1>. QED
  BY <1>1, TalkInvariant, PTL
=============================================================================
