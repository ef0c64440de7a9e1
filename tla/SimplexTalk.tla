----------------------------- MODULE SimplexTalk -----------------------------
(***************************************************************************)
(* The two programs of the Mininet guide: the client sends the lines its   *)
(* user types, one at a time, and prints one answer to each; the server    *)
(* echoes them with a time stamp until it is told "exit".                  *)
(*                                                                         *)
(* A text is a sequence of characters, with Newline and Exit, for the four *)
(* letters of the command, among them; 0 is the character NUL, which every *)
(* message ends with.  Both programs keep one buffer for all receipts and  *)
(* never clear it.                                                         *)
(***************************************************************************)
EXTENDS Integers, SequencesExt

CONSTANTS Letters,            \* the other characters
          Lines,              \* what users type, without the newline
          MaxLine,            \* MAX_LINE
          Stamp, Terminated,  \* what the server adds, and its last message
          Garbage,            \* what a buffer may hold that nobody has written to
          MaxTyped, MaxCuts   \* bounds: lines typed, receipts of part of what has come

NUL == "NUL"
Newline == "newline"
Exit == "exit"
Chars == Letters \cup {NUL, Newline, Exit}

ASSUME TalkAssumption ==
  /\ MaxLine \in Nat \ {0, 1} /\ Garbage \subseteq Chars
  /\ Lines \subseteq Seq(Chars) /\ Stamp \in Seq(Chars) /\ Terminated \in Seq(Chars)
  /\ Stamp # <<>> /\ Len(Terminated) < MaxLine
  /\ NUL \notin ToSet(Stamp) \cup ToSet(Terminated)
  /\ \A line \in Lines : NUL \notin ToSet(line) /\ Newline \notin ToSet(line)

VARIABLES client, server,        \* where each program is in its main
          stdin, typed,          \* what fgets has still to read, and the lines typed so far
          asked,                 \* the pieces of text the client has sent
          heard, shown,          \* what the server and the client have printed
          buf, receiveBuf,       \* buf of the server and receive_buf of the client
          up, down,              \* bytes in flight to the server, to the client
          upEnd, downEnd,        \* how the sender of each direction has ended it
          cuts                   \* how many receipts have returned part of what had come

talkVars == <<client, server, stdin, typed, asked, heard, shown, buf, receiveBuf,
              up, down, upEnd, downEnd, cuts>>
clientVars == <<client, stdin, typed, asked, shown, receiveBuf>>
serverVars == <<server, heard, buf>>

-----------------------------------------------------------------------------
(* Strings *)

Put(bytes, buffer) ==
  [i \in DOMAIN buffer |-> IF i <= Len(bytes) THEN bytes[i] ELSE buffer[i]]

\* The string in a buffer, or all of it when it is not terminated.
Text(buffer) ==
  LET end == CHOOSE e \in 1..(MaxLine + 1) :
               /\ e <= MaxLine => buffer[e] = NUL
               /\ \A i \in 1..(e - 1) : buffer[i] # NUL
  IN  SubSeq(buffer, 1, end - 1)

\* strncmp with "exit\n".
SaysExit(text) == IsPrefix(<<Exit, Newline>>, text)

\* What one fgets takes: a line, or as much of it as the buffer holds.
Piece(input) ==
  CHOOSE piece \in {SubSeq(input, 1, n) : n \in 1..Len(input)} :
    /\ Newline \notin ToSet(Front(piece))
    /\ Len(piece) < MaxLine /\ (Last(piece) = Newline \/ Len(piece) = MaxLine - 1)

-----------------------------------------------------------------------------
(* The connection *)

\* What a socket that is closed leaves to the other end.
ClosedEnds(unread) == IF unread = <<>> THEN {"fin"} ELSE {"fin", "rst"}

\* How many bytes a recv returns; 0 at the end, -1 once after a reset.
ReadCounts(stream, end) ==
  IF stream # <<>>
  THEN LET most == Min({MaxLine, Len(stream)}) IN IF cuts < MaxCuts THEN 1..most ELSE {most}
  ELSE CASE end = "open" -> {} [] end = "rst" -> {-1} [] OTHER -> {0}

AfterRead(stream, end) == IF stream = <<>> /\ end = "rst" THEN "over" ELSE end
Rest(stream, k) == IF k > 0 THEN SubSeq(stream, k + 1, Len(stream)) ELSE stream

\* The first send to an end that is closed is lost and answered with a reset.
AfterSend(end) == IF end = "open" THEN {"open"} ELSE IF end = "rst" THEN {"over"} ELSE {end, "over"}

-----------------------------------------------------------------------------
TalkInit ==
  /\ client = "start" /\ server = "start"
  /\ stdin = <<>> /\ typed = 0
  /\ asked = <<>> /\ heard = <<>> /\ shown = <<>>
  /\ buf \in {[i \in 1..MaxLine |-> g] : g \in Garbage}
  /\ receiveBuf \in {[i \in 1..MaxLine |-> g] : g \in Garbage}
  /\ up = <<>> /\ down = <<>> /\ upEnd = "open" /\ downEnd = "open"
  /\ cuts = 0

ServerStart ==
  /\ server = "start"
  /\ server' \in {"accept", "gone"}
  /\ UNCHANGED <<heard, buf, clientVars, up, down, upEnd, downEnd, cuts>>

\* The length accept is given is not initialised: a negative one makes it fail, and
\* the connection with it.
ServerAccept ==
  /\ server = "accept" /\ client \notin {"start", "refused"}
  /\ \/ server' = "receive" /\ UNCHANGED downEnd
     \/ server' = "gone" /\ downEnd' \in {"fin", "rst"}
  /\ UNCHANGED <<heard, buf, clientVars, up, down, upEnd, cuts>>

\* recv's -1 is not told from data, and strncat not bounded by the buffer.
ServerReceive ==
  /\ server = "receive"
  /\ \E k \in ReadCounts(up, upEnd) :
       LET got == Put(SubSeq(up, 1, k), buf)
           answer == Text(got) \o Stamp
       IN  /\ up' = Rest(up, k) /\ upEnd' = AfterRead(up, upEnd)
           /\ cuts' = IF k > 0 /\ k < Len(up) THEN cuts + 1 ELSE cuts
           /\ IF k = 0 \/ SaysExit(Text(got))
              THEN server' = "terminate" /\ buf' = got /\ UNCHANGED heard
              ELSE /\ heard' = Append(heard, Text(got))
                   /\ IF Len(answer) < MaxLine
                      THEN server' = "send" /\ buf' = Put(Append(answer, NUL), got)
                      ELSE server' = "overrun" /\ buf' = got
  /\ UNCHANGED <<clientVars, down, downEnd>>

\* Mutant: the terminating 0 is not sent.
ServerSendText ==
  /\ server = "send" /\ upEnd # "over"
  /\ server' = "receive" /\ upEnd' \in AfterSend(upEnd)
  /\ down' = IF upEnd = "open" THEN down \o Text(buf) ELSE down
  /\ UNCHANGED <<heard, buf, clientVars, up, downEnd, cuts>>

ServerSend ==
  /\ server = "send" /\ upEnd # "over"
  /\ server' = "receive" /\ upEnd' \in AfterSend(upEnd)
  /\ down' = IF upEnd = "open" THEN down \o Append(Text(buf), NUL) ELSE down
  /\ UNCHANGED <<heard, buf, clientVars, up, downEnd, cuts>>

\* SIGPIPE, which the program does not handle.
ServerSendDies ==
  /\ server = "send" /\ upEnd = "over"
  /\ server' = "gone" /\ downEnd' = "fin"
  /\ UNCHANGED <<heard, buf, clientVars, up, down, upEnd, cuts>>

\* Mutant: the server goes back to its clients without a last message.
ServerTerminateSilently ==
  /\ server = "terminate"
  /\ server' = "receive"
  /\ UNCHANGED <<heard, buf, clientVars, up, down, upEnd, downEnd, cuts>>

\* The last message, close and return.
ServerTerminate ==
  /\ server = "terminate"
  /\ server' = "gone"
  /\ buf' = Put(Append(Terminated, NUL), buf)
  /\ down' = IF upEnd = "open" THEN down \o Append(Terminated, NUL) ELSE down
  /\ downEnd' \in ClosedEnds(up)
  /\ UNCHANGED <<heard, clientVars, up, upEnd, cuts>>

-----------------------------------------------------------------------------
ClientConnect ==
  /\ client = "start"
  /\ client' = IF server = "accept" THEN "read" ELSE "refused"
  /\ UNCHANGED <<stdin, typed, asked, shown, receiveBuf, serverVars, up, down, upEnd, downEnd, cuts>>

Type(line) ==
  /\ client \notin {"refused", "gone"} /\ stdin = <<>> /\ typed < MaxTyped
  /\ stdin' = Append(line, Newline) /\ typed' = typed + 1
  /\ UNCHANGED <<client, asked, shown, receiveBuf, serverVars, up, down, upEnd, downEnd, cuts>>

\* A long line is sent in several pieces, each of which is answered.
ClientRead ==
  /\ client = "read" /\ stdin # <<>>
  /\ LET piece == Piece(stdin)
     IN  stdin' = Rest(stdin, Len(piece)) /\ asked' = Append(asked, piece)
  /\ client' = "send"
  /\ UNCHANGED <<typed, shown, receiveBuf, serverVars, up, down, upEnd, downEnd, cuts>>

\* Mutant: the terminating 0 is not sent.
ClientSendText ==
  /\ client = "send" /\ downEnd # "over"
  /\ client' = "receive" /\ downEnd' \in AfterSend(downEnd)
  /\ up' = IF downEnd = "open" THEN up \o Last(asked) ELSE up
  /\ UNCHANGED <<stdin, typed, asked, shown, receiveBuf, serverVars, down, upEnd, cuts>>

ClientSend ==
  /\ client = "send" /\ downEnd # "over"
  /\ client' = "receive" /\ downEnd' \in AfterSend(downEnd)
  /\ up' = IF downEnd = "open" THEN up \o Append(Last(asked), NUL) ELSE up
  /\ UNCHANGED <<stdin, typed, asked, shown, receiveBuf, serverVars, down, upEnd, cuts>>

ClientSendDies ==
  /\ client = "send" /\ downEnd = "over"
  /\ client' = "gone" /\ upEnd' = "fin"
  /\ UNCHANGED <<stdin, typed, asked, shown, receiveBuf, serverVars, up, down, downEnd, cuts>>

\* One receipt, whatever it brings: an error prints what was printed before.
ClientReceive ==
  /\ client = "receive"
  /\ \E k \in ReadCounts(down, downEnd) :
       LET got == Put(SubSeq(down, 1, k), receiveBuf)
       IN  /\ down' = Rest(down, k) /\ downEnd' = AfterRead(down, downEnd)
           /\ cuts' = IF k > 0 /\ k < Len(down) THEN cuts + 1 ELSE cuts
           /\ receiveBuf' = got
           /\ shown' = IF k = 0 THEN shown ELSE Append(shown, Text(got))
  /\ client' = IF SaysExit(Last(asked)) THEN "exit" ELSE "read"
  /\ UNCHANGED <<stdin, typed, asked, serverVars, up, upEnd>>

\* "exit", or the end of the input.
ClientExit ==
  /\ client = "exit" \/ (client = "read" /\ stdin = <<>>)
  /\ client' = "gone" /\ upEnd' \in ClosedEnds(down)
  /\ UNCHANGED <<stdin, typed, asked, shown, receiveBuf, serverVars, up, down, downEnd, cuts>>

ServerStep ==
  ServerAccept \/ ServerReceive \/ ServerSend \/ ServerSendDies \/ ServerTerminate
ClientStep ==
  \/ ClientRead \/ ClientSend \/ ClientSendDies \/ ClientReceive
  \/ (client = "exit" /\ ClientExit)

TalkNext ==
  \/ ServerStart \/ ServerStep
  \/ ClientConnect \/ ClientStep \/ ClientExit \/ \E line \in Lines : Type(line)

\* The operating system schedules both programs; nothing makes a user start one, type
\* or end the input.
TalkSpec == TalkInit /\ [][TalkNext]_talkVars /\ WF_talkVars(ServerStep) /\ WF_talkVars(ClientStep)

-----------------------------------------------------------------------------
\* guide_runPrograms.txt:68-70, the server prints each message and echoes it with a
\* time stamp: although neither buffer is ever cleared (client.c:68-69, server.c:59-75),
\* every answer is to the line just sent, none is missing, and no text holds a
\* character of an earlier, longer one.  Only a message that recv delivers in parts,
\* a server whose accept has failed, or an overrun can change that.
EchoesInOrder ==
  server \in {"receive", "send", "terminate"} /\ cuts = 0 =>
    /\ IsPrefix(heard, asked)
    /\ \A i \in 1..Len(shown) : shown[i] = asked[i] \o Stamp
    /\ Len(heard) - Len(shown) \in {0, 1}

\* server.c:72-73: strncat is given the size of the buffer and not what is left of it.
\* What overruns it is one line that is too long for the stamp, never the sum of
\* several.
OnlyLongLinesOverrun ==
  server = "overrun" /\ cuts = 0 => Len(Last(asked)) + Len(Stamp) >= MaxLine

\* guide_runPrograms.txt:72, "Type exit in the client terminal window to exit the
\* program": both programs end, even if they have lost step with each other because
\* messages came in parts, or one of them has only seen the other's error.  What the
\* server does behind an overrun is not known, and the client may wait for it.
ExitEndsBoth ==
  asked # <<>> /\ SaysExit(Last(asked)) ~>
    (client = "gone" /\ server = "gone") \/ server = "overrun"
=============================================================================
