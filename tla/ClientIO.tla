------------------------------ MODULE ClientIO ------------------------------
(***************************************************************************)
(* client/client.go and its use by one handler: the bounded channel to the *)
(* write loop, the two ways of reading (a scanner while the user enters    *)
(* the chat, byte by byte in the session) and the write loop's copy of the *)
(* line being typed, which it redraws after every message.                 *)
(*                                                                         *)
(* Four goroutines: the peer types and leaves, the handler reads and       *)
(* answers, others send and close, the write loop writes.  The peer may    *)
(* stop reading: a Conn.Write need never return before Close.              *)
(*                                                                         *)
(* Texts of messages are left out.  The done test of enqueue and its send  *)
(* are one step: what slips in between them can no longer be written.      *)
(***************************************************************************)
EXTENDS Integers, Sequences, FiniteSets

CONSTANTS
  Letters,            \* printable characters
  MsgChanSize,        \* msgChanSize
  MaxInteractiveBuf,  \* maxInteractiveBuf
  MaxBytes,           \* bound on the bytes the peer types
  MaxInFlight,        \* bound on those typed and not read yet
  MaxSends            \* bound on the messages others send

ASSUME ClientIOAssumption ==
  /\ MsgChanSize \in Nat \ {0}
  /\ MaxInteractiveBuf \in Nat
  /\ MaxBytes \in Nat /\ MaxInFlight \in Nat /\ MaxSends \in Nat
  /\ Letters \cap {"CR", "LF", "BS", "NUL"} = {}

(* BS stands for 0x08 and 0x7F, NUL for all that is ignored. *)
Bytes == Letters \cup {"CR", "LF", "BS", "NUL"}

WriteMsgs ==
  {[msgType |-> t, data |-> ""] :
     t \in {"wmMessage", "wmPrompt", "wmBackspace", "wmNewline"}}
  \cup {[msgType |-> "wmEcho", data |-> b] : b \in Letters}

VARIABLES
  net,       \* bytes typed and not read from the connection
  typed,     \* how many bytes have been typed
  gone,      \* the peer has closed its end
  scan,      \* bytes the scanner has read beyond the lines it has returned
  pc,        \* where the handler is
  line,      \* the local of ReadLineInteractive
  skipLF,    \* Client.skipLF
  echoMode,  \* Client.echoMode
  msgChan,   \* Client.msgChan
  done,      \* Client.done is closed
  loop,      \* where the write loop is
  msg,       \* the message it has taken
  inputBuf,  \* Client.inputBuf
  prompt,    \* Client.prompt is not empty
  sends,     \* how many messages others have sent
  heard,     \* the bytes ReadLineInteractive has read
  got,       \* the lines it has returned
  lossy      \* since the last prompt a write was dropped or the line too long

peer == <<typed, gone>>
reader == <<scan, line, skipLF>>
writer == <<loop, msg, inputBuf, prompt>>
ghosts == <<heard, got>>
vars == <<net, typed, gone, scan, pc, line, skipLF, echoMode, msgChan, done,
          loop, msg, inputBuf, prompt, sends, heard, got, lossy>>

NoMsg == [msgType |-> "none", data |-> ""]

(* NewClient; the handler then reads the name. *)
Init ==
  /\ net = <<>> /\ typed = 0 /\ gone = FALSE
  /\ scan = <<>> /\ line = <<>> /\ skipLF = FALSE
  /\ pc = "onboard"
  /\ echoMode = FALSE
  /\ msgChan = <<>> /\ done = FALSE
  /\ loop = "select" /\ msg = NoMsg /\ inputBuf = <<>> /\ prompt = FALSE
  /\ sends = 0
  /\ heard = <<>> /\ got = <<>> /\ lossy = FALSE

-----------------------------------------------------------------------------
(* The channel. *)

Write(t) == [msgType |-> t, data |-> ""]

(* Variant for the mutation runs: the channel has no bound. *)
EnqueueUnbounded(m) ==
  msgChan' = IF done THEN msgChan ELSE Append(msgChan, m)

(* Variant for the mutation runs: the sender waits for a free place. *)
EnqueueWaiting(m) ==
  /\ done \/ Len(msgChan) < MsgChanSize
  /\ msgChan' = IF done THEN msgChan ELSE Append(msgChan, m)

(* enqueue drops what finds the client closed or the channel full. *)
Enqueue(m) ==
  msgChan' = IF done \/ Len(msgChan) >= MsgChanSize THEN msgChan
                                                    ELSE Append(msgChan, m)

Dropped == msgChan' = msgChan

-----------------------------------------------------------------------------
(* The peer, and everybody else who holds the client. *)

Type(b) ==
  /\ ~ gone /\ ~ done
  /\ typed < MaxBytes /\ Len(net) < MaxInFlight
  /\ net' = Append(net, b) /\ typed' = typed + 1
  /\ UNCHANGED <<gone, reader, pc, echoMode, msgChan, done, writer, sends,
                 ghosts, lossy>>

HangUp ==
  /\ ~ gone /\ ~ done
  /\ gone' = TRUE
  /\ UNCHANGED <<net, typed, reader, pc, echoMode, msgChan, done, writer,
                 sends, ghosts, lossy>>

(* A broadcast, a whisper, a notice of the operator. *)
Send ==
  /\ sends < MaxSends /\ sends' = sends + 1
  /\ Enqueue(Write("wmMessage"))
  /\ UNCHANGED <<net, peer, reader, pc, echoMode, done, writer, ghosts, lossy>>

(* Kick, ban, a failed heartbeat, Shutdown. *)
Close ==
  /\ ~ done
  /\ done' = TRUE
  /\ UNCHANGED <<net, peer, reader, pc, echoMode, msgChan, writer, sends,
                 ghosts, lossy>>

-----------------------------------------------------------------------------
(* The handler before the session: lines from the scanner. *)

LineEnds == {i \in DOMAIN scan : scan[i] = "LF"}

(* The scanner takes all there is. *)
ScanRead ==
  /\ pc \in {"onboard", "wait"} /\ LineEnds = {}
  /\ ~ done /\ net # <<>>
  /\ scan' = scan \o net /\ net' = <<>>
  /\ UNCHANGED <<peer, pc, line, skipLF, echoMode, msgChan, done, writer,
                 sends, ghosts, lossy>>

ReadFails == done \/ (gone /\ net = <<>>)

(* One line; where the stream ends, what there is of one. *)
ScanLine ==
  \/ \E i \in LineEnds :
       /\ \A j \in LineEnds : i <= j
       /\ scan' = SubSeq(scan, i + 1, Len(scan))
  \/ /\ LineEnds = {} /\ scan # <<>> /\ ReadFails
     /\ scan' = <<>>

(* A name or a room is refused, or accepted and another question asked. *)
AskAgain ==
  /\ pc = "onboard"
  /\ ScanLine
  /\ Enqueue(Write("wmMessage"))
  /\ UNCHANGED <<net, peer, pc, line, skipLF, echoMode, done, writer, sends,
                 ghosts, lossy>>

(* The room, or the answer that the user will wait for one. *)
Accept(next) ==
  /\ pc = "onboard" /\ next \in {"wait", "greet"}
  /\ ScanLine
  /\ pc' = next
  /\ UNCHANGED <<net, peer, line, skipLF, echoMode, msgChan, done, writer,
                 sends, ghosts, lossy>>

(* waitForRoomAdmission's monitor reads lines nobody looks at. *)
Monitor ==
  /\ pc = "wait"
  /\ ScanLine
  /\ UNCHANGED <<net, peer, pc, line, skipLF, echoMode, msgChan, done, writer,
                 sends, ghosts, lossy>>

(* The admission; the scanner that was interrupted is replaced. *)
ResetScanner ==
  /\ pc = "wait"
  /\ scan' = <<>>
  /\ pc' = "greet"
  /\ UNCHANGED <<net, peer, line, skipLF, echoMode, msgChan, done, writer,
                 sends, ghosts, lossy>>

-----------------------------------------------------------------------------
(* The session. *)

SetEchoMode ==
  /\ pc = "greet"
  /\ echoMode' = TRUE
  /\ pc' = "prompt"
  /\ UNCHANGED <<net, peer, reader, msgChan, done, writer, sends, ghosts,
                 lossy>>

SendPrompt ==
  /\ pc = "prompt"
  /\ Enqueue(Write("wmPrompt"))
  /\ lossy' = Dropped
  /\ pc' = "read"
  /\ UNCHANGED <<net, peer, reader, echoMode, done, writer, sends, ghosts>>

(* A read of one byte. *)
Read(b) ==
  /\ pc = "read" /\ ~ done
  /\ net # <<>> /\ b = Head(net)
  /\ net' = Tail(net)
  /\ heard' = Append(heard, b)
  /\ UNCHANGED <<peer, scan, echoMode, done, writer, sends>>

(* Variant for the mutation runs: the flag is kept until a LF comes. *)
IgnoreKeepingSkip(b) ==
  /\ Read(b)
  /\ b = "NUL" \/ (b = "LF" /\ skipLF) \/ (b = "BS" /\ line = <<>>)
  /\ skipLF' = (skipLF /\ b # "LF")
  /\ UNCHANGED <<pc, line, msgChan, got, lossy>>

(* A control character, the LF after a CR, a backspace too many. *)
Ignore(b) ==
  /\ Read(b)
  /\ b = "NUL" \/ (b = "LF" /\ skipLF) \/ (b = "BS" /\ line = <<>>)
  /\ skipLF' = FALSE
  /\ UNCHANGED <<pc, line, msgChan, got, lossy>>

Echo(b) ==
  /\ Read(b)
  /\ b \in Letters
  /\ line' = Append(line, b)
  /\ Enqueue([msgType |-> "wmEcho", data |-> b])
  /\ lossy' = (lossy \/ Dropped \/ Len(line') > MaxInteractiveBuf)
  /\ skipLF' = FALSE
  /\ UNCHANGED <<pc, got>>

Backspace ==
  /\ Read("BS")
  /\ line # <<>>
  /\ line' = SubSeq(line, 1, Len(line) - 1)
  /\ Enqueue(Write("wmBackspace"))
  /\ lossy' = (lossy \/ Dropped)
  /\ skipLF' = FALSE
  /\ UNCHANGED <<pc, got>>

(* Enter: the line is returned. *)
Newline(b) ==
  /\ Read(b)
  /\ b = "CR" \/ (b = "LF" /\ ~ skipLF)
  /\ skipLF' = (b = "CR")
  /\ Enqueue(Write("wmNewline"))
  /\ lossy' = (lossy \/ Dropped)
  /\ got' = Append(got, line) /\ line' = <<>>
  /\ pc' = "answer"

(* What the line asks for, with an answer of at most one message. *)
Answer ==
  /\ pc = "answer"
  /\ pc' = "prompt"
  /\ \/ UNCHANGED msgChan
     \/ Enqueue(Write("wmMessage"))
  /\ UNCHANGED <<net, peer, reader, echoMode, done, writer, sends, ghosts,
                 lossy>>

(* /quit, "no", a read that fails: the handler ends with a Close. *)
EndHandler ==
  /\ pc' = "end"
  /\ done' = TRUE
  /\ UNCHANGED <<net, peer, reader, echoMode, msgChan, writer, sends, ghosts,
                 lossy>>

Quit == pc \in {"onboard", "answer"} /\ EndHandler

ReadError ==
  /\ pc \in {"onboard", "wait", "read"}
  /\ pc # "read" => scan = <<>>
  /\ ReadFails
  /\ EndHandler

-----------------------------------------------------------------------------
(* The write loop. *)

Take ==
  /\ loop = "select" /\ msgChan # <<>>
  /\ msg' = Head(msgChan) /\ msgChan' = Tail(msgChan)
  /\ loop' = "write"
  /\ UNCHANGED <<net, peer, reader, pc, echoMode, done, inputBuf, prompt,
                 sends, ghosts, lossy>>

(* What a message does to the write loop's copy of the line. *)
Tracked(m, t) ==
  CASE m.msgType = "wmMessage" -> t
    [] m.msgType = "wmPrompt" -> [buf |-> <<>>, prompt |-> TRUE]
    [] m.msgType = "wmEcho" ->
         [t EXCEPT !.buf = IF Len(@) < MaxInteractiveBuf THEN Append(@, m.data)
                                                         ELSE @]
    [] m.msgType = "wmBackspace" ->
         [t EXCEPT !.buf = IF @ = <<>> THEN @ ELSE SubSeq(@, 1, Len(@) - 1)]
    [] m.msgType = "wmNewline" -> [buf |-> <<>>, prompt |-> FALSE]

Copy == [buf |-> inputBuf, prompt |-> prompt]

(* Variant for the mutation runs: a prompt leaves the old input. *)
TrackPromptOnly ==
  LET t == Tracked(msg, Copy) IN
  /\ inputBuf' = IF msg.msgType = "wmPrompt" THEN inputBuf ELSE t.buf
  /\ prompt' = t.prompt

Track ==
  LET t == Tracked(msg, Copy) IN
  inputBuf' = t.buf /\ prompt' = t.prompt

Written ==
  /\ loop = "write"
  /\ msg' = NoMsg
  /\ UNCHANGED <<net, peer, reader, pc, echoMode, msgChan, done, sends, ghosts,
                 lossy>>

(* Before the session; an error ends the loop. *)
WriteRaw ==
  /\ ~ echoMode
  /\ Written
  /\ \/ ~ done /\ loop' = "select"
     \/ (done \/ gone) /\ loop' = "ended"
  /\ UNCHANGED <<inputBuf, prompt>>

(* In the session errors are not looked at. *)
WriteTracked ==
  /\ echoMode
  /\ Written
  /\ loop' = "select"
  /\ Track

(* Variant for the mutation runs: done is looked at after a message only. *)
StopAfterMessage ==
  /\ loop = "select" /\ done /\ msgChan # <<>>
  /\ loop' = "ended"
  /\ UNCHANGED <<net, peer, reader, pc, echoMode, msgChan, done, msg, inputBuf,
                 prompt, sends, ghosts, lossy>>

Stop ==
  /\ loop = "select" /\ done
  /\ loop' = "ended"
  /\ UNCHANGED <<net, peer, reader, pc, echoMode, msgChan, done, msg, inputBuf,
                 prompt, sends, ghosts, lossy>>

-----------------------------------------------------------------------------
Scan == ScanRead \/ AskAgain \/ (\E n \in {"wait", "greet"} : Accept(n))
          \/ Monitor
ReadLineInteractive ==
  Backspace \/ \E b \in Bytes : Ignore(b) \/ Echo(b) \/ Newline(b)
Handler == \/ Scan \/ SetEchoMode \/ SendPrompt \/ ReadLineInteractive
           \/ Answer \/ ReadError
WriteLoop == Take \/ WriteRaw \/ WriteTracked \/ Stop

Next ==
  \/ \E b \in Bytes : Type(b)
  \/ HangUp \/ Send \/ Close
  \/ Handler \/ ResetScanner \/ Quit
  \/ WriteLoop

Spec == Init /\ [][Next]_vars

(* Goroutines that can run do; a write returns once the connection is      *)
(* closed, and so does one that writes nothing.                            *)
WriteReturns ==
  /\ done \/ gone \/ msg.msgType \in {"wmEcho", "wmBackspace", "wmNewline"}
  /\ WriteRaw \/ WriteTracked

Fairness ==
  /\ WF_vars(Handler) /\ WF_vars(Take) /\ WF_vars(Stop)
  /\ WF_vars(WriteReturns)

FairSpec == Spec /\ Fairness

-----------------------------------------------------------------------------
TypeOK ==
  /\ net \in Seq(Bytes) /\ scan \in Seq(Bytes)
  /\ typed \in 0..MaxBytes /\ sends \in 0..MaxSends
  /\ pc \in {"onboard", "wait", "greet", "prompt", "read", "answer", "end"}
  /\ line \in Seq(Letters) /\ inputBuf \in Seq(Letters)
  /\ Len(inputBuf) <= MaxInteractiveBuf
  /\ msgChan \in Seq(WriteMsgs) /\ Len(msgChan) <= MsgChanSize
  /\ loop \in {"select", "write", "ended"}
  /\ msg \in WriteMsgs \cup {NoMsg} /\ (loop = "write" <=> msg # NoMsg)
  /\ gone \in BOOLEAN /\ done \in BOOLEAN /\ lossy \in BOOLEAN
  /\ skipLF \in BOOLEAN /\ echoMode \in BOOLEAN /\ prompt \in BOOLEAN
  /\ heard \in Seq(Bytes) /\ got \in Seq(Seq(Letters))

-----------------------------------------------------------------------------
(* The write loop's copy once it has seen everything that is under way. *)
Pending == (IF loop = "write" THEN <<msg>> ELSE <<>>) \o msgChan
After(t, p) ==
  LET seen[i \in 0..Len(p)] == IF i = 0 THEN t ELSE Tracked(p[i], seen[i - 1])
  IN seen[Len(p)]
Eventual == After(Copy, Pending)

(* What writeWithContinuity redraws agrees with the line being typed: with *)
(* what is under way in the channel the write loop's copy is the handler's *)
(* line, unless since the last prompt a write was dropped or the line grew *)
(* too long; and the next prompt that gets through repairs even that.      *)
InputTracked ==
  echoMode /\ ~ done /\ ~ lossy =>
    Eventual = [buf |-> line, prompt |-> (pc = "read")]

-----------------------------------------------------------------------------
(* What a user means by the bytes he types, without reading them in turn.  *)

(* Where he presses Enter: CR, LF and CR LF are one Enter each. *)
Enters(s) ==
  {i \in DOMAIN s : s[i] = "CR" \/ (s[i] = "LF" /\ ~ (i > 1 /\ s[i - 1] = "CR"))}

(* The Enter before position i, 0 if there is none. *)
LastEnter(s, i) ==
  LET before == {e \in Enters(s) : e < i} IN
  IF before = {} THEN 0 ELSE CHOOSE e \in before : \A f \in before : f <= e

(* How many bytes of a kind there are after position i and up to j. *)
Count(s, kind, i, j) == Cardinality({l \in (i + 1)..j : s[l] \in kind})

(* A character that no later backspace up to position n takes away: never  *)
(* are there more backspaces than characters after it.                     *)
Stays(s, i, n) ==
  /\ s[i] \in Letters
  /\ \A j \in (i + 1)..n : Count(s, {"BS"}, i, j) <= Count(s, Letters, i, j)

(* What stays of the bytes between the Enter before position n and n. *)
StayBefore(s, n) ==
  {i \in (LastEnter(s, n) + 1)..(n - 1) : Stays(s, i, n - 1)}

(* Numbers in their order. *)
InOrder(S) ==
  CHOOSE o \in [1..Cardinality(S) -> S] :
    \A i, j \in 1..Cardinality(S) : i < j => o[i] < o[j]

(* The text between the Enter before position n and that position. *)
TextBefore(s, n) ==
  LET order == InOrder(StayBefore(s, n))
  IN [k \in DOMAIN order |-> s[order[k]]]

(* The handler gets the lines the user means, one for each Enter however   *)
(* his terminal ends lines and wherever calls of ReadLineInteractive begin *)
(* and end, without what he took back, and the line being typed as well.   *)
LinesAsTyped ==
  LET order == InOrder(Enters(heard)) IN
  /\ got = [k \in DOMAIN order |-> TextBefore(heard, order[k])]
  /\ line = TextBefore(heard, Len(heard) + 1)

(* A peer that does not read stalls nobody: whoever has a message for him  *)
(* goes on, the handler with an answer back to reading, without the write  *)
(* loop ever returning from its write.                                     *)
SlowPeerHarmless ==
  pc \in {"greet", "prompt", "answer"} ~> pc \in {"read", "end"}

(* The write loop and the handler do not outlive the connection.           *)
ConnectionEnds == done \/ gone ~> loop = "ended" /\ pc = "end"

=============================================================================
