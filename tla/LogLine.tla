------------------------------- MODULE LogLine -------------------------------
(***************************************************************************)
(* models/message.go: a chat event, the text a client sees of it, the line *)
(* of the daily log it is written as, and the parser that reads the line   *)
(* back after a restart.                                                   *)
(*                                                                         *)
(* A text is a sequence of tokens.  Only the tokens the parser looks for   *)
(* mean anything: "@", "[", "]:", the blank, the keywords; every other     *)
(* token is a run of ordinary characters.  A user name has no blanks, but  *)
(* it may contain the rest.  A timestamp is its day: the time of day is    *)
(* never looked at again.                                                  *)
(***************************************************************************)
EXTENDS Integers, Sequences

Blank == " "
Empty == <<>>

(* The MessageTypes that are recorded, named by their log keywords. *)
MessageTypes ==
  {"CHAT", "JOIN", "LEAVE", "NAMECHANGE", "ANNOUNCE", "MOD", "SERVER"}

Message(type, day, sender, content, extra, room) ==
  [type |-> type, day |-> day, sender |-> sender, content |-> content,
   extra |-> extra, room |-> room]

-----------------------------------------------------------------------------
(* Texts. *)

(* strings.IndexByte and strings.Index: 0 where the code returns -1. *)
Index(s, token) ==
  LET found == {i \in DOMAIN s : s[i] = token} IN
  IF found = {} THEN 0 ELSE CHOOSE i \in found : \A j \in found : i <= j

Before(s, i) == SubSeq(s, 1, i - 1)
After(s, i) == SubSeq(s, i + 1, Len(s))

(* strings.TrimSpace at the end of a line; its start is the timestamp. *)
TrimRight(s) ==
  LET words == {i \in DOMAIN s : s[i] # Blank} IN
  IF words = {} THEN Empty
  ELSE SubSeq(s, 1, CHOOSE i \in words : \A j \in words : j <= i)

-----------------------------------------------------------------------------
(* What a client is shown. *)
Display(m) ==
  CASE m.type = "CHAT"       -> <<"[">> \o m.sender \o <<"]:">> \o m.content
    [] m.type = "JOIN"       -> m.sender \o <<"joined">>
    [] m.type = "LEAVE"      -> m.sender \o <<"left">>
    [] m.type = "NAMECHANGE" -> m.extra \o <<"renamed">> \o m.sender
    [] m.type = "ANNOUNCE"   -> <<"announcement">> \o m.content
    [] m.type = "MOD"        -> m.sender \o <<"was">> \o m.content
                                  \o <<"by">> \o m.extra
    [] m.type = "SERVER"     -> m.content

-----------------------------------------------------------------------------
(* Writing: the stamp, the room's tag, the keyword, the payload. *)

Payload(m) ==
  CASE m.type = "CHAT"       -> <<"[">> \o m.sender \o <<"]:">> \o m.content
    [] m.type = "JOIN"       -> m.sender
    [] m.type = "LEAVE"      -> m.sender \o <<Blank>>
                                  \o (IF m.extra = Empty THEN <<"voluntary">>
                                                         ELSE m.extra)
    [] m.type = "NAMECHANGE" -> m.extra \o <<Blank>> \o m.sender
    [] m.type = "ANNOUNCE"   -> <<"[">> \o m.extra \o <<"]:">> \o m.content
    [] m.type = "MOD"        -> m.content \o <<Blank>> \o m.sender
                                  \o <<Blank>> \o m.extra
    [] m.type = "SERVER"     -> m.content

RoomTag(m) ==
  IF m.type # "SERVER" /\ m.room # Empty
    THEN <<"@">> \o m.room \o <<Blank>> ELSE Empty

(* Variant for the mutation runs: the tag is written for chat lines only. *)
FormatChatTag(m) ==
  [day  |-> m.day,
   text |-> (IF m.type = "CHAT" THEN RoomTag(m) ELSE Empty)
              \o <<m.type, Blank>> \o Payload(m)]

FormatLogLine(m) ==
  [day |-> m.day, text |-> RoomTag(m) \o <<m.type, Blank>> \o Payload(m)]

-----------------------------------------------------------------------------
(* Reading. *)

Corrupt == [type |-> "corrupt"]

(* parseLogRoomTag: the room and where the rest begins; 0 is the error. *)
TagRoom(text) ==
  IF text[1] # "@" THEN Empty ELSE Tail(Before(text, Index(text, Blank)))
TagEnd(text) == IF text[1] # "@" THEN 1 ELSE Index(text, Blank) + 1

(* parseBracketedPayload: the name ends at the first "]:". *)
Bracketed(p) == Len(p) >= 2 /\ p[1] = "[" /\ Index(p, "]:") > 0
BracketName(p) == Tail(Before(p, Index(p, "]:")))
BracketText(p) == After(p, Index(p, "]:"))

ParseChat(p, day, room) ==
  IF Bracketed(p)
    THEN Message("CHAT", day, BracketName(p), BracketText(p), Empty, room)
    ELSE Corrupt

ParseJoin(p, day, room) == Message("JOIN", day, p, Empty, Empty, room)

ParseLeave(p, day, room) ==
  LET i == Index(p, Blank) IN
  IF i = 0 THEN Message("LEAVE", day, p, Empty, <<"voluntary">>, room)
           ELSE Message("LEAVE", day, Before(p, i), Empty, After(p, i), room)

ParseNameChange(p, day, room) ==
  LET i == Index(p, Blank) IN
  IF i = 0 THEN Corrupt
  ELSE Message("NAMECHANGE", day, After(p, i), Empty, Before(p, i), room)

ParseAnnouncement(p, day, room) ==
  IF Bracketed(p)
    THEN Message("ANNOUNCE", day, Empty, BracketText(p), BracketName(p), room)
    ELSE Corrupt

ParseModeration(p, day, room) ==
  LET i == Index(p, Blank)
      rest == After(p, i)
      j == Index(rest, Blank) IN
  IF i = 0 \/ j = 0 THEN Corrupt
  ELSE Message("MOD", day, Before(rest, j), Before(p, i), After(rest, j), room)

ParsePayload(keyword, p, day, room) ==
  CASE keyword = "CHAT"       -> ParseChat(p, day, room)
    [] keyword = "JOIN"       -> ParseJoin(p, day, room)
    [] keyword = "LEAVE"      -> ParseLeave(p, day, room)
    [] keyword = "NAMECHANGE" -> ParseNameChange(p, day, room)
    [] keyword = "ANNOUNCE"   -> ParseAnnouncement(p, day, room)
    [] keyword = "MOD"        -> ParseModeration(p, day, room)
    [] keyword = "SERVER"     -> Message("SERVER", day, Empty, p, Empty, Empty)
    [] OTHER                  -> Corrupt

ParseLogLine(line) ==
  LET text == TrimRight(line.text) IN
  IF text = Empty \/ (text[1] = "@" /\ Index(text, Blank) = 0) THEN Corrupt
  ELSE LET rest == SubSeq(text, TagEnd(text), Len(text))
           i    == Index(rest, Blank) IN
       IF rest = Empty THEN Corrupt
       ELSE IF i = 0 THEN ParsePayload(rest[1], Empty, line.day, TagRoom(text))
       ELSE ParsePayload(rest[1], After(rest, i), line.day, TagRoom(text))

=============================================================================
