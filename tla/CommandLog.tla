------------------------------- MODULE CommandLog -------------------------------
(***************************************************************************)
(* The command log: commandLineTracker follows the line the target shows,   *)
(* from output cut anywhere, and commandLogRecorder makes a log entry of it *)
(* and of the keys typed whenever Enter goes to the target.                 *)
(* Output is named by what the code tells apart: "(" is any other byte from *)
(* 0x21 to 0x3f, "$" the end of a prompt, "$ ", which loses its space at    *)
(* the end of a line, and "h" the u@h: before it.  Parameters have few      *)
(* digits.  The recorder has no lock although both pumps of the bridge call *)
(* it; here a call of one happens before or after one of the other.         *)
(***************************************************************************)
EXTENDS Integers, Sequences

CONSTANTS
  Printed,   \* bytes the target sends while the tracker is looked at
  Shown,     \* bytes it sends while commands are typed
  Keys,      \* keys typed, but for Enter
  MaxEcho,   \* bound: bytes sent before Enter
  MaxTyped,  \* bound: keys typed before Enter
  MaxCommands  \* bound: commands entered

VARIABLES
  start,     \* what the target had sent when we began to look, as one chunk
  sent,      \* everything it has sent since, up to Enter
  tracker,   \* commandLineTracker
  lastEcho,  \* lastEchoLine
  typed,     \* buf
  entries    \* history: of each Enter what was typed, what was sent and what was logged

commandVars == <<start, sent, tracker, lastEcho, typed, entries>>

Controls == {"ESC", "CR", "BEL", "BS"}
Digits == {"0", "1", "2"}

\* A key is one byte, not a prompt; RecordInput skips the control bytes, and DEL is not
\* among the keys either.
ASSUME CommandAssumption == MaxEcho \in Nat /\ Keys \cap (Controls \cup {"h", "$"}) = {}

Value(d) == CASE d = "0" -> 0 [] d = "1" -> 1 [] d = "2" -> 2
isCSIFinal(b) == b \notin Controls \cup Digits \cup {"SEMICOLON", "(", "$"}

Blank == [line |-> << >>, col |-> 0, escBuf |-> << >>]
Before(t) == SubSeq(t.line, 1, t.col)
From(t, i) == SubSeq(t.line, i + 1, Len(t.line))   \* t.line[i:]

FirstOf(places, otherwise) ==
  IF places = {} THEN otherwise ELSE CHOOSE j \in places : \A k \in places : j =< k
LastOf(places, otherwise) ==
  IF places = {} THEN otherwise ELSE CHOOSE j \in places : \A k \in places : j >= k

-------------------------------------------------------------------------------
(* commandLineTracker.                                                       *)

\* The number that the first digits make.
NumberUpTo(digits) ==
  LET number[k \in 0 .. Len(digits)] == IF k = 0 THEN 0 ELSE 10 * number[k - 1] + Value(digits[k])
  IN  number

csiParam(params, default) ==
  LET head == SubSeq(params, 1, FirstOf({k \in 1 .. Len(params) : params[k] = "SEMICOLON"}, Len(params) + 1) - 1)
      n == NumberUpTo(head)[Len(head)]
  IN  IF (\A k \in 1 .. Len(head) : head[k] \in Digits) /\ n > 0 THEN n ELSE default

Least(m, n) == IF m < n THEN m ELSE n

applyCSI(t, cmd, params) ==
  LET n == csiParam(params, 1) IN
  CASE cmd = "K" -> CASE csiParam(params, 0) = 1 -> [t EXCEPT !.line = From(t, t.col), !.col = 0]
                      [] csiParam(params, 0) = 2 -> Blank
                      [] OTHER -> [t EXCEPT !.line = Before(t)]
    [] cmd = "G" -> [t EXCEPT !.col = Least(n - 1, Len(t.line))]
    [] cmd = "C" -> [t EXCEPT !.col = Least(t.col + n, Len(t.line))]
    [] cmd = "D" -> [t EXCEPT !.col = IF t.col > n THEN t.col - n ELSE 0]
    [] cmd = "P" -> [t EXCEPT !.line = Before(t) \o From(t, Least(t.col + n, Len(t.line)))]
    [] cmd = "@" -> [t EXCEPT !.line = Before(t) \o [i \in 1 .. n |-> "NUL"] \o From(t, t.col)]
    [] OTHER -> t

insertByte(t, b) ==
  IF t.col >= Len(t.line) THEN [t EXCEPT !.line = Append(@, b), !.col = Len(t.line) + 1]
  ELSE [t EXCEPT !.line[t.col + 1] = b, !.col = @ + 1]

\* Backspace at the start of the line steps in front of it.
feedByteFault(t, b) ==
  CASE b = "CR"  -> [t EXCEPT !.line = << >>, !.col = 0]
    [] b = "BEL" -> t
    [] b = "BS"  -> [t EXCEPT !.line = SubSeq(t.line, 1, t.col - 1) \o From(t, t.col), !.col = @ - 1]
    [] OTHER     -> insertByte(t, b)

feedByte(t, b) ==
  CASE b = "CR"  -> [t EXCEPT !.line = << >>, !.col = 0]
    [] b = "BEL" -> t
    [] b = "BS"  -> IF t.col = 0 THEN t
                    ELSE [t EXCEPT !.line = SubSeq(t.line, 1, t.col - 1) \o From(t, t.col), !.col = @ - 1]
    [] OTHER     -> insertByte(t, b)

\* consumeEscape: the index of the last byte of the sequence that starts at i; past
\* the end when it is not complete.  One that is neither OSC, CSI nor ESC and a final
\* byte never is.
OSCEnds(data, i) ==
  {j \in i + 2 .. Len(data) :
     data[j] = "BEL" \/ (j > i + 2 /\ data[j] = "BACKSLASH" /\ data[j - 1] = "ESC")}
CSIFinals(data, i) == {j \in i + 2 .. Len(data) : isCSIFinal(data[j])}

escapeEnd(data, i) ==
  CASE i = Len(data) -> i + 1
    [] i < Len(data) /\ data[i + 1] = "]" -> FirstOf(OSCEnds(data, i), Len(data) + 1)
    [] i < Len(data) /\ data[i + 1] = "[" -> FirstOf(CSIFinals(data, i), Len(data) + 1)
    [] OTHER -> IF isCSIFinal(data[i + 1]) THEN i + 1 ELSE Len(data) + 1

elementEnd(data, i) == IF data[i] = "ESC" THEN escapeEnd(data, i) ELSE i

\* One element of the output: a byte or a whole sequence.
apply(t, e) ==
  CASE e[1] # "ESC" -> feedByte(t, e[1])
    [] e[1] = "ESC" /\ e[2] = "[" -> applyCSI(t, e[Len(e)], SubSeq(e, 3, Len(e) - 1))
    [] OTHER -> t

\* A sequence cut by the end of the chunk is forgotten.
unfinishedFault(data, i) == << >>

unfinished(data, i) == SubSeq(data, i, Len(data))

\* The loop of feed: where it is after k elements, and the tracker.
LoopAt(t, data) ==
  LET iteration[k \in 0 .. Len(data)] ==
        IF k = 0 THEN [i |-> 1, t |-> t]
        ELSE LET l == iteration[k - 1]
                 e == elementEnd(data, l.i)
             IN  IF l.i > Len(data) \/ e > Len(data) THEN l
                 ELSE [i |-> e + 1, t |-> apply(l.t, SubSeq(data, l.i, e))]
  IN  iteration

feed(t, p) ==
  LET data == t.escBuf \o p
      l == LoopAt([t EXCEPT !.escBuf = << >>], data)[Len(data)]
  IN  [l.t EXCEPT !.escBuf = unfinished(data, l.i)]

-------------------------------------------------------------------------------
(* commandLogRecorder.                                                       *)

\* What follows the last prompt; a prompt at the very end has lost its space.
stripShellPrompt(s) ==
  SubSeq(s, LastOf({i \in 1 .. Len(s) - 1 : s[i] = "$"}, 0) + 1, Len(s))

isNoiseCommandLogLine(s) ==
  \/ s = << >>
  \/ {"h", "$"} \subseteq {s[i] : i \in 1 .. Len(s)} /\ stripShellPrompt(s) \in {<< >>, s}

\* LastIndex: where the last occurrence of part starts, 0 if there is none.
LastIndex(s, part) ==
  LastOf({i \in 1 .. Len(s) - Len(part) + 1 : SubSeq(s, i, i + Len(part) - 1) = part}, 0)

\* len(s): "h" has four bytes and a prompt inside the line two.
ByteLen(s) ==
  LET bytes[i \in 0 .. Len(s)] ==
        IF i = 0 THEN 0
        ELSE bytes[i - 1] + CASE s[i] = "h" -> 4 [] s[i] = "$" /\ i < Len(s) -> 2 [] OTHER -> 1
  IN  bytes[Len(s)]

NoNoise(s) == IF isNoiseCommandLogLine(s) THEN << >> ELSE s

\* The echo is preferred with its prompt, where it holds what was typed.
mergeCommandLineFault(stdin, echo) ==
  CASE echo # << >> /\ LastIndex(echo, stdin) > 0 -> NoNoise(echo)
    [] echo = << >> -> << >>
    [] OTHER -> NoNoise(stdin)

mergeCommandLine(stdin, echo) ==
  CASE echo = << >> -> << >>
    [] echo # << >> /\ stdin = << >> -> NoNoise(stripShellPrompt(echo))
    [] stdin # << >> /\ LastIndex(echo, stdin) > 0 ->
         NoNoise(SubSeq(echo, LastIndex(echo, stdin), Len(echo)))
    [] stdin # << >> /\ LastIndex(echo, stdin) = 0 /\ ByteLen(echo) >= ByteLen(stdin) ->
         IF isNoiseCommandLogLine(stripShellPrompt(echo)) THEN NoNoise(echo) ELSE stripShellPrompt(echo)
    [] OTHER -> NoNoise(stdin)

\* The line is empty, or has two bytes and the cursor between them.
CommandInit ==
  /\ start \in {<< >>, <<"x", "x", "ESC", "[", "D">>}
  /\ sent = << >>
  /\ tracker = feed(Blank, start)
  /\ lastEcho = tracker.line
  /\ typed = << >>
  /\ entries = << >>

recordStdout(p) ==
  /\ sent' = sent \o p
  /\ tracker' = feed(tracker, p)
  /\ lastEcho' = IF tracker'.line # << >> THEN tracker'.line ELSE lastEcho
  /\ UNCHANGED <<start, typed, entries>>

RecordKey(k) ==
  /\ typed' = Append(typed, k)
  /\ UNCHANGED <<start, sent, tracker, lastEcho, entries>>

flushLine ==
  LET echo == IF tracker.line = << >> THEN lastEcho ELSE tracker.line
      line == NoNoise(mergeCommandLine(typed, echo))
  IN /\ entries' = Append(entries, [typed |-> typed, sent |-> start \o sent, logged |-> line])
     /\ start' = << >>
     /\ sent' = << >>
     /\ tracker' = Blank
     /\ lastEcho' = << >>
     /\ typed' = << >>

Cuts(octets, n) == UNION {[1 .. m -> octets] : m \in 1 .. n}

\* Output alone, of any bytes.
TrackerNext == \E p \in Cuts(Printed, MaxEcho - Len(sent)) : recordStdout(p)

\* Commands: what is shown and what is typed come in any order.
RecorderNext ==
  /\ Len(entries) < MaxCommands
  /\ \/ \E p \in Cuts(Shown, Least(2, MaxEcho - Len(sent))) : recordStdout(p)
     \/ Len(typed) < MaxTyped /\ \E k \in Keys : RecordKey(k)
     \/ flushLine

CommandNext == TrackerNext \/ RecorderNext

CommandSpec == CommandInit /\ [][CommandNext]_commandVars

-------------------------------------------------------------------------------
(* The reference: a terminal that takes one byte at a time.                  *)

TerminalStep(s, b) ==
  CASE s.mode = "text" -> IF b = "ESC" THEN [s EXCEPT !.mode = "ESC"] ELSE [s EXCEPT !.t = feedByte(@, b)]
    [] s.mode = "ESC" -> CASE b = "[" -> [s EXCEPT !.mode = "CSI", !.params = << >>]
                           [] b = "]" -> [s EXCEPT !.mode = "OSC"]
                           [] OTHER -> [s EXCEPT !.mode = IF isCSIFinal(b) THEN "text" ELSE "stuck"]
    [] s.mode = "CSI" -> IF isCSIFinal(b) THEN [s EXCEPT !.mode = "text", !.t = applyCSI(@, b, s.params)]
                         ELSE [s EXCEPT !.params = Append(@, b)]
    [] s.mode \in {"OSC", "OSC_ESC"} ->
         [s EXCEPT !.mode = CASE b = "BEL" \/ (b = "BACKSLASH" /\ s.mode = "OSC_ESC") -> "text"
                              [] b = "ESC" -> "OSC_ESC"
                              [] OTHER -> "OSC"]
    [] s.mode = "stuck" -> s

\* The terminal after each byte of the output, and after all of it.
TerminalUpTo(s) ==
  LET terminal[n \in 0 .. Len(s)] ==
        IF n = 0 THEN [mode |-> "text", params |-> << >>, t |-> Blank]
        ELSE TerminalStep(terminal[n - 1], s[n])
  IN  terminal
Terminal(s) == TerminalUpTo(s)[Len(s)].t

\* However the output is cut into reads, inside a sequence too, the tracker has the
\* line and the cursor that a terminal fed byte by byte has, and the cursor is in the
\* line, where the next byte is written by index.
EchoFollowed ==
  /\ tracker.line = Terminal(start \o sent).line /\ tracker.col = Terminal(start \o sent).col
  /\ tracker.col \in 0 .. Len(tracker.line)

\* A command that is shown as it was typed, with or without a prompt before it, is
\* logged as it was typed.
CommandsLogged ==
  \A i \in 1 .. Len(entries) :
    entries[i].typed # << >> /\ entries[i].sent \in {entries[i].typed, <<"h", "$">> \o entries[i].typed}
    => entries[i].logged = entries[i].typed

\* The command log follows what a user types and sees.
CommandLogSound == EchoFollowed /\ CommandsLogged

===============================================================================
