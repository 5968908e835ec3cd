------------------------------- MODULE TelnetIac -------------------------------
(***************************************************************************)
(* The Telnet filter of telnetproxy: iacStream.Filter takes the target's    *)
(* stream in the chunks TCP happens to deliver, strips the commands,         *)
(* answers the negotiations and keeps an unfinished command for next time.   *)
(***************************************************************************)
EXTENDS Integers, Sequences

CONSTANTS
  Octets,     \* the bytes the target sends
  MaxStream   \* bound: their number

VARIABLES
  fed,       \* everything read so far
  pending,   \* the unfinished command kept by iacStream
  text,      \* what went on to the terminal
  answers    \* what was written back

telnetVars == <<fed, pending, text, answers>>

Negotiations == {"DO", "DONT", "WILL", "WONT"}
Supported == {"SGA", "NAWS"}   \* options the client offers; it also lets the target echo

\* negotiateReply, and the window size that replyTo adds to an agreed NAWS.
negotiateReply(cmd, opt) ==
  LET verb == CASE cmd = "DO"   -> IF opt \in Supported THEN "WILL" ELSE "WONT"
                [] cmd = "DONT" -> "WONT"
                [] cmd = "WILL" -> IF opt \in {"ECHO", "SGA"} THEN "DO" ELSE "DONT"
                [] cmd = "WONT" -> "DONT"
  IN  IF verb = "WILL" /\ opt = "NAWS" THEN <<<<verb, opt>>, <<"SIZE">>>> ELSE <<<<verb, opt>>>>

\* Where the subnegotiation whose payload starts at i ends; past the end if it does not.
AfterSE(b, i) ==
  LET ends == {k \in i .. Len(b) - 1 : b[k] = "IAC" /\ b[k + 1] = "SE"}
  IN  IF ends = {} THEN Len(b) + 1 ELSE CHOOSE k \in {e + 2 : e \in ends} : \A e \in ends : k <= e + 2

Nothing(b, i) == [out |-> << >>, replies |-> << >>, rest |-> SubSeq(b, i, Len(b))]

\* A negotiation cut before its option is dropped.
CutFault(b, i) == [Nothing(b, i) EXCEPT !.rest = << >>]

\* The command at i is not complete: it is kept whole.
Cut(b, i) == Nothing(b, i)

\* What the loop makes of the buffer from each place on.  A subnegotiation that ends
\* with the buffer is kept too, and parsed again.
FilteredFrom(b) ==
  LET From[i \in 1 .. Len(b) + 1] ==
        CASE i > Len(b)       -> Nothing(b, i)
          [] i <= Len(b) /\ b[i] # "IAC" -> [From[i + 1] EXCEPT !.out = <<b[i]>> \o @]
          [] i = Len(b) /\ b[i] = "IAC"  -> Cut(b, i)
          [] i < Len(b) /\ b[i] = "IAC"  ->
               CASE b[i + 1] = "IAC" -> [From[i + 2] EXCEPT !.out = <<"IAC">> \o @]
                 [] b[i + 1] \in Negotiations ->
                      IF i + 2 > Len(b) THEN Cut(b, i)
                      ELSE [From[i + 3] EXCEPT !.replies = negotiateReply(b[i + 1], b[i + 2]) \o @]
                 [] b[i + 1] = "SB" ->
                      IF AfterSE(b, i + 2) > Len(b) THEN Cut(b, i) ELSE From[AfterSE(b, i + 2)]
                 [] OTHER -> From[i + 2]
  IN  From

filterIACBytes(b) == FilteredFrom(b)[1]

TelnetInit == fed = << >> /\ pending = << >> /\ text = << >> /\ answers = << >>

\* One read of runOutputPump.
Filter(chunk) ==
  LET r == filterIACBytes(pending \o chunk) IN
  /\ fed' = fed \o chunk
  /\ pending' = r.rest
  /\ text' = text \o r.out
  /\ answers' = answers \o r.replies

TelnetNext == \E n \in 1 .. MaxStream - Len(fed) : \E chunk \in [1 .. n -> Octets] : Filter(chunk)

TelnetSpec == TelnetInit /\ [][TelnetNext]_telnetVars

-------------------------------------------------------------------------------
(* The reference: a decoder that takes one byte at a time.                   *)

DecodeStep(d, octet) ==
  CASE d.mode = "text" -> IF octet = "IAC" THEN [d EXCEPT !.mode = "IAC"]
                          ELSE [d EXCEPT !.out = Append(@, octet)]
    [] d.mode = "IAC"  ->
         CASE octet = "IAC" -> [d EXCEPT !.mode = "text", !.out = Append(@, "IAC")]
           [] octet \in Negotiations \cup {"SB"} -> [d EXCEPT !.mode = octet]
           [] OTHER -> [d EXCEPT !.mode = "text"]
    [] d.mode \in Negotiations ->
         [d EXCEPT !.mode = "text", !.replies = @ \o negotiateReply(d.mode, octet)]
    [] d.mode = "SB"   -> IF octet = "IAC" THEN [d EXCEPT !.mode = "SB IAC"] ELSE d
    [] d.mode = "SB IAC" -> [d EXCEPT !.mode = CASE octet = "SE"  -> "text"
                                                 [] octet = "IAC" -> "SB IAC"
                                                 [] OTHER         -> "SB"]

\* The decoder after each byte of the stream, and after all of it.
DecodedUpTo(s) ==
  LET decoder[n \in 0 .. Len(s)] ==
        IF n = 0 THEN [mode |-> "text", out |-> << >>, replies |-> << >>]
        ELSE DecodeStep(decoder[n - 1], s[n])
  IN  decoder
Decoded(s) == DecodedUpTo(s)[Len(s)]

\* However TCP cuts the stream, the terminal shows and the target is answered
\* what a decoder of single bytes would: no command leaks into the text, none is
\* lost or answered twice at a boundary.
SplitIrrelevant ==
  /\ text = Decoded(fed).out
  /\ answers = Decoded(fed).replies

===============================================================================
