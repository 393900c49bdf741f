------------------------------ MODULE UsageScan ------------------------------
(***************************************************************************)
(* How token usage is found in a worker's response: parse_usage_json       *)
(* (shared/http/mod.rs) on a whole body, and UsageLineScanner              *)
(* (servers/worker/server.rs) on the chunks of a stream.                   *)
(*                                                                         *)
(* A text is a sequence of pieces.  A usage record n is its two halves,    *)
(* <<n, "open">> and <<n, "close">>: what is between may be cut by a chunk *)
(* and, JSON being free to, by a newline.  Any other text is Filler.       *)
(***************************************************************************)
EXTENDS Integers, Sequences

CONSTANT NoUsage  \* Option::None

Newline == <<0, "newline">>
Filler  == <<0, "filler">>
Record(n) == <<<<n, "open">>, <<n, "close">>>>

\* parse_usage_value: the record a text is, if it is one and nothing else.
ParseValue(text) ==
  LET pieces == SelectSeq(text, LAMBDA piece : piece # Newline)
  IN  IF Len(pieces) = 2 /\ pieces = Record(pieces[1][1])
        THEN pieces[1][1] ELSE NoUsage

\* Where the text has a record on a line of its own.
UsageLines(text) ==
  {i \in 1..Len(text) - 1 :
     /\ SubSeq(text, i, i + 1) = Record(text[i][1])
     /\ i > 1 => text[i - 1] = Newline
     /\ i + 2 <= Len(text) => text[i + 2] = Newline}

Latest(positions) == CHOOSE i \in positions : \A j \in positions : j <= i

\* The usage on the last line of a text that has one.
LastUsage(text) ==
  IF UsageLines(text) = {} THEN NoUsage ELSE text[Latest(UsageLines(text))][1]

OrElse(usage, otherwise) == IF usage # NoUsage THEN usage ELSE otherwise

\* parse_usage_json
Parse(text) == OrElse(ParseValue(text), LastUsage(text))

EmptyScan == [pending |-> <<>>, observed |-> NoUsage]

\* What a mistake would look like: each chunk is looked at by itself.
Push_BugForgetsPending(scan, chunk) ==
  [pending |-> <<>>, observed |-> OrElse(Parse(chunk), scan.observed)]

\* UsageLineScanner::push: the chunk by itself is observed first, then each
\* line it completes.
Push(scan, chunk) ==
  LET text == scan.pending \o chunk
      end  == Latest({0} \cup {i \in 1..Len(text) : text[i] = Newline})
  IN  [pending  |-> SubSeq(text, end + 1, Len(text)),
       observed |-> OrElse(LastUsage(SubSeq(text, 1, end)),
                           OrElse(Parse(chunk), scan.observed))]

\* UsageLineScanner::finish
Finish(scan) == OrElse(Parse(scan.pending), scan.observed)

\* Each record of the text has a line of its own.
OwnLines(text) ==
  \A i \in 1..Len(text) : text[i][2] = "open" => i \in UsageLines(text)

=============================================================================
