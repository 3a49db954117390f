---------------------------- MODULE ContentLines ----------------------------
(***************************************************************************)
(* From native text to the content lines of a vCard and back: escaping     *)
(* (RCTwoWayEscape), structured values (Structured, StructuredEdit,        *)
(* RCParseParts), folding (folded in RCResourcePatch.c), unfolding and     *)
(* decoding (RCVCard.c).  A text is a sequence of characters, a wire a     *)
(* sequence of bytes; "u" is a character of three bytes, "cr" and "lf" end *)
(* lines.  The texts grow by one character at a time, as if typed.         *)
(***************************************************************************)
EXTENDS Naturals, Sequences, SequencesExt

CONSTANTS
  FirstLimit, NextLimit,  \* 75 and 74: bytes in a line, and in a continued one
  Parts,                  \* keys of the structured property
  MaxText                 \* bound: characters typed

VARIABLES
  text,  \* the native text of every key
  raw    \* a value as another client wrote it

vars == <<text, raw>>

NativeCharacters == {"a", "n", ";", ",", "\\", "lf", "cr", "u"}
RawCharacters    == {"a", "n", ";", ",", "\\", "u"}
Prefix == <<"N", ":">>

SumLengths(ts) == FoldLeft(LAMBDA n, t : n + Len(t), 0, ts)

Init == text = [k \in 1 .. Parts |-> <<>>] /\ raw = <<>>

TypeText ==
  /\ raw = <<>> /\ SumLengths(text) < MaxText
  /\ \E k \in 1 .. Parts, c \in NativeCharacters : text' = [text EXCEPT ![k] = Append(@, c)]
  /\ UNCHANGED raw

TypeRaw ==
  /\ Len(raw) < MaxText /\ SumLengths(text) <= 1
  /\ \E c \in RawCharacters : raw' = Append(raw, c)
  /\ UNCHANGED text

Next == TypeText \/ TypeRaw
Spec == Init /\ [][Next]_vars

-----------------------------------------------------------------------------
(* Native text to a value.                                                 *)

MapSeq(s, Op(_)) == FlattenSeq([i \in DOMAIN s |-> Op(s[i])])

(* "\r\n" and "\r" become "\n".                                            *)
Normalised(t) ==
  FlattenSeq([i \in DOMAIN t |->
    IF t[i] # "cr" THEN <<t[i]>> ELSE IF i < Len(t) /\ t[i + 1] = "lf" THEN <<>> ELSE <<"lf">>])

RCTwoWayEscape(t) ==
  MapSeq(Normalised(t),
         LAMBDA c : CASE c = "\\" -> <<"\\", "\\">> [] c = "lf" -> <<"\\", "n">>
                      [] c \in {";", ","} -> <<"\\", c>> [] OTHER -> <<c>>)

Joined(parts) == FlattenSeq([k \in DOMAIN parts |-> IF k = 1 THEN parts[k] ELSE <<";">> \o parts[k]])

Structured(t) == Joined([k \in DOMAIN t |-> RCTwoWayEscape(t[k])])

Bytes(t) == MapSeq(t, LAMBDA c : IF c = "u" THEN <<"e1", "e2", "e3">> ELSE <<c>>)

-----------------------------------------------------------------------------
(* A value to physical lines, and back.                                    *)

Continues(byte) == byte \in {"e2", "e3"}

(* The chunks of a line; one that would end inside a character ends before *)
(* it.                                                                     *)
Folded(line) ==
  LET chunks[pos \in 1 .. Len(line) + 1] ==
        IF pos > Len(line) THEN <<>>
        ELSE LET limit == IF pos = 1 THEN FirstLimit ELSE NextLimit
                 rest == Len(line) - pos + 1
                 starts == {m \in 1 .. limit : ~Continues(line[pos + m])}
                 n == IF rest > limit THEN CHOOSE m \in starts : \A o \in starts : o <= m ELSE rest
             IN  <<SubSeq(line, pos, pos + n - 1)>> \o chunks[pos + n]
  IN  chunks[1]

Wire(chunks) ==
  FlattenSeq([i \in DOMAIN chunks |-> (IF i = 1 THEN <<>> ELSE <<"sp">>) \o chunks[i] \o <<"cr", "lf">>])

(* Faulty variant: the space that continues a line is kept.                *)
UnfoldKeepsSpace(b) ==
  LET ends(p) == {i \in p .. Len(b) : b[i] \in {"cr", "lf"}}
      from[p \in 1 .. Len(b) + 1] ==
        IF p > Len(b) THEN <<>>
        ELSE LET e == IF ends(p) = {} THEN Len(b) + 1 ELSE CHOOSE i \in ends(p) : \A j \in ends(p) : i <= j
                 c == IF e <= Len(b) /\ b[e] = "cr" THEN e + 1 ELSE e
                 q == IF c <= Len(b) /\ b[c] = "lf" THEN c + 1 ELSE c
             IN  SubSeq(b, p, e - 1) \o
                 IF q <= Len(b) /\ b[q] = "sp" THEN from[q] ELSE <<"lf">> \o from[q]
  IN  from[1]

RCUnfold(b) ==
  LET ends(p) == {i \in p .. Len(b) : b[i] \in {"cr", "lf"}}
      from[p \in 1 .. Len(b) + 1] ==
        IF p > Len(b) THEN <<>>
        ELSE LET e == IF ends(p) = {} THEN Len(b) + 1 ELSE CHOOSE i \in ends(p) : \A j \in ends(p) : i <= j
                 c == IF e <= Len(b) /\ b[e] = "cr" THEN e + 1 ELSE e
                 q == IF c <= Len(b) /\ b[c] = "lf" THEN c + 1 ELSE c
             IN  SubSeq(b, p, e - 1) \o
                 IF q <= Len(b) /\ b[q] = "sp" THEN from[q + 1] ELSE <<"lf">> \o from[q]
  IN  from[1]

(* libvc: the value of the line.                                           *)
ValueOf(line) == SubSeq(line, Len(Prefix) + 1, Len(line) - 1)

-----------------------------------------------------------------------------
(* A value to its parts.                                                   *)

(* A backslash at the end stands for itself.                               *)
RCDecodeValue(value) ==
  LET step(s, c) ==
        IF s.escaped THEN [out |-> Append(s.out, IF c = "n" THEN "lf" ELSE c), escaped |-> FALSE]
        ELSE IF c = "\\" THEN [s EXCEPT !.escaped = TRUE] ELSE [s EXCEPT !.out = Append(@, c)]
      end == FoldLeft(step, [out |-> <<>>, escaped |-> FALSE], value)
  IN  IF end.escaped THEN Append(end.out, "\\") ELSE end.out

(* The raw parts between the separators that are not escaped.              *)
SplitParts(value) ==
  LET step(s, c) ==
        IF c = ";" /\ ~s.escaped THEN [parts |-> Append(s.parts, <<>>), escaped |-> FALSE]
        ELSE [parts |-> [s.parts EXCEPT ![Len(s.parts)] = Append(@, c)],
              escaped |-> ~s.escaped /\ c = "\\"]
  IN  FoldLeft(step, [parts |-> <<<<>>>>, escaped |-> FALSE], value).parts

RCParseParts(value) == LET parts == SplitParts(value) IN [k \in DOMAIN parts |-> RCDecodeValue(parts[k])]

-----------------------------------------------------------------------------

(* What is uploaded is what is read back: escaping, joining, folding,      *)
(* unfolding, splitting and decoding give the native text of every key,    *)
(* with its line ends as "\n" (RCTwoWayEncodeFields relies on it).         *)
WireRoundTrip ==
  RCParseParts(ValueOf(RCUnfold(Wire(Folded(Prefix \o Bytes(Structured(text)))))))
    = [k \in DOMAIN text |-> Bytes(Normalised(text[k]))]

=============================================================================
