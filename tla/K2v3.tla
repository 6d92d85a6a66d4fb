--------------------------------- MODULE K2v3 ---------------------------------
(***************************************************************************)
(* libk2v3 as ruri -c and the readers of .rurienv use it: k2v3_parse()     *)
(* reads a whole file into a list of keys and values.  A warning of the    *)
(* library ends the program (k2v3_stop_at_warning() is set), so what it    *)
(* would do after one is not modelled.                                     *)
(*                                                                         *)
(* The file is one that ruri -D wrote for a scalar and an array, changed   *)
(* by hand in a few places.  conf is at pos.                               *)
(***************************************************************************)
EXTENDS K2vText

CONSTANTS Written,     \* what the file was written for: records [scalar, array]
          Edited,      \* those of them that are changed by hand
          Typed,       \* the characters a caller types
          MaxEdits     \* bound: changes to the file

ASSUME K2v3Assumption ==
  /\ MaxEdits \in Nat /\ Typed \subseteq STRING
  /\ Written \subseteq [scalar : Seq(STRING), array : Seq(Seq(STRING))]

VARIABLES
  written,    \* what the file was written for
  text,       \* the file
  edits,      \* changes so far
  phase,      \* where the parser is
  pos,        \* where it is in the text
  begin,      \* where the value begins that it reads
  end,        \* where the array ends that it reads
  node,       \* the key and the value
  cache       \* the list of keys and values

vars == <<written, text, edits, phase, pos, begin, end, node, cache>>

KeyChars == {"a", "k", "l", "n", "t", "0", "_"}
KeyOf(w) == IF w = "scalar" THEN <<"k">> ELSE <<"l">>

\* A shebang line, a scalar with a comment above it, an empty line, and an array.
File(w) ==
  k2v_add_comment(<<"#", NL>>, <<"a">>)
    \o char_to_k2v(KeyOf("scalar"), w.scalar) \o <<NL>>
    \o char_array_to_k2v(KeyOf("array"), w.array)

NoNode == [key |-> <<>>, type |-> "scalar", empty |-> FALSE, val |-> <<>>]

Init ==
  /\ written \in Written /\ text = File(written) /\ edits = 0
  /\ phase = "edit" /\ pos = 1 /\ begin = 1 /\ end = 1
  /\ node = NoNode /\ cache = <<>>

------------------------------------------------------------------------------
(* Places in the text *)

N == Len(text)
Here(chars) == pos <= N /\ text[pos] \in chars
FirstOf(from, chars) == First(from, N, LAMBDA i : text[i] \in chars)
Skip(from, last, chars) == First(from, last, LAMBDA i : text[i] \notin chars)
Line(from) == FirstOf(from, {NL})
Close(from, last, c) == First(from, last, LAMBDA i : Unescaped(text, from, i, c))

At(p) == phase = p /\ UNCHANGED <<written, text, edits>>
Stop(p) == phase' = p /\ UNCHANGED <<pos, begin, end, node, cache>>

------------------------------------------------------------------------------
(* Lines and keys *)

\* Slip: every line has a newline.
NextLineFar == IF Here({NL}) THEN pos + 1 ELSE Line(pos) + 1

\* Slip: the parser stays at an empty line.
NextLineStays == IF Here({NL}) THEN pos ELSE Min({Line(pos), N}) + 1

\* An empty line is one newline; behind a comment the last line may have none.
NextLine == IF Here({NL}) THEN pos + 1 ELSE Min({Line(pos), N}) + 1

SkipLine ==
  /\ At("parse") /\ Here({NL, "#"})
  /\ pos' = NextLine
  /\ UNCHANGED <<phase, begin, end, node, cache>>

\* Letters, digits and _ up to an equals sign.  The list is left as it is when the
\* file ends there.
get_key ==
  /\ At("parse") /\ pos <= N /\ ~Here({NL, "#"})
  /\ \E equals \in {FirstOf(pos, {"=", NL})} :
       IF \/ equals = pos \/ equals > N
          \/ ~(\A i \in pos..equals - 1 : text[i] \in KeyChars)
       THEN Stop("refused")
       ELSE IF text[equals] # "=" THEN Stop("refused")
       ELSE IF equals = N THEN Stop("cut")
       ELSE /\ node' = [NoNode EXCEPT !.key = SubSeq(text, pos, equals - 1)]
            /\ begin' = equals + 1 /\ pos' = begin' /\ phase' = "value"
            /\ UNCHANGED <<end, cache>>

------------------------------------------------------------------------------
(* get_value() *)

Got(n, p) == node' = n /\ pos' = p /\ phase' = "behind" /\ UNCHANGED <<begin, end, cache>>

\* "" and [], the latter with spaces and newlines in it.
NullScalar == Here({Quote}) /\ pos < N /\ text[pos + 1] = Quote

NullArray == /\ Here({"["})
             /\ Skip(pos + 1, N, {" ", NL}) <= N
             /\ text[Skip(pos + 1, N, {" ", NL})] = "]"

get_null ==
  /\ At("value")
  /\ \/ NullScalar /\ Got([node EXCEPT !.empty = TRUE], pos + 2)
     \/ NullArray /\ Got([node EXCEPT !.empty = TRUE, !.type = "array"],
                         Skip(pos + 1, N, {" ", NL}) + 1)

\* Up to the next quote that is not escaped, on the same line.
ScalarEnd == Close(pos + 1, N, Quote)

get_scalar ==
  /\ At("value") /\ Here({Quote}) /\ ~NullScalar
  /\ \E close \in {ScalarEnd} :
       IF close > N \/ close > Line(pos) THEN Stop("refused")
       ELSE Got([node EXCEPT !.val = SubSeq(text, pos + 1, close - 1)], close + 1)

\* An array ends at the next ] that is not escaped, in quotes or not.
get_array ==
  /\ At("value") /\ Here({"["}) /\ ~NullArray
  /\ \E close \in {Close(pos + 1, N, "]")} :
       IF close > N THEN Stop("refused")
       ELSE /\ end' = close /\ pos' = pos + 1 /\ phase' = "element"
            /\ node' = [node EXCEPT !.type = "array"]
            /\ UNCHANGED <<begin, cache>>

get_other == At("value") /\ ~Here({Quote, "["}) /\ Stop("refused")

\* Slip: an element without its second quote ends with the array.
ElementEndsAny(open, close) == close > open + 1

\* It has a second quote before the end of the array, and something in between.
ElementEnds(open, close) == close < end /\ close > open + 1

\* A quoted element that is not empty, and behind it the end of the array, or a
\* comma or semicolon with one more element behind it.
get_element ==
  /\ At("element") /\ pos < end
  /\ \E open \in {Skip(pos, end - 1, {" ", NL})} :
     \E close \in {Close(open + 1, end - 1, Quote)} :
     \E sep \in {Skip(close + 1, end - 1, {" ", NL})} :
     \E next \in {Skip(sep + 1, end - 1, {" ", NL})} :
       IF \/ text[open] # Quote \/ ~ElementEnds(open, close)
          \/ sep < end /\ (text[sep] \notin {",", ";"} \/ next >= end)
       THEN Stop("refused")
       ELSE /\ node' = [node EXCEPT !.val = Append(@, SubSeq(text, open + 1, close - 1))]
            /\ pos' = IF sep < end THEN next ELSE end
            /\ UNCHANGED <<phase, begin, end, cache>>

get_array_end == At("element") /\ pos = end /\ Got(node, end + 1)

Duplicate == \E i \in DOMAIN cache : cache[i].key = node.key

\* Behind the value there are spaces, and a comment or the end of the line.  The
\* comment ends at the first newline behind the beginning of the value.
AddToCache ==
  /\ At("behind")
  /\ \E behind \in {Skip(pos, N, {" "})} :
     \E next \in {IF behind > N THEN behind
                  ELSE IF text[behind] = "#" THEN Line(begin) ELSE behind} :
       IF next <= N /\ ~(text[next] = NL) THEN Stop("refused")
       ELSE IF node.val = <<>> /\ ~node.empty THEN Stop("internal error")
       ELSE IF Duplicate THEN Stop("refused")
       ELSE /\ pos' = next /\ phase' = "parse" /\ cache' = Append(cache, node)
            /\ UNCHANGED <<begin, end, node>>

------------------------------------------------------------------------------
(* The end of the file *)

CorrectNode(n) ==
  CASE n.empty -> n
    [] ~n.empty /\ n.type = "array" ->
         [n EXCEPT !.val = [i \in DOMAIN @ |-> correct_backslash(@[i])]]
    [] ~n.empty /\ n.type = "scalar" -> [n EXCEPT !.val = correct_backslash(@)]

Finish ==
  /\ At("parse") /\ pos > N /\ phase' = "done"
  /\ cache' = [i \in DOMAIN cache |-> CorrectNode(cache[i])]
  /\ UNCHANGED <<pos, begin, end, node>>

k2v3_parse ==
  \/ SkipLine \/ get_key \/ get_null \/ get_scalar \/ get_array \/ get_other
  \/ get_element \/ get_array_end \/ AddToCache \/ Finish

------------------------------------------------------------------------------
(* The caller *)

EditFile ==
  /\ phase = "edit" /\ edits < MaxEdits /\ written \in Edited
  /\ \E i \in DOMAIN text :
       \/ text' = RemoveAt(text, i)
       \/ \E c \in Typed : text' = InsertAt(text, i, c)
  /\ edits' = edits + 1
  /\ UNCHANGED <<written, phase, pos, begin, end, node, cache>>

OpenFile == At("edit") /\ phase' = "parse" /\ UNCHANGED <<pos, begin, end, node, cache>>

Next == EditFile \/ OpenFile \/ k2v3_parse

Spec == Init /\ [][Next]_vars /\ WF_vars(k2v3_parse)

===============================================================================
