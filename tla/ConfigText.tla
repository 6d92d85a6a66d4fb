------------------------------ MODULE ConfigText ------------------------------
(***************************************************************************)
(* Whether what ruri -D and .rurienv write as text is what is read again,  *)
(* by K2v3 for ruri -c and .rurienv and by K2v for ruri -C.                *)
(*                                                                         *)
(* "refused" is the end of ruri for -c and for ruri_read_info(), which     *)
(* stop at warnings; ruri_get_ns_pid() reads ns_pid out of .rurienv        *)
(* without that, and goes on with what the parser made of the file.        *)
(***************************************************************************)
EXTENDS K2v3, K2v

\* The parser is in the text, and in an array before its end; whatever is typed into
\* the file, it never meets what its comments call impossible, and what it leaves in
\* the cache are keys with one value of their type each.
TypeOK ==
  /\ phase \in {"edit", "parse", "value", "element", "behind", "done", "cut", "refused"}
  /\ edits \in 0..MaxEdits /\ pos \in 1..Len(text) + 1
  /\ phase = "element" => pos \in begin + 1..end /\ end <= Len(text)
  /\ phase \in {"value", "element", "behind"} => begin \in 1..Len(text)
  /\ \A i, j \in DOMAIN cache : cache[i].key = cache[j].key => i = j
  /\ \A i \in DOMAIN cache :
       IF cache[i].empty THEN cache[i].val = <<>>
       ELSE cache[i].val # <<>> /\ (cache[i].type = "array" => <<>> \notin Range(cache[i].val))

Ended == {"done", "cut", "refused", "internal error"}
Values == Range(written.array) \cup {written.scalar}
Chars == UNION {Range(v) : v \in Values}

\* Nothing a reader could take for something else.
Plain == /\ Chars \cap {Quote, Slash, NL, "[", "]"} = {}
         /\ <<>> \notin Range(written.array)

Found(k) == {i \in DOMAIN cache : cache[i].key = KeyOf(k)}

Holds(k, v) ==
  \E i \in Found(k) :
    /\ cache[i].type = k /\ cache[i].empty = (v = <<>>)
    /\ ~cache[i].empty => cache[i].val = v

\* ruri -c, and whoever reads .rurienv, takes a file with plain values as it was
\* written: k2v3_parse() finds what char_array_to_k2v3() and its like wrote.  With
\* brackets and empty values, but without quotes and backslashes, what it does not
\* find it refuses: no value is changed on the way.
ReadBackOrRefused ==
  edits = 0 /\ Chars \cap {Quote, Slash, NL} = {} /\ phase \in Ended =>
    /\ Plain => phase = "done"
    /\ phase = "done" => Holds("scalar", written.scalar) /\ Holds("array", written.array)

\* So does ruri -C: k2v_get_key() finds what char_array_to_k2v3() wrote.
PlainIsCorrected ==
  Plain /\ edits = 0 =>
    /\ have_key(KeyOf("scalar"), text)
    /\ key_get_char(KeyOf("scalar"), text) = written.scalar
    /\ have_key(KeyOf("array"), text)
    /\ key_get_char_array(KeyOf("array"), text, Len(written.array)) = written.array

\* The parser goes back to the first line of a value with a comment behind it,
\* and comes to an end all the same.
ParserEnds == phase # "edit" ~> phase \in Ended

===============================================================================
