------------------------------- MODULE K2vText -------------------------------
(***************************************************************************)
(* The text of config files: what the two libraries that read them, K2v3   *)
(* (ruri -c and .rurienv) and K2v (ruri -C), have in common, and the       *)
(* writer.                                                                 *)
(*                                                                         *)
(* A text is a sequence of characters, each a string of length one.        *)
(***************************************************************************)
EXTENDS Integers, Sequences, FiniteSetsExt, SequencesExt

NL    == "\n"
Quote == "\""
Slash == "\\"

\* The first position from which on to which the text has a character that is
\* wanted; Last + 1 when there is none.
First(from, last, Wanted(_)) ==
  IF from > last THEN last + 1
  ELSE CHOOSE i \in from..last + 1 :
         (i = last + 1 \/ Wanted(i)) /\ \A j \in from..i - 1 : ~Wanted(j)

\* A set of positions, in order.
InOrder(S) == [n \in 1..Cardinality(S) |->
                 CHOOSE i \in S : Cardinality({j \in S : j < i}) = n - 1]

\* What a sequence has at these positions.
PartsAt(s, S) == LET at == InOrder(S) IN [n \in DOMAIN at |-> s[at[n]]]

\* Whether a scan that began at from meets the character at i as an escaped one:
\* the backslashes before it are odd in number.
Escaped(t, from, i) ==
  IF i = from \/ t[i - 1] # Slash THEN FALSE
  ELSE LET begin == CHOOSE k \in from..i - 1 : /\ k = from \/ t[k - 1] # Slash
                                               /\ \A j \in k..i - 1 : t[j] = Slash
       IN  (i - begin) % 2 = 1

Unescaped(t, from, i, c) == t[i] = c /\ ~Escaped(t, from, i)

------------------------------------------------------------------------------
(* correct_backslash(), the same in both libraries: a backslash goes, unless what
   it escapes means something to a shell. *)

Kept == {"n", "t", "r", Quote}

correct_backslash(s) ==
  LET gone == {i \in 1..Len(s) - 1 : Unescaped(s, 1, i, Slash) /\ s[i + 1] \notin Kept}
  IN  PartsAt(s, DOMAIN s \ gone)

------------------------------------------------------------------------------
(* The writer.  It quotes and does not escape, and writes NULL as an empty text. *)

Quoted(s) == <<Quote>> \o s \o <<Quote>>

char_to_k2v(key, val) ==
  key \o <<"=">> \o Quoted(val) \o <<NL>>

char_array_to_k2v(key, val) ==
  key \o <<"=", "[">>
      \o FlattenSeq([i \in DOMAIN val |->
           IF i = Len(val) THEN Quoted(val[i]) ELSE Quoted(val[i]) \o <<",">>])
      \o <<"]", NL>>

k2v_add_comment(buf, comment) == buf \o <<"#", " ">> \o comment \o <<NL>>

===============================================================================
