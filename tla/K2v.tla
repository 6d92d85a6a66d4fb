---------------------------------- MODULE K2v ----------------------------------
(***************************************************************************)
(* libk2v, which reads the files that ruri -C corrects, line by line:      *)
(* lines that do not look right are left out, with warnings that ruri does *)
(* not let it show, and each key is looked up in what is left.             *)
(***************************************************************************)
EXTENDS K2vText

Trimmed(s) == LET begin == First(1, Len(s), LAMBDA i : s[i] # " ")
              IN  IF begin > Len(s) THEN s ELSE SubSeq(s, begin, Len(s))
TrimmedEnd(s) == LET solid == {i \in 2..Len(s) : s[i] # " "}
                 IN  IF solid = {} THEN s ELSE SubSeq(s, 1, Max(solid))

------------------------------------------------------------------------------
(* Lines *)

\* The lines of a text, in order.  An empty text has none.
LinesOf(t) ==
  LET ends == InOrder({i \in DOMAIN t : t[i] = NL})
      count == Len(ends) + (IF t # <<>> /\ t[Len(t)] # NL THEN 1 ELSE 0)
      Begin(n) == IF n = 1 THEN 1 ELSE ends[n - 1] + 1
      End(n) == IF n > Len(ends) THEN Len(t) ELSE ends[n] - 1
  IN  [n \in 1..count |-> SubSeq(t, Begin(n), End(n))]

is_coment_line(line) ==
  \/ line = <<>>
  \/ \E i \in DOMAIN line : line[i] = "#" /\ \A j \in 1..i - 1 : line[j] = " "

remove_comment(t) ==
  LET lines == LinesOf(t)
  IN  PartsAt(lines, {n \in DOMAIN lines : ~is_coment_line(lines[n])})

\* The equals sign between key and value.
KeyEnd(line) == First(1, Len(line), LAMBDA i : Unescaped(line, 1, i, "="))

line_get_left(line) ==
  LET l == Trimmed(line) IN TrimmedEnd(SubSeq(l, 1, KeyEnd(l) - 1))

RawRight(line) == Trimmed(SubSeq(line, KeyEnd(line) + 1, Len(line)))
line_get_right(line) == correct_backslash(TrimmedEnd(RawRight(Trimmed(line))))

is_array(line) == LET v == RawRight(line) IN v # <<>> /\ v[1] = "["

------------------------------------------------------------------------------
(* What a line must look like *)

Closes(v, c) ==
  LET solid == {i \in 2..Len(v) : v[i] # " "} IN solid = {} \/ v[Max(solid)] = c

basic_lint(line) ==
  LET l == Trimmed(line)
      equals == {i \in DOMAIN l : l[i] = "="}
      v == RawRight(l)
  IN  /\ equals # {} /\ Min(equals) > 1 /\ KeyEnd(l) < Len(l)
      /\ \A i \in 1..KeyEnd(l) - 1 : ~Unescaped(l, 1, i, Quote)
      /\ \/ v[1] = Quote /\ Closes(v, Quote)
         \/ v[1] = "[" /\ Closes(v, "]")

Marks(v, chars) == {i \in DOMAIN v : v[i] \in chars /\ ~Escaped(v, 1, i)}

scalar_lint(line) == Cardinality(Marks(RawRight(line), {Quote})) = 2

Pairs(quotes) == IF quotes = {} THEN 1 ELSE Cardinality(quotes) \div 2
Before(i, quotes) == Cardinality({j \in quotes : j <= i})

\* Slip: a comma in a value counts too.
CommasAny(v, quotes) == Marks(v, {","})

Commas(v, quotes) == {i \in Marks(v, {","}) : Before(i, quotes) % 2 = 0}

\* One pair of brackets, quotes in pairs, a comma between two of them, and no two
\* quotes next to each other.
array_lint(line) ==
  LET v == RawRight(line)
      quotes == Marks(v, {Quote})
  IN  /\ Cardinality(Marks(v, {"[", "]"})) = 2
      /\ Cardinality(quotes) % 2 = 0
      /\ Cardinality(Commas(v, quotes)) = Pairs(quotes) - 1
      /\ Pairs(quotes) > 1 =>
           /\ v[2] = Quote
           /\ \A i \in quotes : Before(i, quotes) % 2 = 1 => i + 1 \notin quotes

LooksRight(line) ==
  basic_lint(line) /\ (IF is_array(line) THEN array_lint(line) ELSE scalar_lint(line))

k2v_auto_tidy(t) ==
  LET lines == remove_comment(t)
  IN  PartsAt(lines, {n \in DOMAIN lines : LooksRight(lines[n])})

------------------------------------------------------------------------------
(* Values *)

LinesWith(key, t) ==
  LET lines == k2v_auto_tidy(t)
  IN  PartsAt(lines, {n \in DOMAIN lines : line_get_left(lines[n]) = key})

have_key(key, t) == LinesWith(key, t) # <<>>

Inner(s) == SubSeq(s, 2, Len(s) - 1)

key_get_char(key, t) ==
  IF ~have_key(key, t) THEN <<>> ELSE Inner(line_get_right(LinesWith(key, t)[1]))

\* The text between the next two quotes of s; what is escaped stays as it is.
QuoteIn(s) == First(1, Len(s), LAMBDA i : s[i] = Quote)
has_current_val(s) ==
  LET open == QuoteIn(s) IN open <= Len(s) /\ (open < Len(s) => s[open + 1] # "]")

current_val(s) ==
  LET open == QuoteIn(s)
      close == First(open + 1, Len(s), LAMBDA i : Unescaped(s, open + 1, i, Quote))
  IN  SubSeq(s, open + 1, close - 1)

\* The next value begins behind the first comma from the last place between the
\* second and the third quote, and there is none when there is no such comma.
next_val(s) ==
  LET quotes == InOrder(Marks(s, {Quote}))
      last == IF Len(quotes) < 3 THEN Len(s) ELSE quotes[3] - 1
      between == {i \in quotes[2]..last : s[i] # Slash /\ ~Escaped(s, 1, i)}
      comma == First(Max(between), Len(s), LAMBDA i : s[i] = ",")
      ends == First(1, Len(s), LAMBDA i : i % 2 = 1 /\ s[i] # " ")
  IN  IF \/ Len(quotes) < 2 \/ (ends <= Len(s) /\ s[ends] = "]") \/ comma > Len(s)
      THEN <<>> ELSE SubSeq(s, comma + 1, Len(s))

array_to_str_array(a) ==
  LET from[k \in 0..Len(a)] ==
        LET s == SubSeq(a, Len(a) - k + 1, Len(a))
        IN  IF ~has_current_val(s) THEN <<>>
            ELSE <<current_val(s)>> \o from[Len(next_val(s))]
  IN  IF a \in {<<"[", "]">>, <<"[", Quote, Quote, "]">>} \/ a[1] # "[" THEN <<>>
      ELSE from[Len(a) - 1]

key_get_char_array(key, t, limit) ==
  IF ~have_key(key, t) THEN <<>>
  ELSE LET array == array_to_str_array(line_get_right(LinesWith(key, t)[1]))
       IN  SubSeq(array, 1, IF Len(array) < limit THEN Len(array) ELSE limit)

===============================================================================
