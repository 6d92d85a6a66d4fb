----------------------------- MODULE MCConfigText -----------------------------
(***************************************************************************)
(* Instances of ConfigText for TLC.                                        *)
(***************************************************************************)
EXTENDS ConfigText

\* Values of up to two characters, of which one or two are in an array.
Some  == {"a", " ", ",", "#", "=", "[", "]", Quote, Slash, "n"}
Short == {<<>>} \cup {<<c>> : c \in Some} \cup {<<c, d>> : c, d \in Some}
MCWritten ==
  [scalar : Short, array : {<<>>, <<<<"a">>, <<",">>>>}]
    \cup [scalar : {<<"a">>}, array : {<<v>> : v \in Short} \cup {<<v, <<"a">>>> : v \in Short}
                                           \cup {<<<<"a", "]", "#">>>>}]

\* A file that callers change.
MCEdited == {[scalar |-> <<"a">>, array |-> <<<<"n">>, <<"a">>>>]}
MCBoth   == MCWritten \cup MCEdited
MCTyped  == {"a", " ", ",", "#", "=", "[", "]", Quote, Slash, NL}

===============================================================================
