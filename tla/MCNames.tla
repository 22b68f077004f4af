------------------------------- MODULE MCNames -------------------------------
(* Small instances of Names: more names than types, that share entries. *)
EXTENDS Names

CONSTANTS a, b, c, d

\* All at the last entry, so that probing wraps around, or one at the first,
\* which is also the word of the type after the last, and one at the second;
\* strings that all fit, or that leave no room for the last one.
SomeSpellings ==
  LET last == 2 * MaxTypes - 1 IN
  {s \in [{a, b, c, d} -> [length : {1, NAME_STR_MAX}, home : {0, 1, last}]] :
     /\ s[a].length = 1 /\ s[b].length = 1 /\ s[c].length = s[d].length
     /\ s[a].home = last /\ s[b].home = last
     /\ <<s[c].home, s[d].home>> \in {<<last, last>>, <<0, 1>>}}

NoPairs == {}
=============================================================================
