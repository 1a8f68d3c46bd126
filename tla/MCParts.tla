------------------------------ MODULE MCParts ------------------------------
(* An instance of each part. *)
EXTENDS PartProps, TLC

CONSTANTS a, b, c, d, e, A, B

\* Stream ids of NXDN and P25: c on A, d and e on B.
MCLinked == (c :> A) @@ (d :> B) @@ (e :> B)

\* White and black list.
Item(stem, wild) == [kind |-> "item", stem |-> stem, wild |-> wild]
Other(of) == [kind |-> of, stem |-> <<>>, wild |-> FALSE]
MCCallers == {<<"a", "b">>, <<"s", "b">>, <<"k", "b">>}
MCVersions ==
  [white |-> {[lines |-> <<Item(<<"a">>, TRUE), Other("long"), Item(<<"s", "b">>, FALSE)>>,
               ended |-> TRUE],
              [lines |-> <<Other("comment"), Item(<<"a", "b">>, FALSE),
                           Item(<<"k", "b">>, FALSE), Item(<<"s", "b">>, FALSE)>>,
               ended |-> FALSE]},
   black |-> {[lines |-> <<Item(<<"k", "b">>, FALSE)>>, ended |-> TRUE],
              [lines |-> <<Item(<<"a">>, TRUE)>>, ended |-> TRUE]}]

\* Directories: a page without text, one without lines, and two others.
Content(bytes, lines, ended) == [bytes |-> bytes, lines |-> lines, ended |-> ended]
MCContents ==
  {Content(FALSE, <<>>, TRUE), Content(TRUE, <<>>, TRUE),
   Content(TRUE, <<<<1, "a">>, <<2, "b">>, <<2, "a">>>>, TRUE),
   Content(TRUE, <<<<3, "b">>, <<1, "b">>>>, FALSE)}

\* Start and stop: two protocols, a module without transcoder and one with.
MCProtocols == <<"p", "q">>
MCConfigured == <<"A", "B">>

\* Wires-X: all modules, and lists that start on each side of a page and of the end.
MCStarts == {0, 6, 7, 20, 25, 26, 27}

\* A callsign: two names the directories have, one not their kind, three that
\* end in a module or have no room for it, and addresses of each kind.
N7A == <<"N", "7", "A">>
UR == <<"U", "R", "F", "-", "3", "0", "7", " ", "A">>
Long == <<"N", "7", "A", "-", "7", "u", "B", "N">>
AddressOf(s) == [i \in 1..9 |-> IF i <= Len(s) THEN s[i] ELSE " "]
Of8(s) == [i \in 1..8 |-> IF i <= Len(s) THEN s[i] ELSE " "]
Book(known, back) == [names |-> known, ids |-> back]
MCDirectories ==
  LET one == Book((1 :> Of8(N7A)) @@ (2 :> Of8(N7A)), (Of8(N7A) :> 2))
      two == Book((1 :> Of8(<<"B", "7", "A">>)), (Of8(<<"B", "7", "A">>) :> 1))
  IN  {[dmr |-> one, nxdn |-> two], [dmr |-> two, nxdn |-> one]}
MCSpellings == {N7A, UR, Long}
MCAddresses == {<<>>, AddressOf(N7A), AddressOf(UR), AddressOf(Long)}
MCPatches == {<<"N", "R", "F">>}
MCReflector == <<"U", "R", "F", "3", "0", "7">>
=============================================================================
