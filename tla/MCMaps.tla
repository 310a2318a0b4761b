--------------------------------- MODULE MCMaps ---------------------------------
(* Instances of Maps for TLC. *)
EXTENDS Maps

Mapping(perm, path) == [start |-> <<"7">>, end |-> <<"8">>, perm |-> perm, offset |-> <<"7">>,
                        dev |-> <<":">>, inode |-> <<"7">>, path |-> path]

\* Three mappings in a row: a file with a blank in its path, an anonymous one and
\* a stack.
Mapped == [Mapping(<<"r", "-", "x", "p">>, <<"/data", " ", "art">>)
             EXCEPT !.start = <<"7", "8">>, !.dev = <<"8", ":">>]
Anonymous == Mapping(<<"r", "w", "-", "p">>, <<>>)
Stack == Mapping(<<"r", "w", "-", "p">>, <<"[stack", "/">>)

\* One mapping with each keyword, with none, and with each two that different
\* tests look for, under permissions that tell the tests apart.
MCPermissions == {<<"r", "w", "x", "p">>, <<"r", "w", "-", "p">>, <<"r", "-", "x", "p">>,
                  <<"-", "w", "-", "p">>, <<"-", "-", "-", "p">>}
MCPaths == {<<>>} \cup {<<k>> : k \in Keywords}
MCPairs == {"dalvik", ":.bss"} \X {"/data", "gpu", "[heap]"}
MCTyped == {<< Mapping(perm, path) >> : perm \in MCPermissions, path \in MCPaths}
             \cup {<< Mapping(<<"r", "w", "-", "p">>, path) >> : path \in MCPairs}

\* The first load leaves bytes for the second to be cut in front of.
MCFiles == << {<<>>, <<Mapping(<<"r", "w", "x", "p">>, <<>>)>>},
              {<<>>, <<Mapped, Anonymous, Stack>>} \cup MCTyped >>
MCLetters == {"r", "w", "x", "p", "-", ":", "/"} \cup Keywords
MCDigits == {"7", "8"}
================================================================================
