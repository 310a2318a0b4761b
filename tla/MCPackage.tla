-------------------------------- MODULE MCPackage --------------------------------
(* Instances of Package for TLC. *)
EXTENDS Package

Entry(key, words, trailing) == [key |-> <<key>>, words |-> words, trailing |-> trailing]
MCName == <<"Name">>
MCUid == <<"Uid">>
MCAsked == {MCUid}

\* A process of an installed app, with a blank behind its groups; one of the
\* system, which does not fit the buffer; one with a number for its name; one with
\* a name that begins with the colon; one with an empty name.
MCFiles == {
    <<Entry("Name", <<<<"com", ":", "x">>>>, FALSE), Entry("Uid", <<<<"1", "0">>>>, FALSE),
      Entry("Groups", <<<<"1">>>>, TRUE)>>,
    <<Entry("Name", <<<<"x">>, <<"com">>>>, FALSE), Entry("Uid", <<<<"1">>>>, FALSE),
      Entry("Groups", <<<<"1">>, <<"1">>, <<"1">>>>, FALSE)>>,
    <<Entry("Name", <<<<"1">>>>, FALSE), Entry("Uid", <<<<"1", "0">>>>, FALSE)>>,
    <<Entry("Name", <<<<":", "x">>>>, FALSE), Entry("Uid", <<<<"1", "0">>>>, FALSE)>>,
    <<Entry("Name", <<>>, TRUE)>>}
MCInstalled == {<<"com">>}
Swaps == Permutations(Objects)
MCLetters == {"Name", "Uid", "Groups", "com", "x", ":"}
MCDigits == {"0", "1"}
================================================================================
