------------------------------- MODULE MemoryType -------------------------------
(***************************************************************************)
(* memory_type_parse (src/parse_maps.cpp): the type of a map entry, from its *)
(* permissions and the keywords in its path.  An entry is here the number of  *)
(* its permissions, the four bytes that its tests of permissions look at, and  *)
(* its path.  In a path a keyword is one symbol.                              *)
(***************************************************************************)
EXTENDS Naturals, Sequences, FiniteSetsExt

\* What a path is searched for.
Keywords == {"[stack", "/dev/ashmem", "[heap]", "dalvik", "art", "/system", "/apex",
             "/data", ":.bss", "malloc", "kgsl", "mali", "gpu", "ppsspp"}

\* enum class memory_t, without its special values EMPTY and UNKNOWN.
Types == {"ANONYMOUS", "ASHMEM", "BAD", "CODE_APP", "CODE_SYS", "C_ALLOC", "C_BSS", "C_DATA",
          "C_HEAP", "JAVA", "JAVA_HEAP", "PPSSPP", "STACK", "VIDEO", "OTHER"}

\* map_entry's tests of permissions[i], however many the entry has.
IsReadable(perm) == perm[1] = "r"
IsWritable(perm) == perm[2] = "w"
IsExecutable(perm) == perm[3] = "x"
IsData(perm) == IsReadable(perm) /\ IsWritable(perm)
Has(path, words) == \E i \in DOMAIN path : path[i] \in words

\* "art" is found in any path that has it, not only in the runtime's.
Java(path) == Has(path, {"dalvik", "art"})

\* Mutant: /data is tested first, and the permissions only for what is left.
DataRulesUnordered(perm, path) ==
    << <<Has(path, {"/data"}), "C_DATA">>,
       <<IsExecutable(perm) /\ Has(path, {"/system", "/apex"}), "CODE_SYS">>,
       <<IsData(perm) /\ Has(path, {":.bss"}), "C_BSS">>,
       <<IsData(perm) /\ Has(path, {"malloc"}), "C_ALLOC">> >>

\* What is mapped from libraries: code if executable, data if writable.
DataRules(perm, path) ==
    << <<IsExecutable(perm) /\ Has(path, {"/system", "/apex"}), "CODE_SYS">>,
       <<IsExecutable(perm) /\ Has(path, {"/data"}), "CODE_APP">>,
       <<IsData(perm) /\ Has(path, {":.bss"}), "C_BSS">>,
       <<IsData(perm) /\ Has(path, {"/data"}), "C_DATA">>,
       <<IsData(perm) /\ Has(path, {"malloc"}), "C_ALLOC">> >>

\* All tests of an entry that has permissions, in their order, each with the
\* type it returns.  "[heap]" has to be all of the path.
Rules(perm, path) ==
    << <<Has(path, {"[stack"}), "STACK">>,
       <<path = <<>> /\ IsData(perm), "ANONYMOUS">>,
       <<Has(path, {"/dev/ashmem"}), "ASHMEM">>,
       <<path = <<"[heap]">>, "C_HEAP">>,
       <<Java(path) /\ IsWritable(perm), "JAVA_HEAP">>,
       <<Java(path), "JAVA">> >>
    \o DataRules(perm, path) \o
    << <<Has(path, {"kgsl", "mali", "gpu"}), "VIDEO">>,
       <<Has(path, {"ppsspp"}), "PPSSPP">> >>

\* memory_type_parse::operator().
MemoryTypeOf(size, perm, path) ==
    LET rules == Rules(perm, path)
        holds == {i \in DOMAIN rules : rules[i][1]}
    IN  CASE size = 0 -> "BAD"
          [] size # 0 /\ holds = {} -> "OTHER"
          [] size # 0 /\ holds # {} -> rules[Min(holds)][2]
================================================================================
