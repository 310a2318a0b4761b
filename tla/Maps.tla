---------------------------------- MODULE Maps ----------------------------------
(***************************************************************************)
(* basic_maps over maps_impl (maps.h, detail/impl/maps_impl.hpp): load reads *)
(* /proc/<pid>/maps into a buffer of fixed size, which may cut the text       *)
(* anywhere; next(), empty() and the iterators all move the one cursor of     *)
(* the object's parser.  An entry holds its addresses by value, and views of  *)
(* the buffer for its permissions and path.                                  *)
(*                                                                         *)
(* The client runs loops over begin() and end(), as to_vector and the search *)
(* do, and loops of empty() and next(), to their ends, and asks to_memory_type *)
(* for the type of what it is handed.  The permissions of an entry that was    *)
(* cut are fewer than four; the tests of its type then look at the bytes of   *)
(* the buffer behind the text.                                              *)
(***************************************************************************)
EXTENDS LineParser, MemoryType, SequencesExt

CONSTANT Files   \* Files[n]: what /proc/<pid>/maps may hold at the n-th load, as
                 \* sequences of lines; bound: the loads are as many

\* A line as the kernel prints it: addresses of digits, four permissions, three
\* words, and a path that may be empty and have blanks in it.
IsWord(w) == w \in Seq(Word) \ {<<>>}
IsNumeral(w) == w \in Seq(Digits) \ {<<>>}
IsPath(w) == w \in Seq(Line) /\ (w # <<>> => w[1] # Blank)
IsMapping(l) == /\ IsNumeral(l.start) /\ IsNumeral(l.end)
                /\ IsWord(l.perm) /\ Len(l.perm) = PermSize
                /\ IsWord(l.offset) /\ IsWord(l.dev) /\ IsWord(l.inode)
                /\ IsPath(l.path)
IsFile(f) == f \in Seq(Range(f)) /\ \A l \in Range(f) : IsMapping(l)

ASSUME FilesAreMappings ==
    /\ Dash \in Letters \ Digits
    /\ Files \in Seq(Range(Files))
    /\ \A f \in UNION Range(Files) : IsFile(f)

VARIABLES file,     \* the lines of the file that was loaded
          text,     \* what the parser's content_ views
          buffer,   \* the bytes of data_, those of earlier loads behind the text
          pos,      \* current_pos_
          got,      \* the entries handed out since the load
          step,     \* where the client's loop is
          ended,    \* std::terminate has been called
          loads     \* calls of load

vars == <<file, text, buffer, pos, got, step, ended, loads>>

LineText(l) == l.start \o <<Dash>> \o l.end \o <<Blank>> \o l.perm \o <<Blank>>
               \o l.offset \o <<Blank>> \o l.dev \o <<Blank>> \o l.inode \o <<Blank>>
               \o l.path \o <<NewLine>>
FileText(f) == FlattenSeq([i \in DOMAIN f |-> LineText(f[i])])

Steps == {"idle", "test", "deref", "body", "done"}

Init == /\ file = <<>> /\ text = <<>> /\ buffer = <<>> /\ pos = 0
        /\ got = <<>>
        /\ step = "idle"
        /\ ended = FALSE
        /\ loads = 0

\* load, outside of loops: the buffer takes as much of the file as fits, or
\* nothing of it where it cannot be opened, and the parser begins anew.
Load(f, size) ==
    /\ step \in {"idle", "done"}
    /\ loads' = loads + 1
    /\ file' = f
    /\ text' = SubSeq(FileText(f), 1, size)
    /\ buffer' = text' \o SubSeq(buffer, Len(text') + 1, Len(buffer))
    /\ pos' = 0
    /\ got' = <<>>
    /\ step' = "idle"
    /\ UNCHANGED ended

EntryOf(line) == [start |-> Piece(text, line.start), end |-> Piece(text, line.end),
                  perm |-> line.perm, path |-> line.path]

\* next() after empty() was false: a line is parsed and the cursor goes on to
\* the next.
NextEntry == LET line == ParseMaps(text, pos)
             IN  /\ step \in {"idle", "done"}
                 /\ pos < Len(text)
                 /\ ended' = line.throws
                 /\ got' = IF line.throws THEN got ELSE Append(got, EntryOf(line))
                 /\ pos' = NextLine(text, line.pos)
                 /\ step' = IF line.throws THEN "ended" ELSE "idle"
                 /\ UNCHANGED <<file, text, buffer, loads>>

\* begin(): an iterator is the parser's address.
BeginLoop == /\ step \in {"idle", "done"}
             /\ step' = "test"
             /\ UNCHANGED <<file, text, buffer, pos, got, ended, loads>>

\* Mutant: the last line counts as the end.
TestLastLine == /\ step = "test"
                /\ step' = IF Len(text) <= NextLine(text, pos) THEN "done" ELSE "deref"
                /\ UNCHANGED <<file, text, buffer, pos, got, ended, loads>>

\* operator==, which ignores the other iterator.
Test == /\ step = "test"
        /\ step' = IF Len(text) <= pos THEN "done" ELSE "deref"
        /\ UNCHANGED <<file, text, buffer, pos, got, ended, loads>>

\* operator*: the parser parses.
Dereference == LET line == ParseMaps(text, pos)
               IN  /\ step = "deref"
                   /\ ended' = line.throws
                   /\ got' = IF line.throws THEN got ELSE Append(got, EntryOf(line))
                   /\ pos' = line.pos
                   /\ step' = IF line.throws THEN "ended" ELSE "body"
                   /\ UNCHANGED <<file, text, buffer, loads>>

\* operator++.
Increment == /\ step = "body"
             /\ pos' = NextLine(text, pos)
             /\ step' = "test"
             /\ UNCHANGED <<file, text, buffer, got, ended, loads>>

Loop == Test \/ Dereference \/ Increment
Next == \/ /\ loads < Len(Files)
           /\ \E f \in Files[loads + 1] : \E size \in 0 .. Len(FileText(f)) : Load(f, size)
        \/ NextEntry \/ BeginLoop \/ Loop
Spec == Init /\ [][Next]_vars

--------------------------------------------------------------------------------
(* Properties *)

TypeOK == /\ file \in (UNION Range(Files)) \cup {<<>>}
          /\ Range(text) \cup Range(buffer) \subseteq Symbols
          /\ pos \in Nat
          /\ step \in Steps \cup {"ended"}
          /\ ended \in BOOLEAN
          /\ loads \in 0 .. Len(Files)

\* How many lines lie in the text whole, and where the rest of it begins.
Whole == Max({n \in 0 .. Len(file) : Len(FileText(SubSeq(file, 1, n))) <= Len(text)})
Rest == SubSeq(text, Len(FileText(SubSeq(file, 1, Whole))) + 1, Len(text))

\* Reads as an entry reads now, through its views.
Reads(e) == [start |-> e.start, end |-> e.end, perm |-> Piece(buffer, e.perm),
             path |-> Piece(buffer, e.path)]
Fields(l) == [start |-> l.start, end |-> l.end, perm |-> l.perm, path |-> l.path]

\* Wherever the buffer cuts the text, and whichever loops the client has run
\* over it: the n-th entry is the n-th line, field by field, and at most one
\* entry more, of the line that was cut.  So every loop comes to its end, even
\* over a text without a last line feed, where next_line would begin again; and a
\* second loop over the same lines hands out nothing.
EntriesAreLines ==
    /\ TypeOK
    /\ \A n \in 1 .. Len(got) : n <= Whole => Reads(got[n]) = Fields(file[n])
    /\ Len(got) <= Whole + IF Rest = <<>> THEN 0 ELSE 1

\* No loop ends before every whole line has been handed out.
NoLineMissed == step = "done" => Len(got) >= Whole

\* The cursor never leaves the text, unless the text was cut before the dash
\* that ends a start address: then a parse ends the program.
CutInStart == Rest # <<>> /\ \A i \in DOMAIN Rest : Rest[i] # Dash
CursorInText == /\ pos > Len(text) => ended
                /\ ended => CutInStart

\* The bytes that the tests of an entry's permissions look at.  Nothing is known
\* of those no load has written.
Behind(e) == IF e.perm.from + PermSize <= Len(buffer) THEN {<<>>}
             ELSE {"r", "?"} \X {"w", "?"} \X {"x", "?"} \X {"?"}
Seen(e, b) == [i \in 1 .. PermSize |-> IF e.perm.from + i <= Len(buffer)
                                       THEN At(buffer, e.perm.from + i - 1) ELSE b[i]]

\* to_memory_type, and the type that for_each_maps tests against its mask.
ToMemoryType(e, b) == MemoryTypeOf(e.perm.to - e.perm.from, Seen(e, b), Piece(buffer, e.path))

\* From the text to the type: a line of the file is taken for code only if it is
\* executable, for C data or anonymous memory only if it can be read and written,
\* and for the heap of the Java runtime, as opposed to its other memory, exactly
\* if it can be written.  A line cut in its permissions is BAD when none is
\* left, and never taken for anything but anonymous or other memory, whatever
\* earlier loads have left behind it.
TypesFitLines ==
    \A n \in DOMAIN got : \A b \in Behind(got[n]) :
        LET type == ToMemoryType(got[n], b)
            size == got[n].perm.to - got[n].perm.from
        IN  /\ n <= Whole =>
                 /\ type \in {"CODE_SYS", "CODE_APP"} => IsExecutable(file[n].perm)
                 /\ type \in {"ANONYMOUS", "C_BSS", "C_DATA", "C_ALLOC"} => IsData(file[n].perm)
                 /\ type = "JAVA_HEAP" => IsWritable(file[n].perm)
                 /\ type = "JAVA" => ~IsWritable(file[n].perm)
                 /\ type # "BAD"
            /\ n > Whole /\ size < PermSize =>
                 /\ type = "BAD" <=> size = 0
                 /\ type \in {"BAD", "ANONYMOUS", "OTHER"}
================================================================================
