--------------------------------- MODULE Package ---------------------------------
(***************************************************************************)
(* basic_package (package.h): load reads /proc/<pid>/status into a buffer of  *)
(* fixed size and parses it into a map from keys to values.  A value is a     *)
(* number or a view of the buffer, which moves with the object and which a    *)
(* later load fills again.  get_all_app_info keeps the packages it finds in a  *)
(* vector, that is, moves them about.                                       *)
(*                                                                         *)
(* A uid is printed without leading zeros: how it compares with 10000 is a     *)
(* matter of how many digits it has.                                        *)
(***************************************************************************)
EXTENDS LineParser, SequencesExt

CONSTANTS StatusFiles, \* what /proc/<pid>/status may hold: sequences of lines
          Installed,   \* the names below the directories of /data/user
          AppDigits,   \* the digits from which on a uid is an app's (10000: five)
          Colon,       \* the symbol ":"
          Name, Uid,   \* status_keys
          BufferSize,  \* the size of data_, in symbols
          Asked,       \* the keys the client gives operator[]
          Objects,     \* places where the program may have a package
          MaxLoads     \* bound: loads that read something

\* A line as the kernel prints it: a key and words, maybe with a blank behind them.
IsEntry(l) == /\ l.key \in Seq(Word)
              /\ l.words \in Seq(Seq(Word) \ {<<>>})
              /\ l.trailing \in BOOLEAN
IsStatus(f) == f \in Seq(Range(f)) /\ \A l \in Range(f) : IsEntry(l)

ASSUME FilesAreStatuses ==
    /\ \A f \in StatusFiles : IsStatus(f)
    /\ Colon \in Letters
    /\ Asked \subseteq Seq(Symbols)
    /\ BufferSize \in Nat /\ MaxLoads \in Nat

\* The kernel prints no key twice, the name first, and numbers for the uid.  The
\* packages' directories have names without colons.
ASSUME NameBeforeUid ==
    /\ \A f \in StatusFiles : \A i, j \in DOMAIN f :
          /\ f[i].key = f[j].key => i = j
          /\ f[i].key = Uid /\ f[j].key = Name => j < i
          /\ f[i].key = Uid => \A w \in Range(f[i].words) : IsInteger(w)
    /\ Installed \subseteq Seq(Word \ {Colon})
    /\ AppDigits \in Nat \ {0}

VARIABLES pkg,    \* the packages: their buffer, data_map_, what is_app has returned
                  \* since the last load, and, as history, what the first load has
                  \* read, how many there have been, the keys operator[] has put in
          terminated,  \* std::terminate has been called
          called       \* loads that have read something, of all packages

packageVars == <<pkg, terminated, called>>

NoObject == <<"no object">>
Gone == <<"moved from">>     \* a null pointer
NoFile == [file |-> <<>>, size |-> 0]
Empty(b) == [buffer |-> b, map |-> [k \in {} |-> <<>>], app |-> "none",
             first |-> NoFile, loads |-> 0, asked |-> {}]

Exists(o) == pkg[o].buffer # NoObject

StatusLine(l) == l.key \o <<Colon>> \o FlattenSeq([i \in DOMAIN l.words |-> <<Blank>> \o l.words[i]])
               \o (IF l.trailing THEN <<Blank, NewLine>> ELSE <<NewLine>>)
StatusText(f) == FlattenSeq([i \in DOMAIN f |-> StatusLine(f[i])])

PackageInit == /\ pkg = [o \in Objects |-> Empty(NoObject)]
               /\ terminated = FALSE
               /\ called = 0

Construct(o) == /\ ~Exists(o)
                /\ pkg' = [pkg EXCEPT ![o] = Empty(<<>>)]
                /\ UNCHANGED <<terminated, called>>

\* A token becomes a number where to_int64 can read it, or a view.
ValueOf(t, token) == IF IsInteger(Piece(t, token)) THEN [number |-> Piece(t, token)]
                     ELSE [view |-> token]

\* The lines that load's loop goes through.
LinesOf(t) ==
    LET from[p \in 0 .. Len(t)] ==
          IF Len(t) <= p THEN <<>>
          ELSE LET line == ParseStatus(t, p)
               IN  << [key |-> line.key,
                       values |-> [i \in DOMAIN line.values |-> ValueOf(t, line.values[i])]] >>
                   \o from[NextLine(t, line.pos)]
    IN  from[0]

\* Mutant: insert_or_assign.
EmplaceAssigning(m, t) ==
    LET lines == LinesOf(t)
        at(k) == {i \in DOMAIN lines : lines[i].key = k}
    IN  [k \in DOMAIN m \cup {lines[i].key : i \in DOMAIN lines} |->
            IF at(k) = {} THEN m[k] ELSE lines[Max(at(k))].values]

\* emplace leaves a key alone that is there, from an earlier line too.
Emplace(m, t) ==
    LET lines == LinesOf(t)
        at(k) == {i \in DOMAIN lines : lines[i].key = k}
    IN  [k \in DOMAIN m \cup {lines[i].key : i \in DOMAIN lines} |->
            IF k \in DOMAIN m THEN m[k] ELSE lines[Min(at(k))].values]

\* read_file: what fits, or less where a read fails, or nothing of no file.
ReadSizes(f) == 0 .. Min({Len(StatusText(f)), BufferSize})

\* load.  Where nothing can be read, as into a null pointer, nothing changes.
LoadStatus(o, f, size) ==
    LET text == SubSeq(StatusText(f), 1, size)
        p == pkg[o]
    IN  /\ Exists(o)
        /\ IF size = 0 \/ p.buffer = Gone
           THEN /\ pkg' = [pkg EXCEPT ![o].app = "none"]
                /\ UNCHANGED called
           ELSE /\ called < MaxLoads
                /\ called' = called + 1
                /\ pkg' = [pkg EXCEPT ![o] =
                      [buffer |-> text \o SubSeq(p.buffer, size + 1, Len(p.buffer)),
                       map |-> Emplace(p.map, text), app |-> "none",
                       first |-> IF p.loads > 0 THEN p.first ELSE [file |-> f, size |-> size],
                       loads |-> p.loads + 1, asked |-> p.asked]]
        /\ UNCHANGED terminated

\* operator[] makes an entry for a key that is not there, and load keeps it.
Index(o, k) == /\ Exists(o)
               /\ k \notin DOMAIN pkg[o].map
               /\ pkg' = [pkg EXCEPT ![o].map = [h \in DOMAIN @ \cup {k} |-> IF h = k THEN <<>> ELSE @[h]],
                                       ![o].asked = @ \cup {k}]
               /\ UNCHANGED <<terminated, called>>

\* The move constructor.  What is left has a path, no buffer and an empty map.
Move(o, s) == /\ ~Exists(o) /\ Exists(s)
              /\ pkg' = [pkg EXCEPT ![o] = pkg[s], ![s] = Empty(Gone)]
              /\ UNCHANGED <<terminated, called>>

Destroy(o) == /\ Exists(o)
              /\ pkg' = [pkg EXCEPT ![o] = Empty(NoObject)]
              /\ UNCHANGED <<terminated, called>>

--------------------------------------------------------------------------------
(* is_app *)

HasValue(m, k) == k \in DOMAIN m /\ m[k] # <<>>
IsNumber(value) == "number" \in DOMAIN value

\* uid >= 10000, of the first number of the key Uid.
UidIsApp(m) == /\ HasValue(m, Uid)
               /\ IsNumber(m[Uid][1])
               /\ Len(m[Uid][1].number) >= AppDigits

\* A value as it reads now, through its view of the buffer.
ReadsNow(b, value) == IF IsNumber(value) THEN value.number ELSE Piece(b, value.view)

\* Mutant: a process of an app's with a name of its own is not looked for by the
\* app's.
PackageWhole(name) == name

\* substr(0, find(':')).
Package(name) == SubSeq(name, 1, Past(name, 0, Symbols \ {Colon}))

\* name_is_app, which goes to the file system for a name that is not a number.
NameIsText(m) == HasValue(m, Name) /\ ~IsNumber(m[Name][1])
Found(name) == Package(name) \in Installed \cup {<<>>}
SaysApp(m, b) == UidIsApp(m) /\ NameIsText(m) /\ Found(ReadsNow(b, m[Name][1]))

\* is_app.  It is noexcept, and directory_iterator throws where it cannot read.
IsApp(o, readable) ==
    LET p == pkg[o]
        fails == UidIsApp(p.map) /\ NameIsText(p.map) /\ ~readable
    IN  /\ Exists(o)
        /\ terminated' = fails
        /\ pkg' = [pkg EXCEPT ![o].app = IF fails THEN "none"
                                        ELSE IF SaysApp(p.map, p.buffer) THEN "yes" ELSE "no"]
        /\ UNCHANGED called

PackageNext == /\ ~terminated
               /\ \E o \in Objects :
                     \/ Construct(o)
                     \/ \E f \in StatusFiles : \E size \in ReadSizes(f) : LoadStatus(o, f, size)
                     \/ \E k \in Asked : Index(o, k)
                     \/ \E s \in Objects : Move(o, s)
                     \/ \E readable \in BOOLEAN : IsApp(o, readable)
                     \/ Destroy(o)
PackageSpec == PackageInit /\ [][PackageNext]_packageVars

--------------------------------------------------------------------------------
(* Properties *)

PackageTypeOK ==
    /\ \A o \in Objects :
          /\ \/ pkg[o].buffer \in {NoObject, Gone}
             \/ Range(pkg[o].buffer) \subseteq Symbols /\ Len(pkg[o].buffer) <= BufferSize
          /\ \A k \in DOMAIN pkg[o].map : Range(k) \subseteq Symbols
          /\ pkg[o].app \in {"none", "yes", "no"}
          /\ pkg[o].loads \in 0 .. MaxLoads
          /\ pkg[o].asked \subseteq Asked
    /\ terminated \in BOOLEAN
    /\ called \in 0 .. MaxLoads

\* The lines of the first load that the text had whole, one for each key.
FirstLines(o) ==
    LET f == pkg[o].first.file
    IN  {f[i] : i \in {j \in DOMAIN f : /\ Len(StatusText(SubSeq(f, 1, j))) <= pkg[o].first.size
                                        /\ \A h \in 1 .. j - 1 : f[h].key # f[j].key
                                        /\ f[j].key \notin pkg[o].asked}}

\* What a line's values should read as.  A blank before the line feed is taken
\* for one value more, the empty word, which is the number 0.
ValuesOf(l) == l.words \o IF l.trailing THEN << <<>> >> ELSE <<>>

\* After one load, and however the package has been moved since: each line that
\* came whole has its values under its key, wherever the text was cut.
ValuesAreFile ==
    /\ PackageTypeOK
    /\ \A o \in Objects : pkg[o].loads = 1 =>
        \A l \in FirstLines(o) :
            /\ l.key \in DOMAIN pkg[o].map
            /\ [i \in DOMAIN pkg[o].map[l.key] |-> ReadsNow(pkg[o].buffer, pkg[o].map[l.key][i])] = ValuesOf(l)

\* Later loads write over the text the views look at, but the keys of the first
\* keep its numbers: is_app may join a uid of one load with the bytes of a name
\* of another.
NumbersStay ==
    \A o \in Objects : pkg[o].loads >= 1 =>
        \A l \in FirstLines(o) : \A i \in DOMAIN ValuesOf(l) :
            IsInteger(ValuesOf(l)[i]) =>
                i \in DOMAIN pkg[o].map[l.key] /\ pkg[o].map[l.key][i] = [number |-> ValuesOf(l)[i]]

\* After one load is_app says of no process that it is an app's unless it is,
\* and of every one whose file came whole that it is if it is.  An app's uid and a
\* name that begins with the colon count: such a name is that of the directory.
FirstWords(f, k) == {ValuesOf(l)[1] : l \in {m \in Range(f) : m.key = k /\ ValuesOf(m) # <<>>}}
FileIsApp(f) ==
    /\ \E w \in FirstWords(f, Uid) : IsInteger(w) /\ Len(w) >= AppDigits
    /\ \E w \in FirstWords(f, Name) :
          ~IsInteger(w) /\ \E n \in Installed \cup {<<>>} : w = n \/ IsPrefix(Append(n, Colon), w)
AppMeansApp ==
    \A o \in Objects : pkg[o].loads = 1 /\ pkg[o].asked = {} =>
        /\ pkg[o].app = "yes" => FileIsApp(pkg[o].first.file)
        /\ pkg[o].app = "no" /\ FileIsApp(pkg[o].first.file) => pkg[o].first.size < Len(StatusText(pkg[o].first.file))
================================================================================
