------------------------------- MODULE PReadWrite -------------------------------
(***************************************************************************)
(* p_readwrite (detail/mem/p_readwrite.h, src/read_write.cpp): an object     *)
(* that reads and writes another process through a descriptor of its         *)
(* /proc/<pid>/mem, which it opens, duplicates by opening again, hands on     *)
(* when it is moved from and closes when it dies.                            *)
(*                                                                         *)
(* Descriptors are numbers that the kernel gives out again, the lowest free  *)
(* one first, also to the rest of the program; pids too are given out again. *)
(* What a process is until it ends is an incarnation, numbered in the order  *)
(* of their starts.  A descriptor of its memory stays with it.               *)
(***************************************************************************)
EXTENDS Integers

CONSTANTS Objects,    \* places where the program may have a p_readwrite
          Pids,       \* the pids it uses
          NoPid,      \* the pid of nothing
          MaxFd,      \* descriptors are 0 .. MaxFd; opening fails beyond
          MaxStarts   \* bound: processes started

ASSUME DescriptorAssumption == MaxFd \in Nat /\ MaxStarts \in Nat /\ NoPid \notin Pids

Fds == 0 .. MaxFd
NoFd == -1
Starts == 1 .. MaxStarts
Dead == 0     \* no process
Closed == -1  \* what the descriptor table holds for a free number
Other == -2   \* a file of another part of the program

VARIABLES running,  \* the incarnation each pid belongs to now, or Dead
          pidOf,    \* the pid each incarnation has, or had
          started,  \* how many processes have been started
          table,    \* what each descriptor stands for
          pid,      \* pid_, which path_ is made from; NoPid where there is no object
          fd        \* fd_

processVars == <<running, pidOf, started>>
vars == <<processVars, table, pid, fd>>

Init == /\ running = [p \in Pids |-> Dead]
        /\ pidOf = [i \in Starts |-> NoPid]
        /\ started = 0
        /\ table = [f \in Fds |-> Closed]
        /\ pid = [o \in Objects |-> NoPid]
        /\ fd = [o \in Objects |-> NoFd]

--------------------------------------------------------------------------------
(* The system *)

\* A process starts under a pid that no running process has.
StartProcess(p) == /\ started < MaxStarts
                   /\ running[p] = Dead
                   /\ started' = started + 1
                   /\ running' = [running EXCEPT ![p] = started']
                   /\ pidOf' = [pidOf EXCEPT ![started'] = p]
                   /\ UNCHANGED <<table, pid, fd>>

EndProcess(p) == /\ running[p] # Dead
                 /\ running' = [running EXCEPT ![p] = Dead]
                 /\ UNCHANGED <<pidOf, started, table, pid, fd>>

LowestFree(t, f) == t[f] = Closed /\ \A g \in Fds : g < f => t[g] # Closed

\* The rest of the program opens files of its own, and closes them.
OtherOpen(f) == /\ LowestFree(table, f)
                /\ table' = [table EXCEPT ![f] = Other]
                /\ UNCHANGED <<processVars, pid, fd>>

OtherClose(f) == /\ table[f] = Other
                 /\ table' = [table EXCEPT ![f] = Closed]
                 /\ UNCHANGED <<processVars, pid, fd>>

--------------------------------------------------------------------------------
(* The class *)

Exists(o) == pid[o] # NoPid

\* The table after destroy: the object's descriptor, if it has one, is closed.
Destroyed(o) == [f \in Fds |-> IF f = fd[o] THEN Closed ELSE table[f]]

\* open(path + "/mem") on a table t, into o.fd_: it may fail for want of a
\* process, of a free descriptor or of the permission.
OpenMem(o, p, t) ==
    \/ /\ running[p] # Dead
       /\ \E f \in Fds : /\ LowestFree(t, f)
                         /\ table' = [t EXCEPT ![f] = running[p]]
                         /\ fd' = [fd EXCEPT ![o] = f]
    \/ /\ table' = t
       /\ fd' = [fd EXCEPT ![o] = NoFd]

Construct(o, p) == /\ ~Exists(o)
                   /\ pid' = [pid EXCEPT ![o] = p]
                   /\ OpenMem(o, p, table)
                   /\ UNCHANGED processVars

\* Mutant: the copy takes over the descriptor number.
CopyConstructShared(o, s) == /\ ~Exists(o) /\ Exists(s)
                             /\ pid' = [pid EXCEPT ![o] = pid[s]]
                             /\ fd' = [fd EXCEPT ![o] = fd[s]]
                             /\ UNCHANGED <<processVars, table>>

\* rwbase(other.pid()), then *this = other, which opens the path again.
CopyConstruct(o, s) == /\ ~Exists(o) /\ Exists(s)
                       /\ pid' = [pid EXCEPT ![o] = pid[s]]
                       /\ OpenMem(o, pid[s], table)
                       /\ UNCHANGED processVars

MoveConstruct(o, s) == /\ ~Exists(o) /\ Exists(s)
                       /\ pid' = [pid EXCEPT ![o] = pid[s]]
                       /\ fd' = [fd EXCEPT ![o] = fd[s], ![s] = NoFd]
                       /\ UNCHANGED <<processVars, table>>

\* Mutant: what is opened is the other's path, under the own pid.
CopyAssignOthers(o, s) == /\ Exists(o) /\ Exists(s)
                          /\ OpenMem(o, pid[s], Destroyed(o))
                          /\ UNCHANGED <<processVars, pid>>

\* The own path is opened again; nothing of the other is looked at.
CopyAssign(o, s) == /\ Exists(o) /\ Exists(s)
                    /\ OpenMem(o, pid[o], Destroyed(o))
                    /\ UNCHANGED <<processVars, pid>>

\* The other's descriptor is taken over, but not its pid and path.  Assigned to
\* itself the object has closed its descriptor before it takes it over.
MoveAssign(o, s) == /\ Exists(o) /\ Exists(s)
                    /\ table' = Destroyed(o)
                    /\ fd' = IF o = s THEN [fd EXCEPT ![o] = NoFd]
                             ELSE [fd EXCEPT ![o] = fd[s], ![s] = NoFd]
                    /\ UNCHANGED <<processVars, pid>>

Destruct(o) == /\ Exists(o)
               /\ table' = Destroyed(o)
               /\ fd' = [fd EXCEPT ![o] = NoFd]
               /\ pid' = [pid EXCEPT ![o] = NoPid]
               /\ UNCHANGED processVars

\* Whose memory read and write get to: nobody's where there is no descriptor or
\* the process has ended, and then the bytes stay as they are.
Reaches(o) == IF fd[o] = NoFd THEN Dead
              ELSE IF \E p \in Pids : running[p] = table[fd[o]] THEN table[fd[o]] ELSE Dead

System == \/ \E p \in Pids : StartProcess(p) \/ EndProcess(p)
          \/ \E f \in Fds : OtherOpen(f) \/ OtherClose(f)
Class == \E o \in Objects :
            \/ \E p \in Pids : Construct(o, p)
            \/ \E s \in Objects : \/ CopyConstruct(o, s) \/ MoveConstruct(o, s)
                                  \/ CopyAssign(o, s) \/ MoveAssign(o, s)
            \/ Destruct(o)
Next == System \/ Class
Spec == Init /\ [][Next]_vars

--------------------------------------------------------------------------------
(* Properties *)

TypeOK == /\ running \in [Pids -> Starts \cup {Dead}]
          /\ pidOf \in [Starts -> Pids \cup {NoPid}]
          /\ started \in 0 .. MaxStarts
          /\ table \in [Fds -> Starts \cup {Closed, Other}]
          /\ pid \in [Objects -> Pids \cup {NoPid}]
          /\ fd \in [Objects -> Fds \cup {NoFd}]

\* Through all copies, moves and assignments each open descriptor of a process
\* belongs to exactly one object: none is closed twice, none is leaked, and no
\* object holds a number that is free or that the rest of the program has got.
NoneShared == \A o, s \in Objects : fd[o] = fd[s] /\ fd[o] # NoFd => o = s
NoneStale == \A o \in Objects : fd[o] # NoFd => Exists(o) /\ table[fd[o]] \in Starts
NoneLeaked == \A f \in Fds : table[f] \in Starts => \E o \in Objects : fd[o] = f
DescriptorsOwned == NoneShared /\ NoneStale /\ NoneLeaked

\* An object that nobody assigns to reaches one process or nothing as long as it
\* lives, and once it reaches nothing it never reaches anything again, however
\* pids and descriptor numbers are given out again.
Assigned(o) == \E s \in Objects : CopyAssign(o, s) \/ MoveAssign(o, s)
KeepsToProcess ==
    [][\A o \in Objects : Exists(o) /\ Exists(o)'
           => Reaches(o)' \in {Reaches(o), Dead} \/ Assigned(o)]_vars

\* The one operation after which an object that was in order reads another
\* process than the one its pid() and path() name is a move assignment from an
\* object with another pid.
InOrder(o) == fd[o] # NoFd => pidOf[table[fd[o]]] = pid[o]
OnlyMoveMisleads ==
    [][(\A o \in Objects : InOrder(o)) =>
          \A o \in Objects : InOrder(o)' \/ \E s \in Objects : MoveAssign(o, s) /\ pid[s] # pid[o]]_vars
================================================================================
