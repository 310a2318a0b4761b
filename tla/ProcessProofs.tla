----------------------------- MODULE ProcessProofs -----------------------------
(***************************************************************************)
(* Proofs about the two modules in which processes and pids come and go.     *)
(*                                                                         *)
(* PReadWrite, for any objects, pids and numbers of descriptors and          *)
(* processes: whatever copies, moves, assignments and destructors do, an      *)
(* open descriptor has one owner, and which process an object gets to is      *)
(* changed by nothing but an assignment to it.                               *)
(*                                                                         *)
(* ProcScan, for any pids and names, and whatever the other processes do:     *)
(* what a scan returns has had the name, once each, nothing that has had it   *)
(* all the time is missed, and no file stays open.                           *)
(***************************************************************************)
EXTENDS PReadWrite, ProcScan, TLAPS

--------------------------------------------------------------------------------
(* The inductive invariant *)

\* A running process has the pid it was started under, and what descriptors
\* stand for has been started.
PidsKept == \A p \in Pids : running[p] # Dead => running[p] <= started /\ pidOf[running[p]] = p
TableStarted == \A f \in Fds : table[f] \in Starts => table[f] <= started

IInv == TypeOK /\ DescriptorsOwned /\ PidsKept /\ TableStarted

\* What the module's numbers are told apart by.
LEMMA Apart == /\ NoFd \notin Fds
               /\ Dead \notin Starts /\ Closed \notin Starts /\ Other \notin Starts
               /\ Dead # Closed /\ Dead # Other /\ Closed # Other
               /\ NoPid \notin Pids
  BY DescriptorAssumption DEF NoFd, Fds, Dead, Starts, Closed, Other

LEMMA InvInit == Init => IInv
<1> SUFFICES ASSUME Init PROVE IInv
  OBVIOUS
<1>1. TypeOK
  BY DescriptorAssumption DEF Init, TypeOK
<1>2. DescriptorsOwned
  BY Apart DEF Init, DescriptorsOwned, NoneShared, NoneStale, NoneLeaked
<1>3. PidsKept /\ TableStarted
  BY Apart DEF Init, PidsKept, TableStarted
<1>. QED
  BY <1>1, <1>2, <1>3 DEF IInv

--------------------------------------------------------------------------------
(* What a step does to descriptors *)

\* destroy leaves every other object's descriptor alone, and closes the own.
LEMMA DestroyedTable ==
  ASSUME IInv, NEW o \in Objects
  PROVE  /\ Destroyed(o) \in [Fds -> Starts \cup {Closed, Other}]
         /\ \A s \in Objects \ {o} : fd[s] # NoFd => Destroyed(o)[fd[s]] = table[fd[s]]
         /\ fd[o] # NoFd => Destroyed(o)[fd[o]] = Closed
         /\ \A f \in Fds : f # fd[o] => Destroyed(o)[f] = table[f]
         /\ fd[o] = NoFd => Destroyed(o) = table
<1> USE Apart DEF IInv, TypeOK, Destroyed
<1>1. \A s \in Objects : fd[s] # NoFd => fd[s] \in Fds
  OBVIOUS
<1>2. Destroyed(o) \in [Fds -> Starts \cup {Closed, Other}]
  OBVIOUS
<1>3. \A s \in Objects \ {o} : fd[s] # NoFd => fd[s] # fd[o]
  BY DEF DescriptorsOwned, NoneShared
<1>. QED
  BY <1>1, <1>2, <1>3

\* What open leaves, on the table that destroy has left: o has no descriptor, or
\* one that was free and now stands for the process under the pid.
LEMMA Opened ==
  ASSUME IInv, NEW o \in Objects, NEW p \in Pids, OpenMem(o, p, Destroyed(o))
  PROVE  \/ /\ table' = Destroyed(o)
            /\ fd' = [fd EXCEPT ![o] = NoFd]
         \/ \E f \in Fds : /\ running[p] \in Starts
                           /\ Destroyed(o)[f] = Closed
                           /\ table' = [Destroyed(o) EXCEPT ![f] = running[p]]
                           /\ fd' = [fd EXCEPT ![o] = f]
  BY DEF OpenMem, LowestFree, IInv, TypeOK

\* An object that is made or assigned to, and nothing else changes hands.
LEMMA OpenedOwned ==
  ASSUME IInv, NEW o \in Objects, NEW p \in Pids, OpenMem(o, p, Destroyed(o)),
         pid'[o] # NoPid, \A s \in Objects \ {o} : pid'[s] = pid[s],
         UNCHANGED processVars
  PROVE  /\ table' \in [Fds -> Starts \cup {Closed, Other}]
         /\ fd' \in [Objects -> Fds \cup {NoFd}]
         /\ DescriptorsOwned' /\ TableStarted'
<1> DEFINE t == Destroyed(o)
<1>1. t \in [Fds -> Starts \cup {Closed, Other}]
  BY DestroyedTable
<1>2. \A s \in Objects : fd[s] # NoFd => fd[s] \in Fds /\ Exists(s) /\ table[fd[s]] \in Starts
  BY DEF IInv, TypeOK, DescriptorsOwned, NoneStale
<1>3. \A f \in Fds : t[f] \in Starts => table[f] = t[f] /\ f # fd[o]
  BY Apart DEF Destroyed
<1>4. \A s \in Objects \ {o} : fd[s] # NoFd => t[fd[s]] = table[fd[s]]
  BY DestroyedTable
<1>5. \A f \in Fds : t[f] \in Starts => \E s \in Objects \ {o} : fd[s] = f
  BY <1>3 DEF IInv, DescriptorsOwned, NoneLeaked
<1>6. \A s, r \in Objects : fd[s] = fd[r] /\ fd[s] # NoFd => s = r
  BY DEF IInv, DescriptorsOwned, NoneShared
<1>7. fd \in [Objects -> Fds \cup {NoFd}]
  BY DEF IInv, TypeOK
<1>8. \A f \in Fds : t[f] \in Starts => t[f] <= started
  BY <1>3 DEF IInv, TableStarted
<1>9. CASE table' = t /\ fd' = [fd EXCEPT ![o] = NoFd]
  <2>1. NoneShared' /\ NoneStale'
    BY <1>2, <1>4, <1>6, <1>7, <1>9 DEF NoneShared, NoneStale, Exists
  <2>2. NoneLeaked'
    BY <1>5, <1>7, <1>9 DEF NoneLeaked
  <2>. QED
    BY <1>1, <1>7, <1>8, <1>9, <2>1, <2>2 DEF DescriptorsOwned, TableStarted, processVars
<1>10. ASSUME NEW f \in Fds, running[p] \in Starts, t[f] = Closed,
              table' = [t EXCEPT ![f] = running[p]], fd' = [fd EXCEPT ![o] = f]
       PROVE  /\ table' \in [Fds -> Starts \cup {Closed, Other}]
              /\ fd' \in [Objects -> Fds \cup {NoFd}]
              /\ DescriptorsOwned' /\ TableStarted'
  <2> HIDE DEF t
  <2>1. \A s \in Objects \ {o} : fd[s] # f
    BY <1>2, <1>4, <1>10, Apart
  <2>2. NoneShared'
    BY <1>6, <1>7, <1>10, <2>1 DEF NoneShared
  <2>3. NoneStale'
    BY <1>1, <1>2, <1>4, <1>7, <1>10, <2>1, Apart DEF NoneStale, Exists
  <2>4. NoneLeaked'
    BY <1>1, <1>5, <1>7, <1>10 DEF NoneLeaked
  <2>5. running[p] <= started
    BY <1>10, Apart DEF IInv, PidsKept
  <2>6. TableStarted'
    BY <1>1, <1>8, <1>10, <2>5 DEF TableStarted, processVars
  <2>. QED
    BY <1>1, <1>7, <1>10, <2>2, <2>3, <2>4, <2>6 DEF DescriptorsOwned
<1>. QED
  BY <1>9, <1>10, Opened

\* o takes over the descriptor of s, and its own has been closed.
LEMMA TakenOver ==
  ASSUME IInv, NEW o \in Objects, NEW s \in Objects, o # s,
         table' = Destroyed(o), fd' = [fd EXCEPT ![o] = fd[s], ![s] = NoFd],
         pid'[o] # NoPid, \A r \in Objects \ {o} : pid'[r] = pid[r],
         UNCHANGED processVars
  PROVE  /\ table' \in [Fds -> Starts \cup {Closed, Other}]
         /\ fd' \in [Objects -> Fds \cup {NoFd}]
         /\ DescriptorsOwned' /\ TableStarted'
<1>1. fd \in [Objects -> Fds \cup {NoFd}]
  BY DEF IInv, TypeOK
<1>2. fd' \in [Objects -> Fds \cup {NoFd}] /\ fd'[o] = fd[s] /\ fd'[s] = NoFd
      /\ \A r \in Objects \ {o, s} : fd'[r] = fd[r]
  BY <1>1
<1>3. NoneShared'
  BY <1>2 DEF NoneShared, IInv, DescriptorsOwned
<1>4. NoneStale'
  <2>1. \A r \in Objects \ {o} : fd[r] # NoFd => Exists(r) /\ table'[fd[r]] \in Starts
    BY DestroyedTable DEF IInv, DescriptorsOwned, NoneStale
  <2>. QED
    BY <1>2, <2>1 DEF NoneStale, Exists
<1>5. \A f \in Fds : table'[f] \in Starts => table[f] = table'[f] /\ f # fd[o]
  BY Apart DEF Destroyed
<1>6. NoneLeaked'
  <2>1. ASSUME NEW f \in Fds, table'[f] \in Starts PROVE \E r \in Objects : fd'[r] = f
    <3>1. PICK r \in Objects : fd[r] = f /\ r # o
      BY <1>5, <2>1 DEF IInv, DescriptorsOwned, NoneLeaked
    <3>. QED
      BY <1>2, <3>1
  <2>. QED
    BY <2>1 DEF NoneLeaked
<1>7. TableStarted'
  BY <1>5 DEF TableStarted, IInv, processVars
<1>. QED
  BY <1>2, <1>3, <1>4, <1>6, <1>7, DestroyedTable DEF DescriptorsOwned

\* o's descriptor, if it had one, is closed, and nobody takes it over.
LEMMA Dropped ==
  ASSUME IInv, NEW o \in Objects,
         table' = Destroyed(o), fd' = [fd EXCEPT ![o] = NoFd],
         \A r \in Objects \ {o} : pid'[r] = pid[r],
         UNCHANGED processVars
  PROVE  /\ table' \in [Fds -> Starts \cup {Closed, Other}]
         /\ fd' \in [Objects -> Fds \cup {NoFd}]
         /\ DescriptorsOwned' /\ TableStarted'
<1>1. fd' \in [Objects -> Fds \cup {NoFd}] /\ fd'[o] = NoFd
      /\ \A r \in Objects \ {o} : fd'[r] = fd[r]
  BY DEF IInv, TypeOK
<1>2. NoneShared'
  BY <1>1 DEF NoneShared, IInv, DescriptorsOwned
<1>3. NoneStale'
  <2>1. \A r \in Objects \ {o} : fd[r] # NoFd => Exists(r) /\ table'[fd[r]] \in Starts
    BY DestroyedTable DEF IInv, DescriptorsOwned, NoneStale
  <2>. QED
    BY <1>1, <2>1 DEF NoneStale, Exists
<1>4. \A f \in Fds : table'[f] \in Starts => table[f] = table'[f] /\ f # fd[o]
  BY Apart DEF Destroyed
<1>5. NoneLeaked'
  BY <1>1, <1>4 DEF NoneLeaked, IInv, DescriptorsOwned
<1>6. TableStarted'
  BY <1>4 DEF TableStarted, IInv, processVars
<1>. QED
  BY <1>1, <1>2, <1>3, <1>5, <1>6, DestroyedTable DEF DescriptorsOwned

--------------------------------------------------------------------------------
(* Every step keeps the invariant *)

\* Where there is no object there is no descriptor.
LEMMA NothingToDestroy ==
  ASSUME IInv, NEW o \in Objects, ~Exists(o)
  PROVE  fd[o] = NoFd /\ Destroyed(o) = table
<1>1. fd[o] = NoFd
  BY DEF IInv, DescriptorsOwned, NoneStale
<1>. QED
  BY <1>1, DestroyedTable

\* The processes and the rest of the program.
LEMMA SystemStep == IInv /\ System => IInv'
<1> SUFFICES ASSUME IInv, System PROVE IInv'
  OBVIOUS
<1> USE Apart DEF IInv
<1>1. ASSUME NEW p \in Pids, StartProcess(p) PROVE IInv'
  <2>1. started \in Nat /\ MaxStarts \in Nat /\ started' = started + 1 /\ started' \in Starts
        /\ started' \in 0 .. MaxStarts
    BY <1>1, DescriptorAssumption DEF StartProcess, TypeOK, Starts
  <2>2. TypeOK'
    BY <1>1, <2>1 DEF StartProcess, TypeOK
  <2>3. DescriptorsOwned'
    BY <1>1 DEF StartProcess, DescriptorsOwned, NoneShared, NoneStale, NoneLeaked, Exists
  <2>4. \A q \in Pids : running[q] # Dead => running[q] \in Starts /\ running[q] # started'
                                             /\ running[q] <= started'
    BY <2>1 DEF PidsKept, TypeOK, Starts
  <2>5. PidsKept'
    BY <1>1, <2>1, <2>4 DEF StartProcess, PidsKept, TypeOK
  <2>6. TableStarted'
    BY <1>1, <2>1 DEF StartProcess, TableStarted, TypeOK, Starts
  <2>. QED
    BY <2>2, <2>3, <2>5, <2>6
<1>2. ASSUME NEW p \in Pids, EndProcess(p) PROVE IInv'
  BY <1>2 DEF EndProcess, TypeOK, DescriptorsOwned, NoneShared, NoneStale, NoneLeaked, Exists,
              PidsKept, TableStarted
<1>3. ASSUME NEW f \in Fds, OtherOpen(f) \/ OtherClose(f) PROVE IInv'
  <2>1. table[f] \notin Starts /\ (table' = [table EXCEPT ![f] = Other] \/ table' = [table EXCEPT ![f] = Closed])
        /\ UNCHANGED <<processVars, pid, fd>>
    BY <1>3 DEF OtherOpen, OtherClose, LowestFree
  <2>2. table' \in [Fds -> Starts \cup {Closed, Other}]
        /\ \A g \in Fds : table'[g] \in Starts \/ table[g] \in Starts => table'[g] = table[g]
    BY <2>1 DEF TypeOK
  <2>3. TypeOK' /\ PidsKept' /\ TableStarted'
    BY <2>1, <2>2 DEF processVars, TypeOK, PidsKept, TableStarted
  <2>4. NoneStale'
    <3>1. \A o \in Objects : fd[o] # NoFd => fd[o] \in Fds
      BY DEF TypeOK
    <3>. QED
      BY <2>1, <2>2, <3>1 DEF NoneStale, DescriptorsOwned, Exists
  <2>5. NoneShared' /\ NoneLeaked'
    BY <2>1, <2>2 DEF DescriptorsOwned, NoneShared, NoneLeaked
  <2>. QED
    BY <2>3, <2>4, <2>5 DEF DescriptorsOwned
<1>. QED
  BY <1>1, <1>2, <1>3 DEF System

\* The members of the class.
LEMMA ClassStep == IInv /\ Class => IInv'
<1> SUFFICES ASSUME IInv, Class PROVE IInv'
  OBVIOUS
<1> DEFINE Files == /\ table' \in [Fds -> Starts \cup {Closed, Other}]
                    /\ fd' \in [Objects -> Fds \cup {NoFd}]
                    /\ DescriptorsOwned' /\ TableStarted'
<1>1. UNCHANGED processVars
  BY DEF Class, Construct, CopyConstruct, MoveConstruct, CopyAssign, MoveAssign, Destruct
<1>2. pid \in [Objects -> Pids \cup {NoPid}]
  BY DEF IInv, TypeOK
<1>3. ASSUME NEW o \in Objects, NEW p \in Pids, Construct(o, p)
      PROVE  Files /\ pid' \in [Objects -> Pids \cup {NoPid}]
  BY <1>1, <1>2, <1>3, NothingToDestroy, OpenedOwned, Apart DEF Construct
<1>4. ASSUME NEW o \in Objects, NEW s \in Objects, CopyConstruct(o, s)
      PROVE  Files /\ pid' \in [Objects -> Pids \cup {NoPid}]
  BY <1>1, <1>2, <1>4, NothingToDestroy, OpenedOwned, Apart DEF CopyConstruct, Exists
<1>5. ASSUME NEW o \in Objects, NEW s \in Objects, MoveConstruct(o, s)
      PROVE  Files /\ pid' \in [Objects -> Pids \cup {NoPid}]
  BY <1>1, <1>2, <1>5, NothingToDestroy, TakenOver, Apart DEF MoveConstruct, Exists
<1>6. ASSUME NEW o \in Objects, NEW s \in Objects, CopyAssign(o, s)
      PROVE  Files /\ pid' \in [Objects -> Pids \cup {NoPid}]
  BY <1>1, <1>2, <1>6, OpenedOwned, Apart DEF CopyAssign, Exists
<1>7. ASSUME NEW o \in Objects, NEW s \in Objects, MoveAssign(o, s)
      PROVE  Files /\ pid' \in [Objects -> Pids \cup {NoPid}]
  <2>1. CASE o = s
    BY <1>1, <1>2, <1>7, <2>1, Dropped DEF MoveAssign
  <2>2. CASE o # s
    BY <1>1, <1>2, <1>7, <2>2, TakenOver DEF MoveAssign, Exists
  <2>. QED
    BY <2>1, <2>2
<1>8. ASSUME NEW o \in Objects, Destruct(o)
      PROVE  Files /\ pid' \in [Objects -> Pids \cup {NoPid}]
  BY <1>1, <1>2, <1>8, Dropped DEF Destruct
<1>9. Files /\ pid' \in [Objects -> Pids \cup {NoPid}]
  BY <1>3, <1>4, <1>5, <1>6, <1>7, <1>8 DEF Class
<1>. QED
  BY <1>1, <1>9 DEF IInv, TypeOK, PidsKept, processVars

\* The invariant is inductive.
LEMMA Inductive == Spec => []IInv
<1>1. IInv /\ UNCHANGED vars => IInv'
  BY DEF vars, processVars, IInv, TypeOK, DescriptorsOwned, NoneShared, NoneStale, NoneLeaked,
         Exists, PidsKept, TableStarted
<1>2. IInv /\ [Next]_vars => IInv'
  BY <1>1, SystemStep, ClassStep DEF Next
<1>. QED
  BY <1>2, InvInit, PTL DEF Spec

--------------------------------------------------------------------------------
(* What a step does to an object that is not assigned to *)

\* It keeps its descriptor, which stands for what it stood for, or, moved from,
\* is left without one.
LEMMA LeftAlone ==
  ASSUME IInv, [Next]_vars, NEW o \in Objects, pid'[o] # NoPid, fd[o] # NoFd,
         \A s \in Objects : ~CopyAssign(o, s) /\ ~MoveAssign(o, s)
  PROVE  \/ fd'[o] = NoFd
         \/ fd'[o] = fd[o] /\ table'[fd[o]] = table[fd[o]]
<1>1. fd \in [Objects -> Fds \cup {NoFd}] /\ fd[o] \in Fds /\ table[fd[o]] \in Starts
      /\ pid \in [Objects -> Pids \cup {NoPid}] /\ pid[o] # NoPid
      /\ table \in [Fds -> Starts \cup {Closed, Other}]
  BY DEF IInv, TypeOK, DescriptorsOwned, NoneStale, Exists
<1>2. CASE System \/ UNCHANGED vars
  <2>1. fd' = fd
    BY <1>2 DEF System, StartProcess, EndProcess, OtherOpen, OtherClose, vars
  <2>2. table' = table \/ \E f \in Fds, c \in {Other, Closed} :
                             table[f] \notin Starts /\ table' = [table EXCEPT ![f] = c]
    BY <1>2, Apart DEF System, StartProcess, EndProcess, OtherOpen, OtherClose, LowestFree, vars
  <2>. QED
    BY <1>1, <2>1, <2>2
<1>3. ASSUME NEW r \in Objects \ {o}, NEW p \in Pids, OpenMem(r, p, Destroyed(r))
      PROVE  fd'[o] = fd[o] /\ table'[fd[o]] = table[fd[o]]
  <2>1. Destroyed(r)[fd[o]] = table[fd[o]] /\ Destroyed(r)[fd[o]] # Closed
        /\ Destroyed(r) \in [Fds -> Starts \cup {Closed, Other}]
    BY <1>1, DestroyedTable, Apart
  <2>. QED
    BY <1>1, <1>3, <2>1, Opened
<1>4. ASSUME NEW r \in Objects \ {o}, table' = Destroyed(r)
      PROVE  table'[fd[o]] = table[fd[o]]
  BY <1>4, DestroyedTable
<1>5. ASSUME NEW r \in Objects, NEW p \in Pids, Construct(r, p) PROVE r # o /\ OpenMem(r, p, Destroyed(r))
  BY <1>5, NothingToDestroy DEF Construct
<1>6. ASSUME NEW r \in Objects, NEW q \in Objects, CopyConstruct(r, q)
      PROVE  r # o /\ pid[q] \in Pids /\ OpenMem(r, pid[q], Destroyed(r))
  BY <1>1, <1>6, NothingToDestroy DEF CopyConstruct, Exists
<1>7. ASSUME NEW r \in Objects, NEW q \in Objects, CopyAssign(r, q)
      PROVE  r # o /\ pid[r] \in Pids /\ OpenMem(r, pid[r], Destroyed(r))
  BY <1>1, <1>7 DEF CopyAssign, Exists
<1>8. ASSUME NEW r \in Objects, NEW q \in Objects, MoveConstruct(r, q)
      PROVE  table' = table /\ (fd'[o] = fd[o] \/ fd'[o] = NoFd)
  BY <1>1, <1>8 DEF MoveConstruct, Exists
<1>9. ASSUME NEW r \in Objects, NEW q \in Objects, MoveAssign(r, q)
      PROVE  r # o /\ table' = Destroyed(r) /\ (fd'[o] = fd[o] \/ fd'[o] = NoFd)
  BY <1>1, <1>9 DEF MoveAssign
<1>10. ASSUME NEW r \in Objects, Destruct(r) PROVE r # o /\ table' = Destroyed(r) /\ fd'[o] = fd[o]
  BY <1>1, <1>10 DEF Destruct, Exists
<1>11. CASE Class
  BY <1>3, <1>4, <1>5, <1>6, <1>7, <1>8, <1>9, <1>10, <1>11 DEF Class
<1>. QED
  BY <1>2, <1>11 DEF Next

\* An object that has no descriptor gets none but by an assignment.
LEMMA NoneTaken ==
  ASSUME IInv, [Next]_vars, NEW o \in Objects, Exists(o), fd[o] = NoFd,
         \A s \in Objects : ~CopyAssign(o, s) /\ ~MoveAssign(o, s)
  PROVE  fd'[o] = NoFd
<1>1. fd \in [Objects -> Fds \cup {NoFd}]
  BY DEF IInv, TypeOK
<1>. QED
  BY <1>1 DEF Next, System, StartProcess, EndProcess, OtherOpen, OtherClose, Class, Construct, CopyConstruct,
              MoveConstruct, CopyAssign, MoveAssign, OpenMem, Destruct, vars, Exists

\* No process that has been started and has ended runs again, under any pid.
LEMMA EndedStays ==
  ASSUME IInv, [Next]_vars, NEW i \in Starts, i <= started, NEW p \in Pids, running'[p] = i
  PROVE  running[p] = i
<1>1. running \in [Pids -> Starts \cup {Dead}] /\ started \in Nat /\ i \in Nat
  BY DEF IInv, TypeOK, Starts
<1>2. ASSUME NEW q \in Pids, StartProcess(q) PROVE running[p] = i
  BY <1>1, <1>2 DEF StartProcess
<1>3. ASSUME NEW q \in Pids, EndProcess(q) PROVE running[p] = i
  BY <1>1, <1>3, Apart DEF EndProcess
<1>4. CASE ~\E q \in Pids : StartProcess(q) \/ EndProcess(q)
  BY <1>4 DEF Next, System, Class, OtherOpen, OtherClose, Construct, CopyConstruct,
              MoveConstruct, CopyAssign, MoveAssign, Destruct, vars, processVars
<1>. QED
  BY <1>2, <1>3, <1>4

\* What a descriptor stands for keeps the pid it has.
LEMMA PidsStay ==
  ASSUME IInv, [Next]_vars, NEW i \in Starts, i <= started
  PROVE  pidOf'[i] = pidOf[i]
<1>1. CASE \E p \in Pids : StartProcess(p)
  <2>1. started \in Nat /\ started' = started + 1 /\ i # started'
    BY <1>1 DEF StartProcess, IInv, TypeOK, Starts
  <2>. QED
    BY <1>1, <2>1 DEF StartProcess, IInv, TypeOK
<1>2. CASE ~\E p \in Pids : StartProcess(p)
  BY <1>2 DEF Next, System, Class, EndProcess, OtherOpen, OtherClose, Construct, CopyConstruct,
              MoveConstruct, CopyAssign, MoveAssign, Destruct, vars, processVars
<1>. QED
  BY <1>1, <1>2

\* What has been opened under the pid of its object is in order.
LEMMA OpenedInOrder ==
  ASSUME IInv, NEW o \in Objects, NEW p \in Pids, OpenMem(o, p, Destroyed(o)),
         UNCHANGED processVars, pid'[o] = p
  PROVE  InOrder(o)'
<1>1. fd \in [Objects -> Fds \cup {NoFd}]
  BY DEF IInv, TypeOK
<1>2. CASE fd' = [fd EXCEPT ![o] = NoFd]
  BY <1>1, <1>2 DEF InOrder
<1>3. ASSUME NEW f \in Fds, running[p] \in Starts, table' = [Destroyed(o) EXCEPT ![f] = running[p]],
             fd' = [fd EXCEPT ![o] = f]
      PROVE  InOrder(o)'
  <2>1. fd'[o] = f /\ table'[f] = running[p]
    BY <1>1, <1>3, DestroyedTable
  <2>2. pidOf[running[p]] = p
    BY <1>3, Apart DEF IInv, PidsKept
  <2>. QED
    BY <2>1, <2>2 DEF InOrder, processVars
<1>. QED
  BY <1>2, <1>3, Opened

--------------------------------------------------------------------------------

\* The variables of p_readwrite and of the system never leave their types.
THEOREM TypeCorrect == Spec => []TypeOK
<1>1. IInv => TypeOK
  BY DEF IInv
<1>. QED
  BY <1>1, Inductive, PTL

\* Every open descriptor of a process belongs to exactly one object: none is
\* closed twice and none is leaked, whatever copies, moves, self-assignments and
\* failing opens there have been.
THEOREM OneOwner == Spec => []DescriptorsOwned
<1>1. IInv => DescriptorsOwned
  BY DEF IInv
<1>. QED
  BY <1>1, Inductive, PTL

\* As long as nobody assigns to an object it reads and writes one process, or
\* nothing, and once nothing for ever: neither another object's life nor a pid or
\* a descriptor number given out again changes whose memory its descriptor is.
THEOREM OneProcess == Spec => KeepsToProcess
<1> DEFINE Keeps == \A o \in Objects : Exists(o) /\ Exists(o)'
                       => Reaches(o)' \in {Reaches(o), Dead} \/ Assigned(o)
<1>1. IInv /\ [Next]_vars => Keeps
  <2> SUFFICES ASSUME IInv, [Next]_vars, NEW o \in Objects, Exists(o), Exists(o)', ~Assigned(o)
               PROVE  Reaches(o)' \in {Reaches(o), Dead}
    OBVIOUS
  <2>1. CASE fd[o] = NoFd
    <3>1. fd'[o] = NoFd
      BY <2>1, NoneTaken DEF Assigned
    <3>. QED
      BY <3>1 DEF Reaches
  <2>2. CASE fd[o] # NoFd
    <3>1. table[fd[o]] \in Starts /\ table[fd[o]] <= started
      BY <2>2 DEF IInv, TypeOK, DescriptorsOwned, NoneStale, TableStarted
    <3>2. fd'[o] = NoFd \/ (fd'[o] = fd[o] /\ table'[fd[o]] = table[fd[o]])
      BY <2>2, LeftAlone DEF Exists, Assigned
    <3>3. (\E p \in Pids : running'[p] = table[fd[o]]) => \E p \in Pids : running[p] = table[fd[o]]
      BY <3>1, EndedStays
    <3>. QED
      BY <2>2, <3>2, <3>3 DEF Reaches
  <2>. QED
    BY <2>1, <2>2
<1>2. IInv /\ [Next]_vars => [Keeps]_vars
  BY <1>1
<1>. QED
  BY <1>2, Inductive, PTL DEF Spec, KeepsToProcess

\* Nothing but a move assignment from an object with another pid makes an object
\* read another process than its pid() names.
THEOREM OnlyMoves == Spec => OnlyMoveMisleads
<1> DEFINE Kept == (\A o \in Objects : InOrder(o)) =>
                     \A o \in Objects : InOrder(o)' \/ \E s \in Objects : MoveAssign(o, s) /\ pid[s] # pid[o]
<1>1. IInv /\ [Next]_vars => Kept
  <2> SUFFICES ASSUME IInv, [Next]_vars, \A o \in Objects : InOrder(o), NEW o \in Objects,
                      ~\E s \in Objects : MoveAssign(o, s) /\ pid[s] # pid[o]
               PROVE  InOrder(o)'
    OBVIOUS
  <2>1. /\ fd \in [Objects -> Fds \cup {NoFd}] /\ pid \in [Objects -> Pids \cup {NoPid}]
        /\ \A s \in Objects : fd[s] # NoFd => /\ fd[s] \in Fds /\ Exists(s)
                                              /\ table[fd[s]] \in Starts /\ table[fd[s]] <= started
                                              /\ pidOf[table[fd[s]]] = pid[s]
    BY DEF IInv, TypeOK, DescriptorsOwned, NoneStale, TableStarted, InOrder
  <2>2. \A s \in Objects : fd[s] # NoFd => pidOf'[table[fd[s]]] = pid[s]
    BY <2>1, PidsStay
  <2>3. ASSUME NEW s \in Objects, CopyAssign(o, s) PROVE InOrder(o)'
    BY <2>1, <2>3, OpenedInOrder DEF CopyAssign, Exists
  <2>4. ASSUME NEW s \in Objects, MoveAssign(o, s) PROVE InOrder(o)'
    <3>1. CASE o = s
      BY <2>1, <2>4, <3>1 DEF MoveAssign, InOrder
    <3>2. CASE o # s
      <4>1. fd'[o] = fd[s] /\ pid'[o] = pid[s]
        BY <2>1, <2>4, <3>2 DEF MoveAssign
      <4>2. fd[s] # NoFd => table'[fd[s]] = table[fd[s]]
        BY <2>4, <3>2, DestroyedTable DEF MoveAssign
      <4>. QED
        BY <2>2, <4>1, <4>2 DEF InOrder
    <3>. QED
      BY <3>1, <3>2
  <2>5. ASSUME NEW p \in Pids, Construct(o, p) PROVE InOrder(o)'
    BY <2>1, <2>5, NothingToDestroy, OpenedInOrder DEF Construct
  <2>6. ASSUME NEW s \in Objects, CopyConstruct(o, s) PROVE InOrder(o)'
    BY <2>1, <2>6, NothingToDestroy, OpenedInOrder DEF CopyConstruct, Exists
  <2>7. ASSUME NEW s \in Objects, MoveConstruct(o, s) PROVE InOrder(o)'
    <3>1. o # s /\ fd'[o] = fd[s] /\ pid'[o] = pid[s] /\ table' = table
      BY <2>1, <2>7 DEF MoveConstruct
    <3>. QED
      BY <2>2, <3>1 DEF InOrder
  <2>8. CASE \A s \in Objects : ~CopyAssign(o, s) /\ ~MoveAssign(o, s) /\ ~CopyConstruct(o, s)
                                /\ ~MoveConstruct(o, s) /\ \A p \in Pids : ~Construct(o, p)
    <3>1. CASE Exists(o) /\ Exists(o)' /\ fd[o] # NoFd
      <4>1. fd'[o] = NoFd \/ (fd'[o] = fd[o] /\ table'[fd[o]] = table[fd[o]])
        BY <2>8, <3>1, LeftAlone DEF Exists
      <4>2. pid'[o] = pid[o]
        BY <2>1, <2>8, <3>1 DEF Next, System, StartProcess, EndProcess, OtherOpen, OtherClose, Class,
              Construct, CopyConstruct, MoveConstruct, CopyAssign, MoveAssign, Destruct, vars, Exists
      <4>. QED
        BY <2>2, <3>1, <4>1, <4>2 DEF InOrder
    <3>2. CASE ~(Exists(o) /\ Exists(o)' /\ fd[o] # NoFd)
      <4>1. fd'[o] = NoFd
        <5>1. CASE fd[o] = NoFd
          BY <2>1, <2>8, <5>1 DEF Next, System, StartProcess, EndProcess, OtherOpen, OtherClose, Class,
              Construct, CopyConstruct, MoveConstruct, CopyAssign, MoveAssign, OpenMem, Destruct, vars
        <5>2. CASE fd[o] # NoFd
          <6>1. Exists(o) /\ ~Exists(o)'
            BY <2>1, <3>2, <5>2
          <6>2. Destruct(o)
            BY <2>1, <2>8, <6>1 DEF Next, System, StartProcess, EndProcess, OtherOpen, OtherClose, Class,
              Construct, CopyConstruct, MoveConstruct, CopyAssign, MoveAssign, Destruct, vars, Exists
          <6>. QED
            BY <2>1, <6>2 DEF Destruct
        <5>. QED
          BY <5>1, <5>2
      <4>. QED
        BY <4>1 DEF InOrder
    <3>. QED
      BY <3>1, <3>2
  <2>. QED
    BY <2>3, <2>4, <2>5, <2>6, <2>7, <2>8
<1>2. IInv /\ [Next]_vars => [Kept]_vars
  BY <1>1
<1>. QED
  BY <1>2, Inductive, PTL DEF Spec, OnlyMoveMisleads

--------------------------------------------------------------------------------
(* Lists of pids *)

\* What appending a pid does to a list of pids.
LEMMA AppendPid ==
  ASSUME NEW s \in Seq(ScanPids), NEW p \in ScanPids
  PROVE  /\ Append(s, p) \in Seq(ScanPids)
         /\ Range(Append(s, p)) = Range(s) \cup {p}
         /\ p \notin Range(s) /\ IsInjective(s) => IsInjective(Append(s, p))
<1>1. /\ Append(s, p) \in Seq(ScanPids)
      /\ Len(s) \in Nat
      /\ DOMAIN s = 1 .. Len(s)
      /\ DOMAIN Append(s, p) = 1 .. Len(s) + 1
      /\ \A i \in 1 .. Len(s) : Append(s, p)[i] = s[i]
      /\ Append(s, p)[Len(s) + 1] = p
  OBVIOUS
<1>2. \A i \in 1 .. Len(s) + 1 : i = Len(s) + 1 \/ i \in 1 .. Len(s)
  BY <1>1
<1>3. Range(Append(s, p)) = Range(s) \cup {p}
  BY <1>1, <1>2 DEF Range
<1>4. ASSUME p \notin Range(s), IsInjective(s) PROVE IsInjective(Append(s, p))
  BY <1>1, <1>2, <1>4 DEF Range, IsInjective
<1>. QED
  BY <1>1, <1>3, <1>4

\* The lists of pids that the functions begin and end with.
LEMMA ShortLists ==
  /\ << >> \in Seq(ScanPids) /\ Range(<< >>) = {} /\ IsInjective(<< >>)
  /\ \A p \in ScanPids : << p >> \in Seq(ScanPids) /\ Range(<< p >>) = {p} /\ IsInjective(<< p >>)
<1>1. << >> \in Seq(ScanPids) /\ Range(<< >>) = {} /\ IsInjective(<< >>)
  BY DEF Range, IsInjective
<1>2. ASSUME NEW p \in ScanPids PROVE << p >> \in Seq(ScanPids) /\ Range(<< p >>) = {p} /\ IsInjective(<< p >>)
  BY DEF Range, IsInjective
<1>. QED
  BY <1>1, <1>2

--------------------------------------------------------------------------------
(* The inductive invariant *)

\* found is a sequence, which TypeOK says of its values only.
ScanTyped == ScanTypeOK /\ found \in Seq(ScanPids)

\* Between NextEntry and the test the function is at a process; a file is open
\* exactly while it is to be read, and one that is not stale belongs to the
\* process that is under the pid now.
AtEntry == /\ phase \in {"open", "read", "test"} => at \in ScanPids
           /\ phase = "read" <=> file # "closed"
           /\ file = "live" => procs[at] # NoProcess
           /\ phase = "idle" => wanted = {} /\ at = 0 /\ ahead = {} /\ found = <<>>

\* Who has a wanted name has been seen to have it, and so has who had it when
\* the name was read.  A kernel thread is never wanted.
Seen == /\ \A p \in ScanPids : procs[p] \in wanted => p \in named
        /\ \A p \in steady : procs[p] \in wanted
        /\ phase = "test" /\ name \in wanted => at \in named
        /\ NoName \notin wanted

\* The pids found lie behind the one the function is at, those read ahead
\* before it.
EntriesInOrder == /\ \A p \in Range(found) : p <= at /\ (phase \in {"open", "read", "test"} => p # at)
                  /\ \A p \in ahead : p > at
                  /\ call = "pid" /\ phase # "done" => found = <<>>

\* A process that has had a wanted name all the time is still to be handed out,
\* is the one that is looked at, or has been found or refused.
ToCome(p) == p > at /\ (ahead = {} \/ p \in ahead \/ \A q \in ahead : q < p)
LookedAt(p) == /\ p = at
               /\ \/ phase = "open"
                  \/ phase = "read" /\ file = "live"
                  \/ phase = "test" /\ name \in wanted
Accounted == phase \in {"next", "open", "read", "test"} =>
                \A p \in steady : ToCome(p) \/ LookedAt(p) \/ p \in Range(found) \cup refused

ScanInv == ScanTyped /\ AtEntry /\ Seen /\ EntriesInOrder /\ Accounted /\ FoundWasNamed /\ NoneMissed /\ EachOnce

LEMMA ScanInvInit == ScanInit => ScanInv
  BY ShortLists, ScanAssumption
     DEF ScanInit, ScanInv, ScanTyped, ScanTypeOK, Phases, AtEntry, Seen, EntriesInOrder, Accounted, FoundWasNamed,
         NoneMissed, EachOnce

\* Whatever a process becomes, the invariant stays.
LEMMA ProcessStep ==
  ASSUME ScanInv, NEW p \in ScanPids, NEW n \in Names \cup {NoProcess}, n # procs[p], Becomes(p, n)
  PROVE  ScanInv'
<1> USE ScanAssumption DEF ScanInv, Becomes, scan
<1>1. ScanTyped'
  BY DEF ScanTyped, ScanTypeOK
<1>2. AtEntry'
  BY DEF AtEntry, ScanTyped, ScanTypeOK
<1>3. Seen'
  BY DEF Seen, ScanTyped, ScanTypeOK
<1>4. EntriesInOrder'
  BY DEF EntriesInOrder
<1>5. Accounted'
  <2>1. wanted \subseteq Names /\ NoProcess \notin wanted
    BY DEF ScanTyped, ScanTypeOK
  <2>2. steady' \subseteq steady /\ (file = "live" /\ at \in steady' => file' = "live")
    BY <2>1
  <2>. QED
    BY <2>2 DEF Accounted, ToCome, LookedAt
<1>6. FoundWasNamed' /\ NoneMissed' /\ EachOnce'
  BY DEF FoundWasNamed, NoneMissed, EachOnce
<1>. QED
  BY <1>1, <1>2, <1>3, <1>4, <1>5, <1>6

\* The call.
LEMMA BeginStep ==
  ASSUME ScanInv, NEW c \in {"pid", "apps"}, NEW ns \in SUBSET (Names \ {NoName}), Begin(c, ns)
  PROVE  ScanInv'
<1> USE ScanAssumption DEF ScanInv, Begin, Bearers
<1>1. ScanTyped'
  BY DEF ScanTyped, ScanTypeOK, Phases
<1>2. AtEntry'
  BY DEF AtEntry
<1>3. Seen'
  BY DEF Seen, ScanTyped, ScanTypeOK
<1>4. found = <<>> /\ at = 0 /\ ahead = {} /\ Range(found) = {}
  BY ShortLists DEF AtEntry
<1>5. EntriesInOrder' /\ Accounted' /\ FoundWasNamed' /\ NoneMissed' /\ EachOnce'
  BY <1>4 DEF EntriesInOrder, Accounted, ToCome, FoundWasNamed, NoneMissed, EachOnce
<1>. QED
  BY <1>1, <1>2, <1>3, <1>5

\* Reading the directory.
LEMMA DirStep == ScanInv /\ (Fill \/ NextEntry \/ EndOfDir) => ScanInv'
<1> SUFFICES ASSUME ScanInv, Fill \/ NextEntry \/ EndOfDir PROVE ScanInv'
  OBVIOUS
<1> USE ScanAssumption DEF ScanInv, history
<1>1. /\ phase = "next" /\ at \in Nat /\ ahead \subseteq ScanPids
      /\ UNCHANGED <<procs, wanted, call, file, name, found, history>>
  BY DEF Fill, NextEntry, EndOfDir, ScanTyped, ScanTypeOK
<1>2. ScanTyped'
  BY <1>1 DEF ScanTyped, ScanTypeOK, Phases, Fill, NextEntry, EndOfDir, Listed
<1>3. AtEntry' /\ Seen'
  BY <1>1 DEF AtEntry, Seen, Fill, NextEntry, EndOfDir
<1>4. EntriesInOrder'
  <2>1. (\A p \in Range(found) : p \in Nat /\ p <= at) /\ (\A p \in ahead : p \in Nat /\ p > at)
    BY <1>1 DEF EntriesInOrder, ScanTyped, ScanTypeOK
  <2>2. CASE Fill
    <3>1. \A p \in ahead' : p > at
      BY <2>2 DEF Fill, Listed
    <3>. QED
      BY <1>1, <2>1, <2>2, <3>1 DEF EntriesInOrder, Fill
  <2>3. CASE NextEntry
    <3>1. PICK p \in ahead : (\A q \in ahead : p <= q) /\ at' = p /\ ahead' = ahead \ {p}
      BY <2>3 DEF NextEntry
    <3>2. \A q \in ahead' : q > at'
      BY <2>1, <3>1
    <3>3. \A q \in Range(found) : q <= at' /\ q # at'
      BY <1>1, <2>1, <3>1
    <3>. QED
      BY <1>1, <2>3, <3>2, <3>3 DEF EntriesInOrder, NextEntry
  <2>4. CASE EndOfDir
    BY <1>1, <2>1, <2>4 DEF EntriesInOrder, EndOfDir
  <2>. QED
    BY <2>2, <2>3, <2>4
<1>5. \A p \in steady : p \in ScanPids /\ procs[p] # NoProcess
  BY DEF Seen, ScanTyped, ScanTypeOK
<1>6. \A p \in steady : ToCome(p) \/ p \in Range(found) \cup refused
  BY <1>1 DEF Accounted, LookedAt
<1>7. Accounted'
  <2>1. CASE Fill
    <3>1. PICK k \in Listed : ahead' = {p \in Listed : p <= k} /\ at' = at /\ k \in Nat
      BY <2>1 DEF Fill, Listed
    <3>2. ASSUME NEW p \in steady, ToCome(p) PROVE ToCome(p)'
      <4>1. p \in Listed /\ p \in Nat
        BY <1>5, <3>2 DEF Listed, ToCome
      <4>2. p <= k \/ \A q \in ahead' : q < p
        BY <3>1, <4>1 DEF Listed
      <4>. QED
        BY <3>1, <3>2, <4>1, <4>2 DEF ToCome
    <3>. QED
      BY <1>1, <1>6, <3>2 DEF Accounted
  <2>2. CASE NextEntry
    <3>1. PICK e \in ahead : (\A q \in ahead : e <= q) /\ at' = e /\ ahead' = ahead \ {e}
      BY <2>2 DEF NextEntry
    <3>2. ASSUME NEW p \in steady, ToCome(p) PROVE ToCome(p)' \/ LookedAt(p)'
      <4>1. p \in Nat /\ e \in Nat /\ (p \in ahead \/ \A q \in ahead : q < p)
        BY <1>1, <1>5, <3>1, <3>2 DEF ToCome
      <4>2. CASE p = e
        BY <2>2, <3>1, <4>2 DEF NextEntry, LookedAt
      <4>3. CASE p # e
        BY <3>1, <4>1, <4>3 DEF ToCome
      <4>. QED
        BY <4>2, <4>3
    <3>. QED
      BY <1>1, <1>6, <3>2 DEF Accounted
  <2>3. CASE EndOfDir
    BY <2>3 DEF EndOfDir, Accounted
  <2>. QED
    BY <2>1, <2>2, <2>3
<1>8. NoneMissed'
  <2>1. CASE EndOfDir
    <3>1. \A p \in steady : ~ToCome(p)
      BY <1>5, <2>1 DEF EndOfDir, Listed, ToCome
    <3>. QED
      BY <1>1, <1>6, <3>1 DEF NoneMissed
  <2>2. CASE ~EndOfDir
    BY <2>2 DEF Fill, NextEntry, NoneMissed
  <2>. QED
    BY <2>1, <2>2
<1>9. FoundWasNamed' /\ EachOnce'
  BY <1>1 DEF FoundWasNamed, EachOnce
<1>. QED
  BY <1>2, <1>3, <1>4, <1>7, <1>8, <1>9

\* Opening and reading the file of an entry.
LEMMA FileStep == ScanInv /\ (Open \/ OpenFails \/ ReadCmdline \/ ReadStatus) => ScanInv'
<1> SUFFICES ASSUME ScanInv, Open \/ OpenFails \/ ReadCmdline \/ ReadStatus PROVE ScanInv'
  OBVIOUS
<1> USE ScanAssumption DEF ScanInv
<1>1. /\ phase \in {"open", "read"} /\ at \in ScanPids
      /\ UNCHANGED <<procs, call, wanted, ahead, at, found, steady, named>>
      /\ phase' \in {"next", "read", "test"}
  BY DEF Open, OpenFails, ReadCmdline, ReadStatus, history, AtEntry
<1>2. file = "live" => procs[at] \in Names
  BY <1>1 DEF AtEntry, ScanTyped, ScanTypeOK
<1>3. ScanTyped'
  BY <1>1, <1>2 DEF ScanTyped, ScanTypeOK, Phases, Open, OpenFails, ReadCmdline, ReadStatus, history
<1>4. AtEntry'
  BY <1>1 DEF AtEntry, Open, OpenFails, ReadCmdline, ReadStatus
<1>5. Seen'
  BY <1>1 DEF Seen, Open, OpenFails, ReadCmdline, ReadStatus
<1>6. EntriesInOrder'
  BY <1>1 DEF EntriesInOrder
<1>7. refused \subseteq refused' /\ (OpenFails /\ at \in steady => at \in refused')
  BY DEF Open, OpenFails, ReadCmdline, ReadStatus, history, Seen, ScanTyped, ScanTypeOK
<1>8. ASSUME LookedAt(at), at \in steady PROVE LookedAt(at)' \/ at \in refused'
  BY <1>1, <1>7, <1>8 DEF LookedAt, Open, OpenFails, ReadCmdline, ReadStatus, Seen
<1>9. Accounted'
  BY <1>1, <1>7, <1>8 DEF Accounted, ToCome, LookedAt
<1>10. FoundWasNamed' /\ NoneMissed' /\ EachOnce'
  BY <1>1 DEF FoundWasNamed, NoneMissed, EachOnce
<1>. QED
  BY <1>3, <1>4, <1>5, <1>6, <1>9, <1>10

\* The test of a name.
LEMMA TestStep == ScanInv /\ (TestName \/ TestApp) => ScanInv'
<1> SUFFICES ASSUME ScanInv, TestName \/ TestApp PROVE ScanInv'
  OBVIOUS
<1> USE ScanAssumption DEF ScanInv
<1>1. /\ phase = "test" /\ at \in ScanPids /\ found \in Seq(ScanPids)
      /\ UNCHANGED <<procs, call, wanted, ahead, at, file, name, steady, named, refused>>
  BY DEF TestName, TestApp, history, AtEntry, ScanTyped
<1>2. /\ found' \in Seq(ScanPids) /\ IsInjective(found')
      /\ found' = found \/ (name \in wanted /\ Range(found') = Range(found) \cup {at})
      /\ name \in wanted /\ phase' # "terminated" => Range(found') = Range(found) \cup {at}
  <2>1. CASE TestName
    <3>1. found = <<>> /\ Range(found) = {}
      BY <1>1, <2>1, ShortLists DEF TestName, EntriesInOrder
    <3>. QED
      BY <1>1, <2>1, <3>1, ShortLists DEF TestName, EachOnce
  <2>2. CASE TestApp
    <3>1. at \notin Range(found) /\ IsInjective(found)
      BY <1>1 DEF EntriesInOrder, EachOnce
    <3>. QED
      BY <1>1, <2>2, <3>1, AppendPid DEF TestApp
  <2>. QED
    BY <2>1, <2>2
<1>3. phase' \in {"next", "done", "terminated"} /\ (phase' = "done" => call = "pid" /\ found' # <<>>)
      /\ (call = "pid" /\ phase' # "done" => found' = found)
  <2>1. << at >> # << >>
    OBVIOUS
  <2>2. CASE TestName
    BY <2>1, <2>2 DEF TestName
  <2>3. CASE TestApp
    BY <2>3 DEF TestApp
  <2>. QED
    BY <2>2, <2>3
<1>4. ScanTyped'
  BY <1>1, <1>2, <1>3 DEF ScanTyped, ScanTypeOK, Phases
<1>5. AtEntry'
  BY <1>1, <1>3 DEF AtEntry
<1>6. Seen'
  BY <1>1, <1>3 DEF Seen
<1>7. EntriesInOrder'
  BY <1>1, <1>2, <1>3 DEF EntriesInOrder
<1>8. Accounted'
  <2>1. \A p \in steady : LookedAt(p) => name \in wanted /\ p = at
    BY <1>1 DEF LookedAt
  <2>. QED
    BY <1>1, <1>2, <1>3, <2>1 DEF Accounted, ToCome
<1>9. FoundWasNamed' /\ EachOnce'
  BY <1>1, <1>2 DEF FoundWasNamed, EachOnce, Seen
<1>10. NoneMissed'
  BY <1>1, <1>3 DEF NoneMissed
<1>. QED
  BY <1>4, <1>5, <1>6, <1>7, <1>8, <1>9, <1>10

\* The invariant is inductive.
LEMMA ScanInductive == ScanSpec => []ScanInv
<1>1. ScanInv /\ UNCHANGED scanVars => ScanInv'
  BY DEF scanVars, scan, history, ScanInv, ScanTyped, ScanTypeOK, AtEntry, Seen, EntriesInOrder, Accounted, ToCome,
         LookedAt, FoundWasNamed, NoneMissed, EachOnce
<1>2. ScanInv /\ ScanNext => ScanInv'
  <2> SUFFICES ASSUME ScanInv, ScanNext PROVE ScanInv'
    OBVIOUS
  <2>1. CASE Processes
    BY <2>1, ProcessStep DEF Processes
  <2>2. ASSUME NEW n \in Names \ {NoName}, Begin("pid", {n}) PROVE ScanInv'
    BY <2>2, BeginStep
  <2>3. CASE Begin("apps", Apps)
    BY <2>3, BeginStep, ScanAssumption
  <2>4. CASE Walk
    BY <2>4, DirStep, FileStep, TestStep DEF Walk
  <2>. QED
    BY <2>1, <2>2, <2>3, <2>4 DEF ScanNext
<1>. QED
  BY <1>1, <1>2, ScanInvInit, PTL DEF ScanSpec

--------------------------------------------------------------------------------

\* The walk's variables never leave their types.
THEOREM ScanTypeCorrect == ScanSpec => []ScanTypeOK
<1>1. ScanInv => ScanTypeOK
  BY DEF ScanInv, ScanTyped
<1>. QED
  BY <1>1, ScanInductive, PTL

\* get_pid_by_name and get_all_app_info return no pid whose process has not had
\* the name during the call, although pids are given out again meanwhile.
THEOREM OnlyNamed == ScanSpec => []FoundWasNamed
<1>1. ScanInv => FoundWasNamed
  BY DEF ScanInv
<1>. QED
  BY <1>1, ScanInductive, PTL

\* They leave out no process that has had the name all the time and whose file
\* can be opened, whatever starts and ends around it.
THEOREM NoneLeftOut == ScanSpec => []NoneMissed
<1>1. ScanInv => NoneMissed
  BY DEF ScanInv
<1>. QED
  BY <1>1, ScanInductive, PTL

\* get_all_app_info returns no pid twice.
THEOREM NoneTwice == ScanSpec => []EachOnce
<1>1. ScanInv => EachOnce
  BY DEF ScanInv
<1>. QED
  BY <1>1, ScanInductive, PTL

\* Neither leaves a file open, on any way through its loop.
THEOREM NothingLeftOpen == ScanSpec => []FilesClosed
<1>1. ScanInv => FilesClosed
  BY DEF ScanInv, AtEntry, FilesClosed
<1>. QED
  BY <1>1, ScanInductive, PTL
================================================================================
