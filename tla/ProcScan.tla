-------------------------------- MODULE ProcScan --------------------------------
(***************************************************************************)
(* get_pid_by_name and get_all_app_info (src/src.cpp): a walk through /proc   *)
(* that opens and reads a file of each process it finds there, while          *)
(* processes start, end, and change their names (as an app's does, forked      *)
(* from the zygote), and pids are given out again.                           *)
(*                                                                         *)
(* The directory stream hands out the pids in ascending order, and reads as    *)
(* many of them ahead as it likes.  A file that is open belongs to one         *)
(* process: once that has ended, there is nothing to read in it, whoever has    *)
(* its pid.  What the status file is made into is Package's subject; here a    *)
(* process is an app's or not by its name.                                   *)
(***************************************************************************)
EXTENDS Integers, Sequences, Functions

CONSTANTS ScanPids, \* a set of positive integers
          Names,    \* names of processes
          NoName,   \* what a kernel thread's empty command line reads as
          Apps,     \* the names of apps
          NoProcess

ASSUME ScanAssumption == ScanPids \subseteq Nat \ {0} /\ Apps \subseteq Names \ {NoName}
                     /\ NoName \in Names /\ NoProcess \notin Names

VARIABLES procs,    \* the name of the process under each pid, or NoProcess
          call,     \* "pid" or "apps": which of the functions is called
          wanted,   \* the names it looks for
          phase,    \* where it is
          ahead,    \* the pids readdir has read and not yet handed out
          at,       \* the entry the function is at, or 0
          file,     \* "closed", "live", or "stale" when its process has ended
          name,     \* what has been read of it
          found,    \* the pids the function will return
          steady,   \* history: pids under which one process has had a wanted name
                    \* ever since the call
          named,    \* history: pids under which one has had it at some time
          refused   \* history: pids whose file could not be opened all the same

history == <<steady, named, refused>>
scan == <<call, wanted, phase, ahead, at, name, found>>
scanVars == <<procs, scan, file, history>>

Phases == {"idle", "next", "open", "read", "test", "done", "failed", "terminated"}

ScanInit == /\ procs \in [ScanPids -> Names \cup {NoProcess}]
            /\ call = "pid" /\ wanted = {} /\ phase = "idle"
            /\ ahead = {} /\ at = 0
            /\ file = "closed" /\ name = NoName
            /\ found = <<>>
            /\ steady = {} /\ named = {} /\ refused = {}

--------------------------------------------------------------------------------
(* The other processes *)

\* The process under p becomes n: it starts, changes its name, or ends.
Becomes(p, n) ==
    /\ procs' = [procs EXCEPT ![p] = n]
    /\ file' = IF n = NoProcess /\ at = p /\ file = "live" THEN "stale" ELSE file
    /\ steady' = IF n \in wanted THEN steady ELSE steady \ {p}
    /\ named' = IF n \in wanted THEN named \cup {p} ELSE named
    /\ UNCHANGED <<scan, refused>>

Processes == \E p \in ScanPids, n \in Names \cup {NoProcess} : n # procs[p] /\ Becomes(p, n)

--------------------------------------------------------------------------------
(* The walk *)

Bearers(ns) == {p \in ScanPids : procs[p] \in ns}

\* The call, and opendir, which may fail.
Begin(c, ns) == /\ phase = "idle"
                /\ call' = c
                /\ wanted' = ns
                /\ phase' \in {"next", "failed"}
                /\ steady' = Bearers(ns)
                /\ named' = Bearers(ns)
                /\ UNCHANGED <<procs, ahead, at, file, name, found, refused>>

Listed == {p \in ScanPids : procs[p] # NoProcess /\ p > at}

\* readdir with nothing read ahead: some of the next pids there are now.
Fill == /\ phase = "next" /\ ahead = {} /\ Listed # {}
        /\ \E k \in Listed : ahead' = {p \in Listed : p <= k}
        /\ UNCHANGED <<procs, call, wanted, phase, at, file, name, found, history>>

NextEntry == /\ phase = "next"
             /\ \E p \in ahead : /\ \A q \in ahead : p <= q
                                /\ at' = p
                                /\ ahead' = ahead \ {p}
             /\ phase' = "open"
             /\ UNCHANGED <<procs, call, wanted, file, name, found, history>>

\* readdir has come to the end: closedir, and what was found is returned.
EndOfDir == /\ phase = "next" /\ ahead = {} /\ Listed = {}
            /\ phase' = "done"
            /\ UNCHANGED <<procs, call, wanted, ahead, at, file, name, found, history>>

Open == /\ phase = "open" /\ procs[at] # NoProcess
        /\ file' = "live"
        /\ phase' = "read"
        /\ UNCHANGED <<procs, call, wanted, ahead, at, name, found, history>>

\* Mutant: what cannot be opened is tried again.
OpenFailsRetry == /\ phase = "open"
                  /\ refused' = IF procs[at] = NoProcess THEN refused ELSE refused \cup {at}
                  /\ UNCHANGED <<procs, scan, file, steady, named>>

\* Mutant: after what cannot be opened the directory is read from its beginning.
OpenFailsRewinds == /\ phase = "open"
                    /\ refused' = IF procs[at] = NoProcess THEN refused ELSE refused \cup {at}
                    /\ phase' = "next"
                    /\ at' = 0 /\ ahead' = {}
                    /\ UNCHANGED <<procs, call, wanted, file, name, found, steady, named>>

\* There is no such process any more, or the file may not be opened.
OpenFails == /\ phase = "open"
             /\ refused' = IF procs[at] = NoProcess THEN refused ELSE refused \cup {at}
             /\ phase' = "next"
             /\ UNCHANGED <<procs, call, wanted, ahead, at, file, name, found, steady, named>>

\* Mutant: break instead of continue.
ReadCmdlineBreaks == /\ phase = "read" /\ call = "pid"
                     /\ file' = "closed"
                     /\ name' = IF file = "live" THEN procs[at] ELSE NoName
                     /\ phase' = IF name' = NoName THEN "done" ELSE "test"
                     /\ UNCHANGED <<procs, call, wanted, ahead, at, found, history>>

\* get_pid_by_name: read and close.  Nothing is read of a process that has ended
\* and of a kernel thread, and then the next entry is looked at.
ReadCmdline == /\ phase = "read" /\ call = "pid"
               /\ file' = "closed"
               /\ name' = IF file = "live" THEN procs[at] ELSE NoName
               /\ phase' = IF name' = NoName THEN "next" ELSE "test"
               /\ UNCHANGED <<procs, call, wanted, ahead, at, found, history>>

\* Mutant: the first failing read leaves the file open.
ReadStatusLeaking == /\ phase = "read" /\ call = "apps"
                     /\ file' = IF file = "live" THEN "closed" ELSE file
                     /\ name' = IF file = "live" THEN procs[at] ELSE NoName
                     /\ phase' = "test"
                     /\ UNCHANGED <<procs, call, wanted, ahead, at, found, history>>

\* Mutant: what another package has read is still in the buffer.
ReadStatusShared == /\ phase = "read" /\ call = "apps"
                    /\ file' = "closed"
                    /\ name' = IF file = "live" THEN procs[at] ELSE name
                    /\ phase' = "test"
                    /\ UNCHANGED <<procs, call, wanted, ahead, at, found, history>>

\* get_all_app_info: read_file, for a new package.  Of a process that has ended
\* there is nothing, and the package stays without a name.
ReadStatus == /\ phase = "read" /\ call = "apps"
              /\ file' = "closed"
              /\ name' = IF file = "live" THEN procs[at] ELSE NoName
              /\ phase' = "test"
              /\ UNCHANGED <<procs, call, wanted, ahead, at, found, history>>

\* get_pid_by_name: the first match is returned.
TestName == /\ phase = "test" /\ call = "pid"
            /\ IF name \in wanted THEN found' = <<at>> /\ phase' = "done"
               ELSE UNCHANGED found /\ phase' = "next"
            /\ UNCHANGED <<procs, call, wanted, ahead, at, file, name, history>>

\* get_all_app_info: is_app, and the package of an app goes into the result.  The
\* directory walk by which is_app looks a name up may throw, out of a function
\* that is noexcept, and then the program ends.
TestApp == /\ phase = "test" /\ call = "apps"
           /\ \/ /\ found' = IF name \in wanted THEN Append(found, at) ELSE found
                 /\ phase' = "next"
              \/ /\ name # NoName
                 /\ phase' = "terminated"
                 /\ UNCHANGED found
           /\ UNCHANGED <<procs, call, wanted, ahead, at, file, name, history>>

Walk == \/ Fill \/ NextEntry \/ EndOfDir
        \/ Open \/ OpenFails
        \/ ReadCmdline \/ ReadStatus \/ TestName \/ TestApp
ScanNext == \/ Processes
            \/ \E n \in Names \ {NoName} : Begin("pid", {n})
            \/ Begin("apps", Apps)
            \/ Walk
\* The program runs on, whatever the other processes do.
ScanSpec == ScanInit /\ [][ScanNext]_scanVars /\ WF_scanVars(Walk)

--------------------------------------------------------------------------------
(* Properties *)

ScanTypeOK == /\ procs \in [ScanPids -> Names \cup {NoProcess}]
              /\ call \in {"pid", "apps"} /\ wanted \subseteq Names
              /\ phase \in Phases
              /\ ahead \subseteq ScanPids /\ at \in ScanPids \cup {0}
              /\ file \in {"closed", "live", "stale"} /\ name \in Names
              /\ Range(found) \subseteq ScanPids
              /\ steady \subseteq named /\ named \subseteq ScanPids /\ refused \subseteq ScanPids

\* What is returned has had the name during the call, although pids are given
\* out again between readdir, open and read.
FoundWasNamed == Range(found) \subseteq named

\* get_pid_by_name returns 0, and get_all_app_info leaves a process out, only if
\* the process has not had the name all the time or its file was refused.
NoneMissed == phase = "done" /\ ~(call = "pid" /\ found # <<>>) =>
                  steady \subseteq Range(found) \cup refused

\* No pid is returned twice, be it given to another app during the walk.
EachOnce == IsInjective(found)

\* No file is left open when the next one is opened, or at the end.
FilesClosed == phase \in {"next", "open", "test", "done"} => file = "closed"

\* The walk comes to its end, whatever starts and ends meanwhile: it returns, or
\* is_app has ended the program.
ScanEnds == phase = "next" ~> phase \in {"done", "terminated"}
================================================================================
