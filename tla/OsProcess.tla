------------------------------- MODULE OsProcess -------------------------------
(***************************************************************************)
(* Processes and directories of platform/windows/me_os_win.cpp: the watch    *)
(* on a child process and the creation of a directory path.  The kernel is  *)
(* external; every call that can fail may fail.                             *)
(***************************************************************************)
EXTENDS Integers

CONSTANT None   \* nothing at a path, or no answer yet

VARIABLES watch,   \* one child process and its meProcessWatchData
          tree     \* the directory path that is created, and the answer

vars == <<watch, tree>>

NoWatch == [run |-> "none", data |-> "none", wait |-> "none", calls |-> 0,
            process |-> "none"]

Init == /\ watch = NoWatch
        /\ tree \in [at : {at \in [1 .. 2 -> {None, "dir", "file"}] :
                                at[2] # None => at[1] = "dir"}, answer : {None}]

-----------------------------------------------------------------------------
(* meOSRunProcessAsync, ProcessExitCallback, meOSWaitForProcess *)

\* CreateProcessA; with a callback the watch data is allocated.
RunProcess(callback) ==
    /\ watch.run = "none"
    /\ watch' = [watch EXCEPT !.run = "running", !.process = "open",
                              !.data = IF callback THEN "live" ELSE "none"]
    /\ UNCHANGED tree

\* RegisterWaitForSingleObject: the wait exists before the caller stores its
\* handle; a failure is not looked at.
RegisterWait ==
    /\ watch.data = "live" /\ watch.wait = "none"
    /\ \E w \in {"registered", "refused"} : watch' = [watch EXCEPT !.wait = w]
    /\ UNCHANGED tree

\* The handle is written into the watch data; when the callback overtook the caller
\* that is freed memory, and the wait is never closed.
StoreWait ==
    /\ watch.wait \in {"registered", "leaked"}
    /\ watch' = [watch EXCEPT !.wait = IF watch.wait = "registered" THEN "stored" ELSE "lost"]
    /\ UNCHANGED tree

ProcessExits ==
    /\ watch.run = "running"
    /\ watch' = [watch EXCEPT !.run = "exited"]
    /\ UNCHANGED tree

\* Mutant: the callback is not told that the wait is used up.
CallbackAgain ==
    /\ watch.run = "exited" /\ watch.data = "live" /\ watch.wait \in {"registered", "stored"}
    /\ watch.calls < 2
    /\ watch' = [watch EXCEPT !.process = "closed", !.calls = @ + 1]
    /\ UNCHANGED tree

ExitCallback ==
    /\ watch.run = "exited" /\ watch.data = "live" /\ watch.wait \in {"registered", "stored"}
    /\ watch' = [watch EXCEPT !.wait = IF watch.wait = "stored" THEN "closed" ELSE "leaked",
                              !.process = "closed", !.calls = @ + 1, !.data = "freed"]
    /\ UNCHANGED tree

WaitForProcess ==
    /\ watch.run = "exited" /\ watch.data = "none" /\ watch.process = "open"
    /\ watch' = [watch EXCEPT !.process = "closed"]
    /\ UNCHANGED tree

-----------------------------------------------------------------------------
\* CreateRecursiveDirectory for a path of two parts. A part that is no directory
\* is created: that fails below a file or by the disk, and a file of that name
\* counts as made.
Make(at, n) ==
    CASE at[n] # None -> {[at |-> at, ok |-> TRUE]}
      [] n > 1 /\ at[n - 1] # "dir" -> {[at |-> at, ok |-> FALSE]}
      [] OTHER -> {[at |-> at, ok |-> FALSE], [at |-> [at EXCEPT ![n] = "dir"], ok |-> TRUE]}

EnsureDirectoriesExist ==
    /\ tree.answer = None
    /\ \E first \in Make(tree.at, 1) :
        IF ~first.ok THEN tree' = [at |-> first.at, answer |-> FALSE]
        ELSE \E last \in Make(first.at, 2) : tree' = [at |-> last.at, answer |-> last.ok]
    /\ UNCHANGED watch

Next == \/ \E callback \in BOOLEAN : RunProcess(callback)
        \/ RegisterWait \/ StoreWait \/ ProcessExits \/ ExitCallback \/ WaitForProcess
        \/ EnsureDirectoriesExist

Spec == Init /\ [][Next]_vars

-----------------------------------------------------------------------------
TypeOK == /\ watch.run \in {"none", "running", "exited"}
          /\ watch.wait \in {"none", "registered", "refused", "stored", "leaked", "lost", "closed"}
          /\ watch.data \in {"none", "live", "freed"}

\* The exit of a watched process is told at most once and after it, with the process's
\* handle closed and the watch data freed then and only then.
ExitIsToldOnce ==
    /\ watch.calls <= 1
    /\ watch.calls = 1 => watch.run = "exited" /\ watch.process = "closed"
    /\ watch.data = "freed" <=> watch.calls = 1

\* me_os.h:127 says that a callback that is given is called when the process exits: no
\* process ends with a watch that the system refused.
ExitIsTold == watch.run = "exited" /\ watch.data = "live" => watch.wait # "refused"

\* A path reported as made is made of directories, unless a file bears its name.
PathIsMade == tree.answer = TRUE => tree.at[1] = "dir" /\ tree.at[2] # None
=============================================================================
