------------------------------ MODULE Install ------------------------------
(***************************************************************************)
(* The fetchers' installs: fetch_dormann_tests.py's _install puts a file   *)
(* in place by way of a .new and a .old beside it, and                     *)
(* fetch_test_vectors.py's _install_atomically a directory by way of a     *)
(* .old.  Any call to the system may fail, the script may be killed        *)
(* between any two of them, and it may be run again; two never run at once *)
(* here.  What is staged is complete: both scripts check it first.         *)
(***************************************************************************)
EXTENDS Naturals

CONSTANT MaxRuns  \* bound: how often the script is run

ASSUME MaxRunsAssumption == MaxRuns \in Nat

VARIABLES
  way,       \* which of the two installs this is
  entry,     \* what is at each of the paths
  place,     \* the call that the install makes next; "idle" between runs
  runs,
  before,    \* what the run found at the target; the tree's had_existing
  outcome,   \* how the last run ended
  had        \* there has been something to read at the target

vars == <<way, entry, place, runs, before, outcome, had>>

Paths == {"staged", "temporary", "target", "backup"}

(* A copy is named by the run that staged it, 0 for one that was there.    *)
(* Of a symbolic link there is told apart whether it leads anywhere.       *)
Nothing == [kind |-> "none", of |-> 0]
Copy(n) == [kind |-> "copy", of |-> n]
Partial == [kind |-> "partial", of |-> 0]
Link(k) == [kind |-> k, of |-> 0]
Entries ==
  {Nothing, Partial, Link("live"), Link("dangling")} \cup {Copy(n) : n \in 0..MaxRuns}

(* Path.exists follows a link, is_symlink does not. *)
Exists(e)    == e.kind \in {"copy", "partial", "live"}
IsSymlink(e) == e.kind \in {"live", "dangling"}
Complete(e)  == e.kind \in {"copy", "live"}

Init ==
  /\ way \in {"file", "tree"}
  /\ \E e \in {Nothing, Copy(0), Link("live"), Link("dangling")} :
       /\ entry = [path \in Paths |-> IF path = "target" THEN e ELSE Nothing]
       /\ before = e /\ had = Exists(e)
  /\ place = "idle" /\ runs = 0 /\ outcome = "none"

Replaced(from, to) == [entry EXCEPT ![to] = entry[from], ![from] = Nothing]
Without(path) == [entry EXCEPT ![path] = Nothing]

Ends(result) == place' = "idle" /\ outcome' = result
GoesTo(next) == place' = next /\ UNCHANGED outcome

-----------------------------------------------------------------------------
(* The script is run, and has its staged copy.  A run that fails before    *)
(* that touches none of the paths.                                         *)
Start ==
  /\ place = "idle" /\ runs < MaxRuns
  /\ runs' = runs + 1
  /\ entry' = [entry EXCEPT !["staged"] = Copy(runs')]
  /\ before' = entry["target"]
  /\ place' = "check" /\ outcome' = "none"
  /\ UNCHANGED <<way, had>>

Leftover ==
  IF way = "file" THEN Exists(entry["temporary"]) \/ Exists(entry["backup"])
  ELSE Exists(entry["backup"]) \/ IsSymlink(entry["backup"])

Refuse ==
  /\ place = "check" /\ Leftover
  /\ Ends("refused")
  /\ UNCHANGED <<way, entry, runs, before, had>>

Check ==
  /\ place = "check" /\ ~ Leftover
  /\ GoesTo(IF way = "file" THEN "stage" ELSE "keep")
  /\ UNCHANGED <<way, entry, runs, before, had>>

Stage ==
  /\ place = "stage"
  /\ entry' = Replaced("staged", "temporary")
  /\ GoesTo("keep")
  /\ UNCHANGED <<way, runs, before, had>>

(* What is at the target is moved aside. *)
IsThere == Exists(entry["target"]) \/ IsSymlink(entry["target"])

Keep ==
  /\ place = "keep"
  /\ entry' = IF IsThere THEN Replaced("target", "backup") ELSE entry
  /\ GoesTo("put")
  /\ UNCHANGED <<way, runs, before, had>>

Put ==
  /\ place = "put"
  /\ entry' = Replaced(IF way = "file" THEN "temporary" ELSE "staged", "target")
  /\ had' = TRUE
  /\ GoesTo("clean")
  /\ UNCHANGED <<way, runs, before>>

(* One of the three renames raises OSError. *)
RenameFails ==
  /\ \/ place \in {"stage", "put"}
     \/ place = "keep" /\ IsThere
  /\ GoesTo("restore")
  /\ UNCHANGED <<way, entry, runs, before, had>>

-----------------------------------------------------------------------------
(* The handler: what was moved aside is put back. *)
HadExisting == before # Nothing

MovedAside ==
  /\ way = "tree" => HadExisting
  /\ Exists(entry["backup"]) /\ ~ Exists(entry["target"])

(* Faulty: the copy moved aside is deleted when it cannot be put back. *)
RestoreFinally ==
  /\ place = "restore"
  /\ \/ MovedAside /\ entry' = Replaced("backup", "target") /\ GoesTo("discard")
     \/ MovedAside /\ entry' = Without("backup") /\ Ends("raised")
     \/ ~ MovedAside /\ entry' = entry /\ GoesTo("discard")
  /\ UNCHANGED <<way, runs, before, had>>

Restore ==
  /\ place = "restore"
  /\ \/ MovedAside /\ entry' = Replaced("backup", "target") /\ GoesTo("discard")
     \/ MovedAside /\ entry' = entry /\ Ends("raised")
     \/ ~ MovedAside /\ entry' = entry /\ GoesTo("discard")
  /\ UNCHANGED <<way, runs, before, had>>

(* Faulty: the .new is left behind. *)
DiscardNothing ==
  /\ place = "discard"
  /\ entry' = entry /\ Ends("failed")
  /\ UNCHANGED <<way, runs, before, had>>

(* The file's handler deletes its .new; both raise. *)
Discard ==
  /\ place = "discard"
  /\ \/ way = "file" /\ entry' = Without("temporary") /\ Ends("failed")
     \/ way = "file" /\ Exists(entry["temporary"]) /\ entry' = entry /\ Ends("raised")
     \/ way = "tree" /\ entry' = entry /\ Ends("failed")
  /\ UNCHANGED <<way, runs, before, had>>

(* Faulty: only a link is deleted. *)
CleanLinks ==
  /\ place = "clean"
  /\ entry' = IF IsSymlink(entry["backup"]) THEN Without("backup") ELSE entry
  /\ Ends("installed")
  /\ UNCHANGED <<way, runs, before, had>>

(* The old one is deleted: unlink does or raises, rmtree may stop half     *)
(* way, and raises for a link.                                             *)
Clean ==
  /\ place = "clean"
  /\ \/ /\ ~ Exists(entry["backup"])
        /\ entry' = entry /\ Ends("installed")
     \/ /\ Exists(entry["backup"])
        /\ way = "tree" => ~ IsSymlink(entry["backup"])
        /\ entry' = Without("backup") /\ Ends("installed")
     \/ /\ Exists(entry["backup"])
        /\ entry' = entry /\ Ends("raised")
     \/ /\ way = "tree" /\ entry["backup"].kind = "copy"
        /\ entry' = [entry EXCEPT !["backup"] = Partial]
        /\ \/ GoesTo("clean")
           \/ Ends("raised")
  /\ UNCHANGED <<way, runs, before, had>>

(* The script is killed. *)
Crash ==
  /\ place # "idle"
  /\ Ends("crashed")
  /\ UNCHANGED <<way, entry, runs, before, had>>

Next ==
  \/ Start \/ Refuse \/ Check \/ Stage \/ Keep \/ Put \/ RenameFails
  \/ Restore \/ Discard \/ Clean \/ Crash

Spec == Init /\ [][Next]_vars
-----------------------------------------------------------------------------
TypeOK ==
  /\ way \in {"file", "tree"}
  /\ entry \in [Paths -> Entries] /\ before \in Entries
  /\ place \in {"idle", "check", "stage", "keep", "put", "clean", "restore", "discard"}
  /\ runs \in 0..MaxRuns
  /\ outcome \in {"none", "installed", "failed", "raised", "refused", "crashed"}
  /\ had \in BOOLEAN

(* Once there has been a file or corpus to run the tests on, there is a    *)
(* whole one at the target or beside it, whatever fails, wherever the      *)
(* script is killed and however often it is run after that.                *)
CopySurvives ==
  had => \E path \in {"target", "backup"} : Complete(entry[path])

(* "unable to install" means that the target is what it was and that the   *)
(* next run is not refused, unless what was there was a link that leads    *)
(* nowhere (fetch_dormann_tests.py:119, fetch_test_vectors.py:115).        *)
FailureIsUndone ==
  (outcome = "failed" /\ before.kind # "dangling") =>
    entry["target"] = before /\ ~ Leftover

(* A run that reports success has put its own copy in place and, but for a *)
(* link that leads nowhere, leaves nothing beside it.                      *)
SuccessIsClean ==
  outcome = "installed" =>
    /\ entry["target"] = Copy(runs)
    /\ before.kind # "dangling" => ~ Leftover
=============================================================================
