--------------------------- MODULE InstallProofs ---------------------------
(***************************************************************************)
(* However often a fetcher is run, a whole copy survives; an install that  *)
(* says it failed is undone, and one that says it succeeded is clean.      *)
(***************************************************************************)
EXTENDS Install, TLAPS

USE MaxRunsAssumption

(* Nothing beside the target would stop the next run. *)
BackupFree    == ~ Exists(entry["backup"]) /\ (way = "tree" => ~ IsSymlink(entry["backup"]))
TemporaryFree == way = "file" => ~ Exists(entry["temporary"])

Untouched == entry["target"] = before /\ BackupFree

(* What the run found is at the backup, if there was anything. *)
Aside ==
  /\ entry["target"] = Nothing
  /\ IF HadExisting THEN entry["backup"] = before ELSE BackupFree

(* Where the run's own copy waits to be put in place. *)
Source == IF way = "file" THEN "temporary" ELSE "staged"

(* What is known at each place of an install. *)
PlaceInv ==
  /\ before # Partial /\ entry["target"] # Partial
  /\ place # "idle" => outcome = "none"
  /\ place = "check" => entry["target"] = before /\ entry["staged"] = Copy(runs)
  /\ place = "stage" =>
       /\ Untouched /\ TemporaryFree
       /\ way = "file" /\ entry["staged"] = Copy(runs)
  /\ place = "keep" => Untouched /\ entry[Source] = Copy(runs)
  /\ place = "put" => Aside /\ entry[Source] = Copy(runs)
  /\ place = "clean" =>
       /\ entry["target"] = Copy(runs) /\ TemporaryFree
       /\ before.kind # "dangling" /\ ~ Exists(entry["backup"]) => BackupFree
  /\ place = "restore" => Untouched \/ Aside
  /\ place = "discard" /\ before.kind # "dangling" => Untouched

IInv == TypeOK /\ PlaceInv /\ CopySurvives /\ FailureIsUndone /\ SuccessIsClean

-----------------------------------------------------------------------------
LEMMA LeftoverIs == ASSUME TypeOK PROVE ~ Leftover <=> BackupFree /\ TemporaryFree
BY DEF TypeOK, Leftover, BackupFree, TemporaryFree

LEMMA Kinds ==
  /\ ~ Exists(Nothing) /\ ~ IsSymlink(Nothing) /\ Nothing \in Entries
  /\ Exists(Partial) /\ ~ Complete(Partial) /\ Partial \in Entries
  /\ \A n \in 0..MaxRuns : Complete(Copy(n)) /\ Copy(n) \in Entries
  /\ \A n \in 0..MaxRuns : Copy(n) # Partial /\ Copy(n) # Nothing /\ Nothing # Partial
  /\ \A e \in Entries :
       /\ Complete(e) => Exists(e)
       /\ Exists(e) /\ e # Partial => Complete(e)
       /\ ~ Exists(e) /\ ~ IsSymlink(e) => e = Nothing
<1> USE DEF Exists, IsSymlink, Complete, Nothing, Partial, Copy, Link
<1>1. /\ ~ Exists(Nothing) /\ ~ IsSymlink(Nothing) /\ Nothing \in Entries
      /\ Exists(Partial) /\ ~ Complete(Partial) /\ Partial \in Entries
  BY DEF Entries
<1>2. ASSUME NEW n \in 0..MaxRuns
      PROVE  /\ Complete(Copy(n)) /\ Copy(n) \in Entries
             /\ Copy(n) # Partial /\ Copy(n) # Nothing
  BY DEF Entries
<1>3. Nothing # Partial
  OBVIOUS
<1>4. ASSUME NEW e \in Entries
      PROVE  /\ Complete(e) => Exists(e)
             /\ Exists(e) /\ e # Partial => Complete(e)
             /\ ~ Exists(e) /\ ~ IsSymlink(e) => e = Nothing
  <2>1. CASE e \in {Nothing, Partial, Link("live"), Link("dangling")}
    BY <2>1
  <2>2. CASE e \in {Copy(n) : n \in 0..MaxRuns}
    BY <2>2
  <2> QED
    BY <2>1, <2>2 DEF Entries
<1> HIDE DEF Exists, IsSymlink, Complete, Nothing, Partial, Copy, Link
<1> QED
  BY <1>1, <1>2, <1>3, <1>4

LEMMA InitIInv == Init => IInv
<1> SUFFICES ASSUME Init  PROVE IInv
  OBVIOUS
<1>1. PICK e \in {Nothing, Copy(0), Link("live"), Link("dangling")} :
        /\ entry = [path \in Paths |-> IF path = "target" THEN e ELSE Nothing]
        /\ before = e /\ had = Exists(e)
  BY DEF Init
<1>2. /\ e \in Entries /\ (Exists(e) => Complete(e)) /\ Exists(e) \in BOOLEAN
      /\ e # Partial
  BY DEF Nothing, Copy, Link, Partial, Entries, Exists, Complete
<1>3. entry["target"] = e /\ entry \in [Paths -> Entries]
  BY <1>1, <1>2, Kinds DEF Paths
<1> QED
  BY <1>1, <1>2, <1>3 DEF Init, IInv, TypeOK, PlaceInv, CopySurvives, FailureIsUndone,
    SuccessIsClean

-----------------------------------------------------------------------------
(* Each step of an install keeps it. *)
LEMMA StartKeepsIInv == IInv /\ Start => IInv'
<1> SUFFICES ASSUME IInv, Start  PROVE IInv'
  OBVIOUS
<1>1. /\ runs' = runs + 1 /\ runs' \in 0..MaxRuns /\ entry \in [Paths -> Entries]
      /\ entry' = [entry EXCEPT !["staged"] = Copy(runs')]
      /\ before' = entry["target"] /\ place' = "check" /\ outcome' = "none"
      /\ way' = way /\ had' = had
  BY DEF IInv, TypeOK, Start
<1>2. /\ entry' \in [Paths -> Entries] /\ entry'["staged"] = Copy(runs')
      /\ entry'["target"] = entry["target"] /\ entry'["backup"] = entry["backup"]
      /\ before' \in Entries
  BY <1>1, Kinds DEF Paths
<1>3. CopySurvives'
  BY <1>1, <1>2 DEF IInv, CopySurvives
<1> QED
  BY <1>1, <1>2, <1>3 DEF IInv, TypeOK, PlaceInv, FailureIsUndone, SuccessIsClean

LEMMA CheckKeepsIInv == IInv /\ (Refuse \/ Check) => IInv'
<1> SUFFICES ASSUME IInv, Refuse \/ Check  PROVE IInv'
  OBVIOUS
<1>1. place = "check" /\ UNCHANGED <<way, entry, runs, before, had>>
  BY DEF Refuse, Check
<1>2. CopySurvives'
  BY <1>1 DEF IInv, CopySurvives
<1>3. CASE Refuse
  BY <1>1, <1>2, <1>3 DEF Refuse, Ends, IInv, TypeOK, PlaceInv, FailureIsUndone, SuccessIsClean
<1>4. CASE Check
  <2>1. /\ outcome' = outcome /\ outcome = "none" /\ way \in {"file", "tree"}
        /\ place' = IF way = "file" THEN "stage" ELSE "keep"
    BY <1>1, <1>4 DEF Check, GoesTo, IInv, TypeOK, PlaceInv
  <2>2. BackupFree /\ TemporaryFree /\ entry["target"] = before /\ entry["staged"] = Copy(runs)
    BY <1>1, <1>4, LeftoverIs DEF Check, IInv, PlaceInv
  <2>3. PlaceInv'
    BY <1>1, <2>1, <2>2 DEF IInv, PlaceInv, Untouched, BackupFree, TemporaryFree, Source, Copy
  <2> QED
    BY <1>1, <1>2, <2>1, <2>3 DEF IInv, TypeOK, FailureIsUndone, SuccessIsClean
<1> QED
  BY <1>3, <1>4

LEMMA StageKeepsIInv == IInv /\ Stage => IInv'
<1> SUFFICES ASSUME IInv, Stage  PROVE IInv'
  OBVIOUS
<1>1. /\ entry \in [Paths -> Entries] /\ way = "file" /\ outcome = "none"
      /\ entry' = [entry EXCEPT !["temporary"] = entry["staged"], !["staged"] = Nothing]
      /\ entry["staged"] = Copy(runs) /\ Untouched
      /\ place' = "keep" /\ outcome' = outcome /\ UNCHANGED <<way, runs, before, had>>
  BY DEF IInv, TypeOK, PlaceInv, Stage, Replaced, GoesTo
<1>2. /\ entry' \in [Paths -> Entries] /\ entry'["temporary"] = Copy(runs)
      /\ entry'["target"] = entry["target"] /\ entry'["backup"] = entry["backup"]
  BY <1>1, Kinds DEF Paths
<1>3. CopySurvives'
  BY <1>1, <1>2 DEF IInv, CopySurvives
<1>4. PlaceInv'
  BY <1>1, <1>2 DEF IInv, PlaceInv, Untouched, BackupFree, Source, Copy
<1> QED
  BY <1>1, <1>2, <1>3, <1>4 DEF IInv, TypeOK, FailureIsUndone, SuccessIsClean

LEMMA KeepKeepsIInv == IInv /\ Keep => IInv'
<1> SUFFICES ASSUME IInv, Keep  PROVE IInv'
  OBVIOUS
<1>1. /\ entry \in [Paths -> Entries] /\ way \in {"file", "tree"} /\ outcome = "none"
      /\ entry[Source] = Copy(runs) /\ entry["target"] = before /\ BackupFree
      /\ entry' = IF IsThere
                  THEN [entry EXCEPT !["backup"] = entry["target"], !["target"] = Nothing]
                  ELSE entry
      /\ place' = "put" /\ outcome' = outcome /\ UNCHANGED <<way, runs, before, had>>
  BY DEF IInv, TypeOK, PlaceInv, Untouched, Keep, Replaced, GoesTo
<1>2. before \in Entries /\ (Complete(before) => Exists(before))
  BY Kinds DEF IInv, TypeOK
<1>3. Source \in {"temporary", "staged"} /\ Source' = Source
  BY <1>1 DEF Source
<1>4. CASE IsThere
  <2>1. /\ entry' \in [Paths -> Entries]
        /\ entry'["backup"] = before /\ entry'["target"] = Nothing
        /\ entry'[Source'] = Copy(runs)
    BY <1>1, <1>3, <1>4, Kinds DEF Paths
  <2>2. before # Nothing
    BY <1>1, <1>4, Kinds DEF IsThere
  <2>3. Aside'
    BY <1>1, <2>1, <2>2 DEF Aside, HadExisting, Nothing
  <2>4. CopySurvives'
    <3>1. had => Complete(before)
      BY <1>1, Kinds DEF IInv, TypeOK, CopySurvives, BackupFree, Paths
    <3> QED
      BY <1>1, <2>1, <3>1 DEF CopySurvives, Complete
  <2>5. PlaceInv'
    BY <1>1, <2>1, <2>3, Kinds DEF IInv, PlaceInv, Copy
  <2> QED
    BY <1>1, <2>1, <2>4, <2>5 DEF IInv, TypeOK, FailureIsUndone, SuccessIsClean
<1>5. CASE ~ IsThere
  <2>1. entry' = entry /\ before = Nothing /\ ~ Complete(before)
    BY <1>1, <1>2, <1>5, Kinds DEF IsThere
  <2>2. Aside'
    BY <1>1, <2>1 DEF Aside, HadExisting, BackupFree
  <2>3. PlaceInv'
    BY <1>1, <1>3, <2>1, <2>2 DEF IInv, PlaceInv, Copy
  <2> QED
    BY <1>1, <2>1, <2>3 DEF IInv, TypeOK, CopySurvives, FailureIsUndone, SuccessIsClean
<1> QED
  BY <1>4, <1>5

LEMMA PutKeepsIInv == IInv /\ Put => IInv'
<1> SUFFICES ASSUME IInv, Put  PROVE IInv'
  OBVIOUS
<1>1. /\ entry \in [Paths -> Entries] /\ way \in {"file", "tree"} /\ outcome = "none"
      /\ entry[Source] = Copy(runs) /\ runs \in 0..MaxRuns /\ Aside
      /\ entry' = [entry EXCEPT !["target"] = entry[Source], ![Source] = Nothing]
      /\ had' = TRUE
      /\ place' = "clean" /\ outcome' = outcome /\ UNCHANGED <<way, runs, before>>
  BY DEF IInv, TypeOK, PlaceInv, Put, Replaced, GoesTo, Source
<1>2. Source \in {"temporary", "staged"} /\ (way = "file" => Source = "temporary")
  BY <1>1 DEF Source
<1>3. /\ entry' \in [Paths -> Entries] /\ entry'["target"] = Copy(runs)
      /\ entry'["backup"] = entry["backup"]
      /\ way = "file" => entry'["temporary"] = Nothing
  BY <1>1, <1>2, Kinds DEF Paths
<1>4. TemporaryFree'
  BY <1>1, <1>3, Kinds DEF TemporaryFree
<1>5. before.kind # "dangling" /\ ~ Exists(entry'["backup"]) => BackupFree'
  <2>1. CASE HadExisting
    BY <1>1, <1>3, <2>1 DEF Aside, BackupFree, Exists, IsSymlink
  <2>2. CASE ~ HadExisting
    BY <1>1, <1>3, <2>2 DEF Aside, BackupFree, Exists, IsSymlink
  <2> QED
    BY <2>1, <2>2
<1>6. CopySurvives'
  BY <1>1, <1>3, Kinds DEF CopySurvives
<1>7. PlaceInv'
  BY <1>1, <1>3, <1>4, <1>5, Kinds DEF IInv, PlaceInv, Copy
<1> QED
  BY <1>1, <1>3, <1>6, <1>7 DEF IInv, TypeOK, FailureIsUndone, SuccessIsClean

LEMMA FailingKeepsIInv == IInv /\ RenameFails => IInv'
<1> SUFFICES ASSUME IInv, RenameFails  PROVE IInv'
  OBVIOUS
<1>1. /\ place \in {"stage", "keep", "put"} /\ outcome = "none"
      /\ place' = "restore" /\ outcome' = outcome
      /\ UNCHANGED <<way, entry, runs, before, had>>
  BY DEF IInv, PlaceInv, RenameFails, GoesTo
<1>2. Untouched \/ Aside
  BY <1>1 DEF IInv, PlaceInv
<1>3. Untouched' \/ Aside'
  BY <1>1, <1>2 DEF Untouched, Aside, HadExisting, BackupFree
<1> QED
  BY <1>1, <1>3 DEF IInv, TypeOK, PlaceInv, CopySurvives, FailureIsUndone, SuccessIsClean

LEMMA RestoreKeepsIInv == IInv /\ Restore => IInv'
<1> SUFFICES ASSUME IInv, Restore  PROVE IInv'
  OBVIOUS
<1>1. /\ entry \in [Paths -> Entries] /\ outcome = "none" /\ (Untouched \/ Aside)
      /\ before \in Entries /\ before # Partial /\ UNCHANGED <<way, runs, before, had>>
  BY DEF IInv, TypeOK, PlaceInv, Restore
<1>2. CASE MovedAside /\ entry' = Replaced("backup", "target") /\ GoesTo("discard")
  <2>1. Aside /\ HadExisting /\ entry["backup"] = before
    BY <1>1, <1>2, Kinds DEF MovedAside, Untouched, Aside, BackupFree
  <2>2. /\ entry' \in [Paths -> Entries] /\ entry'["target"] = before
        /\ entry'["backup"] = Nothing
    BY <1>1, <1>2, <2>1, Kinds DEF Replaced, Paths
  <2>3. Untouched'
    BY <1>1, <2>2, Kinds DEF Untouched, BackupFree
  <2>4. CopySurvives'
    BY <1>1, <1>2, <2>1, <2>2, Kinds DEF MovedAside, CopySurvives
  <2>5. PlaceInv'
    BY <1>1, <1>2, <2>2, <2>3 DEF GoesTo, PlaceInv
  <2> QED
    BY <1>1, <1>2, <2>2, <2>4, <2>5 DEF GoesTo, IInv, TypeOK, FailureIsUndone, SuccessIsClean
<1>3. CASE MovedAside /\ entry' = entry /\ Ends("raised")
  BY <1>1, <1>3 DEF Ends, IInv, TypeOK, PlaceInv, CopySurvives, FailureIsUndone, SuccessIsClean
<1>4. CASE ~ MovedAside /\ entry' = entry /\ GoesTo("discard")
  <2>1. before.kind # "dangling" => Untouched
    <3>1. CASE Untouched
      BY <3>1
    <3>2. CASE Aside /\ HadExisting
      BY <1>1, <1>4, <3>2, Kinds DEF MovedAside, Aside, Exists, IsSymlink, HadExisting
    <3>3. CASE Aside /\ ~ HadExisting
      BY <3>3 DEF Aside, Untouched, HadExisting
    <3> QED
      BY <1>1, <3>1, <3>2, <3>3
  <2>2. Untouched => Untouched'
    BY <1>1, <1>4 DEF Untouched, BackupFree
  <2> QED
    BY <1>1, <1>4, <2>1, <2>2 DEF GoesTo, IInv, TypeOK, PlaceInv, CopySurvives,
      FailureIsUndone, SuccessIsClean
<1> QED
  BY <1>2, <1>3, <1>4 DEF Restore

LEMMA DiscardKeepsIInv == IInv /\ Discard => IInv'
<1> SUFFICES ASSUME IInv, Discard  PROVE IInv'
  OBVIOUS
<1>1. /\ entry \in [Paths -> Entries] /\ way \in {"file", "tree"} /\ outcome = "none"
      /\ before.kind # "dangling" => Untouched
      /\ place' = "idle" /\ UNCHANGED <<way, runs, before, had>>
      /\ \/ outcome' = "raised" /\ entry' = entry
         \/ /\ outcome' = "failed"
            /\ entry' = IF way = "file" THEN Without("temporary") ELSE entry
  BY DEF IInv, TypeOK, PlaceInv, Discard, Ends
<1>2. /\ entry' \in [Paths -> Entries]
      /\ entry'["target"] = entry["target"] /\ entry'["backup"] = entry["backup"]
      /\ outcome' = "failed" /\ way = "file" => entry'["temporary"] = Nothing
  BY <1>1, Kinds DEF Without, Paths
<1>3. TypeOK'
  BY <1>1, <1>2 DEF IInv, TypeOK
<1>4. FailureIsUndone'
  <2> SUFFICES ASSUME outcome' = "failed", before.kind # "dangling"
               PROVE  entry'["target"] = before /\ ~ Leftover'
    BY <1>1 DEF FailureIsUndone
  <2>1. BackupFree' /\ TemporaryFree'
    BY <1>1, <1>2, Kinds DEF Untouched, BackupFree, TemporaryFree
  <2>2. ~ Leftover'
    BY <1>3, <2>1 DEF TypeOK, Leftover, BackupFree, TemporaryFree
  <2> QED
    BY <1>1, <1>2, <2>2 DEF Untouched
<1> QED
  BY <1>1, <1>2, <1>3, <1>4 DEF IInv, PlaceInv, CopySurvives, SuccessIsClean

LEMMA CleanKeepsIInv == IInv /\ Clean => IInv'
<1> SUFFICES ASSUME IInv, Clean  PROVE IInv'
  OBVIOUS
<1>1. /\ entry \in [Paths -> Entries] /\ way \in {"file", "tree"} /\ outcome = "none"
      /\ entry["target"] = Copy(runs) /\ runs \in 0..MaxRuns /\ TemporaryFree
      /\ before.kind # "dangling" /\ ~ Exists(entry["backup"]) => BackupFree
      /\ UNCHANGED <<way, runs, before, had>>
      /\ (place' = "idle" /\ outcome' \in {"installed", "raised"})
           \/ (place' = "clean" /\ outcome' = "none")
  BY DEF IInv, TypeOK, PlaceInv, Clean, Ends, GoesTo
<1>2. /\ \/ entry' = entry
         \/ entry' = [entry EXCEPT !["backup"] = Nothing]
         \/ entry' = [entry EXCEPT !["backup"] = Partial] /\ outcome' # "installed"
      /\ outcome' = "installed" =>
           (~ Exists(entry["backup"]) /\ entry' = entry) \/ entry'["backup"] = Nothing
  BY <1>1 DEF Clean, Without, Ends, GoesTo, Paths
<1>3. /\ entry' \in [Paths -> Entries] /\ entry'["target"] = Copy(runs)
      /\ entry'["temporary"] = entry["temporary"]
  BY <1>1, <1>2, Kinds DEF Paths
<1>4. TypeOK'
  BY <1>1, <1>3 DEF IInv, TypeOK
<1>5. TemporaryFree'
  BY <1>1, <1>3 DEF TemporaryFree
<1>6. CopySurvives'
  BY <1>1, <1>3, Kinds DEF CopySurvives
<1>7. SuccessIsClean'
  <2> SUFFICES ASSUME outcome' = "installed", before.kind # "dangling"  PROVE ~ Leftover'
    BY <1>1, <1>3 DEF SuccessIsClean
  <2>1. BackupFree'
    BY <1>1, <1>2, Kinds DEF BackupFree
  <2> QED
    BY <1>4, <1>5, <2>1 DEF TypeOK, Leftover, BackupFree, TemporaryFree
<1>8. PlaceInv'
  <2>1. place' = "clean" => entry'["backup"] = Partial
    BY <1>1 DEF Clean, Ends, GoesTo, Paths
  <2> QED
    BY <1>1, <1>3, <1>5, <2>1, Kinds DEF IInv, PlaceInv
<1> QED
  BY <1>1, <1>4, <1>6, <1>7, <1>8 DEF IInv, FailureIsUndone

LEMMA NextIInv == IInv /\ [Next]_vars => IInv'
<1> SUFFICES ASSUME IInv, [Next]_vars  PROVE IInv'
  OBVIOUS
<1>1. CASE Crash
  BY <1>1 DEF Crash, Ends, IInv, TypeOK, PlaceInv, CopySurvives, FailureIsUndone, SuccessIsClean
<1>2. CASE UNCHANGED vars
  BY <1>2 DEF vars, IInv, TypeOK, PlaceInv, CopySurvives, FailureIsUndone, SuccessIsClean,
    Untouched, Aside, HadExisting, BackupFree, TemporaryFree, Source, Leftover
<1> QED
  BY <1>1, <1>2, StartKeepsIInv, CheckKeepsIInv, StageKeepsIInv, KeepKeepsIInv, PutKeepsIInv,
    FailingKeepsIInv, RestoreKeepsIInv, DiscardKeepsIInv, CleanKeepsIInv DEF Next

(* A whole copy stays at the target or beside it, however many runs there  *)
(* are and wherever they fail or are killed.                               *)
THEOREM CopiesSurvive == Spec => []CopySurvives
<1>1. Spec => []IInv
  BY InitIInv, NextIInv, PTL DEF Spec
<1>2. IInv => CopySurvives
  BY DEF IInv
<1> QED
  BY <1>1, <1>2, PTL

(* An install that says it failed has left everything as it was.           *)
THEOREM FailuresAreUndone == Spec => []FailureIsUndone
<1>1. Spec => []IInv
  BY InitIInv, NextIInv, PTL DEF Spec
<1>2. IInv => FailureIsUndone
  BY DEF IInv
<1> QED
  BY <1>1, <1>2, PTL

(* An install that succeeds has installed its own copy and nothing else.   *)
THEOREM SuccessesAreClean == Spec => []SuccessIsClean
<1>1. Spec => []IInv
  BY InitIInv, NextIInv, PTL DEF Spec
<1>2. IInv => SuccessIsClean
  BY DEF IInv
<1> QED
  BY <1>1, <1>2, PTL

(* The types of the two installs. *)
THEOREM TypeCorrect == Spec => []TypeOK
<1>1. Spec => []IInv
  BY InitIInv, NextIInv, PTL DEF Spec
<1>2. IInv => TypeOK
  BY DEF IInv
<1> QED
  BY <1>1, <1>2, PTL

-----------------------------------------------------------------------------
(* What an install may delete: a copy, once one that is at least as new is *)
(* in its place.  No copy is newer than the run.                           *)
NoneNewer ==
  \A path \in Paths : \A n \in 0..MaxRuns : entry[path] = Copy(n) => n <= runs

Kept(n) == \E path \in {"target", "backup"} : entry[path] = Copy(n)

Succeeded == \A n \in 0..MaxRuns : Kept(n) => \E m \in n..MaxRuns : Kept(m)'

NeverOlder == [][Succeeded]_vars

LEMMA CopiesDiffer ==
  \A m, n \in 0..MaxRuns :
    /\ Copy(m) = Copy(n) => m = n
    /\ Copy(m) # Nothing /\ Copy(m) # Partial /\ Exists(Copy(m))
BY DEF Copy, Nothing, Partial, Exists

LEMMA InitNoneNewer == Init => NoneNewer
<1> SUFFICES ASSUME Init, NEW path \in Paths, NEW n \in 0..MaxRuns, entry[path] = Copy(n)
             PROVE  n <= runs
  BY DEF NoneNewer
<1>1. PICK e \in {Nothing, Copy(0), Link("live"), Link("dangling")} :
        entry = [p \in Paths |-> IF p = "target" THEN e ELSE Nothing]
  BY DEF Init
<1>2. Copy(n) \in {Nothing, Copy(0), Link("live"), Link("dangling")}
  BY <1>1
<1>3. n = 0
  BY <1>2 DEF Copy, Nothing, Link
<1> QED
  BY <1>3 DEF Init

(* A path gets what another had, this run's copy, half a copy or nothing.  *)
LEMMA EntriesMove ==
  ASSUME IInv, [Next]_vars
  PROVE  /\ runs \in 0..MaxRuns /\ runs' \in 0..MaxRuns /\ runs <= runs'
         /\ \A path \in Paths :
              \/ entry'[path] \in {Nothing, Partial, Copy(runs')}
              \/ \E from \in Paths : entry'[path] = entry[from]
<1> DEFINE Moves ==
      \A path \in Paths :
        \/ entry'[path] \in {Nothing, Partial, Copy(runs')}
        \/ \E from \in Paths : entry'[path] = entry[from]
<1>1. entry \in [Paths -> Entries] /\ runs \in 0..MaxRuns
  BY DEF IInv, TypeOK
<1>2. CASE Start
  BY <1>1, <1>2 DEF Start, Paths
<1>3. CASE UNCHANGED <<entry, runs>>
  BY <1>1, <1>3
<1>4. ASSUME NEW from \in Paths, NEW to \in Paths, entry' = Replaced(from, to), runs' = runs
      PROVE  Moves
  BY <1>1, <1>4 DEF Replaced
<1>5. ASSUME NEW at \in Paths, NEW e \in {Nothing, Partial},
             entry' = [entry EXCEPT ![at] = e], runs' = runs
      PROVE  Moves
  BY <1>1, <1>5
<1>6. CASE Stage \/ Keep \/ Put \/ Restore
  BY <1>1, <1>3, <1>4, <1>6 DEF Stage, Keep, Put, Restore, Paths
<1>7. CASE Discard \/ Clean
  BY <1>1, <1>3, <1>5, <1>7 DEF Discard, Clean, Without, Paths
<1> QED
  BY <1>1, <1>2, <1>3, <1>6, <1>7 DEF Next, vars, Refuse, Check, RenameFails, Crash

LEMMA NextNoneNewer == IInv /\ NoneNewer /\ [Next]_vars => NoneNewer'
<1> SUFFICES ASSUME IInv, NoneNewer, [Next]_vars,
                    NEW path \in Paths, NEW n \in 0..MaxRuns, entry'[path] = Copy(n)
             PROVE  n <= runs'
  BY DEF NoneNewer
<1>1. runs \in 0..MaxRuns /\ runs' \in 0..MaxRuns /\ runs <= runs'
  BY EntriesMove
<1>2. CASE Copy(n) = Copy(runs')
  BY <1>1, <1>2, CopiesDiffer
<1>3. CASE \E from \in Paths : Copy(n) = entry[from]
  BY <1>1, <1>3 DEF NoneNewer
<1> QED
  BY <1>2, <1>3, EntriesMove, CopiesDiffer

(* Only four calls touch the target or what is kept beside it. *)
LEMMA NextSucceeds == IInv /\ NoneNewer /\ [Next]_vars => Succeeded
<1> SUFFICES ASSUME IInv, NoneNewer, [Next]_vars,
                    NEW n \in 0..MaxRuns, Kept(n)
             PROVE  \E m \in n..MaxRuns : Kept(m)'
  BY DEF Succeeded
<1>1. entry \in [Paths -> Entries] /\ runs \in 0..MaxRuns
  BY DEF IInv, TypeOK
<1>2. Kept(n)' => \E m \in n..MaxRuns : Kept(m)'
  OBVIOUS
<1>3. ASSUME entry'["target"] = entry["target"], entry'["backup"] = entry["backup"]
      PROVE  Kept(n)'
  BY <1>3 DEF Kept
<1>4. CASE Keep
  <2>1. ~ Exists(entry["backup"])
    BY <1>4 DEF Keep, IInv, PlaceInv, Untouched, BackupFree
  <2>2. entry["target"] = Copy(n)
    BY <2>1, CopiesDiffer DEF Kept
  <2>3. IsThere
    BY <2>2, CopiesDiffer DEF IsThere
  <2>4. entry'["backup"] = Copy(n)
    BY <1>1, <1>4, <2>2, <2>3 DEF Keep, Replaced, Paths
  <2> QED
    BY <1>2, <2>4 DEF Kept
<1>5. CASE Put
  <2>1. entry["target"] = Nothing
    BY <1>5 DEF Put, IInv, PlaceInv, Aside
  <2>2. entry["backup"] = Copy(n)
    BY <2>1, CopiesDiffer DEF Kept
  <2>3. entry'["backup"] = entry["backup"]
    BY <1>1, <1>5 DEF Put, Replaced, Paths
  <2> QED
    BY <1>2, <2>2, <2>3 DEF Kept
<1>6. CASE Restore
  <2>1. CASE entry' = entry
    BY <1>2, <1>3, <2>1
  <2>2. CASE MovedAside /\ entry' = Replaced("backup", "target")
    <3>1. entry["backup"] = Copy(n)
      BY <2>2, CopiesDiffer DEF MovedAside, Kept
    <3>2. entry'["target"] = Copy(n)
      BY <1>1, <2>2, <3>1 DEF Replaced, Paths
    <3> QED
      BY <1>2, <3>2 DEF Kept
  <2> QED
    BY <1>6, <2>1, <2>2 DEF Restore
<1>7. CASE Clean
  <2>1. entry["target"] = Copy(runs)
    BY <1>7 DEF Clean, IInv, PlaceInv
  <2>2. entry'["target"] = Copy(runs)
    BY <1>1, <1>7, <2>1 DEF Clean, Without, Paths
  <2>3. n <= runs
    BY DEF Kept, NoneNewer, Paths
  <2>4. PICK m \in n..MaxRuns : m = runs
    BY <1>1, <2>3
  <2> QED
    BY <2>2, <2>4 DEF Kept
<1>8. CASE Start \/ Stage \/ Discard
  <2>1. entry'["target"] = entry["target"] /\ entry'["backup"] = entry["backup"]
    BY <1>1, <1>8 DEF Start, Stage, Discard, Replaced, Without, Paths
  <2> QED
    BY <1>2, <1>3, <2>1
<1>9. CASE UNCHANGED entry
  BY <1>2, <1>3, <1>9
<1> QED
  BY <1>4, <1>5, <1>6, <1>7, <1>8, <1>9 DEF Next, vars, Refuse, Check, RenameFails, Crash

(* No step of any run gives up the newest copy for an older one: what is   *)
(* lost from the target and from beside it is replaced by at least as new. *)
THEOREM CopiesNeverGetOlder == Spec => []NoneNewer /\ NeverOlder
<1>1. Init => IInv /\ NoneNewer
  BY InitIInv, InitNoneNewer
<1>2. (IInv /\ NoneNewer) /\ [Next]_vars => (IInv /\ NoneNewer)'
  BY NextIInv, NextNoneNewer
<1>3. IInv /\ NoneNewer /\ [Next]_vars => [Succeeded]_vars
  BY NextSucceeds
<1> QED
  BY <1>1, <1>2, <1>3, PTL DEF Spec, NeverOlder
=============================================================================
